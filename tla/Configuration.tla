---------------------------- MODULE Configuration ----------------------------
(***************************************************************************)
(* The configuration of internal/config/config.go, and what the servers    *)
(* make of it.  It is laid over in three layers: defaults, a YAML file,    *)
(* the environment.  A layer gives values to some of the fields.           *)
(*                                                                         *)
(* A value is what the program tells apart: empty or not, an address of    *)
(* this host or of the network, a value that is accepted or not.           *)
(* "garbled" is text that no boolean, number or duration is read from.     *)
(***************************************************************************)
EXTENDS Naturals

Services == {"web", "imap", "smtp"}

\* Without these the program does not start; the secrets have no default.
Secrets == {<<"", "master_key">>, <<"admin", "password">>}
Numbers == {<<"git", "clone_timeout">>, <<"git", "fetch_timeout">>,
            <<"smtp", "max_message_bytes">>}
Required == Secrets \cup Numbers \cup
  {<<"", "public_host">>, <<"", "data_dir">>, <<"", "cache_dir">>, <<"admin", "username">>}

Switches == {"imap", "smtp"} \X {"allow_insecure_auth"}
Typed == Numbers \cup Switches

Fields ==
  Required \cup Switches \cup
    (Services \X {"addr", "tls_addr", "tls_cert", "tls_key"})

Values == {"", "loopback", "public", "file", "good", "bad", "true", "false", "garbled"}

Default ==
  [f \in Fields |->
     IF f \in Required \ Secrets THEN "good"
     ELSE IF f[2] = "addr" THEN "loopback"
     ELSE IF f \in Switches THEN "false" ELSE ""]

\* A layer over another.
Over(layer, config) ==
  [f \in Fields |-> IF f \in DOMAIN layer THEN layer[f] ELSE config[f]]

\* yaml.Unmarshal sets what the file names, the empty string too.
Parsed(file) == \A f \in DOMAIN file \cap Typed : file[f] # "garbled"

\* applyEnv passes over variables that are empty or cannot be read.
Taken(env) ==
  [f \in {g \in DOMAIN env : env[g] # "" /\ (g \in Typed => env[g] # "garbled")} |-> env[f]]

Load(file, env) == Over(Taken(env), Over(file, Default))

\* A slip, not the code's: a TLS address needs no certificate.
ValidateWithoutTLS(c) ==
  /\ \A f \in Required : c[f] = "good"
  /\ \A s \in Services : (c[<<s, "tls_cert">>] = "") = (c[<<s, "tls_key">>] = "")

Validate(c) ==
  /\ \A f \in Required : c[f] = "good"
  /\ \A s \in Services :
       /\ (c[<<s, "tls_cert">>] = "") = (c[<<s, "tls_key">>] = "")
       /\ c[<<s, "tls_addr">>] # "" => c[<<s, "tls_cert">>] # "" /\ c[<<s, "tls_key">>] # ""

-----------------------------------------------------------------------------
(* A listener is a service and whether it speaks TLS from the first byte.  *)

Listeners == Services \X BOOLEAN

Configured(c) ==
  {l \in Listeners : c[<<l[1], IF l[2] THEN "tls_addr" ELSE "addr">>] # ""}

\* Serve of each server: what it listens on.
Wanted(c) == {l \in Configured(c) : l[2] => c[<<l[1], "tls_cert">>] # ""}

HasTLS(c, s) == c[<<s, "tls_cert">>] # "" \/ c[<<s, "tls_key">>] # ""

\* Whether a password is taken on a connection without TLS.
InsecureAuth(c, s) ==
  \/ c[<<s, "allow_insecure_auth">>] = "true"
  \/ ~HasTLS(c, s) /\ c[<<s, "addr">>] = "loopback"
=============================================================================
