------------------------------ MODULE MCAccounts ------------------------------
(***************************************************************************)
(* Accounts for TLC: two names with one address, an account of the retired *)
(* format, an interrupted deletion, and configurations right and wrong in  *)
(* each layer.                                                             *)
(***************************************************************************)
EXTENDS Accounts, TLC

MCAddresses == {"legacy", "a", "a-1"}
MCNatural == [n \in Names |-> "a"]
MCSuffixed == [n \in Names |-> [i \in Ids |-> "a-1"]]

Row(n, a, s) == [name |-> n, address |-> a, status |-> s]
MCRows == {[i \in {} |-> Row("A", "a", "live")],
           [i \in {1} |-> Row("A", "legacy", "live")],
           [i \in {1} |-> Row("A", "a", "deleting")]}

\* Files: none; TLS for IMAP and nothing for SMTP; plain SMTP on the network;
\* a TLS address without a certificate; a switch that cannot be read.
Imap(k) == <<"imap", k>>
MCFiles ==
  LET off(s) == <<s, "addr">> :> "" IN
  { off("smtp") @@ off("imap") @@ Imap("tls_addr") :> "public" @@ Imap("tls_cert") :> "file"
      @@ Imap("tls_key") :> "file",
    off("imap") @@ <<"smtp", "addr">> :> "public" @@ <<"smtp", "tls_cert">> :> "file"
      @@ <<"smtp", "tls_key">> :> "file",
    off("smtp") @@ Imap("tls_addr") :> "public",
    Imap("allow_insecure_auth") :> "garbled" }

\* Variables: the secrets; and besides, the switch of SMTP, half a
\* certificate, or empty and unreadable ones.
MCEnvs ==
  LET secrets == <<"", "master_key">> :> "good" @@ <<"admin", "password">> :> "good" IN
  { secrets,
    secrets @@ <<"smtp", "allow_insecure_auth">> :> "true",
    secrets @@ Imap("tls_cert") :> "file",
    secrets @@ <<"smtp", "addr">> :> "" @@ <<"git", "fetch_timeout">> :> "garbled",
    <<"admin", "password">> :> "good" }

Interchangeable == Permutations(Adders)
=============================================================================
