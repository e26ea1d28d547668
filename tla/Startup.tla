------------------------------- MODULE Startup -------------------------------
(***************************************************************************)
(* run of cmd/git2imap/main.go: one process after another over one         *)
(* database.  Each reads its configuration, removes the accounts of the    *)
(* retired format, takes interrupted deletions up again, starts the        *)
(* servers, and ends by a signal, by the first server that fails, or at    *)
(* any point by dying.                                                     *)
(*                                                                         *)
(* A deletion is its row here; its files are in RefreshLifecycle, as are   *)
(* the refreshes that EnsureAll starts for missing mirrors.                *)
(***************************************************************************)
EXTENDS Configuration

CONSTANTS
  Ids,            \* ids of repositories
  Names,          \* names of repositories
  Addresses,      \* mail addresses
  Legacy,         \* those of the retired format
  Files, Envs,    \* the layers that a configuration is read from
  InitialRows     \* what an earlier version may have left in the database

RowType == [name : Names, address : Addresses, status : {"live", "deleting"}]
Tables == UNION {[S -> RowType] : S \in SUBSET Ids}

ASSUME LayersAssumption ==
  \A layer \in Files \cup Envs : \A f \in DOMAIN layer : f \in Fields /\ layer[f] \in Values
ASSUME TablesAssumption == InitialRows \subseteq Tables /\ Legacy \subseteq Addresses

VARIABLES
  phase,      \* where run is
  cfg,        \* the configuration of the process, or of the last one
  rows,       \* the table repositories: its rows by id
  todo,       \* rows that EnsureAll has still to delete
  opening,    \* listeners whose goroutine has not come to listen
  listening,  \* listeners that accept connections
  errors      \* the channel of servers that failed

process == <<phase, todo, opening, listening, errors>>

Phases == {"down", "config", "store", "purge", "ensure", "servers", "serving"}

Deleting == {i \in DOMAIN rows : rows[i].status = "deleting"}
LegacyRows == {i \in DOMAIN rows : rows[i].address \in Legacy}

Without(i) == [j \in DOMAIN rows \ {i} |-> rows[j]]
Marked(i) == [rows EXCEPT ![i].status = "deleting"]

StartupInit ==
  /\ phase = "down" /\ cfg = Default /\ rows \in InitialRows
  /\ todo = {} /\ opening = {} /\ listening = {} /\ errors = {}

Goto(from, to) == phase = from /\ phase' = to

\* What a process had is gone with it.
End == phase' = "down" /\ todo' = {} /\ opening' = {} /\ listening' = {} /\ errors' = {}

-----------------------------------------------------------------------------
\* A slip, not the code's: a legacy account that cannot be removed is passed
\* over, as EnsureAll does with what it cannot delete.
PurgeFailsQuietly(i) ==
  /\ Goto("purge", "ensure") /\ i \in LegacyRows
  /\ rows' \in {rows, Marked(i)}
  /\ UNCHANGED <<cfg, todo, opening, listening, errors>>

-----------------------------------------------------------------------------
(* run, up to the servers                                                  *)

Start ==
  /\ Goto("down", "config")
  /\ UNCHANGED <<cfg, rows, todo, opening, listening, errors>>

LoadConfig ==
  /\ Goto("config", "store")
  /\ \E file \in Files, env \in Envs :
       Parsed(file) /\ Validate(Load(file, env)) /\ cfg' = Load(file, env)
  /\ UNCHANGED <<rows, todo, opening, listening, errors>>

ConfigRefused ==
  /\ Goto("config", "down")
  /\ \E file \in Files, env \in Envs : ~(Parsed(file) /\ Validate(Load(file, env)))
  /\ UNCHANGED <<cfg, rows, todo, opening, listening, errors>>

\* MkdirAll, store.Open with its migration, NewBox with a key of 32 bytes.
OpenStore ==
  /\ Goto("store", "purge")
  /\ UNCHANGED <<cfg, rows, todo, opening, listening, errors>>

\* A directory, the database, the list for the purge, a certificate or the
\* hash of the administrator's password.
StartFails ==
  /\ phase \in {"store", "purge", "servers"} /\ End
  /\ UNCHANGED <<cfg, rows>>

\* PurgeLegacyRepositories, one row after another.
PurgeLegacy(i) ==
  /\ phase = "purge" /\ i \in LegacyRows
  /\ rows' = Without(i)
  /\ UNCHANGED <<process, cfg>>

\* DeleteRepository fails, or the process dies in it: the row may be marked.
PurgeFails(i) ==
  /\ phase = "purge" /\ i \in LegacyRows
  /\ rows' \in {rows, Marked(i)}
  /\ End /\ UNCHANGED cfg

\* EnsureAll lists the rows; if it cannot, it is over.
ListRows ==
  /\ Goto("purge", "ensure") /\ LegacyRows = {}
  /\ todo' \in {Deleting, {}}
  /\ UNCHANGED <<cfg, rows, opening, listening, errors>>

\* Its deletions may fail, and nobody is told.
ResumeDeletion(i) ==
  /\ phase = "ensure" /\ i \in todo
  /\ todo' = todo \ {i}
  /\ rows' \in {Without(i), rows}
  /\ UNCHANGED <<phase, cfg, opening, listening, errors>>

EnsureDone ==
  /\ Goto("ensure", "servers") /\ todo = {}
  /\ UNCHANGED <<cfg, rows, todo, opening, listening, errors>>

\* New of the three servers; Serve starts a goroutine for each listener.
NewServers ==
  /\ Goto("servers", "serving")
  /\ opening' = Wanted(cfg)
  /\ UNCHANGED <<cfg, rows, todo, listening, errors>>

-----------------------------------------------------------------------------
(* The servers                                                             *)

Listen(l) ==
  /\ l \in opening
  /\ opening' = opening \ {l} /\ listening' = listening \cup {l}
  /\ UNCHANGED <<phase, cfg, rows, todo, errors>>

\* The address is taken, the certificate of the web server is unreadable, or
\* a listener breaks later.  The channel has room for all six.
ServerFails(l) ==
  /\ l \in opening \cup listening
  /\ opening' = opening \ {l} /\ listening' = listening \ {l}
  /\ errors' = errors \cup {l}
  /\ UNCHANGED <<phase, cfg, rows, todo>>

\* The first error ends run, and main does not wait for the other servers.
ExitOnError == phase = "serving" /\ errors # {} /\ End /\ UNCHANGED <<cfg, rows>>

\* A signal, or a sudden end: the defers of run leave nothing behind that the
\* next process would see.
Killed == phase # "down" /\ End /\ UNCHANGED <<cfg, rows>>

Boot ==
  \/ Start \/ LoadConfig \/ ConfigRefused \/ OpenStore \/ StartFails
  \/ ListRows \/ EnsureDone \/ NewServers
  \/ \E i \in Ids : PurgeLegacy(i) \/ PurgeFails(i) \/ ResumeDeletion(i)

StartupTypeOK ==
  /\ phase \in Phases /\ cfg \in [Fields -> Values] /\ rows \in Tables
  /\ todo \subseteq Ids
  /\ opening \subseteq Listeners /\ listening \subseteq Listeners
  /\ errors \subseteq Listeners

-----------------------------------------------------------------------------
(* Properties                                                              *)

\* PurgeLegacyRepositories removes the accounts of the retired format before
\* anybody can connect, however often it fails and the process dies.
NoLegacyServed == opening \cup listening # {} => LegacyRows = {}

\* An address that an administrator has configured is listened at, or the
\* process ends: what Validate lets through is what Serve starts, and no
\* server is lost in silence.
Served == Configured(cfg) \subseteq listening
AddressServedOrExit == phase = "serving" /\ ~Served ~> phase = "down" \/ Served
=============================================================================
