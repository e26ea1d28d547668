------------------------------- MODULE Accounts -------------------------------
(***************************************************************************)
(* Mail accounts: how a repository gets its address, and who can open it   *)
(* over IMAP and SMTP, while administrators add, rotate and delete and the *)
(* process of Startup comes and goes.                                      *)
(*                                                                         *)
(* A password is the repository it was made for and a number: two random   *)
(* tokens are never one.  Different names may have one address, for        *)
(* projectSlug keeps letters and digits only, and the eight digits of an   *)
(* id that make an address another may be in a name as well.               *)
(***************************************************************************)
EXTENDS Startup

CONSTANTS
  Adders,         \* requests that add a repository
  Clients,        \* connections of mail clients
  Natural,        \* the address for a name
  Suffixed,       \* the address for a name and an id, where that one is taken
  None,           \* no handler, no connection, no row
  MaxRotations    \* bound: passwords of a repository after its first

ASSUME AddressAssumption ==
  /\ Natural \in [Names -> Addresses \ Legacy]
  /\ Suffixed \in [Names -> [Ids -> Addresses \ Legacy]]
ASSUME RotationAssumption == MaxRotations \in Nat

Passwords == [repo : Ids, number : Nat]
AddType == [name : Names, id : Ids, address : Addresses]

\* A connection: the row that Authenticate has read, its password and its
\* address, what the client gave as password, and whose mail it was shown, or
\* on whose account its mail was taken.
ConnType ==
  [service : {"imap", "smtp"}, secure : BOOLEAN, step : {"new", "verify", "in"},
   row : Passwords \cup {None}, address : Addresses \cup {None},
   given : Passwords \cup {None}, served : Ids \cup {None}]

ASSUME NoneAssumption == None \notin Adders \cup Ids \cup AddType \cup Passwords \cup ConnType

VARIABLES
  number,       \* passwords that were made for each id; 0: no such repository yet
  add,          \* what a handler is about to insert, or None
  identityMu,   \* the handler that holds it, or None
  removing,     \* deletions under way
  conn          \* connections, or None

vars == <<process, cfg, rows, number, add, identityMu, removing, conn>>
startup == <<process, cfg>>
requests == <<number, add, identityMu, removing>>

Init ==
  /\ StartupInit
  /\ number = [i \in Ids |-> IF i \in DOMAIN rows THEN 1 ELSE 0]
  /\ add = [h \in Adders |-> None] /\ identityMu = None /\ removing = {}
  /\ conn = [c \in Clients |-> None]

\* The administration is there.
WebUp == \E t \in BOOLEAN : <<"web", t>> \in listening

HasAddress(address) == \E i \in DOMAIN rows : rows[i].address = address
Stored(i) == i \in DOMAIN rows

Password(i) == [repo |-> i, number |-> number[i]]
Issued == {p \in [repo : Ids, number : 1 .. MaxRotations + 1] : p.number <= number[p.repo]}

Unused(i) == number[i] = 0 /\ \A h \in Adders : add[h] # None => add[h].id # i

-----------------------------------------------------------------------------
(* Wrong versions of definitions below, none of them the code's: each is a  *)
(* slip that breaks one of the properties at the end of this module.        *)

\* Look for an address without the lock.
ChooseUnlocked(h) ==
  /\ WebUp /\ add[h] = None
  /\ \E n \in Names, i \in Ids :
       /\ Unused(i)
       /\ add' = [add EXCEPT ![h] =
            [name |-> n, id |-> i,
             address |-> IF HasAddress(Natural[n]) THEN Suffixed[n][i] ELSE Natural[n]]]
  /\ UNCHANGED <<startup, rows, number, identityMu, removing, conn>>

\* Give the lock back on success only.
UnlockForgotten(h) == add' = [add EXCEPT ![h] = None] /\ UNCHANGED identityMu

\* Answer a command with the repository that has the address by now.
ReadByAddress(c) ==
  /\ conn[c] # None /\ conn[c].step = "in" /\ conn[c].service = "imap"
  /\ \E i \in DOMAIN rows :
       rows[i].address = conn[c].address /\ conn' = [conn EXCEPT ![c].served = i]
  /\ UNCHANGED <<startup, rows, requests>>

-----------------------------------------------------------------------------
(* AddRepository                                                           *)

\* identityMu.Lock and availableMailAddress, with a new id.
ChooseAddress(h) ==
  /\ WebUp /\ add[h] = None /\ identityMu = None
  /\ identityMu' = h
  /\ \E n \in Names, i \in Ids :
       /\ Unused(i)
       /\ add' = [add EXCEPT ![h] =
            [name |-> n, id |-> i,
             address |-> IF HasAddress(Natural[n]) THEN Suffixed[n][i] ELSE Natural[n]]]
  /\ UNCHANGED <<startup, rows, number, removing, conn>>

Unlock(h) == identityMu' = None /\ add' = [add EXCEPT ![h] = None]

\* UNIQUE(name) and UNIQUE(mail_username).
Conflict(a) == \E i \in DOMAIN rows : rows[i].name = a.name \/ rows[i].address = a.address

CreateRepository(h) ==
  /\ add[h] # None /\ ~Conflict(add[h])
  /\ LET a == add[h] IN
     /\ rows' = [i \in DOMAIN rows \cup {a.id} |->
                   IF i = a.id THEN [name |-> a.name, address |-> a.address, status |-> "live"]
                   ELSE rows[i]]
     /\ number' = [number EXCEPT ![a.id] = 1]
  /\ Unlock(h)
  /\ UNCHANGED <<startup, removing, conn>>

\* A conflict, a client that went away, a database that fails.
AddFails(h) ==
  /\ add[h] # None
  /\ Unlock(h)
  /\ UNCHANGED <<startup, rows, number, removing, conn>>

-----------------------------------------------------------------------------
(* Rotation and deletion                                                   *)

RotateMailCredential(i) ==
  /\ WebUp /\ Stored(i) /\ number[i] <= MaxRotations
  /\ number' = [number EXCEPT ![i] = @ + 1]
  /\ UNCHANGED <<startup, rows, add, identityMu, removing, conn>>

SetDeleting(i) ==
  /\ WebUp /\ Stored(i)
  /\ rows' = Marked(i) /\ removing' = removing \cup {i}
  /\ UNCHANGED <<startup, number, add, identityMu, conn>>

\* A refresh that was in flight writes its status over the mark.  A deletion
\* counts as under way until the last of these writes, even where its request
\* has returned: nothing else asks who is removing.
StatusWritten(i) ==
  /\ i \in removing /\ Stored(i)
  /\ rows' = [rows EXCEPT ![i].status = "live"]
  /\ UNCHANGED <<startup, requests, conn>>

DeleteRepository(i) ==
  /\ i \in removing
  /\ rows' = Without(i) /\ removing' = removing \ {i}
  /\ UNCHANGED <<startup, number, add, identityMu, conn>>

DeletionFails(i) ==
  /\ i \in removing /\ removing' = removing \ {i}
  /\ UNCHANGED <<startup, rows, number, add, identityMu, conn>>

-----------------------------------------------------------------------------
(* IMAP and SMTP sessions                                                  *)

At(c, service, step) == conn[c] # None /\ conn[c].service \in service /\ conn[c].step = step

NewConn(service, secure) ==
  [service |-> service, secure |-> secure, step |-> "new", row |-> None,
   address |-> None, given |-> None, served |-> None]

\* NewSession; an old connection is closed.
Connect(c) ==
  /\ \E l \in listening :
       l[1] # "web" /\ conn' = [conn EXCEPT ![c] = NewConn(l[1], l[2])]
  /\ UNCHANGED <<startup, rows, requests>>

\* The libraries' STARTTLS: IMAP's before a login, SMTP's at any time, with
\* another session.
StartTLS(c) ==
  /\ At(c, {"imap", "smtp"}, "new") \/ At(c, {"smtp"}, "in")
  /\ ~conn[c].secure /\ HasTLS(cfg, conn[c].service)
  /\ conn' = [conn EXCEPT ![c] = NewConn(conn[c].service, TRUE)]
  /\ UNCHANGED <<startup, rows, requests>>

\* Authenticate: RepositoryByUsername, of what the client gives as its
\* address and password.
RepositoryByUsername(c) ==
  /\ At(c, {"imap", "smtp"}, "new")
  /\ conn[c].secure \/ InsecureAuth(cfg, conn[c].service)
  /\ \E i \in DOMAIN rows, p \in Issued :
       /\ rows[i].status # "deleting"
       /\ conn' = [conn EXCEPT ![c] =
            [@ EXCEPT !.step = "verify", !.row = Password(i), !.address = rows[i].address,
                      !.given = p]]
  /\ UNCHANGED <<startup, rows, requests>>

\* VerifyPassword takes its time; what it compares with is the row as read.
VerifyPassword(c) ==
  /\ At(c, {"imap", "smtp"}, "verify")
  /\ conn' = [conn EXCEPT ![c] =
       IF conn[c].given = conn[c].row THEN [conn[c] EXCEPT !.step = "in"]
       ELSE NewConn(conn[c].service, conn[c].secure)]
  /\ UNCHANGED <<startup, rows, requests>>

\* Commands of a session that is logged in go by the id of its repository.
ReadMail(c) ==
  /\ At(c, {"imap"}, "in")
  /\ conn' = [conn EXCEPT ![c].served = IF Stored(conn[c].row.repo) THEN conn[c].row.repo
                                        ELSE None]
  /\ UNCHANGED <<startup, rows, requests>>

\* Mail, Rcpt and Data ask for the bit "authenticated" and throw the mail away.
TakeMail(c) ==
  /\ At(c, {"smtp"}, "in")
  /\ conn' = [conn EXCEPT ![c].served = conn[c].row.repo]
  /\ UNCHANGED <<startup, rows, requests>>

-----------------------------------------------------------------------------
(* The process                                                             *)

\* What is in memory ends with it.
Forget ==
  /\ add' = [h \in Adders |-> None] /\ identityMu' = None /\ removing' = {}
  /\ conn' = [c \in Clients |-> None]
  /\ UNCHANGED number

ServerExit == ExitOnError /\ Forget
Kill == Killed /\ Forget

Serve(l) == (Listen(l) \/ ServerFails(l)) /\ UNCHANGED <<requests, conn>>

Administer ==
  \/ \E h \in Adders : ChooseAddress(h) \/ CreateRepository(h) \/ AddFails(h)
  \/ \E i \in Ids : RotateMailCredential(i) \/ SetDeleting(i) \/ StatusWritten(i)
                    \/ DeleteRepository(i) \/ DeletionFails(i)

Session(c) ==
  \/ Connect(c) \/ StartTLS(c) \/ RepositoryByUsername(c) \/ VerifyPassword(c)
  \/ ReadMail(c) \/ TakeMail(c)

Next ==
  \/ Boot /\ UNCHANGED <<requests, conn>>
  \/ \E l \in Listeners : Serve(l)
  \/ ServerExit \/ Kill
  \/ Administer
  \/ \E c \in Clients : Session(c)

Spec == Init /\ [][Next]_vars

\* The goroutines of the servers run, and so does the select at the end of run.
LiveSpec ==
  /\ Spec
  /\ \A l \in Listeners : WF_vars(l \in opening /\ Serve(l))
  /\ WF_vars(ServerExit)

-----------------------------------------------------------------------------
(* Properties                                                              *)

\* The types, who holds the lock, and what a connection has at each step.
TypeOK ==
  /\ StartupTypeOK
  /\ number \in [Ids -> 0 .. MaxRotations + 1]
  /\ add \in [Adders -> AddType \cup {None}]
  /\ identityMu \in Adders \cup {None}
  /\ removing \subseteq Ids
  /\ \A h \in Adders : add[h] # None <=> identityMu = h
  /\ conn \in [Clients -> ConnType \cup {None}]
  /\ \A c \in Clients :
       conn[c] # None /\ conn[c].step # "new" => conn[c].row # None /\ conn[c].given # None

\* An address is looked for and inserted in two statements.  Unless it is one
\* with a suffix, which nobody looks for, it is still free at the second: of
\* two requests at once neither fails but for its name.
AddressStaysFree ==
  \A h \in Adders :
    LET a == add[h] IN
    a # None /\ a.address # Suffixed[a.name][a.id] => ~HasAddress(a.address)

\* Mail is shown to, and taken from, those only who gave a password that was
\* made for that repository, though addresses and names are used again after
\* deletions, and passwords change, while sessions live on.
OnlyHolders ==
  \A c \in Clients :
    conn[c] # None /\ conn[c].served # None =>
      conn[c].given # None /\ conn[c].given.repo = conn[c].served
=============================================================================
