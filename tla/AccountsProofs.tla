---------------------------- MODULE AccountsProofs ----------------------------
(***************************************************************************)
(* Proofs about Accounts and Startup, for any repositories, names and      *)
(* addresses, any clients and requests, and any configurations.            *)
(***************************************************************************)
EXTENDS Accounts, TLAPS

-----------------------------------------------------------------------------
(* The inductive invariant, part by part.                                  *)

\* Nothing listens before the servers are there, and nothing comes to them
\* before the accounts of the retired format are gone.
Purged ==
  /\ phase # "serving" => opening = {} /\ listening = {}
  /\ phase \in {"ensure", "servers", "serving"} => LegacyRows = {}

\* What is about to be inserted is not of that format.
NewFormat == \A h \in Adders : add[h] # None => add[h].address \notin Legacy

\* A connection is logged in with the password of the row it read, and served
\* as the repository of that row.
LoggedIn ==
  \A c \in Clients :
    conn[c] # None =>
      /\ conn[c].step = "in" => conn[c].given = conn[c].row
      /\ conn[c].served # None => conn[c].step = "in" /\ conn[c].served = conn[c].row.repo

IInv == TypeOK /\ Purged /\ NewFormat /\ AddressStaysFree /\ LoggedIn

\* What the steps of Startup and of the administrators leave in the table.
Shrinks ==
  /\ rows' \in Tables
  /\ DOMAIN rows' \subseteq DOMAIN rows
  /\ \A i \in DOMAIN rows' : rows'[i].address = rows[i].address

-----------------------------------------------------------------------------
(* Lemmas about the table and the configuration.                           *)

LEMMA RowsTyped ==
  ASSUME NEW t \in Tables
  PROVE  DOMAIN t \subseteq Ids /\ \A i \in DOMAIN t : t[i] \in RowType
BY DEF Tables

LEMMA TableOf ==
  ASSUME NEW S \in SUBSET Ids, NEW t \in [S -> RowType] PROVE t \in Tables
BY DEF Tables

\* A row less, and a row with another status.
LEMMA RowChanges ==
  ASSUME rows \in Tables, NEW i \in Ids
  PROVE  /\ rows' = Without(i) => Shrinks
         /\ \A s \in {"live", "deleting"} :
              i \in DOMAIN rows /\ rows' = [rows EXCEPT ![i].status = s] => Shrinks
<1>1. DOMAIN rows \subseteq Ids /\ \A j \in DOMAIN rows : rows[j] \in RowType
  BY RowsTyped
<1>2. Without(i) \in [DOMAIN rows \ {i} -> RowType]
  BY <1>1 DEF Without
<1>3. ASSUME NEW s \in {"live", "deleting"}, i \in DOMAIN rows
      PROVE  [rows EXCEPT ![i].status = s] \in [DOMAIN rows -> RowType]
  BY <1>1, <1>3 DEF RowType, Tables
<1>4. rows' = Without(i) => Shrinks
  BY <1>1, <1>2, TableOf DEF Shrinks, Without
<1>5. ASSUME NEW s \in {"live", "deleting"}, i \in DOMAIN rows,
             rows' = [rows EXCEPT ![i].status = s]
      PROVE  Shrinks
  <2>1. rows' \in Tables
    BY <1>1, <1>3, <1>5, TableOf
  <2>2. rows \in [DOMAIN rows -> RowType]
    BY DEF Tables
  <2>3. QED
    BY <1>1, <1>5, <2>1, <2>2 DEF Shrinks, RowType
<1>6. QED
  BY <1>4, <1>5

\* No change is one, too.
LEMMA NoChange == ASSUME rows \in Tables, rows' = rows PROVE Shrinks
BY DEF Shrinks

\* A table that shrinks gets no account of the retired format, and no address
\* that was free is taken in it.
LEMMA ShrinkKeeps ==
  ASSUME Shrinks
  PROVE  /\ LegacyRows' \subseteq LegacyRows
         /\ \A a : ~HasAddress(a) => ~HasAddress(a)'
BY DEF Shrinks, LegacyRows, HasAddress

\* Whatever the layers are, each field has one of its values.
LEMMA LoadTyped ==
  ASSUME NEW file \in Files, NEW env \in Envs PROVE Load(file, env) \in [Fields -> Values]
<1>1. Default \in [Fields -> Values]
  BY DEF Default, Values
<1>2. Over(file, Default) \in [Fields -> Values]
  BY <1>1, LayersAssumption DEF Over
<1>3. \A f \in DOMAIN Taken(env) : Taken(env)[f] \in Values
  BY LayersAssumption DEF Taken
<1>4. QED
  BY <1>2, <1>3 DEF Load, Over

-----------------------------------------------------------------------------
LEMMA InitInv == Init => IInv
<1> SUFFICES ASSUME Init PROVE IInv
  OBVIOUS
<1>1. rows \in Tables
  BY TablesAssumption DEF Init, StartupInit
<1>2. Default \in [Fields -> Values]
  BY DEF Default, Values
<1>3. StartupTypeOK
  BY <1>1, <1>2 DEF Init, StartupInit, StartupTypeOK, Phases
<1>4. number \in [Ids -> 0 .. MaxRotations + 1]
  BY RotationAssumption DEF Init
<1>5. TypeOK
  BY <1>3, <1>4, NoneAssumption DEF Init, TypeOK
<1>6. QED
  BY <1>5 DEF Init, StartupInit, IInv, Purged, NewFormat, AddressStaysFree, LoggedIn

-----------------------------------------------------------------------------
(* The steps of Startup.                                                   *)

\* What any of them does to the table and to the types.
LEMMA BootTypes ==
  ASSUME IInv,
         Boot \/ ExitOnError \/ Killed \/ \E l \in Listeners : Listen(l) \/ ServerFails(l)
  PROVE  Shrinks /\ StartupTypeOK'
<1> USE DEF IInv, TypeOK, StartupTypeOK, Phases
<1>1. rows \in Tables /\ todo \subseteq Ids
  OBVIOUS
<1>2. CASE LoadConfig
  <2>1. cfg' \in [Fields -> Values]
    BY <1>2, LoadTyped DEF LoadConfig
  <2>2. QED
    BY <1>2, <2>1, NoChange DEF LoadConfig, Goto
<1>3. CASE ListRows
  <2>1. Deleting \subseteq Ids
    BY RowsTyped DEF Deleting
  <2>2. QED
    BY <1>3, <2>1, NoChange DEF ListRows, Goto
<1>4. CASE Start \/ ConfigRefused \/ OpenStore \/ EnsureDone
  BY <1>4, NoChange DEF Start, ConfigRefused, OpenStore, EnsureDone, Goto
<1>5. CASE StartFails \/ ExitOnError \/ Killed
  BY <1>5, NoChange DEF StartFails, ExitOnError, Killed, End
<1>6. CASE NewServers
  BY <1>6, NoChange DEF NewServers, Goto, Wanted, Configured
<1>7. ASSUME NEW l \in Listeners, Listen(l) \/ ServerFails(l) PROVE Shrinks /\ StartupTypeOK'
  BY <1>7, NoChange DEF Listen, ServerFails
<1>8. ASSUME NEW i \in Ids, PurgeLegacy(i) \/ PurgeFails(i) \/ ResumeDeletion(i)
      PROVE  Shrinks /\ StartupTypeOK'
  <2>1. Shrinks
    BY <1>8, RowChanges, NoChange DEF PurgeLegacy, PurgeFails, ResumeDeletion, Marked, LegacyRows
  <2>2. QED
    BY <1>8, <2>1 DEF PurgeLegacy, PurgeFails, ResumeDeletion, process, End, Shrinks
<1>9. QED
  BY <1>2, <1>3, <1>4, <1>5, <1>6, <1>7, <1>8 DEF Boot

\* What they do to the phases.
LEMMA BootPhases ==
  ASSUME IInv, Shrinks,
         Boot \/ ExitOnError \/ Killed \/ \E l \in Listeners : Listen(l) \/ ServerFails(l)
  PROVE  Purged'
<1> USE DEF IInv, Purged, Goto
<1>1. LegacyRows' \subseteq LegacyRows
  BY ShrinkKeeps
<1>2. CASE Start \/ LoadConfig \/ ConfigRefused \/ OpenStore \/ EnsureDone \/ ListRows
  BY <1>1, <1>2 DEF Start, LoadConfig, ConfigRefused, OpenStore, EnsureDone, ListRows
<1>3. CASE StartFails \/ ExitOnError \/ Killed
  BY <1>3 DEF StartFails, ExitOnError, Killed, End
<1>4. CASE NewServers
  BY <1>1, <1>4 DEF NewServers
<1>5. ASSUME NEW l \in Listeners, Listen(l) \/ ServerFails(l) PROVE Purged'
  BY <1>1, <1>5 DEF Listen, ServerFails
<1>6. ASSUME NEW i \in Ids, PurgeLegacy(i) \/ PurgeFails(i) \/ ResumeDeletion(i)
      PROVE  Purged'
  BY <1>1, <1>6 DEF PurgeLegacy, PurgeFails, ResumeDeletion, process, End
<1>7. QED
  BY <1>2, <1>3, <1>4, <1>5, <1>6 DEF Boot

\* Requests and connections see of it that rows went away or changed status.
LEMMA ProcessStep ==
  ASSUME IInv,
         Boot \/ ExitOnError \/ Killed \/ \E l \in Listeners : Listen(l) \/ ServerFails(l),
         UNCHANGED <<requests, conn>> \/ Forget
  PROVE  IInv'
<1>1. Shrinks /\ StartupTypeOK' /\ Purged'
  BY BootTypes, BootPhases
<1>2. CASE UNCHANGED <<requests, conn>>
  BY <1>1, <1>2, ShrinkKeeps
     DEF requests, IInv, TypeOK, NewFormat, AddressStaysFree, LoggedIn
<1>3. CASE Forget
  BY <1>1, <1>3, NoneAssumption DEF Forget, IInv, TypeOK, NewFormat, AddressStaysFree, LoggedIn
<1>4. QED
  BY <1>2, <1>3

-----------------------------------------------------------------------------
(* The administrators' steps.                                              *)

\* The lock is free, so no other request has an address in hand.
LEMMA ChooseStep == ASSUME IInv, NEW h \in Adders, ChooseAddress(h) PROVE IInv'
<1>1. PICK n \in Names, i \in Ids :
        add' = [add EXCEPT ![h] =
          [name |-> n, id |-> i,
           address |-> IF HasAddress(Natural[n]) THEN Suffixed[n][i] ELSE Natural[n]]]
  BY DEF ChooseAddress
<1> DEFINE a == [name |-> n, id |-> i,
                 address |-> IF HasAddress(Natural[n]) THEN Suffixed[n][i] ELSE Natural[n]]
<1>2. /\ Natural[n] \in Addresses \ Legacy /\ Suffixed[n][i] \in Addresses \ Legacy
  BY AddressAssumption
<1>3. /\ a \in AddType /\ a # None /\ a.address \notin Legacy
      /\ a.address # Suffixed[a.name][a.id] => ~HasAddress(a.address)
  BY <1>2, NoneAssumption DEF AddType
<1> HIDE DEF a
<1>4. /\ add' = [add EXCEPT ![h] = a] /\ identityMu = None /\ identityMu' = h
      /\ UNCHANGED <<startup, rows, number, removing, conn>>
  BY <1>1 DEF ChooseAddress, a
<1>5. \A g \in Adders : g # h => add'[g] = None
  BY <1>4, NoneAssumption DEF IInv, TypeOK
<1>6. add'[h] = a
  BY <1>4 DEF IInv, TypeOK
<1>7. TypeOK'
  BY <1>3, <1>4, <1>5, <1>6
     DEF IInv, TypeOK, startup, process, StartupTypeOK
<1>8. NewFormat' /\ AddressStaysFree'
  BY <1>3, <1>4, <1>5, <1>6 DEF NewFormat, AddressStaysFree, HasAddress
<1>9. Purged' /\ LoggedIn'
  BY <1>4 DEF IInv, Purged, LoggedIn, LegacyRows, startup, process
<1>10. QED
  BY <1>7, <1>8, <1>9 DEF IInv

\* Nobody has an address in hand after the lock is given back.
LEMMA UnlockStep ==
  ASSUME IInv, NEW h \in Adders, add[h] # None, Unlock(h),
         rows' \in Tables, number' \in [Ids -> 0 .. MaxRotations + 1],
         LegacyRows' \subseteq LegacyRows, UNCHANGED <<startup, removing, conn>>
  PROVE  IInv'
<1>1. \A g \in Adders : add'[g] = None
  BY DEF IInv, TypeOK, Unlock
<1>2. TypeOK'
  <2>1. StartupTypeOK'
    BY DEF IInv, TypeOK, StartupTypeOK, startup, process
  <2>2. add' \in [Adders -> AddType \cup {None}] /\ identityMu' = None
    BY DEF Unlock, IInv, TypeOK
  <2>3. QED
    BY <1>1, <2>1, <2>2, NoneAssumption DEF IInv, TypeOK
<1>3. QED
  BY <1>1, <1>2
     DEF IInv, Purged, NewFormat, AddressStaysFree, LoggedIn, startup, process

LEMMA CreateStep == ASSUME IInv, NEW h \in Adders, CreateRepository(h) PROVE IInv'
<1> DEFINE a == add[h]
           new == [name |-> a.name, address |-> a.address, status |-> "live"]
           S == DOMAIN rows \cup {a.id}
<1>1. a \in AddType /\ a.address \notin Legacy /\ new \in RowType
  BY DEF CreateRepository, IInv, TypeOK, NewFormat, AddType, RowType
<1>2. /\ rows' = [i \in S |-> IF i = a.id THEN new ELSE rows[i]]
      /\ number' = [number EXCEPT ![a.id] = 1]
      /\ add[h] # None /\ Unlock(h) /\ UNCHANGED <<startup, removing, conn>>
  BY DEF CreateRepository
<1>3. S \in SUBSET Ids /\ \A i \in DOMAIN rows : rows[i] \in RowType
  BY <1>1, RowsTyped DEF IInv, TypeOK, StartupTypeOK, AddType
<1>4. rows' \in Tables
  <2>1. rows' \in [S -> RowType]
    BY <1>1, <1>2, <1>3
  <2>2. QED
    BY <1>3, <2>1, TableOf
<1>5. LegacyRows' \subseteq LegacyRows
  BY <1>1, <1>2 DEF LegacyRows
<1>6. number' \in [Ids -> 0 .. MaxRotations + 1]
  BY <1>1, <1>2, RotationAssumption DEF IInv, TypeOK, AddType
<1>7. QED
  BY <1>2, <1>4, <1>5, <1>6, UnlockStep

LEMMA AdministerStep == ASSUME IInv, Administer PROVE IInv'
<1>1. rows \in Tables
  BY DEF IInv, TypeOK, StartupTypeOK
<1>2. ASSUME NEW h \in Adders, AddFails(h) PROVE IInv'
  BY <1>1, <1>2, UnlockStep DEF AddFails, LegacyRows, IInv, TypeOK
<1>3. ASSUME NEW i \in Ids,
             \/ RotateMailCredential(i) \/ SetDeleting(i) \/ StatusWritten(i)
             \/ DeleteRepository(i) \/ DeletionFails(i)
      PROVE  IInv'
  <2>1. Shrinks
    BY <1>1, <1>3, RowChanges, NoChange
       DEF RotateMailCredential, SetDeleting, StatusWritten, DeleteRepository,
           DeletionFails, Marked, Stored
  <2>2. /\ UNCHANGED <<startup, add, identityMu, conn>> /\ removing' \subseteq Ids
    BY <1>3 DEF RotateMailCredential, SetDeleting, StatusWritten, DeleteRepository,
                DeletionFails, requests, IInv, TypeOK
  <2>3. number' \in [Ids -> 0 .. MaxRotations + 1]
    <3>1. CASE RotateMailCredential(i)
      BY <3>1, RotationAssumption DEF RotateMailCredential, IInv, TypeOK
    <3>2. QED
      BY <1>3, <3>1 DEF SetDeleting, StatusWritten, DeleteRepository, DeletionFails,
                        requests, IInv, TypeOK
  <2>4. TypeOK'
    BY <2>1, <2>2, <2>3 DEF IInv, TypeOK, StartupTypeOK, Shrinks, startup, process
  <2>5. QED
    BY <2>1, <2>2, <2>4, ShrinkKeeps
       DEF IInv, Purged, NewFormat, AddressStaysFree, LoggedIn, startup, process
<1>4. QED
  BY <1>2, <1>3, ChooseStep, CreateStep DEF Administer

-----------------------------------------------------------------------------
(* The steps of a connection.                                              *)

LEMMA SessionStep == ASSUME IInv, NEW c \in Clients, Session(c) PROVE IInv'
<1> DEFINE Good(v) ==
      /\ v \in ConnType
      /\ v.step # "new" => v.row # None /\ v.given # None
      /\ v.step = "in" => v.given = v.row
      /\ v.served # None => v.step = "in" /\ v.served = v.row.repo
<1>1. UNCHANGED <<startup, rows, requests>>
  BY DEF Session, Connect, StartTLS, RepositoryByUsername, VerifyPassword, ReadMail, TakeMail
<1>2. \A q \in Clients : conn[q] # None => Good(conn[q])
  BY DEF IInv, TypeOK, LoggedIn
<1>3. \A service \in {"imap", "smtp"}, secure \in BOOLEAN : Good(NewConn(service, secure))
  BY NoneAssumption DEF NewConn, ConnType
<1>4. \E v : Good(v) /\ conn' = [conn EXCEPT ![c] = v]
  <2>1. CASE Connect(c)
    <3>1. PICK l \in listening : l[1] # "web" /\ conn' = [conn EXCEPT ![c] = NewConn(l[1], l[2])]
      BY <2>1 DEF Connect
    <3>2. l[1] \in {"imap", "smtp"} /\ l[2] \in BOOLEAN
      BY <3>1 DEF IInv, TypeOK, StartupTypeOK, Listeners, Services
    <3>3. QED
      BY <1>3, <3>1, <3>2
  <2>2. CASE StartTLS(c)
    <3>1. conn[c] \in ConnType
      BY <1>2, <2>2 DEF StartTLS, At
    <3>2. Good(NewConn(conn[c].service, TRUE))
      BY <1>3, <3>1 DEF ConnType
    <3>3. conn' = [conn EXCEPT ![c] = NewConn(conn[c].service, TRUE)]
      BY <2>2 DEF StartTLS
    <3> HIDE DEF Good
    <3>4. QED
      BY <3>2, <3>3
  <2>3. CASE RepositoryByUsername(c)
    <3>1. PICK i \in DOMAIN rows, p \in Issued :
            conn' = [conn EXCEPT ![c] =
              [@ EXCEPT !.step = "verify", !.row = Password(i),
                        !.address = rows[i].address, !.given = p]]
      BY <2>3 DEF RepositoryByUsername
    <3> DEFINE v == [conn[c] EXCEPT !.step = "verify", !.row = Password(i),
                                    !.address = rows[i].address, !.given = p]
    <3>2. conn[c] # None /\ conn[c].step = "new" /\ Good(conn[c])
      BY <1>2, <2>3 DEF RepositoryByUsername, At
    <3>3. i \in Ids /\ rows[i].address \in Addresses
      BY RowsTyped DEF IInv, TypeOK, StartupTypeOK, RowType
    <3>4. Password(i) \in Passwords /\ Password(i) # None
      BY <3>3, NoneAssumption, RotationAssumption DEF Password, Passwords, IInv, TypeOK
    <3>5. p \in Passwords /\ p # None
      BY NoneAssumption, RotationAssumption DEF Issued, Passwords
    <3>6. Good(v)
      BY <3>2, <3>3, <3>4, <3>5 DEF ConnType
    <3>7. conn' = [conn EXCEPT ![c] = v]
      BY <3>1 DEF IInv, TypeOK
    <3>8. QED
      BY <3>6, <3>7
  <2>4. CASE VerifyPassword(c)
    <3>1. conn[c] # None /\ conn[c].step = "verify" /\ Good(conn[c])
      BY <1>2, <2>4 DEF VerifyPassword, At
    <3>2. CASE conn[c].given = conn[c].row
      <4>1. Good([conn[c] EXCEPT !.step = "in"])
        BY <3>1, <3>2 DEF ConnType
      <4>2. QED
        BY <2>4, <3>2, <4>1 DEF VerifyPassword
    <3>3. CASE conn[c].given # conn[c].row
      <4>1. Good(NewConn(conn[c].service, conn[c].secure))
        BY <1>3, <3>1 DEF ConnType
      <4>2. conn' = [conn EXCEPT ![c] = NewConn(conn[c].service, conn[c].secure)]
        BY <2>4, <3>3 DEF VerifyPassword
      <4> HIDE DEF Good
      <4>3. QED
        BY <4>1, <4>2
    <3>4. QED
      BY <3>2, <3>3
  <2>5. CASE ReadMail(c) \/ TakeMail(c)
    <3>1. conn[c] # None /\ conn[c].step = "in" /\ Good(conn[c])
      BY <1>2, <2>5 DEF ReadMail, TakeMail, At
    <3>2. conn[c].row \in Passwords
      BY <3>1 DEF ConnType
    <3>3. PICK i \in {conn[c].row.repo, None} : conn' = [conn EXCEPT ![c].served = i]
      BY <2>5 DEF ReadMail, TakeMail
    <3>4. Good([conn[c] EXCEPT !.served = i])
      BY <3>1, <3>2 DEF ConnType, Passwords
    <3>5. conn' = [conn EXCEPT ![c] = [conn[c] EXCEPT !.served = i]]
      BY <3>3
    <3>6. QED
      BY <3>4, <3>5
  <2>6. QED
    BY <2>1, <2>2, <2>3, <2>4, <2>5 DEF Session
<1>5. PICK v : Good(v) /\ conn' = [conn EXCEPT ![c] = v]
  BY <1>4
<1>6. /\ conn' \in [Clients -> ConnType \cup {None}]
      /\ \A q \in Clients : conn'[q] # None => Good(conn'[q])
  BY <1>2, <1>5 DEF IInv, TypeOK
<1>7. TypeOK'
  BY <1>1, <1>6 DEF IInv, TypeOK, StartupTypeOK, startup, process, requests
<1>8. LoggedIn'
  BY <1>6 DEF LoggedIn
<1>9. Purged' /\ NewFormat' /\ AddressStaysFree'
  BY <1>1 DEF IInv, Purged, NewFormat, AddressStaysFree, LegacyRows, HasAddress, startup,
              process, requests
<1>10. QED
  BY <1>7, <1>8, <1>9 DEF IInv

-----------------------------------------------------------------------------
\* The invariant is inductive.
LEMMA InductiveStep == IInv /\ [Next]_vars => IInv'
<1> SUFFICES ASSUME IInv, [Next]_vars PROVE IInv'
  OBVIOUS
<1>1. CASE \/ Boot /\ UNCHANGED <<requests, conn>>
           \/ \E l \in Listeners : Serve(l)
           \/ ServerExit \/ Kill
  BY <1>1, ProcessStep DEF Serve, ServerExit, Kill
<1>2. CASE Administer
  BY <1>2, AdministerStep
<1>3. CASE \E c \in Clients : Session(c)
  BY <1>3, SessionStep
<1>4. CASE UNCHANGED vars
  BY <1>4 DEF vars, process, IInv, TypeOK, StartupTypeOK, Purged, NewFormat,
              AddressStaysFree, LoggedIn, LegacyRows, HasAddress
<1>5. QED
  BY <1>1, <1>2, <1>3, <1>4 DEF Next

\* The invariant holds in every reachable state.
THEOREM Invariance == Spec => []IInv
BY InitInv, InductiveStep, PTL DEF Spec

\* Types, for any repositories, clients, requests and configurations.
THEOREM TypeCorrect == Spec => []TypeOK
<1>1. IInv => TypeOK
  BY DEF IInv
<1>2. QED
  BY <1>1, Invariance, PTL

\* The address that an add has found is free when its row is inserted,
\* however many requests add repositories at once.
THEOREM AddressesStayFree == Spec => []AddressStaysFree
<1>1. IInv => AddressStaysFree
  BY DEF IInv
<1>2. QED
  BY <1>1, Invariance, PTL

\* Nobody is served mail of a repository, or has mail taken, without a
\* password that was made for it.
THEOREM HoldersOnly == Spec => []OnlyHolders
<1>1. IInv => OnlyHolders
  BY DEF IInv, TypeOK, LoggedIn, OnlyHolders
<1>2. QED
  BY <1>1, Invariance, PTL

\* No account of the retired format is there while a server is, whatever fails
\* and however often the process starts.
THEOREM LegacyNeverServed == Spec => []NoLegacyServed
<1>1. IInv => NoLegacyServed
  BY DEF IInv, TypeOK, StartupTypeOK, Phases, Purged, NoLegacyServed
<1>2. QED
  BY <1>1, Invariance, PTL

-----------------------------------------------------------------------------
(* What is configured is served.                                           *)

\* What Validate lets through, Serve starts.
LEMMA ValidIsServed == ASSUME NEW c, Validate(c) PROVE Configured(c) \subseteq Wanted(c)
<1> SUFFICES ASSUME NEW l \in Configured(c), l[2] PROVE c[<<l[1], "tls_cert">>] # ""
  BY DEF Wanted
<1>1. l[1] \in Services /\ c[<<l[1], "tls_addr">>] # ""
  BY DEF Configured, Listeners
<1>2. QED
  BY <1>1 DEF Validate

\* The process goes on with a configuration that Validate has let through, and
\* a configured address is on its way to be served, served, or has failed and
\* waits in the channel for the select that ends run.
Attended ==
  /\ phase \in {"store", "purge", "ensure", "servers", "serving"} => Validate(cfg)
  /\ phase = "serving" => Configured(cfg) \subseteq opening \cup listening \cup errors

LEMMA AttendedInit == Init => Attended
BY DEF Init, StartupInit, Attended

LEMMA AttendedStep == Attended /\ [Next]_vars => Attended'
<1> SUFFICES ASSUME Attended, [Next]_vars PROVE Attended'
  OBVIOUS
<1>1. CASE LoadConfig
  BY <1>1 DEF LoadConfig, Goto, Attended
<1>2. CASE NewServers
  <2>1. Configured(cfg) \subseteq Wanted(cfg)
    BY <1>2, ValidIsServed DEF NewServers, Goto, Attended
  <2>2. QED
    BY <1>2, <2>1 DEF NewServers, Goto, Attended
<1>3. CASE Start \/ OpenStore \/ ListRows \/ EnsureDone
  BY <1>3 DEF Start, OpenStore, ListRows, EnsureDone, Goto, Attended
<1>4. CASE \E i \in Ids : PurgeLegacy(i) \/ ResumeDeletion(i)
  BY <1>4 DEF PurgeLegacy, ResumeDeletion, process, Attended
<1>5. CASE phase' = "down"
  BY <1>5 DEF Attended
<1>6. CASE \E l \in Listeners : Listen(l) \/ ServerFails(l)
  BY <1>6 DEF Listen, ServerFails, Attended
<1>7. CASE UNCHANGED <<process, cfg>>
  BY <1>7 DEF process, Attended
<1>8. CASE Boot
  BY <1>1, <1>2, <1>3, <1>4, <1>5, <1>8 DEF Boot, ConfigRefused, StartFails, PurgeFails, Goto, End
<1>9. CASE Administer
  BY <1>7, <1>9
  DEF Administer, ChooseAddress, CreateRepository, AddFails, RotateMailCredential, SetDeleting,
      StatusWritten, DeleteRepository, DeletionFails, startup
<1>10. CASE \E c \in Clients : Session(c)
  BY <1>7, <1>10
  DEF Session, Connect, StartTLS, RepositoryByUsername, VerifyPassword, ReadMail, TakeMail, startup
<1>11. QED
  BY <1>5, <1>6, <1>7, <1>8, <1>9, <1>10
  DEF Next, Serve, ServerExit, ExitOnError, Kill, Killed, End, vars

\* The safe half of AddressServedOrExit: no address that an administrator has
\* configured is passed over in silence, for any configuration that is let
\* through and whatever of the servers fails.
THEOREM NoAddressForgotten ==
  Spec => [](phase = "serving" => Configured(cfg) \subseteq opening \cup listening \cup errors)
<1>1. Attended => (phase = "serving" => Configured(cfg) \subseteq opening \cup listening \cup errors)
  BY DEF Attended
<1>2. QED
  BY <1>1, AttendedInit, AttendedStep, PTL DEF Spec
=============================================================================
