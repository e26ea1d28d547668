------------------------ MODULE RefreshLifecycleProofs ------------------------
(***************************************************************************)
(* Proofs about RefreshLifecycle, for any set of callers and deletions and *)
(* any number of crashes.                                                  *)
(***************************************************************************)
EXTENDS RefreshLifecycle, TLAPS

\* Refreshes that have loaded a row without the mark and still act on it.
PastCheck == {p \in Refreshes : pc[p] \in Working \ {"load", "close"}}

-----------------------------------------------------------------------------
(* The inductive invariant: what makes the properties hold, part by part.  *)

\* running[id] is p exactly between p's registration and its delete(running).
Registration ==
  \A p \in Refreshes : pc[p] \in Registered <=> running = p

\* A joiner waits for a call that is worked at or has ended, a deletion for one
\* that it cancelled.
WaitsForCall ==
  /\ \A p \in Refreshes :
       pc[p] = "wait" => joined[p] \in Refreshes /\ pc[joined[p]] \in Registered \cup {"returned"}
  /\ \A d \in Deleters :
       dpc[d] = "wait" => dcall[d] \in cancelled /\ pc[dcall[d]] \in Registered \cup {"returned"}

\* EnsureAll starts alone ...
BootIdle ==
  mode # "up" => /\ \A p \in Refreshes : pc[p] = "idle"
                 /\ \A d \in Deletes : dpc[d] = "idle"

\* ... and its deletion ends before the servers start.
BootDeletion == dpc[BootDelete] # "idle" => mode = "ensure"

\* A clone in progress owns one of the temporary directories.
CloneOwnsScratch == Cloning <= scratch

\* About to write "ready", a refresh has stored the mailboxes, unless they
\* went with the row.
FinishHasMail ==
  \A p \in Refreshes : pc[p] = "finish" => mail \/ row = "gone"

\* The mailboxes belong to a row.
MailHasRow == mail => HasRow

\* The parts that the steps are shown to keep together.
BootAlone == BootIdle /\ BootDeletion
ScratchOwned == CloneOwnsScratch /\ ScratchBounded
MailStored == MailHasRow /\ FinishHasMail /\ SuccessHasMail

\* With one deletion at a time, and as long as its mark stands: once it has
\* looked at running[id], the only refresh past its check of the row is the
\* one it waits for, and none is once it stops waiting, so that the mirror it
\* removes stays removed.
MarkTurnsAway ==
  \A d \in Deleters :
    row = "deleting" =>
      /\ dpc[d] = "wait" => PastCheck \subseteq {dcall[d]}
      /\ dpc[d] \in {"remove", "deleteRow"} => PastCheck = {}
      /\ dpc[d] = "deleteRow" => ~mirror

IInv ==
  /\ TypeOK
  /\ Registration
  /\ WaitsForCall
  /\ BootIdle
  /\ BootDeletion
  /\ CloneOwnsScratch
  /\ ScratchBounded
  /\ MailHasRow
  /\ FinishHasMail
  /\ SuccessHasMail

-----------------------------------------------------------------------------
(* The first state.                                                        *)

\* The invariant holds before anything has happened.
LEMMA InitInv == Init => IInv /\ MarkTurnsAway
<1> SUFFICES ASSUME Init PROVE IInv /\ MarkTurnsAway
  OBVIOUS
<1> USE CallersAssumption, BoundsAssumption DEF Init, Deleters, Statuses
<1>1. TypeOK
  <2>1. /\ mode \in {"boot", "ensure", "up"} /\ row \in Statuses \cup {"unborn", "gone"}
        /\ mirror \in BOOLEAN /\ mail \in BOOLEAN
    OBVIOUS
  <2>2. /\ pc \in [Refreshes -> PcStates] /\ dpc \in [Deleters -> DeleteStates]
        /\ outcome \in [Refreshes -> {"none", "ok", "err"}]
    BY DEF PcStates, DeleteStates
  <2>3. QED
    BY <2>1, <2>2 DEF TypeOK
<1>2. Registration /\ WaitsForCall /\ BootIdle /\ BootDeletion
  BY DEF Registration, Registered, Working, WaitsForCall, BootIdle, BootDeletion
<1>3. CloneOwnsScratch /\ ScratchBounded
  BY DEF CloneOwnsScratch, ScratchBounded, Cloning
<1>4. MailHasRow /\ FinishHasMail /\ SuccessHasMail /\ MarkTurnsAway
  BY DEF MailHasRow, HasRow, FinishHasMail, SuccessHasMail, MarkTurnsAway
<1>5. QED
  BY <1>1, <1>2, <1>3, <1>4 DEF IInv

-----------------------------------------------------------------------------
(* The steps, part by part.                                                *)

\* Every action keeps the types.
LEMMA TypeStep ==
  ASSUME IInv, Next PROVE TypeOK'
<1> USE CallersAssumption, BoundsAssumption DEF IInv, TypeOK, WaitsForCall,
    CloneOwnsScratch, Cloning, PcStates,
      Registered, Working, DeleteStates,
      disk, calls, deletion, process, Deleters, Statuses, HasRow, SetStatus,
      Go, GoD, Quiet, Fail
<1>1. ASSUME NEW p \in Refreshes, AddRepository(p) PROVE TypeOK'
  BY <1>1 DEF AddRepository
<1>2. ASSUME NEW p \in Refreshes, Call(p) PROVE TypeOK'
  BY <1>2 DEF Call
<1>3. ASSUME NEW p \in Refreshes, Enter(p) PROVE TypeOK'
  BY <1>3 DEF Enter, Register, Join, Wake
<1>4. ASSUME NEW p \in Refreshes, Load(p) PROVE TypeOK'
  BY <1>4 DEF Load, LoadRepository, LoadFails
<1>5. ASSUME NEW p \in Refreshes, Git(p) PROVE TypeOK'
  <2>1. CASE StatMirror(p)
    BY <2>1 DEF StatMirror
  <2>2. CASE MarkBusy(p)
    BY <2>2 DEF MarkBusy
  <2>3. CASE BusyCancelled(p)
    BY <2>3 DEF BusyCancelled
  <2>4. CASE CloneOk(p)
    BY <2>4 DEF CloneOk
  <2>5. CASE CloneFails(p)
    BY <2>5 DEF CloneFails
  <2>6. CASE FetchOk(p)
    BY <2>6 DEF FetchOk
  <2>7. CASE FetchFails(p)
    BY <2>7 DEF FetchFails
  <2>8. CASE InspectOk(p)
    BY <2>8 DEF InspectOk
  <2>9. CASE InspectFails(p)
    BY <2>9 DEF InspectFails
  <2>10. QED
    BY <1>5, <2>1, <2>2, <2>3, <2>4, <2>5, <2>6, <2>7, <2>8, <2>9 DEF Git
<1>6. ASSUME NEW p \in Refreshes, Store(p) PROVE TypeOK'
  <2>1. CASE ReplaceOk(p)
    BY <2>1 DEF ReplaceOk
  <2>2. CASE ReplaceFails(p)
    BY <2>2 DEF ReplaceFails
  <2>3. CASE RecordError(p)
    BY <2>3 DEF RecordError
  <2>4. CASE MarkReady(p)
    BY <2>4 DEF MarkReady
  <2>5. CASE MarkReadyFails(p)
    BY <2>5 DEF MarkReadyFails
  <2>6. QED
    BY <1>6, <2>1, <2>2, <2>3, <2>4, <2>5 DEF Store
<1>7. ASSUME NEW p \in Refreshes, Leave(p) PROVE TypeOK'
  BY <1>7 DEF Leave, CloseDone, Unregister
<1>8. ASSUME NEW p \in Refreshes, Forget(p) PROVE TypeOK'
  BY <1>8 DEF Forget
<1>9. ASSUME NEW d \in Deleters, CallDelete(d) PROVE TypeOK'
  BY <1>9 DEF CallDelete
<1>10. ASSUME NEW d \in Deleters, Disconnect(d) PROVE TypeOK'
  BY <1>10 DEF Disconnect
<1>11. ASSUME NEW d \in Deleters, DeleteStep(d) PROVE TypeOK'
  <2>1. CASE SetDeleting(d)
    BY <2>1 DEF SetDeleting
  <2>2. CASE NothingRunning(d)
    BY <2>2 DEF NothingRunning
  <2>3. CASE CancelRunning(d)
    BY <2>3 DEF CancelRunning
  <2>4. CASE RefreshStopped(d)
    BY <2>4 DEF RefreshStopped
  <2>5. CASE RemoveFiles(d)
    BY <2>5 DEF RemoveFiles
  <2>6. CASE DeleteRow(d)
    BY <2>6 DEF DeleteRow
  <2>7. CASE Abandon(d)
    BY <2>7 DEF Abandon
  <2>8. QED
    BY <1>11, <2>1, <2>2, <2>3, <2>4, <2>5, <2>6, <2>7 DEF DeleteStep
<1>12. ASSUME NEW d \in Deleters, ReturnDelete(d) PROVE TypeOK'
  BY <1>12 DEF ReturnDelete
<1>13. CASE BootStep
  BY <1>13 DEF BootStep, ListRepositories, ListFails, EnsureDeleting,
      EnsureDeleted, EnsureMirror, NothingToEnsure, Ensuring
<1>14. CASE Crash
  BY <1>14 DEF Crash
<1>15. QED
  BY <1>1, <1>2, <1>3, <1>4, <1>5, <1>6, <1>7, <1>8, <1>9, <1>10, <1>11,
      <1>12, <1>13, <1>14
  DEF Next, RefreshNext, RefreshStep, DeleteNext

\* Only Register sets running[id], and only where it is free; its owner gives
\* it back, or dies with the process.
LEMMA RegistrationStep ==
  ASSUME IInv, Next PROVE Registration'
<1> USE CallersAssumption DEF IInv, TypeOK, Registration, BootIdle,
    Registered, Working,
      disk, calls, deletion, process, Deleters, Statuses, HasRow, SetStatus,
      Go, GoD, Quiet, Fail
<1>1. ASSUME NEW p \in Refreshes, AddRepository(p) PROVE Registration'
  BY <1>1 DEF AddRepository
<1>2. ASSUME NEW p \in Refreshes, Call(p) PROVE Registration'
  BY <1>2 DEF Call
<1>3. ASSUME NEW p \in Refreshes, Enter(p) PROVE Registration'
  BY <1>3 DEF Enter, Register, Join, Wake
<1>4. ASSUME NEW p \in Refreshes, Load(p) PROVE Registration'
  BY <1>4 DEF Load, LoadRepository, LoadFails
<1>5. ASSUME NEW p \in Refreshes, Git(p) PROVE Registration'
  BY <1>5 DEF Git, StatMirror, MarkBusy, BusyCancelled, CloneOk, CloneFails,
      FetchOk, FetchFails,
       InspectOk, InspectFails
<1>6. ASSUME NEW p \in Refreshes, Store(p) PROVE Registration'
  BY <1>6 DEF Store, ReplaceOk, ReplaceFails, RecordError, MarkReady,
      MarkReadyFails
<1>7. ASSUME NEW p \in Refreshes, Leave(p) PROVE Registration'
  BY <1>7 DEF Leave, CloseDone, Unregister
<1>8. ASSUME NEW p \in Refreshes, Forget(p) PROVE Registration'
  BY <1>8 DEF Forget
<1>9. ASSUME NEW d \in Deleters, CallDelete(d) PROVE Registration'
  BY <1>9 DEF CallDelete
<1>10. ASSUME NEW d \in Deleters, Disconnect(d) PROVE Registration'
  BY <1>10 DEF Disconnect
<1>11. ASSUME NEW d \in Deleters, DeleteStep(d) PROVE Registration'
  BY <1>11 DEF DeleteStep, SetDeleting, NothingRunning, CancelRunning,
      RefreshStopped,
       RemoveFiles, DeleteRow, Abandon
<1>12. ASSUME NEW d \in Deleters, ReturnDelete(d) PROVE Registration'
  BY <1>12 DEF ReturnDelete
<1>13. CASE BootStep
  BY <1>13 DEF BootStep, ListRepositories, ListFails, EnsureDeleting,
      EnsureDeleted, EnsureMirror, NothingToEnsure, Ensuring
<1>14. CASE Crash
  BY <1>14 DEF Crash
<1>15. QED
  BY <1>1, <1>2, <1>3, <1>4, <1>5, <1>6, <1>7, <1>8, <1>9, <1>10, <1>11,
      <1>12, <1>13, <1>14
  DEF Next, RefreshNext, RefreshStep, DeleteNext

\* Join and CancelRunning take the call from running[id], which is set.
LEMMA WaitsStep ==
  ASSUME IInv, Next PROVE WaitsForCall'
<1> USE CallersAssumption DEF IInv, TypeOK, WaitsForCall, Registration, Registered, Working,
      disk, calls, deletion, process, Deleters, Statuses, HasRow, SetStatus,
      Go, GoD, Quiet, Fail
<1>1. ASSUME NEW p \in Refreshes, AddRepository(p) PROVE WaitsForCall'
  BY <1>1 DEF AddRepository
<1>2. ASSUME NEW p \in Refreshes, Call(p) PROVE WaitsForCall'
  BY <1>2 DEF Call
<1>3. ASSUME NEW p \in Refreshes, Enter(p) PROVE WaitsForCall'
  BY <1>3 DEF Enter, Register, Join, Wake
<1>4. ASSUME NEW p \in Refreshes, Load(p) PROVE WaitsForCall'
  BY <1>4 DEF Load, LoadRepository, LoadFails
<1>5. ASSUME NEW p \in Refreshes, Git(p) PROVE WaitsForCall'
  BY <1>5 DEF Git, StatMirror, MarkBusy, BusyCancelled, CloneOk, CloneFails,
      FetchOk, FetchFails,
       InspectOk, InspectFails
<1>6. ASSUME NEW p \in Refreshes, Store(p) PROVE WaitsForCall'
  BY <1>6 DEF Store, ReplaceOk, ReplaceFails, RecordError, MarkReady,
      MarkReadyFails
<1>7. ASSUME NEW p \in Refreshes, Leave(p) PROVE WaitsForCall'
  BY <1>7 DEF Leave, CloseDone, Unregister
<1>8. ASSUME NEW p \in Refreshes, Forget(p) PROVE WaitsForCall'
  BY <1>8 DEF Forget
<1>9. ASSUME NEW d \in Deleters, CallDelete(d) PROVE WaitsForCall'
  BY <1>9 DEF CallDelete
<1>10. ASSUME NEW d \in Deleters, Disconnect(d) PROVE WaitsForCall'
  BY <1>10 DEF Disconnect
<1>11. ASSUME NEW d \in Deleters, DeleteStep(d) PROVE WaitsForCall'
  BY <1>11 DEF DeleteStep, SetDeleting, NothingRunning, CancelRunning,
      RefreshStopped,
       RemoveFiles, DeleteRow, Abandon
<1>12. ASSUME NEW d \in Deleters, ReturnDelete(d) PROVE WaitsForCall'
  BY <1>12 DEF ReturnDelete
<1>13. CASE BootStep
  BY <1>13 DEF BootStep, ListRepositories, ListFails, EnsureDeleting,
      EnsureDeleted, EnsureMirror, NothingToEnsure, Ensuring, BootIdle, BootDeletion
<1>14. CASE Crash
  BY <1>14 DEF Crash
<1>15. QED
  BY <1>1, <1>2, <1>3, <1>4, <1>5, <1>6, <1>7, <1>8, <1>9, <1>10, <1>11,
      <1>12, <1>13, <1>14
  DEF Next, RefreshNext, RefreshStep, DeleteNext

\* No caller and no web deletion starts before mode is "up".
LEMMA BootStepQuiet ==
  ASSUME IInv, Next PROVE BootAlone'
<1> USE CallersAssumption DEF IInv, TypeOK, BootAlone, BootIdle, BootDeletion,
      disk, calls, deletion, process, Deleters, Statuses, HasRow, SetStatus,
      Go, GoD, Quiet, Fail
<1>1. ASSUME NEW p \in Refreshes, AddRepository(p) PROVE BootAlone'
  BY <1>1 DEF AddRepository
<1>2. ASSUME NEW p \in Refreshes, Call(p) PROVE BootAlone'
  BY <1>2 DEF Call
<1>3. ASSUME NEW p \in Refreshes, Enter(p) PROVE BootAlone'
  BY <1>3 DEF Enter, Register, Join, Wake
<1>4. ASSUME NEW p \in Refreshes, Load(p) PROVE BootAlone'
  BY <1>4 DEF Load, LoadRepository, LoadFails
<1>5. ASSUME NEW p \in Refreshes, Git(p) PROVE BootAlone'
  BY <1>5 DEF Git, StatMirror, MarkBusy, BusyCancelled, CloneOk, CloneFails,
      FetchOk, FetchFails,
       InspectOk, InspectFails
<1>6. ASSUME NEW p \in Refreshes, Store(p) PROVE BootAlone'
  BY <1>6 DEF Store, ReplaceOk, ReplaceFails, RecordError, MarkReady,
      MarkReadyFails
<1>7. ASSUME NEW p \in Refreshes, Leave(p) PROVE BootAlone'
  BY <1>7 DEF Leave, CloseDone, Unregister
<1>8. ASSUME NEW p \in Refreshes, Forget(p) PROVE BootAlone'
  BY <1>8 DEF Forget
<1>9. ASSUME NEW d \in Deleters, CallDelete(d) PROVE BootAlone'
  BY <1>9 DEF CallDelete
<1>10. ASSUME NEW d \in Deleters, Disconnect(d) PROVE BootAlone'
  BY <1>10 DEF Disconnect
<1>11. ASSUME NEW d \in Deleters, DeleteStep(d) PROVE BootAlone'
  BY <1>11 DEF DeleteStep, SetDeleting, NothingRunning, CancelRunning,
      RefreshStopped,
       RemoveFiles, DeleteRow, Abandon
<1>12. ASSUME NEW d \in Deleters, ReturnDelete(d) PROVE BootAlone'
  BY <1>12 DEF ReturnDelete
<1>13. CASE BootStep
  BY <1>13 DEF BootStep, ListRepositories, ListFails, EnsureDeleting,
      EnsureDeleted, EnsureMirror, NothingToEnsure, Ensuring
<1>14. CASE Crash
  BY <1>14 DEF Crash
<1>15. QED
  BY <1>1, <1>2, <1>3, <1>4, <1>5, <1>6, <1>7, <1>8, <1>9, <1>10, <1>11,
      <1>12, <1>13, <1>14
  DEF Next, RefreshNext, RefreshStep, DeleteNext

\* MarkBusy adds a directory and starts the only clone; its end takes one
\* away; a crash ends the clone and counts for its directory.
LEMMA ScratchStep ==
  ASSUME IInv, Next PROVE ScratchOwned'
<1> USE CallersAssumption, BoundsAssumption DEF IInv, TypeOK, Registration,
    Registered, Working, BootIdle,
      ScratchOwned, CloneOwnsScratch, ScratchBounded, Cloning,
      disk, calls, deletion, process, Deleters, Statuses, HasRow, SetStatus,
      Go, GoD, Quiet, Fail
<1>1. ASSUME NEW p \in Refreshes, AddRepository(p) PROVE ScratchOwned'
  BY <1>1 DEF AddRepository
<1>2. ASSUME NEW p \in Refreshes, Call(p) PROVE ScratchOwned'
  BY <1>2 DEF Call
<1>3. ASSUME NEW p \in Refreshes, Enter(p) PROVE ScratchOwned'
  BY <1>3 DEF Enter, Register, Join, Wake
<1>4. ASSUME NEW p \in Refreshes, Load(p) PROVE ScratchOwned'
  BY <1>4 DEF Load, LoadRepository, LoadFails
<1>5. ASSUME NEW p \in Refreshes, Git(p) PROVE ScratchOwned'
  BY <1>5 DEF Git, StatMirror, MarkBusy, BusyCancelled, CloneOk, CloneFails,
      FetchOk, FetchFails,
       InspectOk, InspectFails
<1>6. ASSUME NEW p \in Refreshes, Store(p) PROVE ScratchOwned'
  BY <1>6 DEF Store, ReplaceOk, ReplaceFails, RecordError, MarkReady,
      MarkReadyFails
<1>7. ASSUME NEW p \in Refreshes, Leave(p) PROVE ScratchOwned'
  BY <1>7 DEF Leave, CloseDone, Unregister
<1>8. ASSUME NEW p \in Refreshes, Forget(p) PROVE ScratchOwned'
  BY <1>8 DEF Forget
<1>9. ASSUME NEW d \in Deleters, CallDelete(d) PROVE ScratchOwned'
  BY <1>9 DEF CallDelete
<1>10. ASSUME NEW d \in Deleters, Disconnect(d) PROVE ScratchOwned'
  BY <1>10 DEF Disconnect
<1>11. ASSUME NEW d \in Deleters, DeleteStep(d) PROVE ScratchOwned'
  BY <1>11 DEF DeleteStep, SetDeleting, NothingRunning, CancelRunning,
      RefreshStopped,
       RemoveFiles, DeleteRow, Abandon
<1>12. ASSUME NEW d \in Deleters, ReturnDelete(d) PROVE ScratchOwned'
  BY <1>12 DEF ReturnDelete
<1>13. CASE BootStep
  BY <1>13 DEF BootStep, ListRepositories, ListFails, EnsureDeleting,
      EnsureDeleted, EnsureMirror, NothingToEnsure, Ensuring
<1>14. CASE Crash
  BY <1>14 DEF Crash
<1>15. QED
  BY <1>1, <1>2, <1>3, <1>4, <1>5, <1>6, <1>7, <1>8, <1>9, <1>10, <1>11,
      <1>12, <1>13, <1>14
  DEF Next, RefreshNext, RefreshStep, DeleteNext

\* "finish" is reached by ReplaceOk alone; only DeleteRow takes the
\* mailboxes away, and nothing leaves "gone".
LEMMA MailStep ==
  ASSUME IInv, Next PROVE MailStored'
<1> USE CallersAssumption DEF IInv, TypeOK, WaitsForCall, MailStored,
      MailHasRow,
    FinishHasMail, SuccessHasMail,
      disk, calls, deletion, process, Deleters, Statuses, HasRow, SetStatus,
      Go, GoD, Quiet, Fail
<1>1. ASSUME NEW p \in Refreshes, AddRepository(p) PROVE MailStored'
  BY <1>1 DEF AddRepository
<1>2. ASSUME NEW p \in Refreshes, Call(p) PROVE MailStored'
  BY <1>2 DEF Call
<1>3. ASSUME NEW p \in Refreshes, Enter(p) PROVE MailStored'
  BY <1>3 DEF Enter, Register, Join, Wake
<1>4. ASSUME NEW p \in Refreshes, Load(p) PROVE MailStored'
  BY <1>4 DEF Load, LoadRepository, LoadFails
<1>5. ASSUME NEW p \in Refreshes, Git(p) PROVE MailStored'
  BY <1>5 DEF Git, StatMirror, MarkBusy, BusyCancelled, CloneOk, CloneFails,
      FetchOk, FetchFails,
       InspectOk, InspectFails
<1>6. ASSUME NEW p \in Refreshes, Store(p) PROVE MailStored'
  BY <1>6 DEF Store, ReplaceOk, ReplaceFails, RecordError, MarkReady,
      MarkReadyFails
<1>7. ASSUME NEW p \in Refreshes, Leave(p) PROVE MailStored'
  BY <1>7 DEF Leave, CloseDone, Unregister
<1>8. ASSUME NEW p \in Refreshes, Forget(p) PROVE MailStored'
  BY <1>8 DEF Forget
<1>9. ASSUME NEW d \in Deleters, CallDelete(d) PROVE MailStored'
  BY <1>9 DEF CallDelete
<1>10. ASSUME NEW d \in Deleters, Disconnect(d) PROVE MailStored'
  BY <1>10 DEF Disconnect
<1>11. ASSUME NEW d \in Deleters, DeleteStep(d) PROVE MailStored'
  BY <1>11 DEF DeleteStep, SetDeleting, NothingRunning, CancelRunning,
      RefreshStopped,
       RemoveFiles, DeleteRow, Abandon
<1>12. ASSUME NEW d \in Deleters, ReturnDelete(d) PROVE MailStored'
  BY <1>12 DEF ReturnDelete
<1>13. CASE BootStep
  BY <1>13 DEF BootStep, ListRepositories, ListFails, EnsureDeleting,
      EnsureDeleted, EnsureMirror, NothingToEnsure, Ensuring
<1>14. CASE Crash
  BY <1>14 DEF Crash
<1>15. QED
  BY <1>1, <1>2, <1>3, <1>4, <1>5, <1>6, <1>7, <1>8, <1>9, <1>10, <1>11,
      <1>12, <1>13, <1>14
  DEF Next, RefreshNext, RefreshStep, DeleteNext

\* Whoever waits took its call from running[id], and a refresh that comes
\* after it meets the mark, or finds the mark overwritten.
LEMMA MarkStep ==
  ASSUME NEW web, Deletes = {web}, IInv, MarkTurnsAway, Next
  PROVE  MarkTurnsAway'
<1> USE CallersAssumption DEF IInv, TypeOK, Registration, Registered, Working,
    BootIdle,
      BootDeletion, MarkTurnsAway, PastCheck, Closed,
      disk, calls, deletion, process, Deleters, Statuses, HasRow, SetStatus,
      Go, GoD, Quiet, Fail
<1>1. ASSUME NEW p \in Refreshes, AddRepository(p) PROVE MarkTurnsAway'
  BY <1>1 DEF AddRepository
<1>2. ASSUME NEW p \in Refreshes, Call(p) PROVE MarkTurnsAway'
  BY <1>2 DEF Call
<1>3. ASSUME NEW p \in Refreshes, Enter(p) PROVE MarkTurnsAway'
  BY <1>3 DEF Enter, Register, Join, Wake
<1>4. ASSUME NEW p \in Refreshes, Load(p) PROVE MarkTurnsAway'
  BY <1>4 DEF Load, LoadRepository, LoadFails
<1>5. ASSUME NEW p \in Refreshes, Git(p) PROVE MarkTurnsAway'
  BY <1>5 DEF Git, StatMirror, MarkBusy, BusyCancelled, CloneOk, CloneFails,
      FetchOk, FetchFails,
       InspectOk, InspectFails
<1>6. ASSUME NEW p \in Refreshes, Store(p) PROVE MarkTurnsAway'
  BY <1>6 DEF Store, ReplaceOk, ReplaceFails, RecordError, MarkReady,
      MarkReadyFails
<1>7. ASSUME NEW p \in Refreshes, Leave(p) PROVE MarkTurnsAway'
  BY <1>7 DEF Leave, CloseDone, Unregister
<1>8. ASSUME NEW p \in Refreshes, Forget(p) PROVE MarkTurnsAway'
  BY <1>8 DEF Forget
<1>9. ASSUME NEW d \in Deleters, CallDelete(d) PROVE MarkTurnsAway'
  BY <1>9 DEF CallDelete
<1>10. ASSUME NEW d \in Deleters, Disconnect(d) PROVE MarkTurnsAway'
  BY <1>10 DEF Disconnect
<1>11. ASSUME NEW d \in Deleters, DeleteStep(d) PROVE MarkTurnsAway'
  BY <1>11 DEF DeleteStep, SetDeleting, NothingRunning, CancelRunning,
      RefreshStopped, RemoveFiles, DeleteRow, Abandon
<1>12. ASSUME NEW d \in Deleters, ReturnDelete(d) PROVE MarkTurnsAway'
  BY <1>12 DEF ReturnDelete
<1>13. CASE BootStep
  BY <1>13 DEF BootStep, ListRepositories, ListFails, EnsureDeleting,
      EnsureDeleted, EnsureMirror, NothingToEnsure, Ensuring
<1>14. CASE Crash
  BY <1>14 DEF Crash
<1>15. QED
  BY <1>1, <1>2, <1>3, <1>4, <1>5, <1>6, <1>7, <1>8, <1>9, <1>10, <1>11,
      <1>12, <1>13, <1>14
  DEF Next, RefreshNext, RefreshStep, DeleteNext

\* No status write brings a row back, and nothing is inserted twice.
LEMMA GoneStep ==
  ASSUME IInv, row = "gone", Next PROVE (row = "gone")'
<1> USE CallersAssumption DEF Statuses,
      disk, calls, deletion, process, Deleters, HasRow, SetStatus,
      Go, GoD, Quiet, Fail
<1>1. ASSUME NEW p \in Refreshes, AddRepository(p) PROVE (row = "gone")'
  BY <1>1 DEF AddRepository
<1>2. ASSUME NEW p \in Refreshes, Call(p) PROVE (row = "gone")'
  BY <1>2 DEF Call
<1>3. ASSUME NEW p \in Refreshes, Enter(p) PROVE (row = "gone")'
  BY <1>3 DEF Enter, Register, Join, Wake
<1>4. ASSUME NEW p \in Refreshes, Load(p) PROVE (row = "gone")'
  BY <1>4 DEF Load, LoadRepository, LoadFails
<1>5. ASSUME NEW p \in Refreshes, Git(p) PROVE (row = "gone")'
  BY <1>5 DEF Git, StatMirror, MarkBusy, BusyCancelled, CloneOk, CloneFails,
      FetchOk, FetchFails,
       InspectOk, InspectFails
<1>6. ASSUME NEW p \in Refreshes, Store(p) PROVE (row = "gone")'
  BY <1>6 DEF Store, ReplaceOk, ReplaceFails, RecordError, MarkReady,
      MarkReadyFails
<1>7. ASSUME NEW p \in Refreshes, Leave(p) PROVE (row = "gone")'
  BY <1>7 DEF Leave, CloseDone, Unregister
<1>8. ASSUME NEW p \in Refreshes, Forget(p) PROVE (row = "gone")'
  BY <1>8 DEF Forget
<1>9. ASSUME NEW d \in Deleters, CallDelete(d) PROVE (row = "gone")'
  BY <1>9 DEF CallDelete
<1>10. ASSUME NEW d \in Deleters, Disconnect(d) PROVE (row = "gone")'
  BY <1>10 DEF Disconnect
<1>11. ASSUME NEW d \in Deleters, DeleteStep(d) PROVE (row = "gone")'
  BY <1>11 DEF DeleteStep, SetDeleting, NothingRunning, CancelRunning,
      RefreshStopped,
       RemoveFiles, DeleteRow, Abandon
<1>12. ASSUME NEW d \in Deleters, ReturnDelete(d) PROVE (row = "gone")'
  BY <1>12 DEF ReturnDelete
<1>13. CASE BootStep
  BY <1>13 DEF BootStep, ListRepositories, ListFails, EnsureDeleting,
      EnsureDeleted, EnsureMirror, NothingToEnsure, Ensuring
<1>14. CASE Crash
  BY <1>14 DEF Crash
<1>15. QED
  BY <1>1, <1>2, <1>3, <1>4, <1>5, <1>6, <1>7, <1>8, <1>9, <1>10, <1>11,
      <1>12, <1>13, <1>14
  DEF Next, RefreshNext, RefreshStep, DeleteNext

\* Only DeleteRow takes the row.
LEMMA RowTaken ==
  ASSUME IInv, Next, row = "deleting", row' = "gone"
  PROVE  \E d \in Deleters : DeleteRow(d)
<1> DEFINE Taken == \E d \in Deleters : DeleteRow(d)
<1> USE DEF disk, calls, deletion, process, HasRow, SetStatus, Go, GoD, Quiet, Fail
<1>1. ASSUME NEW p \in Refreshes, AddRepository(p) PROVE Taken
  BY <1>1 DEF AddRepository
<1>2. ASSUME NEW p \in Refreshes, Call(p) PROVE Taken
  BY <1>2 DEF Call
<1>3. ASSUME NEW p \in Refreshes, Enter(p) PROVE Taken
  BY <1>3 DEF Enter, Register, Join, Wake
<1>4. ASSUME NEW p \in Refreshes, Load(p) PROVE Taken
  BY <1>4 DEF Load, LoadRepository, LoadFails
<1>5. ASSUME NEW p \in Refreshes, Git(p) PROVE Taken
  BY <1>5 DEF Git, StatMirror, MarkBusy, BusyCancelled, CloneOk, CloneFails,
      FetchOk, FetchFails, InspectOk, InspectFails
<1>6. ASSUME NEW p \in Refreshes, Store(p) PROVE Taken
  BY <1>6 DEF Store, ReplaceOk, ReplaceFails, RecordError, MarkReady,
      MarkReadyFails
<1>7. ASSUME NEW p \in Refreshes, Leave(p) PROVE Taken
  BY <1>7 DEF Leave, CloseDone, Unregister
<1>8. ASSUME NEW p \in Refreshes, Forget(p) PROVE Taken
  BY <1>8 DEF Forget
<1>9. ASSUME NEW d \in Deleters, CallDelete(d) PROVE Taken
  BY <1>9 DEF CallDelete
<1>10. ASSUME NEW d \in Deleters, Disconnect(d) PROVE Taken
  BY <1>10 DEF Disconnect
<1>11. ASSUME NEW d \in Deleters, DeleteStep(d) PROVE Taken
  BY <1>11 DEF DeleteStep, SetDeleting, NothingRunning, CancelRunning,
      RefreshStopped, RemoveFiles, Abandon
<1>12. ASSUME NEW d \in Deleters, ReturnDelete(d) PROVE Taken
  BY <1>12 DEF ReturnDelete
<1>13. CASE BootStep
  BY <1>13 DEF BootStep, ListRepositories, ListFails, EnsureDeleting,
      EnsureDeleted, EnsureMirror, NothingToEnsure, Ensuring
<1>14. CASE Crash
  BY <1>14 DEF Crash
<1>15. QED
  BY <1>1, <1>2, <1>3, <1>4, <1>5, <1>6, <1>7, <1>8, <1>9, <1>10, <1>11,
      <1>12, <1>13, <1>14
  DEF Next, RefreshNext, RefreshStep, DeleteNext

\* A refresh that loads no row makes no mirror.
LEMMA CleanStep ==
  ASSUME IInv, Clean, Next PROVE Clean'
<1> USE CallersAssumption DEF IInv, TypeOK, Clean, Working, Statuses,
      disk, calls, deletion, process, Deleters, HasRow, SetStatus,
      Go, GoD, Quiet, Fail
<1>1. ASSUME NEW p \in Refreshes, AddRepository(p) PROVE Clean'
  BY <1>1 DEF AddRepository
<1>2. ASSUME NEW p \in Refreshes, Call(p) PROVE Clean'
  BY <1>2 DEF Call
<1>3. ASSUME NEW p \in Refreshes, Enter(p) PROVE Clean'
  BY <1>3 DEF Enter, Register, Join, Wake
<1>4. ASSUME NEW p \in Refreshes, Load(p) PROVE Clean'
  BY <1>4 DEF Load, LoadRepository, LoadFails
<1>5. ASSUME NEW p \in Refreshes, Git(p) PROVE Clean'
  BY <1>5 DEF Git, StatMirror, MarkBusy, BusyCancelled, CloneOk, CloneFails,
      FetchOk, FetchFails, InspectOk, InspectFails
<1>6. ASSUME NEW p \in Refreshes, Store(p) PROVE Clean'
  BY <1>6 DEF Store, ReplaceOk, ReplaceFails, RecordError, MarkReady,
      MarkReadyFails
<1>7. ASSUME NEW p \in Refreshes, Leave(p) PROVE Clean'
  BY <1>7 DEF Leave, CloseDone, Unregister
<1>8. ASSUME NEW p \in Refreshes, Forget(p) PROVE Clean'
  BY <1>8 DEF Forget
<1>9. ASSUME NEW d \in Deleters, CallDelete(d) PROVE Clean'
  BY <1>9 DEF CallDelete
<1>10. ASSUME NEW d \in Deleters, Disconnect(d) PROVE Clean'
  BY <1>10 DEF Disconnect
<1>11. ASSUME NEW d \in Deleters, DeleteStep(d) PROVE Clean'
  BY <1>11 DEF DeleteStep, SetDeleting, NothingRunning, CancelRunning,
      RefreshStopped, RemoveFiles, DeleteRow, Abandon
<1>12. ASSUME NEW d \in Deleters, ReturnDelete(d) PROVE Clean'
  BY <1>12 DEF ReturnDelete
<1>13. CASE BootStep
  BY <1>13 DEF BootStep, ListRepositories, ListFails, EnsureDeleting,
      EnsureDeleted, EnsureMirror, NothingToEnsure, Ensuring
<1>14. CASE Crash
  BY <1>14 DEF Crash
<1>15. QED
  BY <1>1, <1>2, <1>3, <1>4, <1>5, <1>6, <1>7, <1>8, <1>9, <1>10, <1>11,
      <1>12, <1>13, <1>14
  DEF Next, RefreshNext, RefreshStep, DeleteNext

\* The deletion that EnsureAll resumes has nobody who could disconnect, and the
\* row is gone when it is done, unless one of its own steps failed.
BootFinishes == dpc[BootDelete] = "done" /\ ~DeleteMayFail => row = "gone"

LEMMA BootFinishesStep ==
  ASSUME IInv, BootFinishes, Next PROVE BootFinishes'
<1> USE CallersAssumption DEF IInv, TypeOK, BootFinishes, Statuses,
      disk, calls, deletion, process, Deleters, HasRow, SetStatus,
      Go, GoD, Quiet, Fail
<1>1. ASSUME NEW p \in Refreshes, AddRepository(p) PROVE BootFinishes'
  BY <1>1 DEF AddRepository
<1>2. ASSUME NEW p \in Refreshes, Call(p) PROVE BootFinishes'
  BY <1>2 DEF Call
<1>3. ASSUME NEW p \in Refreshes, Enter(p) PROVE BootFinishes'
  BY <1>3 DEF Enter, Register, Join, Wake
<1>4. ASSUME NEW p \in Refreshes, Load(p) PROVE BootFinishes'
  BY <1>4 DEF Load, LoadRepository, LoadFails
<1>5. ASSUME NEW p \in Refreshes, Git(p) PROVE BootFinishes'
  BY <1>5 DEF Git, StatMirror, MarkBusy, BusyCancelled, CloneOk, CloneFails,
      FetchOk, FetchFails, InspectOk, InspectFails
<1>6. ASSUME NEW p \in Refreshes, Store(p) PROVE BootFinishes'
  BY <1>6 DEF Store, ReplaceOk, ReplaceFails, RecordError, MarkReady,
      MarkReadyFails
<1>7. ASSUME NEW p \in Refreshes, Leave(p) PROVE BootFinishes'
  BY <1>7 DEF Leave, CloseDone, Unregister
<1>8. ASSUME NEW p \in Refreshes, Forget(p) PROVE BootFinishes'
  BY <1>8 DEF Forget
<1>9. ASSUME NEW d \in Deleters, CallDelete(d) PROVE BootFinishes'
  BY <1>9 DEF CallDelete
<1>10. ASSUME NEW d \in Deleters, Disconnect(d) PROVE BootFinishes'
  BY <1>10 DEF Disconnect
<1>11. ASSUME NEW d \in Deleters, DeleteStep(d) PROVE BootFinishes'
  BY <1>11 DEF DeleteStep, SetDeleting, NothingRunning, CancelRunning,
      RefreshStopped, RemoveFiles, DeleteRow, Abandon
<1>12. ASSUME NEW d \in Deleters, ReturnDelete(d) PROVE BootFinishes'
  BY <1>12 DEF ReturnDelete
<1>13. CASE BootStep
  BY <1>13 DEF BootStep, ListRepositories, ListFails, EnsureDeleting,
      EnsureDeleted, EnsureMirror, NothingToEnsure, Ensuring
<1>14. CASE Crash
  BY <1>14 DEF Crash
<1>15. QED
  BY <1>1, <1>2, <1>3, <1>4, <1>5, <1>6, <1>7, <1>8, <1>9, <1>10, <1>11,
      <1>12, <1>13, <1>14
  DEF Next, RefreshNext, RefreshStep, DeleteNext

-----------------------------------------------------------------------------
(* The invariants of the specification.                                    *)

\* A step that changes nothing keeps every part.
LEMMA Stutter ==
  ASSUME UNCHANGED vars
  PROVE  /\ IInv => IInv'
         /\ MarkTurnsAway => MarkTurnsAway'
<1> USE DEF vars
<1>1. IInv => IInv'
  BY DEF IInv, TypeOK, Registration, WaitsForCall, BootIdle, BootDeletion,
         CloneOwnsScratch, ScratchBounded, Cloning, MailHasRow, FinishHasMail,
         SuccessHasMail, HasRow
<1>2. MarkTurnsAway => MarkTurnsAway'
  BY DEF MarkTurnsAway, PastCheck
<1>3. QED
  BY <1>1, <1>2

\* The invariant is inductive ...
LEMMA InductiveStep == IInv /\ [Next]_vars => IInv'
<1> SUFFICES ASSUME IInv, [Next]_vars PROVE IInv'
  OBVIOUS
<1>1. CASE Next
  BY <1>1, TypeStep, RegistrationStep, WaitsStep, BootStepQuiet, ScratchStep,
     MailStep DEF IInv, BootAlone, ScratchOwned, MailStored
<1>2. CASE UNCHANGED vars
  BY <1>2, Stutter
<1>3. QED
  BY <1>1, <1>2

\* ... so it holds in every reachable state.
THEOREM Invariance == Spec => []IInv
<1>1. Init => IInv
  BY InitInv
<1>2. QED
  BY <1>1, InductiveStep, PTL DEF Spec

\* Types, for any number of callers, deletions and crashes: in particular the
\* count of temporary clone directories never goes below zero.
THEOREM TypeCorrect == Spec => []TypeOK
<1>1. IInv => TypeOK
  BY DEF IInv
<1>2. QED
  BY <1>1, Invariance, PTL

\* Refreshes of a repository never run side by side: a registered caller is
\* the one running[id] names.
THEOREM MutualExclusion == Spec => []SingleFlight
<1>1. IInv => SingleFlight
  BY DEF IInv, Registration, SingleFlight
<1>2. QED
  BY <1>1, Invariance, PTL

\* The deletion EnsureAll resumes runs while no refresh is registered.
THEOREM RecoveryAlone == Spec => []RecoveryExclusive
<1>1. IInv => RecoveryExclusive
  BY CallersAssumption DEF IInv, TypeOK, Registration, Registered, Working,
     BootIdle, BootDeletion, RecoveryExclusive
<1>2. QED
  BY <1>1, Invariance, PTL

\* "ready" and success are only ever said of stored mailboxes.
THEOREM SuccessSound == Spec => []SuccessHasMail
<1>1. IInv => SuccessHasMail
  BY DEF IInv
<1>2. QED
  BY <1>1, Invariance, PTL

\* Only a crash leaves a temporary clone directory behind, one each.
THEOREM ScratchLeaksOnlyByCrash == Spec => []ScratchBounded
<1>1. IInv => ScratchBounded
  BY DEF IInv
<1>2. QED
  BY <1>1, Invariance, PTL

\* With one web deletion at a time the invariant has its last part.
THEOREM MarkInvariance ==
  ASSUME NEW web, Deletes = {web}
  PROVE  Spec => [](IInv /\ MarkTurnsAway)
<1>1. Init => IInv /\ MarkTurnsAway
  BY InitInv
<1>2. IInv /\ MarkTurnsAway /\ [Next]_vars => IInv' /\ MarkTurnsAway'
  <2> SUFFICES ASSUME IInv, MarkTurnsAway, [Next]_vars
               PROVE  IInv' /\ MarkTurnsAway'
    OBVIOUS
  <2>1. IInv'
    BY InductiveStep
  <2>2. CASE Next
    BY <2>1, <2>2, MarkStep
  <2>3. CASE UNCHANGED vars
    BY <2>1, <2>3, Stutter
  <2>4. QED
    BY <2>1, <2>2, <2>3
<1>3. QED
  BY <1>1, <1>2, PTL DEF Spec

\* While the mark of the only web deletion stands, a deletion removes files
\* only when no refresh is past the check of the row.
THEOREM MarkProtects ==
  ASSUME NEW web, Deletes = {web}
  PROVE  Spec => []MarkShieldsRemoval
<1>1. IInv /\ MarkTurnsAway => MarkShieldsRemoval
  BY DEF MarkTurnsAway, PastCheck, MarkShieldsRemoval
<1>2. QED
  BY <1>1, MarkInvariance, PTL

\* With one web deletion at a time, a row that goes with its mark on leaves no
\* mirror, then or later: what orphans a mirror is a refresh that wrote its
\* status over the mark, and nothing else.
THEOREM MarkedDeletionsClean ==
  ASSUME NEW web, Deletes = {web}
  PROVE  Spec => MarkedDeletionIsClean
<1>1. IInv /\ MarkTurnsAway /\ [Next]_vars
        => [/\ row = "deleting" /\ row' = "gone" => Clean'
            /\ Clean => Clean']_vars
  <2> SUFFICES ASSUME IInv, MarkTurnsAway, Next
               PROVE  /\ row = "deleting" /\ row' = "gone" => Clean'
                      /\ Clean => Clean'
    OBVIOUS
  <2>1. ASSUME row = "deleting", row' = "gone" PROVE Clean'
    <3>1. PICK d \in Deleters : DeleteRow(d)
      BY <2>1, RowTaken
    <3>2. ~mirror /\ PastCheck = {}
      BY <2>1, <3>1 DEF MarkTurnsAway, DeleteRow
    <3>3. UNCHANGED <<mirror, pc>>
      BY <3>1 DEF DeleteRow, calls
    <3>4. QED
      BY <2>1, <3>2, <3>3 DEF Clean, PastCheck
  <2>2. QED
    BY <2>1, CleanStep
<1>2. QED
  BY <1>1, MarkInvariance, PTL DEF Spec, MarkedDeletionIsClean

\* The safe half of InterruptedDeletionResumes: the servers start over a row that
\* carries the mark of an earlier process only if ListRepositories has failed, or
\* a step of the resumed deletion has, for EnsureAll drops both errors.
MarkServed ==
  mode # "up" /\ mode' = "up" /\ row = "deleting"
    => ListFails \/ (DeleteMayFail /\ dpc[BootDelete] = "done")

THEOREM NoMarkServed == Spec => [][MarkServed]_vars
<1>1. Init => BootFinishes
  BY DEF Init, Deleters, BootFinishes
<1>2. IInv /\ BootFinishes /\ [Next]_vars => BootFinishes'
  <2>1. ASSUME IInv, BootFinishes, Next PROVE BootFinishes'
    BY <2>1, BootFinishesStep
  <2>2. ASSUME BootFinishes, UNCHANGED vars PROVE BootFinishes'
    BY <2>2 DEF BootFinishes, vars
  <2>3. QED
    BY <2>1, <2>2
<1>3. IInv /\ BootFinishes /\ [Next]_vars
        => [MarkServed]_vars
  <2> SUFFICES ASSUME IInv, BootFinishes, Next, mode # "up", mode' = "up", row = "deleting"
               PROVE  ListFails \/ (DeleteMayFail /\ dpc[BootDelete] = "done")
    BY DEF MarkServed
  <2>1. CASE BootStep
    <3>1. CASE EnsureDeleted
      BY <3>1, BoundsAssumption DEF EnsureDeleted, BootFinishes
    <3>2. ~ListRepositories /\ ~EnsureDeleting /\ ~NothingToEnsure
      BY DEF ListRepositories, EnsureDeleting, NothingToEnsure, process, HasRow, Statuses
    <3>3. ASSUME NEW p \in Refreshes, EnsureMirror(p) PROVE FALSE
      BY <3>3 DEF EnsureMirror
    <3>4. QED
      BY <2>1, <3>1, <3>2, <3>3 DEF BootStep
  <2>2. QED
    BY <2>1 DEF Next, RefreshNext, RefreshStep, AddRepository, Call, Enter, Register, Join, Wake,
       Load, LoadRepository, LoadFails, Git, StatMirror, MarkBusy, BusyCancelled, CloneOk,
       CloneFails, FetchOk, FetchFails, InspectOk, InspectFails, Store, ReplaceOk, ReplaceFails,
       RecordError, MarkReady, MarkReadyFails, Leave, CloseDone, Unregister, Forget,
       DeleteNext, CallDelete, Disconnect, DeleteStep, SetDeleting, NothingRunning,
       CancelRunning, RefreshStopped, RemoveFiles, DeleteRow, Abandon, ReturnDelete,
       Crash, Quiet, Fail, process
<1>4. QED
  BY <1>1, <1>2, <1>3, Invariance, PTL DEF Spec

\* The safe half of RefreshReturns and DeleteReturns: whoever waits, waits for a
\* call whose channel is closed, or that its caller, which waits for nobody,
\* still works at; a deletion waits for one that it has cancelled.
Attended(q) == Closed(q) \/ (running = q /\ pc[q] \in Working)

THEOREM WaitersAttended ==
  Spec => [](/\ \A p \in Refreshes : pc[p] = "wait" => Attended(joined[p])
             /\ \A d \in Deleters : dpc[d] = "wait" => Attended(dcall[d]) /\ dcall[d] \in cancelled)
<1>1. IInv => /\ \A p \in Refreshes : pc[p] = "wait" => Attended(joined[p])
              /\ \A d \in Deleters :
                   dpc[d] = "wait" => Attended(dcall[d]) /\ dcall[d] \in cancelled
  BY DEF IInv, TypeOK, WaitsForCall, Registration, Registered, Attended, Closed
<1>2. QED
  BY <1>1, Invariance, PTL

\* Nothing brings a deleted row back.
THEOREM DeletionIsFinal == Spec => GoneStaysGone
<1>1. IInv /\ [Next]_vars => [row = "gone" => row' = "gone" /\ ~mail']_vars
  <2> SUFFICES ASSUME IInv, Next, row = "gone" PROVE row' = "gone" /\ ~mail'
    BY DEF vars
  <2>1. row' = "gone"
    BY GoneStep
  <2>2. IInv'
    BY InductiveStep
  <2>3. QED
    BY <2>1, <2>2 DEF IInv, MailHasRow, HasRow, Statuses
<1>2. QED
  BY <1>1, Invariance, PTL DEF Spec, GoneStaysGone
=============================================================================
