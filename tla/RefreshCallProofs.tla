--------------------------- MODULE RefreshCallProofs --------------------------
(***************************************************************************)
(* RefreshRepository implements SharedCall, for any number of callers,     *)
(* deletions and crashes.                                                  *)
(***************************************************************************)
EXTENDS RefreshLifecycleProofs

\* Before close(done), call.err has its value.
Answered ==
  \A p \in Refreshes :
    pc[p] \in {"fail", "close", "unregister", "returned"} => outcome[p] \in {"ok", "err"}

-----------------------------------------------------------------------------
(* The invariant                                                           *)

\* Every way out of refresh sets the error, and a joiner copies one.
LEMMA AnsweredStep ==
  ASSUME IInv, Answered, Next PROVE Answered'
<1> USE CallersAssumption DEF IInv, TypeOK, WaitsForCall, Answered, Closed,
      disk, calls, deletion, process, Go, GoD, Quiet, Fail
<1>1. ASSUME NEW p \in Refreshes, AddRepository(p) PROVE Answered'
  BY <1>1 DEF AddRepository
<1>2. ASSUME NEW p \in Refreshes, Call(p) PROVE Answered'
  BY <1>2 DEF Call
<1>3. ASSUME NEW p \in Refreshes, Enter(p) PROVE Answered'
  BY <1>3 DEF Enter, Register, Join, Wake
<1>4. ASSUME NEW p \in Refreshes, Load(p) PROVE Answered'
  BY <1>4 DEF Load, LoadRepository, LoadFails
<1>5. ASSUME NEW p \in Refreshes, Git(p) PROVE Answered'
  BY <1>5 DEF Git, StatMirror, MarkBusy, BusyCancelled, CloneOk, CloneFails,
      FetchOk, FetchFails, InspectOk, InspectFails
<1>6. ASSUME NEW p \in Refreshes, Store(p) PROVE Answered'
  BY <1>6 DEF Store, ReplaceOk, ReplaceFails, RecordError, MarkReady,
      MarkReadyFails
<1>7. ASSUME NEW p \in Refreshes, Leave(p) PROVE Answered'
  BY <1>7 DEF Leave, CloseDone, Unregister
<1>8. ASSUME NEW p \in Refreshes, Forget(p) PROVE Answered'
  BY <1>8 DEF Forget
<1>9. ASSUME NEW d \in Deleters, DeleteNext(d) PROVE Answered'
  BY <1>9 DEF DeleteNext, CallDelete, Disconnect, DeleteStep, SetDeleting,
      NothingRunning, CancelRunning, RefreshStopped, RemoveFiles, DeleteRow,
      Abandon, ReturnDelete
<1>10. CASE BootStep
  BY <1>10 DEF BootStep, ListRepositories, ListFails, EnsureDeleting,
      EnsureDeleted, EnsureMirror, NothingToEnsure
<1>11. CASE Crash
  BY <1>11 DEF Crash
<1>12. QED
  BY <1>1, <1>2, <1>3, <1>4, <1>5, <1>6, <1>7, <1>8, <1>9, <1>10, <1>11
  DEF Next, RefreshNext, RefreshStep

-----------------------------------------------------------------------------
(* The mapping                                                             *)

\* The abstract state of a caller, label by label.
LEMMA StateOf ==
  ASSUME NEW p \in Refreshes
  PROVE  /\ pc[p] = "idle" => CallState(p) = "out"
         /\ pc[p] = "start" => CallState(p) = "asking"
         /\ pc[p] \in Working => CallState(p) = "leading"
         /\ pc[p] = "unregister" => CallState(p) = "answered"
         /\ pc[p] = "wait" => CallState(p) = "attached"
         /\ pc[p] = "returned" => CallState(p) = "returned"
BY DEF CallState, Working, Elsewhere

\* The same after the step.
LEMMA StateOfNext ==
  ASSUME NEW p \in Refreshes
  PROVE  /\ pc'[p] = "idle" => CallState(p)' = "out"
         /\ pc'[p] = "start" => CallState(p)' = "asking"
         /\ pc'[p] \in Working => CallState(p)' = "leading"
         /\ pc'[p] = "unregister" => CallState(p)' = "answered"
         /\ pc'[p] = "wait" => CallState(p)' = "attached"
         /\ pc'[p] = "returned" => CallState(p)' = "returned"
BY DEF CallState, Working, Elsewhere

\* The abstract variables, as the instance has them.
AbstractState == [p \in Refreshes |-> CallState(p)]
AbstractAnswer ==
  [p \in Refreshes |-> IF Closed(p) THEN outcome[p] ELSE "none"]

Abstract == <<running, AbstractState, joined, AbstractAnswer>>

\* A caller that stays where it is, or in its refresh, stays put abstractly.
LEMMA StateKept ==
  ASSUME IInv, IInv', NEW p \in Refreshes,
         pc'[p] = pc[p] \/ (pc[p] \in Working /\ pc'[p] \in Working)
  PROVE  CallState(p)' = CallState(p)
<1>1. pc[p] \in PcStates
  BY DEF IInv, TypeOK
<1>2. CASE pc[p] \in Working
  BY <1>2, StateOf, StateOfNext
<1>3. CASE pc[p] \notin Working
  <2>1. pc[p] \in {"idle", "start", "wait", "unregister", "returned"}
    BY <1>1, <1>3 DEF PcStates, Registered
  <2>2. pc'[p] = pc[p]
    BY <1>3
  <2>3. QED
    BY <2>1, <2>2, StateOf, StateOfNext
<1>4. QED
  BY <1>2, <1>3

\* One caller moves and the others do not.
LEMMA OneMoves ==
  ASSUME IInv, IInv', NEW p \in Refreshes, NEW label,
         pc' = [pc EXCEPT ![p] = label]
  PROVE  AbstractState' = [AbstractState EXCEPT ![p] = CallState(p)']
<1>1. \A q \in Refreshes \ {p} : CallState(q)' = CallState(q)
  BY StateKept DEF IInv, TypeOK
<1>2. QED
  BY <1>1 DEF AbstractState

\* Nothing of the call changes: a step within a refresh, or of a deletion.
LEMMA Stays ==
  ASSUME IInv, IInv', UNCHANGED <<running, joined>>,
         \A q \in Refreshes :
           /\ pc'[q] = pc[q] \/ (pc[q] \in Working /\ pc'[q] \in Working)
           /\ pc[q] \notin Working => outcome'[q] = outcome[q]
  PROVE  UNCHANGED Abstract
<1>1. AbstractState' = AbstractState
  BY StateKept DEF AbstractState
<1>2. AbstractAnswer' = AbstractAnswer
  BY DEF AbstractAnswer, Closed, Working
<1>3. QED
  BY <1>1, <1>2 DEF Abstract

\* The instance's definitions, over the abbreviations above.
LEMMA Instance ==
  /\ Shared!Init <=> /\ running = NoCall
                     /\ AbstractState = [c \in Refreshes |-> "out"]
                     /\ joined = [c \in Refreshes |-> NoCall]
                     /\ AbstractAnswer = [c \in Refreshes |-> "none"]
  /\ Shared!vars = Abstract
  /\ UNCHANGED Abstract => UNCHANGED Shared!vars
BY DEF Shared!Init, Shared!vars, AbstractState, AbstractAnswer, Abstract

\* The abstract move of a caller that goes to a label.
LEMMA CallerMoves ==
  ASSUME IInv, IInv', NEW p \in Refreshes, NEW label,
         pc' = [pc EXCEPT ![p] = label], NEW from, NEW to,
         CallState(p) = from, pc'[p] = label => CallState(p)' = to
  PROVE  Shared!Move(p, from, to)
<1>1. pc'[p] = label
  BY DEF IInv, TypeOK
<1>2. QED
  BY <1>1, OneMoves DEF Shared!Move, AbstractState

\* A step that closes no call and starts none again leaves the answers.
LEMMA AnswersKept ==
  ASSUME \A q \in Refreshes : Closed(q)' = Closed(q) /\ outcome'[q] = outcome[q]
  PROVE  AbstractAnswer' = AbstractAnswer
BY DEF AbstractAnswer

-----------------------------------------------------------------------------
(* The steps                                                               *)

\* A caller comes, and finds a call or makes one.
LEMMA CallerComes ==
  ASSUME IInv, IInv', Answered, NEW p \in Refreshes,
         AddRepository(p) \/ Call(p) \/ Register(p) \/ Join(p) \/ EnsureMirror(p)
  PROVE  Shared!Ask(p) \/ Shared!Lead(p) \/ Shared!Attach(p)
<1> USE CallersAssumption DEF IInv, TypeOK, calls, process, Go
<1>1. AbstractAnswer' = AbstractAnswer
  <2>1. CASE AddRepository(p) \/ Call(p) \/ Register(p) \/ Join(p)
    BY <2>1, AnswersKept DEF Closed, AddRepository, Call, Register, Join
  <2>2. CASE EnsureMirror(p)
    BY <2>2, AnswersKept DEF Closed, EnsureMirror, Ensuring, BootIdle
  <2>3. QED
    BY <2>1, <2>2
<1>2. AbstractAnswer' = AbstractAnswer
         => UNCHANGED [q \in Refreshes |-> IF Closed(q) THEN outcome[q] ELSE "none"]
  BY DEF AbstractAnswer
<1>3. CASE AddRepository(p) \/ Call(p) \/ EnsureMirror(p)
  <2>1. /\ pc[p] = "idle" /\ pc' = [pc EXCEPT ![p] = "start"]
        /\ UNCHANGED <<running, joined>>
    <3>1. CASE AddRepository(p) \/ Call(p)
      BY <3>1 DEF AddRepository, Call
    <3>2. CASE EnsureMirror(p)
      BY <3>2 DEF EnsureMirror, Ensuring, BootIdle
    <3>3. QED
      BY <1>3, <3>1, <3>2
  <2>2. Shared!Move(p, "out", "asking")
    BY <2>1, CallerMoves, StateOf, StateOfNext
  <2>3. QED
    BY <1>1, <1>2, <2>1, <2>2 DEF Shared!Ask
<1>4. CASE Register(p)
  <2>1. Shared!Move(p, "asking", "leading")
    <3>1. pc[p] = "start" /\ pc' = [pc EXCEPT ![p] = "load"] /\ pc'[p] \in Working
      BY <1>4 DEF Register, Working
    <3>2. QED
      BY <3>1, CallerMoves, StateOf, StateOfNext
  <2>2. QED
    BY <1>1, <1>2, <1>4, <2>1 DEF Register, Shared!Lead
<1>5. CASE Join(p)
  <2>1. Shared!Move(p, "asking", "attached")
    <3>1. pc[p] = "start" /\ pc' = [pc EXCEPT ![p] = "wait"]
      BY <1>5 DEF Join
    <3>2. QED
      BY <3>1, CallerMoves, StateOf, StateOfNext
  <2>2. QED
    BY <1>1, <1>2, <1>5, <2>1 DEF Join, Shared!Attach
<1>6. QED
  BY <1>3, <1>4, <1>5

\* A caller goes: with its own answer, with another's, and out.
LEMMA CallerGoes ==
  ASSUME IInv, IInv', Answered, NEW p \in Refreshes,
         CloseDone(p) \/ Unregister(p) \/ Wake(p) \/ Forget(p)
  PROVE  \/ Shared!Answer(p) \/ Shared!Return(p) \/ Shared!ReturnShared(p)
         \/ Shared!Leave(p)
<1> USE CallersAssumption DEF IInv, TypeOK, Go, Quiet
<1>1. CASE CloseDone(p)
  <2>1. /\ pc[p] = "close" /\ pc[p] \in Working /\ pc' = [pc EXCEPT ![p] = "unregister"]
        /\ UNCHANGED <<running, joined, outcome>>
    BY <1>1 DEF CloseDone, Working
  <2>2. Shared!Move(p, "leading", "answered")
    BY <2>1, CallerMoves, StateOf, StateOfNext
  <2>3. outcome[p] \in {"ok", "err"}
    BY <2>1 DEF Answered
  <2>4. [q \in Refreshes |-> IF Closed(q) THEN outcome[q] ELSE "none"]'
          = [[q \in Refreshes |-> IF Closed(q) THEN outcome[q] ELSE "none"]
               EXCEPT ![p] = outcome[p]]
    BY <2>1 DEF Closed
  <2>5. QED
    BY <2>1, <2>2, <2>3, <2>4 DEF Shared!Answer
<1>2. CASE Unregister(p)
  <2>1. /\ pc[p] = "unregister" /\ pc' = [pc EXCEPT ![p] = "returned"]
        /\ running' = NoCall /\ UNCHANGED <<joined, outcome>>
    BY <1>2 DEF Unregister
  <2>2. Shared!Move(p, "answered", "returned")
    BY <2>1, CallerMoves, StateOf, StateOfNext
  <2>3. UNCHANGED [q \in Refreshes |-> IF Closed(q) THEN outcome[q] ELSE "none"]
    BY <2>1 DEF Closed
  <2>4. QED
    BY <2>1, <2>2, <2>3 DEF Shared!Return
<1>3. CASE Wake(p)
  <2>1. /\ pc[p] = "wait" /\ pc' = [pc EXCEPT ![p] = "returned"]
        /\ joined[p] \in Refreshes /\ Closed(joined[p])
        /\ outcome' = [outcome EXCEPT ![p] = outcome[joined[p]]]
        /\ joined' = [joined EXCEPT ![p] = NoCall] /\ UNCHANGED running
    BY <1>3 DEF Wake, WaitsForCall
  <2>2. Shared!Move(p, "attached", "returned")
    BY <2>1, CallerMoves, StateOf, StateOfNext
  <2>3. outcome[joined[p]] \in {"ok", "err"}
    BY <2>1 DEF Answered, Closed
  <2>4. [q \in Refreshes |-> IF Closed(q) THEN outcome[q] ELSE "none"]'
          = [[q \in Refreshes |-> IF Closed(q) THEN outcome[q] ELSE "none"]
               EXCEPT ![p] = outcome[joined[p]]]
    BY <2>1 DEF Closed
  <2>5. QED
    BY <2>1, <2>2, <2>3, <2>4 DEF Shared!ReturnShared
<1>4. CASE Forget(p)
  <2>1. /\ pc[p] = "returned" /\ pc' = [pc EXCEPT ![p] = "idle"]
        /\ outcome' = [outcome EXCEPT ![p] = "none"]
        /\ \A q \in Refreshes : joined[q] # p
        /\ UNCHANGED <<running, joined>>
    BY <1>4 DEF Forget
  <2>2. Shared!Move(p, "returned", "out")
    BY <2>1, CallerMoves, StateOf, StateOfNext
  <2>3. [q \in Refreshes |-> IF Closed(q) THEN outcome[q] ELSE "none"]'
          = [[q \in Refreshes |-> IF Closed(q) THEN outcome[q] ELSE "none"]
               EXCEPT ![p] = "none"]
    BY <2>1 DEF Closed
  <2>4. QED
    BY <2>1, <2>2, <2>3 DEF Shared!Leave
<1>5. QED
  BY <1>1, <1>2, <1>3, <1>4

\* Whatever the refresh itself does is no step of the call.
LEMMA RefreshInside ==
  ASSUME IInv, IInv', NEW p \in Refreshes, Load(p) \/ Git(p) \/ Store(p)
  PROVE  UNCHANGED Abstract
<1> USE DEF IInv, TypeOK, Working, Go, Quiet, Fail
<1>1. /\ \E label \in Working : pc' = [pc EXCEPT ![p] = label]
      /\ pc[p] \in Working /\ UNCHANGED <<running, joined>>
      /\ \A q \in Refreshes \ {p} : outcome'[q] = outcome[q]
  <2>1. CASE Load(p)
    BY <2>1 DEF Load, LoadRepository, LoadFails
  <2>2. CASE Git(p)
    BY <2>2 DEF Git, StatMirror, MarkBusy, BusyCancelled, CloneOk, CloneFails,
       FetchOk, FetchFails, InspectOk, InspectFails
  <2>3. CASE Store(p)
    BY <2>3 DEF Store, ReplaceOk, ReplaceFails, RecordError, MarkReady,
       MarkReadyFails
  <2>4. QED
    BY <2>1, <2>2, <2>3
<1>2. QED
  BY <1>1, Stays

\* Every step of the repository is a step of the call or none.
LEMMA Simulates ==
  ASSUME IInv, IInv', Answered, [Next]_vars PROVE [Shared!Next]_(Shared!vars)
<1>1. ASSUME NEW p \in Refreshes, RefreshNext(p) PROVE [Shared!Next]_(Shared!vars)
  <2>1. CASE AddRepository(p) \/ Call(p) \/ Register(p) \/ Join(p)
    BY <2>1, CallerComes DEF Shared!Next, Shared!Caller
  <2>2. CASE CloseDone(p) \/ Unregister(p) \/ Wake(p) \/ Forget(p)
    BY <2>2, CallerGoes DEF Shared!Next, Shared!Caller
  <2>3. CASE Load(p) \/ Git(p) \/ Store(p)
    BY <2>3, RefreshInside, Instance
  <2>4. QED
    BY <1>1, <2>1, <2>2, <2>3 DEF RefreshNext, RefreshStep, Enter, Leave
<1>2. ASSUME NEW d \in Deleters, DeleteNext(d) PROVE [Shared!Next]_(Shared!vars)
  <2>1. UNCHANGED <<pc, running, joined, outcome>>
    BY <1>2 DEF DeleteNext, CallDelete, Disconnect, DeleteStep, SetDeleting,
      NothingRunning, CancelRunning, RefreshStopped, RemoveFiles, DeleteRow,
      Abandon, ReturnDelete, calls
  <2>2. QED
    BY <2>1, Stays, Instance
<1>3. CASE BootStep
  <2>1. ASSUME NEW p \in Refreshes, EnsureMirror(p) PROVE [Shared!Next]_(Shared!vars)
    BY <2>1, CallerComes DEF Shared!Next, Shared!Caller
  <2>2. CASE \/ ListRepositories \/ ListFails
             \/ EnsureDeleting \/ EnsureDeleted \/ NothingToEnsure
    <3>1. UNCHANGED <<pc, running, joined, outcome>>
      BY <2>2 DEF ListRepositories, ListFails, EnsureDeleting, EnsureDeleted,
                  NothingToEnsure, calls
    <3>2. QED
      BY <3>1, Stays, Instance
  <2>3. QED
    BY <1>3, <2>1, <2>2 DEF BootStep
<1>4. CASE Crash
  <2>1. /\ pc' = [q \in Refreshes |-> "idle"] /\ running' = NoCall
        /\ joined' = [q \in Refreshes |-> NoCall]
    BY <1>4 DEF Crash
  <2>2. AbstractState' = [q \in Refreshes |-> "out"]
    BY <2>1, StateOfNext DEF AbstractState
  <2>3. AbstractAnswer' = [q \in Refreshes |-> "none"]
    BY <2>1 DEF AbstractAnswer, Closed
  <2>4. Shared!Restart
    BY <2>1, <2>2, <2>3 DEF Shared!Restart, AbstractState, AbstractAnswer
  <2>5. QED
    BY <2>4 DEF Shared!Next
<1>5. CASE UNCHANGED vars
  <2>1. UNCHANGED <<pc, running, joined, outcome>>
    BY <1>5 DEF vars
  <2>2. QED
    BY <2>1, Stays, Instance
<1>6. QED
  BY <1>1, <1>2, <1>3, <1>4, <1>5 DEF Next

\* RefreshRepository keeps SharedCall's promise: every caller returns with the
\* answer of the call it made or attached to and not before that call has one,
\* whatever fails, is cancelled, deleted or interrupted meanwhile.
THEOREM RefreshImplementsCall == Spec => CallIsShared
<1>1. Init => IInv /\ Answered
  BY InitInv DEF Init, Answered
<1>2. IInv /\ Answered /\ [Next]_vars => IInv' /\ Answered'
  <2> SUFFICES ASSUME IInv, Answered, [Next]_vars PROVE IInv' /\ Answered'
    OBVIOUS
  <2>1. CASE Next
    BY <2>1, InductiveStep, AnsweredStep
  <2>2. CASE UNCHANGED vars
    BY <2>2, InductiveStep DEF vars, Answered
  <2>3. QED
    BY <2>1, <2>2
<1>3. Init => Shared!Init
  <2> SUFFICES ASSUME Init PROVE Shared!Init
    OBVIOUS
  <2>1. \A q \in Refreshes : pc[q] = "idle"
    BY DEF Init
  <2>2. AbstractState = [q \in Refreshes |-> "out"]
    BY <2>1, StateOf DEF AbstractState
  <2>3. AbstractAnswer = [q \in Refreshes |-> "none"]
    BY <2>1 DEF AbstractAnswer, Closed
  <2>4. QED
    BY <2>2, <2>3, Instance DEF Init
<1>4. IInv /\ Answered /\ IInv' /\ [Next]_vars => [Shared!Next]_(Shared!vars)
  BY Simulates
<1>5. QED
  BY <1>1, <1>2, <1>3, <1>4, PTL DEF Spec, CallIsShared, Shared!Spec
=============================================================================
