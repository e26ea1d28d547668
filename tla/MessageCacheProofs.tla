-------------------------- MODULE MessageCacheProofs --------------------------
(***************************************************************************)
(* Proofs about MessageCache, for any sessions and commits and any bounds. *)
(***************************************************************************)
EXTENDS MessageCache, TLAPS

-----------------------------------------------------------------------------
(* The inductive invariant, part by part.                                  *)

\* Every torn file has a session that is about to write it: TornHeals, and the
\* same of the temporary file, which a rename turns into it.
Healing ==
  mishaps = 0 =>
    \A c \in Commits :
      /\ eml[c] = "torn" =>
           \E r \in Readers : At(r, "write") /\ call[r].oid = c /\ fd[r] = "eml"
      /\ tmp[c] = "torn" =>
           \E r \in Readers : At(r, "write") /\ call[r].oid = c /\ fd[r] = "tmp"

\* Under a mark that stands no mirror comes back.
Shield == shielded => mirror = "absent"

\* Who still renders for a repository without emails did when they went.
Leaving ==
  shielded /\ removal \in {"messages", "rows"} =>
    \A r \in Readers :
      pc[r] \in {"mkdir", "create", "write", "rename", "cleanup"} => call[r].oid \in leaving

\* A call that met no other one has its commit to itself, in the first mirror.
Solo ==
  /\ \A r \in alone, q \in Readers :
       q # r /\ call[q] # None => call[q].oid # call[r].oid
  /\ alone # {} => mirror = "first"

\* A hit is looked for under a path; a call that no removal has met writes its
\* file in a directory.
Places ==
  /\ \A r \in Readers : pc[r] = "read" => call[r].path # None
  /\ \A r \in alone : pc[r] \in {"create", "write", "rename", "cleanup"} => dir

\* What a call that has its commit to itself writes is what it renames.
Undisturbed ==
  mishaps = 0 =>
    \A r \in alone :
      /\ pc[r] = "write" => fd[r] = "tmp"
      /\ pc[r] = "rename" => tmp[call[r].oid] = "whole"
      /\ pc[r] # "cleanup"

IInv == /\ TypeOK /\ Healing /\ Shield /\ Leaving /\ RemovedStaysEmpty
        /\ Solo /\ Places /\ Undisturbed

-----------------------------------------------------------------------------
(* Lemmas about the rows of a mailbox.                                     *)

\* A list of commits, as rows with no path.
LEMMA FreshRows == ASSUME NEW m \in Mails PROVE Fresh(m) \in Mailboxes
BY DEF Fresh, Mails, Mailboxes, RowType

\* Rows that are there, followed by new ones.
LEMMA LongerRows ==
  ASSUME NEW m \in Mails, NEW old \in Mailboxes
  PROVE  [u \in DOMAIN m |-> IF u \in DOMAIN old THEN old[u] ELSE Fresh(m)[u]] \in Mailboxes
BY DEF Fresh, Mails, Mailboxes, RowType

\* A row whose path is written.
LEMMA WrittenRow ==
  ASSUME NEW old \in Mailboxes, NEW u \in DOMAIN old, NEW c \in Commits
  PROVE  [old EXCEPT ![u].path = c] \in Mailboxes
BY DEF Mailboxes, RowType

\* The row a session takes from its view.
LEMMA ViewedRow ==
  ASSUME NEW rs \in Mailboxes, NEW u \in DOMAIN rs
  PROVE  /\ u \in 1 .. MaxMails /\ rs[u].oid \in Commits
         /\ rs[u].path \in Commits \cup {None}
BY BoundsAssumption DEF Mailboxes, RowType

\* No rows are a mailbox.
LEMMA NoRows == <<>> \in Mailboxes
<1>1. <<>> \in [1 .. 0 -> RowType] /\ 0 \in 0 .. MaxMails
  BY BoundsAssumption
<1>2. QED
  BY <1>1 DEF Mailboxes

-----------------------------------------------------------------------------
LEMMA InitInv == Init => IInv
<1> SUFFICES ASSUME Init PROVE IInv
  OBVIOUS
<1>1. rows \in Mailboxes
  BY FreshRows DEF Init
<1>2. view \in [Readers -> Mailboxes]
  BY NoRows DEF Init
<1>3. TypeOK
  <2>1. changes \in 0 .. MaxChanges /\ mishaps \in 0 .. MaxMishaps
    BY BoundsAssumption DEF Init
  <2>2. /\ pc \in [Readers -> PcStates] /\ reply \in [Readers -> Replies]
        /\ fd \in [Readers -> {"none", "tmp", "eml", "unlinked"}]
        /\ call \in [Readers -> CallType \cup {None}]
        /\ tmp \in [Commits -> FileStates] /\ eml \in [Commits -> FileStates]
    BY DEF Init, PcStates, FileStates, Replies
  <2>3. QED
    BY <1>1, <1>2, <2>1, <2>2 DEF Init, TypeOK, Removals
<1>4. QED
  BY <1>3 DEF Init, IInv, Healing, Shield, Leaving, RemovedStaysEmpty, Solo, Places, Undisturbed

-----------------------------------------------------------------------------
(* The steps of a call that leave every file alone.                        *)

\* A call that ends, where no descriptor of it is open.
LEMMA ReturnStep ==
  ASSUME IInv, NEW r \in Readers, NEW answer \in Replies, pc[r] # "idle", pc[r] # "write",
         Return(r, answer), UNCHANGED <<files, view, mishaps, deletion, changes>>,
         rows' \in Mailboxes
  PROVE  IInv'
BY DEF Return, Go, files, deletion, IInv, TypeOK, PcStates, FileStates, Removals, Replies, Healing,
       Shield, Leaving, RemovedStaysEmpty, Solo, Places, Undisturbed, At, Rendering

LEMMA QuietStep ==
  ASSUME IInv, NEW r \in Readers,
         \/ Load(r) \/ ReadHit(r) \/ ReadMiss(r) \/ RenderCommit(r) \/ NoCommit(r)
         \/ MkdirAll(r) \/ CreateFails(r) \/ RenameFails(r) \/ UpdateMessageCache(r)
  PROVE  IInv'
<1> USE DEF At, world, deletion
<1>1. CASE Load(r)
  BY <1>1 DEF Load, files, IInv, TypeOK, Healing, Shield, Leaving, RemovedStaysEmpty, Solo,
              Places, Undisturbed, Rendering
<1>2. CASE ReadHit(r)
  <2>1. PICK answer \in Replies : Return(r, answer)
    BY <1>2 DEF ReadHit, Replies
  <2>2. QED
    BY <1>2, <2>1, ReturnStep DEF ReadHit, IInv, TypeOK
<1>3. CASE NoCommit(r)
  BY <1>3, ReturnStep DEF NoCommit, IInv, TypeOK, Replies
<1>4. CASE CreateFails(r)
  BY <1>4, ReturnStep DEF CreateFails, IInv, TypeOK, Replies
<1>5. CASE UpdateMessageCache(r)
  <2>1. call[r].uid \in DOMAIN rows =>
          [rows EXCEPT ![call[r].uid].path = call[r].oid] \in Mailboxes
    BY <1>5, WrittenRow DEF UpdateMessageCache, IInv, TypeOK, CallType
  <2>2. rows' \in Mailboxes
    BY <1>5, <2>1 DEF UpdateMessageCache, IInv, TypeOK
  <2>3. QED
    BY <1>5, <2>2, ReturnStep DEF UpdateMessageCache, Replies
<1>6. CASE ReadMiss(r) \/ RenderCommit(r) \/ MkdirAll(r) \/ RenameFails(r)
  <2> USE DEF ReadMiss, RenderCommit, MkdirAll, RenameFails, Go, files, IInv
  <2>1. TypeOK'
    <3>1. \E p \in PcStates \ {"idle", "write"} : pc' = [pc EXCEPT ![r] = p]
      BY <1>6 DEF PcStates
    <3>2. pc[r] \notin {"idle", "write"} /\ dir' \in BOOLEAN
      BY <1>6 DEF TypeOK
    <3>3. UNCHANGED <<rows, view, call, fd, tmp, eml, deletion, reply, alone,
                      changes, mishaps>>
      BY <1>6
    <3>4. QED
      BY <3>1, <3>2, <3>3 DEF TypeOK
  <2>2. Healing' /\ RemovedStaysEmpty' /\ Solo'
    BY <1>6 DEF TypeOK, Healing, RemovedStaysEmpty, Solo
  <2>3. Shield' /\ Leaving' /\ Places'
    BY <1>6 DEF TypeOK, Shield, Leaving, Places
  <2>4. Undisturbed'
    BY <1>6 DEF TypeOK, Undisturbed
  <2>5. QED
    BY <2>1, <2>2, <2>3, <2>4
<1>7. QED
  BY <1>1, <1>2, <1>3, <1>4, <1>5, <1>6

\* A call begins with the row of a view.
LEMMA StartStep == ASSUME IInv, NEW r \in Readers, Start(r) PROVE IInv'
<1>1. PICK u \in DOMAIN view[r] :
        LET msg  == view[r][u]
            same == {q \in Readers : call[q] # None /\ call[q].oid = msg.oid}
        IN  /\ call' = [call EXCEPT ![r] = [uid |-> u, oid |-> msg.oid, path |-> msg.path]]
            /\ Go(r, IF msg.path = None THEN "git" ELSE "read")
            /\ alone' = IF same = {} /\ mirror = "first" THEN alone \cup {r}
                        ELSE alone \ same
  BY DEF Start
<1> DEFINE new == [uid |-> u, oid |-> view[r][u].oid, path |-> view[r][u].path]
           same == {q \in Readers : call[q] # None /\ call[q].oid = new.oid}
<1>2. new \in CallType /\ new # None
  BY ViewedRow, NoneAssumption DEF IInv, TypeOK, CallType
<1> HIDE DEF new
<1>3. /\ pc[r] = "idle" /\ fd[r] = "none" /\ r \notin alone
      /\ call' = [call EXCEPT ![r] = new]
      /\ pc' = [pc EXCEPT ![r] = IF new.path = None THEN "git" ELSE "read"]
      /\ alone' = IF same = {} /\ mirror = "first" THEN alone \cup {r}
                  ELSE alone \ same
      /\ reply' = [reply EXCEPT ![r] = "none"]
      /\ UNCHANGED <<world, files, view, mishaps>>
  <2>1. /\ pc[r] = "idle" /\ fd[r] = "none" /\ r \notin alone
        /\ reply' = [reply EXCEPT ![r] = "none"]
        /\ UNCHANGED <<world, files, view, mishaps>>
    BY DEF Start, At, IInv, TypeOK
  <2>2. /\ call' = [call EXCEPT ![r] = new]
        /\ pc' = [pc EXCEPT ![r] = IF new.path = None THEN "git" ELSE "read"]
        /\ alone' = IF same = {} /\ mirror = "first" THEN alone \cup {r}
                  ELSE alone \ same
    BY <1>1, Zenon DEF Go, new
  <2>3. QED
    BY <2>1, <2>2
<1>4. TypeOK'
  BY <1>2, <1>3 DEF IInv, TypeOK, PcStates, Replies, world, deletion, files
<1>5. Healing' /\ RemovedStaysEmpty'
  BY <1>3 DEF IInv, TypeOK, Healing, RemovedStaysEmpty, At, world, deletion, files
<1>6. Shield' /\ Leaving' /\ Places'
  BY <1>2, <1>3 DEF IInv, TypeOK, Shield, Leaving, Places, world, deletion, files
<1>7. Solo'
  BY <1>2, <1>3 DEF IInv, TypeOK, Solo, world, deletion
<1>8. Undisturbed'
  BY <1>2, <1>3 DEF IInv, TypeOK, Undisturbed, world, deletion, files
<1>9. QED
  BY <1>4, <1>5, <1>6, <1>7, <1>8 DEF IInv

-----------------------------------------------------------------------------
(* The steps on files.                                                     *)

LEMMA CreateStep == ASSUME IInv, NEW r \in Readers, Create(r) PROVE IInv'
<1> USE DEF Create, At, Go, world, deletion, IInv
<1>1. TypeOK'
  BY DEF TypeOK, PcStates, FileStates, CallType
<1>2. Healing'
  BY DEF TypeOK, Healing, CallType
<1>3. Shield' /\ Leaving' /\ RemovedStaysEmpty'
  BY DEF TypeOK, Shield, Leaving, RemovedStaysEmpty, CallType
<1>4. Solo' /\ Places'
  BY DEF TypeOK, Solo, Places
<1>5. Undisturbed'
  BY DEF TypeOK, Undisturbed, Solo, CallType
<1>6. QED
  BY <1>1, <1>2, <1>3, <1>4, <1>5

LEMMA WriteStep == ASSUME IInv, NEW r \in Readers, Write(r) PROVE IInv'
<1> USE DEF Write, At, Go, world, deletion, IInv
<1>1. TypeOK'
  BY DEF TypeOK, PcStates, FileStates, CallType
<1>2. Healing'
  BY DEF TypeOK, Healing, CallType
<1>3. Shield' /\ Leaving' /\ RemovedStaysEmpty'
  BY DEF TypeOK, Shield, Leaving, RemovedStaysEmpty, CallType
<1>4. Solo' /\ Places'
  BY DEF TypeOK, Solo, Places
<1>5. Undisturbed'
  BY DEF TypeOK, Undisturbed, Solo, CallType
<1>6. QED
  BY <1>1, <1>2, <1>3, <1>4, <1>5

LEMMA RenameStep == ASSUME IInv, NEW r \in Readers, Rename(r) PROVE IInv'
<1> USE DEF Rename, At, Go, world, deletion, IInv
<1>1. TypeOK'
  BY DEF TypeOK, PcStates, FileStates, CallType
<1>2. Healing'
  BY DEF TypeOK, Healing, CallType
<1>3. Shield' /\ Leaving' /\ RemovedStaysEmpty'
  BY DEF TypeOK, Shield, Leaving, RemovedStaysEmpty, CallType
<1>4. Solo' /\ Places'
  BY DEF TypeOK, Solo, Places
<1>5. Undisturbed'
  BY DEF TypeOK, Undisturbed, Solo, CallType
<1>6. QED
  BY <1>1, <1>2, <1>3, <1>4, <1>5

LEMMA CleanupStep == ASSUME IInv, NEW r \in Readers, Cleanup(r) PROVE IInv'
<1> USE DEF Cleanup, Return, At, Go, world, deletion, IInv
<1>1. TypeOK'
  BY DEF TypeOK, PcStates, FileStates, CallType, Replies
<1>2. ASSUME mishaps = 0, NEW c \in Commits
      PROVE  /\ eml'[c] = "torn" =>
                  \E q \in Readers : At(q, "write")' /\ call'[q].oid = c /\ fd'[q] = "eml"
             /\ tmp'[c] = "torn" =>
                  \E q \in Readers : At(q, "write")' /\ call'[q].oid = c /\ fd'[q] = "tmp"
  <2>1. /\ eml' = eml /\ call[r] # None /\ call[r].oid \in Commits
        /\ tmp'[call[r].oid] = "absent"
        /\ c # call[r].oid => tmp'[c] = tmp[c]
    BY DEF TypeOK, CallType
  <2>2. \A q \in Readers : pc[q] = "write" => q # r /\ pc'[q] = "write" /\ call'[q] = call[q]
    BY DEF TypeOK
  <2>3. \A q \in Readers :
          fd[q] = "eml" \/ (fd[q] = "tmp" /\ call[q].oid # call[r].oid) => fd'[q] = fd[q]
    BY DEF TypeOK
  <2>4. ASSUME eml'[c] = "torn"
        PROVE  \E q \in Readers : pc'[q] = "write" /\ call'[q].oid = c /\ fd'[q] = "eml"
    <3>1. PICK q \in Readers : pc[q] = "write" /\ call[q].oid = c /\ fd[q] = "eml"
      BY <1>2, <2>1, <2>4 DEF Healing
    <3>2. QED
      BY <3>1, <2>2, <2>3
  <2>5. ASSUME tmp'[c] = "torn"
        PROVE  \E q \in Readers : pc'[q] = "write" /\ call'[q].oid = c /\ fd'[q] = "tmp"
    <3>1. c # call[r].oid
      BY <2>1, <2>5
    <3>2. PICK q \in Readers : pc[q] = "write" /\ call[q].oid = c /\ fd[q] = "tmp"
      BY <1>2, <2>1, <2>5, <3>1 DEF Healing
    <3>3. QED
      BY <3>1, <3>2, <2>2, <2>3
  <2>6. QED
    BY <2>4, <2>5
<1>3. Shield' /\ Leaving' /\ RemovedStaysEmpty'
  BY DEF TypeOK, Shield, Leaving, RemovedStaysEmpty, CallType
<1>4. Solo' /\ Places'
  BY DEF TypeOK, Solo, Places
<1>5. Undisturbed'
  BY DEF TypeOK, Undisturbed, Solo, CallType
<1>6. Healing'
  BY <1>2 DEF Healing
<1>7. QED
  BY <1>1, <1>3, <1>4, <1>5, <1>6

-----------------------------------------------------------------------------
(* What happens meanwhile.                                                 *)

\* The steps of others, other than a crash.
Others == Refresh \/ Reclone \/ RemoveMirror \/ RemoveMessages \/ RemoveRows \/ GiveUp

LEMMA WorldStep == ASSUME IInv, Others PROVE IInv'
<1> USE DEF Others, session
<1>1. rows' \in Mailboxes
  BY FreshRows, LongerRows, NoRows
     DEF Refresh, Reclone, RemoveMirror, RemoveMessages, RemoveRows, GiveUp, IInv, TypeOK
<1>2. changes' \in 0 .. MaxChanges
  BY BoundsAssumption
     DEF Refresh, Reclone, RemoveMirror, RemoveMessages, RemoveRows, GiveUp, IInv, TypeOK
<1>3. CASE Refresh \/ Reclone \/ RemoveRows \/ GiveUp
  BY <1>1, <1>2, <1>3
     DEF Refresh, Reclone, RemoveRows, GiveUp, files, deletion, IInv, TypeOK, Removals,
         Healing, Shield, Leaving, RemovedStaysEmpty, Solo, Places, Undisturbed, At
<1>4. CASE RemoveMirror
  BY <1>1, <1>4
     DEF RemoveMirror, files, IInv, TypeOK, Removals, Healing, Shield, Leaving,
         RemovedStaysEmpty, Solo, Places, Undisturbed, At
<1>5. CASE RemoveMessages
  <2> USE <1>5 DEF RemoveMessages, IInv
  <2>1. TypeOK'
    BY <1>1 DEF TypeOK, Removals, FileStates
  <2>2. Leaving'
    BY DEF TypeOK, Leaving, Rendering, CallType
  <2>3. Healing' /\ Shield' /\ RemovedStaysEmpty' /\ Solo' /\ Places' /\ Undisturbed'
    BY DEF Healing, Shield, RemovedStaysEmpty, Solo, Places, Undisturbed, TypeOK
  <2>4. QED
    BY <2>1, <2>2, <2>3
<1>6. QED
  BY <1>3, <1>4, <1>5

LEMMA MishapStep ==
  ASSUME IInv, Crash \/ \E r \in Readers : Fails(r) PROVE IInv' /\ mishaps' # 0
<1>1. mishaps' \in 0 .. MaxMishaps /\ mishaps' # 0
  BY BoundsAssumption DEF Crash, Fails, IInv, TypeOK
<1>2. CASE Crash
  BY <1>1, <1>2, NoRows
     DEF Crash, IInv, TypeOK, PcStates, Removals, Replies, Healing, Shield, Leaving,
         RemovedStaysEmpty, Solo, Places, Undisturbed
<1>3. ASSUME NEW r \in Readers, Fails(r) PROVE IInv'
  BY <1>1, <1>3
     DEF Fails, Return, Go, world, deletion, IInv, TypeOK, PcStates, Replies, Healing, Shield, Leaving,
         RemovedStaysEmpty, Solo, Places, Undisturbed
<1>4. QED
  BY <1>1, <1>2, <1>3

-----------------------------------------------------------------------------
\* The invariant is inductive.
LEMMA InductiveStep == IInv /\ [Next]_vars => IInv'
<1> SUFFICES ASSUME IInv, [Next]_vars PROVE IInv'
  OBVIOUS
<1>1. CASE Others
  BY <1>1, WorldStep
<1>2. CASE Crash \/ \E r \in Readers : Fails(r)
  BY <1>2, MishapStep
<1>3. ASSUME NEW r \in Readers, Load(r) \/ Start(r) \/ RenderMessage(r) PROVE IInv'
  BY <1>3, QuietStep, StartStep, CreateStep, WriteStep, RenameStep, CleanupStep
     DEF RenderMessage
<1>4. CASE UNCHANGED vars
  BY <1>4 DEF vars, IInv, TypeOK, Healing, Shield, Leaving, RemovedStaysEmpty, Solo, Places,
              Undisturbed, At
<1>5. QED
  BY <1>1, <1>2, <1>3, <1>4 DEF Next, Others

\* The invariant holds in every reachable state.
THEOREM Invariance == Spec => []IInv
BY InitInv, InductiveStep, PTL DEF Spec

\* Types, for any number of sessions and commits.
THEOREM TypeCorrect == Spec => []TypeOK
<1>1. IInv => TypeOK
  BY DEF IInv
<1>2. QED
  BY <1>1, Invariance, PTL

\* Without a crash or a failed write no email stays torn: whoever truncated
\* it still has it open and is about to write it.
THEOREM NoEmailStaysTorn == Spec => []TornHeals
<1>1. IInv => TornHeals
  BY DEF IInv, Healing, TornHeals
<1>2. QED
  BY <1>1, Invariance, PTL

\* What a deletion whose mark stands has emptied stays empty, but for the
\* renderings the removal came upon.
THEOREM RemovalIsFinal == Spec => []RemovedStaysEmpty
<1>1. IInv => RemovedStaysEmpty
  BY DEF IInv
<1>2. QED
  BY <1>1, Invariance, PTL

\* A call with its commit to itself is answered with its email, whatever else
\* sessions, refreshes and earlier calls left in the cache.
THEOREM LoneCallsSucceed == Spec => AloneIsRight
<1>1. IInv /\ [Next]_vars => [RightWhenAlone]_vars
  <2> SUFFICES ASSUME IInv, Next, mishaps' = 0, NEW r \in alone,
                      call[r].path \in {call[r].oid, None}
               PROVE  reply'[r] \in {reply[r], "right"}
    BY DEF RightWhenAlone
  <2>1. r \in Readers /\ call[r] # None /\ mishaps = 0
    <3>1. ~(Crash \/ \E q \in Readers : Fails(q))
      BY MishapStep
    <3>2. Others => UNCHANGED mishaps
      BY DEF Others, Refresh, Reclone, RemoveMirror, RemoveMessages, RemoveRows, GiveUp
    <3>3. ASSUME NEW q \in Readers, Load(q) \/ Start(q) \/ RenderMessage(q)
          PROVE  UNCHANGED mishaps
      BY <3>3 DEF Load, Start, RenderMessage, ReadHit, ReadMiss, RenderCommit, NoCommit,
         MkdirAll, Create, CreateFails, Write, Rename, RenameFails, Cleanup, UpdateMessageCache
    <3>4. QED
      BY <3>1, <3>2, <3>3 DEF Next, Others, IInv, TypeOK
  <2>2. CASE Others
    BY <2>2 DEF Others, session, Refresh, Reclone, RemoveMirror, RemoveMessages, RemoveRows,
                GiveUp
  <2>3. CASE Crash \/ \E q \in Readers : Fails(q)
    BY <2>3, MishapStep
  <2>4. ASSUME NEW q \in Readers, q # r, Load(q) \/ Start(q) \/ RenderMessage(q)
        PROVE  reply'[r] = reply[r]
    BY <2>1, <2>4
       DEF Load, Start, RenderMessage, ReadHit, ReadMiss, RenderCommit, NoCommit,
           MkdirAll, Create, CreateFails, Write, Rename, RenameFails, Cleanup,
           UpdateMessageCache, Return, IInv, TypeOK
  <2>5. CASE ReadHit(r)
    <3>1. eml[call[r].oid] # "torn"
      BY <2>1, <2>5 DEF ReadHit, At, IInv, Healing, Solo, TypeOK, CallType
    <3>2. call[r].path = call[r].oid
      BY <2>1, <2>5 DEF ReadHit, At, IInv, Places
    <3>3. QED
      BY <2>1, <2>5, <3>1, <3>2 DEF ReadHit, Return, IInv, TypeOK
  <2>6. CASE NoCommit(r) \/ CreateFails(r) \/ Cleanup(r)
    BY <2>1, <2>6 DEF NoCommit, CreateFails, Cleanup, At, IInv, Solo, Places, Undisturbed
  <2>7. CASE Start(r)
    BY <2>1, <2>7 DEF Start, At, IInv, TypeOK
  <2>8. CASE \/ Load(r) \/ ReadMiss(r) \/ RenderCommit(r) \/ MkdirAll(r) \/ Create(r)
             \/ Write(r) \/ Rename(r) \/ RenameFails(r)
    BY <2>8 DEF Load, ReadMiss, RenderCommit, MkdirAll, Create, Write, Rename, RenameFails
  <2>9. CASE UpdateMessageCache(r)
    BY <2>1, <2>9 DEF UpdateMessageCache, Return, IInv, TypeOK
  <2>10. QED
    BY <2>1, <2>2, <2>3, <2>4, <2>5, <2>6, <2>7, <2>8, <2>9
    DEF Next, Others, RenderMessage
<1>2. QED
  BY <1>1, Invariance, PTL DEF Spec, AloneIsRight
=============================================================================
