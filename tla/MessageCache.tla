----------------------------- MODULE MessageCache ----------------------------
(***************************************************************************)
(* RenderMessage of internal/service/repository.go: emails rendered from   *)
(* the mirror, kept as files, and found again by the cache_path of a row   *)
(* of messages.  IMAP sessions call it with rows they loaded earlier, at   *)
(* once for the same commit, while refreshes rebuild the mailbox and an    *)
(* administrator deletes the repository.                                   *)
(*                                                                         *)
(* One mailbox is modelled: another branch has another directory.  A path  *)
(* is the commit it is named for.  A file is "torn" from its truncation    *)
(* until it is written, and descriptors follow a file that is renamed.     *)
(***************************************************************************)
EXTENDS Naturals, Sequences

CONSTANTS
  Readers,     \* sessions that call RenderMessage
  Commits,     \* object ids
  None,        \* no path, no call
  MaxMails,    \* bound: messages in the mailbox
  MaxChanges,  \* bound: refreshes that change the mailbox
  MaxMishaps   \* bound: crashes, failures of git and of writes

ASSUME BoundsAssumption ==
  MaxMails \in Nat /\ MaxChanges \in Nat /\ MaxMishaps \in Nat

\* A row of messages, and the row a session renders.
RowType == [oid : Commits, path : Commits \cup {None}]
CallType == [uid : 1 .. MaxMails, oid : Commits, path : Commits \cup {None}]

ASSUME NoneAssumption == None \notin Readers \cup Commits \cup CallType

VARIABLES
  rows,     \* messages of the mailbox by uid: its commit and its cache_path
  view,     \* session.messages: the rows a session has loaded
  call,     \* the row a session renders, with its uid, or None
  pc,       \* where the rendering is
  fd,       \* what the descriptor a session writes to is now the file of
  dir,      \* whether the directory of the mailbox's emails is there
  tmp, eml, \* <commit>.eml.tmp and <commit>.eml: "absent", "torn" or "whole"
  mirror,   \* <cacheDir>/<id>.git: the "first" clone, "absent", or there "again"
  shielded, \* the mark of a deletion stands, and no refresh got past it
  removal,  \* how far DeleteRepository has come
  reply,    \* what the last call of a session returned
  alone,    \* calls that no other call for their commit and no removal has met
  leaving,  \* commits that were being rendered when this deletion removed the emails
  changes, mishaps

vars == <<rows, view, call, pc, fd, dir, tmp, eml, mirror, shielded, removal, reply,
          alone, leaving, changes, mishaps>>
files == <<fd, dir, tmp, eml>>
deletion == <<mirror, shielded, removal, leaving>>
world == <<rows, deletion, changes>>
session == <<view, call, pc, reply>>

PcStates == {"idle", "read", "git", "mkdir", "create", "write", "rename",
             "cleanup", "update"}
FileStates == {"absent", "torn", "whole"}
Replies == {"none", "right", "wrong", "torn", "error"}

\* What the deletion under way has removed last: nothing, the mirror, the
\* directory messages/<id> with the emails, the repository's rows.
Removals == {"none", "mirror", "messages", "rows"}

Fresh(oids) == [u \in DOMAIN oids |-> [oid |-> oids[u], path |-> None]]

\* What the mailbox may hold, by uid.
Mails ==
  {m \in UNION {[1 .. n -> Commits] : n \in 0 .. MaxMails} :
     \A u, v \in DOMAIN m : m[u] = m[v] => u = v}

Mailboxes == UNION {[1 .. n -> RowType] : n \in 0 .. MaxMails}

Init ==
  /\ \E m \in Mails : rows = Fresh(m)
  /\ view = [r \in Readers |-> <<>>]
  /\ call = [r \in Readers |-> None]
  /\ pc = [r \in Readers |-> "idle"]
  /\ fd = [r \in Readers |-> "none"]
  /\ dir = FALSE
  /\ tmp = [c \in Commits |-> "absent"]
  /\ eml = [c \in Commits |-> "absent"]
  /\ mirror = "first" /\ shielded = FALSE /\ removal = "none"
  /\ reply = [r \in Readers |-> "none"]
  /\ alone = {} /\ leaving = {}
  /\ changes = 0 /\ mishaps = 0

\* The renderings of a commit that are past git show.
Rendering(c) ==
  {r \in Readers : /\ call[r] # None /\ call[r].oid = c
                   /\ pc[r] \in {"mkdir", "create", "write", "rename", "cleanup"}}

At(r, state) == pc[r] = state
Go(r, state) == pc' = [pc EXCEPT ![r] = state]

Return(r, answer) ==
  /\ Go(r, "idle")
  /\ reply' = [reply EXCEPT ![r] = answer]
  /\ call' = [call EXCEPT ![r] = None]
  /\ alone' = alone \ {r}

-----------------------------------------------------------------------------
(* Wrong versions of definitions below, none of them the code's: each is a  *)
(* slip that breaks one of the properties at the end of this module.        *)

\* Render before the mirror is looked at, and write where it is gone.
RenderAnyway(r) ==
  /\ pc[r] = "git"
  /\ pc' = [pc EXCEPT ![r] = "mkdir"]
  /\ UNCHANGED <<world, files, view, call, reply, alone, mishaps>>

\* Write to what has the temporary name now.
WriteByName(r) ==
  /\ pc[r] = "write"
  /\ tmp' = [tmp EXCEPT ![call[r].oid] = "whole"]
  /\ fd' = [fd EXCEPT ![r] = "none"]
  /\ pc' = [pc EXCEPT ![r] = "rename"]
  /\ UNCHANGED <<world, dir, eml, view, call, reply, alone, mishaps>>

\* Write and do not close the file.
WriteUnclosed(r) ==
  /\ At(r, "write")
  /\ tmp' = IF fd[r] = "tmp" THEN [tmp EXCEPT ![call[r].oid] = "whole"] ELSE tmp
  /\ eml' = IF fd[r] = "eml" THEN [eml EXCEPT ![call[r].oid] = "whole"] ELSE eml
  /\ Go(r, "rename")
  /\ UNCHANGED <<world, fd, dir, view, call, reply, alone, mishaps>>

\* os.Mkdir, which fails where the directory is there.
MkdirOnly(r) ==
  /\ At(r, "mkdir")
  /\ IF dir THEN Return(r, "error")
     ELSE Go(r, "create") /\ UNCHANGED <<call, reply, alone>>
  /\ dir' = TRUE
  /\ UNCHANGED <<world, fd, tmp, eml, view, mishaps>>

-----------------------------------------------------------------------------
(* RenderMessage                                                           *)

\* Messages(mailbox.ID), as SELECT and a poll keep it for later commands.
Load(r) ==
  /\ At(r, "idle")
  /\ view' = [view EXCEPT ![r] = rows]
  /\ UNCHANGED <<world, files, call, pc, reply, alone, mishaps>>

Start(r) ==
  /\ At(r, "idle")
  /\ \E u \in DOMAIN view[r] :
       LET msg  == view[r][u]
           same == {q \in Readers : call[q] # None /\ call[q].oid = msg.oid}
       IN  /\ call' = [call EXCEPT ![r] = [uid |-> u, oid |-> msg.oid,
                                           path |-> msg.path]]
           /\ Go(r, IF msg.path = None THEN "git" ELSE "read")
           /\ alone' = IF same = {} /\ mirror = "first" THEN alone \cup {r}
                       ELSE alone \ same
  /\ reply' = [reply EXCEPT ![r] = "none"]
  /\ UNCHANGED <<world, files, view, mishaps>>

ReadHit(r) ==
  /\ At(r, "read") /\ eml[call[r].path] # "absent"
  /\ Return(r, IF eml[call[r].path] = "torn" THEN "torn"
               ELSE IF call[r].path = call[r].oid THEN "right" ELSE "wrong")
  /\ UNCHANGED <<world, files, view, mishaps>>

ReadMiss(r) ==
  /\ At(r, "read") /\ eml[call[r].path] = "absent"
  /\ Go(r, "git")
  /\ UNCHANGED <<world, files, view, call, reply, alone, mishaps>>

\* git show in the mirror, which keeps every commit it has fetched.
RenderCommit(r) ==
  /\ At(r, "git") /\ mirror # "absent"
  /\ Go(r, "mkdir")
  /\ UNCHANGED <<world, files, view, call, reply, alone, mishaps>>

\* There is no mirror, or one cloned since, without what the remote has dropped.
NoCommit(r) ==
  /\ At(r, "git") /\ mirror # "first"
  /\ Return(r, "error")
  /\ UNCHANGED <<world, files, view, mishaps>>

MkdirAll(r) ==
  /\ At(r, "mkdir")
  /\ dir' = TRUE
  /\ Go(r, "create")
  /\ UNCHANGED <<world, fd, tmp, eml, view, call, reply, alone, mishaps>>

\* os.WriteFile opens with O_CREATE and O_TRUNC: it may be the file that
\* another rendering is writing.
Create(r) ==
  /\ At(r, "create") /\ dir
  /\ tmp' = [tmp EXCEPT ![call[r].oid] = "torn"]
  /\ fd' = [fd EXCEPT ![r] = "tmp"]
  /\ Go(r, "write")
  /\ UNCHANGED <<world, dir, eml, view, call, reply, alone, mishaps>>

CreateFails(r) ==
  /\ At(r, "create") /\ ~dir
  /\ Return(r, "error")
  /\ UNCHANGED <<world, files, view, mishaps>>

\* The bytes go to the file the descriptor is open on, wherever that is now.
Write(r) ==
  /\ At(r, "write")
  /\ tmp' = IF fd[r] = "tmp" THEN [tmp EXCEPT ![call[r].oid] = "whole"] ELSE tmp
  /\ eml' = IF fd[r] = "eml" THEN [eml EXCEPT ![call[r].oid] = "whole"] ELSE eml
  /\ fd' = [fd EXCEPT ![r] = "none"]
  /\ Go(r, "rename")
  /\ UNCHANGED <<world, dir, view, call, reply, alone, mishaps>>

\* The file that was under the name is unlinked: its writers keep writing.
Rename(r) ==
  /\ At(r, "rename") /\ tmp[call[r].oid] # "absent"
  /\ LET c == call[r].oid IN
     /\ eml' = [eml EXCEPT ![c] = tmp[c]]
     /\ tmp' = [tmp EXCEPT ![c] = "absent"]
     /\ fd' = [q \in Readers |->
                 IF call[q] = None \/ fd[q] = "none" THEN fd[q]
                 ELSE IF call[q].oid # c THEN fd[q]
                 ELSE IF fd[q] = "tmp" THEN "eml" ELSE "unlinked"]
  /\ Go(r, "update")
  /\ UNCHANGED <<world, dir, view, call, reply, alone, mishaps>>

RenameFails(r) ==
  /\ At(r, "rename") /\ tmp[call[r].oid] = "absent"
  /\ Go(r, "cleanup")
  /\ UNCHANGED <<world, files, view, call, reply, alone, mishaps>>

\* os.Remove(tmp): by now it may be another rendering's.
Cleanup(r) ==
  /\ At(r, "cleanup")
  /\ tmp' = [tmp EXCEPT ![call[r].oid] = "absent"]
  /\ fd' = [q \in Readers |->
              IF call[q] # None /\ call[q].oid = call[r].oid /\ fd[q] = "tmp"
                THEN "unlinked" ELSE fd[q]]
  /\ Return(r, "error")
  /\ UNCHANGED <<world, dir, eml, view, mishaps>>

\* UPDATE messages ... WHERE mailbox_id = ? AND uid = ?, its error ignored:
\* the row of that uid may be another commit's by now, or gone.
UpdateMessageCache(r) ==
  /\ At(r, "update")
  /\ LET c == call[r] IN
     \/ c.uid \in DOMAIN rows /\ rows' = [rows EXCEPT ![c.uid].path = c.oid]
     \/ rows' = rows
  /\ Return(r, "right")
  /\ UNCHANGED <<deletion, changes, files, view, mishaps>>

-----------------------------------------------------------------------------
(* What happens meanwhile                                                  *)

\* ReplaceMailboxes: more messages, or all of them anew, with no cache_path.
\* A refresh that was under way when the mark was set may still get here.
Refresh ==
  /\ ~shielded /\ removal # "rows" /\ changes < MaxChanges
  /\ changes' = changes + 1
  /\ \E m \in Mails :
       \/ rows' = Fresh(m)
       \/ /\ \A u \in DOMAIN rows : u \in DOMAIN m /\ m[u] = rows[u].oid
          /\ rows' = [u \in DOMAIN m |->
                        IF u \in DOMAIN rows THEN rows[u] ELSE Fresh(m)[u]]
  /\ UNCHANGED <<files, deletion, session, alone, mishaps>>

\* That refresh overwrites the mark with a status of its own, the next one is
\* let in and clones: beside the deletion, after it was given up, or when the
\* row is gone.  EnsureAll clones a missing mirror as well.
Reclone ==
  /\ ~shielded /\ mirror = "absent"
  /\ mirror' = "again"
  /\ UNCHANGED <<rows, shielded, removal, leaving, files, session, alone, changes,
                 mishaps>>

\* DeleteRepository, in its order; a deletion may be taken up again.  By now
\* its mark stands, and will, or a refresh has written over it.
RemoveMirror ==
  /\ removal # "rows" /\ removal' = "mirror"
  /\ mirror' = "absent"
  /\ shielded' \in BOOLEAN /\ (shielded => shielded')
  /\ alone' = {} /\ leaving' = {}
  /\ UNCHANGED <<rows, files, session, changes, mishaps>>

RemoveMessages ==
  /\ removal = "mirror" /\ removal' = "messages"
  /\ dir' = FALSE
  /\ tmp' = [c \in Commits |-> "absent"]
  /\ eml' = [c \in Commits |-> "absent"]
  /\ fd' = [r \in Readers |-> IF fd[r] = "none" THEN "none" ELSE "unlinked"]
  /\ leaving' = {c \in Commits : Rendering(c) # {}}
  /\ alone' = {}
  /\ UNCHANGED <<rows, mirror, shielded, session, changes, mishaps>>

RemoveRows ==
  /\ removal = "messages" /\ removal' = "rows"
  /\ rows' = <<>>
  /\ UNCHANGED <<mirror, shielded, leaving, files, session, alone, changes, mishaps>>

\* A removal or the last statement fails: DeleteRepository returns.
GiveUp ==
  /\ removal \in {"mirror", "messages"} /\ removal' = "none"
  /\ leaving' = {}
  /\ UNCHANGED <<rows, mirror, shielded, files, session, alone, changes, mishaps>>

\* The process dies, and with it the sessions and the deletion; EnsureAll may
\* take that up again.
Crash ==
  /\ mishaps < MaxMishaps /\ mishaps' = mishaps + 1
  /\ pc' = [r \in Readers |-> "idle"]
  /\ call' = [r \in Readers |-> None]
  /\ view' = [r \in Readers |-> <<>>]
  /\ fd' = [r \in Readers |-> "none"]
  /\ reply' = [r \in Readers |-> "none"]
  /\ alone' = {}
  /\ removal' = IF removal = "rows" THEN "rows" ELSE "none"
  /\ leaving' = IF removal = "rows" THEN leaving ELSE {}
  /\ UNCHANGED <<rows, dir, tmp, eml, mirror, shielded, changes>>

\* git show fails or times out, or the disk is full: what was written stays.
Fails(r) ==
  /\ mishaps < MaxMishaps /\ mishaps' = mishaps + 1
  /\ pc[r] \in {"git", "write"}
  /\ fd' = [fd EXCEPT ![r] = "none"]
  /\ Return(r, "error")
  /\ UNCHANGED <<world, dir, tmp, eml, view>>

-----------------------------------------------------------------------------
RenderMessage(r) ==
  \/ ReadHit(r) \/ ReadMiss(r) \/ RenderCommit(r) \/ NoCommit(r)
  \/ MkdirAll(r) \/ Create(r) \/ CreateFails(r) \/ Write(r)
  \/ Rename(r) \/ RenameFails(r) \/ Cleanup(r) \/ UpdateMessageCache(r)

Next ==
  \/ Refresh \/ Reclone \/ RemoveMirror \/ RemoveMessages \/ RemoveRows
  \/ GiveUp \/ Crash
  \/ \E r \in Readers : Load(r) \/ Start(r) \/ RenderMessage(r) \/ Fails(r)

Spec == Init /\ [][Next]_vars

-----------------------------------------------------------------------------
(* Properties                                                              *)

\* The types, and what a call and its descriptor are at each place.
TypeOK ==
  /\ rows \in Mailboxes /\ view \in [Readers -> Mailboxes]
  /\ pc \in [Readers -> PcStates]
  /\ fd \in [Readers -> {"none", "tmp", "eml", "unlinked"}]
  /\ call \in [Readers -> CallType \cup {None}]
  /\ \A r \in Readers :
       /\ call[r] = None <=> pc[r] = "idle"
       /\ fd[r] # "none" <=> pc[r] = "write"
  /\ dir \in BOOLEAN
  /\ tmp \in [Commits -> FileStates] /\ eml \in [Commits -> FileStates]
  /\ mirror \in {"first", "absent", "again"} /\ shielded \in BOOLEAN
  /\ removal \in Removals /\ reply \in [Readers -> Replies]
  /\ alone \subseteq {r \in Readers : pc[r] # "idle"}
  /\ leaving \subseteq Commits
  /\ changes \in 0 .. MaxChanges /\ mishaps \in 0 .. MaxMishaps

\* Renderings of one commit share <commit>.eml.tmp, and one of them may
\* rename the file another has just truncated.  Without a crash or a failed
\* write the email is torn only as long as that other one is writing to it.
TornHeals ==
  mishaps = 0 =>
    \A c \in Commits :
      eml[c] = "torn" =>
        \E r \in Readers : At(r, "write") /\ call[r].oid = c /\ fd[r] = "eml"

\* A call that met no other one for its commit and no removal does not fail by
\* what the cache is in, as long as the row it loaded names no other commit's
\* file.
RightWhenAlone ==
  mishaps' = 0 =>
    \A r \in alone :
      call[r].path \in {call[r].oid, None} => reply'[r] \in {reply[r], "right"}

AloneIsRight == [][RightWhenAlone]_vars

\* Once a deletion whose mark still stands has removed the emails, nothing is
\* written where they were but by renderings that were past git show then.
\* After a mark that was overwritten, the mirror and the emails may come back.
RemovedStaysEmpty ==
  shielded /\ removal \in {"messages", "rows"} =>
    \A c \in Commits \ leaving : eml[c] = "absent" /\ tmp[c] = "absent"

(* What the repository's own words promise and the code does not keep.     *)

\* README.md: each commit is an email whose body contains the patch.  A
\* rendering that began before a rebuild writes its path into the row that
\* has the uid now, and from then on that row is answered with another
\* commit's email.
EachEmailIsItsCommit == \A r \in Readers : reply[r] # "wrong"
=============================================================================
