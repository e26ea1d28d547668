--------------------------- MODULE RefreshLifecycle ---------------------------
(***************************************************************************)
(* The life of one repository in internal/service/repository.go: its row   *)
(* in the database, its bare mirror under the cache directory, the shared  *)
(* refresh call (RepositoryService.running), deletions, and restarts of    *)
(* the process.  One action is one step between two points where another   *)
(* goroutine, or a crash, can intervene: a database statement, a git       *)
(* subprocess, a file removal, or a section under RepositoryService.mu.    *)
(*                                                                         *)
(* What the refresh writes into the mailboxes is MailboxSync's subject;    *)
(* here it is one bit, whether a snapshot has been stored.                 *)
(***************************************************************************)
EXTENDS Naturals

CONSTANTS
  Refreshes,      \* goroutines that call RefreshRepository
  Deletes,        \* web requests that call DeleteRepository
  BootDelete,     \* the deletion EnsureAll runs before the servers start
  NoCall,         \* running[id] is absent
  MaxCrashes,     \* bound: how often the process dies
  DeleteMayFail   \* whether RemoveAll and the delete statements may fail

ASSUME CallersAssumption ==
  /\ NoCall \notin Refreshes
  /\ BootDelete \notin Deletes

ASSUME BoundsAssumption ==
  /\ MaxCrashes \in Nat
  /\ DeleteMayFail \in BOOLEAN

VARIABLES
  mode,       \* "boot" until EnsureAll has listed the rows, "ensure" while it
              \* goes through them, "up" when main.go has started the servers
  row,        \* repositories.status, or "unborn" / "gone" without a row
  mirror,     \* whether <cacheDir>/<id>.git exists
  mail,       \* whether the mailboxes of the row hold a snapshot
  scratch,    \* how many <id>.git.tmp-* directories exist
  running,    \* RepositoryService.running[id]
  pc,         \* where each refresh caller is
  joined,     \* the call a joiner waits for
  outcome,    \* what RefreshRepository returned to each caller
  cancelled,  \* calls whose context DeleteRepository cancelled
  dpc,        \* where each deletion is
  dcall,      \* the call a deletion waits for
  left,       \* deletions whose client disconnected
  crashes     \* how often the process died

vars == <<mode, row, mirror, mail, scratch, running, pc, joined, outcome,
          cancelled, dpc, dcall, left, crashes>>

disk     == <<row, mirror, mail, scratch>>
calls    == <<running, pc, joined, outcome, cancelled>>
deletion == <<dpc, dcall, left>>
process  == <<mode, crashes>>

Deleters == Deletes \cup {BootDelete}

Statuses == {"pending", "cloning", "fetching", "ready", "error", "deleting"}

\* The steps of RefreshRepository between taking running[id] and close(done).
Working == {"load", "stat", "markClone", "markFetch", "clone", "fetch",
            "inspect", "replace", "fail", "finish", "close"}
Registered == Working \cup {"unregister"}
PcStates == Registered \cup {"idle", "start", "wait", "returned"}

DeleteStates == {"idle", "mark", "lock", "wait", "remove", "deleteRow", "done"}

HasRow == row \in Statuses

Go(p, label) == pc' = [pc EXCEPT ![p] = label]
GoD(d, label) == dpc' = [dpc EXCEPT ![d] = label]

\* What no step of refresh between "load" and "close" touches.
Quiet == UNCHANGED <<running, joined, outcome, cancelled, deletion, process>>

Fail(p, label) ==
  /\ outcome' = [outcome EXCEPT ![p] = "err"]
  /\ Go(p, label)
  /\ UNCHANGED <<running, joined, cancelled, deletion, process>>

\* A slip, not the code's: notify who waits now, instead of closing a channel.
ClosedAsSignal(q) == pc[q] = "unregister"

\* close(call.done) has run; running[id] may still hold the call.
Closed(q) == pc[q] \in {"unregister", "returned"}

-----------------------------------------------------------------------------
(* Wrong versions of definitions below, none of them the code's: each is a  *)
(* slip that breaks one of the properties at the end of this module.        *)

\* Insert the status when there is no row to update.
UpsertStatus(s) == row' = s

\* Take running[id] without looking at it.
RegisterUnchecked(p) ==
  /\ pc[p] = "start"
  /\ running' = p
  /\ Go(p, "load")
  /\ UNCHANGED <<disk, joined, outcome, cancelled, deletion, process>>

\* Start the servers before EnsureAll.
CallDuringBoot(p) ==
  /\ row # "unborn" /\ pc[p] = "idle"
  /\ Go(p, "start")
  /\ UNCHANGED <<disk, running, joined, outcome, cancelled, deletion, process>>

\* Load the row without the check for "deleting".
LoadAnyRow(p) ==
  /\ pc[p] = "load" /\ p \notin cancelled /\ HasRow
  /\ Go(p, "stat") /\ Quiet /\ UNCHANGED disk

\* Leave the temporary directory when git clone fails.
CloneFailsDirty(p) ==
  /\ pc[p] = "clone"
  /\ Fail(p, "fail") /\ UNCHANGED disk

\* Clean up after a fetch what only a clone makes.
FetchFailsCleans(p) ==
  /\ pc[p] = "fetch"
  /\ scratch' = scratch - 1
  /\ Fail(p, "fail") /\ UNCHANGED <<row, mirror, mail>>

\* Return nil after the wait, not the error of the call.
WakeWithoutError(p) ==
  /\ pc[p] = "wait" /\ Closed(joined[p])
  /\ outcome' = [outcome EXCEPT ![p] = "ok"]
  /\ joined' = [joined EXCEPT ![p] = NoCall]
  /\ Go(p, "returned")
  /\ UNCHANGED <<disk, running, cancelled, deletion, process>>

\* Go on to "ready" when the mailbox transaction failed.
ReplaceFailsIgnored(p) ==
  /\ pc[p] = "replace"
  /\ Go(p, "finish") /\ Quiet /\ UNCHANGED disk

\* Look for a missing mirror only, whatever the status says.
EnsureMirrorsOnly ==
  /\ mode = "ensure" /\ (~HasRow \/ mirror)
  /\ mode' = "up"
  /\ UNCHANGED <<disk, calls, deletion, crashes>>

-----------------------------------------------------------------------------

\* UPDATE repositories SET status=... WHERE id=...: nothing without the row.
SetStatus(s) == row' = IF HasRow THEN s ELSE row

Init ==
  /\ mode = "boot" /\ crashes = 0
  /\ row = "unborn" /\ mirror = FALSE /\ mail = FALSE /\ scratch = 0
  /\ running = NoCall /\ cancelled = {}
  /\ pc = [p \in Refreshes |-> "idle"]
  /\ joined = [p \in Refreshes |-> NoCall]
  /\ outcome = [p \in Refreshes |-> "none"]
  /\ dpc = [d \in Deleters |-> "idle"]
  /\ dcall = [d \in Deleters |-> NoCall]
  /\ left = {}

-----------------------------------------------------------------------------
(* Callers of RefreshRepository: the web handlers, IMAP commands, recovery *)

\* AddRepository inserts the row and starts the initial clone.
AddRepository(p) ==
  /\ mode = "up" /\ row = "unborn" /\ pc[p] = "idle"
  /\ row' = "pending"
  /\ Go(p, "start")
  /\ UNCHANGED <<mirror, mail, scratch, running, joined, outcome, cancelled,
                 deletion, process>>

\* The refresh handler of the web UI, or SELECT, NOOP and IDLE of a session
\* that logged in before; the id need not name a row any more.
Call(p) ==
  /\ mode = "up" /\ row # "unborn" /\ pc[p] = "idle"
  /\ Go(p, "start")
  /\ UNCHANGED <<disk, running, joined, outcome, cancelled, deletion, process>>

Register(p) ==
  /\ pc[p] = "start" /\ running = NoCall
  /\ running' = p
  /\ Go(p, "load")
  /\ UNCHANGED <<disk, joined, outcome, cancelled, deletion, process>>

Join(p) ==
  /\ pc[p] = "start" /\ running # NoCall
  /\ joined' = [joined EXCEPT ![p] = running]
  /\ Go(p, "wait")
  /\ UNCHANGED <<disk, running, outcome, cancelled, deletion, process>>

Wake(p) ==
  /\ pc[p] = "wait" /\ Closed(joined[p])
  /\ outcome' = [outcome EXCEPT ![p] = outcome[joined[p]]]
  /\ joined' = [joined EXCEPT ![p] = NoCall]
  /\ Go(p, "returned")
  /\ UNCHANGED <<disk, running, cancelled, deletion, process>>

\* The refreshCall is garbage once nobody waits for it; p may call again.
Forget(p) ==
  /\ pc[p] = "returned"
  /\ \A q \in Refreshes : joined[q] # p
  /\ \A d \in Deleters : dcall[d] # p
  /\ outcome' = [outcome EXCEPT ![p] = "none"]
  /\ cancelled' = cancelled \ {p}
  /\ Go(p, "idle")
  /\ UNCHANGED <<disk, running, joined, deletion, process>>

-----------------------------------------------------------------------------
(* refresh, run by the caller that registered                              *)

LoadRepository(p) ==
  /\ pc[p] = "load" /\ p \notin cancelled
  /\ HasRow /\ row # "deleting"
  /\ Go(p, "stat") /\ Quiet /\ UNCHANGED disk

\* No row, the row is being deleted, the context is cancelled, or the stored
\* credential cannot be decrypted: refresh returns without touching the row.
LoadFails(p) ==
  /\ pc[p] = "load"
  /\ Fail(p, "close") /\ UNCHANGED disk

StatMirror(p) ==
  /\ pc[p] = "stat"
  /\ Go(p, IF mirror THEN "markFetch" ELSE "markClone")
  /\ Quiet /\ UNCHANGED disk

\* The error of this status write is dropped.  Clone makes its temporary
\* directory before it starts git.
MarkBusy(p) ==
  /\ pc[p] \in {"markClone", "markFetch"} /\ p \notin cancelled
  /\ LET cloning == pc[p] = "markClone" IN
     /\ SetStatus(IF cloning THEN "cloning" ELSE "fetching")
     /\ scratch' = IF cloning THEN scratch + 1 ELSE scratch
     /\ Go(p, IF cloning THEN "clone" ELSE "fetch")
  /\ Quiet /\ UNCHANGED <<mirror, mail>>

\* Under a cancelled context neither the status write nor git gets anywhere.
BusyCancelled(p) ==
  /\ pc[p] \in {"markClone", "markFetch"} /\ p \in cancelled
  /\ Fail(p, "fail") /\ UNCHANGED disk

\* The rename is tried before the context is looked at, so a cancelled clone
\* may still publish; onto an existing mirror it fails.
CloneOk(p) ==
  /\ pc[p] = "clone" /\ ~mirror
  /\ mirror' = TRUE
  /\ scratch' = scratch - 1
  /\ Go(p, "inspect") /\ Quiet /\ UNCHANGED <<row, mail>>

\* The host key lookup after the rename may fail: an error with the mirror
\* in place.  The deferred RemoveAll drops the temporary directory.
CloneFails(p) ==
  /\ pc[p] = "clone"
  /\ \E published \in BOOLEAN : mirror' = (mirror \/ published)
  /\ scratch' = scratch - 1
  /\ Fail(p, "fail") /\ UNCHANGED <<row, mail>>

FetchOk(p) ==
  /\ pc[p] = "fetch" /\ mirror
  /\ Go(p, "inspect") /\ Quiet /\ UNCHANGED disk

FetchFails(p) ==
  /\ pc[p] = "fetch"
  /\ Fail(p, "fail") /\ UNCHANGED disk

\* DefaultBranch, Branches, Mailboxes, IsAncestor and Commits.
InspectOk(p) ==
  /\ pc[p] = "inspect" /\ p \notin cancelled /\ mirror
  /\ Go(p, "replace") /\ Quiet /\ UNCHANGED disk

InspectFails(p) ==
  /\ pc[p] = "inspect"
  /\ Fail(p, "fail") /\ UNCHANGED disk

\* One transaction; without the row its inserts break the foreign key.
ReplaceOk(p) ==
  /\ pc[p] = "replace" /\ p \notin cancelled /\ HasRow
  /\ mail' = TRUE
  /\ Go(p, "finish") /\ Quiet /\ UNCHANGED <<row, mirror, scratch>>

ReplaceFails(p) ==
  /\ pc[p] = "replace"
  /\ Fail(p, "fail") /\ UNCHANGED disk

\* recordRefreshError writes with a context of its own, so a cancelled
\* refresh writes too; this error is dropped as well.
RecordError(p) ==
  /\ pc[p] = "fail"
  /\ SetStatus("error")
  /\ Go(p, "close") /\ Quiet /\ UNCHANGED <<mirror, mail, scratch>>

MarkReady(p) ==
  /\ pc[p] = "finish" /\ p \notin cancelled /\ HasRow
  /\ row' = "ready"
  /\ outcome' = [outcome EXCEPT ![p] = "ok"]
  /\ Go(p, "close")
  /\ UNCHANGED <<mirror, mail, scratch, running, joined, cancelled, deletion,
                 process>>

\* sql.ErrNoRows, a cancelled context, or a failed write.
MarkReadyFails(p) ==
  /\ pc[p] = "finish"
  /\ Fail(p, "close") /\ UNCHANGED disk

CloseDone(p) ==
  /\ pc[p] = "close"
  /\ Go(p, "unregister") /\ Quiet /\ UNCHANGED disk

Unregister(p) ==
  /\ pc[p] = "unregister"
  /\ running' = NoCall
  /\ Go(p, "returned")
  /\ UNCHANGED <<disk, joined, outcome, cancelled, deletion, process>>

Enter(p)   == Register(p) \/ Join(p) \/ Wake(p)
Load(p)    == LoadRepository(p) \/ LoadFails(p)
Git(p)     == \/ StatMirror(p) \/ MarkBusy(p) \/ BusyCancelled(p)
              \/ CloneOk(p) \/ CloneFails(p) \/ FetchOk(p) \/ FetchFails(p)
              \/ InspectOk(p) \/ InspectFails(p)
Store(p)   == \/ ReplaceOk(p) \/ ReplaceFails(p) \/ RecordError(p)
              \/ MarkReady(p) \/ MarkReadyFails(p)
Leave(p)   == CloseDone(p) \/ Unregister(p)

RefreshStep(p) == Enter(p) \/ Load(p) \/ Git(p) \/ Store(p) \/ Leave(p)

-----------------------------------------------------------------------------
(* DeleteRepository                                                        *)

CallDelete(d) ==
  /\ mode = "up" /\ d \in Deletes /\ dpc[d] = "idle" /\ row # "unborn"
  /\ GoD(d, "mark")
  /\ UNCHANGED <<disk, calls, dcall, left, process>>

\* The client of a web request goes away, which cancels its context.
Disconnect(d) ==
  /\ d \in Deletes /\ dpc[d] \notin {"idle", "done"} /\ d \notin left
  /\ left' = left \cup {d}
  /\ UNCHANGED <<disk, calls, dpc, dcall, process>>

SetDeleting(d) ==
  /\ dpc[d] = "mark" /\ d \notin left
  /\ SetStatus("deleting")
  /\ GoD(d, "lock")
  /\ UNCHANGED <<mirror, mail, scratch, calls, dcall, left, process>>

\* An idle repository is deleted without waiting for anyone.
NothingRunning(d) ==
  /\ dpc[d] = "lock" /\ running = NoCall
  /\ GoD(d, "remove")
  /\ UNCHANGED <<disk, calls, dcall, left, process>>

CancelRunning(d) ==
  /\ dpc[d] = "lock" /\ running # NoCall
  /\ cancelled' = cancelled \cup {running}
  /\ dcall' = [dcall EXCEPT ![d] = running]
  /\ GoD(d, "wait")
  /\ UNCHANGED <<disk, running, pc, joined, outcome, left, process>>

RefreshStopped(d) ==
  /\ dpc[d] = "wait" /\ Closed(dcall[d])
  /\ dcall' = [dcall EXCEPT ![d] = NoCall]
  /\ GoD(d, "remove")
  /\ UNCHANGED <<disk, calls, left, process>>

\* os.RemoveAll of the mirror and of the rendered messages takes no context.
RemoveFiles(d) ==
  /\ dpc[d] = "remove"
  /\ mirror' = FALSE
  /\ GoD(d, "deleteRow")
  /\ UNCHANGED <<row, mail, scratch, calls, dcall, left, process>>

\* DELETE FROM repositories; the mailboxes go with the row.
DeleteRow(d) ==
  /\ dpc[d] = "deleteRow" /\ d \notin left
  /\ row' = "gone"
  /\ mail' = FALSE
  /\ GoD(d, "done")
  /\ UNCHANGED <<mirror, scratch, calls, dcall, left, process>>

\* Any step may return early: a statement under a cancelled context, the wait
\* for done under one, or a failing write or removal.
Abandon(d) ==
  /\ \/ dpc[d] \in {"mark", "wait", "deleteRow"} /\ d \in left
     \/ dpc[d] \in {"mark", "remove", "deleteRow"} /\ DeleteMayFail
  /\ dcall' = [dcall EXCEPT ![d] = NoCall]
  /\ GoD(d, "done")
  /\ UNCHANGED <<disk, calls, left, process>>

DeleteStep(d) ==
  \/ SetDeleting(d) \/ NothingRunning(d) \/ CancelRunning(d)
  \/ RefreshStopped(d) \/ RemoveFiles(d) \/ DeleteRow(d) \/ Abandon(d)

ReturnDelete(d) ==
  /\ dpc[d] = "done" /\ d \in Deletes
  /\ left' = left \ {d}
  /\ GoD(d, "idle")
  /\ UNCHANGED <<disk, calls, dcall, process>>

-----------------------------------------------------------------------------
(* main.go: EnsureAll runs to its end before the servers accept anything,  *)
(* and nothing waits for refreshes when the process stops.                 *)

ListRepositories ==
  /\ mode = "boot"
  /\ mode' = "ensure"
  /\ UNCHANGED <<disk, calls, deletion, crashes>>

\* EnsureAll logs the error and returns: the servers start over whatever the
\* last process left, and nothing looks for it before the next start.
ListFails ==
  /\ mode = "boot"
  /\ mode' = "up"
  /\ UNCHANGED <<disk, calls, deletion, crashes>>

Ensuring == mode = "ensure" /\ dpc[BootDelete] = "idle"

EnsureDeleting ==
  /\ Ensuring /\ row = "deleting"
  /\ GoD(BootDelete, "mark")
  /\ UNCHANGED <<disk, calls, dcall, left, process>>

\* Its error is dropped: the servers start anyway.
EnsureDeleted ==
  /\ dpc[BootDelete] = "done"
  /\ GoD(BootDelete, "idle")
  /\ mode' = "up"
  /\ UNCHANGED <<disk, calls, dcall, left, crashes>>

EnsureMirror(p) ==
  /\ Ensuring /\ HasRow /\ row # "deleting" /\ ~mirror
  /\ Go(p, "start")
  /\ mode' = "up"
  /\ UNCHANGED <<disk, running, joined, outcome, cancelled, deletion, crashes>>

NothingToEnsure ==
  /\ Ensuring /\ (~HasRow \/ (row # "deleting" /\ mirror))
  /\ mode' = "up"
  /\ UNCHANGED <<disk, calls, deletion, crashes>>

BootStep == \/ ListRepositories \/ ListFails
            \/ EnsureDeleting \/ EnsureDeleted \/ NothingToEnsure
            \/ \E p \in Refreshes : EnsureMirror(p)

\* A kill, or the end of main: only the database and the files stay.
Crash ==
  /\ crashes < MaxCrashes
  /\ crashes' = crashes + 1
  /\ mode' = "boot"
  /\ running' = NoCall /\ cancelled' = {}
  /\ pc' = [p \in Refreshes |-> "idle"]
  /\ joined' = [p \in Refreshes |-> NoCall]
  /\ outcome' = [p \in Refreshes |-> "none"]
  /\ dpc' = [d \in Deleters |-> "idle"]
  /\ dcall' = [d \in Deleters |-> NoCall]
  /\ left' = {}
  /\ UNCHANGED disk

-----------------------------------------------------------------------------
RefreshNext(p) == AddRepository(p) \/ Call(p) \/ RefreshStep(p) \/ Forget(p)
DeleteNext(d)  == CallDelete(d) \/ Disconnect(d) \/ DeleteStep(d) \/ ReturnDelete(d)

Next ==
  \/ \E p \in Refreshes : RefreshNext(p)
  \/ \E d \in Deleters : DeleteNext(d)
  \/ BootStep
  \/ Crash

Spec == Init /\ [][Next]_vars

\* A goroutine that can run does run, and every git command ends: each has a
\* timeout.  Nobody is obliged to call, to disconnect or to crash.
Fairness ==
  /\ \A p \in Refreshes : WF_vars(RefreshStep(p))
  /\ \A d \in Deleters : WF_vars(DeleteStep(d))
  /\ WF_vars(BootStep)

LiveSpec == Spec /\ Fairness

-----------------------------------------------------------------------------
(* Properties                                                              *)

TypeOK ==
  /\ mode \in {"boot", "ensure", "up"}
  /\ row \in Statuses \cup {"unborn", "gone"}
  /\ mirror \in BOOLEAN /\ mail \in BOOLEAN
  /\ scratch \in Nat
  /\ running \in Refreshes \cup {NoCall}
  /\ pc \in [Refreshes -> PcStates]
  /\ joined \in [Refreshes -> Refreshes \cup {NoCall}]
  /\ outcome \in [Refreshes -> {"none", "ok", "err"}]
  /\ cancelled \subseteq Refreshes
  /\ dpc \in [Deleters -> DeleteStates]
  /\ dcall \in [Deleters -> Refreshes \cup {NoCall}]
  /\ left \subseteq Deletes
  /\ crashes \in 0 .. MaxCrashes

\* At most one goroutine at a time is between taking running[id] and giving
\* it back, whoever cancels, crashes or joins: refreshes of one repository
\* never clone, fetch or replace mailboxes side by side.
SingleFlight ==
  \A p, q \in Refreshes :
    pc[p] \in Registered /\ pc[q] \in Registered => p = q

\* While the deletion that EnsureAll resumes is under way, no refresh is
\* registered: it cannot lose its mark to one and removes the files alone.
RecoveryExclusive ==
  dpc[BootDelete] # "idle" => mode = "ensure" /\ running = NoCall

\* A row says "ready", and a caller is told its refresh succeeded, only for a
\* repository whose mailboxes have been stored, over failures and restarts.
SuccessHasMail ==
  /\ row = "ready" => mail
  /\ \A p \in Refreshes : outcome[p] = "ok" => mail \/ row = "gone"

\* Every temporary clone directory belongs to the clone that is running or to
\* one that a crash interrupted.
Cloning == IF \E p \in Refreshes : pc[p] = "clone" THEN 1 ELSE 0

ScratchBounded == scratch <= crashes + Cloning

\* With one deletion at a time: as long as the row still carries its mark, a
\* deletion that removes files is alone on the mirror; every refresh that
\* loaded the row before the mark has ended, later ones are turned away.
MarkShieldsRemoval ==
  \A d \in Deleters :
    dpc[d] \in {"remove", "deleteRow"} /\ row = "deleting"
      => \A p \in Refreshes : pc[p] \in Working => pc[p] \in {"load", "close"}

\* No error path, late status write or restart brings a deleted row back.
GoneStaysGone == [][row = "gone" => row' = "gone" /\ ~mail']_vars

\* With one deletion at a time: if the row still carries its mark when it goes,
\* there is no mirror, and none comes back: no refresh has loaded the row.
Clean ==
  /\ row = "gone" /\ ~mirror
  /\ \A p \in Refreshes : pc[p] \in Working => pc[p] \in {"load", "close"}

MarkedDeletionIsClean ==
  [][/\ row = "deleting" /\ row' = "gone" => Clean'
     /\ Clean => Clean']_vars

\* Every caller of RefreshRepository gets an answer, or dies in a crash: a
\* joiner is never left waiting for a call that ended.
RefreshReturns ==
  \A p \in Refreshes : pc[p] = "start" ~> pc[p] \in {"returned", "idle"}

\* A deletion never waits for ever for a refresh it cancelled.
DeleteReturns ==
  \A d \in Deletes : dpc[d] = "mark" ~> dpc[d] \in {"done", "idle"}

\* A start that has listed a row with the mark finishes its deletion, unless
\* the process dies first; one whose list failed leaves it to the next start.
InterruptedDeletionResumes ==
  (mode = "ensure" /\ row = "deleting") ~> (row = "gone" \/ mode = "boot")

\* RefreshRepository with everything it does in between implements the call
\* that SharedCall specifies: no joiner returns before the refresh it waits
\* for, or with another answer, over cancellations, deletions and crashes.
Elsewhere == [idle |-> "out", start |-> "asking", wait |-> "attached",
              unregister |-> "answered", returned |-> "returned"]

CallState(p) == IF pc[p] \in Working THEN "leading" ELSE Elsewhere[pc[p]]

Shared == INSTANCE SharedCall WITH
  Callers <- Refreshes, leader <- running, call <- joined,
  state   <- [p \in Refreshes |-> CallState(p)],
  answer  <- [p \in Refreshes |-> IF Closed(p) THEN outcome[p] ELSE "none"]

CallIsShared == Shared!Spec

(* What the repository's own words promise and the code does not keep.     *)

\* repository_test.go deletes a repository and expects that its cache is
\* gone.  A refresh in flight overwrites the status "deleting", the next one
\* is let in, and its clone outlives the row.
NoOrphanMirror == row = "gone" /\ running = NoCall => ~mirror
=============================================================================
