----------------------------- MODULE MailboxSync -----------------------------
(***************************************************************************)
(* How a refresh turns the branches of the mirror into mailboxes: refresh  *)
(* in internal/service/repository.go and Store.ReplaceMailboxes in         *)
(* internal/store/store.go, for one repository.  RefreshLifecycle shows    *)
(* that refreshes never run side by side, so there is one refresh here,    *)
(* again and again, cut where it can fail or the process can die.          *)
(*                                                                         *)
(* The remote is not a variable: anything may have been pushed to it at    *)
(* any time, so a fetch brings any set of branches, and the default branch *)
(* asked for afterwards is any branch.                                     *)
(***************************************************************************)
EXTENDS Naturals, Sequences

CONSTANTS
  Branches,      \* branch names
  Commits,       \* object ids
  None,          \* the empty string: no default branch known, no commit
  Reach,         \* Reach[c]: c and its ancestors
  Log(_, _),     \* git log --reverse --topo-order from..to, or of all of to
  MaxTime,       \* bound: seconds on the clock
  MaxRefreshes,  \* bound: refreshes begun
  MaxLost        \* bound: status writes that never happen

Hidden(from) == IF from = None THEN {} ELSE Reach[from]

ASSUME NamesAssumption ==
  None \notin Branches /\ None \notin Commits

\* Ancestry is a partial order.
ASSUME ReachAssumption ==
  /\ Reach \in [Commits -> SUBSET Commits]
  /\ \A c \in Commits : c \in Reach[c]
  /\ \A c \in Commits : \A d \in Reach[c] : Reach[d] \subseteq Reach[c]
  /\ \A c \in Commits : \A d \in Reach[c] : c \in Reach[d] => c = d

\* What the mailbox of a branch may hold: sequences of distinct commits.
Mails ==
  {m \in Seq(Commits) : \A u, v \in 1 .. Len(m) : m[u] = m[v] => u = v}

ASSUME NoneAssumption == None \notin [validity : Nat, msgs : Mails]

\* git log names every commit in question once, parents first.
ASSUME LogAssumption ==
  \A from \in Commits \cup {None}, to \in Commits :
    LET log == Log(from, to) IN
    /\ log \in Seq(Commits)
    /\ \A c \in Commits :
         c \in Reach[to] \ Hidden(from) <=> \E i \in 1 .. Len(log) : log[i] = c
    /\ \A i, j \in 1 .. Len(log) : log[i] \in Reach[log[j]] => i <= j
    /\ \A i, j \in 1 .. Len(log) : log[i] = log[j] => i = j

ASSUME BoundsAssumption ==
  MaxTime \in Nat \ {0} /\ MaxRefreshes \in Nat /\ MaxLost \in Nat

VARIABLES
  mirror,         \* refs/heads of the bare mirror: branch -> commit
  box,            \* rows of mailboxes, with their messages, by branch
  defaultBranch,  \* repositories.default_branch
  pc,             \* where the refresh is
  loaded,         \* default_branch as the refresh read it
  found,          \* the default branch ls-remote reported
  now,            \* time.Now().Unix()
  refreshes, lost \* how many refreshes began; lost their last status write

vars == <<mirror, box, defaultBranch, pc, loaded, found, now, refreshes, lost>>

\* What a mirror's refs can be.
Snapshots == UNION {[S -> Commits] : S \in SUBSET Branches}

NoMail == [uid \in {} |-> None]

Init ==
  /\ mirror = [b \in {} |-> None]
  /\ box = [b \in {} |-> None]
  /\ defaultBranch = None /\ loaded = None /\ found = None
  /\ pc = "idle" /\ now = 1
  /\ refreshes = 0 /\ lost = 0

-----------------------------------------------------------------------------
(* Wrong versions of definitions below, none of them the code's: each is a  *)
(* slip that breaks one of the properties at the end of this module.        *)

\* Forget that a new default branch renames two mailboxes.
MappingNeverChanged(b) == FALSE

\* Keep UIDVALIDITY over a rebuild.
ValidityKept(b, failing) ==
  IF b \notin DOMAIN box THEN now ELSE box[b].validity

\* Log the whole branch on a fast-forward too, and let INSERT OR IGNORE skip
\* what is there.
WholeLog(b, failing) == Log(None, mirror[b])

\* Report no branch instead of an error when HEAD names none.
DiscoverNothing ==
  /\ pc = "discover"
  /\ found' \in Branches \cup {"HEAD"}
  /\ pc' = "replace"
  /\ UNCHANGED <<mirror, box, defaultBranch, loaded, now, refreshes, lost>>

-----------------------------------------------------------------------------
(* What ReplaceMailboxes writes for one branch                              *)

\* A fast-forward: the old head is the new one or git finds it among the
\* ancestors.  Any failure of git merge-base counts as "no".
FastForward(b, failing) ==
  /\ b \in DOMAIN box
  /\ \/ box[b].head = mirror[b]
     \/ b \notin failing /\ box[b].head \in Reach[mirror[b]]

\* The branch becomes INBOX or ceases to be it, as the refresh sees it.
MappingChanged(b) ==
  loaded # None /\ loaded # found /\ b \in {loaded, found}

Incremental(b, failing) == FastForward(b, failing) /\ ~MappingChanged(b)

\* INSERT OR IGNORE of each commit under the next uid: a commit the mailbox
\* has is skipped, its uid is used up all the same.
Appended(msgs, next, log) ==
  LET fresh == {i \in 1 .. Len(log) :
                  /\ \A u \in DOMAIN msgs : msgs[u] # log[i]
                  /\ \A j \in 1 .. (i - 1) : log[j] # log[i]}
  IN  [u \in DOMAIN msgs \cup {next + i - 1 : i \in fresh} |->
         IF u \in DOMAIN msgs THEN msgs[u] ELSE log[u - next + 1]]

\* The mailbox is emptied when it is new, changes its name, or the snapshot
\* is not a fast-forward; an old one then gets the next UIDVALIDITY.
Rebuild(b, failing) ==
  \/ b \notin DOMAIN box
  \/ box[b].inbox # (b = found)
  \/ ~Incremental(b, failing)

\* A slip, not the code's: a new UIDVALIDITY is the time again.
ValidityFromClock(b, failing) ==
  IF b \notin DOMAIN box \/ Rebuild(b, failing) THEN now ELSE box[b].validity

Validity(b, failing) ==
  IF b \notin DOMAIN box THEN now
  ELSE IF Rebuild(b, failing) THEN box[b].validity + 1
  ELSE box[b].validity

NewCommits(b, failing) ==
  Log(IF Incremental(b, failing) THEN box[b].head ELSE None, mirror[b])

Replaced(b, failing) ==
  LET keep == ~Rebuild(b, failing)
      next == IF keep THEN box[b].next ELSE 1
      log  == NewCommits(b, failing)
  IN  [inbox    |-> b = found,
       validity |-> Validity(b, failing),
       next     |-> next + Len(log),
       head     |-> mirror[b],
       msgs     |-> Appended(IF keep THEN box[b].msgs ELSE NoMail, next, log)]

-----------------------------------------------------------------------------
(* The refresh                                                             *)

Tick ==
  /\ now < MaxTime
  /\ now' = now + 1
  /\ UNCHANGED <<mirror, box, defaultBranch, pc, loaded, found, refreshes, lost>>

Begin ==
  /\ pc = "idle" /\ refreshes < MaxRefreshes
  /\ refreshes' = refreshes + 1
  /\ loaded' = defaultBranch
  /\ pc' = "fetch"
  /\ UNCHANGED <<mirror, box, defaultBranch, found, now, lost>>

\* git clone --mirror or git remote update --prune.
Fetch ==
  /\ pc = "fetch"
  /\ mirror' \in Snapshots
  /\ pc' = "discover"
  /\ UNCHANGED <<box, defaultBranch, loaded, found, now, refreshes, lost>>

\* A fetch that times out or is killed has updated any of the refs.
FetchFails ==
  /\ pc = "fetch"
  /\ mirror' \in Snapshots
  /\ pc' = "idle"
  /\ UNCHANGED <<box, defaultBranch, loaded, found, now, refreshes, lost>>

\* git ls-remote --symref, a connection of its own: the branch it names need
\* not be among those fetched.
DiscoverDefault ==
  /\ pc = "discover"
  /\ found' \in Branches
  /\ pc' = "replace"
  /\ UNCHANGED <<mirror, box, defaultBranch, loaded, now, refreshes, lost>>

\* ReplaceMailboxes commits: one row per branch of the mirror, no others.
Replace ==
  /\ pc = "replace"
  /\ \E failing \in SUBSET Branches :
       box' = [b \in DOMAIN mirror |-> Replaced(b, failing)]
  /\ pc' = "publish"
  /\ UNCHANGED <<mirror, defaultBranch, loaded, found, now, refreshes, lost>>

\* Any error before the commit, or a crash: the row keeps the default branch
\* that the refresh loaded, and the transaction leaves nothing behind.
RefreshFails ==
  /\ pc \in {"discover", "replace"}
  /\ pc' = "idle"
  /\ UNCHANGED <<mirror, box, defaultBranch, loaded, found, now, refreshes, lost>>

\* UpdateRepositoryStatus(..., "ready", "", defaultBranch, ...).
WriteStatus ==
  /\ pc = "publish"
  /\ defaultBranch' = found
  /\ pc' = "idle"
  /\ UNCHANGED <<mirror, box, loaded, found, now, refreshes, lost>>

\* That write is a statement after the transaction: a crash in between, or
\* its failure, leaves the new mailboxes beside the old default branch.
LoseStatus ==
  /\ pc = "publish" /\ lost < MaxLost
  /\ lost' = lost + 1
  /\ pc' = "idle"
  /\ UNCHANGED <<mirror, box, defaultBranch, loaded, found, now, refreshes>>

Next ==
  \/ Tick \/ Begin \/ Fetch \/ FetchFails \/ DiscoverDefault
  \/ Replace \/ RefreshFails \/ WriteStatus \/ LoseStatus

Spec == Init /\ [][Next]_vars

-----------------------------------------------------------------------------
(* Properties                                                              *)

TypeOK ==
  /\ mirror \in Snapshots
  /\ DOMAIN box \subseteq Branches
  /\ \A b \in DOMAIN box :
       /\ DOMAIN box[b] = {"inbox", "validity", "next", "head", "msgs"}
       /\ box[b].inbox \in BOOLEAN /\ box[b].validity \in Nat
       /\ box[b].next \in Nat \ {0} /\ box[b].head \in Commits
  /\ {defaultBranch, loaded, found} \subseteq Branches \cup {None}
  /\ pc \in {"idle", "fetch", "discover", "replace", "publish"}
  /\ now \in 1 .. MaxTime
  /\ refreshes \in 0 .. MaxRefreshes /\ lost \in 0 .. MaxLost

\* IMAP's rules for uids, over every sequence of fast-forwards, rewrites,
\* default branch changes and failed steps: uids are 1, 2, ... without a gap
\* up to UIDNEXT, no commit is in a mailbox twice, and a commit never comes
\* before one of its ancestors.
UidsSound ==
  \A b \in DOMAIN box :
    LET m == box[b].msgs IN
    /\ DOMAIN m = 1 .. (box[b].next - 1)
    /\ \A u, v \in DOMAIN m : m[u] \in Reach[m[v]] => u <= v
    /\ \A u, v \in DOMAIN m : m[u] = m[v] => u = v

\* As long as no status write was lost, a mailbox holds exactly the history
\* of the head it records: the incremental path and the rebuild agree.
Complete ==
  lost = 0 =>
    \A b \in DOMAIN box :
      {box[b].msgs[u] : u \in DOMAIN box[b].msgs} = Reach[box[b].head]

\* A client keeps its cache while UIDVALIDITY stays: then no message of the
\* row changes its uid and none goes away.
KeepsUids ==
  \A b \in DOMAIN box \cap DOMAIN box' :
    box'[b].validity = box[b].validity =>
      \A u \in DOMAIN box[b].msgs :
        u \in DOMAIN box'[b].msgs /\ box'[b].msgs[u] = box[b].msgs[u]

UidsStable == [][KeepsUids]_vars

\* The mailbox of a branch as its clients see it.
Mailbox(b) == INSTANCE UidMailbox WITH
  Validities <- Nat,
  box <- IF b \in DOMAIN box
           THEN [validity |-> box[b].validity, msgs |-> box[b].msgs] ELSE None

\* Every branch is a mailbox of UidMailbox: each refresh extends it under its
\* UIDVALIDITY, rebuilds it under the next one, or makes or drops its row.
BranchesAreMailboxes ==
  /\ \A b \in Branches : Mailbox(b)!Init
  /\ [][\A b \in Branches : Mailbox(b)!Step]_vars

(* What the repository's own words promise and the code does not keep.     *)

\* README.md: each commit is an email.  After a lost status write and a new
\* default branch, a mailbox is rebuilt from an incremental log.
EachCommitIsAnEmail ==
  \A b \in DOMAIN box :
    {box[b].msgs[u] : u \in DOMAIN box[b].msgs} = Reach[box[b].head]

\* The IMAP server tells clients that a changed UIDVALIDITY is a changed
\* history.  When the default branch changes, INBOX passes to a branch whose
\* next UIDVALIDITY may be the one INBOX had.
InboxValidityTellsHistory ==
  [][\A b \in DOMAIN box, c \in DOMAIN box \cap DOMAIN box' :
       box[b].inbox /\ box'[c].inbox /\ box'[c].validity = box[b].validity =>
         \A u \in DOMAIN box[b].msgs \cap DOMAIN box'[c].msgs :
           box'[c].msgs[u] = box[b].msgs[u]]_vars
=============================================================================
