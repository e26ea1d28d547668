-------------------------- MODULE MailboxSyncProofs --------------------------
(***************************************************************************)
(* Proofs about MailboxSync, for any branches, any commit graph that       *)
(* satisfies the assumptions, and any bounds: its invariants, and that     *)
(* every branch it keeps is a mailbox of UidMailbox.                       *)
(***************************************************************************)
EXTENDS MailboxSync, TLAPS

-----------------------------------------------------------------------------
(* The inductive invariant, part by part.                                  *)

\* Every message of a mailbox is in the history of its head.
Within ==
  \A b \in DOMAIN box :
    \A u \in DOMAIN box[b].msgs : box[b].msgs[u] \in Reach[box[b].head]

\* The INBOX the last committed refresh chose.
Chosen == IF pc = "publish" THEN found ELSE defaultBranch

\* As long as no status write was lost, the names of the mailboxes agree with
\* the default branch that the next refresh will load.
NamesAgree ==
  lost = 0 =>
    \A b \in DOMAIN box : Chosen # None /\ (box[b].inbox <=> b = Chosen)

\* Nobody else writes default_branch while a refresh runs.
LoadedCurrent ==
  /\ pc # "idle" => loaded = defaultBranch
  /\ pc \in {"replace", "publish"} => found \in Branches

\* Every ancestor of a head is one of its messages.
Covered ==
  lost = 0 =>
    \A b \in DOMAIN box : \A c \in Reach[box[b].head] :
      \E u \in DOMAIN box[b].msgs : box[b].msgs[u] = c

IInv ==
  /\ TypeOK
  /\ UidsSound
  /\ Within
  /\ NamesAgree
  /\ LoadedCurrent
  /\ Covered

-----------------------------------------------------------------------------
(* Lemmas about the operators.                                             *)

\* When no commit of the log is in the mailbox yet and the uids have no gap,
\* INSERT OR IGNORE skips nothing: the log is appended as it stands.
LEMMA AppendedFresh ==
  ASSUME NEW msgs, NEW next \in Nat \ {0}, NEW log \in Seq(Commits),
         DOMAIN msgs = 1 .. (next - 1),
         \A u \in DOMAIN msgs, i \in 1 .. Len(log) : msgs[u] # log[i],
         \A i, j \in 1 .. Len(log) : log[i] = log[j] => i = j
  PROVE  /\ DOMAIN Appended(msgs, next, log) = 1 .. (next + Len(log) - 1)
         /\ \A u \in 1 .. (next + Len(log) - 1) :
              Appended(msgs, next, log)[u] =
                IF u \in DOMAIN msgs THEN msgs[u] ELSE log[u - next + 1]
<1> DEFINE fresh == {i \in 1 .. Len(log) :
                       /\ \A u \in DOMAIN msgs : msgs[u] # log[i]
                       /\ \A j \in 1 .. (i - 1) : log[j] # log[i]}
<1>1. Len(log) \in Nat
  OBVIOUS
<1>2. fresh = 1 .. Len(log)
  BY <1>1
<1>3. PICK k \in Nat : k = Len(log)
  BY <1>1
<1>4. 1 .. (next - 1) \cup {next + i - 1 : i \in 1 .. k} = 1 .. (next + k - 1)
  <2> DEFINE old == 1 .. (next - 1)
             new == {next + i - 1 : i \in 1 .. k}
             all == 1 .. (next + k - 1)
  <2>1. ASSUME NEW u \in all, u \notin old PROVE u \in new
    <3>1. u - next + 1 \in 1 .. k /\ u = next + (u - next + 1) - 1
      BY <2>1
    <3>2. QED
      BY <3>1
  <2>2. new \subseteq all
    OBVIOUS
  <2>3. old \subseteq all
    OBVIOUS
  <2> HIDE DEF old, new, all
  <2>4. old \cup new = all
    BY <2>1, <2>2, <2>3
  <2>5. QED
    BY <2>4 DEF old, new, all
<1>5. DOMAIN msgs \cup {next + i - 1 : i \in fresh} = 1 .. (next + Len(log) - 1)
  BY <1>2, <1>3, <1>4
<1>6. QED
  BY <1>5 DEF Appended

\* What LogAssumption says of one log.
LEMMA LogFacts ==
  ASSUME NEW from \in Commits \cup {None}, NEW to \in Commits
  PROVE  /\ Log(from, to) \in Seq(Commits)
         /\ \A c \in Commits :
              c \in Reach[to] \ Hidden(from)
                <=> \E i \in 1 .. Len(Log(from, to)) : Log(from, to)[i] = c
         /\ \A i, j \in 1 .. Len(Log(from, to)) :
              Log(from, to)[i] \in Reach[Log(from, to)[j]] => i <= j
         /\ \A i, j \in 1 .. Len(Log(from, to)) :
              Log(from, to)[i] = Log(from, to)[j] => i = j
BY LogAssumption

\* Appending the log from..to to messages that lie in the history of from
\* keeps the uids sound, stays within the history of to, and covers what the
\* messages covered and all that is new.
LEMMA Appending ==
  ASSUME NEW msgs, NEW next \in Nat \ {0},
         NEW from \in Commits \cup {None}, NEW to \in Commits,
         Hidden(from) \subseteq Reach[to],
         DOMAIN msgs = 1 .. (next - 1),
         \A u \in DOMAIN msgs : msgs[u] \in Hidden(from),
         \A u, v \in DOMAIN msgs : msgs[u] \in Reach[msgs[v]] => u <= v,
         \A u, v \in DOMAIN msgs : msgs[u] = msgs[v] => u = v
  PROVE  LET log == Log(from, to)
             new == Appended(msgs, next, log) IN
         /\ Len(log) \in Nat
         /\ DOMAIN new = 1 .. (next + Len(log) - 1)
         /\ \A u \in DOMAIN msgs : u \in DOMAIN new /\ new[u] = msgs[u]
         /\ \A u \in DOMAIN new : new[u] \in Reach[to]
         /\ \A u, v \in DOMAIN new : new[u] \in Reach[new[v]] => u <= v
         /\ \A u, v \in DOMAIN new : new[u] = new[v] => u = v
         /\ \A c \in Reach[to] \ Hidden(from) : \E u \in DOMAIN new : new[u] = c
<1> DEFINE log == Log(from, to)
           new == Appended(msgs, next, log)
<1>1. /\ log \in Seq(Commits)
      /\ \A c \in Commits :
           c \in Reach[to] \ Hidden(from) <=> \E i \in 1 .. Len(log) : log[i] = c
      /\ \A i, j \in 1 .. Len(log) : log[i] \in Reach[log[j]] => i <= j
      /\ \A i, j \in 1 .. Len(log) : log[i] = log[j] => i = j
  BY LogFacts
<1> HIDE DEF log
<1>k. PICK k \in Nat : k = Len(log)
  BY <1>1
<1>2. /\ \A i \in 1 .. k : log[i] \in Reach[to] \ Hidden(from)
      /\ \A c \in Reach[to] \ Hidden(from) : \E i \in 1 .. k : log[i] = c
      /\ \A i, j \in 1 .. k : log[i] \in Reach[log[j]] => i <= j
      /\ \A i, j \in 1 .. k : log[i] = log[j] => i = j
  <2>1. \A i \in 1 .. k : log[i] \in Commits
    BY <1>1, <1>k
  <2>2. Reach[to] \subseteq Commits
    BY ReachAssumption
  <2>3. QED
    BY <1>1, <1>k, <2>1, <2>2
<1>3. /\ DOMAIN new = 1 .. (next + k - 1)
      /\ \A u \in 1 .. (next + k - 1) :
           new[u] = IF u \in DOMAIN msgs THEN msgs[u] ELSE log[u - next + 1]
  <2>1. \A u \in DOMAIN msgs, i \in 1 .. Len(log) : msgs[u] # log[i]
    BY <1>k, <1>2
  <2>2. /\ DOMAIN Appended(msgs, next, log) = 1 .. (next + Len(log) - 1)
        /\ \A u \in 1 .. (next + Len(log) - 1) :
             Appended(msgs, next, log)[u] =
               IF u \in DOMAIN msgs THEN msgs[u] ELSE log[u - next + 1]
    <3>1. /\ log \in Seq(Commits)
          /\ \A i, j \in 1 .. Len(log) : log[i] = log[j] => i = j
      BY <1>1
    <3>2. QED
      BY ONLY <2>1, <3>1, next \in Nat \ {0}, DOMAIN msgs = 1 .. (next - 1),
              AppendedFresh, Zenon
  <2>3. QED
    BY <1>k, <2>2
<1>4. \A c \in Hidden(from) : Reach[c] \subseteq Hidden(from)
  BY ReachAssumption, NamesAssumption DEF Hidden
<1> HIDE DEF new
\* A uid is an old one, below next, or the place of a commit of the log.
<1>5. \A u \in 1 .. (next + k - 1) :
        \/ u \in DOMAIN msgs /\ u < next /\ new[u] = msgs[u]
        \/ u >= next /\ u - next + 1 \in 1 .. k /\ new[u] = log[u - next + 1]
  BY <1>3
<1>6. DOMAIN new = 1 .. (next + k - 1)
  BY <1>3
<1>7. \A u \in DOMAIN msgs : u \in DOMAIN new /\ new[u] = msgs[u]
  BY <1>3
<1>8. \A u \in DOMAIN new : new[u] \in Reach[to]
  BY <1>2, <1>5, <1>6
<1>9. ASSUME NEW u \in DOMAIN new, NEW v \in DOMAIN new
      PROVE  /\ new[u] \in Reach[new[v]] => u <= v
             /\ new[u] = new[v] => u = v
  <2>1. CASE u < next /\ v < next
    BY <1>5, <1>6, <2>1
  <2>2. CASE u < next /\ v >= next
    BY <1>2, <1>5, <1>6, <2>2
  <2>3. CASE u >= next /\ v < next
    BY <1>2, <1>4, <1>5, <1>6, <2>3
  <2>4. CASE u >= next /\ v >= next
    <3>1. PICK i \in 1 .. k : i = u - next + 1 /\ new[u] = log[i]
      BY <1>5, <1>6, <2>4
    <3>2. PICK j \in 1 .. k : j = v - next + 1 /\ new[v] = log[j]
      BY <1>5, <1>6, <2>4
    <3>3. (i <= j => u <= v) /\ (i = j => u = v)
      BY <1>6, <3>1, <3>2
    <3>4. QED
      BY <1>2, <3>1, <3>2, <3>3
  <2>5. QED
    BY <1>5, <1>6, <2>1, <2>2, <2>3, <2>4
<1>10. \A c \in Reach[to] \ Hidden(from) : \E u \in DOMAIN new : new[u] = c
  <2> SUFFICES ASSUME NEW c \in Reach[to] \ Hidden(from)
               PROVE  \E u \in DOMAIN new : new[u] = c
    OBVIOUS
  <2>1. PICK i \in 1 .. k : log[i] = c
    BY <1>2
  <2>2. PICK u \in 1 .. (next + k - 1) : u = next + i - 1
    OBVIOUS
  <2>3. u - next + 1 = i /\ u >= next
    BY <2>2
  <2>4. new[u] = log[i]
    BY <1>5, <2>3
  <2>5. QED
    BY <1>6, <2>1, <2>4
<1>11. QED
  BY <1>k, <1>6, <1>7, <1>8, <1>9, <1>10 DEF log, new

-----------------------------------------------------------------------------
(* What Replace writes for one branch.                                     *)

\* What the invariant says of one mailbox, with m for its row.
Sound(m) ==
  /\ m.next \in Nat \ {0}
  /\ DOMAIN m.msgs = 1 .. (m.next - 1)
  /\ \A u \in DOMAIN m.msgs : m.msgs[u] \in Reach[m.head]
  /\ \A u, v \in DOMAIN m.msgs : m.msgs[u] \in Reach[m.msgs[v]] => u <= v
  /\ \A u, v \in DOMAIN m.msgs : m.msgs[u] = m.msgs[v] => u = v

\* Without a lost status write, a branch that is read incrementally keeps its
\* name: the two are decided from the same two default branches.
LEMMA IncrementalKeepsName ==
  ASSUME IInv, pc = "replace", lost = 0,
         NEW b \in DOMAIN box, NEW failing, Incremental(b, failing)
  PROVE  ~Rebuild(b, failing)
<1>1. loaded # None /\ (box[b].inbox <=> b = loaded) /\ box[b].inbox \in BOOLEAN
  BY DEF IInv, NamesAgree, Chosen, LoadedCurrent, TypeOK
<1>2. loaded = found \/ b \notin {loaded, found}
  BY <1>1 DEF Incremental, MappingChanged
<1>3. box[b].inbox = (b = found)
  BY <1>1, <1>2
<1>4. QED
  BY <1>3 DEF Rebuild

\* A branch that is read incrementally has its old head among the ancestors
\* of the new one.
LEMMA IncrementalIsAhead ==
  ASSUME IInv, NEW b \in DOMAIN mirror, NEW failing, Incremental(b, failing)
  PROVE  /\ b \in DOMAIN box /\ box[b].head \in Commits
         /\ Reach[box[b].head] \subseteq Reach[mirror[b]]
<1>1. b \in DOMAIN box /\ box[b].head \in Commits
  BY DEF Incremental, FastForward, IInv, TypeOK
<1>2. mirror[b] \in Commits
  BY DEF IInv, TypeOK, Snapshots
<1>3. box[b].head \in Reach[mirror[b]]
  BY <1>2, ReachAssumption DEF Incremental, FastForward
<1>4. QED
  BY <1>1, <1>2, <1>3, ReachAssumption

\* What Replace makes of one branch: sound uids within the head's history,
\* which it covers as long as no status write was lost.
LEMMA ReplacedSound ==
  ASSUME IInv, pc = "replace", NEW b \in DOMAIN mirror, NEW failing
  PROVE  LET m == Replaced(b, failing) IN
         /\ m.head = mirror[b] /\ m.head \in Commits
         /\ Sound(m)
         /\ lost = 0 =>
              \A c \in Reach[m.head] : \E u \in DOMAIN m.msgs : m.msgs[u] = c
         /\ ~Rebuild(b, failing) =>
              \A u \in DOMAIN box[b].msgs :
                u \in DOMAIN m.msgs /\ m.msgs[u] = box[b].msgs[u]
<1> DEFINE keep == ~Rebuild(b, failing)
           ff   == Incremental(b, failing)
           m    == Replaced(b, failing)
<1>1. PICK base : base = IF keep THEN box[b].msgs ELSE NoMail
  OBVIOUS
<1>2. PICK next : next = IF keep THEN box[b].next ELSE 1
  OBVIOUS
<1>3. PICK from : from = IF ff THEN box[b].head ELSE None
  OBVIOUS
<1>4. PICK to : to = mirror[b]
  OBVIOUS
<1>5. /\ m.head = to
      /\ m.next = next + Len(Log(from, to))
      /\ m.msgs = Appended(base, next, Log(from, to))
  BY <1>1, <1>2, <1>3, <1>4 DEF Replaced, NewCommits
<1>6. to \in Commits
  BY <1>4 DEF IInv, TypeOK, Snapshots
<1>7. from \in Commits \cup {None} /\ Hidden(from) \subseteq Reach[to]
  <2>1. CASE ff
    <3>1. box[b].head \in Commits /\ Reach[box[b].head] \subseteq Reach[mirror[b]]
      BY <2>1, IncrementalIsAhead
    <3>2. QED
      BY <1>3, <1>4, <2>1, <3>1, NamesAssumption DEF Hidden
  <2>2. CASE ~ff
    BY <1>3, <2>2 DEF Hidden
  <2>3. QED
    BY <2>1, <2>2
\* Kept messages are the whole history of the old head, in order; an emptied
\* mailbox starts at 1.
<1>8. /\ next \in Nat \ {0}
      /\ DOMAIN base = 1 .. (next - 1)
      /\ \A u \in DOMAIN base : base[u] \in Hidden(from)
      /\ \A u, v \in DOMAIN base : base[u] \in Reach[base[v]] => u <= v
      /\ \A u, v \in DOMAIN base : base[u] = base[v] => u = v
  <2>1. CASE keep
    <3>1. b \in DOMAIN box /\ ff
      BY <2>1 DEF Rebuild
    <3>2. from = box[b].head /\ from # None
      BY <1>3, <3>1, NamesAssumption DEF IInv, TypeOK
    <3>3. next = box[b].next /\ base = box[b].msgs
      BY <1>1, <1>2, <2>1
    <3>4. box[b].next \in Nat \ {0}
      BY <3>1 DEF IInv, TypeOK
    <3>5. QED
      BY <3>1, <3>2, <3>3, <3>4 DEF Hidden, IInv, UidsSound, Within
  <2>2. CASE ~keep
    <3>1. next = 1 /\ base = NoMail
      BY <1>1, <1>2, <2>2
    <3>2. DOMAIN base = {}
      BY <3>1 DEF NoMail
    <3>3. QED
      BY <3>1, <3>2
  <2>3. QED
    BY <2>1, <2>2
<1>9. LET log == Log(from, to)
          new == Appended(base, next, log) IN
      /\ Len(log) \in Nat
      /\ DOMAIN new = 1 .. (next + Len(log) - 1)
      /\ \A u \in DOMAIN base : u \in DOMAIN new /\ new[u] = base[u]
      /\ \A u \in DOMAIN new : new[u] \in Reach[to]
      /\ \A u, v \in DOMAIN new : new[u] \in Reach[new[v]] => u <= v
      /\ \A u, v \in DOMAIN new : new[u] = new[v] => u = v
      /\ \A c \in Reach[to] \ Hidden(from) : \E u \in DOMAIN new : new[u] = c
  BY ONLY <1>6, <1>7, <1>8, Appending, Zenon
<1> HIDE DEF m
<1>10. m.head = mirror[b] /\ m.head \in Commits
  BY <1>4, <1>5, <1>6
<1>11. Sound(m)
  BY <1>5, <1>8, <1>9 DEF Sound
<1>12. ASSUME lost = 0, NEW c \in Reach[m.head]
       PROVE  \E u \in DOMAIN m.msgs : m.msgs[u] = c
  <2>1. CASE c \in Hidden(from)
    <3>1. ff /\ from = box[b].head /\ c \in Reach[box[b].head]
      BY <1>3, <2>1 DEF Hidden
    <3>2. keep
      BY <1>12, <3>1, IncrementalKeepsName, IncrementalIsAhead
    <3>3. PICK u \in DOMAIN box[b].msgs : box[b].msgs[u] = c
      BY <1>12, <3>1, IncrementalIsAhead DEF IInv, Covered
    <3>4. QED
      BY <1>1, <1>5, <1>9, <3>2, <3>3
  <2>2. CASE c \notin Hidden(from)
    BY <1>5, <1>9, <2>2
  <2>3. QED
    BY <2>1, <2>2
<1>13. ASSUME keep, NEW u \in DOMAIN box[b].msgs
       PROVE  u \in DOMAIN m.msgs /\ m.msgs[u] = box[b].msgs[u]
  BY <1>1, <1>5, <1>9, <1>13
<1>14. QED
  BY <1>10, <1>11, <1>12, <1>13 DEF m

-----------------------------------------------------------------------------
(* The invariant is inductive.                                             *)

\* There are no mailboxes at first.
LEMMA InitInv == Init => IInv
<1> SUFFICES ASSUME Init PROVE IInv
  OBVIOUS
<1>1. DOMAIN box = {} /\ DOMAIN mirror = {}
  BY DEF Init
<1>2. mirror \in Snapshots
  <2>1. mirror \in [{} -> Commits]
    BY DEF Init
  <2>2. QED
    BY <2>1 DEF Snapshots
<1>3. QED
  BY <1>1, <1>2, BoundsAssumption
  DEF Init, IInv, TypeOK, UidsSound, Within, NamesAgree, LoadedCurrent, Covered

\* Replace is the only step that writes the mailboxes.
LEMMA ReplaceInv == ASSUME IInv, Replace PROVE IInv'
<1>1. PICK failing : box' = [b \in DOMAIN mirror |-> Replaced(b, failing)]
  BY DEF Replace
<1>2. pc = "replace" /\ pc' = "publish"
      /\ UNCHANGED <<mirror, defaultBranch, loaded, found, now, refreshes, lost>>
  BY DEF Replace
<1>3. DOMAIN box' = DOMAIN mirror /\ DOMAIN mirror \subseteq Branches
  BY <1>1 DEF IInv, TypeOK, Snapshots
<1>4. ASSUME NEW b \in DOMAIN box'
      PROVE  /\ box'[b] = Replaced(b, failing)
             /\ box'[b].head \in Commits
             /\ Sound(box'[b])
             /\ lost = 0 => \A c \in Reach[box'[b].head] :
                              \E u \in DOMAIN box'[b].msgs : box'[b].msgs[u] = c
  <2>1. b \in DOMAIN mirror /\ box'[b] = Replaced(b, failing)
    BY <1>1, <1>3
  <2>2. QED
    BY <1>2, <2>1, ReplacedSound
<1>5. ASSUME NEW b \in DOMAIN box'
      PROVE  /\ DOMAIN box'[b] = {"inbox", "validity", "next", "head", "msgs"}
             /\ box'[b].inbox = (b = found)
             /\ box'[b].validity \in Nat
  <2>1. Validity(b, failing) \in Nat
    BY DEF Validity, IInv, TypeOK
  <2>2. QED
    BY <1>4, <2>1 DEF Replaced
<1>6. TypeOK'
  BY <1>2, <1>3, <1>4, <1>5 DEF IInv, TypeOK, Sound
<1>7. UidsSound' /\ Within' /\ Covered'
  BY <1>2, <1>4 DEF UidsSound, Within, Covered, Sound
<1>8. NamesAgree' /\ LoadedCurrent'
  BY <1>2, <1>5, NamesAssumption DEF IInv, NamesAgree, LoadedCurrent, Chosen
<1>9. QED
  BY <1>6, <1>7, <1>8 DEF IInv

\* The invariant is inductive: only Replace touches the mailboxes.
LEMMA InductiveStep == IInv /\ [Next]_vars => IInv'
<1> SUFFICES ASSUME IInv, [Next]_vars PROVE IInv'
  OBVIOUS
<1> USE BoundsAssumption, NamesAssumption
    DEF IInv, TypeOK, UidsSound, Within, NamesAgree, LoadedCurrent, Covered,
        Chosen
<1>1. CASE Tick
  BY <1>1 DEF Tick
<1>2. CASE Begin
  BY <1>2 DEF Begin
<1>3. CASE Fetch
  BY <1>3 DEF Fetch
<1>4. CASE FetchFails
  BY <1>4 DEF FetchFails
<1>5. CASE DiscoverDefault
  BY <1>5 DEF DiscoverDefault
<1>6. CASE Replace
  BY <1>6, ReplaceInv
<1>7. CASE RefreshFails
  BY <1>7 DEF RefreshFails
<1>8. CASE WriteStatus
  BY <1>8 DEF WriteStatus
<1>9. CASE LoseStatus
  BY <1>9 DEF LoseStatus
<1>10. CASE UNCHANGED vars
  BY <1>10 DEF vars
<1>11. QED
  BY <1>1, <1>2, <1>3, <1>4, <1>5, <1>6, <1>7, <1>8, <1>9, <1>10 DEF Next

\* The invariant holds in every reachable state.
THEOREM Invariance == Spec => []IInv
<1>1. Init => IInv
  BY InitInv
<1>2. QED
  BY <1>1, InductiveStep, PTL DEF Spec

-----------------------------------------------------------------------------
(* The theorems.                                                           *)

\* Types, for any commit graph, set of branches and bounds.
THEOREM TypeCorrect == Spec => []TypeOK
<1>1. IInv => TypeOK
  BY DEF IInv
<1>2. QED
  BY <1>1, Invariance, PTL

\* In every mailbox, uids count 1, 2, ... up to UIDNEXT, each commit has one,
\* and ancestors come first, whatever is pushed and whatever fails.
THEOREM UidsAreSound == Spec => []UidsSound
<1>1. IInv => UidsSound
  BY DEF IInv
<1>2. QED
  BY <1>1, Invariance, PTL

\* As long as no status write is lost, every mailbox holds exactly the history
\* of its head.
THEOREM MailboxesAreComplete == Spec => []Complete
<1>1. IInv => Complete
  <2> SUFFICES ASSUME IInv, lost = 0, NEW b \in DOMAIN box
               PROVE {box[b].msgs[u] : u \in DOMAIN box[b].msgs} = Reach[box[b].head]
    BY DEF Complete
  <2>1. \A u \in DOMAIN box[b].msgs : box[b].msgs[u] \in Reach[box[b].head]
    BY DEF IInv, Within
  <2>2. \A c \in Reach[box[b].head] : \E u \in DOMAIN box[b].msgs : box[b].msgs[u] = c
    BY DEF IInv, Covered
  <2>3. QED
    BY <2>1, <2>2
<1>2. QED
  BY <1>1, Invariance, PTL

\* While a row keeps its UIDVALIDITY, no message of it changes its uid or goes
\* away, with lost status writes too.
THEOREM UidsNeverMove == Spec => UidsStable
<1>1. IInv /\ [Next]_vars => [KeepsUids]_vars
  <2> SUFFICES ASSUME IInv, Next PROVE KeepsUids
    OBVIOUS
  <2>1. CASE Replace
    <3>1. PICK failing : box' = [b \in DOMAIN mirror |-> Replaced(b, failing)]
      BY <2>1 DEF Replace
    <3>2. pc = "replace"
      BY <2>1 DEF Replace
    <3>3. ASSUME NEW b \in DOMAIN box \cap DOMAIN box',
                 box'[b].validity = box[b].validity
          PROVE  \A u \in DOMAIN box[b].msgs :
                   u \in DOMAIN box'[b].msgs /\ box'[b].msgs[u] = box[b].msgs[u]
      <4>1. b \in DOMAIN mirror /\ box'[b] = Replaced(b, failing)
        BY <3>1
      <4>2. box'[b].validity = Validity(b, failing) /\ box[b].validity \in Nat
        BY <4>1 DEF Replaced, IInv, TypeOK
      <4>3. ~Rebuild(b, failing)
        BY <3>3, <4>2 DEF Validity
      <4>4. QED
        BY <3>2, <4>1, <4>3, ReplacedSound
    <3>4. QED
      BY <3>3 DEF KeepsUids
  <2>2. CASE UNCHANGED box
    BY <2>2 DEF KeepsUids
  <2>3. QED
    BY <2>1, <2>2 DEF Next, Tick, Begin, Fetch, FetchFails, DiscoverDefault,
                      RefreshFails, WriteStatus, LoseStatus
<1>2. QED
  BY <1>1, Invariance, PTL DEF Spec, UidsStable

-----------------------------------------------------------------------------
(* Every branch is a mailbox of UidMailbox.                                 *)

\* What a branch holds is a sequence, without the same commit twice.
Held == \A b \in DOMAIN box : box[b].msgs \in Mails

\* The mailbox as its clients see it.
Seen(b) == IF b \in DOMAIN box
             THEN [validity |-> box[b].validity, msgs |-> box[b].msgs] ELSE None

-----------------------------------------------------------------------------
\* What Replace writes is a sequence of distinct commits.
LEMMA ReplaceHolds == ASSUME IInv, Replace PROVE Held'
<1>1. PICK failing : box' = [b \in DOMAIN mirror |-> Replaced(b, failing)]
  BY DEF Replace
<1>2. IInv'
  BY ReplaceInv
<1> SUFFICES ASSUME NEW b \in DOMAIN box' PROVE box'[b].msgs \in Mails
  BY DEF Held
<1> DEFINE m == box'[b].msgs
           n == box'[b].next - 1
<1>3. DOMAIN m = 1 .. n /\ n \in Nat
  BY <1>2 DEF IInv, UidsSound, TypeOK
<1>4. \A u \in 1 .. n : m[u] \in Commits
  <2>1. box'[b].head \in Commits
    BY <1>2 DEF IInv, TypeOK
  <2>2. Reach[box'[b].head] \subseteq Commits
    BY <2>1, ReachAssumption
  <2>3. QED
    BY <1>2, <1>3, <2>2 DEF IInv, Within
<1>5. m = [u \in DOMAIN m |-> m[u]]
  <2>1. b \in DOMAIN mirror /\ box'[b] = Replaced(b, failing)
    BY <1>1
  <2>2. QED
    BY <2>1 DEF Replaced, Appended
<1>6. m \in [1 .. n -> Commits]
  BY <1>3, <1>4, <1>5
<1>7. m \in Seq(Commits) /\ Len(m) = n
  BY <1>3, <1>6
<1>8. \A u, v \in 1 .. n : m[u] = m[v] => u = v
  BY <1>2, <1>3 DEF IInv, UidsSound
<1>9. QED
  BY <1>7, <1>8 DEF Mails

\* The rows of mailboxes hold such sequences in every reachable state.
LEMMA HeldStep == IInv /\ Held /\ [Next]_vars => IInv' /\ Held'
<1> SUFFICES ASSUME IInv, Held, [Next]_vars PROVE Held'
  BY InductiveStep
<1>1. CASE Replace
  BY <1>1, ReplaceHolds
<1>2. CASE UNCHANGED box
  BY <1>2 DEF Held
<1>3. QED
  BY <1>1, <1>2 DEF Next, Tick, Begin, Fetch, FetchFails, DiscoverDefault,
                    RefreshFails, WriteStatus, LoseStatus, vars

-----------------------------------------------------------------------------
\* One refresh, seen from one branch: the row appears, goes away, is rebuilt
\* under the next UIDVALIDITY, or grows.
LEMMA ReplaceIsStep ==
  ASSUME IInv, Held, Replace, NEW b \in Branches PROVE Mailbox(b)!Step
<1>1. PICK failing : box' = [c \in DOMAIN mirror |-> Replaced(c, failing)]
  BY DEF Replace
<1>2. IInv' /\ Held' /\ pc = "replace"
  BY HeldStep DEF Replace, Next
<1>3. ASSUME b \in DOMAIN box
      PROVE  /\ Seen(b) \in [validity : Nat, msgs : Mails] /\ Seen(b) # None
             /\ Seen(b).validity = box[b].validity /\ Seen(b).msgs = box[b].msgs
  BY <1>3, NoneAssumption DEF Seen, Held, IInv, TypeOK
<1>4. ASSUME b \in DOMAIN box'
      PROVE  /\ Seen(b)' \in [validity : Nat, msgs : Mails] /\ Seen(b)' # None
             /\ Seen(b)' = [validity |-> Validity(b, failing), msgs |-> box'[b].msgs]
             /\ b \in DOMAIN mirror /\ box'[b] = Replaced(b, failing)
  <2>1. b \in DOMAIN mirror /\ box'[b] = Replaced(b, failing)
    BY <1>1, <1>4
  <2>2. box'[b].validity = Validity(b, failing)
    BY <2>1 DEF Replaced
  <2>3. box'[b].validity \in Nat /\ box'[b].msgs \in Mails
    BY <1>2, <1>4 DEF Held, IInv, TypeOK
  <2>4. QED
    BY <1>4, <2>1, <2>2, <2>3, NoneAssumption DEF Seen
<1>5. CASE b \notin DOMAIN box'
  <2>1. Seen(b)' = None
    BY <1>5 DEF Seen
  <2>2. QED
    BY <1>3, <2>1 DEF Seen, Mailbox!Step, Mailbox!Next, Mailbox!Drop
<1>6. CASE b \in DOMAIN box' /\ b \notin DOMAIN box
  <2>1. Seen(b) = None
    BY <1>6 DEF Seen
  <2>2. QED
    BY <1>4, <1>6, <2>1 DEF Seen, Mailbox!Step, Mailbox!Next, Mailbox!Create, Mailbox!Boxes
<1>7. CASE b \in DOMAIN box' /\ b \in DOMAIN box /\ Rebuild(b, failing)
  <2>1. Seen(b)' \in [validity : {Seen(b).validity + 1}, msgs : Mails]
    BY <1>3, <1>4, <1>7 DEF Validity
  <2>2. QED
    BY <1>3, <1>7, <2>1 DEF Seen, Mailbox!Step, Mailbox!Next, Mailbox!Rebuild, Mailbox!Boxes
<1>8. CASE b \in DOMAIN box' /\ b \in DOMAIN box /\ ~Rebuild(b, failing)
  <2>1. Seen(b)' \in [validity : {Seen(b).validity}, msgs : Mails]
    BY <1>3, <1>4, <1>8 DEF Validity
  <2>2. \A u \in DOMAIN box[b].msgs :
          u \in DOMAIN box'[b].msgs /\ box'[b].msgs[u] = box[b].msgs[u]
    BY <1>2, <1>4, <1>8, ReplacedSound
  <2>3. Mailbox(b)!Continues(box[b].msgs, box'[b].msgs)
    <3>1. box[b].msgs \in Seq(Commits) /\ box'[b].msgs \in Seq(Commits)
      BY <1>2, <1>8 DEF Held, Mails
    <3>2. QED
      BY <2>2, <3>1 DEF Mailbox!Continues
  <2>4. QED
    BY <1>3, <1>4, <1>8, <2>1, <2>3 DEF Seen, Mailbox!Step, Mailbox!Next, Mailbox!Extend, Mailbox!Boxes
<1>9. QED
  BY <1>5, <1>6, <1>7, <1>8

\* Every branch is a mailbox as UidMailbox specifies one: uids never move under
\* a UIDVALIDITY, a rebuild takes the next one, over any pushes, forced or
\* not, changes of the default branch, failures and lost status writes.
THEOREM MailboxContract == Spec => BranchesAreMailboxes
<1>1. Init => IInv /\ Held
  BY InitInv DEF Init, Held
<1>2. Init => \A b \in Branches : Mailbox(b)!Init
  BY DEF Init, Mailbox!Init
<1>3. IInv /\ Held /\ [Next]_vars => [\A b \in Branches : Mailbox(b)!Step]_vars
  <2> SUFFICES ASSUME IInv, Held, Next, NEW b \in Branches PROVE Mailbox(b)!Step
    OBVIOUS
  <2>1. CASE Replace
    BY <2>1, ReplaceIsStep
  <2>2. CASE UNCHANGED box
    BY <2>2 DEF Mailbox!Step
  <2>3. QED
    BY <2>1, <2>2 DEF Next, Tick, Begin, Fetch, FetchFails, DiscoverDefault,
                      RefreshFails, WriteStatus, LoseStatus
<1>4. QED
  BY <1>1, <1>2, <1>3, HeldStep, PTL DEF Spec, BranchesAreMailboxes
=============================================================================
