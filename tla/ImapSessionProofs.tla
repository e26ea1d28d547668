--------------------------- MODULE ImapSessionProofs --------------------------
(***************************************************************************)
(* Proofs about ImapSession, for any number of sessions and any bounds.    *)
(***************************************************************************)
EXTENDS ImapSession, TLAPS

-----------------------------------------------------------------------------
(* The inductive invariant, part by part.                                  *)

\* The mailbox is what it has been.
NowHad == box # None => <<box.validity, box.msgs>> \in had

\* SELECT starts from nothing and a poll from a view; the row a poll has
\* picked carries the UIDVALIDITY of that view.
Positions ==
  \A s \in Sessions :
    /\ pc[s] \in {"selRefresh", "selMailbox", "selMessages"} => view[s] = None
    /\ pc[s] \in {"pollMailbox", "pollMessages"} => view[s] # None
    /\ pc[s] = "pollMessages" => picked[s].validity = view[s].validity

\* Whoever holds the UIDVALIDITY of the mailbox, and has not lived through its
\* second coming, has the first messages of the mailbox, a torn view too.
Behind ==
  \A s \in Sessions \ reused :
    view[s] # None /\ box # None /\ box.validity = view[s].validity
      => Mailbox!Continues(view[s].msgs, box.msgs)

IInv == TypeOK /\ NowHad /\ Positions /\ Behind /\ ViewIsReal /\ CountAnnounced

-----------------------------------------------------------------------------
(* Lemmas about the messages of a mailbox.                                 *)

\* They are a sequence.
LEMMA MailsAreSequences == \A m \in Mails : m \in Seq(Commits)
BY DEF Mails

\* No messages are the start of any.
LEMMA NoMails == <<>> \in Mails /\ \A m \in Mails : Mailbox!Continues(<<>>, m)
<1>1. <<>> \in [1 .. 0 -> Commits] /\ 0 \in 0 .. MaxMails
  BY BoundsAssumption
<1>2. <<>> \in Mails
  BY <1>1 DEF Mails
<1>3. QED
  BY <1>2, MailsAreSequences DEF Mailbox!Continues

\* Continuing is reflexive and transitive.
LEMMA ContinuesOrder ==
  ASSUME NEW l \in Mails, NEW m \in Mails, NEW n \in Mails
  PROVE  /\ Mailbox!Continues(m, m)
         /\ Mailbox!Continues(l, m) /\ Mailbox!Continues(m, n) => Mailbox!Continues(l, n)
BY MailsAreSequences DEF Mailbox!Continues

\* What the second query returns.
LEMMA Second ==
  ASSUME TypeOK, NEW row
  PROVE  /\ MessagesOf(row) \in Mails
         /\ box # None => Mailbox!Continues(MessagesOf(row), box.msgs)
BY NoMails, ContinuesOrder DEF MessagesOf, TypeOK

-----------------------------------------------------------------------------
(* The first state.                                                        *)

LEMMA InitInv == Init => IInv
<1> SUFFICES ASSUME Init PROVE IInv
  OBVIOUS
<1>1. PICK m \in Mails : box = [validity |-> 1, msgs |-> m] /\ had = {<<1, m>>}
  BY DEF Init
<1>2. TypeOK
  BY <1>1, BoundsAssumption DEF Init, TypeOK, PcStates
<1>3. QED
  BY <1>1, <1>2 DEF Init, IInv, NowHad, Positions, Behind, ViewIsReal, CountAnnounced

-----------------------------------------------------------------------------
(* The steps of the mailbox.                                               *)

\* What the sessions have is not touched.
LEMMA Elsewhere ==
  ASSUME IInv, Extend \/ Rebuild \/ Drop \/ Recreate
  PROVE  /\ UNCHANGED <<pc, picked, view, exists, torn>>
         /\ had \subseteq had' /\ id' \in Nat /\ changes' \in 0 .. MaxChanges
         /\ box' = None \/ box' \in [validity : Nat, msgs : Mails]
         /\ box' # None => <<box'.validity, box'.msgs>> \in had'
<1> USE BoundsAssumption DEF IInv, TypeOK, Count
<1>1. CASE Extend
  BY <1>1 DEF Extend, Mailbox!Extend, Mailbox!Boxes
<1>2. CASE Rebuild
  BY <1>2 DEF Rebuild, NewHistory, Mailbox!Rebuild, Mailbox!Boxes
<1>3. CASE Drop
  BY <1>3 DEF Drop, Mailbox!Drop
<1>4. CASE Recreate
  BY <1>4 DEF Recreate, NewHistory, Mailbox!Create, Mailbox!Boxes
<1>5. QED
  BY <1>1, <1>2, <1>3, <1>4

LEMMA MailboxStep ==
  ASSUME IInv, Extend \/ Rebuild \/ Drop \/ Recreate PROVE IInv'
<1>1. /\ UNCHANGED <<pc, picked, view, exists, torn>>
      /\ had \subseteq had' /\ id' \in Nat /\ changes' \in 0 .. MaxChanges
      /\ box' = None \/ box' \in [validity : Nat, msgs : Mails]
      /\ box' # None => <<box'.validity, box'.msgs>> \in had'
  BY Elsewhere
<1>2. reused \subseteq reused' /\ reused' \subseteq Sessions
  BY DEF IInv, TypeOK, Extend, Rebuild, Drop, Recreate, NewHistory, Holding
<1>3. TypeOK'
  BY <1>1, <1>2 DEF IInv, TypeOK
<1>4. Behind'
  <2> SUFFICES ASSUME NEW s \in Sessions \ reused', view[s] # None,
                      box' # None, box'.validity = view[s].validity
               PROVE  Mailbox!Continues(view[s].msgs, box'.msgs)
    BY <1>1 DEF Behind, Mailbox!Continues
  <2>1. CASE Extend
    <3>1. /\ box # None /\ box'.validity = box.validity
          /\ Mailbox!Continues(box.msgs, box'.msgs)
      BY <2>1 DEF Extend, Mailbox!Extend, Mailbox!Boxes
    <3>2. Mailbox!Continues(view[s].msgs, box.msgs)
      BY <1>2, <3>1 DEF IInv, Behind
    <3>3. box.msgs \in Mails /\ box'.msgs \in Mails /\ view[s].msgs \in Mails
      BY <1>1, <3>1 DEF IInv, TypeOK, Rows
    <3>4. QED
      BY <3>1, <3>2, <3>3, ContinuesOrder
  <2>2. CASE Rebuild \/ Recreate
    BY <2>2 DEF Rebuild, Recreate, NewHistory, Holding
  <2>3. CASE Drop
    BY <2>3 DEF Drop, Mailbox!Drop
  <2>4. QED
    BY <2>1, <2>2, <2>3
<1>5. QED
  BY <1>1, <1>3, <1>4 DEF IInv, NowHad, Positions, ViewIsReal, CountAnnounced

-----------------------------------------------------------------------------
(* The steps of a session.                                                 *)

\* The second query of a command replaces the view.
LEMMA ReadStep ==
  ASSUME IInv, NEW s \in Sessions, SelectMessages(s) \/ PollMessages(s)
  PROVE  /\ IInv'
         /\ PollMessages(s) /\ s \notin torn' \cup reused =>
              /\ view'[s].validity = view[s].validity
              /\ Mailbox!Continues(view[s].msgs, view'[s].msgs)
<1> DEFINE p == picked[s]
           msgs == MessagesOf(p.id)
<1>1. p \in Rows
  BY DEF IInv, TypeOK, SelectMessages, PollMessages, Step
<1>2. msgs \in Mails /\ (box # None => Mailbox!Continues(msgs, box.msgs))
  BY Second DEF IInv
<1>3. /\ view' = [view EXCEPT ![s] = [p EXCEPT !.msgs = msgs]]
      /\ picked' = [picked EXCEPT ![s] = None]
      /\ pc' = [pc EXCEPT ![s] = "idle"]
      /\ reused' = reused \ {s} /\ TornBy(s) /\ UNCHANGED mailbox
  BY DEF SelectMessages, PollMessages, Step
<1> DEFINE v == [p EXCEPT !.msgs = msgs]
<1>4. /\ v \in Rows /\ v # None
      /\ v.validity = p.validity /\ v.msgs = msgs
  BY <1>1, <1>2, NoneAssumption DEF Rows
<1>5. /\ view'[s] = v /\ picked'[s] = None /\ pc'[s] = "idle"
      /\ \A q \in Sessions \ {s} :
           view'[q] = view[q] /\ picked'[q] = picked[q] /\ pc'[q] = pc[q]
  BY <1>3 DEF IInv, TypeOK
<1>6. s \notin torn' => box # None /\ box.validity = p.validity /\ msgs = box.msgs
  BY <1>3 DEF TornBy, MessagesOf
<1>7. torn' \in SUBSET Sessions /\ torn' \ {s} = torn \ {s}
  BY <1>3 DEF TornBy, IInv, TypeOK
<1> HIDE DEF v, msgs, p
<1>8. exists' \in [Sessions -> Nat] /\ exists'[s] = Len(msgs)
      /\ \A q \in Sessions \ {s} : exists'[q] = exists[q]
  <2>1. Len(msgs) \in Nat
    BY <1>2, MailsAreSequences
  <2>2. CASE SelectMessages(s)
    BY <2>1, <2>2 DEF SelectMessages, IInv, TypeOK, p, msgs
  <2>3. CASE PollMessages(s)
    <3>1. view[s] # None /\ exists[s] = Len(view[s].msgs)
      BY <2>3 DEF PollMessages, Step, IInv, Positions, CountAnnounced
    <3>2. exists' = IF Len(msgs) # Len(view[s].msgs)
                      THEN [exists EXCEPT ![s] = Len(msgs)] ELSE exists
      BY <2>3 DEF PollMessages, p, msgs
    <3>3. QED
      BY <2>1, <3>1, <3>2 DEF IInv, TypeOK
  <2>4. QED
    BY <2>2, <2>3
<1>9. TypeOK'
  <2>1. UNCHANGED <<box, id, changes>>
    BY <1>3 DEF mailbox
  <2>2. /\ view' \in [Sessions -> Rows \cup {None}]
        /\ picked' \in [Sessions -> Rows \cup {None}]
        /\ pc' \in [Sessions -> PcStates]
    BY <1>3, <1>4 DEF IInv, TypeOK, PcStates, v
  <2>3. \A q \in Sessions : picked'[q] # None <=> pc'[q] \in {"selMessages", "pollMessages"}
    BY <1>5 DEF IInv, TypeOK
  <2>4. QED
    BY <1>3, <1>7, <1>8, <2>1, <2>2, <2>3 DEF IInv, TypeOK
<1>10. NowHad' /\ Positions'
  BY <1>3, <1>5 DEF IInv, NowHad, Positions, mailbox
<1>11. Behind'
  BY <1>2, <1>3, <1>4, <1>5 DEF IInv, Behind, mailbox, Mailbox!Continues
<1>12. ViewIsReal'
  BY <1>3, <1>4, <1>5, <1>6, <1>7 DEF IInv, ViewIsReal, NowHad, mailbox
<1>13. CountAnnounced'
  BY <1>4, <1>5, <1>8 DEF IInv, CountAnnounced
<1>14. ASSUME PollMessages(s), s \notin torn' \cup reused
       PROVE  /\ view'[s].validity = view[s].validity
              /\ Mailbox!Continues(view[s].msgs, view'[s].msgs)
  <2>1. view[s] # None /\ p.validity = view[s].validity
    BY <1>14 DEF PollMessages, Step, IInv, Positions, p
  <2>2. QED
    BY <1>4, <1>5, <1>6, <1>14, <2>1 DEF IInv, Behind
<1>15. QED
  BY <1>9, <1>10, <1>11, <1>12, <1>13, <1>14 DEF IInv

\* No other step of a session gives it a view.
LEMMA QuietStep ==
  ASSUME IInv, NEW s \in Sessions,
         \/ StartSelect(s) \/ SelectRefreshed(s) \/ SelectMailbox(s) \/ NoMailbox(s)
         \/ StartPoll(s) \/ PollDone(s) \/ PollRefreshed(s) \/ PollMailbox(s)
         \/ PollHistoryChanged(s) \/ NoMessages(s)
  PROVE  IInv' /\ UNCHANGED view
<1> USE DEF IInv, TypeOK, NowHad, Positions, Behind, ViewIsReal, CountAnnounced, Step, mailbox, PcStates
<1>1. CASE StartSelect(s)
  BY <1>1 DEF StartSelect
<1>2. CASE SelectRefreshed(s)
  BY <1>2 DEF SelectRefreshed
<1>3. CASE NoMailbox(s)
  BY <1>3 DEF NoMailbox
<1>4. CASE StartPoll(s)
  BY <1>4 DEF StartPoll
<1>5. CASE PollDone(s)
  BY <1>5 DEF PollDone
<1>6. CASE PollRefreshed(s)
  BY <1>6 DEF PollRefreshed
<1>7. CASE PollHistoryChanged(s)
  BY <1>7 DEF PollHistoryChanged
<1>8. ASSUME box # None PROVE RowFound \in Rows /\ RowFound # None /\ RowFound.validity = box.validity
  BY <1>8, NoneAssumption DEF RowFound, Rows
<1>9. CASE SelectMailbox(s)
  BY <1>8, <1>9 DEF SelectMailbox
<1>10. CASE PollMailbox(s)
  BY <1>8, <1>10 DEF PollMailbox
<1>11. CASE NoMessages(s)
  BY <1>11 DEF NoMessages
<1>12. QED
  BY <1>1, <1>2, <1>3, <1>4, <1>5, <1>6, <1>7, <1>9, <1>10, <1>11

\* UNSELECT, and the SELECT that the library puts it before.
LEMMA UnselectStep ==
  ASSUME IInv, NEW s \in Sessions, Unselect(s) PROVE IInv' /\ view'[s] = None
BY DEF Unselect, IInv, TypeOK, NowHad, Positions, Behind, ViewIsReal, CountAnnounced, mailbox

-----------------------------------------------------------------------------
\* The invariant is inductive.
LEMMA InductiveStep == IInv /\ [Next]_vars => IInv'
<1> SUFFICES ASSUME IInv, [Next]_vars PROVE IInv'
  OBVIOUS
<1>1. CASE Extend \/ Rebuild \/ Drop \/ Recreate
  BY <1>1, MailboxStep
<1>2. ASSUME NEW s \in Sessions, StartSelect(s) \/ StartPoll(s) \/ SessionStep(s)
      PROVE  IInv'
  BY <1>2, ReadStep, QuietStep DEF SessionStep
<1>3. ASSUME NEW s \in Sessions, Unselect(s) PROVE IInv'
  BY <1>3, UnselectStep
<1>4. CASE UNCHANGED vars
  BY <1>4 DEF vars, mailbox, IInv, TypeOK, NowHad, Positions, Behind, ViewIsReal,
      CountAnnounced
<1>5. QED
  BY <1>1, <1>2, <1>3, <1>4 DEF Next

\* Every step keeps what a client has seen, where it is.
LEMMA OnlyGrowsStep == IInv /\ [Next]_vars => [OnlyGrows]_vars
<1> SUFFICES ASSUME IInv, Next, NEW s \in Sessions \ (torn' \cup reused),
                    view[s] # None, view'[s] # None
             PROVE  /\ view'[s].validity = view[s].validity
                    /\ Mailbox!Continues(view[s].msgs, view'[s].msgs)
  BY DEF OnlyGrows
<1>1. CASE view'[s] = view[s]
  <2>1. view[s].msgs \in Mails
    BY DEF IInv, TypeOK, Rows
  <2>2. QED
    BY <1>1, <2>1, ContinuesOrder
<1>2. CASE Extend \/ Rebuild \/ Drop \/ Recreate
  BY <1>1, <1>2, Elsewhere
<1>3. ASSUME NEW q \in Sessions, StartSelect(q) \/ StartPoll(q) \/ SessionStep(q)
      PROVE  view'[s] = view[s] \/ (q = s /\ PollMessages(s))
  <2>1. CASE SelectMessages(q) \/ PollMessages(q)
    <3>1. q # s => view'[s] = view[s]
      BY <2>1 DEF SelectMessages, PollMessages, IInv, TypeOK
    <3>2. SelectMessages(q) => view[q] = None
      BY DEF SelectMessages, Step, IInv, Positions
    <3>3. QED
      BY <2>1, <3>1, <3>2
  <2>2. QED
    BY <1>3, <2>1, QuietStep DEF SessionStep
<1>4. ASSUME NEW q \in Sessions, Unselect(q) PROVE view'[s] = view[s]
  BY <1>4, UnselectStep DEF Unselect, IInv, TypeOK
<1>5. QED
  BY <1>1, <1>2, <1>3, <1>4, ReadStep DEF Next

\* The invariant holds in every reachable state.
THEOREM Invariance == Spec => []IInv
BY InitInv, InductiveStep, PTL DEF Spec

\* Types, for any number of sessions.
THEOREM TypeCorrect == Spec => []TypeOK
<1>1. IInv => TypeOK
  BY DEF IInv
<1>2. QED
  BY <1>1, Invariance, PTL

\* What a session shows under a UIDVALIDITY, the mailbox had under it at some
\* time, unless a change of history fell between the two queries of the view.
THEOREM ViewsAreReal == Spec => []ViewIsReal
<1>1. IInv => ViewIsReal
  BY DEF IInv
<1>2. QED
  BY <1>1, Invariance, PTL

\* The client has been told how many messages its session has.
THEOREM CountsAnnounced == Spec => []CountAnnounced
<1>1. IInv => CountAnnounced
  BY DEF IInv
<1>2. QED
  BY <1>1, Invariance, PTL

\* Within a selection nothing the client has seen moves or goes away, for any
\* history of refreshes, except over a torn poll or a repeated UIDVALIDITY.
THEOREM NoExpungeNeeded == Spec => SelectionOnlyGrows
BY OnlyGrowsStep, Invariance, PTL DEF Spec, SelectionOnlyGrows
=============================================================================
