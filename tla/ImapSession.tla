----------------------------- MODULE ImapSession -----------------------------
(***************************************************************************)
(* IMAP sessions of internal/imapserver/server.go that have one mailbox    *)
(* name selected, while refreshes change the mailbox below them.           *)
(*                                                                         *)
(* The mailbox changes as UidMailbox allows, which MailboxSync is shown to *)
(* implement; the name is that of a branch which is not, and does not      *)
(* become, the default one.  A session reads the mailbox in two queries,   *)
(* the row by its name and the messages by the row's id, and each is an    *)
(* action of its own.                                                      *)
(***************************************************************************)
EXTENDS Naturals, Sequences

CONSTANTS
  Sessions,    \* IMAP connections, logged in
  Commits,     \* object ids
  None,        \* no mailbox, no selection
  MaxMails,    \* bound: messages in the mailbox
  MaxClock,    \* bound: seconds of the clock a new row may be made in
  MaxChanges   \* bound: commits of ReplaceMailboxes that change the mailbox

ASSUME BoundsAssumption == MaxMails \in Nat /\ MaxChanges \in Nat /\ MaxClock \in Nat

\* Messages by uid: the uid is the position.
Mails ==
  {m \in UNION {[1 .. n -> Commits] : n \in 0 .. MaxMails} :
     \A u, v \in DOMAIN m : m[u] = m[v] => u = v}

\* A mailbox as a query returns it, with the messages of the next query.
Rows == [id : Nat, validity : Nat, msgs : Mails]

ASSUME NoneAssumption == None \notin [validity : Nat, msgs : Mails] \cup Rows

VARIABLES
  box,      \* the mailbox with this name and its messages, or None
  id,       \* mailboxes.id of its row; ids are never used again
  had,      \* every <<validity, messages>> the name has had
  changes,  \* how often the mailbox changed
  pc,       \* where each session is
  picked,   \* the row the first query of a command returned
  view,     \* session.selected and session.messages, or None
  exists,   \* the number of messages the client was last told of
  torn,     \* sessions whose view was read around a change of history
  reused    \* sessions that hold a UIDVALIDITY the name has got again since

mailbox == <<box, id, had, changes>>

vars == <<mailbox, pc, picked, view, exists, torn, reused>>

PcStates == {"idle", "selRefresh", "selMailbox", "selMessages",
             "pollRefresh", "pollMailbox", "pollMessages"}

Init ==
  /\ \E m \in Mails : box = [validity |-> 1, msgs |-> m] /\ had = {<<1, m>>}
  /\ id = 1 /\ changes = 0
  /\ pc = [s \in Sessions |-> "idle"]
  /\ picked = [s \in Sessions |-> None]
  /\ view = [s \in Sessions |-> None]
  /\ exists = [s \in Sessions |-> 0]
  /\ torn = {} /\ reused = {}

-----------------------------------------------------------------------------
(* The mailbox: what a refresh, of this session or another, may commit.    *)

Mailbox == INSTANCE UidMailbox WITH Validities <- 1 .. MaxClock

\* The sessions that have selected the mailbox under a UIDVALIDITY.
Holding(validity) ==
  {s \in Sessions : view[s] # None /\ view[s].validity = validity}

Count ==
  /\ changes < MaxChanges
  /\ changes' = changes + 1
  /\ UNCHANGED <<pc, picked, view, exists, torn>>

\* The messages of the name from now on are not those it had before.
NewHistory ==
  /\ reused' = reused \cup Holding(box'.validity)
  /\ had' = had \cup {<<box'.validity, box'.msgs>>}

Extend ==
  /\ Mailbox!Extend
  /\ had' = had \cup {<<box'.validity, box'.msgs>>}
  /\ Count /\ UNCHANGED <<id, reused>>

Rebuild == Mailbox!Rebuild /\ NewHistory /\ Count /\ UNCHANGED id

Drop ==
  /\ Mailbox!Drop
  /\ Count /\ UNCHANGED <<id, had, reused>>

\* The branch is pushed again: a new row, with the clock as its UIDVALIDITY,
\* which an earlier row of the name, made or rebuilt since, may have had.
Recreate ==
  /\ Mailbox!Create
  /\ NewHistory
  /\ id' = id + 1
  /\ Count

\* A slip, not the code's: the messages without their ORDER BY uid.
MessagesNewestFirst(row) ==
  IF box # None /\ row = id
    THEN [u \in DOMAIN box.msgs |-> box.msgs[Len(box.msgs) + 1 - u]] ELSE <<>>

\* SELECT ... FROM mailboxes WHERE repository_id = ? AND name = ?
RowFound == [id |-> id, validity |-> box.validity, msgs |-> box.msgs]

\* SELECT ... FROM messages WHERE mailbox_id = ? ORDER BY uid
MessagesOf(row) == IF box # None /\ row = id THEN box.msgs ELSE <<>>

\* Whether a change of history fell between the two queries of a session.
TornBy(s) ==
  torn' = IF box # None /\ id = picked[s].id /\ box.validity = picked[s].validity
            THEN torn \ {s} ELSE torn \cup {s}

-----------------------------------------------------------------------------
(* Wrong versions of definitions below, none of them the code's: each is a  *)
(* slip that breaks one of the properties at the end of this module.        *)

\* Take over whatever the mailbox has become.
PollAnyMailbox(s) ==
  /\ pc[s] = "pollMailbox" /\ box # None
  /\ picked' = [picked EXCEPT ![s] = RowFound]
  /\ pc' = [pc EXCEPT ![s] = "pollMessages"]
  /\ UNCHANGED <<mailbox, view, exists, torn, reused>>

\* Take the messages and keep the row of the SELECT, and say nothing.
PollQuietly(s) ==
  /\ pc[s] = "pollMessages"
  /\ view' = [view EXCEPT ![s].msgs = MessagesOf(picked[s].id)]
  /\ picked' = [picked EXCEPT ![s] = None]
  /\ pc' = [pc EXCEPT ![s] = "idle"]
  /\ TornBy(s)
  /\ reused' = reused \ {s}
  /\ UNCHANGED <<mailbox, exists>>

\* Report a missing mailbox without leaving the command.
MissingForgotten(s) == FALSE

\* Append the messages of the query to those the session has.
PollAppended(s) ==
  /\ pc[s] = "pollMessages"
  /\ LET msgs == view[s].msgs \o MessagesOf(picked[s].id) IN
     /\ view' = [view EXCEPT ![s] = [picked[s] EXCEPT !.msgs = msgs]]
     /\ exists' = [exists EXCEPT ![s] = Len(msgs)]
  /\ picked' = [picked EXCEPT ![s] = None]
  /\ pc' = [pc EXCEPT ![s] = "idle"]
  /\ TornBy(s)
  /\ reused' = reused \ {s}
  /\ UNCHANGED mailbox

-----------------------------------------------------------------------------
(* SELECT.  The protocol library unselects before it selects.              *)

Step(s, from, to) == pc[s] = from /\ pc' = [pc EXCEPT ![s] = to]

StartSelect(s) ==
  /\ Step(s, "idle", "selRefresh")
  /\ view[s] = None
  /\ UNCHANGED <<mailbox, picked, view, exists, torn, reused>>

\* RefreshRepository returns, with an error or without; SELECT ignores it.
SelectRefreshed(s) ==
  /\ Step(s, "selRefresh", "selMailbox")
  /\ UNCHANGED <<mailbox, picked, view, exists, torn, reused>>

SelectMailbox(s) ==
  /\ Step(s, "selMailbox", "selMessages")
  /\ box # None
  /\ picked' = [picked EXCEPT ![s] = RowFound]
  /\ UNCHANGED <<mailbox, view, exists, torn, reused>>

\* The row is not found, or its query fails: NO [NONEXISTENT] to SELECT, NO to
\* NOOP and IDLE, whose view stays.
NoMailbox(s) ==
  /\ Step(s, "selMailbox", "idle") \/ Step(s, "pollMailbox", "idle")
  /\ UNCHANGED <<mailbox, picked, view, exists, torn, reused>>

\* The second query fails: the command ends with its error, and what the
\* session has stays.
NoMessages(s) ==
  /\ Step(s, "selMessages", "idle") \/ Step(s, "pollMessages", "idle")
  /\ picked' = [picked EXCEPT ![s] = None]
  /\ UNCHANGED <<mailbox, view, exists, torn, reused>>

SelectMessages(s) ==
  /\ Step(s, "selMessages", "idle")
  /\ LET msgs == MessagesOf(picked[s].id) IN
     /\ view' = [view EXCEPT ![s] = [picked[s] EXCEPT !.msgs = msgs]]
     /\ exists' = [exists EXCEPT ![s] = Len(msgs)]
  /\ picked' = [picked EXCEPT ![s] = None]
  /\ TornBy(s)
  /\ reused' = reused \ {s}
  /\ UNCHANGED mailbox

Unselect(s) ==
  /\ pc[s] = "idle" /\ view[s] # None
  /\ view' = [view EXCEPT ![s] = None]
  /\ exists' = [exists EXCEPT ![s] = 0]
  /\ torn' = torn \ {s}
  /\ reused' = reused \ {s}
  /\ UNCHANGED <<mailbox, pc, picked>>

-----------------------------------------------------------------------------
(* refreshSelected, run by Poll after a command and by Idle on its ticker. *)

StartPoll(s) ==
  /\ Step(s, "idle", "pollRefresh")
  /\ UNCHANGED <<mailbox, picked, view, exists, torn, reused>>

\* A refresh that fails leaves the session as it was, and so does one with
\* nothing selected.
PollDone(s) ==
  /\ Step(s, "pollRefresh", "idle")
  /\ UNCHANGED <<mailbox, picked, view, exists, torn, reused>>

PollRefreshed(s) ==
  /\ Step(s, "pollRefresh", "pollMailbox")
  /\ view[s] # None
  /\ UNCHANGED <<mailbox, picked, view, exists, torn, reused>>

PollMailbox(s) ==
  /\ Step(s, "pollMailbox", "pollMessages")
  /\ box # None /\ box.validity = view[s].validity
  /\ picked' = [picked EXCEPT ![s] = RowFound]
  /\ UNCHANGED <<mailbox, view, exists, torn, reused>>

\* "mailbox history changed; reselect mailbox"
PollHistoryChanged(s) ==
  /\ Step(s, "pollMailbox", "idle")
  /\ box # None /\ box.validity # view[s].validity
  /\ UNCHANGED <<mailbox, picked, view, exists, torn, reused>>

\* The view is replaced, and EXISTS sent when the count differs.
PollMessages(s) ==
  /\ Step(s, "pollMessages", "idle")
  /\ LET msgs == MessagesOf(picked[s].id) IN
     /\ view' = [view EXCEPT ![s] = [picked[s] EXCEPT !.msgs = msgs]]
     /\ exists' = IF Len(msgs) # Len(view[s].msgs)
                    THEN [exists EXCEPT ![s] = Len(msgs)] ELSE exists
  /\ picked' = [picked EXCEPT ![s] = None]
  /\ TornBy(s)
  /\ reused' = reused \ {s}
  /\ UNCHANGED mailbox

-----------------------------------------------------------------------------
SessionStep(s) ==
  \/ SelectRefreshed(s) \/ SelectMailbox(s) \/ SelectMessages(s)
  \/ PollDone(s) \/ PollRefreshed(s) \/ PollMailbox(s)
  \/ PollHistoryChanged(s) \/ PollMessages(s)
  \/ NoMailbox(s) \/ NoMessages(s)

Next ==
  \/ Extend \/ Rebuild \/ Drop \/ Recreate
  \/ \E s \in Sessions : \/ StartSelect(s) \/ StartPoll(s) \/ Unselect(s)
                         \/ SessionStep(s)

Spec == Init /\ [][Next]_vars

\* A command that has begun goes on: RefreshRepository returns (see
\* RefreshLifecycle's RefreshReturns) and so do the queries.
LiveSpec == Spec /\ \A s \in Sessions : WF_vars(SessionStep(s))

-----------------------------------------------------------------------------
(* Properties                                                              *)

TypeOK ==
  /\ box = None \/ box \in [validity : Nat, msgs : Mails]
  /\ id \in Nat /\ changes \in 0 .. MaxChanges
  /\ pc \in [Sessions -> PcStates]
  /\ picked \in [Sessions -> Rows \cup {None}]
  /\ view \in [Sessions -> Rows \cup {None}]
  /\ \A s \in Sessions : picked[s] # None <=> pc[s] \in {"selMessages", "pollMessages"}
  /\ exists \in [Sessions -> Nat]
  /\ torn \subseteq Sessions /\ reused \subseteq Sessions

\* Unless a change of history fell between its two queries, what a session shows under a
\* UIDVALIDITY is what the mailbox had under it at some time.
ViewIsReal ==
  \A s \in Sessions \ torn :
    view[s] # None => <<view[s].validity, view[s].msgs>> \in had

\* Between commands the client knows how many messages the session has, so
\* that a sequence number means the same to both.
CountAnnounced ==
  \A s \in Sessions : view[s] # None => exists[s] = Len(view[s].msgs)

\* The server never sends EXPUNGE: within a selection the messages the client
\* has seen keep their sequence numbers and uids, unless the name got the same
\* UIDVALIDITY again or the two queries of the last poll met two histories.
OnlyGrows ==
  \A s \in Sessions \ (torn' \cup reused) :
    view[s] # None /\ view'[s] # None
      => /\ view'[s].validity = view[s].validity
         /\ Mailbox!Continues(view[s].msgs, view'[s].msgs)

SelectionOnlyGrows == [][OnlyGrows]_vars

\* Every command is answered.
CommandsAnswered ==
  \A s \in Sessions : pc[s] # "idle" ~> pc[s] = "idle"

(* What the repository's own words promise and the code does not keep.     *)

\* refreshSelected answers "mailbox history changed; reselect mailbox" when
\* the history changed.  A change between its two queries, or SELECT's, is
\* missed until the next poll: meanwhile the session shows the messages of
\* the new history under the old UIDVALIDITY.
HistoryChangeNoticed ==
  \A s \in Sessions :
    view[s] # None => <<view[s].validity, view[s].msgs>> \in had
=============================================================================
