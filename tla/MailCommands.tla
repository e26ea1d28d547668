----------------------------- MODULE MailCommands ----------------------------
(***************************************************************************)
(* FETCH and SEARCH of internal/imapserver/server.go over the sessions of  *)
(* ImapSession: sets of sequence numbers and uids, search criteria, and    *)
(* what a client may do with the numbers it was given, commands and polls  *)
(* later.                                                                  *)
(*                                                                         *)
(* Both commands copy the session's view and read nothing else of it, so   *)
(* each is one step.  A uid is the position of a message, as in            *)
(* ImapSession.  An email is the fields of its header, the words of its    *)
(* body, and the words in what is sent of both.                            *)
(***************************************************************************)
EXTENDS ImapSession, FiniteSets, SequencesExt

CONSTANTS
  NumSets,   \* sets of numbers a client names, sequences of ranges
  Criteria,  \* criteria a client searches for, and those nested in them
  Depth,     \* of the nesting of each criterion
  Day, Size, \* of a commit's email: the day it was authored, its length
  Header,    \* what the fields of its header contain, as a client shows them
  Body,      \* the words its body contains
  Raw,       \* the words its email contains as buildMessage writes it
  Plain      \* commits whose subject and author are printable ASCII

\* The words of an email.  A field has its key and "", the empty word.
Text(oid) == Body[oid] \cup {f.key : f \in Header[oid]} \cup {f.value : f \in Header[oid]}

\* buildMessage writes the body as it is, and the header as it is unless
\* mime.QEncoding has something to encode in the subject or the author's name.
ASSUME EmailAssumption ==
  /\ Day \in [Commits -> Nat \ {0}] /\ Size \in [Commits -> Nat \ {0}]
  /\ \A oid \in Commits : Body[oid] \subseteq Raw[oid]
  /\ \A oid \in Plain : Raw[oid] = Text(oid)

Ranges == [start : Nat, stop : Nat]

ASSUME NumSetsAssumption == NumSets \subseteq Seq(Ranges)

\* The fields of imap.SearchCriteria, which nest finitely.  No flag a client can
\* write is the empty string.
ASSUME CriteriaAssumption ==
  /\ Depth \in [Criteria -> Nat]
  /\ \A c \in Criteria :
       /\ c.seqNum \in Seq(Seq(Ranges)) /\ c.uid \in Seq(Seq(Ranges))
       /\ c.larger \in Nat /\ c.smaller \in Nat
       /\ {c.since, c.before, c.sentSince, c.sentBefore} \subseteq Nat
       /\ "" \notin c.flag \cup c.notFlag
       /\ c.not \in Seq(Criteria) /\ c.or \in Seq(Criteria \X Criteria)
       /\ \A k \in DOMAIN c.not : Depth[c.not[k]] < Depth[c]
       /\ \A k \in DOMAIN c.or : Depth[c.or[k][1]] < Depth[c] /\ Depth[c.or[k][2]] < Depth[c]

VARIABLES
  command,  \* the FETCH or SEARCH a session is being answered, or None
  found     \* numbers of the last SEARCH since the SELECT, and what they were

mailVars == <<vars, command, found>>

MailInit ==
  /\ Init
  /\ command = [s \in Sessions |-> None]
  /\ found = [s \in Sessions |-> None]

-----------------------------------------------------------------------------
(* Wrong versions of definitions below, none of them the code's: each is a  *)
(* slip that breaks one of the properties at the end of this module.        *)

\* Take a range as it is written.
NumSetContainsOrdered(ranges, value, max) ==
  \E i \in DOMAIN ranges :
    LET end(n) == IF n = 0 THEN max ELSE n IN
    end(ranges[i].start) <= value /\ value <= end(ranges[i].stop)

\* Number the messages of a FETCH from zero.
FetchNumber(i) == i - 1

\* Take a criterion that could not be decided for one that does not hold.
FlipAny(verdict) == IF verdict = "yes" THEN "no" ELSE "yes"

-----------------------------------------------------------------------------
(* Sets of numbers                                                         *)

\* seqSetContains and uidSetContains.  A number of 0 is "*", the largest.
NumSetContains(ranges, value, max) ==
  \E i \in DOMAIN ranges :
    LET end(n) == IF n = 0 THEN max ELSE n
        a == end(ranges[i].start)
        b == end(ranges[i].stop)
    IN  IF a > b THEN b <= value /\ value <= a ELSE a <= value /\ value <= b

\* for i, message := range messages { seq := uint32(i + 1)
Number(i) == i

-----------------------------------------------------------------------------
(* matches.  A verdict is "yes", "no", or "error" where the email cannot   *)
(* be rendered; "broken" are the commits for which it cannot.              *)

NeedsRaw(c) ==
  c.header # {} \/ c.body # {} \/ c.text # {} \/ c.larger # 0 \/ c.smaller # 0

\* dateMatches, where 0 is the zero time.
DateMatches(day, since, before) ==
  (since = 0 \/ ~(day < since)) /\ (before = 0 \/ day < before)

MatchesRow(c, i, oid, max) ==
  /\ \A k \in DOMAIN c.seqNum : NumSetContains(c.seqNum[k], i, max)
  /\ \A k \in DOMAIN c.uid : NumSetContains(c.uid[k], i, max)
  /\ DateMatches(Day[oid], c.since, c.before)
  /\ DateMatches(Day[oid], c.sentSince, c.sentBefore)
  /\ c.flag \subseteq {""} /\ "" \notin c.notFlag

MatchesRaw(c, oid) ==
  /\ c.larger # 0 => Size[oid] > c.larger
  /\ c.smaller # 0 => Size[oid] < c.smaller
  /\ \A f \in c.header : f.key \in Raw[oid] /\ (f.value = "" \/ f.value \in Raw[oid])
  /\ c.body \cup c.text \subseteq Raw[oid]

Flip(verdict) == IF verdict = "yes" THEN "no" ELSE IF verdict = "no" THEN "yes" ELSE verdict

Either(left, right) ==
  IF "error" \in {left, right} THEN "error" ELSE IF "yes" \in {left, right} THEN "yes" ELSE "no"

\* The first of the criteria that is not met decides.
Decide(verdicts) ==
  LET k == SelectInSeq(verdicts, LAMBDA v : v # "yes") IN
  IF k = 0 THEN "yes" ELSE verdicts[k]

\* What is found for a criterion, given the verdicts on those nested in it.
Judge(verdict, c, i, oid, max, broken) ==
  LET nots == Decide([k \in DOMAIN c.not |-> Flip(verdict[c.not[k]])])
      ors  == Decide([k \in DOMAIN c.or |-> Either(verdict[c.or[k][1]], verdict[c.or[k][2]])])
  IN  IF ~MatchesRow(c, i, oid, max) THEN "no"
      ELSE IF NeedsRaw(c) /\ oid \in broken THEN "error"
      ELSE IF ~MatchesRaw(c, oid) THEN "no"
      ELSE IF nots # "yes" THEN nots ELSE ors

\* The verdict of each criterion on the message with number i.
Matches(i, oid, max, broken) ==
  LET verdict[c \in Criteria] == Judge(verdict, c, i, oid, max, broken) IN verdict

-----------------------------------------------------------------------------
(* The commands                                                            *)

Ready(s) == pc[s] = "idle" /\ command[s] = None /\ view[s] # None

NothingFound == [ok |-> TRUE, all |-> {}, count |-> 0, min |-> 0, max |-> 0]

Failed == [ok |-> FALSE, all |-> {}, count |-> 0, min |-> 0, max |-> 0]

\* The body of Search's loop, for a message that matches.
Add(data, number) ==
  [ok    |-> TRUE,
   all   |-> data.all \cup {number},
   count |-> data.count + 1,
   min   |-> IF data.min = 0 \/ number < data.min THEN number ELSE data.min,
   max   |-> IF number > data.max THEN number ELSE data.max]

\* For any; an error ends the loop, and nothing is returned with it.
Weigh(data, verdict, number) ==
  IF ~data.ok \/ verdict = "no" THEN data
  ELSE IF verdict = "error" THEN Failed
  ELSE Add(data, number)

\* What Search's loop has found after n messages.
Found(c, msgs, broken) ==
  LET after[n \in 0 .. Len(msgs)] ==
        IF n = 0 THEN NothingFound
        ELSE Weigh(after[n - 1], Matches(n, msgs[n], Len(msgs), broken)[c], n)
  IN  after

Search(s) ==
  /\ Ready(s)
  /\ \E c \in Criteria, broken \in SUBSET Range(view[s].msgs) :
       LET msgs == view[s].msgs
           data == Found(c, msgs, broken)[Len(msgs)]
       IN  /\ command' = [command EXCEPT ![s] =
                [name |-> "SEARCH", criteria |-> c, broken |-> broken, data |-> data]]
           /\ found' = IF data.ok
                        THEN [found EXCEPT ![s] = [numbers |-> data.all,
                                                   oids |-> {msgs[i] : i \in data.all}]]
                        ELSE found
  /\ UNCHANGED vars

\* The numbers found, as a client names them again.
Named(numbers) ==
  SetToSeq({[start |-> n, stop |-> n] : n \in numbers})

\* The body of Fetch's loop; an email that is needed and cannot be rendered
\* ends it.
Send(response, ranges, i, msgs, broken) ==
  IF ~response.ok \/ ~NumSetContains(ranges, Number(i), Len(msgs)) THEN response
  ELSE IF msgs[i] \in broken THEN [response EXCEPT !.ok = FALSE]
  ELSE [response EXCEPT !.sent = Append(@, i)]

NothingSent == [ok |-> TRUE, sent |-> <<>>]

\* What Fetch's loop has sent after n messages.
Sent(ranges, msgs, broken) ==
  LET after[n \in 0 .. Len(msgs)] ==
        IF n = 0 THEN NothingSent
        ELSE Send(after[n - 1], ranges, n, msgs, broken)
  IN  after

Fetch(s) ==
  /\ Ready(s)
  /\ \E ranges \in NumSets \cup (IF found[s] = None THEN {} ELSE {Named(found[s].numbers)}),
        broken \in SUBSET Range(view[s].msgs) :
       LET response == Sent(ranges, view[s].msgs, broken)[Len(view[s].msgs)] IN
       command' = [command EXCEPT ![s] =
         [name |-> "FETCH", ranges |-> ranges, ok |-> response.ok, sent |-> response.sent]]
  /\ UNCHANGED <<vars, found>>

Answered(s) ==
  /\ command[s] # None
  /\ command' = [command EXCEPT ![s] = None]
  /\ UNCHANGED <<vars, found>>

\* Everything else, between FETCH and SEARCH.
Otherwise(A) ==
  /\ \A s \in Sessions : command[s] = None
  /\ A
  /\ found' = [s \in Sessions |->
                 IF view'[s] = None \/ s \in torn \cup reused THEN None ELSE found[s]]
  /\ UNCHANGED command

MailNext ==
  \/ Otherwise(Next)
  \/ \E s \in Sessions : Search(s) \/ Fetch(s) \/ Answered(s)

MailSpec ==
  /\ MailInit /\ [][MailNext]_mailVars
  /\ \A s \in Sessions : /\ WF_mailVars(Otherwise(SessionStep(s)))
                         /\ WF_mailVars(Answered(s))

-----------------------------------------------------------------------------
(* Properties                                                              *)

\* What RFC 3501 means by a set of numbers in a mailbox of max messages.
Denoted(ranges, max) ==
  {n \in 1 .. max :
     \E r \in Range(ranges) :
       LET ends == {IF e = 0 THEN max ELSE e : e \in {r.start, r.stop}} IN
       (\E a \in ends : a <= n) /\ (\E b \in ends : n <= b)}

\* What it means by the criteria that need the email: HEADER asks for a field
\* with that name that contains the string, BODY looks at the body only.
Has(c, oid) ==
  /\ c.larger # 0 => c.larger < Size[oid]
  /\ c.smaller # 0 => Size[oid] < c.smaller
  /\ c.header \subseteq Header[oid]
  /\ c.body \subseteq Body[oid] /\ c.text \subseteq Text(oid)

\* What it means by criteria: the messages each of them selects, intersected.
\* No message has a flag.
Selects(selected, c, msgs) ==
  LET on(day, since, before) == (since # 0 => since <= day) /\ (before # 0 => day < before)
  IN  {i \in DOMAIN msgs :
         /\ \A r \in Range(c.seqNum) \cup Range(c.uid) : i \in Denoted(r, Len(msgs))
         /\ on(Day[msgs[i]], c.since, c.before) /\ on(Day[msgs[i]], c.sentSince, c.sentBefore)
         /\ c.flag = {}
         /\ Has(c, msgs[i])
         /\ \A d \in Range(c.not) : i \notin selected[d]
         /\ \A p \in Range(c.or) : i \in selected[p[1]] \cup selected[p[2]]}

Selected(msgs) ==
  LET selected[c \in Criteria] == Selects(selected, c, msgs) IN selected

\* matches looks for HEADER and BODY anywhere in the email, and sees an encoded
\* header as it is sent.  So of a commit it may find more than the criteria
\* select, or, encoded, less: where it looks for them, only "all" that is
\* selected is found, or "only" what is.
Exact(promise, c, oid) ==
  /\ promise = "all" => oid \in Plain \/ (c.header = {} /\ c.text = {})
  /\ promise = "only" => c.header = {} /\ c.body = {} /\ (oid \in Plain \/ c.text = {})

Opposite(promise) == IF promise = "all" THEN "only" ELSE "all"

\* What is kept of the meaning of each criterion: a NOT turns the one into the
\* other.
Promised(oid) ==
  LET promised[c \in Criteria] ==
        {promise \in {"all", "only"} :
           /\ Exact(promise, c, oid)
           /\ \A d \in Range(c.not) : Opposite(promise) \in promised[d]
           /\ \A p \in Range(c.or) : promise \in promised[p[1]] \cap promised[p[2]]}
  IN  promised

\* The answer to a SEARCH is what its criteria select among the messages.
SearchMeant(cmd, msgs) ==
  cmd.name = "SEARCH" =>
    IF cmd.data.ok
      THEN /\ cmd.data.all \subseteq DOMAIN msgs
           /\ \A i \in DOMAIN msgs :
                LET promised == Promised(msgs[i])[cmd.criteria]
                    selected == i \in Selected(msgs)[cmd.criteria]
                IN  /\ "all" \in promised /\ selected => i \in cmd.data.all
                    /\ "only" \in promised /\ i \in cmd.data.all => selected
           /\ cmd.data.count = Cardinality(cmd.data.all)
           /\ cmd.data.all # {} =>
                /\ {cmd.data.min, cmd.data.max} \subseteq cmd.data.all
                /\ \A n \in cmd.data.all : cmd.data.min <= n /\ n <= cmd.data.max
      ELSE cmd.broken # {}

\* SEARCH answers with the messages that RFC 3501 says the criteria select, as
\* far as its tests of the whole email promise it, with their number and their
\* extremes; or with an error if an email could not be rendered, and never with
\* a part of them, however criteria are nested.
SearchMeans ==
  \A s \in Sessions : command[s] # None => SearchMeant(command[s], view[s].msgs)

\* The answer to a FETCH is what its numbers name among the messages.
FetchMeant(cmd, msgs) ==
  cmd.name = "FETCH" =>
    LET named == Denoted(cmd.ranges, Len(msgs)) IN
    /\ \A i, j \in DOMAIN cmd.sent : i < j => cmd.sent[i] < cmd.sent[j]
    /\ IF cmd.ok THEN Range(cmd.sent) = named
       ELSE /\ Range(cmd.sent) \subseteq named
            /\ \E n \in named : \A i \in DOMAIN cmd.sent : cmd.sent[i] < n

\* FETCH sends the messages the client named, each once and in order, or the
\* first of them and an error: "*" in any place of a range, ranges written
\* backwards, and numbers past the end included.
FetchMeans ==
  \A s \in Sessions : command[s] # None => FetchMeant(command[s], view[s].msgs)

\* Numbers that a SEARCH returned fetch the same messages for as long as the
\* mailbox stays selected, whatever refreshes and polls come in between.
FoundIsFetched ==
  \A s \in Sessions \ torn :
    LET cmd == command[s] IN
    cmd # None /\ cmd.name = "FETCH" /\ cmd.ok /\ found[s] # None
      /\ cmd.ranges = Named(found[s].numbers)
      => {view[s].msgs[i] : i \in Range(cmd.sent)} = found[s].oids
=============================================================================
