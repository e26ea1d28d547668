--------------------------- MODULE MCMailCommands ----------------------------
(***************************************************************************)
(* MailCommands for TLC: two emails, one plain and one whose subject is    *)
(* encoded and whose body has the other's subject in it, all ranges over   *)
(* them with "*" and one number past the end, and criteria of each kind,   *)
(* alone, negated, and in pairs.                                           *)
(***************************************************************************)
EXTENDS MailCommands

CONSTANTS c1, c2

MCDay == (c1 :> 2) @@ (c2 :> 1)
MCSize == (c1 :> 1) @@ (c2 :> 3)
MCBody == (c1 :> {"fix"}) @@ (c2 :> {"add"})
MCPlain == {c1}

Subject(word) == {[key |-> "subject:", value |-> ""], [key |-> "subject:", value |-> word]}

MCHeader == (c1 :> Subject("add")) @@ (c2 :> Subject("accents"))
MCRaw == (c1 :> {"subject:", "", "add", "fix"}) @@ (c2 :> {"subject:", "=?utf-8?q?", "add"})

MCNumSets ==
  {<<r>> : r \in [start : 0 .. 3, stop : 0 .. 3]} \cup {<<>>, <<[start |-> 2, stop |-> 2], [start |-> 1, stop |-> 0]>>}

Anything == [seqNum |-> <<>>, uid |-> <<>>, since |-> 0, before |-> 0, sentSince |-> 0,
        sentBefore |-> 0, flag |-> {}, notFlag |-> {}, larger |-> 0, smaller |-> 0,
        header |-> {}, body |-> {}, text |-> {}, not |-> <<>>, or |-> <<>>]

Field(k, v) == [Anything EXCEPT !.header = {[key |-> k, value |-> v]}]

Simple ==
  {Anything, [Anything EXCEPT !.since = 2], [Anything EXCEPT !.before = 2],
   [Anything EXCEPT !.sentBefore = 1], [Anything EXCEPT !.sentSince = 1, !.sentBefore = 2],
   [Anything EXCEPT !.flag = {"Seen"}], [Anything EXCEPT !.notFlag = {"Seen"}],
   [Anything EXCEPT !.larger = 1], [Anything EXCEPT !.smaller = 3],
   [Anything EXCEPT !.body = {"fix"}], [Anything EXCEPT !.body = {"add"}],
   [Anything EXCEPT !.text = {"fix", "add"}], [Anything EXCEPT !.text = {"accents"}],
   Field("subject:", ""), Field("subject:", "add"), Field("bcc:", ""),
   [Anything EXCEPT !.seqNum = <<<<[start |-> 2, stop |-> 0]>>>>],
   [Anything EXCEPT !.uid = <<<<[start |-> 1, stop |-> 1]>>>>, !.text = {"fix"}]}

Not(c) == [Anything EXCEPT !.not = <<c>>]
Or(c, d) == [Anything EXCEPT !.or = <<<<c, d>>>>]

\* Found too often, not always found, decided without the email, and everything.
Few == {Field("subject:", "add"), [Anything EXCEPT !.text = {"accents"}], [Anything EXCEPT !.since = 2], Anything}

Nested ==
  {Not(c) : c \in Simple} \cup UNION {{Or(c, d), Or(c, Not(d)), Not(Or(c, d))} : c, d \in Few}

All == Simple \cup Nested \cup {[Anything EXCEPT !.seqNum = <<n>>] : n \in MCNumSets}

\* A name of its own, since the value of a constant is computed once only.
MCCriteria == All

Flat(c) == c.not = <<>> /\ c.or = <<>>

\* No criterion nests deeper than a pair with a negation, or the negation of a pair.
MCDepth ==
  [c \in MCCriteria |->
     IF Flat(c) THEN 0
     ELSE IF \A d \in Range(c.not) \cup UNION {{p[1], p[2]} : p \in Range(c.or)} : Flat(d)
       THEN 1 ELSE 2]
=============================================================================
