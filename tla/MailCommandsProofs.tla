-------------------------- MODULE MailCommandsProofs --------------------------
(***************************************************************************)
(* Proofs about MailCommands: what SEARCH and FETCH answer, for criteria   *)
(* and sets of numbers of any size and nesting, any mailbox and any        *)
(* number of sessions.                                                     *)
(***************************************************************************)
EXTENDS MailCommands, ImapSessionProofs, FiniteSetTheorems

-----------------------------------------------------------------------------
(* Recursion.  The provers cannot instantiate a theorem with an operator   *)
(* for its parameter, so the step of a recursion is a function here, and   *)
(* an induction looks for the least counterexample.                        *)

\* Numbers have a least one.
LEMMA Least == ASSUME NEW T \in SUBSET Nat, T # {} PROVE \E n \in T : \A m \in T : n <= m
<1>1. PICK n \in T : \A m \in T : <<m, n>> \notin OpToRel(<, Nat)
  BY NatLessThanWellFounded, WFMin
<1>2. \A m \in T : ~(m < n)
  BY <1>1 DEF OpToRel
<1>3. QED
  BY <1>2

\* So has a set of whatever has a depth.
LEMMA Shallowest ==
  ASSUME NEW C, NEW D \in [C -> Nat], NEW T \in SUBSET C, T # {}
  PROVE  \E c \in T : \A d \in C : D[d] < D[c] => d \notin T
<1>1. {D[c] : c \in T} \in SUBSET Nat /\ {D[c] : c \in T} # {}
  OBVIOUS
<1>2. PICK n \in {D[c] : c \in T} : \A m \in {D[c] : c \in T} : n <= m
  BY <1>1, Least
<1>3. QED
  BY <1>2

\* Functions that differ do so first somewhere.
FirstAt(c, C, D, g, h) == g[c] # h[c] /\ \A d \in C : D[d] < D[c] => g[d] = h[d]

LEMMA FirstDifference ==
  ASSUME NEW C, NEW D, D \in [C -> Nat], NEW g, NEW h, NEW e \in C, g[e] # h[e]
  PROVE  \E c \in C : D[c] <= D[e] /\ FirstAt(c, C, D, g, h)
<1> DEFINE T == {c \in C : g[c] # h[c]}
<1>1. T \in SUBSET C /\ e \in T
  OBVIOUS
<1>2. PICK c \in T : \A d \in C : D[d] < D[c] => d \notin T
  <2> HIDE DEF T
  <2>1. QED
    BY <1>1, Shallowest
<1>3. D[c] <= D[e]
  BY <1>1, <1>2
<1>4. QED
  BY <1>2, <1>3 DEF FirstAt

\* F, which computes a function on C from itself, looks only at what is less deep.
Recursive(C, D, V, F) ==
  /\ D \in [C -> Nat] /\ V # {} /\ F \in [[C -> V] -> [C -> V]]
  /\ \A g, h \in [C -> V], c \in C :
       (\A d \in C : D[d] < D[c] => g[d] = h[d]) => F[g][c] = F[h][c]

\* Such a recursion defines a function.
LEMMA Recursion ==
  ASSUME NEW C, NEW D, NEW V, NEW F, Recursive(C, D, V, F)
  PROVE  \E f \in [C -> V] : F[f] = f
<1> USE DEF Recursive
<1> DEFINE Below(g, n) == \A c \in C : D[c] < n => F[g][c] = g[c]
<1>1. ASSUME NEW n \in Nat PROVE \E g \in [C -> V] : Below(g, n)
  <2> DEFINE T == {m \in Nat : ~ \E g \in [C -> V] : Below(g, m)}
  <2> SUFFICES ASSUME T # {} PROVE FALSE
    BY <1>1
  <2>1. PICK m \in T : \A k \in T : m <= k
    <3>1. T \in SUBSET Nat
      OBVIOUS
    <3> HIDE DEF Below, T, Recursive
    <3>2. QED
      BY <3>1, Least
  <2>2. m # 0
    <3>1. PICK v \in V : TRUE
      OBVIOUS
    <3>2. [c \in C |-> v] \in [C -> V] /\ Below([c \in C |-> v], 0)
      OBVIOUS
    <3>3. QED
      BY <2>1, <3>2
  <2>3. m \in Nat /\ m - 1 \in Nat /\ m - 1 \notin T
    BY <2>1, <2>2
  <2>4. PICK g \in [C -> V] : Below(g, m - 1)
    BY <2>3
  <2>5. F[g] \in [C -> V]
    OBVIOUS
  <2>6. ASSUME NEW c \in C, D[c] < m PROVE F[F[g]][c] = F[g][c]
    <3>1. \A d \in C : D[d] < D[c] => F[g][d] = g[d]
      BY <2>3, <2>4, <2>6
    <3>2. QED
      BY <2>5, <3>1
  <2>7. QED
    BY <2>1, <2>5, <2>6
<1>2. ASSUME NEW n \in Nat, NEW m \in Nat, n <= m, NEW g \in [C -> V], NEW h \in [C -> V],
             Below(g, n), Below(h, m), NEW e \in C, D[e] < n
      PROVE  g[e] = h[e]
  <2> SUFFICES ASSUME g[e] # h[e] PROVE FALSE
    OBVIOUS
  <2>1. PICK c \in C : D[c] <= D[e] /\ FirstAt(c, C, D, g, h)
    <3> HIDE DEF Recursive, Below
    <3>1. D \in [C -> Nat]
      BY DEF Recursive
    <3>2. QED
      BY <3>1, FirstDifference
  <2>2. F[g][c] = F[h][c]
    BY <2>1 DEF FirstAt
  <2>3. F[g][c] = g[c] /\ F[h][c] = h[c]
    BY <1>2, <2>1
  <2>4. QED
    BY <2>1, <2>2, <2>3 DEF FirstAt
<1> DEFINE upTo == [n \in Nat |-> CHOOSE g \in [C -> V] : Below(g, n)]
           f == [c \in C |-> upTo[D[c] + 1][c]]
<1>3. ASSUME NEW n \in Nat PROVE upTo[n] \in [C -> V] /\ Below(upTo[n], n)
  <2> HIDE DEF Below
  <2>1. QED
    BY <1>1, <1>3
<1> HIDE DEF upTo
<1>4. f \in [C -> V]
  BY <1>3
<1>5. ASSUME NEW c \in C PROVE F[f][c] = f[c]
  <2> DEFINE g == upTo[D[c] + 1]
  <2>1. D[c] + 1 \in Nat /\ g \in [C -> V] /\ Below(g, D[c] + 1)
    BY <1>3
  <2>2. ASSUME NEW d \in C, D[d] < D[c] PROVE f[d] = g[d]
    <3>1. D[d] + 1 \in Nat /\ D[d] + 1 <= D[c] + 1 /\ D[d] < D[d] + 1
      BY <2>2
    <3>2. upTo[D[d] + 1] \in [C -> V] /\ Below(upTo[D[d] + 1], D[d] + 1)
      BY <1>3, <3>1
    <3> HIDE DEF Below
    <3>3. QED
      BY <1>2, <2>1, <3>1, <3>2
  <2>3. F[f][c] = F[g][c]
    BY <1>4, <2>1, <2>2
  <2>4. QED
    BY <2>1, <2>3
<1>6. QED
  BY <1>4, <1>5

\* A loop over the numbers up to n, whose body is G.
Iterates(f, n, first, G) ==
  f = [k \in 0 .. n |-> IF k = 0 THEN first ELSE G[<<f[k - 1], k>>]]

\* It is such a recursion.
LEMMA Loop ==
  ASSUME NEW n, n \in Nat, NEW V, NEW first, first \in V,
         NEW G, G \in [V \X (1 .. n) -> V]
  PROVE  \E f \in [0 .. n -> V] : Iterates(f, n, first, G)
<1> DEFINE C == 0 .. n
           D == [k \in C |-> k]
           F == [g \in [C -> V] |-> [k \in C |-> IF k = 0 THEN first ELSE G[<<g[k - 1], k>>]]]
<1>1. D \in [C -> Nat] /\ V # {}
  OBVIOUS
<1>2. ASSUME NEW g \in [C -> V], NEW k \in C, k # 0
      PROVE  k - 1 \in C /\ D[k - 1] < D[k] /\ <<g[k - 1], k>> \in V \X (1 .. n)
  BY <1>2
<1>3. F \in [[C -> V] -> [C -> V]]
  BY <1>2
<1>4. ASSUME NEW g \in [C -> V], NEW h \in [C -> V], NEW c \in C,
             \A d \in C : D[d] < D[c] => g[d] = h[d]
      PROVE  F[g][c] = F[h][c]
  BY <1>2, <1>4
<1>5. Recursive(C, D, V, F)
  <2> HIDE DEF C, D, F
  <2>1. QED
    BY <1>1, <1>3, <1>4 DEF Recursive
<1>6. \E f \in [C -> V] : F[f] = f
  <2> HIDE DEF C, D, F
  <2>1. QED
    BY <1>5, Recursion
<1>7. QED
  BY <1>6 DEF Iterates

-----------------------------------------------------------------------------
(* Sets of numbers and criteria.                                           *)

\* numSetContains decides what a set of numbers denotes, whichever way its
\* ranges are written.
LEMMA NumSetsDenote ==
  ASSUME NEW ranges \in Seq(Ranges), NEW max \in Nat, NEW i \in 1 .. max
  PROVE  NumSetContains(ranges, i, max) <=> i \in Denoted(ranges, max)
<1> DEFINE end(n) == IF n = 0 THEN max ELSE n
           Spans(r) == /\ end(r.start) <= i \/ end(r.stop) <= i
                       /\ i <= end(r.start) \/ i <= end(r.stop)
<1>1. \A k \in DOMAIN ranges : ranges[k] \in Ranges
  OBVIOUS
<1>2. NumSetContains(ranges, i, max) <=> \E k \in DOMAIN ranges : Spans(ranges[k])
  BY <1>1 DEF NumSetContains, Ranges
<1>3. i \in Denoted(ranges, max) <=> \E r \in Range(ranges) : Spans(r)
  BY DEF Denoted
<1> HIDE DEF Spans, end
<1>4. QED
  BY <1>2, <1>3 DEF Range

Verdicts == {"yes", "no", "error"}

\* Decide finds all verdicts "yes", or returns one that is not.
LEMMA Deciding ==
  ASSUME NEW n \in Nat, NEW verdicts \in [1 .. n -> Verdicts]
  PROVE  \/ (\A k \in 1 .. n : verdicts[k] = "yes") /\ Decide(verdicts) = "yes"
         \/ \E k \in 1 .. n : verdicts[k] # "yes" /\ Decide(verdicts) = verdicts[k]
<1> DEFINE I == {k \in 1 .. Len(verdicts) : verdicts[k] # "yes"}
<1>1. Len(verdicts) = n
  OBVIOUS
<1>2. Decide(verdicts) = LET k == IF I # {} THEN Min(I) ELSE 0 IN
                         IF k = 0 THEN "yes" ELSE verdicts[k]
  BY DEF Decide, SelectInSeq
<1>3. CASE I = {}
  BY <1>1, <1>2, <1>3
<1>4. CASE I # {}
  <2>1. I \in SUBSET Nat
    OBVIOUS
  <2>2. \E k \in I : \A j \in I : k <= j
    <3> HIDE DEF I
    <3>1. QED
      BY <1>4, <2>1, Least
  <2>3. Min(I) \in I
    BY <2>2 DEF Min
  <2>4. Min(I) \in 1 .. n /\ verdicts[Min(I)] # "yes"
    BY <1>1, <2>3
  <2>5. Decide(verdicts) = verdicts[Min(I)]
    <3> HIDE DEF I
    <3>1. QED
      BY <1>2, <1>4, <2>4
  <2>6. QED
    BY <2>4, <2>5
<1>5. QED
  BY <1>3, <1>4

\* What a criterion nests, it nests less deep.
LEMMA Nested ==
  ASSUME NEW c \in Criteria
  PROVE  /\ Len(c.not) \in Nat /\ DOMAIN c.not = 1 .. Len(c.not)
         /\ Len(c.or) \in Nat /\ DOMAIN c.or = 1 .. Len(c.or)
         /\ \A k \in DOMAIN c.not : c.not[k] \in Criteria /\ Depth[c.not[k]] < Depth[c]
         /\ \A k \in DOMAIN c.or :
              /\ c.or[k][1] \in Criteria /\ Depth[c.or[k][1]] < Depth[c]
              /\ c.or[k][2] \in Criteria /\ Depth[c.or[k][2]] < Depth[c]
<1>1. c.not \in Seq(Criteria) /\ c.or \in Seq(Criteria \X Criteria)
  BY CriteriaAssumption
<1>2. /\ Len(c.not) \in Nat /\ DOMAIN c.not = 1 .. Len(c.not)
      /\ \A k \in DOMAIN c.not : c.not[k] \in Criteria
  BY <1>1
<1>3. /\ Len(c.or) \in Nat /\ DOMAIN c.or = 1 .. Len(c.or)
      /\ \A k \in DOMAIN c.or : c.or[k][1] \in Criteria /\ c.or[k][2] \in Criteria
  BY <1>1
<1>4. QED
  BY <1>2, <1>3, CriteriaAssumption

\* The verdicts on what c nests are verdicts.
Judged(verdict, c) ==
  /\ \A k \in DOMAIN c.not : verdict[c.not[k]] \in Verdicts
  /\ \A k \in DOMAIN c.or : {verdict[c.or[k][1]], verdict[c.or[k][2]]} \subseteq Verdicts

\* What Judge weighs.
LEMMA Judging ==
  ASSUME NEW c \in Criteria, NEW verdict, Judged(verdict, c),
         NEW i, NEW oid, NEW max, NEW broken, NEW v, v = Judge(verdict, c, i, oid, max, broken)
  PROVE  /\ v \in Verdicts
         /\ v = "yes" => /\ MatchesRow(c, i, oid, max) /\ MatchesRaw(c, oid)
                         /\ \A k \in DOMAIN c.not : verdict[c.not[k]] = "no"
                         /\ \A k \in DOMAIN c.or :
                              "yes" \in {verdict[c.or[k][1]], verdict[c.or[k][2]]}
         /\ v = "no" => \/ ~MatchesRow(c, i, oid, max) \/ ~MatchesRaw(c, oid)
                        \/ \E k \in DOMAIN c.not : verdict[c.not[k]] = "yes"
                        \/ \E k \in DOMAIN c.or :
                             verdict[c.or[k][1]] = "no" /\ verdict[c.or[k][2]] = "no"
         /\ v = "error" => \/ oid \in broken
                           \/ \E k \in DOMAIN c.not : verdict[c.not[k]] = "error"
                           \/ \E k \in DOMAIN c.or :
                                "error" \in {verdict[c.or[k][1]], verdict[c.or[k][2]]}
<1> DEFINE nots == [k \in DOMAIN c.not |-> Flip(verdict[c.not[k]])]
           ors  == [k \in DOMAIN c.or |-> Either(verdict[c.or[k][1]], verdict[c.or[k][2]])]
<1>1. nots \in [1 .. Len(c.not) -> Verdicts]
  BY Nested DEF Judged, Flip, Verdicts
<1>2. ors \in [1 .. Len(c.or) -> Verdicts]
  BY Nested DEF Judged, Either, Verdicts
<1>3. \/ (\A k \in DOMAIN c.not : nots[k] = "yes") /\ Decide(nots) = "yes"
      \/ \E k \in DOMAIN c.not : nots[k] # "yes" /\ Decide(nots) = nots[k]
  <2> HIDE DEF nots
  <2>1. QED
    BY <1>1, Nested, Deciding
<1>4. \/ (\A k \in DOMAIN c.or : ors[k] = "yes") /\ Decide(ors) = "yes"
      \/ \E k \in DOMAIN c.or : ors[k] # "yes" /\ Decide(ors) = ors[k]
  <2> HIDE DEF ors
  <2>1. QED
    BY <1>2, Nested, Deciding
<1>5. v = IF ~MatchesRow(c, i, oid, max) THEN "no"
          ELSE IF NeedsRaw(c) /\ oid \in broken THEN "error"
          ELSE IF ~MatchesRaw(c, oid) THEN "no"
          ELSE IF Decide(nots) # "yes" THEN Decide(nots) ELSE Decide(ors)
  BY DEF Judge
<1>6. \A k \in DOMAIN c.not : /\ nots[k] \in Verdicts
                              /\ nots[k] = "yes" <=> verdict[c.not[k]] = "no"
                              /\ nots[k] = "no" <=> verdict[c.not[k]] = "yes"
                              /\ nots[k] = "error" <=> verdict[c.not[k]] = "error"
  BY DEF Judged, Flip, Verdicts
<1>7. \A k \in DOMAIN c.or :
        LET pair == {verdict[c.or[k][1]], verdict[c.or[k][2]]} IN
        /\ ors[k] \in Verdicts
        /\ ors[k] = "error" <=> "error" \in pair
        /\ ors[k] = "yes" => "yes" \in pair
        /\ ors[k] = "no" => verdict[c.or[k][1]] = "no" /\ verdict[c.or[k][2]] = "no"
  BY DEF Judged, Either, Verdicts
<1> HIDE DEF nots, ors
<1>8. QED
  BY <1>3, <1>4, <1>5, <1>6, <1>7 DEF Verdicts

\* Judge looks at nothing but what is nested.
LEMMA JudgeLocal ==
  ASSUME NEW c \in Criteria, NEW g, NEW h,
         \A d \in Criteria : Depth[d] < Depth[c] => g[d] = h[d],
         NEW i, NEW oid, NEW max, NEW broken
  PROVE  Judge(g, c, i, oid, max, broken) = Judge(h, c, i, oid, max, broken)
<1>1. /\ \A k \in DOMAIN c.not : g[c.not[k]] = h[c.not[k]]
      /\ \A k \in DOMAIN c.or : /\ g[c.or[k][1]] = h[c.or[k][1]]
                                /\ g[c.or[k][2]] = h[c.or[k][2]]
  BY Nested
<1>2. /\ [k \in DOMAIN c.not |-> Flip(g[c.not[k]])] = [k \in DOMAIN c.not |-> Flip(h[c.not[k]])]
      /\ [k \in DOMAIN c.or |-> Either(g[c.or[k][1]], g[c.or[k][2]])]
           = [k \in DOMAIN c.or |-> Either(h[c.or[k][1]], h[c.or[k][2]])]
  BY <1>1
<1>3. QED
  BY <1>2 DEF Judge

\* The recursion of matches defines a verdict for every criterion.
LEMMA MatchesDefined ==
  ASSUME NEW i, NEW oid, NEW max, NEW broken
  PROVE  Matches(i, oid, max, broken) =
           [c \in Criteria |-> Judge(Matches(i, oid, max, broken), c, i, oid, max, broken)]
<1> DEFINE F == [g \in [Criteria -> Verdicts] |->
                   [c \in Criteria |-> Judge(g, c, i, oid, max, broken)]]
<1>1. ASSUME NEW g \in [Criteria -> Verdicts], NEW c \in Criteria
      PROVE  Judge(g, c, i, oid, max, broken) \in Verdicts
  <2>1. Judged(g, c)
    BY Nested DEF Judged
  <2>2. QED
    BY <2>1, Judging
<1>2. F \in [[Criteria -> Verdicts] -> [Criteria -> Verdicts]]
  BY <1>1
<1>3. ASSUME NEW g \in [Criteria -> Verdicts], NEW h \in [Criteria -> Verdicts],
             NEW c \in Criteria, \A d \in Criteria : Depth[d] < Depth[c] => g[d] = h[d]
      PROVE  F[g][c] = F[h][c]
  BY <1>3, JudgeLocal
<1>4. Recursive(Criteria, Depth, Verdicts, F)
  <2>1. Depth \in [Criteria -> Nat] /\ Verdicts # {}
    BY CriteriaAssumption DEF Verdicts
  <2> HIDE DEF F
  <2>2. QED
    BY <1>2, <1>3, <2>1 DEF Recursive
<1>5. PICK f \in [Criteria -> Verdicts] : F[f] = f
  <2> HIDE DEF F
  <2>1. QED
    BY <1>4, Recursion
<1>6. f = [c \in Criteria |-> Judge(f, c, i, oid, max, broken)]
  BY <1>5
<1>7. QED
  BY <1>6 DEF Matches

\* So does that of Selected.
LEMMA SelectedDefined ==
  ASSUME NEW msgs
  PROVE  Selected(msgs) = [c \in Criteria |-> Selects(Selected(msgs), c, msgs)]
<1> DEFINE V == SUBSET DOMAIN msgs
           F == [g \in [Criteria -> V] |-> [c \in Criteria |-> Selects(g, c, msgs)]]
<1>1. F \in [[Criteria -> V] -> [Criteria -> V]]
  BY DEF Selects
<1>2. ASSUME NEW g \in [Criteria -> V], NEW h \in [Criteria -> V],
             NEW c \in Criteria, \A d \in Criteria : Depth[d] < Depth[c] => g[d] = h[d]
      PROVE  F[g][c] = F[h][c]
  <2>1. /\ \A d \in Range(c.not) : g[d] = h[d]
        /\ \A p \in Range(c.or) : g[p[1]] = h[p[1]] /\ g[p[2]] = h[p[2]]
    BY <1>2, Nested DEF Range
  <2>2. Selects(g, c, msgs) = Selects(h, c, msgs)
    BY <2>1 DEF Selects
  <2>3. QED
    BY <2>2
<1>3. Recursive(Criteria, Depth, V, F)
  <2>1. Depth \in [Criteria -> Nat] /\ V # {}
    BY CriteriaAssumption
  <2> HIDE DEF F, V
  <2>2. QED
    BY <1>1, <1>2, <2>1 DEF Recursive
<1>4. PICK f \in [Criteria -> V] : F[f] = f
  <2> HIDE DEF F, V
  <2>1. QED
    BY <1>3, Recursion
<1>5. f = [c \in Criteria |-> Selects(f, c, msgs)]
  BY <1>4
<1>6. QED
  BY <1>5 DEF Selected

\* And that of Promised.
LEMMA PromisedDefined ==
  ASSUME NEW oid
  PROVE  Promised(oid) =
           [c \in Criteria |->
              {promise \in {"all", "only"} :
                 /\ Exact(promise, c, oid)
                 /\ \A d \in Range(c.not) : Opposite(promise) \in Promised(oid)[d]
                 /\ \A p \in Range(c.or) :
                      promise \in Promised(oid)[p[1]] \cap Promised(oid)[p[2]]}]
<1> DEFINE V == SUBSET {"all", "only"}
           Told(g, c) == {promise \in {"all", "only"} :
                            /\ Exact(promise, c, oid)
                            /\ \A d \in Range(c.not) : Opposite(promise) \in g[d]
                            /\ \A p \in Range(c.or) : promise \in g[p[1]] \cap g[p[2]]}
           F == [g \in [Criteria -> V] |-> [c \in Criteria |-> Told(g, c)]]
<1>1. F \in [[Criteria -> V] -> [Criteria -> V]]
  OBVIOUS
<1>2. ASSUME NEW g \in [Criteria -> V], NEW h \in [Criteria -> V],
             NEW c \in Criteria, \A d \in Criteria : Depth[d] < Depth[c] => g[d] = h[d]
      PROVE  F[g][c] = F[h][c]
  <2>1. /\ \A d \in Range(c.not) : g[d] = h[d]
        /\ \A p \in Range(c.or) : g[p[1]] = h[p[1]] /\ g[p[2]] = h[p[2]]
    BY <1>2, Nested DEF Range
  <2>2. Told(g, c) = Told(h, c)
    BY <2>1
  <2>3. QED
    BY <2>2
<1>3. Recursive(Criteria, Depth, V, F)
  <2>1. Depth \in [Criteria -> Nat] /\ V # {}
    BY CriteriaAssumption
  <2> HIDE DEF F, V
  <2>2. QED
    BY <1>1, <1>2, <2>1 DEF Recursive
<1>4. PICK f \in [Criteria -> V] : F[f] = f
  <2> HIDE DEF F, V
  <2>1. QED
    BY <1>3, Recursion
<1>5. f = [c \in Criteria |-> Told(f, c)]
  BY <1>4
<1>6. QED
  BY <1>5 DEF Promised

\* What a criterion selects, as far as it is decided like in matches.
LEMMA Selecting ==
  ASSUME NEW msgs \in Seq(Commits), NEW c \in Criteria, NEW i \in DOMAIN msgs
  PROVE  i \in Selected(msgs)[c] <=>
           /\ MatchesRow(c, i, msgs[i], Len(msgs)) /\ Has(c, msgs[i])
           /\ \A k \in DOMAIN c.not : i \notin Selected(msgs)[c.not[k]]
           /\ \A k \in DOMAIN c.or :
                i \in Selected(msgs)[c.or[k][1]] \cup Selected(msgs)[c.or[k][2]]
<1> DEFINE sel == Selected(msgs)
           day == Day[msgs[i]]
           on(since, before) == (since # 0 => since <= day) /\ (before # 0 => day < before)
<1>1. Len(msgs) \in Nat /\ i \in 1 .. Len(msgs) /\ msgs[i] \in Commits
  OBVIOUS
<1>2. day \in Nat
  BY <1>1, EmailAssumption
<1>3. /\ c.seqNum \in Seq(Seq(Ranges)) /\ c.uid \in Seq(Seq(Ranges))
      /\ c.since \in Nat /\ c.before \in Nat /\ c.sentSince \in Nat /\ c.sentBefore \in Nat
  BY CriteriaAssumption
<1>4. sel[c] = Selects(sel, c, msgs)
  BY SelectedDefined
<1>5. (\A r \in Range(c.seqNum) \cup Range(c.uid) : i \in Denoted(r, Len(msgs)))
        <=> /\ \A k \in DOMAIN c.seqNum : NumSetContains(c.seqNum[k], i, Len(msgs))
            /\ \A k \in DOMAIN c.uid : NumSetContains(c.uid[k], i, Len(msgs))
  <2>1. \A k \in DOMAIN c.seqNum : c.seqNum[k] \in Seq(Ranges)
    BY <1>3
  <2>2. \A k \in DOMAIN c.uid : c.uid[k] \in Seq(Ranges)
    BY <1>3
  <2>3. \A r \in Seq(Ranges) : NumSetContains(r, i, Len(msgs)) <=> i \in Denoted(r, Len(msgs))
    BY <1>1, NumSetsDenote
  <2>4. QED
    BY <2>1, <2>2, <2>3 DEF Range
<1>6. /\ on(c.since, c.before) <=> DateMatches(day, c.since, c.before)
      /\ on(c.sentSince, c.sentBefore) <=> DateMatches(day, c.sentSince, c.sentBefore)
  BY <1>2, <1>3 DEF DateMatches
<1>7. c.flag = {} <=> c.flag \subseteq {""} /\ "" \notin c.notFlag
  <2>1. "" \notin c.flag /\ "" \notin c.notFlag
    BY CriteriaAssumption, Zenon
  <2>2. QED
    BY <2>1, Zenon
<1>8. i \in sel[c] <=>
        /\ \A r \in Range(c.seqNum) \cup Range(c.uid) : i \in Denoted(r, Len(msgs))
        /\ on(c.since, c.before) /\ on(c.sentSince, c.sentBefore)
        /\ c.flag = {}
        /\ Has(c, msgs[i])
        /\ \A d \in Range(c.not) : i \notin sel[d]
        /\ \A p \in Range(c.or) : i \in sel[p[1]] \cup sel[p[2]]
  BY <1>4 DEF Selects
<1>9. /\ (\A d \in Range(c.not) : i \notin sel[d])
           <=> \A k \in DOMAIN c.not : i \notin sel[c.not[k]]
      /\ (\A p \in Range(c.or) : i \in sel[p[1]] \cup sel[p[2]])
           <=> \A k \in DOMAIN c.or : i \in sel[c.or[k][1]] \cup sel[c.or[k][2]]
  BY DEF Range
<1>10. MatchesRow(c, i, msgs[i], Len(msgs)) <=>
         /\ \A r \in Range(c.seqNum) \cup Range(c.uid) : i \in Denoted(r, Len(msgs))
         /\ on(c.since, c.before) /\ on(c.sentSince, c.sentBefore)
         /\ c.flag = {}
  BY <1>5, <1>6, <1>7 DEF MatchesRow
<1> HIDE DEF sel, day, on
<1>11. QED
  BY <1>8, <1>9, <1>10 DEF sel

\* Tests of the whole email are exact one way or both, by what they look for.
LEMMA RawIsExact ==
  ASSUME NEW c \in Criteria, NEW oid \in Commits
  PROVE  /\ Exact("all", c, oid) /\ Has(c, oid) => MatchesRaw(c, oid)
         /\ Exact("only", c, oid) /\ MatchesRaw(c, oid) => Has(c, oid)
<1>1. /\ Size[oid] \in Nat /\ Body[oid] \subseteq Raw[oid]
      /\ oid \in Plain => Raw[oid] = Text(oid)
      /\ c.larger \in Nat /\ c.smaller \in Nat
  BY EmailAssumption, CriteriaAssumption
<1>2. ASSUME Exact("all", c, oid), Has(c, oid) PROVE MatchesRaw(c, oid)
  <2>1. \A f \in c.header : f.key \in Raw[oid] /\ f.value \in Raw[oid]
    BY <1>1, <1>2 DEF Exact, Has, Text
  <2>2. c.body \cup c.text \subseteq Raw[oid]
    BY <1>1, <1>2 DEF Exact, Has
  <2>3. /\ c.larger # 0 => Size[oid] > c.larger
        /\ c.smaller # 0 => Size[oid] < c.smaller
    BY <1>1, <1>2 DEF Has
  <2>4. QED
    BY <2>1, <2>2, <2>3 DEF MatchesRaw
<1>3. ASSUME Exact("only", c, oid), MatchesRaw(c, oid) PROVE Has(c, oid)
  <2>1. c.header = {} /\ c.body = {} /\ c.text \subseteq Text(oid)
    BY <1>1, <1>3 DEF Exact, MatchesRaw
  <2>2. QED
    BY <1>1, <1>3, <2>1 DEF MatchesRaw, Has
<1>4. QED
  BY <1>2, <1>3

\* The verdict on a message is whether the criterion selects it, as far as that
\* is promised, or that an email was needed which cannot be rendered.
VerdictRight(c, i, msgs, broken) ==
  LET v == Matches(i, msgs[i], Len(msgs), broken)[c] IN
  /\ v \in Verdicts
  /\ v = "yes" /\ "only" \in Promised(msgs[i])[c] => i \in Selected(msgs)[c]
  /\ v = "no" /\ "all" \in Promised(msgs[i])[c] => i \notin Selected(msgs)[c]
  /\ v = "error" => msgs[i] \in broken

\* However deep criteria nest.
LEMMA VerdictsRight ==
  ASSUME NEW msgs \in Seq(Commits), NEW i \in DOMAIN msgs, NEW broken
  PROVE  \A c \in Criteria : VerdictRight(c, i, msgs, broken)
<1> DEFINE m == Matches(i, msgs[i], Len(msgs), broken)
           T == {c \in Criteria : ~VerdictRight(c, i, msgs, broken)}
<1> SUFFICES ASSUME T # {} PROVE FALSE
  OBVIOUS
<1>1. PICK c \in T : \A d \in Criteria : Depth[d] < Depth[c] => d \notin T
  <2>1. T \in SUBSET Criteria /\ Depth \in [Criteria -> Nat]
    BY CriteriaAssumption
  <2> HIDE DEF T
  <2>2. QED
    BY <2>1, Shallowest
<1>2. ASSUME NEW d \in Criteria, Depth[d] < Depth[c] PROVE VerdictRight(d, i, msgs, broken)
  BY <1>1, <1>2
<1>3. /\ \A k \in DOMAIN c.not : VerdictRight(c.not[k], i, msgs, broken)
      /\ \A k \in DOMAIN c.or : /\ VerdictRight(c.or[k][1], i, msgs, broken)
                                /\ VerdictRight(c.or[k][2], i, msgs, broken)
  BY <1>2, Nested
<1>4. Judged(m, c)
  BY <1>3 DEF Judged, VerdictRight
<1>5. c \in Criteria /\ m[c] = Judge(m, c, i, msgs[i], Len(msgs), broken)
  BY MatchesDefined
<1> DEFINE row == MatchesRow(c, i, msgs[i], Len(msgs))
           raw == MatchesRaw(c, msgs[i])
           has == Has(c, msgs[i])
           told == Promised(msgs[i])
           sel == Selected(msgs)
<1>6. /\ m[c] \in Verdicts
      /\ m[c] = "yes" => /\ row /\ raw
                         /\ \A k \in DOMAIN c.not : m[c.not[k]] = "no"
                         /\ \A k \in DOMAIN c.or : "yes" \in {m[c.or[k][1]], m[c.or[k][2]]}
      /\ m[c] = "no" => \/ ~row \/ ~raw
                        \/ \E k \in DOMAIN c.not : m[c.not[k]] = "yes"
                        \/ \E k \in DOMAIN c.or : m[c.or[k][1]] = "no" /\ m[c.or[k][2]] = "no"
      /\ m[c] = "error" => \/ msgs[i] \in broken
                           \/ \E k \in DOMAIN c.not : m[c.not[k]] = "error"
                           \/ \E k \in DOMAIN c.or : "error" \in {m[c.or[k][1]], m[c.or[k][2]]}
  <2> HIDE DEF m
  <2>1. QED
    BY <1>4, <1>5, Judging
<1>7. i \in sel[c] <=>
        /\ row /\ has
        /\ \A k \in DOMAIN c.not : i \notin sel[c.not[k]]
        /\ \A k \in DOMAIN c.or : i \in sel[c.or[k][1]] \cup sel[c.or[k][2]]
  BY <1>5, Selecting
<1>8. ASSUME NEW promise \in {"all", "only"}, promise \in told[c]
      PROVE  /\ Exact(promise, c, msgs[i])
             /\ \A k \in DOMAIN c.not : Opposite(promise) \in told[c.not[k]]
             /\ \A k \in DOMAIN c.or : /\ promise \in told[c.or[k][1]]
                                       /\ promise \in told[c.or[k][2]]
  <2>1. told[c] = {p \in {"all", "only"} :
                     /\ Exact(p, c, msgs[i])
                     /\ \A d \in Range(c.not) : Opposite(p) \in told[d]
                     /\ \A q \in Range(c.or) : p \in told[q[1]] \cap told[q[2]]}
    <3> HIDE DEF told
    <3>1. told = [e \in Criteria |->
                    {p \in {"all", "only"} :
                       /\ Exact(p, e, msgs[i])
                       /\ \A d \in Range(e.not) : Opposite(p) \in told[d]
                       /\ \A q \in Range(e.or) : p \in told[q[1]] \cap told[q[2]]}]
      BY PromisedDefined DEF told
    <3>2. QED
      BY <1>5, <3>1
  <2> HIDE DEF told
  <2>2. QED
    BY <1>8, <2>1 DEF Range
<1>9. /\ Exact("all", c, msgs[i]) /\ has => raw
      /\ Exact("only", c, msgs[i]) /\ raw => has
  <2>1. msgs[i] \in Commits
    OBVIOUS
  <2>2. QED
    BY <1>5, <2>1, RawIsExact
<1>10. /\ \A k \in DOMAIN c.not :
            /\ m[c.not[k]] = "yes" /\ "only" \in told[c.not[k]] => i \in sel[c.not[k]]
            /\ m[c.not[k]] = "no" /\ "all" \in told[c.not[k]] => i \notin sel[c.not[k]]
            /\ m[c.not[k]] = "error" => msgs[i] \in broken
       /\ \A k \in DOMAIN c.or : \A h \in {c.or[k][1], c.or[k][2]} :
            /\ m[h] = "yes" /\ "only" \in told[h] => i \in sel[h]
            /\ m[h] = "no" /\ "all" \in told[h] => i \notin sel[h]
            /\ m[h] = "error" => msgs[i] \in broken
  BY <1>3 DEF VerdictRight
<1> HIDE DEF row, raw, has, m, told, sel
<1>11. m[c] = "yes" /\ "only" \in told[c] => i \in sel[c]
  <2> SUFFICES ASSUME m[c] = "yes", "only" \in told[c] PROVE i \in sel[c]
    OBVIOUS
  <2>1. /\ Exact("only", c, msgs[i])
        /\ \A k \in DOMAIN c.not : "all" \in told[c.not[k]]
        /\ \A k \in DOMAIN c.or : "only" \in told[c.or[k][1]] /\ "only" \in told[c.or[k][2]]
    BY <1>8 DEF Opposite
  <2>2. QED
    BY <1>6, <1>7, <1>9, <1>10, <2>1
<1>12. m[c] = "no" /\ "all" \in told[c] => i \notin sel[c]
  <2> SUFFICES ASSUME m[c] = "no", "all" \in told[c] PROVE i \notin sel[c]
    OBVIOUS
  <2>1. /\ Exact("all", c, msgs[i])
        /\ \A k \in DOMAIN c.not : "only" \in told[c.not[k]]
        /\ \A k \in DOMAIN c.or : "all" \in told[c.or[k][1]] /\ "all" \in told[c.or[k][2]]
    BY <1>8 DEF Opposite
  <2>2. QED
    BY <1>6, <1>7, <1>9, <1>10, <2>1
<1>13. m[c] = "error" => msgs[i] \in broken
  BY <1>6, <1>10
<1>14. VerdictRight(c, i, msgs, broken)
  BY <1>6, <1>11, <1>12, <1>13 DEF VerdictRight, m, told, sel
<1>15. QED
  BY <1>1, <1>14

-----------------------------------------------------------------------------
(* The loops of the two commands.                                          *)

Data == [ok : BOOLEAN, all : SUBSET Nat, count : Nat, min : Nat, max : Nat]

\* Search's loop goes over the messages one by one.
LEMMA FoundDefined ==
  ASSUME NEW c, NEW msgs \in Seq(Commits), NEW broken
  PROVE  Found(c, msgs, broken) =
           [n \in 0 .. Len(msgs) |->
              IF n = 0 THEN NothingFound
              ELSE Weigh(Found(c, msgs, broken)[n - 1],
                         Matches(n, msgs[n], Len(msgs), broken)[c], n)]
<1> DEFINE G == [x \in Data \X (1 .. Len(msgs)) |->
                   Weigh(x[1], Matches(x[2], msgs[x[2]], Len(msgs), broken)[c], x[2])]
<1>1. NothingFound \in Data /\ Len(msgs) \in Nat
  BY DEF NothingFound, Data
<1>2. ASSUME NEW data \in Data, NEW n \in 1 .. Len(msgs), NEW v PROVE Weigh(data, v, n) \in Data
  BY <1>1 DEF Weigh, Add, Failed, Data
<1>3. G \in [Data \X (1 .. Len(msgs)) -> Data]
  <2> HIDE DEF Data
  <2>1. QED
    BY <1>2
<1>4. PICK f \in [0 .. Len(msgs) -> Data] : Iterates(f, Len(msgs), NothingFound, G)
  <2> HIDE DEF G, Data
  <2>1. QED
    BY <1>1, <1>3, Loop
<1>5. ASSUME NEW n \in 0 .. Len(msgs), n # 0
      PROVE  G[<<f[n - 1], n>>] = Weigh(f[n - 1], Matches(n, msgs[n], Len(msgs), broken)[c], n)
  <2> HIDE DEF Data
  <2>1. <<f[n - 1], n>> \in Data \X (1 .. Len(msgs))
    BY <1>5
  <2>2. QED
    BY <2>1
<1> HIDE DEF G
<1>6. f = [n \in 0 .. Len(msgs) |->
             IF n = 0 THEN NothingFound
             ELSE Weigh(f[n - 1], Matches(n, msgs[n], Len(msgs), broken)[c], n)]
  BY <1>4, <1>5 DEF Iterates
<1>7. QED
  BY <1>6 DEF Found

\* A set of the first n messages is what the criterion selects of them, as far
\* as that is promised.
Meant(all, n, c, msgs) ==
  /\ all \subseteq 1 .. n
  /\ \A i \in 1 .. n :
       /\ "all" \in Promised(msgs[i])[c] /\ i \in Selected(msgs)[c] => i \in all
       /\ "only" \in Promised(msgs[i])[c] /\ i \in all => i \in Selected(msgs)[c]

\* What the loop has found among the first n messages.
FoundRight(data, n, c, msgs, broken) ==
  IF data.ok
    THEN /\ Meant(data.all, n, c, msgs)
         /\ data.count = Cardinality(data.all)
         /\ data.all = {} => data.min = 0 /\ data.max = 0
         /\ data.all # {} => /\ {data.min, data.max} \subseteq data.all
                             /\ \A k \in data.all : data.min <= k /\ k <= data.max
    ELSE \E i \in 1 .. n : msgs[i] \in broken

LEMMA WeighRight ==
  ASSUME NEW c \in Criteria, NEW msgs \in Seq(Commits), NEW broken, NEW n \in 1 .. Len(msgs),
         NEW data, FoundRight(data, n - 1, c, msgs, broken)
  PROVE  FoundRight(Weigh(data, Matches(n, msgs[n], Len(msgs), broken)[c], n), n, c, msgs, broken)
<1> DEFINE v == Matches(n, msgs[n], Len(msgs), broken)[c]
           new == Weigh(data, v, n)
<1>1. VerdictRight(c, n, msgs, broken)
  <2>1. n \in DOMAIN msgs
    OBVIOUS
  <2>2. QED
    BY <2>1, VerdictsRight
<1>2. n \in Nat /\ n - 1 \in Nat /\ 1 .. n = (1 .. (n - 1)) \cup {n} /\ n \notin 1 .. (n - 1)
  OBVIOUS
<1>3. CASE ~data.ok
  BY <1>2, <1>3 DEF FoundRight, Weigh
<1>4. CASE data.ok /\ v = "no"
  <2>1. "all" \in Promised(msgs[n])[c] => n \notin Selected(msgs)[c]
    BY <1>1, <1>4 DEF VerdictRight
  <2>2. Meant(data.all, n - 1, c, msgs)
    BY <1>4 DEF FoundRight
  <2>3. Meant(data.all, n, c, msgs)
    BY <1>2, <2>1, <2>2 DEF Meant
  <2>4. new = data
    BY <1>4 DEF Weigh
  <2>5. QED
    BY <1>4, <2>3, <2>4 DEF FoundRight
<1>5. CASE data.ok /\ v = "error"
  <2>1. msgs[n] \in broken
    BY <1>1, <1>5 DEF VerdictRight
  <2>2. new.ok = FALSE
    BY <1>5 DEF Weigh, Failed
  <2>3. QED
    BY <1>2, <2>1, <2>2 DEF FoundRight
<1>6. CASE data.ok /\ v = "yes"
  <2>1. "only" \in Promised(msgs[n])[c] => n \in Selected(msgs)[c]
    BY <1>1, <1>6 DEF VerdictRight
  <2>2. new = Add(data, n)
    BY <1>6 DEF Weigh
  <2>3. /\ Meant(data.all, n - 1, c, msgs) /\ data.all \subseteq 1 .. (n - 1)
        /\ data.count = Cardinality(data.all)
    BY <1>6 DEF FoundRight, Meant
  <2>4. new.ok /\ new.all = data.all \cup {n} /\ Meant(new.all, n, c, msgs)
    <3>1. new.ok /\ new.all = data.all \cup {n}
      BY <2>2 DEF Add
    <3>2. Meant(data.all \cup {n}, n, c, msgs)
      BY <1>2, <2>1, <2>3 DEF Meant
    <3>3. QED
      BY <3>1, <3>2
  <2>5. new.count = Cardinality(new.all)
    <3>1. IsFiniteSet(1 .. (n - 1))
      BY <1>2, FS_Interval
    <3>2. IsFiniteSet(data.all)
      BY <2>3, <3>1, FS_Subset
    <3>3. Cardinality(data.all \cup {n}) = Cardinality(data.all) + 1
      BY <1>2, <2>3, <3>2, FS_AddElement
    <3>4. QED
      BY <2>2, <2>3, <3>3 DEF Add
  <2>6. /\ {new.min, new.max} \subseteq new.all
        /\ \A k \in new.all : new.min <= k /\ k <= new.max
    <3>1. new.all = data.all \cup {n} /\ \A k \in data.all : k \in Nat /\ 0 < k /\ k < n
      BY <1>2, <2>2, <2>3 DEF Add
    <3>2. /\ new.min = IF data.min = 0 \/ n < data.min THEN n ELSE data.min
          /\ new.max = IF n > data.max THEN n ELSE data.max
      BY <2>2 DEF Add
    <3>3. CASE data.all = {}
      <4>1. data.min = 0 /\ data.max = 0
        BY <1>6, <3>3 DEF FoundRight
      <4>2. QED
        BY <1>2, <3>1, <3>2, <3>3, <4>1
    <3>4. CASE data.all # {}
      <4>1. /\ data.min \in data.all /\ data.max \in data.all
            /\ \A k \in data.all : data.min <= k /\ k <= data.max
        BY <1>6, <3>4 DEF FoundRight
      <4>2. new.min = data.min /\ new.max = n
        BY <1>2, <3>1, <3>2, <4>1
      <4>3. QED
        BY <1>2, <3>1, <4>1, <4>2
    <3>5. QED
      BY <3>3, <3>4
  <2>7. new.all # {}
    BY <1>2, <2>1, <2>4
  <2>8. QED
    BY <2>4, <2>5, <2>6, <2>7 DEF FoundRight
<1>7. QED
  BY <1>1, <1>3, <1>4, <1>5, <1>6 DEF VerdictRight, Verdicts

\* SEARCH finds what the criteria select, or an email that cannot be rendered.
LEMMA SearchRight ==
  ASSUME NEW c \in Criteria, NEW msgs \in Seq(Commits), NEW broken
  PROVE  FoundRight(Found(c, msgs, broken)[Len(msgs)], Len(msgs), c, msgs, broken)
<1> DEFINE after == Found(c, msgs, broken)
           T == {n \in 0 .. Len(msgs) : ~FoundRight(after[n], n, c, msgs, broken)}
<1>1. Len(msgs) \in Nat
  OBVIOUS
<1> SUFFICES ASSUME T # {} PROVE FALSE
  BY <1>1
<1>2. PICK n \in T : \A k \in T : n <= k
  <2>1. T \in SUBSET Nat
    OBVIOUS
  <2> HIDE DEF T
  <2>2. QED
    BY <2>1, Least
<1>3. CASE n = 0
  <2>1. after[0] = NothingFound
    BY <1>1, FoundDefined
  <2>2. Meant({}, 0, c, msgs) /\ Cardinality({}) = 0
    BY FS_EmptySet DEF Meant
  <2>3. FoundRight(after[0], 0, c, msgs, broken)
    BY <2>1, <2>2 DEF FoundRight, NothingFound
  <2>4. QED
    BY <1>2, <1>3, <2>3
<1>4. CASE n # 0
  <2>1. n \in 1 .. Len(msgs) /\ n - 1 \in 0 .. Len(msgs) /\ n - 1 \notin T
    BY <1>1, <1>2, <1>4
  <2>2. FoundRight(after[n - 1], n - 1, c, msgs, broken)
    BY <2>1
  <2>3. after[n] = Weigh(after[n - 1], Matches(n, msgs[n], Len(msgs), broken)[c], n)
    BY <1>4, <2>1, FoundDefined
  <2>4. FoundRight(after[n], n, c, msgs, broken)
    <3> HIDE DEF after
    <3>1. QED
      BY <2>1, <2>2, <2>3, WeighRight
  <2>5. QED
    BY <1>2, <2>4
<1>5. QED
  BY <1>3, <1>4

\* The bodies of Fetch's loop are those of a loop over the messages, too.
Responses == [ok : BOOLEAN, sent : Seq(Nat)]

LEMMA SentDefined ==
  ASSUME NEW ranges, NEW msgs \in Seq(Commits), NEW broken
  PROVE  Sent(ranges, msgs, broken) =
           [n \in 0 .. Len(msgs) |->
              IF n = 0 THEN NothingSent
              ELSE Send(Sent(ranges, msgs, broken)[n - 1], ranges, n, msgs, broken)]
<1> DEFINE G == [x \in Responses \X (1 .. Len(msgs)) |-> Send(x[1], ranges, x[2], msgs, broken)]
<1>1. NothingSent \in Responses /\ Len(msgs) \in Nat
  BY DEF NothingSent, Responses
<1>2. ASSUME NEW r \in Responses, NEW n \in 1 .. Len(msgs)
      PROVE  Send(r, ranges, n, msgs, broken) \in Responses
  <2>1. n \in Nat
    BY <1>1
  <2>2. Append(r.sent, n) \in Seq(Nat)
    BY <2>1 DEF Responses
  <2>3. QED
    BY <2>2 DEF Send, Responses
<1>3. G \in [Responses \X (1 .. Len(msgs)) -> Responses]
  <2> HIDE DEF Responses
  <2>1. QED
    BY <1>2
<1>4. PICK f \in [0 .. Len(msgs) -> Responses] : Iterates(f, Len(msgs), NothingSent, G)
  <2> HIDE DEF G, Responses
  <2>1. QED
    BY <1>1, <1>3, Loop
<1>5. ASSUME NEW n \in 0 .. Len(msgs), n # 0
      PROVE  G[<<f[n - 1], n>>] = Send(f[n - 1], ranges, n, msgs, broken)
  <2> HIDE DEF Responses
  <2>1. <<f[n - 1], n>> \in Responses \X (1 .. Len(msgs))
    BY <1>5
  <2>2. QED
    BY <2>1
<1> HIDE DEF G
<1>6. f = [n \in 0 .. Len(msgs) |->
             IF n = 0 THEN NothingSent ELSE Send(f[n - 1], ranges, n, msgs, broken)]
  BY <1>4, <1>5 DEF Iterates
<1>7. QED
  BY <1>6 DEF Sent

\* What the loop has sent of the first n messages.
SentRight(r, n, ranges, msgs, broken) ==
  /\ r \in [ok : BOOLEAN, sent : Seq(1 .. n)]
  /\ \A i, j \in DOMAIN r.sent : i < j => r.sent[i] < r.sent[j]
  /\ Range(r.sent) \subseteq Denoted(ranges, Len(msgs))
  /\ IF r.ok
       THEN Denoted(ranges, Len(msgs)) \cap (1 .. n) \subseteq Range(r.sent)
       ELSE \E k \in Denoted(ranges, Len(msgs)) :
              \A i \in DOMAIN r.sent : r.sent[i] < k

LEMMA SendRight ==
  ASSUME NEW ranges \in Seq(Ranges), NEW msgs \in Seq(Commits), NEW broken,
         NEW n \in 1 .. Len(msgs), NEW r, SentRight(r, n - 1, ranges, msgs, broken)
  PROVE  SentRight(Send(r, ranges, n, msgs, broken), n, ranges, msgs, broken)
<1> DEFINE named == Denoted(ranges, Len(msgs))
           new == Send(r, ranges, n, msgs, broken)
<1>1. n \in Nat /\ n - 1 \in Nat /\ Len(msgs) \in Nat
      /\ 1 .. n = (1 .. (n - 1)) \cup {n} /\ n \notin 1 .. (n - 1)
  OBVIOUS
<1>2. /\ r \in [ok : BOOLEAN, sent : Seq(1 .. (n - 1))]
      /\ \A i, j \in DOMAIN r.sent : i < j => r.sent[i] < r.sent[j]
      /\ Range(r.sent) \subseteq named
      /\ r.ok => named \cap (1 .. (n - 1)) \subseteq Range(r.sent)
      /\ ~r.ok => \E k \in named : \A i \in DOMAIN r.sent : r.sent[i] < k
  BY DEF SentRight
<1>3. NumSetContains(ranges, Number(n), Len(msgs)) <=> n \in named
  BY <1>1, NumSetsDenote DEF Number
<1>4. r.sent \in Seq(1 .. n) /\ \A i \in DOMAIN r.sent : r.sent[i] < n
  BY <1>1, <1>2
<1>5. r.ok \in BOOLEAN /\ r = [ok |-> r.ok, sent |-> r.sent]
  BY <1>2
<1> HIDE DEF named
<1>6. CASE ~r.ok \/ n \notin named
  <2>1. new = r
    BY <1>3, <1>6 DEF Send
  <2>2. r \in [ok : BOOLEAN, sent : Seq(1 .. n)]
    BY <1>4, <1>5
  <2>3. r.ok => named \cap (1 .. n) \subseteq Range(r.sent)
    BY <1>1, <1>2, <1>6
  <2>4. QED
    BY <1>2, <2>1, <2>2, <2>3 DEF SentRight, named
<1>7. CASE r.ok /\ n \in named /\ msgs[n] \in broken
  <2>1. new = [ok |-> FALSE, sent |-> r.sent]
    BY <1>3, <1>5, <1>7 DEF Send
  <2>2. QED
    BY <1>2, <1>4, <1>7, <2>1 DEF SentRight, named
<1>8. CASE r.ok /\ n \in named /\ msgs[n] \notin broken
  <2> DEFINE l == Len(r.sent)
             t == Append(r.sent, n)
  <2>1. new = [ok |-> TRUE, sent |-> t]
    BY <1>3, <1>5, <1>8 DEF Send
  <2>2. /\ l \in Nat /\ DOMAIN r.sent = 1 .. l
        /\ t \in Seq(1 .. n) /\ DOMAIN t = 1 .. (l + 1) /\ t[l + 1] = n
        /\ \A i \in 1 .. l : t[i] = r.sent[i]
    BY <1>1, <1>4
  <2> HIDE DEF l, t, new
  <2>3. \A i \in 1 .. (l + 1) : i = l + 1 \/ i \in 1 .. l
    BY <2>2
  <2>4. l + 1 \in 1 .. (l + 1) /\ \A i \in 1 .. l : i \in 1 .. (l + 1)
    BY <2>2
  <2>5. Range(t) = Range(r.sent) \cup {n}
    BY <2>2, <2>3, <2>4 DEF Range
  <2>6. \A i, j \in DOMAIN t : i < j => t[i] < t[j]
    <3> SUFFICES ASSUME NEW i \in 1 .. (l + 1), NEW j \in 1 .. (l + 1), i < j
                 PROVE  t[i] < t[j]
      BY <2>2
    <3>1. i \in 1 .. l
      BY <2>2
    <3>2. QED
      BY <1>2, <1>4, <2>2, <2>3, <3>1
  <2>7. Range(t) \subseteq named /\ named \cap (1 .. n) \subseteq Range(t)
    BY <1>1, <1>2, <1>8, <2>5
  <2>8. new \in [ok : BOOLEAN, sent : Seq(1 .. n)] /\ new.ok /\ new.sent = t
    BY <2>1, <2>2
  <2>9. QED
    BY <2>6, <2>7, <2>8 DEF SentRight, named, new
<1>9. QED
  BY <1>6, <1>7, <1>8

\* FETCH sends what the client named, or the first of it.
LEMMA FetchRight ==
  ASSUME NEW ranges \in Seq(Ranges), NEW msgs \in Seq(Commits), NEW broken
  PROVE  SentRight(Sent(ranges, msgs, broken)[Len(msgs)], Len(msgs), ranges, msgs, broken)
<1> DEFINE after == Sent(ranges, msgs, broken)
           T == {n \in 0 .. Len(msgs) : ~SentRight(after[n], n, ranges, msgs, broken)}
<1>1. Len(msgs) \in Nat
  OBVIOUS
<1> SUFFICES ASSUME T # {} PROVE FALSE
  BY <1>1
<1>2. PICK n \in T : \A k \in T : n <= k
  <2>1. T \in SUBSET Nat
    OBVIOUS
  <2> HIDE DEF T
  <2>2. QED
    BY <2>1, Least
<1>3. CASE n = 0
  <2>1. after[0] = NothingSent
    <3>1. after = [k \in 0 .. Len(msgs) |->
                     IF k = 0 THEN NothingSent ELSE Send(after[k - 1], ranges, k, msgs, broken)]
      BY SentDefined
    <3>2. 0 \in 0 .. Len(msgs)
      BY <1>1
    <3> HIDE DEF after
    <3>3. QED
      BY <3>1, <3>2
  <2>2. SentRight(NothingSent, 0, ranges, msgs, broken)
    BY DEF SentRight, NothingSent, Range
  <2>3. QED
    BY <1>2, <1>3, <2>1, <2>2
<1>4. CASE n # 0
  <2>1. n \in 1 .. Len(msgs) /\ n - 1 \in 0 .. Len(msgs) /\ n - 1 \notin T
    BY <1>1, <1>2, <1>4
  <2>2. SentRight(after[n - 1], n - 1, ranges, msgs, broken)
    BY <2>1
  <2>3. after[n] = Send(after[n - 1], ranges, n, msgs, broken)
    BY <1>4, <2>1, SentDefined
  <2>4. SentRight(after[n], n, ranges, msgs, broken)
    <3> HIDE DEF after
    <3>1. QED
      BY <2>1, <2>2, <2>3, SendRight
  <2>5. QED
    BY <1>2, <2>4
<1>5. QED
  BY <1>3, <1>4

\* Numbers named again are what was meant.
LEMMA NamedMeans ==
  ASSUME NEW numbers \in SUBSET Nat, IsFiniteSet(numbers)
  PROVE  /\ Named(numbers) \in Seq(Ranges)
         /\ \A max \in Nat : numbers \subseteq 1 .. max => Denoted(Named(numbers), max) = numbers
<1> DEFINE range(n) == [start |-> n, stop |-> n]
           S == {range(n) : n \in numbers}
           D == 1 .. Cardinality(S)
<1>1. IsFiniteSet(S)
  <2>1. [n \in numbers |-> range(n)] \in Surjection(numbers, S)
    BY DEF Surjection
  <2>2. QED
    BY <2>1, FS_Surjection
<1>2. Cardinality(S) \in Nat /\ ExistsBijection(D, S)
  BY <1>1, FS_CardinalityType
<1>3. PICK g \in Bijection(D, S) : TRUE
  BY <1>2 DEF ExistsBijection
<1>4. g \in [D -> S] /\ IsInjective(g)
  BY <1>3 DEF Bijection, Injection, IsInjective
<1>5. SetToSeq(S) \in [D -> S] /\ IsInjective(SetToSeq(S))
  BY <1>4 DEF SetToSeq
<1>6. SetToSeq(S) \in Injection(D, S)
  BY <1>5 DEF Injection, IsInjective
<1>7. SetToSeq(S) \in Surjection(D, S)
  <2>1. Cardinality(D) = Cardinality(S)
    BY <1>2, FS_Interval
  <2>2. QED
    BY <1>1, <1>6, <2>1, FS_Injection
<1>8. Named(numbers) = SetToSeq(S)
  BY DEF Named
<1>9. Range(Named(numbers)) = S
  <2> DEFINE f == SetToSeq(S)
  <2>1. f \in [D -> S] /\ \A t \in S : \E n \in D : f[n] = t
    BY <1>5, <1>7 DEF Surjection
  <2> HIDE DEF f, D, S
  <2>2. Range(f) = S
    BY <2>1 DEF Range
  <2>3. QED
    BY <1>8, <2>2 DEF f
<1>10. Named(numbers) \in Seq(Ranges)
  <2>1. S \subseteq Ranges
    <3>1. ASSUME NEW n \in numbers PROVE range(n) \in Ranges
      <4>1. n \in Nat
        OBVIOUS
      <4>2. QED
        BY <4>1 DEF Ranges
    <3>2. QED
      BY <3>1
  <2>2. Named(numbers) \in [D -> Ranges]
    BY <1>5, <1>8, <2>1
  <2> HIDE DEF S
  <2>3. QED
    BY <1>2, <2>2
<1>11. ASSUME NEW max \in Nat, numbers \subseteq 1 .. max
       PROVE  Denoted(Named(numbers), max) = numbers
  <2>1. ASSUME NEW n \in 1 .. max PROVE n \in Denoted(Named(numbers), max) <=> n \in numbers
    <3>1. n \in Denoted(Named(numbers), max) <=>
            \E m \in numbers :
              LET ends == {IF e = 0 THEN max ELSE e : e \in {m}} IN
              (\E a \in ends : a <= n) /\ (\E b \in ends : n <= b)
      <4> DEFINE Spans(r) == LET ends == {IF e = 0 THEN max ELSE e : e \in {r.start, r.stop}} IN
                             (\E a \in ends : a <= n) /\ (\E b \in ends : n <= b)
      <4>1. n \in Denoted(Named(numbers), max) <=> \E r \in S : Spans(r)
        BY <1>9 DEF Denoted
      <4>2. (\E r \in S : Spans(r)) <=> \E m \in numbers : Spans(range(m))
        <5> HIDE DEF Spans
        <5>1. QED
          OBVIOUS
      <4>3. \A m \in numbers : {range(m).start, range(m).stop} = {m}
        OBVIOUS
      <4>4. QED
        BY <4>1, <4>2, <4>3
    <3>2. ASSUME NEW m \in numbers PROVE m \in 1 .. max
      BY <1>11
    <3>3. QED
      BY <3>1, <3>2
  <2>2. Denoted(Named(numbers), max) \subseteq 1 .. max
    BY DEF Denoted
  <2>3. QED
    BY <1>11, <2>1, <2>2
<1>12. QED
  BY <1>10, <1>11

-----------------------------------------------------------------------------
(* The inductive invariant.  A command in flight holds still all that its   *)
(* answer was read from, so what it means is kept as it is; the numbers of  *)
(* a SEARCH outlive it, and what keeps them is that views only grow.        *)

\* What the session shows under the numbers is still what was found.
Still(s) ==
  /\ found[s].numbers \subseteq DOMAIN view[s].msgs
  /\ found[s].oids = {view[s].msgs[i] : i \in found[s].numbers}

\* A torn view keeps the numbers, until the next step forgets them, but not
\* what they were.
Kept ==
  \A s \in Sessions :
    found[s] # None =>
      /\ view[s] # None
      /\ found[s].numbers \in SUBSET Nat /\ IsFiniteSet(found[s].numbers)
      /\ s \notin torn => Still(s)

Tables ==
  /\ command = [s \in Sessions |-> command[s]]
  /\ found = [s \in Sessions |-> found[s]]

MailInv == IInv /\ Tables /\ Kept /\ SearchMeans /\ FetchMeans

LEMMA MailInitInv == MailInit => MailInv
<1> SUFFICES ASSUME MailInit PROVE MailInv
  OBVIOUS
<1>1. IInv
  BY InitInv DEF MailInit
<1>2. Tables /\ \A s \in Sessions : command[s] = None /\ found[s] = None
  BY DEF MailInit, Tables
<1>3. QED
  BY <1>1, <1>2 DEF MailInv, Kept, SearchMeans, FetchMeans

\* The messages of a session are a sequence.
LEMMA ViewsAreSequences ==
  ASSUME TypeOK, NEW s \in Sessions, view[s] # None
  PROVE  /\ view[s].msgs \in Seq(Commits)
         /\ DOMAIN view[s].msgs = 1 .. Len(view[s].msgs) /\ Len(view[s].msgs) \in Nat
BY MailsAreSequences DEF TypeOK, Rows

\* Every step is one of the sessions, or leaves them alone.
LEMMA SessionsBelow == [MailNext]_mailVars => [Next]_vars
BY DEF MailNext, Otherwise, Search, Fetch, Answered, mailVars

LEMMA SearchStep ==
  ASSUME MailInv, NEW s \in Sessions, Search(s)
  PROVE  Tables' /\ Kept' /\ SearchMeans' /\ FetchMeans'
<1> DEFINE msgs == view[s].msgs
<1>1. PICK c \in Criteria, broken \in SUBSET Range(msgs) :
        LET data == Found(c, msgs, broken)[Len(msgs)] IN
        /\ command' = [command EXCEPT ![s] =
             [name |-> "SEARCH", criteria |-> c, broken |-> broken, data |-> data]]
        /\ found' = IF data.ok
                     THEN [found EXCEPT ![s] = [numbers |-> data.all,
                                                oids |-> {msgs[i] : i \in data.all}]]
                     ELSE found
  BY DEF Search
<1> DEFINE data == Found(c, msgs, broken)[Len(msgs)]
           cmd == [name |-> "SEARCH", criteria |-> c, broken |-> broken, data |-> data]
<1>2. UNCHANGED vars /\ view' = view /\ torn' = torn /\ view[s] # None
  BY DEF Search, Ready, vars
<1>3. /\ command = [q \in Sessions |-> command[q]] /\ found = [q \in Sessions |-> found[q]]
      /\ Kept /\ SearchMeans /\ FetchMeans /\ TypeOK
  BY DEF MailInv, Tables, IInv
<1>4. msgs \in Seq(Commits) /\ DOMAIN msgs = 1 .. Len(msgs) /\ Len(msgs) \in Nat
  BY <1>2, <1>3, ViewsAreSequences
<1>5. FoundRight(data, Len(msgs), c, msgs, broken)
  BY <1>4, SearchRight
<1> HIDE DEF data
<1>6. data.ok => Meant(data.all, Len(msgs), c, msgs)
  BY <1>5 DEF FoundRight
<1>7. data.ok => data.all \subseteq DOMAIN msgs
  BY <1>4, <1>6 DEF Meant
<1>8. command' = [command EXCEPT ![s] = cmd]
  BY <1>1 DEF data
<1>9. found' = IF data.ok
                THEN [found EXCEPT ![s] = [numbers |-> data.all,
                                           oids |-> {msgs[i] : i \in data.all}]]
                ELSE found
  BY <1>1 DEF data
<1>10. command'[s] = cmd /\ \A q \in Sessions : q # s => command'[q] = command[q]
  BY <1>3, <1>8
<1>11. Tables'
  BY <1>3, <1>8, <1>9 DEF Tables
<1>12. Kept'
  <2> SUFFICES ASSUME NEW q \in Sessions, found'[q] # None
               PROVE  /\ view'[q] # None
                      /\ found'[q].numbers \in SUBSET Nat /\ IsFiniteSet(found'[q].numbers)
                      /\ q \notin torn' => Still(q)'
    BY DEF Kept
  <2>1. CASE q # s \/ ~data.ok
    <3>1. found'[q] = found[q]
      BY <1>3, <1>9, <2>1
    <3>2. QED
      BY <1>2, <1>3, <3>1 DEF Kept, Still
  <2>2. CASE q = s /\ data.ok
    <3>1. found'[q].numbers = data.all /\ found'[q].oids = {msgs[i] : i \in data.all}
      BY <1>3, <1>9, <2>2
    <3>2. data.all \in SUBSET Nat /\ data.all \subseteq 1 .. Len(msgs)
      BY <1>4, <1>7, <2>2
    <3>3. IsFiniteSet(data.all)
      <4>1. IsFiniteSet(1 .. Len(msgs))
        BY <1>4, FS_Interval
      <4>2. QED
        BY <3>2, <4>1, FS_Subset
    <3>4. Still(q)'
      BY <1>2, <1>7, <2>2, <3>1 DEF Still
    <3>5. QED
      BY <1>2, <2>2, <3>1, <3>2, <3>3, <3>4
  <2>3. QED
    BY <2>1, <2>2
<1>13. SearchMeans'
  <2>1. ASSUME ~data.ok PROVE broken # {}
    <3>1. \E i \in 1 .. Len(msgs) : msgs[i] \in broken
      BY <1>5, <2>1 DEF FoundRight
    <3>2. QED
      BY <3>1
  <2>2. data.ok => /\ data.count = Cardinality(data.all)
                   /\ data.all # {} =>
                        /\ {data.min, data.max} \subseteq data.all
                        /\ \A n \in data.all : data.min <= n /\ n <= data.max
    BY <1>5 DEF FoundRight
  <2>3. data.ok =>
          \A i \in DOMAIN msgs :
            /\ "all" \in Promised(msgs[i])[c] /\ i \in Selected(msgs)[c] => i \in data.all
            /\ "only" \in Promised(msgs[i])[c] /\ i \in data.all => i \in Selected(msgs)[c]
    BY <1>4, <1>6 DEF Meant
  <2>4. SearchMeant(cmd, msgs)
    BY <1>7, <2>1, <2>2, <2>3 DEF SearchMeant
  <2> HIDE DEF cmd, msgs
  <2>5. QED
    BY <1>2, <1>3, <1>10, <2>4 DEF SearchMeans, msgs
<1>14. FetchMeans'
  <2>1. FetchMeant(cmd, msgs)
    BY DEF FetchMeant
  <2> HIDE DEF cmd, msgs
  <2>2. QED
    BY <1>2, <1>3, <1>10, <2>1 DEF FetchMeans, msgs
<1>15. QED
  BY <1>11, <1>12, <1>13, <1>14

\* What a client names is a set of numbers.
LEMMA NamesAreRanges ==
  ASSUME Kept, NEW s \in Sessions,
         NEW ranges \in NumSets \cup (IF found[s] = None THEN {} ELSE {Named(found[s].numbers)})
  PROVE  ranges \in Seq(Ranges)
<1>1. CASE ranges \in NumSets
  BY <1>1, NumSetsAssumption
<1>2. CASE found[s] # None /\ ranges = Named(found[s].numbers)
  <2>1. found[s].numbers \in SUBSET Nat /\ IsFiniteSet(found[s].numbers)
    BY <1>2 DEF Kept
  <2>2. QED
    BY <1>2, <2>1, NamedMeans
<1>3. QED
  BY <1>1, <1>2

LEMMA FetchStep ==
  ASSUME MailInv, NEW s \in Sessions, Fetch(s)
  PROVE  Tables' /\ Kept' /\ SearchMeans' /\ FetchMeans'
<1> DEFINE msgs == view[s].msgs
           Numbers == NumSets \cup (IF found[s] = None THEN {} ELSE {Named(found[s].numbers)})
<1>1. PICK ranges \in Numbers, broken \in SUBSET Range(msgs) :
        LET response == Sent(ranges, msgs, broken)[Len(msgs)] IN
        command' = [command EXCEPT ![s] =
          [name |-> "FETCH", ranges |-> ranges, ok |-> response.ok, sent |-> response.sent]]
  BY DEF Fetch
<1> DEFINE response == Sent(ranges, msgs, broken)[Len(msgs)]
           cmd == [name |-> "FETCH", ranges |-> ranges, ok |-> response.ok, sent |-> response.sent]
<1>2. view' = view /\ torn' = torn /\ found' = found /\ view[s] # None
  BY DEF Fetch, Ready, vars
<1>3. /\ command = [q \in Sessions |-> command[q]] /\ found = [q \in Sessions |-> found[q]]
      /\ Kept /\ SearchMeans /\ FetchMeans /\ TypeOK
  BY DEF MailInv, Tables, IInv
<1>4. msgs \in Seq(Commits) /\ Len(msgs) \in Nat
  BY <1>2, <1>3, ViewsAreSequences
<1>5. ranges \in Seq(Ranges)
  BY <1>3, NamesAreRanges
<1>6. SentRight(response, Len(msgs), ranges, msgs, broken)
  BY <1>4, <1>5, FetchRight
<1> HIDE DEF response
<1>7. command' = [command EXCEPT ![s] = cmd]
  BY <1>1 DEF response
<1>8. command'[s] = cmd /\ \A q \in Sessions : q # s => command'[q] = command[q]
  BY <1>3, <1>7
<1>9. Tables' /\ Kept'
  BY <1>2, <1>3, <1>7 DEF Tables, Kept, Still
<1>10. SearchMeant(cmd, msgs)
  BY DEF SearchMeant
<1>11. FetchMeant(cmd, msgs)
  <2> DEFINE named == Denoted(ranges, Len(msgs))
  <2>1. named \subseteq 1 .. Len(msgs)
    BY DEF Denoted
  <2>2. response.ok => Range(response.sent) = named
    BY <1>6, <2>1 DEF SentRight
  <2>3. /\ \A i, j \in DOMAIN response.sent : i < j => response.sent[i] < response.sent[j]
        /\ Range(response.sent) \subseteq named
        /\ ~response.ok => \E n \in named : \A i \in DOMAIN response.sent : response.sent[i] < n
    BY <1>6 DEF SentRight
  <2> HIDE DEF named
  <2>4. QED
    BY <2>2, <2>3 DEF FetchMeant, named
<1> HIDE DEF cmd, msgs
<1>12. SearchMeans' /\ FetchMeans'
  BY <1>2, <1>3, <1>8, <1>10, <1>11 DEF SearchMeans, FetchMeans, msgs
<1>13. QED
  BY <1>9, <1>12

LEMMA AnsweredStep ==
  ASSUME MailInv, NEW s \in Sessions, Answered(s)
  PROVE  Tables' /\ Kept' /\ SearchMeans' /\ FetchMeans'
<1>1. view' = view /\ torn' = torn /\ found' = found /\ command' = [command EXCEPT ![s] = None]
  BY DEF Answered, vars
<1>2. /\ command = [q \in Sessions |-> command[q]] /\ found = [q \in Sessions |-> found[q]]
      /\ Kept /\ SearchMeans /\ FetchMeans
  BY DEF MailInv, Tables
<1>3. command'[s] = None /\ \A q \in Sessions : q # s => command'[q] = command[q]
  BY <1>1, <1>2
<1>4. Tables' /\ Kept'
  BY <1>1, <1>2 DEF Tables, Kept, Still
<1>5. QED
  BY <1>1, <1>2, <1>3, <1>4 DEF SearchMeans, FetchMeans

\* Messages that stay where they were are what they were.
LEMMA StillThere ==
  ASSUME NEW m \in Seq(Commits), NEW n \in Seq(Commits), Mailbox!Continues(m, n), NEW i \in DOMAIN m
  PROVE  i \in DOMAIN n /\ n[i] = m[i]
BY DEF Mailbox!Continues

\* No command is in flight while the mailbox or a session moves on.
LEMMA OtherStep ==
  ASSUME MailInv, Otherwise(Next)
  PROVE  Tables' /\ Kept' /\ SearchMeans' /\ FetchMeans'
<1>1. /\ \A s \in Sessions : command[s] = None
      /\ found' = [s \in Sessions |->
                     IF view'[s] = None \/ s \in torn \cup reused THEN None ELSE found[s]]
      /\ command' = command /\ Next
  BY DEF Otherwise
<1>2. /\ IInv /\ Kept /\ found = [s \in Sessions |-> found[s]]
      /\ command = [s \in Sessions |-> command[s]]
  BY DEF MailInv, Tables
<1>3. TypeOK /\ TypeOK'
  BY <1>1, <1>2, InductiveStep DEF IInv
<1>4. Tables' /\ SearchMeans' /\ FetchMeans'
  BY <1>1, <1>2 DEF Tables, SearchMeans, FetchMeans
<1>5. ASSUME NEW s \in Sessions, found'[s] # None
      PROVE  /\ view'[s] # None
             /\ found'[s].numbers \in SUBSET Nat /\ IsFiniteSet(found'[s].numbers)
             /\ s \notin torn' => Still(s)'
  <2>1. view'[s] # None /\ s \notin torn \cup reused /\ found'[s] = found[s]
    BY <1>1, <1>5
  <2>2. /\ view[s] # None /\ Still(s)
        /\ found[s].numbers \in SUBSET Nat /\ IsFiniteSet(found[s].numbers)
    BY <1>2, <1>5, <2>1 DEF Kept
  <2>3. ASSUME s \notin torn' PROVE Still(s)'
    <3>1. view[s].msgs \in Seq(Commits) /\ view'[s].msgs \in Seq(Commits)
      BY <1>3, <2>1, <2>2, MailsAreSequences DEF TypeOK, Rows
    <3>2. CASE view'[s] = view[s]
      BY <2>1, <2>2, <3>2 DEF Still
    <3>3. CASE view'[s] # view[s]
      <4>1. OnlyGrows
        BY <1>1, <1>2, <3>3, OnlyGrowsStep DEF vars
      <4>2. Mailbox!Continues(view[s].msgs, view'[s].msgs)
        BY <2>1, <2>2, <2>3, <4>1 DEF OnlyGrows
      <4>3. found[s].numbers \subseteq DOMAIN view[s].msgs
        BY <2>2 DEF Still
      <4>4. \A i \in found[s].numbers : i \in DOMAIN view'[s].msgs /\ view'[s].msgs[i] = view[s].msgs[i]
        BY <3>1, <4>2, <4>3, StillThere
      <4>5. QED
        BY <2>1, <2>2, <4>4 DEF Still
    <3>4. QED
      BY <3>2, <3>3
  <2>4. QED
    BY <2>1, <2>2, <2>3
<1>6. Kept'
  BY <1>5 DEF Kept
<1>7. QED
  BY <1>4, <1>6

LEMMA MailStep == MailInv /\ [MailNext]_mailVars => MailInv'
<1> SUFFICES ASSUME MailInv, [MailNext]_mailVars PROVE MailInv'
  OBVIOUS
<1>1. IInv'
  BY SessionsBelow, InductiveStep DEF MailInv
<1>2. Tables' /\ Kept' /\ SearchMeans' /\ FetchMeans'
  <2>1. CASE Otherwise(Next)
    BY <2>1, OtherStep
  <2>2. ASSUME NEW s \in Sessions, Search(s) \/ Fetch(s) \/ Answered(s)
        PROVE  Tables' /\ Kept' /\ SearchMeans' /\ FetchMeans'
    BY <2>2, SearchStep, FetchStep, AnsweredStep
  <2>3. CASE UNCHANGED mailVars
    BY <2>3 DEF mailVars, vars, MailInv, Tables, Kept, Still, SearchMeans, FetchMeans
  <2>4. QED
    BY <2>1, <2>2, <2>3 DEF MailNext
<1>3. QED
  BY <1>1, <1>2 DEF MailInv

-----------------------------------------------------------------------------
(* What the invariant gives.                                               *)

\* FETCH and SEARCH add nothing to what the sessions below them do: all that is
\* proved of ImapSession holds between commands, too.
THEOREM CommandsAreSessions == MailSpec => Spec
<1>1. MailInit => Init
  BY DEF MailInit
<1>2. QED
  BY <1>1, SessionsBelow, PTL DEF MailSpec, Spec

\* The invariant holds in every reachable state.
THEOREM MailInvariance == MailSpec => []MailInv
BY MailInitInv, MailStep, PTL DEF MailSpec

\* Search answers with the messages the criteria select, by the meaning RFC 3501
\* gives them and as far as looking anywhere in an email can keep it, or fails
\* with an email it could not render: for criteria of any depth, and any mailbox.
THEOREM SearchAnswers == MailSpec => []SearchMeans
<1>1. MailInv => SearchMeans
  BY DEF MailInv
<1>2. QED
  BY <1>1, MailInvariance, PTL

\* Fetch sends the messages that the numbers name, each once and in order, or
\* stops at an email it could not render: for sets of any number of ranges.
THEOREM FetchAnswers == MailSpec => []FetchMeans
<1>1. MailInv => FetchMeans
  BY DEF MailInv
<1>2. QED
  BY <1>1, MailInvariance, PTL

\* The numbers of a SEARCH fetch what it found until the session unselects the
\* mailbox, over any number of refreshes and polls, except over a torn poll or
\* a repeated UIDVALIDITY.
THEOREM NumbersStayMeant == MailSpec => []FoundIsFetched
<1>1. MailInv => FoundIsFetched
  <2> SUFFICES ASSUME MailInv, NEW s \in Sessions \ torn, command[s] # None,
                      command[s].name = "FETCH", command[s].ok, found[s] # None,
                      command[s].ranges = Named(found[s].numbers)
               PROVE  {view[s].msgs[i] : i \in Range(command[s].sent)} = found[s].oids
    BY DEF FoundIsFetched
  <2>1. /\ view[s] # None /\ Still(s) /\ TypeOK
        /\ found[s].numbers \in SUBSET Nat /\ IsFiniteSet(found[s].numbers)
    BY DEF MailInv, Kept, IInv
  <2>2. Range(command[s].sent) = Denoted(Named(found[s].numbers), Len(view[s].msgs))
    BY DEF MailInv, FetchMeans, FetchMeant
  <2>3. DOMAIN view[s].msgs = 1 .. Len(view[s].msgs) /\ Len(view[s].msgs) \in Nat
    BY <2>1, ViewsAreSequences
  <2>4. Range(command[s].sent) = found[s].numbers
    <3>1. found[s].numbers \subseteq 1 .. Len(view[s].msgs)
      BY <2>1, <2>3 DEF Still
    <3>2. QED
      BY <2>1, <2>2, <2>3, <3>1, NamedMeans
  <2>5. QED
    BY <2>1, <2>4 DEF Still
<1>2. QED
  BY <1>1, MailInvariance, PTL
=============================================================================
