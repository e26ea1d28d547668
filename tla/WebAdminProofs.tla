---------------------------- MODULE WebAdminProofs ---------------------------
(***************************************************************************)
(* Proofs about WebAdmin, for any number of concurrent requests, login     *)
(* sessions, addresses and repositories, and any limit.                    *)
(***************************************************************************)
EXTENDS WebAdmin, FiniteSetTheorems, TLAPS

-----------------------------------------------------------------------------
(* The inductive invariant, part by part.                                  *)

\* A number names one flash, and those not yet given were never shown.
FlashIds ==
  /\ \A s, t \in Sessions :
       flashes[s] # None /\ flashes[t] # None /\ flashes[s].id = flashes[t].id => s = t
  /\ \A i \in 1 .. MaxFlashes : i > made => shown[i] = 0

\* What has been the password of a repository, as far as it has a row.
Honest(r, p) == <<r, p>> \in stored \/ account[r] = Gone

\* The password a row has now was stored.
RowStored == \A r \in Repos : HasRow(r) => <<r, account[r]>> \in stored

\* So was what a request is about to put into a flash; and what it rotates or
\* reveals has been added.
Sound(req) ==
  /\ req.step \in {"flash", "set"} => Honest(req.repo, req.password)
  /\ req.step = "access" => account[req.repo] # Unborn

RequestsSound == \A h \in Handlers : Sound(request[h])

-----------------------------------------------------------------------------
(* Type correctness.                                                       *)

LEMMA TypeInit == Init => TypeOK
  BY LimitAssumption, RowAssumption, BoundsAssumption
     DEF Init, TypeOK, RequestType, Idle

\* What a request holds at each of its steps.
LEMMA Shape ==
  ASSUME TypeOK, NEW h \in Handlers
  PROVE  /\ At(h, "verify") => request[h].address \in Addresses
         /\ request[h].step \in {"page", "pop", "admitted", "access", "flash", "set"}
              => request[h].session \in Sessions /\ request[h].repo \in Repos
         /\ request[h].step \in {"flash", "set"} => request[h].password \in 1 .. passwords
         /\ At(h, "access") => request[h].kind \in {"reveal", "rotate"}
         /\ At(h, "admitted") => request[h].kind \in Kinds
         /\ At(h, "page") =>
              request[h] = [step |-> "page", session |-> request[h].session,
                            repo |-> request[h].repo]
         /\ At(h, "flash") =>
              request[h] = [step |-> "flash", session |-> request[h].session,
                            repo |-> request[h].repo, password |-> request[h].password]
         /\ At(h, "admitted") =>
              request[h] = [step |-> "admitted", kind |-> request[h].kind,
                            session |-> request[h].session, repo |-> request[h].repo]
  BY DEF TypeOK, RequestType, At, Idle

\* The requests keep their type if the one that moves does.
LEMMA Moves ==
  ASSUME TypeOK, NEW h \in Handlers, NEW req, Become(h, req), passwords' \in Nat,
         passwords' >= passwords, req \in RequestType'
  PROVE  request' \in [Handlers -> RequestType']
<1>1. RequestType \subseteq RequestType'
  <2> SUFFICES ASSUME NEW x \in RequestType PROVE x \in RequestType'
    OBVIOUS
  <2>1. 1 .. passwords \subseteq 1 .. passwords'
    BY BoundsAssumption DEF TypeOK
  <2>2. [step : {"flash", "set"}, session : Sessions, repo : Repos, password : 1 .. passwords]
          \subseteq
        [step : {"flash", "set"}, session : Sessions, repo : Repos, password : 1 .. passwords']
    BY <2>1
  <2> QED
    BY <2>2 DEF RequestType
<1> QED
  BY <1>1 DEF TypeOK, Become

LEMMA DoneMoves ==
  ASSUME TypeOK, NEW h \in Handlers, Done(h), UNCHANGED passwords
  PROVE  request' \in [Handlers -> RequestType']
<1>1. Idle \in RequestType'
  BY DEF RequestType
<1>2. passwords' \in Nat /\ passwords' >= passwords
  BY BoundsAssumption DEF TypeOK
<1> QED
  BY <1>1, <1>2, Moves DEF Done

LEMMA CarryMoves ==
  ASSUME TypeOK, NEW h \in Handlers, NEW p \in 1 .. passwords', Carry(h, p),
         request[h].session \in Sessions, request[h].repo \in Repos,
         passwords' \in Nat, passwords' >= passwords
  PROVE  request' \in [Handlers -> RequestType']
<1> DEFINE req == [step |-> "flash", session |-> request[h].session,
                   repo |-> request[h].repo, password |-> p]
<1>1. req \in RequestType'
  BY DEF RequestType
<1>2. Become(h, req)
  BY DEF Carry
<1> QED
  BY <1>1, <1>2, Moves

LEMMA GoMoves ==
  ASSUME TypeOK, NEW h \in Handlers, NEW to, Go(h, to), UNCHANGED passwords,
         [request[h] EXCEPT !.step = to] \in RequestType
  PROVE  request' \in [Handlers -> RequestType']
<1>1. RequestType' = RequestType
  BY DEF RequestType, Idle, Kinds
<1>2. passwords' \in Nat /\ passwords' >= passwords
  BY BoundsAssumption DEF TypeOK
<1> QED
  BY <1>1, <1>2, Moves DEF Go

LEMMA TypeStep == TypeOK /\ [Next]_vars => TypeOK'
<1> SUFFICES ASSUME TypeOK, [Next]_vars
             PROVE  TypeOK'
  OBVIOUS
<1> USE BoundsAssumption
<1>0. passwords \in Nat /\ made \in Nat
  BY DEF TypeOK
<1>1. CASE UNCHANGED vars
  BY <1>1 DEF vars, TypeOK, RequestType, FlashType
<1>2. ASSUME NEW h \in Handlers, NEW a \in Addresses, CheckLimit(h, a)
      PROVE  TypeOK'
  <2>1. [step |-> "verify", address |-> a] \in RequestType'
    BY DEF RequestType
  <2>2. request' \in [Handlers -> RequestType']
    BY <1>0, <1>2, <2>1, Moves DEF CheckLimit, database
  <2> QED
    BY <1>2, <2>2 DEF CheckLimit, database, memory, TypeOK, FlashType
<1>3. ASSUME NEW h \in Handlers, NEW s \in Sessions, NEW r \in Repos, OpenPage(h, s, r)
      PROVE  TypeOK'
  <2>1. [step |-> "page", session |-> s, repo |-> r] \in RequestType'
    BY DEF RequestType
  <2>2. request' \in [Handlers -> RequestType']
    BY <1>0, <1>3, <2>1, Moves DEF OpenPage, database
  <2> QED
    BY <1>3, <2>2 DEF OpenPage, database, memory, TypeOK, FlashType
<1>4. ASSUME NEW h \in Handlers, NEW s \in Sessions, NEW r \in Repos, NEW k \in Kinds,
             Admit(h, s, k, r)
      PROVE  TypeOK'
  <2>1. [step |-> "admitted", kind |-> k, session |-> s, repo |-> r] \in RequestType'
    BY DEF RequestType
  <2>2. request' \in [Handlers -> RequestType']
    BY <1>0, <1>4, <2>1, Moves DEF Admit, database
  <2> QED
    BY <1>4, <2>2 DEF Admit, database, memory, TypeOK, FlashType
<1>5. ASSUME NEW h \in Handlers, RecordAttempt(h)
      PROVE  TypeOK'
  <2>1. request' \in [Handlers -> RequestType']
    BY <1>5, DoneMoves DEF RecordAttempt, database
  <2> QED
    BY <1>5, <2>1, Shape DEF RecordAttempt, database, memory, TypeOK, FlashType
<1>6. ASSUME NEW h \in Handlers, CreateSession(h)
      PROVE  TypeOK'
  <2>1. request' \in [Handlers -> RequestType']
    BY <1>6, DoneMoves DEF CreateSession
  <2> QED
    BY <1>6, <2>1 DEF CreateSession, memory, TypeOK, FlashType
<1>7. ASSUME NEW h \in Handlers, DeleteSession(h)
      PROVE  TypeOK'
  <2>1. request' \in [Handlers -> RequestType']
    BY <1>7, DoneMoves DEF DeleteSession
  <2> QED
    BY <1>7, <2>1 DEF DeleteSession, memory, TypeOK, FlashType
<1>8. ASSUME NEW h \in Handlers, AddRepository(h)
      PROVE  TypeOK'
  <2>1. /\ request[h].session \in Sessions /\ request[h].repo \in Repos
        /\ passwords' = passwords + 1 /\ passwords' \in 0 .. MaxPasswords
    BY <1>0, <1>8, Shape DEF AddRepository, Admitted, At, Generate, TypeOK
  <2>2. request' \in [Handlers -> RequestType']
    BY <1>0, <1>8, <2>1, CarryMoves DEF AddRepository
  <2> QED
    BY <1>0, <1>8, <2>1, <2>2 DEF AddRepository, memory, TypeOK, FlashType
<1>9. ASSUME NEW h \in Handlers, DeleteRepository(h)
      PROVE  TypeOK'
  <2>1. request' \in [Handlers -> RequestType']
    BY <1>9, DoneMoves DEF DeleteRepository
  <2> QED
    BY <1>9, <2>1 DEF DeleteRepository, memory, TypeOK, FlashType
<1>10. ASSUME NEW h \in Handlers, FindRepository(h)
       PROVE  TypeOK'
  <2>0. /\ request[h].kind \in {"reveal", "rotate"}
        /\ request[h].session \in Sessions /\ request[h].repo \in Repos
        /\ request[h] = [step |-> "admitted", kind |-> request[h].kind,
                          session |-> request[h].session, repo |-> request[h].repo]
    BY <1>10, Shape DEF FindRepository, Admitted, At
  <2>a. [request[h] EXCEPT !.step = "access"] =
          [step |-> "access", kind |-> request[h].kind,
           session |-> request[h].session, repo |-> request[h].repo]
    BY <2>0
  <2>b. [step |-> "access", kind |-> request[h].kind,
         session |-> request[h].session, repo |-> request[h].repo] \in RequestType
    BY <2>0 DEF RequestType
  <2>1. [request[h] EXCEPT !.step = "access"] \in RequestType
    BY <2>a, <2>b
  <2>2. request' \in [Handlers -> RequestType']
    BY <1>10, <2>1, GoMoves DEF FindRepository, database
  <2> QED
    BY <1>10, <2>2 DEF FindRepository, database, memory, TypeOK, FlashType
<1>11. ASSUME NEW h \in Handlers, Reveal(h)
       PROVE  TypeOK'
  <2>1. /\ request[h].session \in Sessions /\ request[h].repo \in Repos
        /\ account[request[h].repo] \in 1 .. passwords'
    BY <1>11, Shape DEF Reveal, At, HasRow, TypeOK, database
  <2>2. request' \in [Handlers -> RequestType']
    BY <1>0, <1>11, <2>1, CarryMoves DEF Reveal, database
  <2> QED
    BY <1>11, <2>2 DEF Reveal, database, memory, TypeOK, FlashType
<1>12. ASSUME NEW h \in Handlers, Rotate(h)
       PROVE  TypeOK'
  <2>1. /\ request[h].session \in Sessions /\ request[h].repo \in Repos
        /\ passwords' = passwords + 1 /\ passwords' \in 0 .. MaxPasswords
    BY <1>0, <1>12, Shape DEF Rotate, At, Generate, TypeOK
  <2>2. request' \in [Handlers -> RequestType']
    BY <1>0, <1>12, <2>1, CarryMoves DEF Rotate
  <2>3. account' \in [Repos -> {Unborn, Gone} \cup (1 .. passwords')]
        /\ stored' \subseteq Repos \X (1 .. passwords')
    <3>1. 1 .. passwords \subseteq 1 .. passwords' /\ passwords' \in 1 .. passwords'
      BY <1>0, <2>1
    <3>2. CASE HasRow(request[h].repo)
      BY <1>12, <2>1, <3>1, <3>2 DEF Rotate, TypeOK
    <3>3. CASE ~HasRow(request[h].repo)
      BY <1>12, <3>1, <3>3 DEF Rotate, TypeOK
    <3> QED
      BY <3>2, <3>3
  <2> QED
    BY <1>0, <1>12, <2>1, <2>2, <2>3 DEF Rotate, memory, TypeOK, FlashType
<1>13. ASSUME NEW h \in Handlers, Refuse(h)
       PROVE  TypeOK'
  <2>1. request' \in [Handlers -> RequestType']
    BY <1>13, DoneMoves DEF Refuse, database
  <2> QED
    BY <1>13, <2>1 DEF Refuse, database, memory, TypeOK, FlashType
<1>14. ASSUME NEW h \in Handlers, FindSession(h)
       PROVE  TypeOK'
  <2>1. CASE At(h, "flash") /\ Go(h, "set")
    <3>0. /\ request[h].session \in Sessions /\ request[h].repo \in Repos
          /\ request[h].password \in 1 .. passwords
          /\ request[h] = [step |-> "flash", session |-> request[h].session,
                            repo |-> request[h].repo, password |-> request[h].password]
      BY <2>1, Shape DEF At
    <3>a. [request[h] EXCEPT !.step = "set"] =
            [step |-> "set", session |-> request[h].session,
             repo |-> request[h].repo, password |-> request[h].password]
      BY <3>0
    <3>b. [step |-> "set", session |-> request[h].session,
           repo |-> request[h].repo, password |-> request[h].password] \in RequestType
      BY <3>0 DEF RequestType
    <3>1. [request[h] EXCEPT !.step = "set"] \in RequestType
      BY <3>a, <3>b
    <3> QED
      BY <1>14, <2>1, <3>1, GoMoves DEF FindSession, database, memory, TypeOK, FlashType
  <2>2. CASE At(h, "page") /\ Go(h, "pop")
    <3>0. /\ request[h].session \in Sessions /\ request[h].repo \in Repos
          /\ request[h] = [step |-> "page", session |-> request[h].session,
                            repo |-> request[h].repo]
      BY <2>2, Shape DEF At
    <3>a. [request[h] EXCEPT !.step = "pop"] =
            [step |-> "pop", session |-> request[h].session, repo |-> request[h].repo]
      BY <3>0
    <3>b. [step |-> "pop", session |-> request[h].session, repo |-> request[h].repo]
            \in RequestType
      BY <3>0 DEF RequestType
    <3>1. [request[h] EXCEPT !.step = "pop"] \in RequestType
      BY <3>a, <3>b
    <3> QED
      BY <1>14, <2>2, <3>1, GoMoves DEF FindSession, database, memory, TypeOK, FlashType
  <2> QED
    BY <1>14, <2>1, <2>2 DEF FindSession
<1>15. ASSUME NEW h \in Handlers, NoSession(h)
       PROVE  TypeOK'
  <2>1. request' \in [Handlers -> RequestType']
    BY <1>15, DoneMoves DEF NoSession, database
  <2> QED
    BY <1>15, <2>1 DEF NoSession, database, memory, TypeOK, FlashType
<1>16. ASSUME NEW h \in Handlers, SetFlash(h)
       PROVE  TypeOK'
  <2>1. /\ request[h].session \in Sessions /\ request[h].repo \in Repos
        /\ request[h].password \in 1 .. passwords
        /\ made' = made + 1 /\ made' \in 0 .. MaxFlashes
    BY <1>0, <1>16, Shape DEF SetFlash, At, TypeOK
  <2>2. request' \in [Handlers -> RequestType']
    BY <1>16, DoneMoves DEF SetFlash, database
  <2>3. FlashType \subseteq FlashType'
    BY <1>0, <1>16, <2>1 DEF SetFlash, FlashType, database
  <2>4. Flash(request[h].repo, request[h].password, made') \in FlashType'
    BY <1>0, <1>16, <2>1 DEF SetFlash, Flash, FlashType, database
  <2>5. Swept \in [Sessions -> FlashType' \cup {None}]
    BY <2>3 DEF Swept, TypeOK
  <2>6. flashes' \in [Sessions -> FlashType' \cup {None}]
    BY <1>16, <2>4, <2>5 DEF SetFlash
  <2> QED
    BY <1>16, <2>1, <2>2, <2>6 DEF SetFlash, database, TypeOK
<1>17. ASSUME NEW h \in Handlers, PopFlash(h)
       PROVE  TypeOK'
  <2>1. request' \in [Handlers -> RequestType']
    BY <1>17, DoneMoves DEF PopFlash, database
  <2>2. flashes' \in [Sessions -> FlashType' \cup {None}]
    BY <1>17 DEF PopFlash, database, TypeOK, FlashType
  <2>3. shown' \in [1 .. MaxFlashes -> Nat]
    <3> DEFINE f == flashes[request[h].session]
    <3>1. request[h].session \in Sessions
      BY <1>17, Shape DEF PopFlash, At
    <3>2. CASE f # None /\ f.fresh
      <4>1. f.id \in 1 .. MaxFlashes
        BY <3>1, <3>2 DEF TypeOK, FlashType
      <4> QED
        BY <1>17, <3>2, <4>1 DEF PopFlash, TypeOK
    <3>3. CASE ~(f # None /\ f.fresh)
      BY <1>17, <3>3 DEF PopFlash, TypeOK
    <3> QED
      BY <3>2, <3>3
  <2> QED
    BY <1>17, <2>1, <2>2, <2>3 DEF PopFlash, database, TypeOK
<1>18. ASSUME NEW a \in Addresses, AttemptAges(a)
       PROVE  TypeOK'
  BY <1>18 DEF AttemptAges, database, memory, TypeOK, FlashType, RequestType
<1>19. ASSUME NEW s \in Sessions, FlashAges(s)
       PROVE  TypeOK'
  <2>1. flashes[s] \in FlashType
    BY <1>19 DEF FlashAges, TypeOK
  <2>2. [flashes[s] EXCEPT !.fresh = FALSE] \in FlashType
    BY <2>1 DEF FlashType
  <2>3. flashes' \in [Sessions -> FlashType \cup {None}]
    BY <1>19, <2>2 DEF FlashAges, TypeOK
  <2> QED
    BY <1>19, <2>3 DEF FlashAges, database, TypeOK, FlashType, RequestType
<1>20. ASSUME NEW s \in Sessions, SessionExpires(s)
       PROVE  TypeOK'
  BY <1>20 DEF SessionExpires, memory, TypeOK, FlashType, RequestType
<1>21. CASE Restart
  BY <1>21 DEF Restart, database, TypeOK, FlashType, RequestType, Idle
<1> QED
  BY <1>1, <1>2, <1>3, <1>4, <1>5, <1>6, <1>7, <1>8, <1>9, <1>10, <1>11, <1>12, <1>13,
     <1>14, <1>15, <1>16, <1>17, <1>18, <1>19, <1>20, <1>21 DEF Next

\* Every reachable state has its type.
THEOREM TypeCorrect == Spec => []TypeOK
  BY TypeInit, TypeStep, PTL DEF Spec

-----------------------------------------------------------------------------
(* The rate limit.                                                         *)

LEMMA CheckingFinite ==
  ASSUME NEW a
  PROVE  /\ IsFiniteSet(Checking(a)) /\ Cardinality(Checking(a)) \in Nat
         /\ Cardinality(Handlers) \in Nat
         /\ Cardinality(Checking(a)) <= Cardinality(Handlers)
<1>1. Checking(a) \subseteq Handlers
  BY DEF Checking
<1> QED
  BY <1>1, HandlersAssumption, FS_Subset, FS_CardinalityType

LEMMA CheckingFiniteNext ==
  ASSUME NEW a
  PROVE  /\ Cardinality(Checking(a)') \in Nat
         /\ Cardinality(Checking(a)') <= Cardinality(Handlers)
<1>1. Checking(a)' \subseteq Handlers
  BY DEF Checking
<1> QED
  BY <1>1, HandlersAssumption, FS_Subset, FS_CardinalityType

\* An address's failures within the window and the checks of it under way, which
\* may become failures, do not become more together ...
Falls(a) ==
  attempts'[a] + Cardinality(Checking(a)') <= attempts[a] + Cardinality(Checking(a))

\* ... but by a check that begins, below the limit.
Opens(a) == attempts[a] < MaxAttempts /\ attempts'[a] = attempts[a]

\* Neither a new failure nor a new check.
LEMMA LimiterQuiet ==
  ASSUME TypeOK, NEW a \in Addresses, attempts'[a] \in Nat,
         attempts'[a] <= attempts[a], Checking(a)' \subseteq Checking(a)
  PROVE  Falls(a)
<1>1. Cardinality(Checking(a)') <= Cardinality(Checking(a))
  BY CheckingFinite, FS_Subset
<1>2. attempts[a] \in Nat
  BY DEF TypeOK
<1> QED
  BY <1>1, <1>2, CheckingFinite, CheckingFiniteNext DEF Falls

LEMMA NotChecking ==
  ASSUME TypeOK, NEW h \in Handlers, NEW req, Become(h, req), req.step # "verify", NEW a
  PROVE  Checking(a)' \subseteq Checking(a)
  BY DEF TypeOK, Become, Checking, At

\* A request that goes on from a later step.
LEMMA NotCheckingGo ==
  ASSUME TypeOK, NEW h \in Handlers, NEW to, Go(h, to), to # "verify",
         request[h].step \in {"admitted", "flash", "page"}, NEW a
  PROVE  Checking(a)' \subseteq Checking(a)
<1> DEFINE req == [request[h] EXCEPT !.step = to]
<1>1. request[h] = [step |-> request[h].step, session |-> request[h].session,
                    repo |-> request[h].repo]
      \/ request[h] = [step |-> request[h].step, kind |-> request[h].kind,
                       session |-> request[h].session, repo |-> request[h].repo]
      \/ request[h] = [step |-> request[h].step, session |-> request[h].session,
                       repo |-> request[h].repo, password |-> request[h].password]
  BY Shape DEF At
<1>2. req.step # "verify"
  BY <1>1
<1> QED
  BY <1>2, NotChecking DEF Go

LEMMA NotCheckingDone ==
  ASSUME TypeOK, NEW h \in Handlers, Done(h), NEW a
  PROVE  Checking(a)' \subseteq Checking(a)
  BY NotChecking DEF Done, Idle

LEMMA NotCheckingCarry ==
  ASSUME TypeOK, NEW h \in Handlers, NEW p, Carry(h, p), NEW a
  PROVE  Checking(a)' \subseteq Checking(a)
  BY NotChecking DEF Carry

LEMMA LimiterInit == Init => LimiterBound
<1> SUFFICES ASSUME Init, NEW a \in Addresses
             PROVE  attempts[a] + Cardinality(Checking(a))
                      <= MaxAttempts - 1 + Cardinality(Handlers)
  BY DEF LimiterBound
<1>1. attempts[a] = 0
  BY DEF Init
<1> QED
  BY <1>1, CheckingFinite, LimitAssumption

LEMMA PressureStep ==
  ASSUME TypeOK, [Next]_vars, NEW a \in Addresses PROVE Falls(a) \/ Opens(a)
<1>0. attempts[a] \in Nat /\ attempts \in [Addresses -> Nat]
  BY DEF TypeOK
<1>1. ASSUME UNCHANGED attempts, Checking(a)' \subseteq Checking(a)
      PROVE  Falls(a)
  BY <1>0, <1>1, LimiterQuiet
<1>2. CASE UNCHANGED vars
  BY <1>1, <1>2 DEF vars, Checking, At
<1>3. ASSUME NEW h \in Handlers, NEW b \in Addresses, CheckLimit(h, b)
      PROVE  Falls(a) \/ Opens(a)
  <2>1. CASE a = b
    BY <1>3, <2>1 DEF CheckLimit, Opens
  <2>2. CASE a # b
    <3>1. Checking(a)' \subseteq Checking(a)
      BY <1>3, <2>2 DEF CheckLimit, Checking, At, Become, TypeOK
    <3> QED
      BY <1>1, <1>3, <3>1 DEF CheckLimit
  <2> QED
    BY <2>1, <2>2
<1>4. ASSUME NEW h \in Handlers, RecordAttempt(h)
      PROVE  Falls(a)
  <2>1. Checking(a)' \subseteq Checking(a)
    BY <1>4, NotCheckingDone DEF RecordAttempt
  <2>2. CASE request[h].address = a
    <3>1. h \in Checking(a) /\ Checking(a)' \subseteq Checking(a) \ {h}
      BY <1>4, <2>1, <2>2 DEF RecordAttempt, Checking, At, Done, Become, Idle, TypeOK
    <3>2. Cardinality(Checking(a)') <= Cardinality(Checking(a)) - 1
      <4>1. IsFiniteSet(Checking(a)) /\ Cardinality(Checking(a)) \in Nat
        BY CheckingFinite
      <4>2. /\ IsFiniteSet(Checking(a) \ {h})
            /\ Cardinality(Checking(a) \ {h}) = Cardinality(Checking(a)) - 1
        BY <3>1, <4>1, FS_RemoveElement
      <4>3. Cardinality(Checking(a)') <= Cardinality(Checking(a) \ {h})
        BY <3>1, <4>2, FS_Subset
      <4> QED
        BY <4>2, <4>3
    <3>3. attempts'[a] = attempts[a] + 1
      BY <1>0, <1>4, <2>2 DEF RecordAttempt
    <3> QED
      BY <1>0, <3>2, <3>3, CheckingFinite, CheckingFiniteNext DEF Falls
  <2>3. CASE request[h].address # a
    <3>1. attempts'[a] = attempts[a]
      BY <1>0, <1>4, <2>3 DEF RecordAttempt
    <3> QED
      BY <1>0, <2>1, <3>1, LimiterQuiet
  <2> QED
    BY <2>2, <2>3
<1>5. ASSUME NEW h \in Handlers,
             \/ CreateSession(h) \/ DeleteSession(h) \/ DeleteRepository(h) \/ Refuse(h)
             \/ NoSession(h) \/ SetFlash(h) \/ PopFlash(h)
      PROVE  Falls(a)
  <2>1. Done(h) /\ UNCHANGED attempts
    BY <1>5 DEF CreateSession, DeleteSession, DeleteRepository, Refuse, NoSession, SetFlash,
                PopFlash
  <2> QED
    BY <1>1, <2>1, NotCheckingDone
<1>6. ASSUME NEW h \in Handlers, AddRepository(h) \/ Reveal(h) \/ Rotate(h)
      PROVE  Falls(a)
  <2>1. (\E p : Carry(h, p)) /\ UNCHANGED attempts
    BY <1>6 DEF AddRepository, Reveal, Rotate
  <2> QED
    BY <1>1, <2>1, NotCheckingCarry
<1>7. ASSUME NEW h \in Handlers, FindRepository(h) \/ FindSession(h)
      PROVE  Falls(a)
  <2>1. /\ UNCHANGED attempts /\ request[h].step \in {"admitted", "flash", "page"}
        /\ Go(h, "access") \/ Go(h, "set") \/ Go(h, "pop")
    BY <1>7 DEF FindRepository, FindSession, Admitted, At
  <2> QED
    BY <1>1, <2>1, NotCheckingGo
<1>8. ASSUME NEW h \in Handlers, NEW s \in Sessions, NEW r \in Repos,
             OpenPage(h, s, r) \/ \E kind \in Kinds : Admit(h, s, kind, r)
      PROVE  Falls(a)
  BY <1>1, <1>8, NotChecking DEF OpenPage, Admit
<1>9. ASSUME NEW b \in Addresses, AttemptAges(b)
      PROVE  Falls(a)
  <2>1. Checking(a)' \subseteq Checking(a)
    BY <1>9 DEF AttemptAges, Checking, At
  <2>2. attempts'[a] \in Nat /\ attempts'[a] <= attempts[a]
    BY <1>0, <1>9 DEF AttemptAges
  <2> QED
    BY <2>1, <2>2, LimiterQuiet
<1>10. ASSUME NEW s \in Sessions, FlashAges(s) \/ SessionExpires(s)
       PROVE  Falls(a)
  BY <1>1, <1>10 DEF FlashAges, SessionExpires, Checking, At
<1>11. CASE Restart
  <2>1. Checking(a)' \subseteq Checking(a)
    BY <1>11 DEF Restart, Checking, At, Idle
  <2>2. attempts'[a] = 0
    BY <1>11 DEF Restart
  <2> QED
    BY <1>0, <2>1, <2>2, LimiterQuiet
<1> QED
  BY <1>2, <1>3, <1>4, <1>5, <1>6, <1>7, <1>8, <1>9, <1>10, <1>11 DEF Next

LEMMA LimiterStep == TypeOK /\ LimiterBound /\ [Next]_vars => LimiterBound'
<1> SUFFICES ASSUME TypeOK, LimiterBound, [Next]_vars, NEW a \in Addresses
             PROVE  attempts'[a] + Cardinality(Checking(a)')
                      <= MaxAttempts - 1 + Cardinality(Handlers)
  BY DEF LimiterBound
<1>1. attempts[a] \in Nat /\ attempts'[a] \in Nat /\ MaxAttempts \in Nat
  BY TypeStep, LimitAssumption DEF TypeOK
<1>2. attempts[a] + Cardinality(Checking(a)) <= MaxAttempts - 1 + Cardinality(Handlers)
  BY DEF LimiterBound
<1>3. Falls(a) \/ Opens(a)
  BY PressureStep
<1> QED
  BY <1>1, <1>2, <1>3, CheckingFinite, CheckingFiniteNext DEF Falls, Opens

\* Failures within the window and checks under way exceed the limit by no
\* more than the requests served at a time.
THEOREM LimiterHolds == Spec => []LimiterBound
<1>1. Init => TypeOK /\ LimiterBound
  BY TypeInit, LimiterInit
<1>2. TypeOK /\ LimiterBound /\ [Next]_vars => (TypeOK /\ LimiterBound)'
  BY TypeStep, LimiterStep
<1> QED
  BY <1>1, <1>2, PTL DEF Spec

\* What holds a lockout up.
Pressure(a) == attempts[a] + Cardinality(Checking(a))

\* The safe half of LockoutEnds: tries of an address that is locked out do not
\* prolong it.  What holds the lockout up only falls, whatever is tried, and
\* it falls when an attempt leaves the window.
Wanes(a) ==
  /\ attempts[a] >= MaxAttempts => Pressure(a)' <= Pressure(a)
  /\ AttemptAges(a) => Pressure(a)' < Pressure(a)

THEOREM LockoutFalls == Spec => [][\A a \in Addresses : Wanes(a)]_vars
<1>1. TypeOK /\ [Next]_vars => [\A a \in Addresses : Wanes(a)]_vars
  <2> SUFFICES ASSUME TypeOK, Next, NEW a \in Addresses PROVE Wanes(a)
    OBVIOUS
  <2>1. attempts \in [Addresses -> Nat] /\ MaxAttempts \in Nat
    BY LimitAssumption DEF TypeOK
  <2>2. attempts[a] >= MaxAttempts => Falls(a)
    BY <2>1, PressureStep DEF Opens
  <2>3. ASSUME AttemptAges(a) PROVE Pressure(a)' < Pressure(a)
    <3>1. attempts[a] > 0 /\ attempts'[a] = attempts[a] - 1
      BY <2>1, <2>3 DEF AttemptAges
    <3>2. Checking(a)' = Checking(a)
      BY <2>3 DEF AttemptAges, Checking, At
    <3> QED
      BY <2>1, <3>1, <3>2, CheckingFinite DEF Pressure
  <2> QED
    BY <2>2, <2>3 DEF Wanes, Pressure, Falls
<1> QED
  BY <1>1, TypeCorrect, PTL DEF Spec

-----------------------------------------------------------------------------
(* Passwords.                                                              *)

CredentialInv == RowStored /\ RequestsSound /\ PasswordStored

\* Passwords are not forgotten, and no row comes back.
Advance ==
  /\ stored \subseteq stored'
  /\ \A r \in Repos : /\ account[r] = Gone => account'[r] = Gone
                      /\ account[r] # Unborn => account'[r] # Unborn

\* PasswordStored with the name the proofs use.
LEMMA FlashHonest ==
  PasswordStored <=> \A s \in Sessions :
                       flashes[s] # None => Honest(flashes[s].repo, flashes[s].password)
  BY DEF PasswordStored, Honest

\* A step that changes no row, or the rows as Advance says, and makes no
\* request unsound and no flash dishonest.
LEMMA CredentialFrame ==
  ASSUME TypeOK, CredentialInv, Advance, RowStored',
         \A g \in Handlers : request'[g] = request[g] \/ Sound(request[g])',
         \A s \in Sessions :
           \/ flashes'[s] = None \/ flashes'[s] = flashes[s]
           \/ Honest(flashes[s].repo, flashes[s].password)'
  PROVE  CredentialInv'
<1>1. ASSUME NEW r \in Repos, NEW p, Honest(r, p)
      PROVE  <<r, p>> \in stored' \/ account'[r] = Gone
  BY <1>1 DEF Honest, Advance
<1>2. ASSUME NEW g \in Handlers
      PROVE  Sound(request[g])'
  <2>1. CASE request'[g] = request[g]
    <3>1. Sound(request[g])
      BY DEF CredentialInv, RequestsSound
    <3>2. request[g].step \in {"flash", "set", "access"} => request[g].repo \in Repos
      BY Shape
    <3> QED
      BY <1>1, <2>1, <3>1, <3>2 DEF Sound, Honest, Advance
  <2> QED
    BY <2>1
<1>3. ASSUME NEW s \in Sessions, flashes'[s] # None
      PROVE  Honest(flashes[s].repo, flashes[s].password)'
  <2>1. CASE flashes'[s] = flashes[s]
    <3>1. flashes[s].repo \in Repos /\ Honest(flashes[s].repo, flashes[s].password)
      BY <1>3, <2>1, FlashHonest DEF TypeOK, FlashType, CredentialInv
    <3> QED
      BY <1>1, <2>1, <3>1 DEF Honest
  <2> QED
    BY <1>3, <2>1
<1>4. RequestsSound'
  BY <1>2 DEF RequestsSound
<1>5. PasswordStored'
  BY <1>3 DEF PasswordStored, Honest
<1> QED
  BY <1>4, <1>5 DEF CredentialInv

\* Rows that stay as they are.
LEMMA RowsQuiet ==
  ASSUME CredentialInv, UNCHANGED <<account, stored>>
  PROVE  Advance /\ RowStored'
  BY DEF CredentialInv, RowStored, HasRow, Advance

\* One request moves, the rows and the flashes stay.
LEMMA CredentialMoves ==
  ASSUME TypeOK, CredentialInv, UNCHANGED <<account, stored, flashes>>,
         NEW h \in Handlers, NEW req, Become(h, req), Sound(req)
  PROVE  CredentialInv'
<1>1. Advance /\ RowStored'
  BY RowsQuiet
<1>2. \A g \in Handlers : request'[g] = request[g] \/ Sound(request[g])'
  BY DEF TypeOK, Become, Sound, Honest
<1> QED
  BY <1>1, <1>2, CredentialFrame

LEMMA CredentialInit == Init => CredentialInv
  BY DEF Init, CredentialInv, RowStored, RequestsSound, Sound, PasswordStored, HasRow, Idle

LEMMA CredentialStep == TypeOK /\ CredentialInv /\ [Next]_vars => CredentialInv'
<1> SUFFICES ASSUME TypeOK, CredentialInv, [Next]_vars
             PROVE  CredentialInv'
  OBVIOUS
<1>1. CASE UNCHANGED vars
  BY <1>1, RowsQuiet, CredentialFrame DEF vars
<1>2. ASSUME NEW h \in Handlers, NEW a \in Addresses, CheckLimit(h, a)
      PROVE  CredentialInv'
  <2>1. Sound([step |-> "verify", address |-> a])
    BY DEF Sound
  <2> QED
    BY <1>2, <2>1, CredentialMoves DEF CheckLimit, database, memory
<1>3. ASSUME NEW h \in Handlers, NEW s \in Sessions, NEW r \in Repos, OpenPage(h, s, r)
      PROVE  CredentialInv'
  <2>1. Sound([step |-> "page", session |-> s, repo |-> r])
    BY DEF Sound
  <2> QED
    BY <1>3, <2>1, CredentialMoves DEF OpenPage, database, memory
<1>4. ASSUME NEW h \in Handlers, NEW s \in Sessions, NEW r \in Repos, NEW k \in Kinds,
             Admit(h, s, k, r)
      PROVE  CredentialInv'
  <2>1. Sound([step |-> "admitted", kind |-> k, session |-> s, repo |-> r])
    BY DEF Sound
  <2> QED
    BY <1>4, <2>1, CredentialMoves DEF Admit, database, memory
<1>5. ASSUME NEW h \in Handlers,
             \/ RecordAttempt(h) \/ CreateSession(h) \/ DeleteSession(h) \/ Refuse(h)
             \/ NoSession(h)
      PROVE  CredentialInv'
  <2>1. Become(h, Idle) /\ UNCHANGED <<account, stored, flashes>>
    BY <1>5 DEF RecordAttempt, CreateSession, DeleteSession, Refuse, NoSession, Done, database,
                memory
  <2>2. Sound(Idle)
    BY DEF Sound, Idle
  <2> QED
    BY <2>1, <2>2, CredentialMoves
<1>6. ASSUME NEW h \in Handlers, FindRepository(h)
      PROVE  CredentialInv'
  <2> DEFINE req == [request[h] EXCEPT !.step = "access"]
  <2>1. request[h] = [step |-> "admitted", kind |-> request[h].kind,
                      session |-> request[h].session, repo |-> request[h].repo]
    BY <1>6, Shape DEF FindRepository, Admitted, At
  <2>2. req.step = "access" /\ req.repo = request[h].repo
    BY <2>1
  <2>3. Sound(req)
    BY <1>6, <2>2 DEF FindRepository, HasRow, Sound
  <2> QED
    BY <1>6, <2>3, CredentialMoves DEF FindRepository, Go, database, memory
<1>7. ASSUME NEW h \in Handlers, FindSession(h)
      PROVE  CredentialInv'
  <2>1. CASE At(h, "flash") /\ Go(h, "set")
    <3> DEFINE req == [request[h] EXCEPT !.step = "set"]
    <3>1. request[h] = [step |-> "flash", session |-> request[h].session,
                        repo |-> request[h].repo, password |-> request[h].password]
      BY <2>1, Shape DEF At
    <3>2. req.step = "set" /\ req.repo = request[h].repo /\ req.password = request[h].password
      BY <3>1
    <3>3. Honest(request[h].repo, request[h].password)
      BY <2>1 DEF CredentialInv, RequestsSound, Sound, At
    <3>4. Sound(req)
      BY <3>2, <3>3 DEF Sound
    <3> QED
      BY <1>7, <2>1, <3>4, CredentialMoves DEF FindSession, Go, database, memory
  <2>2. CASE At(h, "page") /\ Go(h, "pop")
    <3> DEFINE req == [request[h] EXCEPT !.step = "pop"]
    <3>1. request[h] = [step |-> "page", session |-> request[h].session,
                        repo |-> request[h].repo]
      BY <2>2, Shape DEF At
    <3>2. req.step = "pop"
      BY <3>1
    <3>3. Sound(req)
      BY <3>2 DEF Sound
    <3> QED
      BY <1>7, <2>2, <3>3, CredentialMoves DEF FindSession, Go, database, memory
  <2> QED
    BY <1>7, <2>1, <2>2 DEF FindSession
<1>8. ASSUME NEW h \in Handlers, Reveal(h)
      PROVE  CredentialInv'
  <2> DEFINE req == [step |-> "flash", session |-> request[h].session,
                     repo |-> request[h].repo, password |-> account[request[h].repo]]
  <2>1. request[h].repo \in Repos
    BY <1>8, Shape DEF Reveal, At
  <2>2. Sound(req)
    BY <1>8, <2>1 DEF Reveal, CredentialInv, RowStored, Honest, Sound
  <2>3. Become(h, req)
    BY <1>8 DEF Reveal, Carry
  <2> QED
    BY <1>8, <2>2, <2>3, CredentialMoves DEF Reveal, database, memory
<1>9. ASSUME NEW h \in Handlers, AddRepository(h) \/ Rotate(h)
      PROVE  CredentialInv'
  <2> DEFINE r == request[h].repo
             p == passwords'
  <2>1. r \in Repos /\ UNCHANGED flashes /\ Carry(h, p) /\ passwords' = passwords + 1
    BY <1>9, Shape DEF AddRepository, Rotate, Admitted, At, memory, Generate
  <2>2. \/ UNCHANGED <<account, stored>> /\ account[r] = Gone
        \/ /\ account[r] # Gone
           /\ account' = [account EXCEPT ![r] = p] /\ stored' = stored \cup {<<r, p>>}
    <3>1. CASE AddRepository(h)
      BY <3>1, RowAssumption DEF AddRepository
    <3>2. CASE Rotate(h)
      <4>1. account[r] # Unborn
        BY <3>2 DEF CredentialInv, RequestsSound, Sound, Rotate, At
      <4> QED
        BY <3>2, <4>1 DEF Rotate, HasRow
    <3> QED
      BY <1>9, <3>1, <3>2
  <2>3. p \in Nat /\ p \notin {Unborn, Gone}
    <3>1. passwords \in Nat
      BY BoundsAssumption DEF TypeOK
    <3>2. p \in Nat
      BY <2>1, <3>1
    <3> QED
      BY <3>2, RowAssumption
  <2>4. Advance /\ RowStored'
    <3>1. CASE UNCHANGED <<account, stored>>
      BY <3>1, RowsQuiet
    <3>2. CASE /\ account[r] # Gone
               /\ account' = [account EXCEPT ![r] = p] /\ stored' = stored \cup {<<r, p>>}
      BY <2>1, <2>3, <3>2 DEF CredentialInv, RowStored, HasRow, Advance, TypeOK
    <3> QED
      BY <2>2, <3>1, <3>2
  <2>5. <<r, p>> \in stored' \/ account'[r] = Gone
    BY <2>2
  <2>6. ASSUME NEW g \in Handlers
        PROVE  request'[g] = request[g] \/ Sound(request[g])'
    <3>1. CASE g = h
      <4>1. /\ request'[h].step = "flash" /\ request'[h].repo = r
            /\ request'[h].password = p
        BY <2>1 DEF Carry, Become, TypeOK
      <4> QED
        BY <2>5, <3>1, <4>1 DEF Sound, Honest
    <3>2. CASE g # h
      BY <2>1, <3>2 DEF Carry, Become, TypeOK
    <3> QED
      BY <3>1, <3>2
  <2> QED
    BY <2>1, <2>4, <2>6, CredentialFrame
<1>10. ASSUME NEW h \in Handlers, DeleteRepository(h)
       PROVE  CredentialInv'
  <2>1. Advance /\ RowStored'
    BY <1>10, RowAssumption
       DEF DeleteRepository, CredentialInv, RowStored, HasRow, Advance, TypeOK
  <2>2. \A g \in Handlers : request'[g] = request[g] \/ Sound(request[g])'
    BY <1>10 DEF DeleteRepository, Done, Become, Idle, Sound, TypeOK
  <2> QED
    BY <1>10, <2>1, <2>2, CredentialFrame DEF DeleteRepository, memory
<1>11. ASSUME NEW h \in Handlers, SetFlash(h)
       PROVE  CredentialInv'
  <2>1. Advance /\ RowStored'
    BY <1>11, RowsQuiet DEF SetFlash, database
  <2>2. \A g \in Handlers : request'[g] = request[g] \/ Sound(request[g])'
    BY <1>11 DEF SetFlash, Done, Become, Idle, Sound, TypeOK
  <2>3. Honest(request[h].repo, request[h].password)
    BY <1>11 DEF SetFlash, At, CredentialInv, RequestsSound, Sound
  <2>4. ASSUME NEW s \in Sessions
        PROVE  \/ flashes'[s] = None \/ flashes'[s] = flashes[s]
               \/ Honest(flashes[s].repo, flashes[s].password)'
    <3>1. CASE s = request[h].session
      <4>1. flashes'[s] = Flash(request[h].repo, request[h].password, made')
        BY <1>11, <3>1 DEF SetFlash, Swept
      <4>2. flashes'[s].repo = request[h].repo /\ flashes'[s].password = request[h].password
        BY <4>1 DEF Flash
      <4> QED
        BY <1>11, <2>3, <4>2 DEF SetFlash, database, Honest
    <3>2. CASE s # request[h].session
      BY <1>11, <3>2 DEF SetFlash, Swept
    <3> QED
      BY <3>1, <3>2
  <2> QED
    BY <2>1, <2>2, <2>4, CredentialFrame
<1>12. ASSUME NEW h \in Handlers, PopFlash(h)
       PROVE  CredentialInv'
  <2>1. Advance /\ RowStored'
    BY <1>12, RowsQuiet DEF PopFlash, database
  <2>2. \A g \in Handlers : request'[g] = request[g] \/ Sound(request[g])'
    BY <1>12 DEF PopFlash, Done, Become, Idle, Sound, TypeOK
  <2>3. \A s \in Sessions : flashes'[s] = None \/ flashes'[s] = flashes[s]
    BY <1>12 DEF PopFlash, TypeOK
  <2> QED
    BY <2>1, <2>2, <2>3, CredentialFrame
<1>13. ASSUME NEW s \in Sessions, FlashAges(s)
       PROVE  CredentialInv'
  <2>1. Advance /\ RowStored'
    BY <1>13, RowsQuiet DEF FlashAges, database
  <2>2. Honest(flashes[s].repo, flashes[s].password)
    BY <1>13, FlashHonest DEF FlashAges, CredentialInv
  <2>3. flashes'[s].repo = flashes[s].repo /\ flashes'[s].password = flashes[s].password
    BY <1>13 DEF FlashAges, TypeOK, FlashType
  <2>4. \A t \in Sessions : flashes'[t] = flashes[t]
                            \/ Honest(flashes[t].repo, flashes[t].password)'
    BY <1>13, <2>2, <2>3 DEF FlashAges, TypeOK, database, Honest
  <2> QED
    BY <1>13, <2>1, <2>4, CredentialFrame DEF FlashAges
<1>14. ASSUME NEW s \in Sessions, SessionExpires(s)
       PROVE  CredentialInv'
  BY <1>14, RowsQuiet, CredentialFrame DEF SessionExpires, memory
<1>15. ASSUME NEW a \in Addresses, AttemptAges(a)
       PROVE  CredentialInv'
  BY <1>15, RowsQuiet, CredentialFrame DEF AttemptAges, memory, database
<1>16. CASE Restart
  <2>1. Advance /\ RowStored'
    BY <1>16, RowsQuiet DEF Restart, database
  <2>2. \A g \in Handlers : Sound(request[g])'
    BY <1>16 DEF Restart, Idle, Sound
  <2>3. \A s \in Sessions : flashes'[s] = None
    BY <1>16 DEF Restart
  <2> QED
    BY <2>1, <2>2, <2>3, CredentialFrame
<1> QED
  BY <1>1, <1>2, <1>3, <1>4, <1>5, <1>6, <1>7, <1>8, <1>9, <1>10, <1>11, <1>12, <1>13,
     <1>14, <1>15, <1>16 DEF Next

\* What a flash shows as a repository's password has been the password of
\* its row, or the repository is deleted by now.
THEOREM PasswordsStored == Spec => []PasswordStored
<1>1. Init => TypeOK /\ CredentialInv
  BY TypeInit, CredentialInit
<1>2. TypeOK /\ CredentialInv /\ [Next]_vars => (TypeOK /\ CredentialInv)'
  BY TypeStep, CredentialStep
<1>3. CredentialInv => PasswordStored
  BY DEF CredentialInv
<1> QED
  BY <1>1, <1>2, <1>3, PTL DEF Spec

-----------------------------------------------------------------------------
(* Flashes.                                                                *)

FlashInv == FlashIds /\ FlashOnce

\* The steps of a request on the flashes.
FlashSteps(h) == SetFlash(h) \/ PopFlash(h)

LEMMA MemoryQuiet ==
  ASSUME [Next]_vars
  PROVE  \/ UNCHANGED memory
         \/ \E h \in Handlers : FlashSteps(h)
         \/ \E s \in Sessions : FlashAges(s)
         \/ Restart
  BY DEF Next, vars, memory, database, FlashSteps, CheckLimit, OpenPage, Admit, RecordAttempt,
         CreateSession, DeleteSession, AddRepository, DeleteRepository, FindRepository, Reveal,
         Rotate, Refuse, FindSession, NoSession, AttemptAges, SessionExpires

\* A flash that is stored is one of those made.
LEMMA FlashTyped ==
  ASSUME TypeOK, NEW s \in Sessions, flashes[s] # None
  PROVE  /\ flashes[s] \in FlashType /\ flashes[s].fresh \in BOOLEAN
         /\ flashes[s].id \in Nat /\ flashes[s].id \in 1 .. made
         /\ flashes[s].id \in 1 .. MaxFlashes /\ made \in Nat
  BY BoundsAssumption DEF TypeOK, FlashType

LEMMA FlashInit == Init => FlashInv
  BY DEF Init, FlashInv, FlashIds, FlashOnce

LEMMA FlashStep == TypeOK /\ FlashInv /\ [Next]_vars => FlashInv'
<1> SUFFICES ASSUME TypeOK, FlashInv, [Next]_vars
             PROVE  FlashInv'
  OBVIOUS
<1>1. CASE UNCHANGED memory
  BY <1>1 DEF memory, FlashInv, FlashIds, FlashOnce
<1>2. ASSUME NEW h \in Handlers, SetFlash(h)
      PROVE  FlashInv'
  <2> DEFINE u == request[h].session
  <2>1. made \in Nat /\ made' = made + 1 /\ made' \in 1 .. MaxFlashes /\ shown' = shown
    BY <1>2, BoundsAssumption DEF SetFlash, TypeOK
  <2>2. flashes'[u].id = made' \/ u \notin Sessions
    BY <1>2 DEF SetFlash, Swept, Flash
  <2>3. \A s \in Sessions : s # u => flashes'[s] = None \/ flashes'[s] = flashes[s]
    BY <1>2 DEF SetFlash, Swept
  <2>4. \A s \in Sessions : flashes[s] # None => flashes[s].id # made'
    BY <2>1, FlashTyped
  <2>5. shown[made'] = 0
    BY <2>1 DEF FlashInv, FlashIds
  <2>6. FlashIds'
    <3>1. \A s, t \in Sessions :
            flashes'[s] # None /\ flashes'[t] # None /\ flashes'[s].id = flashes'[t].id
              => s = t
      BY <2>2, <2>3, <2>4 DEF FlashInv, FlashIds
    <3>2. \A i \in 1 .. MaxFlashes : i > made' => shown'[i] = 0
      BY <2>1 DEF FlashInv, FlashIds
    <3> QED
      BY <3>1, <3>2 DEF FlashIds
  <2>7. FlashOnce'
    BY <2>1, <2>2, <2>3, <2>5 DEF FlashInv, FlashOnce
  <2> QED
    BY <2>6, <2>7 DEF FlashInv
<1>3. ASSUME NEW h \in Handlers, PopFlash(h)
      PROVE  FlashInv'
  <2> DEFINE u == request[h].session
             f == flashes[u]
  <2>1. /\ u \in Sessions /\ made' = made /\ flashes' = [flashes EXCEPT ![u] = None]
        /\ shown \in [1 .. MaxFlashes -> Nat] /\ made \in Nat
    BY <1>3, Shape, BoundsAssumption DEF PopFlash, At, TypeOK
  <2>2. \A s \in Sessions : flashes'[s] = None \/ (s # u /\ flashes'[s] = flashes[s])
    BY <2>1 DEF TypeOK
  <2>3. CASE f # None /\ f.fresh
    <3>1. f.id \in 1 .. made /\ f.id \in 1 .. MaxFlashes /\ shown[f.id] = 0
      BY <2>1, <2>3, FlashTyped DEF FlashInv, FlashOnce
    <3>2. shown' = [shown EXCEPT ![f.id] = 1]
      BY <1>3, <2>1, <2>3, <3>1 DEF PopFlash
    <3>3. \A s \in Sessions : flashes'[s] # None => flashes'[s].id # f.id
      BY <2>1, <2>2, <2>3 DEF FlashInv, FlashIds
    <3>4. FlashIds'
      <4>1. \A s, t \in Sessions :
              flashes'[s] # None /\ flashes'[t] # None /\ flashes'[s].id = flashes'[t].id
                => s = t
        BY <2>2 DEF FlashInv, FlashIds
      <4>2. \A i \in 1 .. MaxFlashes : i > made' => shown'[i] = 0
        BY <2>1, <3>1, <3>2 DEF FlashInv, FlashIds
      <4> QED
        BY <4>1, <4>2 DEF FlashIds
    <3>5. \A i \in DOMAIN shown' : shown'[i] <= 1
      BY <2>1, <3>2 DEF FlashInv, FlashOnce
    <3>6. \A s \in Sessions : flashes'[s] # None => shown'[flashes'[s].id] = 0
      <4> SUFFICES ASSUME NEW s \in Sessions, flashes'[s] # None
                   PROVE  shown'[flashes'[s].id] = 0
        OBVIOUS
      <4>1. flashes'[s] = flashes[s] /\ flashes[s] # None /\ flashes[s].id \in 1 .. MaxFlashes
        BY <2>2, FlashTyped
      <4> QED
        BY <2>1, <3>2, <3>3, <4>1 DEF FlashInv, FlashOnce
    <3> QED
      BY <3>4, <3>5, <3>6 DEF FlashInv, FlashOnce
  <2>4. CASE ~(f # None /\ f.fresh)
    <3>1. shown' = shown
      BY <1>3, <2>4 DEF PopFlash
    <3> QED
      BY <2>1, <2>2, <3>1 DEF FlashInv, FlashIds, FlashOnce
  <2> QED
    BY <2>3, <2>4
<1>4. ASSUME NEW u \in Sessions, FlashAges(u)
      PROVE  FlashInv'
  <2>1. flashes'[u].id = flashes[u].id /\ flashes[u] # None
    BY <1>4, FlashTyped DEF FlashAges, TypeOK, FlashType
  <2>2. \A s \in Sessions : flashes'[s] # None
                              => flashes[s] # None /\ flashes'[s].id = flashes[s].id
    BY <1>4, <2>1 DEF FlashAges, TypeOK
  <2> QED
    BY <1>4, <2>2 DEF FlashAges, FlashInv, FlashIds, FlashOnce
<1>5. CASE Restart
  BY <1>5 DEF Restart, FlashInv, FlashIds, FlashOnce
<1> QED
  BY <1>1, <1>2, <1>3, <1>4, <1>5, MemoryQuiet DEF FlashSteps

\* A password is shown once at most.
THEOREM FlashesOnce == Spec => []FlashOnce
<1>1. Init => TypeOK /\ FlashInv
  BY TypeInit, FlashInit
<1>2. TypeOK /\ FlashInv /\ [Next]_vars => (TypeOK /\ FlashInv)'
  BY TypeStep, FlashStep
<1>3. FlashInv => FlashOnce
  BY DEF FlashInv
<1> QED
  BY <1>1, <1>2, <1>3, PTL DEF Spec

\* No step loses a flash that has not expired, unless it shows it, puts a
\* later one of the same session in its place, or ends the process.
KeepsFlashes ==
  \A s \in Sessions :
    LET f == flashes[s] IN
    f # None /\ f.fresh /\ ~Restart
      => \/ flashes'[s] # None /\ flashes'[s].id >= f.id
         \/ shown'[f.id] = shown[f.id] + 1

LEMMA KeptStep == TypeOK /\ [Next]_vars => KeepsFlashes
<1> SUFFICES ASSUME TypeOK, [Next]_vars, NEW s \in Sessions,
                    flashes[s] # None, flashes[s].fresh, ~Restart
             PROVE  \/ flashes'[s] # None /\ flashes'[s].id >= flashes[s].id
                    \/ shown'[flashes[s].id] = shown[flashes[s].id] + 1
  BY DEF KeepsFlashes
<1>0. /\ flashes[s] \in FlashType /\ flashes[s].id \in Nat /\ flashes[s].id \in 1 .. made
      /\ flashes[s].id \in 1 .. MaxFlashes /\ made \in Nat
  BY FlashTyped
<1>1. CASE UNCHANGED memory
  BY <1>0, <1>1 DEF memory
<1>2. ASSUME NEW h \in Handlers, SetFlash(h)
      PROVE  flashes'[s] # None /\ flashes'[s].id >= flashes[s].id
  <2>1. CASE s = request[h].session
    <3>1. request[h].repo \in Repos /\ request[h].password \in Nat
      <4>1. request[h].repo \in Repos /\ request[h].password \in 1 .. passwords
        BY <1>2, Shape DEF SetFlash, At
      <4> QED
        BY <4>1, BoundsAssumption DEF TypeOK
    <3>2. flashes'[s] = Flash(request[h].repo, request[h].password, made')
      BY <1>2, <2>1 DEF SetFlash, Swept
    <3>3. made' \in Nat /\ made' = made + 1
      BY <1>0, <1>2 DEF SetFlash
    <3>4. flashes'[s] # None
      <4>1. Flash(request[h].repo, request[h].password, made')
              \in [repo : Repos, password : Nat, id : Nat, fresh : BOOLEAN]
        BY <3>1, <3>3 DEF Flash
      <4> QED
        BY <3>2, <4>1, NoneAssumption
    <3>5. flashes'[s].id = made'
      BY <3>2 DEF Flash
    <3> QED
      BY <1>0, <3>3, <3>4, <3>5
  <2>2. CASE s # request[h].session
    BY <1>0, <1>2, <2>2 DEF SetFlash, Swept
  <2> QED
    BY <2>1, <2>2
<1>3. ASSUME NEW h \in Handlers, PopFlash(h)
      PROVE  \/ flashes'[s] # None /\ flashes'[s].id >= flashes[s].id
             \/ shown'[flashes[s].id] = shown[flashes[s].id] + 1
  BY <1>0, <1>3 DEF PopFlash, TypeOK
<1>4. ASSUME NEW u \in Sessions, FlashAges(u)
      PROVE  flashes'[s] # None /\ flashes'[s].id >= flashes[s].id
  <2>1. CASE s = u
    <3>1. flashes'[s] = [flashes[s] EXCEPT !.fresh = FALSE]
      BY <1>4, <2>1 DEF FlashAges, TypeOK
    <3>2. flashes'[s] \in FlashType /\ flashes'[s].id = flashes[s].id
      BY <1>0, <3>1 DEF FlashType
    <3>3. FlashType \subseteq [repo : Repos, password : Nat, id : Nat, fresh : BOOLEAN]
      BY BoundsAssumption DEF TypeOK, FlashType
    <3> QED
      BY <1>0, <3>2, <3>3, NoneAssumption
  <2>2. CASE s # u
    BY <1>0, <1>4, <2>2 DEF FlashAges, TypeOK
  <2> QED
    BY <2>1, <2>2
<1> QED
  BY <1>1, <1>2, <1>3, <1>4, MemoryQuiet DEF FlashSteps

\* A flash that has not expired stays until it is shown, until a later one of
\* its session takes its place, or until a restart.
THEOREM FlashesKept == Spec => FlashKept
<1>1. TypeOK /\ [Next]_vars => [KeepsFlashes]_vars
  BY KeptStep
<1>2. Spec => [][KeepsFlashes]_vars
  BY TypeInit, TypeStep, <1>1, PTL DEF Spec
<1> QED
  BY <1>2 DEF FlashKept, KeepsFlashes
=============================================================================
