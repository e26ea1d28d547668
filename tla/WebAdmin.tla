------------------------------- MODULE WebAdmin -------------------------------
(***************************************************************************)
(* The administration pages of internal/web/server.go: logins with their   *)
(* rate limit, login sessions, and the flashes that carry a mail password  *)
(* from the request that made it to the page that shows it.                *)
(*                                                                         *)
(* Requests run at once, each a sequence of statements and of sections     *)
(* under attemptsMu or flashesMu.  Every handler looks its session up      *)
(* again at each stage, and the session may be over by then.  auth and     *)
(* checkCSRF are one step, for the first of the two lookups has no effect  *)
(* of its own.  Time appears as what it does: attempts leave the window of *)
(* ten minutes, flashes their five, sessions their twelve hours.           *)
(***************************************************************************)
EXTENDS Naturals, FiniteSets

CONSTANTS
  Handlers,      \* requests served at a time
  Addresses,     \* remote addresses that log in
  Sessions,      \* bound: session tokens
  Repos,         \* bound: ids of repositories
  None,          \* no flash
  Unborn, Gone,  \* no row yet, no row any more
  MaxAttempts,   \* failures within the window that lock an address out
  MaxPasswords,  \* bound: generated mail passwords
  MaxFlashes     \* bound: flashes stored

ASSUME LimitAssumption == MaxAttempts \in Nat \ {0}
ASSUME RowAssumption == {Unborn, Gone} \cap Nat = {} /\ Unborn # Gone
ASSUME HandlersAssumption == IsFiniteSet(Handlers)
ASSUME NoneAssumption ==
  None \notin [repo : Repos, password : Nat, id : Nat, fresh : BOOLEAN]
ASSUME BoundsAssumption == MaxPasswords \in Nat /\ MaxFlashes \in Nat

VARIABLES
  attempts,   \* Server.attempts: an address's failures within the window
  session,    \* rows of admin_sessions: "none", "live" or "over"
  account,    \* a row's mail password, or Unborn or Gone
  flashes,    \* Server.flashes by session
  request,    \* what each handler is at
  passwords,  \* passwords generated so far, 1, 2, ...
  stored,     \* pairs of a repository and a password its row has had
  made,       \* flashes stored so far; the number of one is its id
  shown       \* how often each flash was shown

vars == <<attempts, session, account, flashes, request, passwords, stored, made, shown>>
database == <<session, account, passwords, stored>>
memory == <<flashes, made, shown>>

Kinds == {"add", "reveal", "rotate", "delete", "logout"}
HasRow(r) == account[r] \notin {Unborn, Gone}
Live(s) == session[s] = "live"

Idle == [step |-> "idle"]
At(h, step) == request[h].step = step
Become(h, req) == request' = [request EXCEPT ![h] = req]
Go(h, step) == Become(h, [request[h] EXCEPT !.step = step])
Done(h) == Become(h, Idle)

\* The request has a password to show, and no more to do with its form.
Carry(h, p) == Become(h, [step |-> "flash", session |-> request[h].session,
                          repo |-> request[h].repo, password |-> p])

Flash(r, p, id) == [repo |-> r, password |-> p, id |-> id, fresh |-> TRUE]

Init ==
  /\ attempts = [a \in Addresses |-> 0]
  /\ session = [s \in Sessions |-> "none"]
  /\ account = [r \in Repos |-> Unborn]
  /\ flashes = [s \in Sessions |-> None]
  /\ request = [h \in Handlers |-> Idle]
  /\ passwords = 0 /\ stored = {}
  /\ made = 0 /\ shown = [i \in 1 .. MaxFlashes |-> 0]

-----------------------------------------------------------------------------
(* Wrong versions of definitions below, none of them the code's: each is a  *)
(* slip that breaks one of the properties at the end of this module.        *)

\* Lock out after the limit is exceeded, not when it is reached.
CheckLimitLate(h, a) ==
  /\ At(h, "idle") /\ attempts[a] <= MaxAttempts
  /\ Become(h, [step |-> "verify", address |-> a])
  /\ UNCHANGED <<attempts, database, memory>>

\* Count the attempts that are turned away, too.
CheckLimitCounting(h, a) ==
  /\ At(h, "idle")
  /\ IF attempts[a] < MaxAttempts
       THEN Become(h, [step |-> "verify", address |-> a]) /\ UNCHANGED attempts
       ELSE /\ attempts' = [attempts EXCEPT ![a] = MaxAttempts + 1]
            /\ UNCHANGED request
  /\ UNCHANGED <<database, memory>>

\* Show the new password though the row could not be written.
RotateUnchecked(h) ==
  /\ At(h, "access") /\ request[h].kind = "rotate"
  /\ passwords < MaxPasswords
  /\ passwords' = passwords + 1
  /\ Carry(h, passwords')
  /\ UNCHANGED <<attempts, session, account, stored, memory>>

\* Read the flash and leave it where it is.
PopFlashKept(h) ==
  /\ At(h, "pop")
  /\ LET f == flashes[request[h].session] IN
       shown' = IF f # None /\ f.fresh THEN [shown EXCEPT ![f.id] = @ + 1] ELSE shown
  /\ Done(h)
  /\ UNCHANGED <<attempts, database, flashes, made>>

\* Sweep the flashes that have not expired.
SweptBackwards == [s \in Sessions |-> IF flashes[s] # None /\ flashes[s].fresh
                                        THEN None ELSE flashes[s]]

\* Let a request that failed keep its handler.
RefuseOpen(h) ==
  /\ request[h].step \in {"verify", "admitted", "access"}
  /\ Go(h, "refused")
  /\ UNCHANGED <<attempts, database, memory>>

-----------------------------------------------------------------------------
(* login                                                                   *)

\* rateLimited(ip): attempts before the window are forgotten, the others are
\* counted.  A request over the limit ends here and is not recorded.
CheckLimit(h, a) ==
  /\ At(h, "idle") /\ attempts[a] < MaxAttempts
  /\ Become(h, [step |-> "verify", address |-> a])
  /\ UNCHANGED <<attempts, database, memory>>

\* The name or the password is wrong: recordAttempt(ip).
RecordAttempt(h) ==
  /\ At(h, "verify")
  /\ attempts' = [attempts EXCEPT ![request[h].address] = @ + 1]
  /\ Done(h)
  /\ UNCHANGED <<database, memory>>

CreateSession(h) ==
  /\ At(h, "verify")
  /\ \E s \in Sessions :
       session[s] = "none" /\ session' = [session EXCEPT ![s] = "live"]
  /\ Done(h)
  /\ UNCHANGED <<attempts, account, passwords, stored, memory>>

-----------------------------------------------------------------------------
(* Requests that change something                                          *)

\* The cookie's session is there and the form has its CSRF token.
Admit(h, s, kind, r) ==
  /\ At(h, "idle") /\ Live(s)
  /\ Become(h, [step |-> "admitted", kind |-> kind, session |-> s, repo |-> r])
  /\ UNCHANGED <<attempts, database, memory>>

Admitted(h, kind) == At(h, "admitted") /\ request[h].kind = kind

DeleteSession(h) ==
  /\ Admitted(h, "logout")
  /\ session' = [session EXCEPT ![request[h].session] = "over"]
  /\ Done(h)
  /\ UNCHANGED <<attempts, account, passwords, stored, memory>>

\* The last statement of DeleteRepository.
DeleteRepository(h) ==
  /\ Admitted(h, "delete") /\ HasRow(request[h].repo)
  /\ account' = [account EXCEPT ![request[h].repo] = Gone]
  /\ Done(h)
  /\ UNCHANGED <<attempts, session, passwords, stored, memory>>

Generate == passwords < MaxPasswords /\ passwords' = passwords + 1

AddRepository(h) ==
  /\ Admitted(h, "add") /\ account[request[h].repo] = Unborn
  /\ Generate
  /\ LET r == request[h].repo IN
     /\ account' = [account EXCEPT ![r] = passwords']
     /\ stored' = stored \cup {<<r, passwords'>>}
  /\ Carry(h, passwords')
  /\ UNCHANGED <<attempts, session, memory>>

\* credentialAction: the administrator's password is right and the row is there.
FindRepository(h) ==
  /\ Admitted(h, "reveal") \/ Admitted(h, "rotate")
  /\ HasRow(request[h].repo)
  /\ Go(h, "access")
  /\ UNCHANGED <<attempts, database, memory>>

\* RevealMailCredential reads the row again.
Reveal(h) ==
  /\ At(h, "access") /\ request[h].kind = "reveal" /\ HasRow(request[h].repo)
  /\ Carry(h, account[request[h].repo])
  /\ UNCHANGED <<attempts, database, memory>>

\* RotateMailCredential: an UPDATE that finds no row is no error.
Rotate(h) ==
  /\ At(h, "access") /\ request[h].kind = "rotate"
  /\ Generate
  /\ LET r == request[h].repo IN
       IF HasRow(r)
         THEN /\ account' = [account EXCEPT ![r] = passwords']
              /\ stored' = stored \cup {<<r, passwords'>>}
         ELSE UNCHANGED <<account, stored>>
  /\ Carry(h, passwords')
  /\ UNCHANGED <<attempts, session, memory>>

\* A wrong password, no row, a failing statement: the handler answers with an
\* error and has changed nothing.
Refuse(h) ==
  /\ request[h].step \in {"verify", "admitted", "access"}
  /\ Done(h)
  /\ UNCHANGED <<attempts, database, memory>>

-----------------------------------------------------------------------------
(* Flashes                                                                 *)

\* The lookup with which setFlash and popFlash begin.  Without a session the
\* one drops the flash and the other shows the page without.
FindSession(h) ==
  /\ \/ At(h, "flash") /\ Go(h, "set")
     \/ At(h, "page") /\ Go(h, "pop")
  /\ Live(request[h].session)
  /\ UNCHANGED <<attempts, database, memory>>

NoSession(h) ==
  /\ At(h, "flash") \/ At(h, "page")
  /\ ~Live(request[h].session)
  /\ Done(h)
  /\ UNCHANGED <<attempts, database, memory>>

\* Flashes that have expired are removed whenever one is set.
Swept == [s \in Sessions |-> IF flashes[s] # None /\ ~flashes[s].fresh
                               THEN None ELSE flashes[s]]

SetFlash(h) ==
  /\ At(h, "set") /\ made < MaxFlashes
  /\ made' = made + 1
  /\ LET req == request[h] IN
       flashes' = [Swept EXCEPT ![req.session] = Flash(req.repo, req.password, made')]
  /\ Done(h)
  /\ UNCHANGED <<attempts, database, shown>>

\* repositoryDetail of a repository that is there.
OpenPage(h, s, r) ==
  /\ At(h, "idle") /\ Live(s) /\ HasRow(r)
  /\ Become(h, [step |-> "page", session |-> s, repo |-> r])
  /\ UNCHANGED <<attempts, database, memory>>

PopFlash(h) ==
  /\ At(h, "pop")
  /\ LET s == request[h].session
         f == flashes[s]
     IN  /\ flashes' = [flashes EXCEPT ![s] = None]
         /\ shown' = IF f # None /\ f.fresh THEN [shown EXCEPT ![f.id] = @ + 1]
                     ELSE shown
  /\ Done(h)
  /\ UNCHANGED <<attempts, database, made>>

-----------------------------------------------------------------------------
(* Time, and the end of the process                                        *)

AttemptAges(a) ==
  /\ attempts[a] > 0
  /\ attempts' = [attempts EXCEPT ![a] = @ - 1]
  /\ UNCHANGED <<database, request, memory>>

FlashAges(s) ==
  /\ flashes[s] # None /\ flashes[s].fresh
  /\ flashes' = [flashes EXCEPT ![s].fresh = FALSE]
  /\ UNCHANGED <<attempts, database, request, made, shown>>

SessionExpires(s) ==
  /\ Live(s)
  /\ session' = [session EXCEPT ![s] = "over"]
  /\ UNCHANGED <<attempts, account, passwords, stored, request, memory>>

\* What is in memory is lost, the sessions are not.
Restart ==
  /\ attempts' = [a \in Addresses |-> 0]
  /\ flashes' = [s \in Sessions |-> None]
  /\ request' = [h \in Handlers |-> Idle]
  /\ UNCHANGED <<database, made, shown>>

Next ==
  \/ \E h \in Handlers :
       \/ \E a \in Addresses : CheckLimit(h, a)
       \/ \E s \in Sessions, r \in Repos :
            OpenPage(h, s, r) \/ \E kind \in Kinds : Admit(h, s, kind, r)
       \/ RecordAttempt(h) \/ CreateSession(h) \/ DeleteSession(h)
       \/ AddRepository(h) \/ DeleteRepository(h) \/ FindRepository(h)
       \/ Reveal(h) \/ Rotate(h) \/ Refuse(h)
       \/ FindSession(h) \/ NoSession(h) \/ SetFlash(h) \/ PopFlash(h)
  \/ \E a \in Addresses : AttemptAges(a)
  \/ \E s \in Sessions : FlashAges(s) \/ SessionExpires(s)
  \/ Restart

Spec == Init /\ [][Next]_vars

\* Time passes.
LiveSpec == Spec /\ \A a \in Addresses : WF_vars(AttemptAges(a))

-----------------------------------------------------------------------------
(* Properties                                                              *)

FlashType == [repo : Repos, password : 1 .. passwords, id : 1 .. made, fresh : BOOLEAN]

RequestType ==
  {Idle} \cup [step : {"verify"}, address : Addresses]
         \cup [step : {"page", "pop"}, session : Sessions, repo : Repos]
         \cup [step : {"admitted"}, kind : Kinds, session : Sessions, repo : Repos]
         \cup [step : {"access"}, kind : {"reveal", "rotate"}, session : Sessions,
               repo : Repos]
         \cup [step : {"flash", "set"}, session : Sessions, repo : Repos,
               password : 1 .. passwords]

TypeOK ==
  /\ attempts \in [Addresses -> Nat]
  /\ session \in [Sessions -> {"none", "live", "over"}]
  /\ account \in [Repos -> {Unborn, Gone} \cup (1 .. passwords)]
  /\ flashes \in [Sessions -> FlashType \cup {None}]
  /\ request \in [Handlers -> RequestType]
  /\ stored \subseteq Repos \X (1 .. passwords)
  /\ passwords \in 0 .. MaxPasswords
  /\ made \in 0 .. MaxFlashes
  /\ shown \in [1 .. MaxFlashes -> Nat]

\* Requests that have passed the limit and check a password.
Checking(a) == {h \in Handlers : At(h, "verify") /\ request[h].address = a}

\* Checking the limit and recording a failure are two critical sections with
\* a slow password hash in between.  Failures within the window still exceed
\* the limit by no more than the requests that are served at once.
LimiterBound ==
  \A a \in Addresses :
    attempts[a] + Cardinality(Checking(a)) <= MaxAttempts - 1 + Cardinality(Handlers)

\* An address that is locked out is let in again, however often it tries
\* meanwhile.
LockoutEnds ==
  \A a \in Addresses : attempts[a] >= MaxAttempts ~> attempts[a] < MaxAttempts

\* A password is shown once, whatever pages are opened at the same time.
FlashOnce ==
  /\ \A i \in DOMAIN shown : shown[i] <= 1
  /\ \A s \in Sessions : flashes[s] # None => shown[flashes[s].id] = 0

\* A flash that has not expired is not lost, unless by being shown, by a later one
\* of the same session, or by a restart.
FlashKept ==
  [][\A s \in Sessions :
       LET f == flashes[s] IN
       f # None /\ f.fresh /\ ~Restart
         => \/ flashes'[s] # None /\ flashes'[s].id >= f.id
            \/ shown'[f.id] = shown[f.id] + 1]_vars

\* What a flash shows as a repository's password has been the password its
\* row had, unless the repository was deleted meanwhile: revealing, rotating
\* and deleting at once never make up a password.
PasswordStored ==
  \A s \in Sessions :
    LET f == flashes[s] IN
    f # None => <<f.repo, f.password>> \in stored \/ account[f.repo] = Gone
=============================================================================
