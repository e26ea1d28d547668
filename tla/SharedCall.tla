------------------------------ MODULE SharedCall -----------------------------
(***************************************************************************)
(* What RefreshRepository promises its callers, whatever a refresh does: a *)
(* caller that finds no call in progress makes one, any other attaches to  *)
(* the one it finds, and everybody returns the answer of the call made or  *)
(* attached to.  A process that dies forgets all of it.                    *)
(*                                                                         *)
(* A call stays open a moment after it has its answer.  Who attaches then  *)
(* is answered from a refresh that ended before it asked: a caller is not  *)
(* promised to see what was pushed before its call.                        *)
(***************************************************************************)
CONSTANTS Callers, NoCall

VARIABLES
  leader,   \* whose call is open
  state,    \* where each caller is
  call,     \* the call a caller attached to
  answer    \* what each call, and each caller, was answered

vars == <<leader, state, call, answer>>

States == {"out", "asking", "leading", "answered", "attached", "returned"}

Move(c, from, to) == state[c] = from /\ state' = [state EXCEPT ![c] = to]

Init ==
  /\ leader = NoCall
  /\ state = [c \in Callers |-> "out"]
  /\ call = [c \in Callers |-> NoCall]
  /\ answer = [c \in Callers |-> "none"]

Ask(c) == Move(c, "out", "asking") /\ UNCHANGED <<leader, call, answer>>

Lead(c) ==
  /\ Move(c, "asking", "leading")
  /\ leader = NoCall /\ leader' = c
  /\ UNCHANGED <<call, answer>>

Attach(c) ==
  /\ Move(c, "asking", "attached")
  /\ leader # NoCall /\ call' = [call EXCEPT ![c] = leader]
  /\ UNCHANGED <<leader, answer>>

Answer(c) ==
  /\ Move(c, "leading", "answered")
  /\ \E a \in {"ok", "err"} : answer' = [answer EXCEPT ![c] = a]
  /\ UNCHANGED <<leader, call>>

Return(c) ==
  /\ Move(c, "answered", "returned")
  /\ leader' = NoCall
  /\ UNCHANGED <<call, answer>>

ReturnShared(c) ==
  /\ Move(c, "attached", "returned")
  /\ answer[call[c]] # "none"
  /\ answer' = [answer EXCEPT ![c] = answer[call[c]]]
  /\ call' = [call EXCEPT ![c] = NoCall]
  /\ UNCHANGED leader

Leave(c) ==
  /\ Move(c, "returned", "out")
  /\ \A d \in Callers : call[d] # c
  /\ answer' = [answer EXCEPT ![c] = "none"]
  /\ UNCHANGED <<leader, call>>

Restart ==
  /\ leader' = NoCall
  /\ state' = [c \in Callers |-> "out"]
  /\ call' = [c \in Callers |-> NoCall]
  /\ answer' = [c \in Callers |-> "none"]

Caller(c) ==
  \/ Ask(c) \/ Lead(c) \/ Attach(c) \/ Answer(c) \/ Return(c)
  \/ ReturnShared(c) \/ Leave(c)

Next == Restart \/ \E c \in Callers : Caller(c)

Spec == Init /\ [][Next]_vars
=============================================================================
