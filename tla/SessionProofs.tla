--------------------------- MODULE SessionProofs ---------------------------
(***************************************************************************)
(* Theorems of Session, for any number of workers, expiries and faults.    *)
(***************************************************************************)
EXTENDS Session, TLAPS

\* Who relogs in alone has no company.
AloneInv == \A w \in alone, v \in Workers : Relogging(w) /\ Relogging(v) => v = w

IInv == TypeOK /\ AloneInv /\ EndsNoOther

\* The first state satisfies the invariant.
LEMMA InitInv == Init => IInv
  BY BoundsAssumption DEF Init, IInv, TypeOK, AloneInv, EndsNoOther, Positions

\* Every step keeps the types.
LEMMA NextTyped == TypeOK /\ [Next]_vars => TypeOK'
  <1> SUFFICES ASSUME TypeOK, [Next]_vars PROVE TypeOK' OBVIOUS
  <1> USE DEF TypeOK, Positions, Goto
  <1>1. ASSUME NEW w \in Workers, CheckSession(w) PROVE TypeOK' BY <1>1 DEF CheckSession
  <1>2. ASSUME NEW w \in Workers, CheckFails(w) PROVE TypeOK'
    BY <1>2, BoundsAssumption DEF CheckFails
  <1>3. ASSUME NEW w \in Workers, Logout(w) PROVE TypeOK' BY <1>3 DEF Logout
  <1>4. ASSUME NEW w \in Workers, LogoutFails(w) PROVE TypeOK'
    BY <1>4, BoundsAssumption DEF LogoutFails
  <1>5. ASSUME NEW w \in Workers, Login(w) PROVE TypeOK' BY <1>5 DEF Login
  <1>6. ASSUME NEW w \in Workers, LoginFails(w) PROVE TypeOK'
    BY <1>6, BoundsAssumption DEF LoginFails
  <1>7. ASSUME NEW w \in Workers, Call(w) PROVE TypeOK' BY <1>7 DEF Call
  <1>8. CASE Expire
    <2>1. active' \in BOOLEAN BY <1>8, Zenon DEF Expire
    <2>2. expiries' \in 0..MaxExpiries BY <1>8, BoundsAssumption DEF Expire
    <2> QED BY <1>8, <2>1, <2>2, Zenon DEF Expire
  <1>9. CASE Finished \/ UNCHANGED vars BY <1>9 DEF Finished, vars
  <1> QED
    BY <1>1, <1>2, <1>3, <1>4, <1>5, <1>6, <1>7, <1>8, <1>9 DEF Next, Worker

\* Every step preserves the invariant: while a worker relogs in alone nobody
\* else logs in, and a check that would join it ends its being alone.
LEMMA StepInv == IInv /\ [Next]_vars => IInv'
  <1> SUFFICES ASSUME IInv, [Next]_vars PROVE AloneInv' /\ EndsNoOther'
    BY NextTyped DEF IInv
  <1> USE DEF IInv, TypeOK, AloneInv, EndsNoOther, Relogging, Goto
  <1>1. ASSUME NEW w \in Workers, CheckSession(w) PROVE AloneInv' /\ EndsNoOther'
    <2>1. CASE active BY <1>1, <2>1 DEF CheckSession
    <2>2. CASE ~active BY <1>1, <2>2 DEF CheckSession
    <2> QED BY <2>1, <2>2
  <1>2. ASSUME NEW w \in Workers, CheckFails(w) PROVE AloneInv' /\ EndsNoOther'
    BY <1>2 DEF CheckFails
  <1>3. ASSUME NEW w \in Workers, Logout(w) PROVE AloneInv' /\ EndsNoOther'
    BY <1>3 DEF Logout
  <1>4. ASSUME NEW w \in Workers, LogoutFails(w) PROVE AloneInv' /\ EndsNoOther'
    BY <1>4 DEF LogoutFails
  <1>5. ASSUME NEW w \in Workers, Login(w) PROVE AloneInv' /\ EndsNoOther'
    BY <1>5 DEF Login
  <1>6. ASSUME NEW w \in Workers, LoginFails(w) PROVE AloneInv' /\ EndsNoOther'
    BY <1>6 DEF LoginFails
  <1>7. ASSUME NEW w \in Workers, Call(w) PROVE AloneInv' /\ EndsNoOther'
    BY <1>7 DEF Call
  <1>8. CASE Expire BY <1>8 DEF Expire
  <1>9. CASE Finished \/ UNCHANGED vars BY <1>9 DEF Finished, vars
  <1> QED
    BY <1>1, <1>2, <1>3, <1>4, <1>5, <1>6, <1>7, <1>8, <1>9 DEF Next, Worker

\* The inductive invariant, in every behaviour.
THEOREM Invariance == Spec => []IInv
  <1> QED BY InitInv, StepInv, PTL DEF Spec

\* Type correctness, for any number of workers.
THEOREM TypeCorrect == Spec => []TypeOK
  <1>1. IInv => TypeOK BY DEF IInv
  <1> QED BY <1>1, Invariance, PTL

\* A worker that relogs in alone ends no session that serves the others.
THEOREM OthersKept == Spec => []EndsNoOther
  <1>1. IInv => EndsNoOther BY DEF IInv
  <1> QED BY <1>1, Invariance, PTL
=============================================================================
