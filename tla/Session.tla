------------------------------ MODULE Session -------------------------------
(***************************************************************************)
(* ensureSession: the workers of all machine requests share one vSphere    *)
(* client with one session.  Before its calls a worker asks whether the    *)
(* session is active and, if not, logs out and in again.  Nothing orders   *)
(* the three calls of one worker against those of another.                 *)
(*                                                                         *)
(* vCenter is external: it ends a session when it likes, and a Login over  *)
(* a session that is active is refused or replaces it.                     *)
(***************************************************************************)
EXTENDS Naturals

CONSTANTS
  Workers,      \* workers of machine requests
  MaxExpiries,  \* bound: sessions vCenter ends on its own
  MaxFaults     \* bound: calls of ensureSession that fail

ASSUME BoundsAssumption == MaxExpiries \in Nat /\ MaxFaults \in Nat

VARIABLES
  active,    \* the session of the shared client is active
  pc,        \* where each worker is
  alone,     \* history: who was told the session is inactive, with no other relogin since
  expiries,  \* sessions vCenter has ended
  faults     \* calls that have failed

vars == <<active, pc, alone, expiries, faults>>

\* wait: the attempt failed and the runner waits for the 10 seconds to pass.
Positions == {"start", "wait", "logout", "login", "call", "done"}

\* Type correctness; a worker is always at one of the calls, or will start again.
TypeOK ==
  /\ active \in BOOLEAN
  /\ pc \in [Workers -> Positions]
  /\ alone \subseteq Workers
  /\ expiries \in 0..MaxExpiries
  /\ faults \in 0..MaxFaults

\* The program starts with the session govmomi.NewClient has opened.
Init ==
  /\ active = TRUE
  /\ pc = [w \in Workers |-> "start"]
  /\ alone = {}
  /\ expiries = 0
  /\ faults = 0

Goto(w, p) == pc' = [pc EXCEPT ![w] = p]

-----------------------------------------------------------------------------

\* Between SessionIsActive and the end of Login.
Relogging(w) == pc[w] \in {"logout", "login"}

\* An attempt starts at any time: the 10 seconds of a retry run from the worker's
\* own failure, whatever the others do meanwhile.
Starts(w) == pc[w] \in {"start", "wait"}

CheckSession(w) ==
  /\ Starts(w)
  /\ \/ active /\ Goto(w, "call") /\ UNCHANGED alone
     \/ /\ ~active /\ Goto(w, "logout")
        /\ alone' = IF \E v \in Workers : Relogging(v) THEN {} ELSE {w}
  /\ UNCHANGED <<active, expiries, faults>>

\* An error of SessionIsActive counts as a session that is not.
CheckFails(w) ==
  /\ faults < MaxFaults
  /\ faults' = faults + 1
  /\ Starts(w)
  /\ Goto(w, "logout")
  /\ alone' = {}
  /\ UNCHANGED <<active, expiries>>

\* Whatever session the client has by now is ended, also one that another worker
\* has opened and been told is active.
Logout(w) ==
  /\ pc[w] = "logout"
  /\ active' = FALSE
  /\ Goto(w, "login")
  /\ UNCHANGED <<alone, expiries, faults>>

\* Faulty variant of LogoutFails: the error of Logout stops the worker for good.
LogoutFatal(w) ==
  /\ faults < MaxFaults
  /\ faults' = faults + 1
  /\ pc[w] = "logout"
  /\ Goto(w, "failed")
  /\ UNCHANGED <<active, alone, expiries>>

\* An error of Logout is logged and dropped.
LogoutFails(w) ==
  /\ faults < MaxFaults
  /\ faults' = faults + 1
  /\ pc[w] = "logout"
  /\ Goto(w, "login")
  /\ UNCHANGED <<active, alone, expiries>>

\* Faulty variant of Login: nothing is logged in after the logout.
LoginSkipped(w) ==
  /\ pc[w] = "login"
  /\ Goto(w, "call")
  /\ UNCHANGED <<active, alone, expiries, faults>>

Login(w) ==
  /\ pc[w] = "login"
  /\ active' = TRUE
  /\ \/ Goto(w, "call")
     \/ active /\ Goto(w, "wait")
  /\ UNCHANGED <<alone, expiries, faults>>

LoginFails(w) ==
  /\ faults < MaxFaults
  /\ faults' = faults + 1
  /\ pc[w] = "login"
  /\ Goto(w, "wait")
  /\ UNCHANGED <<active, alone, expiries>>

\* The calls the session was ensured for: without a session they fail, and the
\* step or Deprovision returns an error that is retried.
Call(w) ==
  /\ pc[w] = "call"
  /\ Goto(w, IF active THEN "done" ELSE "wait")
  /\ UNCHANGED <<active, alone, expiries, faults>>

\* vCenter ends the session: idle for too long, or restarted.
Expire ==
  /\ expiries < MaxExpiries
  /\ expiries' = expiries + 1
  /\ active
  /\ active' = FALSE
  /\ UNCHANGED <<pc, alone, faults>>

Worker(w) == CheckSession(w) \/ Logout(w) \/ Login(w) \/ Call(w)

Finished == (\A w \in Workers : pc[w] = "done") /\ UNCHANGED vars

Next ==
  \/ \E w \in Workers : Worker(w) \/ CheckFails(w) \/ LogoutFails(w) \/ LoginFails(w)
  \/ Expire
  \/ Finished

Spec == Init /\ [][Next]_vars

\* The runner retries, and no call hangs.
FairSpec == Spec /\ \A w \in Workers : WF_vars(Worker(w))
-----------------------------------------------------------------------------

\* A worker that was told the session is inactive, and relogs in with no other
\* worker doing so, ends no session that serves the others, however often
\* vCenter ends theirs meanwhile.
EndsNoOther == \A w \in alone : Relogging(w) => ~active

Overlap == \E v, w \in Workers : v # w /\ Relogging(v) /\ Relogging(w)

\* Every worker gets its calls through, however often its first attempts lose
\* their session, unless workers relog in at the same time again and again: then
\* each may end the session of the other for ever.
StarvedOnlyByOverlap == []<>Overlap \/ \A w \in Workers : <>(pc[w] = "done")
=============================================================================
