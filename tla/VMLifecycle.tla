---------------------------- MODULE VMLifecycle ----------------------------
(***************************************************************************)
(* What the provider promises about the VM of each machine request,        *)
(* whatever fails on the way:                                              *)
(*   - it is created at most once, and powered off;                        *)
(*   - it is first powered on when it has everything its machine class     *)
(*     asks for, and never loses it;                                       *)
(*   - it is powered off and destroyed only after the request was given    *)
(*     up, and destroyed only when it is off;                              *)
(*   - a destroyed VM does not come back.                                  *)
(***************************************************************************)
CONSTANT Requests

VARIABLES
  power,     \* the VM: absent, off, on or destroyed
  complete,  \* the VM has all its machine class asks for
  wanted     \* the request has not been given up

vars == <<power, complete, wanted>>

Init ==
  /\ power = [r \in Requests |-> "absent"]
  /\ complete = [r \in Requests |-> FALSE]
  /\ wanted = [r \in Requests |-> TRUE]

Turn(r, from, to) == power[r] = from /\ power' = [power EXCEPT ![r] = to]

\* A clone of a class that asks for nothing more is complete at once.
Create(r) ==
  /\ Turn(r, "absent", "off")
  /\ \E b \in BOOLEAN : complete' = [complete EXCEPT ![r] = b]
  /\ UNCHANGED wanted

Complete(r) ==
  /\ power[r] = "off"
  /\ complete' = [complete EXCEPT ![r] = TRUE]
  /\ UNCHANGED <<power, wanted>>

Start(r) ==
  /\ complete[r]
  /\ Turn(r, "off", "on")
  /\ UNCHANGED <<complete, wanted>>

GiveUp(r) ==
  /\ wanted' = [wanted EXCEPT ![r] = FALSE]
  /\ UNCHANGED <<power, complete>>

Stop(r) ==
  /\ ~wanted[r]
  /\ Turn(r, "on", "off")
  /\ UNCHANGED <<complete, wanted>>

Destroy(r) ==
  /\ ~wanted[r]
  /\ Turn(r, "off", "destroyed")
  /\ UNCHANGED <<complete, wanted>>

Next ==
  \E r \in Requests :
    Create(r) \/ Complete(r) \/ Start(r) \/ GiveUp(r) \/ Stop(r) \/ Destroy(r)

Spec == Init /\ [][Next]_vars
=============================================================================
