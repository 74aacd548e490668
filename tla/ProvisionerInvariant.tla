------------------------ MODULE ProvisionerInvariant ------------------------
(***************************************************************************)
(* The inductive invariant of Provisioner.  It says what an attempt may    *)
(* rely on at each position, whatever earlier attempts were cut short: how *)
(* the last vCenter task left the VM, which flaws are ruled out, and which *)
(* settings the VM has.                                                    *)
(***************************************************************************)
EXTENDS Provisioner

RemovePositions == {"deprovision", "locate", "powerState", "powerOff", "destroy"}

\* The stage the worker of r is at: about to start its task, or waiting for it.
At(r) == IF pc[r] = "await" THEN task[r] ELSE pc[r]

\* A position belongs to the step the runner is at; removal runs only for a
\* request given up, and nothing of the provisioning runs after it.
PlaceInv(r) ==
  /\ pc[r] \in Steps => step[r] = pc[r]
  /\ pc[r] \in CreatePositions => step[r] = "createVM"
  /\ pc[r] \in {"folder", "makeFolder"} => class[r].folder # NoFolder
  /\ pc[r] = "powerOn" => step[r] = "powerOnVM"
  /\ pc[r] = "await" =>
       /\ task[r] \in Stages \union {"create"} => step[r] = "createVM"
       /\ task[r] = "pci" => step[r] = "attachPCIDevices"
       /\ task[r] = "powerOn" => step[r] = "powerOnVM"
       /\ task[r] # "none"
  /\ pc[r] \in RemovePositions => phase[r] = "tearingDown"
  /\ phase[r] = "gone" => pc[r] = "idle"
  /\ task[r] \in {"powerOff", "destroy"} =>
       /\ phase[r] \in {"tearingDown", "gone"}
       /\ pc[r] \in RemovePositions \union {"idle", "await"}

\* How the last task left the VM.
TaskInv(r) ==
  /\ task[r] = "none" <=> outcome[r] = "none"
  /\ task[r] = "none" => power[r] = "absent"
  /\ task[r] = "create" => power[r] = IF outcome[r] = "success" THEN "off" ELSE "absent"
  /\ task[r] \in {"firmware", "pci"} => power[r] = "off"
  /\ task[r] \in {"config", "disk", "network"} => Present(r)
  /\ task[r] = "powerOn" => power[r] = IF outcome[r] = "success" THEN "on" ELSE "off"
  /\ task[r] = "powerOff" => power[r] = IF outcome[r] = "success" THEN "off" ELSE "on"
  /\ task[r] = "destroy" => power[r] = IF outcome[r] = "success" THEN "destroyed" ELSE "off"
  /\ outcome[r] = "success" => Effect(class[r], task[r]) \subseteq has[r]

\* The patches are made and the flaws ruled out before the first task.
PreparedInv(r) ==
  /\ pc[r] \in CreatePositions => class[r].flaw \notin {"data", "invalid"}
  /\ pc[r] \in CreatePositions \ {"resolve"} =>
       class[r].flaw \notin {"datacenter", "name", "label"}
  /\ pc[r] \in {"caPatch", "find", "create"} =>
       class[r].flaw \notin {"pool", "version"} /\ "hostname" \in patches[r]
  /\ pc[r] \in {"find", "create"} => RequiredPatches(class[r]) \subseteq patches[r]
  /\ task[r] # "none" =>
       /\ class[r].flaw \notin EarlyFlaws
       /\ RequiredPatches(class[r]) \subseteq patches[r]

\* Settings a VM of class c has when createVM is at stage s.
Before(c, s) ==
  Granted(c)
    \union (IF s = "firmware" THEN {} ELSE c.wants \intersect {"firmware"})
    \union (IF s \in {"disk", "network"} THEN {"config"} ELSE {})
    \union (IF s = "network" THEN c.wants \intersect {"disk"} ELSE {})

\* The VM has what the stages and steps before have given it.
SettingsInv(r) ==
  /\ power[r] # "absent" => Granted(class[r]) \subseteq has[r]
  /\ pc[r] \in Stages => power[r] # "absent"
  /\ At(r) \in Stages => Before(class[r], At(r)) \subseteq has[r]
  /\ At(r) = "config" => class[r].library
  /\ At(r) = "network" => ~class[r].library
  /\ step[r] # "createVM" => {"config"} \union class[r].wants \subseteq has[r]
  /\ step[r] \in {"attachPCIDevices", "powerOnVM"} => class[r].tags \subseteq has[r]
  /\ has[r] \intersect Devices # {} => "reservation" \in has[r]
  /\ step[r] = "powerOnVM" \/ task[r] = "powerOn" \/ power[r] = "on" =>
       Required(class[r]) \subseteq has[r]

\* What every reachable state satisfies: at each position of the code the VM,
\* its task, the patches and the settings are as the steps before left them.
IInv ==
  /\ TypeOK
  /\ ProvisionedRuns
  /\ \A r \in Requests : PlaceInv(r)
  /\ \A r \in Requests : TaskInv(r)
  /\ \A r \in Requests : PreparedInv(r)
  /\ \A r \in Requests : SettingsInv(r)

\* Nothing is set before there is a VM, and before the first fault no task goes
\* on that its worker does not wait for.
NewInv(r) ==
  /\ power[r] = "absent" => has[r] = {}
  /\ faults = 0 => outcome[r] # "error" /\ (outcome[r] = "running" => pc[r] = "await")

\* A request that is gone has no VM and no task that makes one, unless a fault
\* cut off the worker that waited for it.
GoneInv(r) ==
  phase[r] = "gone" =>
    \/ ~Present(r) /\ ~(task[r] = "create" /\ outcome[r] = "running")
    \/ /\ task[r] = "create" /\ faults > 0
       /\ has[r] = IF outcome[r] = "success" THEN Granted(class[r]) ELSE {}

OrphanInv == \A r \in Requests : NewInv(r) /\ GoneInv(r)
=============================================================================
