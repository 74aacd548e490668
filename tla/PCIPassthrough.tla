--------------------------- MODULE PCIPassthrough ---------------------------
(***************************************************************************)
(* attachPCIDevices on one powered-off VM: read the devices the VM has,    *)
(* add those of the class whose key is not among them, and reserve the     *)
(* guest memory in the same reconfiguration.  The step is retried as a     *)
(* whole, so the reconfiguration of an attempt whose answer was lost may   *)
(* still be on its way when the next attempt reads the devices.            *)
(*                                                                         *)
(* A key is the label or the address of a device (pciDeviceKey); a class   *)
(* lists entries, and may list a key more than once.  The template the VM  *)
(* was cloned from may have brought passthrough devices of its own.        *)
(***************************************************************************)
EXTENDS Naturals, FiniteSets, Sequences

CONSTANTS
  Labels,     \* keys that are hardware labels
  Addresses,  \* keys that are PCI addresses
  MaxEntries, \* bound: entries of pci_devices
  MaxFaults,  \* bound: failed reconfigurations and lost answers
  Overlap     \* an answer may be lost while the reconfiguration is going on

Keys == Labels \union Addresses

ASSUME BoundsAssumption == MaxEntries \in Nat /\ MaxFaults \in Nat /\ Overlap \in BOOLEAN

VARIABLES
  wanted,    \* pci_devices of the class: a sequence of keys
  carried,   \* keys of the passthrough devices the template brought
  offered,   \* addresses the VM's host offers for passthrough
  devices,   \* how many devices of each key the VM has
  reserved,  \* all guest memory of the VM is reserved
  pc,        \* where the worker is
  attached,  \* keys the worker has read from the VM
  task,      \* the last reconfiguration: none, running, succeeded or failed
  changes,   \* the entries of the class it adds
  faults     \* faults so far

class == <<wanted, carried, offered>>
vm    == <<devices, reserved>>
vars  == <<class, vm, pc, attached, task, changes, faults>>

Entries == UNION {[1..n -> Keys] : n \in 0..MaxEntries}

\* How many of a set of entries name a key.
Count(entries, k) == Cardinality({i \in entries : wanted[i] = k})

\* Type correctness: the worker is at one of the four places of the step, and
\* asks for entries of the class.
TypeOK ==
  /\ wanted \in Entries
  /\ carried \subseteq Keys
  /\ offered \subseteq Addresses
  /\ devices \in [Keys -> Nat]
  /\ reserved \in BOOLEAN
  /\ pc \in {"idle", "reconfigure", "await", "done"}
  /\ attached \subseteq Keys
  /\ task \in {"none", "running", "succeeded", "failed"}
  /\ changes \subseteq DOMAIN wanted
  /\ faults \in 0..MaxFaults

\* A template whose devices were added by hand has its memory reserved or not.
Init ==
  /\ wanted \in Entries
  /\ carried \in SUBSET Keys
  /\ offered \in SUBSET Addresses
  /\ devices = [k \in Keys |-> IF k \in carried THEN 1 ELSE 0]
  /\ reserved \in {b \in BOOLEAN : b => carried # {}}
  /\ pc = "idle"
  /\ attached = {}
  /\ task = "none"
  /\ changes = {}
  /\ faults = 0

-----------------------------------------------------------------------------

\* vm.Device and attachedPCIDeviceKeys.
ReadDevices ==
  /\ pc = "idle"
  /\ wanted # << >>
  /\ attached' = {k \in Keys : devices[k] > 0}
  /\ pc' = "reconfigure"
  /\ UNCHANGED <<class, vm, task, changes, faults>>

\* Faulty variants of Missing: whatever is listed is added; the first entry only
\* is looked at.
MissingAll == DOMAIN wanted
MissingFirst == {i \in DOMAIN wanted \intersect {1} : wanted[i] \notin attached}

\* The entries whose key is not attached.
Missing == {i \in DOMAIN wanted : wanted[i] \notin attached}

\* Faulty variant of NoneMissing: one listed device that is there is enough.
OneAttached ==
  /\ \/ pc = "idle" /\ wanted = << >>
     \/ pc = "reconfigure" /\ Missing # DOMAIN wanted
  /\ pc' = "done"
  /\ UNCHANGED <<class, vm, attached, task, changes, faults>>

NoneMissing ==
  /\ \/ pc = "idle" /\ wanted = << >>
     \/ pc = "reconfigure" /\ Missing = {}
  /\ pc' = "done"
  /\ UNCHANGED <<class, vm, attached, task, changes, faults>>

\* pciBacking: a label is left to vCenter, an address must be offered.
Backed == \A i \in Missing : wanted[i] \in Labels \union offered

\* vCenter reconfigures a VM once at a time.
Reconfigure ==
  /\ pc = "reconfigure"
  /\ Missing # {}
  /\ Backed
  /\ task # "running"
  /\ task' = "running"
  /\ changes' = Missing
  /\ pc' = "await"
  /\ UNCHANGED <<class, vm, attached, faults>>

\* An address is not offered, or vCenter is busy with the VM: a retry.
Refused ==
  /\ pc = "reconfigure"
  /\ Missing # {}
  /\ ~Backed \/ task = "running"
  /\ pc' = "idle"
  /\ UNCHANGED <<class, vm, attached, task, changes, faults>>

\* vCenter adds the devices and locks the reservation, both or neither.
TaskSucceeds ==
  /\ task = "running"
  /\ task' = "succeeded"
  /\ devices' = [k \in Keys |-> devices[k] + Count(changes, k)]
  /\ reserved' = TRUE
  /\ UNCHANGED <<class, pc, attached, changes, faults>>

Attached ==
  /\ pc = "await"
  /\ task = "succeeded"
  /\ pc' = "done"
  /\ UNCHANGED <<class, vm, attached, task, changes, faults>>

TaskFails ==
  /\ faults < MaxFaults
  /\ faults' = faults + 1
  /\ task = "running"
  /\ task' = "failed"
  /\ UNCHANGED <<class, vm, pc, attached, changes>>

\* Faulty variant of AttachFailed: the error is not one the runner retries.
AttachFatal ==
  /\ pc = "await"
  /\ task = "failed"
  /\ pc' = "failed"
  /\ UNCHANGED <<class, vm, attached, task, changes, faults>>

\* The Wait returns the error of the reconfiguration: a retry.
AttachFailed ==
  /\ pc = "await"
  /\ task = "failed"
  /\ pc' = "idle"
  /\ UNCHANGED <<class, vm, attached, task, changes, faults>>

\* The answer to a call is lost and the step is retried.
Lose ==
  /\ faults < MaxFaults
  /\ faults' = faults + 1
  /\ pc \in {"reconfigure", "await"}
  /\ pc = "await" => Overlap \/ task # "running"
  /\ pc' = "idle"
  /\ UNCHANGED <<class, vm, attached, task, changes>>

Finished == pc = "done" /\ UNCHANGED vars

Next ==
  \/ ReadDevices \/ NoneMissing \/ Reconfigure \/ Refused \/ Attached
  \/ AttachFailed \/ TaskSucceeds \/ TaskFails \/ Lose \/ Finished

Spec == Init /\ [][Next]_vars
-----------------------------------------------------------------------------

\* When the step is done each key of the class is on the VM, whatever the
\* template brought and whichever answers were lost.
EveryKeyAttached == pc = "done" => \A i \in DOMAIN wanted : devices[wanted[i]] > 0

\* The early return of an attempt that finds nothing missing reserves nothing.
\* Still the memory is reserved when the step is done, by whichever attempt added
\* the devices, unless the template has brought every device of the class: then
\* it is not, although README.md:125 says "whenever `pci_devices` is set".
ReservedUnlessCarried ==
  pc = "done" /\ (\E i \in DOMAIN wanted : wanted[i] \notin carried) => reserved

\* pci.go:27-29: a retry does not add a device twice.  It holds while no
\* attempt starts during the reconfiguration of an earlier one.
NotAddedTwice ==
  \A k \in Keys : devices[k] <= IF k \in carried THEN 1 ELSE Count(DOMAIN wanted, k)
=============================================================================
