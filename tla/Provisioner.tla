---------------------------- MODULE Provisioner ----------------------------
(***************************************************************************)
(* The provider's life of a machine request: the four provisioning steps   *)
(* of ProvisionSteps (createVM, attachTags, attachPCIDevices, powerOnVM)   *)
(* and Deprovision, run by the Omni runner against a vCenter that executes *)
(* tasks on its own time.                                                  *)
(*                                                                         *)
(* One worker handles a request at a time; workers of different requests   *)
(* interleave at every vCenter call.  A call that starts a vCenter task    *)
(* (clone, deploy, reconfigure, power, destroy) is two moments: the task   *)
(* is accepted, and later its Wait returns.  The attempt may die between   *)
(* the two - a lost answer, an expired session, a crash - while the task   *)
(* goes on in vCenter, and the next attempt meets what it left behind.     *)
(*                                                                         *)
(* A VM is the set of settings it has.  What the code compares with the    *)
(* machine class (firmware, disk capacity, attached tags and devices) is   *)
(* in that set once vCenter holds the wanted value.                        *)
(***************************************************************************)
EXTENDS Naturals, FiniteSets

CONSTANTS
  Requests,     \* IDs of machine requests; also the names of their VMs
  FolderNames,  \* names of cluster folders
  NoFolder,     \* cluster_folder is off
  Tags,         \* vCenter tags a class may ask for
  Devices,      \* keys of passthrough devices a class may ask for
  Classes,      \* the machine classes requests are created from
  MaxFaults     \* bound: lost answers, failed tasks and crashes in a behaviour

(***************************************************************************)
(* Where the provider data of a class is wrong, in the order in which the  *)
(* code meets it: not decodable, rejected by Validate, an unknown          *)
(* datacenter, an unknown network or folder, no request set label for the  *)
(* cluster folder, an unknown pool or datastore, an unparsable Talos       *)
(* version, an unknown template, library item or storage policy, a tag     *)
(* that cannot be resolved, a PCI address the host does not offer.         *)
(***************************************************************************)
Flaws == {"none", "data", "invalid", "datacenter", "name", "label", "pool",
          "version", "source", "tags", "pci"}

\* The flaws that createVM meets before it asks vCenter for a VM.
EarlyFlaws == Flaws \ {"none", "tags", "pci"}

\* The label is looked at for a cluster folder only.
ClassType ==
  {c \in [library : BOOLEAN,            \* deploy from a Content Library
          wants   : SUBSET {"firmware", "disk", "network", "policy"},
          folder  : FolderNames \union {NoFolder},
          ca      : BOOLEAN,            \* a CA certificate is given
          tags    : SUBSET Tags,
          pci     : SUBSET Devices,
          flaw    : Flaws] :
     c.flaw = "label" => c.folder # NoFolder}

OwnSettings == {"config", "firmware", "disk", "network", "policy", "reservation"}

Settings == OwnSettings \union Tags \union Devices

ASSUME ClassesAssumption == Classes \subseteq ClassType
ASSUME NamesAssumption ==
  /\ Devices \intersect Tags = {}
  /\ (Devices \union Tags) \intersect OwnSettings = {}
ASSUME MaxFaultsAssumption == MaxFaults \in Nat

VARIABLES
  class,     \* the provider data of each request
  phase,     \* what the Omni runner thinks of the request
  step,      \* the provisioning step the runner is at
  recorded,  \* the persisted Machine state holds the VM name and datacenter
  patches,   \* the machine config patches created in Omni
  pc,        \* where the worker of the request is
  folders,   \* the cluster folders that exist in vCenter
  power,     \* the VM of the request in vCenter: absent, off, on or destroyed
  has,       \* the settings the VM has
  task,      \* the last vCenter task started for the request
  outcome,   \* how that task stands
  faults     \* faults so far

omni    == <<class, phase, step, recorded, patches>>
vcenter == <<folders, power, has, task, outcome>>
vars    == <<omni, vcenter, pc, faults>>

Phases == {"provisioning", "provisioned", "failed", "tearingDown", "gone"}

Steps == {"createVM", "attachTags", "attachPCIDevices", "powerOnVM"}

\* Reconfigurations createVM makes of a VM that exists.
Stages == {"firmware", "config", "disk", "network"}

TaskKinds == Stages \union {"create", "pci", "powerOn", "powerOff", "destroy"}

\* Positions inside createVM at which the state mutation has been made.
CreatePositions == Stages \union
  {"resolve", "folder", "makeFolder", "prepare", "caPatch", "find", "create"}

Positions == {"idle", "await"} \union Steps \union CreatePositions \union
  {"powerOn", "deprovision", "locate", "powerState", "powerOff", "destroy"}

\* Type correctness; the folders are cluster folders, so one is made only for a
\* class that asks for it.
TypeOK ==
  /\ class \in [Requests -> Classes]
  /\ phase \in [Requests -> Phases]
  /\ step \in [Requests -> Steps]
  /\ recorded \in [Requests -> BOOLEAN]
  /\ patches \in [Requests -> SUBSET {"hostname", "ca"}]
  /\ pc \in [Requests -> Positions]
  /\ folders \subseteq FolderNames
  /\ power \in [Requests -> {"absent", "off", "on", "destroyed"}]
  /\ has \in [Requests -> SUBSET Settings]
  /\ task \in [Requests -> TaskKinds \union {"none"}]
  /\ outcome \in [Requests -> {"none", "running", "success", "error"}]
  /\ faults \in 0..MaxFaults

Init ==
  /\ class \in [Requests -> Classes]
  /\ phase = [r \in Requests |-> "provisioning"]
  /\ step = [r \in Requests |-> "createVM"]
  /\ recorded = [r \in Requests |-> FALSE]
  /\ patches = [r \in Requests |-> {}]
  /\ pc = [r \in Requests |-> "idle"]
  /\ folders = {}
  /\ power = [r \in Requests |-> "absent"]
  /\ has = [r \in Requests |-> {}]
  /\ task = [r \in Requests |-> "none"]
  /\ outcome = [r \in Requests |-> "none"]
  /\ faults = 0

-----------------------------------------------------------------------------
(***************************************************************************)
(* What a class asks for.                                                  *)
(***************************************************************************)

\* Settings the creation itself gives: the clone spec carries the machine
\* config, the OVF deploy spec carries the network; both carry the policy.
Granted(c) ==
  IF c.library THEN c.wants \intersect {"network", "policy"}
               ELSE {"config"} \union (c.wants \intersect {"policy"})

\* Settings a successful task of kind k leaves on the VM.
Effect(c, k) ==
  CASE k = "create"   -> Granted(c)
    [] k = "pci"      -> c.pci \union {"reservation"}
    [] k \in Stages   -> {k}
    [] OTHER          -> {}

\* Everything a VM of the class must have before it runs.
Required(c) ==
  {"config"} \union c.wants \union c.tags \union c.pci
    \union (IF c.pci = {} THEN {} ELSE {"reservation"})

RequiredPatches(c) == {"hostname"} \union (IF c.ca THEN {"ca"} ELSE {})

\* What createVM does after the creation, or after the stage s.  A library
\* deployment is finalized (config, disk) in place of the disk and network
\* stages of a clone.
After(c, s) ==
  CASE s = "create"   -> "firmware"
    [] s = "firmware" -> IF c.library THEN "config" ELSE "disk"
    [] s = "config"   -> "disk"
    [] s = "disk"     -> IF c.library THEN "done" ELSE "network"
    [] OTHER          -> "done"

\* Faulty variant of NextStep: the VM is powered on before the tags and devices.
NextStepPowerFirst(s) ==
  CASE s = "createVM"   -> "powerOnVM"
    [] s = "attachTags" -> "attachPCIDevices"
    [] OTHER            -> s

NextStep(s) ==
  CASE s = "createVM"         -> "attachTags"
    [] s = "attachTags"       -> "attachPCIDevices"
    [] s = "attachPCIDevices" -> "powerOnVM"
    [] OTHER                  -> s

-----------------------------------------------------------------------------
(***************************************************************************)
(* vCenter.  It runs one task on a VM at a time and refuses what the power *)
(* state does not allow; a second VM of the same name is refused too.      *)
(***************************************************************************)

Present(r) == power[r] \in {"off", "on"}

Accepts(r, k) ==
  /\ outcome[r] # "running"
  /\ CASE k = "create"                                 -> ~Present(r)
       [] k \in {"firmware", "pci", "powerOn", "destroy"} -> power[r] = "off"
       [] k = "powerOff"                               -> power[r] = "on"
       [] OTHER                                        -> Present(r)

TaskSucceeds(r) ==
  /\ outcome[r] = "running"
  /\ outcome' = [outcome EXCEPT ![r] = "success"]
  /\ power' = [power EXCEPT ![r] =
                 CASE task[r] \in {"create", "powerOff"} -> "off"
                   [] task[r] = "powerOn"                -> "on"
                   [] task[r] = "destroy"                -> "destroyed"
                   [] OTHER                              -> @]
  /\ has' = [has EXCEPT ![r] = @ \union Effect(class[r], task[r])]
  /\ UNCHANGED <<omni, folders, task, pc, faults>>

TaskFails(r) ==
  /\ faults < MaxFaults
  /\ faults' = faults + 1
  /\ outcome[r] = "running"
  /\ outcome' = [outcome EXCEPT ![r] = "error"]
  /\ UNCHANGED <<omni, folders, power, has, task, pc>>

-----------------------------------------------------------------------------
(***************************************************************************)
(* The worker of a request.                                                *)
(***************************************************************************)

Goto(r, p) == pc' = [pc EXCEPT ![r] = p]

\* The worker moves on without any other effect.
Move(r, from, to) ==
  /\ pc[r] = from
  /\ Goto(r, to)
  /\ UNCHANGED <<omni, vcenter, faults>>

\* vCenter accepts the task and the worker waits for it.
Call(r, k) ==
  /\ Accepts(r, k)
  /\ task' = [task EXCEPT ![r] = k]
  /\ outcome' = [outcome EXCEPT ![r] = "running"]
  /\ Goto(r, "await")
  /\ UNCHANGED <<omni, folders, power, has, faults>>

\* createVM has put the VM name and datacenter into the Machine in memory.
Mutated(r) ==
  \/ pc[r] \in CreatePositions
  \/ pc[r] = "await" /\ task[r] \in Stages \union {"create"}

\* The attempt ends with an error that the runner retries; the mutation of
\* the Machine state is persisted all the same.
Retry(r) ==
  /\ Goto(r, "idle")
  /\ recorded' = [recorded EXCEPT ![r] = @ \/ Mutated(r)]
  /\ UNCHANGED <<class, phase, step, patches, vcenter>>

\* The attempt ends with an error the runner does not retry.  Whether the
\* mutation is persisted in that case is the runner's choice.
Fatal(r) ==
  /\ Goto(r, "idle")
  /\ phase' = [phase EXCEPT ![r] = IF @ = "provisioning" THEN "failed" ELSE @]
  /\ \E b \in {recorded[r], recorded[r] \/ Mutated(r)} :
       recorded' = [recorded EXCEPT ![r] = b]
  /\ UNCHANGED <<class, step, patches, vcenter, faults>>

\* A step returned nil: the runner persists the state and goes on with the
\* next step at once, or in a later reconcile.
StepDone(r) ==
  /\ recorded' = [recorded EXCEPT ![r] = @ \/ step[r] = "createVM"]
  /\ step' = [step EXCEPT ![r] = NextStep(@)]
  /\ IF step[r] = "powerOnVM"
     THEN /\ Goto(r, "idle")
          /\ phase' = [phase EXCEPT ![r] =
                         IF @ = "provisioning" THEN "provisioned" ELSE @]
     ELSE /\ \E p \in {"idle", NextStep(step[r])} : Goto(r, p)
          /\ UNCHANGED phase
  /\ UNCHANGED <<class, patches, vcenter, faults>>

\* The rest of createVM once the VM is past s.
Advance(r, s) ==
  IF After(class[r], s) = "done"
  THEN StepDone(r)
  ELSE /\ Goto(r, After(class[r], s))
       /\ UNCHANGED <<omni, vcenter, faults>>

-----------------------------------------------------------------------------
(***************************************************************************)
(* createVM                                                                *)
(***************************************************************************)

\* The runner starts the step it is at.
RunStep(r) == phase[r] = "provisioning" /\ Move(r, "idle", step[r])

\* Session, provider data, Validate; the Machine state is mutated.
BeginCreate(r) ==
  /\ class[r].flaw \notin {"data", "invalid"}
  /\ Move(r, "createVM", "resolve")

RejectData(r) ==
  /\ pc[r] = "createVM"
  /\ class[r].flaw \in {"data", "invalid"}
  /\ Fatal(r)

\* Faulty variants of Resolve: cluster_folder is not looked at; the network and
\* folder names are not resolved before the VM.
ResolveAnyFolder(r) ==
  /\ class[r].flaw \notin {"datacenter", "name", "label"}
  /\ Move(r, "resolve", "folder")
ResolveLate(r) ==
  /\ class[r].flaw \notin {"datacenter", "label"}
  /\ Move(r, "resolve", IF class[r].folder = NoFolder THEN "prepare" ELSE "folder")

\* Datacenter, network and parent folder.
Resolve(r) ==
  /\ class[r].flaw \notin {"datacenter", "name", "label"}
  /\ Move(r, "resolve", IF class[r].folder = NoFolder THEN "prepare" ELSE "folder")

MissingLabel(r) ==
  /\ pc[r] = "resolve"
  /\ class[r].flaw = "label"
  /\ Fatal(r)

\* ensureSubfolder: look the folder up ...
FindFolder(r) ==
  Move(r, "folder", IF class[r].folder \in folders THEN "prepare" ELSE "makeFolder")

\* Faulty variant of MakeFolder: a folder that is there by now is an error, and
\* not one to retry.
MakeNewFolder(r) ==
  /\ pc[r] = "makeFolder"
  /\ IF class[r].folder \in folders
     THEN Fatal(r)
     ELSE /\ folders' = folders \union {class[r].folder}
          /\ Goto(r, "prepare")
          /\ UNCHANGED <<omni, power, has, task, outcome, faults>>

\* ... and create it; losing the race against another worker (DuplicateName)
\* ends with the folder that worker made.
MakeFolder(r) ==
  /\ pc[r] = "makeFolder"
  /\ folders' = folders \union {class[r].folder}
  /\ Goto(r, "prepare")
  /\ UNCHANGED <<omni, power, has, task, outcome, faults>>

\* Faulty variant of Prepare: no machine patch for the CA certificate.
PrepareNoCA(r) ==
  /\ pc[r] = "prepare"
  /\ class[r].flaw \notin {"pool", "version"}
  /\ patches' = [patches EXCEPT ![r] = @ \union {"hostname"}]
  /\ Goto(r, "find")
  /\ UNCHANGED <<class, phase, step, recorded, vcenter, faults>>

\* Resource pool, datastore, Talos version; the hostname patch.
Prepare(r) ==
  /\ pc[r] = "prepare"
  /\ class[r].flaw \notin {"pool", "version"}
  /\ patches' = [patches EXCEPT ![r] = @ \union {"hostname"}]
  /\ Goto(r, IF class[r].ca THEN "caPatch" ELSE "find")
  /\ UNCHANGED <<class, phase, step, recorded, vcenter, faults>>

BadVersion(r) ==
  /\ pc[r] = "prepare"
  /\ class[r].flaw = "version"
  /\ Fatal(r)

PatchCA(r) ==
  /\ pc[r] = "caPatch"
  /\ patches' = [patches EXCEPT ![r] = @ \union {"ca"}]
  /\ Goto(r, "find")
  /\ UNCHANGED <<class, phase, step, recorded, vcenter, faults>>

\* Faulty variants of FindExistingVM: a VM that is found counts as configured;
\* no VM is looked for.
FindFinishedVM(r) ==
  /\ pc[r] = "find"
  /\ IF Present(r) THEN StepDone(r) ELSE Move(r, "find", "create")
FindNoVM(r) == Move(r, "find", "create")

\* findExistingVM: resume with the VM of an earlier attempt, if there is one.
FindExistingVM(r) ==
  Move(r, "find", IF Present(r) THEN "firmware" ELSE "create")

\* The two sources of a VM: vCenter is asked for a clone of the template, or
\* for a deployment of the library item.
CloneFromTemplate(r) == ~class[r].library /\ Call(r, "create")

DeployFromContentLibrary(r) == class[r].library /\ Call(r, "create")

CreateVM(r) ==
  /\ pc[r] = "create"
  /\ class[r].flaw # "source"
  /\ CloneFromTemplate(r) \/ DeployFromContentLibrary(r)

\* The stage has something to do: it is asked for, and vCenter does not hold the
\* value yet.  finalizeVM and configureNetwork do not look first.
Needed(r, s) ==
  CASE s = "config"  -> TRUE
    [] s = "network" -> s \in class[r].wants
    [] OTHER         -> s \in class[r].wants /\ s \notin has[r]

Stage(r, s) ==
  /\ pc[r] = s
  /\ IF Needed(r, s) THEN Call(r, s) ELSE Advance(r, s)

EnsureFirmware(r) == Stage(r, "firmware")

\* The config, CPU and memory an OVF deploy spec does not carry.
FinalizeVM(r) == Stage(r, "config")

ResizeDisk(r) == Stage(r, "disk")

ConfigureNetwork(r) == Stage(r, "network")

Reconfigure(r) ==
  EnsureFirmware(r) \/ FinalizeVM(r) \/ ResizeDisk(r) \/ ConfigureNetwork(r)

\* The Wait of a createVM task returns nil.
CreateTaskDone(r) ==
  /\ pc[r] = "await"
  /\ task[r] \in Stages \union {"create"}
  /\ outcome[r] = "success"
  /\ Advance(r, task[r])

-----------------------------------------------------------------------------
(***************************************************************************)
(* attachTags, attachPCIDevices, powerOnVM                                 *)
(***************************************************************************)

\* resolveProvisionedVM finds the VM under the name in the Machine state.
Resolvable(r) == recorded[r] /\ Present(r)

\* One AttachTag call; all tags have been resolved before the first.
AttachTag(r) ==
  /\ pc[r] = "attachTags"
  /\ Resolvable(r)
  /\ class[r].flaw # "tags"
  /\ \E t \in class[r].tags \ has[r] :
       has' = [has EXCEPT ![r] = @ \union {t}]
  /\ UNCHANGED <<omni, folders, power, task, outcome, pc, faults>>

TagsAttached(r) ==
  /\ pc[r] = "attachTags"
  /\ class[r].tags # {} => Resolvable(r) /\ class[r].tags \subseteq has[r]
  /\ StepDone(r)

\* One reconfiguration adds the missing devices and reserves the memory.
AttachPCIDevices(r) ==
  /\ pc[r] = "attachPCIDevices"
  /\ Resolvable(r)
  /\ ~(class[r].pci \subseteq has[r])
  /\ class[r].flaw # "pci"
  /\ Call(r, "pci")

PCIAttached(r) ==
  /\ pc[r] = "attachPCIDevices"
  /\ class[r].pci # {} => Resolvable(r) /\ class[r].pci \subseteq has[r]
  /\ StepDone(r)

ReadPowerState(r) ==
  /\ Resolvable(r)
  /\ power[r] = "off"
  /\ Move(r, "powerOnVM", "powerOn")

AlreadyOn(r) ==
  /\ pc[r] = "powerOnVM"
  /\ Resolvable(r)
  /\ power[r] = "on"
  /\ StepDone(r)

PowerOn(r) == pc[r] = "powerOn" /\ Call(r, "powerOn")

\* Faulty variant of StepTaskDone: the error of the Wait is dropped.
StepTaskOver(r) ==
  /\ pc[r] = "await"
  /\ task[r] \in {"pci", "powerOn"}
  /\ outcome[r] # "running"
  /\ StepDone(r)

StepTaskDone(r) ==
  /\ pc[r] = "await"
  /\ task[r] \in {"pci", "powerOn"}
  /\ outcome[r] = "success"
  /\ StepDone(r)

-----------------------------------------------------------------------------
(***************************************************************************)
(* Deprovision                                                             *)
(***************************************************************************)

\* Omni gives the request up; the step in progress is not interrupted.
TearDown(r) ==
  /\ phase[r] \in {"provisioning", "provisioned", "failed"}
  /\ phase' = [phase EXCEPT ![r] = "tearingDown"]
  /\ UNCHANGED <<class, step, recorded, patches, vcenter, pc, faults>>

StartDeprovision(r) == phase[r] = "tearingDown" /\ Move(r, "idle", "deprovision")

\* Deprovision returned nil: the runner lets the request go.
Release(r) ==
  /\ phase' = [phase EXCEPT ![r] = "gone"]
  /\ Goto(r, "idle")
  /\ UNCHANGED <<class, step, recorded, patches, vcenter, faults>>

\* Faulty variant of KnowsDatacenter: the Machine state is all that is asked.
RecordsDatacenter(r) == recorded[r]

\* The datacenter comes from the Machine state or else from the request.
KnowsDatacenter(r) == recorded[r] \/ class[r].flaw # "data"

Deprovision(r) ==
  \/ KnowsDatacenter(r) /\ Move(r, "deprovision", "locate")
  \/ pc[r] = "deprovision" /\ ~KnowsDatacenter(r) /\ Release(r)

\* A missing VM counts as removed; a missing datacenter is an error.
Locate(r) ==
  /\ class[r].flaw # "datacenter"
  /\ \/ Present(r) /\ Move(r, "locate", "powerState")
     \/ pc[r] = "locate" /\ ~Present(r) /\ Release(r)

\* Faulty variant of CheckPower: a running VM is destroyed as it is.
CheckNoPower(r) == Move(r, "powerState", "destroy")

CheckPower(r) ==
  Move(r, "powerState", IF power[r] = "on" THEN "powerOff" ELSE "destroy")

PowerOff(r) == pc[r] = "powerOff" /\ Call(r, "powerOff")

Destroy(r) == pc[r] = "destroy" /\ Call(r, "destroy")

PoweredOff(r) ==
  /\ task[r] = "powerOff"
  /\ outcome[r] = "success"
  /\ Move(r, "await", "destroy")

Destroyed(r) ==
  /\ pc[r] = "await"
  /\ task[r] = "destroy"
  /\ outcome[r] = "success"
  /\ Release(r)

-----------------------------------------------------------------------------
(***************************************************************************)
(* Errors, faults, and the specification                                   *)
(***************************************************************************)

\* The call the worker is about to make, or waits for, is bound to fail.
Refused(r) ==
  /\ \/ pc[r] = "resolve" /\ class[r].flaw \in {"datacenter", "name"}
     \/ pc[r] = "prepare" /\ class[r].flaw = "pool"
     \/ pc[r] = "create" /\ (class[r].flaw = "source" \/ ~Accepts(r, "create"))
     \/ pc[r] \in Stages /\ Needed(r, pc[r]) /\ ~Accepts(r, pc[r])
     \/ /\ pc[r] = "attachTags"
        /\ class[r].tags # {}
        /\ ~Resolvable(r) \/ class[r].flaw = "tags"
     \/ /\ pc[r] = "attachPCIDevices"
        /\ class[r].pci # {}
        /\ ~(Resolvable(r) /\ class[r].pci \subseteq has[r])
        /\ ~Resolvable(r) \/ class[r].flaw = "pci" \/ ~Accepts(r, "pci")
     \/ pc[r] = "powerOnVM" /\ ~Resolvable(r)
     \/ pc[r] \in {"powerOn", "powerOff", "destroy"} /\ ~Accepts(r, pc[r])
     \/ pc[r] = "locate" /\ class[r].flaw = "datacenter"
     \/ pc[r] = "await" /\ outcome[r] = "error"
  /\ Retry(r)
  /\ UNCHANGED faults

\* Any call may fail, and any Wait may be lost while its task goes on.
Glitch(r) ==
  /\ faults < MaxFaults
  /\ faults' = faults + 1
  /\ pc[r] # "idle"
  /\ Retry(r)

\* The provider dies: the workers' memory is lost, the tasks go on.  The
\* runner resumes a request at the step it had reached, or from the first.
Crash ==
  /\ faults < MaxFaults
  /\ faults' = faults + 1
  /\ pc' = [r \in Requests |-> "idle"]
  /\ step' \in [Requests -> Steps]
  /\ \A r \in Requests : step'[r] \in {step[r], "createVM"}
  /\ UNCHANGED <<class, phase, recorded, patches, vcenter>>

Provision(r) ==
  \/ RunStep(r) \/ BeginCreate(r) \/ RejectData(r) \/ Resolve(r)
  \/ MissingLabel(r) \/ FindFolder(r) \/ MakeFolder(r) \/ Prepare(r)
  \/ BadVersion(r) \/ PatchCA(r) \/ FindExistingVM(r) \/ CreateVM(r)
  \/ Reconfigure(r) \/ CreateTaskDone(r)
  \/ AttachTag(r) \/ TagsAttached(r) \/ AttachPCIDevices(r) \/ PCIAttached(r)
  \/ ReadPowerState(r) \/ AlreadyOn(r) \/ PowerOn(r) \/ StepTaskDone(r)

Remove(r) ==
  \/ StartDeprovision(r) \/ Deprovision(r) \/ Locate(r) \/ CheckPower(r)
  \/ PowerOff(r) \/ Destroy(r) \/ PoweredOff(r) \/ Destroyed(r)

Worker(r) == Provision(r) \/ Remove(r) \/ Refused(r)

\* All requests are gone.
Finished == (\A r \in Requests : phase[r] = "gone") /\ UNCHANGED vars

Next ==
  \/ \E r \in Requests :
       Worker(r) \/ TaskSucceeds(r) \/ TaskFails(r) \/ TearDown(r) \/ Glitch(r)
  \/ Crash
  \/ Finished

Spec == Init /\ [][Next]_vars

\* The runner retries, no call hangs, and vCenter finishes its tasks.
Fairness ==
  \A r \in Requests : WF_vars(Worker(r)) /\ WF_vars(TaskSucceeds(r))

FairSpec == Spec /\ Fairness
-----------------------------------------------------------------------------
(***************************************************************************)
(* Properties.                                                             *)
(***************************************************************************)

\* powerOnVM is the last step, after every setting, tag and device has been
\* applied: a VM that runs has all its class asks for, however many attempts
\* of the earlier steps were cut short, resumed or adopted.
RunningIsComplete ==
  \A r \in Requests : power[r] = "on" => Required(class[r]) \subseteq has[r]

\* A request the runner holds for provisioned has a running VM: no step
\* reports success on account of a task that failed or is still going on.
ProvisionedRuns ==
  \A r \in Requests : phase[r] = "provisioned" => power[r] = "on"

\* The names createVM resolves before it creates (datacenter, network, folder,
\* pool, datastore, source of the VM) and its fatal errors come before the VM: a
\* request that cannot succeed for one of them never leaves anything in vCenter.
\* Names of tags and addresses of devices are met after the VM exists.
BadDataLeavesNoVM ==
  \A r \in Requests :
    class[r].flaw \in EarlyFlaws => power[r] = "absent" /\ task[r] = "none"

\* The hostname and CA patches are in Omni before the VM that joins with
\* them exists.
PatchedBeforeVM ==
  \A r \in Requests : power[r] # "absent" => RequiredPatches(class[r]) \subseteq patches[r]

\* Deprovision lets a request go only when vCenter holds no VM of it at that
\* moment, also when the VM was created by an attempt whose state was lost.
GoneOnlyWhenRemoved ==
  [][\A r \in Requests :
       phase[r] # "gone" /\ phase'[r] = "gone" => ~Present(r)]_vars

\* The VM of each request lives as VMLifecycle promises.
Lifecycle == INSTANCE VMLifecycle WITH
  complete <- [r \in Requests |-> Required(class[r]) \subseteq has[r]],
  wanted   <- [r \in Requests |-> phase[r] \notin {"tearingDown", "gone"}]

ImplementsLifecycle == Lifecycle!Spec

\* A request with sound provider data is provisioned, unless it is given up,
\* whatever earlier attempts left behind in vCenter.
EventuallyProvisioned ==
  \A r \in Requests :
    class[r].flaw = "none" => <>(phase[r] \in {"provisioned", "tearingDown", "gone"})

\* A request that is given up goes, wherever provisioning stopped, provided
\* that its datacenter exists: one that does not is an error of Deprovision,
\* and so of every retry.
EventuallyGone ==
  \A r \in Requests :
    class[r].flaw # "datacenter" => (phase[r] = "tearingDown" ~> phase[r] = "gone")

\* provision.go:599-601 says that a created VM cannot be left untracked: a
\* request that is gone has no VM.  The code does not keep this.
NoOrphan ==
  \A r \in Requests : phase[r] = "gone" => ~Present(r)

\* What is left of that: the VM of a request that is gone is one whose creation
\* was still going on when Deprovision looked for it, after an answer was lost or
\* the provider died.  It is as created: no later step has touched it or will,
\* and it never runs.
OrphanIsUnfinished ==
  \A r \in Requests :
    phase[r] = "gone" /\ Present(r) =>
      /\ power[r] = "off" /\ task[r] = "create" /\ has[r] = Granted(class[r])
      /\ faults > 0
=============================================================================
