------------------------- MODULE ProvisionerProofs --------------------------
(***************************************************************************)
(* Proofs about Provisioner: type correctness, the inductive invariant,    *)
(* the safety properties that follow from it, and the refinement of        *)
(* VMLifecycle, for any requests, machine classes and number of faults.    *)
(***************************************************************************)
EXTENDS ProvisionerInvariant, TLAPS

\* A machine class of a request has the fields the model reads.
LEMMA ClassFields ==
  ASSUME TypeOK, NEW r \in Requests
  PROVE  /\ class[r] \in ClassType
         /\ class[r].wants \subseteq {"firmware", "disk", "network", "policy"}
         /\ class[r].tags \subseteq Tags
         /\ class[r].pci \subseteq Devices
         /\ class[r].library \in BOOLEAN
         /\ class[r].ca \in BOOLEAN
         /\ class[r].flaw \in Flaws
         /\ class[r].folder \in FolderNames \union {NoFolder}
BY ClassesAssumption DEF TypeOK, ClassType

LEMMA EffectSettings ==
  ASSUME TypeOK, NEW r \in Requests, NEW k \in TaskKinds
  PROVE  Effect(class[r], k) \subseteq Settings
<1>1. class[r].wants \subseteq {"firmware", "disk", "network", "policy"} /\ class[r].pci \subseteq Devices
  BY ClassFields
<1> QED
  BY <1>1 DEF Effect, Granted, Settings, OwnSettings, TaskKinds, Stages

\* Every initial state has the types.
LEMMA InitType == Init => TypeOK
BY MaxFaultsAssumption DEF Init, TypeOK, Phases, Steps, Positions

\* A reconfiguration createVM makes is one of its stages.
LEMMA ReconfigureStage ==
  ASSUME NEW r \in Requests, Reconfigure(r)
  PROVE  \E s \in Stages : Stage(r, s)
BY Zenon DEF Reconfigure, EnsureFirmware, FinalizeVM, ResizeDisk, ConfigureNetwork, Stages

-----------------------------------------------------------------------------
(***************************************************************************)
(* Type correctness.  The ways a step of the worker ends come first.       *)
(***************************************************************************)

LEMMA MoveType ==
  ASSUME TypeOK, NEW r \in Requests, NEW from, NEW to \in Positions, Move(r, from, to)
  PROVE  TypeOK'
BY DEF TypeOK, Move, Goto, omni, vcenter

LEMMA CallType ==
  ASSUME TypeOK, NEW r \in Requests, NEW k \in TaskKinds, Call(r, k)
  PROVE  TypeOK'
BY DEF TypeOK, Call, Goto, omni, Positions

\* What an attempt that ends leaves of the worker and the Machine state.
LEMMA RecordedType ==
  ASSUME TypeOK, NEW r \in Requests, NEW b \in BOOLEAN
  PROVE  [recorded EXCEPT ![r] = b] \in [Requests -> BOOLEAN]
BY DEF TypeOK

LEMMA RetryType ==
  ASSUME TypeOK, NEW r \in Requests, Retry(r), faults' \in 0..MaxFaults
  PROVE  TypeOK'
<1>1. recorded' \in [Requests -> BOOLEAN]
  <2> DEFINE b == recorded[r] \/ Mutated(r)
  <2>1. b \in BOOLEAN
    BY Zenon DEF Mutated
  <2>2. recorded' = [recorded EXCEPT ![r] = b]
    BY DEF Retry
  <2> HIDE DEF b
  <2> QED
    BY <2>1, <2>2, RecordedType
<1> QED
  BY <1>1 DEF TypeOK, Retry, Goto, vcenter, Positions

LEMMA FatalType ==
  ASSUME TypeOK, NEW r \in Requests, Fatal(r)
  PROVE  TypeOK'
<1>1. recorded' \in [Requests -> BOOLEAN]
  <2> DEFINE m == recorded[r] \/ Mutated(r)
  <2>1. m \in BOOLEAN /\ recorded[r] \in BOOLEAN
    BY Zenon DEF Mutated, TypeOK
  <2>2. \E b \in {recorded[r], m} : recorded' = [recorded EXCEPT ![r] = b]
    BY DEF Fatal
  <2> HIDE DEF m
  <2> QED
    BY <2>1, <2>2, RecordedType
<1> QED
  BY <1>1 DEF TypeOK, Fatal, Goto, vcenter, Positions, Phases

LEMMA StepDoneType ==
  ASSUME TypeOK, NEW r \in Requests, StepDone(r)
  PROVE  TypeOK'
<1>1. recorded' \in [Requests -> BOOLEAN]
  <2> DEFINE b == recorded[r] \/ step[r] = "createVM"
  <2>1. b \in BOOLEAN
    BY Zenon
  <2>2. recorded' = [recorded EXCEPT ![r] = b]
    BY DEF StepDone
  <2> HIDE DEF b
  <2> QED
    BY <2>1, <2>2, RecordedType
<1>2. NextStep(step[r]) \in Steps
  BY DEF TypeOK, NextStep, Steps
<1>3. step' \in [Requests -> Steps] /\ phase' \in [Requests -> Phases]
  BY <1>2 DEF TypeOK, StepDone, Phases
<1>4. pc' \in [Requests -> Positions]
  BY <1>2 DEF TypeOK, StepDone, Goto, Positions
<1> QED
  BY <1>1, <1>3, <1>4 DEF TypeOK, StepDone, vcenter

LEMMA AdvanceType ==
  ASSUME TypeOK, NEW r \in Requests, NEW s \in Stages \union {"create"}, Advance(r, s)
  PROVE  TypeOK'
<1>1. CASE After(class[r], s) = "done"
  BY <1>1, StepDoneType DEF Advance
<1>2. CASE After(class[r], s) # "done"
  <2>1. After(class[r], s) \in Positions
    BY <1>2 DEF After, Stages, Positions, CreatePositions
  <2> QED
    BY <1>2, <2>1 DEF Advance, TypeOK, Goto, omni, vcenter
<1> QED
  BY <1>1, <1>2

LEMMA ReleaseType ==
  ASSUME TypeOK, NEW r \in Requests, Release(r)
  PROVE  TypeOK'
BY DEF TypeOK, Release, Goto, vcenter, Positions, Phases

\* A provisioning step of a request keeps the types.
LEMMA ProvisionType ==
  ASSUME TypeOK, NEW r \in Requests, PlaceInv(r), Provision(r)
  PROVE  TypeOK'
<1> USE DEF Positions, Steps, CreatePositions, Stages, TaskKinds
<1>1. CASE RunStep(r)
  BY <1>1, MoveType DEF RunStep, TypeOK
<1>2. CASE BeginCreate(r) \/ Resolve(r) \/ FindFolder(r) \/ FindExistingVM(r) \/ ReadPowerState(r)
  BY <1>2, MoveType DEF BeginCreate, Resolve, FindFolder, FindExistingVM, ReadPowerState
<1>3. CASE RejectData(r) \/ MissingLabel(r) \/ BadVersion(r)
  BY <1>3, FatalType DEF RejectData, MissingLabel, BadVersion
<1>4. CASE MakeFolder(r)
  BY <1>4, ClassFields DEF MakeFolder, TypeOK, omni, Goto, PlaceInv
<1>5. CASE Prepare(r) \/ PatchCA(r)
  BY <1>5 DEF Prepare, PatchCA, TypeOK, Goto, vcenter
<1>6. CASE CreateVM(r)
  BY <1>6, CallType DEF CreateVM, CloneFromTemplate, DeployFromContentLibrary
<1>7. CASE Reconfigure(r)
  BY <1>7, CallType, AdvanceType, ReconfigureStage DEF Stage
<1>8. CASE CreateTaskDone(r)
  BY <1>8, AdvanceType DEF CreateTaskDone
<1>9. CASE AttachTag(r)
  BY <1>9, ClassFields DEF AttachTag, TypeOK, Settings, omni
<1>10. CASE TagsAttached(r) \/ PCIAttached(r) \/ AlreadyOn(r) \/ StepTaskDone(r)
  BY <1>10, StepDoneType DEF TagsAttached, PCIAttached, AlreadyOn, StepTaskDone
<1>11. CASE AttachPCIDevices(r) \/ PowerOn(r)
  BY <1>11, CallType DEF AttachPCIDevices, PowerOn
<1> QED
  BY <1>1, <1>2, <1>3, <1>4, <1>5, <1>6, <1>7, <1>8, <1>9, <1>10, <1>11 DEF Provision

\* A step of the removal of a request keeps the types.
LEMMA RemoveType ==
  ASSUME TypeOK, NEW r \in Requests, Remove(r)
  PROVE  TypeOK'
<1> USE DEF Positions
<1>1. CASE StartDeprovision(r) \/ CheckPower(r) \/ PoweredOff(r)
  BY <1>1, MoveType DEF StartDeprovision, CheckPower, PoweredOff
<1>2. CASE Deprovision(r) \/ Locate(r)
  BY <1>2, MoveType, ReleaseType DEF Deprovision, Locate
<1>3. CASE PowerOff(r) \/ Destroy(r)
  BY <1>3, CallType DEF PowerOff, Destroy, TaskKinds
<1>4. CASE Destroyed(r)
  BY <1>4, ReleaseType DEF Destroyed
<1> QED
  BY <1>1, <1>2, <1>3, <1>4 DEF Remove

LEMMA NextType ==
  ASSUME TypeOK, \A r \in Requests : PlaceInv(r), [Next]_vars
  PROVE  TypeOK'
<1>1. ASSUME NEW r \in Requests, Worker(r)
      PROVE  TypeOK'
  <2>1. CASE Refused(r)
    BY <2>1, RetryType DEF Refused, TypeOK
  <2> QED
    BY <1>1, <2>1, ProvisionType, RemoveType DEF Worker
<1>2. ASSUME NEW r \in Requests, TaskSucceeds(r)
      PROVE  TypeOK'
  <2>1. task[r] \in TaskKinds => Effect(class[r], task[r]) \subseteq Settings
    BY EffectSettings
  <2>2. task[r] = "none" => Effect(class[r], task[r]) = {}
    BY DEF Effect, Stages
  <2> QED
    BY <1>2, <2>1, <2>2 DEF TaskSucceeds, TypeOK, omni
<1>3. ASSUME NEW r \in Requests, TaskFails(r)
      PROVE  TypeOK'
  BY <1>3, MaxFaultsAssumption DEF TaskFails, TypeOK, omni
<1>4. ASSUME NEW r \in Requests, TearDown(r)
      PROVE  TypeOK'
  BY <1>4 DEF TearDown, TypeOK, vcenter, Phases
<1>5. ASSUME NEW r \in Requests, Glitch(r)
      PROVE  TypeOK'
  BY <1>5, RetryType, MaxFaultsAssumption DEF Glitch, TypeOK
<1>6. CASE Crash
  BY <1>6, MaxFaultsAssumption DEF Crash, TypeOK, vcenter, Positions
<1>7. CASE UNCHANGED vars
  BY <1>7 DEF TypeOK, vars, omni, vcenter
<1> QED
  BY <1>1, <1>2, <1>3, <1>4, <1>5, <1>6, <1>7 DEF Next, Finished

-----------------------------------------------------------------------------
(***************************************************************************)
(* A step of one request leaves the others alone.                          *)
(***************************************************************************)

RequestStep(r) == Worker(r) \/ TaskSucceeds(r) \/ TaskFails(r) \/ TearDown(r) \/ Glitch(r)

\* What the invariants read of request q is as it was.
Same(q) ==
  /\ class' = class
  /\ phase'[q] = phase[q]
  /\ step'[q] = step[q]
  /\ patches'[q] = patches[q]
  /\ pc'[q] = pc[q]
  /\ power'[q] = power[q]
  /\ has'[q] = has[q]
  /\ task'[q] = task[q]
  /\ outcome'[q] = outcome[q]

LEMMA OthersSame ==
  ASSUME TypeOK, NEW r \in Requests, NEW q \in Requests \ {r}, RequestStep(r)
  PROVE  Same(q)
<1> USE DEF TypeOK, Same, Goto, omni, vcenter
<1>1. ASSUME NEW from, NEW to, Move(r, from, to)  PROVE Same(q)
  BY <1>1 DEF Move
<1>2. ASSUME NEW k, Call(r, k)  PROVE Same(q)
  BY <1>2 DEF Call
<1>3. ASSUME Fatal(r)  PROVE Same(q)
  BY <1>3 DEF Fatal
<1>4. ASSUME Retry(r)  PROVE Same(q)
  BY <1>4 DEF Retry
<1>5. ASSUME StepDone(r)  PROVE Same(q)
  BY <1>5 DEF StepDone
<1>6. ASSUME NEW s, Advance(r, s)  PROVE Same(q)
  BY <1>5, <1>6 DEF Advance
<1>7. ASSUME Release(r)  PROVE Same(q)
  BY <1>7 DEF Release
<1>8. CASE Provision(r)
  <2>1. CASE MakeFolder(r) \/ Prepare(r) \/ PatchCA(r) \/ AttachTag(r)
    BY <2>1 DEF MakeFolder, Prepare, PatchCA, AttachTag
  <2> QED
    BY <1>1, <1>2, <1>3, <1>5, <1>6, <1>8, <2>1, Zenon
    DEF Provision, RunStep, BeginCreate, RejectData, Resolve, MissingLabel, FindFolder,
        BadVersion, FindExistingVM, CreateVM, CloneFromTemplate, DeployFromContentLibrary,
          Reconfigure, EnsureFirmware, FinalizeVM, ResizeDisk, ConfigureNetwork, Stage, CreateTaskDone, TagsAttached,
        AttachPCIDevices, PCIAttached, ReadPowerState, AlreadyOn, PowerOn, StepTaskDone
<1>9. CASE Remove(r)
  BY <1>1, <1>2, <1>7, <1>9, Zenon
  DEF Remove, StartDeprovision, Deprovision, Locate, CheckPower, PowerOff, Destroy,
      PoweredOff, Destroyed
<1>10. CASE Refused(r) \/ Glitch(r)
  BY <1>4, <1>10 DEF Refused, Glitch
<1>11. CASE TaskSucceeds(r) \/ TaskFails(r) \/ TearDown(r)
  BY <1>11 DEF TaskSucceeds, TaskFails, TearDown
<1> QED
  BY <1>8, <1>9, <1>10, <1>11 DEF RequestStep, Worker

\* A step that is no success of a task and no tag leaves the VM as it is; a
\* request that is given up stays so, and goes in one of three places.
LEMMA StepQuiet ==
  ASSUME TypeOK, NEW r \in Requests, RequestStep(r), ~TaskSucceeds(r), ~AttachTag(r)
  PROVE  /\ UNCHANGED <<class, power, has>>
         /\ phase[r] \in {"tearingDown", "gone"} => phase'[r] \in {"tearingDown", "gone"}
         /\ phase[r] # "gone" /\ phase'[r] = "gone" =>
              Deprovision(r) \/ Locate(r) \/ Destroyed(r)
<1> DEFINE Quiet == UNCHANGED <<class, power, has, phase>>
<1> USE DEF TypeOK, omni, vcenter
<1>1. ASSUME NEW from, NEW to, Move(r, from, to)  PROVE Quiet
  BY <1>1 DEF Move
<1>2. ASSUME NEW k, Call(r, k)  PROVE Quiet
  BY <1>2 DEF Call
<1> DEFINE Ends == /\ UNCHANGED <<class, power, has>>
                   /\ phase[r] \in {"tearingDown", "gone"} => phase' = phase
                   /\ phase'[r] \in {phase[r], "failed", "provisioned"}
<1>3. ASSUME Fatal(r) \/ StepDone(r)  PROVE Ends
  BY <1>3 DEF Fatal, StepDone
<1>4. ASSUME NEW s, Advance(r, s)  PROVE Ends
  BY <1>3, <1>4 DEF Advance
<1>5. CASE Provision(r)
  <2>1. CASE MakeFolder(r) \/ Prepare(r) \/ PatchCA(r)
    BY <2>1 DEF MakeFolder, Prepare, PatchCA
  <2>2. CASE RunStep(r) \/ BeginCreate(r) \/ Resolve(r) \/ FindFolder(r) \/ FindExistingVM(r) \/ ReadPowerState(r)
    BY <1>1, <2>2, Zenon DEF RunStep, BeginCreate, Resolve, FindFolder, FindExistingVM, ReadPowerState
  <2>3. CASE CreateVM(r) \/ AttachPCIDevices(r) \/ PowerOn(r)
    BY <1>2, <2>3
    DEF CreateVM, CloneFromTemplate, DeployFromContentLibrary, AttachPCIDevices, PowerOn
  <2>4. CASE Reconfigure(r)
    BY <1>2, <1>4, <2>4, ReconfigureStage DEF Stage
  <2>5. CASE CreateTaskDone(r)
    BY <1>4, <2>5 DEF CreateTaskDone
  <2>6. CASE RejectData(r) \/ MissingLabel(r) \/ BadVersion(r)
    BY <1>3, <2>6 DEF RejectData, MissingLabel, BadVersion
  <2>7. CASE TagsAttached(r) \/ PCIAttached(r) \/ AlreadyOn(r) \/ StepTaskDone(r)
    BY <1>3, <2>7 DEF TagsAttached, PCIAttached, AlreadyOn, StepTaskDone
  <2> QED
    BY <1>5, <2>1, <2>2, <2>3, <2>4, <2>5, <2>6, <2>7 DEF Provision
<1>6. CASE Remove(r)
  BY <1>1, <1>2, <1>6
  DEF Remove, StartDeprovision, Deprovision, Locate, CheckPower, PowerOff, Destroy,
      PoweredOff, Destroyed, Release
<1>7. CASE Refused(r) \/ Glitch(r) \/ TaskFails(r) \/ TearDown(r)
  BY <1>7 DEF Refused, Glitch, Retry, TaskFails, TearDown
<1> QED
  BY <1>5, <1>6, <1>7 DEF RequestStep, Worker

-----------------------------------------------------------------------------
(***************************************************************************)
(* Each part of the invariant is kept by the steps of its request.         *)
(***************************************************************************)

LEMMA PlaceStep ==
  ASSUME IInv, NEW r \in Requests, RequestStep(r)
  PROVE  PlaceInv(r)'
<1> USE DEF TypeOK, PlaceInv, Goto, omni, vcenter, Steps, CreatePositions, RemovePositions, Stages
<1>0. TypeOK /\ PlaceInv(r)
  BY DEF IInv
<1>1. CASE RunStep(r)
  BY <1>0, <1>1 DEF RunStep, Move
<1>2. CASE BeginCreate(r) \/ Resolve(r) \/ FindFolder(r) \/ FindExistingVM(r) \/ ReadPowerState(r)
  BY <1>0, <1>2 DEF BeginCreate, Resolve, FindFolder, FindExistingVM, ReadPowerState, Move
<1>3. CASE RejectData(r) \/ MissingLabel(r) \/ BadVersion(r)
  BY <1>0, <1>3 DEF RejectData, MissingLabel, BadVersion, Fatal
<1>4. CASE MakeFolder(r) \/ Prepare(r) \/ PatchCA(r) \/ AttachTag(r)
  BY <1>0, <1>4 DEF MakeFolder, Prepare, PatchCA, AttachTag
<1>5. CASE CreateVM(r)
  BY <1>0, <1>5 DEF CreateVM, CloneFromTemplate, DeployFromContentLibrary, Call
<1>6. ASSUME NEW s \in Stages \union {"create"}, Advance(r, s), step[r] = "createVM",
             task[r] \notin {"powerOff", "destroy"}, phase[r] # "gone"
      PROVE  PlaceInv(r)'
  BY <1>0, <1>6 DEF Advance, After, StepDone, NextStep
<1>7. CASE Reconfigure(r)
  BY <1>0, <1>6, <1>7, ReconfigureStage DEF Stage, Call
<1>8. CASE CreateTaskDone(r)
  BY <1>0, <1>6, <1>8 DEF CreateTaskDone
<1>9. CASE TagsAttached(r) \/ PCIAttached(r) \/ AlreadyOn(r) \/ StepTaskDone(r)
  BY <1>0, <1>9 DEF TagsAttached, PCIAttached, AlreadyOn, StepTaskDone, StepDone, NextStep
<1>10. CASE AttachPCIDevices(r) \/ PowerOn(r)
  BY <1>0, <1>10 DEF AttachPCIDevices, PowerOn, Call
<1>11. CASE Remove(r)
  <2>1. CASE StartDeprovision(r) \/ CheckPower(r) \/ PoweredOff(r)
    BY <1>0, <2>1 DEF StartDeprovision, CheckPower, PoweredOff, Move
  <2>2. CASE Deprovision(r) \/ Locate(r)
    BY <1>0, <2>2 DEF Deprovision, Locate, Move, Release
  <2>3. CASE PowerOff(r) \/ Destroy(r)
    BY <1>0, <2>3 DEF PowerOff, Destroy, Call
  <2>4. CASE Destroyed(r)
    BY <1>0, <2>4 DEF Destroyed, Release
  <2> QED
    BY <1>11, <2>1, <2>2, <2>3, <2>4 DEF Remove
<1>12. CASE Refused(r) \/ Glitch(r)
  BY <1>0, <1>12 DEF Refused, Glitch, Retry
<1>13. CASE TaskSucceeds(r) \/ TaskFails(r)
  BY <1>0, <1>13 DEF TaskSucceeds, TaskFails
<1>14. CASE TearDown(r)
  BY <1>0, <1>14 DEF TearDown
<1> QED
  BY <1>1, <1>2, <1>3, <1>4, <1>5, <1>7, <1>8, <1>9, <1>10, <1>11, <1>12, <1>13, <1>14
  DEF RequestStep, Worker, Provision

LEMMA TaskStep ==
  ASSUME IInv, NEW r \in Requests, RequestStep(r)
  PROVE  TaskInv(r)'
<1> USE DEF TypeOK, TaskInv, Goto, omni, vcenter, Present
<1>0. TypeOK /\ TaskInv(r) /\ PlaceInv(r)
  BY DEF IInv
\* Every other step leaves the task, the power and the class, and takes no setting away.
<1>1. ASSUME UNCHANGED <<class, power, task, outcome>>, has[r] \subseteq has'[r]
      PROVE  TaskInv(r)'
  BY <1>0, <1>1 DEF Effect, Granted
<1>2. ASSUME NEW k \in TaskKinds, Call(r, k), power[r] # "destroyed"
      PROVE  TaskInv(r)'
  BY <1>0, <1>2 DEF Call, Accepts, TaskKinds, Stages
<1>3. ASSUME NEW from, NEW to, Move(r, from, to)  PROVE TaskInv(r)'
  BY <1>0, <1>1, <1>3 DEF Move
<1>4. ASSUME Fatal(r) \/ Retry(r) \/ StepDone(r) \/ Release(r)  PROVE TaskInv(r)'
  BY <1>0, <1>1, <1>4 DEF Fatal, Retry, StepDone, Release
<1>5. ASSUME NEW s, Advance(r, s)  PROVE TaskInv(r)'
  BY <1>0, <1>1, <1>4, <1>5 DEF Advance
<1>6. CASE Provision(r)
  <2>1. CASE MakeFolder(r) \/ Prepare(r) \/ PatchCA(r) \/ AttachTag(r)
    BY <1>0, <1>1, <2>1 DEF MakeFolder, Prepare, PatchCA, AttachTag
  <2>2. CASE CreateVM(r) \/ AttachPCIDevices(r) \/ PowerOn(r)
    <3>1. power[r] # "destroyed"
      BY <1>0, <2>2 DEF CreateVM, CloneFromTemplate, DeployFromContentLibrary, AttachPCIDevices, PowerOn, PlaceInv, RemovePositions, TaskKinds, Stages
    <3> QED
      BY <1>2, <2>2, <3>1 DEF CreateVM, CloneFromTemplate, DeployFromContentLibrary, AttachPCIDevices, PowerOn, TaskKinds
  <2>3. CASE Reconfigure(r)
    <3>1. PICK s \in Stages : pc[r] = s /\ (Call(r, s) \/ Advance(r, s))
      BY <2>3, ReconfigureStage DEF Stage
    <3>2. power[r] # "destroyed"
      BY <1>0, <3>1 DEF PlaceInv, RemovePositions, TaskKinds, Stages
    <3> QED
      BY <1>2, <1>5, <3>1, <3>2 DEF TaskKinds
  <2> QED
    BY <1>3, <1>4, <1>5, <1>6, <2>1, <2>2, <2>3, Zenon
    DEF Provision, RunStep, BeginCreate, RejectData, Resolve, MissingLabel, FindFolder,
        BadVersion, FindExistingVM, CreateTaskDone, TagsAttached,
        PCIAttached, ReadPowerState, AlreadyOn, StepTaskDone
<1>7. CASE Remove(r)
  <2>1. CASE PowerOff(r) \/ Destroy(r)
    BY <1>0, <1>2, <2>1 DEF PowerOff, Destroy, Call, Accepts, TaskKinds, Stages
  <2> QED
    BY <1>3, <1>4, <1>7, <2>1, Zenon
    DEF Remove, StartDeprovision, Deprovision, Locate, CheckPower, PoweredOff, Destroyed
<1>8. CASE Refused(r) \/ Glitch(r)
  BY <1>4, <1>8 DEF Refused, Glitch
<1>9. CASE TaskSucceeds(r)
  <2>1. Effect(class[r], task[r])' \subseteq has'[r]
    BY <1>0, <1>9 DEF TaskSucceeds, Effect, Granted
  <2> QED
    BY <1>0, <1>9, <2>1 DEF TaskSucceeds
<1>10. CASE TaskFails(r)
  BY <1>0, <1>10 DEF TaskFails
<1>11. CASE TearDown(r)
  BY <1>0, <1>1, <1>11 DEF TearDown
<1> QED
  BY <1>6, <1>7, <1>8, <1>9, <1>10, <1>11 DEF RequestStep, Worker

LEMMA PreparedStep ==
  ASSUME IInv, NEW r \in Requests, RequestStep(r)
  PROVE  PreparedInv(r)'
<1> USE DEF TypeOK, PreparedInv, Goto, omni, vcenter
<1>0. /\ TypeOK /\ TaskInv(r) /\ PlaceInv(r) /\ PreparedInv(r) /\ SettingsInv(r)
      /\ class[r].flaw \in Flaws /\ class[r].ca \in BOOLEAN
  BY ClassFields DEF IInv
\* What holds of a request that has a VM or a task.
<1>1. task[r] # "none" \/ power[r] # "absent" =>
        class[r].flaw \notin EarlyFlaws /\ RequiredPatches(class[r]) \subseteq patches[r]
  BY <1>0 DEF TaskInv
<1>2. ASSUME class' = class, patches' = patches, task' = task, pc'[r] \notin CreatePositions
      PROVE  PreparedInv(r)'
  BY <1>0, <1>2 DEF CreatePositions
<1>3. ASSUME class' = class, patches' = patches, task' = task, pc'[r] \in Stages,
             task[r] # "none" \/ power[r] # "absent"
      PROVE  PreparedInv(r)'
  BY <1>0, <1>1, <1>3 DEF CreatePositions, Stages, EarlyFlaws, Flaws
<1>4. ASSUME NEW s \in Stages \union {"create"}, Advance(r, s),
             task[r] # "none" \/ power[r] # "absent"
      PROVE  PreparedInv(r)'
  <2>1. pc'[r] \in Stages \union {"idle"} \union Steps
    BY <1>0, <1>4 DEF Advance, After, StepDone, NextStep, Steps, Stages
  <2> QED
    BY <1>0, <1>2, <1>3, <1>4, <2>1 DEF Advance, StepDone, Steps, CreatePositions, Stages
<1>5. ASSUME NEW k, Call(r, k),
             class[r].flaw \notin EarlyFlaws, RequiredPatches(class[r]) \subseteq patches[r]
      PROVE  PreparedInv(r)'
  BY <1>0, <1>5 DEF Call, CreatePositions, Stages
<1>6. CASE Provision(r)
  <2>1. CASE BeginCreate(r) \/ Resolve(r) \/ FindFolder(r)
    BY <1>0, <2>1 DEF BeginCreate, Resolve, FindFolder, Move, CreatePositions, Stages
  <2>2. CASE MakeFolder(r)
    BY <1>0, <2>2 DEF MakeFolder, CreatePositions, Stages
  <2>3. CASE Prepare(r) \/ PatchCA(r)
    BY <1>0, <2>3 DEF Prepare, PatchCA, CreatePositions, Stages, RequiredPatches
  <2>4. CASE FindExistingVM(r)
    BY <1>0, <1>3, <2>4 DEF FindExistingVM, Move, Present, CreatePositions, Stages
  <2>5. CASE CreateVM(r)
    <3>1. class[r].flaw \notin EarlyFlaws /\ RequiredPatches(class[r]) \subseteq patches[r]
      BY <1>0, <2>5 DEF CreateVM, CloneFromTemplate, DeployFromContentLibrary, EarlyFlaws, Flaws, CreatePositions
    <3> QED
      BY <1>5, <2>5, <3>1 DEF CreateVM, CloneFromTemplate, DeployFromContentLibrary
  <2>6. CASE Reconfigure(r)
    <3>1. PICK s \in Stages : pc[r] = s /\ (Call(r, s) \/ Advance(r, s))
      BY <2>6, ReconfigureStage DEF Stage
    <3>2. power[r] # "absent"
      BY <1>0, <3>1 DEF SettingsInv
    <3> QED
      BY <1>1, <1>4, <1>5, <3>1, <3>2
  <2>7. CASE CreateTaskDone(r)
    BY <1>0, <1>4, <2>7 DEF CreateTaskDone, Stages
  <2>8. CASE AttachTag(r)
    BY <1>0, <2>8 DEF AttachTag
  <2>9. CASE AttachPCIDevices(r) \/ PowerOn(r)
    <3>1. power[r] # "absent"
      BY <2>9 DEF AttachPCIDevices, PowerOn, Call, Accepts, Stages
    <3> QED
      BY <1>1, <1>5, <2>9, <3>1 DEF AttachPCIDevices, PowerOn
  <2>10. CASE RunStep(r) \/ ReadPowerState(r)
    BY <1>0, <1>2, <2>10 DEF RunStep, ReadPowerState, Move, Steps, CreatePositions, Stages
  <2>11. CASE RejectData(r) \/ MissingLabel(r) \/ BadVersion(r)
    BY <1>0, <1>2, <2>11 DEF RejectData, MissingLabel, BadVersion, Fatal, CreatePositions, Stages
  <2>12. CASE TagsAttached(r) \/ PCIAttached(r) \/ AlreadyOn(r) \/ StepTaskDone(r)
    <3>1. StepDone(r)
      BY <2>12 DEF TagsAttached, PCIAttached, AlreadyOn, StepTaskDone
    <3>2. pc'[r] \notin CreatePositions
      BY <1>0, <3>1 DEF StepDone, NextStep, Steps, CreatePositions, Stages
    <3> QED
      BY <1>2, <3>1, <3>2 DEF StepDone
  <2> QED
    BY <1>6, <2>1, <2>2, <2>3, <2>4, <2>5, <2>6, <2>7, <2>8, <2>9, <2>10, <2>11, <2>12 DEF Provision
<1>7. CASE Remove(r)
  <2>1. CASE PowerOff(r) \/ Destroy(r)
    <3>1. power[r] # "absent"
      BY <2>1 DEF PowerOff, Destroy, Call, Accepts, Stages
    <3> QED
      BY <1>1, <1>5, <2>1, <3>1 DEF PowerOff, Destroy
  <2>2. CASE StartDeprovision(r) \/ CheckPower(r) \/ PoweredOff(r)
    BY <1>0, <1>2, <2>2 DEF StartDeprovision, CheckPower, PoweredOff, Move, CreatePositions, Stages
  <2>3. CASE Deprovision(r) \/ Locate(r) \/ Destroyed(r)
    BY <1>0, <1>2, <2>3 DEF Deprovision, Locate, Destroyed, Move, Release, CreatePositions, Stages
  <2> QED
    BY <1>7, <2>1, <2>2, <2>3 DEF Remove
<1>8. CASE Refused(r) \/ Glitch(r)
  BY <1>0, <1>2, <1>8 DEF Refused, Glitch, Retry, CreatePositions, Stages
<1>9. CASE TaskSucceeds(r) \/ TaskFails(r) \/ TearDown(r)
  BY <1>0, <1>9 DEF TaskSucceeds, TaskFails, TearDown
<1> QED
  BY <1>6, <1>7, <1>8, <1>9 DEF RequestStep, Worker

\* What a stage that needs nothing, or a task that is done, leaves behind is
\* what the next stage counts on, and after the last stage the VM is set up.
LEMMA StageSettings ==
  ASSUME TypeOK, NEW r \in Requests, NEW s \in Stages,
         Before(class[r], s) \subseteq has[r],
         s = "config" => class[r].library,
         s = "network" => ~class[r].library,
         s \in has[r] \/ (s # "config" /\ s \notin class[r].wants)
  PROVE  LET n == After(class[r], s)
         IN  /\ n \in Stages => Before(class[r], n) \subseteq has[r]
             /\ n = "config" => class[r].library
             /\ n = "network" => ~class[r].library
             /\ n = "done" => {"config"} \union class[r].wants \subseteq has[r]
<1>1. /\ class[r].wants \subseteq {"firmware", "disk", "network", "policy"}
      /\ class[r].library \in BOOLEAN
  BY ClassFields
<1>2. CASE s = "firmware"
  BY <1>1, <1>2 DEF After, Before, Granted, Stages
<1>3. CASE s = "config"
  BY <1>1, <1>3 DEF After, Before, Granted, Stages
<1>4. CASE s = "disk"
  BY <1>1, <1>4 DEF After, Before, Granted, Stages
<1>5. CASE s = "network"
  BY <1>1, <1>5 DEF After, Before, Granted, Stages
<1> QED
  BY <1>2, <1>3, <1>4, <1>5 DEF Stages

LEMMA SettingsStep ==
  ASSUME IInv, NEW r \in Requests, RequestStep(r)
  PROVE  SettingsInv(r)'
<1> USE DEF TypeOK, SettingsInv, Goto, omni, vcenter
<1>0. TypeOK /\ TaskInv(r) /\ PlaceInv(r) /\ SettingsInv(r)
  BY DEF IInv
<1> DEFINE Kept == UNCHANGED <<class, power, task>> /\ has[r] \subseteq has'[r]
                   /\ has'[r] \subseteq has[r] \union Tags
           SetUp == {"config"} \union class[r].wants \subseteq has[r]
\* A step that leaves the VM and goes nowhere near a stage.
<1>1. ASSUME Kept, step' = step, pc'[r] \notin Stages \union {"await"}
      PROVE  SettingsInv(r)'
  BY <1>0, <1>1, NamesAssumption DEF At, Before, Granted, Required, Stages
\* A step ends: what it had to give is there.
<1>2. ASSUME StepDone(r),
             step[r] = "createVM" => SetUp,
             step[r] = "attachTags" => class[r].tags \subseteq has[r],
             step[r] = "attachPCIDevices" =>
               class[r].pci \subseteq has[r] /\ (class[r].pci # {} => "reservation" \in has[r])
      PROVE  SettingsInv(r)'
  <2>1. /\ UNCHANGED <<class, power, task, has>>
        /\ step'[r] = NextStep(step[r])
        /\ pc'[r] \in {"idle"} \union Steps
        /\ step[r] \in Steps
    BY <1>0, <1>2 DEF StepDone, NextStep, Steps
  <2>2. /\ step'[r] # "createVM" => SetUp
        /\ step'[r] \in {"attachPCIDevices", "powerOnVM"} => class[r].tags \subseteq has[r]
        /\ step'[r] = "powerOnVM" => Required(class[r]) \subseteq has[r]
    BY <1>0, <1>2, <2>1 DEF NextStep, Steps, Required
  <2> QED
    BY <1>0, <2>1, <2>2 DEF At, Stages, Steps
  
\* createVM goes on after a stage that is done or not needed.
<1>3. ASSUME NEW s \in Stages, At(r) = s, pc[r] # "idle", step[r] = "createVM",
             power[r] # "absent", Advance(r, s),
             s \in has[r] \/ (s # "config" /\ s \notin class[r].wants)
      PROVE  SettingsInv(r)'
  <2> DEFINE n == After(class[r], s)
  <2>1. /\ n \in Stages => Before(class[r], n) \subseteq has[r]
        /\ n = "config" => class[r].library
        /\ n = "network" => ~class[r].library
        /\ n = "done" => SetUp
    BY <1>0, <1>3, StageSettings
  <2>2. CASE n = "done"
    BY <1>2, <1>3, <2>1, <2>2 DEF Advance
  <2>3. CASE n # "done"
    <3>1. n \in Stages
      BY <1>3, <2>3 DEF After, Stages
    <3> QED
      BY <1>0, <1>3, <2>1, <2>3, <3>1 DEF Advance, At, Stages
  <2> QED
    BY <2>2, <2>3
<1>4. CASE Provision(r)
  <2>1. CASE RunStep(r) \/ BeginCreate(r) \/ Resolve(r) \/ FindFolder(r) \/ ReadPowerState(r)
    BY <1>0, <1>1, <2>1
    DEF RunStep, BeginCreate, Resolve, FindFolder, ReadPowerState, Move, Stages, Steps
  <2>2. CASE RejectData(r) \/ MissingLabel(r) \/ BadVersion(r)
    BY <1>0, <1>1, <2>2 DEF RejectData, MissingLabel, BadVersion, Fatal, Stages
  <2>3. CASE MakeFolder(r) \/ Prepare(r) \/ PatchCA(r) \/ AttachTag(r)
    BY <1>0, <1>1, <2>3, ClassFields DEF MakeFolder, Prepare, PatchCA, AttachTag, Stages
  <2>4. CASE FindExistingVM(r)
    BY <1>0, <2>4 DEF FindExistingVM, Move, Present, At, Before, Stages
  <2>5. CASE CreateVM(r)
    BY <1>0, <2>5 DEF CreateVM, CloneFromTemplate, DeployFromContentLibrary, Call, Accepts, Present, At, Stages
  <2>6. CASE Reconfigure(r)
    <3>1. PICK s \in Stages : pc[r] = s /\ (IF Needed(r, s) THEN Call(r, s) ELSE Advance(r, s))
      BY <2>6, ReconfigureStage DEF Stage
    <3>2. CASE Needed(r, s)
      BY <1>0, <3>1, <3>2 DEF Call, At, Stages
    <3>3. CASE ~Needed(r, s)
      <4>1. s \in has[r] \/ (s # "config" /\ s \notin class[r].wants)
        BY <3>3 DEF Needed
      <4>2. step[r] = "createVM" /\ power[r] # "absent" /\ At(r) = s /\ pc[r] # "idle"
        BY <1>0, <3>1 DEF PlaceInv, CreatePositions, At, Stages
      <4> QED
        BY <1>3, <3>1, <3>3, <4>1, <4>2
    <3> QED
      BY <3>2, <3>3
  <2>7. CASE CreateTaskDone(r)
    <3>1. step[r] = "createVM" /\ At(r) = task[r] /\ pc[r] # "idle"
      BY <1>0, <2>7 DEF CreateTaskDone, PlaceInv, At
    <3>2. CASE task[r] = "create"
      <4>1. Granted(class[r]) \subseteq has[r] /\ power[r] = "off" /\ After(class[r], task[r]) = "firmware"
        BY <1>0, <2>7, <3>2 DEF CreateTaskDone, TaskInv, After, Effect
      <4> QED
        BY <1>0, <2>7, <3>1, <3>2, <4>1 DEF CreateTaskDone, Advance, At, Before, Stages
    <3>3. CASE task[r] \in Stages
      <4>1. task[r] \in has[r] /\ power[r] # "absent"
        BY <1>0, <2>7, <3>3 DEF CreateTaskDone, TaskInv, Effect, Present, Stages
      <4> QED
        BY <1>3, <2>7, <3>1, <3>3, <4>1 DEF CreateTaskDone
    <3> QED
      BY <2>7, <3>2, <3>3 DEF CreateTaskDone
  <2>8. CASE TagsAttached(r)
    BY <1>0, <1>2, <2>8, ClassFields DEF TagsAttached, PlaceInv, Steps
  <2>9. CASE PCIAttached(r)
    BY <1>0, <1>2, <2>9, ClassFields DEF PCIAttached, PlaceInv, Steps
  <2>10. CASE AlreadyOn(r)
    BY <1>0, <1>2, <2>10 DEF AlreadyOn, PlaceInv, Steps
  <2>11. CASE StepTaskDone(r)
    <3>1. task[r] = "pci" => class[r].pci \union {"reservation"} \subseteq has[r]
      BY <1>0, <2>11 DEF StepTaskDone, TaskInv, Effect, Stages
    <3> QED
      BY <1>0, <1>2, <2>11, <3>1 DEF StepTaskDone, PlaceInv, Steps
  <2>12. CASE AttachPCIDevices(r) \/ PowerOn(r)
    BY <1>0, <2>12 DEF AttachPCIDevices, PowerOn, Call, PlaceInv, At, Stages
  <2> QED
    BY <1>4, <2>1, <2>2, <2>3, <2>4, <2>5, <2>6, <2>7, <2>8, <2>9, <2>10, <2>11, <2>12 DEF Provision
<1>5. CASE Remove(r)
  <2>1. CASE StartDeprovision(r) \/ CheckPower(r) \/ PoweredOff(r)
    BY <1>0, <1>1, <2>1 DEF StartDeprovision, CheckPower, PoweredOff, Move, Stages
  <2>2. CASE Deprovision(r) \/ Locate(r) \/ Destroyed(r)
    BY <1>0, <1>1, <2>2 DEF Deprovision, Locate, Destroyed, Move, Release, Stages
  <2>3. CASE PowerOff(r) \/ Destroy(r)
    BY <1>0, <2>3 DEF PowerOff, Destroy, Call, At, Stages
  <2> QED
    BY <1>5, <2>1, <2>2, <2>3 DEF Remove
<1>6. CASE Refused(r) \/ Glitch(r)
  BY <1>0, <1>1, <1>6 DEF Refused, Glitch, Retry, Stages
<1>7. CASE TaskSucceeds(r)
  <2>1. class' = class /\ task' = task /\ pc' = pc /\ step' = step /\ has[r] \subseteq has'[r]
    BY <1>0, <1>7 DEF TaskSucceeds
  <2>2. power'[r] # "absent" => Granted(class[r]) \subseteq has'[r]
    BY <1>0, <1>7, <2>1 DEF TaskSucceeds, TaskInv, Effect, Present, TaskKinds, Stages
  <2>3. power'[r] = "on" => task[r] = "powerOn" \/ power[r] = "on"
    BY <1>0, <1>7 DEF TaskSucceeds
  <2>4. power[r] # "absent" => power'[r] # "absent"
    BY <1>0, <1>7 DEF TaskSucceeds
  <2>5. has'[r] \intersect Devices # {} => "reservation" \in has'[r]
    <3>1. Effect(class[r], task[r]) \intersect Devices # {} =>
            "reservation" \in Effect(class[r], task[r])
      BY <1>0, ClassFields, NamesAssumption DEF Effect, Granted, OwnSettings, Stages
    <3> QED
      BY <1>0, <1>7, <3>1 DEF TaskSucceeds
  <2> QED
    BY <1>0, <2>1, <2>2, <2>3, <2>4, <2>5 DEF At, Before, Required, Granted
<1>8. CASE TaskFails(r) \/ TearDown(r)
  BY <1>0, <1>8 DEF TaskFails, TearDown, At, Before, Required, Granted
<1> QED
  BY <1>4, <1>5, <1>6, <1>7, <1>8 DEF RequestStep, Worker

LEMMA ProvisionedStep ==
  ASSUME IInv, NEW r \in Requests, RequestStep(r)
  PROVE  (phase[r] = "provisioned" => power[r] = "on")'
<1> USE DEF TypeOK, omni, vcenter
<1>0. /\ TypeOK /\ TaskInv(r) /\ PlaceInv(r)
      /\ phase[r] = "provisioned" => power[r] = "on"
  BY DEF IInv, ProvisionedRuns
<1>1. CASE power' = power /\ (phase'[r] = "provisioned" => phase[r] = "provisioned")
  BY <1>0, <1>1
<1>2. ASSUME StepDone(r), step[r] = "powerOnVM" => power[r] = "on"
      PROVE  (phase[r] = "provisioned" => power[r] = "on")'
  BY <1>0, <1>2 DEF StepDone
<1>3. ASSUME NEW s, Advance(r, s), step[r] = "createVM"
      PROVE  (phase[r] = "provisioned" => power[r] = "on")'
  BY <1>0, <1>2, <1>3 DEF Advance
<1>4. CASE Provision(r)
  <2>1. CASE TagsAttached(r) \/ PCIAttached(r)
    BY <1>0, <1>2, <2>1 DEF TagsAttached, PCIAttached, PlaceInv, Steps
  <2>2. CASE AlreadyOn(r)
    BY <1>2, <2>2 DEF AlreadyOn
  <2>3. CASE StepTaskDone(r)
    BY <1>0, <1>2, <2>3 DEF StepTaskDone, PlaceInv, TaskInv
  <2>4. CASE Reconfigure(r)
    <3>1. PICK s \in Stages : pc[r] = s /\ (Call(r, s) \/ Advance(r, s))
      BY <2>4, ReconfigureStage DEF Stage
    <3>2. step[r] = "createVM"
      BY <1>0, <3>1 DEF PlaceInv, CreatePositions
    <3> QED
      BY <1>1, <1>3, <3>1, <3>2 DEF Call
  <2>5. CASE CreateTaskDone(r)
    BY <1>0, <1>3, <2>5 DEF CreateTaskDone, PlaceInv
  <2>6. CASE RejectData(r) \/ MissingLabel(r) \/ BadVersion(r)
    BY <1>0, <1>1, <2>6 DEF RejectData, MissingLabel, BadVersion, Fatal
  <2>7. CASE MakeFolder(r) \/ Prepare(r) \/ PatchCA(r) \/ AttachTag(r)
    BY <1>1, <2>7 DEF MakeFolder, Prepare, PatchCA, AttachTag
  <2> QED
    BY <1>1, <1>4, <2>1, <2>2, <2>3, <2>4, <2>5, <2>6, <2>7
    DEF Provision, RunStep, BeginCreate, Resolve, FindFolder, FindExistingVM, CreateVM,
        CloneFromTemplate, DeployFromContentLibrary, AttachPCIDevices, ReadPowerState, PowerOn, Call, Move
<1>5. CASE Remove(r)
  BY <1>0, <1>1, <1>5
  DEF Remove, StartDeprovision, Deprovision, Locate, CheckPower, PowerOff, Destroy,
      PoweredOff, Destroyed, Move, Call, Release
<1>6. CASE Refused(r) \/ Glitch(r)
  BY <1>1, <1>6 DEF Refused, Glitch, Retry
\* Only a removal takes the power away, and by then the request is given up.
<1>7. CASE TaskSucceeds(r)
  BY <1>0, <1>7 DEF TaskSucceeds, PlaceInv, TaskInv
<1>8. CASE TaskFails(r)
  BY <1>1, <1>8 DEF TaskFails
<1>9. CASE TearDown(r)
  BY <1>0, <1>9 DEF TearDown
<1> QED
  BY <1>4, <1>5, <1>6, <1>7, <1>8, <1>9 DEF RequestStep, Worker

-----------------------------------------------------------------------------
(***************************************************************************)
(* The invariant holds, and with it the safety properties.                 *)
(***************************************************************************)

LEMMA InitInvariant == Init => IInv
<1> SUFFICES ASSUME Init  PROVE IInv
  OBVIOUS
<1>1. TypeOK /\ ProvisionedRuns
  BY InitType DEF Init, ProvisionedRuns
<1>2. ASSUME NEW r \in Requests
      PROVE  PlaceInv(r) /\ TaskInv(r) /\ PreparedInv(r) /\ SettingsInv(r)
  BY <1>2
  DEF Init, PlaceInv, TaskInv, PreparedInv, SettingsInv, At, Steps, CreatePositions,
      RemovePositions, Stages
<1> QED
  BY <1>1, <1>2 DEF IInv

LEMMA NextInvariant == IInv /\ [Next]_vars => IInv'
<1> SUFFICES ASSUME IInv, [Next]_vars  PROVE IInv'
  OBVIOUS
<1>1. TypeOK'
  BY NextType DEF IInv
<1> DEFINE Holds(q) == /\ phase[q] = "provisioned" => power[q] = "on"
                       /\ PlaceInv(q) /\ TaskInv(q) /\ PreparedInv(q) /\ SettingsInv(q)
<1>2. \A q \in Requests : Holds(q)
  BY DEF IInv, ProvisionedRuns
<1>3. ASSUME NEW q \in Requests, Same(q)
      PROVE  Holds(q)'
  BY <1>2, <1>3
  DEF Same, PlaceInv, TaskInv, PreparedInv, SettingsInv, At, Present
<1>4. ASSUME NEW r \in Requests, RequestStep(r), NEW q \in Requests
      PROVE  Holds(q)'
  <2>1. CASE q = r
    BY <1>4, <2>1, PlaceStep, TaskStep, PreparedStep, SettingsStep, ProvisionedStep
  <2>2. CASE q # r
    <3>1. Same(q)
      BY <1>4, <2>2, OthersSame DEF IInv
    <3> QED
      BY <1>3, <3>1
  <2> QED
    BY <2>1, <2>2
<1>5. ASSUME Crash, NEW q \in Requests
      PROVE  Holds(q)'
  <2>1. /\ UNCHANGED <<class, phase, patches, power, has, task, outcome>>
        /\ pc'[q] = "idle"
        /\ step'[q] \in {step[q], "createVM"}
    BY <1>5 DEF Crash, vcenter
  <2> QED
    BY <1>2, <2>1
    DEF PlaceInv, TaskInv, PreparedInv, SettingsInv, At, Present, Steps, CreatePositions,
        RemovePositions, Stages
<1>6. ASSUME UNCHANGED vars, NEW q \in Requests
      PROVE  Holds(q)'
  BY <1>3, <1>6 DEF vars, omni, vcenter, Same
<1>7. ASSUME NEW q \in Requests
      PROVE  Holds(q)'
  BY <1>4, <1>5, <1>6 DEF Next, Finished, RequestStep
<1> QED
  BY <1>1, <1>7 DEF IInv, ProvisionedRuns

\* At each position of the code, in every reachable state, the VM, its task, the
\* patches and the settings are as the steps before left them (ProvisionSteps
\* and Deprovision in provision.go).
THEOREM Invariance == Spec => []IInv
<1>1. Init => IInv
  BY InitInvariant
<1>2. IInv /\ [Next]_vars => IInv'
  BY NextInvariant
<1> QED
  BY <1>1, <1>2, PTL DEF Spec

\* The state of the worker, of vCenter and of Omni stays within its types.
THEOREM TypeCorrect == Spec => []TypeOK
<1>1. IInv => TypeOK
  BY DEF IInv
<1> QED
  BY <1>1, Invariance, PTL

\* powerOnVM never leaves a VM running that lacks a setting, tag or device of
\* its machine class, for any requests, classes and number of faults.
THEOREM RunningComplete == Spec => []RunningIsComplete
<1>1. IInv => RunningIsComplete
  BY DEF IInv, RunningIsComplete, SettingsInv
<1> QED
  BY <1>1, Invariance, PTL

\* A request is provisioned only while its VM runs.
THEOREM ProvisionedHasVM == Spec => []ProvisionedRuns
<1>1. IInv => ProvisionedRuns
  BY DEF IInv
<1> QED
  BY <1>1, Invariance, PTL

\* createVM resolves every name and meets every fatal error before the VM.
THEOREM FlawsLeaveNothing == Spec => []BadDataLeavesNoVM
<1>1. IInv => BadDataLeavesNoVM
  <2> SUFFICES ASSUME IInv, NEW r \in Requests, class[r].flaw \in EarlyFlaws
               PROVE  power[r] = "absent" /\ task[r] = "none"
    BY DEF BadDataLeavesNoVM
  <2> QED
    BY DEF IInv, PreparedInv, TaskInv
<1> QED
  BY <1>1, Invariance, PTL

\* createVM creates the hostname and CA patches before the VM that joins with them.
THEOREM PatchesFirst == Spec => []PatchedBeforeVM
<1>1. IInv => PatchedBeforeVM
  <2> SUFFICES ASSUME IInv, NEW r \in Requests, power[r] # "absent"
               PROVE  RequiredPatches(class[r]) \subseteq patches[r]
    BY DEF PatchedBeforeVM
  <2> QED
    BY DEF IInv, PreparedInv, TaskInv
<1> QED
  BY <1>1, Invariance, PTL

\* Deprovision lets a request go only at a moment when vCenter holds no VM of it.
THEOREM GoneRemoved == Spec => GoneOnlyWhenRemoved
<1> DEFINE Gone == \A r \in Requests : phase[r] # "gone" /\ phase'[r] = "gone" => ~Present(r)
<1>1. ASSUME IInv, Next, NEW q \in Requests, phase[q] # "gone", phase'[q] = "gone"
      PROVE  ~Present(q)
  <2>1. PICK r \in Requests : RequestStep(r)
    BY <1>1 DEF Next, RequestStep, Crash, Finished
  <2>2. TypeOK /\ q = r
    BY <1>1, <2>1, OthersSame DEF Same, IInv
  <2>3. Deprovision(q) \/ Locate(q) \/ Destroyed(q)
    <3>1. ~TaskSucceeds(q) /\ ~AttachTag(q)
      BY <1>1, <2>2 DEF TaskSucceeds, AttachTag, omni
    <3> QED
      BY <1>1, <2>1, <2>2, <3>1, StepQuiet
  <2>4. class[q].flaw = "data" => ~Present(q)
    BY <1>1 DEF IInv, PreparedInv, TaskInv, EarlyFlaws, Flaws, Present
  <2>5. CASE Deprovision(q)
    BY <1>1, <2>2, <2>4, <2>5 DEF Deprovision, KnowsDatacenter, Move, omni
  <2>6. CASE Locate(q)
    BY <1>1, <2>2, <2>6 DEF Locate, Move, omni
  <2>7. CASE Destroyed(q)
    BY <1>1, <2>7 DEF Destroyed, IInv, TaskInv, Present
  <2> QED
    BY <2>3, <2>5, <2>6, <2>7
<1>2. IInv /\ [Next]_vars => [Gone]_vars
  BY <1>1 DEF Gone
<1> QED
  BY <1>2, Invariance, PTL DEF Spec, GoneOnlyWhenRemoved

-----------------------------------------------------------------------------
(***************************************************************************)
(* The refinement of VMLifecycle.                                          *)
(***************************************************************************)

\* The variables of VMLifecycle.
Complete == [r \in Requests |-> Required(class[r]) \subseteq has[r]]
Wanted   == [r \in Requests |-> phase[r] \notin {"tearingDown", "gone"}]

\* Two functions that differ at one point at most.
LEMMA FunctionUpdate ==
  ASSUME NEW S, NEW T, NEW f \in [S -> T], NEW g \in [S -> T], NEW r \in S,
         \A q \in S \ {r} : g[q] = f[q]
  PROVE  g = [f EXCEPT ![r] = g[r]]
OBVIOUS

LEMMA AbstractType ==
  /\ Complete \in [Requests -> BOOLEAN]
  /\ Wanted \in [Requests -> BOOLEAN]
  /\ \A q \in Requests : /\ Complete[q] = (Required(class[q]) \subseteq has[q])
                         /\ Wanted[q] = (phase[q] \notin {"tearingDown", "gone"})
BY Zenon DEF Complete, Wanted

LEMMA AbstractTypeNext ==
  /\ Complete' \in [Requests -> BOOLEAN]
  /\ Wanted' \in [Requests -> BOOLEAN]
  /\ \A q \in Requests : /\ Complete'[q] = (Required(class'[q]) \subseteq has'[q])
                         /\ Wanted'[q] = (phase'[q] \notin {"tearingDown", "gone"})
BY Zenon DEF Complete, Wanted, Required

\* A step of request r touches what VMLifecycle reads of r alone.
LEMMA AbstractUpdate ==
  ASSUME TypeOK, TypeOK', NEW r \in Requests, RequestStep(r)
  PROVE  /\ power' = [power EXCEPT ![r] = power'[r]]
         /\ Complete' = [Complete EXCEPT ![r] = Complete'[r]]
         /\ Wanted' = [Wanted EXCEPT ![r] = Wanted'[r]]
<1>1. ASSUME NEW q \in Requests \ {r}
      PROVE  power'[q] = power[q] /\ Complete'[q] = Complete[q] /\ Wanted'[q] = Wanted[q]
  BY <1>1, OthersSame, AbstractType, AbstractTypeNext DEF Same
<1> QED
  BY <1>1, FunctionUpdate, AbstractType, AbstractTypeNext DEF TypeOK

\* A step that leaves the power and the settings of its VM is a stutter, or the
\* moment the request is given up.
LEMMA QuietStep ==
  ASSUME TypeOK, TypeOK', NEW r \in Requests, RequestStep(r),
         UNCHANGED <<class, power, has>>,
         Wanted'[r] # Wanted[r] => ~Wanted'[r]
  PROVE  Lifecycle!GiveUp(r) \/ UNCHANGED Lifecycle!vars
<1>1. Complete' = Complete
  BY DEF Complete
<1>2. CASE Wanted'[r] = Wanted[r]
  <2>1. Wanted' = Wanted
    BY <1>2, AbstractUpdate, AbstractType
  <2> QED
    BY <1>1, <2>1 DEF Lifecycle!vars, Complete, Wanted
<1>3. CASE Wanted'[r] # Wanted[r]
  <2>1. Wanted'[r] = FALSE
    BY <1>3, AbstractTypeNext, Zenon
  <2>2. Wanted' = [Wanted EXCEPT ![r] = FALSE]
    BY <2>1, AbstractUpdate, Zenon
  <2> QED
    BY <1>1, <2>2 DEF Lifecycle!GiveUp, Complete, Wanted
<1> QED
  BY <1>2, <1>3

\* A setting is gained by a VM that exists: it may complete the VM while it is
\* off, and adds nothing to a VM that runs.
LEMMA GainStep ==
  ASSUME IInv, TypeOK', NEW r \in Requests, RequestStep(r), Present(r),
         UNCHANGED <<class, power, phase>>, has[r] \subseteq has'[r]
  PROVE  Lifecycle!Complete(r) \/ UNCHANGED Lifecycle!vars
<1>1. Wanted' = Wanted
  BY DEF Wanted
<1>2. Complete[r] => Complete'[r]
  BY AbstractType, AbstractTypeNext
<1>3. power[r] = "on" => Complete[r]
  BY AbstractType DEF IInv, SettingsInv
<1>4. TypeOK /\ Complete' = [Complete EXCEPT ![r] = Complete'[r]]
  BY AbstractUpdate DEF IInv
<1>5. CASE Complete'[r] = Complete[r]
  <2>1. Complete' = Complete
    BY <1>4, <1>5, AbstractType
  <2> QED
    BY <1>1, <2>1 DEF Lifecycle!vars, Complete, Wanted
<1>6. CASE Complete'[r] # Complete[r]
  <2>1. Complete'[r] = TRUE /\ power[r] = "off"
    BY <1>2, <1>3, <1>6, AbstractType, AbstractTypeNext, Zenon DEF Present
  <2>2. Complete' = [Complete EXCEPT ![r] = TRUE]
    BY <1>4, <2>1, Zenon
  <2> QED
    BY <1>1, <2>1, <2>2 DEF Lifecycle!Complete, Complete, Wanted
<1> QED
  BY <1>5, <1>6

\* A vCenter task succeeds.
LEMMA TaskRefines ==
  ASSUME IInv, TypeOK', NEW r \in Requests, TaskSucceeds(r)
  PROVE  Lifecycle!Next \/ UNCHANGED Lifecycle!vars
<1>0. TypeOK /\ TaskInv(r) /\ PlaceInv(r) /\ SettingsInv(r) /\ RequestStep(r)
  BY DEF IInv, RequestStep
<1>1. class' = class /\ phase' = phase /\ has[r] \subseteq has'[r]
  BY <1>0 DEF TaskSucceeds, omni, TypeOK
<1>2. Wanted' = Wanted
  BY <1>1 DEF Wanted
<1>3. /\ power' = [power EXCEPT ![r] = power'[r]]
      /\ Complete' = [Complete EXCEPT ![r] = Complete'[r]]
  BY <1>0, AbstractUpdate
<1>4. CASE task[r] = "create"
  <2>1. power[r] = "absent" /\ power'[r] = "off"
    BY <1>0, <1>4 DEF TaskSucceeds, TaskInv, TypeOK
  <2>2. Complete'[r] \in BOOLEAN
    BY AbstractTypeNext
  <2>3. Lifecycle!Create(r)
    BY <1>2, <1>3, <2>1, <2>2 DEF Lifecycle!Create, Lifecycle!Turn, Complete, Wanted
  <2> QED
    BY <2>3 DEF Lifecycle!Next
<1>5. CASE task[r] \in {"powerOn", "powerOff", "destroy"}
  <2>1. has' = has
    BY <1>0, <1>5 DEF TaskSucceeds, Effect, Stages, TypeOK
  <2>2. Complete' = Complete
    BY <1>1, <2>1 DEF Complete
  <2>3. CASE task[r] = "powerOn"
    <3>1. power[r] = "off" /\ power'[r] = "on" /\ Required(class[r]) \subseteq has[r]
      BY <1>0, <2>3 DEF TaskSucceeds, TaskInv, SettingsInv, TypeOK
    <3>2. Lifecycle!Start(r)
      BY <1>2, <1>3, <2>2, <3>1 DEF Lifecycle!Start, Lifecycle!Turn, Complete, Wanted
    <3> QED
      BY <3>2 DEF Lifecycle!Next
  <2>4. CASE task[r] = "powerOff"
    <3>1. power[r] = "on" /\ power'[r] = "off" /\ phase[r] \in {"tearingDown", "gone"}
      BY <1>0, <2>4 DEF TaskSucceeds, TaskInv, PlaceInv, TypeOK
    <3>2. Lifecycle!Stop(r)
      BY <1>2, <1>3, <2>2, <3>1 DEF Lifecycle!Stop, Lifecycle!Turn, Complete, Wanted
    <3> QED
      BY <3>2 DEF Lifecycle!Next
  <2>5. CASE task[r] = "destroy"
    <3>1. power[r] = "off" /\ power'[r] = "destroyed" /\ phase[r] \in {"tearingDown", "gone"}
      BY <1>0, <2>5 DEF TaskSucceeds, TaskInv, PlaceInv, TypeOK
    <3>2. Lifecycle!Destroy(r)
      BY <1>2, <1>3, <2>2, <3>1 DEF Lifecycle!Destroy, Lifecycle!Turn, Complete, Wanted
    <3> QED
      BY <3>2 DEF Lifecycle!Next
  <2> QED
    BY <1>5, <2>3, <2>4, <2>5
<1>6. CASE task[r] \in Stages \union {"pci"}
  <2>1. power' = power /\ Present(r)
    BY <1>0, <1>6 DEF TaskSucceeds, TaskInv, Present, TypeOK, Stages
  <2>2. Lifecycle!Complete(r) \/ UNCHANGED Lifecycle!vars
    BY <1>0, <1>1, <2>1, GainStep
  <2> QED
    BY <2>2 DEF Lifecycle!Next
<1> QED
  BY <1>0, <1>4, <1>5, <1>6 DEF TaskInv, TaskSucceeds, TypeOK, TaskKinds

\* Every step of the provider and of vCenter is a step of VMLifecycle or a stutter.
LEMMA StepRefines ==
  ASSUME IInv, IInv', [Next]_vars
  PROVE  [Lifecycle!Next]_(Lifecycle!vars)
<1>0. TypeOK /\ TypeOK'
  BY DEF IInv
<1>1. ASSUME UNCHANGED <<class, power, phase, has>>  PROVE UNCHANGED Lifecycle!vars
  BY <1>1 DEF Lifecycle!vars
<1>2. ASSUME NEW r \in Requests, TaskSucceeds(r)
      PROVE  Lifecycle!Next \/ UNCHANGED Lifecycle!vars
  BY <1>0, <1>2, TaskRefines
<1>3. ASSUME NEW r \in Requests, AttachTag(r)
      PROVE  Lifecycle!Next \/ UNCHANGED Lifecycle!vars
  <2>1. RequestStep(r) /\ Present(r)
    BY <1>3 DEF RequestStep, Worker, Provision, AttachTag, Resolvable
  <2>2. UNCHANGED <<class, power, phase>> /\ has[r] \subseteq has'[r]
    BY <1>0, <1>3 DEF AttachTag, omni, TypeOK
  <2> QED
    BY <1>0, <2>1, <2>2, GainStep DEF Lifecycle!Next
\* Any other step of a worker, or a fault: the phase may change, the VM does not.
<1>4. ASSUME NEW r \in Requests, RequestStep(r), ~TaskSucceeds(r), ~AttachTag(r)
      PROVE  Lifecycle!Next \/ UNCHANGED Lifecycle!vars
  <2>1. /\ UNCHANGED <<class, power, has>>
        /\ phase[r] \in {"tearingDown", "gone"} => phase'[r] \in {"tearingDown", "gone"}
    BY <1>0, <1>4, StepQuiet
  <2>2. Wanted'[r] # Wanted[r] => ~Wanted'[r]
    BY <2>1, AbstractType, AbstractTypeNext
  <2> QED
    BY <1>0, <1>4, <2>1, <2>2, QuietStep DEF Lifecycle!Next
<1>5. CASE Crash \/ Finished \/ UNCHANGED vars
  BY <1>1, <1>5 DEF Crash, Finished, vars, omni, vcenter
<1> QED
  BY <1>2, <1>3, <1>4, <1>5 DEF Next, RequestStep

\* The VM of each request lives as VMLifecycle promises: created once and off,
\* started only when complete, stopped and destroyed only when given up.
THEOREM Refinement == Spec => ImplementsLifecycle
<1>1. Init => Lifecycle!Init
  BY DEF Init, Lifecycle!Init, Required
<1>2. IInv /\ IInv' /\ [Next]_vars => [Lifecycle!Next]_(Lifecycle!vars)
  BY StepRefines
<1> QED
  BY <1>1, <1>2, Invariance, PTL DEF Spec, ImplementsLifecycle, Lifecycle!Spec

-----------------------------------------------------------------------------
(***************************************************************************)
(* What a request that is gone may leave behind.                           *)
(***************************************************************************)

\* The faults are counted up.
LEMMA FaultsGrow ==
  ASSUME TypeOK, NEW r \in Requests, RequestStep(r)
  PROVE  /\ faults \in Nat /\ faults' \in Nat /\ faults <= faults'
         /\ Glitch(r) \/ TaskFails(r) => faults' > 0
<1>0. faults \in Nat
  BY MaxFaultsAssumption DEF TypeOK
<1> DEFINE Free == faults' = faults
<1>1. ASSUME NEW from, NEW to, Move(r, from, to)  PROVE Free
  BY <1>1 DEF Move
<1>2. ASSUME NEW k, Call(r, k)  PROVE Free
  BY <1>2 DEF Call
<1>3. ASSUME Fatal(r) \/ StepDone(r)  PROVE Free
  BY <1>3 DEF Fatal, StepDone
<1>4. ASSUME NEW s, Advance(r, s)  PROVE Free
  BY <1>3, <1>4 DEF Advance
<1>5. CASE Provision(r)
  <2>1. CASE MakeFolder(r) \/ Prepare(r) \/ PatchCA(r) \/ AttachTag(r)
    BY <1>0, <2>1 DEF MakeFolder, Prepare, PatchCA, AttachTag, Glitch, TaskFails
  <2>2. Free
    BY <1>1, <1>2, <1>3, <1>4, <1>5, <2>1, Zenon
    DEF Provision, RunStep, BeginCreate, RejectData, Resolve, MissingLabel, FindFolder,
        MakeFolder, Prepare, PatchCA, AttachTag,
        BadVersion, FindExistingVM, CreateVM, CloneFromTemplate, DeployFromContentLibrary,
        Reconfigure, EnsureFirmware, FinalizeVM, ResizeDisk, ConfigureNetwork, Stage,
        CreateTaskDone, TagsAttached, AttachPCIDevices, PCIAttached, ReadPowerState, AlreadyOn,
        PowerOn, StepTaskDone
  <2> QED
    BY <1>0, <2>2 DEF Glitch, TaskFails
<1>6. CASE Remove(r)
  <2>1. Free
    BY <1>1, <1>2, <1>6, Zenon
    DEF Remove, StartDeprovision, Deprovision, Locate, CheckPower, PowerOff, Destroy,
        PoweredOff, Destroyed, Release
  <2> QED
    BY <1>0, <2>1 DEF Glitch, TaskFails
<1>7. CASE Refused(r) \/ Glitch(r) \/ TaskFails(r) \/ TearDown(r) \/ TaskSucceeds(r)
  BY <1>0, <1>7 DEF Refused, Glitch, TaskFails, TearDown, TaskSucceeds
<1> QED
  BY <1>5, <1>6, <1>7 DEF RequestStep, Worker

\* A worker leaves a Wait when the task has ended, unless a fault ends it.
LEMMA WaitStep ==
  ASSUME IInv, NEW r \in Requests, RequestStep(r), ~Glitch(r), ~TaskFails(r)
  PROVE  \/ task'[r] = task[r] /\ outcome'[r] = outcome[r]
            /\ (pc[r] = "await" /\ outcome[r] = "running" => pc'[r] = "await")
         \/ outcome'[r] = "running" /\ pc'[r] = "await" /\ phase' = phase
            /\ phase[r] # "gone"
         \/ TaskSucceeds(r)
<1> USE DEF TypeOK, Goto, omni, vcenter
<1>0. TypeOK /\ PlaceInv(r)
  BY DEF IInv
<1> DEFINE Keeps == task' = task /\ outcome' = outcome
           Calls == outcome'[r] = "running" /\ pc'[r] = "await" /\ phase' = phase
<1>1. ASSUME NEW from, NEW to, Move(r, from, to)  PROVE Keeps
  BY <1>1 DEF Move
<1>2. ASSUME NEW k, Call(r, k)  PROVE Calls
  BY <1>0, <1>2 DEF Call
<1>3. ASSUME Fatal(r) \/ StepDone(r)  PROVE Keeps
  BY <1>3 DEF Fatal, StepDone
<1>4. ASSUME NEW s, Advance(r, s)  PROVE Keeps
  BY <1>3, <1>4 DEF Advance
<1>5. CASE Provision(r)
  <2>1. CASE MakeFolder(r) \/ Prepare(r) \/ PatchCA(r) \/ AttachTag(r)
    BY <2>1 DEF MakeFolder, Prepare, PatchCA, AttachTag
  <2>2. CASE \/ RunStep(r) \/ BeginCreate(r) \/ Resolve(r) \/ FindFolder(r) \/ FindExistingVM(r)
             \/ ReadPowerState(r)
    <3>1. Keeps /\ pc[r] # "await"
      BY <1>0, <1>1, <2>2
      DEF RunStep, BeginCreate, Resolve, FindFolder, FindExistingVM, ReadPowerState, Move
    <3> QED
      BY <3>1
  <2>3. CASE CreateVM(r) \/ AttachPCIDevices(r) \/ PowerOn(r)
    <3>1. Calls /\ pc[r] # "idle"
      BY <1>2, <2>3
      DEF CreateVM, CloneFromTemplate, DeployFromContentLibrary, AttachPCIDevices, PowerOn
    <3> QED
      BY <1>0, <3>1 DEF PlaceInv
  <2>4. CASE Reconfigure(r)
    <3>1. PICK s \in Stages : Stage(r, s)
      BY <2>4, ReconfigureStage
    <3>2. pc[r] \notin {"await", "idle"} /\ (Keeps \/ Calls)
      BY <1>2, <1>4, <3>1 DEF Stage, Stages
    <3> QED
      BY <1>0, <3>2 DEF PlaceInv
  <2>5. CASE CreateTaskDone(r)
    BY <1>4, <2>5 DEF CreateTaskDone
  <2>6. CASE RejectData(r) \/ MissingLabel(r) \/ BadVersion(r)
    BY <1>3, <2>6 DEF RejectData, MissingLabel, BadVersion
  <2>7. CASE TagsAttached(r) \/ PCIAttached(r) \/ AlreadyOn(r) \/ StepTaskDone(r)
    BY <1>3, <2>7 DEF TagsAttached, PCIAttached, AlreadyOn, StepTaskDone
  <2> QED
    BY <1>5, <2>1, <2>2, <2>3, <2>4, <2>5, <2>6, <2>7 DEF Provision
<1>6. CASE Remove(r)
  <2>1. CASE StartDeprovision(r) \/ CheckPower(r) \/ PoweredOff(r)
    BY <1>1, <2>1 DEF StartDeprovision, CheckPower, PoweredOff, Move
  <2>2. CASE Deprovision(r) \/ Locate(r)
    BY <1>1, <2>2 DEF Deprovision, Locate, Move, Release
  <2>3. CASE PowerOff(r) \/ Destroy(r)
    <3>1. Calls /\ pc[r] # "idle"
      BY <1>2, <2>3 DEF PowerOff, Destroy
    <3> QED
      BY <1>0, <3>1 DEF PlaceInv
  <2>4. CASE Destroyed(r)
    BY <2>4 DEF Destroyed, Release
  <2> QED
    BY <1>6, <2>1, <2>2, <2>3, <2>4 DEF Remove
<1>7. CASE Refused(r)
  <2>1. Keeps /\ ~(pc[r] = "await" /\ outcome[r] = "running")
    BY <1>7 DEF Refused, Retry, Stages
  <2> QED
    BY <2>1
<1>8. CASE TearDown(r)
  BY <1>8 DEF TearDown
<1> QED
  BY <1>5, <1>6, <1>7, <1>8 DEF RequestStep, Worker

\* A step of the request keeps NewInv.
LEMMA NewStep ==
  ASSUME IInv, NEW r \in Requests, NewInv(r), RequestStep(r)
  PROVE  NewInv(r)'
<1>0. TypeOK /\ TaskInv(r) /\ PlaceInv(r)
  BY DEF IInv
<1>1. power'[r] = "absent" => has'[r] = {}
  <2>1. CASE TaskSucceeds(r)
    BY <1>0, <2>1 DEF TaskSucceeds, TaskInv, Present, TypeOK, TaskKinds, Stages
  <2>2. CASE AttachTag(r)
    BY <1>0, <2>2 DEF AttachTag, Resolvable, Present, TypeOK
  <2>3. CASE ~TaskSucceeds(r) /\ ~AttachTag(r)
    BY <1>0, <2>3, StepQuiet DEF NewInv
  <2> QED
    BY <2>1, <2>2, <2>3
<1>2. ASSUME faults' = 0
      PROVE  outcome'[r] # "error" /\ (outcome'[r] = "running" => pc'[r] = "await")
  <2>1. faults = 0 /\ ~Glitch(r) /\ ~TaskFails(r)
    BY <1>0, <1>2, FaultsGrow
  <2>2. outcome[r] # "error" /\ (outcome[r] = "running" => pc[r] = "await")
    BY <2>1 DEF NewInv
  <2>3. TaskSucceeds(r) => outcome'[r] = "success"
    BY <1>0 DEF TaskSucceeds, TypeOK
  <2> QED
    BY <2>1, <2>2, <2>3, WaitStep
<1> QED
  BY <1>1, <1>2 DEF NewInv

\* A step of the request keeps GoneInv: of a request that is gone only the last
\* task goes on.
LEMMA GoneStep ==
  ASSUME IInv, NEW r \in Requests, NewInv(r), GoneInv(r), RequestStep(r)
  PROVE  GoneInv(r)'
<1> SUFFICES ASSUME phase'[r] = "gone"
             PROVE  \/ ~Present(r)' /\ ~(task'[r] = "create" /\ outcome'[r] = "running")
                    \/ /\ task'[r] = "create" /\ faults' > 0
                       /\ has'[r] = IF outcome'[r] = "success" THEN Granted(class'[r]) ELSE {}
  BY DEF GoneInv
<1>0. /\ TypeOK /\ TaskInv(r) /\ PlaceInv(r) /\ PreparedInv(r)
      /\ faults \in Nat /\ faults' \in Nat /\ faults <= faults'
  BY FaultsGrow DEF IInv
<1>1. CASE TaskSucceeds(r)
  <2>1. phase[r] = "gone" /\ class' = class
    BY <1>1 DEF TaskSucceeds, omni
  <2>2. ~Present(r) => task[r] = "create"
    BY <1>0, <1>1 DEF TaskSucceeds, TaskInv, Present, TypeOK, TaskKinds, Stages
  <2>3. task[r] = "create" /\ faults > 0 /\ has[r] = {}
    BY <1>1, <2>1, <2>2 DEF GoneInv, TaskSucceeds
  <2>4. task'[r] = "create" /\ outcome'[r] = "success" /\ faults' > 0
    BY <1>0, <1>1, <2>3 DEF TaskSucceeds, TypeOK
  <2>5. has'[r] = Granted(class[r])
    <3>1. Effect(class[r], task[r]) = Granted(class[r])
      <4>1. "create" \notin Stages
        BY DEF Stages
      <4>2. Effect(class[r], "create") = Granted(class[r])
        BY <4>1 DEF Effect
      <4> QED
        BY <2>3, <4>2
    <3>2. has'[r] = has[r] \union Effect(class[r], task[r])
      BY <1>0, <1>1 DEF TaskSucceeds, TypeOK
    <3> QED
      BY <2>3, <3>1, <3>2
  <2> QED
    BY <2>1, <2>4, <2>5
<1>2. CASE TaskFails(r)
  <2>1. /\ phase[r] = "gone" /\ task' = task /\ power' = power /\ has' = has /\ class' = class
        /\ outcome[r] = "running" /\ outcome'[r] = "error"
    BY <1>0, <1>2 DEF TaskFails, omni, TypeOK
  <2> QED
    BY <1>0, <2>1 DEF GoneInv, Present
<1>3. CASE ~TaskSucceeds(r) /\ ~TaskFails(r) /\ phase[r] = "gone"
  <2>1. pc[r] = "idle"
    BY <1>0, <1>3 DEF PlaceInv
  <2>2. ~Glitch(r) /\ ~AttachTag(r)
    BY <2>1 DEF Glitch, AttachTag
  <2>3. UNCHANGED <<class, power, has>>
    BY <1>0, <1>3, <2>2, StepQuiet
  <2>4. task'[r] = task[r] /\ outcome'[r] = outcome[r]
    BY <1>3, <2>2, WaitStep
  <2> QED
    BY <1>0, <1>3, <2>3, <2>4 DEF GoneInv, Present
<1>4. CASE ~TaskSucceeds(r) /\ phase[r] # "gone"
  <2>1. Deprovision(r) \/ Locate(r) \/ Destroyed(r)
    <3>1. ~AttachTag(r)
      BY <1>4 DEF AttachTag, omni
    <3> QED
      BY <1>0, <1>4, <3>1, StepQuiet
  <2>2. UNCHANGED <<class, vcenter>>
    BY <1>4, <2>1 DEF Deprovision, Locate, Destroyed, Release, Move, omni
  <2>3. CASE Destroyed(r)
    BY <1>0, <2>2, <2>3 DEF Destroyed, TaskInv, Present, vcenter
  <2>4. CASE Deprovision(r)
    BY <1>0, <1>4, <2>2, <2>4
    DEF Deprovision, KnowsDatacenter, Move, omni, PreparedInv, TaskInv, EarlyFlaws, Flaws, Present,
        vcenter
  <2>5. CASE Locate(r)
    <3>1. ~Present(r) /\ pc[r] = "locate"
      BY <1>4, <2>5 DEF Locate, Move, omni
    <3>2. outcome[r] = "running" => faults # 0
      BY <3>1 DEF NewInv
    <3>3. task[r] = "create" /\ outcome[r] = "running" => power[r] = "absent" /\ has[r] = {}
      BY <1>0 DEF TaskInv, NewInv
    <3> QED
      BY <1>0, <2>2, <3>1, <3>2, <3>3 DEF Present, vcenter
  <2> QED
    BY <2>1, <2>3, <2>4, <2>5
<1> QED
  BY <1>1, <1>2, <1>3, <1>4

\* What a request leaves behind after Deprovision has let it go is at most a VM
\* that was being created when the lookup missed it: as created, off, and only
\* after a fault.  Without faults NoOrphan holds.
THEOREM OrphansUnfinished == Spec => []OrphanIsUnfinished
<1>1. Init => OrphanInv
  BY DEF Init, OrphanInv, NewInv, GoneInv
<1>2. IInv /\ OrphanInv /\ [Next]_vars => OrphanInv'
  <2> SUFFICES ASSUME IInv, OrphanInv, [Next]_vars, NEW q \in Requests
               PROVE  NewInv(q)' /\ GoneInv(q)'
    BY DEF OrphanInv
  <2>0. TypeOK /\ TypeOK' /\ NewInv(q) /\ GoneInv(q)
    BY NextInvariant DEF OrphanInv, IInv
  <2>1. CASE \E r \in Requests : RequestStep(r)
    <3>1. PICK r \in Requests : RequestStep(r)
      BY <2>1
    <3>2. CASE q = r
      BY <2>0, <3>1, <3>2, NewStep, GoneStep
    <3>3. CASE q # r
      <4>1. Same(q) /\ faults <= faults' /\ faults \in Nat /\ faults' \in Nat
        BY <2>0, <3>1, <3>3, OthersSame, FaultsGrow
      <4> QED
        BY <2>0, <4>1 DEF Same, NewInv, GoneInv, Present
    <3> QED
      BY <3>2, <3>3
  <2>2. CASE Crash
    <3>1. faults' > 0 /\ UNCHANGED <<class, phase, power, has, task, outcome>>
      BY <2>0, <2>2, MaxFaultsAssumption DEF Crash, vcenter, TypeOK
    <3> QED
      BY <2>0, <3>1 DEF NewInv, GoneInv, Present
  <2>3. CASE UNCHANGED vars
    BY <2>0, <2>3 DEF vars, omni, vcenter, NewInv, GoneInv, Present
  <2> QED
    BY <2>1, <2>2, <2>3 DEF Next, Finished, RequestStep
<1>3. IInv /\ OrphanInv => OrphanIsUnfinished
  BY DEF IInv, OrphanInv, GoneInv, TaskInv, OrphanIsUnfinished, Present
<1> QED
  BY <1>1, <1>2, <1>3, Invariance, PTL DEF Spec
=============================================================================
