# A verification of omni-infra-provider-vsphere

The provider turns Omni machine requests into vSphere VMs. It is a small
program with little state of its own: nearly everything it does is a sequence
of calls to a vCenter that executes tasks on its own time, made by steps that
the Omni runner retries as a whole. What is hard to get right, and hard to
test, is what an attempt meets that earlier attempts left behind. That is what
these modules are about.

References of the form `provision.go:550` are to
`src/internal/pkg/provider/provision.go`, and likewise for `pci.go`, `tags.go`,
`data.go` and `content_library.go`; `main.go` is
`src/cmd/omni-infra-provider-vsphere/main.go`.

## 1. Inventory

| component | code | state | operations | module |
|---|---|---|---|---|
| provisioning steps | `provision.go:573-903` | the runner's phase and step of a request, the persisted `Machine` (VM name, datacenter), config patches in Omni, the VM in vCenter | createVM, attachTags, attachPCIDevices, powerOnVM | `Provisioner` |
| Deprovision | `provision.go:906-1017` | the same | look up, power off, destroy | `Provisioner`; which VM it finds: `Inventory` |
| template clone and its stages | `provision.go:83-135, 224-268, 326-386, 423-458, 487-560` | settings of the VM | clone, firmware, disk, network | `Provisioner` (order and failure), `MachineConfig` (values) |
| Content Library deployment | `content_library.go` | settings of the VM | deploy, finalize (config, CPU, memory, disk) | the same two |
| cluster folder | `provision.go:270-323` | folders in vCenter | name, find, create | `Provisioner` (race), `Inventory` (naming) |
| vSphere session | `provision.go:48-80`, `main.go:107-131` | the session of the one shared client | check, logout, login, ping | `Session` (workers against each other), `ProviderRun` (over whole runs) |
| PCI passthrough | `pci.go` | devices and memory reservation of the VM | read, compare, reconfigure | `PCIPassthrough`; one stage of `Provisioner` |
| tags | `tags.go` | tags of vCenter and of the VM, the listing of an attempt | resolve, attach one by one | `TagResolution`; one stage of `Provisioner` |
| machine class data | `data.go` | none | Validate, firmwareType, extraConfigOptions | `MachineConfig`; a flaw of the class in `Provisioner` |
| PEM normalization | `provision.go:137-222` | none | a loop over text | `CertText` |
| start and stop | `main.go`, `config.go` | the process, its sessions | configure, login, verify, run, logout | `ProviderRun` |
| Machine resource | `resources/machine.go` | the persisted `Machine` | created empty | `recorded` in `Provisioner` |
| generated specs, version | `src/api/specs/*.pb.go`, `version.go` | none | serialization | not modelled |

**How they interact.** The Omni runner (a library, not in the repository) calls
the steps in order for each request, retries a step that returned a retry
error, persists the `Machine` also after such an error, stops at any other
error, and calls `Deprovision` once the request is being torn down. One worker
handles a request at a time; requests are handled side by side. All workers
share one `govmomi.Client` and so one vCenter session. A call that changes a VM
starts a task; the worker waits for it with `Wait`, but the task does not
depend on the worker.

**What is hard.**

- *Cut attempts.* A lost answer, an expired session or a crash ends an attempt
  while its task goes on. The next attempt adopts a half configured VM, or
  looks before the VM is there.
- *Stale reads.* The power state, the devices of the VM, the existence of a
  VM or folder, and the session are read in one call and used in a later one.
- *Races.* Requests of one cluster create the same folder; workers replace the
  session under each other.
- *State in two places.* The `Machine` state says where the VM is, the runner
  says which step is next, vCenter has the VM. A crash loses the first two.
- *Other people.* The vCenter is shared: VMs are moved, deleted and restored
  under the same name, tags are created and deleted while an attempt runs.
- *Two paths to one VM.* A clone carries its settings, a deployment gets them
  afterwards, and a retry picks up what either left; both must end alike.
- *Errors that never end.* A retried error that cannot go away keeps a request
  in place for ever.

**What makes each component correct.**

- Provisioning: a VM that runs is complete; a provisioned request has a running
  VM; patches are in Omni before the VM; bad data leaves nothing behind; a sound
  request is provisioned in the end, whatever was cut short.
- Deprovision: a request goes only when its VM is gone; it goes in the end; it
  destroys the request's own VM and no other; no VM outlives its request (the
  code does not keep this last one against a clone that is still going on, see
  section 5).
- Machine class: only a class without contradictions gets a VM, and none is
  rejected; a finished VM has what the class asks for, on either path and whichever attempt did it.
- Session: every worker gets its calls through, unless relogins keep
  overlapping; a session opened through the
  keep-alive is kept; a run leaves no session behind that was not cut off.
- PCI: every listed device is attached, none twice, and the memory is reserved
  unless the template brought all of them.
- Tags: all of the class's tags or none, each the one that is meant, and in the
  end all, whatever administrators do in between.
- Cluster folder: the default machine sets of a cluster share one folder.
- PEM: a file that came on one line comes back; normalizing twice is
  normalizing once, but for one kind of broken text.

The hazards, each at its line and with the properties that cover it, are in
`PROJECT.json`.

## 2. Modules

### Provisioner

One record per machine class says what a request asks for (`ClassType`): source
of the VM, optional settings, cluster folder, CA certificate, tags, devices, and
at most one *flaw*, the place where its data is wrong. The flaws are listed in
the order in which the code meets them; which of them are fatal and which are
retried is the code's (`RejectData`, `MissingLabel`, `BadVersion` are
`fmt.Errorf`, the rest are `NewRetryErrorf`).

| variable | code |
|---|---|
| `class` | the provider data of the request, decoded into `Data` |
| `phase`, `step` | the runner: provisioning, provisioned, failed, tearingDown, gone; the step it is at |
| `recorded` | `MachineSpec.VmName` and `Datacenter` are persisted (`provision.go:602-603`) |
| `patches` | config patches created in Omni (`provision.go:706, 731`) |
| `pc` | where the worker is: between two calls, or in a `Wait` |
| `folders` | cluster folders that exist |
| `power`, `has` | the VM: absent, off, on or destroyed; the settings, tags and devices it has |
| `task`, `outcome` | the last vCenter task of the VM |
| `faults` | counts `Glitch`, `TaskFails` and `Crash`, to bound them |

An action is one call, or a few that only read things nothing changes. Starting
a task and returning from its `Wait` are two actions, and `TaskSucceeds` /
`TaskFails` lie between them. `Refused` is every error that has a cause in the
state (a flaw, or a task vCenter would not accept); `Glitch` is every error that
has none. Both end in `Retry`, which persists the mutation of `Machine` if
`createVM` had made it (`Mutated`).

| code | actions |
|---|---|
| `createVM` up to the folder | `RunStep`, `BeginCreate`, `RejectData`, `Resolve`, `MissingLabel` |
| `ensureSubfolder` | `FindFolder`, `MakeFolder` |
| pool, datastore, version, patches | `Prepare`, `BadVersion`, `PatchCA` |
| `findExistingVM` | `FindExistingVM` |
| clone, library deployment | `CreateVM` (`CloneFromTemplate`, `DeployFromContentLibrary`) |
| `ensureFirmware`, `finalizeVM`, `resizeDisk`, `configureNetwork` | `Reconfigure` (one alternative each), `CreateTaskDone` |
| `attachTags` | `AttachTag`, `TagsAttached` |
| `attachPCIDevices` | `AttachPCIDevices`, `PCIAttached`, `StepTaskDone` |
| `powerOnVM` | `ReadPowerState`, `AlreadyOn`, `PowerOn`, `StepTaskDone` |
| `Deprovision` | `StartDeprovision`, `Deprovision`, `Locate`, `CheckPower`, `PowerOff`, `PoweredOff`, `Destroy`, `Destroyed` |

What a VM has is a set, and the settings `ensureFirmware`, `resizeDisk`,
`attachTags` and `attachPCIDevices` compare before they act are in it once
vCenter holds the wanted value; a template that already has a value is a class
that does not ask for it.

Two points of the runner are left open, since the library is not in the
repository: whether a *fatal* error persists the mutation (`Fatal` allows both),
and whether a restarted provider resumes at the step it had reached or at the
first (`Crash` allows both).

### VMLifecycle

The abstract specification: created at most once and off; first powered on when
complete; powered off and destroyed only after the request was given up, and
destroyed only when off; never back. `Provisioner` implements it under the
refinement mapping `Lifecycle` (`complete` is "has all its class requires",
`wanted` is "not torn down"), which hides the worker, the tasks, the runner's
steps, folders, patches and faults.

### ProvisionerInvariant, ProvisionerProofs, MCProvisioner

The inductive invariant, the proofs (section 4), and the sets of classes for
TLC.

### Inventory

Which VM the provider means. `createVM` looks for it by path
(`provision.go:742`), the later steps and `Deprovision` by its bare name in the
datacenter (`provision.go:410, 964`), and other people move, delete and create
VMs of that name. A creation is a task as in `Provisioner`: `CreateVM` starts it,
`CreationEnds` and `CreationFails` are vCenter's, `AwaitCreation` is the `Wait`,
and a creation goes on when its worker is cut short (`CutShort`), also after its
request is gone. The tasks that change a VM are single steps; a lost `Destroy`
may have destroyed. `held` is the reference an attempt holds, which survives a
move; `unseen` is history: what was still being created when Deprovision last
looked. Names are sequences of
words, the parts between the dashes, so that `clusterFolderName` is what it is
in the code: it cuts the suffix of a default machine set off whatever ends with
it. `FindExistingVM` picks up the VM in the folder *whoever made it*, as the
code does.

### TagResolution

`attachTags` in more detail than the stage of `Provisioner`: entries of the
class as sequences of the parts between slashes, a listing fetched once per
attempt and only if a plain name asks for it (`fetched`), IDs resolved in order
before the first one is attached, then attached in order. `CreateTag` and
`DeleteTag` are the administrators'; a tag created again has another ID. What an
entry *means* is defined apart from how it is resolved (`Means`), from the
repository's documentation of the field.

### MachineConfig

From the class to the settings of the VM: `Validate` with one action for the
loop over `extra_config`, the two ways to make the VM with what each of them
carries, and the stages that follow. Numbers have their widths: `Word` for
uint64, `IntWord` for int32, so that `diskSizeGiB * GiB` wraps and `int32(CPU)`
truncates as in Go. A VM is a record of firmware, CPUs, memory, disk sizes,
advanced parameters, the objects with the storage policy and the connected
cards. `Consistent` says apart from `Validate`, from the comments in `data.go`,
which contradictions a class may not have; that the documentation requires more is
in section 5.

### ProviderRun

A run of the program from the flags to the deferred `Logout`, several times
over: the configuration that is checked first, `NewClient`, the verification,
`Run`, a signal, a kill. `govmomi`'s keep-alive is external: a ticker that
starts with a `Login` *through the handler* and stops with a `Logout` or a
failed ping; vCenter ends a session that was idle for `IdleLimit` ticks.
`left` and `cut` count the sessions that stay behind and those that were open
when something cut them off. `rest` are the workers with a session of the
automation API.

### CertText

`normalizePEMCert` turn by turn of its loop, over tokens: dashes, `BEGIN`,
`END`, spaces, newlines, and any others (`Words`) for pieces of labels and of
base64. A marker is several tokens, so a text may break off inside one, and one
marker may stand where another is looked for. `Width` stands for the 64 characters of a
line. `IsCertificate` is what a file is made of: labels without dashes and
newlines, bodies without spaces either. The result is normalized a second time
to compare the two.

### Session

`ensureSession` of several workers on the shared client: check, logout, login
and the calls it was made for, each an action of its own. vCenter may end the
session on its own (`Expire`); a check that fails counts as a session that is
not active (`CheckFails`). A retry may start at any time, also inside another
worker's relogin: its 10 seconds run from the worker's own failure. A `Login` over a session that is active is refused or
replaces it; both are allowed.

### PCIPassthrough

`attachPCIDevices` in more detail than the one stage of `Provisioner`: the list
may name a key more than once, the VM may have devices from its template, and
the devices are counted, so that adding one twice can be told from adding it
once. The two-field `PCIDevice` is a key, as `pciDeviceKey` makes it one;
`Validate` has rejected entries with both fields or none.

### How the modules fit together

`Provisioner` is the whole of a request. Where it has one stage for something
that has a protocol of its own, a module looks inside that stage:
`TagResolution` (one `AttachTag` per tag), `PCIPassthrough` (`AttachPCIDevices`
and its task), `MachineConfig` (the stages of `createVM`), `Inventory` (the two
lookups), `Session` (what a call needs before it is made). Their properties are
what `Provisioner` takes for granted of the stage: that it ends with the setting
made, or with an error that is retried. `ProviderRun` is around all of it.

### Faulty variants

Next to some definitions stands a *faulty variant*: the same definition with a
plausible mistake (a dropped error, a swapped order, a missing lookup). They are
not part of any specification. Each is put in the place of the original to see
that a property notices; `PROJECT.json` says which property notices which.

## 3. Runs

| run | instance | shows |
|---|---|---|
| `full` | 1 request; the two richest classes (2 tags, all settings), with every flaw and with none, and the plainest; 3 faults | `RunningIsComplete`, `ProvisionedRuns`, `PatchedBeforeVM`, `BadDataLeavesNoVM`, `GoneOnlyWhenRemoved`; the refinement of `VMLifecycle`; `EventuallyProvisioned` and `EventuallyGone` |
| `pair` | 2 requests of one cluster, interleaved at every call, that race for its folder; 1 fault, which may be a crash of both | `EventuallyProvisioned` |
| `inventory` | 1 request of the cluster `prod-workers`, machine set `control-planes`; other people move, delete and create VMs of its name 3 times; 2 cut attempts or failed creations | `NothingLeft`, `DestroysNoOther`, `InClusterFolder`, and what a request can be stuck on (`StuckOnlyWithoutVM`, `StuckOnlyAmbiguous`) |
| `tag_resolution` | lists of up to 2 of 5 entries (plain, with a category, with two slashes, malformed), 2 categories, 2 names of which one has a slash, any tags to begin with; 2 changes of tags, 1 cut attempt | `OnlyAsked`, `EachAttached`, `AllOrNone`, `Unambiguous`, `EventuallyAttached` |
| `machine_config` | classes with every mix of sources, firmwares and devices, every list of up to 2 parameters, sizes on both sides of the widths; templates with no, one and two disks and cards; 2 cut attempts | `ConsistentOnly`, `ParametersSet`, `PolicyEverywhere`, `HardwareAsAsked`, `DiskAsAsked` |
| `session_served` | 3 workers, 2 expiries, 2 failed calls | `StarvedOnlyByOverlap` |
| `provider_run` | 3 runs of the program, 2 workers, pings every 2 ticks against a limit of 4; 2 faults | `LeftOnlyWhenCut`, `KeptAlive` |
| `pci_retry` | 2 labels, 1 address, lists of up to 3 entries, any template, 2 faults; no overlap | `EveryKeyAttached`, `ReservedUnlessCarried`, `NotAddedTwice` |
| `cert_text` | up to 3 certificates, bodies from none to more than two lines, on lines of 1 to 3 pieces or on one line, with a comment before a block, broken off at either end, with one token lost, broken off and begun again | `Restored`, `SameTwice` |
| `orphan`, `pci_overlap`, `cert_comment` | the smallest instance that shows it | the divergences of section 5 |

Every passing run but `pair`, whose instance `full` covers, checks the module's
`TypeOK` as well.

**Bounds.** `MaxFaults` of `Provisioner` is the number of lost answers, failed
tasks and crashes in a behaviour. One cut attempt leaves a task running; the
second can cut the attempt that adopts its VM; the third can hit the task
itself. Requests share only the folders (and the session, which has a module of
its own), so two of them, of one cluster, show what there is to race for; their
classes are plain but for the folder. That the safety properties hold for two
requests and for every class is left to the proofs (section 4), which have no
bounds. Tags are attached one by one, so two of them have a state in between;
devices come in one reconfiguration, so one is enough in `Provisioner`, and
`PCIPassthrough` has lists of three for duplicates.

`Inventory`: three interventions are enough to move a VM away, put another in
its place and take one of them away again. Two cut attempts leave two creations
going on beside a third; a name is taken once per folder, so of the VMs that
exist and are being created there are never `MaxVMs` 6. The cluster is called `prod-workers` because its control
planes' name, `prod-workers-control-planes`, is where cutting twice would show.
`TagResolution`: two changes are a tag deleted and created again under its name.
`MachineConfig`: the moduli are 2^6 and 2^3 with 4 KiB to the GiB and 2 bytes to
the KiB; what matters is that there are numbers below half of a modulus, above
it, and beyond it. `ProviderRun`: two faults in a run can stop the handler and
end the session; the second and third runs show that nothing of the first is
left in the process. `Session`: `MaxExpiries` and `MaxFaults` are 2 and there are
3 workers: one expiry starts a round of logouts, the second hits the round, and
the third worker arrives while two are at it. `CertText`: lines of one, two and
three pieces against `Width` 2, with 0 to 5 pieces, meet every remainder; the
texts that break off and begin again are what tells `SameTwice` from the claim
without its exception.

**Fairness.** `FairSpec` of `Provisioner` is weak fairness of each request's
worker and of the success of its task. The worker's is what the runner
gives: a step that returned a retry error is run again after its 10 seconds, a
failed `Deprovision` is retried, and each call returns, with an answer or an
error. The task's is vCenter's: a task that is accepted ends. Neither `Glitch`,
`TaskFails` nor `Crash` is fair, and they are bounded: the liveness properties
say what happens after the last fault, not in a vCenter that fails for ever.
`TearDown` is not fair either: nobody has to give a request up. Otherwise `Inventory`
and `TagResolution` have the worker's fairness only; what other people do is never
fair. `EventuallyAttached` asks, as its premise, that the tags the class means
come to exist and stay.

`Inventory` adds that vCenter ends each creation, as in `Provisioner`. `Session`
has the worker's fairness and no assumption about time: the
10 seconds of a retry run from the worker's own failure
(`provision.go:394, 581`), so workers whose logins failed together retry together.

**Deadlock** is checked in every run: `Finished` (`Stopped`, `Wait`) is the only
way to stop. `Inventory` has `Wait` because a request may be stuck for good; that
it then is stuck for the stated reasons only is what `StuckOnlyWithoutVM` and
`StuckOnlyAmbiguous` say.

## 4. Proofs

Eight modules hold machine-checked proofs, one for each module of a component.
They hold for every value of the constants that the modules' named assumptions
allow: any requests, workers, classes, tags, devices, templates, words, texts,
widths, and any number of faults, interventions and retries. Every type
invariant, every safety invariant and every action property of the passing runs
is proved but those listed at the end of this section.

| module | theorem | statement |
|---|---|---|
| `ProvisionerProofs` | `Invariance` | `Spec => []IInv` |
| | `TypeCorrect` | `Spec => []TypeOK` |
| | `RunningComplete` | `Spec => []RunningIsComplete` |
| | `ProvisionedHasVM` | `Spec => []ProvisionedRuns` |
| | `FlawsLeaveNothing` | `Spec => []BadDataLeavesNoVM` |
| | `PatchesFirst` | `Spec => []PatchedBeforeVM` |
| | `GoneRemoved` | `Spec => GoneOnlyWhenRemoved` |
| | `Refinement` | `Spec => ImplementsLifecycle` |
| | `OrphansUnfinished` | `Spec => []OrphanIsUnfinished` |
| `InventoryProofs` | `Invariance`, `TypeCorrect` | `Spec => []IInv`, `Spec => []TypeOK` |
| | `NoneLeft` | `Spec => []NothingLeft` |
| | `NoOtherDestroyed` | `Spec => []DestroysNoOther` |
| | `ClusterFolders` | `Spec => InClusterFolder` |
| `TagResolutionProofs` | `SplitMeans` | what `splitTagSpec` makes of an entry is what the entry means |
| | `Invariance`, `TypeCorrect` | `Spec => []IInv`, `Spec => []TypeOK` |
| | `NothingElse` | `Spec => []OnlyAsked` |
| | `AllAttached` | `Spec => []EachAttached` |
| | `Atomic` | `Spec => []AllOrNone` |
| | `NotGuessed` | `Spec => []Unambiguous` |
| `MachineConfigProofs` | `Invariance`, `TypeCorrect` | `Spec => []IInv`, `Spec => []TypeOK` |
| | `Validation` | `Spec => []ConsistentOnly` |
| | `Hardened` | `Spec => []HardwareAsAsked` |
| | `DiskSized` | `Spec => []DiskAsAsked` |
| | `PolicySet` | `Spec => []PolicyEverywhere` |
| | `Parameters` | `Spec => []ParametersSet` |
| `PCIPassthroughProofs` | `Invariance`, `TypeCorrect` | `Spec => []PCIInv`, `Spec => []TypeOK` |
| | `AllAttached` | `Spec => []EveryKeyAttached` |
| | `ReservedWhenDone` | `Spec => []ReservedUnlessCarried` |
| | `AddedOnce` | `~Overlap => (Spec => []NotAddedTwice)` |
| `ProviderRunProofs` | `Invariance`, `TypeCorrect` | `Spec => []IInv`, `Spec => []TypeOK` |
| | `LoggedOut` | `Spec => []LeftOnlyWhenCut` |
| | `PingsKeep` | `Spec => KeptAlive` |
| `SessionProofs` | `Invariance`, `TypeCorrect` | `Spec => []IInv`, `Spec => []TypeOK` |
| | `OthersKept` | `Spec => []EndsNoOther` |
| `CertTextProofs` | `TypeCorrect` | `Spec => []TypeOK` |
| | `Idempotent` | `Spec => []SameTwice` |
| | `BlocksRestored` | `Spec => []Restored` |

**Provisioner.** None of the properties is inductive: that a running VM is
complete rests on what the steps before did, also when they were done by
attempts that were cut short. Even `TypeOK` needs help, since `makeFolder`
creates `class.folder`, which is a folder name only because `Resolve` sent the
worker there. `IInv` (in `ProvisionerInvariant`) therefore says, for each request
by itself:

- `PlaceInv`: which step and phase a position belongs to; after a request is
  gone nothing runs for it;
- `TaskInv`: how the last task left the VM, given its kind and outcome. This is
  what an attempt may rely on that meets the task of an earlier one;
- `PreparedInv`: which flaws are ruled out and which patches exist, at each
  position and once a task has ever been started;
- `SettingsInv`: which settings the VM has, at each stage (`Before`) and at each
  step. Since nothing takes a setting away from a VM, what held at a stage of one
  attempt holds for the attempt that adopts the VM.

Each part has one lemma per kind of step, and `Invariance` puts them together.
The other theorems follow from `IInv` by expanding a definition; `GoneRemoved`
looks at the steps that release a request; `Refinement` shows that each step
of `Provisioner` is a step of `VMLifecycle` or leaves its variables alone. They
assume that classes are records of `ClassType`, that tags, devices and the VM's
own settings have different names, and that `MaxFaults` is a natural number.

`OrphansUnfinished` is the other side of the run `orphan`: how far the damage
goes. It rests on `OrphanInv`: before the first fault a task that goes on has a
worker that waits for it, so `Deprovision` cannot look in between (`NewInv`), and
of a request that is gone nothing but the creation can still be going on
(`GoneInv`). So what is left behind is as the template or the library item made
it, without the later settings, and never runs; and with no fault `NoOrphan`
holds.

**Inventory.** `NothingLeft` and `DestroysNoOther` are the two halves of one
argument and are inductive only together with `PhaseInv` (what destroys is
Deprovision, and for a request that is gone no worker runs) and `LateInv` (once
the lookup is past, what is still being created is among what it could not
see). Where the bare name has one VM, every other of the provider's is absent at
the lookup; what appears afterwards was being created then, since no worker of the
request starts a creation once Deprovision has begun. `ClusterFolders` is a fact about names: `DefaultFolder`
proves that cutting a suffix that was put on gives back what it was put on, for
clusters whose own names end in anything.

**TagResolution.** `SplitMeans` ties the code's splitting to `Means`; `TagsInv`
(no two tags of one name in a category, and the listing is current while nothing
changes), `ResolvedInv` (what each ID so far was resolved from) and `AttachInv`
(all resolved before the first is attached, attached in order) make the four
properties inductive.

**MachineConfig.** `IInv` has one part per kind of setting: what the setting may
be at any time, and from which stage on it is what the class wants, for a clone
and for a deployment. The arithmetic (`Conversions`) shows that numbers that fit
arrive unchanged for any moduli. `Validation` is a loop invariant (`PassedInv`:
the entries up to `at` have no flaw and `seen` has their keys). `Parameters` needs
that setting the parameters again changes nothing, and that the entries of a
consistent class neither repeat a key nor name one of the provider's: the order of
the list then does not matter.

**PCIPassthrough.** `AloneInv` is what fails when attempts overlap: what the
worker has read is all the VM has, and the reconfiguration in flight adds only
what it lacks. So `NotAddedTwice` is proved under `~Overlap`; the rest needs no
such assumption.

**ProviderRun.** `KeptAlive` follows from `Kept`: while no call of the keep-alive
has failed, the idle time and the time to the next ping add up to at most
`Interval`. `LoggedOut` needs the number of sessions of finite sets of workers.

**Session.** `OthersKept` says which relogin harms nobody, also with expiries and
failed calls: that of a worker which was told the session is inactive and has no
company. From the check to its login no session is active, however late its
logout comes, since only another relogin could open one (`IInv`). What relogins
that overlap do is the other half, which `StarvedOnlyByOverlap` states and TLC
checks.

**CertText.** What a loop over text computes is induction over data. It is done
without the library's induction theorems, whose operator parameter no installed
prover can instantiate: `SetInduction` takes the *set* of numbers for which
something holds, and follows from the well-foundedness of less than. `Recursion`
gives a function that is defined from the value before, and from it
`FlattenParts` and `FlattenTails` say what `FlattenSeq` gives, from the left and
from the right; what holds of a text at each of its parts then follows with
`UpTo`.

`Idempotent` rests on `TwiceInv`. The result of the first round is a core and a
newline, where the core has no space at its ends and either has newlines or does
not begin with a BEGIN line (`Settled`); the second round (`Repeats`) takes the
newline off and puts it back. A core on one line that still begins with a
BEGIN line is what `SameTwice` excepts: it arises only when another BEGIN line
has been cut off before it (`BeginTwice`). `BlocksRestored` rests on `RestoredInv`: after `k` turns
the output is the head of the file up to block `k`, in lines of `Width`
(`Heads`), and what is left to read is the file on one line from there on
(`Left`); in the middle of a turn it is the body of block `k`, its END line and
what lies ahead. Since lines of any width lose their newlines to spaces and
their spaces to the normalization, the width of the file does not matter. They
assume that tokens are told apart, that `Certificates` are files as in
`IsCertificate`, and that widths are positive.

**Only model-checked**: liveness (`EventuallyProvisioned`, `EventuallyGone`,
`StarvedOnlyByOverlap`, `EventuallyAttached`, `StuckOnlyWithoutVM`,
`StuckOnlyAmbiguous`), which is out of the prover's reach, and the three
divergences of section 5, which are behaviours to be found.

## 5. Where the code does not do what it says

Three runs show a divergence from what the repository says; TLC must find the
property violated.

- `orphan`, `NoOrphan`. `provision.go:597-601` says a created VM cannot be left
  untracked. When the `Wait` of the clone is cut while the task goes on, and the
  request is torn down before the VM appears, `Deprovision` finds no VM, lets
  the request go, and the VM appears afterwards. `GoneOnlyWhenRemoved` is what
  does hold: at the moment of the release there is no VM. `OrphanIsUnfinished`, which
  is proved, says what can appear afterwards.
- `pci_overlap`, `NotAddedTwice`. `pci.go:27-29` says a retry does not add a
  device twice. It holds in `pci_retry`, where no attempt starts during the
  reconfiguration of an earlier one; with `Overlap` a labelled device is added
  a second time: the devices are read before the earlier reconfiguration ends,
  and the new one is started after it.
- `cert_comment`, `EveryBlock`. `provision.go:137-140` says a single line is
  reconstructed. Text between two blocks ends the loop, and every block after it
  is dropped without an error.

Others have no run of their own, since nothing in the repository rules them
out. A property that would meet one has a premise that leaves it out, and says
so; the models do what the code does in every case.

- *A datacenter that does not exist.* It is recorded before it is looked up
  (`provision.go:603, 625`), and `Deprovision` fails for it
  (`provision.go:957-960`): such a request never had a VM and yet never goes.
  `EventuallyGone` leaves it out.
- *A session ended by another worker.* A worker that found the session inactive
  logs out whatever session the client has by then (`provision.go:67`), also one
  another worker has just opened. Two workers that retry together may end each
  other's sessions in turn for ever, after a single expiry and without any fault;
  `StarvedOnlyByOverlap` says that only relogins that keep overlapping do this.
- *The template's devices.* `README.md:125` says the memory is reserved whenever
  `pci_devices` is set; `pci.go:140-144` returns before that when the template
  brought the devices. `ReservedUnlessCarried` names this case as its exception.
- *Required fields.* `README.md:59-68` and `schema.json:117-125` require `cpu`,
  `memory`, `disk_size` and `network`; `Validate` (`data.go:91`) does not look at
  them, and a class without them gets a VM with what its template has. Omni may
  hold a class against the schema before the provider sees it, which is outside this
  repository. `ConsistentOnly` is about what `Validate` checks.
- *A creation that outlives its request.* What `orphan` shows is in `Inventory`
  too: `NothingLeft` and `DestroysNoOther` except the VMs that were still being
  created when Deprovision looked (`unseen`).
- *Somebody else's VM.* A VM that bears the request's name is powered on,
  reconfigured and destroyed in place of the provider's own when that is gone, and
  picked up by `createVM` when it is in the folder (`provision.go:410, 742, 964`): nothing
  tells the two apart. `DestroysNoOther` says only that the own VM is not
  passed over for another.
- *A second VM.* If the VM of a failed attempt is moved before the retry, the
  lookup by path (`provision.go:471, 742`) misses it and a second one is created,
  although `provision.go:740-741` picks up what is there. `Inventory` shows what
  follows: the bare name is ambiguous, the later steps and `Deprovision` retry
  until somebody removes one of the two (`StuckOnlyAmbiguous`).
- *A custom machine set that looks like a default one.* `gpu-workers` of cluster
  `prod` gets the folder `prod-gpu` (`provision.go:284-288`).
  `InClusterFolder` is about the default machine sets.
- *Numbers that do not fit.* A `disk_size` whose bytes pass 2^64 becomes a small
  one and the disk stays as it is (`provision.go:82, 107`); a CPU count of 2^32
  and more arrives as another, and one in the upper half of the int32 is refused
  for ever (`provision.go:538`). `Fits` leaves both out.
- *The first session is not kept alive.* The handler is installed after
  `NewClient` has logged in (`main.go:107-125`), so nothing pings before the
  first relogin. `KeptAlive` is about sessions `ensureSession` has opened.
- *Logout after a signal.* The deferred `Logout` (`main.go:113`) has the context
  whose cancellation ended the run and cannot reach vCenter. `LeftOnlyWhenCut`
  counts these sessions among those cut off.
- *"As-is".* When no END marker follows, `normalizePEMCert` has already cut the
  header off what it gives back (`provision.go:176, 219`). `SameTwice` says that
  the damaged text is at least stable, with one exception the proof of
  `Idempotent` brought to light: of two BEGIN lines with nothing between them
  (`BeginTwice`) each round may cut one off.

## 6. What is not modelled

- *The class changed between two attempts.* A request keeps the data it began
  with; Omni may allow its class to be edited.
- *VMs moved to another datacenter*, and folders deleted or renamed.
- *Characters.* `CertText` has tokens: CRLF is not told from LF, and a run of
  dashes or a word is never split. The letter case of `firmware` is folded: names that differ in
  case only are one value.
- *Category names with a slash*, which no entry of a class can name, since the
  first slash ends the category.
- *The calls of the automation API* inside a deployment or an attachment: its
  login and logout are `ProviderRun`'s, a failure of theirs is one of the call.
- *Unused fields* of the persisted `Machine` (the resource has more than
  `vm_name` and `datacenter`; nothing writes them).
- Generated code, version information, wording of flags, logging. The schema of
  the class (`schema.json`) is data Omni shows; nothing under `src/` enforces it
  (section 5).

Cost and placement are vCenter's. So is what it does with a VM under a task:
`Accepts` lets it run one task per VM and refuse what the power state forbids.

## 7. What could come next

1. `Session` composed with the retries of `Provisioner`: which steps of which
   requests can keep their relogins overlapping (`StarvedOnlyByOverlap`).
2. `pair` with a deployment and with a flaw in one of the two requests; three
   requests of two clusters.
3. What the later steps could do about a VM that was deleted behind their back
   (`StuckOnlyWithoutVM`): the model with `createVM` run again, to see which
   properties survive.
4. The class edited between two attempts, once it is known what Omni allows.
5. One abstract specification of a stage, with its setting made or an error that
   is retried, which `TagResolution`, `PCIPassthrough` and `MachineConfig`
   implement and `Provisioner` uses.
