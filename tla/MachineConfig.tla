---------------------------- MODULE MachineConfig ----------------------------
(***************************************************************************)
(* From the data of a machine class to the settings of the VM: Validate,   *)
(* the clone of a template or the deployment of a library item, and the    *)
(* stages after them (ensureFirmware, finalizeVM, resizeDisk,              *)
(* configureNetwork).  An attempt that is cut short is started again and   *)
(* picks up the VM it finds.                                               *)
(*                                                                         *)
(* A name (a template, a library, a policy, a network) is given or not.    *)
(* Numbers have the widths of the code, with the moduli as constants:      *)
(* uint64 for the class, int32 for the CPUs vCenter is asked for.          *)
(***************************************************************************)
EXTENDS Integers, Sequences, FiniteSets

CONSTANTS
  Classes,     \* data of machine classes
  Hardware,    \* what templates and library items come with
  UserKeys,    \* keys of advanced parameters that are not the provider's
  Values,      \* their values
  NoString,    \* the empty string; also the value of a parameter that is not set
  OwnValue,    \* what the provider sets its own parameters to
  Word,        \* modulus of uint64
  IntWord,     \* modulus of int32
  KiBPerGiB,   \* KiB in a GiB
  BytesPerKiB, \* bytes in a KiB
  MaxFaults    \* bound: attempts cut short

\* extraConfigKeyDiskUUID and extraConfigKeyTalosConfig.
Owned == {"disk.enableUUID", "guestinfo.talos.config"}
Keys == Owned \union UserKeys

\* Sizes and counts are zero where the class does not give them.
IsClass(d) ==
  /\ {d.template, d.content_library, d.library_item, d.storage_policy, d.network} \subseteq BOOLEAN
  /\ {d.disk_size, d.cpu, d.memory} \subseteq 0..(Word - 1)
  /\ d.pci_devices \in Seq([label : BOOLEAN, address : BOOLEAN])
  /\ d.extra_config \in
       Seq([key : Keys \union {NoString}, value : Values \union {NoString}])

\* What a VM is made from; its disks by their sizes in KiB.
IsHardware(h) ==
  /\ h.firmware \in {"bios", "efi"}
  /\ h.cpu \in Nat /\ h.memory \in Nat /\ h.cards \in Nat
  /\ h.disks \in Seq(Nat)

ASSUME ClassesAssumption == \A d \in Classes : IsClass(d)
ASSUME HardwareAssumption == \A h \in Hardware : IsHardware(h)
ASSUME NoStringAssumption == NoString \notin {"bios", "efi", "uefi", "invalid"} \union Keys
ASSUME WidthsAssumption ==
  /\ Word \in Nat \ {0} /\ IntWord \in Nat \ {0}
  /\ KiBPerGiB \in Nat \ {0} /\ BytesPerKiB \in Nat \ {0}
  /\ MaxFaults \in Nat

VARIABLES
  data,    \* the class
  source,  \* the hardware of its template or library item
  pc,      \* where the attempt is
  at,      \* the position of the next advanced parameter to validate
  seen,    \* the keys validated so far
  made,    \* the VM exists
  vm,      \* its settings
  faults   \* attempts cut short so far

attempt == <<pc, at, seen>>
vars == <<data, source, attempt, made, vm, faults>>

-----------------------------------------------------------------------------
(***************************************************************************)
(* Requests to vCenter.                                                    *)
(***************************************************************************)

\* Conversion of an unsigned number to a signed one of modulus m.
Signed(n, m) == IF n % m < m \div 2 THEN n % m ELSE (n % m) - m

\* Faulty variant of AskedCapacity: rounded to whole GiB of a thousand KiB each.
DecimalCapacity == data.disk_size * (KiBPerGiB - 1)

\* int32(data.CPU), int64(data.Memory) and int64(diskSizeGiB * GiB / 1024).
AskedCPU == Signed(data.cpu, IntWord)
AskedMemory == Signed(data.memory, Word)
AskedCapacity == ((data.disk_size * (KiBPerGiB * BytesPerKiB)) % Word) \div BytesPerKiB

\* vCenter takes no negative numbers.
Sizeable == AskedCPU >= 0 /\ AskedMemory >= 0

\* A number that is zero is not part of a request: the VM keeps what it has.
Asked(n, old) == IF n = 0 THEN old ELSE n

\* The provider's keys first, then the entries of the class in their order.
extraConfigOptions ==
  <<[key |-> "disk.enableUUID", value |-> OwnValue],
    [key |-> "guestinfo.talos.config", value |-> OwnValue]>> \o data.extra_config

\* vCenter sets the parameters one after the other.
Set(extra, options) ==
  [k \in Keys |->
     LET named == {i \in DOMAIN options : options[i].key = k}
     IN  IF named = {} THEN extra[k]
         ELSE options[CHOOSE i \in named : \A j \in named : j <= i].value]

\* The settings both a clone and finalizeVM ask for.
Configured(v) ==
  [v EXCEPT !.cpu = Asked(AskedCPU, @),
            !.memory = Asked(AskedMemory, @),
            !.extra = Set(@, extraConfigOptions)]

\* The VM as its source has it: no parameters, no policies, cards on the networks
\* of the source.  policies: where the storage policy is, 0 for the home.
Plain ==
  [firmware |-> source.firmware, cpu |-> source.cpu, memory |-> source.memory,
   disks |-> source.disks, extra |-> [k \in Keys |-> NoString],
   policies |-> {}, connected |-> {}]

AllPolicies == {0} \union DOMAIN source.disks

\* The spelling of the vCenter UI is an alias; names that differ in the case of
\* their letters only are one value here.
firmwareType(f) ==
  IF f = "uefi" THEN "efi" ELSE IF f \in {NoString, "bios", "efi"} THEN f ELSE "invalid"

-----------------------------------------------------------------------------

\* Type correctness: the attempt is at a stage, with at most one VM.
TypeOK ==
  /\ IsClass(data)
  /\ IsHardware(source)
  /\ pc \in {"validate", "items", "create", "firmware", "finalize", "resize",
             "network", "done", "rejected"}
  /\ at \in 1..(Len(data.extra_config) + 1)
  /\ seen \subseteq Keys
  /\ made \in BOOLEAN
  /\ vm.firmware \in {"bios", "efi"}
  /\ vm.cpu \in Nat /\ vm.memory \in Nat
  /\ vm.disks \in [DOMAIN source.disks -> Nat]
  /\ DOMAIN vm.extra = Keys
  /\ vm.policies \subseteq AllPolicies
  /\ vm.connected \subseteq 1..source.cards
  /\ faults \in 0..MaxFaults

Init ==
  /\ data \in Classes
  /\ source \in Hardware
  /\ pc = "validate"
  /\ at = 1
  /\ seen = {}
  /\ made = FALSE
  /\ vm = Plain
  /\ faults = 0

Goto(p) == pc' = p /\ UNCHANGED <<at, seen>>

\* An attempt that failed is started from the beginning.
Restart == pc' = "validate" /\ at' = 1 /\ seen' = {}

UsingLibrary == data.content_library \/ data.library_item

SourceError ==
  \/ data.template /\ UsingLibrary
  \/ ~data.template /\ ~UsingLibrary
  \/ UsingLibrary /\ ~(data.content_library /\ data.library_item)

PCIError == \E i \in DOMAIN data.pci_devices :
  data.pci_devices[i].label = data.pci_devices[i].address

Validate ==
  /\ pc = "validate"
  /\ Goto(IF SourceError \/ firmwareType(data.firmware) = "invalid" \/ PCIError
          THEN "rejected" ELSE "items")
  /\ UNCHANGED <<data, source, made, vm, faults>>

Item == data.extra_config[at]

\* Faulty variants of ItemError: the provider's keys are not looked for; a key
\* may be repeated.
ItemErrorNotOwned == Item.key = NoString \/ Item.value = NoString \/ Item.key \in seen
ItemErrorNotSeen == Item.key \in {NoString} \union Owned \/ Item.value = NoString

ItemError == Item.key \in {NoString} \union Owned \union seen \/ Item.value = NoString

ValidateItem ==
  /\ pc = "items"
  /\ at <= Len(data.extra_config)
  /\ IF ItemError
     THEN Goto("rejected")
     ELSE at' = at + 1 /\ seen' = seen \union {Item.key} /\ UNCHANGED pc
  /\ UNCHANGED <<data, source, made, vm, faults>>

Validated ==
  /\ pc = "items"
  /\ at = Len(data.extra_config) + 1
  /\ Goto("create")
  /\ UNCHANGED <<data, source, made, vm, faults>>

\* findExistingVM: whatever the VM lacks is left to the stages.
PickUp ==
  /\ pc = "create"
  /\ made
  /\ Goto("firmware")
  /\ UNCHANGED <<data, source, made, vm, faults>>

\* Faulty variant of CloneFromTemplate: the policy of the home only.
CloneHomePolicy ==
  /\ pc = "create"
  /\ ~made /\ ~data.library_item /\ Sizeable
  /\ made' = TRUE
  /\ vm' = [Configured(Plain) EXCEPT !.policies = IF data.storage_policy THEN {0} ELSE {}]
  /\ Goto("firmware")
  /\ UNCHANGED <<data, source, faults>>

\* The clone carries everything but firmware, disk size and network; the disks
\* do not take the policy of the home.
CloneFromTemplate ==
  /\ pc = "create"
  /\ ~made /\ ~data.library_item /\ Sizeable
  /\ made' = TRUE
  /\ vm' = [Configured(Plain) EXCEPT
              !.policies = IF data.storage_policy THEN {0} \union DOMAIN source.disks ELSE {}]
  /\ Goto("firmware")
  /\ UNCHANGED <<data, source, faults>>

\* A deployment carries policy and network only.
DeployFromContentLibrary ==
  /\ pc = "create"
  /\ ~made /\ data.library_item
  /\ made' = TRUE
  /\ vm' = [Plain EXCEPT !.policies = IF data.storage_policy THEN AllPolicies ELSE {},
                         !.connected = IF data.network THEN 1..source.cards ELSE {}]
  /\ Goto("firmware")
  /\ UNCHANGED <<data, source, faults>>

\* An omitted firmware is that of the source.
EnsureFirmware ==
  /\ pc = "firmware"
  /\ vm' = [vm EXCEPT !.firmware =
              IF data.firmware = NoString THEN @ ELSE firmwareType(data.firmware)]
  /\ Goto(IF data.library_item THEN "finalize" ELSE "resize")
  /\ UNCHANGED <<data, source, made, faults>>

\* Faulty variant of FinalizeVM: a deployment keeps CPU and memory of the item.
FinalizeConfigOnly ==
  /\ pc = "finalize"
  /\ Sizeable
  /\ vm' = [vm EXCEPT !.extra = Set(@, extraConfigOptions)]
  /\ Goto("resize")
  /\ UNCHANGED <<data, source, made, faults>>

FinalizeVM ==
  /\ pc = "finalize"
  /\ Sizeable
  /\ vm' = Configured(vm)
  /\ Goto("resize")
  /\ UNCHANGED <<data, source, made, faults>>

NoDisk == data.disk_size > 0 /\ vm.disks = << >>

\* Faulty variant of ResizeDisk: a disk is added, none is edited.
ResizeAddsDisk ==
  /\ pc = "resize"
  /\ ~NoDisk
  /\ vm' = IF data.disk_size = 0 \/ AskedCapacity <= vm.disks[1] THEN vm
           ELSE [vm EXCEPT !.disks = Append(@, AskedCapacity)]
  /\ Goto(IF data.library_item THEN "done" ELSE "network")
  /\ UNCHANGED <<data, source, made, faults>>

\* The first disk grows to the size of the class and never shrinks.
ResizeDisk ==
  /\ pc = "resize"
  /\ ~NoDisk
  /\ vm' = IF data.disk_size = 0 \/ AskedCapacity <= vm.disks[1] THEN vm
           ELSE [vm EXCEPT !.disks[1] = AskedCapacity]
  /\ Goto(IF data.library_item THEN "done" ELSE "network")
  /\ UNCHANGED <<data, source, made, faults>>

NoCard == data.network /\ source.cards = 0

\* Only the first card of a clone is connected.
ConfigureNetwork ==
  /\ pc = "network"
  /\ ~NoCard
  /\ vm' = [vm EXCEPT !.connected = IF data.network THEN {1} ELSE @]
  /\ Goto("done")
  /\ UNCHANGED <<data, source, made, faults>>

\* Errors that every retry meets again.
Refused ==
  /\ \/ pc = "create" /\ ~made /\ ~data.library_item /\ ~Sizeable
     \/ pc = "finalize" /\ ~Sizeable
     \/ pc = "resize" /\ NoDisk
     \/ pc = "network" /\ NoCard
  /\ Restart
  /\ UNCHANGED <<data, source, made, vm, faults>>

\* A call fails, or its answer is lost.
CutShort ==
  /\ faults < MaxFaults
  /\ faults' = faults + 1
  /\ pc \in {"create", "firmware", "finalize", "resize", "network"}
  /\ Restart
  /\ UNCHANGED <<data, source, made, vm>>

Finished == pc \in {"done", "rejected"} /\ UNCHANGED vars

Next ==
  \/ Validate \/ ValidateItem \/ Validated \/ PickUp \/ CloneFromTemplate
  \/ DeployFromContentLibrary \/ EnsureFirmware \/ FinalizeVM \/ ResizeDisk
  \/ ConfigureNetwork \/ Refused \/ CutShort \/ Finished

Spec == Init /\ [][Next]_vars
-----------------------------------------------------------------------------

\* The settings of a class go together, as the comments of Data ask (data.go:54-75):
\* one source, a firmware that is known, devices with a label or an address,
\* parameters that are not the provider's, have a value and are set once.
\* README.md:59-68 and schema.json:117-125 ask for more: datacenter, cpu, memory,
\* disk_size and network, with minimums.  No code under src/ looks for these; a
\* class without them is consistent here, and Validate lets it pass.
Consistent ==
  /\ <<data.template, data.content_library, data.library_item>>
       \in {<<TRUE, FALSE, FALSE>>, <<FALSE, TRUE, TRUE>>}
  /\ data.firmware \in {NoString, "bios", "efi", "uefi"}
  /\ \A i \in DOMAIN data.pci_devices :
       data.pci_devices[i].label # data.pci_devices[i].address
  /\ \A i \in DOMAIN data.extra_config :
       /\ data.extra_config[i].key \in UserKeys \ Owned
       /\ data.extra_config[i].value # NoString
       /\ \A j \in DOMAIN data.extra_config :
            data.extra_config[i].key = data.extra_config[j].key => i = j

\* Validate rejects a class exactly when its settings contradict each other,
\* whatever the order of its checks, and then there is no VM.  That a VM has all
\* the README requires of its class it does not promise.
ConsistentOnly == (pc = "rejected" => ~Consistent /\ ~made) /\ (made => Consistent)

\* The parameters of a finished VM are what the class and the provider want, on
\* either path and whichever attempt set them; the rest are those of the source.
ParametersSet ==
  pc = "done" =>
    /\ \A k \in Owned : vm.extra[k] = OwnValue
    /\ \A i \in DOMAIN data.extra_config :
         vm.extra[data.extra_config[i].key] = data.extra_config[i].value
    /\ \A k \in UserKeys \ Owned :
         (\A i \in DOMAIN data.extra_config : data.extra_config[i].key # k)
           => vm.extra[k] = NoString

\* The home and every disk have the storage policy, or none has.
PolicyEverywhere ==
  pc = "done" => vm.policies = IF data.storage_policy THEN AllPolicies ELSE {}

\* The sizes vCenter can be asked for: no conversion changes them.
Fits ==
  /\ data.cpu < IntWord \div 2
  /\ data.memory < Word \div 2
  /\ data.disk_size * (KiBPerGiB * BytesPerKiB) < Word

\* CPU, memory and firmware of a finished VM are those of the class, on either
\* path; what the class omits is that of the source.
HardwareAsAsked ==
  pc = "done" /\ Fits =>
    /\ vm.cpu = Asked(data.cpu, source.cpu)
    /\ vm.memory = Asked(data.memory, source.memory)
    /\ vm.firmware = IF data.firmware = NoString THEN source.firmware
                     ELSE firmwareType(data.firmware)

\* The first disk of a finished VM holds what the class asks for.
HoldsDiskSize ==
  data.disk_size > 0 => vm.disks[1] >= data.disk_size * KiBPerGiB

\* If the numbers fit, the first disk is large enough, and no disk is other than
\* the source has it but for that.
DiskAsAsked ==
  pc = "done" /\ Fits =>
    /\ HoldsDiskSize
    /\ \A i \in DOMAIN source.disks :
         vm.disks[i] # source.disks[i] => i = 1 /\ vm.disks[i] = data.disk_size * KiBPerGiB
=============================================================================
