-------------------------- MODULE MachineConfigProofs --------------------------
(***************************************************************************)
(* Theorems of MachineConfig, for every class, every template and library  *)
(* item, every width of the integers and any number of attempts.           *)
(***************************************************************************)
EXTENDS MachineConfig, SequenceTheorems, TLAPS

-----------------------------------------------------------------------------
(***************************************************************************)
(* What vCenter is asked for is what the class says, if it fits.           *)
(***************************************************************************)

\* A number below half of the modulus is converted to itself.
LEMMA SignedFits ==
  ASSUME NEW m \in Nat \ {0}, NEW n \in Nat, n < m \div 2
  PROVE  Signed(n, m) = n
  <1>1. m \div 2 <= m /\ m \div 2 \in Nat OBVIOUS
  <1>2. n % m = n BY <1>1
  <1> QED BY <1>2 DEF Signed

\* A converted number is an integer.
LEMMA SignedInt ==
  ASSUME NEW m \in Nat \ {0}, NEW n \in Nat
  PROVE  Signed(n, m) \in Int
  BY DEF Signed

\* What Classes and Hardware give the numbers used below.
Numbers ==
  /\ data \in Classes /\ source \in Hardware
  /\ data.disk_size \in Nat /\ data.cpu \in Nat /\ data.memory \in Nat
  /\ source.cpu \in Nat /\ source.memory \in Nat
  /\ source.disks \in Seq(Nat) /\ source.firmware \in {"bios", "efi"}

\* The constants' assumptions give them.
LEMMA GivenNumbers == data \in Classes /\ source \in Hardware => Numbers
  <1> SUFFICES ASSUME data \in Classes, source \in Hardware PROVE Numbers OBVIOUS
  <1>1. IsClass(data) /\ IsHardware(source) BY ClassesAssumption, HardwareAssumption
  <1> QED BY <1>1, WidthsAssumption DEF Numbers, IsClass, IsHardware

\* The three conversions of a class whose numbers fit.
LEMMA Conversions ==
  ASSUME Numbers, Fits
  PROVE  /\ AskedCPU = data.cpu
         /\ AskedMemory = data.memory
         /\ AskedCapacity = data.disk_size * KiBPerGiB
  <1>w. /\ Word \in Nat \ {0} /\ IntWord \in Nat \ {0}
        /\ KiBPerGiB \in Nat \ {0} /\ BytesPerKiB \in Nat \ {0}
    BY WidthsAssumption
  <1>1. AskedCPU = data.cpu BY <1>w, SignedFits DEF Numbers, Fits, AskedCPU
  <1>2. AskedMemory = data.memory BY <1>w, SignedFits DEF Numbers, Fits, AskedMemory
  <1>3. AskedCapacity = data.disk_size * KiBPerGiB
    <2> DEFINE kib == data.disk_size * KiBPerGiB
               bytes == data.disk_size * (KiBPerGiB * BytesPerKiB)
    <2>1. kib \in Nat /\ bytes = kib * BytesPerKiB /\ bytes \in Nat BY <1>w DEF Numbers
    <2>2. bytes < Word BY DEF Fits
    <2> HIDE DEF kib, bytes
    <2>3. bytes % Word = bytes BY <1>w, <2>1, <2>2
    <2>4. (kib * BytesPerKiB) \div BytesPerKiB = kib BY <1>w, <2>1
    <2>5. (bytes % Word) \div BytesPerKiB = kib BY <2>1, <2>3, <2>4
    <2> QED BY <2>5 DEF AskedCapacity, kib, bytes
  <1> QED BY <1>1, <1>2, <1>3

\* The disk is asked for in whole KiB, whatever the size.
LEMMA CapacityNat == Numbers => AskedCapacity \in Nat
  <1> SUFFICES ASSUME Numbers PROVE AskedCapacity \in Nat OBVIOUS
  <1> DEFINE bytes == data.disk_size * (KiBPerGiB * BytesPerKiB)
  <1>1. bytes \in Nat BY WidthsAssumption DEF Numbers
  <1> HIDE DEF bytes
  <1>2. bytes % Word \in Nat BY <1>1, WidthsAssumption
  <1>3. (bytes % Word) \div BytesPerKiB \in Nat BY <1>2, WidthsAssumption
  <1> QED BY <1>3 DEF AskedCapacity, bytes

\* A setting that is asked for twice is as if asked for once.
LEMMA AskedTwice == ASSUME NEW n, NEW old PROVE Asked(n, Asked(n, old)) = Asked(n, old)
  BY DEF Asked

-----------------------------------------------------------------------------
(***************************************************************************)
(* The settings at every stage.                                            *)
(***************************************************************************)

WantedFirmware ==
  IF data.firmware = NoString THEN source.firmware ELSE firmwareType(data.firmware)
WantedCPU == Asked(AskedCPU, source.cpu)
WantedMemory == Asked(AskedMemory, source.memory)
WantedPolicies == IF data.storage_policy THEN AllPolicies ELSE {}

After(stages) == pc \in stages

\* The VM is a record of all the settings.
Shape ==
  vm = [firmware |-> vm.firmware, cpu |-> vm.cpu, memory |-> vm.memory, disks |-> vm.disks,
        extra |-> vm.extra, policies |-> vm.policies, connected |-> vm.connected]

\* There is a VM after the stage that creates it, and none is like the source.
MadeInv ==
  /\ made \in BOOLEAN
  /\ After({"firmware", "finalize", "resize", "network", "done"}) => made
  /\ ~made => vm = Plain

\* The firmware is that of the source until it is that of the class.
FirmwareInv ==
  /\ vm.firmware \in {source.firmware, WantedFirmware}
  /\ After({"finalize", "resize", "network", "done"}) => vm.firmware = WantedFirmware

\* A clone has its CPUs and memory from the start, a deployment from finalizeVM.
SizeInv ==
  /\ vm.cpu \in {source.cpu, WantedCPU} /\ vm.memory \in {source.memory, WantedMemory}
  /\ After({"resize", "network", "done"}) \/ (made /\ ~data.library_item)
       => vm.cpu = WantedCPU /\ vm.memory = WantedMemory
  /\ pc = "finalize" => data.library_item

\* Only the first disk grows, and only to what was asked for.
DiskInv ==
  /\ vm.disks \in [DOMAIN source.disks -> Nat]
  /\ \A i \in DOMAIN source.disks :
       vm.disks[i] = source.disks[i] \/ (i = 1 /\ vm.disks[i] = AskedCapacity)
  /\ After({"network", "done"}) /\ data.disk_size > 0 => vm.disks[1] >= AskedCapacity

\* Policies are set with the VM.
PolicyInv == made => vm.policies = WantedPolicies

IInv ==
  /\ data \in Classes /\ source \in Hardware
  /\ Shape /\ MadeInv /\ FirmwareInv /\ SizeInv /\ DiskInv /\ PolicyInv

\* The stages before there is a VM, and those that leave the VM alone.
Idle == Validate \/ ValidateItem \/ Validated \/ Refused \/ CutShort \/ Finished \/ UNCHANGED vars

\* The first states.
LEMMA InitIInv == Init => IInv
  <1> SUFFICES ASSUME Init PROVE IInv OBVIOUS
  <1>0. Numbers BY GivenNumbers DEF Init
  <1> USE DEF Init
  <1>1. Shape BY DEF Shape, Plain
  <1>2. MadeInv BY DEF MadeInv, After
  <1>3. FirmwareInv BY DEF FirmwareInv, After, Plain
  <1>4. SizeInv BY DEF SizeInv, After, Plain
  <1>5. DiskInv BY <1>0 DEF DiskInv, After, Plain, Numbers
  <1>6. PolicyInv BY DEF PolicyInv
  <1> QED BY <1>1, <1>2, <1>3, <1>4, <1>5, <1>6 DEF IInv

\* What is wanted depends on the class and the source alone.
LEMMA WantedSame ==
  ASSUME UNCHANGED <<data, source>>
  PROVE  /\ WantedFirmware' = WantedFirmware /\ WantedCPU' = WantedCPU
         /\ WantedMemory' = WantedMemory /\ WantedPolicies' = WantedPolicies
         /\ Plain' = Plain /\ AskedCapacity' = AskedCapacity
  BY DEF WantedFirmware, WantedCPU, WantedMemory, WantedPolicies, AskedCPU, AskedMemory,
         AllPolicies, Plain, Asked, firmwareType, AskedCapacity

\* What the invariant says of data, source, made and vm alone stays.
LEMMA IdleStep ==
  ASSUME IInv, Idle
  PROVE  IInv'
  <1>1. UNCHANGED <<data, source, made, vm>>
    BY DEF Idle, Validate, ValidateItem, Validated, Refused, CutShort, Finished, vars
  <1>2. pc' = pc \/ pc' \in {"validate", "items", "create", "rejected"}
    BY DEF Idle, Validate, ValidateItem, Validated, Refused, CutShort, Finished, vars, attempt,
           Goto, Restart
  <1>3. Shape' BY <1>1 DEF IInv, Shape
  <1>4. MadeInv' BY <1>1, <1>2, WantedSame DEF IInv, MadeInv, After
  <1>5. FirmwareInv' BY <1>1, <1>2, WantedSame DEF IInv, FirmwareInv, After
  <1>6. SizeInv' BY <1>1, <1>2, WantedSame DEF IInv, SizeInv, After
  <1>7. DiskInv' BY <1>1, <1>2, WantedSame DEF IInv, DiskInv, After
  <1>8. PolicyInv' BY <1>1, WantedSame DEF IInv, PolicyInv
  <1> QED BY <1>1, <1>3, <1>4, <1>5, <1>6, <1>7, <1>8 DEF IInv

\* The stages that ask for settings the VM already may have: the rest of the VM
\* is as it was.
LEMMA SettingsStep ==
  ASSUME IInv, EnsureFirmware \/ FinalizeVM \/ ConfigureNetwork \/ PickUp
  PROVE  IInv'
  <1> USE DEF Goto
  <1>1. UNCHANGED <<data, source, made>> /\ made
    BY DEF IInv, MadeInv, After, EnsureFirmware, FinalizeVM, ConfigureNetwork, PickUp
  <1>2. CASE PickUp
    <2>1. pc' = "firmware" /\ vm' = vm BY <1>2 DEF PickUp
    <2>2. Shape' /\ MadeInv' /\ PolicyInv'
      BY <1>1, <2>1, WantedSame DEF IInv, Shape, MadeInv, After, PolicyInv
    <2>3. FirmwareInv' /\ SizeInv'
      BY <1>1, <2>1, WantedSame DEF IInv, FirmwareInv, SizeInv, After
    <2>4. DiskInv' BY <1>1, <2>1, WantedSame DEF IInv, DiskInv, After
    <2> QED BY <1>1, <2>2, <2>3, <2>4 DEF IInv
  <1>3. CASE EnsureFirmware
    <2>1. /\ pc = "firmware" /\ pc' = IF data.library_item THEN "finalize" ELSE "resize"
          /\ vm' = [vm EXCEPT !.firmware =
                      IF data.firmware = NoString THEN @ ELSE firmwareType(data.firmware)]
      BY <1>3 DEF EnsureFirmware
    <2>2. Shape' BY <2>1 DEF IInv, Shape
    <2>3. vm'.firmware = WantedFirmware
      BY <2>1 DEF IInv, Shape, FirmwareInv, WantedFirmware
    <2>4. /\ vm'.cpu = vm.cpu /\ vm'.memory = vm.memory
          /\ vm'.disks = vm.disks /\ vm'.policies = vm.policies
      BY <2>1 DEF IInv, Shape
    <2>5. MadeInv' /\ PolicyInv' BY <1>1, <2>4, WantedSame DEF IInv, MadeInv, PolicyInv
    <2>6. FirmwareInv' BY <1>1, <2>3, WantedSame DEF FirmwareInv
    <2>7. SizeInv' BY <1>1, <2>1, <2>4, WantedSame DEF IInv, SizeInv, After
    <2>8. DiskInv' BY <1>1, <2>1, <2>4, WantedSame DEF IInv, DiskInv, After
    <2> QED BY <1>1, <2>2, <2>5, <2>6, <2>7, <2>8 DEF IInv
  <1>4. CASE FinalizeVM
    <2>1. pc = "finalize" /\ pc' = "resize" /\ vm' = Configured(vm) BY <1>4 DEF FinalizeVM
    <2>2. Shape' BY <2>1 DEF IInv, Shape, Configured
    <2>3. vm'.cpu = Asked(AskedCPU, vm.cpu) /\ vm'.memory = Asked(AskedMemory, vm.memory)
      BY <2>1 DEF IInv, Shape, Configured
    <2>4. vm'.cpu = WantedCPU /\ vm'.memory = WantedMemory
      BY <2>3 DEF IInv, SizeInv, WantedCPU, WantedMemory, Asked
    <2>5. vm'.firmware = vm.firmware /\ vm'.disks = vm.disks /\ vm'.policies = vm.policies
      BY <2>1 DEF IInv, Shape, Configured
    <2>6. MadeInv' /\ PolicyInv' BY <1>1, <2>5, WantedSame DEF IInv, MadeInv, PolicyInv
    <2>7. FirmwareInv' BY <1>1, <2>1, <2>5, WantedSame DEF IInv, FirmwareInv, After
    <2>8. SizeInv' BY <1>1, <2>1, <2>4, WantedSame DEF SizeInv
    <2>9. DiskInv' BY <1>1, <2>1, <2>5, WantedSame DEF IInv, DiskInv, After
    <2> QED BY <1>1, <2>2, <2>6, <2>7, <2>8, <2>9 DEF IInv
  <1>5. CASE ConfigureNetwork
    <2>1. /\ pc = "network" /\ pc' = "done"
          /\ vm' = [vm EXCEPT !.connected = IF data.network THEN {1} ELSE @]
      BY <1>5 DEF ConfigureNetwork
    <2>2. Shape' BY <2>1 DEF IInv, Shape
    <2>3. /\ vm'.cpu = vm.cpu /\ vm'.memory = vm.memory /\ vm'.firmware = vm.firmware
          /\ vm'.disks = vm.disks /\ vm'.policies = vm.policies
      BY <2>1 DEF IInv, Shape
    <2>4. MadeInv' /\ PolicyInv' BY <1>1, <2>3, WantedSame DEF IInv, MadeInv, PolicyInv
    <2>5. FirmwareInv' BY <1>1, <2>1, <2>3, WantedSame DEF IInv, FirmwareInv, After
    <2>6. SizeInv' BY <1>1, <2>1, <2>3, WantedSame DEF IInv, SizeInv, After
    <2>7. DiskInv' BY <1>1, <2>1, <2>3, WantedSame DEF IInv, DiskInv, After
    <2> QED BY <1>1, <2>2, <2>4, <2>5, <2>6, <2>7 DEF IInv
  <1> QED BY <1>2, <1>3, <1>4, <1>5

\* The VM is made: it is the source but for what the request carries.
LEMMA CreateStep ==
  ASSUME IInv, CloneFromTemplate \/ DeployFromContentLibrary
  PROVE  IInv'
  <1> USE DEF Goto
  <1>0. Numbers BY GivenNumbers DEF IInv
  <1>1. UNCHANGED <<data, source>> /\ made' = TRUE /\ pc' = "firmware"
    BY DEF CloneFromTemplate, DeployFromContentLibrary
  <1>2. Shape' /\ vm'.disks = source.disks /\ vm'.firmware = source.firmware
    BY DEF CloneFromTemplate, DeployFromContentLibrary, Configured, Plain, Shape
  <1>3. vm'.policies = WantedPolicies
    BY DEF CloneFromTemplate, DeployFromContentLibrary, Configured, Plain, WantedPolicies, AllPolicies
  <1>4. \/ vm'.cpu = WantedCPU /\ vm'.memory = WantedMemory
        \/ vm'.cpu = source.cpu /\ vm'.memory = source.memory /\ data.library_item
    <2>1. CASE CloneFromTemplate
      BY <2>1 DEF CloneFromTemplate, Configured, Plain, WantedCPU, WantedMemory
    <2>2. CASE DeployFromContentLibrary BY <2>2 DEF DeployFromContentLibrary, Plain
    <2> QED BY <2>1, <2>2
  <1>5. SizeInv' BY <1>1, <1>4, WantedSame DEF SizeInv, After
  <1>6. MadeInv' /\ PolicyInv' BY <1>1, <1>3, WantedSame DEF MadeInv, PolicyInv
  <1>7. FirmwareInv' BY <1>1, <1>2, WantedSame DEF FirmwareInv, After
  <1>8. DiskInv' BY <1>0, <1>1, <1>2, WantedSame DEF DiskInv, After, Numbers
  <1> QED BY <1>1, <1>2, <1>5, <1>6, <1>7, <1>8 DEF IInv

\* The first disk grows or is large enough.
LEMMA ResizeStep ==
  ASSUME IInv, ResizeDisk
  PROVE  IInv'
  <1>0. Numbers /\ AskedCapacity \in Nat BY GivenNumbers, CapacityNat DEF IInv
  <1>1. /\ UNCHANGED <<data, source, made>> /\ pc = "resize" /\ ~NoDisk
        /\ pc' = IF data.library_item THEN "done" ELSE "network"
    BY DEF ResizeDisk, Goto
  <1>2. /\ Shape'
        /\ vm'.cpu = vm.cpu /\ vm'.memory = vm.memory /\ vm'.firmware = vm.firmware
        /\ vm'.policies = vm.policies
    BY DEF ResizeDisk, IInv, Shape
  <1>3. vm'.disks = IF data.disk_size = 0 \/ AskedCapacity <= vm.disks[1] THEN vm.disks
                    ELSE [vm.disks EXCEPT ![1] = AskedCapacity]
    BY DEF ResizeDisk, IInv, Shape
  <1>4. MadeInv' /\ PolicyInv' BY <1>1, <1>2, WantedSame DEF IInv, MadeInv, PolicyInv, After
  <1>5. FirmwareInv' BY <1>1, <1>2, WantedSame DEF IInv, FirmwareInv, After
  <1>6. SizeInv' BY <1>1, <1>2, WantedSame DEF IInv, SizeInv, After
  <1>7. DiskInv'
    <2>1. vm.disks \in [DOMAIN source.disks -> Nat] BY DEF IInv, DiskInv
    <2>2. data.disk_size > 0 => 1 \in DOMAIN source.disks
      <3>1. source.disks \in Seq(Nat) /\ DOMAIN source.disks = 1..Len(source.disks)
        BY <1>0 DEF Numbers
      <3>2. vm.disks \in Seq(Nat) /\ Len(vm.disks) = Len(source.disks)
        <4> DEFINE n == Len(source.disks)
        <4>1. n \in Nat /\ vm.disks \in [1..n -> Nat] BY <2>1, <3>1
        <4> HIDE DEF n
        <4>2. vm.disks \in Seq(Nat) /\ Len(vm.disks) = n BY <4>1
        <4> QED BY <4>2 DEF n
      <3>3. data.disk_size > 0 => Len(vm.disks) # 0 BY <1>1, <3>2 DEF NoDisk
      <3> QED BY <3>1, <3>2, <3>3
    <2>3. vm'.disks \in [DOMAIN source.disks -> Nat] BY <1>0, <1>3, <2>1
    <2>4. \A i \in DOMAIN source.disks :
            vm'.disks[i] = source.disks[i] \/ (i = 1 /\ vm'.disks[i] = AskedCapacity)
      BY <1>3, <2>1 DEF IInv, DiskInv
    <2>5. data.disk_size > 0 => vm'.disks[1] >= AskedCapacity
      BY <1>0, <1>3, <2>1, <2>2 DEF Numbers
    <2> QED BY <1>1, <2>3, <2>4, <2>5, WantedSame DEF DiskInv
  <1> QED BY <1>1, <1>2, <1>4, <1>5, <1>6, <1>7 DEF IInv

\* The inductive invariant.
THEOREM Invariance == Spec => []IInv
  <1>1. IInv /\ [Next]_vars => IInv'
    BY IdleStep, SettingsStep, CreateStep, ResizeStep DEF Next, Idle
  <1> QED BY <1>1, InitIInv, PTL DEF Spec

\* provision.go:517, content_library.go:165: a finished VM has the CPUs, the memory
\* and the firmware of its class, on either path, whatever was cut short.
THEOREM Hardened == Spec => []HardwareAsAsked
  <1>1. IInv => HardwareAsAsked
    <2> SUFFICES ASSUME IInv, pc = "done", Fits
                 PROVE  /\ vm.cpu = Asked(data.cpu, source.cpu)
                        /\ vm.memory = Asked(data.memory, source.memory)
                        /\ vm.firmware = WantedFirmware
      BY DEF HardwareAsAsked, WantedFirmware
    <2>1. Numbers BY GivenNumbers DEF IInv
    <2> QED BY <2>1, Conversions DEF IInv, FirmwareInv, SizeInv, After, WantedCPU, WantedMemory
  <1> QED BY <1>1, Invariance, PTL

\* provision.go:83: the first disk of a finished VM holds what the class asks for,
\* and no other disk has been touched.
THEOREM DiskSized == Spec => []DiskAsAsked
  <1>1. IInv => DiskAsAsked
    <2> SUFFICES ASSUME IInv, pc = "done", Fits
                 PROVE  /\ HoldsDiskSize
                        /\ \A i \in DOMAIN source.disks :
                             vm.disks[i] # source.disks[i]
                               => i = 1 /\ vm.disks[i] = data.disk_size * KiBPerGiB
      BY DEF DiskAsAsked
    <2>1. Numbers BY GivenNumbers DEF IInv
    <2>2. AskedCapacity = data.disk_size * KiBPerGiB BY <2>1, Conversions
    <2> QED BY <2>2 DEF IInv, DiskInv, After, HoldsDiskSize
  <1> QED BY <1>1, Invariance, PTL

\* provision.go:249: the storage policy is on the home and on every disk.
THEOREM PolicySet == Spec => []PolicyEverywhere
  <1>1. IInv => PolicyEverywhere
    BY DEF IInv, PolicyInv, MadeInv, After, PolicyEverywhere, WantedPolicies
  <1> QED BY <1>1, Invariance, PTL
-----------------------------------------------------------------------------
(***************************************************************************)
(* Validation.                                                             *)
(***************************************************************************)

Entries == data.extra_config

\* The entries that have been passed are in order, and seen has their keys.
Passed(e, n, keys) ==
  /\ n \in 1..(Len(e) + 1)
  /\ keys = {e[i].key : i \in 1..(n - 1)}
  /\ \A i \in 1..(n - 1) : e[i].key \notin {NoString} \union Owned /\ e[i].value # NoString
  /\ \A i, j \in 1..(n - 1) : e[i].key = e[j].key => i = j

PassedInv == Passed(Entries, at, seen)

Sound == ~SourceError /\ firmwareType(data.firmware) # "invalid" /\ ~PCIError

Judged ==
  /\ pc = "validate" => at = 1
  /\ After({"items", "create", "firmware", "finalize", "resize", "network", "done"}) => Sound
  /\ After({"create", "firmware", "finalize", "resize", "network", "done"}) => Consistent
  /\ made => Consistent
  /\ pc = "rejected" => ~Consistent

VInv == data \in Classes /\ PassedInv /\ Judged

\* What the assumptions say of the class's entries.
LEMMA EntriesGiven ==
  ASSUME data \in Classes
  PROVE  /\ Entries \in Seq([key : Keys \union {NoString}, value : Values \union {NoString}])
         /\ Len(Entries) \in Nat /\ DOMAIN Entries = 1..Len(Entries)
         /\ \A i \in DOMAIN Entries : Entries[i].key \in Keys \union {NoString}
         /\ NoString \notin Keys
  <1>1. Entries \in Seq([key : Keys \union {NoString}, value : Values \union {NoString}])
    <2>1. IsClass(data) BY ClassesAssumption
    <2> QED BY <2>1 DEF IsClass, Entries
  <1>2. \A i \in DOMAIN Entries :
          Entries[i] \in [key : Keys \union {NoString}, value : Values \union {NoString}]
    <2> DEFINE S == [key : Keys \union {NoString}, value : Values \union {NoString}]
    <2>1. Entries \in Seq(S) BY <1>1
    <2> HIDE DEF S
    <2>2. \A i \in DOMAIN Entries : Entries[i] \in S BY <2>1
    <2> QED BY <2>2 DEF S
  <1>3. NoString \notin Keys BY NoStringAssumption
  <1> QED BY <1>1, <1>2, <1>3

\* A class that Validate finds at fault before the entries is not consistent.
LEMMA UnsoundInconsistent == data \in Classes /\ ~Sound => ~Consistent
  <1> SUFFICES ASSUME data \in Classes, ~Sound, Consistent PROVE FALSE OBVIOUS
  <1>1. ~SourceError BY DEF Consistent, SourceError, UsingLibrary
  <1>2. firmwareType(data.firmware) # "invalid" BY NoStringAssumption DEF Consistent, firmwareType
  <1>3. ~PCIError BY DEF Consistent, PCIError
  <1> QED BY <1>1, <1>2, <1>3 DEF Sound

\* A class that is not at fault has one source, a firmware that is known and
\* devices with a label or an address.
LEMMA SoundParts ==
  ASSUME data \in Classes, Sound
  PROVE  /\ <<data.template, data.content_library, data.library_item>>
               \in {<<TRUE, FALSE, FALSE>>, <<FALSE, TRUE, TRUE>>}
         /\ data.firmware \in {NoString, "bios", "efi", "uefi"}
         /\ \A i \in DOMAIN data.pci_devices :
              data.pci_devices[i].label # data.pci_devices[i].address
  <1>1. data.template \in BOOLEAN /\ data.content_library \in BOOLEAN /\ data.library_item \in BOOLEAN
    BY ClassesAssumption DEF IsClass
  <1>2. \/ data.template /\ ~data.content_library /\ ~data.library_item
        \/ ~data.template /\ data.content_library /\ data.library_item
    BY <1>1, Zenon DEF Sound, SourceError, UsingLibrary
  <1>3. <<data.template, data.content_library, data.library_item>>
          \in {<<TRUE, FALSE, FALSE>>, <<FALSE, TRUE, TRUE>>}
    BY <1>1, <1>2
  <1>4. data.firmware \in {NoString, "bios", "efi", "uefi"} BY DEF Sound, firmwareType
  <1> QED BY <1>3, <1>4 DEF Sound, PCIError

\* An entry is passed, or the class is not consistent.
LEMMA ItemStep == ASSUME VInv, ValidateItem PROVE VInv'
  <1> USE EntriesGiven DEF VInv, After
  <1>1. UNCHANGED <<data, made>> /\ pc = "items" /\ at <= Len(Entries)
    BY DEF ValidateItem, Entries
  <1>2. at \in DOMAIN Entries /\ Entries[at] = Item BY <1>1 DEF PassedInv, Passed, Item, Entries
  <1>3. Entries' = Entries /\ (Consistent' <=> Consistent) /\ (Sound' <=> Sound)
    BY <1>1 DEF Entries, Consistent, Sound, SourceError, UsingLibrary, PCIError, firmwareType
  <1>4. CASE ItemError
    <2>1. pc' = "rejected" /\ UNCHANGED <<at, seen>> BY <1>4 DEF ValidateItem, Goto
    <2>2. ~Consistent
      <3>1. CASE Item.key \in seen
        <4>1. PICK i \in 1..(at - 1) : Entries[i].key = Item.key BY <3>1 DEF PassedInv, Passed
        <4>2. i \in DOMAIN Entries /\ i # at BY <1>2, <4>1 DEF PassedInv, Passed
        <4> QED BY <1>2, <4>1, <4>2 DEF Consistent, Entries
      <3>2. CASE Item.key \in {NoString} \union Owned \/ Item.value = NoString
        BY <1>2, <3>2 DEF Consistent, Entries, Keys
      <3> QED BY <1>4, <3>1, <3>2 DEF ItemError
    <2> QED BY <1>1, <1>3, <2>1, <2>2 DEF PassedInv, Judged
  <1>5. CASE ~ItemError
    <2>1. pc' = "items" /\ at' = at + 1 /\ seen' = seen \union {Item.key}
      BY <1>1, <1>5 DEF ValidateItem
    <2>2. 1..(at' - 1) = (1..(at - 1)) \union {at} /\ at' \in 1..(Len(Entries) + 1)
      BY <1>1, <2>1 DEF PassedInv, Passed
    <2>3. PassedInv'
      <3>1. seen' = {Entries[i].key : i \in 1..(at' - 1)} BY <1>2, <2>1, <2>2 DEF PassedInv, Passed
      <3>2. \A i \in 1..(at' - 1) :
              Entries[i].key \notin {NoString} \union Owned /\ Entries[i].value # NoString
        BY <1>2, <1>5, <2>2 DEF PassedInv, Passed, ItemError
      <3>3. \A i \in 1..(at - 1) : Entries[i].key # Entries[at].key
        BY <1>2, <1>5 DEF PassedInv, Passed, ItemError
      <3>4. \A i, j \in 1..(at' - 1) : Entries[i].key = Entries[j].key => i = j
        BY <2>2, <3>3 DEF PassedInv, Passed
      <3>5. Passed(Entries, at', seen') BY <2>2, <3>1, <3>2, <3>4 DEF Passed
      <3> QED BY <1>3, <3>5 DEF PassedInv
    <2> QED BY <1>1, <1>3, <2>1, <2>3 DEF Judged
  <1> QED BY <1>4, <1>5

\* The steps other than those of the loop judge by what is known.
LEMMA JudgeStep == ASSUME VInv, [Next]_vars, ~ValidateItem PROVE VInv'
  <1> USE EntriesGiven DEF VInv, After, Goto, Restart
  <1>1. UNCHANGED data
    BY DEF Next, Validate, Validated, PickUp, CloneFromTemplate, DeployFromContentLibrary,
           EnsureFirmware, FinalizeVM, ResizeDisk, ConfigureNetwork, Refused, CutShort, Finished, vars
  <1>2. Entries' = Entries /\ (Consistent' <=> Consistent) /\ (Sound' <=> Sound)
    BY <1>1 DEF Entries, Consistent, Sound, SourceError, UsingLibrary, PCIError, firmwareType
  <1>3. CASE Validate
    <2>1. UNCHANGED <<made, at, seen>> BY <1>3 DEF Validate
    <2>2. (pc' = "items" /\ Sound) \/ (pc' = "rejected" /\ ~Consistent)
      BY <1>3, UnsoundInconsistent DEF Validate, Sound
    <2> QED BY <1>1, <1>2, <2>1, <2>2 DEF PassedInv, Judged
  <1>4. CASE Validated
    <2>1. pc = "items" /\ pc' = "create" /\ UNCHANGED <<made, at, seen>> /\ at = Len(Entries) + 1
      BY <1>4 DEF Validated, Entries
    <2>2. 1..(at - 1) = DOMAIN Entries BY <2>1
    <2>3. \A i \in DOMAIN Entries : Entries[i].key \in UserKeys \ Owned /\ Entries[i].value # NoString
      BY <2>2 DEF PassedInv, Passed, Keys
    <2>4. \A i, j \in DOMAIN Entries : Entries[i].key = Entries[j].key => i = j
      BY <2>2 DEF PassedInv, Passed
    <2>5. Sound BY <2>1 DEF Judged
    <2>6. Consistent BY <2>3, <2>4, <2>5, SoundParts DEF Consistent, Entries
    <2> QED BY <1>1, <1>2, <2>1, <2>5, <2>6 DEF PassedInv, Judged
  <1>5. CASE CloneFromTemplate \/ DeployFromContentLibrary \/ PickUp \/ EnsureFirmware
             \/ FinalizeVM \/ ResizeDisk \/ ConfigureNetwork
    <2>1. UNCHANGED <<at, seen>> /\ Consistent /\ Sound
      BY <1>5 DEF Judged, CloneFromTemplate, DeployFromContentLibrary, PickUp, EnsureFirmware,
                  FinalizeVM, ResizeDisk, ConfigureNetwork
    <2>2. pc' \in {"firmware", "finalize", "resize", "network", "done"}
      BY <1>5 DEF CloneFromTemplate, DeployFromContentLibrary, PickUp, EnsureFirmware,
                  FinalizeVM, ResizeDisk, ConfigureNetwork
    <2> QED BY <1>1, <1>2, <2>1, <2>2 DEF PassedInv, Judged
  <1>6. CASE Refused \/ CutShort
    <2>1. pc' = "validate" /\ at' = 1 /\ seen' = {} /\ made' = made
      BY <1>6 DEF Refused, CutShort
    <2> QED BY <1>1, <1>2, <2>1 DEF PassedInv, Passed, Judged
  <1>7. CASE Finished \/ UNCHANGED vars
    BY <1>1, <1>2, <1>7 DEF Finished, vars, attempt, PassedInv, Judged
  <1> QED BY <1>3, <1>4, <1>5, <1>6, <1>7 DEF Next

\* The loop over the entries, then the stages, know what they have passed.
LEMMA Judging == Spec => []VInv
  <1>1. Init => VInv
    BY EntriesGiven DEF Init, VInv, PassedInv, Passed, Judged, After
  <1>2. VInv /\ [Next]_vars => VInv' BY ItemStep, JudgeStep
  <1> QED BY <1>1, <1>2, PTL DEF Spec

\* data.go:91: Validate rejects exactly the classes whose settings contradict each
\* other, before anything is created; the fields the README requires are not among
\* its checks.
THEOREM Validation == Spec => []ConsistentOnly
  <1>1. VInv => ConsistentOnly BY DEF VInv, Judged, ConsistentOnly
  <1> QED BY <1>1, Judging, PTL
-----------------------------------------------------------------------------
(***************************************************************************)
(* Advanced parameters.                                                    *)
(***************************************************************************)

Unset == [k \in Keys |-> NoString]
WantedExtra == Set(Unset, extraConfigOptions)

\* The parameters are set all at once: a clone has them from the start, a
\* deployment from finalizeVM.
ExtraInv ==
  /\ vm.extra \in {Unset, WantedExtra}
  /\ After({"resize", "network", "done"}) \/ (made /\ ~data.library_item)
       => vm.extra = WantedExtra

\* Parameters that are set again stay as they are.
LEMMA SetTwice == Set(WantedExtra, extraConfigOptions) = WantedExtra
  <1> DEFINE o == extraConfigOptions
             named(k) == {i \in DOMAIN o : o[i].key = k}
             last(k) == o[CHOOSE i \in named(k) : \A j \in named(k) : j <= i].value
  <1>1. \A e : Set(e, o) = [k \in Keys |-> IF named(k) = {} THEN e[k] ELSE last(k)]
    BY DEF Set
  <1> HIDE DEF o, named, last
  <1>2. WantedExtra = [k \in Keys |-> IF named(k) = {} THEN Unset[k] ELSE last(k)]
    BY <1>1 DEF WantedExtra, o
  <1>3. Set(WantedExtra, o) = [k \in Keys |-> IF named(k) = {} THEN WantedExtra[k] ELSE last(k)]
    BY <1>1
  <1>4. \A k \in Keys : (IF named(k) = {} THEN WantedExtra[k] ELSE last(k))
                        = (IF named(k) = {} THEN Unset[k] ELSE last(k))
    BY <1>2
  <1>5. Set(WantedExtra, o) = WantedExtra BY <1>2, <1>3, <1>4
  <1> QED BY <1>5 DEF o

\* Every step leaves the parameters alone or sets all of them.
LEMMA ExtraStep == ASSUME IInv, ExtraInv, [Next]_vars PROVE ExtraInv'
  <1> USE DEF After, Goto, Restart
  <1>1. UNCHANGED data
    BY DEF Next, Validate, ValidateItem, Validated, PickUp, CloneFromTemplate,
           DeployFromContentLibrary, EnsureFirmware, FinalizeVM, ResizeDisk, ConfigureNetwork,
           Refused, CutShort, Finished, vars
  <1>2. Unset' = Unset /\ WantedExtra' = WantedExtra
    BY <1>1 DEF Unset, WantedExtra, Set, extraConfigOptions
  <1>3. CASE Idle
    <2>1. UNCHANGED <<made, vm>>
      BY <1>3 DEF Idle, Validate, ValidateItem, Validated, Refused, CutShort, Finished, vars
    <2>2. pc' = pc \/ pc' \in {"validate", "items", "create", "rejected"}
      BY <1>3 DEF Idle, Validate, ValidateItem, Validated, Refused, CutShort, Finished, vars, attempt
    <2> QED BY <1>1, <1>2, <2>1, <2>2 DEF ExtraInv
  <1>4. CASE PickUp \/ EnsureFirmware \/ ResizeDisk \/ ConfigureNetwork
    <2>1. UNCHANGED made /\ made
      BY <1>4 DEF IInv, MadeInv, PickUp, EnsureFirmware, ResizeDisk, ConfigureNetwork
    <2>2. vm'.extra = vm.extra
      BY <1>4 DEF IInv, Shape, PickUp, EnsureFirmware, ResizeDisk, ConfigureNetwork
    <2>3. pc' \in {"resize", "network", "done"}
            => pc \in {"resize", "network", "done"} \/ ~data.library_item
      BY <1>4 DEF PickUp, EnsureFirmware, ResizeDisk, ConfigureNetwork
    <2> QED BY <1>1, <1>2, <2>1, <2>2, <2>3 DEF ExtraInv
  <1>5. CASE FinalizeVM
    <2>1. vm'.extra = Set(vm.extra, extraConfigOptions)
      BY <1>5 DEF IInv, Shape, FinalizeVM, Configured
    <2>2. vm'.extra = WantedExtra BY <2>1, SetTwice DEF ExtraInv, WantedExtra
    <2> QED BY <1>2, <2>2 DEF ExtraInv
  <1>6. CASE CloneFromTemplate
    <2>1. vm'.extra = WantedExtra
      BY <1>6 DEF CloneFromTemplate, Configured, Plain, WantedExtra, Unset
    <2> QED BY <1>2, <2>1 DEF ExtraInv
  <1>7. CASE DeployFromContentLibrary
    <2>1. vm'.extra = Unset /\ data.library_item /\ pc' = "firmware"
      BY <1>7 DEF DeployFromContentLibrary, Plain, Unset
    <2> QED BY <1>1, <1>2, <2>1 DEF ExtraInv
  <1> QED BY <1>3, <1>4, <1>5, <1>6, <1>7 DEF Next, Idle

\* A pair put before a sequence moves it by two.
LEMMA PairFirst ==
  ASSUME NEW S, NEW p \in Seq(S), NEW s \in Seq(S), Len(p) = 2
  PROVE  /\ DOMAIN (p \o s) = 1..(Len(s) + 2)
         /\ (p \o s)[1] = p[1] /\ (p \o s)[2] = p[2]
         /\ \A i \in 1..Len(s) : (p \o s)[i + 2] = s[i]
  <1> DEFINE c == p \o s
  <1>1. /\ c \in Seq(S) /\ Len(c) = Len(p) + Len(s)
        /\ \A i \in 1 .. Len(p) + Len(s) : c[i] = IF i <= Len(p) THEN p[i] ELSE s[i - Len(p)]
    BY ConcatProperties, Zenon
  <1>2. Len(s) \in Nat OBVIOUS
  <1> HIDE DEF c
  <1>3. DOMAIN c = 1..(Len(s) + 2) BY <1>1, <1>2
  <1>4. c[1] = p[1] /\ c[2] = p[2] BY <1>1, <1>2
  <1>5. \A i \in 1..Len(s) : c[i + 2] = s[i] BY <1>1, <1>2
  <1> QED BY <1>3, <1>4, <1>5 DEF c

\* What is wanted of each parameter, of a consistent class.
LEMMA WantedValues ==
  ASSUME data \in Classes, Consistent
  PROVE  /\ \A k \in Owned : WantedExtra[k] = OwnValue
         /\ \A i \in DOMAIN Entries : WantedExtra[Entries[i].key] = Entries[i].value
         /\ \A k \in UserKeys \ Owned :
              (\A i \in DOMAIN Entries : Entries[i].key # k) => WantedExtra[k] = NoString
  <1> DEFINE o == extraConfigOptions
             named(k) == {i \in DOMAIN o : o[i].key = k}
             last(k) == o[CHOOSE i \in named(k) : \A j \in named(k) : j <= i].value
             n == Len(Entries)
  <1>1. /\ n \in Nat /\ DOMAIN Entries = 1..n
        /\ \A i \in 1..n : Entries[i].key \in UserKeys \ Owned
        /\ \A i, j \in 1..n : Entries[i].key = Entries[j].key => i = j
    BY EntriesGiven DEF Consistent, Entries
  <1>2. /\ DOMAIN o = 1..(n + 2)
        /\ o[1] = [key |-> "disk.enableUUID", value |-> OwnValue]
        /\ o[2] = [key |-> "guestinfo.talos.config", value |-> OwnValue]
        /\ \A i \in 1..n : o[i + 2] = Entries[i]
    <2> DEFINE own == <<[key |-> "disk.enableUUID", value |-> OwnValue],
                        [key |-> "guestinfo.talos.config", value |-> OwnValue]>>
               S == [key : Keys \union {NoString}, value : Values \union {NoString, OwnValue}]
    <2>1. Entries \in Seq([key : Keys \union {NoString}, value : Values \union {NoString}])
      BY EntriesGiven
    <2>2. o = own \o Entries BY DEF extraConfigOptions, Entries
    <2>3. Len(own) = 2 /\ own[1] = [key |-> "disk.enableUUID", value |-> OwnValue]
          /\ own[2] = [key |-> "guestinfo.talos.config", value |-> OwnValue]
      OBVIOUS
    <2>4. own \in Seq(S) BY DEF Keys, Owned
    <2>5. Entries \in Seq(S)
      <3>1. \A i \in DOMAIN Entries : Entries[i] \in S
        <4> DEFINE R == [key : Keys \union {NoString}, value : Values \union {NoString}]
        <4>1. Entries \in Seq(R) BY <2>1
        <4>2. R \subseteq S OBVIOUS
        <4> HIDE DEF R, S
        <4> QED BY <4>1, <4>2
      <3>2. Entries \in [1..n -> S]
        <4> HIDE DEF S
        <4> QED BY <1>1, <2>1, <3>1
      <3> HIDE DEF S, n
      <3> QED BY <1>1, <3>2
    <2> HIDE DEF own, S, o
    <2>6. /\ DOMAIN (own \o Entries) = 1..(Len(Entries) + 2)
          /\ (own \o Entries)[1] = own[1] /\ (own \o Entries)[2] = own[2]
          /\ \A i \in 1..Len(Entries) : (own \o Entries)[i + 2] = Entries[i]
      BY <2>3, <2>4, <2>5, PairFirst
    <2> QED BY <2>2, <2>3, <2>6
  <1>3. \A k \in Keys : WantedExtra[k] = IF named(k) = {} THEN NoString ELSE last(k)
    BY DEF WantedExtra, Set, Unset
  <1> HIDE DEF o, n
  <1>4. \A k \in Owned : WantedExtra[k] = OwnValue
    <2> TAKE k \in Owned
    <2> DEFINE p == IF k = "disk.enableUUID" THEN 1 ELSE 2
    <2>1. named(k) = {p}
      <3>1. p \in named(k) BY <1>1, <1>2 DEF Owned
      <3>2. ASSUME NEW i \in named(k) PROVE i = p
        <4>1. CASE i > 2
          <5>1. i - 2 \in 1..n /\ o[i] = Entries[i - 2] BY <1>1, <1>2, <4>1
          <5> QED BY <1>1, <5>1
        <4>2. CASE ~(i > 2) BY <1>1, <1>2, <4>2 DEF Owned
        <4> QED BY <4>1, <4>2
      <3> QED BY <3>1, <3>2
    <2>2. last(k) = o[p].value BY <2>1
    <2> QED BY <1>2, <1>3, <2>1, <2>2 DEF Owned, Keys
  <1>5. \A q \in 1..n : WantedExtra[Entries[q].key] = Entries[q].value
    <2> TAKE q \in 1..n
    <2> DEFINE k == Entries[q].key
    <2>1. k \in UserKeys /\ k \notin Owned BY <1>1
    <2> HIDE DEF k
    <2>2. named(k) = {q + 2}
      <3>1. q + 2 \in named(k) BY <1>1, <1>2 DEF k
      <3>2. ASSUME NEW i \in named(k) PROVE i = q + 2
        <4>1. i \in 1..(n + 2) /\ o[i].key = k BY <1>2
        <4>2. i > 2 BY <1>1, <1>2, <2>1, <4>1 DEF Owned
        <4>3. i - 2 \in 1..n /\ o[i] = Entries[i - 2] BY <1>1, <1>2, <4>1, <4>2
        <4> QED BY <1>1, <4>1, <4>3 DEF k
      <3> QED BY <3>1, <3>2
    <2>3. last(k) = o[q + 2].value BY <2>2
    <2>4. WantedExtra[k] = Entries[q].value BY <1>2, <1>3, <2>1, <2>2, <2>3 DEF Keys
    <2> QED BY <2>4 DEF k
  <1>6. ASSUME NEW k \in UserKeys \ Owned, \A i \in 1..n : Entries[i].key # k
        PROVE  WantedExtra[k] = NoString
    <2>1. ASSUME NEW i \in named(k) PROVE FALSE
      <3>1. i \in 1..(n + 2) /\ o[i].key = k BY <1>2, <2>1
      <3>2. i > 2 BY <1>1, <1>2, <3>1 DEF Owned
      <3>3. i - 2 \in 1..n /\ o[i] = Entries[i - 2] BY <1>1, <1>2, <3>1, <3>2
      <3> QED BY <1>6, <3>1, <3>3
    <2>2. named(k) = {} BY <2>1
    <2> QED BY <1>3, <2>2 DEF Keys
  <1> QED BY <1>1, <1>4, <1>5, <1>6

\* The parameters stay unset or all as wanted.
LEMMA ExtraKept == Spec => []ExtraInv
  <1>1. Init => ExtraInv BY DEF Init, ExtraInv, Plain, Unset, After
  <1>2. IInv /\ ExtraInv /\ [Next]_vars => ExtraInv' BY ExtraStep
  <1> QED BY <1>1, <1>2, Invariance, PTL DEF Spec

\* data.go:184: a finished VM has the machine config and the parameters of its
\* class, none of them in place of another, on either path.
THEOREM Parameters == Spec => []ParametersSet
  <1>1. ExtraInv /\ VInv => ParametersSet
    <2> SUFFICES ASSUME ExtraInv, VInv, pc = "done" PROVE ParametersSet BY DEF ParametersSet
    <2>1. vm.extra = WantedExtra /\ Consistent /\ data \in Classes
      BY DEF ExtraInv, VInv, Judged, After
    <2> QED BY <2>1, WantedValues DEF ParametersSet, Entries
  <1> QED BY <1>1, ExtraKept, Judging, PTL
-----------------------------------------------------------------------------
(***************************************************************************)
(* Type correctness.                                                       *)
(***************************************************************************)

\* What the invariants above leave open of the types: numbers vCenter takes, a
\* firmware it knows and cards the source has.
TypesInv ==
  /\ pc \in {"validate", "items", "create", "firmware", "finalize", "resize",
             "network", "done", "rejected"}
  /\ vm.firmware \in {"bios", "efi"}
  /\ vm.cpu \in Nat /\ vm.memory \in Nat
  /\ vm.connected \subseteq 1..source.cards
  /\ faults \in 0..MaxFaults

\* A request that vCenter takes asks for natural numbers.
LEMMA SizeableNat ==
  ASSUME Numbers, Sizeable
  PROVE  AskedCPU \in Nat /\ AskedMemory \in Nat
  <1>1. AskedCPU \in Int BY SignedInt, WidthsAssumption DEF Numbers, AskedCPU
  <1>2. AskedMemory \in Int BY SignedInt, WidthsAssumption DEF Numbers, AskedMemory
  <1> QED BY <1>1, <1>2 DEF Sizeable

\* A class that was found sound names a firmware there is.
LEMMA SoundFirmware ==
  Sound => data.firmware = NoString \/ firmwareType(data.firmware) \in {"bios", "efi"}
  BY DEF Sound, firmwareType

\* Every step keeps them: a size is set when it is not negative, a firmware when the
\* class is sound, a card is connected when there is one.
LEMMA TypesStep == ASSUME IInv, VInv, TypesInv, [Next]_vars PROVE TypesInv'
  <1> USE DEF Goto, Restart
  <1>0. Numbers /\ IsHardware(source) BY GivenNumbers, HardwareAssumption DEF IInv
  <1>1. CASE Idle
    <2>1. UNCHANGED <<source, vm>>
      BY <1>1 DEF Idle, Validate, ValidateItem, Validated, Refused, CutShort, Finished, vars
    <2>2. pc' = pc \/ pc' \in {"validate", "items", "create", "rejected"}
      BY <1>1 DEF Idle, Validate, ValidateItem, Validated, Refused, CutShort, Finished, vars, attempt
    <2>3. faults' \in 0..MaxFaults
      <3>1. faults' = faults \/ (faults < MaxFaults /\ faults' = faults + 1)
        BY <1>1 DEF Idle, Validate, ValidateItem, Validated, Refused, CutShort, Finished, vars
      <3>2. faults \in 0..MaxFaults BY DEF TypesInv
      <3> QED BY <3>1, <3>2, WidthsAssumption
    <2> QED BY <2>1, <2>2, <2>3 DEF TypesInv
  <1>2. CASE PickUp BY <1>2 DEF PickUp, TypesInv
  <1>3. CASE CloneFromTemplate \/ DeployFromContentLibrary
    <2>1. pc' = "firmware" /\ UNCHANGED <<source, faults>>
      BY <1>3 DEF CloneFromTemplate, DeployFromContentLibrary
    <2>2. vm'.firmware = source.firmware /\ vm'.connected \subseteq 1..source.cards
      BY <1>3 DEF CloneFromTemplate, DeployFromContentLibrary, Configured, Plain
    <2>3. vm'.cpu \in Nat /\ vm'.memory \in Nat
      <3>1. CASE CloneFromTemplate
        <4>1. /\ vm'.cpu = Asked(AskedCPU, source.cpu)
              /\ vm'.memory = Asked(AskedMemory, source.memory)
          BY <3>1 DEF CloneFromTemplate, Configured, Plain
        <4>2. Sizeable BY <3>1 DEF CloneFromTemplate
        <4> QED BY <1>0, <4>1, <4>2, SizeableNat DEF Numbers, Asked
      <3>2. CASE DeployFromContentLibrary
        BY <1>0, <3>2 DEF DeployFromContentLibrary, Plain, Numbers
      <3> QED BY <1>3, <3>1, <3>2
    <2> QED BY <1>0, <2>1, <2>2, <2>3 DEF TypesInv, Numbers
  <1>4. CASE EnsureFirmware
    <2>1. /\ UNCHANGED <<source, faults>> /\ pc' \in {"finalize", "resize"}
          /\ vm'.cpu = vm.cpu /\ vm'.memory = vm.memory /\ vm'.connected = vm.connected
          /\ vm'.firmware = IF data.firmware = NoString THEN vm.firmware
                            ELSE firmwareType(data.firmware)
      BY <1>4 DEF EnsureFirmware, IInv, Shape
    <2>2. Sound BY <1>4 DEF EnsureFirmware, VInv, Judged, After
    <2> QED BY <2>1, <2>2, SoundFirmware DEF TypesInv
  <1>5. CASE FinalizeVM
    <2>1. /\ UNCHANGED <<source, faults>> /\ pc' = "resize" /\ Sizeable
          /\ vm'.cpu = Asked(AskedCPU, vm.cpu) /\ vm'.memory = Asked(AskedMemory, vm.memory)
          /\ vm'.firmware = vm.firmware /\ vm'.connected = vm.connected
      BY <1>5 DEF FinalizeVM, Configured, IInv, Shape
    <2> QED BY <1>0, <2>1, SizeableNat DEF TypesInv, Asked
  <1>6. CASE ResizeDisk
    <2>1. /\ UNCHANGED <<source, faults>> /\ pc' \in {"done", "network"}
          /\ vm'.cpu = vm.cpu /\ vm'.memory = vm.memory
          /\ vm'.firmware = vm.firmware /\ vm'.connected = vm.connected
      BY <1>6 DEF ResizeDisk, IInv, Shape
    <2> QED BY <2>1 DEF TypesInv
  <1>7. CASE ConfigureNetwork
    <2>1. /\ UNCHANGED <<source, faults>> /\ pc' = "done"
          /\ vm'.cpu = vm.cpu /\ vm'.memory = vm.memory /\ vm'.firmware = vm.firmware
          /\ vm'.connected = IF data.network THEN {1} ELSE vm.connected
      BY <1>7 DEF ConfigureNetwork, IInv, Shape
    <2>2. data.network => 1 \in 1..source.cards
      BY <1>0, <1>7 DEF ConfigureNetwork, NoCard, IsHardware
    <2>3. vm'.connected \subseteq 1..source.cards BY <2>1, <2>2 DEF TypesInv
    <2> QED BY <2>1, <2>3 DEF TypesInv
  <1> QED BY <1>1, <1>2, <1>3, <1>4, <1>5, <1>6, <1>7 DEF Next, Idle

\* The VM always has the settings a VM can have: no size below zero, no firmware
\* vCenter does not know and no card the source lacks, whatever was cut short.
THEOREM TypeCorrect == Spec => []TypeOK
  <1>1. Init => TypesInv
    <2> SUFFICES ASSUME Init PROVE TypesInv OBVIOUS
    <2>1. Numbers BY GivenNumbers DEF Init
    <2> QED BY <2>1, WidthsAssumption DEF Init, TypesInv, Plain, Numbers
  <1>2. IInv /\ VInv /\ TypesInv /\ [Next]_vars => TypesInv' BY TypesStep
  <1>3. IInv /\ VInv /\ ExtraInv /\ TypesInv => TypeOK
    <2> SUFFICES ASSUME IInv, VInv, ExtraInv, TypesInv PROVE TypeOK OBVIOUS
    <2>1. IsClass(data) /\ IsHardware(source)
      BY ClassesAssumption, HardwareAssumption DEF IInv
    <2>2. at \in 1..(Len(data.extra_config) + 1) BY DEF VInv, PassedInv, Passed, Entries
    <2>3. seen \subseteq Keys
      <3>1. \A i \in 1..(at - 1) : i \in DOMAIN Entries /\ Entries[i].key # NoString
        BY EntriesGiven DEF VInv, PassedInv, Passed
      <3>2. \A i \in 1..(at - 1) : Entries[i].key \in Keys BY <3>1, EntriesGiven DEF VInv
      <3> QED BY <3>2 DEF VInv, PassedInv, Passed
    <2>4. DOMAIN vm.extra = Keys BY DEF ExtraInv, Unset, WantedExtra, Set
    <2>5. vm.policies \subseteq AllPolicies
      <3>1. Plain.policies = {} BY DEF Plain
      <3> QED BY <3>1 DEF IInv, MadeInv, PolicyInv, WantedPolicies
    <2>6. vm.disks \in [DOMAIN source.disks -> Nat] BY DEF IInv, DiskInv
    <2>7. made \in BOOLEAN BY DEF IInv, MadeInv
    <2> QED BY <2>1, <2>2, <2>3, <2>4, <2>5, <2>6, <2>7 DEF TypesInv, TypeOK
  <1>4. Spec => []TypesInv BY <1>1, <1>2, Invariance, Judging, PTL DEF Spec
  <1> QED BY <1>3, <1>4, Invariance, Judging, ExtraKept, PTL
=============================================================================
