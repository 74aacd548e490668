-------------------------- MODULE MCMachineConfig --------------------------
(***************************************************************************)
(* Instances of MachineConfig for TLC, with widths of a few bits.          *)
(***************************************************************************)
EXTENDS MachineConfig

\* A class with everything, from a template and from a library.
Clone ==
  [template |-> TRUE, content_library |-> FALSE, library_item |-> FALSE,
   firmware |-> "uefi", storage_policy |-> TRUE, network |-> TRUE,
   pci_devices |-> << >>, extra_config |-> <<[key |-> "a", value |-> "x"]>>,
   disk_size |-> 2, cpu |-> 2, memory |-> 3]
Deploy == [Clone EXCEPT !.template = FALSE, !.content_library = TRUE, !.library_item = TRUE]

Label == [label |-> TRUE, address |-> FALSE]
Both == [label |-> TRUE, address |-> TRUE]

\* Every choice of source, firmware and device.
Sources ==
  {[Clone EXCEPT !.template = t, !.content_library = c, !.library_item = l,
                 !.firmware = f, !.pci_devices = p] :
     t \in BOOLEAN, c \in BOOLEAN, l \in BOOLEAN,
     f \in {"", "bios", "efi", "uefi", "coreboot"}, p \in {<< >>, <<Label, Both>>}}
    \union {[Clone EXCEPT !.pci_devices = <<e>>] : e \in [label : BOOLEAN, address : BOOLEAN]}

\* Every list of up to two advanced parameters.
Items == [key : Keys \union {""}, value : {"x", "y"}] \union {[key |-> "a", value |-> ""]}
Parameters ==
  {[d EXCEPT !.extra_config = e] : d \in {Clone, Deploy},
     e \in {<< >>} \union {<<i>> : i \in Items} \union {<<i, j>> : i \in Items, j \in Items}}

\* Every size that fits, with and without policy and network; and the rest.
Sizes(disks, cpus, memories) ==
  {[d EXCEPT !.disk_size = s, !.cpu = c, !.memory = m, !.storage_policy = b, !.network = n] :
     d \in {Clone, Deploy}, s \in disks, c \in cpus, m \in memories, b \in BOOLEAN, n \in BOOLEAN}

AllClasses == Sources \union Parameters \union Sizes({0, 3, 9}, {0, 4, 9}, {0, 3, 40})

\* Disks of one GiB and less, two disks, none; one card, two, none.
AllHardware ==
  [firmware : {"bios"}, cpu : {1}, memory : {1}, disks : {<<13, 3>>, << >>}, cards : {2}]
    \union [firmware : {"efi"}, cpu : {4}, memory : {4}, disks : {<<3>>}, cards : {0}]
=============================================================================
