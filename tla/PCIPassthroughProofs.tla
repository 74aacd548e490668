------------------------ MODULE PCIPassthroughProofs ------------------------
(***************************************************************************)
(* Proofs about PCIPassthrough, for any labels and addresses, any list of  *)
(* devices, any template and any number of faults.  That no device is      *)
(* added twice needs the assumption that attempts do not overlap.          *)
(***************************************************************************)
EXTENDS PCIPassthrough, FiniteSetTheorems, TLAPS

\* What the worker has read is on the VM, and so is what the last
\* reconfiguration added; while one is awaited, whatever is missing is in it.
ProgressInv ==
  /\ \A k \in attached : devices[k] > 0
  /\ task = "succeeded" => \A i \in changes : devices[wanted[i]] > 0
  /\ pc = "await" => \A i \in DOMAIN wanted : devices[wanted[i]] > 0 \/ i \in changes
  /\ pc = "await" => task # "none"

\* Nothing takes a device off the VM, and the reservation comes with the first.
AddedInv ==
  /\ \A k \in carried : devices[k] > 0
  /\ (\E k \in Keys \ carried : devices[k] > 0) => reserved

\* When attempts do not overlap: a running reconfiguration is awaited and adds
\* only what the VM lacks, and what the worker has read is all there is.
AloneInv ==
  ~Overlap =>
    /\ task = "running" => pc = "await" /\ \A i \in changes : devices[wanted[i]] = 0
    /\ pc = "reconfigure" => \A k \in Keys : devices[k] > 0 => k \in attached
    /\ NotAddedTwice

PCIInv == TypeOK /\ ProgressInv /\ AddedInv /\ EveryKeyAttached /\ AloneInv

-----------------------------------------------------------------------------

\* How many of some entries of the class name a key: a number, at most as many
\* as all entries that do, and none when no entry does.
LEMMA CountFacts ==
  ASSUME TypeOK, NEW E \in SUBSET DOMAIN wanted, NEW k \in Keys
  PROVE  /\ Count(E, k) \in Nat
         /\ Count(E, k) <= Count(DOMAIN wanted, k)
         /\ Count(E, k) = 0 <=> \A i \in E : wanted[i] # k
<1> DEFINE P == {i \in E : wanted[i] = k}
           Q == {i \in DOMAIN wanted : wanted[i] = k}
<1>1. IsFiniteSet(DOMAIN wanted)
  <2>1. PICK n \in 0..MaxEntries : wanted \in [1..n -> Keys]
    BY DEF TypeOK, Entries
  <2>2. DOMAIN wanted = 1..n
    BY <2>1
  <2>3. n \in Int
    BY BoundsAssumption
  <2> QED
    BY <2>2, <2>3, FS_Interval
<1>2. IsFiniteSet(Q) /\ P \subseteq Q
  BY <1>1, FS_Subset
<1>3. IsFiniteSet(P) /\ Cardinality(P) <= Cardinality(Q)
  BY <1>2, FS_Subset
<1>4. Cardinality(P) \in Nat /\ (Cardinality(P) = 0 <=> P = {})
  BY <1>3, FS_CardinalityType, FS_EmptySet
<1> QED
  BY <1>3, <1>4 DEF Count

\* An entry of the class names a key.
LEMMA EntryKeys ==
  ASSUME TypeOK, NEW i \in DOMAIN wanted
  PROVE  wanted[i] \in Keys
BY DEF TypeOK, Entries

\* Every initial state satisfies the invariant.
LEMMA InitInv == Init => PCIInv
<1> SUFFICES ASSUME Init PROVE PCIInv
  OBVIOUS
<1>1. TypeOK
  BY BoundsAssumption DEF Init, TypeOK
<1>2. \A k \in Keys : Count(DOMAIN wanted, k) \in Nat
  BY <1>1, CountFacts
<1>3. ProgressInv /\ AddedInv /\ EveryKeyAttached
  BY DEF Init, ProgressInv, AddedInv, EveryKeyAttached
<1>4. NotAddedTwice
  BY <1>2 DEF Init, NotAddedTwice
<1> QED
  BY <1>1, <1>3, <1>4 DEF Init, PCIInv, AloneInv

-----------------------------------------------------------------------------

\* A step that leaves the VM alone keeps what is said about the VM only.
LEMMA SameVM ==
  ASSUME PCIInv, UNCHANGED <<class, vm>>
  PROVE  AddedInv' /\ (NotAddedTwice => NotAddedTwice')
BY DEF PCIInv, AddedInv, NotAddedTwice, Count, class, vm

\* The end of a reconfiguration that succeeds.
LEMMA SuccessInv ==
  ASSUME PCIInv, TaskSucceeds
  PROVE  PCIInv'
<1> USE DEF class
<1>1. \A k \in Keys : /\ devices[k] \in Nat /\ Count(changes, k) \in Nat
                      /\ devices'[k] = devices[k] + Count(changes, k)
  BY CountFacts DEF PCIInv, TypeOK, TaskSucceeds
<1>2. TypeOK'
  <2>1. devices' \in [Keys -> Nat]
    <3>1. devices' = [k \in Keys |-> devices[k] + Count(changes, k)]
      BY DEF TaskSucceeds
    <3> QED
      BY <1>1, <3>1
  <2> QED
    BY <2>1 DEF PCIInv, TypeOK, TaskSucceeds
<1>3. \A i \in changes : devices'[wanted[i]] > 0
  <2> SUFFICES ASSUME NEW i \in changes PROVE devices'[wanted[i]] > 0
    OBVIOUS
  <2>1. wanted[i] \in Keys
    BY EntryKeys DEF PCIInv, TypeOK
  <2>2. Count(changes, wanted[i]) # 0
    BY <2>1, CountFacts DEF PCIInv, TypeOK
  <2> QED
    BY <2>1, <2>2, <1>1
<1>4. \A k \in Keys : devices[k] > 0 => devices'[k] > 0
  BY <1>1
<1>5. ProgressInv'
  BY <1>3, <1>4, EntryKeys DEF PCIInv, TypeOK, ProgressInv, TaskSucceeds
<1>6. AddedInv'
  BY <1>4 DEF PCIInv, TypeOK, AddedInv, TaskSucceeds
<1>7. EveryKeyAttached'
  BY <1>4, EntryKeys DEF PCIInv, EveryKeyAttached, TaskSucceeds
<1>8. AloneInv'
  <2> SUFFICES ASSUME ~Overlap PROVE NotAddedTwice' /\ pc # "reconfigure"
    BY DEF AloneInv, TaskSucceeds
  <2>1. task = "running" /\ pc = "await" /\ \A i \in changes : devices[wanted[i]] = 0
    BY DEF PCIInv, AloneInv, TaskSucceeds
  <2>2. NotAddedTwice
    BY DEF PCIInv, AloneInv
  <2>3. ASSUME NEW k \in Keys
        PROVE  devices'[k] <= IF k \in carried THEN 1 ELSE Count(DOMAIN wanted, k)
    <3>1. CASE Count(changes, k) = 0
      BY <3>1, <1>1, <2>2 DEF NotAddedTwice
    <3>2. CASE Count(changes, k) # 0
      <4>1. PICK i \in changes : wanted[i] = k
        BY <3>2, CountFacts DEF PCIInv, TypeOK
      <4>2. devices[k] = 0
        BY <4>1, <2>1
      <4>3. k \notin carried
        BY <4>2, <1>1 DEF PCIInv, AddedInv
      <4>4. Count(changes, k) <= Count(DOMAIN wanted, k)
        BY CountFacts DEF PCIInv, TypeOK
      <4> QED
        BY <4>2, <4>3, <4>4, <1>1
    <3> QED
      BY <3>1, <3>2
  <2>4. UNCHANGED <<wanted, carried>>
    BY DEF TaskSucceeds
  <2> QED
    BY <2>1, <2>3, <2>4 DEF NotAddedTwice, Count
<1> QED
  BY <1>2, <1>5, <1>6, <1>7, <1>8 DEF PCIInv

\* Every step preserves the invariant.
LEMMA StepInv ==
  ASSUME PCIInv, [Next]_vars
  PROVE  PCIInv'
<1> USE DEF class, vm
<1>1. CASE ReadDevices
  <2>1. TypeOK' /\ ProgressInv' /\ EveryKeyAttached'
    BY <1>1 DEF PCIInv, TypeOK, ProgressInv, EveryKeyAttached, ReadDevices
  <2>2. AloneInv'
    BY <1>1, SameVM DEF PCIInv, AloneInv, ReadDevices
  <2> QED
    BY <1>1, <2>1, <2>2, SameVM DEF PCIInv, ReadDevices
<1>2. CASE NoneMissing
  <2>1. TypeOK' /\ ProgressInv'
    BY <1>2 DEF PCIInv, TypeOK, ProgressInv, NoneMissing
  <2>2. \A i \in DOMAIN wanted : devices[wanted[i]] > 0
    BY <1>2 DEF PCIInv, ProgressInv, NoneMissing, Missing
  <2>3. EveryKeyAttached' /\ AloneInv'
    BY <1>2, <2>2, SameVM DEF PCIInv, EveryKeyAttached, AloneInv, NoneMissing
  <2> QED
    BY <1>2, <2>1, <2>3, SameVM DEF PCIInv, NoneMissing
<1>3. CASE Reconfigure
  <2>1. TypeOK' /\ EveryKeyAttached'
    BY <1>3 DEF PCIInv, TypeOK, EveryKeyAttached, Reconfigure, Missing
  <2>2. ProgressInv'
    BY <1>3 DEF PCIInv, ProgressInv, Reconfigure, Missing
  <2>3. AloneInv'
    <3>1. ~Overlap => \A i \in Missing : devices[wanted[i]] = 0
      <4> SUFFICES ASSUME ~Overlap, NEW i \in Missing PROVE devices[wanted[i]] = 0
        OBVIOUS
      <4>1. wanted[i] \in Keys /\ wanted[i] \notin attached
        BY EntryKeys DEF PCIInv, Missing
      <4>2. ~(devices[wanted[i]] > 0) /\ devices[wanted[i]] \in Nat
        BY <1>3, <4>1 DEF PCIInv, AloneInv, TypeOK, Reconfigure
      <4> QED
        BY <4>2
    <3> QED
      BY <1>3, <3>1, SameVM DEF PCIInv, AloneInv, Reconfigure
  <2> QED
    BY <1>3, <2>1, <2>2, <2>3, SameVM DEF PCIInv, Reconfigure
<1>4. CASE Refused
  BY <1>4, SameVM DEF PCIInv, TypeOK, ProgressInv, EveryKeyAttached, AloneInv, Refused
<1>5. CASE Attached
  BY <1>5, SameVM DEF PCIInv, TypeOK, ProgressInv, EveryKeyAttached, AloneInv, Attached
<1>6. CASE AttachFailed
  BY <1>6, SameVM DEF PCIInv, TypeOK, ProgressInv, EveryKeyAttached, AloneInv, AttachFailed
<1>7. CASE TaskFails
  BY <1>7, SameVM, BoundsAssumption
     DEF PCIInv, TypeOK, ProgressInv, EveryKeyAttached, AloneInv, TaskFails
<1>8. CASE Lose
  BY <1>8, SameVM, BoundsAssumption
     DEF PCIInv, TypeOK, ProgressInv, EveryKeyAttached, AloneInv, Lose
<1>9. CASE TaskSucceeds
  BY <1>9, SuccessInv
<1>10. CASE UNCHANGED vars
  BY <1>10, SameVM DEF PCIInv, TypeOK, ProgressInv, EveryKeyAttached, AloneInv, vars
<1> QED
  BY <1>1, <1>2, <1>3, <1>4, <1>5, <1>6, <1>7, <1>8, <1>9, <1>10 DEF Next, Finished

-----------------------------------------------------------------------------

\* The invariant holds in every behaviour.
THEOREM Invariance == Spec => []PCIInv
BY InitInv, StepInv, PTL DEF Spec

\* Type correctness of the step, in every behaviour.
THEOREM TypeCorrect == Spec => []TypeOK
<1>1. PCIInv => TypeOK
  BY DEF PCIInv
<1> QED
  BY <1>1, Invariance, PTL

\* When the step is done each listed device is on the VM, also when attempts
\* overlap.
THEOREM AllAttached == Spec => []EveryKeyAttached
<1>1. PCIInv => EveryKeyAttached
  BY DEF PCIInv
<1> QED
  BY <1>1, Invariance, PTL

\* When the step is done the memory is reserved, also when attempts overlap and
\* the last one found nothing to do, unless the template brought every device.
THEOREM ReservedWhenDone == Spec => []ReservedUnlessCarried
<1>1. PCIInv => ReservedUnlessCarried
  <2> SUFFICES ASSUME PCIInv, pc = "done", NEW i \in DOMAIN wanted, wanted[i] \notin carried
               PROVE  reserved
    BY DEF ReservedUnlessCarried
  <2>1. wanted[i] \in Keys \ carried /\ devices[wanted[i]] > 0
    BY EntryKeys DEF PCIInv, EveryKeyAttached
  <2> QED
    BY <2>1 DEF PCIInv, AddedInv
<1> QED
  BY <1>1, Invariance, PTL

\* No device is added twice, provided no attempt starts during the
\* reconfiguration of an earlier one.
THEOREM AddedOnce == ~Overlap => (Spec => []NotAddedTwice)
<1> SUFFICES ASSUME ~Overlap PROVE Spec => []NotAddedTwice
  OBVIOUS
<1>1. PCIInv => NotAddedTwice
  BY DEF PCIInv, AloneInv
<1> QED
  BY <1>1, Invariance, PTL
=============================================================================
