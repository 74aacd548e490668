-------------------------- MODULE InventoryProofs --------------------------
(***************************************************************************)
(* Proofs about Inventory, for any requests, machine sets and number of    *)
(* interventions and cut attempts: no VM of the provider's outlives its    *)
(* request, and Deprovision destroys no other VM while the provider's      *)
(* exists, but for creations that were still going on as Deprovision       *)
(* looked; and the default machine sets of a cluster share its folder.     *)
(***************************************************************************)
EXTENDS Inventory, SequenceTheorems, TLAPS

\* Nothing runs for a request that is gone, and what destroys is Deprovision.
PhaseInv ==
  \A r \in Requests :
    /\ phase[r] = "gone" => pc[r] = "idle"
    /\ pc[r] = "destroy" => phase[r] = "tearingDown"

\* From its last lookup on, no creation is started for a request: those that go
\* on went on then.
LateInv ==
  \A r \in Requests :
    phase[r] = "gone" \/ pc[r] = "destroy" => creating \intersect Own(r) \subseteq unseen[r]

IInv == TypeOK /\ PhaseInv /\ LateInv /\ NothingLeft /\ DestroysNoOther

-----------------------------------------------------------------------------
(***************************************************************************)
(* Names of folders.                                                       *)
(***************************************************************************)

\* Cutting off a suffix that was put on gives back what it was put on.
LEMMA WithoutSuffix ==
  ASSUME NEW c \in Seq(Words), NEW s \in Seq(Words)
  PROVE  Without(c \o s, s) = c
<1>1. /\ c \o s \in Seq(Words) /\ Len(c \o s) = Len(c) + Len(s)
      /\ \A i \in 1..Len(c) : (c \o s)[i] = c[i]
      /\ Len(c) \in Nat /\ Len(s) \in Nat
  BY ConcatProperties, LenProperties
<1>2. Without(c \o s, s) = SubSeq(c \o s, 1, Len(c))
  BY <1>1 DEF Without
<1>3. /\ SubSeq(c \o s, 1, Len(c)) \in Seq(Words)
      /\ Len(SubSeq(c \o s, 1, Len(c))) = Len(c)
      /\ \A i \in 1..Len(c) : SubSeq(c \o s, 1, Len(c))[i] = (c \o s)[i]
  BY <1>1, SubSeqProperties
<1> QED
  BY <1>1, <1>2, <1>3, SeqEqual

\* The folder of a default machine set is named for the cluster.
LEMMA DefaultFolder ==
  ASSUME NEW c \in Seq(Words), c # << >>, c # NoName,
         NEW s \in {ControlPlanes, Workers}
  PROVE  clusterFolderName(c \o s) = c
<1>1. s \in Seq(Words) /\ Len(s) \in Nat
  <2>1. ASSUME NEW W, NEW a \in W, NEW b \in W
        PROVE  <<a, b>> \in Seq(W) /\ <<a>> \in Seq(W)
    OBVIOUS
  <2>2. "control" \in Words /\ "planes" \in Words /\ "workers" \in Words
    BY NamesAssumption
  <2>3. s \in Seq(Words)
    BY <2>1, <2>2 DEF ControlPlanes, Workers
  <2> QED
    BY <2>3, LenProperties
<1>2. /\ Len(c \o s) = Len(c) + Len(s) /\ Len(c) \in Nat \ {0}
      /\ \A i \in 1..Len(s) : (c \o s)[Len(c) + i] = s[i]
  <2>1. Len(c) \in Nat \ {0}
    BY EmptySeq
  <2>2. /\ Len(c \o s) = Len(c) + Len(s)
        /\ \A i \in 1..Len(c) + Len(s) :
             (c \o s)[i] = IF i <= Len(c) THEN c[i] ELSE s[i - Len(c)]
    BY <1>1, ConcatProperties
  <2>3. ASSUME NEW m \in Nat, NEW n \in Nat, NEW i \in 1..n
        PROVE  m + i \in 1..m + n /\ ~(m + i <= m) /\ m + i - m = i
    OBVIOUS
  <2>4. ASSUME NEW i \in 1..Len(s) PROVE (c \o s)[Len(c) + i] = s[i]
    <3>1. /\ Len(c) + i \in 1..Len(c) + Len(s) /\ ~(Len(c) + i <= Len(c))
          /\ Len(c) + i - Len(c) = i
      BY <1>1, <2>1, <2>3
    <3>2. (c \o s)[Len(c) + i] = IF Len(c) + i <= Len(c) THEN c[Len(c) + i]
                                 ELSE s[Len(c) + i - Len(c)]
      BY <2>2, <3>1
    <3> QED
      BY <3>1, <3>2
  <2> QED
    BY <2>1, <2>2, <2>4
<1>3. Cuts(c \o s, s)
  <2>1. Len(s) < Len(c \o s) /\ Len(c \o s) - Len(s) = Len(c)
    BY <1>1, <1>2
  <2>2. Without(c \o s, s) = c
    BY <1>1, WithoutSuffix
  <2> QED
    BY <1>2, <2>1, <2>2 DEF Cuts, EndsWith
<1>4. CASE s = ControlPlanes
  BY <1>1, <1>3, <1>4, WithoutSuffix DEF clusterFolderName
<1>5. CASE s = Workers
  <2>1. (c \o s)[Len(c) + 1] = "workers" /\ Len(c \o s) = Len(c) + 1
    BY <1>2, <1>5 DEF Workers
  <2>2. ~EndsWith(c \o s, ControlPlanes)
    <3> SUFFICES ASSUME EndsWith(c \o s, ControlPlanes) PROVE FALSE
      OBVIOUS
    <3>1. Len(ControlPlanes) = 2 /\ ControlPlanes[2] = "planes"
      BY DEF ControlPlanes
    <3>2. (c \o s)[Len(c \o s) - 2 + 2] = "planes"
      BY <3>1 DEF EndsWith
    <3> QED
      BY <3>2, <2>1, <1>2
  <2> QED
    BY <1>1, <1>3, <1>5, <2>2, WithoutSuffix DEF clusterFolderName, Cuts
<1> QED
  BY <1>4, <1>5

-----------------------------------------------------------------------------
(***************************************************************************)
(* The VMs.                                                                *)
(***************************************************************************)

\* The VMs of different requests are different, and the folder of a request is
\* a place to be.
LEMMA OwnFacts ==
  ASSUME NEW r \in Requests
  PROVE  /\ Own(r) \subseteq VMs /\ Foreign(r) \in VMs /\ Foreign(r) \notin Own(r)
         /\ Folder(r) \in Folders /\ Folder(r) # Nowhere
         /\ \A q \in Requests : q # r =>
              \A v \in Own(q) : v \notin Own(r) /\ v # Foreign(r)
<1>1. Folder(r) \in Folders /\ Folder(r) # Nowhere
  BY NamesAssumption DEF Folders
<1>2. 0 \in 0..MaxVMs /\ 0 \notin 1..MaxVMs /\ 1..MaxVMs \subseteq 0..MaxVMs
  BY BoundsAssumption
<1>3. Own(r) \subseteq VMs /\ Foreign(r) \in VMs /\ Foreign(r) \notin Own(r)
  BY <1>2 DEF Own, VMs, Foreign
<1>4. ASSUME NEW q \in Requests, q # r, NEW v \in Own(q)
      PROVE  v \notin Own(r) /\ v # Foreign(r)
  <2>1. PICK n \in 1..MaxVMs : v = <<q, n>>
    BY DEF Own
  <2> QED
    BY <1>4, <2>1 DEF Own, Foreign
<1> QED
  BY <1>1, <1>3, <1>4

\* A VM that bears the name of a request is one of its.
LEMMA NamedFacts ==
  ASSUME NEW r \in Requests
  PROVE  /\ Named(r) \subseteq {Foreign(r)} \union Own(r)
         /\ Named(r) \subseteq VMs
         /\ \A v \in Named(r) : Exists(v)
         /\ \A v \in Own(r) : Exists(v) => v \in Named(r)
         /\ \A f : NamedIn(r, f) \subseteq Named(r)
BY OwnFacts DEF Named, NamedIn

\* The initial states satisfy the invariant.
LEMMA InitInv == Init => IInv
BY BoundsAssumption DEF Init, IInv, TypeOK, PhaseInv, LateInv, NothingLeft, DestroysNoOther, Exists

\* What is being created are VMs.
LEMMA CreatingFacts == TypeOK => creating \subseteq VMs
BY OwnFacts DEF TypeOK

\* What an attempt holds and where it is keep their types.
LEMMA HoldType ==
  ASSUME TypeOK, NEW r \in Requests, NEW v \in VMs \union {NoVM},
         NEW p \in {"idle", "create", "await", "find", "configure", "powerOn", "destroy"},
         Hold(r, v, p),
         p = "await" => v \in Own(r),
         p \in {"configure", "powerOn", "destroy"} => v \in {Foreign(r)} \union Own(r),
         phase' \in [Requests -> {"provisioning", "provisioned", "tearingDown", "gone"}],
         step' \in [Requests -> {"createVM", "powerOnVM"}],
         place' \in [VMs -> Folders \union {Nowhere}],
         creating' \subseteq UNION {Own(q) : q \in Requests},
         unseen' \in [Requests -> SUBSET VMs],
         meddled' \in 0..MaxMeddling, faults' \in 0..MaxFaults
  PROVE  TypeOK'
BY DEF TypeOK, Hold

\* A step that starts and ends no creation, destroys and lets go nothing, and
\* does not begin to destroy, keeps what the invariant says of the VMs.
LEMMA QuietStep ==
  ASSUME IInv, NEW r \in Requests,
         NEW v \in VMs \union {NoVM},
         NEW p \in {"idle", "create", "await", "find", "configure", "powerOn"},
         Hold(r, v, p),
         phase[r] # "gone" \/ p = "idle",
         UNCHANGED <<place, creating, unseen>>,
         \A q \in Requests : phase'[q] = "gone" => phase[q] = "gone",
         \A q \in Requests : q # r => phase'[q] = phase[q]
  PROVE  PhaseInv' /\ LateInv' /\ NothingLeft' /\ DestroysNoOther'
<1>1. \A q \in Requests : /\ q # r => pc'[q] = pc[q] /\ held'[q] = held[q]
                          /\ pc'[r] = p
  BY DEF Hold, IInv, TypeOK
<1> QED
  BY <1>1 DEF IInv, PhaseInv, LateInv, NothingLeft, DestroysNoOther, Exists

\* The end of a creation preserves the invariant: for a request that is gone or
\* about to be, it went on as Deprovision looked.
LEMMA CreationInv ==
  ASSUME IInv, NEW r \in Requests, NEW v \in Own(r),
         CreationEnds(r, v) \/ CreationFails(r, v)
  PROVE  IInv'
<1>t. TypeOK /\ v \in VMs /\ v \in creating
  BY OwnFacts DEF IInv, CreationEnds, CreationFails
<1>1. TypeOK'
  <2>1. place' \in [VMs -> Folders \union {Nowhere}]
    BY <1>t, OwnFacts DEF TypeOK, CreationEnds, CreationFails
  <2>2. meddled' \in 0..MaxMeddling /\ faults' \in 0..MaxFaults
    BY <1>t, BoundsAssumption DEF TypeOK, CreationEnds, CreationFails
  <2> QED
    BY <1>t, <2>1, <2>2 DEF TypeOK, CreationEnds, CreationFails
<1>2. PhaseInv' /\ LateInv'
  BY DEF IInv, PhaseInv, LateInv, CreationEnds, CreationFails
<1>3. ASSUME NEW q \in Requests, NEW w \in Own(q), Exists(w)',
             phase[q] = "gone" \/ pc[q] = "destroy"
      PROVE  Exists(w) \/ w \in unseen[q]
  <2>1. CASE w = v
    BY <1>t, <1>3, <2>1 DEF IInv, LateInv
  <2>2. CASE w # v
    BY <1>t, <1>3, <2>2, OwnFacts DEF TypeOK, Exists, CreationEnds, CreationFails
  <2> QED
    BY <2>1, <2>2
<1>4. UNCHANGED <<phase, pc, held, unseen>>
  BY DEF CreationEnds, CreationFails
<1>5. NothingLeft' /\ DestroysNoOther'
  BY <1>3, <1>4 DEF IInv, NothingLeft, DestroysNoOther
<1> QED
  BY <1>1, <1>2, <1>5 DEF IInv

\* Each step of the worker preserves the invariant.
LEMMA WorkerInv ==
  ASSUME IInv, NEW r \in Requests, Worker(r)
  PROVE  IInv'
<1> USE NoVMAssumption
<1>t. TypeOK /\ PhaseInv
  BY DEF IInv
<1>g. phase[r] = "gone" => pc[r] = "idle"
  BY <1>t DEF PhaseInv
<1>1. CASE FindExistingVM(r)
  <2>1. PICK v \in VMs \union {NoVM}, p \in {"create", "configure"} :
          Hold(r, v, p) /\ (p = "configure" => v \in {Foreign(r)} \union Own(r))
    BY <1>1, NamedFacts DEF FindExistingVM
  <2>2. TypeOK'
    BY <1>1, <1>t, <2>1, HoldType DEF FindExistingVM, TypeOK
  <2> QED
    BY <1>1, <2>1, <2>2, QuietStep DEF FindExistingVM, Provisioning, IInv
<1>2. CASE CreateVM(r)
  <2>1. PICK v \in Own(r) : creating' = creating \union {v} /\ Hold(r, v, "await")
    BY <1>2 DEF CreateVM
  <2>2. pc[r] = "create" /\ UNCHANGED <<phase, step, place, unseen, meddled, faults>>
    BY <1>2 DEF CreateVM
  <2>3. TypeOK'
    BY <1>t, <2>1, <2>2, OwnFacts, HoldType DEF TypeOK
  <2>4. \A q \in Requests : q # r => /\ pc'[q] = pc[q] /\ held'[q] = held[q]
                                    /\ creating' \intersect Own(q) = creating \intersect Own(q)
    BY <1>t, <2>1, OwnFacts DEF Hold, TypeOK
  <2>5. pc'[r] = "await" /\ phase[r] # "gone"
    BY <1>t, <1>g, <2>1, <2>2 DEF Hold, TypeOK
  <2>6. PhaseInv' /\ LateInv' /\ NothingLeft' /\ DestroysNoOther'
    BY <2>2, <2>4, <2>5 DEF IInv, PhaseInv, LateInv, NothingLeft, DestroysNoOther, Exists
  <2> QED
    BY <2>3, <2>6 DEF IInv
<1>10. CASE AwaitCreation(r)
  <2>1. PICK v \in VMs \union {NoVM}, p \in {"idle", "find", "configure"} :
          Hold(r, v, p) /\ (p = "configure" => v \in {Foreign(r)} \union Own(r))
    <3>1. held[r] \in Own(r) /\ held[r] \in VMs
      BY <1>10, <1>t, OwnFacts DEF AwaitCreation, TypeOK
    <3>2. CASE Exists(held[r])
      BY <1>10, <3>1, <3>2 DEF AwaitCreation
    <3>3. CASE ~Exists(held[r])
      BY <1>10, <3>3 DEF AwaitCreation, EndAttempt
    <3> QED
      BY <3>2, <3>3
  <2>2. TypeOK'
    BY <1>10, <1>t, <2>1, HoldType DEF AwaitCreation, TypeOK
  <2> QED
    BY <1>10, <1>g, <2>1, <2>2, QuietStep DEF AwaitCreation, IInv
<1>3. CASE FindCreatedVM(r)
  <2>1. PICK v \in VMs \union {NoVM}, p \in {"idle", "configure"} :
          Hold(r, v, p) /\ (p = "configure" => v \in {Foreign(r)} \union Own(r))
    BY <1>3, NamedFacts DEF FindCreatedVM, EndAttempt
  <2>2. TypeOK'
    BY <1>3, <1>t, <2>1, HoldType DEF FindCreatedVM, TypeOK
  <2> QED
    BY <1>3, <1>g, <2>1, <2>2, QuietStep DEF FindCreatedVM, IInv
<1>4. CASE Configure(r)
  <2>1. TypeOK'
    BY <1>4, <1>t, HoldType DEF Configure, EndAttempt, TypeOK
  <2> QED
    BY <1>4, <2>1, QuietStep DEF Configure, EndAttempt, IInv
<1>5. CASE ResolveProvisionedVM(r)
  <2>1. PICK v \in Named(r) : Hold(r, v, "powerOn")
    BY <1>5 DEF ResolveProvisionedVM
  <2>2. TypeOK'
    BY <1>5, <1>t, <2>1, NamedFacts, HoldType DEF ResolveProvisionedVM, TypeOK
  <2> QED
    BY <1>5, <2>1, <2>2, NamedFacts, QuietStep DEF ResolveProvisionedVM, Provisioning, IInv
<1>6. CASE PowerOn(r)
  <2>1. TypeOK'
    BY <1>6, <1>t, HoldType DEF PowerOn, EndAttempt, TypeOK
  <2>2. \A q \in Requests : /\ phase'[q] = "gone" => phase[q] = "gone"
                            /\ q # r => phase'[q] = phase[q]
    BY <1>6, <1>t DEF PowerOn, TypeOK
  <2> QED
    BY <1>6, <2>1, <2>2, QuietStep DEF PowerOn, EndAttempt, IInv
<1>7. CASE Gone(r)
  <2>1. unseen' = [unseen EXCEPT ![r] = creating]
    BY <1>7 DEF Gone, LooksUp
  <2>2. TypeOK'
    BY <1>7, <1>t, <2>1, CreatingFacts DEF Gone, TypeOK
  <2>3. \A v \in Own(r) : ~Exists(v)
    BY <1>7, NamedFacts DEF Gone
  <2>4. PhaseInv' /\ LateInv' /\ NothingLeft' /\ DestroysNoOther'
    BY <1>7, <2>1, <2>3
       DEF Gone, LooksUp, IInv, TypeOK, PhaseInv, LateInv, NothingLeft, DestroysNoOther, Exists
  <2> QED
    BY <2>2, <2>4 DEF IInv
<1>8. CASE Locate(r)
  <2>1. PICK v \in Named(r) : Named(r) = {v} /\ Hold(r, v, "destroy")
    BY <1>8 DEF Locate
  <2>2. UNCHANGED <<phase, place, creating>> /\ phase[r] = "tearingDown"
        /\ unseen' = [unseen EXCEPT ![r] = creating]
    BY <1>8 DEF Locate, LooksUp
  <2>3. TypeOK'
    BY <1>8, <1>t, <2>1, <2>2, NamedFacts, CreatingFacts, HoldType DEF Locate, TypeOK
  <2>4. \A w \in Own(r) : Exists(w) => w = v
    BY <2>1, NamedFacts
  <2>5. /\ \A q \in Requests : q # r => /\ pc'[q] = pc[q] /\ held'[q] = held[q]
                                        /\ unseen'[q] = unseen[q]
        /\ held'[r] = v /\ unseen'[r] = creating
    BY <2>1, <2>2, <1>t DEF Hold, TypeOK
  <2>6. PhaseInv' /\ LateInv' /\ NothingLeft'
    BY <2>2, <2>5 DEF IInv, PhaseInv, LateInv, NothingLeft, Exists
  <2>7. DestroysNoOther'
    BY <2>2, <2>4, <2>5 DEF IInv, DestroysNoOther, Exists
  <2> QED
    BY <2>3, <2>6, <2>7 DEF IInv
<1>9. CASE Destroy(r)
  <2>1. held[r] \in {Foreign(r)} \union Own(r) /\ held[r] \in VMs
    BY <1>9, <1>t, OwnFacts DEF Destroy, TypeOK
  <2>2. TypeOK'
    BY <1>9, <1>t, <2>1, HoldType DEF Destroy, EndAttempt, TypeOK
  <2>3. UNCHANGED <<creating, unseen>> /\ creating \intersect Own(r) \subseteq unseen[r]
    BY <1>9 DEF Destroy, IInv, LateInv
  <2>4. \A w \in Own(r) : Exists(w)' => w \in unseen[r]
    <3> SUFFICES ASSUME NEW w \in Own(r), Exists(w)' PROVE w \in unseen[r]
      OBVIOUS
    <3>1. w \in VMs /\ (Exists(w) => w = held[r] \/ w \in unseen[r])
      BY <1>9, OwnFacts DEF Destroy, IInv, DestroysNoOther
    <3>2. w # held[r] /\ Exists(w)
      BY <1>9, <1>t, <2>1, <3>1 DEF Destroy, TypeOK, Exists
    <3> QED
      BY <3>1, <3>2
  <2>5. \A q \in Requests : q # r =>
          /\ pc'[q] = pc[q] /\ held'[q] = held[q] /\ phase'[q] = phase[q]
          /\ \A w \in Own(q) : place'[w] = place[w]
    BY <1>9, <1>t, <2>1, OwnFacts DEF Destroy, EndAttempt, Hold, TypeOK
  <2>6. pc'[r] = "idle"
    BY <1>9, <1>t DEF Destroy, EndAttempt, Hold, TypeOK
  <2>7. PhaseInv' /\ LateInv'
    BY <2>3, <2>5, <2>6 DEF IInv, PhaseInv, LateInv
  <2>8. NothingLeft' /\ DestroysNoOther'
    BY <2>3, <2>4, <2>5, <2>6 DEF IInv, NothingLeft, DestroysNoOther, Exists
  <2> QED
    BY <2>2, <2>7, <2>8 DEF IInv
<1> QED
  BY <1>1, <1>2, <1>3, <1>4, <1>5, <1>6, <1>7, <1>8, <1>9, <1>10 DEF Worker

\* Where only VMs go, the statements about those that exist are kept.
LEMMA FewerVMs ==
  ASSUME IInv, UNCHANGED <<phase, creating, unseen>>,
         \A q \in Requests : (pc'[q] = pc[q] /\ held'[q] = held[q]) \/ pc'[q] = "idle",
         \A q \in Requests : \A w \in Own(q) : Exists(w)' => Exists(w)
  PROVE  PhaseInv' /\ LateInv' /\ NothingLeft' /\ DestroysNoOther'
BY DEF IInv, PhaseInv, LateInv, NothingLeft, DestroysNoOther

\* Whatever other people do preserves the invariant: they bring no VM of the
\* provider's back.
LEMMA MeddleInv ==
  ASSUME IInv, NEW r \in Requests, NEW v \in {Foreign(r)} \union Own(r),
         NEW f \in Folders \union {Nowhere}, Meddle(r, v, f)
  PROVE  IInv'
<1>1. TypeOK'
  BY OwnFacts, BoundsAssumption DEF IInv, TypeOK, Meddle
<1>2. \A q \in Requests : \A w \in Own(q) : Exists(w)' => Exists(w)
  <2> SUFFICES ASSUME NEW q \in Requests, NEW w \in Own(q), Exists(w)' PROVE Exists(w)
    OBVIOUS
  <2>1. w \in VMs /\ v \in VMs /\ w # Foreign(r)
    BY OwnFacts
  <2>2. CASE w = v
    BY <2>1, <2>2 DEF IInv, TypeOK, Meddle, Exists
  <2>3. CASE w # v
    BY <2>1, <2>3 DEF IInv, TypeOK, Meddle, Exists
  <2> QED
    BY <2>2, <2>3
<1>3. UNCHANGED <<phase, pc, held, creating, unseen>>
  BY DEF Meddle
<1> QED
  BY <1>1, <1>2, <1>3, FewerVMs DEF IInv

\* An attempt that is cut short takes at most the VM it was about to destroy.
LEMMA CutInv ==
  ASSUME IInv, NEW r \in Requests, CutShort(r)
  PROVE  IInv'
<1>1. TypeOK
  BY DEF IInv
<1>2. \/ place' = place
      \/ held[r] \in VMs /\ place' = [place EXCEPT ![held[r]] = Nowhere]
  BY <1>1, OwnFacts DEF CutShort, TypeOK
<1>3. place' \in [VMs -> Folders \union {Nowhere}]
  BY <1>1, <1>2 DEF TypeOK
<1>4. TypeOK'
  <2>1. meddled' \in 0..MaxMeddling /\ faults' \in 0..MaxFaults
    BY <1>1, BoundsAssumption DEF CutShort, TypeOK
  <2> QED
    BY <1>1, <1>3, <2>1, HoldType DEF CutShort, EndAttempt, TypeOK
<1>5. \A q \in Requests : \A w \in Own(q) : Exists(w)' => Exists(w)
  BY <1>1, <1>2, OwnFacts DEF TypeOK, Exists
<1>6. \A q \in Requests : (pc'[q] = pc[q] /\ held'[q] = held[q]) \/ pc'[q] = "idle"
  BY <1>1 DEF CutShort, EndAttempt, Hold, TypeOK
<1>7. UNCHANGED <<phase, creating, unseen>>
  BY DEF CutShort
<1> QED
  BY <1>4, <1>5, <1>6, <1>7, FewerVMs DEF IInv

\* Every step preserves the invariant.
LEMMA StepInv ==
  ASSUME IInv, [Next]_vars
  PROVE  IInv'
<1>1. ASSUME NEW r \in Requests, Worker(r)
      PROVE  IInv'
  BY <1>1, WorkerInv
<1>2. ASSUME NEW r \in Requests, TearDown(r)
      PROVE  IInv'
  <2>1. TypeOK'
    BY <1>2 DEF IInv, TypeOK, TearDown
  <2>2. PhaseInv' /\ LateInv' /\ NothingLeft' /\ DestroysNoOther'
    BY <1>2 DEF IInv, TypeOK, PhaseInv, LateInv, NothingLeft, DestroysNoOther, Exists, TearDown
  <2> QED
    BY <2>1, <2>2 DEF IInv
<1>3. ASSUME NEW r \in Requests, CutShort(r)
      PROVE  IInv'
  BY <1>3, CutInv
<1>4. ASSUME NEW r \in Requests, NEW v \in {Foreign(r)} \union Own(r),
             NEW f \in Folders \union {Nowhere}, Meddle(r, v, f)
      PROVE  IInv'
  BY <1>4, MeddleInv
<1>5. ASSUME NEW r \in Requests, NEW v \in Own(r), CreationEnds(r, v) \/ CreationFails(r, v)
      PROVE  IInv'
  BY <1>5, CreationInv
<1>6. CASE UNCHANGED vars
  BY <1>6 DEF IInv, TypeOK, PhaseInv, LateInv, NothingLeft, DestroysNoOther, Exists, vars
<1> QED
  BY <1>1, <1>2, <1>3, <1>4, <1>5, <1>6 DEF Next, Wait

-----------------------------------------------------------------------------

\* The inductive invariant, in every behaviour.
THEOREM Invariance == Spec => []IInv
BY InitInv, StepInv, PTL DEF Spec

\* Type correctness, in every behaviour.
THEOREM TypeCorrect == Spec => []TypeOK
<1>1. IInv => TypeOK
  BY DEF IInv
<1> QED
  BY <1>1, Invariance, PTL

\* No VM the provider made outlives its request, but one whose creation went on
\* as Deprovision looked for the last time.
THEOREM NoneLeft == Spec => []NothingLeft
<1>1. IInv => NothingLeft
  BY DEF IInv
<1> QED
  BY <1>1, Invariance, PTL

\* Deprovision destroys no other VM while the provider's own exists, unless that
\* was still being created as it looked.
THEOREM NoOtherDestroyed == Spec => []DestroysNoOther
<1>1. IInv => DestroysNoOther
  BY DEF IInv
<1> QED
  BY <1>1, Invariance, PTL

\* Only the end of a creation brings a VM of the provider's into being, in the
\* folder of its request.
LEMMA CreatedInFolder ==
  ASSUME TypeOK, [Next]_vars, NEW r \in Requests, NEW v \in Own(r), NEW f \in Folders,
         CreatedIn(r, v, f)
  PROVE  f = Folder(r)
<1>1. v \in VMs /\ place[v] = Nowhere /\ place'[v] # Nowhere /\ place'[v] = f
  BY OwnFacts DEF CreatedIn, Exists
<1>2. ASSUME NEW q \in Requests, NEW w \in Own(q), CreationEnds(q, w)
      PROVE  f = Folder(r)
  <2>1. w \in VMs /\ w = v
    BY <1>1, <1>2, OwnFacts DEF TypeOK, CreationEnds
  <2>2. q = r
    BY <2>1, OwnFacts
  <2> QED
    BY <1>1, <1>2, <2>1, <2>2 DEF TypeOK, CreationEnds
<1>3. ASSUME NEW q \in Requests, Destroy(q) \/ CutShort(q)
      PROVE  FALSE
  BY <1>1, <1>3 DEF Destroy, CutShort, TypeOK
<1>4. ASSUME NEW q \in Requests, NEW w \in {Foreign(q)} \union Own(q),
             NEW g \in Folders \union {Nowhere}, Meddle(q, w, g)
      PROVE  FALSE
  <2>1. w \in VMs /\ v # Foreign(q)
    BY OwnFacts
  <2> QED
    BY <1>1, <1>4, <2>1 DEF Meddle, TypeOK, Exists
<1>5. CASE UNCHANGED place
  BY <1>1, <1>5
<1> QED
  BY <1>2, <1>3, <1>4, <1>5
     DEF Next, vars, Worker, FindExistingVM, CreateVM, AwaitCreation, FindCreatedVM, Configure,
         ResolveProvisionedVM, PowerOn, Gone, Locate, TearDown, CreationFails, Wait

\* The VMs of a cluster's default machine sets are created in the folder that is
\* named for the cluster, whatever the cluster is called.
THEOREM ClusterFolders == Spec => InClusterFolder
<1>1. ASSUME TypeOK, [Next]_vars
      PROVE  \A r \in Requests : \A v \in Own(r), f \in Folders :
               Suffix[r] \in {ControlPlanes, Workers} /\ CreatedIn(r, v, f) => f = ClusterOf[r]
  <2> SUFFICES ASSUME NEW r \in Requests, NEW v \in Own(r), NEW f \in Folders,
                      Suffix[r] \in {ControlPlanes, Workers}, CreatedIn(r, v, f)
               PROVE  f = ClusterOf[r]
    OBVIOUS
  <2>1. f = Folder(r)
    BY <1>1, CreatedInFolder
  <2>2. clusterFolderName(ClusterOf[r] \o Suffix[r]) = ClusterOf[r]
    BY NamesAssumption, DefaultFolder
  <2> QED
    BY <2>1, <2>2 DEF Folder
<1> QED
  BY <1>1, TypeCorrect, PTL DEF Spec, InClusterFolder
=============================================================================
