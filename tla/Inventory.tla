------------------------------ MODULE Inventory ------------------------------
(***************************************************************************)
(* Which VM the provider means.  createVM looks for the VM of a request by *)
(* its path, in the folder it would create it in; the later steps and      *)
(* Deprovision look for it by its bare name in the datacenter.  Other      *)
(* people use the same vCenter: they move VMs to other folders, delete     *)
(* them, and have VMs of the same name elsewhere (a restored backup).      *)
(*                                                                         *)
(* A VM found is held by reference until the step ends, and a reference    *)
(* survives a move.  A creation is a task of vCenter's: the worker waits   *)
(* for it, and it goes on when the worker is cut short.  The steps after   *)
(* createVM, which all begin alike, are one, and so is a task that changes *)
(* a VM.                                                                   *)
(*                                                                         *)
(* Names of machine sets and folders are sequences of words, the parts     *)
(* between the dashes.                                                     *)
(***************************************************************************)
EXTENDS Naturals, Sequences, FiniteSets

CONSTANTS
  Requests,     \* IDs of machine requests; also the names of their VMs
  Words,        \* what names of clusters and machine sets are made of
  ClusterOf,    \* the cluster of each request
  Suffix,       \* what its machine set's ID has after the cluster
  Elsewhere,    \* a folder the provider does not use
  Nowhere,      \* the place of a VM that does not exist
  NoVM,         \* no VM is held
  Meddling,     \* what other people do: move, delete, create
  MaxVMs,       \* bound: VMs the provider has made of a request and not lost
  MaxMeddling,  \* bound: what other people do in a behaviour
  MaxFaults     \* bound: attempts cut short

VARIABLES
  phase,    \* what the Omni runner thinks of each request
  step,     \* the provisioning step the runner is at
  pc,       \* where the worker of each request is
  held,     \* the VM it holds a reference to, or waits for
  place,    \* the folder each VM is in
  creating, \* the VMs vCenter is creating
  unseen,   \* history: those of them a lookup of Deprovision could not find yet
  meddled,  \* what other people did so far
  faults    \* attempts cut short so far

vars == <<phase, step, pc, held, place, creating, unseen, meddled, faults>>

\* What is left of an ID that begins with a dash.
NoName == <<"">>

ControlPlanes == <<"control", "planes">>
Workers == <<"workers">>

EndsWith(id, suffix) ==
  /\ Len(suffix) < Len(id)
  /\ \A i \in 1..Len(suffix) : id[Len(id) - Len(suffix) + i] = suffix[i]

Without(id, suffix) == SubSeq(id, 1, Len(id) - Len(suffix))

\* The suffix is cut off where something is left before its dash.
Cuts(id, suffix) == EndsWith(id, suffix) /\ Without(id, suffix) # NoName

\* Faulty variant of clusterFolderName: a name may lose both suffixes.
BareFolderName(id) ==
  LET cluster == IF Cuts(id, ControlPlanes) THEN Without(id, ControlPlanes) ELSE id
  IN  IF Cuts(cluster, Workers) THEN Without(cluster, Workers) ELSE cluster

clusterFolderName(id) ==
  IF Cuts(id, ControlPlanes) THEN Without(id, ControlPlanes)
  ELSE IF Cuts(id, Workers) THEN Without(id, Workers)
  ELSE id

\* The folder the VM of a request is created in.
Folder(r) == clusterFolderName(ClusterOf[r] \o Suffix[r])

Folders == {Folder(r) : r \in Requests} \union {Elsewhere}

ASSUME NamesAssumption ==
  /\ {"control", "planes", "workers"} \subseteq Words
  /\ \A r \in Requests : /\ ClusterOf[r] \in Seq(Words) /\ Suffix[r] \in Seq(Words)
                         /\ ClusterOf[r] # << >> /\ ClusterOf[r] # NoName
  /\ Nowhere \notin Folders
ASSUME BoundsAssumption ==
  MaxVMs \in Nat /\ MaxMeddling \in Nat /\ MaxFaults \in Nat

\* The VMs that bear the name of a request: one of somebody else's, and those
\* the provider makes.
Foreign(r) == <<r, 0>>
Own(r) == {r} \X (1..MaxVMs)
VMs == Requests \X (0..MaxVMs)

ASSUME NoVMAssumption == NoVM \notin VMs

Exists(v) == place[v] # Nowhere
Free(v) == ~Exists(v) /\ v \notin creating

\* find.Finder.VirtualMachine of a bare name, and of a path.
Named(r) == {v \in {Foreign(r)} \union Own(r) : Exists(v)}
NamedIn(r, f) == {v \in Named(r) : place[v] = f}

\* Type correctness; a worker that is about to change a VM holds one, and one
\* that waits for a creation knows for which.
TypeOK ==
  /\ phase \in [Requests -> {"provisioning", "provisioned", "tearingDown", "gone"}]
  /\ step \in [Requests -> {"createVM", "powerOnVM"}]
  /\ pc \in [Requests -> {"idle", "create", "await", "find", "configure", "powerOn", "destroy"}]
  /\ held \in [Requests -> VMs \union {NoVM}]
  /\ place \in [VMs -> Folders \union {Nowhere}]
  /\ creating \subseteq UNION {Own(r) : r \in Requests}
  /\ unseen \in [Requests -> SUBSET VMs]
  /\ meddled \in 0..MaxMeddling
  /\ faults \in 0..MaxFaults
  /\ \A r \in Requests :
       /\ pc[r] = "await" => held[r] \in Own(r)
       /\ pc[r] \in {"configure", "powerOn", "destroy"} => held[r] \in {Foreign(r)} \union Own(r)

Init ==
  /\ phase = [r \in Requests |-> "provisioning"]
  /\ step = [r \in Requests |-> "createVM"]
  /\ pc = [r \in Requests |-> "idle"]
  /\ held = [r \in Requests |-> NoVM]
  /\ place = [v \in VMs |-> Nowhere]
  /\ creating = {}
  /\ unseen = [r \in Requests |-> {}]
  /\ meddled = 0
  /\ faults = 0
-----------------------------------------------------------------------------

\* The attempt goes on at p, holding v.
Hold(r, v, p) ==
  /\ held' = [held EXCEPT ![r] = v]
  /\ pc' = [pc EXCEPT ![r] = p]

\* The attempt is over; the runner starts it again unless the phase has changed.
EndAttempt(r) == Hold(r, NoVM, "idle")

Provisioning(r, s) == pc[r] = "idle" /\ phase[r] = "provisioning" /\ step[r] = s

\* Faulty variant of FindExistingVM: what is there is not picked up.
FindNoVM(r) ==
  /\ Provisioning(r, "createVM")
  /\ Hold(r, NoVM, "create")
  /\ UNCHANGED <<phase, step, place, creating, unseen, meddled, faults>>

\* createVM picks up the VM of that name in the folder, whoever made it.
FindExistingVM(r) ==
  /\ Provisioning(r, "createVM")
  /\ \/ NamedIn(r, Folder(r)) = {} /\ Hold(r, NoVM, "create")
     \/ \E v \in NamedIn(r, Folder(r)) : Hold(r, v, "configure")
  /\ UNCHANGED <<phase, step, place, creating, unseen, meddled, faults>>

\* A clone or a deployment is started.
CreateVM(r) ==
  /\ pc[r] = "create"
  /\ \E v \in Own(r) :
       /\ Free(v)
       /\ creating' = creating \union {v}
       /\ Hold(r, v, "await")
  /\ UNCHANGED <<phase, step, place, unseen, meddled, faults>>

\* vCenter ends a creation, also one nobody waits for any more: the VM is there,
\* or the name is taken in the folder.
CreationEnds(r, v) ==
  /\ v \in creating
  /\ creating' = creating \ {v}
  /\ place' = [place EXCEPT ![v] = IF NamedIn(r, Folder(r)) = {} THEN Folder(r) ELSE Nowhere]
  /\ UNCHANGED <<phase, step, pc, held, unseen, meddled, faults>>

\* vCenter fails a creation.
CreationFails(r, v) ==
  /\ faults < MaxFaults
  /\ faults' = faults + 1
  /\ v \in creating
  /\ creating' = creating \ {v}
  /\ UNCHANGED <<phase, step, pc, held, place, unseen, meddled>>

\* The worker's Wait ends with the task.  A clone is looked for in the folder
\* then, a deployment answers with the reference.
AwaitCreation(r) ==
  /\ pc[r] = "await"
  /\ held[r] \notin creating
  /\ \/ Exists(held[r]) /\ (Hold(r, NoVM, "find") \/ Hold(r, held[r], "configure"))
     \/ ~Exists(held[r]) /\ EndAttempt(r)
  /\ UNCHANGED <<phase, step, place, creating, unseen, meddled, faults>>

FindCreatedVM(r) ==
  /\ pc[r] = "find"
  /\ \/ NamedIn(r, Folder(r)) = {} /\ EndAttempt(r)
     \/ \E v \in NamedIn(r, Folder(r)) : Hold(r, v, "configure")
  /\ UNCHANGED <<phase, step, place, creating, unseen, meddled, faults>>

\* Faulty variant of Configure: an error of a stage is not one to retry.
ConfigureFatal(r) ==
  /\ pc[r] = "configure"
  /\ IF Exists(held[r]) THEN EndAttempt(r) ELSE Hold(r, NoVM, "failed")
  /\ step' = [step EXCEPT ![r] = IF Exists(held[r]) THEN "powerOnVM" ELSE @]
  /\ UNCHANGED <<phase, place, creating, unseen, meddled, faults>>

\* The stages of createVM fail on a VM that is no longer there.
Configure(r) ==
  /\ pc[r] = "configure"
  /\ EndAttempt(r)
  /\ step' = [step EXCEPT ![r] = IF Exists(held[r]) THEN "powerOnVM" ELSE @]
  /\ UNCHANGED <<phase, place, creating, unseen, meddled, faults>>

\* No VM of that name, or several: an error, and a retry that finds the same.
ResolveProvisionedVM(r) ==
  /\ Provisioning(r, "powerOnVM")
  /\ \E v \in Named(r) : Named(r) = {v} /\ Hold(r, v, "powerOn")
  /\ UNCHANGED <<phase, step, place, creating, unseen, meddled, faults>>

\* A request torn down meanwhile stays so.
PowerOn(r) ==
  /\ pc[r] = "powerOn"
  /\ EndAttempt(r)
  /\ phase' = [phase EXCEPT ![r] =
       IF @ = "provisioning" /\ Exists(held[r]) THEN "provisioned" ELSE @]
  /\ UNCHANGED <<step, place, creating, unseen, meddled, faults>>

TearDown(r) ==
  /\ phase[r] \in {"provisioning", "provisioned"}
  /\ phase' = [phase EXCEPT ![r] = "tearingDown"]
  /\ UNCHANGED <<step, pc, held, place, creating, unseen, meddled, faults>>

\* Deprovision looks the name up; what is still being created it cannot find.
LooksUp(r) ==
  /\ pc[r] = "idle" /\ phase[r] = "tearingDown"
  /\ unseen' = [unseen EXCEPT ![r] = creating]

\* Faulty variant of Gone: Deprovision looks where createVM did.
GoneFromFolder(r) ==
  /\ LooksUp(r)
  /\ NamedIn(r, Folder(r)) = {}
  /\ phase' = [phase EXCEPT ![r] = "gone"]
  /\ UNCHANGED <<step, pc, held, place, creating, meddled, faults>>

\* Faulty variant of Gone: a VM that is not found is an error.
NeverGone(r) ==
  /\ LooksUp(r)
  /\ Named(r) = {}
  /\ UNCHANGED <<phase, step, pc, held, place, creating, meddled, faults>>

\* Deprovision finds no VM of that name: already removed.
Gone(r) ==
  /\ LooksUp(r)
  /\ Named(r) = {}
  /\ phase' = [phase EXCEPT ![r] = "gone"]
  /\ UNCHANGED <<step, pc, held, place, creating, meddled, faults>>

\* Faulty variant of Locate: the first VM of that name is taken.
LocateAny(r) ==
  /\ LooksUp(r)
  /\ \E v \in Named(r) : Hold(r, v, "destroy")
  /\ UNCHANGED <<phase, step, place, creating, meddled, faults>>

\* Several VMs of that name are an error, and a retry that finds the same.
Locate(r) ==
  /\ LooksUp(r)
  /\ \E v \in Named(r) : Named(r) = {v} /\ Hold(r, v, "destroy")
  /\ UNCHANGED <<phase, step, place, creating, meddled, faults>>

\* A VM that is gone by now cannot be destroyed: an error, and a retry.
Destroy(r) ==
  /\ pc[r] = "destroy"
  /\ EndAttempt(r)
  /\ phase' = [phase EXCEPT ![r] = IF Exists(held[r]) THEN "gone" ELSE @]
  /\ place' = [place EXCEPT ![held[r]] = Nowhere]
  /\ UNCHANGED <<step, creating, unseen, meddled, faults>>

\* Any call fails or its answer is lost, and the step is retried.  A creation
\* that has been started goes on, and a VM that was to be destroyed may be.
CutShort(r) ==
  /\ faults < MaxFaults
  /\ faults' = faults + 1
  /\ pc[r] # "idle"
  /\ EndAttempt(r)
  /\ \/ UNCHANGED place
     \/ pc[r] = "destroy" /\ place' = [place EXCEPT ![held[r]] = Nowhere]
  /\ UNCHANGED <<phase, step, creating, unseen, meddled>>

\* Somebody else moves, deletes or creates a VM that bears the name of r.
Meddle(r, v, f) ==
  /\ meddled < MaxMeddling
  /\ meddled' = meddled + 1
  /\ f = Nowhere \/ NamedIn(r, f) = {}
  /\ \/ "move" \in Meddling /\ Exists(v) /\ f # Nowhere
     \/ "delete" \in Meddling /\ Exists(v) /\ f = Nowhere
     \/ "create" \in Meddling /\ ~Exists(v) /\ v = Foreign(r) /\ f # Nowhere
  /\ place' = [place EXCEPT ![v] = f]
  /\ UNCHANGED <<phase, step, pc, held, creating, unseen, faults>>

Worker(r) ==
  \/ FindExistingVM(r) \/ CreateVM(r) \/ AwaitCreation(r) \/ FindCreatedVM(r) \/ Configure(r)
  \/ ResolveProvisionedVM(r) \/ PowerOn(r) \/ Gone(r) \/ Locate(r) \/ Destroy(r)

\* A retry that finds what the last one found changes nothing.
Wait == UNCHANGED vars

Next ==
  \/ \E r \in Requests :
       \/ Worker(r) \/ TearDown(r) \/ CutShort(r)
       \/ \E v \in Own(r) : CreationEnds(r, v) \/ CreationFails(r, v)
       \/ \E v \in {Foreign(r)} \union Own(r), f \in Folders \union {Nowhere} : Meddle(r, v, f)
  \/ Wait

Spec == Init /\ [][Next]_vars

\* The runner retries, no call hangs, and vCenter ends every creation.
FairSpec ==
  /\ Spec
  /\ \A r \in Requests : /\ WF_vars(Worker(r))
                         /\ \A v \in Own(r) : WF_vars(CreationEnds(r, v))
-----------------------------------------------------------------------------

\* Whatever other people move, delete or create in the datacenter, a VM the
\* provider made outlives its request only when its creation was still going on
\* as Deprovision looked for the last time.
NothingLeft ==
  \A r \in Requests :
    phase[r] = "gone" => \A v \in Own(r) : Exists(v) => v \in unseen[r]

\* Deprovision does not destroy one VM of that name, somebody else's say, while
\* the provider's own is another, unless that one was still being created when
\* Deprovision looked.  Somebody else's VM is destroyed when it is the only one
\* of that name: nothing tells it from the provider's.
DestroysNoOther ==
  \A r \in Requests :
    pc[r] = "destroy" => \A v \in Own(r) : Exists(v) => v = held[r] \/ v \in unseen[r]

\* A VM the provider creates for r is put in folder f.
CreatedIn(r, v, f) == ~Exists(v) /\ Exists(v)' /\ place'[v] = f

\* The VMs of a cluster's default machine sets are created in one folder, named
\* for the cluster, also when that name ends like a machine set of another.
InClusterFolder ==
  [][\A r \in Requests : \A v \in Own(r), f \in Folders :
       Suffix[r] \in {ControlPlanes, Workers} /\ CreatedIn(r, v, f) => f = ClusterOf[r]]_vars

\* A request is provisioned for ever only when, after createVM, its VM has gone
\* or a second one bears its name: no step ever looks for another way.
StuckOnlyWithoutVM ==
  \A r \in Requests :
    <>[](phase[r] = "provisioning")
      => <>[](step[r] = "powerOnVM" /\ Cardinality(Named(r)) # 1)

\* Deprovision does not end only when several VMs keep bearing the name.
StuckOnlyAmbiguous ==
  \A r \in Requests :
    <>[](phase[r] = "tearingDown") => <>[](Cardinality(Named(r)) > 1)
=============================================================================
