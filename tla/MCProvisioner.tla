--------------------------- MODULE MCProvisioner ---------------------------
(***************************************************************************)
(* Instances of Provisioner for TLC: the sets of machine classes the runs  *)
(* draw requests from.                                                     *)
(***************************************************************************)
EXTENDS ProvisionerInvariant

CONSTANTS f1, t1, t2, d1

\* A clone with every optional setting, and a deployment likewise.
FullClone ==
  [library |-> FALSE, wants |-> {"firmware", "disk", "network", "policy"},
   folder |-> f1, ca |-> TRUE, tags |-> {t1, t2}, pci |-> {d1}, flaw |-> "none"]
FullDeploy == [FullClone EXCEPT !.library = TRUE]

\* A clone that asks for nothing but itself.
Plain ==
  [library |-> FALSE, wants |-> {}, folder |-> NoFolder, ca |-> FALSE,
   tags |-> {}, pci |-> {}, flaw |-> "none"]

\* The full classes, with every flaw and with none, and the plain one.
FullClasses ==
  {[c EXCEPT !.flaw = f] : c \in {FullClone, FullDeploy}, f \in Flaws} \union {Plain}

\* Two requests of one cluster side by side.
PairClasses == {[Plain EXCEPT !.folder = f1]}

PlainClasses == {Plain}
=============================================================================
