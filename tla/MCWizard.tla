------------------------------ MODULE MCWizard ------------------------------
(* Instances of Wizard for TLC: a group that can be chosen as a whole, and *)
(* one that only has areas.  The handlers are alike.                       *)
EXTENDS Wizard, TLC

MCGroups == {"riga", "other"}
MCParent == [g \in MCGroups |-> IF g = "riga" THEN "all-riga" ELSE "none"]
MCChildren == [g \in MCGroups |-> IF g = "riga" THEN {} ELSE {"cesis"}]
MCMessages == {1, 2}
MCAlike == Permutations(Handlers)
=============================================================================
