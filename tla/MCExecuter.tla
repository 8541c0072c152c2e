----------------------------- MODULE MCExecuter -----------------------------
EXTENDS Executer, TLC

\* Two packages of one system, and one of a second system.
TwoGroups == (1 :> 1) @@ (2 :> 1) @@ (3 :> 2)

\* One package of each of two systems.
SingleGroups == (1 :> 1) @@ (2 :> 2)

RunSymmetry == Permutations(RunIds)
=============================================================================
