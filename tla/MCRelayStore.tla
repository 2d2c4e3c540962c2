---------------------------- MODULE MCRelayStore ----------------------------
(* Instances of RelayStore for model checking.                             *)
EXTENDS RelayStore, TLC

CONSTANTS x, y

MCArtifact == {x, y}
Symmetric == Permutations(MCArtifact)

=============================================================================
