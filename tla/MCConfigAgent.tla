--------------------------- MODULE MCConfigAgent ---------------------------
(* Instances of ConfigAgent for TLC: good, other and rebind are intact,      *)
(* rebind changes a boot-time field, corrupt is what its name says.          *)
EXTENDS ConfigAgent

CONSTANTS good, other, rebind, corrupt

MCArtifact == {good, other, rebind, corrupt}
MCSmallArtifact == {good, other, corrupt}
MCWellFormed == MCArtifact \ {corrupt}
MCSmallWellFormed == MCSmallArtifact \ {corrupt}
MCFingerprint == [x \in MCArtifact |-> IF x = rebind THEN 2 ELSE 1]

=============================================================================
