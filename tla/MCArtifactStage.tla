-------------------------- MODULE MCArtifactStage --------------------------
(* Model-checking instance of ArtifactStage.                               *)
EXTENDS ArtifactStage, TLC

CONSTANTS c1, c2, c3, hash, read

MCCallers == {c1, c2, c3}
MCModes == {hash, read}

StageSymmetry == Permutations(MCCallers) \cup Permutations(MCModes)

=============================================================================
