-------------------------- MODULE MCArtifactCache --------------------------
(* Two processes of two workspaces that share the cache, payloads of two      *)
(* lengths, and two damages from outside, so that a rebuild can be damaged.   *)
EXTENDS ArtifactCache

CONSTANTS p1, p2, w1, w2

MCProcesses == {p1, p2}
MCWorkspaces == {w1, w2}
MCWorkspaceOf == [p \in MCProcesses |-> IF p = p1 THEN w1 ELSE w2]
MCPayloads == {"short", "long"}
=============================================================================
