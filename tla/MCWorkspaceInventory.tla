------------------------ MODULE MCWorkspaceInventory ------------------------
(* A workspace with one nested directory of a one-letter name, which may be   *)
(* a component of its own, a workspace of its own or neither.                 *)
EXTENDS WorkspaceInventory

MCSource == <<"a", "A.kt">>
MCNestedConfig == <<"a">> \o KideConfig
MCPaths ==
    {<<"settings.gradle">>, <<"a", "build.gradle.kts">>, <<"a", "deps.lockfile">>,
     KideConfig, MCSource, <<"B.kt">>}
MCContents == {"one", "two"}
MCSizeOf == [one |-> 1, two |-> 1]
MCInvocations == {<<>>, <<"a">>}

Tree(files) == [f \in files |-> "one"]
MCInitialTrees ==
    {Tree({<<"settings.gradle">>, KideConfig, MCSource, <<"B.kt">>}),
     Tree({<<"settings.gradle">>, KideConfig, <<"a", "build.gradle.kts">>,
           <<"a", "deps.lockfile">>, MCSource}),
     Tree({<<"a", "build.gradle.kts">>, MCNestedConfig, <<".git", "HEAD">>, MCSource})}
MCAllPaths == MCPaths \cup {<<".git", "HEAD">>, MCNestedConfig}
=============================================================================
