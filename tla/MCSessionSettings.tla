------------------------- MODULE MCSessionSettings -------------------------
(* Instances of SessionSettings for TLC. *)
EXTENDS SessionSettings, TLC

CONSTANTS s1, s2, m1, m2

MCConfig(mcp, default, models, custom) ==
    [mcp |-> mcp, default |-> default, models |-> models, custom |-> custom]

\* Administrators switch a server and the custom tools, add a server, which an older
\* configuration does not know, and remove a model.
MCConfigs == {MCConfig(s1 :> TRUE, m1, {m1, m2}, TRUE),
              MCConfig(s1 :> FALSE @@ s2 :> TRUE, m2, {m2}, FALSE)}

MCPatch(model, custom, mcp) == [model |-> model, custom |-> custom, mcp |-> mcp]
MCPatches == {MCPatch(m2, NULL, NULL), MCPatch(NULL, FALSE, s1 :> FALSE)}
MCOverrides == {MCPatch(NULL, NULL, NULL), MCPatch(m1, NULL, s1 :> FALSE)}
=============================================================================
