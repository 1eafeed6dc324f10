-------------------------------- MODULE MCTools --------------------------------
(***************************************************************************)
(* The tools that keep state of their own, which share nothing: a          *)
(* behaviour is about shell sessions, a custom tool, an MCP server, the    *)
(* file tools, the diff of one change, or one edit.                        *)
(***************************************************************************)
EXTENDS ShellSessions, CustomTools, McpConnections, FileTools, EditMatch

VARIABLES
    subject,        \* which tool the behaviour is about
    change,         \* a change of a text: <<old, new>>
    edit            \* an edit: <<content, oldString>>

toolVars == <<shellVars, customVars, mcpVars, fileVars, subject, change, edit>>

-----------------------------------------------------------------------------
(* Instances *)

MCSpellings == <<"./f", "f", "g">>
MCFileOf(n) == IF n = "g" THEN "g" ELSE "f"
Update(path, to, hunks) == [Op("update", path) EXCEPT !.to = to, !.hunks = hunks]
Replace == Update("f", "f", <<<<Del("x"), Add("y")>>>>)
Move == Update("f", "g", <<<<Ctx("x"), Add("y")>>, <<Add("z")>>>>)
Alias == Update("./f", "./f", <<<<Add("z")>>>>)
Create == [Op("add", "g") EXCEPT !.lines = <<"y">>]
MCPatchLists == {<<Replace, Create>>, <<Move, Op("delete", "g")>>, <<Op("delete", "g"), Move>>,
                 <<Replace, Replace>>, <<Replace, Alias>>}
MCFirstDisks == {[f \in {"f", "g"} |-> IF f = "f" THEN <<"x", "">> ELSE <<>>],
                 [f \in {"f", "g"} |-> IF f = "f" THEN <<"x", "x">> ELSE <<"y", "">>]}
MCFileTexts == {<<"w", "">>}

\* Two calls of different runs with one id, and another.
MCToolCalls == {<<"run1", "id">>, <<"run2", "id">>, <<"run2", "other">>}
MCRequestId == [x \in ToolCalls |-> x[2]]

LinesUpTo(S, n) == UNION {[1..k -> S] : k \in 0..n}
Changed == LinesUpTo({"x", "y"}, 4)
EditLines == {<<>>, <<"x">>, <<" ", "x">>, <<"x", " ", "y">>, <<"y">>}
Contents == {c \in LinesUpTo(EditLines, 4) : c # <<>>}
Finds == {f \in LinesUpTo(EditLines, 3) : f \notin {<<>>, <<<<>>>>}}

-----------------------------------------------------------------------------
NoChange == <<<<>>, <<>>>>

ToolsInit ==
    /\ ShellInit /\ CustomInit /\ McpInit /\ FilesInit
    /\ subject \in {"shell", "custom", "mcp", "files", "diff", "edit"}
    /\ subject # "files" => workspace = CHOOSE d \in FirstDisks : TRUE
    /\ subject # "mcp" => mcpConfig = CHOOSE s \in Signatures : TRUE
    /\ change = NoChange /\ edit = NoChange

ShellOnly(Taken) ==
    /\ subject = "shell" /\ Taken
    /\ UNCHANGED <<customVars, mcpVars, fileVars, subject, change, edit>>
ShellStep == ShellOnly(ShellNext)
CustomStep ==
    /\ subject = "custom" /\ CustomNext
    /\ UNCHANGED <<shellVars, mcpVars, fileVars, subject, change, edit>>
McpOnly(Taken) ==
    /\ subject = "mcp" /\ Taken
    /\ UNCHANGED <<shellVars, customVars, fileVars, subject, change, edit>>
McpStep == McpOnly(McpNext)
FileStep ==
    /\ subject = "files" /\ FilesNext
    /\ UNCHANGED <<shellVars, customVars, mcpVars, subject, change, edit>>
DiffStep ==
    /\ subject = "diff" /\ change = NoChange
    /\ change' \in Changed \X Changed
    /\ UNCHANGED <<shellVars, customVars, mcpVars, fileVars, subject, edit>>
\* The content first, then what to replace in it.
EditStep ==
    /\ subject = "edit"
    /\ \/ edit = NoChange /\ edit' \in Contents \X {<<>>}
       \/ edit # NoChange /\ edit[2] = <<>> /\ edit' \in {edit[1]} \X Finds
    /\ UNCHANGED <<shellVars, customVars, mcpVars, fileVars, subject, change>>

ToolsNext == ShellStep \/ CustomStep \/ McpStep \/ FileStep \/ DiffStep \/ EditStep

\* The watcher polls, a deadline comes, and a call goes on when it can.  MCP connections
\* end by themselves or after MCP_CONNECT_TIMEOUT, shutdowns after MCP_SHUTDOWN_TIMEOUT,
\* and tasks are scheduled.
ToolsSpec ==
    /\ ToolsInit /\ [][ToolsNext]_toolVars
    /\ \A c \in ShellCmds : /\ WF_toolVars(ShellOnly(DeadlinePasses(c)))
                            /\ WF_toolVars(ShellOnly(Watch(c)))
    /\ \A k \in ShellCallers : WF_toolVars(ShellOnly(CallerStep(k)))
    /\ \A a \in Actors : WF_toolVars(McpOnly(McpActorStep(a)))
    /\ WF_toolVars(McpOnly(McpBackgroundStep))

-----------------------------------------------------------------------------
\* The diff reported for a change is the change, with one line of context.
DiffExact == DiffIsChange(change[1], change[2], 1)

\* An edit replaces one lookalike of what was asked for.
EditExact == edit[2] # <<>> => EditsOneLookalike(edit[1], edit[2])
=============================================================================
