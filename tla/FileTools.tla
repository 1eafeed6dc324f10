------------------------------- MODULE FileTools -------------------------------
(***************************************************************************)
(* The tools that write files (kiliax-core tools/builtin: apply_patch.rs,  *)
(* edit_file.rs, write_file.rs) on one workspace.  Each runs to its end    *)
(* even when its run is cancelled, so that the tool of the next run may    *)
(* overlap it.  A file may be named by several spellings of its path, and  *)
(* apply_patch keeps its plan by spelling.                                 *)
(***************************************************************************)
EXTENDS TextEdits

CONSTANTS
    Editors,        \* tool calls that may overlap
    Spellings,      \* paths as a patch writes them, in their order
    FileOf(_),      \* the file that a spelling resolves to
    FileTexts,      \* texts that write_file and edit_file may produce
    PatchLists,     \* patches: sequences of operations
    FirstDisks,     \* what the files hold at first
    MaxFileCalls,   \* bound: tool calls
    MaxIoFaults     \* bound: writes that fail, and crashes

VARIABLES
    workspace,      \* workspace[f]: the text of the file f, or Absent
    editor,         \* editor[a]: the call a is working on
    fileCalls, ioFaults     \* bounds

fileVars == <<workspace, editor, fileCalls, ioFaults>>

WorkFiles == {FileOf(Spellings[i]) : i \in DOMAIN Spellings}
Paths == Range(Spellings)
Absent == <<>>
TornText == <<"torn">>      \* what a write that failed may leave
Idling == [at |-> "idle"]

PathsOf(ops) == UNION {{op.path, op.to} : op \in Range(ops)}

\* A patch names files of the workspace; the text that asks for it says what it means, and no
\* longer does without its last line.
ASSUME FileAssumption ==
    /\ MaxFileCalls \in Nat /\ MaxIoFaults \in Nat
    /\ Spellings \in Seq(Paths)
    /\ \A d \in FirstDisks : d = [f \in WorkFiles |-> d[f]]
    /\ \A asked \in PatchLists :
          /\ asked \in Seq(Range(asked)) /\ PathsOf(asked) \subseteq Paths
          /\ \A op \in Range(asked) : op.kind \in {"add", "delete", "update"}
          /\ ParsePatch(PatchLines(asked)) = [at |-> "ended", ops |-> asked]
          /\ ParsePatch(Front(PatchLines(asked))).at # "ended"

\* `asked' is what the patch meant, `before' the workspace when the call began, and `alone'
\* is false once another call wrote: ghosts.
NewCall(tool) == [at |-> "planning", tool |-> tool, asked |-> <<>>, ops |-> <<>>, next |-> 1,
                  plan |-> [n \in {} |-> {}], todo |-> <<>>, undo |-> <<>>, text |-> Absent,
                  before |-> workspace, alone |-> TRUE, clean |-> TRUE]

FilesInit ==
    /\ workspace \in FirstDisks
    /\ editor = [a \in Editors |-> Idling]
    /\ fileCalls = 0 /\ ioFaults = 0

Count == fileCalls < MaxFileCalls /\ fileCalls' = fileCalls + 1
IoFault == ioFaults < MaxIoFaults /\ ioFaults' = ioFaults + 1

\* The call a writes file f: the other calls are no longer alone.
Put(a, f, text, call) ==
    /\ workspace' = [workspace EXCEPT ![f] = text]
    /\ editor' = [b \in Editors |->
           IF b = a THEN call
           ELSE IF editor[b] = Idling THEN Idling ELSE [editor[b] EXCEPT !.alone = FALSE]]

-----------------------------------------------------------------------------
(* The meaning of the operations: plan_patch *)

\* ensure_planned_path: a path is read when the plan first meets its spelling.
Planned(plan, n) ==
    IF n \in DOMAIN plan THEN plan
    ELSE [m \in DOMAIN plan \cup {n} |->
             IF m \in DOMAIN plan THEN plan[m]
             ELSE [initial |-> workspace[FileOf(n)], current |-> workspace[FileOf(n)]]]
\* Mutant: what the plan holds of a path is read again.
CurrentOnDisk(plan, n) == workspace[FileOf(n)]

Current(plan, n) == Planned(plan, n)[n].current
WithText(plan, n, text) == [Planned(plan, n) EXCEPT ![n].current = text]

\* Whether the operation can be planned, and the plan with it.
CanPlan(plan, op) ==
    CASE op.kind = "add" -> Current(plan, op.path) = Absent
      [] op.kind = "delete" -> Current(plan, op.path) # Absent
      [] op.kind = "update" ->
           /\ Current(plan, op.path) # Absent
           /\ ApplyHunks(Current(plan, op.path), op.hunks).ok
           /\ op.to # op.path => Current(plan, op.to) = Absent
PlanWith(plan, op) ==
    CASE op.kind = "add" -> WithText(plan, op.path, AddedText(op.lines))
      [] op.kind = "delete" -> WithText(plan, op.path, Absent)
      [] op.kind = "update" ->
           LET new == ApplyHunks(Current(plan, op.path), op.hunks).text
           IN  WithText(WithText(plan, op.path, Absent), op.to, new)

-----------------------------------------------------------------------------
(* apply_patch *)

\* The patch is parsed; one that was cut short is refused.
ApplyPatch(a, asked, cut) ==
    LET lines == PatchLines(asked)
        parsed == ParsePatch(IF cut THEN Front(lines) ELSE lines)
    IN
    /\ editor[a] = Idling /\ Count
    /\ editor' = [editor EXCEPT ![a] =
           [NewCall("apply_patch") EXCEPT !.asked = asked, !.ops = parsed.ops,
                !.at = IF parsed.at = "ended" THEN @ ELSE "failed"]]
    /\ UNCHANGED <<workspace, ioFaults>>

\* The paths of a set, in the order of their spellings.
InOrder(paths) ==
    LET f[i \in 0..Len(Spellings)] == IF i = 0 THEN <<>>
                                      ELSE IF Spellings[i] \in paths THEN Append(f[i - 1], Spellings[i])
                                      ELSE f[i - 1]
    IN  f[Len(Spellings)]

Altered(plan) == {n \in DOMAIN plan : plan[n].initial # plan[n].current}

\* Nothing is written before all operations are planned.  The paths that changed
\* are written in the order of their spellings.
PlanOp(a) ==
    LET e == editor[a]
        op == e.ops[e.next]
    IN  /\ e.at = "planning" /\ e.tool = "apply_patch"
        /\ IF e.next > Len(e.ops)
           THEN editor' = [editor EXCEPT ![a] = [e EXCEPT !.at = "writing",
                                                           !.todo = InOrder(Altered(e.plan))]]
           ELSE IF CanPlan(e.plan, op)
           THEN editor' = [editor EXCEPT ![a] = [e EXCEPT !.next = @ + 1, !.plan = PlanWith(@, op)]]
           ELSE editor' = [editor EXCEPT ![a].at = "failed"]
        /\ UNCHANGED <<workspace, ioFaults>>

\* The paths to restore when the write of the first one to do fails, last first.
UndoList(e) == <<Head(e.todo)>> \o e.undo

WritePath(a) ==
    LET e == editor[a]
        n == Head(e.todo)
        done == [e EXCEPT !.todo = Tail(@), !.undo = <<n>> \o @]
        failed == [e EXCEPT !.at = "undoing", !.undo = UndoList(e)]
    IN  /\ e.at = "writing"
        /\ \/ /\ e.todo = <<>>
              /\ editor' = [editor EXCEPT ![a].at = "done"]
              /\ UNCHANGED <<workspace, ioFaults>>
           \/ /\ e.todo # <<>>
              /\ Put(a, FileOf(n), e.plan[n].current, done)
              /\ UNCHANGED ioFaults
           \/ /\ e.todo # <<>> /\ IoFault
              /\ \E left \in {workspace[FileOf(n)], TornText} :
                    /\ e.plan[n].current = Absent => left # TornText
                    /\ Put(a, FileOf(n), left, failed)

\* rollback_paths goes on when a path cannot be restored.
RestorePath(a) ==
    LET e == editor[a]
        n == Head(e.undo)
    IN  /\ e.at = "undoing"
        /\ \/ /\ e.undo = <<>>
              /\ editor' = [editor EXCEPT ![a].at = "failed"]
              /\ UNCHANGED <<workspace, ioFaults>>
           \/ /\ e.undo # <<>>
              /\ Put(a, FileOf(n), e.plan[n].initial, [e EXCEPT !.undo = Tail(@)])
              /\ UNCHANGED ioFaults
           \/ /\ e.undo # <<>> /\ IoFault
              /\ editor' = [editor EXCEPT ![a] = [e EXCEPT !.undo = Tail(@), !.clean = FALSE]]
              /\ UNCHANGED workspace

-----------------------------------------------------------------------------
(* write_file and edit_file *)

\* The file is read (for its byte order mark, or to be searched) before it is
\* written; edit_file with an oldString needs it to be there.
ReadFirst(a, n, tool) ==
    /\ editor[a] = Idling /\ Count
    /\ editor' = [editor EXCEPT ![a] =
           [NewCall(tool) EXCEPT !.todo = <<n>>, !.text = workspace[FileOf(n)]]]
    /\ UNCHANGED <<workspace, ioFaults>>

WriteBack(a) ==
    LET e == editor[a] IN
    /\ e.at = "planning" /\ e.tool \in {"write_file", "edit_file"}
    /\ \/ /\ e.tool = "edit_file"
          /\ editor' = [editor EXCEPT ![a].at = "failed"]
          /\ UNCHANGED <<workspace, ioFaults>>
       \/ \E text \in FileTexts :
             /\ e.tool = "edit_file" => e.text \notin {Absent, text}
             /\ \/ Put(a, FileOf(e.todo[1]), text, [e EXCEPT !.at = "done"]) /\ UNCHANGED ioFaults
                \/ Put(a, FileOf(e.todo[1]), TornText, [e EXCEPT !.at = "failed"]) /\ IoFault

-----------------------------------------------------------------------------
\* The process dies between two writes: nothing restores the files.
CrashTools ==
    /\ IoFault
    /\ \E a \in Editors : editor[a] # Idling
    /\ editor' = [a \in Editors |-> Idling]
    /\ UNCHANGED <<workspace, fileCalls>>

FinishCall(a) ==
    /\ editor[a] # Idling /\ editor[a].at \in {"done", "failed"}
    /\ editor' = [editor EXCEPT ![a] = Idling]
    /\ UNCHANGED <<workspace, ioFaults>>

EditorStep(a) ==
    /\ editor[a] # Idling
    /\ PlanOp(a) \/ WritePath(a) \/ RestorePath(a) \/ WriteBack(a) \/ FinishCall(a)
    /\ UNCHANGED fileCalls

FilesNext ==
    \/ CrashTools
    \/ \E a \in Editors :
          \/ EditorStep(a)
          \/ \E asked \in PatchLists, cut \in BOOLEAN : ApplyPatch(a, asked, cut)
          \/ \E n \in Paths, tool \in {"write_file", "edit_file"} : ReadFirst(a, n, tool)

-----------------------------------------------------------------------------
(* Properties *)

Ended(a, how) ==
    /\ editor[a] # Idling
    /\ editor[a].at = how /\ editor[a].tool = "apply_patch" /\ editor[a].alone

\* The operations applied to the files one after the other, without a plan.
Step(files, op) ==
    LET f == FileOf(op.path)
        new == ApplyHunks(files[f], op.hunks).text
    IN  CASE op.kind = "add" -> [files EXCEPT ![f] = AddedText(op.lines)]
          [] op.kind = "delete" -> [files EXCEPT ![f] = Absent]
          [] op.kind = "update" -> [[files EXCEPT ![f] = Absent] EXCEPT ![FileOf(op.to)] = new]

\* The files after each operation.
Applied(files, ops) ==
    LET h[k \in 0..Len(ops)] == IF k = 0 THEN files ELSE Step(h[k - 1], ops[k]) IN h
Outcome(files, ops) == Applied(files, ops)[Len(ops)]

OneSpelling(ops) == \A m, n \in PathsOf(ops) : FileOf(m) = FileOf(n) => m = n

\* A patch happens as its operations say, in their order, or not at all, if no other tool
\* wrote meanwhile: one that succeeds, when it names every file by one spelling; one that
\* fails, when every path could be restored.
PatchAllOrNothing ==
    \A a \in Editors :
        /\ Ended(a, "done") /\ OneSpelling(editor[a].asked)
              => workspace = Outcome(editor[a].before, editor[a].asked)
        /\ Ended(a, "failed") /\ editor[a].clean => workspace = editor[a].before
=============================================================================
