------------------------------- MODULE TextEdits -------------------------------
(***************************************************************************)
(* The text algorithms of the file tools, as functions: the hunks of       *)
(* apply_patch and the diff it reports (tools/builtin/apply_patch.rs).     *)
(*                                                                         *)
(* A text is the sequence of its lines, split at every newline: the empty  *)
(* text is <<"">> and a text that ends in a newline has "" as its last     *)
(* line.  Carriage returns, which the code strips from the lines it reads, *)
(* are left out.  Positions are counted from 0 as in the code.             *)
(***************************************************************************)
EXTENDS Integers, Sequences, FiniteSets, SequencesExt, FiniteSetsExt

NoPos == -1
Least(S) == IF S = {} THEN NoPos ELSE Min(S)
Block(t, i, n) == SubSeq(t, i + 1, i + n)
Splice(t, i, n, new) == SubSeq(t, 1, i) \o new \o SubSeq(t, i + n + 1, Len(t))

-----------------------------------------------------------------------------
(* apply_patch: the patch language *)

\* An operation; `to' is the path itself when the file is not moved.
Op(kind, path) == [kind |-> kind, path |-> path, to |-> path, lines |-> <<>>, hunks |-> <<>>]
OnLast(ops, f(_)) == [ops EXCEPT ![Len(ops)] = f(@)]
AddLine(ops, line) == OnLast(ops, LAMBDA op : [op EXCEPT !.lines = Append(@, line)])
AddHunk(ops) == OnLast(ops, LAMBDA op : [op EXCEPT !.hunks = Append(@, <<>>)])
AddHunkLine(ops, tag, line) ==
    OnLast(ops, LAMBDA op :
        [op EXCEPT !.hunks = OnLast(@, LAMBDA h : Append(h, [kind |-> tag, line |-> line]))])

\* parse_patch, one line at a time: `at' is the section the line is in.
ParseLine(p, t) ==
    LET go(at, ops) == [at |-> at, ops |-> ops] IN
    CASE p.at \in {"ended", "bad"} -> p
      [] p.at = "start" -> go(IF t.tag = "begin" THEN "ops" ELSE "bad", <<>>)
      [] OTHER ->
           CASE t.tag = "end" -> go("ended", p.ops)
             [] t.tag \in {"add", "delete", "update"} -> go(t.tag, Append(p.ops, Op(t.tag, t.arg)))
             [] t.tag = "move" /\ p.at = "update" ->
                  go("hunks", OnLast(p.ops, LAMBDA op : [op EXCEPT !.to = t.arg]))
             [] t.tag = "@@" /\ p.at \in {"update", "hunks", "hunk"} -> go("hunk", AddHunk(p.ops))
             [] t.tag = "+" /\ p.at = "add" -> go("add", AddLine(p.ops, t.arg))
             [] t.tag \in {" ", "+", "-"} /\ p.at = "hunk" -> go("hunk", AddHunkLine(p.ops, t.tag, t.arg))
             [] OTHER -> go("bad", p.ops)

\* A patch without its last line is an error whatever it says.
ParsePatch(lines) == FoldLeft(ParseLine, [at |-> "start", ops |-> <<>>], lines)

\* The lines of a patch that asks for the operations.
PatchLines(ops) ==
    LET line(tag, arg) == [tag |-> tag, arg |-> arg]
        hunkLines(h) == <<line("@@", "")>> \o [i \in DOMAIN h |-> line(h[i].kind, h[i].line)]
        opLines(op) ==
            <<line(op.kind, op.path)>>
              \o (IF op.to # op.path THEN <<line("move", op.to)>> ELSE <<>>)
              \o [i \in DOMAIN op.lines |-> line("+", op.lines[i])]
              \o FlattenSeq([i \in DOMAIN op.hunks |-> hunkLines(op.hunks[i])])
    IN  <<line("begin", "")>> \o FlattenSeq([i \in DOMAIN ops |-> opLines(ops[i])]) \o <<line("end", "")>>

-----------------------------------------------------------------------------
(* apply_patch: hunks *)

Ctx(l) == [kind |-> " ", line |-> l]
Add(l) == [kind |-> "+", line |-> l]
Del(l) == [kind |-> "-", line |-> l]
LinesOfKind(hunk, kinds) ==
    LET chosen == SelectSeq(hunk, LAMBDA h : h.kind \in kinds)
    IN  [i \in 1..Len(chosen) |-> chosen[i].line]
Before(hunk) == LinesOfKind(hunk, {" ", "-"})
After(hunk) == LinesOfKind(hunk, {" ", "+"})

FindSubsequence(hay, start, needle) ==
    IF start >= Len(hay) THEN NoPos
    ELSE Least({i \in start..(Len(hay) - Len(needle)) : Block(hay, i, Len(needle)) = needle})

\* The next place where the hunk fits, else the first one in the text.
HunkPosition(lines, cursor, before) ==
    IF before = <<>> THEN Min({cursor, Len(lines)})
    ELSE LET next == FindSubsequence(lines, cursor, before)
         IN  IF next # NoPos THEN next ELSE FindSubsequence(lines, 0, before)

ApplyHunk(done, hunk) ==
    LET pos == HunkPosition(done.lines, done.cursor, Before(hunk))
    IN  IF ~done.ok \/ pos = NoPos THEN [done EXCEPT !.ok = FALSE]
        ELSE [ok |-> TRUE,
              lines |-> Splice(done.lines, pos, Len(Before(hunk)), After(hunk)),
              cursor |-> pos + Len(After(hunk))]

EndsInNewline(text) == Len(text) > 1 /\ Last(text) = ""
Joined(lines) == IF lines = <<>> THEN <<"">> ELSE lines

\* apply_update_hunks: [ok, text]
ApplyHunks(text, hunks) ==
    LET nl == EndsInNewline(text)
        done == FoldLeft(ApplyHunk,
                         [ok |-> TRUE, lines |-> IF nl THEN Front(text) ELSE text, cursor |-> 0],
                         hunks)
    IN  [ok |-> done.ok,
         text |-> IF nl THEN Append(Joined(done.lines), "") ELSE Joined(done.lines)]

\* What the lines of an added file make: a text that ends in a newline.
AddedText(lines) ==
    IF lines = <<>> \/ Last(lines) = "" THEN Joined(lines) ELSE Append(lines, "")

-----------------------------------------------------------------------------
(* apply_patch: the diff of a change *)

\* The length of the longest common subsequence of what follows i and j.
Common(old, new) ==
    LET n == Len(old)
        m == Len(new)
        dp[ij \in (0..n) \X (0..m)] ==
            LET i == ij[1]
                j == ij[2]
            IN  IF i = n \/ j = m THEN 0
                ELSE IF old[i + 1] = new[j + 1] THEN dp[<<i + 1, j + 1>>] + 1
                ELSE Max({dp[<<i + 1, j>>], dp[<<i, j + 1>>]})
    IN  dp

DiffOps(old, new) ==
    LET n == Len(old)
        m == Len(new)
        dp == Common(old, new)
        ops[ij \in (0..n) \X (0..m)] ==
            LET i == ij[1]
                j == ij[2]
            IN  CASE i = n /\ j = m -> <<>>
                  [] i < n /\ j = m -> <<Del(old[i + 1])>> \o ops[<<i + 1, j>>]
                  [] i = n /\ j < m -> <<Add(new[j + 1])>> \o ops[<<i, j + 1>>]
                  [] i < n /\ j < m ->
                       IF old[i + 1] = new[j + 1]
                       THEN <<Ctx(old[i + 1])>> \o ops[<<i + 1, j + 1>>]
                       ELSE IF dp[<<i + 1, j>>] >= dp[<<i, j + 1>>]
                       THEN <<Del(old[i + 1])>> \o ops[<<i + 1, j>>]
                       ELSE <<Add(new[j + 1])>> \o ops[<<i, j + 1>>]
    IN  ops[<<0, 0>>]

Changes(ops) == SelectSeq([i \in DOMAIN ops |-> i - 1], LAMBDA i : ops[i + 1].kind # " ")

\* The changes with `context' lines around them, merged where they meet.
Ranges(ops, context) ==
    LET around(i) == [start |-> Max({0, i - context}), end |-> Min({i + context + 1, Len(ops)})]
        extend(ranges, i) ==
            IF ranges # <<>> /\ around(i).start <= Last(ranges).end
            THEN [ranges EXCEPT ![Len(ranges)].end = Max({@, around(i).end})]
            ELSE Append(ranges, around(i))
    IN  FoldLeft(extend, <<>>, Changes(ops))

Others(ops, end, kind) == Cardinality({i \in 1..end : ops[i].kind # kind})

\* Mutant: the new side is counted from the old side's position.
DiffHunksSkewed(ops, context) ==
    LET ranges == Ranges(ops, context)
    IN  [r \in DOMAIN ranges |->
            [ops |-> SubSeq(ops, ranges[r].start + 1, ranges[r].end),
             oldStart |-> Others(ops, ranges[r].start, "+") + 1,
             oldLen |-> Others(ops, ranges[r].end, "+") - Others(ops, ranges[r].start, "+"),
             newStart |-> Others(ops, ranges[r].start, "+") + 1,
             newLen |-> Others(ops, ranges[r].end, "-") - Others(ops, ranges[r].start, "-")]]

\* diff_hunks: each hunk with its place in the old and in the new text.
DiffHunks(ops, context) ==
    LET ranges == Ranges(ops, context)
    IN  [r \in DOMAIN ranges |->
            [ops |-> SubSeq(ops, ranges[r].start + 1, ranges[r].end),
             oldStart |-> Others(ops, ranges[r].start, "+") + 1,
             oldLen |-> Others(ops, ranges[r].end, "+") - Others(ops, ranges[r].start, "+"),
             newStart |-> Others(ops, ranges[r].start, "-") + 1,
             newLen |-> Others(ops, ranges[r].end, "-") - Others(ops, ranges[r].start, "-")]]
-----------------------------------------------------------------------------
(* Properties, of one change of a text *)

\* Replaces the old side of the hunks by the new one, from the last to the first.
Patched(old, hunks) ==
    FoldRight(LAMBDA h, t : Splice(t, h.oldStart - 1, h.oldLen, After(h.ops)), hunks, old)

\* The diff that apply_patch reports is the change: each hunk shows the lines of
\* the old and of the new text at the places it names, and the hunks together
\* turn the old text into the new one.
DiffIsChange(old, new, context) ==
    LET hunks == DiffHunks(DiffOps(old, new), context) IN
    /\ \A h \in Range(hunks) :
          /\ Block(old, h.oldStart - 1, h.oldLen) = Before(h.ops)
          /\ Block(new, h.newStart - 1, h.newLen) = After(h.ops)
    /\ Patched(old, hunks) = new
=============================================================================
