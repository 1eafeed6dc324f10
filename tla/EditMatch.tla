------------------------------- MODULE EditMatch -------------------------------
(***************************************************************************)
(* The search of edit_file for the text it replaces (kiliax-core           *)
(* tools/builtin/edit_file.rs): candidates of increasing tolerance, the    *)
(* first one that occurs exactly once wins.                                *)
(*                                                                         *)
(* A line is a sequence of characters and a text a sequence of lines.      *)
(* Characters are words and blanks: two words of a line have blanks        *)
(* between them, and are equal or wholly different.  There are no          *)
(* backslashes, so that unescaping changes nothing and                     *)
(* escape_normalized_candidates only repeats oldString.                    *)
(***************************************************************************)
EXTENDS Integers, Sequences, FiniteSets, SequencesExt, FiniteSetsExt

Blank == " "
Newline == "\n"

IsBlank(c) == c \in {Blank, Newline}
\* str::trim
Trim(s) ==
    LET words == {i \in DOMAIN s : ~IsBlank(s[i])}
    IN  IF words = {} THEN <<>> ELSE SubSeq(s, Min(words), Max(words))
\* split_whitespace
Words(s) == SelectSeq(s, LAMBDA c : ~IsBlank(c))
Flat(lines) ==
    FoldLeft(LAMBDA acc, i : (IF i = 1 THEN <<>> ELSE Append(acc, Newline)) \o lines[i],
             <<>>, [i \in 1..Len(lines) |-> i])

Occurrences(text, s) == {i \in 0..(Len(text) - Len(s)) : SubSeq(text, i + 1, i + Len(s)) = s}
Found(text, s) == Occurrences(text, s) # {}

\* The blocks of n lines, from the first to the last.
Blocks(content, n) ==
    IF n = 0 \/ n > Len(content) THEN <<>>
    ELSE [i \in 1..(Len(content) - n + 1) |-> SubSeq(content, i, i + n - 1)]
FlatAll(blocks) == [i \in DOMAIN blocks |-> Flat(blocks[i])]
\* lines without the empty one that a final newline makes
Proper(find) == IF Last(find) = <<>> THEN Front(find) ELSE find

-----------------------------------------------------------------------------
(* The candidates, in order *)

LineTrimmed(content, find) ==
    FlatAll(SelectSeq(Blocks(content, Len(Proper(find))), LAMBDA b :
                \A j \in DOMAIN b : Trim(b[j]) = Trim(find[j])))

\* From each line like the first one of `find' to the next one like its last.
Anchored(content, find) ==
    LET last(i) == {j \in (i + 2)..Len(content) : Trim(content[j]) = Trim(Last(find))}
        starts == {i \in DOMAIN content : Trim(content[i]) = Trim(find[1]) /\ last(i) # {}}
    IN  {<<i, Min(last(i))>> : i \in starts}

\* How alike the lines between the anchors are: <<alike, compared>>
Likeness(content, find, a) ==
    LET n == Min({Len(find) - 2, a[2] - a[1] - 1})
        same == {j \in 1..n : LET line == Trim(content[a[1] + j])
                              IN  line = Trim(find[j + 1]) /\ line # <<>>}
    IN  IF n = 0 THEN <<1, 1>> ELSE <<Cardinality(same), n>>
MoreAlike(p, q) == p[1] * q[2] > q[1] * p[2]

\* block_anchor_candidates: a single block is taken whatever is between its
\* anchors, of several the first most alike if it is alike enough.
BlockAnchor(content, find) ==
    LET f == Proper(find)
        anchored == Anchored(content, f)
        best == CHOOSE a \in anchored :
                    \A b \in anchored \ {a} :
                       \/ MoreAlike(Likeness(content, f, a), Likeness(content, f, b))
                       \/ /\ ~MoreAlike(Likeness(content, f, b), Likeness(content, f, a))
                          /\ a[1] < b[1]
        alike == Likeness(content, f, best)
    IN  IF Len(f) < 3 \/ anchored = {} THEN <<>>
        ELSE IF Cardinality(anchored) = 1 \/ 10 * alike[1] >= 3 * alike[2]
        THEN <<Flat(SubSeq(content, best[1], best[2]))>>
        ELSE <<>>

\* The words of `find' in a line, with any blanks between them.
SubstringLike(line, find) ==
    LET w == Words(Flat(find))
        spans == {p \in (1..Len(line)) \X (1..Len(line)) :
                    /\ p[1] <= p[2] /\ ~IsBlank(line[p[1]]) /\ ~IsBlank(line[p[2]])
                    /\ Words(SubSeq(line, p[1], p[2])) = w}
        first == CHOOSE p \in spans : \A q \in spans : p[1] <= q[1]
    IN  IF w = <<>> \/ spans = {} THEN <<>> ELSE <<SubSeq(line, first[1], first[2])>>

WhitespaceNormalized(content, find) ==
    LET w == Words(Flat(find))
        fromLine(line) == IF Words(line) = w THEN <<line>> ELSE SubstringLike(line, find)
        blocks == IF Len(find) > 1 THEN FlatAll(Blocks(content, Len(find))) ELSE <<>>
    IN  FlattenSeq([i \in DOMAIN content |-> fromLine(content[i])])
          \o SelectSeq(blocks, LAMBDA b : Words(b) = w)

\* remove_indentation: the indentation all lines with words share.
Indent(line) == Min({i \in DOMAIN line : ~IsBlank(line[i])}) - 1
Unindented(lines) ==
    LET full == {i \in DOMAIN lines : Trim(lines[i]) # <<>>}
        shared == Min({Indent(lines[i]) : i \in full})
    IN  IF full = {} THEN lines
        ELSE [i \in DOMAIN lines |->
                IF i \in full THEN SubSeq(lines[i], shared + 1, Len(lines[i])) ELSE lines[i]]
IndentationFlexible(content, find) ==
    FlatAll(SelectSeq(Blocks(content, Len(find)), LAMBDA b : Unindented(b) = Unindented(find)))

TrimmedBoundary(content, find) ==
    LET t == Trim(Flat(find))
    IN  IF t = Flat(find) THEN <<>>
        ELSE (IF Found(Flat(content), t) THEN <<t>> ELSE <<>>)
               \o SelectSeq(FlatAll(Blocks(content, Len(find))), LAMBDA b : Trim(b) = t)

\* Blocks of the same length between the anchors, half of whose lines agree.
ContextAware(content, find) ==
    LET f == Proper(find)
        agree(a) ==
            LET inner == {k \in 1..(Len(f) - 2) :
                            Trim(content[a[1] + k]) # <<>> \/ Trim(f[k + 1]) # <<>>}
                same == {k \in inner : Trim(content[a[1] + k]) = Trim(f[k + 1])}
            IN  2 * Cardinality(same) >= Cardinality(inner)
        good(i) == \E a \in Anchored(content, f) : a = <<i, i + Len(f) - 1>> /\ agree(a)
        starts == SelectSeq([i \in DOMAIN content |-> i], good)
    IN  IF Len(f) < 3 THEN <<>>
        ELSE [i \in DOMAIN starts |-> Flat(SubSeq(content, starts[i], starts[i] + Len(f) - 1))]

Candidates(content, find) ==
    SelectSeq(
        <<Flat(find)>> \o LineTrimmed(content, find) \o BlockAnchor(content, find)
          \o WhitespaceNormalized(content, find) \o IndentationFlexible(content, find)
          \o TrimmedBoundary(content, find) \o ContextAware(content, find),
        LAMBDA s : s # <<>>)

-----------------------------------------------------------------------------
\* The first of the candidates that fit, or nothing (an error).
FirstFit(fitting) == IF fitting = <<>> THEN <<>> ELSE Head(fitting)

OccursOnce(text, s) == Cardinality(Occurrences(text, s)) = 1

\* Mutant: a candidate need not be unique.
ReplacedAny(content, find) ==
    FirstFit(SelectSeq(Candidates(content, find), LAMBDA s : Found(Flat(content), s)))

\* replace_content without replaceAll: what is replaced.
Replaced(content, find) ==
    FirstFit(SelectSeq(Candidates(content, find), LAMBDA s : OccursOnce(Flat(content), s)))

\* with replaceAll: every occurrence of the first candidate that is found.
ReplacedAll(content, find) ==
    FirstFit(SelectSeq(Candidates(content, find), LAMBDA s : Found(Flat(content), s)))

-----------------------------------------------------------------------------
(* Properties, of one edit *)

SameAnchors(content, find, s) ==
    /\ Len(Proper(find)) >= 3
    /\ \E a \in Anchored(content, Proper(find)) : s = Flat(SubSeq(content, a[1], a[2]))

Lookalike(content, find, s) ==
    Words(s) = Words(Flat(find)) \/ SameAnchors(content, find, s)

\* What an edit replaces occurs once, and is what was asked for up to blanks, or
\* a block between lines like the first and the last line asked for.  With
\* replaceAll it may occur more often, and an edit that one could make the other
\* could too.
RightlyReplaced(content, find, one, all) ==
    /\ one # <<>> => /\ OccursOnce(Flat(content), one)
                     /\ Lookalike(content, find, one)
                     /\ all # <<>>
    /\ all # <<>> => Lookalike(content, find, all)

EditsOneLookalike(content, find) ==
    RightlyReplaced(content, find, Replaced(content, find), ReplacedAll(content, find))
=============================================================================
