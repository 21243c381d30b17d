-------------------------- MODULE PromptExtraction --------------------------
(***************************************************************************)
(* extract_codex_next_prompt of gui/report_roundtrip.py: which part of a   *)
(* PM answer is the next instruction for the local agent.  An answer is a  *)
(* sequence of lines, and a line is one of                                 *)
(*   "tagged"  a fence with info string CODEX_NEXT_PROMPT (it only opens)  *)
(*   "named"   a fence with another info string           (it only opens)  *)
(*   "bare"    a fence without info string     (it opens, or it closes)    *)
(*   "label"   the line CODEX_NEXT_PROMPT by itself                        *)
(*   "blank"   a line of white space                                       *)
(* or any other text.  Fences have one character and one length.           *)
(***************************************************************************)
EXTENDS Integers, Sequences, FiniteSets, SequencesExt

FenceLine == {"tagged", "named", "bare"}

Blank(lines) == \A i \in 1..Len(lines) : lines[i] = "blank"

(* The first line that is not blank, or 0.                                 *)
FirstText(lines) == SelectInSeq(lines, LAMBDA l : l # "blank")

BodyStartsWithLabel(lines) == FirstText(lines) > 0 /\ lines[FirstText(lines)] = "label"

StripLabel(lines) ==
    IF BodyStartsWithLabel(lines) THEN RemoveAt(lines, FirstText(lines)) ELSE lines

(***************************************************************************)
(* The scan: outside a block (open = 0) every fence opens one; inside,     *)
(* only a bare fence closes it.  A block counts when its fence is tagged   *)
(* or its body starts with the label; one that never closes ends the scan. *)
(***************************************************************************)
Outside == [open |-> 0, found |-> <<>>]

ScanLine(acc, lines, i) ==
    IF acc.open = 0
    THEN IF lines[i] \in FenceLine THEN [acc EXCEPT !.open = i] ELSE acc
    ELSE IF lines[i] # "bare" THEN acc
    ELSE LET body == SubSeq(lines, acc.open + 1, i - 1)
         IN  [open |-> 0,
              found |-> IF lines[acc.open] = "tagged" \/ BodyStartsWithLabel(body)
                        THEN Append(acc.found, StripLabel(body))
                        ELSE acc.found]

(* The state of the scan behind each line.                                 *)
Scan(lines) ==
    LET scan[i \in 0..Len(lines)] ==
            IF i = 0 THEN Outside ELSE ScanLine(scan[i - 1], lines, i)
    IN  scan

FencedMatches(lines) == Scan(lines)[Len(lines)].found

(* Without any fence: what follows the only label, if nothing precedes it. *)
BodyOnlyMatches(lines) ==
    IF /\ \A i \in 1..Len(lines) : lines[i] \notin FenceLine
       /\ BodyStartsWithLabel(lines)
       /\ Cardinality({i \in 1..Len(lines) : lines[i] = "label"}) = 1
    THEN <<SubSeq(lines, FirstText(lines) + 1, Len(lines))>>
    ELSE <<>>

Matches(lines) == FencedMatches(lines) \o BodyOnlyMatches(lines)

(* The extraction raises unless exactly one match has text.                *)
Extractable(lines) == Len(Matches(lines)) = 1 /\ ~Blank(Matches(lines)[1])

(* Mutant: the body of the first fence, an instruction or not.             *)
ExtractFirst(lines) ==
    LET open == SelectInSeq(lines, LAMBDA l : l \in FenceLine)
        body == SubSeq(lines, open + 1, Len(lines))
    IN  StripLabel(SubSeq(body, 1, SelectInSeq(body, LAMBDA l : l = "bare") - 1))

Extract(lines) == Matches(lines)[1]

(***************************************************************************)
(* The same without a scan, to compare with: a block is a fence that lies  *)
(* in no earlier block, with the first bare fence after it.                *)
(***************************************************************************)
Fences(lines) == {i \in 1..Len(lines) : lines[i] \in FenceLine}

Ends(lines, i) == {j \in Fences(lines) : j > i /\ lines[j] = "bare"}

End(lines, i) == CHOOSE j \in Ends(lines, i) : \A k \in Ends(lines, i) : j <= k

Opening(lines) ==
    CHOOSE S \in SUBSET Fences(lines) :
        \A i \in Fences(lines) :
            i \in S <=> \A k \in S : k < i => Ends(lines, k) # {} /\ End(lines, k) < i

Blocks(lines) ==
    {<<i, End(lines, i)>> : i \in {k \in Opening(lines) : Ends(lines, k) # {}}}

IsInstruction(lines, block) ==
    LET inside == {k \in (block[1] + 1)..(block[2] - 1) : lines[k] # "blank"}
    IN  lines[block[1]] = "tagged" \/ \E k \in inside : lines[k] = "label" /\ \A l \in inside : k <= l

Instructions(lines) == {b \in Blocks(lines) : IsInstruction(lines, b)}

(* The text of the instruction: the body, less a label at its head.        *)
IsTextOf(text, lines, block) ==
    LET body == SubSeq(lines, block[1] + 1, block[2] - 1)
    IN  text = StripLabel(body)

(* Without any fence: what follows the only label, if nothing precedes it. *)
IsTextAfterLabel(text, lines) ==
    /\ Fences(lines) = {}
    /\ \E k \in 1..Len(lines) :
          /\ \A i \in 1..Len(lines) : lines[i] = "label" <=> i = k
          /\ \A i \in 1..(k - 1) : lines[i] = "blank"
          /\ text = SubSeq(lines, k + 1, Len(lines))

(* A text is all that an answer instructs.                                 *)
IsTheInstruction(text, lines) ==
    \/ \E b \in Instructions(lines) : Instructions(lines) = {b} /\ IsTextOf(text, lines, b)
    \/ IsTextAfterLabel(text, lines)
=============================================================================
