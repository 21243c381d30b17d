--------------------------- MODULE AssetDetection ---------------------------
(***************************************************************************)
(* From the template matches in a screenshot to the state of an app        *)
(* (gui/asset_state_machine.py) and to what the adapter does with it       *)
(* (gui/gui_automation.py).  A match is a record: which button, how well   *)
(* (score), the plain correlation (confidence), whether edges and glyph    *)
(* agree (identity), how far the colours are off (shade), and where.       *)
(***************************************************************************)
EXTENDS Integers, FiniteSets

CONSTANTS Threshold,     \* of the score of an accepted match
          Margin,        \* scores no further apart are ambiguous
          ShadeMargin    \* shades at least this far apart tell send from send_disabled

ASSUME MarginsAssumption ==
    Threshold \in Nat /\ Margin \in Nat /\ ShadeMargin \in Nat

StateOf == [plus |-> "none", send_disabled |-> "IDLE", send |-> "COMPOSER_HAS_TEXT",
            stop |-> "RUNNING"]
States == {"IDLE", "COMPOSER_HAS_TEXT", "RUNNING"}

(* The plus button needs no identity: it is an anchor, not a state.        *)
Accepted(candidates) ==
    {m \in candidates : m.score >= Threshold /\ (m.kind = "plus" \/ m.identity)}

OfState(matches, state) == {m \in matches : StateOf[m.kind] = state}

(* What an accepted match says is what the screen shows: the button shown  *)
(* is matched, none scores higher, of two lookalikes of different states   *)
(* one scores less, and the colours are nearer to those of the button.     *)
MatchedBest(matches, shown) == \E own \in OfState(matches, shown) :
    /\ \A m \in matches : /\ m.kind \in DOMAIN StateOf /\ m.score \in Nat /\ m.shade \in Int
                          /\ m.kind # "plus" => m.score <= own.score
    /\ \A m, n \in matches : {StateOf[m.kind], StateOf[n.kind]} = States \ {shown} =>
          m.score < own.score \/ n.score < own.score
    /\ \A m \in OfState(matches, shown), n \in matches :
          StateOf[n.kind] \notin {"none", shown} /\ m.shade >= 0 /\ n.shade >= 0 =>
              m.shade < n.shade

Best(matches) == CHOOSE m \in matches : \A n \in matches : n.score <= m.score

BestByState(matches) ==
    {Best(OfState(matches, s)) : s \in {t \in States : OfState(matches, t) # {}}}

Gap(a, b) == IF a < b THEN b - a ELSE a - b

(* Send and send_disabled have one shape: at the same place the colours    *)
(* decide, when they are known and far enough apart.                       *)
TellsByShade(first, second) ==
    /\ {StateOf[first.kind], StateOf[second.kind]} = {"IDLE", "COMPOSER_HAS_TEXT"}
    /\ first.shade >= 0 /\ second.shade >= 0
    /\ first.place = second.place
    /\ Gap(first.shade, second.shade) >= ShadeMargin

Selected(matches) ==
    LET ranked == BestByState(matches)
        top == Best(ranked)
        second == Best(ranked \ {top})
    IN  CASE ranked = {} -> "UNKNOWN"
          [] Cardinality(ranked) = 1 -> StateOf[top.kind]
          [] Cardinality(ranked) > 1 /\ top.score - second.score > Margin -> StateOf[top.kind]
          [] Cardinality(ranked) > 1 /\ top.score - second.score <= Margin ->
                IF TellsByShade(top, second)
                THEN StateOf[IF top.shade < second.shade THEN top.kind ELSE second.kind]
                ELSE "AMBIGUOUS"

(* Mutant: the matches of other states stay.                               *)
SurvivingAll(matches, state) == matches

(* A selected state rejects the matches of the others.                     *)
Surviving(matches, state) ==
    IF state \in States
    THEN {m \in matches : StateOf[m.kind] \in {"none", state}}
    ELSE matches

(* A screenshot that could not be taken or matched is no match at all.     *)
Detection(candidates) ==
    LET matches == Accepted(candidates)
        state == Selected(matches)
    IN  [state |-> state, matches |-> Surviving(matches, state)]

OfKind(detection, kind) == {m \in detection.matches : m.kind = kind}

PlusFound(detection) == OfKind(detection, "plus") # {}

(* The submit-ready check finds that a stop button dominates or that the   *)
(* screen is ambiguous, but the submit loop clicks wherever send was found.*)
SendFound(detection) == OfKind(detection, "send") # {}
StopFound(detection) == OfKind(detection, "stop") # {}

(* Mutant: the send button counts as evidence.                             *)
ReflectedBySend(detection) == detection.state = "RUNNING" \/ SendFound(detection)

(* What counts as evidence that the click has submitted the prompt.        *)
Reflected(detection) == \/ detection.state = "RUNNING"
                        \/ StopFound(detection)
                        \/ ~SendFound(detection)
=============================================================================
