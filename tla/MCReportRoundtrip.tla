------------------------- MODULE MCReportRoundtrip -------------------------
(***************************************************************************)
(* Instances of ReportRoundtrip: an answer whose instruction may end in a  *)
(* report artifact, labelled in its block, and one whose instruction is    *)
(* blocked, tagged by its fence and after a block that instructs nothing.  *)
(***************************************************************************)
EXTENDS ReportRoundtrip

MCAnswers == {<<"bare", "label", "noop", "bare">>,
              <<"named", "text", "bare", "tagged", "hot", "bare">>}

MCReports == {<<"success">>, <<"hot">>}

(* The scan and the definition without one agree on every short answer.    *)
Short == BoundedSeq({"tagged", "named", "bare", "label", "blank", "plain"}, 5)

ASSUME ExtractionAgrees ==
    \A lines \in Short :
        LET fenced == FencedMatches(lines)
        IN  /\ Len(fenced) = Cardinality(Instructions(lines))
            /\ \A b \in Instructions(lines) :
                  \E k \in 1..Len(fenced) : IsTextOf(fenced[k], lines, b)
=============================================================================
