--------------------------- MODULE MCGuiSessions ---------------------------
(***************************************************************************)
(* An instance of GuiSessions.  What the matching finds: nothing, or the   *)
(* button that is shown, with or without the plus button, with or without  *)
(* a lookalike that scores as high or less.                                *)
(***************************************************************************)
EXTENDS GuiSessions

Match(kind, score, shade) ==
    [kind |-> kind, score |-> score, confidence |-> score, identity |-> TRUE,
     shade |-> shade, place |-> IF kind = "plus" THEN "left" ELSE "right"]

Plus == Match("plus", 9, -1)

Button == [IDLE |-> "send_disabled", COMPOSER_HAS_TEXT |-> "send", RUNNING |-> "stop"]

(* Lookalikes: colours that tell or do not, or a score that is far lower.  *)
Lookalikes(state) == UNION {{Match(Button[s], 9, -1), Match(Button[s], 9, 8),
                             Match(Button[s], 6, -1)} : s \in States \ {state}}

MCScreens(state) ==
    LET own == Match(Button[state], 9, 2)
    IN  {{}, {Plus}, {own}, {own, Plus}} \cup {{own, Plus, m} : m \in Lookalikes(state)}

MCVariants == <<"keys", "keys", "typewrite">>
=============================================================================
