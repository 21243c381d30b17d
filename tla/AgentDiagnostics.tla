-------------------------- MODULE AgentDiagnostics --------------------------
(***************************************************************************)
(* The live diagnostics of the local agent's composer                      *)
(* (diagnose-codex-input-target in cli.py, gui/codex_ui_detector.py).      *)
(* The paste test puts a marker into the composer in up to five ways and   *)
(* clears it again; the focus test types one letter at each candidate      *)
(* point, looks for it and takes it back.  Neither may submit.             *)
(***************************************************************************)
EXTENDS Desktop

CONSTANTS BusyActions,     \* what the configured policies do on a busy timeout
          Variants,        \* the ways to paste, four of them by keys
          MaxCandidates    \* points the focus test tries

ASSUME DiagnosticsAssumption == /\ BusyActions \subseteq {"overwrite", "abort"}
                                /\ Variants \in Seq({"keys", "typewrite"}) /\ Variants # <<>>
                                /\ MaxCandidates \in Nat \ {0}

TestActivate ==
    /\ At("read") /\ job \in {"test", "focus"}
    /\ \/ desk' = Activated /\ Goto(job) /\ UNCHANGED log
       \/ Fail("not_frontmost") /\ UNCHANGED desk
    /\ UNCHANGED <<job, app, mind>>

(* A click lands on the target's window, which may bring it to the front.  *)
Clicked == {[desk EXCEPT !.selected = FALSE, !.front = front] : front \in {desk.front, "app"}}

(* What the recognition of the composer's band finds, if it works at all:  *)
(* the marker, a part of it, or nothing.                                   *)
Sight == {"unknown"} \cup
    CASE "marker" \in Contents(app.box) -> {"found", "partial"}
      [] Contents(app.box) \cap {"marker", "bit"} = {"bit"} -> {"partial"}
      [] OTHER -> {"no"}

(* Backspace takes the selection or the last character.                    *)
Shortened(box) ==
    CASE desk.selected \/ box = <<>> -> <<>>
      [] ~desk.selected /\ box # <<>> /\ job = "test" /\ box[Len(box)] = "marker" ->
            [box EXCEPT ![Len(box)] = "bit"]
      [] OTHER -> SubSeq(box, 1, Len(box) - 1)

Strays(what) == /\ ~OnTarget
                /\ log' = [log EXCEPT !.stray = @ \cup {what}]
                /\ UNCHANGED <<desk, app>>

Reports(told, reason) == /\ pc' = "done"
                         /\ mind' = [mind EXCEPT !.told = told]
                         /\ log' = [log EXCEPT !.reason = reason]

-----------------------------------------------------------------------------
(* The paste test.  Activation by name may fail unnoticed.                 *)
Proceeds(action) == action = "overwrite"

TestReady ==
    /\ At("test")
    /\ desk' \in {desk, Activated}
    /\ \/ app.box = <<>> /\ Goto("look") /\ UNCHANGED <<mind, log>>
       \/ UNCHANGED <<pc, mind, log>>
       \/ \E action \in BusyActions :
             /\ Proceeds(action)
             /\ Goto("look")
             /\ mind' = [mind EXCEPT !.overwrite = action = "overwrite"]
             /\ UNCHANGED log
       \/ Fail("busy") /\ UNCHANGED mind
    /\ UNCHANGED <<job, app>>

(* Whether the app was frontmost is noted and not asked for.               *)
TestClick ==
    /\ At("look")
    /\ \/ /\ desk' \in Clicked
          /\ \E keys \in BOOLEAN : /\ mind' = [mind EXCEPT !.keys = keys]
                                   /\ Goto(IF keys THEN "variant" ELSE "copy")
          /\ UNCHANGED log
       \/ Fail("no_anchor") /\ UNCHANGED <<desk, mind>>
    /\ UNCHANGED <<job, app>>

(* After the last variant: without a single look at the composer the test  *)
(* ends with the error.                                                    *)
EndOfVariants(m) ==
    /\ mind' = m
    /\ IF m.sighted = "none" THEN Fail("paste_failed") ELSE Goto("snapshot") /\ UNCHANGED log

NextVariant(m) ==
    \/ m.tries < Len(Variants) /\ Goto("variant") /\ mind' = [m EXCEPT !.tries = @ + 1]
                               /\ UNCHANGED log
    \/ m.tries = Len(Variants) /\ EndOfVariants(m)

VariantClick ==
    /\ At("variant")
    /\ \/ desk' \in Clicked /\ Goto("copy") /\ UNCHANGED <<mind, log>>
       \/ EndOfVariants(mind) /\ UNCHANGED desk
    /\ UNCHANGED <<job, app>>

TestCopy ==
    /\ At("copy")
    /\ \/ desk' = [desk EXCEPT !.clipboard = "marker"] /\ Goto("test_paste") /\ UNCHANGED log
       \/ Fail("set_failed") /\ UNCHANGED desk
    /\ UNCHANGED <<job, app, mind>>

(* A chord whose modifier is lost types its letter; typing may break off.  *)
TestPaste ==
    /\ At("test_paste")
    /\ \/ PasteByKeys /\ ~(mind.keys /\ Variants[mind.tries] = "typewrite")
       \/ mind.keys /\ OnTarget
            /\ Fills(Typed(app.box, IF Variants[mind.tries] = "typewrite" THEN "marker" ELSE "bit"))
       \/ mind.keys /\ Strays("marker")
       \/ UNCHANGED <<desk, app, log>>
    /\ Goto("detect")
    /\ UNCHANGED <<job, mind>>

TestPasteRaises ==
    /\ At("test_paste")
    /\ IF mind.keys THEN NextVariant(mind) ELSE Fail("paste_failed") /\ UNCHANGED mind
    /\ \/ UNCHANGED <<desk, app>>
       \/ /\ mind.keys /\ Variants[mind.tries] = "typewrite" /\ OnTarget
          /\ app' = [app EXCEPT !.box = Typed(@, "bit")]
          /\ desk' = [desk EXCEPT !.selected = FALSE]
    /\ UNCHANGED job

TestDetect ==
    /\ At("detect")
    /\ \E sight \in Sight :
          LET m == [mind EXCEPT !.sighted = IF sight = "partial" THEN "no" ELSE sight]
          IN  \/ /\ ~mind.keys \/ sight = "found"
                 /\ Goto("snapshot") /\ mind' = m /\ UNCHANGED log
              \/ mind.keys /\ sight = "partial" /\ Goto("sweep") /\ mind' = m /\ UNCHANGED log
              \/ mind.keys /\ sight \in {"no", "unknown"} /\ NextVariant(m)
    /\ UNCHANGED <<job, desk, app>>

(* _clear_focused_text: select all and delete, by keys to whatever app is  *)
(* in front; after a variant, where only its own errors count, ...         *)
ClearSelect ==
    /\ pc \in {"sweep", "clean"}
    /\ \/ /\ desk' = [desk EXCEPT !.selected = IF OnTarget THEN app.box # <<>> ELSE @]
          /\ Goto(IF At("sweep") THEN "sweep_delete" ELSE "clean_delete")
          /\ UNCHANGED <<mind, log>>
       \/ UNCHANGED desk /\ At("sweep") /\ NextVariant([mind EXCEPT !.cleaned = "failed"])
       \/ UNCHANGED desk /\ At("clean") /\ Reports(TRUE, "clear_failed")
    /\ UNCHANGED <<job, app>>

Sweep ==
    /\ At("sweep_delete")
    /\ \/ /\ OnTarget
          /\ Fills(Shortened(app.box)) /\ Goto("swept")
       \/ Strays("clear") /\ Goto("swept")
       \/ Goto("sweep_failed") /\ UNCHANGED <<desk, app, log>>
    /\ UNCHANGED <<job, mind>>

Swept ==
    /\ pc \in {"swept", "sweep_failed"}
    /\ NextVariant([mind EXCEPT !.cleaned = IF At("swept") THEN "done" ELSE "failed"])
    /\ UNCHANGED <<job, desk, app>>

(* ... and at the end, where the composer's text is read again.  A cleanup *)
(* after a variant counts as the cleanup of the test.                      *)
Detected(text) == mind.sighted = "found" \/ (mind.sighted = "unknown" /\ "marker" \in text)

TestSnapshot ==
    /\ At("snapshot")
    /\ \E readable \in BOOLEAN :
          LET text == IF readable THEN Contents(app.box) ELSE {}
          IN  IF Detected(text) /\ "marker" \in text /\ mind.cleaned = "no"
              THEN Goto("clean") /\ UNCHANGED <<mind, log>>
              ELSE Reports(mind.cleaned # "done", IF mind.cleaned = "done" THEN "swept" ELSE "none")
    /\ UNCHANGED <<job, desk, app>>

Clean ==
    /\ At("clean_delete")
    /\ \/ OnTarget /\ Fills(Shortened(app.box)) /\ Goto("verify") /\ UNCHANGED mind
       \/ Strays("clear") /\ Goto("verify") /\ UNCHANGED mind
       \/ UNCHANGED <<desk, app>> /\ Reports(TRUE, "clear_failed")
    /\ UNCHANGED job

(* Mutant: the keys have worked if they did not raise.                     *)
VerifyNothing == /\ At("verify")
                 /\ Reports(FALSE, "gone")
                 /\ UNCHANGED <<job, desk, app>>

(* A text that cannot be read counts as cleaned.                           *)
TestVerify ==
    /\ At("verify")
    /\ \/ Reports("marker" \in Contents(app.box), "gone")
       \/ Reports(FALSE, "unreadable")
    /\ UNCHANGED <<job, desk, app>>

-----------------------------------------------------------------------------
(* The focus test.                                                         *)
FocusStart ==
    /\ At("focus")
    /\ \/ desk' = Activated /\ Goto("point") /\ UNCHANGED log
       \/ Fail("no_window") /\ UNCHANGED desk
    /\ UNCHANGED <<job, app, mind>>

NextCandidate ==
    \/ /\ mind.tries < MaxCandidates
       /\ mind' = [mind EXCEPT !.tries = @ + 1]
       /\ Goto("point")
    \/ mind.tries = MaxCandidates /\ Goto("done") /\ UNCHANGED mind

(* A candidate is passed over as unsafe or when its click fails; a click   *)
(* that works may miss the composer.                                       *)
FocusClick ==
    /\ At("point")
    /\ \/ NextCandidate /\ UNCHANGED desk
       \/ /\ \E clicked \in Clicked, aimed \in BOOLEAN :
                desk' = [clicked EXCEPT !.aimed = aimed]
          /\ Goto("type") /\ UNCHANGED mind
    /\ UNCHANGED <<job, app, log>>

Letter == \/ OnTarget /\ desk.aimed /\ Fills(Typed(app.box, "marker"))
          \/ OnTarget /\ ~desk.aimed /\ UNCHANGED <<desk, app, log>>
          \/ Strays("marker")

FocusType == At("type") /\ Letter /\ Goto("see") /\ UNCHANGED <<job, mind>>

(* The write raises before or after the letter, which nobody takes back.   *)
FocusTypeRaises ==
    /\ At("type")
    /\ \/ UNCHANGED <<desk, app, log>>
       \/ /\ OnTarget /\ desk.aimed
          /\ app' = [app EXCEPT !.box = Typed(@, "marker")]
          /\ desk' = [desk EXCEPT !.selected = FALSE]
          /\ log' = [log EXCEPT !.reason = "write_raised"]
    /\ NextCandidate
    /\ UNCHANGED job

(* A single letter has no parts, and another text may contain it.          *)
LetterSight == {"unknown"} \cup
    CASE "marker" \in Contents(app.box) -> {"found"}
      [] "marker" \notin Contents(app.box) /\ app.box # <<>> -> {"found", "no"}
      [] app.box = <<>> -> {"no"}

FocusSee ==
    /\ At("see")
    /\ \E sight \in LetterSight :
          mind' = [mind EXCEPT !.chosen = IF sight = "found" /\ @ = "none"
                                          THEN IF desk.aimed THEN "on" ELSE "off"
                                          ELSE @]
    /\ Goto("erase")
    /\ UNCHANGED <<job, desk, app, log>>

Erased(box) == Shortened(box)

FocusErase ==
    /\ At("erase")
    /\ \/ OnTarget /\ desk.aimed /\ Fills(Erased(app.box)) /\ Goto("check_erased") /\ UNCHANGED mind
       \/ OnTarget /\ ~desk.aimed /\ Goto("check_erased") /\ UNCHANGED <<desk, app, mind, log>>
       \/ Strays("clear") /\ Goto("check_erased") /\ UNCHANGED mind
       \/ Reports(TRUE, log.reason) /\ UNCHANGED <<desk, app>>
    /\ UNCHANGED job

(* Mutant: only a letter that is seen ends the test.                       *)
StopsOnSight(sight) == sight = "found"
Stops(sight) == sight # "no"

FocusCheck ==
    /\ At("check_erased")
    /\ \E sight \in LetterSight :
          IF Stops(sight) THEN Reports(TRUE, log.reason) ELSE NextCandidate /\ UNCHANGED log
    /\ UNCHANGED <<job, desk, app>>

DiagnosticsNext ==
    \/ TestActivate \/ TestReady \/ TestClick \/ VariantClick \/ TestCopy \/ TestPaste
    \/ TestPasteRaises \/ TestDetect \/ ClearSelect \/ Sweep \/ Swept \/ TestSnapshot \/ Clean
    \/ TestVerify \/ FocusStart \/ FocusClick \/ FocusType \/ FocusTypeRaises \/ FocusSee
    \/ FocusErase \/ FocusCheck
=============================================================================
