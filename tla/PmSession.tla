----------------------------- MODULE PmSession -----------------------------
(***************************************************************************)
(* The adapter's session with a PM assistant whose buttons it finds by     *)
(* their pictures (gui/gui_automation.py with gui/asset_state_machine.py   *)
(* and gui/chatgpt_mac_response_capture.py): paste the clipboard, submit,  *)
(* wait, copy the answer.                                                  *)
(***************************************************************************)
EXTENDS Desktop, AssetDetection

CONSTANTS MaxTries,      \* max_action_attempts: of the paste
          MaxLooks,      \* max_state_machine_attempts: looks at an unknown state
          MaxClicks,     \* submit_after_paste_max_attempts
          MayOverwrite,  \* on_busy_timeout is overwrite, not abort
          Screens(_)     \* candidates the matching may find, by what the app shows

ASSUME TriesAssumption == /\ MaxTries \in Nat \ {0} /\ MaxLooks \in Nat \ {0}
                          /\ MaxClicks \in Nat \ {0} /\ MayOverwrite \in BOOLEAN

(* If the matching accepts any button, it is right about the one shown.    *)
ASSUME ScreensAssumption ==
    \A shown \in States : \A candidates \in Screens(shown) :
        \/ \A m \in Accepted(candidates) : m.kind = "plus"
        \/ MatchedBest(Accepted(candidates), shown)

(* An app that has taken a message shows no sign of it before it answers.  *)
Shown == CASE app.work = "running" -> "RUNNING"
           [] app.work # "running" /\ app.box = <<>> -> "IDLE"
           [] app.work # "running" /\ app.box # <<>> -> "COMPOSER_HAS_TEXT"

Detections == [shown \in States |-> {Detection(candidates) : candidates \in Screens(shown)}]

Seen == Detections[Shown]

(* The locals of the paste, which are gone when it returns.                *)
Forget(m) == [m EXCEPT !.tries = 1, !.looks = 1, !.state = "UNKNOWN", !.overwrite = FALSE,
                       !.located = FALSE, !.keep = FALSE]

(* One more attempt of the paste.  The composer is located once: a later   *)
(* attempt neither activates the app nor clicks nor selects again.         *)
Again == IF mind.tries < MaxTries
         THEN /\ pc' = IF mind.located THEN "set" ELSE "wait"
              /\ mind' = [mind EXCEPT !.tries = @ + 1, !.looks = 1, !.keep = FALSE]
              /\ UNCHANGED log
         ELSE Fail("gave_up") /\ UNCHANGED mind

-----------------------------------------------------------------------------
(* Paste.                                                                  *)
ReadPrompt ==
    /\ At("read") /\ job = "pm"
    /\ IF desk.clipboard = "empty"
       THEN Fail("prompt_empty") /\ UNCHANGED mind
       ELSE /\ Goto("wait")
            /\ mind' = [mind EXCEPT !.prompt = desk.clipboard]
            /\ UNCHANGED log
    /\ UNCHANGED <<job, desk, app>>

(* Text in the composer does not make the adapter wait, an app at work does*)
AwaitIdle ==
    /\ At("wait")
    /\ desk' = Activated
    /\ \/ Again
       \/ \E seen \in Seen :
          \/ /\ seen.state \in {"IDLE", "COMPOSER_HAS_TEXT"}
             /\ Goto("click")
             /\ mind' = [mind EXCEPT !.state = seen.state, !.overwrite = FALSE]
             /\ UNCHANGED log
          \/ seen.state = "RUNNING" /\ Goto("poll") /\ UNCHANGED <<mind, log>>
          \/ /\ seen.state = "UNKNOWN" /\ mind.looks < MaxLooks
             /\ mind' = [mind EXCEPT !.looks = @ + 1]
             /\ UNCHANGED <<pc, log>>
          \/ seen.state = "AMBIGUOUS" /\ Again
          \/ seen.state = "UNKNOWN" /\ mind.looks = MaxLooks /\ Again
    /\ UNCHANGED <<job, app>>

(* wait_for_visual_idle: only idle ends it, or the deadline.               *)
PollIdle ==
    /\ At("poll")
    /\ desk' = Activated
    /\ \E seen \in Seen :
          \/ seen.state = "AMBIGUOUS" /\ Again
          \/ /\ seen.state = "IDLE"
             /\ Goto("click")
             /\ mind' = [mind EXCEPT !.state = "IDLE", !.overwrite = FALSE]
             /\ UNCHANGED log
          \/ /\ seen.state \notin {"AMBIGUOUS", "IDLE"}
             /\ IF MayOverwrite /\ PlusFound(seen)
                THEN /\ Goto("click")
                     /\ mind' = [mind EXCEPT !.state = seen.state, !.overwrite = TRUE]
                     /\ UNCHANGED log
                ELSE Again
          \/ seen.state \notin {"AMBIGUOUS", "IDLE"} /\ UNCHANGED <<pc, mind, log>>
    /\ UNCHANGED <<job, app>>

ClickComposer ==
    /\ At("click")
    /\ \/ desk' = Activated /\ Again
       \/ Fail("click_unsafe") /\ UNCHANGED <<desk, mind>>
       \/ \E seen \in Seen :
             IF ~PlusFound(seen)
             THEN desk' = Activated /\ Again
             ELSE /\ desk' = [Activated EXCEPT !.selected = FALSE]
                  /\ mind' = [mind EXCEPT !.located = TRUE]
                  /\ Goto(CASE mind.overwrite -> "select"
                            [] ~mind.overwrite /\ mind.state = "COMPOSER_HAS_TEXT" -> "check"
                            [] ~mind.overwrite /\ mind.state = "IDLE" -> "set")
                  /\ UNCHANGED log
    /\ UNCHANGED <<job, app>>

SelectAll ==
    /\ At("select")
    /\ desk' = [desk EXCEPT !.selected = OnTarget /\ app.box # <<>>]
    /\ Goto("set")
    /\ UNCHANGED <<job, app, mind, log>>

(* Text that was there is copied back: by keys, by the accessibility value,*)
(* by the menu.  Copied from another app it is anything but the prompt.    *)
CopiedBack == {IF OnTarget THEN app.box ELSE <<"foreign">>} \ {<<>>}

VerifiedByLength(copied) == Len(copied) = 1     \* mutant: any one text

(* A stamp need only be found in the text, which may hold more.            *)
Verified(copied) == IF mind.stamped /\ mind.prompt = "prompt"
                    THEN mind.prompt \in Contents(copied)
                    ELSE copied = <<mind.prompt>>

(* A menu that fails leaves the sentinel on the clipboard.                 *)
CheckExisting ==
    /\ At("check")
    /\ \/ \E copied \in CopiedBack,
             chosen \in {OnTarget} \cup (IF app.box = <<>> THEN {} ELSE {desk.selected}) :
             /\ desk' = [desk EXCEPT !.clipboard = mind.prompt, !.selected = chosen]
             /\ \/ Goto(IF Verified(copied) THEN "set" ELSE "reselect") /\ UNCHANGED log
                \/ copied = <<"foreign">> /\ Fail("wrong_scope")
             /\ mind' = [mind EXCEPT !.keep = Verified(copied)]
       \/ /\ Fail("copyback")
          /\ \E text \in {mind.prompt, "sentinel"} : desk' = [desk EXCEPT !.clipboard = text]
          /\ UNCHANGED mind
    /\ UNCHANGED <<job, app>>

(* When the selection raises, the text is deleted, if that works.          *)
Reselect ==
    /\ At("reselect")
    /\ \/ /\ desk' = [desk EXCEPT !.selected = OnTarget /\ app.box # <<>>]
          /\ Goto("set")
          /\ UNCHANGED <<app, log>>
       \/ OnTarget /\ Fills(<<>>) /\ Goto("set")
       \/ ~OnTarget /\ Goto("set") /\ UNCHANGED <<desk, app, log>>
       \/ Fail("overwrite_failed") /\ UNCHANGED <<app, desk>>
    /\ UNCHANGED <<job, mind>>

SetClipboard ==
    /\ At("set")
    /\ \/ /\ desk' = [desk EXCEPT !.clipboard = mind.prompt]
          /\ Goto("readback")
          /\ UNCHANGED <<mind, log>>
       \/ Again /\ UNCHANGED desk
    /\ UNCHANGED <<job, app>>

VerifyClipboard ==
    /\ At("readback")
    /\ IF desk.clipboard # mind.prompt
       THEN Again
       ELSE /\ Goto(IF mind.keep THEN "submit" ELSE "paste")
            /\ mind' = IF mind.keep THEN Forget(mind) ELSE mind
            /\ UNCHANGED log
    /\ UNCHANGED <<job, desk, app>>

(* The first variant that does not raise ends the paste; what it has done  *)
(* is not looked at.                                                       *)
PasteVariant ==
    /\ At("paste")
    /\ \/ (PasteByKeys \/ PasteIntoTarget) /\ Goto("submit") /\ mind' = Forget(mind)
       \/ Again /\ UNCHANGED <<desk, app>>
    /\ UNCHANGED job

-----------------------------------------------------------------------------
(* Submit.                                                                 *)
CheckPasted ==
    /\ At("submit")
    /\ IF desk.clipboard = "empty"
       THEN Fail("blocked")
       ELSE Goto("seek") /\ UNCHANGED log
    /\ UNCHANGED <<job, desk, app, mind>>

SeekSend ==
    /\ At("seek")
    /\ desk' = Activated
    /\ \E seen \in Seen :
          \/ /\ ~SendFound(seen)
             /\ IF mind.tries < MaxClicks
                THEN /\ mind' = [mind EXCEPT !.tries = @ + 1]
                     /\ UNCHANGED <<pc, log>>
                ELSE Fail("no_send") /\ UNCHANGED mind
          \/ SendFound(seen) /\ Fail("click_unsafe") /\ UNCHANGED mind
          \/ /\ SendFound(seen)
             /\ mind' = [mind EXCEPT !.screen = seen.state]
             /\ Goto("press") /\ UNCHANGED log
    /\ UNCHANGED <<job, app>>

(* Send and stop are at one place: the click does what is there by now.    *)
PressSend ==
    /\ At("press")
    /\ \/ OnTarget /\ Takes("bridge")
       \/ /\ OnTarget /\ app.work = "running"
          /\ app' = [app EXCEPT !.work = "idle", !.answer = "partial"]
          /\ log' = [log EXCEPT !.stopped = mind.screen]
          /\ UNCHANGED desk
       \/ ~(OnTarget /\ (CanAsk \/ app.work = "running")) /\ UNCHANGED <<desk, app, log>>
    /\ Goto("reflect")
    /\ UNCHANGED <<job, mind>>

Reflect ==
    /\ At("reflect")
    /\ desk' = Activated
    /\ \/ \E seen \in Seen : /\ Reflected(seen)
                             /\ mind' = [mind EXCEPT !.screen = seen.state]
                             /\ Goto("await_running") /\ UNCHANGED log
       \/ /\ mind.tries < MaxClicks
          /\ mind' = [mind EXCEPT !.tries = @ + 1]
          /\ Goto("seek") /\ UNCHANGED log
       \/ mind.tries = MaxClicks /\ Fail("not_reflected") /\ UNCHANGED mind
    /\ UNCHANGED <<job, app>>

-----------------------------------------------------------------------------
(* Wait for the answer and copy it.                                        *)
AwaitRunning ==
    /\ At("await_running")
    /\ desk' = Activated
    /\ \/ Goto("await_idle")       \* RUNNING is seen, or the time is over
       \/ UNCHANGED pc
    /\ UNCHANGED <<job, app, mind, log>>

AwaitAnswer ==
    /\ At("await_idle")
    /\ desk' = Activated
    /\ \/ /\ \E seen \in Seen : seen.state = "IDLE"
          /\ Goto("find")
          /\ log' = [log EXCEPT !.early = app.answer # "new"]
       \/ Fail("no_answer")
       \/ UNCHANGED <<pc, log>>
    /\ UNCHANGED <<job, app, mind>>

(* The best match of the copy button may be that of an older answer.       *)
FindCopyButton ==
    /\ At("find")
    /\ \/ /\ \E button \in {app.answer, "old"} :
                mind' = [mind EXCEPT !.button = button, !.before = desk.clipboard]
          /\ desk' = [Activated EXCEPT !.clipboard = "sentinel"]
          /\ Goto("press_copy") /\ UNCHANGED log
       \/ desk' = Activated /\ Fail("no_button") /\ UNCHANGED mind
    /\ UNCHANGED <<job, app>>

PressCopy ==
    /\ At("press_copy")
    /\ \/ Fail("copy_click") /\ UNCHANGED desk
       \/ /\ desk' = IF OnTarget THEN [desk EXCEPT !.clipboard = mind.button] ELSE desk
          /\ Goto("take") /\ UNCHANGED log
       \/ UNCHANGED desk /\ Goto("take") /\ UNCHANGED log
    /\ UNCHANGED <<job, app, mind>>

(* Mutants: whatever is on the clipboard is taken; the sentinel is left.   *)
TakeAnything == At("take") /\ Goto("reread") /\ UNCHANGED <<job, desk, app, mind, log>>
TakeLeaving ==
    /\ At("take")
    /\ \/ desk.clipboard \in {"sentinel", "empty"} /\ Fail("not_copied")
       \/ desk.clipboard \notin Marked \cup {"sentinel", "empty"} /\ Fail("no_marker")
       \/ desk.clipboard \in Marked /\ Goto("reread") /\ UNCHANGED log
    /\ UNCHANGED <<job, desk, app, mind>>

(* The clipboard that was there is restored, if it can be written; when it *)
(* cannot be read nobody restores it.                                      *)
TakeResponse ==
    /\ At("take")
    /\ \/ /\ desk.clipboard \in {"sentinel", "empty"}
          /\ desk' = [desk EXCEPT !.clipboard = mind.before]
          /\ Fail("not_copied")
       \/ desk.clipboard \in {"sentinel", "empty"} /\ Fail("not_restored") /\ UNCHANGED desk
       \/ Fail("not_read") /\ UNCHANGED desk
       \/ /\ desk.clipboard \notin Marked \cup {"sentinel", "empty"}
          /\ Fail("no_marker") /\ UNCHANGED desk
       \/ desk.clipboard \in Marked /\ Goto("reread") /\ UNCHANGED <<desk, log>>
    /\ UNCHANGED <<job, app, mind>>

(* copy_response_text returns what the clipboard holds when it reads again.*)
RereadResponse ==
    /\ At("reread")
    /\ IF desk.clipboard = "empty"
       THEN Fail("reply_empty") /\ UNCHANGED mind
       ELSE /\ Goto("done")
            /\ mind' = [mind EXCEPT !.reply = desk.clipboard]
            /\ UNCHANGED log
    /\ UNCHANGED <<job, desk, app>>

(* The calls whose failure nothing in the session catches.                 *)
PmRaise == /\ pc \in {"wait", "select", "seek", "await_running", "await_idle", "find"}
           /\ Fail("raised")
           /\ UNCHANGED <<job, desk, app, mind>>

PmNext ==
    \/ ReadPrompt \/ AwaitIdle \/ PollIdle \/ ClickComposer \/ SelectAll \/ CheckExisting
    \/ Reselect \/ SetClipboard \/ VerifyClipboard \/ PasteVariant \/ CheckPasted \/ SeekSend
    \/ PressSend \/ Reflect \/ AwaitRunning \/ AwaitAnswer \/ FindCopyButton \/ PressCopy
    \/ TakeResponse \/ RereadResponse \/ PmRaise
=============================================================================
