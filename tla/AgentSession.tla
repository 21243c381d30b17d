---------------------------- MODULE AgentSession ----------------------------
(***************************************************************************)
(* The adapter's session with the local agent: paste the staged prompt,    *)
(* press Enter, look for evidence (gui/gui_automation.py with              *)
(* gui/codex_ui_detector.py), in the order gui/report_roundtrip.py calls   *)
(* it.                                                                     *)
(***************************************************************************)
EXTENDS Desktop

CONSTANT MaxPastes     \* max_action_attempts

ASSUME PastesAssumption == MaxPastes \in Nat \ {0}

AgentRead == /\ At("read") /\ job = "agent"
             /\ IF desk.clipboard = "empty"
                THEN Fail("prompt_empty") /\ UNCHANGED mind
                ELSE /\ Goto("agent_activate")
                     /\ mind' = [mind EXCEPT !.prompt = desk.clipboard]
                     /\ UNCHANGED log
             /\ UNCHANGED <<job, desk, app>>

(* Activation waits until the app is frontmost, or raises.  The state it   *)
(* looks for then goes to the log only.                                    *)
AgentActivate == /\ At("agent_activate")
                 /\ \/ desk' = Activated /\ Goto("agent_click") /\ UNCHANGED log
                    \/ Fail("not_frontmost") /\ UNCHANGED desk
                 /\ UNCHANGED <<job, app, mind>>

(* The composer is found by its plus button or its role, and clicked.      *)
AgentClick == /\ At("agent_click")
              /\ \/ /\ desk' = [desk EXCEPT !.selected = FALSE]
                    /\ Goto("agent_set")
                    /\ UNCHANGED <<mind, log>>
                 \/ /\ mind.tries < MaxPastes
                    /\ mind' = [mind EXCEPT !.tries = @ + 1]
                    /\ Goto("agent_activate")
                    /\ UNCHANGED <<desk, log>>
                 \/ /\ mind.tries = MaxPastes
                    /\ Fail("click_failed")
                    /\ UNCHANGED <<desk, mind>>
              /\ UNCHANGED <<job, app>>

AgentSet == /\ At("agent_set")
            /\ \/ /\ desk' = [desk EXCEPT !.clipboard = mind.prompt]
                  /\ Goto("agent_readback") /\ UNCHANGED log
               \/ Fail("set_failed") /\ UNCHANGED desk
            /\ UNCHANGED <<job, app, mind>>

AgentReadback == /\ At("agent_readback")
                 /\ IF desk.clipboard = mind.prompt
                    THEN Goto("agent_paste") /\ UNCHANGED log
                    ELSE Fail("readback_mismatch")
                 /\ UNCHANGED <<job, desk, app, mind>>

(* Unlike the PM session it does not ask what is in the composer.          *)
AgentPaste == /\ At("agent_paste")
              /\ \/ (PasteByKeys \/ PasteIntoTarget) /\ Goto("agent_inspect")
                 \/ Fail("paste_failed") /\ UNCHANGED <<desk, app>>
              /\ UNCHANGED <<job, mind>>

-----------------------------------------------------------------------------
(* Every staged command begins with the template of the wrapper, which is  *)
(* longer than the 120 characters compared: an earlier command looks like  *)
(* this one.  None stands for an accessibility tree that cannot be read.   *)
LooksLikePrompt(text) == "prompt" \in text

FocusedText == {Contents(app.box)} \cup (IF log.user = {} THEN {} ELSE {{}})

AgentInspect ==
    /\ At("agent_inspect")
    /\ \E text \in FocusedText, readable \in BOOLEAN :
          mind' = [mind EXCEPT !.tries = 1, !.keep = readable /\ LooksLikePrompt(text)]
    /\ Goto("agent_enter")
    /\ UNCHANGED <<job, desk, app, log>>

(* Enter goes to the frontmost app, which is not asked for.                *)
AgentEnter ==
    /\ At("agent_enter")
    /\ \/ OnTarget /\ Takes("bridge")
       \/ OnTarget /\ ~CanAsk /\ UNCHANGED <<desk, app, log>>
       \/ /\ ~OnTarget
          /\ log' = [log EXCEPT !.stray = @ \cup {"enter"}]
          /\ UNCHANGED <<desk, app>>
    /\ Goto("agent_confirm")
    /\ UNCHANGED <<job, mind>>

Cleared(text) == mind.keep /\ ~LooksLikePrompt(text)
NewUserMessage(shown) == shown /\ app.shows # {}

(* The first reason that applies; the snapshot need not show the messages. *)
(* A running state is a word, "stop" or "working" or the like, anywhere in *)
(* the snapshot: on the button of an app at work, but also in what is left *)
(* in the composer, in any message and on any label.                       *)
Reason(text, shown, worded) ==
    CASE Cleared(text) -> "input_cleared"
      [] ~Cleared(text) /\ NewUserMessage(shown) -> "new_user_message"
      [] ~Cleared(text) /\ ~NewUserMessage(shown) /\ worded -> "running_state"
      [] OTHER -> "not_detectable"

AgentConfirm ==
    /\ At("agent_confirm")
    /\ \E text \in FocusedText, shown, worded \in BOOLEAN :
          LET reason == Reason(text, shown, worded)
          IN  /\ Goto(IF reason = "not_detectable" THEN "failed" ELSE "done")
              /\ log' = [log EXCEPT !.reason = reason]
    /\ UNCHANGED <<job, desk, app, mind>>

AgentNext == \/ AgentRead \/ AgentActivate \/ AgentClick \/ AgentSet \/ AgentReadback
             \/ AgentPaste \/ AgentInspect \/ AgentEnter \/ AgentConfirm
=============================================================================
