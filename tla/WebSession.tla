----------------------------- MODULE WebSession -----------------------------
(***************************************************************************)
(* The adapter's session with a PM assistant in the browser, which it asks *)
(* and drives by scripts in the page (gui/chatgpt_state_machine.py, called *)
(* from gui/gui_automation.py).  A script is atomic, and does not depend   *)
(* on the frontmost app.                                                   *)
(***************************************************************************)
EXTENDS Desktop

Streaming == app.work = "running"
SendReady == app.box # <<>> /\ ~Streaming
IdleEmpty == app.box = <<>> /\ ~Streaming

(* A script fails, or the deadline of a wait is over.                      *)
WebRaise == /\ pc \in {"web_empty", "web_insert", "web_ready", "web_press", "web_answer"}
            /\ Fail("raised")
            /\ UNCHANGED <<job, desk, app, mind>>

(* The prompt is read before the wait, which may take ten minutes.         *)
WebRead == /\ At("read") /\ job = "web"
           /\ Goto("web_empty")
           /\ mind' = [mind EXCEPT !.prompt = desk.clipboard]
           /\ UNCHANGED <<job, desk, app, log>>

(* Mutant: only the answer is waited for.                                  *)
WebAwaitStreamed == /\ At("web_empty") /\ ~Streaming
                    /\ Goto("web_insert")
                    /\ UNCHANGED <<job, desk, app, mind, log>>

WebAwaitEmpty == /\ At("web_empty") /\ IdleEmpty
                 /\ Goto("web_insert")
                 /\ UNCHANGED <<job, desk, app, mind, log>>

(* The script replaces what is in the composer and reads it back.          *)
WebInsert == /\ At("web_insert")
             /\ IF mind.prompt = "empty"
                THEN Fail("prompt_empty") /\ UNCHANGED <<desk, app>>
                ELSE Fills(<<mind.prompt>>) /\ Goto("web_ready")
             /\ UNCHANGED <<job, mind>>

WebAwaitReady == /\ At("web_ready") /\ SendReady
                 /\ Goto("web_press")
                 /\ UNCHANGED <<job, desk, app, mind, log>>

(* Without a send button by now the script clicks nothing.                 *)
WebPress == /\ At("web_press")
            /\ \/ ~SendReady /\ Fail("no_button") /\ UNCHANGED <<desk, app>>
               \/ SendReady /\ Takes("bridge") /\ Goto("web_answer")
               \/ SendReady /\ ~CanAsk /\ Goto("web_answer") /\ UNCHANGED <<desk, app, log>>
            /\ UNCHANGED <<job, mind>>

(* Ready is a page that does not stream and has any copy button at all.    *)
WebAwaitAnswer == /\ At("web_answer") /\ ~Streaming
                  /\ Goto("web_copy")
                  /\ mind' = [mind EXCEPT !.tries = 1]
                  /\ log' = [log EXCEPT !.early = app.answer # "new"]
                  /\ UNCHANGED <<job, desk, app>>

(* The strategies in their order; the owner's three selectors are one.     *)
Strategies == <<"latest", "owner", "generic", "text">>

(* What a strategy may leave on the clipboard.  The page writes it when it *)
(* gets to it; the generic copy takes what the frontmost app has selected. *)
Leaves(strategy) ==
    CASE strategy = "latest" -> {desk.clipboard, app.answer}
      [] strategy = "owner" -> {desk.clipboard, app.answer, "old"}
      [] strategy = "generic" -> {desk.clipboard, IF OnTarget THEN app.answer ELSE "foreign"}
      [] strategy = "text" -> {desk.clipboard, app.answer}

WebCopy == /\ At("web_copy")
           /\ mind' = [mind EXCEPT !.before = desk.clipboard]
           /\ \E text \in Leaves(Strategies[mind.tries]) : desk' = [desk EXCEPT !.clipboard = text]
           /\ Goto("web_taken")
           /\ UNCHANGED <<job, app, log>>

(* A copy counts when the clipboard changed to a text with the marker.     *)
WebTaken ==
    /\ At("web_taken")
    /\ \/ /\ desk.clipboard # mind.before /\ desk.clipboard \in Marked
          /\ Goto("done")
          /\ mind' = [mind EXCEPT !.reply = desk.clipboard]
          /\ UNCHANGED log
       \/ /\ desk.clipboard = mind.before \/ desk.clipboard \notin Marked
          /\ IF mind.tries < Len(Strategies)
             THEN /\ Goto("web_copy")
                  /\ mind' = [mind EXCEPT !.tries = @ + 1]
                  /\ UNCHANGED log
             ELSE Fail("not_copied") /\ UNCHANGED mind
    /\ UNCHANGED <<job, desk, app>>

WebNext == \/ WebRaise \/ WebRead \/ WebAwaitEmpty \/ WebInsert \/ WebAwaitReady \/ WebPress
           \/ WebAwaitAnswer \/ WebCopy \/ WebTaken
=============================================================================
