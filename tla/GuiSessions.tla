---------------------------- MODULE GuiSessions ----------------------------
(***************************************************************************)
(* One session of the GUI adapter with the user and the app beside it, and *)
(* what the caller of the session may rely on.                             *)
(***************************************************************************)
EXTENDS PmSession, WebSession, AgentSession, AgentDiagnostics

Init == DesktopInit /\ pc = "read"

Next == PmNext \/ WebNext \/ AgentNext \/ DiagnosticsNext \/ Environment

Spec == Init /\ [][Next]_vars

-----------------------------------------------------------------------------
(* What the adapter submits is the prompt and nothing else, unless the     *)
(* user typed or copied something during the session, or took the focus    *)
(* away from a composer that held a draft.  The local agent also gets what *)
(* its composer held before: nothing selects it before the paste.  Nothing *)
(* is pasted or entered into another app unless the user switched to it.   *)
SentIsThePrompt ==
    /\ \A m \in log.sent : m.by = "bridge" =>
          \/ Contents(m.text) = {"prompt"}
          \/ Did("typed") \/ Did("copied")
          \/ Did("switched") /\ "draft" \in Contents(log.found)
          \/ job = "agent" /\ Contents(m.text) = Contents(log.found) \cup {"prompt"}
    /\ log.stray # {} => Did("switched")

(* The click on send becomes a click on stop only when the screen on which *)
(* send was found was ambiguous, or the user sent a message, or typed one  *)
(* after the adapter's own, between the look and the click.                *)
AnswerNotStopped ==
    log.stopped \in {"no", "AMBIGUOUS"} \/ (log.sent # {} /\ (Did("sent") \/ Did("typed")))

(* A submit that returns has submitted, unless the paste had gone to       *)
(* another app, or the screen that it took for the proof showed no state   *)
(* or several, or an app still at work on what it was given before.  One   *)
(* to the local agent also counts as confirmed if the user meddled with it,*)
(* if the message found was an earlier command's, or if a word made the    *)
(* adapter think that the agent runs: that proves nothing.                 *)
SubmittedWasSent ==
    /\ pc \in {"await_running", "await_idle"} =>
          \/ log.sent # {} \/ log.stopped # "no" \/ log.stray # {}
          \/ mind.screen \in {"UNKNOWN", "AMBIGUOUS"}
          \/ mind.screen = "RUNNING" /\ log.busy
    /\ job = "agent" /\ At("done") /\ "ours" \notin app.shows =>
          \/ log.user # {}
          \/ log.reason = "new_user_message" /\ "earlier" \in app.shows
          \/ log.reason = "running_state"

(* The answer returned to the roundtrip is the answer to its question,     *)
(* unless the wait was over before it, an older answer's button was found  *)
(* or the user copied something.                                           *)
AnswerIsNew ==
    At("done") /\ job \in {"pm", "web"} /\ mind.reply # "new" =>
        \/ log.early \/ Did("copied")
        \/ job = "pm" /\ mind.button = "old"
        \/ job = "web" /\ Strategies[mind.tries] = "owner"

(* The sentinel the adapter puts on the clipboard to see whether a copy    *)
(* changes it reaches no composer.  It stays there only after a copyback   *)
(* that failed, a copy button that could not or must not be clicked, or a  *)
(* clipboard that could not be read or restored after the click.           *)
SentinelIsTakenBack ==
    /\ "sentinel" \notin Contents(app.box) \cup log.stray
    /\ Over /\ desk.clipboard = "sentinel" =>
          log.reason \in {"copyback", "copy_click", "not_read", "not_restored"}

(* docs/EXTERNAL_GUI_RUNNER.md:461 "Confirmed requires Codex UI evidence:  *)
(* input cleared, a new user message was detected, or a running/responding *)
(* state was detected": the message found need not be a new one.           *)
NewUserMessageIsNew ==
    job = "agent" /\ At("done") /\ log.reason = "new_user_message" => "ours" \in app.shows

(* A diagnostic that ends without asking for a manual cleanup leaves no    *)
(* marker behind, unless a cleanup between two variants of the paste was   *)
(* taken for the last, the composer could not be read again, or the write  *)
(* of the letter raised after it.                                          *)
MarkerLeftIsTold ==
    job \in Tests /\ At("done") /\ ~mind.told /\ "marker" \in Contents(app.box) =>
        log.reason \in {"swept", "unreadable", "write_raised"}

(* A draft is overwritten or deleted in the browser only if it was typed   *)
(* after the composer was seen empty, and by a diagnostic only if the      *)
(* paste test may go on with a busy composer, or the user typed or came    *)
(* back in the middle.                                                     *)
DraftsSurvive ==
    log.lost => \/ job \in {"pm", "agent"} \/ Did("typed")
                \/ job \in Tests /\ Did("returned")
                \/ job = "test" /\ mind.overwrite

(* The candidate that the focus test recommends has put the focus on the   *)
(* composer, unless other text with the letter was in it or a letter of an *)
(* earlier candidate was left there by a write that raised.                *)
SelectedFocuses ==
    mind.chosen = "off" =>
        log.found # <<>> \/ Did("typed") \/ log.reason = "write_raised"
=============================================================================
