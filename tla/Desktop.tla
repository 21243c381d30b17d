------------------------------ MODULE Desktop ------------------------------
(***************************************************************************)
(* What the GUI adapter (gui/gui_automation.py) shares with the user: the  *)
(* clipboard, the frontmost app, and the app it drives, that is the PM     *)
(* assistant or the local agent.  One session of the adapter at a time,    *)
(* chosen by job: PmSession, WebSession, AgentSession and AgentDiagnostics. *)
(***************************************************************************)
EXTENDS Naturals, Sequences, FiniteSets

CONSTANT MaxDeeds       \* what the user does during a session

ASSUME DeedsAssumption == MaxDeeds \in Nat

VARIABLES job,   \* the session
          pc,    \* its next step
          desk,  \* clipboard, frontmost app, all selected, focus on the composer
          app,   \* the driven app: composer, answering, whose question, newest answer
          mind,  \* what the adapter remembers between its steps
          log    \* history

vars == <<job, pc, desk, app, mind, log>>

(* No diagnostic depends on what the app is at work on.                    *)
Tests == {"test", "focus"}

(* The composer may hold what the user has typed, or the prompt of a       *)
(* roundtrip that failed, unless each prompt is stamped with an id of its  *)
(* own; the app may still be at work on another message; the local agent's *)
(* conversation may show an earlier command.                               *)
DesktopInit ==
    LET start(stamped) == [prompt |-> "empty", stamped |-> stamped, tries |-> 1, looks |-> 1,
            state |-> "UNKNOWN", overwrite |-> FALSE, located |-> FALSE, keep |-> FALSE,
            screen |-> "UNKNOWN", button |-> "old", before |-> "empty", reply |-> "empty",
            keys |-> FALSE, sighted |-> "none", cleaned |-> "no", told |-> FALSE,
            chosen |-> "none"]
    IN
    /\ job \in {"pm", "web", "agent", "test", "focus"}
    /\ desk = [clipboard |-> "prompt", front |-> "other", selected |-> FALSE,
               aimed |-> TRUE]
    /\ app \in [box : {<<>>, <<"draft">>, <<"prompt">>}, work : {"idle", "running"},
                asked : {"other"}, answer : {"old"}, shows : SUBSET {"earlier"}]
    /\ job = "agent" \/ app.shows = {}
    /\ job \in Tests => app.work = "idle"
    /\ mind \in {start(stamped) : stamped \in BOOLEAN}
    /\ mind.stamped => job = "pm" /\ app.box # <<"prompt">>
    /\ log = [sent |-> {}, stopped |-> "no", stray |-> {}, user |-> {}, deeds |-> 0,
              found |-> app.box, busy |-> app.work = "running", early |-> FALSE,
              lost |-> FALSE, reason |-> "none"]

(* The answers that name CODEX_NEXT_PROMPT.                                *)
Marked == {"old", "new", "partial"}

Over == pc \in {"done", "failed"}

At(label) == pc = label
Goto(label) == pc' = label

(* The adapter raises.                                                     *)
Fail(reason) == /\ pc' = "failed"
                /\ log' = [log EXCEPT !.reason = reason]

(* A keystroke goes to the frontmost app, wherever its focus is.           *)
OnTarget == desk.front = "app"

Contents(box) == {box[i] : i \in DOMAIN box}

Typed(box, text) == IF desk.selected THEN <<text>> ELSE Append(box, text)

(* A user's draft is in the composer before and not after.                 *)
Loses(box, text) == "draft" \in Contents(box) \ Contents(text)

Activated == [desk EXCEPT !.front = "app"]

(* The app takes what is in its composer.                                  *)
Question(box) == IF "prompt" \in Contents(box) THEN "ours" ELSE "other"

CanAsk == app.box # <<>> /\ app.work = "idle"

Asked == [app EXCEPT !.box = <<>>, !.work = "queued", !.asked = Question(app.box),
                     !.shows = IF Question(app.box) = "ours" THEN @ \cup {"ours"} ELSE @]

Takes(who) == /\ CanAsk
              /\ app' = Asked
              /\ desk' = [desk EXCEPT !.selected = FALSE]
              /\ log' = [log EXCEPT !.sent = @ \cup {[by |-> who, text |-> app.box]},
                                    !.deeds = IF who = "user" THEN @ + 1 ELSE @,
                                    !.user = IF who = "user" THEN @ \cup {"sent"} ELSE @]

(* Paste by keys goes to the frontmost app, paste by the menu or into the  *)
(* accessibility value to the target.                                      *)
Fills(box) == /\ app' = [app EXCEPT !.box = box]
              /\ desk' = [desk EXCEPT !.selected = FALSE]
              /\ log' = [log EXCEPT !.lost = @ \/ Loses(app.box, box)]

PasteByKeys ==
    \/ OnTarget /\ Fills(Typed(app.box, desk.clipboard))
    \/ /\ ~OnTarget
       /\ log' = [log EXCEPT !.stray = @ \cup {desk.clipboard}]
       /\ UNCHANGED <<desk, app>>

PasteIntoTarget == \/ Fills(Typed(app.box, desk.clipboard))
                   \/ Fills(<<desk.clipboard>>)

-----------------------------------------------------------------------------
AppStarts == /\ app.work = "queued" /\ job \notin Tests
             /\ app' = [app EXCEPT !.work = "running"]
             /\ UNCHANGED <<job, pc, desk, mind, log>>

AppAnswers == /\ app.work = "running" /\ job \notin Tests
              /\ app' = [app EXCEPT !.work = "idle",
                                    !.answer = IF app.asked = "ours" THEN "new" ELSE "other"]
              /\ UNCHANGED <<job, pc, desk, mind, log>>

Did(deed) == deed \in log.user

Deed(what) == /\ log.deeds < MaxDeeds /\ ~Over
              /\ log' = [log EXCEPT !.deeds = @ + 1, !.user = @ \cup {what}]
              /\ UNCHANGED <<job, pc, mind>>

UserReturns == /\ desk.front = "other" /\ Did("switched")
               /\ desk' = Activated
               /\ Deed("returned")
               /\ UNCHANGED app

UserSwitches == /\ desk.front = "app"
                /\ desk' = [desk EXCEPT !.front = "other"]
                /\ Deed("switched")
                /\ UNCHANGED app

(* A picture on the clipboard reads as the empty text.                     *)
UserCopies == /\ \E text \in {"foreign", "empty"} : desk' = [desk EXCEPT !.clipboard = text]
              /\ Deed("copied")
              /\ UNCHANGED app

UserTypes == /\ desk.front = "app"
             /\ app' = [app EXCEPT !.box = Typed(@, "draft")]
             /\ desk' = [desk EXCEPT !.selected = FALSE, !.aimed = TRUE]
             /\ Deed("typed")

UserSends == /\ desk.front = "app" /\ log.deeds < MaxDeeds /\ ~Over
             /\ Takes("user")
             /\ UNCHANGED <<job, pc, mind>>

Environment == \/ AppStarts \/ AppAnswers
               \/ UserSwitches \/ UserReturns \/ UserCopies \/ UserTypes \/ UserSends
=============================================================================
