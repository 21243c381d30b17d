-------------------------- MODULE ReportRoundtrip --------------------------
(***************************************************************************)
(* One report roundtrip after the other (gui/report_roundtrip.py,          *)
(* run_report_roundtrip): the agent's report goes to the PM assistant, the *)
(* answer's CODEX_NEXT_PROMPT is enqueued, staged by id, pasted into the   *)
(* local agent and submitted, and the command is consumed.                 *)
(*                                                                         *)
(* Other actors: the PM assistant that answers, the local agent and the    *)
(* owner who write the report, a user who uses the clipboard and types, a  *)
(* consumer of the same queue, the clock.  The GUI adapter's calls are     *)
(* modelled by their effect on clipboard and composers, each of them may   *)
(* raise, before it has had that effect or after; their own steps are in   *)
(* PmSession and AgentSession.                                             *)
(***************************************************************************)
EXTENDS Naturals, Sequences, FiniteSets, PromptExtraction

CONSTANTS MaxAttempts,    \* roundtrips
          MaxDeeds,       \* how often the user copies or types, or the report is written
          Answers,        \* what the PM assistant may answer: sequences of lines
          Reports,        \* contents of the report: sequences of lines
          Modes           \* how the roundtrip is configured to end

ASSUME BoundsAssumption == MaxAttempts \in Nat \ {0} /\ MaxDeeds \in Nat
ASSUME AnswersAssumption == Answers \subseteq Seq(STRING)
ASSUME ModesAssumption ==
    Modes \subseteq {"stage_only", "stop_for_queue", "artifact", "no_artifact"}

Attempt == 1..MaxAttempts

VARIABLES pc, attempt, mode,
          prompt,      \* the text the roundtrip is delivering
          present,     \* inspect_local_agent_before_submit saw the prompt
          report,      \* the text of the report, and when it was written
          writes,      \* how often the report was written: the clock of its mtime
          clipboard,
          boxes,       \* the texts in each app's composer, not their order or number
          deeds,       \* how often the user has copied or typed something
          chat,        \* the PM question without an answer, and the last answer
          response,    \* pm_response.md
          status, payload,  \* the queue, and each command's prompt file
          snapshot,    \* hash and time taken before the agent submit
          paused,      \* safety_pause
          result,      \* of each attempt
          sent,        \* history: <<app, attempt, texts>> of every submit an app took
          early,       \* history: attempts whose wait ended before the answer
          tampered,    \* history: attempts during which the user used the clipboard
          drafts,      \* history: apps in whose composer the user has typed
          ignored,     \* history: attempts whose pop_by_id returned None
          peers        \* history: commands another consumer staged

work == <<mode, prompt, present, response, snapshot>>
queue == <<status, payload>>
disk == <<report, writes, paused>>
meddling == <<deeds, tampered, drafts>>
desk == <<clipboard, meddling>>
history == <<sent, early, ignored, peers>>
vars == <<pc, attempt, work, queue, disk, desk, boxes, chat, result, history>>

(* A text is what it is, the attempt it belongs to (0: none), its lines.   *)
Text(is, of, lines) == [is |-> is, of |-> of, lines |-> lines]
Nothing == Text("nothing", 0, <<>>)
Foreign == Text("foreign", 0, <<"tagged", "hot", "bare">>)

Hot(lines) == Contains(lines, "hot")
Noop(lines) == Contains(lines, "noop")
Success(lines) == Contains(lines, "success")

NoSnapshot == [text |-> <<>>, at |-> 0]

Init == /\ pc = "idle" /\ attempt = 0 /\ mode = "idle"
        /\ prompt = Nothing /\ present = FALSE /\ response = Nothing /\ snapshot = NoSnapshot
        /\ report \in {[text |-> r, at |-> 0] : r \in Reports}
        /\ writes = 0 /\ paused = FALSE
        /\ clipboard = Nothing /\ deeds = 0 /\ tampered = {} /\ drafts = {}
        /\ boxes = [pm |-> {}, agent |-> {}]
        /\ chat = [asked |-> Nothing, last |-> Nothing]
        /\ status = [a \in Attempt |-> "absent"]
        /\ payload = [a \in Attempt |-> Nothing]
        /\ result = [a \in Attempt |-> "none"]
        /\ sent = {} /\ early = {} /\ ignored = {} /\ peers = {}

At(label) == pc = label
Goto(label) == pc' = label

(* What a roundtrip leaves behind when it returns or raises.               *)
Finish(reason) ==
    /\ pc' = "idle"
    /\ result' = [result EXCEPT ![attempt] = reason]
    /\ prompt' = Nothing /\ present' = FALSE /\ response' = Nothing /\ snapshot' = NoSnapshot
    /\ mode' = "idle"

Fail(labels) == /\ pc \in labels
                /\ Finish("error")
                /\ UNCHANGED <<attempt, queue, disk, desk, boxes, chat, history>>

(* _RuntimeGuard: looked at on entry of these phases only, so that a phase *)
(* that has begun runs to its own end whatever max_runtime_seconds says.   *)
Guarded == {"read", "activate_pm", "copy_pm", "submit_pm", "wait_pm", "reactivate_pm",
            "stage", "activate_agent", "copy_agent", "snapshot"}

Expire == Fail(Guarded)

(* A GUI call, a file or the queue raises; the handler wraps and re-raises.*)
MayRaise == Guarded \cup {"paste_pm", "copy_response", "save_response", "extract", "enqueue",
                         "read_back", "submit_agent", "confirm", "pop_stopped",
                         "pop_confirmed", "pop_artifact"}

Raise == Fail(MayRaise)

Start == /\ pc = "idle" /\ attempt < MaxAttempts
         /\ attempt' = attempt + 1
         /\ mode' \in Modes
         /\ Goto("read")
         /\ UNCHANGED <<prompt, present, response, snapshot, queue, disk, desk, boxes, chat, result,
                       history>>

(***************************************************************************)
(* To the PM assistant.  The report is read once; the prompt is gated and  *)
(* saved before any app is touched.  The adapter pastes whatever text the  *)
(* clipboard holds when it reads it, which need not be the prompt any more.*)
(***************************************************************************)
(* Mutant: the report is not gated.                                        *)
ReadReportUngated ==
    /\ At("read")
    /\ Goto("activate_pm")
    /\ prompt' = Text("pm", attempt, report.text)
    /\ UNCHANGED <<paused, mode, present, response, snapshot, result>>
    /\ UNCHANGED <<attempt, queue, report, writes, desk, boxes, chat, history>>

ReadReport ==
    /\ At("read")
    /\ IF Hot(report.text)
       THEN paused' = TRUE /\ Finish("blocked")
       ELSE /\ Goto("activate_pm")
            /\ prompt' = Text("pm", attempt, report.text)
            /\ UNCHANGED <<paused, mode, present, response, snapshot, result>>
    /\ UNCHANGED <<attempt, queue, report, writes, desk, boxes, chat, history>>

(* A phase of which only the failure matters here, and that is Raise.      *)
Pass(label, next) == /\ At(label)
                     /\ Goto(next)
                     /\ UNCHANGED <<attempt, work, queue, disk, desk, boxes, chat, result, history>>

ActivatePm == Pass("activate_pm", "copy_pm")

CopyTo(label, next) == /\ At(label)
                       /\ clipboard' = prompt
                       /\ Goto(next)
                       /\ UNCHANGED <<attempt, work, queue, disk, meddling, boxes, chat, result,
                                      history>>

CopyPmPrompt == CopyTo("copy_pm", "paste_pm")

(* The keys add the clipboard to what is there; selected text, or a value  *)
(* that is set, is replaced.                                               *)
Pasted(app) == {boxes[app] \cup {clipboard}, {clipboard}}

(* The composer is believed to be empty, or its text selected and replaced;*)
(* a paste that is not verified clears it or leaves it as it is, and       *)
(* raises.                                                                 *)
PastePmPrompt ==
    /\ At("paste_pm")
    /\ \/ /\ \E box \in Pasted("pm") : boxes' = [boxes EXCEPT !.pm = box]
          /\ Goto("submit_pm")
          /\ UNCHANGED <<work, result>>
       \/ /\ \E box \in Pasted("pm") \cup {{}} : boxes' = [boxes EXCEPT !.pm = box]
          /\ Finish("error")
    /\ UNCHANGED <<attempt, queue, disk, desk, chat, history>>

(* The app takes all that is in its composer.                              *)
Submit(app) == /\ sent' = sent \cup {<<app, attempt, boxes[app]>>}
               /\ boxes' = [boxes EXCEPT ![app] = {}]

(* The PM assistant is asked this attempt's question if it is among that.  *)
Question == IF prompt \in boxes.pm THEN prompt ELSE Foreign

(* Mutant: an answer that is there already is taken for this question's.   *)
SubmitUnlessAnswered ==
    /\ At("submit_pm")
    /\ IF chat.last = Nothing
       THEN Submit("pm") /\ chat' = [chat EXCEPT !.asked = Question]
       ELSE boxes' = [boxes EXCEPT !.pm = {}] /\ UNCHANGED <<chat, sent>>
    /\ Goto("wait_pm")
    /\ UNCHANGED <<attempt, work, queue, disk, desk, result, early, ignored, peers>>

SubmitPmPrompt == /\ At("submit_pm")
                  /\ Submit("pm")
                  /\ chat' = [chat EXCEPT !.asked = Question]
                  /\ Goto("wait_pm")
                  /\ UNCHANGED <<attempt, work, queue, disk, desk, result, early, ignored, peers>>

(* The wait sees an app that is idle: because the answer is complete, or   *)
(* because it has not begun.  A wait that times out raises.                *)
WaitForAnswer ==
    /\ At("wait_pm")
    /\ early' = IF chat.asked = Nothing THEN early ELSE early \cup {attempt}
    /\ Goto("reactivate_pm")
    /\ UNCHANGED <<attempt, work, queue, disk, desk, boxes, chat, result, sent, ignored, peers>>

ReactivatePm == Pass("reactivate_pm", "copy_response")

(* copy_response_text: the newest answer goes to the clipboard and must    *)
(* name CODEX_NEXT_PROMPT; the caller gets what a second read returns.     *)
CaptureResponse ==
    /\ At("copy_response")
    /\ \E marker \in {"tagged", "label"} : Contains(chat.last.lines, marker)
    /\ clipboard' = chat.last
    /\ Goto("save_response")
    /\ UNCHANGED <<attempt, work, queue, disk, meddling, boxes, chat, result, history>>

SaveResponse == /\ At("save_response")
                /\ response' = clipboard
                /\ Goto("extract")
                /\ UNCHANGED <<attempt, mode, prompt, present, snapshot, queue, disk, desk, boxes, chat,
                               result, history>>

(***************************************************************************)
(* Through the queue.  The dedupe key contains the attempt, so the enqueue *)
(* of an attempt is never taken for that of an earlier one.                *)
(***************************************************************************)
ExtractPrompt ==
    /\ At("extract") /\ Extractable(response.lines)
    /\ payload' = [payload EXCEPT ![attempt] =
                      Text("agent", response.of, Extract(response.lines))]
    /\ Goto("enqueue")
    /\ UNCHANGED <<attempt, work, status, disk, desk, boxes, chat, result, history>>

Enqueue == /\ At("enqueue")
           /\ status' = [status EXCEPT ![attempt] = "pending"]
           /\ Goto("stage")
           /\ UNCHANGED <<attempt, work, payload, disk, desk, boxes, chat, result, history>>

(* Dispatcher.stage_command_by_id: the command is read where it is, also   *)
(* when another consumer has taken it, and stays there.                    *)
Stage ==
    /\ At("stage") /\ status[attempt] \in {"pending", "in_progress"}
    /\ IF Hot(payload[attempt].lines)
       THEN paused' = TRUE /\ Finish("blocked")
       ELSE /\ prompt' = payload[attempt]
            /\ Goto("staged")
            /\ UNCHANGED <<paused, mode, present, response, snapshot, result>>
    /\ UNCHANGED <<attempt, queue, report, writes, desk, boxes, chat, history>>

(* The staged prompt is gated once more; Stage has gated the same text.    *)
GateStaged ==
    /\ At("staged")
    /\ CASE mode = "stage_only" -> Finish("staged_only") /\ UNCHANGED paused
         [] mode # "stage_only" /\ Hot(prompt.lines) -> Finish("blocked") /\ paused' = TRUE
         [] OTHER -> Goto("activate_agent") /\ UNCHANGED <<work, result, paused>>
    /\ UNCHANGED <<attempt, queue, report, writes, desk, boxes, chat, history>>

(***************************************************************************)
(* To the local agent.  Between the readback and the paste the clipboard   *)
(* is read once more, by the adapter.                                      *)
(***************************************************************************)
ActivateAgent == Pass("activate_agent", "copy_agent")

CopyAgentPrompt == CopyTo("copy_agent", "read_back")

(* The adapter has a clipboard, so that the readback returns a text.       *)
ReadBack ==
    /\ At("read_back")
    /\ \/ /\ clipboard # prompt
          /\ Finish("clipboard_mismatch")
       \/ /\ clipboard = prompt
          /\ Goto("paste_agent")
          /\ UNCHANGED <<work, result>>
    /\ UNCHANGED <<attempt, queue, disk, desk, boxes, chat, history>>

(* Nothing is selected, and nobody looks at what is in the composer before *)
(* or after: the keys add to it, whether they say so or not, or miss it.   *)
PasteAgentPrompt ==
    /\ At("paste_agent")
    /\ \E box \in Pasted("agent") \cup {boxes.agent} : boxes' = [boxes EXCEPT !.agent = box]
    /\ \/ Goto("inspect") /\ UNCHANGED <<work, result>>
       \/ Finish("paste_failed")
    /\ UNCHANGED <<attempt, queue, disk, desk, chat, history>>

(* Whether the prompt is seen in the composer goes to the log only.        *)
InspectBeforeSubmit ==
    /\ At("inspect")
    /\ present' \in {FALSE} \cup {prompt \in boxes.agent}
    /\ Goto("snapshot")
    /\ UNCHANGED <<attempt, mode, prompt, response, snapshot, queue, disk, desk, boxes, chat, result,
                   history>>

NoopEligible == Noop(payload[attempt].lines) \/ Noop(prompt.lines)

TakeSnapshot ==
    /\ At("snapshot")
    /\ snapshot' = IF NoopEligible THEN [text |-> report.text, at |-> writes + 1] ELSE NoSnapshot
    /\ Goto("submit_agent")
    /\ UNCHANGED <<attempt, mode, prompt, present, response, queue, disk, desk, boxes, chat, result,
                   history>>

(* _local_agent_submit_block_reason, as far as it can still block here.    *)
SubmitBlocked == prompt.lines = <<>>

(* Enter takes what is in the composer, or goes elsewhere.                 *)
SubmitAgentPrompt ==
    /\ At("submit_agent") /\ ~SubmitBlocked
    /\ \/ boxes.agent # {} /\ Submit("agent")
       \/ UNCHANGED <<boxes, sent>>
    /\ Goto(IF mode = "stop_for_queue" THEN "pop_stopped" ELSE "confirm")
    /\ UNCHANGED <<attempt, work, queue, disk, desk, chat, result, early, ignored, peers>>

(* inspect_local_agent_after_submit says confirmed or not, rightly or not. *)
ConfirmSubmit ==
    /\ At("confirm")
    /\ \/ Goto("pop_confirmed") /\ UNCHANGED <<work, result>>
       \/ IF NoopEligible /\ mode = "artifact"
          THEN Goto("await") /\ UNCHANGED <<work, result>>
          ELSE Finish("unconfirmed")
    /\ UNCHANGED <<attempt, queue, disk, desk, boxes, chat, history>>

(* The success report is there, with another hash or a late enough mtime.  *)
ArtifactSeen == /\ Success(report.text)
                /\ (report.text # snapshot.text \/ report.at >= snapshot.at)

AwaitArtifact ==
    /\ At("await")
    /\ \/ ArtifactSeen /\ Goto("pop_artifact") /\ UNCHANGED <<work, result>>
       \/ ~ArtifactSeen /\ Finish("artifact_timeout")
    /\ UNCHANGED <<attempt, queue, disk, desk, boxes, chat, history>>

(* pop_by_id: only a pending command, only into an empty slot; what it     *)
(* returns is not looked at.                                               *)
SlotTaken == \E c \in Attempt : status[c] = "in_progress"
CanPop(c) == status[c] = "pending" /\ ~SlotTaken

Pop(label, reason) ==
    /\ At(label)
    /\ IF CanPop(attempt)
       THEN /\ status' = [status EXCEPT ![attempt] = "in_progress"]
            /\ UNCHANGED ignored
       ELSE /\ ignored' = ignored \cup {attempt}
            /\ UNCHANGED status
    /\ Finish(reason)
    /\ UNCHANGED <<attempt, payload, disk, desk, boxes, chat, sent, early, peers>>

(* Mutant: the confirmed command is not consumed.                          *)
KeepConfirmed == /\ At("pop_confirmed")
                 /\ Finish("confirmed")
                 /\ UNCHANGED <<attempt, queue, disk, desk, boxes, chat, history>>

PopStopped == Pop("pop_stopped", "stopped_for_queue")
PopConfirmed == Pop("pop_confirmed", "confirmed")
PopArtifact == Pop("pop_artifact", "artifact")

(***************************************************************************)
(* The others.                                                             *)
(***************************************************************************)
PmAnswers ==
    /\ chat.asked # Nothing
    /\ \E lines \in Answers :
          chat' = [asked |-> Nothing, last |-> Text("answer", chat.asked.of, lines)]
    /\ UNCHANGED <<pc, attempt, work, queue, disk, desk, boxes, result, history>>

MayMeddle == deeds + writes < MaxDeeds

Meddle == MayMeddle /\ deeds' = deeds + 1

UserCopies == /\ Meddle /\ pc # "idle"
              /\ clipboard' = Foreign
              /\ tampered' = tampered \cup {attempt}
              /\ UNCHANGED <<pc, attempt, work, queue, disk, drafts, boxes, chat, result, history>>

(* A draft, at any time, that the user does not submit.                    *)
UserTypes(app) ==
    /\ Meddle
    /\ boxes' = [boxes EXCEPT ![app] = @ \cup {Foreign}]
    /\ drafts' = drafts \cup {app}
    /\ UNCHANGED <<pc, attempt, work, queue, disk, clipboard, tampered, chat, result, history>>

WriteReport == /\ MayMeddle
               /\ writes' = writes + 1
               /\ \E r \in Reports : report' = [text |-> r, at |-> writes + 1]
               /\ UNCHANGED <<pc, attempt, work, queue, paused, desk, boxes, chat, result, history>>

(* dispatch-next or a run loop: pop_next, then the gate.                   *)
PeerTakes(c) ==
    /\ CanPop(c)
    /\ IF Hot(payload[c].lines)
       THEN /\ status' = [status EXCEPT ![c] = "blocked"]
            /\ paused' = TRUE
            /\ UNCHANGED peers
       ELSE /\ status' = [status EXCEPT ![c] = "in_progress"]
            /\ peers' = peers \cup {c}
            /\ UNCHANGED paused
    /\ UNCHANGED <<pc, attempt, work, payload, report, writes, desk, boxes, chat, result, sent,
                   early, ignored>>

OwnerCompletes(c) ==
    /\ status[c] = "in_progress"
    /\ status' = [status EXCEPT ![c] = "completed"]
    /\ UNCHANGED <<pc, attempt, work, payload, disk, desk, boxes, chat, result, history>>

Roundtrip ==
    \/ Expire \/ Raise \/ ReadReport \/ ActivatePm \/ CopyPmPrompt \/ PastePmPrompt
    \/ SubmitPmPrompt \/ WaitForAnswer \/ ReactivatePm \/ CaptureResponse \/ SaveResponse
    \/ ExtractPrompt \/ Enqueue \/ Stage \/ GateStaged \/ ActivateAgent \/ CopyAgentPrompt
    \/ ReadBack \/ PasteAgentPrompt \/ InspectBeforeSubmit \/ TakeSnapshot \/ SubmitAgentPrompt
    \/ ConfirmSubmit \/ AwaitArtifact \/ PopStopped \/ PopConfirmed \/ PopArtifact

App == {"pm", "agent"}

Environment == \/ PmAnswers \/ UserCopies \/ WriteReport
               \/ \E app \in App : UserTypes(app)
               \/ \E c \in Attempt : PeerTakes(c) \/ OwnerCompletes(c)

Next == Start \/ Roundtrip \/ Environment

Spec == Init /\ [][Next]_vars

-----------------------------------------------------------------------------
(* What attempt a prepares for an app: the report's text, the command's.   *)
Prepared(app, a, text) == \/ app = "pm" /\ text.is = "pm" /\ text.of = a
                          \/ app = "agent" /\ text.is = "agent" /\ text = payload[a]

(* Of what an app is sent, a text of somebody else's is one that the user  *)
(* typed there or had on the clipboard in this or an earlier attempt.  All *)
(* the rest has passed the gate, in this attempt or in an earlier one that *)
(* left it in the composer, whatever docs/07_CLI_SPEC.md:437 says of       *)
(* selecting and replacing: none has been submitted to the app since.  An  *)
(* attempt that was blocked has paused the bridge and sent the local agent *)
(* nothing, although the roundtrip does not look at the pause.             *)
SubmittedWasGated ==
    /\ \A s \in sent : \A text \in s[3] :
           IF text.is = "foreign"
           THEN s[1] \in drafts \/ \E a \in tampered : a <= s[2]
           ELSE /\ ~Hot(text.lines)
                /\ \E a \in 1..s[2] :
                      /\ Prepared(s[1], a, text)
                      /\ ~\E t \in sent : t[1] = s[1] /\ t[2] \in a..(s[2] - 1)
    /\ \A a \in Attempt : result[a] = "blocked" =>
          paused /\ ~\E s \in sent : s[1] = "agent" /\ s[2] = a

(* A second consumer stages a command whose prompt the roundtrip has       *)
(* submitted only while the roundtrip is between submit and pop, after it  *)
(* ended without a confirmation, or after a pop_by_id that did nothing.    *)
SecondHandoverHasCause ==
    [][\A c \in peers' \ peers :
          (\E s \in sent : s[1] = "agent" /\ s[2] = c) =>
              c \in ignored \/ result[c] \in {"none", "unconfirmed", "artifact_timeout", "error"}]_vars

(* The instruction that is enqueued answers this attempt's own question,   *)
(* unless the wait ended before the answer or the user took the clipboard. *)
AnswerIsFresh ==
    \A a \in Attempt :
        payload[a] # Nothing /\ payload[a].of # a => a \in early \/ a \in tampered

(* The enqueued text is all that the saved response instructs, by a        *)
(* definition of its blocks that does not scan: a response with none, or   *)
(* with two, gets nothing enqueued.                                        *)
ExtractedIsTheBlock ==
    [][\A a \in Attempt :
           payload'[a] # payload[a] => IsTheInstruction(payload'[a].lines, response.lines)]_vars
=============================================================================
