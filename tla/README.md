# Agent Bridge: formal models and proofs

TLA+ models of Agent Bridge, the program under `src/agent_bridge` that passes
work between a PM assistant (ChatGPT), a local coding agent (Codex) and GitHub
through files in a workspace and through the windows of the two apps. The modules
are translated from the Python source; `PROJECT.json` maps each definition to the
lines it stands for. TLC checks small instances; TLAPS proves the main invariants
for every value of the constants.

To run a check: `tlc -config CommandQueueFaults.cfg MCCommandQueue.tla` (section 3
names the module of each run); to check proofs: `tlapm CommandQueueProofs.tla`, and
likewise each `...Proofs` module.

## 1. The system

Everything is a process started from the command line (`cli.py`); there are no
threads. Processes share files below `workspace/`, most of which have no lock, and
the user's desktop: one clipboard, one frontmost app, the composers of the apps.
What is hard is what happens when two processes work on the same files, when one
dies or a write fails halfway, and when what was read, seen on the screen or decided
is no longer true by the time it is used.

| Component (source) | State | Operations | Talks to | Hard behaviour | What makes it correct |
|---|---|---|---|---|---|
| Command queue (`core/command_queue.py`, `core/models.py`) | `pending_`, `completed_`, `failed_`, `blocked_`, `malformed_commands.jsonl`, `in_progress.json`, `queue.lock` | enqueue, pop_next, pop_by_id, mark_completed/failed/blocked, block_in_progress, list, get_by_id, repair | every producer and consumer | two-write moves, plain `write_text`, lock timeout, malformed lines, repair of finished commands | dedupe, one command in progress, nothing lost or delivered twice without a fault, malformed lines quarantined before dropped, operations return |
| State store (`core/state_store.py`) | `state/state.json` | load, save | run loop, dispatcher, owner, roundtrip | lost updates, one temporary file for all savers | a pause stays until a resume |
| Event log (`core/event_log.py`) | `logs/bridge.jsonl` | append | all | – | – |
| Safety gate (`core/safety_gate.py`) | decision request files | check_text | dispatcher, roundtrip | judged text must be the staged and the submitted text | nothing with a hard-stop keyword is staged or submitted |
| CI and review watchers, ingest, digest builder (`github/`, `cli.py`) | canonical digest files, `last_*` fields of the state | poll, build digest, enqueue | queue, GitHub via `gh` | the digest file is overwritten while an older command points to it | what is judged is what is staged |
| Dispatcher, prompt builder (`codex/`) | `outbox/local_agent_prompt.md` | prepare (consuming or not), by id, block | queue, gate, state | pop, judge and block are separate; `block_in_progress` names no command | the refused command is the one blocked; a pop ends in a staged prompt, a block, or an error |
| Run loop (`orchestrator.py`) | counters and `last_*` in the state | start, cycle, dispatch, finish | watchers, dispatcher | load-change-save around everything, errors within a cycle | stops after a block, at its limits, on a pause |
| Manual dispatch (`gui/local_agent_bridge.py`, `gui/manual_confirmation.py`, `gui/macos_terminal_confirmation.py`) | prompt, clipboard | stage, confirm, pop_by_id | queue, owner | the owner thinks while others pop | a declined prompt stays pending |
| Owner's commands (`cli.py`) | – | pause, resume, reset-state, init, queue subcommands, diagnostics | state, queue, local agent | `init --force` and `reset-state` ignore locks and other writers | – |
| External and ghost runner (`gui/external_runner_daemon.py`, `gui/external_runner.py`, `gui/iterm_ghost_runner.py`) | lock file, marker files, processed-hash file, baselines | poll, detect, debounce, acquire, roundtrip, consume, mark, rebase | roundtrip, local agent, foreground runner | stale-lock takeover, changes during a roundtrip, own queue appends | no overlap, no change without a roundtrip nor a roundtrip without a cause, limits and pause obeyed |
| Foreground runner (`gui/foreground_bridge_runner.py`) | a lock file of its own, last-seen hash, the processed hash it shares | launch, poll, debounce, compare, marker, lock, roundtrip, mark | roundtrip, external runners, owner's terminal | failed or skipped changes, startup trigger before the pause, no common lock | nothing started without a cause, nothing forgotten or marked that nobody handled |
| Report roundtrip (`gui/report_roundtrip.py`) | phase, artifacts, queue | read report, ask PM, capture, extract, gate, enqueue, stage, submit, confirm, consume | GUI, queue, gate, state | long waits between phases, a runtime limit that raises in between, the result of `pop_by_id` ignored | only gated text is submitted, an answer is used once and for its own question, a command is handed over once |
| PM session (`gui/gui_automation.py`, `gui/asset_state_machine.py`, `gui/chatgpt_mac_response_capture.py`; in the browser `gui/chatgpt_state_machine.py`) | clipboard, composer, what the screen showed last | wait for idle, locate, paste, verify, submit, wait, copy | the app, the user | waits with timeouts and overwrites, a send button that turns into stop, a sentinel on the clipboard | only the prompt is sent, no answer is stopped, the answer returned is the answer to it |
| Local-agent session (`gui/gui_automation.py`, `gui/codex_ui_detector.py`) | the same | activate, click, paste, Enter, inspect | the app, the user | keystrokes go to whatever is in front; evidence may be older than the Enter | a confirmed submit was one |
| Agent diagnostics (`cli.py`, `gui/codex_ui_detector.py`) | marker in a live composer | paste test, focus test | the app, the user | five ways to paste and three places that clean up; exceptions between a letter and its removal | nothing is left without telling the owner, no draft is lost, the recommended click works |
| Portable module (`portable_module/.agent-bridge`) and installer (`portable/`) | a queue directory and lock of its own kind | ingest, dispatch, install | queue | a second implementation of the queue protocol | both keep one protocol |
| Runner scripts, verifier, native accessibility search, focus strategies | pid files, logs | – | – | – | – |

`PROJECT.json` lists every component with its status, and every hazard with its
line and the properties aimed at it; a hazard without a property says why it has
none.

## 2. Modules

| Module | Models | Kind |
|---|---|---|
| `CommandQueue` | the queue at the granularity of one file write | detailed specification |
| `CommandLifecycle` | what the queue promises, one atomic step per operation | abstract specification |
| `RunnerLock` | `ExternalGuiRunnerLock`, one system call a step | detailed specification |
| `ExternalRunner` | the polling loop of the external and ghost runner | specification |
| `ForegroundRunner` | the foreground runner beside external runners in one workspace | composition |
| `RunLoop` | run loop, watchers, dispatcher, manual dispatch, gate, state file, owner | composition |
| `ReportRoundtrip` | the phases of `run_report_roundtrip`, with PM, local agent, user and a second consumer | composition |
| `PromptExtraction` | `extract_codex_next_prompt`, with a reference definition without a scan | algorithm |
| `Desktop` | clipboard, frontmost app, composer, user and app: what every session shares | environment |
| `AssetDetection` | from template matches to a state and to the adapter's decisions | algorithm |
| `PmSession`, `WebSession`, `AgentSession`, `AgentDiagnostics` | one session of the adapter each | specifications over `Desktop` |
| `GuiSessions` | the four sessions with the environment, and their properties | composition |
| `...Proofs` | theorems about the module they are named after | proofs |
| `MC...` | instances for TLC | model checking |

The composition is by abstraction: `RunLoop` uses the queue as atomic operations
on a status per command, which is what `CommandLifecycle` says and `CommandQueue`
is proved to implement; `ExternalRunner` uses the lock as exclusive, which is
what `RunnerLock` is proved to be until a runner judges a lock file stale;
`ExternalRunner` and `ForegroundRunner` reduce a roundtrip to its effects on what they
watch; `ReportRoundtrip` reduces each call of the adapter to its effect on the clipboard
and the composers, and `GuiSessions` models those calls step by step.

### CommandQueue

`store` maps each file to the set of its valid records; `torn` holds unparseable
lines, each a fragment of a known command; `quarantine` is
`malformed_commands.jsonl`. The order of lines in a file is left out: `pop_next`
sorts by priority, creation time and id, which `rank` stands for, and nothing
else looks at it. A process is `idle`, `waiting` for the lock, at a write, or at
`unlock`. The first step of an operation takes the lock and does its reads; each
later step is one rewrite (`Write`) and the reads after it. Reading several files
in one step is faithful because nobody else writes while the lock is held, and
which files are read is kept (`Scanned`: the lookups stop at the first hit),
because reading has the side effect of quarantining.

`Abort` stops an operation between two writes, `Tear` in the middle of one:
`write_text` truncates first, so any proper part of the new lines may be there,
and one fragment. An exception and a crash do the same to the files and both
release the lock, hence one action each. Unlinking is atomic. Not modelled: an
undecodable file (a write cut inside a multi-byte character), which makes every
later read raise.

`CommandLifecycle` is implemented through `StatusOf`: a command between two
writes still has the status it is leaving. Faults map to `Lose`.

### RunnerLock

The file is its creator, whether its payload is there, and whether it is older
than `stale_lock_seconds`. `Look`, `Judge`, `Unlink`, `Create` and
`WritePayload` are the system calls of `acquire()`, `Release` the unlink by name.
Removing another live runner's file puts it in `robbed`. `Overrun` says whether
a live holder may outlast the stale timeout. A runner whose `unlink` finds no
file dies of the exception, which nobody handles.

### ExternalRunner

One action per phase of the loop. `UseHash`, chosen in the initial state, says whether
content hashes (the ghost runner) or mtimes count. Each change of a file has its own time
stamp (`clock`, bounded by `MaxChanges`). The roundtrip is its effects on what the loop
watches: it reads the report, may append to the queue, may pause the bridge, and
fails or succeeds. Renaming markers, marking the hash and taking new baselines
are separate steps, since others write between them. A crash leaves the lock
file, which may or may not count as stale afterwards.

### ForegroundRunner

It extends `ExternalRunner` by `fg`, the foreground runner's own variables, and `trail`, a
history of what became of each content it saw. The two kinds of runner share the
report, `safety_pause` and the processed hash and have lock files of their own, so
either may be anywhere in its loop while the other works. `FgExisting` is the
report served at startup, before the first look at the pause; `FgDebounce` takes
the content anew and records it as seen before anything is done about it;
`FgLock` may fail for want of the lock; `FgRead` may end the roundtrip before it has read
anything, when the PM target cannot be resolved; only `FgFinish` after a completed
roundtrip marks the content. Ctrl-C (`FgInterrupt`) may come anywhere.

### RunLoop

A process runs one of five programs: run loop, consuming dispatch, manual
dispatch, watcher, owner's command. `StateStore` has no lock: an update loads the
whole state (`LoadState`), opens the one temporary file that all processes share, which
truncates it (`OpenTemp`), writes to it (`WriteTemp`) and renames it (`Publish`). A rename
takes along whatever another process has put there or is yet to put there: `handle` follows
the file, not its name, so a late write may go straight to `state.json`, or over a longer
text (`Garbled`). A load of such a file raises, and so does a rename after another one
(`StateFails`): inside the loop's `try` that leads to `LOOP_ERROR`, elsewhere out of the
program. `Killed` stops a process in the middle of a save. `safety_pause` is the one field
that decides anything. A payload is the command it was written for; a command in `Digest`
leads to whatever the canonical digest file holds when it is read, and a text carries its
own keywords (`Hot`) and its own need of approval (`NeedsApproval`), whichever command it is
read for. The gate looks at the text's keywords and at the command's flag. One of the two digest files is modelled (CI and reviews have
one each, and they do not interact). `Raise` is the error path: a run loop
records `LOOP_ERROR` and finishes, any other process ends. `Hang` is a watcher that waits
for `gh` for ever (`gh_client.py:225` sets no timeout). `ListPending` may skip the dispatch,
as with `--no-dispatch`. `Casts` says which
processes take part in a behaviour.

### ReportRoundtrip and PromptExtraction

`pc` is the phase. A text is a record: what it is, the attempt it belongs to and its
lines, each line a kind (`hot`: a hard-stop keyword, `noop`, `success`, a fence, a label).
`Raise` ends any phase that can raise, `Expire` those that look at the runtime first.
The clipboard is a variable, because the roundtrip sets, compares and pastes it in
steps of their own and the user may copy between any two. So are the texts in the two
composers, as a set for each (`boxes`): keys add the clipboard to what is there (`Pasted`),
nobody looks at the local agent's composer before or after, a submit takes all of it, and what
a failed or expired attempt has pasted stays for the next one. `PmAnswers` may come before or
after the wait has ended. `PeerTakes` and `OwnerCompletes` pop, stage and close commands
meanwhile, the hazard being that staging does not consume and `pop_by_id` comes at the
end.

`Scan` is the state of the code's scan after each line, a recursive function of the line's
number, and `FencedMatches` what it has found at the end; `Blocks` says without a scan which
fences pair up. An assumption of `MCReportRoundtrip` compares the two on every answer of up to
five lines, the run compares them on the answers that go through the roundtrip
(`ExtractedIsTheBlock`, about the step that enqueues, since the next attempt overwrites the
response), and section 4 proves them equal.

### Desktop, the sessions and GuiSessions

`job` picks one session of the adapter; `desk` is the clipboard, the frontmost app,
whether the composer's text is selected and has the focus; `app` the composer's contents,
what the app is at work on and its newest answer; `mind` what the adapter remembers
between its steps; `log` a history. A text is a word (`prompt`, `draft`, `sentinel`,
`marker`, ...), a composer a sequence of them. Keystrokes go to the frontmost app
(`OnTarget`), scripts and accessibility actions to the target. Between any two steps the
app may begin or finish an answer and the user may switch apps, copy, type or send.

- `AssetDetection` translates the template matching's bookkeeping: acceptance by score
  and identity, best match per state, ambiguity, the colour rule that separates send
  from send_disabled, the rejection of other states' matches. Scores are small
  numbers, the candidates an input (`Screens`). `MatchedBest` is not code: it says what
  `ScreensAssumption` of `PmSession` expects of the matching.
- `PmSession`: `AwaitIdle` and `PollIdle` are the two idle waits, `ClickComposer` to
  `PasteVariant` one attempt of the paste, `Again` the retry that skips what has been
  located, `SeekSend`, `PressSend` and `Reflect` the submit loop, `FindCopyButton` to
  `RereadResponse` the capture with its sentinel. `TakeResponse` has a way out for each
  failure after the click: nothing copied and the old text restored, or the restore failing
  unnoticed, or the clipboard read raising.
- `WebSession`: the same by scripts in the page, each atomic.
- `AgentSession`: paste, Enter, and the evidence of a submit in the order in which it is
  tried; `LooksLikePrompt` compares the first 120 characters, which are those of the
  template for every command, and a running state is a word found anywhere on the screen
  (`worded`), so that it may be found or missed whatever the agent does.
- `AgentDiagnostics`: `Test...`, `Variant...`, `Sweep` and `Clean` are the paste test with
  its cleanup after a variant and at the end; `Focus...` the focus test.

## 3. Runs

| Run | Module | Instance | What it shows |
|---|---|---|---|
| `CommandQueueFaults` | `MCCommandQueue` | 3 commands, two of which share a key while the third ranks between them; 2 processes; 1 fault; fairness | types, dedupe, single slot, no loss without fault, bounded delivery, quarantine before drop, refinement of `CommandLifecycle`; a called operation returns |
| `CommandQueueDurable` | `MCCommandQueue` | the same commands and processes, which may die between two writes but not within one (`CrashSpec`) | **violated**: a process that dies between the two writes of a pop leaves an accepted command in no file |
| `RunnerLock` | `RunnerLock` | 3 runners, overruns, 1 crash, fairness | the holder owns its file, overlap needs a verdict, work goes on |
| `RunnerLockOverlap` | `RunnerLock` | 3 runners, no overrun, no crash | **violated**: two runners run at once |
| `ExternalRunner` | `ExternalRunner` | 1 runner in either mode, 2 contents, 3 changes, 2 roundtrips, 1 crash, fairness | a roundtrip has a cause, so own enqueues do not trigger; pause obeyed; only an overlapping or processed report is overlooked; the runner stops |
| `Runners` | `ForegroundRunner` | a foreground runner (2 roundtrips, 1 launch) beside a ghost runner (1 roundtrip); 2 contents, one of them without the marker; 3 changes | no roundtrip without a cause, pause obeyed, nothing marked or forgotten that nobody handled |
| `RunLoop` | `MCRunLoop` | run loop beside one of dispatcher, manual dispatch, watcher, owner; both dispatchers beside two watchers; dispatcher, watcher and owner; 3 digests, of which one is hot and one needs approval, and a command without payload; 2 cycles; fairness | nothing the gate refuses is staged, one consumer per command, a refusal blocks the refused command and ends the loop, nothing stranded, the state readable unless saves overlapped, every loop ends unless `gh` hangs |
| `RunLoopApproval` | `MCRunLoop` | dispatcher, 2 watchers, 2 digests of which the newer needs approval | **violated**: a text that needs approval is staged under the older command |
| `RunLoopPause` | `MCRunLoop` | run loop, owner | **violated**: a pause is overwritten by a state update |
| `ReportRoundtrip` | `MCReportRoundtrip` | 2 roundtrips, 4 modes, 2 answers, 2 reports, 1 deed of others: the user copies, or types into either composer, or the report is written | only gated text or the user's is submitted, an answer is its question's, the extracted text is the only instruction, a second handover has a cause |
| `GuiSessions` | `MCGuiSessions` | each of the five jobs, 2 deeds of the user, 2 attempts of each kind, the screens of section 3's bounds | what is sent, stopped, confirmed, returned, left on the clipboard, left in or deleted from a composer, and recommended |
| `AgentConfirm` | `MCGuiSessions` | as `GuiSessions`, without the user | **violated**: a submit that did not happen is confirmed by an earlier command's message |

### Bounds, and why they are enough

- *Commands.* The properties relate two commands of one key, or two commands in
  one slot; a third command of another key, ranked between the two, is what an
  interleaved pop takes. All three can be on file at once.
- *Processes.* Under an exclusive lock a third process adds no new order of
  writes to the queue, only more waiting; the theorems cover any number. Three
  runners for the lock, because a takeover can itself be robbed.
- *Faults.* One crash or torn write reaches each hazard; it is a bound of the
  run, not of the theorems.
- *Changes.* Three changes let a report change before, during and after a
  roundtrip. Two roundtrips let a run go on after the first. One launch of the
  foreground runner suffices, as a second starts from the same state with other
  files; the theorems cover any number.
- *Contents.* Two contents distinguish "changed" from "changed back".
- *Casts.* Two processes are enough for every overlap of two saves or two consumers; a
  second watcher replaces the digest of a command that the first one has enqueued. The
  theorems hold for any cast.
- *Cycles.* Two cycles let a loop meet its limit after a cycle that blocked.
- *Attempts.* Two roundtrips let a leftover of the first (clipboard, answer, pending
  command, second consumer, text in a composer) meet the second. One deed of others among
  them, at any moment, is enough to take the clipboard or a composer from under any step, or
  to change the report; two would multiply the states without a new order of the
  roundtrip's own steps, and the theorems hold for any number.
- *Answers.* One whose instruction the gate blocks and one whose instruction it lets through
  to every end a roundtrip has, in the two forms an instruction comes in; what else an
  answer may look like is for the assumption on every short answer.
- *Deeds.* With two the user can switch away and come back, type and send, copy and
  switch. Each bound of attempts (`MaxTries`, `MaxLooks`, `MaxClicks`, `MaxPastes`) is 2:
  a first attempt, and a last one after something else has happened. The paste test
  has 3 variants instead of 5, two by keys and the one that types, since the four by
  keys differ only in how they produce the chord.
- *Screens.* Nothing; the right button alone, with plus, and with a lookalike that
  scores the same, with colours that tell or do not, or lower.

Symmetry is used for `CommandQueueDurable` only (processes): `CommandQueueFaults` checks
liveness, and commands are not symmetric (`rank`, `keyOf`).
Deadlock is checked except where the system may stop for good: every runner has
stopped and every allowed change been made (`ExternalRunner`, `Runners`), the last
roundtrip is over (`ReportRoundtrip`), the session is over (`GuiSessions`,
`AgentConfirm`). `RunLoop` has an explicit `Done` for the state in which every process
has ended.

### Assumptions about the desktop

- The matching may find nothing, or the button that is shown with a score at least as
  high as any lookalike's; it does not find only a wrong button. `ScreensAssumption` states
  this for any matches: either no button but plus is accepted, or one of the state shown is,
  none accepted scores higher, of two lookalikes that belong to the two other states one
  scores less, and a lookalike's colours are farther from its template's than the shown
  button's are from its own. It leaves open how many matches there are, their scores, whether
  a lookalike scores the same, and whether colours can be read at all.
- Recognition of the paste test's marker is honest and sees the composer's band
  only; a single letter may be seen in other text.
- A user inside the app keeps the focus on the composer; typing and sending by the
  user go there.
- A script in the page and an accessibility action are atomic; keystrokes are not
  lost, except the modifier of a chord in the paste test.
- Nothing is assumed of the words on the local agent's screen: one of those that are taken for
  a running state may be there or not.

### Fairness

- *Queue*: `WF(Step(p))`. A waiting process polls; whether or not the lock is
  taken it can either go on or time out, so it is never kept waiting. Nothing is
  assumed of callers, and faults are not fair.
- *Lock*: `WF` of acquire and release, as a runner keeps polling and a roundtrip
  has `max_runtime_seconds`; `WF(Age)`, as time passes. Restart is not fair.
- *External runner*: `WF` of the loop and of its runtime running out.
- *Run loop*: `WF` of the loop's own steps; its sleeps and lock waits are bounded. The one
  wait that is not is for `gh`, which `gh_client.py:225` runs without a timeout: `Hang` may
  end a poll for good, is not fair, and is the exception in `LoopEnds`. So a loop does not
  end at its limits (docs/06_SAFETY_AND_APPROVAL_GATES.md:34) while `gh` hangs. Watchers
  and the owner need not do anything.
- *Roundtrip and sessions*: none; every loop in them counts its attempts or has a
  deadline, and nothing here asks for an answer that may never come.

### What contradicts the documentation

Shown by a run that is violated:

1. **A crash loses a command** (`DurableHandoff`): `command_queue.py:372-373`
   rewrites `pending_commands.jsonl` without the command before it writes
   `in_progress.json`, and a process that dies in between takes the command with it; the
   finishes likewise. README.md:48 and docs/07_CLI_SPEC.md:82 call the queue durable. (A
   `write_text` cut short, at 188 or 290, loses commands too; the run leaves it out, so
   that its trace is the pop's.)
2. **Runners overlap** (`NoOverlap`): the lock file exists before its payload, so
   a second runner takes it for a corrupt leftover, and unlinks by name.
   README.md:490 says that the lock prevents overlap.
3. **A pause is lost** (`PauseStops`): `orchestrator.py:185` and the other updates
   load, change and save without a lock.
   docs/06_SAFETY_AND_APPROVAL_GATES.md:30 says that a pause stops the loop.
4. **Approval goes by the older command** (`ApprovalCoversPayload`): the payload is read from
   the digest file at dispatch (`dispatcher.py:59`), the flag is that of the command that was
   popped (186), so that a newer digest that needs approval is staged without one.
   docs/06_SAFETY_AND_APPROVAL_GATES.md:32 speaks of a payload that requires approval.
5. **An old message confirms a submit** (`NewUserMessageIsNew`): the first 120
   characters compared (`codex_ui_detector.py:3107`) are the template's for every
   command. docs/EXTERNAL_GUI_RUNNER.md:461 says that a confirmation requires a
   *new* user message.

Noticed while modelling, stated as a cause in a property or left to prose:

- Two saves that overlap may leave `state.json` empty or garbled (`state_store.py:17`):
  from then on `pause`, `resume` and every loop raise at their load, and only `reset-state`,
  which does not load, mends it. `UnreadableNeedsRace` says that nothing else leads there.
- Runners of two kinds share the report, the pause and the processed hash but no
  lock, so a foreground and an external roundtrip may drive the same apps at once
  (`foreground_bridge_runner.py:197`). Two runners of one kind decide about a trigger
  before they try the lock, so both may serve it (README.md:490 "at most one",
  `external_runner_daemon.py:264`).
- A report written during a roundtrip is not noticed when it ends: baselines are taken
  after it (`external_runner_daemon.py:276`; docs/EXTERNAL_GUI_RUNNER.md:237). The hash
  marked as processed is that of the report after the roundtrip (README.md:534, `:427`).
- A manual dispatch that the owner confirmed stays pending if another command
  has taken the slot (docs/06_SAFETY_AND_APPROVAL_GATES.md:71,
  `local_agent_bridge.py:217`); docs/06_SAFETY_AND_APPROVAL_GATES.md:64 speaks of
  "failed" where the consuming dispatcher blocks.
- A roundtrip whose submit was not confirmed leaves the command pending although it
  was handed over (`report_roundtrip.py:1925`; README.md:368, docs/07_CLI_SPEC.md:426).
- After a failed clipboard readback the retry of the PM paste neither waits nor looks at the
  composer again, so that a leftover prompt may be pasted twice.
- The local-agent paste (`gui_automation.py:2316-2662`) neither waits for the placeholder
  nor selects what is there, so a draft is submitted along, and so is the prompt of an attempt
  that raised after its paste (`report_roundtrip.py:1911`) with the next one's
  (docs/EXTERNAL_GUI_RUNNER.md:188, :205; docs/07_CLI_SPEC.md:437; README.md:415).
  `SubmittedWasGated` names both.
- The running state that confirms a submit is one of a few words anywhere in the visible text
  (`codex_ui_detector.py:4321-4336`), the prompt's own or a label's included
  (docs/EXTERNAL_GUI_RUNNER.md:461). `SubmittedWasSent` therefore takes such a
  confirmation for no evidence at all.
- The sentinel stays on the user's clipboard when the copy button cannot or must not be
  clicked, when the clipboard cannot be read afterwards, and when the restore fails, which
  nobody is told (`chatgpt_mac_response_capture.py:711-718`). `SentinelIsTakenBack` names
  these ways and the failed copyback.
- The submit loop clicks wherever send was found, whatever the submit-ready verdict; on an
  ambiguous screen the click may stop the answer to the bridge's own prompt.
- In the browser "ready" is a page with any copy button that does not stream: an old
  answer's button will do.
- Paste test: after a cleanup of a failed variant the final cleanup is skipped and success
  reported, also when a later variant has left the marker (`codex_ui_detector.py:1537`,
  `:2154-2165`; docs/07_CLI_SPEC.md:402, README.md:379); a text that cannot be read after
  the cleanup counts as clean (`:1556`); an early return (`:1494`) asks for no manual
  cleanup; the cleanup deletes a draft that the overwrite policy did not mean to touch.
- Focus test: only the candidates derived from the plus button and the owner's avoid the
  plus button (`:1879-1932`; docs/07_CLI_SPEC.md:404).

## 4. Proofs

Every theorem is about the specification with its constants left open: any number of
commands, processes, runners, texts and attempts, any bounds. Each follows the same
argument: an inductive invariant is established by `Init`, kept by each action (one lemma
per action or group of actions), and implies the property.

**Queue** (`CommandQueueProofs`), from the assumptions of `CommandQueue` (names are
distinct, `keyOf` is a function into the keys, `rank` is injective):

| Theorem | States |
|---|---|
| `TypeSafe` | `Spec => []TypeOK` |
| `DedupeSafe` | `Spec => []KeysUnique` |
| `OneInProgress` | `Spec => []SingleSlot` |
| `NoLoss` | `Spec => []NoLossWithoutFault` |
| `DeliveredOnce` | `Spec => []DeliveryBound` |

None of these is inductive. `KeysUnique` fails after an enqueue's write unless the
key was free when it was *read*, so the invariant `IInv` has the phase facts of
a process at each write (`PhaseInv`: the key is still free, the command is still
where it is taken from, the slot is still empty). They survive other processes'
steps only because of mutual exclusion (`LockInv`: the holder is the one process
in a critical phase). `DeliveryInv` strengthens the bound: a key that has been
delivered and is neither beyond pending nor on its way there has been lost by a
fault. The proof has one lemma per kind of step, and faults are one lemma for
every phase: what is left of a file is part of what it would have held.

**Lock** (`RunnerLockProofs`), for any runners, overruns and crashes: `LockTyped`,
`HolderOwns` (`HolderOwnsFile`) and `ExclusiveUntilVerdict`
(`OverlapNeedsVerdict`). The invariant adds `NoVerdictNoRobbery`: before the first
verdict no runner is about to unlink and nobody has been robbed; after that, two
live runners would both be creators of the one file.

**External runner** (`ExternalRunnerProofs`): `RunnerTyped`, `RunnerObeysPause`
(`PauseObeyed`), `RunnerObeysLimit` (`RoundtripsBounded`) and `OverlooksOnlyOverlap`, an
action property (`OverlookedNeedsOverlap`). `PauseInv` says that a runner that has
already started one roundtrip since the pause is not on its way to another: it comes to
the top of its loop first, and stops there. `LimitInv` says that a runner that still
polls has a roundtrip left. `SeenInv` ties what the runner has seen to its baseline outside
of a roundtrip, and to the report itself inside one unless the report was rewritten.
`RunsOfOneHaveCauses` (`RunsHaveCauses`) is about a workspace with one runner, hence its
hypothesis `Runner = {only}`: of two runners each takes the commands the other's roundtrip
enqueues for a change. `CauseInv` is the account it needs: causes and crashes so far pay for the
roundtrips so far, the markers that wait, and the changes since the baseline; a batch
of markers is paid for twice until it is consumed, since a crash in between leaves it
behind. `ClockInv` (no time stamp is in the future) makes every new change a visible one.

**Foreground runner** (`ForegroundRunnerProofs`): `ForegroundTyped`,
`ForegroundHasCauses`, `ForegroundObeysPause`, `ForegroundForgetsNothing`
(`SeenWasHandled`), `ForegroundMarksWhatItRead` (`ProcessedWasRead`), with any number of
external runners beside it. `FgCauseInv` counts: each started
roundtrip uses up a cause, so does the one that is about to start, and a report that
differs from what was seen is one to spare; `FgPauseInv` charges what may still start in
spite of a pause to its launch; `FgSeenInv` follows the content from `FgDebounce` to the
end of its roundtrip. The steps of external runners
are one lemma: they do not touch `fg`.

**Run loop** (`RunLoopProofs`): `RunLoopTyped`, `GateHolds` (`NothingHotStaged`),
`ConsumersDoNotShare` (`StagedByOneConsumer`), `NothingIsStranded`, and the action property
`DispatchersBlockTheirOwn` (`BlocksItsOwn`); and `ReadableUnlessRaced`
(`UnreadableNeedsRace`), where `RaceInv` says that until two saves overlap the one process
that saves finds in the temporary file what it has put there. `OneInSlot` is the single slot. `PhaseInv` keeps
each program to its own steps. `OwnerInv`: a consumer has claimed what it works on, a
claimed command is never pending again, so no two hold or stage the same. `GateInv`: what
is about to be staged has passed the gate, and a text that differs from its command's own is
another digest's. `StrandInv`: a dispatcher takes one command,
and how it has ended tells what became of it. `OwnBlockStopsLoop` (`StopsAfterOwnBlock`)
supposes that no two run loops work at once, which nothing in the code enforces but the
property needs: another loop that had loaded the state before the pause would save it
unpaused. `LoneInv` says why one loop is safe beside everybody else: until a resume
neither `state.json` nor the temporary file holds an unpaused state, and the loop, the only
process that saves without changing the pause, has no other in hand. That `pop_next` finds a best command at all is a
lemma of its own (`BestIsThere`, from the well-foundedness of the naturals).

**Roundtrip** (`ReportRoundtripProofs`): `OnlyGatedIsSubmitted` (`SubmittedWasGated`),
`AnswersAreFresh` (`AnswerIsFresh`) and the action property `SecondHandoversHaveCause`
(`SecondHandoverHasCause`), for any answers, reports, modes and numbers of attempts. Its
invariant follows a text through the phases: `PromptInv` (what lies on the way to
an app is the prompt that passed the gate, or what the user has put there in this
attempt), `BoxInv` (each text in a composer is the user's, or passed the gate in this
attempt or in an earlier one since which nothing has been submitted to that app),
`OrderInv` (what an attempt has submitted tells how far it has come), `SentInv`
(so of what has been submitted), `FreshInv` (from the question on,
what will be taken for its answer is one, or the wait was too short, or the user
interfered) and `ResultInv` (how an attempt ended tells what has become of its command).
`OnlyTheInstructionIsEnqueued` (`ExtractedIsTheBlock`) proves, for answers of any length, that
the scan of `PromptExtraction` extracts what the definition without a scan calls the
instruction (`ExtractIsTheInstruction`). There is no induction over data to
cite, so `ScanInv` (after `i` lines, which block is open and which have been found) is shown to
hold at every line by way of the least line at which it would not (`LeastIsThere`, from the
well-foundedness of the naturals), and `OpeningIsUnique` in the same way shows that only one set of
fences solves the equation that defines `Opening`. `LinesInv` keeps every text on its
way from the app to the queue a sequence of lines; `AnswersAssumption` says that the answers are.

**Refinement of the queue** (`CommandLifecycleProofs`, over the invariant `IInv` of
`CommandQueueProofs`): `QueueImplementsLifecycle` (`ImplementsLifecycle`) and the action
property `QuarantinesFirst` (`QuarantinedBeforeDropped`). `StatusOf` is a choice among the
files that hold a command; `Described` says which it is, given that a command is in one file at
a time. Then every step is mapped: reads, locks and the first write of a move to a stutter,
an enqueue's write and the second write of a move to one step of the lifecycle, a fault
to `Lose` of the commands whose status it changes. `ReadInv` serves the second theorem: in
a file that a process is about to rewrite, every malformed line has been quarantined by its
own read, since nobody damages the file between the read and the write.

**GUI sessions** (`GuiSessionsProofs`), for any screens, any number of attempts and of deeds
of the user, whatever the matching finds: `AnswersAreNew` (`AnswerIsNew`),
`SentinelsAreTakenBack` (`SentinelIsTakenBack`), `MarkersLeftAreTold` (`MarkerLeftIsTold`),
`DraftsDoSurvive` (`DraftsSurvive`), `SelectedDoFocus` (`SelectedFocuses`). `InvHolds` is
their inductive invariant. `TypeInv` includes where the sentinel may be at each step
(`SentinelInv`: on the clipboard from `FindCopyButton` on, in no composer, because no paste
follows), so that a session that is over with the sentinel on the clipboard has gone one of
the ways `SentinelIsTakenBack` names. `AnswerInv` follows the answer from the button that was found to what is read
back, `WebInv` the browser's composer from the moment it was seen empty, `TestInv` the
marker of the paste test and what the test believes of it, `FocusInv` a letter from the
candidate that wrote it to the click of the next. What the operators shared by the sessions
(`Fills`, `Takes`, `Deed`, ...) do to each field is a lemma each (`...Does`); then there is
one lemma for each session and each part of the invariant.

Three more theorems of that module use `ScreensAssumption`: `PromptsAreSent`
(`SentIsThePrompt`), `AnswersAreNotStopped` (`AnswerNotStopped`) and `SubmittedWereSent`
(`SubmittedWasSent`). `MatchesTell` and `SeenIs` first prove of `AssetDetection`'s selection,
margin and colour rule included, what the sessions rely on: a detection names the state
that is shown, or none, or says that it is ambiguous; send is found only where it is or on an
ambiguous screen; a screen with send on it is no proof of a submission. The three
properties then need the composer and the app's work at every step (`SendInv`):

- `AppInv`: the app works only on what it had before or was sent; only the PM session's
  click can stop it. `FrontInv`: after the activation only the user takes the front away.
- `StopInv`: at the click, an app at work is at work on a message sent since the
  look; the look itself saw an idle app or an ambiguous screen.
- `PmSubmitInv`: the click on send is reached only with a text in the composer, pasted or
  found and kept (`mind.keep`), so an empty composer afterwards proves a submission.
- `AgentSubmitInv`: if the user does nothing the prompt is in the composer when Enter comes,
  so the evidence (`Reason`) can only be that of the message, of an earlier one, or a word
  that proves nothing.
- `PmSendsInv`, `WebSendsInv`, `AgentSendsInv`: until the submission the prompt is on the
  clipboard and in `mind`, and the composer holds what was found, the prompt, or both, unless the
  user typed or copied. `PmDraftInv`: a draft found there is selected whenever the paste
  comes, on every retry as well, because a retry goes past the selection only if the click had
  located the composer before (`PmLocates`), and the check never takes a draft for the
  prompt (`DraftIsTold`).
- `SentFits`: each message sent was fit to be sent, and stays so.

**Only model-checked**: liveness (`OperationReturns`, `WorkGoesOn`, `RunnerStops`,
`LoopEnds`), which is out of the prover's reach. Every other property of a passing run is
stated by a theorem, two of them (`RunsHaveCauses`, `StopsAfterOwnBlock`) for the instances in
which they hold, with one runner or one run loop at a time. What is proved of
`ScreensAssumption`'s consequences is no better than the assumption: that pictures of buttons
are told apart is a matter of the templates.

## 5. Not modelled, and why

- *Wording*: digest text, prompt templates, log lines, keyword matching. A content
  is a value, a keyword match is a set.
- *Outside world*: `gh`, AppleScript, Quartz, screenshots, template matching and
  recognition of text on pixels; their verdicts are inputs.
- *State file*: fields other than `safety_pause`; the runners' own loads, which raise out of
  the runner like any other failure.
- *Queue files*: an undecodable file, and `init --force`, which unlinks the files without
  the lock on purpose.
- *Foreground runner*: `max_roundtrips` 0 (no limit), and liveness: a terminal may be
  closed at any time.
- *GUI*: the focus strategies other than the visual one, the accessibility search of the
  native session, the composer diagnostics, `visual_pm_controller.py` (the same parts
  composed for a demonstration), the Terminal window of the confirmation.
- *dispatch_all*, *run-once*: sequences of operations that are modelled one by one.
- *Event log, verifier, dogfood harness, permissions*: append-only or read-only.
- *Portable module scripts and installer*: programs for other repositories, with a second
  implementation of the queue; runner scripts start and stop processes by pid file, for
  which launch and crash stand.

## 6. What is left

1. The portable module's scripts on the queue's files and lock, composed with
   `CommandQueue`'s moves.
2. The native Mac session and the other focus strategies, over `Desktop`.
3. `DigestBuilder` and the review parser (classification and dedupe keys as operators),
   the installer.
4. Theorems about `ExternalRunner` over `RunnerLock` itself instead of an exclusive lock, and
   about `RunLoop` over `CommandQueue`'s writes.
