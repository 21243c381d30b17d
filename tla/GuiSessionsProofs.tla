-------------------------- MODULE GuiSessionsProofs --------------------------
(***************************************************************************)
(* What a session of the GUI adapter promises for any bounds on its        *)
(* attempts and on what the user does.  Whatever the matching finds on the *)
(* screen, the answer is the new one, the sentinel is taken back, a marker *)
(* that stays is reported, drafts survive, the chosen point is right.  If  *)
(* what it finds obeys ScreensAssumption, what is submitted is the prompt, *)
(* a submit that returns has submitted, and no answer is stopped.          *)
(***************************************************************************)
EXTENDS GuiSessions, SequenceTheorems, FiniteSetTheorems, WellFoundedInduction, TLAPS

(* What a composer may hold.                                               *)
Word == {"prompt", "draft", "foreign", "empty", "old", "new", "partial", "other", "marker",
         "bit"}

(* A draft is typed and never copied.                                      *)
Copyable == Word \ {"draft"}

(* The steps of each session.                                              *)
PmLabels == {"wait", "poll", "click", "select", "check", "reselect", "set", "readback", "paste",
             "submit", "seek", "press", "reflect", "await_running", "await_idle", "find",
             "press_copy", "take", "reread"}
WebLabels == {"web_empty", "web_insert", "web_ready", "web_press", "web_answer", "web_copy",
              "web_taken"}
AgentLabels == {"agent_activate", "agent_click", "agent_set", "agent_readback", "agent_paste",
                "agent_inspect", "agent_enter", "agent_confirm"}
TestLabels == {"test", "look", "variant", "copy", "test_paste", "detect", "sweep",
               "sweep_delete", "swept", "sweep_failed", "snapshot", "clean", "clean_delete",
               "verify"}
FocusLabels == {"focus", "point", "type", "see", "erase", "check_erased"}

Labels ==
    /\ job \in {"pm", "web", "agent", "test", "focus"}
    /\ pc \in {"read", "done", "failed"} \cup PmLabels \cup WebLabels \cup AgentLabels
                \cup TestLabels \cup FocusLabels
    /\ pc \in PmLabels => job = "pm"
    /\ pc \in WebLabels => job = "web"
    /\ pc \in AgentLabels => job = "agent"
    /\ pc \in TestLabels => job = "test"
    /\ pc \in FocusLabels => job = "focus"

(* The records have their fields, whatever is in them.                     *)
ShapedMind(m) ==
    m = [prompt |-> m.prompt, stamped |-> m.stamped, tries |-> m.tries, looks |-> m.looks,
         state |-> m.state, overwrite |-> m.overwrite, located |-> m.located, keep |-> m.keep,
         screen |-> m.screen, button |-> m.button, before |-> m.before, reply |-> m.reply,
         keys |-> m.keys, sighted |-> m.sighted, cleaned |-> m.cleaned, told |-> m.told,
         chosen |-> m.chosen]

Records ==
    /\ ShapedMind(mind)
    /\ log = [sent |-> log.sent, stopped |-> log.stopped, stray |-> log.stray,
              user |-> log.user, deeds |-> log.deeds, found |-> log.found, busy |-> log.busy,
              early |-> log.early, lost |-> log.lost, reason |-> log.reason]
    /\ desk = [clipboard |-> desk.clipboard, front |-> desk.front, selected |-> desk.selected,
               aimed |-> desk.aimed]
    /\ app = [box |-> app.box, work |-> app.work, asked |-> app.asked, answer |-> app.answer,
              shows |-> app.shows]

(* What the clipboard, the composer and the adapter may hold.              *)
Texts ==
    /\ desk.clipboard \in Copyable \cup {"sentinel"}
    /\ app.box \in Seq(Word) /\ app.answer \in Copyable
    /\ mind.prompt \in Copyable /\ mind.before \in Copyable /\ mind.button \in Copyable

Flags ==
    /\ desk.selected \in BOOLEAN /\ desk.aimed \in BOOLEAN
    /\ mind.overwrite \in BOOLEAN /\ log.lost \in BOOLEAN

(* A click knows in which state the app was, a copy which strategy it is.  *)
Known ==
    /\ pc = "click" => mind.overwrite \/ mind.state \in {"IDLE", "COMPOSER_HAS_TEXT"}
    /\ pc \in {"web_copy", "web_taken"} => mind.tries \in 1 .. 4

(* The sentinel is on the clipboard between two steps of the copy only.    *)
SentinelInv ==
    /\ desk.clipboard = "sentinel" =>
          \/ pc \in {"press_copy", "take"}
          \/ /\ pc = "failed"
             /\ log.reason \in {"copyback", "copy_click", "not_read", "not_restored"}
    /\ "sentinel" \notin log.stray

(* Only the focus test chooses a candidate.                               *)
ChosenInv == job # "focus" => mind.chosen = "none"

(* Once the wait for the answer ended on it, the answer does not change    *)
(* back, and nothing but the user or the button of an older answer brings  *)
(* another one to the clipboard.                                           *)
AnswerInv ==
    /\ pc \in {"find", "press_copy", "take", "reread", "web_copy", "web_taken"} =>
          log.early \/ app.answer \in {"new", "other"}
    /\ pc = "press_copy" => desk.clipboard = "sentinel" \/ Did("copied")
    /\ pc \in {"press_copy", "take", "reread"} =>
          log.early \/ mind.button \in {"new", "other", "old"}
    /\ pc \in {"take", "reread"} =>
          \/ log.early \/ Did("copied") \/ mind.button = "old"
          \/ desk.clipboard \notin {"old", "partial"}
    /\ pc = "reread" => Did("copied") \/ desk.clipboard \in Marked
    /\ pc = "web_taken" =>
          \/ log.early \/ Did("copied") \/ Strategies[mind.tries] = "owner"
          \/ desk.clipboard = mind.before
          \/ desk.clipboard \notin {"old", "partial"}
    /\ AnswerIsNew

Left == "marker" \in Contents(app.box)

(* The focus test meets no letter of its own at a new point, finds it at   *)
(* the end of the composer if it is there, and takes only that away.       *)
FocusInv == job = "focus" =>
    /\ desk.selected = FALSE
    /\ pc \in {"read", "focus"} => mind.chosen = "none"
    /\ pc \in {"read", "focus", "point", "type"} => ~Left \/ log.reason = "write_raised"
    /\ pc \in {"see", "erase"} /\ OnTarget /\ desk.aimed =>
          \/ Did("typed") \/ Did("returned")
          \/ app.box = <<>> \/ app.box[Len(app.box)] = "marker"
    /\ log.lost => Did("typed") \/ Did("returned")
    /\ log.found = <<>> /\ ~Did("typed") /\ log.reason # "write_raised" =>
          /\ pc \in {"read", "focus", "point", "type"} => app.box = <<>>
          /\ pc \in {"see", "erase"} => app.box = <<>> \/ (app.box = <<"marker">> /\ desk.aimed)
          /\ pc = "check_erased" => app.box \in {<<>>, <<"marker">>}
    /\ SelectedFocuses
    /\ MarkerLeftIsTold

(* The paste test goes on in a composer without a draft.                   *)
TestInv == job = "test" =>
    /\ pc \in TestLabels \ {"test"} =>
          Did("typed") \/ mind.overwrite \/ "draft" \notin Contents(app.box)
    /\ log.lost => Did("typed") \/ Did("returned") \/ mind.overwrite
    /\ MarkerLeftIsTold

(* The script replaces a text only if it was typed after the wait.         *)
WebInv == job = "web" =>
    /\ pc = "web_insert" => Did("typed") \/ "draft" \notin Contents(app.box)
    /\ log.lost => Did("typed")

-----------------------------------------------------------------------------
(* What the operators that several actions share do to each field.         *)
USE DEF At, Goto, Fail, OnTarget, Activated, Over, Did

LEMMA ContentsAppend ==
    ASSUME NEW box \in Seq(Word), NEW text
    PROVE  Contents(Append(box, text)) = Contents(box) \cup {text}
  BY AppendProperties DEF Contents

LEMMA TypedType ==
    ASSUME NEW box \in Seq(Word), NEW text \in Word
    PROVE  /\ Typed(box, text) \in Seq(Word)
           /\ Contents(Typed(box, text)) \subseteq Contents(box) \cup {text}
  BY ContentsAppend DEF Typed, Contents

LEMMA ShortenedType ==
    ASSUME NEW box \in Seq(Word)
    PROVE  /\ Shortened(box) \in Seq(Word)
           /\ Contents(Shortened(box)) \subseteq Contents(box) \cup {"bit"}
  BY DEF Shortened, Contents, Word

LEMMA WordsAre ==
    /\ {"prompt", "foreign", "empty", "old", "new", "partial", "other", "marker", "bit"}
          \subseteq Copyable
    /\ Copyable \subseteq Word /\ "draft" \in Word /\ "draft" \notin Copyable
    /\ "sentinel" \notin Word
  BY DEF Word, Copyable

LEMMA AgainDoes ==
    ASSUME Records, Again
    PROVE  /\ pc' \in {"set", "wait", "failed"}
           /\ pc' = "failed" => log'.reason = "gave_up"
           /\ mind'.prompt = mind.prompt /\ mind'.before = mind.before
           /\ mind'.button = mind.button /\ mind'.overwrite = mind.overwrite
           /\ mind'.reply = mind.reply
           /\ log'.stray = log.stray /\ log'.user = log.user /\ log'.lost = log.lost
           /\ log'.early = log.early
  BY DEF Again, Records, ShapedMind

LEMMA FillsDoes ==
    ASSUME Records, NEW box, Fills(box)
    PROVE  /\ app'.box = box /\ app'.answer = app.answer
           /\ desk'.clipboard = desk.clipboard /\ desk'.front = desk.front
           /\ desk'.aimed = desk.aimed /\ desk'.selected = FALSE
           /\ log'.lost = (log.lost \/ Loses(app.box, box))
           /\ log'.stray = log.stray /\ log'.user = log.user /\ log'.early = log.early
           /\ log'.found = log.found /\ log'.reason = log.reason
  BY DEF Fills, Records

LEMMA PasteDoes ==
    ASSUME Records, Texts, Flags, desk.clipboard \in Copyable, PasteByKeys \/ PasteIntoTarget
    PROVE  /\ app'.box \in Seq(Word) /\ app'.answer = app.answer
           /\ desk'.clipboard = desk.clipboard
           /\ desk'.selected \in BOOLEAN /\ desk'.aimed \in BOOLEAN /\ log'.lost \in BOOLEAN
           /\ log'.stray \subseteq log.stray \cup {desk.clipboard}
           /\ log'.user = log.user /\ log'.early = log.early
           /\ log'.found = log.found /\ log'.reason = log.reason
<1>0. desk.clipboard \in Word
  BY WordsAre
<1>1. <<desk.clipboard>> \in Seq(Word) /\ Typed(app.box, desk.clipboard) \in Seq(Word)
  BY <1>0, TypedType DEF Texts
<1>2. CASE \E box \in Seq(Word) : Fills(box)
  BY <1>2, FillsDoes DEF Flags, Loses
<1>3. CASE ~OnTarget /\ log' = [log EXCEPT !.stray = @ \cup {desk.clipboard}]
                     /\ UNCHANGED <<desk, app>>
  BY <1>3 DEF Records, Texts, Flags
<1> QED
  BY <1>1, <1>2, <1>3 DEF PasteByKeys, PasteIntoTarget

LEMMA TakesDoes ==
    ASSUME Records, NEW who, Takes(who)
    PROVE  /\ app'.answer = app.answer /\ app'.box = <<>>
           /\ desk'.clipboard = desk.clipboard /\ desk'.selected = FALSE
           /\ desk'.aimed = desk.aimed /\ desk'.front = desk.front
           /\ log'.lost = log.lost /\ log'.stray = log.stray /\ log.user \subseteq log'.user
           /\ log'.early = log.early /\ log'.found = log.found /\ log'.reason = log.reason
<1>1. /\ log'.lost = log.lost /\ log'.stray = log.stray /\ log.user \subseteq log'.user
      /\ log'.early = log.early /\ log'.found = log.found /\ log'.reason = log.reason
  BY DEF Takes, Records
<1>2. /\ app'.answer = app.answer /\ app'.box = <<>>
      /\ desk'.clipboard = desk.clipboard /\ desk'.selected = FALSE
      /\ desk'.aimed = desk.aimed /\ desk'.front = desk.front
  BY DEF Takes, Asked, Records
<1> QED
  BY <1>1, <1>2

LEMMA DeedDoes ==
    ASSUME Records, NEW what, Deed(what)
    PROVE  /\ pc \notin {"done", "failed"} /\ UNCHANGED <<job, pc, mind>>
           /\ log'.user = log.user \cup {what}
           /\ log'.lost = log.lost /\ log'.stray = log.stray /\ log'.early = log.early
           /\ log'.found = log.found /\ log'.reason = log.reason
  BY DEF Deed, Records

LEMMA StraysDoes ==
    ASSUME Records, NEW what, Strays(what)
    PROVE  /\ ~OnTarget /\ UNCHANGED <<desk, app>> /\ log'.stray = log.stray \cup {what}
           /\ log'.lost = log.lost /\ log'.user = log.user /\ log'.early = log.early
           /\ log'.found = log.found /\ log'.reason = log.reason
  BY DEF Strays, Records

LEMMA NextVariantDoes ==
    ASSUME Records, NEW m, ShapedMind(m), NextVariant(m) \/ EndOfVariants(m)
    PROVE  /\ pc' \in {"variant", "failed", "snapshot"}
           /\ pc' = "failed" => log'.reason = "paste_failed"
           /\ mind'.prompt = m.prompt /\ mind'.before = m.before /\ mind'.button = m.button
           /\ mind'.overwrite = m.overwrite /\ mind'.told = m.told /\ mind'.cleaned = m.cleaned
           /\ log'.lost = log.lost /\ log'.stray = log.stray /\ log'.user = log.user
  BY DEF NextVariant, EndOfVariants, ShapedMind, Records

LEMMA ReportsDoes ==
    ASSUME Records, NEW told, NEW reason, Reports(told, reason)
    PROVE  /\ pc' = "done" /\ mind'.told = told /\ log'.reason = reason
           /\ mind'.prompt = mind.prompt /\ mind'.before = mind.before
           /\ mind'.button = mind.button /\ mind'.overwrite = mind.overwrite
           /\ mind'.chosen = mind.chosen /\ mind'.cleaned = mind.cleaned
           /\ log'.lost = log.lost /\ log'.stray = log.stray /\ log'.user = log.user
           /\ log'.found = log.found
  BY DEF Reports, Records, ShapedMind

LEMMA CandidateDoes ==
    ASSUME Records, NextCandidate
    PROVE  /\ pc' \in {"point", "done"}
           /\ mind'.prompt = mind.prompt /\ mind'.before = mind.before
           /\ mind'.button = mind.button /\ mind'.overwrite = mind.overwrite
           /\ mind'.chosen = mind.chosen /\ mind'.told = mind.told
  BY DEF NextCandidate, Records, ShapedMind

LEMMA ClickedDoes ==
    ASSUME Records, NEW d \in Clicked
    PROVE  /\ d.clipboard = desk.clipboard /\ d.selected = FALSE /\ d.aimed = desk.aimed
           /\ d.front \in {desk.front, "app"}
           /\ d = [clipboard |-> d.clipboard, front |-> d.front, selected |-> d.selected,
                   aimed |-> d.aimed]
  BY DEF Clicked, Records

LEMMA PmShapes ==
    ASSUME Records, PmNext
    PROVE  Records'
  BY DEF Records, ShapedMind, Asked, Clicked, PmNext, ReadPrompt, AwaitIdle, PollIdle,
      ClickComposer, SelectAll, CheckExisting, Reselect, SetClipboard, VerifyClipboard,
      PasteVariant, CheckPasted, SeekSend, PressSend, Reflect, AwaitRunning, AwaitAnswer,
      FindCopyButton, PressCopy, TakeResponse, RereadResponse, PmRaise, Again, Forget,
      PasteByKeys, PasteIntoTarget, Fills, Takes

LEMMA PmAt ==
    ASSUME Labels, Known, PmNext
    PROVE  Labels'
  BY ZenonT(60) DEF PmLabels, WebLabels, AgentLabels, TestLabels, FocusLabels, Known, Labels, Tests,
      PmNext, ReadPrompt, AwaitIdle, PollIdle, ClickComposer, SelectAll, CheckExisting,
      Reselect, SetClipboard, VerifyClipboard, PasteVariant, CheckPasted, SeekSend,
      PressSend, Reflect, AwaitRunning, AwaitAnswer, FindCopyButton, PressCopy,
      TakeResponse, RereadResponse, PmRaise, Again, Forget, PasteByKeys, PasteIntoTarget,
      Fills, Takes

LEMMA WebShapes ==
    ASSUME Records, WebNext
    PROVE  Records'
  BY DEF Records, ShapedMind, Asked, Clicked, WebNext, WebRaise, WebRead, WebAwaitEmpty,
      WebInsert, WebAwaitReady, WebPress, WebAwaitAnswer, WebCopy, WebTaken, Fills, Takes

LEMMA WebAt ==
    ASSUME Labels, WebNext
    PROVE  Labels'
  BY DEF PmLabels, WebLabels, AgentLabels, TestLabels, FocusLabels, Labels, Tests, WebNext,
      WebRaise, WebRead, WebAwaitEmpty, WebInsert, WebAwaitReady, WebPress, WebAwaitAnswer,
      WebCopy, WebTaken, Fills, Takes

LEMMA AgentShapes ==
    ASSUME Records, AgentNext
    PROVE  Records'
  BY DEF Records, ShapedMind, Asked, Clicked, AgentNext, AgentRead, AgentActivate,
         AgentClick,
      AgentSet, AgentReadback, AgentPaste, AgentInspect, AgentEnter, AgentConfirm,
      PasteByKeys, PasteIntoTarget, Fills, Takes

LEMMA AgentAt ==
    ASSUME Labels, AgentNext
    PROVE  Labels'
  BY DEF PmLabels, WebLabels, AgentLabels, TestLabels, FocusLabels, Labels, Tests, AgentNext,
      AgentRead, AgentActivate, AgentClick, AgentSet, AgentReadback, AgentPaste,
      AgentInspect, AgentEnter, AgentConfirm, PasteByKeys, PasteIntoTarget, Fills, Takes

LEMMA DiagnosticsShapes ==
    ASSUME Records, DiagnosticsNext
    PROVE  Records'
  BY ZenonT(60) DEF Records, ShapedMind, Asked, Clicked, DiagnosticsNext, TestActivate, TestReady,
      TestClick, VariantClick, TestCopy, TestPaste, TestPasteRaises, TestDetect,
      ClearSelect, Sweep, Swept, TestSnapshot, Clean, TestVerify, FocusStart, FocusClick,
      FocusType, FocusTypeRaises, FocusSee, FocusErase, FocusCheck, PasteByKeys, Fills,
      Strays, Reports, NextVariant, EndOfVariants, NextCandidate, Letter

LEMMA DiagnosticsAt ==
    ASSUME Labels, DiagnosticsNext
    PROVE  Labels'
  BY ZenonT(60) DEF PmLabels, WebLabels, AgentLabels, TestLabels, FocusLabels, Labels, Tests,
      DiagnosticsNext, TestActivate, TestReady, TestClick, VariantClick, TestCopy,
      TestPaste, TestPasteRaises, TestDetect, ClearSelect, Sweep, Swept, TestSnapshot,
      Clean, TestVerify, FocusStart, FocusClick, FocusType, FocusTypeRaises, FocusSee,
      FocusErase, FocusCheck, PasteByKeys, Fills, Strays, Reports, NextVariant,
      EndOfVariants, NextCandidate, Letter

LEMMA EnvShapes ==
    ASSUME Records, Environment
    PROVE  Records'
  BY DEF Records, ShapedMind, Asked, Clicked, Environment, AppStarts, AppAnswers,
         UserSwitches,
      UserReturns, UserCopies, UserTypes, UserSends, Deed, Takes

LEMMA EnvAt ==
    ASSUME Labels, Environment
    PROVE  Labels'
  BY DEF PmLabels, WebLabels, AgentLabels, TestLabels, FocusLabels, Labels, Tests,
         Environment,
      AppStarts, AppAnswers, UserSwitches, UserReturns, UserCopies, UserTypes, UserSends,
      Deed, Takes

LEMMA PmTexts ==
    ASSUME Labels, SentinelInv, Texts, Flags, Records, Known, Labels', PmNext
    PROVE  Texts' /\ Flags' /\ Known' /\ SentinelInv'
<1>1. CASE ReadPrompt
  BY <1>1, WordsAre DEF Records, ShapedMind, Texts, Flags, Known, SentinelInv, ReadPrompt
<1>2. CASE AwaitIdle
  <2>1. pc = "wait" /\ pc' \in {"wait", "click", "poll", "set", "failed"}
    BY <1>2, AgainDoes DEF AwaitIdle, Records, ShapedMind
  <2>2. desk'.clipboard = desk.clipboard /\ app'.answer \in Copyable
    BY <1>2, WordsAre, AgainDoes DEF AwaitIdle, Records, Texts, ShapedMind
  <2>3. log'.stray = log.stray
    BY <1>2, AgainDoes DEF AwaitIdle, Records, Texts, ShapedMind
  <2>4. app'.box \in Seq(Word)
    BY <1>2, WordsAre, AgainDoes DEF AwaitIdle, Records, Texts, ShapedMind
  <2>5. Flags'
    BY <1>2, AgainDoes DEF AwaitIdle, Records, Flags, Loses, ShapedMind
  <2>6. mind'.prompt \in Copyable /\ mind'.before \in Copyable /\ mind'.button \in Copyable
    BY <1>2, AgainDoes DEF AwaitIdle, Records, Texts, ShapedMind
  <2>7. Known'
    BY <1>2, AgainDoes DEF AwaitIdle, Records, Known, ShapedMind
  <2> QED
    BY WordsAre, <2>1, <2>2, <2>3, <2>4, <2>5, <2>6, <2>7 DEF Texts, SentinelInv
<1>3. CASE PollIdle
  <2>1. pc = "poll" /\ pc' \in {"wait", "click", "poll", "set", "failed"}
    BY <1>3, AgainDoes DEF PollIdle, Records, ShapedMind
  <2>2. desk'.clipboard = desk.clipboard /\ app'.answer \in Copyable
    BY <1>3, WordsAre, AgainDoes DEF PollIdle, Records, Texts, ShapedMind
  <2>3. log'.stray = log.stray
    BY <1>3, AgainDoes DEF PollIdle, Records, Texts, ShapedMind
  <2>4. app'.box \in Seq(Word)
    BY <1>3, WordsAre, AgainDoes DEF PollIdle, Records, Texts, ShapedMind
  <2>5. Flags'
    BY <1>3, AgainDoes DEF PollIdle, Records, Flags, Loses, ShapedMind
  <2>6. mind'.prompt \in Copyable /\ mind'.before \in Copyable /\ mind'.button \in Copyable
    BY <1>3, AgainDoes DEF PollIdle, Records, Texts, ShapedMind
  <2>7. Known'
    BY <1>3, AgainDoes DEF PollIdle, Records, Known, ShapedMind
  <2> QED
    BY WordsAre, <2>1, <2>2, <2>3, <2>4, <2>5, <2>6, <2>7 DEF Texts, SentinelInv
<1>4. CASE ClickComposer
  <2>1. pc = "click" /\ pc' \in {"wait", "select", "check", "set", "failed"}
    BY <1>4, AgainDoes DEF ClickComposer, Records, Known, ShapedMind
  <2>2. desk'.clipboard = desk.clipboard /\ app'.answer \in Copyable
    BY <1>4, WordsAre, AgainDoes DEF ClickComposer, Records, Texts, Known, ShapedMind
  <2>3. log'.stray = log.stray
    BY <1>4, AgainDoes DEF ClickComposer, Records, Texts, Known, ShapedMind
  <2>4. app'.box \in Seq(Word)
    BY <1>4, WordsAre, AgainDoes DEF ClickComposer, Records, Texts, Known, ShapedMind
  <2>5. Flags'
    BY <1>4, AgainDoes DEF ClickComposer, Records, Flags, Loses, Known, ShapedMind
  <2>6. mind'.prompt \in Copyable /\ mind'.before \in Copyable /\ mind'.button \in Copyable
    BY <1>4, AgainDoes DEF ClickComposer, Records, Texts, Known, ShapedMind
  <2>7. Known'
    BY <1>4, AgainDoes DEF ClickComposer, Records, Known, ShapedMind
  <2> QED
    BY WordsAre, <2>1, <2>2, <2>3, <2>4, <2>5, <2>6, <2>7 DEF Texts, SentinelInv
<1>5. CASE SelectAll
  BY <1>5, WordsAre DEF Records, ShapedMind, Texts, Flags, Known, SentinelInv, SelectAll
<1>6. CASE CheckExisting
  <2>1. pc = "check" /\ pc' \in {"set", "reselect", "failed"}
    BY <1>6 DEF CheckExisting, Records, ShapedMind
  <2>2. /\ \/ desk'.clipboard \in Copyable
           \/ desk'.clipboard = "sentinel" /\ pc' = "failed" /\ log'.reason = "copyback"
        /\ app'.answer \in Copyable
    BY <1>6, WordsAre DEF CheckExisting, Records, Texts, ShapedMind
  <2>3. log'.stray = log.stray
    BY <1>6 DEF CheckExisting, Records, Texts, ShapedMind
  <2>4. app'.box \in Seq(Word)
    BY <1>6, WordsAre DEF CheckExisting, Records, Texts, ShapedMind
  <2>5. Flags'
    BY <1>6 DEF CheckExisting, Records, Flags, Loses, ShapedMind
  <2>6. mind'.prompt \in Copyable /\ mind'.before \in Copyable /\ mind'.button \in Copyable
    BY <1>6 DEF CheckExisting, Records, Texts, ShapedMind
  <2>7. Known'
    BY <1>6 DEF CheckExisting, Records, Known, ShapedMind
  <2> QED
    BY WordsAre, <2>1, <2>2, <2>3, <2>4, <2>5, <2>6, <2>7 DEF Texts, SentinelInv
<1>7. CASE Reselect
  <2>1. pc = "reselect" /\ pc' \in {"set", "failed"}
    BY <1>7 DEF Reselect, Records, ShapedMind
  <2>2. desk'.clipboard = desk.clipboard /\ app'.answer \in Copyable
    BY <1>7, WordsAre, FillsDoes DEF Reselect, Records, Texts, ShapedMind
  <2>3. log'.stray = log.stray
    BY <1>7, FillsDoes DEF Reselect, Records, Texts, ShapedMind
  <2>4. app'.box \in Seq(Word)
    BY <1>7, WordsAre, FillsDoes, <<>> \in Seq(Word)
    DEF Reselect, Records, Texts, ShapedMind
  <2>5. Flags'
    BY <1>7, FillsDoes DEF Reselect, Records, Flags, Loses, ShapedMind
  <2>6. mind'.prompt \in Copyable /\ mind'.before \in Copyable /\ mind'.button \in Copyable
    BY <1>7, FillsDoes DEF Reselect, Records, Texts, ShapedMind
  <2>7. Known'
    BY <1>7, FillsDoes DEF Reselect, Records, Known, ShapedMind
  <2> QED
    BY WordsAre, <2>1, <2>2, <2>3, <2>4, <2>5, <2>6, <2>7 DEF Texts, SentinelInv
<1>8. CASE SetClipboard
  BY <1>8, WordsAre, AgainDoes
  DEF Records, ShapedMind, Texts, Flags, Known, SentinelInv, SetClipboard
<1>9. CASE VerifyClipboard
  <2>1. pc = "readback" /\ pc' \in {"wait", "set", "submit", "paste", "failed"}
    BY <1>9, AgainDoes DEF VerifyClipboard, Records, Forget, ShapedMind
  <2>2. desk'.clipboard = desk.clipboard /\ app'.answer \in Copyable
    BY <1>9, WordsAre, AgainDoes DEF VerifyClipboard, Records, Texts, Forget, ShapedMind
  <2>3. log'.stray = log.stray
    BY <1>9, AgainDoes DEF VerifyClipboard, Records, Texts, Forget, ShapedMind
  <2>4. app'.box \in Seq(Word)
    BY <1>9, WordsAre, AgainDoes DEF VerifyClipboard, Records, Texts, Forget, ShapedMind
  <2>5. Flags'
    BY <1>9, AgainDoes DEF VerifyClipboard, Records, Flags, Loses, Forget, ShapedMind
  <2>6. mind'.prompt \in Copyable /\ mind'.before \in Copyable /\ mind'.button \in Copyable
    BY <1>9, AgainDoes DEF VerifyClipboard, Records, Texts, Forget, ShapedMind
  <2>7. Known'
    BY <1>9, AgainDoes DEF VerifyClipboard, Records, Known, Forget, ShapedMind
  <2> QED
    BY WordsAre, <2>1, <2>2, <2>3, <2>4, <2>5, <2>6, <2>7 DEF Texts, SentinelInv
<1>10. CASE PasteVariant
  <2>1. pc = "paste" /\ pc' \in {"wait", "set", "submit", "failed"}
    BY <1>10, AgainDoes DEF PasteVariant, Records, Forget, ShapedMind
  <2>0. desk.clipboard \in Copyable
    BY <2>1 DEF Texts, SentinelInv
  <2>2. desk'.clipboard = desk.clipboard /\ app'.answer \in Copyable
    BY <1>10, <2>0, WordsAre, AgainDoes, PasteDoes
    DEF PasteVariant, Records, Texts, Forget, ShapedMind
  <2>3. log'.stray \subseteq log.stray \cup {desk.clipboard}
    BY <1>10, <2>0, AgainDoes, PasteDoes
    DEF PasteVariant, Records, Texts, Forget, ShapedMind
  <2>4. app'.box \in Seq(Word)
    BY <1>10, <2>0, WordsAre, AgainDoes, PasteDoes
    DEF PasteVariant, Records, Texts, Forget, ShapedMind
  <2>5. Flags'
    BY <1>10, <2>0, AgainDoes, PasteDoes
    DEF PasteVariant, Records, Flags, Loses, Forget, ShapedMind
  <2>6. mind'.prompt \in Copyable /\ mind'.before \in Copyable /\ mind'.button \in Copyable
    BY <1>10, AgainDoes, PasteDoes DEF PasteVariant, Records, Texts, Forget, ShapedMind
  <2>7. Known'
    BY <1>10, AgainDoes, PasteDoes DEF PasteVariant, Records, Known, Forget, ShapedMind
  <2> QED
    BY WordsAre, <2>1, <2>0, <2>2, <2>3, <2>4, <2>5, <2>6, <2>7 DEF Texts, SentinelInv
<1>11. CASE CheckPasted
  BY <1>11, WordsAre DEF Records, ShapedMind, Texts, Flags, Known, SentinelInv, CheckPasted
<1>12. CASE SeekSend
  BY <1>12, WordsAre DEF Records, ShapedMind, Texts, Flags, Known, SentinelInv, SeekSend
<1>13. CASE PressSend
  <2>1. pc = "press" /\ pc' = "reflect"
    BY <1>13 DEF PressSend, Records, ShapedMind
  <2>2. desk'.clipboard = desk.clipboard /\ app'.answer \in Copyable
    BY <1>13, WordsAre, TakesDoes DEF PressSend, Records, Texts, ShapedMind
  <2>3. log'.stray = log.stray
    BY <1>13, TakesDoes DEF PressSend, Records, Texts, ShapedMind
  <2>4. app'.box \in Seq(Word)
    BY <1>13, WordsAre, TakesDoes, <<>> \in Seq(Word)
    DEF PressSend, Records, Texts, ShapedMind
  <2>5. Flags'
    BY <1>13, TakesDoes DEF PressSend, Records, Flags, Loses, ShapedMind
  <2>6. mind'.prompt \in Copyable /\ mind'.before \in Copyable /\ mind'.button \in Copyable
    BY <1>13, TakesDoes DEF PressSend, Records, Texts, ShapedMind
  <2>7. Known'
    BY <1>13, TakesDoes DEF PressSend, Records, Known, ShapedMind
  <2> QED
    BY WordsAre, <2>1, <2>2, <2>3, <2>4, <2>5, <2>6, <2>7 DEF Texts, SentinelInv
<1>14. CASE Reflect
  BY <1>14, WordsAre DEF Records, ShapedMind, Texts, Flags, Known, SentinelInv, Reflect
<1>15. CASE AwaitRunning
  BY <1>15, WordsAre DEF Records, ShapedMind, Texts, Flags, Known, SentinelInv, AwaitRunning
<1>16. CASE AwaitAnswer
  BY <1>16, WordsAre DEF Records, ShapedMind, Texts, Flags, Known, SentinelInv, AwaitAnswer
<1>17. CASE FindCopyButton
  <2>1. pc = "find" /\ pc' \in {"press_copy", "failed"}
    BY <1>17 DEF FindCopyButton, Records, ShapedMind
  <2>2. /\ \/ desk'.clipboard = desk.clipboard
           \/ desk'.clipboard = "sentinel" /\ pc' = "press_copy"
        /\ app'.answer \in Copyable
    BY <1>17, WordsAre DEF FindCopyButton, Records, Texts, SentinelInv, ShapedMind
  <2>3. log'.stray = log.stray
    BY <1>17 DEF FindCopyButton, Records, Texts, ShapedMind
  <2>4. app'.box \in Seq(Word)
    BY <1>17, WordsAre DEF FindCopyButton, Records, Texts, ShapedMind
  <2>5. Flags'
    BY <1>17 DEF FindCopyButton, Records, Flags, Loses, ShapedMind
  <2>6. mind'.prompt \in Copyable /\ mind'.before \in Copyable /\ mind'.button \in Copyable
    <3>1. desk.clipboard \in Copyable
      BY <2>1 DEF Texts, SentinelInv
    <3>2. CASE UNCHANGED mind
      BY <3>2 DEF Texts
    <3>3. CASE \E button \in {app.answer, "old"} :
                 mind' = [mind EXCEPT !.button = button, !.before = desk.clipboard]
      BY <3>1, <3>3, WordsAre DEF Records, ShapedMind, Texts
    <3> QED
      BY <1>17, <3>2, <3>3 DEF FindCopyButton
  <2>7. Known'
    BY <1>17 DEF FindCopyButton, Records, Known, ShapedMind
  <2> QED
    BY WordsAre, <2>1, <2>2, <2>3, <2>4, <2>5, <2>6, <2>7 DEF Texts, SentinelInv
<1>18. CASE PressCopy
  BY <1>18, WordsAre DEF Records, ShapedMind, Texts, Flags, Known, SentinelInv, PressCopy
<1>19. CASE TakeResponse
  <2>1. pc = "take" /\ pc' \in {"reread", "failed"}
    BY <1>19 DEF TakeResponse, Records, Marked, ShapedMind
  <2>2. desk'.clipboard \in Copyable \cup {"sentinel"} /\ app'.answer \in Copyable
    BY <1>19, WordsAre DEF TakeResponse, Records, Texts, SentinelInv, Marked, ShapedMind
  <2>3. /\ log'.stray = log.stray
        /\ desk'.clipboard = "sentinel" => pc' = "failed" /\ log'.reason \in {"not_read", "not_restored"}
    <3>1. log'.stray = log.stray
      BY <1>19 DEF TakeResponse, Records
    <3>2. desk'.clipboard = "sentinel" => pc' = "failed" /\ log'.reason \in {"not_read", "not_restored"}
      BY <1>19, WordsAre DEF TakeResponse, Records, Texts, Marked, Fail
    <3> QED BY <3>1, <3>2
  <2>4. app'.box \in Seq(Word)
    BY <1>19, WordsAre DEF TakeResponse, Records, Texts, Marked, ShapedMind
  <2>5. Flags'
    BY <1>19 DEF TakeResponse, Records, Flags, Loses, Marked, ShapedMind
  <2>6. mind'.prompt \in Copyable /\ mind'.before \in Copyable /\ mind'.button \in Copyable
    BY <1>19, <2>1, WordsAre
    DEF TakeResponse, Records, Texts, SentinelInv, Marked, ShapedMind
  <2>7. Known'
    BY <1>19 DEF TakeResponse, Records, Known, Marked, ShapedMind
  <2> QED
    BY WordsAre, <2>1, <2>2, <2>3, <2>4, <2>5, <2>6, <2>7 DEF Texts, SentinelInv
<1>20. CASE RereadResponse
  BY <1>20, WordsAre
  DEF Records, ShapedMind, Texts, Flags, Known, SentinelInv, RereadResponse
<1>21. CASE PmRaise
  BY <1>21, WordsAre DEF Records, ShapedMind, Texts, Flags, Known, SentinelInv, PmRaise
<1> QED
  BY <1>1, <1>2, <1>3, <1>4, <1>5, <1>6, <1>7, <1>8, <1>9, <1>10, <1>11, <1>12, <1>13,
     <1>14, <1>15, <1>16, <1>17, <1>18, <1>19, <1>20, <1>21 DEF PmNext

LEMMA WebTexts ==
    ASSUME Labels, SentinelInv, Texts, Flags, Records, Known, Labels', WebNext
    PROVE  Texts' /\ Flags' /\ Known' /\ SentinelInv'
<1>1. CASE WebRaise
  BY <1>1, WordsAre DEF Records, ShapedMind, Texts, Flags, Known, SentinelInv, WebRaise
<1>2. CASE WebRead
  BY <1>2, WordsAre DEF Records, ShapedMind, Texts, Flags, Known, SentinelInv, WebRead
<1>3. CASE WebAwaitEmpty
  BY <1>3, WordsAre DEF Records, ShapedMind, Texts, Flags, Known, SentinelInv, WebAwaitEmpty
<1>4. CASE WebInsert
  <2>1. pc = "web_insert" /\ pc' \in {"web_ready", "failed"}
    BY <1>4 DEF WebInsert, Records, ShapedMind
  <2>2. desk'.clipboard = desk.clipboard /\ app'.answer \in Copyable
    BY <1>4, WordsAre, FillsDoes DEF WebInsert, Records, Texts, ShapedMind
  <2>3. log'.stray = log.stray
    BY <1>4, FillsDoes DEF WebInsert, Records, Texts, ShapedMind
  <2>4. app'.box \in Seq(Word)
    BY <1>4, WordsAre, FillsDoes, mind.prompt \in Copyable => <<mind.prompt>> \in Seq(Word)
    DEF WebInsert, Records, Texts, ShapedMind
  <2>5. Flags'
    BY <1>4, FillsDoes DEF WebInsert, Records, Flags, Loses, ShapedMind
  <2>6. mind'.prompt \in Copyable /\ mind'.before \in Copyable /\ mind'.button \in Copyable
    BY <1>4, FillsDoes DEF WebInsert, Records, Texts, ShapedMind
  <2>7. Known'
    BY <1>4, FillsDoes DEF WebInsert, Records, Known, ShapedMind
  <2> QED
    BY WordsAre, <2>1, <2>2, <2>3, <2>4, <2>5, <2>6, <2>7 DEF Texts, SentinelInv
<1>5. CASE WebAwaitReady
  BY <1>5, WordsAre DEF Records, ShapedMind, Texts, Flags, Known, SentinelInv, WebAwaitReady
<1>6. CASE WebPress
  <2>1. pc = "web_press" /\ pc' \in {"web_answer", "failed"}
    BY <1>6 DEF WebPress, Records, ShapedMind
  <2>2. desk'.clipboard = desk.clipboard /\ app'.answer \in Copyable
    BY <1>6, WordsAre, TakesDoes DEF WebPress, Records, Texts, ShapedMind
  <2>3. log'.stray = log.stray
    BY <1>6, TakesDoes DEF WebPress, Records, Texts, ShapedMind
  <2>4. app'.box \in Seq(Word)
    BY <1>6, WordsAre, TakesDoes, <<>> \in Seq(Word)
    DEF WebPress, Records, Texts, ShapedMind
  <2>5. Flags'
    BY <1>6, TakesDoes DEF WebPress, Records, Flags, Loses, ShapedMind
  <2>6. mind'.prompt \in Copyable /\ mind'.before \in Copyable /\ mind'.button \in Copyable
    BY <1>6, TakesDoes DEF WebPress, Records, Texts, ShapedMind
  <2>7. Known'
    BY <1>6, TakesDoes DEF WebPress, Records, Known, ShapedMind
  <2> QED
    BY WordsAre, <2>1, <2>2, <2>3, <2>4, <2>5, <2>6, <2>7 DEF Texts, SentinelInv
<1>7. CASE WebAwaitAnswer
  BY <1>7, WordsAre
  DEF Records, ShapedMind, Texts, Flags, Known, SentinelInv, WebAwaitAnswer
<1>8. CASE WebCopy
  BY <1>8, WordsAre
  DEF Records, ShapedMind, Texts, Flags, Known, SentinelInv, WebCopy, Leaves, Strategies
<1>9. CASE WebTaken
  BY <1>9, WordsAre
  DEF Records, ShapedMind, Texts, Flags, Known, SentinelInv, WebTaken, Strategies
<1> QED
  BY <1>1, <1>2, <1>3, <1>4, <1>5, <1>6, <1>7, <1>8, <1>9 DEF WebNext

LEMMA AgentTexts ==
    ASSUME Labels, SentinelInv, Texts, Flags, Records, Known, Labels', AgentNext
    PROVE  Texts' /\ Flags' /\ Known' /\ SentinelInv'
<1>1. CASE AgentRead
  BY <1>1, WordsAre DEF Records, ShapedMind, Texts, Flags, Known, SentinelInv, AgentRead
<1>2. CASE AgentActivate
  BY <1>2, WordsAre DEF Records, ShapedMind, Texts, Flags, Known, SentinelInv, AgentActivate
<1>3. CASE AgentClick
  <2>1. pc = "agent_click" /\ pc' \in {"agent_set", "agent_activate", "failed"}
    BY <1>3 DEF AgentClick, Records, ShapedMind
  <2>2. desk'.clipboard = desk.clipboard /\ app'.answer \in Copyable
    BY <1>3, WordsAre DEF AgentClick, Records, Texts, ShapedMind
  <2>3. log'.stray = log.stray
    BY <1>3 DEF AgentClick, Records, Texts, ShapedMind
  <2>4. app'.box \in Seq(Word)
    BY <1>3, WordsAre DEF AgentClick, Records, Texts, ShapedMind
  <2>5. Flags'
    BY <1>3 DEF AgentClick, Records, Flags, Loses, ShapedMind
  <2>6. mind'.prompt \in Copyable /\ mind'.before \in Copyable /\ mind'.button \in Copyable
    BY <1>3 DEF AgentClick, Records, Texts, ShapedMind
  <2>7. Known'
    BY <1>3 DEF AgentClick, Records, Known, ShapedMind
  <2> QED
    BY WordsAre, <2>1, <2>2, <2>3, <2>4, <2>5, <2>6, <2>7 DEF Texts, SentinelInv
<1>4. CASE AgentSet
  BY <1>4, WordsAre DEF Records, ShapedMind, Texts, Flags, Known, SentinelInv, AgentSet
<1>5. CASE AgentReadback
  BY <1>5, WordsAre DEF Records, ShapedMind, Texts, Flags, Known, SentinelInv, AgentReadback
<1>6. CASE AgentPaste
  BY <1>6, WordsAre, PasteDoes
  DEF Records, ShapedMind, Texts, Flags, Known, SentinelInv, AgentPaste
<1>7. CASE AgentInspect
  BY <1>7, WordsAre DEF Records, ShapedMind, Texts, Flags, Known, SentinelInv, AgentInspect
<1>8. CASE AgentEnter
  <2>1. pc = "agent_enter" /\ pc' = "agent_confirm"
    BY <1>8 DEF AgentEnter, Records, ShapedMind
  <2>2. desk'.clipboard = desk.clipboard /\ app'.answer \in Copyable
    BY <1>8, WordsAre, TakesDoes DEF AgentEnter, Records, Texts, ShapedMind
  <2>3. log'.stray \subseteq log.stray \cup {"enter"}
    BY <1>8, TakesDoes DEF AgentEnter, Records, Texts, ShapedMind
  <2>4. app'.box \in Seq(Word)
    BY <1>8, WordsAre, TakesDoes, <<>> \in Seq(Word)
    DEF AgentEnter, Records, Texts, ShapedMind
  <2>5. Flags'
    BY <1>8, TakesDoes DEF AgentEnter, Records, Flags, Loses, ShapedMind
  <2>6. mind'.prompt \in Copyable /\ mind'.before \in Copyable /\ mind'.button \in Copyable
    BY <1>8, TakesDoes DEF AgentEnter, Records, Texts, ShapedMind
  <2>7. Known'
    BY <1>8, TakesDoes DEF AgentEnter, Records, Known, ShapedMind
  <2> QED
    BY WordsAre, <2>1, <2>2, <2>3, <2>4, <2>5, <2>6, <2>7 DEF Texts, SentinelInv
<1>9. CASE AgentConfirm
  BY <1>9, WordsAre DEF Records, ShapedMind, Texts, Flags, Known, SentinelInv, AgentConfirm
<1> QED
  BY <1>1, <1>2, <1>3, <1>4, <1>5, <1>6, <1>7, <1>8, <1>9 DEF AgentNext

LEMMA DiagnosticsTexts ==
    ASSUME Labels, SentinelInv, Texts, Flags, Records, Known, Labels', DiagnosticsNext
    PROVE  Texts' /\ Flags' /\ Known' /\ SentinelInv'
<1>1. CASE TestActivate
  BY <1>1, WordsAre DEF Records, ShapedMind, Texts, Flags, Known, SentinelInv, TestActivate
<1>2. CASE TestReady
  <2>1. pc = "test" /\ pc' \in {"test", "look", "failed"}
    BY <1>2 DEF TestReady, Records, ShapedMind
  <2>2. desk'.clipboard = desk.clipboard /\ app'.answer \in Copyable
    BY <1>2, WordsAre DEF TestReady, Records, Texts, ShapedMind
  <2>3. log'.stray = log.stray
    BY <1>2 DEF TestReady, Records, Texts, ShapedMind
  <2>4. app'.box \in Seq(Word)
    BY <1>2, WordsAre DEF TestReady, Records, Texts, ShapedMind
  <2>5. Flags'
    BY <1>2 DEF TestReady, Records, Flags, Loses, ShapedMind
  <2>6. mind'.prompt \in Copyable /\ mind'.before \in Copyable /\ mind'.button \in Copyable
    BY <1>2 DEF TestReady, Records, Texts, ShapedMind
  <2>7. Known'
    BY <1>2 DEF TestReady, Records, Known, ShapedMind
  <2> QED
    BY WordsAre, <2>1, <2>2, <2>3, <2>4, <2>5, <2>6, <2>7 DEF Texts, SentinelInv
<1>3. CASE TestClick
  BY <1>3, WordsAre, ClickedDoes, NextVariantDoes
  DEF Records, ShapedMind, Texts, Flags, Known, SentinelInv, TestClick
<1>4. CASE VariantClick
  BY <1>4, WordsAre, ClickedDoes, NextVariantDoes
  DEF Records, ShapedMind, Texts, Flags, Known, SentinelInv, VariantClick
<1>5. CASE TestCopy
  BY <1>5, WordsAre DEF Records, ShapedMind, Texts, Flags, Known, SentinelInv, TestCopy
<1>6. CASE TestPaste
  <2>1. pc = "test_paste" /\ pc' = "detect"
    BY <1>6 DEF TestPaste, Records, ShapedMind
  <2>0. desk.clipboard \in Copyable
    BY <2>1 DEF Texts, SentinelInv
  <2>2. /\ desk'.clipboard = desk.clipboard
        /\ app'.answer \in Copyable /\ app'.box \in Seq(Word)
        /\ log'.stray \subseteq log.stray \cup {"marker", desk.clipboard} /\ Flags'
    <3>1. Typed(app.box, "marker") \in Seq(Word) /\ Typed(app.box, "bit") \in Seq(Word)
      BY TypedType, WordsAre DEF Texts
    <3>2. CASE PasteByKeys
      BY <1>6, <2>0, <3>2, PasteDoes DEF TestPaste, Texts, Flags
    <3>3. CASE Fills(Typed(app.box, "marker")) \/ Fills(Typed(app.box, "bit"))
      BY <1>6, <3>1, <3>3, FillsDoes DEF TestPaste, Texts, Flags, Loses
    <3>4. CASE Strays("marker")
      BY <1>6, <3>4, StraysDoes DEF TestPaste, Texts, Flags
    <3>5. CASE UNCHANGED <<desk, app, log>>
      BY <1>6, <3>5 DEF TestPaste, Texts, Flags
    <3> QED
      BY <1>6, <3>2, <3>3, <3>4, <3>5 DEF TestPaste
  <2>6. mind'.prompt \in Copyable /\ mind'.before \in Copyable /\ mind'.button \in Copyable
    BY <1>6 DEF TestPaste, Records, Texts, ShapedMind
  <2>7. Known'
    BY <1>6 DEF TestPaste, Records, Known, ShapedMind
  <2> QED
    BY WordsAre, <2>1, <2>0, <2>2, <2>6, <2>7 DEF Texts, SentinelInv
<1>7. CASE TestPasteRaises
  <2>1. pc = "test_paste" /\ pc' \in {"variant", "failed", "snapshot"}
    BY <1>7, NextVariantDoes DEF TestPasteRaises, Records, ShapedMind
  <2>2. desk'.clipboard = desk.clipboard /\ app'.answer \in Copyable
    BY <1>7, WordsAre, NextVariantDoes DEF TestPasteRaises, Records, Texts, ShapedMind
  <2>3. log'.stray = log.stray
    BY <1>7, NextVariantDoes DEF TestPasteRaises, Records, Texts, ShapedMind
  <2>4. app'.box \in Seq(Word)
    <3>1. Typed(app.box, "bit") \in Seq(Word)
      BY TypedType, WordsAre DEF Texts
    <3>2. app' = app \/ app' = [app EXCEPT !.box = Typed(@, "bit")]
      BY <1>7 DEF TestPasteRaises
    <3> QED
      BY <3>1, <3>2 DEF Records, Texts
  <2>5. Flags'
    BY <1>7, NextVariantDoes DEF TestPasteRaises, Records, Flags, Loses, ShapedMind
  <2>6. mind'.prompt \in Copyable /\ mind'.before \in Copyable /\ mind'.button \in Copyable
    BY <1>7, NextVariantDoes DEF TestPasteRaises, Records, Texts, ShapedMind
  <2>7. Known'
    BY <1>7, NextVariantDoes DEF TestPasteRaises, Records, Known, ShapedMind
  <2> QED
    BY WordsAre, <2>1, <2>2, <2>3, <2>4, <2>5, <2>6, <2>7 DEF Texts, SentinelInv
<1>8. CASE TestDetect
  BY <1>8, WordsAre, NextVariantDoes, ReportsDoes
  DEF Records, ShapedMind, Texts, Flags, Known, SentinelInv, TestDetect, ShapedMind
<1>9. CASE ClearSelect
  <2>1. pc \in {"sweep", "clean"} /\ app' = app
    BY <1>9 DEF ClearSelect
  <2>2. CASE UNCHANGED <<mind, log>> /\ pc' \in {"sweep_delete", "clean_delete"}
             /\ desk' = [desk EXCEPT !.selected = IF OnTarget THEN app.box # <<>> ELSE @]
    BY <2>1, <2>2 DEF Records, Texts, Flags, Known, SentinelInv
  <2>3. CASE UNCHANGED desk /\ NextVariant([mind EXCEPT !.cleaned = "failed"])
    <3>1. ShapedMind([mind EXCEPT !.cleaned = "failed"])
      BY DEF Records, ShapedMind
    <3>2. /\ [mind EXCEPT !.cleaned = "failed"].prompt = mind.prompt
          /\ [mind EXCEPT !.cleaned = "failed"].before = mind.before
          /\ [mind EXCEPT !.cleaned = "failed"].button = mind.button
          /\ [mind EXCEPT !.cleaned = "failed"].overwrite = mind.overwrite
      BY DEF Records, ShapedMind
    <3> QED
      BY <2>1, <2>3, <3>1, <3>2, NextVariantDoes DEF Texts, Flags, Known, SentinelInv
  <2>4. CASE UNCHANGED desk /\ Reports(TRUE, "clear_failed")
    BY <2>1, <2>4, ReportsDoes DEF Texts, Flags, Known, SentinelInv
  <2> QED
    BY <1>9, <2>1, <2>2, <2>3, <2>4 DEF ClearSelect
<1>10. CASE Sweep
  <2>1. pc = "sweep_delete" /\ pc' \in {"swept", "sweep_failed"}
    BY <1>10 DEF Sweep, Records, ShapedMind
  <2>2. desk'.clipboard = desk.clipboard /\ app'.answer \in Copyable
    BY <1>10, WordsAre, FillsDoes, StraysDoes DEF Sweep, Records, Texts, ShapedMind
  <2>3. log'.stray \subseteq log.stray \cup {"clear"}
    BY <1>10, FillsDoes, StraysDoes DEF Sweep, Records, Texts, ShapedMind
  <2>4. app'.box \in Seq(Word)
    BY <1>10, WordsAre, FillsDoes, StraysDoes, ShortenedType
    DEF Sweep, Records, Texts, ShapedMind
  <2>5. Flags'
    BY <1>10, FillsDoes, StraysDoes DEF Sweep, Records, Flags, Loses, ShapedMind
  <2>6. mind'.prompt \in Copyable /\ mind'.before \in Copyable /\ mind'.button \in Copyable
    BY <1>10, FillsDoes, StraysDoes DEF Sweep, Records, Texts, ShapedMind
  <2>7. Known'
    BY <1>10, FillsDoes, StraysDoes DEF Sweep, Records, Known, ShapedMind
  <2> QED
    BY WordsAre, <2>1, <2>2, <2>3, <2>4, <2>5, <2>6, <2>7 DEF Texts, SentinelInv
<1>11. CASE Swept
  BY <1>11, WordsAre, NextVariantDoes, ReportsDoes
  DEF Records, ShapedMind, Texts, Flags, Known, SentinelInv, Swept, ShapedMind
<1>12. CASE TestSnapshot
  BY <1>12, WordsAre, ReportsDoes
  DEF Records, ShapedMind, Texts, Flags, Known, SentinelInv, TestSnapshot
<1>13. CASE Clean
  <2>1. pc = "clean_delete" /\ pc' \in {"verify", "done"}
    BY <1>13, ReportsDoes DEF Clean, Records, ShapedMind
  <2>2. desk'.clipboard = desk.clipboard /\ app'.answer \in Copyable
    BY <1>13, WordsAre, FillsDoes, StraysDoes, ReportsDoes
    DEF Clean, Records, Texts, ShapedMind
  <2>3. log'.stray \subseteq log.stray \cup {"clear"}
    BY <1>13, FillsDoes, StraysDoes, ReportsDoes DEF Clean, Records, Texts, ShapedMind
  <2>4. app'.box \in Seq(Word)
    BY <1>13, WordsAre, FillsDoes, StraysDoes, ReportsDoes, ShortenedType
    DEF Clean, Records, Texts, ShapedMind
  <2>5. Flags'
    BY <1>13, FillsDoes, StraysDoes, ReportsDoes
    DEF Clean, Records, Flags, Loses, ShapedMind
  <2>6. mind'.prompt \in Copyable /\ mind'.before \in Copyable /\ mind'.button \in Copyable
    BY <1>13, FillsDoes, StraysDoes, ReportsDoes DEF Clean, Records, Texts, ShapedMind
  <2>7. Known'
    BY <1>13, FillsDoes, StraysDoes, ReportsDoes DEF Clean, Records, Known, ShapedMind
  <2> QED
    BY WordsAre, <2>1, <2>2, <2>3, <2>4, <2>5, <2>6, <2>7 DEF Texts, SentinelInv
<1>14. CASE TestVerify
  BY <1>14, WordsAre, ReportsDoes
  DEF Records, ShapedMind, Texts, Flags, Known, SentinelInv, TestVerify
<1>15. CASE FocusStart
  BY <1>15, WordsAre DEF Records, ShapedMind, Texts, Flags, Known, SentinelInv, FocusStart
<1>16. CASE FocusClick
  <2>1. pc = "point" /\ pc' \in {"point", "done", "type"}
    BY <1>16, CandidateDoes DEF FocusClick, Records, ShapedMind
  <2>2. desk'.clipboard = desk.clipboard /\ app'.answer \in Copyable
    BY <1>16, WordsAre, ClickedDoes, CandidateDoes
    DEF FocusClick, Records, Texts, ShapedMind
  <2>3. log'.stray = log.stray
    BY <1>16, ClickedDoes, CandidateDoes DEF FocusClick, Records, Texts, ShapedMind
  <2>4. app'.box \in Seq(Word)
    BY <1>16, WordsAre, ClickedDoes, CandidateDoes
    DEF FocusClick, Records, Texts, ShapedMind
  <2>5. Flags'
    BY <1>16, ClickedDoes, CandidateDoes DEF FocusClick, Records, Flags, Loses, ShapedMind
  <2>6. mind'.prompt \in Copyable /\ mind'.before \in Copyable /\ mind'.button \in Copyable
    BY <1>16, ClickedDoes, CandidateDoes DEF FocusClick, Records, Texts, ShapedMind
  <2>7. Known'
    BY <1>16, ClickedDoes, CandidateDoes DEF FocusClick, Records, Known, ShapedMind
  <2> QED
    BY WordsAre, <2>1, <2>2, <2>3, <2>4, <2>5, <2>6, <2>7 DEF Texts, SentinelInv
<1>17. CASE FocusType
  <2>1. pc = "type" /\ pc' = "see"
    BY <1>17 DEF FocusType, Records, Letter, ShapedMind
  <2>2. /\ desk'.clipboard = desk.clipboard
        /\ app'.answer \in Copyable /\ app'.box \in Seq(Word)
        /\ log'.stray \subseteq log.stray \cup {"marker"} /\ Flags'
    <3>1. Typed(app.box, "marker") \in Seq(Word)
      BY TypedType, WordsAre DEF Texts
    <3>2. CASE Fills(Typed(app.box, "marker"))
      BY <1>17, <3>1, <3>2, FillsDoes DEF FocusType, Texts, Flags, Loses
    <3>3. CASE UNCHANGED <<desk, app, log>>
      BY <1>17, <3>3 DEF FocusType, Texts, Flags
    <3>4. CASE Strays("marker")
      BY <1>17, <3>4, StraysDoes DEF FocusType, Texts, Flags
    <3> QED
      BY <1>17, <3>2, <3>3, <3>4 DEF FocusType, Letter
  <2>6. mind'.prompt \in Copyable /\ mind'.before \in Copyable /\ mind'.button \in Copyable
    BY <1>17, FillsDoes, StraysDoes DEF FocusType, Records, Texts, Letter, ShapedMind
  <2>7. Known'
    BY <1>17, FillsDoes, StraysDoes DEF FocusType, Records, Known, Letter, ShapedMind
  <2> QED
    BY WordsAre, <2>1, <2>2, <2>6, <2>7 DEF Texts, SentinelInv
<1>18. CASE FocusTypeRaises
  <2>1. pc = "type" /\ pc' \in {"point", "done"}
    BY <1>18, CandidateDoes DEF FocusTypeRaises, Records, ShapedMind
  <2>2. desk'.clipboard = desk.clipboard /\ app'.answer \in Copyable
    BY <1>18, WordsAre, CandidateDoes DEF FocusTypeRaises, Records, Texts, ShapedMind
  <2>3. log'.stray = log.stray
    BY <1>18, CandidateDoes DEF FocusTypeRaises, Records, Texts, ShapedMind
  <2>4. app'.box \in Seq(Word)
    <3>1. Typed(app.box, "marker") \in Seq(Word)
      BY TypedType, WordsAre DEF Texts
    <3>2. app' = app \/ app' = [app EXCEPT !.box = Typed(@, "marker")]
      BY <1>18 DEF FocusTypeRaises
    <3> QED
      BY <3>1, <3>2 DEF Records, Texts
  <2>5. Flags'
    BY <1>18, CandidateDoes DEF FocusTypeRaises, Records, Flags, Loses, ShapedMind
  <2>6. mind'.prompt \in Copyable /\ mind'.before \in Copyable /\ mind'.button \in Copyable
    BY <1>18, CandidateDoes DEF FocusTypeRaises, Records, Texts, ShapedMind
  <2>7. Known'
    BY <1>18, CandidateDoes DEF FocusTypeRaises, Records, Known, ShapedMind
  <2> QED
    BY WordsAre, <2>1, <2>2, <2>3, <2>4, <2>5, <2>6, <2>7 DEF Texts, SentinelInv
<1>19. CASE FocusSee
  BY <1>19, WordsAre DEF Records, ShapedMind, Texts, Flags, Known, SentinelInv, FocusSee
<1>20. CASE FocusErase
  <2>1. pc = "erase" /\ pc' \in {"check_erased", "done"}
    BY <1>20, ReportsDoes DEF FocusErase, Records, Erased, ShapedMind
  <2>2. desk'.clipboard = desk.clipboard /\ app'.answer \in Copyable
    BY <1>20, WordsAre, FillsDoes, StraysDoes, ReportsDoes
    DEF FocusErase, Records, Texts, Erased, ShapedMind
  <2>3. log'.stray \subseteq log.stray \cup {"clear"}
    BY <1>20, FillsDoes, StraysDoes, ReportsDoes
    DEF FocusErase, Records, Texts, Erased, ShapedMind
  <2>4. app'.box \in Seq(Word)
    BY <1>20, WordsAre, FillsDoes, StraysDoes, ReportsDoes, ShortenedType
    DEF FocusErase, Records, Texts, Erased, ShapedMind
  <2>5. Flags'
    BY <1>20, FillsDoes, StraysDoes, ReportsDoes
    DEF FocusErase, Records, Flags, Loses, Erased, ShapedMind
  <2>6. mind'.prompt \in Copyable /\ mind'.before \in Copyable /\ mind'.button \in Copyable
    BY <1>20, FillsDoes, StraysDoes, ReportsDoes
    DEF FocusErase, Records, Texts, Erased, ShapedMind
  <2>7. Known'
    BY <1>20, FillsDoes, StraysDoes, ReportsDoes
    DEF FocusErase, Records, Known, Erased, ShapedMind
  <2> QED
    BY WordsAre, <2>1, <2>2, <2>3, <2>4, <2>5, <2>6, <2>7 DEF Texts, SentinelInv
<1>21. CASE FocusCheck
  BY <1>21, WordsAre, CandidateDoes, ReportsDoes
  DEF Records, ShapedMind, Texts, Flags, Known, SentinelInv, FocusCheck
<1> QED
  BY <1>1, <1>2, <1>3, <1>4, <1>5, <1>6, <1>7, <1>8, <1>9, <1>10, <1>11, <1>12, <1>13,
     <1>14, <1>15, <1>16, <1>17, <1>18, <1>19, <1>20, <1>21 DEF DiagnosticsNext

LEMMA EnvTexts ==
    ASSUME Labels, SentinelInv, Texts, Flags, Records, Known, Labels', Environment
    PROVE  Texts' /\ Flags' /\ Known' /\ SentinelInv'
<1>1. CASE AppStarts
  BY <1>1, WordsAre DEF Records, ShapedMind, Texts, Flags, Known, SentinelInv, AppStarts
<1>2. CASE AppAnswers
  BY <1>2, WordsAre DEF Records, ShapedMind, Texts, Flags, Known, SentinelInv, AppAnswers
<1>3. CASE UserSwitches
  BY <1>3, WordsAre, DeedDoes
  DEF Records, ShapedMind, Texts, Flags, Known, SentinelInv, UserSwitches
<1>4. CASE UserReturns
  BY <1>4, WordsAre, DeedDoes
  DEF Records, ShapedMind, Texts, Flags, Known, SentinelInv, UserReturns
<1>5. CASE UserCopies
  BY <1>5, WordsAre, DeedDoes
  DEF Records, ShapedMind, Texts, Flags, Known, SentinelInv, UserCopies
<1>6. CASE UserTypes
  <2>1. pc' = pc /\ pc \notin {"done", "failed"}
    BY <1>6, DeedDoes DEF UserTypes, Records, ShapedMind
  <2>2. desk'.clipboard = desk.clipboard /\ app'.answer \in Copyable
    BY <1>6, WordsAre, DeedDoes DEF UserTypes, Records, Texts, ShapedMind
  <2>3. log'.stray = log.stray
    BY <1>6, DeedDoes DEF UserTypes, Records, Texts, ShapedMind
  <2>4. app'.box \in Seq(Word)
    BY <1>6, WordsAre, DeedDoes, TypedType DEF UserTypes, Records, Texts, ShapedMind
  <2>5. Flags'
    BY <1>6, DeedDoes DEF UserTypes, Records, Flags, Loses, ShapedMind
  <2>6. mind'.prompt \in Copyable /\ mind'.before \in Copyable /\ mind'.button \in Copyable
    BY <1>6, DeedDoes DEF UserTypes, Records, Texts, ShapedMind
  <2>7. Known'
    BY <1>6, DeedDoes DEF UserTypes, Records, Known, ShapedMind
  <2> QED
    BY WordsAre, <2>1, <2>2, <2>3, <2>4, <2>5, <2>6, <2>7 DEF Texts, SentinelInv
<1>7. CASE UserSends
  <2>1. pc' = pc /\ pc \notin {"done", "failed"}
    BY <1>7 DEF UserSends, Records, ShapedMind
  <2>2. desk'.clipboard = desk.clipboard /\ app'.answer \in Copyable
    BY <1>7, WordsAre, TakesDoes DEF UserSends, Records, Texts, ShapedMind
  <2>3. log'.stray = log.stray
    BY <1>7, TakesDoes DEF UserSends, Records, Texts, ShapedMind
  <2>4. app'.box \in Seq(Word)
    BY <1>7, WordsAre, TakesDoes, <<>> \in Seq(Word)
    DEF UserSends, Records, Texts, ShapedMind
  <2>5. Flags'
    BY <1>7, TakesDoes DEF UserSends, Records, Flags, Loses, ShapedMind
  <2>6. mind'.prompt \in Copyable /\ mind'.before \in Copyable /\ mind'.button \in Copyable
    BY <1>7, TakesDoes DEF UserSends, Records, Texts, ShapedMind
  <2>7. Known'
    BY <1>7, TakesDoes DEF UserSends, Records, Known, ShapedMind
  <2> QED
    BY WordsAre, <2>1, <2>2, <2>3, <2>4, <2>5, <2>6, <2>7 DEF Texts, SentinelInv
<1> QED
  BY <1>1, <1>2, <1>3, <1>4, <1>5, <1>6, <1>7 DEF Environment

LEMMA PmAnswers ==
    ASSUME Labels, Known, Texts, SentinelInv, Records, AnswerInv, PmNext
    PROVE  AnswerInv'
<1> DEFINE answering == {"find", "press_copy", "take", "reread", "web_copy", "web_taken",
                         "done"}
<1>1. CASE ReadPrompt \/ AwaitIdle \/ PollIdle \/ ClickComposer \/ SelectAll \/
           CheckExisting \/ Reselect \/ SetClipboard \/ VerifyClipboard \/ PasteVariant \/
           CheckPasted \/ SeekSend \/ PressSend \/ Reflect \/ AwaitRunning \/ PmRaise
  <2>1. pc' \notin answering
    BY <1>1, AgainDoes
    DEF Known, ReadPrompt, AwaitIdle, PollIdle, ClickComposer, SelectAll, CheckExisting,
        Reselect, SetClipboard, VerifyClipboard, PasteVariant, CheckPasted, SeekSend,
        PressSend, Reflect, AwaitRunning, PmRaise
  <2> QED
    BY <2>1 DEF AnswerInv, AnswerIsNew
<1>2. CASE AwaitAnswer
  BY <1>2 DEF AwaitAnswer, AnswerInv, AnswerIsNew, Records
<1>3. CASE FindCopyButton
  BY <1>3 DEF FindCopyButton, AnswerInv, AnswerIsNew, Records, ShapedMind
<1>4. CASE PressCopy
  BY <1>4 DEF PressCopy, AnswerInv, AnswerIsNew, Records
<1>5. CASE TakeResponse
  BY <1>5 DEF TakeResponse, AnswerInv, AnswerIsNew, Records
<1>6. CASE RereadResponse
  BY <1>6
  DEF RereadResponse, AnswerInv, AnswerIsNew, Records, ShapedMind, Labels, PmLabels, Marked
<1> QED
  BY <1>1, <1>2, <1>3, <1>4, <1>5, <1>6 DEF PmNext

LEMMA WebAnswers ==
    ASSUME Labels, Known, Texts, SentinelInv, Records, AnswerInv, WebNext
    PROVE  AnswerInv'
<1>1. CASE WebRaise \/ WebRead \/ WebAwaitEmpty \/ WebInsert \/ WebAwaitReady \/ WebPress
  BY <1>1
  DEF AnswerInv, AnswerIsNew, WebRaise, WebRead, WebAwaitEmpty, WebInsert, WebAwaitReady,
      WebPress
<1>2. CASE WebAwaitAnswer
  BY <1>2 DEF WebAwaitAnswer, AnswerInv, AnswerIsNew, Records
<1>3. CASE WebCopy
  BY <1>3 DEF WebCopy, AnswerInv, AnswerIsNew, Records, ShapedMind, Leaves, Strategies, Known
<1>4. CASE WebTaken
  BY <1>4
  DEF WebTaken, AnswerInv, AnswerIsNew, Records, ShapedMind, Marked, Labels, WebLabels
<1> QED
  BY <1>1, <1>2, <1>3, <1>4 DEF WebNext

LEMMA EnvAnswers ==
    ASSUME Labels, Records, AnswerInv, Environment
    PROVE  AnswerInv'
<1> USE DEF AnswerInv, AnswerIsNew
<1>1. CASE AppStarts
  BY <1>1 DEF AppStarts, Records
<1>2. CASE AppAnswers
  BY <1>2 DEF AppAnswers, Records
<1>3. CASE UserSwitches
  BY <1>3, DeedDoes DEF UserSwitches, Records
<1>4. CASE UserReturns
  BY <1>4, DeedDoes DEF UserReturns, Records
<1>5. CASE UserCopies
  BY <1>5, DeedDoes DEF UserCopies, Records
<1>6. CASE UserTypes
  BY <1>6, DeedDoes DEF UserTypes, Records
<1>7. CASE UserSends
  BY <1>7, TakesDoes DEF UserSends
<1> QED
  BY <1>1, <1>2, <1>3, <1>4, <1>5, <1>6, <1>7 DEF Environment

LEMMA OtherAnswers ==
    ASSUME Labels', job' \notin {"pm", "web"}
    PROVE  AnswerInv'
  BY DEF AnswerInv, AnswerIsNew, Labels, PmLabels, WebLabels

LEMMA Jobs ==
    ASSUME Labels
    PROVE  /\ PmNext => job' = job /\ job = "pm"
           /\ WebNext => job' = job /\ job = "web"
           /\ AgentNext => job' = job /\ job = "agent"
           /\ DiagnosticsNext => job' = job /\ job \in Tests
<1>1. PmNext => job' = job /\ job = "pm"
  BY DEF Labels, PmLabels, PmNext, ReadPrompt, AwaitIdle, PollIdle, ClickComposer,
         SelectAll, CheckExisting, Reselect, SetClipboard, VerifyClipboard, PasteVariant,
         CheckPasted, SeekSend, PressSend, Reflect, AwaitRunning, AwaitAnswer,
         FindCopyButton, PressCopy, TakeResponse, RereadResponse, PmRaise
<1>2. WebNext => job' = job /\ job = "web"
  BY DEF Labels, WebLabels, WebNext, WebRaise, WebRead, WebAwaitEmpty, WebInsert,
         WebAwaitReady, WebPress, WebAwaitAnswer, WebCopy, WebTaken
<1>3. AgentNext => job' = job /\ job = "agent"
  BY DEF Labels, AgentLabels, AgentNext, AgentRead, AgentActivate, AgentClick, AgentSet,
         AgentReadback, AgentPaste, AgentInspect, AgentEnter, AgentConfirm
<1>4. DiagnosticsNext => job' = job /\ job \in Tests
  BY DEF Labels, Tests, TestLabels, FocusLabels, DiagnosticsNext, TestActivate, TestReady,
         TestClick, VariantClick, TestCopy, TestPaste, TestPasteRaises, TestDetect,
         ClearSelect, Sweep, Swept, TestSnapshot, Clean, TestVerify, FocusStart, FocusClick,
         FocusType, FocusTypeRaises, FocusSee, FocusErase, FocusCheck
<1> QED
  BY <1>1, <1>2, <1>3, <1>4

LEMMA LosesAre ==
    ASSUME NEW box, NEW text
    PROVE  /\ "draft" \notin Contents(box) => ~Loses(box, text)
           /\ Contents(box) \subseteq Contents(text) => ~Loses(box, text)
  BY DEF Loses

LEMMA ShortenedKeeps ==
    ASSUME NEW box \in Seq(Word), job = "focus", desk.selected = FALSE
    PROVE  /\ box = <<>> => Shortened(box) = <<>>
           /\ box = <<"marker">> => Shortened(box) = <<>>
           /\ box # <<>> /\ box[Len(box)] = "marker" => ~Loses(box, Shortened(box))
<1>1. box # <<>> => Shortened(box) = SubSeq(box, 1, Len(box) - 1)
  BY DEF Shortened
<1>2. box = <<>> => Shortened(box) = <<>>
  BY DEF Shortened
<1>3. CASE box # <<>> /\ box[Len(box)] = "marker"
  <2>1. \A i \in DOMAIN box : i = Len(box) \/ i \in 1 .. Len(box) - 1
    OBVIOUS
  <2>2. \A i \in 1 .. Len(box) - 1 : /\ i \in DOMAIN SubSeq(box, 1, Len(box) - 1)
                                    /\ SubSeq(box, 1, Len(box) - 1)[i] = box[i]
    OBVIOUS
  <2> QED
    BY <1>1, <1>3, <2>1, <2>2 DEF Loses, Contents
<1> QED
  BY <1>1, <1>2, <1>3

LEMMA AppendLast ==
    ASSUME NEW box \in Seq(Word)
    PROVE  /\ Append(box, "marker") # <<>>
           /\ Append(box, "marker")[Len(Append(box, "marker"))] = "marker"
           /\ ~Loses(box, Append(box, "marker"))
           /\ box = <<>> => Append(box, "marker") = <<"marker">>
<1>1. Contents(Append(box, "marker")) = Contents(box) \cup {"marker"}
  BY ContentsAppend
<1>2. ~Loses(box, Append(box, "marker"))
  BY <1>1 DEF Loses
<1>3. /\ Append(box, "marker") # <<>>
      /\ Append(box, "marker")[Len(Append(box, "marker"))] = "marker"
  OBVIOUS
<1>4. Append(<<>>, "marker") = <<"marker">>
  OBVIOUS
<1> QED
  BY <1>2, <1>3, <1>4

LEMMA EmptyContents == Contents(<<>>) = {} /\ \A x : Contents(<<x>>) = {x}
  BY DEF Contents

LEMMA WebDrafts ==
    ASSUME Labels, Texts, Records, WebInv, WebNext
    PROVE  WebInv'
<1>1. CASE WebRaise \/ WebRead \/ WebAwaitReady \/ WebAwaitAnswer \/ WebCopy \/ WebTaken
  BY <1>1
  DEF WebInv, WebRaise, WebRead, WebAwaitReady, WebAwaitAnswer, WebCopy, WebTaken, Records
<1>2. CASE WebAwaitEmpty
  BY <1>2, EmptyContents DEF WebAwaitEmpty, IdleEmpty, WebInv
<1>3. CASE WebInsert
  BY <1>3, FillsDoes, LosesAre DEF WebInsert, WebInv, Records
<1>4. CASE WebPress
  BY <1>4, TakesDoes DEF WebPress, WebInv, Records
<1> QED
  BY <1>1, <1>2, <1>3, <1>4 DEF WebNext

LEMMA EnvWebDrafts ==
    ASSUME Labels, Texts, Records, WebInv, Environment
    PROVE  WebInv'
<1>1. CASE AppStarts \/ AppAnswers
  BY <1>1 DEF AppStarts, AppAnswers, WebInv, Records
<1>3. CASE UserSwitches \/ UserReturns \/ UserCopies \/ UserTypes
  BY <1>3, DeedDoes DEF UserSwitches, UserReturns, UserCopies, UserTypes, WebInv, Records
<1>7. CASE UserSends
  BY <1>7, TakesDoes, EmptyContents DEF UserSends, WebInv
<1> QED
  BY <1>1, <1>3, <1>7 DEF Environment

LEMMA FocusKeeps ==
    ASSUME Labels, Texts, Flags, Records, Labels', Texts', FocusInv, DiagnosticsNext, job =
           "focus"
    PROVE  FocusInv'
<1> USE DEF FocusInv, SelectedFocuses, MarkerLeftIsTold, Left
<1>1. CASE TestActivate
  BY <1>1 DEF TestActivate, Records
<1>2. CASE FocusStart
  BY <1>2 DEF FocusStart, Records
<1>3. CASE FocusClick
  BY <1>3, ClickedDoes, CandidateDoes DEF FocusClick, Records
<1>4. CASE FocusType
  <2>1. Typed(app.box, "marker") = Append(app.box, "marker")
    BY DEF Typed
  <2>2. CASE OnTarget /\ desk.aimed /\ Fills(Append(app.box, "marker"))
    <3>1. /\ pc' = "see" /\ mind' = mind /\ app'.box = Append(app.box, "marker")
          /\ pc = "type" /\ job' = job
      BY <1>4, <2>2, FillsDoes DEF FocusType
    <3>2. /\ desk'.aimed = desk.aimed /\ desk.aimed /\ desk'.selected = FALSE
          /\ log'.user = log.user /\ log'.found = log.found /\ log'.reason = log.reason
          /\ log'.lost = (log.lost \/ Loses(app.box, Append(app.box, "marker")))
      BY <2>2, FillsDoes
    <3> QED
      BY <3>1, <3>2, AppendLast DEF Texts
  <2>3. CASE OnTarget /\ ~desk.aimed /\ UNCHANGED <<desk, app, log>>
    BY <1>4, <2>3 DEF FocusType
  <2>4. CASE Strays("marker")
    BY <1>4, <2>4, StraysDoes DEF FocusType
  <2> QED
    BY <1>4, <2>1, <2>2, <2>3, <2>4 DEF FocusType, Letter
<1>5. CASE FocusTypeRaises
  BY <1>5, CandidateDoes DEF FocusTypeRaises, Records
<1>6. CASE FocusSee
  BY <1>6, EmptyContents DEF FocusSee, LetterSight, Records, ShapedMind
<1>7. CASE FocusErase
  <2>1. CASE /\ OnTarget /\ desk.aimed /\ Fills(Erased(app.box))
             /\ pc' = "check_erased" /\ UNCHANGED mind
    BY ZenonT(60), <1>7, <2>1, FillsDoes, ShortenedKeeps, LosesAre, EmptyContents
    DEF FocusErase, Erased, Texts
  <2>2. CASE /\ OnTarget /\ ~desk.aimed
             /\ pc' = "check_erased" /\ UNCHANGED <<desk, app, mind, log>>
    BY <1>7, <2>2 DEF FocusErase
  <2>3. CASE Strays("clear") /\ pc' = "check_erased" /\ UNCHANGED mind
    BY <1>7, <2>3, StraysDoes DEF FocusErase
  <2>4. CASE Reports(TRUE, log.reason) /\ UNCHANGED <<desk, app>>
    BY <1>7, <2>4, ReportsDoes DEF FocusErase
  <2> QED
    BY <1>7, <2>1, <2>2, <2>3, <2>4 DEF FocusErase
<1>8. CASE FocusCheck
  <2>1. CASE Reports(TRUE, log.reason) /\ UNCHANGED <<desk, app>>
    BY <1>8, <2>1, ReportsDoes DEF FocusCheck
  <2>2. CASE "no" \in LetterSight /\ NextCandidate /\ UNCHANGED <<desk, app, log>>
    <3>1. "marker" \notin Contents(app.box)
      <4>1. "marker" \in Contents(app.box) => LetterSight = {"unknown"} \cup {"found"}
        BY EmptyContents DEF LetterSight
      <4> QED
        BY <2>2, <4>1
    <3>2. app.box # <<"marker">>
      BY <3>1, EmptyContents
    <3> QED
      BY <1>8, <2>2, <3>1, <3>2, CandidateDoes DEF FocusCheck
  <2> QED
    BY <1>8, <2>1, <2>2 DEF FocusCheck, Stops
<1> QED
  BY <1>1, <1>2, <1>3, <1>4, <1>5, <1>6, <1>7, <1>8
  DEF DiagnosticsNext, TestReady, TestClick, VariantClick, TestCopy, TestPaste,
      TestPasteRaises, TestDetect, ClearSelect, Sweep, Swept, TestSnapshot, Clean,
      TestVerify, Labels, TestLabels, FocusLabels

LEMMA EnvFocus ==
    ASSUME Labels, Texts, Flags, Records, FocusInv, Environment
    PROVE  FocusInv'
<1> USE DEF FocusInv, SelectedFocuses, MarkerLeftIsTold, Left
<1>1. CASE AppStarts \/ AppAnswers
  BY <1>1 DEF AppStarts, AppAnswers, Tests
<1>3. CASE UserSwitches
  BY <1>3, DeedDoes DEF UserSwitches, Records
<1>4. CASE UserReturns
  BY <1>4, DeedDoes DEF UserReturns, Records
<1>5. CASE UserCopies
  BY <1>5, DeedDoes DEF UserCopies, Records
<1>6. CASE UserTypes
  BY <1>6, DeedDoes, ContentsAppend DEF UserTypes, Records, Typed, Texts
<1>7. CASE UserSends
  BY <1>7, TakesDoes, EmptyContents DEF UserSends
<1> QED
  BY <1>1, <1>3, <1>4, <1>5, <1>6, <1>7 DEF Environment

LEMMA SetContents ==
    ASSUME NEW box \in Seq(Word), "draft" \notin Contents(box)
    PROVE  /\ "draft" \notin Contents(Typed(box, "marker"))
           /\ "draft" \notin Contents(Typed(box, "bit"))
           /\ \A text \in Copyable : "draft" \notin Contents(Typed(box, text))
           /\ "draft" \notin Contents(Shortened(box))
<1>1. \A text \in Copyable : /\ text \in Word /\ text # "draft"
                            /\ Contents(Typed(box, text)) \subseteq Contents(box) \cup {text}
  BY TypedType, WordsAre
<1>2. Contents(Shortened(box)) \subseteq Contents(box) \cup {"bit"}
  BY ShortenedType
<1>3. "marker" \in Copyable /\ "bit" \in Copyable
  BY WordsAre
<1> QED
  BY <1>1, <1>2, <1>3

LEMMA TestKeeps ==
    ASSUME Labels, Texts, Flags, SentinelInv, Records, TestInv, DiagnosticsNext, job = "test"
    PROVE  TestInv'
<1> USE DEF TestInv, MarkerLeftIsTold
<1>1. CASE TestActivate
  BY <1>1 DEF TestActivate, Records, TestLabels
<1>2. CASE TestReady
  <2>1. pc = "test" /\ app' = app /\ job' = job
    BY <1>2 DEF TestReady
  <2>2. CASE app.box = <<>> /\ UNCHANGED <<mind, log>>
    BY <2>1, <2>2, EmptyContents
  <2>3. CASE pc' = pc /\ UNCHANGED <<mind, log>>
    BY <2>1, <2>3 DEF TestLabels
  <2>4. CASE pc' = "look" /\ mind' = [mind EXCEPT !.overwrite = TRUE] /\ UNCHANGED log
    BY <2>1, <2>4 DEF Records, ShapedMind
  <2>5. CASE Fail("busy") /\ UNCHANGED mind
    BY <2>1, <2>5 DEF TestLabels, Records
  <2> QED
    BY <1>2, <2>2, <2>3, <2>4, <2>5 DEF TestReady, Proceeds
<1>3. CASE TestClick
  BY <1>3 DEF TestClick, Records, ShapedMind, TestLabels
<1>4. CASE VariantClick
  <2>1. CASE UNCHANGED <<mind, log>> /\ pc' = "copy"
    BY <1>4, <2>1 DEF VariantClick, TestLabels
  <2>2. CASE EndOfVariants(mind)
    BY <1>4, <2>2, NextVariantDoes DEF VariantClick, TestLabels, Records
  <2> QED
    BY <1>4, <2>1, <2>2 DEF VariantClick
<1>5. CASE TestCopy
  BY <1>5 DEF TestCopy, Records, TestLabels
<1>6. CASE TestPaste
  <2>1. /\ pc = "test_paste" /\ pc' = "detect" /\ mind' = mind /\ job' = job
        /\ desk.clipboard \in Copyable
    BY <1>6 DEF TestPaste, Texts, SentinelInv
  <2>2. CASE \E text \in Copyable : Fills(Typed(app.box, text))
    <3>1. PICK text \in Copyable : Fills(Typed(app.box, text))
      BY <2>2
    <3>2. /\ app'.box = Typed(app.box, text) /\ log'.user = log.user
          /\ log'.lost = (log.lost \/ Loses(app.box, Typed(app.box, text)))
      BY <3>1, FillsDoes
    <3>3. "draft" \notin Contents(app.box) => /\ "draft" \notin Contents(Typed(app.box, text))
                                             /\ ~Loses(app.box, Typed(app.box, text))
      BY SetContents, LosesAre DEF Texts
    <3> QED
      BY <2>1, <3>2, <3>3 DEF TestLabels
  <2>3. CASE UNCHANGED app /\ log'.user = log.user /\ log'.lost = log.lost
    BY <2>1, <2>3 DEF TestLabels
  <2>4. CASE PasteByKeys /\ ~OnTarget
    BY <2>1, <2>3, <2>4 DEF PasteByKeys, Records
  <2> QED
    BY <1>6, <2>1, <2>2, <2>3, <2>4, StraysDoes, WordsAre DEF TestPaste, PasteByKeys
<1>7. CASE TestPasteRaises
  <2>1. /\ pc = "test_paste" /\ pc' \in {"variant", "failed", "snapshot"} /\ job' = job
        /\ mind'.overwrite = mind.overwrite /\ log'.user = log.user /\ log'.lost = log.lost
    BY <1>7, NextVariantDoes DEF TestPasteRaises, Records
  <2>2. CASE UNCHANGED app
    BY <2>1, <2>2 DEF TestLabels
  <2>3. CASE app' = [app EXCEPT !.box = Typed(@, "bit")]
    BY <2>1, <2>3, SetContents DEF Texts, TestLabels, Records
  <2> QED
    BY <1>7, <2>2, <2>3 DEF TestPasteRaises
<1>8. CASE TestDetect
  BY <1>8, NextVariantDoes DEF TestDetect, Records, ShapedMind, TestLabels
<1>9. CASE ClearSelect
  <2>1. pc \in {"sweep", "clean"} /\ app' = app /\ job' = job
    BY <1>9 DEF ClearSelect
  <2>2. CASE UNCHANGED <<mind, log>> /\ pc' \in {"sweep_delete", "clean_delete"}
    BY <2>1, <2>2 DEF TestLabels
  <2>3. CASE NextVariant([mind EXCEPT !.cleaned = "failed"])
    BY <2>1, <2>3, NextVariantDoes DEF Records, ShapedMind, TestLabels
  <2>4. CASE Reports(TRUE, "clear_failed")
    BY <2>1, <2>4, ReportsDoes DEF TestLabels
  <2> QED
    BY <1>9, <2>2, <2>3, <2>4 DEF ClearSelect
<1>10. CASE Sweep
  BY <1>10, FillsDoes, StraysDoes, LosesAre, SetContents DEF Sweep, Texts, TestLabels
<1>11. CASE Swept
  BY <1>11, NextVariantDoes DEF Swept, Records, ShapedMind, TestLabels
<1>12. CASE TestSnapshot
  BY <1>12, ReportsDoes DEF TestSnapshot, TestLabels
<1>13. CASE Clean
  BY <1>13, FillsDoes, StraysDoes, ReportsDoes, LosesAre, SetContents
  DEF Clean, Texts, TestLabels
<1>14. CASE TestVerify
  BY <1>14, ReportsDoes DEF TestVerify, TestLabels
<1> QED
  BY <1>1, <1>2, <1>3, <1>4, <1>5, <1>6, <1>7, <1>8, <1>9, <1>10, <1>11, <1>12, <1>13, <1>14
  DEF DiagnosticsNext, FocusStart, FocusClick, FocusType, FocusTypeRaises, FocusSee,
      FocusErase, FocusCheck, Labels, TestLabels, FocusLabels

LEMMA EnvTest ==
    ASSUME Labels, Texts, Flags, Records, TestInv, Environment
    PROVE  TestInv'
<1> USE DEF TestInv, MarkerLeftIsTold
<1>1. CASE AppStarts \/ AppAnswers
  BY <1>1 DEF AppStarts, AppAnswers, Tests
<1>2. CASE UserSwitches \/ UserReturns \/ UserCopies
  BY <1>2, DeedDoes DEF UserSwitches, UserReturns, UserCopies
<1>3. CASE UserTypes
  BY <1>3, DeedDoes DEF UserTypes
<1>4. CASE UserSends
  BY <1>4, TakesDoes, EmptyContents DEF UserSends
<1> QED
  BY <1>1, <1>2, <1>3, <1>4 DEF Environment

-----------------------------------------------------------------------------
LEMMA PmChosen ==
    ASSUME Labels, Records, ChosenInv, PmNext
    PROVE  ChosenInv'
  BY DEF ChosenInv, Records, ShapedMind, Labels, FocusLabels, PmNext, ReadPrompt, AwaitIdle,
         PollIdle, ClickComposer, SelectAll, CheckExisting, Reselect, SetClipboard,
         VerifyClipboard, PasteVariant, CheckPasted, SeekSend, PressSend, Reflect,
         AwaitRunning, AwaitAnswer, FindCopyButton, PressCopy, TakeResponse, RereadResponse,
         PmRaise, Again, Forget, PasteByKeys, PasteIntoTarget, Fills, Takes

LEMMA WebChosen ==
    ASSUME Labels, Records, ChosenInv, WebNext
    PROVE  ChosenInv'
  BY DEF ChosenInv, Records, ShapedMind, Labels, FocusLabels, WebNext, WebRaise, WebRead,
         WebAwaitEmpty, WebInsert, WebAwaitReady, WebPress, WebAwaitAnswer, WebCopy,
         WebTaken, Fills, Takes

LEMMA AgentChosen ==
    ASSUME Labels, Records, ChosenInv, AgentNext
    PROVE  ChosenInv'
  BY DEF ChosenInv, Records, ShapedMind, Labels, FocusLabels, AgentNext, AgentRead,
         AgentActivate, AgentClick, AgentSet, AgentReadback, AgentPaste, AgentInspect,
         AgentEnter, AgentConfirm, PasteByKeys, PasteIntoTarget, Fills, Takes

LEMMA DiagnosticsChosen ==
    ASSUME Labels, Records, ChosenInv, DiagnosticsNext
    PROVE  ChosenInv'
  BY DEF ChosenInv, Records, ShapedMind, Labels, FocusLabels, DiagnosticsNext, TestActivate,
         TestReady, TestClick, VariantClick, TestCopy, TestPaste, TestPasteRaises,
         TestDetect, ClearSelect, Sweep, Swept, TestSnapshot, Clean, TestVerify, FocusStart,
         FocusClick, FocusType, FocusTypeRaises, FocusSee, FocusErase, FocusCheck,
         PasteByKeys, Fills, Strays, Reports, NextVariant, EndOfVariants, NextCandidate,
         Letter

LEMMA EnvChosen ==
    ASSUME Labels, Records, ChosenInv, Environment
    PROVE  ChosenInv'
  BY DEF ChosenInv, Records, ShapedMind, Labels, FocusLabels, Environment, AppStarts,
         AppAnswers, UserSwitches, UserReturns, UserCopies, UserTypes, UserSends, Deed,
         Takes

TypeInv == Labels /\ Records /\ Texts /\ Flags /\ Known /\ SentinelInv /\ ChosenInv

Inv == TypeInv /\ AnswerInv /\ WebInv /\ TestInv /\ FocusInv

LEMMA Starts == Init => Inv
<1> SUFFICES ASSUME Init PROVE Inv
  OBVIOUS
<1> USE DEF Init, DesktopInit
<1>1. Labels /\ Known /\ SentinelInv
  BY DEF Labels, Known, SentinelInv, PmLabels, WebLabels, AgentLabels, TestLabels,
         FocusLabels
<1>2. Records
  BY DEF Records, ShapedMind
<1>3. Texts /\ Flags
  <2>1. <<>> \in Seq(Word) /\ <<"draft">> \in Seq(Word) /\ <<"prompt">> \in Seq(Word)
    BY WordsAre
  <2>2. /\ desk.clipboard = "prompt" /\ app.answer = "old" /\ mind.prompt = "empty"
        /\ mind.before = "empty" /\ mind.button = "old"
        /\ app.box \in {<<>>, <<"draft">>, <<"prompt">>}
    OBVIOUS
  <2>3. /\ desk.selected = FALSE /\ desk.aimed = TRUE
        /\ mind.overwrite = FALSE /\ log.lost = FALSE
    OBVIOUS
  <2> QED
    BY ONLY <2>1, <2>2, <2>3, WordsAre DEF Texts, Flags
<1>4. AnswerInv /\ WebInv /\ TestInv
  BY DEF AnswerInv, AnswerIsNew, WebInv, TestInv, MarkerLeftIsTold, TestLabels
<1>5. FocusInv
  BY EmptyContents DEF FocusInv, Left, SelectedFocuses, MarkerLeftIsTold
<1> QED
  BY <1>1, <1>2, <1>3, <1>4, <1>5 DEF Inv, TypeInv, ChosenInv

LEMMA Steps == Inv /\ [Next]_vars => Inv'
<1> SUFFICES ASSUME Inv, [Next]_vars PROVE Inv'
  OBVIOUS
<1> USE DEF Inv, TypeInv
<1>1. CASE PmNext
  <2>1. TypeInv'
    BY <1>1, PmAt, PmShapes, PmTexts, PmChosen
  <2>2. job' = "pm"
    BY <1>1, Jobs
  <2> QED
    BY <1>1, <2>1, <2>2, PmAnswers DEF WebInv, TestInv, FocusInv
<1>2. CASE WebNext
  <2>1. TypeInv'
    BY <1>2, WebAt, WebShapes, WebTexts, WebChosen
  <2>2. job' = "web"
    BY <1>2, Jobs
  <2> QED
    BY <1>2, <2>1, <2>2, WebAnswers, WebDrafts DEF TestInv, FocusInv
<1>3. CASE AgentNext
  <2>1. TypeInv'
    BY <1>3, AgentAt, AgentShapes, AgentTexts, AgentChosen
  <2>2. job' = "agent"
    BY <1>3, Jobs
  <2> QED
    BY <2>1, <2>2, OtherAnswers DEF WebInv, TestInv, FocusInv
<1>4. CASE DiagnosticsNext
  <2>1. TypeInv'
    BY <1>4, DiagnosticsAt, DiagnosticsShapes, DiagnosticsTexts, DiagnosticsChosen
  <2>2. job' = job /\ job \in {"test", "focus"}
    BY <1>4, Jobs DEF Tests
  <2>3. TestInv' /\ FocusInv'
    BY <1>4, <2>1, <2>2, TestKeeps, FocusKeeps DEF TestInv, FocusInv
  <2> QED
    BY <2>1, <2>2, <2>3, OtherAnswers DEF WebInv
<1>5. CASE Environment
  <2>1. TypeInv'
    BY <1>5, EnvAt, EnvShapes, EnvTexts, EnvChosen
  <2> QED
    BY <1>5, <2>1, EnvAnswers, EnvWebDrafts, EnvTest, EnvFocus
<1>6. CASE UNCHANGED vars
  BY <1>6
  DEF vars, ChosenInv, Labels, Records, ShapedMind, Texts, Flags, Known, SentinelInv,
      AnswerInv, AnswerIsNew, WebInv, TestInv, FocusInv, Left, SelectedFocuses,
      MarkerLeftIsTold
<1> QED
  BY <1>1, <1>2, <1>3, <1>4, <1>5, <1>6 DEF Next

(* In every state of a session the invariants that tie its next step to    *)
(* the clipboard, the composer and what it remembers hold.                 *)
THEOREM InvHolds == Spec => []Inv
  BY Starts, Steps, PTL DEF Spec

(* The answer a PM session returns (copy_response_text, the copy           *)
(* strategies in the browser) is the answer to its question, but for the   *)
(* exceptions AnswerIsNew names, whatever the screens show.                *)
THEOREM AnswersAreNew == Spec => []AnswerIsNew
<1>1. Inv => AnswerIsNew
  BY DEF Inv, AnswerInv
<1> QED
  BY <1>1, InvHolds, PTL

(* The sentinel of the copy button's and of the copyback's check reaches   *)
(* no composer and no other app, and stays on the clipboard only after the *)
(* two failures that leave it there.                                       *)
THEOREM SentinelsAreTakenBack == Spec => []SentinelIsTakenBack
<1>1. Inv => SentinelIsTakenBack
  <2> SUFFICES ASSUME Inv PROVE SentinelIsTakenBack
    OBVIOUS
  <2>1. "sentinel" \notin Contents(app.box)
    BY WordsAre DEF Inv, TypeInv, Texts, Contents
  <2> QED
    BY <2>1 DEF Inv, TypeInv, SentinelInv, SentinelIsTakenBack
<1> QED
  BY <1>1, InvHolds, PTL

(* A diagnostic whose marker is still in the composer at its end asks for  *)
(* a manual cleanup, but for the three ways that MarkerLeftIsTold names,   *)
(* for any list of ways to paste and any number of candidate points.       *)
THEOREM MarkersLeftAreTold == Spec => []MarkerLeftIsTold
<1>1. Inv => MarkerLeftIsTold
  BY DEF Inv, TestInv, FocusInv, MarkerLeftIsTold, Tests
<1> QED
  BY <1>1, InvHolds, PTL

(* The browser's insert script, the paste test and the focus test destroy  *)
(* no draft but those DraftsSurvive names.                                 *)
THEOREM DraftsDoSurvive == Spec => []DraftsSurvive
<1>1. Inv => DraftsSurvive
  BY DEF Inv, TypeInv, Labels, TestInv, FocusInv, WebInv, DraftsSurvive, Tests
<1> QED
  BY <1>1, InvHolds, PTL

(* The point that the focus test recommends has focused the composer,      *)
(* unless the letter it looks for was there for another reason.            *)
THEOREM SelectedDoFocus == Spec => []SelectedFocuses
<1>1. Inv => SelectedFocuses
  BY DEF Inv, TypeInv, ChosenInv, FocusInv, SelectedFocuses
<1> QED
  BY <1>1, InvHolds, PTL

-----------------------------------------------------------------------------
(* What a detection tells.  From here on ScreensAssumption is used.        *)
LEMMA LeastIsThere ==
    ASSUME NEW S \in SUBSET Nat, S # {} PROVE \E n \in S : \A m \in S : n <= m
  <1> DEFINE R == {p \in Nat \X Nat : p[1] < p[2]}
  <1>1. IsWellFoundedOn(R, Nat)
    BY NatLessThanWellFounded, Zenon DEF OpToRel
  <1>2. PICK n \in S : \A m \in S : <<m, n>> \notin R
    <2> HIDE DEF R
    <2> QED BY <1>1, WFMin
  <1>3. \A m \in S : ~(m < n)
    BY <1>2
  <1> QED BY <1>3

LEMMA BestIsThere ==
    ASSUME NEW matches, matches # {}, NEW top \in Nat,
           \A m \in matches : m.score \in Nat /\ m.score <= top
    PROVE  Best(matches) \in matches /\ \A n \in matches : n.score <= Best(matches).score
<1> DEFINE below == {top - m.score : m \in matches}
<1>1. below \in SUBSET Nat /\ below # {}
  OBVIOUS
<1>2. PICK k \in below : \A i \in below : k <= i
  <2> HIDE DEF below
  <2> QED BY <1>1, LeastIsThere
<1>3. PICK m \in matches : k = top - m.score
  BY <1>2
<1>4. \A n \in matches : n.score <= m.score
  <2> TAKE n \in matches
  <2>1. top - m.score <= top - n.score
    BY <1>2, <1>3
  <2> QED BY <2>1
<1> QED BY <1>4 DEF Best

(* One match is ranked for each state, the best of that state.             *)
LEMMA RankedAre ==
    ASSUME NEW matches, NEW shown \in States, MatchedBest(matches, shown)
    PROVE  LET ranked == BestByState(matches)
           IN  /\ IsFiniteSet(ranked)
               /\ \A r \in ranked : r \in matches /\ StateOf[r.kind] \in States
               /\ \A r, q \in ranked : StateOf[r.kind] = StateOf[q.kind] => r = q
               /\ \E b \in ranked : StateOf[b.kind] = shown
               /\ \A b \in ranked : StateOf[b.kind] = shown =>
                     /\ \A m \in ranked : m.score \in Nat /\ m.score <= b.score
                     /\ \A m, n \in ranked :
                           {StateOf[m.kind], StateOf[n.kind]} = States \ {shown} =>
                               m.score < b.score \/ n.score < b.score
                     /\ \A n \in ranked \ {b} : b.shade >= 0 /\ n.shade >= 0 => b.shade < n.shade
<1> DEFINE ranked == BestByState(matches)
           some == {t \in States : OfState(matches, t) # {}}
<1>1. PICK own \in OfState(matches, shown) :
         /\ \A m \in matches : /\ m.kind \in DOMAIN StateOf /\ m.score \in Nat /\ m.shade \in Int
                               /\ m.kind # "plus" => m.score <= own.score
         /\ \A m, n \in matches : {StateOf[m.kind], StateOf[n.kind]} = States \ {shown} =>
               m.score < own.score \/ n.score < own.score
         /\ \A m \in OfState(matches, shown), n \in matches :
               StateOf[n.kind] \notin {"none", shown} /\ m.shade >= 0 /\ n.shade >= 0 =>
                   m.shade < n.shade
  BY DEF MatchedBest
<1>2. own \in matches /\ own.score \in Nat /\ StateOf[own.kind] = shown
  BY <1>1 DEF OfState
<1>3. ASSUME NEW s \in some
      PROVE  /\ Best(OfState(matches, s)) \in OfState(matches, s)
             /\ \A n \in OfState(matches, s) : n.score <= Best(OfState(matches, s)).score
  <2>1. \A m \in OfState(matches, s) : m.score \in Nat /\ m.score <= own.score
    BY <1>1 DEF OfState, States, StateOf
  <2> QED BY <1>2, <2>1, BestIsThere
<1>4. ranked = {Best(OfState(matches, s)) : s \in some}
  BY DEF BestByState
<1>5. \A r \in ranked : /\ r \in matches /\ StateOf[r.kind] \in some
                        /\ r = Best(OfState(matches, StateOf[r.kind]))
  BY <1>3, <1>4 DEF OfState
<1>6. shown \in some
  BY <1>1
<1>7. IsFiniteSet(ranked)
  <2> DEFINE best(s) == Best(OfState(matches, s))
  <2>1. IsFiniteSet(
            ({} \cup {best("IDLE")} \cup {best("COMPOSER_HAS_TEXT")}) \cup {best("RUNNING")})
    <3> HIDE DEF best
    <3>1. IsFiniteSet({} \cup {best("IDLE")})
      BY FS_EmptySet, FS_AddElement
    <3>2. IsFiniteSet({} \cup {best("IDLE")} \cup {best("COMPOSER_HAS_TEXT")})
      BY <3>1, FS_AddElement
    <3> QED BY <3>2, FS_AddElement
  <2>2. ranked \subseteq
           ({} \cup {best("IDLE")} \cup {best("COMPOSER_HAS_TEXT")}) \cup {best("RUNNING")}
    BY <1>4 DEF States
  <2> HIDE DEF best, ranked
  <2> QED BY <2>1, <2>2, FS_Subset
<1>8. \E b \in ranked : StateOf[b.kind] = shown
  <2>1. Best(OfState(matches, shown)) \in OfState(matches, shown)
    BY <1>3, <1>6
  <2>2. Best(OfState(matches, shown)) \in ranked
    BY <1>4, <1>6
  <2> QED BY <2>1, <2>2 DEF OfState
<1>9. ASSUME NEW b \in ranked, StateOf[b.kind] = shown
      PROVE  /\ \A m \in ranked : m.score \in Nat /\ m.score <= b.score
             /\ \A m, n \in ranked :
                   {StateOf[m.kind], StateOf[n.kind]} = States \ {shown} =>
                       m.score < b.score \/ n.score < b.score
             /\ \A n \in ranked \ {b} : b.shade >= 0 /\ n.shade >= 0 => b.shade < n.shade
  <2>1. own.score <= b.score /\ b \in OfState(matches, shown)
    BY <1>1, <1>3, <1>5, <1>6, <1>9
  <2>2. ASSUME NEW m \in ranked PROVE m \in matches /\ m.kind # "plus" /\ m.score \in Nat
    BY <1>1, <1>5 DEF StateOf, States
  <2>3. b.score = own.score
    BY <1>1, <1>2, <2>1, <2>2
  <2>4. ASSUME NEW n \in ranked \ {b} PROVE StateOf[n.kind] \notin {"none", shown}
    BY <1>5, <1>9 DEF States
  <2> QED BY <1>1, <2>1, <2>2, <2>3, <2>4
<1> QED BY <1>5, <1>7, <1>8, <1>9

LEMMA MatchesTell ==
    ASSUME NEW matches, NEW shown \in States,
           (\A m \in matches : m.kind = "plus") \/ MatchedBest(matches, shown)
    PROVE  /\ Selected(matches) \in {shown, "UNKNOWN", "AMBIGUOUS"}
           /\ Selected(matches) = "UNKNOWN" => \A m \in matches : StateOf[m.kind] \notin States
           /\ Selected(matches) \in States => OfState(matches, Selected(matches)) # {}
<1> DEFINE ranked == BestByState(matches)
           top == Best(ranked)
           second == Best(ranked \ {top})
<1>1. CASE \A m \in matches : m.kind = "plus"
  <2>1. \A s \in States : OfState(matches, s) = {}
    BY <1>1 DEF OfState, StateOf, States
  <2>2. ranked = {}
    BY <2>1 DEF BestByState
  <2>3. Cardinality(ranked) = 0
    BY <2>2, FS_EmptySet
  <2>4. Selected(matches) = "UNKNOWN"
    <3> HIDE DEF ranked
    <3> QED BY <2>2, <2>3 DEF Selected, ranked
  <2> QED BY <1>1, <2>4 DEF StateOf, States
<1>2. CASE MatchedBest(matches, shown)
  <2>1. /\ IsFiniteSet(ranked)
        /\ \A r \in ranked : r \in matches /\ StateOf[r.kind] \in States
        /\ \A r, q \in ranked : StateOf[r.kind] = StateOf[q.kind] => r = q
    BY <1>2, RankedAre
  <2>2. PICK b \in ranked : StateOf[b.kind] = shown
    BY <1>2, RankedAre
  <2>3. /\ \A m \in ranked : m.score \in Nat /\ m.score <= b.score
        /\ \A m, n \in ranked : {StateOf[m.kind], StateOf[n.kind]} = States \ {shown} =>
              m.score < b.score \/ n.score < b.score
        /\ \A n \in ranked \ {b} : b.shade >= 0 /\ n.shade >= 0 => b.shade < n.shade
    BY <1>2, <2>2, RankedAre
  <2>4. top \in ranked /\ top.score = b.score
    <3> HIDE DEF ranked
    <3>1. top \in ranked /\ \A n \in ranked : n.score <= top.score
      BY <2>2, <2>3, BestIsThere
    <3> QED BY <2>2, <2>3, <3>1
  <2>5. Cardinality(ranked) \in Nat /\ Cardinality(ranked) # 0
    <3> HIDE DEF ranked
    <3> QED BY <2>1, <2>2, FS_CardinalityType, FS_EmptySet
  <2>6. CASE Cardinality(ranked) = 1
    <3>1. top = b
      <4> HIDE DEF ranked, top
      <4> QED BY <2>1, <2>2, <2>4, <2>6, FS_Singleton
    <3>2. Selected(matches) = shown
      <4> HIDE DEF ranked, top
      <4> QED BY <2>2, <2>6, <3>1 DEF Selected, ranked, top
    <3> QED BY <2>1, <2>2, <3>2 DEF OfState, States
  <2>7. CASE Cardinality(ranked) > 1
    <3>1. second \in ranked \ {top} /\ \A n \in ranked \ {top} : n.score <= second.score
      <4>1. ranked # {top}
        <5> HIDE DEF ranked, top
        <5>1. Cardinality({top}) = 1
          BY FS_Singleton
        <5> QED BY <2>7, <5>1
      <4>2. ranked \ {top} # {}
        <5> HIDE DEF ranked, top
        <5> QED BY <2>4, <4>1
      <4> HIDE DEF ranked, top
      <4> QED BY <2>2, <2>3, <4>2, BestIsThere
    <3>5. top.score \in Nat /\ second.score \in Nat
      <4> HIDE DEF ranked, top, second
      <4> QED BY <2>3, <2>4, <3>1
    <3>2. CASE top.score - second.score > Margin
      <4>1. top = b
        <5> HIDE DEF ranked, top, second
        <5> QED BY <2>2, <2>3, <2>4, <3>1, <3>2, MarginsAssumption
      <4>2. Selected(matches) = shown
        <5> HIDE DEF ranked, top, second
        <5> QED BY <2>2, <2>5, <2>7, <3>2, <3>5, <4>1, MarginsAssumption
           DEF Selected, ranked, top, second
      <4> QED BY <2>1, <2>2, <4>2 DEF OfState, States
    <3>3. CASE top.score - second.score <= Margin /\ ~TellsByShade(top, second)
      <4>1. Selected(matches) = "AMBIGUOUS"
        <5> HIDE DEF ranked, top, second
        <5> QED BY <2>2, <2>5, <2>7, <3>3, <3>5, MarginsAssumption
           DEF Selected, ranked, top, second
      <4> QED BY <4>1 DEF States
    <3>4. CASE top.score - second.score <= Margin /\ TellsByShade(top, second)
      <4> HIDE DEF ranked, top, second
      <4>1. /\ {StateOf[top.kind], StateOf[second.kind]} = {"IDLE", "COMPOSER_HAS_TEXT"}
            /\ top.shade >= 0 /\ second.shade >= 0
        BY <3>4 DEF TellsByShade
      <4>2. shown # "RUNNING"
        <5>1. SUFFICES ASSUME shown = "RUNNING" PROVE FALSE
          OBVIOUS
        <5>2. {StateOf[top.kind], StateOf[second.kind]} = States \ {shown}
          BY <4>1, <5>1 DEF States
        <5>3. b.score <= second.score
          BY <2>2, <3>1, <4>1, <5>1
        <5> QED BY <2>2, <2>3, <2>4, <3>1, <5>2, <5>3
      <4>3. b = top \/ b = second
        BY <2>1, <2>2, <2>4, <3>1, <4>1, <4>2 DEF States
      <4>4. StateOf[IF top.shade < second.shade THEN top.kind ELSE second.kind] = shown
        <5>1. CASE b = top
          <6>1. top.shade < second.shade
            BY <2>3, <3>1, <4>1, <5>1
          <6> QED BY <2>2, <5>1, <6>1
        <5>2. CASE b = second
          <6>1. second.shade < top.shade
            BY <2>3, <2>4, <3>1, <4>1, <5>2
          <6>2. second.shade \in Int /\ top.shade \in Int
            BY <1>2, <2>1, <2>4, <3>1 DEF MatchedBest
          <6> QED BY <2>2, <5>2, <6>1, <6>2
        <5> QED BY <4>3, <5>1, <5>2
      <4>5. Selected(matches) = shown
        BY <2>2, <2>5, <2>7, <3>4, <3>5, <4>4, MarginsAssumption
           DEF Selected, ranked, top, second
      <4> QED BY <2>1, <2>2, <4>5 DEF OfState, States, ranked
    <3> HIDE DEF ranked, top, second
    <3> QED BY <3>2, <3>3, <3>4, <3>5, MarginsAssumption
  <2> HIDE DEF ranked
  <2> QED BY <2>5, <2>6, <2>7
<1> QED BY <1>1, <1>2

(* A detection finds the state that is shown or none it is sure of; it     *)
(* finds send only where it is, or on an ambiguous screen; and a screen    *)
(* with send on it is no proof that it has been clicked.                   *)
LEMMA SeenIs ==
    ASSUME NEW seen \in Seen
    PROVE  /\ seen.state \in {Shown, "UNKNOWN", "AMBIGUOUS"}
           /\ SendFound(seen) => Shown = "COMPOSER_HAS_TEXT" \/ seen.state = "AMBIGUOUS"
           /\ Reflected(seen) /\ Shown = "COMPOSER_HAS_TEXT" =>
                 seen.state \in {"UNKNOWN", "AMBIGUOUS"}
<1>1. Shown \in States
  BY Zenon DEF Shown, States
<1>2. PICK candidates \in Screens(Shown) : seen = Detection(candidates)
  BY <1>1 DEF Seen, Detections
<1> DEFINE matches == Accepted(candidates)
<1>3. (\A m \in matches : m.kind = "plus") \/ MatchedBest(matches, Shown)
  BY <1>1, <1>2, ScreensAssumption
<1>4. seen.state = Selected(matches) /\ seen.matches = Surviving(matches, Selected(matches))
  BY <1>2 DEF Detection
<1>5. ASSUME NEW m \in matches, m.kind \in DOMAIN StateOf, StateOf[m.kind] = "COMPOSER_HAS_TEXT"
      PROVE  m.kind = "send"
  BY <1>5 DEF StateOf
<1>6. \A m \in matches : m.kind \in DOMAIN StateOf
  BY <1>3 DEF MatchedBest, StateOf
<1> HIDE DEF matches
<1>7. /\ Selected(matches) \in {Shown, "UNKNOWN", "AMBIGUOUS"}
      /\ Selected(matches) = "UNKNOWN" => \A m \in matches : StateOf[m.kind] \notin States
      /\ Selected(matches) \in States => OfState(matches, Selected(matches)) # {}
  BY <1>1, <1>3, MatchesTell
<1>8. ASSUME SendFound(seen), Shown # "COMPOSER_HAS_TEXT" PROVE seen.state = "AMBIGUOUS"
  <2>1. PICK m \in Surviving(matches, Selected(matches)) : m.kind = "send"
    BY <1>4, <1>8 DEF SendFound, OfKind
  <2>2. m \in matches /\ StateOf[m.kind] = "COMPOSER_HAS_TEXT"
    BY <2>1 DEF Surviving, StateOf
  <2>3. Selected(matches) # "UNKNOWN"
    BY <1>7, <2>2 DEF States
  <2>4. Selected(matches) # Shown
    BY <1>1, <1>8, <2>1, <2>2 DEF Surviving, States
  <2> QED BY <1>4, <1>7, <2>3, <2>4
<1>9. ASSUME Shown = "COMPOSER_HAS_TEXT", seen.state = Shown PROVE ~Reflected(seen)
  <2>1. PICK m \in matches : StateOf[m.kind] = "COMPOSER_HAS_TEXT"
    BY <1>1, <1>4, <1>7, <1>9 DEF OfState
  <2>2. SendFound(seen)
    BY <1>4, <1>5, <1>6, <1>9, <2>1 DEF SendFound, OfKind, Surviving, States
  <2>3. ~StopFound(seen)
    BY <1>4, <1>9 DEF StopFound, OfKind, Surviving, States, StateOf
  <2> QED BY <1>9, <2>2, <2>3 DEF Reflected
<1> QED BY <1>4, <1>7, <1>8, <1>9

-----------------------------------------------------------------------------
(* What is sent, and what is clicked.                                      *)
(* The app is at work only on a message it had before or was sent, and     *)
(* only the PM session clicks where the stop button may be.                *)
AppInv ==
    /\ log.found \in {<<>>, <<"draft">>, <<"prompt">>}
    /\ app.shows \subseteq {"earlier", "ours"}
    /\ app.work \in {"idle", "queued", "running"}
    /\ app.work # "idle" => log.busy \/ log.sent # {}
    /\ job # "pm" => log.stopped = "no"

(* Once an app has been activated only the user takes the front from it.   *)
FrontInv ==
    /\ job # "web" /\ pc \notin {"read", "wait", "agent_activate", "failed"} =>
          desk.front = "app" \/ Did("switched")
    /\ log.stray # {} => Did("switched")

LEMMA TakesSends ==
    ASSUME Records, NEW who, Takes(who)
    PROVE  /\ app.box # <<>> /\ app.work = "idle" /\ app'.work = "queued"
           /\ log'.sent = log.sent \cup {[by |-> who, text |-> app.box]} /\ log'.sent # {}
           /\ log'.user = IF who = "user" THEN log.user \cup {"sent"} ELSE log.user
           /\ app'.shows = IF "prompt" \in Contents(app.box)
                           THEN app.shows \cup {"ours"} ELSE app.shows
           /\ log'.busy = log.busy /\ log'.stopped = log.stopped
<1>1. /\ app.box # <<>> /\ app.work = "idle"
      /\ log'.sent = log.sent \cup {[by |-> who, text |-> app.box]}
      /\ log'.user = IF who = "user" THEN log.user \cup {"sent"} ELSE log.user
      /\ log'.busy = log.busy /\ log'.stopped = log.stopped
  BY DEF Takes, CanAsk, Records
<1>2. /\ app'.work = "queued"
      /\ app'.shows = IF "prompt" \in Contents(app.box)
                      THEN app.shows \cup {"ours"} ELSE app.shows
  BY DEF Takes, Asked, Question, Records
<1> QED BY <1>1, <1>2

(* A step that clicks on no send button leaves the app at its work.        *)
Calm == /\ app'.work = app.work /\ app'.shows = app.shows /\ app'.asked = app.asked
        /\ log'.sent = log.sent /\ log'.stopped = log.stopped /\ log'.busy = log.busy
        /\ log'.found = log.found /\ log'.user = log.user

LEMMA PmCalm ==
    ASSUME Records, PmNext, pc # "press"
    PROVE  Calm
  BY ZenonT(60) DEF Calm, Records, PmNext, ReadPrompt, AwaitIdle, PollIdle, ClickComposer, SelectAll,
         CheckExisting, Reselect, SetClipboard, VerifyClipboard, PasteVariant,
         CheckPasted, SeekSend, PressSend, Reflect, AwaitRunning, AwaitAnswer,
         FindCopyButton, PressCopy, TakeResponse, RereadResponse, PmRaise, Again, Forget,
         PasteByKeys, PasteIntoTarget, Fills

LEMMA WebCalm ==
    ASSUME Records, WebNext, pc # "web_press"
    PROVE  Calm
  BY DEF Calm, Records, WebNext, WebRaise, WebRead, WebAwaitEmpty, WebInsert,
         WebAwaitReady, WebPress, WebAwaitAnswer, WebCopy, WebTaken, Fills

LEMMA AgentCalm ==
    ASSUME Records, AgentNext, pc # "agent_enter"
    PROVE  Calm
  BY DEF Calm, Records, AgentNext, AgentRead, AgentActivate, AgentClick, AgentSet,
         AgentReadback, AgentPaste, AgentInspect, AgentEnter, AgentConfirm, PasteByKeys,
         PasteIntoTarget, Fills

LEMMA DiagnosticsCalm ==
    ASSUME Records, DiagnosticsNext
    PROVE  Calm
  BY ZenonT(60) DEF Calm, Records, DiagnosticsNext, TestActivate, TestReady, TestClick, VariantClick,
         TestCopy, TestPaste, TestPasteRaises, TestDetect, ClearSelect, Sweep, Swept,
         TestSnapshot, Clean, TestVerify, FocusStart, FocusClick, FocusType,
         FocusTypeRaises, FocusSee, FocusErase, FocusCheck, PasteByKeys, Fills, Strays,
         Reports, NextVariant, EndOfVariants, NextCandidate, Letter

LEMMA PmAts ==
    ASSUME Labels, PmNext
    PROVE  pc = "read" \/ pc \in PmLabels
  BY DEF PmLabels, PmNext, ReadPrompt, AwaitIdle, PollIdle, ClickComposer, SelectAll,
         CheckExisting, Reselect, SetClipboard, VerifyClipboard, PasteVariant,
         CheckPasted, SeekSend, PressSend, Reflect, AwaitRunning, AwaitAnswer,
         FindCopyButton, PressCopy, TakeResponse, RereadResponse, PmRaise

LEMMA PmFront ==
    ASSUME Labels, Records, FrontInv, PmNext, pc # "press"
    PROVE  FrontInv'
<1>1. job' = job /\ job = "pm" /\ log'.user = log.user
  BY Jobs, PmCalm DEF Calm
<1>2. desk'.front \in {"app", desk.front}
  BY DEF Records, PmNext, ReadPrompt, AwaitIdle, PollIdle, ClickComposer, SelectAll,
         CheckExisting, Reselect, SetClipboard, VerifyClipboard, PasteVariant,
         CheckPasted, SeekSend, PressSend, Reflect, AwaitRunning, AwaitAnswer,
         FindCopyButton, PressCopy, TakeResponse, RereadResponse, PmRaise, Again, Forget,
         PasteByKeys, PasteIntoTarget, Fills
<1>3. pc = "read" => pc' \in {"wait", "failed"}
  BY DEF PmNext, ReadPrompt, AwaitIdle, PollIdle, ClickComposer, SelectAll, CheckExisting,
         Reselect, SetClipboard, VerifyClipboard, PasteVariant, CheckPasted, SeekSend,
         PressSend, Reflect, AwaitRunning, AwaitAnswer, FindCopyButton, PressCopy,
         TakeResponse, RereadResponse, PmRaise, Again, Forget, PasteByKeys,
         PasteIntoTarget, Fills
<1>4. pc = "wait" => desk'.front = "app" \/ pc' = "failed"
  BY DEF Records, PmNext, ReadPrompt, AwaitIdle, PollIdle, ClickComposer, SelectAll,
         CheckExisting, Reselect, SetClipboard, VerifyClipboard, PasteVariant,
         CheckPasted, SeekSend, PressSend, Reflect, AwaitRunning, AwaitAnswer,
         FindCopyButton, PressCopy, TakeResponse, RereadResponse, PmRaise, Again, Forget,
         PasteByKeys, PasteIntoTarget, Fills
<1>5. log'.stray # log.stray => pc = "paste" /\ desk.front # "app"
  BY DEF Records, PmNext, ReadPrompt, AwaitIdle, PollIdle, ClickComposer, SelectAll,
         CheckExisting, Reselect, SetClipboard, VerifyClipboard, PasteVariant,
         CheckPasted, SeekSend, PressSend, Reflect, AwaitRunning, AwaitAnswer,
         FindCopyButton, PressCopy, TakeResponse, RereadResponse, PmRaise, Again, Forget,
         PasteByKeys, PasteIntoTarget, Fills
<1>6. pc \notin {"agent_activate", "failed"}
  BY PmAts DEF PmLabels
<1> QED BY <1>1, <1>2, <1>3, <1>4, <1>5, <1>6 DEF FrontInv

(* What a click on send leaves alone, whether it sends or stops.           *)
LEMMA PressDoes ==
    ASSUME Records, PressSend
    PROVE  /\ pc = "press" /\ pc' = "reflect" /\ UNCHANGED <<job, mind>>
           /\ log'.user = log.user /\ log'.stray = log.stray /\ log'.busy = log.busy
           /\ log'.found = log.found /\ desk'.front = desk.front
           /\ desk'.clipboard = desk.clipboard
           /\ \/ Takes("bridge")
              \/ /\ app.work = "running" /\ app'.work = "idle" /\ app'.box = app.box
                 /\ log'.sent = log.sent /\ log'.stopped = mind.screen
                 /\ app'.shows = app.shows /\ UNCHANGED desk
              \/ UNCHANGED <<desk, app, log>>
<1>1. pc = "press" /\ pc' = "reflect" /\ UNCHANGED <<job, mind>>
  BY DEF PressSend
<1>2. CASE Takes("bridge")
  <2>1. /\ log'.user = log.user /\ log'.busy = log.busy
    BY <1>2, TakesSends
  <2>2. /\ log'.stray = log.stray /\ log'.found = log.found /\ desk'.front = desk.front
        /\ desk'.clipboard = desk.clipboard
    BY <1>2, TakesDoes
  <2> QED BY <1>1, <1>2, <2>1, <2>2
<1>3. CASE /\ app.work = "running" /\ app' = [app EXCEPT !.work = "idle", !.answer = "partial"]
           /\ log' = [log EXCEPT !.stopped = mind.screen] /\ UNCHANGED desk
  BY <1>1, <1>3 DEF Records
<1>4. CASE UNCHANGED <<desk, app, log>>
  BY <1>1, <1>4
<1> QED BY <1>2, <1>3, <1>4 DEF PressSend

LEMMA PmPresses ==
    ASSUME PmNext, pc = "press"
    PROVE  PressSend
  BY DEF PmNext, ReadPrompt, AwaitIdle, PollIdle, ClickComposer, SelectAll, CheckExisting,
         Reselect, SetClipboard, VerifyClipboard, PasteVariant, CheckPasted, SeekSend,
         PressSend, Reflect, AwaitRunning, AwaitAnswer, FindCopyButton, PressCopy,
         TakeResponse, RereadResponse, PmRaise

LEMMA PmApp ==
    ASSUME Labels, Records, AppInv, FrontInv, PmNext
    PROVE  AppInv' /\ FrontInv'
<1>1. CASE pc # "press"
  BY <1>1, PmCalm, PmFront, Jobs DEF Calm, AppInv
<1>2. CASE pc = "press"
  <2>1. PressSend /\ job = "pm"
    BY <1>2, PmPresses, Jobs
  <2> QED BY <2>1, PressDoes, TakesSends DEF AppInv, FrontInv
<1> QED BY <1>1, <1>2

LEMMA WebPresses ==
    ASSUME WebNext, pc = "web_press"
    PROVE  WebPress \/ WebRaise
  BY DEF WebNext, WebRaise, WebRead, WebAwaitEmpty, WebInsert, WebAwaitReady, WebPress,
         WebAwaitAnswer, WebCopy, WebTaken

LEMMA WebApp ==
    ASSUME Labels, Records, AppInv, FrontInv, WebNext
    PROVE  AppInv' /\ FrontInv'
<1>1. job' = job /\ job = "web"
  BY Jobs
<1>2. log'.stray = log.stray /\ log'.user = log.user /\ log'.found = log.found
  <2>1. CASE WebPress \/ WebRaise
    <3>1. CASE Takes("bridge")
      <4>1. log'.user = log.user
        BY <3>1, TakesSends
      <4> QED BY <3>1, <4>1, TakesDoes
    <3>2. CASE UNCHANGED log \/ \E reason : log' = [log EXCEPT !.reason = reason]
      BY <3>2 DEF Records
    <3> QED BY <2>1, <3>1, <3>2 DEF WebPress, WebRaise
  <2>2. CASE pc # "web_press"
    BY <2>2, WebCalm
    DEF Calm, Records, WebNext, WebRaise, WebRead, WebAwaitEmpty, WebInsert,
        WebAwaitReady, WebPress, WebAwaitAnswer, WebCopy, WebTaken, Fills
  <2> QED BY <2>1, <2>2, WebPresses
<1>3. CASE WebPress \/ WebRaise
  <2>1. CASE Takes("bridge")
    BY <1>1, <1>2, <2>1, TakesSends DEF AppInv, FrontInv
  <2>2. CASE app' = app /\ log'.sent = log.sent /\ log'.stopped = log.stopped /\ log'.busy = log.busy
    BY <1>1, <1>2, <2>2 DEF AppInv, FrontInv
  <2> QED BY <1>3, <2>1, <2>2 DEF WebPress, WebRaise, Records
<1>4. CASE pc # "web_press"
  BY <1>1, <1>2, <1>4, WebCalm DEF Calm, AppInv, FrontInv
<1> QED BY <1>3, <1>4, WebPresses

LEMMA AgentEnters ==
    ASSUME AgentNext, pc = "agent_enter"
    PROVE  AgentEnter
  BY DEF AgentNext, AgentRead, AgentActivate, AgentClick, AgentSet, AgentReadback,
         AgentPaste, AgentInspect, AgentEnter, AgentConfirm

LEMMA AgentApp ==
    ASSUME Labels, Records, AppInv, FrontInv, AgentNext
    PROVE  AppInv' /\ FrontInv'
<1>1. job' = job /\ job = "agent"
  BY Jobs
<1>2. CASE pc # "agent_enter"
  <2>1. Calm
    BY <1>2, AgentCalm
  <2>2. /\ desk'.front \in {"app", desk.front}
        /\ pc = "read" => pc' \in {"agent_activate", "failed"}
        /\ pc = "agent_activate" => desk'.front = "app" \/ pc' = "failed"
        /\ log'.stray # log.stray => pc = "agent_paste" /\ desk.front # "app"
        /\ pc \notin {"wait", "failed"}
    BY <1>2
    DEF Records, AgentNext, AgentRead, AgentActivate, AgentClick, AgentSet, AgentReadback,
        AgentPaste, AgentInspect, AgentEnter, AgentConfirm, PasteByKeys, PasteIntoTarget,
        Fills
  <2> QED BY <1>1, <2>1, <2>2 DEF Calm, AppInv, FrontInv
<1>3. CASE AgentEnter
  <2>1. CASE Takes("bridge")
    BY <1>1, <1>3, <2>1, TakesSends, TakesDoes DEF AppInv, FrontInv, AgentEnter
  <2>2. CASE UNCHANGED <<desk, app, log>>
    BY <1>1, <1>3, <2>2 DEF AppInv, FrontInv, AgentEnter
  <2>3. CASE ~OnTarget /\ log' = [log EXCEPT !.stray = @ \cup {"enter"}] /\ UNCHANGED <<desk, app>>
    <3>1. Calm
      BY <2>3 DEF Calm, Records
    <3>2. desk'.front = desk.front /\ desk.front # "app" /\ pc = "agent_enter"
      BY <1>3, <2>3 DEF AgentEnter
    <3> QED BY <1>1, <3>1, <3>2 DEF Calm, AppInv, FrontInv
  <2> QED BY <1>3, <2>1, <2>2, <2>3 DEF AgentEnter
<1> QED BY <1>2, <1>3, AgentEnters

LEMMA DiagnosticsApp ==
    ASSUME Labels, Records, AppInv, FrontInv, DiagnosticsNext
    PROVE  AppInv' /\ FrontInv'
<1>1. job' = job /\ job \in Tests /\ Calm
  BY Jobs, DiagnosticsCalm
<1>2. desk'.front \in {"app", desk.front}
  BY ClickedDoes
  DEF Records, DiagnosticsNext, TestActivate, TestReady, TestClick, VariantClick,
      TestCopy, TestPaste, TestPasteRaises, TestDetect, ClearSelect, Sweep, Swept,
      TestSnapshot, Clean, TestVerify, FocusStart, FocusClick, FocusType, FocusTypeRaises,
      FocusSee, FocusErase, FocusCheck, PasteByKeys, Fills, Strays, Reports, NextVariant,
      EndOfVariants, NextCandidate, Letter
<1>3. pc = "read" => desk'.front = "app" \/ pc' = "failed"
  BY DEF Records, DiagnosticsNext, TestActivate, TestReady, TestClick, VariantClick,
         TestCopy, TestPaste, TestPasteRaises, TestDetect, ClearSelect, Sweep, Swept,
         TestSnapshot, Clean, TestVerify, FocusStart, FocusClick, FocusType,
         FocusTypeRaises, FocusSee, FocusErase, FocusCheck, PasteByKeys, Fills, Strays,
         Reports, NextVariant, EndOfVariants, NextCandidate, Letter
<1>4. pc \notin {"wait", "failed", "agent_activate"}
  BY DEF Labels, Tests, DiagnosticsNext, TestActivate, TestReady, TestClick, VariantClick,
         TestCopy, TestPaste, TestPasteRaises, TestDetect, ClearSelect, Sweep, Swept,
         TestSnapshot, Clean, TestVerify, FocusStart, FocusClick, FocusType,
         FocusTypeRaises, FocusSee, FocusErase, FocusCheck
<1>5. log'.stray # log.stray => pc # "read" /\ desk.front # "app"
  BY DEF Records, DiagnosticsNext, TestActivate, TestReady, TestClick, VariantClick,
         TestCopy, TestPaste, TestPasteRaises, TestDetect, ClearSelect, Sweep, Swept,
         TestSnapshot, Clean, TestVerify, FocusStart, FocusClick, FocusType,
         FocusTypeRaises, FocusSee, FocusErase, FocusCheck, PasteByKeys, Fills, Strays,
         Reports, NextVariant, EndOfVariants, NextCandidate, Letter
<1> QED BY <1>1, <1>2, <1>3, <1>4, <1>5 DEF Calm, AppInv, FrontInv, Tests

LEMMA DeedCalm ==
    ASSUME Records, NEW what, Deed(what)
    PROVE  /\ log'.sent = log.sent /\ log'.stopped = log.stopped /\ log'.busy = log.busy
           /\ log'.found = log.found
  BY DEF Deed, Records

LEMMA EnvApp ==
    ASSUME Labels, Records, AppInv, FrontInv, Environment
    PROVE  AppInv' /\ FrontInv'
<1>1. CASE AppStarts \/ AppAnswers
  BY <1>1 DEF AppStarts, AppAnswers, AppInv, FrontInv, Records
<1>2. CASE UserSwitches
  BY <1>2, DeedCalm, DeedDoes DEF UserSwitches, AppInv, FrontInv
<1>4. CASE UserReturns
  BY <1>4, DeedCalm, DeedDoes DEF UserReturns, AppInv, FrontInv, Records
<1>5. CASE UserCopies
  BY <1>5, DeedCalm, DeedDoes DEF UserCopies, AppInv, FrontInv, Records
<1>6. CASE UserTypes
  BY <1>6, DeedCalm, DeedDoes DEF UserTypes, AppInv, FrontInv, Records
<1>3. CASE UserSends
  BY <1>3, TakesSends, TakesDoes DEF UserSends, AppInv, FrontInv
<1> QED BY <1>1, <1>2, <1>3, <1>4, <1>5, <1>6 DEF Environment

(* The steps before the paste is over, and those that submit it.           *)
Pasting == {"read", "wait", "poll", "click", "select", "check", "reselect", "set", "readback",
            "paste"}
Submitting == {"submit", "seek", "press", "reflect"}

(* A click on a send button that was there is a click on stop only if      *)
(* something was sent since: at the time of the click the app is at work   *)
(* on a message of the user's, or on the adapter's with a text typed after *)
(* it.                                                                     *)
StopInv == job = "pm" =>
    /\ app.work = "queued" =>
          /\ log.sent # {}
          /\ pc \in Pasting => Did("sent")
          /\ app.box # <<>> => Did("sent") \/ Did("typed")
    /\ pc = "press" /\ mind.screen # "AMBIGUOUS" /\ app.work # "idle" =>
          log.sent # {} /\ (Did("sent") \/ Did("typed"))
    /\ AnswerNotStopped

LEMMA PmBox ==
    ASSUME Records, Texts, PmNext, pc # "press"
    PROVE  \/ app'.box = app.box
           \/ pc = "reselect" /\ app'.box = <<>>
           \/ pc = "paste" /\ app'.box # <<>>
<1>1. pc \notin {"reselect", "paste"} => app' = app
  BY DEF PmNext, ReadPrompt, AwaitIdle, PollIdle, ClickComposer, SelectAll, CheckExisting,
         Reselect, SetClipboard, VerifyClipboard, PasteVariant, CheckPasted, SeekSend,
         PressSend, Reflect, AwaitRunning, AwaitAnswer, FindCopyButton, PressCopy,
         TakeResponse, RereadResponse, PmRaise, Again, Forget, PasteByKeys,
         PasteIntoTarget, Fills
<1>2. pc = "reselect" => app' = app \/ Fills(<<>>)
  BY DEF PmNext, ReadPrompt, AwaitIdle, PollIdle, ClickComposer, SelectAll, CheckExisting,
         Reselect, SetClipboard, VerifyClipboard, PasteVariant, CheckPasted, SeekSend,
         PressSend, Reflect, AwaitRunning, AwaitAnswer, FindCopyButton, PressCopy,
         TakeResponse, RereadResponse, PmRaise
<1>3. pc = "paste" => app' = app \/ Fills(Typed(app.box, desk.clipboard))
                                 \/ Fills(<<desk.clipboard>>)
  BY DEF PmNext, ReadPrompt, AwaitIdle, PollIdle, ClickComposer, SelectAll, CheckExisting,
         Reselect, SetClipboard, VerifyClipboard, PasteVariant, CheckPasted, SeekSend,
         PressSend, Reflect, AwaitRunning, AwaitAnswer, FindCopyButton, PressCopy,
         TakeResponse, RereadResponse, PmRaise, PasteByKeys, PasteIntoTarget
<1>4. Typed(app.box, desk.clipboard) # <<>> /\ <<desk.clipboard>> # <<>>
  <2>1. Append(app.box, desk.clipboard) # <<>>
    BY DEF Texts
  <2> QED BY <2>1 DEF Typed
<1> QED BY <1>1, <1>2, <1>3, <1>4, FillsDoes

LEMMA PmStops ==
    ASSUME Labels, Records, Texts, Flags, Known, AppInv, StopInv, PmNext
    PROVE  StopInv'
<1>1. job' = job /\ job = "pm"
  BY Jobs
<1>2. CASE pc # "press"
  <2>1. Calm
    BY <1>2, PmCalm
  <2>2. pc' \in Pasting => pc \in Pasting
    BY DEF Pasting, PmNext, ReadPrompt, AwaitIdle, PollIdle, ClickComposer, SelectAll,
           CheckExisting, Reselect, SetClipboard, VerifyClipboard, PasteVariant,
           CheckPasted, SeekSend, PressSend, Reflect, AwaitRunning, AwaitAnswer,
           FindCopyButton, PressCopy, TakeResponse, RereadResponse, PmRaise, Again,
           Forget, PasteByKeys, PasteIntoTarget, Fills
  <2>3. pc' = "press" => \E seen \in Seen : SendFound(seen) /\ mind'.screen = seen.state
    <3>1. pc' = "press" => pc = "seek" /\ ~PmRaise
      BY <1>2
      DEF Known, Flags, PmNext, ReadPrompt, AwaitIdle, PollIdle, ClickComposer, SelectAll,
          CheckExisting, Reselect, SetClipboard, VerifyClipboard, PasteVariant,
          CheckPasted, SeekSend, PressSend, Reflect, AwaitRunning, AwaitAnswer,
          FindCopyButton, PressCopy, TakeResponse, RereadResponse, PmRaise, Again, Forget,
          PasteByKeys, PasteIntoTarget, Fills
    <3>3. pc = "seek" => SeekSend \/ PmRaise
      BY DEF PmNext, ReadPrompt, AwaitIdle, PollIdle, ClickComposer, SelectAll,
             CheckExisting, Reselect, SetClipboard, VerifyClipboard, PasteVariant,
             CheckPasted, SeekSend, PressSend, Reflect, AwaitRunning, AwaitAnswer,
             FindCopyButton, PressCopy, TakeResponse, RereadResponse, PmRaise
    <3>2. SeekSend /\ pc' = "press" =>
             \E seen \in Seen : SendFound(seen) /\ mind' = [mind EXCEPT !.screen = seen.state]
      BY DEF SeekSend
    <3> QED BY <3>1, <3>2, <3>3 DEF Records, ShapedMind
  <2>4. pc' = "press" => mind'.screen = "AMBIGUOUS" \/ (app.work # "running" /\ app.box # <<>>)
    BY <2>3, SeenIs DEF Shown
  <2>5. pc' = "press" => app'.box = app.box
    BY <1>2, PmBox
    DEF PmNext, ReadPrompt, AwaitIdle, PollIdle, ClickComposer, SelectAll, CheckExisting,
        Reselect, SetClipboard, VerifyClipboard, PasteVariant, CheckPasted, SeekSend,
        PressSend, Reflect, AwaitRunning, AwaitAnswer, FindCopyButton, PressCopy,
        TakeResponse, RereadResponse, PmRaise, Again, Forget, PasteByKeys,
        PasteIntoTarget, Fills
  <2>6. app'.work = "queued" /\ app'.box # <<>> => Did("sent") \/ Did("typed")
    BY <1>1, <1>2, <2>1, PmBox DEF StopInv, Calm, Pasting
  <2> QED BY <1>1, <2>1, <2>2, <2>4, <2>5, <2>6 DEF Calm, StopInv, AnswerNotStopped, AppInv
<1>3. CASE pc = "press"
  <2>1. PressSend
    BY <1>3, PmPresses
  <2>2. pc' = "reflect" /\ log'.user = log.user /\ mind' = mind
    BY <2>1, PressDoes
  <2>3. CASE Takes("bridge")
    BY <1>1, <2>2, <2>3, TakesSends, TakesDoes DEF StopInv, AnswerNotStopped, Pasting
  <2>4. CASE /\ app.work = "running" /\ app'.work = "idle" /\ app'.box = app.box
             /\ log'.sent = log.sent /\ log'.stopped = mind.screen
    BY <1>1, <1>3, <2>2, <2>4 DEF StopInv, AnswerNotStopped, Pasting
  <2>5. CASE UNCHANGED <<desk, app, log>>
    BY <1>1, <2>2, <2>5 DEF StopInv, AnswerNotStopped, Pasting
  <2> QED BY <2>1, <2>3, <2>4, <2>5, PressDoes
<1> QED BY <1>2, <1>3

LEMMA EnvStops ==
    ASSUME Labels, Records, AppInv, StopInv, Environment
    PROVE  StopInv'
<1> USE DEF StopInv, AnswerNotStopped, Pasting
<1>1. CASE AppStarts \/ AppAnswers
  BY <1>1 DEF AppStarts, AppAnswers, Records
<1>2. CASE UserSwitches \/ UserReturns \/ UserCopies
  BY <1>2, DeedCalm, DeedDoes DEF UserSwitches, UserReturns, UserCopies
<1>3. CASE UserTypes
  BY <1>3, DeedCalm, DeedDoes DEF UserTypes, Records
<1>4. CASE UserSends
  BY <1>4, TakesSends, TakesDoes DEF UserSends
<1> QED BY <1>1, <1>2, <1>3, <1>4 DEF Environment

(* An empty composer is what a submission leaves: the adapter comes to the *)
(* click on send only with a text in the composer, which it has pasted, or *)
(* found there and kept.                                                   *)
PmSubmitInv == job = "pm" =>
    /\ mind.keep \in BOOLEAN
    /\ pc \in {"set", "readback"} /\ mind.keep => app.box # <<>> \/ log.sent # {}
    /\ pc \in Pasting \ {"set", "readback"} => mind.keep = FALSE
    /\ pc \in {"click", "check"} /\ ~mind.overwrite /\ mind.state = "COMPOSER_HAS_TEXT" =>
          app.box # <<>> \/ log.sent # {}
    /\ pc = "check" => ~mind.overwrite /\ mind.state = "COMPOSER_HAS_TEXT"
    /\ pc \in Submitting /\ app.box = <<>> => log.sent # {} \/ log.stray # {}
    /\ SubmittedWasSent

(* Where the steps of the paste lead, and what they remember.              *)
LEMMA PmFlow ==
    ASSUME Labels, Records, Flags, Known, PmNext
    PROVE  /\ pc' \in Pasting => pc \in Pasting
           /\ pc' = "check" => pc = "click"
           /\ pc' = "click" => pc \in {"wait", "poll"}
           /\ pc' \in Submitting => pc \in Submitting \cup {"readback", "paste"}
           /\ pc' = "await_running" => pc \in {"reflect", "await_running"}
           /\ pc' = "await_idle" => pc \in {"await_running", "await_idle"}
           /\ pc' \in {"select", "reselect", "readback", "paste"} =>
                 pc \in {"click", "check", "set", "readback"}
<1>1. /\ pc' \in Pasting => pc \in Pasting
      /\ pc' = "check" => pc = "click"
      /\ pc' = "click" => pc \in {"wait", "poll"}
  BY DEF Pasting, Flags, Known, PmNext, ReadPrompt, AwaitIdle, PollIdle, ClickComposer,
         SelectAll, CheckExisting, Reselect, SetClipboard, VerifyClipboard, PasteVariant,
         CheckPasted, SeekSend, PressSend, Reflect, AwaitRunning, AwaitAnswer,
         FindCopyButton, PressCopy, TakeResponse, RereadResponse, PmRaise, Again, Forget,
         PasteByKeys, PasteIntoTarget, Fills
<1>2. /\ pc' \in Submitting => pc \in Submitting \cup {"readback", "paste"}
      /\ pc' = "await_running" => pc \in {"reflect", "await_running"}
      /\ pc' = "await_idle" => pc \in {"await_running", "await_idle"}
  BY DEF Submitting, Flags, Known, PmNext, ReadPrompt, AwaitIdle, PollIdle, ClickComposer,
         SelectAll, CheckExisting, Reselect, SetClipboard, VerifyClipboard, PasteVariant,
         CheckPasted, SeekSend, PressSend, Reflect, AwaitRunning, AwaitAnswer,
         FindCopyButton, PressCopy, TakeResponse, RereadResponse, PmRaise, Again, Forget,
         PasteByKeys, PasteIntoTarget, Fills
<1>3. pc' \in {"select", "reselect", "readback", "paste"} =>
         pc \in {"click", "check", "set", "readback"}
  BY DEF Flags, Known, PmNext, ReadPrompt, AwaitIdle, PollIdle, ClickComposer, SelectAll,
         CheckExisting, Reselect, SetClipboard, VerifyClipboard, PasteVariant,
         CheckPasted, SeekSend, PressSend, Reflect, AwaitRunning, AwaitAnswer,
         FindCopyButton, PressCopy, TakeResponse, RereadResponse, PmRaise, Again, Forget,
         PasteByKeys, PasteIntoTarget, Fills
<1> QED BY <1>1, <1>2, <1>3

LEMMA PmSteps ==
    ASSUME PmNext
    PROVE  /\ pc = "wait" => AwaitIdle \/ PmRaise
           /\ pc = "poll" => PollIdle
           /\ pc = "click" => ClickComposer
           /\ pc = "check" => CheckExisting
           /\ pc = "readback" => VerifyClipboard
           /\ pc = "paste" => PasteVariant
           /\ pc = "reflect" => Reflect
           /\ pc \in {"await_running", "await_idle"} => AwaitRunning \/ AwaitAnswer \/ PmRaise
  BY DEF PmNext, ReadPrompt, AwaitIdle, PollIdle, ClickComposer, SelectAll, CheckExisting,
         Reselect, SetClipboard, VerifyClipboard, PasteVariant, CheckPasted, SeekSend,
         PressSend, Reflect, AwaitRunning, AwaitAnswer, FindCopyButton, PressCopy,
         TakeResponse, RereadResponse, PmRaise

(* A click on the composer follows a look at the screen.                   *)
LEMMA PmLooks ==
    ASSUME Labels, Records, Flags, Known, PmNext, pc' = "click"
    PROVE  \E seen \in Seen : mind'.state = seen.state /\ mind'.keep = mind.keep
<1>1. CASE pc = "wait"
  <2>1. \E seen \in Seen : mind' = [mind EXCEPT !.state = seen.state, !.overwrite = FALSE]
    BY <1>1, PmSteps DEF AwaitIdle, PmRaise, Again
  <2> QED BY <2>1 DEF Records, ShapedMind
<1>2. CASE pc = "poll"
  <2>1. \E seen \in Seen, overwrite \in BOOLEAN :
           mind' = [mind EXCEPT !.state = seen.state, !.overwrite = overwrite]
    BY <1>2, PmSteps DEF PollIdle, Again
  <2> QED BY <2>1 DEF Records, ShapedMind
<1> QED BY <1>1, <1>2, PmFlow

(* What a check of the text that is there leaves behind.                   *)
LEMMA CheckDoes ==
    ASSUME Records, CheckExisting
    PROVE  /\ pc' \in {"set", "reselect", "failed"} /\ app' = app
           /\ log'.sent = log.sent /\ log'.stray = log.stray
           /\ mind'.keep \in {mind.keep, TRUE, FALSE}
           /\ pc' = "set" => mind'.keep = TRUE /\ \E copied \in CopiedBack : Verified(copied)
           /\ pc' = "reselect" => mind'.keep = FALSE
<1>1. ASSUME NEW copied \in CopiedBack,
             mind' = [mind EXCEPT !.keep = Verified(copied)]
      PROVE  /\ Verified(copied) => mind'.keep = TRUE
             /\ ~Verified(copied) => mind'.keep = FALSE
  <2>1. CASE Verified(copied)
    <3>1. Verified(copied) = TRUE
      BY <2>1
    <3> QED BY <1>1, <2>1, <3>1 DEF Records, ShapedMind
  <2>2. CASE ~Verified(copied)
    <3>1. Verified(copied) = FALSE
      BY <2>2
    <3> QED BY <1>1, <2>2, <3>1 DEF Records, ShapedMind
  <2> QED BY <2>1, <2>2
<1>2. CASE \E copied \in CopiedBack :
             /\ \/ pc' = (IF Verified(copied) THEN "set" ELSE "reselect") /\ UNCHANGED log
                \/ Fail("wrong_scope")
             /\ mind' = [mind EXCEPT !.keep = Verified(copied)]
  <2>1. PICK copied \in CopiedBack :
             /\ \/ pc' = (IF Verified(copied) THEN "set" ELSE "reselect") /\ UNCHANGED log
                \/ Fail("wrong_scope")
             /\ mind' = [mind EXCEPT !.keep = Verified(copied)]
    BY <1>2
  <2>2. /\ Verified(copied) => mind'.keep = TRUE
        /\ ~Verified(copied) => mind'.keep = FALSE
    BY <1>1, <2>1
  <2>3. app' = app /\ log'.sent = log.sent /\ log'.stray = log.stray
    BY <2>1 DEF CheckExisting, Records
  <2> QED BY <2>1, <2>2, <2>3
<1>3. CASE Fail("copyback") /\ UNCHANGED mind
  BY <1>3 DEF CheckExisting, Records
<1> QED BY <1>2, <1>3 DEF CheckExisting

LEMMA PmKeep ==
    ASSUME Labels, Records, Flags, Known, PmSubmitInv, PmNext
    PROVE  /\ mind'.keep \in BOOLEAN
           /\ pc' \in Pasting \ {"set", "readback"} => mind'.keep = FALSE
           /\ pc' \in {"set", "readback"} /\ mind'.keep =>
                 pc = "check" \/ (pc \in {"set", "readback"} /\ mind.keep)
<1>0. job = "pm"
  BY Jobs
<1>1. CASE pc = "check"
  <2>1. CheckExisting
    BY <1>1, PmSteps
  <2> QED BY <1>0, <1>1, <2>1, CheckDoes DEF PmSubmitInv, Pasting
<1>2. CASE pc = "readback"
  <2>1. VerifyClipboard /\ mind.keep \in BOOLEAN
    BY <1>0, <1>2, PmSteps DEF PmSubmitInv
  <2>2. CASE Again \/ mind' = Forget(mind)
    <3>1. mind'.keep = FALSE \/ (mind' = mind /\ pc' = "failed")
      <4>1. CASE Again
        BY <4>1 DEF Again, Records, ShapedMind
      <4>2. CASE mind' = Forget(mind)
        BY <4>2 DEF Forget, Records, ShapedMind
      <4> QED BY <2>2, <4>1, <4>2
    <3> QED BY <2>1, <3>1 DEF Pasting
  <2>3. CASE mind.keep = FALSE /\ mind' = mind
    BY <2>3
  <2> QED BY <2>1, <2>2, <2>3 DEF VerifyClipboard
<1>3. CASE pc \notin {"check", "readback"}
  <2>1. mind'.keep = mind.keep \/ mind'.keep = FALSE
    BY ZenonT(60), <1>3
    DEF Records, ShapedMind, PmNext, ReadPrompt, AwaitIdle, PollIdle, ClickComposer,
        SelectAll, CheckExisting, Reselect, SetClipboard, VerifyClipboard, PasteVariant,
        CheckPasted, SeekSend, PressSend, Reflect, AwaitRunning, AwaitAnswer,
        FindCopyButton, PressCopy, TakeResponse, RereadResponse, PmRaise, Again, Forget,
        PasteByKeys, PasteIntoTarget, Fills
  <2>2. pc = "set" => pc' = "readback" \/ mind'.keep = FALSE \/ pc' = "failed"
    BY DEF Records, ShapedMind, PmNext, ReadPrompt, AwaitIdle, PollIdle, ClickComposer,
           SelectAll, CheckExisting, Reselect, SetClipboard, VerifyClipboard,
           PasteVariant, CheckPasted, SeekSend, PressSend, Reflect, AwaitRunning,
           AwaitAnswer, FindCopyButton, PressCopy, TakeResponse, RereadResponse, PmRaise,
           Again, Forget, PasteByKeys, PasteIntoTarget, Fills
  <2> QED BY <1>0, <1>3, <2>1, <2>2, PmFlow DEF PmSubmitInv, Pasting
<1> QED BY <1>1, <1>2, <1>3

LEMMA PmGrows ==
    ASSUME Records, PmNext
    PROVE  log.sent \subseteq log'.sent /\ log.stray \subseteq log'.stray
<1>1. CASE pc = "press"
  BY <1>1, PmPresses, PressDoes, TakesSends
<1>2. CASE pc # "press"
  <2>1. log'.sent = log.sent
    BY <1>2, PmCalm DEF Calm
  <2>2. log.stray \subseteq log'.stray
    <3>1. CASE pc # "paste"
      <4>1. log'.stray = log.stray
        BY <1>2, <3>1
        DEF Records, PmNext, ReadPrompt, AwaitIdle, PollIdle, ClickComposer, SelectAll,
            CheckExisting, Reselect, SetClipboard, VerifyClipboard, PasteVariant,
            CheckPasted, SeekSend, PressSend, Reflect, AwaitRunning, AwaitAnswer,
            FindCopyButton, PressCopy, TakeResponse, RereadResponse, PmRaise, Again,
            Forget, PasteByKeys, PasteIntoTarget, Fills
      <4> QED BY <4>1
    <3>2. CASE pc = "paste"
      <4>1. CASE Again
        BY <4>1 DEF Again, Records
      <4>2. CASE PasteByKeys \/ PasteIntoTarget
        BY <4>2 DEF PasteByKeys, PasteIntoTarget, Fills, Records
      <4> QED BY <3>2, <4>1, <4>2, PmSteps DEF PasteVariant
    <3> QED BY <3>1, <3>2
  <2> QED BY <2>1, <2>2
<1> QED BY <1>1, <1>2

LEMMA PastesAre ==
    ASSUME Records, Texts, PasteByKeys \/ PasteIntoTarget
    PROVE  /\ app'.box # <<>> \/ log'.stray # {}
           /\ \/ app'.box = Typed(app.box, desk.clipboard) \/ app'.box = <<desk.clipboard>>
              \/ desk.front # "app" /\ app'.box = app.box
<1>1. Typed(app.box, desk.clipboard) # <<>> /\ <<desk.clipboard>> # <<>>
  <2>1. Append(app.box, desk.clipboard) # <<>>
    BY DEF Texts
  <2> QED BY <2>1 DEF Typed
<1>2. CASE Fills(Typed(app.box, desk.clipboard)) \/ Fills(<<desk.clipboard>>)
  BY <1>1, <1>2, FillsDoes
<1>3. CASE /\ ~OnTarget /\ log' = [log EXCEPT !.stray = @ \cup {desk.clipboard}]
           /\ UNCHANGED <<desk, app>>
  BY <1>3 DEF Records
<1> QED BY <1>2, <1>3 DEF PasteByKeys, PasteIntoTarget

LEMMA PmSubmits ==
    ASSUME Labels, Records, Texts, Flags, Known, AppInv, PmSubmitInv, PmNext
    PROVE  PmSubmitInv'
<1>1. job' = job /\ job = "pm" /\ log.sent \subseteq log'.sent /\ log.stray \subseteq log'.stray
  BY Jobs, PmGrows
<1>2. ASSUME pc' \in {"set", "readback"}, mind'.keep PROVE app'.box # <<>> \/ log'.sent # {}
  <2>1. pc = "check" \/ (pc \in {"set", "readback"} /\ mind.keep)
    BY <1>2, PmKeep
  <2>2. app'.box = app.box
    BY <2>1, PmBox
  <2> QED BY <1>1, <2>1, <2>2 DEF PmSubmitInv
<1>3. /\ pc' = "check" => ~mind'.overwrite /\ mind'.state = "COMPOSER_HAS_TEXT"
      /\ pc' = "check" => ~mind.overwrite /\ mind.state = "COMPOSER_HAS_TEXT"
  <2>1. SUFFICES ASSUME pc' = "check"
                 PROVE  /\ ~mind'.overwrite /\ mind'.state = "COMPOSER_HAS_TEXT"
                        /\ ~mind.overwrite /\ mind.state = "COMPOSER_HAS_TEXT"
    OBVIOUS
  <2>2. pc = "click" /\ ClickComposer
    BY <2>1, PmFlow, PmSteps
  <2>3. ~mind.overwrite /\ mind.state = "COMPOSER_HAS_TEXT"
    BY <2>1, <2>2 DEF ClickComposer, Again, Flags, Known
  <2>4. mind'.overwrite = mind.overwrite /\ mind'.state = mind.state
    BY <2>1, <2>2 DEF ClickComposer, Again, Records, ShapedMind
  <2> QED BY <2>3, <2>4
<1>4. ASSUME pc' \in {"click", "check"}, ~mind'.overwrite, mind'.state = "COMPOSER_HAS_TEXT"
      PROVE  app'.box # <<>> \/ log'.sent # {}
  <2>1. pc \in {"wait", "poll", "click"}
    BY <1>4, PmFlow
  <2>2. app'.box = app.box
    BY <2>1, PmBox
  <2>3. CASE pc' = "click"
    <3>1. PICK seen \in Seen : mind'.state = seen.state
      BY <2>3, PmLooks
    <3>2. Shown = "COMPOSER_HAS_TEXT"
      BY <1>4, <3>1, SeenIs
    <3>3. app.box # <<>>
      BY <3>2 DEF Shown
    <3> QED BY <2>2, <3>3
  <2>4. CASE pc' = "check"
    BY <1>1, <1>3, <2>2, <2>4, PmFlow DEF PmSubmitInv
  <2> QED BY <1>4, <2>3, <2>4
<1>5. ASSUME pc' \in Submitting, app'.box = <<>> PROVE log'.sent # {} \/ log'.stray # {}
  <2>1. CASE pc = "press"
    <3>1. PressSend
      BY <2>1, PmPresses
    <3> QED BY <1>1, <1>5, <2>1, <3>1, PressDoes, TakesSends DEF PmSubmitInv, Submitting
  <2>2. CASE pc \in Submitting \ {"press"}
    <3>1. app'.box = app.box
      BY <2>2, PmBox DEF Submitting
    <3> QED BY <1>1, <1>5, <2>2, <3>1 DEF PmSubmitInv
  <2>3. CASE pc = "readback"
    <3>1. app'.box = app.box
      BY <2>3, PmBox
    <3>2. VerifyClipboard
      BY <2>3, PmSteps
    <3>3. mind.keep
      BY <1>5, <3>2 DEF VerifyClipboard, Again, Submitting
    <3> QED BY <1>1, <1>5, <2>3, <3>1, <3>3 DEF PmSubmitInv
  <2>4. CASE pc = "paste"
    <3>1. PasteByKeys \/ PasteIntoTarget
      BY <1>5, <2>4, PmSteps DEF PasteVariant, Again, Submitting
    <3> QED BY <1>5, <3>1, PastesAre
  <2> QED BY <1>5, <2>1, <2>2, <2>3, <2>4, PmFlow
<1>6. SubmittedWasSent'
  <2>1. SUFFICES ASSUME pc' \in {"await_running", "await_idle"}
                 PROVE  (\/ log.sent # {} \/ log.stopped # "no" \/ log.stray # {}
                         \/ mind.screen \in {"UNKNOWN", "AMBIGUOUS"}
                         \/ mind.screen = "RUNNING" /\ log.busy)'
    BY <1>1 DEF SubmittedWasSent
  <2>2. CASE pc = "reflect"
    <3>1. PICK seen \in Seen : Reflected(seen) /\ mind' = [mind EXCEPT !.screen = seen.state]
      BY <2>1, <2>2, PmSteps DEF Reflect
    <3>2. mind'.screen = seen.state /\ seen.state \in {Shown, "UNKNOWN", "AMBIGUOUS"}
      BY <3>1, SeenIs DEF Records, ShapedMind
    <3>3. Calm /\ app'.box = app.box
      BY <2>2, PmCalm, PmBox
    <3>4. CASE Shown = "COMPOSER_HAS_TEXT"
      BY <3>1, <3>2, <3>4, SeenIs
    <3>5. CASE Shown = "RUNNING"
      <4>1. app.work = "running"
        BY <3>5, Zenon DEF Shown
      <4> QED BY <3>2, <3>3, <3>5, <4>1 DEF AppInv, Calm
    <3>6. CASE app.work # "running" /\ app.box = <<>>
      BY <1>1, <2>2, <3>6 DEF PmSubmitInv, Submitting
    <3> QED BY <3>4, <3>5, <3>6, Zenon DEF Shown
  <2>3. CASE pc \in {"await_running", "await_idle"}
    <3>1. mind' = mind /\ Calm
      BY <2>1, <2>3, PmSteps, PmCalm DEF AwaitRunning, AwaitAnswer, PmRaise
    <3> QED BY <1>1, <2>3, <3>1 DEF PmSubmitInv, SubmittedWasSent, Calm
  <2> QED BY <2>1, <2>2, <2>3, PmFlow
<1> QED BY <1>1, <1>2, <1>3, <1>4, <1>5, <1>6, PmKeep DEF PmSubmitInv

LEMMA EnvSubmits ==
    ASSUME Labels, Records, Texts, PmSubmitInv, Environment
    PROVE  PmSubmitInv'
<1>1. SUFFICES ASSUME job = "pm" PROVE PmSubmitInv'
  BY DEF Environment, AppStarts, AppAnswers, UserSwitches, UserReturns, UserCopies,
         UserTypes, UserSends, Deed, PmSubmitInv
<1> USE DEF PmSubmitInv, SubmittedWasSent
<1>2. CASE AppStarts \/ AppAnswers
  BY <1>1, <1>2 DEF AppStarts, AppAnswers, Records
<1>3. CASE UserSwitches \/ UserReturns \/ UserCopies
  BY <1>1, <1>3, DeedCalm, DeedDoes DEF UserSwitches, UserReturns, UserCopies
<1>4. CASE UserTypes
  <2>1. app'.box # <<>>
    <3>1. app.box \in Seq(Word) /\ "draft" \in Word
      BY WordsAre DEF Texts
    <3>2. Append(app.box, "draft") # <<>>
      <4>1. ASSUME NEW S, NEW s \in Seq(S), NEW e \in S PROVE Append(s, e) # <<>>
        <5>1. Len(Append(s, e)) = Len(s) + 1 /\ Len(s) \in Nat
          OBVIOUS
        <5> QED BY <5>1
      <4> QED BY ONLY <3>1, <4>1
    <3> QED BY <1>4, <3>2 DEF UserTypes, Records, Typed
  <2>2. /\ UNCHANGED <<job, pc, mind>> /\ log'.sent = log.sent
        /\ log'.stray = log.stray /\ log'.stopped = log.stopped /\ log'.busy = log.busy
    BY <1>4, DeedCalm, DeedDoes DEF UserTypes
  <2>3. SubmittedWasSent'
    BY ONLY <1>1, <2>2, PmSubmitInv
    DEF PmSubmitInv, SubmittedWasSent, At
  <2> QED BY ONLY <1>1, <2>1, <2>2, <2>3, PmSubmitInv DEF PmSubmitInv, Pasting, Submitting
<1>5. CASE UserSends
  BY <1>1, <1>5, TakesSends, TakesDoes DEF UserSends
<1> QED BY <1>2, <1>3, <1>4, <1>5 DEF Environment

Meddled == Did("typed") \/ Did("copied")

(* What SentIsThePrompt asks of a message of the adapter's.                *)
Fits(m) ==
    \/ Contents(m.text) = {"prompt"}
    \/ Meddled
    \/ Did("switched") /\ "draft" \in Contents(log.found)
    \/ job = "agent" /\ Contents(m.text) = Contents(log.found) \cup {"prompt"}

SentFits == \A m \in log.sent : m.by = "bridge" => Fits(m)

(* As long as the user does nothing, the prompt is pasted into the app and *)
(* stays in its composer until Enter sends it.                             *)
AgentSubmitInv == job = "agent" =>
    /\ log.user = {} =>
          /\ desk.clipboard = "prompt"
          /\ pc \in AgentLabels => mind.prompt = "prompt"
          /\ log.sent # {} => "ours" \in app.shows
          /\ pc \in {"agent_inspect", "agent_enter"} => "prompt" \in Contents(app.box)
          /\ pc = "agent_confirm" => "ours" \in app.shows \/ "prompt" \in Contents(app.box)
    /\ SubmittedWasSent

(* What the composer holds when Enter is pressed.                          *)
AgentSendsInv == job = "agent" /\ ~Meddled =>
    /\ desk.clipboard = "prompt"
    /\ pc \in AgentLabels => mind.prompt = "prompt"
    /\ pc \in {"read", "agent_activate", "agent_click", "agent_set", "agent_readback",
               "agent_paste"} => app.box \in {<<>>, log.found}
    /\ pc \in {"agent_inspect", "agent_enter"} =>
          \/ app.box = <<>>
          \/ Contents(app.box) \in {{"prompt"}, Contents(log.found) \cup {"prompt"}}
          \/ Did("switched") /\ app.box = log.found

WebSendsInv == job = "web" =>
    /\ pc = "read" => desk.clipboard = "prompt" \/ Did("copied")
    /\ pc \in WebLabels => mind.prompt = "prompt" \/ Did("copied")
    /\ pc \in {"web_ready", "web_press"} =>
          app.box = <<>> \/ Contents(app.box) = {"prompt"} \/ Meddled

LEMMA AgentSteps ==
    ASSUME AgentNext
    PROVE  /\ pc \in {"read", "agent_activate", "agent_click", "agent_set", "agent_readback"}
                 \cup {"agent_paste", "agent_inspect", "agent_enter", "agent_confirm"}
           /\ pc = "read" => AgentRead
           /\ pc = "agent_paste" => AgentPaste
           /\ pc = "agent_inspect" => AgentInspect
           /\ pc = "agent_confirm" => AgentConfirm
  BY DEF AgentNext, AgentRead, AgentActivate, AgentClick, AgentSet, AgentReadback,
         AgentPaste, AgentInspect, AgentEnter, AgentConfirm

(* What the steps up to the paste do.                                      *)
LEMMA AgentPrepares ==
    ASSUME Records, AgentNext,
           pc \in {"read", "agent_activate", "agent_click", "agent_set", "agent_readback"}
    PROVE  /\ app' = app /\ Calm
           /\ desk'.clipboard \in {desk.clipboard, mind.prompt}
           /\ pc = "read" => /\ desk'.clipboard = desk.clipboard
                             /\ pc' = "failed" \/ mind'.prompt = desk.clipboard
           /\ pc # "read" => mind'.prompt = mind.prompt
           /\ pc' \in {"agent_activate", "agent_click", "agent_set", "agent_readback",
                       "agent_paste", "failed"}
<1>1. Calm
  BY AgentCalm
<1>2. app' = app /\ desk'.clipboard \in {desk.clipboard, mind.prompt}
  BY DEF Records, AgentNext, AgentRead, AgentActivate, AgentClick, AgentSet,
         AgentReadback, AgentPaste, AgentInspect, AgentEnter, AgentConfirm
<1>3. pc = "read" => /\ desk'.clipboard = desk.clipboard
                     /\ pc' = "failed" \/ mind'.prompt = desk.clipboard
  BY DEF Records, ShapedMind, AgentNext, AgentRead, AgentActivate, AgentClick, AgentSet,
         AgentReadback, AgentPaste, AgentInspect, AgentEnter, AgentConfirm
<1>4. pc # "read" => mind'.prompt = mind.prompt
  BY DEF Records, ShapedMind, AgentNext, AgentRead, AgentActivate, AgentClick, AgentSet,
         AgentReadback, AgentPaste, AgentInspect, AgentEnter, AgentConfirm
<1>5. pc' \in {"agent_activate", "agent_click", "agent_set", "agent_readback",
               "agent_paste", "failed"}
  BY DEF AgentNext, AgentRead, AgentActivate, AgentClick, AgentSet, AgentReadback,
         AgentPaste, AgentInspect, AgentEnter, AgentConfirm
<1> QED BY <1>1, <1>2, <1>3, <1>4, <1>5

(* What a paste of the prompt makes of the composer.                       *)
LEMMA PromptPasted ==
    ASSUME Records, Texts, desk.clipboard = "prompt", PasteByKeys \/ PasteIntoTarget
    PROVE  \/ Contents(app'.box) \in {{"prompt"}, Contents(app.box) \cup {"prompt"}}
           \/ desk.front # "app" /\ app'.box = app.box
<1>1. Contents(Append(app.box, "prompt")) = Contents(app.box) \cup {"prompt"}
  BY ContentsAppend DEF Texts
<1>2. Contents(<<"prompt">>) = {"prompt"}
  BY EmptyContents
<1> QED BY <1>1, <1>2, PastesAre DEF Typed

LEMMA AgentSubmits ==
    ASSUME Labels, Records, Texts, AppInv, FrontInv, AgentSubmitInv, AgentNext
    PROVE  AgentSubmitInv'
<1>1. job' = job /\ job = "agent"
  BY Jobs
<1>2. CASE pc \in {"read", "agent_activate", "agent_click", "agent_set", "agent_readback"}
  BY <1>1, <1>2, AgentPrepares
     DEF AgentSubmitInv, SubmittedWasSent, AgentLabels, Calm
<1>3. CASE pc = "agent_paste"
  <2>1. Calm /\ mind' = mind /\ pc' \in {"agent_inspect", "failed"}
    BY <1>3, AgentCalm, AgentSteps DEF AgentPaste
  <2>2. desk'.clipboard = desk.clipboard
    <3>1. CASE UNCHANGED desk
      BY <3>1
    <3>2. CASE PasteByKeys \/ PasteIntoTarget
      BY <3>2 DEF PasteByKeys, PasteIntoTarget, Fills, Records
    <3> QED BY <1>3, <3>1, <3>2, AgentSteps DEF AgentPaste
  <2>3. ASSUME log.user = {}, pc' = "agent_inspect" PROVE "prompt" \in Contents(app'.box)
    <3>1. desk.front = "app" /\ desk.clipboard = "prompt"
      BY <1>1, <1>3, <2>3 DEF FrontInv, AgentSubmitInv
    <3>2. PasteByKeys \/ PasteIntoTarget
      BY <1>3, <2>3, AgentSteps DEF AgentPaste
    <3> QED BY <3>1, <3>2, PromptPasted
  <2> QED BY <1>1, <1>3, <2>1, <2>2, <2>3
     DEF AgentSubmitInv, SubmittedWasSent, AgentLabels, Calm
<1>4. CASE pc = "agent_inspect"
  <2>1. UNCHANGED <<job, desk, app, log>> /\ pc' = "agent_enter"
    BY <1>4, AgentSteps DEF AgentInspect
  <2>2. mind'.prompt = mind.prompt
    BY <1>4, AgentSteps DEF AgentInspect, Records, ShapedMind
  <2> QED BY <1>1, <1>4, <2>1, <2>2 DEF AgentSubmitInv, SubmittedWasSent, AgentLabels
<1>5. CASE pc = "agent_enter"
  <2>1. AgentEnter /\ pc' = "agent_confirm" /\ mind' = mind
    BY <1>5, AgentEnters DEF AgentEnter
  <2>2. CASE Takes("bridge")
    <3>1. /\ log'.user = log.user /\ desk'.clipboard = desk.clipboard
          /\ "prompt" \in Contents(app.box) => "ours" \in app'.shows
      <4>1. log'.user = log.user
        BY <2>2, TakesSends
      <4>2. desk'.clipboard = desk.clipboard
        BY <2>2, TakesDoes
      <4>3. "prompt" \in Contents(app.box) => "ours" \in app'.shows
        BY <2>2, TakesSends
      <4> QED BY <4>1, <4>2, <4>3
    <3> QED BY <1>1, <1>5, <2>1, <3>1 DEF AgentSubmitInv, SubmittedWasSent, AgentLabels
  <2>3. CASE UNCHANGED <<desk, app>> /\ log'.user = log.user /\ log'.sent = log.sent
    BY <1>1, <1>5, <2>1, <2>3 DEF AgentSubmitInv, SubmittedWasSent, AgentLabels
  <2> QED BY <2>1, <2>2, <2>3 DEF AgentEnter, Records
<1>6. CASE pc = "agent_confirm"
  <2>1. AgentConfirm /\ UNCHANGED <<desk, app, mind>> /\ pc' \in {"done", "failed"}
    BY <1>6, AgentSteps DEF AgentConfirm
  <2>2. Calm
    BY <1>6, AgentCalm
  <2>3. PICK text \in FocusedText, shown \in BOOLEAN, worded \in BOOLEAN :
           /\ pc' = IF Reason(text, shown, worded) = "not_detectable" THEN "failed" ELSE "done"
           /\ log' = [log EXCEPT !.reason = Reason(text, shown, worded)]
    BY <2>1 DEF AgentConfirm
  <2>4. log'.reason = Reason(text, shown, worded)
    BY <2>3 DEF Records
  <2>5. ASSUME pc' = "done", "ours" \notin app.shows, log.user = {}
        PROVE  \/ log'.reason = "new_user_message" /\ "earlier" \in app.shows
               \/ log'.reason = "running_state"
    <3>1. text = Contents(app.box)
      BY <2>5 DEF FocusedText
    <3>2. ~Cleared(text)
      BY <1>1, <1>6, <2>5, <3>1 DEF AgentSubmitInv, Cleared, LooksLikePrompt
    <3>3. Reason(text, shown, worded) # "not_detectable"
      BY <2>3, <2>5
    <3>4. CASE NewUserMessage(shown)
      <4>1. Reason(text, shown, worded) = "new_user_message"
        BY <3>2, <3>4, Zenon DEF Reason
      <4>2. app.shows # {}
        BY <3>4 DEF NewUserMessage
      <4> QED BY <2>4, <2>5, <4>1, <4>2 DEF AppInv
    <3>5. CASE ~NewUserMessage(shown) /\ worded
      <4>1. Reason(text, shown, worded) = "running_state"
        BY <3>2, <3>5, Zenon DEF Reason
      <4> QED BY <2>4, <4>1
    <3>6. CASE ~NewUserMessage(shown) /\ ~worded
      <4>1. Reason(text, shown, worded) = "not_detectable"
        BY <3>2, <3>6, Zenon DEF Reason
      <4> QED BY <3>3, <4>1
    <3> QED BY <3>4, <3>5, <3>6
  <2> QED BY <1>1, <1>6, <2>1, <2>2, <2>5
     DEF AgentSubmitInv, SubmittedWasSent, AgentLabels, Calm
<1> QED BY <1>2, <1>3, <1>4, <1>5, <1>6, AgentSteps

LEMMA EnvAgentSubmits ==
    ASSUME Labels, Records, AgentSubmitInv, Environment
    PROVE  AgentSubmitInv'
<1> USE DEF AgentSubmitInv, SubmittedWasSent
<1>1. CASE AppStarts \/ AppAnswers
  BY <1>1 DEF AppStarts, AppAnswers, Records
<1>2. CASE UserSwitches \/ UserReturns \/ UserCopies \/ UserTypes
  <2>1. /\ log'.user # {} /\ log'.sent = log.sent /\ log'.stopped = log.stopped
        /\ log'.busy = log.busy /\ log'.stray = log.stray /\ UNCHANGED <<job, pc, mind>>
        /\ pc # "done"
    BY <1>2, DeedCalm, DeedDoes DEF UserSwitches, UserReturns, UserCopies, UserTypes
  <2> QED BY <2>1, Labels DEF Labels, PmLabels
<1>3. CASE UserSends
  BY <1>3, TakesSends DEF UserSends, Labels, PmLabels
<1> QED BY <1>1, <1>2, <1>3 DEF Environment

(* A sent message stays as fit as it was.                                  *)
LEMMA SentStays ==
    ASSUME SentFits, job' = job, log'.found = log.found, log.user \subseteq log'.user,
           \A m \in log'.sent : m \in log.sent \/ (m.by = "bridge" => Fits(m)')
    PROVE  SentFits'
<1>1. \A m : Fits(m) => Fits(m)'
  BY DEF Fits, Meddled
<1> QED BY <1>1 DEF SentFits

LEMMA SentGrows ==
    ASSUME SentFits, job' = job, log'.found = log.found, log'.user = log.user,
           NEW text, log'.sent = log.sent \cup {[by |-> "bridge", text |-> text]},
           Fits([by |-> "bridge", text |-> text])
    PROVE  SentFits'
<1> DEFINE m == [by |-> "bridge", text |-> text]
<1>1. Fits(m)'
  BY DEF Fits, Meddled
<1> HIDE DEF m
<1> QED BY <1>1, SentStays DEF m

LEMMA AgentSends ==
    ASSUME Labels, Records, Texts, AppInv, FrontInv, AgentSendsInv, SentFits, AgentNext
    PROVE  AgentSendsInv' /\ SentFits'
<1>1. job' = job /\ job = "agent"
  BY Jobs
<1>2. CASE pc # "agent_enter"
  <2>1. Calm
    BY <1>2, AgentCalm
  <2>2. SentFits'
    BY <1>1, <2>1, SentStays DEF Calm
  <2>3. CASE pc \in {"read", "agent_activate", "agent_click", "agent_set", "agent_readback"}
    BY <1>1, <2>1, <2>2, <2>3, AgentPrepares DEF AgentSendsInv, AgentLabels, Calm, Meddled
  <2>4. CASE pc = "agent_paste"
    <3>1. mind' = mind /\ pc' \in {"agent_inspect", "failed"}
      BY <2>4, AgentSteps DEF AgentPaste
    <3>2. desk'.clipboard = desk.clipboard
      <4>1. CASE UNCHANGED desk
        BY <4>1
      <4>2. CASE PasteByKeys \/ PasteIntoTarget
        BY <4>2 DEF PasteByKeys, PasteIntoTarget, Fills, Records
      <4> QED BY <2>4, <4>1, <4>2, AgentSteps DEF AgentPaste
    <3>3. ASSUME ~Meddled, pc' = "agent_inspect"
          PROVE  \/ Contents(app'.box) \in {{"prompt"}, Contents(log.found) \cup {"prompt"}}
                 \/ app'.box = <<>>
                 \/ Did("switched") /\ app'.box = log.found
      <4>1. desk.clipboard = "prompt" /\ app.box \in {<<>>, log.found}
        BY <1>1, <2>4, <3>3 DEF AgentSendsInv
      <4>2. PasteByKeys \/ PasteIntoTarget
        BY <2>4, <3>3, AgentSteps DEF AgentPaste
      <4>3. \/ Contents(app'.box) \in {{"prompt"}, Contents(app.box) \cup {"prompt"}}
            \/ desk.front # "app" /\ app'.box = app.box
        BY <4>1, <4>2, PromptPasted
      <4>4. desk.front # "app" => Did("switched")
        BY <1>1, <2>4 DEF FrontInv
      <4> QED BY <4>1, <4>3, <4>4, EmptyContents
    <3> QED BY <1>1, <2>1, <2>2, <2>4, <3>1, <3>2, <3>3
        DEF AgentSendsInv, AgentLabels, Calm, Meddled
  <2>5. CASE pc = "agent_inspect"
    <3>1. UNCHANGED <<job, desk, app, log>> /\ pc' = "agent_enter"
      BY <2>5, AgentSteps DEF AgentInspect
    <3>2. mind'.prompt = mind.prompt
      BY <2>5, AgentSteps DEF AgentInspect, Records, ShapedMind
    <3> QED BY <2>2, <2>5, <3>1, <3>2 DEF AgentSendsInv, AgentLabels, Meddled
  <2>6. CASE pc = "agent_confirm"
    <3>1. UNCHANGED <<job, desk, app, mind>> /\ pc' \in {"done", "failed"}
      BY <2>6, AgentSteps DEF AgentConfirm
    <3> QED BY <2>1, <2>2, <2>6, <3>1 DEF AgentSendsInv, AgentLabels, Calm, Meddled
  <2> QED BY <1>2, <2>3, <2>4, <2>5, <2>6, AgentSteps
<1>3. CASE pc = "agent_enter"
  <2>1. AgentEnter /\ pc' = "agent_confirm" /\ mind' = mind
    BY <1>3, AgentEnters DEF AgentEnter
  <2>2. CASE Takes("bridge")
    <3> DEFINE m == [by |-> "bridge", text |-> app.box]
    <3>1. log'.user = log.user /\ log'.sent = log.sent \cup {m} /\ app.box # <<>>
      BY <2>2, TakesSends
    <3>2. desk'.clipboard = desk.clipboard /\ log'.found = log.found
      BY <2>2, TakesDoes
    <3>3. Fits(m)
      <4>1. SUFFICES ASSUME ~Meddled PROVE Fits(m)
        BY DEF Fits
      <4>2. CASE Contents(app.box) \in {{"prompt"}, Contents(log.found) \cup {"prompt"}}
        BY <1>1, <4>2 DEF Fits
      <4>3. CASE Did("switched") /\ app.box = log.found
        BY <3>1, <4>3, EmptyContents DEF Fits, AppInv
      <4> QED BY <1>1, <1>3, <3>1, <4>1, <4>2, <4>3 DEF AgentSendsInv
    <3>4. SentFits'
      BY <1>1, <3>1, <3>2, <3>3, SentGrows
    <3> QED BY <1>1, <1>3, <2>1, <3>1, <3>2, <3>4 DEF AgentSendsInv, AgentLabels, Meddled
  <2>3. CASE /\ UNCHANGED <<desk, app>>
             /\ log'.user = log.user /\ log'.sent = log.sent /\ log'.found = log.found
    <3>1. SentFits'
      BY <1>1, <2>3, SentStays
    <3> QED BY <1>1, <1>3, <2>1, <2>3, <3>1 DEF AgentSendsInv, AgentLabels, Meddled
  <2> QED BY <2>1, <2>2, <2>3 DEF AgentEnter, Records
<1> QED BY <1>2, <1>3

LEMMA WebSends ==
    ASSUME Labels, Records, Texts, AppInv, WebSendsInv, SentFits, WebNext
    PROVE  WebSendsInv' /\ SentFits'
<1>1. job' = job /\ job = "web"
  BY Jobs
<1>2. CASE pc # "web_press"
  <2>1. Calm
    BY <1>2, WebCalm
  <2>2. SentFits'
    BY <1>1, <2>1, SentStays DEF Calm
  <2>3. pc' \in WebLabels => mind'.prompt = "prompt" \/ Did("copied")
    BY <1>1
    DEF WebSendsInv, WebLabels, Records, ShapedMind, WebNext, WebRaise, WebRead,
        WebAwaitEmpty, WebInsert, WebAwaitReady, WebPress, WebAwaitAnswer, WebCopy,
        WebTaken
  <2>4. pc' # "read"
    BY DEF WebNext, WebRaise, WebRead, WebAwaitEmpty, WebInsert, WebAwaitReady, WebPress,
           WebAwaitAnswer, WebCopy, WebTaken
  <2>5. ASSUME pc' \in {"web_ready", "web_press"}
        PROVE  app'.box = <<>> \/ Contents(app'.box) = {"prompt"} \/ Meddled
    <3>1. CASE pc = "web_insert"
      <4>1. Fills(<<mind.prompt>>)
        BY <2>5, <3>1
        DEF WebNext, WebRaise, WebRead, WebAwaitEmpty, WebInsert, WebAwaitReady, WebPress,
            WebAwaitAnswer, WebCopy, WebTaken
      <4>2. mind.prompt = "prompt" \/ Did("copied")
        BY <1>1, <3>1 DEF WebSendsInv, WebLabels
      <4>3. app'.box = <<mind.prompt>>
        BY <4>1, FillsDoes
      <4> QED BY <4>2, <4>3, EmptyContents DEF Meddled
    <3>2. CASE pc # "web_insert"
      <4>1. pc = "web_ready" /\ app' = app
        BY <2>5, <3>2
        DEF WebNext, WebRaise, WebRead, WebAwaitEmpty, WebInsert, WebAwaitReady, WebPress,
            WebAwaitAnswer, WebCopy, WebTaken
      <4> QED BY <1>1, <4>1 DEF WebSendsInv
    <3> QED BY <3>1, <3>2
  <2> QED BY <1>1, <2>1, <2>2, <2>3, <2>4, <2>5 DEF WebSendsInv, Calm, Meddled
<1>3. CASE pc = "web_press"
  <2>1. WebPress \/ WebRaise
    BY <1>3, WebPresses
  <2>2. mind' = mind /\ pc' \in {"web_answer", "failed"}
    BY <1>3, <2>1 DEF WebPress, WebRaise
  <2>3. CASE Takes("bridge")
    <3> DEFINE m == [by |-> "bridge", text |-> app.box]
    <3>1. log'.user = log.user /\ log'.sent = log.sent \cup {m} /\ app.box # <<>>
      BY <2>3, TakesSends
    <3>2. log'.found = log.found
      BY <2>3, TakesDoes
    <3>3. Fits(m)
      BY <1>1, <1>3, <3>1 DEF Fits, WebSendsInv
    <3>4. SentFits'
      BY <1>1, <3>1, <3>2, <3>3, SentGrows
    <3> QED BY <1>1, <1>3, <2>2, <3>1, <3>4 DEF WebSendsInv, WebLabels
  <2>4. CASE log'.user = log.user /\ log'.sent = log.sent /\ log'.found = log.found
    <3>1. SentFits'
      BY <1>1, <2>4, SentStays
    <3> QED BY <1>1, <1>3, <2>2, <2>4, <3>1 DEF WebSendsInv, WebLabels
  <2> QED BY <2>1, <2>3, <2>4 DEF WebPress, WebRaise, Records
<1> QED BY <1>2, <1>3

(* Until it is submitted, the prompt is on the clipboard and the composer  *)
(* holds what was found there, the prompt, or both.                        *)
PmSendsInv == job = "pm" /\ ~Meddled =>
    /\ pc \in Pasting \cup Submitting => desk.clipboard = "prompt"
    /\ pc \in (Pasting \cup Submitting) \ {"read"} => mind.prompt = "prompt"
    /\ pc \in Pasting => app.box \in {<<>>, log.found}
    /\ pc \in Submitting => Contents(app.box) \subseteq Contents(log.found) \cup {"prompt"}

(* A draft that was found is selected when the prompt is pasted, or was    *)
(* sent, or deleted, unless the user took the focus away from it.          *)
PmDraftInv == job = "pm" /\ ~Meddled =>
    /\ pc \in {"read", "wait", "poll", "click"} => ~mind.located
    /\ log.found = <<"draft">> /\ ~Did("switched") =>
          /\ pc = "click" /\ ~mind.overwrite /\ mind.state = "IDLE" => app.box = <<>>
          /\ pc \in {"set", "readback", "paste"} => app.box = <<>> \/ desk.selected
          /\ pc \in {"set", "readback"} => ~mind.keep
          /\ pc \in Submitting => "draft" \notin Contents(app.box)

LEMMA PmHolds ==
    ASSUME Labels, Records, Flags, Known, PmNext, pc # "press"
    PROVE  /\ pc' \in Pasting \cup Submitting =>
                 /\ desk'.clipboard \in {desk.clipboard, mind.prompt}
                 /\ mind'.prompt = IF pc = "read" THEN desk.clipboard ELSE mind.prompt
                 /\ pc = "read" => desk'.clipboard = desk.clipboard
           /\ pc' \in Pasting \cup Submitting => pc \in Pasting \cup Submitting
           /\ pc' # "read"
<1>1. pc' \in Pasting \cup Submitting => desk'.clipboard \in {desk.clipboard, mind.prompt}
  BY DEF Pasting, Submitting, Records, PmNext, ReadPrompt, AwaitIdle, PollIdle,
         ClickComposer, SelectAll, CheckExisting, Reselect, SetClipboard, VerifyClipboard,
         PasteVariant, CheckPasted, SeekSend, PressSend, Reflect, AwaitRunning,
         AwaitAnswer, FindCopyButton, PressCopy, TakeResponse, RereadResponse, PmRaise,
         Again, Forget, PasteByKeys, PasteIntoTarget, Fills
<1>2. pc' \in Pasting \cup Submitting =>
         mind'.prompt = IF pc = "read" THEN desk.clipboard ELSE mind.prompt
  BY ZenonT(60) DEF Pasting, Submitting, Records, ShapedMind, PmNext, ReadPrompt, AwaitIdle,
         PollIdle, ClickComposer, SelectAll, CheckExisting, Reselect, SetClipboard,
         VerifyClipboard, PasteVariant, CheckPasted, SeekSend, PressSend, Reflect,
         AwaitRunning, AwaitAnswer, FindCopyButton, PressCopy, TakeResponse,
         RereadResponse, PmRaise, Again, Forget, PasteByKeys, PasteIntoTarget, Fills
<1>3. pc = "read" => desk'.clipboard = desk.clipboard
  BY DEF PmNext, ReadPrompt, AwaitIdle, PollIdle, ClickComposer, SelectAll, CheckExisting,
         Reselect, SetClipboard, VerifyClipboard, PasteVariant, CheckPasted, SeekSend,
         PressSend, Reflect, AwaitRunning, AwaitAnswer, FindCopyButton, PressCopy,
         TakeResponse, RereadResponse, PmRaise, Again, Forget, PasteByKeys,
         PasteIntoTarget, Fills
<1>4. /\ pc' \in Pasting \cup Submitting => pc \in Pasting \cup Submitting
      /\ pc' # "read"
  BY DEF Pasting, Submitting, Flags, Known, PmNext, ReadPrompt, AwaitIdle, PollIdle,
         ClickComposer, SelectAll, CheckExisting, Reselect, SetClipboard, VerifyClipboard,
         PasteVariant, CheckPasted, SeekSend, PressSend, Reflect, AwaitRunning,
         AwaitAnswer, FindCopyButton, PressCopy, TakeResponse, RereadResponse, PmRaise,
         Again, Forget, PasteByKeys, PasteIntoTarget, Fills
<1> QED BY <1>1, <1>2, <1>3, <1>4

LEMMA PmSends ==
    ASSUME Labels, Records, Texts, Flags, Known, AppInv, PmSendsInv, PmNext
    PROVE  PmSendsInv'
<1>1. job' = job /\ job = "pm"
  BY Jobs
<1>2. CASE pc # "press"
  <2>1. Calm
    BY <1>2, PmCalm
  <2>2. SUFFICES ASSUME ~Meddled PROVE PmSendsInv'
    BY <2>1 DEF PmSendsInv, Meddled, Calm
  <2>3. pc' \in Pasting \cup Submitting => desk'.clipboard = "prompt" /\ mind'.prompt = "prompt"
    <3>1. CASE pc = "read"
      BY <1>1, <1>2, <2>2, <3>1, PmHolds DEF PmSendsInv, Pasting
    <3>2. CASE pc # "read"
      BY <1>1, <1>2, <2>2, <3>2, PmHolds DEF PmSendsInv
    <3> QED BY <3>1, <3>2
  <2>4. pc' \in Pasting => app'.box \in {<<>>, log.found}
    <3>1. ASSUME pc = "paste", pc' \in Pasting PROVE app' = app
      BY <3>1, PmSteps DEF PasteVariant, Again, Pasting
    <3> QED BY <1>1, <1>2, <2>2, <3>1, PmFlow, PmBox DEF PmSendsInv
  <2>5. ASSUME pc' \in Submitting
        PROVE  Contents(app'.box) \subseteq Contents(log.found) \cup {"prompt"}
    <3>1. CASE pc = "paste"
      <4>1. desk.clipboard = "prompt" /\ app.box \in {<<>>, log.found}
        BY <1>1, <2>2, <3>1 DEF PmSendsInv, Pasting
      <4>2. PasteByKeys \/ PasteIntoTarget
        BY <2>5, <3>1, PmSteps DEF PasteVariant, Again, Submitting
      <4>3. \/ Contents(app'.box) \in {{"prompt"}, Contents(app.box) \cup {"prompt"}}
            \/ app'.box = app.box
        BY <4>1, <4>2, PromptPasted
      <4> QED BY <4>1, <4>3, EmptyContents
    <3>2. CASE pc = "readback"
      <4>1. app'.box = app.box /\ app.box \in {<<>>, log.found}
        BY <1>1, <2>2, <3>2, PmBox DEF PmSendsInv, Pasting
      <4> QED BY <4>1, EmptyContents
    <3>3. CASE pc \in Submitting
      <4>1. app'.box = app.box
        BY <1>2, <3>3, PmBox DEF Submitting
      <4> QED BY <1>1, <2>2, <3>3, <4>1 DEF PmSendsInv
    <3> QED BY <2>5, <3>1, <3>2, <3>3, PmFlow
  <2> QED BY <1>1, <2>1, <2>3, <2>4, <2>5 DEF PmSendsInv, Calm
<1>3. CASE pc = "press"
  <2>1. PressSend
    BY <1>3, PmPresses
  <2>2. app'.box \in {app.box, <<>>}
    <3>1. Takes("bridge") => app'.box = <<>>
      BY TakesDoes
    <3> QED BY <2>1, <3>1, PressDoes
  <2>3. ASSUME ~Meddled
        PROVE  /\ desk.clipboard = "prompt" /\ mind.prompt = "prompt"
               /\ Contents(app'.box) \subseteq Contents(log.found) \cup {"prompt"}
    BY <1>1, <1>3, <2>2, <2>3, EmptyContents DEF PmSendsInv, Submitting
  <2>4. pc' = "reflect" /\ mind' = mind /\ desk'.clipboard = desk.clipboard
        /\ log'.user = log.user /\ log'.found = log.found
    BY <2>1, PressDoes
  <2> QED BY <1>1, <2>3, <2>4 DEF PmSendsInv, Meddled, Pasting, Submitting
<1> QED BY <1>2, <1>3

(* A check of a draft does not take it for the prompt.                     *)
LEMMA DraftIsTold ==
    ASSUME Labels, Records, AppInv, PmSendsInv, CheckExisting, job = "pm", ~Meddled,
           log.found = <<"draft">>, desk.front = "app"
    PROVE  pc' # "set"
<1>1. SUFFICES ASSUME pc' = "set" PROVE FALSE
  OBVIOUS
<1>2. PICK copied \in CopiedBack : Verified(copied)
  BY <1>1, CheckDoes
<1>3. copied = app.box /\ copied # <<>>
  BY <1>2 DEF CopiedBack
<1>4. copied = <<"draft">> /\ mind.prompt = "prompt"
  <2>1. pc = "check"
    BY DEF CheckExisting
  <2> QED BY <1>3, <2>1 DEF PmSendsInv, Pasting
<1>5. Contents(copied) = {"draft"} /\ copied[1] = "draft" /\ <<mind.prompt>>[1] = "prompt"
  BY <1>4, EmptyContents
<1> QED BY <1>2, <1>4, <1>5 DEF Verified

(* The paste locates the composer by its click on it.                      *)
LEMMA PmLocates ==
    ASSUME Labels, Records, Flags, Known, PmNext,
           pc \in {"read", "wait", "poll", "click"} => ~mind.located
    PROVE  pc' \in {"read", "wait", "poll", "click"} => ~mind'.located
<1>1. pc' \in {"wait", "poll", "click"} => mind'.located = mind.located
  BY DEF Records, ShapedMind, Flags, Known, PmNext, ReadPrompt, AwaitIdle, PollIdle,
         ClickComposer, SelectAll, CheckExisting, Reselect, SetClipboard, VerifyClipboard,
         PasteVariant, CheckPasted, SeekSend, PressSend, Reflect, AwaitRunning,
         AwaitAnswer, FindCopyButton, PressCopy, TakeResponse, RereadResponse, PmRaise,
         Again, Forget, PasteByKeys, PasteIntoTarget, Fills
<1>2. pc' \in {"wait", "poll", "click"} /\ pc \notin {"read", "wait", "poll", "click"} =>
         ~mind.located
  BY ZenonT(60) DEF Flags, Known, PmNext, ReadPrompt, AwaitIdle, PollIdle, ClickComposer, SelectAll,
         CheckExisting, Reselect, SetClipboard, VerifyClipboard, PasteVariant,
         CheckPasted, SeekSend, PressSend, Reflect, AwaitRunning, AwaitAnswer,
         FindCopyButton, PressCopy, TakeResponse, RereadResponse, PmRaise, Again, Forget,
         PasteByKeys, PasteIntoTarget, Fills
<1> QED BY <1>1, <1>2, PmHolds, PmPresses, PressDoes

(* Where the clipboard comes to be set from.                               *)
LEMMA PmSets ==
    ASSUME Labels, Records, Flags, Known, PmNext,
           pc \in {"wait", "poll", "click"} => ~mind.located, pc' = "set"
    PROVE  \/ pc = "click" /\ ~mind.overwrite /\ mind.state = "IDLE"
           \/ pc = "select" /\ desk'.selected = (desk.front = "app" /\ app.box # <<>>)
           \/ pc = "check" /\ CheckExisting
           \/ pc = "reselect" /\ \/ desk'.selected = (desk.front = "app" /\ app.box # <<>>)
                                 \/ app'.box = <<>>
                                 \/ desk.front # "app"
           \/ pc \in {"set", "readback", "paste"} /\ desk' = desk
<1>1. CASE pc \in {"wait", "poll", "read"}
  BY <1>1
  DEF Flags, Known, PmNext, ReadPrompt, AwaitIdle, PollIdle, ClickComposer, SelectAll,
      CheckExisting, Reselect, SetClipboard, VerifyClipboard, PasteVariant, CheckPasted,
      SeekSend, PressSend, Reflect, AwaitRunning, AwaitAnswer, FindCopyButton, PressCopy,
      TakeResponse, RereadResponse, PmRaise, Again, Forget, PasteByKeys, PasteIntoTarget,
      Fills
<1>2. CASE pc = "click"
  <2>1. ClickComposer
    BY <1>2, PmSteps
  <2> QED BY <1>2, <2>1 DEF ClickComposer, Again, Flags, Known
<1>3. CASE pc = "select"
  <2>1. SelectAll
    BY <1>3
    DEF Flags, Known, PmNext, ReadPrompt, AwaitIdle, PollIdle, ClickComposer, SelectAll,
        CheckExisting, Reselect, SetClipboard, VerifyClipboard, PasteVariant, CheckPasted,
        SeekSend, PressSend, Reflect, AwaitRunning, AwaitAnswer, FindCopyButton,
        PressCopy, TakeResponse, RereadResponse, PmRaise, Again, Forget, PasteByKeys,
        PasteIntoTarget, Fills
  <2> QED BY <1>3, <2>1 DEF SelectAll, Records
<1>4. CASE pc = "check"
  BY <1>4, PmSteps
<1>5. CASE pc = "reselect"
  <2>1. Reselect
    BY <1>5
    DEF PmNext, ReadPrompt, AwaitIdle, PollIdle, ClickComposer, SelectAll, CheckExisting,
        Reselect, SetClipboard, VerifyClipboard, PasteVariant, CheckPasted, SeekSend,
        PressSend, Reflect, AwaitRunning, AwaitAnswer, FindCopyButton, PressCopy,
        TakeResponse, RereadResponse, PmRaise
  <2> QED BY <1>5, <2>1, FillsDoes DEF Reselect, Records
<1>6. CASE pc \in {"set", "readback", "paste"}
  <2>1. SetClipboard \/ VerifyClipboard \/ PasteVariant
    BY <1>6
    DEF PmNext, ReadPrompt, AwaitIdle, PollIdle, ClickComposer, SelectAll, CheckExisting,
        Reselect, SetClipboard, VerifyClipboard, PasteVariant, CheckPasted, SeekSend,
        PressSend, Reflect, AwaitRunning, AwaitAnswer, FindCopyButton, PressCopy,
        TakeResponse, RereadResponse, PmRaise
  <2> QED BY <1>6, <2>1 DEF SetClipboard, VerifyClipboard, PasteVariant, Again
<1> QED BY <1>1, <1>2, <1>3, <1>4, <1>5, <1>6, PmFlow, PmHolds DEF Pasting

LEMMA PmDrafts ==
    ASSUME Labels, Records, Texts, Flags, Known, AppInv, FrontInv, PmSubmitInv, PmSendsInv,
           PmDraftInv, PmNext
    PROVE  PmDraftInv'
<1>1. job' = job /\ job = "pm"
  BY Jobs
<1>2. log'.user = log.user /\ log'.found = log.found
  <2>1. CASE pc = "press"
    BY <2>1, PmPresses, PressDoes
  <2>2. CASE pc # "press"
    BY <2>2, PmCalm DEF Calm
  <2> QED BY <2>1, <2>2
<1>3. SUFFICES ASSUME ~Meddled PROVE PmDraftInv'
  BY <1>2 DEF PmDraftInv, Meddled
<1>4. pc \in {"read", "wait", "poll", "click"} => ~mind.located
  BY <1>1, <1>3 DEF PmDraftInv
<1>5. pc' \in {"read", "wait", "poll", "click"} => ~mind'.located
  BY <1>4, PmLocates
<1>6. SUFFICES ASSUME log.found = <<"draft">>, ~Did("switched")
      PROVE  /\ pc' = "click" /\ ~mind'.overwrite /\ mind'.state = "IDLE" => app'.box = <<>>
             /\ pc' \in {"set", "readback", "paste"} => app'.box = <<>> \/ desk'.selected
             /\ pc' \in {"set", "readback"} => ~mind'.keep
             /\ pc' \in Submitting => "draft" \notin Contents(app'.box)
  BY <1>1, <1>2, <1>5 DEF PmDraftInv, Meddled
<1>7. pc \notin {"read", "wait", "failed"} => desk.front = "app"
  BY <1>1, <1>6 DEF FrontInv, Labels, AgentLabels
<1>8. ASSUME pc' = "click", ~mind'.overwrite, mind'.state = "IDLE" PROVE app'.box = <<>>
  <2>1. PICK seen \in Seen : mind'.state = seen.state
    BY <1>8, PmLooks
  <2>2. Shown = "IDLE"
    BY <1>8, <2>1, SeenIs
  <2>3. app.box = <<>>
    BY <2>2, Zenon DEF Shown
  <2>4. pc \in {"wait", "poll"}
    BY <1>8, PmFlow
  <2> QED BY <2>3, <2>4, PmBox
<1>9. pc' = "set" => pc # "check"
  <2>1. pc = "check" => CheckExisting
    BY PmSteps
  <2> QED BY <1>1, <1>3, <1>6, <1>7, <2>1, DraftIsTold
<1>10. ASSUME pc' \in {"set", "readback", "paste"} PROVE app'.box = <<>> \/ desk'.selected
  <2>1. CASE pc' = "set"
    <3>1. pc # "paste" => app'.box = app.box \/ app'.box = <<>>
      BY <2>1, PmBox, PmFlow DEF Pasting
    <3>2. pc = "paste" => app' = app
      BY <2>1, PmSteps DEF PasteVariant
    <3>3. CASE pc \in {"set", "readback", "paste"}
      <4>1. desk' = desk
        BY <1>4, <2>1, <3>3, PmSets
      <4> QED BY <1>1, <1>3, <1>6, <3>1, <3>2, <3>3, <4>1 DEF PmDraftInv
    <3>4. CASE pc = "click"
      BY <1>1, <1>3, <1>4, <1>6, <2>1, <3>1, <3>4, PmSets DEF PmDraftInv
    <3>5. CASE pc \in {"select", "reselect"}
      BY <1>4, <1>7, <2>1, <3>1, <3>5, PmSets
    <3> QED BY <1>4, <1>9, <2>1, <3>3, <3>4, <3>5, PmSets
  <2>2. CASE pc' \in {"readback", "paste"}
    <3>1. /\ pc' = "readback" => pc = "set" /\ desk'.selected = desk.selected /\ app' = app
          /\ pc' = "paste" => pc = "readback" /\ desk' = desk /\ app' = app
      BY DEF Flags, Known, Records, PmNext, ReadPrompt, AwaitIdle, PollIdle,
             ClickComposer, SelectAll, CheckExisting, Reselect, SetClipboard,
             VerifyClipboard, PasteVariant, CheckPasted, SeekSend, PressSend, Reflect,
             AwaitRunning, AwaitAnswer, FindCopyButton, PressCopy, TakeResponse,
             RereadResponse, PmRaise, Again, Forget, PasteByKeys, PasteIntoTarget, Fills
    <3> QED BY <1>1, <1>3, <1>6, <2>2, <3>1 DEF PmDraftInv
  <2> QED BY <1>10, <2>1, <2>2
<1>11. ASSUME pc' \in {"set", "readback"} PROVE ~mind'.keep
  <2>1. pc # "check"
    BY <1>9, <1>11, PmSteps, CheckDoes
  <2> QED BY <1>1, <1>3, <1>6, <1>11, <2>1, PmKeep DEF PmDraftInv
<1>12. ASSUME pc' \in Submitting PROVE "draft" \notin Contents(app'.box)
  <2>1. CASE pc = "press"
    <3>1. app'.box \in {app.box, <<>>}
      <4>1. Takes("bridge") => app'.box = <<>>
        BY TakesDoes
      <4> QED BY <2>1, <4>1, PmPresses, PressDoes
    <3> QED BY <1>1, <1>3, <1>6, <2>1, <3>1, EmptyContents DEF PmDraftInv, Submitting
  <2>2. CASE pc \in Submitting \ {"press"}
    <3>1. app'.box = app.box
      BY <2>2, PmBox DEF Submitting
    <3> QED BY <1>1, <1>3, <1>6, <2>2, <3>1 DEF PmDraftInv
  <2>3. CASE pc = "readback"
    <3>1. VerifyClipboard
      BY <2>3, PmSteps
    <3>2. mind.keep
      BY <1>12, <3>1 DEF VerifyClipboard, Again, Submitting
    <3> QED BY <1>1, <1>3, <1>6, <2>3, <3>2 DEF PmDraftInv
  <2>4. CASE pc = "paste"
    <3>1. PasteByKeys \/ PasteIntoTarget
      BY <1>12, <2>4, PmSteps DEF PasteVariant, Again, Submitting
    <3>2. desk.clipboard = "prompt" /\ (app.box = <<>> \/ desk.selected)
      BY <1>1, <1>3, <1>6, <2>4 DEF PmSendsInv, PmDraftInv, Pasting
    <3>3. Contents(Append(<<>>, "prompt")) = {"prompt"}
      <4>1. <<>> \in Seq(Word)
        OBVIOUS
      <4> QED BY <4>1, ContentsAppend, EmptyContents
    <3>4. Contents(Typed(app.box, "prompt")) = {"prompt"} /\ Contents(<<"prompt">>) = {"prompt"}
      BY <3>2, <3>3, EmptyContents DEF Typed
    <3> QED BY <1>7, <2>4, <3>1, <3>2, <3>4, PastesAre
  <2> QED BY <1>12, <2>1, <2>2, <2>3, <2>4, PmFlow
<1> QED BY <1>8, <1>10, <1>11, <1>12

LEMMA PmSendsFit ==
    ASSUME Labels, Records, Texts, AppInv, PmSendsInv, PmDraftInv, SentFits, PmNext
    PROVE  SentFits'
<1>1. job' = job /\ job = "pm"
  BY Jobs
<1>2. CASE pc # "press"
  <2>1. Calm
    BY <1>2, PmCalm
  <2> QED BY <1>1, <2>1, SentStays DEF Calm
<1>3. CASE pc = "press"
  <2>1. PressSend
    BY <1>3, PmPresses
  <2>2. CASE Takes("bridge")
    <3> DEFINE m == [by |-> "bridge", text |-> app.box]
    <3>1. log'.user = log.user /\ log'.sent = log.sent \cup {m} /\ app.box # <<>>
      BY <2>2, TakesSends
    <3>2. log'.found = log.found
      BY <2>2, TakesDoes
    <3>3. Fits(m)
      <4>1. SUFFICES ASSUME ~Meddled PROVE Fits(m)
        BY DEF Fits
      <4>2. Contents(app.box) \subseteq Contents(log.found) \cup {"prompt"}
        BY <1>1, <1>3, <4>1 DEF PmSendsInv, Submitting
      <4>3. Contents(app.box) # {}
        <5>1. Len(app.box) # 0
          BY <3>1, EmptySeq DEF Texts
        <5>2. 1 \in DOMAIN app.box
          BY <5>1 DEF Texts
        <5> QED BY <5>2 DEF Contents
      <4>4. CASE log.found \in {<<>>, <<"prompt">>}
        <5>1. Contents(app.box) = {"prompt"}
          BY <4>2, <4>3, <4>4, EmptyContents
        <5> QED BY <5>1 DEF Fits
      <4>5. CASE log.found = <<"draft">> /\ Did("switched")
        BY <4>5, EmptyContents DEF Fits
      <4>6. CASE log.found = <<"draft">> /\ ~Did("switched")
        <5>1. "draft" \notin Contents(app.box)
          BY <1>1, <1>3, <4>1, <4>6 DEF PmDraftInv, Submitting
        <5>2. Contents(app.box) = {"prompt"}
          BY <4>2, <4>3, <4>6, <5>1, EmptyContents
        <5> QED BY <5>2 DEF Fits
      <4> QED BY <4>4, <4>5, <4>6 DEF AppInv
    <3> QED BY <1>1, <3>1, <3>2, <3>3, SentGrows
  <2>3. CASE log'.sent = log.sent
    BY <1>1, <2>1, <2>3, PressDoes, SentStays
  <2> QED BY <2>1, <2>2, <2>3, PressDoes
<1> QED BY <1>2, <1>3

(* What the app and the user can change of what the adapter relies on.     *)
LEMMA EnvDoes ==
    ASSUME Records, Environment
    PROVE  /\ UNCHANGED <<job, pc, mind>> /\ log'.found = log.found /\ log.user \subseteq log'.user
           /\ \A m \in log'.sent : m \in log.sent \/ m.by = "user"
           /\ desk'.clipboard = desk.clipboard \/ Did("copied")'
           /\ app'.box \in {app.box, <<>>} \/ Did("typed")'
           /\ desk'.selected = desk.selected \/ app'.box = <<>> \/ Did("typed")'
<1>1. CASE AppStarts \/ AppAnswers
  BY <1>1 DEF AppStarts, AppAnswers, Records
<1>2. CASE UserSwitches \/ UserReturns
  BY <1>2, DeedCalm, DeedDoes DEF UserSwitches, UserReturns, Records
<1>3. CASE UserCopies
  BY <1>3, DeedCalm, DeedDoes DEF UserCopies, Records
<1>4. CASE UserTypes
  BY <1>4, DeedCalm, DeedDoes DEF UserTypes, Records
<1>5. CASE UserSends
  <2>1. \A m \in log'.sent : m \in log.sent \/ m.by = "user"
    BY <1>5, TakesSends DEF UserSends
  <2> QED BY <1>5, <2>1, TakesDoes DEF UserSends
<1> QED BY <1>1, <1>2, <1>3, <1>4, <1>5 DEF Environment

LEMMA EnvSends ==
    ASSUME Records, AgentSendsInv, WebSendsInv, PmSendsInv, PmDraftInv, SentFits, Environment
    PROVE  AgentSendsInv' /\ WebSendsInv' /\ PmSendsInv' /\ PmDraftInv' /\ SentFits'
<1>1. /\ UNCHANGED <<job, pc, mind>> /\ log'.found = log.found /\ log.user \subseteq log'.user
      /\ desk'.clipboard = desk.clipboard \/ Did("copied")'
      /\ app'.box \in {app.box, <<>>} \/ Did("typed")'
      /\ desk'.selected = desk.selected \/ app'.box = <<>> \/ Did("typed")'
  BY EnvDoes
<1>2. AgentSendsInv'
  BY <1>1 DEF AgentSendsInv, Meddled
<1>3. WebSendsInv'
  BY <1>1 DEF WebSendsInv, Meddled
<1>4. PmSendsInv'
  BY <1>1, EmptyContents DEF PmSendsInv, Meddled
<1>5. PmDraftInv'
  BY <1>1, EmptyContents DEF PmDraftInv, Meddled
<1>6. SentFits'
  BY <1>1, EnvDoes, SentStays
<1> QED BY <1>2, <1>3, <1>4, <1>5, <1>6

-----------------------------------------------------------------------------
SendInv == /\ AppInv /\ FrontInv /\ StopInv /\ PmSubmitInv /\ AgentSubmitInv
           /\ AgentSendsInv /\ WebSendsInv /\ PmSendsInv /\ PmDraftInv /\ SentFits

LEMMA SendsStart == Init => SendInv
<1> SUFFICES ASSUME Init PROVE SendInv
  OBVIOUS
<1>1. /\ pc = "read" /\ job \in {"pm", "web", "agent", "test", "focus"}
      /\ desk.clipboard = "prompt" /\ mind.keep = FALSE /\ mind.located = FALSE
      /\ app.box \in {<<>>, <<"draft">>, <<"prompt">>} /\ app.work \in {"idle", "running"}
      /\ app.shows \subseteq {"earlier"}
      /\ log.sent = {} /\ log.stopped = "no" /\ log.stray = {} /\ log.user = {}
      /\ log.found = app.box /\ log.busy = (app.work = "running")
  BY DEF Init, DesktopInit
<1>2. AppInv /\ FrontInv /\ StopInv
  BY ONLY <1>1 DEF AppInv, FrontInv, StopInv, AnswerNotStopped, Pasting
<1>3. PmSubmitInv /\ AgentSubmitInv
  BY ONLY <1>1 DEF PmSubmitInv, AgentSubmitInv, SubmittedWasSent, Pasting, Submitting,
     AgentLabels, At
<1>4. AgentSendsInv /\ WebSendsInv /\ PmSendsInv /\ PmDraftInv /\ SentFits
  BY ONLY <1>1 DEF AgentSendsInv, WebSendsInv, PmSendsInv, PmDraftInv, SentFits, Pasting,
     Submitting, AgentLabels, WebLabels
<1> QED BY <1>2, <1>3, <1>4 DEF SendInv

LEMMA SendsKeep == Inv /\ SendInv /\ [Next]_vars => SendInv'
<1> SUFFICES ASSUME Inv, SendInv, [Next]_vars PROVE SendInv'
  OBVIOUS
<1> USE DEF SendInv
<1>0. Labels /\ Records /\ Texts /\ Flags /\ Known
  BY DEF Inv, TypeInv
<1>1. CASE PmNext
  <2>1. job' = "pm"
    BY <1>0, <1>1, Jobs
  <2>2. AppInv' /\ FrontInv' /\ StopInv' /\ PmSubmitInv'
    BY <1>0, <1>1, PmApp, PmStops, PmSubmits
  <2>3. PmSendsInv' /\ PmDraftInv' /\ SentFits'
    BY <1>0, <1>1, PmSends, PmDrafts, PmSendsFit
  <2> QED BY <2>1, <2>2, <2>3 DEF AgentSubmitInv, AgentSendsInv, WebSendsInv
<1>2. CASE WebNext
  <2>1. job' = "web"
    BY <1>0, <1>2, Jobs
  <2>2. AppInv' /\ FrontInv' /\ WebSendsInv' /\ SentFits'
    BY <1>0, <1>2, WebApp, WebSends
  <2> QED BY <2>1, <2>2
     DEF StopInv, PmSubmitInv, PmSendsInv, PmDraftInv, AgentSubmitInv, AgentSendsInv
<1>3. CASE AgentNext
  <2>1. job' = "agent"
    BY <1>0, <1>3, Jobs
  <2>2. AppInv' /\ FrontInv' /\ AgentSubmitInv' /\ AgentSendsInv' /\ SentFits'
    BY <1>0, <1>3, AgentApp, AgentSubmits, AgentSends
  <2> QED BY <2>1, <2>2 DEF StopInv, PmSubmitInv, PmSendsInv, PmDraftInv, WebSendsInv
<1>4. CASE DiagnosticsNext
  <2>1. job' = job /\ job \in Tests
    BY <1>0, <1>4, Jobs
  <2>2. AppInv' /\ FrontInv'
    BY <1>0, <1>4, DiagnosticsApp
  <2>3. SentFits'
    BY <1>0, <1>4, <2>1, DiagnosticsCalm, SentStays DEF Calm
  <2> QED BY <2>1, <2>2, <2>3
     DEF StopInv, PmSubmitInv, PmSendsInv, PmDraftInv, AgentSubmitInv, AgentSendsInv,
         WebSendsInv, Tests
<1>5. CASE Environment
  <2>1. AppInv' /\ FrontInv' /\ StopInv' /\ PmSubmitInv' /\ AgentSubmitInv'
    BY <1>0, <1>5, EnvApp, EnvStops, EnvSubmits, EnvAgentSubmits
  <2> QED BY <1>0, <1>5, <2>1, EnvSends
<1>6. CASE UNCHANGED vars
  <2>1. UNCHANGED <<job, pc, desk, app, mind, log>>
    BY <1>6 DEF vars
  <2>2. AppInv' /\ FrontInv' /\ StopInv'
    BY <2>1 DEF AppInv, FrontInv, StopInv, AnswerNotStopped
  <2>3. PmSubmitInv' /\ AgentSubmitInv'
    BY <2>1 DEF PmSubmitInv, AgentSubmitInv, SubmittedWasSent
  <2>4. AgentSendsInv' /\ WebSendsInv' /\ PmSendsInv' /\ PmDraftInv'
    BY <2>1 DEF AgentSendsInv, WebSendsInv, PmSendsInv, PmDraftInv, Meddled
  <2>5. SentFits'
    BY <2>1, SentStays
  <2> QED BY <2>2, <2>3, <2>4, <2>5
<1> QED BY <1>1, <1>2, <1>3, <1>4, <1>5, <1>6 DEF Next

(* In every state of a session the invariants that tie what is in the      *)
(* composer, whether the app is at work and what was sent to the next step *)
(* hold.                                                                   *)
THEOREM SendInvHolds == Spec => [](Inv /\ SendInv)
  BY Starts, Steps, SendsStart, SendsKeep, PTL DEF Spec

(* The adapter submits the prompt it was given (paste_text and the submits *)
(* of a PM session, the insert script, the local agent's paste and Enter), *)
(* but for the exceptions SentIsThePrompt names, however often it tries.   *)
THEOREM PromptsAreSent == Spec => []SentIsThePrompt
<1>1. Inv /\ SendInv => SentIsThePrompt
  <2> SUFFICES ASSUME SendInv PROVE SentIsThePrompt
    OBVIOUS
  <2>1. ASSUME NEW m \in log.sent, m.by = "bridge", ~Meddled,
               ~(Did("switched") /\ "draft" \in Contents(log.found))
        PROVE  \/ Contents(m.text) = {"prompt"}
               \/ job = "agent" /\ Contents(m.text) = Contents(log.found) \cup {"prompt"}
    BY <2>1 DEF SendInv, SentFits, Fits
  <2> QED BY <2>1 DEF SendInv, FrontInv, SentIsThePrompt, Meddled
<1> QED
  BY <1>1, SendInvHolds, PTL

(* The click on the send button found (submit_after_paste's) stops no      *)
(* answer, unless the screen it was found on was ambiguous or the user had *)
(* sent or typed a message, for any number of clicks and looks.            *)
THEOREM AnswersAreNotStopped == Spec => []AnswerNotStopped
<1>1. Inv /\ SendInv => AnswerNotStopped
  BY DEF SendInv, StopInv, AppInv, AnswerNotStopped
<1> QED
  BY <1>1, SendInvHolds, PTL

(* A submit that returns has submitted, and one confirmed to the local     *)
(* agent's caller has reached it, but for the exceptions that              *)
(* SubmittedWasSent names.                                                 *)
THEOREM SubmittedWereSent == Spec => []SubmittedWasSent
<1>1. Inv /\ SendInv => SubmittedWasSent
  <2> SUFFICES ASSUME Labels, SendInv PROVE SubmittedWasSent
    BY DEF Inv, TypeInv
  <2> QED
    BY DEF SendInv, PmSubmitInv, AgentSubmitInv, SubmittedWasSent, Labels, PmLabels
<1> QED
  BY <1>1, SendInvHolds, PTL
=============================================================================
