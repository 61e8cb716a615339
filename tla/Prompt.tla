------------------------------- MODULE Prompt -------------------------------
(***************************************************************************)
(* The questions of `batuta setup` (setup/flow.rs), asked by one of two    *)
(* front-ends that the flow cannot tell apart: dialogs driven by keys      *)
(* (setup/wizard.rs) and lines of text (setup/prompt.rs).  The flow's next *)
(* question depends on the answers so far; an answer reaches the plan only *)
(* when its dialog or its line accepted it.                                *)
(*                                                                         *)
(* A drive is its place in the list and whether it may be chosen; a folder *)
(* is the kind of path that check_data_dir tells apart.  The keys and the  *)
(* lines a person can give are bounded by DraftDigits and Dirs.            *)
(***************************************************************************)
EXTENDS Integers, Sequences, FiniteSets

CONSTANTS
  Faces,        \* the front-ends of this instance: "wizard", "console"
  DriveLists,   \* lists of drives: for each, whether it can be indexed
  DraftDigits,  \* the digits typed into the interval
  Dirs,         \* kinds of folder: "plain", "relative", "network", "profile"
  MaxTries      \* MAX_RETRIES

\* do_setup refuses to ask anything where it found no drive
ASSUME PromptAssumption == \A list \in DriveLists : list \in Seq(BOOLEAN) \ {<<>>}

VARIABLES
  face, drives,
  asked,    \* the question on screen
  answers,  \* the answers so far, by question
  dlg,      \* the wizard's dialog
  tries,    \* lines given to this question
  told,     \* what was said since the last answer
  phase     \* "asking" | "planned" | "declined" | "cancelled" | "failed"

promptVars == <<face, drives, asked, answers, dlg, tries, told, phase>>

Kind == [service |-> "confirm", task |-> "confirm", minutes |-> "number", drives |-> "multi",
         system |-> "confirm", data |-> "text", restrict |-> "confirm", ram |-> "confirm",
         hotkey |-> "confirm", combo |-> "choose", path |-> "confirm", apply |-> "confirm"]
Minutes == 1 .. 60
Combos == 1 .. 3
Selectable == {i \in DOMAIN drives : drives[i]}

Default(q) ==
  CASE q = "task"    -> FALSE
    [] q = "minutes" -> 15
    [] q = "drives"  -> Selectable
    [] q = "data"    -> "default"
    [] q = "combo"   -> 1
    [] OTHER         -> TRUE

Resident(a) == IF a.service THEN "service" ELSE IF a.task THEN "task" ELSE "manual"

\* flow::run: what is asked after the answers a, the last of them to question q
After(q, a) ==
  CASE q = "service"  -> IF a.service THEN "drives" ELSE "task"
    [] q = "task"     -> IF a.task THEN "minutes" ELSE "drives"
    [] q = "minutes"  -> "drives"
    [] q = "drives"   -> "system"
    [] q = "system"   -> "data"
    [] q = "data"     -> "restrict"
    [] q = "restrict" -> IF Resident(a) = "service" THEN "ram" ELSE "hotkey"
    [] q = "ram"      -> "hotkey"
    [] q = "hotkey"   -> IF a.hotkey THEN "combo" ELSE "path"
    [] q = "combo"    -> "path"
    [] q = "path"     -> "apply"

\* flow::check_data_dir
DirProblem(dir, needsSystem) == dir \in {"relative", "network"} \/ (needsSystem /\ dir = "profile")

\* what the flow says between the answer to q and the next question
Notes(q, a) ==
     (IF q = "minutes" /\ a.minutes < 5 THEN {"rewrites"} ELSE {})
  \cup (IF q = "restrict" /\ ~a.restrict THEN {"readable"} ELSE {})
  \cup (IF q = "data" THEN {"lists every file"} ELSE {})
  \cup (IF q = "restrict" /\ Resident(a) = "service" THEN {"memory"} ELSE {})
  \cup (IF q = "ram" /\ ~a.ram THEN {"released"} ELSE {})
  \cup (IF q = "hotkey" /\ a.hotkey THEN {"conflict"} ELSE {})
  \cup (IF q = "path" THEN {"summary"} ELSE {})
  \cup (IF q = "path" /\ DirProblem(a.data, Resident(a) = "service") THEN {"warning"} ELSE {})

\* a dialog as its question opens; Toggles::new for the list of drives
Dialog(q, list) ==
  LET can == {i \in DOMAIN list : list[i]} IN
  [on     |-> q # "task",
   draft  |-> <<>>,
   cursor |-> IF q # "drives" \/ can = {} THEN 1 ELSE CHOOSE i \in can : \A j \in can : i <= j,
   marks  |-> can]

PromptInit ==
  /\ face \in Faces /\ drives \in DriveLists
  /\ asked = "service" /\ answers = <<>> /\ dlg = Dialog("service", drives)
  /\ tries = 0 /\ told = {} /\ phase = "asking"

-----------------------------------------------------------------------------
\* one answer accepted: the wizard clears what it showed, then the flow goes on

Answer(v) ==
  LET a == [q \in DOMAIN answers \cup {asked} |-> IF q = asked THEN v ELSE answers[q]] IN
  /\ answers' = a /\ tries' = 0
  /\ told' = IF asked = "apply" THEN {} ELSE Notes(asked, a)
  /\ asked' = IF asked = "apply" THEN asked ELSE After(asked, a)
  /\ dlg' = Dialog(asked', drives)
  /\ phase' = IF asked # "apply" THEN phase ELSE IF v THEN "planned" ELSE "declined"
  /\ UNCHANGED <<face, drives>>

Stopped(how) == phase' = how /\ UNCHANGED <<face, drives, asked, answers, dlg, tries, told>>
Draw(d)      == dlg' = d /\ UNCHANGED <<face, drives, asked, answers, tries, told, phase>>

-----------------------------------------------------------------------------
\* the wizard: one key

Dialogs(kind) == phase = "asking" /\ face = "wizard" /\ Kind[asked] = kind

CancelKey == phase = "asking" /\ face = "wizard" /\ Stopped("cancelled")
EscKey    == phase = "asking" /\ face = "wizard" /\ Answer(Default(asked))

ConfirmKey ==
  /\ Dialogs("confirm")
  /\ \/ Draw([dlg EXCEPT !.on = ~@])           \* Left, Right
     \/ \E v \in BOOLEAN : Answer(v)           \* y, n
     \/ Answer(dlg.on)                         \* Enter

\* the number a draft of digits reads as
Value(digits) ==
  LET f[n \in 0 .. Len(digits)] == IF n = 0 THEN 0 ELSE 10 * f[n - 1] + digits[n]
  IN  f[Len(digits)]
\* and the draft that shows a number; it has at most three digits
DigitsOf(n) ==
  IF n < 10 THEN <<n>>
  ELSE IF n < 100 THEN <<n \div 10, n % 10>>
  ELSE <<n \div 100, (n \div 10) % 10, n % 10>>
Lesser(x, y) == IF x < y THEN x ELSE y
Greater(x, y)  == IF x > y THEN x ELSE y

\* Bug: the number is taken as it is typed.
NumberEnterUnchecked == Dialogs("number") /\ Answer(IF dlg.draft = <<>> THEN Default("minutes") ELSE Value(dlg.draft))

\* Enter on a draft outside the range only complains
NumberEnter ==
  /\ Dialogs("number")
  /\ IF dlg.draft = <<>> THEN Answer(Default("minutes"))
     ELSE Value(dlg.draft) \in Minutes /\ Answer(Value(dlg.draft))

NumberKey ==
  /\ Dialogs("number")
  /\ LET base == IF dlg.draft = <<>> THEN Default("minutes") ELSE Value(dlg.draft) IN
     \/ \E d \in DraftDigits : Len(dlg.draft) < 3 /\ Draw([dlg EXCEPT !.draft = Append(@, d)])
     \/ dlg.draft # <<>> /\ Draw([dlg EXCEPT !.draft = SubSeq(@, 1, Len(@) - 1)])
     \/ Draw([dlg EXCEPT !.draft = DigitsOf(Greater(base - 1, 1))])       \* Up
     \/ Draw([dlg EXCEPT !.draft = DigitsOf(Lesser(base + 1, 60))])     \* Down

TextKey ==
  /\ Dialogs("text")
  /\ \/ \E d \in Dirs : Draw([dlg EXCEPT !.draft = <<d>>])
     \/ dlg.draft # <<>> /\ Draw([dlg EXCEPT !.draft = <<>>])
     \/ Answer(IF dlg.draft = <<>> THEN Default("data") ELSE dlg.draft[1])

ChooseKey ==
  /\ Dialogs("choose")
  /\ \/ Draw([dlg EXCEPT !.cursor = Greater(@ - 1, 1)])
     \/ Draw([dlg EXCEPT !.cursor = Lesser(@ + 1, Cardinality(Combos))])
     \/ Answer(dlg.cursor)

\* Space on a drive that cannot be indexed only complains
ToggleKey ==
  /\ Dialogs("multi") /\ drives[dlg.cursor]
  /\ Draw([dlg EXCEPT !.marks = IF dlg.cursor \in @ THEN @ \ {dlg.cursor} ELSE @ \cup {dlg.cursor}])

MultiKey ==
  /\ Dialogs("multi")
  /\ \/ Draw([dlg EXCEPT !.cursor = Greater(@ - 1, 1)])
     \/ Draw([dlg EXCEPT !.cursor = Lesser(@ + 1, Len(drives))])
     \/ Draw([dlg EXCEPT !.marks = @ \cup Selectable])                 \* a
     \/ dlg.marks # {} /\ Answer(dlg.marks)                            \* Enter

-----------------------------------------------------------------------------
\* the console: one line, up to MaxTries of them for a question

\* what a line can mean to a question; BadLine stands for every other line
BadLine == <<>>
Meant(q) ==
  CASE Kind[q] = "confirm" -> {<<v>> : v \in BOOLEAN}
    [] Kind[q] = "number"  -> {<<v>> : v \in {1, 4, 60}}
    [] Kind[q] = "choose"  -> {<<v>> : v \in Combos}
    [] Kind[q] = "text"    -> {<<v>> : v \in Dirs}
    [] Kind[q] = "multi"   -> {<<s>> : s \in (SUBSET DOMAIN drives) \ {{}}} \cup {<<Selectable>>}

Accepted(q, line) == /\ line # BadLine
                     /\ Kind[q] = "multi" => line[1] # {} /\ line[1] \subseteq Selectable

\* Bug: the lines are never counted up to the last.
RefusedForever == /\ tries' = (tries + 1) % MaxTries
                  /\ UNCHANGED <<face, drives, asked, answers, dlg, told, phase>>

\* the question is put again, MAX_RETRIES times
Refused == IF tries + 1 = MaxTries THEN Stopped("failed")
           ELSE tries' = tries + 1 /\ UNCHANGED <<face, drives, asked, answers, dlg, told, phase>>

Line ==
  /\ phase = "asking" /\ face = "console"
  /\ \/ Answer(Default(asked))                                          \* an empty line
     \/ \E line \in Meant(asked) : Accepted(asked, line) /\ Answer(line[1])
     \/ \E line \in Meant(asked) \cup {BadLine} :
          Kind[asked] # "text" /\ ~Accepted(asked, line) /\ Refused

EndOfInput == phase = "asking" /\ face = "console" /\ Stopped("failed")

-----------------------------------------------------------------------------
PromptNext ==
  \/ CancelKey \/ EscKey \/ ConfirmKey \/ NumberEnter \/ NumberKey \/ TextKey \/ ChooseKey
  \/ ToggleKey \/ MultiKey
  \/ Line \/ EndOfInput

\* somebody types, or the input ends
PromptFairness == WF_promptVars(Line \/ EndOfInput)
PromptSpec == PromptInit /\ [][PromptNext]_promptVars /\ PromptFairness

-----------------------------------------------------------------------------
\* Whatever was typed, a plan holds an interval the task scheduler takes, drives that can be
\* indexed (some of them whenever there are any), and an answer to exactly the questions
\* that the answers before made necessary.
PlanUsable ==
  phase = "planned" =>
    /\ "minutes" \in DOMAIN answers => answers.minutes \in Minutes
    /\ answers.drives \subseteq Selectable
    /\ Selectable # {} => answers.drives # {}
    /\ "minutes" \in DOMAIN answers <=> Resident(answers) = "task"
    /\ "ram" \in DOMAIN answers <=> Resident(answers) = "service"
    /\ "combo" \in DOMAIN answers <=> answers.hotkey

\* What a choice costs is on screen when it is asked about or right after it was made, the
\* summary and the warning about the folder when the changes are to be confirmed.
ToldBeforeAsked ==
  phase = "asking" =>
    /\ asked = "combo" => "conflict" \in told
    /\ asked = "restrict" => "lists every file" \in told
    /\ asked = "ram" => "memory" \in told
    /\ asked = "drives" /\ "minutes" \in DOMAIN answers /\ answers.minutes < 5 => "rewrites" \in told
    /\ asked = "apply" => /\ "summary" \in told
                          /\ DirProblem(answers.data, answers.service) => "warning" \in told

\* prompt.rs, wizard: what setup is told to do can be done, and nothing is taken
\* for answered before it was shown.
AsksWell == PlanUsable /\ ToldBeforeAsked

\* The console's questions end, however many lines make no sense.
AskingEnds == face = "console" ~> phase # "asking"

\* Not kept: "choose at least one.", where no drive can be indexed and the default is taken
SomeDriveChosen == phase = "planned" => answers.drives # {}
=============================================================================
