------------------------------- MODULE Gateway -------------------------------
(***************************************************************************)
(* gateway.cpp: the tasks that main() registers, run by its loop, with the *)
(* timer interrupt among their steps.  A task's run is a step of           *)
(* TaskScheduler followed by what the task does, and while it does it the  *)
(* loop waits: `exec' is what is being run, `scan' the flags of Buttons    *)
(* that it is reading.  The tasks here are those that meet in the buttons  *)
(* and in the mode of the display: the slots of Jobs, the shell, which     *)
(* starts, kills and runs pipelines, and the display.                      *)
(*                                                                         *)
(* The devices are those that these tasks share, and the fields of the     *)
(* configuration, the only ones that give back what somebody has put into  *)
(* them.  Those left out (room, radio, link, uploads) are read-only and    *)
(* answer with a number or a word of their own.                            *)
(***************************************************************************)
EXTENDS TaskScheduler, Jobs, Pipelines, Buttons

CONSTANTS
  ButtonPath,  \* /dev/buttons/up and so on, in the order of the buttons
  ConfigPaths, \* /dev/config/farm and so on
  ConfigTexts, \* bound: what a field may hold from before, or after an edit or a failed write
  Beginning,   \* the words that begin with "menu", and with "banner"
  Lines,       \* bound: what the user types
  Idle         \* no task is running

ShellTask == MaxJobs + 1
DisplayTask == MaxJobs + 2

Scans == [next : 1..(ButtonCount + 1), last : ButtonIds, single : BOOLEAN, found : SUBSET ButtonIds]

ASSUME GatewayAssumption ==
  /\ TaskCount = MaxJobs + 2
  /\ Idle \notin Scans /\ Idle # [task |-> "display"]

VARIABLES
  exec, scan,
  ready, mode, \* display.cpp
  config       \* what config_read() gives for each field

taskVars == <<exec, scan, slots, ready, mode, config>>
gatewayVars == <<vars, buttonVars, taskVars>>

ScanTypeOK ==
  /\ scan = Idle \/ scan \in Scans
  /\ looked = NONE \/ looked.button \in ButtonIds

\* main(), up to its loop.
GatewayInit ==
  /\ Init /\ JobsInit /\ ButtonsInit
  /\ exec = Idle /\ scan = Idle
  /\ ready = FALSE /\ mode = "banner"
  /\ config \in [ConfigPaths -> ConfigTexts]

-----------------------------------------------------------------------------
(* Reading buttons: one device after the other, or /dev/buttons.           *)

Scan(first, last, single) ==
  scan' = [next |-> first, last |-> last, single |-> single, found |-> {}]

Scanned == scan # Idle /\ scan.next > scan.last

ScanStep ==
  /\ scan # Idle /\ ~Scanned
  /\ \/ Look(scan.next, scan.single) /\ UNCHANGED scan
     \/ /\ Clear
        /\ scan' = [scan EXCEPT !.next = @ + 1,
                                !.found = @ \union (IF looked.pressed THEN {looked.button} ELSE {})]
  /\ UNCHANGED <<vars, exec, slots, ready, mode, config>>

-----------------------------------------------------------------------------
(* pipeline_run_once(), with the file and program tables: exec.at is the   *)
(* stage it has come to, 0 for `<' and one past the last for `>'.          *)

ModePath == "/dev/display/mode"
StatusPath == "/dev/display/status"
AllButtons == "/dev/buttons"
Status == <<IF ready THEN "up" ELSE "down">>
Devices == {ModePath, StatusPath, AllButtons} \union {ButtonPath[b] : b \in ButtonIds}
           \union ConfigPaths

Words == UNION {{line[n] : n \in DOMAIN line} : line \in Lines}

ASSUME WordsAssumption ==
  /\ Lines \subseteq Seq(Words)
  /\ ButtonPath \in Seq(Devices) /\ Len(ButtonPath) = ButtonCount
  /\ NOWHERE \notin Devices \union {Kept(word) : word \in Words}

\* The modes are words that begin with themselves; nothing that a device or a program says
\* of its own begins with a mode.
ASSUME ModesAssumption ==
  /\ \A m \in {"menu", "banner"} : m \in Beginning[m]
  /\ Beginning["menu"] \intersect Beginning["banner"] = {}
  /\ \A m \in {"menu", "banner"} :
       Beginning[m] \intersect ({"up", "down", "0", "1", "none", "ready", "starting"} \union Devices) = {}

\* A field is no other device.
ASSUME ConfigAssumption ==
  /\ {ModePath, StatusPath, AllButtons} \intersect ConfigPaths = {}
  /\ \A b \in ButtonIds : ButtonPath[b] \notin ConfigPaths

PipelineRunOnce(job) ==
  exec' = [task |-> "pipeline", job |-> job, text |-> <<>>,
           at |-> IF job.pipeline.in = NOWHERE THEN 1 ELSE 0]

p == exec.job.pipeline
Stage == p.stages[exec.at]

\* The device that is read at this point: by `<', or by a cat with an argument.
Read ==
  IF exec.at = 0 THEN p.in
  ELSE IF exec.at <= Len(p.stages) /\ Len(Stage) > 1 /\ Stage[1] = "cat" THEN Stage[2]
  ELSE NOWHERE

\* The next stage gets the output of this one; if it fails nothing more happens.
Yields(text) == exec' = [exec EXCEPT !.at = @ + 1, !.text = text]
Fails == exec' = Idle

ReadDevice ==
  /\ Read # NOWHERE
  /\ \/ Read \notin Devices /\ Fails /\ UNCHANGED scan
     \/ Read = ModePath /\ Yields(<<mode>>) /\ UNCHANGED scan
     \/ Read = StatusPath /\ Yields(Status) /\ UNCHANGED scan
     \/ Read \in ConfigPaths /\ Yields(config[Read]) /\ UNCHANGED scan
     \/ Read = AllButtons /\ Scan(1, ButtonCount, FALSE) /\ UNCHANGED exec
     \/ \E b \in ButtonIds : Read = ButtonPath[b] /\ Scan(b, b, TRUE) /\ UNCHANGED exec
  /\ UNCHANGED <<slots, ready, mode, config>>

\* The values of f at the numbers in S, from the lowest on.
InOrder(f, S) ==
  MapThenFoldSet(LAMBDA value, values : Append(values, value), <<>>, LAMBDA n : f[n], Max, S)

\* A button's device says 1 or 0, /dev/buttons the names of those it has found.
ButtonsRead ==
  /\ Yields(IF scan.single THEN <<IF scan.found = {} THEN "0" ELSE "1">>
            ELSE IF scan.found = {} THEN <<"none">>
            ELSE InOrder(ButtonPath, scan.found))
  /\ scan' = Idle
  /\ UNCHANGED <<slots, ready, mode, config>>

\* Mutant: a program that is not found passes its input on.
NotFound_PassesOn == Yields(exec.text)

NotFound == Fails

\* The programs that read no device.  An attempt of bin/display comes too early, or finds no
\* panel, or gets it going.
Cat == Yields(exec.text) /\ UNCHANGED ready
Echo == Yields(Tail(Stage)) /\ UNCHANGED ready
Ls == Yields(<<AllButtons>> \o ButtonPath \o <<StatusPath, ModePath>>) /\ UNCHANGED ready
Display ==
  /\ ready' \in {ready, TRUE}
  /\ Yields(<<IF ready' THEN "ready" ELSE "starting">>)
Programs == {"cat", "echo", "ls", "display"}

RunProgram ==
  /\ Read = NOWHERE /\ exec.at <= Len(p.stages)
  /\ \/ Stage = <<>> /\ Fails /\ UNCHANGED ready
     \/ /\ Stage # <<>>
        /\ \/ Stage[1] = "cat" /\ Cat
           \/ Stage[1] = "echo" /\ Echo
           \/ Stage[1] = "ls" /\ Ls
           \/ Stage[1] = "display" /\ Display
           \/ Stage[1] \notin Programs /\ NotFound /\ UNCHANGED ready
  /\ UNCHANGED <<scan, slots, mode, config>>

Begins(text, m) == text # <<>> /\ text[1] \in Beginning[m]

\* mode_write(): it looks at the first four or six characters alone.
ModeWrite(text) ==
  IF Begins(text, "menu") THEN "menu" ELSE IF Begins(text, "banner") THEN "banner" ELSE mode

\* config_write() stores one line, of which the first word is all that anything here looks
\* at; what a write that fails leaves may be anything.
Stored(text) == IF text = <<>> THEN <<>> ELSE <<text[1]>>

ConfigWrite(path) ==
  \E text \in {Stored(exec.text)} \union ConfigTexts : config' = [config EXCEPT ![path] = text]

\* The other devices are read-only.  Whatever fs_write() returns, or if there is no such
\* device, that is the end of it.
WriteOut ==
  /\ exec.at > Len(p.stages)
  /\ mode' = IF p.out = ModePath THEN ModeWrite(exec.text) ELSE mode
  /\ IF p.out \in ConfigPaths THEN ConfigWrite(p.out) ELSE UNCHANGED config
  /\ exec' = Idle
  /\ UNCHANGED <<scan, slots, ready>>

PipelineStep ==
  /\ exec # Idle /\ exec.task = "pipeline"
  /\ \/ scan = Idle /\ (ReadDevice \/ RunProgram \/ WriteOut)
     \/ Scanned /\ ButtonsRead
  /\ UNCHANGED <<vars, buttonVars>>

-----------------------------------------------------------------------------
(* The tasks.                                                              *)

RunSlot ==
  /\ i \in JobIds
  /\ IF slots[i] = FREE THEN UNCHANGED exec ELSE PipelineRunOnce(slots[i])
  /\ UNCHANGED <<scan, slots>>

\* dispatch(): the pipeline of a line is run, or copied into a slot.
Pipeline == [line \in Lines |-> Parse(line)]

Dispatch(line) ==
  LET job == [line |-> line, pipeline |-> Pipeline[line]]
  IN  IF line[1] \in {"|", ">"} \/ ~Accepted(job.pipeline) THEN UNCHANGED <<exec, slots>>
      ELSE IF job.pipeline.background THEN JobStart(job) /\ UNCHANGED exec
      ELSE PipelineRunOnce(job) /\ UNCHANGED slots

TaskShell ==
  /\ i = ShellTask
  /\ \/ UNCHANGED <<exec, slots>>
     \/ \E line \in Lines : Dispatch(line)
     \/ \E id \in JobIds : JobKill(id) /\ UNCHANGED exec
  /\ UNCHANGED scan

TaskDisplay ==
  /\ i = DisplayTask
  /\ IF ready THEN exec' = [task |-> "display"] /\ Scan(1, ButtonCount, TRUE)
     ELSE UNCHANGED <<exec, scan>>
  /\ UNCHANGED slots

TaskRun ==
  /\ exec = Idle
  /\ Run
  /\ RunSlot \/ TaskShell \/ TaskDisplay
  /\ UNCHANGED <<buttonVars, ready, mode, config>>

\* The rest of task_display().  What the buttons do in the menu is in Settings; of that we
\* keep that ENTER may save the text of a field.
DisplayStep ==
  /\ exec # Idle /\ exec.task = "display" /\ Scanned
  /\ mode' = IF scan.found # {} THEN "menu" ELSE mode
  /\ \/ UNCHANGED config
     \/ /\ mode = "menu" /\ scan.found # {}
        /\ \E path \in ConfigPaths, text \in ConfigTexts : config' = [config EXCEPT ![path] = text]
  /\ exec' = Idle /\ scan' = Idle
  /\ UNCHANGED <<vars, buttonVars, slots, ready>>

LoopStep ==
  \/ TaskRun
  \/ exec = Idle /\ (Pass \/ Sleep) /\ UNCHANGED <<buttonVars, taskVars>>
  \/ ScanStep \/ PipelineStep \/ DisplayStep

TimerInterrupt == RepeatingTimerCallback /\ UNCHANGED <<vars, taskVars>>

GatewayNext ==
  \/ LoopStep
  \/ TimerInterrupt
  \/ \E b \in ButtonIds : Touch(b) /\ UNCHANGED <<vars, taskVars>>

GatewaySafety == GatewayInit /\ [][GatewayNext]_gatewayVars

\* One core that the timer interrupts every 5 ms, and one loop that never ends.
GatewaySpec == GatewaySafety /\ WF_gatewayVars(LoopStep) /\ WF_gatewayVars(TimerInterrupt)

-----------------------------------------------------------------------------
(* Properties.                                                             *)

\* Once the display is up every press that the timer registers is returned by a read, one
\* of the display or one of a job, whoever reads the same flags and in whatever mode the
\* display is -- except for a press that falls into the window of a one_read().
PressesAreReported ==
  \A b \in ButtonIds :
    ready /\ button[b] /\ ~InWindow(b) ~> scan # Idle /\ b \in scan.found

\* What a line means, told from its words: the words that are no operator and no path, each
\* in the stage that as many bars come before.
IsPath(line) ==
  LET path[n \in 1..Len(line)] == n > 1 /\ line[n - 1] \in Redirections /\ ~path[n - 1] IN path
Bars(line, n) == {m \in 1..(n - 1) : line[m] = "|" /\ ~IsPath(line)[m]}
Positions(line, stage) ==
  {n \in 1..Len(line) : /\ line[n] \notin Operators /\ ~IsPath(line)[n]
                        /\ Cardinality(Bars(line, n)) = stage - 1}
KeptWords(line) == [n \in 1..Len(line) |-> Kept(line[n])]
WordsOf(line, stage) == InOrder(KeptWords(line), Positions(line, stage))

\* The words that a text comes from: those of a stage, or `cat' for `<', of which the last
\* counts.
Redirected(line, r) == {n \in 2..Len(line) : IsPath(line)[n] /\ line[n - 1] = r}
SourceOf(line, stage) ==
  IF stage > 0 THEN WordsOf(line, stage)
  ELSE IF Redirected(line, "<") = {} THEN <<>> ELSE <<"cat", Kept(line[Max(Redirected(line, "<"))])>>

\* They work, and they say m: `echo m...', or `cat' of a field whose text is m...
Works(words) ==
  /\ words # <<>> /\ words[1] \in Programs
  /\ words[1] = "cat" /\ Len(words) > 1 => words[2] \in Devices
Says(words, m) ==
  /\ Len(words) > 1
  /\ \/ words[1] = "echo" /\ words[2] \in Beginning[m]
     \/ words[1] = "cat" /\ words[2] \in ConfigPaths /\ Begins(config[words[2]], m)

\* The mode is set to m: what says m reaches the device through nothing but cats, and what
\* comes before in the pipeline works too.
Asks(typed, m) ==
  LET line == Tokens(typed)
      stages == 1 + Cardinality(Bars(line, Len(line) + 1))
      out == Redirected(line, ">")
  IN  /\ out # {} /\ Kept(line[Max(out)]) = ModePath
      /\ stages <= MaxStages
      /\ \A k \in 1..stages : Works(WordsOf(line, k)) /\ Len(WordsOf(line, k)) <= MaxArgs
      /\ SourceOf(line, 0) # <<>> => Works(SourceOf(line, 0))
      /\ \E k \in 0..stages : /\ Says(SourceOf(line, k), m)
                              /\ \A later \in (k + 1)..stages : WordsOf(line, later) = <<"cat">>

\* The display changes its mode only if a button was pressed, or a line that says so was
\* typed, in the foreground or when the job was started, or one that takes the mode from a
\* field which says so now, however the line was parsed, copied and run and whoever wrote
\* the field: a line that is refused, or a stage of which fails, changes nothing.
ModeIsAsked ==
  [][mode' # mode =>
       \/ exec.task = "display" /\ scan.found # {} /\ mode' = "menu"
       \/ exec.task = "pipeline" /\ Asks(exec.job.line, mode')]_gatewayVars
=============================================================================
