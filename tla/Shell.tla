-------------------------------- MODULE Shell --------------------------------
(***************************************************************************)
(* shell.cpp: task_shell() with its script table, the script being         *)
(* captured, the script being replayed (`run', `loop'), `watch' and        *)
(* `sleep', and the background jobs it starts and kills.                   *)
(*                                                                         *)
(* One call of task_shell() is one action, except that the input loop at   *)
(* its end takes a step for each key (`reading' is TRUE in between),       *)
(* because more input can come in meanwhile, and that the two things that  *)
(* may happen on top of a call, the boot script and waking up, are steps   *)
(* of their own.  A line is its command word and argument; a typed line is *)
(* one key of `input', and so is Ctrl-C.  Time is abstract: a sleep may be *)
(* over at any moment.  What is left in the capture buffer after a capture *)
(* and in run_buf after a run is never read again, and is empty here.      *)
(***************************************************************************)
EXTENDS Jobs, SequencesExt

CONSTANTS
  Typed,      \* lines the user may type, each with its argument
  BootText,   \* BOOT_SCRIPT_TEXT
  ScriptMax,  \* SCRIPT_MAX
  TextMax,    \* lines that fill SCRIPT_TEXT_MAX
  InputMax,   \* bound: keys waiting in the stdio buffer
  NONE        \* no argument

ASSUME SizesAssumption ==
  ScriptMax \in Nat \ {0} /\ TextMax \in Nat /\ InputMax \in Nat /\ Len(BootText) <= TextMax + 1
ASSUME NoneAssumption == NONE # "boot"
ASSUME LinesAssumption ==
  /\ BootText \in Seq(ToSet(BootText))
  /\ \A l \in Typed \union ToSet(BootText) : l.arg # NONE

CtrlC == [word |-> "^C", arg |-> NONE]
End == [word |-> ".", arg |-> "."]
Unused == [name |-> NONE, text |-> <<>>]
Scripts == 1..ScriptMax

VARIABLES
  banner_shown, sleeping,
  scripts, capturing, capture_name, capture_buf,
  running, run_buf, run_pos, looping,
  run_slot,   \* the script in run_buf, or 0 for the -1 it starts with
  watching,
  input, reading

captureVars == <<capturing, capture_name, capture_buf>>
runVars == <<running, run_buf, run_pos, looping, run_slot>>
vars == <<banner_shown, sleeping, scripts, captureVars, runVars, watching, input, reading, slots>>

Init ==
  /\ banner_shown = FALSE /\ sleeping = FALSE
  /\ scripts = [s \in Scripts |->
                  IF s = 1 THEN [name |-> "boot", text |-> BootText] ELSE Unused]
  /\ capturing = FALSE /\ capture_name = NONE /\ capture_buf = <<>>
  /\ running = FALSE /\ run_buf = <<>> /\ run_pos = 0 /\ looping = FALSE /\ run_slot = 0
  /\ watching = FALSE
  /\ input = <<>> /\ reading = FALSE
  /\ JobsInit

\* find_script(): the first slot of that name.
Named(s, name) == scripts[s].name = name /\ \A r \in 1..(s - 1) : scripts[r].name # name

-----------------------------------------------------------------------------
(* dispatch().  A builtin without its argument only prints its usage.      *)

Is(l, word) == l.word = word /\ l.arg # NONE

\* Everything but `run' and `loop'; a line that is none of these runs in the foreground
\* and changes nothing here.
Command(l) ==
  /\ sleeping' = (sleeping \/ Is(l, "sleep"))
  /\ watching' = (watching \/ Is(l, "watch"))
  /\ IF Is(l, "script")
     THEN capturing' = TRUE /\ capture_name' = l.arg /\ capture_buf' = <<>>
     ELSE UNCHANGED captureVars
  /\ IF Is(l, "kill") THEN JobKill(l.arg)
     ELSE IF Is(l, "&") THEN JobStart(l.arg)
     ELSE UNCHANGED slots

Replays(l) == Is(l, "run") \/ Is(l, "loop")

\* Mutant: `loop' does not note which script it replays.
StartScript_NoSlot(l) ==
  IF Replays(l) /\ ~running /\ \E s \in Scripts : Named(s, l.arg)
  THEN \E s \in Scripts :
         /\ Named(s, l.arg)
         /\ run_buf' = scripts[s].text /\ run_pos' = 0
         /\ running' = TRUE /\ looping' = (looping \/ l.word = "loop")
         /\ UNCHANGED run_slot
  ELSE UNCHANGED runVars

\* `run' and `loop', refused while a script runs or if there is none of that name.
StartScript(l) ==
  IF Replays(l) /\ ~running /\ \E s \in Scripts : Named(s, l.arg)
  THEN \E s \in Scripts :
         /\ Named(s, l.arg)
         /\ run_buf' = scripts[s].text /\ run_pos' = 0 /\ run_slot' = s
         /\ running' = TRUE /\ looping' = (looping \/ l.word = "loop")
  ELSE UNCHANGED runVars

-----------------------------------------------------------------------------
(* capture_line().                                                         *)

\* Mutant: the search starts from slot 0, not from -1, so that a full table has a slot.
SlotFor_FullTakesFirst(name) ==
  IF \E s \in Scripts : Named(s, name) THEN {s \in Scripts : Named(s, name)}
  ELSE IF \E s \in Scripts : Named(s, NONE) THEN {s \in Scripts : Named(s, NONE)}
  ELSE {1}

\* The slot of the script of that name, or the first unused one, if any.
SlotFor(name) ==
  IF \E s \in Scripts : Named(s, name) THEN {s \in Scripts : Named(s, name)}
  ELSE {s \in Scripts : Named(s, NONE)}

CaptureLine(l) ==
  IF l = End
  THEN /\ scripts' = [s \in Scripts |->
                        IF s \in SlotFor(capture_name)
                        THEN [name |-> capture_name, text |-> capture_buf]
                        ELSE scripts[s]]
       /\ capturing' = FALSE /\ capture_name' = NONE /\ capture_buf' = <<>>
  ELSE /\ capture_buf' = IF Len(capture_buf) < TextMax THEN Append(capture_buf, l)
                         ELSE capture_buf
       /\ UNCHANGED <<scripts, capturing, capture_name>>

-----------------------------------------------------------------------------
(* task_shell().                                                           *)

Boot ==
  /\ ~banner_shown
  /\ banner_shown' = TRUE
  /\ \E s \in Scripts : Named(s, "boot") /\ run_buf' = scripts[s].text
  /\ run_pos' = 0 /\ running' = TRUE
  /\ UNCHANGED <<sleeping, scripts, captureVars, looping, run_slot, watching, input, reading, slots>>

Called == banner_shown /\ ~reading

WakeUp ==
  /\ Called /\ sleeping
  /\ sleeping' = FALSE
  /\ UNCHANGED <<banner_shown, scripts, captureVars, runVars, watching, input, reading, slots>>

\* A loop and `watch' read the input only for a Ctrl-C, and discard the rest.
Stopped == CtrlC \in ToSet(input)
Discarded ==
  LET at == SelectInSeq(input, LAMBDA k : k = CtrlC)
  IN  IF Stopped THEN SubSeq(input, at + 1, Len(input)) ELSE <<>>

\* Mutant: Ctrl-C ends the replay and not the loop.
Replayed_StillLooping(buf, pos) ==
  /\ UNCHANGED looping
  /\ IF looping /\ Stopped
     THEN running' = FALSE /\ run_buf' = <<>> /\ run_pos' = 0
     ELSE run_buf' = buf /\ run_pos' = pos /\ UNCHANGED running

\* The tail of a call that replays a script: buf and pos are what is left of it.
Replayed(buf, pos) ==
  IF looping /\ Stopped
  THEN running' = FALSE /\ looping' = FALSE /\ run_buf' = <<>> /\ run_pos' = 0
  ELSE run_buf' = buf /\ run_pos' = pos /\ UNCHANGED <<running, looping>>

PollCtrlC == input' = IF looping THEN Discarded ELSE input

\* strtok() has put a NUL behind the first word.
Cut(l) == [l EXCEPT !.arg = NONE]

\* Mutant: the last line, if no newline ends it, is not passed.
NextLine_LastStays == IF run_pos + 1 = Len(run_buf) THEN run_pos ELSE run_pos + 1

NextLine == run_pos + 1

RunLine ==
  /\ Called /\ ~sleeping /\ running
  /\ run_pos < Len(run_buf)
  /\ Command(run_buf[run_pos + 1])
  /\ Replayed([run_buf EXCEPT ![run_pos + 1] = Cut(@)], NextLine)
  /\ PollCtrlC
  /\ UNCHANGED <<banner_shown, scripts, run_slot, reading>>

\* Mutant: the loop rewinds run_buf and does not load it anew.
Reloaded_Rewound == run_buf

Reloaded == scripts[run_slot].text

RunEnds ==
  /\ Called /\ ~sleeping /\ running
  /\ run_pos = Len(run_buf)
  /\ \/ looping /\ Replayed(Reloaded, 0)
     \/ ~looping /\ running' = FALSE /\ run_buf' = <<>> /\ run_pos' = 0 /\ UNCHANGED looping
  /\ PollCtrlC
  /\ UNCHANGED <<banner_shown, sleeping, scripts, captureVars, run_slot, watching, reading, slots>>

Watch ==
  /\ Called /\ ~sleeping /\ ~running /\ watching
  /\ input' = Discarded
  /\ watching' = ~Stopped
  /\ UNCHANGED <<banner_shown, sleeping, scripts, captureVars, runVars, reading, slots>>

\* Mutant: the input is read while a script runs.
AtPrompt_WhileRunning == Called /\ ~sleeping /\ ~watching

AtPrompt == Called /\ ~sleeping /\ ~running /\ ~watching

BeginInput ==
  /\ AtPrompt /\ input # <<>>
  /\ reading' = TRUE
  /\ UNCHANGED <<banner_shown, sleeping, scripts, captureVars, runVars, watching, input, slots>>

ReadKey ==
  /\ reading /\ input # <<>>
  /\ input' = Tail(input)
  /\ LET l == Head(input)
     IN  \/ /\ l = CtrlC  \* not printable
            /\ UNCHANGED <<sleeping, scripts, captureVars, runVars, watching, slots>>
         \/ /\ l # CtrlC /\ capturing
            /\ CaptureLine(l)
            /\ UNCHANGED <<sleeping, runVars, watching, slots>>
         \/ /\ l # CtrlC /\ ~capturing
            /\ Command(l) /\ StartScript(l)
            /\ UNCHANGED scripts
  /\ UNCHANGED <<banner_shown, reading>>

EndInput ==
  /\ reading /\ input = <<>>
  /\ reading' = FALSE
  /\ UNCHANGED <<banner_shown, sleeping, scripts, captureVars, runVars, watching, input, slots>>

TaskShell ==
  \/ Boot \/ WakeUp \/ RunLine \/ RunEnds \/ Watch \/ BeginInput \/ ReadKey \/ EndInput

\* The USB console puts a key into the stdio buffer, in interrupt context.
Type(k) ==
  /\ Len(input) < InputMax
  /\ input' = Append(input, k)
  /\ UNCHANGED <<banner_shown, sleeping, scripts, captureVars, runVars, watching, reading, slots>>

Next == TaskShell \/ \E k \in Typed \union {CtrlC} : Type(k)

\* The scheduler calls task_shell() again and again (TaskScheduler), a sleep ends, and the
\* input loop finds the buffer empty some time: it reads much faster than anyone types.
Spec == Init /\ [][Next]_vars /\ WF_vars(TaskShell) /\ SF_vars(EndInput)

-----------------------------------------------------------------------------
(* Properties.                                                             *)

\* The line of a script, when its turn comes, is the line that was captured, however often
\* the script has been replayed from the buffer that dispatch() cuts to pieces ("every line
\* has shrunk to its first word", shell.cpp:108-115).
LinesAreWhole == running => \A n \in (run_pos + 1)..Len(run_buf) : run_buf[n].arg # NONE

\* A loop has a script to load again when it comes to the end: run_slot is not the -1 that
\* the automatic run of "boot" leaves there, and nothing can set `looping' during that run.
LoopHasScript == looping => running /\ run_slot \in Scripts /\ scripts[run_slot] # Unused

\* Capturing and redefining scripts leaves one script to a name, and "boot" among them
\* (relied on at shell.cpp:361-364), so what was saved last under a name is what runs.
OneScriptPerName ==
  /\ \A s, r \in Scripts : scripts[s] # Unused /\ scripts[s].name = scripts[r].name => s = r
  /\ \E s \in Scripts : scripts[s].name = "boot"

\* All the jobs of the boot script come up, whatever is typed meanwhile: nothing typed is
\* looked at, and so nothing can kill the first, before the last has started.
BootCompletes ==
  <>(\A n \in 1..Len(BootText) : \E id \in JobIds : slots[id] = BootText[n].arg)

\* `run' comes to an end, whatever it runs: a script cannot start another, or itself.
ScriptsEnd == running /\ ~looping ~> ~running

\* "forever until Ctrl-C" (shell.cpp:37): a Ctrl-C that comes when a loop is under way, or
\* asleep, stops it.  One that is read by the same call of task_shell() as the `loop' line
\* is thrown away as an unprintable character.
CtrlCStopsLoop == looping /\ ~reading /\ Stopped ~> ~looping
=============================================================================
