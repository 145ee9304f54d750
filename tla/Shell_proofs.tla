----------------------------- MODULE Shell_proofs -----------------------------
(***************************************************************************)
(* The script table of shell.cpp and the slot that a loop replays, for any *)
(* number of slots, any boot script and whatever is typed; and the lines   *)
(* that are replayed are those captured; a Ctrl-C waits for its loop, and  *)
(* the boot script's jobs come up undisturbed.                             *)
(***************************************************************************)
EXTENDS Shell, SequenceTheorems, WellFoundedInduction, TLAPS

USE SizesAssumption, NoneAssumption

\* What else is true of the table and of the name being captured.
TableOK ==
  /\ \A s \in Scripts : scripts[s].name = NONE => scripts[s] = Unused
  /\ capturing => capture_name # NONE

SInv == TableOK /\ OneScriptPerName /\ LoopHasScript

LEMMA InitSInv == Init => SInv
<1> SUFFICES ASSUME Init PROVE SInv
  OBVIOUS
<1>1. 1 \in Scripts /\ scripts[1].name = "boot"
  BY DEF Init, Scripts
<1>2. TableOK
  BY DEF Init, TableOK
<1>3. OneScriptPerName
  <2>1. ASSUME NEW s \in Scripts, NEW r \in Scripts, scripts[s] # Unused, scripts[s].name = scripts[r].name
        PROVE  s = r
    BY <2>1 DEF Init, Unused
  <2>2. QED
    BY <1>1, <2>1 DEF OneScriptPerName
<1>4. QED
  BY <1>2, <1>3 DEF SInv, LoopHasScript, Init

\* The slot that a captured script goes to is unused or has its name already, and is the
\* only one of that name afterwards.
LEMMA CaptureKeeps ==
  ASSUME SInv, capturing, NEW l, CaptureLine(l), UNCHANGED runVars
  PROVE  SInv'
<1>1. CASE l = End
  <2>1. \A s \in Scripts : scripts'[s] = IF s \in SlotFor(capture_name)
                                         THEN [name |-> capture_name, text |-> capture_buf]
                                         ELSE scripts[s]
    BY <1>1 DEF CaptureLine
  <2>2. ~capturing' /\ capture_name # NONE
    BY <1>1 DEF CaptureLine, SInv, TableOK
  <2>3. TableOK'
    BY <2>1, <2>2 DEF SInv, TableOK
  <2>4. \A s \in SlotFor(capture_name) :
          s \in Scripts /\ (scripts[s].name = capture_name \/ scripts[s].name = NONE)
    BY DEF SlotFor, Named
  <2>5. \A s, r \in SlotFor(capture_name) : s = r
    BY DEF SlotFor, Named, Scripts
  <2>6. \A r \in Scripts : scripts[r].name = capture_name => SlotFor(capture_name) = {r}
    <3> SUFFICES ASSUME NEW r \in Scripts, scripts[r].name = capture_name
                 PROVE  SlotFor(capture_name) = {r}
      OBVIOUS
    <3>1. \A s \in Scripts : scripts[s].name = capture_name => s = r
      <4> SUFFICES ASSUME NEW s \in Scripts, scripts[s].name = capture_name PROVE s = r
        OBVIOUS
      <4>1. scripts[s] # Unused
        BY <2>2 DEF Unused
      <4>2. QED
        BY <4>1 DEF SInv, OneScriptPerName
    <3>2. Named(r, capture_name)
      BY <3>1 DEF Named, Scripts
    <3>3. QED
      BY <3>1, <3>2, <2>4, <2>5 DEF SlotFor, Named
  <2>7. ASSUME NEW s \in Scripts, NEW r \in Scripts,
               scripts'[s] # Unused, scripts'[s].name = scripts'[r].name
        PROVE  s = r
    <3>1. CASE s \in SlotFor(capture_name) /\ r \in SlotFor(capture_name)
      BY <3>1, <2>5
    <3>2. CASE s \in SlotFor(capture_name) /\ r \notin SlotFor(capture_name)
      <4>1. scripts[r].name = capture_name
        BY <2>1, <2>7, <3>2
      <4>2. QED
        BY <4>1, <2>6, <3>2
    <3>3. CASE s \notin SlotFor(capture_name) /\ r \in SlotFor(capture_name)
      <4>1. scripts[s].name = capture_name
        BY <2>1, <2>7, <3>3
      <4>2. QED
        BY <4>1, <2>6, <3>3
    <3>4. CASE s \notin SlotFor(capture_name) /\ r \notin SlotFor(capture_name)
      BY <2>1, <2>7, <3>4 DEF SInv, OneScriptPerName
    <3>5. QED
      BY <3>1, <3>2, <3>3, <3>4
  <2>8. \E s \in Scripts : scripts'[s].name = "boot"
    <3>1. PICK s \in Scripts : scripts[s].name = "boot"
      BY DEF SInv, OneScriptPerName
    <3>2. scripts'[s].name = "boot"
      BY <3>1, <2>1, <2>4
    <3>3. QED
      BY <3>2
  <2>9. LoopHasScript'
    BY <2>1, <2>2 DEF SInv, LoopHasScript, runVars, Unused
  <2>10. QED
    BY <2>3, <2>7, <2>8, <2>9 DEF SInv, OneScriptPerName
<1>2. CASE l # End
  BY <1>2 DEF CaptureLine, SInv, TableOK, OneScriptPerName, LoopHasScript, runVars
<1>3. QED
  BY <1>1, <1>2

\* Nothing but a capture changes the table, and only a `script' line starts one.
LEMMA TableStays ==
  ASSUME SInv, UNCHANGED scripts, capturing' => capture_name' # NONE
  PROVE  TableOK' /\ OneScriptPerName'
  BY DEF SInv, TableOK, OneScriptPerName

LEMMA CommandNames ==
  ASSUME SInv, NEW l, Command(l) PROVE capturing' => capture_name' # NONE
  BY DEF SInv, TableOK, Command, Is, captureVars

LEMMA ReadKeyKeeps == ASSUME SInv, ReadKey PROVE SInv'
<1> DEFINE l == Head(input)
<1>1. CASE UNCHANGED <<sleeping, scripts, captureVars, runVars, watching, slots>>
  BY <1>1, TableStays DEF SInv, TableOK, LoopHasScript, captureVars, runVars
<1>2. CASE capturing /\ CaptureLine(l) /\ UNCHANGED <<sleeping, runVars, watching, slots>>
  BY <1>2, CaptureKeeps
<1>3. CASE Command(l) /\ StartScript(l) /\ UNCHANGED scripts
  <2>1. TableOK' /\ OneScriptPerName'
    BY <1>3, CommandNames, TableStays
  <2>2. CASE UNCHANGED runVars
    BY <1>3, <2>1, <2>2 DEF SInv, LoopHasScript, runVars
  <2>3. ASSUME NEW s \in Scripts, Named(s, l.arg), l.arg # NONE, run_slot' = s, running' = TRUE
        PROVE  LoopHasScript'
    BY <1>3, <2>3 DEF LoopHasScript, Named, Unused
  <2>4. QED
    BY <1>3, <2>1, <2>2, <2>3 DEF SInv, StartScript, Replays, Is
<1>4. QED
  BY <1>1, <1>2, <1>3 DEF ReadKey

LEMMA NextSInv == SInv /\ [Next]_vars => SInv'
<1> SUFFICES ASSUME SInv, [Next]_vars PROVE SInv'
  OBVIOUS
<1>1. CASE RunLine
  <2>1. TableOK' /\ OneScriptPerName'
    BY <1>1, CommandNames, TableStays DEF RunLine
  <2>2. LoopHasScript'
    BY <1>1 DEF RunLine, Replayed, SInv, LoopHasScript
  <2>3. QED
    BY <2>1, <2>2 DEF SInv
<1>2. CASE Boot \/ WakeUp \/ RunEnds \/ Watch \/ BeginInput \/ EndInput
  <2>1. TableOK' /\ OneScriptPerName'
    BY <1>2, TableStays
    DEF Boot, WakeUp, RunEnds, Watch, BeginInput, EndInput, captureVars, SInv, TableOK
  <2>2. LoopHasScript'
    BY <1>2
    DEF Boot, WakeUp, RunEnds, Watch, BeginInput, EndInput, Replayed, runVars, SInv, LoopHasScript
  <2>3. QED
    BY <2>1, <2>2 DEF SInv
<1>3. CASE UNCHANGED vars \/ \E k \in Typed \union {CtrlC} : Type(k)
  BY <1>3 DEF vars, Type, captureVars, runVars, SInv, TableOK, OneScriptPerName, LoopHasScript
<1>4. QED
  BY <1>1, <1>2, <1>3, ReadKeyKeeps DEF Next, TaskShell

\* No capture, whatever its name and however full the table, leaves two scripts of a name or
\* none called "boot".
THEOREM ScriptTable == Spec => []OneScriptPerName
BY InitSInv, NextSInv, PTL DEF Spec, SInv

\* A loop never comes to its end without a script to load again.
THEOREM LoopReloads == Spec => []LoopHasScript
BY InitSInv, NextSInv, PTL DEF Spec, SInv
-----------------------------------------------------------------------------
(* What is replayed.                                                       *)

USE LinesAssumption

\* Lines as they are typed or captured, and as dispatch() leaves them.
WholeLines == Typed \union ToSet(BootText)
CutLines == {Cut(l) : l \in WholeLines}

LinesOK ==
  /\ input \in Seq(Typed \union {CtrlC})
  /\ capture_buf \in Seq(WholeLines)
  /\ \A s \in Scripts : scripts[s].text \in Seq(WholeLines)
  /\ run_pos \in Nat /\ run_buf \in Seq(WholeLines \union CutLines)

RInv == LinesOK /\ LinesAreWhole

\* A text of whole lines can be replayed from its start.
LEMMA WholeText ==
  ASSUME NEW text \in Seq(WholeLines)
  PROVE  text \in Seq(WholeLines \union CutLines) /\ \A n \in 1..Len(text) : text[n].arg # NONE
<1>1. \A n \in 1..Len(text) : text[n] \in WholeLines
  OBVIOUS
<1>2. \A n \in 1..Len(text) : text[n].arg # NONE
  BY <1>1 DEF WholeLines
<1>3. text \in Seq(WholeLines \union CutLines)
  BY <1>1
<1>4. QED
  BY <1>2, <1>3

\* What a Ctrl-C leaves of the input.
LEMMA DiscardedType ==
  ASSUME input \in Seq(Typed \union {CtrlC}) PROVE Discarded \in Seq(Typed \union {CtrlC})
<1> DEFINE stops == {n \in 1..Len(input) : input[n] = CtrlC}
           at == IF stops # {} THEN Min(stops) ELSE 0
<1>1. at \in Nat
  <2>1. CASE stops # {}
    <3>1. stops \subseteq Nat
      OBVIOUS
    <3>2. PICK n \in stops : \A m \in stops : ~(<<m, n>> \in OpToRel(<, Nat))
      BY <2>1, <3>1, WFMin, NatLessThanWellFounded
    <3>3. \A m \in Nat : m < n => <<m, n>> \in OpToRel(<, Nat)
      BY <3>1 DEF OpToRel
    <3>4. \A m \in stops : ~(m < n)
      BY <3>1, <3>2, <3>3, Zenon
    <3>5. \A m \in stops : n <= m
      BY <3>1, <3>4
    <3>6. Min(stops) \in stops
      BY <3>5 DEF Min
    <3>7. QED
      BY <2>1, <3>1, <3>6
  <2>2. QED
    BY <2>1
<1>2. SubSeq(input, at + 1, Len(input)) \in Seq(Typed \union {CtrlC})
  <2>1. at + 1 \in Int /\ Len(input) \in Int
    BY <1>1
  <2>2. \A n \in (at + 1)..Len(input) : input[n] \in Typed \union {CtrlC}
    BY <1>1
  <2>3. QED
    BY <2>1, <2>2, SubSeqProperties
<1>3. Discarded = IF Stopped THEN SubSeq(input, at + 1, Len(input)) ELSE <<>>
  BY Zenon DEF Discarded, SelectInSeq
<1>4. QED
  BY <1>2, <1>3

LEMMA InitRInv == Init => RInv
<1> SUFFICES ASSUME Init PROVE RInv
  OBVIOUS
<1>1. BootText \in Seq(WholeLines)
  BY DEF WholeLines
<1>2. LinesOK
  BY <1>1 DEF Init, LinesOK, Unused
<1>3. QED
  BY <1>2 DEF RInv, LinesAreWhole, Init

\* A buffer is emptied, kept or extended by a line.
LEMMA BufferType ==
  ASSUME NEW S, NEW s \in Seq(S), NEW t, t = <<>> \/ t = s \/ \E e \in S : t = Append(s, e)
  PROVE  t \in Seq(S)
<1>1. CASE t = <<>>
  BY <1>1, EmptySeq, Zenon
<1>2. CASE t = s
  BY <1>2
<1>3. ASSUME NEW e \in S, t = Append(s, e) PROVE t \in Seq(S)
  BY <1>3, AppendProperties
<1>4. QED
  BY <1>1, <1>2, <1>3, Zenon

LEMMA CommandCaptures ==
  ASSUME NEW l, Command(l) PROVE capture_buf' = <<>> \/ capture_buf' = capture_buf
<1>1. CASE Is(l, "script")
  BY <1>1 DEF Command
<1>2. CASE ~Is(l, "script")
  BY <1>2 DEF Command, captureVars
<1>3. QED
  BY <1>1, <1>2

LEMMA NextRInv == SInv /\ RInv /\ [Next]_vars => RInv'
<1> SUFFICES ASSUME SInv, RInv, [Next]_vars PROVE RInv'
  OBVIOUS
<1> USE DEF RInv, LinesOK, LinesAreWhole
<1>1. CASE Boot
  <2>1. PICK s \in Scripts : run_buf' = scripts[s].text
    BY <1>1 DEF Boot
  <2>2. /\ run_buf' \in Seq(WholeLines \union CutLines)
        /\ \A n \in 1..Len(run_buf') : run_buf'[n].arg # NONE
    BY <2>1, WholeText
  <2>3. /\ run_pos' = 0
        /\ input' = input /\ scripts' = scripts /\ capture_buf' = capture_buf
    BY <1>1 DEF Boot, captureVars
  <2>4. QED
    BY <2>2, <2>3
<1>2. CASE RunLine
  <2>1. capture_buf' \in Seq(WholeLines) /\ UNCHANGED scripts
    <3>1. (capture_buf' = <<>> \/ capture_buf' = capture_buf) /\ UNCHANGED scripts
      BY <1>2, CommandCaptures DEF RunLine
    <3>2. QED
      BY <3>1, BufferType
  <2>2. input' \in Seq(Typed \union {CtrlC})
    BY <1>2, DiscardedType DEF RunLine, PollCtrlC
  <2> DEFINE cut == [run_buf EXCEPT ![run_pos + 1] = Cut(@)]
  <2>3. run_pos + 1 \in 1..Len(run_buf)
    BY <1>2 DEF RunLine
  <2>4. \/ run_buf' = <<>> /\ run_pos' = 0
        \/ run_buf' = cut /\ run_pos' = run_pos + 1 /\ running' = running
    BY <1>2 DEF RunLine, Replayed, NextLine
  <2>5. run_buf[run_pos + 1].arg # NONE /\ run_buf[run_pos + 1] \in WholeLines \union CutLines
    BY <1>2, <2>3 DEF RunLine
  <2>6. Cut(run_buf[run_pos + 1]) \in CutLines
    BY <2>5 DEF CutLines, Cut
  <2>7. cut \in Seq(WholeLines \union CutLines) /\ Len(cut) = Len(run_buf)
    BY <2>3, <2>6
  <2>8. \A n \in (run_pos + 2)..Len(cut) : cut[n] = run_buf[n]
    BY <2>7
  <2>9. CASE run_buf' = <<>> /\ run_pos' = 0
    BY <2>1, <2>2, <2>9
  <2>10. CASE run_buf' = cut /\ run_pos' = run_pos + 1 /\ running' = running
    <3>1. running' => \A n \in (run_pos' + 1)..Len(run_buf') : run_buf'[n].arg # NONE
      BY <2>3, <2>7, <2>8, <2>10
    <3>2. QED
      BY <2>1, <2>2, <2>7, <2>10, <3>1
  <2>11. QED
    BY <2>4, <2>9, <2>10
<1>3. CASE RunEnds
  <2>1. input' \in Seq(Typed \union {CtrlC})
    BY <1>3, DiscardedType DEF RunEnds, PollCtrlC
  <2>2. \/ run_buf' = <<>> /\ run_pos' = 0
        \/ looping /\ run_buf' = scripts[run_slot].text /\ run_pos' = 0
    BY <1>3 DEF RunEnds, Replayed, Reloaded
  <2>3. CASE run_buf' = <<>> /\ run_pos' = 0
    BY <1>3, <2>1, <2>3 DEF RunEnds, captureVars
  <2>4. CASE looping /\ run_buf' = scripts[run_slot].text /\ run_pos' = 0
    <3>1. run_slot \in Scripts
      BY <2>4 DEF SInv, LoopHasScript
    <3>2. QED
      BY <1>3, <2>1, <2>4, <3>1, WholeText DEF RunEnds, captureVars
  <2>5. QED
    BY <2>2, <2>3, <2>4
<1>4. CASE ReadKey
  <2> DEFINE l == Head(input)
  <2>1. l \in Typed \union {CtrlC} /\ input' \in Seq(Typed \union {CtrlC})
    BY <1>4 DEF ReadKey
  <2>2. CASE UNCHANGED <<sleeping, scripts, captureVars, runVars, watching, slots>>
    BY <2>1, <2>2 DEF captureVars, runVars
  <2>3. CASE l # CtrlC /\ capturing /\ CaptureLine(l) /\ UNCHANGED <<sleeping, runVars, watching, slots>>
    <3>1. l \in WholeLines
      BY <2>1, <2>3 DEF WholeLines
    <3>2. capture_buf' = <<>> \/ capture_buf' = capture_buf \/ capture_buf' = Append(capture_buf, l)
      BY <2>3 DEF CaptureLine
    <3>3. \A s \in Scripts : scripts'[s] = scripts[s] \/ scripts'[s].text = capture_buf
      <4>1. CASE l = End
        BY <2>3, <4>1 DEF CaptureLine
      <4>2. CASE l # End
        BY <2>3, <4>2 DEF CaptureLine
      <4>3. QED
        BY <4>1, <4>2
    <3>4. QED
      <4>1. capture_buf' \in Seq(WholeLines)
        BY <3>1, <3>2, BufferType
      <4>2. \A s \in Scripts : scripts'[s].text \in Seq(WholeLines)
        BY <3>3
      <4>3. QED
        BY <2>1, <2>3, <4>1, <4>2 DEF runVars
  <2>4. CASE Command(l) /\ StartScript(l) /\ UNCHANGED scripts
    <3>1. capture_buf' \in Seq(WholeLines)
      <4>1. capture_buf' = <<>> \/ capture_buf' = capture_buf
        BY <2>4, CommandCaptures
      <4>2. QED
        BY <4>1, BufferType
    <3>2. CASE UNCHANGED runVars
      BY <2>1, <2>4, <3>1, <3>2 DEF runVars
    <3>3. ASSUME NEW s \in Scripts, run_buf' = scripts[s].text, run_pos' = 0 PROVE RInv'
      BY <2>1, <2>4, <3>1, <3>3, WholeText
    <3>4. QED
      BY <2>4, <3>2, <3>3 DEF StartScript
  <2>5. QED
    BY <1>4, <2>2, <2>3, <2>4 DEF ReadKey
<1>5. CASE Watch
  BY <1>5, DiscardedType DEF Watch, captureVars, runVars
<1>6. CASE WakeUp \/ BeginInput \/ EndInput \/ UNCHANGED vars
  BY <1>6 DEF WakeUp, BeginInput, EndInput, vars, captureVars, runVars
<1>7. ASSUME NEW k \in Typed \union {CtrlC}, Type(k) PROVE RInv'
  <2>1. input' \in Seq(Typed \union {CtrlC})
    BY <1>7 DEF Type
  <2>2. QED
    BY <1>7, <2>1 DEF Type, captureVars, runVars
<1>8. QED
  BY <1>1, <1>2, <1>3, <1>4, <1>5, <1>6, <1>7 DEF Next, TaskShell

\* A line is replayed as it was captured, although dispatch() cuts what it has replayed.
THEOREM ReplayIsFaithful == Spec => []LinesAreWhole
BY InitSInv, NextSInv, InitRInv, NextRInv, PTL DEF Spec, RInv

-----------------------------------------------------------------------------
(* The safe halves of what fairness brings about.                          *)

\* A Ctrl-C that a loop has to look at is not thrown away by a step that does not look at it.
CtrlCIsKept == [][looping /\ ~reading /\ Stopped => ~looping' \/ (~reading' /\ Stopped')]_vars

\* Whatever is typed, and in whatever order it comes with sleeps and watches: a Ctrl-C that
\* comes while a loop is under way or asleep waits in the input until the loop has stopped
\* (shell.cpp:37).
THEOREM CtrlCWaits == Spec => CtrlCIsKept
<1>1. ASSUME SInv, RInv, Next, looping, ~reading, Stopped PROVE ~looping' \/ (~reading' /\ Stopped')
  <2>1. running
    BY <1>1 DEF SInv, LoopHasScript
  <2>2. CASE Boot \/ WakeUp
    BY <1>1, <2>2 DEF Boot, WakeUp, Stopped
  <2>3. CASE RunLine \/ RunEnds
    BY <1>1, <2>3 DEF RunLine, RunEnds, Replayed
  <2>4. CASE Watch \/ BeginInput \/ ReadKey \/ EndInput
    BY <1>1, <2>1, <2>4 DEF Watch, BeginInput, AtPrompt, ReadKey, EndInput
  <2>5. ASSUME NEW k \in Typed \union {CtrlC}, Type(k) PROVE ~reading' /\ Stopped'
    <3>1. input' = Append(input, k) /\ reading' = reading
      BY <2>5 DEF Type
    <3>2. input \in Seq(Typed \union {CtrlC})
      BY <1>1 DEF RInv, LinesOK
    <3>3. PICK n \in 1..Len(input) : input[n] = CtrlC
      BY <1>1, <3>2 DEF Stopped, ToSet
    <3>4. n \in 1..Len(input') /\ input'[n] = CtrlC
      BY <3>1, <3>2, <3>3
    <3>5. CtrlC \in ToSet(input')
      BY <3>4, <3>1, <3>2 DEF ToSet
    <3> QED
      BY <1>1, <3>1, <3>5 DEF Stopped, CtrlC
  <2> QED
    BY <1>1, <2>2, <2>3, <2>4, <2>5 DEF Next, TaskShell
<1>2. SInv /\ RInv /\ [Next]_vars =>
        [looping /\ ~reading /\ Stopped => ~looping' \/ (~reading' /\ Stopped')]_vars
  BY <1>1
<1> QED
  BY <1>2, InitSInv, NextSInv, InitRInv, NextRInv, PTL DEF Spec, CtrlCIsKept

\* The boot script as it is in the code, with a job in each line and no more than there are
\* slots ("lora &", "wifi &", "display &").
BootFits ==
  /\ Len(BootText) <= MaxJobs
  /\ \A n \in 1..Len(BootText) : BootText[n].word = "&" /\ BootText[n].arg # FREE

\* Until the boot script has been replayed its jobs so far are all there is.
BootInv ==
  /\ ~banner_shown =>
       /\ ~reading /\ ~running /\ ~looping /\ run_slot = 0 /\ run_pos = 0
       /\ \A s \in Scripts : scripts[s].name = "boot" => scripts[s].text = BootText
  /\ run_slot = 0 /\ (running \/ ~banner_shown) =>
       /\ ~reading /\ run_pos \in 0..Len(BootText)
       /\ running => /\ Len(run_buf) = Len(BootText)
                     /\ \A n \in (run_pos + 1)..Len(BootText) : run_buf[n] = BootText[n]
       /\ \A id \in JobIds : slots[id] = IF id <= run_pos THEN BootText[id].arg ELSE FREE

\* The line whose turn it is starts a job in the slot of its number.
LEMMA BootLine ==
  ASSUME BootFits, SInv, RInv, BootInv, run_slot = 0, RunLine
  PROVE  BootInv'
<1>1. banner_shown /\ running /\ ~reading /\ banner_shown' /\ ~reading' /\ run_slot' = 0
  BY DEF RunLine, Called
<1>2. ~looping
  BY DEF SInv, LoopHasScript, Scripts
<1>3. /\ run_pos \in Nat /\ run_pos < Len(BootText) /\ Len(run_buf) = Len(BootText)
      /\ run_buf[run_pos + 1] = BootText[run_pos + 1] /\ Len(BootText) \in Nat /\ run_pos + 1 \in 1..Len(BootText)
  BY <1>1, LinesAssumption DEF BootInv, RunLine
<1>4. /\ run_pos' = run_pos + 1 /\ running'
      /\ run_buf' = [run_buf EXCEPT ![run_pos + 1] = Cut(@)]
  BY <1>1, <1>2 DEF RunLine, Replayed, NextLine
<1>5. Len(run_buf') = Len(run_buf) /\ \A n \in (run_pos + 2)..Len(BootText) : run_buf'[n] = run_buf[n]
  BY <1>3, <1>4 DEF RInv, LinesOK
<1>6. JobStart(BootText[run_pos + 1].arg)
  <2>1. BootText[run_pos + 1].word = "&" /\ BootText[run_pos + 1].arg # NONE
    <3>1. BootText[run_pos + 1] \in ToSet(BootText)
      BY <1>3 DEF ToSet
    <3> QED
      BY <1>3, <3>1, LinesAssumption DEF BootFits
  <2> QED
    BY <1>3, <2>1 DEF RunLine, Command, Is
<1>7. \A id \in JobIds : slots'[id] = IF id <= run_pos + 1 THEN BootText[id].arg ELSE FREE
  <2>1. \A id \in JobIds : slots[id] = IF id <= run_pos THEN BootText[id].arg ELSE FREE
    BY <1>1 DEF BootInv
  <2>2. \A id \in JobIds : id <= run_pos => BootText[id].arg # FREE
    BY <1>3 DEF BootFits, JobIds
  <2>3. ASSUME NEW id \in JobIds PROVE FirstFree(id) <=> id = run_pos + 1
    <3>1. id \in Nat /\ \A lower \in 1..(id - 1) : lower \in JobIds
      BY MaxJobsAssumption DEF JobIds
    <3>2. run_pos + 1 \in JobIds
      BY <1>3, MaxJobsAssumption DEF BootFits, JobIds
    <3>3. CASE id <= run_pos
      BY <1>3, <2>1, <2>2, <3>1, <3>3 DEF FirstFree
    <3>4. CASE id = run_pos + 1
      BY <1>3, <2>1, <2>2, <3>1, <3>4 DEF FirstFree
    <3>5. CASE id > run_pos + 1
      <4>1. run_pos + 1 \in 1..(id - 1) /\ slots[run_pos + 1] = FREE
        BY <1>3, <2>1, <3>1, <3>2, <3>5
      <4> QED
        BY <1>3, <3>1, <3>5, <4>1 DEF FirstFree
    <3> QED
      BY <1>3, <3>1, <3>3, <3>4, <3>5
  <2>4. ASSUME NEW id \in JobIds PROVE slots'[id] = IF id <= run_pos + 1 THEN BootText[id].arg ELSE FREE
    <3>1. id \in Nat /\ slots'[id] = IF id = run_pos + 1 THEN BootText[run_pos + 1].arg ELSE slots[id]
      BY <1>6, <2>3 DEF JobStart, JobIds
    <3> QED
      BY <1>3, <2>1, <3>1
  <2> QED
    BY <2>4
<1>8. \A n \in (run_pos' + 1)..Len(BootText) : run_buf'[n] = BootText[n]
  <2>1. \A n \in (run_pos + 1)..Len(BootText) : run_buf[n] = BootText[n]
    BY <1>1 DEF BootInv
  <2>2. \A n \in (run_pos' + 1)..Len(BootText) : n \in (run_pos + 2)..Len(BootText) /\ n \in (run_pos + 1)..Len(BootText)
    BY <1>3, <1>4
  <2> QED
    BY <1>5, <2>1, <2>2
<1>9. run_pos' \in 0..Len(BootText)
  BY <1>3, <1>4
<1> QED
  BY <1>1, <1>3, <1>4, <1>5, <1>7, <1>8, <1>9 DEF BootInv

\* Before boot nothing runs and nothing is read.
LEMMA InitBoot == ASSUME BootFits PROVE Init => BootInv
<1> SUFFICES ASSUME Init PROVE BootInv
  OBVIOUS
<1>1. \A s \in Scripts : scripts[s].name = "boot" => scripts[s].text = BootText
  BY DEF Init, Unused
<1>2. \A id \in JobIds : id <= run_pos => FALSE
  BY DEF Init, JobIds
<1> QED
  BY <1>1, <1>2, LinesAssumption DEF Init, BootInv, JobsInit

\* While the boot script is replayed nothing else of the shell is reached.
LEMMA NextBoot == ASSUME BootFits PROVE SInv /\ RInv /\ BootInv /\ [Next]_vars => BootInv'
<1> SUFFICES ASSUME SInv, RInv, BootInv, [Next]_vars PROVE BootInv'
  OBVIOUS
<1>1. CASE Boot
  <2>1. PICK s \in Scripts : scripts[s].name = "boot" /\ run_buf' = scripts[s].text
    BY <1>1 DEF Boot, Named
  <2>2. run_buf' = BootText /\ run_pos = 0 /\ run_slot = 0 /\ ~reading
    BY <1>1, <2>1 DEF Boot, BootInv
  <2> QED
    BY <1>1, <2>2, LinesAssumption DEF Boot, BootInv
<1>2. CASE RunLine
  <2>1. CASE run_slot = 0
    BY <1>2, <2>1, BootLine
  <2>2. CASE run_slot # 0
    BY <1>2, <2>2 DEF RunLine, Called, BootInv
  <2> QED
    BY <2>1, <2>2
<1>3. CASE RunEnds
  BY <1>3 DEF RunEnds, Called, BootInv, SInv, LoopHasScript, Scripts
<1>4. CASE ReadKey
  <2>1. banner_shown /\ banner_shown' /\ ~(run_slot = 0 /\ running)
    BY <1>4 DEF ReadKey, BootInv
  <2>2. UNCHANGED runVars \/ \E l : StartScript(l)
    BY <1>4 DEF ReadKey
  <2>3. UNCHANGED <<running, run_slot>> \/ run_slot' \in Scripts
    BY <2>2 DEF StartScript, runVars
  <2> QED
    BY <2>1, <2>3 DEF BootInv, Scripts
<1>5. CASE WakeUp \/ Watch \/ EndInput
  BY <1>5 DEF WakeUp, Watch, EndInput, Called, runVars, BootInv
<1>6. CASE BeginInput
  BY <1>6 DEF BeginInput, AtPrompt, Called, runVars, BootInv
<1>7. CASE (\E k \in Typed \union {CtrlC} : Type(k)) \/ UNCHANGED vars
  BY <1>7 DEF Type, vars, runVars, captureVars, BootInv
<1> QED
  BY <1>1, <1>2, <1>3, <1>4, <1>5, <1>6, <1>7 DEF Next, TaskShell

\* The boot script is over only when all its jobs are there.
BootStarts ==
  [][run_slot = 0 /\ running /\ ~running'
       => \A n \in 1..Len(BootText) : slots'[n] = BootText[n].arg]_vars

\* For every boot script whose jobs fit the pool, and whatever is typed meanwhile: all its
\* jobs come up, none in the place of another, before anything else can take a slot or free
\* one (shell.cpp:42-49).
THEOREM BootStartsEveryJob == ASSUME BootFits PROVE Spec => []BootInv /\ BootStarts
<1>1. SInv /\ RInv /\ BootInv /\ [Next]_vars =>
        [run_slot = 0 /\ running /\ ~running'
           => \A n \in 1..Len(BootText) : slots'[n] = BootText[n].arg]_vars
  <2> SUFFICES ASSUME SInv, RInv, BootInv, Next, run_slot = 0, running, ~running'
               PROVE  \A n \in 1..Len(BootText) : slots'[n] = BootText[n].arg
    OBVIOUS
  <2>1. ~looping
    BY DEF SInv, LoopHasScript, Scripts
  <2>2. RunEnds
    BY <2>1 DEF Next, TaskShell, Boot, WakeUp, RunLine, Replayed, Watch, BeginInput, ReadKey, EndInput,
                Type, runVars, StartScript
  <2>3. slots' = slots /\ run_pos = Len(BootText)
    BY <2>2 DEF RunEnds, BootInv
  <2>4. \A n \in 1..Len(BootText) : n \in JobIds /\ n <= run_pos
    BY <2>3, LinesAssumption, MaxJobsAssumption DEF BootFits, JobIds
  <2> QED
    BY <2>3, <2>4 DEF BootInv
<1> QED
  BY <1>1, InitSInv, NextSInv, InitRInv, NextRInv, InitBoot, NextBoot, PTL DEF Spec, BootStarts
=============================================================================
