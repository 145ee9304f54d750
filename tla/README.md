# A verification project for picogateway

picogateway is the firmware of a Raspberry Pi Pico W that gathers what up to three LoRa probes and
its own room sensors measure and uploads it to ThingSpeak. This directory holds TLA+ models of that
firmware, TLC configurations that check them on small instances, and proofs of some of their
properties for every instance. Each definition that models code is listed with its source lines in
`PROJECT.json` ("map"). Line numbers below are those of `src/`.

Contents: [the system](#the-system), [modules and code](#modules-and-code), [runs](#runs),
[fairness](#fairness), [proofs](#proofs), [disagreements found](#disagreements-found),
[observations](#observations-not-made-into-runs), [what is not modelled](#what-is-not-modelled),
[plan](#plan).

To check a run: `tlc -workers 2 -config Klog.cfg Klog.tla` (the module of each run is in the table
below). To check proofs: `tlapm Wifi_proofs.tla`.

## The system

There is one core and no preemptive scheduler. `main()` (gateway.cpp) registers files, programs and
tasks, and then loops: `task_run()` goes through the table and calls each task that is due, then the
loop sleeps a millisecond. Two things do not take turns with the tasks: the callbacks of lwIP, which
`pico_cyw43_arch_lwip_threadsafe_background` runs in interrupt context, and the 5 ms timer that
debounces the buttons. Nothing but the EEPROM survives a power cycle.

| Component | State | Operations | Talks to |
|---|---|---|---|
| HTTP client, `thingspeak.cpp:60-317` | `client_state`, `pcb`, cached address, bytes acknowledged, `status` | `start_request()` in the task; callbacks for DNS, connect, sent, receive, poll and error | lwIP, both ways; klog; started by the scheduler |
| Upload scheduler, `thingspeak.cpp:319-385` | two timers, round-robin position | `task_thingspeak()` every second | client; reads /dev/wifi, /dev/config, /dev/lora, /dev/room |
| Wifi link, `wifi.cpp` | state, time of the latest attempt and since when it has been connecting | `wifi_try_connect()`, called by job `wifi` every 150 ms | cyw43 driver; /dev/config |
| LoRa radio, `lora.cpp`, `dev/lora.cpp` | `radio_ready`, time of the latest start, cache of each probe's reading with its age | `lora_try_start()` by job `lora`; `task_poll_lora()` every 50 ms | radio chip; /dev/lora files |
| Kernel log, `kernel/klog.cpp` | ring of 16 lines: head, tail, count, dropped | `klog()` from any task or callback; `klog_flush()` from task `console` | everybody |
| Task scheduler, `kernel/task.cpp` | table of tasks with period and next run | `task_register()`, `task_run()` | everybody |
| Background jobs, `jobs.cpp` | 20 slots, each with a pipeline and a task of its own | `job_start()`, `job_kill()`, the slot's task | shell; programs |
| Shell, `shell.cpp` | input line, script table, script being captured, script being replayed, watch, sleep | `task_shell()` every 30 ms | USB console, jobs, pipelines |
| Pipelines, `jobs.cpp`, `prog/*.cpp` | parsed stages and two buffers | parse, run | file table |
| Settings, `eeprom.cpp`, `dev/config.cpp` | 8 slots of 32 bytes on the chip | `config_read()`, `config_write()`: chunks, read-back, three attempts | menu, shell, wifi, uploads |
| OLED menu, `display.cpp` | mode, screen, cursor, edit buffer, `needs_refresh` | `display_try_start()` by job `display`; `task_display()` every 50 ms | buttons, files, panel |
| Buttons, `buttons.cpp`, `dev/buttons.cpp` | debounce counters and one flag a button | timer interrupt; read-and-clear | menu, jobs |
| Room sensors, `room.cpp`, `dev/room.cpp` | cached temperature, humidity, light | `task_poll_room()` every 10 s | uploads, menu |
| File and program tables, `kernel/fs.cpp`, `kernel/prog.cpp` | filled before the loop starts | register, find | everybody |

What is hard here, and what each part has to get right:

- *Callbacks between the lines.* A callback can end a request between any two calls of
  `start_request()`, and can log in the middle of a task's `klog()`. The client must have one
  connection, exactly one thing that will carry a request on, one outcome per request, and must
  report only what is true. The log must stay a queue of whole lines.
- *Things that never answer.* A lookup, a connect, an association, a radio that has been marked
  down: each has to end or be retried, but not faster than its limit, on a clock that wraps after
  49.7 days and uses 0 for "never".
- *One loop for all.* A task that overruns its period must not starve the ones behind it, and two
  kinds of upload share one client without a queue.
- *Contacts that bounce*, read by an interrupt that sets flags which tasks read and clear, the
  display and any number of jobs the same ones: one press must be one event, and must be seen.
- *Lines that fail half-way.* A pipeline is parsed, copied into a slot, and run later or at once,
  stage by stage: one that is refused or fails must leave the devices alone.
- *Power loss.* A setting is written in chunks; the chip can lose one, and the power can go after
  any of them.
- *Long sequences of legal input.* 18 menu screens with their own keys; a shell in which scripts,
  captures, loops, sleeps and jobs can be started in any order from a table and a pool that fill up,
  replaying text that the replay itself cuts to pieces.

The hazards at their lines, with the properties aimed at each, are in `PROJECT.json`.

## Modules and code

`Upload` and `LogQueue` say what a component promises; the other modules are translated from the
source. `MC...` modules give constants their values for TLC and `..._proofs` modules hold theorems.

**`Upload`, `ThingspeakClient`.** `Upload` is the client as thingspeak.h describes it: idle or
carrying out one request, which ends once, with `OK` or `ERROR`. `ThingspeakClient` has the statics
of thingspeak.cpp under their own names and lwIP's side of them: the pending lookups `dns`, the
state of each control block `pcbs`, which of them have callbacks (`armed`) and how much is not
acknowledged. `start_request()` is cut where an interrupt can come between a call into lwIP and the
look at its result (`task` says where the task is): `StartCached` or `StartLookup`, then
`AfterLookup`, `AfterConnect`. Each callback is an action, enabled while lwIP has it registered.
`begin_connect()` runs under the lwIP lock up to `tcp_connect()`, so it is one step. lwIP, external,
may answer a lookup at any time or inside the call, acknowledge any part, reset, and abort a
connection of its own accord (`ERR_ABRT`).

**`ThingspeakScheduler`.** One step is one run of `task_thingspeak()` with the second that has
passed before it; the timers are kept as the time left. It starts requests on an instance of
`Upload`. That the real client is `Upload` is what `ImplementsUpload` says, so the two modules
together cover the file. The wifi, the url, the keys and the probes that have been heard change
between runs in any way; a request is known by its channel.

**`Wifi`.** `wifi_try_connect()` is split in actions by the ways through it: no chip, still
associating, timed out, linked, linked and lost, backing off, no ssid, attempt. Times are `uint32`
in the code and modulo `ClockRange` in the model. The ghost variable `gap` is the time that has
really passed since the latest attempt, up to `RetryTime`. The cyw43 driver with the access point is
external: it can be good or bad, wedge, fail, or drop the link. `job` says whether a background job
runs bin/wifi; it can be started and killed at any time.

**`Lora`.** `lora_try_start()` with the same limit, `task_poll_lora()` with `handle_packet()`, and
the cache behind the files of `dev/lora.cpp`. The parser is modelled by what it decides: a packet is
implausible in length, names no known probe, lacks a field or has one that is no number, or is
complete.

**`LogQueue`, `Klog`.** `LogQueue` is klog.h's promise: a bounded queue that gives lines back whole,
in order and once, drops a line only when full, and reports how many it has dropped. `Klog` is
klog.cpp access by access: `pc` says where a task is in `klog()` or `klog_flush()`, `reg` what it
has loaded, `slot` the place it writes to. Two accesses make one step only where a callback between
them does what it does before both. A callback's `klog()` is one step (nothing preempts it), between
any two steps of the task. A line is written in two parts, its tag and its body. `Races` names the
points where a callback does harm, and the history variable `raced` says that one has come at such a
point.

**`TaskScheduler`.** An abstract specification in that a task's run is one step that takes any time;
`Gateway` says what the tasks do. `Run`, `Pass` and `Sleep` go through the table in order; a run
costs up to `MaxCost`. `left[t]` is the time until task t is due, negative when late; re-arming
follows task.cpp:49, which counts the period from the start of the run.

**`Buttons`.** buttons.cpp and dev/buttons.cpp. `RepeatingTimerCallback` is the whole interrupt, for
all buttons; a task reads a flag (`Look`) and clears it (`Clear`) in two steps, as the interrupt can
come between. `single` tells `one_read()`, which always clears, from `buttons_read()`, which clears
only what it has found. Finger and contacts (`held`, `bouncing`) are external: after each change
`gpio_get()` gives arbitrary readings for `Bounce[b]` periods.

**`Pipelines`.** `tokenize()` and `parse_pipeline()` as a fold over the words of a line: a bounded
number of words, stages and arguments, the redirections whose next word is a path whatever it is,
words that are cut to fit. A text that one program hands to the next is a sequence of words too.

**`Gateway`.** The composition: `main()`'s loop runs `TaskScheduler`'s steps, each followed by what
the task does, with the timer interrupt at any point. The tasks are those that meet in the buttons
and in the display's mode: the slots of `Jobs`, the shell, which runs, starts and kills pipelines,
and the display. `exec` is what is being run, and as long as it is not `Idle` the loop goes no
further; `scan` is a reading of buttons in progress. `PipelineStep` is one stage of
`pipeline_run_once()`: a device that is read, a program (`Cat`, `Echo`, `Ls`, `Display`), one that
is not found, and the write at the end. `Devices` and `Programs` stand for the tables of
kernel/fs.cpp and kernel/prog.cpp. The devices are those of the display and the buttons, and
/dev/config/*: a field gives back what a line or the menu has put into it, so it can carry a mode
from one line to another. `config` holds what each field reads as, up to its first word, which is
all that `mode_write()` looks at; a failed write leaves any of `ConfigTexts`. `mode_write()`
compares the first characters only (`strncmp`, dev/display.cpp:28-29), so that `menus` sets the
menu: `Beginning` gives the words that begin with each mode. The devices left out (room, radio,
link, uploads) are read-only, and what they say begins with a digit or a word of their own that is
no mode; that is the claim under which they do not matter to buttons and mode.

**`Jobs`, `Shell`.** `Jobs` is the pool. `Shell` is `task_shell()` in its own order: watch and sleep
are looked at first, then the script being replayed gives its next line, then the input loop reads
keys, one step each, as more may come in. A line is a command word and argument. What `dispatch()`
does to the replayed text (it cuts lines to their first word) is kept, since `loop` depends on
loading the text again.

**`Eeprom`, `Menu`, `Settings`.** `Eeprom` is the chip, byte by byte at its addresses (`Cells`), and
the write in progress: the slots are where `fields[]` and the `EEPROM_OFFS_` constants put them
(`Page`, `Offset`); a chunk reaches the bytes it is addressed to or is lost, the slot is read back
and compared, and written again up to `Retries` times. `Menu` is display.cpp: the lists, the detail
screens, the editor, which draws a '_' where the text is cut and lets the user type one, too, ENTER
that waits for `config_write()`, the refresh of the panel, decided branch by branch, and the two
modes. `Settings` composes them with the shell's `echo` to a field or to the display's mode, and
with a power cycle at any moment, which leaves the chip as it is and resets everything else. The
menu and the shell meet only between two runs, as the loop is cooperative. Here a set of pressed
buttons is an input of a run; how it comes about is `Gateway`'s `DisplayStep`.

Ghost variables (in no line of code) are `gap` and `silence` in `Wifi` and `Lora`, `saved` and
`overrun` in `Settings`, `attempted` and `age` in `ThingspeakScheduler`, `ran` in `TaskScheduler`,
`line`, `reported` and `raced` in `Klog`, `armed` in `Buttons`, and in `Gateway` the `line` that a
job keeps of what was typed.

## Runs

Distinct states and time are those of TLC with two workers.

| Run | Module | Bounds | States | Shows |
|---|---|---|---|---|
| ThingspeakClient | ThingspeakClient | 2 hosts, 2 control blocks, 2 bytes | 489, < 1 s | one connection (`OneConnection`), one continuation (`OneContinuation`), truth of "ok" (`OkMeansAcked`) and of the address (`AddressIsForHost`), harmlessness of an aborted block (`DanglingIsInert`), end of each request that lwIP does not abort (`Ends`), and `ImplementsUpload` |
| ThingspeakScheduler | ThingspeakScheduler | 3 probes, interval 6, offset 3, requests up to 2 periods | 186 368, 22 s | an upload that is due never finds its own predecessor in flight (`OwnUploadIsOver`); between two turns of a probe each other probe comes at most once (`NoOvertaking`), and the room and every probe get their turn (`RoomIsUploaded`, `EveryProbeIsUploaded`) |
| Wifi | Wifi | clock of 8, backoff and timeout 3, association 1 | 33 920, 4 s | attempts a backoff apart, a lost link noticed, recovery from any history, as long as a job runs |
| Lora | MCLora | 2 probes, 4 readings of which 2 incomplete, clock of 6, limit 3 | 135 000, 10 s | the same of the radio's restarts; a reading is of one packet; ages are exact |
| Klog | Klog | ring of 3, 2 messages, callbacks anywhere | 1 227 962, 90 s | until a callback logs at a point of `Races` the ring implements `LogQueue` (`KeepsPromiseUntilRaced`); wherever callbacks log, the count stays within bounds (`CountInBounds`) and every line that is queued is printed (`LinesArePrinted`) |
| Gateway | MCGateway | 1 slot, shell and display with periods 1, 0, 0, runs up to 1; 1 button, lockout 1, bouncing 2; 1 field, 19 lines of up to 8 words, 2 stages, 2 words a stage | 528 618, 145 s | lateness is bounded (`BoundedLateness`) and every task runs (`EveryTaskRuns`); one press is one event (`OnePressOneEvent`), the state follows the finger (`DebounceSettles`), a press is returned by a read unless it falls into the window of `one_read()` (`PressesAreReported`); the mode changes only as a button, a line, or a field that a line reads, asks (`ModeIsAsked`) |
| Shell | MCShell | 2 scripts, 2 jobs, 2 lines a script, 1 key waiting | 471 880, 50 s | replay is faithful, a loop has its script, names are unique, boot completes, scripts end, Ctrl-C stops a loop |
| Settings | MCSettings | slots of 2 chunks of 2 bytes, editor of 2, characters ' ' and '_', 2 attempts | 1 094 480, 115 s | the panel is current, a verified setting holds, ENTER saves what is shown up to a '_', every screen has a way back, cursors return to where they were |
| ThingspeakClient_abort | ThingspeakClient | as above | - | `AlwaysEnds` is violated |
| ThingspeakScheduler_offset | ThingspeakScheduler | 1 probe, interval 12, offset 6 | - | `OffsetKept` is violated |
| Klog_callbacks | Klog | as above | - | `WholeLines` is violated |
| Settings_overrun | MCSettings | as above, no shell | - | `NoOverrun` is violated |

Why the bounds are enough:

- *Client.* Two hosts are what a stale address needs; two control blocks are what a leak, or a late
  callback of an old connection, needs; two bytes give a partial acknowledgement. The theorems below
  hold for any number.
- *Upload scheduler.* Three probes as in the code. The interval is long enough for a request of the
  longest length to delay the other timer, and both orders of the two timers are reached.
- *Clocks.* The range is the least that lets the clock wrap between two attempts, between an attempt
  and its timeout, and to 0 itself.
- *Log.* Three lines distinguish head, tail and the line between; the ring wraps, fills, drops
  (`MaxDropped` bounds only the count) and drains, and callbacks can fill it between any two steps
  of a task.
- *Gateway.* The shell and the display overrun their periods whenever a run takes time, and the job
  comes late behind them. One button is enough: the interrupt and the tasks handle each on its own,
  one after the other, and the proofs are for any number. The lockout is 1 and the contacts bounce
  for 2 periods, the longest that `ButtonAssumption` allows. Two readers, display and job, compete
  for the flag. The 19 lines set the mode in the foreground and from a job, through one stage and
  two, with two redirections of one kind, with a `>` for a path, by way of a field (`echo bannerx >
  Farm`, `cat Farm > ModePath`, and with `<`), by words that only begin with a mode, and are refused
  or fail at each place the code has: a stage or an argument too many, no path, no program, no
  device, an empty stage, nothing at all, and a line whose tail `tokenize()` drops.
- *Shell.* The boot script's two jobs fill the pool, and `boot` with one user script fills the
  table, so every "no free slot" branch is taken. `InputMax` is one key waiting, but any number can
  follow: it makes the difference between a key that is there and one that comes later.
- *Settings.* Two chunks allow a torn slot; the shell's text is longer than the editor and has a
  second line behind it; ' ' and '_' are the characters that look like something else on the panel;
  the user edits two of the eight fields, one at the end of a chain of edit screens and one followed
  by another. All eight exist, with their screens, and can be opened.

Deadlock is not checked where the system really may stop: the client after an abort by lwIP, and
`Settings` after an overrun, when nothing can be said of what the program does.

Every property of a passing run has a mutant in `PROJECT.json`: a plausible bug in a mapped
definition under which TLC finds the property violated.

## Fairness

- `ThingspeakClient`: the task's two halves are weakly fair because the loop keeps running; the
  resolver answers each lookup, if only to give up (lwIP's DNS retries are finite); lwIP's slow
  timer calls the poll callback of each connection that has one. Nothing is assumed of the peer.
- `ThingspeakScheduler`: the task runs, and a request ends within `MaxUpload`, which is the client's
  `Ends`. It is therefore not claimed for a connection that lwIP has aborted.
- `Wifi` and `Lora`: the clock ticks; the job (in `Wifi`, as long as it is not killed) runs,
  strongly fair, because it runs every 150 ms and so sees each of the conditions that hold for
  seconds only until the clock has wrapped. In `Lora` the attempt and the backing off are named
  together, so nothing is assumed of which.
- `Klog`: a task finishes a call; `console` gets its turn (strongly, as it is not enabled inside
  another task's call).
- `Gateway`: the loop never ends and the timer interrupt comes every 5 ms, each weakly fair. Nothing
  is assumed of the finger, the contacts or the user. `DebounceSettles` has the finger come to rest
  as its hypothesis.
- `Shell`: `task_shell()` is called again and again, and its input loop finds the buffer empty at
  times, as it reads faster than anyone types.
- `Settings` has no fairness: its properties are of states and steps.

## Proofs

Eight modules hold theorems, all from the constants' named assumptions and checked to the last leaf.

**`ThingspeakClient_proofs`.** For any set of hosts, any pool of control blocks and any length of
request (`NullAssumption`, `RequestLenAssumption`), `IInv` is inductive (`Invariance`) and yields
`TypeCorrect`, `NoLeakedConnection`, `NoLostContinuation`, `OkIsTrue`, `AddressIsCurrent` and
`NoUseAfterFree`. The single properties are not inductive: that a callback finds the connection it
expects needs `Bookkeeping`, which says in which states of the task and of the client a control
block is new, connecting, open or free, and how many bytes are unacknowledged. `Refinement` proves
that each step of the client with its callbacks is a step of `Upload` or leaves it alone.
`AbortIsForever` proves the other side of the first finding: once lwIP has aborted a connection no
step of the program leaves that state.

**`Wifi_proofs`, `Lora_proofs`.** For every clock range and any backoff below it, `RetryLimit` and
`RestartLimit`: two attempts are a backoff apart unless the second comes as the clock wraps to 0.
The code compares a wrapping difference; the invariant is that it is the true difference for as long
as a backoff has not passed, and `TickGap` (`StaysExact` in `Lora_proofs`) proves that a tick keeps
it so. The same argument gives the ages of the probes: `SilenceIsExact` is inductive and
`AgeIsExact` follows. `WholeReadings`: a cached reading is of one packet, whatever arrives.

**`ThingspeakScheduler_proofs`.** For any number of probes, and any interval that is at least two
periods longer than a request (`TimingAssumption`; the interval is 60 s in the code, and the
resolver and the poll timer bound a request). The invariant is `TimersCountFromStart`: a timer is
re-armed as its own upload starts, and both count the same periods, so what is left of the timer is
at least the interval less the age of the request. By itself "an upload that is due does not find
its predecessor" (`OwnUploadIsOver`, proved as `NoQueue`) is not inductive, as it says nothing of a
request until its timer has run out. `RefinesUpload`: the task uses the client as `Upload` allows,
so the two proofs, this one and `Refinement`, meet at `Upload`. `RoundRobin`: `Distance` counts the
probes that are asked before a given one; an upload of another probe makes it less, and nothing else
changes it, so at most `ProbeCount - 1` uploads of others come before a probe's own. The `%` in it
is unfolded by cases (whether the position has wrapped), as the provers do no modular arithmetic by
a symbol.

**`Gateway_proofs`.** Five parts.

- *Scheduler.* For any table of periods and any bound on a run, `LatenessIsBounded`. The bound is
  not inductive: a task's lateness grows with each run of another task. The invariant
  (`LatenessByPosition`) bounds it by the number of tasks the loop has passed since it looked at
  this one, and four lemmas say how that number changes with a step.
- *Lines.* For every line and all limits, `ParsedLine`: a pipeline that `parse_pipeline()` accepts
  has the words that stand between the bars in its stages, whole and in order, no more of them than
  fit, and its output goes to the last path after a `>`. `Parse` and `WordsOf` are folds of the
  community modules, which choose a function that is equal to a recursive expression in itself; that
  there is one is proved first (`FoldExists`, by induction on the greatest position, in the form
  `Induction` gives it for a set of numbers, since the provers cannot use a theorem about a
  predicate). Then `ParsedWords` is an induction over the words: after n of them the redirection
  that waits is the one that the line's last word leaves open (`PendingStep`), the stages are those
  that the line has so far (`StagesStep`), and the output is the last path so far (`OutStep`).
- *Buttons.* For any number of buttons, any lockout and bouncing up to one period longer,
  `Debounced`: one press, one event. The invariant (`RestsBeforeUnlock`) speaks of the time between
  the registered press and the next: while debounced state and finger agree, the contacts come to
  rest before the lockout ends, and a finger that is still down keeps the state pressed. `TimerStep`
  reduces the interrupt to one button.
- *The gateway and its parts.* `RefinesScheduler` and `RefinesButtons`: every step of the
  composition is a step of `TaskScheduler` and one of `Buttons`, or leaves it alone. The second
  needs that what is scanned is a range of the buttons (`ScanType`). Hence `GatewayLateness` and
  `GatewayDebounced`: what is proved of the parts holds of the whole, for any number of slots, and
  any lines typed. `PressKept` needs both parts: a registered press stays in its flag until a read
  returns it, unless it came in the window of `one_read()`, since a clear that takes it away belongs
  to a look that has found it (`ClearReports`). That is the half of `PressesAreReported` that needs
  no fairness.
- *Mode.* `ModeAsked`: the display's mode changes only on a press, or by a line that says so,
  whatever lines are typed, however many jobs run. `ModeIsAsked` relates a write to a line that may
  have been typed long before, so the invariant (`ModeInv`) follows it through the slot and the run:
  a job's pipeline is what the parser makes of its line, the stages that have been run are ones that
  work, and a mode at the head of the text is the present one, read from the device, or has been
  echoed in an earlier stage and passed on by cats alone (`Echoed`). `ParsedLine` turns that into a
  statement about the words that were typed. A mode that comes from a field (`cat` or `<` of
  /dev/config/*) is one that the field says as the mode changes: while the line runs nothing else
  does, and a field is written only where a line ends. It assumes that no path of a device, and
  nothing that a device or program says of its own, begins with "menu" or "banner"
  (`ModesAssumption`), and that the reads of the chip succeed.

**`Klog_proofs`.** For a ring of any length, any messages and callbacks that log at any point of the
task, `PromiseKeptUntilRaced`: the ring implements `LogQueue` until one comes at a point of `Races`.
The invariant (`RingOK`), which holds as long as `raced` does not, places `head` as many places
after the first queued line as there are lines, one more while `klog()` has moved it but not yet
counted, and says what has been written to the slot so far and that the register is not stale. Two
indices less than a ring's length apart are different places (`PlacesDiffer`), so a line being
written harms none that is queued; `PendingGrows` and `PendingShrinks` read the two ends of the ring
as `Append` and `Tail`. What is in `Races` is what the proof needs to be there: a callback that
fills the last place is harmless only before the test or after the count. `CountStays` needs no such
condition: whatever the callbacks do, the count is never negative and at most one above the ring's
length, as a callback that comes after the task's test leaves room for no more; its invariant says
what the register may hold at each point.

**`Shell_proofs`.** For a table of any size, any boot script and whatever is typed: `ScriptTable`
(no two scripts of one name), `LoopReloads` (a loop has a script to load again) and
`ReplayIsFaithful` (the lines still to be replayed are whole, though those that were replayed have
been cut). The first two need what is true of unused slots and of the name that is being captured
(`TableOK`); the third, that every script and the text being captured consist of whole lines
(`LinesOK`), which has to survive the discarding of input at a Ctrl-C (`DiscardedType`, from the
least position of a Ctrl-C, which exists because < is well-founded). Two theorems are the halves of
liveness properties that need no fairness. `CtrlCWaits`: no step takes the Ctrl-C that a loop has to
see out of the input, unless it stops the loop. `BootStartsEveryJob`: for every boot script that is
nothing but jobs and fits the pool (`BootFits`, true of the one in the code), its n-th line starts a
job in the n-th slot, and when it is over all of them are there; the invariant (`BootInv`) is that
until then nothing typed is looked at and the slots hold the lines replayed so far and nothing else.

**`Settings_proofs`.** For every size of slot, chunk and editor and whatever is typed,
`VerifiedSettingsHold`: a field reads as what its latest verified write set, through lost chunks,
failed attempts and power cycles. The invariant adds that nothing is claimed of a field while it is
being written, so that the chunks that reach it, in any number, do no harm; that they reach no other
is `SlotsApart`, for the addresses of the eight slots: "slots never overlap" (eeprom.h:22-26). It
assumes of the chip that it reads back what it holds. `PanelIsCurrent`: in the menu the panel shows
what is there or is due to be drawn. That needs two more facts: a panel that is not up is due
(`DrawnInv`), and while the menu's own write goes on its screen stays up, and what is being written
is the text that was edited (`SavesItsField`). `EnterSavesShown`: what ENTER has verified is what
the editor showed, up to a '_' or to the end of the line. The editor draws its buffer with a '_' at
the terminator, and the chip is read back up to it; that the two agree rests on the terminator being
inside the slot (`EditMax < SlotSize`, in `EditAssumption`) and on what is before it being printable
(`LineShows`, `TextComesBack`). `TypeCorrect`: the types of menu and chip, among them that the list
cursor stays within four lines and the edit cursor in the buffer. `AlwaysAWayBack`: on every screen
but the main menu LEFT in a list, or ENTER elsewhere, means something, and leads nearer to the main
menu, on an edit screen once the text is saved, through the chain of edit screens as well. That is
`LeadsHome`, the half of `NoDeadEnd` without ENABLED. `BackOnTheItem`: whoever goes back to a list
finds the cursor on the item that led away. It needs that no screen in between, an edit screen with
its caret or a chain of them, moves the list's cursor (`CursorOnItem`), which rests on a lemma that
sorts the steps of the menu into a few ways from screen to screen (`NextOnItem`).

Model-checked only: everything under fairness (`Ends`, `Recovers`, `LossIsNoticed`, `Restarts`,
`LinesArePrinted`, `EveryTaskRuns`, `DebounceSettles`, `PressesAreReported`, `RoomIsUploaded`,
`EveryProbeIsUploaded`, `BootCompletes`, `ScriptsEnd`, `CtrlCStopsLoop`) and the half of `NoDeadEnd`
that is about ENABLED, which are out of the prover's reach. Every other property of a passing run is
stated by a theorem.

## Disagreements found

1. `ThingspeakClient_abort`: `tcp_err_cb()` ignores every `ERR_ABRT` as caused by the client itself
   (thingspeak.cpp:188), but the client's own aborts never get there. When lwIP aborts a connection,
   the request never ends and no other starts; thingspeak.h:37-39 promises that a stuck upload is
   failed "either way".
2. `ThingspeakScheduler_offset`: thingspeak.h:25-26 promises LoRa uploads 30 s off the room's. Each
   timer is re-armed from its own upload, so after an outage that spans both the two stay together.
3. `Klog_callbacks`: klog.h:8-14 promises whole lines without a lock, as only tasks log. The lwIP
   callbacks log too. `Races` in `Klog` says where that does harm, and `KeepsPromiseUntilRaced` that
   it does none elsewhere: in `klog()` from the moment the slot is taken until `head` is stored and
   between the halves of `count++`; between the halves of `dropped++` and of `count--`; around
   these, if the callback takes the last free place; and before `dropped = 0`, if the ring is full.
   Outside these two functions it is harmless.
4. `Settings_overrun`: `read_field()` (display.cpp:227-231) takes the result of `fs_read()` for the
   bytes in its buffer; `config_read()` returns the length of the whole text. A text that fills the
   menu's editor, saved and opened again, has its terminator written past the end.

## Observations not made into runs

Things the models keep as the code has them, and a reader may want to know:

- Uploads: `read_field()` of thingspeak.cpp is the one of finding 4 over again: an API key of 23 or
  more characters fits its slot of the EEPROM but not `api[24]`.
- Client: `dns_gethostbyname()` and `tcp_new_ip_type()` are called outside the lwIP lock; a callback
  in which `close_pcb()` has to abort returns `ERR_OK` where lwIP asks for `ERR_ABRT`.
- Wifi: wifi.h:18-20 says the backoff is waited out in "down", but an attempt that times out is
  retried at once, from "connecting", because timeout and backoff are both 30 s. A link that is lost
  while the driver still reports joining goes to "connecting", not "down" (wifi.h:25-27), with an
  old `connecting_since_ms`. A killed job leaves the last state in /dev/wifi/status for ever. Both
  limits take a last attempt at clock value 0 for none; that is the exception in `AttemptsSpaced`.
- LoRa: only an implausible length marks the radio down, not a wrong format. After 49.7 silent days
  a probe's age starts from 0 again; `AgeIsExact` says for how long it can be trusted.
- Shell: of `run x` followed by `script y` in one burst of input, the second is taken while the
  script runs (the comment at shell.cpp:188-189 says it cannot be). Lines pasted after `sleep` are
  executed at once. A Ctrl-C read by the same call as the `loop` line is dropped, hence `~reading`
  in `CtrlCStopsLoop`; during a loop's sleep it takes effect at waking. A refused `watch` leaves the
  pipeline of the running one half parsed.
- Menu: a press within 50 ms of the press that wakes the menu acts on a screen not yet drawn; of
  several buttons in one run one counts; there is no way to leave an edit screen without saving; a
  write that fails is not shown. The first NUL is drawn as '_' so that a user sees where the text
  ends (display.cpp:54-58), but '_' can be typed, too: `a_` with a typed '_' behind the `a` and the
  text `a` look the same, so the panel does not tell them apart. `SavedIsShown` therefore says "up
  to a '_'", not "up to the first". A farm name of 19 characters overruns the banner's buffer as in
  finding 4.
- Settings: a failed write or a power loss leaves a torn slot. `SavedStays` claims nothing of a
  field between the start of a write and its verification. Nor does the code look at the result of a
  read (eeprom.cpp:50-51): one that fails leaves what was on the stack; the models take reads never
  to fail.
- Buttons: buttons.h:33-36 claims klog.h's "single-core-cooperative safety argument" for flags that
  an interrupt writes. It holds of `/dev/buttons`, which clears what it has found set (a flag that
  is set again meanwhile is the same event), but not of its siblings: `one_read()` loses a press
  between its two accesses. `PressesAreReported` names that window and is false without it. Contacts
  that bounce for two periods longer than the lockout can give two events for one press.
- Pipelines: a line of more than 20 words loses its tail without a word (`tokenize()`), so that `...
  > path` at its end is not seen; words of 24 or more characters are cut, and a cut path names no
  device. `echo menus` or `echo bannerx` to /dev/display/mode is taken for the mode it begins with.
- Loop: an EEPROM write holds the loop for 160 ms or more, longer than the period of most tasks; it
  is a run cost in `TaskScheduler`.

## What is not modelled

- *Room sensors*: one task copies a reading into a cache between two runs of other tasks.
- *What a watch's pipeline does*: `Shell` has the watch as a mode of the shell, and `Gateway` has
  pipelines without it; so the half parsed pipeline of a refused `watch` is only an observation.
- *Sizes of buffers* but for the menu's editor: outputs are cut to `STAGE_BUF`, and readers take the
  length of an untruncated text for that of their buffer (finding 4).
- *Filling the tables* of files and programs: they are constant after boot.
- *Characters*: formatting, the line editor of the console, the text of requests and responses.
- *OLED driver, font, build options, demo programs*: third-party or configuration, or other
  `main()`s. The one build option that matters is modelled: callbacks come in interrupt context.
- `task_postpone()`, `any_button_pressed()`, `reset_all_buttons()` and `lora_init()` have no caller
  in the gateway. The retry limit of `display_try_start()` is the one of `lora_try_start()`.

## Plan

In order of importance.

1. `Upload`, `ThingspeakClient`, `ThingspeakScheduler`: what the gateway is for. *Done; both
   refinements, the queue and the turns proved.*
2. `Wifi`, `Lora`: recovery of the links. *Done; the limits, the ages and the cache proved.*
3. `LogQueue`, `Klog`, `TaskScheduler`: what everything else runs on. *Done; the refinement of
   `LogQueue` and lateness proved.*
4. `Jobs`, `Shell`. *Done; the table and the replay proved.*
5. `Eeprom`, `Menu`, `Settings`. *Done; durability, the panel, what ENTER saves and the ways through
   the menu proved.*
6. `Buttons`: the debounce in the timer interrupt and the task's read and clear. *Done; one press,
   one event proved.*
7. `Pipelines`: parsing, and the stages' data flow. *Done but for the watch, which would share its
   parse buffer with nothing else; what a line parses to proved.*
8. `Gateway`: scheduler, interrupt, jobs, shell, display and devices together. *Done for what meets
   in the buttons and the mode; refinement and the mode proved. The uploads, whose files are read
   between two runs, stay in `ThingspeakScheduler`, which takes what they say as input.*
9. `Readers`: every reader of a file with the size of its buffer against what the file can return,
   for which `read_field()` in display.cpp, thingspeak.cpp and prog/wifi.cpp would be instantiated.
   *Not done: the models have no characters, and finding 4 shows the case.*

Theorems worth adding: that each step of a replay brings its end nearer, and in `Wifi` and `Lora`
what a link that is down is waiting for, the safe halves of `ScriptsEnd`, `Recovers` and `Restarts`.
