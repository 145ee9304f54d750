------------------------------- MODULE Settings -------------------------------
(***************************************************************************)
(* How settings are changed: task_display() with its menu, the shell's     *)
(* `echo ... > /dev/config/...' and `echo ... > /dev/display/mode', and    *)
(* the EEPROM behind them, which is all that survives a loss of power.     *)
(* The tasks take turns, so the menu and the shell meet only in the chip   *)
(* and in the display's mode, between two runs.                            *)
(*                                                                         *)
(* Once read_field() has written past the end of its buffer nothing can be *)
(* said of what the program does, and the model stops.                     *)
(***************************************************************************)
EXTENDS Menu

CONSTANT Echoed  \* bound: what the user writes from the shell, and to which field

ASSUME EchoedAssumption == \A e \in Echoed : e.field \in Fields

vars == <<eepromVars, menuVars>>

EepromTypeOK ==
  /\ chip \in [Cells -> {NUL} \union Printable \union {NotPrintable}]
  /\ writing = NONE \/ writing \in Writes

MenuTypeOK ==
  /\ ready \in BOOLEAN /\ mode \in {"BANNER", "MENU"}
  /\ screen \in Screens /\ cursor \in 0..3
  /\ edit_buf \in [Positions -> {NUL} \union Printable] /\ edit_cursor \in Positions
  /\ needs_refresh \in BOOLEAN /\ overrun \in BOOLEAN

TypeOK == EepromTypeOK /\ MenuTypeOK

\* A blank chip, and the statics after a power-up.
Init ==
  /\ chip = [cell \in Cells |-> NotPrintable]
  /\ writing = NONE
  /\ saved = [f \in Fields |-> NONE]
  /\ ready = FALSE /\ mode = "BANNER"
  /\ screen = "MAIN" /\ cursor = 0
  /\ edit_buf = [n \in Positions |-> NUL] /\ edit_cursor = 0
  /\ needs_refresh = TRUE
  /\ panel = Blank /\ overrun = FALSE

Idle == writing = NONE

\* bin/display: an attempt that succeeds clears the panel; others change nothing here.
DisplayTryStart ==
  /\ Idle /\ ~ready
  /\ ready' = TRUE
  /\ panel' = Blank
  /\ UNCHANGED <<eepromVars, mode, screen, cursor, editVars, needs_refresh, overrun>>

-----------------------------------------------------------------------------
(* task_display().                                                         *)

\* The button that counts, of those pressed since the run before: the others are forgotten.
Precedence == <<"enter", "left", "right", "up", "down">>
Means(s, key) ==
  CASE s \in Fields -> TRUE
    [] s \in Lists -> key # "right" /\ (key = "left" => s \in DOMAIN Back)
    [] IsLoraDetail(s) -> key \in {"enter", "up", "down"}
    [] s \in {"ROOM", "WIFI"} -> key = "enter"

\* display_set_mode().
SetMode(m) == mode' = m /\ needs_refresh' = TRUE

\* Any button wakes the menu, and is used up by it.
WakeMenu ==
  /\ ready /\ Idle /\ mode = "BANNER"
  /\ SetMode("MENU")
  /\ UNCHANGED <<eepromVars, ready, screen, cursor, editVars, panel, overrun>>

ShowBanner ==
  /\ ready /\ Idle /\ mode = "BANNER"
  /\ RedrawBanner
  /\ UNCHANGED eepromVars

MenuInput(pressed) ==
  /\ ready /\ Idle /\ mode = "MENU"
  /\ \E n \in 1..5 :
       /\ Precedence[n] \in pressed /\ Means(screen, Precedence[n])
       /\ \A m \in 1..(n - 1) : ~(Precedence[m] \in pressed /\ Means(screen, Precedence[m]))
       /\ \/ /\ ListInput(Precedence[n]) \/ DetailInput(Precedence[n]) \/ EditInput(Precedence[n])
             /\ UNCHANGED <<eepromVars, ready, mode>>
          \/ Precedence[n] = "enter" /\ EnterPressed

\* No button that means anything here, but a redraw is due: after a change of mode, and
\* from time to time on a detail screen.
RedrawMenu ==
  /\ ready /\ Idle /\ mode = "MENU"
  /\ needs_refresh \/ screen \in Details
  /\ UNCHANGED <<eepromVars, ready, mode, screen, cursor, editVars, overrun>>
  /\ Draw

ConfigWritten ==
  /\ WriteReturns
  /\ \/ writing.by = "menu" /\ EnterReturns
     \/ writing.by = "shell" /\ UNCHANGED menuVars

-----------------------------------------------------------------------------
(* The shell, and the power.                                               *)

EchoToConfig(f, text) ==
  /\ Idle
  /\ ConfigWrite(f, text, "shell")
  /\ UNCHANGED menuVars

EchoToMode(m) ==
  /\ Idle
  /\ SetMode(m)
  /\ UNCHANGED <<eepromVars, ready, screen, cursor, editVars, panel, overrun>>

PowerCycle ==
  /\ PowerLoss
  /\ ready' = FALSE /\ mode' = "BANNER"
  /\ screen' = "MAIN" /\ cursor' = 0
  /\ Cleared
  /\ needs_refresh' = TRUE
  /\ panel' = Blank /\ overrun' = FALSE

Next ==
  /\ ~overrun
  /\ \/ DisplayTryStart
     \/ WakeMenu
     \/ ShowBanner
     \/ \E pressed \in SUBSET Buttons : MenuInput(pressed)
     \/ RedrawMenu
     \/ (WriteChunk \/ WriteAgain) /\ UNCHANGED menuVars
     \/ ConfigWritten
     \/ \E e \in Echoed : EchoToConfig(e.field, e.text)
     \/ \E m \in {"BANNER", "MENU"} : EchoToMode(m)
     \/ PowerCycle

Spec == Init /\ [][Next]_vars

-----------------------------------------------------------------------------
(* Properties.                                                             *)

\* In the menu the panel shows the screen, the cursor and the text as they are, whichever
\* of the many ways led there: no branch of handle_menu_input() forgets needs_refresh
\* (display.cpp:438-515), and a change of mode by the shell does not leave another picture.
ShownIsCurrent ==
  ready /\ mode = "MENU" /\ ~needs_refresh => panel = View(screen, cursor, edit_buf, edit_cursor)

\* What ENTER saves is what the user sees: the field that is named on the panel gets the
\* characters on the panel up to one that is shown as '_', or all of them, and nothing of
\* what is drawn, or was once typed, behind it ("only up to the cut point", display.cpp:445,
\* and 43-53).  Which '_' it is the panel does not tell, as the user can type one, too.  A
\* save that the shell or a loss of power comes before starts from a panel that shows no
\* edit screen.
ShownUpTo(text) ==
  /\ Len(text) <= EditMax
  /\ \A n \in 1..Len(text) : panel.line[n - 1] = text[n]
  /\ Len(text) < EditMax => panel.line[Len(text)] = Underscore
SavedIsShown ==
  [][WriteReturns /\ Verified /\ writing.by = "menu" /\ panel.shows \in Fields
       => writing.field = panel.shows /\ ShownUpTo(Text(Slot(panel.shows)))]_vars

\* A write that has been verified holds: whatever is written to other fields, fails or is
\* torn by a loss of power, a field reads as what it was set to until it is set again
\* ("slots never overlap", eeprom.h:22-26).
SavedStays == \A f \in Fields : saved[f] # NONE => Text(Slot(f)) = saved[f]

\* How far a screen is from the main menu.
Depth ==
  [s \in Screens |->
     CASE s = "MAIN" -> 0
       [] s \in {"ROOM", "WIFI", "LORA_LIST", "CONFIG_LIST"} \/ IsLoraDetail(s) -> 1
       [] s \in {"API_LIST", "wifi_pass", "url", "farm"} -> 2
       [] s \in {"wifi_ssid", "api0", "api1", "api2", "api3"} -> 3]

\* The key that leads home, and a step of the menu by it: on an edit screen it saves first.
HomeKey == IF screen \in Lists THEN "left" ELSE "enter"
HomeStep == MenuInput({HomeKey}) \/ (ConfigWritten /\ writing.by = "menu")
Nearer == Depth[screen'] < Depth[screen]
SaveBegins == writing = NONE /\ writing' # NONE

\* On every screen but the main menu that key means something, and it leads nearer to the
\* main menu, or saves what is edited and then does.
LeadsHome ==
  /\ [](screen # "MAIN" => Means(screen, HomeKey))
  /\ [][HomeStep => Nearer \/ (SaveBegins /\ UNCHANGED screen)]_vars

\* "Before this, Config and Set APIs were both dead ends" (display.cpp:62-66): now there is a
\* way back from every screen the user can be on, whenever the menu is open.
NoDeadEnd ==
  /\ LeadsHome
  /\ [](ready /\ Idle /\ mode = "MENU" /\ screen # "MAIN" => ENABLED MenuInput({HomeKey}))

\* Whoever leaves a screen for a list finds the cursor on the item that leads back to it:
\* the item itself, or the list or chain of edit screens it is part of.
LeadsTo(item, s) ==
  \/ item = s
  \/ item \in Lists /\ \E n \in 1..4 : Items[item][n] = s
  \/ item \in Fields /\ After[item] = s
CursorRemembers ==
  [][screen' \in Lists /\ Depth[screen'] < Depth[screen] /\ writing' = NONE /\ ready'
       => LeadsTo(Items[screen'][cursor' + 1], screen)]_vars

\* A read returns "bytes written to buf" (kernel/fs.h:36), so a text that the menu itself can
\* save fits the buffers that the menu reads it into.
NoOverrun == ~overrun
===============================================================================
