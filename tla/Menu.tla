--------------------------------- MODULE Menu ---------------------------------
(***************************************************************************)
(* display.cpp: the menu on the OLED, its list, detail and edit screens,   *)
(* driven by the five buttons, and the banner.                             *)
(*                                                                         *)
(* A run of task_display() is one step, except for ENTER on an edit        *)
(* screen, where it waits for config_write().  An edit screen is known by  *)
(* its field.  What the panel shows is the list and its cursor, or the     *)
(* edited line and its caret; the values on the detail screens and the     *)
(* banner, which no code depends on, are left out.                         *)
(***************************************************************************)
EXTENDS Eeprom

CONSTANTS
  EditMax,   \* EDIT_STR_MAX
  FarmLen,   \* size of redraw_banner()'s buffer for the farm name
  Underscore,  \* '_', a character like others
  Edited     \* bound: the fields the user edits

Space == 1

\* What the editor holds fits a slot.
ASSUME EditAssumption ==
  /\ EditMax \in 1..(SlotSize - 1) /\ FarmLen \in Nat \ {0} /\ Edited \subseteq Fields
  /\ Underscore \in Printable \ {Space}

Buttons == {"up", "down", "left", "right", "enter"}
Positions == 0..(EditMax - 1)

Items ==
  [MAIN        |-> <<"ROOM", "LORA_LIST", "WIFI", "CONFIG_LIST">>,
   LORA_LIST   |-> <<"LORA_STATUS", "LORA_PROBE1", "LORA_PROBE2", "LORA_PROBE3">>,
   CONFIG_LIST |-> <<"wifi_ssid", "url", "farm", "API_LIST">>,
   API_LIST    |-> <<"api0", "api1", "api2", "api3">>]
Lists == DOMAIN Items
LoraDetails == Items.LORA_LIST
IsLoraDetail(s) == \E n \in 1..4 : LoraDetails[n] = s
Details == {"ROOM", "WIFI"} \union {LoraDetails[n] : n \in 1..4}
Screens == Lists \union Details \union Fields

\* Mutant: the dead end of before.
Back_NotFromApis ==
  [LORA_LIST   |-> [screen |-> "MAIN", cursor |-> 1],
   CONFIG_LIST |-> [screen |-> "MAIN", cursor |-> 3]]

\* Where LEFT leads from a list.
Back ==
  [LORA_LIST   |-> [screen |-> "MAIN", cursor |-> 1],
   CONFIG_LIST |-> [screen |-> "MAIN", cursor |-> 3],
   API_LIST    |-> [screen |-> "CONFIG_LIST", cursor |-> 3]]

\* EDIT_FIELDS: where ENTER leads from an edit screen.
After ==
  [wifi_ssid |-> "wifi_pass",
   wifi_pass |-> "CONFIG_LIST", url |-> "CONFIG_LIST", farm |-> "CONFIG_LIST",
   api0 |-> "API_LIST", api1 |-> "API_LIST", api2 |-> "API_LIST", api3 |-> "API_LIST"]

VARIABLES
  ready, mode,
  screen, cursor,
  edit_buf, edit_cursor,
  needs_refresh,
  panel,     \* what the OLED shows
  overrun    \* read_field() has written past the end of its buffer

editVars == <<edit_buf, edit_cursor>>
menuVars == <<ready, mode, screen, cursor, editVars, needs_refresh, panel, overrun>>

-----------------------------------------------------------------------------
(* Drawing.                                                                *)

Blank == [shows |-> "nothing"]
Banner == [shows |-> "BANNER"]

\* draw_edit_screen(): the first NUL is drawn as '_', the others as spaces.
Line(buf) ==
  [n \in Positions |->
     IF buf[n] # NUL THEN buf[n]
     ELSE IF \A m \in 0..(n - 1) : buf[m] # NUL THEN Underscore ELSE Space]

\* redraw_menu().
View(s, c, buf, at) ==
  IF s \in Lists THEN [shows |-> s, selected |-> c]
  ELSE IF s \in Fields THEN [shows |-> s, line |-> Line(buf), caret |-> at, hint |-> buf[at] = Space]
  ELSE [shows |-> s]

Draw == panel' = View(screen', cursor', edit_buf', edit_cursor') /\ needs_refresh' = FALSE

\* read_field() into a buffer of that size: config_read() returns the length of the text
\* with its newline, also when the text has been cut short to fit.
Overruns(text, size) == Len(text) + 1 > size - 1

\* What read_field() leaves of it in edit_buf.
Loaded(text) ==
  [n \in Positions |-> IF n < Len(text) /\ n < EditMax - 1 THEN text[n + 1] ELSE NUL]

RedrawBanner ==
  /\ panel' = Banner
  /\ overrun' = Overruns(Text(Slot("farm")), FarmLen)
  /\ UNCHANGED <<ready, mode, screen, cursor, editVars, needs_refresh>>

-----------------------------------------------------------------------------
(* Moving between screens.  Where a branch of the code sets needs_refresh, *)
(* the menu is drawn at the end of the same run of the task.               *)

Cleared == edit_buf' = [n \in Positions |-> NUL] /\ edit_cursor' = 0

\* enter_edit().
EnterEdit(field) ==
  /\ screen' = field
  /\ edit_cursor' = 0
  /\ edit_buf' = Loaded(Text(Slot(field)))
  /\ overrun' = Overruns(Text(Slot(field)), EditMax + 1)

\* What the edit buffer holds on another screen is never read, and is empty here.
Open(s) ==
  /\ s \in Fields => s \in Edited
  /\ \/ s \in Fields /\ EnterEdit(s)
     \/ s \notin Fields /\ screen' = s /\ Cleared /\ UNCHANGED overrun

Moved == [up |-> 3, down |-> 1]  \* modulo 4: (cursor + 3) % 4 is the item above

ListInput(key) ==
  /\ screen \in Lists
  /\ \/ key = "enter" /\ Open(Items[screen][cursor + 1]) /\ UNCHANGED cursor /\ Draw
     \/ /\ key = "left" /\ screen \in DOMAIN Back
        /\ screen' = Back[screen].screen /\ cursor' = Back[screen].cursor
        /\ UNCHANGED <<editVars, overrun>> /\ Draw
     \/ /\ key \in DOMAIN Moved
        /\ cursor' = (cursor + Moved[key]) % 4
        /\ UNCHANGED <<screen, editVars, overrun>> /\ Draw

\* lora_detail_cycle().
NextDetail(key) == LoraDetails[1 + (((CHOOSE n \in 1..4 : LoraDetails[n] = screen) - 1 + Moved[key]) % 4)]

\* Mutant: ENTER leaves the cursor where it is.
DetailInput_KeepsCursor(key) ==
  /\ screen \in Details
  /\ \/ key = "enter" /\ screen' = "MAIN" /\ UNCHANGED cursor
     \/ /\ IsLoraDetail(screen) /\ key \in DOMAIN Moved
        /\ screen' = NextDetail(key) /\ UNCHANGED cursor
  /\ UNCHANGED <<editVars, overrun>>
  /\ Draw

DetailInput(key) ==
  /\ screen \in Details
  /\ UNCHANGED <<editVars, overrun>>
  /\ \/ /\ key = "enter"
        /\ screen' = "MAIN" /\ cursor' = IF IsLoraDetail(screen) THEN 1 ELSE cursor
        /\ Draw
     \/ /\ IsLoraDetail(screen) /\ key \in DOMAIN Moved
        /\ screen' = NextDetail(key) /\ UNCHANGED cursor
        /\ Draw

\* edit_char(): one below space is NUL, one above '~' is space, and so is any change of NUL.
EditChar(c, dir) ==
  IF c \notin Printable \/ c + dir > LastChar THEN Space ELSE c + dir

Caret(key) == (edit_cursor + (IF key = "left" THEN EditMax - 1 ELSE 1)) % EditMax

\* Mutant: the branches for LEFT and RIGHT forget needs_refresh.
EditInput_ForgetsRefresh(key) ==
  /\ screen \in Fields
  /\ UNCHANGED <<screen, cursor, overrun>>
  /\ \/ key \in {"left", "right"} /\ edit_cursor' = Caret(key) /\ UNCHANGED <<edit_buf, panel, needs_refresh>>
     \/ /\ key \in {"up", "down"}
        /\ edit_buf' = [edit_buf EXCEPT ![edit_cursor] = EditChar(@, IF key = "up" THEN 1 ELSE -1)]
        /\ UNCHANGED edit_cursor /\ Draw

\* ENTER is EnterPressed, below.
EditInput(key) ==
  /\ screen \in Fields
  /\ UNCHANGED <<screen, cursor, overrun>>
  /\ \/ key \in {"left", "right"} /\ edit_cursor' = Caret(key) /\ UNCHANGED edit_buf /\ Draw
     \/ /\ key \in {"up", "down"}
        /\ edit_buf' = [edit_buf EXCEPT ![edit_cursor] = EditChar(@, IF key = "up" THEN 1 ELSE -1)]
        /\ UNCHANGED edit_cursor /\ Draw

\* edit_buf as a string: strlen() stops at the first NUL.
EditText ==
  LET cuts == {n \in Positions : edit_buf[n] = NUL}
      len  == IF cuts = {} THEN EditMax ELSE CHOOSE n \in cuts : \A m \in cuts : n <= m
  IN  [n \in 1..len |-> edit_buf[n - 1]]

\* Mutant: the whole buffer is written, not what comes before the cut.
EnterPressed_WholeBuffer ==
  /\ screen \in Fields
  /\ ConfigWrite(screen, [n \in 1..EditMax |-> edit_buf[n - 1]], "menu")
  /\ UNCHANGED menuVars

EnterPressed ==
  /\ screen \in Fields
  /\ ConfigWrite(screen, EditText, "menu")
  /\ UNCHANGED menuVars

\* The rest of the run, whatever fs_write() has returned.
EnterReturns ==
  /\ Open(After[screen])
  /\ UNCHANGED <<ready, mode, cursor>>
  /\ Draw
===============================================================================
