--------------------------- MODULE Settings_proofs ---------------------------
(***************************************************************************)
(* For every size of slot, chunk and editor, and whatever the user edits   *)
(* or echoes: a setting that has been verified holds; the types of menu    *)
(* and chip; what the panel shows in the menu is current; what ENTER has   *)
(* saved is what the editor showed, up to a '_'; and every screen has a    *)
(* way back, to the item it was opened from.                               *)
(***************************************************************************)
EXTENDS Settings, FiniteSetTheorems, WellFoundedInduction, TLAPS

\* The inductive invariant behind SavedStays: while a field is written nothing is known of
\* it, so that the chunks that reach its slot, in any number, do no harm.
WriteIsKnown ==
  writing # NONE =>
    /\ writing = [field |-> writing.field, slot |-> writing.slot, attempt |-> writing.attempt,
                  chunk |-> writing.chunk, by |-> writing.by]
    /\ writing.field \in Fields
    /\ saved[writing.field] = NONE

IInv == DOMAIN saved = Fields /\ WriteIsKnown /\ SavedStays

\* "slots never overlap" (eeprom.h:22-26): each slot is on the chip, and no two share a byte.
LEMMA SlotsApart ==
  ASSUME NEW f \in Fields, NEW g \in Fields, NEW b \in Bytes, NEW c \in Bytes
  PROVE  /\ <<Page(f), Offset[f] + b>> \in Cells /\ Offset[f] \in Nat
         /\ f # g /\ Page(f) = Page(g) => Offset[f] + b # Offset[g] + c
<1>1. /\ SlotSize \in Nat /\ b \in 0..(SlotSize - 1) /\ c \in 0..(SlotSize - 1)
  BY SlotAssumption DEF Bytes
<1>2. \A h \in Fields :
        \/ h = "wifi_ssid" /\ Page(h) = 0 /\ Offset[h] = SlotSize
        \/ h = "wifi_pass" /\ Page(h) = 0 /\ Offset[h] = 2 * SlotSize
        \/ h = "url"       /\ Page(h) = 0 /\ Offset[h] = 3 * SlotSize
        \/ h = "farm"      /\ Page(h) = 0 /\ Offset[h] = 4 * SlotSize
        \/ h = "api0"      /\ Page(h) = 1 /\ Offset[h] = 0
        \/ h = "api1"      /\ Page(h) = 1 /\ Offset[h] = SlotSize
        \/ h = "api2"      /\ Page(h) = 1 /\ Offset[h] = 2 * SlotSize
        \/ h = "api3"      /\ Page(h) = 1 /\ Offset[h] = 3 * SlotSize
  BY DEF Fields, Page, Offset
<1>3. Page(f) \in {0, 1} /\ Offset[f] \in Nat /\ Offset[f] + b \in 0..(5 * SlotSize - 1)
  BY <1>1, <1>2
<1>4. f # g /\ Page(f) = Page(g) => Offset[f] + b # Offset[g] + c
  BY <1>1, <1>2
<1>5. QED
  BY <1>3, <1>4 DEF Cells

LEMMA InitIInv == Init => IInv
  BY DEF Init, IInv, WriteIsKnown, SavedStays

LEMMA SlotUnchanged == ASSUME NEW f, UNCHANGED chip PROVE Slot(f)' = Slot(f)
  BY DEF Slot

\* A config_write() begins: the field it is for is no longer known.
LEMMA ConfigWriteIInv ==
  ASSUME IInv, NEW field \in Fields, NEW text, NEW by, ConfigWrite(field, text, by)
  PROVE  IInv'
<1>1. DOMAIN saved' = Fields
  BY DEF ConfigWrite, IInv
<1>2. WriteIsKnown'
  BY DEF ConfigWrite, IInv, WriteIsKnown
<1>3. SavedStays'
  BY SlotUnchanged DEF ConfigWrite, IInv, SavedStays
<1>4. QED
  BY <1>1, <1>2, <1>3 DEF IInv

\* A chunk reaches the slot of the field being written and no other, or is lost.
LEMMA OtherSlotsStay ==
  ASSUME WriteChunk, writing.field \in Fields, NEW f \in Fields, f # writing.field
  PROVE  Slot(f)' = Slot(f)
<1>0. \/ chip' = [c \in Cells |-> IF InChunk(c) THEN writing.slot[ByteFor(c)] ELSE chip[c]]
      \/ chip' = chip
  BY DEF WriteChunk
<1>1. ASSUME NEW b \in Bytes PROVE chip'[<<Page(f), Offset[f] + b>>] = chip[<<Page(f), Offset[f] + b>>]
  <2> DEFINE cell == <<Page(f), Offset[f] + b>>
             new == [c \in Cells |-> IF InChunk(c) THEN writing.slot[ByteFor(c)] ELSE chip[c]]
  <2>0. Offset[f] \in Int /\ Offset[writing.field] \in Int /\ b \in Int
    <3>1. \A h \in Fields : Offset[h] \in Nat
      BY SlotsApart
    <3>2. QED
      BY <3>1 DEF Bytes
  <2>1. cell[1] = Page(f) /\ cell[2] = Offset[f] + b
    OBVIOUS
  <2>2. cell \in Cells
    BY SlotsApart
  <2> HIDE DEF cell
  <2>3. ~InChunk(cell)
    <3> SUFFICES ASSUME InChunk(cell) PROVE FALSE
      OBVIOUS
    <3>1. Page(f) = Page(writing.field) /\ cell[2] - Offset[writing.field] \in Bytes
      BY <2>1 DEF InChunk, ByteFor
    <3>2. Offset[f] + b # Offset[writing.field] + (cell[2] - Offset[writing.field])
      BY <3>1, SlotsApart
    <3>3. \A x, y \in Int : x = y + (x - y)
      OBVIOUS
    <3>4. QED
      BY <2>0, <2>1, <3>2, <3>3
  <2>4. new[cell] = chip[cell]
    BY <2>2, <2>3
  <2>5. chip' \in {new, chip}
    BY <1>0
  <2> HIDE DEF new
  <2>6. chip'[cell] = chip[cell]
    BY <2>4, <2>5
  <2>7. QED
    BY <2>6 DEF cell
<1>2. QED
  BY <1>1 DEF Slot

LEMMA WriteChunkIInv == ASSUME IInv, WriteChunk PROVE IInv'
<1>1. DOMAIN saved' = Fields
  BY DEF WriteChunk, IInv
<1>2. writing'.field = writing.field
  BY DEF WriteChunk, IInv, WriteIsKnown
<1>3. WriteIsKnown'
  BY DEF WriteChunk, IInv, WriteIsKnown
<1>4. SavedStays'
  <2> SUFFICES ASSUME NEW f \in Fields, saved'[f] # NONE PROVE Text(Slot(f)') = saved'[f]
    BY DEF SavedStays
  <2>1. saved' = saved /\ writing.field \in Fields /\ f # writing.field
    BY DEF WriteChunk, IInv, WriteIsKnown
  <2>2. Slot(f)' = Slot(f)
    BY <2>1, OtherSlotsStay
  <2>3. QED
    BY <2>1, <2>2 DEF IInv, SavedStays
<1>5. QED
  BY <1>1, <1>3, <1>4 DEF IInv

LEMMA WriteAgainIInv == ASSUME IInv, WriteAgain PROVE IInv'
<1>1. writing # NONE /\ UNCHANGED <<chip, saved>>
  BY DEF WriteAgain, AllSent
<1>2. WriteIsKnown'
  <2>1. writing' = [field |-> writing.field, slot |-> writing.slot,
                    attempt |-> writing.attempt + 1, chunk |-> 0, by |-> writing.by]
    BY <1>1 DEF WriteAgain, IInv, WriteIsKnown
  <2>2. QED
    BY <1>1, <2>1 DEF IInv, WriteIsKnown
<1>3. QED
  BY <1>1, <1>2, SlotUnchanged DEF IInv, SavedStays

\* What is recorded as saved is what the chip was compared with.
LEMMA WriteReturnsIInv == ASSUME IInv, WriteReturns PROVE IInv'
<1>1. writing # NONE
  BY DEF WriteReturns, Verified, AllSent
<1>2. CASE Verified
  <2>1. /\ chip' = chip /\ writing' = NONE
        /\ saved' = [saved EXCEPT ![writing.field] = Text(Slot(writing.field))]
    BY <1>2 DEF WriteReturns, Verified
  <2>2. QED
    BY <1>1, <2>1, SlotUnchanged DEF IInv, WriteIsKnown, SavedStays
<1>3. CASE ~Verified
  BY <1>3, SlotUnchanged DEF WriteReturns, IInv, WriteIsKnown, SavedStays
<1>4. QED
  BY <1>2, <1>3

LEMMA NextIInv == IInv /\ [Next]_vars => IInv'
<1> SUFFICES ASSUME IInv, [Next]_vars PROVE IInv'
  OBVIOUS
<1>1. CASE UNCHANGED eepromVars
  BY <1>1, SlotUnchanged DEF eepromVars, IInv, WriteIsKnown, SavedStays
<1>2. CASE \E pressed \in SUBSET Buttons : MenuInput(pressed)
  <2>1. CASE EnterPressed
    BY <2>1, ConfigWriteIInv DEF EnterPressed
  <2>2. CASE ~EnterPressed
    BY <1>1, <1>2, <2>2 DEF MenuInput
  <2>3. QED
    BY <2>1, <2>2
<1>3. CASE WriteChunk \/ WriteAgain
  BY <1>3, WriteChunkIInv, WriteAgainIInv
<1>4. CASE ConfigWritten
  BY <1>4, WriteReturnsIInv DEF ConfigWritten
<1>5. CASE \E e \in Echoed : EchoToConfig(e.field, e.text)
  BY <1>5, EchoedAssumption, ConfigWriteIInv DEF EchoToConfig
<1>6. CASE PowerCycle
  BY <1>6, SlotUnchanged DEF PowerCycle, PowerLoss, IInv, WriteIsKnown, SavedStays
<1>7. CASE DisplayTryStart \/ WakeMenu \/ ShowBanner \/ RedrawMenu
           \/ \E m \in {"BANNER", "MENU"} : EchoToMode(m)
  BY <1>1, <1>7 DEF DisplayTryStart, WakeMenu, ShowBanner, RedrawMenu, EchoToMode
<1>8. QED
  BY <1>1, <1>2, <1>3, <1>4, <1>5, <1>6, <1>7 DEF Next, vars

THEOREM Invariance == Spec => []IInv
<1>1. QED
  BY InitIInv, NextIInv, PTL DEF Spec

\* A field reads as the text that the latest verified write of it has set, whatever chunks
\* of other writes, failures and losses of power come after (eeprom_write_verified(),
\* eeprom.cpp:84-94), because no chunk reaches a byte of another slot (SlotsApart).
THEOREM VerifiedSettingsHold == Spec => []SavedStays
<1>1. IInv => SavedStays
  BY DEF IInv
<1>2. QED
  BY <1>1, Invariance, PTL
-----------------------------------------------------------------------------
(* Types.                                                                  *)

LEMMA ScreenSets ==
  /\ Lists = {"MAIN", "LORA_LIST", "CONFIG_LIST", "API_LIST"}
  /\ Details = {"ROOM", "WIFI", "LORA_STATUS", "LORA_PROBE1", "LORA_PROBE2", "LORA_PROBE3"}
  /\ DOMAIN Back = {"LORA_LIST", "CONFIG_LIST", "API_LIST"}
<1>1. {LoraDetails[n] : n \in 1..4} = {"LORA_STATUS", "LORA_PROBE1", "LORA_PROBE2", "LORA_PROBE3"}
  BY DEF LoraDetails, Items
<1>2. QED
  BY <1>1 DEF Lists, Items, Details, Back

\* Every way out of a screen leads to a screen.
LEMMA WaysLeadToScreens ==
  /\ \A s \in Lists, c \in 0..3 : Items[s][c + 1] \in Screens
  /\ \A s \in DOMAIN Back : Back[s].screen \in Screens /\ Back[s].cursor \in 0..3
  /\ \A f \in Fields : After[f] \in Screens
<1>1. \A s \in Lists, c \in 0..3 : Items[s][c + 1] \in Screens
  BY ScreenSets DEF Items, Screens, Fields
<1>2. \A s \in DOMAIN Back : Back[s].screen \in Screens /\ Back[s].cursor \in 0..3
  BY ScreenSets DEF Back, Screens
<1>3. \A f \in Fields : After[f] \in Screens
  BY ScreenSets DEF After, Screens, Fields
<1>4. QED
  BY <1>1, <1>2, <1>3

LEMMA SanitizedType == ASSUME NEW text PROVE Sanitized(text) \in Slots
  BY DEF Sanitized, Slots

\* What config_read() makes of a slot is printable, whatever is in it.
LEMMA TextType == ASSUME NEW slot PROVE Text(slot) \in Seq(Printable)
<1>1. CASE \E t \in Bytes : slot[t] = NUL /\ \A b \in 0..(t - 1) : slot[b] \in Printable
  <2>1. PICK t \in Bytes : /\ \A b \in 0..(t - 1) : slot[b] \in Printable
                           /\ Text(slot) = [n \in 1..t |-> slot[n - 1]]
    BY <1>1 DEF Text
  <2>2. t \in Nat /\ \A n \in 1..t : slot[n - 1] \in Printable
    BY <2>1 DEF Bytes
  <2>3. QED
    BY <2>1, <2>2
<1>2. QED
  BY <1>1 DEF Text

LEMMA LoadedType ==
  ASSUME NEW text \in Seq(Printable) PROVE Loaded(text) \in [Positions -> {NUL} \union Printable]
  BY DEF Loaded, Positions

LEMMA EditCharType ==
  ASSUME NEW c \in {NUL} \union Printable, NEW dir \in {1, -1}
  PROVE  EditChar(c, dir) \in {NUL} \union Printable
  BY SlotAssumption DEF EditChar, NUL, Printable, Space

\* While a write of the menu goes on its screen stays as it is.
SavesItsField ==
  writing # NONE /\ writing.by = "menu" =>
    /\ ready /\ screen \in Fields
    /\ writing.field = screen /\ writing.slot = Sanitized(EditText)

EditTypeOK == edit_buf \in [Positions -> {NUL} \union Printable] /\ edit_cursor \in Positions

LEMMA OpenType ==
  ASSUME NEW s \in Screens, Open(s), overrun \in BOOLEAN
  PROVE  screen' \in Screens /\ EditTypeOK' /\ overrun' \in BOOLEAN
<1>1. 0 \in Positions
  BY EditAssumption, SlotAssumption DEF Positions
<1>2. CASE s \in Fields /\ EnterEdit(s)
  BY <1>1, <1>2, TextType, LoadedType DEF EnterEdit, EditTypeOK, Overruns
<1>3. CASE s \notin Fields /\ screen' = s /\ Cleared /\ UNCHANGED overrun
  BY <1>1, <1>3 DEF Cleared, EditTypeOK
<1>4. QED
  BY <1>2, <1>3 DEF Open

LEMMA ListInputType == ASSUME MenuTypeOK, NEW key, ListInput(key),
                              UNCHANGED <<ready, mode>> PROVE MenuTypeOK'
<1>1. needs_refresh' = FALSE
  BY DEF ListInput, Draw
<1>2. CASE key = "enter" /\ Open(Items[screen][cursor + 1]) /\ UNCHANGED cursor
  <2>1. Items[screen][cursor + 1] \in Screens
    BY WaysLeadToScreens DEF ListInput, MenuTypeOK
  <2>2. QED
    BY <1>1, <1>2, <2>1, OpenType DEF MenuTypeOK, EditTypeOK
<1>3. CASE /\ key = "left" /\ screen \in DOMAIN Back
           /\ screen' = Back[screen].screen /\ cursor' = Back[screen].cursor
           /\ UNCHANGED <<editVars, overrun>>
  BY <1>1, <1>3, WaysLeadToScreens DEF MenuTypeOK, editVars
<1>4. CASE /\ key \in DOMAIN Moved
           /\ cursor' = (cursor + Moved[key]) % 4
           /\ UNCHANGED <<screen, editVars, overrun>>
  <2>1. Moved[key] \in Nat
    BY <1>4 DEF Moved
  <2>2. cursor' \in 0..3
    BY <1>4, <2>1 DEF MenuTypeOK
  <2>3. QED
    BY <1>1, <1>4, <2>2 DEF MenuTypeOK, editVars
<1>5. QED
  BY <1>2, <1>3, <1>4 DEF ListInput

LEMMA DetailInputType == ASSUME MenuTypeOK, NEW key, DetailInput(key),
                                UNCHANGED <<ready, mode>> PROVE MenuTypeOK'
<1>1. needs_refresh' = FALSE /\ UNCHANGED <<editVars, overrun>>
  BY DEF DetailInput, Draw
<1>2. CASE key = "enter" /\ screen' = "MAIN" /\ cursor' = IF IsLoraDetail(screen) THEN 1 ELSE cursor
  <2>1. "MAIN" \in Screens
    BY ScreenSets DEF Screens
  <2>2. cursor' \in 0..3
    BY <1>2 DEF MenuTypeOK
  <2>3. QED
    BY <1>1, <1>2, <2>1, <2>2 DEF MenuTypeOK, editVars
<1>3. CASE /\ IsLoraDetail(screen) /\ key \in DOMAIN Moved
           /\ screen' = NextDetail(key) /\ UNCHANGED cursor
  <2>1. Moved[key] \in Nat
    BY <1>3 DEF Moved
  <2>2. (CHOOSE n \in 1..4 : LoraDetails[n] = screen) \in 1..4
    BY <1>3 DEF IsLoraDetail
  <2>3. \A a \in 1..4, d \in Nat : 1 + ((a - 1 + d) % 4) \in 1..4
    OBVIOUS
  <2>4. \A n \in 1..4 : LoraDetails[n] \in Screens
    BY DEF Screens, Details
  <2>5. NextDetail(key) \in Screens
    BY <2>1, <2>2, <2>3, <2>4 DEF NextDetail
  <2>6. QED
    BY <1>1, <1>3, <2>5 DEF MenuTypeOK, editVars
<1>4. QED
  BY <1>2, <1>3 DEF DetailInput

LEMMA EditInputType == ASSUME MenuTypeOK, NEW key, EditInput(key),
                              UNCHANGED <<ready, mode>> PROVE MenuTypeOK'
<1>1. needs_refresh' = FALSE /\ UNCHANGED <<screen, cursor, overrun>>
  BY DEF EditInput, Draw
<1>2. CASE key \in {"left", "right"} /\ edit_cursor' = Caret(key) /\ UNCHANGED edit_buf
  <2>1. Caret(key) \in Positions
    BY EditAssumption, SlotAssumption DEF Caret, Positions, MenuTypeOK
  <2>2. QED
    BY <1>1, <1>2, <2>1 DEF MenuTypeOK
<1>3. CASE /\ key \in {"up", "down"}
           /\ edit_buf' = [edit_buf EXCEPT ![edit_cursor] = EditChar(@, IF key = "up" THEN 1 ELSE -1)]
           /\ UNCHANGED edit_cursor
  <2> DEFINE dir == IF key = "up" THEN 1 ELSE -1
  <2>1. EditChar(edit_buf[edit_cursor], dir) \in {NUL} \union Printable
    BY EditCharType DEF MenuTypeOK
  <2>2. edit_buf' = [edit_buf EXCEPT ![edit_cursor] = EditChar(edit_buf[edit_cursor], dir)]
    BY <1>3
  <2> HIDE DEF dir
  <2>3. QED
    BY <1>1, <1>3, <2>1, <2>2 DEF MenuTypeOK
<1>4. QED
  BY <1>2, <1>3 DEF EditInput

LEMMA NextMenuType == ASSUME MenuTypeOK, SavesItsField, [Next]_vars PROVE MenuTypeOK'
<1>1. CASE UNCHANGED menuVars
  BY <1>1 DEF menuVars, editVars, MenuTypeOK
<1>2. CASE \E pressed \in SUBSET Buttons : MenuInput(pressed)
  BY <1>1, <1>2, ListInputType, DetailInputType, EditInputType DEF MenuInput, EnterPressed
<1>3. CASE ConfigWritten
  <2>1. CASE EnterReturns /\ screen \in Fields
    <3>1. After[screen] \in Screens /\ Open(After[screen])
      BY <2>1, WaysLeadToScreens DEF EnterReturns
    <3>2. screen' \in Screens /\ EditTypeOK' /\ overrun' \in BOOLEAN
      BY <3>1, OpenType DEF MenuTypeOK
    <3>3. QED
      BY <2>1, <3>2 DEF EnterReturns, Draw, MenuTypeOK, EditTypeOK
  <2>2. QED
    BY <1>1, <1>3, <2>1 DEF ConfigWritten, WriteReturns, Verified, AllSent, SavesItsField
<1>4. CASE PowerCycle
  <2>1. "MAIN" \in Screens /\ 0 \in Positions
    BY ScreenSets, EditAssumption, SlotAssumption DEF Screens, Positions
  <2>2. EditTypeOK'
    BY <1>4, <2>1 DEF PowerCycle, Cleared, EditTypeOK
  <2>3. screen' \in Screens /\ cursor' \in 0..3
    BY <1>4, <2>1 DEF PowerCycle
  <2>4. ready' \in BOOLEAN /\ mode' = "BANNER" /\ needs_refresh' \in BOOLEAN /\ overrun' \in BOOLEAN
    BY <1>4 DEF PowerCycle
  <2>5. QED
    BY <2>2, <2>3, <2>4 DEF MenuTypeOK, EditTypeOK
<1>5. CASE DisplayTryStart \/ WakeMenu \/ ShowBanner \/ RedrawMenu
           \/ \E m \in {"BANNER", "MENU"} : EchoToMode(m)
  <2>1. UNCHANGED <<screen, cursor, edit_buf, edit_cursor>>
    BY <1>5 DEF DisplayTryStart, WakeMenu, ShowBanner, RedrawMenu, EchoToMode, RedrawBanner, editVars
  <2>2. mode' \in {mode, "BANNER", "MENU"}
    BY <1>5 DEF DisplayTryStart, WakeMenu, ShowBanner, RedrawMenu, EchoToMode, SetMode, RedrawBanner
  <2>3. ready' \in BOOLEAN /\ needs_refresh' \in BOOLEAN
    BY <1>5 DEF DisplayTryStart, WakeMenu, ShowBanner, RedrawMenu, EchoToMode, SetMode, RedrawBanner,
                Draw, MenuTypeOK
  <2>4. overrun' \in BOOLEAN
    <3>1. Overruns(Text(Slot("farm")), FarmLen) \in BOOLEAN
      BY DEF Overruns
    <3>2. overrun' \in {overrun, Overruns(Text(Slot("farm")), FarmLen)}
      BY <1>5 DEF DisplayTryStart, WakeMenu, ShowBanner, RedrawMenu, EchoToMode, RedrawBanner
    <3>3. QED
      BY <3>1, <3>2 DEF MenuTypeOK
  <2>5. screen' \in Screens /\ cursor' \in 0..3 /\ EditTypeOK'
    BY <2>1 DEF MenuTypeOK, EditTypeOK
  <2>6. mode' \in {"BANNER", "MENU"}
    BY <2>2 DEF MenuTypeOK
  <2>7. QED
    BY <2>3, <2>4, <2>5, <2>6 DEF MenuTypeOK, EditTypeOK
<1>6. CASE \E e \in Echoed : EchoToConfig(e.field, e.text)
  BY <1>1, <1>6 DEF EchoToConfig
<1>7. QED
  BY <1>1, <1>2, <1>3, <1>4, <1>5, <1>6 DEF Next, vars

LEMMA WriteBegins ==
  ASSUME NEW field \in Fields, NEW text, NEW by \in {"menu", "shell"}, ConfigWrite(field, text, by)
  PROVE  writing' \in Writes
<1>1. 1 \in 1..Retries /\ 0 \in 0..(SlotSize \div ChunkSize)
  BY SlotAssumption
<1>2. QED
  BY <1>1, SanitizedType DEF ConfigWrite, Writes

\* The chip and the write in progress.
LEMMA NextEepromType == ASSUME MenuTypeOK, EepromTypeOK, [Next]_vars PROVE EepromTypeOK'
<1>1. CASE UNCHANGED eepromVars
  BY <1>1 DEF eepromVars, EepromTypeOK
<1>2. ASSUME NEW field \in Fields, NEW text, NEW by \in {"menu", "shell"}, ConfigWrite(field, text, by)
      PROVE  EepromTypeOK'
  BY <1>2, WriteBegins DEF EepromTypeOK, ConfigWrite
<1>3. CASE \E pressed \in SUBSET Buttons : MenuInput(pressed)
  BY <1>1, <1>2, <1>3 DEF MenuInput, EnterPressed
<1>4. CASE \E e \in Echoed : EchoToConfig(e.field, e.text)
  BY <1>2, <1>4, EchoedAssumption DEF EchoToConfig
<1>5. CASE WriteChunk
  <2>1. writing.slot \in Slots
    BY <1>5 DEF EepromTypeOK, WriteChunk, Writes
  <2>2. chip' \in [Cells -> {NUL} \union Printable \union {NotPrintable}]
    BY <1>5, <2>1 DEF EepromTypeOK, WriteChunk, InChunk, Slots
  <2>3. writing.chunk + 1 \in 0..(SlotSize \div ChunkSize)
    BY <1>5, SlotAssumption DEF WriteChunk, Chunks
  <2>4. QED
    BY <1>5, <2>2, <2>3 DEF EepromTypeOK, WriteChunk, Writes
<1>6. CASE WriteAgain
  <2>1. writing.attempt + 1 \in 1..Retries /\ 0 \in 0..(SlotSize \div ChunkSize)
    BY <1>6, SlotAssumption DEF EepromTypeOK, WriteAgain, AllSent, Writes
  <2>2. QED
    BY <1>6, <2>1 DEF EepromTypeOK, WriteAgain, AllSent, Writes
<1>7. CASE ConfigWritten \/ PowerCycle
  BY <1>7 DEF EepromTypeOK, ConfigWritten, WriteReturns, PowerCycle, PowerLoss
<1>8. CASE DisplayTryStart \/ WakeMenu \/ ShowBanner \/ RedrawMenu
           \/ \E m \in {"BANNER", "MENU"} : EchoToMode(m)
  BY <1>1, <1>8 DEF DisplayTryStart, WakeMenu, ShowBanner, RedrawMenu, EchoToMode
<1>9. QED
  BY <1>1, <1>3, <1>4, <1>5, <1>6, <1>7, <1>8 DEF Next, vars

LEMMA NextSaves == IInv /\ SavesItsField /\ [Next]_vars => SavesItsField'
<1> SUFFICES ASSUME IInv, SavesItsField, [Next]_vars PROVE SavesItsField'
  OBVIOUS
<1>0. ASSUME UNCHANGED edit_buf PROVE EditText' = EditText
  BY <1>0 DEF EditText
<1>1. CASE writing' = NONE
  BY <1>1 DEF SavesItsField
<1>2. CASE \E pressed \in SUBSET Buttons : MenuInput(pressed)
  <2>1. CASE EnterPressed
    <3>1. screen \in Fields /\ ready /\ UNCHANGED <<ready, screen, edit_buf>>
      BY <1>2, <2>1 DEF MenuInput, EnterPressed, menuVars, editVars
    <3>2. writing'.field = screen /\ writing'.slot = Sanitized(EditText)
      BY <2>1 DEF EnterPressed, ConfigWrite
    <3>3. QED
      BY <1>0, <3>1, <3>2 DEF SavesItsField
  <2>2. CASE ~EnterPressed
    BY <1>1, <1>2, <2>2 DEF MenuInput, eepromVars, Idle
  <2>3. QED
    BY <2>1, <2>2
<1>3. CASE \E e \in Echoed : EchoToConfig(e.field, e.text)
  <2>1. PICK e \in Echoed : ConfigWrite(e.field, e.text, "shell")
    BY <1>3 DEF EchoToConfig
  <2>2. writing'.by = "shell"
    BY <2>1 DEF ConfigWrite
  <2>3. QED
    BY <2>2 DEF SavesItsField
<1>4. CASE (WriteChunk \/ WriteAgain) /\ UNCHANGED menuVars
  <2>1. writing # NONE /\ UNCHANGED <<ready, screen, edit_buf>>
    BY <1>4 DEF WriteChunk, WriteAgain, AllSent, menuVars, editVars
  <2>2. writing'.by = writing.by /\ writing'.field = writing.field /\ writing'.slot = writing.slot
    BY <1>4, <2>1 DEF WriteChunk, WriteAgain, IInv, WriteIsKnown
  <2>3. QED
    BY <1>0, <2>1, <2>2 DEF SavesItsField
<1>5. CASE ConfigWritten \/ PowerCycle
  BY <1>1, <1>5 DEF ConfigWritten, WriteReturns, PowerCycle, PowerLoss
<1>6. CASE DisplayTryStart \/ WakeMenu \/ ShowBanner \/ RedrawMenu
           \/ \E m \in {"BANNER", "MENU"} : EchoToMode(m)
  BY <1>1, <1>6 DEF DisplayTryStart, WakeMenu, ShowBanner, RedrawMenu, EchoToMode, eepromVars, Idle
<1>7. CASE UNCHANGED vars
  BY <1>0, <1>7 DEF vars, eepromVars, menuVars, editVars, SavesItsField
<1>8. QED
  BY <1>2, <1>3, <1>4, <1>5, <1>6, <1>7 DEF Next

\* The chip, the editor with its caret, the cursor and the screen never leave their types:
\* no wrap of caret or cursor goes out of range (display.cpp:250-266, 438-515).
THEOREM TypeCorrect == Spec => []TypeOK
<1>1. Init => TypeOK /\ SavesItsField
  <2> SUFFICES ASSUME Init PROVE TypeOK /\ SavesItsField
    OBVIOUS
  <2>1. "MAIN" \in Screens /\ 0 \in Positions
    BY ScreenSets, EditAssumption, SlotAssumption DEF Screens, Positions
  <2>2. screen \in Screens /\ cursor \in 0..3 /\ EditTypeOK
    BY <2>1 DEF Init, EditTypeOK
  <2>3. MenuTypeOK
    BY <2>2 DEF Init, MenuTypeOK, EditTypeOK
  <2>4. EepromTypeOK
    BY DEF Init, EepromTypeOK, Slots
  <2>5. QED
    BY <2>3, <2>4 DEF TypeOK, Init, SavesItsField
<1>2. TypeOK /\ SavesItsField /\ [Next]_vars => TypeOK'
  BY NextMenuType, NextEepromType DEF TypeOK
<1>3. QED
  BY <1>1, <1>2, NextSaves, Invariance, PTL DEF Spec

-----------------------------------------------------------------------------
(* The panel.                                                              *)

\* A panel that has not been started yet is due to be drawn.
DrawnInv == ShownIsCurrent /\ (~ready => needs_refresh)

\* What has just been drawn is current.
LEMMA DrawIsCurrent == ASSUME Draw, ready' PROVE DrawnInv'
  BY DEF Draw, DrawnInv, ShownIsCurrent

\* What is due to be drawn need not be.
LEMMA DueToBeDrawn == ASSUME needs_refresh' PROVE DrawnInv'
  BY DEF DrawnInv, ShownIsCurrent

LEMMA NextDrawn == SavesItsField /\ DrawnInv /\ [Next]_vars => DrawnInv'
<1> SUFFICES ASSUME SavesItsField, DrawnInv, [Next]_vars PROVE DrawnInv'
  OBVIOUS
<1>1. CASE UNCHANGED menuVars
  BY <1>1 DEF menuVars, editVars, DrawnInv, ShownIsCurrent
<1>2. CASE DisplayTryStart
  <2>1. ~ready /\ needs_refresh' = needs_refresh
    BY <1>2 DEF DisplayTryStart
  <2>2. QED
    BY <2>1, DueToBeDrawn DEF DrawnInv
<1>3. CASE WakeMenu \/ PowerCycle \/ \E m \in {"BANNER", "MENU"} : EchoToMode(m)
  BY <1>3, DueToBeDrawn DEF WakeMenu, PowerCycle, EchoToMode, SetMode
<1>4. CASE ShowBanner
  BY <1>4 DEF ShowBanner, RedrawBanner, DrawnInv, ShownIsCurrent
<1>5. CASE \E pressed \in SUBSET Buttons : MenuInput(pressed)
  <2>1. CASE EnterPressed
    BY <1>1, <2>1 DEF EnterPressed
  <2>2. ASSUME NEW key, ListInput(key) \/ DetailInput(key) \/ EditInput(key),
               UNCHANGED <<eepromVars, ready, mode>>, ready
        PROVE  DrawnInv'
    BY <2>2, DrawIsCurrent DEF ListInput, DetailInput, EditInput
  <2>3. QED
    BY <1>5, <2>1, <2>2 DEF MenuInput
<1>6. CASE RedrawMenu
  BY <1>6, DrawIsCurrent DEF RedrawMenu
<1>7. CASE ConfigWritten
  <2>1. CASE writing.by = "menu" /\ EnterReturns
    <3>1. writing # NONE
      BY <1>7 DEF ConfigWritten, WriteReturns, Verified, AllSent
    <3>2. Draw /\ ready' = ready
      BY <2>1 DEF EnterReturns
    <3>3. QED
      BY <2>1, <3>1, <3>2, DrawIsCurrent DEF SavesItsField
  <2>2. QED
    BY <1>1, <1>7, <2>1 DEF ConfigWritten
<1>8. CASE UNCHANGED vars
  BY <1>1, <1>8 DEF vars
<1>9. CASE \E e \in Echoed : EchoToConfig(e.field, e.text)
  BY <1>1, <1>9 DEF EchoToConfig
<1>10. QED
  BY <1>1, <1>2, <1>3, <1>4, <1>5, <1>6, <1>7, <1>8, <1>9 DEF Next

\* In the menu the panel shows what is there, after any sequence of presses and echoes.
THEOREM PanelIsCurrent == Spec => []ShownIsCurrent
<1>1. Init => DrawnInv /\ SavesItsField
  BY DEF Init, DrawnInv, ShownIsCurrent, SavesItsField
<1>2. DrawnInv => ShownIsCurrent
  BY DEF DrawnInv
<1>3. QED
  BY <1>1, <1>2, NextSaves, NextDrawn, Invariance, PTL DEF Spec
-----------------------------------------------------------------------------
(* What ENTER saves.                                                       *)

LEMMA Least == ASSUME NEW S \in SUBSET Nat, S # {} PROVE \E n \in S : \A m \in S : n <= m
<1>0. \A m, n \in S : ~(m < n) => n <= m
  OBVIOUS
<1>1. PICK n \in S : \A m \in S : ~(<<m, n>> \in OpToRel(<, Nat))
  BY WFMin, NatLessThanWellFounded
<1>2. \A m \in Nat : m < n => <<m, n>> \in OpToRel(<, Nat)
  BY DEF OpToRel
<1>3. \A m \in S : ~(m < n)
  BY <1>1, <1>2, Zenon
<1>4. QED
  BY <1>0, <1>1, <1>3, Zenon

\* The length of the edited text: what is before the first NUL, or all of it.
EndsAt(len) ==
  /\ len \in 0..EditMax
  /\ \A n \in 0..(len - 1) : edit_buf[n] # NUL
  /\ len < EditMax => edit_buf[len] = NUL

Before(len) == [n \in 1..len |-> edit_buf[n - 1]]

LEMMA TextEnds == \E len \in 0..EditMax : EndsAt(len) /\ EditText = Before(len)
<1> DEFINE cuts == {n \in Positions : edit_buf[n] = NUL}
           len == IF cuts = {} THEN EditMax ELSE CHOOSE n \in cuts : \A m \in cuts : n <= m
<1>0. EditMax \in Nat \ {0}
  BY EditAssumption, SlotAssumption
<1>1. EndsAt(len)
  <2>1. CASE cuts = {}
    BY <1>0, <2>1 DEF EndsAt, Positions
  <2>2. CASE cuts # {}
    <3>1. \E n \in cuts : \A m \in cuts : n <= m
      <4>1. cuts \in SUBSET Nat
        BY DEF Positions
      <4>2. QED
        BY <2>2, <4>1, Least
    <3>2. len \in cuts /\ \A m \in cuts : len <= m
      BY <2>2, <3>1
    <3>3. QED
      BY <1>0, <3>2 DEF EndsAt, Positions
  <2>3. QED
    BY <2>1, <2>2
<1>2. EditText = Before(len)
  BY DEF EditText, Before
<1>3. QED
  BY <1>1, <1>2 DEF EndsAt

\* It comes back from a slot as it went in.
LEMMA TextComesBack ==
  ASSUME NEW len, EndsAt(len), EditTypeOK
  PROVE  Text(Sanitized(Before(len))) = Before(len)
<1> DEFINE text == Before(len)
           slot == Sanitized(text)
           printable == {n \in 1..Len(text) :
                           text[n] \in Printable /\ \A m \in 1..(n - 1) : text[m] # Newline}
           place(n) == Cardinality({m \in printable : m < n})
<1>0. len \in Nat /\ len \in Bytes /\ len < SlotSize /\ len <= EditMax
  BY EditAssumption, SlotAssumption DEF EndsAt, Bytes
<1>1. \A n \in 1..len : text[n] \in Printable
  <2> SUFFICES ASSUME NEW n \in 1..len PROVE edit_buf[n - 1] \in Printable
    BY DEF Before
  <2>1. n - 1 \in Positions /\ n - 1 \in 0..(len - 1)
    BY <1>0, EditAssumption, SlotAssumption DEF Positions
  <2>2. QED
    BY <2>1 DEF EndsAt, EditTypeOK
<1>2. text \in Seq(Printable) /\ Len(text) = len
  BY <1>0, <1>1 DEF Before
<1>3. printable = 1..len
  <2>1. \A n \in 1..len : text[n] # Newline
    BY <1>1, SlotAssumption DEF Newline, Printable
  <2>2. \A n \in 1..len : \A m \in 1..(n - 1) : m \in 1..len
    BY <1>0
  <2>3. QED
    BY <1>1, <1>2, <2>1, <2>2
<1>4. ASSUME NEW n \in 1..len PROVE place(n) = n - 1
  <2>1. {m \in printable : m < n} = 1..(n - 1)
    BY <1>0, <1>3
  <2>2. Cardinality(1..(n - 1)) = n - 1
    BY <1>0, FS_Interval
  <2>3. QED
    BY <2>1, <2>2
<1>5. ASSUME NEW b \in Bytes
      PROVE  slot[b] = IF b < len THEN text[b + 1] ELSE NUL
  <2>0. b \in Nat
    BY DEF Bytes
  <2>1. CASE b < len
    <3>1. \A n \in printable : place(n) = b <=> n = b + 1
      BY <1>3, <1>4, <2>0
    <3>2. b + 1 \in printable
      BY <1>0, <1>3, <2>0, <2>1
    <3> HIDE DEF printable, place
    <3>3. (\E n \in printable : place(n) = b) /\ (CHOOSE n \in printable : place(n) = b) = b + 1
      BY <3>1, <3>2
    <3>4. b < SlotSize - 1
      BY <1>0, <2>0, <2>1, EditAssumption, SlotAssumption
    <3>5. slot[b] = text[CHOOSE n \in printable : place(n) = b]
      BY <3>3, <3>4 DEF Sanitized, printable, place
    <3>6. QED
      BY <2>1, <3>3, <3>5
  <2>2. CASE ~(b < len)
    <3>1. \A n \in printable : place(n) # b
      BY <1>0, <1>3, <1>4, <2>0, <2>2
    <3>2. QED
      BY <2>2, <3>1 DEF Sanitized
  <2>3. QED
    BY <2>1, <2>2
<1> HIDE DEF slot, text
<1>6. \A n \in 1..len : slot[n - 1] = text[n]
  <2> SUFFICES ASSUME NEW n \in 1..len PROVE slot[n - 1] = text[n]
    OBVIOUS
  <2>1. n - 1 \in Bytes /\ n - 1 < len /\ (n - 1) + 1 = n
    BY <1>0, SlotAssumption DEF Bytes
  <2>2. QED
    BY <1>5, <2>1
<1>7. slot[len] = NUL /\ \A b \in 0..(len - 1) : slot[b] \in Printable
  <2>1. \A b \in 0..(len - 1) : b \in Bytes /\ b < len /\ b + 1 \in 1..len
    BY <1>0, SlotAssumption DEF Bytes
  <2>2. QED
    BY <1>0, <1>1, <1>5, <2>1
<1>8. \A t \in Bytes : slot[t] = NUL /\ (\A b \in 0..(t - 1) : slot[b] \in Printable) => t = len
  <2>1. NUL \notin Printable
    BY DEF NUL, Printable
  <2>2. QED
    BY <1>0, <1>7, <2>1 DEF Bytes
<1>9. Text(slot) = [n \in 1..len |-> slot[n - 1]]
  <2>1. (CHOOSE t \in Bytes : slot[t] = NUL /\ \A b \in 0..(t - 1) : slot[b] \in Printable) = len
    BY <1>0, <1>7, <1>8
  <2>2. QED
    BY <1>0, <1>7, <2>1 DEF Text
<1>10. Text(slot) = [n \in 1..len |-> text[n]]
  BY <1>6, <1>9
<1>11. text = [n \in 1..len |-> text[n]]
  BY <1>2
<1>12. QED
  BY <1>10, <1>11 DEF slot, text

\* A panel that shows an edit screen shows the text as it is.
EditIsShown ==
  panel.shows \in Fields => screen = panel.shows /\ panel.line = Line(edit_buf)

LEMMA DrawShowsEdit == ASSUME Draw PROVE EditIsShown'
<1>1. \A s \in Lists : s \notin Fields
  BY ScreenSets DEF Fields
<1>2. QED
  BY <1>1 DEF Draw, View, EditIsShown

LEMMA NextEditIsShown == EditIsShown /\ [Next]_vars => EditIsShown'
<1> SUFFICES ASSUME EditIsShown, [Next]_vars PROVE EditIsShown'
  OBVIOUS
<1>0. Blank.shows \notin Fields /\ Banner.shows \notin Fields
  BY DEF Blank, Banner, Fields
<1>1. CASE UNCHANGED <<screen, edit_buf, panel>>
  BY <1>1 DEF EditIsShown
<1>2. CASE panel' \in {Blank, Banner}
  BY <1>0, <1>2 DEF EditIsShown
<1>3. CASE Draw
  BY <1>3, DrawShowsEdit
<1>4. CASE UNCHANGED menuVars
  BY <1>1, <1>4 DEF menuVars, editVars
<1>5. CASE \E pressed \in SUBSET Buttons : MenuInput(pressed)
  BY <1>3, <1>4, <1>5 DEF MenuInput, ListInput, DetailInput, EditInput, EnterPressed
<1>6. CASE ConfigWritten
  BY <1>3, <1>4, <1>6 DEF ConfigWritten, EnterReturns
<1>7. CASE DisplayTryStart \/ ShowBanner \/ PowerCycle
  BY <1>2, <1>7 DEF DisplayTryStart, ShowBanner, RedrawBanner, PowerCycle
<1>8. CASE WakeMenu \/ RedrawMenu \/ \E m \in {"BANNER", "MENU"} : EchoToMode(m)
  BY <1>1, <1>3, <1>8 DEF WakeMenu, RedrawMenu, EchoToMode, editVars
<1>9. CASE \E e \in Echoed : EchoToConfig(e.field, e.text)
  BY <1>4, <1>9 DEF EchoToConfig
<1>10. QED
  BY <1>4, <1>5, <1>6, <1>7, <1>8, <1>9 DEF Next, vars

\* The line on the panel has the text, and a '_' where it ends.
LEMMA LineShows ==
  ASSUME NEW len, EndsAt(len), panel.line = Line(edit_buf)
  PROVE  ShownUpTo(Before(len))
<1>0. EditMax \in Nat \ {0} /\ len \in Nat /\ len <= EditMax
  BY EditAssumption, SlotAssumption DEF EndsAt
<1>1. Len(Before(len)) = len
  BY <1>0 DEF Before
<1>2. ASSUME NEW n \in 1..len PROVE panel.line[n - 1] = Before(len)[n]
  <2>1. n - 1 \in Positions /\ edit_buf[n - 1] # NUL
    BY <1>0 DEF EndsAt, Positions
  <2>2. QED
    BY <2>1 DEF Line, Before
<1>3. ASSUME len < EditMax PROVE panel.line[len] = Underscore
  <2>1. len \in Positions /\ edit_buf[len] = NUL /\ \A n \in 0..(len - 1) : edit_buf[n] # NUL
    BY <1>0, <1>3 DEF EndsAt, Positions
  <2>2. QED
    BY <2>1 DEF Line
<1>4. QED
  BY <1>0, <1>1, <1>2, <1>3 DEF ShownUpTo

LEMMA VerifiedIsShown ==
  ASSUME TypeOK, SavesItsField, EditIsShown, Verified, writing.by = "menu", panel.shows \in Fields
  PROVE  writing.field = panel.shows /\ ShownUpTo(Text(Slot(panel.shows)))
<1>1. /\ writing.field = panel.shows /\ panel.line = Line(edit_buf)
      /\ Slot(panel.shows) = Sanitized(EditText)
  BY DEF SavesItsField, EditIsShown, Verified, AllSent
<1>2. EditTypeOK
  BY DEF TypeOK, MenuTypeOK, EditTypeOK
<1>3. PICK len \in 0..EditMax : EndsAt(len) /\ EditText = Before(len)
  BY TextEnds
<1>4. Text(Slot(panel.shows)) = Before(len)
  BY <1>1, <1>2, <1>3, TextComesBack
<1>5. QED
  BY <1>1, <1>3, <1>4, LineShows

\* What ENTER saves is what the panel shows up to a '_', or all of it, for every size of
\* editor that fits a slot and whatever has been typed, cut and typed over
\* (display.cpp:243-275, 438-460; dev/config.cpp:75-94).  The '_' need not be the first, as
\* it can be typed.
THEOREM EnterSavesShown == Spec => SavedIsShown
<1>1. Init => EditIsShown
  BY DEF Init, EditIsShown, Blank, Fields
<1>2. Init => SavesItsField
  BY DEF Init, SavesItsField
<1>3. TypeOK /\ SavesItsField /\ EditIsShown
        => [WriteReturns /\ Verified /\ writing.by = "menu" /\ panel.shows \in Fields
              => writing.field = panel.shows /\ ShownUpTo(Text(Slot(panel.shows)))]_vars
  BY VerifiedIsShown
<1>4. QED
  BY <1>1, <1>2, <1>3, NextSaves, NextEditIsShown, Invariance, TypeCorrect, PTL DEF Spec, SavedIsShown

-----------------------------------------------------------------------------
(* The ways through the menu.                                              *)

\* How a step changes the screen and the cursor of the list it came from or leads to.
Enters  == screen \in Lists /\ screen' = Items[screen][cursor + 1] /\ cursor' = cursor
GoesBack == screen \in DOMAIN Back /\ screen' = Back[screen].screen /\ cursor' = Back[screen].cursor
Leaves == screen \in Details /\ screen' = "MAIN" /\ cursor' = IF IsLoraDetail(screen) THEN 1 ELSE cursor
Cycles == IsLoraDetail(screen) /\ IsLoraDetail(screen') /\ cursor' = cursor
Saves == screen \in Fields /\ screen' = After[screen] /\ cursor' = cursor
Stays == screen' = screen /\ (screen \in Lists \/ cursor' = cursor)
Restarts == screen' = "MAIN" /\ ~ready'

Way == Enters \/ GoesBack \/ Leaves \/ Cycles \/ Saves \/ Stays \/ Restarts

LEMMA LoraDetailSet == \A s : IsLoraDetail(s) <=> s \in {"LORA_STATUS", "LORA_PROBE1", "LORA_PROBE2", "LORA_PROBE3"}
  BY DEF IsLoraDetail, LoraDetails, Items

LEMMA OpenLeads == ASSUME NEW s, Open(s) PROVE screen' = s
  BY DEF Open, EnterEdit

LEMMA InputIsWay ==
  ASSUME MenuTypeOK, NEW key, ListInput(key) \/ DetailInput(key) \/ EditInput(key)
  PROVE  Way
<1>1. CASE ListInput(key)
  BY <1>1, OpenLeads DEF ListInput, Way, Enters, GoesBack, Stays
<1>2. CASE DetailInput(key)
  <2>1. ASSUME IsLoraDetail(screen), key \in DOMAIN Moved PROVE IsLoraDetail(NextDetail(key))
    <3>1. Moved[key] \in Int
      BY <2>1 DEF Moved
    <3>2. (CHOOSE n \in 1..4 : LoraDetails[n] = screen) \in 1..4
      BY <2>1 DEF IsLoraDetail
    <3>3. \A a \in 1..4, d \in Int : 1 + ((a - 1 + d) % 4) \in 1..4
      OBVIOUS
    <3>4. PICK m \in 1..4 : NextDetail(key) = LoraDetails[m]
      BY <3>1, <3>2, <3>3 DEF NextDetail
    <3>5. QED
      BY <3>4 DEF IsLoraDetail
  <2>2. QED
    BY <1>2, <2>1 DEF DetailInput, Way, Leaves, Cycles
<1>3. CASE EditInput(key)
  BY <1>3 DEF EditInput, Way, Stays
<1>4. QED
  BY <1>1, <1>2, <1>3

LEMMA StepIsWay == ASSUME MenuTypeOK, SavesItsField, [Next]_vars PROVE Way
<1>1. CASE UNCHANGED menuVars
  BY <1>1 DEF menuVars, Way, Stays
<1>2. CASE \E pressed \in SUBSET Buttons : MenuInput(pressed)
  BY <1>1, <1>2, InputIsWay DEF MenuInput, EnterPressed
<1>3. CASE ConfigWritten
  <2>1. CASE writing.by = "menu" /\ EnterReturns
    <3>1. screen \in Fields
      BY <1>3, <2>1 DEF ConfigWritten, WriteReturns, Verified, AllSent, SavesItsField
    <3>2. QED
      BY <2>1, <3>1, OpenLeads DEF EnterReturns, Way, Saves
  <2>2. QED
    BY <1>1, <1>3, <2>1 DEF ConfigWritten
<1>4. CASE PowerCycle
  BY <1>4 DEF PowerCycle, Way, Restarts
<1>5. CASE DisplayTryStart \/ WakeMenu \/ ShowBanner \/ RedrawMenu
           \/ \E m \in {"BANNER", "MENU"} : EchoToMode(m)
  BY <1>5 DEF DisplayTryStart, WakeMenu, ShowBanner, RedrawMenu, EchoToMode, RedrawBanner, Way, Stays
<1>6. CASE \E e \in Echoed : EchoToConfig(e.field, e.text)
  BY <1>1, <1>6 DEF EchoToConfig
<1>7. QED
  BY <1>1, <1>2, <1>3, <1>4, <1>5, <1>6 DEF Next, vars

\* The inductive invariant behind CursorRemembers: nothing but the main menu and the lists uses
\* the cursor, so that a detail or edit screen still has it on the item it was opened from.
CursorOnItem ==
  /\ screen = "ROOM" => cursor = 0
  /\ screen = "WIFI" => cursor = 2
  /\ screen \in {"wifi_ssid", "wifi_pass", "api0"} => cursor = 0
  /\ screen \in {"url", "api1"} => cursor = 1
  /\ screen \in {"farm", "api2"} => cursor = 2
  /\ screen = "api3" => cursor = 3

\* The tables of the menu, row by row.
LEMMA ItemsRow ==
  ASSUME NEW s \in Lists, NEW c \in 0..3
  PROVE  /\ s = "MAIN" => Items[s][c + 1] = CASE c = 0 -> "ROOM" [] c = 1 -> "LORA_LIST"
                                              [] c = 2 -> "WIFI" [] c = 3 -> "CONFIG_LIST"
         /\ s = "LORA_LIST" => Items[s][c + 1] \in {"LORA_STATUS", "LORA_PROBE1", "LORA_PROBE2", "LORA_PROBE3"}
         /\ s = "CONFIG_LIST" => Items[s][c + 1] = CASE c = 0 -> "wifi_ssid" [] c = 1 -> "url"
                                                     [] c = 2 -> "farm" [] c = 3 -> "API_LIST"
         /\ s = "API_LIST" => Items[s][c + 1] = CASE c = 0 -> "api0" [] c = 1 -> "api1"
                                                  [] c = 2 -> "api2" [] c = 3 -> "api3"
  BY DEF Items

LEMMA NextOnItem == ASSUME MenuTypeOK, CursorOnItem, Way PROVE CursorOnItem'
<1>0. cursor \in 0..3 /\ screen \in Screens
  BY DEF MenuTypeOK
<1>1. CASE Enters
  BY <1>0, <1>1, ItemsRow, ScreenSets DEF Enters, CursorOnItem
<1>2. CASE GoesBack
  BY <1>2, ScreenSets DEF GoesBack, Back, CursorOnItem
<1>3. CASE Leaves \/ Restarts
  BY <1>3 DEF Leaves, Restarts, CursorOnItem
<1>4. CASE Cycles
  BY <1>4, LoraDetailSet DEF Cycles, CursorOnItem
<1>5. CASE Saves
  BY <1>5 DEF Saves, After, Fields, CursorOnItem
<1>6. CASE Stays
  BY <1>6, ScreenSets DEF Stays, CursorOnItem
<1>7. QED
  BY <1>1, <1>2, <1>3, <1>4, <1>5, <1>6 DEF Way

\* Depth, screen by screen.
LEMMA DepthRow ==
  /\ Depth["MAIN"] = 0
  /\ \A s \in {"ROOM", "WIFI", "LORA_LIST", "CONFIG_LIST", "LORA_STATUS", "LORA_PROBE1", "LORA_PROBE2",
               "LORA_PROBE3"} : Depth[s] = 1
  /\ \A s \in {"API_LIST", "wifi_pass", "url", "farm"} : Depth[s] = 2
  /\ \A s \in {"wifi_ssid", "api0", "api1", "api2", "api3"} : Depth[s] = 3
  BY ScreenSets, LoraDetailSet DEF Depth, Screens, Fields

\* The key that leads home means something on every screen but the main menu.
LEMMA HomeKeyCounts == MenuTypeOK /\ screen # "MAIN" => Means(screen, HomeKey)
<1> SUFFICES ASSUME MenuTypeOK, screen # "MAIN" PROVE Means(screen, HomeKey)
  OBVIOUS
<1>1. CASE screen \in Lists
  <2>1. screen \in DOMAIN Back /\ screen \notin Fields
    BY <1>1, ScreenSets DEF Fields
  <2>2. HomeKey = "left"
    BY <1>1 DEF HomeKey
  <2>3. QED
    BY <1>1, <2>1, <2>2, LoraDetailSet, ScreenSets DEF Means
<1>2. CASE screen \in Details
  <2>1. screen \notin Fields /\ screen \notin Lists
    BY <1>2, ScreenSets DEF Fields
  <2>2. HomeKey = "enter"
    BY <2>1 DEF HomeKey
  <2>3. IsLoraDetail(screen) \/ (~IsLoraDetail(screen) /\ screen \in {"ROOM", "WIFI"})
    BY <1>2, ScreenSets, LoraDetailSet
  <2>4. QED
    BY <2>1, <2>2, <2>3, LoraDetailSet DEF Means
<1>3. CASE screen \in Fields
  BY <1>3, ScreenSets, LoraDetailSet DEF Means, Fields
<1>4. QED
  BY <1>1, <1>2, <1>3 DEF MenuTypeOK, Screens

LEMMA HomeStepLeads ==
  ASSUME MenuTypeOK, SavesItsField, HomeStep
  PROVE  Nearer \/ (SaveBegins /\ UNCHANGED screen)
<1>1. CASE MenuInput({"left"}) /\ screen \in Lists
  <2>1. ListInput("left") /\ screen \in DOMAIN Back
    <3>1. (ListInput("left") \/ DetailInput("left") \/ EditInput("left")) /\ Means(screen, "left")
      BY <1>1 DEF MenuInput, Precedence
    <3>2. screen \notin Details /\ screen \notin Fields
      BY <1>1, ScreenSets DEF Fields
    <3>3. ListInput("left")
      BY <3>1, <3>2 DEF DetailInput, EditInput
    <3>4. screen \in DOMAIN Back
      BY <1>1, <3>1, <3>2 DEF Means
    <3>5. QED
      BY <3>3, <3>4
  <2>2. screen' = Back[screen].screen
    BY <2>1 DEF ListInput, Moved
  <2>3. QED
    BY <2>1, <2>2, ScreenSets, DepthRow DEF Back, Nearer
<1>2. CASE MenuInput({"enter"}) /\ screen \in Details
  <2>1. DetailInput("enter")
    BY <1>2, ScreenSets DEF MenuInput, Precedence, ListInput, EditInput, EnterPressed, Fields
  <2>2. screen' = "MAIN"
    BY <2>1 DEF DetailInput, Moved
  <2>3. QED
    BY <1>2, <2>2, ScreenSets, DepthRow DEF Nearer
<1>3. CASE MenuInput({"enter"}) /\ screen \in Fields
  <2>1. EnterPressed
    BY <1>3, ScreenSets DEF MenuInput, Precedence, ListInput, DetailInput, EditInput, Fields
  <2>2. writing = NONE /\ UNCHANGED screen
    BY <1>3, <2>1 DEF MenuInput, Idle, EnterPressed, menuVars
  <2>3. writing' # NONE
    BY <1>3, <2>1, WriteBegins, NoneAssumption DEF EnterPressed
  <2>4. QED
    BY <2>2, <2>3 DEF SaveBegins
<1>4. CASE ConfigWritten /\ writing.by = "menu"
  <2>1. screen \in Fields /\ EnterReturns
    BY <1>4 DEF ConfigWritten, WriteReturns, Verified, AllSent, SavesItsField
  <2>2. screen' = After[screen]
    BY <2>1, OpenLeads DEF EnterReturns
  <2>3. QED
    BY <2>1, <2>2, DepthRow DEF After, Fields, Nearer
<1>5. QED
  BY <1>1, <1>2, <1>3, <1>4 DEF HomeStep, HomeKey, MenuTypeOK, Screens

\* There is no screen but the main menu that LEFT in a list, or ENTER elsewhere, means nothing
\* on; it leads nearer to the main menu, on an edit screen once the text is saved, and through
\* the chain of the Wi-Fi settings as well (display.cpp:62-66).
THEOREM AlwaysAWayBack == Spec => LeadsHome
<1>1. MenuTypeOK => (screen # "MAIN" => Means(screen, HomeKey))
  BY HomeKeyCounts
<1>2. MenuTypeOK /\ SavesItsField => [HomeStep => Nearer \/ (SaveBegins /\ UNCHANGED screen)]_vars
  BY HomeStepLeads
<1>3. Init => SavesItsField
  BY DEF Init, SavesItsField
<1>4. TypeOK => MenuTypeOK
  BY DEF TypeOK
<1>5. QED
  BY <1>1, <1>2, <1>3, <1>4, NextSaves, Invariance, TypeCorrect, PTL DEF Spec, LeadsHome

\* Whoever goes back from a screen finds the cursor on the item that led there, after any
\* number of moves, edits and redraws on the way.
THEOREM BackOnTheItem == Spec => CursorRemembers
<1>1. ASSUME MenuTypeOK, CursorOnItem, Way,
             screen' \in Lists, Depth[screen'] < Depth[screen], ready'
      PROVE  LeadsTo(Items[screen'][cursor' + 1], screen)
  <2>0. cursor \in 0..3 /\ screen \in Screens
    BY <1>1 DEF MenuTypeOK
  <2>1. CASE Enters
    <3>1. CASE screen = "MAIN"
      BY <1>1, <3>1, ScreenSets, DepthRow
    <3>2. CASE screen = "CONFIG_LIST"
      <4>1. screen' \in {"wifi_ssid", "url", "farm", "API_LIST"}
        BY <2>0, <2>1, <3>2, ItemsRow, ScreenSets DEF Enters
      <4>2. QED
        BY <1>1, <3>2, <4>1, DepthRow
    <3>3. CASE screen \in {"LORA_LIST", "API_LIST"}
      <4>1. screen' \notin Lists
        BY <2>0, <2>1, <3>3, ItemsRow, ScreenSets DEF Enters
      <4>2. QED
        BY <1>1, <4>1
    <3>4. QED
      BY <2>1, <3>1, <3>2, <3>3, ScreenSets DEF Enters
  <2>2. CASE GoesBack
    <3>1. Items[screen'][cursor' + 1] = screen
      BY <2>2, ScreenSets DEF GoesBack, Back, Items
    <3>2. QED
      BY <3>1 DEF LeadsTo
  <2>3. CASE Leaves
    <3>1. CASE IsLoraDetail(screen)
      <4>1. Items[screen'][cursor' + 1] = "LORA_LIST"
        BY <2>3, <3>1 DEF Leaves, Items
      <4>2. \E n \in 1..4 : Items["LORA_LIST"][n] = screen
        BY <3>1 DEF IsLoraDetail, LoraDetails
      <4>3. QED
        BY <4>1, <4>2, ScreenSets DEF LeadsTo
    <3>2. CASE ~IsLoraDetail(screen)
      <4>1. screen' = "MAIN" /\ cursor' = cursor
        BY <2>3, <3>2 DEF Leaves
      <4>2. screen \in {"ROOM", "WIFI"}
        BY <2>3, <3>2, ScreenSets, LoraDetailSet DEF Leaves
      <4>3. (screen = "ROOM" /\ cursor' = 0) \/ (screen = "WIFI" /\ cursor' = 2)
        <5>1. screen = "ROOM" => cursor = 0
          BY <1>1 DEF CursorOnItem
        <5>2. screen = "WIFI" => cursor = 2
          BY <1>1 DEF CursorOnItem
        <5>3. QED
          BY <4>1, <4>2, <5>1, <5>2
      <4>4. Items[screen'][cursor' + 1] = screen
        BY <4>1, <4>3 DEF Items
      <4>5. QED
        BY <4>4 DEF LeadsTo
    <3>3. QED
      BY <3>1, <3>2
  <2>4. CASE Cycles
    BY <1>1, <2>4, LoraDetailSet, ScreenSets DEF Cycles
  <2>5. CASE Saves
    <3>1. screen # "wifi_ssid" /\ screen' = After[screen] /\ screen \in Fields
      BY <1>1, <2>5, ScreenSets DEF Saves, After
    <3>2. \/ screen \in {"wifi_pass", "url", "farm"} /\ screen' = "CONFIG_LIST"
          \/ screen \in {"api0", "api1", "api2", "api3"} /\ screen' = "API_LIST"
      BY <3>1 DEF After, Fields
    <3>3. CASE screen = "wifi_pass"
      <4>1. Items[screen'][cursor' + 1] = "wifi_ssid" /\ After["wifi_ssid"] = screen
        BY <1>1, <2>5, <3>2, <3>3 DEF Saves, CursorOnItem, Items, After
      <4>2. QED
        BY <4>1 DEF LeadsTo, Fields
    <3>4. CASE screen # "wifi_pass"
      <4>1. Items[screen'][cursor' + 1] = screen
        BY <1>1, <2>5, <3>2, <3>4 DEF Saves, CursorOnItem, Items
      <4>2. QED
        BY <4>1 DEF LeadsTo
    <3>5. QED
      BY <3>3, <3>4
  <2>6. CASE Stays
    <3>1. Depth[screen] \in Int
      BY <1>1, <2>6, ScreenSets, DepthRow DEF Stays
    <3>2. QED
      BY <1>1, <2>6, <3>1 DEF Stays
  <2>7. CASE Restarts
    BY <1>1, <2>7 DEF Restarts
  <2>8. QED
    BY <1>1, <2>1, <2>2, <2>3, <2>4, <2>5, <2>6, <2>7 DEF Way
<1>2. TypeOK /\ SavesItsField /\ CursorOnItem /\ [Next]_vars =>
        [screen' \in Lists /\ Depth[screen'] < Depth[screen] /\ writing' = NONE /\ ready'
           => LeadsTo(Items[screen'][cursor' + 1], screen)]_vars
  BY <1>1, StepIsWay DEF TypeOK
<1>3. Init => SavesItsField /\ CursorOnItem
  BY DEF Init, SavesItsField, CursorOnItem
<1>4. TypeOK /\ SavesItsField /\ CursorOnItem /\ [Next]_vars => CursorOnItem'
  BY StepIsWay, NextOnItem DEF TypeOK
<1>5. QED
  BY <1>2, <1>3, <1>4, NextSaves, Invariance, TypeCorrect, PTL DEF Spec, CursorRemembers
===============================================================================
