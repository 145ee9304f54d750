-------------------------------- MODULE Eeprom --------------------------------
(***************************************************************************)
(* eeprom.cpp and dev/config.cpp: the /dev/config files, each in a slot    *)
(* somewhere on the EEPROM, byte by byte.                                  *)
(*                                                                         *)
(* config_write() blocks the cooperative loop for as long as it takes, so  *)
(* nothing else runs between its chunks; but the power can go.  The chip   *)
(* is external: it takes a page write whole or not at all, and what it is  *)
(* asked for it reads back.  Characters are 1..LastChar (' ' to '~'), and  *)
(* NUL, the end of a line and one byte that is not printable (0xFF on a    *)
(* blank chip) are apart from them.                                        *)
(***************************************************************************)
EXTENDS Integers, Sequences, FiniteSets

CONSTANTS
  SlotSize,    \* EEPROM_SLOT_SIZE
  ChunkSize,   \* bytes eeprom_write_chunk() sends at a time
  Retries,     \* EEPROM_WRITE_RETRIES
  LastChar,    \* '~'
  NONE         \* no write going on; nothing saved

ASSUME SlotAssumption ==
  /\ ChunkSize \in Nat \ {0} /\ SlotSize \in Nat /\ SlotSize > 1
  /\ SlotSize % ChunkSize = 0
  /\ Retries \in Nat \ {0}
  /\ LastChar \in Nat \ {0}

Fields == {"wifi_ssid", "wifi_pass", "url", "farm", "api0", "api1", "api2", "api3"}

NUL == 0
Printable == 1..LastChar
NotPrintable == LastChar + 1
Newline == LastChar + 2
Bytes == 0..(SlotSize - 1)
Slots == [Bytes -> {NUL} \union Printable \union {NotPrintable}]
Chunks == 0..(SlotSize \div ChunkSize - 1)

\* A config_write() under way, on behalf of the menu or of the shell.
Writes == [field : Fields, slot : Slots, attempt : 1..Retries,
           chunk : 0..(SlotSize \div ChunkSize), by : {"menu", "shell"}]

ASSUME NoneAssumption == NONE \notin Writes

\* Where the slots are: fields[] and the EEPROM_OFFS_ constants, of which a slot's 32 is
\* the unit.
Page(field) == IF field \in {"wifi_ssid", "wifi_pass", "url", "farm"} THEN 0 ELSE 1

Offset ==
  [wifi_ssid |-> SlotSize, wifi_pass |-> 2 * SlotSize, url |-> 3 * SlotSize, farm |-> 4 * SlotSize,
   api0 |-> 0, api1 |-> SlotSize, api2 |-> 2 * SlotSize, api3 |-> 3 * SlotSize]

Cells == {0, 1} \X (0..(5 * SlotSize - 1))  \* page and address of a byte

VARIABLES
  chip,      \* the byte in each cell
  writing,   \* the config_write() under way, or NONE
  saved      \* what the latest config_write() of a field to succeed wrote, until the next

eepromVars == <<chip, writing, saved>>

\* eeprom_read_raw().
Slot(field) == [b \in Bytes |-> chip[<<Page(field), Offset[field] + b>>]]

\* config_read(): the text before the terminator if there is one and the text is printable,
\* otherwise "corrupt/unterminated slot, reporting empty".
Text(slot) ==
  IF \E t \in Bytes : slot[t] = NUL /\ \A b \in 0..(t - 1) : slot[b] \in Printable
  THEN LET t == CHOOSE t \in Bytes : slot[t] = NUL /\ \A b \in 0..(t - 1) : slot[b] \in Printable
       IN  [n \in 1..t |-> slot[n - 1]]
  ELSE <<>>

\* config_write()'s slot: what is printable of the first line of the text, in its order, as
\* much as leaves room for a terminator, and zeroes.
Sanitized(text) ==
  LET printable == {n \in 1..Len(text) :
                      text[n] \in Printable /\ \A m \in 1..(n - 1) : text[m] # Newline}
      place(n)  == Cardinality({m \in printable : m < n})
  IN  [b \in Bytes |-> IF b < SlotSize - 1 /\ \E n \in printable : place(n) = b
                        THEN text[CHOOSE n \in printable : place(n) = b] ELSE NUL]

ConfigWrite(field, text, by) ==
  /\ writing = NONE
  /\ writing' = [field |-> field, slot |-> Sanitized(text), attempt |-> 1, chunk |-> 0, by |-> by]
  /\ saved' = [saved EXCEPT ![field] = NONE]
  /\ UNCHANGED chip

\* The byte of the slot that goes to a cell, if it is sent with this chunk.
ByteFor(cell) == cell[2] - Offset[writing.field]
InChunk(cell) ==
  /\ cell[1] = Page(writing.field) /\ ByteFor(cell) \in Bytes
  /\ ByteFor(cell) \div ChunkSize = writing.chunk

\* eeprom_write_chunk(): the result of i2c_write_blocking() is not looked at.
WriteChunk ==
  /\ writing # NONE /\ writing.chunk \in Chunks
  /\ \/ chip' = [cell \in Cells |-> IF InChunk(cell) THEN writing.slot[ByteFor(cell)] ELSE chip[cell]]
     \/ UNCHANGED chip
  /\ writing' = [writing EXCEPT !.chunk = @ + 1]
  /\ UNCHANGED saved

AllSent == writing # NONE /\ writing.chunk \notin Chunks

\* Mutant: only the first chunk is compared.
Verified_FirstChunk ==
  AllSent /\ \A b \in 0..(ChunkSize - 1) : Slot(writing.field)[b] = writing.slot[b]

Verified == AllSent /\ Slot(writing.field) = writing.slot

WriteAgain ==
  /\ AllSent /\ ~Verified /\ writing.attempt < Retries
  /\ writing' = [writing EXCEPT !.attempt = @ + 1, !.chunk = 0]
  /\ UNCHANGED <<chip, saved>>

\* config_write() returns: the length, or -1 after "write failed verification".
WriteReturns ==
  /\ Verified \/ (AllSent /\ writing.attempt = Retries)
  /\ writing' = NONE
  /\ saved' = IF Verified THEN [saved EXCEPT ![writing.field] = Text(writing.slot)] ELSE saved
  /\ UNCHANGED chip

PowerLoss == writing' = NONE /\ UNCHANGED <<chip, saved>>
===============================================================================
