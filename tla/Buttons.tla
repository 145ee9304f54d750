------------------------------- MODULE Buttons -------------------------------
(***************************************************************************)
(* buttons.cpp: the debouncing in the interrupt of the repeating timer,    *)
(* and dev/buttons.cpp: the devices that read and clear what it has found. *)
(*                                                                         *)
(* Everything that a timer interrupt does is one step; a task is           *)
(* interrupted between any two accesses of a flag.  The contacts are       *)
(* external: after each change they give arbitrary readings for Bounce     *)
(* periods of the timer, and then show where the finger is.                *)
(***************************************************************************)
EXTENDS Integers

CONSTANTS
  ButtonCount,  \* BUTTON_COUNT
  Debounce,     \* DEBOUNCE_SHORT
  Bounce,       \* bound: periods of the timer for which the contacts of each button bounce
  NONE          \* no button is being read

ButtonIds == 1..ButtonCount

ASSUME ButtonAssumption ==
  /\ ButtonCount \in Nat \ {0} /\ Debounce \in Nat
  /\ Bounce \in [ButtonIds -> Nat]
  /\ \A b \in ButtonIds : Bounce[b] <= Debounce + 1
  /\ NONE \notin [button : ButtonIds, pressed : BOOLEAN, single : BOOLEAN]

VARIABLES
  button,          \* pressed since it was read last
  button_pressed,  \* the debounced state
  button_cnt,
  held,            \* there is a finger on the button
  bouncing,        \* periods for which the contacts still bounce
  armed,           \* the timer has not registered a press since the finger came down
  looked           \* what the task has found that reads a flag and is about to clear it

contactVars == <<held, bouncing>>
buttonVars == <<button, button_pressed, button_cnt, contactVars, armed, looked>>

ButtonsTypeOK ==
  /\ button \in [ButtonIds -> BOOLEAN]
  /\ button_pressed \in [ButtonIds -> BOOLEAN]
  /\ button_cnt \in [ButtonIds -> 0..Debounce]
  /\ held \in [ButtonIds -> BOOLEAN]
  /\ bouncing \in [ButtonIds -> Nat] /\ \A b \in ButtonIds : bouncing[b] <= Bounce[b]
  /\ armed \in [ButtonIds -> BOOLEAN]
  /\ looked \in {NONE} \union [button : ButtonIds, pressed : BOOLEAN, single : BOOLEAN]

No == [b \in ButtonIds |-> FALSE]
Zero == [b \in ButtonIds |-> 0]

ButtonsInit ==
  /\ button = No /\ button_pressed = No /\ button_cnt = Zero
  /\ held = No /\ bouncing = Zero /\ armed = No
  /\ looked = NONE

-----------------------------------------------------------------------------
(* The finger and the contacts, both external.                             *)

Touch(b) ==
  /\ held' = [held EXCEPT ![b] = ~@]
  /\ bouncing' = [bouncing EXCEPT ![b] = Bounce[b]]
  /\ armed' = [armed EXCEPT ![b] = @ \/ ~held[b]]
  /\ UNCHANGED <<button, button_pressed, button_cnt, looked>>

\* What gpio_get() can find: the pin is low while the contacts are closed.
Readings == {low \in [ButtonIds -> BOOLEAN] : \A b \in ButtonIds : bouncing[b] = 0 => low[b] = held[b]}

-----------------------------------------------------------------------------
(* repeating_timer_callback(), every 5 ms.                                 *)

Pressed(low, b) == low[b] /\ ~button_pressed[b] /\ button_cnt[b] = 0

\* Mutant: a release need not wait for the contacts to be quiet.
Released_AtOnce(low, b) == ~low[b] /\ button_pressed[b]

Released(low, b) == ~low[b] /\ button_pressed[b] /\ button_cnt[b] = 0

\* Mutant: the counter is set anew by every reading that differs.
Count_Restarts(low, b) ==
  IF low[b] # button_pressed[b] THEN Debounce
  ELSE IF button_cnt[b] > 0 THEN button_cnt[b] - 1 ELSE 0

Count(low, b) ==
  IF Pressed(low, b) \/ Released(low, b) THEN Debounce
  ELSE IF button_cnt[b] > 0 THEN button_cnt[b] - 1 ELSE 0

RepeatingTimerCallback ==
  /\ \E low \in Readings :
       /\ button_pressed' = [b \in ButtonIds |-> Pressed(low, b) \/ (button_pressed[b] /\ ~Released(low, b))]
       /\ button' = [b \in ButtonIds |-> Pressed(low, b) \/ button[b]]
       /\ button_cnt' = [b \in ButtonIds |-> Count(low, b)]
       /\ armed' = [b \in ButtonIds |-> armed[b] /\ ~Pressed(low, b)]
  /\ bouncing' = [b \in ButtonIds |-> IF bouncing[b] > 0 THEN bouncing[b] - 1 ELSE 0]
  /\ UNCHANGED <<held, looked>>

-----------------------------------------------------------------------------
(* A task reads a flag and clears it: two accesses, in one_read() of a     *)
(* device of its own (single), or in the loop of buttons_read().           *)

Look(b, single) ==
  /\ looked = NONE
  /\ looked' = [button |-> b, pressed |-> button[b], single |-> single]
  /\ UNCHANGED <<button, button_pressed, button_cnt, contactVars, armed>>

\* Mutant: /dev/buttons clears every flag, like the devices of a single button.
Clears_Always == TRUE

\* buttons_read() leaves a flag alone that it has not found set.
Clears == looked.single \/ looked.pressed

Clear ==
  /\ looked # NONE
  /\ button' = IF Clears THEN [button EXCEPT ![looked.button] = FALSE] ELSE button
  /\ looked' = NONE
  /\ UNCHANGED <<button_pressed, button_cnt, contactVars, armed>>

ButtonsNext ==
  \/ \E b \in ButtonIds : Touch(b)
  \/ RepeatingTimerCallback
  \/ \E b \in ButtonIds, single \in BOOLEAN : Look(b, single)
  \/ Clear

ButtonsSafety == ButtonsInit /\ [][ButtonsNext]_buttonVars

-----------------------------------------------------------------------------
(* Properties.                                                             *)

\* However the contacts bounce, when the finger comes down, goes up or both at once, the
\* timer registers a press at most once: the lockout of DEBOUNCE_SHORT periods after each
\* change (buttons.cpp:39-47) outlasts the bouncing that belongs to it, if that is no longer
\* than one period more.
OnePressOneEvent ==
  [][\A b \in ButtonIds : button_pressed'[b] /\ ~button_pressed[b] => armed[b]]_buttonVars

\* The inductive invariant behind it: once the press is registered, while finger and
\* debounced state agree the contacts come to rest before the lockout ends.
RestsBeforeUnlock ==
  \A b \in ButtonIds : ~armed[b] =>
    /\ ~button_pressed[b] => ~held[b]
    /\ held[b] = button_pressed[b] => bouncing[b] <= button_cnt[b]

\* The debounced state follows a finger that comes to rest, however the contacts bounced and
\* whatever button_cnt was: no reading starts the lockout anew (buttons.cpp:47-49).
DebounceSettles ==
  \A b \in ButtonIds :
    /\ <>[]held[b] => <>[]button_pressed[b]
    /\ <>[]~held[b] => <>[]~button_pressed[b]

\* one_read() has found a flag clear and is about to clear it: what the timer sets now is
\* lost (dev/buttons.cpp:61-62).
InWindow(b) == looked # NONE /\ looked.button = b /\ looked.single /\ ~looked.pressed

=============================================================================
