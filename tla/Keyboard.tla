------------------------------ MODULE Keyboard ------------------------------
(***************************************************************************)
(* What Kernel leaves out of the keyboard: the bytes in kb_line with the   *)
(* two pointers into it, the shift and lock states, and the map from scan  *)
(* codes to characters.  Kernel's KbdInt stores a byte and its KbRead      *)
(* takes one; here they say which.                                         *)
(*                                                                         *)
(* One letter stands for the keys with a character.  NO_CHAR stands for    *)
(* every byte without one: the release of an ordinary key, a key whose     *)
(* entries of keymap are 0, a press of num lock or scroll lock (their      *)
(* state shows only in the LEDs), and the two bytes with which a keyboard  *)
(* acknowledges what set_leds sends.  LOCK_UP stands for the release of    *)
(* one of the three lock keys.                                             *)
(***************************************************************************)
EXTENDS MCKernel

CONSTANT MaxBytes   \* bound: bytes the controller has for one interrupt

ASSUME KeyboardAssumption == MaxBytes \in Nat \ {0}

VARIABLES
  buf, head, tail,      \* kb_line, with Kernel's kb_count
  shift, capslock,      \* as kb_read keeps them
  held, caps,           \* history: the shift keys down; caps lock as struck
  meant,                \* history: what the bytes in the ring stood for
  exact                 \* history: no shift or caps lock lost, one shift at a time

lineVars == <<buf, head, tail, shift, capslock>>
history == <<held, caps, meant, exact>>
keyVars == <<vars, lineVars, history>>

LSHIFT == 42
RSHIFT == 54
CAPSLOCK == 58
LETTER == 30
NO_CHAR == 128 + LETTER
LOCK_UP == 128 + CAPSLOCK

Shifts == {LSHIFT, RSHIFT}
released(code) == code >= 128

Modifiers == {CAPSLOCK} \cup Shifts \cup {s + 128 : s \in Shifts}
Codes == {LETTER, NO_CHAR, LOCK_UP} \cup Modifiers

kb_init ==
  /\ buf = [i \in 0..(KB_BUF_SIZE - 1) |-> NO_CHAR]
  /\ head = 0 /\ tail = 0
  /\ shift = FALSE /\ capslock = FALSE
  /\ held = {} /\ caps = FALSE /\ meant = <<>> /\ exact = TRUE

-----------------------------------------------------------------------------
(***************************************************************************)
(* kb_read once a byte is there: the state it changes, and the character   *)
(* it returns.  The states are those of the bytes read so far, not of the  *)
(* keyboard.                                                               *)
(***************************************************************************)
wrap(slot) == IF slot = KB_BUF_SIZE THEN 0 ELSE slot

keymap(code, column) ==
  IF code # LETTER THEN "none" ELSE IF column = 1 THEN "A" ELSE "a"

\* Mutant of status_process: the release of a shift key is not seen.
ShiftSticks(code) ==
  /\ capslock' = IF code = CAPSLOCK THEN ~capslock ELSE capslock
  /\ shift' = (shift \/ code \in Shifts)

status_process(code) ==
  /\ capslock' = IF code = CAPSLOCK THEN ~capslock ELSE capslock
  /\ shift' = IF code \in Shifts THEN TRUE
              ELSE IF code - 128 \in Shifts THEN FALSE ELSE shift

map_key(code, shifted, locked) == keymap(code, IF shifted # locked THEN 1 ELSE 0)

returned(code) == IF released(code) THEN "none" ELSE map_key(code, shift', capslock')

TakeKey ==
  /\ KbRead /\ kb_count > 0
  /\ tail' = wrap(tail + 1)
  /\ status_process(buf[tail])
  /\ buf' = [buf EXCEPT ![tail] = NO_CHAR]
  /\ meant' = IF exact THEN Tail(meant) ELSE <<>>
  /\ UNCHANGED <<head, held, caps, exact>>

-----------------------------------------------------------------------------
(***************************************************************************)
(* What the keyboard does: a shift key goes down or up, caps lock is       *)
(* struck, a letter is struck, or a byte without a character comes.        *)
(***************************************************************************)
Possible(code) ==
  /\ code \in Shifts => code \notin held
  /\ code - 128 \in Shifts => code - 128 \in held

(***************************************************************************)
(* kbd_int reads bytes until the controller has no more and keeps only the *)
(* last of them in `code'; that one is stored unless it is the release of  *)
(* a lock key or the ring is full.  So a byte is unseen by kb_read if      *)
(* another came after it in the same interrupt, or if the ring was full.   *)
(* The history stops once that happens to a shift or to caps lock, or once *)
(* both shift keys are down, for which there is one variable.              *)
(***************************************************************************)
stores(code) == code # LOCK_UP /\ kb_count < KB_BUF_SIZE

overwritten(bytes) == {bytes[i] : i \in 1..(Len(bytes) - 1)}

unseen(bytes) ==
  overwritten(bytes) \cup (IF stores(Last(bytes)) THEN {} ELSE {Last(bytes)})

Struck(code, missed) ==
  LET down == IF code \in Shifts THEN held \cup {code} ELSE held \ {code - 128}
      lock == IF code = CAPSLOCK THEN ~caps ELSE caps
      char == IF released(code) THEN "none" ELSE map_key(code, down # {}, lock)
      still == exact /\ missed \cap Modifiers = {} /\ down # Shifts
  IN  /\ exact' = still
      /\ held' = IF still THEN down ELSE {}
      /\ caps' = (still /\ lock)
      /\ meant' = IF ~still THEN <<>>
                  ELSE IF stores(code) THEN Append(meant, char) ELSE meant

StoreKey(code) ==
  IF stores(code) THEN buf' = [buf EXCEPT ![head] = code] /\ head' = wrap(head + 1)
                  ELSE UNCHANGED <<buf, head>>

kbd_int(bytes) ==
  LET code == Last(bytes)
  IN  /\ IF code = LOCK_UP THEN KbdSkip ELSE KbdInt
      /\ exact /\ unseen(bytes) \cap Modifiers = {} => Possible(code)
      /\ StoreKey(code)
      /\ Struck(code, unseen(bytes))
      /\ UNCHANGED <<tail, shift, capslock>>

-----------------------------------------------------------------------------
KeyInit == Init /\ kb_init

Unkeyed == UNCHANGED <<lineVars, history>>

KeyProcessStep ==
  \/ TakeKey
  \/ KbRead /\ kb_count = 0 /\ Unkeyed
  \/ (KbWoken \/ DoRead \/ HdWoken \/ ForkCopy \/ ForkDone \/ RetWithSchedule \/ Panic)
       /\ Unkeyed

CpuStep == (Schedule \/ WakeUp \/ RetFromInt) /\ Unkeyed

Tick == ClockInt /\ Unkeyed

KeyNext ==
  \/ KeyProcessStep \/ CpuStep \/ Tick
  \/ \E n \in 1..MaxBytes : \E bytes \in [1..n -> Codes] : kbd_int(bytes)
  \/ (SystemCall \/ HdInt \/ HdError) /\ Unkeyed

(***************************************************************************)
(* The fairness of LiveSpec, but for the drive: what is checked here is    *)
(* about programs that read the keyboard and not the disk.                 *)
(***************************************************************************)
KeySpec ==
  KeyInit /\ [][KeyNext]_keyVars
    /\ SF_keyVars(KeyProcessStep) /\ WF_keyVars(CpuStep)
    /\ SF_keyVars(Tick)

-----------------------------------------------------------------------------
(***************************************************************************)
(* What kb_read returns is the character its key stood for when it was     *)
(* struck, though shift and caps lock are followed only as the bytes are   *)
(* read, often many keys later: in the order of striking, across the end   *)
(* of the ring, whatever interrupts and sleeps lie between, and whichever  *)
(* letters kbd_int lost.  It holds until kbd_int loses a byte of a shift   *)
(* or of caps lock, in its loop or to a full ring, or both shift keys are  *)
(* down (kb.c:73-177).                                                     *)
(***************************************************************************)
KeysAsStruck ==
  [][TakeKey /\ exact => returned(buf[tail]) = Head(meant)]_keyVars
=============================================================================
