------------------------------- MODULE Input --------------------------------
(***************************************************************************)
(* Keyboard input: the PS/2 handler kb_callback and the USB keyboard       *)
(* reports (drivers/usbhid.c), which both feed a single pending scancode   *)
(* and the event queue; the line editor getline and the commands of the    *)
(* shell, which take the pending scancode with interrupts enabled; and the *)
(* programs, which poll the queue.                                         *)
(*                                                                         *)
(* A scancode is a key and whether it is a make or a break code.           *)
(***************************************************************************)
EXTENDS EventQueue, FiniteSets, SequencesExt

CONSTANTS
  Ps2Keys, UsbKeys,  \* the keys of the two keyboards
  Shifts,            \* the shift keys, LShift among them
  Arrows,            \* the arrow keys
  Extended,          \* the keys whose PS/2 codes have the prefix E0
  Chars,             \* the keys that type a character
  LShift, Enter, Backspace, Left, Right,
  Rollover,          \* the keys one USB report can hold
  max_len            \* the size of the shell's line buffer

Keys == Ps2Keys \cup UsbKeys

ASSUME InputConstants ==
  /\ LShift \in Shifts /\ {Left, Right} \subseteq Arrows
  /\ Arrows \subseteq Extended /\ Shifts \cap Extended = {}
  /\ Rollover \in Nat /\ max_len \in Nat \ {0}

VARIABLES
  kbd,     \* cur_scancode, e0_prefix and ev_shift of drivers/keyboard.c
  evq,     \* the event queue
  ps2,     \* the keys held down on the PS/2 keyboard, but for the extended ones
  wire,    \* the second byte of an extended key, if it is still to come
  usb,     \* the keys held down on the USB keyboard, as last reported
  reader,  \* the shell: its program counter, the scancode it read, shift_pressed
  line,    \* getline's buffer, length and cursor
  text,    \* what an ideal editor has before and after the cursor
  fresh,   \* has nobody read the pending scancode yet?
  lost,    \* has an event been dropped since the queue was last flushed?
  seen     \* the keys that are down according to the events pushed for a program

inputVars == <<kbd, evq, ps2, wire, usb, reader, line, text, fresh, lost, seen>>

Code(k, up) == [key |-> k, up |-> up]
Make(k)     == Code(k, FALSE)
Break(k)    == Code(k, TRUE)
None        == Make("none")

IsArrow(sc) == sc.key \in Arrows /\ ~sc.up

-----------------------------------------------------------------------------
(* The driver.                                                             *)

(* Of an event the model keeps whether it is older than the program that   *)
(* polls; of the events pushed for that program, which keys they leave     *)
(* down, as long as none is dropped (a break code is EV_KEY_UP).           *)
Apply(down, sc) == IF sc.up THEN down \ {sc.key} ELSE down \cup {sc.key}

Pushed(codes) ==
  LET polled == reader.pc = "program" IN
  /\ evq' = evq_push(evq, [i \in DOMAIN codes |-> IF polled THEN "new" ELSE "old"])
  /\ lost' = (lost \/ Drops(evq, codes))
  /\ seen' = IF polled /\ ~lost' THEN FoldLeft(Apply, seen, codes) ELSE {}

kbd_push_event(shift, sc) == IF sc.key \in Shifts THEN ~sc.up ELSE shift

PlainByte(sc) ==
  /\ kbd' = [kbd EXCEPT !.cur_scancode = sc, !.ev_shift = kbd_push_event(@, sc)]
  /\ fresh' = TRUE
  /\ Pushed(<<sc>>)

(* After E0 only the make codes of the arrows count, but an arrow that is  *)
(* still pending is pushed again whatever the extended key was.            *)
ExtendedByte(sc) ==
  LET cur == IF IsArrow(sc) THEN sc ELSE kbd.cur_scancode IN
  /\ kbd' = [kbd EXCEPT !.e0_prefix = FALSE, !.cur_scancode = cur]
  /\ fresh' = (fresh \/ IsArrow(sc))
  /\ Pushed(IF ~sc.up /\ IsArrow(cur) THEN <<cur>> ELSE <<>>)

PrefixByte ==
  /\ kbd' = [kbd EXCEPT !.e0_prefix = TRUE]
  /\ UNCHANGED <<evq, fresh, lost, seen>>

(* A key goes down, repeats or comes up; each byte is an interrupt.        *)
KeyMoves(k, up) ==
  /\ wire = <<>>
  /\ up => k \in ps2 \cup Extended
  /\ ps2' = IF up THEN ps2 \ {k} ELSE ps2 \cup ({k} \ Extended)
  /\ IF k \in Extended THEN PrefixByte /\ wire' = <<Code(k, up)>>
                       ELSE PlainByte(Code(k, up)) /\ wire' = wire

kb_callback ==
  /\ \/ \E k \in Ps2Keys, up \in BOOLEAN : KeyMoves(k, up)
     \/ /\ wire # <<>> /\ kbd.e0_prefix
        /\ ExtendedByte(Head(wire))
        /\ wire' = <<>> /\ UNCHANGED ps2
  /\ UNCHANGED <<usb, reader, line, text>>

kbd_inject_scancode(k, sc) ==
  [k EXCEPT !.cur_scancode = IF @ = None THEN sc ELSE @,
            !.ev_shift = kbd_push_event(@, sc)]

(* What a report says: the shift bits, and the other keys unless there are *)
(* too many of them.                                                       *)
ShiftBit(held)   == held \cap Shifts # {}
ReportKeys(held) == LET ks == held \ Shifts IN IF Cardinality(ks) > Rollover THEN {} ELSE ks

ShiftCodes(prev, curr) ==
  IF ShiftBit(prev) = ShiftBit(curr) THEN <<>> ELSE <<Code(LShift, ShiftBit(prev))>>

(* Of the keys a report adds only the first is passed on.                  *)
NewKey(prev, curr) ==
  LET new == ReportKeys(curr) \ ReportKeys(prev) IN
  IF new = {} THEN {<<>>} ELSE {<<Make(k)>> : k \in new}

(* Mutant: as for new keys, only the first release is passed on.           *)
FirstReleased(prev, curr) ==
  LET gone == (ReportKeys(prev) \ ReportKeys(curr)) \ Arrows IN
  IF gone = {} THEN {<<>>} ELSE {<<Break(k)>> : k \in gone}

(* Of the keys it no longer has all are, except the arrows.                *)
Released(prev, curr) ==
  {[i \in DOMAIN s |-> Break(s[i])] : s \in SetToSeqs((ReportKeys(prev) \ ReportKeys(curr)) \ Arrows)}

process_kbd_report(held) ==
  \E new \in NewKey(usb, held), up \in Released(usb, held) :
    LET codes == ShiftCodes(usb, held) \o new \o up IN
    /\ kbd' = FoldLeft(kbd_inject_scancode, kbd, codes)
    /\ fresh' = (fresh \/ (kbd.cur_scancode = None /\ codes # <<>>))
    /\ Pushed(codes)

(* SET_IDLE(0): the keyboard reports changes only.                         *)
usbhid_poll ==
  /\ \E held \in SUBSET UsbKeys \ {usb} : usb' = held /\ process_kbd_report(held)
  /\ UNCHANGED <<ps2, wire, reader, line, text>>

-----------------------------------------------------------------------------
(* The line editor.                                                        *)

Empty == [buf |-> [i \in 0..max_len-1 |-> 0], len |-> 0, cursor_pos |-> 0]
Blank == [before |-> <<>>, after |-> <<>>]

(* Mutant: the loop runs upwards and copies one character all the way.     *)
ShiftUpwards(l) ==
  FoldLeft(LAMBDA b, i : [b EXCEPT ![i] = b[i-1]], l.buf,
           [n \in 1..(l.len - l.cursor_pos) |-> l.cursor_pos + n])

(* The two loops that shift the buffer, one cell at a time.  What is left  *)
(* in a cell past the end of the line is never read, so Delete clears it.  *)
ShiftRight(l) ==
  FoldLeft(LAMBDA b, i : [b EXCEPT ![i] = b[i-1]], l.buf,
           [n \in 1..(l.len - l.cursor_pos) |-> l.len + 1 - n])

ShiftLeft(l) ==
  FoldLeft(LAMBDA b, i : [b EXCEPT ![i] = b[i+1]], l.buf,
           [n \in 1..(l.len - l.cursor_pos) |-> l.cursor_pos + n - 2])

Insert(l, c) ==
  IF l.len < max_len - 1
  THEN [buf |-> [ShiftRight(l) EXCEPT ![l.cursor_pos] = c], len |-> l.len + 1, cursor_pos |-> l.cursor_pos + 1]
  ELSE l

Delete(l) ==
  IF l.cursor_pos > 0
  THEN [buf |-> [ShiftLeft(l) EXCEPT ![l.len - 1] = 0], len |-> l.len - 1, cursor_pos |-> l.cursor_pos - 1]
  ELSE l

CursorLeft(l)  == IF l.cursor_pos > 0 THEN [l EXCEPT !.cursor_pos = @ - 1] ELSE l
CursorRight(l) == IF l.cursor_pos < l.len THEN [l EXCEPT !.cursor_pos = @ + 1] ELSE l

Edit(l, sc, c) ==
  IF sc.up THEN l
  ELSE CASE sc.key = Left      -> CursorLeft(l)
         [] sc.key = Right     -> CursorRight(l)
         [] sc.key = Backspace -> Delete(l)
         [] sc.key \in Chars   -> Insert(l, c)
         [] OTHER              -> l

(* The same keys given to an editor that keeps two sequences.              *)
Ideal(t, sc, c) ==
  LET b == t.before  a == t.after IN
  IF sc.up THEN t
  ELSE CASE sc.key = Left /\ b # <<>>      -> [before |-> Front(b), after |-> <<Last(b)>> \o a]
         [] sc.key = Right /\ a # <<>>     -> [before |-> Append(b, Head(a)), after |-> Tail(a)]
         [] sc.key = Backspace /\ b # <<>> -> [t EXCEPT !.before = Front(b)]
         [] sc.key \in Chars /\ Len(b) + Len(a) < max_len - 1 -> [t EXCEPT !.before = Append(b, c)]
         [] OTHER                          -> t

(* getline reads the pending scancode and clears it with interrupts        *)
(* enabled: what an interrupt stores in between is cleared unread.  The    *)
(* line that Enter ends is gone when the next one starts.                  *)
GetlineRead ==
  /\ reader.pc = "wait" /\ kbd.cur_scancode # None
  /\ reader' = [reader EXCEPT !.pc = "clear", !.sc = kbd.cur_scancode]
  /\ fresh' = FALSE
  /\ UNCHANGED <<kbd, evq, ps2, wire, usb, line, text, lost, seen>>

(* Mutant: the scancode stays pending.                                     *)
LeftPending == UNCHANGED kbd /\ fresh' = FALSE

Cleared == kbd' = [kbd EXCEPT !.cur_scancode = None] /\ fresh' = FALSE

getline ==
  LET sc == reader.sc  c == <<sc.key, reader.shift_pressed>> IN
  /\ reader.pc = "clear"
  /\ Cleared
  /\ reader' = [pc |-> IF sc = Make(Enter) THEN "command" ELSE "wait", sc |-> None,
                shift_pressed |-> IF sc.key \in Shifts THEN ~sc.up ELSE reader.shift_pressed]
  /\ line' = IF sc = Make(Enter) THEN Empty ELSE Edit(line, sc, c)
  /\ text' = IF sc = Make(Enter) THEN Blank ELSE Ideal(text, sc, c)
  /\ UNCHANGED <<evq, ps2, wire, usb, lost, seen>>

-----------------------------------------------------------------------------
(* The shell between two lines, and the programs it runs.                  *)

At(pc) == reader' = [reader EXCEPT !.pc = pc, !.sc = None]

Prompt ==
  /\ reader.pc = "command"
  /\ At("wait")
  /\ UNCHANGED <<kbd, evq, ps2, wire, usb, line, text, fresh, lost, seen>>

(* get_cur_scancode, in the commands that wait for a key.                  *)
GetCurRead ==
  /\ reader.pc = "command"
  /\ reader' = [reader EXCEPT !.pc = "take"]
  /\ fresh' = FALSE
  /\ UNCHANGED <<kbd, evq, ps2, wire, usb, line, text, lost, seen>>

get_cur_scancode ==
  /\ reader.pc = "take"
  /\ Cleared /\ At("command")
  /\ UNCHANGED <<evq, ps2, wire, usb, line, text, lost, seen>>

(* wm and exec leave the queue as it is, uidemo flushes it.                *)
RunProgram ==
  /\ reader.pc = "command"
  /\ At("program") /\ seen' = {}
  /\ UNCHANGED <<kbd, evq, ps2, wire, usb, line, text, fresh, lost>>

event_init ==
  /\ reader.pc = "command"
  /\ At("program") /\ seen' = {}
  /\ evq' = <<>> /\ lost' = FALSE
  /\ UNCHANGED <<kbd, ps2, wire, usb, line, text, fresh>>

event_poll ==
  /\ reader.pc = "program" /\ evq # <<>>
  /\ evq' = Tail(evq)
  /\ UNCHANGED <<kbd, ps2, wire, usb, reader, line, text, fresh, lost, seen>>

ProgramEnds ==
  /\ reader.pc = "program"
  /\ At("command") /\ seen' = {} /\ evq' = [i \in DOMAIN evq |-> "old"]
  /\ UNCHANGED <<kbd, ps2, wire, usb, line, text, fresh, lost>>

-----------------------------------------------------------------------------
input_Init ==
  /\ kbd = [cur_scancode |-> None, e0_prefix |-> FALSE, ev_shift |-> FALSE]
  /\ evq = <<>> /\ ps2 = {} /\ wire = <<>> /\ usb = {}
  /\ reader = [pc |-> "wait", sc |-> None, shift_pressed |-> FALSE]
  /\ line = Empty /\ text = Blank
  /\ fresh = FALSE /\ lost = FALSE /\ seen = {}

input_Next ==
  \/ kb_callback \/ usbhid_poll
  \/ GetlineRead \/ getline
  \/ Prompt \/ GetCurRead \/ get_cur_scancode
  \/ RunProgram \/ event_init \/ event_poll \/ ProgramEnds

input_Spec == input_Init /\ [][input_Next]_inputVars

-----------------------------------------------------------------------------
(* Properties.                                                             *)

(* A keystroke is never taken twice: the scancode that getline or          *)
(* get_cur_scancode finds pending is one that nobody has read, although it *)
(* is read and cleared in two steps and three handlers write it.           *)
TakenOnce ==
  kbd.cur_scancode # None /\ reader.pc \notin {"clear", "take"} => fresh

(* Whatever is inserted and deleted in the middle of a line, getline's     *)
(* buffer is the text, and its cursor the place, of an ideal editor, and   *)
(* the terminating zero still fits.                                        *)
LineIsText ==
  /\ line.len < max_len
  /\ text.before \o text.after = [i \in 1..line.len |-> line.buf[i-1]]
  /\ line.cursor_pos = Len(text.before)

HeldKeys == ps2 \cup usb \cup (IF ShiftBit(usb) THEN {LShift} ELSE {})

(* No key sticks: while no event is dropped, a program that has polled all *)
(* of the queue takes no key for held that is held on neither keyboard,    *)
(* and the shift state of the characters is only on while a shift is held. *)
(* The arrows have no EV_KEY_UP.                                           *)
NoStuckKeys ==
  /\ seen \ Arrows \subseteq HeldKeys
  /\ kbd.ev_shift => ShiftBit(HeldKeys)

(* What the comment of the wm command says: the shell reads its keystrokes *)
(* through the event queue, so a program polls none that it already took.  *)
ProgramKeysOnly == reader.pc = "program" => \A i \in DOMAIN evq : evq[i] = "new"
=============================================================================
