------------------------------ MODULE Keyboard ------------------------------
(***************************************************************************)
(* keyboard_service and the PS/2 controller.  The controller holds one     *)
(* byte; its interrupt line is high while it does, and interrupt 1 is      *)
(* edge-triggered, so a byte that nobody reads silences the keyboard.  The *)
(* service empties the controller, then reads one byte per interrupt.      *)
(* System calls run with interrupts disabled; an interrupt that became     *)
(* pending in one is taken when the call returns to user mode.             *)
(***************************************************************************)
EXTENDS UserCalls

CONSTANT MaxScancodes      \* how many bytes the keyboard sends at most

VARIABLES
  pc,             \* where the service is; "_in" is inside SYS_PORT_IN
  shift_pressed,
  typed,          \* bytes the keyboard has not yet passed to the controller
  left,           \* how many more bytes the keyboard may send
  held,           \* the shift key is down
  output, full,   \* the controller's output buffer, and status bit 0
  edge,           \* a rising edge of line 1 that the processor has not taken
  sent,           \* the key event sent last
  synced          \* history: a shift byte has been read in the main loop

serviceVars == <<pc, shift_pressed, sent, synced>>
keyVars == <<typed, left, held>>
ps2Vars == <<output, full, edge>>
keyboardVars == <<callVars, serviceVars, keyVars, ps2Vars>>

Service == "keyboard"
Kbd == 1

\* Scancodes: the shift key, a key with a character, a key without one, the
\* prefix E0, and the release of a key other than shift.
ScanCode == {"shift", "unshift", "char", "other", "E0", "released"}

NoEvent == [key |-> 0, modifiers |-> FALSE]

\* Before the kernel has routed line 1 a byte may already have arrived: the
\* edge is gone, the byte is there.
KeyboardInit ==
  /\ CallsInit
  /\ msg_buf = [t \in Threads |-> ZeroMsg]
  /\ pc = "status"
  /\ shift_pressed = FALSE
  /\ typed = <<>> /\ left = MaxScancodes /\ held = FALSE
  /\ output = "released" /\ full \in BOOLEAN /\ edge = FALSE
  /\ sent = NoEvent
  /\ synced = FALSE

-----------------------------------------------------------------------------
(* The keyboard and its controller (external).                             *)

\* A key goes down or up; a key that is held repeats.
Type(c) ==
  /\ left > 0
  /\ c = "unshift" => held
  /\ typed' = Append(typed, c)
  /\ left' = left - 1
  /\ held' = (c = "shift" \/ (held /\ c # "unshift"))
  /\ UNCHANGED <<callVars, serviceVars, ps2Vars>>

\* The next byte moves into the empty output buffer: the line rises.
Load ==
  /\ typed # <<>> /\ ~full
  /\ output' = Head(typed) /\ full' = TRUE /\ edge' = TRUE
  /\ typed' = Tail(typed)
  /\ UNCHANGED <<callVars, serviceVars, left, held>>

\* Reading port 0x60 empties the buffer; an empty one gives its last byte.
ReadData == full' = FALSE /\ UNCHANGED <<output, edge>>

InKernel == pc \in {"status_in", "flush_in", "read_in"}

\* keyboard_interrupt_handler
KeyboardInterrupt ==
  /\ edge /\ ~InKernel
  /\ edge' = FALSE
  /\ UnblockIrq(Kbd)
  /\ UNCHANGED <<serviceVars, keyVars, output, full>>

-----------------------------------------------------------------------------
(* keyboard_service.                                                       *)

\* The service is in user mode: a pending interrupt would be taken first.
EnterKernel(from, to) ==
  /\ pc = from /\ pc' = to
  /\ ~edge /\ ~Blocked(Service)
  /\ UNCHANGED <<shift_pressed, sent, synced>>

\* SYS_PORT_IN of the status, of a byte to discard, or of a scancode.
CallPortIn ==
  /\ EnterKernel("status", "status_in") \/ EnterKernel("flush", "flush_in")
       \/ EnterKernel("read", "read_in")
  /\ UNCHANGED <<callVars, keyVars, ps2Vars>>

\* Mutant: the buffer is taken to be empty.
StatusIgnored ==
  /\ pc = "status_in" /\ pc' = "wait"
  /\ UNCHANGED <<callVars, shift_pressed, sent, synced, keyVars, ps2Vars>>

\* The loop that empties the controller.
Status ==
  /\ pc = "status_in" /\ pc' = IF full THEN "flush" ELSE "wait"
  /\ UNCHANGED <<callVars, shift_pressed, sent, synced, keyVars, ps2Vars>>

Flush ==
  /\ pc = "flush_in" /\ pc' = "status"
  /\ ReadData
  /\ UNCHANGED <<callVars, shift_pressed, sent, synced, keyVars>>

\* sys_wait_irq, which returns at once if an interrupt was remembered.
Wait ==
  /\ EnterKernel("wait", "read")
  /\ WaitIrq(Service, Kbd)
  /\ UNCHANGED <<keyVars, ps2Vars>>

\* Mutant: a shift byte flips the state.
TranslateFlip(c) ==
  /\ shift_pressed' = IF c \in {"shift", "unshift"} THEN ~shift_pressed
                      ELSE shift_pressed
  /\ sent' = IF c = "char" THEN [key |-> 1, modifiers |-> shift_pressed] ELSE sent

\* What becomes of a scancode.  The event goes to handle 4, which is no
\* endpoint (Bootstrap): sys_send returns an error that nobody looks at.
Translate(c) ==
  /\ shift_pressed' = CASE c = "shift" -> TRUE
                        [] c = "unshift" -> FALSE
                        [] OTHER -> shift_pressed
  /\ sent' = IF c = "char" THEN [key |-> 1, modifiers |-> shift_pressed] ELSE sent

Read ==
  /\ pc = "read_in" /\ pc' = "wait"
  /\ ReadData
  /\ Translate(output)
  /\ synced' = (synced \/ output \in {"shift", "unshift"})
  /\ UNCHANGED <<callVars, keyVars>>

ServiceStep == CallPortIn \/ Status \/ Flush \/ Wait \/ Read

KeyboardNext ==
  \/ \E c \in ScanCode : Type(c)
  \/ Load
  \/ KeyboardInterrupt
  \/ ServiceStep

KeyboardSpec == KeyboardInit /\ [][KeyboardNext]_keyboardVars

\* The service is scheduled again and again, the controller passes its bytes
\* on, and a pending interrupt is taken.
FairSpec == KeyboardSpec /\ WF_keyboardVars(ServiceStep) /\ WF_keyboardVars(Load) /\ WF_keyboardVars(KeyboardInterrupt)

-----------------------------------------------------------------------------
\* No byte stays in the controller, so the keyboard is never silenced: not
\* even when it arrived before the service or the interrupt routing existed,
\* between the last look at the status and the first wait, or while the
\* previous one was handled.
NoByteStuck == full ~> ~full

\* Once it has seen the shift key, the service knows its position whenever
\* nothing is on the way.  An interrupt whose byte the start-up loop has
\* discarded makes it read the empty controller, and so handle the last byte
\* again; that does no harm.
ShiftInStep ==
  /\ synced /\ pc = "wait" /\ typed = <<>> /\ ~full /\ ~edge
  => shift_pressed = held
=============================================================================
