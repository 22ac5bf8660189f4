------------------------------ MODULE Keyboard ------------------------------
(***************************************************************************)
(* The keyboard driver (keyboard.c) with the text screen it echoes on      *)
(* (framebuffer.c) and the shell that polls it (main of user-shell.c).     *)
(*                                                                         *)
(* Three parties interleave. The keyboard controller puts a scancode in    *)
(* its data port and raises the interrupt line; it offers the next one     *)
(* when the port has been read. The interrupt handler turns the scancode   *)
(* into a character in a buffer of ONE character and echoes it. The shell  *)
(* polls that buffer, collects a line, runs it and switches input on       *)
(* again. System calls and the handler run behind interrupt gates and are  *)
(* one step each.                                                          *)
(***************************************************************************)
EXTENDS Integers, Sequences, SequencesExt

CONSTANTS
    MAX_ROW, MAX_COLUMN,   \* the screen, 25 x 80
    IndexSize,             \* values of buffer_index, a uint8_t
    Letters, Symbols,      \* keys that give a character; CKey is the c key
    Shiftable,             \* symbols with an entry in shift_map
    CKey,
    Pressed,               \* keys that are pressed in an instance
    MaxLine,               \* bound: characters on one line, typed or collected
    MaxArrows,             \* bound: arrow keys pressed
    MaxOutputColumn,       \* bound: columns a command prints before a line feed
    MaxScroll,             \* bound: rows a command scrolls past its line
    MaxCursorRow           \* bound: row the cursor may leave the screen to

ASSUME KeyboardAssumption ==
    /\ MAX_ROW \in Nat /\ MAX_ROW > 1
    /\ MAX_COLUMN \in Nat /\ MAX_COLUMN > 1
    /\ IndexSize \in Nat /\ IndexSize > 1
    /\ CKey \in Letters /\ Shiftable \subseteq Symbols
    /\ MaxArrows \in Nat /\ MaxOutputColumn \in Nat /\ MaxScroll \in Nat /\ MaxCursorRow \in Nat
    /\ MaxLine \in 1 .. (MAX_ROW - 1) * MAX_COLUMN   \* a line stays on the screen

VARIABLES
    port,         \* scancode in the controller's data port, or NoKey
    irq,          \* IRQ 1 is latched in the interrupt controller
    in_service,   \* IRQ 1 was delivered and not acknowledged
    keyboard,     \* keyboard_state
    fb,           \* framebuffer_state and the visible cells
    pc,           \* the shell: "poll" or "run"
    temp_buf,     \* the line the shell has collected
    buf,          \* the line it runs
    typed,        \* auxiliary: the line as typed and corrected on the screen
    arrows,       \* auxiliary: arrow keys pressed so far
    history       \* auxiliary: what has gone wrong before

controller == <<port, irq, in_service>>
shell == <<pc, temp_buf, buf>>
vars == <<port, irq, in_service, keyboard, fb, pc, temp_buf, buf, typed,
          arrows, history>>
-----------------------------------------------------------------------------
NoKey == "no key"
Modifiers == {"capslock", "shift", "shift up", "ctrl", "ctrl up"}
Arrows == {"left", "right", "up", "down"}
CharKeys == Letters \cup Symbols
\* "other" stands for scancodes without a character, key releases included.
OtherKeys == {"backspace", "enter", "other"}
Keys == Modifiers \cup Arrows \cup CharKeys \cup OtherKeys

ASSUME KeysDistinct == CharKeys \cap (Modifiers \cup Arrows \cup OtherKeys \cup {NoKey}) = {}

\* A character is its key and whether it is the shifted one.
Chars == CharKeys \X BOOLEAN
ZERO == <<"zero">>
BACKSPACE == <<"backspace">>
NEWLINE == <<"newline">>

\* Visible cells, numbered row * MAX_COLUMN + column. OLD is what was there
\* before the current line, or what a command printed or cleared.
Cells == 0 .. MAX_ROW * MAX_COLUMN - 1
BLANK == <<"blank">>
OLD == <<"old">>

KeyboardDriverState ==
    [keyboard_input_on : BOOLEAN, capslock_on : BOOLEAN, shift_on : BOOLEAN,
     ctrl_on : BOOLEAN, buffer_index : 0 .. IndexSize - 1,
     keyboard_buffer : Chars \cup {ZERO, BACKSPACE, NEWLINE}]
FramebufferState ==
    [cur_row : Int, cur_col : Int, start_row : Int, start_col : Int,
     cells : [Cells -> Chars \cup {BLANK, OLD}]]

\* kernel_setup has switched input on and interrupts are enabled; the shell
\* is about to print its banner.
Init ==
    /\ port = NoKey /\ irq = FALSE /\ in_service = FALSE
    /\ keyboard = [keyboard_input_on |-> TRUE, capslock_on |-> FALSE,
                   shift_on |-> FALSE, ctrl_on |-> FALSE, buffer_index |-> 0,
                   keyboard_buffer |-> ZERO]
    /\ fb = [cur_row |-> 0, cur_col |-> 0, start_row |-> 0, start_col |-> 0,
             cells |-> [p \in Cells |-> OLD]]
    /\ pc = "run" /\ temp_buf = <<>> /\ buf = <<>>
    /\ typed = <<>> /\ arrows = 0 /\ history = {}
-----------------------------------------------------------------------------
(* The screen.                                                             *)

\* What lies outside the visible cells is never scrolled back in.
framebuffer_write(f, row, col, c) ==
    [f EXCEPT !.cells = [p \in Cells |->
                            IF p = row * MAX_COLUMN + col THEN c ELSE @[p]]]

scroll_up(f) ==
    LET row == f.cur_row - 1
        moved == [p \in Cells |-> IF p + MAX_COLUMN \in Cells
                                  THEN f.cells[p + MAX_COLUMN] ELSE f.cells[p]]
    IN  [f EXCEPT !.cur_row = row, !.start_row = @ - 1,
                  !.cells = [p \in Cells |-> IF p \div MAX_COLUMN = row
                                             THEN BLANK ELSE moved[p]]]

\* Mutant: the screen does not scroll.
NeverScroll(f) == f

ScrollIfFull(f) == IF f.cur_row = MAX_ROW THEN scroll_up(f) ELSE f

\* The while loop at the end of putchar: so many times scroll_up, but for the
\* cells, which putchar marks as old.
ScrollWhileFull(f) ==
    LET times == IF f.cur_row >= MAX_ROW THEN f.cur_row - MAX_ROW + 1 ELSE 0
    IN  [f EXCEPT !.cur_row = @ - times, !.start_row = @ - times]

NextLine(f) == [f EXCEPT !.cur_row = @ + 1, !.cur_col = 0]

\* What a command prints is not told apart from what was on the screen.
AllOld == [p \in Cells |-> OLD]
putchar(f, c) ==
    LET g == IF f.cur_col = MAX_COLUMN - 1 \/ c = NEWLINE
             THEN ScrollWhileFull(NextLine(f))
             ELSE [f EXCEPT !.cur_col = @ + 1]
    IN  [g EXCEPT !.cells = AllOld]

\* The echo of a typed character.
Echo(f, c) ==
    LET g == IF f.cur_col >= MAX_COLUMN THEN NextLine(f) ELSE f
        h == framebuffer_write(g, g.cur_row, g.cur_col, c)
    IN  ScrollIfFull([h EXCEPT !.cur_col = @ + 1])

\* Mutant: the column does not go back to the end of the row above.
EraseInRow(f) ==
    LET g == [f EXCEPT !.cur_col = IF @ = 0 THEN 0 ELSE @ - 1]
    IN  framebuffer_write(g, g.cur_row, g.cur_col, BLANK)

\* The echo of a backspace.
Erase(f) ==
    LET g == CASE f.cur_col > 0 -> [f EXCEPT !.cur_col = @ - 1]
               [] f.cur_col = 0 /\ f.cur_row > 0 ->
                      [f EXCEPT !.cur_row = @ - 1, !.cur_col = MAX_COLUMN - 1]
               [] OTHER -> [f EXCEPT !.cur_row = 0, !.cur_col = 0]
    IN  framebuffer_write(g, g.cur_row, g.cur_col, BLANK)

\* A column left of 0 is only reached by the left arrow, which corrects it.
get_current_buffer_index ==
    (fb.cur_col - fb.start_col + (fb.cur_row - fb.start_row) * MAX_COLUMN) % IndexSize

Moved(k) ==
    CASE k = "left" /\ get_current_buffer_index # 0 ->
             IF fb.cur_col = 0
             THEN [fb EXCEPT !.cur_col = MAX_COLUMN - 1, !.cur_row = @ - 1]
             ELSE [fb EXCEPT !.cur_col = @ - 1]
      [] k = "right" ->
             IF fb.cur_col + 1 = MAX_COLUMN THEN NextLine(fb)
             ELSE [fb EXCEPT !.cur_col = @ + 1]
      [] k = "up" /\ fb.cur_row > fb.start_row -> [fb EXCEPT !.cur_row = @ - 1]
      [] k = "down" /\ fb.cur_row < MAX_ROW - 1 -> [fb EXCEPT !.cur_row = @ + 1]
      [] OTHER -> fb
-----------------------------------------------------------------------------
(* The controller and the interrupt.                                       *)

\* A key arrives in the data port and its interrupt is latched. The
\* controller waits until the previous scancode has been read.
Press(k) ==
    /\ port = NoKey /\ k \in Pressed
    /\ k \in CharKeys => Len(typed) < MaxLine /\ Len(temp_buf) < MaxLine
    /\ k \in Arrows => arrows < MaxArrows
    /\ k = "enter" => fb.cur_row < MaxCursorRow
    /\ port' = k
    /\ irq' = TRUE
    /\ UNCHANGED <<in_service, keyboard, fb, shell, typed, arrows, history>>

Interrupt == irq /\ ~in_service /\ irq' = FALSE

\* The handler's return: pic_ack ends the service of the interrupt.
pic_ack == in_service' = FALSE

\* Mutant: a return without pic_ack.
NoAck == in_service' = TRUE

\* Every scancode that has no character leaves through this early return.
ReturnWithoutChar == pic_ack

Read == keyboard.keyboard_input_on /\ port' = NoKey

\* Input is off: the data port is not read.
IsrOff ==
    /\ Interrupt
    /\ ~keyboard.keyboard_input_on
    /\ keyboard' = [keyboard EXCEPT !.buffer_index = 0]
    /\ history' = history \cup {"missed"}
    /\ pic_ack
    /\ UNCHANGED <<port, fb, shell, typed, arrows>>

IsrModifier ==
    /\ Interrupt /\ Read
    /\ port \in Modifiers \cup {"other"}
    /\ keyboard' = CASE port = "capslock" -> [keyboard EXCEPT !.capslock_on = ~@]
                     [] port \in {"shift", "shift up"} ->
                            [keyboard EXCEPT !.shift_on = (port = "shift")]
                     [] port \in {"ctrl", "ctrl up"} ->
                            [keyboard EXCEPT !.ctrl_on = (port = "ctrl")]
                     [] OTHER -> keyboard
    /\ ReturnWithoutChar
    /\ UNCHANGED <<fb, shell, typed, arrows, history>>

IsrArrow ==
    /\ Interrupt /\ Read
    /\ port \in Arrows
    /\ fb' = Moved(port)
    /\ arrows' = arrows + 1
    /\ ReturnWithoutChar
    /\ UNCHANGED <<keyboard, shell, typed, history>>

\* Storing a character replaces one the shell has not fetched. Input is on
\* while the shell prints its banner, and the buffer survives the activation.
Stored ==
    history' = history \cup (IF keyboard.keyboard_buffer = ZERO THEN {} ELSE {"overwritten"})
                       \cup (IF pc = "run" THEN {"typed ahead"} ELSE {})

IsrCtrlC ==
    /\ Interrupt /\ Read
    /\ port = CKey /\ keyboard.ctrl_on
    /\ keyboard' = [keyboard EXCEPT !.keyboard_input_on = FALSE]
    /\ pic_ack
    /\ UNCHANGED <<fb, shell, typed, arrows, history>>

IsrBackspace ==
    /\ Interrupt /\ Read
    /\ port = "backspace"
    /\ IF keyboard.buffer_index > 0
       THEN /\ keyboard' = [keyboard EXCEPT !.buffer_index = @ - 1,
                                            !.keyboard_buffer = BACKSPACE]
            /\ fb' = Erase(fb)
            /\ typed' = SubSeq(typed, 1, Len(typed) - 1)
            /\ Stored
       ELSE UNCHANGED <<keyboard, fb, typed, history>>
    /\ pic_ack
    /\ UNCHANGED <<shell, arrows>>

\* Mutant: input stays on after Enter.
EnteredListening == [keyboard EXCEPT !.keyboard_buffer = NEWLINE]

Entered == [keyboard EXCEPT !.keyboard_buffer = NEWLINE, !.keyboard_input_on = FALSE]

IsrEnter ==
    /\ Interrupt /\ Read
    /\ port = "enter"
    /\ keyboard' = Entered
    /\ fb' = ScrollIfFull(NextLine(fb))
    /\ Stored
    /\ pic_ack
    /\ UNCHANGED <<shell, typed, arrows>>

\* The character of a key under the modifiers.
ascii_char(k) ==
    <<k, IF k \in Letters THEN keyboard.capslock_on # keyboard.shift_on
         ELSE keyboard.shift_on /\ k \in Shiftable>>

\* Mutant: the index does not wrap.
NextIndexWide(i) == i + 1

\* buffer_index++, on a uint8_t.
NextIndex(i) == (i + 1) % IndexSize

IsrChar ==
    /\ Interrupt /\ Read
    /\ port \in CharKeys
    /\ ~(port = CKey /\ keyboard.ctrl_on)
    /\ keyboard' = [keyboard EXCEPT !.keyboard_buffer = ascii_char(port),
                                    !.buffer_index = NextIndex(@)]
    /\ fb' = Echo(fb, ascii_char(port))
    /\ typed' = Append(typed, ascii_char(port))
    /\ Stored
    /\ pic_ack
    /\ UNCHANGED <<shell, arrows>>

keyboard_isr ==
    IsrOff \/ IsrModifier \/ IsrArrow \/ IsrCtrlC \/ IsrBackspace \/ IsrEnter \/ IsrChar
-----------------------------------------------------------------------------
(* The shell.                                                              *)

\* Mutant: the buffer keeps the character.
Unfetched == keyboard

\* get_keyboard_buffer when it returns 0.
Fetched == [keyboard EXCEPT !.keyboard_buffer = ZERO]

Collect(c) ==
    IF c # BACKSPACE THEN Append(temp_buf, c)
    ELSE IF temp_buf = <<>> THEN <<>> ELSE Front(temp_buf)

Poll ==
    /\ pc = "poll"
    /\ keyboard.keyboard_buffer # ZERO
    /\ keyboard' = Fetched
    /\ IF keyboard.keyboard_buffer = NEWLINE
       THEN pc' = "run" /\ buf' = temp_buf /\ temp_buf' = <<>>
       ELSE temp_buf' = Collect(keyboard.keyboard_buffer) /\ UNCHANGED <<pc, buf>>
    /\ UNCHANGED <<controller, fb, typed, arrows, history>>

\* With an empty buffer get_keyboard_buffer returns -1 and the shell asks again.
PollEmpty ==
    /\ pc = "poll"
    /\ keyboard.keyboard_buffer = ZERO
    /\ UNCHANGED vars

\* A command prints characters and line feeds, or clears the screen.
Output ==
    /\ pc = "run" /\ fb.start_row > -MaxScroll
    /\ \/ fb' = putchar(fb, NEWLINE)
       \/ fb.cur_col < MaxOutputColumn /\ fb' = putchar(fb, OLD)
       \/ fb' = [fb EXCEPT !.cur_row = 0, !.cur_col = 0, !.cells = AllOld]
    /\ UNCHANGED <<controller, keyboard, shell, typed, arrows, history>>

\* The end of a command: clear_buf and keyboard_state_activate, which keeps
\* a character left in the buffer.
Activate ==
    /\ pc = "run"
    /\ pc' = "poll" /\ buf' = <<>>
    /\ keyboard' = [keyboard EXCEPT !.buffer_index = 0, !.keyboard_input_on = TRUE,
                        !.shift_on = FALSE, !.capslock_on = FALSE, !.ctrl_on = FALSE]
    /\ fb' = [fb EXCEPT !.start_row = fb.cur_row, !.start_col = fb.cur_col,
                        !.cells = AllOld]
    /\ typed' = <<>>
    /\ UNCHANGED <<controller, temp_buf, arrows, history>>

Next ==
    \/ \E k \in Keys : Press(k)
    \/ keyboard_isr
    \/ Poll \/ PollEmpty \/ Output \/ Activate

\* A pending interrupt is delivered, the shell keeps polling, and its
\* commands come to an end.
Fairness == WF_vars(keyboard_isr) /\ WF_vars(Poll) /\ WF_vars(Activate)

Spec == Init /\ [][Next]_vars /\ Fairness
-----------------------------------------------------------------------------
(* Properties.                                                             *)

\* Every variable holds a value of its declared type.
TypeOK ==
    /\ port \in Keys \cup {NoKey}
    /\ irq \in BOOLEAN /\ in_service \in BOOLEAN
    /\ keyboard \in KeyboardDriverState
    /\ fb \in FramebufferState
    /\ pc \in {"poll", "run"}
    /\ temp_buf \in Seq(Chars) /\ buf \in Seq(Chars) /\ typed \in Seq(Chars)
    /\ arrows \in 0 .. MaxArrows
    /\ history \subseteq {"missed", "overwritten", "typed ahead"}

\* What the shell has, with the character it has yet to fetch applied.
Pending ==
    IF keyboard.keyboard_buffer \in {ZERO, NEWLINE} THEN temp_buf
    ELSE Collect(keyboard.keyboard_buffer)

\* As long as no key has overwritten another and none was typed before the
\* shell was ready, the line the shell collects (get_keyboard_buffer and the
\* poll loop of main) is the line on the screen, corrections included, and
\* the line it runs is the line that was entered.
ShellHasLine ==
    history \cap {"overwritten", "typed ahead"} = {} =>
        IF pc = "poll" THEN Pending = typed ELSE buf = typed

Position(row, col) == row * MAX_COLUMN + col
Start == Position(fb.start_row, fb.start_col)

\* The cursor has only been moved by what is printed at the prompt and typed
\* after it. (Without the condition on keys typed during the banner the
\* column can pass MAX_COLUMN, which putchar tests for equality.)
Undisturbed == arrows = 0 /\ "typed ahead" \notin history

\* While a line is typed without arrow keys the handler's cursor arithmetic
\* (wrapping, scrolling, backspacing over a row's edge) keeps the line on the
\* screen: the cursor is right behind it and every character is in its cell.
\* Only one in column 0 may be missing: scroll_up clears it when the line
\* wraps on the last row.
LineOnScreen ==
    Undisturbed /\ pc = "poll" /\ keyboard.keyboard_input_on =>
        /\ Start >= 0
        /\ Position(fb.cur_row, fb.cur_col) = Start + Len(typed)
        /\ \A i \in DOMAIN typed :
              LET p == Start + i - 1
              IN  \/ fb.cells[p] = typed[i]
                  \/ fb.cells[p] = BLANK /\ p % MAX_COLUMN = 0

\* Without arrow keys the cursor is on the screen, also while a command
\* prints; the column behind the last one is where a full row waits.
CursorOnScreen ==
    Undisturbed => /\ fb.cur_row \in 0 .. MAX_ROW - 1
                   /\ fb.cur_col \in 0 .. MAX_COLUMN

\* The handler serves every key whose interrupt is raised: it acknowledges on
\* each of its paths and reads the port, unless a key came while input was off.
KeyServed == (port # NoKey) ~> (port = NoKey \/ "missed" \in history)

\* Enter is never lost between the handler and the shell, since the handler
\* switches input off with it: the shell runs the line.
EnterRuns ==
    (keyboard.keyboard_buffer = NEWLINE /\ pc = "poll" /\ "typed ahead" \notin history)
        ~> (pc = "run")

\* keyboard.h: the handler "will start listen and process keyboard scancode if
\* keyboard_input_on".
ListensWhenOn ==
    (keyboard.keyboard_input_on /\ port # NoKey)
        ~> (port = NoKey \/ ~keyboard.keyboard_input_on)
=============================================================================
