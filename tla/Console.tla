------------------------------ MODULE Console -------------------------------
(***************************************************************************)
(* The line input of drivers/console.c: console_put_ibuf(), called by the  *)
(* keyboard interrupt, against a program that prints its prompt and calls  *)
(* console_get_line() for ever.                                            *)
(*                                                                         *)
(* The handler runs with interrupts off and is one step.  The program goes *)
(* step by step, pc is the place in the code, and an interrupt can come    *)
(* between any two steps while the keyboard line is not masked.            *)
(*                                                                         *)
(* Of the screen this is kept: whether the prompt is on it, which          *)
(* characters of the input follow it, and the cursor.  A character that    *)
(* the program prints moves the cursor in several steps, since the loads   *)
(* and stores of _curs_forward() and _line_feed() can be interrupted.      *)
(* Colours and what is in each cell are left out; the prompt is one        *)
(* character.                                                              *)
(***************************************************************************)
EXTENDS Keyboard, SequencesExt

CONSTANTS
    IBUF_SIZE,      \* size of the input buffer
    BUF_LEN,        \* size of the buffer of the caller of console_get_line()
    VGA_NUM_COLS, VGA_NUM_ROWS,     \* 80 and 25
    UINT8_MOD       \* 256, of curs_x and curs_y

(* The row before row 0 is well below the screen.                          *)
ASSUME ConsoleAssumption ==
    /\ IBUF_SIZE \in Nat \ {0}
    /\ {BUF_LEN, UINT8_MOD} \subseteq Nat
    /\ {VGA_NUM_COLS, VGA_NUM_ROWS} \subseteq 2..(UINT8_MOD - 2)

VARIABLES
    ibuf,           \* the memory of the input buffer
    widx,           \* how many characters are in it
    line_completed, \* Enter has been pressed
    cleared,        \* the screen has been cleared
    masked,         \* the keyboard line is masked in the interrupt controller
    pc,             \* the place of the program
    i,              \* the loop variable of _display_ibuf()
    buf,            \* the line that console_get_line() returned last
    prompted,       \* the prompt is on the screen
    shown,          \* the input on the screen
    curs_x, curs_y, \* the cursor
    fault,          \* it has got to where no memory is mapped
    moving,         \* where the program is in moving it
    reg             \* what it has loaded to that end

input   == <<ibuf, widx, line_completed>>
cursor  == <<curs_x, curs_y, fault>>
screen  == <<prompted, shown>>
vars    == <<kvars, input, screen, cleared, masked, pc, i, buf, cursor, moving, reg>>

Ibuf == SubSeq([k \in 1..IBUF_SIZE |-> ibuf[k - 1]], 1, widx)

-----------------------------------------------------------------------------
(* The cursor: where it is after ...                                       *)

(* Faulty variant of _line_feed: the last row is left without scrolling.   *)
_line_feed_unscrolled(c) == [c EXCEPT !.x = 0, !.y = (@ + 1) % UINT8_MOD]

_line_feed(c) ==
    LET y == (c.y + 1) % UINT8_MOD
    IN  [c EXCEPT !.x = 0, !.y = IF y = VGA_NUM_ROWS THEN VGA_NUM_ROWS - 1 ELSE y]

_curs_forward(c) ==
    LET x == (c.x + 1) % UINT8_MOD
    IN  IF x = VGA_NUM_COLS THEN _line_feed(c) ELSE [c EXCEPT !.x = x]

(* Row 255 comes before row 0.                                             *)
_curs_backward(c) ==
    IF c.x = 0
    THEN [c EXCEPT !.x = VGA_NUM_COLS - 1, !.y = (@ - 1) % UINT8_MOD]
    ELSE [c EXCEPT !.x = @ - 1]

(* _putc_attr(): the page that is mapped for the video memory (paging.c:   *)
(* 108) ends in the row below the screen, and beyond it is a page fault.   *)
Put(c) == _curs_forward([c EXCEPT !.fault = @ \/ c.y > VGA_NUM_ROWS])

(* A character is replaced by a blank.                                     *)
Erased(c) == _curs_backward(Put(_curs_backward(c)))

Cursor == [x |-> curs_x, y |-> curs_y, fault |-> fault]

MoveTo(c) == curs_x' = c.x /\ curs_y' = c.y /\ fault' = c.fault

-----------------------------------------------------------------------------
(* The interrupt                                                           *)

(* Faulty variant of _ibuf_is_full: off by one.                            *)
_ibuf_is_full_late == widx > IBUF_SIZE

_ibuf_is_full == widx = IBUF_SIZE

DropLast(s) == IF s = << >> THEN s ELSE Front(s)

(* Faulty variant of _del_ibuf: a completed line is edited.                *)
_del_ibuf_completed ==
    /\ widx' = IF widx = 0 THEN widx ELSE widx - 1
    /\ shown' = IF widx = 0 THEN shown ELSE DropLast(shown)
    /\ MoveTo(IF widx = 0 THEN Cursor ELSE Erased(Cursor))
    /\ UNCHANGED <<ibuf, line_completed, cleared, prompted>>

(* Nothing is deleted from a completed line.                               *)
_del_ibuf ==
    /\ LET deletes == ~line_completed /\ widx > 0
       IN  /\ widx' = IF deletes THEN widx - 1 ELSE widx
           /\ shown' = IF deletes THEN DropLast(shown) ELSE shown
           /\ MoveTo(IF deletes THEN Erased(Cursor) ELSE Cursor)
    /\ UNCHANGED <<ibuf, line_completed, cleared, prompted>>

(* The cursor after n times _del_ibuf().                                   *)
Killed[n \in 0..IBUF_SIZE] == IF n = 0 THEN Cursor ELSE Erased(Killed[n - 1])

(* _del_ibuf() until it has nothing to delete.                             *)
_kill ==
    /\ IF line_completed THEN UNCHANGED <<widx, shown, cursor>>
       ELSE /\ widx' = 0
            /\ shown' = SubSeq(shown, 1, Len(shown) - widx)
            /\ MoveTo(Killed[widx])
    /\ UNCHANGED <<ibuf, line_completed, cleared, prompted>>

console_clear ==
    /\ cleared' = TRUE
    /\ prompted' = FALSE
    /\ shown' = << >>
    /\ MoveTo([Cursor EXCEPT !.x = 0, !.y = 0])
    /\ UNCHANGED input

(* Enter.                                                                  *)
Complete ==
    /\ line_completed' = TRUE
    /\ MoveTo(_line_feed(Cursor))
    /\ UNCHANGED <<ibuf, widx, cleared, screen>>

(* A printable character; it is echoed and stored if there is room.        *)
Store(c) ==
    /\ IF _ibuf_is_full THEN UNCHANGED <<ibuf, widx, shown, cursor>>
       ELSE /\ ibuf' = [ibuf EXCEPT ![widx] = c]
            /\ widx' = widx + 1
            /\ shown' = Append(shown, c)
            /\ MoveTo(Put(Cursor))
    /\ UNCHANGED <<line_completed, cleared, prompted>>

console_put_ibuf(c) ==
    CASE c = LF    -> Complete
      [] c = KILL  -> _kill
      [] c = ERASE -> _del_ibuf
      [] c = CLEAR -> console_clear
      [] OTHER     -> Store(c)

(* Any interrupt ends halt().                                              *)
keyboard_isr(key, make) ==
    /\ ~masked
    /\ TrackModifiers(key, make)
    /\ IF make /\ key \notin Modifiers /\ Char(key) # NUL
       THEN console_put_ibuf(Char(key))
       ELSE UNCHANGED <<input, cleared, screen, cursor>>
    /\ pc' = IF pc = "halted" THEN "loop" ELSE pc
    /\ UNCHANGED <<masked, i, buf, moving, reg>>

-----------------------------------------------------------------------------
(* The program                                                             *)

(* A step of the program from one place to another, the cursor being still.*)
At(here, there) == pc = here /\ moving = "not" /\ pc' = there
Still == UNCHANGED <<cursor, moving, reg>>

(* _putc() of a character: it is written, and curs_x + 1 is computed.      *)
Advance == moving' = "forward" /\ reg' = (curs_x + 1) % UINT8_MOD /\ UNCHANGED cursor

(* The rest of _curs_forward(): curs_x is stored, ...                      *)
Forward ==
    /\ moving = "forward"
    /\ curs_x' = reg
    /\ moving' = IF reg = VGA_NUM_COLS THEN "feed" ELSE "not"
    /\ reg' = 0
    /\ UNCHANGED <<curs_y, fault>>

(* ... in _line_feed() it becomes 0, curs_y + 1 is computed, ...           *)
FeedColumn ==
    /\ moving = "feed" /\ moving' = "row"
    /\ curs_x' = 0
    /\ UNCHANGED <<curs_y, fault, reg>>

FeedRow ==
    /\ moving = "row" /\ moving' = "store"
    /\ reg' = (curs_y + 1) % UINT8_MOD
    /\ UNCHANGED cursor

(* ... and stored, ...                                                     *)
FeedStore ==
    /\ moving = "store"
    /\ curs_y' = reg
    /\ moving' = IF reg = VGA_NUM_ROWS THEN "scroll" ELSE "not"
    /\ reg' = 0
    /\ UNCHANGED <<curs_x, fault>>

(* ... and if it was the last row the screen scrolls.                      *)
Scroll ==
    /\ moving = "scroll" /\ moving' = "not"
    /\ curs_y' = VGA_NUM_ROWS - 1
    /\ UNCHANGED <<curs_x, fault, reg>>

MoveCursor ==
    /\ Forward \/ FeedColumn \/ FeedRow \/ FeedStore \/ Scroll
    /\ UNCHANGED <<kvars, input, screen, cleared, masked, pc, i, buf>>

(* The program prints its prompt.                                          *)
Prompt ==
    /\ At("prompt", "get_line")
    /\ prompted' = TRUE
    /\ Advance
    /\ UNCHANGED <<kvars, input, shown, cleared, masked, i, buf>>

(* console_get_line() begins.                                              *)
GetLine ==
    /\ moving = "not" /\ pc = "get_line"
    /\ IF cleared THEN pc' = "display" /\ i' = 0 ELSE pc' = "loop" /\ UNCHANGED i
    /\ Still
    /\ UNCHANGED <<kvars, input, screen, cleared, masked, buf>>

(* The loop of _display_ibuf(): the test, then the character.              *)
DisplayTest ==
    /\ moving = "not" /\ pc = "display"
    /\ pc' = IF i < widx THEN "display_char" ELSE "displayed"
    /\ Still
    /\ UNCHANGED <<kvars, input, screen, cleared, masked, i, buf>>

DisplayChar ==
    /\ At("display_char", "display")
    /\ shown' = Append(shown, ibuf[i])
    /\ i' = i + 1
    /\ Advance
    /\ UNCHANGED <<kvars, input, prompted, cleared, masked, buf>>

Displayed ==
    /\ At("displayed", "loop")
    /\ cleared' = FALSE
    /\ Still
    /\ UNCHANGED <<kvars, input, screen, masked, i, buf>>

(* Faulty variant of DisableIrq: the line is not masked.                   *)
DisableIrq_open ==
    /\ At("loop", "test")
    /\ Still
    /\ UNCHANGED <<kvars, input, screen, cleared, masked, i, buf>>

DisableIrq ==
    /\ At("loop", "test")
    /\ masked' = TRUE
    /\ Still
    /\ UNCHANGED <<kvars, input, screen, cleared, i, buf>>

(* Faulty variant of Test: cleared is looked at first.                     *)
Test_cleared_first ==
    /\ moving = "not" /\ pc = "test"
    /\ pc' = IF cleared THEN "return"
             ELSE IF line_completed THEN "copy" ELSE "enable"
    /\ Still
    /\ UNCHANGED <<kvars, input, screen, cleared, masked, i, buf>>

(* Faulty variant of Test: cleared is not looked at.                       *)
Test_uncleared ==
    /\ moving = "not" /\ pc = "test"
    /\ pc' = IF line_completed THEN "copy" ELSE "enable"
    /\ Still
    /\ UNCHANGED <<kvars, input, screen, cleared, masked, i, buf>>

Test ==
    /\ moving = "not" /\ pc = "test"
    /\ pc' = IF line_completed THEN "copy"
             ELSE IF cleared THEN "return" ELSE "enable"
    /\ Still
    /\ UNCHANGED <<kvars, input, screen, cleared, masked, i, buf>>

(* console_get_line() returns 1, with nothing.                             *)
ReturnNothing ==
    /\ At("return", "prompt")
    /\ masked' = FALSE
    /\ Still
    /\ UNCHANGED <<kvars, input, screen, cleared, i, buf>>

EnableIrq ==
    /\ At("enable", "halt")
    /\ masked' = FALSE
    /\ Still
    /\ UNCHANGED <<kvars, input, screen, cleared, i, buf>>

Halt ==
    /\ At("halt", "halted")
    /\ Still
    /\ UNCHANGED <<kvars, input, screen, cleared, masked, i, buf>>

Copy ==
    /\ At("copy", "reset")
    /\ buf' = SubSeq(Ibuf, 1, IF BUF_LEN < widx THEN BUF_LEN ELSE widx)
    /\ Still
    /\ UNCHANGED <<kvars, input, screen, cleared, masked, i>>

(* _reset_ibuf(); console_get_line() returns 0, with the line still masked.*)
Reset ==
    /\ At("reset", "prompt")
    /\ widx' = 0
    /\ line_completed' = FALSE
    /\ shown' = << >>
    /\ Still
    /\ UNCHANGED <<kvars, ibuf, prompted, cleared, masked, i, buf>>

-----------------------------------------------------------------------------
(* After console_init(), which clears the screen and enables the keyboard. *)
Init ==
    /\ keyboard_init
    /\ ibuf = [k \in 0..(IBUF_SIZE - 1) |-> NUL]
    /\ widx = 0
    /\ line_completed = FALSE
    /\ cleared = TRUE
    /\ masked = FALSE
    /\ pc = "prompt"
    /\ i = 0
    /\ buf = << >>
    /\ prompted = FALSE
    /\ shown = << >>
    /\ curs_x = 0 /\ curs_y = 0 /\ fault = FALSE
    /\ moving = "not" /\ reg = 0

Program ==
    /\ ~fault
    /\ \/ MoveCursor
       \/ Prompt \/ GetLine \/ DisplayTest \/ DisplayChar \/ Displayed
       \/ DisableIrq \/ Test \/ ReturnNothing \/ EnableIrq \/ Halt
       \/ Copy \/ Reset

Interrupt == ~fault /\ \E key \in Keys, make \in BOOLEAN : keyboard_isr(key, make)

Next == Program \/ Interrupt

(* exception_handler() does not return.                                    *)
Stopped == fault /\ UNCHANGED vars

Spec == Init /\ [][Next \/ Stopped]_vars

(* The processor runs the program, and whoever waits at the keyboard       *)
(* presses or releases some key now and then.                              *)
FairSpec == Spec /\ WF_vars(Program) /\ SF_vars(Interrupt)
-----------------------------------------------------------------------------
(* Properties                                                              *)

Places == {"prompt", "get_line", "display", "display_char", "displayed", "loop",
           "test", "return", "enable", "halt", "halted", "copy", "reset"}

(* The types of the variables; the index never leaves the input buffer     *)
(* (console.c:70-74, :209).                                                *)
TypeOK ==
    /\ {shift, lshift, rshift, ctrl} \subseteq BOOLEAN
    /\ ibuf \in [0..(IBUF_SIZE - 1) -> Printable \cup {NUL}]
    /\ widx \in 0..IBUF_SIZE
    /\ {line_completed, cleared, masked, prompted, fault} \subseteq BOOLEAN
    /\ pc \in Places
    /\ i \in 0..IBUF_SIZE
    /\ buf \in Seq(Printable)
    /\ shown \in Seq(Printable \cup {NUL})
    /\ {curs_x, curs_y, reg} \subseteq 0..(UINT8_MOD - 1)
    /\ moving \in {"not", "forward", "feed", "row", "store", "scroll"}

(* What console_get_line() takes out of the input buffer it has given to   *)
(* its caller, as far as there is room: no key is handled between the copy *)
(* and the reset (console.c:255-273).                                      *)
NothingLost ==
    [][line_completed /\ ~line_completed'
        => buf = SubSeq(Ibuf, 1, IF BUF_LEN < widx THEN BUF_LEN ELSE widx)]_vars

(* Once Enter is pressed the line stays as it is until it is taken: what   *)
(* is typed later can only follow it (console.c:217).                      *)
LineKept ==
    [][line_completed /\ line_completed' => IsPrefix(Ibuf, Ibuf')]_vars

(* A completed line is returned, even if Enter is pressed just before the  *)
(* processor halts (console.c:262-263); unless the cursor leads astray.    *)
LineReturned == line_completed ~> pc = "reset" \/ fault

(* console_get_line() waits for the input, or is about to return.          *)
Waiting == pc \in {"loop", "test", "return", "enable", "halt", "halted", "copy", "reset"}

(* When the screen is cleared while the program waits, it gets control     *)
(* back and prints its prompt again, even if the clear comes just before   *)
(* the processor halts (console.c:257-259).  A clear that comes earlier,   *)
(* before the assignment at console.c:251, is forgotten there: what comes  *)
(* of it is ScreenShowsInput.                                              *)
ClearReturns == cleared /\ Waiting ~> pc = "prompt" \/ fault

(* However the program and the interrupt get in each other's way, once the *)
(* program has moved the cursor it is on the screen; whatever has been lost *)
(* of a move, a line feed in the last row scrolls (console.c:33-68).       *)
CursorOnScreen ==
    moving = "not" /\ ~fault => curs_x < VGA_NUM_COLS /\ curs_y < VGA_NUM_ROWS

(* console.c:249, "display the already-entered input again", and :259,     *)
(* "return the control to get the prompt displayed": while the program     *)
(* waits the screen has the prompt and the input, once.                    *)
ScreenShowsInput ==
    pc = "halted" /\ ~cleared => prompted /\ shown = Ibuf
=============================================================================
