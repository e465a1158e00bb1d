------------------------------ MODULE Keyboard ------------------------------
(***************************************************************************)
(* The keyboard interrupt, drivers/keyboard.c: what it keeps of the keys   *)
(* that are down, and the character that a key stands for.                 *)
(*                                                                         *)
(* A key is named by what is printed on it.  Of the keys that print, the   *)
(* table has those that the handler treats alike only once: "a".           *)
(***************************************************************************)
EXTENDS Naturals

CONSTANT Keys                   \* the keys of the keyboard

ASSUME KeyboardAssumption ==
    Keys \subseteq {"a", "u", "l", "enter", "backspace", "lctrl", "lshift", "rshift"}

VARIABLES shift, lshift, rshift, ctrl       \* the state _

kvars == <<shift, lshift, rshift, ctrl>>

Modifiers == {"lctrl", "lshift", "rshift"}

(* The control characters.                                                 *)
LF    == "LF"
KILL  == "CR"
ERASE == "BS"
CLEAR == "DEL"
NUL   == "NUL"                  \* no character

Printable == {"a", "A", "u", "U", "l", "L"}

(* _keymap[key][shifted]; the entries of the modifiers are not looked up.  *)
_keymap(key, shifted) ==
    CASE key = "a"         -> IF shifted THEN "A" ELSE "a"
      [] key = "u"         -> IF shifted THEN "U" ELSE "u"
      [] key = "l"         -> IF shifted THEN "L" ELSE "l"
      [] key = "enter"     -> IF shifted THEN NUL ELSE LF
      [] key = "backspace" -> IF shifted THEN NUL ELSE CLEAR

(* The character that the handler passes on, after the mapping of control  *)
(* characters.                                                             *)
Char(key) ==
    LET c == _keymap(key, shift)
    IN  CASE c = "u" /\ ctrl -> KILL
          [] c = "l" /\ ctrl -> CLEAR
          [] c = CLEAR       -> ERASE
          [] OTHER           -> c

keyboard_init ==
    /\ shift = FALSE /\ lshift = FALSE /\ rshift = FALSE
    /\ ctrl = FALSE

(* A key of Modifiers is pressed (make) or released.                       *)
TrackModifiers(key, make) ==
    /\ ctrl' = IF key = "lctrl" THEN make ELSE ctrl
    /\ lshift' = IF key = "lshift" THEN make ELSE lshift
    /\ rshift' = IF key = "rshift" THEN make ELSE rshift
    /\ shift' = (lshift' \/ rshift')
=============================================================================
