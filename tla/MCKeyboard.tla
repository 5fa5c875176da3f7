----------------------------- MODULE MCKeyboard -----------------------------
(***************************************************************************)
(* Instances of Keyboard for TLC.  Keys: 29 and 157 left and right Ctrl,   *)
(* 42 left Shift, 58 CapsLock, 69 NumLock, 30 the letter a, 3 the digit 2, *)
(* 71 the 7 on the pad, 199 Home, 256 Pause.                               *)
(***************************************************************************)
EXTENDS Keyboard
=============================================================================
