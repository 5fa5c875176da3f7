\* What holds of the driver as it is, one byte at a time.
SPECIFICATION Spec
CONSTANTS
  Keys = {29, 30, 42, 58, 69, 71, 157, 199}
  TTY_BUF_SIZE = 1
  Nested = FALSE
  Waiting = FALSE
  MaxHeld = 2
  MaxWire = 4
  Nil = Nil
INVARIANTS LeftCtrlIsHeld
PROPERTIES LocksFollowKeys TypedUnlessAmbiguous
