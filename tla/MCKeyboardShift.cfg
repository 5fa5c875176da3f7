\* A Shift that is pressed is never released.
SPECIFICATION Spec
CONSTANTS
  Keys = {29, 30, 42, 58}
  TTY_BUF_SIZE = 1
  Nested = FALSE
  Waiting = FALSE
  MaxHeld = 2
  MaxWire = 4
  Nil = Nil
INVARIANTS ModifiersAreHeld
