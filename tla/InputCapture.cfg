SPECIFICATION Spec
CONSTANTS
  Fingers = {f1, f2}
  Palms = {palm}
  PenTools = {"tip", "eraser"}
  MaxPointers = 3
  Buttons = {"primary", "secondary"}
CHECK_DEADLOCK FALSE
INVARIANT InputInStep
