SPECIFICATION Spec
CONSTANTS
  EVQ_CAP = 2
  Ps2Keys = {"left", "right", "enter"}
  UsbKeys = {"lshift", "a", "bksp"}
  Shifts = {"lshift", "rshift"}
  Arrows = {"left", "right"}
  Extended = {"left", "right", "rctrl"}
  Chars = {"a"}
  LShift = "lshift"
  Enter = "enter"
  Backspace = "bksp"
  Left = "left"
  Right = "right"
  Rollover = 2
  max_len = 4
  MsPerSecond = 2
  Turns <- MCTurns
  Formats <- MCFormats
  MaxTicks = 3
INVARIANTS TakenOnce LineIsText NoStuckKeys ReadTrue
PROPERTY TicksExact
\* The behaviours of the clock end at its bounds.
CHECK_DEADLOCK FALSE
