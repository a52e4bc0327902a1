SPECIFICATION input_Spec
CONSTANTS
  EVQ_CAP = 2
  Ps2Keys = {"enter", "esc"}
  UsbKeys = {"lshift", "a"}
  Shifts = {"lshift", "rshift"}
  Arrows = {"left", "right"}
  Extended = {"left", "right", "rctrl"}
  Chars = {"a"}
  LShift = "lshift"
  Enter = "enter"
  Backspace = "bksp"
  Left = "left"
  Right = "right"
  Rollover = 2
  max_len = 4
INVARIANT ProgramKeysOnly
