CONSTANTS
  Keys = {"a", "enter", "esc", "dn", "rshift", "rctrl", "caps", "prtsc"}
  MaxStrokes = 4
  WireLen = 1
  CMD_BUF_SIZE = 3
  MENU_ITEMS = 2
SPECIFICATION Spec
INVARIANTS ModifiersTrue TypedAsMeant DeafOnlyAtStart
PROPERTIES DeliveredOnce KeyIsTaken
CHECK_DEADLOCK FALSE
