SPECIFICATION MCSpec
CHECK_DEADLOCK FALSE
CONSTANTS
  a = a
  b = b
  x = x
  y = y
  Device = {a, b}
  Other = other
  Bystander = TRUE
  Past <- MCPast
  Known = {"new", "same", "supersede", "rejected"}
  Box = {x, y}
  NoBox = nobox
  Foul = foul
  MaxPresses = 1
INVARIANTS
  ProvenAlive
  MailboxesCross
PROPERTIES
  RefusalStands
