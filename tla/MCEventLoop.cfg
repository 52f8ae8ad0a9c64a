SPECIFICATION Spec
CONSTANTS
  Conns = {c1, c2}
  Listener = Listener
  None = None
  Units = 2
  Room = 1
  MaxMessages = 3
  MaxRequests = 1
INVARIANTS
  WriteArmedIffPending
  BatchAlive
  MessagesWhole
PROPERTIES
  OnlyHandlersClose
  BufferedIsSent
  ClosedIsDeleted
