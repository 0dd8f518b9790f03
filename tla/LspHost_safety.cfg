\* Two clients, the initializer and the stopper race; rust-analyzer may die at any time.
CONSTANTS
  c1 = c1
  c2 = c2
  Clients = {c1, c2}
  Initializer = Initializer
  Stopper = Stopper
  MaxId = 4
  WriterCap = 1
  ServerCap = 1
  PipeCap = 1
  ServerIds = {2}
SPECIFICATION Spec
INVARIANTS TypeOK AnswerIsOwn NoLostAnswer HandshakeFirst
SYMMETRY Symmetry
CHECK_DEADLOCK FALSE
