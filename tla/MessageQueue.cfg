CONSTANTS
  Threads = {t1, t2, t3}
  Messages = {a, b}
  Capacity = 2
  NoMessage = NoMessage
  NoCall = NoCall
  NoThread = NoThread
SPECIFICATION Spec
CHECK_DEADLOCK FALSE
SYMMETRY Symmetry
INVARIANTS TypeOK NobodyStranded
PROPERTY BoxAbstraction
