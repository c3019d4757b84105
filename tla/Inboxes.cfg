SPECIFICATION ApartSpec
CONSTANTS
  Node = {a, b}
  Request = {r1, r2}
  Capacity = 1
  Stoppable = {b}
CHECK_DEADLOCK FALSE
INVARIANTS TypeOK AnswersOnTheWay
PROPERTY GoroutinesEnd
