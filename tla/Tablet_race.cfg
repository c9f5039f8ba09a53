SPECIFICATION Spec
CONSTANTS
  ann = ann  ben = ben  kamal = kamal  new = new
  P1 = P1  P2 = P2  N1 = N1  N2 = N2  N3 = N3
  Door = Door  c1 = c1  c2 = c2  w1 = w1  w2 = w2
  User = {ann, kamal, new}
  Name = {N1, N3}
  Pin = {P1, P2}
  Location = {Door}
  Worker = {w1, w2}
  Call = {c1, c2}
  FirstUsers <- Staff
  Bodies <- SwitchBodies
  NewRows <- Hired
  MaxAttempts = 2
  MaxCalls = 4
INVARIANTS FewGuesses SomeAdmin OneLoginEach InOwnName
PROPERTIES EveryPressEnds
CHECK_DEADLOCK FALSE
