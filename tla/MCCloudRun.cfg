CONSTANTS
  web = web  c1 = c1  c2 = c2  p1 = p1  p2 = p2  auto = auto  named = named  none = none
  Services = {web}
  Inputs <- MCInputs
  Masks <- MCMasks
  Tokens = {TRUE, FALSE}
  Members = {"allUsers"}
  Conns = {c1, c2}
  Ports = {p1, p2}
  Pids = {1, 2, 3, 4, 5}
  Unnamed = auto
  None = none
  Docker = TRUE
  Strict = TRUE
  MaxUids = 2
  MaxGeneration = 2
SPECIFICATION Spec
SYMMETRY Symmetry
INVARIANTS  AnswersStand
