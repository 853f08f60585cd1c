CONSTANTS
  a = a
  b = b
  c = c
  d = d
  Node = {a}
  Scenes <- Single
  RunTypes = {"plan"}
  Executions <- Edge
  FloatUp <- Known
SPECIFICATION Spec
INVARIANTS
  WithinShare
