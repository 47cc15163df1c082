CONSTANTS
  Producers = {p1, p2}
  Consumers = {c1, c2}
  BufSize = 2
  IntWidth <- MC_NarrowInt
SPECIFICATION Spec
PROPERTY EveryoneProgresses
