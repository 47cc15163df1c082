CONSTANTS
  Producers = {p1, p2}
  Consumers = {c1, c2}
  BufSize = 2
  IntWidth <- MC_WideInt
SPECIFICATION Spec
CONSTRAINT MC_BelowOverflow
SYMMETRY MC_Symmetry
INVARIANT TypeOK
INVARIANT MutualExclusion
INVARIANT BufferConsistent
PROPERTY FifoDelivery
