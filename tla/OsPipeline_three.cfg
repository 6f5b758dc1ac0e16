CONSTANTS
  N = 3
  Capacity = 1
  Volume = 3
SPECIFICATION Spec

INVARIANTS TypeOK NothingLeftOpen NoOrphans OutputComplete
PROPERTIES BrokenPipeIsDownstream KeepsPromise
