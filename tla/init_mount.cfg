\* Three workers call disk() for the first time concurrently.
CONSTANTS
  wa = wa
  wb = wb
  wc = wc
  Workers <- MCWorkers
SPECIFICATION Spec
INVARIANT MountOnce
INVARIANT NoUseBeforeMount
PROPERTY EveryCallReturns
