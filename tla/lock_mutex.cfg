\* sab_lock_acquire is a load loop followed by a store: two workers can
\* both see the word at 0 and both enter.
CONSTANTS
  wa = wa
  wb = wb
  Workers <- MCWorkers
  MaxLocks = 1
  MaxReboots = 0
SPECIFICATION Spec
INVARIANT MutualExclusion
