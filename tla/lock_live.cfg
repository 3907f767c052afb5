\* While a worker spins, some worker eventually enters, under weak fairness
\* of workers that acquire without bound, across one sab_lock_reboot.
CONSTANTS
  wa = wa
  wb = wb
  Workers <- MCWorkers
  MaxLocks = 2
  MaxReboots = 1
SPECIFICATION Spec
INVARIANT TypeOK
PROPERTY DeadlockFree
