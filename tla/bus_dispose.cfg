\* Two workers allocating, sending, broadcasting, freeing and disposing
\* buses: a recycled bus must come without an earlier owner's messages.
CONSTANTS
  wa = wa
  wb = wb
  Workers <- MCWorkers
  Values <- MCValues
  Empty = ""
  MaxBuses = 2
  MaxCalls = 3
  MaxReboots = 1
SPECIFICATION Spec
INVARIANT NoStaleMessages
