\* Two workers: kv calls and calls on the "kv" emitter, in any order.
CONSTANTS
  wa = wa
  wb = wb
  k1 = k1
  k2 = k2
  vx = vx
  vy = vy
  none = none
  Workers <- TwoWorkers
  Keys <- MCKeys
  Vals <- MCVals
  None = none
  Chans <- MCChans
  MaxLimit = 1
  MaxSubs = 2
  MaxKvCalls = 2
  MaxEmitCalls = 2
  MaxReboots = 1
SPECIFICATION Spec
INVARIANT StoreIsReplay
