\* One worker: every allocator shim call in any order, and every string shim on every pair of buffers.
CONSTANTS
  wa = wa
  wb = wb
  a1 = a1
  a2 = a2
  null = null
  Workers <- OneWorker
  Addrs <- MCAddrs
  Null = null
  MaxByte = 2
  BufLen = 3
  MaxAllocs = 3
  MaxCalls = 4
SPECIFICATION Spec
INVARIANT OwnedRegistered
INVARIANT StringShimsMatchC
