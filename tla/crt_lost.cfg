\* Two workers allocating concurrently, as lfs_sys_file_new does outside the disk lock.
CONSTANTS
  wa = wa
  wb = wb
  a1 = a1
  a2 = a2
  null = null
  Workers <- TwoWorkers
  Addrs <- MCAddrs
  Null = null
  MaxByte = 2
  BufLen = 3
  MaxAllocs = 3
  MaxCalls = 4
SPECIFICATION Spec
INVARIANT OwnedRegistered
