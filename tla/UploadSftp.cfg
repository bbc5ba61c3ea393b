SPECIFICATION BoundedSpec
CONSTANTS
  u1 = u1  u2 = u2  r1 = r1  r2 = r2  pm = pm  pn = pn  pr = pr
  Uploads <- MCUploads
  Requests <- MCRequests
  Paths = {pm, pn, pr}
  AdapterOf <- MCAdapterOf
  MaxSize = 2
  ChunkSize = 2
  NoUpload = NoUpload  NoReq = NoReq  NoFile = NoFile  Foreign = Foreign
INVARIANTS TypeOK AckedBytesDurable CompletedExactlyOnce LocksOrdered
PROPERTIES NoSilentOverwrite PublishesAtomically RequestsFinish
