SPECIFICATION Spec
CONSTANTS
  Uploads = {u1}
  Paths = {p1}
  Instances = {i1, i2}
  Requests = {r1, r2}
  MaxSize = 2
  ChunkSize = 2
  NoUpload = NoUpload  NoReq = NoReq  NoFile = NoFile  Foreign = Foreign  NoPath = NoPath  NoInstance = NoInstance
SYMMETRY Interchangeable
INVARIANTS TypeOK AckedBytesDurable WholeUnlessCancelled SuccessIsPublished
PROPERTIES NoSilentOverwrite
CHECK_DEADLOCK FALSE
