SYMMETRY Interchangeable
CONSTRAINT Few
SPECIFICATION Spec
CONSTANTS
  u1 = u1  au = au  g1 = g1  s1 = s1  a1 = a1  a2 = a2  r1 = r1  r2 = r2
  Users = {u1, au}
  Groups = {g1}
  Servers = {s1}
  Grants <- MCGrants
  Role <- MCRole
  Paths <- MCPaths
  Reads = {"LIST"}
  Writes = {"UPLOAD"}
  Payloads <- MCPayloads
  Requests <- MCRequests
INVARIANTS TypeOK NothingDangles AccessAgrees DecisionsWereRight
PROPERTIES DeletedStaysDeleted MixedOnlyByOverlap
