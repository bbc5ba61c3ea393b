\* The first administrator and one more account, two sessions, two requests at a
\* time.  Sessions are used up, so the instance comes to rest.
SPECIFICATION Spec
CONSTANTS
  root = root  u1 = u1  s1 = s1  s2 = s2  r1 = r1  r2 = r2
  Users = {root, u1}
  Root = root
  Sessions <- MCSessions
  Requests <- MCRequests
SYMMETRY Interchangeable
INVARIANTS TypeOK
PROPERTIES EntryIsCurrent OnlyAdminsDecide
CHECK_DEADLOCK FALSE
