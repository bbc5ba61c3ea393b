\* One administrator, one session, one request.
SPECIFICATION Spec
CONSTANTS
  root = root  u1 = u1  s1 = s1  s2 = s2  r1 = r1  r2 = r2
  Users = {root, u1}
  Root = root
  Sessions = {s1}
  Requests = {r1}
INVARIANTS SomeAdminActive
CHECK_DEADLOCK FALSE
