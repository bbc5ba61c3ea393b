\* One server, two addresses for each of host and port, two edits at a time.
SPECIFICATION Spec
CONSTANTS
  s1 = s1  r1 = r1  r2 = r2
  Servers = {s1}
  Hosts = {"h1", "h2"}
  Ports = {"22", "2222"}
  Requests <- MCRequests
SYMMETRY Interchangeable
INVARIANTS PinFitsAddress CredentialFits
