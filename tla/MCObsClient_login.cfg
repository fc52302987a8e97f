\* Two goroutines call Login on a client at the same time.
CONSTANTS
  Requesters = {}
  LoginCallers = {l1, l2}
  LogoutCallers = {}
  Nobody = Nobody
  MaxIssued = 3
  MaxLive = 3
SPECIFICATION Spec
INVARIANTS OneLiveToken
