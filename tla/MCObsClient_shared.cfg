\* Three goroutines share a client while one logs it out.
CONSTANTS
  Requesters = {r1, r2, r3}
  LoginCallers = {}
  LogoutCallers = {o1}
  Nobody = Nobody
  MaxIssued = 4
  MaxLive = 2
SPECIFICATION Spec
INVARIANTS TypeOK OneLiveToken EmptyCacheMeansLoggedOut AtMostOneRetry
PROPERTIES RetryUsesNewToken NeverDropsLiveToken ImplementsTokenSession
SYMMETRY Symmetry
