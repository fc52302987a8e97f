\* Calls, logins and logouts under the fairness of timeouts and sync.Mutex.
CONSTANTS
  Requesters = {r1, r2}
  LoginCallers = {l1}
  LogoutCallers = {o1}
  Nobody = Nobody
  MaxIssued = 2
  MaxLive = 2
SPECIFICATION FairSpec
PROPERTIES EveryOperationReturns
