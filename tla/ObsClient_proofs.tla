--------------------------- MODULE ObsClient_proofs ---------------------------
(***************************************************************************)
(* Proofs about ObsClient, for any number of goroutines and tokens.        *)
(***************************************************************************)
EXTENDS ObsClient, TLAPS

\* Tokens in the client's hands were issued; the one in a /login reply has
\* been seen by no caller yet.
TokensIssued ==
  /\ authToken \in 0..issued
  /\ \A c \in Callers : tok[c] \in 0..issued /\ fresh[c] \in 0..issued
  /\ \A c \in Callers : fresh[c] # NoToken => pc[c] = "loginReply"
  /\ \A c \in Callers :
       pc[c] = "loginReply" => (status[c] = "200" <=> fresh[c] # NoToken)
  /\ \A c, d \in Callers : fresh[d] # NoToken => tok[c] # fresh[d]
  /\ \A d \in Callers : fresh[d] # NoToken => authToken # fresh[d]

\* Where a call is tells how many requests it has sent, and a call that is to
\* retry has a rejected token behind it that is no longer cached.
RetryInv ==
  \A c \in Callers :
    /\ sent[c] <= 2
    /\ pc[c] \in {"idle", "login", "logout", "logoutSent", "logoutReply"} => sent[c] = 0
    /\ pc[c] \in {"ensure", "loginSent", "loginReply", "invalidate"} => sent[c] <= 1
    /\ pc[c] \in {"ensure", "loginSent", "loginReply"} /\ sent[c] = 1 =>
         authToken = NoToken \/ authToken # tok[c]

\* A rejected token stays dead.
RejectedInv ==
  \A c \in Callers :
    pc[c] = "invalidate" \/ (pc[c] = "response" /\ status[c] = "401") =>
      tok[c] \notin live

\* While nobody calls the exported Login, a login is in flight only with an
\* empty cache, and a logout only with the cached token.
SessionInv ==
  /\ \A c \in Callers : pc[c] \in {"loginSent", "loginReply"} => authToken = NoToken
  /\ \A c \in Callers :
       pc[c] \in {"logoutSent", "logoutReply"} => authToken # NoToken /\ tok[c] = authToken
  /\ \A c \in Callers : pc[c] # "login"
  /\ \A t \in Accountable :
       t = authToken \/ \E c \in Callers : pc[c] = "loginReply" /\ fresh[c] = t

GInv == TypeOK /\ TokensIssued /\ RetryInv /\ RejectedInv

-------------------------------------------------------------------------------
\* Every step of Spec, one disjunct at a time: what the induction steps below
\* split on.
LEMMA NextCases ==
  ASSUME Next
  PROVE  \/ \E c \in Callers :
              \/ StartCall(c) \/ StartLogin(c) \/ StartLogout(c)
              \/ UseCached(c) \/ EnsureLogin(c) \/ Login(c)
              \/ InvalidateToken(c) \/ LogoutNothing(c) \/ LogoutSend(c)
              \/ LoginSucceeds(c) \/ LoginFails(c) \/ LoginLost(c)
              \/ CallDone(c) \/ CallRejected(c) \/ CallLost(c)
              \/ LogoutDone(c) \/ LogoutLost(c)
              \/ GrantLogin(c) \/ RefuseLogin(c)
              \/ ServeRequest(c) \/ ServeLogout(c)
         \/ \E t \in Tokens : Expire(t)
  BY DEF Next, Acquire, Receive, Serve

\* Type correctness and the mutual exclusion in it are inductive.
LEMMA TypeStep ==
  ASSUME TypeOK, [Next]_vars
  PROVE  TypeOK'
<1> USE CallersAssumption, BoundsAssumption
<1> USE DEF Return, Send, Goto, Reply, client, locals, server, TypeOK, Critical, Waiting, Sending, Statuses, Tokens, NoToken
<1>1. ASSUME NEW c \in Callers, StartCall(c) PROVE TypeOK'
  BY <1>1 DEF StartCall
<1>2. ASSUME NEW c \in Callers, StartLogin(c) PROVE TypeOK'
  BY <1>2 DEF StartLogin
<1>3. ASSUME NEW c \in Callers, StartLogout(c) PROVE TypeOK'
  BY <1>3 DEF StartLogout
<1>4. ASSUME NEW c \in Callers, UseCached(c) PROVE TypeOK'
  BY <1>4 DEF UseCached
<1>5. ASSUME NEW c \in Callers, EnsureLogin(c) PROVE TypeOK'
  BY <1>5 DEF EnsureLogin
<1>6. ASSUME NEW c \in Callers, Login(c) PROVE TypeOK'
  BY <1>6 DEF Login
<1>7. ASSUME NEW c \in Callers, InvalidateToken(c) PROVE TypeOK'
  BY <1>7 DEF InvalidateToken
<1>8. ASSUME NEW c \in Callers, LogoutNothing(c) PROVE TypeOK'
  BY <1>8 DEF LogoutNothing
<1>9. ASSUME NEW c \in Callers, LogoutSend(c) PROVE TypeOK'
  BY <1>9 DEF LogoutSend
<1>10. ASSUME NEW c \in Callers, LoginSucceeds(c) PROVE TypeOK'
  BY <1>10 DEF LoginSucceeds
<1>11. ASSUME NEW c \in Callers, LoginFails(c) PROVE TypeOK'
  BY <1>11 DEF LoginFails
<1>12. ASSUME NEW c \in Callers, LoginLost(c) PROVE TypeOK'
  BY <1>12 DEF LoginLost
<1>13. ASSUME NEW c \in Callers, CallDone(c) PROVE TypeOK'
  BY <1>13 DEF CallDone
<1>14. ASSUME NEW c \in Callers, CallRejected(c) PROVE TypeOK'
  BY <1>14 DEF CallRejected
<1>15. ASSUME NEW c \in Callers, CallLost(c) PROVE TypeOK'
  BY <1>15 DEF CallLost
<1>16. ASSUME NEW c \in Callers, LogoutDone(c) PROVE TypeOK'
  BY <1>16 DEF LogoutDone
<1>17. ASSUME NEW c \in Callers, LogoutLost(c) PROVE TypeOK'
  BY <1>17 DEF LogoutLost
<1>18. ASSUME NEW c \in Callers, GrantLogin(c) PROVE TypeOK'
  BY <1>18 DEF GrantLogin
<1>19. ASSUME NEW c \in Callers, RefuseLogin(c) PROVE TypeOK'
  BY <1>19 DEF RefuseLogin
<1>20. ASSUME NEW c \in Callers, ServeRequest(c) PROVE TypeOK'
  BY <1>20 DEF ServeRequest
<1>21. ASSUME NEW c \in Callers, ServeLogout(c) PROVE TypeOK'
  BY <1>21 DEF ServeLogout
<1>22. ASSUME NEW t \in Tokens, Expire(t) PROVE TypeOK'
  BY <1>22 DEF Expire
<1>23. CASE UNCHANGED vars
  BY <1>23 DEF vars
<1> QED
  BY NextCases, <1>1, <1>2, <1>3, <1>4, <1>5, <1>6, <1>7, <1>8, <1>9, <1>10, <1>11, <1>12, <1>13, <1>14, <1>15, <1>16, <1>17, <1>18, <1>19, <1>20, <1>21, <1>22, <1>23

\* A token reaches the caller that logged in before anyone else can have it.
LEMMA TokensIssuedStep ==
  ASSUME TypeOK, TokensIssued, [Next]_vars
  PROVE  TokensIssued'
<1> USE CallersAssumption, BoundsAssumption
<1> USE DEF Return, Send, Goto, Reply, client, locals, server, TypeOK, Critical, Waiting, Sending, Statuses, Tokens, NoToken, TokensIssued
<1>1. ASSUME NEW c \in Callers, StartCall(c) PROVE TokensIssued'
  BY <1>1 DEF StartCall
<1>2. ASSUME NEW c \in Callers, StartLogin(c) PROVE TokensIssued'
  BY <1>2 DEF StartLogin
<1>3. ASSUME NEW c \in Callers, StartLogout(c) PROVE TokensIssued'
  BY <1>3 DEF StartLogout
<1>4. ASSUME NEW c \in Callers, UseCached(c) PROVE TokensIssued'
  BY <1>4 DEF UseCached
<1>5. ASSUME NEW c \in Callers, EnsureLogin(c) PROVE TokensIssued'
  BY <1>5 DEF EnsureLogin
<1>6. ASSUME NEW c \in Callers, Login(c) PROVE TokensIssued'
  BY <1>6 DEF Login
<1>7. ASSUME NEW c \in Callers, InvalidateToken(c) PROVE TokensIssued'
  BY <1>7 DEF InvalidateToken
<1>8. ASSUME NEW c \in Callers, LogoutNothing(c) PROVE TokensIssued'
  BY <1>8 DEF LogoutNothing
<1>9. ASSUME NEW c \in Callers, LogoutSend(c) PROVE TokensIssued'
  BY <1>9 DEF LogoutSend
<1>10. ASSUME NEW c \in Callers, LoginSucceeds(c) PROVE TokensIssued'
  BY <1>10 DEF LoginSucceeds
<1>11. ASSUME NEW c \in Callers, LoginFails(c) PROVE TokensIssued'
  BY <1>11 DEF LoginFails
<1>12. ASSUME NEW c \in Callers, LoginLost(c) PROVE TokensIssued'
  BY <1>12 DEF LoginLost
<1>13. ASSUME NEW c \in Callers, CallDone(c) PROVE TokensIssued'
  BY <1>13 DEF CallDone
<1>14. ASSUME NEW c \in Callers, CallRejected(c) PROVE TokensIssued'
  BY <1>14 DEF CallRejected
<1>15. ASSUME NEW c \in Callers, CallLost(c) PROVE TokensIssued'
  BY <1>15 DEF CallLost
<1>16. ASSUME NEW c \in Callers, LogoutDone(c) PROVE TokensIssued'
  BY <1>16 DEF LogoutDone
<1>17. ASSUME NEW c \in Callers, LogoutLost(c) PROVE TokensIssued'
  BY <1>17 DEF LogoutLost
<1>18. ASSUME NEW c \in Callers, GrantLogin(c) PROVE TokensIssued'
  BY <1>18 DEF GrantLogin
<1>19. ASSUME NEW c \in Callers, RefuseLogin(c) PROVE TokensIssued'
  BY <1>19 DEF RefuseLogin
<1>20. ASSUME NEW c \in Callers, ServeRequest(c) PROVE TokensIssued'
  BY <1>20 DEF ServeRequest
<1>21. ASSUME NEW c \in Callers, ServeLogout(c) PROVE TokensIssued'
  BY <1>21 DEF ServeLogout
<1>22. ASSUME NEW t \in Tokens, Expire(t) PROVE TokensIssued'
  BY <1>22 DEF Expire
<1>23. CASE UNCHANGED vars
  BY <1>23 DEF vars
<1> QED
  BY NextCases, <1>1, <1>2, <1>3, <1>4, <1>5, <1>6, <1>7, <1>8, <1>9, <1>10, <1>11, <1>12, <1>13, <1>14, <1>15, <1>16, <1>17, <1>18, <1>19, <1>20, <1>21, <1>22, <1>23

\* A rejected token does not come back into the cache before its retry.
LEMMA RetryStep ==
  ASSUME TypeOK, TokensIssued, RetryInv, [Next]_vars
  PROVE  RetryInv'
<1> USE CallersAssumption, BoundsAssumption
<1> USE DEF Return, Send, Goto, Reply, client, locals, server, TypeOK, Critical, Waiting, Sending, Statuses, Tokens, NoToken, TokensIssued, RetryInv
<1>1. ASSUME NEW c \in Callers, StartCall(c) PROVE RetryInv'
  BY <1>1 DEF StartCall
<1>2. ASSUME NEW c \in Callers, StartLogin(c) PROVE RetryInv'
  BY <1>2 DEF StartLogin
<1>3. ASSUME NEW c \in Callers, StartLogout(c) PROVE RetryInv'
  BY <1>3 DEF StartLogout
<1>4. ASSUME NEW c \in Callers, UseCached(c) PROVE RetryInv'
  BY <1>4 DEF UseCached
<1>5. ASSUME NEW c \in Callers, EnsureLogin(c) PROVE RetryInv'
  BY <1>5 DEF EnsureLogin
<1>6. ASSUME NEW c \in Callers, Login(c) PROVE RetryInv'
  BY <1>6 DEF Login
<1>7. ASSUME NEW c \in Callers, InvalidateToken(c) PROVE RetryInv'
  BY <1>7 DEF InvalidateToken
<1>8. ASSUME NEW c \in Callers, LogoutNothing(c) PROVE RetryInv'
  BY <1>8 DEF LogoutNothing
<1>9. ASSUME NEW c \in Callers, LogoutSend(c) PROVE RetryInv'
  BY <1>9 DEF LogoutSend
<1>10. ASSUME NEW c \in Callers, LoginSucceeds(c) PROVE RetryInv'
  BY <1>10 DEF LoginSucceeds
<1>11. ASSUME NEW c \in Callers, LoginFails(c) PROVE RetryInv'
  BY <1>11 DEF LoginFails
<1>12. ASSUME NEW c \in Callers, LoginLost(c) PROVE RetryInv'
  BY <1>12 DEF LoginLost
<1>13. ASSUME NEW c \in Callers, CallDone(c) PROVE RetryInv'
  BY <1>13 DEF CallDone
<1>14. ASSUME NEW c \in Callers, CallRejected(c) PROVE RetryInv'
  BY <1>14 DEF CallRejected
<1>15. ASSUME NEW c \in Callers, CallLost(c) PROVE RetryInv'
  BY <1>15 DEF CallLost
<1>16. ASSUME NEW c \in Callers, LogoutDone(c) PROVE RetryInv'
  BY <1>16 DEF LogoutDone
<1>17. ASSUME NEW c \in Callers, LogoutLost(c) PROVE RetryInv'
  BY <1>17 DEF LogoutLost
<1>18. ASSUME NEW c \in Callers, GrantLogin(c) PROVE RetryInv'
  BY <1>18 DEF GrantLogin
<1>19. ASSUME NEW c \in Callers, RefuseLogin(c) PROVE RetryInv'
  BY <1>19 DEF RefuseLogin
<1>20. ASSUME NEW c \in Callers, ServeRequest(c) PROVE RetryInv'
  BY <1>20 DEF ServeRequest
<1>21. ASSUME NEW c \in Callers, ServeLogout(c) PROVE RetryInv'
  BY <1>21 DEF ServeLogout
<1>22. ASSUME NEW t \in Tokens, Expire(t) PROVE RetryInv'
  BY <1>22 DEF Expire
<1>23. CASE UNCHANGED vars
  BY <1>23 DEF vars
<1> QED
  BY NextCases, <1>1, <1>2, <1>3, <1>4, <1>5, <1>6, <1>7, <1>8, <1>9, <1>10, <1>11, <1>12, <1>13, <1>14, <1>15, <1>16, <1>17, <1>18, <1>19, <1>20, <1>21, <1>22, <1>23

\* The endpoint never revives a token it rejected.
LEMMA RejectedStep ==
  ASSUME TypeOK, TokensIssued, RejectedInv, [Next]_vars
  PROVE  RejectedInv'
<1> USE CallersAssumption, BoundsAssumption
<1> USE DEF Return, Send, Goto, Reply, client, locals, server, TypeOK, Critical, Waiting, Sending, Statuses, Tokens, NoToken, TokensIssued, RejectedInv
<1>1. ASSUME NEW c \in Callers, StartCall(c) PROVE RejectedInv'
  BY <1>1 DEF StartCall
<1>2. ASSUME NEW c \in Callers, StartLogin(c) PROVE RejectedInv'
  BY <1>2 DEF StartLogin
<1>3. ASSUME NEW c \in Callers, StartLogout(c) PROVE RejectedInv'
  BY <1>3 DEF StartLogout
<1>4. ASSUME NEW c \in Callers, UseCached(c) PROVE RejectedInv'
  BY <1>4 DEF UseCached
<1>5. ASSUME NEW c \in Callers, EnsureLogin(c) PROVE RejectedInv'
  BY <1>5 DEF EnsureLogin
<1>6. ASSUME NEW c \in Callers, Login(c) PROVE RejectedInv'
  BY <1>6 DEF Login
<1>7. ASSUME NEW c \in Callers, InvalidateToken(c) PROVE RejectedInv'
  BY <1>7 DEF InvalidateToken
<1>8. ASSUME NEW c \in Callers, LogoutNothing(c) PROVE RejectedInv'
  BY <1>8 DEF LogoutNothing
<1>9. ASSUME NEW c \in Callers, LogoutSend(c) PROVE RejectedInv'
  BY <1>9 DEF LogoutSend
<1>10. ASSUME NEW c \in Callers, LoginSucceeds(c) PROVE RejectedInv'
  BY <1>10 DEF LoginSucceeds
<1>11. ASSUME NEW c \in Callers, LoginFails(c) PROVE RejectedInv'
  BY <1>11 DEF LoginFails
<1>12. ASSUME NEW c \in Callers, LoginLost(c) PROVE RejectedInv'
  BY <1>12 DEF LoginLost
<1>13. ASSUME NEW c \in Callers, CallDone(c) PROVE RejectedInv'
  BY <1>13 DEF CallDone
<1>14. ASSUME NEW c \in Callers, CallRejected(c) PROVE RejectedInv'
  BY <1>14 DEF CallRejected
<1>15. ASSUME NEW c \in Callers, CallLost(c) PROVE RejectedInv'
  BY <1>15 DEF CallLost
<1>16. ASSUME NEW c \in Callers, LogoutDone(c) PROVE RejectedInv'
  BY <1>16 DEF LogoutDone
<1>17. ASSUME NEW c \in Callers, LogoutLost(c) PROVE RejectedInv'
  BY <1>17 DEF LogoutLost
<1>18. ASSUME NEW c \in Callers, GrantLogin(c) PROVE RejectedInv'
  BY <1>18 DEF GrantLogin
<1>19. ASSUME NEW c \in Callers, RefuseLogin(c) PROVE RejectedInv'
  BY <1>19 DEF RefuseLogin
<1>20. ASSUME NEW c \in Callers, ServeRequest(c) PROVE RejectedInv'
  BY <1>20 DEF ServeRequest
<1>21. ASSUME NEW c \in Callers, ServeLogout(c) PROVE RejectedInv'
  BY <1>21 DEF ServeLogout
<1>22. ASSUME NEW t \in Tokens, Expire(t) PROVE RejectedInv'
  BY <1>22 DEF Expire
<1>23. CASE UNCHANGED vars
  BY <1>23 DEF vars
<1> QED
  BY NextCases, <1>1, <1>2, <1>3, <1>4, <1>5, <1>6, <1>7, <1>8, <1>9, <1>10, <1>11, <1>12, <1>13, <1>14, <1>15, <1>16, <1>17, <1>18, <1>19, <1>20, <1>21, <1>22, <1>23

\* The cache, the mutex and the replies in flight account for every live token.
LEMMA SessionStep ==
  ASSUME LoginCallers = {}, TypeOK, TokensIssued, RejectedInv, SessionInv, [Next]_vars
  PROVE  SessionInv'
<1> USE CallersAssumption, BoundsAssumption
<1> USE DEF Return, Send, Goto, Reply, client, locals, server, TypeOK, Critical, Waiting, Sending, Statuses, Tokens, NoToken, TokensIssued, RejectedInv, SessionInv, Accountable
<1>1. ASSUME NEW c \in Callers, StartCall(c) PROVE SessionInv'
  BY <1>1 DEF StartCall
<1>2. ASSUME NEW c \in Callers, StartLogin(c) PROVE SessionInv'
  BY <1>2 DEF StartLogin
<1>3. ASSUME NEW c \in Callers, StartLogout(c) PROVE SessionInv'
  BY <1>3 DEF StartLogout
<1>4. ASSUME NEW c \in Callers, UseCached(c) PROVE SessionInv'
  BY <1>4 DEF UseCached
<1>5. ASSUME NEW c \in Callers, EnsureLogin(c) PROVE SessionInv'
  BY <1>5 DEF EnsureLogin
<1>6. ASSUME NEW c \in Callers, Login(c) PROVE SessionInv'
  BY <1>6 DEF Login
<1>7. ASSUME NEW c \in Callers, InvalidateToken(c) PROVE SessionInv'
  BY <1>7 DEF InvalidateToken
<1>8. ASSUME NEW c \in Callers, LogoutNothing(c) PROVE SessionInv'
  BY <1>8 DEF LogoutNothing
<1>9. ASSUME NEW c \in Callers, LogoutSend(c) PROVE SessionInv'
  BY <1>9 DEF LogoutSend
<1>10. ASSUME NEW c \in Callers, LoginSucceeds(c) PROVE SessionInv'
  BY <1>10 DEF LoginSucceeds
<1>11. ASSUME NEW c \in Callers, LoginFails(c) PROVE SessionInv'
  BY <1>11 DEF LoginFails
<1>12. ASSUME NEW c \in Callers, LoginLost(c) PROVE SessionInv'
  <2>1. authMu = c
    BY <1>12 DEF LoginLost
  <2>2. \A d \in Callers : pc[d] = "loginReply" => d = c
    BY <2>1
  <2>3. \A t \in Accountable : t = fresh[c]
    BY <1>12, <2>2 DEF LoginLost
  <2>4. Accountable' = {}
    BY <1>12, <2>3 DEF LoginLost
  <2> QED
    BY <1>12, <2>4 DEF LoginLost
<1>13. ASSUME NEW c \in Callers, CallDone(c) PROVE SessionInv'
  BY <1>13 DEF CallDone
<1>14. ASSUME NEW c \in Callers, CallRejected(c) PROVE SessionInv'
  BY <1>14 DEF CallRejected
<1>15. ASSUME NEW c \in Callers, CallLost(c) PROVE SessionInv'
  BY <1>15 DEF CallLost
<1>16. ASSUME NEW c \in Callers, LogoutDone(c) PROVE SessionInv'
  BY <1>16 DEF LogoutDone
<1>17. ASSUME NEW c \in Callers, LogoutLost(c) PROVE SessionInv'
  BY <1>17 DEF LogoutLost
<1>18. ASSUME NEW c \in Callers, GrantLogin(c) PROVE SessionInv'
  BY <1>18 DEF GrantLogin
<1>19. ASSUME NEW c \in Callers, RefuseLogin(c) PROVE SessionInv'
  BY <1>19 DEF RefuseLogin
<1>20. ASSUME NEW c \in Callers, ServeRequest(c) PROVE SessionInv'
  BY <1>20 DEF ServeRequest
<1>21. ASSUME NEW c \in Callers, ServeLogout(c) PROVE SessionInv'
  BY <1>21 DEF ServeLogout
<1>22. ASSUME NEW t \in Tokens, Expire(t) PROVE SessionInv'
  BY <1>22 DEF Expire
<1>23. CASE UNCHANGED vars
  BY <1>23 DEF vars
<1> QED
  BY NextCases, <1>1, <1>2, <1>3, <1>4, <1>5, <1>6, <1>7, <1>8, <1>9, <1>10, <1>11, <1>12, <1>13, <1>14, <1>15, <1>16, <1>17, <1>18, <1>19, <1>20, <1>21, <1>22, <1>23

-------------------------------------------------------------------------------
LEMMA InitGInv == Init => GInv
  BY CallersAssumption, BoundsAssumption
     DEF Init, GInv, TypeOK, TokensIssued, RetryInv, RejectedInv, Critical,
         Statuses, Tokens, NoToken

LEMMA InitSessionInv == Init => SessionInv
  BY DEF Init, SessionInv, Accountable, NoToken

\* GInv holds of every client, whoever calls what.
LEMMA GInvariant == Spec => []GInv
<1>1. GInv /\ [Next]_vars => GInv'
  BY TypeStep, TokensIssuedStep, RetryStep, RejectedStep DEF GInv
<1> QED
  BY <1>1, InitGInv, PTL DEF Spec

\* Type correctness, and with it the mutual exclusion of authMu
\* (auth.go: Lock and deferred Unlock in Login, Logout, ensureLoggedIn and
\* invalidateToken).
THEOREM TypeCorrect == Spec => []TypeOK
<1>1. GInv => TypeOK
  BY DEF GInv
<1> QED
  BY <1>1, GInvariant, PTL

\* A call sends its request twice at most (auth.go:138-142), however many
\* callers there are and however often they log in and out.
THEOREM RetryBounded == Spec => []AtMostOneRetry
<1>1. GInv => AtMostOneRetry
  BY DEF GInv, RetryInv, AtMostOneRetry
<1> QED
  BY <1>1, GInvariant, PTL

\* The retry after a 401 never repeats the rejected token (auth.go:154-162).
THEOREM RetryFresh == Spec => RetryUsesNewToken
<1>1. ASSUME GInv, [Next]_vars
      PROVE  [\A c \in Callers :
                sent[c] = 1 /\ sent'[c] = 2 => tok'[c] # tok[c]]_vars
  <2> SUFFICES ASSUME NEW c \in Callers, sent[c] = 1, sent'[c] = 2
               PROVE  tok'[c] # tok[c]
    OBVIOUS
  <2> USE <1>1 DEF GInv, TypeOK, TokensIssued, RetryInv, Return, Send, Goto,
                   Reply, client, locals, server, NoToken
  <2>1. ASSUME NEW d \in Callers, UseCached(d) PROVE tok'[c] # tok[c]
    BY <2>1 DEF UseCached
  <2>2. ASSUME NEW d \in Callers, LoginSucceeds(d) PROVE tok'[c] # tok[c]
    BY <2>2 DEF LoginSucceeds
  <2>3. ASSUME NEW d \in Callers,
               \/ StartCall(d) \/ StartLogin(d) \/ StartLogout(d)
               \/ EnsureLogin(d) \/ Login(d) \/ InvalidateToken(d)
               \/ LogoutNothing(d) \/ LogoutSend(d)
        PROVE  FALSE
    BY <2>3 DEF StartCall, StartLogin, StartLogout, EnsureLogin, Login,
                InvalidateToken, LogoutNothing, LogoutSend
  <2>4. ASSUME NEW d \in Callers,
               \/ LoginFails(d) \/ LoginLost(d) \/ CallDone(d)
               \/ CallRejected(d) \/ CallLost(d) \/ LogoutDone(d)
               \/ LogoutLost(d) \/ GrantLogin(d) \/ RefuseLogin(d)
               \/ ServeRequest(d) \/ ServeLogout(d)
        PROVE  FALSE
    BY <2>4 DEF LoginFails, LoginLost, CallDone, CallRejected, CallLost,
                LogoutDone, LogoutLost, GrantLogin, RefuseLogin, ServeRequest,
                ServeLogout
  <2>5. ASSUME NEW t \in Tokens, Expire(t) PROVE FALSE
    BY <2>5 DEF Expire
  <2>6. CASE UNCHANGED vars
    BY <2>6 DEF vars
  <2> QED
    BY <2>1, <2>2, <2>3, <2>4, <2>5, <2>6, NextCases
<1> QED
  BY <1>1, GInvariant, PTL DEF Spec, RetryUsesNewToken

-------------------------------------------------------------------------------
\* SessionInv holds of a client on which nobody calls the exported Login: main
\* calls it before any other goroutine has the client (main.go:169-173).
LEMMA SessionInvariant ==
  ASSUME LoginCallers = {}
  PROVE  Spec => [](GInv /\ SessionInv)
<1>1. SessionInv /\ GInv /\ [Next]_vars => SessionInv'
  BY SessionStep DEF GInv
<1> QED
  BY <1>1, InitSessionInv, GInvariant, PTL DEF Spec

\* The user's limited live tokens: a shared client occupies one at most
\* (auth.go:100-118).
THEOREM OneToken ==
  ASSUME LoginCallers = {}
  PROVE  Spec => []OneLiveToken
<1>1. GInv /\ SessionInv => OneLiveToken
  BY DEF GInv, TypeOK, SessionInv, OneLiveToken, Accountable, Critical, NoToken
<1> QED
  BY <1>1, SessionInvariant, PTL

\* An empty cache under a free mutex leaves nothing to log out (auth.go:62).
THEOREM NothingForgotten ==
  ASSUME LoginCallers = {}
  PROVE  Spec => []EmptyCacheMeansLoggedOut
<1>1. GInv /\ SessionInv => EmptyCacheMeansLoggedOut
  BY CallersAssumption
     DEF GInv, TypeOK, SessionInv, EmptyCacheMeansLoggedOut, Accountable,
         Critical, NoToken
<1> QED
  BY <1>1, SessionInvariant, PTL

\* A late invalidation, a re-login or a logout never discards a token that is
\* live and not lost (auth.go:115-118).
THEOREM LiveTokenKept ==
  ASSUME LoginCallers = {}
  PROVE  Spec => NeverDropsLiveToken
<1>1. ASSUME GInv, SessionInv, [Next]_vars
      PROVE  [authToken' # authToken =>
                authToken \in {NoToken} \cup orphans' \/ authToken \notin live]_vars
  <2> USE <1>1 DEF GInv, TypeOK, RejectedInv, SessionInv, client, NoToken
  <2> SUFFICES ASSUME authToken' # authToken
               PROVE  authToken \in {NoToken} \cup orphans' \/ authToken \notin live
    OBVIOUS
  <2>1. ASSUME NEW c \in Callers, LoginSucceeds(c) PROVE authToken = NoToken
    BY <2>1 DEF LoginSucceeds
  <2>2. ASSUME NEW c \in Callers, InvalidateToken(c) PROVE authToken \notin live
    BY <2>2 DEF InvalidateToken
  <2>3. ASSUME NEW c \in Callers, LogoutDone(c)
        PROVE  authToken \in orphans' \/ authToken \notin live
    BY <2>3 DEF LogoutDone
  <2>4. \/ \E c \in Callers :
             LoginSucceeds(c) \/ InvalidateToken(c) \/ LogoutDone(c)
        \/ UNCHANGED authToken
    BY NextCases
       DEF StartCall, StartLogin, StartLogout, UseCached, EnsureLogin, Login,
           LogoutNothing, LogoutSend, LoginFails, LoginLost, CallDone,
           CallRejected, CallLost, LogoutLost, GrantLogin, RefuseLogin,
           ServeRequest, ServeLogout, Expire, vars
  <2> QED
    BY <2>1, <2>2, <2>3, <2>4
<1> QED
  BY <1>1, SessionInvariant, PTL DEF Spec, NeverDropsLiveToken

-------------------------------------------------------------------------------
\* What held is: the cached token, or else the one in the reply to the caller
\* inside the mutex.
LEMMA HeldCached ==
  ASSUME TypeOK, SessionInv, authToken # NoToken
  PROVE  held = {authToken}
  BY DEF TypeOK, SessionInv, held

LEMMA HeldInReply ==
  ASSUME TypeOK, SessionInv, NEW c \in Callers, pc[c] = "loginReply"
  PROVE  held = {fresh[c]} \ {NoToken}
<1>1. authToken = NoToken
  BY DEF SessionInv
<1>2. \A d \in Callers : pc[d] = "loginReply" => d = c
  BY DEF TypeOK, Critical
<1> QED
  BY <1>1, <1>2 DEF held

LEMMA HeldNothing ==
  ASSUME authToken = NoToken, \A c \in Callers : pc[c] # "loginReply"
  PROVE  held = {}
  BY DEF held

\* A step that leaves the cache alone and puts no caller into, or out of, the
\* receipt of a /login reply leaves held alone.
LEMMA HeldSame ==
  ASSUME authToken' = authToken,
         \A c \in Callers : (pc[c] = "loginReply") = (pc'[c] = "loginReply"),
         \A c \in Callers : pc[c] = "loginReply" => fresh'[c] = fresh[c]
  PROVE  held' = held
<1>1. {d \in Callers : pc'[d] = "loginReply"} = {d \in Callers : pc[d] = "loginReply"}
  OBVIOUS
<1> QED
  BY <1>1 DEF held

\* ObsClient implements TokenSession (auth.go:100-125): issuing a token is
\* Acquire, a lost exchange or a failed /logout is Lose, an invalidation is
\* Discard, a revocation or expiry is Die, and every other step a stutter.
THEOREM Refinement ==
  ASSUME LoginCallers = {}
  PROVE  Spec => ImplementsTokenSession
<1> USE CallersAssumption, BoundsAssumption
<1>1. Init => Session!Init
  BY HeldNothing DEF Init, Session!Init, NoToken
<1>2. ASSUME GInv, GInv', SessionInv, SessionInv', [Next]_vars
      PROVE  [Session!Next]_(Session!vars)
  <2> USE <1>2 DEF GInv
  <2> USE DEF TypeOK, Critical, client, locals, server, Return, Send, Goto, Reply
  <2> DEFINE Stutter == UNCHANGED Session!vars
  <2>1. ASSUME NEW c \in Callers, GrantLogin(c) PROVE Session!Acquire(issued + 1)
    <3>1. pc[c] = "loginSent" /\ authMu = c /\ pc'[c] = "loginReply"
      BY <2>1 DEF GrantLogin
    <3>2. \A d \in Callers : pc[d] # "loginReply"
      BY <3>1
    <3>3. authToken = NoToken
      BY <3>1 DEF SessionInv
    <3>4. held = {}
      BY <3>2, <3>3, HeldNothing
    <3>5. held' = {fresh'[c]} \ {NoToken}
      <4>1. {d \in Callers : pc'[d] = "loginReply"} = {c}
        BY <2>1, <3>1, <3>2 DEF GrantLogin
      <4> QED
        BY <2>1, <3>3, <4>1 DEF GrantLogin, held
    <3>6. fresh'[c] = issued + 1 /\ issued + 1 # NoToken
      BY <2>1 DEF GrantLogin, NoToken
    <3>7. 1..issued' = 1..issued \cup {issued + 1} /\ issued + 1 \notin 1..issued
      BY <2>1 DEF GrantLogin
    <3> QED
      BY <2>1, <3>4, <3>5, <3>6, <3>7 DEF GrantLogin, Session!Acquire
  <2>2. ASSUME NEW c \in Callers, LoginSucceeds(c) PROVE Stutter
    <3>1. pc[c] = "loginReply" /\ authToken' = fresh[c] /\ fresh[c] # NoToken
      BY <2>2 DEF LoginSucceeds, TokensIssued
    <3>2. held = {fresh[c]}
      BY <3>1, HeldInReply
    <3>3. \A d \in Callers : pc'[d] # "loginReply"
      BY <2>2 DEF LoginSucceeds
    <3>4. held' = {fresh[c]}
      BY <3>1, <3>3 DEF held
    <3> QED
      BY <2>2, <3>2, <3>4 DEF LoginSucceeds, Session!vars
  <2>3. ASSUME NEW c \in Callers, LoginFails(c) PROVE Stutter
    <3>1. pc[c] = "loginReply" /\ fresh[c] = NoToken /\ authToken' = NoToken
      BY <2>3 DEF LoginFails, TokensIssued, SessionInv
    <3>2. held = {}
      BY <3>1, HeldInReply
    <3>3. \A d \in Callers : pc'[d] # "loginReply"
      BY <2>3 DEF LoginFails
    <3>4. held' = {}
      BY <3>1, <3>3 DEF held
    <3> QED
      BY <2>3, <3>2, <3>4 DEF LoginFails, Session!vars
  <2>4. ASSUME NEW c \in Callers, LoginLost(c) PROVE Session!Lose
    <3>1. authToken' = NoToken /\ \A d \in Callers : pc'[d] # "loginReply"
      BY <2>4 DEF LoginLost, SessionInv
    <3>2. held' = {}
      BY <3>1 DEF held
    <3>3. CASE pc[c] = "loginReply"
      <4>1. held \cap live = {fresh[c]} \cap live
        BY <3>3, HeldInReply DEF NoToken
      <4> QED
        BY <2>4, <3>2, <4>1 DEF LoginLost, Session!Lose
    <3>4. CASE pc[c] = "loginSent"
      <4>1. \A d \in Callers : pc[d] # "loginReply"
        BY <3>4
      <4>2. held = {}
        BY <3>4, <4>1, HeldNothing DEF SessionInv
      <4>3. {fresh[c]} \cap live = {}
        BY <3>4 DEF TokensIssued, NoToken
      <4> QED
        BY <2>4, <3>2, <4>2, <4>3 DEF LoginLost, Session!Lose
    <3> QED
      BY <2>4, <3>3, <3>4 DEF LoginLost
  <2>5. ASSUME NEW c \in Callers, InvalidateToken(c) PROVE Stutter \/ Session!Discard
    <3>1. \A d \in Callers : pc[d] \notin Critical /\ pc'[d] \notin Critical
      BY <2>5 DEF InvalidateToken
    <3>2. CASE authToken = tok[c] /\ authToken # NoToken
      <4>1. held = {authToken} /\ authToken \notin live
        BY <2>5, <3>2, HeldCached DEF InvalidateToken, RejectedInv
      <4>2. held' = {}
        BY <2>5, <3>1, <3>2 DEF InvalidateToken, held
      <4> QED
        BY <2>5, <4>1, <4>2 DEF InvalidateToken, Session!Discard
    <3>3. CASE authToken # tok[c] \/ authToken = NoToken
      <4>1. held' = held
        BY <2>5, <3>1, <3>3, HeldSame DEF InvalidateToken
      <4> QED
        BY <2>5, <4>1 DEF InvalidateToken, Session!vars
    <3> QED
      BY <3>2, <3>3
  <2>6. ASSUME NEW c \in Callers, LogoutDone(c) PROVE Session!Lose
    <3>1. held = {authToken}
      BY <2>6, HeldCached DEF LogoutDone, SessionInv
    <3>2. authToken' = NoToken /\ \A d \in Callers : pc'[d] # "loginReply"
      BY <2>6 DEF LogoutDone
    <3>3. held' = {}
      BY <3>2 DEF held
    <3> QED
      BY <2>6, <3>1, <3>3 DEF LogoutDone, Session!Lose
  <2>7. ASSUME NEW c \in Callers, ServeLogout(c)
        PROVE  Stutter \/ \E t \in Tokens : Session!Die(t)
    <3>1. tok[c] \in Tokens
      BY <2>7 DEF ServeLogout, SessionInv
    <3>2. held' = held
      BY <2>7, HeldSame DEF ServeLogout
    <3> QED
      BY <2>7, <3>1, <3>2 DEF ServeLogout, Session!Die, Session!vars
  <2>8. ASSUME NEW t \in Tokens, Expire(t) PROVE Session!Die(t)
    <3>1. held' = held
      BY <2>8, HeldSame DEF Expire
    <3> QED
      BY <2>8, <3>1 DEF Expire, Session!Die
  <2>9. ASSUME NEW c \in Callers,
               \/ StartCall(c) \/ StartLogin(c) \/ StartLogout(c)
               \/ UseCached(c) \/ EnsureLogin(c) \/ Login(c)
               \/ LogoutNothing(c) \/ LogoutSend(c) \/ LogoutLost(c)
        PROVE  Stutter
    <3> USE DEF StartCall, StartLogin, StartLogout, UseCached, EnsureLogin,
                Login, LogoutNothing, LogoutSend, LogoutLost
    <3>1. held' = held
      BY <2>9, HeldSame
    <3> QED
      BY <2>9, <3>1 DEF Session!vars
  <2>10. ASSUME NEW c \in Callers,
                \/ CallDone(c) \/ CallRejected(c) \/ CallLost(c)
                \/ ServeRequest(c)
         PROVE  Stutter
    <3> USE DEF CallDone, CallRejected, CallLost, ServeRequest, Sending
    <3>1. held' = held
      BY <2>10, HeldSame
    <3> QED
      BY <2>10, <3>1 DEF Session!vars
  <2>11. ASSUME NEW c \in Callers, RefuseLogin(c) PROVE Stutter
    <3>1. pc[c] = "loginSent" /\ pc'[c] = "loginReply" /\ fresh'[c] = NoToken
      BY <2>11 DEF RefuseLogin
    <3>2. held' = {}
      <4>1. {d \in Callers : pc'[d] = "loginReply"} = {c}
        BY <2>11, <3>1 DEF RefuseLogin
      <4>2. authToken' = NoToken
        BY <2>11, <3>1 DEF RefuseLogin, SessionInv
      <4> QED
        BY <3>1, <4>1, <4>2 DEF held
    <3>3. \A d \in Callers : pc[d] # "loginReply"
      BY <3>1
    <3>4. held = {}
      BY <3>1, <3>3, HeldNothing DEF SessionInv
    <3> QED
      BY <2>11, <3>2, <3>4 DEF RefuseLogin, Session!vars
  <2>12. CASE UNCHANGED vars
    BY <2>12 DEF vars, held, Session!vars
  <2>13. issued + 1 \in Tokens \/ \A c \in Callers : ~GrantLogin(c)
    BY DEF GrantLogin, Tokens
  <2> HIDE DEF Stutter
  <2> QED
    BY <2>1, <2>2, <2>3, <2>4, <2>5, <2>6, <2>7, <2>8, <2>9, <2>10, <2>11,
       <2>12, <2>13, NextCases DEF Session!Next, Stutter
<1> QED
  BY <1>1, <1>2, SessionInvariant, PTL DEF Spec, ImplementsTokenSession, Session!Spec

\* What the abstraction guarantees of any token the session is issued.
LEMMA SessionAccounts == Session!Spec => []Session!Accounted
<1> USE DEF Session!Accounted
<1>1. Session!Init => Session!Accounted
  BY DEF Session!Init
<1>2. ASSUME Session!Accounted, [Session!Next]_(Session!vars) PROVE Session!Accounted'
  <2>1. ASSUME NEW t \in Tokens, Session!Acquire(t) PROVE Session!Accounted'
    BY <1>2, <2>1 DEF Session!Acquire
  <2>2. CASE Session!Discard
    BY <1>2, <2>2 DEF Session!Discard
  <2>3. CASE Session!Lose
    BY <1>2, <2>3 DEF Session!Lose
  <2>4. ASSUME NEW t \in Tokens, Session!Die(t) PROVE Session!Accounted'
    BY <1>2, <2>4 DEF Session!Die
  <2>5. CASE UNCHANGED Session!vars
    BY <1>2, <2>5 DEF Session!vars
  <2> QED
    BY <1>2, <2>1, <2>2, <2>3, <2>4, <2>5 DEF Session!Next
<1> QED
  BY <1>1, <1>2, PTL DEF Session!Spec

\* So the shared client has one token at most to use or give back, and every
\* live token is that one or was lost by a failed exchange: what Exporter takes
\* each client for (auth.go:100-125, main.go:150-151).
THEOREM PromiseKept ==
  ASSUME LoginCallers = {}
  PROVE  Spec => []Session!Accounted
  BY Refinement, SessionAccounts, PTL DEF ImplementsTokenSession
===============================================================================
