------------------------------- MODULE ObsClient -------------------------------
(***************************************************************************)
(* One *obsclient.Client shared by the goroutines of any number of probes: *)
(* its cached token, the mutex that guards it, the /login, /logout and     *)
(* authenticated requests in flight, and the management endpoint that      *)
(* issues, rejects, revokes and expires tokens.  Sources: auth.go and the  *)
(* request helpers of client.go.                                           *)
(***************************************************************************)
EXTENDS Naturals, FiniteSets

CONSTANTS Requesters,     \* goroutines in callAuthenticatedJSON
          LoginCallers,   \* goroutines that call the exported Login
          LogoutCallers,  \* goroutines that call Logout
          Nobody,         \* the holder of a free mutex
          MaxIssued,      \* bound: tokens /login hands out in a behaviour
          MaxLive         \* live tokens the endpoint allows a user

Callers == Requesters \cup LoginCallers \cup LogoutCallers

ASSUME CallersAssumption ==
  /\ Nobody \notin Callers
  /\ Requesters \cap (LoginCallers \cup LogoutCallers) = {}
  /\ LoginCallers \cap LogoutCallers = {}
ASSUME BoundsAssumption == MaxIssued \in Nat /\ MaxLive \in Nat

NoToken == 0
Tokens == 1..MaxIssued

VARIABLES
  authToken,  \* the cached token
  authMu,     \* who holds the mutex
  pc,         \* where each caller is
  tok,        \* the token a caller took from the cache for its request
  fresh,      \* the token in the /login reply on its way to a caller
  status,     \* the status of the reply on its way to a caller
  sent,       \* requests a call has sent so far
  live,       \* tokens the endpoint accepts
  issued,     \* tokens issued so far; they are numbered in order of issue
  orphans     \* live tokens lost with a reply, or kept by a failed /logout

client == <<authToken, authMu>>
locals == <<pc, tok, fresh, status, sent>>
server == <<live, issued, orphans>>
vars == <<client, locals, server>>

\* The steps at which a caller is inside c.authMu.Lock ... Unlock and off the
\* CPU, waiting for the network.
Critical == {"loginSent", "loginReply", "logoutSent", "logoutReply"}
Waiting  == {"ensure", "invalidate", "login", "logout"}
Sending  == {"request", "response"}
Statuses == {"none", "200", "401", "other"}

-------------------------------------------------------------------------------
\* New: a client with no token, no I/O done yet.
Init ==
  /\ authToken = NoToken
  /\ authMu = Nobody
  /\ pc = [c \in Callers |-> "idle"]
  /\ tok = [c \in Callers |-> NoToken]
  /\ fresh = [c \in Callers |-> NoToken]
  /\ status = [c \in Callers |-> "none"]
  /\ sent = [c \in Callers |-> 0]
  /\ live = {}
  /\ issued = 0
  /\ orphans = {}

\* The operation of c is over: its locals go out of scope.
Return(c) ==
  /\ pc' = [pc EXCEPT ![c] = "idle"]
  /\ tok' = [tok EXCEPT ![c] = NoToken]
  /\ fresh' = [fresh EXCEPT ![c] = NoToken]
  /\ status' = [status EXCEPT ![c] = "none"]
  /\ sent' = [sent EXCEPT ![c] = 0]

\* c sends its (next) authenticated request with token t.
Send(c, t) ==
  /\ pc' = [pc EXCEPT ![c] = "request"]
  /\ tok' = [tok EXCEPT ![c] = t]
  /\ fresh' = [fresh EXCEPT ![c] = NoToken]
  /\ status' = [status EXCEPT ![c] = "none"]
  /\ sent' = [sent EXCEPT ![c] = @ + 1]

Goto(c, l) ==
  /\ pc' = [pc EXCEPT ![c] = l]
  /\ UNCHANGED <<tok, fresh, status, sent>>

\* The reply with status s (and, from /login, token t) is on its way to c.
Reply(c, l, s, t) ==
  /\ pc' = [pc EXCEPT ![c] = l]
  /\ status' = [status EXCEPT ![c] = s]
  /\ fresh' = [fresh EXCEPT ![c] = t]
  /\ UNCHANGED <<tok, sent>>

-------------------------------------------------------------------------------
\* callAuthenticatedJSON, Login and Logout are entered.
StartCall(c) ==
  /\ c \in Requesters /\ pc[c] = "idle"
  /\ Goto(c, "ensure")
  /\ UNCHANGED <<client, server>>

StartLogin(c) ==
  /\ c \in LoginCallers /\ pc[c] = "idle"
  /\ Goto(c, "login")
  /\ UNCHANGED <<client, server>>

StartLogout(c) ==
  /\ c \in LogoutCallers /\ pc[c] = "idle"
  /\ Goto(c, "logout")
  /\ UNCHANGED <<client, server>>

\* ensureLoggedIn with a cached token: the critical section has no I/O, so it
\* is one step, and the request goes out with the token it returns.
UseCached(c) ==
  /\ pc[c] = "ensure" /\ authMu = Nobody
  /\ authToken # NoToken
  /\ Send(c, authToken)
  /\ UNCHANGED <<client, server>>

\* The bug of checking the cache before the mutex is taken.
EnsureLoginUnchecked(c) ==
  /\ pc[c] = "ensure" /\ authMu = Nobody
  /\ authMu' = c
  /\ Goto(c, "loginSent")
  /\ UNCHANGED <<authToken, server>>

\* ensureLoggedIn without a cached token takes the mutex and keeps it while
\* /login is in flight.
EnsureLogin(c) ==
  /\ pc[c] = "ensure" /\ authMu = Nobody
  /\ authToken = NoToken
  /\ authMu' = c
  /\ Goto(c, "loginSent")
  /\ UNCHANGED <<authToken, server>>

\* Login takes the mutex and logs in whatever the cache holds.
Login(c) ==
  /\ pc[c] = "login" /\ authMu = Nobody
  /\ authMu' = c
  /\ Goto(c, "loginSent")
  /\ UNCHANGED <<authToken, server>>

\* login: a 200 that carries the token header fills the cache.  A call goes on
\* to its request, the exported Login returns.
LoginSucceeds(c) ==
  /\ pc[c] = "loginReply" /\ status[c] = "200"
  /\ authToken' = fresh[c]
  /\ authMu' = Nobody
  /\ IF c \in Requesters THEN Send(c, fresh[c]) ELSE Return(c)
  /\ UNCHANGED server

\* The bug of an error path that does not unlock.
LoginFailsLocked(c) ==
  /\ pc[c] = "loginReply" /\ status[c] # "200"
  /\ Return(c)
  /\ UNCHANGED <<client, server>>

\* login: another status, or no header.
LoginFails(c) ==
  /\ pc[c] = "loginReply" /\ status[c] # "200"
  /\ authMu' = Nobody
  /\ Return(c)
  /\ UNCHANGED <<authToken, server>>

\* c.http.Do fails (timeout, cancelled context, connection): before the
\* request reached the endpoint, or after it, when the token in the reply is
\* lost with it.
LoginLost(c) ==
  /\ pc[c] \in {"loginSent", "loginReply"}
  /\ authMu' = Nobody
  /\ orphans' = orphans \cup ({fresh[c]} \cap live)
  /\ Return(c)
  /\ UNCHANGED <<authToken, live, issued>>

-------------------------------------------------------------------------------
\* callAuthenticatedJSON gets its reply: the result, an error, or the first
\* 401, which is retried once.
CallDone(c) ==
  /\ pc[c] = "response"
  /\ status[c] # "401" \/ sent[c] # 1
  /\ Return(c)
  /\ UNCHANGED <<client, server>>

\* The bugs of retrying without end, and of retrying with the cache as it is.
CallRejectedAgain(c) ==
  /\ pc[c] = "response" /\ status[c] = "401"
  /\ Goto(c, "invalidate")
  /\ UNCHANGED <<client, server>>

CallRejectedNotInvalidated(c) ==
  /\ pc[c] = "response" /\ status[c] = "401" /\ sent[c] = 1
  /\ Goto(c, "ensure")
  /\ UNCHANGED <<client, server>>

CallRejected(c) ==
  /\ pc[c] = "response"
  /\ status[c] = "401" /\ sent[c] = 1
  /\ Goto(c, "invalidate")
  /\ UNCHANGED <<client, server>>

\* The request or its reply is lost: an error, never a retry.
CallLost(c) ==
  /\ pc[c] \in Sending
  /\ Return(c)
  /\ UNCHANGED <<client, server>>

\* The bug of clearing without comparing.
InvalidateAnyToken(c) ==
  /\ pc[c] = "invalidate" /\ authMu = Nobody
  /\ authToken' = NoToken
  /\ Goto(c, "ensure")
  /\ UNCHANGED <<authMu, server>>

\* invalidateToken: compare and clear.
InvalidateToken(c) ==
  /\ pc[c] = "invalidate" /\ authMu = Nobody
  /\ authToken' = IF authToken = tok[c] THEN NoToken ELSE authToken
  /\ Goto(c, "ensure")
  /\ UNCHANGED <<authMu, server>>

-------------------------------------------------------------------------------
\* Logout with nothing cached returns, else it keeps the mutex during /logout.
LogoutNothing(c) ==
  /\ pc[c] = "logout" /\ authMu = Nobody
  /\ authToken = NoToken
  /\ Return(c)
  /\ UNCHANGED <<client, server>>

LogoutSend(c) ==
  /\ pc[c] = "logout" /\ authMu = Nobody
  /\ authToken # NoToken
  /\ authMu' = c
  /\ pc' = [pc EXCEPT ![c] = "logoutSent"]
  /\ tok' = [tok EXCEPT ![c] = authToken]
  /\ UNCHANGED <<authToken, fresh, status, sent, server>>

\* Any answer clears the cache, before the status is looked at: a token the
\* endpoint failed to revoke is lost.
LogoutDone(c) ==
  /\ pc[c] = "logoutReply"
  /\ authToken' = NoToken
  /\ authMu' = Nobody
  /\ orphans' = orphans \cup ({authToken} \cap live)
  /\ Return(c)
  /\ UNCHANGED <<live, issued>>

\* The bug of clearing the cache before the request has succeeded.
LogoutLostAndCleared(c) ==
  /\ pc[c] \in {"logoutSent", "logoutReply"}
  /\ authToken' = NoToken
  /\ authMu' = Nobody
  /\ Return(c)
  /\ UNCHANGED server

\* A transport error keeps the token cached.
LogoutLost(c) ==
  /\ pc[c] \in {"logoutSent", "logoutReply"}
  /\ authMu' = Nobody
  /\ Return(c)
  /\ UNCHANGED <<authToken, server>>

-------------------------------------------------------------------------------
\* The management endpoint.  /login issues a token nobody ever saw, or refuses
\* (bad password, outage, no header, the user's live tokens at their limit).
GrantLogin(c) ==
  /\ pc[c] = "loginSent"
  /\ issued < MaxIssued /\ Cardinality(live) < MaxLive
  /\ issued' = issued + 1
  /\ live' = live \cup {issued + 1}
  /\ Reply(c, "loginReply", "200", issued + 1)
  /\ UNCHANGED <<client, orphans>>

RefuseLogin(c) ==
  /\ pc[c] = "loginSent"
  /\ Reply(c, "loginReply", "other", NoToken)
  /\ UNCHANGED <<client, server>>

\* A request is rejected with 401 exactly when its token is dead; with a live
\* one it gets its data or another failure (a status, a body that does not
\* decode).
ServeRequest(c) ==
  /\ pc[c] = "request"
  /\ \E s \in IF tok[c] \in live THEN {"200", "other"} ELSE {"401"} :
       Reply(c, "response", s, NoToken)
  /\ UNCHANGED <<client, server>>

\* /logout revokes the token (the reply may still be a failure), finds it
\* dead, or fails without revoking it.
ServeLogout(c) ==
  /\ pc[c] = "logoutSent"
  /\ \/ live' = live \ {tok[c]} /\ orphans' = orphans \ {tok[c]}
        /\ \E s \in IF tok[c] \in live THEN {"200", "other"} ELSE {"401"} :
             Reply(c, "logoutReply", s, NoToken)
     \/ Reply(c, "logoutReply", "other", NoToken) /\ UNCHANGED <<live, orphans>>
  /\ UNCHANGED <<client, issued>>

\* Idle and maximum lifetime, a restarted or failed-over endpoint.
Expire(t) ==
  /\ t \in live
  /\ live' = live \ {t}
  /\ orphans' = orphans \ {t}
  /\ UNCHANGED <<client, locals, issued>>

-------------------------------------------------------------------------------
\* Steps that need the mutex, steps of a caller that holds what it needs, and
\* the endpoint's answers.
Acquire(c) ==
  \/ UseCached(c) \/ EnsureLogin(c) \/ Login(c) \/ InvalidateToken(c)
  \/ LogoutNothing(c) \/ LogoutSend(c)

Receive(c) ==
  \/ LoginSucceeds(c) \/ LoginFails(c) \/ LoginLost(c)
  \/ CallDone(c) \/ CallRejected(c) \/ CallLost(c)
  \/ LogoutDone(c) \/ LogoutLost(c)

Serve(c) == GrantLogin(c) \/ RefuseLogin(c) \/ ServeRequest(c) \/ ServeLogout(c)

Next ==
  \/ \E c \in Callers : StartCall(c) \/ StartLogin(c) \/ StartLogout(c)
  \/ \E c \in Callers : Acquire(c) \/ Receive(c) \/ Serve(c)
  \/ \E t \in Tokens : Expire(t)

Spec == Init /\ [][Next]_vars

\* Every http.Client request ends within Timeout, answered or not (weak
\* fairness of Receive, whose *Lost disjuncts need no answer), and sync.Mutex
\* hands itself to a waiter after a millisecond of starvation (strong fairness
\* of Acquire).  Nothing is assumed of the endpoint or of callers that start.
Fairness == \A c \in Callers : WF_vars(Receive(c)) /\ SF_vars(Acquire(c))

FairSpec == Spec /\ Fairness

-------------------------------------------------------------------------------
\* Every variable keeps to the values the code can give it, and a caller is
\* off the CPU inside Lock ... Unlock exactly when it holds authMu.
TypeOK ==
  /\ authToken \in Tokens \cup {NoToken}
  /\ authMu \in Callers \cup {Nobody}
  /\ pc \in [Callers -> {"idle"} \cup Waiting \cup Sending \cup Critical]
  /\ tok \in [Callers -> Tokens \cup {NoToken}]
  /\ fresh \in [Callers -> Tokens \cup {NoToken}]
  /\ status \in [Callers -> Statuses]
  /\ sent \in [Callers -> Nat]
  /\ issued \in 0..MaxIssued
  /\ live \subseteq 1..issued
  /\ orphans \subseteq live
  /\ \A c \in Callers : pc[c] \in Critical <=> authMu = c

\* The live tokens this client has not lost to a failed exchange.
Accountable == live \ orphans

\* However many goroutines share the client and however their 401s and
\* re-logins interleave, it never occupies two of the user's limited live
\* tokens (auth.go:100-118: no duplicate login, no clobbered fresh token).
OneLiveToken == \A s, t \in Accountable : s = t

\* A live token that is not in the cache is on its way to the caller inside
\* the mutex: when Logout finds the cache empty there is nothing to revoke
\* (auth.go:62, what logoutAll relies on to give every token back).
EmptyCacheMeansLoggedOut ==
  authToken = NoToken /\ authMu = Nobody => Accountable = {}

\* A call sends its request at most twice, whatever the endpoint answers
\* (auth.go:138-142: the unbounded 401 retry is not reproduced).
AtMostOneRetry == \A c \in Callers : sent[c] <= 2

\* The retry after a 401 never goes out with a token the endpoint had already
\* rejected for this call, although other callers fill and clear the cache in
\* between (auth.go:155-162).
RetryUsesNewToken ==
  [][\A c \in Callers :
       sent[c] = 1 /\ sent'[c] = 2 => tok'[c] # tok[c]]_vars

\* The cache only gives up a token that is dead, or that a failed /logout
\* lost: a late invalidation never costs another goroutine its fresh token
\* (auth.go:115-118).
NeverDropsLiveToken ==
  [][authToken' # authToken =>
       authToken \in {NoToken} \cup orphans' \/ authToken \notin live]_vars

\* The token the client holds: the cached one, or the one in a /login reply.
held ==
  ({authToken} \cup {fresh[c] : c \in {d \in Callers : pc[d] = "loginReply"}})
    \ {NoToken}

Session ==
  INSTANCE TokenSession WITH lost <- orphans, used <- 1..issued

\* The shared client keeps the promise of TokenSession (auth.go:100-125).
ImplementsTokenSession == Session!Spec

\* Every operation on the client returns, whatever the endpoint does and
\* however long the others hold the mutex across /login and /logout.
EveryOperationReturns ==
  \A c \in Callers : pc[c] # "idle" ~> pc[c] = "idle"
===============================================================================
