-------------------------------- MODULE Exporter --------------------------------
(***************************************************************************)
(* The exporter process (cmd/obs-exporter/main.go): /probe handlers that   *)
(* share the sync.Map of clients, the race to create a target's client,    *)
(* and the shutdown on SIGTERM/SIGINT that drains the handlers and logs    *)
(* every cached client out while main is free to return.                   *)
(*                                                                         *)
(* A client is what TokenSession promises of it: it holds one token at     *)
(* most.  session[h] is the token of the client that handler h created.    *)
(***************************************************************************)
EXTENDS FiniteSets

CONSTANTS Targets,        \* values of the target parameter
          Handlers,       \* /probe requests of a behaviour, one goroutine each
          None,           \* no client
          NetworkFaults   \* whether exchanges fail for other reasons than ctx

ASSUME ExporterAssumption == None \notin Handlers /\ NetworkFaults \in BOOLEAN

VARIABLES
  clients,    \* the sync.Map: target -> its client, named by its creator
  session,    \* a client's cached token: none, live or dead
  lost,       \* clients with a live token nobody can give back
  pc,         \* where each handler is
  tgt,        \* the target it was asked for
  cl,         \* the client it probes with
  cancelled,  \* handlers whose r.Context() is done
  main,       \* the main goroutine: serving, closed (Shutdown began), exited
  sig,        \* the signal goroutine: waiting, draining, logout, done
  timedOut,   \* srv.Shutdown gave up after its 10 s
  keys,       \* the keys Range found when it began
  visited,    \* the keys Range has called back for
  failed      \* the targets whose logout failed

handlers == <<pc, tgt, cl, cancelled>>
tokens == <<session, lost>>
shutdown == <<main, sig, timedOut, keys, visited, failed>>
vars == <<clients, tokens, handlers, shutdown>>

Running == main # "exited"
Creating == {"new", "login", "store", "loser"}
Active == Creating \cup {"load", "probe"}

\* An exchange that is under way can fail under h when its context is done or the
\* network fails.  One that has yet to begin under a done context is not sent.
CanFail(h) == h \in cancelled \/ NetworkFaults

-------------------------------------------------------------------------------
Init ==
  /\ clients = [t \in Targets |-> None]
  /\ session = [h \in Handlers |-> "none"]
  /\ lost = {}
  /\ pc = [h \in Handlers |-> "idle"]
  /\ tgt \in [Handlers -> Targets]
  /\ cl = [h \in Handlers |-> None]
  /\ cancelled = {}
  /\ main = "serving" /\ sig = "waiting" /\ timedOut = FALSE
  /\ keys = {} /\ visited = {} /\ failed = {}

Goto(h, l) == pc' = [pc EXCEPT ![h] = l] /\ UNCHANGED <<tgt, cl, cancelled>>

ProbeWith(h, c) ==
  /\ pc' = [pc EXCEPT ![h] = "probe"]
  /\ cl' = [cl EXCEPT ![h] = c]
  /\ UNCHANGED <<tgt, cancelled>>

\* The server accepts a request while its listeners are open.
Accept(h) ==
  /\ pc[h] = "idle" /\ main = "serving"
  /\ Goto(h, "load")
  /\ UNCHANGED <<clients, tokens, shutdown>>

\* The scraper hangs up or times out.
Cancel(h) ==
  /\ pc[h] \in Active /\ h \notin cancelled
  /\ cancelled' = cancelled \cup {h}
  /\ UNCHANGED <<clients, tokens, pc, tgt, cl, shutdown>>

\* getOrCreateClient: the cached client, or a new one that must log in first.
LoadHit(h) ==
  /\ pc[h] = "load" /\ clients[tgt[h]] # None
  /\ ProbeWith(h, clients[tgt[h]])
  /\ UNCHANGED <<clients, tokens, shutdown>>

LoadMiss(h) ==
  /\ pc[h] = "load" /\ clients[tgt[h]] = None
  /\ Goto(h, "new")
  /\ UNCHANGED <<clients, tokens, shutdown>>

\* obsclient.New fails on the CA file.
NewFails(h) ==
  /\ pc[h] = "new"
  /\ Goto(h, "done")
  /\ UNCHANGED <<clients, tokens, shutdown>>

NewClient(h) ==
  /\ pc[h] = "new" /\ h \notin cancelled
  /\ Goto(h, "login")
  /\ UNCHANGED <<clients, tokens, shutdown>>

\* The context is done before c.Login: no /login is sent.
LoginNotSent(h) ==
  /\ pc[h] = "new" /\ h \in cancelled
  /\ Goto(h, "done")
  /\ UNCHANGED <<clients, tokens, shutdown>>

LoginOk(h) ==
  /\ pc[h] = "login" /\ h \notin cancelled
  /\ session' = [session EXCEPT ![h] = "live"]
  /\ Goto(h, "store")
  /\ UNCHANGED <<clients, lost, shutdown>>

\* Refused; or failed, and then /login may have issued a token all the same.
LoginFails(h) ==
  /\ pc[h] = "login"
  /\ lost' \in {lost} \cup (IF CanFail(h) THEN {lost \cup {h}} ELSE {})
  /\ Goto(h, "done")
  /\ UNCHANGED <<clients, session, shutdown>>

\* The bug of a plain Store.
StoreOver(h) ==
  /\ pc[h] = "store"
  /\ clients' = [clients EXCEPT ![tgt[h]] = h]
  /\ ProbeWith(h, h)
  /\ UNCHANGED <<tokens, shutdown>>

\* clients.LoadOrStore: the first client stored is the target's client.
StoreWins(h) ==
  /\ pc[h] = "store" /\ clients[tgt[h]] = None
  /\ clients' = [clients EXCEPT ![tgt[h]] = h]
  /\ ProbeWith(h, h)
  /\ UNCHANGED <<tokens, shutdown>>

\* The bug of a loser that is dropped as it is.
StoreLosesNoLogout(h) ==
  /\ pc[h] = "store" /\ clients[tgt[h]] # None
  /\ ProbeWith(h, clients[tgt[h]])
  /\ UNCHANGED <<clients, tokens, shutdown>>

\* LoadOrStore found another client there: this one must log itself out.
StoreLoses(h) ==
  /\ pc[h] = "store" /\ clients[tgt[h]] # None /\ h \notin cancelled
  /\ Goto(h, "loser")
  /\ UNCHANGED <<clients, tokens, shutdown>>

\* The loser's Logout runs under the request's context and its error is
\* dropped: when it is not sent with the token live, the token is lost with the
\* client ...
LoserLogoutNotSent(h) ==
  /\ pc[h] = "store" /\ clients[tgt[h]] # None /\ h \in cancelled
  /\ session' = [session EXCEPT ![h] = "none"]
  /\ lost' = IF session[h] = "live" THEN lost \cup {h} ELSE lost
  /\ ProbeWith(h, clients[tgt[h]])
  /\ UNCHANGED <<clients, shutdown>>

\* ... and it may be when the Logout fails on the way.
LoserLogout(h) ==
  /\ pc[h] = "loser"
  /\ session' = [session EXCEPT ![h] = "none"]
  /\ lost' \in {lost} \cup
       (IF CanFail(h) /\ session[h] = "live" THEN {lost \cup {h}} ELSE {})
  /\ ProbeWith(h, clients[tgt[h]])
  /\ UNCHANGED <<clients, shutdown>>

-------------------------------------------------------------------------------
\* collector.Probe: authenticated calls on the shared client.  One leaves the
\* token as it is, or finds it dead (or none) and logs in again, which takes a
\* context that is not done.
ProbeLogsIn(h) ==
  /\ pc[h] = "probe" /\ session[cl[h]] # "live" /\ h \notin cancelled
  /\ session' = [session EXCEPT ![cl[h]] = "live"]
  /\ UNCHANGED <<clients, lost, handlers, shutdown>>

ProbeLoginFails(h) ==
  /\ pc[h] = "probe" /\ session[cl[h]] # "live"
  /\ session' = [session EXCEPT ![cl[h]] = "none"]
  /\ lost' \in {lost} \cup (IF CanFail(h) THEN {lost \cup {cl[h]}} ELSE {})
  /\ UNCHANGED <<clients, handlers, shutdown>>

\* The handler writes its response and returns.
Finish(h) ==
  /\ pc[h] = "probe"
  /\ Goto(h, "done")
  /\ UNCHANGED <<clients, tokens, shutdown>>

\* The endpoint forgets a token.
Expire(h) ==
  /\ session[h] = "live"
  /\ session' = [session EXCEPT ![h] = "dead"]
  /\ UNCHANGED <<clients, lost, handlers, shutdown>>

-------------------------------------------------------------------------------
\* The bug of logging out with the server still up.
SignalNoShutdown ==
  /\ sig = "waiting" /\ main = "serving"
  /\ sig' = "logout"
  /\ keys' = {t \in Targets : clients[t] # None}
  /\ UNCHANGED <<clients, tokens, handlers, main, timedOut, visited, failed>>

\* SIGTERM/SIGINT: srv.Shutdown closes the listeners at once ...
Signal ==
  /\ sig = "waiting" /\ main = "serving"
  /\ main' = "closed" /\ sig' = "draining"
  /\ UNCHANGED <<clients, tokens, handlers, timedOut, keys, visited, failed>>

\* ... and returns when no handler is left, or after 10 s with an error that
\* is logged; either way logoutAll begins.
BeginLogoutAll ==
  /\ sig' = "logout"
  /\ keys' = {t \in Targets : clients[t] # None}
  /\ UNCHANGED <<clients, tokens, handlers, main, visited, failed>>

Drained ==
  /\ sig = "draining"
  /\ \A h \in Handlers : pc[h] \notin Active
  /\ BeginLogoutAll
  /\ UNCHANGED timedOut

DrainTimesOut ==
  /\ sig = "draining"
  /\ \E h \in Handlers : pc[h] \in Active
  /\ timedOut' = TRUE
  /\ BeginLogoutAll

\* One callback of Range; Range may or may not see a key stored since it began.
\* Logout finds nothing to do, is answered (and clears the cache whatever the
\* status: a token the endpoint kept is lost), or fails and keeps the token.
Visit(t) ==
  /\ sig = "logout" /\ clients[t] # None /\ t \notin visited
  /\ visited' = visited \cup {t}
  /\ UNCHANGED <<clients, handlers, main, sig, timedOut, keys>>

LogoutTarget(t) ==
  /\ Visit(t)
  /\ session' = [session EXCEPT ![clients[t]] = "none"]
  /\ UNCHANGED <<lost, failed>>

LogoutRefused(t) ==
  /\ Visit(t) /\ NetworkFaults
  /\ session[clients[t]] = "live"
  /\ session' = [session EXCEPT ![clients[t]] = "none"]
  /\ lost' = lost \cup {clients[t]}
  /\ failed' = failed \cup {t}

\* The network, or the 30 s that all the targets share.
LogoutFails(t) ==
  /\ Visit(t)
  /\ session[clients[t]] # "none"
  /\ failed' = failed \cup {t}
  /\ UNCHANGED tokens

LogoutAllDone ==
  /\ sig = "logout" /\ keys \subseteq visited
  /\ sig' = "done"
  /\ UNCHANGED <<clients, tokens, handlers, main, timedOut, keys, visited, failed>>

\* ListenAndServe returns ErrServerClosed as soon as Shutdown has begun, and
\* main returns: the process ends with whatever its goroutines were doing.
MainReturns ==
  /\ main = "closed"
  /\ main' = "exited"
  /\ UNCHANGED <<clients, tokens, handlers, sig, timedOut, keys, visited, failed>>

\* Any other error of ListenAndServe: os.Exit(1).
ServeFails ==
  /\ main = "serving"
  /\ main' = "exited"
  /\ UNCHANGED <<clients, tokens, handlers, sig, timedOut, keys, visited, failed>>

-------------------------------------------------------------------------------
Handle(h) ==
  \/ LoadHit(h) \/ LoadMiss(h) \/ NewFails(h) \/ NewClient(h)
  \/ LoginNotSent(h) \/ LoginOk(h) \/ LoginFails(h)
  \/ StoreWins(h) \/ StoreLoses(h) \/ LoserLogoutNotSent(h) \/ LoserLogout(h)
  \/ ProbeLogsIn(h) \/ ProbeLoginFails(h) \/ Finish(h)

LogoutAll ==
  \/ \E t \in Targets : LogoutTarget(t) \/ LogoutRefused(t) \/ LogoutFails(t)
  \/ LogoutAllDone

Next ==
  /\ Running
  /\ \/ \E h \in Handlers : Accept(h) \/ Cancel(h) \/ Handle(h) \/ Expire(h)
     \/ Signal \/ Drained \/ DrainTimesOut \/ LogoutAll
     \/ MainReturns \/ ServeFails

Spec == Init /\ [][Next]_vars

-------------------------------------------------------------------------------
\* The values the code can give each variable; the server is up until a signal
\* arrives.
TypeOK ==
  /\ clients \in [Targets -> Handlers \cup {None}]
  /\ session \in [Handlers -> {"none", "live", "dead"}]
  /\ lost \subseteq Handlers /\ cancelled \subseteq Handlers
  /\ pc \in [Handlers -> {"idle", "done"} \cup Active]
  /\ tgt \in [Handlers -> Targets]
  /\ cl \in [Handlers -> Handlers \cup {None}]
  /\ main \in {"serving", "closed", "exited"}
  /\ sig \in {"waiting", "draining", "logout", "done"}
  /\ main = "serving" => sig = "waiting"
  /\ timedOut \in BOOLEAN
  /\ keys \subseteq Targets /\ visited \subseteq Targets /\ failed \subseteq Targets

\* However many first scrapes of a target race, all of them probe with the one
\* client that logoutAll will find in the map (main.go:147-178).
OneClientPerTarget ==
  \A h \in Handlers :
    pc[h] = "probe" => cl[h] # None /\ cl[h] = clients[tgt[h]]

\* A live token belongs to a client in the map, or to a handler that is still
\* deciding whether its client goes there: losing the race costs no token
\* unless the exchange itself fails (main.go:150-151).
NoStrayToken ==
  \A h \in Handlers :
    session[h] = "live" => clients[tgt[h]] = h \/ pc[h] \in {"store", "loser"}

\* A shutdown that drained its handlers and got to its end leaves no token
\* behind but those whose own logout failed: no handler logs in again, or
\* stores a new client, behind logoutAll's back (main.go:78-97).
CleanShutdown ==
  sig = "done" /\ ~timedOut =>
    \A h \in Handlers : session[h] = "live" => tgt[h] \in failed

\* README.md:91: on SIGTERM/SIGINT the exporter logs out of every cached target.
LogsOutOnSignal ==
  main = "exited" /\ sig # "waiting" =>
    \A t \in Targets :
      clients[t] # None /\ session[clients[t]] = "live" => t \in failed

\* main.go:150-151: the client that lost the race logs itself out so that no
\* extra token leaks.
LoserGivesTokenBack ==
  \A h \in Handlers : pc[h] = "probe" /\ cl[h] # h => h \notin lost

\* Draining first keeps logoutAll from pulling the token from under a probe, as
\* long as the drain is not given up: only after Shutdown's 10 s have run out
\* does Range come to a client that a handler still probes with (main.go:82-96).
ProbeKeepsItsToken ==
  [][(\E t \in visited' \ visited, h \in Handlers : pc[h] = "probe" /\ cl[h] = clients[t])
       => timedOut]_vars
===============================================================================
