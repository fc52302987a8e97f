---------------------------- MODULE Exporter_proofs ----------------------------
(***************************************************************************)
(* Proofs about Exporter, for any number of requests and targets.          *)
(***************************************************************************)
EXTENDS Exporter, TLAPS

\* The map holds a client under the target of the handler that made it, which
\* is past getOrCreateClient; a handler probes with a client of the map.
ClientsInv ==
  /\ \A t \in Targets :
       clients[t] # None =>
         tgt[clients[t]] = t /\ pc[clients[t]] \in {"probe", "done"}
  /\ \A h \in Handlers : pc[h] = "loser" => clients[tgt[h]] # None
  /\ OneClientPerTarget

\* A handler that has not logged in has no token yet.
TokensInv ==
  /\ \A h \in Handlers : pc[h] \in {"idle", "load", "new", "login"} => session[h] = "none"
  /\ NoStrayToken

\* Once the drain has ended in time no handler is left, and Range has a key
\* for every client; what it has called back for is logged out or has failed.
ShutdownInv ==
  /\ sig \in {"logout", "done"} /\ ~timedOut =>
       /\ \A h \in Handlers : pc[h] \in {"idle", "done"}
       /\ keys = {t \in Targets : clients[t] # None}
       /\ \A t \in visited :
            clients[t] # None /\ session[clients[t]] = "live" => t \in failed
  /\ sig \in {"waiting", "draining"} => visited = {} /\ ~timedOut
  /\ sig = "done" => keys \subseteq visited

-------------------------------------------------------------------------------
\* Every step keeps the types.
LEMMA TypeStep ==
  ASSUME TypeOK, ClientsInv, [Next]_vars
  PROVE  TypeOK'
<1> USE ExporterAssumption
<1> USE DEF handlers, tokens, shutdown, Goto, ProbeWith, Active, Creating, TypeOK, ClientsInv, OneClientPerTarget
<1>1. ASSUME NEW h \in Handlers, Accept(h) PROVE TypeOK'
  BY <1>1 DEF Accept
<1>2. ASSUME NEW h \in Handlers, Cancel(h) PROVE TypeOK'
  BY <1>2 DEF Cancel
<1>3. ASSUME NEW h \in Handlers, LoadHit(h) PROVE TypeOK'
  BY <1>3 DEF LoadHit
<1>4. ASSUME NEW h \in Handlers, LoadMiss(h) PROVE TypeOK'
  BY <1>4 DEF LoadMiss
<1>5. ASSUME NEW h \in Handlers, NewFails(h) PROVE TypeOK'
  BY <1>5 DEF NewFails
<1>6. ASSUME NEW h \in Handlers, NewClient(h) PROVE TypeOK'
  BY <1>6 DEF NewClient
<1>7. ASSUME NEW h \in Handlers, LoginOk(h) PROVE TypeOK'
  BY <1>7 DEF LoginOk
<1>8. ASSUME NEW h \in Handlers, LoginFails(h) PROVE TypeOK'
  BY <1>8 DEF LoginFails
<1>9. ASSUME NEW h \in Handlers, StoreWins(h) PROVE TypeOK'
  BY <1>9 DEF StoreWins
<1>10. ASSUME NEW h \in Handlers, StoreLoses(h) PROVE TypeOK'
  BY <1>10 DEF StoreLoses
<1>11. ASSUME NEW h \in Handlers, LoserLogout(h) PROVE TypeOK'
  BY <1>11 DEF LoserLogout
<1>12. ASSUME NEW h \in Handlers, ProbeLogsIn(h) PROVE TypeOK'
  BY <1>12 DEF ProbeLogsIn
<1>13. ASSUME NEW h \in Handlers, ProbeLoginFails(h) PROVE TypeOK'
  BY <1>13 DEF ProbeLoginFails
<1>14. ASSUME NEW h \in Handlers, Finish(h) PROVE TypeOK'
  BY <1>14 DEF Finish
<1>15. ASSUME NEW h \in Handlers, Expire(h) PROVE TypeOK'
  BY <1>15 DEF Expire
<1>16. ASSUME NEW t \in Targets, LogoutTarget(t) PROVE TypeOK'
  BY <1>16 DEF LogoutTarget, Visit
<1>17. ASSUME NEW t \in Targets, LogoutRefused(t) PROVE TypeOK'
  BY <1>17 DEF LogoutRefused, Visit
<1>18. ASSUME NEW t \in Targets, LogoutFails(t) PROVE TypeOK'
  BY <1>18 DEF LogoutFails, Visit
<1>19. CASE Signal
  BY <1>19 DEF Signal
<1>20. CASE Drained
  BY <1>20 DEF Drained, BeginLogoutAll
<1>21. CASE DrainTimesOut
  BY <1>21 DEF DrainTimesOut, BeginLogoutAll
<1>22. CASE LogoutAllDone
  BY <1>22 DEF LogoutAllDone
<1>23. CASE MainReturns
  BY <1>23 DEF MainReturns
<1>24. CASE ServeFails
  BY <1>24 DEF ServeFails
<1>25. ASSUME NEW h \in Handlers, LoginNotSent(h) PROVE TypeOK'
  BY <1>25 DEF LoginNotSent
<1>26. ASSUME NEW h \in Handlers, LoserLogoutNotSent(h) PROVE TypeOK'
  BY <1>26 DEF LoserLogoutNotSent
<1>27. CASE UNCHANGED vars
  BY <1>27 DEF vars
<1> QED
  BY <1>1, <1>2, <1>3, <1>4, <1>5, <1>6, <1>7, <1>8, <1>9, <1>10, <1>11, <1>12, <1>13, <1>14, <1>15, <1>16, <1>17, <1>18, <1>19, <1>20, <1>21, <1>22, <1>23, <1>24, <1>25, <1>26, <1>27
     DEF Next, Handle, LogoutAll

\* A client is stored once and never replaced.
LEMMA ClientsStep ==
  ASSUME TypeOK, ClientsInv, [Next]_vars
  PROVE  ClientsInv'
<1> USE ExporterAssumption
<1> USE DEF handlers, tokens, shutdown, Goto, ProbeWith, Active, Creating, TypeOK, ClientsInv, OneClientPerTarget
<1>1. ASSUME NEW h \in Handlers, Accept(h) PROVE ClientsInv'
  BY <1>1 DEF Accept
<1>2. ASSUME NEW h \in Handlers, Cancel(h) PROVE ClientsInv'
  BY <1>2 DEF Cancel
<1>3. ASSUME NEW h \in Handlers, LoadHit(h) PROVE ClientsInv'
  BY <1>3 DEF LoadHit
<1>4. ASSUME NEW h \in Handlers, LoadMiss(h) PROVE ClientsInv'
  BY <1>4 DEF LoadMiss
<1>5. ASSUME NEW h \in Handlers, NewFails(h) PROVE ClientsInv'
  BY <1>5 DEF NewFails
<1>6. ASSUME NEW h \in Handlers, NewClient(h) PROVE ClientsInv'
  BY <1>6 DEF NewClient
<1>7. ASSUME NEW h \in Handlers, LoginOk(h) PROVE ClientsInv'
  BY <1>7 DEF LoginOk
<1>8. ASSUME NEW h \in Handlers, LoginFails(h) PROVE ClientsInv'
  BY <1>8 DEF LoginFails
<1>9. ASSUME NEW h \in Handlers, StoreWins(h) PROVE ClientsInv'
  BY <1>9 DEF StoreWins
<1>10. ASSUME NEW h \in Handlers, StoreLoses(h) PROVE ClientsInv'
  BY <1>10 DEF StoreLoses
<1>11. ASSUME NEW h \in Handlers, LoserLogout(h) PROVE ClientsInv'
  BY <1>11 DEF LoserLogout
<1>12. ASSUME NEW h \in Handlers, ProbeLogsIn(h) PROVE ClientsInv'
  BY <1>12 DEF ProbeLogsIn
<1>13. ASSUME NEW h \in Handlers, ProbeLoginFails(h) PROVE ClientsInv'
  BY <1>13 DEF ProbeLoginFails
<1>14. ASSUME NEW h \in Handlers, Finish(h) PROVE ClientsInv'
  BY <1>14 DEF Finish
<1>15. ASSUME NEW h \in Handlers, Expire(h) PROVE ClientsInv'
  BY <1>15 DEF Expire
<1>16. ASSUME NEW t \in Targets, LogoutTarget(t) PROVE ClientsInv'
  BY <1>16 DEF LogoutTarget, Visit
<1>17. ASSUME NEW t \in Targets, LogoutRefused(t) PROVE ClientsInv'
  BY <1>17 DEF LogoutRefused, Visit
<1>18. ASSUME NEW t \in Targets, LogoutFails(t) PROVE ClientsInv'
  BY <1>18 DEF LogoutFails, Visit
<1>19. CASE Signal
  BY <1>19 DEF Signal
<1>20. CASE Drained
  BY <1>20 DEF Drained, BeginLogoutAll
<1>21. CASE DrainTimesOut
  BY <1>21 DEF DrainTimesOut, BeginLogoutAll
<1>22. CASE LogoutAllDone
  BY <1>22 DEF LogoutAllDone
<1>23. CASE MainReturns
  BY <1>23 DEF MainReturns
<1>24. CASE ServeFails
  BY <1>24 DEF ServeFails
<1>25. ASSUME NEW h \in Handlers, LoginNotSent(h) PROVE ClientsInv'
  BY <1>25 DEF LoginNotSent
<1>26. ASSUME NEW h \in Handlers, LoserLogoutNotSent(h) PROVE ClientsInv'
  BY <1>26 DEF LoserLogoutNotSent
<1>27. CASE UNCHANGED vars
  BY <1>27 DEF vars
<1> QED
  BY <1>1, <1>2, <1>3, <1>4, <1>5, <1>6, <1>7, <1>8, <1>9, <1>10, <1>11, <1>12, <1>13, <1>14, <1>15, <1>16, <1>17, <1>18, <1>19, <1>20, <1>21, <1>22, <1>23, <1>24, <1>25, <1>26, <1>27
     DEF Next, Handle, LogoutAll

\* A token is got by its client's creator or through the map.
LEMMA TokensStep ==
  ASSUME TypeOK, ClientsInv, TokensInv, [Next]_vars
  PROVE  TokensInv'
<1> USE ExporterAssumption
<1> USE DEF handlers, tokens, shutdown, Goto, ProbeWith, Active, Creating, TypeOK, ClientsInv, OneClientPerTarget, TokensInv, NoStrayToken
<1>1. ASSUME NEW h \in Handlers, Accept(h) PROVE TokensInv'
  BY <1>1 DEF Accept
<1>2. ASSUME NEW h \in Handlers, Cancel(h) PROVE TokensInv'
  BY <1>2 DEF Cancel
<1>3. ASSUME NEW h \in Handlers, LoadHit(h) PROVE TokensInv'
  BY <1>3 DEF LoadHit
<1>4. ASSUME NEW h \in Handlers, LoadMiss(h) PROVE TokensInv'
  BY <1>4 DEF LoadMiss
<1>5. ASSUME NEW h \in Handlers, NewFails(h) PROVE TokensInv'
  BY <1>5 DEF NewFails
<1>6. ASSUME NEW h \in Handlers, NewClient(h) PROVE TokensInv'
  BY <1>6 DEF NewClient
<1>7. ASSUME NEW h \in Handlers, LoginOk(h) PROVE TokensInv'
  BY <1>7 DEF LoginOk
<1>8. ASSUME NEW h \in Handlers, LoginFails(h) PROVE TokensInv'
  BY <1>8 DEF LoginFails
<1>9. ASSUME NEW h \in Handlers, StoreWins(h) PROVE TokensInv'
  BY <1>9 DEF StoreWins
<1>10. ASSUME NEW h \in Handlers, StoreLoses(h) PROVE TokensInv'
  BY <1>10 DEF StoreLoses
<1>11. ASSUME NEW h \in Handlers, LoserLogout(h) PROVE TokensInv'
  BY <1>11 DEF LoserLogout
<1>12. ASSUME NEW h \in Handlers, ProbeLogsIn(h) PROVE TokensInv'
  BY <1>12 DEF ProbeLogsIn
<1>13. ASSUME NEW h \in Handlers, ProbeLoginFails(h) PROVE TokensInv'
  BY <1>13 DEF ProbeLoginFails
<1>14. ASSUME NEW h \in Handlers, Finish(h) PROVE TokensInv'
  BY <1>14 DEF Finish
<1>15. ASSUME NEW h \in Handlers, Expire(h) PROVE TokensInv'
  BY <1>15 DEF Expire
<1>16. ASSUME NEW t \in Targets, LogoutTarget(t) PROVE TokensInv'
  BY <1>16 DEF LogoutTarget, Visit
<1>17. ASSUME NEW t \in Targets, LogoutRefused(t) PROVE TokensInv'
  BY <1>17 DEF LogoutRefused, Visit
<1>18. ASSUME NEW t \in Targets, LogoutFails(t) PROVE TokensInv'
  BY <1>18 DEF LogoutFails, Visit
<1>19. CASE Signal
  BY <1>19 DEF Signal
<1>20. CASE Drained
  BY <1>20 DEF Drained, BeginLogoutAll
<1>21. CASE DrainTimesOut
  BY <1>21 DEF DrainTimesOut, BeginLogoutAll
<1>22. CASE LogoutAllDone
  BY <1>22 DEF LogoutAllDone
<1>23. CASE MainReturns
  BY <1>23 DEF MainReturns
<1>24. CASE ServeFails
  BY <1>24 DEF ServeFails
<1>25. ASSUME NEW h \in Handlers, LoginNotSent(h) PROVE TokensInv'
  BY <1>25 DEF LoginNotSent
<1>26. ASSUME NEW h \in Handlers, LoserLogoutNotSent(h) PROVE TokensInv'
  BY <1>26 DEF LoserLogoutNotSent
<1>27. CASE UNCHANGED vars
  BY <1>27 DEF vars
<1> QED
  BY <1>1, <1>2, <1>3, <1>4, <1>5, <1>6, <1>7, <1>8, <1>9, <1>10, <1>11, <1>12, <1>13, <1>14, <1>15, <1>16, <1>17, <1>18, <1>19, <1>20, <1>21, <1>22, <1>23, <1>24, <1>25, <1>26, <1>27
     DEF Next, Handle, LogoutAll

\* After the drain only logoutAll moves.
LEMMA ShutdownStep ==
  ASSUME TypeOK, ClientsInv, TokensInv, ShutdownInv, [Next]_vars
  PROVE  ShutdownInv'
<1> USE ExporterAssumption
<1> USE DEF handlers, tokens, shutdown, Goto, ProbeWith, Active, Creating, TypeOK, ClientsInv, OneClientPerTarget, TokensInv, ShutdownInv
<1>1. ASSUME NEW h \in Handlers, Accept(h) PROVE ShutdownInv'
  BY <1>1 DEF Accept
<1>2. ASSUME NEW h \in Handlers, Cancel(h) PROVE ShutdownInv'
  BY <1>2 DEF Cancel
<1>3. ASSUME NEW h \in Handlers, LoadHit(h) PROVE ShutdownInv'
  BY <1>3 DEF LoadHit
<1>4. ASSUME NEW h \in Handlers, LoadMiss(h) PROVE ShutdownInv'
  BY <1>4 DEF LoadMiss
<1>5. ASSUME NEW h \in Handlers, NewFails(h) PROVE ShutdownInv'
  BY <1>5 DEF NewFails
<1>6. ASSUME NEW h \in Handlers, NewClient(h) PROVE ShutdownInv'
  BY <1>6 DEF NewClient
<1>7. ASSUME NEW h \in Handlers, LoginOk(h) PROVE ShutdownInv'
  BY <1>7 DEF LoginOk
<1>8. ASSUME NEW h \in Handlers, LoginFails(h) PROVE ShutdownInv'
  BY <1>8 DEF LoginFails
<1>9. ASSUME NEW h \in Handlers, StoreWins(h) PROVE ShutdownInv'
  BY <1>9 DEF StoreWins
<1>10. ASSUME NEW h \in Handlers, StoreLoses(h) PROVE ShutdownInv'
  BY <1>10 DEF StoreLoses
<1>11. ASSUME NEW h \in Handlers, LoserLogout(h) PROVE ShutdownInv'
  BY <1>11 DEF LoserLogout
<1>12. ASSUME NEW h \in Handlers, ProbeLogsIn(h) PROVE ShutdownInv'
  BY <1>12 DEF ProbeLogsIn
<1>13. ASSUME NEW h \in Handlers, ProbeLoginFails(h) PROVE ShutdownInv'
  BY <1>13 DEF ProbeLoginFails
<1>14. ASSUME NEW h \in Handlers, Finish(h) PROVE ShutdownInv'
  BY <1>14 DEF Finish
<1>15. ASSUME NEW h \in Handlers, Expire(h) PROVE ShutdownInv'
  BY <1>15 DEF Expire
<1>16. ASSUME NEW t \in Targets, LogoutTarget(t) PROVE ShutdownInv'
  BY <1>16 DEF LogoutTarget, Visit
<1>17. ASSUME NEW t \in Targets, LogoutRefused(t) PROVE ShutdownInv'
  BY <1>17 DEF LogoutRefused, Visit
<1>18. ASSUME NEW t \in Targets, LogoutFails(t) PROVE ShutdownInv'
  BY <1>18 DEF LogoutFails, Visit
<1>19. CASE Signal
  BY <1>19 DEF Signal
<1>20. CASE Drained
  BY <1>20 DEF Drained, BeginLogoutAll
<1>21. CASE DrainTimesOut
  BY <1>21 DEF DrainTimesOut, BeginLogoutAll
<1>22. CASE LogoutAllDone
  BY <1>22 DEF LogoutAllDone
<1>23. CASE MainReturns
  BY <1>23 DEF MainReturns
<1>24. CASE ServeFails
  BY <1>24 DEF ServeFails
<1>25. ASSUME NEW h \in Handlers, LoginNotSent(h) PROVE ShutdownInv'
  BY <1>25 DEF LoginNotSent
<1>26. ASSUME NEW h \in Handlers, LoserLogoutNotSent(h) PROVE ShutdownInv'
  BY <1>26 DEF LoserLogoutNotSent
<1>27. CASE UNCHANGED vars
  BY <1>27 DEF vars
<1> QED
  BY <1>1, <1>2, <1>3, <1>4, <1>5, <1>6, <1>7, <1>8, <1>9, <1>10, <1>11, <1>12, <1>13, <1>14, <1>15, <1>16, <1>17, <1>18, <1>19, <1>20, <1>21, <1>22, <1>23, <1>24, <1>25, <1>26, <1>27
     DEF Next, Handle, LogoutAll

-------------------------------------------------------------------------------
IInv == TypeOK /\ ClientsInv /\ TokensInv /\ ShutdownInv

LEMMA InitIInv == Init => IInv
  BY ExporterAssumption
     DEF Init, IInv, TypeOK, ClientsInv, OneClientPerTarget, TokensInv,
         NoStrayToken, ShutdownInv, Active, Creating

LEMMA IInvariant == Spec => []IInv
<1>1. IInv /\ [Next]_vars => IInv'
  BY TypeStep, ClientsStep, TokensStep, ShutdownStep DEF IInv
<1> QED
  BY <1>1, InitIInv, PTL DEF Spec

\* Type correctness.
THEOREM TypeCorrect == Spec => []TypeOK
<1>1. IInv => TypeOK
  BY DEF IInv
<1> QED
  BY <1>1, IInvariant, PTL

\* All the handlers of a target probe with the client logoutAll will find
\* (main.go:147-178).
THEOREM OneClient == Spec => []OneClientPerTarget
<1>1. IInv => OneClientPerTarget
  BY DEF IInv, ClientsInv
<1> QED
  BY <1>1, IInvariant, PTL

\* No token outlives the race for a target's client unless an exchange failed
\* (main.go:150-151, 173-177).
THEOREM NoStray == Spec => []NoStrayToken
<1>1. IInv => NoStrayToken
  BY DEF IInv, TokensInv
<1> QED
  BY <1>1, IInvariant, PTL

\* A drained shutdown that runs to its end leaves only the tokens whose logout
\* failed (main.go:90-96).
THEOREM CleanEnd == Spec => []CleanShutdown
<1>1. IInv => CleanShutdown
  BY ExporterAssumption
     DEF IInv, TypeOK, TokensInv, NoStrayToken, ShutdownInv, CleanShutdown
<1> QED
  BY <1>1, IInvariant, PTL

\* A token is pulled from under a probe only after the drain has timed out
\* (main.go:82-96).
THEOREM TokenKept == Spec => ProbeKeepsItsToken
<1> DEFINE Pulled == \E t \in visited' \ visited, h \in Handlers :
                       pc[h] = "probe" /\ cl[h] = clients[t]
<1>1. IInv /\ [Next]_vars => [Pulled => timedOut]_vars
  <2> SUFFICES ASSUME IInv, Next, Pulled PROVE timedOut
    BY DEF vars
  <2>1. visited' # visited
    OBVIOUS
  <2>2. PICK t \in Targets : Visit(t)
    BY <2>1 DEF Next, Handle, LogoutAll, Accept, Cancel, LoadHit, LoadMiss, NewFails,
         NewClient, LoginNotSent, LoginOk, LoginFails, StoreWins, StoreLoses,
         LoserLogoutNotSent, LoserLogout,
         ProbeLogsIn, ProbeLoginFails, Finish, Expire, Signal, Drained, DrainTimesOut,
         BeginLogoutAll, LogoutTarget, LogoutRefused, LogoutFails, LogoutAllDone,
         MainReturns, ServeFails, shutdown
  <2> QED
    BY <2>2 DEF Visit, IInv, ShutdownInv
<1> QED
  BY <1>1, IInvariant, PTL DEF Spec, ProbeKeepsItsToken
===============================================================================
