----------------------------- MODULE TokenSession -----------------------------
(***************************************************************************)
(* What one client promises the management endpoint: of the tokens it was  *)
(* issued it holds at most one at a time, it asks for another only when it *)
(* holds none, and it stops holding a token only when the token is dead or *)
(* a failed exchange lost it.  Who calls, who waits and what is in flight  *)
(* is left to the implementation (ObsClient).                              *)
(***************************************************************************)
CONSTANT Tokens

VARIABLES
  held,   \* the token the client can still use or give back, if any
  live,   \* the tokens the endpoint accepts
  lost,   \* the live ones that no client can give back any more
  used    \* the tokens issued so far

vars == <<held, live, lost, used>>

Init == held = {} /\ live = {} /\ lost = {} /\ used = {}

\* /login issues a token never seen before to a client that holds none.
Acquire(t) ==
  /\ held = {} /\ t \notin used
  /\ held' = {t}
  /\ live' = live \cup {t}
  /\ used' = used \cup {t}
  /\ UNCHANGED lost

\* The client stops holding a dead token ...
Discard ==
  /\ held \cap live = {}
  /\ held' = {}
  /\ UNCHANGED <<live, lost, used>>

\* ... or loses a live one.
Lose ==
  /\ held' = {}
  /\ lost' = lost \cup (held \cap live)
  /\ UNCHANGED <<live, used>>

\* The endpoint revokes or expires a token.
Die(t) ==
  /\ live' = live \ {t}
  /\ lost' = lost \ {t}
  /\ UNCHANGED <<held, used>>

Next == Discard \/ Lose \/ \E t \in Tokens : Acquire(t) \/ Die(t)

Spec == Init /\ [][Next]_vars

\* The promise in one formula: a live token is the one token held, or lost.
Accounted ==
  /\ \A s, t \in held : s = t
  /\ live \subseteq held \cup lost
===============================================================================
