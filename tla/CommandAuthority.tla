-------------------------- MODULE CommandAuthority --------------------------
(***************************************************************************)
(* What the evidence chain promises, without clocks, handlers or tables.   *)
(* Each vehicle scope has at most one live event.  Tokens are granted for  *)
(* live events and spent at most once, while their event is live.  An      *)
(* event that has been retired never comes back.                           *)
(***************************************************************************)
EXTENDS Naturals

CONSTANTS Ids, TokenIds, AllScopes

EventOf == [id: Ids, scope: AllScopes]

VARIABLES
    known,    \* events observed so far
    retired,  \* events that newer telemetry has replaced
    granted,  \* tokens and the event each was granted for
    spent     \* tokens used for a command

authority == <<known, retired, granted, spent>>

Live == known \ retired

LiveIn(s) == {e \in Live : e.scope = s}

Init ==
    /\ known \subseteq EventOf
    /\ retired \subseteq known
    /\ \A e, f \in Live : e.scope = f.scope => e = f
    /\ \A e, f \in known : e.id = f.id => e = f
    /\ granted = {} /\ spent = {}

\* A new event replaces the live one of its scope, or arrives retired when
\* the live one is more recent.
Observe(e) ==
    /\ \A f \in known : f.id # e.id
    /\ known' = known \union {e}
    /\ \/ retired' = retired \union LiveIn(e.scope)
       \/ LiveIn(e.scope) # {} /\ retired' = retired \union {e}
    /\ UNCHANGED <<granted, spent>>

Grant(k, e) ==
    /\ e \in Live
    /\ \A g \in granted : g.token # k
    /\ granted' = granted \union {[token |-> k, event |-> e.id]}
    /\ UNCHANGED <<known, retired, spent>>

Spend(k, e) ==
    /\ e \in Live
    /\ [token |-> k, event |-> e.id] \in granted
    /\ k \notin spent
    /\ spent' = spent \union {k}
    /\ UNCHANGED <<known, retired, granted>>

Next ==
    \/ \E e \in EventOf : Observe(e)
    \/ \E k \in TokenIds, e \in Live : Grant(k, e) \/ Spend(k, e)

Spec == Init /\ [][Next]_authority
=============================================================================
