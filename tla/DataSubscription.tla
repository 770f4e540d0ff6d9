--------------------------- MODULE DataSubscription ---------------------------
(***************************************************************************)
(* What subscribing to a connection promises, whatever threads and queues   *)
(* stand between the connection and the subscriber: the chunks received     *)
(* from then on, every one of them, once and in the order they came, until  *)
(* the subscription ends; and after its end one chunk at most.              *)
(***************************************************************************)
EXTENDS Naturals, Sequences

CONSTANT Subscriptions

VARIABLES
    received,   \* how many chunks the connection has received
    phase,      \* "none", "on", "ending" or "off"
    since,      \* chunks received before the subscription began
    got         \* chunks the subscriber has got

vars == <<received, phase, since, got>>

Init ==
    /\ received = 0
    /\ phase = [s \in Subscriptions |-> "none"]
    /\ since = [s \in Subscriptions |-> 0]
    /\ got = [s \in Subscriptions |-> <<>>]

Receive == received' = received + 1 /\ UNCHANGED <<phase, since, got>>

Begin(s) ==
    /\ phase[s] = "none"
    /\ phase' = [phase EXCEPT ![s] = "on"]
    /\ since' = [since EXCEPT ![s] = received]
    /\ UNCHANGED <<received, got>>

\* The next chunk of the stream; it is the last one when the subscription is ending.
Deliver(s) ==
    /\ phase[s] \in {"on", "ending"}
    /\ since[s] + Len(got[s]) < received
    /\ got' = [got EXCEPT ![s] = Append(@, since[s] + Len(@) + 1)]
    /\ phase' = [phase EXCEPT ![s] = IF @ = "ending" THEN "off" ELSE @]
    /\ UNCHANGED <<received, since>>

\* Ending one or all of them (shutdown), with or without the last chunk.
End(S) ==
    /\ \A s \in S : phase[s] \in {"on", "ending"}
    /\ \E p \in [S -> {"ending", "off"}] :
          phase' = [s \in Subscriptions |-> IF s \in S THEN p[s] ELSE phase[s]]
    /\ UNCHANGED <<received, since, got>>

Next ==
    \/ Receive
    \/ \E s \in Subscriptions : Begin(s) \/ Deliver(s)
    \/ \E S \in SUBSET Subscriptions : End(S)

Spec == Init /\ [][Next]_vars

=============================================================================
