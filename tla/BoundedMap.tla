----------------------------- MODULE BoundedMap -----------------------------
(***************************************************************************)
(* What a detector cache promises, and nothing of how: a map of at most    *)
(* Capacity entries, each with the value of the first call that stored it  *)
(* and the time until which it is remembered.  A call that finds its key   *)
(* alive answers the remembered value and changes nothing, a call that     *)
(* does not remembers its own value, and another entry is forgotten only   *)
(* when the map is full: one entry, and the call reports it.               *)
(***************************************************************************)
EXTENDS Naturals, FiniteSets

CONSTANTS Keys, Values, NoValue, TTL, Capacity

VARIABLES
  store,   \* key -> [value, expiresAt]
  now,     \* the clock
  reply    \* the answer to the last call

vars == << store, now, reply >>

Init ==
  /\ store = [k \in {} |-> NoValue]
  /\ now = 0
  /\ reply = [key |-> NoValue, hit |-> FALSE, value |-> NoValue, evicted |-> 0]

Alive(k) == k \in DOMAIN store /\ now <= store[k].expiresAt

Remembered(k) ==
  /\ Alive(k)
  /\ reply' = [key |-> k, hit |-> TRUE, value |-> store[k].value, evicted |-> 0]
  /\ UNCHANGED << store, now >>

\* The entries a call for k may forget besides an expired one of k: none while
\* there is room, exactly one when there is not.
Victims(k) ==
  LET others == DOMAIN store \ {k} IN
  IF Cardinality(others) < Capacity THEN { {} } ELSE { {j} : j \in others }

Stored(k, v) ==
  /\ ~Alive(k)
  /\ now' \in Nat /\ now' >= now
  /\ \E lost \in Victims(k) :
       /\ store' = [j \in (DOMAIN store \ lost) \cup {k} |->
                      IF j = k THEN [value |-> v, expiresAt |-> now' + TTL]
                               ELSE store[j]]
       /\ reply' = [key |-> k, hit |-> FALSE, value |-> NoValue,
                    evicted |-> Cardinality(lost)]

Tick == now' \in Nat /\ now' > now /\ UNCHANGED << store, reply >>

Next ==
  \/ \E k \in Keys : Remembered(k)
  \/ \E k \in Keys, v \in Values : Stored(k, v)
  \/ Tick

Spec == Init /\ [][Next]_vars
=============================================================================
