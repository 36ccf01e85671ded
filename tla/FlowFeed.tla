------------------------------ MODULE FlowFeed ------------------------------
(***************************************************************************)
(* What a flow stream promises its client: the events the client gets are,  *)
(* at any time, a prefix of the relay of the messages received from the     *)
(* Flow Aggregator, with nothing skipped, repeated or reordered, and the    *)
(* number of flows the aggregator dropped told each time it rises.          *)
(***************************************************************************)
EXTENDS Naturals, Sequences

CONSTANT Message    \* [flows : BOOLEAN, dropped : Nat]

VARIABLES received, got, open

\* Has message n a higher dropped count than all before it?
MoreDropped(r, n) == \A k \in 0..n - 1 : r[n].dropped > IF k = 0 THEN 0 ELSE r[k].dropped

\* The event that relays message n
EventOf(r, n) == [id |-> n, flows |-> r[n].flows,
                  dropped |-> IF MoreDropped(r, n) THEN r[n].dropped ELSE 0]

\* The messages of r that are relayed: those that carry flows or a new count
Relayed(r) == {n \in 1..Len(r) : r[n].flows \/ MoreDropped(r, n)}

\* The message that the last event of s relays
LastId(s) == IF s = <<>> THEN 0 ELSE s[Len(s)].id

\* Message n is the first one after message k to be relayed.
FirstAfter(r, k, n) == n \in Relayed(r) /\ n > k /\ \A m \in Relayed(r) : m > k => n <= m

\* Nothing of r is left to relay after message k.
CaughtUp(r, k) == \A n \in Relayed(r) : n <= k

Init == received = <<>> /\ got = <<>> /\ open = TRUE

Receive ==
  /\ \E m \in Message : received' = Append(received, m)
  /\ UNCHANGED <<got, open>>

Deliver ==
  /\ open
  /\ \E n \in 1..Len(received) :
       /\ FirstAfter(received, LastId(got), n)
       /\ got' = Append(got, EventOf(received, n))
  /\ UNCHANGED <<received, open>>

Close == open /\ open' = FALSE /\ UNCHANGED <<received, got>>

Spec == Init /\ [][Receive \/ Deliver \/ Close]_<<received, got, open>>
=============================================================================
