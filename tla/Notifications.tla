--------------------------- MODULE Notifications ---------------------------
(***************************************************************************)
(* What the notification broker promises (pkg/in10n/interface.go): a       *)
(* client is eventually notified about the latest offset of a projection   *)
(* it is subscribed to, updates before the subscription included.          *)
(***************************************************************************)
EXTENDS Naturals

CONSTANTS Channels, Keys

VARIABLES offset,         \* the latest offset of each projection key
          subscriptions,  \* the keys a channel is subscribed to
          delivered       \* the offset its client has been notified about

vars == <<offset, subscriptions, delivered>>

\* The keys a channel is to be notified about.
Pending(c) == {k \in subscriptions[c] : offset[k] > delivered[c][k]}

Init ==
    /\ offset = [k \in Keys |-> 0]
    /\ subscriptions = [c \in Channels |-> {}]
    /\ delivered = [c \in Channels |-> [k \in Keys |-> 0]]

\* Updates may come in any order: an offset may go down.
Update(k) ==
    /\ offset'[k] \in Nat
    /\ offset' = [offset EXCEPT ![k] = offset'[k]]
    /\ UNCHANGED <<subscriptions, delivered>>

Subscribe(c, k) ==
    /\ k \notin subscriptions[c]
    /\ subscriptions' = [subscriptions EXCEPT ![c] = @ \cup {k}]
    /\ delivered' = [delivered EXCEPT ![c][k] = 0]
    /\ UNCHANGED offset

Unsubscribe(c, k) ==
    /\ subscriptions' = [subscriptions EXCEPT ![c] = @ \ {k}]
    /\ UNCHANGED <<offset, delivered>>

\* A client is notified about everything that is pending.
Deliver(c) ==
    /\ Pending(c) # {}
    /\ delivered' = [delivered EXCEPT ![c] =
                        [k \in Keys |-> IF k \in Pending(c) THEN offset[k] ELSE @[k]]]
    /\ UNCHANGED <<offset, subscriptions>>

Next ==
    \/ \E k \in Keys : Update(k)
    \/ \E c \in Channels : Deliver(c) \/ \E k \in Keys : Subscribe(c, k) \/ Unsubscribe(c, k)

Spec == Init /\ [][Next]_vars /\ \A c \in Channels : WF_vars(Deliver(c))
=============================================================================
