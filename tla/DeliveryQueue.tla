--------------------------- MODULE DeliveryQueue ---------------------------
(***************************************************************************)
(* What the callers of the webhook outbox may rely on, without leases,     *)
(* claims, retries or clocks: a bounded queue per user from which every    *)
(* item is delivered or dropped, where a delivered item stays delivered    *)
(* until it is forgotten and only a dropped one can be queued again        *)
(* (QueuedSignalWebhook and enqueue_signal_webhook's contract).            *)
(***************************************************************************)
EXTENDS Naturals, FiniteSets

CONSTANTS User, Item, Capacity, NoItem

VARIABLE items

State == {"queued", "delivered", "dropped"}

QueuedItems(u) ==
    {i \in Item : items[i] # NoItem /\ items[i].user = u /\ items[i].state = "queued"}

HasRoom(u) == Cardinality(QueuedItems(u)) < Capacity

Init == items = [i \in Item |-> NoItem]

Submit(i, u) ==
    /\ items[i] = NoItem
    /\ HasRoom(u)
    /\ items' = [items EXCEPT ![i] = [user |-> u, state |-> "queued"]]

Resubmit(i) ==
    /\ items[i] # NoItem
    /\ items[i].state = "dropped"
    /\ HasRoom(items[i].user)
    /\ items' = [items EXCEPT ![i].state = "queued"]

Settle(i) ==
    /\ items[i] # NoItem
    /\ items[i].state = "queued"
    /\ \E s \in {"delivered", "dropped"} : items' = [items EXCEPT ![i].state = s]

\* The retention job and the deletion of a channel take away any set of items;
\* the former only settled ones.
Remove(S) == items' = [i \in Item |-> IF i \in S THEN NoItem ELSE items[i]]

Next ==
    \/ \E i \in Item : Resubmit(i) \/ Settle(i) \/ \E u \in User : Submit(i, u)
    \/ \E S \in SUBSET Item : Remove(S)

Spec == Init /\ [][Next]_items
=============================================================================
