----------------------------- MODULE BoundedFifo -----------------------------
(***************************************************************************)
(* What SpscQueue promises to its two users: a first-in first-out channel  *)
(* that never holds more than Capacity items.  The producer offers the     *)
(* items 1, 2, 3, ... in this order; an item is its own serial number.     *)
(***************************************************************************)
EXTENDS Naturals, Sequences

CONSTANT Capacity     \* the capacity the queue was constructed with

VARIABLES q,          \* the items in the channel, oldest first
          accepted,   \* how many items the channel has taken in
          delivered   \* how many items the channel has handed out

fifoVars == <<q, accepted, delivered>>

Init == q = <<>> /\ accepted = 0 /\ delivered = 0

\* A push that finds room.
Put == /\ Len(q) < Capacity
       /\ q' = Append(q, accepted + 1)
       /\ accepted' = accepted + 1
       /\ UNCHANGED delivered

\* A pop of the oldest item, which is the next one in serial order.
Take == /\ q # <<>>
        /\ Head(q) = delivered + 1
        /\ q' = Tail(q)
        /\ delivered' = delivered + 1
        /\ UNCHANGED accepted

Next == Put \/ Take

Spec == Init /\ [][Next]_fifoVars
=============================================================================
