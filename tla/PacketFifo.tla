---------------------------- MODULE PacketFifo ----------------------------
(***************************************************************************)
(* What a CCLQueue promises to the threads of the player, with no mutex,   *)
(* no condition variable and no memory: two independent channels, one for  *)
(* packets and one for frames.  The n-th item put into a channel is the    *)
(* number n.  An item leaves its channel from the front only, either       *)
(* delivered to a getter or discarded by one of the clearing operations.   *)
(***************************************************************************)
EXTENDS Naturals, Sequences

CONSTANT Half       \* the channels of one queue object

VARIABLES
    fifo,           \* fifo[h]: the items in the channel, oldest first
    produced,       \* produced[h]: how many items were ever put
    delivered       \* delivered[h]: the items handed to getters, in order

vars == <<fifo, produced, delivered>>

Init ==
    /\ fifo = [h \in Half |-> <<>>]
    /\ produced = [h \in Half |-> 0]
    /\ delivered = [h \in Half |-> <<>>]

Put(h) ==
    /\ produced' = [produced EXCEPT ![h] = @ + 1]
    /\ fifo' = [fifo EXCEPT ![h] = Append(@, produced[h] + 1)]
    /\ UNCHANGED delivered

Deliver(h) ==
    /\ fifo[h] # <<>>
    /\ delivered' = [delivered EXCEPT ![h] = Append(@, Head(fifo[h]))]
    /\ fifo' = [fifo EXCEPT ![h] = Tail(@)]
    /\ UNCHANGED produced

Discard(h) ==
    /\ \E k \in 1..Len(fifo[h]) :
          fifo' = [fifo EXCEPT ![h] = SubSeq(@, k + 1, Len(@))]
    /\ UNCHANGED <<produced, delivered>>

Next == \E h \in Half : Put(h) \/ Deliver(h) \/ Discard(h)

Spec == Init /\ [][Next]_vars
=============================================================================
