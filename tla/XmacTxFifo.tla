----------------------------- MODULE XmacTxFifo -----------------------------
(***************************************************************************)
(* The transmit ring of XmacTx implements TxFifo.  The frames not yet sent *)
(* are those that the driver recorded in txring_m and whose first          *)
(* descriptor is still the MAC's, in the order in which the MAC comes to   *)
(* them.                                                                   *)
(***************************************************************************)
EXTENDS XmacTx

(* Where the MAC is, or will start when the interface comes up.            *)
MacAt == IF running \/ pc = "stop" THEN txq ELSE 0

(* The first descriptors of these frames.                                  *)
Starts == {s \in Slot : txring_m[s] # None /\ ~txring[s].used}

(* How far slot s is ahead, around the ring; a set of slots in that order. *)
Ahead(from, s) == IF s >= from THEN s - from ELSE s - from + NumDesc
Rank(S, from, s) == Cardinality({t \in S : Ahead(from, t) < Ahead(from, s)})
InOrder(S, from) ==
    [k \in 1 .. Cardinality(S) |-> CHOOSE s \in S : Rank(S, from, s) = k - 1]

(* A frame goes on to the first descriptor that has LAST set.              *)
Pieces(s) == {t \in s .. NumDesc - 1 : \A u \in s .. t - 1 : ~txring[u].last}
FrameAt(s) == [pkt |-> txring[s].buf, len |-> Cardinality(Pieces(s))]

pending ==
    [k \in 1 .. Cardinality(Starts) |-> FrameAt(InOrder(Starts, MacAt)[k])]

Fifo == INSTANCE TxFifo
          WITH Packet <- Mbuf, MaxLen <- MaxSegs, fifo <- pending, enabled <- running

(* The ring is a FIFO of whole frames: whatever the interleaving of the    *)
(* driver and the MAC, one frame is added at the end, or the oldest one is *)
(* sent, or, with the MAC stopped, all are discarded.                      *)
ImplementsFifo == Fifo!Spec
=============================================================================
