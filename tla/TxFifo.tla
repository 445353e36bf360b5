------------------------------- MODULE TxFifo -------------------------------
(***************************************************************************)
(* What the transmit ring of an Ethernet driver promises to the stack:     *)
(* frames it accepted leave in order, whole and once, unless the interface *)
(* is taken down, which discards all of them.                              *)
(***************************************************************************)
EXTENDS Sequences, Naturals

CONSTANTS Packet, MaxLen      \* a frame is a packet in 1 .. MaxLen pieces

VARIABLES fifo,               \* frames accepted and not yet sent
          enabled             \* the transmitter is on

Frame == [pkt: Packet, len: 1 .. MaxLen]

TypeOK == fifo \in Seq(Frame) /\ enabled \in BOOLEAN

Init == fifo = <<>> /\ enabled = FALSE

Accept == \E f \in Frame : fifo' = Append(fifo, f) /\ UNCHANGED enabled

Deliver == enabled /\ fifo # <<>> /\ fifo' = Tail(fifo) /\ UNCHANGED enabled

Discard == ~enabled /\ fifo' = <<>> /\ UNCHANGED enabled

Switch == enabled' = ~enabled /\ UNCHANGED fifo

Next == Accept \/ Deliver \/ Discard \/ Switch

Spec == Init /\ [][Next]_<<fifo, enabled>>
=============================================================================
