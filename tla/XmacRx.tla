------------------------------- MODULE XmacRx -------------------------------
(***************************************************************************)
(* The receive path of the XMAC Ethernet driver                            *)
(* (src/drivers/fxmac/phytium_xmac.c): the ring of receive buffers shared  *)
(* with the MAC, fill_rqueue and recv, the interrupt handler around them,  *)
(* and init/stop.  recv releases sc_mtx to hand frames to the stack, so    *)
(* the interface may be stopped, or stopped and started, in its middle.    *)
(*                                                                         *)
(* As in XmacTx, pc is the program counter of the holder of sc_mtx, and a  *)
(* driver operation is a sequence of steps between which the MAC may run.  *)
(***************************************************************************)
EXTENDS Integers, Sequences, FiniteSets

CONSTANTS
    NumDesc,     \* XMAC_NUM_RX_DESCS
    RxBufs,      \* DEFAULT_NUM_RX_BUFS
    Mbuf,        \* receive buffers (mbuf clusters)
    None         \* the null mbuf pointer

ASSUME ConfigAssumption ==
    /\ NumDesc \in Nat /\ RxBufs \in Nat \ {0}
    /\ RxBufs < NumDesc       \* "Must be < XMAC_NUM_RX_DESCS of course."
    /\ None \notin Mbuf

Slot == 0 .. NumDesc - 1

(* A receive descriptor: NEW (the driver's) and WRAP bits of its address   *)
(* word, the buffer that word is the lower half of the address of, the one *)
(* that addrhi is the upper half of (both None once the MAC is done with   *)
(* it), and whether the control word says that the frame in it is good.    *)
Desc == [new: BOOLEAN, wrap: BOOLEAN, buf: Mbuf \cup {None}, hi: Mbuf \cup {None},
         good: BOOLEAN]

VARIABLES
    pool,         \* mbufs that are free
    stack,        \* mbufs the network stack owns
    running,      \* IFF_DRV_RUNNING
    rxring, rxring_m, rxring_hd_ptr, rxring_tl_ptr, rxring_queued,
    pc, ret,      \* program counter under sc_mtx; where fill_rqueue returns to
    m,            \* local of fill_rqueue
    m_hd,         \* local of recv: frames to hand to the stack, a sequence
    istatus,      \* local of the interrupt handler
    delivering,   \* the interrupt thread is in recv with sc_mtx released
    isr,          \* the MAC's interrupt status register
    rxen,         \* the MAC's receiver is enabled
    rxq,          \* the MAC's queue pointer
    dma           \* where the MAC is writing a frame: the buffers that the
                  \* halves of the address are from; {} when it is not

memVars  == <<pool, stack>>
ringVars == <<rxring, rxring_m, rxring_hd_ptr, rxring_tl_ptr, rxring_queued>>
lockVars == <<pc, ret, m, m_hd, istatus, delivering>>
macVars  == <<isr, rxen, rxq, dma>>
vars == <<memVars, running, ringVars, lockVars, macVars>>

-----------------------------------------------------------------------------
FreshDesc(s) ==
    [new |-> TRUE, wrap |-> s = NumDesc - 1, buf |-> None, hi |-> None, good |-> FALSE]

(* fill_rqueue: a descriptor d after the stores of its control word and    *)
(* the upper half of b's address; in slot s, after that of the lower half. *)
HighDesc_AddrFirst(d, b) == [d EXCEPT !.new = FALSE, !.buf = b]   \* mutant
HighDesc(d, b) == [d EXCEPT !.good = FALSE, !.hi = b]
FilledDesc(d, s, b) == [d EXCEPT !.new = FALSE, !.wrap = s = NumDesc - 1, !.buf = b]

(* recv and fill_rqueue: the slot after s.                                 *)
Following(s) == IF s = NumDesc - 1 THEN 0 ELSE s + 1

(* recv: rxring_m[tl] = NULL.                                              *)
Taken_Kept(s) == rxring_m                                         \* mutant
Taken(s) == [rxring_m EXCEPT ![s] = None]

(* phytium_xmac_stop: the count after the ring was cleared.                *)
StopQueued_Kept == rxring_queued                                  \* mutant
StopQueued == 0

(* phytium_xmac_setup_descs and attach: the interface is down.             *)
Init ==
    /\ pool = Mbuf /\ stack = {} /\ running = FALSE
    /\ rxring = [s \in Slot |-> FreshDesc(s)]
    /\ rxring_m = [s \in Slot |-> None]
    /\ rxring_hd_ptr = 0 /\ rxring_tl_ptr = 0 /\ rxring_queued = 0
    /\ pc = "idle" /\ ret = "init" /\ m = None /\ m_hd = <<>>
    /\ istatus = {} /\ delivering = FALSE
    /\ isr = {} /\ rxen = FALSE /\ rxq = 0 /\ dma = {}

-----------------------------------------------------------------------------
(* phytium_xmac_fill_rqueue.                                               *)

(* m_getcl succeeds: the buffer is recorded, the control word cleared and  *)
(* the upper half of the address stored while the descriptor is not yet    *)
(* the MAC's, which looks at none of these until it is.                    *)
FillAlloc ==
    /\ pc = "fill" /\ rxring_queued < RxBufs
    /\ \E b \in pool : m' = b /\ pool' = pool \ {b}
    /\ rxring_m' = [rxring_m EXCEPT ![rxring_hd_ptr] = m']
    /\ rxring' = [rxring EXCEPT ![rxring_hd_ptr] = HighDesc(@, m')]
    /\ pc' = "post"
    /\ UNCHANGED <<stack, running, rxring_hd_ptr, rxring_tl_ptr, rxring_queued, ret, m_hd,
                   istatus, delivering, macVars>>

(* The address word is written last and gives the buffer to the MAC.       *)
FillPost ==
    /\ pc = "post"
    /\ rxring' = [rxring EXCEPT ![rxring_hd_ptr] = FilledDesc(@, rxring_hd_ptr, m)]
    /\ rxring_hd_ptr' = Following(rxring_hd_ptr)
    /\ rxring_queued' = rxring_queued + 1
    /\ m' = None
    /\ pc' = "fill"
    /\ UNCHANGED <<memVars, running, rxring_m, rxring_tl_ptr, ret, m_hd, istatus,
                   delivering, macVars>>

(* Enough buffers, or m_getcl failed.  The caller goes on: recv releases   *)
(* the lock; the interrupt handler ends; init sets RUNNING.                *)
FillDone ==
    /\ pc = "fill"
    /\ rxring_queued >= RxBufs \/ pool = {}
    /\ pc' = "idle" /\ ret' = "init"
    /\ delivering' = (delivering \/ ret = "recv")
    /\ running' = (running \/ ret = "init")
    /\ UNCHANGED <<memVars, ringVars, m, m_hd, istatus, macVars>>

-----------------------------------------------------------------------------
(* phytium_xmac_intr and phytium_xmac_recv.                                *)

IntrGuard == pc = "idle" /\ ~delivering /\ istatus = {} /\ running /\ isr # {}

IntrPc(status) == IF "rxcompl" \in status THEN "recv" ELSE "rest"

(* Read the status and clear it, before the ring is looked at.             *)
Intr ==
    /\ IntrGuard
    /\ istatus' = isr /\ isr' = {}
    /\ pc' = IntrPc(isr)
    /\ UNCHANGED <<memVars, running, ringVars, ret, m, m_hd, delivering, rxen, rxq, dma>>

(* Take the frame at the tail; keep it when it is good, free it otherwise. *)
RecvTake ==
    /\ pc = "recv" /\ rxring_queued > 0 /\ rxring[rxring_tl_ptr].new
    /\ LET b == rxring_m[rxring_tl_ptr]
       IN IF rxring[rxring_tl_ptr].good
          THEN m_hd' = Append(m_hd, b) /\ UNCHANGED pool
          ELSE pool' = pool \cup {b} /\ UNCHANGED m_hd
    /\ rxring_m' = Taken(rxring_tl_ptr)
    /\ rxring_tl_ptr' = Following(rxring_tl_ptr)
    /\ rxring_queued' = rxring_queued - 1
    /\ UNCHANGED <<stack, running, rxring, rxring_hd_ptr, pc, ret, m, istatus,
                   delivering, macVars>>

RecvRefill ==
    /\ pc = "recv"
    /\ rxring_queued = 0 \/ ~rxring[rxring_tl_ptr].new
    /\ pc' = "fill" /\ ret' = "recv"
    /\ UNCHANGED <<memVars, running, ringVars, m, m_hd, istatus, delivering, macVars>>

(* if_input, without the lock.                                             *)
Deliver ==
    /\ delivering /\ m_hd # <<>>
    /\ stack' = stack \cup {Head(m_hd)}
    /\ m_hd' = Tail(m_hd)
    /\ UNCHANGED <<pool, running, ringVars, pc, ret, m, istatus, delivering, macVars>>

(* recv takes the lock again; RUNNING is not looked at a second time.      *)
RecvRelock ==
    /\ pc = "idle" /\ delivering /\ m_hd = <<>>
    /\ delivering' = FALSE
    /\ pc' = "rest"
    /\ UNCHANGED <<memVars, running, ringVars, ret, m, m_hd, istatus, macVars>>

(* The rest of the handler, for the receiver: with RXUSED in the status    *)
(* read at its start, fill the ring again.                                 *)
IntrRest_NoRefill ==                                              \* mutant
    /\ pc = "rest"
    /\ istatus' = {}
    /\ pc' = "idle"
    /\ UNCHANGED <<memVars, running, ringVars, ret, m, m_hd, delivering, macVars>>

IntrRest_AcksAgain ==                                             \* mutant
    /\ pc = "rest"
    /\ istatus' = {} /\ isr' = {}
    /\ IF "rxused" \in istatus THEN pc' = "fill" /\ ret' = "rest"
                               ELSE pc' = "idle" /\ UNCHANGED ret
    /\ UNCHANGED <<memVars, running, ringVars, m, m_hd, delivering, rxen, rxq, dma>>

IntrRest ==
    /\ pc = "rest"
    /\ istatus' = {}
    /\ IF "rxused" \in istatus THEN pc' = "fill" /\ ret' = "rest"
                               ELSE pc' = "idle" /\ UNCHANGED ret
    /\ UNCHANGED <<memVars, running, ringVars, m, m_hd, delivering, macVars>>

-----------------------------------------------------------------------------
(* phytium_xmac_init_locked: config points the MAC at the base of the ring *)
(* and enables it; then the ring is filled, then RUNNING is set.           *)
InitLocked ==
    /\ pc = "idle" /\ ~running
    /\ rxen' = TRUE /\ rxq' = 0
    /\ pc' = "fill" /\ ret' = "init"
    /\ UNCHANGED <<memVars, running, ringVars, m, m_hd, istatus, delivering, isr, dma>>

Stop_NoReset ==                                                   \* mutant
    /\ pc = "idle" /\ running
    /\ running' = FALSE
    /\ pc' = "stop"
    /\ UNCHANGED <<memVars, ringVars, ret, m, m_hd, istatus, delivering, macVars>>

(* SIOCSIFFLAGS down: RUNNING is cleared and stop resets the MAC first.    *)
Stop ==
    /\ pc = "idle" /\ running
    /\ running' = FALSE
    /\ rxen' = FALSE /\ dma' = {}
    /\ pc' = "stop"
    /\ UNCHANGED <<memVars, ringVars, ret, m, m_hd, istatus, delivering, isr, rxq>>

(* stop: the buffers of the ring are freed and the ring is cleared.        *)
StopClear ==
    /\ pc = "stop"
    /\ pool' = pool \cup ({rxring_m[s] : s \in Slot} \ {None})
    /\ rxring' = [s \in Slot |-> FreshDesc(s)]
    /\ rxring_m' = [s \in Slot |-> None]
    /\ rxring_hd_ptr' = 0 /\ rxring_tl_ptr' = 0 /\ rxring_queued' = StopQueued
    /\ pc' = "idle"
    /\ UNCHANGED <<stack, running, ret, m, m_hd, istatus, delivering, macVars>>

-----------------------------------------------------------------------------
(* The MAC (external).                                                     *)

MacBegin ==
    /\ rxen /\ dma = {} /\ ~rxring[rxq].new
    /\ dma' = {rxring[rxq].hi, rxring[rxq].buf}
    /\ UNCHANGED <<memVars, running, ringVars, lockVars, isr, rxen, rxq>>

(* A frame, good or bad, is in the buffer; the descriptor is the driver's. *)
MacEnd ==
    /\ dma # {}
    /\ \E ok \in BOOLEAN :
          rxring' = [rxring EXCEPT ![rxq].new = TRUE, ![rxq].buf = None, ![rxq].hi = None,
                                   ![rxq].good = ok]
    /\ rxq' = IF rxring[rxq].wrap THEN 0 ELSE rxq + 1
    /\ dma' = {}
    /\ isr' = isr \cup {"rxcompl"}
    /\ UNCHANGED <<memVars, running, rxring_m, rxring_hd_ptr, rxring_tl_ptr,
                   rxring_queued, lockVars, rxen>>

(* A frame arrives and the next descriptor is not the MAC's.               *)
MacNoBuffer ==
    /\ rxen /\ dma = {} /\ rxring[rxq].new
    /\ isr' = isr \cup {"rxused"}
    /\ UNCHANGED <<memVars, running, ringVars, lockVars, rxen, rxq, dma>>

(* The stack is done with a frame.                                         *)
StackFree ==
    /\ \E b \in stack : stack' = stack \ {b} /\ pool' = pool \cup {b}
    /\ UNCHANGED <<running, ringVars, lockVars, macVars>>

-----------------------------------------------------------------------------
Driver == FillAlloc \/ FillPost \/ FillDone \/ RecvTake \/ RecvRefill \/ IntrRest
            \/ StopClear
Mac == MacBegin \/ MacEnd \/ MacNoBuffer

Next == Driver \/ Intr \/ Deliver \/ RecvRelock \/ InitLocked \/ Stop \/ Mac \/ StackFree

(* The lock holder and the interrupt thread run on, waiting threads get    *)
(* the lock although others compete for it, frames keep arriving, and the  *)
(* stack consumes them.                                                    *)
Fairness ==
    /\ WF_vars(Driver) /\ WF_vars(Deliver) /\ WF_vars(StackFree)
    /\ WF_vars(Mac) /\ WF_vars(MacEnd)
    /\ SF_vars(Intr) /\ SF_vars(RecvRelock)

Spec == Init /\ [][Next]_vars
FairSpec == Spec /\ Fairness

-----------------------------------------------------------------------------
(* Properties.                                                             *)

MemTypeOK == pool \subseteq Mbuf /\ stack \subseteq Mbuf /\ running \in BOOLEAN
RingTypeOK ==
    /\ rxring \in [Slot -> Desc] /\ rxring_m \in [Slot -> Mbuf \cup {None}]
    /\ rxring_hd_ptr \in Slot /\ rxring_tl_ptr \in Slot
    /\ rxring_queued \in 0 .. RxBufs
BatchTypeOK == m \in Mbuf \cup {None} /\ m_hd \in Seq(Mbuf)
LockTypeOK ==
    /\ pc \in {"idle", "fill", "post", "recv", "rest", "stop"}
    /\ ret \in {"init", "recv", "rest"}
    /\ istatus \subseteq {"rxcompl", "rxused"} /\ delivering \in BOOLEAN
MacTypeOK ==
    /\ isr \subseteq {"rxcompl", "rxused"} /\ rxen \in BOOLEAN
    /\ rxq \in Slot /\ dma \subseteq Mbuf

(* Every variable has its type; the MAC stays in the ring.                 *)
TypeOK == MemTypeOK /\ RingTypeOK /\ BatchTypeOK /\ LockTypeOK /\ MacTypeOK

InRing == {b \in Mbuf : \E s \in Slot : rxring_m[s] = b}
InBatch == {m_hd[k] : k \in DOMAIN m_hd}

(* Frames are written only to buffers of the ring: never to one that the   *)
(* stack has been given, or that stop has freed, nor to an address with    *)
(* the upper half of another.                                              *)
DmaInRing == dma # {} => dma = {rxring_m[rxq]}

(* A buffer has exactly one owner: free, in the ring, in the batch that    *)
(* recv is handing over, or the stack's.  A stop while recv has released   *)
(* the lock neither frees the batch nor loses it.                          *)
Owned == Mbuf = pool \cup stack \cup InRing \cup InBatch
Apart ==
    /\ pool \cap (stack \cup InRing \cup InBatch) = {}
    /\ stack \cap (InRing \cup InBatch) = {} /\ InRing \cap InBatch = {}
BatchDistinct == \A j, k \in DOMAIN m_hd : m_hd[j] = m_hd[k] => j = k
RingDistinct ==
    \A s, t \in Slot : rxring_m[s] # None /\ rxring_m[s] = rxring_m[t] => s = t
OneOwner == Owned /\ Apart /\ BatchDistinct /\ RingDistinct

(* recv never takes a null buffer: it uses m->m_data without a test, for   *)
(* the count and the NEW bit alone.                                        *)
TailHasBuffer ==
    pc = "recv" /\ rxring_queued > 0 => rxring_m[rxring_tl_ptr] # None

(* A frame that was received is taken from the ring sooner or later, by    *)
(* recv or by a stop: RXCOMPL is not lost between the read of the status   *)
(* and the last look at the ring.                                          *)
FramesTaken ==
    \A s \in Slot :
        (rxring_m[s] # None /\ rxring[s].new /\ pc # "post") ~>
            (rxring_m[s] = None \/ ~rxring[s].new)

(* When every allocation failed and the MAC has no buffer left, the ring   *)
(* is filled again once buffers are available.                             *)
NoStarvation == (running /\ rxring_queued = 0) ~> (~running \/ rxring_queued > 0)
=============================================================================
