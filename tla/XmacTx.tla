------------------------------- MODULE XmacTx -------------------------------
(***************************************************************************)
(* The transmit path of the XMAC Ethernet driver                           *)
(* (src/drivers/fxmac/phytium_xmac.c): the interface send queue, the ring  *)
(* of transmit descriptors shared with the MAC, the code that fills it     *)
(* (start_locked), the code that reclaims it (clean_tx), the interrupt     *)
(* handler that drives both, and stop/init.                                *)
(*                                                                         *)
(* Everything the driver does to the ring happens under sc_mtx, but the    *)
(* MAC reads and writes the ring at any time: a driver operation is        *)
(* therefore a sequence of steps, one per descriptor it touches, between   *)
(* which the MAC may run.  pc is the program counter of the thread that    *)
(* holds sc_mtx, "idle" when nobody does.                                  *)
(***************************************************************************)
EXTENDS Integers, Sequences, FiniteSets

CONSTANTS
    NumDesc,     \* XMAC_NUM_TX_DESCS
    MaxSegs,     \* TX_MAX_DMA_SEGS
    Mbuf,        \* the packets (mbuf chains) of the network stack
    None,        \* the null mbuf pointer
    MaxSenders   \* threads of the stack inside if_transmit at one time

ASSUME ConfigAssumption ==
    /\ NumDesc \in Nat /\ MaxSegs \in Nat \ {0}
    /\ NumDesc > 2 * MaxSegs
    /\ MaxSenders \in Nat
    /\ None \notin Mbuf

Slot == 0 .. NumDesc - 1
Idle == -1                                \* the MAC is between two frames

(* One transmit descriptor: the USED, LAST and WRAP bits of its ctl word   *)
(* and the packet its address points into (None once USED is set: nobody   *)
(* follows the address of a used descriptor).                              *)
Desc == [used: BOOLEAN, last: BOOLEAN, wrap: BOOLEAN, buf: Mbuf \cup {None}]

VARIABLES
    sendq,        \* if_snd: packets the stack has queued on the interface
    live,         \* packets that are allocated (not yet freed)
    up,           \* IFF_UP
    running,      \* IFF_DRV_RUNNING; the MAC's TXEN bit is set exactly then
    oactive,      \* IFF_DRV_OACTIVE
    checked,      \* threads past the stack's IFF_DRV_RUNNING test
    kicks,        \* threads waiting for sc_mtx in phytium_xmac_start
    txring,       \* the descriptors, in memory shared with the MAC
    txring_m,     \* the packet of the frame that starts at a descriptor
    txring_hd_ptr, txring_tl_ptr, txring_queued,
    pc, ret,      \* program counter under sc_mtx; where clean_tx returns to
    m, nsegs, i,  \* locals of start_locked
    ctl,          \* local of clean_tx: the last descriptor it looked at
                  \* (locals are reset when they are dead)
    parked,       \* the interrupt thread is in if_input, sc_mtx released
    isr,          \* the MAC's interrupt status register
    go,           \* the MAC is transmitting
    txq,          \* the MAC's queue pointer: first descriptor of its frame
    cur           \* descriptor of that frame the MAC is reading, or Idle

stackVars == <<sendq, live, up, checked, kicks>>
flagVars  == <<running, oactive>>
ringVars  == <<txring, txring_m, txring_hd_ptr, txring_tl_ptr, txring_queued>>
lockVars  == <<pc, ret, m, nsegs, i, ctl, parked>>
macVars   == <<isr, go, txq, cur>>
vars == <<stackVars, flagVars, ringVars, lockVars, macVars>>

-----------------------------------------------------------------------------
FreshDesc(s) == [used |-> TRUE, last |-> FALSE,
                 wrap |-> s = NumDesc - 1, buf |-> None]

(* phytium_xmac_start_locked: room for the largest frame, and for the      *)
(* descriptors skipped when the frame after it wraps.                      *)
NoSpace == txring_queued >= NumDesc - MaxSegs * 2

(* phytium_xmac_start_locked: the next packet might run off the end.       *)
WrapAfter_NoLookahead(h, n) == h + n >= NumDesc                   \* mutant
WrapAfter(h, n) == h + n + MaxSegs >= NumDesc

(* The segment an iteration of the filling loop stores: last one first.    *)
FillSeg_Forward == nsegs - 1 - i                                  \* mutant
FillSeg == i

(* clean_tx: ctl | USED, written back to the later descriptors of a frame. *)
MarkUsed_Forgotten(d) == d                                        \* mutant
MarkUsed(d) == [d EXCEPT !.used = TRUE, !.buf = None]

(* The descriptor that follows one whose WRAP bit is w.                    *)
Follow(s, w) == IF w THEN 0 ELSE s + 1

(* phytium_xmac_setup_descs, then attach: the interface is down.           *)
Init ==
    /\ sendq = <<>> /\ live = {} /\ up = FALSE /\ checked = 0 /\ kicks = 0
    /\ running = FALSE /\ oactive = FALSE
    /\ txring = [s \in Slot |-> FreshDesc(s)]
    /\ txring_m = [s \in Slot |-> None]
    /\ txring_hd_ptr = 0 /\ txring_tl_ptr = 0 /\ txring_queued = 0
    /\ pc = "idle" /\ ret = "intr" /\ m = None /\ nsegs = 0 /\ i = 0
    /\ ctl = FreshDesc(0) /\ parked = FALSE
    /\ isr = {} /\ go = FALSE /\ txq = 0 /\ cur = Idle

-----------------------------------------------------------------------------
(* The network stack.                                                      *)

(* ether_output_frame: a thread finds the interface up and running.        *)
SendCheck ==
    /\ up /\ running
    /\ checked + kicks < MaxSenders
    /\ checked' = checked + 1
    /\ UNCHANGED <<sendq, live, up, kicks, flagVars, ringVars, lockVars, macVars>>

(* if_transmit: it queues a packet, and calls if_start unless OACTIVE.     *)
Send ==
    /\ checked > 0
    /\ \E p \in Mbuf \ live :
        /\ sendq' = Append(sendq, p)
        /\ live' = live \cup {p}
    /\ checked' = checked - 1
    /\ kicks' = IF oactive THEN kicks ELSE kicks + 1
    /\ UNCHANGED <<up, flagVars, ringVars, lockVars, macVars>>

(* if_down: IFF_UP is cleared and the send queue is flushed.               *)
IfDown ==
    /\ up
    /\ up' = FALSE
    /\ sendq' = <<>>
    /\ live' = live \ {sendq[k] : k \in DOMAIN sendq}
    /\ UNCHANGED <<checked, kicks, flagVars, ringVars, lockVars, macVars>>

(* if_up, before it calls the driver.                                      *)
IfUp ==
    /\ ~up
    /\ up' = TRUE
    /\ UNCHANGED <<sendq, live, checked, kicks, flagVars, ringVars, lockVars, macVars>>

-----------------------------------------------------------------------------
(* Administration: SIOCSIFFLAGS.                                           *)

(* phytium_xmac_init_locked: the queue pointer of the MAC is set to the    *)
(* base of the ring.  What the ring holds is left alone.                   *)
InitLocked ==
    /\ pc = "idle" /\ up /\ ~running
    /\ running' = TRUE /\ oactive' = FALSE
    /\ txq' = 0 /\ cur' = Idle
    /\ UNCHANGED <<stackVars, ringVars, lockVars, isr, go>>

Stop_NoReset ==                                                   \* mutant
    /\ pc = "idle" /\ ~up /\ running
    /\ running' = FALSE
    /\ pc' = "stop"
    /\ UNCHANGED <<stackVars, oactive, ringVars, ret, m, nsegs, i, ctl, parked,
                   macVars>>

(* SIOCSIFFLAGS with IFF_UP clear: RUNNING is cleared and stop begins by   *)
(* resetting the MAC.                                                      *)
Stop ==
    /\ pc = "idle" /\ ~up /\ running
    /\ running' = FALSE
    /\ go' = FALSE /\ cur' = Idle
    /\ pc' = "stop"
    /\ UNCHANGED <<stackVars, oactive, ringVars, ret, m, nsegs, i, ctl, parked,
                   isr, txq>>

(* phytium_xmac_stop: the packets of the ring are freed, the ring cleared. *)
StopClear ==
    /\ pc = "stop"
    /\ live' = live \ {txring_m[s] : s \in Slot}
    /\ txring' = [s \in Slot |-> FreshDesc(s)]
    /\ txring_m' = [s \in Slot |-> None]
    /\ txring_hd_ptr' = 0 /\ txring_tl_ptr' = 0 /\ txring_queued' = 0
    /\ pc' = "idle"
    /\ UNCHANGED <<sendq, up, checked, kicks, flagVars, ret, m, nsegs, i, ctl,
                   parked, macVars>>

-----------------------------------------------------------------------------
(* phytium_xmac_start_locked.                                              *)

(* phytium_xmac_start: take the lock; nothing to do while OACTIVE.         *)
Start ==
    /\ pc = "idle" /\ kicks > 0
    /\ kicks' = kicks - 1
    /\ pc' = IF oactive THEN "idle" ELSE "start"
    /\ UNCHANGED <<sendq, live, up, checked, flagVars, ringVars, ret, m, nsegs,
                   i, ctl, parked, macVars>>

(* The ring is full at the head of the loop: try to make room.             *)
StartFull ==
    /\ pc = "start" /\ NoSpace
    /\ pc' = "clean" /\ ret' = "space"
    /\ UNCHANGED <<stackVars, flagVars, ringVars, m, nsegs, i, ctl, parked, macVars>>

(* Still no room.                                                          *)
StartOactive ==
    /\ pc = "space" /\ NoSpace
    /\ oactive' = TRUE
    /\ pc' = "idle"
    /\ UNCHANGED <<stackVars, running, ringVars, ret, m, nsegs, i, ctl, parked,
                   macVars>>

StartEmpty ==
    /\ pc \in {"start", "space"} /\ ~NoSpace
    /\ sendq = <<>>
    /\ pc' = "idle"
    /\ UNCHANGED <<stackVars, flagVars, ringVars, ret, m, nsegs, i, ctl, parked,
                   macVars>>

(* if_dequeue and get_segs_for_tx; a chain of more than MaxSegs segments   *)
(* went through m_defrag, which yields a shorter one.                      *)
StartDequeue ==
    /\ pc \in {"start", "space"} /\ ~NoSpace
    /\ sendq # <<>>
    /\ sendq' = Tail(sendq)
    /\ m' = Head(sendq)
    /\ \E n \in 1 .. MaxSegs : nsegs' = n /\ i' = n - 1
    /\ txring_m' = [txring_m EXCEPT ![txring_hd_ptr] = Head(sendq)]
    /\ pc' = "fill"
    /\ UNCHANGED <<live, up, checked, kicks, flagVars, txring, txring_hd_ptr,
                   txring_tl_ptr, txring_queued, ret, ctl, parked, macVars>>

StartDrop_Leak ==                                                 \* mutant
    /\ pc \in {"start", "space"} /\ ~NoSpace
    /\ sendq # <<>>
    /\ sendq' = Tail(sendq)
    /\ pc' = "start"
    /\ UNCHANGED <<live, up, checked, kicks, flagVars, ringVars, ret, m, nsegs, i,
                   ctl, parked, macVars>>

(* m_defrag failed, or the defragmented chain is still too long.           *)
StartDrop ==
    /\ pc \in {"start", "space"} /\ ~NoSpace
    /\ sendq # <<>>
    /\ sendq' = Tail(sendq)
    /\ live' = live \ {Head(sendq)}
    /\ pc' = "start"
    /\ UNCHANGED <<up, checked, kicks, flagVars, ringVars, ret, m, nsegs, i, ctl,
                   parked, macVars>>

(* One iteration of the loop that fills the descriptors back to front, so  *)
(* that the USED bit of the first one is cleared last.                     *)
FillDesc ==
    /\ pc = "fill"
    /\ LET s == txring_hd_ptr + FillSeg
           end == FillSeg = nsegs - 1
       IN /\ txring' = [txring EXCEPT ![s] =
                 [used |-> FALSE, last |-> end,
                  wrap |-> end /\ WrapAfter(txring_hd_ptr, nsegs), buf |-> m]]
          /\ txring_m' = IF FillSeg # 0 THEN [txring_m EXCEPT ![s] = None] ELSE txring_m
    /\ IF i = 0 THEN pc' = "kick" /\ i' = i
                ELSE pc' = pc /\ i' = i - 1
    /\ UNCHANGED <<stackVars, flagVars, txring_hd_ptr, txring_tl_ptr,
                   txring_queued, ret, m, nsegs, ctl, parked, macVars>>

(* Advance the head and write STARTTX, which a stopped MAC ignores.        *)
StartKick ==
    /\ pc = "kick"
    /\ txring_hd_ptr' = IF WrapAfter(txring_hd_ptr, nsegs)
                        THEN 0 ELSE txring_hd_ptr + nsegs
    /\ txring_queued' = txring_queued + nsegs
    /\ go' = running
    /\ m' = None /\ nsegs' = 0
    /\ pc' = "start"
    /\ UNCHANGED <<stackVars, flagVars, txring, txring_m, txring_tl_ptr, ret,
                   i, ctl, parked, isr, txq, cur>>

-----------------------------------------------------------------------------
(* phytium_xmac_clean_tx.                                                  *)

(* The frame at the tail is finished: free its packet.                     *)
CleanFrame ==
    /\ pc = "clean"
    /\ txring_queued > 0 /\ txring[txring_tl_ptr].used
    /\ ctl' = txring[txring_tl_ptr]
    /\ live' = live \ {txring_m[txring_tl_ptr]}
    /\ txring_m' = [txring_m EXCEPT ![txring_tl_ptr] = None]
    /\ pc' = "walk"
    /\ UNCHANGED <<sendq, up, checked, kicks, flagVars, txring, txring_hd_ptr,
                   txring_tl_ptr, txring_queued, ret, m, nsegs, i, parked, macVars>>

(* The frame has more descriptors: the MAC set USED in the first only, so  *)
(* set it in each of the others.                                           *)
CleanSkip ==
    /\ pc = "walk" /\ ~ctl.last
    /\ LET t == Follow(txring_tl_ptr, ctl.wrap)
       IN /\ txring_tl_ptr' = t
          /\ ctl' = txring[t]
          /\ txring' = [txring EXCEPT ![t] = MarkUsed(@)]
    /\ txring_queued' = txring_queued - 1
    /\ UNCHANGED <<stackVars, flagVars, txring_m, txring_hd_ptr, pc, ret, m,
                   nsegs, i, parked, macVars>>

(* Past the last descriptor of the frame.                                  *)
CleanNext ==
    /\ pc = "walk" /\ ctl.last
    /\ txring_tl_ptr' = Follow(txring_tl_ptr, ctl.wrap)
    /\ txring_queued' = txring_queued - 1
    /\ oactive' = FALSE
    /\ ctl' = FreshDesc(0)
    /\ pc' = "clean"
    /\ UNCHANGED <<stackVars, running, txring, txring_m, txring_hd_ptr, ret, m,
                   nsegs, i, parked, macVars>>

(* Where clean_tx returns to: the interrupt handler goes on to restart the *)
(* transmitter if packets wait, start_locked to its second test.           *)
AfterClean_NoRestart == IF ret = "space" THEN "space" ELSE "idle" \* mutant
AfterClean == CASE ret = "space" -> "space"
                [] ret = "intr" /\ sendq # <<>> /\ ~oactive -> "start"
                [] OTHER -> "idle"

(* Nothing more to reclaim.                                                *)
CleanDone ==
    /\ pc = "clean"
    /\ txring_queued = 0 \/ ~txring[txring_tl_ptr].used
    /\ pc' = AfterClean /\ ret' = "intr"
    /\ UNCHANGED <<stackVars, flagVars, ringVars, m, nsegs, i, ctl, parked, macVars>>

-----------------------------------------------------------------------------
(* phytium_xmac_intr.                                                      *)

(* Read the interrupt status and clear it.  When a frame was received,     *)
(* recv releases the lock to hand it to the stack.                         *)
Intr ==
    /\ pc = "idle" /\ ~parked /\ running /\ isr # {}
    /\ isr' = {}
    /\ IF "rxcompl" \in isr
       THEN parked' = TRUE /\ UNCHANGED <<pc, ret>>
       ELSE pc' = "clean" /\ ret' = "intr" /\ UNCHANGED parked
    /\ UNCHANGED <<stackVars, flagVars, ringVars, m, nsegs, i, ctl, go, txq, cur>>

IntrResume_Returns ==                                             \* mutant
    /\ pc = "idle" /\ parked
    /\ parked' = FALSE
    /\ UNCHANGED <<stackVars, flagVars, ringVars, pc, ret, m, nsegs, i, ctl, macVars>>

(* recv takes the lock again; RUNNING is not looked at a second time.      *)
IntrResume ==
    /\ pc = "idle" /\ parked
    /\ parked' = FALSE
    /\ pc' = "clean" /\ ret' = "intr"
    /\ UNCHANGED <<stackVars, flagVars, ringVars, m, nsegs, i, ctl, macVars>>

-----------------------------------------------------------------------------
(* The MAC (external): it transmits the frame at its queue pointer.        *)

(* A descriptor with USED set stops it and raises TXUSED.                  *)
MacHalt ==
    /\ go /\ cur = Idle /\ txring[txq].used
    /\ go' = FALSE
    /\ isr' = isr \cup {"txused"}
    /\ UNCHANGED <<stackVars, flagVars, ringVars, lockVars, txq, cur>>

MacFetch ==
    /\ go /\ cur = Idle /\ ~txring[txq].used
    /\ cur' = txq
    /\ UNCHANGED <<stackVars, flagVars, ringVars, lockVars, isr, go, txq>>

MacNext ==
    /\ go /\ cur # Idle /\ ~txring[cur].last
    /\ cur' = Follow(cur, txring[cur].wrap)
    /\ UNCHANGED <<stackVars, flagVars, ringVars, lockVars, isr, go, txq>>

(* The frame is out: USED is written back to its first descriptor.         *)
MacDone ==
    /\ go /\ cur # Idle /\ txring[cur].last
    /\ txring' = [txring EXCEPT ![txq].used = TRUE, ![txq].buf = None]
    /\ txq' = Follow(cur, txring[cur].wrap)
    /\ cur' = Idle
    /\ UNCHANGED <<stackVars, flagVars, txring_m, txring_hd_ptr, txring_tl_ptr,
                   txring_queued, lockVars, isr, go>>

(* A frame arrives.                                                        *)
MacReceive ==
    /\ running /\ "rxcompl" \notin isr
    /\ isr' = isr \cup {"rxcompl"}
    /\ UNCHANGED <<stackVars, flagVars, ringVars, lockVars, go, txq, cur>>

-----------------------------------------------------------------------------
Clean == CleanFrame \/ CleanSkip \/ CleanNext \/ CleanDone
StartLocked == StartFull \/ StartOactive \/ StartEmpty \/ StartDequeue
                 \/ StartDrop \/ FillDesc \/ StartKick
Driver == StartLocked \/ Clean \/ StopClear
Mac == MacHalt \/ MacFetch \/ MacNext \/ MacDone
Stack == SendCheck \/ Send \/ IfDown \/ IfUp

Next == \/ Stack \/ InitLocked \/ Stop
        \/ Start \/ Driver
        \/ Intr \/ IntrResume
        \/ Mac \/ MacReceive

(* Whoever holds the lock runs on, a waiting thread gets the lock sooner   *)
(* or later although others compete for it, and a started MAC transmits.   *)
Fairness ==
    /\ WF_vars(Driver)
    /\ SF_vars(Start) /\ SF_vars(Intr) /\ SF_vars(IntrResume)
    /\ WF_vars(Mac)

Spec == Init /\ [][Next]_vars
FairSpec == Spec /\ Fairness

-----------------------------------------------------------------------------
(* Properties.                                                             *)

(* Every variable has its type.  The head is never so near the end of the  *)
(* ring that the longest frame would run off it: start_locked indexes      *)
(* txring[txring_hd_ptr + i] without a test.                               *)
TypeOK ==
    /\ sendq \in Seq(Mbuf) /\ live \subseteq Mbuf
    /\ up \in BOOLEAN /\ running \in BOOLEAN /\ oactive \in BOOLEAN
    /\ checked \in Nat /\ kicks \in Nat /\ checked + kicks <= MaxSenders
    /\ txring \in [Slot -> Desc]
    /\ txring_m \in [Slot -> Mbuf \cup {None}]
    /\ txring_hd_ptr \in 0 .. NumDesc - MaxSegs - 1
    /\ txring_tl_ptr \in Slot
    /\ txring_queued \in 0 .. NumDesc - MaxSegs - 1
    /\ pc \in {"idle", "start", "space", "fill", "kick", "clean", "walk", "stop"}
    /\ ret \in {"intr", "space"}
    /\ m \in Mbuf \cup {None}
    /\ nsegs \in 0 .. MaxSegs /\ i \in 0 .. MaxSegs - 1
    /\ ctl \in Desc /\ parked \in BOOLEAN
    /\ isr \subseteq {"txused", "rxcompl"} /\ go \in BOOLEAN
    /\ txq \in Slot /\ cur \in Slot \cup {Idle}

(* The MAC never sees a half written frame: while it is inside one, every  *)
(* descriptor it comes to is its to read and belongs to the packet that    *)
(* the frame's first descriptor stands for, although start_locked writes   *)
(* descriptors and clean_tx recycles them at the same time.                *)
NoTornFrame ==
    cur # Idle => /\ ~txring[cur].used
                  /\ txring[cur].buf = txring_m[txq]

(* The MAC never reads the data of a packet that was freed, neither after  *)
(* clean_tx nor while phytium_xmac_stop frees the whole ring.              *)
MacReadsLive == cur # Idle => txring[cur].buf \in live

(* The packets of the ring, by their first descriptors.                    *)
InRing == {p \in Mbuf : \E s \in Slot : txring_m[s] = p}
InSendq == {sendq[k] : k \in DOMAIN sendq}

(* No packet is lost or freed twice: an allocated packet is on the send    *)
(* queue or in exactly one entry of txring_m, and those hold no freed one. *)
Conservation ==
    /\ live = InSendq \cup InRing
    /\ InSendq \cap InRing = {}
    /\ \A s, t \in Slot : txring_m[s] # None /\ txring_m[s] = txring_m[t] => s = t

(* Whatever the MAC does, it stops at the head: the descriptor that the    *)
(* next frame will start at has USED set, so the ring is never so full     *)
(* that the MAC would run into the descriptors of an older frame.  (In     *)
(* "kick" the head is about to move; in "stop" the ring is about to be     *)
(* cleared and the MAC is off.)                                            *)
HeadStopsMac == pc \notin {"kick", "stop"} => txring[txring_hd_ptr].used

(* A packet that waits because the ring was full is not forgotten: the     *)
(* interrupt that reclaims the ring restarts the transmitter.              *)
WaitingRestarts ==
    \A p \in Mbuf :
        (p \in InSendq /\ up /\ running /\ oactive) ~> p \notin InSendq

(* A frame in the ring of a transmitting MAC is eventually reclaimed: the  *)
(* status is cleared before the ring is examined, so no TXUSED is lost.    *)
FramesLeave == \A p \in Mbuf : (p \in InRing /\ go) ~> p \notin InRing
=============================================================================
