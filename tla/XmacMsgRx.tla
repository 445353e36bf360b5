----------------------------- MODULE XmacMsgRx -----------------------------
(***************************************************************************)
(* The receive path of the second XMAC driver                              *)
(* (src/drivers/fxmac_v2_0/phytium_xmac_v2.c).  fill_rqueue, recv, the     *)
(* bring-up and the stop have the ring discipline of the first driver, so  *)
(* they are the actions of XmacRx, with the lines they stand for given     *)
(* again.  The interrupt handler differs: it acknowledges RXCOMP a second  *)
(* time when recv comes back, and RUSED a second time when the ring has    *)
(* been filled.                                                            *)
(***************************************************************************)
EXTENDS XmacRx

VARIABLE
    swept      \* history: a second acknowledgement has taken a RXCOMP away
               \* and no frame has come since

msgVars == <<vars, swept>>

-----------------------------------------------------------------------------
(* phytium_xmac_msg_setup_descs.                                           *)
MsgInit == Init /\ swept = FALSE

(* phytium_xmac_msg_fill_rqueue: what it does to the ring ...              *)
MsgFill == (FillAlloc \/ FillPost) /\ UNCHANGED swept

(* ... and its end, in init, in recv, or in the handler after RUSED.       *)
MsgFillDone ==
    /\ pc = "fill" /\ (rxring_queued >= RxBufs \/ pool = {})
    /\ \/ ret \in {"init", "recv"} /\ FillDone
       \/ /\ ret = "rest"
          /\ pc' = "ackused" /\ ret' = "init"
          /\ UNCHANGED <<memVars, running, ringVars, m, m_hd, istatus, delivering, macVars>>
    /\ UNCHANGED swept

-----------------------------------------------------------------------------
(* phytium_xmac_msg_intr.                                                  *)

(* The status is read under the lock, if the interface is up ...           *)
MsgIntr ==
    /\ IntrGuard
    /\ istatus' = isr
    /\ pc' = "ack"
    /\ UNCHANGED <<memVars, running, ringVars, ret, m, m_hd, delivering, macVars, swept>>

MsgAck_All ==                                                     \* mutant
    /\ pc = "ack"
    /\ isr' = {}
    /\ pc' = IntrPc(istatus)
    /\ UNCHANGED <<memVars, running, ringVars, ret, m, m_hd, istatus, delivering,
                   rxen, rxq, dma, swept>>

(* ... and what was read is cleared: not what was raised since.            *)
MsgAck ==
    /\ pc = "ack"
    /\ isr' = isr \ istatus
    /\ pc' = IntrPc(istatus)
    /\ UNCHANGED <<memVars, running, ringVars, ret, m, m_hd, istatus, delivering,
                   rxen, rxq, dma, swept>>

(* phytium_xmac_msg_recv: take the frames, fill, hand them up unlocked.    *)
MsgRecv == (RecvTake \/ RecvRefill) /\ UNCHANGED swept

MsgDeliver == Deliver /\ UNCHANGED swept

MsgRecvRelock ==
    /\ pc = "idle" /\ delivering /\ m_hd = <<>>
    /\ delivering' = FALSE
    /\ pc' = "ackrx"
    /\ UNCHANGED <<memVars, running, ringVars, ret, m, m_hd, istatus, macVars, swept>>

(* RXCOMP is acknowledged again, whatever has raised it meanwhile.         *)
MsgAckRx ==
    /\ pc = "ackrx"
    /\ isr' = isr \ {"rxcompl"}
    /\ swept' = ("rxcompl" \in isr)
    /\ pc' = "rest"
    /\ UNCHANGED <<memVars, running, ringVars, ret, m, m_hd, istatus, delivering,
                   rxen, rxq, dma>>

(* The receiver ran out of buffers: fill the ring, then acknowledge RUSED  *)
(* again.                                                                  *)
MsgRest ==
    /\ pc = "rest"
    /\ IF "rxused" \in istatus
       THEN pc' = "fill" /\ ret' = "rest" /\ UNCHANGED istatus
       ELSE pc' = "idle" /\ istatus' = {} /\ UNCHANGED ret
    /\ UNCHANGED <<memVars, running, ringVars, m, m_hd, delivering, macVars, swept>>

MsgAckUsed_All ==                                                 \* mutant
    /\ pc = "ackused"
    /\ isr' = {} /\ istatus' = {}
    /\ pc' = "idle"
    /\ UNCHANGED <<memVars, running, ringVars, ret, m, m_hd, delivering, rxen, rxq, dma, swept>>

MsgAckUsed ==
    /\ pc = "ackused"
    /\ isr' = isr \ {"rxused"} /\ istatus' = {}
    /\ pc' = "idle"
    /\ UNCHANGED <<memVars, running, ringVars, ret, m, m_hd, delivering, rxen, rxq, dma, swept>>

-----------------------------------------------------------------------------
(* phytium_xmac_msg_init_locked: the firmware is told where the rings are  *)
(* and enables them, then the receive ring is filled.                      *)
MsgInitLocked == InitLocked /\ UNCHANGED swept

(* SIOCSIFFLAGS down, and the reset of the hardware in stop.               *)
MsgStop == Stop /\ UNCHANGED swept

MsgStopClear_KeepsMbufs ==                                        \* mutant
    /\ pc = "stop"
    /\ rxring' = [s \in Slot |-> FreshDesc(s)]
    /\ rxring_hd_ptr' = 0 /\ rxring_tl_ptr' = 0 /\ rxring_queued' = 0
    /\ pc' = "idle"
    /\ UNCHANGED <<memVars, rxring_m, running, ret, m, m_hd, istatus, delivering, macVars, swept>>

(* phytium_xmac_msg_stop: the receive ring is cleared.                     *)
MsgStopClear == StopClear /\ UNCHANGED swept

(* The MAC (external): a new frame raises RXCOMP again.                    *)
MsgMac ==
    \/ (MacBegin \/ MacNoBuffer) /\ UNCHANGED swept
    \/ MacEnd /\ swept' = FALSE

MsgStackFree == StackFree /\ UNCHANGED swept

-----------------------------------------------------------------------------
MsgDriver == MsgFill \/ MsgFillDone \/ MsgAck \/ MsgRecv \/ MsgAckRx \/ MsgRest
               \/ MsgAckUsed \/ MsgStopClear

MsgNext == MsgDriver \/ MsgIntr \/ MsgDeliver \/ MsgRecvRelock \/ MsgInitLocked
             \/ MsgStop \/ MsgMac \/ MsgStackFree

MsgFairness ==
    /\ WF_msgVars(MsgDriver) /\ WF_msgVars(MsgDeliver) /\ WF_msgVars(MsgStackFree)
    /\ WF_msgVars(MsgMac) /\ WF_msgVars(MacEnd /\ swept' = FALSE)
    /\ SF_msgVars(MsgIntr) /\ SF_msgVars(MsgRecvRelock)

MsgSpec == MsgInit /\ [][MsgNext]_msgVars
MsgFairSpec == MsgSpec /\ MsgFairness

-----------------------------------------------------------------------------
(* Properties.  OneOwner is that of XmacRx.                                *)

(* With the handler gone, a received frame is announced by RXCOMP, or it   *)
(* is the second acknowledgement that took its RXCOMP away: neither the    *)
(* first acknowledgement, nor that of RUSED, nor a stop and a new start in *)
(* the middle of recv leaves a frame behind that nothing announces.        *)
OnlyAckRxLoses ==
    pc = "idle" /\ ~delivering /\ running /\ rxring_queued > 0 /\ rxring[rxring_tl_ptr].new
        => "rxcompl" \in isr \/ swept

(* A received frame is taken, unless its RXCOMP was acknowledged a second  *)
(* time; then the next frame brings it out, if there is a buffer for one.  *)
FramesTakenOrSwept ==
    \A s \in Slot :
        (rxring_m[s] # None /\ rxring[s].new /\ pc # "post") ~>
            (rxring_m[s] = None \/ ~rxring[s].new \/ swept)
=============================================================================
