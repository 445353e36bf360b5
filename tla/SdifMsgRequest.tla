--------------------------- MODULE SdifMsgRequest ---------------------------
(***************************************************************************)
(* The request path of the second SDIF driver                              *)
(* (src/drivers/fsdif_v2_0/phytium_sdif_v2.c) under the ownership of the   *)
(* host (SdifHost): threads claim the host, issue requests and release it. *)
(* request polls the card without the lock, sends SET_BLOCK_COUNT under    *)
(* one hold of sc_mtx and the transfer under another; while the lock is    *)
(* free, other threads look at bus_busy and the timeout callout may run.   *)
(*                                                                         *)
(* finish_command, the interrupt callbacks, the callout and the controller *)
(* have the text of the first driver: they are the actions of SdifRequest, *)
(* instantiated as R, whose request thread is replaced by the ones here.   *)
(***************************************************************************)
EXTENDS SdifHost

CONSTANTS
    Count,       \* the driver's own SET_BLOCK_COUNT on the wire
    Env          \* environments, as in SdifRequest

VARIABLES
    rpc,         \* of each thread: its place in phytium_sdif_v2_request
    kind,        \* of each thread: its request, "cmd", "data" or "multi"
    wired,       \* history: what was last put on the wire, <<thread, command>>
    auto_stop, card, status,                        \* as in SdifRequest; a
    req, curcmd, cmd_done, dto_rcvd, req_pending,   \* thread stands for its
    expect_data, armed, ipc, ibits, ireq,           \* one request
    tpc, treq, hw, hwleft, irq

(* The first driver's request thread is whichever thread holds the lock.   *)
R == INSTANCE SdifRequest WITH Req <- Thread, None <- NoThread, cur <- owner,
                kind <- IF owner = NoThread THEN "cmd" ELSE kind[owner],
                rpc <- IF owner = NoThread THEN "idle" ELSE "held"

hostVars == <<bus_busy, owner, pc>>
reqVars  == <<rpc, kind>>
softc    == <<req, curcmd, cmd_done, dto_rcvd, req_pending, expect_data>>
envVars  == <<auto_stop, card>>
taskVars == <<ipc, ibits, ireq, tpc, treq, envVars>>
hwVars   == <<hw, hwleft, irq>>
msgVars  == <<hostVars, reqVars, wired, taskVars, status, softc, armed, hwVars>>

ASSUME MsgAssumption == R!ConfigAssumption

-----------------------------------------------------------------------------
MsgInit ==
    /\ Init /\ R!Init
    /\ rpc = [t \in Thread |-> "none"]
    /\ kind = [t \in Thread |-> "cmd"]
    /\ wired = <<>>

GotoReq(t, place) == rpc' = [rpc EXCEPT ![t] = place]

(* Multi-block transfers want their block count, unless the controller     *)
(* stops them on its own.                                                  *)
NeedCount(t) == kind[t] = "multi" /\ ~auto_stop

(* acquire_host and release_host, between requests.  sc_mtx may also be    *)
(* the callout's.                                                          *)
HostLock(t) ==
    /\ tpc = "idle"
    /\ Lock(t) \/ (rpc[t] = "none" /\ ReleaseLock(t))
    /\ UNCHANGED <<reqVars, wired, taskVars, status, softc, armed, hwVars>>

HostStep(t) ==
    /\ Sleep(t) \/ WakeTimeout(t) \/ Take(t) \/ Release(t)
    /\ UNCHANGED <<reqVars, wired, taskVars, status, softc, armed, hwVars>>

HostAcquire(t) ==
    /\ Acquire(t)
    /\ UNCHANGED <<reqVars, wired, taskVars, status, softc, armed, hwVars>>

-----------------------------------------------------------------------------
(* phytium_sdif_v2_request.                                                *)

(* The MMC layer (external) has the host and issues a request.             *)
MsgRequest(t) ==
    /\ pc[t] = "in" /\ rpc[t] = "none"
    /\ \E k \in R!Kinds : kind' = [kind EXCEPT ![t] = k]
    /\ status' = [status EXCEPT ![t] = "sent"]
    /\ GotoReq(t, "busy")
    /\ UNCHANGED <<hostVars, wired, taskVars, softc, armed, hwVars>>

(* The card stays busy, DMA cannot be prepared, or the transfer does not   *)
(* start: an error is returned or noted, done() is not called.             *)
MsgBusy(t) ==
    /\ rpc[t] = "busy"
    /\ GotoReq(t, "refused")
    /\ UNCHANGED <<hostVars, kind, wired, taskVars, status, softc, armed, hwVars>>

(* sdif_v2_pre_request, without the lock.                                  *)
MsgPreRequest(t) ==
    /\ rpc[t] = "busy"
    /\ \/ GotoReq(t, IF NeedCount(t) THEN "count" ELSE "second")
       \/ kind[t] = "cmd" /\ GotoReq(t, "skip")       \* not for an eMMC
    /\ UNCHANGED <<hostVars, kind, wired, taskVars, status, softc, armed, hwVars>>

(* SDIF_LOCK: in set_block_count, and again in request.                    *)
MsgLock(t) ==
    /\ rpc[t] \in {"count", "second"} /\ tpc = "idle"
    /\ UseLock(t)
    /\ GotoReq(t, IF rpc[t] = "count" THEN "countflags" ELSE "set")
    /\ UNCHANGED <<kind, wired, taskVars, status, softc, armed, hwVars>>

MsgUnlock_IgnoresError(t) ==                                      \* mutant
    /\ rpc[t] \in {"counted", "uncounted", "armed", "failed"}
    /\ UseUnlock(t)
    /\ GotoReq(t, CASE rpc[t] \in {"counted", "uncounted"} -> "second"
                     [] rpc[t] = "armed" -> "wait"
                     [] rpc[t] = "failed" -> "refused")
    /\ UNCHANGED <<kind, wired, taskVars, status, softc, armed, hwVars>>

MsgUnlock(t) ==
    /\ rpc[t] \in {"counted", "uncounted", "armed", "failed"}
    /\ UseUnlock(t)
    /\ GotoReq(t, CASE rpc[t] = "counted" -> "second"
                   [] rpc[t] = "uncounted" -> "skip"
                   [] rpc[t] = "armed" -> "wait"
                   [] rpc[t] = "failed" -> "refused")
    /\ UNCHANGED <<kind, wired, taskVars, status, softc, armed, hwVars>>

(* set_block_count: the flags of a command without data and without a      *)
(* request ...                                                             *)
MsgCountFlags(t) ==
    /\ rpc[t] = "countflags"
    /\ dto_rcvd' = FALSE /\ cmd_done' = FALSE /\ req_pending' = TRUE
    /\ expect_data' = FALSE
    /\ GotoReq(t, "countxfer")
    /\ UNCHANGED <<hostVars, kind, wired, taskVars, status, req, curcmd, armed, hwVars>>

(* ... the command ...                                                     *)
MsgCountTransfer(t) ==
    /\ rpc[t] = "countxfer"
    /\ hw' = Count /\ hwleft' = {"cmd"} /\ wired' = <<t, "count">>
    /\ GotoReq(t, "poll")
    /\ UNCHANGED <<hostVars, kind, taskVars, status, softc, armed, irq>>

(* ... and its answer, polled for with the lock held.                      *)
MsgCountPolled_Blind(t) ==                                        \* mutant
    /\ rpc[t] = "poll"
    /\ GotoReq(t, "counted")
    /\ UNCHANGED <<hostVars, kind, wired, taskVars, status, softc, armed, hwVars>>

MsgCountPolled(t) ==
    /\ rpc[t] = "poll" /\ ~req_pending
    /\ GotoReq(t, "counted")
    /\ UNCHANGED <<hostVars, kind, wired, taskVars, status, softc, armed, hwVars>>

(* It does not start, is not answered in time, or leaves the card busy.    *)
MsgCountFailed(t) ==
    /\ \/ rpc[t] = "countxfer"
       \/ rpc[t] = "poll" /\ (req_pending => R!Elapsed(Count))
    /\ GotoReq(t, "uncounted")
    /\ UNCHANGED <<hostVars, kind, wired, taskVars, status, softc, armed, hwVars>>

(* pre_request failed: done(), under no lock.                              *)
MsgSkip(t) ==
    /\ rpc[t] = "skip"
    /\ status' = [status EXCEPT ![t] = "done"]
    /\ GotoReq(t, "wait")
    /\ UNCHANGED <<hostVars, kind, wired, taskVars, softc, armed, hwVars>>

MsgSet(t) ==
    /\ rpc[t] = "set"
    /\ req' = t /\ curcmd' = TRUE
    /\ GotoReq(t, "flags")
    /\ UNCHANGED <<hostVars, kind, wired, taskVars, status, cmd_done, dto_rcvd,
                   req_pending, expect_data, armed, hwVars>>

(* sdif_v2_dma_prepare and the flags.                                      *)
MsgFlags(t) ==
    /\ rpc[t] = "flags"
    /\ dto_rcvd' = FALSE /\ cmd_done' = FALSE /\ req_pending' = TRUE
    /\ expect_data' = (kind[t] # "cmd")
    /\ GotoReq(t, "xfer")
    /\ UNCHANGED <<hostVars, kind, wired, taskVars, status, req, curcmd, armed, hwVars>>

MsgTransfer(t) ==
    /\ rpc[t] = "xfer"
    /\ hw' = t /\ hwleft' = (IF kind[t] = "cmd" THEN {"cmd"} ELSE {"cmd", "data"})
    /\ wired' = <<t, "transfer">>
    /\ GotoReq(t, "arm")
    /\ UNCHANGED <<hostVars, kind, taskVars, status, softc, armed, irq>>

MsgFailed(t) ==
    /\ (rpc[t] = "flags" /\ kind[t] # "cmd") \/ rpc[t] = "xfer"
    /\ GotoReq(t, "failed")
    /\ UNCHANGED <<hostVars, kind, wired, taskVars, status, softc, armed, hwVars>>

MsgArm_DataOnly(t) ==                                             \* mutant
    /\ rpc[t] = "arm"
    /\ armed' = IF expect_data THEN t ELSE armed
    /\ GotoReq(t, "armed")
    /\ UNCHANGED <<hostVars, kind, wired, taskVars, status, softc, hwVars>>

(* callout_reset.                                                          *)
MsgArm(t) ==
    /\ rpc[t] = "arm"
    /\ armed' = t
    /\ GotoReq(t, "armed")
    /\ UNCHANGED <<hostVars, kind, wired, taskVars, status, softc, hwVars>>

(* The MMC layer has waited for done().                                    *)
MsgEnd(t) ==
    /\ rpc[t] = "wait" /\ status[t] = "done"
    /\ status' = [status EXCEPT ![t] = "free"]
    /\ GotoReq(t, "none")
    /\ UNCHANGED <<hostVars, kind, wired, taskVars, softc, armed, hwVars>>

-----------------------------------------------------------------------------
(* The interrupt task, the callout and the controller, next to the threads.*)

MsgIntr == (R!Intr \/ R!IntrEnd) /\ UNCHANGED wired
MsgCommandDone == R!CommandDone /\ UNCHANGED wired
MsgDataDone == R!DataDone /\ UNCHANGED wired
MsgFinish ==
    /\ R!Finish \/ R!FinishPrivate \/ R!FinishClearReq \/ R!FinishClearCmd
         \/ R!FinishStop \/ R!FinishDone
    /\ UNCHANGED wired

(* phytium_sdif_v2_timeout; the reset of the controller ends what is on    *)
(* the wire.                                                               *)
MsgTimeout ==
    /\ R!Timeout \/ R!TimeoutReq \/ R!TimeoutRestart \/ R!TimeoutDone
    /\ wired' = IF tpc = "restart" THEN <<>> ELSE wired

MsgHw == (R!HwEvent \/ R!HwLose) /\ UNCHANGED wired

MsgTasks == /\ UNCHANGED <<hostVars, reqVars>>
            /\ \/ MsgIntr \/ MsgCommandDone \/ MsgDataDone \/ MsgFinish
               \/ MsgTimeout \/ MsgHw
            /\ UNCHANGED envVars

-----------------------------------------------------------------------------
MsgFault(t) == MsgBusy(t) \/ MsgCountFailed(t) \/ MsgFailed(t)
MsgStep(t) == MsgPreRequest(t) \/ MsgUnlock(t) \/ MsgCountFlags(t)
    \/ MsgCountTransfer(t) \/ MsgCountPolled(t) \/ MsgSkip(t) \/ MsgSet(t)
    \/ MsgFlags(t) \/ MsgTransfer(t) \/ MsgArm(t) \/ MsgEnd(t)

MsgNext == \/ \E t \in Thread : \/ HostAcquire(t) \/ HostLock(t) \/ HostStep(t)
                                \/ MsgRequest(t) \/ MsgLock(t) \/ MsgStep(t)
                                \/ MsgFault(t)
           \/ MsgTasks

(* Threads and tasks run on, each gets the lock in the end although others *)
(* compete for it, the callout's clock runs, and so does the card unless   *)
(* it loses the answer.                                                    *)
MsgFairness ==
    /\ \A t \in Thread :
          /\ WF_msgVars(HostStep(t)) /\ SF_msgVars(HostLock(t))
          /\ WF_msgVars(MsgStep(t)) /\ SF_msgVars(MsgLock(t))
    /\ WF_msgVars(MsgTasks /\ (MsgIntr \/ MsgCommandDone \/ MsgDataDone \/ MsgFinish))
    /\ WF_msgVars(MsgTasks /\ MsgTimeout /\ R!TimeoutSteps)
    /\ SF_msgVars(MsgTasks /\ MsgTimeout /\ R!Timeout)
    /\ WF_msgVars(MsgTasks /\ MsgHw)

MsgSpec == MsgInit /\ [][MsgNext]_msgVars
MsgFairSpec == MsgSpec /\ MsgFairness

-----------------------------------------------------------------------------
(* Properties.  HostExclusive and HostIsTaken are those of SdifHost.       *)

(* The command on the wire before a multi-block transfer is the block      *)
(* count of that very transfer, although the lock is released between the  *)
(* two: the claim on the host keeps other threads out, and no late timer   *)
(* of an earlier request resets the controller.                            *)
CountThenTransfer ==
    \A t \in Thread :
        NeedCount(t) /\ rpc[t] \in {"counted", "second", "set", "flags", "xfer"}
            => wired = <<t, "count">>

(* An interrupt finishes a request once, after the whole answer to it has  *)
(* come, and finish_command's panic is out of reach.                       *)
MsgAnsweredOnce == R!AnsweredOnce /\ R!PendingWhenDone

(* A request ends: done() is called, or request returned without a command *)
(* on the wire and its caller waits for a done() that never comes.         *)
RequestEnds == \A t \in Thread : rpc[t] = "busy" ~> rpc[t] \in {"none", "refused"}
=============================================================================
