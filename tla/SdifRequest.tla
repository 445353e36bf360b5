---------------------------- MODULE SdifRequest ----------------------------
(***************************************************************************)
(* The request path of the SD/eMMC host driver                             *)
(* (src/drivers/fsdif/phytium_sdif.c): phytium_sdif_request with the       *)
(* SET_BLOCK_COUNT command it issues on its own, the interrupt callbacks   *)
(* that finish a command, and the timeout callout.                         *)
(*                                                                         *)
(* request and the callout (callout_init_mtx) run under sc_mtx; the        *)
(* interrupt callbacks run in a task of their own and take no lock, so     *)
(* their steps interleave with both.                                       *)
(***************************************************************************)
EXTENDS FiniteSets

CONSTANTS
    Req,         \* requests of the MMC layer, reused once they are done
    None,        \* the null request pointer
    Count,       \* the driver's own SET_BLOCK_COUNT on the wire
    Env          \* the environments: pairs of a setting of auto_stop and a card

Cards == SUBSET {"lossy",        \* may stay busy, fail to start, or not answer
                 "slow"}         \* may answer as late as the timeout

ASSUME ConfigAssumption ==
    /\ None \notin Req /\ Count \notin Req /\ None # Count
    /\ Env \subseteq BOOLEAN \X Cards

Kinds == {"cmd", "data", "multi"}    \* no data, one block, several blocks

VARIABLES
    auto_stop,   \* softc, set at attach: no SET_BLOCK_COUNT before the data
    card,        \* how the card behaves
    status,      \* of each request, for the MMC layer: "free", "sent" to the
                 \* driver, "answered" by the card, "done"
    req, curcmd, \* softc: the request, and that its command is set
    cmd_done, dto_rcvd, req_pending, expect_data,
    armed,       \* timeout_callout: the request it was armed for, or None
    rpc,         \* phytium_sdif_request, which holds sc_mtx unless "idle"
    cur, kind,   \* its argument
    ipc, ibits,  \* the interrupt task, and the status bits it has still to
    ireq,        \* handle; local req of sdif_finish_command
    tpc, treq,   \* phytium_sdif_timeout, which holds sc_mtx unless "idle"
    hw, hwleft,  \* the command the controller executes, events yet to come
    irq          \* the controller's raw interrupt status

softc   == <<req, curcmd, cmd_done, dto_rcvd, req_pending, expect_data>>
reqVars == <<rpc, cur, kind>>
isrVars == <<ipc, ibits, ireq>>
tmoVars == <<tpc, treq>>
hwVars  == <<hw, hwleft, irq>>
envVars == <<auto_stop, card>>
sysVars == <<status, softc, armed, reqVars, isrVars, tmoVars, hwVars>>
vars == <<envVars, sysVars>>

-----------------------------------------------------------------------------
(* sdif_pre_request: a multi-block transfer is preceded by its block count.*)
NeedCount == kind = "multi" /\ ~auto_stop

(* sdif_command_done, sdif_data_done: is the command complete now?         *)
CmdCompletes_NoData == TRUE                                       \* mutant
CmdCompletes == ~expect_data \/ dto_rcvd
DataCompletes == cmd_done

Init ==
    /\ \E e \in Env : auto_stop = e[1] /\ card = e[2]
    /\ status = [r \in Req |-> "free"]
    /\ req = None /\ curcmd = FALSE
    /\ cmd_done = FALSE /\ dto_rcvd = FALSE /\ req_pending = FALSE
    /\ expect_data = FALSE
    /\ armed = None
    /\ rpc = "idle" /\ cur = None /\ kind = "cmd"
    /\ ipc = "idle" /\ ibits = {} /\ ireq = None
    /\ tpc = "idle" /\ treq = None
    /\ hw = None /\ hwleft = {} /\ irq = {}

(* Nobody holds sc_mtx.                                                    *)
Unlocked == rpc = "idle" /\ tpc = "idle"

(* Seconds have passed since command c was started, enough for a timeout:  *)
(* it has been answered and handled, or it never will be.                  *)
Elapsed(c) ==
    \/ "slow" \in card
    \/ /\ irq = {} /\ ipc = "idle"
       /\ hw # c \/ hwleft = {}

-----------------------------------------------------------------------------
(* The MMC layer (external): one request at a time; it waits for done().   *)

Release ==
    /\ \E r \in Req : status[r] = "done" /\ status' = [status EXCEPT ![r] = "free"]
    /\ rpc = "idle"
    /\ UNCHANGED <<softc, armed, reqVars, isrVars, tmoVars, hwVars>>

-----------------------------------------------------------------------------
(* phytium_sdif_request.                                                   *)

(* Enter and take the lock.                                                *)
Request ==
    /\ Unlocked
    /\ \A r \in Req : status[r] = "free"
    /\ \E r \in Req, k \in Kinds :
        /\ status' = [status EXCEPT ![r] = "sent"]
        /\ cur' = r /\ kind' = k
    /\ rpc' = "busy"
    /\ UNCHANGED <<softc, armed, isrVars, tmoVars, hwVars>>

(* The card stays busy: EBUSY is returned, done() is not called.           *)
RequestBusy ==
    /\ rpc = "busy" /\ "lossy" \in card
    /\ rpc' = "idle" /\ cur' = None
    /\ UNCHANGED <<status, softc, armed, kind, isrVars, tmoVars, hwVars>>

(* sdif_pre_request: the block count first, if it is needed.               *)
PreRequest ==
    /\ rpc = "busy"
    /\ rpc' = IF NeedCount THEN "count" ELSE "set"
    /\ UNCHANGED <<status, softc, armed, cur, kind, isrVars, tmoVars, hwVars>>

(* sdif_pre_request: an SD command is not sent to an eMMC.                 *)
PreRequestIgnore ==
    /\ rpc = "busy" /\ kind = "cmd"
    /\ rpc' = "skip"
    /\ UNCHANGED <<status, softc, armed, cur, kind, isrVars, tmoVars, hwVars>>

(* sdif_set_block_count.                                                   *)
CountFlags ==
    /\ rpc = "count"
    /\ dto_rcvd' = FALSE /\ cmd_done' = FALSE /\ req_pending' = TRUE
    /\ expect_data' = FALSE
    /\ rpc' = "countxfer"
    /\ UNCHANGED <<status, req, curcmd, armed, cur, kind, isrVars, tmoVars, hwVars>>

CountTransfer ==
    /\ rpc = "countxfer"
    /\ hw' = Count /\ hwleft' = {"cmd"}
    /\ rpc' = "poll"
    /\ UNCHANGED <<status, softc, armed, cur, kind, isrVars, tmoVars, irq>>

CountPolled ==
    /\ rpc = "poll" /\ ~req_pending
    /\ rpc' = "set"
    /\ UNCHANGED <<status, softc, armed, cur, kind, isrVars, tmoVars, hwVars>>

(* The transfer does not start, the answer does not come in six seconds,   *)
(* or the card stays busy after it.                                        *)
CountFailed ==
    /\ "lossy" \in card
    /\ \/ rpc = "countxfer"
       \/ rpc = "poll" /\ Elapsed(Count)
    /\ rpc' = "skip"
    /\ UNCHANGED <<status, softc, armed, cur, kind, isrVars, tmoVars, hwVars>>

(* sdif_pre_request failed: done() at once, whatever the command's error   *)
(* field holds.                                                            *)
RequestSkip ==
    /\ rpc = "skip"
    /\ status' = [status EXCEPT ![cur] = "done"]
    /\ rpc' = "idle" /\ cur' = None
    /\ UNCHANGED <<softc, armed, kind, isrVars, tmoVars, hwVars>>

RequestSet ==
    /\ rpc = "set"
    /\ req' = cur /\ curcmd' = TRUE
    /\ rpc' = "flags"
    /\ UNCHANGED <<status, cmd_done, dto_rcvd, req_pending, expect_data, armed,
                   cur, kind, isrVars, tmoVars, hwVars>>

RequestFlags_NotPending ==                                        \* mutant
    /\ rpc = "flags"
    /\ dto_rcvd' = FALSE /\ cmd_done' = FALSE
    /\ expect_data' = (kind # "cmd")
    /\ rpc' = "xfer"
    /\ UNCHANGED <<status, req, curcmd, req_pending, armed, cur, kind, isrVars,
                   tmoVars, hwVars>>

RequestFlags ==
    /\ rpc = "flags"
    /\ dto_rcvd' = FALSE /\ cmd_done' = FALSE /\ req_pending' = TRUE
    /\ expect_data' = (kind # "cmd")
    /\ rpc' = "xfer"
    /\ UNCHANGED <<status, req, curcmd, armed, cur, kind, isrVars, tmoVars, hwVars>>

RequestTransfer ==
    /\ rpc = "xfer"
    /\ hw' = cur
    /\ hwleft' = IF kind = "cmd" THEN {"cmd"} ELSE {"cmd", "data"}
    /\ rpc' = "arm"
    /\ UNCHANGED <<status, softc, armed, cur, kind, isrVars, tmoVars, irq>>

(* The transfer does not start: an error is returned, req, curcmd and      *)
(* req_pending stay set, no timer is armed and done() is not called.       *)
RequestFailed ==
    /\ rpc = "xfer" /\ "lossy" \in card
    /\ rpc' = "idle" /\ cur' = None
    /\ UNCHANGED <<status, softc, armed, kind, isrVars, tmoVars, hwVars>>

RequestArm_DataOnly ==                                            \* mutant
    /\ rpc = "arm"
    /\ armed' = IF expect_data THEN cur ELSE armed
    /\ rpc' = "idle" /\ cur' = None
    /\ UNCHANGED <<status, softc, kind, isrVars, tmoVars, hwVars>>

(* callout_reset, after the command was started; then the lock is released.*)
RequestArm ==
    /\ rpc = "arm"
    /\ armed' = cur
    /\ rpc' = "idle" /\ cur' = None
    /\ UNCHANGED <<status, softc, kind, isrVars, tmoVars, hwVars>>

-----------------------------------------------------------------------------
(* sdif_intr and the callbacks.                                            *)

(* FSdifInterruptHandler reads the raw status and clears it.               *)
Intr ==
    /\ ipc = "idle" /\ irq # {}
    /\ ibits' = irq /\ irq' = {}
    /\ ipc' = "bits"
    /\ UNCHANGED <<status, softc, armed, reqVars, ireq, tmoVars, hw, hwleft>>

IntrEnd ==
    /\ ipc = "bits" /\ ibits = {}
    /\ ipc' = "idle"
    /\ UNCHANGED <<status, softc, armed, reqVars, ibits, ireq, tmoVars, hwVars>>

CommandDone ==
    /\ ipc = "bits" /\ "cmd" \in ibits
    /\ ibits' = ibits \ {"cmd"}
    /\ cmd_done' = TRUE
    /\ ipc' = IF CmdCompletes THEN "finish" ELSE "bits"
    /\ UNCHANGED <<status, req, curcmd, dto_rcvd, req_pending, expect_data, armed,
                   reqVars, ireq, tmoVars, hwVars>>

DataDone ==
    /\ ipc = "bits" /\ "data" \in ibits
    /\ ibits' = ibits \ {"data"}
    /\ dto_rcvd' = TRUE
    /\ ipc' = IF DataCompletes THEN "finish" ELSE "bits"
    /\ UNCHANGED <<status, req, curcmd, cmd_done, req_pending, expect_data, armed,
                   reqVars, ireq, tmoVars, hwVars>>

Finish_NoNullTest ==                                              \* mutant
    /\ ipc = "finish"
    /\ ireq' = req
    /\ ipc' = IF req_pending THEN "clear" ELSE "panic"
    /\ UNCHANGED <<status, softc, armed, reqVars, ibits, tmoVars, hwVars>>

(* sdif_finish_command: a command without a request is the driver's own.   *)
Finish ==
    /\ ipc = "finish"
    /\ ireq' = req
    /\ ipc' = CASE req = None -> "private"
                [] req # None /\ req_pending -> "clear"
                [] OTHER -> "panic"
    /\ UNCHANGED <<status, softc, armed, reqVars, ibits, tmoVars, hwVars>>

FinishPrivate ==
    /\ ipc = "private"
    /\ req_pending' = FALSE
    /\ ipc' = "bits"
    /\ UNCHANGED <<status, req, curcmd, cmd_done, dto_rcvd, expect_data, armed,
                   reqVars, ibits, ireq, tmoVars, hwVars>>

FinishClearReq ==
    /\ ipc = "clear"
    /\ req' = None
    /\ ipc' = "clearcmd"
    /\ UNCHANGED <<status, curcmd, cmd_done, dto_rcvd, req_pending, expect_data,
                   armed, reqVars, ibits, ireq, tmoVars, hwVars>>

FinishClearCmd ==
    /\ ipc = "clearcmd"
    /\ curcmd' = FALSE /\ req_pending' = FALSE
    /\ ipc' = "stop"
    /\ UNCHANGED <<status, req, cmd_done, dto_rcvd, expect_data, armed, reqVars,
                   ibits, ireq, tmoVars, hwVars>>

(* callout_stop: it has no effect on a handler that has already begun.     *)
FinishStop ==
    /\ ipc = "stop"
    /\ armed' = None
    /\ ipc' = "done"
    /\ UNCHANGED <<status, softc, reqVars, ibits, ireq, tmoVars, hwVars>>

FinishDone ==
    /\ ipc = "done"
    /\ status' = [status EXCEPT ![ireq] = "done"]
    /\ ireq' = None
    /\ ipc' = "bits"
    /\ UNCHANGED <<softc, armed, reqVars, ibits, tmoVars, hwVars>>

-----------------------------------------------------------------------------
(* phytium_sdif_timeout.                                                   *)

Timeout_NoLock ==                                                 \* mutant
    /\ armed # None /\ tpc = "idle" /\ Elapsed(armed)
    /\ armed' = None
    /\ tpc' = IF curcmd THEN "req" ELSE "idle"
    /\ UNCHANGED <<status, softc, reqVars, isrVars, treq, hwVars>>

(* The callout takes the lock and looks at curcmd.                         *)
Timeout ==
    /\ armed # None /\ Unlocked /\ Elapsed(armed)
    /\ armed' = None
    /\ tpc' = IF curcmd THEN "req" ELSE "idle"
    /\ UNCHANGED <<status, softc, reqVars, isrVars, treq, hwVars>>

TimeoutReq ==
    /\ tpc = "req"
    /\ treq' = req
    /\ tpc' = IF req = None THEN "panic" ELSE "restart"
    /\ UNCHANGED <<status, softc, armed, reqVars, isrVars, hwVars>>

(* FSdifRestart: the controller forgets the command.  req, curcmd and      *)
(* req_pending are left as they are.                                       *)
TimeoutRestart ==
    /\ tpc = "restart"
    /\ hw' = None /\ hwleft' = {} /\ irq' = {}
    /\ tpc' = "done"
    /\ UNCHANGED <<status, softc, armed, reqVars, isrVars, treq>>

TimeoutDone_Silent ==                                             \* mutant
    /\ tpc = "done"
    /\ tpc' = "idle" /\ treq' = None
    /\ UNCHANGED <<status, softc, armed, reqVars, isrVars, hwVars>>

TimeoutDone ==
    /\ tpc = "done"
    /\ status' = [status EXCEPT ![treq] = "done"]
    /\ tpc' = "idle" /\ treq' = None
    /\ UNCHANGED <<softc, armed, reqVars, isrVars, hwVars>>

-----------------------------------------------------------------------------
(* The controller (external).                                              *)

(* The response arrives, or the data; in either order.                     *)
HwEvent ==
    /\ hw # None
    /\ \E e \in hwleft :
        /\ irq' = irq \cup {e}
        /\ hwleft' = hwleft \ {e}
    /\ IF hwleft' = {}
       THEN /\ hw' = None
            /\ status' = IF hw \in Req /\ status[hw] = "sent"
                         THEN [status EXCEPT ![hw] = "answered"] ELSE status
       ELSE UNCHANGED <<hw, status>>
    /\ UNCHANGED <<softc, armed, reqVars, isrVars, tmoVars>>

(* The rest of the answer never comes.                                     *)
HwLose ==
    /\ "lossy" \in card /\ hw # None /\ hwleft # {}
    /\ hwleft' = {}
    /\ UNCHANGED <<status, softc, armed, reqVars, isrVars, tmoVars, hw, irq>>

-----------------------------------------------------------------------------
RequestSteps == RequestBusy \/ PreRequest \/ PreRequestIgnore \/ CountFlags
    \/ CountTransfer \/ CountPolled \/ CountFailed \/ RequestSkip \/ RequestSet
    \/ RequestFlags \/ RequestTransfer \/ RequestFailed \/ RequestArm
IntrSteps == Intr \/ IntrEnd \/ CommandDone \/ DataDone \/ Finish
    \/ FinishPrivate \/ FinishClearReq \/ FinishClearCmd \/ FinishStop \/ FinishDone
TimeoutSteps == TimeoutReq \/ TimeoutRestart \/ TimeoutDone

Next == /\ \/ Release \/ Request \/ RequestSteps
           \/ IntrSteps
           \/ Timeout \/ TimeoutSteps
           \/ HwEvent \/ HwLose
        /\ UNCHANGED envVars

(* Every thread runs on, the callout's clock runs, and so does the card    *)
(* unless it loses the answer.                                             *)
Fairness ==
    /\ WF_sysVars(RequestSteps) /\ WF_sysVars(IntrSteps)
    /\ WF_sysVars(Timeout) /\ WF_sysVars(TimeoutSteps)
    /\ WF_sysVars(HwEvent \/ HwLose)

Spec == Init /\ [][Next]_vars
FairSpec == Spec /\ Fairness

-----------------------------------------------------------------------------
(* Properties.                                                             *)

(* Every variable has its type, and a thread that is past the test for a   *)
(* null request holds one.                                                 *)
TypeOK ==
    /\ <<auto_stop, card>> \in Env
    /\ ipc \in {"clear", "clearcmd", "stop", "done"} => ireq \in Req
    /\ tpc \in {"restart", "done"} => treq \in Req
    /\ rpc # "idle" <=> cur \in Req
    /\ status \in [Req -> {"free", "sent", "answered", "done"}]
    /\ req \in Req \cup {None} /\ curcmd \in BOOLEAN
    /\ cmd_done \in BOOLEAN /\ dto_rcvd \in BOOLEAN /\ req_pending \in BOOLEAN
    /\ expect_data \in BOOLEAN /\ armed \in Req \cup {None}
    /\ rpc \in {"idle", "busy", "count", "countxfer", "poll", "skip", "set",
                "flags", "xfer", "arm"}
    /\ cur \in Req \cup {None} /\ kind \in Kinds
    /\ ipc \in {"idle", "bits", "finish", "private", "clear", "clearcmd", "stop",
                "done", "panic"}
    /\ ibits \subseteq {"cmd", "data"} /\ ireq \in Req \cup {None}
    /\ tpc \in {"idle", "req", "restart", "done", "panic"}
    /\ treq \in Req \cup {None}
    /\ hw \in Req \cup {None, Count}
    /\ hwleft \subseteq {"cmd", "data"} /\ irq \subseteq {"cmd", "data"}

(* An interrupt finishes a request once, and only after the whole answer   *)
(* to that very request has come: the answer to the driver's own           *)
(* SET_BLOCK_COUNT, or half of an answer, is not taken for it, although    *)
(* the callbacks share one set of flags for every command and run without  *)
(* the lock while the next request is being set up.                        *)
AnsweredOnce == ipc = "done" => status[ireq] = "answered"

(* The timeout ends a request that is still waiting: never one that was    *)
(* answered or finished, in particular not through a timer that was armed  *)
(* for an earlier request and could not be stopped in time.                *)
TimeoutUnanswered == tpc = "done" => status[treq] = "sent"

(* While a request is on the wire and nobody holds the lock, the timer     *)
(* that watches it runs: no late callout_stop of an earlier command takes  *)
(* it away.                                                                *)
WireWatched == hw \in Req /\ Unlocked => armed = hw

(* sdif_finish_command's panic is out of reach: "Spurious comand done - no *)
(* pending state".                                                         *)
PendingWhenDone == ipc # "panic"

(* A request that reached the wire is ended, by its answer or by its       *)
(* timeout, whatever the card does.                                        *)
WireEnds == \A r \in Req : hw = r ~> status[r] = "done"

(* The assertion of phytium_sdif_timeout: a command that is set has a      *)
(* request, "Spurious comand - no request" cannot happen.                  *)
TimeoutFindsRequest == tpc # "panic"

(* The debug message of sdif_finish_command for the driver's own command:  *)
(* "private command - no pending request".                                 *)
PrivateHasNoRequest == rpc = "poll" => ipc # "clear"

=============================================================================
