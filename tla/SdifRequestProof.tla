--------------------------- MODULE SdifRequestProof ---------------------------
(***************************************************************************)
(* The request path, for every set of requests, with a card that answers   *)
(* before the timeout, and that loses nothing unless auto_stop is set.     *)
(*                                                                         *)
(* The callbacks and phytium_sdif_request share the flags without a lock.  *)
(* What keeps them apart is the command itself: until its whole answer has *)
(* come nobody finishes it, and while a request is prepared nothing is on  *)
(* the wire and no status bit is left to handle (Quiet).  The invariant    *)
(* says at which place each part of the answer to the command is: still to *)
(* come, in the controller's status, in the task's copy of it, or handled. *)
(***************************************************************************)
EXTENDS SdifRequest, TLAPS

Lossy == "lossy" \in card

(* The environments of the theorems: what the driver copes with.           *)
Copes == \A e \in Env : "slow" \notin e[2] /\ ("lossy" \in e[2] => e[1])
EnvInv == "slow" \notin card /\ (Lossy => auto_stop)

Active(r) == status[r] \in {"sent", "answered"}

(* One request at a time; the one that phytium_sdif_request works on.      *)
One == \A r, s \in Req : status[r] # "free" /\ status[s] # "free" => r = s
Current == rpc # "idle" =>
    /\ status[cur] # "free"
    /\ rpc # "arm" => status[cur] = "sent"
    /\ rpc \in {"count", "countxfer", "poll"} => ~Lossy

(* Nothing is on the wire or left to handle.                               *)
Quiet == /\ hw = None /\ hwleft = {} /\ irq = {} /\ ibits = {}
         /\ ipc \in {"idle", "bits"}

(* What a request that timed out leaves behind is no longer timed.         *)
Clean == (curcmd => armed = None /\ Lossy) /\ (req # None => Lossy)

Prepared == rpc \in {"busy", "count", "countxfer", "skip", "set"} =>
    /\ Quiet /\ Clean
    /\ rpc = "countxfer" => req_pending /\ ~expect_data

Issued == rpc \in {"flags", "xfer"} =>
    /\ Quiet /\ req = cur /\ curcmd
    /\ rpc = "xfer" => /\ req_pending /\ ~cmd_done /\ ~dto_rcvd
                       /\ expect_data = (kind # "cmd")

(* Where the answer to the block count is, while it is polled for.         *)
CountAnswer ==
    /\ ~expect_data
    /\ \/ /\ hw = Count /\ hwleft = {"cmd"} /\ irq = {} /\ ibits = {}
          /\ ipc \in {"idle", "bits"} /\ req_pending
       \/ /\ hw = None /\ hwleft = {} /\ irq = {"cmd"} /\ ibits = {}
          /\ ipc \in {"idle", "bits"} /\ req_pending
       \/ /\ hw = None /\ hwleft = {} /\ irq = {} /\ ibits = {"cmd"}
          /\ ipc = "bits" /\ req_pending
       \/ /\ hw = None /\ hwleft = {} /\ irq = {} /\ ibits = {}
          /\ ipc \in {"finish", "private"} /\ req_pending
       \/ Quiet
Polling == rpc = "poll" => Clean /\ CountAnswer

(* The events of the answer, and those the callbacks have handled.         *)
Expected == IF expect_data THEN {"cmd", "data"} ELSE {"cmd"}
Handled == {e \in {"cmd", "data"} : IF e = "cmd" THEN cmd_done ELSE dto_rcvd}

(* Where the events of r's answer are, while it is on the wire.            *)
Answer(r) ==
    /\ hw = IF status[r] = "sent" THEN r ELSE None
    /\ ~Lossy /\ hw = r => hwleft # {}
    /\ hwleft \cup irq \cup ibits \subseteq Expected
    /\ hwleft \cap (irq \cup ibits \cup Handled) = {} /\ irq \cap (ibits \cup Handled) = {}
    /\ ibits \cap Handled = {}
    /\ hw = None => hwleft = {}
    /\ hw = None \/ hwleft # {} => Expected \subseteq hwleft \cup irq \cup ibits \cup Handled
    /\ hw = r => ~(Expected \subseteq irq \cup ibits \cup Handled)
    /\ ipc = "idle" => ibits = {}
    /\ ipc \in {"idle", "bits"} <=> ~(Expected \subseteq Handled)

(* How far sdif_finish_command has got with r.                             *)
Finishing(r) ==
    /\ ipc \in {"idle", "bits", "finish", "clear"} => req = r /\ req_pending
    /\ ipc \in {"idle", "bits", "finish", "clear", "clearcmd"} => curcmd
    /\ ipc \in {"clearcmd", "stop", "done"} => req = None
    /\ ipc \in {"stop", "done"} => ~curcmd
    /\ ipc \in {"clear", "clearcmd", "stop", "done"} => ireq = r
    /\ ipc \notin {"private", "panic"}

Watched(r) == Unlocked /\ ipc # "done" => armed = r

Wired(r) == expect_data = (kind # "cmd") /\ Answer(r) /\ Finishing(r) /\ Watched(r)

(* The request was refused, or its command has been forgotten by a reset.  *)
Stuck(r) ==
    /\ rpc = "idle" /\ status[r] = "sent" /\ Quiet /\ Lossy
    /\ armed # None /\ curcmd => req = r

OnTheWire == rpc \in {"idle", "arm"} => \A r \in Req : Active(r) => Wired(r) \/ Stuck(r)

AtRest == (\A r \in Req : ~Active(r)) =>
    /\ Quiet /\ Clean /\ (rpc = "arm" => ~curcmd /\ req = None)

(* A timeout at work has found a request that is waiting, and nothing else *)
(* moves.                                                                  *)
TimingOut == tpc # "idle" =>
    /\ tpc # "panic" /\ rpc = "idle" /\ Lossy /\ armed = None
    /\ ipc = "idle" /\ irq = {} /\ ibits = {} /\ hwleft = {}
    /\ req # None /\ status[req] = "sent"
    /\ tpc \in {"restart", "done"} => treq = req
    /\ tpc = "done" => hw = None

IInv == /\ TypeOK /\ EnvInv /\ One /\ Current /\ Prepared /\ Issued /\ Polling
        /\ OnTheWire /\ AtRest /\ TimingOut

-----------------------------------------------------------------------------
(* Types.                                                                  *)
LEMMA InitType == Init => TypeOK
<1> SUFFICES ASSUME Init PROVE TypeOK
  OBVIOUS
<1>1. PICK e \in Env : auto_stop = e[1] /\ card = e[2]
  BY DEF Init
<1>2. e = <<auto_stop, card>>
  BY <1>1, ConfigAssumption
<1>3. QED
  BY <1>2, ConfigAssumption DEF Init, TypeOK, Kinds

LEMMA TypeStep == TypeOK /\ [Next]_vars => TypeOK'
<1> SUFFICES ASSUME TypeOK, [Next]_vars PROVE TypeOK'
  OBVIOUS
<1> USE ConfigAssumption DEF TypeOK, softc, reqVars, isrVars, tmoVars, hwVars, envVars
<1>1. CASE UNCHANGED vars
  BY <1>1 DEF vars, sysVars
<1>2. CASE Release /\ UNCHANGED envVars
  BY <1>2 DEF Release, Kinds, Unlocked
<1>3. CASE Request /\ UNCHANGED envVars
  BY <1>3 DEF Request, Kinds, Unlocked
<1>4. CASE RequestBusy /\ UNCHANGED envVars
  BY <1>4 DEF RequestBusy, Kinds, Unlocked
<1>5. CASE PreRequest /\ UNCHANGED envVars
  BY <1>5 DEF PreRequest, Kinds, Unlocked
<1>6. CASE PreRequestIgnore /\ UNCHANGED envVars
  BY <1>6 DEF PreRequestIgnore, Kinds, Unlocked
<1>7. CASE CountFlags /\ UNCHANGED envVars
  <2>1. /\ cmd_done' \in BOOLEAN /\ dto_rcvd' \in BOOLEAN /\ req_pending' \in BOOLEAN
        /\ expect_data' \in BOOLEAN /\ curcmd' \in BOOLEAN
    BY <1>7, Zenon DEF CountFlags
  <2>2. QED
    BY <1>7, <2>1 DEF CountFlags
<1>8. CASE CountTransfer /\ UNCHANGED envVars
  BY <1>8 DEF CountTransfer, Kinds, Unlocked
<1>9. CASE CountPolled /\ UNCHANGED envVars
  BY <1>9 DEF CountPolled, Kinds, Unlocked
<1>10. CASE CountFailed /\ UNCHANGED envVars
  BY <1>10 DEF CountFailed, Kinds, Unlocked
<1>11. CASE RequestSkip /\ UNCHANGED envVars
  BY <1>11 DEF RequestSkip, Kinds, Unlocked
<1>12. CASE RequestSet /\ UNCHANGED envVars
  BY <1>12 DEF RequestSet, Kinds, Unlocked
<1>13. CASE RequestFlags /\ UNCHANGED envVars
  <2>1. /\ cmd_done' \in BOOLEAN /\ dto_rcvd' \in BOOLEAN /\ req_pending' \in BOOLEAN
        /\ expect_data' \in BOOLEAN /\ curcmd' \in BOOLEAN
    BY <1>13, Zenon DEF RequestFlags
  <2>2. QED
    BY <1>13, <2>1 DEF RequestFlags
<1>14. CASE RequestTransfer /\ UNCHANGED envVars
  BY <1>14 DEF RequestTransfer, Kinds, Unlocked
<1>15. CASE RequestFailed /\ UNCHANGED envVars
  BY <1>15 DEF RequestFailed, Kinds, Unlocked
<1>16. CASE RequestArm /\ UNCHANGED envVars
  BY <1>16 DEF RequestArm, Kinds, Unlocked
<1>17. CASE Intr /\ UNCHANGED envVars
  BY <1>17 DEF Intr, Kinds, Unlocked
<1>18. CASE IntrEnd /\ UNCHANGED envVars
  BY <1>18 DEF IntrEnd, Kinds, Unlocked
<1>19. CASE CommandDone /\ UNCHANGED envVars
  BY <1>19 DEF CommandDone, Kinds, Unlocked
<1>20. CASE DataDone /\ UNCHANGED envVars
  BY <1>20 DEF DataDone, Kinds, Unlocked
<1>21. CASE Finish /\ UNCHANGED envVars
  BY <1>21 DEF Finish, Kinds, Unlocked
<1>22. CASE FinishPrivate /\ UNCHANGED envVars
  <2>1. /\ cmd_done' \in BOOLEAN /\ dto_rcvd' \in BOOLEAN /\ req_pending' \in BOOLEAN
        /\ expect_data' \in BOOLEAN /\ curcmd' \in BOOLEAN
    BY <1>22, Zenon DEF FinishPrivate
  <2>2. QED
    BY <1>22, <2>1 DEF FinishPrivate
<1>23. CASE FinishClearReq /\ UNCHANGED envVars
  BY <1>23 DEF FinishClearReq, Kinds, Unlocked
<1>24. CASE FinishClearCmd /\ UNCHANGED envVars
  <2>1. /\ cmd_done' \in BOOLEAN /\ dto_rcvd' \in BOOLEAN /\ req_pending' \in BOOLEAN
        /\ expect_data' \in BOOLEAN /\ curcmd' \in BOOLEAN
    BY <1>24, Zenon DEF FinishClearCmd
  <2>2. QED
    BY <1>24, <2>1 DEF FinishClearCmd
<1>25. CASE FinishStop /\ UNCHANGED envVars
  BY <1>25 DEF FinishStop, Kinds, Unlocked
<1>26. CASE FinishDone /\ UNCHANGED envVars
  BY <1>26 DEF FinishDone, Kinds, Unlocked
<1>27. CASE Timeout /\ UNCHANGED envVars
  BY <1>27 DEF Timeout, Kinds, Unlocked
<1>28. CASE TimeoutReq /\ UNCHANGED envVars
  BY <1>28 DEF TimeoutReq, Kinds, Unlocked
<1>29. CASE TimeoutRestart /\ UNCHANGED envVars
  BY <1>29 DEF TimeoutRestart, Kinds, Unlocked
<1>30. CASE TimeoutDone /\ UNCHANGED envVars
  BY <1>30 DEF TimeoutDone, Kinds, Unlocked
<1>31. CASE HwEvent /\ UNCHANGED envVars
  BY <1>31 DEF HwEvent, Kinds, Unlocked
<1>32. CASE HwLose /\ UNCHANGED envVars
  BY <1>32 DEF HwLose, Kinds, Unlocked
<1>33. QED
  BY <1>1, <1>2, <1>3, <1>4, <1>5, <1>6, <1>7, <1>8, <1>9, <1>10, <1>11, <1>12, <1>13, <1>14, <1>15, <1>16, <1>17, <1>18, <1>19, <1>20, <1>21, <1>22, <1>23, <1>24, <1>25, <1>26, <1>27, <1>28, <1>29, <1>30, <1>31, <1>32 DEF Next, RequestSteps, IntrSteps, TimeoutSteps

-----------------------------------------------------------------------------
(* The interrupt task and the controller, whatever phytium_sdif_request    *)
(* and the timeout are doing.                                              *)
TaskStep == (IntrSteps \/ HwEvent \/ HwLose) /\ UNCHANGED envVars

TaskTypes ==
    /\ status \in [Req -> {"free", "sent", "answered", "done"}]
    /\ cmd_done \in BOOLEAN /\ dto_rcvd \in BOOLEAN
    /\ ibits \subseteq {"cmd", "data"} /\ hwleft \subseteq {"cmd", "data"}
    /\ irq \subseteq {"cmd", "data"}

LEMMA TaskTypesStep ==
    ASSUME TaskTypes, armed \in Req \cup {None}, TaskStep
    PROVE  TaskTypes' /\ armed' \in Req \cup {None}
<1> USE DEF TaskTypes, softc, isrVars, hwVars
<1>1. CASE Intr \/ IntrEnd \/ HwLose
  BY <1>1 DEF Intr, IntrEnd, HwLose
<1>2. CASE CommandDone \/ DataDone
  BY <1>2 DEF CommandDone, DataDone
<1>3. CASE Finish \/ FinishPrivate \/ FinishClearReq \/ FinishClearCmd
  BY <1>3 DEF Finish, FinishPrivate, FinishClearReq, FinishClearCmd
<1>4. CASE FinishStop \/ FinishDone
  BY <1>4 DEF FinishStop, FinishDone
<1>5. CASE HwEvent
  BY <1>5 DEF HwEvent
<1>6. QED
  BY <1>1, <1>2, <1>3, <1>4, <1>5 DEF TaskStep, IntrSteps

(* When nothing is on the wire the task can only come to its end.          *)
LEMMA QuietStep ==
    ASSUME Quiet, TaskStep
    PROVE  Quiet' /\ UNCHANGED <<status, softc, armed, tmoVars>>
<1> USE DEF Quiet, softc, isrVars, tmoVars, hwVars
<1>1. CASE IntrEnd
  BY <1>1 DEF IntrEnd
<1>2. CASE Intr \/ CommandDone \/ DataDone \/ Finish \/ FinishPrivate
  BY <1>2 DEF Intr, CommandDone, DataDone, Finish, FinishPrivate
<1>3. CASE FinishClearReq \/ FinishClearCmd \/ FinishStop \/ FinishDone
  BY <1>3 DEF FinishClearReq, FinishClearCmd, FinishStop, FinishDone
<1>4. CASE HwEvent \/ HwLose
  BY <1>4 DEF HwEvent, HwLose
<1>5. QED
  BY <1>1, <1>2, <1>3, <1>4 DEF TaskStep, IntrSteps

(* The answer to the block count is handled as the driver's own.           *)
LEMMA PollStep ==
    ASSUME CountAnswer, TaskStep, ~Lossy, req = None
    PROVE  CountAnswer' /\ UNCHANGED <<status, req, curcmd, armed, tmoVars>>
<1> USE ConfigAssumption DEF CountAnswer, Quiet, isrVars, tmoVars, hwVars, softc
<1>1. CASE Intr
  BY <1>1 DEF Intr
<1>2. CASE IntrEnd
  BY <1>2 DEF IntrEnd
<1>3. CASE CommandDone
  BY <1>3 DEF CommandDone, CmdCompletes
<1>4. CASE DataDone
  BY <1>4 DEF DataDone
<1>5. CASE Finish
  BY <1>5 DEF Finish
<1>6. CASE FinishPrivate
  BY <1>6 DEF FinishPrivate
<1>7. CASE FinishClearReq \/ FinishClearCmd \/ FinishStop \/ FinishDone
  BY <1>7 DEF FinishClearReq, FinishClearCmd, FinishStop, FinishDone
<1>8. CASE HwEvent
  BY <1>8 DEF HwEvent
<1>9. CASE HwLose
  BY <1>9 DEF HwLose, Lossy
<1>10. QED
  BY <1>1, <1>2, <1>3, <1>4, <1>5, <1>6, <1>7, <1>8, <1>9 DEF TaskStep, IntrSteps

(* A request on the wire stays there, watched, until it is done with its   *)
(* whole answer; nobody else is concerned.                                 *)
Ended(r) == status[r] = "done" /\ Quiet /\ req = None /\ ~curcmd

LEMMA AnswerStep ==
    ASSUME NEW r \in Req, TaskTypes, Active(r), Answer(r), Finishing(r), TaskStep
    PROVE  /\ UNCHANGED <<expect_data, tmoVars>>
           /\ \A s \in Req \ {r} : status'[s] = status[s]
           /\ \/ Ended(r)' /\ armed' = armed
              \/ /\ Active(r)' /\ Answer(r)' /\ Finishing(r)'
                 /\ ipc' # "done" => armed' = armed /\ ipc # "done"
<1> DEFINE Goal == /\ UNCHANGED <<expect_data, tmoVars>>
                   /\ \A s \in Req \ {r} : status'[s] = status[s]
                   /\ \/ Ended(r)' /\ armed' = armed
                      \/ /\ Active(r)' /\ Answer(r)' /\ Finishing(r)'
                         /\ ipc' # "done" => armed' = armed /\ ipc # "done"
<1>0. UNCHANGED envVars /\ (Lossy' <=> Lossy)
  BY DEF TaskStep, Lossy, envVars
<1> USE <1>0, ConfigAssumption DEF Active, softc, isrVars, tmoVars, hwVars
<1>1. CASE Intr \/ IntrEnd
  BY <1>1 DEF Intr, IntrEnd, Answer, Finishing, Expected, Handled
<1>3. CASE CommandDone
  <2>1. Expected' = Expected /\ Handled' = Handled \cup {"cmd"} /\ "cmd" \in Expected
    BY <1>3 DEF CommandDone, Expected, Handled
  <2>2. CmdCompletes <=> Expected \subseteq Handled'
    BY <2>1 DEF TaskTypes, CmdCompletes, Expected, Handled
  <2>3. Answer(r)'
    BY <1>3, <2>1, <2>2 DEF CommandDone, Answer
  <2>4. QED
    BY <1>3, <2>3 DEF CommandDone, Finishing
<1>4. CASE DataDone
  <2>1. Expected' = Expected /\ Handled' = Handled \cup {"data"}
    BY <1>4 DEF DataDone, Expected, Handled
  <2>2. "data" \in Expected
    BY <1>4 DEF DataDone, Answer
  <2>3. DataCompletes <=> Expected \subseteq Handled'
    BY <2>1, <2>2 DEF TaskTypes, DataCompletes, Expected, Handled
  <2>4. Answer(r)'
    BY <1>4, <2>1, <2>2, <2>3 DEF DataDone, Answer
  <2>5. QED
    BY <1>4, <2>4 DEF DataDone, Finishing
<1>5. CASE Finish \/ FinishPrivate \/ FinishClearReq \/ FinishClearCmd \/ FinishStop
  <2>1. Expected' = Expected /\ Handled' = Handled
    BY <1>5 DEF Finish, FinishPrivate, FinishClearReq, FinishClearCmd, FinishStop, Expected, Handled
  <2>2. ipc' \notin {"idle", "bits"} /\ ipc \notin {"idle", "bits"}
    BY <1>5 DEF Finish, FinishPrivate, FinishClearReq, FinishClearCmd, FinishStop, Finishing
  <2>9. Answer(r)'
    BY <1>5, <2>1, <2>2 DEF Finish, FinishPrivate, FinishClearReq, FinishClearCmd, FinishStop, Answer
  <2>3. CASE Finish
    BY <2>9, <2>3 DEF Finish, Finishing
  <2>4. CASE FinishPrivate
    BY <2>4 DEF FinishPrivate, Finishing
  <2>5. CASE FinishClearReq
    BY <2>9, <2>5 DEF FinishClearReq, Finishing
  <2>6. CASE FinishClearCmd
    BY <2>9, <2>6 DEF FinishClearCmd, Finishing
  <2>7. CASE FinishStop
    BY <2>9, <2>7 DEF FinishStop, Finishing
  <2>8. QED
    BY <1>5, <2>3, <2>4, <2>5, <2>6, <2>7
<1>6. CASE FinishDone
  <2>1. ireq = r /\ req = None /\ ~curcmd /\ Expected \subseteq Handled
    BY <1>6 DEF FinishDone, Finishing, Answer
  <2>2. hwleft = {} /\ irq = {} /\ ibits = {} /\ hw = None
    BY <2>1 DEF Answer
  <2>3. QED
    BY <1>6, <2>1, <2>2 DEF FinishDone, Ended, Quiet, TaskTypes
<1>7. CASE HwEvent
  <2>0. Expected' = Expected /\ Handled' = Handled
    BY <1>7 DEF HwEvent, Expected, Handled
  <2>1. hw = r /\ status[r] = "sent"
    BY <1>7 DEF HwEvent, Answer
  <2>2. PICK e \in hwleft : irq' = irq \cup {e} /\ hwleft' = hwleft \ {e}
    BY <1>7 DEF HwEvent
  <2>3. CASE hwleft' = {}
    <3>1. hw' = None /\ status' = [status EXCEPT ![r] = "answered"]
      BY <1>7, <2>1, <2>3 DEF HwEvent
    <3>2. status'[r] = "answered" /\ \A s \in Req \ {r} : status'[s] = status[s]
      BY <3>1 DEF TaskTypes
    <3>3. Answer(r)'
      BY <1>7, <2>0, <2>1, <2>2, <2>3, <3>1, <3>2 DEF HwEvent, Answer
    <3>4. QED
      BY <1>7, <3>2, <3>3 DEF HwEvent, Finishing
  <2>4. CASE hwleft' # {}
    <3>1. hw' = hw /\ status' = status
      BY <1>7, <2>4 DEF HwEvent
    <3>2. Answer(r)'
      BY <1>7, <2>0, <2>1, <2>2, <2>4, <3>1 DEF HwEvent, Answer
    <3>3. QED
      BY <1>7, <3>1, <3>2 DEF HwEvent, Finishing
  <2>5. QED
    BY <2>3, <2>4
<1>8. CASE HwLose
  <2>1. Expected' = Expected /\ Handled' = Handled
    BY <1>8 DEF HwLose, Expected, Handled
  <2>2. Answer(r)'
    BY <1>8, <2>1 DEF HwLose, Answer, Lossy
  <2>3. QED
    BY <1>8, <2>2 DEF HwLose, Finishing
<1>9. QED
  BY <1>1, <1>3, <1>4, <1>5, <1>6, <1>7, <1>8 DEF TaskStep, IntrSteps

(* A timer that fires while its request is on the wire has waited for an   *)
(* answer that was lost.                                                   *)
LEMMA TimeoutWaits ==
    ASSUME NEW r \in Req, EnvInv, Active(r), Answer(r), Finishing(r), Elapsed(r)
    PROVE  /\ curcmd /\ req = r /\ status[r] = "sent" /\ Lossy
           /\ ipc = "idle" /\ ibits = {} /\ irq = {} /\ hwleft = {}
<1>1. irq = {} /\ ipc = "idle" /\ (hw # r \/ hwleft = {})
  BY DEF Elapsed, EnvInv
<1>2. ibits = {} /\ req = r /\ curcmd /\ ~(Expected \subseteq Handled)
  BY <1>1 DEF Answer, Finishing
<1>3. hw # None
  BY <1>1, <1>2 DEF Answer
<1>4. hw = r /\ hwleft = {} /\ status[r] = "sent"
  BY <1>1, <1>3 DEF Answer
<1>5. QED
  BY <1>1, <1>2, <1>4 DEF Answer

(* Nothing moves while a timeout is at work.                               *)
LEMMA TaskOff == ASSUME ipc = "idle", irq = {}, hwleft = {} PROVE ~TaskStep
  BY DEF TaskStep, IntrSteps, Intr, IntrEnd, CommandDone, DataDone, Finish, FinishPrivate,
     FinishClearReq, FinishClearCmd, FinishStop, FinishDone, HwEvent, HwLose

LEMMA TaskFrame == TaskStep => UNCHANGED <<reqVars, envVars>>
  BY DEF TaskStep, IntrSteps, Intr, IntrEnd, CommandDone, DataDone, Finish, FinishPrivate,
     FinishClearReq, FinishClearCmd, FinishStop, FinishDone, HwEvent, HwLose

LEMMA TaskKeeps == IInv /\ TypeOK' /\ TaskStep => IInv'
<1> SUFFICES ASSUME IInv, TypeOK', TaskStep PROVE IInv'
  OBVIOUS
<1>1. UNCHANGED <<rpc, cur, kind, auto_stop, card>>
  BY TaskFrame DEF reqVars, envVars
<1>2. tpc = "idle" /\ tpc' = "idle"
  BY TaskOff DEF IInv, TimingOut, TaskStep, IntrSteps, tmoVars, Intr, IntrEnd, CommandDone,
     DataDone, Finish, FinishPrivate, FinishClearReq, FinishClearCmd, FinishStop, FinishDone,
     HwEvent, HwLose
<1>3. EnvInv' /\ TimingOut' /\ (Lossy' <=> Lossy)
  BY <1>1, <1>2 DEF IInv, EnvInv, Lossy, TimingOut
<1>4. CASE Quiet
  <2>1. Quiet' /\ UNCHANGED <<status, softc, armed, tmoVars>>
    BY <1>4, QuietStep
  <2>2. One' /\ Current' /\ Prepared' /\ Issued'
    BY <1>1, <1>3, <2>1 DEF IInv, One, Current, Prepared, Issued, Clean, softc
  <2>3. Polling' /\ AtRest'
    BY <1>1, <1>3, <2>1 DEF IInv, Polling, CountAnswer, AtRest, Active, Clean, softc
  <2>4. OnTheWire'
    <3>1. ASSUME NEW r \in Req, Wired(r) PROVE ~Active(r)
      BY <1>4, <3>1 DEF Wired, Answer, Quiet, Active
    <3>2. QED
      BY <1>1, <1>3, <2>1, <3>1 DEF IInv, OnTheWire, Active, Stuck, softc
  <2>5. QED
    BY <1>3, <2>2, <2>3, <2>4 DEF IInv
<1>5. CASE rpc = "poll"
  <2>1. CountAnswer' /\ UNCHANGED <<status, req, curcmd, armed, tmoVars>>
    BY <1>5, PollStep DEF IInv, Polling, Current, Clean
  <2>2. Active(cur) /\ cur \in Req
    BY <1>5 DEF IInv, TypeOK, Current, Active
  <2>3. QED
    BY <1>1, <1>3, <1>5, <2>1, <2>2 DEF IInv, One, Current, Prepared, Issued, Polling, Clean,
       OnTheWire, AtRest, Active
<1>6. CASE ~Quiet /\ rpc # "poll"
  <2>1. rpc \in {"idle", "arm"}
    BY <1>6 DEF IInv, TypeOK, Prepared, Issued
  <2>2. PICK r \in Req : Active(r) /\ Wired(r)
    BY <1>6, <2>1 DEF IInv, AtRest, OnTheWire, Stuck
  <2>3. TaskTypes
    BY DEF IInv, TypeOK, TaskTypes
  <2>4. /\ expect_data' = expect_data
        /\ \A s \in Req \ {r} : status'[s] = status[s]
        /\ \/ Ended(r)' /\ armed' = armed
           \/ /\ Active(r)' /\ Answer(r)' /\ Finishing(r)'
              /\ ipc' # "done" => armed' = armed /\ ipc # "done"
    BY <2>2, <2>3, AnswerStep DEF Wired
  <2>5. \A s \in Req : (status'[s] # "free" <=> status[s] # "free")
    BY <2>2, <2>4 DEF Active, Ended
  <2>6. \A s \in Req : status[s] # "free" => s = r
    BY <2>2 DEF IInv, One, Active
  <2>7. One' /\ Current' /\ Prepared' /\ Issued' /\ Polling'
    BY <1>1, <2>1, <2>5, ConfigAssumption DEF IInv, TypeOK, One, Current, Prepared, Issued, Polling
  <2>8. \A s \in Req \ {r} : ~Active(s)'
    BY <2>4, <2>6 DEF Active
  <2>9. CASE Ended(r)'
    BY <1>1, <1>3, <2>1, <2>7, <2>8, <2>9 DEF IInv, Ended, OnTheWire, Active, AtRest, Clean
  <2>10. CASE ~Ended(r)'
    <3>1. Wired(r)'
      BY <1>1, <1>2, <2>2, <2>4, <2>10 DEF Wired, Watched, Unlocked
    <3>2. OnTheWire' /\ AtRest'
      BY <2>4, <2>8, <2>10, <3>1 DEF OnTheWire, AtRest
    <3>3. QED
      BY <1>3, <2>7, <3>2 DEF IInv
  <2>11. QED
    BY <2>9, <2>10
<1>7. QED
  BY <1>4, <1>5, <1>6

-----------------------------------------------------------------------------
(* phytium_sdif_request and the MMC layer.                                 *)

LEMMA ReleaseKeeps == IInv /\ TypeOK' /\ Release /\ UNCHANGED envVars => IInv'
<1> SUFFICES ASSUME IInv, TypeOK', Release, UNCHANGED envVars PROVE IInv'
  OBVIOUS
<1> USE ConfigAssumption DEF IInv, TypeOK, Release, softc, reqVars, isrVars, tmoVars, hwVars, envVars,
        Lossy, Active
<1>1. EnvInv' /\ One' /\ Current' /\ Prepared' /\ Issued' /\ Polling' /\ TimingOut'
  BY DEF EnvInv, One, Current, Prepared, Issued, Polling, CountAnswer, TimingOut, Quiet, Clean,
     AtRest
<1>2. OnTheWire' /\ AtRest'
  BY DEF OnTheWire, AtRest, Wired, Stuck, Answer, Finishing, Watched, Expected, Handled, Quiet,
     Clean, Current, One, Prepared, Issued, Unlocked
<1>3. QED
  BY <1>1, <1>2

LEMMA RequestKeeps == IInv /\ TypeOK' /\ Request /\ UNCHANGED envVars => IInv'
<1> SUFFICES ASSUME IInv, TypeOK', Request, UNCHANGED envVars PROVE IInv'
  OBVIOUS
<1> USE ConfigAssumption DEF IInv, TypeOK, Request, softc, reqVars, isrVars, tmoVars, hwVars, envVars,
        Lossy, Active
<1>1. EnvInv' /\ One' /\ Current' /\ Prepared' /\ Issued' /\ Polling' /\ TimingOut'
  BY DEF EnvInv, One, Current, Prepared, Issued, Polling, CountAnswer, TimingOut, Quiet, Clean,
     AtRest, Unlocked
<1>2. OnTheWire' /\ AtRest'
  BY DEF OnTheWire, AtRest, Wired, Stuck, Answer, Finishing, Watched, Expected, Handled, Quiet,
     Clean, Current, One, Prepared, Issued, Unlocked
<1>3. QED
  BY <1>1, <1>2

LEMMA RequestBusyKeeps == IInv /\ TypeOK' /\ RequestBusy /\ UNCHANGED envVars => IInv'
<1> SUFFICES ASSUME IInv, TypeOK', RequestBusy, UNCHANGED envVars PROVE IInv'
  OBVIOUS
<1> USE ConfigAssumption DEF IInv, TypeOK, RequestBusy, softc, reqVars, isrVars, tmoVars, hwVars, envVars,
        Lossy, Active
<1>1. EnvInv' /\ One' /\ Current' /\ Prepared' /\ Issued' /\ Polling' /\ TimingOut'
  BY DEF EnvInv, One, Current, Prepared, Issued, Polling, CountAnswer, TimingOut, Quiet, Clean,
     AtRest
<1>2. OnTheWire' /\ AtRest'
  BY DEF OnTheWire, AtRest, Wired, Stuck, Answer, Finishing, Watched, Expected, Handled, Quiet,
     Clean, Current, One, Prepared, Issued, Unlocked
<1>3. QED
  BY <1>1, <1>2

LEMMA PreRequestKeeps == IInv /\ TypeOK' /\ PreRequest /\ UNCHANGED envVars => IInv'
<1> SUFFICES ASSUME IInv, TypeOK', PreRequest, UNCHANGED envVars PROVE IInv'
  OBVIOUS
<1> USE ConfigAssumption DEF IInv, TypeOK, PreRequest, softc, reqVars, isrVars, tmoVars, hwVars, envVars,
        Lossy, Active
<1>1. EnvInv' /\ One' /\ Current' /\ Prepared' /\ Issued' /\ Polling' /\ TimingOut'
  BY DEF EnvInv, One, Current, Prepared, Issued, Polling, CountAnswer, TimingOut, Quiet, Clean,
     AtRest, NeedCount
<1>2. OnTheWire' /\ AtRest'
  BY DEF OnTheWire, AtRest, Wired, Stuck, Answer, Finishing, Watched, Expected, Handled, Quiet,
     Clean, Current, One, Prepared, Issued, Unlocked
<1>3. QED
  BY <1>1, <1>2

LEMMA PreRequestIgnoreKeeps == IInv /\ TypeOK' /\ PreRequestIgnore /\ UNCHANGED envVars => IInv'
<1> SUFFICES ASSUME IInv, TypeOK', PreRequestIgnore, UNCHANGED envVars PROVE IInv'
  OBVIOUS
<1> USE ConfigAssumption DEF IInv, TypeOK, PreRequestIgnore, softc, reqVars, isrVars, tmoVars, hwVars, envVars,
        Lossy, Active
<1>1. EnvInv' /\ One' /\ Current' /\ Prepared' /\ Issued' /\ Polling' /\ TimingOut'
  BY DEF EnvInv, One, Current, Prepared, Issued, Polling, CountAnswer, TimingOut, Quiet, Clean,
     AtRest
<1>2. OnTheWire' /\ AtRest'
  BY DEF OnTheWire, AtRest, Wired, Stuck, Answer, Finishing, Watched, Expected, Handled, Quiet,
     Clean, Current, One, Prepared, Issued, Unlocked
<1>3. QED
  BY <1>1, <1>2

LEMMA CountFlagsKeeps == IInv /\ TypeOK' /\ CountFlags /\ UNCHANGED envVars => IInv'
<1> SUFFICES ASSUME IInv, TypeOK', CountFlags, UNCHANGED envVars PROVE IInv'
  OBVIOUS
<1> USE ConfigAssumption DEF IInv, TypeOK, CountFlags, softc, reqVars, isrVars, tmoVars, hwVars, envVars,
        Lossy, Active
<1>1. EnvInv' /\ One' /\ Current' /\ Prepared' /\ Issued' /\ Polling' /\ TimingOut'
  BY DEF EnvInv, One, Current, Prepared, Issued, Polling, CountAnswer, TimingOut, Quiet, Clean,
     AtRest
<1>2. OnTheWire' /\ AtRest'
  BY DEF OnTheWire, AtRest, Wired, Stuck, Answer, Finishing, Watched, Expected, Handled, Quiet,
     Clean, Current, One, Prepared, Issued, Unlocked
<1>3. QED
  BY <1>1, <1>2

LEMMA CountTransferKeeps == IInv /\ TypeOK' /\ CountTransfer /\ UNCHANGED envVars => IInv'
<1> SUFFICES ASSUME IInv, TypeOK', CountTransfer, UNCHANGED envVars PROVE IInv'
  OBVIOUS
<1> USE ConfigAssumption DEF IInv, TypeOK, CountTransfer, softc, reqVars, isrVars, tmoVars, hwVars, envVars,
        Lossy, Active
<1>1. EnvInv' /\ One' /\ Current' /\ Prepared' /\ Issued' /\ Polling' /\ TimingOut'
  BY DEF EnvInv, One, Current, Prepared, Issued, Polling, CountAnswer, TimingOut, Quiet, Clean,
     AtRest
<1>2. OnTheWire' /\ AtRest'
  BY DEF OnTheWire, AtRest, Wired, Stuck, Answer, Finishing, Watched, Expected, Handled, Quiet,
     Clean, Current, One, Prepared, Issued, Unlocked
<1>3. QED
  BY <1>1, <1>2

LEMMA CountPolledKeeps == IInv /\ TypeOK' /\ CountPolled /\ UNCHANGED envVars => IInv'
<1> SUFFICES ASSUME IInv, TypeOK', CountPolled, UNCHANGED envVars PROVE IInv'
  OBVIOUS
<1> USE ConfigAssumption DEF IInv, TypeOK, CountPolled, softc, reqVars, isrVars, tmoVars, hwVars, envVars,
        Lossy, Active
<1>1. EnvInv' /\ One' /\ Current' /\ Prepared' /\ Issued' /\ Polling' /\ TimingOut'
  BY DEF EnvInv, One, Current, Prepared, Issued, Polling, CountAnswer, TimingOut, Quiet, Clean,
     AtRest
<1>2. OnTheWire' /\ AtRest'
  BY DEF OnTheWire, AtRest, Wired, Stuck, Answer, Finishing, Watched, Expected, Handled, Quiet,
     Clean, Current, One, Prepared, Issued, Unlocked
<1>3. QED
  BY <1>1, <1>2

LEMMA CountFailedKeeps == IInv /\ TypeOK' /\ CountFailed /\ UNCHANGED envVars => IInv'
<1> SUFFICES ASSUME IInv, TypeOK', CountFailed, UNCHANGED envVars PROVE IInv'
  OBVIOUS
<1> USE ConfigAssumption DEF IInv, TypeOK, CountFailed, softc, reqVars, isrVars, tmoVars, hwVars, envVars,
        Lossy, Active
<1>1. EnvInv' /\ One' /\ Current' /\ Prepared' /\ Issued' /\ Polling' /\ TimingOut'
  BY DEF EnvInv, One, Current, Prepared, Issued, Polling, CountAnswer, TimingOut, Quiet, Clean,
     AtRest
<1>2. OnTheWire' /\ AtRest'
  BY DEF OnTheWire, AtRest, Wired, Stuck, Answer, Finishing, Watched, Expected, Handled, Quiet,
     Clean, Current, One, Prepared, Issued, Unlocked
<1>3. QED
  BY <1>1, <1>2

LEMMA RequestSkipKeeps == IInv /\ TypeOK' /\ RequestSkip /\ UNCHANGED envVars => IInv'
<1> SUFFICES ASSUME IInv, TypeOK', RequestSkip, UNCHANGED envVars PROVE IInv'
  OBVIOUS
<1> USE ConfigAssumption DEF IInv, TypeOK, RequestSkip, softc, reqVars, isrVars, tmoVars, hwVars, envVars,
        Lossy, Active
<1>1. EnvInv' /\ One' /\ Current' /\ Prepared' /\ Issued' /\ Polling' /\ TimingOut'
  BY DEF EnvInv, One, Current, Prepared, Issued, Polling, CountAnswer, TimingOut, Quiet, Clean,
     AtRest
<1>2. OnTheWire' /\ AtRest'
  BY DEF OnTheWire, AtRest, Wired, Stuck, Answer, Finishing, Watched, Expected, Handled, Quiet,
     Clean, Current, One, Prepared, Issued, Unlocked
<1>3. QED
  BY <1>1, <1>2

LEMMA RequestSetKeeps == IInv /\ TypeOK' /\ RequestSet /\ UNCHANGED envVars => IInv'
<1> SUFFICES ASSUME IInv, TypeOK', RequestSet, UNCHANGED envVars PROVE IInv'
  OBVIOUS
<1> USE ConfigAssumption DEF IInv, TypeOK, RequestSet, softc, reqVars, isrVars, tmoVars, hwVars, envVars,
        Lossy, Active
<1>1. EnvInv' /\ One' /\ Current' /\ Prepared' /\ Issued' /\ Polling' /\ TimingOut'
  BY DEF EnvInv, One, Current, Prepared, Issued, Polling, CountAnswer, TimingOut, Quiet, Clean,
     AtRest
<1>2. OnTheWire' /\ AtRest'
  BY DEF OnTheWire, AtRest, Wired, Stuck, Answer, Finishing, Watched, Expected, Handled, Quiet,
     Clean, Current, One, Prepared, Issued, Unlocked
<1>3. QED
  BY <1>1, <1>2

LEMMA RequestFlagsKeeps == IInv /\ TypeOK' /\ RequestFlags /\ UNCHANGED envVars => IInv'
<1> SUFFICES ASSUME IInv, TypeOK', RequestFlags, UNCHANGED envVars PROVE IInv'
  OBVIOUS
<1> USE ConfigAssumption DEF IInv, TypeOK, RequestFlags, softc, reqVars, isrVars, tmoVars, hwVars, envVars,
        Lossy, Active
<1>1. EnvInv' /\ One' /\ Current' /\ Prepared' /\ Issued' /\ Polling' /\ TimingOut'
  BY DEF EnvInv, One, Current, Prepared, Issued, Polling, CountAnswer, TimingOut, Quiet, Clean,
     AtRest
<1>2. OnTheWire' /\ AtRest'
  BY DEF OnTheWire, AtRest, Wired, Stuck, Answer, Finishing, Watched, Expected, Handled, Quiet,
     Clean, Current, One, Prepared, Issued, Unlocked
<1>3. QED
  BY <1>1, <1>2

LEMMA RequestTransferKeeps == IInv /\ TypeOK' /\ RequestTransfer /\ UNCHANGED envVars => IInv'
<1> SUFFICES ASSUME IInv, TypeOK', RequestTransfer, UNCHANGED envVars PROVE IInv'
  OBVIOUS
<1> USE ConfigAssumption DEF IInv, TypeOK, RequestTransfer, softc, reqVars, isrVars, tmoVars, hwVars, envVars,
        Lossy, Active
<1>1. EnvInv' /\ One' /\ Current' /\ Prepared' /\ Issued' /\ Polling' /\ TimingOut'
  BY DEF EnvInv, One, Current, Prepared, Issued, Polling, CountAnswer, TimingOut, Quiet, Clean,
     AtRest
<1>2. Active(cur)' /\ cur' = cur /\ \A r \in Req : Active(r)' => r = cur
  BY DEF One, Current
<1>3. Wired(cur)'
  <2>1. Expected' = hwleft' /\ Handled' = {}
    BY DEF Issued, Expected, Handled
  <2>2. Answer(cur)'
    BY <2>1 DEF Issued, Quiet, Current, Answer
  <2>3. QED
    BY <2>2 DEF Issued, Quiet, Wired, Finishing, Watched, Unlocked
<1>4. QED
  BY <1>1, <1>2, <1>3 DEF OnTheWire, AtRest

LEMMA RequestFailedKeeps == IInv /\ TypeOK' /\ RequestFailed /\ UNCHANGED envVars => IInv'
<1> SUFFICES ASSUME IInv, TypeOK', RequestFailed, UNCHANGED envVars PROVE IInv'
  OBVIOUS
<1> USE ConfigAssumption DEF IInv, TypeOK, RequestFailed, softc, reqVars, isrVars, tmoVars, hwVars, envVars,
        Lossy, Active
<1>1. EnvInv' /\ One' /\ Current' /\ Prepared' /\ Issued' /\ Polling' /\ TimingOut'
  BY DEF EnvInv, One, Current, Prepared, Issued, Polling, CountAnswer, TimingOut, Quiet, Clean,
     AtRest
<1>2. OnTheWire' /\ AtRest'
  BY DEF OnTheWire, AtRest, Wired, Stuck, Answer, Finishing, Watched, Expected, Handled, Quiet,
     Clean, Current, One, Prepared, Issued, Unlocked
<1>3. QED
  BY <1>1, <1>2

LEMMA RequestArmKeeps == IInv /\ TypeOK' /\ RequestArm /\ UNCHANGED envVars => IInv'
<1> SUFFICES ASSUME IInv, TypeOK', RequestArm, UNCHANGED envVars PROVE IInv'
  OBVIOUS
<1> USE ConfigAssumption DEF IInv, TypeOK, RequestArm, softc, reqVars, isrVars, tmoVars, hwVars, envVars,
        Lossy, Active
<1>1. EnvInv' /\ One' /\ Current' /\ Prepared' /\ Issued' /\ Polling' /\ TimingOut'
  BY DEF EnvInv, One, Current, Prepared, Issued, Polling, CountAnswer, TimingOut, Quiet, Clean,
     AtRest
<1>2. OnTheWire' /\ AtRest'
  BY DEF OnTheWire, AtRest, Wired, Stuck, Answer, Finishing, Watched, Expected, Handled, Quiet,
     Clean, Current, One, Prepared, Issued, Unlocked
<1>3. QED
  BY <1>1, <1>2

-----------------------------------------------------------------------------
(* phytium_sdif_timeout.                                                   *)
LEMMA TimeoutKeeps == IInv /\ TypeOK' /\ Timeout /\ UNCHANGED envVars => IInv'
<1> SUFFICES ASSUME IInv, TypeOK', Timeout, UNCHANGED envVars PROVE IInv'
  OBVIOUS
<1> USE DEF Timeout, softc, reqVars, isrVars, hwVars, envVars, Lossy, Active
<1>1. rpc = "idle" /\ tpc = "idle" /\ armed # None /\ Elapsed(armed)
  BY DEF Unlocked
<1>2. ipc = "idle" /\ irq = {}
  BY <1>1 DEF IInv, EnvInv, Elapsed
<1>3. ASSUME NEW r \in Req, Active(r), curcmd
      PROVE  /\ req = r /\ status[r] = "sent" /\ Lossy
             /\ ibits = {} /\ hwleft = {}
  <2>1. CASE Wired(r)
    <3>1. armed = r
      BY <1>1, <1>2, <2>1 DEF Wired, Watched, Unlocked
    <3>2. QED
      BY <1>1, <1>3, <2>1, <3>1, TimeoutWaits DEF IInv, Wired
  <2>2. CASE Stuck(r)
    BY <1>1, <1>3, <2>2 DEF Stuck, Quiet
  <2>3. QED
    BY <1>1, <1>3, <2>1, <2>2 DEF IInv, OnTheWire
<1>4. TimingOut'
  <2>1. CASE ~curcmd
    BY <2>1 DEF TimingOut
  <2>2. CASE curcmd
    <3>1. PICK r \in Req : Active(r)
      BY <1>1, <2>2 DEF IInv, AtRest, Clean
    <3>2. QED
      BY <1>1, <1>2, <1>3, <2>2, <3>1, ConfigAssumption DEF TimingOut
  <2>3. QED
    BY <2>1, <2>2
<1>5. OnTheWire'
  <2>1. ASSUME NEW r \in Req, Active(r), Wired(r) PROVE Wired(r)'
    <3>1. curcmd
      BY <1>2, <2>1 DEF Wired, Finishing
    <3>2. QED
      BY <2>1, <3>1 DEF Wired, Answer, Finishing, Watched, Unlocked, Expected, Handled
  <2>2. ASSUME NEW r \in Req, Stuck(r) PROVE Stuck(r)'
    BY <2>2 DEF Stuck, Quiet
  <2>3. QED
    BY <2>1, <2>2 DEF IInv, OnTheWire, Unlocked
<1>6. QED
  BY <1>1, <1>4, <1>5 DEF IInv, EnvInv, One, Current, Prepared, Issued, Polling, AtRest, Quiet, Clean

LEMMA TimeoutReqKeeps == IInv /\ TypeOK' /\ TimeoutReq /\ UNCHANGED envVars => IInv'
<1> SUFFICES ASSUME IInv, TypeOK', TimeoutReq, UNCHANGED envVars PROVE IInv'
  OBVIOUS
<1> USE DEF TimeoutReq, softc, reqVars, isrVars, hwVars, envVars, Lossy, Active
<1>1. TimingOut' /\ rpc = "idle"
  BY DEF IInv, TimingOut
<1>2. OnTheWire' /\ AtRest'
  BY <1>1 DEF IInv, OnTheWire, AtRest, Wired, Stuck, Answer, Finishing, Watched, Expected, Handled,
     Quiet, Clean, Unlocked
<1>3. QED
  BY <1>1, <1>2 DEF IInv, EnvInv, One, Current, Prepared, Issued, Polling

(* The reset makes the request one that nothing will answer.               *)
LEMMA TimeoutRestartKeeps == IInv /\ TypeOK' /\ TimeoutRestart /\ UNCHANGED envVars => IInv'
<1> SUFFICES ASSUME IInv, TypeOK', TimeoutRestart, UNCHANGED envVars PROVE IInv'
  OBVIOUS
<1> USE DEF TimeoutRestart, softc, reqVars, isrVars, envVars, Lossy, Active
<1>1. TimingOut' /\ rpc = "idle" /\ req \in Req /\ status[req] = "sent"
  BY DEF IInv, TypeOK, TimingOut
<1>2. Quiet' /\ Stuck(req)'
  BY <1>1 DEF IInv, TimingOut, Stuck, Quiet
<1>3. \A r \in Req : Active(r) => r = req
  BY <1>1 DEF IInv, One
<1>4. QED
  BY <1>1, <1>2, <1>3 DEF IInv, EnvInv, One, Current, Prepared, Issued, Polling, OnTheWire, AtRest

LEMMA TimeoutDoneKeeps == IInv /\ TypeOK' /\ TimeoutDone /\ UNCHANGED envVars => IInv'
<1> SUFFICES ASSUME IInv, TypeOK', TimeoutDone, UNCHANGED envVars PROVE IInv'
  OBVIOUS
<1> USE DEF TimeoutDone, softc, reqVars, isrVars, hwVars, envVars, Lossy, Active
<1>1. rpc = "idle" /\ treq \in Req /\ status[treq] = "sent"
  BY DEF IInv, TypeOK, TimingOut
<1>2. \A r \in Req : status'[r] = IF r = treq THEN "done" ELSE "free"
  BY <1>1 DEF IInv, TypeOK, One
<1>3. Quiet' /\ Clean'
  BY DEF IInv, TimingOut, Quiet, Clean
<1>4. QED
  BY <1>1, <1>2, <1>3 DEF IInv, EnvInv, One, Current, Prepared, Issued, Polling, OnTheWire, AtRest,
     TimingOut

-----------------------------------------------------------------------------
LEMMA InitInvariant == ASSUME Copes PROVE Init => IInv
<1> SUFFICES ASSUME Init PROVE IInv
  OBVIOUS
<1>1. TypeOK
  BY InitType
<1>2. EnvInv
  BY Copes DEF Init, EnvInv, Lossy, Copes
<1>3. Quiet /\ Clean
  BY DEF Init, Quiet, Clean
<1>4. QED
  BY <1>1, <1>2, <1>3 DEF Init, IInv, One, Current, Prepared, Issued, Polling, OnTheWire,
     Active, AtRest, TimingOut

LEMMA StepInvariant == IInv /\ [Next]_vars => IInv'
<1> SUFFICES ASSUME IInv, [Next]_vars PROVE IInv'
  OBVIOUS
<1>1. TypeOK'
  BY TypeStep DEF IInv
<1>2. CASE UNCHANGED vars
  BY <1>1, <1>2 DEF IInv, vars, sysVars, softc, reqVars, isrVars, tmoVars, hwVars, envVars,
     EnvInv, One, Current, Prepared, Issued, Polling, CountAnswer, OnTheWire, AtRest, TimingOut,
     Active, Quiet,
     Clean, Lossy, Wired, Stuck, Answer, Finishing, Watched, Expected, Handled, Unlocked
<1>3. CASE (Release \/ Request \/ RequestSteps) /\ UNCHANGED envVars
  BY <1>1, <1>3, ReleaseKeeps, RequestKeeps, RequestBusyKeeps, PreRequestKeeps, PreRequestIgnoreKeeps, CountFlagsKeeps, CountTransferKeeps, CountPolledKeeps, CountFailedKeeps, RequestSkipKeeps, RequestSetKeeps, RequestFlagsKeeps, RequestTransferKeeps, RequestFailedKeeps, RequestArmKeeps DEF RequestSteps
<1>4. CASE (IntrSteps \/ HwEvent \/ HwLose) /\ UNCHANGED envVars
  BY <1>1, <1>4, TaskKeeps DEF TaskStep
<1>5. CASE (Timeout \/ TimeoutSteps) /\ UNCHANGED envVars
  BY <1>1, <1>5, TimeoutKeeps, TimeoutReqKeeps, TimeoutRestartKeeps, TimeoutDoneKeeps
     DEF TimeoutSteps
<1>6. QED
  BY <1>2, <1>3, <1>4, <1>5 DEF Next

(* Something is at work: on the wire, but for the block count.             *)
LEMMA AtWork ==
    ASSUME IInv, rpc # "poll", ~Quiet PROVE \E r \in Req : Active(r) /\ Wired(r)
  BY DEF IInv, TypeOK, Prepared, Issued, AtRest, OnTheWire, Stuck

LEMMA Invariant == ASSUME Copes PROVE Spec => []IInv
  BY InitInvariant, StepInvariant, PTL DEF Spec

-----------------------------------------------------------------------------
(* Every variable keeps its type with every card, also one that answers as *)
(* late as the timeout: finish_command and the timeout never go on with a  *)
(* null request.                                                           *)
THEOREM TypeCorrect == Spec => []TypeOK
  BY InitType, TypeStep, PTL DEF Spec

(* An interrupt finishes a request once, when its whole answer has come    *)
(* (sdif_finish_command).                                                  *)
THEOREM FinishedOnce == ASSUME Copes PROVE Spec => []AnsweredOnce
<1>1. ASSUME IInv, ipc = "done" PROVE status[ireq] = "answered"
  <2>1. PICK r \in Req : Active(r) /\ Wired(r) /\ ireq = r
    BY <1>1, AtWork DEF IInv, Polling, CountAnswer, Quiet, Wired, Finishing
  <2>2. Expected \subseteq Handled /\ hw # r
    BY <1>1, <2>1 DEF Wired, Answer
  <2>3. QED
    BY <2>1, <2>2 DEF Wired, Answer, Active
<1>2. IInv => AnsweredOnce
  BY <1>1 DEF AnsweredOnce
<1>3. QED
  BY <1>2, Invariant, PTL

(* finish_command's panic is out of reach.                                 *)
THEOREM NeverSpurious == ASSUME Copes PROVE Spec => []PendingWhenDone
<1>1. IInv => PendingWhenDone
  BY AtWork DEF IInv, Polling, CountAnswer, Quiet, Wired, Finishing, PendingWhenDone
<1>2. QED
  BY <1>1, Invariant, PTL

(* The timeout ends a request that still waits (phytium_sdif_timeout).     *)
THEOREM TimedOutWaiting == ASSUME Copes PROVE Spec => []TimeoutUnanswered
<1>1. IInv => TimeoutUnanswered
  BY DEF IInv, TimingOut, TimeoutUnanswered
<1>2. QED
  BY <1>1, Invariant, PTL

(* What is on the wire is watched by its timer (callout_reset and _stop).  *)
THEOREM TimerRuns == ASSUME Copes PROVE Spec => []WireWatched
<1>1. IInv => WireWatched
  <2>1. ASSUME IInv, hw \in Req, Unlocked PROVE armed = hw
    <3>1. PICK r \in Req : Active(r) /\ Wired(r)
      BY <2>1, AtWork, ConfigAssumption DEF Quiet, Unlocked
    <3>2. hw = r /\ ipc # "done"
      BY <2>1, <3>1, ConfigAssumption DEF Wired, Answer
    <3>3. QED
      BY <2>1, <3>1, <3>2 DEF Wired, Watched
  <2>2. QED
    BY <2>1 DEF WireWatched
<1>2. QED
  BY <1>1, Invariant, PTL

(* phytium_sdif_timeout finds the request of the command that is set: its  *)
(* assertion holds with a card that answers before the timeout.            *)
THEOREM TimeoutFinds == ASSUME Copes PROVE Spec => []TimeoutFindsRequest
<1>1. IInv => TimeoutFindsRequest
  BY DEF IInv, TimingOut, TimeoutFindsRequest
<1>2. QED
  BY <1>1, Invariant, PTL

(* The driver's own command finds no request pending, as the debug message *)
(* of sdif_finish_command has it, with the same cards.                     *)
THEOREM PrivateAlone == ASSUME Copes PROVE Spec => []PrivateHasNoRequest
<1>1. IInv => PrivateHasNoRequest
  BY DEF IInv, Polling, CountAnswer, Quiet, PrivateHasNoRequest
<1>2. QED
  BY <1>1, Invariant, PTL
=============================================================================
