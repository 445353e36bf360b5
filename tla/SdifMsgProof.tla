---------------------------- MODULE SdifMsgProof ----------------------------
(***************************************************************************)
(* The host has one owner at a time, for every set of threads; and the     *)
(* second SDIF driver keeps the discipline of SdifHost, so that the claim  *)
(* on the host is exclusive around its requests too.                       *)
(***************************************************************************)
EXTENDS SdifMsgRequest, TLAPS

-----------------------------------------------------------------------------
(* The ownership of the host.                                              *)

(* bus_busy tells whether a thread is inside, and who is about to look at  *)
(* it or to change it has the lock.                                        *)
BusyMeansInside == bus_busy = 0 <=> \A t \in Thread : ~Inside(t)
LockedAtTest == \A t \in Thread : pc[t] \in {"test", "use", "release"} => owner = t

IInv == TypeOK /\ HostExclusive /\ BusyMeansInside /\ LockedAtTest

(* The invariant holds when attach is done: nobody is inside.              *)
LEMMA InitInvariant == Init => IInv
  BY ThreadAssumption DEF Init, IInv, TypeOK, HostExclusive, BusyMeansInside,
     LockedAtTest, Inside, Place

(* Every step of acquire_host and release_host preserves it.               *)
LEMMA StepInvariant == IInv /\ [Next]_vars => IInv'
<1> SUFFICES ASSUME IInv, [Next]_vars PROVE IInv'
  OBVIOUS
<1> USE ThreadAssumption DEF IInv, TypeOK, HostExclusive, BusyMeansInside,
        LockedAtTest, Inside, Place
<1>1. CASE UNCHANGED vars
  BY <1>1 DEF vars
<1>2. ASSUME NEW t \in Thread, Acquire(t) PROVE IInv'
  BY <1>2 DEF Acquire, Goto
<1>3. ASSUME NEW t \in Thread, Lock(t) PROVE IInv'
  BY <1>3 DEF Lock, Goto
<1>4. ASSUME NEW t \in Thread, Sleep(t) PROVE IInv'
  BY <1>4 DEF Sleep, Goto
<1>5. ASSUME NEW t \in Thread, WakeTimeout(t) PROVE IInv'
  BY <1>5 DEF WakeTimeout, Goto
<1>6. ASSUME NEW t \in Thread, Take(t) PROVE IInv'
  BY <1>6 DEF Take, Goto
<1>10. ASSUME NEW t \in Thread, UseLock(t) PROVE IInv'
  BY <1>10 DEF UseLock, Goto
<1>11. ASSUME NEW t \in Thread, UseUnlock(t) PROVE IInv'
  BY <1>11 DEF UseUnlock, Goto
<1>7. ASSUME NEW t \in Thread, ReleaseLock(t) PROVE IInv'
  BY <1>7 DEF ReleaseLock, Goto
<1>8. ASSUME NEW t \in Thread, Release(t) PROVE IInv'
  BY <1>8 DEF Release
<1>9. QED
  BY <1>1, <1>2, <1>3, <1>4, <1>5, <1>6, <1>7, <1>8, <1>10, <1>11 DEF Next

(* bus_busy is 0 or 1 (phytium_sdif_acquire_host, _release_host).          *)
THEOREM TypeCorrect == Spec => []TypeOK
<1>1. IInv => TypeOK
  BY DEF IInv
<1>2. QED
  BY <1>1, InitInvariant, StepInvariant, PTL DEF Spec

(* One thread at a time has claimed the host.                              *)
THEOREM Exclusive == Spec => []HostExclusive
<1>1. IInv => HostExclusive
  BY DEF IInv
<1>2. QED
  BY <1>1, InitInvariant, StepInvariant, PTL DEF Spec

-----------------------------------------------------------------------------
(* The requests of the second driver under that ownership.                 *)

(* A thread in phytium_sdif_v2_request moves the host as SdifHost lets it. *)
LEMMA RequestUsesHost ==
    ASSUME NEW t \in Thread, MsgRequest(t) \/ MsgLock(t) \/ MsgStep(t) \/ MsgFault(t)
    PROVE  UseLock(t) \/ UseUnlock(t) \/ UNCHANGED vars
<1>1. CASE MsgRequest(t)
  BY <1>1 DEF MsgRequest, hostVars, vars
<1>2. CASE MsgLock(t)
  BY <1>2 DEF MsgLock
<1>3. CASE MsgStep(t)
  <2>1. CASE MsgUnlock(t)
    BY <2>1 DEF MsgUnlock
  <2>2. CASE MsgPreRequest(t) \/ MsgCountFlags(t) \/ MsgCountTransfer(t) \/ MsgCountPolled(t)
    BY <2>2 DEF MsgPreRequest, MsgCountFlags, MsgCountTransfer, MsgCountPolled, hostVars, vars
  <2>3. CASE MsgSkip(t) \/ MsgSet(t) \/ MsgFlags(t) \/ MsgTransfer(t) \/ MsgArm(t) \/ MsgEnd(t)
    BY <2>3 DEF MsgSkip, MsgSet, MsgFlags, MsgTransfer, MsgArm, MsgEnd, hostVars, vars
  <2>4. QED
    BY <1>3, <2>1, <2>2, <2>3 DEF MsgStep
<1>4. CASE MsgFault(t)
  BY <1>4 DEF MsgFault, MsgBusy, MsgCountFailed, MsgFailed, hostVars, vars
<1>5. QED
  BY <1>1, <1>2, <1>3, <1>4

(* Every step of the driver is one of SdifHost or leaves the host alone.   *)
LEMMA MsgStepIsHostStep == [MsgNext]_msgVars => [Next]_vars
<1> SUFFICES ASSUME [MsgNext]_msgVars PROVE [Next]_vars
  OBVIOUS
<1>1. CASE UNCHANGED msgVars
  BY <1>1 DEF msgVars, hostVars, vars
<1>2. ASSUME NEW t \in Thread, HostAcquire(t) PROVE Next
  BY <1>2 DEF HostAcquire, Next
<1>3. ASSUME NEW t \in Thread, HostLock(t) PROVE Next
  BY <1>3 DEF HostLock, Next
<1>4. ASSUME NEW t \in Thread, HostStep(t) PROVE Next
  BY <1>4 DEF HostStep, Next
<1>5. ASSUME NEW t \in Thread, MsgRequest(t) \/ MsgLock(t) \/ MsgStep(t) \/ MsgFault(t)
      PROVE  [Next]_vars
  BY <1>5, RequestUsesHost DEF Next
<1>6. CASE MsgTasks
  BY <1>6 DEF MsgTasks, hostVars, vars
<1>7. QED
  BY <1>1, <1>2, <1>3, <1>4, <1>5, <1>6 DEF MsgNext

(* The second driver's host implements SdifHost.                           *)
THEOREM MsgImplementsHost == MsgSpec => Spec
<1>1. MsgInit => Init
  BY DEF MsgInit
<1>2. QED
  BY <1>1, MsgStepIsHostStep, PTL DEF MsgSpec, Spec

(* One thread at a time has the host of the second driver, while it issues *)
(* requests that release and take the lock in their middle.                *)
THEOREM MsgExclusive == MsgSpec => []HostExclusive
  BY MsgImplementsHost, Exclusive, PTL

-----------------------------------------------------------------------------
(* The flags that requests, callbacks and the callout share.  What the     *)
(* callbacks do is the first driver's, and so are the lemmas about them.   *)
P == INSTANCE SdifRequestProof WITH Req <- Thread, None <- NoThread, cur <- owner,
                kind <- IF owner = NoThread THEN "cmd" ELSE kind[owner],
                rpc <- IF owner = NoThread THEN "idle" ELSE "held"

(* Places in phytium_sdif_v2_request with and without the lock.            *)
Locked == {"countflags", "countxfer", "poll", "counted", "uncounted", "set", "flags",
           "xfer", "arm", "armed", "failed"}
Unlocked == {"busy", "count", "second", "skip", "wait", "refused"}

MsgTypes ==
    /\ rpc \in [Thread -> {"none"} \cup Locked \cup Unlocked]
    /\ kind \in [Thread -> {"cmd", "data", "multi"}]
    /\ P!TaskTypes
    /\ armed \in Thread \cup {NoThread}

(* Only the thread inside has a request.                                   *)
Placed == \A t \in Thread :
    /\ rpc[t] # "none" => pc[t] \in {"in", "use"}
    /\ rpc[t] \in Locked <=> pc[t] = "use"
    /\ rpc[t] = "none" <=> status[t] = "free"

(* Until its command is set, nothing is on the wire but the block count.   *)
Preparing == {"busy", "count", "countflags", "countxfer", "counted", "uncounted",
              "second", "skip", "set"}
Before == \A t \in Thread : rpc[t] \in Preparing =>
    /\ P!Quiet /\ P!Clean /\ status[t] = "sent"
    /\ rpc[t] = "countxfer" => req_pending /\ ~expect_data

Counting == \A t \in Thread :
    /\ rpc[t] = "poll" => P!Clean /\ P!CountAnswer /\ status[t] = "sent"
    /\ rpc[t] \in {"count", "countflags", "countxfer", "poll", "counted", "uncounted"}
         => ~auto_stop

Issued == \A t \in Thread : rpc[t] \in {"flags", "xfer", "failed"} =>
    /\ P!Quiet /\ req = t /\ curcmd /\ status[t] = "sent"
    /\ rpc[t] = "xfer" => /\ req_pending /\ ~cmd_done /\ ~dto_rcvd
                          /\ expect_data = (kind[t] # "cmd")

(* Then it is on the wire, until done() is called.                         *)
Wired(t) ==
    /\ P!Answer(t) /\ P!Finishing(t)
    /\ rpc[t] \in {"armed", "wait"} /\ tpc = "idle" /\ ipc # "done" => armed = t

OnTheWire == \A t \in Thread : rpc[t] \in {"arm", "armed", "wait"} =>
    \/ P!Active(t) /\ Wired(t)
    \/ status[t] = "sent" /\ tpc = "done" /\ P!Quiet
    \/ /\ status[t] = "done" /\ P!Quiet /\ P!Clean
       /\ rpc[t] \in {"arm", "armed"} => req = NoThread /\ ~curcmd

(* A request that was refused can still be found by a timer.               *)
Refused == \A t \in Thread : rpc[t] = "refused" =>
    P!Quiet /\ (curcmd /\ armed # NoThread => req = t /\ status[t] = "sent")

AtRest == (\A t \in Thread : rpc[t] = "none") => P!Quiet /\ P!Clean

MsgTimingOut == tpc # "idle" =>
    /\ tpc # "panic" /\ armed = NoThread
    /\ ipc = "idle" /\ irq = {} /\ ibits = {} /\ hwleft = {}
    /\ req \in Thread /\ status[req] = "sent"
    /\ rpc[req] = "refused" \/ (rpc[req] = "wait" /\ P!Lossy)
    /\ tpc \in {"restart", "done"} => treq = req
    /\ tpc = "done" => hw = NoThread

CountWired == \A t \in Thread :
    NeedCount(t) /\ rpc[t] \in {"poll", "counted", "second", "set", "flags", "xfer"}
        => wired = <<t, "count">>

FlagsInv == /\ MsgTypes /\ P!EnvInv /\ Placed /\ Before /\ Counting /\ Issued /\ OnTheWire
            /\ Refused /\ AtRest /\ MsgTimingOut /\ CountWired

-----------------------------------------------------------------------------
LEMMA Config == NoThread \notin Thread /\ Count \notin Thread /\ NoThread # Count
  BY MsgAssumption DEF R!ConfigAssumption

LEMMA OnlyOne ==
    ASSUME IInv, FlagsInv, NEW t \in Thread, rpc[t] # "none", NEW s \in Thread, s # t
    PROVE  rpc[s] = "none"
  BY DEF IInv, HostExclusive, Inside, FlagsInv, Placed

(* The host moves only under threads that have no request.                 *)
LEMMA HostKeeps ==
    ASSUME IInv, FlagsInv, NEW t \in Thread, HostAcquire(t) \/ HostLock(t) \/ HostStep(t)
    PROVE  FlagsInv'
<1> USE DEF reqVars, taskVars, softc, hwVars, envVars
<1>1. UNCHANGED <<rpc, kind, wired, ipc, ibits, ireq, tpc, treq, auto_stop, card, status, req, curcmd,
                  cmd_done, dto_rcvd, req_pending, expect_data, armed, hw, hwleft, irq>>
  BY DEF HostAcquire, HostLock, HostStep
<1>2. Placed'
  <2>1. pc[t] \in {"out", "lock", "test", "asleep", "release"} \/ (pc[t] = "in" /\ rpc[t] = "none")
    BY DEF HostAcquire, HostLock, HostStep, Acquire, Lock, ReleaseLock, Sleep, WakeTimeout,
       Take, Release
  <2>2. \A s \in Thread : pc'[s] = "use" <=> pc[s] = "use"
    BY <2>1 DEF IInv, TypeOK, Place, Goto, HostAcquire, HostLock, HostStep, Acquire, Lock,
       ReleaseLock, Sleep, WakeTimeout, Take, Release
  <2>3. \A s \in Thread : rpc[s] # "none" => pc'[s] = pc[s]
    BY <2>1 DEF IInv, TypeOK, Place, Goto, HostAcquire, HostLock, HostStep, Acquire, Lock,
       ReleaseLock, Sleep, WakeTimeout, Take, Release, FlagsInv, Placed
  <2>4. QED
    BY <1>1, <2>2, <2>3 DEF FlagsInv, Placed
<1>3. /\ MsgTypes' /\ P!EnvInv' /\ Before' /\ Counting' /\ Issued' /\ Refused' /\ AtRest'
  BY <1>1 DEF FlagsInv, MsgTypes, P!TaskTypes, P!EnvInv, P!Lossy, Before, Counting, Issued,
     Refused, AtRest, P!Quiet, P!Clean, P!CountAnswer
<1>4. OnTheWire' /\ MsgTimingOut' /\ CountWired'
  BY <1>1 DEF FlagsInv, OnTheWire, Wired, P!Active, P!Answer, P!Finishing, P!Expected, P!Handled,
     P!Quiet, P!Clean, P!Lossy, MsgTimingOut, CountWired, NeedCount
<1>5. QED
  BY <1>2, <1>3, <1>4 DEF FlagsInv

-----------------------------------------------------------------------------
(* phytium_sdif_v2_request.                                                *)

LEMMA MsgRequestKeeps ==
    ASSUME IInv, FlagsInv, NEW t \in Thread, MsgRequest(t) PROVE FlagsInv'
<1>0. \A s \in Thread : s # t => rpc[s] = "none" /\ rpc'[s] = "none"
  BY DEF MsgRequest, GotoReq, IInv, HostExclusive, Inside, FlagsInv, MsgTypes, Placed
<1> USE <1>0, Config DEF FlagsInv, MsgRequest, GotoReq, hostVars, taskVars, softc, hwVars, envVars
<1>1. MsgTypes' /\ P!EnvInv' /\ Placed'
  BY DEF MsgTypes, P!TaskTypes, P!EnvInv, P!Lossy, Placed, Locked, Unlocked, R!Kinds
<1>2. Before' /\ Counting' /\ Issued'
  BY DEF MsgTypes, Placed, Before, Counting, Issued, Preparing, P!Quiet, P!Clean, P!CountAnswer, P!EnvInv, P!Lossy, AtRest, P!TaskTypes
<1>3. OnTheWire' /\ Refused' /\ AtRest'
  BY DEF MsgTypes, Placed, Before, Issued, OnTheWire, Refused, AtRest, Wired, P!Active, P!Answer, P!Finishing, P!Expected, P!Handled, P!Quiet, P!Clean, P!Lossy, Preparing
<1>4. MsgTimingOut' /\ CountWired'
  BY DEF MsgTypes, Placed, MsgTimingOut, CountWired, NeedCount, P!Lossy
<1>5. QED
  BY <1>1, <1>2, <1>3, <1>4

LEMMA MsgBusyKeeps ==
    ASSUME IInv, FlagsInv, NEW t \in Thread, MsgBusy(t) PROVE FlagsInv'
<1>0. \A s \in Thread : s # t => rpc[s] = "none" /\ rpc'[s] = "none"
  BY OnlyOne DEF MsgBusy, GotoReq, FlagsInv, MsgTypes
<1> USE <1>0, Config DEF FlagsInv, MsgBusy, GotoReq, hostVars, taskVars, softc, hwVars, envVars
<1>1. MsgTypes' /\ P!EnvInv' /\ Placed'
  BY DEF MsgTypes, P!TaskTypes, P!EnvInv, P!Lossy, Placed, Locked, Unlocked
<1>2. Before' /\ Counting' /\ Issued'
  BY DEF MsgTypes, Placed, Before, Counting, Issued, Preparing, P!Quiet, P!Clean, P!CountAnswer, P!EnvInv, P!Lossy
<1>3. OnTheWire' /\ Refused' /\ AtRest'
  BY DEF MsgTypes, Placed, Before, Issued, OnTheWire, Refused, AtRest, Wired, P!Active, P!Answer, P!Finishing, P!Expected, P!Handled, P!Quiet, P!Clean, P!Lossy, Preparing
<1>4. MsgTimingOut' /\ CountWired'
  BY DEF MsgTypes, Placed, MsgTimingOut, CountWired, NeedCount, P!Lossy
<1>5. QED
  BY <1>1, <1>2, <1>3, <1>4

LEMMA MsgPreRequestKeeps ==
    ASSUME IInv, FlagsInv, NEW t \in Thread, MsgPreRequest(t) PROVE FlagsInv'
<1>0. \A s \in Thread : s # t => rpc[s] = "none" /\ rpc'[s] = "none"
  BY OnlyOne DEF MsgPreRequest, GotoReq, FlagsInv, MsgTypes
<1> USE <1>0, Config DEF FlagsInv, MsgPreRequest, GotoReq, hostVars, taskVars, softc, hwVars, envVars
<1>1. MsgTypes' /\ P!EnvInv' /\ Placed'
  BY DEF MsgTypes, P!TaskTypes, P!EnvInv, P!Lossy, Placed, Locked, Unlocked
<1>2. Before' /\ Counting' /\ Issued'
  BY DEF MsgTypes, Placed, Before, Counting, Issued, Preparing, P!Quiet, P!Clean, P!CountAnswer, P!EnvInv, P!Lossy, NeedCount
<1>3. OnTheWire' /\ Refused' /\ AtRest'
  BY DEF MsgTypes, Placed, Before, Issued, OnTheWire, Refused, AtRest, Wired, P!Active, P!Answer, P!Finishing, P!Expected, P!Handled, P!Quiet, P!Clean, P!Lossy, Preparing
<1>4. MsgTimingOut' /\ CountWired'
  BY DEF MsgTypes, Placed, MsgTimingOut, CountWired, NeedCount, P!Lossy
<1>5. QED
  BY <1>1, <1>2, <1>3, <1>4

LEMMA MsgLockKeeps ==
    ASSUME IInv, FlagsInv, NEW t \in Thread, MsgLock(t) PROVE FlagsInv'
<1>0. \A s \in Thread : s # t => rpc[s] = "none" /\ rpc'[s] = "none"
  BY OnlyOne DEF MsgLock, GotoReq, FlagsInv, MsgTypes
<1> USE <1>0, Config DEF FlagsInv, MsgLock, GotoReq, hostVars, taskVars, softc, hwVars, envVars
<1>1. MsgTypes' /\ P!EnvInv' /\ Placed'
  BY DEF MsgTypes, P!TaskTypes, P!EnvInv, P!Lossy, Placed, Locked, Unlocked, UseLock, Goto, IInv, TypeOK
<1>2. Before' /\ Counting' /\ Issued'
  BY DEF MsgTypes, Placed, Before, Counting, Issued, Preparing, P!Quiet, P!Clean, P!CountAnswer, P!EnvInv, P!Lossy
<1>3. OnTheWire' /\ Refused' /\ AtRest'
  BY DEF MsgTypes, Placed, Before, Issued, OnTheWire, Refused, AtRest, Wired, P!Active, P!Answer, P!Finishing, P!Expected, P!Handled, P!Quiet, P!Clean, P!Lossy, Preparing
<1>4. MsgTimingOut' /\ CountWired'
  BY DEF MsgTypes, Placed, MsgTimingOut, CountWired, NeedCount, P!Lossy
<1>5. QED
  BY <1>1, <1>2, <1>3, <1>4

LEMMA MsgUnlockKeeps ==
    ASSUME IInv, FlagsInv, NEW t \in Thread, MsgUnlock(t) PROVE FlagsInv'
<1>0. \A s \in Thread : s # t => rpc[s] = "none" /\ rpc'[s] = "none"
  BY OnlyOne DEF MsgUnlock, GotoReq, FlagsInv, MsgTypes
<1> USE <1>0, Config DEF FlagsInv, MsgUnlock, GotoReq, hostVars, taskVars, softc, hwVars, envVars
<1>1. MsgTypes' /\ P!EnvInv' /\ Placed'
  BY DEF MsgTypes, P!TaskTypes, P!EnvInv, P!Lossy, Placed, Locked, Unlocked, UseUnlock, Goto, IInv, TypeOK
<1>2. Before' /\ Counting' /\ Issued'
  BY DEF MsgTypes, Placed, Before, Counting, Issued, Preparing, P!Quiet, P!Clean, P!CountAnswer, P!EnvInv, P!Lossy
<1>3. OnTheWire' /\ Refused' /\ AtRest'
  BY DEF MsgTypes, Placed, Before, Issued, OnTheWire, Refused, AtRest, Wired, P!Active, P!Answer, P!Finishing, P!Expected, P!Handled, P!Quiet, P!Clean, P!Lossy, Preparing
<1>4. MsgTimingOut' /\ CountWired'
  BY DEF MsgTypes, Placed, MsgTimingOut, CountWired, NeedCount, P!Lossy
<1>5. QED
  BY <1>1, <1>2, <1>3, <1>4

LEMMA MsgCountFlagsKeeps ==
    ASSUME IInv, FlagsInv, NEW t \in Thread, MsgCountFlags(t) PROVE FlagsInv'
<1>0. \A s \in Thread : s # t => rpc[s] = "none" /\ rpc'[s] = "none"
  BY OnlyOne DEF MsgCountFlags, GotoReq, FlagsInv, MsgTypes
<1> USE <1>0, Config DEF FlagsInv, MsgCountFlags, GotoReq, hostVars, taskVars, softc, hwVars, envVars
<1>1. MsgTypes' /\ P!EnvInv' /\ Placed'
  BY DEF MsgTypes, P!TaskTypes, P!EnvInv, P!Lossy, Placed, Locked, Unlocked
<1>2. Before' /\ Counting' /\ Issued'
  BY DEF MsgTypes, Placed, Before, Counting, Issued, Preparing, P!Quiet, P!Clean, P!CountAnswer, P!EnvInv, P!Lossy
<1>3. OnTheWire' /\ Refused' /\ AtRest'
  BY DEF MsgTypes, Placed, Before, Issued, OnTheWire, Refused, AtRest, Wired, P!Active, P!Answer, P!Finishing, P!Expected, P!Handled, P!Quiet, P!Clean, P!Lossy, Preparing
<1>4. MsgTimingOut' /\ CountWired'
  BY DEF MsgTypes, Placed, MsgTimingOut, CountWired, NeedCount, P!Lossy
<1>5. QED
  BY <1>1, <1>2, <1>3, <1>4

LEMMA MsgCountTransferKeeps ==
    ASSUME IInv, FlagsInv, NEW t \in Thread, MsgCountTransfer(t) PROVE FlagsInv'
<1>0. \A s \in Thread : s # t => rpc[s] = "none" /\ rpc'[s] = "none"
  BY OnlyOne DEF MsgCountTransfer, GotoReq, FlagsInv, MsgTypes
<1> USE <1>0, Config DEF FlagsInv, MsgCountTransfer, GotoReq, hostVars, taskVars, softc, hwVars, envVars
<1>1. MsgTypes' /\ P!EnvInv' /\ Placed'
  BY DEF MsgTypes, P!TaskTypes, P!EnvInv, P!Lossy, Placed, Locked, Unlocked
<1>2. Before' /\ Counting' /\ Issued'
  BY DEF MsgTypes, Placed, Before, Counting, Issued, Preparing, P!Quiet, P!Clean, P!CountAnswer, P!EnvInv, P!Lossy
<1>3. OnTheWire' /\ Refused' /\ AtRest'
  BY DEF MsgTypes, Placed, Before, Issued, OnTheWire, Refused, AtRest, Wired, P!Active, P!Answer, P!Finishing, P!Expected, P!Handled, P!Quiet, P!Clean, P!Lossy, Preparing
<1>4. MsgTimingOut' /\ CountWired'
  BY DEF MsgTypes, Placed, MsgTimingOut, CountWired, NeedCount, P!Lossy
<1>5. QED
  BY <1>1, <1>2, <1>3, <1>4

LEMMA MsgCountPolledKeeps ==
    ASSUME IInv, FlagsInv, NEW t \in Thread, MsgCountPolled(t) PROVE FlagsInv'
<1>0. \A s \in Thread : s # t => rpc[s] = "none" /\ rpc'[s] = "none"
  BY OnlyOne DEF MsgCountPolled, GotoReq, FlagsInv, MsgTypes
<1> USE <1>0, Config DEF FlagsInv, MsgCountPolled, GotoReq, hostVars, taskVars, softc, hwVars, envVars
<1>1. MsgTypes' /\ P!EnvInv' /\ Placed'
  BY DEF MsgTypes, P!TaskTypes, P!EnvInv, P!Lossy, Placed, Locked, Unlocked
<1>2. Before' /\ Counting' /\ Issued'
  BY DEF MsgTypes, Placed, Before, Counting, Issued, Preparing, P!Quiet, P!Clean, P!CountAnswer, P!EnvInv, P!Lossy
<1>3. OnTheWire' /\ Refused' /\ AtRest'
  BY DEF MsgTypes, Placed, Before, Issued, OnTheWire, Refused, AtRest, Wired, P!Active, P!Answer, P!Finishing, P!Expected, P!Handled, P!Quiet, P!Clean, P!Lossy, Preparing
<1>4. MsgTimingOut' /\ CountWired'
  BY DEF MsgTypes, Placed, MsgTimingOut, CountWired, NeedCount, P!Lossy
<1>5. QED
  BY <1>1, <1>2, <1>3, <1>4

LEMMA MsgCountFailedKeeps ==
    ASSUME IInv, FlagsInv, NEW t \in Thread, MsgCountFailed(t) PROVE FlagsInv'
<1>0. \A s \in Thread : s # t => rpc[s] = "none" /\ rpc'[s] = "none"
  BY OnlyOne DEF MsgCountFailed, GotoReq, FlagsInv, MsgTypes
<1> USE <1>0, Config DEF FlagsInv, MsgCountFailed, GotoReq, hostVars, taskVars, softc, hwVars, envVars
<1>1. MsgTypes' /\ P!EnvInv' /\ Placed'
  BY DEF MsgTypes, P!TaskTypes, P!EnvInv, P!Lossy, Placed, Locked, Unlocked
<1>2. Before' /\ Counting' /\ Issued'
  BY DEF MsgTypes, Placed, Before, Counting, Issued, Preparing, P!Quiet, P!Clean, P!CountAnswer, P!EnvInv, P!Lossy, R!Elapsed
<1>3. OnTheWire' /\ Refused' /\ AtRest'
  BY DEF MsgTypes, Placed, Before, Issued, OnTheWire, Refused, AtRest, Wired, P!Active, P!Answer, P!Finishing, P!Expected, P!Handled, P!Quiet, P!Clean, P!Lossy, Preparing
<1>4. MsgTimingOut' /\ CountWired'
  BY DEF MsgTypes, Placed, MsgTimingOut, CountWired, NeedCount, P!Lossy
<1>5. QED
  BY <1>1, <1>2, <1>3, <1>4

LEMMA MsgSkipKeeps ==
    ASSUME IInv, FlagsInv, NEW t \in Thread, MsgSkip(t) PROVE FlagsInv'
<1>0. \A s \in Thread : s # t => rpc[s] = "none" /\ rpc'[s] = "none"
  BY OnlyOne DEF MsgSkip, GotoReq, FlagsInv, MsgTypes
<1> USE <1>0, Config DEF FlagsInv, MsgSkip, GotoReq, hostVars, taskVars, softc, hwVars, envVars
<1>1. MsgTypes' /\ P!EnvInv' /\ Placed'
  BY DEF MsgTypes, P!TaskTypes, P!EnvInv, P!Lossy, Placed, Locked, Unlocked
<1>2. Before' /\ Counting' /\ Issued'
  BY DEF MsgTypes, Placed, Before, Counting, Issued, Preparing, P!Quiet, P!Clean, P!CountAnswer, P!EnvInv, P!Lossy
<1>3. OnTheWire' /\ Refused' /\ AtRest'
  BY DEF MsgTypes, Placed, Before, Issued, OnTheWire, Refused, AtRest, Wired, P!Active, P!Answer, P!Finishing, P!Expected, P!Handled, P!Quiet, P!Clean, P!Lossy, Preparing, P!TaskTypes
<1>4. MsgTimingOut' /\ CountWired'
  BY DEF MsgTypes, Placed, MsgTimingOut, CountWired, NeedCount, P!Lossy
<1>5. QED
  BY <1>1, <1>2, <1>3, <1>4

LEMMA MsgSetKeeps ==
    ASSUME IInv, FlagsInv, NEW t \in Thread, MsgSet(t) PROVE FlagsInv'
<1>0. \A s \in Thread : s # t => rpc[s] = "none" /\ rpc'[s] = "none"
  BY OnlyOne DEF MsgSet, GotoReq, FlagsInv, MsgTypes
<1> USE <1>0, Config DEF FlagsInv, MsgSet, GotoReq, hostVars, taskVars, softc, hwVars, envVars
<1>1. MsgTypes' /\ P!EnvInv' /\ Placed'
  BY DEF MsgTypes, P!TaskTypes, P!EnvInv, P!Lossy, Placed, Locked, Unlocked
<1>2. Before' /\ Counting' /\ Issued'
  BY DEF MsgTypes, Placed, Before, Counting, Issued, Preparing, P!Quiet, P!Clean, P!CountAnswer, P!EnvInv, P!Lossy
<1>3. OnTheWire' /\ Refused' /\ AtRest'
  BY DEF MsgTypes, Placed, Before, Issued, OnTheWire, Refused, AtRest, Wired, P!Active, P!Answer, P!Finishing, P!Expected, P!Handled, P!Quiet, P!Clean, P!Lossy, Preparing
<1>4. MsgTimingOut' /\ CountWired'
  BY DEF MsgTypes, Placed, MsgTimingOut, CountWired, NeedCount, P!Lossy
<1>5. QED
  BY <1>1, <1>2, <1>3, <1>4

LEMMA MsgFlagsKeeps ==
    ASSUME IInv, FlagsInv, NEW t \in Thread, MsgFlags(t) PROVE FlagsInv'
<1>0. \A s \in Thread : s # t => rpc[s] = "none" /\ rpc'[s] = "none"
  BY OnlyOne DEF MsgFlags, GotoReq, FlagsInv, MsgTypes
<1> USE <1>0, Config DEF FlagsInv, MsgFlags, GotoReq, hostVars, taskVars, softc, hwVars, envVars
<1>1. MsgTypes' /\ P!EnvInv' /\ Placed'
  BY DEF MsgTypes, P!TaskTypes, P!EnvInv, P!Lossy, Placed, Locked, Unlocked
<1>2. Before' /\ Counting' /\ Issued'
  BY DEF MsgTypes, Placed, Before, Counting, Issued, Preparing, P!Quiet, P!Clean, P!CountAnswer, P!EnvInv, P!Lossy
<1>3. OnTheWire' /\ Refused' /\ AtRest'
  BY DEF MsgTypes, Placed, Before, Issued, OnTheWire, Refused, AtRest, Wired, P!Active, P!Answer, P!Finishing, P!Expected, P!Handled, P!Quiet, P!Clean, P!Lossy, Preparing
<1>4. MsgTimingOut' /\ CountWired'
  BY DEF MsgTypes, Placed, MsgTimingOut, CountWired, NeedCount, P!Lossy
<1>5. QED
  BY <1>1, <1>2, <1>3, <1>4

LEMMA MsgTransferKeeps ==
    ASSUME IInv, FlagsInv, NEW t \in Thread, MsgTransfer(t) PROVE FlagsInv'
<1>0. \A s \in Thread : s # t => rpc[s] = "none" /\ rpc'[s] = "none"
  BY OnlyOne DEF MsgTransfer, GotoReq, FlagsInv, MsgTypes
<1> USE <1>0, Config DEF FlagsInv, MsgTransfer, GotoReq, hostVars, taskVars, softc, hwVars, envVars
<1>1. MsgTypes' /\ P!EnvInv' /\ Placed'
  BY DEF MsgTypes, P!TaskTypes, P!EnvInv, P!Lossy, Placed, Locked, Unlocked
<1>2. Before' /\ Counting' /\ Issued'
  BY DEF MsgTypes, Placed, Before, Counting, Issued, Preparing, P!Quiet, P!Clean, P!CountAnswer, P!EnvInv, P!Lossy
<1>3. OnTheWire' /\ Refused' /\ AtRest'
  <2>1. P!Expected' = hwleft' /\ P!Handled' = {}
    BY DEF Issued, P!Expected, P!Handled
  <2>2. P!Answer(t)'
    BY <2>1 DEF Issued, P!Quiet, P!Lossy, P!Answer, P!EnvInv
  <2>3. Wired(t)' /\ P!Active(t)' /\ rpc'[t] = "arm"
    BY <2>2 DEF MsgTypes, Issued, P!Quiet, Wired, P!Finishing, P!Active
  <2>4. QED
    BY <2>3 DEF OnTheWire, Refused, AtRest
<1>4. MsgTimingOut' /\ CountWired'
  BY DEF MsgTypes, Placed, MsgTimingOut, CountWired, NeedCount, P!Lossy
<1>5. QED
  BY <1>1, <1>2, <1>3, <1>4

LEMMA MsgFailedKeeps ==
    ASSUME IInv, FlagsInv, NEW t \in Thread, MsgFailed(t) PROVE FlagsInv'
<1>0. \A s \in Thread : s # t => rpc[s] = "none" /\ rpc'[s] = "none"
  BY OnlyOne DEF MsgFailed, GotoReq, FlagsInv, MsgTypes
<1> USE <1>0, Config DEF FlagsInv, MsgFailed, GotoReq, hostVars, taskVars, softc, hwVars, envVars
<1>1. MsgTypes' /\ P!EnvInv' /\ Placed'
  BY DEF MsgTypes, P!TaskTypes, P!EnvInv, P!Lossy, Placed, Locked, Unlocked
<1>2. Before' /\ Counting' /\ Issued'
  BY DEF MsgTypes, Placed, Before, Counting, Issued, Preparing, P!Quiet, P!Clean, P!CountAnswer, P!EnvInv, P!Lossy
<1>3. OnTheWire' /\ Refused' /\ AtRest'
  BY DEF MsgTypes, Placed, Before, Issued, OnTheWire, Refused, AtRest, Wired, P!Active, P!Answer, P!Finishing, P!Expected, P!Handled, P!Quiet, P!Clean, P!Lossy, Preparing
<1>4. MsgTimingOut' /\ CountWired'
  BY DEF MsgTypes, Placed, MsgTimingOut, CountWired, NeedCount, P!Lossy
<1>5. QED
  BY <1>1, <1>2, <1>3, <1>4

LEMMA MsgArmKeeps ==
    ASSUME IInv, FlagsInv, NEW t \in Thread, MsgArm(t) PROVE FlagsInv'
<1>0. \A s \in Thread : s # t => rpc[s] = "none" /\ rpc'[s] = "none"
  BY OnlyOne DEF MsgArm, GotoReq, FlagsInv, MsgTypes
<1> USE <1>0, Config DEF FlagsInv, MsgArm, GotoReq, hostVars, taskVars, softc, hwVars, envVars
<1>1. MsgTypes' /\ P!EnvInv' /\ Placed'
  BY DEF MsgTypes, P!TaskTypes, P!EnvInv, P!Lossy, Placed, Locked, Unlocked
<1>2. Before' /\ Counting' /\ Issued'
  BY DEF MsgTypes, Placed, Before, Counting, Issued, Preparing, P!Quiet, P!Clean, P!CountAnswer, P!EnvInv, P!Lossy
<1>3. OnTheWire' /\ Refused' /\ AtRest'
  BY DEF MsgTypes, Placed, Before, Issued, OnTheWire, Refused, AtRest, Wired, P!Active, P!Answer, P!Finishing, P!Expected, P!Handled, P!Quiet, P!Clean, P!Lossy, Preparing
<1>4. MsgTimingOut' /\ CountWired'
  BY DEF MsgTypes, Placed, MsgTimingOut, CountWired, NeedCount, P!Lossy
<1>5. QED
  BY <1>1, <1>2, <1>3, <1>4

LEMMA MsgEndKeeps ==
    ASSUME IInv, FlagsInv, NEW t \in Thread, MsgEnd(t) PROVE FlagsInv'
<1>0. \A s \in Thread : s # t => rpc[s] = "none" /\ rpc'[s] = "none"
  BY OnlyOne DEF MsgEnd, GotoReq, FlagsInv, MsgTypes
<1> USE <1>0, Config DEF FlagsInv, MsgEnd, GotoReq, hostVars, taskVars, softc, hwVars, envVars
<1>1. MsgTypes' /\ P!EnvInv' /\ Placed'
  BY DEF MsgTypes, P!TaskTypes, P!EnvInv, P!Lossy, Placed, Locked, Unlocked
<1>2. Before' /\ Counting' /\ Issued'
  BY DEF MsgTypes, Placed, Before, Counting, Issued, Preparing, P!Quiet, P!Clean, P!CountAnswer, P!EnvInv, P!Lossy
<1>3. OnTheWire' /\ Refused' /\ AtRest'
  BY DEF MsgTypes, Placed, Before, Issued, OnTheWire, Refused, AtRest, Wired, P!Active, P!Answer, P!Finishing, P!Expected, P!Handled, P!Quiet, P!Clean, P!Lossy, Preparing
<1>4. MsgTimingOut' /\ CountWired'
  BY DEF MsgTypes, Placed, MsgTimingOut, CountWired, NeedCount, P!Lossy
<1>5. QED
  BY <1>1, <1>2, <1>3, <1>4

-----------------------------------------------------------------------------
(* The interrupt task and the controller.                                  *)
Tasks == MsgIntr \/ MsgCommandDone \/ MsgDataDone \/ MsgFinish \/ MsgHw

LEMMA TasksAreTasks ==
    MsgTasks /\ Tasks => P!TaskStep /\ UNCHANGED <<hostVars, reqVars, wired, envVars>>
<1> USE DEF P!envVars, envVars, P!softc, P!reqVars, P!isrVars, P!tmoVars, P!hwVars, R!softc,
        R!reqVars, R!isrVars, R!tmoVars, R!hwVars, P!TaskStep, P!IntrSteps, MsgTasks
<1>1. ASSUME MsgTasks, MsgIntr PROVE P!TaskStep /\ UNCHANGED wired
  BY <1>1 DEF MsgIntr, R!Intr, R!IntrEnd, P!Intr, P!IntrEnd
<1>2. ASSUME MsgTasks, MsgCommandDone PROVE P!TaskStep /\ UNCHANGED wired
  BY <1>2 DEF MsgCommandDone, R!CommandDone, P!CommandDone, R!CmdCompletes, P!CmdCompletes
<1>3. ASSUME MsgTasks, MsgDataDone PROVE P!TaskStep /\ UNCHANGED wired
  BY <1>3 DEF MsgDataDone, R!DataDone, P!DataDone, R!DataCompletes, P!DataCompletes
<1>4. ASSUME MsgTasks, MsgFinish PROVE P!TaskStep /\ UNCHANGED wired
  BY <1>4 DEF MsgFinish, R!Finish, P!Finish, R!FinishPrivate, P!FinishPrivate,
     R!FinishClearReq, P!FinishClearReq, R!FinishClearCmd, P!FinishClearCmd, R!FinishStop,
     P!FinishStop, R!FinishDone, P!FinishDone
<1>5. ASSUME MsgTasks, MsgHw PROVE P!TaskStep /\ UNCHANGED wired
  BY <1>5 DEF MsgHw, R!HwEvent, P!HwEvent, R!HwLose, P!HwLose
<1>6. QED
  BY <1>1, <1>2, <1>3, <1>4, <1>5 DEF Tasks

LEMMA TasksKeep == ASSUME IInv, FlagsInv, MsgTasks, Tasks PROVE FlagsInv'
<1>0. P!TaskStep /\ UNCHANGED <<rpc, kind, wired, pc, auto_stop, card>>
  BY TasksAreTasks DEF hostVars, reqVars, envVars
<1>1. P!ConfigAssumption /\ (P!Lossy' <=> P!Lossy)
  BY <1>0, MsgAssumption DEF R!ConfigAssumption, P!ConfigAssumption, R!Cards, P!Cards, P!Lossy
<1>2. tpc = "idle"
  BY <1>0, <1>1, P!TaskOff DEF FlagsInv, MsgTimingOut
<1>3. MsgTypes'
  BY <1>0, <1>1, P!TaskTypesStep DEF FlagsInv, MsgTypes
<1>4. CASE P!Quiet
  <2>1. P!Quiet' /\ UNCHANGED <<status, P!softc, armed, P!tmoVars>>
    BY <1>0, <1>1, <1>4, P!QuietStep
  <2>2. UNCHANGED <<status, req, curcmd, cmd_done, dto_rcvd, req_pending, expect_data, armed, tpc>>
    BY <2>1 DEF P!softc, P!tmoVars
  <2>3. Placed' /\ Before' /\ Counting' /\ Issued' /\ Refused' /\ AtRest' /\ CountWired' /\ P!EnvInv'
    BY <1>0, <1>1, <2>1, <2>2 DEF FlagsInv, Placed, Before, Counting, Issued, Refused, AtRest,
       CountWired, NeedCount, P!Clean, P!CountAnswer, P!EnvInv
  <2>4. OnTheWire' /\ MsgTimingOut'
    <3>1. ASSUME NEW t \in Thread, Wired(t) PROVE ~P!Active(t)
      BY <1>4, <3>1, Config DEF Wired, P!Answer, P!Finishing, P!Quiet, P!Active
    <3>2. QED
      BY <1>0, <1>1, <1>2, <2>1, <2>2, <3>1 DEF FlagsInv, OnTheWire, MsgTimingOut, P!Clean
  <2>5. QED
    BY <1>3, <2>3, <2>4 DEF FlagsInv
<1>5. ASSUME NEW t \in Thread, rpc[t] = "poll" PROVE FlagsInv'
  <2>1. \A s \in Thread : s # t => rpc[s] = "none"
    BY <1>5, OnlyOne
  <2>2. req = NoThread /\ ~P!Lossy /\ P!CountAnswer
    BY <1>5 DEF FlagsInv, Counting, P!Clean, P!EnvInv
  <2>3. P!CountAnswer' /\ UNCHANGED <<status, req, curcmd, armed, tpc>>
    BY <1>0, <1>1, <2>2, P!PollStep DEF P!tmoVars
  <2>4. QED
    BY <1>0, <1>1, <1>2, <1>3, <1>5, <2>1, <2>3 DEF FlagsInv, Placed, Before, Preparing, Counting,
       Issued, OnTheWire, Refused, AtRest, MsgTimingOut, CountWired, NeedCount, P!Clean, P!EnvInv
<1>6. CASE ~P!Quiet /\ \A t \in Thread : rpc[t] # "poll"
  <2>1. PICK t \in Thread : rpc[t] \in {"arm", "armed", "wait"} /\ P!Active(t) /\ Wired(t)
    BY <1>2, <1>6 DEF FlagsInv, MsgTypes, Locked, Unlocked, Before, Preparing, Issued, Refused,
       AtRest, OnTheWire
  <2>2. \A s \in Thread : s # t => rpc[s] = "none"
    BY <2>1, OnlyOne
  <2>3. /\ expect_data' = expect_data /\ tpc' = "idle"
        /\ \A s \in Thread \ {t} : status'[s] = status[s]
        /\ \/ P!Ended(t)' /\ armed' = armed
           \/ /\ P!Active(t)' /\ P!Answer(t)' /\ P!Finishing(t)'
              /\ ipc' # "done" => armed' = armed /\ ipc # "done"
    BY <1>0, <1>1, <1>2, <2>1, P!AnswerStep DEF FlagsInv, MsgTypes, Wired, P!tmoVars
  <2>4. Placed' /\ P!EnvInv'
    BY <1>0, <1>1, <2>1, <2>3 DEF FlagsInv, Placed, P!EnvInv, P!Active, P!Ended
  <2>5. Before' /\ Counting' /\ Issued' /\ Refused' /\ AtRest' /\ MsgTimingOut' /\ CountWired'
    BY <1>0, <2>1, <2>2, <2>3 DEF Before, Preparing, Counting, Issued, Refused, AtRest,
       MsgTimingOut, CountWired
  <2>6. OnTheWire'
    <3>1. CASE P!Ended(t)'
      BY <1>0, <2>1, <2>2, <2>3, <3>1 DEF OnTheWire, P!Ended, P!Clean
    <3>2. CASE ~P!Ended(t)'
      <4>1. P!Active(t)' /\ P!Answer(t)' /\ P!Finishing(t)' /\ (ipc' # "done" => armed' = armed /\ ipc # "done")
        BY <2>3, <3>2
      <4>2. Wired(t)'
        BY <1>0, <1>2, <2>1, <2>3, <4>1 DEF Wired
      <4>3. QED
        BY <1>0, <2>2, <4>1, <4>2 DEF OnTheWire
    <3>3. QED
      BY <3>1, <3>2
  <2>7. QED
    BY <1>3, <2>4, <2>5, <2>6 DEF FlagsInv
<1>7. QED
  BY <1>4, <1>5, <1>6

-----------------------------------------------------------------------------
(* phytium_sdif_v2_timeout.                                                *)
LEMMA TimeoutKeeps ==
    ASSUME IInv, FlagsInv, MsgTasks, MsgTimeout PROVE FlagsInv'
<1>0. UNCHANGED <<rpc, kind, pc, auto_stop, card>> /\ (P!Lossy' <=> P!Lossy)
  BY DEF MsgTasks, hostVars, reqVars, envVars, P!Lossy
<1>c. P!ConfigAssumption
  BY MsgAssumption DEF R!ConfigAssumption, P!ConfigAssumption, R!Cards, P!Cards
<1> USE <1>0, Config DEF R!softc, R!isrVars, R!hwVars
<1>1. CASE R!Timeout
  <2>1. /\ owner = NoThread /\ tpc = "idle" /\ armed # NoThread /\ P!Elapsed(armed)
        /\ armed' = NoThread /\ tpc' = IF curcmd THEN "req" ELSE "idle"
        /\ UNCHANGED <<status, req, curcmd, cmd_done, dto_rcvd, req_pending, expect_data,
                       ipc, ibits, ireq, treq, hw, hwleft, irq, wired>>
    BY <1>1 DEF MsgTimeout, R!Timeout, R!Unlocked, R!Elapsed, P!Elapsed
  <2>2. ipc = "idle" /\ irq = {}
    BY <2>1 DEF FlagsInv, P!EnvInv, P!Elapsed
  <2>3. \A t \in Thread : rpc[t] \notin Locked
    BY <2>1 DEF IInv, LockedAtTest, FlagsInv, Placed
  <2>4. ASSUME NEW t \in Thread, rpc[t] = "wait", P!Active(t)
        PROVE  /\ Wired(t) /\ curcmd /\ req = t /\ status[t] = "sent" /\ P!Lossy
               /\ ibits = {} /\ hwleft = {}
    <3>1. Wired(t)
      BY <2>1, <2>4 DEF FlagsInv, OnTheWire, P!Active
    <3>2. armed = t
      BY <2>1, <2>2, <2>4, <3>1 DEF Wired
    <3>3. QED
      BY <1>c, <2>1, <2>4, <3>1, <3>2, P!TimeoutWaits DEF FlagsInv, Wired
  <2>5. MsgTimingOut'
    <3>1. CASE ~curcmd
      BY <2>1, <3>1 DEF MsgTimingOut
    <3>2. CASE curcmd
      <4>1. PICK t \in Thread : rpc[t] # "none"
        BY <2>1, <3>2 DEF FlagsInv, AtRest, P!Clean
      <4>2. CASE rpc[t] = "wait"
        <5>1. P!Active(t)
          BY <2>1, <3>2, <4>2 DEF FlagsInv, OnTheWire, P!Clean
        <5>2. QED
          BY <2>1, <2>2, <2>4, <3>2, <4>2, <5>1 DEF MsgTimingOut
      <4>3. CASE rpc[t] = "refused"
        BY <2>1, <2>2, <3>2, <4>3 DEF FlagsInv, Refused, MsgTimingOut, P!Quiet
      <4>4. rpc[t] \in {"wait", "refused"}
        BY <2>1, <2>3, <3>2, <4>1 DEF FlagsInv, MsgTypes, Unlocked, Before, Preparing, P!Clean
      <4>5. QED
        BY <4>2, <4>3, <4>4
    <3>3. QED
      BY <3>1, <3>2
  <2>6. OnTheWire'
    <3>1. ASSUME NEW t \in Thread, Wired(t), curcmd PROVE Wired(t)'
      BY <2>1, <3>1 DEF Wired, P!Answer, P!Finishing, P!Expected, P!Handled
    <3>2. QED
      BY <2>1, <2>3, <2>4, <3>1 DEF FlagsInv, OnTheWire, P!Active, P!Quiet, P!Clean, Locked
  <2>7. QED
    BY <2>1, <2>5, <2>6 DEF FlagsInv, MsgTypes, P!TaskTypes, P!EnvInv, Placed, Before, Counting,
       Issued, Refused, AtRest, CountWired, NeedCount, P!Quiet, P!Clean, P!CountAnswer
<1>2. CASE R!TimeoutReq
  <2>1. /\ tpc = "req" /\ treq' = req /\ tpc' = IF req = NoThread THEN "panic" ELSE "restart"
        /\ UNCHANGED <<status, req, curcmd, cmd_done, dto_rcvd, req_pending, expect_data,
                       armed, ipc, ibits, ireq, hw, hwleft, irq, wired>>
    BY <1>2 DEF MsgTimeout, R!TimeoutReq
  <2>2. MsgTimingOut'
    BY <2>1 DEF FlagsInv, MsgTimingOut
  <2>3. OnTheWire'
    BY <2>1 DEF FlagsInv, OnTheWire, Wired, P!Active, P!Answer, P!Finishing, P!Expected, P!Handled,
       P!Quiet, P!Clean
  <2>4. QED
    BY <2>1, <2>2, <2>3 DEF FlagsInv, MsgTypes, P!TaskTypes, P!EnvInv, Placed, Before, Counting,
       Issued, Refused, AtRest, CountWired, NeedCount, P!Quiet, P!Clean, P!CountAnswer
<1>3. CASE R!TimeoutRestart
  <2>1. /\ tpc = "restart" /\ tpc' = "done" /\ hw' = NoThread /\ hwleft' = {} /\ irq' = {}
        /\ UNCHANGED <<status, req, curcmd, cmd_done, dto_rcvd, req_pending, expect_data,
                       armed, ipc, ibits, ireq, treq>>
    BY <1>3 DEF MsgTimeout, R!TimeoutRestart
  <2>2. req \in Thread /\ rpc[req] \in {"wait", "refused"} /\ status[req] = "sent" /\ MsgTimingOut'
    BY <2>1 DEF FlagsInv, MsgTimingOut
  <2>3. \A s \in Thread : s # req => rpc[s] = "none"
    BY <2>2, OnlyOne
  <2>4. P!Quiet'
    BY <2>1 DEF FlagsInv, MsgTimingOut, P!Quiet
  <2>5. QED
    BY <2>1, <2>2, <2>3, <2>4 DEF FlagsInv, MsgTypes, P!TaskTypes, P!EnvInv, Placed, Before,
       Preparing, Counting, Issued, OnTheWire, Refused, AtRest, CountWired
<1>4. CASE R!TimeoutDone
  <2>1. /\ tpc = "done" /\ tpc' = "idle" /\ status' = [status EXCEPT ![treq] = "done"]
        /\ UNCHANGED <<req, curcmd, cmd_done, dto_rcvd, req_pending, expect_data,
                       armed, ipc, ibits, ireq, hw, hwleft, irq, wired>>
    BY <1>4 DEF MsgTimeout, R!TimeoutDone
  <2>2. /\ req \in Thread /\ treq = req /\ armed = NoThread /\ status[req] = "sent"
        /\ rpc[req] = "refused" \/ (rpc[req] = "wait" /\ P!Lossy)
    BY <2>1 DEF FlagsInv, MsgTimingOut
  <2>3. \A s \in Thread : s # req => rpc[s] = "none"
    BY <2>2, OnlyOne
  <2>4. P!Quiet'
    BY <2>1 DEF FlagsInv, MsgTimingOut, P!Quiet
  <2>5. \A s \in Thread : status'[s] = IF s = req THEN "done" ELSE status[s]
    BY <2>1, <2>2 DEF FlagsInv, MsgTypes, P!TaskTypes
  <2>6. MsgTypes'
    BY <2>1, <2>2 DEF FlagsInv, MsgTypes, P!TaskTypes
  <2>7. QED
    BY <2>1, <2>2, <2>3, <2>4, <2>5, <2>6 DEF FlagsInv, P!EnvInv, Placed, Before, Preparing,
       Counting, Issued, OnTheWire, Refused, AtRest, MsgTimingOut, CountWired, P!Clean
<1>5. QED
  BY <1>1, <1>2, <1>3, <1>4 DEF MsgTimeout

-----------------------------------------------------------------------------
LEMMA FlagsInit == ASSUME P!Copes PROVE MsgInit => FlagsInv
<1> SUFFICES ASSUME MsgInit PROVE FlagsInv
  OBVIOUS
<1>1. P!EnvInv
  BY DEF MsgInit, R!Init, P!EnvInv, P!Lossy, P!Copes
<1>2. P!Quiet /\ P!Clean
  BY DEF MsgInit, R!Init, P!Quiet, P!Clean
<1>3. MsgTypes
  BY DEF MsgInit, R!Init, MsgTypes, P!TaskTypes
<1>4. Placed
  BY DEF MsgInit, Init, R!Init, Placed, Locked
<1>5. QED
  BY <1>1, <1>2, <1>3, <1>4 DEF MsgInit, R!Init, FlagsInv, Before, Preparing, Counting, Issued,
     OnTheWire, Refused, AtRest, MsgTimingOut, CountWired

LEMMA FlagsStep == IInv /\ FlagsInv /\ [MsgNext]_msgVars => FlagsInv'
<1> SUFFICES ASSUME IInv, FlagsInv, [MsgNext]_msgVars PROVE FlagsInv'
  OBVIOUS
<1>1. CASE UNCHANGED msgVars
  <2>1. UNCHANGED <<rpc, kind, wired, pc, ipc, ibits, ireq, tpc, treq, auto_stop, card, status, req,
                    curcmd, cmd_done, dto_rcvd, req_pending, expect_data, armed, hw, hwleft, irq>>
    BY <1>1 DEF msgVars, hostVars, reqVars, taskVars, softc, hwVars, envVars
  <2>2. /\ MsgTypes' /\ P!EnvInv' /\ Placed' /\ Before' /\ Counting' /\ Issued' /\ Refused' /\ AtRest'
    BY <2>1 DEF FlagsInv, MsgTypes, P!TaskTypes, P!EnvInv, P!Lossy, Placed, Before, Counting, Issued,
       Refused, AtRest, P!Quiet, P!Clean, P!CountAnswer
  <2>3. OnTheWire' /\ MsgTimingOut' /\ CountWired'
    BY <2>1 DEF FlagsInv, OnTheWire, Wired, P!Active, P!Answer, P!Finishing, P!Expected, P!Handled,
       P!Quiet, P!Clean, P!Lossy, MsgTimingOut, CountWired, NeedCount
  <2>4. QED
    BY <2>2, <2>3 DEF FlagsInv
<1>2. ASSUME NEW t \in Thread, HostAcquire(t) \/ HostLock(t) \/ HostStep(t) PROVE FlagsInv'
  BY <1>2, HostKeeps
<1>3. ASSUME NEW t \in Thread, MsgRequest(t) \/ MsgLock(t) \/ MsgStep(t) \/ MsgFault(t)
      PROVE  FlagsInv'
  BY <1>3, MsgRequestKeeps, MsgBusyKeeps, MsgPreRequestKeeps, MsgLockKeeps, MsgUnlockKeeps, MsgCountFlagsKeeps, MsgCountTransferKeeps, MsgCountPolledKeeps, MsgCountFailedKeeps, MsgSkipKeeps, MsgSetKeeps, MsgFlagsKeeps, MsgTransferKeeps, MsgFailedKeeps, MsgArmKeeps, MsgEndKeeps
     DEF MsgStep, MsgFault
<1>4. CASE MsgTasks
  BY <1>4, TasksKeep, TimeoutKeeps DEF MsgTasks, Tasks
<1>5. QED
  BY <1>1, <1>2, <1>3, <1>4 DEF MsgNext

LEMMA FlagsInvariant == ASSUME P!Copes PROVE MsgSpec => [](IInv /\ FlagsInv)
<1>1. MsgSpec => []IInv
  BY MsgImplementsHost, InitInvariant, StepInvariant, PTL DEF Spec
<1>2. QED
  BY <1>1, FlagsInit, FlagsStep, PTL DEF MsgSpec

(* The command on the wire before a transfer is its own block count, for   *)
(* every set of threads that compete for the host (set_block_count).       *)
THEOREM CountPrecedes == ASSUME P!Copes PROVE MsgSpec => []CountThenTransfer
<1>1. FlagsInv => CountThenTransfer
  BY DEF FlagsInv, CountWired, CountThenTransfer
<1>2. QED
  BY <1>1, FlagsInvariant, PTL

(* An interrupt finishes a request once, with its whole answer, and never  *)
(* without one (sdif_v2_finish_command).                                   *)
THEOREM MsgFinishedOnce == ASSUME P!Copes PROVE MsgSpec => []MsgAnsweredOnce
<1>1. ASSUME FlagsInv, ipc \in {"done", "panic"} PROVE ipc = "done" /\ status[ireq] = "answered"
  <2>1. tpc = "idle"
    BY <1>1 DEF FlagsInv, MsgTimingOut
  <2>2. PICK t \in Thread : P!Active(t) /\ Wired(t)
    BY <1>1, <2>1 DEF FlagsInv, MsgTypes, Locked, Unlocked, Before, Preparing, Counting,
       P!CountAnswer, Issued, Refused, AtRest, OnTheWire, P!Quiet
  <2>3. ipc = "done" /\ ireq = t /\ P!Expected \subseteq P!Handled
    BY <1>1, <2>2 DEF Wired, P!Finishing, P!Answer
  <2>4. QED
    BY <2>2, <2>3 DEF Wired, P!Answer, P!Active
<1>2. FlagsInv => MsgAnsweredOnce
  BY <1>1 DEF MsgAnsweredOnce, R!AnsweredOnce, R!PendingWhenDone
<1>3. QED
  BY <1>2, FlagsInvariant, PTL
=============================================================================
