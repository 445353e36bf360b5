------------------------------ MODULE SdifHost ------------------------------
(***************************************************************************)
(* Ownership of an SDIF host (phytium_sdif_acquire_host and                *)
(* phytium_sdif_release_host of fsdif/phytium_sdif.c, the same code in     *)
(* fsdif_v2_0/phytium_sdif_v2.c): the MMC layer claims the host around     *)
(* every sequence of requests, SET_BLOCK_COUNT and its transfer included.  *)
(* bus_busy is guarded by the driver lock, which msleep releases and which *)
(* a request takes for itself: once in the first driver, twice in the      *)
(* second (SdifMsgRequest).                                                *)
(***************************************************************************)
EXTENDS Integers

CONSTANTS
    Thread,       \* the threads that use the host
    NoThread

ASSUME ThreadAssumption == NoThread \notin Thread

VARIABLES
    bus_busy,
    owner,        \* of the driver lock, or NoThread
    pc

vars == <<bus_busy, owner, pc>>

Init ==
    /\ bus_busy = 0
    /\ owner = NoThread
    /\ pc = [t \in Thread |-> "out"]

Goto(t, place) == pc' = [pc EXCEPT ![t] = place]

-----------------------------------------------------------------------------
(* phytium_sdif_acquire_host.                                              *)

Acquire(t) == pc[t] = "out" /\ Goto(t, "lock") /\ UNCHANGED <<bus_busy, owner>>

(* SDIF_LOCK, on entry and when msleep returns.                            *)
Lock(t) ==
    /\ pc[t] = "lock" /\ owner = NoThread
    /\ owner' = t
    /\ Goto(t, "test")
    /\ UNCHANGED bus_busy

Sleep(t) ==
    /\ pc[t] = "test" /\ bus_busy # 0
    /\ owner' = NoThread
    /\ Goto(t, "asleep")
    /\ UNCHANGED bus_busy

(* The fifth of a second is over: test again.                              *)
WakeTimeout_NoTest(t) ==                                          \* mutant
    /\ pc[t] = "asleep" /\ owner = NoThread
    /\ Goto(t, "in")
    /\ bus_busy' = bus_busy + 1
    /\ UNCHANGED owner

WakeTimeout(t) ==
    /\ pc[t] = "asleep"
    /\ Goto(t, "lock")
    /\ UNCHANGED <<bus_busy, owner>>

Take(t) ==
    /\ pc[t] = "test" /\ bus_busy = 0
    /\ bus_busy' = bus_busy + 1
    /\ owner' = NoThread
    /\ Goto(t, "in")

-----------------------------------------------------------------------------
(* phytium_sdif_release_host.                                              *)

ReleaseLock(t) ==
    /\ pc[t] = "in" /\ owner = NoThread
    /\ owner' = t
    /\ Goto(t, "release")
    /\ UNCHANGED bus_busy

Release_Sticks(t) ==                                              \* mutant
    /\ pc[t] = "release"
    /\ owner' = NoThread
    /\ pc' = [s \in Thread |-> IF s = t THEN "out"
                               ELSE IF pc[s] = "asleep" THEN "lock" ELSE pc[s]]
    /\ UNCHANGED bus_busy

(* bus_busy--, and wakeup(sc) wakes all sleepers.                          *)
Release(t) ==
    /\ pc[t] = "release"
    /\ bus_busy' = bus_busy - 1
    /\ owner' = NoThread
    /\ pc' = [s \in Thread |-> IF s = t THEN "out"
                               ELSE IF pc[s] = "asleep" THEN "lock" ELSE pc[s]]

-----------------------------------------------------------------------------
(* phytium_sdif_request, by the thread that has claimed the host: it takes *)
(* the lock and releases it again.                                         *)
UseLock(t) ==
    /\ pc[t] = "in" /\ owner = NoThread
    /\ owner' = t
    /\ Goto(t, "use")
    /\ UNCHANGED bus_busy

UseUnlock(t) ==
    /\ pc[t] = "use"
    /\ owner' = NoThread
    /\ Goto(t, "in")
    /\ UNCHANGED bus_busy

-----------------------------------------------------------------------------
Next == \E t \in Thread :
            \/ Acquire(t) \/ Lock(t) \/ Sleep(t) \/ WakeTimeout(t) \/ Take(t)
            \/ UseLock(t) \/ UseUnlock(t)
            \/ ReleaseLock(t) \/ Release(t)

Spec == Init /\ [][Next]_vars

-----------------------------------------------------------------------------
(* Properties.                                                             *)

Place == {"out", "lock", "test", "asleep", "in", "use", "release"}

(* Every variable has its type.                                            *)
TypeOK ==
    /\ bus_busy \in {0, 1}
    /\ owner \in Thread \cup {NoThread}
    /\ pc \in [Thread -> Place]

(* One thread at a time has the host, though the lock is released between  *)
(* a waiter's two looks at bus_busy and waiters are woken all together.    *)
Inside(t) == pc[t] \in {"in", "use", "release"}
HostExclusive == \A s, t \in Thread : Inside(s) /\ Inside(t) => s = t

(* The host does not stay idle while a thread waits for it.                *)
Waiting == \E t \in Thread : pc[t] \in {"lock", "test", "asleep"}
HostIsTaken == Waiting ~> \E t \in Thread : pc[t] \in {"in", "use"}
=============================================================================
