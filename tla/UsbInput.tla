------------------------------ MODULE UsbInput ------------------------------
(***************************************************************************)
(* The USB mouse and keyboard tasks of the libbsd example                  *)
(* (examples/rtems-libbsd/src/rtems_usb_mouse.c and rtems_usb_keyboard.c,  *)
(* the same program for two devices): a task that opens and closes the     *)
(* device, a task that reads it, the two message queues by which they pass *)
(* the descriptor back and forth, and the exit handler.                    *)
(***************************************************************************)
EXTENDS Integers, Sequences

CONSTANT
    Fd           \* descriptors that open() may return

ASSUME FdAssumption == Fd \subseteq Nat \ {0} /\ Fd # {}     \* 0 is the console

Unset == -2
NoFd == -1
Capacity == 16                  \* messages of a queue

VARIABLES
    plugged,                  \* the device is there
    open,                     \* open descriptors
    live,                     \* those whose device has not gone since
    omid, rmid,               \* the queues to the open and the read task
    kill_otask, kill_rtask, otask_active, rtask_active,
    opc, ofd, omsg,           \* the open task: pc, fd, msg.fd
    rpc, rfd,                 \* the read task: pc, msg.fd
    mpc,                      \* the main task
    early                     \* history: exit came before both tasks had run

queueVars == <<omid, rmid>>
killVars  == <<kill_otask, kill_rtask>>
openVars  == <<opc, ofd, omsg, otask_active>>
readVars  == <<rpc, rfd, rtask_active>>
fdVars == <<open, live>>
mainVars == <<mpc, early>>
vars == <<plugged, fdVars, queueVars, killVars, openVars, readVars, mainVars>>

(* usb_mouse_initialization has created the queues and started the tasks.  *)
Init ==
    /\ plugged \in BOOLEAN /\ open = {} /\ live = {}
    /\ omid = <<>> /\ rmid = <<>>
    /\ kill_otask = FALSE /\ kill_rtask = FALSE
    /\ otask_active = FALSE /\ rtask_active = FALSE
    /\ opc = "new" /\ ofd = Unset /\ omsg = NoFd
    /\ rpc = "new" /\ rfd = NoFd
    /\ mpc = "configure" /\ early = FALSE

(* rtems_message_queue_send, its status unread: a full queue, or one that   *)
(* the exit handler has deleted, loses the message.                        *)
Put(q, fd) ==
    IF Len(q) < Capacity /\ mpc # "deleted" THEN Append(q, fd) ELSE q

-----------------------------------------------------------------------------
(* usb_keyboard_read_task.                                                 *)

ReadStart ==
    /\ rpc = "new"
    /\ rtask_active' = TRUE /\ kill_rtask' = FALSE
    /\ rpc' = "outer"
    /\ UNCHANGED <<plugged, fdVars, queueVars, kill_otask, openVars, rfd, mainVars>>

ReadOuter ==
    /\ rpc = "outer"
    /\ IF kill_rtask THEN rpc' = "done" /\ rtask_active' = FALSE
                     ELSE rpc' = "recv" /\ UNCHANGED rtask_active
    /\ UNCHANGED <<plugged, fdVars, queueVars, killVars, openVars, rfd, mainVars>>

(* Wait for a descriptor; an invalid one is dropped.                       *)
ReadReceive ==
    /\ rpc = "recv" /\ rmid # <<>>
    /\ rmid' = Tail(rmid)
    /\ rfd' = Head(rmid)
    /\ rpc' = IF rfd' > 0 THEN "read" ELSE "recv"
    /\ UNCHANGED <<plugged, fdVars, omid, killVars, openVars, rtask_active, mainVars>>

ReadKilled_Never == FALSE /\ UNCHANGED vars                       \* mutant

(* The one second timeout of the receive, with the kill flag set.          *)
ReadKilled ==
    /\ rpc = "recv" /\ kill_rtask
    /\ rpc' = "read"
    /\ UNCHANGED <<plugged, fdVars, queueVars, killVars, openVars, rfd, rtask_active, mainVars>>

ReadFails_Silent ==                                               \* mutant
    /\ rpc = "read"
    /\ kill_rtask \/ rfd \notin live
    /\ rpc' = "outer" /\ rfd' = NoFd
    /\ UNCHANGED <<plugged, fdVars, queueVars, killVars, openVars, rtask_active, mainVars>>

(* read() fails for good when the device is gone.  (Data, end of file,     *)
(* EINTR and EAGAIN leave the task in its loop.)                           *)
ReadFails ==
    /\ rpc = "read"
    /\ kill_rtask \/ rfd \notin live
    /\ rpc' = "send" /\ rfd' = NoFd
    /\ UNCHANGED <<plugged, fdVars, queueVars, killVars, openVars, rtask_active, mainVars>>

(* Hand the descriptor back: the open task shall close it.                 *)
ReadSend ==
    /\ rpc = "send"
    /\ omid' = Put(omid, rfd)
    /\ rpc' = "outer"
    /\ UNCHANGED <<plugged, fdVars, rmid, killVars, openVars, rfd, rtask_active, mainVars>>

-----------------------------------------------------------------------------
(* usb_mouse_open_task.                                                    *)

OpenStart ==
    /\ opc = "new"
    /\ otask_active' = TRUE /\ kill_otask' = FALSE
    /\ opc' = "outer"
    /\ UNCHANGED <<plugged, fdVars, queueVars, kill_rtask, ofd, omsg, readVars, mainVars>>

OpenOuter ==
    /\ opc = "outer"
    /\ opc' = IF kill_otask THEN "exit" ELSE "recv"
    /\ UNCHANGED <<plugged, fdVars, queueVars, killVars, ofd, omsg, otask_active,
                   readVars, mainVars>>

OpenReceive ==
    /\ opc = "recv" /\ omid # <<>>
    /\ omid' = Tail(omid) /\ omsg' = Head(omid)
    /\ opc' = "close"
    /\ UNCHANGED <<plugged, fdVars, rmid, killVars, ofd, otask_active, readVars, mainVars>>

(* The receive times out after a second.                                   *)
OpenTimeout ==
    /\ opc = "recv" /\ omid = <<>>
    /\ opc' = "open"
    /\ UNCHANGED <<plugged, fdVars, queueVars, killVars, ofd, omsg, otask_active,
                   readVars, mainVars>>

OpenClose_Leak ==                                                 \* mutant
    /\ opc = "close"
    /\ ofd' = omsg
    /\ opc' = "open"
    /\ UNCHANGED <<plugged, fdVars, queueVars, killVars, omsg, otask_active, readVars, mainVars>>

OpenClose ==
    /\ opc = "close"
    /\ open' = open \ {ofd} /\ live' = live \ {ofd}
    /\ ofd' = omsg
    /\ opc' = "open"
    /\ UNCHANGED <<plugged, queueVars, killVars, omsg, otask_active, readVars, mainVars>>

(* Without a descriptor, try to open the device, once per turn.            *)
OpenTry ==
    /\ opc = "open"
    /\ \/ /\ ofd = NoFd /\ plugged
          /\ \E f \in Fd \ open :
                ofd' = f /\ open' = open \cup {f} /\ live' = live \cup {f}
          /\ opc' = "send"
       \/ /\ ofd # NoFd \/ ~plugged \/ Fd \subseteq open
          /\ opc' = "outer" /\ UNCHANGED <<ofd, fdVars>>
    /\ UNCHANGED <<plugged, queueVars, killVars, omsg, otask_active, readVars, mainVars>>

OpenSend ==
    /\ opc = "send"
    /\ rmid' = Put(rmid, ofd)
    /\ opc' = "outer"
    /\ UNCHANGED <<plugged, fdVars, omid, killVars, ofd, omsg, otask_active, readVars, mainVars>>

OpenExit ==
    /\ opc = "exit"
    /\ open' = open \ {ofd} /\ live' = live \ {ofd}
    /\ otask_active' = FALSE
    /\ opc' = "done"
    /\ UNCHANGED <<plugged, queueVars, killVars, ofd, omsg, readVars, mainVars>>

-----------------------------------------------------------------------------
(* The main task: usb_mouse_configuration, and default_usb_mouse_on_exit.  *)

Configure ==
    /\ mpc = "configure"
    /\ omid' = Put(omid, NoFd)
    /\ mpc' = "run"
    /\ UNCHANGED <<plugged, fdVars, rmid, killVars, openVars, readVars, early>>

Exit ==
    /\ mpc = "run"
    /\ kill_otask' = TRUE
    /\ mpc' = "kill"
    /\ early' = ~(otask_active /\ rtask_active)
    /\ UNCHANGED <<plugged, fdVars, queueVars, kill_rtask, openVars, readVars>>

ExitKill ==
    /\ mpc = "kill"
    /\ kill_rtask' = TRUE
    /\ mpc' = "wait"
    /\ UNCHANGED <<plugged, fdVars, queueVars, kill_otask, openVars, readVars, early>>

ExitReady_AnyInactive == ~otask_active \/ ~rtask_active           \* mutant
ExitReady == ~otask_active /\ ~rtask_active

(* Both tasks are gone: the queues are deleted.                            *)
ExitDelete ==
    /\ mpc = "wait" /\ ExitReady
    /\ omid' = <<>> /\ rmid' = <<>>
    /\ mpc' = "deleted"
    /\ UNCHANGED <<plugged, fdVars, killVars, openVars, readVars, early>>

(* The user (external).  A descriptor does not survive its device.         *)
Plug ==
    /\ plugged' = ~plugged
    /\ live' = {}
    /\ UNCHANGED <<open, queueVars, killVars, openVars, readVars, mainVars>>

-----------------------------------------------------------------------------
ReadTask == ReadStart \/ ReadOuter \/ ReadReceive \/ ReadKilled \/ ReadFails \/ ReadSend
OpenTask == OpenStart \/ OpenOuter \/ OpenReceive \/ OpenTimeout \/ OpenClose
              \/ OpenTry \/ OpenSend \/ OpenExit
MainTask == Configure \/ ExitKill \/ ExitDelete

Next == ReadTask \/ OpenTask \/ MainTask \/ Exit \/ Plug

(* The scheduler runs every task.                                          *)
Fairness == WF_vars(ReadTask) /\ WF_vars(OpenTask) /\ WF_vars(MainTask)

Spec == Init /\ [][Next]_vars
FairSpec == Spec /\ Fairness

-----------------------------------------------------------------------------
(* Properties.                                                             *)

DeviceTypeOK == plugged \in BOOLEAN /\ open \subseteq Fd /\ live \subseteq open
QueueTypeOK ==
    /\ omid \in Seq({NoFd}) /\ rmid \in Seq(Fd)
    /\ Len(omid) <= Capacity /\ Len(rmid) <= Capacity
OpenTypeOK ==
    /\ opc \in {"new", "outer", "recv", "close", "open", "send", "exit", "done"}
    /\ ofd \in Fd \cup {Unset, NoFd} /\ omsg \in Fd \cup {NoFd}
    /\ otask_active \in BOOLEAN /\ kill_otask \in BOOLEAN
ReadTypeOK ==
    /\ rpc \in {"new", "outer", "recv", "read", "send", "done"}
    /\ rfd \in Fd \cup {NoFd}
    /\ rtask_active \in BOOLEAN /\ kill_rtask \in BOOLEAN
MainTypeOK ==
    mpc \in {"configure", "run", "kill", "wait", "deleted"} /\ early \in BOOLEAN

(* Every variable has its type; the queues hold what the two tasks expect. *)
TypeOK == DeviceTypeOK /\ QueueTypeOK /\ OpenTypeOK /\ ReadTypeOK /\ MainTypeOK

(* No descriptor leaks: the only open one is the open task's, however the  *)
(* device comes and goes.  And until the tasks are told to end, it is the  *)
(* one that the read task reads: the open task neither closes it nor opens *)
(* another, the messages alone decide whose turn it is.                    *)
ReadsOpenDescriptor ==
    /\ open \subseteq {ofd}
    /\ rpc = "read" /\ mpc \in {"configure", "run"}
         => open = {rfd} /\ opc # "send"

(* The right to open the device is in one place and is never lost: a       *)
(* message in either queue, the read task, or the open task that tries.    *)
OpenTurn == IF opc \in {"close", "send"} \/ ofd = NoFd THEN 1 ELSE 0
ReadTurn == IF rpc \in {"read", "send"} THEN 1 ELSE 0
OneToken == mpc = "run" => Len(omid) + Len(rmid) + OpenTurn + ReadTurn = 1

(* The queues outlive the tasks: none is in its loop when they are deleted,*)
(* if both had begun when exit was called.                                 *)
QueuesOutliveTasks ==
    mpc = "deleted" /\ ~early => opc \in {"new", "done"} /\ rpc \in {"new", "done"}

(* A device that stays plugged in is opened and read, however often it was *)
(* unplugged before and whichever task noticed first.                      *)
Reopens ==
    <>[](plugged /\ mpc = "run") => []<>(rpc = "read" /\ rfd \in live)

(* Exit ends: both tasks notice the kill flags, if both had begun (a task  *)
(* that begins clears its own).                                            *)
ExitEnds == mpc = "kill" /\ ~early ~> mpc = "deleted"
=============================================================================
