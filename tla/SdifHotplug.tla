---------------------------- MODULE SdifHotplug ----------------------------
(***************************************************************************)
(* Card detection of the SDIF driver (fsdif/phytium_sdif.c; the same code  *)
(* stands in fsdif_v2_0/phytium_sdif_v2.c): the card detect interrupt,     *)
(* which looks at sc->child without the lock, the task that attaches and   *)
(* deletes the child, and the delayed task that debounces an insertion.    *)
(* Both tasks run sdif_card_task on one queue; attach calls it first.  The *)
(* driver lock is not modelled: the queue's thread alone takes it.         *)
(***************************************************************************)
EXTENDS Integers

CONSTANT
    Hasty        \* the card may change while handler or task is at work

ASSUME ConfigAssumption == Hasty \in BOOLEAN

VARIABLES
    card,        \* FSdifCheckCardExists
    detect,      \* the card detect interrupt is pending
    hpc, is_present,                  \* the interrupt: pc, its argument
    card_task, card_delayed_task,     \* queued
    tpc, exists,                      \* the task: pc, what line 219 read
    child                             \* sc->child is set

handler == <<hpc, is_present>>
queue   == <<card_task, card_delayed_task>>
task    == <<tpc, exists>>
vars == <<card, detect, handler, queue, task, child>>

(* phytium_sdif_attach has enabled the interrupt, created the tasks and    *)
(* now calls sdif_card_task itself.                                        *)
Init ==
    /\ card \in BOOLEAN /\ detect = FALSE
    /\ hpc = "idle" /\ is_present = FALSE
    /\ card_task = FALSE /\ card_delayed_task = FALSE
    /\ tpc = "check" /\ exists = FALSE
    /\ child = FALSE

-----------------------------------------------------------------------------
(* sdif_card_detected, and sdif_handle_card_present.                       *)

CardDetected ==
    /\ detect /\ hpc = "idle"
    /\ detect' = FALSE
    /\ is_present' = card
    /\ hpc' = "present"
    /\ UNCHANGED <<card, queue, task, child>>

(* An insertion waits for half a second, a removal does not.               *)
HandleCardPresent_Once ==                                         \* mutant
    /\ hpc = "present"
    /\ card_delayed_task' = (card_delayed_task \/ (~child /\ is_present))
    /\ UNCHANGED card_task
    /\ hpc' = "idle"
    /\ UNCHANGED <<card, detect, is_present, task, child>>

HandleCardPresent_Removal ==                                      \* mutant
    /\ hpc = "present"
    /\ card_task' = (card_task \/ (child /\ ~is_present))
    /\ UNCHANGED card_delayed_task
    /\ hpc' = "idle"
    /\ UNCHANGED <<card, detect, is_present, task, child>>

HandleCardPresent ==
    /\ hpc = "present"
    /\ card_delayed_task' = (card_delayed_task \/ (~child /\ is_present))
    /\ card_task' = (card_task \/ (child /\ ~is_present))
    /\ hpc' = "idle"
    /\ UNCHANGED <<card, detect, is_present, task, child>>

-----------------------------------------------------------------------------
(* sdif_card_task.                                                         *)

TaskRun ==
    /\ tpc = "idle"
    /\ \/ card_task /\ card_task' = FALSE /\ UNCHANGED card_delayed_task
       \/ card_delayed_task /\ card_delayed_task' = FALSE /\ UNCHANGED card_task
    /\ tpc' = "check"
    /\ UNCHANGED <<card, detect, handler, exists, child>>

TaskCheck ==
    /\ tpc = "check"
    /\ exists' = card
    /\ tpc' = IF exists' = child THEN "idle"
              ELSE IF exists' THEN "add" ELSE "delete"
    /\ UNCHANGED <<card, detect, handler, queue, child>>

TaskAdd ==
    /\ tpc = "add"
    /\ child' = TRUE
    /\ tpc' = "probe"
    /\ UNCHANGED <<card, detect, handler, queue, exists>>

(* device_probe_and_attach.                                                *)
TaskProbe ==
    /\ tpc = "probe"
    /\ tpc' = "idle"
    /\ UNCHANGED <<card, detect, handler, queue, exists, child>>

(* device_delete_child returns, and sc->child is cleared.                  *)
TaskDelete ==
    /\ tpc = "delete"
    /\ child' = FALSE
    /\ tpc' = "idle"
    /\ UNCHANGED <<card, detect, handler, queue, exists>>

-----------------------------------------------------------------------------
(* The user (external).                                                    *)
CardChanges ==
    /\ Hasty \/ (hpc = "idle" /\ tpc = "idle")
    /\ card' = ~card
    /\ detect' = TRUE
    /\ UNCHANGED <<handler, queue, task, child>>

Interrupt == CardDetected \/ HandleCardPresent
Task == TaskRun \/ TaskCheck \/ TaskAdd \/ TaskProbe \/ TaskDelete
Next == Interrupt \/ Task \/ CardChanges

(* A pending interrupt is served, and the queue's thread runs.             *)
Fairness == WF_vars(Interrupt) /\ WF_vars(Task)

Spec == Init /\ [][Next]_vars
FairSpec == Spec /\ Fairness

-----------------------------------------------------------------------------
(* Properties.                                                             *)

(* Every variable has its type, and the task adds only a child that is     *)
(* missing and deletes only one that is there.                             *)
TypeOK ==
    /\ card \in BOOLEAN /\ detect \in BOOLEAN /\ is_present \in BOOLEAN
    /\ card_task \in BOOLEAN /\ card_delayed_task \in BOOLEAN
    /\ exists \in BOOLEAN /\ child \in BOOLEAN
    /\ hpc \in {"idle", "present"}
    /\ tpc \in {"idle", "check", "add", "probe", "delete"}
    /\ (tpc = "add" => ~child) /\ (tpc \in {"probe", "delete"} => child)

(* A card that stays in its slot is attached in the end, and stays so,     *)
(* however often it was pulled before.                                     *)
InsertedIsAttached == <>[]card => <>[]child

(* The child of a card that is gone for good is deleted.                   *)
RemovedIsDetached == <>[]~card => <>[]~child

(* When nothing is queued or at work, child and slot agree: no detection   *)
(* is forgotten.                                                           *)
SettledAgrees ==
    ~detect /\ hpc = "idle" /\ tpc = "idle" /\ ~card_task /\ ~card_delayed_task
        => child = card
=============================================================================
