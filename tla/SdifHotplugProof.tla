-------------------------- MODULE SdifHotplugProof --------------------------
(***************************************************************************)
(* Card detection forgets no card, for a card that moves only while        *)
(* neither the interrupt handler nor the card task is at work, however     *)
(* often it moves in between.  SettledAgrees alone is not inductive: the   *)
(* handler and the task act on a copy of the switch, which must still be   *)
(* what the switch says.                                                   *)
(***************************************************************************)
EXTENDS SdifHotplug, TLAPS

(* What the handler and the task have read is still so.                    *)
Current ==
    /\ hpc = "present" => is_present = card
    /\ tpc \in {"add", "probe"} => card
    /\ tpc = "delete" => ~card

IInv == TypeOK /\ Current /\ SettledAgrees

LEMMA InitInv == Init => IInv
BY DEF Init, IInv, TypeOK, Current, SettledAgrees

LEMMA HandlerKeeps ==
    ASSUME IInv, Interrupt
    PROVE  IInv'
<1>1. CASE CardDetected
  BY <1>1 DEF IInv, TypeOK, Current, SettledAgrees, CardDetected, queue, task
<1>2. CASE HandleCardPresent
  BY <1>2 DEF IInv, TypeOK, Current, SettledAgrees, HandleCardPresent, task
<1>. QED  BY <1>1, <1>2 DEF Interrupt

LEMMA TaskKeeps ==
    ASSUME IInv, Task
    PROVE  IInv'
<1>1. CASE TaskRun
  BY <1>1 DEF IInv, TypeOK, Current, SettledAgrees, TaskRun, handler
<1>2. CASE TaskCheck
  BY <1>2 DEF IInv, TypeOK, Current, SettledAgrees, TaskCheck, handler, queue
<1>3. CASE TaskAdd
  BY <1>3 DEF IInv, TypeOK, Current, SettledAgrees, TaskAdd, handler, queue
<1>4. CASE TaskProbe
  BY <1>4 DEF IInv, TypeOK, Current, SettledAgrees, TaskProbe, handler, queue
<1>5. CASE TaskDelete
  BY <1>5 DEF IInv, TypeOK, Current, SettledAgrees, TaskDelete, handler, queue
<1>. QED  BY <1>1, <1>2, <1>3, <1>4, <1>5 DEF Task

LEMMA CardKeeps ==
    ASSUME IInv, CardChanges, ~Hasty
    PROVE  IInv'
BY DEF IInv, TypeOK, Current, SettledAgrees, CardChanges, handler, queue, task

(* Types are kept whatever the card does, and the task never adds a second *)
(* child nor deletes one that is not there (sdif_card_task).               *)
THEOREM TypeCorrect == Spec => []TypeOK
<1>1. Init => TypeOK
  BY DEF Init, TypeOK
<1>2. ASSUME TypeOK, [Next]_vars
      PROVE  TypeOK'
  <2>1. CASE Interrupt
    <3>1. CASE CardDetected
      BY <1>2, <3>1 DEF TypeOK, CardDetected, queue, task
    <3>2. CASE HandleCardPresent
      BY <1>2, <3>2 DEF TypeOK, HandleCardPresent, task
    <3>. QED  BY <2>1, <3>1, <3>2 DEF Interrupt
  <2>2. CASE Task
    <3>1. CASE TaskRun
      BY <1>2, <3>1 DEF TypeOK, TaskRun, handler
    <3>2. CASE TaskCheck
      BY <1>2, <3>2 DEF TypeOK, TaskCheck, handler, queue
    <3>3. CASE TaskAdd \/ TaskProbe \/ TaskDelete
      BY <1>2, <3>3 DEF TypeOK, TaskAdd, TaskProbe, TaskDelete, handler, queue
    <3>. QED  BY <2>2, <3>1, <3>2, <3>3 DEF Task
  <2>3. CASE CardChanges
    BY <1>2, <2>3 DEF TypeOK, CardChanges, handler, queue, task
  <2>4. CASE UNCHANGED vars
    BY <1>2, <2>4 DEF TypeOK, vars, handler, queue, task
  <2>. QED  BY <1>2, <2>1, <2>2, <2>3, <2>4 DEF Next
<1>. QED  BY <1>1, <1>2, PTL DEF Spec

(* When nothing is queued or at work, sc->child and the switch agree: no   *)
(* detection is forgotten, as long as the card keeps still while the       *)
(* handler or the task runs.                                               *)
THEOREM Settled ==
    ASSUME ~Hasty
    PROVE  Spec => []SettledAgrees
<1>1. ASSUME IInv, [Next]_vars
      PROVE  IInv'
  <2>1. CASE UNCHANGED vars
    BY <1>1, <2>1 DEF IInv, TypeOK, Current, SettledAgrees, vars, handler, queue, task
  <2>. QED  BY <1>1, <2>1, HandlerKeeps, TaskKeeps, CardKeeps DEF Next
<1>2. IInv => SettledAgrees
  BY DEF IInv
<1>. QED  BY <1>1, <1>2, InitInv, PTL DEF Spec
=============================================================================
