----------------------------- MODULE XmacTxProof -----------------------------
(***************************************************************************)
(* Type correctness of XmacTx, the two facts its ring rests on (the MAC    *)
(* stops at the head, and never meets a half written frame), the ownership *)
(* of the packets, and the refinement of TxFifo, for every ring size,      *)
(* number of segments and set of packets.                                  *)
(*                                                                         *)
(* The inductive invariant unrolls the ring.  The descriptors the driver   *)
(* has in use are the virtual indices txring_tl_ptr .. Top - 1; virtual    *)
(* index v is slot v up to the slot e whose WRAP bit ends the lap, and     *)
(* slot v - e - 1 after it.                                                *)
(***************************************************************************)
EXTENDS XmacTxFifo, FiniteSetTheorems, TLAPS

(* The head and the count, with the frame that start_locked has handed to  *)
(* the MAC but not yet counted.                                            *)
NextHead(h, n) == IF WrapAfter(h, n) THEN 0 ELSE h + n
Head_ == IF pc = "kick" THEN NextHead(txring_hd_ptr, nsegs) ELSE txring_hd_ptr
Used_ == IF pc = "kick" THEN txring_queued + nsegs ELSE txring_queued
Top == txring_tl_ptr + Used_

At(e, v) == IF v <= e THEN v ELSE v - e - 1
Virt(e, s) == IF s >= txring_tl_ptr THEN s ELSE s + e + 1

(* The MAC's position; it will start at slot 0 when the interface is down. *)
MacSlot == IF running THEN txq ELSE 0
MacPos(e) == Virt(e, MacSlot)

(* Slots of the frame being filled that are written already.               *)
Filled(s) == pc = "fill" /\ s \in txring_hd_ptr + i + 1 .. txring_hd_ptr + nsegs - 1

(* Where the window lies.                                                  *)
Window(e) ==
    /\ e \in txring_tl_ptr .. NumDesc - 1
    /\ txring_tl_ptr <= Head_ => e = NumDesc - 1 /\ Head_ = Top
    /\ Head_ < txring_tl_ptr =>
          /\ e >= NumDesc - MaxSegs - 1
          /\ Head_ = Top - e - 1
          /\ txring[e].last

(* The bits of the descriptors inside and outside of it.                   *)
Bits(e) ==
    /\ \A v \in txring_tl_ptr .. Top - 1 : txring[At(e, v)].wrap = (v = e)
    /\ Used_ > 0 => txring[At(e, Top - 1)].last
    /\ \A s \in Slot : ~txring[s].used =>
          \/ s <= e /\ Virt(e, s) < Top
          \/ Filled(s)

(* The MAC is inside the window, at the start of a frame; from there on    *)
(* the window is its to read, frame by frame.                              *)
Pending(e) ==
    /\ MacSlot <= e /\ MacPos(e) <= Top
    /\ MacPos(e) > txring_tl_ptr => txring[At(e, MacPos(e) - 1)].last
    /\ \A v \in MacPos(e) .. Top - 1 : ~txring[At(e, v)].used
    /\ \A v \in MacPos(e) .. Top - 1 :
          IF v = MacPos(e) \/ txring[At(e, v - 1)].last
          THEN txring_m[At(e, v)] = txring[At(e, v)].buf
          ELSE txring[At(e, v)].buf = txring[At(e, v - 1)].buf

Reading(e) ==
    cur # Idle =>
        /\ running
        /\ cur <= e /\ Virt(e, cur) \in MacPos(e) .. Top - 1
        /\ \A v \in MacPos(e) .. Virt(e, cur) - 1 : ~txring[At(e, v)].last
        /\ txring[cur].buf = txring_m[txq]

(* What the driver's locals say.                                           *)
Walking(e) ==
    pc = "walk" =>
        /\ MacPos(e) > txring_tl_ptr
        /\ txring[txring_tl_ptr].used
        /\ ctl.last = txring[txring_tl_ptr].last
        /\ ctl.wrap = txring[txring_tl_ptr].wrap

Filling ==
    /\ pc \in {"fill", "kick"} => /\ nsegs \in 1 .. MaxSegs
                                  /\ txring_queued < NumDesc - MaxSegs * 2
    /\ pc = "fill" =>
        /\ i < nsegs
        /\ txring_m[txring_hd_ptr] = m
        /\ \A k \in i + 1 .. nsegs - 1 :
              txring[txring_hd_ptr + k] =
                 [used |-> FALSE, last |-> k = nsegs - 1,
                  wrap |-> k = nsegs - 1 /\ WrapAfter(txring_hd_ptr, nsegs),
                  buf |-> m]

Ring == \E e \in Slot : Window(e) /\ Bits(e) /\ Pending(e) /\ Reading(e) /\ Walking(e)

IInv ==
    /\ TypeOK
    /\ Filling
    /\ ~running => ~go /\ cur = Idle
    /\ pc = "stop" => ~running
    /\ pc # "stop" => Ring
    /\ ~running /\ pc # "stop" => txring_tl_ptr = 0

-----------------------------------------------------------------------------
(* The initial state satisfies the inductive invariant.                    *)
LEMMA InitInv == Init => IInv
<1> SUFFICES ASSUME Init PROVE IInv
  OBVIOUS
<1> USE ConfigAssumption
<1>1. TypeOK
  <2>1. \A s : FreshDesc(s) \in Desc
    BY DEF FreshDesc, Desc
  <2>2. txring \in [Slot -> Desc] /\ txring_m \in [Slot -> Mbuf \cup {None}]
    BY <2>1 DEF Init
  <2>3. sendq \in Seq(Mbuf) /\ ctl \in Desc
    BY <2>1 DEF Init
  <2>4. txring_tl_ptr \in Slot /\ txq \in Slot /\ cur \in Slot \cup {Idle}
    BY DEF Init, Slot
  <2>5. nsegs \in 0 .. MaxSegs /\ i \in 0 .. MaxSegs - 1
    BY DEF Init
  <2>6. /\ txring_hd_ptr \in 0 .. NumDesc - MaxSegs - 1
        /\ txring_queued \in 0 .. NumDesc - MaxSegs - 1
    BY DEF Init
  <2>7. checked \in Nat /\ kicks \in Nat /\ checked + kicks <= MaxSenders
    BY DEF Init
  <2> QED BY <2>2, <2>3, <2>4, <2>5, <2>6, <2>7 DEF Init, TypeOK
<1>2. Filling
  BY DEF Init, Filling
<1>3. Ring
  <2>1. Window(NumDesc - 1) /\ NumDesc - 1 \in Slot
    BY DEF Init, Window, Slot, Head_, Used_, Top
  <2>2. Bits(NumDesc - 1)
    BY DEF Init, Bits, Slot, Head_, Used_, Top, FreshDesc
  <2>3. Pending(NumDesc - 1) /\ Reading(NumDesc - 1) /\ Walking(NumDesc - 1)
    BY DEF Init, Pending, Reading, Walking, Slot, Used_, Top, MacPos, MacSlot, Virt, Idle
  <2> QED BY <2>1, <2>2, <2>3 DEF Ring
<1> QED BY <1>1, <1>2, <1>3 DEF Init, IInv

(* A step that leaves the ring, the MAC and the locals of the loops alone. *)
LEMMA RingFrame ==
    ASSUME Ring,
           UNCHANGED <<ringVars, running, txq, cur, ctl, nsegs, i>>,
           pc' = pc \/ (pc \notin {"fill", "kick"} /\ pc' \notin {"fill", "kick", "walk"})
    PROVE  Ring'
<1> PICK e \in Slot : Window(e) /\ Bits(e) /\ Pending(e) /\ Reading(e) /\ Walking(e)
  BY DEF Ring
<1> USE DEF ringVars, Head_, Used_, Top, NextHead, WrapAfter, At, Virt, MacPos, MacSlot
<1>1. Window(e)'
  BY DEF Window
<1>2. Bits(e)'
  BY DEF Bits, Filled
<1>3. Pending(e)' /\ Reading(e)' /\ Walking(e)'
  BY DEF Pending, Reading, Walking
<1> QED BY <1>1, <1>2, <1>3 DEF Ring, Slot

(* The steps that leave the ring and the MAC's place in it alone.          *)
Quiet ==
    \/ Stack \/ Start \/ StartFull \/ StartOactive \/ StartEmpty \/ StartDrop
    \/ CleanDone \/ Intr \/ IntrResume \/ MacHalt \/ MacReceive
    \/ UNCHANGED vars

LEMMA QuietStep == IInv /\ Quiet => IInv'
<1> SUFFICES ASSUME IInv, Quiet PROVE IInv'
  OBVIOUS
<1> USE DEF stackVars, flagVars, ringVars, lockVars, macVars
<1>1. UNCHANGED <<ringVars, running, txq, cur, ctl, nsegs, i, m>>
  BY DEF Quiet, Stack, SendCheck, Send, IfDown, IfUp, Start, StartFull, StartOactive,
         StartEmpty, StartDrop, CleanDone, Intr, IntrResume, MacHalt, MacReceive, vars
<1>2. \/ pc' = pc
      \/ /\ pc \notin {"fill", "kick", "stop"}
         /\ pc' \in {"idle", "start", "space", "clean"}
  BY DEF Quiet, Stack, SendCheck, Send, IfDown, IfUp, Start, StartFull, StartOactive,
         StartEmpty, StartDrop, CleanDone, AfterClean, Intr, IntrResume, MacHalt,
         MacReceive, vars
<1>3. TypeOK'
  <2>1. sendq' \in Seq(Mbuf) /\ live' \subseteq Mbuf
    <3>1. CASE Send
      BY <3>1 DEF IInv, TypeOK, Send
    <3>2. CASE StartDrop
      BY <3>2 DEF IInv, TypeOK, StartDrop
    <3>3. CASE IfDown
      BY <3>3 DEF IInv, TypeOK, IfDown
    <3>4. CASE ~(Send \/ StartDrop \/ IfDown)
      <4>1. UNCHANGED <<sendq, live>>
        BY <3>4 DEF Quiet, Stack, SendCheck, IfUp, Start, StartFull, StartOactive,
                    StartEmpty, CleanDone, Intr, IntrResume, MacHalt, MacReceive, vars
      <4> QED BY <4>1 DEF IInv, TypeOK
    <3> QED BY <3>1, <3>2, <3>3, <3>4
  <2>2. /\ checked' \in Nat /\ kicks' \in Nat /\ checked' + kicks' <= MaxSenders
        /\ up' \in BOOLEAN /\ oactive' \in BOOLEAN
    <3> USE ConfigAssumption
    <3>1. CASE SendCheck
      BY <3>1 DEF IInv, TypeOK, SendCheck
    <3>2. CASE Send
      BY <3>2 DEF IInv, TypeOK, Send
    <3>3. CASE Start
      BY <3>3 DEF IInv, TypeOK, Start
    <3>4. CASE ~(SendCheck \/ Send \/ Start)
      <4>1. UNCHANGED <<checked, kicks>> /\ up' \in {up, TRUE, FALSE}
            /\ oactive' \in {oactive, TRUE}
        BY <3>4 DEF Quiet, Stack, IfDown, IfUp, StartFull, StartOactive, StartEmpty,
                    StartDrop, CleanDone, Intr, IntrResume, MacHalt, MacReceive, vars
      <4> QED BY <4>1 DEF IInv, TypeOK
    <3> QED BY <3>1, <3>2, <3>3, <3>4
  <2>3. /\ ret' \in {"intr", "space"} /\ parked' \in BOOLEAN /\ go' \in BOOLEAN
        /\ isr' \subseteq {"txused", "rxcompl"}
    BY DEF IInv, TypeOK, Quiet, Stack, SendCheck, Send, IfDown, IfUp, Start, StartFull,
           StartOactive, StartEmpty, StartDrop, CleanDone, Intr, IntrResume, MacHalt,
           MacReceive, vars
  <2>4. pc' \in {"idle", "start", "space", "fill", "kick", "clean", "walk", "stop"}
    BY <1>2 DEF IInv, TypeOK
  <2> QED BY <1>1, <2>1, <2>2, <2>3, <2>4 DEF IInv, TypeOK
<1>4. Filling'
  BY <1>1, <1>2 DEF IInv, Filling, WrapAfter
<1>5. pc' # "stop" => Ring'
  BY <1>1, <1>2, RingFrame DEF IInv
<1>6. ~running' => ~go' /\ cur' = Idle
  BY <1>1 DEF IInv, Quiet, Stack, SendCheck, Send, IfDown, IfUp, Start, StartFull,
              StartOactive, StartEmpty, StartDrop, CleanDone, Intr, IntrResume,
              MacHalt, MacReceive, vars
<1> QED BY <1>1, <1>2, <1>3, <1>4, <1>5, <1>6 DEF IInv

-----------------------------------------------------------------------------
(* Taking the interface up and down.                                       *)
LEMMA InitLockedStep == IInv /\ InitLocked => IInv'
<1> SUFFICES ASSUME IInv, InitLocked PROVE IInv'
  OBVIOUS
<1> USE ConfigAssumption DEF stackVars, flagVars, ringVars, lockVars, macVars
<1>1. TypeOK'
  BY DEF IInv, TypeOK, InitLocked, Slot
<1>2. Filling'
  BY DEF IInv, Filling, InitLocked, WrapAfter
<1>3. Ring'
  <2>1. PICK e \in Slot : Window(e) /\ Bits(e) /\ Pending(e) /\ Reading(e) /\ Walking(e)
    BY DEF IInv, Ring, InitLocked
  <2> USE DEF InitLocked, Head_, Used_, Top, At, Virt, MacPos, MacSlot
  <2>2. Window(e)' /\ Bits(e)'
    BY <2>1 DEF Window, Bits, Filled
  <2>3. Pending(e)' /\ Reading(e)' /\ Walking(e)'
    BY <2>1 DEF Pending, Reading, Walking
  <2> QED BY <2>2, <2>3 DEF Ring, Slot
<1> QED BY <1>1, <1>2, <1>3 DEF IInv, InitLocked

LEMMA StopStep == IInv /\ Stop => IInv'
<1> SUFFICES ASSUME IInv, Stop PROVE IInv'
  OBVIOUS
<1> USE DEF stackVars, flagVars, ringVars, lockVars, macVars
<1>1. TypeOK'
  BY DEF IInv, TypeOK, Stop
<1> QED BY <1>1 DEF IInv, Stop, Filling

LEMMA StopClearStep == IInv /\ StopClear => IInv'
<1> SUFFICES ASSUME IInv, StopClear PROVE IInv'
  OBVIOUS
<1> USE ConfigAssumption DEF stackVars, flagVars, ringVars, lockVars, macVars
<1>1. TypeOK'
  <2>1. \A s : FreshDesc(s) \in Desc
    BY DEF FreshDesc, Desc
  <2>2. txring' \in [Slot -> Desc] /\ txring_m' \in [Slot -> Mbuf \cup {None}]
    BY <2>1 DEF StopClear
  <2>3. /\ txring_tl_ptr' \in Slot
        /\ txring_hd_ptr' \in 0 .. NumDesc - MaxSegs - 1
        /\ txring_queued' \in 0 .. NumDesc - MaxSegs - 1
    BY DEF StopClear, Slot
  <2> QED BY <2>2, <2>3 DEF IInv, TypeOK, StopClear
<1>2. Filling'
  BY DEF StopClear, Filling
<1>3. Ring'
  <2>1. Window(NumDesc - 1)' /\ NumDesc - 1 \in Slot
    BY DEF StopClear, Window, Slot, Head_, Used_, Top
  <2>2. Bits(NumDesc - 1)'
    BY DEF StopClear, Bits, Slot, Head_, Used_, Top, FreshDesc
  <2>3. Pending(NumDesc - 1)' /\ Reading(NumDesc - 1)' /\ Walking(NumDesc - 1)'
    BY DEF IInv, StopClear, Pending, Reading, Walking, Slot, Used_, Top, MacPos, MacSlot,
           Virt
  <2> QED BY <2>1, <2>2, <2>3 DEF Ring, Slot
<1> QED BY <1>1, <1>2, <1>3 DEF IInv, StopClear

-----------------------------------------------------------------------------
(* Filling the ring.                                                       *)

(* The slots of the frame that start_locked builds are free, and at least  *)
(* one more descriptor after them is: this is what MaxSegs * 2 reserves.   *)
LEMMA HeadRoom ==
    ASSUME TypeOK, Filling, NEW e \in Slot, Window(e), pc = "fill"
    PROVE  /\ \A v \in txring_tl_ptr .. Top - 1, k \in 0 .. nsegs - 1 :
                  At(e, v) # txring_hd_ptr + k
           /\ txring_hd_ptr < txring_tl_ptr =>
                  /\ txring_hd_ptr + nsegs < txring_tl_ptr
                  /\ ~WrapAfter(txring_hd_ptr, nsegs)
           /\ WrapAfter(txring_hd_ptr, nsegs) => txring_tl_ptr > 0
           /\ txring_hd_ptr + nsegs < NumDesc
<1> USE ConfigAssumption DEF TypeOK, Filling, Slot, Window, Head_, Used_, Top
<1>1. txring_hd_ptr < txring_tl_ptr => txring_hd_ptr + MaxSegs < txring_tl_ptr
  OBVIOUS
<1>2. \A v \in txring_tl_ptr .. Top - 1, k \in 0 .. nsegs - 1 :
          At(e, v) # txring_hd_ptr + k
  BY <1>1 DEF At
<1>3. /\ txring_hd_ptr < txring_tl_ptr => ~WrapAfter(txring_hd_ptr, nsegs)
      /\ WrapAfter(txring_hd_ptr, nsegs) => txring_tl_ptr > 0
  BY DEF WrapAfter
<1> QED BY <1>1, <1>2, <1>3

LEMMA StartDequeueStep == IInv /\ StartDequeue => IInv'
<1> SUFFICES ASSUME IInv, StartDequeue PROVE IInv'
  OBVIOUS
<1> USE ConfigAssumption DEF stackVars, flagVars, ringVars, lockVars, macVars
<1>1. PICK e \in Slot : Window(e) /\ Bits(e) /\ Pending(e) /\ Reading(e) /\ Walking(e)
  BY DEF IInv, Ring, StartDequeue
<1>2. PICK n \in 1 .. MaxSegs : nsegs' = n /\ i' = n - 1
  BY DEF StartDequeue
<1>3. TypeOK'
  <2>1. sendq' \in Seq(Mbuf) /\ m' \in Mbuf
    BY DEF IInv, TypeOK, StartDequeue
  <2>2. txring_m' \in [Slot -> Mbuf \cup {None}]
    BY <2>1 DEF IInv, TypeOK, StartDequeue
  <2>3. nsegs' \in 0 .. MaxSegs /\ i' \in 0 .. MaxSegs - 1
    BY <1>2
  <2> QED BY <2>1, <2>2, <2>3 DEF IInv, TypeOK, StartDequeue
<1>4. Filling'
  BY <1>2 DEF IInv, TypeOK, Slot, Filling, StartDequeue, NoSpace
<1>5. Ring'
  <2> USE DEF StartDequeue, Head_, Used_, Top, At, Virt, MacPos, MacSlot
  <2>1. Window(e)' /\ Walking(e)'
    BY <1>1 DEF Window, Walking
  <2>2. Bits(e)'
    BY <1>1 DEF Bits, Filled
  <2>3. \A v \in txring_tl_ptr .. Top - 1 : txring_m'[At(e, v)] = txring_m[At(e, v)]
    BY <1>1 DEF IInv, TypeOK, Slot, Window
  <2>4. Pending(e)'
    <3>1. \A v \in MacPos(e) .. Top - 1 : v \in txring_tl_ptr .. Top - 1
      BY <1>1 DEF IInv, TypeOK, Slot, Window
    <3> QED BY <1>1, <2>3, <3>1 DEF Pending
  <2>5. Reading(e)'
    <3> SUFFICES ASSUME cur # Idle PROVE Reading(e)'
      BY DEF Reading
    <3>1. txq = At(e, MacPos(e)) /\ MacPos(e) \in txring_tl_ptr .. Top - 1
      BY <1>1 DEF Reading, Pending, IInv, TypeOK, Slot, Window
    <3> QED BY <1>1, <2>3, <3>1 DEF Reading
  <2> QED BY <2>1, <2>2, <2>4, <2>5 DEF Ring, Slot
<1> QED BY <1>3, <1>4, <1>5 DEF IInv, StartDequeue

(* An iteration that does not store the first descriptor: the MAC cannot   *)
(* see what it writes.                                                     *)
LEMMA FillLaterStep == IInv /\ FillDesc /\ i # 0 => IInv'
<1> SUFFICES ASSUME IInv, FillDesc, i # 0 PROVE IInv'
  OBVIOUS
<1> USE ConfigAssumption DEF stackVars, flagVars, ringVars, lockVars, macVars, FillSeg
<1>1. PICK e \in Slot : Window(e) /\ Bits(e) /\ Pending(e) /\ Reading(e) /\ Walking(e)
  BY DEF IInv, Ring, FillDesc
<1> DEFINE h == txring_hd_ptr + i
           d == [used |-> FALSE, last |-> i = nsegs - 1,
                 wrap |-> i = nsegs - 1 /\ WrapAfter(txring_hd_ptr, nsegs), buf |-> m]
<1>2. /\ pc = "fill" /\ pc' = "fill" /\ i' = i - 1 /\ i \in 1 .. nsegs - 1
      /\ txring' = [txring EXCEPT ![h] = d]
      /\ txring_m' = [txring_m EXCEPT ![h] = None]
      /\ UNCHANGED <<txring_hd_ptr, txring_tl_ptr, txring_queued, nsegs, m, running,
                     txq, cur, ctl>>
  BY DEF FillDesc, IInv, TypeOK, Filling
<1>3. h \in Slot /\ d \in Desc
  BY <1>2 DEF IInv, TypeOK, Filling, Slot, Desc
<1>4. TypeOK'
  BY <1>2, <1>3 DEF IInv, TypeOK, FillDesc
<1>5. /\ \A v \in txring_tl_ptr .. Top - 1 : At(e, v) # h
      /\ h # txring_hd_ptr
  <2>1. /\ i \in 0 .. nsegs - 1 /\ i # 0 /\ txring_hd_ptr \in Nat
        /\ TypeOK /\ Filling /\ pc = "fill"
    BY <1>2 DEF IInv, TypeOK
  <2> QED BY <1>1, <2>1, HeadRoom
<1>6. \A v \in txring_tl_ptr .. Top - 1 :
          txring'[At(e, v)] = txring[At(e, v)] /\ txring_m'[At(e, v)] = txring_m[At(e, v)]
  <2>1. \A v \in txring_tl_ptr .. Top - 1 : At(e, v) \in Slot
    BY <1>1, <1>2 DEF IInv, TypeOK, Window, Top, At, Slot, Head_, Used_
  <2> QED BY <1>2, <1>5, <2>1 DEF IInv, TypeOK
<1>7. Filling'
  <2>1. nsegs \in 1 .. MaxSegs /\ txring_queued < NumDesc - MaxSegs * 2
    BY <1>2 DEF IInv, Filling
  <2>2. txring_m'[txring_hd_ptr] = m
    BY <1>2, <1>5 DEF IInv, TypeOK, Filling, Slot
  <2>3. \A k \in i .. nsegs - 1 :
           txring'[txring_hd_ptr + k] =
              [used |-> FALSE, last |-> k = nsegs - 1,
               wrap |-> k = nsegs - 1 /\ WrapAfter(txring_hd_ptr, nsegs), buf |-> m]
    <3> SUFFICES ASSUME NEW k \in i .. nsegs - 1
                 PROVE txring'[txring_hd_ptr + k] =
                         [used |-> FALSE, last |-> k = nsegs - 1,
                          wrap |-> k = nsegs - 1 /\ WrapAfter(txring_hd_ptr, nsegs),
                          buf |-> m]
      OBVIOUS
    <3>1. CASE k = i
      BY <3>1, <1>2, <1>3 DEF IInv, TypeOK
    <3>2. CASE k # i
      <4>1. /\ k \in i + 1 .. nsegs - 1 /\ txring_hd_ptr + k # h
            /\ txring_hd_ptr + k \in Slot
        BY <3>2, <1>2, <2>1 DEF IInv, TypeOK, Slot
      <4> QED BY <4>1, <1>2, <1>3 DEF IInv, TypeOK, Filling
    <3> QED BY <3>1, <3>2
  <2>4. i' + 1 = i /\ i' < nsegs
    BY <1>2 DEF IInv, TypeOK
  <2> QED BY <1>2, <2>1, <2>2, <2>3, <2>4 DEF Filling, WrapAfter
<1>8. Ring'
  <2> USE <1>2 DEF Head_, Used_, Top, Virt, MacPos, MacSlot
  <2>1. Window(e)'
    <3>1. Head_ < txring_tl_ptr => At(e, e) = e /\ e \in txring_tl_ptr .. Top - 1
      BY <1>1 DEF Window, At, IInv, TypeOK, Slot
    <3> QED BY <1>1, <1>6, <3>1 DEF Window
  <2>2. Bits(e)'
    <3>1. \A v \in txring_tl_ptr .. Top - 1 : txring'[At(e, v)].wrap = (v = e)
      BY <1>1, <1>6 DEF Bits
    <3>2. Used_ > 0 => txring'[At(e, Top - 1)].last
      BY <1>1, <1>6 DEF Bits, IInv, TypeOK, Slot
    <3>3. \A s \in Slot : ~txring'[s].used =>
             (s <= e /\ Virt(e, s) < Top) \/ Filled(s)'
      BY <1>1, <1>3 DEF Bits, Filled, IInv, TypeOK, Slot
    <3> QED BY <3>1, <3>2, <3>3 DEF Bits, At
  <2>3. Pending(e)'
    <3>1. /\ MacPos(e) \in txring_tl_ptr .. Top
          /\ MacPos(e) > txring_tl_ptr => txring'[At(e, MacPos(e) - 1)].last
      BY <1>1, <1>6 DEF Pending, IInv, TypeOK, Slot, Window
    <3>2. \A v \in MacPos(e) .. Top - 1 :
             /\ ~txring'[At(e, v)].used
             /\ IF v = MacPos(e) \/ txring'[At(e, v - 1)].last
                THEN txring_m'[At(e, v)] = txring'[At(e, v)].buf
                ELSE txring'[At(e, v)].buf = txring'[At(e, v - 1)].buf
      <4> SUFFICES ASSUME NEW v \in MacPos(e) .. Top - 1
                   PROVE  /\ ~txring'[At(e, v)].used
                          /\ IF v = MacPos(e) \/ txring'[At(e, v - 1)].last
                             THEN txring_m'[At(e, v)] = txring'[At(e, v)].buf
                             ELSE txring'[At(e, v)].buf = txring'[At(e, v - 1)].buf
        OBVIOUS
      <4>1. v \in txring_tl_ptr .. Top - 1
        BY <3>1 DEF IInv, TypeOK, Slot
      <4>2. v # MacPos(e) => v - 1 \in txring_tl_ptr .. Top - 1
        BY <3>1 DEF IInv, TypeOK, Slot
      <4> QED BY <1>1, <1>6, <4>1, <4>2 DEF Pending
    <3> QED BY <1>1, <3>1, <3>2 DEF Pending, At
  <2>4. Reading(e)'
    <3> SUFFICES ASSUME cur # Idle PROVE Reading(e)'
      BY DEF Reading
    <3>1. /\ txq = At(e, MacPos(e)) /\ MacPos(e) \in txring_tl_ptr .. Top - 1
          /\ cur = At(e, Virt(e, cur)) /\ Virt(e, cur) \in MacPos(e) .. Top - 1
      BY <1>1 DEF Reading, Pending, IInv, TypeOK, Slot, Window, At
    <3>2. \A v \in MacPos(e) .. Virt(e, cur) - 1 : v \in txring_tl_ptr .. Top - 1
      BY <3>1 DEF IInv, TypeOK, Slot
    <3>3. txring'[cur].buf = txring_m'[txq]
      <4>1. MacPos(e) \in txring_tl_ptr .. Top - 1 /\ Virt(e, cur) \in txring_tl_ptr .. Top - 1
        BY <3>1 DEF IInv, TypeOK, Slot
      <4>2. txring'[cur] = txring[cur] /\ txring_m'[txq] = txring_m[txq]
        BY <1>6, <3>1, <4>1
      <4> QED BY <1>1, <4>2 DEF Reading
    <3>4. \A v \in MacPos(e) .. Virt(e, cur) - 1 : ~txring'[At(e, v)].last
      BY <1>1, <1>6, <3>2 DEF Reading
    <3> QED BY <1>1, <3>3, <3>4 DEF Reading, At
  <2> QED BY <2>1, <2>2, <2>3, <2>4 DEF Ring, Walking, Slot
<1> QED BY <1>2, <1>4, <1>7, <1>8 DEF IInv, FillDesc

(* The iteration that stores the first descriptor: the whole frame becomes *)
(* visible to the MAC, and the window grows by it.                         *)
LEMMA FillFirstStep == IInv /\ FillDesc /\ i = 0 => IInv'
<1> SUFFICES ASSUME IInv, FillDesc, i = 0 PROVE IInv'
  OBVIOUS
<1> USE ConfigAssumption DEF stackVars, flagVars, ringVars, lockVars, macVars, FillSeg
<1>1. PICK e \in Slot : Window(e) /\ Bits(e) /\ Pending(e) /\ Reading(e) /\ Walking(e)
  BY DEF IInv, Ring, FillDesc
<1> DEFINE h == txring_hd_ptr
           T == txring_tl_ptr + txring_queued
           D(k) == [used |-> FALSE, last |-> k = nsegs - 1,
                    wrap |-> k = nsegs - 1 /\ WrapAfter(h, nsegs), buf |-> m]
<1>0. PICK f : f = IF WrapAfter(h, nsegs) THEN h + nsegs - 1 ELSE e
  OBVIOUS
<1>2. /\ pc = "fill" /\ pc' = "kick" /\ i' = i
      /\ txring' = [txring EXCEPT ![h] = D(0)]
      /\ UNCHANGED <<txring_m, txring_hd_ptr, txring_tl_ptr, txring_queued, nsegs, m,
                     running, txq, cur, ctl>>
  BY DEF FillDesc, IInv, TypeOK
<1>21. UNCHANGED <<txring_m, txring_tl_ptr, running, txq, cur>>
  BY <1>2
<1>3. h \in Slot /\ D(0) \in Desc
  BY <1>2 DEF IInv, TypeOK, Slot, Desc
<1>4. TypeOK'
  BY <1>2, <1>3 DEF IInv, TypeOK, FillDesc
<1>5. Filling' /\ nsegs \in 1 .. MaxSegs /\ txring_queued \in Nat /\ T \in Nat
      /\ h \in Nat /\ txring_tl_ptr \in Nat
  BY <1>2 DEF IInv, TypeOK, Filling, Slot
<1>6. /\ h < txring_tl_ptr => h + nsegs < txring_tl_ptr /\ ~WrapAfter(h, nsegs)
      /\ WrapAfter(h, nsegs) => txring_tl_ptr > 0
      /\ h + nsegs < NumDesc
      /\ \A v \in txring_tl_ptr .. T - 1 : At(e, v) # h
  <2>1. 0 \in 0 .. nsegs - 1 /\ h + 0 = h
    BY <1>5
  <2> QED BY <1>1, <1>2, <2>1, HeadRoom DEF IInv, Top, Used_
<1>7. \A k \in 0 .. nsegs - 1 : txring'[h + k] = D(k)
  <2> SUFFICES ASSUME NEW k \in 0 .. nsegs - 1 PROVE txring'[h + k] = D(k)
    OBVIOUS
  <2>1. CASE k = 0
    BY <2>1, <1>2, <1>3, <1>5 DEF IInv, TypeOK
  <2>2. CASE k # 0
    <3>1. k \in i + 1 .. nsegs - 1 /\ h + k # h /\ h + k \in Slot
      BY <2>2, <1>5, <1>6 DEF Slot
    <3> QED BY <3>1, <1>2, <1>3 DEF IInv, TypeOK, Filling
  <2> QED BY <2>1, <2>2
<1>71. \A k \in 0 .. nsegs - 1 :
          LET r == txring'[h + k]
          IN  /\ ~r.used /\ r.buf = m /\ r.last = (k = nsegs - 1)
              /\ r.wrap = (k = nsegs - 1 /\ WrapAfter(h, nsegs))
  <2> SUFFICES ASSUME NEW k \in 0 .. nsegs - 1, NEW r, r = txring'[h + k]
               PROVE  /\ ~r.used /\ r.buf = m /\ r.last = (k = nsegs - 1)
                      /\ r.wrap = (k = nsegs - 1 /\ WrapAfter(h, nsegs))
    OBVIOUS
  <2>1. r = D(k)
    BY <1>7
  <2>2. ~r.used /\ r.buf = m
    BY <2>1
  <2>3. r.last = (k = nsegs - 1)
    BY <2>1
  <2>4. r.wrap = (k = nsegs - 1 /\ WrapAfter(h, nsegs))
    BY <2>1
  <2> QED BY <2>2, <2>3, <2>4
<1>8. \A v \in txring_tl_ptr .. T - 1 : At(e, v) \in Slot /\ txring'[At(e, v)] = txring[At(e, v)]
  <2>1. \A v \in txring_tl_ptr .. T - 1 : At(e, v) \in Slot
    BY <1>1, <1>2, <1>5 DEF IInv, TypeOK, Window, Top, At, Slot, Head_, Used_
  <2> QED BY <1>2, <1>6, <2>1 DEF IInv, TypeOK
<1>9. /\ f \in Slot
      /\ \A v \in txring_tl_ptr .. T - 1 : At(f, v) = At(e, v)
      /\ \A k \in 0 .. nsegs - 1 : At(f, T + k) = h + k
  BY <1>0, <1>1, <1>2, <1>5, <1>6 DEF Window, At, Head_, Used_, Top, Slot
<1>10. /\ MacPos(f) = MacPos(e) /\ MacPos(f)' = MacPos(f)
       /\ MacPos(e) \in txring_tl_ptr .. T /\ MacSlot <= f
  BY <1>0, <1>1, <1>2, <1>5, <1>6 DEF Pending, Window, MacPos, MacSlot, Virt, Head_, Used_,
     Top, Slot, IInv, TypeOK
<1>11. Top = T /\ Top' = T + nsegs /\ Used_' = txring_queued + nsegs
  BY <1>2, <1>5 DEF Top, Used_
<1>12. \A v \in txring_tl_ptr .. T + nsegs - 1 :
          v \in txring_tl_ptr .. T - 1 \/ \E k \in 0 .. nsegs - 1 : v = T + k
  <2> SUFFICES ASSUME NEW v \in txring_tl_ptr .. T + nsegs - 1, v \notin txring_tl_ptr .. T - 1
               PROVE \E k \in 0 .. nsegs - 1 : v = T + k
    OBVIOUS
  <2>1. v - T \in 0 .. nsegs - 1 /\ v = T + (v - T)
    BY <1>5
  <2> QED BY <2>1
<1>13. Window(f)'
  <2>1. CASE h < txring_tl_ptr
    <3>1. e \in txring_tl_ptr .. T - 1 /\ At(e, e) = e
      BY <2>1, <1>1, <1>2, <1>5 DEF Window, At, Head_, Used_, Top, Slot
    <3> QED BY <2>1, <3>1, <1>0, <1>1, <1>2, <1>5, <1>6, <1>8, <1>11
            DEF Window, Head_, NextHead, Used_, WrapAfter, Slot
  <2>2. CASE ~(h < txring_tl_ptr) /\ WrapAfter(h, nsegs)
    <3>1. txring'[f].last /\ f = h + nsegs - 1
      <4>1. /\ nsegs - 1 \in 0 .. nsegs - 1
            /\ f = h + nsegs - 1 /\ f = h + (nsegs - 1)
        BY <2>2, <1>0, <1>5
      <4>2. txring'[h + (nsegs - 1)].last
        BY <4>1, <1>71
      <4> QED BY <4>1, <4>2
    <3>2. Head_' = 0
      BY <2>2, <1>2 DEF Head_, NextHead, WrapAfter
    <3>3. T = h
      BY <2>2, <1>1, <1>2, <1>5 DEF Window, Head_, Used_, Top
    <3> QED BY <2>2, <3>1, <3>2, <3>3, <1>2, <1>5, <1>6, <1>11 DEF Window, WrapAfter
  <2>3. CASE ~(h < txring_tl_ptr) /\ ~WrapAfter(h, nsegs)
    <3>1. T = h /\ e = NumDesc - 1
      BY <2>3, <1>1, <1>2, <1>5 DEF Window, Head_, Used_, Top
    <3>2. Head_' = h + nsegs /\ f = e
      BY <2>3, <1>0, <1>2 DEF Head_, NextHead, WrapAfter
    <3> QED BY <2>3, <3>1, <3>2, <1>2, <1>5, <1>6, <1>11 DEF Window
  <2> QED BY <2>1, <2>2, <2>3
<1>14. Bits(f)'
  <2>1. ASSUME NEW v \in txring_tl_ptr .. T + nsegs - 1
        PROVE  txring'[At(f, v)].wrap = (v = f)
    <3>1. CASE v \in txring_tl_ptr .. T - 1
      <4>1. txring'[At(f, v)].wrap = (v = e)
        BY <3>1, <1>1, <1>8, <1>9, <1>11 DEF Bits
      <4>2. (v = e) = (v = f)
        BY <3>1, <1>0, <1>1, <1>2, <1>5, <1>6 DEF Window, Head_, Used_, Top, Slot
      <4> QED BY <4>1, <4>2
    <3>2. ASSUME NEW k \in 0 .. nsegs - 1, v = T + k
          PROVE  txring'[At(f, v)].wrap = (v = f)
      <4>1. txring'[At(f, v)].wrap = (k = nsegs - 1 /\ WrapAfter(h, nsegs))
        BY <3>2, <1>71, <1>9
      <4>2. (k = nsegs - 1 /\ WrapAfter(h, nsegs)) = (T + k = f)
        BY <1>0, <1>1, <1>2, <1>5, <1>6 DEF Window, Head_, Used_, Top, Slot
      <4> QED BY <3>2, <4>1, <4>2
    <3> QED BY <3>1, <3>2, <1>12
  <2>2. txring'[At(f, T + nsegs - 1)].last
    <3>1. nsegs - 1 \in 0 .. nsegs - 1 /\ T + (nsegs - 1) = T + nsegs - 1
      BY <1>5
    <3>2. txring'[At(f, T + (nsegs - 1))].last
      BY <3>1, <1>71, <1>9
    <3> QED BY <3>1, <3>2
  <2>3. ASSUME NEW s \in Slot, ~txring'[s].used
        PROVE  s <= f /\ Virt(f, s) < T + nsegs
    <3>1. CASE s \in h .. h + nsegs - 1
      BY <3>1, <1>0, <1>1, <1>2, <1>5, <1>6 DEF Window, Virt, Head_, Used_, Top, Slot
    <3>2. CASE s \notin h .. h + nsegs - 1
      <4>1. ~txring[s].used /\ ~Filled(s)
        BY <2>3, <3>2, <1>2, <1>3, <1>5 DEF Filled, IInv, TypeOK, Slot
      <4>2. s <= e /\ Virt(e, s) < T
        BY <4>1, <1>1, <1>11 DEF Bits
      <4> QED BY <4>2, <1>0, <1>1, <1>2, <1>5, <1>6 DEF Window, Virt, Head_, Used_, Top, Slot
    <3> QED BY <3>1, <3>2
  <2>4. \A v \in txring_tl_ptr' .. Top' - 1 : txring'[At(f, v)].wrap = (v = f)
    BY <2>1, <1>21, <1>11, <1>5
  <2>5. txring'[At(f, Top' - 1)].last
    BY <2>2, <1>11, <1>5
  <2>6. \A s \in Slot : ~txring'[s].used => s <= f /\ Virt(f, s)' < Top'
    BY <2>3, <1>21, <1>11 DEF Virt
  <2> QED BY <2>4, <2>5, <2>6 DEF Bits
<1>15. Pending(f)'
  <2>1. ASSUME MacPos(e) > txring_tl_ptr PROVE txring'[At(f, MacPos(e) - 1)].last
    <3>1. MacPos(e) - 1 \in txring_tl_ptr .. T - 1
      BY <2>1, <1>5, <1>10
    <3> QED BY <2>1, <3>1, <1>1, <1>8, <1>9 DEF Pending
  <2>2. ASSUME NEW v \in MacPos(e) .. T + nsegs - 1
        PROVE  /\ ~txring'[At(f, v)].used
               /\ IF v = MacPos(e) \/ txring'[At(f, v - 1)].last
                  THEN txring_m[At(f, v)] = txring'[At(f, v)].buf
                  ELSE txring'[At(f, v)].buf = txring'[At(f, v - 1)].buf
    <3>1. CASE v \in txring_tl_ptr .. T - 1
      <4>1. v # MacPos(e) => v - 1 \in txring_tl_ptr .. T - 1
        BY <3>1, <1>5, <1>10
      <4> QED BY <3>1, <4>1, <1>1, <1>5, <1>8, <1>9, <1>10, <1>11 DEF Pending
    <3>2. CASE v = T
      <4>1. 0 \in 0 .. nsegs - 1 /\ T + 0 = T /\ h + 0 = h
        BY <1>5
      <4>2. At(f, v) = h /\ txring'[h] = D(0)
        BY <3>2, <4>1, <1>7, <1>9
      <4>3. txring_m[h] = m
        BY <1>2 DEF IInv, Filling
      <4>4. v # MacPos(e) => txring'[At(f, v - 1)].last
        <5> SUFFICES ASSUME v # MacPos(e) PROVE txring'[At(f, v - 1)].last
          OBVIOUS
        <5>1. v - 1 = T - 1 /\ T - 1 \in txring_tl_ptr .. T - 1 /\ txring_queued > 0
          BY <3>2, <1>5, <1>10
        <5> QED BY <5>1, <1>1, <1>2, <1>8, <1>9, <1>11 DEF Bits, Used_
      <4> QED BY <4>2, <4>3, <4>4
    <3>3. ASSUME NEW k \in 1 .. nsegs - 1, v = T + k
          PROVE  /\ ~txring'[At(f, v)].used
                 /\ v # MacPos(e) /\ ~txring'[At(f, v - 1)].last
                 /\ txring'[At(f, v)].buf = txring'[At(f, v - 1)].buf
      <4>1. /\ k \in 0 .. nsegs - 1 /\ k - 1 \in 0 .. nsegs - 1 /\ k - 1 # nsegs - 1
            /\ v - 1 = T + (k - 1) /\ v # MacPos(e)
        BY <3>3, <1>5, <1>10
      <4>2. /\ ~txring'[At(f, v)].used /\ txring'[At(f, v)].buf = m
            /\ ~txring'[At(f, v - 1)].last /\ txring'[At(f, v - 1)].buf = m
        <5>1. At(f, v) = h + k /\ At(f, v - 1) = h + (k - 1)
          BY <3>3, <4>1, <1>9
        <5>2. /\ ~txring'[h + k].used /\ txring'[h + k].buf = m
              /\ ~txring'[h + (k - 1)].last /\ txring'[h + (k - 1)].buf = m
          BY <4>1, <1>71
        <5> QED BY <5>1, <5>2
      <4> QED BY <4>1, <4>2
    <3>4. v \in txring_tl_ptr .. T - 1 \/ v = T \/ \E k \in 1 .. nsegs - 1 : v = T + k
      <4> SUFFICES ASSUME v \notin txring_tl_ptr .. T - 1, v # T
                   PROVE \E k \in 1 .. nsegs - 1 : v = T + k
        OBVIOUS
      <4>1. v - T \in 1 .. nsegs - 1 /\ v = T + (v - T)
        BY <1>5, <1>10
      <4> QED BY <4>1
    <3> QED BY <3>1, <3>2, <3>3, <3>4
  <2>3. MacSlot' = MacSlot /\ MacPos(f)' = MacPos(e)
    BY <1>2, <1>10 DEF MacSlot
  <2>4. MacPos(e) <= T + nsegs
    BY <1>5, <1>10
  <2>5. MacPos(f)' > txring_tl_ptr' => txring'[At(f, MacPos(f)' - 1)].last
    BY <2>1, <2>3, <1>21, <1>5
  <2>6. \A v \in MacPos(f)' .. Top' - 1 :
           /\ ~txring'[At(f, v)].used
           /\ IF v = MacPos(f)' \/ txring'[At(f, v - 1)].last
              THEN txring_m'[At(f, v)] = txring'[At(f, v)].buf
              ELSE txring'[At(f, v)].buf = txring'[At(f, v - 1)].buf
    BY <2>2, <2>3, <1>21, <1>11, <1>5
  <2>7. MacSlot' <= f /\ MacPos(f)' <= Top'
    BY <2>3, <2>4, <1>10, <1>11, <1>5
  <2> QED BY <2>5, <2>6, <2>7 DEF Pending
<1>16. Reading(f)'
  <2> SUFFICES ASSUME cur # Idle PROVE Reading(f)'
    BY <1>2 DEF Reading
  <2>1. /\ cur <= f /\ Virt(f, cur) = Virt(e, cur) /\ At(e, Virt(e, cur)) = cur
        /\ Virt(e, cur) \in MacPos(e) .. T - 1
    BY <1>0, <1>1, <1>2, <1>5, <1>6, <1>11
       DEF Reading, Window, Virt, At, Head_, Used_, Top, Slot, IInv, TypeOK
  <2>2. \A v \in MacPos(e) .. Virt(e, cur) : v \in txring_tl_ptr .. T - 1
    BY <2>1, <1>5, <1>10
  <2>3. \A v \in MacPos(e) .. Virt(e, cur) - 1 : ~txring'[At(f, v)].last
    <3>1. \A v \in MacPos(e) .. Virt(e, cur) - 1 : v \in MacPos(e) .. Virt(e, cur)
      BY <2>1, <1>5, <1>10
    <3> QED BY <2>2, <3>1, <1>1, <1>8, <1>9 DEF Reading
  <2>4. txring'[cur] = txring[cur]
    <3>1. Virt(e, cur) \in txring_tl_ptr .. T - 1
      BY <2>1, <1>5, <1>10
    <3> QED BY <3>1, <2>1, <1>8
  <2>5. Virt(f, cur)' = Virt(e, cur)
    BY <2>1, <1>2 DEF Virt
  <2>6. Virt(e, cur) \in MacPos(e) .. T + nsegs - 1
    BY <2>1, <1>5, <1>10
  <2>7. MacPos(f)' = MacPos(e)
    BY <1>10
  <2>8. cur' <= f /\ Virt(f, cur)' \in MacPos(f)' .. Top' - 1
    BY <2>1, <2>5, <2>6, <2>7, <1>21, <1>11, <1>5
  <2>9. \A v \in MacPos(f)' .. Virt(f, cur)' - 1 : ~txring'[At(f, v)].last
    BY <2>3, <2>5, <2>7
  <2>10. running' /\ txring'[cur'].buf = txring_m'[txq']
    BY <2>4, <1>1, <1>21 DEF Reading
  <2> QED BY <2>8, <2>9, <2>10 DEF Reading
<1>17. Ring'
  BY <1>2, <1>9, <1>13, <1>14, <1>15, <1>16 DEF Ring, Walking, Slot
<1> QED BY <1>2, <1>4, <1>5, <1>17 DEF IInv, FillDesc

(* Counting the frame changes nothing the MAC can see.                     *)
LEMMA StartKickStep == IInv /\ StartKick => IInv'
<1> SUFFICES ASSUME IInv, StartKick PROVE IInv'
  OBVIOUS
<1> USE ConfigAssumption DEF stackVars, flagVars, ringVars, lockVars, macVars
<1>1. PICK e \in Slot : Window(e) /\ Bits(e) /\ Pending(e) /\ Reading(e) /\ Walking(e)
  BY DEF IInv, Ring, StartKick
<1>2. Head_' = Head_ /\ Used_' = Used_ /\ Top' = Top
  BY DEF StartKick, Head_, Used_, Top, NextHead, WrapAfter
<1>3. /\ pc = "kick" /\ pc' = "start"
      /\ UNCHANGED <<txring, txring_m, txring_tl_ptr, running, txq, cur, ctl>>
  BY DEF StartKick
<1>4. TypeOK'
  <2>1. /\ txring_hd_ptr' \in 0 .. NumDesc - MaxSegs - 1
        /\ txring_queued' \in 0 .. NumDesc - MaxSegs - 1
    BY DEF IInv, TypeOK, Filling, StartKick, WrapAfter
  <2>2. m' \in Mbuf \cup {None} /\ nsegs' \in 0 .. MaxSegs /\ go' \in BOOLEAN
    BY DEF IInv, TypeOK, StartKick
  <2> QED BY <2>1, <2>2 DEF IInv, TypeOK, StartKick
<1>5. Window(e)' /\ Pending(e)' /\ Reading(e)' /\ Walking(e)'
  BY <1>1, <1>2, <1>3 DEF Window, Pending, Reading, Walking, Virt, MacPos, MacSlot
<1>6. Bits(e)'
  BY <1>1, <1>2, <1>3 DEF Bits, Virt, Filled
<1> QED BY <1>3, <1>4, <1>5, <1>6 DEF IInv, StartKick, Filling, Ring, Slot

-----------------------------------------------------------------------------
(* Reclaiming the ring.                                                    *)

(* When the descriptor at the tail is used, the MAC has passed its frame.  *)
LEMMA CleanFrameStep == IInv /\ CleanFrame => IInv'
<1> SUFFICES ASSUME IInv, CleanFrame PROVE IInv'
  OBVIOUS
<1> USE ConfigAssumption DEF stackVars, flagVars, ringVars, lockVars, macVars
<1>1. PICK e \in Slot : Window(e) /\ Bits(e) /\ Pending(e) /\ Reading(e) /\ Walking(e)
  BY DEF IInv, Ring, CleanFrame
<1>2. /\ pc = "clean" /\ pc' = "walk" /\ txring[txring_tl_ptr].used
      /\ ctl' = txring[txring_tl_ptr] /\ txring_queued > 0
      /\ txring_m' = [txring_m EXCEPT ![txring_tl_ptr] = None]
      /\ UNCHANGED <<txring, txring_hd_ptr, txring_tl_ptr, txring_queued, running, txq,
                     cur, go>>
  BY DEF CleanFrame
<1>3. TypeOK'
  <2>1. ctl' \in Desc /\ txring_m' \in [Slot -> Mbuf \cup {None}] /\ live' \subseteq Mbuf
    BY DEF IInv, TypeOK, CleanFrame
  <2> QED BY <2>1 DEF IInv, TypeOK, CleanFrame
<1>4. /\ MacPos(e) \in txring_tl_ptr + 1 .. Top /\ txring_tl_ptr \in Nat
      /\ Used_ = txring_queued /\ Top = txring_tl_ptr + txring_queued
  <2>1. /\ Used_ = txring_queued /\ Top = txring_tl_ptr + txring_queued
        /\ txring_tl_ptr \in Nat /\ txring_queued \in Nat
    BY <1>2 DEF IInv, TypeOK, Slot, Used_, Top
  <2>2. MacPos(e) # txring_tl_ptr
    <3> SUFFICES ASSUME MacPos(e) = txring_tl_ptr PROVE FALSE
      OBVIOUS
    <3>1. txring_tl_ptr \in MacPos(e) .. Top - 1 /\ At(e, txring_tl_ptr) = txring_tl_ptr
      BY <1>1, <1>2, <2>1 DEF Window, At
    <3> QED BY <3>1, <1>1, <1>2 DEF Pending
  <2>3. MacPos(e) \in txring_tl_ptr .. Top
    BY <1>1, <2>1 DEF Window, Pending, MacPos, MacSlot, Virt, IInv, TypeOK, Slot
  <2> QED BY <2>1, <2>2, <2>3
<1>5. \A v \in MacPos(e) .. Top - 1 :
         At(e, v) # txring_tl_ptr /\ txring_m'[At(e, v)] = txring_m[At(e, v)]
  BY <1>1, <1>2, <1>4 DEF Window, At, Head_, IInv, TypeOK, Slot
<1>6. Window(e)' /\ Walking(e)'
  BY <1>1, <1>2, <1>4 DEF Window, Walking, Head_, Used_, Top, MacPos, MacSlot, Virt
<1>7. Bits(e)'
  BY <1>1, <1>2 DEF Bits, Virt, Filled, Used_, Top
<1>8. Pending(e)'
  BY <1>1, <1>2, <1>5 DEF Pending, Used_, Top, MacPos, MacSlot, Virt
<1>9. Reading(e)'
  <2> SUFFICES ASSUME cur # Idle PROVE Reading(e)'
    BY <1>2 DEF Reading
  <2>1. txq = At(e, MacPos(e)) /\ MacPos(e) \in MacPos(e) .. Top - 1
    BY <1>1, <1>4 DEF Reading, Pending, At, MacPos, MacSlot, Virt, IInv, TypeOK, Slot
  <2>2. txring_m'[txq] = txring_m[txq]
    BY <2>1, <1>5
  <2> QED BY <2>2, <1>1, <1>2 DEF Reading, Used_, Top, MacPos, MacSlot, Virt
<1> QED BY <1>1, <1>2, <1>3, <1>6, <1>7, <1>8, <1>9 DEF IInv, Filling, Ring, Slot

LEMMA CleanSkipStep == IInv /\ CleanSkip => IInv'
<1> SUFFICES ASSUME IInv, CleanSkip PROVE IInv'
  OBVIOUS
<1> USE ConfigAssumption DEF stackVars, flagVars, ringVars, lockVars, macVars
<1>1. PICK e \in Slot : Window(e) /\ Bits(e) /\ Pending(e) /\ Reading(e) /\ Walking(e)
  BY DEF IInv, Ring, CleanSkip
<1> DEFINE t == txring_tl_ptr
<1>2. /\ pc = "walk" /\ ~ctl.last /\ pc' = pc /\ t \in Nat /\ t \in Slot
      /\ UNCHANGED <<txring_m, txring_hd_ptr, running, txq, cur, go>>
      /\ Used_ = txring_queued /\ Top = t + txring_queued /\ txring_queued \in Nat
  BY DEF CleanSkip, IInv, TypeOK, Slot, Used_, Top
<1>3. /\ MacPos(e) \in t + 1 .. Top /\ txring[t].used /\ ~txring[t].last
      /\ ctl.wrap = txring[t].wrap
  BY <1>1, <1>2 DEF Window, Walking, Pending, MacPos, MacSlot, Virt, IInv, TypeOK, Slot
<1>4. t < e /\ t \in t .. Top - 1 /\ At(e, t) = t
  <2>1. Head_ < t => t # e
    BY <1>1, <1>3 DEF Window
  <2> QED BY <1>1, <1>2, <1>3, <2>1 DEF Window, At, Head_, IInv, TypeOK, Slot
<1>5. ~ctl.wrap /\ MacPos(e) > t + 1
  <2>1. ~ctl.wrap
    <3>1. txring[At(e, t)].wrap = (t = e)
      BY <1>1, <1>4 DEF Bits
    <3>2. t # e
      BY <1>2, <1>4 DEF Slot
    <3> QED BY <3>1, <3>2, <1>3, <1>4
  <2>2. MacPos(e) # t + 1
    <3> SUFFICES ASSUME MacPos(e) = t + 1 PROVE FALSE
      OBVIOUS
    <3>1. MacPos(e) - 1 = t /\ MacPos(e) > t
      BY <1>2
    <3> QED BY <3>1, <1>1, <1>3, <1>4 DEF Pending
  <2> QED BY <2>1, <2>2, <1>2, <1>3
<1>6. /\ txring_tl_ptr' = t + 1 /\ t + 1 \in Slot /\ ctl' = txring[t + 1]
      /\ txring' = [txring EXCEPT ![t + 1] = MarkUsed(txring[t + 1])]
      /\ txring_queued' = txring_queued - 1 /\ txring_queued - 1 \in Nat
      /\ Used_' = Used_ - 1 /\ Top' = Top
  BY <1>2, <1>3, <1>4, <1>5 DEF CleanSkip, Follow, Used_, Top, IInv, TypeOK, Slot
<1>7. TypeOK'
  <2>1. txring[t + 1] \in Desc /\ MarkUsed(txring[t + 1]) \in Desc
    BY <1>6 DEF IInv, TypeOK, MarkUsed, Desc
  <2>2. txring' \in [Slot -> Desc] /\ ctl' \in Desc
    BY <1>6, <2>1 DEF IInv, TypeOK
  <2>3. txring_queued' \in 0 .. NumDesc - MaxSegs - 1 /\ txring_tl_ptr' \in Slot
    BY <1>6 DEF IInv, TypeOK
  <2> QED BY <2>2, <2>3 DEF IInv, TypeOK, CleanSkip
<1>8. \A s \in Slot :
         /\ txring'[s].last = txring[s].last /\ txring'[s].wrap = txring[s].wrap
         /\ s # t + 1 => txring'[s] = txring[s]
         /\ ~txring'[s].used => ~txring[s].used /\ s # t + 1
  BY <1>6 DEF IInv, TypeOK, MarkUsed, Desc
<1>9. \A v \in t .. Top - 1 : At(e, v) \in Slot /\ (At(e, v) = t + 1 => v = t + 1)
  BY <1>1, <1>2, <1>3 DEF Window, At, Head_, IInv, TypeOK, Slot
<1>91. ASSUME NEW v \in t .. Top - 1
       PROVE  /\ txring'[At(e, v)].last = txring[At(e, v)].last
              /\ txring'[At(e, v)].wrap = txring[At(e, v)].wrap
              /\ v # t + 1 => txring'[At(e, v)] = txring[At(e, v)]
  <2>1. At(e, v) \in Slot /\ (v # t + 1 => At(e, v) # t + 1)
    BY <1>9
  <2> QED BY <2>1, <1>8
<1>10. MacSlot # t /\ MacPos(e)' = MacPos(e) /\ MacSlot' = MacSlot
  BY <1>1, <1>2, <1>3, <1>5, <1>6 DEF MacPos, MacSlot, Virt, IInv, TypeOK, Slot
<1>11. Window(e)'
  <2>1. /\ Head_' = Head_ /\ Head_ = txring_hd_ptr /\ txring_hd_ptr \in Nat
        /\ txring'[e].last = txring[e].last
    BY <1>2, <1>8 DEF Head_, IInv, TypeOK
  <2>2. t <= Head_ <=> t + 1 <= Head_
    BY <2>1, <1>1, <1>2, <1>3, <1>5 DEF Window, Slot
  <2> QED BY <2>1, <2>2, <1>1, <1>2, <1>4, <1>6 DEF Window, Slot
<1>12. Bits(e)'
  <2>1. \A v \in t + 1 .. Top - 1 : txring'[At(e, v)].wrap = (v = e)
    <3> SUFFICES ASSUME NEW v \in t + 1 .. Top - 1 PROVE txring'[At(e, v)].wrap = (v = e)
      OBVIOUS
    <3>1. v \in t .. Top - 1
      BY <1>2
    <3> QED BY <3>1, <1>1, <1>91 DEF Bits
  <2>2. txring'[At(e, Top - 1)].last
    <3>1. Top - 1 \in t .. Top - 1 /\ Used_ > 0
      BY <1>2, <1>3
    <3> QED BY <3>1, <1>1, <1>91 DEF Bits
  <2>3. ASSUME NEW s \in Slot, ~txring'[s].used PROVE s <= e /\ Virt(e, s)' < Top
    <3>1. ~txring[s].used
      BY <2>3, <1>8
    <3>11. s # t
      BY <3>1, <1>3
    <3>2. s <= e /\ Virt(e, s) < Top
      BY <3>1, <1>1, <1>2 DEF Bits, Filled
    <3> QED BY <3>11, <3>2, <1>2, <1>6 DEF Virt, Slot
  <2> QED BY <2>1, <2>2, <2>3, <1>6 DEF Bits
<1>13. Pending(e)'
  <2>1. ASSUME NEW v \in MacPos(e) - 1 .. Top - 1
        PROVE  /\ v \in t .. Top - 1
               /\ v # t + 1 \/ v = MacPos(e) - 1
               /\ txring'[At(e, v)].last = txring[At(e, v)].last
               /\ v # t + 1 => txring'[At(e, v)] = txring[At(e, v)]
    <3>1. v \in t .. Top - 1
      BY <1>2, <1>3, <1>5
    <3> QED BY <3>1, <1>2, <1>3, <1>5, <1>91
  <2>2. txring'[At(e, MacPos(e) - 1)].last
    <3>1. MacPos(e) - 1 \in MacPos(e) - 1 .. Top - 1 /\ MacPos(e) > t
      BY <1>2, <1>3
    <3> QED BY <2>1, <3>1, <1>1 DEF Pending
  <2>3. ASSUME NEW v \in MacPos(e) .. Top - 1
        PROVE  /\ ~txring'[At(e, v)].used
               /\ IF v = MacPos(e) \/ txring'[At(e, v - 1)].last
                  THEN txring_m[At(e, v)] = txring'[At(e, v)].buf
                  ELSE txring'[At(e, v)].buf = txring'[At(e, v - 1)].buf
    <3>1. /\ v \in MacPos(e) - 1 .. Top - 1 /\ v # t + 1
          /\ v - 1 \in MacPos(e) - 1 .. Top - 1
          /\ v # MacPos(e) => v - 1 # t + 1
      BY <1>2, <1>3, <1>5
    <3> QED BY <2>1, <3>1, <1>1 DEF Pending
  <2>4. MacSlot <= e /\ MacPos(e) <= Top
    BY <1>1 DEF Pending
  <2> QED BY <2>2, <2>3, <2>4, <1>2, <1>6, <1>10 DEF Pending
<1>14. Reading(e)'
  <2> SUFFICES ASSUME cur # Idle PROVE Reading(e)'
    BY <1>2 DEF Reading
  <2>1. /\ Virt(e, cur) \in MacPos(e) .. Top - 1 /\ cur \in Slot /\ cur # t /\ cur # t + 1
        /\ Virt(e, cur)' = Virt(e, cur)
    <3>1. cur \in Slot /\ cur <= e /\ Virt(e, cur) \in MacPos(e) .. Top - 1
      BY <1>1 DEF Reading, IInv, TypeOK
    <3>2. Virt(e, cur) > t + 1
      BY <3>1, <1>2, <1>3, <1>5
    <3>3. cur # t /\ cur # t + 1
      BY <3>1, <3>2, <1>2 DEF Virt, Slot
    <3> QED BY <3>1, <3>3, <1>2, <1>6 DEF Virt, Slot
  <2>2. \A v \in MacPos(e) .. Virt(e, cur) - 1 :
           v \in t .. Top - 1 /\ ~txring'[At(e, v)].last
    <3> SUFFICES ASSUME NEW v \in MacPos(e) .. Virt(e, cur) - 1
                 PROVE v \in t .. Top - 1 /\ ~txring'[At(e, v)].last
      OBVIOUS
    <3>1. v \in t .. Top - 1
      BY <2>1, <1>2, <1>3
    <3> QED BY <3>1, <1>1, <1>91 DEF Reading
  <2> QED BY <2>1, <2>2, <1>1, <1>2, <1>6, <1>8, <1>10 DEF Reading
<1>15. Walking(e)'
  BY <1>2, <1>3, <1>5, <1>6, <1>8, <1>10 DEF Walking, MarkUsed, IInv, TypeOK, Desc
<1>16. ~running => FALSE
  BY <1>1, <1>2, <1>3, <1>5 DEF IInv, MacPos, MacSlot, Virt
<1> QED BY <1>2, <1>7, <1>11, <1>12, <1>13, <1>14, <1>15, <1>16
        DEF IInv, Filling, Ring, Slot

(* Past the end of a frame: the tail moves on within the lap, or to slot 0 *)
(* when the frame ended the lap, and the ring unrolls anew from there.     *)
LEMMA CleanNextStep == IInv /\ CleanNext => IInv'
<1> SUFFICES ASSUME IInv, CleanNext PROVE IInv'
  OBVIOUS
<1> USE ConfigAssumption DEF stackVars, flagVars, ringVars, lockVars, macVars
<1>1. PICK e \in Slot : Window(e) /\ Bits(e) /\ Pending(e) /\ Reading(e) /\ Walking(e)
  BY DEF IInv, Ring, CleanNext
<1> DEFINE t == txring_tl_ptr
<1>2. /\ pc = "walk" /\ ctl.last /\ pc' = "clean" /\ t \in Nat /\ t \in Slot
      /\ UNCHANGED <<txring, txring_m, txring_hd_ptr, running, txq, cur, go>>
      /\ Used_ = txring_queued /\ Top = t + txring_queued /\ txring_queued \in Nat
      /\ Head_ = txring_hd_ptr /\ Head_ \in Nat /\ Head_ <= NumDesc - MaxSegs - 1
      /\ Head_' = Head_
  BY DEF CleanNext, IInv, TypeOK, Slot, Used_, Top, Head_
<1>3. /\ MacPos(e) \in t + 1 .. Top /\ txring[t].used /\ txring[t].last
      /\ ctl.wrap = txring[t].wrap
  <2>1. MacPos(e) > t /\ txring[t].used /\ ctl.last = txring[t].last /\ ctl.wrap = txring[t].wrap
    BY <1>1, <1>2 DEF Walking
  <2>2. MacPos(e) \in Int /\ MacPos(e) <= Top
    BY <1>1, <1>2 DEF Pending, MacPos, MacSlot, Virt, IInv, TypeOK, Slot
  <2> QED BY <2>1, <2>2, <1>2
<1>4. ctl.wrap = (t = e)
  <2>1. t \in t .. Top - 1 /\ At(e, t) = t
    BY <1>1, <1>2, <1>3 DEF Window, At
  <2>2. txring[At(e, t)].wrap = (t = e)
    BY <2>1, <1>1 DEF Bits
  <2> QED BY <2>1, <2>2, <1>3
<1>5. running
  BY <1>1, <1>2, <1>3 DEF IInv, MacPos, MacSlot, Virt
<1>6. /\ txring_tl_ptr' = (IF t = e THEN 0 ELSE t + 1)
      /\ txring_queued' = txring_queued - 1 /\ txring_queued - 1 \in Nat
  <2>1. txring_tl_ptr' = (IF t = e THEN 0 ELSE t + 1)
    BY <1>4 DEF CleanNext, Follow
  <2>2. txring_queued' = txring_queued - 1
    BY DEF CleanNext
  <2>3. txring_queued - 1 \in Nat
    BY <1>2, <1>3
  <2> QED BY <2>1, <2>2, <2>3
<1>7. t = e => Head_ < t /\ Head_ = Top - e - 1
  BY <1>1, <1>2, <1>3 DEF Window, Slot
<1>8. TypeOK'
  <2>1. txring_queued' \in 0 .. NumDesc - MaxSegs - 1
    BY <1>6 DEF IInv, TypeOK
  <2>2. txring_tl_ptr' \in Slot
    BY <1>1, <1>2, <1>6 DEF Window, Slot
  <2>3. ctl' \in Desc
    BY DEF CleanNext, FreshDesc, Desc
  <2> QED BY <2>1, <2>2, <2>3 DEF IInv, TypeOK, CleanNext
<1>9. Ring'
  <2>1. CASE t # e
    <3>1. /\ txring_tl_ptr' = t + 1 /\ Used_' = Used_ - 1 /\ Top' = Top /\ t < e
      BY <2>1, <1>1, <1>2, <1>6 DEF Used_, Top, Window, Slot
    <3>2. MacSlot # t /\ MacPos(e)' = MacPos(e) /\ MacSlot' = MacSlot
      BY <3>1, <1>1, <1>2, <1>3, <1>5 DEF MacPos, MacSlot, Virt, IInv, TypeOK, Slot
    <3>3. Window(e)'
      BY <3>1, <1>1, <1>2, <1>3 DEF Window, Slot
    <3>4. Bits(e)'
      <4>1. \A v \in t + 1 .. Top - 1 : txring[At(e, v)].wrap = (v = e)
        <5>1. \A v \in t + 1 .. Top - 1 : v \in t .. Top - 1
          BY <1>2
        <5> QED BY <5>1, <1>1 DEF Bits
      <4>2. txring[At(e, Top - 1)].last
        BY <1>1, <1>2, <1>3 DEF Bits
      <4>3. ASSUME NEW s \in Slot, ~txring[s].used PROVE s <= e /\ Virt(e, s)' < Top
        <5>1. s # t
          BY <4>3, <1>3
        <5>2. s <= e /\ Virt(e, s) < Top
          BY <4>3, <1>1, <1>2 DEF Bits, Filled
        <5> QED BY <5>1, <5>2, <3>1, <1>2 DEF Virt, Slot
      <4> QED BY <4>1, <4>2, <4>3, <3>1, <1>2 DEF Bits
    <3>5. Pending(e)'
      <4>1. txring[At(e, MacPos(e) - 1)].last
        BY <1>1, <1>2, <1>3 DEF Pending
      <4> QED BY <4>1, <3>1, <3>2, <1>1, <1>2 DEF Pending
    <3>6. Reading(e)'
      <4> SUFFICES ASSUME cur # Idle PROVE Reading(e)'
        BY <1>2 DEF Reading
      <4>1. cur \in Slot /\ cur <= e /\ Virt(e, cur) \in MacPos(e) .. Top - 1
        BY <1>1 DEF Reading, IInv, TypeOK
      <4>2. Virt(e, cur)' = Virt(e, cur)
        BY <4>1, <3>1, <1>2, <1>3 DEF Virt, Slot
      <4> QED BY <4>2, <3>1, <3>2, <1>1, <1>2 DEF Reading
    <3> QED BY <3>3, <3>4, <3>5, <3>6, <1>2 DEF Ring, Walking, Slot
  <2>2. CASE t = e
    <3> DEFINE f == NumDesc - 1
    <3>1. /\ txring_tl_ptr' = 0 /\ Used_' = Used_ - 1 /\ Top' = Top - e - 1
          /\ Top' = Head_ /\ Used_' = Head_ /\ e \in Nat /\ f \in Slot
      BY <2>2, <1>2, <1>6, <1>7 DEF Used_, Top, Slot
    <3>2. /\ MacSlot = MacPos(e) - e - 1 /\ MacPos(f)' = MacPos(e) - e - 1
          /\ MacSlot' = MacSlot /\ MacSlot \in 0 .. Head_
      BY <2>2, <3>1, <1>1, <1>2, <1>3, <1>5, <1>7
         DEF MacPos, MacSlot, Virt, Pending, IInv, TypeOK, Slot
    <3>3. \A v \in 0 .. Head_ - 1 :
             At(f, v) = v /\ At(e, v + e + 1) = v /\ v + e + 1 \in t .. Top - 1
      BY <2>2, <3>1, <1>2, <1>7 DEF At, Slot
    <3>4. Window(f)'
      BY <3>1, <1>2 DEF Window
    <3>5. Bits(f)'
      <4>1. ASSUME NEW v \in 0 .. Head_ - 1 PROVE txring[At(f, v)].wrap = (v = f)
        <5>1. txring[v].wrap = (v + e + 1 = e)
          BY <3>3, <1>1 DEF Bits
        <5>2. v + e + 1 # e /\ v # f
          BY <3>1, <1>2
        <5> QED BY <5>1, <5>2, <3>3
      <4>2. Head_ > 0 => txring[At(f, Head_ - 1)].last
        <5> SUFFICES ASSUME Head_ > 0 PROVE txring[At(f, Head_ - 1)].last
          OBVIOUS
        <5>1. /\ Head_ - 1 \in 0 .. Head_ - 1 /\ (Head_ - 1) + e + 1 = Top - 1 /\ Used_ > 0
          BY <3>1, <1>2, <1>7, <2>2
        <5>2. At(f, Head_ - 1) = Head_ - 1 /\ At(e, Top - 1) = Head_ - 1
          BY <5>1, <3>3
        <5> QED BY <5>1, <5>2, <1>1 DEF Bits
      <4>3. ASSUME NEW s \in Slot, ~txring[s].used PROVE s <= f /\ Virt(f, s)' < Head_
        <5>1. s # t
          BY <4>3, <1>3
        <5>2. s <= e /\ Virt(e, s) < Top
          BY <4>3, <1>1, <1>2 DEF Bits, Filled
        <5> QED BY <5>1, <5>2, <2>2, <3>1, <1>2, <1>7 DEF Virt, Slot
      <4> QED BY <4>1, <4>2, <4>3, <3>1, <1>2 DEF Bits
    <3>6. Pending(f)'
      <4>1. MacSlot > 0 => txring[At(f, MacSlot - 1)].last
        <5> SUFFICES ASSUME MacSlot > 0 PROVE txring[At(f, MacSlot - 1)].last
          OBVIOUS
        <5>1. /\ MacSlot - 1 \in 0 .. Head_ - 1 /\ (MacSlot - 1) + e + 1 = MacPos(e) - 1
              /\ MacPos(e) > t
          BY <3>1, <3>2, <1>2, <1>3
        <5>2. At(f, MacSlot - 1) = MacSlot - 1 /\ At(e, MacPos(e) - 1) = MacSlot - 1
          BY <5>1, <3>3
        <5> QED BY <5>1, <5>2, <1>1 DEF Pending
      <4>2. ASSUME NEW v \in MacSlot .. Head_ - 1
            PROVE  /\ ~txring[At(f, v)].used
                   /\ IF v = MacSlot \/ txring[At(f, v - 1)].last
                      THEN txring_m[At(f, v)] = txring[At(f, v)].buf
                      ELSE txring[At(f, v)].buf = txring[At(f, v - 1)].buf
        <5>1. /\ v \in 0 .. Head_ - 1 /\ v + e + 1 \in MacPos(e) .. Top - 1
              /\ v + e + 1 = MacPos(e) <=> v = MacSlot
              /\ v # MacSlot => v - 1 \in 0 .. Head_ - 1 /\ (v - 1) + e + 1 = (v + e + 1) - 1
          BY <3>1, <3>2, <1>2, <1>3
        <5>2. At(f, v) = v /\ At(e, v + e + 1) = v
          BY <5>1, <3>3
        <5>3. v # MacSlot => At(f, v - 1) = v - 1 /\ At(e, (v + e + 1) - 1) = v - 1
          BY <5>1, <3>3
        <5> QED BY <5>1, <5>2, <5>3, <1>1 DEF Pending
      <4>3. MacSlot <= f /\ MacSlot <= Head_ /\ MacPos(f)' = MacSlot
        BY <3>2, <1>2
      <4> QED BY <4>1, <4>2, <4>3, <3>1, <3>2, <1>2 DEF Pending
    <3>7. Reading(f)'
      <4> SUFFICES ASSUME cur # Idle PROVE Reading(f)'
        BY <1>2 DEF Reading
      <4>1. cur \in Slot /\ cur <= e /\ Virt(e, cur) \in MacPos(e) .. Top - 1
        BY <1>1 DEF Reading, IInv, TypeOK
      <4>2. /\ Virt(e, cur) = cur + e + 1 /\ Virt(f, cur)' = cur
            /\ cur \in MacSlot .. Head_ - 1
        BY <4>1, <2>2, <3>1, <3>2, <1>2, <1>3 DEF Virt, Slot
      <4>3. ASSUME NEW v \in MacSlot .. cur - 1 PROVE ~txring[At(f, v)].last
        <5>1. v \in 0 .. Head_ - 1 /\ v + e + 1 \in MacPos(e) .. Virt(e, cur) - 1
          BY <4>2, <3>1, <3>2, <1>2, <1>3
        <5>2. At(f, v) = v /\ At(e, v + e + 1) = v
          BY <5>1, <3>3
        <5> QED BY <5>1, <5>2, <1>1 DEF Reading
      <4>4. cur <= f /\ MacPos(f)' = MacSlot
        BY <4>1, <3>2 DEF Slot
      <4> QED BY <4>2, <4>3, <4>4, <3>1, <1>1, <1>2 DEF Reading
    <3> QED BY <3>1, <3>4, <3>5, <3>6, <3>7, <1>2 DEF Ring, Walking, Slot
  <2> QED BY <2>1, <2>2
<1> QED BY <1>2, <1>5, <1>8, <1>9 DEF IInv, Filling

-----------------------------------------------------------------------------
(* The MAC.                                                                *)
LEMMA MacFetchStep == IInv /\ MacFetch => IInv'
<1> SUFFICES ASSUME IInv, MacFetch PROVE IInv'
  OBVIOUS
<1> USE ConfigAssumption DEF stackVars, flagVars, ringVars, lockVars, macVars
<1>1. running /\ pc # "stop"
  BY DEF IInv, MacFetch
<1>2. PICK e \in Slot : Window(e) /\ Bits(e) /\ Pending(e) /\ Reading(e) /\ Walking(e)
  BY <1>1 DEF IInv, Ring
<1>3. TypeOK'
  BY DEF IInv, TypeOK, MacFetch
<1>4. MacPos(e) \in txring_tl_ptr .. Top - 1 /\ MacPos(e) = Virt(e, txq) /\ txq = At(e, MacPos(e))
  <2>1. ~Filled(txq)
    <3> SUFFICES ASSUME Filled(txq) PROVE FALSE
      OBVIOUS
    <3>1. PICK k \in 0 .. nsegs - 1 : txq = txring_hd_ptr + k /\ k > 0
      <4>1. txq - txring_hd_ptr \in 0 .. nsegs - 1 /\ txq - txring_hd_ptr > 0
        BY DEF Filled, IInv, TypeOK, Slot
      <4> QED BY <4>1 DEF IInv, TypeOK, Slot
    <3>2. MacPos(e) = Top => txq = txring_hd_ptr
      BY <1>1, <1>2 DEF Filled, Window, Pending, MacPos, MacSlot, Virt, Head_, Used_, Top,
                        IInv, TypeOK, Slot
    <3>3. MacPos(e) \in txring_tl_ptr .. Top - 1 /\ At(e, MacPos(e)) = txq
      BY <3>1, <3>2, <1>1, <1>2
         DEF Filled, Window, Pending, MacPos, MacSlot, Virt, At, Head_, Used_, Top, IInv,
             TypeOK, Slot
    <3> QED BY <3>1, <3>3, <1>2, HeadRoom DEF Filled, IInv
  <2>2. txq <= e /\ Virt(e, txq) < Top
    BY <2>1, <1>2 DEF MacFetch, Bits, IInv, TypeOK
  <2> QED BY <2>2, <1>1, <1>2 DEF Window, MacPos, MacSlot, Virt, At, Head_, Used_, Top,
                                  IInv, TypeOK, Slot
<1>5. txring_m[txq] = txring[txq].buf
  BY <1>2, <1>4 DEF Pending, IInv, TypeOK, Slot
<1>6. Window(e)' /\ Bits(e)' /\ Pending(e)' /\ Walking(e)'
  BY <1>2 DEF MacFetch, Window, Bits, Pending, Walking, Filled, MacPos, MacSlot, Virt,
              Head_, NextHead, WrapAfter, Used_, Top
<1>7. Reading(e)'
  <2>1. /\ cur' = txq /\ Virt(e, cur)' = MacPos(e) /\ MacPos(e)' = MacPos(e) /\ Top' = Top
        /\ UNCHANGED <<txring, txring_m, txq, running>>
    BY <1>4 DEF MacFetch, Virt, MacPos, MacSlot, Used_, Top
  <2>2. MacPos(e) \in MacPos(e) .. Top - 1 /\ txq <= e
    BY <1>1, <1>2, <1>4 DEF Pending, MacSlot, IInv, TypeOK, Slot
  <2>3. \A v : v \notin MacPos(e) .. MacPos(e) - 1
    BY <1>4 DEF IInv, TypeOK, Slot
  <2> QED BY <2>1, <2>2, <2>3, <1>1, <1>5 DEF Reading
<1> QED BY <1>1, <1>3, <1>6, <1>7 DEF IInv, MacFetch, Filling, WrapAfter, Ring, Slot

LEMMA MacNextStep == IInv /\ MacNext => IInv'
<1> SUFFICES ASSUME IInv, MacNext PROVE IInv'
  OBVIOUS
<1> USE ConfigAssumption DEF stackVars, flagVars, ringVars, lockVars, macVars
<1>1. running /\ pc # "stop" /\ cur \in Slot /\ cur # Idle /\ ~txring[cur].last
  BY DEF IInv, TypeOK, MacNext
<1>2. PICK e \in Slot : Window(e) /\ Bits(e) /\ Pending(e) /\ Reading(e) /\ Walking(e)
  BY <1>1 DEF IInv, Ring
<1> DEFINE c == Virt(e, cur)
<1>3. /\ c \in MacPos(e) .. Top - 1 /\ cur <= e /\ At(e, c) = cur
      /\ c \in txring_tl_ptr .. Top - 1 /\ MacPos(e) \in txring_tl_ptr .. Top
      /\ Top \in Nat /\ txring_tl_ptr \in Nat /\ Used_ \in Nat
  <2>1. Top \in Nat /\ txring_tl_ptr \in Nat /\ Used_ \in Nat
    BY DEF Top, Used_, IInv, TypeOK, Slot
  <2>2. c \in MacPos(e) .. Top - 1 /\ cur <= e
    BY <1>1, <1>2 DEF Reading
  <2>3. MacPos(e) \in txring_tl_ptr .. Top
    <3>1. MacPos(e) <= Top
      BY <1>2 DEF Pending
    <3>2. MacPos(e) \in Int /\ MacPos(e) >= txring_tl_ptr
      BY <1>1, <1>2, <2>1 DEF Window, MacPos, MacSlot, Virt, IInv, TypeOK, Slot
    <3> QED BY <3>1, <3>2, <2>1
  <2>4. At(e, c) = cur
    BY <1>1, <2>2 DEF At, Virt, IInv, TypeOK, Slot
  <2> QED BY <2>1, <2>2, <2>3, <2>4
<1>31. Head_ \in 0 .. NumDesc - MaxSegs - 1
  <2>1. CASE pc = "kick"
    BY <2>1 DEF Head_, NextHead, WrapAfter, Filling, IInv, TypeOK
  <2>2. CASE pc # "kick"
    BY <2>2 DEF Head_, IInv, TypeOK
  <2> QED BY <2>1, <2>2
<1>4. c # Top - 1
  BY <1>1, <1>2, <1>3 DEF Bits, Top
<1>5. c # e
  <2> SUFFICES ASSUME c = e PROVE FALSE
    OBVIOUS
  <2>1. cur = e
    BY <1>1, <1>3 DEF Virt, Slot
  <2>2. Head_ < txring_tl_ptr
    BY <1>2, <1>3, <1>31 DEF Window, Slot
  <2> QED BY <2>1, <2>2, <1>1, <1>2 DEF Window
<1>6. ~txring[cur].wrap
  <2>1. txring[At(e, c)].wrap = (c = e)
    BY <1>2, <1>3 DEF Bits
  <2> QED BY <2>1, <1>3, <1>5
<1>7. /\ cur' = cur + 1 /\ cur + 1 \in Slot /\ cur + 1 <= e
      /\ Virt(e, cur + 1) = c + 1 /\ At(e, c + 1) = cur + 1
      /\ c + 1 \in MacPos(e) .. Top - 1
  <2>1. cur' = cur + 1
    BY <1>6 DEF MacNext, Follow
  <2>2. c + 1 \in MacPos(e) .. Top - 1
    BY <1>3, <1>4
  <2>3. cur < txring_tl_ptr => cur + 1 < txring_tl_ptr
    BY <2>2, <1>1, <1>2, <1>3, <1>31 DEF Window, Virt, Slot
  <2>4. cur + 1 <= e
    <3>1. cur # e
      BY <1>1, <1>2, <1>3, <1>5, <2>3 DEF Window, Virt, Slot
    <3> QED BY <3>1, <1>1, <1>3 DEF Slot
  <2>5. Virt(e, cur + 1) = c + 1 /\ At(e, c + 1) = cur + 1
    BY <2>3, <2>4, <1>1, <1>3 DEF Virt, At, Slot
  <2> QED BY <2>1, <2>2, <2>4, <2>5, <1>1 DEF Slot
<1>8. TypeOK'
  BY <1>7 DEF IInv, TypeOK, MacNext
<1>9. txring[cur + 1].buf = txring[cur].buf
  <2>1. c + 1 # MacPos(e) /\ (c + 1) - 1 = c
    BY <1>3
  <2> QED BY <2>1, <1>1, <1>2, <1>3, <1>7 DEF Pending
<1>10. Window(e)' /\ Bits(e)' /\ Pending(e)' /\ Walking(e)'
  BY <1>2 DEF MacNext, Window, Bits, Pending, Walking, Filled, MacPos, MacSlot, Virt,
              Head_, NextHead, WrapAfter, Used_, Top
<1>11. Reading(e)'
  <2>1. /\ Virt(e, cur)' = c + 1 /\ MacPos(e)' = MacPos(e) /\ Top' = Top
        /\ UNCHANGED <<txring, txring_m, txq, running>>
    BY <1>7 DEF MacNext, Virt, MacPos, MacSlot, Used_, Top
  <2>2. ASSUME NEW v \in MacPos(e) .. c PROVE ~txring[At(e, v)].last
    <3>1. v = c \/ v \in MacPos(e) .. c - 1
      BY <1>3
    <3> QED BY <3>1, <1>1, <1>2, <1>3 DEF Reading
  <2>3. (c + 1) - 1 = c
    BY <1>3
  <2> QED BY <2>1, <2>2, <2>3, <1>1, <1>2, <1>7, <1>9 DEF Reading
<1> QED BY <1>1, <1>8, <1>10, <1>11 DEF IInv, MacNext, Filling, WrapAfter, Ring, Slot

(* The MAC hands a frame back: its position moves to the next frame, or to *)
(* the head.                                                               *)
LEMMA MacDoneStep == IInv /\ MacDone => IInv'
<1> SUFFICES ASSUME IInv, MacDone PROVE IInv'
  OBVIOUS
<1> USE ConfigAssumption DEF stackVars, flagVars, ringVars, lockVars, macVars
<1>1. /\ running /\ pc # "stop" /\ cur \in Slot /\ cur # Idle /\ txring[cur].last
      /\ txq \in Slot /\ MacSlot = txq
  BY DEF IInv, TypeOK, MacDone, MacSlot
<1>2. PICK e \in Slot : Window(e) /\ Bits(e) /\ Pending(e) /\ Reading(e) /\ Walking(e)
  BY <1>1 DEF IInv, Ring
<1> DEFINE c == Virt(e, cur)
           q == MacPos(e)
           t == txring_tl_ptr
<1>3. /\ c \in q .. Top - 1 /\ cur <= e /\ At(e, c) = cur /\ At(e, q) = txq
      /\ c \in t .. Top - 1 /\ q \in t .. Top - 1 /\ txq <= e
      /\ Top \in Nat /\ t \in Nat /\ Used_ \in Nat
  <2>1. Top \in Nat /\ t \in Nat /\ Used_ \in Nat
    BY DEF Top, Used_, IInv, TypeOK, Slot
  <2>2. c \in q .. Top - 1 /\ cur <= e /\ txq <= e
    BY <1>1, <1>2 DEF Reading, Pending
  <2>3. q \in Int /\ q >= t
    BY <1>1, <1>2, <2>1 DEF Window, MacPos, MacSlot, Virt, IInv, TypeOK, Slot
  <2>4. At(e, c) = cur
    BY <1>1, <2>2 DEF At, Virt, IInv, TypeOK, Slot
  <2>5. At(e, q) = txq
    BY <1>1, <2>2 DEF At, Virt, MacPos, IInv, TypeOK, Slot
  <2> QED BY <2>1, <2>2, <2>3, <2>4, <2>5
<1>4. Head_ \in 0 .. NumDesc - MaxSegs - 1
  <2>1. CASE pc = "kick"
    BY <2>1 DEF Head_, NextHead, WrapAfter, Filling, IInv, TypeOK
  <2>2. CASE pc # "kick"
    BY <2>2 DEF Head_, IInv, TypeOK
  <2> QED BY <2>1, <2>2
<1>5. txring[cur].wrap = (c = e)
  BY <1>2, <1>3 DEF Bits
<1>6. /\ txring' = [txring EXCEPT ![txq] = [txring[txq] EXCEPT !.used = TRUE, !.buf = None]]
      /\ cur' = Idle
      /\ UNCHANGED <<txring_m, txring_hd_ptr, t, txring_queued, running, pc, ctl, i, nsegs, m>>
      /\ txring[txq] \in Desc
  BY <1>1 DEF MacDone, IInv, TypeOK
<1>7. txq' \in Slot /\ txq' <= e /\ Virt(e, txq') = c + 1
  <2>1. txq' = IF c = e THEN 0 ELSE cur + 1
    BY <1>5 DEF MacDone, Follow
  <2>2. CASE c = e
    <3>1. Head_ < t
      BY <2>2, <1>2, <1>3, <1>4 DEF Window, Slot
    <3> QED BY <2>1, <2>2, <3>1, <1>3, <1>4 DEF Virt, Slot
  <2>3. CASE c # e
    <3>1. cur < t => cur + 1 < t
      BY <1>1, <1>2, <1>3, <1>4 DEF Window, Virt, Slot
    <3>2. cur # e
      BY <2>3, <3>1, <1>1, <1>2, <1>3, <1>4 DEF Window, Virt, Slot
    <3> QED BY <2>1, <2>3, <3>1, <3>2, <1>1, <1>3 DEF Virt, Slot
  <2> QED BY <2>2, <2>3
<1>8. \A s \in Slot :
         /\ txring'[s].last = txring[s].last /\ txring'[s].wrap = txring[s].wrap
         /\ s # txq => txring'[s] = txring[s]
         /\ ~txring'[s].used => ~txring[s].used
         /\ txring[s].used => txring'[s].used
  BY <1>1, <1>6 DEF IInv, TypeOK, Desc
<1>9. TypeOK'
  <2>1. [txring[txq] EXCEPT !.used = TRUE, !.buf = None] \in Desc
    BY <1>6 DEF Desc
  <2>2. txring' \in [Slot -> Desc]
    BY <1>6, <2>1 DEF IInv, TypeOK
  <2> QED BY <2>2, <1>6, <1>7 DEF IInv, TypeOK, MacDone
<1>10. ASSUME NEW v \in t .. Top - 1
       PROVE  /\ txring'[At(e, v)].last = txring[At(e, v)].last
              /\ txring'[At(e, v)].wrap = txring[At(e, v)].wrap
              /\ v # q => txring'[At(e, v)] = txring[At(e, v)]
  <2>1. At(e, v) \in Slot /\ (v # q => At(e, v) # txq)
    BY <1>1, <1>2, <1>3, <1>4 DEF Window, At, Slot
  <2> QED BY <2>1, <1>8
<1>11. Head_' = Head_ /\ Used_' = Used_ /\ Top' = Top /\ MacSlot' = txq' /\ MacPos(e)' = c + 1
  BY <1>1, <1>6, <1>7 DEF Head_, Used_, Top, NextHead, WrapAfter, MacSlot, MacPos, Virt
<1>12. Filling'
  <2>1. CASE pc = "fill"
    <3>1. \A k \in 0 .. nsegs - 1 : txring_hd_ptr + k # txq
      BY <2>1, <1>2, <1>3, HeadRoom DEF IInv
    <3>2. \A k \in i + 1 .. nsegs - 1 :
             /\ txring_hd_ptr + k \in Slot /\ txring_hd_ptr + k # txq
             /\ txring'[txring_hd_ptr + k] = txring[txring_hd_ptr + k]
      <4> SUFFICES ASSUME NEW k \in i + 1 .. nsegs - 1
                   PROVE  /\ txring_hd_ptr + k \in Slot /\ txring_hd_ptr + k # txq
                          /\ txring'[txring_hd_ptr + k] = txring[txring_hd_ptr + k]
        OBVIOUS
      <4>1. k \in 0 .. nsegs - 1
        BY DEF IInv, TypeOK
      <4>2. txring_hd_ptr + k \in Slot
        BY <4>1 DEF IInv, TypeOK, Slot
      <4> QED BY <4>1, <4>2, <3>1, <1>8
    <3> QED BY <2>1, <3>2, <1>6 DEF IInv, Filling, WrapAfter
  <2>2. CASE pc # "fill"
    BY <2>2, <1>6 DEF IInv, Filling
  <2> QED BY <2>1, <2>2
<1>13. Window(e)'
  <2>1. txring'[e].last = txring[e].last
    BY <1>8
  <2> QED BY <2>1, <1>2, <1>6, <1>11 DEF Window
<1>14. Bits(e)'
  <2>1. \A v \in t .. Top - 1 : txring'[At(e, v)].wrap = (v = e)
    BY <1>2, <1>10 DEF Bits
  <2>2. txring'[At(e, Top - 1)].last
    <3>1. Top - 1 \in t .. Top - 1 /\ Used_ > 0
      BY <1>3 DEF Top
    <3> QED BY <3>1, <1>2, <1>10 DEF Bits
  <2>3. ASSUME NEW s \in Slot, ~txring'[s].used
        PROVE  (s <= e /\ Virt(e, s) < Top) \/ Filled(s)
    BY <2>3, <1>2, <1>8 DEF Bits
  <2>4. \A s : Filled(s)' = Filled(s) /\ Virt(e, s)' = Virt(e, s)
    BY <1>6 DEF Filled, Virt
  <2> QED BY <2>1, <2>2, <2>3, <2>4, <1>6, <1>11 DEF Bits
<1>15. Pending(e)'
  <2>1. txring'[At(e, (c + 1) - 1)].last
    <3>1. (c + 1) - 1 = c
      BY <1>3
    <3> QED BY <3>1, <1>1, <1>3, <1>8
  <2>2. ASSUME NEW v \in c + 1 .. Top - 1
        PROVE  /\ ~txring'[At(e, v)].used
               /\ IF v = c + 1 \/ txring'[At(e, v - 1)].last
                  THEN txring_m[At(e, v)] = txring'[At(e, v)].buf
                  ELSE txring'[At(e, v)].buf = txring'[At(e, v - 1)].buf
    <3>1. /\ v \in t .. Top - 1 /\ v # q /\ v \in q .. Top - 1 /\ v - 1 \in t .. Top - 1
          /\ v = c + 1 <=> v - 1 = c
          /\ v # c + 1 => v - 1 # q
      BY <1>3
    <3>2. /\ ~txring[At(e, v)].used
          /\ IF txring[At(e, v - 1)].last
             THEN txring_m[At(e, v)] = txring[At(e, v)].buf
             ELSE txring[At(e, v)].buf = txring[At(e, v - 1)].buf
      BY <3>1, <1>2 DEF Pending
    <3>3. v - 1 = c => txring[At(e, v - 1)].last
      BY <1>1, <1>3
    <3>4. txring'[At(e, v)] = txring[At(e, v)]
      BY <3>1, <1>10
    <3>5. /\ txring'[At(e, v - 1)].last = txring[At(e, v - 1)].last
          /\ v # c + 1 => txring'[At(e, v - 1)] = txring[At(e, v - 1)]
      BY <3>1, <1>10
    <3> QED BY <3>1, <3>2, <3>3, <3>4, <3>5
  <2>3. c + 1 <= Top
    BY <1>3
  <2> QED BY <2>1, <2>2, <2>3, <1>6, <1>7, <1>11 DEF Pending
<1>16. Walking(e)'
  <2> SUFFICES ASSUME pc = "walk" PROVE Walking(e)'
    BY <1>6 DEF Walking
  <2>1. q > t /\ txring[t].used /\ ctl.last = txring[t].last /\ ctl.wrap = txring[t].wrap
    BY <1>2 DEF Walking
  <2>2. /\ t \in Slot /\ txring'[t].used /\ txring'[t].last = txring[t].last
        /\ txring'[t].wrap = txring[t].wrap
    BY <2>1, <1>8 DEF IInv, TypeOK
  <2>3. c + 1 > t
    BY <1>3
  <2> QED BY <2>1, <2>2, <2>3, <1>6, <1>11 DEF Walking
<1>17. Reading(e)'
  BY <1>6 DEF Reading
<1> QED BY <1>1, <1>6, <1>9, <1>12, <1>13, <1>14, <1>15, <1>16, <1>17
        DEF IInv, MacDone, Ring, Slot

-----------------------------------------------------------------------------
(* IInv is inductive.                                                      *)
LEMMA NextInv == IInv /\ [Next]_vars => IInv'
<1>1. Quiet \/ InitLocked \/ Stop \/ StopClear \/ StartDequeue \/ FillDesc \/ StartKick
         \/ CleanFrame \/ CleanSkip \/ CleanNext \/ MacFetch \/ MacNext \/ MacDone
        <=> [Next]_vars
  BY DEF Quiet, Next, Driver, StartLocked, Clean, Mac
<1> QED BY <1>1, QuietStep, InitLockedStep, StopStep, StopClearStep, StartDequeueStep,
           FillLaterStep, FillFirstStep, StartKickStep, CleanFrameStep, CleanSkipStep,
           CleanNextStep, MacFetchStep, MacNextStep, MacDoneStep

LEMMA Inductive == Spec => []IInv
<1> QED BY InitInv, NextInv, PTL DEF Spec

(* Every variable keeps its type; in particular no frame is ever written   *)
(* past the end of the ring.                                               *)
THEOREM TypeCorrect == Spec => []TypeOK
<1>1. IInv => TypeOK
  BY DEF IInv
<1> QED BY <1>1, Inductive, PTL

(* The MAC never meets a half written or recycled frame.                   *)
THEOREM NeverTorn == Spec => []NoTornFrame
<1>1. IInv => NoTornFrame
  <2> SUFFICES ASSUME IInv, cur # Idle PROVE NoTornFrame
    BY DEF NoTornFrame
  <2>1. running /\ pc # "stop" /\ cur \in Slot
    BY DEF IInv, TypeOK
  <2>2. PICK e \in Slot : Pending(e) /\ Reading(e)
    BY <2>1 DEF IInv, Ring
  <2>3. Virt(e, cur) \in MacPos(e) .. Top - 1 /\ At(e, Virt(e, cur)) = cur
    BY <2>1, <2>2 DEF Reading, At, Virt, IInv, TypeOK, Slot
  <2> QED BY <2>2, <2>3 DEF Pending, Reading, NoTornFrame
<1> QED BY <1>1, Inductive, PTL

(* The descriptor at the head is the driver's.                             *)
LEMMA HeadFree ==
    ASSUME IInv, pc \notin {"kick", "stop"}
    PROVE  txring_hd_ptr \in Slot /\ txring[txring_hd_ptr].used
<1> USE ConfigAssumption
<1>1. PICK e \in Slot : Window(e) /\ Bits(e)
  BY DEF IInv, Ring
<1>2. txring_hd_ptr \in Slot /\ ~Filled(txring_hd_ptr)
  BY DEF Filled, IInv, TypeOK, Slot
<1>3. /\ Head_ = txring_hd_ptr /\ Top = txring_tl_ptr + txring_queued
      /\ txring_tl_ptr \in Nat /\ txring_queued \in Nat
  BY DEF Head_, Used_, Top, IInv, TypeOK, Slot
<1>4. Virt(e, txring_hd_ptr) = Top
  BY <1>1, <1>2, <1>3 DEF Window, Virt, Slot
<1> QED BY <1>1, <1>2, <1>3, <1>4 DEF Bits

(* The descriptor at the head always stops the MAC.                        *)
THEOREM HeadStops == Spec => []HeadStopsMac
<1>1. IInv => HeadStopsMac
  BY HeadFree DEF HeadStopsMac
<1> QED BY <1>1, Inductive, PTL

-----------------------------------------------------------------------------
(* The packets.  The entries of txring_m name the packets of the window by *)
(* the first descriptors of their frames, and no other slot has one: what  *)
(* start_locked overwrites and clean_tx steps over is empty.               *)
Prev(e, s) == IF s = 0 THEN e ELSE s - 1

FirstOnly(e) ==
    \A s \in Slot : txring_m[s] # None =>
        \/ /\ s <= e /\ Virt(e, s) < Top
           /\ IF s = txring_tl_ptr THEN pc # "walk" ELSE txring[Prev(e, s)].last
        \/ pc = "fill" /\ s = txring_hd_ptr

Recorded == \A e \in Slot : Window(e) => FirstOnly(e)

(* A descriptor that may be followed points to a packet.                   *)
Addressed ==
    /\ \A s \in Slot : ~txring[s].used => txring[s].buf \in Mbuf
    /\ pc = "fill" => m \in Mbuf

SendqDistinct == \A j, k \in DOMAIN sendq : sendq[j] = sendq[k] => j = k

Packets == Conservation /\ SendqDistinct /\ Addressed /\ (pc # "stop" => Recorded)

LEMMA LapUnique ==
    ASSUME TypeOK, NEW e \in Slot, NEW f \in Slot, Window(e), Window(f)
    PROVE  e = f
  BY ConfigAssumption DEF TypeOK, Slot, Window, Head_, Used_, Top, NextHead

(* The slots in front of the head have no packet.                          *)
LEMMA HeadEmpty ==
    ASSUME TypeOK, Filling, Recorded, Ring, pc \in {"start", "space", "fill"},
           NEW k \in 0 .. MaxSegs - 1, pc = "fill" => k \in 1 .. nsegs - 1
    PROVE  txring_hd_ptr + k \in Slot /\ (NoSpace \/ txring_m[txring_hd_ptr + k] = None)
<1> USE ConfigAssumption
<1>1. PICK e \in Slot : Window(e)
  BY DEF Ring
<1>2. FirstOnly(e)
  BY <1>1 DEF Recorded
<1>3. txring_hd_ptr + k \in Slot
  BY DEF TypeOK, Slot
<1>4. ASSUME ~NoSpace, txring_m[txring_hd_ptr + k] # None PROVE FALSE
  <2>1. txring_hd_ptr + k <= e /\ Virt(e, txring_hd_ptr + k) < Top
    BY <1>2, <1>3, <1>4 DEF FirstOnly, TypeOK
  <2> QED
    BY <1>1, <1>4, <2>1 DEF TypeOK, Slot, Window, Virt, Head_, Used_, Top, NoSpace
<1> QED
  BY <1>3, <1>4

(* Steps that leave the bits and the packets of the ring alone.            *)
LEMMA RecordedFrame ==
    ASSUME IInv, Recorded,
           UNCHANGED <<txring_m, txring_hd_ptr, txring_tl_ptr, txring_queued, nsegs>>,
           \A s \in Slot : txring'[s].last = txring[s].last,
           \/ pc' = pc
           \/ pc \notin {"fill", "kick"} /\ pc' \notin {"fill", "kick", "walk"}
           \/ pc = "kick" /\ pc' = "kick"
    PROVE  Recorded'
<1> SUFFICES ASSUME NEW e \in Slot, Window(e)' PROVE FirstOnly(e)'
  BY DEF Recorded, Slot
<1>1. UNCHANGED <<Head_, Used_, Top>>
  BY DEF Head_, Used_, Top, NextHead, WrapAfter
<1>2. Window(e) /\ FirstOnly(e)
  BY <1>1 DEF Recorded, Window
<1>3. \A s \in Slot : Prev(e, s) \in Slot /\ Virt(e, s)' = Virt(e, s)
  BY ConfigAssumption DEF Prev, Slot, Virt
<1> QED
  BY <1>1, <1>2, <1>3 DEF FirstOnly, Prev

LEMMA DequeueRecords ==
    ASSUME IInv, Recorded, StartDequeue PROVE Recorded'
<1> SUFFICES ASSUME NEW e \in Slot, Window(e)' PROVE FirstOnly(e)'
  BY DEF Recorded, Slot
<1>1. UNCHANGED <<Head_, Used_, Top>>
  BY DEF StartDequeue, Head_, Used_, Top
<1>2. Window(e) /\ FirstOnly(e)
  BY <1>1 DEF Recorded, Window, StartDequeue
<1>3. \A s \in Slot : s # txring_hd_ptr => txring_m'[s] = txring_m[s]
  BY DEF StartDequeue, IInv, TypeOK
<1> QED
  BY <1>1, <1>2, <1>3 DEF FirstOnly, StartDequeue, Virt, Prev

LEMMA FillLaterRecords ==
    ASSUME IInv, Recorded, FillDesc, i # 0 PROVE Recorded'
<1> SUFFICES ASSUME NEW e \in Slot, Window(e)', NEW s \in Slot, txring_m'[s] # None
             PROVE  \/ /\ s <= e /\ Virt(e, s)' < Top'
                       /\ IF s = txring_tl_ptr' THEN pc' # "walk" ELSE txring'[Prev(e, s)].last
                    \/ pc' = "fill" /\ s = txring_hd_ptr'
  BY DEF Recorded, Slot, FirstOnly, Prev
<1> USE ConfigAssumption DEF FillSeg
<1>1. UNCHANGED <<Head_, Used_, Top, txring_tl_ptr, txring_hd_ptr, pc>> /\ pc = "fill"
  BY DEF FillDesc, Head_, Used_, Top
<1>2. Window(e) /\ FirstOnly(e)
  <2>1. PICK f \in Slot : Window(f)
    BY <1>1 DEF IInv, Ring
  <2>2. e = f
    BY <1>1, <2>1 DEF Window, IInv, TypeOK, Slot, Head_, Used_, Top
  <2> QED
    BY <2>1, <2>2 DEF Recorded
<1>i. i \in 1 .. nsegs - 1 /\ txring_hd_ptr + nsegs < NumDesc
  BY <1>1, <1>2, HeadRoom DEF IInv, TypeOK, Filling
<1>3. txring_m[s] # None /\ s # txring_hd_ptr + i
  BY <1>1 DEF FillDesc, IInv, TypeOK, Filling, Slot
<1>4. CASE s = txring_hd_ptr
  BY <1>1, <1>4
<1>5. CASE s # txring_hd_ptr
  <2>1. s <= e /\ Virt(e, s) < Top /\ (s # txring_tl_ptr => txring[Prev(e, s)].last)
    BY <1>1, <1>2, <1>3, <1>5 DEF FirstOnly
  <2>2. s # txring_tl_ptr => Prev(e, s) # txring_hd_ptr + i /\ Prev(e, s) \in Slot
    <3> SUFFICES ASSUME s # txring_tl_ptr PROVE Prev(e, s) # txring_hd_ptr + i /\ Prev(e, s) \in Slot
      OBVIOUS
    <3>1. /\ Virt(e, Prev(e, s)) \in txring_tl_ptr .. Top - 1
          /\ At(e, Virt(e, Prev(e, s))) = Prev(e, s) /\ Prev(e, s) \in Slot
      BY <1>1, <1>2, <2>1 DEF Prev, Window, Virt, At, IInv, TypeOK, Slot, Head_, Used_, Top
    <3> QED
      BY <1>1, <1>2, <1>i, <3>1, HeadRoom DEF IInv
  <2>3. s # txring_tl_ptr => txring'[Prev(e, s)] = txring[Prev(e, s)]
    BY <1>1, <2>2 DEF FillDesc, IInv, TypeOK
  <2> QED
    BY <1>1, <2>1, <2>3 DEF Virt
<1> QED
  BY <1>4, <1>5

LEMMA FillFirstRecords ==
    ASSUME IInv, IInv', Recorded, FillDesc, i = 0 PROVE Recorded'
<1> SUFFICES ASSUME NEW f \in Slot, Window(f)', NEW s \in Slot, txring_m'[s] # None
             PROVE  /\ s <= f /\ Virt(f, s)' < Top'
                    /\ s # txring_tl_ptr => txring'[Prev(f, s)].last
  BY DEF Recorded, Slot, FirstOnly, Prev, FillDesc
<1> USE ConfigAssumption DEF FillSeg
<1>1. /\ pc = "fill" /\ pc' = "kick" /\ nsegs \in 1 .. MaxSegs
      /\ UNCHANGED <<txring_tl_ptr, txring_hd_ptr, txring_queued, nsegs, txring_m>>
  BY DEF FillDesc, IInv, Filling
<1>2. PICK e \in Slot : Window(e) /\ Bits(e)
  BY <1>1 DEF IInv, Ring
<1>3. FirstOnly(e)
  BY <1>2 DEF Recorded
<1>4. /\ txring_hd_ptr < txring_tl_ptr => /\ txring_hd_ptr + nsegs < txring_tl_ptr
                                          /\ ~WrapAfter(txring_hd_ptr, nsegs)
      /\ WrapAfter(txring_hd_ptr, nsegs) => txring_tl_ptr > 0
      /\ txring_hd_ptr + nsegs < NumDesc
  BY <1>1, <1>2, HeadRoom DEF IInv
<1>5. Top' = Top + nsegs /\ Head_ = txring_hd_ptr
      /\ Head_' = IF WrapAfter(txring_hd_ptr, nsegs) THEN 0 ELSE txring_hd_ptr + nsegs
  BY <1>1 DEF Top, Used_, Head_, NextHead, IInv, TypeOK, Slot
<1>6. /\ txring_tl_ptr <= txring_hd_ptr => Top = txring_hd_ptr /\ e = NumDesc - 1
                                           /\ f >= txring_hd_ptr + nsegs - 1
      /\ txring_hd_ptr < txring_tl_ptr => f = e /\ Top = txring_hd_ptr + e + 1
  BY <1>1, <1>2, <1>4, <1>5 DEF Window, IInv, TypeOK, Slot, Top, Used_
<1>7. \A r \in Slot : r # txring_hd_ptr => txring'[r] = txring[r]
  BY <1>1 DEF FillDesc, IInv, TypeOK
<1>8. CASE s = txring_hd_ptr
  <2>1. s <= f /\ Virt(f, s)' < Top'
    BY <1>1, <1>2, <1>5, <1>6, <1>8 DEF Virt, Window, IInv, TypeOK, Slot
  <2>2. s # txring_tl_ptr => /\ Used_ > 0 /\ Prev(f, s) = At(e, Top - 1)
                             /\ Prev(f, s) # s /\ Prev(f, s) \in Slot
    BY <1>1, <1>2, <1>6, <1>8 DEF Prev, At, Window, IInv, TypeOK, Slot, Top, Used_
  <2> QED
    BY <1>2, <1>7, <1>8, <2>1, <2>2 DEF Bits
<1>9. CASE s # txring_hd_ptr
  <2>1. /\ s <= e /\ Virt(e, s) < Top
        /\ s # txring_tl_ptr => txring[Prev(e, s)].last
    BY <1>1, <1>3, <1>9 DEF FirstOnly
  <2>2. s <= f /\ Virt(f, s)' < Top'
    <3>1. CASE txring_tl_ptr <= txring_hd_ptr
      BY <1>1, <1>5, <1>6, <2>1, <3>1 DEF Virt, IInv, TypeOK, Slot
    <3>2. CASE txring_hd_ptr < txring_tl_ptr
      <4>1. Virt(f, s)' = Virt(e, s) /\ f = e /\ Top' > Top
        BY <1>1, <1>5, <1>6, <3>2 DEF Virt, IInv, TypeOK, Slot
      <4>2. Virt(e, s) \in Int /\ Top \in Int /\ Top' \in Int
        BY <1>1, <1>5, <1>6, <3>2 DEF Virt, IInv, TypeOK, Slot
      <4> QED
        BY <2>1, <4>1, <4>2
    <3> QED
      BY <3>1, <3>2 DEF IInv, TypeOK, Slot
  <2>3. s # txring_tl_ptr => Prev(f, s) = Prev(e, s) /\ Prev(e, s) # txring_hd_ptr /\ Prev(e, s) \in Slot
    BY <1>1, <1>2, <1>6, <2>1 DEF Virt, Prev, IInv, TypeOK, Slot, Window
  <2> QED
    BY <1>7, <2>1, <2>2, <2>3
<1> QED
  BY <1>8, <1>9

LEMMA KickRecords ==
    ASSUME IInv, Recorded, StartKick PROVE Recorded'
<1> SUFFICES ASSUME NEW e \in Slot, Window(e)' PROVE FirstOnly(e)'
  BY DEF Recorded, Slot
<1>1. Head_' = Head_ /\ Used_' = Used_ /\ Top' = Top
  BY DEF StartKick, Head_, Used_, Top, NextHead
<1>2. Window(e) /\ FirstOnly(e)
  BY <1>1 DEF Recorded, Window, StartKick
<1> QED
  BY <1>1, <1>2 DEF FirstOnly, StartKick, Virt, Prev

LEMMA CleanFrameRecords ==
    ASSUME IInv, Recorded, CleanFrame PROVE Recorded'
<1> SUFFICES ASSUME NEW e \in Slot, Window(e)' PROVE FirstOnly(e)'
  BY DEF Recorded, Slot
<1>1. Head_' = Head_ /\ Used_' = Used_ /\ Top' = Top
  BY DEF CleanFrame, Head_, Used_, Top
<1>2. Window(e) /\ FirstOnly(e)
  BY <1>1 DEF Recorded, Window, CleanFrame
<1>3. \A s \in Slot : txring_m'[s] = IF s = txring_tl_ptr THEN None ELSE txring_m[s]
  BY DEF CleanFrame, IInv, TypeOK
<1> QED
  BY <1>1, <1>2, <1>3 DEF FirstOnly, CleanFrame, Virt, Prev

(* The tail moves on from a slot without a packet, past the skipped ones   *)
(* at the end of a lap.                                                    *)
LEMMA TailRecords ==
    ASSUME IInv, IInv', Recorded, CleanSkip \/ CleanNext PROVE Recorded'
<1> SUFFICES ASSUME NEW f \in Slot, Window(f)', NEW s \in Slot, txring_m'[s] # None
             PROVE  /\ s <= f /\ Virt(f, s)' < Top'
                    /\ IF s = txring_tl_ptr' THEN pc' # "walk" ELSE txring'[Prev(f, s)].last
  BY DEF Recorded, Slot, FirstOnly, Prev
<1> USE ConfigAssumption
<1>1. PICK e \in Slot : Window(e) /\ Bits(e) /\ Pending(e) /\ Walking(e)
  BY DEF IInv, Ring, CleanSkip, CleanNext
<1>2. /\ pc = "walk" /\ pc' \in {"walk", "clean"} /\ (pc' = "walk" => ~ctl.last)
      /\ txring_tl_ptr' = IF ctl.wrap THEN 0 ELSE txring_tl_ptr + 1
      /\ txring_queued' = txring_queued - 1
      /\ UNCHANGED <<txring_m, txring_hd_ptr>>
  BY DEF CleanSkip, CleanNext, Follow
<1>3. /\ txring_queued > 0 /\ Top = txring_tl_ptr + txring_queued /\ Head_ = txring_hd_ptr
      /\ Top' = txring_tl_ptr' + txring_queued - 1 /\ Head_' = txring_hd_ptr
  <2>1. MacPos(e) <= Top /\ MacPos(e) > txring_tl_ptr /\ MacPos(e) \in Int
    BY <1>1, <1>2 DEF Pending, Walking, IInv, TypeOK, Slot, MacPos, MacSlot, Virt
  <2>2. Top = txring_tl_ptr + txring_queued /\ Head_ = txring_hd_ptr
    BY <1>2 DEF Top, Used_, Head_
  <2>3. Top' = txring_tl_ptr' + txring_queued - 1 /\ Head_' = txring_hd_ptr
    BY <1>2 DEF Top, Used_, Head_, IInv, TypeOK, Slot
  <2>4. txring_tl_ptr \in Int /\ txring_queued \in Int
    BY DEF IInv, TypeOK, Slot
  <2>5. txring_queued > 0
    BY <2>1, <2>2, <2>4
  <2> QED
    BY <2>2, <2>3, <2>5
<1>4. /\ ctl.wrap <=> txring_tl_ptr = e
      /\ ctl.last <=> txring[txring_tl_ptr].last
  <2>1. At(e, txring_tl_ptr) = txring_tl_ptr
    BY <1>1 DEF At, Window, IInv, TypeOK, Slot
  <2>2. txring_tl_ptr \in txring_tl_ptr .. Top - 1
    BY <1>3 DEF IInv, TypeOK, Slot
  <2>3. txring[txring_tl_ptr].wrap = (txring_tl_ptr = e)
    BY <1>1, <2>1, <2>2 DEF Bits
  <2> QED
    BY <1>1, <1>2, <2>3 DEF Walking
<1>5. s # txring_tl_ptr /\ s <= e /\ Virt(e, s) < Top /\ txring[Prev(e, s)].last
  BY <1>1, <1>2 DEF Recorded, FirstOnly
<1>6. \A r \in Slot : txring'[r].last = txring[r].last
  <2>1. \A d \in Desc : MarkUsed(d).last = d.last
    BY DEF MarkUsed, Desc
  <2>2. txring \in [Slot -> Desc]
    BY DEF IInv, TypeOK
  <2>3. CASE CleanNext
    BY <2>3 DEF CleanNext
  <2>4. CASE CleanSkip
    BY <2>1, <2>2, <2>4 DEF CleanSkip
  <2> QED
    BY <2>3, <2>4
<1>7. /\ f = IF txring_tl_ptr = e THEN NumDesc - 1 ELSE e
      /\ txring_tl_ptr = e => Top' = Top - e - 1
      /\ txring_tl_ptr # e => Top' = Top
  <2>0. txring_tl_ptr \in Nat /\ txring_hd_ptr \in Nat /\ txring_queued \in Nat
        /\ txring_hd_ptr < NumDesc /\ txring_tl_ptr' \in 0 .. NumDesc - 1
    BY DEF IInv, TypeOK, Slot
  <2>1. CASE txring_tl_ptr = e
    BY <1>1, <1>2, <1>3, <1>4, <2>0, <2>1 DEF Window, Slot
  <2>2. CASE txring_tl_ptr # e
    BY <1>1, <1>2, <1>3, <1>4, <2>0, <2>2 DEF Window, Slot
  <2> QED
    BY <2>1, <2>2
<1>8. s <= f /\ Virt(f, s)' < Top'
  <2>1. CASE txring_tl_ptr = e
    BY <1>2, <1>3, <1>4, <1>5, <1>7, <2>1 DEF Virt, IInv, TypeOK, Slot
  <2>2. CASE txring_tl_ptr # e
    <3>1. Virt(f, s)' = Virt(e, s) /\ f = e /\ Top' = Top
      BY <1>2, <1>4, <1>5, <1>7, <2>2 DEF Virt, IInv, TypeOK, Slot
    <3> QED
      BY <1>5, <3>1
  <2> QED
    BY <2>1, <2>2
<1>9. s = txring_tl_ptr' => pc' # "walk"
  BY <1>1, <1>2, <1>4, <1>5 DEF Prev, IInv, TypeOK, Slot, Window
<1>10. s # txring_tl_ptr' => txring'[Prev(f, s)].last
  <2>1. s # txring_tl_ptr' => Prev(f, s) = Prev(e, s) /\ Prev(e, s) \in Slot
    BY <1>1, <1>2, <1>4, <1>5, <1>7 DEF Prev, IInv, TypeOK, Slot
  <2> QED
    BY <1>5, <1>6, <2>1
<1> QED
  BY <1>8, <1>9, <1>10

LEMMA RecordedKeeps ==
    ASSUME IInv, IInv', pc # "stop" => Recorded, Next, pc' # "stop" PROVE Recorded'
<1>1. CASE StopClear
  BY <1>1 DEF StopClear, Recorded, FirstOnly, Slot
<1>2. CASE Quiet \/ InitLocked \/ Mac
  <2>1. UNCHANGED <<txring_m, txring_hd_ptr, txring_tl_ptr, txring_queued, nsegs>>
    BY <1>2 DEF Quiet, Stack, SendCheck, Send, IfDown, IfUp, Start, StartFull, StartOactive,
       StartEmpty, StartDrop, CleanDone, Intr, IntrResume, MacHalt, MacReceive, InitLocked, Mac,
       MacFetch, MacNext, MacDone, ringVars, lockVars, vars
  <2>2. \A s \in Slot : txring'[s].last = txring[s].last
    <3>1. CASE MacDone
      BY <3>1 DEF MacDone, IInv, TypeOK, Desc
    <3>2. CASE ~MacDone
      BY <1>2, <3>2 DEF Quiet, Stack, SendCheck, Send, IfDown, IfUp, Start, StartFull, StartOactive,
         StartEmpty, StartDrop, CleanDone, Intr, IntrResume, MacHalt, MacReceive, InitLocked, Mac,
         MacFetch, MacNext, ringVars, vars
    <3> QED
      BY <3>1, <3>2
  <2>3. \/ pc' = pc
        \/ /\ pc \notin {"fill", "kick", "stop"}
           /\ pc' \in {"idle", "start", "space", "clean"}
    BY <1>2 DEF Quiet, Stack, SendCheck, Send, IfDown, IfUp, Start, StartFull, StartOactive,
       StartEmpty, StartDrop, CleanDone, AfterClean, Intr, IntrResume, MacHalt, MacReceive,
       InitLocked, Mac, MacFetch, MacNext, MacDone, lockVars, vars
  <2> QED
    BY <2>1, <2>2, <2>3, RecordedFrame
<1>3. CASE StartDequeue \/ FillDesc \/ StartKick
  BY <1>3, DequeueRecords, FillLaterRecords, FillFirstRecords, KickRecords
     DEF StartDequeue, FillDesc, StartKick
<1>4. CASE CleanFrame \/ CleanSkip \/ CleanNext
  BY <1>4, CleanFrameRecords, TailRecords DEF CleanFrame, CleanSkip, CleanNext
<1>5. ~Stop
  BY DEF Stop
<1> QED
  BY <1>1, <1>2, <1>3, <1>4, <1>5 DEF Next, Driver, StartLocked, Clean, Quiet

-----------------------------------------------------------------------------
(* What the driver and the stack do with the packets.                      *)
LEMMA QueueAppend ==
    ASSUME sendq \in Seq(Mbuf), SendqDistinct, NEW p \in Mbuf, p \notin InSendq,
           sendq' = Append(sendq, p)
    PROVE  InSendq' = InSendq \cup {p} /\ SendqDistinct'
<1>1. /\ DOMAIN sendq = 1 .. Len(sendq) /\ Len(sendq) \in Nat
      /\ DOMAIN sendq' = 1 .. Len(sendq) + 1
      /\ \A k \in 1 .. Len(sendq) : sendq'[k] = sendq[k]
      /\ sendq'[Len(sendq) + 1] = p
  OBVIOUS
<1> QED
  BY <1>1 DEF InSendq, SendqDistinct

LEMMA QueueTail ==
    ASSUME sendq \in Seq(Mbuf), SendqDistinct, sendq # <<>>, sendq' = Tail(sendq)
    PROVE  /\ Head(sendq) \in InSendq /\ Head(sendq) \in Mbuf
           /\ InSendq' = InSendq \ {Head(sendq)} /\ SendqDistinct'
<1>1. /\ DOMAIN sendq = 1 .. Len(sendq) /\ Len(sendq) \in Nat \ {0}
      /\ DOMAIN sendq' = 1 .. Len(sendq) - 1
      /\ \A k \in 1 .. Len(sendq) - 1 : sendq'[k] = sendq[k + 1]
      /\ Head(sendq) = sendq[1] /\ Head(sendq) \in Mbuf
  OBVIOUS
<1>2. \A k \in 2 .. Len(sendq) : sendq[k] = sendq'[k - 1]
  BY <1>1
<1>3. InSendq' = InSendq \ {Head(sendq)}
  <2>1. ASSUME NEW k \in DOMAIN sendq' PROVE sendq'[k] \in InSendq /\ sendq'[k] # sendq[1]
    <3>1. k + 1 \in DOMAIN sendq /\ 1 \in DOMAIN sendq /\ k + 1 # 1 /\ sendq'[k] = sendq[k + 1]
      BY <1>1, <2>1
    <3> QED
      BY <3>1 DEF InSendq, SendqDistinct
  <2>2. ASSUME NEW k \in DOMAIN sendq, sendq[k] # sendq[1]
        PROVE  \E j \in DOMAIN sendq' : sendq'[j] = sendq[k]
    <3>1. k \in 2 .. Len(sendq)
      BY <1>1, <2>2
    <3>2. k - 1 \in DOMAIN sendq'
      BY <1>1, <3>1
    <3> QED
      BY <1>2, <3>1, <3>2
  <2>3. InSendq' \subseteq InSendq \ {sendq[1]}
    BY <2>1 DEF InSendq
  <2>4. InSendq \ {sendq[1]} \subseteq InSendq'
    BY <2>2 DEF InSendq
  <2> QED
    BY <1>1, <2>3, <2>4
<1>4. SendqDistinct'
  BY <1>1 DEF SendqDistinct
<1>5. 1 \in DOMAIN sendq
  BY <1>1
<1> QED
  BY <1>1, <1>3, <1>4, <1>5 DEF InSendq

(* Steps that touch no packet.  The descriptors after a frame's first have *)
(* no entry in txring_m to overwrite.                                      *)
LEMMA PacketsAlone ==
    ASSUME IInv, pc # "stop" => Recorded, Next,
           ~(Send \/ IfDown \/ StopClear \/ StartDequeue \/ StartDrop \/ CleanFrame)
    PROVE  UNCHANGED <<sendq, live, txring_m>>
<1>1. CASE FillDesc
  <2>1. /\ pc = "fill" /\ UNCHANGED <<sendq, live>> /\ ~NoSpace
        /\ i # 0 => i \in 1 .. nsegs - 1 /\ i \in 0 .. MaxSegs - 1
    BY <1>1, ConfigAssumption DEF FillDesc, stackVars, IInv, TypeOK, Filling, NoSpace
  <2>2. TypeOK /\ Filling /\ Recorded /\ Ring
    BY <2>1 DEF IInv
  <2>3. i # 0 => txring_m[txring_hd_ptr + i] = None
    BY <2>1, <2>2, HeadEmpty
  <2>4. txring_m' = txring_m
    BY <1>1, <2>3 DEF FillDesc, FillSeg, IInv, TypeOK
  <2> QED
    BY <2>1, <2>4
<1>2. CASE Stack \/ InitLocked \/ Stop \/ Start \/ Intr \/ IntrResume \/ Mac \/ MacReceive
  BY <1>2 DEF Stack, SendCheck, IfUp, InitLocked, Stop, Start, Intr, IntrResume, Mac, MacHalt,
     MacFetch, MacNext, MacDone, MacReceive, stackVars, ringVars
<1>3. CASE StartFull \/ StartOactive \/ StartEmpty \/ StartKick \/ CleanSkip \/ CleanNext \/ CleanDone
  BY <1>3 DEF StartFull, StartOactive, StartEmpty, StartKick, CleanSkip, CleanNext, CleanDone,
     stackVars, ringVars
<1> QED
  BY <1>1, <1>2, <1>3 DEF Next, Driver, StartLocked, Clean

LEMMA PacketsConserved ==
    ASSUME IInv, Conservation, SendqDistinct, pc # "stop" => Recorded, Next
    PROVE  Conservation' /\ SendqDistinct'
<1> USE ConfigAssumption
<1>1. /\ sendq \in Seq(Mbuf) /\ live \subseteq Mbuf /\ None \notin Mbuf
      /\ txring_m \in [Slot -> Mbuf \cup {None}]
  BY DEF IInv, TypeOK
<1>2. CASE Send
  <2>1. PICK p \in Mbuf \ live : sendq' = Append(sendq, p) /\ live' = live \cup {p}
    BY <1>2 DEF Send
  <2>2. InSendq' = InSendq \cup {p} /\ SendqDistinct'
    BY <1>1, <2>1, QueueAppend DEF Conservation
  <2>3. InRing' = InRing /\ txring_m' = txring_m
    BY <1>2 DEF Send, ringVars, InRing
  <2> QED
    BY <2>1, <2>2, <2>3 DEF Conservation
<1>3. CASE IfDown
  <2>1. InSendq' = {} /\ SendqDistinct' /\ live' = live \ InSendq
    BY <1>3 DEF IfDown, InSendq, SendqDistinct
  <2>2. InRing' = InRing /\ txring_m' = txring_m
    BY <1>3 DEF IfDown, ringVars, InRing
  <2> QED
    BY <2>1, <2>2 DEF Conservation
<1>4. CASE StopClear
  <2>1. InSendq' = InSendq /\ SendqDistinct'
    BY <1>4 DEF StopClear, InSendq, SendqDistinct
  <2>2. InRing' = {} /\ \A s \in Slot : txring_m'[s] = None
    BY <1>1, <1>4 DEF StopClear, InRing
  <2>3. live' = live \ InRing
    BY <1>1, <1>4 DEF StopClear, InRing
  <2> QED
    BY <2>1, <2>2, <2>3 DEF Conservation
<1>5. CASE StartDequeue \/ StartDrop
  <2>1. /\ Head(sendq) \in InSendq /\ Head(sendq) \in Mbuf
        /\ InSendq' = InSendq \ {Head(sendq)} /\ SendqDistinct'
    BY <1>1, <1>5, QueueTail DEF StartDequeue, StartDrop
  <2>2. CASE StartDrop
    <3>1. InRing' = InRing /\ txring_m' = txring_m /\ live' = live \ {Head(sendq)}
      BY <2>2 DEF StartDrop, ringVars, InRing
    <3> QED
      BY <2>1, <3>1 DEF Conservation
  <2>3. CASE StartDequeue
    <3>1. txring_hd_ptr \in Slot /\ txring_m[txring_hd_ptr] = None
      <4>1. pc \in {"start", "space"} /\ ~NoSpace
        BY <2>3 DEF StartDequeue
      <4>2. txring_hd_ptr + 0 \in Slot /\ txring_m[txring_hd_ptr + 0] = None
        BY <4>1, HeadEmpty DEF IInv
      <4> QED
        BY <4>2 DEF IInv, TypeOK
    <3>2. \A s \in Slot : txring_m'[s] = IF s = txring_hd_ptr THEN Head(sendq) ELSE txring_m[s]
      BY <1>1, <2>3 DEF StartDequeue
    <3>3. InRing' = InRing \cup {Head(sendq)}
      BY <1>1, <2>1, <3>1, <3>2 DEF InRing
    <3>4. Head(sendq) \notin InRing /\ live' = live
      BY <2>1, <2>3 DEF Conservation, StartDequeue
    <3>5. \A s \in Slot : txring_m[s] # Head(sendq)
      BY <2>1, <3>4 DEF InRing
    <3> QED
      BY <2>1, <3>2, <3>3, <3>4, <3>5 DEF Conservation
  <2> QED
    BY <1>5, <2>2, <2>3
<1>6. CASE CleanFrame
  <2> DEFINE x == txring_m[txring_tl_ptr]
  <2>1. InSendq' = InSendq /\ SendqDistinct' /\ live' = live \ {x}
    BY <1>6 DEF CleanFrame, InSendq, SendqDistinct
  <2>2. /\ txring_tl_ptr \in Slot
        /\ \A s \in Slot : txring_m'[s] = IF s = txring_tl_ptr THEN None ELSE txring_m[s]
    BY <1>1, <1>6 DEF CleanFrame, IInv, TypeOK
  <2>3. InRing' = InRing \ {x}
    BY <1>1, <2>2 DEF InRing, Conservation
  <2>4. x = None \/ x \in InRing
    BY <1>1, <2>2 DEF InRing
  <2> QED
    BY <1>1, <2>1, <2>2, <2>3, <2>4 DEF Conservation
<1>7. CASE ~(Send \/ IfDown \/ StopClear \/ StartDequeue \/ StartDrop \/ CleanFrame)
  <2>1. UNCHANGED <<sendq, live, txring_m>>
    BY <1>7, PacketsAlone
  <2> QED
    BY <2>1 DEF Conservation, SendqDistinct, InSendq, InRing
<1> QED
  BY <1>2, <1>3, <1>4, <1>5, <1>6, <1>7

LEMMA AddressedKeeps ==
    ASSUME IInv, Addressed, Next PROVE Addressed'
<1> USE ConfigAssumption DEF Addressed, stackVars, ringVars, lockVars
<1>1. txring \in [Slot -> Desc]
  BY DEF IInv, TypeOK
<1>2. CASE FillDesc
  <2>1. pc = "fill" /\ m \in Mbuf /\ m' = m
    BY <1>2 DEF FillDesc
  <2> QED
    BY <1>1, <1>2, <2>1 DEF FillDesc
<1>3. CASE MacDone
  BY <1>1, <1>3 DEF MacDone, Desc, IInv, TypeOK
<1>4. CASE CleanSkip
  BY <1>1, <1>4 DEF CleanSkip, MarkUsed, Desc
<1>5. CASE StopClear
  BY <1>5 DEF StopClear, FreshDesc
<1>6. CASE StartDequeue
  <2>1. m' \in Mbuf
    BY <1>6 DEF StartDequeue, IInv, TypeOK
  <2> QED
    BY <1>6, <2>1 DEF StartDequeue
<1>7. CASE Stack \/ InitLocked \/ Stop \/ Start \/ Intr \/ IntrResume \/ MacReceive
  BY <1>7 DEF Stack, SendCheck, Send, IfDown, IfUp, InitLocked, Stop, Start, Intr, IntrResume,
     MacReceive
<1>8. CASE MacHalt \/ MacFetch \/ MacNext
  BY <1>8 DEF MacHalt, MacFetch, MacNext
<1>9. CASE StartFull \/ StartOactive \/ StartEmpty \/ StartDrop \/ StartKick
  BY <1>9 DEF StartFull, StartOactive, StartEmpty, StartDrop, StartKick
<1>10. CASE CleanFrame \/ CleanNext \/ CleanDone
  BY <1>10 DEF CleanFrame, CleanNext, CleanDone, AfterClean
<1> QED
  BY <1>2, <1>3, <1>4, <1>5, <1>6, <1>7, <1>8, <1>9, <1>10
     DEF Next, Driver, StartLocked, Clean, Mac

LEMMA PacketsHold == Spec => [](IInv /\ Packets)
<1>1. Init => Packets
  <2> SUFFICES ASSUME Init PROVE Packets
    OBVIOUS
  <2>1. \A s \in Slot : txring_m[s] = None /\ txring[s].used
    BY DEF Init, FreshDesc
  <2>2. InSendq = {} /\ InRing = {} /\ SendqDistinct
    BY <2>1, ConfigAssumption DEF Init, InSendq, InRing, SendqDistinct
  <2> QED
    BY <2>1, <2>2 DEF Init, Packets, Conservation, Addressed, Recorded, FirstOnly
<1>2. IInv /\ IInv' /\ Packets /\ [Next]_vars => Packets'
  <2> SUFFICES ASSUME IInv, IInv', Packets, [Next]_vars PROVE Packets'
    OBVIOUS
  <2>1. CASE Next
    BY <2>1, RecordedKeeps, PacketsConserved, AddressedKeeps DEF Packets
  <2>2. CASE UNCHANGED vars
    <3>1. UNCHANGED <<sendq, live, txring, txring_m, txring_hd_ptr, txring_tl_ptr, txring_queued, nsegs, pc, m>>
      BY <2>2 DEF vars, stackVars, ringVars, lockVars
    <3>2. Conservation' /\ SendqDistinct' /\ Addressed'
      BY <3>1 DEF Packets, Conservation, SendqDistinct, Addressed, InSendq, InRing
    <3> QED
      BY <3>1, <3>2, RecordedFrame DEF Packets
  <2> QED
    BY <2>1, <2>2
<1> QED
  BY <1>1, <1>2, Inductive, PTL DEF Spec

(* No packet is lost or freed twice, whatever the ring size: by            *)
(* start_locked, clean_tx and stop, and by m_defrag's failure.             *)
THEOREM PacketsKept == Spec => []Conservation
<1>1. Packets => Conservation
  BY DEF Packets
<1> QED
  BY <1>1, PacketsHold, PTL

(* The MAC reads no packet that clean_tx or stop has freed.                *)
THEOREM NeverReadsFreed == Spec => []MacReadsLive
<1>1. IInv /\ Packets /\ NoTornFrame => MacReadsLive
  <2> SUFFICES ASSUME IInv, Packets, NoTornFrame, cur # Idle PROVE txring[cur].buf \in live
    BY DEF MacReadsLive
  <2>1. ~txring[cur].used /\ txring[cur].buf = txring_m[txq] /\ cur \in Slot /\ txq \in Slot
    BY DEF IInv, TypeOK, NoTornFrame
  <2>2. txring[cur].buf \in Mbuf
    BY <2>1 DEF Packets, Addressed
  <2> QED
    BY <2>1, <2>2 DEF Packets, Conservation, InRing
<1> QED
  BY <1>1, PacketsHold, NeverTorn, PTL

-----------------------------------------------------------------------------
(* Slots in the order in which the MAC comes to them.                      *)
LEMMA SlotsFinite == ASSUME NEW S \in SUBSET Slot PROVE IsFiniteSet(S) /\ Cardinality(S) \in Nat
<1>1. IsFiniteSet(Slot)
  BY ConfigAssumption, FS_Interval DEF Slot
<1> QED
  BY <1>1, FS_Subset, FS_CardinalityType

(* Two slots are not equally far ahead.                                    *)
LEMMA AheadDistinct ==
    ASSUME NEW a \in Slot, NEW s \in Slot, NEW t \in Slot
    PROVE  /\ Ahead(a, s) \in Nat
           /\ s # t => Ahead(a, s) < Ahead(a, t) \/ Ahead(a, t) < Ahead(a, s)
  BY ConfigAssumption DEF Slot, Ahead

(* The rank of a slot is the number of those before it: less than their    *)
(* number, and smaller for the nearer of two.                              *)
LEMMA RankGrows ==
    ASSUME NEW S \in SUBSET Slot, NEW a \in Slot, NEW s \in S
    PROVE  /\ Rank(S, a, s) \in 0 .. Cardinality(S) - 1
           /\ \A t \in S : Ahead(a, s) < Ahead(a, t) => Rank(S, a, s) < Rank(S, a, t)
<1> DEFINE Before(t) == {u \in S : Ahead(a, u) < Ahead(a, t)}
<1>0. \A t \in S : Ahead(a, t) \in Nat
  BY AheadDistinct
<1>1. \A T \in SUBSET S : IsFiniteSet(T) /\ Cardinality(T) \in Nat
  BY SlotsFinite
<1>2. \A T \in SUBSET S : \A x \in S \ T : T \cup {x} \in SUBSET S /\ Cardinality(T) + 1 = Cardinality(T \cup {x})
  BY <1>1, FS_AddElement
<1>3. \A T, U \in SUBSET S : T \subseteq U => Cardinality(T) <= Cardinality(U)
  BY <1>1, FS_Subset
<1>4. ASSUME NEW T \in SUBSET S, NEW U \in SUBSET S, NEW x \in U, x \notin T, T \subseteq U
      PROVE  Cardinality(T) < Cardinality(U)
  <2>1. x \in S \ T /\ T \cup {x} \subseteq U
    BY <1>4
  <2>2. T \cup {x} \in SUBSET S /\ Cardinality(T) + 1 = Cardinality(T \cup {x})
    BY <1>2, <2>1
  <2>3. Cardinality(T \cup {x}) <= Cardinality(U)
    BY <1>3, <2>1, <2>2
  <2> QED
    BY <1>1, <2>2, <2>3
<1>5. s \notin Before(s) /\ Before(s) \in SUBSET S
  BY <1>0
<1>6. Cardinality(Before(s)) < Cardinality(S)
  BY <1>4, <1>5
<1>7. ASSUME NEW t \in S, Ahead(a, s) < Ahead(a, t) PROVE Cardinality(Before(s)) < Cardinality(Before(t))
  <2>1. s \in Before(t) /\ Before(t) \in SUBSET S /\ Before(s) \subseteq Before(t)
    BY <1>0, <1>7
  <2> QED
    BY <1>4, <1>5, <2>1
<1> QED
  BY <1>1, <1>5, <1>6, <1>7 DEF Rank

(* Hence InOrder lists every slot of the set once.                         *)
LEMMA OrderLists ==
    ASSUME NEW S \in SUBSET Slot, NEW a \in Slot
    PROVE  /\ \A s \in S : InOrder(S, a)[Rank(S, a, s) + 1] = s
           /\ \A k \in 1 .. Cardinality(S) :
                 InOrder(S, a)[k] \in S /\ Rank(S, a, InOrder(S, a)[k]) = k - 1
<1> DEFINE n == Cardinality(S)
<1>1. IsFiniteSet(S) /\ n \in Nat
  BY SlotsFinite
<1>2. \A s \in S : Rank(S, a, s) \in 0 .. n - 1
  BY RankGrows
<1>3. \A s, t \in S : Rank(S, a, s) = Rank(S, a, t) => s = t
  <2> SUFFICES ASSUME NEW s \in S, NEW t \in S, s # t PROVE Rank(S, a, s) # Rank(S, a, t)
    OBVIOUS
  <2>1. Ahead(a, s) < Ahead(a, t) \/ Ahead(a, t) < Ahead(a, s)
    BY AheadDistinct
  <2>2. Rank(S, a, s) < Rank(S, a, t) \/ Rank(S, a, t) < Rank(S, a, s)
    BY <2>1, RankGrows
  <2> QED
    BY <1>1, <1>2, <2>2
<1>4. \A k \in 1 .. n : \E s \in S : Rank(S, a, s) = k - 1
  <2> DEFINE f == [s \in S |-> Rank(S, a, s)]
  <2>1. f \in Injection(S, 0 .. n - 1)
    BY <1>2, <1>3 DEF Injection, IsInjective
  <2>2. IsFiniteSet(0 .. n - 1) /\ Cardinality(0 .. n - 1) = n
    BY <1>1, FS_Interval
  <2>3. f \in Surjection(S, 0 .. n - 1)
    BY <2>1, <2>2, FS_Injection
  <2>4. \A r \in 0 .. n - 1 : \E s \in S : f[s] = r
    BY <2>3 DEF Surjection
  <2> QED
    BY <1>1, <2>4
<1>5. \A k \in 1 .. n : InOrder(S, a)[k] \in S /\ Rank(S, a, InOrder(S, a)[k]) = k - 1
  BY <1>4 DEF InOrder
<1> QED
  BY <1>1, <1>2, <1>3, <1>5

(* A slot behind all the others comes last.                                *)
LEMMA OrderAppends ==
    ASSUME NEW S \in SUBSET Slot, NEW a \in Slot, NEW x \in Slot \ S,
           \A s \in S : Ahead(a, s) < Ahead(a, x)
    PROVE  /\ Cardinality(S \cup {x}) = Cardinality(S) + 1
           /\ \A k \in 1 .. Cardinality(S) : InOrder(S \cup {x}, a)[k] = InOrder(S, a)[k]
           /\ InOrder(S \cup {x}, a)[Cardinality(S) + 1] = x
<1> DEFINE T == S \cup {x}
<1>1. Cardinality(S) \in Nat /\ Cardinality(T) = Cardinality(S) + 1 /\ T \in SUBSET Slot
  BY SlotsFinite, FS_AddElement
<1>0. \A s \in Slot : Ahead(a, s) \in Nat
  BY AheadDistinct
<1>2. \A s \in S : Rank(T, a, s) = Rank(S, a, s)
  <2> SUFFICES ASSUME NEW s \in S
               PROVE  {t \in T : Ahead(a, t) < Ahead(a, s)} = {t \in S : Ahead(a, t) < Ahead(a, s)}
    BY DEF Rank
  <2> QED
    BY <1>0
<1>3. Rank(T, a, x) = Cardinality(S)
  <2>1. {t \in T : Ahead(a, t) < Ahead(a, x)} = S
    BY <1>0
  <2> QED
    BY <2>1 DEF Rank
<1> HIDE DEF T
<1>4. \A k \in 1 .. Cardinality(S) : InOrder(T, a)[k] = InOrder(S, a)[k]
  <2> SUFFICES ASSUME NEW k \in 1 .. Cardinality(S) PROVE InOrder(T, a)[k] = InOrder(S, a)[k]
    OBVIOUS
  <2>1. InOrder(S, a)[k] \in S /\ Rank(S, a, InOrder(S, a)[k]) = k - 1
    BY OrderLists
  <2>2. InOrder(T, a)[Rank(T, a, InOrder(S, a)[k]) + 1] = InOrder(S, a)[k]
    BY <1>1, <2>1, OrderLists DEF T
  <2>3. Rank(T, a, InOrder(S, a)[k]) + 1 = k
    BY <1>1, <1>2, <2>1
  <2> QED
    BY <2>2, <2>3
<1>5. InOrder(T, a)[Cardinality(S) + 1] = x
  <2>1. InOrder(T, a)[Rank(T, a, x) + 1] = x
    BY <1>1, OrderLists DEF T
  <2> QED
    BY <1>3, <2>1
<1> QED
  BY <1>1, <1>4, <1>5 DEF T

(* Without the nearest slot, seen from further on, the others move up.     *)
LEMMA OrderTails ==
    ASSUME NEW S \in SUBSET Slot, NEW a \in Slot, NEW b \in Slot, NEW x \in S,
           \A s \in S \ {x} : Ahead(a, x) < Ahead(a, s),
           \A s \in S \ {x}, t \in S \ {x} : Ahead(b, s) < Ahead(b, t) <=> Ahead(a, s) < Ahead(a, t)
    PROVE  /\ Cardinality(S) = Cardinality(S \ {x}) + 1
           /\ \A k \in 1 .. Cardinality(S \ {x}) : InOrder(S \ {x}, b)[k] = InOrder(S, a)[k + 1]
<1> DEFINE T == S \ {x}
<1>1. /\ Cardinality(S) \in Nat /\ Cardinality(T) \in Nat
      /\ Cardinality(S) = Cardinality(T) + 1 /\ T \in SUBSET Slot
  BY SlotsFinite, FS_RemoveElement
<1>0. \A s \in Slot : Ahead(a, s) \in Nat /\ Ahead(b, s) \in Nat
  BY AheadDistinct
<1>2. \A s \in T : Rank(S, a, s) = Rank(T, b, s) + 1
  <2> SUFFICES ASSUME NEW s \in T PROVE Rank(S, a, s) = Rank(T, b, s) + 1
    OBVIOUS
  <2> DEFINE U == {t \in T : Ahead(b, t) < Ahead(b, s)}
  <2>1. {t \in S : Ahead(a, t) < Ahead(a, s)} = U \cup {x}
    BY <1>0
  <2>2. IsFiniteSet(U) /\ Cardinality(U) \in Nat /\ x \notin U
    BY SlotsFinite
  <2>3. Cardinality(U \cup {x}) = Cardinality(U) + 1
    BY <2>2, FS_AddElement
  <2> QED
    BY <2>1, <2>3 DEF Rank
<1> HIDE DEF T
<1>3. \A k \in 1 .. Cardinality(T) : InOrder(T, b)[k] = InOrder(S, a)[k + 1]
  <2> SUFFICES ASSUME NEW k \in 1 .. Cardinality(T) PROVE InOrder(T, b)[k] = InOrder(S, a)[k + 1]
    OBVIOUS
  <2>1. InOrder(T, b)[k] \in T /\ Rank(T, b, InOrder(T, b)[k]) = k - 1
    BY <1>1, OrderLists
  <2>2. InOrder(S, a)[Rank(S, a, InOrder(T, b)[k]) + 1] = InOrder(T, b)[k]
    <3>1. InOrder(T, b)[k] \in S
      BY <2>1 DEF T
    <3> QED
      BY <3>1, OrderLists
  <2>3. Rank(S, a, InOrder(T, b)[k]) + 1 = k + 1
    BY <1>1, <1>2, <2>1
  <2> QED
    BY <2>2, <2>3
<1> QED
  BY <1>1, <1>3 DEF T

-----------------------------------------------------------------------------
(* The ring implements TxFifo.                                             *)

(* The frames not yet sent lie between the MAC and the head.               *)
Between(a, s, b) == IF a <= b THEN s \in a .. b - 1 ELSE s >= a \/ s < b
StartsAhead == pc # "stop" => \A s \in Starts : Between(MacAt, s, Head_)

LEMMA MacInRing == TypeOK => MacAt \in Slot
  BY ConfigAssumption DEF TypeOK, MacAt, Slot

(* A frame stays what it is while its bits and its address stay.           *)
LEMMA SameFrame ==
    ASSUME NEW s \in Slot, txring'[s].buf = txring[s].buf,
           \A u \in Slot : txring'[u].last = txring[u].last
    PROVE  FrameAt(s)' = FrameAt(s)
<1>1. \A t \in s .. NumDesc - 1 : \A u \in s .. t - 1 : u \in Slot
  BY ConfigAssumption DEF Slot
<1>2. Pieces(s)' = Pieces(s)
  BY <1>1 DEF Pieces
<1> QED
  BY <1>2 DEF FrameAt

LEMMA SameFifo ==
    ASSUME TypeOK, Starts' = Starts, MacAt' = MacAt, \A s \in Starts : FrameAt(s)' = FrameAt(s)
    PROVE  pending' = pending
<1>1. Starts \in SUBSET Slot /\ MacAt \in Slot
  BY MacInRing DEF Starts
<1>2. \A k \in 1 .. Cardinality(Starts) : InOrder(Starts, MacAt)[k] \in Starts
  BY <1>1, OrderLists
<1> QED
  BY <1>2 DEF pending

(* start_locked writes its frame where no frame is that waits to be sent.  *)
LEMMA FillKeepsFrames ==
    ASSUME IInv, Packets, FillDesc, NEW s \in Starts
    PROVE  FrameAt(s)' = FrameAt(s)
<1> USE ConfigAssumption
<1>t. txring \in [Slot -> Desc] /\ txring_hd_ptr \in Nat /\ txring_tl_ptr \in Slot
  BY DEF IInv, TypeOK
<1>1. /\ pc = "fill" /\ i \in 0 .. nsegs - 1 /\ nsegs \in 1 .. MaxSegs /\ ~NoSpace
      /\ \A r \in Slot : r # txring_hd_ptr + i => txring'[r] = txring[r]
  BY <1>t DEF FillDesc, FillSeg, IInv, TypeOK, Filling, NoSpace
<1>2. s \in Slot /\ ~txring[s].used /\ txring_m[s] # None
  BY DEF Starts
<1>3. s \notin txring_hd_ptr .. txring_hd_ptr + nsegs - 1
  <2>1. s # txring_hd_ptr
    BY <1>1, <1>2, HeadFree
  <2>2. \A k \in 1 .. nsegs - 1 : k \in 0 .. MaxSegs - 1 /\ txring_m[txring_hd_ptr + k] = None
    BY <1>1, HeadEmpty DEF IInv, Packets
  <2>3. \A k \in 1 .. nsegs - 1 : s # txring_hd_ptr + k
    BY <1>2, <2>2
  <2>4. s \in txring_hd_ptr .. txring_hd_ptr + nsegs - 1 =>
            s = txring_hd_ptr \/ s - txring_hd_ptr \in 1 .. nsegs - 1
    BY <1>t, <1>1, <1>2 DEF Slot
  <2>5. s = txring_hd_ptr + (s - txring_hd_ptr)
    BY <1>t, <1>2 DEF Slot
  <2> QED
    BY <2>1, <2>3, <2>4, <2>5
<1>4. s < txring_hd_ptr => txring[txring_hd_ptr - 1].last
  <2> SUFFICES ASSUME s < txring_hd_ptr PROVE txring[txring_hd_ptr - 1].last
    OBVIOUS
  <2>1. PICK e \in Slot : Window(e) /\ Bits(e)
    BY <1>1 DEF IInv, Ring
  <2>2. s <= e /\ Virt(e, s) < Top
    <3>1. s # txring_hd_ptr
      BY <1>1, <1>2, HeadFree
    <3>2. FirstOnly(e)
      BY <1>1, <2>1 DEF Packets, Recorded
    <3> QED
      BY <1>2, <3>1, <3>2 DEF FirstOnly
  <2>3. Used_ > 0 /\ At(e, Top - 1) = txring_hd_ptr - 1
    BY <1>t, <1>1, <1>2, <2>1, <2>2 DEF Window, Virt, At, Top, Used_, Head_, IInv, TypeOK, Slot
  <2> QED
    BY <2>1, <2>3 DEF Bits
<1>5. Pieces(s)' = Pieces(s)
  <2>1. CASE s > txring_hd_ptr
    BY <1>t, <1>1, <1>2, <1>3, <2>1 DEF Pieces, Slot
  <2>2. CASE s < txring_hd_ptr
    <3>1. txring_hd_ptr - 1 \in s .. NumDesc - 1 /\ txring_hd_ptr - 1 \in Slot
      BY <1>t, <1>2, <2>2 DEF Slot, IInv, TypeOK
    <3>2. txring'[txring_hd_ptr - 1].last /\ txring[txring_hd_ptr - 1].last
      BY <1>t, <1>1, <1>4, <2>2, <3>1
    <3>3. \A u \in s .. txring_hd_ptr - 1 : txring'[u] = txring[u]
      BY <1>t, <1>1, <1>2, <3>1 DEF Slot
    <3>4. ASSUME NEW t \in s .. NumDesc - 1
          PROVE  (\A u \in s .. t - 1 : ~txring'[u].last) <=> (\A u \in s .. t - 1 : ~txring[u].last)
      <4>1. CASE t <= txring_hd_ptr
        BY <1>t, <1>2, <3>3, <4>1 DEF Slot
      <4>2. CASE t > txring_hd_ptr
        <5>1. txring_hd_ptr - 1 \in s .. t - 1
          BY <1>t, <1>2, <2>2, <4>2 DEF Slot
        <5> QED
          BY <3>2, <5>1
      <4> QED
        BY <1>t, <1>2, <4>1, <4>2 DEF Slot
    <3> QED
      BY <3>4 DEF Pieces
  <2> QED
    BY <1>t, <1>1, <1>2, <1>3, <2>1, <2>2 DEF Slot
<1>6. txring'[s] = txring[s]
  BY <1>t, <1>1, <1>2, <1>3
<1> QED
  BY <1>5, <1>6 DEF FrameAt

(* The steps that add no frame and take none.                              *)
LEMMA StillFifo ==
    ASSUME IInv, Packets, Next,
           ~(FillDesc /\ i = 0), ~MacDone, ~StopClear
    PROVE  /\ pending' = pending
           /\ Starts' = Starts /\ MacAt' = MacAt /\ (pc' # "stop" => Head_' = Head_)
<1> USE ConfigAssumption DEF stackVars, flagVars, ringVars, lockVars, macVars
<1>t. TypeOK /\ txring \in [Slot -> Desc] /\ txring_m \in [Slot -> Mbuf \cup {None}]
  BY DEF IInv, TypeOK
<1>1. MacAt' = MacAt /\ (pc' # "stop" => Head_' = Head_)
  <2>1. CASE InitLocked
    BY <2>1 DEF InitLocked, MacAt, Head_, NextHead, WrapAfter
  <2>2. CASE Stop
    BY <2>2 DEF Stop, MacAt, Head_
  <2>3. CASE Stack
    BY <2>3 DEF Stack, SendCheck, Send, IfDown, IfUp, MacAt, Head_, NextHead, WrapAfter
  <2>4. CASE Start \/ StartFull \/ StartOactive \/ StartEmpty \/ StartDrop \/ StartDequeue
    BY <2>4 DEF Start, StartFull, StartOactive, StartEmpty, StartDrop, StartDequeue, MacAt, Head_
  <2>5. CASE FillDesc
    BY <2>5 DEF FillDesc, MacAt, Head_
  <2>6. CASE StartKick
    BY <2>6 DEF StartKick, MacAt, Head_, NextHead
  <2>7. CASE Clean
    BY <2>7 DEF Clean, CleanFrame, CleanSkip, CleanNext, CleanDone, AfterClean, MacAt, Head_
  <2>8. CASE Intr \/ IntrResume
    BY <2>8 DEF Intr, IntrResume, MacAt, Head_
  <2>9. CASE MacHalt \/ MacFetch \/ MacNext \/ MacReceive
    BY <2>9 DEF MacHalt, MacFetch, MacNext, MacReceive, MacAt, Head_, NextHead, WrapAfter
  <2> QED
    BY <2>1, <2>2, <2>3, <2>4, <2>5, <2>6, <2>7, <2>8, <2>9 DEF Next, Driver, StartLocked, Mac
<1>2. Starts' = Starts /\ \A s \in Starts : FrameAt(s)' = FrameAt(s)
  <2>1. CASE StartDequeue
    <3>1. txring[txring_hd_ptr].used /\ UNCHANGED txring
      BY <2>1, HeadFree DEF StartDequeue
    <3>2. \A s \in Slot : s # txring_hd_ptr => txring_m'[s] = txring_m[s]
      BY <1>t, <2>1 DEF StartDequeue
    <3>3. Starts' = Starts
      BY <3>1, <3>2 DEF Starts
    <3> QED
      BY <3>1, <3>3 DEF FrameAt, Pieces
  <2>2. CASE CleanFrame
    <3>1. txring[txring_tl_ptr].used /\ UNCHANGED txring
      BY <2>2 DEF CleanFrame
    <3>2. \A s \in Slot : s # txring_tl_ptr => txring_m'[s] = txring_m[s]
      BY <1>t, <2>2 DEF CleanFrame
    <3>3. Starts' = Starts
      BY <3>1, <3>2 DEF Starts
    <3> QED
      BY <3>1, <3>3 DEF FrameAt, Pieces
  <2>3. CASE CleanSkip
    <3> DEFINE t == Follow(txring_tl_ptr, ctl.wrap)
    <3>1. /\ UNCHANGED txring_m /\ pc = "walk" /\ ~ctl.last
          /\ txring' = [txring EXCEPT ![t] = MarkUsed(@)]
      BY <2>3 DEF CleanSkip
    <3>2. t \in Slot /\ txring_m[t] = None
      <4>1. PICK e \in Slot : Window(e) /\ Bits(e) /\ Pending(e) /\ Walking(e)
        BY <3>1 DEF IInv, Ring
      <4>2. FirstOnly(e)
        BY <3>1, <4>1 DEF Packets, Recorded
      <4>3. /\ txring_tl_ptr \in txring_tl_ptr .. Top - 1 /\ At(e, txring_tl_ptr) = txring_tl_ptr
            /\ ~txring[txring_tl_ptr].last /\ ctl.wrap = txring[txring_tl_ptr].wrap
        <5>1. /\ MacPos(e) > txring_tl_ptr /\ MacPos(e) <= Top
              /\ ~txring[txring_tl_ptr].last /\ ctl.wrap = txring[txring_tl_ptr].wrap
          BY <3>1, <4>1 DEF Pending, Walking
        <5>2. MacPos(e) \in Int /\ Top \in Int /\ txring_tl_ptr \in Int /\ txring_tl_ptr <= e
          BY <1>t, <3>1, <4>1 DEF Window, TypeOK, Slot, MacPos, MacSlot, Virt, Top, Used_
        <5> QED
          BY <5>1, <5>2 DEF At
      <4>4. ctl.wrap <=> txring_tl_ptr = e
        BY <4>1, <4>3 DEF Bits
      <4>5. t = (IF txring_tl_ptr = e THEN 0 ELSE txring_tl_ptr + 1) /\ t \in Slot
        BY <1>t, <4>1, <4>4 DEF Follow, TypeOK, Slot, Window
      <4>6. t # txring_tl_ptr => Prev(e, t) = txring_tl_ptr
        BY <1>t, <4>5 DEF Prev, TypeOK, Slot
      <4> QED
        BY <3>1, <4>2, <4>3, <4>5, <4>6 DEF FirstOnly
    <3> HIDE DEF t
    <3>3. \A d \in Desc : MarkUsed(d).last = d.last
      BY DEF MarkUsed, Desc
    <3>4. /\ \A s \in Slot : s # t => txring'[s] = txring[s]
          /\ \A s \in Slot : txring'[s].last = txring[s].last
      BY <1>t, <3>1, <3>2, <3>3
    <3>5. Starts' = Starts
      BY <3>1, <3>2, <3>4 DEF Starts
    <3>6. \A s \in Starts : s \in Slot /\ s # t
      BY <3>2 DEF Starts
    <3> QED
      BY <3>4, <3>5, <3>6, SameFrame
  <2>4. CASE FillDesc
    <3>1. /\ pc = "fill" /\ i \in 1 .. nsegs - 1 /\ i \in 0 .. MaxSegs - 1 /\ ~NoSpace
      BY <1>t, <2>4 DEF FillDesc, IInv, TypeOK, Filling, NoSpace
    <3>2. txring_hd_ptr + i \in Slot /\ txring_m[txring_hd_ptr + i] = None
      BY <3>1, HeadEmpty DEF IInv, Packets
    <3>3. UNCHANGED txring_m
      BY <2>4, PacketsAlone DEF Packets, FillDesc, Send, IfDown, StopClear, StartDequeue, StartDrop,
         CleanFrame
    <3>4. \A s \in Slot : s # txring_hd_ptr + i => txring'[s] = txring[s]
      BY <1>t, <2>4 DEF FillDesc, FillSeg
    <3>5. Starts' = Starts
      BY <3>2, <3>3, <3>4 DEF Starts
    <3> QED
      BY <2>4, <3>5, FillKeepsFrames
  <2>5. CASE ~(StartDequeue \/ CleanFrame \/ CleanSkip \/ FillDesc)
    <3>1. UNCHANGED <<txring, txring_m>>
      BY <2>5 DEF Next, Driver, StartLocked, Clean, Mac, Stack, SendCheck, Send, IfDown, IfUp,
         InitLocked, Stop, Start, StartFull, StartOactive, StartEmpty, StartDrop, StartKick,
         CleanNext, CleanDone, Intr, IntrResume, MacHalt, MacFetch, MacNext, MacReceive
    <3> QED
      BY <3>1 DEF Starts, FrameAt, Pieces
  <2> QED
    BY <2>1, <2>2, <2>3, <2>4, <2>5
<1> QED
  BY <1>t, <1>1, <1>2, SameFifo

(* The last descriptor to be written makes the frame the MAC's: it is      *)
(* accepted, behind all others.                                            *)
LEMMA FillFirstAccepts ==
    ASSUME IInv, IInv', Packets, StartsAhead, FillDesc, i = 0
    PROVE  Fifo!Accept /\ StartsAhead'
<1> USE ConfigAssumption
<1>t. /\ txring \in [Slot -> Desc] /\ txring_m \in [Slot -> Mbuf \cup {None}]
      /\ txring_hd_ptr \in Slot /\ txring_tl_ptr \in Slot
  BY DEF IInv, TypeOK, Slot
<1>1. /\ pc = "fill" /\ pc' = "kick" /\ nsegs \in 1 .. MaxSegs /\ txring[txring_hd_ptr].used
      /\ txring_m[txring_hd_ptr] = m /\ m \in Mbuf
      /\ UNCHANGED <<txring_m, txring_hd_ptr, txring_tl_ptr, running, txq, nsegs>>
  BY HeadFree DEF FillDesc, FillSeg, IInv, Filling, Packets, Addressed, flagVars, macVars
<1>2. /\ \A s \in Slot : s # txring_hd_ptr => txring'[s] = txring[s]
      /\ ~txring'[txring_hd_ptr].used /\ txring'[txring_hd_ptr].buf = m
      /\ (txring'[txring_hd_ptr].last <=> nsegs = 1)
  <2>1. txring' = [txring EXCEPT ![txring_hd_ptr + 0] =
                      [used |-> FALSE, last |-> 0 = nsegs - 1,
                       wrap |-> 0 = nsegs - 1 /\ WrapAfter(txring_hd_ptr, nsegs), buf |-> m]]
    BY DEF FillDesc, FillSeg
  <2>2. txring_hd_ptr + 0 = txring_hd_ptr
    BY <1>t DEF Slot
  <2>3. txring'[txring_hd_ptr].last <=> 0 = nsegs - 1
    BY <1>t, <2>1, <2>2, Zenon
  <2>4. 0 = nsegs - 1 <=> nsegs = 1
    BY <1>1
  <2> QED
    BY <1>t, <2>1, <2>2, <2>3, <2>4
<1>3. Starts' = Starts \cup {txring_hd_ptr} /\ txring_hd_ptr \in Slot \ Starts /\ Starts \in SUBSET Slot
  BY <1>t, <1>1, <1>2 DEF Starts
<1>4. MacAt' = MacAt /\ MacAt \in Slot /\ Head_ = txring_hd_ptr
  BY <1>1, MacInRing DEF MacAt, Head_, IInv
<1>5. \A s \in Starts : s \in Slot /\ Between(MacAt, s, txring_hd_ptr)
  BY <1>1, <1>3, <1>4 DEF StartsAhead
<1>6. \A s \in Starts : Ahead(MacAt, s) < Ahead(MacAt, txring_hd_ptr)
  BY <1>t, <1>4, <1>5 DEF Between, Ahead, Slot
<1>7. FrameAt(txring_hd_ptr)' = [pkt |-> m, len |-> nsegs]
  <2>1. txring_hd_ptr + nsegs < NumDesc
    BY <1>1, HeadRoom DEF IInv, Ring
  <2>2. \A k \in 0 .. nsegs - 1 : txring'[txring_hd_ptr + k].last <=> k = nsegs - 1
    <3>1. \A k \in 1 .. nsegs - 1 : txring[txring_hd_ptr + k].last <=> k = nsegs - 1
      <4>0. \A k \in i + 1 .. nsegs - 1 :
               txring[txring_hd_ptr + k] =
                 [used |-> FALSE, last |-> k = nsegs - 1,
                  wrap |-> k = nsegs - 1 /\ WrapAfter(txring_hd_ptr, nsegs), buf |-> m]
        BY <1>1 DEF IInv, Filling
      <4>1. ASSUME NEW k \in i + 1 .. nsegs - 1
            PROVE  txring[txring_hd_ptr + k].last <=> k = nsegs - 1
        <5> DEFINE D == [used |-> FALSE, last |-> k = nsegs - 1,
                         wrap |-> k = nsegs - 1 /\ WrapAfter(txring_hd_ptr, nsegs), buf |-> m]
        <5>1. D.last <=> k = nsegs - 1
          OBVIOUS
        <5>2. txring[txring_hd_ptr + k] = D
          BY <4>0
        <5> QED
          BY <5>1, <5>2, Zenon
      <4>2. i + 1 = 1
        OBVIOUS
      <4> QED
        BY <4>1, <4>2
    <3>2. \A k \in 1 .. nsegs - 1 : txring_hd_ptr + k \in Slot /\ txring_hd_ptr + k # txring_hd_ptr
      BY <1>t, <1>1, <2>1 DEF Slot
    <3>3. txring_hd_ptr + 0 = txring_hd_ptr
      BY <1>t DEF Slot
    <3>4. \A k \in 0 .. nsegs - 1 : k = 0 \/ k \in 1 .. nsegs - 1
      BY <1>1
    <3> QED
      BY <1>1, <1>2, <3>1, <3>2, <3>3, <3>4
  <2>3. \A u \in txring_hd_ptr .. txring_hd_ptr + nsegs - 1 :
            txring'[u].last <=> u = txring_hd_ptr + nsegs - 1
    <3> SUFFICES ASSUME NEW u \in txring_hd_ptr .. txring_hd_ptr + nsegs - 1
                 PROVE  txring'[u].last <=> u = txring_hd_ptr + nsegs - 1
      OBVIOUS
    <3>1. u - txring_hd_ptr \in 0 .. nsegs - 1 /\ u = txring_hd_ptr + (u - txring_hd_ptr)
      BY <1>t, <1>1 DEF Slot
    <3>2. txring'[txring_hd_ptr + (u - txring_hd_ptr)].last <=> u - txring_hd_ptr = nsegs - 1
      BY <2>2, <3>1
    <3>3. u - txring_hd_ptr = nsegs - 1 <=> u = txring_hd_ptr + nsegs - 1
      BY <1>t, <1>1 DEF Slot
    <3> QED
      BY <3>1, <3>2, <3>3
  <2>4. Pieces(txring_hd_ptr)' = txring_hd_ptr .. txring_hd_ptr + nsegs - 1
    <3>1. ASSUME NEW t \in txring_hd_ptr .. NumDesc - 1, t <= txring_hd_ptr + nsegs - 1
          PROVE  \A u \in txring_hd_ptr .. t - 1 : ~txring'[u].last
      <4>1. \A u \in txring_hd_ptr .. t - 1 : /\ u \in txring_hd_ptr .. txring_hd_ptr + nsegs - 1
                                              /\ u # txring_hd_ptr + nsegs - 1
        BY <1>t, <1>1, <3>1 DEF Slot
      <4> QED
        BY <2>3, <4>1
    <3>2. ASSUME NEW t \in txring_hd_ptr .. NumDesc - 1, t > txring_hd_ptr + nsegs - 1
          PROVE  \E u \in txring_hd_ptr .. t - 1 : txring'[u].last
      <4>1. txring_hd_ptr + nsegs - 1 \in txring_hd_ptr .. t - 1
        BY <1>t, <1>1, <3>2 DEF Slot
      <4>2. txring'[txring_hd_ptr + nsegs - 1].last
        BY <1>t, <1>1, <2>3 DEF Slot
      <4> QED
        BY <4>1, <4>2
    <3>3. \A t \in txring_hd_ptr .. NumDesc - 1 :
              (\A u \in txring_hd_ptr .. t - 1 : ~txring'[u].last) <=> t <= txring_hd_ptr + nsegs - 1
      <4>1. \A t \in txring_hd_ptr .. NumDesc - 1 :
               t > txring_hd_ptr + nsegs - 1 \/ t <= txring_hd_ptr + nsegs - 1
        BY <1>t, <1>1 DEF Slot
      <4> QED
        BY <3>1, <3>2, <4>1
    <3>4. Pieces(txring_hd_ptr)' =
             {t \in txring_hd_ptr .. NumDesc - 1 : t <= txring_hd_ptr + nsegs - 1}
      BY <1>1, <3>3 DEF Pieces
    <3> QED
      BY <1>t, <1>1, <2>1, <3>4 DEF Slot
  <2>5. Cardinality(txring_hd_ptr .. txring_hd_ptr + nsegs - 1) = nsegs
    BY <1>t, <1>1, FS_Interval DEF Slot
  <2> QED
    BY <1>1, <1>2, <2>4, <2>5 DEF FrameAt
<1>8. StartsAhead'
  <2>1. PICK e \in Slot : Window(e) /\ Pending(e)
    BY <1>1 DEF IInv, Ring
  <2>2. /\ txring_hd_ptr < txring_tl_ptr => /\ txring_hd_ptr + nsegs < txring_tl_ptr
                                            /\ ~WrapAfter(txring_hd_ptr, nsegs)
        /\ WrapAfter(txring_hd_ptr, nsegs) => txring_tl_ptr > 0
    BY <1>1, <2>1, HeadRoom DEF IInv
  <2>3. Head_' = IF WrapAfter(txring_hd_ptr, nsegs) THEN 0 ELSE txring_hd_ptr + nsegs
    BY <1>1 DEF Head_, NextHead, WrapAfter
  <2>4. /\ txring_tl_ptr <= txring_hd_ptr => MacAt \in txring_tl_ptr .. txring_hd_ptr
        /\ txring_hd_ptr < txring_tl_ptr => MacAt <= txring_hd_ptr \/ MacAt >= txring_tl_ptr
    <3>1. MacSlot = MacAt
      BY <1>1 DEF MacAt, MacSlot
    <3>2. MacPos(e) = (IF MacAt >= txring_tl_ptr THEN MacAt ELSE MacAt + e + 1)
          /\ MacPos(e) <= Top
      BY <2>1, <3>1 DEF Pending, MacPos, Virt
    <3>3. /\ txring_tl_ptr <= txring_hd_ptr => e = NumDesc - 1 /\ Top = txring_hd_ptr
          /\ txring_hd_ptr < txring_tl_ptr => Top = txring_hd_ptr + e + 1
      BY <1>t, <1>4, <2>1 DEF Window, Top, Used_, Slot, IInv, TypeOK
    <3> QED
      BY <1>t, <1>4, <3>2, <3>3 DEF Slot
  <2>5. \A s \in Starts : Between(MacAt, s, Head_')
    BY <1>t, <1>1, <1>4, <1>5, <2>2, <2>3, <2>4 DEF Between, Slot
  <2>6. Between(MacAt, txring_hd_ptr, Head_')
    BY <1>t, <1>1, <1>4, <2>2, <2>3, <2>4 DEF Between, Slot
  <2> QED
    BY <1>3, <1>4, <2>5, <2>6 DEF StartsAhead, Between
<1> DEFINE f == [pkt |-> m, len |-> nsegs]
<1>9. pending' = Append(pending, f)
  <2>1. PICK n, b, c : /\ n = Cardinality(Starts) /\ b = InOrder(Starts, MacAt)
                       /\ c = InOrder(Starts', MacAt)
    OBVIOUS
  <2>2. /\ n \in Nat /\ Cardinality(Starts') = n + 1
        /\ \A k \in 1 .. n : c[k] = b[k]
        /\ c[n + 1] = txring_hd_ptr
    <3>1. PICK S, x, a : S = Starts /\ x = txring_hd_ptr /\ a = MacAt
      OBVIOUS
    <3>2. /\ S \in SUBSET Slot /\ x \in Slot \ S /\ a \in Slot
          /\ \A s \in S : Ahead(a, s) < Ahead(a, x)
      BY <1>3, <1>4, <1>6, <3>1
    <3>3. /\ Cardinality(S) \in Nat /\ Cardinality(S \cup {x}) = Cardinality(S) + 1
          /\ \A k \in 1 .. Cardinality(S) : InOrder(S \cup {x}, a)[k] = InOrder(S, a)[k]
          /\ InOrder(S \cup {x}, a)[Cardinality(S) + 1] = x
      BY <3>2, OrderAppends, SlotsFinite
    <3>4. n = Cardinality(S) /\ b = InOrder(S, a) /\ c = InOrder(S \cup {x}, a)
          /\ Cardinality(Starts') = Cardinality(S \cup {x})
      BY <1>3, <1>4, <2>1, <3>1
    <3> QED
      BY <3>1, <3>3, <3>4
  <2>3. \A k \in 1 .. n : b[k] \in Starts
    BY <1>3, <1>4, <2>1, OrderLists
  <2>4. \A s \in Starts : FrameAt(s)' = FrameAt(s)
    BY FillKeepsFrames
  <2>5. pending' = [k \in 1 .. n + 1 |-> FrameAt(c[k])']
    BY <1>4, <2>1, <2>2 DEF pending
  <2>6. \A k \in 1 .. n : FrameAt(c[k])' = FrameAt(b[k])
    BY <2>2, <2>3, <2>4
  <2>7. FrameAt(c[n + 1])' = f
    BY <1>1, <1>7, <2>2
  <2> HIDE DEF f
  <2>8. pending' = [k \in 1 .. n + 1 |-> IF k = n + 1 THEN f ELSE FrameAt(b[k])]
    BY <2>2, <2>5, <2>6, <2>7
  <2>9. pending = [k \in 1 .. n |-> FrameAt(b[k])]
    BY <2>1 DEF pending
  <2> QED
    BY <2>2, <2>8, <2>9
<1> QED
  BY <1>1, <1>8, <1>9 DEF Fifo!Accept, Fifo!Frame
(* In virtual indices: what lies between the MAC and the head, and what is *)
(* further ahead.                                                          *)
LEMMA VirtBetween ==
    ASSUME TypeOK, NEW e \in Slot, Window(e), NEW f \in Slot, NEW s \in Slot,
           f <= e, s <= e, Virt(e, f) <= Top
    PROVE  Between(f, s, Head_) <=> Virt(e, f) <= Virt(e, s) /\ Virt(e, s) < Top
<1> USE ConfigAssumption
<1>1. /\ txring_tl_ptr \in Nat /\ Head_ \in Nat /\ Head_ < NumDesc /\ txring_tl_ptr <= e
      /\ e \in Nat /\ e < NumDesc /\ Top \in Int
  BY DEF TypeOK, Slot, Window, Head_, NextHead, WrapAfter, Top, Used_
<1>2. /\ txring_tl_ptr <= Head_ => e = NumDesc - 1 /\ Head_ = Top
      /\ Head_ < txring_tl_ptr => Top = Head_ + e + 1
  BY <1>1 DEF Window
<1>3. f \in Nat /\ s \in Nat
  BY DEF Slot
<1> QED
  BY <1>1, <1>2, <1>3 DEF Between, Virt

LEMMA VirtOrder ==
    ASSUME txring_tl_ptr \in Slot, NEW e \in Slot, txring_tl_ptr <= e,
           NEW f \in Slot, NEW s \in Slot, NEW t \in Slot, f <= e, s <= e, t <= e,
           Virt(e, f) <= Virt(e, s), Virt(e, f) <= Virt(e, t)
    PROVE  Ahead(f, s) < Ahead(f, t) <=> Virt(e, s) < Virt(e, t)
  BY ConfigAssumption DEF Slot, Virt, Ahead

(* The MAC finishes the oldest frame.                                      *)
LEMMA MacDoneDelivers ==
    ASSUME IInv, Packets, StartsAhead, MacDone
    PROVE  Fifo!Deliver /\ StartsAhead'
<1> USE ConfigAssumption DEF stackVars, flagVars, lockVars
<1>t. /\ TypeOK /\ txring \in [Slot -> Desc] /\ txring_m \in [Slot -> Mbuf \cup {None}]
      /\ txring_hd_ptr \in Slot /\ txring_tl_ptr \in Slot /\ txq \in Slot /\ cur \in Slot
      /\ pc # "stop"
  <2>1. TypeOK /\ pc # "stop" /\ cur # Idle
    BY DEF IInv, MacDone
  <2>2. txring_hd_ptr \in Slot
    BY <2>1 DEF TypeOK, Slot
  <2> QED
    BY <2>1, <2>2 DEF TypeOK
<1>1. PICK e \in Slot : Window(e) /\ Bits(e) /\ Pending(e) /\ Reading(e)
  BY <1>t DEF IInv, Ring
<1>2. /\ running /\ cur <= e /\ Virt(e, cur) \in MacPos(e) .. Top - 1
      /\ \A v \in MacPos(e) .. Virt(e, cur) - 1 : ~txring[At(e, v)].last
  BY <1>1 DEF Reading, MacDone
<1>3. /\ MacAt = txq /\ MacPos(e) = Virt(e, txq) /\ txq <= e /\ txring_tl_ptr <= e
      /\ MacPos(e) \in Int /\ Top \in Int /\ Virt(e, cur) \in Int /\ MacPos(e) >= txring_tl_ptr
  BY <1>t, <1>1, <1>2 DEF MacAt, MacPos, MacSlot, Pending, Window, Virt, Slot, Top, Used_, TypeOK
<1>4. /\ running' = running /\ MacAt' = txq' /\ Head_' = Head_ /\ Top' = Top
      /\ UNCHANGED <<txring_m, txring_tl_ptr, pc>>
      /\ txring' = [txring EXCEPT ![txq].used = TRUE, ![txq].buf = None]
  BY <1>2 DEF MacDone, MacAt, Head_, NextHead, WrapAfter, Top, Used_
<1>5. /\ txq' = (IF cur = e THEN 0 ELSE cur + 1) /\ txq' \in Slot /\ txq' <= e
      /\ Virt(e, txq') = Virt(e, cur) + 1
  <2>1. At(e, Virt(e, cur)) = cur /\ (Virt(e, cur) = e <=> cur = e)
    BY <1>t, <1>2, <1>3 DEF At, Virt, Slot
  <2>2. txring[cur].wrap <=> cur = e
    <3>1. Virt(e, cur) \in txring_tl_ptr .. Top - 1
      BY <1>t, <1>2, <1>3 DEF Slot
    <3> QED
      BY <1>1, <2>1, <3>1 DEF Bits
  <2>3. txq' = IF cur = e THEN 0 ELSE cur + 1
    BY <2>2 DEF MacDone, Follow
  <2>4. cur = e => Head_ < txring_tl_ptr
    BY <1>t, <1>1, <1>2, <1>3, <2>1 DEF Window, Slot, Head_, NextHead, WrapAfter, TypeOK
  <2>5. cur = e => txring_tl_ptr > 0
    BY <1>t, <2>4 DEF Slot, Head_, NextHead, WrapAfter, TypeOK
  <2>6. cur < txring_tl_ptr => cur + 1 < txring_tl_ptr
    <3>1. ASSUME cur < txring_tl_ptr PROVE Head_ < txring_tl_ptr /\ Top = Head_ + e + 1
      BY <1>t, <1>1, <1>2, <1>3, <3>1 DEF Window, Virt, Slot, Head_, NextHead, WrapAfter, TypeOK
    <3> QED
      BY <1>t, <1>2, <1>3, <3>1 DEF Virt, Slot, Head_, NextHead, WrapAfter, TypeOK
  <2> QED
    BY <1>t, <1>2, <1>3, <2>1, <2>3, <2>5, <2>6 DEF Virt, Slot
<1>6. /\ \A s \in Slot : s # txq => txring'[s] = txring[s]
      /\ \A s \in Slot : txring'[s].last = txring[s].last
      /\ txring'[txq].used
  BY <1>t, <1>4 DEF Desc
<1>7. txq \in Starts
  <2>1. At(e, MacPos(e)) = txq /\ MacPos(e) \in MacPos(e) .. Top - 1
    BY <1>t, <1>2, <1>3 DEF At, Virt, Slot
  <2>2. ~txring[txq].used /\ txring_m[txq] = txring[txq].buf
    BY <1>1, <2>1 DEF Pending
  <2> QED
    BY <1>t, <2>2 DEF Packets, Addressed, Starts
<1>8. Starts' = Starts \ {txq} /\ Starts \in SUBSET Slot
  BY <1>4, <1>6 DEF Starts
<1>9. \A s \in Starts \ {txq} : s <= e /\ Virt(e, txq') <= Virt(e, s) /\ Virt(e, s) < Top
  <2> SUFFICES ASSUME NEW s \in Starts \ {txq}
               PROVE  s <= e /\ Virt(e, txq') <= Virt(e, s) /\ Virt(e, s) < Top
    OBVIOUS
  <2>1. s \in Slot /\ s # txq /\ txring_m[s] # None /\ ~txring[s].used
    BY DEF Starts
  <2>2. /\ s <= e /\ Virt(e, s) < Top
        /\ s # txring_tl_ptr => txring[Prev(e, s)].last
    <3>1. pc = "fill" => s # txring_hd_ptr
      BY <2>1, HeadFree
    <3>2. FirstOnly(e)
      BY <1>t, <1>1 DEF Packets, Recorded
    <3> QED
      BY <2>1, <3>1, <3>2 DEF FirstOnly
  <2>3. Virt(e, s) >= MacPos(e)
    <3>1. Between(txq, s, Head_)
      BY <1>t, <1>3 DEF StartsAhead
    <3>2. MacPos(e) <= Top
      BY <1>1 DEF Pending
    <3> QED
      BY <1>t, <1>1, <1>3, <2>1, <2>2, <3>1, <3>2, VirtBetween
  <2>4. Virt(e, s) \in Int /\ Virt(e, s) # MacPos(e)
    BY <1>t, <1>3, <2>1, <2>2 DEF Virt, Slot
  <2>5. ASSUME Virt(e, s) <= Virt(e, cur) PROVE FALSE
    <3>1. s # txring_tl_ptr /\ Prev(e, s) = At(e, Virt(e, s) - 1)
      BY <1>t, <1>3, <2>1, <2>2, <2>3, <2>4 DEF Virt, At, Prev, Slot
    <3>2. Virt(e, s) - 1 \in MacPos(e) .. Virt(e, cur) - 1
      BY <1>3, <2>3, <2>4, <2>5
    <3> QED
      BY <1>2, <2>2, <3>1, <3>2
  <2> QED
    BY <1>3, <1>5, <2>2, <2>4, <2>5
<1>10. StartsAhead'
  <2>1. \A s \in Starts \ {txq} : Between(txq', s, Head_)
    BY <1>t, <1>1, <1>2, <1>3, <1>5, <1>8, <1>9, VirtBetween
  <2> QED
    BY <1>4, <1>8, <2>1 DEF StartsAhead, Between
<1>11. pending # <<>> /\ pending' = Tail(pending)
  <2>1. \A s \in Starts \ {txq} : Ahead(txq, txq) < Ahead(txq, s)
    BY <1>t, <1>8 DEF Ahead, Slot
  <2>2. \A s \in Starts \ {txq}, t \in Starts \ {txq} :
           Ahead(txq', s) < Ahead(txq', t) <=> Ahead(txq, s) < Ahead(txq, t)
    <3> SUFFICES ASSUME NEW s \in Starts \ {txq}, NEW t \in Starts \ {txq}
                 PROVE  Ahead(txq', s) < Ahead(txq', t) <=> Ahead(txq, s) < Ahead(txq, t)
      OBVIOUS
    <3>1. /\ s \in Slot /\ t \in Slot /\ s <= e /\ t <= e
          /\ Virt(e, txq') <= Virt(e, s) /\ Virt(e, txq') <= Virt(e, t)
      BY <1>8, <1>9
    <3>2. Virt(e, txq) <= Virt(e, s) /\ Virt(e, txq) <= Virt(e, t)
      BY <1>t, <1>2, <1>3, <1>5, <3>1 DEF Virt, Slot
    <3> QED
      BY <1>t, <1>3, <1>5, <3>1, <3>2, VirtOrder
  <2>3. PICK n, b, c : /\ n = Cardinality(Starts') /\ b = InOrder(Starts, MacAt)
                       /\ c = InOrder(Starts', MacAt')
    OBVIOUS
  <2>4. /\ n \in Nat /\ Cardinality(Starts) = n + 1
        /\ \A k \in 1 .. n : c[k] = b[k + 1]
    <3>1. /\ Cardinality(Starts) = Cardinality(Starts \ {txq}) + 1
          /\ \A k \in 1 .. Cardinality(Starts \ {txq}) :
                InOrder(Starts \ {txq}, txq')[k] = InOrder(Starts, txq)[k + 1]
      <4>1. PICK S, x, y : S = Starts /\ x = txq /\ y = txq'
        OBVIOUS
      <4>2. S \in SUBSET Slot /\ x \in Slot /\ y \in Slot /\ x \in S
        BY <1>t, <1>5, <1>7, <1>8, <4>1
      <4>3. /\ \A s \in S \ {x} : Ahead(x, x) < Ahead(x, s)
            /\ \A s \in S \ {x}, t \in S \ {x} : Ahead(y, s) < Ahead(y, t) <=> Ahead(x, s) < Ahead(x, t)
        BY <2>1, <2>2, <4>1
      <4>4. /\ Cardinality(S) = Cardinality(S \ {x}) + 1
            /\ \A k \in 1 .. Cardinality(S \ {x}) : InOrder(S \ {x}, y)[k] = InOrder(S, x)[k + 1]
        BY <4>2, <4>3, OrderTails
      <4> QED
        BY <4>1, <4>4
    <3>2. Cardinality(Starts \ {txq}) \in Nat
      BY <1>8, SlotsFinite
    <3> QED
      BY <1>3, <1>4, <1>8, <2>3, <3>1, <3>2
  <2>5. \A k \in 1 .. n : c[k] \in Starts'
    BY <1>4, <1>5, <1>8, <2>3, OrderLists
  <2>6. \A s \in Starts' : FrameAt(s)' = FrameAt(s)
    BY <1>6, <1>8, SameFrame
  <2>7. pending' = [k \in 1 .. n |-> FrameAt(c[k])']
    BY <2>3 DEF pending
  <2>8. \A k \in 1 .. n : FrameAt(c[k])' = FrameAt(b[k + 1])
    BY <2>4, <2>5, <2>6
  <2>9. pending' = [k \in 1 .. n |-> FrameAt(b[k + 1])]
    BY <2>7, <2>8
  <2>10. pending = [k \in 1 .. n + 1 |-> FrameAt(b[k])]
    BY <2>3, <2>4 DEF pending
  <2> QED
    BY <2>4, <2>9, <2>10
<1> QED
  BY <1>2, <1>4, <1>10, <1>11 DEF Fifo!Deliver

(* stop empties the ring of a MAC that is off.                             *)
LEMMA StopDiscards ==
    ASSUME IInv, StopClear PROVE Fifo!Discard /\ StartsAhead'
<1>1. ~running /\ running' = running
  BY DEF IInv, StopClear, flagVars
<1>2. Starts' = {}
  BY DEF StopClear, Starts, FreshDesc
<1>3. pending' = <<>>
  BY <1>2, FS_EmptySet DEF pending
<1> QED
  BY <1>1, <1>2, <1>3 DEF Fifo!Discard, StartsAhead

(* Every step of the ring is one of the queue, or leaves it alone.         *)
LEMMA StepsFifo ==
    IInv /\ IInv' /\ Packets /\ StartsAhead /\ [Next]_vars
        => [Fifo!Next]_<<pending, running>> /\ StartsAhead'
<1> SUFFICES ASSUME IInv, IInv', Packets, StartsAhead, [Next]_vars
             PROVE  [Fifo!Next]_<<pending, running>> /\ StartsAhead'
  OBVIOUS
<1>1. CASE UNCHANGED vars
  <2>1. UNCHANGED <<txring, txring_m, running, txq, pc, txring_hd_ptr, nsegs>>
    BY <1>1 DEF vars, flagVars, ringVars, lockVars, macVars
  <2>2. Starts' = Starts /\ MacAt' = MacAt /\ Head_' = Head_
    BY <2>1 DEF Starts, MacAt, Head_, NextHead, WrapAfter
  <2>3. pending' = pending
    BY <2>1, <2>2 DEF pending, FrameAt, Pieces
  <2> QED
    BY <2>1, <2>2, <2>3 DEF StartsAhead, Between
<1>2. CASE FillDesc /\ i = 0
  BY <1>2, FillFirstAccepts DEF Fifo!Next
<1>3. CASE MacDone
  BY <1>3, MacDoneDelivers DEF Fifo!Next
<1>4. CASE StopClear
  BY <1>4, StopDiscards DEF Fifo!Next
<1>5. CASE Next /\ ~(FillDesc /\ i = 0) /\ ~MacDone /\ ~StopClear
  <2>1. /\ pending' = pending
        /\ Starts' = Starts /\ MacAt' = MacAt /\ (pc' # "stop" => Head_' = Head_)
    BY <1>5, StillFifo
  <2>2. StartsAhead'
    <3>1. pc = "stop" => pc' = "stop"
      BY <1>5 DEF Next, Driver, StartLocked, Clean, Mac, Stack, SendCheck, Send, IfDown, IfUp, InitLocked,
         Stop, Start, StartFull, StartOactive, StartEmpty, StartDequeue, StartDrop, FillDesc, StartKick,
         CleanFrame, CleanSkip, CleanNext, CleanDone, Intr, IntrResume, MacHalt, MacFetch, MacNext,
         MacReceive, lockVars
    <3> QED
      BY <2>1, <3>1 DEF StartsAhead, Between
  <2>3. running' = running \/ running' = ~running
    BY DEF IInv, TypeOK
  <2> QED
    BY <2>1, <2>2, <2>3 DEF Fifo!Next, Fifo!Switch
<1> QED
  BY <1>1, <1>2, <1>3, <1>4, <1>5

(* The ring is a queue of whole frames, for every ring size.               *)
THEOREM RingIsFifo == Spec => ImplementsFifo
<1>1. Init => Fifo!Init /\ StartsAhead
  <2> SUFFICES ASSUME Init PROVE Fifo!Init /\ StartsAhead
    OBVIOUS
  <2>1. Starts = {} /\ ~running
    BY DEF Init, Starts, FreshDesc
  <2> QED
    BY <2>1, FS_EmptySet DEF Fifo!Init, pending, StartsAhead, Init
<1> QED
  BY <1>1, StepsFifo, PacketsHold, PTL DEF Spec, ImplementsFifo, Fifo!Spec
=============================================================================
