---------------------------- MODULE UsbInputProof ----------------------------
(***************************************************************************)
(* The descriptor of the USB input tasks has one place at a time, for      *)
(* every set of descriptors that open() may return.  OneToken counts the   *)
(* places; what makes it inductive is Begun, that there is no token before *)
(* usb_mouse_configuration, and Held, that a descriptor on its way to the  *)
(* read task is the open one.                                              *)
(***************************************************************************)
EXTENDS UsbInput, SequenceTheorems, TLAPS

(* Until exit, no kill flag is up and the open task is in its loop.        *)
Alive == mpc \in {"configure", "run"}
Unkilled == Alive => ~kill_otask /\ ~kill_rtask /\ opc \notin {"exit", "done"}

(* The tasks wait for the first message.                                   *)
Begun ==
    mpc = "configure" =>
        Len(omid) = 0 /\ Len(rmid) = 0 /\ OpenTurn = 0 /\ ReadTurn = 0

(* Only the right to open is ever handed back, never a descriptor.         *)
HandedBack ==
    /\ omsg = NoFd
    /\ rpc = "send" => rfd = NoFd

(* What is sent, waits or is read is the one open descriptor.              *)
Held ==
    /\ open \subseteq {ofd}
    /\ opc = "send" => open = {ofd}
    /\ Alive /\ Len(rmid) = 1 => rmid[1] = ofd /\ open = {ofd}
    /\ Alive /\ rpc = "read" => rfd = ofd /\ open = {ofd}

IInv ==
    /\ DeviceTypeOK /\ QueueTypeOK /\ OpenTypeOK /\ ReadTypeOK /\ MainTypeOK
    /\ Unkilled /\ Begun /\ OneToken /\ HandedBack /\ Held

LEMMA FdFacts ==
    /\ NoFd \notin Fd /\ Unset \notin Fd /\ NoFd # Unset
    /\ \A f \in Fd : f > 0
BY FdAssumption DEF NoFd, Unset

LEMMA PutProperties ==
    ASSUME NEW S, NEW q \in Seq(S), Len(q) <= Capacity, NEW e \in S
    PROVE  /\ Put(q, e) \in Seq(S)
           /\ Len(Put(q, e)) <= Capacity
           /\ Len(q) = 0 /\ mpc # "deleted" =>
                Len(Put(q, e)) = 1 /\ Put(q, e)[1] = e
<1>1. Append(q, e) \in Seq(S) /\ Len(Append(q, e)) = Len(q) + 1 /\ Len(q) \in Nat
      /\ Append(q, e)[Len(q) + 1] = e
  BY AppendProperties, LenProperties
<1>. QED  BY <1>1 DEF Put, Capacity

LEMMA InitInv == Init => IInv
<1>. SUFFICES ASSUME Init PROVE IInv
  OBVIOUS
<1>1. QueueTypeOK /\ Len(omid) = 0 /\ Len(rmid) = 0
  BY DEF Init, QueueTypeOK, Capacity
<1>2. DeviceTypeOK /\ OpenTypeOK /\ ReadTypeOK /\ MainTypeOK
  BY DEF Init, DeviceTypeOK, OpenTypeOK, ReadTypeOK, MainTypeOK
<1>3. Begun
  BY FdFacts DEF Init, Begun, OpenTurn, ReadTurn
<1>4. Unkilled /\ OneToken /\ HandedBack
  BY DEF Init, Unkilled, OneToken, HandedBack
<1>5. Held
  BY DEF Init, Held
<1>. QED  BY <1>1, <1>2, <1>3, <1>4, <1>5 DEF IInv

LEMMA ReadKeeps ==
    ASSUME IInv, ReadTask
    PROVE  IInv'
<1>1. CASE ReadStart
  <2>1. (DeviceTypeOK /\ QueueTypeOK /\ OpenTypeOK /\ MainTypeOK)'
    BY <1>1 DEF IInv, ReadStart, DeviceTypeOK, QueueTypeOK, OpenTypeOK,
       MainTypeOK, queueVars, openVars, fdVars, mainVars
  <2>2. ReadTypeOK'
    BY <1>1 DEF IInv, ReadStart, ReadTypeOK
  <2>3. Unkilled'
    BY <1>1 DEF IInv, ReadStart, Unkilled, Alive, openVars, mainVars
  <2>4. Begun'
    BY <1>1 DEF IInv, ReadStart, Begun, OpenTurn, ReadTurn, queueVars,
       openVars, mainVars
  <2>5. OneToken'
    BY <1>1 DEF IInv, ReadStart, OneToken, OpenTurn, ReadTurn, queueVars,
       openVars, mainVars
  <2>6. HandedBack'
    BY <1>1 DEF IInv, ReadStart, HandedBack, openVars
  <2>7. Held'
    BY <1>1 DEF IInv, ReadStart, Held, Alive, queueVars, openVars, fdVars,
       mainVars
  <2>. QED  BY <2>1, <2>2, <2>3, <2>4, <2>5, <2>6, <2>7 DEF IInv
<1>2. CASE ReadOuter
  <2>1. (DeviceTypeOK /\ QueueTypeOK /\ OpenTypeOK /\ MainTypeOK /\
       Unkilled)'
    BY <1>2 DEF IInv, ReadOuter, DeviceTypeOK, QueueTypeOK, OpenTypeOK,
       MainTypeOK, Unkilled, Alive, queueVars, killVars, openVars, fdVars,
       mainVars
  <2>2. ReadTypeOK'
    BY <1>2 DEF IInv, ReadOuter, ReadTypeOK, killVars
  <2>3. Begun'
    BY <1>2 DEF IInv, ReadOuter, Begun, OpenTurn, ReadTurn, queueVars,
       openVars, mainVars
  <2>4. OneToken'
    BY <1>2 DEF IInv, ReadOuter, OneToken, OpenTurn, ReadTurn, queueVars,
       openVars, mainVars
  <2>5. HandedBack'
    BY <1>2 DEF IInv, ReadOuter, HandedBack, openVars
  <2>6. Held'
    BY <1>2 DEF IInv, ReadOuter, Held, Alive, queueVars, openVars, fdVars,
       mainVars
  <2>. QED  BY <2>1, <2>2, <2>3, <2>4, <2>5, <2>6 DEF IInv
<1>3. CASE ReadReceive
  <2>0. /\ rmid' \in Seq(Fd) /\ rfd' \in Fd /\ rfd' = rmid[1]
        /\ Len(rmid) \in Nat \ {0} /\ Len(rmid') = Len(rmid) - 1
    BY <1>3 DEF IInv, ReadReceive, QueueTypeOK
  <2>1. (DeviceTypeOK /\ OpenTypeOK /\ MainTypeOK /\ Unkilled)'
    BY <1>3 DEF IInv, ReadReceive, DeviceTypeOK, OpenTypeOK, MainTypeOK,
       Unkilled, Alive, killVars, openVars, fdVars, mainVars
  <2>2. QueueTypeOK'
    BY <1>3 DEF IInv, ReadReceive, Capacity, QueueTypeOK
  <2>3. ReadTypeOK'
    BY <2>0, <1>3 DEF IInv, ReadReceive, ReadTypeOK, killVars
  <2>4. Begun'
    BY <1>3 DEF IInv, ReadReceive, Begun, mainVars
  <2>5. OneToken'
    BY <2>0, <1>3, FdFacts DEF IInv, ReadReceive, OneToken, OpenTurn,
       ReadTurn, openVars, mainVars
  <2>6. HandedBack'
    BY <1>3 DEF IInv, ReadReceive, HandedBack, openVars
  <2>7. Held'
    BY <2>0, <1>3 DEF IInv, ReadReceive, Held, Alive, Begun, OneToken,
       OpenTurn, ReadTurn, openVars, fdVars, mainVars
  <2>. QED  BY <2>1, <2>2, <2>3, <2>4, <2>5, <2>6, <2>7 DEF IInv
<1>4. CASE ReadKilled
  <2>1. (DeviceTypeOK /\ QueueTypeOK /\ OpenTypeOK /\ MainTypeOK /\
       Unkilled)'
    BY <1>4 DEF IInv, ReadKilled, DeviceTypeOK, QueueTypeOK, OpenTypeOK,
       MainTypeOK, Unkilled, Alive, queueVars, killVars, openVars, fdVars,
       mainVars
  <2>2. ReadTypeOK'
    BY <1>4 DEF IInv, ReadKilled, ReadTypeOK, killVars
  <2>3. Begun'
    BY <1>4 DEF IInv, ReadKilled, Begun, Unkilled, Alive, mainVars
  <2>4. OneToken'
    BY <1>4 DEF IInv, ReadKilled, OneToken, Unkilled, Alive, mainVars
  <2>5. HandedBack'
    BY <1>4 DEF IInv, ReadKilled, HandedBack, openVars
  <2>6. Held'
    BY <1>4 DEF IInv, ReadKilled, Held, Alive, Unkilled, openVars, fdVars,
       mainVars
  <2>. QED  BY <2>1, <2>2, <2>3, <2>4, <2>5, <2>6 DEF IInv
<1>5. CASE ReadFails
  <2>1. (DeviceTypeOK /\ QueueTypeOK /\ OpenTypeOK /\ MainTypeOK /\
       Unkilled)'
    BY <1>5 DEF IInv, ReadFails, DeviceTypeOK, QueueTypeOK, OpenTypeOK,
       MainTypeOK, Unkilled, Alive, queueVars, killVars, openVars, fdVars,
       mainVars
  <2>2. ReadTypeOK'
    BY <1>5 DEF IInv, ReadFails, ReadTypeOK, killVars
  <2>3. Begun'
    BY <1>5 DEF IInv, ReadFails, Begun, ReadTurn, mainVars
  <2>4. OneToken'
    BY <1>5 DEF IInv, ReadFails, OneToken, OpenTurn, ReadTurn, queueVars,
       openVars, mainVars
  <2>5. HandedBack'
    BY <1>5 DEF IInv, ReadFails, HandedBack, openVars
  <2>6. Held'
    BY <1>5 DEF IInv, ReadFails, Held, Alive, queueVars, openVars, fdVars,
       mainVars
  <2>. QED  BY <2>1, <2>2, <2>3, <2>4, <2>5, <2>6 DEF IInv
<1>6. CASE ReadSend
  <2>0. /\ omid' \in Seq({NoFd}) /\ Len(omid') <= Capacity
        /\ Len(omid) \in Nat /\ Len(rmid) \in Nat
        /\ Len(omid) = 0 /\ mpc # "deleted" => Len(omid') = 1
    BY PutProperties, <1>6 DEF IInv, ReadSend, QueueTypeOK, HandedBack
  <2>1. (DeviceTypeOK /\ OpenTypeOK /\ MainTypeOK /\ Unkilled)'
    BY <1>6 DEF IInv, ReadSend, DeviceTypeOK, OpenTypeOK, MainTypeOK,
       Unkilled, Alive, killVars, openVars, fdVars, mainVars
  <2>2. QueueTypeOK'
    BY <2>0, <1>6 DEF IInv, ReadSend, QueueTypeOK
  <2>3. ReadTypeOK'
    BY <1>6 DEF IInv, ReadSend, ReadTypeOK, killVars
  <2>4. Begun'
    BY <1>6 DEF IInv, ReadSend, Begun, ReadTurn, mainVars
  <2>5. OneToken'
    <3>. SUFFICES ASSUME mpc' = "run" PROVE (Len(omid) + Len(rmid) + OpenTurn + ReadTurn = 1)'
      BY DEF OneToken
    <3>1. ReadTurn = 1 /\ ReadTurn' = 0
      BY <1>6 DEF ReadSend, ReadTurn
    <3>2. OpenTurn' = OpenTurn /\ OpenTurn \in {0, 1}
      BY <1>6 DEF ReadSend, OpenTurn, openVars
    <3>3. Len(omid) = 0 /\ Len(rmid) + OpenTurn + ReadTurn = 1
      BY <1>6, <3>1, <3>2 DEF IInv, ReadSend, OneToken, mainVars
    <3>4. Len(omid') = 1 /\ Len(rmid') = Len(rmid)
      BY <2>0, <1>6, <3>3 DEF ReadSend, mainVars
    <3>. QED
      BY <3>1, <3>2, <3>3, <3>4
  <2>6. HandedBack'
    BY <1>6 DEF IInv, ReadSend, HandedBack, openVars
  <2>7. Held'
    BY <1>6 DEF IInv, ReadSend, Held, Alive, openVars, fdVars, mainVars
  <2>. QED  BY <2>1, <2>2, <2>3, <2>4, <2>5, <2>6, <2>7 DEF IInv
<1>. QED  BY <1>1, <1>2, <1>3, <1>4, <1>5, <1>6 DEF ReadTask

LEMMA OpenKeeps ==
    ASSUME IInv, OpenTask
    PROVE  IInv'
<1>1. CASE OpenStart
  <2>1. (DeviceTypeOK /\ QueueTypeOK /\ ReadTypeOK /\ MainTypeOK /\
       HandedBack)'
    BY <1>1 DEF IInv, OpenStart, DeviceTypeOK, QueueTypeOK, ReadTypeOK,
       MainTypeOK, HandedBack, queueVars, readVars, fdVars, mainVars
  <2>2. OpenTypeOK'
    BY <1>1 DEF IInv, OpenStart, OpenTypeOK
  <2>3. Unkilled'
    BY <1>1 DEF IInv, OpenStart, Unkilled, Alive, mainVars
  <2>4. Begun'
    BY <1>1 DEF IInv, OpenStart, Begun, OpenTurn, ReadTurn, queueVars,
       readVars, mainVars
  <2>5. OneToken'
    BY <1>1 DEF IInv, OpenStart, OneToken, OpenTurn, ReadTurn, queueVars,
       readVars, mainVars
  <2>6. Held'
    BY <1>1 DEF IInv, OpenStart, Held, Alive, queueVars, readVars, fdVars,
       mainVars
  <2>. QED  BY <2>1, <2>2, <2>3, <2>4, <2>5, <2>6 DEF IInv
<1>2. CASE OpenOuter
  <2>1. (DeviceTypeOK /\ QueueTypeOK /\ ReadTypeOK /\ MainTypeOK /\
       HandedBack)'
    BY <1>2 DEF IInv, OpenOuter, DeviceTypeOK, QueueTypeOK, ReadTypeOK,
       MainTypeOK, HandedBack, queueVars, killVars, readVars, fdVars, mainVars
  <2>2. OpenTypeOK'
    BY <1>2 DEF IInv, OpenOuter, OpenTypeOK, killVars
  <2>3. Unkilled'
    BY <1>2 DEF IInv, OpenOuter, Unkilled, Alive, killVars, mainVars
  <2>4. Begun'
    BY <1>2 DEF IInv, OpenOuter, Begun, OpenTurn, ReadTurn, queueVars,
       readVars, mainVars
  <2>5. OneToken'
    BY <1>2 DEF IInv, OpenOuter, OneToken, OpenTurn, ReadTurn, queueVars,
       readVars, mainVars
  <2>6. Held'
    BY <1>2 DEF IInv, OpenOuter, Held, Alive, queueVars, readVars, fdVars,
       mainVars
  <2>. QED  BY <2>1, <2>2, <2>3, <2>4, <2>5, <2>6 DEF IInv
<1>3. CASE OpenReceive
  <2>0. /\ omid' \in Seq({NoFd}) /\ omsg' = NoFd
        /\ Len(omid) \in Nat \ {0} /\ Len(omid') = Len(omid) - 1
    BY <1>3 DEF IInv, OpenReceive, QueueTypeOK
  <2>1. (DeviceTypeOK /\ ReadTypeOK /\ MainTypeOK)'
    BY <1>3 DEF IInv, OpenReceive, DeviceTypeOK, ReadTypeOK, MainTypeOK,
       killVars, readVars, fdVars, mainVars
  <2>2. QueueTypeOK'
    BY <1>3 DEF IInv, OpenReceive, Capacity, QueueTypeOK
  <2>3. OpenTypeOK'
    BY <2>0, <1>3 DEF IInv, OpenReceive, OpenTypeOK, killVars
  <2>4. Unkilled'
    BY <1>3 DEF IInv, OpenReceive, Unkilled, Alive, killVars, mainVars
  <2>5. Begun'
    BY <1>3 DEF IInv, OpenReceive, Begun, mainVars
  <2>6. OneToken'
    BY <1>3 DEF IInv, OpenReceive, OneToken, OpenTurn, ReadTurn, readVars,
       mainVars
  <2>7. HandedBack'
    BY <2>0, <1>3 DEF IInv, OpenReceive, HandedBack, readVars
  <2>8. Held'
    BY <1>3 DEF IInv, OpenReceive, Held, Alive, readVars, fdVars, mainVars
  <2>. QED  BY <2>1, <2>2, <2>3, <2>4, <2>5, <2>6, <2>7, <2>8 DEF IInv
<1>4. CASE OpenTimeout
  <2>1. (DeviceTypeOK /\ QueueTypeOK /\ ReadTypeOK /\ MainTypeOK /\
       HandedBack)'
    BY <1>4 DEF IInv, OpenTimeout, DeviceTypeOK, QueueTypeOK, ReadTypeOK,
       MainTypeOK, HandedBack, queueVars, killVars, readVars, fdVars, mainVars
  <2>2. OpenTypeOK'
    BY <1>4 DEF IInv, OpenTimeout, OpenTypeOK, killVars
  <2>3. Unkilled'
    BY <1>4 DEF IInv, OpenTimeout, Unkilled, Alive, killVars, mainVars
  <2>4. Begun'
    BY <1>4 DEF IInv, OpenTimeout, Begun, OpenTurn, ReadTurn, queueVars,
       readVars, mainVars
  <2>5. OneToken'
    BY <1>4 DEF IInv, OpenTimeout, OneToken, OpenTurn, ReadTurn, queueVars,
       readVars, mainVars
  <2>6. Held'
    BY <1>4 DEF IInv, OpenTimeout, Held, Alive, queueVars, readVars, fdVars,
       mainVars
  <2>. QED  BY <2>1, <2>2, <2>3, <2>4, <2>5, <2>6 DEF IInv
<1>5. CASE OpenClose
  <2>1. (QueueTypeOK /\ ReadTypeOK /\ MainTypeOK /\ HandedBack)'
    BY <1>5 DEF IInv, OpenClose, QueueTypeOK, ReadTypeOK, MainTypeOK,
       HandedBack, queueVars, killVars, readVars, mainVars
  <2>2. DeviceTypeOK'
    BY <1>5 DEF IInv, OpenClose, DeviceTypeOK
  <2>3. OpenTypeOK'
    BY <1>5 DEF IInv, OpenClose, OpenTypeOK, killVars
  <2>4. Unkilled'
    BY <1>5 DEF IInv, OpenClose, Unkilled, Alive, killVars, mainVars
  <2>5. Begun'
    BY <1>5 DEF IInv, OpenClose, Begun, OpenTurn, mainVars
  <2>6. OneToken'
    BY <1>5 DEF IInv, OpenClose, OneToken, OpenTurn, ReadTurn, HandedBack,
       queueVars, readVars, mainVars
  <2>7. Held'
    BY <1>5 DEF IInv, OpenClose, Held, Alive, Begun, OneToken, OpenTurn,
       ReadTurn, queueVars, readVars, mainVars
  <2>. QED  BY <2>1, <2>2, <2>3, <2>4, <2>5, <2>6, <2>7 DEF IInv
<1>6. CASE OpenTry
  <2>1. (QueueTypeOK /\ ReadTypeOK /\ MainTypeOK /\ HandedBack)'
    BY <1>6 DEF IInv, OpenTry, QueueTypeOK, ReadTypeOK, MainTypeOK,
       HandedBack, queueVars, killVars, readVars, mainVars
  <2>2. DeviceTypeOK'
    BY <1>6 DEF IInv, OpenTry, DeviceTypeOK, fdVars
  <2>3. OpenTypeOK'
    BY <1>6 DEF IInv, OpenTry, OpenTypeOK, killVars
  <2>4. Unkilled'
    BY <1>6 DEF IInv, OpenTry, Unkilled, Alive, killVars, mainVars
  <2>5. Begun'
    BY <1>6 DEF IInv, OpenTry, Begun, OpenTurn, ReadTurn, queueVars, readVars,
       mainVars
  <2>6. OneToken'
    BY <1>6 DEF IInv, OpenTry, OneToken, OpenTurn, ReadTurn, queueVars,
       readVars, mainVars
  <2>7. Held'
    BY <1>6, FdFacts DEF IInv, OpenTry, Held, Alive, DeviceTypeOK, queueVars,
       readVars, fdVars, mainVars
  <2>. QED  BY <2>1, <2>2, <2>3, <2>4, <2>5, <2>6, <2>7 DEF IInv
<1>7. CASE OpenSend
  <2>0. /\ rmid' \in Seq(Fd) /\ Len(rmid') <= Capacity
        /\ Len(omid) \in Nat /\ Len(rmid) \in Nat
        /\ Len(rmid) = 0 /\ mpc # "deleted" => Len(rmid') = 1 /\ rmid'[1] = ofd
    BY PutProperties, LenProperties, <1>7 DEF IInv, OpenSend, QueueTypeOK,
       DeviceTypeOK, Held
  <2>1. (DeviceTypeOK /\ ReadTypeOK /\ MainTypeOK /\ HandedBack)'
    BY <1>7 DEF IInv, OpenSend, DeviceTypeOK, ReadTypeOK, MainTypeOK,
       HandedBack, killVars, readVars, fdVars, mainVars
  <2>2. QueueTypeOK'
    BY <2>0, <1>7 DEF IInv, OpenSend, QueueTypeOK
  <2>3. OpenTypeOK'
    BY <1>7 DEF IInv, OpenSend, OpenTypeOK, killVars
  <2>4. Unkilled'
    BY <1>7 DEF IInv, OpenSend, Unkilled, Alive, killVars, mainVars
  <2>5. Begun'
    BY <1>7 DEF IInv, OpenSend, Begun, OpenTurn, mainVars
  <2>6. OneToken'
    <3>. SUFFICES ASSUME mpc' = "run" PROVE (Len(omid) + Len(rmid) + OpenTurn + ReadTurn = 1)'
      BY DEF OneToken
    <3>1. OpenTurn = 1 /\ OpenTurn' = 0
      BY <1>7, FdFacts DEF OpenSend, OpenTurn, IInv, Held, DeviceTypeOK
    <3>2. ReadTurn' = ReadTurn /\ ReadTurn \in {0, 1}
      BY <1>7 DEF OpenSend, ReadTurn, readVars
    <3>3. Len(rmid) = 0 /\ Len(omid) + OpenTurn + ReadTurn = 1
      BY <1>7, <3>1, <3>2 DEF IInv, OpenSend, OneToken, mainVars
    <3>4. Len(rmid') = 1 /\ Len(omid') = Len(omid)
      BY <2>0, <1>7, <3>3 DEF OpenSend, mainVars
    <3>. QED
      BY <3>1, <3>2, <3>3, <3>4
  <2>7. Held'
    BY <2>0, <1>7 DEF IInv, OpenSend, Held, Alive, Begun, OneToken, OpenTurn,
       ReadTurn, readVars, fdVars, mainVars
  <2>. QED  BY <2>1, <2>2, <2>3, <2>4, <2>5, <2>6, <2>7 DEF IInv
<1>8. CASE OpenExit
  <2>1. (QueueTypeOK /\ ReadTypeOK /\ MainTypeOK /\ HandedBack)'
    BY <1>8 DEF IInv, OpenExit, QueueTypeOK, ReadTypeOK, MainTypeOK,
       HandedBack, queueVars, killVars, readVars, mainVars
  <2>2. DeviceTypeOK'
    BY <1>8 DEF IInv, OpenExit, DeviceTypeOK
  <2>3. OpenTypeOK'
    BY <1>8 DEF IInv, OpenExit, OpenTypeOK, killVars
  <2>4. Unkilled'
    BY <1>8 DEF IInv, OpenExit, Unkilled, Alive, mainVars
  <2>5. Begun'
    BY <1>8 DEF IInv, OpenExit, Begun, Unkilled, Alive, mainVars
  <2>6. OneToken'
    BY <1>8 DEF IInv, OpenExit, OneToken, Unkilled, Alive, mainVars
  <2>7. Held'
    BY <1>8 DEF IInv, OpenExit, Held, Alive, Unkilled, mainVars
  <2>. QED  BY <2>1, <2>2, <2>3, <2>4, <2>5, <2>6, <2>7 DEF IInv
<1>. QED  BY <1>1, <1>2, <1>3, <1>4, <1>5, <1>6, <1>7, <1>8 DEF OpenTask

LEMMA MainKeeps ==
    ASSUME IInv, MainTask \/ Exit \/ Plug
    PROVE  IInv'
<1>1. CASE Configure
  <2>0. /\ omid' \in Seq({NoFd}) /\ Len(omid') <= Capacity
        /\ Len(omid) \in Nat /\ Len(rmid) \in Nat
        /\ Len(omid) = 0 /\ mpc # "deleted" => Len(omid') = 1
    BY PutProperties, <1>1 DEF IInv, Configure, QueueTypeOK
  <2>1. (DeviceTypeOK /\ OpenTypeOK /\ ReadTypeOK /\ HandedBack)'
    BY <1>1 DEF IInv, Configure, DeviceTypeOK, OpenTypeOK, ReadTypeOK,
       HandedBack, killVars, openVars, readVars, fdVars
  <2>2. QueueTypeOK'
    BY <2>0, <1>1 DEF IInv, Configure, QueueTypeOK
  <2>3. MainTypeOK'
    BY <1>1 DEF IInv, Configure, MainTypeOK
  <2>4. Unkilled'
    BY <1>1 DEF IInv, Configure, Unkilled, Alive, killVars, openVars
  <2>5. Begun'
    BY <1>1 DEF Configure, Begun
  <2>6. OneToken'
    <3>. SUFFICES ASSUME mpc' = "run" PROVE (Len(omid) + Len(rmid) + OpenTurn + ReadTurn = 1)'
      BY DEF OneToken
    <3>1. OpenTurn' = OpenTurn /\ OpenTurn \in {0, 1}
      BY <1>1 DEF Configure, OpenTurn, openVars
    <3>2. ReadTurn' = ReadTurn /\ ReadTurn \in {0, 1}
      BY <1>1 DEF Configure, ReadTurn, readVars
    <3>3. Len(omid) = 0 /\ Len(rmid) + OpenTurn + ReadTurn = 0
      BY <1>1 DEF IInv, Configure, Begun
    <3>4. Len(omid') = 1 /\ Len(rmid') = Len(rmid)
      BY <2>0, <1>1, <3>3 DEF Configure
    <3>. QED
      BY <3>1, <3>2, <3>3, <3>4
  <2>7. Held'
    BY <1>1 DEF IInv, Configure, Held, Alive, openVars, readVars, fdVars
  <2>. QED  BY <2>1, <2>2, <2>3, <2>4, <2>5, <2>6, <2>7 DEF IInv
<1>2. CASE ExitKill
  <2>1. (DeviceTypeOK /\ QueueTypeOK /\ OpenTypeOK /\ HandedBack)'
    BY <1>2 DEF IInv, ExitKill, DeviceTypeOK, QueueTypeOK, OpenTypeOK,
       HandedBack, queueVars, openVars, readVars, fdVars
  <2>2. ReadTypeOK'
    BY <1>2 DEF IInv, ExitKill, ReadTypeOK, readVars
  <2>3. MainTypeOK'
    BY <1>2 DEF IInv, ExitKill, MainTypeOK
  <2>4. Unkilled'
    BY <1>2 DEF ExitKill, Unkilled, Alive
  <2>5. Begun'
    BY <1>2 DEF ExitKill, Begun
  <2>6. OneToken'
    BY <1>2 DEF ExitKill, OneToken
  <2>7. Held'
    BY <1>2 DEF IInv, ExitKill, Held, Alive, openVars, fdVars
  <2>. QED  BY <2>1, <2>2, <2>3, <2>4, <2>5, <2>6, <2>7 DEF IInv
<1>3. CASE ExitDelete
  <2>1. (DeviceTypeOK /\ OpenTypeOK /\ ReadTypeOK /\ HandedBack)'
    BY <1>3 DEF IInv, ExitDelete, DeviceTypeOK, OpenTypeOK, ReadTypeOK,
       HandedBack, killVars, openVars, readVars, fdVars
  <2>2. QueueTypeOK'
    BY <1>3 DEF ExitDelete, Capacity, QueueTypeOK
  <2>3. MainTypeOK'
    BY <1>3 DEF IInv, ExitDelete, MainTypeOK
  <2>4. Unkilled'
    BY <1>3 DEF ExitDelete, Unkilled, Alive
  <2>5. Begun'
    BY <1>3 DEF ExitDelete, Begun
  <2>6. OneToken'
    BY <1>3 DEF ExitDelete, OneToken
  <2>7. Held'
    BY <1>3 DEF IInv, ExitDelete, Held, Alive, openVars, fdVars
  <2>. QED  BY <2>1, <2>2, <2>3, <2>4, <2>5, <2>6, <2>7 DEF IInv
<1>4. CASE Exit
  <2>1. (DeviceTypeOK /\ QueueTypeOK /\ ReadTypeOK /\ HandedBack)'
    BY <1>4 DEF IInv, Exit, DeviceTypeOK, QueueTypeOK, ReadTypeOK, HandedBack,
       queueVars, openVars, readVars, fdVars
  <2>2. OpenTypeOK'
    BY <1>4 DEF IInv, Exit, OpenTypeOK, openVars
  <2>3. MainTypeOK'
    BY <1>4 DEF Exit, MainTypeOK
  <2>4. Unkilled'
    BY <1>4 DEF Exit, Unkilled, Alive
  <2>5. Begun'
    BY <1>4 DEF Exit, Begun
  <2>6. OneToken'
    BY <1>4 DEF Exit, OneToken
  <2>7. Held'
    BY <1>4 DEF IInv, Exit, Held, Alive, openVars, fdVars
  <2>. QED  BY <2>1, <2>2, <2>3, <2>4, <2>5, <2>6, <2>7 DEF IInv
<1>5. CASE Plug
  <2>1. (QueueTypeOK /\ OpenTypeOK /\ ReadTypeOK /\ MainTypeOK /\ Unkilled
       /\ Begun /\ OneToken /\ HandedBack /\ Held)'
    BY <1>5 DEF IInv, Plug, QueueTypeOK, OpenTypeOK, ReadTypeOK, MainTypeOK,
       Unkilled, Begun, OneToken, HandedBack, Held, Alive, OpenTurn, ReadTurn,
       queueVars, killVars, openVars, readVars, mainVars
  <2>2. DeviceTypeOK'
    BY <1>5 DEF IInv, Plug, DeviceTypeOK
  <2>. QED  BY <2>1, <2>2 DEF IInv
<1>. QED  BY <1>1, <1>2, <1>3, <1>4, <1>5 DEF MainTask

LEMMA IInvHolds == Spec => []IInv
<1>1. IInv /\ [Next]_vars => IInv'
  <2>. SUFFICES ASSUME IInv, [Next]_vars PROVE IInv'
    OBVIOUS
  <2>1. CASE Next
    BY <2>1, ReadKeeps, OpenKeeps, MainKeeps DEF Next
  <2>2. CASE UNCHANGED vars
    <3>1. DeviceTypeOK' /\ QueueTypeOK' /\ OpenTypeOK' /\ ReadTypeOK' /\ MainTypeOK'
      BY <2>2 DEF IInv, DeviceTypeOK, QueueTypeOK, OpenTypeOK, ReadTypeOK,
         MainTypeOK, vars, fdVars, queueVars, killVars, openVars, readVars,
         mainVars
    <3>2. Unkilled' /\ Begun' /\ OneToken' /\ HandedBack' /\ Held'
      BY <2>2 DEF IInv, Unkilled, Alive, Begun, OneToken, HandedBack, Held,
         OpenTurn, ReadTurn, vars, fdVars, queueVars, killVars, openVars,
         readVars, mainVars
    <3>. QED  BY <3>1, <3>2 DEF IInv
  <2>. QED  BY <2>1, <2>2
<1>. QED  BY InitInv, <1>1, PTL DEF Spec

(* Types, and with them that a queue of 16 messages never overflows.       *)
THEOREM TypeCorrect == Spec => []TypeOK
<1>1. IInv => TypeOK
  BY DEF IInv, TypeOK
<1>. QED  BY <1>1, IInvHolds, PTL

(* The right to open the device is never lost and never doubled, whatever  *)
(* descriptors open() returns and however the device comes and goes        *)
(* (the messages of usb_mouse_open_task and usb_keyboard_read_task).       *)
THEOREM TokenKept == Spec => []OneToken
<1>1. IInv => OneToken
  BY DEF IInv
<1>. QED  BY <1>1, IInvHolds, PTL

(* The read task reads the one open descriptor and no other one leaks.     *)
THEOREM ReaderHasIt == Spec => []ReadsOpenDescriptor
<1>1. IInv => ReadsOpenDescriptor
  <2>. SUFFICES ASSUME IInv PROVE ReadsOpenDescriptor
    OBVIOUS
  <2>1. open \subseteq {ofd}
    BY DEF IInv, Held
  <2>2. ASSUME rpc = "read", Alive
        PROVE  open = {rfd} /\ opc # "send"
    <3>1. open = {rfd}
      BY <2>2 DEF IInv, Held
    <3>2. mpc = "run" /\ ReadTurn = 1
      BY <2>2 DEF IInv, Begun, Alive, ReadTurn
    <3>3. Len(omid) \in Nat /\ Len(rmid) \in Nat /\ OpenTurn \in {0, 1}
      BY DEF OpenTurn
    <3>4. OpenTurn = 0
      BY <3>2, <3>3 DEF IInv, OneToken
    <3>. QED  BY <3>1, <3>4 DEF OpenTurn
  <2>. QED  BY <2>1, <2>2 DEF ReadsOpenDescriptor, Alive
<1>. QED  BY <1>1, IInvHolds, PTL

-----------------------------------------------------------------------------
(* The end of the tasks.  The flags the exit handler waits for tell the    *)
(* truth about the tasks; what it needs besides is that a task it has seen *)
(* at work cannot begin a second time.                                     *)
ActiveInLoop ==
    /\ otask_active <=> opc \notin {"new", "done"}
    /\ rtask_active <=> rpc \notin {"new", "done"}

Ending ==
    /\ mpc \in {"kill", "wait", "deleted"} /\ ~early => opc # "new" /\ rpc # "new"
    /\ mpc = "deleted" /\ ~early => opc = "done" /\ rpc = "done"

LEMMA EndingStep == ActiveInLoop /\ Ending /\ [Next]_vars => ActiveInLoop' /\ Ending'
<1>. SUFFICES ASSUME ActiveInLoop, Ending, [Next]_vars PROVE ActiveInLoop' /\ Ending'
  OBVIOUS
<1>. USE DEF ActiveInLoop, Ending
<1>1. CASE ReadTask
  <2>1. CASE ReadStart \/ ReadOuter
    BY <2>1 DEF ReadStart, ReadOuter, openVars, mainVars
  <2>2. CASE ReadReceive \/ ReadKilled \/ ReadFails \/ ReadSend
    BY <2>2 DEF ReadReceive, ReadKilled, ReadFails, ReadSend, openVars, mainVars
  <2>. QED  BY <1>1, <2>1, <2>2 DEF ReadTask
<1>2. CASE OpenTask
  <2>1. CASE OpenStart \/ OpenOuter \/ OpenExit
    BY <2>1 DEF OpenStart, OpenOuter, OpenExit, readVars, mainVars
  <2>2. CASE OpenReceive \/ OpenTimeout \/ OpenClose \/ OpenTry \/ OpenSend
    BY <2>2 DEF OpenReceive, OpenTimeout, OpenClose, OpenTry, OpenSend, readVars, mainVars
  <2>. QED  BY <1>2, <2>1, <2>2 DEF OpenTask
<1>3. CASE Exit
  BY <1>3 DEF Exit, openVars, readVars
<1>4. CASE ExitDelete
  BY <1>4 DEF ExitDelete, ExitReady, openVars, readVars
<1>5. CASE Configure \/ ExitKill \/ Plug
  BY <1>5 DEF Configure, ExitKill, Plug, openVars, readVars, mainVars
<1>6. CASE UNCHANGED vars
  BY <1>6 DEF vars, openVars, readVars, mainVars
<1>. QED  BY <1>1, <1>2, <1>3, <1>4, <1>5, <1>6 DEF Next, MainTask

(* When default_usb_mouse_on_exit deletes the queues both tasks have left  *)
(* their loops for good, if both had begun when it was called.             *)
THEOREM QueuesLast == Spec => []QueuesOutliveTasks
<1>1. Init => ActiveInLoop /\ Ending
  BY DEF Init, ActiveInLoop, Ending
<1>2. Ending => QueuesOutliveTasks
  BY DEF Ending, QueuesOutliveTasks
<1>. QED  BY <1>1, <1>2, EndingStep, PTL DEF Spec
=============================================================================
