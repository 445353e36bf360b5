----------------------------- MODULE XmacRxProof -----------------------------
(***************************************************************************)
(* The receive ring keeps every buffer in one place, for every ring size   *)
(* and every number of buffers.  The invariant says where the buffers of   *)
(* the ring are: in the rxring_queued slots from the tail on (and, while   *)
(* fill_rqueue posts one, in the slot at the head).  Everything else rests *)
(* on it: the slot that fill_rqueue overwrites is empty, the one that recv *)
(* takes is not, and a descriptor of the MAC points to its slot's buffer.  *)
(* At the end, the same for the ring of the second driver (XmacMsgRx), and *)
(* which of its acknowledgements may lose a frame.                         *)
(***************************************************************************)
EXTENDS XmacMsgRx, SequenceTheorems, TLAPS

(* Steps from the tail to slot s, around the ring.                         *)
Offset(s) ==
    IF s >= rxring_tl_ptr THEN s - rxring_tl_ptr ELSE s - rxring_tl_ptr + NumDesc

Held == rxring_queued + IF pc = "post" THEN 1 ELSE 0

Window ==
    /\ Offset(rxring_hd_ptr) = rxring_queued
    /\ \A s \in Slot : rxring_m[s] # None <=> Offset(s) < Held

(* The bits of the descriptors: the lap ends at the last slot, and what    *)
(* the MAC may follow is the buffer the driver recorded.                   *)
Wraps == \A s \in Slot : rxring[s].wrap = (s = NumDesc - 1)
Pointing ==
    \A s \in Slot :
        ~rxring[s].new => /\ rxring[s].buf = rxring_m[s] /\ rxring[s].hi = rxring_m[s]
                          /\ rxring_m[s] # None

(* The buffer being posted is recorded, the upper half of its address is   *)
(* stored, and the descriptor is not yet the MAC's.                        *)
Posting ==
    pc = "post" =>
        /\ rxring_queued < RxBufs
        /\ m # None /\ rxring_m[rxring_hd_ptr] = m /\ rxring[rxring_hd_ptr].new
        /\ rxring[rxring_hd_ptr].hi = m

(* The receiver runs only while the interface does, or is being started.   *)
Starting == pc \in {"fill", "post"} /\ ret = "init"
Off == ~running /\ ~Starting => ~rxen /\ dma = {}
Stopping == pc = "stop" => ~running

(* The MAC writes to a buffer whose descriptor is still its own.           *)
Writing == dma # {} => ~rxring[rxq].new /\ dma = {rxring[rxq].buf}

Types == MemTypeOK /\ RingTypeOK /\ BatchTypeOK /\ MacTypeOK
Ring == Window /\ Wraps /\ Pointing /\ Posting
Receiver == Off /\ Stopping /\ Writing
Owners == Owned /\ Apart /\ BatchDistinct /\ RingDistinct
IInv == Types /\ Ring /\ Receiver /\ Owners

-----------------------------------------------------------------------------
LEMMA FollowingProperties ==
    ASSUME NEW s \in Slot
    PROVE  Following(s) \in Slot
BY ConfigAssumption DEF Following, Slot

LEMMA OffsetInjective ==
    ASSUME RingTypeOK, NEW s \in Slot, NEW t \in Slot
    PROVE  /\ Offset(s) \in 0 .. NumDesc - 1
           /\ Offset(s) = Offset(t) => s = t
BY ConfigAssumption DEF RingTypeOK, Offset, Slot

LEMMA OffsetFollowing ==
    ASSUME RingTypeOK, NEW s \in Slot, Offset(s) < NumDesc - 1
    PROVE  Offset(Following(s)) = Offset(s) + 1
BY ConfigAssumption DEF RingTypeOK, Offset, Following, Slot

(* The batch that recv hands over.                                         *)
LEMMA BatchGrows ==
    ASSUME m_hd \in Seq(Mbuf), NEW b \in Mbuf, m_hd' = Append(m_hd, b),
           BatchDistinct, b \notin InBatch
    PROVE  m_hd' \in Seq(Mbuf) /\ InBatch' = InBatch \cup {b} /\ BatchDistinct'
<1>1. /\ m_hd' \in Seq(Mbuf) /\ Len(m_hd) \in Nat /\ DOMAIN m_hd = 1 .. Len(m_hd)
      /\ DOMAIN m_hd' = 1 .. Len(m_hd) + 1
      /\ \A k \in 1 .. Len(m_hd) : m_hd'[k] = m_hd[k]
      /\ m_hd'[Len(m_hd) + 1] = b
  BY AppendProperties
<1>. QED  BY <1>1 DEF InBatch, BatchDistinct

LEMMA BatchShrinks ==
    ASSUME m_hd \in Seq(Mbuf), m_hd # <<>>, m_hd' = Tail(m_hd), BatchDistinct
    PROVE  /\ m_hd' \in Seq(Mbuf) /\ Head(m_hd) \in InBatch
           /\ InBatch' = InBatch \ {Head(m_hd)} /\ BatchDistinct'
<1>1. /\ m_hd' \in Seq(Mbuf) /\ Len(m_hd) \in Nat \ {0} /\ DOMAIN m_hd = 1 .. Len(m_hd)
      /\ DOMAIN m_hd' = 1 .. Len(m_hd) - 1
      /\ \A k \in 1 .. Len(m_hd) - 1 : m_hd'[k] = m_hd[k + 1]
  BY HeadTailProperties
<1>2. Head(m_hd) = m_hd[1]
  OBVIOUS
<1>3. ASSUME NEW k \in DOMAIN m_hd, k # 1
      PROVE  k - 1 \in DOMAIN m_hd' /\ m_hd'[k - 1] = m_hd[k]
  <2>1. k - 1 \in 1 .. Len(m_hd) - 1 /\ (k - 1) + 1 = k
    BY <1>3
  <2>. QED  BY <2>1
<1>4. \A k \in DOMAIN m_hd' : k + 1 \in DOMAIN m_hd /\ m_hd'[k] = m_hd[k + 1] /\ k + 1 # 1
  BY <1>1
<1>5. BatchDistinct'
  BY <1>1 DEF BatchDistinct
<1>6. 1 \in DOMAIN m_hd
  BY <1>1
<1>7. InBatch' = InBatch \ {Head(m_hd)}
  <2>1. ASSUME NEW b \in InBatch' PROVE b \in InBatch \ {Head(m_hd)}
    BY <1>2, <1>4, <1>6 DEF InBatch, BatchDistinct
  <2>2. ASSUME NEW b \in InBatch, b # Head(m_hd) PROVE b \in InBatch'
    BY <1>2, <1>3, <2>2 DEF InBatch
  <2>. QED  BY <2>1, <2>2
<1>. QED  BY <1>1, <1>2, <1>5, <1>6, <1>7 DEF InBatch

LEMMA InitInv == Init => IInv
<1>. SUFFICES ASSUME Init PROVE IInv
  OBVIOUS
<1>1. 0 \in Slot
  BY ConfigAssumption DEF Slot
<1>2. m_hd \in Seq(Mbuf) /\ DOMAIN m_hd = {}
  BY DEF Init
<1>3. Types
  <2>1. \A s \in Slot : FreshDesc(s) \in Desc
    BY DEF FreshDesc, Desc
  <2>2. RingTypeOK
    BY <1>1, <2>1, ConfigAssumption DEF Init, RingTypeOK
  <2>. QED  BY <1>1, <1>2, <2>2 DEF Init, Types, MemTypeOK
<1>4. Ring
  <2>1. Window
    BY <1>1, ConfigAssumption DEF Init, Window, Held, Offset, Slot
  <2>2. Wraps /\ Pointing /\ Posting
    BY DEF Init, Wraps, Pointing, Posting, FreshDesc
  <2>. QED  BY <2>1, <2>2 DEF Ring
<1>5. Receiver
  BY DEF Init, Receiver, Off, Stopping, Writing
<1>6. Owners
  BY ConfigAssumption DEF Init, Owners, Owned, Apart, BatchDistinct,
     RingDistinct, InRing, InBatch
<1>. QED  BY <1>3, <1>4, <1>5, <1>6 DEF IInv

LEMMA DriverKeeps ==
    ASSUME IInv, Driver
    PROVE  IInv'
<1>1. CASE FillAlloc
  <2>a. /\ m' \in pool /\ m' \in Mbuf /\ m' # None /\ pool' = pool \ {m'}
        /\ rxring_m[rxring_hd_ptr] = None
        /\ \A s \in Slot :
              rxring_m'[s] = IF s = rxring_hd_ptr THEN m' ELSE rxring_m[s]
    <3>1. m' \in pool /\ m' \in Mbuf /\ m' # None /\ pool' = pool \ {m'}
      BY <1>1, ConfigAssumption DEF IInv, FillAlloc, Types, MemTypeOK
    <3>2. rxring_m[rxring_hd_ptr] = None
      BY <1>1 DEF IInv, FillAlloc, Types, RingTypeOK, Ring, Window, Held
    <3>3. \A s \in Slot : rxring_m'[s] = IF s = rxring_hd_ptr THEN m' ELSE rxring_m[s]
      BY <1>1 DEF IInv, FillAlloc, Types, RingTypeOK
    <3>. QED  BY <3>1, <3>2, <3>3
  <2>. DEFINE h == HighDesc(rxring[rxring_hd_ptr], m')
  <2>c. /\ rxring_hd_ptr \in Slot /\ h \in Desc /\ h.hi = m'
        /\ h.new = rxring[rxring_hd_ptr].new /\ h.wrap = rxring[rxring_hd_ptr].wrap
        /\ h.buf = rxring[rxring_hd_ptr].buf
        /\ rxring' = [rxring EXCEPT ![rxring_hd_ptr] = h] /\ rxring' \in [Slot -> Desc]
        /\ \A s \in Slot : rxring'[s] = IF s = rxring_hd_ptr THEN h ELSE rxring[s]
    <3>1. rxring_hd_ptr \in Slot /\ rxring \in [Slot -> Desc] /\ rxring[rxring_hd_ptr] \in Desc
      BY DEF IInv, Types, RingTypeOK
    <3>2. /\ h \in Desc /\ h.hi = m' /\ h.new = rxring[rxring_hd_ptr].new
          /\ h.wrap = rxring[rxring_hd_ptr].wrap /\ h.buf = rxring[rxring_hd_ptr].buf
      BY <2>a, <3>1 DEF HighDesc, Desc
    <3>3. rxring' = [rxring EXCEPT ![rxring_hd_ptr] = h]
      BY <1>1 DEF FillAlloc
    <3>. HIDE DEF h
    <3>4. rxring' \in [Slot -> Desc]
      BY <3>1, <3>2, <3>3
    <3>5. \A s \in Slot : rxring'[s] = IF s = rxring_hd_ptr THEN h ELSE rxring[s]
      BY <3>1, <3>3
    <3>. QED  BY <3>1, <3>2, <3>3, <3>4, <3>5
  <2>. HIDE DEF h
  <2>d. \A s \in Slot : /\ rxring'[s].new = rxring[s].new /\ rxring'[s].wrap = rxring[s].wrap
                        /\ rxring'[s].buf = rxring[s].buf
                        /\ s # rxring_hd_ptr => rxring'[s].hi = rxring[s].hi
    BY <2>c
  <2>b. InRing' = InRing \cup {m'}
    BY <2>a, ConfigAssumption DEF IInv, Types, RingTypeOK, InRing
  <2>1. Types'
    <3>1. MacTypeOK'
      BY <1>1 DEF IInv, FillAlloc, Types, MacTypeOK, macVars
    <3>2. MemTypeOK'
      BY <1>1 DEF IInv, FillAlloc, Types, MemTypeOK
    <3>3. RingTypeOK'
      <4>1. rxring' \in [Slot -> Desc]
        BY <2>c
      <4>2. rxring_m' \in [Slot -> Mbuf \cup {None}]
        BY <1>1, <2>a DEF IInv, FillAlloc, Types, RingTypeOK
      <4>. QED  BY <1>1, <4>1, <4>2 DEF IInv, FillAlloc, Types, RingTypeOK
    <3>4. BatchTypeOK'
      BY <1>1 DEF IInv, FillAlloc, Types, MemTypeOK, BatchTypeOK
    <3>. QED  BY <3>1, <3>2, <3>3, <3>4 DEF Types
  <2>2. Ring'
    <3>1. Wraps'
      BY <2>d DEF IInv, Ring, Wraps
    <3>2. Window'
      <4>1. \A s \in Slot : Offset(s)' = Offset(s)
        BY <1>1 DEF FillAlloc, Offset
      <4>2. Held = rxring_queued /\ Held' = rxring_queued + 1
        BY <1>1 DEF IInv, FillAlloc, Types, RingTypeOK, Held
      <4>3. \A s \in Slot : Offset(s) = rxring_queued => s = rxring_hd_ptr
        BY OffsetInjective DEF IInv, Types, RingTypeOK, Ring, Window
      <4>4. \A s \in Slot : Offset(s) \in Int /\ rxring_queued \in Int
        BY OffsetInjective DEF IInv, Types, RingTypeOK
      <4>5. \A s \in Slot : rxring_m'[s] # None <=> Offset(s) < rxring_queued + 1
        BY <2>a, <4>2, <4>3, <4>4 DEF IInv, Ring, Window
      <4>. QED  BY <1>1, <4>1, <4>2, <4>5 DEF IInv, FillAlloc, Types,
                   RingTypeOK, Ring, Window
    <3>3. Pointing'
      <4>. SUFFICES ASSUME NEW s \in Slot, ~rxring'[s].new
                    PROVE  /\ rxring'[s].buf = rxring_m'[s] /\ rxring'[s].hi = rxring_m'[s]
                           /\ rxring_m'[s] # None
        BY DEF Pointing
      <4>1. /\ rxring[s].buf = rxring_m[s] /\ rxring[s].hi = rxring_m[s]
            /\ rxring_m[s] # None
        BY <2>d DEF IInv, Ring, Pointing
      <4>2. s # rxring_hd_ptr
        BY <2>a, <4>1
      <4>. QED  BY <2>a, <2>d, <4>1, <4>2
    <3>4. Posting'
      <4>1. rxring[rxring_hd_ptr].new
        BY <2>a, <2>c DEF IInv, Ring, Pointing
      <4>2. rxring'[rxring_hd_ptr].new /\ rxring'[rxring_hd_ptr].hi = m'
        BY <2>c, <4>1
      <4>. QED  BY <1>1, <2>a, <2>c, <4>2 DEF IInv, FillAlloc, Types, RingTypeOK,
                   Posting
    <3>. QED  BY <3>1, <3>2, <3>3, <3>4 DEF Ring
  <2>3. Receiver'
    <3>1. Writing'
      <4>1. rxq \in Slot /\ rxq' = rxq /\ dma' = dma
        BY <1>1 DEF IInv, FillAlloc, macVars, Types, MacTypeOK
      <4>. QED  BY <2>d, <4>1 DEF IInv, Receiver, Writing
    <3>2. Off'
      BY <1>1 DEF IInv, FillAlloc, Receiver, Off, Starting, macVars
    <3>3. Stopping'
      BY <1>1 DEF FillAlloc, Stopping
    <3>. QED  BY <3>1, <3>2, <3>3 DEF Receiver
  <2>4. Owners'
    <3>1. BatchDistinct'
      BY <1>1 DEF IInv, FillAlloc, Owners, BatchDistinct
    <3>2. Owned'
      BY <1>1, <2>b DEF IInv, FillAlloc, Owners, Owned, InBatch
    <3>3. Apart'
      BY <1>1, <2>b DEF IInv, FillAlloc, Owners, Apart, InBatch
    <3>4. RingDistinct'
      <4>1. \A s \in Slot : rxring_m[s] # m'
        BY <2>a DEF IInv, Owners, Apart, InRing
      <4>. QED  BY <2>a, <4>1 DEF IInv, Owners, RingDistinct
    <3>. QED  BY <3>1, <3>2, <3>3, <3>4 DEF Owners
  <2>. QED  BY <2>1, <2>2, <2>3, <2>4 DEF IInv
<1>2. CASE FillPost
  <2>. DEFINE f == FilledDesc(rxring[rxring_hd_ptr], rxring_hd_ptr, m)
  <2>a. /\ f \in Desc /\ ~f.new /\ f.buf = m /\ f.hi = m
        /\ f.wrap = (rxring_hd_ptr = NumDesc - 1)
        /\ \A s \in Slot : rxring'[s] = IF s = rxring_hd_ptr THEN f ELSE rxring[s]
    <3>1. /\ rxring_hd_ptr \in Slot /\ m \in Mbuf \cup {None} /\ rxring[rxring_hd_ptr] \in Desc
          /\ rxring[rxring_hd_ptr].hi = m
      BY <1>2 DEF IInv, FillPost, Types, RingTypeOK, BatchTypeOK, Ring, Posting
    <3>2. /\ f \in Desc /\ ~f.new /\ f.buf = m /\ f.hi = m
          /\ f.wrap = (rxring_hd_ptr = NumDesc - 1)
      BY <3>1 DEF FilledDesc, Desc
    <3>3. \A s \in Slot : rxring'[s] = IF s = rxring_hd_ptr THEN f ELSE rxring[s]
      BY <1>2, <3>1 DEF IInv, FillPost, Types, RingTypeOK
    <3>. QED  BY <3>2, <3>3
  <2>. HIDE DEF f
  <2>1. Types'
    <3>1. MemTypeOK' /\ MacTypeOK'
      BY <1>2 DEF IInv, FillPost, Types, MemTypeOK, MacTypeOK, memVars, macVars
    <3>2. RingTypeOK'
      <4>1. rxring' \in [Slot -> Desc] /\ rxring_hd_ptr' \in Slot
        BY <1>2, <2>a, FollowingProperties DEF IInv, FillPost, Types, RingTypeOK
      <4>2. rxring_queued' \in 0 .. RxBufs
        BY <1>2, ConfigAssumption DEF IInv, FillPost, Types, RingTypeOK, Ring,
           Posting
      <4>. QED  BY <1>2, <4>1, <4>2 DEF IInv, FillPost, Types, RingTypeOK
    <3>3. BatchTypeOK'
      BY <1>2 DEF IInv, FillPost, Types, BatchTypeOK
    <3>. QED  BY <3>1, <3>2, <3>3 DEF Types
  <2>2. Ring'
    <3>1. Window'
      <4>1. \A s \in Slot : Offset(s)' = Offset(s)
        BY <1>2 DEF FillPost, Offset
      <4>2. Held' = Held
        BY <1>2 DEF IInv, FillPost, Types, Held
      <4>3. Offset(Following(rxring_hd_ptr)) = rxring_queued + 1
        BY <1>2, ConfigAssumption, OffsetFollowing DEF IInv, FillPost, Types,
           RingTypeOK, Ring, Window, Posting
      <4>4. Offset(rxring_hd_ptr)' = rxring_queued'
        BY <1>2, <4>3 DEF FillPost, Offset
      <4>. QED  BY <1>2, <4>1, <4>2, <4>4 DEF IInv, FillPost, Ring, Window
    <3>2. Wraps'
      BY <2>a DEF IInv, Ring, Wraps
    <3>3. Pointing'
      BY <1>2, <2>a DEF IInv, FillPost, Ring, Pointing, Posting
    <3>4. Posting'
      BY <1>2 DEF FillPost, Posting
    <3>. QED  BY <3>1, <3>2, <3>3, <3>4 DEF Ring
  <2>3. Receiver'
    <3>1. Off'
      BY <1>2 DEF IInv, FillPost, Receiver, Off, Starting, macVars
    <3>2. Stopping'
      BY <1>2 DEF FillPost, Stopping
    <3>3. Writing'
      <4>. SUFFICES ASSUME dma # {} PROVE ~rxring'[rxq].new /\ dma = {rxring'[rxq].buf}
        BY <1>2 DEF FillPost, macVars, Writing
      <4>1. rxq \in Slot /\ ~rxring[rxq].new /\ dma = {rxring[rxq].buf}
        BY DEF IInv, Types, MacTypeOK, Receiver, Writing
      <4>2. rxq # rxring_hd_ptr
        BY <1>2, <4>1 DEF IInv, FillPost, Ring, Posting
      <4>. QED  BY <2>a, <4>1, <4>2
    <3>. QED  BY <3>1, <3>2, <3>3 DEF Receiver
  <2>4. Owners'
    BY <1>2 DEF IInv, FillPost, Owners, Owned, Apart, BatchDistinct,
       RingDistinct, InRing, InBatch, memVars
  <2>. QED  BY <2>1, <2>2, <2>3, <2>4 DEF IInv
<1>3. CASE FillDone
  <2>1. Types'
    <3>1. RingTypeOK' /\ BatchTypeOK' /\ MacTypeOK'
      BY <1>3 DEF IInv, FillDone, Types, RingTypeOK, BatchTypeOK, MacTypeOK,
         ringVars, macVars
    <3>2. MemTypeOK'
      BY <1>3 DEF IInv, FillDone, Types, MemTypeOK, memVars
    <3>. QED  BY <3>1, <3>2 DEF Types
  <2>2. Ring'
    <3>1. Wraps' /\ Pointing'
      BY <1>3 DEF IInv, FillDone, Ring, Wraps, Pointing, ringVars
    <3>2. Window'
      BY <1>3 DEF IInv, FillDone, Ring, Window, Offset, Held, ringVars
    <3>3. Posting'
      BY <1>3 DEF FillDone, Posting
    <3>. QED  BY <3>1, <3>2, <3>3 DEF Ring
  <2>3. Receiver'
    <3>1. Writing'
      BY <1>3 DEF IInv, FillDone, Receiver, Writing, ringVars, macVars
    <3>2. Off'
      BY <1>3 DEF IInv, FillDone, Receiver, Off, Starting, macVars
    <3>3. Stopping'
      BY <1>3 DEF FillDone, Stopping
    <3>. QED  BY <3>1, <3>2, <3>3 DEF Receiver
  <2>4. Owners'
    BY <1>3 DEF IInv, FillDone, Owners, Owned, Apart, BatchDistinct,
       RingDistinct, InRing, InBatch, memVars, ringVars
  <2>. QED  BY <2>1, <2>2, <2>3, <2>4 DEF IInv
<1>4. CASE RecvTake
  <2>. DEFINE b == rxring_m[rxring_tl_ptr]
  <2>a. /\ rxring_tl_ptr \in Slot /\ b \in Mbuf /\ b # None
        /\ \A s \in Slot : rxring_m'[s] = IF s = rxring_tl_ptr THEN None ELSE rxring_m[s]
    <3>1. rxring_tl_ptr \in Slot /\ Offset(rxring_tl_ptr) = 0 /\ Held = rxring_queued
      BY <1>4 DEF IInv, RecvTake, Types, RingTypeOK, Offset, Held, Slot
    <3>2. b # None
      BY <1>4, <3>1 DEF IInv, RecvTake, Ring, Window
    <3>3. \A s \in Slot : rxring_m'[s] = IF s = rxring_tl_ptr THEN None ELSE rxring_m[s]
      BY <1>4 DEF IInv, RecvTake, Types, RingTypeOK, Taken
    <3>. QED  BY <3>1, <3>2, <3>3 DEF IInv, Types, RingTypeOK
  <2>b. InRing' = InRing \ {b} /\ b \in InRing
    BY <2>a, ConfigAssumption DEF IInv, Owners, RingDistinct, InRing
  <2>c. b \notin InBatch /\ b \notin pool /\ b \notin stack
    BY <2>b DEF IInv, Owners, Apart
  <2>d. \/ /\ pool' = pool /\ m_hd' \in Seq(Mbuf)
           /\ InBatch' = InBatch \cup {b} /\ BatchDistinct'
        \/ /\ pool' = pool \cup {b} /\ m_hd' = m_hd /\ InBatch' = InBatch
    <3>1. CASE rxring[rxring_tl_ptr].good
      <4>1. pool' = pool /\ m_hd' = Append(m_hd, b)
        BY <1>4, <3>1 DEF RecvTake
      <4>. QED  BY <2>a, <2>c, <4>1, BatchGrows DEF IInv, Types, BatchTypeOK,
                   Owners
    <3>2. CASE ~rxring[rxring_tl_ptr].good
      BY <1>4, <3>2 DEF RecvTake, InBatch
    <3>. QED  BY <3>1, <3>2
  <2>1. Types'
    <3>1. MacTypeOK'
      BY <1>4 DEF IInv, RecvTake, Types, MacTypeOK, macVars
    <3>2. MemTypeOK'
      BY <1>4, <2>a, <2>d DEF IInv, RecvTake, Types, MemTypeOK
    <3>3. RingTypeOK'
      <4>1. rxring_m' \in [Slot -> Mbuf \cup {None}]
        BY <1>4 DEF IInv, RecvTake, Taken, Types, RingTypeOK
      <4>2. rxring_tl_ptr' \in Slot
        BY <1>4, <2>a, FollowingProperties DEF RecvTake
      <4>3. rxring_queued' \in 0 .. RxBufs
        BY <1>4, ConfigAssumption DEF IInv, RecvTake, Types, RingTypeOK
      <4>. QED  BY <1>4, <4>1, <4>2, <4>3 DEF IInv, RecvTake, Types, RingTypeOK
    <3>4. BatchTypeOK'
      BY <1>4, <2>d DEF IInv, RecvTake, Types, BatchTypeOK
    <3>. QED  BY <3>1, <3>2, <3>3, <3>4 DEF Types
  <2>2. Ring'
    <3>1. Wraps'
      BY <1>4 DEF IInv, RecvTake, Ring, Wraps
    <3>2. Window'
      <4>1. \A s \in Slot : Offset(s)' = IF s = rxring_tl_ptr THEN NumDesc - 1 ELSE Offset(s) - 1
        BY <1>4, ConfigAssumption DEF IInv, RecvTake, Types, RingTypeOK, Offset,
           Following, Slot
      <4>2. Held = rxring_queued /\ Held' = rxring_queued - 1
        BY <1>4 DEF IInv, RecvTake, Types, RingTypeOK, Held
      <4>3. rxring_queued \in 1 .. NumDesc - 1 /\ NumDesc \in Nat
        BY <1>4, ConfigAssumption DEF IInv, RecvTake, Types, RingTypeOK
      <4>4. \A s \in Slot : Offset(s) \in Int
        BY OffsetInjective DEF IInv, Types
      <4>5. \A s \in Slot : rxring_m'[s] # None <=> Offset(s)' < Held'
        BY <2>a, <4>1, <4>2, <4>3, <4>4 DEF IInv, Ring, Window
      <4>6. rxring_hd_ptr \in Slot /\ Offset(rxring_hd_ptr) = rxring_queued
            /\ Offset(rxring_tl_ptr) = 0
        BY DEF IInv, Types, RingTypeOK, Ring, Window, Offset, Slot
      <4>7. Offset(rxring_hd_ptr)' = rxring_queued - 1
        <5>1. rxring_hd_ptr # rxring_tl_ptr
          BY <4>3, <4>6
        <5>. QED  BY <1>4, <4>1, <4>6, <5>1 DEF RecvTake
      <4>. QED  BY <1>4, <4>5, <4>7 DEF RecvTake, Window
    <3>3. Pointing'
      <4>1. rxring' = rxring /\ rxring[rxring_tl_ptr].new
        BY <1>4 DEF RecvTake
      <4>. QED  BY <2>a, <4>1 DEF IInv, Ring, Pointing
    <3>4. Posting'
      BY <1>4 DEF RecvTake, Posting
    <3>. QED  BY <3>1, <3>2, <3>3, <3>4 DEF Ring
  <2>3. Receiver'
    BY <1>4 DEF IInv, RecvTake, Receiver, Off, Stopping, Writing, Starting,
       macVars
  <2>4. Owners'
    <3>1. Owned'
      BY <2>b, <2>d, <1>4 DEF IInv, RecvTake, Owners, Owned
    <3>2. Apart'
      BY <2>b, <2>d, <1>4 DEF IInv, RecvTake, Owners, Apart
    <3>3. BatchDistinct'
      BY <2>d DEF IInv, Owners, BatchDistinct
    <3>4. RingDistinct'
      BY <2>a DEF IInv, Owners, RingDistinct
    <3>. QED  BY <3>1, <3>2, <3>3, <3>4 DEF Owners
  <2>. QED  BY <2>1, <2>2, <2>3, <2>4 DEF IInv
<1>5. CASE RecvRefill
  <2>1. Types'
    BY <1>5 DEF IInv, RecvRefill, Types, MemTypeOK, RingTypeOK, BatchTypeOK,
       MacTypeOK, memVars, ringVars, macVars
  <2>2. Ring'
    <3>1. Wraps' /\ Pointing'
      BY <1>5 DEF IInv, RecvRefill, Ring, Wraps, Pointing, ringVars
    <3>2. Window'
      BY <1>5 DEF IInv, RecvRefill, Ring, Window, Offset, Held, ringVars
    <3>3. Posting'
      BY <1>5 DEF RecvRefill, Posting
    <3>. QED  BY <3>1, <3>2, <3>3 DEF Ring
  <2>3. Receiver'
    <3>1. Writing'
      BY <1>5 DEF IInv, RecvRefill, Receiver, Writing, ringVars, macVars
    <3>2. Off'
      BY <1>5 DEF IInv, RecvRefill, Receiver, Off, Starting, macVars
    <3>3. Stopping'
      BY <1>5 DEF RecvRefill, Stopping
    <3>. QED  BY <3>1, <3>2, <3>3 DEF Receiver
  <2>4. Owners'
    BY <1>5 DEF IInv, RecvRefill, Owners, Owned, Apart, BatchDistinct,
       RingDistinct, InRing, InBatch, memVars, ringVars
  <2>. QED  BY <2>1, <2>2, <2>3, <2>4 DEF IInv
<1>6. CASE IntrRest
  <2>1. Types'
    BY <1>6 DEF IInv, IntrRest, Types, MemTypeOK, RingTypeOK, BatchTypeOK,
       MacTypeOK, memVars, ringVars, macVars
  <2>2. Ring'
    <3>1. Wraps' /\ Pointing'
      BY <1>6 DEF IInv, IntrRest, Ring, Wraps, Pointing, ringVars
    <3>2. Window'
      BY <1>6 DEF IInv, IntrRest, Ring, Window, Offset, Held, ringVars
    <3>3. Posting'
      BY <1>6 DEF IntrRest, Posting
    <3>. QED  BY <3>1, <3>2, <3>3 DEF Ring
  <2>3. Receiver'
    <3>1. Writing'
      BY <1>6 DEF IInv, IntrRest, Receiver, Writing, ringVars, macVars
    <3>2. Off'
      BY <1>6 DEF IInv, IntrRest, Receiver, Off, Starting, macVars
    <3>3. Stopping'
      BY <1>6 DEF IntrRest, Stopping
    <3>. QED  BY <3>1, <3>2, <3>3 DEF Receiver
  <2>4. Owners'
    BY <1>6 DEF IInv, IntrRest, Owners, Owned, Apart, BatchDistinct,
       RingDistinct, InRing, InBatch, memVars, ringVars
  <2>. QED  BY <2>1, <2>2, <2>3, <2>4 DEF IInv
<1>7. CASE StopClear
  <2>a. /\ 0 \in Slot /\ \A s \in Slot : FreshDesc(s) \in Desc
        /\ \A s \in Slot : rxring_m'[s] = None
    BY <1>7, ConfigAssumption DEF StopClear, Slot, FreshDesc, Desc
  <2>b. InRing' = {} /\ pool' = pool \cup InRing
    <3>1. InRing' = {}
      BY <2>a, ConfigAssumption DEF InRing
    <3>2. {rxring_m[s] : s \in Slot} \ {None} = InRing
      BY ConfigAssumption DEF IInv, Types, RingTypeOK, InRing
    <3>. QED  BY <1>7, <3>1, <3>2 DEF StopClear
  <2>1. Types'
    <3>1. BatchTypeOK' /\ MacTypeOK'
      BY <1>7 DEF IInv, StopClear, Types, BatchTypeOK, MacTypeOK, macVars
    <3>2. MemTypeOK'
      BY <1>7, <2>b DEF IInv, StopClear, Types, MemTypeOK, InRing
    <3>3. RingTypeOK'
      <4>1. rxring' \in [Slot -> Desc]
        BY <1>7, <2>a DEF StopClear
      <4>2. rxring_m' \in [Slot -> Mbuf \cup {None}]
        BY <1>7 DEF StopClear
      <4>3. rxring_queued' \in 0 .. RxBufs
        BY <1>7, ConfigAssumption DEF StopClear, StopQueued
      <4>. QED  BY <1>7, <2>a, <4>1, <4>2, <4>3 DEF StopClear, RingTypeOK
    <3>. QED  BY <3>1, <3>2, <3>3 DEF Types
  <2>2. Ring'
    <3>1. Window'
      <4>1. /\ rxring_tl_ptr' = 0 /\ rxring_hd_ptr' = 0
            /\ rxring_queued' = 0 /\ Held' = 0
        BY <1>7 DEF StopClear, StopQueued, Held
      <4>2. \A s \in Slot : Offset(s)' = s
        BY <4>1 DEF Offset, Slot
      <4>3. Offset(rxring_hd_ptr)' = 0
        BY <4>1 DEF Offset
      <4>4. \A s \in Slot : ~(s < 0)
        BY DEF Slot
      <4>. QED  BY <2>a, <4>1, <4>2, <4>3, <4>4 DEF Window
    <3>2. Wraps'
      BY <1>7 DEF StopClear, Wraps, FreshDesc
    <3>3. Pointing'
      BY <1>7 DEF StopClear, Pointing, FreshDesc
    <3>4. Posting'
      BY <1>7 DEF StopClear, Posting
    <3>. QED  BY <3>1, <3>2, <3>3, <3>4 DEF Ring
  <2>3. Receiver'
    <3>1. Off'
      BY <1>7 DEF IInv, StopClear, Receiver, Off, Starting, macVars
    <3>2. Stopping'
      BY <1>7 DEF StopClear, Stopping
    <3>3. Writing'
      <4>1. dma = {}
        BY <1>7 DEF IInv, StopClear, Receiver, Stopping, Off, Starting
      <4>. QED  BY <1>7, <4>1 DEF StopClear, macVars, Writing
    <3>. QED  BY <3>1, <3>2, <3>3 DEF Receiver
  <2>4. Owners'
    <3>1. BatchDistinct'
      BY <1>7 DEF IInv, StopClear, Owners, BatchDistinct
    <3>2. Owned'
      BY <1>7, <2>b DEF IInv, StopClear, Owners, Owned, InBatch
    <3>3. Apart'
      BY <1>7, <2>b DEF IInv, StopClear, Owners, Apart, InBatch
    <3>4. RingDistinct'
      BY <2>a DEF RingDistinct
    <3>. QED  BY <3>1, <3>2, <3>3, <3>4 DEF Owners
  <2>. QED  BY <2>1, <2>2, <2>3, <2>4 DEF IInv
<1>. QED  BY <1>1, <1>2, <1>3, <1>4, <1>5, <1>6, <1>7 DEF Driver

LEMMA ThreadKeeps ==
    ASSUME IInv, Intr \/ Deliver \/ RecvRelock \/ InitLocked \/ Stop \/ StackFree
    PROVE  IInv'
<1>1. CASE Intr
  <2>1. Types'
    <3>1. MemTypeOK' /\ RingTypeOK' /\ BatchTypeOK'
      BY <1>1 DEF IInv, Intr, Types, MemTypeOK, RingTypeOK, BatchTypeOK,
         memVars, ringVars
    <3>2. MacTypeOK'
      BY <1>1 DEF IInv, Intr, Types, MacTypeOK
    <3>. QED  BY <3>1, <3>2 DEF Types
  <2>2. Ring'
    <3>1. Wraps' /\ Pointing'
      BY <1>1 DEF IInv, Intr, Ring, Wraps, Pointing, ringVars
    <3>2. Window'
      BY <1>1 DEF IInv, Intr, Ring, Window, Offset, Held, IntrGuard, IntrPc,
         ringVars
    <3>3. Posting'
      BY <1>1 DEF Intr, Posting, IntrPc
    <3>. QED  BY <3>1, <3>2, <3>3 DEF Ring
  <2>3. Receiver'
    <3>1. Writing'
      BY <1>1 DEF IInv, Intr, Receiver, Writing, ringVars
    <3>2. Off'
      BY <1>1 DEF Intr, Off, IntrGuard
    <3>3. Stopping'
      BY <1>1 DEF Intr, Stopping, IntrPc
    <3>. QED  BY <3>1, <3>2, <3>3 DEF Receiver
  <2>4. Owners'
    BY <1>1 DEF IInv, Intr, Owners, Owned, Apart, BatchDistinct, RingDistinct,
       InRing, InBatch, memVars, ringVars
  <2>. QED  BY <2>1, <2>2, <2>3, <2>4 DEF IInv
<1>2. CASE Deliver
  <2>a. /\ m_hd' \in Seq(Mbuf) /\ Head(m_hd) \in InBatch
        /\ InBatch' = InBatch \ {Head(m_hd)} /\ BatchDistinct'
    BY <1>2, BatchShrinks DEF IInv, Deliver, Types, BatchTypeOK, Owners
  <2>b. stack' = stack \cup {Head(m_hd)} /\ Head(m_hd) \in Mbuf /\ InRing' = InRing
    <3>1. Head(m_hd) \in Mbuf
      BY <2>a DEF IInv, Owners, Owned
    <3>. QED  BY <1>2, <3>1 DEF Deliver, ringVars, InRing
  <2>1. Types'
    <3>1. RingTypeOK' /\ MacTypeOK'
      BY <1>2 DEF IInv, Deliver, Types, RingTypeOK, MacTypeOK, ringVars, macVars
    <3>2. MemTypeOK'
      BY <1>2, <2>b DEF IInv, Deliver, Types, MemTypeOK
    <3>3. BatchTypeOK'
      BY <1>2, <2>a DEF IInv, Deliver, Types, BatchTypeOK
    <3>. QED  BY <3>1, <3>2, <3>3 DEF Types
  <2>2. Ring'
    BY <1>2 DEF IInv, Deliver, Ring, Window, Wraps, Pointing, Posting, Offset,
       Held, ringVars
  <2>3. Receiver'
    BY <1>2 DEF IInv, Deliver, Receiver, Off, Stopping, Writing, Starting,
       ringVars, macVars
  <2>4. Owners'
    <3>1. RingDistinct'
      BY <1>2 DEF IInv, Deliver, Owners, RingDistinct, ringVars
    <3>2. Owned'
      BY <1>2, <2>a, <2>b DEF IInv, Deliver, Owners, Owned
    <3>3. Apart'
      BY <1>2, <2>a, <2>b DEF IInv, Deliver, Owners, Apart
    <3>4. BatchDistinct'
      BY <2>a
    <3>. QED  BY <3>1, <3>2, <3>3, <3>4 DEF Owners
  <2>. QED  BY <2>1, <2>2, <2>3, <2>4 DEF IInv
<1>3. CASE RecvRelock
  <2>1. Types'
    BY <1>3 DEF IInv, RecvRelock, Types, MemTypeOK, RingTypeOK, BatchTypeOK,
       MacTypeOK, memVars, ringVars, macVars
  <2>2. Ring'
    <3>1. Wraps' /\ Pointing'
      BY <1>3 DEF IInv, RecvRelock, Ring, Wraps, Pointing, ringVars
    <3>2. Window'
      BY <1>3 DEF IInv, RecvRelock, Ring, Window, Offset, Held, ringVars
    <3>3. Posting'
      BY <1>3 DEF RecvRelock, Posting
    <3>. QED  BY <3>1, <3>2, <3>3 DEF Ring
  <2>3. Receiver'
    <3>1. Writing'
      BY <1>3 DEF IInv, RecvRelock, Receiver, Writing, ringVars, macVars
    <3>2. Off'
      BY <1>3 DEF IInv, RecvRelock, Receiver, Off, Starting, macVars
    <3>3. Stopping'
      BY <1>3 DEF RecvRelock, Stopping
    <3>. QED  BY <3>1, <3>2, <3>3 DEF Receiver
  <2>4. Owners'
    BY <1>3 DEF IInv, RecvRelock, Owners, Owned, Apart, BatchDistinct,
       RingDistinct, InRing, InBatch, memVars, ringVars
  <2>. QED  BY <2>1, <2>2, <2>3, <2>4 DEF IInv
<1>4. CASE InitLocked
  <2>1. Types'
    <3>1. MemTypeOK' /\ RingTypeOK' /\ BatchTypeOK'
      BY <1>4 DEF IInv, InitLocked, Types, MemTypeOK, RingTypeOK, BatchTypeOK,
         memVars, ringVars
    <3>2. MacTypeOK'
      <4>1. 0 \in Slot
        BY ConfigAssumption DEF Slot
      <4>. QED  BY <1>4, <4>1 DEF IInv, InitLocked, Types, MacTypeOK
    <3>. QED  BY <3>1, <3>2 DEF Types
  <2>2. Ring'
    <3>1. Wraps' /\ Pointing'
      BY <1>4 DEF IInv, InitLocked, Ring, Wraps, Pointing, ringVars
    <3>2. Window'
      BY <1>4 DEF IInv, InitLocked, Ring, Window, Offset, Held, ringVars
    <3>3. Posting'
      BY <1>4 DEF InitLocked, Posting
    <3>. QED  BY <3>1, <3>2, <3>3 DEF Ring
  <2>3. Receiver'
    <3>1. Off'
      BY <1>4 DEF InitLocked, Off, Starting
    <3>2. Stopping'
      BY <1>4 DEF InitLocked, Stopping
    <3>3. Writing'
      <4>1. dma = {}
        BY <1>4 DEF IInv, InitLocked, Receiver, Off, Starting
      <4>. QED  BY <1>4, <4>1 DEF InitLocked, Writing
    <3>. QED  BY <3>1, <3>2, <3>3 DEF Receiver
  <2>4. Owners'
    BY <1>4 DEF IInv, InitLocked, Owners, Owned, Apart, BatchDistinct,
       RingDistinct, InRing, InBatch, memVars, ringVars
  <2>. QED  BY <2>1, <2>2, <2>3, <2>4 DEF IInv
<1>5. CASE Stop
  <2>1. Types'
    <3>1. RingTypeOK' /\ BatchTypeOK'
      BY <1>5 DEF IInv, Stop, Types, RingTypeOK, BatchTypeOK, ringVars
    <3>2. MemTypeOK'
      BY <1>5 DEF IInv, Stop, Types, MemTypeOK, memVars
    <3>3. MacTypeOK'
      BY <1>5 DEF IInv, Stop, Types, MacTypeOK
    <3>. QED  BY <3>1, <3>2, <3>3 DEF Types
  <2>2. Ring'
    <3>1. Wraps' /\ Pointing'
      BY <1>5 DEF IInv, Stop, Ring, Wraps, Pointing, ringVars
    <3>2. Window'
      BY <1>5 DEF IInv, Stop, Ring, Window, Offset, Held, ringVars
    <3>3. Posting'
      BY <1>5 DEF Stop, Posting
    <3>. QED  BY <3>1, <3>2, <3>3 DEF Ring
  <2>3. Receiver'
    <3>1. Off'
      BY <1>5 DEF Stop, Off
    <3>2. Stopping'
      BY <1>5 DEF Stop, Stopping
    <3>3. Writing'
      BY <1>5 DEF Stop, Writing
    <3>. QED  BY <3>1, <3>2, <3>3 DEF Receiver
  <2>4. Owners'
    BY <1>5 DEF IInv, Stop, Owners, Owned, Apart, BatchDistinct, RingDistinct,
       InRing, InBatch, memVars, ringVars
  <2>. QED  BY <2>1, <2>2, <2>3, <2>4 DEF IInv
<1>6. CASE StackFree
  <2>a. PICK b \in stack : stack' = stack \ {b} /\ pool' = pool \cup {b}
    BY <1>6 DEF StackFree
  <2>1. Types'
    <3>1. RingTypeOK' /\ BatchTypeOK' /\ MacTypeOK'
      BY <1>6 DEF IInv, StackFree, Types, RingTypeOK, BatchTypeOK, MacTypeOK,
         ringVars, lockVars, macVars
    <3>2. MemTypeOK'
      BY <1>6, <2>a DEF IInv, StackFree, Types, MemTypeOK
    <3>. QED  BY <3>1, <3>2 DEF Types
  <2>2. Ring'
    BY <1>6 DEF IInv, StackFree, Ring, Window, Wraps, Pointing, Posting, Offset,
       Held, ringVars, lockVars
  <2>3. Receiver'
    BY <1>6 DEF IInv, StackFree, Receiver, Off, Stopping, Writing, Starting,
       ringVars, lockVars, macVars
  <2>4. Owners'
    <3>1. BatchDistinct' /\ RingDistinct'
      BY <1>6 DEF IInv, StackFree, Owners, BatchDistinct, RingDistinct,
         ringVars, lockVars
    <3>2. Owned'
      BY <1>6 DEF IInv, StackFree, Owners, Owned, InRing, InBatch, ringVars,
         lockVars
    <3>3. Apart'
      BY <1>6 DEF IInv, StackFree, Owners, Apart, InRing, InBatch, ringVars,
         lockVars
    <3>. QED  BY <3>1, <3>2, <3>3 DEF Owners
  <2>. QED  BY <2>1, <2>2, <2>3, <2>4 DEF IInv
<1>. QED  BY <1>1, <1>2, <1>3, <1>4, <1>5, <1>6

LEMMA MacKeeps ==
    ASSUME IInv, Mac
    PROVE  IInv'
<1>1. CASE MacBegin
  <2>1. Types'
    <3>1. MemTypeOK' /\ RingTypeOK' /\ BatchTypeOK'
      BY <1>1 DEF IInv, MacBegin, Types, MemTypeOK, RingTypeOK, BatchTypeOK,
         memVars, ringVars, lockVars
    <3>2. MacTypeOK'
      <4>1. rxring[rxq].buf \in Mbuf /\ rxring[rxq].hi = rxring[rxq].buf
        BY <1>1 DEF IInv, MacBegin, Types, RingTypeOK, MacTypeOK, Ring, Pointing
      <4>. QED  BY <1>1, <4>1 DEF IInv, MacBegin, Types, MacTypeOK
    <3>. QED  BY <3>1, <3>2 DEF Types
  <2>2. Ring'
    BY <1>1 DEF IInv, MacBegin, Ring, Window, Wraps, Pointing, Posting, Offset,
       Held, ringVars, lockVars
  <2>3. Receiver'
    <3>1. Stopping'
      BY <1>1 DEF IInv, MacBegin, Receiver, Stopping, memVars, lockVars
    <3>2. Off'
      BY <1>1 DEF IInv, MacBegin, Receiver, Off, Starting, lockVars
    <3>3. Writing'
      BY <1>1 DEF IInv, Types, MacTypeOK, Ring, Pointing, MacBegin, Writing, ringVars
    <3>. QED  BY <3>1, <3>2, <3>3 DEF Receiver
  <2>4. Owners'
    BY <1>1 DEF IInv, MacBegin, Owners, Owned, Apart, BatchDistinct,
       RingDistinct, InRing, InBatch, memVars, ringVars, lockVars
  <2>. QED  BY <2>1, <2>2, <2>3, <2>4 DEF IInv
<1>2. CASE MacEnd
  <2>a. /\ rxq \in Slot
        /\ \E d \in Desc :
              /\ d.new /\ d.wrap = rxring[rxq].wrap
              /\ rxring' = [rxring EXCEPT ![rxq] = d]
    <3>1. PICK ok \in BOOLEAN :
             rxring' = [rxring EXCEPT ![rxq] =
                [rxring[rxq] EXCEPT !.new = TRUE, !.buf = None, !.hi = None, !.good = ok]]
      BY <1>2 DEF MacEnd
    <3>2. rxq \in Slot /\ rxring[rxq] \in Desc
      BY DEF IInv, Types, RingTypeOK, MacTypeOK
    <3>. DEFINE d == [rxring[rxq] EXCEPT !.new = TRUE, !.buf = None, !.hi = None, !.good = ok]
    <3>3. d \in Desc /\ d.new /\ d.wrap = rxring[rxq].wrap
      BY <3>2 DEF Desc
    <3>. QED  BY <3>1, <3>2, <3>3
  <2>b. PICK d \in Desc :
           d.new /\ d.wrap = rxring[rxq].wrap /\ rxring' = [rxring EXCEPT ![rxq] = d]
    BY <2>a
  <2>c. \A s \in Slot : rxring'[s] = IF s = rxq THEN d ELSE rxring[s]
    BY <2>a, <2>b DEF IInv, Types, RingTypeOK
  <2>1. Types'
    <3>1. MemTypeOK' /\ BatchTypeOK'
      BY <1>2 DEF IInv, MacEnd, Types, MemTypeOK, BatchTypeOK, memVars, lockVars
    <3>2. RingTypeOK'
      BY <1>2, <2>a, <2>b DEF IInv, MacEnd, Types, RingTypeOK
    <3>3. MacTypeOK'
      <4>1. rxq' \in Slot
        <5>1. rxring[rxq].wrap = (rxq = NumDesc - 1)
          BY <2>a DEF IInv, Ring, Wraps
        <5>2. CASE rxq = NumDesc - 1
          <6>1. rxq' = 0
            BY <1>2, <5>1, <5>2 DEF MacEnd
          <6>. QED  BY <6>1, ConfigAssumption DEF Slot
        <5>3. CASE rxq # NumDesc - 1
          <6>1. rxq' = rxq + 1
            BY <1>2, <5>1, <5>3 DEF MacEnd
          <6>. QED  BY <2>a, <5>3, <6>1, ConfigAssumption DEF Slot
        <5>. QED  BY <5>2, <5>3
      <4>. QED  BY <1>2, <4>1 DEF IInv, MacEnd, Types, MacTypeOK
    <3>. QED  BY <3>1, <3>2, <3>3 DEF Types
  <2>2. Ring'
    <3>1. Window'
      BY <1>2 DEF IInv, MacEnd, Ring, Window, Offset, Held, lockVars
    <3>2. Wraps'
      BY <2>a, <2>b, <2>c DEF IInv, Ring, Wraps
    <3>3. Pointing'
      <4>1. rxring_m' = rxring_m
        BY <1>2 DEF MacEnd
      <4>2. \A s \in Slot : ~rxring'[s].new => s # rxq /\ rxring'[s] = rxring[s]
        BY <2>b, <2>c
      <4>. QED  BY <4>1, <4>2 DEF IInv, Ring, Pointing
    <3>4. Posting'
      <4>1. CASE pc = "post"
        <5>1. /\ rxring_queued < RxBufs /\ m # None /\ rxring_m[rxring_hd_ptr] = m
              /\ rxring[rxring_hd_ptr].new /\ rxring[rxring_hd_ptr].hi = m
              /\ rxring_hd_ptr \in Slot
          BY <4>1 DEF IInv, Types, RingTypeOK, Ring, Posting
        <5>2. rxring_hd_ptr # rxq
          BY <1>2, <5>1 DEF IInv, MacEnd, Receiver, Writing
        <5>3. rxring'[rxring_hd_ptr] = rxring[rxring_hd_ptr]
          BY <2>b, <2>c, <5>1, <5>2
        <5>. QED  BY <1>2, <5>1, <5>3 DEF MacEnd, Posting, lockVars
      <4>2. CASE pc # "post"
        BY <1>2, <4>2 DEF MacEnd, Posting, lockVars
      <4>. QED  BY <4>1, <4>2
    <3>. QED  BY <3>1, <3>2, <3>3, <3>4 DEF Ring
  <2>3. Receiver'
    <3>1. Stopping'
      BY <1>2 DEF IInv, MacEnd, Receiver, Stopping, lockVars
    <3>2. Off'
      BY <1>2 DEF IInv, MacEnd, Receiver, Off, Starting, lockVars
    <3>3. Writing'
      BY <1>2 DEF MacEnd, Writing
    <3>. QED  BY <3>1, <3>2, <3>3 DEF Receiver
  <2>4. Owners'
    BY <1>2 DEF IInv, MacEnd, Owners, Owned, Apart, BatchDistinct, RingDistinct,
       InRing, InBatch, memVars, lockVars
  <2>. QED  BY <2>1, <2>2, <2>3, <2>4 DEF IInv
<1>3. CASE MacNoBuffer
  <2>1. Types'
    <3>1. MemTypeOK' /\ RingTypeOK' /\ BatchTypeOK'
      BY <1>3 DEF IInv, MacNoBuffer, Types, MemTypeOK, RingTypeOK, BatchTypeOK,
         memVars, ringVars, lockVars
    <3>2. MacTypeOK'
      BY <1>3 DEF IInv, MacNoBuffer, Types, MacTypeOK
    <3>. QED  BY <3>1, <3>2 DEF Types
  <2>2. Ring'
    BY <1>3 DEF IInv, MacNoBuffer, Ring, Window, Wraps, Pointing, Posting,
       Offset, Held, ringVars, lockVars
  <2>3. Receiver'
    BY <1>3 DEF IInv, MacNoBuffer, Receiver, Off, Stopping, Writing, Starting,
       lockVars
  <2>4. Owners'
    BY <1>3 DEF IInv, MacNoBuffer, Owners, Owned, Apart, BatchDistinct,
       RingDistinct, InRing, InBatch, memVars, ringVars, lockVars
  <2>. QED  BY <2>1, <2>2, <2>3, <2>4 DEF IInv
<1>. QED  BY <1>1, <1>2, <1>3 DEF Mac

LEMMA StutterKeeps ==
    ASSUME IInv, UNCHANGED vars
    PROVE  IInv'
<1>. USE DEF vars, memVars, ringVars, lockVars, macVars
<1>1. Types'
  BY DEF IInv, Types, MemTypeOK, RingTypeOK, BatchTypeOK, MacTypeOK
<1>2. Ring'
  BY DEF IInv, Ring, Window, Offset, Held, Wraps, Pointing, Posting
<1>3. Receiver'
  BY DEF IInv, Receiver, Off, Starting, Stopping, Writing
<1>4. Owners'
  BY DEF IInv, Owners, Owned, Apart, BatchDistinct, RingDistinct, InRing,
     InBatch
<1>. QED  BY <1>1, <1>2, <1>3, <1>4 DEF IInv

LEMMA IInvHolds == Spec => []IInv
<1>1. IInv /\ [Next]_vars => IInv'
  <2>. SUFFICES ASSUME IInv, [Next]_vars PROVE IInv'
    OBVIOUS
  <2>1. CASE Next
    BY <2>1, DriverKeeps, ThreadKeeps, MacKeeps DEF Next
  <2>2. CASE UNCHANGED vars
    BY <2>2, StutterKeeps
  <2>. QED  BY <2>1, <2>2
<1>. QED  BY InitInv, <1>1, PTL DEF Spec

(* The locals of the lock holder; v2 has other ones (XmacMsgRx), so they   *)
(* are no part of IInv.                                                    *)
LEMMA LockTyped ==
    ASSUME MacTypeOK, LockTypeOK, [Next]_vars
    PROVE  LockTypeOK'
<1>1. CASE Driver
  BY <1>1 DEF LockTypeOK, Driver, FillAlloc, FillPost, FillDone, RecvTake,
     RecvRefill, IntrRest, StopClear
<1>2. CASE Intr
  BY <1>2 DEF MacTypeOK, LockTypeOK, Intr, IntrPc
<1>3. CASE Deliver \/ RecvRelock \/ InitLocked \/ Stop
  BY <1>3 DEF LockTypeOK, Deliver, RecvRelock, InitLocked, Stop
<1>4. CASE Mac \/ StackFree \/ UNCHANGED vars
  BY <1>4 DEF LockTypeOK, Mac, MacBegin, MacEnd, MacNoBuffer, StackFree, vars,
     lockVars
<1>. QED  BY <1>1, <1>2, <1>3, <1>4 DEF Next

(* Types: indices of the driver and of the MAC stay in the ring, the count *)
(* at or below RxBufs.                                                     *)
THEOREM TypeCorrect == Spec => []TypeOK
<1>1. IInv => MacTypeOK
  BY DEF IInv, Types
<1>2. Init => LockTypeOK
  BY DEF Init, LockTypeOK
<1>3. IInv /\ LockTypeOK => TypeOK
  BY DEF IInv, Types, TypeOK
<1>. QED  BY <1>1, <1>2, <1>3, LockTyped, IInvHolds, PTL DEF Spec

(* The MAC writes frames to buffers of the ring only, whenever the         *)
(* interface is stopped or started under phytium_xmac_recv.                *)
THEOREM WritesInRing == Spec => []DmaInRing
<1>1. IInv => DmaInRing
  BY DEF IInv, Types, MacTypeOK, Ring, Pointing, Receiver, Writing, DmaInRing
<1>. QED  BY <1>1, IInvHolds, PTL

(* A buffer has exactly one owner: fill_rqueue, recv and stop neither lose *)
(* one nor hand one out twice.                                             *)
THEOREM BuffersOwnedOnce == Spec => []OneOwner
<1>1. IInv => OneOwner
  BY DEF IInv, Owners, OneOwner
<1>. QED  BY <1>1, IInvHolds, PTL

(* recv finds a buffer at the tail whenever the count says there is one.   *)
THEOREM RecvFindsBuffer == Spec => []TailHasBuffer
<1>1. IInv => TailHasBuffer
  <2>. SUFFICES ASSUME IInv, pc = "recv", rxring_queued > 0
                PROVE  rxring_m[rxring_tl_ptr] # None
    BY DEF TailHasBuffer
  <2>1. rxring_tl_ptr \in Slot /\ Offset(rxring_tl_ptr) = 0 /\ Held = rxring_queued
    BY DEF IInv, Types, RingTypeOK, Offset, Held, Slot
  <2>. QED  BY <2>1 DEF IInv, Ring, Window
<1>. QED  BY <1>1, IInvHolds, PTL

-----------------------------------------------------------------------------
(* The receive ring of the second driver.  The buffer discipline is that   *)
(* of the first, whose lemmas are used again: what the second handler does *)
(* on its own leaves the buffers alone.  What is new is which              *)
(* acknowledgement may lose a frame.  A frame at the tail is announced by  *)
(* RXCOMP from the moment it comes until recv is looking, and only         *)
(* MsgAckRx takes RXCOMP away without looking afterwards.                  *)

(* The handler is not both inside and in recv with the lock released.      *)
Inside ==
    \/ pc \in {"ack", "recv", "ackrx", "rest", "ackused"}
    \/ pc \in {"fill", "post"} /\ ret \in {"recv", "rest"}
Alone == Inside => ~delivering

(* From the last look at the ring until RXCOMP is acknowledged again.      *)
Unlocked ==
    delivering \/ pc = "ackrx" \/ (pc \in {"fill", "post"} /\ ret = "recv")

Waiting == rxring_queued > 0 /\ rxring[rxring_tl_ptr].new
Announced ==
    Waiting => "rxcompl" \in isr \/ pc = "recv" \/ (swept /\ ~Unlocked)

MsgInv == IInv /\ Alone /\ Announced

(* Steps of the handler that concern neither ring nor buffers.             *)
LEMMA QuietKeeps ==
    ASSUME IInv, isr' \subseteq isr,
           UNCHANGED <<memVars, running, ringVars, m, m_hd, rxen, rxq, dma>>,
           pc # "post", pc' \notin {"post", "stop"}, ~Starting
    PROVE  IInv'
<1>1. Types'
  BY DEF IInv, Types, MemTypeOK, RingTypeOK, BatchTypeOK, MacTypeOK, memVars, ringVars
<1>2. Ring'
  BY DEF IInv, Ring, Window, Offset, Held, Wraps, Pointing, Posting, ringVars
<1>3. Receiver'
  BY DEF IInv, Receiver, Off, Stopping, Writing, ringVars
<1>4. Owners'
  BY DEF IInv, Owners, Owned, Apart, BatchDistinct, RingDistinct, InRing, InBatch,
         memVars, ringVars
<1>. QED  BY <1>1, <1>2, <1>3, <1>4 DEF IInv

(* Steps that are those of the first driver.                               *)
Shared ==
    \/ FillAlloc \/ FillPost \/ FillDone \/ RecvTake \/ RecvRefill \/ StopClear
    \/ Deliver \/ InitLocked \/ Stop \/ StackFree \/ MacBegin \/ MacNoBuffer \/ MacEnd

(* Steps of the second handler.                                            *)
Own ==
    \/ MsgFillDone /\ ret = "rest"
    \/ MsgIntr \/ MsgAck \/ MsgRecvRelock \/ MsgAckRx \/ MsgRest \/ MsgAckUsed

LEMMA SplitSteps == ASSUME MsgNext PROVE Shared \/ Own
BY DEF MsgNext, MsgDriver, MsgFill, MsgFillDone, MsgRecv, MsgStopClear, MsgDeliver,
       MsgInitLocked, MsgStop, MsgMac, MsgStackFree, Shared, Own

LEMMA BuffersKeep ==
    ASSUME IInv, MsgNext
    PROVE  IInv'
<1>1. CASE Shared
  BY <1>1, DriverKeeps, ThreadKeeps, MacKeeps DEF Shared, Driver, Mac
<1>2. CASE Own
  <2>1. CASE MsgFillDone /\ ret = "rest"
    BY <2>1, QuietKeeps DEF MsgFillDone, FillDone, macVars, Starting
  <2>2. CASE MsgIntr
    BY <2>2, QuietKeeps DEF MsgIntr, IntrGuard, macVars, Starting
  <2>3. CASE MsgAck
    BY <2>3, QuietKeeps DEF MsgAck, IntrPc, Starting
  <2>4. CASE MsgRecvRelock
    BY <2>4, QuietKeeps DEF MsgRecvRelock, macVars, Starting
  <2>5. CASE MsgAckRx
    BY <2>5, QuietKeeps DEF MsgAckRx, Starting
  <2>6. CASE MsgRest
    BY <2>6, QuietKeeps DEF MsgRest, macVars, Starting
  <2>7. CASE MsgAckUsed
    BY <2>7, QuietKeeps DEF MsgAckUsed, Starting
  <2>. QED  BY <1>2, <2>1, <2>2, <2>3, <2>4, <2>5, <2>6, <2>7 DEF Own
<1>. QED  BY <1>1, <1>2, SplitSteps

LEMMA AloneKeeps ==
    ASSUME Alone, MsgNext
    PROVE  Alone'
<1>1. CASE MsgFill \/ MsgFillDone
  BY <1>1 DEF Alone, Inside, MsgFill, FillAlloc, FillPost, MsgFillDone, FillDone
<1>2. CASE MsgAck \/ MsgAckRx \/ MsgRest \/ MsgAckUsed
  BY <1>2 DEF Alone, Inside, MsgAck, IntrPc, MsgAckRx, MsgRest, MsgAckUsed
<1>3. CASE MsgRecv \/ MsgStopClear
  BY <1>3 DEF Alone, Inside, MsgRecv, RecvTake, RecvRefill, MsgStopClear, StopClear
<1>4. CASE MsgIntr \/ MsgDeliver \/ MsgRecvRelock
  BY <1>4 DEF Alone, Inside, MsgIntr, IntrGuard, MsgDeliver, Deliver, MsgRecvRelock
<1>5. CASE MsgInitLocked \/ MsgStop
  BY <1>5 DEF Alone, Inside, MsgInitLocked, InitLocked, MsgStop, Stop
<1>6. CASE MsgMac \/ MsgStackFree
  BY <1>6 DEF Alone, Inside, MsgMac, MacBegin, MacEnd, MacNoBuffer, MsgStackFree,
              StackFree, lockVars
<1>. QED  BY <1>1, <1>2, <1>3, <1>4, <1>5, <1>6 DEF MsgNext, MsgDriver

(* FillAlloc leaves the NEW bits alone.                                    *)
LEMMA AllocNoFrame ==
    ASSUME IInv, FillAlloc
    PROVE  Waiting' => Waiting
<1>1. rxring_tl_ptr \in Slot /\ rxring_tl_ptr' = rxring_tl_ptr /\ rxring_queued' = rxring_queued
  BY DEF IInv, FillAlloc, Types, RingTypeOK
<1>2. \A s \in Slot : rxring'[s].new = rxring[s].new
  BY DEF IInv, FillAlloc, Types, RingTypeOK, HighDesc, Desc
<1>. QED  BY <1>1, <1>2 DEF Waiting

(* What FillPost gives to the MAC is no frame, and it does not touch the   *)
(* tail unless the ring is empty.                                          *)
LEMMA PostNoFrame ==
    ASSUME IInv, FillPost
    PROVE  Waiting' => Waiting
<1>. SUFFICES ASSUME Waiting' PROVE Waiting
  OBVIOUS
<1>1. /\ rxring_tl_ptr \in Slot /\ rxring_hd_ptr \in Slot /\ rxring_queued \in Nat
      /\ rxring_tl_ptr' = rxring_tl_ptr
  BY DEF IInv, FillPost, Types, RingTypeOK
<1>2. /\ \A s \in Slot : s # rxring_hd_ptr => rxring'[s] = rxring[s]
      /\ ~rxring'[rxring_hd_ptr].new
  BY DEF IInv, FillPost, Types, RingTypeOK, FilledDesc, Desc
<1>3. rxring_hd_ptr # rxring_tl_ptr
  BY <1>1, <1>2 DEF Waiting
<1>4. rxring_queued # 0
  <2>1. Offset(rxring_tl_ptr) = 0
    BY <1>1 DEF Offset, Slot
  <2>. QED
    BY <1>1, <1>3, <2>1, OffsetInjective DEF IInv, Types, RingTypeOK, Ring, Window
<1>. QED  BY <1>1, <1>2, <1>3, <1>4 DEF Waiting

LEMMA AnnouncedKeeps ==
    ASSUME MsgInv, MsgNext
    PROVE  Announced'
<1>. USE DEF MsgInv, Announced
<1>1. CASE MsgFill
  <2>1. CASE FillAlloc
    BY <1>1, <2>1, AllocNoFrame DEF MsgFill, FillAlloc, Unlocked, macVars
  <2>2. CASE FillPost
    BY <1>1, <2>2, PostNoFrame DEF MsgFill, FillPost, Unlocked, macVars
  <2>. QED  BY <1>1, <2>1, <2>2 DEF MsgFill
<1>2. CASE MsgFillDone
  BY <1>2 DEF MsgFillDone, FillDone, Waiting, Unlocked, ringVars, macVars
<1>3. CASE MsgAck
  BY <1>3 DEF MsgAck, IntrPc, Waiting, Unlocked, Alone, Inside, ringVars
<1>4. CASE MsgRecv
  BY <1>4 DEF MsgRecv, RecvTake, RecvRefill, Waiting, ringVars
<1>5. CASE MsgAckRx
  BY <1>5 DEF MsgAckRx, Waiting, Unlocked, Alone, Inside, ringVars
<1>6. CASE MsgRest \/ MsgAckUsed
  BY <1>6 DEF MsgRest, MsgAckUsed, Waiting, Unlocked, Alone, Inside, ringVars, macVars
<1>7. CASE MsgStopClear
  BY <1>7 DEF MsgStopClear, StopClear, StopQueued, Waiting
<1>8. CASE MsgIntr \/ MsgDeliver \/ MsgRecvRelock
  BY <1>8 DEF MsgIntr, IntrGuard, MsgDeliver, Deliver, MsgRecvRelock, Waiting, Unlocked,
              ringVars, macVars
<1>9. CASE MsgInitLocked \/ MsgStop
  BY <1>9 DEF MsgInitLocked, InitLocked, MsgStop, Stop, Waiting, Unlocked, ringVars
<1>10. CASE MsgMac
  BY <1>10 DEF MsgMac, MacBegin, MacEnd, MacNoBuffer, Waiting, Unlocked, lockVars, ringVars
<1>11. CASE MsgStackFree
  BY <1>11 DEF MsgStackFree, StackFree, Waiting, Unlocked, lockVars, ringVars, macVars
<1>. QED  BY <1>1, <1>2, <1>3, <1>4, <1>5, <1>6, <1>7, <1>8, <1>9, <1>10, <1>11
          DEF MsgNext, MsgDriver

LEMMA MsgInvHolds == MsgSpec => []MsgInv
<1>1. MsgInit => MsgInv
  BY InitInv DEF MsgInit, MsgInv, Init, Alone, Inside, Announced, Waiting
<1>2. MsgInv /\ [MsgNext]_msgVars => MsgInv'
  <2>. SUFFICES ASSUME MsgInv, [MsgNext]_msgVars PROVE MsgInv'
    OBVIOUS
  <2>1. CASE MsgNext
    BY <2>1, BuffersKeep, AloneKeeps, AnnouncedKeeps DEF MsgInv
  <2>2. CASE UNCHANGED msgVars
    <3>1. UNCHANGED vars
      BY <2>2 DEF msgVars
    <3>2. IInv'
      BY <3>1, StutterKeeps DEF MsgInv
    <3>3. Alone' /\ Announced'
      BY <2>2 DEF MsgInv, Alone, Inside, Announced, Waiting, Unlocked,
                  msgVars, vars, ringVars, lockVars, macVars
    <3>. QED  BY <3>2, <3>3 DEF MsgInv
  <2>. QED  BY <2>1, <2>2
<1>. QED  BY <1>1, <1>2, PTL DEF MsgSpec

(* phytium_xmac_msg_recv, fill_rqueue and stop neither lose a buffer nor   *)
(* hand one out twice.                                                     *)
THEOREM MsgBuffersOwnedOnce == MsgSpec => []OneOwner
<1>1. MsgInv => OneOwner
  BY DEF MsgInv, IInv, Owners, OneOwner
<1>. QED  BY <1>1, MsgInvHolds, PTL

(* A frame that nothing announces is one whose RXCOMP the handler          *)
(* acknowledged a second time, after recv: no other acknowledgement in     *)
(* phytium_xmac_msg_intr loses one, however frames, stops and starts fall  *)
(* between its steps.                                                      *)
THEOREM OnlyAckRxMayLose == MsgSpec => []OnlyAckRxLoses
<1>1. MsgInv => OnlyAckRxLoses
  BY DEF MsgInv, Announced, Waiting, OnlyAckRxLoses
<1>. QED  BY <1>1, MsgInvHolds, PTL
=============================================================================
