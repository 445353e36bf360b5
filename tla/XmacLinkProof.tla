---------------------------- MODULE XmacLinkProof ----------------------------
(***************************************************************************)
(* Polling never dies and the cached media follows the MII layer, for any  *)
(* number of ioctl threads, although mediachange releases the lock in the  *)
(* middle.  What makes the second inductive is Followed: the PHY driver's  *)
(* copy of the media lags behind the MII layer only while a statchg is     *)
(* under way, which will bring it up to date.                              *)
(***************************************************************************)
EXTENDS XmacLink, TLAPS

Followed == seen = mii \/ \E t \in Thread : th[t].pc # "idle" /\ th[t].cb = "stat"
AtRest == \A t \in Thread : th[t].pc = "idle" => th[t] = Resting

IInv == TypeOK /\ AtRest /\ PollAlive /\ ViewAgrees /\ Followed

Cfg == Media \cup {1000}
Ops == {"tick", "init", "upd", "sts"}

ThreadState == [pc: {"idle", "clk", "relock"}, op: {"none", "tick", "init", "upd", "sts"},
                cb: {"none", "stat", "link"}, media: Media]

LEMMA RestingState == Resting \in ThreadState /\ Resting.pc = "idle" /\ Resting.media = NoLink
BY DEF Resting, ThreadState, Media

(* The three ways through mii_pollstat: statchg finds a new media, linkchg *)
(* finds one, or neither has anything to change.                           *)
StatBegins(t, op, nm) ==
    /\ Changes(nm) /\ Begin(t, op, "stat", nm)
    /\ armed' = (armed /\ op # "tick")
    /\ mii' = nm /\ UNCHANGED <<seen, seenUp>>
LinkBegins(t, op, nm) ==
    /\ Changes(nm) /\ Begin(t, op, "link", nm)
    /\ armed' = (armed /\ op # "tick")
    /\ mii' = nm /\ seen' = nm /\ UNCHANGED seenUp
NothingNew(t, op, nm, base) ==
    /\ (op \in {"init", "upd"} \/ nm # seen) => ~Changes(nm)
    /\ mii' = nm /\ seen' = nm /\ seenUp' = (nm # NoLink)
    /\ cfg' = base
    /\ Finish(t, op)

LEMMA MiiCases ==
    ASSUME NEW t, NEW op, NEW nm, NEW base, MiiUpdate(t, op, nm, base)
    PROVE  StatBegins(t, op, nm) \/ LinkBegins(t, op, nm) \/ NothingNew(t, op, nm, base)
BY DEF MiiUpdate, StatBegins, LinkBegins, NothingNew

(* Whatever mii_pollstat does keeps the invariant, for an operation that   *)
(* keeps the interface running, or makes it so with a statchg.             *)
LEMMA MiiKeeps ==
    ASSUME IInv, NEW t \in Thread, th[t].pc = "idle",
           NEW op \in Ops, NEW nm \in Media, NEW base \in Cfg,
           MiiUpdate(t, op, nm, base),
           UNCHANGED <<up, refclk, cache, phy>>,
           running' \in BOOLEAN, running' => running \/ op = "init"
    PROVE  IInv'
<1> USE ConfigAssumption
<1>0. Media \subseteq Int /\ NoLink \in Media
  BY DEF Media, NoLink
<1>1. CASE StatBegins(t, op, nm)
  <2>0. nm # NoLink
    BY <1>1 DEF StatBegins, Changes
  <2>1. th' = [th EXCEPT ![t] = [pc |-> "clk", op |-> op, cb |-> "stat", media |-> nm]]
    BY <1>1 DEF StatBegins, Begin
  <2>2. TypeOK'
    BY <1>1, <2>0, <2>1, <1>0 DEF IInv, TypeOK, StatBegins, Begin, Ops
  <2>3. AtRest'
    BY <2>1 DEF IInv, TypeOK, AtRest
  <2>4. PollAlive'
    BY <1>1, <2>1 DEF IInv, TypeOK, AtRest, Resting, PollAlive, StatBegins
  <2>5. ~Quiet' /\ Followed'
    BY <2>1 DEF IInv, TypeOK, Quiet, Followed
  <2>. QED  BY <2>2, <2>3, <2>4, <2>5 DEF IInv, ViewAgrees
<1>2. CASE LinkBegins(t, op, nm)
  <2>0. nm # NoLink
    BY <1>2 DEF LinkBegins, Changes
  <2>1. th' = [th EXCEPT ![t] = [pc |-> "clk", op |-> op, cb |-> "link", media |-> nm]]
    BY <1>2 DEF LinkBegins, Begin
  <2>2. TypeOK'
    BY <1>2, <2>0, <2>1, <1>0 DEF IInv, TypeOK, LinkBegins, Begin, Ops
  <2>3. AtRest'
    BY <2>1 DEF IInv, TypeOK, AtRest
  <2>4. PollAlive'
    BY <1>2, <2>1 DEF IInv, TypeOK, AtRest, Resting, PollAlive, LinkBegins
  <2>5. ~Quiet' /\ Followed'
    BY <1>2, <2>1 DEF IInv, TypeOK, Quiet, Followed, LinkBegins
  <2>. QED  BY <2>2, <2>3, <2>4, <2>5 DEF IInv, ViewAgrees
<1>3. CASE NothingNew(t, op, nm, base)
  <2>1. th' = [th EXCEPT ![t] = Resting] /\ armed' = Rearmed(op)
    BY <1>3 DEF NothingNew, Finish
  <2>2. TypeOK'
    <3>0. armed \in BOOLEAN
      BY DEF IInv, TypeOK
    <3>1. armed' \in BOOLEAN
      BY <2>1, <3>0, Zenon DEF Rearmed
    <3>2. th' \in [Thread -> ThreadState] /\ \A u \in Thread : th'[u].pc = "idle" <=> th'[u].media = NoLink
      BY <2>1, RestingState DEF IInv, TypeOK, ThreadState
    <3>. QED  BY <1>3, <1>0, <3>1, <3>2 DEF IInv, TypeOK, NothingNew, Cfg, ThreadState
  <2>3. AtRest'
    BY <2>1 DEF IInv, TypeOK, AtRest, Resting
  <2>4. PollAlive'
    BY <1>3, <2>1 DEF IInv, TypeOK, AtRest, Resting, PollAlive, Rearmed
  <2>5. Followed'
    BY <1>3 DEF NothingNew, Followed
  <2>6. ViewAgrees'
    <3> SUFFICES ASSUME Quiet', running', nm # NoLink
                 PROVE  cache = nm
      BY <1>3 DEF ViewAgrees, NothingNew
    <3>1. CASE op \in {"init", "upd"} \/ nm # seen
      BY <1>3, <3>1 DEF NothingNew, Changes
    <3>2. CASE op \notin {"init", "upd"} /\ nm = seen
      <4>1. Quiet
        BY <2>1 DEF IInv, TypeOK, Quiet
      <4>2. seen = mii
        BY <4>1 DEF IInv, Followed, Quiet
      <4>. QED  BY <3>2, <4>1, <4>2 DEF IInv, ViewAgrees
    <3>. QED  BY <3>1, <3>2
  <2>. QED  BY <2>2, <2>3, <2>4, <2>5, <2>6 DEF IInv
<1>. QED  BY <1>1, <1>2, <1>3, MiiCases

LEMMA InitInv == Init => IInv
<1> SUFFICES ASSUME Init PROVE IInv
  OBVIOUS
<1>1. TypeOK
  BY RestingState DEF Init, TypeOK, ThreadState, Media
<1>2. AtRest /\ PollAlive /\ ViewAgrees /\ Followed
  BY DEF Init, AtRest, PollAlive, ViewAgrees, Followed
<1>. QED  BY <1>1, <1>2 DEF IInv

LEMMA StepInv == IInv /\ [Next]_vars => IInv'
<1> SUFFICES ASSUME IInv, [Next]_vars PROVE IInv'
  OBVIOUS
<1> USE ConfigAssumption
<1>0. phy \in Media /\ NoLink \in Media /\ cfg \in Cfg /\ 1000 \in Cfg /\ Tick \in Thread
  BY DEF IInv, TypeOK, Media, NoLink, Cfg, Thread
<1>1. CASE TickFires
  <2>1. "tick" \in Ops /\ running' \in BOOLEAN /\ (running' => running \/ "tick" = "init")
    BY <1>1 DEF TickFires, IInv, TypeOK, Ops
  <2>. QED  BY <1>0, <1>1, <2>1, MiiKeeps DEF TickFires
<1>2. CASE SetFlags
  BY <1>2 DEF SetFlags, IInv, TypeOK, AtRest, PollAlive, ViewAgrees, Quiet, Followed,
     hwVars, miiVars
<1>3. CASE PhyChange
  BY <1>3 DEF PhyChange, IInv, TypeOK, AtRest, PollAlive, ViewAgrees, Quiet, Followed,
     hwVars, miiVars
<1>4. ASSUME NEW t \in Admin, Ioctl(t)
      PROVE  IInv'
  <2>0. t \in Thread
    BY DEF Thread
  <2>1. CASE InitLocked(t)
    <3>1. PICK nm \in {phy, NoLink} : MiiUpdate(t, "init", nm, 1000)
      BY <2>1 DEF InitLocked
    <3>2. nm \in Media /\ "init" \in Ops
      BY <1>0 DEF Ops
    <3>. QED  BY <1>0, <2>0, <2>1, <3>1, <3>2, MiiKeeps DEF InitLocked
  <2>2. CASE Stop(t)
    <3>1. TypeOK'
      <4>1. cfg' \in Cfg /\ cache' \in Media
        BY <1>0, <2>2 DEF Stop, Cfg
      <4>2. running' \in BOOLEAN /\ armed' \in BOOLEAN
        BY <2>2 DEF Stop
      <4>. QED  BY <2>2, <4>1, <4>2 DEF Stop, IInv, TypeOK, miiVars, Cfg
    <3>2. AtRest' /\ PollAlive' /\ ViewAgrees' /\ Followed'
      BY <2>2 DEF Stop, IInv, AtRest, PollAlive, ViewAgrees, Followed, miiVars
    <3>. QED  BY <3>1, <3>2 DEF IInv
  <2>3. CASE MediaUpd(t)
    <3>1. PICK nm \in {phy, NoLink} : MiiUpdate(t, "upd", nm, cfg)
      BY <2>3 DEF MediaUpd
    <3>2. nm \in Media /\ "upd" \in Ops /\ running' \in BOOLEAN
      BY <1>0, <2>3 DEF Ops, MediaUpd, IInv, TypeOK
    <3>. QED  BY <1>0, <2>0, <2>3, <3>1, <3>2, MiiKeeps DEF MediaUpd
  <2>4. CASE MediaSts(t)
    <3>1. "sts" \in Ops /\ running' \in BOOLEAN
      BY <2>4 DEF Ops, MediaSts, IInv, TypeOK
    <3>. QED  BY <1>0, <2>0, <2>4, <3>1, MiiKeeps DEF MediaSts
  <2>. QED  BY <1>4, <2>1, <2>2, <2>3, <2>4 DEF Ioctl
<1>5. ASSUME NEW t \in Thread, SetRefClk(t)
      PROVE  IInv'
  <2>1. th' = [th EXCEPT ![t].pc = "relock"] /\ th[t].pc = "clk"
    BY <1>5 DEF SetRefClk
  <2>2. TypeOK'
    BY <1>5, <2>1 DEF SetRefClk, IInv, TypeOK, miiVars, ClockFor, NoLink
  <2>3. AtRest' /\ PollAlive'
    BY <1>5, <2>1 DEF SetRefClk, IInv, TypeOK, AtRest, PollAlive, miiVars
  <2>4. ~Quiet' /\ Followed'
    BY <1>5, <2>1 DEF SetRefClk, IInv, TypeOK, Quiet, Followed, miiVars
  <2>. QED  BY <2>2, <2>3, <2>4 DEF IInv, ViewAgrees
<1>6. ASSUME NEW t \in Thread, Relock(t)
      PROVE  IInv'
  <2>1. th' = [th EXCEPT ![t] = Resting] /\ armed' = Rearmed(th[t].op)
    BY <1>6 DEF Relock, Finish
  <2>2. TypeOK'
    <3>0. armed \in BOOLEAN
      BY DEF IInv, TypeOK
    <3>1. armed' \in BOOLEAN
      BY <2>1, <3>0, Zenon DEF Rearmed
    <3>2. th' \in [Thread -> ThreadState] /\ \A u \in Thread : th'[u].pc = "idle" <=> th'[u].media = NoLink
      BY <2>1, RestingState DEF IInv, TypeOK, ThreadState
    <3>. QED  BY <1>6, <3>1, <3>2 DEF Relock, IInv, TypeOK, ThreadState, hwVars
  <2>3. AtRest'
    BY <2>1 DEF IInv, TypeOK, AtRest, Resting
  <2>4. PollAlive'
    BY <1>6, <2>1 DEF Relock, IInv, TypeOK, PollAlive, Rearmed, Resting
  <2>5. ViewAgrees'
    BY <1>6 DEF Relock, ViewAgrees
  <2>6. Followed'
    BY <1>6, <2>1 DEF Relock, IInv, TypeOK, Followed
  <2>. QED  BY <2>2, <2>3, <2>4, <2>5, <2>6 DEF IInv
<1>7. CASE UNCHANGED vars
  BY <1>7 DEF vars, hwVars, miiVars, IInv, TypeOK, AtRest, PollAlive, ViewAgrees, Quiet, Followed
<1>. QED  BY <1>1, <1>2, <1>3, <1>4, <1>5, <1>6, <1>7 DEF Next

(* mediachange runs for a live link only, and every variable has its type. *)
THEOREM TypeCorrect == Spec => []TypeOK
BY InitInv, StepInv, PTL DEF Spec, IInv

(* A running interface is polled for good (phytium_xmac_tick).             *)
THEOREM PollsOn == Spec => []PollAlive
BY InitInv, StepInv, PTL DEF Spec, IInv

(* Between operations of a running interface the media that mediachange    *)
(* remembers is the MII layer's.                                           *)
THEOREM ViewFollows == Spec => []ViewAgrees
BY InitInv, StepInv, PTL DEF Spec, IInv
=============================================================================
