------------------------------ MODULE XmacLink ------------------------------
(***************************************************************************)
(* The link side of the XMAC Ethernet driver                               *)
(* (src/drivers/fxmac/phytium_xmac.c): up and down, the one second tick    *)
(* that polls the PHY, the media ioctls, and mediachange, which programs   *)
(* the network configuration register and the reference clock.             *)
(*                                                                         *)
(* Everything runs under sc_mtx, but mediachange releases it around        *)
(* set_ref_clk.  An action is therefore what a thread does from one        *)
(* acquisition of the lock to its next release; "clk" and "relock" are the *)
(* two halves of the unlocked stretch.                                     *)
(***************************************************************************)
EXTENDS Integers

CONSTANTS
    Admin,       \* threads that issue ioctls
    Tick,        \* the thread that runs callouts
    Speed        \* speeds the PHY may negotiate, in Mb/s

ASSUME ConfigAssumption ==
    /\ Tick \notin Admin
    /\ Speed \subseteq {10, 100, 1000}

Thread == Admin \cup {Tick}
NoLink == 0                     \* also IFM_NONE, and no media programmed yet
Media == Speed \cup {NoLink}

VARIABLES
    up, running,   \* IFF_UP, IFF_DRV_RUNNING
    armed,         \* tick_ch is scheduled
    cfg,           \* speed in the network configuration register
    refclk,        \* speed the reference clock was last set for
    cache,         \* sc->mii_media_active
    phy,           \* what the PHY has negotiated
    mii,           \* mii->mii_media_active and _status
    seen, seenUp,  \* the PHY driver's copies of the two
    th             \* of each thread: pc, operation, callback, media

hwVars == <<cfg, refclk>>
miiVars == <<mii, seen, seenUp>>
vars == <<up, running, armed, hwVars, cache, phy, miiVars, th>>

Resting == [pc |-> "idle", op |-> "none", cb |-> "none", media |-> NoLink]

Init ==
    /\ up = FALSE /\ running = FALSE /\ armed = FALSE
    /\ cfg = NoLink /\ refclk = NoLink /\ cache = NoLink
    /\ phy = NoLink /\ mii = NoLink /\ seen = NoLink /\ seenUp = FALSE
    /\ th = [t \in Thread |-> Resting]

-----------------------------------------------------------------------------
(* mediachange: interface_speed keeps its initial value at 10 Mb/s.        *)
ClockFor(s) == IF s = 100 THEN 100 ELSE 1000

(* statchg and linkchg: an active link of another media than the last one. *)
Changes(nm) == nm # NoLink /\ cache # nm

(* The callout as an operation leaves it: the tick and init schedule it.   *)
Rearmed_OnLink(op) ==                                             \* mutant
    IF op = "init" \/ (op = "tick" /\ seenUp) THEN TRUE ELSE armed
Rearmed(op) == IF op \in {"tick", "init"} THEN TRUE ELSE armed

(* The thread's operation ends and the lock is released.                   *)
Finish(t, op) ==
    /\ th' = [th EXCEPT ![t] = Resting]
    /\ armed' = Rearmed(op)

(* mediachange, up to the release of the lock.                             *)
Begin(t, op, cb, nm) ==
    /\ cfg' = nm
    /\ th' = [th EXCEPT ![t] = [pc |-> "clk", op |-> op, cb |-> cb,
                                media |-> nm]]

(* mii_tick, mii_pollstat, mii_mediachg (external): the media is read from *)
(* the PHY; statchg is called when it is not the PHY driver's copy, and    *)
(* always by mii_mediachg; then linkchg, when the status has changed.      *)
(* base is the configuration register as the operation has it before.      *)
MiiUpdate(t, op, nm, base) ==
    LET stat == op \in {"init", "upd"} \/ nm # seen
        link == seenUp # (nm # NoLink)
    IN /\ mii' = nm
       /\ IF stat /\ Changes(nm)
          THEN /\ Begin(t, op, "stat", nm)
               /\ armed' = (armed /\ op # "tick")
               /\ UNCHANGED <<seen, seenUp>>
          ELSE /\ seen' = nm
               /\ IF link /\ Changes(nm)
                  THEN /\ Begin(t, op, "link", nm)
                       /\ armed' = (armed /\ op # "tick")
                       /\ UNCHANGED seenUp
                  ELSE /\ seenUp' = (nm # NoLink)
                       /\ cfg' = base
                       /\ Finish(t, op)

-----------------------------------------------------------------------------
(* phytium_xmac_tick: fires once, polls, schedules itself again.           *)
TickFires ==
    /\ armed /\ th[Tick].pc = "idle"
    /\ MiiUpdate(Tick, "tick", phy, cfg)
    /\ UNCHANGED <<up, running, refclk, cache, phy>>

(* SIOCSIFFLAGS: the stack changes IFF_UP, then calls the driver.          *)
SetFlags == up' = ~up /\ UNCHANGED <<running, armed, hwVars, cache, phy, miiVars, th>>

(* phytium_xmac_init_locked: config selects 1000 Mb/s; mii_mediachg may    *)
(* restart the negotiation.                                                *)
InitLocked(t) ==
    /\ th[t].pc = "idle" /\ up /\ ~running
    /\ running' = TRUE
    /\ \E nm \in {phy, NoLink} : MiiUpdate(t, "init", nm, 1000)
    /\ UNCHANGED <<up, refclk, cache, phy>>

(* phytium_xmac_stop: the register is reset, the cached media forgotten.   *)
Stop(t) ==
    /\ th[t].pc = "idle" /\ ~up /\ running
    /\ running' = FALSE /\ armed' = FALSE
    /\ cfg' = NoLink /\ cache' = NoLink
    /\ UNCHANGED <<up, refclk, phy, miiVars, th>>

(* phytium_xmac_ifmedia_upd.                                               *)
MediaUpd(t) ==
    /\ th[t].pc = "idle" /\ up
    /\ \E nm \in {phy, NoLink} : MiiUpdate(t, "upd", nm, cfg)
    /\ UNCHANGED <<up, running, refclk, cache, phy>>

(* phytium_xmac_ifmedia_sts.                                               *)
MediaSts(t) ==
    /\ th[t].pc = "idle"
    /\ MiiUpdate(t, "sts", phy, cfg)
    /\ UNCHANGED <<up, running, refclk, cache, phy>>

(* set_ref_clk, without the lock.                                          *)
SetRefClk(t) ==
    /\ th[t].pc = "clk"
    /\ refclk' = ClockFor(th[t].media)
    /\ th' = [th EXCEPT ![t].pc = "relock"]
    /\ UNCHANGED <<up, running, armed, cfg, cache, phy, miiVars>>

Relock_CachesOld(t) ==                                            \* mutant
    /\ th[t].pc = "relock"
    /\ cache' = th[t].media
    /\ seen' = IF th[t].cb = "stat" THEN mii ELSE seen
    /\ seenUp' = (mii # NoLink)
    /\ Finish(t, th[t].op)
    /\ UNCHANGED <<up, running, hwVars, phy, mii>>

(* The lock again: the media is read a second time, and remembered; then   *)
(* the PHY driver updates its copies.  (linkchg, if it follows statchg,    *)
(* finds the media it is called for in the cache.)                         *)
Relock(t) ==
    /\ th[t].pc = "relock"
    /\ cache' = mii
    /\ seen' = IF th[t].cb = "stat" THEN mii ELSE seen
    /\ seenUp' = (mii # NoLink)
    /\ Finish(t, th[t].op)
    /\ UNCHANGED <<up, running, hwVars, phy, mii>>

(* The PHY (external): the cable, the link partner.                        *)
PhyChange ==
    /\ \E s \in Media : s # phy /\ phy' = s
    /\ UNCHANGED <<up, running, armed, hwVars, cache, miiVars, th>>

Ioctl(t) == InitLocked(t) \/ Stop(t) \/ MediaUpd(t) \/ MediaSts(t)

Next == \/ TickFires \/ SetFlags \/ PhyChange
        \/ \E t \in Admin : Ioctl(t)
        \/ \E t \in Thread : SetRefClk(t) \/ Relock(t)

Spec == Init /\ [][Next]_vars

-----------------------------------------------------------------------------
(* Properties.                                                             *)

(* Every variable has its type, and mediachange runs for a live link only. *)
TypeOK ==
    /\ up \in BOOLEAN /\ running \in BOOLEAN /\ armed \in BOOLEAN
    /\ cfg \in Media \cup {1000} /\ refclk \in {NoLink, 100, 1000}
    /\ cache \in Media /\ phy \in Media /\ mii \in Media /\ seen \in Media
    /\ seenUp \in BOOLEAN
    /\ th \in [Thread -> [pc: {"idle", "clk", "relock"},
                          op: {"none", "tick", "init", "upd", "sts"},
                          cb: {"none", "stat", "link"},
                          media: Media]]
    /\ \A t \in Thread : th[t].pc = "idle" <=> th[t].media = NoLink

Quiet == \A t \in Thread : th[t].pc = "idle"

(* A running interface is polled for good: the callout is scheduled, or    *)
(* some thread inside mediachange is about to schedule it, whatever stops, *)
(* starts and media changes overlapped with it.                            *)
PollAlive ==
    running => armed \/ \E t \in Thread : th[t].op \in {"tick", "init"}

(* When no thread is inside mediachange, the media the driver remembers is *)
(* the one the MII layer reports, although any number of threads changed   *)
(* either while the lock was released.                                     *)
ViewAgrees == Quiet /\ running /\ mii # NoLink => cache = mii
=============================================================================
