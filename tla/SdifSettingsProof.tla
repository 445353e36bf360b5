-------------------------- MODULE SdifSettingsProof --------------------------
(***************************************************************************)
(* What the controller is told agrees with what the MMC layer asked for,   *)
(* for every set of clocks, timings and voltages and the three widths.     *)
(* The invariant says what each driver's memory is worth: of the first,    *)
(* that the setting it remembers is the controller's, but for a clock      *)
(* whose programming failed on the way and for the timing, which is that   *)
(* of the last clock change; of the second, that what it sent last is what *)
(* it remembers, but for the voltage, which a failed update may have set.  *)
(***************************************************************************)
EXTENDS SdifSettings, TLAPS

Types ==
    /\ driver \in Drivers /\ removable \in BOOLEAN /\ phase \in {"asked", "done", "failed", "panic"}
    /\ DOMAIN ios = Fields /\ DOMAIN cache = Fields /\ DOMAIN hw = Fields
    /\ (ios.timing = "hs400" => ios.width = 8)
    /\ ios.width \in {1, 4, 8} /\ ios.power \in {"off", "up", "on"} /\ ios.vdd \in Volts
    /\ ios.clock \in Clocks \cup {0} /\ DOMAIN tried = Fields

(* v1: a remembered width, power or voltage is programmed.                 *)
Programmed ==
    /\ cache.width \in {Unset, hw.width}
    /\ cache.power # Unset => (cache.power = "off" <=> hw.power = "off")
    /\ removable /\ cache.vdd # Unset => Level(cache.vdd) \in {0, hw.vdd}

(* v1: a power change is an update behind at most.                         *)
PowerFollows ==
    IF cache.power = Unset
    THEN phase = "asked" /\ ios.power = "up"
    ELSE /\ ios.power \in {cache.power, NextPower(cache.power)}
         /\ phase # "asked" => ios.power = cache.power

(* v1: the remembered clock is the one of the last good update; it, and    *)
(* the row found for it, are programmed unless a failure came in between;  *)
(* DDR is always that of the timing asked for with it.                     *)
ClockProgrammed ==
    /\ good.clock = cache.clock
    /\ cache.clock # Unset =>
          /\ hw.timing = Mode(good.timing)
          /\ hw.clock \in {cache.clock} \cup tried.clock
          /\ tried.clock = {} /\ driver = "dict"
                => (use_hold = (Timing(cache.clock) = "hold"))

(* v2: what was sent last is what is remembered, and that is the last good *)
(* update.  Attach sent a power of which curios knows nothing: it stays    *)
(* hidden until the power changes.                                         *)
SentRemembered ==
    /\ good = cache
    /\ phase = "done" => cache = ios
    /\ cur.width = cache.width /\ cur.clock = cache.clock
    /\ cur.timing = MsgTiming(cache.timing)
    /\ tried.vdd \subseteq {0, 180, 330}
    /\ removable /\ cache.vdd # Unset => hw.vdd \in {Level(cache.vdd)} \cup tried.vdd

PowerSent ==
    /\ hw.power = "off" <=> cur.power = "off"
    /\ \/ cur.power = cache.power
       \/ /\ cur.power = "on" /\ cache.power = "off"
          /\ \/ \E v \in tried.power : v # "off"
             \/ ios.power = "up" /\ phase \in {"asked", "panic"}

(* A card that has had no command since it got power is one that the MMC   *)
(* layer has not started, and v1 remembers that it needs its clocks.       *)
FreshInit ==
    /\ hw.power = "off" => ~started \/ ios.power = "off"
    /\ fresh => ~started
    /\ fresh /\ ~Msg => need_init \/ hw.power = "off"

IInv ==
    /\ Types /\ FreshInit
    /\ ~Msg => Programmed /\ PowerFollows /\ ClockProgrammed
    /\ Msg => SentRemembered /\ PowerSent
    /\ Agreed /\ InitFirst /\ ResponseExpected

-----------------------------------------------------------------------------
(* The v2 tables give the response of the card for every command that is   *)
(* sent; v1 takes it from the MMC layer.                                   *)
LEMMA RawRespExpected ==
    ASSUME NEW c \in DOMAIN CardCommands, ~Skipped(c)
    PROVE  RawResp(c) = CardCommands[c]
<1>1. CASE ~Msg
  BY <1>1 DEF RawResp
<1>2. CASE Msg /\ removable
  <2>1. c \in {"GO_IDLE", "IF_COND", "APP_CMD", "APP_OP_COND", "SWITCH_VOLTAGE",
               "ALL_SEND_CID", "RELATIVE_ADDR", "SEND_CSD", "SELECT", "DESELECT",
               "SEND_SCR", "SWITCH", "STATUS", "SET_BLOCKLEN", "TRANSFER"}
    BY <1>2 DEF CardCommands, SdCommands
  <2>2. RawResp(c) = SdFlags(Opcode(c), ZeroArg(c)) /\ CardCommands[c] = SdCommands[c]
    BY <1>2 DEF RawResp, Flags, CardCommands
  <2>3. QED
    <3>1. CASE c \in {"GO_IDLE"}
      <4>1. Opcode(c) \in {0}
        BY <3>1 DEF Opcode
      <4>2. \A op \in {0} : SdFlags(op, ZeroArg(c)) = "none"
        BY <3>1 DEF SdFlags, ZeroArg
      <4>3. SdCommands[c] = "none"
        BY <3>1 DEF SdCommands
      <4>4. QED
        BY <2>2, <4>1, <4>2, <4>3
    <3>2. CASE c \in {"DESELECT"}
      <4>1. Opcode(c) \in {7}
        BY <3>2 DEF Opcode
      <4>2. \A op \in {7} : SdFlags(op, ZeroArg(c)) = "none"
        BY <3>2 DEF SdFlags, ZeroArg
      <4>3. SdCommands[c] = "none"
        BY <3>2 DEF SdCommands
      <4>4. QED
        BY <2>2, <4>1, <4>2, <4>3
    <3>3. CASE c \in {"IF_COND"}
      <4>1. Opcode(c) \in {8}
        BY <3>3 DEF Opcode
      <4>2. \A op \in {8} : SdFlags(op, ZeroArg(c)) = "R7"
        BY <3>3 DEF SdFlags, ZeroArg
      <4>3. SdCommands[c] = "R7"
        BY <3>3 DEF SdCommands
      <4>4. QED
        BY <2>2, <4>1, <4>2, <4>3
    <3>4. CASE c \in {"APP_OP_COND"}
      <4>1. Opcode(c) \in {41}
        BY <3>4 DEF Opcode
      <4>2. \A op \in {41} : SdFlags(op, ZeroArg(c)) = "R3"
        BY <3>4 DEF SdFlags, ZeroArg
      <4>3. SdCommands[c] = "R3"
        BY <3>4 DEF SdCommands
      <4>4. QED
        BY <2>2, <4>1, <4>2, <4>3
    <3>5. CASE c \in {"ALL_SEND_CID", "SEND_CSD"}
      <4>1. Opcode(c) \in {2, 9}
        BY <3>5 DEF Opcode
      <4>2. \A op \in {2, 9} : SdFlags(op, ZeroArg(c)) = "R2"
        BY <3>5 DEF SdFlags, ZeroArg
      <4>3. SdCommands[c] = "R2"
        BY <3>5 DEF SdCommands
      <4>4. QED
        BY <2>2, <4>1, <4>2, <4>3
    <3>6. CASE c \in {"RELATIVE_ADDR"}
      <4>1. Opcode(c) \in {3}
        BY <3>6 DEF Opcode
      <4>2. \A op \in {3} : SdFlags(op, ZeroArg(c)) = "R6"
        BY <3>6 DEF SdFlags, ZeroArg
      <4>3. SdCommands[c] = "R6"
        BY <3>6 DEF SdCommands
      <4>4. QED
        BY <2>2, <4>1, <4>2, <4>3
    <3>7. CASE c \in {"SELECT"}
      <4>1. Opcode(c) \in {7}
        BY <3>7 DEF Opcode
      <4>2. \A op \in {7} : SdFlags(op, ZeroArg(c)) = "R1"
        BY <3>7 DEF SdFlags, ZeroArg
      <4>3. SdCommands[c] = "R1"
        BY <3>7 DEF SdCommands
      <4>4. QED
        BY <2>2, <4>1, <4>2, <4>3
    <3>8. CASE c \in {"APP_CMD", "SWITCH_VOLTAGE", "SEND_SCR", "SWITCH", "STATUS", "SET_BLOCKLEN", "TRANSFER"}
      <4>1. Opcode(c) \in {55, 11, 51, 6, 13, 16, 18}
        BY <3>8 DEF Opcode
      <4>2. \A op \in {55, 11, 51, 6, 13, 16, 18} : SdFlags(op, ZeroArg(c)) = "R1"
        BY <3>8 DEF SdFlags, ZeroArg
      <4>3. SdCommands[c] = "R1"
        BY <3>8 DEF SdCommands
      <4>4. QED
        BY <2>2, <4>1, <4>2, <4>3
    <3>9. QED
      BY <2>1, <3>1, <3>2, <3>3, <3>4, <3>5, <3>6, <3>7, <3>8
<1>3. CASE Msg /\ ~removable
  <2>1. c \in {"GO_IDLE", "IF_COND", "APP_CMD", "APP_OP_COND", "SEND_OP_COND",
               "ALL_SEND_CID", "RELATIVE_ADDR", "SEND_CSD", "SELECT", "DESELECT",
               "EXT_CSD", "SWITCH", "STATUS", "SET_BLOCKLEN", "BUSTEST", "TRANSFER"}
    BY <1>3 DEF CardCommands, MmcCommands
  <2>2. RawResp(c) = MmcFlags(Opcode(c), ZeroArg(c)) /\ CardCommands[c] = MmcCommands[c]
    BY <1>3 DEF RawResp, Flags, CardCommands
  <2>3. c \notin {"IF_COND", "APP_CMD", "APP_OP_COND", "SET_BLOCKLEN", "BUSTEST"}
    BY <1>3 DEF Skipped, Opcode, IfCondArg
  <2>4. QED
    <3>1. CASE c \in {"GO_IDLE"}
      <4>1. Opcode(c) \in {0}
        BY <3>1 DEF Opcode
      <4>2. \A op \in {0} : MmcFlags(op, ZeroArg(c)) = "none"
        BY <3>1 DEF MmcFlags, ZeroArg
      <4>3. MmcCommands[c] = "none"
        BY <3>1 DEF MmcCommands
      <4>4. QED
        BY <2>2, <4>1, <4>2, <4>3
    <3>2. CASE c \in {"DESELECT"}
      <4>1. Opcode(c) \in {7}
        BY <3>2 DEF Opcode
      <4>2. \A op \in {7} : MmcFlags(op, ZeroArg(c)) = "none"
        BY <3>2 DEF MmcFlags, ZeroArg
      <4>3. MmcCommands[c] = "none"
        BY <3>2 DEF MmcCommands
      <4>4. QED
        BY <2>2, <4>1, <4>2, <4>3
    <3>3. CASE c \in {"SEND_OP_COND"}
      <4>1. Opcode(c) \in {1}
        BY <3>3 DEF Opcode
      <4>2. \A op \in {1} : MmcFlags(op, ZeroArg(c)) = "R3"
        BY <3>3 DEF MmcFlags, ZeroArg
      <4>3. MmcCommands[c] = "R3"
        BY <3>3 DEF MmcCommands
      <4>4. QED
        BY <2>2, <4>1, <4>2, <4>3
    <3>4. CASE c \in {"ALL_SEND_CID", "SEND_CSD"}
      <4>1. Opcode(c) \in {2, 9}
        BY <3>4 DEF Opcode
      <4>2. \A op \in {2, 9} : MmcFlags(op, ZeroArg(c)) = "R2"
        BY <3>4 DEF MmcFlags, ZeroArg
      <4>3. MmcCommands[c] = "R2"
        BY <3>4 DEF MmcCommands
      <4>4. QED
        BY <2>2, <4>1, <4>2, <4>3
    <3>5. CASE c \in {"SELECT"}
      <4>1. Opcode(c) \in {7}
        BY <3>5 DEF Opcode
      <4>2. \A op \in {7} : MmcFlags(op, ZeroArg(c)) = "R1"
        BY <3>5 DEF MmcFlags, ZeroArg
      <4>3. MmcCommands[c] = "R1"
        BY <3>5 DEF MmcCommands
      <4>4. QED
        BY <2>2, <4>1, <4>2, <4>3
    <3>6. CASE c \in {"SWITCH"}
      <4>1. Opcode(c) \in {6}
        BY <3>6 DEF Opcode
      <4>2. \A op \in {6} : MmcFlags(op, ZeroArg(c)) = "R1b"
        BY <3>6 DEF MmcFlags, ZeroArg
      <4>3. MmcCommands[c] = "R1b"
        BY <3>6 DEF MmcCommands
      <4>4. QED
        BY <2>2, <4>1, <4>2, <4>3
    <3>7. CASE c \in {"RELATIVE_ADDR", "EXT_CSD", "STATUS", "TRANSFER"}
      <4>1. Opcode(c) \in {3, 8, 13, 18}
        BY <3>7 DEF Opcode
      <4>2. \A op \in {3, 8, 13, 18} : MmcFlags(op, ZeroArg(c)) = "R1"
        BY <3>7 DEF MmcFlags, ZeroArg
      <4>3. MmcCommands[c] = "R1"
        BY <3>7 DEF MmcCommands
      <4>4. QED
        BY <2>2, <4>1, <4>2, <4>3
    <3>8. QED
      BY <2>1, <2>3, <3>1, <3>2, <3>3, <3>4, <3>5, <3>6, <3>7
<1>4. QED
  BY <1>1, <1>2, <1>3

(* What is asked for is never Unset.                                       *)
LEMMA Written ==
    Types => ios.width # Unset /\ ios.power # Unset /\ ios.clock # Unset /\ ios.vdd # Unset
<1> SUFFICES ASSUME Types PROVE ios.width # Unset /\ ios.power # Unset
                                /\ ios.clock # Unset /\ ios.vdd # Unset
  OBVIOUS
<1>1. ios.width # Unset
  <2>1. ios.width \in Nat
    BY DEF Types
  <2> QED
    BY <2>1, UnsetAssumption
<1>2. ios.power # Unset
  <2>1. ios.power \in {"off", "up", "on"}
    BY DEF Types
  <2> QED
    BY <2>1, UnsetAssumption
<1>3. ios.clock # Unset
  <2>1. ios.clock \in Nat
    <3>1. ios.clock \in Clocks \cup {0}
      BY DEF Types
    <3>2. \A n \in Clocks : n \in Nat
      BY SettingsAssumption
    <3>3. 0 \in Nat
      OBVIOUS
    <3> QED
      BY <3>1, <3>2, <3>3, Zenon
  <2> QED
    BY <2>1, UnsetAssumption
<1>4. ios.vdd # Unset
  <2>1. ios.vdd \in Nat
    BY SettingsAssumption DEF Types
  <2> QED
    BY <2>1, UnsetAssumption
<1> QED
  BY <1>1, <1>2, <1>3, <1>4

LEMMA InitInvariant == Init => IInv
<1> SUFFICES ASSUME Init PROVE IInv
  OBVIOUS
<1> USE SettingsAssumption, UnsetAssumption
<1>1. Types
  BY DEF Init, Types, Fields, Msg
<1>2. FreshInit
  BY DEF Init, FreshInit, Msg, Fields
<1>3. ~Msg => Programmed /\ PowerFollows /\ ClockProgrammed
  BY DEF Init, Programmed, PowerFollows, ClockProgrammed, Fields
<1>4. Msg => SentRemembered /\ PowerSent
  <2>1. ASSUME Msg PROVE cache = [ios EXCEPT !.power = "off", !.vdd = Unset]
                         /\ cur = [MsgInitIos EXCEPT !.power = "on"] /\ hw.power = "up"
    BY <2>1 DEF Init, MsgInitIos
  <2>2. /\ DOMAIN ios = Fields /\ ios.width = 1 /\ ios.power = "up" /\ ios.clock = 0
        /\ ios.timing = "normal"
        /\ phase = "asked" /\ good = cache /\ tried = [f \in Fields |-> {}]
    BY DEF Init, Fields
  <2>3. Msg => /\ cur.width = cache.width /\ cur.clock = cache.clock
               /\ cur.timing = "normal" /\ cache.timing = "normal" /\ cache.vdd = Unset
    <3>1. Msg => cache.width = 1 /\ cache.clock = 0 /\ cache.timing = "normal" /\ cache.vdd = Unset
      BY <2>1, <2>2 DEF Fields
    <3>2. Msg => cur.width = 1 /\ cur.clock = 0 /\ cur.timing = "normal"
      BY <2>1 DEF MsgInitIos
    <3>3. QED
      BY <3>1, <3>2
  <2>4. Msg => PowerSent
    <3>1. Msg => cache.power = "off" /\ cur.power = "on" /\ hw.power = "up"
      BY <2>1, <2>2 DEF Fields, MsgInitIos
    <3> QED
      BY <2>2, <3>1 DEF PowerSent
  <2>5. ASSUME NEW s, s = "normal" PROVE MsgTiming(s) = s
    BY <2>5 DEF MsgTiming
  <2>6. QED
    BY <2>2, <2>3, <2>4, <2>5 DEF SentRemembered, Fields
<1>5. Agreed /\ InitFirst /\ ResponseExpected
  BY DEF Init, Agreed, InitFirst, ResponseExpected, NoCommand
<1>6. QED
  BY <1>1, <1>2, <1>3, <1>4, <1>5 DEF IInv

-----------------------------------------------------------------------------
(* A setting is asked for.                                                 *)
LEMMA WritePowerKeeps == IInv /\ WritePower => IInv'
<1> SUFFICES ASSUME IInv, WritePower PROVE IInv'
  OBVIOUS
<1>1. Types'
  BY DEF IInv, Types, WritePower, NextPower, Fields, driverVars
<1>2. FreshInit'
  BY DEF IInv, Types, FreshInit, WritePower, NextPower, Fields, driverVars, Msg
<1>3. ~Msg' => Programmed' /\ PowerFollows' /\ ClockProgrammed'
  BY DEF IInv, Types, Programmed, PowerFollows, ClockProgrammed, WritePower, NextPower,
         Fields, driverVars, Msg, Mode, Timing, SdTiming, MmcTiming
<1>4. Msg' => SentRemembered' /\ PowerSent'
  BY DEF IInv, Types, SentRemembered, PowerSent, WritePower, NextPower, Fields,
         driverVars, Msg, MsgTiming
<1>5. Agreed' /\ InitFirst' /\ ResponseExpected'
  BY DEF WritePower, Agreed, InitFirst, ResponseExpected, NoCommand
<1>6. QED
  BY <1>1, <1>2, <1>3, <1>4, <1>5 DEF IInv

LEMMA WriteOtherKeeps == IInv /\ WriteOther => IInv'
<1> SUFFICES ASSUME IInv, WriteOther PROVE IInv'
  OBVIOUS
<1>1. Types' /\ ios'.power = ios.power
  <2>1. DOMAIN ios' = Fields /\ ios'.power = ios.power
    BY DEF IInv, Types, WriteOther, Fields
  <2>2. /\ ios'.width \in {1, 4, 8} /\ ios'.vdd \in Volts
        /\ ios'.timing = "hs400" => ios'.width = 8
    BY SettingsAssumption DEF IInv, Types, WriteOther, Fields
  <2>3. ios'.clock \in Clocks \cup {0}
    BY DEF IInv, Types, WriteOther, Fields
  <2>4. QED
    BY <2>1, <2>2, <2>3 DEF IInv, Types, WriteOther, driverVars
<1>2. /\ UNCHANGED <<driver, removable, cache, cur, need_init, use_hold, hw, fresh, started,
                     good, tried>>
      /\ phase' = "asked" /\ wire' = NoCommand
  BY DEF WriteOther, driverVars
<1>3. FreshInit'
  BY <1>1, <1>2 DEF IInv, FreshInit, Msg
<1>4. ~Msg' => Programmed' /\ PowerFollows' /\ ClockProgrammed'
  BY <1>1, <1>2 DEF IInv, Programmed, PowerFollows, ClockProgrammed, NextPower,
         Msg, Mode, Timing, SdTiming, MmcTiming
<1>5. Msg' => SentRemembered' /\ PowerSent'
  BY <1>1, <1>2 DEF IInv, SentRemembered, PowerSent, Msg, MsgTiming
<1>6. Agreed' /\ InitFirst' /\ ResponseExpected'
  BY <1>2 DEF Agreed, InitFirst, ResponseExpected, NoCommand
<1>7. QED
  BY <1>1, <1>3, <1>4, <1>5, <1>6 DEF IInv

-----------------------------------------------------------------------------
(* The updates of the first driver.                                        *)
LEMMA UpdateKeeps == IInv /\ UpdateIos => IInv'
<1> SUFFICES ASSUME IInv, UpdateIos PROVE IInv'
  OBVIOUS
<1> USE SettingsAssumption, UnsetAssumption
<1>1. /\ DOMAIN hw' = Fields /\ DOMAIN cache' = Fields
      /\ hw'.width = (IF cache.width = ios.width THEN hw.width ELSE ios.width)
      /\ hw'.power = Powered
      /\ hw'.clock = (IF ClockChanges THEN ios.clock ELSE hw.clock)
      /\ hw'.timing = (IF ClockChanges THEN Mode(ios.timing) ELSE hw.timing)
      /\ hw'.vdd = (IF NewVolt /\ Known THEN Level(ios.vdd) ELSE hw.vdd)
      /\ cache'.width = ios.width /\ cache'.power = ios.power
      /\ cache'.clock = ios.clock
      /\ cache'.vdd = (IF removable THEN ios.vdd ELSE cache.vdd)
  BY DEF UpdateIos, IInv, Types, Voltage, Clock, WidthAndPower, Fields
<1>2. /\ ~Msg /\ ~Msg' /\ driver' = driver /\ removable' = removable /\ ios' = ios
      /\ phase' = "done" /\ good'.clock = ios.clock
      /\ good'.timing = (IF ClockChanges THEN ios.timing ELSE good.timing)
      /\ tried' = [f \in Fields |-> IF Asked(f) THEN {} ELSE tried[f]]
      /\ started' = started /\ wire' = wire /\ use_hold' = Hold
      /\ need_init' = NeedsInit
      /\ ios.clock # Unset
  <2>1. ~Msg /\ Asked("clock") = ClockChanges /\ DOMAIN ios = Fields
    BY DEF UpdateIos, IInv, Types, ClockProgrammed, Asked, ClockChanges
  <2>2. /\ good'.clock = ios.clock
        /\ good'.timing = (IF ClockChanges THEN ios.timing ELSE good.timing)
    BY <2>1 DEF UpdateIos, Accepted, Fields
  <2>3. ios.clock # Unset
    BY Written DEF IInv
  <2> QED
    BY <2>1, <2>2, <2>3 DEF UpdateIos, Accepted, Msg
<1>3. Types'
  BY <1>1, <1>2 DEF IInv, Types
<1>4. Programmed' /\ PowerFollows'
  <2>1. \A v : Level(v)' = Level(v)
    BY DEF Level
  <2>2. removable => Level(ios.vdd) \in {0, hw'.vdd}
    <3>1. ios.vdd # Unset
      BY Written DEF IInv
    <3>2. removable /\ cache.vdd # Unset => Level(cache.vdd) \in {0, hw.vdd}
      BY <1>2 DEF IInv, Programmed
    <3> QED
      BY <1>1, <3>1, <3>2 DEF NewVolt, Known
  <2>3. /\ cache'.width = hw'.width
        /\ cache'.power = "off" <=> hw'.power = "off"
    BY <1>1, <1>2 DEF IInv, Types, Programmed, PowerFollows, Powered, NextPower
  <2> QED
    BY <1>1, <1>2, <2>1, <2>2, <2>3 DEF IInv, Types, Programmed, PowerFollows
<1>5. ClockProgrammed'
  <2>1. \A s : Mode(s)' = Mode(s)
    BY <1>2 DEF Mode
  <2>2. Timing(ios.clock)' = Timing(ios.clock)
    BY <1>2 DEF Timing, SdTiming, MmcTiming
  <2>3. hw'.timing = Mode(good'.timing)
    BY <1>1, <1>2, <2>1 DEF IInv, ClockProgrammed, ClockChanges
  <2>4. CASE ClockChanges
    <3>1. use_hold' = Hold /\ (driver = "dict" => use_hold' = (Timing(ios.clock) = "hold"))
      BY <1>2, <2>4 DEF Hold, UpdateIos
    <3> QED
      BY <1>1, <1>2, <2>1, <2>2, <2>3, <2>4, <3>1 DEF ClockProgrammed
  <2>5. CASE ~ClockChanges
    <3>1. cache.clock = ios.clock /\ cache.clock # Unset /\ ~Asked("clock")
      BY <1>2, <2>5 DEF ClockChanges, IInv, ClockProgrammed, Asked
    <3>2. tried'.clock = tried.clock
      BY <1>2, <3>1 DEF Fields
    <3> QED
      BY <1>1, <1>2, <2>1, <2>2, <2>3, <2>5, <3>1, <3>2 DEF IInv, ClockProgrammed, Hold
  <2>6. QED
    BY <2>4, <2>5
<1>6. FreshInit'
  <2>1. fresh' => fresh \/ (hw.power = "off" /\ hw'.power # "off")
    BY DEF UpdateIos, Turned
  <2>2. /\ hw'.power = "off" => hw.power = "off" \/ ios.power = "off"
        /\ hw.power = "off" /\ hw'.power # "off" => ios.power = "up" /\ NeedsInit
    BY <1>1 DEF IInv, Types, Powered, NeedsInit
  <2>3. need_init => need_init'
    BY <1>2 DEF NeedsInit
  <2>4. QED
    BY <1>2, <2>1, <2>2, <2>3 DEF IInv, FreshInit
<1>7. Agreed'
  <2>1. /\ ios'.width = hw'.width /\ (removable => Level(ios'.vdd) \in {0, hw'.vdd})
        /\ (hw'.power = "off") = (ios'.power = "off")
    <3>1. /\ ios.width # Unset /\ ios.power # Unset /\ ios.vdd # Unset
      BY Written DEF IInv
    <3>2. \A v : Level(v)' = Level(v)
      BY DEF Level
    <3> QED
      BY <1>1, <1>2, <1>4, <3>1, <3>2 DEF Programmed
  <2>2. /\ hw'.timing = Mode(good.timing)' /\ hw'.clock \in {ios'.clock} \cup tried'.clock
        /\ tried'.clock = {} /\ driver = "dict"
              => (use_hold' = (Timing(ios.clock)' = "hold"))
    <3>1. Timing(cache.clock)' = Timing(ios.clock)'
      BY <1>1, <1>2 DEF Timing, SdTiming, MmcTiming
    <3> QED
      BY <1>1, <1>2, <1>5, <3>1 DEF ClockProgrammed
  <2>3. \A v : Level(v)' = Level(v)
    BY DEF Level
  <2>4. \A f \in Fields : \E v \in {Due(f)'} \cup tried'[f] : Has(f, v)'
    BY <1>2, <2>1, <2>2, <2>3 DEF Due, Has, Fields, Mode
  <2> QED
    BY <1>2, <2>2, <2>4 DEF Agreed
<1>8. InitFirst' /\ ResponseExpected'
  BY <1>2 DEF IInv, InitFirst, ResponseExpected, CardCommands
<1>9. QED
  BY <1>2, <1>3, <1>4, <1>5, <1>6, <1>7, <1>8 DEF IInv

LEMMA UpdateFailsKeeps == IInv /\ UpdateIosFails => IInv'
<1> SUFFICES ASSUME IInv, UpdateIosFails PROVE IInv'
  OBVIOUS
<1> USE SettingsAssumption, UnsetAssumption
<1>1. /\ DOMAIN hw' = Fields /\ DOMAIN cache' = Fields
      /\ hw'.width = (IF cache.width = ios.width THEN hw.width ELSE ios.width)
      /\ hw'.power = Powered /\ hw'.timing = hw.timing /\ hw'.vdd = hw.vdd
      /\ cache'.width = ios.width /\ cache'.power = ios.power
      /\ cache'.clock = cache.clock /\ cache'.timing = cache.timing
      /\ cache'.vdd = cache.vdd
  BY DEF UpdateIosFails, IInv, Types, WidthAndPower, FailedCache, Fields
<1>2. /\ ~Msg /\ ~Msg' /\ driver' = driver /\ removable' = removable /\ ios' = ios
      /\ phase' = "failed" /\ good' = good /\ cache.clock # ios.clock
      /\ tried' = [f \in Fields |-> tried[f] \cup (IF Asked(f) THEN Left(f) ELSE {})]
      /\ started' = started /\ wire' = wire
      /\ need_init' = NeedsInit
  BY DEF UpdateIosFails, Refused, Msg, ClockChanges
<1>3. Types'
  BY <1>1, <1>2 DEF IInv, Types
<1>4. Programmed' /\ PowerFollows'
  BY <1>1, <1>2 DEF IInv, Types, Programmed, PowerFollows, Powered, NextPower
<1>5. ClockProgrammed'
  <2>1. /\ Asked("clock") /\ Left("clock") = IF NoRow THEN {} ELSE {Lost}
        /\ tried'.clock = tried.clock \cup Left("clock")
    BY <1>2 DEF IInv, ClockProgrammed, Asked, Left, Fields
  <2>2. hw'.clock \in {hw.clock} \cup Left("clock")
    BY <2>1 DEF UpdateIosFails, WidthAndPower, IInv, Types, Fields
  <2>3. Left("clock") = {} => use_hold' = use_hold
    BY <2>1 DEF UpdateIosFails, Hold
  <2> QED
    BY <1>1, <1>2, <2>1, <2>2, <2>3
       DEF IInv, ClockProgrammed, Mode, Timing, SdTiming, MmcTiming, Msg
<1>6. FreshInit'
  <2>1. fresh' => fresh \/ (hw.power = "off" /\ hw'.power # "off")
    BY DEF UpdateIosFails, Turned
  <2>2. /\ hw'.power = "off" => hw.power = "off" \/ ios.power = "off"
        /\ hw.power = "off" /\ hw'.power # "off" => ios.power = "up" /\ NeedsInit
    BY <1>1 DEF IInv, Types, Powered, NeedsInit
  <2>3. need_init => need_init'
    BY <1>2 DEF NeedsInit
  <2>4. QED
    BY <1>2, <2>1, <2>2, <2>3 DEF IInv, FreshInit
<1>7. Agreed' /\ InitFirst' /\ ResponseExpected'
  BY <1>2 DEF Agreed, IInv, InitFirst, ResponseExpected, CardCommands
<1>8. QED
  BY <1>2, <1>3, <1>4, <1>5, <1>6, <1>7 DEF IInv

-----------------------------------------------------------------------------
(* The updates of the second driver.                                       *)
LEMMA MsgUpdateKeeps == IInv /\ MsgUpdateIos => IInv'
<1> SUFFICES ASSUME IInv, MsgUpdateIos PROVE IInv'
  OBVIOUS
<1> USE SettingsAssumption, UnsetAssumption
<1>1. /\ DOMAIN hw' = Fields
      /\ hw'.width = Target.width /\ hw'.power = Target.power
      /\ hw'.clock = Target.clock /\ hw'.timing = Target.timing
      /\ hw'.vdd = (IF NewVolt THEN Level(ios.vdd) ELSE hw.vdd)
      /\ cache' = ios /\ cur' = Target
  BY DEF MsgUpdateIos, IInv, Types, VoltSent, Fields
<1>2. /\ Msg /\ Msg' /\ driver' = driver /\ removable' = removable /\ ios' = ios
      /\ phase' = "done" /\ good' = ios
      /\ tried' = [f \in Fields |-> IF Asked(f) THEN {} ELSE tried[f]]
      /\ started' = started /\ wire' = wire
  BY DEF MsgUpdateIos, Accepted, Msg
<1>3. \A s : MsgTiming(s)' = MsgTiming(s)
  BY <1>2 DEF MsgTiming
<1>4. /\ Target.width = ios.width /\ Target.clock = ios.clock
      /\ Target.timing = MsgTiming(ios.timing)
      /\ Target.power = IF cache.power = ios.power THEN cur.power ELSE ios.power
  BY <1>2 DEF IInv, Types, SentRemembered, Target, Changed
<1>5. Types'
  BY <1>1, <1>2 DEF IInv, Types
<1>6. /\ tried'.vdd \subseteq {0, 180, 330}
      /\ removable => hw'.vdd \in {Level(ios.vdd)} \cup tried'.vdd
  <2>1. /\ good = cache /\ tried'.vdd = (IF Asked("vdd") THEN {} ELSE tried.vdd)
        /\ ios.vdd # Unset
        /\ tried.vdd \subseteq {0, 180, 330}
        /\ removable /\ cache.vdd # Unset => hw.vdd \in {Level(cache.vdd)} \cup tried.vdd
    BY <1>2, Written DEF IInv, SentRemembered, Fields
  <2>2. CASE Asked("vdd")
    BY <1>1, <2>1, <2>2 DEF NewVolt, Asked
  <2>3. CASE ~Asked("vdd")
    BY <1>1, <2>1, <2>3 DEF NewVolt, Asked
  <2> QED
    BY <2>2, <2>3
<1>7. SentRemembered'
  BY <1>1, <1>2, <1>3, <1>4, <1>6 DEF IInv, SentRemembered
<1>8. PowerSent'
  <2>1. tried'.power = (IF cache.power = ios.power THEN tried.power ELSE {})
    BY <1>2 DEF IInv, SentRemembered, Asked, Fields
  <2>2. hw'.power = cur'.power /\ cache'.power = ios.power
    BY <1>1
  <2>3. CASE cache.power # ios.power
    BY <1>1, <1>4, <2>2, <2>3 DEF PowerSent
  <2>4. CASE cache.power = ios.power
    BY <1>1, <1>2, <1>4, <2>1, <2>2, <2>4 DEF IInv, PowerSent
  <2> QED
    BY <2>3, <2>4
<1>9. FreshInit'
  <2>1. fresh' => fresh \/ (hw.power = "off" /\ hw'.power # "off")
    BY DEF MsgUpdateIos, Turned
  <2>2. /\ hw'.power = "off" => ios.power = "off"
        /\ hw.power = "off" /\ hw'.power # "off" => ios.power # "off"
    BY <1>1, <1>2, <1>4 DEF IInv, PowerSent
  <2>3. QED
    BY <1>2, <2>1, <2>2 DEF IInv, FreshInit
<1>10. Agreed'
  <2>1. \A v : Level(v)' = Level(v)
    BY DEF Level
  <2>2. removable => \E v \in {ios.vdd} \cup tried'.vdd : Level(v) \in {0, hw'.vdd}
    BY <1>6 DEF Level
  <2>3. \E v \in {ios.power} \cup tried'.power : (hw'.power = "off") = (v = "off")
    BY <1>1, <1>2, <1>8 DEF PowerSent
  <2>4. ASSUME NEW f \in Fields PROVE \E v \in {Due(f)'} \cup tried'[f] : Has(f, v)'
    <3>1. CASE f = "vdd"
      BY <1>2, <2>1, <2>2, <3>1 DEF Due, Has
    <3>2. CASE f = "power"
      BY <1>2, <2>3, <3>2 DEF Due, Has
    <3>3. CASE f \in {"width", "clock", "timing"}
      BY <1>1, <1>2, <1>3, <1>4, <3>3 DEF Due, Has, Mode
    <3> QED
      BY <3>1, <3>2, <3>3 DEF Fields
  <2> QED
    BY <1>2, <2>4 DEF Agreed, Msg
<1>11. InitFirst' /\ ResponseExpected'
  BY <1>2 DEF IInv, InitFirst, ResponseExpected, CardCommands
<1>12. QED
  BY <1>2, <1>5, <1>7, <1>8, <1>9, <1>10, <1>11 DEF IInv

LEMMA MsgUpdateFailsKeeps == IInv /\ MsgUpdateIosFails => IInv'
<1> SUFFICES ASSUME IInv, MsgUpdateIosFails PROVE IInv'
  OBVIOUS
<1>1. /\ DOMAIN hw' = Fields /\ hw'.power = hw.power
      /\ hw'.vdd \in IF NewVolt THEN {hw.vdd, Level(ios.vdd)} ELSE {hw.vdd}
  BY DEF MsgUpdateIosFails, IInv, Types, VoltSent, Fields
<1>2. /\ Msg /\ Msg' /\ driver' = driver /\ removable' = removable /\ ios' = ios
      /\ cache' = cache /\ cur' = cur /\ phase' = "failed" /\ good' = good
      /\ tried' = [f \in Fields |-> tried[f] \cup (IF Asked(f) THEN Left(f) ELSE {})]
      /\ started' = started /\ wire' = wire
  BY DEF MsgUpdateIosFails, Refused, Msg, driverVars
<1>3. Types'
  BY <1>1, <1>2 DEF IInv, Types
<1>4. SentRemembered'
  <2>1. Level(ios.vdd) \in {0, 180, 330} /\ Left("vdd") = {Level(ios.vdd)}
    BY <1>2 DEF Level, Left
  <2>2. tried'.vdd = tried.vdd \cup (IF Asked("vdd") THEN {Level(ios.vdd)} ELSE {})
    BY <1>2, <2>1 DEF Fields
  <2>3. \A v : Level(v)' = Level(v)
    BY DEF Level
  <2> QED
    BY <1>1, <1>2, <2>1, <2>2, <2>3 DEF IInv, SentRemembered, NewVolt, Asked, MsgTiming
<1>5. PowerSent'
  <2>1. tried'.power = tried.power \cup (IF Asked("power") THEN {ios.power} ELSE {})
    BY <1>2 DEF Left, Fields
  <2> QED
    BY <1>1, <1>2, <2>1 DEF IInv, SentRemembered, PowerSent, Asked, MsgUpdateIosFails
<1>6. FreshInit'
  <2>1. fresh' => fresh
    BY <1>1 DEF MsgUpdateIosFails, Turned
  <2>2. QED
    BY <1>1, <1>2, <2>1 DEF IInv, FreshInit
<1>7. Agreed' /\ InitFirst' /\ ResponseExpected'
  BY <1>2 DEF Agreed, IInv, InitFirst, ResponseExpected, CardCommands
<1>8. QED
  BY <1>2, <1>3, <1>4, <1>5, <1>6, <1>7 DEF IInv

LEMMA MsgPanicKeeps == IInv /\ MsgVoltPanic => IInv'
<1> SUFFICES ASSUME IInv, MsgVoltPanic PROVE IInv'
  OBVIOUS
<1>1. /\ Msg /\ phase' = "panic" /\ phase \in {"asked", "failed"}
      /\ UNCHANGED <<driver, removable, ios, cache, cur, need_init, use_hold, hw, fresh,
                     started, good, tried, wire>>
  BY DEF MsgVoltPanic, driverVars
<1>2. Types' /\ FreshInit'
  BY <1>1 DEF IInv, Types, FreshInit, Msg
<1>3. Msg' /\ SentRemembered' /\ PowerSent'
  BY <1>1 DEF IInv, Msg, SentRemembered, PowerSent, MsgTiming, Level
<1>4. Agreed' /\ InitFirst' /\ ResponseExpected'
  BY <1>1 DEF IInv, Agreed, InitFirst, ResponseExpected, CardCommands
<1> QED
  BY <1>2, <1>3, <1>4 DEF IInv

-----------------------------------------------------------------------------
(* A command is sent: the card has power, and when it is its first command *)
(* the MMC layer has not started it, so that v2 is given a GO_IDLE.        *)
LEMMA CommandKeeps == IInv /\ Command => IInv'
<1> SUFFICES ASSUME IInv, Command PROVE IInv'
  OBVIOUS
<1>1. /\ phase = "done" /\ ios.power = "on" /\ fresh' = FALSE /\ started' = TRUE
      /\ need_init' = FALSE
      /\ UNCHANGED <<driver, removable, ios, cache, cur, use_hold, hw, phase, good, tried>>
  BY DEF Command
<1>2. PICK c \in DOMAIN CardCommands :
          /\ started \/ c = "GO_IDLE"
          /\ ~Skipped(c)
          /\ wire' = [cmd |-> c, fresh |-> fresh, init |-> RawInit(c), resp |-> RawResp(c)]
  BY DEF Command
<1>3. hw.power # "off"
  BY <1>1, UnsetAssumption DEF IInv, Programmed, PowerFollows, SentRemembered, PowerSent
<1>4. Types' /\ FreshInit'
  BY <1>1, <1>3 DEF IInv, Types, FreshInit
<1>5. ~Msg' => Programmed' /\ PowerFollows' /\ ClockProgrammed'
  BY <1>1 DEF IInv, Msg, Programmed, PowerFollows, ClockProgrammed, Mode, MsgTiming,
     Timing, SdTiming, MmcTiming, NextPower
<1>6. Msg' => SentRemembered' /\ PowerSent'
  BY <1>1 DEF IInv, Msg, SentRemembered, PowerSent, MsgTiming
<1>7. Agreed'
  BY <1>1 DEF IInv, Agreed, Due, Has, Level, Mode, MsgTiming, Msg, Timing, SdTiming, MmcTiming
<1>8. InitFirst'
  BY <1>2, <1>3 DEF IInv, FreshInit, InitFirst, RawInit, Opcode
<1>9. ResponseExpected'
  BY <1>1, <1>2, RawRespExpected DEF ResponseExpected, CardCommands
<1>10. QED
  BY <1>4, <1>5, <1>6, <1>7, <1>8, <1>9 DEF IInv

-----------------------------------------------------------------------------
LEMMA StepInvariant == IInv /\ [Next]_vars => IInv'
<1>1. ASSUME IInv, UNCHANGED vars PROVE IInv'
  <2>1. Types' /\ FreshInit' /\ Agreed' /\ InitFirst' /\ ResponseExpected'
    BY <1>1 DEF IInv, vars, driverVars, Types, FreshInit, Agreed, Due, Has, Level, Mode, MsgTiming,
       Msg, Timing, SdTiming, MmcTiming, InitFirst, ResponseExpected, CardCommands
  <2>2. ~Msg' => Programmed' /\ PowerFollows' /\ ClockProgrammed'
    BY <1>1 DEF IInv, vars, driverVars, Msg, Programmed, PowerFollows, ClockProgrammed, Mode,
       MsgTiming, Timing, SdTiming, MmcTiming, NextPower
  <2>3. Msg' => SentRemembered' /\ PowerSent'
    BY <1>1 DEF IInv, vars, driverVars, Msg, SentRemembered, PowerSent, MsgTiming
  <2>4. QED
    BY <2>1, <2>2, <2>3 DEF IInv
<1>2. QED
  BY <1>1, WritePowerKeeps, WriteOtherKeeps, UpdateKeeps, UpdateFailsKeeps, MsgUpdateKeeps,
     MsgUpdateFailsKeeps, MsgPanicKeeps, CommandKeeps DEF Next

LEMMA Invariant == Spec => []IInv
  BY InitInvariant, StepInvariant, PTL DEF Spec

(* After an update that succeeded (update_ios) the controller of either    *)
(* driver has every setting asked for, with these exceptions: v1 has the   *)
(* timing asked for when the clock last changed, a setting that returns to *)
(* its old value after a failed update may still be what that update       *)
(* tried, and v1 does not program a voltage it does not know.              *)
THEOREM SettingsAgree == Spec => []Agreed
<1>1. IInv => Agreed
  BY DEF IInv
<1>2. QED
  BY <1>1, Invariant, PTL

(* The first command after power-up carries the 80 clocks.                 *)
THEOREM FirstInitialises == Spec => []InitFirst
<1>1. IInv => InitFirst
  BY DEF IInv
<1>2. QED
  BY <1>1, Invariant, PTL

(* The controller waits for the response that the card gives.              *)
THEOREM WaitsForResponse == Spec => []ResponseExpected
<1>1. IInv => ResponseExpected
  BY DEF IInv
<1>2. QED
  BY <1>1, Invariant, PTL
=============================================================================
