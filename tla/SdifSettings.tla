----------------------------- MODULE SdifSettings -----------------------------
(***************************************************************************)
(* The bus settings of both SDIF drivers and the commands they put on the  *)
(* wire (src/drivers/fsdif, src/drivers/fsdif_v2_0): the MMC layer writes  *)
(* settings one by one (write_ivar), update_ios programs the ones it has   *)
(* not programmed before, and a command is translated for the controller.  *)
(*                                                                         *)
(* The MMC layer, external, powers a card off, up and on, with an update   *)
(* after each; sends commands to a powered card whose settings were        *)
(* accepted, GO_IDLE first; and asks for 8-bit timings at width 8 only.    *)
(* The card of a removable slot is an SD card, the other is an eMMC.       *)
(* A transfer, once translated, starts.                                    *)
(***************************************************************************)
EXTENDS Naturals

CONSTANTS Clocks,    \* clocks asked for, in kHz
          Timings,   \* bus timings asked for
          Volts,     \* supply voltages asked for, in units of 10 mV
          Drivers,   \* "calc", "dict": v1 without, with pre_fix_timing; "msg": v2
          Widths,    \* bus widths asked for, among 1, 4 and 8
          Unset,     \* a value no setting has
          Lost       \* the clock after its programming failed half way

Ddr(timing) == timing \in {"ddr50", "ddr52", "hs400"}

ASSUME SettingsAssumption ==
    /\ Widths \subseteq {1, 4, 8} /\ Clocks \subseteq Nat /\ Volts \subseteq Nat
    /\ Drivers \subseteq {"calc", "dict", "msg"}

ASSUME UnsetAssumption == Unset \notin Nat \cup {"off", "up", "on"}

Fields == {"width", "power", "clock", "timing", "vdd"}

VARIABLES
    driver, removable,  \* the driver, and hc.config.non_removable
    ios,         \* host.ios: what the MMC layer asks for
    cache,       \* v1: bus_width, power_mode, card_clock, voltage; v2: curios
    hw,          \* the controller; its timing as the driver translates it
    cur,         \* v2: hc.cur_ios, what the message library sent last
    need_init, use_hold,       \* v1: hc.card_need_init, use_hold
    phase,       \* "asked": written, no update yet; "done"; "failed"; "panic"
    fresh,       \* the card has had no command since it got power
    started,     \* the MMC layer sent GO_IDLE since it asked for power
    good,        \* history: settings of the last successful update; v1's timing
                 \* is that of the last one that changed the clock
    tried,       \* history: what failed updates may have left of each setting
                 \* that no successful one has changed since
    wire         \* the last command sent with these settings, as it went to
                 \* the controller

driverVars == <<cache, cur, need_init, use_hold>>
vars == <<driver, removable, ios, driverVars, hw, phase, fresh, started, good,
          tried, wire>>

Msg == driver = "msg"

-----------------------------------------------------------------------------
(* Conversions.                                                            *)

(* sdif_get_sd_timing, sdif_get_mmc_timing: use_hold of the row, or none.  *)
SdTiming(clock)  == IF clock <= 50000 THEN "hold"
                    ELSE IF clock <= 100000 THEN "direct" ELSE "none"
MmcTiming(clock) == IF clock <= 26000 THEN "hold"
                    ELSE IF clock <= 100000 THEN "direct" ELSE "none"
Timing(clock) == IF removable THEN SdTiming(clock) ELSE MmcTiming(clock)

(* What the controller is told of a timing: DDR or not (v1), the message   *)
(* library's timing (v2).                                                  *)
MsgTiming(timing) == IF timing # "hs" THEN timing
                     ELSE IF removable THEN "sd_hs" ELSE "mmc_hs"
Mode(timing) == IF Msg THEN MsgTiming(timing)
                ELSE IF Ddr(timing) THEN "ddr" ELSE "sdr"

(* The signal voltage for a supply voltage; 0: none is known.              *)
Level(vdd) == CASE vdd = 180 -> 180 [] vdd \in {330, 340} -> 330 [] OTHER -> 0

-----------------------------------------------------------------------------
(* write_ivar: the MMC layer asks.                                         *)
NoCommand == [cmd |-> "none", fresh |-> FALSE, init |-> FALSE, resp |-> "none"]

(* v2: attach sends the first settings and voltage, and notes power_on.    *)
MsgInitIos == [width |-> 1, power |-> "up", clock |-> 0, timing |-> "normal"]
MsgInitVolt == IF removable THEN 330 ELSE 180

Init ==
    /\ driver \in Drivers /\ removable \in BOOLEAN
    /\ \E v \in Volts :
          ios = [width |-> 1, power |-> "up", clock |-> 0, timing |-> "normal", vdd |-> v]
    /\ cache = IF Msg THEN [ios EXCEPT !.power = "off", !.vdd = Unset]
                      ELSE [f \in Fields |-> Unset]
    /\ cur = [MsgInitIos EXCEPT !.power = "on"]
    /\ hw = [width |-> 1, power |-> IF Msg THEN MsgInitIos.power ELSE "off", clock |-> 0,
             timing |-> Mode("normal"), vdd |-> IF Msg THEN MsgInitVolt ELSE 330]
    /\ need_init = FALSE /\ use_hold = FALSE
    /\ phase = "asked" /\ fresh = TRUE /\ started = FALSE
    /\ good = cache /\ tried = [f \in Fields |-> {}]
    /\ wire = NoCommand

(* power_off, power_up and power_on come one after the other.              *)
NextPower(power) == CASE power = "off" -> "up" [] power = "up" -> "on" [] OTHER -> "off"

WritePower ==
    /\ phase \in {"done", "failed"}
    /\ ios' = [ios EXCEPT !.power = NextPower(@)]
    /\ phase' = "asked"
    /\ started' = (started /\ ios'.power # "up") /\ wire' = NoCommand
    /\ UNCHANGED <<driver, removable, driverVars, hw, fresh, good, tried>>

WriteOther ==
    /\ phase # "panic"
    /\ \/ \E w \in Widths : /\ ios.timing = "hs400" => w = 8
                            /\ ios' = [ios EXCEPT !.width = w]
       \/ \E c \in Clocks : ios' = [ios EXCEPT !.clock = c]
       \/ \E t \in Timings : /\ t = "hs400" => ios.width = 8
                             /\ ios' = [ios EXCEPT !.timing = t]
       \/ \E v \in Volts : ios' = [ios EXCEPT !.vdd = v]
    /\ phase' = "asked" /\ wire' = NoCommand
    /\ UNCHANGED <<driver, removable, driverVars, hw, fresh, started, good, tried>>

-----------------------------------------------------------------------------
(* phytium_sdif_update_ios, v1: width, power, clock with DDR, voltage.     *)

(* pre_fix_timing needs a row for the clock.                               *)
NoRow == driver = "dict" /\ Timing(ios.clock) = "none"

Turned == fresh' = (fresh \/ (hw.power = "off" /\ hw'.power # "off"))
Asked(f) == ios[f] # good[f]

(* What a failed update may leave programmed, or half programmed, while    *)
(* the driver remembers the old value.                                     *)
Left(f) == CASE Msg /\ f = "vdd"               -> {Level(ios.vdd)}
             [] Msg /\ f = "power"             -> {ios.power}
             [] ~Msg /\ f = "clock" /\ ~NoRow -> {Lost}
             [] OTHER -> {}

Accepted ==
    /\ phase' = "done"
    /\ good' = IF Msg \/ Asked("clock") THEN ios ELSE [ios EXCEPT !.timing = good.timing]
    /\ tried' = [f \in Fields |-> IF Asked(f) THEN {} ELSE tried[f]]
Refused ==
    /\ phase' = "failed" /\ good' = good
    /\ tried' = [f \in Fields |-> tried[f] \cup (IF Asked(f) THEN Left(f) ELSE {})]

(* Width and power as they are after update_ios has looked at them.        *)
Powered ==
    IF cache.power = ios.power \/ ios.power = "on" THEN hw.power
    ELSE IF ios.power = "off" THEN "off" ELSE "up"

WidthAndPower(h) ==
    [h EXCEPT !.width = IF cache.width = ios.width THEN @ ELSE ios.width,
              !.power = Powered]

(* A voltage that v1 does not know is remembered, and not programmed.      *)
NewVolt == removable /\ cache.vdd # ios.vdd
Known == Level(ios.vdd) # 0
Voltage(h) == IF NewVolt /\ Known THEN [h EXCEPT !.vdd = Level(ios.vdd)] ELSE h

ClockChanges == cache.clock # ios.clock

(* The clock is programmed, and DDR with it.                               *)
Clock(h) ==
    IF ClockChanges
    THEN [h EXCEPT !.clock = ios.clock, !.timing = Mode(ios.timing)] ELSE h
Hold == IF driver = "dict" /\ ClockChanges /\ ~NoRow
        THEN Timing(ios.clock) = "hold" ELSE use_hold

NeedsInit_Off == need_init \/ (cache.power # ios.power /\ ios.power = "off")  \* mutant
NeedsInit == need_init \/ (cache.power # ios.power /\ ios.power = "up")

UpdateIos ==
    /\ phase \in {"asked", "failed"} /\ ~Msg /\ ~(ClockChanges /\ NoRow)
    /\ hw' = Voltage(Clock(WidthAndPower(hw)))
    /\ cache' = [ios EXCEPT !.vdd = IF removable THEN @ ELSE cache.vdd, !.timing = Unset]
    /\ need_init' = NeedsInit /\ use_hold' = Hold
    /\ Turned /\ Accepted
    /\ UNCHANGED <<driver, removable, ios, cur, started, wire>>

(* The clock has no row, or cannot be set: width and power stay, nothing   *)
(* after the clock is done, and the clock may be anything.                 *)
FailedCache_Clock ==                                              \* mutant
    [cache EXCEPT !.width = ios.width, !.power = ios.power, !.clock = ios.clock]
FailedCache == [cache EXCEPT !.width = ios.width, !.power = ios.power]

UpdateIosFails ==
    /\ phase \in {"asked", "failed"} /\ ~Msg /\ ClockChanges
    /\ \E c \in {hw.clock} \cup (IF NoRow THEN {} ELSE {Lost}) :
          hw' = [WidthAndPower(hw) EXCEPT !.clock = c]
    /\ cache' = FailedCache
    /\ need_init' = NeedsInit /\ use_hold' = Hold
    /\ Turned /\ Refused
    /\ UNCHANGED <<driver, removable, ios, cur, started, wire>>

-----------------------------------------------------------------------------
(* phytium_sdif_v2_update_ios: the voltage in a message of its own, then   *)
(* all other settings in one, made of what was sent last and what changed. *)

VoltSent == IF NewVolt THEN [hw EXCEPT !.vdd = Level(ios.vdd)] ELSE hw

(* It panics for a voltage it does not know.                               *)
MsgVoltPanic ==
    /\ phase \in {"asked", "failed"} /\ Msg /\ NewVolt /\ ~Known
    /\ phase' = "panic"
    /\ UNCHANGED <<driver, removable, ios, driverVars, hw, fresh, started, good, tried,
                   wire>>

(* sdif_v2_prepare_update_ios, for the fields that differ from curios;     *)
(* HS400 brings its width along.                                           *)
Changed(f) == IF cache[f] = ios[f] THEN cur[f] ELSE ios[f]
Target ==
    [width  |-> IF cache.timing # ios.timing /\ ios.timing = "hs400" THEN 8
                ELSE Changed("width"),
     timing |-> IF cache.timing = ios.timing THEN cur.timing ELSE MsgTiming(ios.timing),
     clock  |-> Changed("clock"), power |-> Changed("power")]

MsgUpdateIos ==
    /\ phase \in {"asked", "failed"} /\ Msg /\ (NewVolt => Known)
    /\ hw' = [f \in Fields |-> IF f = "vdd" THEN VoltSent.vdd ELSE Target[f]]
    /\ cur' = Target /\ cache' = ios
    /\ Turned /\ Accepted
    /\ UNCHANGED <<driver, removable, ios, need_init, use_hold, started, wire>>

(* One of the two messages fails, the second perhaps half way; the new     *)
(* settings are not remembered.                                            *)
MsgUpdateIosFails ==
    /\ phase \in {"asked", "failed"} /\ Msg /\ (NewVolt => Known)
    /\ \/ NewVolt /\ hw' = hw
       \/ \E c \in {hw.clock, Lost} : hw' = [VoltSent EXCEPT !.clock = c]
    /\ Turned /\ Refused
    /\ UNCHANGED <<driver, removable, ios, driverVars, started, wire>>

-----------------------------------------------------------------------------
(* Commands: what the MMC layer sends to each card, and the response that  *)
(* card gives (external).                                                  *)

SdCommands ==
    [GO_IDLE |-> "none", IF_COND |-> "R7", APP_CMD |-> "R1", APP_OP_COND |-> "R3",
     SWITCH_VOLTAGE |-> "R1", ALL_SEND_CID |-> "R2", RELATIVE_ADDR |-> "R6",
     SEND_CSD |-> "R2", SELECT |-> "R1", DESELECT |-> "none", SEND_SCR |-> "R1",
     SWITCH |-> "R1", STATUS |-> "R1", SET_BLOCKLEN |-> "R1", TRANSFER |-> "R1"]

MmcCommands ==
    [GO_IDLE |-> "none", IF_COND |-> "none", APP_CMD |-> "none", APP_OP_COND |-> "none",
     SEND_OP_COND |-> "R3", ALL_SEND_CID |-> "R2", RELATIVE_ADDR |-> "R1",
     SEND_CSD |-> "R2", SELECT |-> "R1", DESELECT |-> "none", EXT_CSD |-> "R1",
     SWITCH |-> "R1b", STATUS |-> "R1", SET_BLOCKLEN |-> "R1", BUSTEST |-> "R1",
     TRANSFER |-> "R1"]

CardCommands == IF removable THEN SdCommands ELSE MmcCommands

(* Some names above share an opcode, and argument tells them apart.        *)
Opcode(c) == CASE c \in {"IF_COND", "EXT_CSD"} -> 8
               [] c \in {"SELECT", "DESELECT"} -> 7
               [] c = "GO_IDLE" -> 0         [] c = "SEND_OP_COND" -> 1
               [] c = "ALL_SEND_CID" -> 2    [] c = "RELATIVE_ADDR" -> 3
               [] c = "SWITCH" -> 6          [] c = "SEND_CSD" -> 9
               [] c = "SWITCH_VOLTAGE" -> 11 [] c = "STATUS" -> 13
               [] c = "SET_BLOCKLEN" -> 16   [] c = "TRANSFER" -> 18
               [] c = "BUSTEST" -> 19        [] c = "APP_OP_COND" -> 41
               [] c = "SEND_SCR" -> 51       [] c = "APP_CMD" -> 55
ZeroArg(c) == c = "DESELECT"
IfCondArg(c) == c = "IF_COND"                     \* 0x1aa

(* pre_request: commands an eMMC has no use for; more of them in v2.       *)
Skipped_Emmc(c) == ~removable /\ Opcode(c) \in {41, 55}           \* mutant
Skipped(c) ==
    /\ ~removable
    /\ \/ Opcode(c) \in {41, 55} \cup (IF Msg THEN {14, 16, 19} ELSE {})
       \/ Opcode(c) = 8 /\ IfCondArg(c)

(* What the controller is told to wait for: a long response, one with a    *)
(* CRC, one without, or none.                                              *)
Form(resp) == CASE resp = "none" -> "none" [] resp = "R2" -> "long"
                [] resp = "R3" -> "open"   [] OTHER -> "crc"

(* sdif_v2_prepare_sd_command_flags: a table by opcode, which panics for   *)
(* an opcode it does not list.                                             *)
SdFlags(op, zeroarg) ==
    CASE op = 0 -> "none"
      [] op = 8 -> "R7"
      [] op = 41 -> "R3"
      [] op \in {2, 9} -> "R2"
      [] op = 3 -> "R6"
      [] op = 7 -> IF zeroarg THEN "none" ELSE "R1"
      [] op \in {6, 11, 13, 16, 17, 18, 23, 24, 25, 51, 55} -> "R1"
      [] OTHER -> "panic"

MmcFlags(op, zeroarg) ==
    CASE op = 0 -> "none"
      [] op = 1 -> "R3"
      [] op \in {2, 9} -> "R2"
      [] op = 7 -> IF zeroarg THEN "none" ELSE "R1"
      [] op = 6 -> "R1b"
      [] op \in {3, 8, 13, 16, 17, 18, 23, 24, 25} -> "R1"
      [] OTHER -> "panic"

Flags(op, zeroarg) == IF removable THEN SdFlags(op, zeroarg) ELSE MmcFlags(op, zeroarg)

(* sdif_prepare_raw_cmd takes the response from the MMC layer's flags,     *)
(* sdif_v2_prepare_raw_command from the tables.                            *)
RawResp(c) == IF Msg THEN Flags(Opcode(c), ZeroArg(c)) ELSE CardCommands[c]
RawInit(c) == IF Msg THEN Opcode(c) = 0 ELSE need_init

Command ==
    /\ phase = "done" /\ ios.power = "on"
    /\ \E c \in DOMAIN CardCommands :
          /\ started \/ c = "GO_IDLE"
          /\ ~Skipped(c)
          /\ wire' = [cmd |-> c, fresh |-> fresh, init |-> RawInit(c), resp |-> RawResp(c)]
    /\ fresh' = FALSE /\ started' = TRUE /\ need_init' = FALSE
    /\ UNCHANGED <<driver, removable, ios, cache, cur, use_hold, hw, phase, good, tried>>

Next == WritePower \/ WriteOther \/ UpdateIos \/ UpdateIosFails
        \/ MsgUpdateIos \/ MsgUpdateIosFails \/ MsgVoltPanic \/ Command

Spec == Init /\ [][Next]_vars

-----------------------------------------------------------------------------
(* Properties.                                                             *)

(* After an update that succeeded the controller has every setting the MMC *)
(* layer asked for, whatever failed before, and each driver's shortcuts    *)
(* (caches, DDR only with the clock, HS400's width) notwithstanding.  Two  *)
(* of them show: v1 has the timing that was asked for when the clock last  *)
(* changed, and both take a setting that returns to its old value for      *)
(* programmed, although a failed update may have left it at what it tried. *)
Due(f) == IF f = "timing" /\ ~Msg THEN good.timing ELSE ios[f]
Has(f, v) == CASE f = "timing" -> hw.timing = Mode(v)
               [] f = "power"  -> (hw.power = "off") = (v = "off")
               [] f = "vdd"    -> ~removable \/ Level(v) \in {0, hw.vdd}
               [] OTHER        -> hw[f] = v

Agreed ==
    phase = "done" =>
        /\ \A f \in Fields : \E v \in {Due(f)} \cup tried[f] : Has(f, v)
        /\ (driver = "dict" /\ tried.clock = {})
             => (use_hold = (Timing(ios.clock) = "hold"))

(* The first command a card gets after it is powered carries the 80 clocks *)
(* of initialisation.                                                      *)
InitFirst == wire.fresh => wire.init

(* The controller waits for the response that the card gives to the        *)
(* command, and the v2 tables list every command that gets past            *)
(* pre_request: those of an SD card, and those of an eMMC although it is   *)
(* first probed with an SD card's.                                         *)
ResponseExpected ==
    wire.cmd # "none" => Form(wire.resp) = Form(CardCommands[wire.cmd])
=============================================================================
