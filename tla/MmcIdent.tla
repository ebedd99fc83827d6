------------------------------ MODULE MmcIdent ------------------------------
(***************************************************************************)
(* devb-mmcsd: how a card in the slot is detected, powered, identified and *)
(* announced.  Three threads share the slot's record ext: the driver       *)
(* thread (timer polls and command interrupts), the control thread (pulses *)
(* of the driver thread) and, once at startup, the thread that attaches    *)
(* the driver.  All three may start an identification.                     *)
(*                                                                         *)
(* A handler of the driver thread is one action: on the single processor   *)
(* the other two threads, of lower priority, run only when it sleeps, and  *)
(* mmc_ident_start, which sleeps between powering and resetting the card,  *)
(* is split there.  The card and the controller are the environment.       *)
(***************************************************************************)
EXTENDS Naturals, Sequences

CONSTANTS
    Cards,          \* the kinds of card the user owns
    Scenarios,      \* which sets of disturbances are considered
    PwrRetry,       \* ext->pwr_retry: power cycles before the reset counts
    SdLimit,        \* how many answers "busy" end sd_card_powerup
    MmcLimit,       \* and mmc_card_powerup
    MaxPlugs,       \* bound: how often the user touches the slot
    MaxMisreads     \* bound: how often the pin of the slot cannot be read

\* sd_wp is write protected in its CSD; mmc_fast answers SEND_EXT_CSD with a
\* card type the driver does not list; the dud never finishes powering up.
Kinds == {"sd1", "sd_wp", "sdhc", "mmc3", "mmc4", "mmc_fast", "dud"}

AllHazards ==
    {"early_poll",      \* the timer polls before the attaching thread looks
     "late_store",      \* CMD0 completes before its sender stores the state
     "fast_return",     \* a card is back before the driver is done with the last
     "fast_swap",       \* a card is swapped between two polls
     "bad_read",        \* detect() cannot read its pin over I2C
     "noise"}           \* a command fails on the bus

ASSUME IdentAssumption ==
    /\ Cards \subseteq Kinds /\ Scenarios \subseteq SUBSET AllHazards
    /\ PwrRetry \in Nat /\ SdLimit \in Nat \ {0, 1} /\ MmcLimit \in Nat \ {0}
    /\ MaxPlugs \in Nat /\ MaxMisreads \in Nat

None == "none"

VARIABLES
    hazards,    \* the disturbances of this behaviour; never changes
    slot,       \* the card in the slot
    card,       \* its protocol state and the width of its bus
    bus,        \* the command in flight
    hostw,      \* the width the controller is configured for
    eflags, state, ident, istage, version,      \* fields of ext
    count,      \* the static of mmc_ident_start
    ctlq,       \* pulses on the channel of the control thread
    told,       \* the last xpt_async() of the control thread
    pc,         \* where each thread is
    plugs,      \* history: how often the user touched the slot
    misreads    \* history: how often a card was not detected though it was in

world == <<hazards, slot, plugs>>
user == <<world, misreads>>
line == <<card, bus, hostw>>
note == <<ctlq, told>>
vars == <<hazards, slot, card, bus, hostw, eflags, state, ident, istage, version, count,
          ctlq, told, pc, plugs, misreads>>

Threads == {"main", "control", "driver"}
Flags   == {"INSERTED", "READY", "INVALID", "PRELOAD", "HC", "WP"}
Present == slot # None
Sd(k)   == k \in {"sd1", "sd_wp", "sdhc"}
Mmc4(k) == k \in {"mmc4", "mmc_fast"}
HighCap == {"sdhc", "mmc4", "mmc_fast"}
Supported == {"sd1", "sd_wp", "sdhc", "mmc3", "mmc4"}

Off  == [st |-> "off", width |-> 1]
Idle == [st |-> "idle", width |-> 1]

Init ==
    /\ hazards \in Scenarios
    /\ slot \in Cards \cup {None}
    /\ card = IF Present THEN Idle ELSE Off
    /\ bus = None /\ hostw = 1
    /\ eflags = {} /\ state = "IDLE" /\ ident = "NONE" /\ istage = 0
    /\ version = "sd1" /\ count = 0
    /\ ctlq = <<>> /\ told = None
    /\ pc = [t \in Threads |-> IF t = "main" THEN "preload" ELSE "idle"]
    /\ plugs = 0 /\ misreads = 0

(***************************************************************************)
(* The user.                                                               *)
(***************************************************************************)
Remove ==
    /\ Present /\ plugs < MaxPlugs
    /\ slot' = None /\ card' = Off /\ plugs' = plugs + 1
    /\ UNCHANGED <<hazards, bus, hostw, eflags, state, ident, istage, version, count, note, pc, misreads>>

\* No poll has seen that the slot is empty.
Unnoticed == "INSERTED" \in eflags /\ \A i \in DOMAIN ctlq : ctlq[i] # "REMOVAL"
AtRest    == bus = None /\ ctlq = <<>> /\ \A t \in Threads : pc[t] = "idle"

Insert(k) ==
    /\ ~Present /\ plugs < MaxPlugs
    /\ \/ Unnoticed /\ "fast_swap" \in hazards
       \/ ~Unnoticed /\ ("fast_return" \in hazards \/ AtRest)
    /\ slot' = k /\ card' = Idle /\ plugs' = plugs + 1
    /\ UNCHANGED <<hazards, bus, hostw, eflags, state, ident, istage, version, count, note, pc, misreads>>

(***************************************************************************)
(* The card on the bus: what it answers to a command and what becomes of   *)
(* it.  A card that does not know a command, or not in its present state,  *)
(* stays silent and the command times out.                                 *)
(***************************************************************************)
From ==     \* the state a command is legal in
    [ALL_SEND_CID |-> "ready", SET_RELATIVE_ADDR |-> "ident", SEND_CID |-> "stby",
     SEND_CSD |-> "stby", SEL_DES_CARD |-> "stby", SEND_STATUS |-> "tran",
     SET_BUS_WIDTH |-> "tran", SEND_SCR |-> "tran", CHECK_MODE |-> "tran",
     SEND_EXT_CSD |-> "tran", SWITCH |-> "tran", SET_BLOCKLEN |-> "tran"]

DataCommands == {"SEND_SCR", "CHECK_MODE", "SEND_EXT_CSD"}
Commands     == DOMAIN From \cup {"GO_IDLE_STATE", "IF_COND", "APP_CMD", "SD_SEND_OP_COND", "SEND_OP_COND"}

Obeys(c) ==
    CASE c = "IF_COND"          -> card.st = "idle" /\ slot \in {"sd_wp", "sdhc"}
      [] c = "APP_CMD"          -> card.st \in {"idle", "tran"} /\ (Sd(slot) \/ slot = "dud")
      [] c = "SD_SEND_OP_COND"  -> card.st = "idle" /\ (Sd(slot) \/ slot = "dud")
      [] c = "SEND_OP_COND"     -> card.st = "idle" /\ (slot = "mmc3" \/ Mmc4(slot))
      [] OTHER -> /\ card.st = From[c]
                  /\ c \in DataCommands => card.width = hostw
                  /\ c = "SEND_EXT_CSD" => Mmc4(slot)

PowerUp == {"SD_SEND_OP_COND", "SEND_OP_COND"}
Limit   == IF bus = "SD_SEND_OP_COND" THEN SdLimit ELSE MmcLimit

\* A card is powered up after some answers "busy"; the dud never is.
Answers ==
    (IF "noise" \in hazards THEN {"error"} ELSE {}) \cup
    (CASE bus = "GO_IDLE_STATE"                     -> {"ok"}
       [] bus # "GO_IDLE_STATE" /\ ~Obeys(bus)      -> {"timeout"}
       [] bus \in PowerUp /\ Obeys(bus) /\ slot = "dud" -> {"busy"}
       [] bus \in PowerUp /\ Obeys(bus) /\ slot # "dud" ->
             IF istage + 3 > Limit THEN {"ok"} ELSE {"ok", "busy"}
       [] OTHER -> {"ok"})

Obeyed ==   \* the card after it obeyed the command in flight
    CASE bus = "GO_IDLE_STATE"      -> IF Present THEN Idle ELSE Off
      [] bus \in PowerUp            -> [card EXCEPT !.st = "ready"]
      [] bus = "ALL_SEND_CID"       -> [card EXCEPT !.st = "ident"]
      [] bus = "SET_RELATIVE_ADDR"  -> [card EXCEPT !.st = "stby"]
      [] bus = "SEL_DES_CARD"       -> [card EXCEPT !.st = "tran"]
      [] bus = "SET_BUS_WIDTH"      -> [card EXCEPT !.width = 4]
      [] bus = "SWITCH"             -> [card EXCEPT !.width = 8]
      [] OTHER                      -> card

After(ans) == IF ans = "ok" THEN Obeyed ELSE card

(***************************************************************************)
(* What the handlers share.                                                *)
(***************************************************************************)
Goto(t, p) == pc' = [pc EXCEPT ![t] = p]
At(t, p)   == pc[t] = p

\* powerdown() resets the controller, and with it the command in flight.
Unpowered == bus' = None /\ hostw' = 1 /\ card' = IF Present THEN Idle ELSE Off

\* detect() of the board reads the pin of the slot over I2C.  When the pin cannot
\* be read there is no card.
Detects(in) ==
    \/ in = Present /\ UNCHANGED misreads
    \/ /\ ~in /\ Present /\ "bad_read" \in hazards
       /\ misreads < MaxMisreads /\ misreads' = misreads + 1

\* No pin of the slot says write protected, so the flag is cleared.
DetectClears(in, flags) == IF in THEN flags \ {"WP"} ELSE flags

ForgotKeepsInvalid(flags) == flags \ {"INSERTED", "READY"}
Forgot(flags)             == flags \ {"INSERTED", "READY", "INVALID"}

\* mmc_media_check(), once it has called detect()
MediaSeen(in) ==
    \/ /\ in /\ "INSERTED" \in eflags
       /\ eflags' = DetectClears(in, eflags)
       /\ UNCHANGED <<ctlq, line>>
    \/ /\ in /\ "INSERTED" \notin eflags
       /\ eflags' = DetectClears(in, eflags) \cup {"INSERTED"}
       /\ ctlq' = Append(ctlq, "INSERTION")
       /\ UNCHANGED line
    \/ /\ ~in /\ "INSERTED" \in eflags
       /\ eflags' = Forgot(eflags)
       /\ ctlq' = Append(ctlq, "REMOVAL")
       /\ Unpowered
    \/ /\ ~in /\ "INSERTED" \notin eflags
       /\ UNCHANGED <<eflags, ctlq, line>>

MediaCheck == \E in \in BOOLEAN : Detects(in) /\ MediaSeen(in)

(***************************************************************************)
(* mmc_ident_start(), run by any of the three threads: check the slot,     *)
(* power the card off and on, reset it.  The first CMD0s only power the    *)
(* card again; the one after PwrRetry of them goes on.                     *)
(***************************************************************************)
StartCheckKeepsFlags(t) ==
    /\ At(t, "check")
    /\ \E in \in BOOLEAN :
         /\ Detects(in)
         /\ eflags' = DetectClears(in, eflags)
         /\ Goto(t, IF in THEN "power" ELSE IF t = "driver" THEN "failed" ELSE "idle")
    /\ UNCHANGED <<world, line, state, ident, istage, version, count, note>>

StartCheck(t) ==
    /\ At(t, "check")
    /\ \E in \in BOOLEAN :
         /\ Detects(in)
         /\ eflags' = DetectClears(in, IF count = 0 THEN eflags \ {"WP", "HC"} ELSE eflags)
         /\ Goto(t, IF in THEN "power" ELSE IF t = "driver" THEN "failed" ELSE "idle")
    /\ UNCHANGED <<world, line, state, ident, istage, version, count, note>>

StartPower(t) ==
    /\ At(t, "power")
    /\ Unpowered
    /\ Goto(t, "reset")
    /\ UNCHANGED <<user, eflags, state, ident, istage, version, count, note>>

StartResetKeepsCount(t) ==
    /\ At(t, "reset")
    /\ count' = count + 1
    /\ ident' = IF count < PwrRetry THEN ident ELSE "GO_IDLE"
    /\ bus' = "GO_IDLE_STATE"
    /\ Goto(t, IF t = "driver" THEN "idle" ELSE "store")
    /\ UNCHANGED <<user, card, hostw, eflags, state, istage, version, note>>

StartReset(t) ==
    /\ At(t, "reset")
    /\ count' = IF count < PwrRetry THEN count + 1 ELSE 0
    /\ ident' = IF count < PwrRetry THEN ident ELSE "GO_IDLE"
    /\ bus' = "GO_IDLE_STATE"
    /\ Goto(t, IF t = "driver" THEN "idle" ELSE "store")
    /\ UNCHANGED <<user, card, hostw, eflags, state, istage, version, note>>

\* Back in the caller: the driver thread may take the answer from now on.
StartStore(t) ==
    /\ At(t, "store")
    /\ state' = "IDENT"
    /\ Goto(t, "idle")
    /\ UNCHANGED <<user, line, eflags, ident, istage, version, count, note>>

(***************************************************************************)
(* mmc_creat_threads(): the card that is in at startup is "preloaded".     *)
(***************************************************************************)
Preload ==
    /\ At("main", "preload")
    /\ \E in \in BOOLEAN :
         /\ Detects(in)
         /\ IF in
            THEN /\ eflags' = DetectClears(in, eflags) \cup {"PRELOAD", "INSERTED"}
                 /\ ident' = "START"
                 /\ Goto("main", "check")
            ELSE Goto("main", "idle") /\ UNCHANGED <<eflags, ident>>
    /\ UNCHANGED <<world, line, state, istage, version, count, note>>

(***************************************************************************)
(* mmc_control_thread()                                                    *)
(***************************************************************************)
Pulse(p) ==
    /\ At("control", "idle")
    /\ ctlq # <<>> /\ Head(ctlq) = p
    /\ ctlq' = Tail(ctlq)

CardInsertion ==
    /\ Pulse("INSERTION")
    /\ eflags' = eflags \cup {"INSERTED"}
    /\ ident' = "START"
    /\ Goto("control", "check")
    /\ UNCHANGED <<user, line, state, istage, version, count, told>>

CardRemovalKeepsState ==
    /\ Pulse("REMOVAL")
    /\ eflags' = eflags \ {"READY", "INSERTED", "PRELOAD"}
    /\ told' = "lost"
    /\ UNCHANGED <<user, line, state, ident, istage, version, count, pc>>

CardRemovalUntold ==
    /\ Pulse("REMOVAL")
    /\ eflags' = eflags \ {"READY", "INSERTED", "PRELOAD"}
    /\ state' = "IDLE"
    /\ UNCHANGED <<user, line, ident, istage, version, count, told, pc>>

CardRemoval ==
    /\ Pulse("REMOVAL")
    /\ eflags' = eflags \ {"READY", "INSERTED", "PRELOAD"}
    /\ state' = "IDLE"
    /\ told' = "lost"
    /\ UNCHANGED <<user, line, ident, istage, version, count, pc>>

CardReadyUntold ==
    /\ Pulse("READY")
    /\ UNCHANGED <<user, line, eflags, state, ident, istage, version, count, told, pc>>

CardReady ==
    /\ Pulse("READY")
    /\ told' = IF "PRELOAD" \in eflags THEN told ELSE "found"
    /\ UNCHANGED <<user, line, eflags, state, ident, istage, version, count, pc>>

(***************************************************************************)
(* The driver thread.                                                      *)
(***************************************************************************)
Poll ==     \* SIM_TIMER
    /\ At("driver", "idle")
    /\ "early_poll" \in hazards \/ ~At("main", "preload")
    /\ MediaCheck
    /\ UNCHANGED <<world, state, ident, istage, version, count, told, pc>>

\* SIM_INTERRUPT for the command in flight.
Interrupt(ans) ==
    /\ At("driver", "idle") /\ bus # None
    /\ "late_store" \in hazards \/ \A t \in Threads : ~At(t, "store")
    /\ ans \in Answers
    /\ card' = After(ans)

\* mmc_process_interrupt(), state IDLE: "unexpected interrupt".
Unexpected(ans) ==
    /\ Interrupt(ans) /\ state = "IDLE"
    /\ bus' = None
    /\ UNCHANGED <<user, hostw, eflags, state, ident, istage, version, count, note, pc>>

\* mmc_card_ident() in the stage the slot is in.
Stage(s, ans) ==
    /\ Interrupt(ans) /\ state = "IDENT" /\ ident = s
    /\ UNCHANGED <<user, state, count, ctlq, told>>

Send(s, c) == ident' = s /\ bus' = c
Fail       == Goto("driver", "failed") /\ bus' = None /\ UNCHANGED <<ident, hostw, eflags, istage, version>>

Error(ans) == ans \in {"error", "timeout"}

\* Most stages only check for an error and send the next command.
Then(s, ans, next, c) ==
    /\ Stage(s, ans)
    /\ \/ Error(ans) /\ Fail
       \/ ~Error(ans) /\ Send(next, c) /\ UNCHANGED <<hostw, eflags, istage, version, pc>>

Restart(ans) ==         \* ident is still START: mmc_ident_start once more
    /\ Stage("START", ans)
    /\ bus' = None /\ Goto("driver", "check")
    /\ UNCHANGED <<hostw, eflags, ident, istage, version>>

Unstaged(ans) ==        \* ident is NONE: the switch of mmc_card_ident defaults to a failure
    /\ Stage("NONE", ans)
    /\ Fail

GoIdle(ans) ==
    /\ Stage("GO_IDLE", ans)
    /\ \/ Error(ans) /\ Fail
       \/ /\ ~Error(ans)
          /\ Send("CARD_VERSION", "IF_COND") /\ istage' = 0
          /\ UNCHANGED <<hostw, eflags, version, pc>>

CardVersionMustAnswer(ans) ==
    /\ Stage("CARD_VERSION", ans)
    /\ \/ Error(ans) /\ Fail
       \/ /\ ~Error(ans)
          /\ version' = "sd2"
          /\ Send("SD_POWERUP", "APP_CMD") /\ istage' = 1
          /\ UNCHANGED <<hostw, eflags, pc>>

CardVersion(ans) ==
    /\ Stage("CARD_VERSION", ans)
    /\ \/ ans = "error" /\ Fail
       \/ /\ ans # "error"
          /\ version' = IF ans = "timeout" THEN "sd1" ELSE "sd2"
          /\ Send("SD_POWERUP", "APP_CMD") /\ istage' = 1
          /\ UNCHANGED <<hostw, eflags, pc>>

\* The high capacity bit of the answer, set together with "powered up".
WithCapacity(flags) == IF slot \in HighCap THEN flags \cup {"HC"} ELSE flags

\* A version 1 card that does not know APP_CMD may be an MMC card.
SdPowerup(ans) ==
    /\ Stage("SD_POWERUP", ans)
    /\ LET fallback == istage = 1 /\ version = "sd1" /\ ans = "timeout"
           phase    == istage % 3
       IN \/ /\ istage > SdLimit \/ (phase # 0 /\ ~fallback /\ Error(ans))
             /\ Fail
          \/ /\ istage <= SdLimit /\ fallback
             /\ Send("MMC_POWERUP", "GO_IDLE_STATE") /\ istage' = 0
             /\ UNCHANGED <<hostw, eflags, version, pc>>
          \/ /\ istage <= SdLimit /\ (phase = 0 \/ (phase = 2 /\ ans = "busy"))
             /\ Send("SD_POWERUP", "APP_CMD") /\ istage' = istage + 1
             /\ UNCHANGED <<hostw, eflags, version, pc>>
          \/ /\ istage <= SdLimit /\ phase = 1 /\ ~Error(ans)
             /\ Send("SD_POWERUP", "SD_SEND_OP_COND") /\ istage' = istage + 1
             /\ UNCHANGED <<hostw, eflags, version, pc>>
          \/ /\ istage <= SdLimit /\ phase = 2 /\ ans = "ok"
             /\ Send("ALL_SEND_CID", "ALL_SEND_CID") /\ istage' = 0
             /\ eflags' = WithCapacity(eflags)
             /\ UNCHANGED <<hostw, version, pc>>

\* The answer is looked at from the second round on.
MmcPowerup(ans) ==
    /\ Stage("MMC_POWERUP", ans)
    /\ \/ /\ istage > MmcLimit \/ (istage > 0 /\ Error(ans))
          /\ Fail
       \/ /\ istage <= MmcLimit /\ (istage = 0 \/ ans = "busy")
          /\ Send("MMC_POWERUP", "SEND_OP_COND") /\ istage' = istage + 1
          /\ UNCHANGED <<hostw, eflags, version, pc>>
       \/ /\ istage \in 1 .. MmcLimit /\ ans = "ok"
          /\ Send("ALL_SEND_CID", "ALL_SEND_CID") /\ istage' = 0
          /\ version' = "mmc" /\ eflags' = WithCapacity(eflags)
          /\ UNCHANGED <<hostw, pc>>

AllSendCid(ans) == Then("ALL_SEND_CID", ans, "SET_ADDRESS", "SET_RELATIVE_ADDR")
SetAddress(ans) == Then("SET_ADDRESS", ans, "SEND_CID", "SEND_CID")
SendCid(ans)    == Then("SEND_CID", ans, "SEND_CSD", "SEND_CSD")

SendCsd(ans) ==         \* mmc_parse_sd_csd() and mmc_parse_mmc_csd()
    /\ Stage("SEND_CSD", ans)
    /\ \/ Error(ans) /\ Fail
       \/ /\ ~Error(ans)
          /\ eflags' = IF slot = "sd_wp" THEN eflags \cup {"WP"} ELSE eflags
          /\ Send("SEL_DES_CARD", "SEL_DES_CARD")
          /\ UNCHANGED <<hostw, istage, version, pc>>

SelDesCard(ans) == Then("SEL_DES_CARD", ans, "CHECK_STS", "SEND_STATUS")

StatusDone(ans) ==
    /\ Stage("CHECK_STS", ans)
    /\ \/ Error(ans) /\ Fail
       \/ /\ ~Error(ans)
          /\ \/ /\ version = "mmc" /\ Mmc4(slot) /\ hostw' = 1
                /\ Send("EXT_CSD", "SEND_EXT_CSD")
             \/ /\ version = "mmc" /\ ~Mmc4(slot) /\ hostw' = 1
                /\ Send("FINAL", "SET_BLOCKLEN")        \* mmc_ident_mmc_clock()
             \/ /\ version # "mmc" /\ hostw' = 4
                /\ Send("SET_BW_APP", "APP_CMD")
          /\ UNCHANGED <<eflags, istage, version, pc>>

SetBwApp(ans) == Then("SET_BW_APP", ans, "SET_BW", "SET_BUS_WIDTH")
SetBw(ans)    == Then("SET_BW", ans, "SEND_SCR", "APP_CMD")
SendScr(ans)  == Then("SEND_SCR", ans, "PARSE_SCR", "SEND_SCR")

ParseScr(ans) ==        \* version 1.0 cards have no mode to check
    \/ slot = "sd1" /\ Then("PARSE_SCR", ans, "FINAL", "SET_BLOCKLEN")
    \/ slot # "sd1" /\ Then("PARSE_SCR", ans, "CHECK_MODE", "CHECK_MODE")

\* The controller of this board does no high speed: on with either answer.
CheckMode(ans) ==
    /\ Stage("CHECK_MODE", ans)
    /\ Send("FINAL", "SET_BLOCKLEN")                    \* mmc_ident_sd_clock()
    /\ UNCHANGED <<hostw, eflags, istage, version, pc>>

ReadExtCsd(ans) ==
    /\ Stage("EXT_CSD", ans)
    /\ \/ (Error(ans) \/ slot = "mmc_fast") /\ Fail
       \/ /\ ~Error(ans) /\ slot # "mmc_fast"
          /\ hostw' = 8                                 \* mmcsd_mmc_config_buswidth()
          /\ Send("SWITCH_BUSWIDTH", "SWITCH")
          /\ UNCHANGED <<eflags, istage, version, pc>>

SwitchBusWidth(ans) == Then("SWITCH_BUSWIDTH", ans, "FINAL", "SET_BLOCKLEN")

\* The last stage, and mmc_ident_irq() after it: "ident complete".
Final(ans) ==
    /\ Interrupt(ans) /\ state = "IDENT" /\ ident = "FINAL"
    /\ ident' = "NONE" /\ bus' = None
    /\ \/ Error(ans) /\ Goto("driver", "failed") /\ UNCHANGED <<eflags, state, ctlq>>
       \/ /\ ~Error(ans) /\ state' = "IDLE"
          /\ eflags' = eflags \cup {"READY"}
          /\ ctlq' = IF "READY" \in eflags THEN ctlq ELSE Append(ctlq, "READY")
          /\ UNCHANGED pc
    /\ UNCHANGED <<user, hostw, istage, version, count, told>>

JudgeUnmarked(in) == in /\ Unpowered /\ UNCHANGED <<eflags, ctlq, misreads>>

\* mmc_ident_irq() after a failure: a card that is detected is an "unsupported
\* card"; otherwise it is gone, and mmc_media_check() looks again.
Judge(in) ==
    /\ in
    /\ eflags' = DetectClears(in, eflags) \cup {"INVALID"}
    /\ Unpowered
    /\ UNCHANGED <<ctlq, misreads>>

\* detect() says there is no card, and mmc_media_check() asks again: with a card
\* in, the first read failed, or both did.
Vanished ==
    \/ ~Present /\ MediaSeen(FALSE) /\ UNCHANGED misreads
    \/ \E n \in 1 .. 2 :
         /\ Present /\ "bad_read" \in hazards
         /\ misreads + n <= MaxMisreads /\ misreads' = misreads + n
         /\ MediaSeen(n = 1)

IdentFailed ==
    /\ At("driver", "failed")
    /\ state' = "IDLE"
    /\ Judge(Present) \/ Vanished
    /\ Goto("driver", "idle")
    /\ UNCHANGED <<world, ident, istage, version, count, told>>

Start(t)  == StartCheck(t) \/ StartPower(t) \/ StartReset(t) \/ StartStore(t)
Attaching == Preload \/ Start("main")
Control   == CardInsertion \/ CardRemoval \/ CardReady \/ Start("control")
Handler(ans) ==
    \/ Unexpected(ans) \/ Restart(ans) \/ Unstaged(ans) \/ GoIdle(ans) \/ CardVersion(ans)
    \/ SdPowerup(ans) \/ MmcPowerup(ans) \/ AllSendCid(ans) \/ SetAddress(ans)
    \/ SendCid(ans) \/ SendCsd(ans) \/ SelDesCard(ans) \/ StatusDone(ans)
    \/ SetBwApp(ans) \/ SetBw(ans) \/ SendScr(ans) \/ ParseScr(ans)
    \/ CheckMode(ans) \/ ReadExtCsd(ans) \/ SwitchBusWidth(ans) \/ Final(ans)
Driver == IdentFailed \/ Start("driver") \/ \E ans \in {"ok", "busy", "timeout", "error"} : Handler(ans)
User   == Remove \/ \E k \in Cards : Insert(k)

Next == Attaching \/ Control \/ Driver \/ Poll \/ User

Spec     == Init /\ [][Next]_vars
\* Threads run, commands are answered or time out, and the timer keeps polling.
FairSpec == Spec /\ WF_vars(Attaching) /\ WF_vars(Control) /\ WF_vars(Driver) /\ SF_vars(Poll)

(***************************************************************************)
(* Properties                                                              *)
(***************************************************************************)
Stages == {"NONE", "START", "GO_IDLE", "CARD_VERSION", "SD_POWERUP", "MMC_POWERUP",
           "ALL_SEND_CID", "SET_ADDRESS", "SEND_CID", "SEND_CSD", "SEL_DES_CARD",
           "CHECK_STS", "SET_BW_APP", "SET_BW", "SEND_SCR", "PARSE_SCR", "CHECK_MODE",
           "EXT_CSD", "SWITCH_BUSWIDTH", "FINAL"}

TypeOK ==
    /\ hazards \in Scenarios
    /\ slot \in Cards \cup {None}
    /\ card \in [st : {"off", "idle", "ready", "ident", "stby", "tran"}, width : {1, 4, 8}]
    /\ bus \in Commands \cup {None} /\ hostw \in {1, 4, 8}
    /\ eflags \subseteq Flags
    /\ state \in {"IDLE", "IDENT"} /\ ident \in Stages
    /\ istage \in Nat /\ version \in {"sd1", "sd2", "mmc"}
    /\ count \in 0 .. PwrRetry
    /\ ctlq \in Seq({"INSERTION", "REMOVAL", "READY"}) /\ told \in {None, "lost", "found"}
    /\ pc \in [Threads -> {"idle", "preload", "check", "power", "reset", "store", "failed"}]
    /\ plugs \in 0 .. MaxPlugs /\ misreads \in 0 .. MaxMisreads

Usable == "READY" \in eflags /\ "INSERTED" \in eflags /\ Present /\ state = "IDLE"
Quiet  == ctlq = <<>> /\ \A t \in Threads : pc[t] = "idle"

\* When the driver takes requests for a card, the card is selected, the two
\* ends of the bus have the same width, the version and the capacity class the
\* addresses are computed from are those of this card and not of an earlier one,
\* and no card is taken for write protected that is not.  A noisy bus and the
\* late store of mmc_control_thread do not change that.
ReadyMatchesCard ==
    hazards \subseteq {"late_store", "noise"} /\ Usable =>
        /\ slot \in Supported
        /\ card.st = "tran" /\ card.width = hostw
        /\ "HC" \in eflags <=> slot \in HighCap
        /\ version = "mmc" <=> slot \in {"mmc3", "mmc4"}
        /\ "WP" \in eflags => slot = "sd_wp"

\* Only a card the driver does not know is rejected ("unsupported card",
\* mmc_ident_irq).
InvalidMeansUnsupported == "INVALID" \in eflags /\ Present => slot \notin Supported

\* It takes a noisy bus, a card swapped between two polls, a pin that could not be
\* read or two identifications at once to reject a supported card; the late store
\* does not.
RejectedForCause == hazards \subseteq {"late_store"} => InvalidMeansUnsupported

\* As long as the pin can be read and one identification runs at a time, swaps and
\* noise included ...
Sequential == hazards \cap {"early_poll", "fast_return", "bad_read"} = {}

\* ... the upper layers were told of the slot's last change: a card that is ready
\* was announced, unless it was there from the start, and one that is not ready
\* is not offered any more.
Announced ==
    Sequential /\ Quiet =>
        IF "READY" \in eflags
        THEN told = "found" \/ (told = None /\ "PRELOAD" \in eflags)
        ELSE told # "found"

\* An identification did not start because the pin could not be read.  The slot
\* counts as occupied, so no poll starts another.
Overlooked == misreads > 0 /\ "INSERTED" \in eflags /\ AtRest

\* The interrupt of CMD0 was taken for an unexpected one because its sender had
\* not stored the state yet, and nothing is pending any more.
Stalled == state = "IDENT" /\ ident \in {"START", "GO_IDLE"} /\ AtRest

\* A card that stays in the slot ends up ready or rejected, whatever the noise
\* and the polls in between.  There are two ways to get stuck: the lost answer of
\* the late store, and the pin that could not be read.
Identified ==
    "fast_swap" \notin hazards =>
        (Present ~> (~Present \/ {"READY", "INVALID"} \cap eflags # {}
                              \/ ("late_store" \in hazards /\ Stalled) \/ Overlooked))

\* A card that is gone is given up.
Withdrawn ==
    Sequential =>
        (~Present ~> (Present \/ (eflags \cap {"INSERTED", "READY", "INVALID"} = {} /\ told # "found")))

\* The slot the layers above see.
SlotPhase ==
    IF "INSERTED" \notin eflags THEN "empty"
    ELSE IF "INVALID" \in eflags THEN "invalid"
    ELSE IF "READY" \in eflags THEN "ready"
    ELSE "identifying"
Slot == INSTANCE MmcSlot WITH phase <- SlotPhase

\* A verdict stands until the card is taken out, swaps and noise included.
SlotSafe == (Sequential => Slot!Init) /\ [][Sequential => Slot!Next]_SlotPhase

\* Where the identification is, for the request path (SlotLife).  Behind a removal
\* that is on its way the slot counts as empty, although the control thread may
\* set INSERTED again for a moment, with a pulse that was sent before.
Pulses   == {ctlq[i] : i \in DOMAIN ctlq}
Starting ==
    \/ \E t \in {"main", "control"} : pc[t] \in {"check", "power", "reset", "store"}
    \/ "INSERTION" \in Pulses
Run ==
    IF At("driver", "failed") THEN "failing"
    ELSE IF Starting THEN "starting"
    ELSE IF bus # None \/ pc["driver"] \in {"check", "power", "reset"} THEN "going"
    ELSE "none"
Removing  == "REMOVAL" \in Pulses
LifePhase == IF Removing THEN "empty" ELSE SlotPhase
Life      == INSTANCE SlotLife
    WITH present <- Present, phase <- LifePhase, removal <- Removing, run <- Run

\* On a noisy bus the slot lives as the requests rely on: no answer is lost as
\* long as the card is in, no verdict comes behind a removal, and the state
\* changes under a request only where SlotLife says so.
Undisturbed == hazards \subseteq {"noise"}
LifeSafe == (Undisturbed => Life!LifeInit) /\ [][Undisturbed => Life!LifeNext]_(Life!life)
=============================================================================
