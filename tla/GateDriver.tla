----------------------------- MODULE GateDriver -----------------------------
(***************************************************************************)
(* Setting up the isolated gate drivers (STGAP1AS) over a daisy-chained    *)
(* SPI: gatedriver.cpp, gatedriverinterface.cpp, and main, which enables   *)
(* them if the set-up succeeds and reads their status for a log dump.      *)
(* The chips are external: they ignore a frame whose checksum does not     *)
(* fit, take registers only in configuration mode, and latch faults.       *)
(***************************************************************************)
EXTENDS Integers, Sequences, FiniteSets
LOCAL INSTANCE SequencesExt

CONSTANTS
    Chips,          \* the chips on the chain, six
    Setup,          \* sequence of register, value and the chips it is for
    StatusRegs,     \* status registers, in the order IsFaulty reads them
    Attempts,       \* rounds of Init, 3
    PowerUpValue,        \* a register's value after power-up
    MaxGarbled, MaxFaults, MaxRestarts  \* bounds

ASSUME GateAssumption ==
    /\ Setup \in Seq([reg: STRING, value: Nat, chips: SUBSET Chips])
    /\ Len(Setup) > 0
    /\ StatusRegs \in Seq(STRING) /\ Len(StatusRegs) > 0
    \* no status register is set up, and no register in two ways on a chip
    /\ \A i \in DOMAIN Setup: \A j \in DOMAIN StatusRegs: Setup[i].reg # StatusRegs[j]
    /\ \A i, j \in DOMAIN Setup:
          Setup[i].reg = Setup[j].reg /\ Setup[i].chips \cap Setup[j].chips # {}
              => Setup[i].value = Setup[j].value
    /\ {Attempts, MaxGarbled, MaxFaults, MaxRestarts} \subseteq Nat /\ Attempts > 0

Regs == {Setup[i].reg: i \in DOMAIN Setup}
NoFrame == -1
NoFault == "none"

VARIABLES
    chip,       \* chip -> its registers, mode, latched fault and what it will send
    stage,      \* "boot", "setup", "status", "enable" or "loop"
    frames,     \* frames of the stage still to send
    attempt,    \* loop variable of Init
    fine,       \* result of VerifyGateDriverConfig or IsFaulty so far
    starting,   \* the status is read by Init, not for a dump
    enabled,    \* level of the shutdown line: the drivers run
    garbled, faults, restarts,   \* counters for the bounds
    troubled,   \* history: rounds of this Init with a disturbed frame
    unseen      \* history: chips whose fault came after its register was read

driverVars == <<stage, frames, attempt, fine, starting, enabled>>
gateVars == <<chip, driverVars, garbled, faults, restarts, troubled, unseen>>
-----------------------------------------------------------------------------
(* Frames; a register is written with two and read with two. *)
Command(c) == <<[cmd |-> c]>>
WriteRegister(s) == <<[cmd |-> "WRITE", to |-> s], [cmd |-> "DATA", to |-> s]>>
VerifySetup(s) == <<[cmd |-> "READ", reg |-> s.reg],
                    [cmd |-> "NOP", value |-> s.value, chips |-> s.chips]>>
VerifyStatus(r) == <<[cmd |-> "READ", reg |-> r],
                     [cmd |-> "NOP", value |-> 0, chips |-> Chips]>>

(* The two frames of each entry, one entry after the other.                *)
Each(Op(_), s) == [k \in 1..(2 * Len(s)) |-> Op(s[(k + 1) \div 2])[2 - (k % 2)]]

SetupGateDrivers == Command("RESET_STATUS") \o Command("START_CONFIG") \o Each(WriteRegister, Setup)
\* mutant: the last entry of the table is not read back
VerifyButLast == Each(VerifySetup, Front(Setup))
VerifyGateDriverConfig == Each(VerifySetup, Setup)

(* Registers are read back before the chips leave configuration mode. *)
Round == SetupGateDrivers \o VerifyGateDriverConfig \o Command("STOP_CONFIG")
StatusFrames == Each(VerifyStatus, StatusRegs)

(* What a chip has sent, without the bits that vary from read to read. *)
Matches(frame, answer) == answer = frame.value

(* What a chip makes of a frame that reaches it. *)
ReadOf(ch, r) ==
    IF r \in Regs THEN IF ch.config THEN ch.reg[r] ELSE NoFrame
    ELSE IF ch.fault = r THEN 1 ELSE 0

Obey(c, ch, f) ==
    CASE f.cmd = "RESET_STATUS" -> [ch EXCEPT !.fault = NoFault]
      [] f.cmd = "START_CONFIG" -> [ch EXCEPT !.config = TRUE]
      [] f.cmd = "STOP_CONFIG" -> [ch EXCEPT !.config = FALSE]
      [] f.cmd = "WRITE" /\ c \in f.to.chips -> [ch EXCEPT !.want = TRUE]
      [] f.cmd = "DATA" /\ c \in f.to.chips ->
            IF ch.want /\ ch.config
            THEN [ch EXCEPT !.reg[f.to.reg] = f.to.value, !.want = FALSE]
            ELSE [ch EXCEPT !.want = FALSE]
      [] f.cmd = "READ" -> [ch EXCEPT !.answer = ReadOf(ch, f.reg)]
      [] f.cmd = "NOP" -> [ch EXCEPT !.answer = NoFrame]
      [] OTHER -> ch

Ignore(ch) == [ch EXCEPT !.want = FALSE, !.answer = NoFrame]

(* Whether what comes back with the frame is what the driver wants. *)
Accepts(f, bad) ==
    f.cmd = "NOP" => \A c \in f.chips: c \notin bad /\ Matches(f, chip[c].answer)
-----------------------------------------------------------------------------
(* SendData: one frame to every chip; some may be disturbed. *)
SendData ==
    /\ stage \in {"setup", "status"} /\ frames # <<>>
    /\ \E bad \in {{}} \cup {{c}: c \in Chips}:
        /\ garbled + Cardinality(bad) <= MaxGarbled
        /\ garbled' = garbled + Cardinality(bad)
        /\ chip' = [c \in Chips |-> IF c \in bad THEN Ignore(chip[c])
                                    ELSE Obey(c, chip[c], Head(frames))]
        /\ fine' = (fine /\ Accepts(Head(frames), bad))
        /\ troubled' = IF bad = {} \/ ~starting THEN troubled ELSE troubled \cup {attempt}
    /\ frames' = Tail(frames)
    /\ UNCHANGED <<stage, attempt, starting, enabled, faults, restarts, unseen>>

(* main: GateDriver::Init, with the shutdown line asserted first. *)
GateDriverInit ==
    /\ stage = "boot"
    /\ stage' = "setup" /\ frames' = Round /\ attempt' = 1 /\ fine' = TRUE
    /\ starting' = TRUE
    /\ enabled' = FALSE
    /\ troubled' = {} /\ unseen' = {}
    /\ UNCHANGED <<chip, garbled, faults, restarts>>

MoreRounds == attempt < Attempts

(* After a round: read the status, or try again, or give up. *)
RoundDone ==
    /\ stage = "setup" /\ frames = <<>>
    /\ fine' = TRUE
    /\ \/ /\ fine
          /\ stage' = "status" /\ frames' = StatusFrames
          /\ UNCHANGED <<attempt, starting>>
       \/ /\ ~fine /\ MoreRounds
          /\ attempt' = attempt + 1 /\ frames' = Round
          /\ UNCHANGED <<stage, starting>>
       \/ /\ ~fine /\ ~MoreRounds
          /\ stage' = "loop" /\ starting' = FALSE
          /\ attempt' = attempt + 1
          /\ UNCHANGED frames
    /\ UNCHANGED <<chip, enabled, garbled, faults, restarts, troubled, unseen>>

(* IsFaulty returns: to Init, and so to main, or to the dump. *)
StatusDone ==
    /\ stage = "status" /\ frames = <<>>
    /\ stage' = IF starting /\ fine THEN "enable" ELSE "loop"
    /\ starting' = FALSE
    /\ UNCHANGED <<chip, frames, attempt, fine, enabled, garbled, faults, restarts>>
    /\ UNCHANGED <<troubled, unseen>>

Enable ==
    /\ stage = "enable"
    /\ enabled' = TRUE
    /\ stage' = "loop"
    /\ UNCHANGED <<chip, frames, attempt, fine, starting, garbled, faults, restarts>>
    /\ UNCHANGED <<troubled, unseen>>

(* A log dump asks for the status again. *)
Dump ==
    /\ stage = "loop"
    /\ stage' = "status" /\ frames' = StatusFrames /\ fine' = TRUE
    /\ UNCHANGED <<chip, attempt, starting, enabled, garbled, faults, restarts, troubled, unseen>>

(* SoftReset: the chips keep their state, and the pin its level. *)
SoftReset ==
    /\ stage = "loop" /\ restarts < MaxRestarts
    /\ restarts' = restarts + 1
    /\ stage' = "boot"
    /\ UNCHANGED <<chip, frames, attempt, fine, starting, enabled, garbled, faults>>
    /\ UNCHANGED <<troubled, unseen>>

(* Whether the register is still to be read by the Init under way. *)
ToBeRead(r) ==
    starting /\ (stage = "setup" \/ \E i \in DOMAIN frames: frames[i] = [cmd |-> "READ", reg |-> r])

(* A chip latches a fault (external). *)
Fault(c, r) ==
    /\ faults < MaxFaults /\ stage # "boot"
    /\ chip[c].fault = NoFault
    /\ faults' = faults + 1
    /\ chip' = [chip EXCEPT ![c].fault = r]
    /\ unseen' = IF ToBeRead(r) THEN unseen ELSE unseen \cup {c}
    /\ UNCHANGED <<driverVars, garbled, restarts, troubled>>

PoweredUp == [reg |-> [r \in Regs |-> PowerUpValue], config |-> FALSE, want |-> FALSE,
              fault |-> NoFault, answer |-> NoFrame]

GateInit ==
    /\ chip = [c \in Chips |-> PoweredUp]
    /\ stage = "boot" /\ frames = <<>> /\ attempt = 0 /\ fine = TRUE
    /\ starting = FALSE /\ enabled = FALSE
    /\ garbled = 0 /\ faults = 0 /\ restarts = 0
    /\ troubled = {} /\ unseen = {}

GateNext ==
    \/ GateDriverInit \/ SendData \/ RoundDone \/ StatusDone \/ Enable \/ Dump \/ SoftReset
    \/ \E c \in Chips: \E i \in DOMAIN StatusRegs: Fault(c, StatusRegs[i])

GateSpec == GateInit /\ [][GateNext]_gateVars
-----------------------------------------------------------------------------
(* The type invariant of the chips and the driver's position. *)
GateTypeOK ==
    /\ \A c \in Chips: /\ DOMAIN chip[c].reg = Regs
                       /\ {chip[c].config, chip[c].want} \subseteq BOOLEAN
    /\ stage \in {"boot", "setup", "status", "enable", "loop"}
    /\ Len(frames) <= 4 * (Len(Setup) + Len(StatusRegs)) + 3 /\ attempt \in 0..(Attempts + 1)
    /\ {fine, starting, enabled} \subseteq BOOLEAN

(* The gate drivers run only with every register of every chip as set up,  *)
(* whatever frames were disturbed on the way: main enables them on Init's  *)
(* word, and Init takes the chips' (inverter_main.cpp:291-295).            *)
EnabledMeansConfigured ==
    enabled => \A i \in DOMAIN Setup: \A c \in Setup[i].chips:
                  chip[c].reg[Setup[i].reg] = Setup[i].value

(* A chip enters configuration mode, and a register of it changes, only    *)
(* while the drivers are shut down: also when a soft reset sets up chips   *)
(* that were running (gatedriverinterface.cpp:54).                         *)
ConfiguredShut ==
    [][\A c \in Chips: (chip'[c].config /\ ~chip[c].config) \/ chip'[c].reg # chip[c].reg
                         => ~enabled]_gateVars

(* Drivers with a latched fault are not enabled, unless the fault came     *)
(* after its status register was read.                                     *)
FaultsSeen ==
    stage = "enable" => \A c \in Chips: chip[c].fault # NoFault => c \in unseen

(* The set-up is given up only when every one of its rounds was disturbed: *)
(* a round starts from a state the one before cannot have spoiled.         *)
GivesUpDisturbed == attempt > Attempts /\ stage # "setup" => 1..Attempts \subseteq troubled

(* The drivers are enabled only when they are as they should be, are set   *)
(* up only when shut down, and are not given up without need.              *)
DriversSafe == [](EnabledMeansConfigured /\ FaultsSeen /\ GivesUpDisturbed) /\ ConfiguredShut
=============================================================================
