------------------------------- MODULE Driving -------------------------------
(***************************************************************************)
(* From the driver's inputs to a torque on the STM32 board: every 10 ms    *)
(* ProcessThrottle, every 100 ms SelectDirection and CruiseControl         *)
(* (vehiclecontrol.cpp), over Throttle (throttle.cpp).  Torque is in       *)
(* tenths of a percent, rounded down.  What the filters for speed and      *)
(* frequency give is any of the speeds.  The error log and the outputs     *)
(* err_out and brk_out are left out.                                       *)
(***************************************************************************)
EXTENDS Integers

CONSTANTS
    Setups,         \* parameters: [dirmode, cruisemode, idlemode, dual, can]
    Speeds,         \* speeds of the motor
    Digits,         \* readings of the two pots, as pairs
    Conditions,     \* [bms, udc, idc, frq, temp]: BMS input, voltage, current, ...
    potmin, potmax, brknom, brknompedal, brkmax, brkcruise,
    idleSpeed, speedkp, idleThrotLim, throtmin, throtmax,
    throtramp, throtrampmax, throtramprpm, regenRamp, dirchrpm,
    bmslimhigh, bmslimlow, udcmin, udcmax, idcmin, idcmax, idckp, fmax, tempMax

POT_SLACK == 200
Full == 1000

ASSUME DrivingAssumption ==
    /\ throtmin \in -Full..0 /\ throtmax \in 0..Full
    /\ {brknompedal, brkmax, brkcruise} \subseteq -Full..0 /\ brknom \in 1..(Full - 1)
    /\ idleThrotLim \in 0..Full /\ {throtramp, throtrampmax, regenRamp} \subseteq 1..Full
    /\ bmslimhigh \in 0..100 /\ bmslimlow \in -100..0

ASSUME DrivingNumbers ==
    /\ Setups \subseteq [dirmode: STRING, cruisemode: STRING, idlemode: STRING,
                         dual: BOOLEAN, can: BOOLEAN]
    /\ Speeds \subseteq Int /\ 0 \in Speeds
    /\ Conditions \subseteq [bms: BOOLEAN, udc: Int, idc: Int, frq: Int, temp: [{1, 2} -> Int]]
    /\ Digits \cup {potmin, potmax} \subseteq [{1, 2} -> Int]
    /\ {idleSpeed, speedkp, throtramprpm, dirchrpm, udcmin, udcmax,
        idcmin, idcmax, fmax, tempMax} \subseteq Int
    /\ idckp \in Nat

VARIABLES
    setup,          \* the parameters
    din,            \* [forward, reverse, brake, cruise]: Param::din_*
    speed,          \* Encoder::GetSpeed
    dir, cruiseSpeed, lastCruiseSwitchState,
    throttleRamped,
    inRound,        \* Ms10Task has read the inputs and not set the torque yet
    permitted,      \* history: the ramp's rise since nothing was demanded
    wanted,         \* history: something asked for torque in the last round
    braking         \* history: the brake has been on since CruiseControl saw it

read == <<din, speed>>
cruise == <<cruiseSpeed, lastCruiseSwitchState>>
torque == <<throttleRamped, permitted, wanted>>
drivingVars == <<setup, read, dir, cruise, torque, inRound, braking>>

Lower(a, b) == IF a < b THEN a ELSE b
Upper(a, b) == IF a > b THEN a ELSE b
-----------------------------------------------------------------------------
(* CheckAndLimitRange and DigitsToPercent of channel i. *)
InRange(val, i) ==
    /\ val + POT_SLACK >= Lower(potmin[i], potmax[i])
    /\ val <= Upper(potmin[i], potmax[i]) + POT_SLACK
Limited(val, i) ==
    IF ~InRange(val, i) THEN Lower(potmin[i], potmax[i])
    ELSE Upper(Lower(potmin[i], potmax[i]), Lower(val, Upper(potmin[i], potmax[i])))
Percent(val, i) ==
    LET span == Upper(potmin[i], potmax[i]) - Lower(potmin[i], potmax[i])
    IN  IF span = 0 THEN Full
        ELSE 10 * ((100 * Upper(val - potmin[i], potmin[i] - val)) \div span)

(* Never 0, because that can spin up the motor. *)
CalcThrottle(pot1, pot2, brake) ==
    LET scaledBrkMax == -1 + ((IF brake THEN brknompedal ELSE brkmax) * pot2) \div Full
    IN  IF brake THEN scaledBrkMax
        ELSE IF pot1 < brknom THEN ((brknom - pot1) * scaledBrkMax) \div brknom
        ELSE (Full * (pot1 - brknom)) \div (Full - brknom)

(* The command the pots stand for; stale: no CAN message for 500 ms. *)
GetUserThrottleCommand(pots, stale) ==
    LET good == {i \in {1, 2}: InRange(pots[i], i)}
        pot == [i \in {1, 2} |-> Percent(Limited(pots[i], i), i)]
        pot1 == IF ~setup.dual \/ good = {1} THEN pot[1]
                ELSE IF good = {2} THEN pot[2] ELSE Lower(pot[1], pot[2])
    IN  IF stale \/ dir = 0 \/ (IF setup.dual THEN good = {} ELSE 1 \notin good) THEN 0
        ELSE CalcThrottle(pot1, IF setup.dual THEN Full ELSE pot[2], din.brake)

Creeps ==
    \/ setup.idlemode = "always"
    \/ setup.idlemode = "noBrake" /\ ~din.brake
    \/ setup.idlemode = "cruise" /\ ~din.brake /\ din.cruise
Cruises == cruiseSpeed > 0 /\ cruiseSpeed > idleSpeed

GetCruiseCreepCommand(user, filtered) ==
    LET idleSpnt == Lower(idleThrotLim, speedkp * (idleSpeed - speed))
        cruiseSpnt == Upper(brkcruise, Lower(Full, speedkp * (cruiseSpeed - filtered)))
    IN  CASE Cruises /\ user <= 0 -> cruiseSpnt
          [] Cruises /\ user > 0  -> Upper(cruiseSpnt, user)
          [] ~Cruises /\ Creeps   -> Upper(user, idleSpnt)
          [] OTHER                -> user

\* mutants: the drive torque ramps down through zero; no limits
RampThroughZero(current, asked, ramp) ==
    LET target == Upper(throtmin, Lower(throtmax, asked))
    IN  IF target >= current THEN Lower(current + ramp, target)
        ELSE IF target > 0 THEN Upper(current - ramp, target)
        ELSE Upper(current - regenRamp, target)
RampUnclamped(current, asked, ramp) ==
    IF asked >= current THEN Lower(current + ramp, asked)
    ELSE IF asked > 0 THEN Upper(current - ramp, asked)
    ELSE Upper(Lower(0, current) - regenRamp, asked)
RampThrottle(current, asked, ramp) ==
    LET target == Upper(throtmin, Lower(throtmax, asked))
    IN  IF target >= current THEN Lower(current + ramp, target)
        ELSE IF target > 0 THEN Upper(current - ramp, target)
        ELSE Upper(Lower(0, current) - regenRamp, target)
-----------------------------------------------------------------------------
(* The deratings of ProcessThrottle, one after the other; potnom is the    *)
(* torque they leave under the conditions c.                               *)
BmsLimitCommand(t, c) ==
    IF ~c.bms THEN t ELSE IF t >= 0 THEN (t * bmslimhigh) \div 100 ELSE -(t * bmslimlow) \div 100

UdcLimitCommand(t, udc) ==
    IF t >= 0 THEN Lower(t, Upper(0, 50 * (udc - udcmin)))
              ELSE Upper(t, Lower(0, 50 * (udc - udcmax)))

IdcLimitCommand(t, idc) ==
    IF t >= 0 THEN Lower(t, Upper(0, idckp * (idcmax - idc)))
              ELSE Upper(t, Lower(0, idckp * (idcmin - idc)))

FrequencyLimitCommand(t, frq) ==
    IF t > 0 THEN Lower(t, Upper(0, 40 * (fmax - frq))) ELSE t

TemperatureDerate(t, temp) ==
    LET limit == IF temp <= tempMax THEN Full ELSE IF temp < tempMax + 2 THEN Full \div 2 ELSE 0
    IN  IF t >= 0 THEN Lower(t, limit) ELSE Upper(t, -limit)

potnom(c) ==
    LET allowed == BmsLimitCommand(throttleRamped, c)
        limited == FrequencyLimitCommand(
                       IdcLimitCommand(UdcLimitCommand(allowed, c.udc), c.idc), c.frq)
    IN  TemperatureDerate(TemperatureDerate(limited, c.temp[1]), c.temp[2])
-----------------------------------------------------------------------------
DriverInputs == [forward: BOOLEAN, reverse: BOOLEAN, brake: BOOLEAN, cruise: BOOLEAN]

(* Ms10Task reads the inputs and the speed, then ProcessThrottle runs; a   *)
(* mode that is off or just turned on resets cruise control or the ramp.   *)
ReadInputs(in, v) ==
    /\ ~inRound /\ inRound' = TRUE
    /\ din' = in /\ speed' = v
    /\ braking' = (braking /\ in.brake)
    /\ UNCHANGED <<setup, dir, cruise, torque>>

ProcessThrottle(pots, stale, filtered, mode) ==
    LET ramp == IF speed < throtramprpm THEN throtramp ELSE throtrampmax
        user == GetUserThrottleCommand(pots, stale)
        demand == GetCruiseCreepCommand(user, filtered)
        ramped == RampThrottle(throttleRamped, demand, ramp)
    IN  /\ inRound /\ inRound' = FALSE
        /\ throttleRamped' = IF mode = "turnOn" THEN RampThrottle(ramped, 0, ramp) ELSE ramped
        /\ cruiseSpeed' = IF mode = "off" THEN -1 ELSE cruiseSpeed
        /\ permitted' = IF demand <= 0 THEN 0 ELSE Lower(permitted + ramp, Full)
        /\ wanted' = (user > 0 \/ Creeps \/ Cruises)
        /\ UNCHANGED <<setup, read, dir, lastCruiseSwitchState, braking>>

\* The direction that is selected if the motor is slow, and the one kept.
Neutral == din.forward = din.reverse
Kept == IF IF setup.dirmode = "switch" THEN Neutral ELSE din.forward /\ din.reverse THEN 0 ELSE dir
UserDirSelection ==
    IF din.forward /\ din.reverse THEN 0
    ELSE IF setup.dirmode = "defaultForward" THEN IF din.reverse THEN -1 ELSE 1
    ELSE IF Neutral THEN IF setup.dirmode = "button" THEN Kept ELSE 0
    ELSE IF din.forward THEN 1 ELSE -1

SelectDirection ==
    IF speed < dirchrpm \/ UserDirSelection = Kept THEN UserDirSelection ELSE 0

\* The button, or the switch that has just been turned on.
CruiseSet ==
    /\ din.cruise
    /\ \/ setup.cruisemode = "button"
       \/ setup.cruisemode = "switch" /\ ~lastCruiseSwitchState
\* mutant: the brake is looked at only when cruise control is not asked for
CruiseControlFirst(asked) ==
    IF CruiseSet THEN speed
    ELSE IF din.brake \/ (setup.cruisemode = "switch" /\ ~din.cruise) THEN -1
    ELSE IF setup.cruisemode = "can" THEN asked ELSE cruiseSpeed
CruiseControl(asked) ==
    IF din.brake THEN -1
    ELSE IF CruiseSet THEN speed
    ELSE IF setup.cruisemode = "switch" /\ ~din.cruise THEN -1
    ELSE IF setup.cruisemode = "can" THEN asked ELSE cruiseSpeed

Ms100Task(asked) ==
    /\ ~inRound
    /\ dir' = SelectDirection
    /\ cruiseSpeed' = CruiseControl(asked)
    /\ lastCruiseSwitchState' = din.cruise
    /\ braking' = din.brake
    /\ UNCHANGED <<setup, read, torque, inRound>>

DrivingInit ==
    /\ setup \in Setups
    /\ din = [forward |-> FALSE, reverse |-> FALSE, brake |-> FALSE, cruise |-> FALSE]
    /\ speed = 0 /\ dir = 0 /\ cruiseSpeed = 0 /\ lastCruiseSwitchState = FALSE
    /\ throttleRamped = 0 /\ inRound = FALSE
    /\ permitted = 0 /\ wanted = FALSE /\ braking = FALSE

DrivingNext ==
    \/ \E in \in DriverInputs, v \in Speeds: ReadInputs(in, v)
    \/ \E pots \in Digits, stale \in {FALSE, setup.can},
          filtered \in IF Cruises THEN Speeds ELSE {speed}, mode \in {"off", "turnOn", "on"}:
          ProcessThrottle(pots, stale, filtered, mode)
    \/ \E asked \in IF setup.cruisemode = "can" THEN Speeds ELSE {0}: Ms100Task(asked)

DrivingSpec == DrivingInit /\ [][DrivingNext]_drivingVars
-----------------------------------------------------------------------------
(* The type invariant: the ramp stays within the torque's limits. *)
DrivingTypeOK ==
    /\ dir \in {-1, 0, 1} /\ speed \in Speeds /\ cruiseSpeed \in Speeds \cup {-1}
    /\ throttleRamped \in throtmin..throtmax
    /\ din \in DriverInputs /\ permitted \in 0..Full
    /\ {lastCruiseSwitchState, inRound, wanted, braking} \subseteq BOOLEAN

(* There is drive torque only in a round in which the pedal, creeping or   *)
(* cruise control asks for it: when the pots, their CAN messages or the    *)
(* direction are lost and the other two do not ask, what the ramp had      *)
(* built up is dropped at once.                                            *)
OnlyAskedDrives == throttleRamped > 0 => wanted

(* Once a 100 ms round has seen the brake it keeps cruise control from     *)
(* driving, whatever button, switch or CAN says, until it is released;     *)
(* only creeping of mode "always" may drive against it.                    *)
BrakeEndsDrive ==
    [][inRound /\ ~inRound' /\ braking /\ throttleRamped' > 0
         => setup.idlemode = "always"]_drivingVars

(* Drive torque rises no faster than the ramp from the last round that did *)
(* not demand any, however the demands change meanwhile.                   *)
RampHolds == throttleRamped <= permitted

(* Each derating holds for the result of all of them: none that comes      *)
(* later raises the torque again or turns drive into braking.              *)
LimitsHold ==
    throttleRamped # 0 => \A c \in Conditions:
        LET t == potnom(c)
        IN  /\ IF throttleRamped >= 0 THEN t \in 0..throttleRamped ELSE t \in throttleRamped..0
            /\ c.udc <= udcmin \/ c.idc >= idcmax \/ c.frq >= fmax => t <= 0
            /\ c.udc >= udcmax \/ c.idc <= idcmin => t >= 0
            /\ c.temp[1] >= tempMax + 2 \/ c.temp[2] >= tempMax + 2 => t = 0

(* Torque is what was asked for: only what was asked, no faster than the   *)
(* ramp and within every limit.                                            *)
TorqueAsAsked == OnlyAskedDrives /\ RampHolds /\ LimitsHold

(* Forward becomes reverse, and neutral a direction, only when the motor   *)
(* is slow, in every mode of selection.                                    *)
ReversesSlowly == [][dir' \notin {0, dir} => speed < dirchrpm]_drivingVars

(* Brake and direction selector get their way, in every setup of them.     *)
DriverObeyed == BrakeEndsDrive /\ ReversesSlowly
=============================================================================
