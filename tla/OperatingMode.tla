---------------------------- MODULE OperatingMode ----------------------------
(***************************************************************************)
(* Off, running and charging on the STM32 board: Ms10Task, which the       *)
(* scheduler's interrupt calls every 10 ms (stm32_sine.cpp,                *)
(* vehiclecontrol.cpp), the break interrupt of the PWM timer, which may    *)
(* come between any two of its steps, and the terminal's start and stop in *)
(* the main loop, which the task may preempt (terminal_prj.cpp).  Boards   *)
(* of the Tesla and Prius kind, which leave out a check, are not told      *)
(* apart; "charge" stands for BOOST and BUCK.                              *)
(***************************************************************************)
EXTENDS Integers, FiniteSets

CONSTANTS
  Wait,         \* rounds from closing the contactor to the outputs, 50
  MaxStarts     \* bound: starts and stops from the terminal

ASSUME ModeAssumption == Wait \in Nat \ {0} /\ MaxStarts \in Nat

Modes == {"off", "run", "charge"}
TripModes == {"allOff", "dcSwOn", "prechargeOn", "autoResume"}

VARIABLES
  opmode, tripmode,        \* Param::opmode, Param::tripmode
  pwmMode, tripped,        \* PwmGenerationBase::opmode, tripped
  channels, armed,         \* PWM timer: its outputs, its break interrupt (BIE)
  dcsw, prec,              \* main contactor, precharge contactor
  initWait,                \* of Ms10Task
  uptime,                  \* "first" round, "early", "late": over 5 s
  task, localMode, newMode, seen,   \* where Ms10Task is, its locals, its inputs
  terminal, request, starts, \* where StartInverter is, its mode; the bound's counter
  closedFor,               \* history: rounds begun since the contactor closed
  offRound,                \* history: opmode has been off since before the round
  heeded, overruled,       \* history: the task has turned off since the last start; a
                           \* start did away with a mode the task had not heeded
  byHand, torn             \* history: the terminal started; the task came between

params == <<opmode, tripmode>>
pwm == <<pwmMode, tripped, channels, armed>>
contactors == <<dcsw, prec, closedFor>>
locals == <<localMode, newMode, seen>>
terminalVars == <<terminal, request, starts>>
modeHistory == <<offRound, heeded, overruled, byHand, torn>>
modeVars == <<params, pwm, contactors, initWait, uptime, task, locals, terminalVars, modeHistory>>

-----------------------------------------------------------------------------
(* What a round sees: the bus voltage (low: under half of udcsw; below:    *)
(* under udcsw; over: above udclim), whether the motor stands, the BMS     *)
(* input, and, as far as stt is STAT_NONE, what is wanted.                 *)
Inputs ==
  { s \in [udc : {"low", "below", "fine", "over"}, standing : BOOLEAN, bms : BOOLEAN,
           want : {"refused", "nothing", "start", "charge"}] :
      /\ s.udc # "fine" => s.want = "refused"
      /\ s.udc # "over" => ~s.standing
      /\ s.want = "charge" => ~s.bms }
Unseen == [udc |-> "fine", standing |-> FALSE, bms |-> FALSE, want |-> "refused"]

SetTo(mode) == opmode' = mode /\ offRound' = (offRound /\ mode = "off")

(* SetOpmode: the timer is set up anew, which arms the break interrupt.    *)
\* mutant: the break interrupt is enabled only at power-up
StoreDisarmed(mode) ==
  /\ pwmMode' = mode
  /\ tripped' = (tripped /\ mode = "off")
  /\ UNCHANGED armed
StoreOpmode(mode) ==
  /\ pwmMode' = mode
  /\ tripped' = (tripped /\ mode = "off")
  /\ armed' = (armed \/ mode # "off")
SetOpmode(mode) ==
  IF mode = pwmMode THEN UNCHANGED pwm
  ELSE StoreOpmode(mode) /\ channels' = (mode # "off")

-----------------------------------------------------------------------------
(* Ms10Task.  The filtered voltage of the first round is still low.        *)
BeginRound ==
  /\ task = "idle" /\ task' = "udc"
  /\ localMode' = opmode /\ newMode' = "off"
  /\ seen' \in { s \in Inputs : uptime = "first" => s.udc = "low" }
  /\ uptime' \in IF uptime = "late" THEN {"late"} ELSE {"early", "late"}
  /\ closedFor' = IF dcsw /\ closedFor <= Wait THEN closedFor + 1 ELSE closedFor
  /\ offRound' = (opmode = "off")
  /\ UNCHANGED <<params, pwm, dcsw, prec, initWait, terminalVars, heeded, overruled, byHand, torn>>

ProcessUdc ==
  LET Over == seen.udc = "over"
      TimedOut == seen.udc = "low" /\ uptime = "late"
  IN  /\ task = "udc" /\ task' = "decide"
      /\ IF Over THEN SetTo("off") ELSE UNCHANGED <<opmode, offRound>>
      /\ dcsw' = (dcsw /\ ~(Over /\ seen.standing))
      /\ prec' = (prec /\ ~(Over /\ seen.standing) /\ ~TimedOut)
      /\ closedFor' = IF dcsw' THEN closedFor ELSE 0
      /\ UNCHANGED <<tripmode, pwm, initWait, uptime, locals, terminalVars,
                     heeded, overruled, byHand, torn>>

Wanted ==
  IF seen.want = "refused" THEN "off"
  ELSE IF seen.want = "charge" THEN "charge"
  ELSE IF seen.want = "start" \/ (tripmode = "autoResume" /\ tripped) THEN "run"
  ELSE "off"

Decide ==
  /\ task = "decide" /\ task' = "accept"
  /\ newMode' = Wanted
  /\ UNCHANGED <<params, pwm, contactors, initWait, uptime, localMode, seen, terminalVars,
                 modeHistory>>

Accept ==
  /\ task = "accept" /\ task' = "bms"
  /\ IF newMode = "off" THEN UNCHANGED <<opmode, offRound, localMode, dcsw, heeded, overruled>>
     ELSE /\ SetTo(newMode) /\ localMode' = newMode /\ dcsw' = TRUE
          /\ overruled' = (overruled \/ (opmode # newMode /\ ~heeded))
          /\ heeded' = FALSE
  /\ UNCHANGED <<tripmode, pwm, prec, closedFor, initWait, uptime, newMode, seen,
                 terminalVars, byHand, torn>>

HeedBms ==
  /\ task = "bms" /\ task' = "act"
  /\ IF localMode = "charge" /\ seen.bms
     THEN SetTo("off") /\ localMode' = "off"
     ELSE UNCHANGED <<opmode, offRound, localMode>>
  /\ UNCHANGED <<tripmode, pwm, contactors, initWait, uptime, newMode, seen,
                 terminalVars, heeded, overruled, byHand, torn>>
(* SetContactorsOffState looks at what the trip left behind.               *)
SetContactorsOffState ==
  /\ dcsw' = (dcsw /\ tripped /\ tripmode \in {"dcSwOn", "autoResume"})
  /\ prec' = (prec \/ (tripped /\ tripmode = "prechargeOn"))

\* mutant: the wait is started anew only after running
TurnOffKeepsWait ==
  /\ localMode = "off" /\ initWait' = IF initWait = -1 THEN Wait ELSE initWait
  /\ SetContactorsOffState /\ SetOpmode("off")
  /\ heeded' = TRUE /\ overruled' = FALSE /\ byHand' = (byHand /\ terminal # "idle")
\* mutant: after a trip the outputs are taken to be off
TurnOffUntripped ==
  /\ localMode = "off" /\ initWait' = Wait
  /\ SetContactorsOffState
  /\ IF tripped THEN UNCHANGED pwm ELSE SetOpmode("off")
  /\ heeded' = TRUE /\ overruled' = FALSE /\ byHand' = (byHand /\ terminal # "idle")
TurnOff ==
  /\ localMode = "off" /\ initWait' = Wait
  /\ SetContactorsOffState /\ SetOpmode("off")
  /\ heeded' = TRUE /\ overruled' = FALSE /\ byHand' = (byHand /\ terminal # "idle")

TurnOn ==
  /\ localMode # "off" /\ initWait = 0 /\ initWait' = -1
  /\ SetOpmode(localMode)
  /\ prec' = FALSE
  /\ UNCHANGED <<dcsw, heeded, overruled, byHand>>

CountDown ==
  /\ localMode # "off" /\ initWait # 0
  /\ initWait' = IF initWait > 0 THEN initWait - 1 ELSE initWait
  /\ UNCHANGED <<pwm, dcsw, prec, heeded, overruled, byHand>>

EndRound ==
  /\ task = "act" /\ task' = "idle"
  /\ TurnOff \/ TurnOn \/ CountDown
  /\ closedFor' = IF dcsw' THEN closedFor ELSE 0
  /\ torn' = (torn \/ (terminal = "outputs" /\ pwmMode' # pwmMode))
  /\ localMode' = "off" /\ newMode' = "off" /\ seen' = Unseen
  /\ UNCHANGED <<params, uptime, terminalVars, offRound>>

Ms10Task == BeginRound \/ ProcessUdc \/ Decide \/ Accept \/ HeedBms \/ EndRound

-----------------------------------------------------------------------------
(* tim1_brk_isr: over-current, desaturation, emergency stop or motor       *)
(* protection.                                                             *)
Break ==
  /\ armed /\ armed' = FALSE
  /\ SetTo("off") /\ tripped' = TRUE
  /\ UNCHANGED <<tripmode, pwmMode, channels, contactors, initWait, uptime, task, locals,
                 terminalVars, heeded, overruled, byHand, torn>>

(* StartInverter and StopInverter: the parameter, then SetOpmode, which    *)
(* stores the mode before it acts on it.                                   *)
FromTerminal(goOn, mode) ==
  /\ terminal = "idle" /\ task = "idle" /\ starts < MaxStarts
  /\ starts' = starts + 1 /\ terminal' = goOn /\ request' = mode
  /\ SetTo(mode) /\ byHand' = (byHand \/ goOn = "store")
  /\ UNCHANGED <<tripmode, pwm, contactors, initWait, uptime, task, locals,
                 heeded, overruled, torn>>
StartInverter == \E mode \in Modes : FromTerminal("store", mode)
StopInverter == FromTerminal("idle", "off")

StoreAsked ==
  /\ terminal = "store" /\ task = "idle" /\ offRound' = FALSE
  /\ IF request = pwmMode THEN terminal' = "idle" /\ UNCHANGED pwm
     ELSE /\ terminal' = "outputs" /\ StoreOpmode(request)
          /\ channels' = (channels /\ request = "off")
  /\ UNCHANGED <<params, contactors, initWait, uptime, task, locals, request, starts,
                 heeded, overruled, byHand, torn>>

SetOutputs ==
  /\ terminal = "outputs" /\ task = "idle" /\ offRound' = FALSE
  /\ terminal' = "idle" /\ channels' = (request # "off")
  /\ UNCHANGED <<params, pwmMode, tripped, armed, contactors, initWait, uptime, task, locals,
                 request, starts, heeded, overruled, byHand, torn>>

ModeInit ==
  /\ opmode = "off" /\ tripmode \in TripModes
  /\ pwmMode = "off" /\ tripped = FALSE /\ channels = FALSE /\ armed = FALSE
  /\ dcsw = FALSE /\ prec = TRUE /\ closedFor = 0
  /\ initWait = 0 /\ uptime = "first"
  /\ task = "idle" /\ localMode = "off" /\ newMode = "off" /\ seen = Unseen
  /\ terminal = "idle" /\ request = "off" /\ starts = 0
  /\ offRound = FALSE /\ heeded = FALSE /\ overruled = FALSE /\ byHand = FALSE /\ torn = FALSE
ModeNext == Ms10Task \/ Break \/ StartInverter \/ StopInverter \/ StoreAsked \/ SetOutputs
ModeSpec == ModeInit /\ [][ModeNext]_modeVars

-----------------------------------------------------------------------------
ModeTypeOK ==
  /\ opmode \in Modes /\ pwmMode \in Modes /\ tripmode \in TripModes
  /\ {tripped, channels, armed, dcsw, prec} \subseteq BOOLEAN
  /\ initWait \in -1 .. Wait /\ closedFor \in 0 .. Wait + 1
  /\ uptime \in {"first", "early", "late"} /\ seen \in Inputs
  /\ task \in {"idle", "udc", "decide", "accept", "bms", "act"}
  /\ {localMode, newMode, request} \subseteq Modes
  /\ terminal \in {"idle", "store", "outputs"} /\ starts \in 0 .. MaxStarts
  /\ {offRound, heeded, overruled, byHand, torn} \subseteq BOOLEAN

(* Whoever sets the mode to off and whenever, a whole round later the      *)
(* outputs are off, and the contactor open but after a trip that is to     *)
(* keep it (EndRound).  Unless the task came between the two halves of a   *)
(* start from the terminal: then the outputs can stay on for good.         *)
StopsInARound ==
  task = "idle" /\ terminal = "idle" /\ offRound /\ ~torn =>
    /\ pwmMode = "off" /\ ~channels
    /\ dcsw => tripped /\ tripmode \in {"dcSwOn", "autoResume"}

(* Between rounds the drive that runs has its outputs on, its contactor    *)
(* closed and precharge released, whatever trips, voltages and restarts    *)
(* came before (Accept, TurnOn).                                           *)
RunningConnected ==
  task = "idle" /\ opmode # "off" /\ initWait = -1 /\ ~byHand /\ ~torn =>
    channels /\ dcsw /\ ~prec

(* The task turns the outputs on only after the contactor has been closed  *)
(* for Wait rounds, unless a start overruled a mode not yet heeded, or the *)
(* mode went off in that very round (TurnOn goes by its copy).             *)
OutputsWaited ==
  [][Ms10Task /\ ~channels /\ channels' /\ opmode # "off" /\ ~overruled /\ ~byHand =>
       closedFor >= Wait]_modeVars

(* No round that saw the voltage above udclim at standstill leaves the     *)
(* main contactor closed, whatever was asked of it (ProcessUdc, stt).      *)
OvervoltageOpens ==
  [][task = "act" /\ task' = "idle" /\ seen.udc = "over" /\ seen.standing => ~dcsw']_modeVars

(* While the drive runs, its outputs are those of the mode the parameter   *)
(* shows, and the next over-current raises the interrupt, which is the     *)
(* "Emergency shut down" (hwinit.cpp:237); as long as no start did away    *)
(* with a mode before the task heeded it.                                  *)
RunsGuarded ==
  task = "idle" /\ opmode # "off" /\ initWait = -1 /\ ~overruled /\ ~byHand /\ ~torn =>
    armed /\ pwmMode = opmode

(* The drive that runs is connected and guarded.                           *)
RunsSafely == RunningConnected /\ RunsGuarded

(* The contactor goes before the outputs: closed long enough when they     *)
(* come on, and opened by an over-voltage.                                 *)
ContactorLeads == OutputsWaited /\ OvervoltageOpens
=============================================================================
