------------------------------ MODULE OilPump ------------------------------
(***************************************************************************)
(* The oil pump of the Tesla Model 3 drive unit on its LIN bus:            *)
(* teslam3oilpump.cpp and oiltempcontroller.cpp, run every 10 ms from a    *)
(* timer interrupt, over c2000_lin.cpp.  The pump (external) answers a     *)
(* request in time, late, garbled or not at all.                           *)
(*                                                                         *)
(* The receive buffer is a sequence of what was on the bus: the echo of a  *)
(* header, and answers, each with the id its checksum was computed over.   *)
(***************************************************************************)
EXTENDS Integers, Sequences
LOCAL INSTANCE SequencesExt

CONSTANTS
    MaxLoopTicks,   \* ticks of one round of requests, 10
    StatusTimeout,  \* ticks without an answer before the fault, 500
    Temps,          \* temperatures the pump may report
    MinimumOilTemp, \* value shown when it does not, -30
    tmpoillow, tmpoilhigh, pumpspeed, \* parameters of the controller
    NoPid           \* no request, no answer, no value yet

MaxPumpSpeed == 255

(* The requests of a round, by tick. *)
Flow == 1
Extra == 4
StatusIds == Flow..Extra
SpeedId == 0

ASSUME OilAssumption ==
    /\ {MaxLoopTicks, StatusTimeout} \subseteq Nat
    /\ MaxLoopTicks >= 10      \* a round is no shorter than the controller's period
    /\ Temps \cup {MinimumOilTemp, tmpoillow, tmpoilhigh} \subseteq Int
    /\ pumpspeed \in 0..MaxPumpSpeed
    /\ NoPid \notin Int

VARIABLES
    tickCount, count, ticksSinceLastResponse,
    shown,      \* id -> answer its spot values were last set from
    m_currentSpeed,
    posted,     \* ERR_OILPUMPFAULT is in the error log
    buffer,     \* what the LIN receiver holds
    sentSpeed,  \* speed in the last speed request
    awaited,    \* request the pump has yet to answer (external)
    late,       \* its answer, still to come after the next header (external)
    silence,    \* history: ticks since the pump put an answer on the bus
    quiet,      \* history: ticks since it answered in time
    hot         \* history: ticks since it last reported hot oil and nothing else

pump == <<tickCount, count, ticksSinceLastResponse, shown, m_currentSpeed, posted>>
oilVars == <<pump, buffer, sentSpeed, awaited, late, silence, quiet, hot>>
-----------------------------------------------------------------------------
Header(id) == [what |-> "header", id |-> id]
Answer(id, t) == [what |-> "answer", id |-> id, temp |-> t]
Garbled == [what |-> "garbled"]
Answers == {Answer(Flow, t): t \in Temps}
           \cup {Answer(id, 0): id \in StatusIds \ {Flow}}

\* mutant: the classic checksum, which leaves the id out
ChecksumClassic(id, frame) == frame.what = "answer"
(* The checksum covers the id in the header's echo. *)
ChecksumFits(id, frame) == frame.what = "answer" /\ frame.id = id

HasReceived(id) ==
    /\ Len(buffer) >= 2
    /\ buffer[1] = Header(id)
    /\ ChecksumFits(id, buffer[2])

(* FlushRx, SendBreak and the header; the transceiver echoes it. *)
Request(id) == <<Header(id)>>

Smaller(a, b) == IF a < b THEN a ELSE b

(* The ratio is truncated. *)
ComputePumpSpeed(t, low) ==
    IF t >= tmpoilhigh THEN MaxPumpSpeed
    ELSE IF t <= low THEN pumpspeed
    ELSE pumpspeed + ((t - low) * (MaxPumpSpeed - pumpspeed)) \div (tmpoilhigh - low)

tmpoil(spot) == IF spot[Flow] = NoPid THEN 0 ELSE spot[Flow].temp

Fallback(id) == Answer(id, MinimumOilTemp)

ASSUME NoPidAssumption == NoPid \notin Answers \cup {Fallback(id): id \in StatusIds}

(* CheckForFaults counts one beyond the timeout, so as to post once. *)
Elapsed(ticks) == IF ticks <= StatusTimeout THEN ticks + 1 ELSE ticks

\* mutant: only the answer with the oil's temperature counts
ReceivedFlow == {id \in {Flow}: HasReceived(id)}
(* The ids whose answer ProcessStatusResponse finds; at most one. *)
Received == {id \in StatusIds: HasReceived(id)}

ProcessStatusResponse(spot) ==
    [id \in StatusIds |-> IF id \in Received THEN buffer[2] ELSE spot[id]]

(* taskOilPump: Ms10Task, and at every tenth call Ms100Task. *)
Tick ==
    LET ticks == IF Received = {} THEN ticksSinceLastResponse ELSE 0
        spot == ProcessStatusResponse(shown)
    IN  /\ awaited = NoPid
        /\ IF tickCount \in {SpeedId} \cup StatusIds
           THEN /\ buffer' = Request(tickCount)
                /\ awaited' = tickCount
           ELSE UNCHANGED <<buffer, awaited>>
        /\ sentSpeed' = IF tickCount = SpeedId THEN m_currentSpeed ELSE sentSpeed
        /\ tickCount' = (tickCount + 1) % MaxLoopTicks
        /\ ticksSinceLastResponse' = Elapsed(ticks)
        /\ IF ticks = StatusTimeout
           THEN shown' = [id \in StatusIds |-> Fallback(id)] /\ posted' = TRUE
           ELSE shown' = spot /\ UNCHANGED posted
        /\ count' = (count + 1) % 10
        /\ m_currentSpeed' = IF count + 1 = 10
                             THEN ComputePumpSpeed(tmpoil(shown'), Smaller(tmpoillow, tmpoilhigh))
                             ELSE m_currentSpeed
        /\ silence' = Smaller(silence + 1, StatusTimeout + 2 * MaxLoopTicks)
        /\ quiet' = Smaller(quiet + 1, StatusTimeout + 2 * MaxLoopTicks)
        /\ hot' = IF ticks = StatusTimeout \/ hot = 0 THEN 0 ELSE Smaller(hot + 1, 3 * MaxLoopTicks)
        /\ UNCHANGED late
-----------------------------------------------------------------------------
(* The pump until the next tick: a late answer first, then its own. *)
Delayed == IF late = NoPid THEN <<>> ELSE <<late>>

AnswerInTime(a) ==
    /\ awaited \in StatusIds /\ a.id = awaited
    /\ buffer' = buffer \o Delayed \o <<a>>
    /\ late' = NoPid
    /\ silence' = 0
    /\ quiet' = IF late = NoPid THEN 0 ELSE quiet
    /\ hot' = IF a.id # Flow \/ late # NoPid THEN hot
              ELSE IF a.temp >= tmpoilhigh THEN IF hot = 0 THEN 1 ELSE hot
              ELSE 0

AnswerLate(a) ==
    /\ awaited \in StatusIds /\ a.id = awaited
    /\ buffer' = buffer \o Delayed
    /\ late' = a
    /\ silence' = 0
    /\ hot' = 0
    /\ UNCHANGED quiet

NoAnswer ==
    /\ \/ buffer' = buffer \o Delayed
       \/ awaited \in StatusIds /\ buffer' = buffer \o Delayed \o <<Garbled>>
    /\ late' = NoPid
    /\ silence' = IF late = NoPid THEN silence ELSE 0
    /\ hot' = IF late = NoPid THEN hot ELSE 0
    /\ UNCHANGED quiet

Pump ==
    /\ awaited # NoPid \/ late # NoPid
    /\ awaited' = NoPid
    /\ \/ \E a \in Answers: AnswerInTime(a) \/ AnswerLate(a)
       \/ NoAnswer
    /\ UNCHANGED <<pump, sentSpeed>>

OilInit ==
    /\ tickCount = 0 /\ count = 0 /\ ticksSinceLastResponse = 0
    /\ shown = [id \in StatusIds |-> NoPid]
    /\ m_currentSpeed = 0 /\ sentSpeed = 0 /\ posted = FALSE
    /\ buffer = <<>> /\ awaited = NoPid /\ late = NoPid
    /\ silence = 0 /\ quiet = 0 /\ hot = 0

OilNext == Tick \/ Pump

OilSpec == OilInit /\ [][OilNext]_oilVars
-----------------------------------------------------------------------------
(* The type invariant of the pump's driver and the bus. *)
OilTypeOK ==
    /\ tickCount \in 0..(MaxLoopTicks - 1) /\ count \in 0..9
    /\ ticksSinceLastResponse \in 0..(StatusTimeout + 1)
    /\ shown \in [StatusIds -> Answers \cup {Fallback(id): id \in StatusIds} \cup {NoPid}]
    /\ {m_currentSpeed, sentSpeed} \subseteq 0..MaxPumpSpeed
    /\ posted \in BOOLEAN
    /\ awaited \in StatusIds \cup {SpeedId, NoPid} /\ late \in Answers \cup {NoPid}

(* A pump that has fallen silent is noticed: the error is posted and every *)
(* spot value is at its fallback one round after the timeout at the        *)
(* latest, although the last answer stays in the buffer until the next     *)
(* request and is found there again at every tick.                         *)
SilenceNoticed ==
    silence > StatusTimeout + MaxLoopTicks =>
        posted /\ \A id \in StatusIds: shown[id] = Fallback(id)

(* A pump that answers any of the four requests in time within the timeout *)
(* is never reported (teslam3oilpump.cpp:188-207).                         *)
NoFalseAlarm == [][posted' /\ ~posted => quiet >= StatusTimeout]_oilVars

(* Spot values are set from answers to their own request, also when an     *)
(* answer comes after the next header: the checksum covers the id.         *)
OwnAnswers == \A id \in StatusIds: shown[id] # NoPid => shown[id].id = id

(* Hot oil is pumped at full speed two rounds after the pump reported it,  *)
(* unless it has reported otherwise or has fallen silent since.            *)
HotOilPumped == hot > 2 * MaxLoopTicks => sentSpeed = MaxPumpSpeed

(* The pump is watched over: silence and heat have their consequences in   *)
(* time, and a pump that answers is not reported.                          *)
PumpWatched == [](SilenceNoticed /\ HotOilPumped) /\ NoFalseAlarm
=============================================================================
