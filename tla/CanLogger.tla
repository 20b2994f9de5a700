------------------------------ MODULE CanLogger ------------------------------
(***************************************************************************)
(* When the logger prints: Tick is called by the main loop once per round, *)
(* HandleControlFrame by the receive interrupt, and both write the same    *)
(* four variables.  Time passes in Ticks, as it does in the code.          *)
(***************************************************************************)
EXTENDS Integers

CONSTANTS
  Step,         \* milliseconds the main loop says a round takes
  Keepalive,    \* KEEPALIVE_TIMEOUT_MS
  Unit,         \* milliseconds in one unit of a control frame's interval byte
  Default,      \* DEFAULT_INTERVAL_MS
  Bytes,        \* interval bytes the clients send
  MidTick,      \* whether a control frame may arrive within a Tick
  Horizon       \* bound: later times are not told apart

Interval(b) == IF b > 0 THEN b * Unit ELSE Default
Intervals == {Interval(b) : b \in Bytes} \union {Default}

ASSUME LoggerAssumption ==
  /\ Step \in Nat \ {0} /\ Keepalive \in Nat \ {0} /\ Unit \in Nat /\ Default \in Nat
  /\ Bytes \subseteq Nat /\ MidTick \in BOOLEAN
  /\ Horizon \in Nat /\ Horizon >= Keepalive + Step
  /\ \A interval \in Intervals : interval + Step <= Horizon

VARIABLES
  enabled, intervalMs, intervalAccumMs, keepaliveMs,
  at,           \* where Tick is
  reg,          \* the value it holds between a read and a write
  (* What the clients know: whether one is left, whether the last frame    *)
  (* was a stop, whether a first dump is still owed, and the time since    *)
  (* the last start and the last dump.                                     *)
  clients, stopped, owed, sinceStart, sinceDump

shared == <<enabled, intervalMs, intervalAccumMs, keepaliveMs>>
loggerHistory == <<clients, stopped, owed, sinceStart, sinceDump>>
loggerVars == <<shared, at, reg, loggerHistory>>

Later(t) == IF t + Step > Horizon THEN Horizon ELSE t + Step

LoggerInit ==
  /\ enabled = FALSE /\ intervalMs = Default /\ intervalAccumMs = 0 /\ keepaliveMs = 0
  /\ at = "idle" /\ reg = 0
  /\ clients = TRUE /\ stopped = TRUE /\ owed = FALSE /\ sinceStart = 0 /\ sinceDump = 0

-----------------------------------------------------------------------------
(* Tick *)
TickBegin ==
  /\ at = "idle"
  /\ at' = IF enabled THEN "readKeepalive" ELSE "idle"
  /\ sinceStart' = Later(sinceStart) /\ sinceDump' = Later(sinceDump)
  /\ UNCHANGED <<shared, reg, clients, stopped, owed>>

ReadKeepalive ==
  /\ at = "readKeepalive" /\ at' = "writeKeepalive"
  /\ reg' = keepaliveMs
  /\ UNCHANGED <<shared, loggerHistory>>

WriteKeepalive ==
  /\ at = "writeKeepalive" /\ at' = "testKeepalive"
  /\ reg' = reg + Step /\ keepaliveMs' = reg'
  /\ UNCHANGED <<enabled, intervalMs, intervalAccumMs, loggerHistory>>

(* A comparison may use the value in a register or read it again.          *)
TestKeepaliveLate ==                                            \* mutant
  /\ at = "testKeepalive"
  /\ \E k \in {reg, keepaliveMs} : at' = IF k > Keepalive THEN "expire" ELSE "readAccum"
  /\ UNCHANGED <<shared, reg, loggerHistory>>
TestKeepalive ==
  /\ at = "testKeepalive"
  /\ \E k \in {reg, keepaliveMs} : at' = IF k >= Keepalive THEN "expire" ELSE "readAccum"
  /\ UNCHANGED <<shared, reg, loggerHistory>>

Expire ==
  /\ at = "expire" /\ at' = "idle"
  /\ enabled' = FALSE
  /\ UNCHANGED <<intervalMs, intervalAccumMs, keepaliveMs, reg, loggerHistory>>

ReadAccum ==
  /\ at = "readAccum" /\ at' = "writeAccum"
  /\ reg' = intervalAccumMs
  /\ UNCHANGED <<shared, loggerHistory>>

WriteAccum ==
  /\ at = "writeAccum" /\ at' = "testAccum"
  /\ reg' = reg + Step /\ intervalAccumMs' = reg'
  /\ UNCHANGED <<enabled, intervalMs, keepaliveMs, loggerHistory>>

TestAccum ==
  /\ at = "testAccum"
  /\ \E a \in {reg, intervalAccumMs} : at' = IF a >= intervalMs THEN "dump" ELSE "idle"
  /\ UNCHANGED <<shared, reg, loggerHistory>>

(* Tick returns TRUE, and the loop prints what there is to print.          *)
DumpKeepsAccum ==                                               \* mutant
  /\ at = "dump" /\ at' = "idle"
  /\ owed' = FALSE /\ sinceDump' = 0
  /\ UNCHANGED <<shared, reg, clients, stopped, sinceStart>>
DumpAwaitsClient ==                                             \* mutant
  /\ at = "dump" /\ at' = "idle" /\ clients
  /\ intervalAccumMs' = 0
  /\ owed' = FALSE /\ sinceDump' = 0
  /\ UNCHANGED <<enabled, intervalMs, keepaliveMs, reg, clients, stopped, sinceStart>>
Dump ==
  /\ at = "dump" /\ at' = "idle"
  /\ intervalAccumMs' = 0
  /\ owed' = FALSE /\ sinceDump' = 0
  /\ UNCHANGED <<enabled, intervalMs, keepaliveMs, reg, clients, stopped, sinceStart>>

Tick ==
  \/ TickBegin \/ ReadKeepalive \/ WriteKeepalive \/ TestKeepalive \/ Expire
  \/ ReadAccum \/ WriteAccum \/ TestAccum \/ Dump

-----------------------------------------------------------------------------
(* HandleControlFrame *)
StartKeepsTime(b) ==                                            \* mutant
  /\ clients
  /\ enabled' = TRUE /\ intervalMs' = Interval(b)
  /\ intervalAccumMs' = IF enabled THEN intervalAccumMs ELSE intervalMs'
  /\ stopped' = FALSE /\ owed' = (owed \/ ~enabled) /\ sinceStart' = 0
  /\ UNCHANGED <<keepaliveMs, at, reg, clients, sinceDump>>
Start(b) ==
  /\ clients
  /\ keepaliveMs' = 0
  /\ enabled' = TRUE /\ intervalMs' = Interval(b)
  /\ intervalAccumMs' = IF enabled THEN intervalAccumMs ELSE intervalMs'
  /\ stopped' = FALSE /\ owed' = (owed \/ ~enabled) /\ sinceStart' = 0
  /\ UNCHANGED <<at, reg, clients, sinceDump>>

Stop ==
  /\ clients
  /\ enabled' = FALSE
  /\ stopped' = TRUE /\ owed' = FALSE
  /\ UNCHANGED <<intervalMs, intervalAccumMs, keepaliveMs, at, reg, clients, sinceStart, sinceDump>>

HandleControlFrame == (MidTick \/ at = "idle") /\ (Stop \/ \E b \in Bytes : Start(b))

(* The last client goes, with or without a stop. *)
Leave ==
  /\ clients /\ clients' = FALSE
  /\ UNCHANGED <<shared, at, reg, stopped, owed, sinceStart, sinceDump>>

LoggerNext == Tick \/ HandleControlFrame \/ Leave

(* The main loop never stops calling Tick.                                 *)
LoggerSpec == LoggerInit /\ [][LoggerNext]_loggerVars /\ WF_loggerVars(Tick)

-----------------------------------------------------------------------------
LoggerTypeOK ==
  /\ enabled \in BOOLEAN /\ intervalMs \in Intervals
  /\ intervalAccumMs \in 0 .. Horizon /\ keepaliveMs \in 0 .. Keepalive + Step
  /\ at \in {"idle", "readKeepalive", "writeKeepalive", "testKeepalive", "expire",
             "readAccum", "writeAccum", "testAccum", "dump"}
  /\ reg \in 0 .. Horizon
  /\ clients \in BOOLEAN /\ stopped \in BOOLEAN /\ owed \in BOOLEAN
  /\ sinceStart \in 0 .. Horizon /\ sinceDump \in 0 .. Horizon

(* Logging is off once the keepalive time has passed since the last start  *)
(* command, wherever control frames fall between the steps of Tick.        *)
EndsOnTime == at = "idle" /\ enabled => sinceStart < Keepalive

(* Logging goes on until then unless somebody says stop: a client that     *)
(* sends start often enough is never cut off ("stops automatically 30 s    *)
(* after the last start command", canlogger.h:35).                         *)
KeptAlive == enabled \/ stopped \/ sinceStart >= Keepalive

(* The first dump after logging went on is owed at once; any other is an   *)
(* interval later than the one before.                                     *)
DumpsPaced == [][at = "dump" /\ at' = "idle" => owed \/ sinceDump >= intervalMs]_loggerVars

(* A logger nobody listens to any more falls silent.                       *)
LoggingEnds == ~clients ~> ~enabled
=============================================================================
