---------------------------- MODULE PmicWatchdog ----------------------------
(***************************************************************************)
(* The power management IC (TLF35584) and its driver: pmicdriver.h over    *)
(* pmicspidriver.cpp.  The main loop sets the device up and later reads    *)
(* its status registers for a log dump; the timer interrupt strobes its    *)
(* window watchdog every 100 ms and answers its functional watchdog at     *)
(* every other strobe.  Both share one SPI module that has neither queue   *)
(* nor lock.  Time is counted in units of 50 ms.                           *)
(*                                                                         *)
(* A frame is a record: the request, its echo, or the answer to a read.    *)
(* The register in an answer is not part of the frame the driver looks at; *)
(* it is kept to state which request an answer belongs to.                 *)
(***************************************************************************)
EXTENDS Integers, Sequences

CONSTANTS
    Quests,             \* quests the functional watchdog may pose, among 0..15
    WatchdogResponses,  \* quest -> its four response bytes, resp3 first
    StatusValues,       \* bytes a status register may hold
    ErrorThreshold,     \* WWDETHR and FWDETHR in RegisterConfig
    MaxDisturbed,       \* bound on bus faults and overlapping transfers together
    SaveUnits,          \* how long interrupts are off for SAVE, in units of 50 ms
    MaxSaves,           \* bound on SAVE commands
    StatusReads,        \* registers read for a dump, 5 in ReadStatusRegisters
    MayTear,            \* whether an interrupt may tear a flag test from its read
    None                \* no frame

ASSUME PmicAssumption ==
    /\ Quests \subseteq 0..15
    /\ WatchdogResponses \in [0..15 -> [1..4 -> 0..255]]
    /\ StatusValues \subseteq 0..255
    /\ {ErrorThreshold, MaxDisturbed, SaveUnits, MaxSaves, StatusReads} \subseteq Nat

VARIABLES
    todo,       \* context -> register accesses still to make, the current one first
    pc,         \* context -> statement of TransferData
    shift,      \* frame being shifted, or None
    txbuf,      \* frame waiting in SPITXBUF, or None
    rxbuf,      \* frame in SPIRXBUF
    intFlag,    \* SPISTS.INT_FLAG
    windowStatus,   \* local variable of StrobeWindowWatchdog
    lastQuest,  \* lastFunctionalWatchdogQuest
    dev,        \* the device (external)
    phase,      \* units of 50 ms since the timer fired, modulo 2
    timer,      \* the timer interrupt is pending
    masked,     \* units for which interrupts are still off
    dumped,     \* the main loop has read the status since the last Tick
    faults, overlaps, saves,  \* counters for the bounds
    torn        \* history: an interrupt came between a flag test and its read

spi == <<shift, txbuf, rxbuf, intFlag>>
driver == <<todo, pc, windowStatus, lastQuest>>
clock == <<phase, timer, masked, dumped>>
history == <<faults, overlaps, saves, torn>>
vars == <<driver, spi, dev, clock, history>>

Context == {"main", "isr"}
Illegal == 16   \* ~TLF35584_FWDSTAT0_FWDQUEST_MASK: no quest
-----------------------------------------------------------------------------
(* Register accesses, named after the register or the function. *)
Times(n, step) == [i \in 1..n |-> step]

AnswerSteps == <<"resp3", "resp2", "resp1", "resp0">>
StrobeReadSteps == <<"window_read", "window_write", "quest_read">>
StrobeAnswerSteps == <<"window_read", "window_write">> \o AnswerSteps
SetupSteps ==
    Times(4, "unlock") \o Times(6, "config") \o Times(4, "lock")
    \o StrobeReadSteps \o AnswerSteps
    \o Times(9, "clear") \o <<"devctrl", "devctrln", "devstat">>
StatusSteps == Times(StatusReads, "status")

ReadSteps == {"window_read", "quest_read", "devstat", "status"}
ResponseIndex == [resp3 |-> 1, resp2 |-> 2, resp1 |-> 3, resp0 |-> 4]

Frame(op, step, data) == [op |-> op, step |-> step, data |-> data]

RequestNotInverted(step) ==                                     \* mutant
    IF step \in ReadSteps THEN Frame("read", step, 0)
    ELSE Frame("write", step,
               CASE step = "window_write" -> windowStatus \div 128
                 [] step \in DOMAIN ResponseIndex ->
                        WatchdogResponses[lastQuest][ResponseIndex[step]]
                 [] OTHER -> 0)
\* The request for an access: ReadRegister and WriteRegister.
Request(step) ==
    IF step \in ReadSteps THEN Frame("read", step, 0)
    ELSE Frame("write", step,
               CASE step = "window_write" -> 1 - windowStatus \div 128
                 [] step \in DOMAIN ResponseIndex ->
                        WatchdogResponses[lastQuest][ResponseIndex[step]]
                 [] OTHER -> 0)

\* What TransferData returns after a timeout.
AllOnes == Frame("timeout", "none", 255)

\* A write is checked against its echo, a read by parity alone: 0xFFFF passes.
Accepted(request, answer) ==
    IF request.op = "write" THEN answer = request ELSE answer.op # "garbled"
-----------------------------------------------------------------------------
(* The device, as the driver's comments and configuration describe it. *)
Normal == dev.state = "normal"

Fail(errors) == errors + 2
Succeed(errors) == IF errors = 0 THEN 0 ELSE errors - 1

Judge(d) ==
    IF /\ d.state = "normal"
       /\ d.windowErrors > ErrorThreshold \/ d.functionalErrors > ErrorThreshold
    THEN [d EXCEPT !.state = "failed"] ELSE d

\* The window is closed for one unit and open for two; at the boundary the
\* two clocks decide.  A trigger bit that has not changed is no trigger.
Triggered(d, bit) ==
    LET opened == [d EXCEPT !.trigger = bit, !.age = 0]
        early  == [opened EXCEPT !.windowErrors = Fail(@)]
        inTime == [opened EXCEPT !.windowErrors = Succeed(@)]
    IN  IF bit = d.trigger THEN {d}
        ELSE {x \in {early, inTime} :
                 \/ x = early  /\ d.state = "normal" /\ d.age <= 1
                 \/ x = inTime /\ (d.state # "normal" \/ d.age >= 1)}

\* Three bytes to FWDRSP, the fourth to FWDRSPSYNC, each the right one.
Answered(d, step, data) ==
    LET right == d.right /\ data = WatchdogResponses[d.quest][d.count]
        fresh(q) == [d EXCEPT !.count = 1, !.right = TRUE, !.quest = q]
    IN  IF (step = "resp0") # (d.count = 4) \/ (step = "resp0" /\ ~right)
        THEN {[fresh(q) EXCEPT !.functionalErrors = Fail(@)] : q \in Quests}
        ELSE IF step = "resp0"
        THEN {[fresh(q) EXCEPT !.beat = 0, !.functionalErrors = Succeed(@)] : q \in Quests}
        ELSE {[d EXCEPT !.count = @ + 1, !.right = right]}

\* The states the device may be in after a frame.  NORMAL must be requested
\* by DEVCTRL and, in the very next frame, DEVCTRLN.
Process(f) ==
    LET d == [dev EXCEPT !.armed = f.op = "write" /\ f.step = "devctrl"]
    IN  {Judge(x) : x \in
          CASE f.op # "write" -> {d}
            [] f.step = "window_write" -> Triggered(d, f.data)
            [] f.step \in DOMAIN ResponseIndex -> Answered(d, f.step, f.data)
            [] f.step \in {"unlock", "config", "lock"} -> {[d EXCEPT !.written = @ + 1]}
            [] f.step = "devctrln" /\ dev.armed -> {[d EXCEPT !.state = "normal"]}
            [] OTHER -> {d}}

\* What the device sends back for a frame.
Echo(f) ==
    CASE f.op = "write" -> {f}
      [] f.step = "window_read" -> {[f EXCEPT !.data = 128 * dev.trigger]}
      [] f.step = "quest_read" -> {[f EXCEPT !.data = dev.quest]}
      [] f.step = "devstat" -> {[f EXCEPT !.data = IF Normal THEN 2 ELSE 1]}
      [] OTHER -> {[f EXCEPT !.data = v] : v \in StatusValues}
-----------------------------------------------------------------------------
(* TransferData: wait for room, write TXBUF, wait for the flag, read RXBUF. *)
Busy(c) == todo[c] # <<>>
Runs(c) == Busy(c) /\ (c = "main" => ~Busy("isr") /\ masked = 0)

Load(c) ==
    /\ Runs(c) /\ pc[c] = "load" /\ txbuf = None
    /\ IF shift = None THEN shift' = Request(Head(todo[c])) /\ UNCHANGED txbuf
       ELSE txbuf' = Request(Head(todo[c])) /\ UNCHANGED shift
    /\ pc' = [pc EXCEPT ![c] = "await"]
    /\ UNCHANGED <<todo, windowStatus, lastQuest, rxbuf, intFlag, dev, clock, history>>

SeeNoFlag(c) ==                                                 \* mutant
    /\ Runs(c) /\ pc[c] = "await"
    /\ pc' = [pc EXCEPT ![c] = "take"]
    /\ UNCHANGED <<todo, windowStatus, lastQuest, spi, dev, clock, history>>
SeeFlag(c) ==
    /\ Runs(c) /\ pc[c] = "await" /\ intFlag
    /\ pc' = [pc EXCEPT ![c] = "take"]
    /\ UNCHANGED <<todo, windowStatus, lastQuest, spi, dev, clock, history>>

CompleteUnmasked(c, answer) ==                                  \* mutant
    LET step == Head(todo[c])
        ok   == Accepted(Request(step), answer)
    IN  /\ todo' = [todo EXCEPT ![c] = IF ok THEN Tail(@) ELSE <<>>]
        /\ pc' = [pc EXCEPT ![c] = "load"]
        /\ windowStatus' = IF step = "window_read" /\ ok THEN answer.data ELSE 0
        /\ lastQuest' = IF ~ok THEN lastQuest
                        ELSE CASE step = "quest_read" -> answer.data
                               [] step = "resp0" -> Illegal
                               [] OTHER -> lastQuest
CompleteUnchecked(c, answer) ==                                 \* mutant
    LET step == Head(todo[c])
    IN  /\ todo' = [todo EXCEPT ![c] = Tail(@)]
        /\ pc' = [pc EXCEPT ![c] = "load"]
        /\ windowStatus' = IF step = "window_read" THEN answer.data ELSE 0
        /\ lastQuest' = CASE step = "quest_read" -> answer.data % 16
                          [] step = "resp0" -> Illegal
                          [] OTHER -> lastQuest
\* The caller of TransferData goes on with the answer, or returns.
Complete(c, answer) ==
    LET step == Head(todo[c])
        ok   == Accepted(Request(step), answer)
    IN  /\ todo' = [todo EXCEPT ![c] = IF ok THEN Tail(@) ELSE <<>>]
        /\ pc' = [pc EXCEPT ![c] = "load"]
        /\ windowStatus' = IF step = "window_read" /\ ok THEN answer.data ELSE 0
        /\ lastQuest' = IF ~ok THEN lastQuest
                        ELSE CASE step = "quest_read" -> answer.data % 16
                               [] step = "resp0" -> Illegal
                               [] OTHER -> lastQuest

Take(c) ==
    /\ Runs(c) /\ pc[c] = "take"
    /\ intFlag' = FALSE
    /\ Complete(c, rxbuf)
    /\ UNCHANGED <<shift, txbuf, rxbuf, dev, clock, history>>

TimeOutNever(c) == FALSE /\ UNCHANGED vars /\ Complete(c, AllOnes)  \* mutant
\* The flag stays clear: reset the module.  (With nothing left to shift it
\* never will be set; the wait for room in TXBUF always ends.)
TimeOut(c) ==
    /\ Runs(c) /\ pc[c] = "await" /\ ~intFlag /\ shift = None /\ txbuf = None
    /\ shift' = None /\ txbuf' = None /\ intFlag' = FALSE
    /\ Complete(c, AllOnes)
    /\ UNCHANGED <<rxbuf, dev, clock, history>>

TransferData(c) == Load(c) \/ SeeFlag(c) \/ Take(c) \/ TimeOut(c)
-----------------------------------------------------------------------------
(* The SPI module shifts a frame; the bus may garble or lose it. *)
Shifted(answer) ==
    /\ shift # None
    /\ rxbuf' = answer /\ intFlag' = TRUE
    /\ shift' = txbuf /\ txbuf' = None

Shift ==
    /\ shift # None
    /\ dev' \in Process(shift)
    /\ \E answer \in Echo(shift) : Shifted(answer)
    /\ UNCHANGED <<driver, clock, history>>

Disturb ==
    /\ shift # None
    /\ faults + overlaps < MaxDisturbed
    /\ faults' = faults + 1
    /\ \/ Shifted([shift EXCEPT !.op = "garbled"])
          /\ (dev' = dev \/ dev' \in Process(shift))
       \/ shift' = txbuf /\ txbuf' = None /\ UNCHANGED <<rxbuf, intFlag, dev>>
    /\ UNCHANGED <<driver, clock, overlaps, saves, torn>>
-----------------------------------------------------------------------------
(* The timer interrupt, the log dump, SAVE, and time. *)
Strobe ==
    /\ timer /\ masked = 0 /\ ~Busy("isr")
    /\ LET overlap == Busy("main") /\ pc["main"] # "load"
           tears == Busy("main") /\ pc["main"] = "take"
       IN  /\ overlap => faults + overlaps < MaxDisturbed
           /\ tears => MayTear
           /\ overlaps' = IF overlap THEN overlaps + 1 ELSE overlaps
           /\ torn' = (torn \/ tears)
    /\ timer' = FALSE
    /\ todo' = [todo EXCEPT !["isr"] =
                   IF lastQuest = Illegal THEN StrobeReadSteps ELSE StrobeAnswerSteps]
    /\ UNCHANGED <<pc, windowStatus, lastQuest, spi, dev, phase, masked, dumped, faults, saves>>

Idle == ~Busy("main") /\ ~Busy("isr") /\ masked = 0

ReadStatusRegisters ==
    /\ Idle /\ Normal /\ ~dumped
    /\ dumped' = TRUE
    /\ todo' = [todo EXCEPT !["main"] = StatusSteps]
    /\ UNCHANGED <<pc, windowStatus, lastQuest, spi, dev, phase, timer, masked, history>>

Save ==
    /\ Idle /\ Normal /\ saves < MaxSaves /\ SaveUnits > 0
    /\ masked' = SaveUnits
    /\ saves' = saves + 1
    /\ UNCHANGED <<driver, spi, dev, phase, timer, dumped, faults, overlaps, torn>>

\* 50 ms go by; every step above takes less than one.
Tick ==
    /\ ~Busy("main") /\ ~Busy("isr") /\ shift = None /\ Normal
    /\ masked = 0 => ~timer
    /\ phase' = 1 - phase
    /\ timer' = (timer \/ phase = 1)
    /\ masked' = IF masked = 0 THEN 0 ELSE masked - 1
    /\ dumped' = FALSE
    /\ LET expired == dev.age = 2
           silent  == dev.beat = 4
       IN  dev' = Judge([dev EXCEPT
              !.age = IF expired THEN 0 ELSE @ + 1,
              !.windowErrors = IF expired THEN Fail(@) ELSE @,
              !.beat = IF silent THEN 0 ELSE @ + 1,
              !.functionalErrors = IF silent THEN Fail(@) ELSE @])
    /\ UNCHANGED <<driver, spi, history>>
-----------------------------------------------------------------------------
Init ==
    /\ todo = [c \in Context |-> IF c = "main" THEN SetupSteps ELSE <<>>]
    /\ pc = [c \in Context |-> "load"]
    /\ windowStatus = 0 /\ lastQuest = Illegal
    /\ shift = None /\ txbuf = None /\ rxbuf = AllOnes /\ intFlag = FALSE
    /\ dev \in [state : {"init"}, written : {0}, armed : {FALSE},
                trigger : {0, 1}, age : {0}, windowErrors : {0},
                quest : Quests, count : {1}, right : {TRUE}, beat : {0}, functionalErrors : {0}]
    /\ phase = 0 /\ timer = FALSE /\ masked = 0 /\ dumped = FALSE
    /\ faults = 0 /\ overlaps = 0 /\ saves = 0 /\ torn = FALSE

Next ==
    \/ \E c \in Context : TransferData(c)
    \/ Shift \/ Disturb
    \/ Strobe \/ ReadStatusRegisters \/ Save \/ Tick

Fairness ==
    /\ \A c \in Context : WF_vars(TransferData(c))
    /\ WF_vars(Shift) /\ WF_vars(Strobe) /\ WF_vars(Tick)

Spec == Init /\ [][Next]_vars /\ Fairness
-----------------------------------------------------------------------------
Steps ==
    {"unlock", "config", "lock", "clear", "devctrl", "devctrln", "window_write"}
    \cup ReadSteps \cup DOMAIN ResponseIndex
Frames == [op : {"read", "write", "garbled", "timeout"}, step : Steps \cup {"none"}, data : 0..255]

ASSUME NoneAssumption == None \notin Frames

TypeOK ==
    /\ todo \in [Context -> Seq(Steps)]
    /\ pc \in [Context -> {"load", "await", "take"}]
    /\ shift \in Frames \cup {None} /\ txbuf \in Frames \cup {None} /\ rxbuf \in Frames
    /\ intFlag \in BOOLEAN
    /\ windowStatus \in 0..255 /\ lastQuest \in 0..Illegal
    /\ dev \in [state : {"init", "normal", "failed"}, written : Nat, armed : BOOLEAN,
                trigger : {0, 1}, age : 0..2, windowErrors : Nat, quest : Quests,
                count : 1..4, right : BOOLEAN, beat : 0..4, functionalErrors : Nat]
    /\ phase \in {0, 1} /\ timer \in BOOLEAN /\ masked \in 0..SaveUnits /\ dumped \in BOOLEAN
    /\ faults \in Nat /\ overlaps \in Nat /\ saves \in 0..MaxSaves /\ torn \in BOOLEAN

(* Whatever goes wrong on the bus and wherever the timer interrupt falls,  *)
(* a transfer leaves nothing behind in the SPI module for the next one to  *)
(* take for its own, unless the interrupt came between a flag test and its *)
(* read (pmicspidriver.cpp:150-161).                                       *)
NothingLeftBehind ==
    ~torn /\ ~Busy("isr") /\ pc["main"] = "load"
        => ~intFlag /\ shift = None /\ txbuf = None

(* One garbled or lost frame, or one strobe that meets a status read, and  *)
(* interrupts turned off for as long as SaveUnits never cost so many       *)
(* watchdog errors that the device gives up (RegisterConfig and Strobe).   *)
StaysNormal == ~torn => dev.state # "failed"

(* Set-up asks for the NORMAL state only when every protected register was *)
(* written: the first failed access ends it (pmicdriver.h:309-370).        *)
NormalMeansConfigured == dev.state # "init" => dev.written = 14

(* No strobe hangs, and when the disturbances are over the watchdogs are   *)
(* served so well that both error counters return to zero and stay there.  *)
Recovers ==
    /\ []<>~Busy("isr")
    /\ <>[](Normal /\ ~torn => dev.windowErrors = 0 /\ dev.functionalErrors = 0)

(* "A working TLF35584 will echo back any write commands"                  *)
(* (pmicdriver.h:409): while no frame is garbled or lost, a write finds    *)
(* its echo.                                                               *)
WorkingDeviceEchoes ==
    \A c \in Context :
        faults = 0 /\ Runs(c) /\ pc[c] = "take" /\ Head(todo[c]) \notin ReadSteps
            => rxbuf = Request(Head(todo[c]))
=============================================================================
