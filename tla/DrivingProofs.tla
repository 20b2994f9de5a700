---------------------------- MODULE DrivingProofs -----------------------------
(***************************************************************************)
(* What drives the motor: the resolver, the operating mode and the pedals, *)
(* proved for every angle, every timing of the interrupts and every        *)
(* reading of the pedals; and all parts of the boards together.            *)
(***************************************************************************)
EXTENDS MCBoard, BoardProofs

-------------------------------------------------------------------------------
(* The resolver: what the angle and the turns tell of the rotor.           *)

(* The constants, one by one.                                              *)
LEMMA Numbers ==
    /\ Half \in Int /\ Half > 0 /\ Turn \in Int /\ Turn = 2 * Half
    /\ Fastest \in Nat /\ Fastest < Half
    /\ Window \in Nat /\ Window > 0 /\ StartupDelay \in Nat /\ TooFast \in Nat /\ TooFast > 0
    /\ Stable \in Nat
<1>1. Window \in Nat \ {0} /\ StartupDelay \in Nat \ {0} /\ TooFast \in Nat \ {0} /\ Stable \in Nat
  BY EncoderAssumption
<1>2. Turn \in Nat /\ Turn = 2 * Half /\ Half > 0 /\ Fastest \in Nat /\ Fastest < Half
  BY EncoderAssumption
<1>3. Half \in Int
  BY <1>2 DEF Half
<1> QED
  BY <1>1, <1>2, <1>3

(* Which multiples of a number are near zero.                              *)
LEMMA Remainder ==
    ASSUME NEW n \in Int, NEW T \in Int, T > 0, -2 * T < n, n < 2 * T
    PROVE  (n % T = 0) <=> n \in {-T, 0, T}
  OBVIOUS


(* The angle after a step is the one angle that differs from the sum by a  *)
(* whole turn.                                                             *)
LEMMA WrappedStep ==
    ASSUME NEW a \in Angles, NEW step \in -Fastest..Fastest
    PROVE  LET b == Wrapped(a + step)
           IN  /\ b \in Angles
               /\ b - a \in {step, step - Turn, step + Turn}
<1> DEFINE x == IF a + step > Half THEN a + step - Turn
                ELSE IF a + step < 1 - Half THEN a + step + Turn ELSE a + step
           R(b) == b \in Angles /\ (b - (a + step)) % Turn = 0
<1>1. a \in Int /\ step \in Int /\ a <= Half /\ a >= 1 - Half /\ step <= Fastest /\ step >= -Fastest
  BY Numbers DEF Angles
<1>2. x \in Angles /\ x \in Int /\ x - (a + step) \in {-Turn, 0, Turn}
  BY <1>1, Numbers DEF Angles
<1>3. \A b \in Angles : R(b) <=> b - (a + step) \in {-Turn, 0, Turn}
  <2> TAKE b \in Angles
  <2>1. b \in Int /\ b <= Half /\ b >= 1 - Half
    BY Numbers DEF Angles
  <2> DEFINE n == b - (a + step)
  <2>2. n \in Int /\ -2 * Turn < n /\ n < 2 * Turn
    BY <1>1, <2>1, Numbers
  <2> HIDE DEF n
  <2>3. (n % Turn = 0) <=> n \in {-Turn, 0, Turn}
    BY <2>2, Numbers, Remainder
  <2> QED
    BY <2>3 DEF n
<1>4. ASSUME NEW b \in Angles, R(b) PROVE b = x
  <2>1. b \in Int /\ b <= Half /\ b >= 1 - Half
    BY Numbers DEF Angles
  <2>2. b - (a + step) \in {-Turn, 0, Turn}
    BY <1>3, <1>4
  <2> QED
    BY <1>1, <2>1, <2>2, Numbers
<1>5. Wrapped(a + step) = x
  <2>1. Wrapped(a + step) = CHOOSE b \in Angles: (b - (a + step)) % Turn = 0
    BY DEF Wrapped
  <2>2. R(x)
    BY <1>2, <1>3
  <2> HIDE DEF x
  <2> QED
    BY <1>2, <1>4, <2>1, <2>2
<1> QED
  BY <1>1, <1>2, <1>5, Numbers

(* SignedDiff is the step, for a decoder that was right in the cycle before. *)
LEMMA DiffIsStep ==
    ASSUME angle \in Angles, NEW now \in Angles, NEW step \in -Fastest..Fastest,
           now - angle \in {step, step - Turn, step + Turn}
    PROVE  SignedDiff(now) = step
<1>1. angle \in Int /\ now \in Int /\ step \in Int /\ step <= Fastest /\ step >= -Fastest
  BY Numbers DEF Angles
<1> QED
  BY <1>1, Numbers DEF SignedDiff, Abs, Sign, Angles

(* No step seen is longer than half a turn.                                *)
LEMMA DiffBounded ==
    ASSUME angle \in Angles, NEW now \in Angles
    PROVE  SignedDiff(now) \in Int /\ Abs(SignedDiff(now)) <= Half
<1>1. /\ angle \in Int /\ angle <= Half /\ angle >= 1 - Half
      /\ now \in Int /\ now <= Half /\ now >= 1 - Half
  BY Numbers DEF Angles
<1> QED
  BY <1>1, Numbers DEF SignedDiff, Abs, Sign

(* The angle is the rotor's after a cycle with a signal.                   *)
AngleTrue == ~disturbed => angle = rotor /\ turns = moved

(* In each cycle the sums grow by no more than a cycle allows.             *)
SumsBounded ==
    /\ turns \in Int /\ moved \in Int
    /\ Abs(turns) <= cycles * Half /\ Abs(moved) <= cycles * Fastest

(* Where the start-up delay stands, and what has been heard meanwhile.     *)
DelayCounts ==
    /\ heard = latched
    /\ delay = IF awake <= StartupDelay THEN StartupDelay - awake ELSE 0

Ranges ==
    /\ rotor \in Angles /\ angle \in Angles
    /\ latched \in BOOLEAN /\ loresamp \in BOOLEAN /\ heard \in BOOLEAN /\ disturbed \in BOOLEAN
    /\ delay \in 0..StartupDelay /\ cycles \in 0..(Window - 1)
    /\ frequency \in 0..(TooFast - 1) /\ direction \in {-1, 0, 1}
    /\ awake \in 0..(StartupDelay + 1)

Shown == Ranges /\ SumsBounded /\ AngleTrue /\ SpeedShown /\ DelayCounts /\ LowSignalReported

(* At first nothing has moved.                                             *)
LEMMA EncoderInitShown == EncoderInit => Shown
<1> SUFFICES ASSUME EncoderInit PROVE Shown
  OBVIOUS
<1>1. 0 \in Angles
  BY Numbers DEF Angles
<1>2. Ranges
  <2>1. 0 \in 0..(Window - 1) /\ 0 \in 0..(TooFast - 1) /\ 0 \in 0..(StartupDelay + 1)
        /\ StartupDelay \in 0..StartupDelay
    BY Numbers
  <2> QED
    BY <1>1, <2>1 DEF EncoderInit, Ranges
<1>3. SumsBounded
  <2>1. turns = 0 /\ moved = 0 /\ cycles = 0
    BY DEF EncoderInit
  <2>2. 0 * Half = 0 /\ 0 * Fastest = 0 /\ Abs(0) = 0
    BY Numbers DEF Abs
  <2> QED
    BY <2>1, <2>2 DEF SumsBounded
<1>4. AngleTrue /\ SpeedShown
  BY DEF EncoderInit, AngleTrue, SpeedShown
<1>5. DelayCounts /\ LowSignalReported
  <2>1. awake = 0 /\ delay = StartupDelay /\ heard = FALSE /\ latched = FALSE /\ loresamp = FALSE
    BY DEF EncoderInit
  <2>2. awake <= StartupDelay /\ delay = StartupDelay - awake
    BY <2>1, Numbers
  <2>3. ~(awake > StartupDelay)
    BY <2>1, Numbers
  <2>4. DelayCounts
    BY <2>1, <2>2, Zenon DEF DelayCounts
  <2>5. LowSignalReported
    BY <2>1, <2>3, Zenon DEF LowSignalReported
  <2> QED
    BY <2>4, <2>5
<1> QED
  BY <1>2, <1>3, <1>4, <1>5 DEF Shown

(* One cycle more.                                                         *)
LEMMA Times ==
    ASSUME NEW c \in Nat, NEW h \in Nat, NEW w \in Nat, c <= w
    PROVE  c * h \in Nat /\ (c + 1) * h = c * h + h /\ c * h <= w * h
  OBVIOUS

(* A sum of steps, each of at most h.                                      *)
LEMMA Stepped ==
    ASSUME NEW c \in Nat, NEW h \in Nat, NEW n \in Int, NEW d \in Int,
           Abs(n) <= c * h, Abs(d) <= h
    PROVE  n + d \in Int /\ Abs(n + d) <= (c + 1) * h
<1>1. c * h \in Nat /\ (c + 1) * h = c * h + h
  BY Times
<1> DEFINE p == c * h
<1>2. p \in Nat /\ Abs(n) <= p
  BY <1>1
<1> HIDE DEF p
<1>3. Abs(n + d) <= p + h
  BY <1>2 DEF Abs
<1> QED
  BY <1>1, <1>3 DEF p

(* One cycle of the PWM interrupt.                                         *)
LEMMA CycleShown ==
    ASSUME Shown, NEW step \in -Fastest..Fastest, NEW good \in BOOLEAN, Cycle(step, good)
    PROVE  Shown'
<1> DEFINE here == Wrapped(rotor + step)
           bad == disturbed \/ ~good
           sum == turns + SignedDiff(angle')
           went == moved + step
<1>1. /\ rotor' = here
      /\ latched' = (latched \/ good)
      /\ loresamp' = (loresamp \/ PostLoresamp(good))
      /\ angle' \in DecodeAngle(here, good)
      /\ delay' = IF delay > 0 THEN delay - 1 ELSE 0
      /\ heard' = (heard \/ good)
      /\ awake' = IF awake <= StartupDelay THEN awake + 1 ELSE awake
      /\ IF cycles + 1 >= Window THEN EndOfWindow(sum, went, bad, good)
         ELSE /\ turns' = sum
              /\ cycles' = cycles + 1
              /\ moved' = went /\ disturbed' = bad
              /\ UNCHANGED <<frequency, direction, due>>
  BY DEF Cycle
<1>2. here \in Angles /\ here - rotor \in {step, step - Turn, step + Turn}
  BY WrappedStep DEF Shown, Ranges
<1>3. angle' \in Angles /\ (good => angle' = here)
  BY <1>1, <1>2 DEF DecodeAngle, Shown, Ranges
<1>4. SignedDiff(angle') \in Int /\ Abs(SignedDiff(angle')) <= Half
  BY <1>3, DiffBounded DEF Shown, Ranges
<1>5. ~bad => SignedDiff(angle') = step
  <2>1. ~bad => angle' - angle \in {step, step - Turn, step + Turn}
    BY <1>2, <1>3 DEF Shown, AngleTrue
  <2> QED
    BY <1>3, <2>1, DiffIsStep DEF Shown, Ranges
<1>6. /\ sum \in Int /\ Abs(sum) <= (cycles + 1) * Half
      /\ went \in Int /\ Abs(went) <= (cycles + 1) * Fastest
  <2>1. cycles \in Nat /\ Half \in Nat /\ Fastest \in Nat /\ step \in Int /\ Abs(step) <= Fastest
    BY Numbers DEF Shown, Ranges, Abs
  <2>2. turns \in Int /\ moved \in Int /\ Abs(turns) <= cycles * Half /\ Abs(moved) <= cycles * Fastest
    BY DEF Shown, SumsBounded
  <2> QED
    BY <1>4, <2>1, <2>2, Stepped
<1>7. ~bad => sum = went
  BY <1>5 DEF Shown, AngleTrue
<1>8. bad \in BOOLEAN /\ disturbed \in BOOLEAN
  BY DEF Shown, Ranges
<1> HIDE DEF here, bad, sum, went
<1>9. delay' \in 0..StartupDelay /\ awake' \in 0..(StartupDelay + 1) /\ DelayCounts'
  <2>1. /\ awake \in 0..(StartupDelay + 1) /\ heard = latched
        /\ delay = IF awake <= StartupDelay THEN StartupDelay - awake ELSE 0
    BY DEF Shown, Ranges, DelayCounts
  <2>2. delay' = IF delay > 0 THEN delay - 1 ELSE 0
    BY <1>1
  <2>3. awake' = IF awake <= StartupDelay THEN awake + 1 ELSE awake
    BY <1>1
  <2>4. heard' = latched'
    BY <1>1, <2>1
  <2>5. awake' \in 0..(StartupDelay + 1) /\ delay' \in 0..StartupDelay
        /\ delay' = IF awake' <= StartupDelay THEN StartupDelay - awake' ELSE 0
    BY <2>1, <2>2, <2>3, Numbers
  <2> QED
    BY <2>4, <2>5, Numbers DEF DelayCounts
<1>10. LowSignalReported'
  <2>1. /\ awake \in 0..(StartupDelay + 1) /\ heard = latched
        /\ delay = 0 <=> awake >= StartupDelay
    BY Numbers DEF Shown, Ranges, DelayCounts
  <2>2. /\ ~heard /\ awake > StartupDelay => loresamp
        /\ loresamp => awake > StartupDelay
    BY DEF Shown, LowSignalReported
  <2>3. awake' = IF awake <= StartupDelay THEN awake + 1 ELSE awake
    BY <1>1
  <2>4. /\ loresamp' <=> loresamp \/ (~latched /\ ~good /\ delay = 0)
        /\ heard' <=> heard \/ good
        /\ heard <=> latched
    BY <1>1 DEF PostLoresamp, Shown, Ranges, DelayCounts
  <2>5. CASE awake < StartupDelay
    BY <2>1, <2>2, <2>3, <2>4, <2>5, Numbers DEF LowSignalReported
  <2>6. CASE awake >= StartupDelay
    <3>1. delay = 0 /\ awake' > StartupDelay
      BY <2>1, <2>3, <2>6, Numbers
    <3>2. ASSUME ~heard' PROVE loresamp'
      BY <2>4, <3>1, <3>2
    <3> QED
      BY <3>1, <3>2 DEF LowSignalReported
  <2> QED
    BY <2>1, <2>5, <2>6, Numbers
<1>11. /\ rotor' \in Angles /\ latched' \in BOOLEAN /\ loresamp' \in BOOLEAN /\ heard' \in BOOLEAN
  BY <1>1, <1>2 DEF Shown, Ranges, PostLoresamp
<1>12. CASE cycles + 1 >= Window
  <2>1. EndOfWindow(sum, went, bad, good)
    BY <1>1, <1>12
  <2>2. turns' = 0 /\ cycles' = 0 /\ moved' = 0 /\ disturbed' = ~good
    BY <2>1 DEF EndOfWindow
  <2>3. frequency' \in 0..(TooFast - 1) /\ direction' \in {-1, 0, 1}
    BY <1>6, <2>1, Numbers DEF EndOfWindow, Frequency, Direction, Shown, Ranges, Abs, Sign
  <2>4. Ranges'
    BY <1>3, <1>9, <1>11, <2>2, <2>3, Numbers DEF Ranges
  <2>5. SumsBounded'
    BY <2>2, Numbers DEF SumsBounded, Abs
  <2>6. AngleTrue'
    BY <1>1, <1>3, <2>2 DEF AngleTrue
  <2>7. SpeedShown'
    <3>1. CASE bad \/ delay' > 0
      BY <2>1, <3>1 DEF EndOfWindow, SpeedShown
    <3>2. CASE ~(bad \/ delay' > 0)
      <4>1. sum = went /\ delay' = 0
        BY <1>7, <1>9, <3>2, Numbers
      <4>2. Abs(went) \in Int
        BY <1>6 DEF Abs
      <4> QED
        BY <2>1, <3>2, <4>1, <4>2, Numbers DEF EndOfWindow, SpeedShown, Frequency, Direction
    <3> QED
      BY <3>1, <3>2
  <2> QED
    BY <1>9, <1>10, <2>4, <2>5, <2>6, <2>7 DEF Shown
<1>13. CASE ~(cycles + 1 >= Window)
  <2>1. /\ turns' = sum /\ cycles' = cycles + 1 /\ moved' = went /\ disturbed' = bad
        /\ UNCHANGED <<frequency, direction, due>>
    BY <1>1, <1>13
  <2>2. cycles' \in 0..(Window - 1)
    BY <1>13, <2>1, Numbers DEF Shown, Ranges
  <2>3. Ranges'
    BY <1>3, <1>8, <1>9, <1>11, <2>1, <2>2 DEF Shown, Ranges
  <2>4. SumsBounded'
    BY <1>6, <2>1 DEF SumsBounded, Abs
  <2>5. AngleTrue'
    BY <1>1, <1>3, <1>7, <2>1 DEF AngleTrue, bad
  <2>6. SpeedShown'
    BY <2>1 DEF Shown, SpeedShown
  <2> QED
    BY <1>9, <1>10, <2>3, <2>4, <2>5, <2>6 DEF Shown
<1> QED
  BY <1>12, <1>13

(* Every step keeps the invariant.                                         *)
LEMMA EncoderNextShown == Shown /\ [EncoderNext]_encoderVars => Shown'
<1> SUFFICES ASSUME Shown, [EncoderNext]_encoderVars PROVE Shown'
  OBVIOUS
<1>1. ASSUME NEW step \in -Fastest..Fastest, NEW good \in BOOLEAN, Cycle(step, good) PROVE Shown'
  BY <1>1, CycleShown
<1>2. ASSUME NEW to \in Angles, Blind(to) PROVE Shown'
  BY <1>2 DEF Blind, Shown, Ranges, SumsBounded, AngleTrue, SpeedShown, DelayCounts, LowSignalReported, Abs
<1>3. CASE UNCHANGED encoderVars
  BY <1>3 DEF encoderVars, Shown, Ranges, SumsBounded, AngleTrue, SpeedShown, DelayCounts,
              LowSignalReported, Abs
<1> QED
  BY <1>1, <1>2, <1>3 DEF EncoderNext

(* The invariant is strong enough.                                         *)
LEMMA ShownTypes == Shown => EncoderTypeOK /\ ResolverTruthful
<1> SUFFICES ASSUME Shown PROVE EncoderTypeOK /\ ResolverTruthful
  OBVIOUS
<1>1. cycles \in Nat /\ cycles <= Window /\ Window \in Nat /\ Half \in Nat /\ Fastest \in Nat
  BY Numbers DEF Shown, Ranges
<1>2. cycles * Half \in Nat /\ cycles * Half <= Window * Half
  BY <1>1, Times
<1>3. cycles * Fastest \in Nat /\ cycles * Fastest <= Window * Fastest
  BY <1>1, Times
<1>4. Window * Half \in Nat /\ Window * Fastest \in Nat
  BY <1>1
<1>5. Abs(turns) \in Int /\ Abs(moved) \in Int
  BY DEF Shown, SumsBounded, Abs
<1>6. Abs(turns) <= Window * Half /\ Abs(moved) <= Window * Fastest
  BY <1>2, <1>3, <1>4, <1>5 DEF Shown, SumsBounded
<1>7. EncoderTypeOK
  BY <1>6 DEF EncoderTypeOK, Shown, Ranges
<1> QED
  BY <1>7 DEF Shown, ResolverTruthful, TurnsTracked, AngleTrue

(* For every resolution of the angle, every speed below half a turn per    *)
(* cycle and every window: the rotor shown is the real one.                *)
THEOREM ResolverIsTruthful == EncoderSpec => []ResolverTruthful
<1>1. EncoderSpec => []Shown
  BY EncoderInitShown, EncoderNextShown, PTL DEF EncoderSpec
<1> QED
  BY <1>1, ShownTypes, PTL

(* The angle stays within one turn, and what is counted in a window and at *)
(* start-up within what a rotor below the fastest speed can do.            *)
THEOREM EncoderTyped == EncoderSpec => []EncoderTypeOK
<1>1. EncoderSpec => []Shown
  BY EncoderInitShown, EncoderNextShown, PTL DEF EncoderSpec
<1> QED
  BY <1>1, ShownTypes, PTL
-------------------------------------------------------------------------------
(* The operating mode: when the outputs are on and the contactors closed.  *)

(* The outputs are those of the stored mode, unless the terminal is between *)
(* storing a mode and acting on it, or the task came there.                *)
OutputsMatch ==
  ~torn => IF terminal = "outputs" THEN pwmMode = request
           ELSE channels <=> pwmMode # "off"

(* Nobody but a terminal whose start has not been undone is between its    *)
(* steps.                                                                  *)
TerminalByHand == terminal # "idle" => byHand

(* In a round opmode is the task's copy, or has gone off since.            *)
CopyFollows == task # "idle" /\ opmode # "off" => localMode = opmode

OffSeen == offRound => opmode = "off" /\ (task # "idle" => localMode = "off")

(* Accept closes the contactor before the mode changes, and nothing opens  *)
(* it while the mode is other than off.                                    *)
Connected ==
  /\ opmode # "off" /\ ~byHand => dcsw
  /\ initWait = -1 => ~prec

(* The wait is over exactly as long as the stored mode is other than off.  *)
WaitFollows == ~byHand => (initWait = -1 <=> pwmMode # "off")

(* Since the task turned off, nothing has started and the wait is whole.   *)
HeededWaits ==
  heeded /\ ~byHand =>
    /\ initWait = Wait /\ opmode = "off"
    /\ task # "idle" => localMode = "off"

(* RunsGuarded in the middle of a round, too.                              *)
Guarded ==
  opmode # "off" /\ initWait = -1 /\ ~overruled /\ ~byHand /\ ~torn =>
    armed /\ pwmMode = opmode

(* What is left of the wait and how long the contactor has been closed     *)
(* make up the wait.                                                       *)
Waited ==
  opmode # "off" /\ initWait >= 0 /\ ~overruled /\ ~byHand =>
    IF task = "idle" THEN closedFor + initWait + 1 >= Wait ELSE closedFor + initWait >= Wait

(* An over-voltage at standstill opens the contactor for the round.        *)
OverOpen ==
  task \in {"decide", "accept", "bms", "act"} /\ seen.udc = "over" =>
    /\ task # "decide" => newMode = "off"
    /\ seen.standing => ~dcsw

Whole ==
  /\ ModeTypeOK /\ OutputsMatch /\ TerminalByHand /\ CopyFollows /\ OffSeen /\ Connected
  /\ WaitFollows /\ HeededWaits /\ Guarded /\ Waited /\ OverOpen /\ StopsInARound
USE DEF Whole

LEMMA InputsSeen ==
  /\ Unseen \in Inputs
  /\ \A s \in Inputs : s.udc = "over" => s.want = "refused"
  BY DEF Inputs, Unseen

LEMMA ModesDistinct == Wait \in Nat /\ Wait # 0 /\ "off" \in Modes
  BY ModeAssumption DEF Modes

LEMMA ModeInitInv == ModeInit => Whole
<1> SUFFICES ASSUME ModeInit PROVE Whole
  OBVIOUS
<1> USE ModesDistinct DEF ModeInit
<1>1. ModeTypeOK
  <2>1. starts \in 0 .. MaxStarts /\ initWait \in -1 .. Wait /\ closedFor \in 0 .. Wait + 1
    BY ModeAssumption
  <2> QED
    BY <2>1, InputsSeen, Zenon DEF ModeTypeOK
<1>2. OutputsMatch /\ TerminalByHand /\ CopyFollows /\ OffSeen /\ Connected
  BY DEF OutputsMatch, TerminalByHand, CopyFollows, OffSeen, Connected
<1>3. WaitFollows /\ HeededWaits /\ Guarded /\ Waited /\ OverOpen /\ StopsInARound
  BY DEF WaitFollows, HeededWaits, Guarded, Waited, OverOpen, StopsInARound
<1> QED
  BY <1>1, <1>2, <1>3

LEMMA BeginRoundInv == ASSUME Whole, BeginRound PROVE Whole'
<1> USE ModesDistinct DEF BeginRound, params, pwm, terminalVars
<1>1. ModeTypeOK'
  BY DEF ModeTypeOK
<1>2. OutputsMatch' /\ TerminalByHand' /\ CopyFollows' /\ OffSeen'
  BY DEF OutputsMatch, TerminalByHand, CopyFollows, OffSeen, ModeTypeOK
<1>3. Connected' /\ WaitFollows' /\ HeededWaits' /\ Guarded'
  BY DEF Connected, WaitFollows, HeededWaits, Guarded
<1>4. Waited'
  BY DEF Waited, Connected, ModeTypeOK
<1>5. OverOpen' /\ StopsInARound'
  BY DEF OverOpen, StopsInARound
<1> QED
  BY <1>1, <1>2, <1>3, <1>4, <1>5

LEMMA ProcessUdcInv == ASSUME Whole, ProcessUdc PROVE Whole'
<1> USE ModesDistinct DEF ProcessUdc, SetTo, pwm, locals, terminalVars
<1>1. ModeTypeOK'
  BY DEF ModeTypeOK
<1>2. OutputsMatch' /\ TerminalByHand' /\ CopyFollows' /\ OffSeen'
  BY DEF OutputsMatch, TerminalByHand, CopyFollows, OffSeen, ModeTypeOK
<1>3. Connected' /\ WaitFollows' /\ HeededWaits' /\ Guarded'
  BY DEF Connected, WaitFollows, HeededWaits, Guarded, ModeTypeOK
<1>4. Waited'
  BY DEF Waited, Connected, ModeTypeOK
<1>5. OverOpen' /\ StopsInARound'
  BY DEF OverOpen, StopsInARound, ModeTypeOK
<1> QED
  BY <1>1, <1>2, <1>3, <1>4, <1>5

LEMMA DecideInv == ASSUME Whole, Decide PROVE Whole'
<1> USE ModesDistinct DEF Decide, params, pwm, contactors, terminalVars, modeHistory
<1>1. ModeTypeOK'
  BY DEF ModeTypeOK, Wanted, Modes
<1>2. OutputsMatch' /\ TerminalByHand' /\ CopyFollows' /\ OffSeen'
  BY DEF OutputsMatch, TerminalByHand, CopyFollows, OffSeen
<1>3. Connected' /\ WaitFollows' /\ HeededWaits' /\ Guarded' /\ Waited'
  BY DEF Connected, WaitFollows, HeededWaits, Guarded, Waited
<1>4. OverOpen' /\ StopsInARound'
  BY InputsSeen DEF OverOpen, StopsInARound, Wanted, ModeTypeOK
<1> QED
  BY <1>1, <1>2, <1>3, <1>4

LEMMA AcceptInv == ASSUME Whole, Accept PROVE Whole'
<1> USE ModesDistinct DEF Accept, SetTo, pwm, terminalVars
<1>1. ModeTypeOK'
  BY DEF ModeTypeOK
<1>2. OutputsMatch' /\ TerminalByHand' /\ CopyFollows' /\ OffSeen'
  BY DEF OutputsMatch, TerminalByHand, CopyFollows, OffSeen, ModeTypeOK
<1>3. Connected' /\ WaitFollows' /\ HeededWaits'
  BY DEF Connected, WaitFollows, HeededWaits, ModeTypeOK
<1>4. Guarded' /\ Waited'
  <2>1. UNCHANGED <<armed, pwmMode, initWait, closedFor, byHand, torn>>
    OBVIOUS
  <2>2. CASE newMode = "off" \/ newMode = opmode
    <3>1. opmode' = opmode /\ (overruled => overruled')
      BY <2>2
    <3> QED
      BY <2>1, <3>1 DEF Guarded, Waited
  <2>3. CASE newMode # "off" /\ newMode # opmode /\ ~heeded
    <3>1. overruled'
      BY <2>3
    <3> QED
      BY <3>1 DEF Guarded, Waited
  <2>4. CASE heeded
    <3>1. ~byHand' => initWait' = Wait /\ closedFor' \in Nat
      BY <2>1, <2>4 DEF HeededWaits, ModeTypeOK
    <3> QED
      BY <3>1 DEF Guarded, Waited
  <2> QED
    BY <2>2, <2>3, <2>4
<1>5. OverOpen' /\ StopsInARound'
  BY DEF OverOpen, StopsInARound
<1> QED
  BY <1>1, <1>2, <1>3, <1>4, <1>5

LEMMA HeedBmsInv == ASSUME Whole, HeedBms PROVE Whole'
<1> USE ModesDistinct DEF HeedBms, SetTo, pwm, contactors, terminalVars
<1>1. ModeTypeOK'
  BY DEF ModeTypeOK
<1>2. OutputsMatch' /\ TerminalByHand' /\ CopyFollows' /\ OffSeen'
  BY DEF OutputsMatch, TerminalByHand, CopyFollows, OffSeen, ModeTypeOK
<1>3. Connected' /\ WaitFollows' /\ HeededWaits' /\ Guarded' /\ Waited'
  BY DEF Connected, WaitFollows, HeededWaits, Guarded, Waited
<1>4. OverOpen' /\ StopsInARound'
  BY DEF OverOpen, StopsInARound
<1> QED
  BY <1>1, <1>2, <1>3, <1>4
(* The end of a round.                                                     *)
LEMMA EndRoundType ==
  ASSUME Whole, EndRound
  PROVE  /\ {opmode', localMode', newMode', request'} \subseteq Modes /\ tripmode' \in TripModes
         /\ uptime' \in {"first", "early", "late"} /\ seen' \in Inputs /\ task' = "idle"
         /\ terminal' \in {"idle", "store", "outputs"} /\ starts' \in 0 .. MaxStarts
         /\ closedFor' \in 0 .. Wait + 1 /\ offRound' \in BOOLEAN /\ torn' \in BOOLEAN
<1> USE ModesDistinct DEF EndRound, params, terminalVars
<1>1. /\ {opmode', localMode', newMode', request'} \subseteq Modes /\ tripmode' \in TripModes
      /\ uptime' \in {"first", "early", "late"} /\ seen' \in Inputs /\ task' = "idle"
      /\ terminal' \in {"idle", "store", "outputs"} /\ starts' \in 0 .. MaxStarts
  BY InputsSeen DEF ModeTypeOK
<1>2. closedFor' \in 0 .. Wait + 1
  BY DEF ModeTypeOK
<1>3. offRound' \in BOOLEAN
  BY DEF ModeTypeOK
<1>4. torn' \in BOOLEAN
  BY DEF ModeTypeOK
<1> QED
  BY <1>1, <1>2, <1>3, <1>4

LEMMA TurnOffInv == ASSUME Whole, EndRound, TurnOff PROVE Whole'
<1> USE ModesDistinct DEF EndRound, TurnOff, SetContactorsOffState, params, terminalVars
<1>1. opmode = "off" /\ pwmMode' = "off"
  BY DEF CopyFollows, SetOpmode, StoreOpmode, pwm
<1>2. /\ {tripped', channels', armed'} \subseteq BOOLEAN
      /\ tripped' = tripped
      /\ pwmMode = "off" => channels' = channels
      /\ pwmMode # "off" => ~channels'
  BY DEF SetOpmode, StoreOpmode, pwm, ModeTypeOK
<1>3. {dcsw', prec', heeded', overruled', byHand'} \subseteq BOOLEAN /\ initWait' \in -1 .. Wait
  <2>1. initWait' \in -1 .. Wait
    OBVIOUS
  <2>2. dcsw' \in BOOLEAN /\ prec' \in BOOLEAN
    BY Zenon DEF ModeTypeOK
  <2>3. heeded' \in BOOLEAN /\ overruled' \in BOOLEAN /\ byHand' \in BOOLEAN
    BY Zenon DEF ModeTypeOK
  <2> QED
    BY <2>1, <2>2, <2>3
<1>4. ModeTypeOK'
  <2>1. pwmMode' \in Modes
    BY <1>1
  <2> QED
    BY <1>2, <1>3, <2>1, EndRoundType, Zenon DEF ModeTypeOK
<1>5. OutputsMatch'
  <2>1. /\ terminal' = terminal /\ request' = request
        /\ ~torn' => ~torn /\ (terminal = "outputs" => pwmMode' = pwmMode)
    OBVIOUS
  <2> QED
    BY <1>1, <1>2, <2>1 DEF OutputsMatch
<1>6. TerminalByHand' /\ CopyFollows' /\ OffSeen'
  BY <1>1 DEF TerminalByHand, CopyFollows, OffSeen
<1>7. Connected' /\ WaitFollows' /\ HeededWaits' /\ Guarded' /\ Waited' /\ OverOpen'
  BY <1>1 DEF Connected, WaitFollows, HeededWaits, Guarded, Waited, OverOpen
<1>8. StopsInARound'
  BY <1>1, <1>2, <1>5 DEF StopsInARound, OutputsMatch
<1> QED
  BY <1>4, <1>5, <1>6, <1>7, <1>8

LEMMA TurnOnInv == ASSUME Whole, EndRound, TurnOn PROVE Whole'
<1> USE ModesDistinct DEF EndRound, TurnOn, params, terminalVars
<1>1. /\ localMode \in Modes /\ localMode # "off" /\ pwmMode' = localMode
      /\ ~byHand => armed' /\ channels'
      /\ {tripped', channels', armed'} \subseteq BOOLEAN
      /\ pwmMode # localMode => channels'
      /\ pwmMode = localMode => channels' = channels
  <2>1. localMode \in Modes /\ localMode # "off"
    BY DEF ModeTypeOK
  <2>2. CASE localMode = pwmMode
    <3>1. UNCHANGED <<pwmMode, tripped, channels, armed>>
      BY <2>2 DEF SetOpmode, pwm
    <3>2. byHand
      BY <2>1, <2>2 DEF WaitFollows
    <3> QED
      BY <2>1, <2>2, <3>1, <3>2 DEF ModeTypeOK
  <2>3. CASE localMode # pwmMode
    <3>1. /\ pwmMode' = localMode /\ channels' = TRUE /\ armed' = TRUE
          /\ tripped' = (tripped /\ localMode = "off")
      BY <2>1, <2>3 DEF SetOpmode, StoreOpmode
    <3> QED
      BY <2>1, <2>3, <3>1
  <2> QED
    BY <2>2, <2>3
<1>2. ModeTypeOK'
  <2>1. {dcsw', prec', byHand', heeded', overruled'} \subseteq BOOLEAN
    BY DEF ModeTypeOK
  <2>2. initWait' \in -1 .. Wait
    OBVIOUS
  <2> QED
    BY <1>1, <2>1, <2>2, EndRoundType, Zenon DEF ModeTypeOK
<1>3. OutputsMatch' /\ TerminalByHand' /\ CopyFollows' /\ OffSeen'
  <2>1. OutputsMatch'
    BY <1>1 DEF OutputsMatch, ModeTypeOK
  <2> QED
    BY <2>1 DEF TerminalByHand, CopyFollows, OffSeen
<1>4. Connected' /\ WaitFollows' /\ HeededWaits' /\ Guarded' /\ Waited' /\ OverOpen'
  BY <1>1 DEF Connected, WaitFollows, HeededWaits, Guarded, Waited, OverOpen, CopyFollows
<1>5. StopsInARound'
  BY DEF StopsInARound, OffSeen
<1> QED
  BY <1>2, <1>3, <1>4, <1>5

LEMMA CountDownInv == ASSUME Whole, EndRound, CountDown PROVE Whole'
<1> USE ModesDistinct DEF EndRound, CountDown, params, pwm, terminalVars
<1>1. /\ initWait' \in -1 .. Wait /\ (initWait' = -1 <=> initWait = -1)
      /\ initWait >= 0 => initWait' = initWait - 1
  BY DEF ModeTypeOK
<1>2. ModeTypeOK'
  BY <1>1, InputsSeen DEF ModeTypeOK
<1>3. OutputsMatch' /\ TerminalByHand' /\ CopyFollows' /\ OffSeen'
  BY DEF OutputsMatch, TerminalByHand, CopyFollows, OffSeen
<1>4. Connected' /\ WaitFollows' /\ HeededWaits' /\ Guarded' /\ OverOpen'
  BY <1>1 DEF Connected, WaitFollows, HeededWaits, Guarded, OverOpen, CopyFollows
<1>5. Waited'
  BY <1>1 DEF Waited, Connected, ModeTypeOK
<1>6. StopsInARound'
  BY DEF StopsInARound, OffSeen
<1> QED
  BY <1>2, <1>3, <1>4, <1>5, <1>6

LEMMA EndRoundInv == ASSUME Whole, EndRound PROVE Whole'
  BY TurnOffInv, TurnOnInv, CountDownInv DEF EndRound
(* The break interrupt and the terminal.                                   *)
LEMMA BreakInv == ASSUME Whole, Break PROVE Whole'
<1> USE ModesDistinct DEF Break, SetTo, contactors, locals, terminalVars
<1>1. ModeTypeOK'
  BY DEF ModeTypeOK
<1>2. OutputsMatch' /\ TerminalByHand' /\ CopyFollows' /\ OffSeen'
  BY DEF OutputsMatch, TerminalByHand, CopyFollows, OffSeen, ModeTypeOK
<1>3. Connected' /\ WaitFollows' /\ HeededWaits' /\ Guarded' /\ Waited'
  BY DEF Connected, WaitFollows, HeededWaits, Guarded, Waited
<1>4. OverOpen' /\ StopsInARound'
  BY DEF OverOpen, StopsInARound, ModeTypeOK
<1> QED
  BY <1>1, <1>2, <1>3, <1>4

LEMMA FromTerminalInv ==
  ASSUME Whole, NEW goOn \in {"store", "idle"}, NEW mode \in Modes, FromTerminal(goOn, mode),
         goOn = "idle" => mode = "off"
  PROVE  Whole'
<1> USE ModesDistinct DEF FromTerminal, SetTo, pwm, contactors, locals
<1>1. ModeTypeOK'
  BY ModeAssumption DEF ModeTypeOK
<1>2. OutputsMatch' /\ TerminalByHand' /\ CopyFollows' /\ OffSeen'
  BY DEF OutputsMatch, TerminalByHand, CopyFollows, OffSeen, ModeTypeOK
<1>3. Connected' /\ WaitFollows' /\ HeededWaits' /\ Guarded' /\ Waited'
  BY DEF Connected, WaitFollows, HeededWaits, Guarded, Waited
<1>4. OverOpen' /\ StopsInARound'
  BY DEF OverOpen, StopsInARound, ModeTypeOK
<1> QED
  BY <1>1, <1>2, <1>3, <1>4

LEMMA TerminalInv == ASSUME Whole, StartInverter \/ StopInverter PROVE Whole'
  BY FromTerminalInv, ModesDistinct DEF StartInverter, StopInverter

LEMMA StoreInv == ASSUME Whole, StoreAsked \/ SetOutputs PROVE Whole'
<1> USE ModesDistinct DEF params, contactors, locals
<1>1. byHand /\ byHand' /\ task = "idle" /\ task' = "idle" /\ ~offRound'
  BY DEF StoreAsked, SetOutputs, TerminalByHand, ModeTypeOK
<1>2. ModeTypeOK'
  BY DEF StoreAsked, SetOutputs, StoreOpmode, ModeTypeOK, pwm
<1>3. OutputsMatch'
  <2>1. CASE StoreAsked
    BY <2>1 DEF StoreAsked, StoreOpmode, OutputsMatch, ModeTypeOK, pwm
  <2>2. CASE SetOutputs
    BY <2>2 DEF SetOutputs, OutputsMatch, ModeTypeOK
  <2> QED
    BY <2>1, <2>2
<1>4. Connected'
  BY <1>1 DEF StoreAsked, SetOutputs, Connected
<1>5. TerminalByHand' /\ CopyFollows' /\ OffSeen' /\ WaitFollows' /\ HeededWaits'
  BY <1>1 DEF TerminalByHand, CopyFollows, OffSeen, WaitFollows, HeededWaits
<1>6. Guarded' /\ Waited' /\ OverOpen' /\ StopsInARound'
  BY <1>1 DEF Guarded, Waited, OverOpen, StopsInARound
<1> QED
  BY <1>2, <1>3, <1>4, <1>5, <1>6

LEMMA ModeNextInv == Whole /\ [ModeNext]_modeVars => Whole'
<1> SUFFICES ASSUME Whole, [ModeNext]_modeVars PROVE Whole'
  OBVIOUS
<1>1. CASE ModeNext
  BY <1>1, BeginRoundInv, ProcessUdcInv, DecideInv, AcceptInv, HeedBmsInv, EndRoundInv, BreakInv,
     TerminalInv, StoreInv DEF ModeNext, Ms10Task
<1>2. CASE UNCHANGED modeVars
  BY <1>2 DEF modeVars, params, pwm, contactors, locals, terminalVars, modeHistory, ModeTypeOK,
     OutputsMatch, TerminalByHand, CopyFollows, OffSeen, Connected, WaitFollows, HeededWaits,
     Guarded, Waited, OverOpen, StopsInARound
<1> QED
  BY <1>1, <1>2
(* Whatever trips, voltages, inputs and terminal commands come, and        *)
(* whenever: a mode set to off stops the drive within a round, and the     *)
(* drive that runs is connected and guarded (stm32_sine.cpp, Ms10Task).    *)
THEOREM ModeInvariant ==
  ModeSpec => [](ModeTypeOK /\ StopsInARound /\ RunsSafely)
<1>1. Whole => ModeTypeOK /\ StopsInARound /\ RunsSafely
  BY DEF RunsSafely, RunningConnected, RunsGuarded, Guarded, OutputsMatch, TerminalByHand,
         Connected, WaitFollows, ModeTypeOK
<1> HIDE DEF Whole
<1> QED
  BY <1>1, ModeInitInv, ModeNextInv, PTL DEF ModeSpec

(* The outputs wait for the contactor, and no round that sees an           *)
(* over-voltage at standstill leaves the contactor closed (Ms10Task,       *)
(* vehiclecontrol.cpp, ProcessUdc).                                        *)
THEOREM ContactorFirst == ModeSpec => ContactorLeads
<1> DEFINE Waits == Ms10Task /\ ~channels /\ channels' /\ opmode # "off" /\ ~overruled /\ ~byHand
                      => closedFor >= Wait
           Opens == task = "act" /\ task' = "idle" /\ seen.udc = "over" /\ seen.standing => ~dcsw'
<1>1. Whole /\ [ModeNext]_modeVars => [Waits]_modeVars
  <2> SUFFICES ASSUME Whole, Ms10Task, ~channels, channels', opmode # "off", ~overruled, ~byHand
               PROVE  closedFor >= Wait
    OBVIOUS
  <2>1. EndRound
    BY DEF Ms10Task, BeginRound, ProcessUdc, Decide, Accept, HeedBms, pwm
  <2>2. TurnOn
    BY <2>1 DEF EndRound, TurnOff, CountDown, CopyFollows, pwm
  <2> QED
    BY <2>1, <2>2, ModesDistinct DEF EndRound, TurnOn, Waited, ModeTypeOK
<1>2. Whole /\ [ModeNext]_modeVars => [Opens]_modeVars
  <2> SUFFICES ASSUME Whole, ModeNext, task = "act", task' = "idle", seen.udc = "over",
                      seen.standing
               PROVE  ~dcsw'
    OBVIOUS
  <2>1. EndRound
    BY DEF ModeNext, Ms10Task, BeginRound, ProcessUdc, Decide, Accept, HeedBms, Break,
           StartInverter, StopInverter, FromTerminal, StoreAsked, SetOutputs
  <2> QED
    BY <2>1 DEF EndRound, TurnOff, TurnOn, CountDown, SetContactorsOffState, OverOpen
<1>3. ContactorLeads <=> [][Waits]_modeVars /\ [][Opens]_modeVars
  BY DEF ContactorLeads, OutputsWaited, OvervoltageOpens
<1> HIDE DEF Whole, Waits, Opens
<1> QED
  BY <1>1, <1>2, <1>3, ModeInitInv, ModeNextInv, PTL DEF ModeSpec

HIDE DEF Whole

-------------------------------------------------------------------------------
(* The pedals: what becomes of the driver's wishes.                        *)

USE DEF Full, POT_SLACK

(* Arithmetic that SMT needs said: products and their signs,               *)
LEMMA Products ==
    ASSUME NEW a \in Int, NEW b \in Int
    PROVE  a * b \in Int
  OBVIOUS

LEMMA SignOfProduct ==
    ASSUME NEW a \in Int, NEW b \in Int
    PROVE  /\ a >= 0 /\ b >= 0 => a * b >= 0
           /\ a <= 0 /\ b >= 0 => a * b <= 0
           /\ a <= 0 /\ b <= 0 => a * b >= 0
  OBVIOUS

(* shares in percent,                                                      *)
LEMMA Share ==
    ASSUME NEW t \in Nat, NEW f \in 0..100
    PROVE  t * f \in 0..(100 * t)
  OBVIOUS

(* divisions,                                                              *)
LEMMA Divided ==
    ASSUME NEW n \in Int, NEW d \in Int, d > 0
    PROVE  /\ n \div d \in Int
           /\ n >= 0 => n \div d >= 0
           /\ n <= 0 => n \div d <= 0
  OBVIOUS

LEMMA Hundredth ==
    ASSUME NEW t \in Nat, NEW n \in 0..(100 * t)
    PROVE  n \div 100 \in 0..t
  OBVIOUS

(* the lower and the upper of two numbers.                                 *)
LEMMA LowerUpper ==
    ASSUME NEW a \in Int, NEW b \in Int
    PROVE  /\ Lower(a, b) \in Int /\ Lower(a, b) <= a /\ Lower(a, b) <= b /\ Lower(a, b) \in {a, b}
           /\ Upper(a, b) \in Int /\ Upper(a, b) >= a /\ Upper(a, b) >= b /\ Upper(a, b) \in {a, b}
  BY DEF Lower, Upper

(* The assumptions on the parameters, one by one.                          *)
LEMMA Parameters ==
    /\ throtmin \in Int /\ throtmin <= 0 /\ throtmax \in Int /\ throtmax >= 0 /\ throtmax <= Full
    /\ brknompedal \in Int /\ brknompedal <= 0 /\ brkmax \in Int /\ brkmax <= 0
    /\ brkcruise \in Int /\ idleThrotLim \in Int
    /\ brknom \in Int /\ brknom > 0 /\ Full - brknom > 0
    /\ regenRamp \in 1..Full /\ throtramp \in 1..Full /\ throtrampmax \in 1..Full
    /\ bmslimlow \in Int /\ -bmslimlow \in 0..100 /\ bmslimhigh \in 0..100
    /\ idleSpeed \in Int /\ speedkp \in Int /\ tempMax \in Int
<1>1. throtmin \in -Full..0 /\ throtmax \in 0..Full
  BY DrivingAssumption
<1>2. brknompedal \in -Full..0 /\ brkmax \in -Full..0 /\ brkcruise \in -Full..0
  BY DrivingAssumption
<1>3. regenRamp \in 1..Full /\ throtramp \in 1..Full /\ throtrampmax \in 1..Full
  BY DrivingAssumption
<1>4. brknom \in 1..(Full - 1) /\ idleThrotLim \in 0..Full
  BY DrivingAssumption
<1>5. bmslimlow \in -100..0 /\ bmslimhigh \in 0..100
  BY DrivingAssumption
<1>6. idleSpeed \in Int /\ speedkp \in Int /\ tempMax \in Int
  BY DrivingNumbers
<1> QED
  BY <1>1, <1>2, <1>3, <1>4, <1>5, <1>6

(* Each derating takes torque away and never turns it around, and takes    *)
(* all of the torque of its direction beyond its own limit.                *)
Within(t, u) == u \in Int /\ IF t >= 0 THEN u \in 0..t ELSE u \in t..0

(* Deratings one after the other.                                          *)
LEMMA WithinAll ==
    ASSUME NEW t \in Int, NEW u \in Int, NEW w \in Int, Within(t, u), Within(u, w)
    PROVE  Within(t, w) /\ (u <= 0 => w <= 0) /\ (u >= 0 => w >= 0) /\ (u = 0 => w = 0)
  BY DEF Within

(* What the BMS allows.                                                    *)
LEMMA BmsWithin ==
    ASSUME NEW t \in Int, NEW c \in Conditions
    PROVE  Within(t, BmsLimitCommand(t, c))
<1>1. CASE ~c.bms
  BY <1>1 DEF Within, BmsLimitCommand
<1>2. CASE c.bms /\ t >= 0
  <2>1. (t * bmslimhigh) \div 100 \in 0..t
    BY <1>2, Share, Hundredth, DrivingAssumption
  <2> QED
    BY <1>2, <2>1 DEF Within, BmsLimitCommand
<1>3. CASE c.bms /\ ~(t >= 0)
  <2>1. -t \in Nat /\ -bmslimlow \in 0..100 /\ bmslimlow \in Int
    BY <1>3, Parameters
  <2>2. (-t) * (-bmslimlow) = t * bmslimlow
    BY <2>1
  <2>3. (t * bmslimlow) \div 100 \in 0..(-t)
    BY <2>1, <2>2, Share, Hundredth
  <2> QED
    BY <1>3, <2>3 DEF Within, BmsLimitCommand
<1> QED
  BY <1>1, <1>2, <1>3

(* The DC voltage.                                                         *)
LEMMA UdcWithin ==
    ASSUME NEW t \in Int, NEW c \in Conditions
    PROVE  LET u == UdcLimitCommand(t, c.udc)
           IN  /\ Within(t, u)
               /\ c.udc <= udcmin => u <= 0
               /\ c.udc >= udcmax => u >= 0
<1>1. c.udc \in Int /\ udcmin \in Int /\ udcmax \in Int
  BY DrivingNumbers
<1> QED
  BY <1>1 DEF Within, UdcLimitCommand, Lower, Upper

(* The DC current.                                                         *)
LEMMA IdcWithin ==
    ASSUME NEW t \in Int, NEW c \in Conditions
    PROVE  LET u == IdcLimitCommand(t, c.idc)
           IN  /\ Within(t, u)
               /\ c.idc >= idcmax => u <= 0
               /\ c.idc <= idcmin => u >= 0
<1>1. c.idc \in Int /\ idcmin \in Int /\ idcmax \in Int /\ idckp \in Nat
  BY DrivingNumbers
<1>2. /\ idckp * (idcmax - c.idc) \in Int /\ idckp * (idcmin - c.idc) \in Int
      /\ c.idc >= idcmax => idckp * (idcmax - c.idc) <= 0
      /\ c.idc <= idcmin => idckp * (idcmin - c.idc) >= 0
  <2>1. idcmax - c.idc \in Int /\ idcmin - c.idc \in Int
    BY <1>1
  <2>2. c.idc >= idcmax => idcmax - c.idc <= 0
    BY <1>1
  <2>3. c.idc <= idcmin => idcmin - c.idc >= 0
    BY <1>1
  <2>4. \A x \in Int : idckp * x \in Int /\ (x <= 0 => idckp * x <= 0) /\ (x >= 0 => idckp * x >= 0)
    BY <1>1
  <2> QED
    BY <2>1, <2>2, <2>3, <2>4
<1> DEFINE most == idckp * (idcmax - c.idc)
           least == idckp * (idcmin - c.idc)
<1>3. /\ most \in Int /\ least \in Int
      /\ c.idc >= idcmax => most <= 0
      /\ c.idc <= idcmin => least >= 0
  BY <1>2
<1>4. IdcLimitCommand(t, c.idc) = IF t >= 0 THEN Lower(t, Upper(0, most)) ELSE Upper(t, Lower(0, least))
  BY DEF IdcLimitCommand
<1> HIDE DEF most, least
<1> QED
  BY <1>3, <1>4 DEF Within, Lower, Upper

(* The speed.                                                              *)
LEMMA FrequencyWithin ==
    ASSUME NEW t \in Int, NEW c \in Conditions
    PROVE  LET u == FrequencyLimitCommand(t, c.frq)
           IN  Within(t, u) /\ (c.frq >= fmax => u <= 0)
<1>1. c.frq \in Int /\ fmax \in Int
  BY DrivingNumbers
<1> QED
  BY <1>1 DEF Within, FrequencyLimitCommand, Lower, Upper

(* The temperatures.                                                       *)
LEMMA TemperatureWithin ==
    ASSUME NEW t \in Int, NEW temp \in Int
    PROVE  LET u == TemperatureDerate(t, temp)
           IN  Within(t, u) /\ (temp >= tempMax + 2 => u = 0)
<1> DEFINE limit == IF temp <= tempMax THEN Full ELSE IF temp < tempMax + 2 THEN Full \div 2 ELSE 0
<1>1. limit \in Int /\ limit >= 0 /\ (temp >= tempMax + 2 => limit = 0)
  <2>1. tempMax \in Int /\ Full \div 2 = 500
    BY Parameters
  <2> QED
    BY <2>1
<1>2. TemperatureDerate(t, temp) = IF t >= 0 THEN Lower(t, limit) ELSE Upper(t, -limit)
  BY DEF TemperatureDerate
<1> HIDE DEF limit
<1> QED
  BY <1>1, <1>2 DEF Within, Lower, Upper

(* All of them.                                                            *)
LEMMA DeratingsHold ==
    ASSUME throttleRamped \in Int
    PROVE  LimitsHold
<1> SUFFICES ASSUME NEW c \in Conditions
             PROVE  LET t == potnom(c)
                    IN  /\ Within(throttleRamped, t)
                        /\ c.udc <= udcmin \/ c.idc >= idcmax \/ c.frq >= fmax => t <= 0
                        /\ c.udc >= udcmax \/ c.idc <= idcmin => t >= 0
                        /\ c.temp[1] >= tempMax + 2 \/ c.temp[2] >= tempMax + 2 => t = 0
  BY DEF LimitsHold, Within
<1> DEFINE a == BmsLimitCommand(throttleRamped, c)
           b == UdcLimitCommand(a, c.udc)
           d == IdcLimitCommand(b, c.idc)
           e == FrequencyLimitCommand(d, c.frq)
           f == TemperatureDerate(e, c.temp[1])
           g == TemperatureDerate(f, c.temp[2])
<1>1. potnom(c) = g
  BY DEF potnom
<1>2. c.temp[1] \in Int /\ c.temp[2] \in Int
  BY DrivingNumbers
<1>3. Within(throttleRamped, a) /\ a \in Int
  BY BmsWithin DEF Within
<1> HIDE DEF a
<1>4. Within(a, b) /\ b \in Int /\ (c.udc <= udcmin => b <= 0) /\ (c.udc >= udcmax => b >= 0)
  BY <1>3, UdcWithin DEF Within
<1> HIDE DEF b
<1>5. Within(b, d) /\ d \in Int /\ (c.idc >= idcmax => d <= 0) /\ (c.idc <= idcmin => d >= 0)
  BY <1>4, IdcWithin DEF Within
<1> HIDE DEF d
<1>6. Within(d, e) /\ e \in Int /\ (c.frq >= fmax => e <= 0)
  BY <1>5, FrequencyWithin DEF Within
<1> HIDE DEF e
<1>7. Within(e, f) /\ f \in Int /\ (c.temp[1] >= tempMax + 2 => f = 0)
  BY <1>2, <1>6, TemperatureWithin DEF Within
<1> HIDE DEF f
<1>8. Within(f, g) /\ g \in Int /\ (c.temp[2] >= tempMax + 2 => g = 0)
  BY <1>2, <1>7, TemperatureWithin DEF Within
<1> HIDE DEF g
<1>9. Within(throttleRamped, g)
  BY <1>3, <1>4, <1>5, <1>6, <1>7, <1>8, WithinAll
<1>10. /\ c.udc <= udcmin \/ c.idc >= idcmax \/ c.frq >= fmax => g <= 0
       /\ c.udc >= udcmax \/ c.idc <= idcmin => g >= 0
       /\ c.temp[1] >= tempMax + 2 => g = 0
  BY <1>3, <1>4, <1>5, <1>6, <1>7, <1>8 DEF Within
<1> QED
  BY <1>1, <1>8, <1>9, <1>10

(* The pedals give an integer, and with the brake nothing above zero.      *)
LEMMA SpanPositive ==
    ASSUME NEW i \in {1, 2}, NEW val \in Int
    PROVE  /\ Limited(val, i) \in Int /\ Percent(val, i) \in Int /\ Percent(val, i) >= 0
<1> DEFINE lo == potmin[i]
           hi == potmax[i]
           span == Upper(lo, hi) - Lower(lo, hi)
           n == 100 * Upper(val - lo, lo - val)
<1>1. lo \in Int /\ hi \in Int
  BY DrivingNumbers
<1>2. Limited(val, i) \in Int
  BY <1>1 DEF Limited, InRange, Lower, Upper
<1>3. span \in Int /\ (span # 0 => span > 0) /\ n \in Int /\ n >= 0
  BY <1>1 DEF Lower, Upper
<1>4. Percent(val, i) = IF span = 0 THEN Full ELSE 10 * (n \div span)
  BY DEF Percent
<1> HIDE DEF span, n
<1>5. CASE span = 0
  BY <1>2, <1>4, <1>5
<1>6. CASE span # 0
  <2>1. n \div span \in Int /\ n \div span >= 0
    BY <1>3, <1>6, Divided
  <2> QED
    BY <1>2, <1>4, <1>6, <2>1
<1> QED
  BY <1>5, <1>6

LEMMA CalcThrottleBounds ==
    ASSUME NEW pot1 \in Int, NEW pot2 \in Int, pot2 >= 0, NEW brake \in BOOLEAN
    PROVE  /\ CalcThrottle(pot1, pot2, brake) \in Int
           /\ brake => CalcThrottle(pot1, pot2, brake) <= 0
<1> DEFINE k == IF brake THEN brknompedal ELSE brkmax
           s == -1 + (k * pot2) \div Full
           x == ((brknom - pot1) * s) \div brknom
           y == (Full * (pot1 - brknom)) \div (Full - brknom)
<1>1. k \in Int /\ k <= 0 /\ brknom \in Int /\ brknom > 0 /\ Full - brknom > 0
  BY Parameters
<1>2. k * pot2 \in Int /\ k * pot2 <= 0
  BY <1>1, SignOfProduct, Products
<1>3. s \in Int /\ s <= 0
  <2>1. (k * pot2) \div Full \in Int /\ (k * pot2) \div Full <= 0
    BY <1>2, Divided
  <2> QED
    BY <2>1
<1>4. CalcThrottle(pot1, pot2, brake) = IF brake THEN s ELSE IF pot1 < brknom THEN x ELSE y
  BY DEF CalcThrottle
<1> HIDE DEF k, s
<1>5. x \in Int
  <2>1. (brknom - pot1) * s \in Int
    BY <1>1, <1>3, Products
  <2> QED
    BY <1>1, <2>1, Divided
<1>6. y \in Int
  <2>1. Full * (pot1 - brknom) \in Int
    BY <1>1
  <2> QED
    BY <1>1, <2>1, Divided
<1> HIDE DEF x, y
<1> QED
  BY <1>3, <1>4, <1>5, <1>6

(* The types, with the sets SMT would otherwise unroll named.              *)
Typed ==
    /\ dir \in {-1, 0, 1} /\ speed \in Speeds /\ cruiseSpeed \in Speeds \cup {-1}
    /\ throttleRamped \in throtmin..throtmax
    /\ din \in DriverInputs /\ permitted \in 0..Full
    /\ lastCruiseSwitchState \in BOOLEAN /\ inRound \in BOOLEAN
    /\ wanted \in BOOLEAN /\ braking \in BOOLEAN

LEMMA TypedSame == Typed <=> DrivingTypeOK
  BY DEF Typed, DrivingTypeOK

(* As long as the brake keeps cruise control off, its speed is unset.      *)
BrakeKept == braking => din.brake /\ cruiseSpeed = -1

(* What the driver asks is a number, and with the brake at most zero.      *)
LEMMA UserCommand ==
    ASSUME Typed, setup \in Setups, NEW pots \in Digits, NEW stale \in BOOLEAN
    PROVE  /\ GetUserThrottleCommand(pots, stale) \in Int
           /\ din.brake => GetUserThrottleCommand(pots, stale) <= 0
<1> DEFINE good == {i \in {1, 2}: InRange(pots[i], i)}
           pot == [i \in {1, 2} |-> Percent(Limited(pots[i], i), i)]
           pot1 == IF ~setup.dual \/ good = {1} THEN pot[1]
                   ELSE IF good = {2} THEN pot[2] ELSE Lower(pot[1], pot[2])
           pot2 == IF setup.dual THEN Full ELSE pot[2]
           calc == CalcThrottle(pot1, pot2, din.brake)
<1>1. pots[1] \in Int /\ pots[2] \in Int
  BY DrivingNumbers
<1>2. pot[1] \in Int /\ pot[2] \in Int /\ pot[2] >= 0
  <2>1. Limited(pots[1], 1) \in Int /\ Limited(pots[2], 2) \in Int
    BY <1>1, SpanPositive
  <2> QED
    BY <2>1, SpanPositive
<1> HIDE DEF pot, good
<1>3. pot1 \in Int /\ pot2 \in Int /\ pot2 >= 0
  BY <1>2 DEF Lower
<1>4. din.brake \in BOOLEAN
  BY DEF Typed, DriverInputs
<1> HIDE DEF pot1, pot2
<1>5. calc \in Int /\ (din.brake => calc <= 0)
  BY <1>3, <1>4, CalcThrottleBounds
<1>6. GetUserThrottleCommand(pots, stale) =
        IF stale \/ dir = 0 \/ (IF setup.dual THEN good = {} ELSE 1 \notin good) THEN 0 ELSE calc
  BY DEF GetUserThrottleCommand, good, pot, pot1, pot2
<1> HIDE DEF calc
<1> QED
  BY <1>5, <1>6

(* What cruise control and creeping make of it.                            *)
LEMMA Demand ==
    ASSUME Typed, setup \in Setups, NEW user \in Int, NEW filtered \in Speeds
    PROVE  LET demand == GetCruiseCreepCommand(user, filtered)
           IN  /\ demand \in Int
               /\ demand > 0 => user > 0 \/ Creeps \/ Cruises
<1> DEFINE idleSpnt == Lower(idleThrotLim, speedkp * (idleSpeed - speed))
           cruiseSpnt == Upper(brkcruise, Lower(Full, speedkp * (cruiseSpeed - filtered)))
<1>1. /\ speed \in Int /\ filtered \in Int /\ cruiseSpeed \in Int /\ idleSpeed \in Int
      /\ speedkp \in Int /\ idleThrotLim \in Int /\ brkcruise \in Int
  BY DrivingNumbers, Parameters DEF Typed
<1>2. speedkp * (idleSpeed - speed) \in Int /\ speedkp * (cruiseSpeed - filtered) \in Int
  BY <1>1, Products
<1>3. idleSpnt \in Int /\ cruiseSpnt \in Int
  BY <1>1, <1>2, LowerUpper
<1>4. GetCruiseCreepCommand(user, filtered) =
        CASE Cruises /\ user <= 0 -> cruiseSpnt
          [] Cruises /\ user > 0  -> Upper(cruiseSpnt, user)
          [] ~Cruises /\ Creeps   -> Upper(user, idleSpnt)
          [] OTHER                -> user
  BY DEF GetCruiseCreepCommand
<1> HIDE DEF idleSpnt, cruiseSpnt
<1>5. CASE Cruises
  BY <1>3, <1>4, <1>5, LowerUpper
<1>6. CASE ~Cruises
  BY <1>3, <1>4, <1>6, LowerUpper
<1> QED
  BY <1>5, <1>6

(* The ramp stays within the limits of the throttle and below its rate.    *)
LEMMA Ramped ==
    ASSUME NEW current \in throtmin..throtmax, NEW wished \in Int, NEW ramp \in 1..Full
    PROVE  LET next == RampThrottle(current, wished, ramp)
           IN  /\ next \in throtmin..throtmax
               /\ next <= current \/ next <= current + ramp
               /\ wished <= 0 => next <= 0
<1>1. /\ throtmin \in Int /\ throtmax \in Int /\ throtmin <= 0 /\ throtmax >= 0
      /\ regenRamp \in Int /\ regenRamp >= 1 /\ current \in Int
  BY Parameters
<1> QED
  BY <1>1 DEF RampThrottle, Lower, Upper

(* The ramp down to nothing.                                               *)
LEMMA RampedDown ==
    ASSUME NEW current \in throtmin..throtmax, NEW ramp \in 1..Full
    PROVE  /\ RampThrottle(current, 0, ramp) \in throtmin..throtmax
           /\ RampThrottle(current, 0, ramp) <= 0
<1>1. /\ throtmin \in Int /\ throtmax \in Int /\ throtmin <= 0 /\ throtmax >= 0
      /\ regenRamp \in Int /\ regenRamp >= 1 /\ current \in Int
  BY Parameters
<1> QED
  BY <1>1 DEF RampThrottle, Lower, Upper

(* The invariant behind all three theorems.                                *)
Driven ==
    /\ Typed /\ setup \in Setups
    /\ OnlyAskedDrives /\ RampHolds /\ BrakeKept

(* At first nothing is asked.                                              *)
LEMMA DrivingInitDriven == DrivingInit => Driven
<1> SUFFICES ASSUME DrivingInit PROVE Driven
  OBVIOUS
<1>1. throttleRamped = 0 /\ permitted = 0 /\ braking = FALSE /\ setup \in Setups
  BY DEF DrivingInit
<1>2. throttleRamped \in throtmin..throtmax /\ permitted \in 0..Full
  BY <1>1, Parameters
<1>3. din \in DriverInputs
  BY DEF DrivingInit, DriverInputs
<1>4. Typed
  BY <1>2, <1>3, DrivingNumbers DEF DrivingInit, Typed
<1> QED
  BY <1>1, <1>4 DEF Driven, OnlyAskedDrives, RampHolds, BrakeKept

(* The throttle of one round.                                              *)
LEMMA ProcessThrottleDriven ==
    ASSUME Driven,
           NEW pots \in Digits, NEW stale \in {FALSE, setup.can},
           NEW filtered \in IF Cruises THEN Speeds ELSE {speed}, NEW mode \in {"off", "turnOn", "on"},
           ProcessThrottle(pots, stale, filtered, mode)
    PROVE  /\ Driven'
           /\ braking /\ throttleRamped' > 0 => setup.idlemode = "always"
<1> DEFINE ramp == IF speed < throtramprpm THEN throtramp ELSE throtrampmax
           user == GetUserThrottleCommand(pots, stale)
           demand == GetCruiseCreepCommand(user, filtered)
           ramped == RampThrottle(throttleRamped, demand, ramp)
           off == RampThrottle(ramped, 0, ramp)
<1>1. stale \in BOOLEAN /\ filtered \in Speeds
  BY DrivingNumbers DEF Driven, Typed
<1>2. user \in Int /\ (din.brake => user <= 0)
  BY <1>1, UserCommand DEF Driven
<1>3. demand \in Int /\ (demand > 0 => user > 0 \/ Creeps \/ Cruises)
  <2> HIDE DEF user
  <2> QED
    BY <1>1, <1>2, Demand DEF Driven
<1>4. ramp \in 1..Full
  BY DrivingAssumption
<1>5. /\ throttleRamped' = IF mode = "turnOn" THEN off ELSE ramped
      /\ cruiseSpeed' = IF mode = "off" THEN -1 ELSE cruiseSpeed
      /\ permitted' = IF demand <= 0 THEN 0 ELSE Lower(permitted + ramp, Full)
      /\ wanted' = (user > 0 \/ Creeps \/ Cruises)
      /\ inRound' = FALSE
      /\ UNCHANGED <<setup, din, speed, dir, lastCruiseSwitchState, braking>>
  BY DEF ProcessThrottle, read
<1> HIDE DEF ramp, user, demand
<1>6. /\ ramped \in throtmin..throtmax
      /\ ramped <= throttleRamped \/ ramped <= throttleRamped + ramp
      /\ demand <= 0 => ramped <= 0
  <2>1. throttleRamped \in throtmin..throtmax
    BY DEF Driven, Typed
  <2>2. demand \in Int
    BY <1>3
  <2> QED BY <1>4, <2>1, <2>2, Ramped, Zenon
<1> HIDE DEF ramped
<1>7. off \in throtmin..throtmax /\ off <= 0
  BY <1>4, <1>6, RampedDown
<1> HIDE DEF off
<1>8. throttleRamped' \in throtmin..throtmax /\ (throttleRamped' > 0 => demand > 0)
  BY <1>3, <1>5, <1>6, <1>7, DrivingAssumption
<1>9. Typed'
  <2>1. permitted' \in 0..Full
    BY <1>3, <1>4, <1>5 DEF Driven, Typed, Lower
  <2>2. cruiseSpeed' \in Speeds \cup {-1}
    BY <1>5 DEF Driven, Typed
  <2>3. wanted' \in BOOLEAN
    BY <1>5
  <2> QED
    BY <1>5, <1>8, <2>1, <2>2, <2>3 DEF Driven, Typed
<1>10. OnlyAskedDrives'
  BY <1>3, <1>5, <1>8 DEF OnlyAskedDrives
<1>11. RampHolds'
  <2>1. throtmin \in Int /\ throtmax \in Int /\ throtmin <= 0 /\ throtmax \in 0..Full
    BY DrivingAssumption
  <2>2. throttleRamped \in Int /\ permitted \in 0..Full /\ throttleRamped <= permitted
    BY <2>1 DEF Driven, Typed, RampHolds
  <2>3. CASE mode = "turnOn"
    <3>1. throttleRamped' <= 0
      BY <1>5, <1>7, <2>3
    <3> QED
      BY <3>1, <1>8, <1>9, <2>1 DEF RampHolds, Typed
  <2>4. CASE mode # "turnOn"
    <3>1. throttleRamped' = ramped /\ ramped \in Int /\ ramped <= throtmax
      BY <1>5, <1>6, <2>1, <2>4
    <3>2. CASE demand <= 0
      BY <1>5, <1>6, <3>1, <3>2 DEF RampHolds
    <3>3. CASE ~(demand <= 0)
      BY <1>4, <1>5, <1>6, <2>1, <2>2, <3>1, <3>3 DEF RampHolds, Lower
    <3> QED
      BY <3>2, <3>3
  <2> QED
    BY <2>3, <2>4
<1>12. BrakeKept'
  BY <1>5 DEF Driven, BrakeKept
<1>13. ASSUME braking, throttleRamped' > 0 PROVE setup.idlemode = "always"
  <2>1. ~Cruises /\ din.brake
    BY <1>13 DEF Driven, BrakeKept, Cruises
  <2>2. Creeps
    BY <1>2, <1>3, <1>8, <1>13, <2>1
  <2> QED
    BY <2>1, <2>2 DEF Creeps
<1> QED
  BY <1>5, <1>9, <1>10, <1>11, <1>12, <1>13 DEF Driven

(* Its inputs.                                                             *)
LEMMA ReadInputsDriven ==
    ASSUME Driven, NEW in \in DriverInputs, NEW v \in Speeds, ReadInputs(in, v)
    PROVE  Driven'
  BY DEF Driven, Typed, OnlyAskedDrives, RampHolds, BrakeKept, ReadInputs, cruise, torque, DriverInputs

(* The direction the selector asks for.                                    *)
LEMMA Directions ==
    ASSUME Driven
    PROVE  SelectDirection \in {-1, 0, 1} /\ (SelectDirection \in {0, dir} \/ speed < dirchrpm)
  BY DEF Driven, Typed, SelectDirection, UserDirSelection, Kept, Neutral

(* The task that turns and sets cruise control.                            *)
LEMMA Ms100TaskDriven ==
    ASSUME Driven, NEW wished \in IF setup.cruisemode = "can" THEN Speeds ELSE {0}, Ms100Task(wished)
    PROVE  Driven' /\ (dir' \notin {0, dir} => speed < dirchrpm)
<1>1. UNCHANGED <<setup, din, speed, throttleRamped, permitted, wanted, inRound>>
  BY DEF Ms100Task, read, torque
<1>2. dir' \in {-1, 0, 1} /\ (dir' \notin {0, dir} => speed < dirchrpm)
  BY Directions DEF Ms100Task
<1>3. cruiseSpeed' \in Speeds \cup {-1} /\ (din.brake => cruiseSpeed' = -1)
  <2>1. cruiseSpeed' = CruiseControl(wished)
    BY DEF Ms100Task
  <2>2. /\ speed \in Speeds /\ cruiseSpeed \in Speeds \cup {-1}
        /\ setup.cruisemode = "can" => wished \in Speeds
    BY DEF Driven, Typed
  <2>3. ASSUME din.brake PROVE CruiseControl(wished) = -1
    BY <2>3, Zenon DEF CruiseControl
  <2>4. CruiseControl(wished) \in Speeds \cup {-1}
    BY <2>2, Zenon DEF CruiseControl, CruiseSet
  <2> QED
    BY <2>1, <2>3, <2>4
<1>4. braking' = din.brake /\ lastCruiseSwitchState' = din.cruise
  BY DEF Ms100Task
<1> QED
  BY <1>1, <1>2, <1>3, <1>4
     DEF Driven, Typed, OnlyAskedDrives, RampHolds, BrakeKept, DriverInputs

(* Every step keeps the invariant.                                         *)
LEMMA DrivingNextDriven ==
    ASSUME Driven, [DrivingNext]_drivingVars
    PROVE  /\ Driven'
           /\ inRound /\ ~inRound' /\ braking /\ throttleRamped' > 0 => setup.idlemode = "always"
           /\ dir' \notin {0, dir} => speed < dirchrpm
<1>1. ASSUME NEW in \in DriverInputs, NEW v \in Speeds, ReadInputs(in, v)
      PROVE  Driven' /\ inRound' /\ dir' = dir
  BY <1>1, ReadInputsDriven DEF ReadInputs
<1>2. ASSUME NEW pots \in Digits, NEW stale \in {FALSE, setup.can},
             NEW filtered \in IF Cruises THEN Speeds ELSE {speed},
             NEW mode \in {"off", "turnOn", "on"},
             ProcessThrottle(pots, stale, filtered, mode)
      PROVE  Driven' /\ (braking /\ throttleRamped' > 0 => setup.idlemode = "always") /\ dir' = dir
  <2>1. dir' = dir
    BY <1>2 DEF ProcessThrottle
  <2> QED
    BY <1>2, <2>1, ProcessThrottleDriven
<1>3. ASSUME NEW wished \in IF setup.cruisemode = "can" THEN Speeds ELSE {0}, Ms100Task(wished)
      PROVE  Driven' /\ (dir' \notin {0, dir} => speed < dirchrpm) /\ inRound' = inRound
  BY <1>3, Ms100TaskDriven DEF Ms100Task
<1>4. CASE UNCHANGED drivingVars
  BY <1>4 DEF drivingVars, read, cruise, torque, Driven, Typed, OnlyAskedDrives, RampHolds, BrakeKept
<1>5. CASE \E in \in DriverInputs, v \in Speeds: ReadInputs(in, v)
  BY <1>1, <1>5 DEF Driven, Typed
<1>6. CASE \E pots \in Digits, stale \in {FALSE, setup.can},
              filtered \in IF Cruises THEN Speeds ELSE {speed}, mode \in {"off", "turnOn", "on"}:
             ProcessThrottle(pots, stale, filtered, mode)
  <2>1. Driven' /\ (braking /\ throttleRamped' > 0 => setup.idlemode = "always") /\ dir' = dir
    BY <1>2, <1>6, Zenon
  <2> QED
    BY <2>1
<1>7. CASE \E wished \in IF setup.cruisemode = "can" THEN Speeds ELSE {0}: Ms100Task(wished)
  BY <1>3, <1>7
<1> QED
  BY <1>4, <1>5, <1>6, <1>7 DEF DrivingNext

(* The invariant is strong enough.                                         *)
LEMMA DrivenHolds == Driven => DrivingTypeOK /\ TorqueAsAsked
<1>1. throttleRamped \in Int \/ ~Typed
  BY DrivingAssumption DEF Typed
<1> QED
  BY <1>1, TypedSame, DeratingsHold DEF Driven, TorqueAsAsked

LEMMA DrivenAlways == DrivingSpec => []Driven
  BY DrivingInitDriven, DrivingNextDriven, PTL DEF DrivingSpec

(* Torque is what was asked for, no faster than the ramp and within every  *)
(* limit, for every setting of the limits and whatever the pots read.      *)
THEOREM TorqueIsAsAsked == DrivingSpec => []TorqueAsAsked
  BY DrivenAlways, DrivenHolds, PTL

(* The torque stays within throtmin and throtmax, the direction, the speed *)
(* and the switches within their ranges.                                   *)
THEOREM DrivingTyped == DrivingSpec => []DrivingTypeOK
  BY DrivenAlways, DrivenHolds, PTL

(* Brake and direction selector get their way, in every setup of them.     *)
THEOREM DriverIsObeyed == DrivingSpec => DriverObeyed
<1>1. Driven /\ [DrivingNext]_drivingVars =>
        /\ [inRound /\ ~inRound' /\ braking /\ throttleRamped' > 0
              => setup.idlemode = "always"]_drivingVars
        /\ [dir' \notin {0, dir} => speed < dirchrpm]_drivingVars
  BY DrivingNextDriven
<1> QED
  BY <1>1, DrivenAlways, PTL DEF DrivingSpec, DriverObeyed, BrakeEndsDrive, ReversesSlowly

-------------------------------------------------------------------------------
(* All parts of the boards together: a step of the board is a step of one  *)
(* part and leaves the others alone.                                       *)

LEMMA BoardInitOfEach ==
  BoardInit =>
    StorageInit /\ OilInit /\ GateInit /\ EncoderInit /\ ModeInit /\ DrivingInit
  BY DEF BoardInit

LEMMA BoardStepOfEach ==
  [BoardNext]_boardVars =>
    /\ [StorageNext]_storageVars /\ [OilNext]_oilVars /\ [GateNext]_gateVars
    /\ [EncoderNext]_encoderVars /\ [ModeNext]_modeVars /\ [DrivingNext]_drivingVars
<1> SUFFICES ASSUME [BoardNext]_boardVars
             PROVE  /\ [StorageNext]_storageVars /\ [OilNext]_oilVars /\ [GateNext]_gateVars
                    /\ [EncoderNext]_encoderVars /\ [ModeNext]_modeVars
                    /\ [DrivingNext]_drivingVars
  OBVIOUS
<1>1. CASE On("storage") /\ StorageNext
  BY <1>1 DEF On, idle
<1>2. CASE On("oil") /\ OilNext
  BY <1>2 DEF On, idle
<1>3. CASE On("gate") /\ GateNext
  BY <1>3 DEF On, idle
<1>4. CASE On("encoder") /\ EncoderNext
  BY <1>4 DEF On, idle
<1>5. CASE On("mode") /\ ModeNext
  BY <1>5 DEF On, idle
<1>6. CASE On("driving") /\ DrivingNext
  BY <1>6 DEF On, idle
<1>7. CASE UNCHANGED boardVars
  BY <1>7 DEF boardVars
<1> QED
  BY <1>1, <1>2, <1>3, <1>4, <1>5, <1>6, <1>7 DEF BoardNext

(* Every behaviour of the board is one of each of its parts.               *)
THEOREM BoardIsItsParts ==
  BoardSpec =>
    StorageSpec /\ OilSpec /\ GateSpec /\ EncoderSpec /\ ModeSpec /\ DrivingSpec
<1>1. BoardInit /\ [][BoardNext]_boardVars =>
        /\ StorageInit /\ OilInit /\ GateInit /\ EncoderInit /\ ModeInit /\ DrivingInit
        /\ [][StorageNext]_storageVars /\ [][OilNext]_oilVars /\ [][GateNext]_gateVars
        /\ [][EncoderNext]_encoderVars /\ [][ModeNext]_modeVars /\ [][DrivingNext]_drivingVars
  BY BoardInitOfEach, BoardStepOfEach, PTL
<1> QED
  BY <1>1
  DEF BoardSpec, StorageSpec, OilSpec, GateSpec, EncoderSpec, ModeSpec, DrivingSpec

(* BoardTypeOK: every variable of every part keeps its type, for all       *)
(* constants.                                                              *)
THEOREM BoardIsTyped == BoardSpec => []BoardTypeOK
<1>1. StorageTypeOK /\ OilTypeOK /\ GateTypeOK /\ EncoderTypeOK /\ ModeTypeOK /\ DrivingTypeOK
        => BoardTypeOK
  BY DEF BoardTypeOK
<1> QED
  BY <1>1, BoardIsItsParts, StorageInvariant, OilTyped, GateIsTyped, EncoderTyped, ModeInvariant,
     DrivingTyped, PTL
===============================================================================
