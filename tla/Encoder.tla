------------------------------- MODULE Encoder -------------------------------
(***************************************************************************)
(* The resolver encoder (encoder.cpp).  The ADC interrupt decodes the      *)
(* angle in every PWM cycle and adds up its changes; every Window cycles   *)
(* it makes a speed and a direction of them.  While SAVE keeps interrupts  *)
(* off the rotor turns on and no cycle is counted.                         *)
(*                                                                         *)
(* A turn has Turn units, and angles lie in (-Turn/2, Turn/2].             *)
(***************************************************************************)
EXTENDS Integers

CONSTANTS
    Turn,           \* angles told apart: even
    Fastest,        \* units the rotor turns in a cycle at most
    Window,         \* cycles of a speed estimate: 1220
    StartupDelay,   \* cycles before a missing signal is an error: 4000
    Stable,         \* STABLE_ANGLE: so little is standing still
    TooFast,        \* turns of a window that are implausible: 500 Hz
    MaxBlind        \* bound: times interrupts are kept off

Undecoded == <<-1, 0>>
Half == Turn \div 2
Angles == (1 - Half)..Half

ASSUME EncoderAssumption ==
    /\ Turn \in Nat /\ Half > 0 /\ Turn = 2 * Half
    /\ Fastest \in Nat /\ Fastest < Half
    /\ {Window, StartupDelay, TooFast} \subseteq Nat \ {0}
    /\ {Stable, MaxBlind} \subseteq Nat

VARIABLES
    rotor,          \* where the rotor is
    latched,        \* s_resolverPeakAmplitude > MIN_RESOLVER_AMPLITUDE
    angle,          \* s_angle, and s_lastAngle between two cycles
    turns,          \* s_turnsSinceLastSample
    delay,          \* s_startupDelay
    cycles,         \* s_freqUpdateCounter
    frequency,      \* s_lastFrequency, in units per window
    direction,      \* s_detectedDirection
    loresamp,       \* ERR_LORESAMP has been posted
    blinds,         \* counter for the bound
    heard,          \* history: there has been a signal
    moved,          \* history: what the rotor turned in this window
    disturbed,      \* history: a cycle of it, or the one before it, had no
                    \* signal or did not run
    due,            \* history: speed and direction the last window was due,
                    \* or Undecoded
    awake           \* history: cycles since the reset, up to StartupDelay + 1

encoderVars == <<rotor, latched, angle, turns, delay, cycles, frequency, direction,
                 loresamp, blinds, heard, moved, disturbed, due, awake>>

Wrapped(a) == CHOOSE b \in Angles: (b - a) % Turn = 0
Abs(n) == IF n < 0 THEN -n ELSE n
Sign(n) == IF n > 0 THEN 1 ELSE IF n < 0 THEN -1 ELSE 0
-----------------------------------------------------------------------------
(* Encoder::Reset, in main before interrupts are enabled. *)
EncoderInit ==
    /\ rotor \in Angles
    /\ latched = FALSE /\ angle = 0 /\ turns = 0
    /\ delay = StartupDelay /\ cycles = 0
    /\ frequency = 0 /\ direction = 0
    /\ loresamp = FALSE /\ blinds = 0
    /\ heard = FALSE /\ moved = 0 /\ disturbed = TRUE /\ awake = 0
    /\ due = Undecoded

(* Without a signal the ADC reads noise about the offset, of any angle.    *)
DecodeAngle(here, good) ==
    IF good THEN {here} ELSE IF latched THEN Angles ELSE {angle}

(* The change of the angle, less than half a turn. *)
SignedDiffUnwrapped(now) == now - angle                             \* mutant
SignedDiff(now) ==
    LET diff == now - angle
    IN  IF Abs(diff) > Half THEN diff - Sign(diff) * Turn ELSE diff

(* UpdateRotorFrequency on what the window added up to. *)
Frequency(sum, warm) ==
    IF warm /\ Abs(sum) > Stable
    THEN IF Abs(sum) < TooFast THEN Abs(sum) ELSE frequency
    ELSE 0

Direction(sum, warm) ==
    IF warm /\ Abs(sum) > Stable
    THEN IF Abs(sum) < TooFast THEN Sign(sum) ELSE direction
    ELSE 0

PostLoresamp(good) == ~latched /\ ~good /\ delay = 0

EndOfWindow(sum, went, bad, good) ==
    /\ frequency' = Frequency(sum, delay' = 0)
    /\ direction' = Direction(sum, delay' = 0)
    /\ turns' = 0 /\ cycles' = 0 /\ moved' = 0 /\ disturbed' = ~good
    /\ due' = IF bad \/ delay' > 0 THEN Undecoded
              ELSE IF Abs(went) <= Stable THEN <<0, 0>>
              ELSE IF Abs(went) < TooFast THEN <<Abs(went), Sign(went)>>
              ELSE <<frequency, direction>>

(* One run of motor_control_adc_isr: UpdateRotorAngle, then the window.    *)
(* The first angle that is decoded counts as a turn from angle zero.       *)
Cycle(step, good) ==
    LET here == Wrapped(rotor + step)
        bad == disturbed \/ ~good
    IN  /\ rotor' = here
        /\ latched' = (latched \/ good)
        /\ loresamp' = (loresamp \/ PostLoresamp(good))
        /\ angle' \in DecodeAngle(here, good)
        /\ delay' = IF delay > 0 THEN delay - 1 ELSE 0
        /\ heard' = (heard \/ good)
        /\ awake' = IF awake <= StartupDelay THEN awake + 1 ELSE awake
        /\ LET sum == turns + SignedDiff(angle')
           IN  IF cycles + 1 >= Window THEN EndOfWindow(sum, moved + step, bad, good)
               ELSE /\ turns' = sum
                    /\ cycles' = cycles + 1
                    /\ moved' = moved + step /\ disturbed' = bad
                    /\ UNCHANGED <<frequency, direction, due>>
        /\ UNCHANGED blinds

(* SAVE: the ADC interrupt is off for more than a second. *)
Blind(to) ==
    /\ blinds < MaxBlind
    /\ blinds' = blinds + 1
    /\ rotor' = to
    /\ disturbed' = TRUE
    /\ UNCHANGED <<latched, angle, turns, delay, cycles, frequency, direction,
                   loresamp, heard, moved, due, awake>>

EncoderNext ==
    \/ \E step \in -Fastest..Fastest, good \in BOOLEAN: Cycle(step, good)
    \/ \E to \in Angles: Blind(to)

EncoderSpec == EncoderInit /\ [][EncoderNext]_encoderVars
-----------------------------------------------------------------------------
(* The type invariant of the encoder. *)
EncoderTypeOK ==
    /\ rotor \in Angles /\ angle \in Angles
    /\ {latched, loresamp, heard, disturbed} \subseteq BOOLEAN
    /\ Abs(turns) <= Window * Half /\ Abs(moved) <= Window * Fastest
    /\ delay \in 0..StartupDelay /\ cycles \in 0..(Window - 1)
    /\ frequency \in 0..(TooFast - 1) /\ direction \in {-1, 0, 1}
    /\ awake \in 0..(StartupDelay + 1)

(* Whatever way the rotor turns, and across the end of the range, the      *)
(* changes add up to what it turned: in a window that began at a true      *)
(* angle and had a signal throughout nothing is lost or counted twice.     *)
TurnsTracked == ~disturbed => turns = moved

(* The speed and direction shown are those of the last window that ran     *)
(* with a signal throughout; only an implausible one leaves the speed      *)
(* before it standing.  A disturbance of an earlier window is forgotten.   *)
SpeedShown == due # Undecoded => <<frequency, direction>> = due

(* ERR_LORESAMP tells a resolver that never gave a signal from one that    *)
(* came up while the exciter was starting: posted after the delay, and     *)
(* never for a signal that came within it.                                 *)
LowSignalReported ==
    /\ ~heard /\ awake > StartupDelay => loresamp
    /\ loresamp => awake > StartupDelay

(* The rotor shown is the real one: turns, speed, direction, and whether   *)
(* there is a signal at all.                                               *)
ResolverTruthful == TurnsTracked /\ SpeedShown /\ LowSignalReported
=============================================================================
