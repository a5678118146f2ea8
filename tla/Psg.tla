--------------------------------- MODULE Psg --------------------------------
(* The sound generator of src/audio/ay3891x.c: the program writes registers,   *)
(* the audio callback turns them into samples, and there is no lock between    *)
(* the two.  For each sample the callback counts the envelope in two moments,  *)
(* and a write of the shape may come between them.  The tones, the noise, the  *)
(* volume table and the mixing are left out.                                 *)
EXTENDS Integers

CONSTANTS
  Shapes,       \* the envelope shapes the program writes
  Periods,      \* the periods it writes
  EnvRate,      \* clock_rate / 16
  SampleRate,   \* AUDIO_SAMPLE_RATE
  Half,         \* steps of half an envelope cycle, 16
  MaxSteps      \* bound of the model: steps of an envelope

\* What the constants must satisfy.
PsgAssumption ==
  /\ Shapes \subseteq 0 .. 15 /\ Periods \subseteq Nat
  /\ {EnvRate, SampleRate, Half, MaxSteps} \subseteq Nat \ {0}

VARIABLES
  shape, envPeriod,           \* env_shape, env_period
  step, envCounter, holding,  \* env_step, env_counter, env_holding
  volume,                     \* env_volume
  callback,                   \* "idle", counting the envelope of a sample, or disturbed in that
  asked,                      \* ghost: steps since the shape was written, -1 before the next sample
  raced                       \* ghost: the shape was written while the callback counted

envelope == <<shape, envPeriod, step, envCounter, holding, volume, asked, raced>>
vars     == <<envelope, callback>>

Bit(n, b) == (n \div b) % 2 = 1
Threshold(period) == (IF period = 0 THEN 1 ELSE period) * SampleRate

-----------------------------------------------------------------------------
\* envelope_volume; attack, alternate, hold and continue are the bits of the shape.
Volume(sh, s) ==
  LET up   == s % Half
      ramp == IF Bit(sh, 4) THEN up ELSE Half - 1 - up
      late == s >= Half
  IN  CASE ~Bit(sh, 8)        -> IF late THEN 0 ELSE ramp
        [] Bit(sh, 8) /\ Bit(sh, 1) -> IF ~late THEN ramp
                                 ELSE IF Bit(sh, 4) # Bit(sh, 2) THEN Half - 1 ELSE 0
        [] OTHER              -> IF Bit(sh, 2) /\ late THEN Half - 1 - ramp ELSE ramp

\* The end of a cycle: shapes 0 to 7 stay on the last step, the others start over,
\* and those with the hold bit stop there.
NextStep(sh, s) == IF s + 1 < 2 * Half THEN s + 1 ELSE IF Bit(sh, 8) THEN 0 ELSE s
Stops(sh, s) == s + 1 = 2 * Half /\ (~Bit(sh, 8) \/ Bit(sh, 1))

\* n times the body of the envelope's while loop.
Counted(n) ==
  LET after[k \in 0..n] ==
        IF k = 0 THEN [step |-> step, holding |-> holding]
        ELSE [step    |-> NextStep(shape, after[k - 1].step),
              holding |-> after[k - 1].holding \/ Stops(shape, after[k - 1].step)]
  IN  after[n]

-----------------------------------------------------------------------------
\* ay_init
Init ==
  /\ shape = 0 /\ envPeriod = 0 /\ step = 0 /\ envCounter = 0 /\ holding = FALSE /\ volume = 0
  /\ callback = "idle" /\ asked = -1 /\ raced = FALSE

(* ay_write_data *)

Disturb == callback' = IF callback = "idle" THEN "idle" ELSE "disturbed"

WriteShapeKeepsStep(sh) ==  \* faulty: the cycle goes on where the old shape was
  /\ shape' = sh /\ envCounter' = 0 /\ holding' = FALSE
  /\ asked' = -1 /\ raced' = (callback # "idle") /\ Disturb
  /\ UNCHANGED <<envPeriod, step, volume>>
WriteShape(sh) ==
  /\ shape' = sh /\ step' = 0 /\ envCounter' = 0 /\ holding' = FALSE
  /\ asked' = -1 /\ raced' = (callback # "idle") /\ Disturb
  /\ UNCHANGED <<envPeriod, volume>>

\* A period written under the callback takes effect at the next sample; with an
\* unoptimised build a period of 0 may be read twice, which is not modelled.
WriteEnvPeriod(p) ==
  /\ callback = "idle" /\ envPeriod' = p
  /\ UNCHANGED <<shape, step, envCounter, holding, volume, asked, raced, callback>>

(* ay_generate, one sample *)

Sample ==
  /\ callback = "idle" /\ asked < MaxSteps /\ callback' = "counting"
  /\ UNCHANGED envelope

\* The envelope is counted on from what the callback read when it began, ...
EnvelopeTurns ==
  /\ callback = "counting" /\ envPeriod # 0 /\ ~holding
  /\ LET sum == envCounter + EnvRate
         n   == sum \div Threshold(envPeriod)
         c   == Counted(n)
     IN  /\ envCounter' = sum % Threshold(envPeriod)
         /\ step' = c.step /\ holding' = c.holding
         /\ volume' = Volume(shape, c.step)
         /\ asked' = (IF asked < 0 THEN 0 ELSE asked) + n
  /\ callback' = "idle"
  /\ UNCHANGED <<shape, envPeriod, raced>>

\* ... which, with a new shape written meanwhile, puts the old count back.
EnvelopeRaces ==
  /\ callback = "disturbed"
  /\ step' \in 0..2 * Half - 1 /\ envCounter' \in 0..Threshold(envPeriod) - 1
  /\ holding' \in BOOLEAN /\ volume' = Volume(shape, step')
  /\ asked' = 0 /\ callback' = "idle"
  /\ UNCHANGED <<shape, envPeriod, raced>>

EnvelopeRests ==
  /\ callback = "counting" /\ (envPeriod = 0 \/ holding)
  /\ volume' = Volume(shape, step)
  /\ asked' = IF asked < 0 THEN 0 ELSE asked
  /\ callback' = "idle"
  /\ UNCHANGED <<shape, envPeriod, step, envCounter, holding, raced>>

Next ==
  \/ \E sh \in Shapes : WriteShape(sh)
  \/ \E p \in Periods : WriteEnvPeriod(p)
  \/ Sample \/ EnvelopeTurns \/ EnvelopeRaces \/ EnvelopeRests

Spec == Init /\ [][Next]_vars

-----------------------------------------------------------------------------
(* Properties *)

\* The datasheet's envelope, n steps after the shape was written.
Datasheet(sh, n) ==
  LET half == n \div Half
      up   == n % Half
      ramp(rising) == IF rising THEN up ELSE Half - 1 - up
  IN  CASE half = 0     -> ramp(Bit(sh, 4))
        [] ~Bit(sh, 8) /\ half > 0 -> 0
        [] Bit(sh, 8) /\ Bit(sh, 1) /\ half > 0 -> IF Bit(sh, 4) # Bit(sh, 2) THEN Half - 1 ELSE 0
        [] OTHER        -> ramp(Bit(sh, 4) # (Bit(sh, 2) /\ half % 2 = 1))

\* The volume follows the shape last written, step by step and for ever after
\* ("decay then hold at 0", "attack, hold at 15": tests/unit/test_audio.c), whatever
\* the periods written meanwhile, unless that write raced with the callback.
EnvelopeRight == (callback = "idle" /\ asked >= 0 /\ ~raced) => volume = Datasheet(shape, asked)
=============================================================================
