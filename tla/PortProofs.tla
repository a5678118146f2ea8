----------------------------- MODULE PortProofs -----------------------------
(* What hangs on the ports of the VIA, as the parts of MCDevices the runs check: *)
(* the envelope of the sound chip, for every rate and period; the typing of      *)
(* texts, for every set of keys and of texts that can be read off them; and the  *)
(* plotter, for every set of letters and whatever is printed.                    *)
EXTENDS MCDevices, TLAPS, SequenceTheorems, FiniteSetTheorems, WellFoundedInduction

-----------------------------------------------------------------------------
(* The sound chip *)

\* Induction over the numbers, for a set in place of a predicate.
LEMMA SetInduction ==
  ASSUME NEW S, 0 \in S, \A n \in Nat : n \in S => n + 1 \in S
  PROVE  Nat \subseteq S
<1>. SUFFICES ASSUME NEW bad \in Nat, bad \notin S PROVE FALSE
  OBVIOUS
<1>. DEFINE T == {0..n : n \in Nat \ S}
<1>1. T \subseteq FiniteSubsetsOf(Nat)
  <2>. SUFFICES ASSUME NEW n \in Nat PROVE 0..n \in FiniteSubsetsOf(Nat)
    OBVIOUS
  <2>. QED BY FS_Interval DEF FiniteSubsetsOf
<1>2. T # {}
  OBVIOUS
<1>3. PICK x \in T : \A y \in T : ~(<<y, x>> \in StrictSubsetOrdering(Nat))
  <2>. HIDE DEF T
  <2>. QED BY <1>1, <1>2, FS_StrictSubsetOrderingWellFounded, WFMin, Zenon
<1>4. PICK m \in Nat \ S : x = 0..m
  BY <1>3
<1>5. m # 0
  BY <1>4
<1>6. m - 1 \in Nat
  BY <1>4, <1>5
<1>7. m - 1 \notin S
  BY <1>4, <1>6
<1>8. 0..m - 1 \in T
  BY <1>6, <1>7
<1>9. <<0..m - 1, 0..m>> \in StrictSubsetOrdering(Nat)
  <2>1. 0..m - 1 \in SUBSET Nat /\ 0..m \in SUBSET Nat
    BY <1>4
  <2>2. 0..m - 1 \subseteq 0..m
    BY <1>4
  <2>3. m \in 0..m /\ m \notin 0..m - 1
    BY <1>4
  <2>. QED BY <2>1, <2>2, <2>3 DEF StrictSubsetOrdering
<1>. QED BY <1>3, <1>4, <1>8, <1>9


\* The envelope of ay_generate in closed form: the step and the end of the envelope n ticks
\* after its shape was written, for a shape that runs on and for one that stops.
StepAt(n) == IF Sound!Bit(shape, 8) THEN n % (2 * Half) ELSE IF n < 2 * Half THEN n ELSE 2 * Half - 1
HoldsAt(n) == ~Sound!Bit(shape, 8) /\ n >= 2 * Half
EnvelopeAt(n) == [step |-> StepAt(n), holding |-> HoldsAt(n)]
Elapsed == IF asked < 0 THEN 0 ELSE asked

\* While no write came between the parts of a tick, the step is that of the ticks
\* asked for since the shape was written, and the volume is the step's.
EnvelopeInv ==
  /\ shape \in Shapes \cup {0} /\ envPeriod \in Nat /\ envCounter \in Nat /\ asked \in Nat \cup {-1}
  /\ callback = "disturbed" => raced
  /\ ~raced => step = StepAt(Elapsed) /\ holding = HoldsAt(Elapsed)
  /\ (callback = "idle" /\ asked >= 0) => volume = Sound!Volume(shape, step)

\* What a quotient and a remainder are, and that there are no others.
LEMMA Division ==
  ASSUME NEW L \in Nat \ {0}, NEW x \in Nat
  PROVE  x \div L \in Nat /\ (x % L) \in 0..L - 1 /\ x = L * (x \div L) + (x % L)
OBVIOUS
LEMMA Divided ==
  ASSUME NEW L \in Nat \ {0}, NEW x \in Nat, NEW q \in Nat, NEW r \in 0..L - 1, x = L * q + r
  PROVE  x \div L = q /\ (x % L) = r
OBVIOUS

\* A remainder counts up and turns over.
LEMMA ModStep ==
  ASSUME NEW L \in Nat \ {0}, NEW n \in Nat
  PROVE  ((n + 1) % L) = IF (n % L) + 1 < L THEN (n % L) + 1 ELSE 0
<1>. DEFINE q == n \div L
            r == n % L
<1>1. q \in Nat /\ r \in 0..L - 1 /\ n = L * q + r
  BY Division
<1>. SUFFICES ((n + 1) % L) = IF r + 1 < L THEN r + 1 ELSE 0
  OBVIOUS
<1>. HIDE DEF q, r
<1>2. CASE r + 1 < L
  <2>1. n + 1 = L * q + (r + 1) /\ r + 1 \in 0..L - 1 /\ n + 1 \in Nat
    BY <1>1, <1>2
  <2>2. ((n + 1) % L) = r + 1
    BY <1>1, <2>1, Divided
  <2>. QED BY <1>2, <2>2
<1>3. CASE ~(r + 1 < L)
  <2>1. n + 1 = L * q + L /\ L * q + L = L * (q + 1) + 0 /\ q + 1 \in Nat /\ 0 \in 0..L - 1 /\ n + 1 \in Nat
    BY <1>1, <1>3
  <2>2. ((n + 1) % L) = 0
    BY <2>1, Divided
  <2>. QED BY <1>3, <2>2
<1>. QED BY <1>2, <1>3

\* The closed form takes the step of the code, tick by tick: of the shapes that run
\* on, none holds.
LEMMA NextEnvelope ==
  ASSUME Half \in Nat \ {0}, ~(Sound!Bit(shape, 8) /\ Sound!Bit(shape, 1)), NEW n \in Nat
  PROVE  EnvelopeAt(n + 1) =
           [step    |-> Sound!NextStep(shape, EnvelopeAt(n).step),
            holding |-> EnvelopeAt(n).holding \/ Sound!Stops(shape, EnvelopeAt(n).step)]
<1>1. EnvelopeAt(n).step = StepAt(n) /\ EnvelopeAt(n).holding = HoldsAt(n)
  BY DEF EnvelopeAt
<1>2. StepAt(n + 1) = Sound!NextStep(shape, StepAt(n))
  <2>1. CASE Sound!Bit(shape, 8)
    <3>1. 2 * Half \in Nat \ {0}
      OBVIOUS
    <3>. QED BY <2>1, <3>1, ModStep DEF StepAt, Sound!NextStep
  <2>2. CASE ~Sound!Bit(shape, 8)
    BY <2>2 DEF StepAt, Sound!NextStep
  <2>. QED BY <2>1, <2>2
<1>3. HoldsAt(n + 1) = (HoldsAt(n) \/ Sound!Stops(shape, StepAt(n)))
  <2>1. CASE Sound!Bit(shape, 8)
    BY <2>1 DEF HoldsAt, Sound!Stops
  <2>2. CASE ~Sound!Bit(shape, 8)
    <3>1. (n + 1 >= 2 * Half) <=> (n >= 2 * Half \/ StepAt(n) + 1 = 2 * Half)
      BY <2>2 DEF StepAt
    <3>. QED BY <2>2, <3>1, Zenon DEF HoldsAt, Sound!Stops
  <2>. QED BY <2>1, <2>2
<1>. QED BY <1>1, <1>2, <1>3, Zenon DEF EnvelopeAt

\* f is the count of ay_generate over n ticks.
Counts(f, n) ==
  f = [k \in 0..n |->
        IF k = 0 THEN [step |-> step, holding |-> holding]
        ELSE [step    |-> Sound!NextStep(shape, f[k - 1].step),
              holding |-> f[k - 1].holding \/ Sound!Stops(shape, f[k - 1].step)]]

\* Counting n ticks at once goes from the closed form at m to that at m + n.
LEMMA CountedOn ==
  ASSUME Half \in Nat \ {0}, ~(Sound!Bit(shape, 8) /\ Sound!Bit(shape, 1)), NEW m \in Nat, NEW n \in Nat,
         step = StepAt(m), holding = HoldsAt(m)
  PROVE  Sound!Counted(n) = EnvelopeAt(m + n)
<1>. DEFINE g == [k \in 0..n |-> EnvelopeAt(m + k)]
<1>1. EnvelopeAt(m) = [step |-> step, holding |-> holding]
  BY Zenon DEF EnvelopeAt
<1>2. Counts(g, n)
  <2>. DEFINE h == [k \in 0..n |->
                     IF k = 0 THEN [step |-> step, holding |-> holding]
                     ELSE [step    |-> Sound!NextStep(shape, g[k - 1].step),
                           holding |-> g[k - 1].holding \/ Sound!Stops(shape, g[k - 1].step)]]
  <2>1. ASSUME NEW k \in 0..n PROVE g[k] = h[k]
    <3>1. CASE k = 0
      <4>1. m + k = m
        BY <3>1
      <4>2. g[k] = EnvelopeAt(m)
        BY <4>1
      <4>. QED BY <1>1, <3>1, <4>2
    <3>2. CASE k # 0
      <4>1. k - 1 \in 0..n /\ m + (k - 1) \in Nat /\ (m + (k - 1)) + 1 = m + k
        BY <3>2
      <4>2. g[k - 1] = EnvelopeAt(m + (k - 1)) /\ g[k] = EnvelopeAt((m + (k - 1)) + 1)
        BY <4>1
      <4>3. EnvelopeAt((m + (k - 1)) + 1) =
              [step    |-> Sound!NextStep(shape, EnvelopeAt(m + (k - 1)).step),
               holding |-> EnvelopeAt(m + (k - 1)).holding \/ Sound!Stops(shape, EnvelopeAt(m + (k - 1)).step)]
        BY <4>1, NextEnvelope, Zenon
      <4>4. h[k] = [step    |-> Sound!NextStep(shape, g[k - 1].step),
                    holding |-> g[k - 1].holding \/ Sound!Stops(shape, g[k - 1].step)]
        BY <3>2, Zenon
      <4>. HIDE DEF g, h
      <4>. QED BY <4>2, <4>3, <4>4, Zenon
    <3>. QED BY <3>1, <3>2
  <2>2. g = h
    <3>1. /\ g = [k \in 0..n |-> g[k]] /\ DOMAIN g = 0..n
          /\ h = [k \in 0..n |-> h[k]] /\ DOMAIN h = 0..n
      BY Zenon
    <3>. HIDE DEF g, h
    <3>. QED BY <2>1, <3>1, Zenon
  <2>. HIDE DEF g
  <2>. QED BY <2>2, Zenon DEF Counts
<1>3. ASSUME NEW f, Counts(f, n) PROVE f[n] = EnvelopeAt(m + n)
  <2>. DEFINE S == {k \in Nat : k <= n => f[k] = EnvelopeAt(m + k)}
  <2>1. 0 \in S
    <3>1. f[0] = [step |-> step, holding |-> holding]
      <4>1. 0 \in 0..n
        OBVIOUS
      <4>. QED BY <1>3, <4>1, Zenon DEF Counts
    <3>2. m + 0 = m
      OBVIOUS
    <3>. QED BY <1>1, <3>1, <3>2
  <2>2. ASSUME NEW k \in Nat, k \in S PROVE k + 1 \in S
    <3>. SUFFICES ASSUME k + 1 <= n PROVE f[k + 1] = EnvelopeAt(m + (k + 1))
      OBVIOUS
    <3>1. k + 1 \in 0..n /\ k + 1 # 0 /\ (k + 1) - 1 = k /\ k <= n /\ m + k \in Nat /\ (m + k) + 1 = m + (k + 1)
      OBVIOUS
    <3>2. f[k] = EnvelopeAt(m + k)
      BY <2>2, <3>1
    <3>3. f[k + 1] = [step    |-> Sound!NextStep(shape, f[(k + 1) - 1].step),
                      holding |-> f[(k + 1) - 1].holding \/ Sound!Stops(shape, f[(k + 1) - 1].step)]
      BY <1>3, <3>1, Zenon DEF Counts
    <3>4. EnvelopeAt((m + k) + 1) =
            [step    |-> Sound!NextStep(shape, EnvelopeAt(m + k).step),
             holding |-> EnvelopeAt(m + k).holding \/ Sound!Stops(shape, EnvelopeAt(m + k).step)]
      BY <3>1, NextEnvelope, Zenon
    <3>. QED BY <3>1, <3>2, <3>3, <3>4, Zenon
  <2>. HIDE DEF S
  <2>3. Nat \subseteq S
    BY <2>1, <2>2, SetInduction, Zenon
  <2>. QED BY <2>3 DEF S
<1>4. PICK f : Counts(f, n) /\ Sound!Counted(n) = f[n]
  <2>1. \E f : Counts(f, n)
    BY <1>2, Zenon
  <2>. QED BY <2>1, Zenon DEF Counts, Sound!Counted
<1>. QED BY <1>3, <1>4, Zenon

\* A cycle of two halves: the step within the half, and which half it is.
LEMMA HalfCycles ==
  ASSUME NEW L \in Nat \ {0}, NEW n \in Nat
  PROVE  /\ ((n % (2 * L)) % L) = (n % L)
         /\ (n % (2 * L)) >= L <=> ((n \div L) % 2) = 1
<1>. DEFINE h == n \div L
            r == n % L
            q == h \div 2
            b == h % 2
<1>1. h \in Nat /\ r \in 0..L - 1 /\ n = L * h + r
  BY Division
<1>2. q \in Nat /\ b \in 0..1 /\ h = 2 * q + b
  BY <1>1, Division
<1>. SUFFICES ((n % (2 * L)) % L) = r /\ ((n % (2 * L)) >= L <=> b = 1)
  OBVIOUS
<1>. HIDE DEF h, r, q, b
<1>3. (n % (2 * L)) = L * b + r
  <2>1. L * b + r \in 0..2 * L - 1
    <3>1. b = 0 \/ b = 1
      BY <1>2
    <3>2. L * 0 = 0 /\ L * 1 = L
      OBVIOUS
    <3>. QED BY <1>1, <3>1, <3>2
  <2>2. n = (2 * L) * q + (L * b + r)
    <3>1. L * (2 * q + b) = (2 * L) * q + L * b
      BY <1>2
    <3>2. n = ((2 * L) * q + L * b) + r
      BY <1>1, <1>2, <3>1
    <3>3. (2 * L) * q \in Nat /\ L * b \in Nat
      BY <1>2
    <3>. QED BY <1>1, <3>2, <3>3
  <2>. DEFINE M == 2 * L
              t == L * b + r
  <2>3. M \in Nat \ {0} /\ t \in 0..M - 1 /\ n = M * q + t
    BY <2>1, <2>2
  <2>. SUFFICES (n % M) = t
    OBVIOUS
  <2>. HIDE DEF M, t
  <2>. QED BY <1>2, <2>3, Divided
<1>4. CASE b = 0
  <2>1. L * b + r = r /\ L * 0 = 0
    BY <1>1, <1>4
  <2>2. r = L * 0 + r /\ r \in Nat
    BY <1>1, <2>1
  <2>3. (r % L) = r
    BY <1>1, <2>2, Divided
  <2>. QED BY <1>1, <1>3, <1>4, <2>1, <2>3
<1>5. CASE b = 1
  <2>1. L * b + r = L + r /\ L * 1 = L
    BY <1>1, <1>5
  <2>2. L + r = L * 1 + r /\ L + r \in Nat
    BY <1>1, <2>1
  <2>3. ((L + r) % L) = r
    BY <1>1, <2>2, Divided
  <2>. QED BY <1>1, <1>3, <1>5, <2>1, <2>3
<1>. QED BY <1>2, <1>4, <1>5

\* The volume at a step is the data sheet's for the steps that led there.
LEMMA VolumeAt ==
  ASSUME Half \in Nat \ {0}, ~(Sound!Bit(shape, 8) /\ Sound!Bit(shape, 1)), NEW n \in Nat
  PROVE  Sound!Volume(shape, StepAt(n)) = Sound!Datasheet(shape, n)
<1>. DEFINE s == StepAt(n)
            half == n \div Half
            up == n % Half
            A == Sound!Bit(shape, 4)
            B == Sound!Bit(shape, 2)
            odd == half % 2 = 1
<1>0. half \in Nat /\ up \in 0..Half - 1 /\ n = Half * half + up
  BY Division
<1>a. ~odd \/ odd
  OBVIOUS
<1>1. CASE Sound!Bit(shape, 8)
  <2>1. (s % Half) = up /\ (s >= Half <=> odd)
    BY <1>1, HalfCycles DEF StepAt
  <2>2. half = 0 => ~odd
    OBVIOUS
  <2>3. Sound!Volume(shape, s) =
          IF B /\ odd THEN Half - 1 - (IF A THEN up ELSE Half - 1 - up) ELSE IF A THEN up ELSE Half - 1 - up
    <3>. HIDE DEF s, up, odd
    <3>. QED BY <1>1, <2>1 DEF Sound!Volume
  <2>4. Sound!Datasheet(shape, n) = IF half = 0 THEN (IF A THEN up ELSE Half - 1 - up)
                                    ELSE (IF A # (B /\ odd) THEN up ELSE Half - 1 - up)
    BY <1>1, Zenon DEF Sound!Datasheet
  <2>. SUFFICES Sound!Volume(shape, s) = Sound!Datasheet(shape, n)
    OBVIOUS
  <2>b. A = TRUE \/ A = FALSE
    BY DEF Sound!Bit
  <2>. HIDE DEF s, half, up, A, B, odd
  <2>5. CASE A /\ B /\ odd
    BY <1>0, <2>2, <2>3, <2>4, <2>5
  <2>6. CASE A /\ ~(B /\ odd)
    BY <1>0, <2>2, <2>3, <2>4, <2>6
  <2>7. CASE ~A /\ B /\ odd
    <3>1. A # (B /\ odd)
      BY <2>b, <2>7, Zenon
    <3>. QED BY <1>0, <2>2, <2>3, <2>4, <2>7, <3>1
  <2>8. CASE ~A /\ ~(B /\ odd)
    <3>1. ~(A # (B /\ odd))
      BY <2>b, <2>8, Zenon
    <3>. QED BY <1>0, <2>2, <2>3, <2>4, <2>8, <3>1
  <2>. QED BY <2>5, <2>6, <2>7, <2>8
<1>2. CASE ~Sound!Bit(shape, 8)
  <2>1. Sound!Volume(shape, s) = IF s >= Half THEN 0 ELSE IF A THEN s % Half ELSE Half - 1 - (s % Half)
    BY <1>2 DEF Sound!Volume
  <2>2. Sound!Datasheet(shape, n) = IF half = 0 THEN (IF A THEN up ELSE Half - 1 - up) ELSE 0
    <3>1. half > 0 <=> half # 0
      BY <1>0
    <3>. QED BY <1>2, <3>1 DEF Sound!Datasheet
  <2>3. half = 0 => n = up /\ n < Half /\ s = n
    BY <1>0, <1>2 DEF StepAt
  <2>4. half # 0 => s >= Half
    <3>. SUFFICES ASSUME half # 0 PROVE s >= Half
      OBVIOUS
    <3>1. n >= Half
      <4>1. Half * half >= Half
        <5>. HIDE DEF half
        <5>1. half \in Nat \ {0}
          BY <1>0
        <5>. QED BY <5>1
      <4>2. Half * half \in Nat
        BY <1>0
      <4>. HIDE DEF half, up
      <4>. QED BY <1>0, <4>1, <4>2
    <3>. QED BY <1>2, <3>1 DEF StepAt
  <2>5. half = 0 => (s % Half) = up /\ ~(s >= Half)
    BY <2>3
  <2>. HIDE DEF s, half, up, A
  <2>. QED BY <2>1, <2>2, <2>4, <2>5 DEF s
<1>. QED BY <1>1, <1>2

\* No shape of these runs on and holds: the others (9, 11, 13, 15) are where the code
\* and the data sheet part, as the psg_hold run shows.
EnvelopesRun == \A sh \in Shapes : ~(Sound!Bit(sh, 8) /\ Sound!Bit(sh, 1))

LEMMA EnvelopeStarts == ASSUME UnitsAssumption, Sound!Init PROVE EnvelopeInv
<1>1. Half \in Nat \ {0}
  BY DEF UnitsAssumption, Sound!PsgAssumption
<1>2. ~Sound!Bit(0, 8)
  BY DEF Sound!Bit
<1>3. /\ shape = 0 /\ envPeriod = 0 /\ step = 0 /\ envCounter = 0 /\ holding = FALSE
      /\ callback = "idle" /\ asked = -1
  BY DEF Sound!Init
<1>4. Elapsed = 0
  BY <1>3 DEF Elapsed
<1>5. step = StepAt(Elapsed) /\ holding = HoldsAt(Elapsed)
  <2>1. StepAt(0) = 0
    BY <1>1, <1>2, <1>3 DEF StepAt
  <2>2. HoldsAt(0) = FALSE
    BY <1>1 DEF HoldsAt
  <2>. QED BY <1>3, <1>4, <2>1, <2>2
<1>. QED BY <1>3, <1>5 DEF EnvelopeInv

LEMMA EnvelopeIdles == ASSUME EnvelopeInv, UNCHANGED soundVars PROVE EnvelopeInv'
<1>1. UNCHANGED <<shape, envPeriod, step, envCounter, holding, volume, callback, asked, raced>>
  BY DEF soundVars
<1>. QED BY <1>1 DEF EnvelopeInv, Elapsed, StepAt, HoldsAt

LEMMA NoHold == ASSUME EnvelopesRun, EnvelopeInv PROVE ~(Sound!Bit(shape, 8) /\ Sound!Bit(shape, 1))
<1>1. ~Sound!Bit(0, 8)
  BY DEF Sound!Bit
<1>. QED BY <1>1 DEF EnvelopesRun, EnvelopeInv

\* The count of a sample, however many ticks fall in it, keeps the closed form.
LEMMA EnvelopeCounts ==
  ASSUME UnitsAssumption, EnvelopesRun, EnvelopeInv, Sound!EnvelopeTurns
  PROVE  EnvelopeInv'
<1>. DEFINE threshold == Sound!Threshold(envPeriod)
            n == (envCounter + EnvRate) \div threshold
            c == Sound!Counted(n)
<1>0. Half \in Nat \ {0} /\ EnvRate \in Nat /\ SampleRate \in Nat \ {0}
  BY DEF UnitsAssumption, Sound!PsgAssumption
<1>1. /\ envCounter' = ((envCounter + EnvRate) % threshold)
      /\ step' = c.step /\ holding' = c.holding /\ volume' = Sound!Volume(shape, c.step)
      /\ asked' = Elapsed + n /\ callback = "counting" /\ callback' = "idle"
      /\ UNCHANGED <<shape, envPeriod, raced>> /\ envPeriod # 0 /\ ~holding
  BY Zenon DEF Sound!EnvelopeTurns, Elapsed
<1>2. threshold \in Nat \ {0}
  <2>1. envPeriod \in Nat \ {0}
    BY <1>1 DEF EnvelopeInv
  <2>2. threshold = envPeriod * SampleRate
    BY <2>1 DEF Sound!Threshold
  <2>. HIDE DEF threshold
  <2>. QED BY <1>0, <2>1, <2>2
<1>3. envCounter + EnvRate \in Nat /\ Elapsed \in Nat
  BY <1>0 DEF EnvelopeInv, Elapsed
<1>4. n \in Nat /\ envCounter' \in Nat
  <2>. HIDE DEF threshold
  <2>. QED BY <1>1, <1>2, <1>3, Division
<1>5. asked' \in Nat /\ Elapsed' = asked' /\ Elapsed + n \in Nat
  <2>. HIDE DEF n
  <2>. QED BY <1>1, <1>3, <1>4 DEF Elapsed
<1>. HIDE DEF c, n, threshold
<1>6. shape' \in Shapes \cup {0} /\ envPeriod' \in Nat
  BY <1>1 DEF EnvelopeInv
<1>7. CASE ~raced
  <2>1. c = EnvelopeAt(Elapsed + n)
    BY <1>0, <1>3, <1>4, <1>7, NoHold, CountedOn, Zenon DEF EnvelopeInv, c
  <2>2. c.step = StepAt(Elapsed + n) /\ c.holding = HoldsAt(Elapsed + n)
    BY <2>1 DEF EnvelopeAt
  <2>3. HoldsAt(Elapsed + n) \in BOOLEAN
    BY DEF HoldsAt
  <2>4. step' = StepAt(Elapsed)' /\ holding' = HoldsAt(Elapsed)'
    BY <1>1, <1>5, <2>2 DEF StepAt, HoldsAt
  <2>. QED BY <1>1, <1>4, <1>5, <1>6, <2>2, <2>3, <2>4 DEF EnvelopeInv
<1>8. CASE raced
  BY <1>1, <1>4, <1>5, <1>6, <1>8 DEF EnvelopeInv
<1>. QED BY <1>7, <1>8

LEMMA EnvelopeKeeps ==
  ASSUME UnitsAssumption, EnvelopesRun, EnvelopeInv, Sound!Next
  PROVE  EnvelopeInv'
<1>0. Half \in Nat \ {0} /\ SampleRate \in Nat /\ Periods \subseteq Nat
  BY DEF UnitsAssumption, Sound!PsgAssumption
<1>1. ASSUME NEW sh \in Shapes, Sound!WriteShape(sh) PROVE EnvelopeInv'
  <2>1. /\ shape' = sh /\ step' = 0 /\ envCounter' = 0 /\ holding' = FALSE /\ asked' = -1
        /\ raced' = (callback # "idle") /\ callback' = IF callback = "idle" THEN "idle" ELSE "disturbed"
        /\ UNCHANGED <<envPeriod, volume>>
    BY <1>1 DEF Sound!WriteShape, Sound!Disturb
  <2>2. Elapsed' = 0
    BY <2>1 DEF Elapsed
  <2>3. StepAt(0)' = 0 /\ HoldsAt(0)' = FALSE
    BY <1>0 DEF StepAt, HoldsAt
  <2>4. StepAt(Elapsed)' = 0 /\ HoldsAt(Elapsed)' = FALSE
    BY <1>0, <2>2 DEF StepAt, HoldsAt
  <2>5. step' = StepAt(Elapsed)' /\ holding' = HoldsAt(Elapsed)'
    BY <2>1, <2>4
  <2>6. callback' = "disturbed" => raced'
    BY <2>1
  <2>. QED BY <2>1, <2>5, <2>6 DEF EnvelopeInv
<1>2. ASSUME NEW p \in Periods, Sound!WriteEnvPeriod(p) PROVE EnvelopeInv'
  BY <1>0, <1>2 DEF Sound!WriteEnvPeriod, EnvelopeInv, Elapsed, StepAt, HoldsAt
<1>3. CASE Sound!Sample
  BY <1>3 DEF Sound!Sample, Sound!envelope, EnvelopeInv, Elapsed, StepAt, HoldsAt
<1>4. CASE Sound!EnvelopeTurns
  BY <1>4, EnvelopeCounts
<1>5. CASE Sound!EnvelopeRaces
  <2>1. /\ callback = "disturbed" /\ holding' \in BOOLEAN /\ volume' = Sound!Volume(shape, step')
        /\ envCounter' \in 0..Sound!Threshold(envPeriod) - 1
        /\ asked' = 0 /\ callback' = "idle" /\ UNCHANGED <<shape, envPeriod, raced>>
    BY <1>5 DEF Sound!EnvelopeRaces
  <2>2. envCounter' \in Nat
    <3>1. Sound!Threshold(envPeriod) \in Int
      BY <1>0 DEF Sound!Threshold, EnvelopeInv
    <3>. QED BY <2>1, <3>1
  <2>. QED BY <2>1, <2>2 DEF EnvelopeInv
<1>6. CASE Sound!EnvelopeRests
  <2>1. /\ volume' = Sound!Volume(shape, step) /\ asked' = Elapsed /\ callback' = "idle"
        /\ UNCHANGED <<shape, envPeriod, step, envCounter, holding, raced>>
    BY <1>6, Zenon DEF Sound!EnvelopeRests, Elapsed
  <2>2. Elapsed' = Elapsed /\ asked' \in Nat
    BY <2>1 DEF Elapsed, EnvelopeInv
  <2>3. StepAt(Elapsed)' = StepAt(Elapsed) /\ HoldsAt(Elapsed)' = HoldsAt(Elapsed)
    BY <2>1, <2>2 DEF StepAt, HoldsAt
  <2>. QED BY <2>1, <2>2, <2>3 DEF EnvelopeInv
<1>. QED BY <1>1, <1>2, <1>3, <1>4, <1>5, <1>6 DEF Sound!Next

LEMMA EnvelopeSounds == ASSUME UnitsAssumption, EnvelopesRun, EnvelopeInv PROVE Sound!EnvelopeRight
<1>1. Half \in Nat \ {0}
  BY DEF UnitsAssumption, Sound!PsgAssumption
<1>2. ASSUME callback = "idle", asked >= 0, ~raced PROVE volume = Sound!Datasheet(shape, asked)
  <2>1. volume = Sound!Volume(shape, StepAt(asked)) /\ asked \in Nat
    BY <1>2 DEF EnvelopeInv, Elapsed
  <2>. QED BY <1>1, <2>1, NoHold, VolumeAt
<1>. QED BY <1>2 DEF Sound!EnvelopeRight

-----------------------------------------------------------------------------
(* Texts that are typed *)

\* What is seen of the keys that come down in a frame: nothing of none, one of one.
LEMMA SetToSeqEmpty == Keys!SetToSeq({}) = <<>>
<1>1. Keys!Cardinality({}) = 0
  BY FS_EmptySet, Zenon DEF Keys!Cardinality, Cardinality
<1>2. Keys!SetToSeq({}) = CHOOSE f \in [1..0 -> {}] : Keys!IsInjective(f)
  BY <1>1 DEF Keys!SetToSeq
<1>3. \A f \in [1..0 -> {}] : f = <<>>
  OBVIOUS
<1>4. <<>> \in [1..0 -> {}] /\ Keys!IsInjective(<<>>)
  BY DEF Keys!IsInjective
<1>. QED BY <1>2, <1>3, <1>4

LEMMA SetToSeqOne == ASSUME NEW x PROVE Keys!SetToSeq({x}) = <<x>>
<1>1. Keys!Cardinality({x}) = 1
  BY FS_Singleton, Zenon DEF Keys!Cardinality, Cardinality
<1>2. Keys!SetToSeq({x}) = CHOOSE f \in [1..1 -> {x}] : Keys!IsInjective(f)
  BY <1>1 DEF Keys!SetToSeq
<1>3. \A f \in [1..1 -> {x}] : f = <<x>>
  OBVIOUS
<1>4. <<x>> \in [1..1 -> {x}] /\ Keys!IsInjective(<<x>>)
  BY DEF Keys!IsInjective
<1>. QED BY <1>2, <1>3, <1>4

\* f lists the keys that show the first 0, 1, ..., n characters of t; there is one
\* such list, for every n.
Spells(f, t, n) == f = [k \in 0..n |-> IF k = 0 THEN <<>> ELSE f[k - 1] \o Keys!KeyOf(t[k])]

LEMMA SpellsOne ==
  ASSUME NEW t, NEW n \in Nat, NEW f, Spells(f, t, n), NEW m \in Nat, NEW g, Spells(g, t, m)
  PROVE  \A k \in Nat : k <= n /\ k <= m => f[k] = g[k]
<1>. DEFINE S == {k \in Nat : k <= n /\ k <= m => f[k] = g[k]}
<1>1. 0 \in S
  <2>1. 0 \in 0..n /\ 0 \in 0..m
    OBVIOUS
  <2>2. f[0] = <<>> /\ g[0] = <<>>
    BY <2>1, Zenon DEF Spells
  <2>. QED BY <2>2
<1>2. ASSUME NEW k \in Nat, k \in S PROVE k + 1 \in S
  <2>. SUFFICES ASSUME k + 1 <= n, k + 1 <= m PROVE f[k + 1] = g[k + 1]
    OBVIOUS
  <2>1. k + 1 \in 0..n /\ k + 1 \in 0..m /\ k + 1 # 0 /\ (k + 1) - 1 = k /\ k <= n /\ k <= m
    OBVIOUS
  <2>2. f[k + 1] = f[(k + 1) - 1] \o Keys!KeyOf(t[k + 1]) /\ g[k + 1] = g[(k + 1) - 1] \o Keys!KeyOf(t[k + 1])
    BY <2>1, Zenon DEF Spells
  <2>3. f[k] = g[k]
    BY <1>2, <2>1
  <2>. QED BY <2>1, <2>2, <2>3, Zenon
<1>. HIDE DEF S
<1>3. Nat \subseteq S
  BY <1>1, <1>2, SetInduction, Zenon
<1>. QED BY <1>3 DEF S

LEMMA SpellsLonger ==
  ASSUME NEW t, NEW n \in Nat, NEW f, Spells(f, t, n)
  PROVE  \E g : Spells(g, t, n + 1)
<1>. DEFINE g == [k \in 0..n + 1 |-> IF k = n + 1 THEN f[n] \o Keys!KeyOf(t[n + 1]) ELSE f[k]]
            h == [k \in 0..n + 1 |-> IF k = 0 THEN <<>> ELSE g[k - 1] \o Keys!KeyOf(t[k])]
<1>1. ASSUME NEW k \in 0..n + 1 PROVE g[k] = h[k]
  <2>1. CASE k = n + 1
    <3>1. k # 0 /\ k - 1 = n /\ n \in 0..n + 1 /\ n # n + 1
      BY <2>1
    <3>2. g[k] = f[n] \o Keys!KeyOf(t[n + 1]) /\ g[n] = f[n]
      BY <2>1, <3>1, Zenon
    <3>3. h[k] = g[k - 1] \o Keys!KeyOf(t[k])
      BY <3>1, Zenon
    <3>. HIDE DEF g, h
    <3>. QED BY <2>1, <3>1, <3>2, <3>3, Zenon
  <2>2. CASE k # n + 1
    <3>1. k \in 0..n /\ g[k] = f[k]
      BY <2>2
    <3>2. f[k] = IF k = 0 THEN <<>> ELSE f[k - 1] \o Keys!KeyOf(t[k])
      BY <3>1, Zenon DEF Spells
    <3>3. k # 0 => k - 1 \in 0..n + 1 /\ k - 1 # n + 1
      BY <3>1
    <3>4. k # 0 => g[k - 1] = f[k - 1]
      BY <3>3
    <3>5. h[k] = IF k = 0 THEN <<>> ELSE g[k - 1] \o Keys!KeyOf(t[k])
      BY Zenon
    <3>. HIDE DEF g, h
    <3>. QED BY <3>1, <3>2, <3>4, <3>5
  <2>. QED BY <2>1, <2>2
<1>2. g = h
  BY <1>1
<1>. HIDE DEF g
<1>3. Spells(g, t, n + 1)
  BY <1>2, Zenon DEF Spells
<1>. QED BY <1>3

LEMMA SpellsExist == ASSUME NEW t PROVE \A n \in Nat : \E f : Spells(f, t, n)
<1>. DEFINE S == {n \in Nat : \E f : Spells(f, t, n)}
<1>1. 0 \in S
  <2>. DEFINE f == [k \in 0..0 |-> <<>>]
  <2>1. f = [k \in 0..0 |-> IF k = 0 THEN <<>> ELSE f[k - 1] \o Keys!KeyOf(t[k])]
    OBVIOUS
  <2>. HIDE DEF f
  <2>2. Spells(f, t, 0)
    BY <2>1, Zenon DEF Spells
  <2>. QED BY <2>2
<1>2. ASSUME NEW n \in Nat, n \in S PROVE n + 1 \in S
  BY <1>2, SpellsLonger
<1>. HIDE DEF S
<1>3. Nat \subseteq S
  BY <1>1, <1>2, SetInduction, Zenon
<1>. QED BY <1>3 DEF S

\* What is to be seen of a text grows by a character's key.
LEMMA KeysGrow ==
  ASSUME NEW t
  PROVE  /\ Keys!KeysOf(t, 0) = <<>>
         /\ \A n \in Nat : Keys!KeysOf(t, n + 1) = Keys!KeysOf(t, n) \o Keys!KeyOf(t[n + 1])
<1>1. ASSUME NEW n \in Nat PROVE \E f : Spells(f, t, n) /\ Keys!KeysOf(t, n) = f[n]
  <2>1. \E f : Spells(f, t, n)
    BY SpellsExist
  <2>. QED BY <2>1, Zenon DEF Spells, Keys!KeysOf
<1>2. Keys!KeysOf(t, 0) = <<>>
  <2>1. PICK f : Spells(f, t, 0) /\ Keys!KeysOf(t, 0) = f[0]
    BY <1>1
  <2>2. 0 \in 0..0
    OBVIOUS
  <2>. QED BY <2>1, <2>2, Zenon DEF Spells
<1>3. ASSUME NEW n \in Nat PROVE Keys!KeysOf(t, n + 1) = Keys!KeysOf(t, n) \o Keys!KeyOf(t[n + 1])
  <2>1. PICK f : Spells(f, t, n) /\ Keys!KeysOf(t, n) = f[n]
    BY <1>1
  <2>2. PICK g : Spells(g, t, n + 1) /\ Keys!KeysOf(t, n + 1) = g[n + 1]
    BY <1>1
  <2>3. n + 1 \in 0..n + 1 /\ n + 1 # 0 /\ (n + 1) - 1 = n /\ n <= n + 1 /\ n + 1 \in Nat /\ n <= n
    OBVIOUS
  <2>4. g[n + 1] = g[(n + 1) - 1] \o Keys!KeyOf(t[n + 1])
    BY <2>2, <2>3, Zenon DEF Spells
  <2>5. f[n] = g[n]
    BY <2>1, <2>2, <2>3, SpellsOne
  <2>. QED BY <2>1, <2>2, <2>3, <2>4, <2>5, Zenon
<1>. QED BY <1>2, <1>3

\* What a text is made of, and the keys that show it.
Typed == DOMAIN Chars \cup {"RET", "PAUSE"}
TypedKeys == {Chars[c].key : c \in DOMAIN Chars} \cup {"RETURN"}

\* Two characters of which the second is seen after the first: one is a pause, or
\* they are the same one, for which the first is released, or have different keys.
Apart(c, d) ==
  \/ "PAUSE" \in {c, d}
  \/ c = d /\ c # "RET"
  \/ Keys!KeyOf(c) # Keys!KeyOf(d)
\* The texts that can be read off the keys one by one: in the others, with two ends of
\* line or "aA" in them, the code leaves the key down between the two characters.
Typeable(t) == t \in Seq(Typed) /\ \A i \in 1..Len(t) - 1 : Apart(t[i], t[i + 1])
TextsTypeable ==
  /\ \A s \in Setups : Typeable(s.text)
  /\ \A c \in DOMAIN Chars : Chars[c].key # "SHIFT"

\* The matrix after a frame that typed c, until it is released.
Down(c) ==
  CASE c = "RET"   -> matrix = {"RETURN"}
    [] c = "PAUSE" -> matrix = {}
    [] OTHER       -> matrix = Keys!CharKeys(c) /\ lastChar = c
\* What was seen is the text up to the index, and until the keys are released what is
\* down is the last character: with it the next one is seen to come down.
TypingInv ==
  /\ Typeable(text) /\ index \in 1..Len(text) + 1 /\ seen \in Seq(TypedKeys)
  /\ ~mixed => seen = Keys!KeysOf(text, index - 1)
  /\ (~mixed /\ ~done) => (matrix = {} \/ (index > 1 /\ Down(text[index - 1])))

LEMMA TypingStarts == ASSUME TextsTypeable, Keys!Init PROVE TypingInv
<1>1. /\ \E s \in Setups : text = s.text
      /\ matrix = {} /\ index = 1 /\ seen = <<>>
  BY DEF Keys!Init
<1>2. Typeable(text)
  BY <1>1 DEF TextsTypeable
<1>3. index \in 1..Len(text) + 1
  BY <1>1, <1>2, LenProperties DEF Typeable
<1>4. seen = Keys!KeysOf(text, index - 1)
  <2>1. index - 1 = 0
    BY <1>1
  <2>. QED BY <1>1, <2>1, KeysGrow
<1>. QED BY <1>1, <1>2, <1>3, <1>4, EmptySeq DEF TypingInv

LEMMA TypingIdles == ASSUME TypingInv, UNCHANGED keysVars PROVE TypingInv'
<1>1. UNCHANGED <<matrix, text, index, lastChar, done, seen, mixed>>
  BY DEF keysVars
<1>. QED BY <1>1 DEF TypingInv, Down

\* The keys that the frame presses are seen behind those before.
LEMMA FramePresses ==
  ASSUME TypingInv, TextsTypeable, ~mixed, ~done, Keys!Frame, NEW c, index <= Len(text), c = text[index],
         index' = index + 1, c # "PAUSE",
         \/ c = "RET" /\ matrix' = {"RETURN"}
         \/ c # "RET" /\ c # lastChar /\ matrix' = Keys!CharKeys(c) /\ lastChar' = c
  PROVE  TypingInv'
<1>. DEFINE key == IF c = "RET" THEN "RETURN" ELSE Chars[c].key
            prev == text[index - 1]
<1>0. /\ text \in Seq(Typed) /\ index \in 1..Len(text) + 1 /\ index - 1 \in Nat /\ (index - 1) + 1 = index
      /\ Len(text) \in Nat
  BY LenProperties DEF TypingInv, Typeable
<1>1. c \in Typed /\ (c # "RET" => c \in DOMAIN Chars)
  <2>1. text[index] \in Typed
    BY <1>0, ElementOfSeq
  <2>. QED BY <2>1 DEF Typed
<1>2. Keys!KeyOf(c) = <<key>> /\ key # "SHIFT" /\ key \in TypedKeys
  BY <1>1 DEF Keys!KeyOf, TextsTypeable, TypedKeys
<1>3. matrix' \ {"SHIFT"} = {key} /\ key \in matrix'
  BY <1>2 DEF Keys!CharKeys
<1>4. key \notin matrix
  <2>1. CASE matrix = {}
    BY <2>1
  <2>2. CASE index > 1 /\ Down(prev)
    <3>1. Apart(prev, c)
      <4>1. index - 1 \in 1..Len(text) - 1
        BY <1>0, <2>2
      <4>. QED BY <1>0, <4>1 DEF TypingInv, Typeable
    <3>2. CASE prev = "PAUSE"
      BY <2>2, <3>2 DEF Down
    <3>3. CASE prev = "RET"
      <4>1. Keys!KeyOf(prev) = <<"RETURN">> /\ matrix = {"RETURN"}
        BY <2>2, <3>3 DEF Down, Keys!KeyOf
      <4>2. key # "RETURN"
        BY <1>2, <3>1, <3>3, <4>1 DEF Apart
      <4>. QED BY <4>1, <4>2
    <3>4. CASE prev \notin {"RET", "PAUSE"}
      <4>1. Keys!KeyOf(prev) = <<Chars[prev].key>> /\ matrix = Keys!CharKeys(prev) /\ lastChar = prev
        BY <2>2, <3>4 DEF Down, Keys!KeyOf
      <4>2. prev # c
        BY <3>4, <4>1
      <4>3. key # Chars[prev].key
        BY <1>2, <3>1, <3>4, <4>1, <4>2 DEF Apart
      <4>. QED BY <1>2, <4>1, <4>3 DEF Keys!CharKeys
    <3>. QED BY <3>2, <3>3, <3>4
  <2>. QED BY <2>1, <2>2 DEF TypingInv
<1>5. (matrix' \ matrix) \ {"SHIFT"} = {key}
  BY <1>2, <1>3, <1>4
<1>6. seen' = seen \o <<key>> /\ UNCHANGED <<text, mixed>>
  BY <1>5, SetToSeqOne DEF Keys!Frame
<1>7. seen = Keys!KeysOf(text, index - 1) /\ seen \in Seq(TypedKeys) /\ Typeable(text)
  BY DEF TypingInv
<1>8. seen' = Keys!KeysOf(text, index)
  <2>1. Keys!KeysOf(text, (index - 1) + 1) = Keys!KeysOf(text, index - 1) \o Keys!KeyOf(text[(index - 1) + 1])
    BY <1>0, KeysGrow
  <2>. QED BY <1>0, <1>2, <1>6, <1>7, <2>1
<1>9. seen' \in Seq(TypedKeys)
  <2>1. <<key>> \in Seq(TypedKeys)
    BY <1>2
  <2>. QED BY <1>6, <1>7, <2>1, ConcatProperties
<1>10. index' \in 1..Len(text) + 1 /\ index' - 1 = index /\ index' > 1
  BY <1>0
<1>11. Down(c)'
  BY DEF Down
<1>12. /\ Typeable(text)' /\ (index \in 1..Len(text) + 1)' /\ text'[index' - 1] = c
       /\ seen' = Keys!KeysOf(text', index' - 1)
  BY <1>6, <1>7, <1>8, <1>10
<1>. QED BY <1>9, <1>10, <1>11, <1>12 DEF TypingInv

\* A frame that releases or waits shows nothing new.
LEMMA FrameShowsNothing ==
  ASSUME TypingInv, Keys!Frame, mixed \/ matrix' \subseteq matrix, index' = index,
         \/ matrix' = {}
         \/ UNCHANGED <<matrix, lastChar, done>>
         \/ mixed
  PROVE  TypingInv'
<1>1. seen' = seen /\ UNCHANGED <<text, mixed>>
  <2>1. CASE mixed
    BY <2>1 DEF Keys!Frame
  <2>2. CASE ~mixed
    <3>1. (matrix' \ matrix) \ {"SHIFT"} = {}
      BY <2>2
    <3>2. seen \o <<>> = seen
      BY ConcatEmptySeq DEF TypingInv
    <3>. QED BY <2>2, <3>1, <3>2, SetToSeqEmpty DEF Keys!Frame
  <2>. QED BY <2>1, <2>2
<1>2. Typeable(text)' /\ (index \in 1..Len(text) + 1)' /\ seen' \in Seq(TypedKeys)
  BY <1>1 DEF TypingInv
<1>3. ~mixed' => seen' = Keys!KeysOf(text', index' - 1)
  BY <1>1 DEF TypingInv
<1>4. (~mixed' /\ ~done') => (matrix' = {} \/ (index' > 1 /\ Down(text[index - 1])'))
  BY <1>1 DEF TypingInv, Down
<1>. QED BY <1>2, <1>3, <1>4 DEF TypingInv

LEMMA FrameMixed == ASSUME TypingInv, Keys!Frame, mixed, index' \in 1..Len(text) + 1 PROVE TypingInv'
BY DEF TypingInv, Keys!Frame

\* A pause releases the keys and shows nothing.
LEMMA FramePauses ==
  ASSUME TypingInv, Keys!Frame, ~mixed, index <= Len(text), text[index] = "PAUSE", index' = index + 1, matrix' = {}
  PROVE  TypingInv'
<1>0. /\ text \in Seq(Typed) /\ index \in 1..Len(text) + 1 /\ index - 1 \in Nat /\ (index - 1) + 1 = index
      /\ Len(text) \in Nat
  BY LenProperties DEF TypingInv, Typeable
<1>1. seen \o <<>> = seen
  BY ConcatEmptySeq DEF TypingInv
<1>2. (matrix' \ matrix) \ {"SHIFT"} = {}
  OBVIOUS
<1>3. seen' = seen /\ UNCHANGED <<text, mixed>>
  BY <1>1, <1>2, SetToSeqEmpty DEF Keys!Frame
<1>4. Keys!KeysOf(text, index) = Keys!KeysOf(text, index - 1) \o <<>>
  <2>1. Keys!KeysOf(text, (index - 1) + 1) = Keys!KeysOf(text, index - 1) \o Keys!KeyOf(text[(index - 1) + 1])
    BY <1>0, KeysGrow
  <2>2. Keys!KeyOf(text[index]) = <<>>
    BY DEF Keys!KeyOf
  <2>. QED BY <1>0, <2>1, <2>2
<1>5. seen' = Keys!KeysOf(text', index' - 1)
  <2>1. index' - 1 = index
    BY <1>0
  <2>. QED BY <1>1, <1>3, <1>4, <2>1 DEF TypingInv
<1>6. (index \in 1..Len(text) + 1)'
  BY <1>0, <1>3
<1>. QED BY <1>3, <1>5, <1>6 DEF TypingInv

\* emulator_run, at the end of a frame: each way a frame may go.
LEMMA FrameTypes == ASSUME TypingInv, TextsTypeable, Keys!Frame PROVE TypingInv'
<1>0. index \in Nat /\ Len(text) \in Nat /\ ~done
  BY LenProperties DEF TypingInv, Typeable, Keys!Frame
<1>1. CASE wait > 0
  <2>1. UNCHANGED <<matrix, index, lastChar, done>>
    BY <1>1 DEF Keys!Frame
  <2>. QED BY <2>1, FrameShowsNothing
<1>2. CASE ~(wait > 0)
  <2>1. Keys!TypeFrame
    BY <1>2 DEF Keys!Frame
  <2>2. CASE index > Len(text)
    <3>1. matrix' = {} /\ index' = index
      BY <2>1, <2>2 DEF Keys!TypeFrame, Keys!Types
    <3>. QED BY <3>1, FrameShowsNothing
  <2>3. CASE ~(index > Len(text))
    <3>0. index <= Len(text) /\ (index + 1 \in 1..Len(text) + 1)
      BY <1>0, <2>3
    <3>1. CASE text[index] = "RET"
      <4>1. matrix' = {"RETURN"} /\ index' = index + 1
        BY <2>1, <2>3, <3>1 DEF Keys!TypeFrame, Keys!Types
      <4>. QED BY <1>0, <3>0, <3>1, <4>1, FrameMixed, FramePresses
    <3>2. CASE text[index] = "PAUSE"
      <4>1. matrix' = {} /\ index' = index + 1
        BY <2>1, <2>3, <3>2 DEF Keys!TypeFrame, Keys!Types
      <4>. QED BY <3>0, <3>2, <4>1, FrameMixed, FramePauses
    <3>3. CASE text[index] \notin {"RET", "PAUSE"}
      <4>1. Keys!TypesChar(text[index])
        BY <2>1, <2>3, <3>3 DEF Keys!TypeFrame
      <4>2. \/ matrix' = {} /\ index' = index
            \/ /\ text[index] # lastChar /\ matrix' = Keys!CharKeys(text[index])
               /\ lastChar' = text[index] /\ index' = index + 1
        BY <4>1 DEF Keys!TypesChar, Keys!TypesSame, Keys!TypesNext, Keys!Types
      <4>3. CASE matrix' = {} /\ index' = index
        BY <4>3, FrameShowsNothing
      <4>4. CASE /\ text[index] # lastChar /\ matrix' = Keys!CharKeys(text[index])
                 /\ lastChar' = text[index] /\ index' = index + 1
        BY <1>0, <3>0, <3>3, <4>4, FrameMixed, FramePresses
      <4>. QED BY <4>2, <4>3, <4>4
    <3>. QED BY <3>1, <3>2, <3>3
  <2>. QED BY <2>2, <2>3
<1>. QED BY <1>1, <1>2

LEMMA TypingKeeps == ASSUME TypingInv, TextsTypeable, Keys!Next PROVE TypingInv'
<1>1. CASE Keys!Frame
  BY <1>1, FrameTypes
<1>2. CASE Keys!Mixes /\ UNCHANGED Keys!typing
  <2>1. UNCHANGED <<text, index, lastChar, done>>
    BY <1>2 DEF Keys!typing
  <2>2. CASE done
    <3>1. mixed' = (mixed \/ FALSE) /\ seen' = seen /\ done'
      BY <1>2, <2>1, <2>2 DEF Keys!Mixes
    <3>. QED BY <2>1, <3>1 DEF TypingInv
  <2>3. CASE ~done
    <3>1. mixed' /\ seen' = <<>>
      BY <1>2, <2>3 DEF Keys!Mixes
    <3>. QED BY <2>1, <3>1, EmptySeq DEF TypingInv
  <2>. QED BY <2>2, <2>3
<1>3. CASE UNCHANGED <<matrix, Keys!typing, seen, mixed>>
  <2>1. UNCHANGED <<matrix, text, index, lastChar, done, seen, mixed>>
    BY <1>3 DEF Keys!typing
  <2>. QED BY <2>1 DEF TypingInv, Down
<1>4. Keys!Frame \/ (Keys!Mixes /\ UNCHANGED Keys!typing) \/ UNCHANGED <<matrix, Keys!typing, seen, mixed>>
  <2>1. ASSUME NEW sc \in Scancodes, Keys!KeyDown(sc) \/ Keys!KeyUp(sc) PROVE Keys!Mixes /\ UNCHANGED Keys!typing
    BY <2>1, Zenon DEF Keys!KeyDown, Keys!KeyUp
  <2>2. ASSUME NEW c, Keys!TextInput(c) PROVE Keys!Mixes /\ UNCHANGED Keys!typing
    BY <2>2, Zenon DEF Keys!TextInput
  <2>3. ASSUME NEW lets, NEW takes, Keys!Pads(lets, takes) PROVE UNCHANGED <<matrix, Keys!typing, seen, mixed>>
    BY <2>3 DEF Keys!Pads
  <2>. QED BY <2>1, <2>2, <2>3, Zenon DEF Keys!Next, Keys!PadX, Keys!PadY, Keys!PadHat, Keys!PadDown, Keys!PadUp
<1>. QED BY <1>1, <1>2, <1>3, <1>4

-----------------------------------------------------------------------------
(* The plotter *)

\* What may be on port A when the strobe comes.
Printed == Printable \cup SoundRegisters \cup {"none"}

\* The end of the bytes is in no text: each P has its line end behind it.
NoText(bytes) == \A j \in DOMAIN bytes : bytes[j] = "P" => \E k \in j..Len(bytes) : bytes[k] = "CR"

\* Commands that are over, where they started, ...
Over(bytes, commands, at) ==
  /\ at \in [DOMAIN commands -> Port!Starts(bytes)]
  /\ \A m, n \in DOMAIN commands : m < n => at[m] < at[n]
  /\ \A n \in DOMAIN commands :
       \E e \in at[n]..Len(bytes) - 1 : Port!EndsAt(bytes, at[n], e) /\ commands[n] = Port!Command(bytes, at[n], e)
\* ... and one that is not.
UnderWay(bytes, s, com, par) ==
  /\ Port!EndsAt(bytes, s, Len(bytes)) /\ <<com, par>> = Port!Command(bytes, s, Len(bytes))
  /\ com # "P" => NoText(bytes)

\* The parser has executed the commands that are over and holds the one under way; it
\* holds none only where none is.
Parsed(bytes, commands, com, par) ==
  \E at : /\ Over(bytes, commands, at)
          /\ IF com = "none" THEN NoText(bytes) /\ Port!Starts(bytes) = {at[n] : n \in DOMAIN commands}
             ELSE \E s \in Port!Starts(bytes) :
                    /\ UnderWay(bytes, s, com, par) /\ \A n \in DOMAIN commands : at[n] < s
                    /\ Port!Starts(bytes) = {at[n] : n \in DOMAIN commands} \cup {s}

\* One byte more: it starts a command when it is a letter outside a text, and nothing
\* else starts or stops starting.
LEMMA StartsGrow ==
  ASSUME UnitsAssumption, NEW bytes \in Seq(Printed), NEW b \in Printed
  PROVE  Port!Starts(Append(bytes, b)) =
           Port!Starts(bytes) \cup (IF b \in Letters /\ NoText(bytes) THEN {Len(bytes) + 1} ELSE {})
<1>. DEFINE more == Append(bytes, b)
            L == Len(bytes)
<1>1. /\ L \in Nat /\ DOMAIN bytes = 1..L /\ DOMAIN more = 1..L + 1
      /\ \A i \in 1..L : more[i] = bytes[i]
      /\ more[L + 1] = b
  BY AppendProperties, LenProperties
<1>2. "CR" \notin Letters
  BY DEF UnitsAssumption, Port!PortBusAssumption
<1>. HIDE DEF more, L
<1>3. ASSUME NEW i \in 1..L PROVE i \in Port!Starts(more) <=> i \in Port!Starts(bytes)
  <2>1. \A j \in 1..i - 1 : j \in 1..L /\ \A k \in j..i : k \in 1..L
    BY <1>1
  <2>. QED BY <1>1, <2>1 DEF Port!Starts
<1>4. L + 1 \in Port!Starts(more) <=> b \in Letters /\ NoText(bytes)
  <2>1. /\ L + 1 \in Port!Starts(more) <=>
             b \in Letters /\ \A j \in 1..L : more[j] = "P" => \E k \in j..L + 1 : more[k] = "CR"
    BY <1>1 DEF Port!Starts
  <2>2. ASSUME b \in Letters, NEW j \in 1..L
        PROVE  (\E k \in j..L + 1 : more[k] = "CR") <=> (\E k \in j..L : bytes[k] = "CR")
    <3>1. ASSUME NEW k \in j..L + 1, more[k] = "CR" PROVE k \in j..L /\ bytes[k] = "CR"
      <4>1. k # L + 1
        BY <1>1, <1>2, <2>2, <3>1
      <4>. QED BY <1>1, <3>1, <4>1
    <3>2. ASSUME NEW k \in j..L, bytes[k] = "CR" PROVE k \in j..L + 1 /\ more[k] = "CR"
      BY <1>1, <3>2
    <3>. QED BY <3>1, <3>2
  <2>. QED BY <1>1, <2>1, <2>2 DEF NoText, L
<1>5. Port!Starts(more) \subseteq 1..L + 1 /\ Port!Starts(bytes) \subseteq 1..L
  BY <1>1 DEF Port!Starts
<1>6. \A i \in 1..L + 1 : i \in 1..L \/ i = L + 1
  BY <1>1
<1>7. L + 1 \notin 1..L /\ L + 1 \in 1..L + 1
  BY <1>1
<1>. QED BY <1>3, <1>4, <1>5, <1>6, <1>7 DEF more, L

\* A command as long as before is the same one, and one that reaches the new byte has
\* it behind its parameters.
LEMMA CommandsGrow ==
  ASSUME NEW bytes \in Seq(Printed), NEW b \in Printed, NEW i \in 1..Len(bytes), NEW e \in i..Len(bytes)
  PROVE  /\ SubSeq(Append(bytes, b), i + 1, e) = SubSeq(bytes, i + 1, e)
         /\ Append(bytes, b)[i] = bytes[i]
         /\ SubSeq(Append(bytes, b), i + 1, Len(bytes) + 1) = Append(SubSeq(bytes, i + 1, Len(bytes)), b)
<1>. DEFINE more == Append(bytes, b)
            L == Len(bytes)
<1>1. /\ L \in Nat /\ more \in Seq(Printed) /\ Len(more) = L + 1
      /\ \A k \in 1..L : more[k] = bytes[k] /\ bytes[k] \in Printed /\ more[k] \in Printed
      /\ more[L + 1] = b
  BY AppendProperties, LenProperties, ElementOfSeq
<1>. HIDE DEF more
<1>2. ASSUME NEW d \in i..L PROVE SubSeq(more, i + 1, d) = SubSeq(bytes, i + 1, d)
  <2>1. /\ SubSeq(more, i + 1, d) \in Seq(Printed) /\ SubSeq(bytes, i + 1, d) \in Seq(Printed)
        /\ Len(SubSeq(more, i + 1, d)) = d - i /\ Len(SubSeq(bytes, i + 1, d)) = d - i
        /\ \A k \in 1..d - i : SubSeq(more, i + 1, d)[k] = more[i + k] /\ SubSeq(bytes, i + 1, d)[k] = bytes[i + k]
    <3>1. i + 1 \in Int /\ d \in Int /\ \A k \in i + 1..d : k \in 1..L
      BY <1>1
    <3>2. \A k \in 1..d - (i + 1) + 1 : (i + 1) + k - 1 = i + k
      BY <1>1
    <3>3. d - (i + 1) + 1 = d - i /\ (IF i + 1 <= d THEN d - (i + 1) + 1 ELSE 0) = d - i
      BY <1>1
    <3>. QED BY <1>1, <3>1, <3>2, <3>3, SubSeqProperties
  <2>2. \A k \in 1..d - i : i + k \in 1..L
    BY <1>1
  <2>. QED BY <1>1, <2>1, <2>2, SeqEqual
<1>3. SubSeq(more, i + 1, L + 1) = Append(SubSeq(more, i + 1, L), b)
  <2>1. i + 1 \in 1..Len(more) /\ L + 1 \in i + 1..Len(more) /\ (L + 1) - 1 = L
    BY <1>1
  <2>2. SubSeq(more, i + 1, L + 1) = SubSeq(more, i + 1, L) \o <<b>>
    BY <1>1, <2>1, SubSeqRecursiveSecond
  <2>3. SubSeq(more, i + 1, L) \in Seq(Printed)
    <3>1. i + 1 \in Int /\ L \in Int /\ \A k \in i + 1..L : k \in 1..L
      BY <1>1
    <3>. QED BY <1>1, <3>1, SubSeqProperties
  <2>. QED BY <2>2, <2>3, AppendIsConcat
<1>4. e \in i..L /\ L \in i..L
  BY <1>1
<1>. QED BY <1>1, <1>2, <1>3, <1>4 DEF more

\* A command that ended has ended there, whatever is printed next.
LEMMA EndsStay ==
  ASSUME UnitsAssumption, NEW bytes \in Seq(Printed), NEW b \in Printed, NEW i \in 1..Len(bytes),
         NEW e \in i..Len(bytes), Port!EndsAt(bytes, i, e),
         e < Len(bytes) \/ b = "CR" \/ Len(bytes) + 1 \in Port!Starts(Append(bytes, b))
  PROVE  Port!EndsAt(Append(bytes, b), i, e) /\ Port!Command(Append(bytes, b), i, e) = Port!Command(bytes, i, e)
<1>. DEFINE more == Append(bytes, b)
            L == Len(bytes)
<1>1. /\ L \in Nat /\ Len(more) = L + 1 /\ \A k \in 1..L : more[k] = bytes[k]
      /\ more[L + 1] = b
  BY AppendProperties, LenProperties
<1>2. \A j \in 1..L : j \in Port!Starts(more) <=> j \in Port!Starts(bytes)
  BY <1>1, StartsGrow
<1>3. Port!Command(more, i, e) = Port!Command(bytes, i, e)
  BY CommandsGrow DEF Port!Command
<1>. HIDE DEF more, L
<1>4. \A j \in i + 1..e : j \in 1..L
  BY <1>1 DEF L
<1>5. ASSUME NEW j \in i + 1..e PROVE more[j] # "CR" /\ j \notin Port!Starts(more)
  BY <1>1, <1>2, <1>4 DEF Port!EndsAt
<1>6. more[e + 1] = "CR" \/ e + 1 \in Port!Starts(more)
  <2>1. CASE e < L
    <3>1. e + 1 \in 1..L /\ e # L
      BY <1>1, <2>1 DEF L
    <3>. QED BY <1>1, <1>2, <3>1 DEF Port!EndsAt, L
  <2>2. CASE ~(e < L)
    <3>1. e = L
      BY <1>1, <2>2 DEF L
    <3>. QED BY <1>1, <3>1 DEF L, more
  <2>. QED BY <2>1, <2>2
<1>. QED BY <1>3, <1>5, <1>6 DEF Port!EndsAt, more

\* Cutting parameters to the room for them is the same byte by byte.
LEMMA Cuts ==
  ASSUME ParamLen \in Nat \ {0}, NEW cs \in Seq(Printed), NEW b \in Printed
  PROVE  Port!Cut(Append(cs, b)) = IF Len(Port!Cut(cs)) >= ParamLen THEN Port!Cut(cs) ELSE Append(Port!Cut(cs), b)
<1>. DEFINE more == Append(cs, b)
            L == Len(cs)
<1>1. /\ L \in Nat /\ more \in Seq(Printed) /\ Len(more) = L + 1
      /\ \A k \in 1..L : more[k] = cs[k] /\ cs[k] \in Printed /\ more[k] \in Printed
      /\ more[L + 1] = b
  BY AppendProperties, LenProperties, ElementOfSeq
<1>. HIDE DEF more
<1>2. CASE L < ParamLen
  <2>1. Port!Cut(cs) = cs /\ Port!Cut(more) = more
    BY <1>1, <1>2 DEF Port!Cut
  <2>. QED BY <1>1, <1>2, <2>1 DEF more
<1>3. CASE L >= ParamLen
  <2>1. /\ SubSeq(cs, 1, ParamLen) \in Seq(Printed) /\ SubSeq(more, 1, ParamLen) \in Seq(Printed)
        /\ Len(SubSeq(cs, 1, ParamLen)) = ParamLen /\ Len(SubSeq(more, 1, ParamLen)) = ParamLen
        /\ \A k \in 1..ParamLen : SubSeq(cs, 1, ParamLen)[k] = cs[k] /\ SubSeq(more, 1, ParamLen)[k] = more[k]
    <3>1. 1 \in Int /\ ParamLen \in Int /\ \A k \in 1..ParamLen : k \in 1..L
      BY <1>1, <1>3
    <3>2. \A k \in 1..ParamLen - 1 + 1 : 1 + k - 1 = k
      OBVIOUS
    <3>3. ParamLen - 1 + 1 = ParamLen /\ (IF 1 <= ParamLen THEN ParamLen - 1 + 1 ELSE 0) = ParamLen
      OBVIOUS
    <3>. QED BY <1>1, <3>1, <3>2, <3>3, SubSeqProperties
  <2>2. SubSeq(cs, 1, ParamLen) = SubSeq(more, 1, ParamLen)
    <3>1. \A k \in 1..ParamLen : k \in 1..L
      BY <1>1, <1>3
    <3>. QED BY <1>1, <2>1, <3>1, SeqEqual
  <2>3. Port!Cut(more) = SubSeq(more, 1, ParamLen)
    BY <1>1, <1>3 DEF Port!Cut
  <2>4. Port!Cut(cs) = SubSeq(cs, 1, ParamLen)
    <3>1. CASE L = ParamLen
      BY <1>1, <3>1, SubSeqFull DEF Port!Cut
    <3>2. CASE L # ParamLen
      BY <1>1, <1>3, <3>2 DEF Port!Cut
    <3>. QED BY <3>1, <3>2
  <2>5. Port!Cut(more) = Port!Cut(cs) /\ Len(Port!Cut(cs)) = ParamLen
    BY <2>1, <2>2, <2>3, <2>4
  <2>. QED BY <2>5 DEF more
<1>. QED BY <1>1, <1>2, <1>3

\* One that goes on takes another parameter, up to its room.
LEMMA EndsOn ==
  ASSUME UnitsAssumption, NEW bytes \in Seq(Printed), NEW b \in Printed, NEW i \in 1..Len(bytes),
         Port!EndsAt(bytes, i, Len(bytes)), b # "CR", Len(bytes) + 1 \notin Port!Starts(Append(bytes, b)),
         NEW com, NEW par, <<com, par>> = Port!Command(bytes, i, Len(bytes))
  PROVE  /\ Port!EndsAt(Append(bytes, b), i, Len(bytes) + 1)
         /\ <<com, IF Len(par) >= ParamLen THEN par ELSE Append(par, b)>> =
              Port!Command(Append(bytes, b), i, Len(bytes) + 1)
<1>. DEFINE more == Append(bytes, b)
            L == Len(bytes)
            cs == SubSeq(bytes, i + 1, L)
<1>1. /\ L \in Nat /\ Len(more) = L + 1 /\ \A k \in 1..L : more[k] = bytes[k] /\ bytes[k] \in Printed
      /\ more[L + 1] = b
  BY AppendProperties, LenProperties, ElementOfSeq
<1>2. \A j \in 1..L : j \in Port!Starts(more) <=> j \in Port!Starts(bytes)
  BY <1>1, StartsGrow
<1>3. cs \in Seq(Printed)
  <2>1. i + 1 \in Int /\ L \in Int /\ \A k \in i + 1..L : k \in 1..L
    BY <1>1
  <2>. QED BY <1>1, <2>1, SubSeqProperties
<1>4. SubSeq(more, i + 1, L + 1) = Append(cs, b) /\ more[i] = bytes[i]
  <2>1. L \in i..L
    BY <1>1
  <2>. QED BY <2>1, CommandsGrow
<1>5. com = bytes[i] /\ par = Port!Cut(cs)
  BY DEF Port!Command
<1>6. Port!Cut(Append(cs, b)) = IF Len(par) >= ParamLen THEN par ELSE Append(par, b)
  <2>1. ParamLen \in Nat \ {0}
    BY DEF UnitsAssumption, Port!PortBusAssumption
  <2>. HIDE DEF cs
  <2>. QED BY <1>3, <1>5, <2>1, Cuts
<1>. HIDE DEF more, cs
<1>7. <<com, IF Len(par) >= ParamLen THEN par ELSE Append(par, b)>> = Port!Command(more, i, L + 1)
  BY <1>4, <1>5, <1>6 DEF Port!Command
<1>8. ASSUME NEW j \in i + 1..L + 1 PROVE more[j] # "CR" /\ j \notin Port!Starts(more)
  <2>1. CASE j = L + 1
    BY <1>1, <2>1 DEF more
  <2>2. CASE j # L + 1
    <3>1. j \in 1..L /\ j \in i + 1..L
      <4>1. i \in Nat /\ j \in Int /\ i + 1 <= j /\ j <= L + 1 /\ L \in Int
        BY <1>1
      <4>. HIDE DEF L
      <4>. QED BY <2>2, <4>1
    <3>. QED BY <1>1, <1>2, <3>1 DEF Port!EndsAt
  <2>. QED BY <2>1, <2>2
<1>. QED BY <1>1, <1>7, <1>8 DEF Port!EndsAt, more

\* Commands that were over are over.
LEMMA OverStays ==
  ASSUME UnitsAssumption, NEW bytes \in Seq(Printed), NEW b \in Printed, NEW commands, NEW at, Over(bytes, commands, at)
  PROVE  Over(Append(bytes, b), commands, at)
<1>. DEFINE more == Append(bytes, b)
<1>1. Len(bytes) \in Nat /\ Len(more) = Len(bytes) + 1 /\ DOMAIN bytes = 1..Len(bytes)
  BY AppendProperties, LenProperties
<1>2. Port!Starts(bytes) \subseteq Port!Starts(more) /\ Port!Starts(bytes) \subseteq 1..Len(bytes)
  BY <1>1, StartsGrow DEF Port!Starts
<1>. HIDE DEF more
<1>3. at \in [DOMAIN commands -> Port!Starts(more)]
  BY <1>2 DEF Over
<1>4. ASSUME NEW n \in DOMAIN commands
      PROVE  \E e \in at[n]..Len(more) - 1 : Port!EndsAt(more, at[n], e) /\ commands[n] = Port!Command(more, at[n], e)
  <2>1. at[n] \in 1..Len(bytes)
    BY <1>2 DEF Over
  <2>2. PICK e \in at[n]..Len(bytes) - 1 : Port!EndsAt(bytes, at[n], e) /\ commands[n] = Port!Command(bytes, at[n], e)
    BY DEF Over
  <2>3. e \in at[n]..Len(bytes) /\ e < Len(bytes) /\ e \in at[n]..Len(more) - 1
    BY <1>1, <2>1
  <2>4. Port!EndsAt(more, at[n], e) /\ Port!Command(more, at[n], e) = Port!Command(bytes, at[n], e)
    BY <2>1, <2>2, <2>3, EndsStay DEF more
  <2>. QED BY <2>2, <2>3, <2>4
<1>. QED BY <1>3, <1>4 DEF Over, more

\* A line end ends a text, and only a P begins one.
LEMMA NoTextGrows ==
  ASSUME NEW bytes \in Seq(Printed), NEW b \in Printed, b = "CR" \/ (NoText(bytes) /\ b # "P")
  PROVE  NoText(Append(bytes, b))
<1>. DEFINE more == Append(bytes, b)
            L == Len(bytes)
<1>1. /\ L \in Nat /\ Len(more) = L + 1 /\ DOMAIN more = 1..L + 1 /\ DOMAIN bytes = 1..L
      /\ \A k \in 1..L : more[k] = bytes[k]
      /\ more[L + 1] = b
  BY AppendProperties, LenProperties
<1>. HIDE DEF more
<1>2. ASSUME NEW j \in 1..L + 1, more[j] = "P" PROVE \E k \in j..L + 1 : more[k] = "CR"
  <2>1. CASE b = "CR"
    <3>1. L + 1 \in j..L + 1
      BY <1>1
    <3>. QED BY <1>1, <2>1, <3>1
  <2>2. CASE NoText(bytes) /\ b # "P"
    <3>1. j \in 1..L /\ bytes[j] = "P"
      BY <1>1, <1>2, <2>2
    <3>2. PICK k \in j..L : bytes[k] = "CR"
      BY <1>1, <2>2, <3>1 DEF NoText
    <3>3. k \in 1..L /\ k \in j..L + 1
      BY <1>1
    <3>. QED BY <1>1, <3>2, <3>3
  <2>. QED BY <2>1, <2>2
<1>. QED BY <1>1, <1>2 DEF NoText, more

\* The types of the port, and the invariant of the parser.
Commanded == Printed \X Seq(Printed)
Levels == {"low", "high", "other"}
PortTypes ==
  /\ paper \in Seq(Printed) /\ executed \in Seq(Commanded) /\ command \in Printed /\ params \in Seq(Printed)
  /\ ora \in Printed /\ todo \in Seq([ora : Printed] \cup [ca2 : Levels, cb2 : Levels])
PortInv == PortTypes /\ (Kind = "plotter" => Parsed(paper, executed, command, params))

\* The command under way ends where another starts or the line does.
LEMMA OverNow ==
  ASSUME UnitsAssumption, PortTypes, NEW b \in Printed, NEW at, Over(paper, executed, at),
         NEW s \in Port!Starts(paper), UnderWay(paper, s, command, params),
         \A n \in DOMAIN executed : at[n] < s,
         Port!Starts(paper) = {at[n] : n \in DOMAIN executed} \cup {s},
         b = "CR" \/ Len(paper) + 1 \in Port!Starts(Append(paper, b))
  PROVE  \E to : /\ Over(Append(paper, b), Append(executed, <<command, params>>), to)
                 /\ Port!Starts(paper) = {to[n] : n \in DOMAIN Append(executed, <<command, params>>)}
                 /\ \A n \in DOMAIN Append(executed, <<command, params>>) : to[n] \in 1..Len(paper)
<1>. DEFINE more == Append(paper, b)
            all == Append(executed, <<command, params>>)
            L == Len(executed)
            to == [n \in 1..L + 1 |-> IF n = L + 1 THEN s ELSE at[n]]
<1>0. paper \in Seq(Printed) /\ executed \in Seq(Commanded) /\ <<command, params>> \in Commanded
  BY DEF PortTypes, Commanded
<1>1. Len(paper) \in Nat /\ Len(more) = Len(paper) + 1 /\ DOMAIN paper = 1..Len(paper)
  BY <1>0, AppendProperties, LenProperties
<1>2. /\ L \in Nat /\ DOMAIN executed = 1..L /\ DOMAIN all = 1..L + 1
      /\ all[L + 1] = <<command, params>> /\ \A n \in 1..L : all[n] = executed[n]
  BY <1>0, AppendProperties, LenProperties
<1>3. Over(more, executed, at)
  BY <1>0, OverStays
<1>4. Port!Starts(paper) \subseteq Port!Starts(more) /\ Port!Starts(paper) \subseteq 1..Len(paper)
  <2>1. Port!Starts(paper) \subseteq Port!Starts(more)
    BY <1>0, StartsGrow
  <2>2. Port!Starts(paper) \subseteq 1..Len(paper)
    BY <1>1 DEF Port!Starts
  <2>. QED BY <2>1, <2>2
<1>5. Port!EndsAt(more, s, Len(paper)) /\ <<command, params>> = Port!Command(more, s, Len(paper))
  <2>1. s \in 1..Len(paper) /\ Len(paper) \in s..Len(paper)
    BY <1>1, <1>4
  <2>. QED BY <1>0, <2>1, EndsStay DEF UnderWay
<1>6. /\ DOMAIN to = 1..L + 1 /\ to[L + 1] = s /\ \A n \in 1..L : to[n] = at[n]
  BY <1>2
<1>7. \A n \in 1..L + 1 : n \in 1..L \/ n = L + 1
  BY <1>2
<1>. HIDE DEF more, all, L
<1>8. to \in [DOMAIN all -> Port!Starts(more)]
  BY <1>2, <1>4, <1>7 DEF Over
<1>. HIDE DEF to
<1>9. ASSUME NEW m \in DOMAIN all, NEW n \in DOMAIN all, m < n PROVE to[m] < to[n]
  <2>1. m \in 1..L
    BY <1>2, <1>9
  <2>2. CASE n = L + 1
    BY <1>2, <1>6, <2>1, <2>2
  <2>3. CASE n \in 1..L
    BY <1>2, <1>6, <1>9, <2>1, <2>3 DEF Over
  <2>. QED BY <1>2, <1>7, <2>2, <2>3
<1>10. ASSUME NEW n \in DOMAIN all
       PROVE  \E e \in to[n]..Len(more) - 1 : Port!EndsAt(more, to[n], e) /\ all[n] = Port!Command(more, to[n], e)
  <2>1. CASE n = L + 1
    <3>1. Len(paper) \in s..Len(more) - 1
      BY <1>1, <1>4
    <3>. QED BY <1>2, <1>5, <1>6, <2>1, <3>1
  <2>2. CASE n \in 1..L
    BY <1>2, <1>3, <1>6, <2>2 DEF Over
  <2>. QED BY <1>2, <1>7, <2>1, <2>2
<1>11. Over(more, all, to)
  BY <1>8, <1>9, <1>10 DEF Over
<1>12. Port!Starts(paper) = {to[n] : n \in DOMAIN all}
  <2>1. 1..L \subseteq 1..L + 1 /\ L + 1 \in 1..L + 1
    BY <1>2
  <2>. QED BY <1>2, <1>6, <1>7, <2>1
<1>13. \A n \in DOMAIN all : to[n] \in 1..Len(paper)
  BY <1>4, <1>12
<1>. QED BY <1>11, <1>12, <1>13 DEF more, all

LEMMA ReceiveTypes ==
  ASSUME PortTypes, NEW b \in Printed, Port!Receive(b)
  PROVE  executed' \in Seq(Commanded) /\ command' \in Printed /\ params' \in Seq(Printed)
<1>1. executed' = executed \/ executed' = Append(executed, <<command, params>>)
  BY DEF Port!Receive, Port!Idles, Port!Execute
<1>2. command' \in {command, b, "none"}
  BY DEF Port!Receive
<1>3. params' = params \/ params' = <<>> \/ params' = Append(params, b)
  BY DEF Port!Receive
<1>4. <<command, params>> \in Commanded
  BY DEF PortTypes, Commanded
<1>5. executed' \in Seq(Commanded)
  <2>1. executed \in Seq(Commanded)
    BY DEF PortTypes
  <2>2. Append(executed, <<command, params>>) \in Seq(Commanded)
    BY <1>4, <2>1, AppendProperties
  <2>. QED BY <1>1, <2>1, <2>2
<1>6. params' \in Seq(Printed)
  <2>1. params \in Seq(Printed) /\ <<>> \in Seq(Printed)
    BY EmptySeq DEF PortTypes
  <2>2. Append(params, b) \in Seq(Printed)
    BY <2>1, AppendProperties
  <2>. QED BY <1>3, <2>1, <2>2
<1>. QED BY <1>2, <1>5, <1>6 DEF PortTypes, Printed

\* mcp40_receive_byte: a line end, a letter that starts a command, and the rest.
LEMMA ReceiveParses ==
  ASSUME UnitsAssumption, PortTypes, Parsed(paper, executed, command, params),
         NEW b \in Printed, Port!Receive(b), paper' = Append(paper, b)
  PROVE  Parsed(paper, executed, command, params)'
<1>. DEFINE L == Len(paper)
<1>0. /\ L \in Nat /\ Len(paper') = L + 1 /\ DOMAIN paper = 1..L /\ paper'[L + 1] = b /\ paper \in Seq(Printed)
      /\ executed \in Seq(Commanded) /\ <<command, params>> \in Commanded /\ paper' \in Seq(Printed)
  BY AppendProperties, LenProperties DEF PortTypes, Commanded
<1>1. "P" \in Letters /\ "CR" \notin Letters /\ "none" \notin Letters
  BY DEF UnitsAssumption, Port!PortBusAssumption
<1>2. Port!Starts(paper') = Port!Starts(paper) \cup (IF b \in Letters /\ NoText(paper) THEN {L + 1} ELSE {})
  BY <1>0, StartsGrow
<1>3. Port!Starts(paper) \subseteq 1..L
  BY <1>0 DEF Port!Starts
<1>4. PICK at : /\ Over(paper, executed, at)
                /\ IF command = "none" THEN NoText(paper) /\ Port!Starts(paper) = {at[n] : n \in DOMAIN executed}
                   ELSE \E s \in Port!Starts(paper) :
                          /\ UnderWay(paper, s, command, params) /\ \A n \in DOMAIN executed : at[n] < s
                          /\ Port!Starts(paper) = {at[n] : n \in DOMAIN executed} \cup {s}
  BY DEF Parsed
<1>5. Over(paper', executed, at)
  BY <1>0, <1>4, OverStays
\* What is executed when the command under way ends here.
<1>6. ASSUME b = "CR" \/ L + 1 \in Port!Starts(paper'),
             IF command = "none" THEN executed' = executed ELSE executed' = Append(executed, <<command, params>>)
      PROVE  \E to : /\ Over(paper', executed', to)
                     /\ Port!Starts(paper) = {to[n] : n \in DOMAIN executed'}
                     /\ \A n \in DOMAIN executed' : to[n] \in 1..L
  <2>1. CASE command = "none"
    BY <1>3, <1>4, <1>5, <1>6, <2>1
  <2>2. CASE command # "none"
    <3>1. PICK s \in Port!Starts(paper) :
            /\ UnderWay(paper, s, command, params) /\ \A n \in DOMAIN executed : at[n] < s
            /\ Port!Starts(paper) = {at[n] : n \in DOMAIN executed} \cup {s}
      BY <1>4, <2>2
    <3>2. \E to : /\ Over(Append(paper, b), Append(executed, <<command, params>>), to)
                  /\ Port!Starts(paper) = {to[n] : n \in DOMAIN Append(executed, <<command, params>>)}
                  /\ \A n \in DOMAIN Append(executed, <<command, params>>) : to[n] \in 1..L
      <4>1. Over(paper, executed, at)
        BY <1>4
      <4>2. b = "CR" \/ Len(paper) + 1 \in Port!Starts(Append(paper, b))
        BY <1>6
      <4>. QED BY ONLY UnitsAssumption, PortTypes, b \in Printed, <3>1, <4>1, <4>2, OverNow
    <3>. QED BY <1>6, <2>2, <3>2
  <2>. QED BY <2>1, <2>2
<1>. HIDE DEF L
<1>7. CASE b = "CR"
  <2>1. command' = "none" /\ IF command = "none" THEN executed' = executed ELSE executed' = Append(executed, <<command, params>>)
    BY <1>7 DEF Port!Receive, Port!Idles, Port!Execute
  <2>2. PICK to : /\ Over(paper', executed', to)
                  /\ Port!Starts(paper) = {to[n] : n \in DOMAIN executed'}
    BY <1>6, <1>7, <2>1
  <2>3. Port!Starts(paper') = Port!Starts(paper)
    BY <1>1, <1>2, <1>7
  <2>4. NoText(paper')
    BY <1>0, <1>7, NoTextGrows
  <2>. QED BY <2>1, <2>2, <2>3, <2>4 DEF Parsed
<1>8. CASE b \in Letters /\ b # "CR" /\ command # "P"
  <2>1. /\ command' = b /\ params' = <<>>
        /\ IF command = "none" THEN executed' = executed ELSE executed' = Append(executed, <<command, params>>)
    BY <1>8 DEF Port!Receive, Port!Idles, Port!Execute
  <2>2. NoText(paper)
    BY <1>4, <1>8 DEF UnderWay
  <2>3. Port!Starts(paper') = Port!Starts(paper) \cup {L + 1}
    BY <1>2, <1>8, <2>2
  <2>4. PICK to : /\ Over(paper', executed', to)
                  /\ Port!Starts(paper) = {to[n] : n \in DOMAIN executed'}
                  /\ \A n \in DOMAIN executed' : to[n] \in 1..L
    BY <1>6, <2>1, <2>3
  <2>5. Port!EndsAt(paper', L + 1, Len(paper'))
    BY <1>0 DEF Port!EndsAt
  <2>6. <<command', params'>> = Port!Command(paper', L + 1, Len(paper'))
    <3>1. SubSeq(paper', (L + 1) + 1, L + 1) = <<>>
      BY <1>0, SubSeqEmpty
    <3>2. ParamLen \in Nat
      BY DEF UnitsAssumption, Port!PortBusAssumption
    <3>3. Port!Cut(<<>>) = <<>>
      BY <3>2 DEF Port!Cut
    <3>. QED BY <1>0, <2>1, <3>1, <3>3 DEF Port!Command
  <2>7. command' # "P" => NoText(paper')
    <3>1. b # "P" => NoText(Append(paper, b))
      BY <1>0, <2>2, NoTextGrows
    <3>. QED BY <2>1, <3>1
  <2>8. UnderWay(paper', L + 1, command', params') /\ command' # "none"
    BY <1>1, <1>8, <2>1, <2>5, <2>6, <2>7 DEF UnderWay
  <2>9. \A n \in DOMAIN executed' : to[n] < L + 1
    BY <1>0, <2>4
  <2>10. L + 1 \in Port!Starts(paper')
    BY <2>3
  <2>11. Port!Starts(paper') = {to[n] : n \in DOMAIN executed'} \cup {L + 1}
    BY <2>3, <2>4
  <2>. QED BY <2>4, <2>8, <2>9, <2>10, <2>11 DEF Parsed
<1>9. CASE b # "CR" /\ (b \notin Letters \/ command = "P")
  <2>1. /\ params' = (IF command = "none" \/ Len(params) >= ParamLen THEN params ELSE Append(params, b))
        /\ command' = command /\ executed' = executed
    BY <1>9 DEF Port!Receive, Port!Idles
  <2>2. ~(b \in Letters /\ NoText(paper))
    <3>1. CASE command # "P"
      BY <1>9, <3>1
    <3>2. CASE command = "P"
      <4>1. PICK s \in Port!Starts(paper) : UnderWay(paper, s, command, params)
        BY <1>4, <3>2
      <4>2. s \in 1..L /\ paper[s] = "P"
        BY <1>3, <3>2, <4>1 DEF UnderWay, Port!Command
      <4>3. \A k \in s..L : paper[k] # "CR"
        <5>1. ASSUME NEW k \in s..L, k # s PROVE k \in s + 1..Len(paper)
          BY <1>0, <4>2, <5>1 DEF L
        <5>2. \A k \in s + 1..Len(paper) : paper[k] # "CR"
          BY <4>1 DEF UnderWay, Port!EndsAt
        <5>. QED BY <4>2, <5>1, <5>2
      <4>. QED BY <1>0, <4>2, <4>3 DEF NoText, L
    <3>. QED BY <3>1, <3>2
  <2>3. Port!Starts(paper') = Port!Starts(paper)
    BY <1>2, <2>2
  <2>4. command # "P" => b # "P"
    BY <1>1, <1>9
  <2>5. NoText(paper) /\ command # "P" => NoText(paper')
    BY <1>0, <2>4, NoTextGrows
  <2>6. CASE command = "none"
    BY <1>4, <1>5, <2>1, <2>3, <2>5, <2>6 DEF Parsed
  <2>7. CASE command # "none"
    <3>1. PICK s \in Port!Starts(paper) :
            /\ UnderWay(paper, s, command, params) /\ \A n \in DOMAIN executed : at[n] < s
            /\ Port!Starts(paper) = {at[n] : n \in DOMAIN executed} \cup {s}
      BY <1>4, <2>7
    <3>2. s \in 1..Len(paper) /\ L + 1 \notin Port!Starts(paper') /\ L + 1 \notin 1..L
      BY <1>0, <1>3, <2>3 DEF L
    <3>3. /\ Port!EndsAt(paper', s, L + 1)
          /\ <<command, IF Len(params) >= ParamLen THEN params ELSE Append(params, b)>> = Port!Command(paper', s, L + 1)
      BY <1>0, <1>9, <3>1, <3>2, EndsOn DEF UnderWay, L
    <3>4. UnderWay(paper', s, command', params')
      BY <1>0, <2>1, <2>5, <2>7, <3>1, <3>3 DEF UnderWay
    <3>. QED BY <1>5, <2>1, <2>3, <2>7, <3>1, <3>4 DEF Parsed
  <2>. QED BY <2>6, <2>7
<1>. QED BY <1>7, <1>8, <1>9

\* With the command under way behind those executed, they are what the bytes mean.
LEMMA ParsedMeans ==
  ASSUME PortTypes, Parsed(paper, executed, command, params)
  PROVE  Port!Means(paper, executed \o (IF command = "none" THEN <<>> ELSE <<<<command, params>>>>))
<1>. DEFINE L == Len(executed)
            N == Len(paper)
<1>0. /\ L \in Nat /\ DOMAIN executed = 1..L /\ executed \in Seq(Commanded) /\ <<command, params>> \in Commanded
      /\ N \in Nat /\ DOMAIN paper = 1..N
  BY LenProperties DEF PortTypes, Commanded
<1>1. PICK at : /\ Over(paper, executed, at)
                /\ IF command = "none" THEN NoText(paper) /\ Port!Starts(paper) = {at[n] : n \in DOMAIN executed}
                   ELSE \E s \in Port!Starts(paper) :
                          /\ UnderWay(paper, s, command, params) /\ \A n \in DOMAIN executed : at[n] < s
                          /\ Port!Starts(paper) = {at[n] : n \in DOMAIN executed} \cup {s}
  BY DEF Parsed
<1>2. Port!Starts(paper) \subseteq 1..N
  BY <1>0 DEF Port!Starts
<1>3. ASSUME NEW n \in DOMAIN executed
      PROVE  /\ at[n] \in 1..N
             /\ \E e \in at[n]..N : Port!EndsAt(paper, at[n], e) /\ executed[n] = Port!Command(paper, at[n], e)
  <2>1. at[n] \in 1..N
    BY <1>1, <1>2 DEF Over
  <2>2. PICK e \in at[n]..N - 1 : Port!EndsAt(paper, at[n], e) /\ executed[n] = Port!Command(paper, at[n], e)
    BY <1>1 DEF Over
  <2>3. e \in at[n]..N
    BY <1>0, <2>1
  <2>. QED BY <2>1, <2>2, <2>3
<1>. HIDE DEF L, N
<1>4. CASE command = "none"
  <2>1. executed \o <<>> = executed
    BY <1>0, ConcatEmptySeq
  <2>2. at \in [DOMAIN executed -> DOMAIN paper]
    BY <1>0, <1>1, <1>2 DEF Over
  <2>3. Port!Means(paper, executed)
    BY <1>1, <1>3, <1>4, <2>2 DEF Port!Means, Over, N
  <2>. QED BY <1>4, <2>1, <2>3
<1>5. CASE command # "none"
  <2>. DEFINE all == Append(executed, <<command, params>>)
  <2>1. executed \o <<<<command, params>>>> = all
    BY <1>0, AppendIsConcat
  <2>2. /\ DOMAIN all = 1..L + 1 /\ all[L + 1] = <<command, params>> /\ \A n \in 1..L : all[n] = executed[n]
    BY <1>0, AppendProperties, LenProperties DEF L
  <2>3. PICK s \in Port!Starts(paper) :
          /\ UnderWay(paper, s, command, params) /\ \A n \in DOMAIN executed : at[n] < s
          /\ Port!Starts(paper) = {at[n] : n \in DOMAIN executed} \cup {s}
    BY <1>1, <1>5
  <2>. DEFINE to == [n \in 1..L + 1 |-> IF n = L + 1 THEN s ELSE at[n]]
  <2>4. /\ DOMAIN to = 1..L + 1 /\ to[L + 1] = s /\ \A n \in 1..L : to[n] = at[n]
    BY <1>0
  <2>5. \A n \in 1..L + 1 : n \in 1..L \/ n = L + 1
    BY <1>0
  <2>6. to \in [1..L + 1 -> 1..N]
    BY <1>0, <1>2, <1>3, <2>5
  <2>. HIDE DEF all, to
  <2>7. ASSUME NEW m \in 1..L + 1, NEW n \in 1..L + 1, m < n PROVE to[m] < to[n]
    <3>1. m \in 1..L
      BY <1>0, <2>7
    <3>2. CASE n = L + 1
      BY <1>0, <2>3, <2>4, <3>1, <3>2
    <3>3. CASE n \in 1..L
      BY <1>0, <1>1, <2>4, <2>7, <3>1, <3>3 DEF Over
    <3>. QED BY <2>5, <3>2, <3>3
  <2>8. ASSUME NEW n \in 1..L + 1
        PROVE  \E e \in to[n]..N : Port!EndsAt(paper, to[n], e) /\ all[n] = Port!Command(paper, to[n], e)
    <3>1. CASE n = L + 1
      <4>1. N \in s..N
        BY <1>0, <1>2
      <4>. QED BY <2>2, <2>3, <2>4, <3>1, <4>1 DEF UnderWay, N
    <3>2. CASE n \in 1..L
      BY <1>0, <1>3, <2>2, <2>4, <3>2
    <3>. QED BY <2>5, <3>1, <3>2
  <2>9. Port!Starts(paper) = {to[n] : n \in 1..L + 1}
    <3>1. 1..L \subseteq 1..L + 1 /\ L + 1 \in 1..L + 1
      BY <1>0
    <3>. QED BY <1>0, <2>3, <2>4, <2>5, <3>1
  <2>10. Port!Means(paper, all)
    BY <1>0, <2>2, <2>6, <2>7, <2>8, <2>9 DEF Port!Means, N
  <2>. QED BY <1>5, <2>1, <2>10
<1>. QED BY <1>4, <1>5

LEMMA PortStarts == ASSUME UnitsAssumption, Port!Init PROVE PortInv
<1>1. /\ paper = <<>> /\ executed = <<>> /\ command = "none" /\ params = <<>> /\ ora = "none" /\ todo = <<>>
  BY DEF Port!Init
<1>2. PortTypes
  BY <1>1, EmptySeq DEF PortTypes, Printed
<1>3. Over(<<>>, <<>>, <<>>) /\ NoText(<<>>) /\ Port!Starts(<<>>) = {}
  <2>1. DOMAIN <<>> = {}
    OBVIOUS
  <2>2. <<>> \in [{} -> Port!Starts(<<>>)]
    OBVIOUS
  <2>. QED BY <2>1, <2>2 DEF Over, NoText, Port!Starts
<1>4. {(<<>>)[n] : n \in DOMAIN <<>>} = {}
  OBVIOUS
<1>5. Parsed(<<>>, <<>>, "none", <<>>)
  BY <1>3, <1>4, Zenon DEF Parsed
<1>. QED BY <1>1, <1>2, <1>5 DEF PortInv

LEMMA PortIdles == ASSUME PortInv, UNCHANGED portVars PROVE PortInv'
<1>1. UNCHANGED <<paper, executed, command, params, ora, todo>>
  BY DEF portVars
<1>. QED BY <1>1 DEF PortInv, PortTypes

\* Every routine of the program, for printing or for sound, keeps it.
LEMMA PortKeeps == ASSUME UnitsAssumption, PortInv, Port!Next PROVE PortInv'
<1>. DEFINE Writes == [ora : Printed] \cup [ca2 : Levels, cb2 : Levels]
<1>0. Values \subseteq Printed /\ Printable \subseteq Printed /\ SoundRegisters \subseteq Printed
  BY DEF UnitsAssumption, Port!PortBusAssumption, Printed
<1>a. ASSUME todo' \in Seq(Writes), ora' \in Printed, UNCHANGED <<paper, executed, command, params>>
      PROVE  PortInv'
  BY <1>a DEF PortInv, PortTypes
<1>1. ASSUME NEW b \in Printable, Port!StartPrint(b) PROVE PortInv'
  <2>1. todo' = Port!Strobed(b) /\ UNCHANGED <<ora, paper, executed, command, params>>
    BY <1>1 DEF Port!StartPrint, Port!plotter
  <2>2. Port!Strobed(b) \in Seq(Writes)
    BY <1>0 DEF Port!Strobed, Levels
  <2>3. ora \in Printed
    BY DEF PortInv, PortTypes
  <2>. QED BY <1>a, <2>1, <2>2, <2>3
<1>2. ASSUME NEW r \in SoundRegisters, NEW v \in Values, Port!StartSound(r, v) PROVE PortInv'
  <2>1. todo' = Port!Sound(r, v) /\ UNCHANGED <<ora, paper, executed, command, params>>
    BY <1>2 DEF Port!StartSound, Port!plotter
  <2>2. Port!Sound(r, v) \in Seq(Writes)
    BY <1>0 DEF Port!Sound, Levels
  <2>3. ora \in Printed
    BY DEF PortInv, PortTypes
  <2>. QED BY <1>a, <2>1, <2>2, <2>3
<1>3. ASSUME todo # <<>> PROVE Head(todo) \in Writes /\ Tail(todo) \in Seq(Writes)
  BY <1>3, HeadTailProperties DEF PortInv, PortTypes
<1>4. CASE Port!WriteOra
  <2>1. /\ todo # <<>> /\ "ora" \in DOMAIN Head(todo) /\ ora' = Head(todo).ora /\ todo' = Tail(todo)
        /\ UNCHANGED <<paper, executed, command, params>>
    BY <1>4 DEF Port!WriteOra, Port!plotter
  <2>2. Head(todo).ora \in Printed
    BY <1>3, <2>1
  <2>. QED BY <1>3, <1>a, <2>1, <2>2
<1>5. CASE Port!WritePcr
  <2>1. todo # <<>> /\ todo' = Tail(todo) /\ ora' = ora /\ Port!CheckStrobe(ca2')
    BY <1>5 DEF Port!WritePcr
  <2>2. todo' \in Seq(Writes) /\ ora \in Printed
    BY <1>3, <2>1 DEF PortInv, PortTypes
  <2>3. CASE UNCHANGED <<paper, Port!plotter>>
    <3>1. UNCHANGED <<paper, executed, command, params>>
      BY <2>3 DEF Port!plotter
    <3>. QED BY <1>a, <2>1, <2>2, <3>1
  <2>4. CASE paper' = Append(paper, ora) /\ (IF Kind = "plotter" THEN Port!Receive(ora) ELSE UNCHANGED Port!plotter)
    <3>1. paper' \in Seq(Printed)
      BY <2>2, <2>4, AppendProperties DEF PortInv, PortTypes
    <3>2. CASE Kind = "plotter"
      <4>1. Parsed(paper, executed, command, params)'
        BY <2>2, <2>4, <3>2, ReceiveParses DEF PortInv
      <4>2. executed' \in Seq(Commanded) /\ command' \in Printed /\ params' \in Seq(Printed)
        BY <2>2, <2>4, <3>2, ReceiveTypes DEF PortInv
      <4>. QED BY <2>1, <2>2, <3>1, <4>1, <4>2 DEF PortInv, PortTypes
    <3>3. CASE Kind # "plotter"
      <4>1. UNCHANGED <<executed, command, params>>
        BY <2>4, <3>3 DEF Port!plotter
      <4>. QED BY <2>1, <2>2, <3>1, <3>3, <4>1 DEF PortInv, PortTypes
    <3>. QED BY <3>2, <3>3
  <2>. QED BY <2>1, <2>3, <2>4 DEF Port!CheckStrobe
<1>. QED BY <1>1, <1>2, <1>4, <1>5 DEF Port!Next

-----------------------------------------------------------------------------
(* What the strobes take *)

\* The place of the print routine for b, and of the sound routine for r: what it has
\* still to write, with what it has put on the port.
Low    == [ca2 |-> "low", cb2 |-> "low"]
High   == [ca2 |-> "high", cb2 |-> "low"]
Select == [ca2 |-> "high", cb2 |-> "high"]
Store  == [ca2 |-> "low", cb2 |-> "high"]
Puts(b) == [ora |-> b]
Printing(b) ==
  \/ todo = <<Puts(b), Low, High>>
  \/ todo = <<Low, High>> /\ ora = b
  \/ todo = <<High>> /\ ora = b /\ strobeLow
Sounding(r, v) ==
  \/ todo = <<Puts(r), Select, Low, Puts(v), Store, Low>>
  \/ todo = <<Select, Low, Puts(v), Store, Low>> /\ ora = r
  \/ todo = <<Low, Puts(v), Store, Low>>
  \/ todo = <<Puts(v), Store, Low>>
  \/ todo = <<Store, Low>>
  \/ todo = <<Low>>

\* Of the bytes given, the first k are on the paper, in order, and else there are only
\* numbers of registers.
Given == [byte : Printable, place : Nat]
Taken(taken, bytes, k) ==
  /\ \A n \in 1..k : bytes[n].place \in 1..Len(taken) /\ taken[bytes[n].place] = bytes[n].byte
  /\ \A m, n \in 1..k : m < n => bytes[m].place < bytes[n].place
  /\ \A p \in 1..Len(taken) : taken[p] \in SoundRegisters \/ \E n \in 1..k : bytes[n].place = p
Awaits(b) ==
  Printing(b) /\ Len(sent) >= 1 /\ sent[Len(sent)] = [byte |-> b, place |-> Len(paper) + 1]
  /\ Taken(paper, sent, Len(sent) - 1)
Played == \E r \in SoundRegisters, v \in Values : Sounding(r, v)
TakingInv ==
  /\ paper \in Seq(Printed) /\ sent \in Seq(Given)
  /\ \/ (todo = <<>> \/ Played) /\ Taken(paper, sent, Len(sent))
     \/ \E b \in Printable : Awaits(b)

\* The number of a register on the paper leaves those of the bytes where they are.
LEMMA TakesRegister ==
  ASSUME NEW taken \in Seq(Printed), NEW bytes \in Seq(Given), NEW r \in SoundRegisters,
         Taken(taken, bytes, Len(bytes))
  PROVE  Append(taken, r) \in Seq(Printed) /\ Taken(Append(taken, r), bytes, Len(bytes))
<1>. DEFINE more == Append(taken, r)
            L == Len(taken)
            k == Len(bytes)
<1>1. /\ L \in Nat /\ k \in Nat /\ more \in Seq(Printed) /\ Len(more) = L + 1
      /\ \A j \in 1..L : more[j] = taken[j]
      /\ more[L + 1] = r
  BY AppendProperties, LenProperties DEF Printed
<1>2. Taken(taken, bytes, k)
  OBVIOUS
<1>. HIDE DEF more, k
<1>3. \A n \in 1..k : bytes[n].place \in 1..Len(more) /\ more[bytes[n].place] = bytes[n].byte
  BY <1>1, <1>2 DEF Taken
<1>4. \A p \in 1..Len(more) : more[p] \in SoundRegisters \/ \E n \in 1..k : bytes[n].place = p
  <2>. SUFFICES ASSUME NEW p \in 1..L + 1 PROVE more[p] \in SoundRegisters \/ \E n \in 1..k : bytes[n].place = p
    BY <1>1
  <2>1. p \in 1..L \/ p = L + 1
    BY <1>1
  <2>. QED BY <1>1, <1>2, <2>1 DEF Taken
<1>5. Taken(more, bytes, k)
  BY <1>2, <1>3, <1>4 DEF Taken
<1>. QED BY <1>1, <1>5 DEF more, k

\* The byte that is awaited joins the others.
LEMMA TakesByte ==
  ASSUME NEW taken \in Seq(Printed), NEW bytes \in Seq(Given), NEW b \in Printed,
         Len(bytes) >= 1, bytes[Len(bytes)] = [byte |-> b, place |-> Len(taken) + 1],
         Taken(taken, bytes, Len(bytes) - 1)
  PROVE  Append(taken, b) \in Seq(Printed) /\ Taken(Append(taken, b), bytes, Len(bytes))
<1>. DEFINE more == Append(taken, b)
            L == Len(taken)
            k == Len(bytes)
            at(n) == bytes[n].place
            byte(n) == bytes[n].byte
<1>1. /\ L \in Nat /\ k \in Nat /\ k >= 1 /\ more \in Seq(Printed) /\ Len(more) = L + 1
      /\ \A j \in 1..L : more[j] = taken[j]
      /\ more[L + 1] = b
  BY AppendProperties, LenProperties
<1>2. at(k) = L + 1 /\ byte(k) = b
  OBVIOUS
<1>3. /\ \A n \in 1..k - 1 : at(n) \in 1..L /\ taken[at(n)] = byte(n)
      /\ \A m, n \in 1..k - 1 : m < n => at(m) < at(n)
      /\ \A p \in 1..L : taken[p] \in SoundRegisters \/ \E n \in 1..k - 1 : at(n) = p
  BY DEF Taken
<1>. HIDE DEF more, L, k, at, byte
<1>4. \A n \in 1..k : at(n) \in 1..L + 1 /\ more[at(n)] = byte(n)
  <2>. SUFFICES ASSUME NEW n \in 1..k PROVE at(n) \in 1..L + 1 /\ more[at(n)] = byte(n)
    OBVIOUS
  <2>1. n \in 1..k - 1 \/ n = k
    BY <1>1
  <2>2. CASE n \in 1..k - 1
    <3>1. at(n) \in 1..L /\ taken[at(n)] = byte(n)
      BY <1>3, <2>2
    <3>. QED BY <1>1, <3>1
  <2>3. CASE n = k
    BY <1>1, <1>2, <2>3
  <2>. QED BY <2>1, <2>2, <2>3
<1>5. \A m, n \in 1..k : m < n => at(m) < at(n)
  <2>. SUFFICES ASSUME NEW m \in 1..k, NEW n \in 1..k, m < n PROVE at(m) < at(n)
    OBVIOUS
  <2>1. m \in 1..k - 1 /\ at(m) \in 1..L
    BY <1>1, <1>3
  <2>2. n \in 1..k - 1 \/ n = k
    BY <1>1
  <2>. QED BY <1>1, <1>2, <1>3, <2>1, <2>2
<1>6. \A p \in 1..L + 1 : more[p] \in SoundRegisters \/ \E n \in 1..k : at(n) = p
  <2>. SUFFICES ASSUME NEW p \in 1..L + 1 PROVE more[p] \in SoundRegisters \/ \E n \in 1..k : at(n) = p
    OBVIOUS
  <2>1. p \in 1..L \/ p = L + 1
    BY <1>1
  <2>2. CASE p \in 1..L
    BY <1>1, <1>3, <2>2
  <2>3. CASE p = L + 1
    BY <1>1, <1>2, <2>3
  <2>. QED BY <2>1, <2>2, <2>3
<1>7. Taken(more, bytes, k)
  BY <1>1, <1>4, <1>5, <1>6 DEF Taken, at, byte
<1>. QED BY <1>1, <1>7 DEF more, k

\* The rest of a routine.
LEMMA Rests ==
  /\ \A x : Head(<<x>>) = x /\ Tail(<<x>>) = <<>>
  /\ \A x, y : Head(<<x, y>>) = x /\ Tail(<<x, y>>) = <<y>>
  /\ \A x, y, z : Head(<<x, y, z>>) = x /\ Tail(<<x, y, z>>) = <<y, z>>
  /\ \A x, y, z, u : Head(<<x, y, z, u>>) = x /\ Tail(<<x, y, z, u>>) = <<y, z, u>>
  /\ \A x, y, z, u, v : Head(<<x, y, z, u, v>>) = x /\ Tail(<<x, y, z, u, v>>) = <<y, z, u, v>>
  /\ \A x, y, z, u, v, w : Head(<<x, y, z, u, v, w>>) = x /\ Tail(<<x, y, z, u, v, w>>) = <<y, z, u, v, w>>
  /\ \A x : <<x>> # <<>>
  /\ \A x, y : <<x, y>> # <<>>
  /\ \A x, y, z : <<x, y, z>> # <<>>
OBVIOUS

\* What is at the head of a routine, and what is not.
LEMMA RoutineWrites ==
  /\ DOMAIN Low = {"ca2", "cb2"} /\ DOMAIN High = {"ca2", "cb2"} /\ DOMAIN Select = {"ca2", "cb2"}
  /\ DOMAIN Store = {"ca2", "cb2"} /\ \A b : DOMAIN Puts(b) = {"ora"} /\ Puts(b).ora = b
  /\ Low.ca2 = "low" /\ High.ca2 = "high" /\ Select.ca2 = "high" /\ Store.ca2 = "low"
BY DEF Low, High, Select, Store, Puts

\* The routines as they start.
LEMMA Routines ==
  /\ \A b : Port!Strobed(b) = <<Puts(b), Low, High>>
  /\ \A r, v : Port!Sound(r, v) = <<Puts(r), Select, Low, Puts(v), Store, Low>>
BY DEF Port!Strobed, Port!Sound, Low, High, Select, Store, Puts

LEMMA TakingStarts == ASSUME Port!Init PROVE TakingInv
<1>1. todo = <<>> /\ paper = <<>> /\ sent = <<>>
  BY DEF Port!Init
<1>2. <<>> \in Seq(Printed) /\ <<>> \in Seq(Given) /\ Len(<<>>) = 0
  BY EmptySeq
<1>3. Taken(<<>>, <<>>, 0)
  BY <1>2 DEF Taken
<1>. QED BY <1>1, <1>2, <1>3 DEF TakingInv

LEMMA TakingIdles == ASSUME TakingInv, UNCHANGED portVars PROVE TakingInv'
<1>1. UNCHANGED <<paper, sent, todo, ora, strobeLow>>
  BY DEF portVars
<1>2. \A b : Awaits(b) => Awaits(b)'
  BY <1>1 DEF Awaits, Printing, Taken
<1>3. Played => Played'
  BY <1>1 DEF Played, Sounding
<1>. QED BY <1>1, <1>2, <1>3 DEF TakingInv, Taken

\* Between routines every byte given is on the paper.
LEMMA BetweenRoutines == ASSUME TakingInv, todo = <<>> PROVE Taken(paper, sent, Len(sent))
<1>1. \A b : ~Printing(b)
  BY Rests DEF Printing
<1>. QED BY <1>1 DEF TakingInv, Awaits

\* A write of port A is the first of its routine, or the second of a sound.
LEMMA TakingWrites == ASSUME TakingInv, Port!WriteOra PROVE TakingInv'
<1>1. /\ todo # <<>> /\ "ora" \in DOMAIN Head(todo) /\ ora' = Head(todo).ora /\ todo' = Tail(todo)
      /\ UNCHANGED <<paper, sent, strobeLow>>
  BY DEF Port!WriteOra
<1>2. ASSUME NEW b \in Printable, Awaits(b) PROVE Awaits(b)'
  <2>1. todo = <<Puts(b), Low, High>>
    BY <1>1, <1>2, Rests, RoutineWrites DEF Awaits, Printing
  <2>2. todo' = <<Low, High>> /\ ora' = b
    BY <1>1, <2>1, Rests, RoutineWrites
  <2>. QED BY <1>1, <1>2, <2>2 DEF Awaits, Printing
<1>3. ASSUME NEW r \in SoundRegisters, NEW v \in Values, Sounding(r, v) PROVE Sounding(r, v)'
  <2>1. \/ todo = <<Puts(r), Select, Low, Puts(v), Store, Low>>
        \/ todo = <<Puts(v), Store, Low>>
    BY <1>1, <1>3, Rests, RoutineWrites DEF Sounding
  <2>2. CASE todo = <<Puts(r), Select, Low, Puts(v), Store, Low>>
    BY <1>1, <2>2, Rests, RoutineWrites DEF Sounding
  <2>3. CASE todo = <<Puts(v), Store, Low>>
    BY <1>1, <2>3, Rests DEF Sounding
  <2>. QED BY <2>1, <2>2, <2>3
<1>4. Played => Played'
  BY <1>3 DEF Played
<1>. QED BY <1>1, <1>2, <1>4 DEF TakingInv

\* The strobe takes the byte of a print routine, and of a sound routine at most the
\* number of its register.
LEMMA TakingStrobes == ASSUME TakingInv, Port!WritePcr PROVE TakingInv'
<1>. DEFINE a == Head(todo).ca2
<1>1. /\ todo # <<>> /\ "ca2" \in DOMAIN Head(todo) /\ todo' = Tail(todo) /\ ora' = ora /\ sent' = sent
      /\ Port!CheckStrobe(ca2') /\ ca2' = a
  BY DEF Port!WritePcr
<1>2. IF a = "high" /\ strobeLow THEN paper' = Append(paper, ora)
      ELSE paper' = paper /\ (a = "low" => strobeLow')
  BY <1>1 DEF Port!CheckStrobe
<1>. HIDE DEF a
<1>3. ASSUME NEW b \in Printable, Awaits(b) PROVE TakingInv'
  <2>0. paper \in Seq(Printed) /\ sent \in Seq(Given) /\ b \in Printed
    BY DEF TakingInv, Printed
  <2>1. \/ todo = <<Low, High>> /\ ora = b
        \/ todo = <<High>> /\ ora = b /\ strobeLow
    BY <1>1, <1>3, Rests, RoutineWrites DEF Awaits, Printing
  <2>2. CASE todo = <<Low, High>> /\ ora = b
    <3>1. a = "low" /\ todo' = <<High>>
      BY <1>1, <2>2, Rests, RoutineWrites DEF a
    <3>2. Awaits(b)'
      BY <1>1, <1>2, <1>3, <2>2, <3>1 DEF Awaits, Printing
    <3>. QED BY <1>1, <1>2, <2>0, <3>1, <3>2 DEF TakingInv
  <2>3. CASE todo = <<High>> /\ ora = b /\ strobeLow
    <3>1. a = "high" /\ todo' = <<>>
      BY <1>1, <2>3, Rests, RoutineWrites DEF a
    <3>2. paper' = Append(paper, b)
      BY <1>2, <2>3, <3>1
    <3>3. /\ Len(sent) >= 1 /\ sent[Len(sent)] = [byte |-> b, place |-> Len(paper) + 1]
          /\ Taken(paper, sent, Len(sent) - 1)
      BY <1>3 DEF Awaits
    <3>4. Append(paper, b) \in Seq(Printed) /\ Taken(Append(paper, b), sent, Len(sent))
      BY <2>0, <3>3, TakesByte
    <3>. QED BY <1>1, <2>0, <3>1, <3>2, <3>4 DEF TakingInv
  <2>. QED BY <2>1, <2>2, <2>3
<1>4. ASSUME NEW r \in SoundRegisters, NEW v \in Values, Sounding(r, v), Taken(paper, sent, Len(sent))
      PROVE  TakingInv'
  <2>0. paper \in Seq(Printed) /\ sent \in Seq(Given)
    BY DEF TakingInv
  <2>1. \/ todo = <<Select, Low, Puts(v), Store, Low>> /\ ora = r
        \/ todo = <<Low, Puts(v), Store, Low>>
        \/ todo = <<Store, Low>>
        \/ todo = <<Low>>
    BY <1>1, <1>4, Rests, RoutineWrites DEF Sounding
  <2>2. todo' = <<>> \/ Sounding(r, v)'
    <3>1. CASE todo = <<Select, Low, Puts(v), Store, Low>>
      BY <1>1, <3>1, Rests DEF Sounding
    <3>2. CASE todo = <<Low, Puts(v), Store, Low>>
      BY <1>1, <3>2, Rests DEF Sounding
    <3>3. CASE todo = <<Store, Low>>
      BY <1>1, <3>3, Rests DEF Sounding
    <3>4. CASE todo = <<Low>>
      BY <1>1, <3>4, Rests
    <3>. QED BY <2>1, <3>1, <3>2, <3>3, <3>4
  <2>3. a = "high" => ora = r
    BY <1>1, <2>1, Rests, RoutineWrites DEF a
  <2>4. paper' = paper \/ paper' = Append(paper, r)
    BY <1>2, <2>3
  <2>5. paper' \in Seq(Printed) /\ Taken(paper', sent, Len(sent))
    BY <1>4, <2>0, <2>4, TakesRegister
  <2>. QED BY <1>1, <2>0, <2>2, <2>5 DEF TakingInv, Played
<1>5. todo # <<>>
  BY <1>1
<1>. QED BY <1>3, <1>4, <1>5 DEF TakingInv, Played

LEMMA TakingKeeps == ASSUME TakingInv, Port!Next PROVE TakingInv'
<1>0. paper \in Seq(Printed) /\ sent \in Seq(Given) /\ Len(sent) \in Nat /\ Len(paper) \in Nat
  BY LenProperties DEF TakingInv
<1>1. ASSUME NEW b \in Printable, Port!StartPrint(b) PROVE TakingInv'
  <2>. DEFINE item == [byte |-> b, place |-> Len(paper) + 1]
              more == Append(sent, item)
  <2>1. todo = <<>> /\ todo' = <<Puts(b), Low, High>> /\ sent' = more /\ UNCHANGED <<paper, ora, strobeLow>>
    BY <1>1, Routines DEF Port!StartPrint
  <2>2. item \in Given
    BY <1>0 DEF Given
  <2>3. /\ more \in Seq(Given) /\ Len(more) = Len(sent) + 1 /\ more[Len(sent) + 1] = item
        /\ \A n \in 1..Len(sent) : more[n] = sent[n]
    <3>. HIDE DEF item
    <3>. QED BY <1>0, <2>2, AppendProperties
  <2>4. Taken(paper, sent, Len(sent))
    BY <2>1, BetweenRoutines
  <2>. HIDE DEF more
  <2>5. Taken(paper, more, Len(sent))
    BY <1>0, <2>3, <2>4 DEF Taken
  <2>6. Awaits(b)'
    <3>1. Len(more) >= 1 /\ more[Len(more)] = item /\ Len(more) - 1 = Len(sent)
      BY <1>0, <2>3
    <3>. QED BY <2>1, <2>5, <3>1 DEF Awaits, Printing, item
  <2>. QED BY <1>0, <2>1, <2>3, <2>6 DEF TakingInv
<1>2. ASSUME NEW r \in SoundRegisters, NEW v \in Values, Port!StartSound(r, v) PROVE TakingInv'
  <2>1. /\ todo = <<>> /\ todo' = <<Puts(r), Select, Low, Puts(v), Store, Low>>
        /\ UNCHANGED <<paper, sent>>
    BY <1>2, Routines DEF Port!StartSound
  <2>2. Played'
    BY <2>1 DEF Played, Sounding
  <2>. QED BY <1>0, <2>1, <2>2, BetweenRoutines DEF TakingInv
<1>. QED BY <1>1, <1>2, TakingWrites, TakingStrobes DEF Port!Next

\* The property: with the byte under way, if any, where it is to be.
LEMMA TakingPrints == ASSUME TakingInv PROVE Port!TakesPrinted
<1>. DEFINE at(n) == sent[n].place
            k == Len(sent)
<1>0. /\ DOMAIN sent = 1..k /\ DOMAIN paper = 1..Len(paper) /\ k \in Nat /\ Len(paper) \in Nat
  BY LenProperties DEF TakingInv
<1>1. CASE Taken(paper, sent, k)
  BY <1>0, <1>1 DEF Port!TakesPrinted, Taken
<1>2. ASSUME NEW b \in Printable, Awaits(b) PROVE Port!TakesPrinted
  <2>1. todo # <<>>
    BY <1>2, Rests DEF Awaits, Printing
  <2>2. k >= 1 /\ at(k) = Len(paper) + 1 /\ Taken(paper, sent, k - 1)
    BY <1>2 DEF Awaits
  <2>3. \A n \in 1..k : n < k => n \in 1..k - 1
    <3>1. ASSUME NEW j \in Nat PROVE \A n \in 1..j : n < j => n \in 1..j - 1
      OBVIOUS
    <3>2. k \in Nat
      BY <1>0
    <3>. HIDE DEF k
    <3>. QED BY <3>1, <3>2
  <2>4. \A m, n \in 1..k : m < n => at(m) < at(n)
    <3>. SUFFICES ASSUME NEW m \in 1..k, NEW n \in 1..k, m < n PROVE at(m) < at(n)
      OBVIOUS
    <3>1. m \in 1..k - 1 /\ at(m) \in 1..Len(paper)
      BY <1>0, <2>2 DEF Taken
    <3>2. n \in 1..k - 1 \/ n = k
      <4>1. ASSUME NEW j \in Nat, NEW i \in 1..j PROVE i \in 1..j - 1 \/ i = j
        OBVIOUS
      <4>2. k \in Nat
        BY <1>0
      <4>. HIDE DEF k, at
      <4>. QED BY <4>1, <4>2
    <3>3. CASE n \in 1..k - 1
      BY <2>2, <3>1, <3>3 DEF Taken
    <3>4. CASE n = k
      <4>. HIDE DEF at
      <4>. QED BY <1>0, <2>2, <3>1, <3>4
    <3>. QED BY <3>2, <3>3, <3>4
  <2>5. \A p \in 1..Len(paper) : paper[p] \in SoundRegisters \/ \E n \in 1..k : at(n) = p
    <3>1. \A n \in 1..k - 1 : n \in 1..k
      BY <1>0
    <3>. QED BY <2>2, <3>1 DEF Taken
  <2>6. \A n \in 1..k : n < k \/ todo = <<>> => at(n) \in 1..Len(paper) /\ paper[at(n)] = sent[n].byte
    BY <2>1, <2>2, <2>3 DEF Taken
  <2>. QED BY <1>0, <2>4, <2>5, <2>6 DEF Port!TakesPrinted
<1>. QED BY <1>1, <1>2 DEF TakingInv

-----------------------------------------------------------------------------
(* The theorems *)

\* ay_generate: for every rate, period and writing of the registers between the
\* samples, the volume is the one the data sheet gives for the ticks since the shape
\* was written, for the shapes that do not run on and hold (EnvelopeRight of the runs).
THEOREM EnvelopeIsRight == ASSUME EnvelopesRun PROVE DeviceSpec => []EnvelopeRight
<1>1. DeviceInit => EnvelopeInv
  BY UnitsAssumption, EnvelopeStarts DEF DeviceInit
<1>2. ASSUME EnvelopeInv, [DeviceNext]_devicesVars PROVE EnvelopeInv'
  <2>1. CASE Sound!Next
    BY <1>2, <2>1, UnitsAssumption, EnvelopeKeeps
  <2>2. CASE UNCHANGED soundVars
    BY <1>2, <2>2, EnvelopeIdles
  <2>. QED BY <1>2, <2>1, <2>2 DEF DeviceNext, devicesVars
<1>3. EnvelopeInv => EnvelopeRight
  BY UnitsAssumption, EnvelopeSounds DEF EnvelopeRight
<1>. QED BY <1>1, <1>2, <1>3, PTL DEF DeviceSpec

\* emulator_run, for --type-keys: the keys the Oric sees come down are those of the
\* text in its order, for every text without two ends of line in a row or different
\* neighbours on one key (TypedInOrder of the runs).
THEOREM TypesInOrder == ASSUME TextsTypeable PROVE DeviceSpec => []TypedInOrder
<1>1. DeviceInit => TypingInv
  BY TypingStarts DEF DeviceInit
<1>2. ASSUME TypingInv, [DeviceNext]_devicesVars PROVE TypingInv'
  <2>1. CASE Keys!Next
    BY <1>2, <2>1, TypingKeeps
  <2>2. CASE UNCHANGED keysVars
    BY <1>2, <2>2, TypingIdles
  <2>. QED BY <1>2, <2>1, <2>2 DEF DeviceNext, devicesVars
<1>3. TypingInv => TypedInOrder
  BY DEF TypingInv, TypedInOrder, Keys!TypedInOrder
<1>. QED BY <1>1, <1>2, <1>3, PTL DEF DeviceSpec

\* oric_printer_check_strobe and mcp40_receive_byte: the bytes the program prints are
\* each taken once, in their order, and what is taken besides are numbers of registers
\* the sound routine left on the port; of all these bytes the plotter executes the
\* commands they mean, in order, with their parameters cut to the room for them
\* (PlotterObeys of the runs).
THEOREM PlotterIsObeyed == DeviceSpec => []PlotterObeys
<1>. DEFINE Inv == PortInv /\ TakingInv
<1>1. DeviceInit => Inv
  BY UnitsAssumption, PortStarts, TakingStarts DEF DeviceInit
<1>2. ASSUME Inv, [DeviceNext]_devicesVars PROVE Inv'
  <2>1. CASE Port!Next
    BY <1>2, <2>1, UnitsAssumption, PortKeeps, TakingKeeps
  <2>2. CASE UNCHANGED portVars
    BY <1>2, <2>2, PortIdles, TakingIdles
  <2>. QED BY <1>2, <2>1, <2>2 DEF DeviceNext, devicesVars
<1>3. Inv => PlotterObeys
  BY ParsedMeans, TakingPrints DEF PortInv, PlotterObeys, Port!PlotterObeys
<1>. HIDE DEF Inv
<1>. QED BY <1>1, <1>2, <1>3, PTL DEF DeviceSpec
=============================================================================
