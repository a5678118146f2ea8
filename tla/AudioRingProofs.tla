-------------------------- MODULE AudioRingProofs ---------------------------
(* The audio ring for every set of clients, every size of the ring and of a    *)
(* callback, and any pattern of partial sends: the positions, which wrap around, *)
(* stand for numbers of the stream, which do not.                             *)
EXTENDS AudioRing, TLAPS, SequenceTheorems

Once(list) == \A i, j \in 1..Len(list) : list[i] = list[j] => i = j

\* The samples written so far, and those that may still be written before the next
\* pass of the server thread: one pass apart they are at most Most.
Written == next - 1
Most    == MaxPushes * Chunk
ToCome  == left + (MaxPushes - pushes) * Chunk

\* The ring holds the last samples of the stream, each at its number's remainder.
RingInv ==
  /\ mutex \in {"free", "audio"} /\ left \in Nat /\ (mutex = "free" <=> left = 0)
  /\ pushes \in 0..MaxPushes /\ next \in Nat \ {0}
  /\ writePos = (Written % Ring) /\ ring \in [Positions -> Nat]
  /\ \A n \in 1..Written : next - n <= Ring => ring[(n - 1) % Ring] = n

\* The two arrays are of one length, and a client is in them once.
TablesInv ==
  /\ clients \in Seq(Clients) /\ readPos \in Seq(Positions) /\ Len(readPos) = Len(clients)
  /\ Once(clients) /\ heard \in [Clients -> Nat]
  /\ serverPc \in {"idle", "send", "second"} /\ at \in Nat /\ snap \in Positions
  /\ serverPc # "idle" => at <= Len(clients)
  /\ serverPc = "second" => at > 0 /\ snap > 0

\* S is the number of the last sample of the snapshot, H[i] that of the last sample
\* before the position of client i.  Those that had their turn are at the snapshot,
\* the others at most a pass behind it.
Places(S, H) ==
  /\ \A i \in 1..Len(clients) : (H[i] % Ring) = readPos[i]
  /\ serverPc = "idle" => \A i \in 1..Len(clients) : Written + ToCome - H[i] <= Most
  /\ serverPc # "idle" =>
       /\ (S % Ring) = snap /\ Written + ToCome - S <= Most
       /\ \A i \in 1..Len(clients) : IF i > at THEN H[i] = S ELSE H[i] <= S /\ S - H[i] <= Most
  /\ serverPc = "second" => H[at] <= S - snap

\* The last sample a client was sent is the one before its position; between the
\* two sends of a wrapped turn it is the last of the ring.  A slow client may have
\* been sent less.
Mark(S, H, i) == IF serverPc = "second" /\ i = at THEN S - snap ELSE H[i]
HeardUpTo(S, H) ==
  \A i \in 1..Len(clients) :
    /\ heard[clients[i]] <= Mark(S, H, i)
    /\ clients[i] \notin Slow => heard[clients[i]] = Mark(S, H, i)

StreamInv == \E S \in 0..Written, H \in [1..Len(clients) -> 0..Written] : Places(S, H) /\ HeardUpTo(S, H)
IInv == RingInv /\ TablesInv /\ StreamInv /\ StreamWhole

-----------------------------------------------------------------------------
(* Remainders *)

LEMMA DivMod ==
  ASSUME NEW L \in Nat \ {0}, NEW x \in Nat
  PROVE  x \div L \in Nat /\ (x % L) \in 0..L - 1 /\ x = L * (x \div L) + (x % L)
OBVIOUS

LEMMA ModUnique ==
  ASSUME NEW L \in Nat \ {0}, NEW x \in Nat, NEW q \in Nat, NEW r \in 0..L - 1, x = L * q + r
  PROVE  (x % L) = r
OBVIOUS

\* Counting on without reaching the end of the ring ...
LEMMA ModAdd ==
  ASSUME NEW L \in Nat \ {0}, NEW x \in Nat, NEW k \in Nat, (x % L) + k < L
  PROVE  ((x + k) % L) = (x % L) + k
<1>. DEFINE q == x \div L
            r == x % L
<1>1. q \in Nat /\ r \in 0..L - 1 /\ x = L * q + r
  BY DivMod
<1>2. r + k < L
  OBVIOUS
<1>. HIDE DEF q, r
<1>3. x + k = L * q + (r + k) /\ r + k \in 0..L - 1 /\ x + k \in Nat
  BY <1>1, <1>2
<1>4. ((x + k) % L) = r + k
  BY <1>1, <1>3, ModUnique
<1>. QED BY <1>4 DEF r

\* ... and one sample further, wherever that is.
LEMMA ModNext ==
  ASSUME NEW L \in Nat \ {0}, NEW x \in Nat
  PROVE  (((x % L) + 1) % L) = ((x + 1) % L)
<1>. DEFINE q == x \div L
            r == x % L
<1>1. q \in Nat /\ r \in 0..L - 1 /\ x = L * q + r
  BY DivMod
<1>. HIDE DEF q, r
<1>2. CASE r + 1 < L
  <2>1. x + 1 = L * q + (r + 1) /\ r + 1 \in 0..L - 1 /\ r + 1 = L * 0 + (r + 1) /\ r + 1 \in Nat /\ x + 1 \in Nat
    BY <1>1, <1>2
  <2>2. ((x + 1) % L) = r + 1 /\ ((r + 1) % L) = r + 1
    BY <1>1, <2>1, ModUnique
  <2>. QED BY <2>2 DEF r
<1>3. CASE r + 1 = L
  <2>1. x + 1 = L * q + L /\ L * q + L = L * (q + 1) + 0 /\ q + 1 \in Nat /\ 0 \in 0..L - 1
    BY <1>1, <1>3
  <2>2. r + 1 = L * 1 + 0 /\ r + 1 \in Nat /\ x + 1 \in Nat
    BY <1>1, <1>3
  <2>3. ((x + 1) % L) = 0 /\ ((r + 1) % L) = 0
    BY <1>1, <2>1, <2>2, ModUnique
  <2>. QED BY <2>3 DEF r
<1>. QED BY <1>1, <1>2, <1>3

\* A bound on a difference, when the sum it starts from is the same.
LEMMA Shift ==
  ASSUME NEW a \in Int, NEW b \in Int, NEW c \in Int, NEW d \in Int, NEW k \in Int, NEW m \in Int,
         a + b = c + d, c + d - k <= m
  PROVE  a + b - k <= m
OBVIOUS

\* What the positions of two samples less than a ring apart say of their distance.
LEMMA ModApart ==
  ASSUME NEW L \in Nat \ {0}, NEW x \in Nat, NEW y \in Nat, x <= y, y - x < L
  PROVE  /\ (y % L) = (x % L) <=> y = x
         /\ (y % L) >= (x % L) => y - x = (y % L) - (x % L)
         /\ (y % L) < (x % L) => y - x = L - (x % L) + (y % L)
<1>. DEFINE p == x \div L
            q == y \div L
            r == x % L
            s == y % L
<1>1. p \in Nat /\ r \in 0..L - 1 /\ x = L * p + r
  BY DivMod
<1>2. q \in Nat /\ s \in 0..L - 1 /\ y = L * q + s
  BY DivMod
<1>. HIDE DEF p, q, r, s
<1>3. CASE q = p
  <2>1. y - x = s - r
    BY <1>1, <1>2, <1>3
  <2>. QED BY <1>1, <1>2, <2>1 DEF r, s
<1>4. CASE q = p + 1
  <2>1. L * q = L * p + L
    BY <1>1, <1>4
  <2>2. y - x = L + s - r
    BY <1>1, <1>2, <2>1
  <2>. QED BY <1>1, <1>2, <2>2 DEF r, s
<1>5. ASSUME q >= p + 2 PROVE FALSE
  <2>1. PICK d \in Nat : q = p + 2 + d
    <3>1. q - (p + 2) \in Nat /\ q = p + 2 + (q - (p + 2))
      BY <1>1, <1>2, <1>5
    <3>. QED BY <3>1
  <2>2. L * q = L * p + (L * 2 + L * d) /\ L * d \in Nat
    BY <1>1, <2>1
  <2>. QED BY <1>1, <1>2, <2>2
<1>6. ASSUME q < p PROVE FALSE
  <2>1. PICK d \in Nat : p = q + 1 + d
    <3>1. p - (q + 1) \in Nat /\ p = q + 1 + (p - (q + 1))
      BY <1>1, <1>2, <1>6
    <3>. QED BY <3>1
  <2>2. L * p = L * q + (L + L * d) /\ L * d \in Nat
    BY <1>2, <2>1
  <2>. QED BY <1>1, <1>2, <2>2
<1>. QED BY <1>1, <1>2, <1>3, <1>4, <1>5, <1>6

\* The last sample before the ring's first cell was overwritten or filled.
LEMMA ModStart ==
  ASSUME NEW L \in Nat \ {0}, NEW x \in Nat
  PROVE  x - (x % L) \in Nat /\ ((x - (x % L)) % L) = 0
<1>. DEFINE start == x - (x % L)
<1>1. x \div L \in Nat /\ (x % L) \in 0..L - 1 /\ x = L * (x \div L) + (x % L)
  BY DivMod
<1>2. L * (x \div L) \in Nat /\ 0 \in 0..L - 1
  BY <1>1
<1>3. start = L * (x \div L) + 0 /\ start \in Nat
  BY <1>1, <1>2
<1>. HIDE DEF start
<1>4. (start % L) = 0
  BY <1>1, <1>2, <1>3, ModUnique
<1>. QED BY <1>3, <1>4 DEF start

-----------------------------------------------------------------------------
(* What is still to come *)

LEMMA Sizes ==
  ASSUME AudioRingAssumption
  PROVE  /\ Ring \in Nat \ {0} /\ Chunk \in Nat \ {0} /\ MaxPushes \in Nat \ {0}
         /\ Most \in Nat \ {0} /\ 2 * Most <= Ring
<1>1. Ring \in Nat \ {0} /\ Chunk \in Nat \ {0} /\ MaxPushes \in Nat \ {0} /\ 2 * MaxPushes * Chunk <= Ring
  BY DEF AudioRingAssumption
<1>2. MaxPushes * Chunk \in Nat /\ MaxPushes * Chunk > 0
  BY <1>1
<1>3. 2 * MaxPushes * Chunk = 2 * (MaxPushes * Chunk)
  BY <1>1
<1>. QED BY <1>1, <1>2, <1>3 DEF Most

LEMMA ToComeBounds ==
  ASSUME AudioRingAssumption, NEW p \in 0..MaxPushes
  PROVE  /\ (MaxPushes - p) * Chunk \in Nat /\ (MaxPushes - p) * Chunk <= Most
         /\ p < MaxPushes => (MaxPushes - (p + 1)) * Chunk = (MaxPushes - p) * Chunk - Chunk
         /\ (MaxPushes - 0) * Chunk = Most
<1>1. Chunk \in Nat /\ MaxPushes \in Nat /\ p \in Nat /\ p <= MaxPushes
  BY Sizes
<1>2. p * Chunk \in Nat /\ (MaxPushes - p) * Chunk = Most - p * Chunk
  BY <1>1 DEF Most
<1>3. (MaxPushes - p) * Chunk \in Nat
  BY <1>1
<1>4. p < MaxPushes => (MaxPushes - (p + 1)) * Chunk = (MaxPushes - p) * Chunk - Chunk
  BY <1>1
<1>5. (MaxPushes - 0) * Chunk = Most
  BY <1>1 DEF Most
<1>6. Most \in Nat
  BY Sizes
<1>. QED BY <1>2, <1>3, <1>4, <1>5, <1>6

LEMMA ToComeNat == ASSUME AudioRingAssumption, RingInv
                   PROVE  Written \in Nat /\ ToCome \in Nat /\ (left = 0 => ToCome <= Most)
<1>1. (MaxPushes - pushes) * Chunk \in Nat /\ (MaxPushes - pushes) * Chunk <= Most
  BY ToComeBounds DEF RingInv
<1>. QED BY <1>1 DEF Written, ToCome, RingInv

-----------------------------------------------------------------------------
(* The callback *)

LEMMA LockKeeps ==
  ASSUME AudioRingAssumption, RingInv, AudioLock
  PROVE  RingInv' /\ Written' = Written /\ ToCome' = ToCome
<1>1. left = 0 /\ left' = Chunk /\ mutex' = "audio" /\ UNCHANGED <<next, ring, writePos>>
  BY DEF AudioLock, RingInv
<1>2. pushes' = pushes + 1 /\ pushes' \in 0..MaxPushes
  BY Sizes DEF AudioLock, RingInv
<1>3. (MaxPushes - pushes') * Chunk = (MaxPushes - pushes) * Chunk - Chunk /\ (MaxPushes - pushes) * Chunk \in Nat
  BY <1>2, ToComeBounds DEF AudioLock, RingInv
<1>4. ToCome' = ToCome
  BY <1>1, <1>3, Sizes DEF ToCome
<1>. QED BY <1>1, <1>2, <1>4, Sizes DEF RingInv, Written

LEMMA WriteKeeps ==
  ASSUME AudioRingAssumption, RingInv, WriteSample
  PROVE  RingInv' /\ Written' = Written + 1 /\ ToCome' = ToCome - 1
<1>1. /\ next' = next + 1 /\ left > 0 /\ left' = left - 1 /\ mutex' = (IF left = 1 THEN "free" ELSE "audio")
      /\ pushes' = pushes /\ writePos' = ((writePos + 1) % Ring)
      /\ ring' = [ring EXCEPT ![writePos] = next]
  BY DEF WriteSample, RingInv
<1>2. Written \in Nat /\ Written' = Written + 1 /\ Written + 1 = next
  BY <1>1 DEF Written, RingInv
<1>3. ToCome' = ToCome - 1
  BY <1>1, ToComeBounds DEF ToCome, RingInv
<1>4. writePos' = (Written' % Ring) /\ writePos \in Positions
  BY <1>1, <1>2, ModNext, DivMod, Sizes DEF RingInv, Positions
<1>5. ring' \in [Positions -> Nat]
  BY <1>1, <1>4 DEF RingInv
<1>6. ASSUME NEW n \in 1..Written', next' - n <= Ring PROVE ring'[(n - 1) % Ring] = n
  <2>1. CASE n = next
    <3>1. n - 1 = Written
      BY <1>2, <2>1
    <3>2. ((n - 1) % Ring) = writePos
      BY <3>1 DEF RingInv
    <3>. QED BY <1>1, <1>4, <2>1, <3>2 DEF RingInv
  <2>2. CASE n # next
    <3>0. Ring \in Nat \ {0} /\ next \in Nat /\ n \in Nat /\ n >= 1 /\ n <= Written + 1 /\ (next + 1) - n <= Ring
      BY <1>1, <1>2, <1>6, Sizes DEF RingInv
    <3>1. n \in 1..Written /\ next - n <= Ring /\ n - 1 \in Nat /\ n - 1 <= Written /\ Written - (n - 1) < Ring
          /\ Written # n - 1
      BY <1>2, <2>2, <3>0
    <3>2. ((n - 1) % Ring) # writePos
      <4>. DEFINE m == n - 1
      <4>. HIDE DEF m
      <4>1. m \in Nat /\ m <= Written /\ Written - m < Ring /\ Written # m
        BY <3>1 DEF m
      <4>2. (Written % Ring) # (m % Ring)
        BY <1>2, <4>1, ModApart, Sizes
      <4>. QED BY <4>2 DEF RingInv, m
    <3>3. ((n - 1) % Ring) \in Positions
      BY <3>1, DivMod, Sizes DEF Positions
    <3>4. ring[(n - 1) % Ring] = n
      BY <3>1 DEF RingInv
    <3>. QED BY <1>1, <3>2, <3>3, <3>4 DEF RingInv
  <2>. QED BY <2>1, <2>2
<1>7. left' \in Nat /\ mutex' \in {"free", "audio"} /\ (mutex' = "free" <=> left' = 0)
  BY <1>1 DEF RingInv
<1>8. next' \in Nat \ {0}
  BY <1>1 DEF RingInv
<1>. QED BY <1>1, <1>2, <1>3, <1>4, <1>5, <1>6, <1>7, <1>8 DEF RingInv

\* A pass of the server thread leaves the ring alone.
LEMMA PassKeeps ==
  ASSUME AudioRingAssumption, RingInv, UNCHANGED writer, pushes' = 0
  PROVE  RingInv' /\ Written' = Written /\ ToCome' = left + Most
<1>1. MaxPushes \in Nat /\ 0 \in 0..MaxPushes
  BY Sizes
<1>2. (MaxPushes - 0) * Chunk = Most
  BY <1>1, ToComeBounds
<1>. QED BY <1>1, <1>2 DEF RingInv, Written, ToCome, writer

LEMMA RingUnchanged ==
  ASSUME RingInv, UNCHANGED <<writer, pushes>>
  PROVE  RingInv' /\ Written' = Written /\ ToCome' = ToCome
BY DEF RingInv, Written, ToCome, writer

LEMMA RingStep == ASSUME AudioRingAssumption, RingInv, [Next]_vars PROVE RingInv'
<1>1. CASE PassNobody \/ Snapshot
  BY <1>1, PassKeeps DEF PassNobody, Snapshot
<1>2. CASE UNCHANGED <<writer, pushes>>
  BY <1>2, RingUnchanged
<1>3. ASSUME NEW c \in Clients, AddClient(c) PROVE RingInv'
  BY <1>2, <1>3 DEF AddClient
<1>4. CASE SendNothing \/ SendFirst \/ SendSecond \/ SendFails \/ SendDone \/ UNCHANGED vars
  BY <1>2, <1>4 DEF SendNothing, SendFirst, SendSecond, SendFails, SendDone, Keep, vars
<1>. QED BY <1>1, <1>3, <1>4, LockKeeps, WriteKeeps DEF Next

-----------------------------------------------------------------------------
(* Sequences without one element *)

LEMMA Removed ==
  ASSUME NEW T, NEW s \in Seq(T), NEW i \in 1..Len(s)
  PROVE  /\ RemoveAt(s, i) \in Seq(T) /\ Len(RemoveAt(s, i)) = Len(s) - 1
         /\ \A j \in 1..Len(s) - 1 : RemoveAt(s, i)[j] = IF j < i THEN s[j] ELSE s[j + 1]
<1>. DEFINE before == SubSeq(s, 1, i - 1)
            after == SubSeq(s, i + 1, Len(s))
            rest == RemoveAt(s, i)
<1>0. Len(s) \in Nat /\ i \in Nat /\ i >= 1 /\ i <= Len(s) /\ \A j \in 1..Len(s) : s[j] \in T
  BY LenProperties, ElementOfSeq
<1>1. before \in Seq(T) /\ Len(before) = i - 1 /\ \A j \in 1..i - 1 : before[j] = s[j]
  <2>1. 1 \in Int /\ i - 1 \in Int /\ \A j \in 1..i - 1 : s[j] \in T
    BY <1>0
  <2>2. /\ before \in Seq(T) /\ Len(before) = IF 1 <= i - 1 THEN (i - 1) - 1 + 1 ELSE 0
        /\ \A j \in 1..((i - 1) - 1 + 1) : before[j] = s[1 + j - 1]
    BY <2>1, SubSeqProperties
  <2>. QED BY <2>2, <1>0
<1>2. after \in Seq(T) /\ Len(after) = Len(s) - i /\ \A j \in 1..Len(s) - i : after[j] = s[i + j]
  BY <1>0, SubSeqProperties
<1>3. rest = before \o after
  BY DEF RemoveAt
<1>. HIDE DEF before, after, rest
<1>4. /\ rest \in Seq(T) /\ Len(rest) = Len(before) + Len(after)
      /\ \A j \in 1..Len(before) + Len(after) :
           rest[j] = IF j <= Len(before) THEN before[j] ELSE after[j - Len(before)]
  BY <1>1, <1>2, <1>3, ConcatProperties
<1>5. ASSUME NEW j \in 1..Len(s) - 1 PROVE rest[j] = IF j < i THEN s[j] ELSE s[j + 1]
  <2>0. j \in Nat /\ j >= 1 /\ j <= Len(s) - 1 /\ rest[j] = IF j <= i - 1 THEN before[j] ELSE after[j - (i - 1)]
    BY <1>0, <1>1, <1>2, <1>4
  <2>1. CASE j < i
    <3>1. j \in 1..i - 1 /\ rest[j] = before[j]
      BY <1>0, <2>0, <2>1
    <3>. QED BY <1>1, <2>1, <3>1
  <2>2. CASE j >= i
    <3>1. rest[j] = after[j - (i - 1)] /\ j - (i - 1) \in 1..Len(s) - i
      BY <1>0, <2>0, <2>2
    <3>2. after[j - (i - 1)] = s[i + (j - (i - 1))] /\ i + (j - (i - 1)) = j + 1
      BY <1>0, <1>2, <3>1
    <3>. QED BY <2>0, <2>2, <3>1, <3>2
  <2>. QED BY <1>0, <2>0, <2>1, <2>2
<1>. QED BY <1>0, <1>1, <1>2, <1>4, <1>5 DEF rest

-----------------------------------------------------------------------------
(* What the ring delivers *)

\* The n samples after number base, when they are still in the ring and do not wrap,
\* are in order and go on from what the client has heard.
LEMMA Delivers ==
  ASSUME AudioRingAssumption, RingInv, StreamWhole, heard \in [Clients -> Nat], NEW c \in Clients,
         NEW base \in Nat, NEW n \in Nat \ {0}, NEW p, p = (base % Ring), p + n <= Ring,
         base + n <= Written, Written - base <= Ring,
         heard[c] <= base, c \notin Slow => heard[c] = base,
         Deliver(c, p, n)
  PROVE  StreamWhole' /\ heard' = [heard EXCEPT ![c] = base + n]
<1>0. Ring \in Nat \ {0} /\ p \in 0..Ring - 1
  BY Sizes, DivMod
<1>1. Ring \in Nat \ {0} /\ p \in 0..Ring - 1 /\ Written \in Nat /\ next = Written + 1
  BY <1>0 DEF Written, RingInv
<1>2. ASSUME NEW k \in 0..n - 1 PROVE ring[p + k] = base + k + 1
  <2>. DEFINE m == base + k + 1
  <2>1. (base % Ring) + k < Ring /\ k \in Nat
    BY <1>1
  <2>2. ((base + k) % Ring) = p + k
    BY <1>1, <2>1, ModAdd
  <2>3. m \in 1..Written /\ next - m <= Ring /\ m - 1 = base + k
    BY <1>1
  <2>. HIDE DEF m
  <2>4. ring[(m - 1) % Ring] = m
    BY <2>3 DEF RingInv
  <2>. QED BY <2>2, <2>3, <2>4 DEF m
<1>3. ring[p] = base + 1
  <2>1. 0 \in 0..n - 1 /\ p + 0 = p
    BY <1>1
  <2>. QED BY <1>2, <2>1
<1>4. ring[p + n - 1] = base + n
  <2>1. n - 1 \in 0..n - 1 /\ p + (n - 1) = p + n - 1
    BY <1>1
  <2>2. ring[p + (n - 1)] = base + (n - 1) + 1
    BY <1>2, <2>1
  <2>. QED BY <2>1, <2>2
<1>5. ASSUME NEW k \in 1..n - 1 PROVE ring[p + k] > ring[p + k - 1]
  <2>1. k \in 0..n - 1 /\ k - 1 \in 0..n - 1 /\ p + (k - 1) = p + k - 1
    BY <1>1
  <2>2. ring[p + k] = base + k + 1 /\ ring[p + (k - 1)] = base + (k - 1) + 1
    BY <1>2, <2>1
  <2>. QED BY <2>1, <2>2
<1>6. ASSUME c \notin Slow, NEW k \in 0..n - 1 PROVE ring[p + k] = heard[c] + 1 + k
  BY <1>2, <1>6
<1>7. ordered' = (ordered /\ ring[p] > heard[c] /\ \A k \in 1..n - 1 : ring[p + k] > ring[p + k - 1])
  BY DEF Deliver
<1>8. gapless' = (gapless /\ (c \in Slow \/ \A k \in 0..n - 1 : ring[p + k] = heard[c] + 1 + k))
  BY DEF Deliver
<1>9. ring[p] > heard[c]
  BY <1>3
<1>10. ordered'
  BY <1>5, <1>7, <1>9 DEF StreamWhole
<1>11. gapless'
  BY <1>6, <1>8 DEF StreamWhole
<1>12. heard' = [heard EXCEPT ![c] = base + n]
  BY <1>4 DEF Deliver
<1>. QED BY <1>10, <1>11, <1>12 DEF StreamWhole

-----------------------------------------------------------------------------
(* The steps of a turn.  S and H are the numbers the positions stand for.       *)

Numbers(S, H) == S \in 0..Written /\ H \in [1..Len(clients) -> 0..Written] /\ Places(S, H) /\ HeardUpTo(S, H)
Standing == RingInv /\ TablesInv /\ StreamWhole

\* The client at hand: its samples up to the snapshot are all in the ring.
LEMMA TurnFacts ==
  ASSUME AudioRingAssumption, Standing, NEW S, NEW H, Numbers(S, H), serverPc # "idle", at > 0
  PROVE  /\ at \in 1..Len(clients) /\ clients[at] \in Clients /\ heard[clients[at]] \in Nat
         /\ S \in Nat /\ S <= Written /\ Written - S <= Most /\ (S % Ring) = snap
         /\ H[at] \in Nat /\ H[at] <= S /\ S - H[at] < Ring /\ Written - H[at] <= Ring
         /\ (H[at] % Ring) = readPos[at] /\ readPos[at] \in Positions /\ snap \in Positions
<1>1. at \in 1..Len(clients) /\ at \in Nat
  BY LenProperties DEF Standing, TablesInv
<1>2. clients[at] \in Clients /\ readPos[at] \in Positions /\ heard[clients[at]] \in Nat
  BY <1>1, ElementOfSeq DEF Standing, TablesInv
<1>3. Written \in Nat /\ ToCome \in Nat
  BY ToComeNat DEF Standing
<1>4. H[at] \in 0..Written /\ S \in 0..Written
  BY <1>1 DEF Numbers
<1>5. (H[at] % Ring) = readPos[at] /\ (S % Ring) = snap /\ Written + ToCome - S <= Most
      /\ H[at] <= S /\ S - H[at] <= Most
  BY <1>1 DEF Numbers, Places
<1>6. Most \in Nat \ {0} /\ 2 * Most <= Ring /\ Ring \in Nat
  BY Sizes
<1>7. Written - S <= Most /\ S - H[at] < Ring /\ Written - H[at] <= Ring
  BY <1>3, <1>4, <1>5, <1>6
<1>. QED BY <1>1, <1>2, <1>4, <1>5, <1>7 DEF Standing, TablesInv

\* What is to be sent: all up to the snapshot, or all but what wrapped around.
LEMMA TurnLength ==
  ASSUME AudioRingAssumption, Standing, NEW S, NEW H, Numbers(S, H), serverPc = "send", at > 0,
         readPos[at] # snap
  PROVE  /\ FirstLen \in Nat \ {0} /\ readPos[at] + FirstLen <= Ring
         /\ ~Wrapped => H[at] + FirstLen = S
         /\ Wrapped => H[at] + FirstLen = S - snap
<1>. DEFINE h == H[at]
            r == readPos[at]
<1>1. /\ S \in Nat /\ (S % Ring) = snap /\ snap \in Positions
      /\ h \in Nat /\ h <= S /\ S - h < Ring /\ (h % Ring) = r /\ r \in Positions
  BY TurnFacts
<1>2. Ring \in Nat \ {0}
  BY Sizes
<1>. HIDE DEF h, r
<1>3. (snap >= r => S - h = snap - r) /\ (snap < r => S - h = Ring - r + snap)
  BY ONLY <1>1, <1>2, ModApart
<1>4. r # snap
  BY DEF r
<1>5. CASE snap < r
  <2>1. Wrapped /\ FirstLen = Ring - r
    BY <1>5 DEF Wrapped, FirstLen, r
  <2>2. Ring - r \in Nat \ {0} /\ r + (Ring - r) <= Ring /\ h + (Ring - r) = S - snap
    BY <1>1, <1>2, <1>3, <1>5 DEF Positions
  <2>. QED BY <2>1, <2>2 DEF h, r
<1>6. CASE ~(snap < r)
  <2>1. ~Wrapped /\ FirstLen = snap - r
    BY <1>6 DEF Wrapped, FirstLen, r
  <2>2. snap - r \in Nat \ {0} /\ r + (snap - r) <= Ring /\ h + (snap - r) = S
    BY <1>1, <1>2, <1>3, <1>4, <1>6 DEF Positions
  <2>. QED BY <2>1, <2>2 DEF h, r
<1>. QED BY <1>5, <1>6

\* A client that is at the snapshot has had its turn.
LEMMA TurnOver ==
  ASSUME AudioRingAssumption, Standing, NEW S, NEW H, Numbers(S, H),
         serverPc # "idle", at > 0, UNCHANGED <<writer, pushes, clients, snap>>, Advance,
         NEW n, n \in 0..S, (clients[at] \notin Slow => n = S),
         heard' = [heard EXCEPT ![clients[at]] = n]
  PROVE  StreamInv' /\ TablesInv'
<1>. DEFINE c == clients[at]
            N == Len(clients)
<1>1. /\ at \in 1..N /\ c \in Clients /\ S \in 0..Written
      /\ Written \in Nat /\ (S % Ring) = snap /\ snap \in Positions
  BY TurnFacts, ToComeNat DEF Standing, Numbers
<1>2. N \in Nat /\ at \in Nat /\ H \in [1..N -> 0..Written]
  BY <1>1, LenProperties DEF Standing, TablesInv, Numbers
<1>3. Written' = Written /\ ToCome' = ToCome
  BY RingUnchanged DEF Standing
<1>4. readPos' = [readPos EXCEPT ![at] = snap] /\ at' = at - 1 /\ serverPc' = "send" /\ clients' = clients
  BY DEF Advance
<1>5. readPos' \in Seq(Positions) /\ Len(readPos') = N /\ \A i \in 1..N : readPos'[i] = IF i = at THEN snap ELSE readPos[i]
  BY <1>1, <1>4, ExceptSeq, LenProperties DEF Standing, TablesInv
<1>6. heard' \in [Clients -> Nat] /\ heard'[c] = n /\ \A d \in Clients \ {c} : heard'[d] = heard[d]
  BY <1>1 DEF Standing, TablesInv
<1>7. TablesInv'
  BY <1>1, <1>2, <1>4, <1>5, <1>6 DEF Standing, TablesInv
<1>. HIDE DEF c, N
<1>8. PICK G \in [1..N -> 0..Written] : G[at] = S /\ \A i \in 1..N : i # at => G[i] = H[i]
  <2>1. [H EXCEPT ![at] = S] \in [1..N -> 0..Written]
    BY <1>1, <1>2
  <2>. QED BY <1>1, <1>2, <2>1
<1>9. Places(S, G)'
  <2>1. ASSUME NEW i \in 1..N PROVE (G[i] % Ring) = readPos'[i]
    <3>1. (H[i] % Ring) = readPos[i]
      BY DEF Numbers, Places, N
    <3>. QED BY <1>1, <1>5, <1>8, <3>1
  <2>2. ASSUME NEW i \in 1..N
        PROVE  IF i > at' THEN G[i] = S ELSE G[i] <= S /\ S - G[i] <= Most
    <3>1. IF i > at THEN H[i] = S ELSE H[i] <= S /\ S - H[i] <= Most
      BY DEF Numbers, Places, N
    <3>2. CASE i = at
      <4>1. i > at' /\ G[i] = S
        BY <1>2, <1>4, <1>8, <3>2
      <4>. QED BY <4>1
    <3>3. CASE i # at
      <4>1. (i > at' <=> i > at) /\ G[i] = H[i]
        BY <1>2, <1>4, <1>8, <3>3
      <4>. QED BY <3>1, <4>1
    <3>. QED BY <3>2, <3>3
  <2>3. (S % Ring) = snap' /\ Written' + ToCome' - S <= Most
    BY <1>1, <1>3 DEF Numbers, Places
  <2>. QED BY <1>4, <2>1, <2>2, <2>3 DEF Places, N
<1>10. HeardUpTo(S, G)'
  <2>1. ASSUME NEW i \in 1..N
        PROVE  heard'[clients[i]] <= G[i] /\ (clients[i] \notin Slow => heard'[clients[i]] = G[i])
    <3>1. CASE i = at
      BY <1>1, <1>6, <1>8, <3>1 DEF c
    <3>2. CASE i # at
      <4>1. clients[i] # c /\ clients[i] \in Clients
        BY <1>1, <3>2, ElementOfSeq DEF Standing, TablesInv, Once, c, N
      <4>2. heard[clients[i]] <= H[i] /\ (clients[i] \notin Slow => heard[clients[i]] = H[i])
        BY <3>2 DEF Numbers, HeardUpTo, Mark, N
      <4>. QED BY <1>6, <1>8, <3>2, <4>1, <4>2
    <3>. QED BY <3>1, <3>2
  <2>. QED BY <1>4, <2>1 DEF HeardUpTo, Mark, N
<1>11. G \in [1..Len(clients') -> 0..Written'] /\ S \in 0..Written'
  BY <1>1, <1>3, <1>4, <1>8 DEF N
<1>. QED BY <1>7, <1>9, <1>10, <1>11 DEF StreamInv

\* Between the two sends of a wrapped turn, what was sent ends where the ring does.
LEMMA TurnHalf ==
  ASSUME AudioRingAssumption, Standing, NEW S, NEW H, Numbers(S, H), serverPc = "send", at > 0,
         UNCHANGED <<writer, pushes, clients, snap, readPos, at>>, serverPc' = "second",
         snap > 0, H[at] <= S - snap,
         NEW n, n \in Nat, n <= S - snap, (clients[at] \notin Slow => n = S - snap),
         heard' = [heard EXCEPT ![clients[at]] = n]
  PROVE  StreamInv' /\ TablesInv'
<1>. DEFINE c == clients[at]
            N == Len(clients)
<1>1. at \in 1..N /\ c \in Clients /\ S \in Nat /\ snap \in Positions
  BY TurnFacts
<1>2. heard' \in [Clients -> Nat] /\ heard'[c] = n /\ \A d \in Clients \ {c} : heard'[d] = heard[d]
  BY <1>1 DEF Standing, TablesInv
<1>3. TablesInv'
  BY <1>1, <1>2, LenProperties DEF Standing, TablesInv
<1>. HIDE DEF c, N
<1>4. Written' = Written /\ ToCome' = ToCome
  BY RingUnchanged DEF Standing
<1>5. Places(S, H)'
  BY <1>4 DEF Numbers, Places
<1>6. HeardUpTo(S, H)'
  <2>1. ASSUME NEW i \in 1..N
        PROVE  LET mark == IF i = at THEN S - snap ELSE H[i]
               IN  heard'[clients[i]] <= mark /\ (clients[i] \notin Slow => heard'[clients[i]] = mark)
    <3>1. CASE i = at
      BY <1>1, <1>2, <3>1 DEF c
    <3>2. CASE i # at
      <4>1. clients[i] # c /\ clients[i] \in Clients
        BY <1>1, <3>2, ElementOfSeq DEF Standing, TablesInv, Once, c, N
      <4>2. heard[clients[i]] <= H[i] /\ (clients[i] \notin Slow => heard[clients[i]] = H[i])
        BY <3>2 DEF Numbers, HeardUpTo, Mark, N
      <4>. QED BY <1>2, <3>2, <4>1, <4>2
    <3>. QED BY <3>1, <3>2
  <2>. QED BY <2>1 DEF HeardUpTo, Mark, N
<1>7. H \in [1..Len(clients') -> 0..Written'] /\ S \in 0..Written'
  BY <1>4 DEF Numbers
<1>. QED BY <1>3, <1>5, <1>6, <1>7 DEF StreamInv

LEMMA FirstKeeps ==
  ASSUME AudioRingAssumption, Standing, StreamInv, SendFirst
  PROVE  StreamInv' /\ TablesInv' /\ StreamWhole'
<1>1. PICK S \in 0..Written, H \in [1..Len(clients) -> 0..Written] : Places(S, H) /\ HeardUpTo(S, H)
  BY DEF StreamInv
<1>2. Numbers(S, H) /\ serverPc = "send" /\ at > 0 /\ readPos[at] # snap
      /\ UNCHANGED <<writer, pushes, clients, snap>>
  BY <1>1 DEF Numbers, SendFirst, Keep
<1>3. PICK n \in Taken(FirstLen) : Deliver(clients[at], readPos[at], n)
  BY DEF SendFirst
<1>. DEFINE c == clients[at]
            h == H[at]
            f == FirstLen
<1>4. /\ at \in 1..Len(clients) /\ c \in Clients /\ S \in Nat /\ S <= Written
      /\ h \in Nat /\ h <= S /\ Written - h <= Ring /\ readPos[at] = (h % Ring) /\ snap \in Positions
      /\ readPos[at] \in Positions
  BY <1>2, TurnFacts
<1>5. f \in Nat \ {0} /\ readPos[at] + f <= Ring /\ (~Wrapped => h + f = S) /\ (Wrapped => h + f = S - snap)
  BY <1>2, TurnLength
<1>6. n \in 1..f /\ (c \notin Slow => n = f)
  BY <1>3, <1>5 DEF Taken
<1>7. heard[c] <= h /\ (c \notin Slow => heard[c] = h)
  BY <1>2, <1>4 DEF Numbers, HeardUpTo, Mark
<1>8. snap \in Nat /\ readPos[at] \in Nat /\ Ring \in Nat /\ Written \in Nat
  BY <1>4, Sizes, ToComeNat DEF Positions, Standing
<1>9. h + f <= S
  BY <1>4, <1>5, <1>8
<1>. HIDE DEF c, h, f
<1>10. h + n <= Written /\ readPos[at] + n <= Ring /\ n \in Nat \ {0}
  BY <1>4, <1>5, <1>6, <1>8, <1>9
<1>11. Deliver(c, readPos[at], n)
  BY <1>3 DEF c
<1>12. StreamWhole' /\ heard' = [heard EXCEPT ![c] = h + n]
  BY <1>4, <1>7, <1>10, <1>11, Delivers DEF Standing, TablesInv
<1>13. CASE Wrapped /\ snap > 0
  <2>1. serverPc' = "second" /\ UNCHANGED <<readPos, at>>
    BY <1>13 DEF SendFirst
  <2>2. h + n \in Nat /\ h + n <= S - snap /\ (c \notin Slow => h + n = S - snap) /\ h <= S - snap
    BY <1>4, <1>5, <1>6, <1>8, <1>13
  <2>3. StreamInv' /\ TablesInv'
    BY <1>2, <1>12, <1>13, <2>1, <2>2, TurnHalf DEF c, h
  <2>. QED BY <1>12, <2>3
<1>14. CASE ~(Wrapped /\ snap > 0)
  <2>1. Advance
    BY <1>14 DEF SendFirst
  <2>2. h + f = S
    BY <1>4, <1>5, <1>8, <1>14
  <2>3. h + n \in 0..S /\ (c \notin Slow => h + n = S)
    BY <1>4, <1>5, <1>6, <2>2
  <2>4. StreamInv' /\ TablesInv'
    BY <1>2, <1>12, <2>1, <2>3, TurnOver DEF c
  <2>. QED BY <1>12, <2>4
<1>. QED BY <1>13, <1>14

LEMMA SecondKeeps ==
  ASSUME AudioRingAssumption, Standing, StreamInv, SendSecond
  PROVE  StreamInv' /\ TablesInv' /\ StreamWhole'
<1>1. PICK S \in 0..Written, H \in [1..Len(clients) -> 0..Written] : Places(S, H) /\ HeardUpTo(S, H)
  BY DEF StreamInv
<1>2. Numbers(S, H) /\ serverPc = "second" /\ at > 0 /\ snap > 0 /\ Advance
      /\ UNCHANGED <<writer, pushes, clients, snap>>
  BY <1>1 DEF Numbers, SendSecond, Keep, Standing, TablesInv
<1>3. PICK n \in Taken(snap) : Deliver(clients[at], 0, n)
  BY DEF SendSecond
<1>. DEFINE c == clients[at]
            start == S - snap
<1>4. /\ at \in 1..Len(clients) /\ c \in Clients /\ S \in Nat /\ S <= Written /\ (S % Ring) = snap
      /\ H[at] \in Nat /\ Written - H[at] <= Ring /\ snap \in Positions
  BY <1>2, TurnFacts
<1>5. Ring \in Nat \ {0} /\ snap \in Nat /\ snap < Ring /\ Written \in Nat
  BY <1>4, Sizes, ToComeNat DEF Positions, Standing
<1>6. start \in Nat /\ 0 = (start % Ring)
  BY <1>4, <1>5, ModStart
<1>7. H[at] <= start
  BY <1>2 DEF Numbers, Places
<1>8. heard[c] <= start /\ (c \notin Slow => heard[c] = start)
  BY <1>2, <1>4 DEF Numbers, HeardUpTo, Mark
<1>9. start + snap = S
  BY <1>4, <1>5
<1>10. n \in 1..snap /\ (c \notin Slow => n = snap)
  BY <1>2, <1>3, <1>5 DEF Taken
<1>11. Deliver(c, 0, n)
  BY <1>3
<1>. HIDE DEF c, start
<1>12. Written - start <= Ring
  BY <1>4, <1>5, <1>6, <1>7
<1>13. start + n <= Written /\ 0 + n <= Ring /\ n \in Nat \ {0} /\ start + n \in 0..S /\ (c \notin Slow => start + n = S)
  BY <1>4, <1>5, <1>6, <1>9, <1>10
<1>14. StreamWhole' /\ heard' = [heard EXCEPT ![c] = start + n]
  BY <1>4, <1>6, <1>8, <1>11, <1>12, <1>13, Delivers DEF Standing, TablesInv
<1>15. StreamInv' /\ TablesInv'
  BY <1>2, <1>13, <1>14, TurnOver DEF c
<1>. QED BY <1>14, <1>15

LEMMA NothingKeeps ==
  ASSUME AudioRingAssumption, Standing, StreamInv, SendNothing
  PROVE  StreamInv' /\ TablesInv'
<1>1. PICK S \in 0..Written, H \in [1..Len(clients) -> 0..Written] : Places(S, H) /\ HeardUpTo(S, H)
  BY DEF StreamInv
<1>2. /\ Numbers(S, H) /\ serverPc = "send" /\ at > 0 /\ readPos[at] = snap
      /\ UNCHANGED <<writer, pushes, clients, readPos, serverPc, snap, heard>> /\ at' = at - 1
  BY <1>1 DEF Numbers, SendNothing
<1>3. H[at] = S
  <2>. DEFINE h == H[at]
  <2>1. h \in Nat /\ S \in Nat /\ h <= S /\ S - h < Ring /\ (h % Ring) = (S % Ring)
    BY <1>2, TurnFacts
  <2>. HIDE DEF h
  <2>2. S = h
    BY <2>1, ModApart, Sizes
  <2>. QED BY <2>2 DEF h
<1>4. Written' = Written /\ ToCome' = ToCome
  BY <1>2, RingUnchanged DEF Standing
<1>5. at \in Nat /\ Len(clients) \in Nat
  BY LenProperties DEF Standing, TablesInv
<1>6. TablesInv'
  BY <1>2, <1>5 DEF Standing, TablesInv
<1>7. Places(S, H)'
  <2>1. ASSUME NEW i \in 1..Len(clients)
        PROVE  IF i > at' THEN H[i] = S ELSE H[i] <= S /\ S - H[i] <= Most
    <3>1. IF i > at THEN H[i] = S ELSE H[i] <= S /\ S - H[i] <= Most
      BY <1>2 DEF Numbers, Places
    <3>2. i > at' <=> (i > at \/ i = at)
      BY <1>2, <1>5
    <3>. QED BY <1>3, <3>1, <3>2
  <2>. QED BY <1>2, <1>4, <2>1 DEF Numbers, Places
<1>8. HeardUpTo(S, H)'
  BY <1>2 DEF Numbers, HeardUpTo, Mark
<1>9. H \in [1..Len(clients') -> 0..Written'] /\ S \in 0..Written'
  BY <1>2, <1>4 DEF Numbers
<1>. QED BY <1>6, <1>7, <1>8, <1>9 DEF StreamInv

\* The client whose send failed goes, and those behind it move down with their positions.
LEMMA FailKeeps ==
  ASSUME AudioRingAssumption, Standing, StreamInv, SendFails
  PROVE  StreamInv' /\ TablesInv'
<1>1. PICK S \in 0..Written, H \in [1..Len(clients) -> 0..Written] : Places(S, H) /\ HeardUpTo(S, H)
  BY DEF StreamInv
<1>. DEFINE N == Len(clients)
<1>2. /\ Numbers(S, H) /\ serverPc \in {"send", "second"} /\ at > 0 /\ serverPc' = "send" /\ at' = at - 1
      /\ UNCHANGED <<writer, pushes, snap, heard>>
      /\ clients' = RemoveAt(clients, at) /\ readPos' = RemoveAt(readPos, at)
  BY <1>1 DEF Numbers, SendFails, WithoutPos
<1>3. at \in 1..N /\ at \in Nat /\ N \in Nat /\ Len(readPos) = N
  BY <1>2, TurnFacts, LenProperties DEF Standing, TablesInv
<1>4. /\ clients' \in Seq(Clients) /\ Len(clients') = N - 1
      /\ \A j \in 1..N - 1 : clients'[j] = IF j < at THEN clients[j] ELSE clients[j + 1]
  BY <1>2, <1>3, Removed DEF Standing, TablesInv
<1>5. /\ readPos' \in Seq(Positions) /\ Len(readPos') = N - 1
      /\ \A j \in 1..N - 1 : readPos'[j] = IF j < at THEN readPos[j] ELSE readPos[j + 1]
  BY <1>2, <1>3, Removed DEF Standing, TablesInv
<1>. HIDE DEF N
<1>6. Once(clients')
  <2>1. ASSUME NEW i \in 1..N - 1, NEW j \in 1..N - 1, clients'[i] = clients'[j] PROVE i = j
    <3>1. PICK k \in 1..N : clients'[i] = clients[k] /\ k = IF i < at THEN i ELSE i + 1
      BY <1>3, <1>4
    <3>2. PICK l \in 1..N : clients'[j] = clients[l] /\ l = IF j < at THEN j ELSE j + 1
      BY <1>3, <1>4
    <3>3. k = l
      BY <2>1, <3>1, <3>2 DEF Standing, TablesInv, Once, N
    <3>. QED BY <1>3, <3>1, <3>2, <3>3
  <2>. QED BY <1>4, <2>1 DEF Once
<1>7. TablesInv'
  BY <1>2, <1>3, <1>4, <1>5, <1>6 DEF Standing, TablesInv
<1>8. Written' = Written /\ ToCome' = ToCome
  BY <1>2, RingUnchanged DEF Standing
<1>9. PICK G \in [1..N - 1 -> 0..Written] :
         \A j \in 1..N - 1 : G[j] = IF j < at THEN H[j] ELSE H[j + 1]
  <2>. DEFINE F == [j \in 1..N - 1 |-> IF j < at THEN H[j] ELSE H[j + 1]]
  <2>1. ASSUME NEW j \in 1..N - 1 PROVE (IF j < at THEN H[j] ELSE H[j + 1]) \in 0..Written
    <3>1. j \in 1..N /\ j + 1 \in 1..N
      BY <1>3
    <3>. QED BY <1>1, <3>1 DEF N
  <2>2. F \in [1..N - 1 -> 0..Written]
    BY <2>1
  <2>. QED BY <2>2
<1>10. ASSUME NEW j \in 1..N - 1
       PROVE  /\ (G[j] % Ring) = readPos'[j]
              /\ IF j > at' THEN G[j] = S ELSE G[j] <= S /\ S - G[j] <= Most
              /\ heard[clients'[j]] <= G[j] /\ (clients'[j] \notin Slow => heard[clients'[j]] = G[j])
  <2>1. PICK k \in 1..N : k = IF j < at THEN j ELSE j + 1
    BY <1>3
  <2>2. /\ k # at /\ clients'[j] = clients[k] /\ readPos'[j] = readPos[k] /\ G[j] = H[k]
        /\ IF k > at THEN j > at' ELSE ~(j > at')
    <3>1. CASE j < at
      <4>1. k = j /\ k # at /\ ~(k > at) /\ ~(j > at')
        BY <1>2, <1>3, <2>1, <3>1
      <4>2. clients'[j] = clients[j] /\ readPos'[j] = readPos[j] /\ G[j] = H[j]
        BY <1>4, <1>5, <1>9, <3>1
      <4>. QED BY <4>1, <4>2
    <3>2. CASE ~(j < at)
      <4>1. k = j + 1 /\ k # at /\ k > at /\ j > at'
        BY <1>2, <1>3, <2>1, <3>2
      <4>2. clients'[j] = clients[j + 1] /\ readPos'[j] = readPos[j + 1] /\ G[j] = H[j + 1]
        BY <1>4, <1>5, <1>9, <3>2
      <4>. QED BY <4>1, <4>2
    <3>. QED BY <3>1, <3>2
  <2>3. /\ (H[k] % Ring) = readPos[k]
        /\ IF k > at THEN H[k] = S ELSE H[k] <= S /\ S - H[k] <= Most
        /\ heard[clients[k]] <= H[k] /\ (clients[k] \notin Slow => heard[clients[k]] = H[k])
    BY <1>2, <2>2 DEF Numbers, Places, HeardUpTo, Mark, N
  <2>. QED BY <2>2, <2>3
<1>11. Places(S, G)'
  BY <1>2, <1>4, <1>8, <1>10 DEF Numbers, Places
<1>12. HeardUpTo(S, G)'
  BY <1>2, <1>4, <1>10 DEF HeardUpTo, Mark
<1>13. G \in [1..Len(clients') -> 0..Written'] /\ S \in 0..Written'
  BY <1>4, <1>8
<1>. QED BY <1>7, <1>11, <1>12, <1>13 DEF StreamInv

-----------------------------------------------------------------------------
(* The steps between two turns *)

LEMMA DoneKeeps ==
  ASSUME AudioRingAssumption, Standing, StreamInv, SendDone
  PROVE  StreamInv' /\ TablesInv'
<1>1. PICK S \in 0..Written, H \in [1..Len(clients) -> 0..Written] : Places(S, H) /\ HeardUpTo(S, H)
  BY DEF StreamInv
<1>2. /\ serverPc = "send" /\ at = 0 /\ serverPc' = "idle"
      /\ UNCHANGED <<writer, pushes, clients, readPos, snap, at, heard>>
  BY DEF SendDone
<1>3. Written' = Written /\ ToCome' = ToCome
  BY <1>2, RingUnchanged DEF Standing
<1>4. TablesInv'
  BY <1>2 DEF Standing, TablesInv
<1>5. ASSUME NEW i \in 1..Len(clients) PROVE H[i] = S /\ (H[i] % Ring) = readPos[i]
  BY <1>1, <1>2 DEF Places
<1>6. Written + ToCome - S <= Most
  BY <1>1, <1>2 DEF Places
<1>7. Places(S, H)'
  BY <1>2, <1>3, <1>5, <1>6 DEF Places
<1>8. HeardUpTo(S, H)'
  BY <1>1, <1>2 DEF HeardUpTo, Mark
<1>. QED BY <1>2, <1>3, <1>4, <1>7, <1>8 DEF StreamInv

LEMMA SnapshotKeeps ==
  ASSUME AudioRingAssumption, Standing, StreamInv, Snapshot
  PROVE  StreamInv' /\ TablesInv'
<1>1. PICK T \in 0..Written, H \in [1..Len(clients) -> 0..Written] : Places(T, H) /\ HeardUpTo(T, H)
  BY DEF StreamInv
<1>2. /\ serverPc = "idle" /\ serverPc' = "send" /\ mutex = "free" /\ pushes' = 0
      /\ snap' = writePos /\ at' = Len(clients) /\ UNCHANGED <<writer, clients, readPos, heard>>
  BY DEF Snapshot
<1>3. Written \in Nat /\ ToCome \in Nat /\ Most \in Nat
  BY ToComeNat, Sizes DEF Standing
<1>4. PICK S \in 0..Written : S = Written
  BY <1>3
<1>5. left = 0 /\ Written' = Written /\ ToCome' = Most
  <2>1. left = 0
    BY <1>2 DEF Standing, RingInv
  <2>. QED BY <1>2, <1>3, <2>1, PassKeeps DEF Standing
<1>6. snap' = (S % Ring) /\ snap' \in Positions /\ Len(clients) \in Nat
  <2>1. (S % Ring) \in Positions
    BY <1>3, <1>4, DivMod, Sizes DEF Positions
  <2>. QED BY <1>2, <1>4, <2>1, LenProperties DEF Standing, RingInv, TablesInv
<1>7. TablesInv'
  BY <1>2, <1>6 DEF Standing, TablesInv
<1>8. Places(S, H)'
  <2>1. ASSUME NEW i \in 1..Len(clients)
        PROVE  (H[i] % Ring) = readPos[i] /\ ~(i > Len(clients)) /\ H[i] <= S /\ S - H[i] <= Most
    <3>1. (H[i] % Ring) = readPos[i] /\ Written + ToCome - H[i] <= Most /\ H[i] \in 0..Written
      BY <1>1, <1>2 DEF Places
    <3>. QED BY <1>3, <1>4, <1>6, <3>1
  <2>2. (S % Ring) = snap' /\ Written' + ToCome' - S <= Most
    BY <1>3, <1>4, <1>5, <1>6
  <2>. QED BY <1>2, <2>1, <2>2 DEF Places
<1>9. HeardUpTo(S, H)'
  BY <1>1, <1>2 DEF HeardUpTo, Mark
<1>10. H \in [1..Len(clients') -> 0..Written'] /\ S \in 0..Written'
  BY <1>2, <1>5
<1>. QED BY <1>7, <1>8, <1>9, <1>10 DEF StreamInv

LEMMA NobodyKeeps ==
  ASSUME AudioRingAssumption, Standing, StreamInv, PassNobody
  PROVE  StreamInv' /\ TablesInv'
<1>1. PICK S \in 0..Written, H \in [1..Len(clients) -> 0..Written] : Places(S, H) /\ HeardUpTo(S, H)
  BY DEF StreamInv
<1>2. serverPc = "idle" /\ clients = <<>> /\ pushes' = 0 /\ UNCHANGED <<writer, reader>>
  BY DEF PassNobody
<1>3. Written' = Written
  BY <1>2, PassKeeps DEF Standing
<1>4. Len(clients) = 0 /\ 1..Len(clients) = {}
  BY <1>2
<1>5. TablesInv'
  BY <1>2 DEF Standing, TablesInv, reader
<1>6. Places(S, H)' /\ HeardUpTo(S, H)'
  BY <1>2, <1>4 DEF Places, HeardUpTo, reader
<1>7. H \in [1..Len(clients') -> 0..Written'] /\ S \in 0..Written'
  BY <1>2, <1>3 DEF reader
<1>. QED BY <1>5, <1>6, <1>7 DEF StreamInv

LEMMA AddKeeps ==
  ASSUME AudioRingAssumption, Standing, StreamInv, NEW c \in Clients, AddClient(c)
  PROVE  StreamInv' /\ TablesInv'
<1>1. PICK S \in 0..Written, H \in [1..Len(clients) -> 0..Written] : Places(S, H) /\ HeardUpTo(S, H)
  BY DEF StreamInv
<1>. DEFINE N == Len(clients)
<1>2. /\ serverPc = "idle" /\ mutex = "free" /\ c \notin Range(clients)
      /\ clients' = Append(clients, c) /\ readPos' = Append(readPos, writePos)
      /\ heard' = [heard EXCEPT ![c] = next - 1]
      /\ UNCHANGED <<writer, pushes, serverPc, snap, at>>
  BY DEF AddClient, StartAt
<1>3. Written \in Nat /\ ToCome \in Nat /\ ToCome <= Most /\ Written' = Written /\ ToCome' = ToCome
  <2>1. left = 0
    BY <1>2 DEF Standing, RingInv
  <2>. QED BY <1>2, <2>1, ToComeNat, RingUnchanged DEF Standing
<1>4. writePos = (Written % Ring) /\ writePos \in Positions
  BY <1>3, DivMod, Sizes DEF Standing, RingInv, Positions
<1>5. N \in Nat /\ Len(readPos) = N /\ \A i \in 1..N : clients[i] \in Clients /\ clients[i] # c
  <2>1. Range(clients) = {clients[i] : i \in 1..N}
    BY RangeEquality DEF Standing, TablesInv
  <2>. QED BY <1>2, <2>1, LenProperties, ElementOfSeq DEF Standing, TablesInv
<1>6. /\ clients' \in Seq(Clients) /\ Len(clients') = N + 1 /\ clients'[N + 1] = c
      /\ \A i \in 1..N : clients'[i] = clients[i]
  BY <1>2, AppendProperties DEF Standing, TablesInv
<1>7. /\ readPos' \in Seq(Positions) /\ Len(readPos') = N + 1 /\ readPos'[N + 1] = writePos
      /\ \A i \in 1..N : readPos'[i] = readPos[i]
  BY <1>2, <1>4, <1>5, AppendProperties DEF Standing, TablesInv
<1>8. heard' \in [Clients -> Nat] /\ heard'[c] = Written /\ \A d \in Clients \ {c} : heard'[d] = heard[d]
  BY <1>2, <1>3 DEF Standing, TablesInv, Written
<1>. HIDE DEF N
<1>9. Once(clients')
  <2>1. ASSUME NEW i \in 1..N + 1, NEW j \in 1..N + 1, clients'[i] = clients'[j] PROVE i = j
    <3>1. (i \in 1..N \/ i = N + 1) /\ (j \in 1..N \/ j = N + 1)
      BY <1>5
    <3>2. CASE i \in 1..N /\ j \in 1..N
      BY <1>6, <2>1, <3>2 DEF Standing, TablesInv, Once, N
    <3>. QED BY <1>5, <1>6, <2>1, <3>1, <3>2
  <2>. QED BY <1>6, <2>1 DEF Once
<1>10. TablesInv'
  BY <1>2, <1>6, <1>7, <1>8, <1>9 DEF Standing, TablesInv
<1>11. PICK G \in [1..N + 1 -> 0..Written] : G[N + 1] = Written /\ \A i \in 1..N : G[i] = H[i]
  <2>. DEFINE F == [i \in 1..N + 1 |-> IF i <= N THEN H[i] ELSE Written]
  <2>1. ASSUME NEW i \in 1..N + 1 PROVE (IF i <= N THEN H[i] ELSE Written) \in 0..Written
    BY <1>1, <1>3, <1>5 DEF N
  <2>2. F \in [1..N + 1 -> 0..Written]
    BY <2>1
  <2>3. F[N + 1] = Written /\ \A i \in 1..N : F[i] = H[i]
    BY <1>5
  <2>. QED BY <2>2, <2>3
<1>12. ASSUME NEW i \in 1..N + 1
       PROVE  /\ (G[i] % Ring) = readPos'[i] /\ Written + ToCome - G[i] <= Most
              /\ heard'[clients'[i]] <= G[i] /\ (clients'[i] \notin Slow => heard'[clients'[i]] = G[i])
  <2>1. CASE i = N + 1
    BY <1>3, <1>4, <1>6, <1>7, <1>8, <1>11, <2>1
  <2>2. CASE i \in 1..N
    <3>1. /\ (H[i] % Ring) = readPos[i] /\ Written + ToCome - H[i] <= Most
          /\ heard[clients[i]] <= H[i] /\ (clients[i] \notin Slow => heard[clients[i]] = H[i])
      BY <1>1, <1>2, <2>2 DEF Places, HeardUpTo, Mark, N
    <3>. QED BY <1>5, <1>6, <1>7, <1>8, <1>11, <2>2, <3>1
  <2>. QED BY <1>5, <2>1, <2>2
<1>13. Places(S, G)' /\ HeardUpTo(S, G)'
  <2>1. /\ \A i \in 1..Len(clients') : (G[i] % Ring) = readPos'[i]
        /\ \A i \in 1..Len(clients') : Written' + ToCome' - G[i] <= Most
    BY <1>3, <1>6, <1>12
  <2>2. serverPc' = "idle"
    BY <1>2
  <2>3. Places(S, G)'
    BY <2>1, <2>2 DEF Places
  <2>4. \A i \in 1..Len(clients') : Mark(S, G, i)' = G[i]
    BY <2>2 DEF Mark
  <2>5. HeardUpTo(S, G)'
    BY <1>6, <1>12, <2>4 DEF HeardUpTo
  <2>. QED BY <2>3, <2>5
<1>14. G \in [1..Len(clients') -> 0..Written'] /\ S \in 0..Written'
  BY <1>3, <1>6
<1>. QED BY <1>10, <1>13, <1>14 DEF StreamInv

\* Wherever the server thread is, the callback's samples are those that were to come.
LEMMA CallbackKeeps ==
  ASSUME AudioRingAssumption, Standing, StreamInv, AudioLock \/ WriteSample
  PROVE  StreamInv' /\ TablesInv'
<1>1. PICK S \in 0..Written, H \in [1..Len(clients) -> 0..Written] : Places(S, H) /\ HeardUpTo(S, H)
  BY DEF StreamInv
<1>2. UNCHANGED reader
  BY DEF AudioLock, WriteSample
<1>3. Written \in Nat /\ ToCome \in Nat
  BY ToComeNat DEF Standing
<1>4. /\ Written' + ToCome' = Written + ToCome /\ Written' \in Nat /\ Written <= Written'
      /\ ToCome' \in Int
  <2>1. (Written' = Written /\ ToCome' = ToCome) \/ (Written' = Written + 1 /\ ToCome' = ToCome - 1)
    BY LockKeeps, WriteKeeps DEF Standing
  <2>. QED BY <1>3, <2>1
<1>5. TablesInv'
  BY <1>2 DEF Standing, TablesInv, reader
<1>6. HeardUpTo(S, H)'
  BY <1>1, <1>2 DEF HeardUpTo, Mark, reader
<1>7. /\ clients' = clients /\ readPos' = readPos /\ serverPc' = serverPc
      /\ at' = at /\ snap' = snap
  BY <1>2 DEF reader
<1>8. Most \in Nat
  BY DEF Most, AudioRingAssumption
<1>9. Places(S, H)'
  <2>1. \A i \in 1..Len(clients') : (H[i] % Ring) = readPos'[i]
    BY <1>1, <1>7 DEF Places
  <2>2. ASSUME serverPc' = "idle", NEW i \in 1..Len(clients') PROVE Written' + ToCome' - H[i] <= Most
    <3>1. Written + ToCome - H[i] <= Most
      BY <1>1, <1>7, <2>2 DEF Places
    <3>2. H[i] \in Nat
      BY <1>1, <1>3, <1>7
    <3>3. Written' \in Int /\ ToCome' \in Int /\ Written \in Int /\ ToCome \in Int /\ H[i] \in Int /\ Most \in Int
      BY <1>3, <1>4, <1>8, <3>2
    <3>. QED BY ONLY <1>4, <3>1, <3>3, Shift
  <2>3. ASSUME serverPc' # "idle"
        PROVE  /\ (S % Ring) = snap' /\ Written' + ToCome' - S <= Most
               /\ \A i \in 1..Len(clients') : IF i > at' THEN H[i] = S ELSE H[i] <= S /\ S - H[i] <= Most
    <3>1. /\ (S % Ring) = snap /\ Written + ToCome - S <= Most
          /\ \A i \in 1..Len(clients) : IF i > at THEN H[i] = S ELSE H[i] <= S /\ S - H[i] <= Most
      BY <1>1, <1>7, <2>3 DEF Places
    <3>2. Written' + ToCome' - S <= Most
      <4>1. Written' \in Int /\ ToCome' \in Int /\ Written \in Int /\ ToCome \in Int /\ S \in Int /\ Most \in Int
        BY <1>1, <1>3, <1>4, <1>8
      <4>. QED BY ONLY <1>4, <3>1, <4>1, Shift
    <3>. QED BY <1>7, <3>1, <3>2
  <2>4. serverPc' = "second" => H[at'] <= S - snap'
    BY <1>1, <1>7 DEF Places
  <2>. QED BY <2>1, <2>2, <2>3, <2>4 DEF Places
<1>10. H \in [1..Len(clients) -> 0..Written'] /\ S \in 0..Written'
  <2>1. 0..Written \subseteq 0..Written'
    BY <1>3, <1>4
  <2>. QED BY <1>1, <2>1
<1>11. H \in [1..Len(clients') -> 0..Written']
  BY <1>2, <1>10 DEF reader
<1>. QED BY <1>5, <1>6, <1>10, <1>11, <1>9 DEF StreamInv

-----------------------------------------------------------------------------
LEMMA InitInv == ASSUME AudioRingAssumption, Init PROVE IInv
<1>1. Ring \in Nat \ {0} /\ MaxPushes \in Nat /\ 0 \in Positions
  BY Sizes DEF Positions
<1>2. Written = 0 /\ (0 % Ring) = 0
  <2>1. 0 = Ring * 0 + 0 /\ 0 \in 0..Ring - 1
    BY <1>1
  <2>. QED BY <1>1, <2>1, ModUnique DEF Init, Written
<1>3. RingInv
  BY <1>1, <1>2 DEF Init, RingInv
<1>4. Len(clients) = 0 /\ clients \in Seq(Clients) /\ readPos \in Seq(Positions) /\ Len(readPos) = 0
  BY EmptySeq DEF Init
<1>5. TablesInv
  BY <1>1, <1>4 DEF Init, TablesInv, Once
<1>6. StreamInv
  <2>1. PICK H \in [1..Len(clients) -> 0..Written] : TRUE
    <3>1. [i \in 1..Len(clients) |-> 0] \in [1..Len(clients) -> 0..Written]
      BY <1>2
    <3>. QED BY <3>1
  <2>2. serverPc = "idle" /\ 1..Len(clients) = {} /\ 0 \in 0..Written
    BY <1>2, <1>4 DEF Init
  <2>3. Places(0, H) /\ HeardUpTo(0, H)
    BY <2>2 DEF Places, HeardUpTo
  <2>. QED BY <2>2, <2>3 DEF StreamInv
<1>. QED BY <1>3, <1>5, <1>6 DEF IInv, Init, StreamWhole

LEMMA StepInv == ASSUME AudioRingAssumption, IInv, [Next]_vars PROVE IInv'
<1>. SUFFICES StreamInv' /\ TablesInv' /\ StreamWhole'
  BY RingStep DEF IInv
<1>1. Standing /\ StreamInv /\ StreamWhole
  BY DEF IInv, Standing
<1>2. CASE SendFirst \/ SendSecond
  BY <1>1, <1>2, FirstKeeps, SecondKeeps
<1>3. ASSUME UNCHANGED <<ordered, gapless>>, StreamInv', TablesInv' PROVE StreamInv' /\ TablesInv' /\ StreamWhole'
  BY <1>1, <1>3 DEF StreamWhole
<1>4. CASE AudioLock \/ WriteSample
  <2>1. UNCHANGED <<ordered, gapless>>
    BY <1>4 DEF AudioLock, WriteSample, reader
  <2>. QED BY <1>1, <1>3, <1>4, <2>1, CallbackKeeps
<1>5. ASSUME NEW c \in Clients, AddClient(c) PROVE StreamInv' /\ TablesInv' /\ StreamWhole'
  <2>1. UNCHANGED <<ordered, gapless>>
    BY <1>5 DEF AddClient
  <2>. QED BY <1>1, <1>3, <1>5, <2>1, AddKeeps
<1>6. CASE Snapshot \/ PassNobody
  <2>1. UNCHANGED <<ordered, gapless>>
    BY <1>6 DEF Snapshot, PassNobody, reader
  <2>. QED BY <1>1, <1>3, <1>6, <2>1, SnapshotKeeps, NobodyKeeps
<1>7. CASE SendNothing \/ SendFails \/ SendDone
  <2>1. UNCHANGED <<ordered, gapless>>
    BY <1>7 DEF SendNothing, SendFails, SendDone
  <2>. QED BY <1>1, <1>3, <1>7, <2>1, NothingKeeps, FailKeeps, DoneKeeps
<1>8. CASE UNCHANGED vars
  <2>1. UNCHANGED <<writer, reader, pushes>>
    BY <1>8 DEF vars
  <2>2. TablesInv' /\ StreamWhole'
    BY <1>1, <2>1 DEF Standing, TablesInv, StreamWhole, reader
  <2>3. StreamInv'
    <3>1. Written' = Written /\ ToCome' = ToCome
      BY <1>1, <2>1, RingUnchanged DEF Standing
    <3>2. PICK S \in 0..Written, H \in [1..Len(clients) -> 0..Written] : Places(S, H) /\ HeardUpTo(S, H)
      BY <1>1 DEF StreamInv
    <3>3. Places(S, H)' /\ HeardUpTo(S, H)'
      BY <2>1, <3>1, <3>2 DEF Places, HeardUpTo, Mark, reader
    <3>4. H \in [1..Len(clients') -> 0..Written'] /\ S \in 0..Written'
      BY <2>1, <3>1 DEF reader
    <3>. QED BY <3>3, <3>4 DEF StreamInv
  <2>. QED BY <2>2, <2>3
<1>. QED BY <1>2, <1>4, <1>5, <1>6, <1>7, <1>8 DEF Next

\* The ring holds the stream's last samples and every position stands for a number
\* of the stream, at most two passes behind the writer.
THEOREM Invariance == ASSUME AudioRingAssumption PROVE Spec => []IInv
BY InitInv, StepInv, PTL DEF Spec

\* Samples reach a client in order, none twice, and, if its socket takes all it is
\* given, none is left out: for a ring of any size that holds what two passes may write.
THEOREM Stream == ASSUME AudioRingAssumption PROVE Spec => []StreamWhole
<1>1. IInv => StreamWhole
  BY DEF IInv
<1>. QED BY <1>1, Invariance, PTL
=============================================================================
