----------------------------- MODULE AudioDeviceProofs -----------------------------
(***************************************************************************)
(* Theorems about AudioDevice, for any rate, any number of channels, any   *)
(* wave and any buffers: the tone is one sine across blocks, and the       *)
(* statistics are those of everything that was accepted.                   *)
(***************************************************************************)
EXTENDS AudioDevice, Lemmas

(***************************************************************************)
(* Turns of the phase                                                      *)
(***************************************************************************)

\* A remainder is the one number within the turn that differs by whole turns.
LEMMA RemainderIs ==
    ASSUME NEW x \in Int, NEW n \in Nat \ {0}
    PROVE  /\ x % n \in 0 .. n - 1
           /\ x = n * (x \div n) + (x % n) /\ x \div n \in Int
  OBVIOUS

LEMMA RemainderUnique ==
    ASSUME NEW n \in Nat \ {0}, NEW x \in Int, NEW k \in Int, NEW r \in 0 .. n - 1,
           x = n * k + r
    PROVE  x % n = r
<1> DEFINE d == x \div n
           s == x % n
<1>1. s \in 0 .. n - 1 /\ x = n * d + s /\ d \in Int
  BY RemainderIs
<1> HIDE DEF d, s
<1>2. ASSUME d < k PROVE FALSE
  <2>1. n * (k - d) = s - r
    BY <1>1
  <2>2. k - d \in Nat /\ k - d >= 1
    BY <1>1, <1>2
  <2> DEFINE e == k - d
  <2>3. n * e >= n
    <3> HIDE DEF e
    <3>1. e \in Nat /\ e >= 1
      BY <2>2 DEF e
    <3>2. n * e = n + n * (e - 1) /\ n * (e - 1) \in Nat
      BY <3>1
    <3> QED
      BY <3>1, <3>2
  <2> QED
    BY <1>1, <2>1, <2>3
<1>3. ASSUME k < d PROVE FALSE
  <2>1. n * (d - k) = r - s
    BY <1>1
  <2>2. d - k \in Nat /\ d - k >= 1
    BY <1>1, <1>3
  <2> DEFINE e == d - k
  <2>3. n * e >= n
    <3> HIDE DEF e
    <3>1. e \in Nat /\ e >= 1
      BY <2>2 DEF e
    <3>2. n * e = n + n * (e - 1) /\ n * (e - 1) \in Nat
      BY <3>1
    <3> QED
      BY <3>1, <3>2
  <2> QED
    BY <1>1, <2>1, <2>3
<1>4. d = k
  BY <1>1, <1>2, <1>3
<1>5. s = r
  BY <1>1, <1>4
<1> QED
  BY <1>5 DEF s

\* One step takes the phase from one sample of the sine to the next.
LEMMA StepIsTurn ==
    ASSUME NEW x \in Int, NEW f \in 0 .. Nyquist, frequency = f
    PROVE  NextPhase(x % sample_rate) = (x + f) % sample_rate
<1> DEFINE n == sample_rate
           p == x % n
           k == x \div n
<1>0. n \in Nat \ {0} /\ f \in 0 .. n - 1
  BY AudioDeviceAssumption DEF Nyquist
<1> HIDE DEF n
<1>1. p \in 0 .. n - 1 /\ x = n * k + p /\ k \in Int
  BY <1>0, RemainderIs
<1> HIDE DEF p, k
<1>2. NextPhase(p) = IF p + f >= n THEN p + f - n ELSE p + f
  BY <1>0, <1>1 DEF NextPhase, Plus, PhaseStep, None, NaN, n
<1>3. CASE p + f >= n
  <2>1. x + f = n * (k + 1) + (p + f - n) /\ p + f - n \in 0 .. n - 1 /\ k + 1 \in Int
    BY <1>0, <1>1, <1>3
  <2>2. (x + f) % n = p + f - n
    <3> DEFINE y == x + f
               c == k + 1
               r == p + f - n
    <3>1. y \in Int /\ c \in Int /\ r \in 0 .. n - 1 /\ y = n * c + r
      BY <1>0, <2>1
    <3> HIDE DEF y, c, r
    <3>2. y % n = r
      BY <1>0, <3>1, RemainderUnique
    <3> QED
      BY <3>2 DEF y, r
  <2> QED
    BY <1>2, <1>3, <2>2 DEF p, n
<1>4. CASE ~(p + f >= n)
  <2>1. x + f = n * k + (p + f) /\ p + f \in 0 .. n - 1
    BY <1>0, <1>1, <1>4
  <2>2. (x + f) % n = p + f
    BY <1>0, <1>1, <2>1, RemainderUnique
  <2> QED
    BY <1>2, <1>4, <2>2 DEF p, n
<1> QED
  BY <1>3, <1>4

\* The phases of the samples of a block.
LEMMA PhasesAre ==
    ASSUME NEW n \in Nat, NEW P, phase \in P, \A p \in P : NextPhase(p) \in P
    PROVE  /\ \A i \in 0 .. n : PhaseAfter(n)[i] \in P
           /\ PhaseAfter(n)[0] = phase
           /\ \A i \in 1 .. n : PhaseAfter(n)[i] = NextPhase(PhaseAfter(n)[i - 1])
<1> DEFINE body(g) == [i \in 0 .. n |-> IF i = 0 THEN phase ELSE NextPhase(g[i - 1])]
           after == CHOOSE g : g = body(g)
           step == [q \in (1 .. n) \X P |-> NextPhase(q[2])]
<1>1. step \in [(1 .. n) \X P -> P]
  OBVIOUS
<1>2. PICK f \in [0 .. n -> P] : IsIteration(f, n, phase, step)
  <2> HIDE DEF step
  <2> QED
    BY <1>1, IterationExists
<1>3. \A i \in 1 .. n : f[i] = NextPhase(f[i - 1])
  <2> SUFFICES ASSUME NEW i \in 1 .. n PROVE f[i] = NextPhase(f[i - 1])
    OBVIOUS
  <2>1. i - 1 \in 0 .. n /\ f[i - 1] \in P /\ i \in 0 .. n /\ i # 0
    BY <1>2
  <2>2. f[i] = step[<<i, f[i - 1]>>]
    BY <1>2, <2>1, Zenon DEF IsIteration
  <2> QED
    BY <2>1, <2>2
<1>4. f = body(f)
  <2>1. f[0] = phase /\ 0 \in 0 .. n
    <3>1. 0 \in 0 .. n
      OBVIOUS
    <3> QED
      BY <1>2, <3>1, Zenon DEF IsIteration
  <2>2. \A i \in 0 .. n : i # 0 => i \in 1 .. n
    OBVIOUS
  <2> QED
    BY <1>2, <1>3, <2>1, <2>2
<1>5. after = body(after)
  BY <1>4
<1>6. PhaseAfter(n) = after
  BY DEF PhaseAfter
<1> HIDE DEF after, step
<1>7. after[0] = phase
  BY <1>5
<1>8. ASSUME NEW i \in 1 .. n PROVE after[i] = NextPhase(after[i - 1])
  <2>1. i \in 0 .. n /\ i # 0
    OBVIOUS
  <2>2. body(after)[i] = NextPhase(after[i - 1])
    BY <2>1
  <2> QED
    BY <1>5, <2>2
<1> DEFINE T == {i \in Nat : i <= n => after[i] \in P}
<1>9. 0 \in T
  BY <1>7
<1>10. ASSUME NEW i \in Nat, i \in T PROVE i + 1 \in T
  <2> SUFFICES ASSUME i + 1 <= n PROVE after[i + 1] \in P
    OBVIOUS
  <2>1. after[i] \in P
    BY <1>10
  <2>2. i + 1 \in 1 .. n /\ (i + 1) - 1 = i
    OBVIOUS
  <2>3. after[i + 1] = NextPhase(after[i])
    BY <1>8, <2>2
  <2> QED
    BY <2>1, <2>3
<1>11. Nat \subseteq T
  <2> HIDE DEF T
  <2> QED
    BY <1>9, <1>10, NatSetInduction
<1> QED
  BY <1>6, <1>7, <1>8, <1>11

Phases == {NaN} \cup 0 .. sample_rate - 1

\* How far into the sine the phase is, and what has come out of it so far.
OneSine ==
    frequency \notin {None, NaN} /\ start # NaN =>
        /\ phase = (start + Len(emitted) * frequency) % sample_rate
        /\ \A i \in 1 .. Len(emitted) :
              emitted[i] = amplitude * Wave[(start + (i - 1) * frequency) % sample_rate]

ToneInv ==
    /\ frequency \in {None, NaN} \cup 0 .. Nyquist
    /\ amplitude \in Nat
    /\ phase \in Phases /\ start \in Phases
    /\ emitted \in Seq(Int)
    /\ OneSine

LEMMA ToneConstants ==
    /\ sample_rate \in Nat \ {0} /\ channels \in Nat \ {0}
    /\ Nyquist \in 0 .. sample_rate - 1
    /\ Wave \in [0 .. sample_rate - 1 -> Int]
  BY AudioDeviceAssumption DEF Nyquist

LEMMA NextPhaseIsPhase ==
    ASSUME NEW p \in Phases, frequency \in {None, NaN} \cup 0 .. Nyquist
    PROVE  NextPhase(p) \in Phases
<1> USE ToneConstants
<1>1. CASE p = NaN \/ frequency = NaN
  BY <1>1 DEF NextPhase, Plus, PhaseStep, None, NaN, Phases
<1>2. CASE p # NaN /\ frequency # NaN
  <2>1. PhaseStep \in 0 .. Nyquist /\ p \in 0 .. sample_rate - 1
    BY <1>2 DEF PhaseStep, None, Phases
  <2>2. NextPhase(p) = IF p + PhaseStep >= sample_rate THEN p + PhaseStep - sample_rate
                       ELSE p + PhaseStep
    BY <1>2, <2>1 DEF NextPhase, Plus, NaN
  <2> HIDE DEF PhaseStep
  <2> QED
    BY <2>1, <2>2 DEF Phases
<1> QED
  BY <1>1, <1>2

LEMMA WithinTurn ==
    ASSUME NEW p \in 0 .. sample_rate - 1
    PROVE  p % sample_rate = p
<1>1. p \in Int /\ 0 \in Int /\ p = sample_rate * 0 + p
  BY ToneConstants
<1> QED
  BY <1>1, ToneConstants, RemainderUnique

\* Within one setting of the tone the phases of a block go on from s.
LEMMA PhasesGoOn ==
    ASSUME NEW n \in Nat, NEW s \in Int, NEW L \in Nat,
           frequency \in 0 .. Nyquist, phase \in Phases,
           phase = (s + L * frequency) % sample_rate
    PROVE  \A i \in 0 .. n : PhaseAfter(n)[i] = (s + (L + i) * frequency) % sample_rate
<1> DEFINE f == frequency
           after == PhaseAfter(n)
           T == {i \in Nat : i <= n => after[i] = (s + (L + i) * f) % sample_rate}
<1>0. f \in 0 .. Nyquist /\ f \in Nat
  BY ToneConstants
<1>1. after[0] = phase /\ \A i \in 1 .. n : after[i] = NextPhase(after[i - 1])
  <2>1. \A p \in Phases : NextPhase(p) \in Phases
    BY NextPhaseIsPhase
  <2> HIDE DEF after
  <2> QED
    BY <2>1, PhasesAre DEF after
<1> HIDE DEF after
<1>2. 0 \in T
  BY <1>1
<1>3. ASSUME NEW i \in Nat, i \in T PROVE i + 1 \in T
  <2> SUFFICES ASSUME i + 1 <= n PROVE after[i + 1] = (s + (L + (i + 1)) * f) % sample_rate
    OBVIOUS
  <2> DEFINE x == s + (L + i) * f
  <2>1. after[i] = x % sample_rate
    BY <1>3
  <2>2. x \in Int /\ s + (L + (i + 1)) * f = x + f
    BY <1>0
  <2>3. i + 1 \in 1 .. n /\ (i + 1) - 1 = i
    OBVIOUS
  <2>4. after[i + 1] = NextPhase(after[i])
    BY <1>1, <2>3
  <2> HIDE DEF x
  <2>5. NextPhase(x % sample_rate) = (x + f) % sample_rate
    BY <1>0, <2>2, StepIsTurn
  <2> QED
    BY <2>1, <2>2, <2>4, <2>5
<1>4. Nat \subseteq T
  <2> HIDE DEF T
  <2> QED
    BY <1>2, <1>3, NatSetInduction
<1> QED
  BY <1>4 DEF after

LEMMA FillKeepsTone ==
    ASSUME ToneInv, NEW n \in Nat, Fill(n)
    PROVE  ToneInv'
<1> DEFINE after == PhaseAfter(n)
           new == [i \in 1 .. n |-> SampleAt(after[i - 1])]
           L == Len(emitted)
<1>0. /\ frequency \in {None, NaN} \cup 0 .. Nyquist /\ phase \in Phases /\ start \in Phases
      /\ emitted \in Seq(Int) /\ amplitude \in Nat /\ L \in Nat
  BY LenProperties DEF ToneInv
<1>1. /\ phase' = IF frequency = None THEN phase ELSE after[n]
      /\ emitted' = emitted \o new
      /\ UNCHANGED <<frequency, amplitude, start>>
  BY DEF Fill
<1>2. \A i \in 0 .. n : after[i] \in Phases
  <2>1. \A p \in Phases : NextPhase(p) \in Phases
    BY <1>0, NextPhaseIsPhase
  <2> QED
    BY <1>0, <2>1, PhasesAre
<1> HIDE DEF after
<1>3. \A i \in 1 .. n : i - 1 \in 0 .. n /\ after[i - 1] \in Phases
  BY <1>2
<1>4. \A i \in 1 .. n : SampleAt(after[i - 1]) \in Int
  <2> SUFFICES ASSUME NEW i \in 1 .. n PROVE SampleAt(after[i - 1]) \in Int
    OBVIOUS
  <2> DEFINE p == after[i - 1]
  <2>1. p \in Phases
    BY <1>3
  <2> HIDE DEF p
  <2>2. SampleAt(p) \in Int
    <3>1. CASE p # NaN
      <4>1. p % sample_rate = p /\ p \in 0 .. sample_rate - 1
        BY <2>1, <3>1, WithinTurn DEF Phases
      <4>2. Wave[p] \in Int
        BY <4>1, ToneConstants
      <4>3. amplitude * Wave[p] \in Int
        BY <1>0, <4>2
      <4> QED
        BY <3>1, <4>1, <4>3 DEF SampleAt
    <3>2. CASE p = NaN
      BY <3>2 DEF SampleAt, NaN
    <3> QED
      BY <3>1, <3>2
  <2> QED
    BY <2>2 DEF p
<1>5. new \in Seq(Int) /\ Len(new) = n /\ \A i \in 1 .. n : new[i] = SampleAt(after[i - 1])
  BY <1>4
<1> HIDE DEF new
<1>6. /\ emitted' \in Seq(Int) /\ Len(emitted') = L + n
      /\ \A i \in 1 .. L + n : emitted'[i] = IF i <= L THEN emitted[i] ELSE new[i - L]
  BY <1>0, <1>1, <1>5, ConcatProperties
<1>7. phase' \in Phases
  BY <1>0, <1>1, <1>2
<1>8. ASSUME frequency \notin {None, NaN}, start # NaN
      PROVE  /\ phase' = (start + (L + n) * frequency) % sample_rate
             /\ \A i \in 1 .. L + n :
                   emitted'[i] = amplitude * Wave[(start + (i - 1) * frequency) % sample_rate]
  <2>1. /\ phase = (start + L * frequency) % sample_rate
        /\ \A i \in 1 .. L :
              emitted[i] = amplitude * Wave[(start + (i - 1) * frequency) % sample_rate]
    BY <1>8 DEF ToneInv, OneSine
  <2>2. start \in Int /\ frequency \in 0 .. Nyquist /\ frequency \in Nat
    BY <1>0, <1>8, ToneConstants DEF Phases, NaN
  <2>3. \A i \in 0 .. n : after[i] = (start + (L + i) * frequency) % sample_rate
    BY <1>0, <2>1, <2>2, PhasesGoOn DEF after
  <2>4. phase' = (start + (L + n) * frequency) % sample_rate
    BY <1>1, <1>8, <2>3
  <2>5. ASSUME NEW i \in 1 .. L + n, ~(i <= L)
        PROVE  emitted'[i] = amplitude * Wave[(start + (i - 1) * frequency) % sample_rate]
    <3> DEFINE j == i - L
               x == start + (i - 1) * frequency
    <3>1. j \in 1 .. n /\ j - 1 \in 0 .. n /\ L + (j - 1) = i - 1
      BY <1>0, <2>5
    <3>2. emitted'[i] = SampleAt(after[j - 1])
      BY <1>5, <1>6, <2>5, <3>1
    <3>3. after[j - 1] = x % sample_rate /\ x \in Int
      BY <2>2, <2>3, <3>1
    <3> HIDE DEF x, j
    <3>4. x % sample_rate \in 0 .. sample_rate - 1
      BY <3>3, ToneConstants
    <3> DEFINE p == x % sample_rate
    <3> HIDE DEF p
    <3>5. p \in 0 .. sample_rate - 1 /\ p % sample_rate = p /\ p # NaN
      <4>1. p \in 0 .. sample_rate - 1
        BY <3>4 DEF p
      <4>2. p # NaN
        BY <4>1, ToneConstants DEF NaN
      <4> QED
        BY <4>1, <4>2, WithinTurn
    <3>6. SampleAt(p) = amplitude * Wave[p]
      BY <1>8, <3>5 DEF SampleAt
    <3> QED
      BY <3>2, <3>3, <3>6 DEF p, x
  <2>6. ASSUME NEW i \in 1 .. L + n, i <= L
        PROVE  emitted'[i] = amplitude * Wave[(start + (i - 1) * frequency) % sample_rate]
    <3>1. i \in 1 .. L
      BY <1>0, <2>6
    <3> QED
      BY <1>6, <2>1, <2>6, <3>1
  <2> QED
    BY <2>4, <2>5, <2>6
<1>9. OneSine'
  <2>1. Len(emitted') = L + n /\ frequency' = frequency /\ start' = start /\ amplitude' = amplitude
    BY <1>1, <1>6
  <2> HIDE DEF L
  <2> QED
    BY <1>8, <2>1 DEF OneSine
<1> QED
  BY <1>0, <1>1, <1>6, <1>7, <1>9 DEF ToneInv

\* A setting of the tone starts the sine where the phase is.
LEMMA SettingKeepsTone ==
    ASSUME ToneInv, start' = phase, phase' = phase, emitted' = <<>>,
           frequency' \in {None, NaN} \cup 0 .. Nyquist, amplitude' \in Nat
    PROVE  ToneInv'
<1>1. emitted' \in Seq(Int) /\ Len(emitted') = 0 /\ phase \in Phases
  BY EmptySeq DEF ToneInv
<1>2. ASSUME frequency' \notin {None, NaN}, start' # NaN
      PROVE  phase' = (start' + Len(emitted') * frequency') % sample_rate
  <2>1. phase \in 0 .. sample_rate - 1 /\ frequency' \in Int
    BY <1>1, <1>2, ToneConstants DEF Phases
  <2>2. start' + Len(emitted') * frequency' = phase
    <3> DEFINE g == frequency'
               m == Len(emitted')
    <3>1. m = 0 /\ g \in Int /\ phase \in Int
      BY <1>1, <2>1, ToneConstants
    <3> HIDE DEF g, m
    <3>2. phase + m * g = phase
      BY <3>1
    <3> QED
      BY <3>2 DEF g, m
  <2> QED
    BY <2>1, <2>2, WithinTurn
<1>3. OneSine'
  BY <1>1, <1>2 DEF OneSine
<1> QED
  BY <1>1, <1>3 DEF ToneInv

LEMMA InitTone == Init => ToneInv
<1> SUFFICES ASSUME Init PROVE ToneInv
  OBVIOUS
<1>1. emitted \in Seq(Int) /\ Len(emitted) = 0
  BY EmptySeq DEF Init
<1>2. 0 \in Phases
  BY ToneConstants DEF Phases
<1>3. amplitude \in Nat
  BY AudioDeviceAssumption DEF Init
<1> QED
  BY <1>1, <1>2, <1>3 DEF Init, ToneInv, OneSine

LEMMA ToneStep ==
    ASSUME ToneInv, [Next]_vars
    PROVE  ToneInv'
<1>0. /\ frequency \in {None, NaN} \cup 0 .. Nyquist /\ amplitude \in Nat
  BY DEF ToneInv
<1>1. CASE UNCHANGED tone
  BY <1>1 DEF tone, ToneInv, OneSine
<1>2. ASSUME NEW f \in Frequencies, SetFrequency(f) PROVE ToneInv'
  <2>1. Clamp(f) \in {NaN} \cup 0 .. Nyquist
    BY ToneConstants, AudioDeviceAssumption DEF Clamp
  <2> QED
    BY <1>0, <1>2, <2>1, SettingKeepsTone DEF SetFrequency
<1>3. ASSUME NEW a \in Amplitudes, WithAmplitude(a) PROVE ToneInv'
  <2>1. a \in Nat
    BY AudioDeviceAssumption
  <2> QED
    BY <1>0, <1>3, <2>1, SettingKeepsTone DEF WithAmplitude
<1>4. ASSUME NEW n \in 0 .. channels * MaxFrames, Take(n, Fill(n)) PROVE ToneInv'
  <2>1. n \in Nat
    BY AudioDeviceAssumption
  <2> QED
    BY <1>1, <1>4, <2>1, FillKeepsTone DEF Take
<1>5. ASSUME NEW buffer \in Buffers, Take(Len(buffer), Accept(buffer)) PROVE UNCHANGED tone
  BY <1>5 DEF Take, Accept
<1>6. ASSUME NEW n \in BlockSizes, WithFixedBlockSize(n) PROVE UNCHANGED tone
  BY <1>6 DEF WithFixedBlockSize
<1>7. ClearAccepted => UNCHANGED tone
  BY DEF ClearAccepted
<1> QED
  BY <1>1, <1>2, <1>3, <1>4, <1>5, <1>6, <1>7 DEF Next, vars

\* However the blocks cut it, and whatever blocks are refused, the tone is one
\* sine from the setting of its frequency on, without a jump at a block's edge;
\* the phase never leaves its turn unless NaN got into it.
THEOREM ToneIsContinuous == Spec => []PhaseContinuous
<1>1. ToneInv => PhaseContinuous
  <2> SUFFICES ASSUME ToneInv PROVE PhaseContinuous
    OBVIOUS
  <2>1. DOMAIN emitted = 1 .. Len(emitted)
    BY LenProperties DEF ToneInv
  <2> QED
    BY <2>1 DEF ToneInv, OneSine, PhaseContinuous, Phases
<1>2. ToneInv /\ [Next]_vars => ToneInv'
  BY ToneStep
<1> QED
  BY <1>1, <1>2, InitTone, PTL DEF Spec

-----------------------------------------------------------------------------
(* The folds of accept *)

LEMMA EnergyIsNumber ==
    ASSUME NEW m \in Int, NEW x \in Int
    PROVE  Energy(m, x) \in Int
<1>1. x * x \in Int
  OBVIOUS
<1> QED
  BY <1>1 DEF Energy, Plus, Times, NaN

LEMMA LoudnessIs ==
    ASSUME NEW x \in Int
    PROVE  Max({x, -x}) \in {x, -x} /\ Max({x, -x}) >= x /\ Max({x, -x}) >= -x
<1>1. \E y \in {x, -x} : \A z \in {x, -x} : y >= z
  <2>1. CASE x >= 0
    BY <2>1
  <2>2. CASE ~(x >= 0)
    BY <2>2
  <2> QED
    BY <2>1, <2>2
<1> QED
  BY <1>1 DEF Max

LEMMA LouderIsNumber ==
    ASSUME NEW m \in Int, NEW x \in Int
    PROVE  Louder(m, x) \in Int
  BY LoudnessIs DEF Louder

\* What FoldLeft(Energy, ..) and FoldLeft(Louder, ..) compute, sample by sample.
LEMMA EnergyRuns ==
    ASSUME NEW s \in Seq(Int), NEW base \in Int
    PROVE  \E f \in [0 .. Len(s) -> Int] :
              /\ f[0] = base
              /\ \A i \in 1 .. Len(s) : f[i] = Energy(f[i - 1], s[i])
              /\ FoldLeft(Energy, base, s) = f[Len(s)]
<1> DEFINE n == Len(s)
           body(g) == [S \in SUBSET (DOMAIN s) |->
                         IF S = {} THEN base
                         ELSE Energy(g[S \ {Max(S)}], s[Max(S)])]
           it == CHOOSE g : g = body(g)
           step == [p \in (1 .. n) \X Int |-> Energy(p[2], s[p[1]])]
<1>1. n \in Nat /\ DOMAIN s = 1 .. n /\ \A i \in 1 .. n : s[i] \in Int
  BY LenProperties, ElementOfSeq
<1>2. step \in [(1 .. n) \X Int -> Int]
  <2> SUFFICES ASSUME NEW i \in 1 .. n, NEW m \in Int PROVE Energy(m, s[i]) \in Int
    OBVIOUS
  <2>1. s[i] \in Int
    BY <1>1
  <2> QED
    BY <2>1, EnergyIsNumber
<1>3. FoldLeft(Energy, base, s) = it[1 .. n]
  BY <1>1 DEF FoldLeft, MapThenFoldSet
<1>4. \E g : g = body(g)
  <2> HIDE DEF step, n
  <2>1. PICK g \in [SUBSET (1 .. n) -> Int] : IsMaxFold(g, n, base, step)
    BY <1>1, <1>2, MaxFold
  <2>2. ASSUME NEW S \in SUBSET (1 .. n), S # {}
        PROVE  g[S] = Energy(g[S \ {Max(S)}], s[Max(S)])
    <3>1. Max(S) \in 1 .. n /\ g[S \ {Max(S)}] \in Int
      BY <2>1, <2>2 DEF IsMaxFold
    <3> QED
      BY <2>1, <2>2, <3>1 DEF step, IsMaxFold
  <2>3. g = body(g)
    BY <1>1, <2>1, <2>2 DEF IsMaxFold
  <2> QED
    BY <2>3
<1>5. it = body(it)
  BY <1>4
<1> HIDE DEF it
<1>6. \A S \in SUBSET (1 .. n) :
         it[S] = IF S = {} THEN base ELSE Energy(it[S \ {Max(S)}], s[Max(S)])
  BY <1>1, <1>5
<1> HIDE DEF n, step
<1> DEFINE f == [k \in 0 .. n |-> it[1 .. k]]
           T == {k \in Nat : k <= n => it[1 .. k] \in Int}
<1>7. it[1 .. 0] = base
  <2>1. 1 .. 0 = {} /\ {} \in SUBSET (1 .. n)
    BY <1>1
  <2>2. it[{}] = base
    BY <1>6, <2>1
  <2> QED
    BY <2>1, <2>2, Zenon
<1>8. ASSUME NEW k \in Nat, k + 1 <= n
      PROVE  it[1 .. k + 1] = Energy(it[1 .. k], s[k + 1]) /\ s[k + 1] \in Int
  <2>1. k + 1 \in 1 .. n /\ (k + 1) - 1 = k
    BY <1>1, <1>8
  <2>2. /\ 1 .. k + 1 \in SUBSET (1 .. n) /\ 1 .. k + 1 # {}
        /\ Max(1 .. k + 1) = k + 1
        /\ (1 .. k + 1) \ {k + 1} = 1 .. k
    BY <1>1, <2>1, MaxOfRange
  <2> QED
    BY <1>1, <1>6, <2>1, <2>2
<1>9. Nat \subseteq T
  <2>1. 0 \in T
    BY <1>7
  <2>2. ASSUME NEW k \in Nat, k \in T PROVE k + 1 \in T
    <3> SUFFICES ASSUME k + 1 <= n PROVE it[1 .. k + 1] \in Int
      OBVIOUS
    <3>1. it[1 .. k] \in Int
      BY <1>1, <2>2
    <3> QED
      BY <1>8, <3>1, EnergyIsNumber
  <2> HIDE DEF T
  <2> QED
    BY <2>1, <2>2, NatSetInduction
<1>10. f \in [0 .. n -> Int] /\ f[0] = base
  <2>1. \A k \in 0 .. n : it[1 .. k] \in Int
    BY <1>1, <1>9
  <2>2. 0 \in 0 .. n
    BY <1>1
  <2> QED
    BY <1>7, <2>1, <2>2
<1>11. ASSUME NEW i \in 1 .. n PROVE f[i] = Energy(f[i - 1], s[i])
  <2> DEFINE k == i - 1
  <2>1. k \in Nat /\ k + 1 = i /\ k + 1 <= n /\ k \in 0 .. n /\ i \in 0 .. n
    BY <1>1
  <2>2. f[i] = it[1 .. i] /\ f[k] = it[1 .. k]
    BY <2>1
  <2> HIDE DEF k
  <2>3. it[1 .. k + 1] = Energy(it[1 .. k], s[k + 1])
    BY <1>8, <2>1
  <2>4. f[i] = Energy(f[k], s[i])
    BY <2>1, <2>2, <2>3
  <2> QED
    BY <2>4 DEF k
<1>12. FoldLeft(Energy, base, s) = f[n]
  <2>1. n \in 0 .. n
    BY <1>1
  <2> QED
    BY <1>3, <2>1 DEF n
<1> HIDE DEF f
<1> QED
  BY <1>10, <1>11, <1>12 DEF n

LEMMA LouderRuns ==
    ASSUME NEW s \in Seq(Int), NEW base \in Int
    PROVE  \E f \in [0 .. Len(s) -> Int] :
              /\ f[0] = base
              /\ \A i \in 1 .. Len(s) : f[i] = Louder(f[i - 1], s[i])
              /\ FoldLeft(Louder, base, s) = f[Len(s)]
<1> DEFINE n == Len(s)
           body(g) == [S \in SUBSET (DOMAIN s) |->
                         IF S = {} THEN base
                         ELSE Louder(g[S \ {Max(S)}], s[Max(S)])]
           it == CHOOSE g : g = body(g)
           step == [p \in (1 .. n) \X Int |-> Louder(p[2], s[p[1]])]
<1>1. n \in Nat /\ DOMAIN s = 1 .. n /\ \A i \in 1 .. n : s[i] \in Int
  BY LenProperties, ElementOfSeq
<1>2. step \in [(1 .. n) \X Int -> Int]
  <2> SUFFICES ASSUME NEW i \in 1 .. n, NEW m \in Int PROVE Louder(m, s[i]) \in Int
    OBVIOUS
  <2>1. s[i] \in Int
    BY <1>1
  <2> QED
    BY <2>1, LouderIsNumber
<1>3. FoldLeft(Louder, base, s) = it[1 .. n]
  BY <1>1 DEF FoldLeft, MapThenFoldSet
<1>4. \E g : g = body(g)
  <2> HIDE DEF step, n
  <2>1. PICK g \in [SUBSET (1 .. n) -> Int] : IsMaxFold(g, n, base, step)
    BY <1>1, <1>2, MaxFold
  <2>2. ASSUME NEW S \in SUBSET (1 .. n), S # {}
        PROVE  g[S] = Louder(g[S \ {Max(S)}], s[Max(S)])
    <3>1. Max(S) \in 1 .. n /\ g[S \ {Max(S)}] \in Int
      BY <2>1, <2>2 DEF IsMaxFold
    <3> QED
      BY <2>1, <2>2, <3>1 DEF step, IsMaxFold
  <2>3. g = body(g)
    BY <1>1, <2>1, <2>2 DEF IsMaxFold
  <2> QED
    BY <2>3
<1>5. it = body(it)
  BY <1>4
<1> HIDE DEF it
<1>6. \A S \in SUBSET (1 .. n) :
         it[S] = IF S = {} THEN base ELSE Louder(it[S \ {Max(S)}], s[Max(S)])
  BY <1>1, <1>5
<1> HIDE DEF n, step
<1> DEFINE f == [k \in 0 .. n |-> it[1 .. k]]
           T == {k \in Nat : k <= n => it[1 .. k] \in Int}
<1>7. it[1 .. 0] = base
  <2>1. 1 .. 0 = {} /\ {} \in SUBSET (1 .. n)
    BY <1>1
  <2>2. it[{}] = base
    BY <1>6, <2>1
  <2> QED
    BY <2>1, <2>2, Zenon
<1>8. ASSUME NEW k \in Nat, k + 1 <= n
      PROVE  it[1 .. k + 1] = Louder(it[1 .. k], s[k + 1]) /\ s[k + 1] \in Int
  <2>1. k + 1 \in 1 .. n /\ (k + 1) - 1 = k
    BY <1>1, <1>8
  <2>2. /\ 1 .. k + 1 \in SUBSET (1 .. n) /\ 1 .. k + 1 # {}
        /\ Max(1 .. k + 1) = k + 1
        /\ (1 .. k + 1) \ {k + 1} = 1 .. k
    BY <1>1, <2>1, MaxOfRange
  <2> QED
    BY <1>1, <1>6, <2>1, <2>2
<1>9. Nat \subseteq T
  <2>1. 0 \in T
    BY <1>7
  <2>2. ASSUME NEW k \in Nat, k \in T PROVE k + 1 \in T
    <3> SUFFICES ASSUME k + 1 <= n PROVE it[1 .. k + 1] \in Int
      OBVIOUS
    <3>1. it[1 .. k] \in Int
      BY <1>1, <2>2
    <3> QED
      BY <1>8, <3>1, LouderIsNumber
  <2> HIDE DEF T
  <2> QED
    BY <2>1, <2>2, NatSetInduction
<1>10. f \in [0 .. n -> Int] /\ f[0] = base
  <2>1. \A k \in 0 .. n : it[1 .. k] \in Int
    BY <1>1, <1>9
  <2>2. 0 \in 0 .. n
    BY <1>1
  <2> QED
    BY <1>7, <2>1, <2>2
<1>11. ASSUME NEW i \in 1 .. n PROVE f[i] = Louder(f[i - 1], s[i])
  <2> DEFINE k == i - 1
  <2>1. k \in Nat /\ k + 1 = i /\ k + 1 <= n /\ k \in 0 .. n /\ i \in 0 .. n
    BY <1>1
  <2>2. f[i] = it[1 .. i] /\ f[k] = it[1 .. k]
    BY <2>1
  <2> HIDE DEF k
  <2>3. it[1 .. k + 1] = Louder(it[1 .. k], s[k + 1])
    BY <1>8, <2>1
  <2>4. f[i] = Louder(f[k], s[i])
    BY <2>1, <2>2, <2>3
  <2> QED
    BY <2>4 DEF k
<1>12. FoldLeft(Louder, base, s) = f[n]
  <2>1. n \in 0 .. n
    BY <1>1
  <2> QED
    BY <1>3, <2>1 DEF n
<1> HIDE DEF f
<1> QED
  BY <1>10, <1>11, <1>12 DEF n

-----------------------------------------------------------------------------
(* What the statistics are of *)

\* The sum over all that was heard goes on from the sum so far.
LEMMA EnergyGoesOn ==
    ASSUME NEW h \in Seq(Int), NEW b \in Seq(Int)
    PROVE  FoldLeft(Energy, 0, h \o b) = FoldLeft(Energy, FoldLeft(Energy, 0, h), b)
<1> DEFINE L == Len(h)
           n == Len(b)
           t == h \o b
<1>1. /\ L \in Nat /\ n \in Nat /\ t \in Seq(Int) /\ Len(t) = L + n
      /\ \A i \in 1 .. L + n : t[i] = IF i <= L THEN h[i] ELSE b[i - L]
  BY LenProperties, ConcatProperties
<1> DEFINE zero == 0
<1>0. zero \in Int
  OBVIOUS
<1> HIDE DEF zero
<1>2. PICK f \in [0 .. Len(h) -> Int] :
         /\ f[0] = zero
         /\ \A i \in 1 .. Len(h) : f[i] = Energy(f[i - 1], h[i])
         /\ FoldLeft(Energy, zero, h) = f[Len(h)]
  BY <1>0, EnergyRuns
<1>3. f[L] \in Int
  BY <1>1
<1>4. PICK g \in [0 .. Len(b) -> Int] :
         /\ g[0] = f[L]
         /\ \A i \in 1 .. Len(b) : g[i] = Energy(g[i - 1], b[i])
         /\ FoldLeft(Energy, f[L], b) = g[Len(b)]
  BY <1>3, EnergyRuns
<1> HIDE DEF t
<1>5. PICK e \in [0 .. Len(t) -> Int] :
         /\ e[0] = zero
         /\ \A i \in 1 .. Len(t) : e[i] = Energy(e[i - 1], t[i])
         /\ FoldLeft(Energy, zero, t) = e[Len(t)]
  BY <1>0, <1>1, EnergyRuns
<1>runs.
      /\ f[0] = zero /\ g[0] = f[L] /\ e[0] = zero
      /\ \A i \in 1 .. L : f[i] = Energy(f[i - 1], h[i])
      /\ \A i \in 1 .. n : g[i] = Energy(g[i - 1], b[i])
      /\ \A i \in 1 .. L + n : e[i] = Energy(e[i - 1], t[i])
  BY <1>1, <1>2, <1>4, <1>5
<1>ends.
      /\ FoldLeft(Energy, zero, t) = e[L + n]
      /\ FoldLeft(Energy, FoldLeft(Energy, zero, h), b) = g[n]
  BY <1>1, <1>2, <1>4, <1>5
<1> HIDE DEF L, n
<1> DEFINE T == {i \in Nat : i <= L => e[i] = f[i]}
           U == {i \in Nat : i <= n => e[L + i] = g[i]}
<1>6. Nat \subseteq T
  <2>1. 0 \in T
    BY <1>runs
  <2>2. ASSUME NEW i \in Nat, i \in T PROVE i + 1 \in T
    <3> SUFFICES ASSUME i + 1 <= L PROVE e[i + 1] = f[i + 1]
      OBVIOUS
    <3>1. i + 1 \in 1 .. L /\ i + 1 \in 1 .. L + n /\ (i + 1) - 1 = i /\ e[i] = f[i]
      BY <1>1, <2>2
    <3>2. e[i + 1] = Energy(e[i], t[i + 1]) /\ f[i + 1] = Energy(f[i], h[i + 1])
      BY <1>runs, <3>1
    <3>3. t[i + 1] = h[i + 1]
      BY <1>1, <3>1
    <3> QED
      BY <3>1, <3>2, <3>3
  <2> HIDE DEF T
  <2> QED
    BY <2>1, <2>2, NatSetInduction
<1>7. Nat \subseteq U
  <2>1. 0 \in U
    <3>1. e[L] = f[L]
      BY <1>1, <1>6
    <3>2. L + 0 = L
      BY <1>1
    <3> QED
      BY <1>runs, <3>1, <3>2
  <2>2. ASSUME NEW i \in Nat, i \in U PROVE i + 1 \in U
    <3> SUFFICES ASSUME i + 1 <= n PROVE e[L + (i + 1)] = g[i + 1]
      OBVIOUS
    <3> DEFINE k == L + (i + 1)
    <3>1. /\ i + 1 \in 1 .. n /\ (i + 1) - 1 = i /\ e[L + i] = g[i]
          /\ k \in 1 .. L + n /\ k - 1 = L + i /\ ~(k <= L) /\ k - L = i + 1
      BY <1>1, <2>2
    <3> HIDE DEF k
    <3>2. e[k] = Energy(e[k - 1], t[k]) /\ g[i + 1] = Energy(g[i], b[i + 1])
      BY <1>runs, <3>1
    <3>3. t[k] = b[i + 1]
      BY <1>1, <3>1
    <3> QED
      BY <3>1, <3>2, <3>3 DEF k
  <2> HIDE DEF U
  <2> QED
    BY <2>1, <2>2, NatSetInduction
<1>8. e[L + n] = g[n]
  <2>1. n \in Nat /\ n <= n
    BY <1>1
  <2>2. n \in U
    <3> HIDE DEF U
    <3> QED
      BY <1>7, <2>1
  <2> QED
    BY <2>1, <2>2
<1> QED
  BY <1>ends, <1>8 DEF t, zero

\* The magnitudes of the samples of X, and silence.
Magnitudes(X) == {0} \cup UNION {{x, -x} : x \in X \ {NaN}}

IsPeak(m, X) == m \in Magnitudes(X) /\ \A y \in Magnitudes(X) : y <= m

LEMMA MagnitudesAre ==
    ASSUME NEW X, NEW y
    PROVE  y \in Magnitudes(X) <=> y = 0 \/ \E x \in X : x # NaN /\ (y = x \/ y = -x)
  BY DEF Magnitudes

LEMMA MagnitudesAreNumbers ==
    ASSUME NEW X \in SUBSET Int
    PROVE  Magnitudes(X) \subseteq Int
<1> SUFFICES ASSUME NEW z \in Magnitudes(X) PROVE z \in Int
  OBVIOUS
<1>1. CASE z = 0
  BY <1>1
<1>2. CASE \E v \in X : v # NaN /\ (z = v \/ z = -v)
  <2>1. PICK w \in X : z = w \/ z = -w
    BY <1>2
  <2>2. w \in Int
    OBVIOUS
  <2> QED
    BY <2>1, <2>2
<1> QED
  BY <1>1, <1>2, MagnitudesAre

LEMMA LouderIsPeak ==
    ASSUME NEW X \in SUBSET Int, NEW m \in Int, IsPeak(m, X), NEW x \in Int
    PROVE  IsPeak(Louder(m, x), X \cup {x})
<1>0. \A y : y \in Magnitudes(X \cup {x}) <=> y \in Magnitudes(X) \/ (x # NaN /\ y \in {x, -x})
  BY MagnitudesAre
<1>1. Magnitudes(X) \subseteq Int
  BY MagnitudesAreNumbers
<1> DEFINE a == Max({x, -x})
<1>2. a \in {x, -x} /\ a >= x /\ a >= -x /\ a \in Int
  BY LoudnessIs
<1> HIDE DEF a
<1>3. Louder(m, x) = IF x # NaN /\ a > m THEN a ELSE m
  BY DEF Louder, a
<1>4. CASE x # NaN /\ a > m
  <2>1. a \in Magnitudes(X \cup {x})
    BY <1>0, <1>2, <1>4
  <2>2. \A y \in Magnitudes(X \cup {x}) : y <= a
    <3>1. ASSUME NEW y \in Magnitudes(X) PROVE y <= a
      BY <1>1, <1>2, <1>4 DEF IsPeak
    <3> QED
      BY <1>0, <1>2, <3>1
  <2> QED
    BY <1>3, <1>4, <2>1, <2>2 DEF IsPeak
<1>5. CASE ~(x # NaN /\ a > m)
  <2>1. m \in Magnitudes(X \cup {x})
    BY <1>0 DEF IsPeak
  <2>2. ASSUME NEW y \in Magnitudes(X \cup {x}) PROVE y <= m
    <3>1. CASE y \in Magnitudes(X)
      BY <3>1 DEF IsPeak
    <3>2. CASE x # NaN /\ y \in {x, -x}
      BY <1>2, <1>5, <3>2
    <3> QED
      BY <1>0, <3>1, <3>2
  <2> QED
    BY <1>3, <1>5, <2>1, <2>2 DEF IsPeak
<1> QED
  BY <1>4, <1>5

LEMMA PeakGoesOn ==
    ASSUME NEW X \in SUBSET Int, NEW m \in Int, IsPeak(m, X), NEW b \in Seq(Int)
    PROVE  /\ IsPeak(FoldLeft(Louder, m, b), X \cup Range(b))
           /\ FoldLeft(Louder, m, b) \in Int
<1> DEFINE n == Len(b)
<1>1. n \in Nat /\ DOMAIN b = 1 .. n /\ \A i \in 1 .. n : b[i] \in Int
  BY LenProperties, ElementOfSeq
<1>2. PICK f \in [0 .. Len(b) -> Int] :
         /\ f[0] = m
         /\ \A i \in 1 .. Len(b) : f[i] = Louder(f[i - 1], b[i])
         /\ FoldLeft(Louder, m, b) = f[Len(b)]
  BY LouderRuns
<1>3. /\ f \in [0 .. n -> Int] /\ f[0] = m /\ FoldLeft(Louder, m, b) = f[n]
      /\ \A i \in 1 .. n : f[i] = Louder(f[i - 1], b[i])
  BY <1>2
<1> HIDE DEF n
<1> DEFINE Y(k) == X \cup {b[i] : i \in 1 .. k}
           T == {k \in Nat : k <= n => IsPeak(f[k], Y(k))}
<1>4. 0 \in T
  <2>1. 1 .. 0 = {}
    OBVIOUS
  <2>2. Y(0) = X
    BY <2>1
  <2> HIDE DEF Y
  <2> QED
    BY <1>3, <2>2
<1>5. ASSUME NEW k \in Nat, k \in T PROVE k + 1 \in T
  <2> SUFFICES ASSUME k + 1 <= n PROVE IsPeak(f[k + 1], Y(k + 1))
    OBVIOUS
  <2>0. IsPeak(f[k], Y(k))
    <3>1. k <= n
      BY <1>1
    <3> QED
      BY <1>5, <3>1
  <2>1. k + 1 \in 1 .. n /\ (k + 1) - 1 = k /\ k \in 0 .. n
    BY <1>1
  <2>2. Y(k + 1) = Y(k) \cup {b[k + 1]}
    <3>1. \A i : i \in 1 .. k + 1 <=> i \in 1 .. k \/ i = k + 1
      OBVIOUS
    <3> QED
      BY <3>1
  <2>3. Y(k) \in SUBSET Int /\ b[k + 1] \in Int /\ f[k] \in Int
    <3>1. \A i \in 1 .. k : i \in 1 .. n
      BY <1>1
    <3>2. Y(k) \in SUBSET Int
      BY <1>1, <3>1
    <3>3. b[k + 1] \in Int /\ f[k] \in Int
      BY <1>1, <1>3, <2>1
    <3> HIDE DEF Y
    <3> QED
      BY <3>2, <3>3
  <2>4. f[k + 1] = Louder(f[k], b[k + 1])
    BY <1>3, <2>1
  <2> HIDE DEF Y
  <2> QED
    BY <2>0, <2>2, <2>3, <2>4, LouderIsPeak
<1>6. n \in T
  <2> HIDE DEF T
  <2> QED
    BY <1>1, <1>4, <1>5, NatSetInduction
<1>7. Y(n) = X \cup Range(b)
  BY <1>1 DEF Range
<1>8. IsPeak(f[n], Y(n)) /\ f[n] \in Int
  <2> HIDE DEF Y
  <2> QED
    BY <1>1, <1>3, <1>6
<1> HIDE DEF Y
<1> QED
  BY <1>3, <1>7, <1>8

-----------------------------------------------------------------------------
(* The buffers that are kept are the last of what was heard *)

LEMMA FlattenRuns ==
    ASSUME NEW s \in Seq(Seq(Int))
    PROVE  \E f \in [0 .. Len(s) -> Seq(Int)] :
              /\ f[0] = <<>>
              /\ \A i \in 1 .. Len(s) : f[i] = f[i - 1] \o s[i]
              /\ FlattenSeq(s) = f[Len(s)]
<1> DEFINE n == Len(s)
           R == Seq(Int)
           step == [q \in (1 .. n) \X R |-> q[2] \o s[q[1]]]
           body(g) == [i \in 1 .. n |-> IF i = 1 THEN s[i] ELSE g[i - 1] \o s[i]]
           it == CHOOSE g : g = body(g)
<1>1. n \in Nat /\ (\A i \in 1 .. n : s[i] \in R) /\ <<>> \in R
  BY LenProperties, ElementOfSeq, EmptySeq
<1>2. step \in [(1 .. n) \X R -> R]
  <2> SUFFICES ASSUME NEW i \in 1 .. n, NEW q \in R PROVE q \o s[i] \in R
    OBVIOUS
  <2>1. s[i] \in R
    BY <1>1
  <2> QED
    BY <2>1, ConcatProperties
<1>3. PICK f \in [0 .. n -> R] : IsIteration(f, n, <<>>, step)
  <2> HIDE DEF step, R
  <2> QED
    BY <1>1, <1>2, IterationExists
<1>4. f[0] = <<>>
  <2>1. 0 \in 0 .. n
    BY <1>1
  <2> QED
    BY <1>3, <2>1, Zenon DEF IsIteration
<1>5. ASSUME NEW i \in 1 .. n PROVE f[i] = f[i - 1] \o s[i] /\ i - 1 \in 0 .. n /\ f[i - 1] \in R
  <2>0. i - 1 \in 0 .. n /\ i \in 0 .. n /\ i # 0
    BY <1>1
  <2>1. i - 1 \in 0 .. n /\ i \in 0 .. n /\ i # 0 /\ f[i - 1] \in R
    BY <1>3, <2>0
  <2>2. f[i] = step[<<i, f[i - 1]>>]
    BY <1>3, <2>1, Zenon DEF IsIteration
  <2>3. step[<<i, f[i - 1]>>] = f[i - 1] \o s[i]
    BY <2>1
  <2> QED
    BY <2>1, <2>2, <2>3
<1> HIDE DEF step
<1>6. ASSUME n # 0 PROVE FlattenSeq(s) = f[n]
  <2> DEFINE h == [i \in 1 .. n |-> f[i]]
  <2>1. ASSUME NEW i \in 1 .. n PROVE h[i] = body(h)[i]
    <3>1. CASE i = 1
      <4>1. f[1] = f[0] \o s[1] /\ s[1] \in R
        <5>1. 1 \in 1 .. n /\ 1 - 1 = 0
          BY <1>1, <3>1
        <5>2. f[1] = f[1 - 1] \o s[1]
          BY <1>5, <5>1
        <5> QED
          BY <1>1, <5>1, <5>2
      <4>2. f[1] = s[1]
        BY <1>4, <4>1, ConcatEmptySeq
      <4> QED
        BY <3>1, <4>2
    <3>2. CASE i # 1
      <4>1. i - 1 \in 1 .. n
        BY <3>2
      <4>2. h[i] = f[i - 1] \o s[i] /\ h[i - 1] = f[i - 1]
        BY <1>5, <4>1
      <4>3. body(h)[i] = h[i - 1] \o s[i]
        BY <3>2
      <4> QED
        BY <4>2, <4>3
    <3> QED
      BY <3>1, <3>2
  <2>2. h = body(h)
    <3> DEFINE k == body(h)
    <3>1. k = [i \in 1 .. n |-> k[i]] /\ h = [i \in 1 .. n |-> h[i]]
      OBVIOUS
    <3> HIDE DEF k, h
    <3> QED
      BY <2>1, <3>1 DEF k
  <2>3. it = body(it)
    BY <2>2
  <2>4. FlattenSeq(s) = it[n]
    BY <1>6 DEF FlattenSeq
  <2> HIDE DEF it
  <2> DEFINE T == {i \in Nat : i + 1 <= n => it[i + 1] = f[i + 1]}
  <2>5. 0 \in T
    <3> SUFFICES ASSUME 1 <= n PROVE it[1] = f[1]
      OBVIOUS
    <3>1. 1 \in 1 .. n
      BY <1>1
    <3>2. it[1] = s[1]
      BY <2>3, <3>1
    <3>3. f[1] = body(h)[1]
      BY <2>1, <3>1
    <3>4. body(h)[1] = s[1]
      BY <3>1
    <3> QED
      BY <3>2, <3>3, <3>4
  <2>6. ASSUME NEW i \in Nat, i \in T PROVE i + 1 \in T
    <3> SUFFICES ASSUME i + 1 + 1 <= n PROVE it[i + 1 + 1] = f[i + 1 + 1]
      OBVIOUS
    <3> DEFINE k == i + 1 + 1
    <3>1. k \in 1 .. n /\ k # 1 /\ k - 1 = i + 1 /\ it[i + 1] = f[i + 1]
      BY <1>1, <2>6
    <3> HIDE DEF k
    <3>2. body(it)[k] = it[k - 1] \o s[k]
      BY <3>1
    <3>3. it[k] = it[k - 1] \o s[k]
      BY <2>3, <3>2
    <3>4. f[k] = f[k - 1] \o s[k]
      BY <1>5, <3>1
    <3> QED
      BY <3>1, <3>3, <3>4 DEF k
  <2>7. Nat \subseteq T
    <3> HIDE DEF T
    <3> QED
      BY <2>5, <2>6, NatSetInduction
  <2>8. n - 1 \in Nat /\ (n - 1) + 1 = n
    BY <1>1, <1>6
  <2>9. it[n] = f[n]
    <3>1. n - 1 \in T
      BY <2>7, <2>8
    <3> QED
      BY <1>1, <2>8, <3>1
  <2> QED
    BY <2>4, <2>9
<1>7. ASSUME n = 0 PROVE FlattenSeq(s) = f[n]
  <2>1. s = <<>>
    BY <1>7, EmptySeq
  <2> QED
    BY <1>4, <1>7, <2>1 DEF FlattenSeq
<1>8. FlattenSeq(s) = f[n]
  BY <1>6, <1>7
<1> HIDE DEF it
<1> QED
  BY <1>3, <1>4, <1>5, <1>8

\* One more buffer adds its samples.
LEMMA FlattenGrows ==
    ASSUME NEW a \in Seq(Seq(Int)), NEW b \in Seq(Int)
    PROVE  /\ FlattenSeq(Append(a, b)) = FlattenSeq(a) \o b
           /\ FlattenSeq(a) \in Seq(Int)
<1> DEFINE n == Len(a)
           t == Append(a, b)
<1>1. /\ n \in Nat /\ t \in Seq(Seq(Int)) /\ Len(t) = n + 1
      /\ t[n + 1] = b /\ \A i \in 1 .. n : t[i] = a[i]
  BY LenProperties
<1>2. PICK f \in [0 .. Len(a) -> Seq(Int)] :
         /\ f[0] = <<>>
         /\ \A i \in 1 .. Len(a) : f[i] = f[i - 1] \o a[i]
         /\ FlattenSeq(a) = f[Len(a)]
  BY FlattenRuns
<1>3. /\ f \in [0 .. n -> Seq(Int)] /\ f[0] = <<>> /\ FlattenSeq(a) = f[n]
      /\ \A i \in 1 .. n : f[i] = f[i - 1] \o a[i]
  BY <1>2
<1> HIDE DEF t
<1>4. PICK g \in [0 .. Len(t) -> Seq(Int)] :
         /\ g[0] = <<>>
         /\ \A i \in 1 .. Len(t) : g[i] = g[i - 1] \o t[i]
         /\ FlattenSeq(t) = g[Len(t)]
  BY <1>1, FlattenRuns
<1>5. /\ g[0] = <<>> /\ FlattenSeq(t) = g[n + 1]
      /\ \A i \in 1 .. n + 1 : g[i] = g[i - 1] \o t[i]
  BY <1>1, <1>4
<1> HIDE DEF n
<1> DEFINE T == {i \in Nat : i <= n => g[i] = f[i]}
<1>6. 0 \in T
  BY <1>3, <1>5
<1>7. ASSUME NEW i \in Nat, i \in T PROVE i + 1 \in T
  <2> SUFFICES ASSUME i + 1 <= n PROVE g[i + 1] = f[i + 1]
    OBVIOUS
  <2> DEFINE k == i + 1
  <2>1. k \in 1 .. n /\ k \in 1 .. n + 1 /\ k - 1 = i /\ g[i] = f[i]
    BY <1>1, <1>7
  <2> HIDE DEF k
  <2>2. g[k] = g[k - 1] \o t[k] /\ f[k] = f[k - 1] \o a[k] /\ t[k] = a[k]
    BY <1>1, <1>3, <1>5, <2>1
  <2> QED
    BY <2>1, <2>2 DEF k
<1>8. n \in T
  <2> HIDE DEF T
  <2> QED
    BY <1>1, <1>6, <1>7, NatSetInduction
<1>9. g[n + 1] = g[n] \o b
  <2>1. n + 1 \in 1 .. n + 1 /\ (n + 1) - 1 = n
    BY <1>1
  <2> QED
    BY <1>1, <1>5, <2>1
<1>10. g[n] = f[n] /\ f[n] \in Seq(Int)
  BY <1>1, <1>3, <1>8
<1> QED
  BY <1>3, <1>5, <1>9, <1>10 DEF t

LEMMA EndIsSuffix ==
    ASSUME NEW h \in Seq(Int), NEW s \in Seq(Int)
    PROVE  IsSuffix(s, h \o s)
<1> DEFINE t == h \o s
           L == Len(h)
           n == Len(s)
           rs == Reverse(s)
           rt == Reverse(t)
<1>1. /\ L \in Nat /\ n \in Nat /\ t \in Seq(Int) /\ Len(t) = L + n
      /\ \A i \in 1 .. L + n : t[i] = IF i <= L THEN h[i] ELSE s[i - L]
  BY LenProperties, ConcatProperties
<1>2. \A i \in 1 .. n : s[i] \in Int
  BY ElementOfSeq
<1>3. \A i \in 1 .. L + n : t[i] \in Int
  BY <1>1, ElementOfSeq
<1> HIDE DEF t
<1>4. /\ rs = [i \in 1 .. n |-> s[(n - i) + 1]]
      /\ rt = [i \in 1 .. L + n |-> t[((L + n) - i) + 1]]
  BY <1>1 DEF Reverse
<1> HIDE DEF L, n, rs, rt
<1>5. Len(rs) = n /\ Len(rt) = L + n
  BY <1>1, <1>4
<1>6. ASSUME NEW i \in 1 .. n PROVE rs[i] \in Int /\ rt[i] = rs[i]
  <2>1. (n - i) + 1 \in 1 .. n /\ ((L + n) - i) + 1 \in 1 .. L + n /\ i \in 1 .. L + n
    BY <1>1
  <2>2. rs[i] = s[(n - i) + 1] /\ rt[i] = t[((L + n) - i) + 1]
    BY <1>4, <2>1
  <2>3. t[((L + n) - i) + 1] = s[(n - i) + 1]
    <3> DEFINE k == ((L + n) - i) + 1
    <3>1. k \in 1 .. L + n /\ ~(k <= L) /\ k - L = (n - i) + 1
      BY <1>1, <2>1
    <3> HIDE DEF k
    <3>2. t[k] = s[k - L]
      BY <1>1, <3>1
    <3> QED
      BY <3>1, <3>2 DEF k
  <2> QED
    BY <1>2, <2>1, <2>2, <2>3
<1>7. SubSeq(rs, 1, n) = SubSeq(rt, 1, n)
  <2> DEFINE x == SubSeq(rs, 1, n)
             y == SubSeq(rt, 1, n)
             one == 1
  <2>0. one \in Int /\ n \in Int /\ (\A i \in one .. n : rs[i] \in Int /\ rt[i] \in Int)
    BY <1>1, <1>6
  <2>1. /\ x \in Seq(Int) /\ Len(x) = IF one <= n THEN n - one + 1 ELSE 0
        /\ \A i \in 1 .. n - one + 1 : x[i] = rs[one + i - 1]
    BY <2>0, SubSeqProperties
  <2>2. /\ y \in Seq(Int) /\ Len(y) = IF one <= n THEN n - one + 1 ELSE 0
        /\ \A i \in 1 .. n - one + 1 : y[i] = rt[one + i - 1]
    BY <2>0, SubSeqProperties
  <2> HIDE DEF x, y
  <2>3. Len(x) = n /\ Len(y) = n /\ \A i \in 1 .. n : x[i] = rs[i] /\ y[i] = rt[i]
    BY <1>1, <2>1, <2>2
  <2>4. \A i \in 1 .. Len(x) : x[i] = y[i]
    BY <1>6, <2>3
  <2>5. x = y
    BY <2>1, <2>2, <2>3, <2>4, SeqEqual
  <2> QED
    BY <2>5 DEF x, y
<1> QED
  BY <1>1, <1>5, <1>7 DEF IsSuffix, IsPrefix, rs, rt, t

-----------------------------------------------------------------------------
(* The statistics *)

\* What clear_accepted forgot, and then what is kept.
Kept(kept, all) == \E h \in Seq(Int) : all = h \o FlattenSeq(kept)

\* StatisticsCover with the types it needs, and with what was forgotten.
StatInv ==
    /\ heard \in Seq(Int) /\ accepted \in Seq(Seq(Int))
    /\ peak \in Int /\ frames_accepted \in Int
    /\ frames_accepted * channels = Len(heard)
    /\ IsPeak(peak, Range(heard))
    /\ squared_sum = FoldLeft(Energy, 0, heard)
    /\ Kept(accepted, heard)

LEMMA SamplesAreNumbers ==
    ASSUME NEW s \in Seq(Int)
    PROVE  Range(s) \in SUBSET Int /\ Len(s) \in Nat
  BY LenProperties, ElementOfSeq DEF Range

LEMMA RangeOfBoth ==
    ASSUME NEW a \in Seq(Int), NEW b \in Seq(Int)
    PROVE  Range(a \o b) = Range(a) \cup Range(b)
<1> DEFINE L == Len(a)
           n == Len(b)
           t == a \o b
<1>1. /\ L \in Nat /\ n \in Nat /\ DOMAIN a = 1 .. L /\ DOMAIN b = 1 .. n
      /\ DOMAIN t = 1 .. L + n
      /\ \A i \in 1 .. L + n : t[i] = IF i <= L THEN a[i] ELSE b[i - L]
  BY LenProperties, ConcatProperties
<1> HIDE DEF L, n, t
<1>2. Range(t) \subseteq Range(a) \cup Range(b)
  <2> SUFFICES ASSUME NEW i \in 1 .. L + n PROVE t[i] \in Range(a) \cup Range(b)
    BY <1>1 DEF Range
  <2>1. CASE i <= L
    <3>1. i \in 1 .. L /\ t[i] = a[i]
      BY <1>1, <2>1
    <3> QED
      BY <1>1, <3>1 DEF Range
  <2>2. CASE ~(i <= L)
    <3>1. i - L \in 1 .. n /\ t[i] = b[i - L]
      BY <1>1, <2>2
    <3> QED
      BY <1>1, <3>1 DEF Range
  <2> QED
    BY <2>1, <2>2
<1>3. Range(a) \subseteq Range(t)
  <2> SUFFICES ASSUME NEW i \in 1 .. L PROVE a[i] \in Range(t)
    BY <1>1 DEF Range
  <2>1. i \in 1 .. L + n /\ t[i] = a[i]
    BY <1>1
  <2> QED
    BY <1>1, <2>1 DEF Range
<1>4. Range(b) \subseteq Range(t)
  <2> SUFFICES ASSUME NEW i \in 1 .. n PROVE b[i] \in Range(t)
    BY <1>1 DEF Range
  <2>1. i + L \in 1 .. L + n /\ ~(i + L <= L) /\ (i + L) - L = i
    BY <1>1
  <2>2. t[i + L] = b[i]
    BY <1>1, <2>1
  <2> QED
    BY <1>1, <2>1, <2>2 DEF Range
<1> QED
  BY <1>2, <1>3, <1>4 DEF t

LEMMA ThreeParts ==
    ASSUME NEW a \in Seq(Int), NEW b \in Seq(Int), NEW c \in Seq(Int)
    PROVE  (a \o b) \o c = a \o (b \o c)
  BY ConcatAssociative

LEMMA AcceptKeepsStatistics ==
    ASSUME StatInv, NEW buffer \in Seq(Int), Accept(buffer)
    PROVE  StatInv'
<1>0. /\ heard \in Seq(Int) /\ accepted \in Seq(Seq(Int))
      /\ peak \in Int /\ frames_accepted \in Int
      /\ frames_accepted * channels = Len(heard) /\ IsPeak(peak, Range(heard))
      /\ squared_sum = FoldLeft(Energy, 0, heard)
  BY DEF StatInv
<1>1. /\ heard' = heard \o buffer /\ accepted' = Append(accepted, buffer)
      /\ peak' = FoldLeft(Louder, peak, buffer)
      /\ squared_sum' = FoldLeft(Energy, squared_sum, buffer)
      /\ frames_accepted' = frames_accepted + Frames(buffer)
      /\ Verdict(Len(buffer)) = "ok"
  BY DEF Accept
<1>2. heard' \in Seq(Int) /\ accepted' \in Seq(Seq(Int)) /\ Len(heard') = Len(heard) + Len(buffer)
  BY <1>0, <1>1, ConcatProperties
<1>3. frames_accepted' \in Int /\ frames_accepted' * channels = Len(heard')
  <2> DEFINE m == Len(buffer)
             k == m \div channels
             c == channels
             F == frames_accepted
             H == Len(heard)
  <2>1. m \in Nat /\ c \in Nat \ {0} /\ m % c = 0
    BY <1>1, SamplesAreNumbers, ToneConstants DEF Verdict
  <2>2. m = c * k + (m % c) /\ k \in Int
    BY <2>1, RemainderIs
  <2>3. F \in Int /\ F * c = H /\ H \in Nat
    BY <1>0, SamplesAreNumbers
  <2>4. frames_accepted' = F + k
    BY <1>1 DEF Frames
  <2> HIDE DEF m, k, c, F, H
  <2>5. m = c * k
    BY <2>1, <2>2
  <2>6. (F + k) * c = H + m
    BY <2>1, <2>2, <2>3, <2>5
  <2>7. F + k \in Int
    BY <2>2, <2>3
  <2> QED
    BY <1>2, <2>4, <2>6, <2>7 DEF m, c, H
<1>4. IsPeak(peak', Range(heard')) /\ peak' \in Int
  <2> DEFINE X == Range(heard)
  <2>1. X \in SUBSET Int /\ IsPeak(peak, X)
    BY <1>0, SamplesAreNumbers
  <2>2. Range(heard') = X \cup Range(buffer)
    BY <1>0, <1>1, RangeOfBoth
  <2> HIDE DEF X
  <2>3. /\ IsPeak(FoldLeft(Louder, peak, buffer), X \cup Range(buffer))
        /\ FoldLeft(Louder, peak, buffer) \in Int
    BY <1>0, <2>1, PeakGoesOn
  <2> QED
    BY <1>1, <2>2, <2>3
<1>5. squared_sum' = FoldLeft(Energy, 0, heard')
  BY <1>0, <1>1, EnergyGoesOn
<1>6. Kept(accepted', heard')
  <2>1. PICK h \in Seq(Int) : heard = h \o FlattenSeq(accepted)
    BY DEF StatInv, Kept
  <2> DEFINE kept == FlattenSeq(accepted)
  <2>2. FlattenSeq(accepted') = kept \o buffer /\ kept \in Seq(Int)
    BY <1>0, <1>1, FlattenGrows
  <2>3. heard' = (h \o kept) \o buffer
    BY <1>1, <2>1
  <2> HIDE DEF kept
  <2>4. (h \o kept) \o buffer = h \o (kept \o buffer)
    <3>1. h \in Seq(Int) /\ kept \in Seq(Int) /\ buffer \in Seq(Int)
      BY <2>2
    <3> QED
      BY <3>1, ThreeParts
  <2> QED
    BY <2>2, <2>3, <2>4 DEF Kept
<1> QED
  BY <1>2, <1>3, <1>4, <1>5, <1>6 DEF StatInv

LEMMA ClearKeepsStatistics ==
    ASSUME StatInv, ClearAccepted
    PROVE  StatInv'
<1>1. /\ accepted' = <<>> /\ heard' = heard /\ peak' = peak
      /\ frames_accepted' = frames_accepted /\ squared_sum' = squared_sum
  BY DEF ClearAccepted
<1>2. <<>> \in Seq(Seq(Int)) /\ heard \in Seq(Int)
  BY EmptySeq DEF StatInv
<1>3. FlattenSeq(<<>>) = <<>>
  BY DEF FlattenSeq
<1>4. Kept(accepted', heard')
  <2>1. heard = heard \o <<>>
    BY <1>2, ConcatEmptySeq
  <2> QED
    BY <1>1, <1>2, <1>3, <2>1 DEF Kept
<1> QED
  BY <1>1, <1>2, <1>4 DEF StatInv

LEMMA InitStatistics == Init => StatInv
<1> SUFFICES ASSUME Init PROVE StatInv
  OBVIOUS
<1>1. /\ heard = <<>> /\ accepted = <<>> /\ peak = 0 /\ squared_sum = 0 /\ frames_accepted = 0
  BY DEF Init
<1>2. heard \in Seq(Int) /\ Len(heard) = 0 /\ accepted \in Seq(Seq(Int))
  BY <1>1, EmptySeq
<1>3. IsPeak(peak, Range(heard))
  <2>1. Range(heard) = {}
    BY <1>1 DEF Range
  <2>2. \A y : y \in Magnitudes(Range(heard)) <=> y = 0
    BY <2>1, MagnitudesAre
  <2> QED
    BY <1>1, <2>2 DEF IsPeak
<1>4. squared_sum = FoldLeft(Energy, 0, heard)
  <2> DEFINE zero == 0
  <2>0. zero \in Int
    OBVIOUS
  <2> HIDE DEF zero
  <2>1. PICK f \in [0 .. Len(heard) -> Int] :
           /\ f[0] = zero
           /\ \A i \in 1 .. Len(heard) : f[i] = Energy(f[i - 1], heard[i])
           /\ FoldLeft(Energy, zero, heard) = f[Len(heard)]
    BY <1>2, <2>0, EnergyRuns
  <2>2. FoldLeft(Energy, zero, heard) = zero
    BY <1>2, <2>1
  <2> QED
    BY <1>1, <2>2 DEF zero
<1>5. Kept(accepted, heard)
  <2>1. FlattenSeq(<<>>) = <<>>
    BY DEF FlattenSeq
  <2>2. <<>> = <<>> \o <<>> /\ <<>> \in Seq(Int)
    BY EmptySeq, ConcatEmptySeq
  <2> QED
    BY <1>1, <2>1, <2>2 DEF Kept
<1>6. frames_accepted * channels = Len(heard)
  <2>1. channels \in Nat
    BY ToneConstants
  <2> QED
    BY <1>1, <1>2, <2>1
<1> QED
  BY <1>1, <1>2, <1>3, <1>4, <1>5, <1>6 DEF StatInv

LEMMA StatisticsStep ==
    ASSUME StatInv, [Next]_vars
    PROVE  StatInv'
<1>1. CASE UNCHANGED record
  BY <1>1 DEF record, StatInv
<1>2. ASSUME NEW f \in Frequencies, SetFrequency(f) PROVE UNCHANGED record
  BY <1>2 DEF SetFrequency
<1>3. ASSUME NEW a \in Amplitudes, WithAmplitude(a) PROVE UNCHANGED record
  BY <1>3 DEF WithAmplitude
<1>4. ASSUME NEW n \in BlockSizes, WithFixedBlockSize(n) PROVE UNCHANGED record
  BY <1>4 DEF WithFixedBlockSize
<1>5. ASSUME NEW n \in 0 .. channels * MaxFrames, Take(n, Fill(n)) PROVE UNCHANGED record
  BY <1>5 DEF Take, Fill
<1>6. ASSUME NEW buffer \in Buffers, Take(Len(buffer), Accept(buffer)) PROVE StatInv'
  <2>1. buffer \in Seq(Int)
    BY AudioDeviceAssumption
  <2> QED
    BY <1>1, <1>6, <2>1, AcceptKeepsStatistics DEF Take
<1> QED
  BY <1>1, <1>2, <1>3, <1>4, <1>5, <1>6, ClearKeepsStatistics DEF Next, vars

\* Peak, RMS and frame count are those of every sample the device ever
\* accepted, whatever was refused in between and whenever the buffers were
\* cleared; the buffers it keeps are the last of those samples.
THEOREM StatisticsCoverAll == Spec => []StatisticsCover
<1>1. StatInv => StatisticsCover
  <2> SUFFICES ASSUME StatInv PROVE StatisticsCover
    OBVIOUS
  <2>1. peak = Max({0} \cup UNION {{x, -x} : x \in Range(heard) \ {NaN}})
    <3> DEFINE M == Magnitudes(Range(heard))
    <3>1. peak \in M /\ (\A y \in M : y <= peak) /\ peak \in Int
      BY DEF StatInv, IsPeak
    <3>2. M \subseteq Int
      BY SamplesAreNumbers, MagnitudesAreNumbers DEF StatInv
    <3> HIDE DEF M
    <3>3. peak = Max(M)
      <4>1. \A y \in M : peak >= y
        BY <3>1, <3>2
      <4>2. Max(M) \in M /\ \A y \in M : Max(M) >= y
        BY <3>1, <4>1 DEF Max
      <4>3. Max(M) >= peak /\ peak >= Max(M)
        BY <3>1, <4>1, <4>2
      <4> DEFINE x == Max(M)
      <4>4. x \in Int /\ peak \in Int
        BY <3>1, <3>2, <4>2
      <4> HIDE DEF x
      <4>5. x >= peak /\ peak >= x => peak = x
        BY <4>4
      <4> QED
        BY <4>3, <4>5 DEF x
    <3> QED
      BY <3>3 DEF M, Magnitudes
  <2>2. IsSuffix(FlattenSeq(accepted), heard)
    <3>1. PICK h \in Seq(Int) : heard = h \o FlattenSeq(accepted)
      BY DEF StatInv, Kept
    <3>2. FlattenSeq(accepted) \in Seq(Int)
      <4>1. <<>> \in Seq(Int) /\ accepted \in Seq(Seq(Int))
        BY EmptySeq DEF StatInv
      <4> QED
        BY <4>1, FlattenGrows
    <3> QED
      BY <3>1, <3>2, EndIsSuffix
  <2> QED
    BY <2>1, <2>2 DEF StatInv, StatisticsCover
<1>2. StatInv /\ [Next]_vars => StatInv'
  BY StatisticsStep
<1> QED
  BY <1>1, <1>2, InitStatistics, PTL DEF Spec

=============================================================================
