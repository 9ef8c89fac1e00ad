----------------------------- MODULE Aio_proofs -----------------------------
(***************************************************************************)
(* Proofs about Aio, for any number of processes, channels and samples,    *)
(* and about its number formats, AioData.                                  *)
(*                                                                         *)
(* What a process still has to do is always the rest of the steps of its   *)
(* call, so how far it has come is a number, Pos, and what the device must *)
(* be like at that point is said by what has been done up to there.  The   *)
(* samples of a conversion are either still to be made, or in the FIFO, or *)
(* returned: together they are the samples of the call, in their order.    *)
(***************************************************************************)
EXTENDS Aio, SequenceTheorems, TLAPS


\* Reduction is the least integer that is not below 1953 * dat / 500000.
LEMMA ReductionIsCeiling ==
  ASSUME NEW dat \in Nat
  PROVE  /\ Reduction(dat) \in Nat
         /\ 500000 * Reduction(dat) >= 1953 * dat
         /\ 500000 * Reduction(dat) < 1953 * dat + 500000
BY SMT DEF Reduction

\* The comment on calc_DAC161S055 (driver/aio/cpsaio.c:205-213): the codes
\* below 256, which the converter does badly, are never used, and no output
\* value overflows the 16 bits of the code.
THEOREM OutputInRange ==
  ASSUME NEW dat \in Word
  PROVE  calc_DAC161S055(dat) \in Word /\ calc_DAC161S055(dat) >= 256
<1> dat \in Nat /\ dat <= 65535
  BY DEF Word
<1> DEFINE r == Reduction(dat)
<1>1. r \in Nat /\ 500000 * r >= 1953 * dat /\ 500000 * r < 1953 * dat + 500000
  BY ReductionIsCeiling
<1>2. calc_DAC161S055(dat) = IF 500000 * r - 1953 * dat > 250000
                             THEN dat + 256 - r + 1 ELSE dat + 256 - r
  BY DEF calc_DAC161S055
<1>3. r <= dat /\ r <= 256
  BY <1>1, SMT
<1>4. dat + 256 - r <= 65535
  BY <1>1, SMT
<1>5. 500000 * r - 1953 * dat > 250000 => dat + 256 - r + 1 <= 65535
  BY <1>1, SMT
<1> HIDE DEF r
<1>6. CASE 500000 * r - 1953 * dat > 250000
  <2>1. calc_DAC161S055(dat) = dat + 256 - r + 1
    BY <1>2, <1>6
  <2> QED
    BY <1>1, <1>3, <1>5, <1>6, <2>1, SMT DEF Word
<1>7. CASE ~(500000 * r - 1953 * dat > 250000)
  <2>1. calc_DAC161S055(dat) = dat + 256 - r
    BY <1>2, <1>7
  <2> QED
    BY <1>1, <1>3, <1>4, <2>1, SMT DEF Word
<1> QED
  BY <1>6, <1>7

\* A larger output value never comes out as a smaller code, and a step of
\* the value moves the code by at most one.
THEOREM OutputIsMonotone ==
  ASSUME NEW dat \in Nat
  PROVE  /\ calc_DAC161S055(dat) <= calc_DAC161S055(dat + 1)
         /\ calc_DAC161S055(dat + 1) <= calc_DAC161S055(dat) + 1
<1> DEFINE r == Reduction(dat)
           s == Reduction(dat + 1)
<1>1. r \in Nat /\ 500000 * r >= 1953 * dat /\ 500000 * r < 1953 * dat + 500000
  BY ReductionIsCeiling
<1>2. /\ s \in Nat /\ 500000 * s >= 1953 * (dat + 1)
      /\ 500000 * s < 1953 * (dat + 1) + 500000
  BY ReductionIsCeiling
<1>3. calc_DAC161S055(dat) = IF 500000 * r - 1953 * dat > 250000
                             THEN dat + 256 - r + 1 ELSE dat + 256 - r
  BY DEF calc_DAC161S055
<1>4. calc_DAC161S055(dat + 1) = IF 500000 * s - 1953 * (dat + 1) > 250000
                                 THEN (dat + 1) + 256 - s + 1 ELSE (dat + 1) + 256 - s
  BY DEF calc_DAC161S055
<1> HIDE DEF r, s
<1>5. s = r \/ s = r + 1
  BY <1>1, <1>2, SMT
<1> QED
  BY <1>1, <1>2, <1>3, <1>4, <1>5, SMT

\* The gain and the offset written into one word of the ROM are read back as
\* they were, whatever the other is.
THEOREM CorrectionRoundTrip ==
  ASSUME NEW gain \in Byte, NEW offset \in Byte
  PROVE  /\ Correction(gain, offset) \in Word
         /\ GainOf(Correction(gain, offset)) = gain
         /\ OffsetOf(Correction(gain, offset)) = offset
<1>1. gain \in Int /\ 0 <= gain /\ gain <= 255 /\ offset \in Int /\ 0 <= offset /\ offset <= 255
  BY SMT DEF Byte
<1> DEFINE w == Correction(gain, offset)
<1>2. w = 256 * gain + offset
  BY DEF Correction
<1> HIDE DEF w
<1>3. w \div 256 = gain /\ w % 256 = offset
  BY <1>1, <1>2, SMT
<1>4. gain % 256 = gain
  BY <1>1, SMT
<1>5. w \in Word
  BY <1>1, <1>2, SMT DEF Word
<1>6. GainOf(w) = gain /\ OffsetOf(w) = offset
  BY <1>3, <1>4 DEF GainOf, OffsetOf
<1> QED
  BY <1>5, <1>6 DEF w

\* Currents below the end of the range keep their order as codes ...
THEOREM CurrentsKeepOrder ==
  ASSUME NEW low \in Nat, NEW high \in Nat, low <= high, high < 20000
  PROVE  /\ CodeOf(low) \in Word
         /\ CodeOf(low) <= CodeOf(high)
<1> DEFINE Exact(c) == (c * 4096) \div 1250
<1>1. ASSUME NEW c \in Nat, c < 20000 PROVE Exact(c) \in Word /\ CodeOf(c) = Exact(c)
  <2>1. Exact(c) \in Word
    BY <1>1, SMT DEF Word
  <2>2. Exact(c) % 65536 = Exact(c)
    <3> HIDE DEF Exact
    <3> QED
      BY <2>1, SMT DEF Word
  <2> QED
    BY <2>1, <2>2 DEF CodeOf
<1>2. low * 4096 <= high * 4096
  BY SMT
<1>3. Exact(low) <= Exact(high)
  BY <1>2, SMT
<1> HIDE DEF Exact
<1> QED
  BY <1>1, <1>3 DEF Word

\* ... but 20 mA, which the library takes for the top of the range, comes
\* out as code 0: 2^16 does not fit the driver's unsigned short.
THEOREM FullScaleIsZero == CodeOf(20000) = 0
BY SMT DEF CodeOf
-----------------------------------------------------------------------------
(* The steps of the calls *)

\* Two scripts in a row, by positions.
LEMMA Cat ==
  ASSUME NEW s \in Seq(StepName), NEW t \in Seq(StepName)
  PROVE  /\ s \o t \in Seq(StepName) /\ Len(s \o t) = Len(s) + Len(t)
         /\ \A i \in 1 .. Len(s) : (s \o t)[i] = s[i]
         /\ \A i \in 1 .. Len(t) : (s \o t)[Len(s) + i] = t[i]
<1> DEFINE m == Len(s)
           n == Len(t)
<1>1. m \in Nat /\ n \in Nat
  OBVIOUS
<1>2. /\ s \o t \in Seq(StepName) /\ Len(s \o t) = m + n
      /\ \A i \in 1 .. m + n :
           (s \o t)[i] = IF i <= m THEN s[i] ELSE t[i - m]
  BY ConcatProperties
<1>3. ASSUME NEW i \in 1 .. n PROVE (s \o t)[m + i] = t[i]
  <2>1. m + i \in 1 .. m + n /\ ~(m + i <= m) /\ (m + i) - m = i
    BY <1>1
  <2> HIDE DEF m, n
  <2> QED BY <1>2, <2>1
<1> HIDE DEF m, n
<1>4. \A i \in 1 .. m : i \in 1 .. m + n /\ i <= m
  BY <1>1
<1>5. \A i \in 1 .. m : (s \o t)[i] = s[i]
  BY <1>2, <1>4
<1> QED BY <1>2, <1>3, <1>5 DEF m, n

\* A script made n times.
LEMMA Repeat ==
  ASSUME NEW T, NEW s \in Seq(T), NEW n \in Nat \ {0}, Len(s) # 0
  PROVE  /\ Times(n, s) \in Seq(T) /\ Len(Times(n, s)) = n * Len(s)
         /\ \A i \in 1 .. n * Len(s) :
              Times(n, s)[i] = s[((i - 1) % Len(s)) + 1]
<1> DEFINE m == Len(s)
<1>1. m \in Nat \ {0}
  OBVIOUS
<1>2. CASE n = 1
  <2>1. Times(n, s) = s
    BY <1>2 DEF Times
  <2>2. n * m = m
    BY <1>1, <1>2
  <2>3. ASSUME NEW i \in 1 .. m PROVE ((i - 1) % m) + 1 = i
    <3>1. i - 1 \in Nat /\ i - 1 < m
      BY <1>1
    <3> HIDE DEF m
    <3>2. (i - 1) % m = i - 1
      BY <1>1, <3>1
    <3> QED BY <1>1, <3>2
  <2> QED BY <2>1, <2>2, <2>3
<1>3. CASE n # 1
  <2> DEFINE e(i) == s[((i - 1) % m) + 1]
  <2>1. Times(n, s) = [i \in 1 .. n * m |-> e(i)]
    BY <1>3 DEF Times
  <2>2. ASSUME NEW i \in 1 .. n * m PROVE e(i) \in T
    <3>1. (i - 1) % m \in 0 .. m - 1
      <4> HIDE DEF m
      <4> QED BY <1>1
    <3>2. ((i - 1) % m) + 1 \in 1 .. m
      <4> HIDE DEF m
      <4> QED BY <1>1, <3>1
    <3> QED BY <3>2
  <2>3. n * m \in Nat
    <3> HIDE DEF m
    <3> QED BY <1>1
  <2> HIDE DEF e
  <2>4. /\ [i \in 1 .. n * m |-> e(i)] \in Seq(T)
        /\ Len([i \in 1 .. n * m |-> e(i)]) = n * m
    BY <2>2, <2>3
  <2>5. \A i \in 1 .. n * m : [j \in 1 .. n * m |-> e(j)][i] = e(i)
    OBVIOUS
  <2> QED BY <2>1, <2>4, <2>5 DEF e
<1> QED BY <1>2, <1>3

LEMMA RepeatSteps ==
  ASSUME NEW s \in Seq(StepName), NEW n \in Nat \ {0}, Len(s) # 0
  PROVE  /\ Times(n, s) \in Seq(StepName)
         /\ Len(Times(n, s)) = n * Len(s)
         /\ \A i \in 1 .. n * Len(s) :
              Times(n, s)[i] = s[((i - 1) % Len(s)) + 1]
BY Repeat

\* A conversion of one channel.
LEMMA SingleAiSteps ==
  LET s == SingleAi
  IN  /\ s \in Seq(StepName) /\ Len(s) = 11
      /\ s[1] = "Single" /\ s[2] = "Channel" /\ s[3] = "Sampnum"
      /\ s[4] = "Start" /\ s[5] = "WaitReady" /\ s[6] = "Pulse"
      /\ s[7] = "WaitEnd" /\ s[8] = "Ack" /\ s[9] = "WaitMem"
      /\ s[10] = "InData" /\ s[11] = "Stop"
BY DEF SingleAi, SetAiEventSamplingTimes, StartAi, StopAi, StepName

\* The setting up of a conversion of several channels.
LEMMA MultiSetup ==
  LET s == SetAiChannels \o SetAiEventSamplingTimes \o StartAi \o <<"WaitMem">>
  IN  /\ s \in Seq(StepName) /\ Len(s) = 9
      /\ s[1] = "Multi" /\ s[2] = "Channel" /\ s[3] = "Sampnum"
      /\ s[4] = "Start" /\ s[5] = "WaitReady" /\ s[6] = "Pulse"
      /\ s[7] = "WaitEnd" /\ s[8] = "Ack" /\ s[9] = "WaitMem"
BY DEF SetAiChannels, SetAiEventSamplingTimes, StartAi, StepName

LEMMA SamplingSetup ==
  LET s == SetAiEventSamplingTimes \o SetAiChannels \o StartAi
  IN  /\ s \in Seq(StepName) /\ Len(s) = 8
      /\ s[1] = "Sampnum" /\ s[2] = "Multi" /\ s[3] = "Channel"
      /\ s[4] = "Start" /\ s[5] = "WaitReady" /\ s[6] = "Pulse"
      /\ s[7] = "WaitEnd" /\ s[8] = "Ack"
BY DEF SetAiChannels, SetAiEventSamplingTimes, StartAi, StepName

LEMMA AckSteps ==
  /\ AckFlags \in Seq(StepName) /\ Len(AckFlags) = 8
  /\ AckFlags[1] = "AiCom" /\ AckFlags[2] = "Unlock"
  /\ AckFlags[3] = "AiData" /\ AckFlags[4] = "Lock"
  /\ AckFlags[5] = "MemCom" /\ AckFlags[6] = "Unlock"
  /\ AckFlags[7] = "MemData" /\ AckFlags[8] = "Lock"
BY DEF AckFlags, StepName

LEMMA StopSteps ==
  StopAi \in Seq(StepName) /\ Len(StopAi) = 1 /\ StopAi[1] = "Stop"
BY DEF StopAi, StepName

LEMMA MultiAiSteps ==
  ASSUME NEW c \in Chan
  PROVE  LET s == MultiAi(c)
         IN  /\ s \in Seq(StepName) /\ Len(s) = c + 11
             /\ s[1] = "Multi" /\ s[2] = "Channel" /\ s[3] = "Sampnum"
             /\ s[4] = "Start" /\ s[5] = "WaitReady" /\ s[6] = "Pulse"
             /\ s[7] = "WaitEnd" /\ s[8] = "Ack" /\ s[9] = "WaitMem"
             /\ \A j \in 1 .. c + 1 : s[9 + j] = "InData"
             /\ s[c + 11] = "Stop"
<1> DEFINE a == SetAiChannels \o SetAiEventSamplingTimes \o StartAi
                \o <<"WaitMem">>
           b == Times(c + 1, <<"InData">>)
<1>1. c \in Nat
  BY AioAssumption DEF Chan, AioAssumption
<1>2. /\ b \in Seq(StepName) /\ Len(b) = c + 1
      /\ \A i \in 1 .. c + 1 : b[i] = "InData"
  <2> DEFINE d == <<"InData">>
  <2>1. d \in Seq(StepName) /\ Len(d) = 1 /\ d[1] = "InData"
    BY DEF StepName
  <2>2. c + 1 \in Nat \ {0} /\ (c + 1) * 1 = c + 1
    BY <1>1
  <2>3. \A i \in 1 .. c + 1 : ((i - 1) % 1) + 1 = 1
    BY <1>1
  <2> HIDE DEF d
  <2>4. /\ Times(c + 1, d) \in Seq(StepName) /\ Len(Times(c + 1, d)) = c + 1
        /\ \A i \in 1 .. c + 1 : Times(c + 1, d)[i] = "InData"
    <3>1. /\ Times(c + 1, d) \in Seq(StepName)
          /\ Len(Times(c + 1, d)) = (c + 1) * Len(d)
          /\ \A i \in 1 .. (c + 1) * Len(d) :
               Times(c + 1, d)[i] = d[((i - 1) % Len(d)) + 1]
      <4>1. Len(d) # 0 /\ d \in Seq(StepName) /\ c + 1 \in Nat \ {0}
        BY <2>1, <2>2
      <4> QED BY <4>1, RepeatSteps, Zenon
    <3>2. (c + 1) * Len(d) = c + 1 /\ Len(d) = 1
      BY <2>1, <2>2
    <3> QED BY <2>1, <2>3, <3>1, <3>2
  <2> QED BY <2>4 DEF d
<1>3. MultiAi(c) = (a \o b) \o StopAi
  BY DEF MultiAi
<1>4. /\ a \in Seq(StepName) /\ Len(a) = 9
      /\ a[1] = "Multi" /\ a[2] = "Channel" /\ a[3] = "Sampnum"
      /\ a[4] = "Start" /\ a[5] = "WaitReady" /\ a[6] = "Pulse"
      /\ a[7] = "WaitEnd" /\ a[8] = "Ack" /\ a[9] = "WaitMem"
  BY MultiSetup
<1> HIDE DEF a, b
<1>5. /\ a \o b \in Seq(StepName) /\ Len(a \o b) = 9 + (c + 1)
      /\ \A i \in 1 .. 9 : (a \o b)[i] = a[i]
      /\ \A i \in 1 .. c + 1 : (a \o b)[9 + i] = b[i]
  <2>1. /\ a \o b \in Seq(StepName) /\ Len(a \o b) = Len(a) + Len(b)
        /\ \A i \in 1 .. Len(a) : (a \o b)[i] = a[i]
        /\ \A i \in 1 .. Len(b) : (a \o b)[Len(a) + i] = b[i]
    BY <1>2, <1>4, Cat
  <2> QED BY <1>2, <1>4, <2>1
<1> DEFINE e == a \o b
<1> HIDE DEF e
<1>6. /\ e \o StopAi \in Seq(StepName) /\ Len(e \o StopAi) = (9 + (c + 1)) + 1
      /\ \A i \in 1 .. 9 + (c + 1) : (e \o StopAi)[i] = e[i]
      /\ \A i \in 1 .. 1 : (e \o StopAi)[(9 + (c + 1)) + i] = StopAi[i]
  <2>1. /\ e \o StopAi \in Seq(StepName) /\ Len(e \o StopAi) = Len(e) + Len(StopAi)
        /\ \A i \in 1 .. Len(e) : (e \o StopAi)[i] = e[i]
        /\ \A i \in 1 .. Len(StopAi) : (e \o StopAi)[Len(e) + i] = StopAi[i]
    BY <1>5, StopSteps, Cat DEF e
  <2> QED BY <1>5, StopSteps, <2>1 DEF e
<1>7. MultiAi(c) = e \o StopAi
  BY <1>3 DEF e
<1>8. /\ 9 + (c + 1) + 1 = c + 11
      /\ \A i \in 1 .. 9 : i \in 1 .. 9 + (c + 1)
      /\ \A i \in 1 .. c + 1 : 9 + i \in 1 .. 9 + (c + 1)
  BY <1>1
<1>9. /\ \A i \in 1 .. 9 : MultiAi(c)[i] = a[i]
      /\ \A i \in 1 .. c + 1 : MultiAi(c)[9 + i] = "InData"
      /\ MultiAi(c)[c + 11] = "Stop"
      /\ MultiAi(c) \in Seq(StepName) /\ Len(MultiAi(c)) = c + 11
  <2>1. 1 \in 1 .. 1 /\ 9 + (c + 1) + 1 = c + 11
    BY <1>1
  <2>2. /\ \A i \in 1 .. 9 : (e \o StopAi)[i] = a[i]
        /\ \A i \in 1 .. c + 1 : (e \o StopAi)[9 + i] = b[i]
    BY <1>5, <1>6, <1>8 DEF e
  <2> QED BY <1>2, <1>6, <1>7, <2>1, <2>2, StopSteps
<1>10. /\ 1 \in 1 .. 9 /\ 2 \in 1 .. 9 /\ 3 \in 1 .. 9 /\ 4 \in 1 .. 9
       /\ 5 \in 1 .. 9 /\ 6 \in 1 .. 9 /\ 7 \in 1 .. 9 /\ 8 \in 1 .. 9
       /\ 9 \in 1 .. 9
  OBVIOUS
<1> QED BY <1>4, <1>9, <1>10

\* s samples n values: it sets up, waits for each and reads it, acknowledges
\* and stops.
IsSampling(s, n) ==
  /\ n \in Nat \ {0}
  /\ s \in Seq(StepName) /\ Len(s) = 2 * n + 17
  /\ s[1] = "Sampnum" /\ s[2] = "Multi" /\ s[3] = "Channel"
  /\ s[4] = "Start" /\ s[5] = "WaitReady" /\ s[6] = "Pulse"
  /\ s[7] = "WaitEnd" /\ s[8] = "Ack"
  /\ \A j \in 1 .. 2 * n :
       s[8 + j] = IF j % 2 = 1 THEN "ReadWait" ELSE "ReadData"
  /\ \A j \in 1 .. 8 : s[2 * n + 8 + j] = AckFlags[j]
  /\ s[2 * n + 17] = "Stop"

LEMMA SamplingSteps ==
  ASSUME NEW c \in Chan, NEW k \in 1 .. Samples
  PROVE  IsSampling(Sampling(c, k), (c + 1) * k)
<1> DEFINE a == SetAiEventSamplingTimes \o SetAiChannels \o StartAi
           n == (c + 1) * k
           b == Times(n, <<"ReadWait", "ReadData">>)
<1>1. n \in Nat \ {0}
  <2>1. c \in Nat /\ k \in Nat \ {0}
    BY AioAssumption DEF Chan, AioAssumption
  <2> QED BY <2>1
<1>2. Sampling(c, k) = (a \o (b \o AckFlags)) \o StopAi
  BY DEF Sampling, GetAiSamplingData
<1>3. /\ a \in Seq(StepName) /\ Len(a) = 8
      /\ a[1] = "Sampnum" /\ a[2] = "Multi" /\ a[3] = "Channel"
      /\ a[4] = "Start" /\ a[5] = "WaitReady" /\ a[6] = "Pulse"
      /\ a[7] = "WaitEnd" /\ a[8] = "Ack"
  BY SamplingSetup
<1> HIDE DEF a, n
<1>4. /\ b \in Seq(StepName) /\ Len(b) = 2 * n
      /\ \A i \in 1 .. 2 * n :
           b[i] = IF i % 2 = 1 THEN "ReadWait" ELSE "ReadData"
  <2> DEFINE d == <<"ReadWait", "ReadData">>
  <2>1. /\ d \in Seq(StepName) /\ Len(d) = 2
        /\ d[1] = "ReadWait" /\ d[2] = "ReadData"
    BY DEF StepName
  <2> HIDE DEF d
  <2>2. n * 2 = 2 * n
    BY <1>1
  <2>3. /\ Times(n, d) \in Seq(StepName) /\ Len(Times(n, d)) = 2 * n
        /\ \A i \in 1 .. 2 * n : Times(n, d)[i] = d[((i - 1) % 2) + 1]
    <3>1. /\ Times(n, d) \in Seq(StepName)
          /\ Len(Times(n, d)) = n * Len(d)
          /\ \A i \in 1 .. n * Len(d) :
               Times(n, d)[i] = d[((i - 1) % Len(d)) + 1]
      <4>1. Len(d) # 0 /\ d \in Seq(StepName)
        BY <2>1
      <4> QED BY <1>1, <4>1, RepeatSteps, Zenon
    <3>2. n * Len(d) = 2 * n /\ Len(d) = 2
      BY <2>1, <2>2
    <3> QED BY <3>1, <3>2
  <2>4. ASSUME NEW i \in 1 .. 2 * n
        PROVE  d[((i - 1) % 2) + 1]
               = IF i % 2 = 1 THEN "ReadWait" ELSE "ReadData"
    <3>1. i % 2 = 1 => ((i - 1) % 2) + 1 = 1
      BY <1>1
    <3>2. i % 2 # 1 => ((i - 1) % 2) + 1 = 2
      BY <1>1
    <3> QED BY <2>1, <3>1, <3>2
  <2> QED BY <2>3, <2>4 DEF d
<1> HIDE DEF b
<1> DEFINE e == b \o AckFlags
           f == a \o e
<1>5. /\ e \in Seq(StepName) /\ Len(e) = 2 * n + 8
      /\ \A i \in 1 .. 2 * n : e[i] = b[i]
      /\ \A i \in 1 .. 8 : e[2 * n + i] = AckFlags[i]
  <2>1. /\ b \o AckFlags \in Seq(StepName) /\ Len(b \o AckFlags) = Len(b) + Len(AckFlags)
        /\ \A i \in 1 .. Len(b) : (b \o AckFlags)[i] = b[i]
        /\ \A i \in 1 .. Len(AckFlags) : (b \o AckFlags)[Len(b) + i] = AckFlags[i]
    BY <1>4, AckSteps, Cat
  <2> QED BY <1>4, AckSteps, <2>1
<1> HIDE DEF e
<1>6. /\ f \in Seq(StepName) /\ Len(f) = 8 + (2 * n + 8)
      /\ \A i \in 1 .. 8 : f[i] = a[i]
      /\ \A i \in 1 .. 2 * n + 8 : f[8 + i] = e[i]
  <2>1. /\ a \o e \in Seq(StepName) /\ Len(a \o e) = Len(a) + Len(e)
        /\ \A i \in 1 .. Len(a) : (a \o e)[i] = a[i]
        /\ \A i \in 1 .. Len(e) : (a \o e)[Len(a) + i] = e[i]
    BY <1>3, <1>5, Cat
  <2> QED BY <1>3, <1>5, <2>1
<1> HIDE DEF f
<1>7. /\ f \o StopAi \in Seq(StepName)
      /\ Len(f \o StopAi) = (8 + (2 * n + 8)) + 1
      /\ \A i \in 1 .. 8 + (2 * n + 8) : (f \o StopAi)[i] = f[i]
      /\ \A i \in 1 .. 1 : (f \o StopAi)[(8 + (2 * n + 8)) + i] = StopAi[i]
  <2>1. /\ f \o StopAi \in Seq(StepName) /\ Len(f \o StopAi) = Len(f) + Len(StopAi)
        /\ \A i \in 1 .. Len(f) : (f \o StopAi)[i] = f[i]
        /\ \A i \in 1 .. Len(StopAi) : (f \o StopAi)[Len(f) + i] = StopAi[i]
    BY <1>6, StopSteps, Cat
  <2> QED BY <1>6, StopSteps, <2>1
<1> DEFINE s == f \o StopAi
<1>8. Sampling(c, k) = s
  BY <1>2 DEF e, f
<1> HIDE DEF s
<1>9. /\ s \in Seq(StepName) /\ Len(s) = 2 * n + 17
      /\ \A i \in 1 .. 8 : s[i] = a[i]
      /\ s[2 * n + 17] = "Stop"
  <2>1. 1 \in 1 .. 1 /\ (8 + (2 * n + 8)) + 1 = 2 * n + 17
        /\ \A i \in 1 .. 8 : i \in 1 .. 8 + (2 * n + 8)
    BY <1>1
  <2> QED BY <1>6, <1>7, <2>1, StopSteps DEF s
<1>10. ASSUME NEW j \in 1 .. 2 * n
       PROVE  s[8 + j] = IF j % 2 = 1 THEN "ReadWait" ELSE "ReadData"
  <2>1. 8 + j \in 1 .. 8 + (2 * n + 8) /\ j \in 1 .. 2 * n + 8
    BY <1>1
  <2>2. s[8 + j] = b[j]
    BY <1>5, <1>6, <1>7, <2>1 DEF s
  <2> QED BY <1>4, <2>2
<1>11. ASSUME NEW j \in 1 .. 8
       PROVE  s[2 * n + 8 + j] = AckFlags[j]
  <2>1. /\ 2 * n + j \in 1 .. 2 * n + 8
        /\ 8 + (2 * n + j) \in 1 .. 8 + (2 * n + 8)
        /\ 8 + (2 * n + j) = 2 * n + 8 + j
    BY <1>1
  <2>2. s[8 + (2 * n + j)] = e[2 * n + j]
    BY <1>6, <1>7, <2>1 DEF s
  <2> QED BY <1>5, <2>1, <2>2
<1>12. \A i \in {1, 2, 3, 4, 5, 6, 7, 8} : s[i] = a[i]
  BY <1>9
<1>13. IsSampling(s, n)
  BY <1>1, <1>3, <1>9, <1>10, <1>11, <1>12 DEF IsSampling
<1> QED BY <1>8, <1>13 DEF n

LEMMA ShortCalls ==
  /\ AioInit \in Seq(StepName) /\ Len(AioInit) = 4
  /\ AioInit[1] = "EcuInit" /\ AioInit[2] = "SideInit"
  /\ AioInit[3] = "MemInit" /\ AioInit[4] = "Signals"
  /\ AioExit \in Seq(StepName) /\ Len(AioExit) = 2
  /\ AioExit[1] = "Stop" /\ AioExit[2] = "Close"
  /\ SingleAo \in Seq(StepName) /\ Len(SingleAo) = 6
  /\ SingleAo[1] = "Single" /\ SingleAo[2] = "Channel"
  /\ SingleAo[3] = "Sampnum" /\ SingleAo[4] = "OutData"
  /\ SingleAo[5] = "Start" /\ SingleAo[6] = "Pulse"
  /\ WriteCalibrationData \in Seq(StepName) /\ Len(WriteCalibrationData) = 2
  /\ WriteCalibrationData[1] = "RomSet" /\ WriteCalibrationData[2] = "RomCheck"
<1>1. /\ AioInit \in Seq(StepName) /\ Len(AioInit) = 4
      /\ AioInit[1] = "EcuInit" /\ AioInit[2] = "SideInit"
      /\ AioInit[3] = "MemInit" /\ AioInit[4] = "Signals"
  BY DEF AioInit, StepName
<1>2. /\ AioExit \in Seq(StepName) /\ Len(AioExit) = 2
      /\ AioExit[1] = "Stop" /\ AioExit[2] = "Close"
  BY DEF AioExit, StepName
<1>3. /\ SingleAo \in Seq(StepName) /\ Len(SingleAo) = 6
      /\ SingleAo[1] = "Single" /\ SingleAo[2] = "Channel"
      /\ SingleAo[3] = "Sampnum" /\ SingleAo[4] = "OutData"
      /\ SingleAo[5] = "Start" /\ SingleAo[6] = "Pulse"
  BY DEF SingleAo, SetAoEventSamplingTimes, StartAo, StepName
<1>4. /\ WriteCalibrationData \in Seq(StepName)
      /\ Len(WriteCalibrationData) = 2
      /\ WriteCalibrationData[1] = "RomSet"
      /\ WriteCalibrationData[2] = "RomCheck"
  BY DEF WriteCalibrationData, StepName
<1> QED BY <1>1, <1>2, <1>3, <1>4

\* The steps of the calls whose steps are not followed one by one.
AoSteps == {"Multi", "Channel", "Sampnum", "Start", "Pulse", "OutData", "Stop"}
CalSteps == {"CalSet", "CalWait", "RomRead", "RomClear"}

LEMMA RepeatIn ==
  ASSUME NEW T, NEW s \in Seq(T), NEW n \in Nat \ {0}, Len(s) # 0
  PROVE  Times(n, s) \in Seq(T)
BY Repeat

LEMMA MultiAoIn == \A c \in Chan : MultiAo(c) \in Seq(AoSteps)
<1> SUFFICES ASSUME NEW c \in Chan PROVE MultiAo(c) \in Seq(AoSteps)
  OBVIOUS
<1>1. c + 1 \in Nat \ {0}
  BY AioAssumption DEF Chan, AioAssumption
<1> DEFINE d == <<"OutData">>
           b == Times(c + 1, d)
           a == SetAoChannels \o SetAoEventSamplingTimes \o StartAo
<1>2. d \in Seq(AoSteps) /\ Len(d) # 0
  BY DEF AoSteps
<1>3. a \in Seq(AoSteps) /\ StopAo \in Seq(AoSteps)
  BY DEF SetAoChannels, SetAoEventSamplingTimes, StartAo, StopAo, AoSteps
<1>4. MultiAo(c) = (a \o b) \o StopAo
  BY DEF MultiAo
<1> HIDE DEF a, d
<1>5. b \in Seq(AoSteps)
  BY <1>1, <1>2, RepeatIn
<1> HIDE DEF b
<1>6. a \o b \in Seq(AoSteps)
  BY <1>3, <1>5, ConcatProperties
<1>7. (a \o b) \o StopAo \in Seq(AoSteps)
  BY <1>3, <1>6, ConcatProperties
<1> QED BY <1>4, <1>7

LEMMA CalIn ==
  /\ SetCalibrationData \in Seq(CalSteps) /\ ReadCalibrationData \in Seq(CalSteps)
  /\ ClearCalibrationData(side) \in Seq(CalSteps)
<1>1. SetCalibrationData \in Seq(CalSteps) /\ ReadCalibrationData \in Seq(CalSteps)
      /\ Len(SetCalibrationData) = 2
  BY DEF SetCalibrationData, ReadCalibrationData, CalSteps
<1> DEFINE n == IF side = "AI" THEN 2 ELSE 2 * Channels
           b == Times(n, SetCalibrationData)
           t == <<"RomClear">>
<1>2. n \in Nat \ {0}
  BY AioAssumption DEF AioAssumption
<1>3. t \in Seq(CalSteps)
  BY DEF CalSteps
<1>4. ClearCalibrationData(side) = b \o t
  BY DEF ClearCalibrationData
<1> HIDE DEF n, t
<1>5. b \in Seq(CalSteps)
  <2>1. Len(SetCalibrationData) # 0
    BY <1>1
  <2> QED BY <1>1, <1>2, <2>1, RepeatIn, Zenon
<1> HIDE DEF b
<1>6. b \o t \in Seq(CalSteps)
  BY <1>3, <1>5, ConcatProperties
<1> QED BY <1>1, <1>4, <1>6

-----------------------------------------------------------------------------
(* Where a step can be in a call *)

AiOps == {"SingleAi", "MultiAi", "Sampling"}
AoOps == {"SingleAo", "MultiAo"}

\* What the i-th step of the call c tells of the call, where it is the step x
\* and y the one before it.
Place(c, i, last, x, y) ==
  /\ x \in StepName
  /\ x \in {"EcuInit", "SideInit", "MemInit"} => c.op = "Init" /\ i < last
  /\ x = "Signals" => c.op = "Init"
  /\ c.op = "Init" /\ i = last => x = "Signals"
  /\ x = "Close" => c.op = "Exit" /\ i = last
  /\ x \in {"RomSet", "RomCheck"} => c.op = "WriteRom"
  /\ x = "OutData" => c.op \in AoOps
  /\ x = "ReadWait" => c.op = "Sampling"
  /\ x = "Unlock" => i > 1 /\ y \in {"AiCom", "MemCom"}
  /\ x \in {"AiData", "MemData"} => i > 1 /\ y = "Unlock"
  /\ x = "WaitReady" => c.op \in AiOps /\ i = 5
  /\ x = "WaitEnd" => c.op \in AiOps /\ i = 7

Quiet == StepName \ {"EcuInit", "SideInit", "MemInit", "Signals", "Close",
                     "RomSet", "RomCheck", "OutData", "ReadWait", "Unlock",
                     "AiData", "MemData", "WaitReady", "WaitEnd"}

LEMMA QuietPlace ==
  ASSUME NEW c \in Call, c.op # "Init", NEW i, NEW last, NEW x \in Quiet, NEW y
  PROVE  Place(c, i, last, x, y)
BY DEF Place, Quiet

LEMMA Places ==
  ASSUME NEW c \in Call
  PROVE  LET s == StepsOf(c)
         IN  /\ s \in Seq(StepName)
             /\ \A i \in 1 .. Len(s) : Place(c, i, Len(s), s[i], s[i - 1])
<1> DEFINE s == StepsOf(c)
<1>1. /\ c.ch \in Chan /\ c.n \in 1 .. Samples /\ c.ch \in Nat
      /\ c.op \in {"none", "Init", "Exit", "SingleAi", "MultiAi", "Sampling",
                   "SingleAo", "MultiAo", "SetCal", "WriteRom", "ReadRom",
                   "ClearCal"}
  BY AioAssumption DEF Call, Chan, AioAssumption
<1>2. CASE c.op = "none"
  <2>1. s = <<>>
    BY <1>2 DEF StepsOf
  <2> HIDE DEF s
  <2>2. s \in Seq(StepName) /\ Len(s) = 0
    BY <2>1
  <2> QED BY <2>2 DEF s
<1>3. CASE c.op = "Init"
  <2>1. s = AioInit
    BY <1>3 DEF StepsOf
  <2> HIDE DEF s
  <2>2. /\ s \in Seq(StepName) /\ Len(s) = 4
        /\ s[1] = "EcuInit" /\ s[2] = "SideInit" /\ s[3] = "MemInit"
        /\ s[4] = "Signals"
    BY <2>1, ShortCalls
  <2>3. ASSUME NEW i \in 1 .. Len(s) PROVE Place(c, i, Len(s), s[i], s[i - 1])
    <3>1. i = 1 \/ i = 2 \/ i = 3 \/ i = 4
      BY <2>2
    <3> QED BY <1>3, <2>2, <3>1 DEF Place, StepName
  <2> QED BY <2>2, <2>3 DEF s
<1>4. CASE c.op = "Exit"
  <2>1. s = AioExit
    BY <1>4 DEF StepsOf
  <2> HIDE DEF s
  <2>2. /\ s \in Seq(StepName) /\ Len(s) = 2
        /\ s[1] = "Stop" /\ s[2] = "Close"
    BY <2>1, ShortCalls
  <2>3. ASSUME NEW i \in 1 .. Len(s) PROVE Place(c, i, Len(s), s[i], s[i - 1])
    <3>1. i = 1 \/ i = 2
      BY <2>2
    <3> QED BY <1>4, <2>2, <3>1 DEF Place, StepName
  <2> QED BY <2>2, <2>3 DEF s
<1>5. CASE c.op = "SingleAi"
  <2>1. s = SingleAi
    BY <1>5 DEF StepsOf
  <2> HIDE DEF s
  <2>2. /\ s \in Seq(StepName) /\ Len(s) = 11
        /\ s[1] = "Single" /\ s[2] = "Channel" /\ s[3] = "Sampnum"
        /\ s[4] = "Start" /\ s[5] = "WaitReady" /\ s[6] = "Pulse"
        /\ s[7] = "WaitEnd" /\ s[8] = "Ack" /\ s[9] = "WaitMem"
        /\ s[10] = "InData" /\ s[11] = "Stop"
    BY <2>1, SingleAiSteps
  <2>3. ASSUME NEW i \in 1 .. Len(s) PROVE Place(c, i, Len(s), s[i], s[i - 1])
    <3>1. CASE i \notin {5, 7}
      <4>1. i \in {1, 2, 3, 4, 6, 8, 9, 10, 11}
        BY <2>2, <3>1
      <4>2. s[i] \in Quiet
        BY <2>2, <4>1 DEF Quiet, StepName
      <4> QED BY <1>5, <4>2, QuietPlace
    <3>2. CASE i \in {5, 7}
      BY <1>5, <2>2, <3>2 DEF Place, AiOps, StepName
    <3> QED BY <3>1, <3>2
  <2> QED BY <2>2, <2>3 DEF s
<1>6. CASE c.op = "MultiAi"
  <2>1. s = MultiAi(c.ch)
    BY <1>6 DEF StepsOf
  <2> DEFINE m == c.ch
  <2> HIDE DEF s, m
  <2>2. /\ s \in Seq(StepName) /\ Len(s) = m + 11
        /\ s[1] = "Multi" /\ s[2] = "Channel" /\ s[3] = "Sampnum"
        /\ s[4] = "Start" /\ s[5] = "WaitReady" /\ s[6] = "Pulse"
        /\ s[7] = "WaitEnd" /\ s[8] = "Ack" /\ s[9] = "WaitMem"
        /\ \A j \in 1 .. m + 1 : s[9 + j] = "InData"
        /\ s[m + 11] = "Stop" /\ m \in Nat
    BY <1>1, <2>1, MultiAiSteps DEF m
  <2>3. ASSUME NEW i \in 1 .. Len(s) PROVE Place(c, i, Len(s), s[i], s[i - 1])
    <3>1. CASE i \notin {5, 7}
      <4>1. \/ i \in {1, 2, 3, 4, 6, 8, 9}
            \/ i = m + 11
            \/ i - 9 \in 1 .. m + 1 /\ 9 + (i - 9) = i
        BY <2>2, <3>1
      <4>2. i - 9 \in 1 .. m + 1 => s[9 + (i - 9)] = "InData"
        BY <2>2
      <4>3. s[i] \in {"Multi", "Channel", "Sampnum", "Start", "Pulse", "Ack",
                      "WaitMem", "InData", "Stop"}
        BY <2>2, <4>1, <4>2
      <4>4. s[i] \in Quiet
        BY <4>3 DEF Quiet, StepName
      <4> QED BY <1>6, <4>4, QuietPlace
    <3>2. CASE i \in {5, 7}
      BY <1>6, <2>2, <3>2 DEF Place, AiOps, StepName
    <3> QED BY <3>1, <3>2
  <2> QED BY <2>2, <2>3 DEF s
<1>7. CASE c.op = "Sampling"
  <2>1. s = Sampling(c.ch, c.n)
    BY <1>7 DEF StepsOf
  <2> DEFINE n == (c.ch + 1) * c.n
  <2>2. /\ n \in Nat \ {0}
        /\ s \in Seq(StepName) /\ Len(s) = 2 * n + 17
        /\ s[1] = "Sampnum" /\ s[2] = "Multi" /\ s[3] = "Channel"
        /\ s[4] = "Start" /\ s[5] = "WaitReady" /\ s[6] = "Pulse"
        /\ s[7] = "WaitEnd" /\ s[8] = "Ack"
        /\ \A j \in 1 .. 2 * n :
             s[8 + j] = IF j % 2 = 1 THEN "ReadWait" ELSE "ReadData"
        /\ \A j \in 1 .. 8 : s[2 * n + 8 + j] = AckFlags[j]
        /\ s[2 * n + 17] = "Stop"
    <3>1. IsSampling(Sampling(c.ch, c.n), n)
      BY <1>1, SamplingSteps
    <3> HIDE DEF s, n
    <3> QED BY <2>1, <3>1 DEF IsSampling
  <2> HIDE DEF s, n
  <2>3. ASSUME NEW i \in 1 .. Len(s) PROVE Place(c, i, Len(s), s[i], s[i - 1])
    <3>1. CASE i \in 1 .. 8 /\ i \notin {5, 7}
      <4>1. i \in {1, 2, 3, 4, 6, 8}
        BY <3>1
      <4>2. s[i] \in Quiet
        BY <2>2, <4>1 DEF Quiet, StepName
      <4> QED BY <1>7, <4>2, QuietPlace
    <3>2. CASE i \in {5, 7}
      BY <1>7, <2>2, <3>2 DEF Place, AiOps, StepName
    <3>3. CASE i \in 9 .. 2 * n + 8
      <4>1. i - 8 \in 1 .. 2 * n /\ 8 + (i - 8) = i
        BY <2>2, <3>3
      <4>2. s[i] \in {"ReadWait", "ReadData"}
        BY <2>2, <4>1
      <4>3. s[i] = "ReadData" => s[i] \in Quiet
        BY DEF Quiet, StepName
      <4>4. s[i] = "ReadWait" => Place(c, i, Len(s), s[i], s[i - 1])
        BY <1>7 DEF Place, StepName
      <4> QED BY <1>7, <4>2, <4>3, <4>4, QuietPlace
    <3>4. CASE i \in 2 * n + 9 .. 2 * n + 16
      <4>1. PICK j \in 1 .. 8 : i = 2 * n + 8 + j
        <5>1. i - (2 * n + 8) \in 1 .. 8 /\ i = 2 * n + 8 + (i - (2 * n + 8))
          BY <2>2, <3>4
        <5> QED BY <5>1
      <4>2. s[i] = AckFlags[j]
        BY <2>2, <4>1
      <4>3. j > 1 => s[i - 1] = AckFlags[j - 1]
        <5>1. j > 1 => j - 1 \in 1 .. 8 /\ i - 1 = 2 * n + 8 + (j - 1)
          BY <2>2, <4>1
        <5> QED BY <2>2, <5>1
      <4>4. i > 1
        BY <2>2, <3>4
      <4>5. j = 1 \/ j = 2 \/ j = 3 \/ j = 4 \/ j = 5 \/ j = 6 \/ j = 7 \/ j = 8
        OBVIOUS
      <4> QED BY <1>7, <4>2, <4>3, <4>4, <4>5, AckSteps DEF Place, StepName
    <3>5. CASE i = 2 * n + 17
      <4>1. s[i] \in Quiet
        BY <2>2, <3>5 DEF Quiet, StepName
      <4> QED BY <1>7, <4>1, QuietPlace
    <3>6. \/ i \in 1 .. 8 \/ i \in 9 .. 2 * n + 8
          \/ i \in 2 * n + 9 .. 2 * n + 16 \/ i = 2 * n + 17
      BY <2>2
    <3> QED BY <3>1, <3>2, <3>3, <3>4, <3>5, <3>6
  <2> QED BY <2>2, <2>3 DEF s
<1>8. CASE c.op = "SingleAo"
  <2>1. s = SingleAo
    BY <1>8 DEF StepsOf
  <2> HIDE DEF s
  <2>2. /\ s \in Seq(StepName) /\ Len(s) = 6
        /\ s[1] = "Single" /\ s[2] = "Channel"
        /\ s[3] = "Sampnum" /\ s[4] = "OutData"
        /\ s[5] = "Start" /\ s[6] = "Pulse"
    BY <2>1, ShortCalls
  <2>3. ASSUME NEW i \in 1 .. Len(s) PROVE Place(c, i, Len(s), s[i], s[i - 1])
    <3>1. i = 1 \/ i = 2 \/ i = 3 \/ i = 4 \/ i = 5 \/ i = 6
      BY <2>2
    <3> QED BY <1>8, <2>2, <3>1 DEF Place, StepName, AoOps
  <2> QED BY <2>2, <2>3 DEF s
<1>9. CASE c.op = "MultiAo"
  <2>1. s = MultiAo(c.ch)
    BY <1>9 DEF StepsOf
  <2> HIDE DEF s
  <2>2. s \in Seq(AoSteps)
    BY <1>1, <2>1, MultiAoIn
  <2>3. s \in Seq(StepName)
    BY <2>2 DEF AoSteps, StepName
  <2>4. ASSUME NEW i \in 1 .. Len(s) PROVE Place(c, i, Len(s), s[i], s[i - 1])
    <3>1. s[i] \in AoSteps
      BY <2>2
    <3> QED BY <1>9, <3>1 DEF AoSteps, AoOps, Place, StepName
  <2> QED BY <2>3, <2>4 DEF s
<1>10. CASE c.op = "WriteRom"
  <2>1. s = WriteCalibrationData
    BY <1>10 DEF StepsOf
  <2> HIDE DEF s
  <2>2. s \in Seq(StepName) /\ Len(s) = 2 /\ s[1] = "RomSet" /\ s[2] = "RomCheck"
    BY <2>1, ShortCalls
  <2>3. ASSUME NEW i \in 1 .. Len(s) PROVE Place(c, i, Len(s), s[i], s[i - 1])
    <3>1. i = 1 \/ i = 2
      BY <2>2
    <3> QED BY <1>10, <2>2, <3>1 DEF Place, StepName
  <2> QED BY <2>2, <2>3 DEF s
<1>11. CASE c.op \in {"SetCal", "ReadRom", "ClearCal"}
  <2>1. s \in Seq(CalSteps)
    <3>1. s \in {SetCalibrationData, ReadCalibrationData,
                 ClearCalibrationData(side)}
      BY <1>11 DEF StepsOf
    <3> HIDE DEF s
    <3> QED BY <3>1, CalIn
  <2> HIDE DEF s
  <2>2. s \in Seq(StepName)
    BY <2>1 DEF CalSteps, StepName
  <2>3. ASSUME NEW i \in 1 .. Len(s) PROVE Place(c, i, Len(s), s[i], s[i - 1])
    <3>1. s[i] \in CalSteps
      BY <2>1
    <3>2. s[i] \in Quiet
      BY <3>1 DEF CalSteps, Quiet, StepName
    <3> QED BY <1>11, <3>2, QuietPlace
  <2> QED BY <2>2, <2>3 DEF s
<1> QED BY <1>1, <1>2, <1>3, <1>4, <1>5, <1>6, <1>7, <1>8, <1>9, <1>10, <1>11

-----------------------------------------------------------------------------
(* Types, and how far each process has come *)

Steps(p) == StepsOf(call[p])

\* How many steps of its call p has made, or passed over.
Pos(p) == Len(Steps(p)) - Len(todo[p])

\* What is left is the end of the call.
OnTrack(p) ==
  /\ Len(todo[p]) <= Len(Steps(p))
  /\ \A i \in 1 .. Len(todo[p]) : todo[p][i] = Steps(p)[Pos(p) + i]

\* Only calls that make sense on the product are made.
CallFits(p) ==
  /\ call[p].op # "Sampling" => call[p].n = 1
  /\ call[p].op \in AiOps => side = "AI"
  /\ call[p].op \in AoOps => side = "AO"

Kind == IF side = "AI" THEN Sample ELSE Put

BaseInv ==
  /\ TypeOK /\ fifo \in Seq(Kind)
  /\ \A p \in Process : OnTrack(p) /\ CallFits(p)

LEMMA ZeroFits == 0 \in Chan /\ 0 \in Word /\ 1 \in 1 .. Samples /\ Chan \subseteq Nat
BY AioAssumption DEF AioAssumption, Chan, Word

LEMMA SameSteps ==
  ASSUME call' = call, side' = side
  PROVE  \A p : Steps(p)' = Steps(p)
BY DEF Steps, StepsOf, ClearCalibrationData

\* Skipping steps leaves the rest.
LEMMA Skipped ==
  ASSUME todo \in [Process -> Seq(StepName)], NEW p \in Process,
         NEW n \in Nat, Skip(p, n), n <= Len(todo[p])
  PROVE  /\ todo' \in [Process -> Seq(StepName)]
         /\ \A q \in Process \ {p} : todo'[q] = todo[q]
         /\ Len(todo'[p]) = Len(todo[p]) - n
         /\ \A i \in 1 .. Len(todo[p]) - n : todo'[p][i] = todo[p][n + i]
<1> DEFINE s == todo[p]
           t == SubSeq(s, n + 1, Len(s))
<1>1. s \in Seq(StepName) /\ Len(s) \in Nat
  OBVIOUS
<1>2. todo' = [todo EXCEPT ![p] = t]
  BY DEF Skip
<1>3. \A i \in n + 1 .. Len(s) : s[i] \in StepName
  BY <1>1
<1> HIDE DEF s
<1>4. /\ t \in Seq(StepName)
      /\ Len(t) = IF n + 1 <= Len(s) THEN Len(s) - (n + 1) + 1 ELSE 0
      /\ \A i \in 1 .. Len(s) - (n + 1) + 1 : t[i] = s[(n + 1) + i - 1]
  <2>1. n + 1 \in Int /\ Len(s) \in Int
    BY <1>1
  <2> QED BY <1>3, <2>1, SubSeqProperties
<1> HIDE DEF t
<1>5. n <= Len(s)
  BY DEF s
<1>6. /\ Len(t) = Len(s) - n
      /\ \A i \in 1 .. Len(s) - n : t[i] = s[n + i]
  <2>1. Len(t) = Len(s) - n
    BY <1>1, <1>4, <1>5
  <2>2. ASSUME NEW i \in 1 .. Len(s) - n PROVE t[i] = s[n + i]
    <3>1. i \in 1 .. Len(s) - (n + 1) + 1 /\ (n + 1) + i - 1 = n + i
      BY <1>1, <1>5
    <3> QED BY <1>4, <3>1
  <2> QED BY <2>1, <2>2
<1>7. todo' \in [Process -> Seq(StepName)] /\ todo'[p] = t
      /\ \A q \in Process \ {p} : todo'[q] = todo[q]
  BY <1>2, <1>4
<1> QED BY <1>6, <1>7 DEF s

\* The step a process is at, and its place in the call.
LEMMA AtPlace ==
  ASSUME BaseInv, NEW p \in Process, todo[p] # <<>>
  PROVE  /\ Pos(p) \in Nat /\ Pos(p) + 1 \in 1 .. Len(Steps(p))
         /\ Len(todo[p]) = Len(Steps(p)) - Pos(p)
         /\ Head(todo[p]) = Steps(p)[Pos(p) + 1]
         /\ Place(call[p], Pos(p) + 1, Len(Steps(p)), Head(todo[p]),
                  Steps(p)[Pos(p)])
<1> DEFINE s == Steps(p)
           k == Pos(p)
<1>1. /\ call[p] \in Call /\ todo[p] \in Seq(StepName)
  BY DEF BaseInv, TypeOK
<1>2. /\ s \in Seq(StepName)
      /\ \A i \in 1 .. Len(s) : Place(call[p], i, Len(s), s[i], s[i - 1])
  BY <1>1, Places DEF Steps
<1>3. Len(todo[p]) \in Nat \ {0} /\ Head(todo[p]) = todo[p][1]
  BY <1>1
<1>4. /\ Len(todo[p]) <= Len(s) /\ k = Len(s) - Len(todo[p])
      /\ \A i \in 1 .. Len(todo[p]) : todo[p][i] = s[k + i]
  BY DEF BaseInv, OnTrack, Pos
<1> HIDE DEF s, k
<1>5. /\ k \in Nat /\ k + 1 \in 1 .. Len(s) /\ Len(todo[p]) = Len(s) - k
      /\ 1 \in 1 .. Len(todo[p]) /\ (k + 1) - 1 = k
  BY <1>2, <1>3, <1>4
<1>6. Head(todo[p]) = s[k + 1]
  BY <1>3, <1>4, <1>5
<1>7. Place(call[p], k + 1, Len(s), s[k + 1], s[(k + 1) - 1])
  BY <1>2, <1>5
<1> QED BY <1>5, <1>6, <1>7 DEF s, k

\* Nothing is left exactly when every step has been made.
LEMMA AtEnd ==
  ASSUME BaseInv, NEW p \in Process
  PROVE  /\ Pos(p) \in 0 .. Len(Steps(p)) /\ Len(Steps(p)) \in Nat
         /\ todo[p] = <<>> <=> Pos(p) = Len(Steps(p))
         /\ todo[p] \in Seq(StepName)
<1>1. call[p] \in Call /\ todo[p] \in Seq(StepName)
  BY DEF BaseInv, TypeOK
<1>2. Steps(p) \in Seq(StepName)
  BY <1>1, Places DEF Steps
<1>3. Len(todo[p]) <= Len(Steps(p))
  BY DEF BaseInv, OnTrack
<1>4. todo[p] = <<>> <=> Len(todo[p]) = 0
  BY <1>1
<1> QED BY <1>1, <1>2, <1>3, <1>4 DEF Pos

-----------------------------------------------------------------------------
(* What a step does to the calls *)

\* The actions, by the step they make.
LEMMA Heads ==
  ASSUME NEW p
  PROVE  /\ TransferMode(p) => At(p, "Single") \/ At(p, "Multi")
         /\ SetChannel(p) => At(p, "Channel")
         /\ SetSampnum(p) => At(p, "Sampnum")
         /\ SetEcuSignal(p) => At(p, "Signals")
         /\ EcuInit(p) => At(p, "EcuInit")
         /\ SideInit(p) => At(p, "SideInit")
         /\ MemInit(p) => At(p, "MemInit")
         /\ Start(p) => At(p, "Start")
         /\ Stop(p) => At(p, "Stop")
         /\ OutPulse0(p) => At(p, "Pulse")
         /\ Close(p) => At(p, "Close")
         /\ WaitReady(p) => At(p, "WaitReady")
         /\ WaitEnd(p) => At(p, "WaitEnd")
         /\ SetInterruptFlagAi(p) => At(p, "Ack")
         /\ CheckMemStatus(p) => At(p, "WaitMem")
         /\ InData(p) => At(p, "InData")
         /\ OutData(p) => At(p, "OutData")
         /\ ReadWait(p) => At(p, "ReadWait")
         /\ ReadData(p) => At(p, "ReadData")
         /\ FlagCommand(p) => At(p, "AiCom") \/ At(p, "MemCom")
         /\ DataLock(p) => At(p, "Unlock") \/ At(p, "Lock")
         /\ FlagData(p) => At(p, "AiData") \/ At(p, "MemData")
         /\ SetCalibration(p) => At(p, "CalSet")
         /\ CalibrationWait(p) => At(p, "CalWait")
         /\ RomSet(p) => At(p, "RomSet")
         /\ RomCheck(p) => At(p, "RomCheck")
         /\ RomRead(p) => At(p, "RomRead")
         /\ RomClear(p) => At(p, "RomClear")
BY DEF TransferMode, SetChannel, SetSampnum, SetEcuSignal, EcuInit, SideInit,
   MemInit, Start, Stop, OutPulse0, Close, WaitReady, WaitEnd,
   SetInterruptFlagAi, CheckMemStatus, InData, OutData, ReadWait, ReadData,
   FlagCommand, DataLock, FlagData, SetCalibration, CalibrationWait, RomSet,
   RomCheck, RomRead, RomClear

\* How a step moves its process along.
Along(p) ==
  \/ Skip(p, 1)
  \/ At(p, "WaitEnd") /\ Skip(p, 2)
  \/ At(p, "WaitReady") /\ Skip(p, 4) /\ p \notin clean'
  \/ /\ At(p, "ReadWait") /\ todo' = [todo EXCEPT ![p] = AckFlags \o StopAi]
     /\ p \notin clean'
  \/ At(p, "RomCheck") /\ todo' = [todo EXCEPT ![p] = WriteCalibrationData]

LEMMA StepMoves ==
  ASSUME NEW p, Step(p)
  PROVE  /\ todo[p] # <<>> /\ Along(p)
         /\ call' = call /\ side' = side /\ made' = made
         /\ clean' \subseteq clean /\ shared' = shared
         /\ users' \subseteq users /\ (At(p, "Close") \/ users' = users)
         /\ users \ {p} \subseteq users'
<1>1. CASE Setting(p)
  BY <1>1 DEF Setting, TransferMode, SetChannel, SetSampnum, SetEcuSignal, At,
     Along, calls, history
<1>2. CASE Command(p)
  BY <1>2 DEF Command, EcuInit, SideInit, MemInit, Start, Stop, OutPulse0,
     Close, At, Along, calls, history, device
<1>3. CASE Transfer(p)
  BY <1>3 DEF Transfer, WaitReady, WaitEnd, SetInterruptFlagAi, CheckMemStatus,
     InData, OutData, At, Along, calls, history, device, Spoil
<1>4. CASE Reading(p)
  BY <1>4 DEF Reading, ReadWait, ReadData, FlagCommand, DataLock, FlagData, At,
     Along, calls, history, Spoil
<1>5. CASE Correcting(p)
  BY <1>5 DEF Correcting, SetCalibration, CalibrationWait, RomSet, RomCheck,
     RomRead, RomClear, At, Along, calls, history, device, Spoil
<1> QED BY <1>1, <1>2, <1>3, <1>4, <1>5 DEF Step

\* Skipping n steps moves the place by n.
LEMMA SkipMoves ==
  ASSUME BaseInv, NEW p \in Process, NEW n \in Nat, Skip(p, n),
         n <= Len(todo[p]), call' = call, side' = side
  PROVE  /\ todo' \in [Process -> Seq(StepName)]
         /\ \A q \in Process \ {p} : todo'[q] = todo[q]
         /\ OnTrack(p)' /\ Pos(p)' = Pos(p) + n
         /\ Len(todo'[p]) = Len(todo[p]) - n
<1> DEFINE s == Steps(p)
           k == Pos(p)
           l == Len(todo[p])
<1>1. todo \in [Process -> Seq(StepName)]
  BY DEF BaseInv, TypeOK
<1>2. /\ todo' \in [Process -> Seq(StepName)]
      /\ \A q \in Process \ {p} : todo'[q] = todo[q]
      /\ Len(todo'[p]) = l - n
      /\ \A i \in 1 .. l - n : todo'[p][i] = todo[p][n + i]
  BY <1>1, Skipped
<1>3. /\ Len(s) \in Nat /\ l \in Nat /\ l <= Len(s) /\ k = Len(s) - l
      /\ \A i \in 1 .. l : todo[p][i] = s[k + i]
  BY <1>1, AtEnd DEF Pos, BaseInv, OnTrack
<1>4. Steps(p)' = s
  BY SameSteps
<1>5. Pos(p)' = Len(s) - Len(todo'[p])
  BY <1>4 DEF Pos
<1> HIDE DEF s, k, l
<1>6. Pos(p)' = k + n
  BY <1>2, <1>3, <1>5
<1>7. n <= l
  BY DEF l
<1>8. \A i \in 1 .. l - n : todo'[p][i] = s[(k + n) + i]
  <2> SUFFICES ASSUME NEW i \in 1 .. l - n PROVE todo'[p][i] = s[(k + n) + i]
    OBVIOUS
  <2>1. n + i \in 1 .. l /\ k + (n + i) = (k + n) + i
    BY <1>3, <1>7
  <2> QED BY <1>2, <1>3, <2>1
<1>9. OnTrack(p)'
  BY <1>2, <1>3, <1>4, <1>6, <1>7, <1>8 DEF OnTrack
<1> QED BY <1>2, <1>6, <1>9 DEF k, l

\* The number of values of a conversion of p.
Count(p) ==
  IF call[p].op = "SingleAi" THEN 1 ELSE (call[p].ch + 1) * call[p].n

LEMMA SamplingCall ==
  ASSUME BaseInv, NEW p \in Process, call[p].op = "Sampling"
  PROVE  IsSampling(Steps(p), Count(p))
<1>1. call[p].ch \in Chan /\ call[p].n \in 1 .. Samples
  BY DEF BaseInv, TypeOK, Call
<1>2. Steps(p) = Sampling(call[p].ch, call[p].n)
  BY DEF Steps, StepsOf
<1>3. Count(p) = (call[p].ch + 1) * call[p].n
  BY DEF Count
<1> QED BY <1>1, <1>2, <1>3, SamplingSteps

\* The steps that end a sampling.
LEMMA EndOfSampling ==
  /\ AckFlags \o StopAi \in Seq(StepName) /\ Len(AckFlags \o StopAi) = 9
  /\ \A i \in 1 .. 8 : (AckFlags \o StopAi)[i] = AckFlags[i]
  /\ (AckFlags \o StopAi)[9] = "Stop"
<1>1. /\ AckFlags \o StopAi \in Seq(StepName)
      /\ Len(AckFlags \o StopAi) = Len(AckFlags) + Len(StopAi)
      /\ \A i \in 1 .. Len(AckFlags) : (AckFlags \o StopAi)[i] = AckFlags[i]
      /\ \A i \in 1 .. Len(StopAi) :
           (AckFlags \o StopAi)[Len(AckFlags) + i] = StopAi[i]
  BY AckSteps, StopSteps, Cat
<1> QED BY <1>1, AckSteps, StopSteps

\* A read that gives up goes on behind the samples.
LEMMA ReadGivesUp ==
  ASSUME BaseInv, NEW p \in Process, At(p, "ReadWait"),
         todo' = [todo EXCEPT ![p] = AckFlags \o StopAi],
         call' = call, side' = side
  PROVE  /\ todo' \in [Process -> Seq(StepName)]
         /\ \A q \in Process \ {p} : todo'[q] = todo[q]
         /\ OnTrack(p)' /\ Pos(p)' = 2 * Count(p) + 8
         /\ Head(todo'[p]) = "AiCom"
<1> DEFINE s == Steps(p)
           n == Count(p)
           t == AckFlags \o StopAi
<1>1. /\ t \in Seq(StepName) /\ Len(t) = 9 /\ t[9] = "Stop"
      /\ \A i \in 1 .. 8 : t[i] = AckFlags[i]
  BY EndOfSampling
<1>2. todo[p] # <<>> /\ Head(todo[p]) = "ReadWait"
  BY DEF At
<1>3. call[p].op = "Sampling"
  BY <1>2, AtPlace DEF Place
<1>4. /\ n \in Nat \ {0} /\ Len(s) = 2 * n + 17 /\ s[2 * n + 17] = "Stop"
      /\ \A j \in 1 .. 8 : s[2 * n + 8 + j] = AckFlags[j]
  BY <1>3, SamplingCall DEF IsSampling
<1>5. Steps(p)' = s
  BY SameSteps
<1> HIDE DEF t, s, n
<1>6. /\ todo' \in [Process -> Seq(StepName)] /\ todo'[p] = t
      /\ \A q \in Process \ {p} : todo'[q] = todo[q]
  BY <1>1 DEF t, BaseInv, TypeOK
<1>7. Pos(p)' = Len(s) - Len(t)
  BY <1>5, <1>6 DEF Pos
<1>8. Pos(p)' = 2 * n + 8
  BY <1>1, <1>4, <1>7
<1>9. \A i \in 1 .. 9 : t[i] = s[(2 * n + 8) + i]
  <2> SUFFICES ASSUME NEW i \in 1 .. 9 PROVE t[i] = s[(2 * n + 8) + i]
    OBVIOUS
  <2>1. CASE i \in 1 .. 8
    BY <1>1, <1>4, <2>1
  <2>2. CASE i = 9
    <3>1. (2 * n + 8) + 9 = 2 * n + 17
      BY <1>4
    <3> QED BY <1>1, <1>4, <2>2, <3>1
  <2> QED BY <2>1, <2>2
<1>10. OnTrack(p)'
  <2>1. 9 <= Len(s)
    BY <1>4
  <2> QED BY <1>1, <1>5, <1>6, <1>8, <1>9, <2>1 DEF OnTrack
<1>11. t[1] = "AiCom" /\ Head(t) = t[1]
  <2>1. 1 \in 1 .. 8
    OBVIOUS
  <2> QED BY <1>1, <2>1, AckSteps
<1> QED BY <1>6, <1>8, <1>10, <1>11 DEF n

\* A write of the ROM that did not take begins again.
LEMMA WriteAgain ==
  ASSUME BaseInv, NEW p \in Process, At(p, "RomCheck"),
         todo' = [todo EXCEPT ![p] = WriteCalibrationData],
         call' = call, side' = side
  PROVE  /\ todo' \in [Process -> Seq(StepName)]
         /\ \A q \in Process \ {p} : todo'[q] = todo[q]
         /\ OnTrack(p)' /\ Pos(p)' = 0
         /\ Head(todo'[p]) = "RomSet" /\ call[p].op = "WriteRom"
<1> DEFINE t == WriteCalibrationData
<1>1. /\ t \in Seq(StepName) /\ Len(t) = 2 /\ t[1] = "RomSet"
  BY ShortCalls
<1>2. todo[p] # <<>> /\ Head(todo[p]) = "RomCheck"
  BY DEF At
<1>3. call[p].op = "WriteRom"
  BY <1>2, AtPlace DEF Place
<1>4. Steps(p) = t
  BY <1>3 DEF Steps, StepsOf
<1>5. Steps(p)' = t
  BY <1>4, SameSteps
<1> HIDE DEF t
<1>6. /\ todo' \in [Process -> Seq(StepName)] /\ todo'[p] = t
      /\ \A q \in Process \ {p} : todo'[q] = todo[q]
  BY <1>1 DEF t, BaseInv, TypeOK
<1>7. Pos(p)' = 0
  <2>1. Pos(p)' = Len(t) - Len(t)
    BY <1>5, <1>6 DEF Pos
  <2> QED BY <1>1, <2>1
<1>8. OnTrack(p)'
  BY <1>1, <1>5, <1>6, <1>7 DEF OnTrack
<1>9. Head(t) = "RomSet"
  BY <1>1
<1> QED BY <1>3, <1>6, <1>7, <1>8, <1>9

\* The calls that a wait for the device is in.
LEMMA AiLength ==
  ASSUME BaseInv, NEW p \in Process, call[p].op \in AiOps
  PROVE  /\ Len(Steps(p)) \in Nat /\ Len(Steps(p)) > 10
         /\ Steps(p)[4] = "Start" /\ Steps(p)[5] = "WaitReady"
         /\ Steps(p)[6] = "Pulse" /\ Steps(p)[7] = "WaitEnd"
         /\ Steps(p)[8] = "Ack"
         /\ Count(p) \in Nat \ {0}
<1>1. call[p].ch \in Chan /\ call[p].ch \in Nat /\ call[p].n \in 1 .. Samples
      /\ (call[p].op # "Sampling" => call[p].n = 1)
  BY ZeroFits DEF BaseInv, TypeOK, Call, CallFits
<1>2. CASE call[p].op = "SingleAi"
  <2>1. Steps(p) = SingleAi
    BY <1>2 DEF Steps, StepsOf
  <2> QED BY <1>2, <2>1, SingleAiSteps DEF Count
<1>3. CASE call[p].op = "MultiAi"
  <2>1. Steps(p) = MultiAi(call[p].ch)
    BY <1>3 DEF Steps, StepsOf
  <2>2. Count(p) = (call[p].ch + 1) * 1
    BY <1>1, <1>3 DEF Count
  <2> DEFINE m == call[p].ch
             s == MultiAi(m)
  <2>3. /\ Len(s) = m + 11 /\ s[4] = "Start" /\ s[5] = "WaitReady"
        /\ s[6] = "Pulse" /\ s[7] = "WaitEnd" /\ s[8] = "Ack"
    BY <1>1, MultiAiSteps
  <2>4. Len(s) \in Nat /\ Len(s) > 10 /\ Count(p) \in Nat \ {0}
    <3>1. m \in Nat /\ Len(s) = m + 11 /\ Count(p) = (m + 1) * 1
      BY <1>1, <2>2, <2>3
    <3> HIDE DEF s, m
    <3> QED BY <3>1
  <2> HIDE DEF s
  <2> QED BY <2>1, <2>3, <2>4 DEF s
<1>4. CASE call[p].op = "Sampling"
  BY <1>4, SamplingCall DEF IsSampling
<1> QED BY <1>2, <1>3, <1>4 DEF AiOps

\* Where a step leaves the processes.
Jump(p) ==
  \/ /\ Skip(p, 1) /\ Pos(p)' = Pos(p) + 1
     /\ Len(todo'[p]) = Len(todo[p]) - 1
  \/ At(p, "WaitEnd") /\ Pos(p)' = 8
  \/ At(p, "WaitReady") /\ Pos(p)' = 8 /\ p \notin clean'
  \/ At(p, "ReadWait") /\ Head(todo'[p]) = "AiCom" /\ p \notin clean'
  \/ At(p, "RomCheck") /\ Head(todo'[p]) = "RomSet" /\ todo'[p] # <<>>

LEMMA Moved ==
  ASSUME BaseInv, NEW p \in Process, Step(p)
  PROVE  /\ todo' \in [Process -> Seq(StepName)]
         /\ \A q \in Process \ {p} : todo'[q] = todo[q]
         /\ \A q \in Process : /\ OnTrack(q)' /\ CallFits(q)'
                               /\ Steps(q)' = Steps(q)
         /\ Jump(p)
<1>1. /\ todo[p] # <<>> /\ Along(p) /\ call' = call /\ side' = side
  BY StepMoves
<1>2. \A q \in Process : CallFits(q)' /\ Steps(q)' = Steps(q)
  BY <1>1, SameSteps DEF BaseInv, CallFits
<1>3. ASSUME NEW q \in Process \ {p}, todo'[q] = todo[q] PROVE OnTrack(q)'
  <2>1. OnTrack(q)
    BY DEF BaseInv
  <2>2. Pos(q)' = Pos(q)
    BY <1>2, <1>3 DEF Pos
  <2> QED BY <1>2, <1>3, <2>1, <2>2 DEF OnTrack
<1> SUFFICES /\ todo' \in [Process -> Seq(StepName)]
             /\ \A q \in Process \ {p} : todo'[q] = todo[q]
             /\ OnTrack(p)' /\ Jump(p)
  BY <1>2, <1>3
<1>4. Len(todo[p]) \in Nat \ {0}
  BY <1>1, AtEnd
<1>5. CASE Skip(p, 1)
  <2>1. 1 <= Len(todo[p])
    BY <1>4
  <2> QED BY <1>1, <1>5, <2>1, SkipMoves DEF Jump
<1>6. ASSUME At(p, "WaitEnd") \/ At(p, "WaitReady")
      PROVE  /\ At(p, "WaitEnd") => Pos(p) = 6 /\ 2 <= Len(todo[p])
             /\ At(p, "WaitReady") => Pos(p) = 4 /\ 4 <= Len(todo[p])
  <2>1. /\ call[p].op \in AiOps /\ Pos(p) \in Nat
        /\ Len(todo[p]) = Len(Steps(p)) - Pos(p)
        /\ At(p, "WaitEnd") => Pos(p) + 1 = 7
        /\ At(p, "WaitReady") => Pos(p) + 1 = 5
    BY <1>1, <1>6, AtPlace DEF Place, At
  <2>2. Len(Steps(p)) \in Nat /\ Len(Steps(p)) > 10
    BY <2>1, AiLength
  <2> QED BY <2>1, <2>2
<1>7. CASE At(p, "WaitEnd") /\ Skip(p, 2)
  <2>1. Pos(p) = 6 /\ 2 <= Len(todo[p])
    BY <1>6, <1>7
  <2> QED BY <1>1, <1>7, <2>1, SkipMoves DEF Jump
<1>8. CASE At(p, "WaitReady") /\ Skip(p, 4) /\ p \notin clean'
  <2>1. Pos(p) = 4 /\ 4 <= Len(todo[p])
    BY <1>6, <1>8
  <2> QED BY <1>1, <1>8, <2>1, SkipMoves DEF Jump
<1>9. CASE /\ At(p, "ReadWait") /\ p \notin clean'
           /\ todo' = [todo EXCEPT ![p] = AckFlags \o StopAi]
  BY <1>1, <1>9, ReadGivesUp DEF Jump
<1>10. CASE /\ At(p, "RomCheck")
            /\ todo' = [todo EXCEPT ![p] = WriteCalibrationData]
  <2>1. todo'[p] # <<>>
    <3>1. todo \in [Process -> Seq(StepName)]
      BY DEF BaseInv, TypeOK
    <3>2. todo'[p] = WriteCalibrationData
      BY <1>10, <3>1
    <3>3. WriteCalibrationData # <<>>
      BY DEF WriteCalibrationData
    <3> QED BY <3>2, <3>3
  <2> QED BY <1>1, <1>10, <2>1, WriteAgain DEF Jump
<1> QED BY <1>1, <1>5, <1>7, <1>8, <1>9, <1>10 DEF Along

-----------------------------------------------------------------------------
(* Type correctness *)

\* The conversions of a scan.
LEMMA ScanChannels ==
  ASSUME TypeOK
  PROVE  /\ Scans \in Seq(Chan)
         /\ mode = "single" /\ samp = 1 => Len(Scans) = 1 /\ Scans[1] = chan
         /\ mode = "multi" =>
              /\ Len(Scans) = samp * (chan + 1)
              /\ \A i \in 1 .. samp * (chan + 1) :
                   Scans[i] = (i - 1) % (chan + 1)
<1> DEFINE a == <<chan>>
           b == [i \in 1 .. (chan + 1) |-> i - 1]
<1>1. chan \in Chan /\ chan \in Nat /\ samp \in Nat \ {0}
  BY ZeroFits DEF TypeOK
<1>2. mode \in {"single", "multi"}
  BY DEF TypeOK
<1>3. CASE mode = "single"
  <2>1. Scans = Times(samp, a)
    BY <1>3 DEF Scans
  <2>2. a \in Seq(Chan) /\ Len(a) = 1 /\ a[1] = chan
    BY <1>1
  <2>3. samp = 1 => Times(samp, a) = a
    BY DEF Times
  <2> HIDE DEF a
  <2>4. Len(a) # 0
    BY <2>2
  <2>5. Times(samp, a) \in Seq(Chan)
    BY <1>1, <2>2, <2>4, RepeatIn
  <2> QED BY <1>3, <2>1, <2>2, <2>3, <2>5
<1>4. CASE mode = "multi"
  <2> DEFINE m == chan + 1
  <2>1. m \in Nat \ {0}
    BY <1>1
  <2>2. Scans = Times(samp, b)
    BY <1>4 DEF Scans
  <2>3. \A i \in 1 .. m : i - 1 \in Chan
    BY <1>1, AioAssumption DEF Chan, AioAssumption
  <2>4. b \in Seq(Chan) /\ Len(b) = m /\ \A i \in 1 .. m : b[i] = i - 1
    BY <2>1, <2>3
  <2> HIDE DEF b, m
  <2>5. Len(b) # 0
    BY <2>1, <2>4
  <2>6. /\ Times(samp, b) \in Seq(Chan)
        /\ Len(Times(samp, b)) = samp * Len(b)
        /\ \A i \in 1 .. samp * Len(b) :
             Times(samp, b)[i] = b[((i - 1) % Len(b)) + 1]
    BY <1>1, <2>4, <2>5, Repeat, Zenon
  <2>7. ASSUME NEW i \in 1 .. samp * m
        PROVE  b[((i - 1) % m) + 1] = (i - 1) % m
    <3>1. samp * m \in Nat
      BY <1>1, <2>1
    <3>2. i - 1 \in Int
      BY <3>1
    <3>3. (i - 1) % m \in 0 .. m - 1
      BY <2>1, <3>2
    <3>4. ((i - 1) % m) + 1 \in 1 .. m /\ ((i - 1) % m) + 1 - 1 = (i - 1) % m
      BY <2>1, <3>3
    <3> QED BY <2>4, <3>4
  <2> QED BY <1>4, <2>2, <2>4, <2>6, <2>7 DEF m
<1> QED BY <1>2, <1>3, <1>4

\* Taking a sample, or what an empty FIFO gives.
LEMMA TakeTypes ==
  ASSUME BaseInv, NEW p \in Process, TakeSample(p)
  PROVE  /\ got' \in [Process -> Seq(Sample \cup Put)]
         /\ fifo' \in Seq(Kind) /\ fifo' \in Seq(Sample \cup Put)
<1>1. fifo \in Seq(Kind) /\ got \in [Process -> Seq(Sample \cup Put)]
      /\ Kind \subseteq Sample \cup Put
  BY DEF BaseInv, TypeOK, Kind
<1>2. Junk \in Sample \cup Put
  BY ZeroFits DEF Junk, Sample
<1>3. fifo # <<>> => Head(fifo) \in Sample \cup Put /\ Tail(fifo) \in Seq(Kind)
  BY <1>1
<1> DEFINE e == IF fifo = <<>> THEN Junk ELSE Head(fifo)
<1>4. e \in Sample \cup Put
  BY <1>2, <1>3
<1> HIDE DEF e
<1>5. Append(got[p], e) \in Seq(Sample \cup Put)
  BY <1>1, <1>4
<1>6. got' = [got EXCEPT ![p] = Append(got[p], e)]
  BY DEF TakeSample, e
<1>7. got' \in [Process -> Seq(Sample \cup Put)]
  BY <1>1, <1>5, <1>6
<1>8. fifo' \in Seq(Kind)
  BY <1>1, <1>3 DEF TakeSample
<1>9. fifo' \in Seq(Sample \cup Put)
  BY <1>1, <1>8
<1> QED BY <1>7, <1>8, <1>9

\* Everything but the scripts and the FIFO.
RestOK ==
  /\ side \in {"AI", "AO"} /\ mode \in {"single", "multi"}
  /\ chan \in Chan /\ samp \in 1..Samples /\ gate \in {"closed", "opening", "open"}
  /\ scan \in Seq(Chan) /\ owner \in Process \cup {NoProcess}
  /\ out \in [Chan -> Word]
  /\ route \in {"reset", "set", "bad"} /\ aiFlag \in BOOLEAN /\ memFlag \in BOOLEAN
  /\ com \in Register /\ unlocked \in BOOLEAN /\ busy \in BOOLEAN /\ rom \in Word
  /\ users \subseteq Process
  /\ call \in [Process -> Call] /\ got \in [Process -> Seq(Sample \cup Put)]
  /\ tries \in [Process -> 0..RomRetries] /\ made \in 0..MaxCalls
  /\ shared \in BOOLEAN /\ clean \subseteq Process

LEMMA Parts ==
  TypeOK <=> /\ RestOK /\ fifo \in Seq(Sample \cup Put)
             /\ todo \in [Process -> Seq(StepName)]
BY DEF TypeOK, RestOK

LEMMA FifoType ==
  ASSUME side' = side, fifo' \in Seq(Kind)
  PROVE  fifo' \in Seq(Kind)' /\ fifo' \in Seq(Sample \cup Put)
<1>1. Kind' = Kind /\ Kind \subseteq Sample \cup Put
  BY DEF Kind
<1> QED BY <1>1

LEMMA StepTypes ==
  ASSUME BaseInv, NEW p \in Process, Step(p)
  PROVE  RestOK' /\ fifo' \in Seq(Kind)
<1>1. RestOK /\ fifo \in Seq(Kind)
  BY Parts DEF BaseInv
<1>2. call[p] \in Call /\ call[p].ch \in Chan /\ call[p].n \in 1 .. Samples
      /\ call[p].v \in Word
  BY <1>1 DEF RestOK, Call
<1>3. CASE TransferMode(p)
  BY <1>1, <1>3 DEF TransferMode, RestOK, ecu, calls, results, history
<1>4. CASE SetChannel(p)
  BY <1>1, <1>2, <1>4 DEF SetChannel, RestOK, ecu, calls, results, history
<1>5. CASE SetSampnum(p)
  BY <1>1, <1>2, <1>5 DEF SetSampnum, RestOK, ecu, calls, results, history
<1>6. CASE SetEcuSignal(p)
  BY <1>1, <1>6 DEF SetEcuSignal, RestOK, analog, calls, results, history, Register
<1>7. CASE EcuInit(p)
  BY <1>1, <1>7 DEF EcuInit, RestOK, analog, calls, results, history, Register
<1>8. CASE SideInit(p)
  <2>1. <<>> \in Seq(Chan)
    OBVIOUS
  <2> QED BY <1>1, <1>8, <2>1, ZeroFits
          DEF SideInit, RestOK, ecu, calls, results, history
<1>9. CASE MemInit(p)
  BY <1>1, <1>9 DEF MemInit, RestOK, ecu, calls, results, history
<1>10. CASE Start(p)
  BY <1>1, <1>10 DEF Start, RestOK, ecu, calls, results, history
<1>11. CASE Stop(p)
  BY <1>1, <1>11 DEF Stop, RestOK, ecu, calls, results, history
<1>12. CASE Close(p)
  BY <1>1, <1>12 DEF Close, RestOK, device, analog, ecu, results, history
<1>13. CASE OutPulse0(p)
  <2>1. scan' \in Seq(Chan) /\ owner' \in Process \cup {NoProcess}
    BY <1>1, <1>13, ScanChannels DEF BaseInv, OutPulse0, RestOK
  <2> QED BY <1>1, <1>13, <2>1
          DEF OutPulse0, RestOK, calls, results, history, Register
<1>14. CASE WaitReady(p)
  BY <1>1, <1>14 DEF WaitReady, Spoil, RestOK, device, analog, ecu, calls, results
<1>15. CASE WaitEnd(p)
  BY <1>1, <1>15 DEF WaitEnd, RestOK, device, analog, ecu, calls, results, history
<1>16. CASE SetInterruptFlagAi(p)
  BY <1>1, <1>16
     DEF SetInterruptFlagAi, RestOK, analog, calls, results, history, Register
<1>17. CASE CheckMemStatus(p)
  BY <1>1, <1>17 DEF CheckMemStatus, Spoil, RestOK, device, analog, ecu, calls, results
<1>18. CASE InData(p)
  BY <1>1, <1>18, TakeTypes DEF InData, RestOK, ecu, calls, history
<1>19. CASE OutData(p)
  <2>1. Head(todo[p]) = "OutData" /\ todo[p] # <<>>
    BY <1>19 DEF OutData, At
  <2>2. call[p].op \in AoOps
    BY <2>1, AtPlace DEF Place
  <2>3. side = "AO"
    BY <2>2 DEF BaseInv, CallFits
  <2>4. [word |-> calc_DAC161S055(call[p].v)] \in Kind
    BY <1>2, <2>3, OutputInRange DEF Kind, Put
  <2>5. fifo' \in Seq(Kind)
    BY <1>1, <1>19, <2>4 DEF OutData
  <2> QED BY <1>1, <1>19, <2>5 DEF OutData, RestOK, ecu, calls, results, history
<1>20. CASE ReadWait(p)
  <2>1. fifo' \in Seq(Kind)
    <3>1. fifo' = fifo \/ fifo' = <<>>
      BY <1>20 DEF ReadWait
    <3>2. <<>> \in Seq(Kind)
      BY EmptySeq
    <3> QED BY <1>1, <3>1, <3>2
  <2>2. clean' \subseteq clean
    BY <1>20 DEF ReadWait, Spoil
  <2> QED BY <1>1, <1>20, <2>1, <2>2 DEF ReadWait, RestOK, ecu, calls, results
<1>21. CASE ReadData(p)
  BY <1>1, <1>21, TakeTypes DEF ReadData, RestOK, ecu, calls, history
<1>22. CASE FlagCommand(p)
  BY <1>1, <1>22 DEF FlagCommand, RestOK, analog, calls, results, history, Register
<1>23. CASE DataLock(p)
  BY <1>1, <1>23 DEF DataLock, RestOK, analog, calls, results, history
<1>24. CASE FlagData(p)
  BY <1>1, <1>24 DEF FlagData, RestOK, analog, calls, results, history
<1>25. CASE SetCalibration(p)
  BY <1>1, <1>25 DEF SetCalibration, RestOK, analog, ecu, calls, results, history
<1>26. CASE CalibrationWait(p)
  BY <1>1, <1>26
     DEF CalibrationWait, RestOK, device, analog, ecu, calls, results, history
<1>27. CASE RomSet(p)
  BY <1>1, <1>2, <1>27 DEF RomSet, RestOK, analog, ecu, calls, results, history
<1>28. CASE RomCheck(p)
  <2>1. RomRetries \in Nat
    BY AioAssumption DEF AioAssumption
  <2>2. tries' \in [Process -> 0 .. RomRetries]
    <3>1. tries \in [Process -> 0 .. RomRetries]
      BY <1>1 DEF RestOK
    <3>2. CASE tries[p] >= RomRetries
      BY <1>28, <3>1, <3>2 DEF RomCheck
    <3>3. CASE ~(tries[p] >= RomRetries)
      <4>1. tries[p] + 1 \in 0 .. RomRetries
        BY <2>1, <3>1, <3>3
      <4>2. tries' = [tries EXCEPT ![p] = @ + 1]
        BY <1>28, <3>3 DEF RomCheck
      <4> QED BY <3>1, <4>1, <4>2
    <3> QED BY <3>2, <3>3
  <2> QED BY <1>1, <1>28, <2>2
          DEF RomCheck, Spoil, RestOK, device, analog, ecu, calls
<1>29. CASE RomRead(p)
  <2>1. <<[word |-> rom]>> \in Seq(Sample \cup Put)
    <3>1. [word |-> rom] \in Sample \cup Put
      BY <1>1 DEF RestOK, Put
    <3> QED BY <3>1
  <2>2. got' \in [Process -> Seq(Sample \cup Put)]
    BY <1>1, <1>29, <2>1 DEF RomRead, RestOK
  <2> QED BY <1>1, <1>29, <2>2
          DEF RomRead, RestOK, device, analog, ecu, calls, history
<1>30. CASE RomClear(p)
  BY <1>1, <1>30, ZeroFits DEF RomClear, RestOK, analog, ecu, calls, results, history
<1> QED BY <1>3, <1>4, <1>5, <1>6, <1>7, <1>8, <1>9, <1>10, <1>11, <1>12,
           <1>13, <1>14, <1>15, <1>16, <1>17, <1>18, <1>19, <1>20, <1>21,
           <1>22, <1>23, <1>24, <1>25, <1>26, <1>27, <1>28, <1>29, <1>30
        DEF Step, Setting, Command, Transfer, Reading, Correcting

LEMMA DeviceTypes ==
  ASSUME BaseInv, Device
  PROVE  RestOK' /\ fifo' \in Seq(Kind)
         /\ UNCHANGED <<side, todo, call, users, got, shared, clean>>
<1>1. RestOK /\ fifo \in Seq(Kind)
  BY Parts DEF BaseInv
<1>2. CASE GateOpens
  BY <1>1, <1>2 DEF GateOpens, RestOK, ecu, calls, results, history
<1>3. CASE Convert
  <2>1. scan \in Seq(Chan) /\ scan # <<>>
    BY <1>1, <1>3 DEF RestOK, Convert
  <2>2. Head(scan) \in Chan /\ Tail(scan) \in Seq(Chan)
    BY <2>1
  <2>3. CASE side = "AI"
    <3>1. [by |-> owner, ch |-> Head(scan)] \in Kind
      BY <1>1, <2>2, <2>3 DEF RestOK, Kind, Sample
    <3>2. fifo' = Append(fifo, [by |-> owner, ch |-> Head(scan)]) /\ out' = out
      BY <1>3, <2>3 DEF Convert
    <3>3. fifo' \in Seq(Kind)
      BY <1>1, <3>1, <3>2
    <3> QED BY <1>1, <1>3, <2>2, <3>2, <3>3
            DEF Convert, RestOK, calls, results, history
  <2>4. CASE side # "AI"
    <3>1. fifo # <<>> /\ fifo' = Tail(fifo)
          /\ out' = [out EXCEPT ![Head(scan)] = Head(fifo).word]
      BY <1>3, <2>4 DEF Convert
    <3>2. Kind = Put
      BY <2>4 DEF Kind
    <3>3. Head(fifo) \in Put /\ Tail(fifo) \in Seq(Kind)
      BY <1>1, <3>1, <3>2
    <3>4. Head(fifo).word \in Word
      BY <3>3 DEF Put
    <3>5. out' \in [Chan -> Word]
      BY <1>1, <2>2, <3>1, <3>4 DEF RestOK
    <3>6. fifo' \in Seq(Kind)
      BY <3>1, <3>3
    <3> QED BY <1>1, <1>3, <2>2, <3>5, <3>6
            DEF Convert, RestOK, calls, results, history
  <2> QED BY <2>3, <2>4
<1>4. CASE CalibrationDone
  BY <1>1, <1>4 DEF CalibrationDone, RestOK, analog, ecu, calls, results, history
<1>5. CASE Isr
  BY <1>1, <1>5 DEF Isr, RestOK, analog, calls, results, history, Register
<1> QED BY <1>2, <1>3, <1>4, <1>5 DEF Device

\* What a call is made with.
LEMMA CallsOnFit ==
  ASSUME NEW c \in CallsOn(side), side \in {"AI", "AO"}
  PROVE  /\ c \in Call /\ c.op # "Init" /\ c.op # "none"
         /\ c.op # "Sampling" => c.n = 1
         /\ c.op \in AiOps => side = "AI"
         /\ c.op \in AoOps => side = "AO"
<1> USE ZeroFits, AioAssumption DEF AioAssumption, Call, AiOps, AoOps
<1>1. CASE \E op \in {"Exit", "SetCal", "ReadRom", "ClearCal"} :
             c = [ch |-> 0, n |-> 1, op |-> op, v |-> 0]
  BY <1>1
<1>2. CASE \E v \in Value : c = [ch |-> 0, n |-> 1, op |-> "WriteRom", v |-> v]
  BY <1>2
<1>3. CASE /\ side = "AI"
           /\ \E k \in Chan : c = [ch |-> k, n |-> 1, op |-> "SingleAi", v |-> 0]
  BY <1>3
<1>4. CASE /\ side = "AI"
           /\ \E k \in Chan : c = [ch |-> k, n |-> 1, op |-> "MultiAi", v |-> 0]
  BY <1>4
<1>5. CASE /\ side = "AI"
           /\ \E k \in Chan, n \in 1 .. Samples :
                c = [ch |-> k, n |-> n, op |-> "Sampling", v |-> 0]
  BY <1>5
<1>6. CASE /\ side = "AO"
           /\ \E k \in Chan, v \in Value, op \in AoOps :
                c = [ch |-> k, n |-> 1, op |-> op, v |-> v]
  BY <1>6
<1>7. \/ \E op \in {"Exit", "SetCal", "ReadRom", "ClearCal"} :
             c = [ch |-> 0, n |-> 1, op |-> op, v |-> 0]
      \/ \E v \in Value : c = [ch |-> 0, n |-> 1, op |-> "WriteRom", v |-> v]
      \/ /\ side = "AI"
         /\ \/ \E k \in Chan : c = [ch |-> k, n |-> 1, op |-> "SingleAi", v |-> 0]
            \/ \E k \in Chan : c = [ch |-> k, n |-> 1, op |-> "MultiAi", v |-> 0]
            \/ \E k \in Chan, n \in 1 .. Samples :
                 c = [ch |-> k, n |-> n, op |-> "Sampling", v |-> 0]
      \/ /\ side = "AO"
         /\ \E k \in Chan, v \in Value, op \in AoOps :
              c = [ch |-> k, n |-> 1, op |-> op, v |-> v]
  BY DEF CallsOn
<1> QED BY <1>1, <1>2, <1>3, <1>4, <1>5, <1>6, <1>7

\* A call begins at its first step.
LEMMA Begun ==
  ASSUME BaseInv, NEW p \in Process, NEW c \in Call, Begin(p, c),
         c.op # "Sampling" => c.n = 1,
         c.op \in AiOps => side = "AI",
         c.op \in AoOps => side = "AO"
  PROVE  /\ BaseInv' /\ call'[p] = c /\ todo'[p] = Steps(p)' /\ Pos(p)' = 0
         /\ got'[p] = <<>>
         /\ \A q \in Process \ {p} :
              /\ call'[q] = call[q] /\ todo'[q] = todo[q]
              /\ Steps(q)' = Steps(q)
<1>1. RestOK /\ fifo \in Seq(Kind) /\ todo \in [Process -> Seq(StepName)]
  BY Parts DEF BaseInv
<1>2. side' = side /\ fifo' = fifo /\ UNCHANGED device
  BY DEF Begin, device, analog
<1>3. StepsOf(c) \in Seq(StepName)
  BY Places
<1>4. /\ todo' \in [Process -> Seq(StepName)] /\ todo'[p] = StepsOf(c)
      /\ \A q \in Process \ {p} : todo'[q] = todo[q]
  BY <1>1, <1>3 DEF Begin
<1>5. /\ call' \in [Process -> Call] /\ call'[p] = c
      /\ \A q \in Process \ {p} : call'[q] = call[q]
  BY <1>1 DEF Begin, RestOK
<1>6. got' \in [Process -> Seq(Sample \cup Put)] /\ got'[p] = <<>>
  <2>1. <<>> \in Seq(Sample \cup Put)
    OBVIOUS
  <2> QED BY <1>1, <2>1 DEF Begin, RestOK
<1>7. tries' \in [Process -> 0 .. RomRetries]
  BY <1>1, AioAssumption DEF Begin, RestOK, AioAssumption
<1>8. made' \in 0 .. MaxCalls
  BY <1>1, AioAssumption DEF Begin, RestOK, AioAssumption
<1>9. users' \subseteq Process /\ shared' \in BOOLEAN /\ clean' \subseteq Process
  BY <1>1 DEF Begin, RestOK
<1>10. RestOK'
  BY <1>1, <1>2, <1>5, <1>6, <1>7, <1>8, <1>9 DEF RestOK, device, analog, ecu
<1>11. TypeOK' /\ fifo' \in Seq(Kind)'
  <2>1. Kind' = Kind /\ Kind \subseteq Sample \cup Put
    BY <1>2 DEF Kind
  <2>2. fifo' \in Seq(Kind)' /\ fifo' \in Seq(Sample \cup Put)
    BY <1>1, <1>2, <2>1
  <2> QED BY <1>4, <1>10, <2>2, Parts DEF RestOK, TypeOK
<1>12. /\ Steps(p)' = todo'[p]
       /\ \A q \in Process \ {p} : Steps(q)' = Steps(q)
  BY <1>2, <1>4, <1>5 DEF Steps, StepsOf, ClearCalibrationData
<1>13. Len(todo'[p]) \in Nat
  BY <1>4
<1>14. Pos(p)' = 0
  <2>1. Pos(p)' = Len(todo'[p]) - Len(todo'[p])
    BY <1>12 DEF Pos
  <2> QED BY <1>13, <2>1
<1>15. ASSUME NEW q \in Process PROVE OnTrack(q)' /\ CallFits(q)'
  <2>1. CASE q = p
    <3>1. OnTrack(p)'
      BY <1>12, <1>13, <1>14 DEF OnTrack
    <3>2. CallFits(p)'
      BY <1>2, <1>5 DEF CallFits
    <3> QED BY <2>1, <3>1, <3>2
  <2>2. CASE q # p
    <3>1. OnTrack(q) /\ CallFits(q)
      BY DEF BaseInv
    <3>2. /\ todo'[q] = todo[q] /\ call'[q] = call[q] /\ Steps(q)' = Steps(q)
      BY <1>4, <1>5, <1>12, <2>2
    <3>3. Pos(q)' = Pos(q)
      BY <3>2 DEF Pos
    <3> QED BY <1>2, <3>1, <3>2, <3>3 DEF OnTrack, CallFits
  <2> QED BY <2>1, <2>2
<1> QED BY <1>4, <1>5, <1>6, <1>11, <1>12, <1>14, <1>15 DEF BaseInv

\* The two ways a call begins.
Begins(p, c) ==
  /\ c \in Call /\ Begin(p, c)
  /\ c.op # "Sampling" => c.n = 1
  /\ c.op \in AiOps => side = "AI"
  /\ c.op \in AoOps => side = "AO"

LEMMA BeginKinds ==
  ASSUME BaseInv, NEW p \in Process, CallInit(p) \/ CallOther(p)
  PROVE  \E c \in Call : Begins(p, c)
<1>1. CASE CallInit(p)
  <2> DEFINE c == [ch |-> 0, n |-> 1, op |-> "Init", v |-> 0]
  <2>1. c \in Call /\ c.op = "Init" /\ c.n = 1
    BY ZeroFits DEF Call
  <2>2. Begin(p, c)
    BY <1>1 DEF CallInit
  <2> HIDE DEF c
  <2>3. Begins(p, c)
    BY <2>1, <2>2 DEF Begins, AiOps, AoOps
  <2> QED BY <2>1, <2>3
<1>2. CASE CallOther(p)
  <2>1. PICK c \in CallsOn(side) : Begin(p, c)
    BY <1>2 DEF CallOther
  <2>2. side \in {"AI", "AO"}
    BY DEF BaseInv, TypeOK
  <2>3. Begins(p, c)
    BY <2>1, <2>2, CallsOnFit DEF Begins
  <2> QED BY <2>3 DEF Begins
<1> QED BY <1>1, <1>2

LEMMA BaseInit == Init => BaseInv
<1> SUFFICES ASSUME Init PROVE BaseInv
  OBVIOUS
<1>1. RestOK
  <2>1. [c \in Chan |-> 0] \in [Chan -> Word]
    BY ZeroFits
  <2>2. [p \in Process |-> [ch |-> 0, n |-> 1, op |-> "none", v |-> 0]]
        \in [Process -> Call]
    BY ZeroFits DEF Call
  <2>3. [p \in Process |-> <<>>] \in [Process -> Seq(Sample \cup Put)]
        /\ <<>> \in Seq(Chan)
    OBVIOUS
  <2>4. [p \in Process |-> 0] \in [Process -> 0 .. RomRetries] /\ 0 \in 0 .. MaxCalls
    BY AioAssumption DEF AioAssumption
  <2> QED BY <2>1, <2>2, <2>3, <2>4, ZeroFits DEF Init, RestOK, Register
<1>2. fifo \in Seq(Kind) /\ fifo \in Seq(Sample \cup Put)
      /\ todo \in [Process -> Seq(StepName)]
  BY DEF Init
<1>3. ASSUME NEW p \in Process PROVE OnTrack(p) /\ CallFits(p)
  <2>1. Steps(p) = <<>> /\ todo[p] = <<>> /\ Len(<<>>) = 0
    BY DEF Init, Steps, StepsOf
  <2>2. call[p].op = "none" /\ call[p].n = 1
    BY DEF Init
  <2> QED BY <2>1, <2>2 DEF OnTrack, CallFits, AiOps, AoOps
<1> QED BY <1>1, <1>2, <1>3, Parts DEF BaseInv

LEMMA BaseNext == BaseInv /\ [Next]_vars => BaseInv'
<1>1. ASSUME BaseInv, NEW p \in Process, Step(p) PROVE BaseInv'
  <2>1. side' = side
    BY <1>1, StepMoves
  <2>2. RestOK' /\ fifo' \in Seq(Kind)
    BY <1>1, StepTypes
  <2>3. fifo' \in Seq(Kind)' /\ fifo' \in Seq(Sample \cup Put)
    BY <2>1, <2>2, FifoType
  <2>4. todo' \in [Process -> Seq(StepName)]
        /\ \A q \in Process : OnTrack(q)' /\ CallFits(q)'
    BY <1>1, Moved
  <2>5. TypeOK'
    BY <2>2, <2>3, <2>4 DEF TypeOK, RestOK
  <2> QED BY <2>3, <2>4, <2>5 DEF BaseInv
<1>2. ASSUME BaseInv, Device PROVE BaseInv'
  <2>1. RestOK' /\ fifo' \in Seq(Kind) /\ side' = side /\ todo' = todo /\ call' = call
    BY <1>2, DeviceTypes
  <2>2. fifo' \in Seq(Kind)' /\ fifo' \in Seq(Sample \cup Put)
    BY <2>1, FifoType
  <2>3. todo \in [Process -> Seq(StepName)]
    BY <1>2 DEF BaseInv, TypeOK
  <2>4. TypeOK'
    BY <2>1, <2>2, <2>3 DEF TypeOK, RestOK
  <2>5. ASSUME NEW q \in Process PROVE OnTrack(q)' /\ CallFits(q)'
    <3>1. OnTrack(q) /\ CallFits(q)
      BY <1>2 DEF BaseInv
    <3>2. Steps(q)' = Steps(q) /\ Pos(q)' = Pos(q)
      BY <2>1, SameSteps DEF Pos
    <3> QED BY <2>1, <3>1, <3>2 DEF OnTrack, CallFits
  <2> QED BY <2>2, <2>4, <2>5 DEF BaseInv
<1>3. ASSUME BaseInv, NEW p \in Process, CallInit(p) \/ CallOther(p) PROVE BaseInv'
  <2>1. PICK c \in Call : Begins(p, c)
    BY <1>3, BeginKinds
  <2> QED BY <1>3, <2>1, Begun DEF Begins
<1>4. ASSUME BaseInv, UNCHANGED vars PROVE BaseInv'
  <2>1. UNCHANGED <<side, todo, call, fifo>>
    BY <1>4 DEF vars, device, analog, calls
  <2>2. Kind' = Kind /\ \A q : Steps(q)' = Steps(q) /\ Pos(q)' = Pos(q)
    BY <2>1, SameSteps DEF Kind, Pos
  <2>3. TypeOK'
    BY <1>4 DEF vars, device, analog, ecu, calls, results, history, BaseInv,
       TypeOK
  <2> QED BY <1>4, <2>1, <2>2, <2>3 DEF BaseInv, OnTrack, CallFits
<1> QED BY <1>1, <1>2, <1>3, <1>4 DEF Next

LEMMA AioBase == Spec => []BaseInv
BY BaseInit, BaseNext, PTL DEF Spec

\* Types of the device, the scripts and what the calls return, for any
\* processes, channels and samples: every code that is put out is a word, and
\* an output's FIFO never holds samples nor an input's words.
THEOREM AioTypeCorrect == Spec => []TypeOK
<1>1. BaseInv => TypeOK
  BY DEF BaseInv
<1> QED BY <1>1, AioBase, PTL

-----------------------------------------------------------------------------
(* The signals that Init connects *)

\* The step a process is at after one of its own.
LEMMA NextPlace ==
  ASSUME BaseInv, NEW p \in Process, Step(p)
  PROVE  /\ Pos(p)' \in 0 .. Len(Steps(p)) /\ Len(Steps(p)) \in Nat
         /\ todo'[p] = <<>> <=> Pos(p)' = Len(Steps(p))
         /\ todo'[p] # <<>> =>
              /\ Pos(p)' + 1 \in 1 .. Len(Steps(p))
              /\ Head(todo'[p]) = Steps(p)[Pos(p)' + 1]
              /\ Place(call[p], Pos(p)' + 1, Len(Steps(p)), Head(todo'[p]),
                       Steps(p)[Pos(p)'])
<1> DEFINE s == Steps(p)
           t == todo'[p]
           k == Pos(p)'
<1>1. call[p] \in Call
  BY DEF BaseInv, TypeOK
<1>2. /\ s \in Seq(StepName)
      /\ \A i \in 1 .. Len(s) : Place(call[p], i, Len(s), s[i], s[i - 1])
  BY <1>1, Places DEF Steps
<1>3. t \in Seq(StepName) /\ Steps(p)' = s /\ OnTrack(p)'
  BY Moved
<1>4. k = Len(s) - Len(t)
  BY <1>3 DEF Pos
<1>5. Len(t) <= Len(s) /\ \A i \in 1 .. Len(t) : t[i] = s[k + i]
  BY <1>3 DEF OnTrack
<1> HIDE DEF s, t, k
<1>6. k \in 0 .. Len(s) /\ Len(s) \in Nat /\ (t = <<>> <=> k = Len(s))
  BY <1>2, <1>3, <1>4, <1>5
<1>7. ASSUME t # <<>>
      PROVE  /\ k + 1 \in 1 .. Len(s) /\ Head(t) = s[k + 1]
             /\ Place(call[p], k + 1, Len(s), Head(t), s[k])
  <2>1. Len(t) \in Nat \ {0} /\ Head(t) = t[1]
    BY <1>3, <1>7
  <2>2. k + 1 \in 1 .. Len(s) /\ 1 \in 1 .. Len(t) /\ (k + 1) - 1 = k
    BY <1>2, <1>4, <1>5, <2>1
  <2>3. Head(t) = s[k + 1]
    BY <1>5, <2>1, <2>2
  <2>4. Place(call[p], k + 1, Len(s), s[k + 1], s[(k + 1) - 1])
    BY <1>2, <2>2
  <2> QED BY <2>2, <2>3, <2>4
<1> QED BY <1>6, <1>7 DEF s, t, k

\* Whoever is in a call has the device open; as long as only one has had it
\* open at a time, there is only one.
UsersInv ==
  /\ \A p \in Process : todo[p] # <<>> => p \in users
  /\ ~shared => \A p, q \in users : p = q

\* What the command register names when the flags are written, and where the
\* start signal stands.
RouteInv ==
  ~shared =>
    /\ \A p \in users : (call[p].op = "Init" /\ todo[p] # <<>>) \/ route = "set"
    /\ \A p \in Process :
         todo[p] # <<>> /\ Head(todo[p]) \in {"Unlock", "AiData", "MemData"} =>
           com # "Signal"

\* What the steps do to both.
LEMMA RouteSteps ==
  ASSUME NEW p, Step(p)
  PROVE  /\ \/ route' = route
            \/ At(p, "EcuInit") \/ At(p, "Signals")
            \/ (At(p, "AiData") \/ At(p, "MemData")) /\ com = "Signal"
         /\ At(p, "Signals") => route' = "set"
         /\ At(p, "AiCom") \/ At(p, "MemCom") => com' # "Signal"
         /\ At(p, "Unlock") => com' = com
<1>1. CASE Setting(p)
  BY <1>1 DEF Setting, TransferMode, SetChannel, SetSampnum, SetEcuSignal, At, ecu
<1>2. CASE Command(p)
  BY <1>2 DEF Command, EcuInit, SideInit, MemInit, Start, Stop, OutPulse0,
     Close, At, ecu, device
<1>3. CASE Transfer(p)
  BY <1>3 DEF Transfer, WaitReady, WaitEnd, SetInterruptFlagAi, CheckMemStatus,
     InData, OutData, At, ecu, device
<1>4. CASE Reading(p)
  BY <1>4 DEF Reading, ReadWait, ReadData, FlagCommand, DataLock, FlagData, At, ecu
<1>5. CASE Correcting(p)
  BY <1>5 DEF Correcting, SetCalibration, CalibrationWait, RomSet, RomCheck,
     RomRead, RomClear, At, ecu, device
<1> QED BY <1>1, <1>2, <1>3, <1>4, <1>5 DEF Step

LEMMA UsersStep ==
  ASSUME BaseInv, UsersInv, NEW p \in Process, Step(p)
  PROVE  UsersInv' /\ p \in users
<1>1. /\ todo[p] # <<>> /\ shared' = shared /\ users' \subseteq users
      /\ (At(p, "Close") \/ users' = users) /\ users \ {p} \subseteq users'
  BY StepMoves
<1>2. p \in users
  BY <1>1 DEF UsersInv
<1>3. ASSUME NEW q \in Process, todo'[q] # <<>> PROVE q \in users'
  <2>1. CASE q # p
    BY <1>1, <1>3, <2>1, Moved DEF UsersInv
  <2>2. CASE q = p /\ ~At(p, "Close")
    BY <1>1, <1>2, <2>2
  <2>3. CASE q = p /\ At(p, "Close")
    <3>1. Pos(p) + 1 = Len(Steps(p))
      BY <1>1, <2>3, AtPlace DEF At, Place
    <3>2. Jump(p)
      BY Moved
    <3>3. Pos(p)' = Pos(p) + 1
      BY <2>3, <3>2 DEF Jump, At
    <3>4. todo'[p] = <<>>
      BY <3>1, <3>3, NextPlace
    <3> QED BY <1>3, <2>3, <3>4
  <2> QED BY <2>1, <2>2, <2>3
<1> QED BY <1>1, <1>2, <1>3 DEF UsersInv

LEMMA RouteStep ==
  ASSUME BaseInv, UsersInv, RouteInv, NEW p \in Process, Step(p)
  PROVE  RouteInv'
<1>1. /\ todo[p] # <<>> /\ shared' = shared /\ users' \subseteq users /\ call' = call
      /\ todo[p] \in Seq(StepName)
  BY StepMoves, AtEnd
<1>2. p \in users /\ UsersInv'
  BY UsersStep
<1> SUFFICES ASSUME ~shared PROVE RouteInv'
  BY <1>1 DEF RouteInv
<1>3. users = {p} /\ users' \subseteq {p}
  BY <1>1, <1>2 DEF UsersInv
<1>4. /\ Pos(p) \in Nat
      /\ Place(call[p], Pos(p) + 1, Len(Steps(p)), Head(todo[p]), Steps(p)[Pos(p)])
      /\ Head(todo[p]) = Steps(p)[Pos(p) + 1]
  BY <1>1, AtPlace
<1>5. Jump(p)
  BY Moved
<1>6. ASSUME NEW q \in users'
      PROVE  (call'[q].op = "Init" /\ todo'[q] # <<>>) \/ route' = "set"
  <2>1. q = p
    BY <1>3
  <2>2. CASE call[p].op = "Init" /\ todo'[p] # <<>>
    BY <1>1, <2>1, <2>2
  <2>3. CASE call[p].op = "Init" /\ todo'[p] = <<>>
    <3>1. Skip(p, 1) /\ Pos(p)' = Pos(p) + 1
      BY <1>1, <1>4, <1>5, <2>3 DEF Jump, At, Place, AiOps
    <3>2. Pos(p) + 1 = Len(Steps(p))
      BY <2>3, <3>1, NextPlace
    <3>3. Head(todo[p]) = "Signals"
      BY <1>4, <2>3, <3>2 DEF Place
    <3> QED BY <1>1, <3>3, RouteSteps DEF At
  <2>4. CASE call[p].op # "Init"
    <3>1. route = "set"
      BY <1>3, <2>4 DEF RouteInv
    <3>2. ~At(p, "EcuInit")
      BY <1>4, <2>4 DEF At, Place
    <3>3. At(p, "AiData") \/ At(p, "MemData") => com # "Signal"
      BY DEF At, RouteInv
    <3> QED BY <3>1, <3>2, <3>3, RouteSteps
  <2> QED BY <2>2, <2>3, <2>4
<1>7. ASSUME NEW q \in Process, todo'[q] # <<>>,
             Head(todo'[q]) \in {"Unlock", "AiData", "MemData"}
      PROVE  com' # "Signal"
  <2>1. q = p
    BY <1>2, <1>3, <1>7 DEF UsersInv
  <2> DEFINE x == Head(todo'[p])
             y == Steps(p)[Pos(p)']
  <2>2. Place(call[p], Pos(p)' + 1, Len(Steps(p)), x, y)
    BY <1>7, <2>1, NextPlace
  <2>3. /\ x \in {"Unlock", "AiData", "MemData"}
        /\ x = "Unlock" => y \in {"AiCom", "MemCom"}
        /\ x \in {"AiData", "MemData"} => y = "Unlock"
    BY <1>7, <2>1, <2>2 DEF Place
  <2> HIDE DEF x
  <2>4. CASE Skip(p, 1) /\ Pos(p)' = Pos(p) + 1
    <3>1. Head(todo[p]) = y
      BY <1>4, <2>4
    <3> HIDE DEF y
    <3>2. CASE x = "Unlock"
      BY <1>1, <2>3, <3>1, <3>2, RouteSteps DEF At
    <3>3. CASE x # "Unlock"
      <4>1. At(p, "Unlock")
        BY <1>1, <2>3, <3>1, <3>3 DEF At
      <4>2. com # "Signal"
        BY <4>1 DEF At, RouteInv
      <4> QED BY <4>1, <4>2, RouteSteps
    <3> QED BY <3>2, <3>3
  <2>5. CASE (At(p, "WaitEnd") \/ At(p, "WaitReady")) /\ Pos(p)' = 8
    <3>1. call[p].op \in AiOps
      BY <1>4, <2>5 DEF At, Place
    <3>2. Steps(p)[8] = "Ack"
      BY <3>1, AiLength
    <3>3. y = "Ack"
      BY <2>5, <3>2
    <3> HIDE DEF y
    <3> QED BY <2>3, <3>3
  <2>6. CASE Head(todo'[p]) \in {"AiCom", "RomSet"}
    BY <2>3, <2>6 DEF x
  <2> QED BY <1>5, <2>4, <2>5, <2>6 DEF Jump
<1> QED BY <1>6, <1>7 DEF RouteInv

LEMMA RouteBegin ==
  ASSUME BaseInv, UsersInv, RouteInv, NEW p \in Process, NEW c \in Call,
         Begins(p, c)
  PROVE  UsersInv' /\ RouteInv'
<1>1. /\ call'[p] = c /\ todo'[p] = Steps(p)'
      /\ \A q \in Process \ {p} : todo'[q] = todo[q]
  BY Begun DEF Begins
<1>2. /\ todo[p] = <<>> /\ (c.op = "Init") # (p \in users)
      /\ users' = users \cup {p} /\ shared' = (shared \/ users \ {p} # {})
      /\ route' = route /\ com' = com /\ side' = side
  BY DEF Begins, Begin, device, ecu
<1>3. UsersInv'
  BY <1>1, <1>2 DEF UsersInv
<1>4. RouteInv'
  <2> SUFFICES ASSUME ~shared' PROVE RouteInv'
    BY DEF RouteInv
  <2>1. ~shared /\ users' = {p} /\ users \subseteq {p}
    BY <1>2
  <2>2. todo'[p] = StepsOf(c)
    BY <1>1, <1>2 DEF Steps, StepsOf, ClearCalibrationData
  <2>3. ASSUME NEW q \in users'
        PROVE  (call'[q].op = "Init" /\ todo'[q] # <<>>) \/ route' = "set"
    <3>1. q = p
      BY <2>1
    <3>2. CASE c.op = "Init"
      <4>1. StepsOf(c) = AioInit /\ AioInit # <<>>
        BY <3>2 DEF StepsOf, AioInit
      <4> QED BY <1>1, <2>2, <3>1, <3>2, <4>1
    <3>3. CASE c.op # "Init"
      BY <1>2, <2>1, <3>3 DEF RouteInv
    <3> QED BY <3>2, <3>3
  <2>4. ASSUME NEW q \in Process, todo'[q] # <<>>,
               Head(todo'[q]) \in {"Unlock", "AiData", "MemData"}
        PROVE  com' # "Signal"
    <3>1. q = p
      BY <1>3, <2>1, <2>4 DEF UsersInv
    <3> DEFINE s == StepsOf(c)
    <3>2. /\ s \in Seq(StepName)
          /\ \A i \in 1 .. Len(s) : Place(c, i, Len(s), s[i], s[i - 1])
      BY Places
    <3> HIDE DEF s
    <3>3. s # <<>> /\ Head(s) \in {"Unlock", "AiData", "MemData"}
      BY <2>2, <2>4, <3>1 DEF s
    <3>4. 1 \in 1 .. Len(s) /\ Head(s) = s[1]
      BY <3>2, <3>3
    <3>5. Place(c, 1, Len(s), s[1], s[1 - 1])
      BY <3>2, <3>4
    <3> QED BY <3>3, <3>4, <3>5 DEF Place
  <2> QED BY <2>3, <2>4 DEF RouteInv
<1> QED BY <1>3, <1>4

LEMMA RouteNext == BaseInv /\ UsersInv /\ RouteInv /\ [Next]_vars
                     => UsersInv' /\ RouteInv'
<1> SUFFICES ASSUME BaseInv, UsersInv, RouteInv, [Next]_vars
             PROVE  UsersInv' /\ RouteInv'
  OBVIOUS
<1>1. ASSUME NEW p \in Process, Step(p) PROVE UsersInv' /\ RouteInv'
  BY <1>1, UsersStep, RouteStep
<1>2. ASSUME NEW p \in Process, CallInit(p) \/ CallOther(p)
      PROVE  UsersInv' /\ RouteInv'
  BY <1>2, BeginKinds, RouteBegin
<1>3. CASE Device
  <2>1. UNCHANGED <<todo, call, users, shared>>
    BY <1>3, DeviceTypes
  <2>2. route' = route /\ (com' = com \/ com' = "IrqMask")
    BY <1>3 DEF Device, GateOpens, Convert, CalibrationDone, Isr, ecu
  <2> QED BY <2>1, <2>2 DEF UsersInv, RouteInv
<1>4. CASE UNCHANGED vars
  BY <1>4 DEF vars, device, ecu, calls, history, UsersInv, RouteInv
<1> QED BY <1>1, <1>2, <1>3, <1>4 DEF Next

\* Neither the interrupt handler nor the acknowledgement at the end of read(),
\* which makes its four writes without a lock, disconnects the signals of the
\* only process that has the device open.
THEOREM SignalsStay == Spec => []RoutesAsAsked
<1>1. Init => UsersInv /\ RouteInv
  BY DEF Init, UsersInv, RouteInv
<1>2. UsersInv /\ RouteInv => RoutesAsAsked
  BY DEF UsersInv, RouteInv, RoutesAsAsked
<1> QED BY <1>1, <1>2, RouteNext, AioBase, PTL DEF Spec

-----------------------------------------------------------------------------
(* A call that has the device to itself *)

\* While a call is clean nobody else is in one.
AloneInv ==
  \A p \in clean : clean = {p} /\ \A q \in Process \ {p} : todo[q] = <<>>

LEMMA AloneStep ==
  ASSUME BaseInv, AloneInv, NEW p \in Process, Step(p)
  PROVE  AloneInv' /\ clean \subseteq {p} /\ clean' \subseteq {p}
<1>1. todo[p] # <<>> /\ clean' \subseteq clean
  BY StepMoves
<1>2. clean \subseteq {p} /\ clean \subseteq Process
  BY <1>1 DEF AloneInv, BaseInv, TypeOK
<1>3. \A q \in Process \ {p} : todo'[q] = todo[q]
  BY Moved
<1> QED BY <1>1, <1>2, <1>3 DEF AloneInv

LEMMA AloneBegin ==
  ASSUME BaseInv, AloneInv, NEW p \in Process, NEW c \in Call, Begins(p, c)
  PROVE  AloneInv' /\ clean' \subseteq {p}
<1>1. \A q \in Process \ {p} : todo'[q] = todo[q]
  BY Begun DEF Begins
<1>2. \/ clean' = {}
      \/ clean' = {p} /\ \A q \in Process \ {p} : todo[q] = <<>>
  BY DEF Begins, Begin
<1> QED BY <1>1, <1>2 DEF AloneInv

LEMMA AloneNext == BaseInv /\ AloneInv /\ [Next]_vars => AloneInv'
<1> SUFFICES ASSUME BaseInv, AloneInv, [Next]_vars PROVE AloneInv'
  OBVIOUS
<1>1. ASSUME NEW p \in Process, Step(p) PROVE AloneInv'
  BY <1>1, AloneStep
<1>2. ASSUME NEW p \in Process, CallInit(p) \/ CallOther(p) PROVE AloneInv'
  BY <1>2, BeginKinds, AloneBegin
<1>3. CASE Device
  BY <1>3, DeviceTypes DEF AloneInv
<1>4. CASE UNCHANGED vars
  BY <1>4 DEF vars, history, AloneInv
<1> QED BY <1>1, <1>2, <1>3, <1>4 DEF Next

\* An invariant of a process whose call is clean has to be shown for that
\* process only: for its own steps, for the device, and where its call begins.
LEMMA AloneAll == Spec => []AloneInv
<1>1. Init => AloneInv
  BY DEF Init, AloneInv
<1> QED BY <1>1, AloneNext, AioBase, PTL DEF Spec

RomInv ==
  \A p \in clean : call[p].op = "WriteRom" /\ todo[p] = <<>> => rom = call[p].v

LEMMA RomNext == BaseInv /\ AloneInv /\ RomInv /\ [Next]_vars => RomInv'
<1> SUFFICES ASSUME BaseInv, AloneInv, RomInv, [Next]_vars PROVE RomInv'
  OBVIOUS
<1>1. ASSUME NEW p \in Process, Step(p) PROVE RomInv'
  <2> SUFFICES ASSUME p \in clean', call'[p].op = "WriteRom", todo'[p] = <<>>
               PROVE  rom' = call'[p].v
    BY <1>1, AloneStep DEF RomInv
  <2>1. todo[p] # <<>> /\ call' = call
    BY <1>1, StepMoves
  <2>2. /\ Pos(p) \in Nat /\ Head(todo[p]) = Steps(p)[Pos(p) + 1]
        /\ Place(call[p], Pos(p) + 1, Len(Steps(p)), Head(todo[p]),
                 Steps(p)[Pos(p)])
    BY <2>1, AtPlace
  <2>3. Skip(p, 1) /\ Pos(p)' = Pos(p) + 1
    <3>1. Jump(p)
      BY <1>1, Moved
    <3> QED BY <2>1, <2>2, <3>1 DEF Jump, At, Place, AiOps
  <2>4. Steps(p) = WriteCalibrationData
    BY <2>1 DEF Steps, StepsOf
  <2>5. Pos(p) + 1 = 2
    BY <1>1, <2>3, <2>4, NextPlace, ShortCalls
  <2>6. At(p, "RomCheck")
    BY <2>1, <2>2, <2>4, <2>5, ShortCalls DEF At
  <2>7. RomCheck(p)
    BY <1>1, <2>6, Heads
       DEF At, Step, Setting, Command, Transfer, Reading, Correcting
  <2>8. todo' # [todo EXCEPT ![p] = WriteCalibrationData]
    <3>1. todo \in [Process -> Seq(StepName)] /\ WriteCalibrationData # <<>>
      BY DEF BaseInv, TypeOK, WriteCalibrationData
    <3> QED BY <3>1
  <2> QED BY <2>1, <2>7, <2>8 DEF RomCheck, Spoil, device
<1>2. ASSUME NEW p \in Process, CallInit(p) \/ CallOther(p) PROVE RomInv'
  <2>1. PICK c \in Call : Begins(p, c)
    BY <1>2, BeginKinds
  <2>2. clean' \subseteq {p}
    BY <2>1, AloneBegin
  <2>3. call'[p] = c /\ todo'[p] = Steps(p)'
    BY <2>1, Begun DEF Begins
  <2>4. c.op = "WriteRom" => todo'[p] # <<>>
    BY <2>3 DEF Steps, StepsOf, WriteCalibrationData
  <2> QED BY <2>2, <2>3, <2>4 DEF RomInv
<1>3. CASE Device
  <2>1. rom' = rom
    BY <1>3 DEF Device, GateOpens, Convert, CalibrationDone, Isr
  <2> QED BY <1>3, <2>1, DeviceTypes DEF RomInv
<1>4. CASE UNCHANGED vars
  BY <1>4 DEF vars, history, calls, device, RomInv
<1> QED BY <1>1, <1>2, <1>3, <1>4 DEF Next

\* However often the device drops a write, a call that has it to itself and
\* does not give up returns with its value in the ROM.
THEOREM RomIsWritten == Spec => []RomAsAsked
<1>1. Init => RomInv
  BY DEF Init, RomInv
<1>2. RomInv => RomAsAsked
  BY DEF RomInv, RomAsAsked, Done
<1> QED BY <1>1, <1>2, RomNext, AioBase, AloneAll, PTL DEF Spec

-----------------------------------------------------------------------------
(* The settings of a conversion *)

\* s converts n values once: it sets up, waits, reads them and stops.
IsConversion(s, n) ==
  /\ n \in Nat \ {0} /\ Len(s) = n + 10
  /\ s[2] = "Channel" /\ s[3] = "Sampnum" /\ s[4] = "Start"
  /\ s[5] = "WaitReady" /\ s[6] = "Pulse" /\ s[7] = "WaitEnd"
  /\ s[8] = "Ack" /\ s[9] = "WaitMem"
  /\ \A j \in 1 .. n : s[9 + j] = "InData"
  /\ s[n + 10] = "Stop"

LEMMA ConversionCall ==
  ASSUME BaseInv, NEW p \in Process, call[p].op \in {"SingleAi", "MultiAi"}
  PROVE  /\ IsConversion(Steps(p), Count(p))
         /\ Steps(p)[1] = IF call[p].op = "SingleAi" THEN "Single" ELSE "Multi"
<1>1. call[p].ch \in Chan /\ call[p].ch \in Nat /\ call[p].n = 1
  BY ZeroFits DEF BaseInv, TypeOK, Call, CallFits
<1>2. CASE call[p].op = "SingleAi"
  <2>1. Steps(p) = SingleAi /\ Count(p) = 1
    BY <1>2 DEF Steps, StepsOf, Count
  <2> DEFINE s == SingleAi
  <2>2. /\ Len(s) = 11
        /\ s[1] = "Single" /\ s[2] = "Channel" /\ s[3] = "Sampnum"
        /\ s[4] = "Start" /\ s[5] = "WaitReady" /\ s[6] = "Pulse"
        /\ s[7] = "WaitEnd" /\ s[8] = "Ack" /\ s[9] = "WaitMem"
        /\ s[10] = "InData" /\ s[11] = "Stop"
    BY SingleAiSteps
  <2> HIDE DEF s
  <2>3. \A j \in 1 .. 1 : s[9 + j] = "InData"
    BY <2>2
  <2>4. IsConversion(s, 1)
    BY <2>2, <2>3 DEF IsConversion
  <2> QED BY <1>2, <2>1, <2>2, <2>4 DEF s
<1>3. CASE call[p].op = "MultiAi"
  <2> DEFINE m == call[p].ch
             s == MultiAi(m)
  <2>1. Steps(p) = s
    BY <1>3 DEF Steps, StepsOf
  <2>2. Count(p) = m + 1
    <3>1. Count(p) = (m + 1) * 1
      BY <1>1, <1>3 DEF Count
    <3> HIDE DEF m
    <3>2. m \in Nat
      BY <1>1 DEF m
    <3> QED BY <3>1, <3>2
  <2>3. /\ Len(s) = m + 11
        /\ s[1] = "Multi" /\ s[2] = "Channel" /\ s[3] = "Sampnum"
        /\ s[4] = "Start" /\ s[5] = "WaitReady" /\ s[6] = "Pulse"
        /\ s[7] = "WaitEnd" /\ s[8] = "Ack" /\ s[9] = "WaitMem"
        /\ \A j \in 1 .. m + 1 : s[9 + j] = "InData"
        /\ s[m + 11] = "Stop"
    BY <1>1, MultiAiSteps
  <2>4. m \in Nat
    BY <1>1
  <2> HIDE DEF s, m
  <2>5. m + 1 \in Nat \ {0} /\ (m + 1) + 10 = m + 11
    BY <2>4
  <2>6. IsConversion(s, m + 1)
    BY <2>3, <2>5 DEF IsConversion
  <2> QED BY <1>3, <2>1, <2>2, <2>3, <2>6
<1> QED BY <1>2, <1>3

\* The registers hold what the call has set so far.
Settled(p) ==
  LET k == Pos(p)
      mine == IF call[p].op \in {"SingleAi", "SingleAo"} THEN "single" ELSE "multi"
  IN  IF call[p].op = "Sampling"
      THEN /\ k >= 1 => samp = call[p].n
           /\ k >= 2 => mode = mine
           /\ k >= 3 => chan = call[p].ch
      ELSE /\ k >= 1 => mode = mine
           /\ k >= 2 => chan = call[p].ch
           /\ k >= 3 => samp = call[p].n

Setters == {"Single", "Multi", "Channel", "Sampnum", "SideInit"}

\* What the steps do to the settings.
LEMMA SettingSteps ==
  ASSUME NEW p, Step(p)
  PROVE  /\ At(p, "Single") => mode' = "single"
         /\ At(p, "Multi") => mode' = "multi"
         /\ At(p, "Channel") => chan' = call[p].ch
         /\ At(p, "Sampnum") => samp' = call[p].n
         /\ Head(todo[p]) \notin Setters => UNCHANGED <<mode, chan, samp>>
         /\ At(p, "Single") \/ At(p, "Multi") => UNCHANGED <<chan, samp>>
         /\ At(p, "Channel") => UNCHANGED <<mode, samp>>
         /\ At(p, "Sampnum") => UNCHANGED <<mode, chan>>
<1>1. CASE Setting(p)
  BY <1>1 DEF Setting, TransferMode, SetChannel, SetSampnum, SetEcuSignal, At,
     Setters, analog
<1>2. CASE Command(p)
  BY <1>2 DEF Command, EcuInit, SideInit, MemInit, Start, Stop, OutPulse0,
     Close, At, Setters, analog, device
<1>3. CASE Transfer(p)
  BY <1>3 DEF Transfer, WaitReady, WaitEnd, SetInterruptFlagAi, CheckMemStatus,
     InData, OutData, At, Setters, analog, device
<1>4. CASE Reading(p)
  BY <1>4 DEF Reading, ReadWait, ReadData, FlagCommand, DataLock, FlagData, At,
     Setters, analog
<1>5. CASE Correcting(p)
  BY <1>5 DEF Correcting, SetCalibration, CalibrationWait, RomSet, RomCheck,
     RomRead, RomClear, At, Setters, analog, device
<1> QED BY <1>1, <1>2, <1>3, <1>4, <1>5 DEF Step

Converts == AiOps \cup {"SingleAo"}

\* A conversion sets the registers first, and never again.
LEMMA SetupSteps ==
  ASSUME BaseInv, NEW p \in Process, call[p].op \in Converts
  PROVE  LET s == Steps(p)
             m == IF call[p].op \in {"SingleAi", "SingleAo"} THEN "Single"
                  ELSE "Multi"
         IN  /\ call[p].op = "Sampling" =>
                  s[1] = "Sampnum" /\ s[2] = "Multi" /\ s[3] = "Channel"
             /\ call[p].op # "Sampling" =>
                  s[1] = m /\ s[2] = "Channel" /\ s[3] = "Sampnum"
             /\ \A i \in 4 .. Len(s) : s[i] \notin Setters
<1> DEFINE s == Steps(p)
           n == Count(p)
<1>1. CASE call[p].op = "SingleAo"
  <2>1. s = SingleAo
    BY <1>1 DEF Steps, StepsOf
  <2> HIDE DEF s
  <2>2. /\ Len(s) = 6 /\ s[1] = "Single" /\ s[2] = "Channel"
        /\ s[3] = "Sampnum" /\ s[4] = "OutData" /\ s[5] = "Start"
        /\ s[6] = "Pulse"
    BY <2>1, ShortCalls
  <2>3. ASSUME NEW i \in 4 .. Len(s) PROVE s[i] \notin Setters
    <3>1. i = 4 \/ i = 5 \/ i = 6
      BY <2>2
    <3> QED BY <2>2, <3>1 DEF Setters
  <2> QED BY <1>1, <2>2, <2>3 DEF s
<1>2. CASE call[p].op \in {"SingleAi", "MultiAi"}
  <2>1. /\ IsConversion(s, n)
        /\ s[1] = IF call[p].op = "SingleAi" THEN "Single" ELSE "Multi"
    BY <1>2, ConversionCall
  <2> HIDE DEF s, n
  <2>2. ASSUME NEW i \in 4 .. Len(s) PROVE s[i] \notin Setters
    <3>1. \/ i \in {4, 5, 6, 7, 8, 9} \/ i = n + 10
          \/ i - 9 \in 1 .. n /\ 9 + (i - 9) = i
      BY <2>1 DEF IsConversion
    <3>2. i - 9 \in 1 .. n => s[9 + (i - 9)] = "InData"
      BY <2>1 DEF IsConversion
    <3>3. s[i] \in {"Start", "WaitReady", "Pulse", "WaitEnd", "Ack", "WaitMem",
                    "InData", "Stop"}
      BY <2>1, <3>1, <3>2 DEF IsConversion
    <3> QED BY <3>3 DEF Setters
  <2> QED BY <1>2, <2>1, <2>2 DEF IsConversion, s
<1>3. CASE call[p].op = "Sampling"
  <2>1. IsSampling(s, n)
    BY <1>3, SamplingCall
  <2> HIDE DEF s, n
  <2>2. ASSUME NEW i \in 4 .. Len(s) PROVE s[i] \notin Setters
    <3>1. CASE i \in 4 .. 8
      <4>1. i = 4 \/ i = 5 \/ i = 6 \/ i = 7 \/ i = 8
        BY <3>1
      <4> QED BY <2>1, <4>1 DEF IsSampling, Setters
    <3>2. CASE i \in 9 .. 2 * n + 8
      <4>1. i - 8 \in 1 .. 2 * n /\ 8 + (i - 8) = i
        BY <2>1, <3>2 DEF IsSampling
      <4>2. s[i] \in {"ReadWait", "ReadData"}
        BY <2>1, <4>1 DEF IsSampling
      <4> QED BY <4>2 DEF Setters
    <3>3. CASE i \in 2 * n + 9 .. 2 * n + 16
      <4>1. /\ i - (2 * n + 8) \in 1 .. 8
            /\ 2 * n + 8 + (i - (2 * n + 8)) = i
        BY <2>1, <3>3 DEF IsSampling
      <4> DEFINE j == i - (2 * n + 8)
      <4>2. s[i] = AckFlags[j] /\ j \in 1 .. 8
        BY <2>1, <4>1 DEF IsSampling
      <4> HIDE DEF j
      <4>3. \/ j = 1 \/ j = 2 \/ j = 3 \/ j = 4
            \/ j = 5 \/ j = 6 \/ j = 7 \/ j = 8
        BY <4>2
      <4> QED BY <4>2, <4>3, AckSteps DEF Setters
    <3>4. CASE i = 2 * n + 17
      BY <2>1, <3>4 DEF IsSampling, Setters
    <3>5. \/ i \in 4 .. 8 \/ i \in 9 .. 2 * n + 8
          \/ i \in 2 * n + 9 .. 2 * n + 16 \/ i = 2 * n + 17
      BY <2>1 DEF IsSampling
    <3> QED BY <3>1, <3>2, <3>3, <3>4, <3>5
  <2> QED BY <1>3, <2>1, <2>2 DEF IsSampling, s
<1> QED BY <1>1, <1>2, <1>3 DEF Converts, AiOps

SettledInv == \A p \in clean : call[p].op \in Converts => Settled(p)

\* A clean conversion goes on to its next step, or passes over the
\* acknowledgement when the poll for the end runs out.
LEMMA CleanMoves ==
  ASSUME BaseInv, AloneInv, NEW p \in Process, Step(p), p \in clean',
         call[p].op \in Converts
  PROVE  /\ p \in clean /\ call' = call /\ side' = side /\ todo[p] # <<>>
         /\ Steps(p)' = Steps(p) /\ Len(Steps(p)) \in Nat
         /\ Pos(p) \in 0 .. Len(Steps(p)) - 1
         /\ Head(todo[p]) = Steps(p)[Pos(p) + 1]
         /\ \/ Pos(p)' = Pos(p) + 1
            \/ Pos(p) = 6 /\ Pos(p)' = 8 /\ Head(todo[p]) = "WaitEnd"
<1>1. /\ todo[p] # <<>> /\ call' = call /\ side' = side /\ p \in clean
  BY StepMoves
<1>2. /\ Pos(p) \in Nat /\ Pos(p) + 1 \in 1 .. Len(Steps(p))
      /\ Head(todo[p]) = Steps(p)[Pos(p) + 1]
      /\ Place(call[p], Pos(p) + 1, Len(Steps(p)), Head(todo[p]),
               Steps(p)[Pos(p)])
  BY <1>1, AtPlace
<1>3. Steps(p)' = Steps(p) /\ Jump(p) /\ Len(Steps(p)) \in Nat
  BY Moved, AtEnd
<1>4. ~At(p, "RomCheck")
  BY <1>2 DEF Place, At, Converts, AiOps
<1>5. At(p, "WaitEnd") => Pos(p) = 6 /\ Head(todo[p]) = "WaitEnd"
  <2>1. At(p, "WaitEnd") => Pos(p) + 1 = 7 /\ Head(todo[p]) = "WaitEnd"
    BY <1>2 DEF Place, At
  <2> QED BY <1>2, <2>1
<1>6. \/ Pos(p)' = Pos(p) + 1
      \/ Pos(p) = 6 /\ Pos(p)' = 8 /\ Head(todo[p]) = "WaitEnd"
  BY <1>3, <1>4, <1>5 DEF Jump
<1>7. Pos(p) \in 0 .. Len(Steps(p)) - 1
  BY <1>2, <1>3
<1> QED BY <1>1, <1>2, <1>3, <1>6, <1>7

LEMMA SettledNext ==
  BaseInv /\ AloneInv /\ SettledInv /\ [Next]_vars => SettledInv'
<1> SUFFICES ASSUME BaseInv, AloneInv, SettledInv, [Next]_vars
             PROVE  SettledInv'
  OBVIOUS
<1>1. ASSUME NEW p \in Process, Step(p) PROVE SettledInv'
  <2>1. call' = call /\ clean' \subseteq {p}
    BY <1>1, StepMoves, AloneStep
  <2> SUFFICES ASSUME p \in clean', call[p].op \in Converts
               PROVE  Settled(p)'
    BY <2>1 DEF SettledInv
  <2> DEFINE s == Steps(p)
             k == Pos(p)
             x == Head(todo[p])
  <2>2. /\ p \in clean /\ k \in Nat /\ x = s[k + 1] /\ todo[p] # <<>>
        /\ k + 1 \in 1 .. Len(s)
        /\ Pos(p)' = k + 1 \/ (k = 6 /\ Pos(p)' = 8)
    BY <1>1, CleanMoves
  <2>3. Settled(p)
    BY <2>2 DEF SettledInv
  <2>4. /\ x = "Single" => mode' = "single" /\ UNCHANGED <<chan, samp>>
        /\ x = "Multi" => mode' = "multi" /\ UNCHANGED <<chan, samp>>
        /\ x = "Channel" => chan' = call[p].ch /\ UNCHANGED <<mode, samp>>
        /\ x = "Sampnum" => samp' = call[p].n /\ UNCHANGED <<mode, chan>>
        /\ x \notin Setters => UNCHANGED <<mode, chan, samp>>
    BY <1>1, <2>2, SettingSteps DEF At
  <2> DEFINE single == call[p].op \in {"SingleAi", "SingleAo"}
  <2>5. /\ call[p].op = "Sampling" =>
             s[1] = "Sampnum" /\ s[2] = "Multi" /\ s[3] = "Channel"
        /\ call[p].op # "Sampling" =>
             /\ s[1] = (IF single THEN "Single" ELSE "Multi")
             /\ s[2] = "Channel" /\ s[3] = "Sampnum"
        /\ \A i \in 4 .. Len(s) : s[i] \notin Setters
    BY SetupSteps
  <2> HIDE DEF s, k, x
  <2>6. CASE k = 0
    <3>1. Pos(p)' = 1 /\ x = s[1]
      BY <2>2, <2>6
    <3> QED BY <2>1, <2>4, <2>5, <3>1 DEF Settled
  <2>7. CASE k = 1
    <3>1. Pos(p)' = 2 /\ x = s[2]
      BY <2>2, <2>7
    <3>2. Pos(p) = 1
      BY <2>7 DEF k
    <3> QED BY <2>1, <2>3, <2>4, <2>5, <3>1, <3>2 DEF Settled
  <2>8. CASE k = 2
    <3>1. Pos(p)' = 3 /\ x = s[3]
      BY <2>2, <2>8
    <3>2. Pos(p) = 2
      BY <2>8 DEF k
    <3> QED BY <2>1, <2>3, <2>4, <2>5, <3>1, <3>2 DEF Settled
  <2>9. CASE k > 2
    <3>1. k + 1 \in 4 .. Len(s)
      BY <2>2, <2>9
    <3>2. UNCHANGED <<mode, chan, samp>>
      BY <2>2, <2>4, <2>5, <3>1
    <3>3. k >= 1 /\ k >= 2 /\ k >= 3
      BY <2>2, <2>9
    <3> QED BY <2>1, <2>3, <3>2, <3>3 DEF Settled, k
  <2> QED BY <2>2, <2>6, <2>7, <2>8, <2>9
<1>2. ASSUME NEW p \in Process, CallInit(p) \/ CallOther(p) PROVE SettledInv'
  <2>1. PICK c \in Call : Begins(p, c)
    BY <1>2, BeginKinds
  <2>2. clean' \subseteq {p} /\ Pos(p)' = 0
    BY <2>1, AloneBegin, Begun DEF Begins
  <2> QED BY <2>2 DEF SettledInv, Settled
<1>3. CASE Device
  <2>1. UNCHANGED <<mode, chan, samp>>
    BY <1>3 DEF Device, GateOpens, Convert, CalibrationDone, Isr, analog
  <2>2. UNCHANGED <<side, todo, call, clean>>
    BY <1>3, DeviceTypes
  <2>3. \A p : Pos(p)' = Pos(p)
    BY <2>2, SameSteps DEF Pos
  <2> QED BY <2>1, <2>2, <2>3 DEF SettledInv, Settled
<1>4. CASE UNCHANGED vars
  <2>1. UNCHANGED <<side, todo, call, clean, mode, chan, samp>>
    BY <1>4 DEF vars, device, analog, history, calls
  <2>2. \A p : Pos(p)' = Pos(p)
    BY <2>1, SameSteps DEF Pos
  <2> QED BY <2>1, <2>2 DEF SettledInv, Settled
<1> QED BY <1>1, <1>2, <1>3, <1>4 DEF Next

LEMMA AllSettled == Spec => []SettledInv
<1>1. Init => SettledInv
  BY DEF Init, SettledInv
<1> QED BY <1>1, SettledNext, AioBase, AloneAll, PTL DEF Spec

-----------------------------------------------------------------------------
(* What the output shows *)

Movers == {"SideInit", "MemInit", "Pulse", "Stop", "InData", "OutData",
           "ReadWait", "ReadData", "RomRead"}

\* What the steps do to the conversions and the samples.
LEMMA AnalogSteps ==
  ASSUME NEW p, Step(p)
  PROVE  /\ out' = out
         /\ Head(todo[p]) \notin Movers => UNCHANGED <<scan, owner, fifo, got>>
         /\ At(p, "Pulse") =>
              /\ UNCHANGED <<fifo, got>>
              /\ (scan' = Scans /\ owner' = p) \/ UNCHANGED <<scan, owner>>
         /\ At(p, "Stop") => scan' = <<>> /\ UNCHANGED <<owner, fifo, got>>
         /\ At(p, "InData") \/ At(p, "ReadData") =>
              TakeSample(p) /\ UNCHANGED <<scan, owner>>
         /\ At(p, "OutData") =>
              /\ fifo' = Append(fifo, [word |-> calc_DAC161S055(call[p].v)])
              /\ UNCHANGED <<scan, owner, got>>
         /\ At(p, "ReadWait") /\ p \in clean' =>
              fifo # <<>> /\ UNCHANGED <<scan, owner, fifo, got>>
         /\ At(p, "WaitMem") /\ p \in clean' =>
              IF call[p].op = "MultiAi" THEN MultiReadable ELSE Readable
<1>1. CASE Setting(p)
  BY <1>1 DEF Setting, TransferMode, SetChannel, SetSampnum, SetEcuSignal, At,
     analog, results
<1>2. CASE Command(p)
  BY <1>2 DEF Command, EcuInit, SideInit, MemInit, Start, Stop, OutPulse0,
     Close, At, Movers, analog, device, results
<1>3. CASE Transfer(p)
  BY <1>3 DEF Transfer, WaitReady, WaitEnd, SetInterruptFlagAi, CheckMemStatus,
     InData, OutData, At, Movers, analog, device, results, Spoil
<1>4. CASE Reading(p)
  BY <1>4 DEF Reading, ReadWait, ReadData, FlagCommand, DataLock, FlagData, At,
     Movers, analog, results, Spoil, Readable
<1>5. CASE Correcting(p)
  BY <1>5 DEF Correcting, SetCalibration, CalibrationWait, RomSet, RomCheck,
     RomRead, RomClear, At, Movers, analog, device, results
<1> QED BY <1>1, <1>2, <1>3, <1>4, <1>5 DEF Step

\* The word that p puts out.
Shown(p) == [word |-> calc_DAC161S055(call[p].v)]

\* It is nowhere, then in the FIFO, then on its way, then on the channel.
AoAt(p) ==
  LET k == Pos(p)
  IN  /\ k < 4 => fifo = <<>> /\ scan = <<>>
      /\ k \in 4 .. 5 => fifo = <<Shown(p)>> /\ scan = <<>>
      /\ k = 6 =>
           \/ /\ fifo = <<Shown(p)>>
              /\ scan = <<>> \/ (Len(scan) = 1 /\ scan[1] = call[p].ch)
           \/ fifo = <<>> /\ scan = <<>> /\ out[call[p].ch] = Shown(p).word

AoInv == \A p \in clean : call[p].op = "SingleAo" => AoAt(p)

LEMMA AoStep ==
  ASSUME BaseInv, AloneInv, SettledInv, AoInv, NEW p \in Process, Step(p)
  PROVE  AoInv'
<1>1. call' = call /\ clean' \subseteq {p}
  BY StepMoves, AloneStep
<1> SUFFICES ASSUME p \in clean', call[p].op = "SingleAo" PROVE AoAt(p)'
  BY <1>1 DEF AoInv
<1> DEFINE k == Pos(p)
           x == Head(todo[p])
<1>2. /\ Len(SingleAo) = 6
      /\ SingleAo[1] = "Single" /\ SingleAo[2] = "Channel"
      /\ SingleAo[3] = "Sampnum" /\ SingleAo[4] = "OutData"
      /\ SingleAo[5] = "Start" /\ SingleAo[6] = "Pulse"
  BY ShortCalls
<1>3. Steps(p) = SingleAo
  BY DEF Steps, StepsOf
<1>4. /\ p \in clean /\ k \in 0 .. 5 /\ x = SingleAo[k + 1] /\ todo[p] # <<>>
      /\ Pos(p)' = k + 1 \/ (k = 6 /\ Pos(p)' = 8)
  <2>1. call[p].op \in Converts
    BY DEF Converts
  <2> QED BY <1>2, <1>3, <2>1, CleanMoves
<1>5. Settled(p) /\ AoAt(p)
  BY <1>4 DEF SettledInv, AoInv, Converts
<1>6. Shown(p)' = Shown(p)
  BY <1>1 DEF Shown
<1>7. /\ x \notin Movers => UNCHANGED <<scan, fifo>>
      /\ x = "Pulse" => fifo' = fifo /\ (scan' = Scans \/ scan' = scan)
      /\ x = "OutData" => fifo' = Append(fifo, Shown(p)) /\ scan' = scan
  BY <1>4, AnalogSteps DEF At, Shown
<1> HIDE DEF x
<1>8. CASE k < 3
  <2>1. x \in {"Single", "Channel", "Sampnum"}
    <3>1. k = 0 \/ k = 1 \/ k = 2
      BY <1>4, <1>8
    <3> QED BY <1>2, <1>4, <3>1
  <2>2. UNCHANGED <<scan, fifo>>
    BY <1>7, <2>1 DEF Movers
  <2>3. Pos(p)' < 4 /\ Pos(p)' \notin 4 .. 5 /\ Pos(p)' # 6 /\ k < 4
    BY <1>4, <1>8
  <2> QED BY <1>5, <2>2, <2>3 DEF AoAt
<1>9. CASE k = 3
  <2>1. x = "OutData" /\ Pos(p)' = 4 /\ k < 4
    BY <1>2, <1>4, <1>9
  <2>2. fifo = <<>> /\ scan = <<>>
    BY <1>5, <2>1 DEF AoAt
  <2>3. fifo' = <<Shown(p)>> /\ scan' = <<>>
    BY <1>7, <2>1, <2>2
  <2> QED BY <1>6, <2>1, <2>3 DEF AoAt
<1>10. CASE k = 4
  <2>1. x = "Start" /\ Pos(p)' = 5 /\ k \in 4 .. 5
    BY <1>2, <1>4, <1>10
  <2>2. fifo = <<Shown(p)>> /\ scan = <<>>
    BY <1>5, <2>1 DEF AoAt
  <2>3. fifo' = <<Shown(p)>> /\ scan' = <<>>
    BY <1>7, <2>1, <2>2 DEF Movers
  <2> QED BY <1>6, <2>1, <2>3 DEF AoAt
<1>11. CASE k = 5
  <2>1. x = "Pulse" /\ Pos(p)' = 6 /\ k \in 4 .. 5
    BY <1>2, <1>4, <1>11
  <2>2. fifo = <<Shown(p)>> /\ scan = <<>>
    BY <1>5, <2>1 DEF AoAt
  <2>3. mode = "single" /\ chan = call[p].ch /\ samp = call[p].n
    BY <1>5, <1>11 DEF Settled
  <2>4. call[p].n = 1
    BY DEF BaseInv, CallFits
  <2>5. Len(Scans) = 1 /\ Scans[1] = call[p].ch
    BY <2>3, <2>4, ScanChannels DEF BaseInv
  <2>6. /\ fifo' = <<Shown(p)>>'
        /\ scan' = <<>> \/ (Len(scan') = 1 /\ scan'[1] = call'[p].ch)
    BY <1>1, <1>6, <1>7, <2>1, <2>2, <2>5
  <2> QED BY <2>1, <2>6 DEF AoAt
<1> QED BY <1>4, <1>8, <1>9, <1>10, <1>11

LEMMA AoDevice ==
  ASSUME BaseInv, AoInv, Device
  PROVE  AoInv'
<1>1. UNCHANGED <<side, todo, call, clean>>
  BY DeviceTypes
<1> SUFFICES ASSUME NEW p \in clean, call[p].op = "SingleAo" PROVE AoAt(p)'
  BY <1>1 DEF AoInv
<1>2. /\ Steps(p) = SingleAo /\ p \in Process /\ AoAt(p)
      /\ Shown(p)' = Shown(p) /\ Pos(p)' = Pos(p)
  BY <1>1, SameSteps DEF Steps, StepsOf, Shown, Pos, BaseInv, TypeOK, AoInv
<1>3. Pos(p) \in 0 .. 6
  BY <1>2, AtEnd, ShortCalls
<1>4. CASE ~Convert
  <2>1. UNCHANGED <<scan, fifo, out>>
    BY <1>4 DEF Device, GateOpens, CalibrationDone, Isr, analog
  <2> QED BY <1>1, <1>2, <2>1 DEF AoAt
<1>5. CASE Convert
  <2>1. scan # <<>> /\ scan' = Tail(scan)
    BY <1>5 DEF Convert
  <2>2. Pos(p) = 6
    <3>1. ~(Pos(p) < 4) /\ Pos(p) \notin 4 .. 5
      BY <1>2, <2>1 DEF AoAt
    <3> QED BY <1>3, <3>1
  <2>3. fifo = <<Shown(p)>> /\ Len(scan) = 1 /\ scan[1] = call[p].ch
    BY <1>2, <2>1, <2>2 DEF AoAt
  <2>4. side = "AO"
    BY <1>2 DEF BaseInv, CallFits, AoOps
  <2>5. /\ fifo' = Tail(fifo)
        /\ out' = [out EXCEPT ![Head(scan)] = Head(fifo).word]
    BY <1>5, <2>4 DEF Convert
  <2>6. scan \in Seq(Chan) /\ out \in [Chan -> Word] /\ call[p].ch \in Chan
    BY <1>2 DEF BaseInv, TypeOK, Call
  <2>7. Head(scan) = call[p].ch /\ scan' = <<>>
    BY <2>1, <2>3, <2>6
  <2>8. fifo' = <<>> /\ Head(fifo) = Shown(p)
    BY <2>3, <2>5
  <2>9. out'[call[p].ch] = Shown(p).word
    BY <2>5, <2>6, <2>7, <2>8
  <2>10. Pos(p)' = 6 /\ 6 \notin 4 .. 5 /\ ~(6 < 4)
    BY <1>2, <2>2
  <2>11. out'[call'[p].ch] = Shown(p)'.word
    BY <1>1, <1>2, <2>9
  <2> QED BY <2>7, <2>8, <2>10, <2>11 DEF AoAt
<1> QED BY <1>4, <1>5

LEMMA AoNext ==
  BaseInv /\ AloneInv /\ SettledInv /\ AoInv /\ [Next]_vars => AoInv'
<1> SUFFICES ASSUME BaseInv, AloneInv, SettledInv, AoInv, [Next]_vars
             PROVE  AoInv'
  OBVIOUS
<1>1. ASSUME NEW p \in Process, CallInit(p) \/ CallOther(p) PROVE AoInv'
  <2>1. PICK c \in Call : Begins(p, c)
    BY <1>1, BeginKinds
  <2>2. clean' \subseteq {p} /\ Pos(p)' = 0 /\ call'[p] = c
    BY <2>1, AloneBegin, Begun DEF Begins
  <2>3. /\ UNCHANGED <<fifo, scan>>
        /\ p \in clean' /\ c.op = "SingleAo" => fifo = <<>> /\ scan = <<>>
    BY <2>1 DEF Begins, Begin, AnalogCalls, device, analog
  <2> QED BY <2>2, <2>3 DEF AoInv, AoAt
<1>2. CASE UNCHANGED vars
  <2>1. UNCHANGED <<side, todo, call, clean, fifo, scan, out>>
    BY <1>2 DEF vars, device, analog, history, calls
  <2>2. \A p : Pos(p)' = Pos(p)
    BY <2>1, SameSteps DEF Pos
  <2> QED BY <2>1, <2>2 DEF AoInv, AoAt, Shown
<1> QED BY <1>1, <1>2, AoStep, AoDevice DEF Next

\* What a process that has the device to itself puts out is what the channel
\* shows when the device has taken it, whatever was set before, and however
\* long the device takes: the settings, the FIFO and the pulse of one call
\* belong together.
THEOREM OutputsShow == Spec => []OutputsAsAsked
<1>1. Init => AoInv
  BY DEF Init, AoInv
<1>2. BaseInv /\ AoInv => OutputsAsAsked
  <2> SUFFICES ASSUME BaseInv, AoInv, NEW p \in Process,
                      Done(p, {"SingleAo"}), fifo = <<>>
               PROVE  out[call[p].ch] = calc_DAC161S055(call[p].v)
    BY DEF OutputsAsAsked
  <2>1. p \in clean /\ todo[p] = <<>> /\ call[p].op = "SingleAo"
    BY DEF Done
  <2>2. Steps(p) = SingleAo
    BY <2>1 DEF Steps, StepsOf
  <2>3. Pos(p) = 6
    BY <2>1, <2>2, AtEnd, ShortCalls
  <2>4. <<Shown(p)>> # <<>>
    OBVIOUS
  <2>5. out[call[p].ch] = Shown(p).word
    BY <2>1, <2>3, <2>4 DEF AoInv, AoAt
  <2> QED BY <2>5 DEF Shown
<1> QED BY <1>1, <1>2, AoNext, AioBase, AloneAll, AllSettled, PTL DEF Spec

-----------------------------------------------------------------------------
(* What the samples are *)

\* The channel of the i-th sample.
ChanOf(p, i) ==
  IF call[p].op = "SingleAi" THEN call[p].ch ELSE (i - 1) % (call[p].ch + 1)

Mine(p, i) == [by |-> p, ch |-> ChanOf(p, i)]

\* Nothing has been converted for p.
Idle(p) == fifo = <<>> /\ scan = <<>> /\ got[p] = <<>>

\* What p was given, what waits in the FIFO and what is still to be converted
\* are the samples of one sampling of p, in their order.
Conserved(p) ==
  /\ Len(got[p]) + Len(fifo) + Len(scan) = Count(p)
  /\ \A i \in 1 .. Len(got[p]) : got[p][i] = Mine(p, i)
  /\ \A i \in 1 .. Len(fifo) : fifo[i] = Mine(p, Len(got[p]) + i)
  /\ \A i \in 1 .. Len(scan) : scan[i] = ChanOf(p, Len(got[p]) + Len(fifo) + i)
  /\ owner = p

LEMMA SeqTypes ==
  ASSUME BaseInv, NEW p \in Process
  PROVE  /\ got[p] \in Seq(Sample \cup Put) /\ fifo \in Seq(Sample \cup Put)
         /\ scan \in Seq(Chan)
         /\ Len(got[p]) \in Nat /\ Len(fifo) \in Nat /\ Len(scan) \in Nat
         /\ (fifo = <<>> <=> Len(fifo) = 0) /\ (scan = <<>> <=> Len(scan) = 0)
         /\ (got[p] = <<>> <=> Len(got[p]) = 0)
BY DEF BaseInv, TypeOK

\* Taking the first sample of the FIFO keeps the order.
LEMMA TakeKeeps ==
  ASSUME BaseInv, NEW p \in Process, Conserved(p), fifo # <<>>, TakeSample(p),
         UNCHANGED <<scan, owner, call>>
  PROVE  Conserved(p)' /\ Len(got'[p]) = Len(got[p]) + 1
<1> DEFINE g == got[p]
           f == fifo
           x == Head(f)
<1>1. /\ g \in Seq(Sample \cup Put) /\ f \in Seq(Sample \cup Put)
      /\ Len(g) \in Nat /\ Len(f) \in Nat \ {0} /\ Len(scan) \in Nat
      /\ got \in [Process -> Seq(Sample \cup Put)]
  BY SeqTypes DEF BaseInv, TypeOK
<1>2. got' = [got EXCEPT ![p] = Append(g, x)] /\ fifo' = Tail(f)
  BY DEF TakeSample
<1>3. x = f[1] /\ x \in Sample \cup Put
  BY <1>1
<1>4. got'[p] = Append(g, x)
  BY <1>1, <1>2
<1> HIDE DEF g, f, x
<1>5. /\ Len(got'[p]) = Len(g) + 1
      /\ \A i \in 1 .. Len(g) : got'[p][i] = g[i]
      /\ got'[p][Len(g) + 1] = x
  BY <1>1, <1>3, <1>4
<1>6. /\ Len(fifo') = Len(f) - 1
      /\ \A i \in 1 .. Len(f) - 1 : fifo'[i] = f[i + 1]
  BY <1>1, <1>2
<1>7. \A i : ChanOf(p, i)' = ChanOf(p, i) /\ Mine(p, i)' = Mine(p, i)
  BY DEF ChanOf, Mine
<1>8. /\ Len(g) + Len(f) + Len(scan) = Count(p)
      /\ \A i \in 1 .. Len(g) : g[i] = Mine(p, i)
      /\ \A i \in 1 .. Len(f) : f[i] = Mine(p, Len(g) + i)
      /\ \A i \in 1 .. Len(scan) : scan[i] = ChanOf(p, Len(g) + Len(f) + i)
      /\ owner = p
  BY DEF Conserved, g, f
<1>9. Len(got'[p]) + Len(fifo') + Len(scan') = Count(p)'
  <2>1. Count(p)' = Count(p) /\ scan' = scan
    BY DEF Count
  <2> QED BY <1>1, <1>5, <1>6, <1>8, <2>1
<1>10. ASSUME NEW i \in 1 .. Len(got'[p]) PROVE got'[p][i] = Mine(p, i)
  <2>1. i \in 1 .. Len(g) \/ i = Len(g) + 1
    BY <1>1, <1>5
  <2>2. 1 \in 1 .. Len(f)
    BY <1>1
  <2> QED BY <1>3, <1>5, <1>8, <2>1, <2>2
<1>11. ASSUME NEW i \in 1 .. Len(fifo')
       PROVE  fifo'[i] = Mine(p, Len(got'[p]) + i)
  <2>1. /\ i \in 1 .. Len(f) - 1 /\ i + 1 \in 1 .. Len(f)
        /\ Len(g) + (i + 1) = Len(got'[p]) + i
    BY <1>1, <1>5, <1>6
  <2> QED BY <1>6, <1>8, <2>1
<1>12. ASSUME NEW i \in 1 .. Len(scan')
       PROVE  scan'[i] = ChanOf(p, Len(got'[p]) + Len(fifo') + i)
  <2>1. /\ i \in 1 .. Len(scan) /\ scan' = scan
        /\ Len(g) + Len(f) + i = Len(got'[p]) + Len(fifo') + i
    BY <1>1, <1>5, <1>6
  <2> QED BY <1>8, <2>1
<1>13. owner' = p
  BY <1>8
<1>14. Conserved(p)'
  BY <1>7, <1>9, <1>10, <1>11, <1>12, <1>13 DEF Conserved
<1> QED BY <1>5, <1>14 DEF g

\* So does converting the next one.
LEMMA ConvertKeeps ==
  ASSUME BaseInv, NEW p \in Process, Conserved(p), side = "AI", Convert
  PROVE  Conserved(p)' /\ fifo' # <<>> /\ scan # <<>>
<1> DEFINE f == fifo
           s == scan
           g == got[p]
           x == [by |-> owner, ch |-> Head(s)]
<1>1. /\ g \in Seq(Sample \cup Put) /\ f \in Seq(Sample \cup Put)
      /\ s \in Seq(Chan) /\ s # <<>>
      /\ Len(g) \in Nat /\ Len(f) \in Nat /\ Len(s) \in Nat \ {0}
  BY SeqTypes DEF Convert
<1>2. fifo' = Append(f, x) /\ scan' = Tail(s)
  BY DEF Convert
<1>3. UNCHANGED <<got, call, owner>>
  BY DEF Convert, results, calls
<1>4. /\ Len(g) + Len(f) + Len(s) = Count(p)
      /\ \A i \in 1 .. Len(g) : g[i] = Mine(p, i)
      /\ \A i \in 1 .. Len(f) : f[i] = Mine(p, Len(g) + i)
      /\ \A i \in 1 .. Len(s) : s[i] = ChanOf(p, Len(g) + Len(f) + i)
      /\ owner = p
  BY DEF Conserved
<1>5. x = Mine(p, Len(g) + Len(f) + 1)
  <2>1. 1 \in 1 .. Len(s) /\ Head(s) = s[1]
    BY <1>1
  <2> QED BY <1>4, <2>1 DEF Mine
<1>6. x \in Sample \cup Put
  <2>1. Head(s) \in Chan
    BY <1>1
  <2> QED BY <1>4, <2>1 DEF Sample
<1> HIDE DEF f, s, g, x
<1>7. /\ Len(fifo') = Len(f) + 1 /\ fifo'[Len(f) + 1] = x
      /\ \A i \in 1 .. Len(f) : fifo'[i] = f[i]
  BY <1>1, <1>2, <1>6
<1>8. /\ Len(scan') = Len(s) - 1
      /\ \A i \in 1 .. Len(s) - 1 : scan'[i] = s[i + 1]
  BY <1>1, <1>2
<1>9. /\ \A i : ChanOf(p, i)' = ChanOf(p, i) /\ Mine(p, i)' = Mine(p, i)
      /\ Count(p)' = Count(p) /\ got'[p] = g
  BY <1>3 DEF ChanOf, Mine, Count, g
<1>10. Len(got'[p]) + Len(fifo') + Len(scan') = Count(p)'
  BY <1>1, <1>4, <1>7, <1>8, <1>9
<1>11. ASSUME NEW i \in 1 .. Len(fifo')
       PROVE  fifo'[i] = Mine(p, Len(got'[p]) + i)
  <2>1. /\ i \in 1 .. Len(f) \/ i = Len(f) + 1
        /\ Len(g) + (Len(f) + 1) = Len(g) + Len(f) + 1
    BY <1>1, <1>7
  <2> QED BY <1>4, <1>5, <1>7, <1>9, <2>1
<1>12. ASSUME NEW i \in 1 .. Len(scan')
       PROVE  scan'[i] = ChanOf(p, Len(got'[p]) + Len(fifo') + i)
  <2>1. /\ i \in 1 .. Len(s) - 1 /\ i + 1 \in 1 .. Len(s)
        /\ Len(g) + Len(f) + (i + 1) = Len(g) + (Len(f) + 1) + i
    BY <1>1, <1>8
  <2> QED BY <1>4, <1>7, <1>8, <1>9, <2>1
<1>13. owner' = p /\ \A i \in 1 .. Len(got'[p]) : got'[p][i] = Mine(p, i)
  BY <1>3, <1>4, <1>9
<1>14. Conserved(p)'
  BY <1>9, <1>10, <1>11, <1>12, <1>13 DEF Conserved
<1>15. fifo' # <<>>
  BY <1>1, <1>2, <1>6
<1> QED BY <1>1, <1>14, <1>15 DEF s

\* The pulse starts the conversions of the call.
LEMMA PulseStarts ==
  ASSUME BaseInv, NEW p \in Process, call[p].op \in AiOps, Idle(p),
         mode = (IF call[p].op = "SingleAi" THEN "single" ELSE "multi"),
         chan = call[p].ch, samp = call[p].n,
         scan' = Scans, owner' = p, UNCHANGED <<fifo, got, call>>
  PROVE  Conserved(p)'
<1>1. call[p].op # "Sampling" => call[p].n = 1
  BY DEF BaseInv, CallFits
<1>2. call[p].ch \in Nat /\ call[p].n \in Nat
  BY ZeroFits DEF BaseInv, TypeOK, Call
<1>3. /\ Len(Scans) = Count(p)
      /\ \A i \in 1 .. Len(Scans) : Scans[i] = ChanOf(p, i)
  <2>1. CASE call[p].op = "SingleAi"
    <3>1. Len(Scans) = 1 /\ Scans[1] = chan
      BY <1>1, <2>1, ScanChannels DEF BaseInv
    <3>2. \A i \in 1 .. 1 : i = 1
      OBVIOUS
    <3> QED BY <2>1, <3>1, <3>2 DEF Count, ChanOf
  <2>2. CASE call[p].op # "SingleAi"
    <3>1. /\ Len(Scans) = samp * (chan + 1)
          /\ \A i \in 1 .. samp * (chan + 1) :
               Scans[i] = (i - 1) % (chan + 1)
      BY <2>2, ScanChannels DEF BaseInv
    <3>2. samp * (chan + 1) = Count(p)
      <4>1. Count(p) = (chan + 1) * samp /\ chan \in Nat /\ samp \in Nat
        BY <1>2, <2>2 DEF Count
      <4> QED BY <4>1
    <3> QED BY <2>2, <3>1, <3>2 DEF ChanOf
  <2> QED BY <2>1, <2>2
<1>4. Count(p) \in Nat
  BY AiLength
<1>5. fifo' = <<>> /\ got'[p] = <<>> /\ Len(<<>>) = 0
  BY DEF Idle
<1>6. /\ Count(p)' = Count(p)
      /\ \A i : ChanOf(p, i)' = ChanOf(p, i) /\ Mine(p, i)' = Mine(p, i)
  BY DEF Count, ChanOf, Mine
<1>7. /\ Len(got'[p]) = 0 /\ Len(fifo') = 0 /\ Len(scan') = Count(p)
      /\ \A i \in 1 .. Len(scan') : scan'[i] = ChanOf(p, i)
  BY <1>3, <1>5
<1>8. \A i \in 1 .. Len(scan') : 0 + 0 + i = i
  BY <1>4, <1>7
<1>9. 0 + 0 + Count(p) = Count(p) /\ \A i : i \notin 1 .. 0
  BY <1>4
<1> QED BY <1>6, <1>7, <1>8, <1>9 DEF Conserved

\* How many samples p has been given at each place of its call, when a FIFO
\* cannot be empty and when every conversion has been made.
Progress(p) ==
  LET k == Pos(p)
      n == Count(p)
      l == Len(got[p])
  IN  IF call[p].op = "Sampling"
      THEN /\ k <= 8 => l = 0
           /\ k \in 8 .. 8 + 2 * n =>
                k = 8 + 2 * l \/ (k = 9 + 2 * l /\ fifo # <<>>)
           /\ k >= 8 + 2 * n => l = n
      ELSE /\ k <= 9 => l = 0
           /\ k \in 9 .. 9 + n => l = k - 9
           /\ k >= 9 + n => l = n
           /\ k >= 9 => scan = <<>>

AiAt(p) ==
  \/ Pos(p) <= 8 /\ Idle(p)
  \/ Pos(p) >= 6 /\ Conserved(p) /\ Progress(p)

AiInv == \A p \in clean : call[p].op \in AiOps => AiAt(p)

LEMMA StaysSo ==
  ASSUME NEW p, UNCHANGED <<scan, owner, fifo, got, call>>
  PROVE  /\ Idle(p)' = Idle(p) /\ Conserved(p)' = Conserved(p)
         /\ Count(p)' = Count(p)
BY DEF Idle, Conserved, Count, Mine, ChanOf

\* What has been converted before the samples are read.
LEMMA AiEarly ==
  ASSUME BaseInv, AloneInv, SettledInv, AiInv, NEW p \in Process, Step(p),
         p \in clean', call[p].op \in AiOps, Pos(p) < 8
  PROVE  AiAt(p)'
<1> DEFINE k == Pos(p)
           s == Steps(p)
           x == Head(todo[p])
<1>1. /\ p \in clean /\ k \in Nat /\ x = s[k + 1] /\ todo[p] # <<>>
      /\ k + 1 \in 1 .. Len(s) /\ call' = call
      /\ Pos(p)' = k + 1 \/ (k = 6 /\ Pos(p)' = 8)
  <2>1. call[p].op \in Converts
    BY DEF Converts
  <2> QED BY <2>1, CleanMoves
<1>2. Settled(p) /\ AiAt(p)
  BY <1>1 DEF SettledInv, AiInv, Converts
<1>3. /\ x \notin Movers => UNCHANGED <<scan, owner, fifo, got>>
      /\ x = "Pulse" =>
           /\ UNCHANGED <<fifo, got>>
           /\ (scan' = Scans /\ owner' = p) \/ UNCHANGED <<scan, owner>>
  BY <1>1, AnalogSteps DEF At
<1>4. /\ s[4] = "Start" /\ s[5] = "WaitReady" /\ s[6] = "Pulse"
      /\ s[7] = "WaitEnd" /\ s[8] = "Ack" /\ Count(p) \in Nat \ {0}
  BY AiLength
<1>5. /\ s[1] \in Setters \ {"SideInit"} /\ s[2] \in Setters \ {"SideInit"}
      /\ s[3] \in Setters \ {"SideInit"}
  <2>1. call[p].op \in Converts
    BY DEF Converts
  <2> QED BY <2>1, SetupSteps DEF Setters
<1>6. Len(got[p]) \in Nat /\ (got[p] = <<>> <=> Len(got[p]) = 0)
  BY SeqTypes
<1> HIDE DEF s, x, k
<1>7. CASE k < 5
  <2>1. x \notin Movers
    <3>1. k = 0 \/ k = 1 \/ k = 2 \/ k = 3 \/ k = 4
      BY <1>1, <1>7
    <3>2. x \in Setters \ {"SideInit"} \/ x = "Start" \/ x = "WaitReady"
      BY <1>1, <1>4, <1>5, <3>1
    <3> QED BY <3>2 DEF Movers, Setters
  <2>2. ~(k >= 6) /\ k' <= 8
    BY <1>1, <1>7 DEF k
  <2>3. Idle(p)
    BY <1>2, <2>2 DEF AiAt, k
  <2>4. Idle(p)'
    BY <1>1, <1>3, <2>1, <2>3, StaysSo
  <2> QED BY <2>2, <2>4 DEF AiAt, k
<1>8. CASE k = 5
  <2>1. x = "Pulse" /\ Pos(p)' = 6 /\ ~(k >= 6)
    BY <1>1, <1>4, <1>8
  <2>2. Idle(p)
    BY <1>2, <2>1 DEF AiAt, k
  <2>3. CASE UNCHANGED <<scan, owner>>
    <3>1. Idle(p)'
      BY <1>1, <1>3, <2>1, <2>2, <2>3, StaysSo
    <3> QED BY <2>1, <3>1 DEF AiAt
  <2>4. CASE scan' = Scans /\ owner' = p
    <3>1. k >= 1 /\ k >= 2 /\ k >= 3
      BY <1>8
    <3>2. /\ mode = (IF call[p].op = "SingleAi" THEN "single" ELSE "multi")
          /\ chan = call[p].ch /\ samp = call[p].n
      BY <1>2, <3>1 DEF Settled, k, AiOps
    <3>3. Conserved(p)'
      BY <1>1, <1>3, <2>1, <2>2, <2>4, <3>2, PulseStarts
    <3>4. got'[p] = <<>> /\ Len(<<>>) = 0 /\ Count(p)' = Count(p)
      BY <1>1, <1>3, <2>1, <2>2 DEF Idle, Count
    <3>5. Progress(p)'
      <4>1. /\ 6 \notin 8 .. 8 + 2 * Count(p) /\ ~(6 >= 8 + 2 * Count(p))
            /\ 6 \notin 9 .. 9 + Count(p) /\ ~(6 >= 9 + Count(p)) /\ ~(6 >= 9)
        BY <1>4
      <4> QED BY <2>1, <3>4, <4>1 DEF Progress
    <3> QED BY <2>1, <3>3, <3>5 DEF AiAt
  <2> QED BY <1>3, <2>1, <2>3, <2>4
<1>9. CASE k \in 6 .. 7
  <2>1. x \in {"WaitEnd", "Ack"} /\ Pos(p)' \in 7 .. 8
    <3>1. k = 6 \/ k = 7
      BY <1>9
    <3> QED BY <1>1, <1>4, <3>1
  <2>2. UNCHANGED <<scan, owner, fifo, got, call>>
    BY <1>1, <1>3, <2>1 DEF Movers
  <2>3. /\ Idle(p)' = Idle(p) /\ Conserved(p)' = Conserved(p)
        /\ Count(p)' = Count(p)
    BY <2>2, StaysSo
  <2>4. CASE Idle(p)
    BY <2>1, <2>3, <2>4 DEF AiAt
  <2>5. CASE Conserved(p) /\ Progress(p)
    <3>1. /\ Pos(p)' >= 6 /\ Pos(p)' <= 8 /\ Pos(p)' <= 9
          /\ Pos(p)' \notin 9 .. 9 + Count(p) /\ ~(Pos(p)' >= 9)
          /\ ~(Pos(p)' >= 9 + Count(p)) /\ ~(Pos(p)' >= 8 + 2 * Count(p))
          /\ Pos(p)' \in 8 .. 8 + 2 * Count(p) => Pos(p)' = 8 + 2 * 0
          /\ k <= 8 /\ k <= 9
      BY <1>4, <1>9, <2>1
    <3>2. Len(got[p]) = 0
      BY <2>5, <3>1 DEF Progress, k
    <3>3. Progress(p)'
      BY <2>2, <2>3, <3>1, <3>2 DEF Progress
    <3> QED BY <2>3, <2>5, <3>1, <3>3 DEF AiAt
  <2> QED BY <1>2, <2>4, <2>5 DEF AiAt
<1>10. k \in Nat /\ k < 8
  BY <1>1 DEF k
<1> QED BY <1>7, <1>8, <1>9, <1>10

\* A single or multi conversion waits until every sample is there, and then
\* takes one by one.
LEMMA ConversionReads ==
  ASSUME BaseInv, AloneInv, SettledInv, AiInv, NEW p \in Process, Step(p),
         p \in clean', call[p].op \in {"SingleAi", "MultiAi"}, Pos(p) >= 8
  PROVE  AiAt(p)'
<1> DEFINE k == Pos(p)
           s == Steps(p)
           x == Head(todo[p])
           n == Count(p)
           l == Len(got[p])
<1>1. /\ p \in clean /\ k \in 0 .. Len(s) - 1 /\ x = s[k + 1]
      /\ todo[p] # <<>> /\ call' = call
      /\ Pos(p)' = k + 1 \/ (k = 6 /\ Pos(p)' = 8)
  <2>1. call[p].op \in Converts
    BY DEF Converts, AiOps
  <2> QED BY <2>1, CleanMoves
<1>2. Settled(p) /\ AiAt(p)
  BY <1>1 DEF SettledInv, AiInv, Converts, AiOps
<1>3. /\ x \notin Movers => UNCHANGED <<scan, owner, fifo, got>>
      /\ x = "Stop" => scan' = <<>> /\ UNCHANGED <<owner, fifo, got>>
      /\ x = "InData" => TakeSample(p) /\ UNCHANGED <<scan, owner>>
      /\ x = "WaitMem" =>
           IF call[p].op = "MultiAi" THEN MultiReadable ELSE Readable
  BY <1>1, AnalogSteps DEF At
<1>4. IsConversion(s, n)
  BY ConversionCall
<1>5. /\ l \in Nat /\ Len(fifo) \in Nat /\ Len(scan) \in Nat
      /\ (fifo = <<>> <=> Len(fifo) = 0) /\ (scan = <<>> <=> Len(scan) = 0)
  BY SeqTypes
<1>6. call[p].op # "Sampling" /\ k >= 8
  OBVIOUS
<1>7. Conserved(p) => l + Len(fifo) + Len(scan) = n
  BY DEF Conserved
<1>8. Count(p)' = n
  BY <1>1 DEF Count
<1> HIDE DEF s, x, k, n, l
<1>9. n \in Nat \ {0} /\ Len(s) = n + 10
  BY <1>4 DEF IsConversion
<1>10. Pos(p)' = k + 1 /\ k \in 8 .. n + 9
  BY <1>1, <1>6, <1>9
<1>11. CASE k = 8
  <2>1. x = "WaitMem" /\ x \notin Movers
    BY <1>1, <1>4, <1>11 DEF IsConversion, Movers
  <2>2. k >= 2
    BY <1>11
  <2>3. chan = call[p].ch /\ call[p].ch \in Nat /\ call[p].n = 1
    BY <1>2, <1>6, <2>2, ZeroFits
       DEF Settled, k, BaseInv, TypeOK, Call, CallFits
  <2>4. ~Idle(p)
    <3> SUFFICES ASSUME fifo = <<>> PROVE FALSE
      BY DEF Idle
    <3>1. ~(Len(fifo) > chan)
      BY <1>5, <2>3
    <3> QED BY <1>3, <2>1, <3>1 DEF MultiReadable, Readable
  <2>5. Conserved(p) /\ Progress(p)
    BY <1>2, <2>4 DEF AiAt
  <2>6. l = 0
    <3>1. k <= 9
      BY <1>11
    <3> QED BY <1>6, <2>5, <3>1 DEF Progress, k, l
  <2>7. Len(fifo) >= n
    <3>1. CASE call[p].op = "SingleAi"
      <4>1. n = 1 /\ fifo # <<>>
        BY <1>3, <2>1, <3>1 DEF Count, n, Readable
      <4> QED BY <1>5, <4>1
    <3>2. CASE call[p].op = "MultiAi"
      <4>1. Count(p) = (call[p].ch + 1) * 1 /\ Len(fifo) > call[p].ch
        BY <1>3, <2>1, <2>3, <3>2 DEF Count, MultiReadable
      <4>2. n = call[p].ch + 1
        BY <2>3, <4>1 DEF n
      <4> QED BY <1>5, <2>3, <4>1, <4>2
    <3> QED BY <3>1, <3>2
  <2>8. scan = <<>>
    BY <1>5, <1>7, <1>9, <2>5, <2>6, <2>7
  <2>9. UNCHANGED <<scan, owner, fifo, got>>
    BY <1>3, <2>1
  <2>10. Conserved(p)'
    BY <1>1, <2>5, <2>9, StaysSo
  <2>11. Pos(p)' = 9 /\ Len(got'[p]) = 0 /\ scan' = <<>>
    BY <1>10, <1>11, <2>6, <2>8, <2>9 DEF l
  <2>12. Progress(p)'
    <3>1. ~(9 >= 9 + n) /\ 0 = 9 - 9 /\ ~(9 <= 8)
      BY <1>9
    <3> QED BY <1>1, <1>6, <1>8, <2>11, <3>1 DEF Progress
  <2>13. Pos(p)' >= 6
    BY <2>11
  <2> QED BY <2>10, <2>12, <2>13 DEF AiAt
<1>12. CASE k > 8
  <2>1. ~(k <= 8) /\ k \in 9 .. 9 + n /\ k >= 9
    BY <1>9, <1>10, <1>12
  <2>2. Conserved(p) /\ Progress(p)
    BY <1>2, <2>1 DEF AiAt, k
  <2>3. l = k - 9 /\ scan = <<>>
    BY <1>6, <2>1, <2>2 DEF Progress, k, l, n
  <2>4. Pos(p)' = k + 1 /\ Pos(p)' >= 6 /\ Pos(p)' >= 9 /\ ~(Pos(p)' <= 9)
    BY <1>10, <2>1
  <2>5. CASE k < 9 + n
    <3>1. x = "InData"
      <4>1. k - 8 \in 1 .. n /\ 9 + (k - 8) = k + 1
        BY <1>9, <2>1, <2>5
      <4>2. s[9 + (k - 8)] = "InData"
        BY <1>4, <4>1 DEF IsConversion
      <4> QED BY <1>1, <4>1, <4>2
    <3>2. fifo # <<>>
      <4>1. Len(fifo) # 0
        BY <1>5, <1>7, <1>9, <2>1, <2>2, <2>3, <2>5
      <4> QED BY <1>5, <4>1
    <3>3. Conserved(p)' /\ Len(got'[p]) = l + 1 /\ scan' = <<>>
      BY <1>1, <1>3, <2>2, <2>3, <3>1, <3>2, TakeKeeps DEF l
    <3>4. Len(got'[p]) = (k + 1) - 9 /\ (k + 1 >= 9 + n => Len(got'[p]) = n)
      BY <1>9, <2>1, <2>3, <2>5, <3>3
    <3>5. Progress(p)'
      BY <1>1, <1>6, <1>8, <2>4, <3>3, <3>4 DEF Progress
    <3> QED BY <2>4, <3>3, <3>5 DEF AiAt
  <2>6. CASE k = 9 + n
    <3>1. x = "Stop"
      <4>1. k + 1 = n + 10
        BY <1>9, <2>6
      <4> QED BY <1>1, <1>4, <4>1 DEF IsConversion
    <3>2. UNCHANGED <<scan, owner, fifo, got>>
      BY <1>3, <2>3, <3>1
    <3>3. Conserved(p)'
      BY <1>1, <2>2, <3>2, StaysSo
    <3>4. k + 1 \notin 9 .. 9 + n /\ l = n
      BY <1>9, <2>3, <2>6
    <3>5. Progress(p)'
      BY <1>1, <1>6, <1>8, <2>3, <2>4, <3>2, <3>4 DEF Progress, l
    <3> QED BY <2>4, <3>3, <3>5 DEF AiAt
  <2> QED BY <1>9, <2>1, <2>5, <2>6
<1> QED BY <1>10, <1>11, <1>12

\* A sampling takes each sample as soon as it is there.
LEMMA SamplingReads ==
  ASSUME BaseInv, AloneInv, SettledInv, AiInv, NEW p \in Process, Step(p),
         p \in clean', call[p].op = "Sampling", Pos(p) >= 8
  PROVE  AiAt(p)'
<1> DEFINE k == Pos(p)
           s == Steps(p)
           x == Head(todo[p])
           n == Count(p)
           l == Len(got[p])
<1>1. /\ p \in clean /\ k \in 0 .. Len(s) - 1 /\ x = s[k + 1]
      /\ todo[p] # <<>> /\ call' = call
      /\ Pos(p)' = k + 1 \/ (k = 6 /\ Pos(p)' = 8)
  <2>1. call[p].op \in Converts
    BY DEF Converts, AiOps
  <2> QED BY <2>1, CleanMoves
<1>2. AiAt(p)
  BY <1>1 DEF AiInv, AiOps
<1>3. /\ x \notin Movers => UNCHANGED <<scan, owner, fifo, got>>
      /\ x = "Stop" => scan' = <<>> /\ UNCHANGED <<owner, fifo, got>>
      /\ x = "ReadData" => TakeSample(p) /\ UNCHANGED <<scan, owner>>
      /\ x = "ReadWait" => fifo # <<>> /\ UNCHANGED <<scan, owner, fifo, got>>
  BY <1>1, AnalogSteps DEF At
<1>4. IsSampling(s, n)
  BY SamplingCall
<1>5. /\ l \in Nat /\ Len(fifo) \in Nat /\ Len(scan) \in Nat
      /\ (fifo = <<>> <=> Len(fifo) = 0) /\ (scan = <<>> <=> Len(scan) = 0)
  BY SeqTypes
<1>6. k >= 8
  OBVIOUS
<1>7. Conserved(p) => l + Len(fifo) + Len(scan) = n
  BY DEF Conserved
<1>8. Count(p)' = n
  BY <1>1 DEF Count
<1> HIDE DEF s, x, k, n, l
<1>9. n \in Nat \ {0} /\ Len(s) = 2 * n + 17
  BY <1>4 DEF IsSampling
<1>10. Pos(p)' = k + 1 /\ k \in 8 .. 2 * n + 16
  BY <1>1, <1>6, <1>9
<1>11. Pos(p)' >= 6 /\ ~(Pos(p)' <= 8)
  BY <1>10
<1>12. CASE k < 8 + 2 * n
  <2>1. k - 7 \in 1 .. 2 * n /\ 8 + (k - 7) = k + 1
    BY <1>9, <1>10, <1>12
  <2>2. x = IF (k - 7) % 2 = 1 THEN "ReadWait" ELSE "ReadData"
    BY <1>1, <1>4, <2>1 DEF IsSampling
  <2>3. CASE (k - 7) % 2 = 1
    <3>1. fifo # <<>> /\ UNCHANGED <<scan, owner, fifo, got>>
      BY <1>3, <2>2, <2>3
    <3>2. Conserved(p) /\ Progress(p)
      BY <1>2, <3>1 DEF AiAt, Idle
    <3>3. k = 8 + 2 * l \/ (k = 9 + 2 * l /\ fifo # <<>>)
      <4>1. k \in 8 .. 8 + 2 * n
        BY <1>9, <1>10, <1>12
      <4> QED BY <3>2, <4>1 DEF Progress, k, l, n
    <3>4. k = 8 + 2 * l
      BY <1>5, <1>10, <2>3, <3>3
    <3>5. k + 1 = 9 + 2 * l /\ ~(k + 1 >= 8 + 2 * n)
      BY <1>5, <1>9, <1>12, <3>4
    <3>6. Conserved(p)'
      BY <1>1, <3>1, <3>2, StaysSo
    <3>7. Len(got'[p]) = l
      BY <3>1 DEF l
    <3>8. Progress(p)'
      BY <1>1, <1>8, <1>10, <1>11, <3>1, <3>5, <3>7 DEF Progress
    <3> QED BY <1>11, <3>6, <3>8 DEF AiAt
  <2>4. CASE (k - 7) % 2 # 1
    <3>1. x = "ReadData" /\ ~(k <= 8) /\ k # 8
      <4>1. k # 8
        BY <2>4
      <4> QED BY <1>10, <2>2, <2>4, <4>1
    <3>2. Conserved(p) /\ Progress(p)
      BY <1>2, <3>1 DEF AiAt, k
    <3>3. k = 8 + 2 * l \/ (k = 9 + 2 * l /\ fifo # <<>>)
      <4>1. k \in 8 .. 8 + 2 * n
        BY <1>9, <1>10, <1>12
      <4> QED BY <3>2, <4>1 DEF Progress, k, l, n
    <3>4. k = 9 + 2 * l /\ fifo # <<>>
      <4>1. k # 8 + 2 * l
        BY <1>5, <1>10, <2>4
      <4> QED BY <3>3, <4>1
    <3>5. Conserved(p)' /\ Len(got'[p]) = l + 1
      BY <1>1, <1>3, <3>1, <3>2, <3>4, TakeKeeps DEF l
    <3>6. /\ k + 1 = 8 + 2 * (l + 1)
          /\ k + 1 >= 8 + 2 * n => l + 1 = n
      BY <1>5, <1>9, <1>12, <3>4
    <3>7. Progress(p)'
      BY <1>1, <1>8, <1>10, <1>11, <3>5, <3>6 DEF Progress
    <3> QED BY <1>11, <3>5, <3>7 DEF AiAt
  <2> QED BY <2>3, <2>4
<1>13. CASE k >= 8 + 2 * n
  <2>1. ~(k <= 8) /\ k + 1 \notin 8 .. 8 + 2 * n
    BY <1>9, <1>10, <1>13
  <2>2. Conserved(p) /\ Progress(p)
    BY <1>2, <2>1 DEF AiAt, k
  <2>3. l = n
    BY <1>13, <2>2 DEF Progress, k, l, n
  <2>4. scan = <<>>
    BY <1>5, <1>7, <1>9, <2>2, <2>3
  <2>5. UNCHANGED <<scan, owner, fifo, got>>
    <3>1. CASE k = 2 * n + 16
      <4>1. k + 1 = 2 * n + 17
        BY <1>9, <3>1
      <4>2. x = "Stop"
        BY <1>1, <1>4, <4>1 DEF IsSampling
      <4> QED BY <1>3, <2>4, <4>2
    <3>2. CASE k # 2 * n + 16
      <4> DEFINE j == k - (2 * n + 7)
      <4>1. j \in 1 .. 8 /\ 2 * n + 8 + j = k + 1
        BY <1>9, <1>10, <1>13, <3>2
      <4> HIDE DEF j
      <4>2. x = AckFlags[j]
        BY <1>1, <1>4, <4>1 DEF IsSampling
      <4>3. \/ j = 1 \/ j = 2 \/ j = 3 \/ j = 4
            \/ j = 5 \/ j = 6 \/ j = 7 \/ j = 8
        BY <4>1
      <4>4. x \notin Movers
        BY <4>2, <4>3, AckSteps DEF Movers
      <4> QED BY <1>3, <4>4
    <3> QED BY <3>1, <3>2
  <2>6. Conserved(p)'
    BY <1>1, <2>2, <2>5, StaysSo
  <2>7. Progress(p)'
    BY <1>1, <1>8, <1>10, <1>11, <2>1, <2>3, <2>5 DEF Progress, l
  <2> QED BY <1>11, <2>6, <2>7 DEF AiAt
<1> QED BY <1>9, <1>10, <1>12, <1>13

LEMMA AiDevice ==
  ASSUME BaseInv, AiInv, Device
  PROVE  AiInv'
<1>1. UNCHANGED <<side, todo, call, clean, got>>
  BY DeviceTypes
<1> SUFFICES ASSUME NEW p \in clean, call[p].op \in AiOps PROVE AiAt(p)'
  BY <1>1 DEF AiInv
<1>2. /\ p \in Process /\ AiAt(p) /\ Pos(p)' = Pos(p)
      /\ Count(p)' = Count(p)
  BY <1>1, SameSteps DEF Pos, BaseInv, TypeOK, AiInv, Count
<1>3. CASE ~Convert
  <2>1. UNCHANGED <<scan, fifo, owner>>
    BY <1>3 DEF Device, GateOpens, CalibrationDone, Isr, analog
  <2>2. Idle(p)' = Idle(p) /\ Conserved(p)' = Conserved(p)
    BY <1>1, <2>1, StaysSo
  <2>3. Progress(p)' = Progress(p)
    BY <1>1, <1>2, <2>1 DEF Progress
  <2> QED BY <1>2, <2>2, <2>3 DEF AiAt
<1>4. CASE Convert
  <2>1. side = "AI"
    BY <1>2 DEF BaseInv, CallFits
  <2>2. scan # <<>>
    BY <1>4 DEF Convert
  <2>3. Pos(p) >= 6 /\ Conserved(p) /\ Progress(p)
    BY <1>2, <2>2 DEF AiAt, Idle
  <2>4. Conserved(p)' /\ fifo' # <<>>
    BY <1>2, <1>4, <2>1, <2>3, ConvertKeeps
  <2>5. Progress(p)'
    <3>1. CASE call[p].op = "Sampling"
      BY <1>1, <1>2, <2>3, <2>4, <3>1 DEF Progress
    <3>2. CASE call[p].op # "Sampling"
      <4>1. ~(Pos(p) >= 9)
        BY <2>2, <2>3, <3>2 DEF Progress
      <4> QED BY <1>1, <1>2, <2>3, <3>2, <4>1 DEF Progress
    <3> QED BY <3>1, <3>2
  <2> QED BY <1>2, <2>3, <2>4, <2>5 DEF AiAt
<1> QED BY <1>3, <1>4

LEMMA AiNext ==
  BaseInv /\ AloneInv /\ SettledInv /\ AiInv /\ [Next]_vars => AiInv'
<1> SUFFICES ASSUME BaseInv, AloneInv, SettledInv, AiInv, [Next]_vars
             PROVE  AiInv'
  OBVIOUS
<1>1. ASSUME NEW p \in Process, Step(p) PROVE AiInv'
  <2>1. call' = call /\ clean' \subseteq {p}
    BY <1>1, StepMoves, AloneStep
  <2> SUFFICES ASSUME p \in clean', call[p].op \in AiOps PROVE AiAt(p)'
    BY <2>1 DEF AiInv
  <2>2. Pos(p) \in Nat
    BY AtEnd
  <2>3. Pos(p) < 8 \/ Pos(p) >= 8
    BY <2>2
  <2> QED BY <1>1, <2>3, AiEarly, ConversionReads, SamplingReads DEF AiOps
<1>2. ASSUME NEW p \in Process, CallInit(p) \/ CallOther(p) PROVE AiInv'
  <2>1. PICK c \in Call : Begins(p, c)
    BY <1>2, BeginKinds
  <2>2. /\ clean' \subseteq {p} /\ Pos(p)' = 0 /\ call'[p] = c
        /\ got'[p] = <<>>
    BY <2>1, AloneBegin, Begun DEF Begins
  <2>3. /\ UNCHANGED <<fifo, scan>>
        /\ p \in clean' /\ c.op \in AiOps => fifo = <<>> /\ scan = <<>>
    BY <2>1 DEF Begins, Begin, AnalogCalls, AiOps, device, analog
  <2> QED BY <2>2, <2>3 DEF AiInv, AiAt, Idle
<1>3. CASE UNCHANGED vars
  <2>1. UNCHANGED <<side, todo, call, clean, scan, owner, fifo, got>>
    BY <1>3 DEF vars, device, analog, history, calls, results
  <2>2. \A p : Pos(p)' = Pos(p) /\ Count(p)' = Count(p)
    BY <2>1, SameSteps DEF Pos, Count
  <2>3. \A p : Idle(p)' = Idle(p) /\ Conserved(p)' = Conserved(p)
    BY <2>1, StaysSo
  <2>4. \A p : AiAt(p)' = AiAt(p)
    BY <2>1, <2>2, <2>3 DEF AiAt, Progress
  <2> QED BY <2>1, <2>4 DEF AiInv
<1> QED BY <1>1, <1>2, <1>3, AiDevice DEF Next

\* A call that has ended was given as many samples as it asked for, the right
\* ones in the right order.
LEMMA AiDone ==
  ASSUME BaseInv, AiInv, NEW p \in Process, Done(p, AiOps)
  PROVE  got[p] = Wanted(p)
<1> DEFINE c == call[p]
           n == Count(p)
<1>1. p \in clean /\ todo[p] = <<>> /\ c.op \in AiOps
  BY DEF Done
<1>2. /\ Pos(p) = Len(Steps(p)) /\ Len(Steps(p)) \in Nat
      /\ n \in Nat \ {0}
  BY <1>1, AtEnd, AiLength
<1>3. Len(Steps(p)) = IF c.op = "Sampling" THEN 2 * n + 17 ELSE n + 10
  <2>1. CASE c.op = "Sampling"
    BY <2>1, SamplingCall DEF IsSampling
  <2>2. CASE c.op \in {"SingleAi", "MultiAi"}
    BY <2>2, ConversionCall DEF IsConversion
  <2> QED BY <1>1, <2>1, <2>2 DEF AiOps
<1>4. /\ ~(Pos(p) <= 8)
      /\ c.op = "Sampling" => Pos(p) >= 8 + 2 * n
      /\ c.op # "Sampling" => Pos(p) >= 9 + n
  <2> HIDE DEF n
  <2> QED BY <1>2, <1>3
<1>5. Conserved(p) /\ Progress(p)
  BY <1>1, <1>4 DEF AiInv, AiAt
<1>6. Len(got[p]) = n
  BY <1>4, <1>5 DEF Progress
<1>7. \A i \in 1 .. n : got[p][i] = Mine(p, i)
  BY <1>5, <1>6 DEF Conserved
<1>8. got[p] \in Seq(Sample \cup Put)
  BY SeqTypes
<1>9. got[p] = [i \in 1 .. n |-> Mine(p, i)]
  <2> DEFINE g == got[p]
  <2>1. g \in [1 .. n -> Sample \cup Put]
    BY <1>6, <1>8
  <2> HIDE DEF g, n
  <2> QED BY <1>7, <2>1 DEF g
<1>10. CASE c.op = "SingleAi"
  <2>1. n = 1
    BY <1>10 DEF Count
  <2>2. Wanted(p) = <<[by |-> p, ch |-> c.ch]>>
    BY <1>10 DEF Wanted
  <2>3. \A i : Mine(p, i) = [by |-> p, ch |-> c.ch]
    BY <1>10 DEF Mine, ChanOf
  <2>4. got[p] = [i \in 1 .. 1 |-> [by |-> p, ch |-> c.ch]]
    BY <1>9, <2>1, <2>3
  <2> QED BY <2>2, <2>4
<1>11. CASE c.op = "MultiAi"
  <2>1. n = c.ch + 1
    <3>1. n = (c.ch + 1) * c.n
      BY <1>11 DEF Count
    <3>2. c.n = 1 /\ c.ch \in Nat
      BY <1>11, ZeroFits DEF BaseInv, TypeOK, Call, CallFits
    <3> HIDE DEF c, n
    <3> QED BY <3>1, <3>2
  <2>2. Wanted(p) = [i \in 1 .. (c.ch + 1) |-> [by |-> p, ch |-> i - 1]]
    BY <1>11 DEF Wanted
  <2>3. ASSUME NEW i \in 1 .. c.ch + 1
        PROVE  Mine(p, i) = [by |-> p, ch |-> i - 1]
    <3>1. ChanOf(p, i) = (i - 1) % (c.ch + 1) /\ c.ch \in Nat
      BY <1>11, ZeroFits DEF ChanOf, BaseInv, TypeOK, Call
    <3>2. (i - 1) % (c.ch + 1) = i - 1
      <4> DEFINE m == c.ch
      <4>1. m \in Nat /\ i \in 1 .. m + 1
        BY <3>1
      <4> HIDE DEF m
      <4>2. i - 1 \in Nat /\ i - 1 < m + 1 /\ m + 1 \in Nat \ {0}
        BY <4>1
      <4>3. (i - 1) % (m + 1) = i - 1
        BY <4>2
      <4> QED BY <4>3 DEF m
    <3> QED BY <3>1, <3>2 DEF Mine
  <2> QED BY <1>9, <2>1, <2>2, <2>3
<1>12. CASE c.op = "Sampling"
  <2>1. n = (c.ch + 1) * c.n
    BY <1>12 DEF Count
  <2>2. Wanted(p) = [i \in 1 .. ((c.ch + 1) * c.n) |->
                       [by |-> p, ch |-> (i - 1) % (c.ch + 1)]]
    BY <1>12 DEF Wanted
  <2>3. \A i : Mine(p, i) = [by |-> p, ch |-> (i - 1) % (c.ch + 1)]
    BY <1>12 DEF Mine, ChanOf
  <2> QED BY <1>9, <2>1, <2>2, <2>3
<1> QED BY <1>1, <1>10, <1>11, <1>12 DEF AiOps

\* Whichever way the polls end, for any number of processes, channels and
\* samples: a process that had the input to itself and whose waits for the
\* memory did not run out returns with exactly its own samples.  What keeps it
\* so is that FIFO and pending conversions always make up the rest of the
\* sampling that the process itself started.
THEOREM SamplesAreOwn == Spec => []SampleIsOwn
<1>1. Init => AiInv
  BY DEF Init, AiInv
<1>2. BaseInv /\ AiInv => SampleIsOwn
  BY AiDone DEF SampleIsOwn, AiOps
<1> QED BY <1>1, <1>2, AiNext, AioBase, AloneAll, AllSettled, PTL DEF Spec
=============================================================================
