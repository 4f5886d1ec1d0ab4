--------------------------- MODULE CCLSync_proofs ---------------------------
(***************************************************************************)
(* The delay stays about the rate, dropped packets apart and the video not *)
(* far behind the audio, for every rate, stream and audio.                 *)
(***************************************************************************)
EXTENDS CCLSync, TLAPS

USE SyncAssumption

\* What the video is given of a stream.
LEMMA Given ==
    ASSUME input \in Inputs
    PROVE  /\ Rate \in Nat /\ Frame \in Nat /\ frameratebig \in BOOLEAN
           /\ Group \in Seq(Packet) /\ Len(Group) \in Nat \ {0}
           /\ input.costs \subseteq Nat /\ input.offsets \subseteq Int
<1>1. input \in Input
  OBVIOUS
<1>2. /\ Rate \in Nat /\ Frame \in Nat /\ frameratebig \in BOOLEAN
      /\ Group \in Seq(Packet) \ {<<>>}
      /\ input.costs \in SUBSET Nat /\ input.offsets \in SUBSET Int
  BY <1>1 DEF Input, Rate, Frame, frameratebig, Group
<1>3. \A g \in Seq(Packet) \ {<<>>} : Len(g) \in Nat \ {0}
  OBVIOUS
<1>4. QED
  BY <1>2, <1>3

\* The bounds of a delay are whole numbers of units, and in order.
LEMMA Bounds ==
    ASSUME input \in Inputs
    PROVE  /\ Milli(Rate \div 2) \in Nat /\ Milli(Rate * 2) \in Nat /\ Milli(Rate) \in Nat
           /\ Milli((Rate \div 3) * 2) \in Nat
           /\ Milli(Rate \div 2) <= Milli(Rate) /\ Milli(Rate) <= Milli(Rate * 2)
           /\ Milli((Rate \div 3) * 2) <= Milli(Rate * 2)
           /\ Milli((Rate \div 3) * 2) = 0 \/ Milli(Rate \div 2) <= Milli((Rate \div 3) * 2)
<1>0. Rate \in Nat
  BY Given
<1> DEFINE half == Rate \div 2
           third == (Rate \div 3) * 2
<1>1. /\ half \in Nat /\ third \in Nat /\ Rate * 2 \in Nat
      /\ half <= Rate /\ Rate <= Rate * 2 /\ third <= Rate * 2
      /\ third = 0 \/ half <= third
  BY <1>0
<1>2. \A a, b \in Nat : a * Ms \in Nat /\ (a <= b => a * Ms <= b * Ms)
  OBVIOUS
<1>3. 0 * Ms = 0
  OBVIOUS
<1> HIDE DEF half, third
<1>4. /\ Milli(half) \in Nat /\ Milli(Rate * 2) \in Nat /\ Milli(Rate) \in Nat
      /\ Milli(third) \in Nat
      /\ Milli(half) <= Milli(Rate) /\ Milli(Rate) <= Milli(Rate * 2)
      /\ Milli(third) <= Milli(Rate * 2)
      /\ Milli(third) = 0 \/ Milli(half) <= Milli(third)
  BY <1>0, <1>1, <1>2, <1>3, Zenon DEF Milli
<1>5. QED
  BY <1>4 DEF half, third

\* A delay put back within its bounds is within them.
LEMMA WithinBounds ==
    ASSUME input \in Inputs, NEW delay \in Nat
    PROVE  Within(delay) = 0 \/ Within(delay) \in Milli(Rate \div 2)..Milli(Rate * 2)
<1> HIDE DEF Milli
<1>1. QED
  BY Bounds DEF Within

\* Whatever the lag, the delay is none or between half and twice the rate.
LEMMA DelayOf ==
    ASSUME input \in Inputs, delayTime \in Nat, DelayBounded, NEW lag \in Int
    PROVE  getDelayTime(lag) = 0 \/ getDelayTime(lag) \in Milli(Rate \div 2)..Milli(Rate * 2)
<1>1. (delayTime * 2) \div 3 \in Nat /\ (delayTime * 3) \div 2 \in Nat
  OBVIOUS
<1>2. /\ Within((delayTime * 2) \div 3) = 0
           \/ Within((delayTime * 2) \div 3) \in Milli(Rate \div 2)..Milli(Rate * 2)
      /\ Within((delayTime * 3) \div 2) = 0
           \/ Within((delayTime * 3) \div 2) \in Milli(Rate \div 2)..Milli(Rate * 2)
  BY <1>1, WithinBounds
<1>3. /\ Milli(Rate) \in Milli(Rate \div 2)..Milli(Rate * 2)
      /\ Milli(Rate * 2) \in Milli(Rate \div 2)..Milli(Rate * 2)
  BY Bounds
<1> DEFINE Ok(d) == d = 0 \/ d \in Milli(Rate \div 2)..Milli(Rate * 2)
<1>4. Ok(Pace(lag))
  <2>1. Pace(lag) \in {Within((delayTime * 2) \div 3), Within((delayTime * 3) \div 2),
                       Milli(Rate), delayTime}
    <3> HIDE DEF Milli, Within
    <3>1. QED
      BY SMT DEF Pace
  <2>2. QED
    BY <1>2, <1>3, <2>1, Zenon DEF DelayBounded
<1>5. getDelayTime(lag) \in {Milli(Rate), 0, Milli(Rate * 2), Pace(lag)}
  <2> HIDE DEF Milli, Pace, Apart
  <2>1. QED
    BY SMT DEF getDelayTime
<1>6. QED
  BY <1>3, <1>4, <1>5, Zenon

-----------------------------------------------------------------------------
\* What playcount says of the packets since one was dropped.
Counting ==
    frameratebig =>
        /\ sinceDrop = 0 => playcount >= 0 /\ playcount % 3 = 0
        /\ sinceDrop = 1 => playcount >= 0 /\ playcount % 3 = 1

SyncInv == TypeOK /\ DelayBounded /\ Counting

\* Taking a packet keeps the place in the group and moves the clock by whole frames.
LEMMA Taken ==
    ASSUME TypeOK, Take(Group[next])
    PROVE  /\ Advance(Group[next]) \in Int /\ Lag(Group[next]) \in Int
           /\ next' \in 1..Len(Group) /\ clock' \in Int /\ input' = input
<1>1. /\ Group[next].pts \in Int /\ Group[next].dts \in Int
      /\ next \in 1..Len(Group) /\ Len(Group) \in Nat \ {0} /\ Frame \in Nat
      /\ clock \in Int /\ diff \in Int
  <2>1. /\ next \in 1..Len(Group) /\ Len(Group) \in Nat \ {0} /\ Group \in Seq(Packet)
        /\ clock \in Int /\ diff \in Int /\ Frame \in Nat
    BY Given DEF TypeOK
  <2>2. Group[next] \in Packet
    BY <2>1
  <2>3. QED
    BY <2>1, <2>2 DEF Packet
<1>2. Time(Group[next]) \in Int
  BY <1>1 DEF Time
<1>3. Advance(Group[next]) \in Int
  BY <1>1, <1>2 DEF Advance, Larger
<1>4. Lag(Group[next]) \in Int
  BY <1>1, <1>3 DEF Lag
<1>5. next' \in 1..Len(Group) /\ input' = input
  BY <1>1 DEF Take
<1>6. clock' \in Int
  BY <1>1, <1>3 DEF Take
<1>7. QED
  BY <1>3, <1>4, <1>5, <1>6

\* playcount counts on, and is 0 again only after a number that 3 divides with 2 left.
LEMMA CountedOn ==
    ASSUME playcount \in -1..PlayWrap
    PROVE  /\ Counted \in 0..PlayWrap
           /\ playcount >= 0 /\ playcount % 3 = 0 => Counted % 3 = 1
           /\ playcount >= 0 /\ playcount % 3 = 1 => Counted % 3 = 2
<1>1. CASE playcount + 1 > PlayWrap
  BY <1>1 DEF Counted
<1>2. CASE ~(playcount + 1 > PlayWrap)
  BY <1>2 DEF Counted
<1>3. QED
  BY <1>1, <1>2

THEOREM SyncInit == Init => SyncInv
<1> SUFFICES ASSUME Init PROVE SyncInv
  OBVIOUS
<1>1. Len(Group) \in Nat \ {0} /\ input.offsets \subseteq Int
  BY Given DEF Init
<1>2. TypeOK
  BY <1>1 DEF Init, TypeOK
<1>3. DelayBounded /\ Counting
  BY DEF Init, DelayBounded, Counting
<1>4. QED
  BY <1>2, <1>3 DEF SyncInv

LEMMA DropStep ==
    ASSUME SyncInv, Drop
    PROVE  SyncInv' /\ (frameratebig => sinceDrop = 2)
<1> USE DEF SyncInv
<1>1. /\ diff' = Lag(Group[next]) /\ playcount' = Counted /\ sinceDrop' = 0
      /\ delayTime' = delayTime /\ Take(Group[next])
  BY DEF Drop
<1>2. /\ Lag(Group[next]) \in Int /\ next' \in 1..Len(Group) /\ clock' \in Int /\ input' = input
  BY <1>1, Taken
<1>3. /\ playcount \in -1..PlayWrap /\ delayTime \in Nat /\ sinceDrop \in 0..2
      /\ input \in Inputs /\ frameratebig \in BOOLEAN
  BY Given DEF TypeOK
<1>4. TypeOK'
  BY <1>1, <1>2, <1>3, CountedOn DEF TypeOK, Group
<1>5. DelayBounded'
  BY <1>1, <1>2 DEF DelayBounded, Milli, Rate
<1>6. frameratebig => Counted % 3 = 0
  BY DEF Drop, Late
<1>7. Counting'
  BY <1>1, <1>2, <1>3, <1>6, CountedOn DEF Counting, frameratebig
<1>8. frameratebig => sinceDrop = 2
  BY <1>3, <1>6, CountedOn DEF Counting, frameratebig
<1>9. QED
  BY <1>4, <1>5, <1>7, <1>8

LEMMA ShowStep ==
    ASSUME SyncInv, Show
    PROVE  SyncInv' /\ sinceDrop' # 0
<1> USE DEF SyncInv
<1>1. PICK cost \in input.costs :
        diff' = Lag(Group[next]) + (IF input.audioRuns THEN delayTime' + cost ELSE 0)
  BY DEF Show
<1>2. /\ delayTime' = getDelayTime(Lag(Group[next])) /\ playcount' = Counted
      /\ sinceDrop' = (IF sinceDrop < 2 THEN sinceDrop + 1 ELSE 2) /\ Take(Group[next])
  BY DEF Show
<1>3. /\ Lag(Group[next]) \in Int /\ next' \in 1..Len(Group) /\ clock' \in Int /\ input' = input
  BY <1>2, Taken
<1>4. /\ playcount \in -1..PlayWrap /\ delayTime \in Nat /\ sinceDrop \in 0..2
      /\ input \in Inputs /\ frameratebig \in BOOLEAN
  BY Given DEF TypeOK
<1>5. delayTime' = 0 \/ delayTime' \in Milli(Rate \div 2)..Milli(Rate * 2)
  BY <1>2, <1>3, <1>4, DelayOf
<1>6. delayTime' \in Nat
  <2> HIDE DEF Milli
  <2>1. QED
    BY <1>4, <1>5, Bounds
<1>7. diff' \in Int
  BY <1>1, <1>3, <1>4, <1>6, Given
<1>8. sinceDrop' \in 1..2
  BY <1>2, <1>4
<1>9. TypeOK'
  BY <1>2, <1>3, <1>4, <1>6, <1>7, <1>8, CountedOn DEF TypeOK, Group
<1>10. DelayBounded'
  BY <1>3, <1>5 DEF DelayBounded, Milli, Rate
<1>11. Counting'
  BY <1>2, <1>3, <1>4, <1>8, CountedOn DEF Counting, frameratebig
<1>12. QED
  BY <1>8, <1>9, <1>10, <1>11

LEMMA Step ==
    ASSUME SyncInv, [Next]_vars
    PROVE  SyncInv' /\ (frameratebig /\ sinceDrop < 2 => sinceDrop' # 0 \/ vars' = vars)
<1>1. CASE Drop
  BY <1>1, DropStep
<1>2. CASE Show
  BY <1>2, ShowStep
<1>3. CASE UNCHANGED vars
  BY <1>3 DEF vars, SyncInv, TypeOK, DelayBounded, Counting, Milli, Rate, Group, frameratebig
<1>4. QED
  BY <1>1, <1>2, <1>3 DEF Next

\* The invariant holds throughout: every variable keeps its type, the delay its
\* bounds, and playcount tells how long ago a packet was dropped.
THEOREM Syncing == Spec => []SyncInv
<1>1. SyncInv /\ [Next]_vars => SyncInv'
  BY Step
<1>2. QED
  BY SyncInit, <1>1, PTL DEF Spec

\* getDelayTime never returns less than half the rate, but nothing, nor more than
\* twice the rate, for any lags one after another.
THEOREM DelayStaysBounded == Spec => []DelayBounded
<1>1. SyncInv => DelayBounded
  BY DEF SyncInv
<1>2. QED
  BY Syncing, <1>1, PTL

\* With a high frame rate no two of three packets are dropped, across the reset of
\* playcount.
THEOREM DropsApart == Spec => DropsSpaced
<1>1. SyncInv /\ [Next]_vars => [frameratebig /\ sinceDrop < 2 => sinceDrop' # 0]_vars
  BY Step
<1>2. QED
  BY Syncing, <1>1, PTL DEF Spec, DropsSpaced

-----------------------------------------------------------------------------
\* Of a group in step the clock is at one frame or before the first, and has passed
\* every packet taken.
ClockInv ==
    InStep =>
        /\ clock \in -1..(Len(Group) - 1)
        /\ \A k \in 1..(next - 1) : Time(Group[k]) <= clock

LEMMA Remainder == ASSUME NEW m \in Nat, NEW n \in Nat, m < n PROVE m % n = m
OBVIOUS

\* The next packet takes the clock to a frame of the group that is not before the
\* packet's place in it, and counts as a whole frame.
LEMMA InStepTaken ==
    ASSUME TypeOK, ClockInv, InStep, Take(Group[next])
    PROVE  /\ clock + Advance(Group[next]) \in (next - 1)..(Len(Group) - 1)
           /\ clock' - (next' - 1) = (clock + Advance(Group[next])) - next
           /\ ClockInv'
<1>. DEFINE L == Len(Group)
            t == Time(Group[next])
            front == clock + Advance(Group[next])
<1>1. /\ L \in Nat \ {0} /\ next \in 1..L /\ clock \in -1..(L - 1)
      /\ \A k \in 1..(next - 1) : Time(Group[k]) <= clock
  BY Given DEF TypeOK, ClockInv
<1>2. \A k \in 1..L : Time(Group[k]) \in Nat
  <2>1. ASSUME NEW k \in 1..L PROVE Group[k].pts \in Int /\ Group[k].dts \in Nat
    <3>1. Group[k] \in Packet
      BY Given, <2>1 DEF TypeOK
    <3>. QED BY <3>1 DEF Packet
  <2>. QED BY <2>1 DEF Time
<1>3. t \in Nat /\ t <= L - 1
  BY <1>1, <1>2 DEF InStep
<1>4. front \in Int /\ front >= clock /\ front >= t /\ front <= L - 1
  BY <1>1, <1>3 DEF Advance, Larger
<1>5. front >= next - 1
  <2>1. PICK k \in 1..next : Time(Group[k]) >= next - 1
    BY <1>1 DEF InStep
  <2>2. Time(Group[k]) <= front
    <3>1. CASE k = next
      BY <1>4, <3>1
    <3>2. CASE k # next
      <4>1. k \in 1..(next - 1) /\ Time(Group[k]) \in Nat
        BY <1>1, <1>2, <3>2
      <4>. QED BY <1>1, <1>4, <4>1
    <3>. QED BY <3>1, <3>2
  <2>3. Time(Group[k]) \in Nat
    BY <1>1, <1>2
  <2>. QED BY <1>1, <1>4, <2>1, <2>2, <2>3
<1>6. /\ next' = (next % L) + 1
      /\ clock' = front - (IF next = L THEN L ELSE 0)
      /\ input' = input
  BY DEF Take
<1>. DEFINE Anew ==
        /\ clock' - (next' - 1) = front - next /\ clock' \in -1..(L - 1)
        /\ \A k \in 1..(next' - 1) : Time(Group[k]) <= clock'
<1>. HIDE DEF t, front
<1>7. ASSUME next = L PROVE Anew
  <2>1. front = L - 1 /\ next' = 1 /\ clock' = front - L
    BY <1>1, <1>4, <1>5, <1>6, <1>7
  <2>2. clock' - (next' - 1) = front - next /\ clock' = -1 /\ next' - 1 = 0
    BY <1>1, <1>7, <2>1
  <2>3. \A k \in 1..(next' - 1) : Time(Group[k]) <= clock'
    BY <2>2
  <2>. QED BY <1>1, <2>2, <2>3
<1>8. ASSUME next # L PROVE Anew
  <2>1. next' = next + 1 /\ clock' = front
    <3>1. next % L = next
      BY <1>1, <1>8, Remainder
    <3>. QED BY <1>4, <1>6, <1>8, <3>1
  <2>2. \A k \in 1..(next' - 1) : Time(Group[k]) <= clock'
    <3>1. ASSUME NEW k \in 1..next PROVE Time(Group[k]) <= front
      <4>1. CASE k = next
        BY <1>4, <4>1 DEF t
      <4>2. CASE k # next
        <5>1. k \in 1..(next - 1) /\ Time(Group[k]) \in Nat
          BY <1>1, <1>2, <4>2
        <5>. QED BY <1>1, <1>4, <5>1
      <4>. QED BY <4>1, <4>2
    <3>. QED BY <1>1, <2>1, <3>1
  <2>. QED BY <1>1, <1>4, <2>1, <2>2
<1>9. Anew
  BY <1>7, <1>8
<1>10. ClockInv'
  <2>1. Group' = Group
    BY <1>6 DEF Group
  <2>. QED BY <1>9, <2>1 DEF ClockInv
<1>11. front \in (next - 1)..(L - 1) /\ clock' - (next' - 1) = front - next
  BY <1>1, <1>4, <1>5, <1>9
<1>. USE DEF front
<1>. QED BY <1>10, <1>11

LEMMA ClockStep == ASSUME SyncInv, ClockInv, [Next]_vars PROVE ClockInv'
<1>1. CASE UNCHANGED vars
  BY <1>1 DEF vars, ClockInv, InStep, Group
<1>2. CASE Next
  <2>1. Take(Group[next]) /\ TypeOK
    BY <1>2 DEF Next, Drop, Show, SyncInv
  <2>2. input' = input
    BY <2>1 DEF Take
  <2>3. CASE InStep
    BY <2>1, <2>3, InStepTaken
  <2>4. CASE ~InStep
    BY <2>2, <2>4 DEF ClockInv, InStep, Group
  <2>. QED BY <2>3, <2>4
<1>. QED BY <1>1, <1>2

\* A packet that is waited for comes no more than a second behind.
LEMMA NoDelay ==
    ASSUME NEW lag \in Int, lag <= Milli(10000), getDelayTime(lag) # 0
    PROVE  lag <= Milli(1000)
<1>1. Milli(10000) \in Nat /\ Milli(1000) \in Nat
  BY DEF Milli
<1>. QED BY <1>1 DEF getDelayTime, Apart

LEMMA Products ==
    ASSUME NEW f \in Nat
    PROVE  /\ \A a \in Int : a * f \in Int
           /\ \A a, b \in Int : (a + b) * f = a * f + b * f /\ (a - b) * f = a * f - b * f
           /\ \A a, b \in Int : a <= b => a * f <= b * f
           /\ 0 * f = 0 /\ 1 * f = f /\ (-1) * f = -f
OBVIOUS

\* A step takes a frame off what the video is behind by, and adds what the packet took.
LEMMA BehindStep ==
    ASSUME SyncInv, ClockInv, KeepsPace, Take(Group[next]), Behind <= Lateness, NEW spent \in Nat,
           diff' = Lag(Group[next]) + spent,
           \/ spent <= Frame
           \/ /\ Lag(Group[next]) <= Milli(IF frameratebig THEN 1000 ELSE 500)
              /\ spent <= Milli(Rate * 2) + Frame
    PROVE  Behind' <= Lateness /\ diff' <= Lateness + Frame
<1>. DEFINE F == Frame
            L == Len(Group)
            a == Advance(Group[next])
            k == clock - (next - 1)
            K == Milli(IF frameratebig THEN 1000 ELSE 500) + Milli(Rate * 2)
<1>1. TypeOK /\ InStep
  BY DEF SyncInv, KeepsPace
<1>2. /\ F \in Nat /\ L \in Nat \ {0} /\ next \in 1..L /\ clock \in Int /\ diff \in Int
      /\ a \in Int /\ k \in Int /\ K \in Int /\ Milli(Rate * 2) \in Int
      /\ Milli(IF frameratebig THEN 1000 ELSE 500) \in Int
  <2>1. /\ F \in Nat /\ L \in Nat \ {0} /\ next \in 1..L /\ clock \in Int /\ diff \in Int
        /\ a \in Int /\ Rate \in Nat
    BY <1>1, Given, Taken DEF TypeOK
  <2>2. /\ Milli(Rate * 2) \in Int /\ Milli(IF frameratebig THEN 1000 ELSE 500) \in Int
    BY <2>1 DEF Milli
  <2>. HIDE DEF a, F, L
  <2>. QED BY <2>1, <2>2
<1>3. k + a >= 0 /\ k + a - 1 <= L - 2 /\ clock' - (next' - 1) = k + a - 1
  <2>1. clock + a \in (next - 1)..(L - 1) /\ clock' - (next' - 1) = (clock + a) - next
    BY <1>1, InStepTaken
  <2>. HIDE DEF a, L
  <2>. QED BY <1>2, <2>1
<1>4. /\ Lag(Group[next]) = diff - a * F /\ Behind = diff + k * F
      /\ Behind' = diff' + (k + a - 1) * F /\ Lateness = K + L * F
  <2>1. input' = input
    BY DEF Take
  <2>2. Frame' = F
    BY <2>1 DEF Frame
  <2>. QED BY <1>3, <2>2 DEF Lag, Behind, Lateness
<1>5. /\ a * F \in Int /\ k * F \in Int /\ (k + a - 1) * F \in Int /\ L * F \in Int
      /\ (k + a - 1) * F = k * F + a * F - F
      /\ (k + a - 1) * F <= L * F - 2 * F
      /\ -F <= (k + a - 1) * F
  <2>. HIDE DEF F, a, k, L, K
  <2>1. /\ a * F \in Int /\ k * F \in Int /\ (k + a - 1) * F \in Int /\ L * F \in Int
    BY <1>2, Products
  <2>2. (k + a - 1) * F = (k + a) * F - 1 * F /\ (k + a) * F = k * F + a * F
    BY <1>2, Products
  <2>3. (k + a - 1) * F <= (L - 2) * F /\ (L - 2) * F = L * F - 2 * F
    BY <1>2, <1>3, Products
  <2>4. (-1) * F <= (k + a - 1) * F
    BY <1>2, <1>3, Products
  <2>. QED BY <1>2, <2>1, <2>2, <2>3, <2>4, Products
<1>. HIDE DEF F, L, a, k
<1>6. Behind' = Behind - F + spent
  BY <1>2, <1>4, <1>5
<1>7. Behind' <= Lateness
  <2>1. CASE spent <= Frame
    BY <1>2, <1>4, <1>5, <1>6, <2>1 DEF F
  <2>2. CASE /\ Lag(Group[next]) <= Milli(IF frameratebig THEN 1000 ELSE 500)
             /\ spent <= Milli(Rate * 2) + Frame
    <3>1. diff' <= K + F /\ diff' \in Int
      BY <1>2, <1>4, <1>5, <2>2 DEF F
    <3>. HIDE DEF K
    <3>. QED BY <1>2, <1>4, <1>5, <3>1
  <2>. QED BY <2>1, <2>2
<1>8. diff' \in Int
  BY <1>2, <1>4, <1>5
<1>9. diff' <= Behind' + F
  <2>. HIDE DEF K
  <2>. QED BY <1>2, <1>4, <1>5, <1>8
<1>10. diff' <= Lateness + F
  <2>. HIDE DEF K
  <2>. QED BY <1>2, <1>4, <1>5, <1>7, <1>8, <1>9
<1>. QED BY <1>7, <1>10 DEF F

\* No packet comes further behind than the video is.
LEMMA LagBehind ==
    ASSUME SyncInv, ClockInv, KeepsPace, Take(Group[next]), Behind <= Lateness
    PROVE  Lag(Group[next]) <= Milli(10000)
<1>. DEFINE a == Advance(Group[next])
            k == clock - (next - 1)
<1>1. TypeOK /\ InStep /\ Lateness <= Milli(10000)
  BY DEF SyncInv, KeepsPace
<1>2. /\ Frame \in Nat /\ Len(Group) \in Nat /\ next \in Int /\ clock \in Int /\ diff \in Int
      /\ a \in Int /\ k \in Int
  BY <1>1, Given, Taken DEF TypeOK
<1>3. k + a >= 0
  BY <1>1, <1>2, InStepTaken
<1>4. Lag(Group[next]) = diff - a * Frame /\ Behind = diff + k * Frame
  BY DEF Lag, Behind
<1>5. k * Frame \in Int /\ a * Frame \in Int /\ k * Frame + a * Frame >= 0
  <2>. HIDE DEF a, k
  <2>1. k * Frame \in Int /\ a * Frame \in Int /\ (k + a) * Frame = k * Frame + a * Frame
    BY <1>2, Products
  <2>2. 0 * Frame <= (k + a) * Frame /\ 0 * Frame = 0
    BY <1>2, <1>3, Products
  <2>. QED BY <2>1, <2>2
<1>6. Lateness \in Int /\ Milli(10000) \in Int
  <2>1. Milli(IF frameratebig THEN 1000 ELSE 500) \in Int /\ Milli(Rate * 2) \in Int
        /\ Milli(10000) \in Int
    BY <1>1, Given DEF Milli, TypeOK
  <2>2. Len(Group) * Frame \in Int
    BY <1>2
  <2>. QED BY <2>1, <2>2 DEF Lateness
<1>. HIDE DEF a, k
<1>. QED BY <1>1, <1>2, <1>4, <1>5, <1>6

LEMMA Sums ==
    ASSUME NEW a \in Nat, NEW b \in Nat, NEW c \in Nat, NEW d \in Nat, a <= c, b <= d
    PROVE  a + b \in Nat /\ a + b <= c + d
OBVIOUS

LEMMA LagStep ==
    ASSUME SyncInv, ClockInv, KeepsPace, Behind <= Lateness, Next
    PROVE  Behind' <= Lateness /\ diff' <= Lateness + Frame
<1>1. /\ TypeOK /\ InStep /\ Take(Group[next]) /\ Lateness <= Milli(10000)
      /\ \A cost \in input.costs : cost <= Frame
  BY DEF SyncInv, KeepsPace, Next, Drop, Show
<1>2. /\ Lag(Group[next]) \in Int /\ Frame \in Nat /\ input.costs \subseteq Nat
      /\ input \in Inputs /\ delayTime \in Nat /\ DelayBounded
  BY <1>1, Given, Taken DEF TypeOK, SyncInv
<1>3. CASE Drop
  BY <1>1, <1>2, <1>3, BehindStep DEF Drop
<1>4. CASE Show
  <2>. DEFINE lag == Lag(Group[next])
  <2>1. PICK cost \in input.costs :
           diff' = lag + (IF input.audioRuns THEN delayTime' + cost ELSE 0)
    BY <1>4 DEF Show
  <2>2. delayTime' = getDelayTime(lag) /\ ~Late(Group[next])
    BY <1>4 DEF Show
  <2>3. /\ delayTime' = 0 \/ delayTime' <= Milli(Rate * 2)
        /\ delayTime' \in Nat /\ Milli(Rate * 2) \in Nat
    <3>1. delayTime' = 0 \/ delayTime' \in Milli(Rate \div 2)..Milli(Rate * 2)
      BY <1>2, <2>2, DelayOf
    <3>. QED BY <1>2, <3>1, Bounds
  <2>4. lag <= Milli(10000)
    BY <1>1, <1>2, LagBehind
  <2>5. delayTime' # 0 => lag <= Milli(IF frameratebig THEN 1000 ELSE 500)
    <3>1. delayTime' # 0 => lag <= Milli(1000)
      BY <1>2, <2>2, <2>4, NoDelay
    <3>2. ~frameratebig => lag < Milli(500)
      <4>1. Milli(500) \in Int
        BY DEF Milli
      <4>. QED BY <1>2, <2>2, <4>1 DEF Late
    <3>3. Milli(500) \in Int
      BY DEF Milli
    <3>. QED BY <1>2, <3>1, <3>2, <3>3
  <2>6. cost \in Nat /\ cost <= Frame
    BY <1>1, <1>2
  <2>. DEFINE spent == IF input.audioRuns THEN delayTime' + cost ELSE 0
  <2>7. /\ spent \in Nat /\ diff' = lag + spent
        /\ spent <= Frame \/ (lag <= Milli(IF frameratebig THEN 1000 ELSE 500)
                                /\ spent <= Milli(Rate * 2) + Frame)
    <3>. HIDE DEF lag
    <3>1. CASE input.audioRuns
      <4>1. spent = delayTime' + cost /\ diff' = lag + spent
        BY <2>1, <3>1
      <4>. HIDE DEF spent
      <4>2. CASE delayTime' = 0
        BY <1>2, <2>6, <4>1, <4>2
      <4>3. CASE delayTime' # 0
        <5>1. lag <= Milli(IF frameratebig THEN 1000 ELSE 500)
          BY <2>5, <4>3
        <5>2. spent \in Nat /\ spent <= Milli(Rate * 2) + Frame
          <6>1. delayTime' \in Nat /\ delayTime' <= Milli(Rate * 2) /\ Milli(Rate * 2) \in Nat
            BY <2>3, <4>3
          <6>2. spent = delayTime' + cost
            BY <4>1
          <6>. QED BY <1>2, <2>6, <6>1, <6>2, Sums
        <5>. QED BY <4>1, <5>1, <5>2
      <4>. QED BY <4>2, <4>3
    <3>2. CASE ~input.audioRuns
      BY <1>2, <2>1, <3>2
    <3>. QED BY <3>1, <3>2
  <2>. HIDE DEF spent
  <2>. QED BY <1>1, <2>7, BehindStep
<1>. QED BY <1>3, <1>4 DEF Next

\* On a device that shows a packet within the time of a frame a video that is behind
\* by no more than Lateness stays so, however the delay swings: getDelayTime returns
\* 0 from a second on, and decodVideo drops packets from half a second
\* (CCLVideo.cpp:369, CCLVideo.cpp:173).
THEOREM LagStaysBounded == Spec => LagBounded
<1>1. Init => ClockInv
  <2>1. Init => Len(Group) \in Nat \ {0}
    BY Given DEF Init
  <2>. QED BY <2>1 DEF Init, ClockInv
<1>2. SyncInv /\ ClockInv /\ [Next]_vars => ClockInv'
  BY ClockStep
<1>3. SyncInv /\ ClockInv /\ [Next]_vars =>
        [KeepsPace /\ Behind <= Lateness =>
            Behind' <= Lateness /\ diff' <= Lateness + Frame]_vars
  BY LagStep
<1>. QED BY <1>1, <1>2, <1>3, Syncing, PTL DEF Spec, LagBounded
=============================================================================
