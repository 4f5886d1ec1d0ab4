------------------------------ MODULE CCLSync ------------------------------
(***************************************************************************)
(* How the video keeps to the audio: the half of CCLVideo::decodVideo that *)
(* follows getAvpacket, with getDelayTime.  The video thread compares the  *)
(* audio's clock with the time of each packet and from that drops the      *)
(* packet or sleeps before it shows it; sleeping lets the audio go ahead,  *)
(* which closes the loop.                                                  *)
(*                                                                         *)
(* Times are whole numbers of 1/Ms milliseconds.  The times that           *)
(* getDelayTime computes are products of the rate with powers of 2/3 and   *)
(* 3/2, few of them in a row, so that the Ms of the configurations makes   *)
(* them exact.                                                             *)
(***************************************************************************)
EXTENDS Integers, Sequences

CONSTANTS
    Ms,             \* units of time in a millisecond
    Inputs,         \* streams, each with the device and the audio it meets
    PlayWrap,       \* the largest playcount: 500 in the code
    Far             \* bound: how far the video may get ahead of the audio

\* A packet has a pts, counted in frames from the start of its group, or none,
\* and a dts.
NoPts == -1
Packet == [pts : Int, dts : Nat, key : BOOLEAN]

\* rate is 1000 / fps in milliseconds, without its fraction, and frame the time
\* from one frame to the next in the stream; group has the packets of a group of
\* pictures in decoding order; costs is what the rest of an iteration may take,
\* audioRuns whether the audio's clock advances with the time, and offsets what the
\* audio may be ahead of the video at first.
Input == [rate : Nat, frame : Nat, group : Seq(Packet) \ {<<>>}, frameratebig : BOOLEAN,
          costs : SUBSET Nat, audioRuns : BOOLEAN, offsets : SUBSET Int]

ASSUME SyncAssumption ==
    /\ Ms \in Nat \ {0} /\ Far \in Nat
    /\ PlayWrap \in Nat /\ PlayWrap % 3 = 2
    /\ \A i \in Inputs : i \in Input

VARIABLES
    input,          \* the stream that plays
    next,           \* the packet of the group that comes next
    clock,          \* the video's clock, in frames from the start of the group
    diff,           \* the audio's clock less the video's
    delayTime,      \* the time slept before the packet shown last
    playcount,
    sinceDrop       \* history: packets since one was dropped, 2 for more

vars == <<input, next, clock, diff, delayTime, playcount, sinceDrop>>

Rate == input.rate
Frame == input.frame
Group == input.group
frameratebig == input.frameratebig

Init ==
    /\ input \in Inputs
    /\ next = 1 /\ clock = 0
    /\ diff \in input.offsets
    /\ delayTime = 0 /\ playcount = -1
    /\ sinceDrop = 2

Larger(a, b) == IF a < b THEN b ELSE a

\* The time of a packet; a time before the clock is replaced by it.
Time(packet) == IF packet.pts < 0 THEN packet.dts ELSE packet.pts

Milli(n) == n * Ms

\* Mutant: the delay is kept whatever it has become.
WithinNothing(delay) == delay

\* A delay that has left the range about the rate.
Within(delay) ==
    IF delay < Milli(Rate \div 2) THEN Milli((Rate \div 3) * 2)
    ELSE IF delay > Milli(Rate * 2) THEN Milli(Rate * 2)
    ELSE delay

\* Mutant: the factors are exchanged.
PaceSwapped(lag) ==
    CASE lag > Milli(3)  -> Within((delayTime * 3) \div 2)
      [] lag < -Milli(3) -> Within((delayTime * 2) \div 3)
      [] lag = 0         -> Milli(Rate)
      [] OTHER           -> delayTime

\* The delay changes by a factor, for a packet whose time is lag behind the audio.
Pace(lag) ==
    CASE lag > Milli(3)  -> Within((delayTime * 2) \div 3)
      [] lag < -Milli(3) -> Within((delayTime * 3) \div 2)
      [] lag = 0         -> Milli(Rate)
      [] OTHER           -> delayTime

Apart(lag, n) == lag > Milli(n) \/ lag < -Milli(n)

\* Mutant: a packet a second late is still waited for.
getDelayTimeUncut(lag) ==
    CASE Apart(lag, 10000)                          -> Milli(Rate)
      [] lag < -Milli(1000) /\ ~Apart(lag, 10000)   -> Milli(Rate * 2)
      [] OTHER                                      -> Pace(lag)

\* Mutant: the audio is waited for however far it is.
getDelayTimeWaits(lag) ==
    CASE lag > Milli(1000)    -> 0
      [] lag < -Milli(1000)   -> Milli(Rate * 2)
      [] OTHER                -> Pace(lag)

getDelayTime(lag) ==
    CASE Apart(lag, 10000)                          -> Milli(Rate)
      [] lag > Milli(1000) /\ ~Apart(lag, 10000)    -> 0
      [] lag < -Milli(1000) /\ ~Apart(lag, 10000)   -> Milli(Rate * 2)
      [] OTHER                                      -> Pace(lag)

\* The packet is taken: the clock follows it, and diff with the clock.
Advance(packet) == Larger(clock, Time(packet)) - clock

Take(packet) ==
    /\ UNCHANGED input
    /\ next' = (next % Len(Group)) + 1
    /\ clock' = (clock + Advance(packet)) - (IF next = Len(Group) THEN Len(Group) ELSE 0)

Lag(packet) == diff - Advance(packet) * Frame

\* Mutant: playcount is wrapped one packet early.
CountedEarly == IF playcount + 1 >= PlayWrap THEN 0 ELSE playcount + 1

Counted == IF playcount + 1 > PlayWrap THEN 0 ELSE playcount + 1

\* A packet half a second late; if the frame rate is high, a third of those and
\* only if its flags are not those of a key packet.
Late(packet) ==
    /\ Lag(packet) >= Milli(500)
    /\ frameratebig => Counted % 3 = 0 /\ ~packet.key

Drop ==
    /\ Late(Group[next])
    /\ Take(Group[next])
    /\ diff' = Lag(Group[next])
    /\ playcount' = Counted
    /\ sinceDrop' = 0
    /\ UNCHANGED delayTime

Show ==
    /\ ~Late(Group[next]) /\ diff > -Far
    /\ Take(Group[next])
    /\ delayTime' = getDelayTime(Lag(Group[next]))
    /\ \E cost \in input.costs :
          diff' = Lag(Group[next]) + (IF input.audioRuns THEN delayTime' + cost ELSE 0)
    /\ playcount' = Counted
    /\ sinceDrop' = IF sinceDrop < 2 THEN sinceDrop + 1 ELSE 2

Next == Drop \/ Show

Spec == Init /\ [][Next]_vars

\* Packets keep coming.
FairSpec == Spec /\ WF_vars(Next)

-----------------------------------------------------------------------------
TypeOK ==
    /\ input \in Inputs
    /\ next \in 1..Len(Group) /\ clock \in Int /\ diff \in Int
    /\ delayTime \in Nat /\ playcount \in -1..PlayWrap
    /\ sinceDrop \in 0..2

\* A delay is none, or between half and twice the rate.
DelayBounded ==
    delayTime = 0 \/ delayTime \in Milli(Rate \div 2)..Milli(Rate * 2)

\* With a high frame rate two packets at least are shown between two dropped.
DropsSpaced == [][frameratebig /\ sinceDrop < 2 => sinceDrop' # 0]_vars

\* Packets come in decoding order: of the first n one at least is of frame n - 1 or
\* later, counted from 0, and none is of the next group.
InStep ==
    \A n \in 1..Len(Group) :
        /\ Time(Group[n]) < Len(Group)
        /\ \E k \in 1..n : Time(Group[k]) >= n - 1

\* What the video is behind by as its packets count: the clock runs ahead of them
\* when a frame is decoded before those that are shown before it.
Behind == diff + (clock - (next - 1)) * Frame

\* What it may be behind by: it drops packets from half a second, or shows them at
\* once from a second.
Lateness ==
    Milli(IF frameratebig THEN 1000 ELSE 500) + Milli(Rate * 2) + Len(Group) * Frame

\* A device that shows a packet within the time of a frame, and a stream for which
\* Lateness is within the ten seconds getDelayTime looks at.
KeepsPace ==
    InStep /\ Lateness <= Milli(10000) /\ \A cost \in input.costs : cost <= Frame

\* On such a device a video that is not further behind never falls further behind,
\* and the audio's clock is never ahead of its own by more than a frame besides.
LagBounded ==
    [][KeepsPace /\ Behind <= Lateness =>
          Behind' <= Lateness /\ diff' <= Lateness + Frame]_vars

\* However far apart they begin, within the ten seconds getDelayTime looks at, the
\* video comes to keep to the audio, to within a group of frames, on a device that
\* needs less than half of a frame's time.
Near == (Len(Group) + 1) * Frame
Leisurely == input.audioRuns /\ \A cost \in input.costs : 2 * cost < Frame
InSync == Leisurely => <>[](-Near <= diff /\ diff <= Near)

\* When the audio has stopped the video does not wait for it for ever: ten
\* seconds ahead of it, it plays at its own rate.
PlaysOnAlone == ~input.audioRuns => <>[](delayTime = Milli(Rate))
=============================================================================
