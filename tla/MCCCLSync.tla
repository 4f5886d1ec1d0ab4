----------------------------- MODULE MCCCLSync -----------------------------
(***************************************************************************)
(* Streams of 30 and of 60 frames a second, times in fractions of a        *)
(* millisecond that make 2/3 and 3/2 of a delay exact.                     *)
(***************************************************************************)
EXTENDS CCLSync

Pts(pts, dts, key) == [pts |-> pts, dts |-> dts, key |-> key]

\* A key frame, and the frame after the two that are decoded after it.
Reordered ==
    <<Pts(0, 0, TRUE), Pts(3, 1, FALSE), Pts(1, 2, FALSE), Pts(2, 3, FALSE)>>

\* The same with a packet that has no pts.
WithoutPts ==
    <<Pts(0, 0, TRUE), Pts(3, 1, FALSE), Pts(NoPts, 2, FALSE), Pts(2, 3, FALSE)>>

PerSecond(fps) == (1000 * Ms) \div fps
Thirty == PerSecond(30)
Sixty == PerSecond(60)

\* A device that shows a packet at once or nearly so, and one that is as slow as
\* the stream.
FastCosts == {0, Milli(2)}
SlowCosts == {0, Milli(16)}

\* From nine seconds ahead of the audio to four behind, and about the steps of
\* getDelayTime.
FarOffsets == {Milli(n) : n \in {-9000, -2000, -400, -17, 0, 5, 300, 900, 4000}}
NearOffsets == {Milli(n) : n \in {-2000, 0, 300, 499, 900}}

OnFastDevice ==
    [rate |-> 33, frame |-> Thirty, group |-> Reordered, frameratebig |-> FALSE,
     costs |-> FastCosts, audioRuns |-> TRUE, offsets |-> FarOffsets]

WithoutAudio == [OnFastDevice EXCEPT !.audioRuns = FALSE]

OnSlowDevice ==
    [rate |-> 16, frame |-> Sixty, group |-> WithoutPts, frameratebig |-> TRUE,
     costs |-> SlowCosts, audioRuns |-> TRUE, offsets |-> NearOffsets]

MCInputs == {OnFastDevice, WithoutAudio, OnSlowDevice}
=============================================================================
