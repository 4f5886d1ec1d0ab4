---------------------------- MODULE CCLSoftVideo ----------------------------
(***************************************************************************)
(* The software decoder: codecFrame and the codecType 0 half of            *)
(* CCLVideo::decodVideo, beside the demuxer and the user of CCLPlayer.     *)
(* codecFrame turns the packets of the video's queue into frames of its    *)
(* other queue, from which decodVideo shows them.  start() asks for it     *)
(* when mimeType is -1, which a bool never is, so that this commit never   *)
(* runs it.                                                                *)
(*                                                                         *)
(* There is an audio, but what it plays is not followed: layout holds the  *)
(* video alone.  Nor are the times of the frames shown and the clocks.     *)
(***************************************************************************)
EXTENDS CCLControl, CCLDemux, FiniteSets, Functions

CONSTANTS
    DecodeLimit,    \* codecFrame takes no packet while more are queued: 20 in the code
    Delay           \* the frames the decoder keeps back

ASSUME SoftAssumption == DecodeLimit \in Nat /\ Delay \in Nat

VARIABLES
    decFrame,       \* where the thread of codecFrame is
    inHand,         \* its packet, which its frame is written as too, or Empty
    decoder,        \* the packets whose frames avCodecContext keeps back
    queueFrame      \* the frames of the queue

softVars == <<decFrame, inHand, decoder, queueFrame>>
vars == <<shared, pc, packet, audioVars, videoVars, softVars>>

Init ==
    /\ SharedInit /\ DemuxInit /\ AudioInit /\ VideoInit
    /\ dstFormatValid
    /\ decFrame = "none"
    /\ inHand = Empty /\ decoder = {} /\ queueFrame = <<>>

-----------------------------------------------------------------------------
\* codecFrame, which changes nothing of what CCLPlayStatus holds but the queue.

\* Mutant: the flag of a seek is not looked at.
DecodeLoopDeaf ==
    /\ decFrame = "loop"
    /\ decFrame' = IF exit THEN "done" ELSE "size"
    /\ UNCHANGED <<shared, inHand, decoder, queueFrame>>

DecodeLoop ==
    /\ decFrame = "loop"
    /\ \/ exit /\ decFrame' = "done"
       \/ ~exit /\ ~seek /\ decFrame' = "size"
    /\ UNCHANGED <<shared, inHand, decoder, queueFrame>>

\* Mutant: the size is not tested.
DecodeSizeUntested ==
    /\ decFrame = "size" /\ decFrame' = "get"
    /\ UNCHANGED <<shared, inHand, decoder, queueFrame>>

DecodeSize ==
    /\ decFrame = "size"
    /\ decFrame' = IF Len(queue["video"]) > DecodeLimit THEN "loop" ELSE "get"
    /\ UNCHANGED <<shared, inHand, decoder, queueFrame>>

DecodeGet ==
    /\ decFrame = "get" /\ ~exit /\ queue["video"] # <<>>
    /\ inHand' = Head(queue["video"])
    /\ queue' = [queue EXCEPT !["video"] = Tail(@)]
    /\ decFrame' = "send"
    /\ UNCHANGED <<input, status, uiLoading, completed, format, seek_mutex, fault,
                   decoder, queueFrame>>

DecodeSleep ==
    /\ decFrame = "get" /\ ~exit /\ queue["video"] = <<>>
    /\ decFrame' = "wait"
    /\ UNCHANGED <<shared, inHand, decoder, queueFrame>>

DecodeWake ==
    /\ decFrame = "wait" /\ decFrame' = "get"
    /\ UNCHANGED <<shared, inHand, decoder, queueFrame>>

\* On exit the packet is empty and drains the decoder: a frame, or an empty one
\* as AVERROR_EOF is no error here.
DecodeDrain ==
    /\ decFrame = "get" /\ exit
    /\ \/ decoder = {} /\ inHand' = Empty /\ UNCHANGED decoder
       \/ \E frame \in decoder : inHand' = frame /\ decoder' = decoder \ {frame}
    /\ decFrame' = "put"
    /\ UNCHANGED <<shared, queueFrame>>

\* avcodec_receive_frame, of a decoder that has the given frames: it keeps Delay of
\* them back at most, and which it gives is up to the order of presentation.
Receive(frames) ==
    \/ /\ Cardinality(frames) <= Delay
       /\ decoder' = frames /\ inHand' = Empty /\ decFrame' = "loop"
    \/ \E frame \in frames :
          decoder' = frames \ {frame} /\ inHand' = frame /\ decFrame' = "put"

\* A packet that the decoder does not take is dropped: after EAGAIN, which a frame
\* that is ready gives, that frame is received all the same, after an error none.
Send ==
    /\ decFrame = "send"
    /\ Receive(decoder \union {inHand}) \/ Receive(decoder)
    /\ UNCHANGED <<shared, queueFrame>>

PutFrame ==
    /\ decFrame = "put"
    /\ queueFrame' = Append(queueFrame, inHand)
    /\ inHand' = Empty
    /\ decFrame' = "loop"
    /\ UNCHANGED <<shared, decoder>>

CodecFrame ==
    /\ DecodeLoop \/ DecodeSize \/ DecodeGet \/ DecodeSleep \/ DecodeDrain \/ Send \/ PutFrame
    /\ UNCHANGED <<pc, packet, audioVars, videoVars>>

-----------------------------------------------------------------------------
\* decodVideo with codecType 0: the size it looks at is that of the packets.

Watch ==
    /\ \/ PlayerLoop("video") \/ PlayerSeek("video", "size") \/ PlayerSize("video")
       \/ PlayerEmpty("video") \/ PlayerFilled("video", "getFrame")
       \/ SetLoad("video", "seekLoad", TRUE, "loop")
       \/ SetLoad("video", "setLoad", TRUE, "loop")
       \/ SetLoad("video", "clearLoad", FALSE, "getFrame")
    /\ UNCHANGED <<packet, audioVars, videoVars, softVars>>

GetFrame ==
    /\ At("video", "getFrame") /\ ~exit /\ queueFrame # <<>>
    /\ queueFrame' = Tail(queueFrame)
    /\ Goto("video", "render")
    /\ UNCHANGED <<shared, packet, audioVars, videoVars, decFrame, inHand, decoder>>

SleepOnFrames ==
    /\ At("video", "getFrame") /\ ~exit /\ queueFrame = <<>>
    /\ Goto("video", "waitFrame")
    /\ UNCHANGED <<shared, packet, audioVars, videoVars, softVars>>

WakeOnFrames ==
    /\ At("video", "waitFrame")
    /\ Goto("video", "getFrame")
    /\ UNCHANGED <<shared, packet, audioVars, videoVars, softVars>>

\* On exit the frame is empty.
GetFrameExit ==
    /\ At("video", "getFrame") /\ exit
    /\ Goto("video", "render")
    /\ UNCHANGED <<shared, packet, audioVars, videoVars, softVars>>

\* Shown or, late, freed; then the packets up to the next key packet go as well.
Render ==
    /\ At("video", "render")
    /\ Goto("video", "loop")
    /\ \/ UNCHANGED queue
       \/ \E n \in 1..Len(queue["video"]) :
             queue' = [queue EXCEPT !["video"] = SubSeq(@, n + 1, Len(@))]
    /\ UNCHANGED <<input, status, uiLoading, completed, format, seek_mutex, fault,
                   packet, audioVars, videoVars, softVars>>

DecodVideo ==
    Watch \/ GetFrame \/ SleepOnFrames \/ GetFrameExit \/ Render

-----------------------------------------------------------------------------
\* start, which makes the thread of codecFrame as well.
StartSoft ==
    /\ Start
    /\ decFrame' = "loop"
    /\ UNCHANGED <<audioVars, videoVars, inHand, decoder, queueFrame>>

DemuxStep ==
    /\ ~At("demux", "start") /\ Demux
    /\ UNCHANGED <<audioVars, videoVars, softVars>>

\* A seek clears the frames, then the packets; the decoder is not flushed.
SeekClearFrames ==
    /\ At("user", "clearVideo") /\ Goto("user", "clearPackets")
    /\ queueFrame' = <<>>
    /\ UNCHANGED <<shared, packet, audioVars, videoVars, decFrame, inHand, decoder>>

SeekSteps ==
    \/ /\ \/ SeekFlag \/ SeekFile \/ SeekUnlock \/ SeekEnd
          \/ At("user", "clearAudio") /\ SeekClear("audio", "clearVideo")
          \/ At("user", "clearPackets") /\ SeekClear("video", "unlock")
       /\ UNCHANGED <<packet, audioVars, videoVars, softVars>>
    \/ SeekClearFrames

\* Pausing is left to CCLPlayer.
UserStep ==
    \/ (SeekBegin \/ Release) /\ UNCHANGED <<packet, audioVars, videoVars, softVars>>
    \/ SeekSteps

Wakeup ==
    \/ DecodeWake /\ UNCHANGED <<pc, packet, audioVars, videoVars>>
    \/ WakeOnFrames

Next ==
    /\ fault = "none"
    /\ StartSoft \/ DemuxStep \/ CodecFrame \/ DecodVideo \/ UserStep \/ Wakeup

Spec == Init /\ [][Next]_vars

-----------------------------------------------------------------------------
\* What is on its way from the demuxer to decodVideo, and what of it was read
\* before the last seek.
Pipeline ==
    Range(queueFrame) \union decoder \union Range(queue["video"])
        \union (IF decFrame \in {"send", "put"} THEN {inHand} ELSE {})
        \union (IF pc["demux"] \in {"check", "put"} /\ packet # EOF THEN {packet} ELSE {})

Stale == {p \in Pipeline : p.epoch < epoch}

\* When a seek has cleared the frames and the packets, what is still to come from
\* before it is what the decoder keeps back, which a seek does not flush, one frame
\* that codecFrame had in hand and one packet that the demuxer had, and no more.
StaleFramesBounded ==
    ~exit /\ pc["user"] \notin {"clearAudio", "clearVideo", "clearPackets"} =>
        Cardinality(Stale) <= Delay + 2

\* Only codecFrame takes packets while no frame is late, and it takes none.
Flooded ==
    /\ ~exit /\ Len(queue["video"]) > DecodeLimit /\ queueFrame = <<>>
    /\ decFrame \in {"loop", "size"} /\ pc["video"] # "render"

\* Too many packets, and the decoding stops for good: a seek ends it or a release.
FloodIsPermanent == [][Flooded => Flooded' \/ exit' \/ queue'["video"] = <<>>]_vars
=============================================================================
