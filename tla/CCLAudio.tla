----------------------------- MODULE CCLAudio -----------------------------
(***************************************************************************)
(* The audio thread: CCLAudio::getPcmData, called once by initOPenSL       *)
(* through pcmBufferCallBack.  As getPcmData returns 0 on every path,      *)
(* nothing is ever enqueued, OpenSL never calls back, and the thread ends  *)
(* with the first frame that is converted.                                 *)
(***************************************************************************)
EXTENDS CCLPlayStatus

CONSTANT MaxFrames      \* bound: frames the decoder makes of one packet

ASSUME AudioAssumption == MaxFrames \in Nat

VARIABLES
    dstFormatValid,     \* whether the uninitialised dst_format is a sample format
    isReadPacketFinish,
    pending,            \* frames the decoder has ready
    refused,            \* the packet in hand was refused with EAGAIN
    lost                \* a refused packet was given up, not sent again

audioVars == <<dstFormatValid, isReadPacketFinish, pending, refused, lost>>

AudioInit ==
    /\ dstFormatValid \in BOOLEAN
    /\ isReadPacketFinish = TRUE
    /\ pending = 0
    /\ refused = FALSE
    /\ lost = FALSE

\* A packet is taken only when the decoder has nothing more to give.
Decode == IF isReadPacketFinish THEN "get" ELSE "receive"

\* With a video beside it the audio does not watch its queue.
AudioSeek == PlayerSeek("audio", IF "video" \in layout THEN Decode ELSE "size")

AudioWatch ==
    /\ \/ PlayerLoop("audio") \/ AudioSeek \/ PlayerSize("audio")
       \/ PlayerEmpty("audio") \/ PlayerFilled("audio", Decode)
       \/ SetLoad("audio", "setLoad", TRUE, "loop")
       \/ SetLoad("audio", "clearLoad", FALSE, Decode)
       \/ Sleep("audio")
    /\ UNCHANGED audioVars

\* The packet in hand is freed, or left behind: it will not be sent again.
PacketGone ==
    /\ lost' = (lost \/ refused)
    /\ refused' = FALSE

\* A seek makes the thread take a new packet, whatever the decoder has ready.
AudioSeekLoad ==
    /\ SetLoad("audio", "seekLoad", TRUE, "loop")
    /\ isReadPacketFinish' = TRUE
    /\ PacketGone
    /\ UNCHANGED <<dstFormatValid, pending>>

\* getAvpacket and avcodec_send_packet: a decoder that has frames ready refuses.
AudioGet ==
    /\ At("audio", "get") /\ ~exit /\ queue["audio"] # <<>>
    /\ queue' = [queue EXCEPT !["audio"] = Tail(@)]
    /\ refused' = (pending > 0)
    /\ IF pending > 0
       THEN isReadPacketFinish' = FALSE /\ Goto("audio", "receive") /\ UNCHANGED pending
       ELSE \/ /\ pending' \in 0..MaxFrames
               /\ isReadPacketFinish' = FALSE
               /\ Goto("audio", "receive")
            \/ /\ isReadPacketFinish' = TRUE        \* a decoding error
               /\ Goto("audio", "loop")
               /\ UNCHANGED pending
    /\ UNCHANGED <<input, status, uiLoading, completed, format, seek_mutex, fault,
                   dstFormatValid, lost>>

\* On exit the packet is empty: the decoder gives out what it has held back.
AudioGetExit ==
    /\ At("audio", "get") /\ exit
    /\ isReadPacketFinish' = FALSE
    /\ refused' = FALSE
    /\ pending' \in pending..MaxFrames
    /\ Goto("audio", "receive")
    /\ UNCHANGED <<shared, dstFormatValid, lost>>

\* Mutant: a new packet is taken although the decoder may have more frames.
ReceiveDroppedFinishes ==
    /\ At("audio", "receive") /\ pending > 0 /\ ~dstFormatValid
    /\ pending' = pending - 1
    /\ isReadPacketFinish' = TRUE
    /\ PacketGone
    /\ Goto("audio", "loop")
    /\ UNCHANGED <<shared, dstFormatValid>>

\* The resampler rejects an invalid dst_format: the frame and the packet are dropped.
ReceiveDropped ==
    /\ At("audio", "receive") /\ pending > 0 /\ ~dstFormatValid
    /\ pending' = pending - 1
    /\ PacketGone
    /\ Goto("audio", "loop")
    /\ UNCHANGED <<shared, dstFormatValid, isReadPacketFinish>>

\* It accepts a valid one and writes to out_buffer, which is NULL: that may
\* fault; if not, getPcmData breaks out of its loop and the thread is done.
ReceiveConverted ==
    /\ At("audio", "receive") /\ pending > 0 /\ dstFormatValid
    /\ pending' = pending - 1
    /\ \/ fault' = "convert" /\ UNCHANGED pc
       \/ Goto("audio", "done") /\ UNCHANGED fault
    /\ UNCHANGED <<input, status, uiLoading, completed, queue, format, seek_mutex,
                   dstFormatValid, isReadPacketFinish, refused, lost>>

ReceiveNone ==
    /\ At("audio", "receive") /\ pending = 0
    /\ isReadPacketFinish' = TRUE
    /\ PacketGone
    /\ Goto("audio", "loop")
    /\ UNCHANGED <<shared, dstFormatValid, pending>>

Audio ==
    \/ AudioWatch \/ AudioSeekLoad \/ AudioGet \/ AudioGetExit
    \/ ReceiveDropped \/ ReceiveConverted \/ ReceiveNone

AudioWake == Wake("audio") /\ UNCHANGED audioVars
=============================================================================
