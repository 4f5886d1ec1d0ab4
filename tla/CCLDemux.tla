----------------------------- MODULE CCLDemux -----------------------------
(***************************************************************************)
(* CCLFFmpeg::start: the thread that reads the input and fills the queues. *)
(* CCLFFmpeg::exit, which only a teardown reads, is false exactly between  *)
(* the labels "start" and "done" and needs no variable.                    *)
(***************************************************************************)
EXTENDS CCLPlayStatus

VARIABLES
    packet          \* what av_read_frame returned last: a packet or EOF

EOF == [stream |-> "eof", time |-> 0, epoch |-> 0]

DemuxInit == packet = EOF

\* The threads of the players are started.
Start ==
    /\ At("demux", "start")
    /\ pc' = [t \in Threads |->
                CASE t = "demux" -> "loop"
                  [] t \in layout -> "loop"
                  [] OTHER -> pc[t]]
    /\ UNCHANGED <<shared, packet>>

\* Mutant: exit is not looked at.
LoopDeaf ==
    /\ At("demux", "loop")
    /\ ~pause
    /\ Goto("demux", "audioSize")
    /\ UNCHANGED <<shared, packet>>

Loop ==
    /\ At("demux", "loop")
    /\ \/ exit /\ Goto("demux", "complete")
       \/ ~exit /\ ~pause /\ Goto("demux", "audioSize")
    /\ UNCHANGED <<shared, packet>>

\* Mutant: the size is not tested.
AudioSizeUntested ==
    /\ At("demux", "audioSize")
    /\ Goto("demux", "videoSize")
    /\ UNCHANGED <<shared, packet>>

\* A queue above the limit sends the loop back to its head, after a sleep.
AudioSize ==
    /\ At("demux", "audioSize")
    /\ Goto("demux", IF "audio" \in layout /\ Len(queue["audio"]) > Limit
                     THEN "loop" ELSE "videoSize")
    /\ UNCHANGED <<shared, packet>>

\* Mutant: the size is not tested.
VideoSizeUntested ==
    /\ At("demux", "videoSize")
    /\ Goto("demux", "read")
    /\ UNCHANGED <<shared, packet>>

VideoSize ==
    /\ At("demux", "videoSize")
    /\ Goto("demux", IF "video" \in layout /\ Len(queue["video"]) > Limit
                     THEN "loop" ELSE "read")
    /\ UNCHANGED <<shared, packet>>

\* av_read_frame under seek_mutex; it fails at the end of the input or on an error.
Read ==
    /\ At("demux", "read")
    /\ ~seek_mutex
    /\ \/ /\ position < FileEnd
          /\ position' = position + 1
          /\ \E s \in Streams :
                packet' = [stream |-> s, time |-> position, epoch |-> epoch]
       \/ packet' = EOF /\ UNCHANGED position
    /\ Goto("demux", "check")
    /\ UNCHANGED <<input, status, uiLoading, completed, queue, epoch, seek_mutex, fault>>

\* What was read while the seek flag is set is dropped.
CheckSeek ==
    /\ At("demux", "check")
    /\ Goto("demux", IF seek THEN "loop"
                     ELSE IF packet.stream \in layout THEN "put" ELSE "free")
    /\ UNCHANGED <<shared, packet>>

\* Mutant: push_front in place of push.
PutInFront ==
    /\ At("demux", "put")
    /\ queue' = [queue EXCEPT ![packet.stream] = <<packet>> \o @]
    /\ Goto("demux", "loop")
    /\ UNCHANGED <<input, status, uiLoading, completed, format, seek_mutex, fault, packet>>

Put ==
    /\ At("demux", "put")
    /\ queue' = [queue EXCEPT ![packet.stream] = Append(@, packet)]
    /\ Goto("demux", "loop")
    /\ UNCHANGED <<input, status, uiLoading, completed, format, seek_mutex, fault, packet>>

\* After the bit stream filter av_freep is given the packet's data in place of
\* the address of a pointer to it: it frees what the first bytes point to.
FilterFault ==
    /\ At("demux", "put") /\ packet.stream = "video" /\ filter
    /\ fault' = "filter"
    /\ UNCHANGED <<input, status, uiLoading, completed, queue, format, seek_mutex, pc, packet>>

\* A packet of no player, or none: av_packet_free clears the pointer, and
\* av_freep is given NULL.
Free ==
    /\ At("demux", "free")
    /\ IF FreepNull = "fault"
       THEN fault' = "freep" /\ UNCHANGED pc
       ELSE /\ Goto("demux", IF packet = EOF THEN "eofVideo" ELSE "loop")
            /\ UNCHANGED fault
    /\ UNCHANGED <<input, status, uiLoading, completed, queue, format, seek_mutex, packet>>

\* Mutant: the end of the input ends the playback at once.
EofVideoAtOnce ==
    /\ At("demux", "eofVideo")
    /\ exit' = TRUE
    /\ Goto("demux", "complete")
    /\ UNCHANGED <<input, pause, load, seek, uiLoading, completed, queue, format,
                   seek_mutex, fault, packet>>

\* At the end of the input one drained queue is enough to end the playback.
EofVideo ==
    /\ At("demux", "eofVideo")
    /\ IF "video" \in layout /\ queue["video"] = <<>>
       THEN exit' = TRUE /\ Goto("demux", "complete")
       ELSE UNCHANGED exit /\ Goto("demux", "eofAudio")
    /\ UNCHANGED <<input, pause, load, seek, uiLoading, completed, queue, format,
                   seek_mutex, fault, packet>>

EofAudio ==
    /\ At("demux", "eofAudio")
    /\ IF "audio" \in layout /\ queue["audio"] = <<>>
       THEN exit' = TRUE /\ Goto("demux", "complete")
       ELSE UNCHANGED exit /\ Goto("demux", "loop")
    /\ UNCHANGED <<input, pause, load, seek, uiLoading, completed, queue, format,
                   seek_mutex, fault, packet>>

\* exitByUser is never set, so a release completes the playback as well.
Complete ==
    /\ At("demux", "complete")
    /\ completed' = completed + 1
    /\ Goto("demux", "done")
    /\ UNCHANGED <<input, status, uiLoading, queue, format, seek_mutex, fault, packet>>

Demux ==
    \/ Start \/ Loop \/ AudioSize \/ VideoSize \/ Read \/ CheckSeek \/ Put
    \/ FilterFault \/ Free \/ EofVideo \/ EofAudio \/ Complete
=============================================================================
