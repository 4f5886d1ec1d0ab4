----------------------------- MODULE CCLPlayer -----------------------------
(***************************************************************************)
(* A playing CCLFFmpeg: the demuxer, the audio thread, the video thread    *)
(* and the user's thread over the state they share.                        *)
(***************************************************************************)
EXTENDS CCLControl, CCLDemux

\* What the properties remember of the past.
VARIABLES
    unplayed,       \* the packets queued for a player since the last seek it has yet to take
    ended           \* the end of the input was read last, and no seek has been since

history == <<unplayed, ended>>

vars == <<shared, pc, packet, audioVars, videoVars, history>>

Init ==
    /\ SharedInit /\ DemuxInit /\ AudioInit /\ VideoInit
    /\ unplayed = [p \in Players |-> {}]
    /\ ended = FALSE

Queues ==
    /\ unplayed' = IF queue' # queue /\ packet.epoch = epoch
                   THEN [unplayed EXCEPT ![packet.stream] = @ \union {packet}]
                   ELSE unplayed
    /\ ended' = IF At("demux", "read") THEN packet' = EOF ELSE ended

Plays(p) ==
    /\ unplayed' = IF queue' # queue
                   THEN [unplayed EXCEPT ![p] = @ \ {Head(queue[p])}]
                   ELSE unplayed
    /\ UNCHANGED ended

Moved ==
    IF epoch' # epoch
    THEN unplayed' = [p \in Players |-> {}] /\ ended' = FALSE
    ELSE UNCHANGED history

DemuxStep == Demux /\ UNCHANGED <<audioVars, videoVars>> /\ Queues
AudioStep == Audio /\ UNCHANGED <<packet, videoVars>> /\ Plays("audio")
VideoStep == Video /\ UNCHANGED <<packet, audioVars>> /\ Plays("video")
CallStep == UserCalls /\ UNCHANGED packet /\ Moved
SeekStep == UserSeeks /\ UNCHANGED packet /\ Moved
UserStep == CallStep \/ SeekStep

\* A wakeup that no put signalled.
AudioWoken == AudioWake /\ UNCHANGED <<packet, videoVars, history>>
VideoWoken == VideoWake /\ UNCHANGED <<packet, audioVars, history>>
SpuriousWake == AudioWoken \/ VideoWoken

\* After a fault the process is gone.
Next ==
    /\ fault = "none"
    /\ DemuxStep \/ AudioStep \/ VideoStep \/ UserStep \/ SpuriousWake

Spec == Init /\ [][Next]_vars

\* The threads are scheduled, av_read_frame returns, and a seek that has begun
\* is carried through; the signal of a put wakes a sleeping getter.
Fairness ==
    /\ WF_vars(fault = "none" /\ DemuxStep)
    /\ WF_vars(fault = "none" /\ AudioStep)
    /\ WF_vars(fault = "none" /\ VideoStep)
    /\ WF_vars(fault = "none" /\ SeekStep)
    /\ WF_vars(fault = "none" /\ queue["audio"] # <<>> /\ AudioWoken)
    /\ WF_vars(fault = "none" /\ queue["video"] # <<>> /\ VideoWoken)

FairSpec == Spec /\ Fairness

-----------------------------------------------------------------------------
DemuxLabel == {"start", "loop", "audioSize", "videoSize", "read", "check", "put",
               "free", "eofVideo", "eofAudio", "complete", "done"}
PlayerLabel == {"none", "loop", "seek", "seekLoad", "size", "empty", "setLoad",
                "filled", "clearLoad", "get", "wait", "receive", "show", "raise", "setClock",
                "done"}
UserLabel == {"idle", "flag", "seekFile", "clearAudio", "clearVideo", "clocks", "unlock",
              "unflag", "released"}

TypeOK ==
    /\ layout \in SUBSET Players
    /\ filter \in BOOLEAN
    /\ exit \in BOOLEAN /\ pause \in BOOLEAN /\ load \in BOOLEAN /\ seek \in BOOLEAN
    /\ uiLoading \in BOOLEAN
    /\ completed \in Nat
    /\ queue \in [Players -> Seq(Packet)]
    /\ position \in Nat
    /\ epoch \in Nat
    /\ seek_mutex \in BOOLEAN
    /\ fault \in {"none", "filter", "freep", "convert", "audioClock"}
    /\ pc \in [Threads -> DemuxLabel \union PlayerLabel \union UserLabel]
    /\ packet \in Packet \union {EOF}
    /\ dstFormatValid \in BOOLEAN /\ isReadPacketFinish \in BOOLEAN
    /\ pending \in Nat
    /\ refused \in BOOLEAN /\ lost \in BOOLEAN
    /\ held \in InHand
    /\ clock \in Nat
    /\ staleShown \in BOOLEAN
    /\ unplayed \in [Players -> SUBSET Packet]
    /\ ended \in BOOLEAN

\* Between avformat_seek_file and the end of its clearing a seek is working.
Seeking == pc["user"] \in {"clearAudio", "clearVideo", "clocks"}

\* The size is tested and the packet put in different critical sections, with
\* a read in between: a queue passes the limit by one packet and no more.
Backpressure == \A p \in Players : Len(queue[p]) <= Limit + 1

\* p before q in the order in which the input was read.
Before(p, q) == p.epoch < q.epoch \/ (p.epoch = q.epoch /\ p.time < q.time)

\* A player gets packets in the order they were read, each stream its own.
QueuesOrdered ==
    \A p \in Players :
        /\ \A k \in 1..Len(queue[p]) : queue[p][k].stream = p
        /\ \A k \in 1..(Len(queue[p]) - 1) : Before(queue[p][k], queue[p][k + 1])

Stale(p) == {k \in 1..Len(queue[p]) : queue[p][k].epoch < epoch}

\* After a seek at most one packet from before it is left in the queues
\* together: the one the demuxer had read when it found the seek flag unset.
\* It stands at the front.
OneStalePacket ==
    ~Seeking =>
        /\ \A p \in Players : Stale(p) \subseteq {1}
        /\ Stale("audio") = {} \/ Stale("video") = {}

\* The clock of the video is the time of a packet read since the last seek,
\* unless a packet from before it was shown afterwards.
VideoClockTrusted ==
    ~Seeking => clock = 0 \/ clock < position \/ staleShown

\* A player is between onLoad and the write of the flag.
Notifying == \E p \in Players : pc[p] \in {"seekLoad", "setLoad", "clearLoad"}

\* What the user was told of loading agrees with the flag seek() goes by, as
\* long as no seek has made both players notify it.
LoadShownRight ==
    ~Notifying /\ (epoch = 0 \/ layout # Players) /\ ~seek => uiLoading = load

\* When the demuxer ends the playback, it has met the end of the input, or an error,
\* and one of the players has taken all that was queued for it since the last seek;
\* what the other has queued is lost.  But a seek may have moved the input since, and
\* cleared the queues: then nothing is played where it went.
EofDrainsOne ==
    [][~exit /\ exit' /\ pc'["user"] # "released" =>
          /\ packet = EOF
          /\ ended => \E p \in layout : unplayed[p] = {}
          /\ ~ended => epoch > 0]_vars

\* A player looks at the size of its queue before it takes from it, in critical
\* sections of their own: only a seek that clears the queue in between makes it
\* sleep in getAvpacket.  The audio beside a video does not look.
SleepNeedsSeek ==
    \A p \in Players :
        pc[p] = "wait" /\ (p = "video" \/ layout = {"audio"}) => epoch > 0

\* A packet the audio decoder refused is lost only after a seek made getPcmData
\* take a new one before it had drained the decoder.
LossNeedsSeek == lost => seek \/ epoch > 0

\* The demuxer goes round the test of the audio queue, which nobody empties: the
\* audio thread has ended over the first frame it converted.
Stalled ==
    /\ pc["audio"] = "done" /\ ~exit
    /\ Len(queue["audio"]) > Limit
    /\ pc["demux"] \in {"loop", "audioSize"}

\* A playback that has stalled stays so, its video with it, until a seek clears
\* the audio queue or a release ends it.
StallIsPermanent == [][Stalled => Stalled' \/ exit' \/ queue'["audio"] = <<>>]_vars

\* The inductive invariant behind Backpressure: what the demuxer has tested since
\* the head of its loop still holds when it puts the packet, to a player that is.
PlayerInv ==
    /\ TypeOK
    /\ Backpressure
    /\ pc["demux"] = "videoSize" /\ "audio" \in layout => Len(queue["audio"]) <= Limit
    /\ pc["demux"] \in {"read", "check", "put"} =>
          \A p \in layout : Len(queue[p]) <= Limit
    /\ pc["demux"] = "put" => packet.stream \in layout

\* When told to stop, the demuxer ends and completes the playback.
ExitCompletes ==
    exit ~> (pc["demux"] = "done" /\ completed = 1) \/ fault # "none"

\* When told to stop, the player threads end, unless one sleeps on its queue:
\* only the noticeThread of the teardown can wake that one.
ExitStopsPlayers ==
    \A p \in Players :
        exit /\ pc[p] # "none" ~> pc[p] \in {"done", "wait"} \/ fault # "none"

\* Told to stop, the playback ends, but for the sleepers.
ExitEndsPlayback == ExitCompletes /\ ExitStopsPlayers

\* mem.h:455 on the argument of av_freep: the address of the pointer to free
\* (start, for a packet of no player and at the end of the input).
FreepGivenPointer == fault # "freep"

\* avcodec.h:4952 on EAGAIN: the packet should be sent again (getPcmData).
RefusedSentAgain == ~lost
=============================================================================
