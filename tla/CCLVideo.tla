----------------------------- MODULE CCLVideo -----------------------------
(***************************************************************************)
(* The video thread: CCLVideo::decodVideo with codecType 1, the only type  *)
(* start() asks for, which hands packets to the MediaCodec of the Java     *)
(* layer.                                                                  *)
(***************************************************************************)
EXTENDS CCLPlayStatus

VARIABLES
    held,           \* the packet in hand, or Empty
    clock,          \* the time of the packet shown last
    staleShown      \* a packet read before the last seek has moved the clock

videoVars == <<held, clock, staleShown>>

\* A packet with nothing in it: its time is negative in the code, before any other.
Empty == [stream |-> "none", time |-> 0, epoch |-> 0]

InHand == [stream : {"audio", "video", "other", "none"}, time : Nat, epoch : Nat]

VideoInit ==
    /\ held = Empty
    /\ clock = 0
    /\ staleShown = FALSE

VideoWatch ==
    /\ \/ PlayerLoop("video") \/ PlayerSeek("video", "size") \/ PlayerSize("video")
       \/ PlayerEmpty("video") \/ PlayerFilled("video", "get")
       \/ SetLoad("video", "seekLoad", TRUE, "loop")
       \/ SetLoad("video", "setLoad", TRUE, "loop")
       \/ SetLoad("video", "clearLoad", FALSE, "get")
       \/ Sleep("video")
    /\ UNCHANGED videoVars

VideoGet ==
    /\ At("video", "get") /\ ~exit /\ queue["video"] # <<>>
    /\ held' = Head(queue["video"])
    /\ queue' = [queue EXCEPT !["video"] = Tail(@)]
    /\ Goto("video", "show")
    /\ UNCHANGED <<input, status, uiLoading, completed, format, seek_mutex, fault,
                   clock, staleShown>>

\* On exit the packet comes back empty.
VideoGetExit ==
    /\ At("video", "get") /\ exit
    /\ Goto("video", "show")
    /\ UNCHANGED <<shared, videoVars>>

\* The clock is read twice and then written, while seek() resets it: a time before
\* the clock is raised to what the clock is by then.
Compare ==
    /\ At("video", "show") /\ "audio" \in layout
    /\ Goto("video", IF held = Empty \/ held.time < clock THEN "raise" ELSE "setClock")
    /\ UNCHANGED <<shared, videoVars>>

Raise ==
    /\ At("video", "raise")
    /\ held' = [held EXCEPT !.time = clock]
    /\ Goto("video", "setClock")
    /\ UNCHANGED <<shared, clock, staleShown>>

\* Shown or dropped as late, the packet is then gone.
Show ==
    /\ At("video", "setClock")
    /\ clock' = held.time
    /\ staleShown' = (staleShown \/ (held.epoch < epoch /\ held.time # clock))
    /\ held' = Empty
    /\ Goto("video", "loop")
    /\ UNCHANGED shared

\* The log line reads cclAudio->clock before the test for NULL.
ShowWithoutAudio ==
    /\ At("video", "show") /\ "audio" \notin layout
    /\ fault' = "audioClock"
    /\ UNCHANGED <<input, status, uiLoading, completed, queue, format, seek_mutex,
                   pc, videoVars>>

Video ==
    VideoWatch \/ VideoGet \/ VideoGetExit \/ Compare \/ Raise \/ Show \/ ShowWithoutAudio

VideoWake == Wake("video") /\ UNCHANGED videoVars
=============================================================================
