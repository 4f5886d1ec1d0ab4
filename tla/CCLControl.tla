---------------------------- MODULE CCLControl ----------------------------
(***************************************************************************)
(* The user's thread: CCLFFmpeg::pause, resume and seek, and the first     *)
(* statement of release, which tells every thread to stop.  seek works on  *)
(* the queues and clocks of the players while their threads run.           *)
(***************************************************************************)
EXTENDS CCLAudio, CCLVideo

Pause ==
    /\ At("user", "idle") /\ ~pause
    /\ pause' = TRUE
    /\ UNCHANGED <<input, exit, load, seek, uiLoading, completed, queue, format,
                   seek_mutex, fault, pc>>

Resume ==
    /\ At("user", "idle") /\ pause
    /\ pause' = FALSE
    /\ UNCHANGED <<input, exit, load, seek, uiLoading, completed, queue, format,
                   seek_mutex, fault, pc>>

\* seek is refused while the player is loading.
SeekBegin ==
    /\ At("user", "idle") /\ ~load /\ epoch < MaxSeeks
    /\ Goto("user", "flag")
    /\ UNCHANGED shared

SeekFlag ==
    /\ At("user", "flag")
    /\ seek' = TRUE
    /\ Goto("user", "seekFile")
    /\ UNCHANGED <<input, exit, pause, load, uiLoading, completed, queue, format,
                   seek_mutex, fault>>

\* avformat_seek_file under seek_mutex; that it failed is not noticed.
SeekFile ==
    /\ At("user", "seekFile") /\ ~seek_mutex
    /\ seek_mutex' = TRUE
    /\ epoch' = epoch + 1
    /\ position' \in 0..FileEnd
    /\ Goto("user", "clearAudio")
    /\ UNCHANGED <<input, status, uiLoading, completed, queue, fault>>

\* Mutant: the queue of the video is not cleared.
SeekClearAudioOnly(p, next) ==
    /\ queue' = IF p = "audio" /\ p \in layout THEN [queue EXCEPT ![p] = <<>>] ELSE queue
    /\ Goto("user", next)
    /\ UNCHANGED <<input, status, uiLoading, completed, format, seek_mutex, fault>>

SeekClear(p, next) ==
    /\ queue' = IF p \in layout THEN [queue EXCEPT ![p] = <<>>] ELSE queue
    /\ Goto("user", next)
    /\ UNCHANGED <<input, status, uiLoading, completed, format, seek_mutex, fault>>

\* Mutant: the clock of the video is not reset.
SeekClocksKept ==
    /\ At("user", "clocks")
    /\ staleShown' = FALSE
    /\ Goto("user", "unlock")
    /\ UNCHANGED <<shared, held, clock>>

\* The clock of the video is reset, then cclAudio->clock without a test for NULL.
SeekClocks ==
    /\ At("user", "clocks")
    /\ clock' = 0
    /\ staleShown' = FALSE
    /\ IF "audio" \in layout
       THEN Goto("user", "unlock") /\ UNCHANGED fault
       ELSE fault' = "audioClock" /\ UNCHANGED pc
    /\ UNCHANGED <<input, status, uiLoading, completed, queue, format, seek_mutex, held>>

SeekUnlock ==
    /\ At("user", "unlock")
    /\ seek_mutex' = FALSE
    /\ Goto("user", "unflag")
    /\ UNCHANGED <<input, status, uiLoading, completed, queue, format, fault>>

SeekEnd ==
    /\ At("user", "unflag")
    /\ seek' = FALSE
    /\ Goto("user", "idle")
    /\ UNCHANGED <<input, exit, pause, load, uiLoading, completed, queue, format,
                   seek_mutex, fault>>

Release ==
    /\ At("user", "idle")
    /\ exit' = TRUE
    /\ Goto("user", "released")
    /\ UNCHANGED <<input, pause, load, seek, uiLoading, completed, queue, format,
                   seek_mutex, fault>>

\* The calls the user may make, and the rest of a seek.
UserCalls == (Pause \/ Resume \/ SeekBegin \/ Release) /\ UNCHANGED <<audioVars, videoVars>>

UserSeeks ==
    \/ /\ \/ SeekFlag \/ SeekFile \/ SeekUnlock \/ SeekEnd
          \/ At("user", "clearAudio") /\ SeekClear("audio", "clearVideo")
          \/ At("user", "clearVideo") /\ SeekClear("video", "clocks")
       /\ UNCHANGED <<audioVars, videoVars>>
    \/ SeekClocks /\ UNCHANGED audioVars
=============================================================================
