--------------------------- MODULE CCLPlayStatus ---------------------------
(***************************************************************************)
(* What the threads of a playing CCLFFmpeg share: the flags of             *)
(* CCLPlayStatus, which no lock protects, the packet queues of the two     *)
(* players, the position of the demuxer in its input and seek_mutex.  The  *)
(* modules of the threads extend this one; CCLPlayer composes them.        *)
(*                                                                         *)
(* The input is a sequence of packets numbered by their time; which stream *)
(* a packet belongs to is up to the input.  A packet remembers the epoch   *)
(* it was read in: the number of seeks carried out before.  A queue is a   *)
(* FIFO channel here: CCLQueue shows that it may be.                       *)
(***************************************************************************)
EXTENDS Naturals, Sequences

CONSTANTS
    Limit,          \* a queue longer than this stops the demuxer: 100 in the code
    FileEnd,        \* bound: the number of packets of the input
    MaxSeeks,       \* bound on the number of seeks
    Layouts,        \* the sets of players decodeFFmpeg may have made
    Streams,        \* the streams the packets of the input may belong to
    Filters,        \* the values of mimeType, of which TRUE allows all FALSE does
    FreepNull       \* what av_freep(NULL) does: "fault" in the libavutil shipped

Players == {"audio", "video"}

ASSUME PlayerAssumption ==
    /\ Limit \in Nat
    /\ FileEnd \in Nat
    /\ MaxSeeks \in Nat
    /\ Layouts \subseteq SUBSET Players
    /\ Streams \subseteq {"audio", "video", "other"}
    /\ Filters \subseteq BOOLEAN
    /\ FreepNull \in {"fault", "return"}

VARIABLES
    layout,         \* which of cclAudio and cclVideo exist
    filter,         \* mimeType: whether video packets pass the bit stream filter
    exit, pause, load, seek,        \* CCLPlayStatus
    uiLoading,      \* the argument of the last onLoad
    completed,      \* how often onComplete was called
    queue,          \* cclAudio->queue and cclVideo->queue
    position,       \* the next packet of pFormatCtx
    epoch,          \* the seeks carried out
    seek_mutex,     \* whether seek() holds it
    fault,          \* what killed the process, or "none"
    pc              \* where each thread is

input == <<layout, filter>>
status == <<exit, pause, load, seek>>
format == <<position, epoch>>
shared == <<input, status, uiLoading, completed, queue, format, seek_mutex, fault>>

Threads == {"demux", "audio", "video", "user"}

Packet == [stream : {"audio", "video", "other"}, time : Nat, epoch : Nat]

\* cclPrepared has called onLoad(true) and CCLPlayStatus starts with load set.
SharedInit ==
    /\ layout \in Layouts
    /\ filter \in Filters
    /\ exit = FALSE /\ pause = FALSE /\ load = TRUE /\ seek = FALSE
    /\ uiLoading = TRUE
    /\ completed = 0
    /\ queue = [p \in Players |-> <<>>]
    /\ position = 0
    /\ epoch = 0
    /\ seek_mutex = FALSE
    /\ fault = "none"
    /\ pc = [t \in Threads |-> IF t = "demux" THEN "start"
                               ELSE IF t = "user" THEN "idle" ELSE "none"]

Goto(t, label) == pc' = [pc EXCEPT ![t] = label]

At(t, label) == pc[t] = label

\* onLoad(flag) in the Java layer; the flag of CCLPlayStatus follows later.
OnLoad(flag) == uiLoading' = flag

-----------------------------------------------------------------------------
\* Steps that CCLAudio::getPcmData and CCLVideo::decodVideo have in common; p is
\* the player and its thread, next the label at which it goes on.  What other
\* modules declare is left to them.

\* The head of the loop: a paused player stays here.
PlayerLoop(p) ==
    /\ At(p, "loop")
    /\ \/ exit /\ Goto(p, "done")
       \/ ~exit /\ ~pause /\ Goto(p, "seek")
    /\ UNCHANGED shared

\* The user is told of the seek first, and the flag is set in a step of its own.
PlayerSeek(p, next) ==
    /\ At(p, "seek")
    /\ IF seek THEN OnLoad(TRUE) /\ Goto(p, "seekLoad")
               ELSE Goto(p, next) /\ UNCHANGED uiLoading
    /\ UNCHANGED <<input, status, completed, queue, format, seek_mutex, fault>>

\* Mutant: the size is not tested.
PlayerSizeUntested(p) ==
    /\ At(p, "size")
    /\ Goto(p, "filled")
    /\ UNCHANGED shared

PlayerSize(p) ==
    /\ At(p, "size")
    /\ Goto(p, IF queue[p] = <<>> THEN "empty" ELSE "filled")
    /\ UNCHANGED shared

PlayerEmpty(p) ==
    /\ At(p, "empty")
    /\ IF load THEN Goto(p, "loop") /\ UNCHANGED uiLoading
               ELSE OnLoad(TRUE) /\ Goto(p, "setLoad")
    /\ UNCHANGED <<input, status, completed, queue, format, seek_mutex, fault>>

PlayerFilled(p, next) ==
    /\ At(p, "filled")
    /\ IF load THEN OnLoad(FALSE) /\ Goto(p, "clearLoad")
               ELSE Goto(p, next) /\ UNCHANGED uiLoading
    /\ UNCHANGED <<input, status, completed, queue, format, seek_mutex, fault>>

\* Mutant: the user is told, the flag is forgotten.
SetLoadForgotten(p, label, flag, next) ==
    /\ At(p, label)
    /\ Goto(p, next)
    /\ UNCHANGED shared

SetLoad(p, label, flag, next) ==
    /\ At(p, label)
    /\ load' = flag
    /\ Goto(p, next)
    /\ UNCHANGED <<input, exit, pause, seek, uiLoading, completed, queue, format,
                   seek_mutex, fault>>

\* getAvpacket on an empty queue: the thread sleeps until a put signals, and may
\* be woken before; on exit it returns an empty packet.
Sleep(p) ==
    /\ At(p, "get") /\ ~exit /\ queue[p] = <<>>
    /\ Goto(p, "wait")
    /\ UNCHANGED shared

Wake(p) ==
    /\ At(p, "wait")
    /\ Goto(p, "get")
    /\ UNCHANGED shared
=============================================================================
