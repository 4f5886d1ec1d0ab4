---------------------------- MODULE CCLPrepare ----------------------------
(***************************************************************************)
(* The decode thread of CCLFFmpeg (decodeFFmpeg): it opens the input, looks *)
(* at its streams and leaves a CCLAudio and a CCLVideo for start().  Every  *)
(* stream layout up to MaxStreams is an initial state; whether the input    *)
(* opens, its streams are found and a codec opens is up to the environment. *)
(*                                                                          *)
(* The construction of the two players stands inside the loop over the      *)
(* streams, so it is repeated for every stream that follows the first       *)
(* usable one.  Streams are numbered from 1 here and from 0 in the code.    *)
(***************************************************************************)
EXTENDS Integers, Sequences

CONSTANTS
    MaxStreams,     \* bound on the number of streams of an input
    FrameRates,     \* quotients num / den of avg_frame_rate that occur
    NoRate,         \* num or den is 0
    ZeroDivision    \* what 1000 / 0 does: the ABIs shipped differ

ASSUME PrepareAssumption ==
    /\ MaxStreams \in Nat
    /\ FrameRates \subseteq Nat
    /\ NoRate \notin Nat
    /\ ZeroDivision \subseteq {"fault", "zero"}

Stream ==
    {[type |-> type, fps |-> NoRate] : type \in {"audio", "video", "other"}}
        \union {[type |-> "video", fps |-> r] : r \in FrameRates}

VARIABLES
    streams,        \* pFormatCtx->streams
    isOnlyMusic, isOnlySoft,
    pc,             \* where decodeFFmpeg is
    i,              \* the index of its loop
    audiochannels, videochannels,   \* the numbers of the streams in the deques
    cclAudio,       \* the current CCLAudio; object 0 is NULL
    cclVideo,       \* the current CCLVideo; object 0 is NULL
    mimeType,       \* a C++ bool
    exit,           \* CCLFFmpeg::exit
    init_mutex,     \* whether the decode thread holds it
    notices,        \* the calls into Java, in order
    ret             \* what decodeFFmpeg returned

vars == <<streams, isOnlyMusic, isOnlySoft, pc, i, audiochannels, videochannels,
          cclAudio, cclVideo, mimeType, exit, init_mutex, notices, ret>>
input == <<streams, isOnlyMusic, isOnlySoft>>
players == <<audiochannels, videochannels, cclAudio, cclVideo, mimeType>>

\* A codec context is absent, allocated but not opened, or open.
Codec == {"none", "allocated", "open"}

NullAudio == [object |-> 0, streamIndex |-> 0, codec |-> "none", isVideo |-> FALSE]
NullVideo == [object |-> 0, streamIndex |-> 0, codec |-> "none", rate |-> 0,
              frameratebig |-> FALSE, cclAudio |-> 0]

Init ==
    /\ \E n \in 0..MaxStreams : streams \in [1..n -> Stream]
    /\ isOnlyMusic \in BOOLEAN
    /\ isOnlySoft \in BOOLEAN
    /\ pc = "lock"
    /\ i = 0
    /\ audiochannels = <<>> /\ videochannels = <<>>
    /\ cclAudio = NullAudio
    /\ cclVideo = NullVideo
    /\ mimeType = TRUE
    /\ exit = FALSE
    /\ init_mutex = FALSE
    /\ notices = <<>>
    /\ ret = 0

\* Every return sets exit and unlocks init_mutex.
Return(value) ==
    /\ pc' = "returned"
    /\ ret' = value
    /\ exit' = TRUE
    /\ init_mutex' = FALSE

Goto(label) ==
    /\ pc' = label
    /\ UNCHANGED <<ret, exit, init_mutex>>

Notify(notice) == notices' = Append(notices, notice)

-----------------------------------------------------------------------------
Lock ==
    /\ pc = "lock"
    /\ init_mutex' = TRUE
    /\ exit' = FALSE
    /\ pc' = "open"
    /\ UNCHANGED <<input, i, players, notices, ret>>

\* avformat_open_input; the macro WL_FFMPEG_CAN_NOT_OPEN_URL is 5.
OpenInput ==
    /\ pc = "open"
    /\ \/ Goto("find") /\ UNCHANGED notices
       \/ Notify(<<"onError", 5>>) /\ Return(-1)
    /\ UNCHANGED <<input, i, players>>

\* Mutant: the failing path forgets to unlock.
FindStreamInfoLocked ==
    /\ pc = "find"
    /\ \/ Goto("loop") /\ i' = 1 /\ UNCHANGED notices
       \/ /\ Notify(<<"onError", 4>>)
          /\ pc' = "returned" /\ ret' = -1 /\ exit' = TRUE
          /\ UNCHANGED <<i, init_mutex>>
    /\ UNCHANGED <<input, players>>

FindStreamInfo ==
    /\ pc = "find"
    /\ \/ Goto("loop") /\ i' = 1 /\ UNCHANGED notices
       \/ Notify(<<"onError", 4>>) /\ Return(-1) /\ UNCHANGED i
    /\ UNCHANGED <<input, players>>

\* Mutant: the stream is entered at the back of a deque.
ClassifyAtBack ==
    /\ pc = "loop" /\ i <= Len(streams)
    /\ audiochannels' = IF streams[i].type = "audio"
                        THEN Append(audiochannels, i) ELSE audiochannels
    /\ videochannels' = IF /\ streams[i].type = "video" /\ ~isOnlyMusic
                           /\ streams[i].fps # NoRate
                        THEN Append(videochannels, i) ELSE videochannels
    /\ Goto("audio")
    /\ UNCHANGED <<input, i, cclAudio, cclVideo, mimeType, notices>>

\* The stream is entered at the front of a deque, if it can be played.
Classify ==
    /\ pc = "loop" /\ i <= Len(streams)
    /\ audiochannels' = IF streams[i].type = "audio"
                        THEN <<i>> \o audiochannels ELSE audiochannels
    /\ videochannels' = IF /\ streams[i].type = "video" /\ ~isOnlyMusic
                           /\ streams[i].fps # NoRate
                        THEN <<i>> \o videochannels ELSE videochannels
    /\ Goto("audio")
    /\ UNCHANGED <<input, i, cclAudio, cclVideo, mimeType, notices>>

\* getAvCodecContext: the codec context it leaves and the error it reports.
OpenCodec(codec, error) ==
    \/ codec = "none" /\ error \in {3, 4}       \* no decoder, no memory
    \/ codec = "allocated" /\ error = 6         \* avcodec_open2 fails
    \/ codec = "open" /\ error = 0

\* Mutant: the loop goes on after an error.
ReportGoesOn(error, next) ==
    /\ Goto(next)
    /\ IF error = 0 THEN UNCHANGED notices ELSE Notify(<<"onError", error>>)

Report(error, next) ==
    IF error = 0
    THEN Goto(next) /\ UNCHANGED notices
    ELSE Notify(<<"onError", error>>) /\ Return(1)

\* Mutant: only the first audio stream makes a CCLAudio.
MakeAudioOnce ==
    /\ pc = "audio"
    /\ IF audiochannels = <<>> \/ cclAudio # NullAudio
       THEN Goto("video") /\ UNCHANGED <<cclAudio, notices>>
       ELSE \E codec \in Codec, error \in {0, 3, 4, 6} :
               /\ OpenCodec(codec, error)
               /\ cclAudio' = [object |-> 1, streamIndex |-> Head(audiochannels),
                               codec |-> codec, isVideo |-> FALSE]
               /\ Report(error, "video")
    /\ UNCHANGED <<input, i, audiochannels, videochannels, cclVideo, mimeType>>

\* A new CCLAudio replaces the one of the iteration before, which is not freed;
\* setAudioChannel(0) gives it the stream at the front of the deque.
MakeAudio ==
    /\ pc = "audio"
    /\ IF audiochannels = <<>>
       THEN Goto("video") /\ UNCHANGED <<cclAudio, notices>>
       ELSE \E codec \in Codec, error \in {0, 3, 4, 6} :
               /\ OpenCodec(codec, error)
               /\ cclAudio' = [object |-> cclAudio.object + 1,
                               streamIndex |-> Head(audiochannels),
                               codec |-> codec, isVideo |-> FALSE]
               /\ Report(error, "video")
    /\ UNCHANGED <<input, i, audiochannels, videochannels, cclVideo, mimeType>>

\* setVideoChannel divides 1000 by the frame rate: with a rate below one frame
\* a second the thread dies, or goes on with the rate 0.
Rates(fps) ==
    IF fps > 0 THEN {1000 \div fps} ELSE IF "zero" \in ZeroDivision THEN {0} ELSE {}

\* Mutant: only the first video stream makes a CCLVideo.
MakeVideoOnce ==
    /\ pc = "video"
    /\ IF videochannels = <<>> \/ cclVideo # NullVideo
       THEN Goto("check") /\ UNCHANGED <<cclVideo, notices>>
       ELSE LET s == Head(videochannels) IN
            \E codec \in Codec, error \in {0, 3, 4, 6}, rate \in Rates(streams[s].fps) :
               /\ OpenCodec(codec, error)
               /\ cclVideo' = [object |-> 1, streamIndex |-> s, codec |-> codec,
                               rate |-> rate, frameratebig |-> streams[s].fps >= 60,
                               cclAudio |-> cclAudio.object]
               /\ Report(error, "check")
    /\ UNCHANGED <<input, i, audiochannels, videochannels, cclAudio, mimeType>>

MakeVideo ==
    /\ pc = "video"
    /\ IF videochannels = <<>>
       THEN Goto("check") /\ UNCHANGED <<cclVideo, notices>>
       ELSE LET s == Head(videochannels) IN
            \E codec \in Codec, error \in {0, 3, 4, 6}, rate \in Rates(streams[s].fps) :
               /\ OpenCodec(codec, error)
               /\ cclVideo' = [object |-> cclVideo.object + 1,
                               streamIndex |-> s, codec |-> codec,
                               rate |-> rate, frameratebig |-> streams[s].fps >= 60,
                               cclAudio |-> cclAudio.object]
               /\ Report(error, "check")
    /\ UNCHANGED <<input, i, audiochannels, videochannels, cclAudio, mimeType>>

\* SIGFPE in setVideoChannel.
DivideFault ==
    /\ pc = "video"
    /\ videochannels # <<>>
    /\ streams[Head(videochannels)].fps = 0
    /\ "fault" \in ZeroDivision
    /\ pc' = "fault"
    /\ UNCHANGED <<input, i, players, exit, init_mutex, notices, ret>>

\* An int assigned to a bool, as start() will read it: -1 becomes true.
AsBool(n) == n # 0

\* The end of an iteration.  getMimeType returns 0, and -1 stands for software.
EndIteration ==
    /\ pc = "check"
    /\ IF cclAudio = NullAudio /\ cclVideo = NullVideo
       THEN Return(1) /\ UNCHANGED <<i, cclAudio, mimeType, notices>>
       ELSE /\ i' = i + 1
            /\ Goto("loop")
            /\ cclAudio' = [cclAudio EXCEPT !.isVideo =
                               @ \/ (cclAudio # NullAudio /\ cclVideo # NullVideo)]
            /\ IF cclVideo # NullVideo
               THEN /\ mimeType' = AsBool(IF isOnlySoft THEN -1 ELSE 0)
                    /\ Notify(<<"onInitMediacodec", i>>)
               ELSE UNCHANGED <<mimeType, notices>>
    /\ UNCHANGED <<input, audiochannels, videochannels, cclVideo>>

Prepared ==
    /\ pc = "loop" /\ i > Len(streams)
    /\ Notify(<<"onParpared", 0>>)
    /\ Return(0)
    /\ UNCHANGED <<input, i, players>>

Next ==
    \/ Lock \/ OpenInput \/ FindStreamInfo \/ Classify \/ MakeAudio \/ MakeVideo
    \/ DivideFault \/ EndIteration \/ Prepared

Spec == Init /\ [][Next]_vars

-----------------------------------------------------------------------------
Playable(s) ==
    \/ s.type = "audio"
    \/ s.type = "video" /\ ~isOnlyMusic /\ s.fps # NoRate

AudioStreams == {k \in 1..Len(streams) : streams[k].type = "audio"}
VideoStreams == {k \in 1..Len(streams) : streams[k].type = "video" /\ Playable(streams[k])}

IsLast(k, S) == k \in S /\ \A m \in S : m <= k

TypeOK ==
    /\ streams \in Seq(Stream)
    /\ isOnlyMusic \in BOOLEAN /\ isOnlySoft \in BOOLEAN
    /\ pc \in {"lock", "open", "find", "loop", "audio", "video", "check",
               "returned", "fault"}
    /\ i \in Nat
    /\ audiochannels \in Seq(Nat) /\ videochannels \in Seq(Nat)
    /\ cclAudio \in [object : Nat, streamIndex : Nat, codec : Codec, isVideo : BOOLEAN]
    /\ cclVideo \in [object : Nat, streamIndex : Nat, codec : Codec, rate : Nat,
                     frameratebig : BOOLEAN, cclAudio : Nat]
    /\ mimeType \in BOOLEAN /\ exit \in BOOLEAN /\ init_mutex \in BOOLEAN
    /\ notices \in Seq({"onError", "onInitMediacodec", "onParpared"} \X Nat)
    /\ ret \in {-1, 0, 1}

Successful == pc = "returned" /\ ret = 0

\* A successful preparation plays the last audio stream and the last playable
\* video stream of the input, with their codecs open, whatever was created and
\* replaced on the way.
PlaysLastStreams ==
    Successful =>
        /\ IF AudioStreams = {} THEN cclAudio = NullAudio
           ELSE cclAudio.codec = "open" /\ IsLast(cclAudio.streamIndex, AudioStreams)
        /\ IF VideoStreams = {} THEN cclVideo = NullVideo
           ELSE cclVideo.codec = "open" /\ IsLast(cclVideo.streamIndex, VideoStreams)

\* The two players know each other: the CCLVideo synchronises with the CCLAudio
\* that will play, not with one that was replaced, and that CCLAudio leaves
\* the loading notices to the video.
PlayersLinked ==
    Successful =>
        /\ cclVideo # NullVideo => cclVideo.cclAudio = cclAudio.object
        /\ cclAudio # NullAudio => cclAudio.isVideo = (cclVideo # NullVideo)

\* The last notice tells the outcome: it is onParpared exactly when the players are
\* ready, and otherwise an error after which nothing follows.  The user hears nothing
\* at all of an input that was opened and whose first stream is neither audio nor
\* playable video, and of no other input.
NoticesTellOutcome ==
    /\ \A k \in 1..Len(notices) :
          notices[k][1] # "onInitMediacodec" => k = Len(notices) /\ pc = "returned"
    /\ Successful <=> notices # <<>> /\ notices[Len(notices)][1] = "onParpared"
    /\ pc = "returned" =>
          (notices = <<>> <=> i > 0 /\ streams # <<>> /\ ~Playable(streams[1]))

\* From the first playable stream on, each further stream costs one CCLAudio,
\* one CCLVideo and one onInitMediacodec: all but the last objects are leaked.
OneObjectPerLaterStream ==
    Successful =>
        /\ \A k \in AudioStreams :
              k = Len(streams) + 1 - cclAudio.object \/ \E m \in AudioStreams : m < k
        /\ \A k \in VideoStreams :
              \/ k = Len(streams) + 1 - cclVideo.object /\ cclVideo.object = Len(notices) - 1
              \/ \E m \in VideoStreams : m < k

\* Whoever waits for the preparation to end is let in: exit is set and
\* init_mutex is free once decodeFFmpeg has returned, on every path.
ReturnsClean == pc = "returned" => exit /\ ~init_mutex

InLoop == pc \in {"loop", "audio", "video", "check"}

\* The streams the loop has classified are those up to this one.
Classified == IF pc = "loop" THEN i - 1 ELSE i

\* The front of a deque is the last of the streams S classified so far.
FrontIsLast(deque, S) ==
    LET seen == {k \in S : k <= Classified} IN
    IF seen = {} THEN deque = <<>> ELSE deque # <<>> /\ IsLast(Head(deque), seen)

\* A player is there exactly if it has a stream, and plays the one in front.
PlaysFront(player, null, deque) ==
    IF deque = <<>> THEN player = null
    ELSE /\ player.object > 0
         /\ player.codec = "open"
         /\ player.streamIndex = Head(deque)

\* The inductive invariant behind PlaysLastStreams and PlayersLinked: what
\* decodeFFmpeg has built when it is at each of its labels.
PrepareInv ==
    /\ TypeOK
    /\ pc \in {"lock", "open", "find"} =>
          /\ audiochannels = <<>> /\ videochannels = <<>>
          /\ cclAudio = NullAudio /\ cclVideo = NullVideo
    /\ InLoop => i > 0 /\ Classified <= Len(streams)
    /\ InLoop => FrontIsLast(audiochannels, AudioStreams)
    /\ InLoop => FrontIsLast(videochannels, VideoStreams)
    /\ InLoop /\ audiochannels = <<>> => cclAudio = NullAudio
    /\ InLoop /\ videochannels = <<>> => cclVideo = NullVideo
    /\ pc \in {"loop", "video", "check"} => PlaysFront(cclAudio, NullAudio, audiochannels)
    /\ pc \in {"loop", "check"} =>
          /\ PlaysFront(cclVideo, NullVideo, videochannels)
          /\ cclVideo # NullVideo => cclVideo.cclAudio = cclAudio.object
    /\ pc \in {"video", "check"} => ~cclAudio.isVideo
    /\ pc = "loop" /\ cclAudio # NullAudio => cclAudio.isVideo = (cclVideo # NullVideo)
    /\ PlaysLastStreams
    /\ PlayersLinked
=============================================================================
