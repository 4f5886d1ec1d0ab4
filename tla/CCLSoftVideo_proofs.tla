------------------------ MODULE CCLSoftVideo_proofs ------------------------
(***************************************************************************)
(* Proofs about the software decoder, for every limit, delay, input and    *)
(* number of seeks: what is left of the time before a seek is bounded, and *)
(* a flood of packets stops the decoding for good.                         *)
(***************************************************************************)
EXTENDS CCLSoftVideo, SequenceTheorems, FiniteSetTheorems, TLAPS

Labels == {"start", "none", "idle", "loop", "audioSize", "videoSize", "read", "check", "put", "free",
           "eofVideo", "eofAudio", "complete", "done", "seek", "seekLoad", "size", "empty",
           "setLoad", "filled", "clearLoad", "getFrame", "waitFrame", "render",
           "flag", "seekFile", "clearAudio", "clearVideo", "clearPackets", "unlock",
           "unflag", "released"}

DecodeLabel == {"none", "loop", "size", "get", "wait", "send", "put", "done"}

Frame == Packet \union {Empty}

AtMost(S, n) == IsFiniteSet(S) /\ Cardinality(S) <= n

TypeOK ==
    /\ layout \subseteq Players /\ filter \in BOOLEAN
    /\ exit \in BOOLEAN /\ pause \in BOOLEAN /\ load \in BOOLEAN /\ seek \in BOOLEAN
    /\ uiLoading \in BOOLEAN /\ completed \in Nat
    /\ queue \in [Players -> Seq(Packet)]
    /\ position \in Nat /\ epoch \in Nat /\ seek_mutex \in BOOLEAN
    /\ fault \in {"none", "filter", "freep"}
    /\ pc \in [Threads -> Labels]
    /\ packet \in Packet \union {EOF}
    /\ decFrame \in DecodeLabel
    /\ inHand \in Frame /\ queueFrame \in Seq(Frame)
    /\ decoder \subseteq Packet /\ AtMost(decoder, Delay)

\* Who has something in hand has one thing, of the kind the place asks for.
HandInv ==
    /\ decFrame = "send" => inHand \in Packet
    /\ pc["demux"] = "put" => packet.stream \in layout
    /\ pc["demux"] = "start" => decFrame = "none"
    /\ "video" \notin layout => queue["video"] = <<>>

\* From the flag of a seek to its end, and the part of it between the change of the
\* position and the last clear.
Seeking == {"seekFile", "clearAudio", "clearVideo", "clearPackets", "unlock", "unflag"}
Clearing == {"clearAudio", "clearVideo", "clearPackets"}

\* While the flag of a seek is set codecFrame ends the round it is in: after the
\* frames were cleared it puts one more at most.
ClearInv ==
    /\ pc["user"] \in Seeking => seek
    /\ pc["user"] = "clearPackets" =>
          \/ queueFrame = <<>>
          \/ Len(queueFrame) = 1 /\ decFrame \in {"loop", "done"}

OldInv == exit \/ pc["user"] \in Clearing \/ AtMost(Stale, Delay + 2)

SoftInv == TypeOK /\ HandInv /\ ClearInv /\ OldInv

-----------------------------------------------------------------------------
\* Sequences of frames and sets of them.

LEMMA RangeOf ==
    ASSUME NEW S, NEW s \in Seq(S)
    PROVE  /\ \A e \in S : Range(Append(s, e)) = Range(s) \union {e}
           /\ Range(s) \subseteq S
           /\ s # <<>> => Range(Tail(s)) \subseteq Range(s) /\ Head(s) \in Range(s)
           /\ \A n \in 0..Len(s) : Range(SubSeq(s, n + 1, Len(s))) \subseteq Range(s)
           /\ Len(s) = 1 => Range(s) = {s[1]} /\ Tail(s) = <<>>
<1>. USE DEF Range
<1>1. ASSUME NEW e \in S PROVE Range(Append(s, e)) = Range(s) \union {e}
  <2>1. /\ DOMAIN Append(s, e) = 1..(Len(s) + 1) /\ Append(s, e)[Len(s) + 1] = e
        /\ \A k \in 1..Len(s) : Append(s, e)[k] = s[k]
        /\ DOMAIN s = 1..Len(s) /\ Len(s) \in Nat
    OBVIOUS
  <2>2. ASSUME NEW x \in Range(Append(s, e)) PROVE x \in Range(s) \union {e}
    BY <2>1, <2>2
  <2>3. ASSUME NEW x \in Range(s) \union {e} PROVE x \in Range(Append(s, e))
    BY <2>1, <2>3
  <2>. QED BY <2>2, <2>3
<1>2. Range(s) \subseteq S
  OBVIOUS
<1>3. s # <<>> => Range(Tail(s)) \subseteq Range(s) /\ Head(s) \in Range(s)
  <2>. SUFFICES ASSUME s # <<>> PROVE Range(Tail(s)) \subseteq Range(s) /\ Head(s) \in Range(s)
    OBVIOUS
  <2>1. /\ DOMAIN s = 1..Len(s) /\ Len(s) \in Nat \ {0} /\ Head(s) = s[1]
        /\ DOMAIN Tail(s) = 1..(Len(s) - 1)
        /\ \A k \in 1..(Len(s) - 1) : Tail(s)[k] = s[k + 1] /\ k + 1 \in 1..Len(s)
    OBVIOUS
  <2>. QED BY <2>1
<1>4. ASSUME NEW n \in 0..Len(s) PROVE Range(SubSeq(s, n + 1, Len(s))) \subseteq Range(s)
  <2>1. /\ DOMAIN s = 1..Len(s) /\ DOMAIN SubSeq(s, n + 1, Len(s)) = 1..(Len(s) - n)
        /\ \A k \in 1..(Len(s) - n) :
              SubSeq(s, n + 1, Len(s))[k] = s[k + n] /\ k + n \in 1..Len(s)
    OBVIOUS
  <2>. QED BY <2>1
<1>5. ASSUME Len(s) = 1 PROVE Range(s) = {s[1]} /\ Tail(s) = <<>>
  <2>1. DOMAIN s = 1..1 /\ s # <<>>
    BY <1>5
  <2>2. Tail(s) \in Seq(S) /\ Len(Tail(s)) = 0
    BY <1>5, <2>1
  <2>3. Tail(s) = <<>>
    BY <2>2, EmptySeq
  <2>4. Range(s) = {s[1]}
    BY <2>1
  <2>. QED BY <2>3, <2>4
<1>. QED BY <1>1, <1>2, <1>3, <1>4, <1>5

LEMMA NoRange == Range(<<>>) = {}
BY DEF Range

LEMMA FewerAtMost ==
    ASSUME NEW S, NEW T \in SUBSET S, NEW n \in Nat, AtMost(S, n)
    PROVE  AtMost(T, n)
BY FS_Subset, FS_CardinalityType DEF AtMost

LEMMA OneMore ==
    ASSUME NEW S, NEW n \in Nat, AtMost(S, n), NEW x
    PROVE  AtMost(S \union {x}, n + 1)
<1>1. IsFiniteSet(S) /\ Cardinality(S) \in Nat /\ Cardinality(S) <= n
  BY FS_CardinalityType DEF AtMost
<1>2. IsFiniteSet(S \union {x})
  BY <1>1, FS_AddElement
<1>3. Cardinality(S \union {x}) \in {Cardinality(S), Cardinality(S) + 1}
  BY <1>1, FS_AddElement
<1>. QED BY <1>1, <1>2, <1>3 DEF AtMost

-----------------------------------------------------------------------------
USE PlayerAssumption, SoftAssumption

LEMMA Moves ==
    ASSUME TypeOK, NEW t \in Threads, NEW label \in Labels, Goto(t, label)
    PROVE  /\ pc' \in [Threads -> Labels] /\ pc'[t] = label
           /\ \A u \in Threads \ {t} : pc'[u] = pc[u]
BY DEF Goto, TypeOK

LEMMA Names ==
    /\ "demux" \in Threads /\ "audio" \in Threads /\ "video" \in Threads /\ "user" \in Threads
    /\ "audio" \in Players /\ "video" \in Players
BY DEF Threads, Players

\* No step but the change of the position makes what is on its way older.
LEMMA NothingAges ==
    ASSUME TypeOK, OldInv, epoch' = epoch, exit => exit',
           pc["user"] \in Clearing => pc'["user"] \in Clearing,
           ~exit' => \A p \in Pipeline' : p \in Pipeline \/ p.epoch = epoch
    PROVE  OldInv'
<1>. SUFFICES ASSUME ~exit', pc'["user"] \notin Clearing PROVE AtMost(Stale', Delay + 2)
  BY DEF OldInv, AtMost
<1>1. AtMost(Stale, Delay + 2)
  BY DEF OldInv
<1>2. Stale' \subseteq Stale
  BY DEF Stale, TypeOK
<1>. QED BY <1>1, <1>2, FewerAtMost

(***************************************************************************)
(* The steps that leave what is between the demuxer and decodVideo alone.   *)
(***************************************************************************)
Aside ==
    /\ TypeOK'
    /\ UNCHANGED <<layout, epoch, packet, inHand, decoder, queueFrame>>
    /\ queue'["video"] = queue["video"]
    /\ exit => exit'
    /\ decFrame' = decFrame \/ {decFrame, decFrame'} \intersect {"send", "put"} = {}
    /\ seek /\ decFrame \in {"loop", "done"} => decFrame' \in {"loop", "done"}
    /\ pc'["demux"] = "start" => decFrame' = "none"
    /\ pc'["demux"] = pc["demux"] \/ pc'["demux"] \notin {"check", "put"}
    /\ pc'["user"] \in Seeking => seek'
    /\ pc'["user"] = "clearPackets" => pc["user"] = "clearPackets"
    /\ pc["user"] \in Clearing => pc'["user"] \in Clearing

LEMMA AsideKeeps == ASSUME SoftInv, Aside PROVE SoftInv'
<1>. USE DEF SoftInv, Aside
<1>1. HandInv'
  BY DEF HandInv
<1>2. ClearInv'
  <2>1. pc["user"] = "clearPackets" => seek
    BY DEF ClearInv, Seeking
  <2>. QED BY <2>1 DEF ClearInv
<1>3. Pipeline' \subseteq Pipeline
  BY DEF Pipeline
<1>. QED BY <1>1, <1>2, <1>3, NothingAges

LEMMA InitKeeps == Init => SoftInv
<1>. SUFFICES ASSUME Init PROVE SoftInv
  OBVIOUS
<1>. USE DEF Init, SharedInit, DemuxInit, AudioInit, VideoInit
<1>1. pc \in [Threads -> Labels] /\ pc["user"] = "idle" /\ pc["demux"] = "start"
  BY DEF Threads, Labels
<1>2. AtMost({}, Delay) /\ AtMost({}, Delay + 2)
  BY FS_EmptySet DEF AtMost
<1>3. TypeOK
  <2>1. layout \subseteq Players /\ filter \in BOOLEAN
    OBVIOUS
  <2>2. queue \in [Players -> Seq(Packet)]
    OBVIOUS
  <2>3. packet \in Packet \union {EOF} /\ inHand \in Frame /\ queueFrame \in Seq(Frame)
    BY DEF Frame
  <2>4. decFrame \in DecodeLabel /\ fault \in {"none", "filter", "freep"}
    BY DEF DecodeLabel
  <2>. QED BY <1>1, <1>2, <2>1, <2>2, <2>3, <2>4 DEF TypeOK
<1>4. HandInv /\ ClearInv
  BY <1>1, Names DEF HandInv, ClearInv, Seeking
<1>5. Stale = {}
  BY <1>1, Names, NoRange DEF Stale, Pipeline
<1>. QED BY <1>2, <1>3, <1>4, <1>5 DEF SoftInv, OldInv

LEMMA WatchAside == ASSUME SoftInv, Watch PROVE Aside
<1>. USE Names DEF SoftInv
<1>1. /\ UNCHANGED <<layout, filter, exit, pause, seek, completed, queue, position, epoch,
                     seek_mutex, fault, packet, decFrame, inHand, decoder, queueFrame>>
      /\ uiLoading' \in BOOLEAN /\ load' \in BOOLEAN
      /\ \E label \in Labels : Goto("video", label)
  BY DEF Watch, PlayerLoop, PlayerSeek, PlayerSize, PlayerEmpty, PlayerFilled, SetLoad, OnLoad,
         shared, input, status, format, softVars, TypeOK, Labels
<1>2. /\ pc' \in [Threads -> Labels] /\ pc'["demux"] = pc["demux"] /\ pc'["user"] = pc["user"]
  BY <1>1, Moves
<1>3. TypeOK'
  BY <1>1, <1>2 DEF TypeOK, AtMost
<1>. QED BY <1>1, <1>2, <1>3 DEF Aside, HandInv, ClearInv

LEMMA VideoAside ==
    ASSUME SoftInv, SleepOnFrames \/ WakeOnFrames \/ GetFrameExit
    PROVE  Aside
<1>. USE Names DEF SoftInv
<1>1. UNCHANGED <<shared, packet, softVars>> /\ \E label \in Labels : Goto("video", label)
  BY DEF SleepOnFrames, WakeOnFrames, GetFrameExit, Labels
<1>2. /\ pc' \in [Threads -> Labels] /\ pc'["demux"] = pc["demux"] /\ pc'["user"] = pc["user"]
  BY <1>1, Moves
<1>3. TypeOK'
  BY <1>1, <1>2 DEF TypeOK, AtMost, shared, input, status, format, softVars
<1>. QED BY <1>1, <1>2, <1>3 DEF Aside, HandInv, ClearInv, shared, input, status, format, softVars

LEMMA DecodeAside ==
    ASSUME SoftInv, (CodecFrame /\ (DecodeLoop \/ DecodeSize \/ DecodeSleep))
                       \/ (DecodeWake /\ UNCHANGED <<pc, packet, audioVars, videoVars>>)
    PROVE  Aside
<1>. USE Names DEF SoftInv
<1>1. /\ UNCHANGED <<shared, inHand, decoder, queueFrame, pc, packet>>
      /\ decFrame \in {"loop", "size", "get", "wait"}
      /\ decFrame' \in {"done", "size", "loop", "get", "wait"}
      /\ decFrame = "loop" => decFrame' = "done" \/ ~seek
  BY DEF CodecFrame, DecodeLoop, DecodeSize, DecodeSleep, DecodeWake
<1>2. TypeOK'
  BY <1>1 DEF TypeOK, AtMost, DecodeLabel, shared, input, status, format
<1>. QED BY <1>1, <1>2 DEF Aside, HandInv, ClearInv, shared, input, status, format

LEMMA StartAside == ASSUME SoftInv, StartSoft PROVE Aside
<1>. USE Names DEF SoftInv
<1>1. /\ UNCHANGED <<shared, packet, inHand, decoder, queueFrame>>
      /\ pc["demux"] = "start" /\ decFrame = "none" /\ decFrame' = "loop"
  BY DEF StartSoft, Start, At, HandInv
<1>2. pc' \in [Threads -> Labels] /\ pc'["demux"] = "loop" /\ pc'["user"] = pc["user"]
  <2>1. pc' = [t \in Threads |-> CASE t = "demux" -> "loop" [] t \in layout -> "loop" [] OTHER -> pc[t]]
    BY DEF StartSoft, Start
  <2>2. "user" \notin layout
    BY DEF TypeOK, Players
  <2>3. \A t \in Threads : pc[t] \in Labels
    BY DEF TypeOK
  <2>. QED BY <2>1, <2>2, <2>3 DEF Labels
<1>3. TypeOK'
  BY <1>1, <1>2 DEF TypeOK, AtMost, DecodeLabel, shared, input, status, format
<1>. QED BY <1>1, <1>2, <1>3 DEF Aside, HandInv, ClearInv, shared, input, status, format

LEMMA DemuxAside ==
    ASSUME SoftInv, DemuxStep,
           Loop \/ AudioSize \/ VideoSize \/ FilterFault \/ Free \/ EofVideo \/ EofAudio \/ Complete
    PROVE  Aside
<1>. USE Names DEF SoftInv
<1>. DEFINE Quiet ==
        /\ UNCHANGED <<layout, filter, pause, load, seek, uiLoading, queue, position, epoch,
                       seek_mutex, packet, softVars>>
        /\ exit' \in BOOLEAN /\ (exit => exit') /\ completed' \in Nat
        /\ fault' \in {"none", "filter", "freep"}
        /\ UNCHANGED pc \/ \E label \in Labels \ {"start", "check", "put"} : Goto("demux", label)
<1>1. Quiet
  <2>. USE DEF DemuxStep, shared, input, status, format, TypeOK, Labels
  <2>1. CASE Loop
    BY <2>1 DEF Loop
  <2>2. CASE AudioSize
    BY <2>2 DEF AudioSize
  <2>3. CASE VideoSize
    BY <2>3 DEF VideoSize
  <2>4. CASE FilterFault
    BY <2>4 DEF FilterFault
  <2>5. CASE Free
    BY <2>5 DEF Free
  <2>6. CASE EofVideo
    BY <2>6 DEF EofVideo
  <2>7. CASE EofAudio
    BY <2>7 DEF EofAudio
  <2>8. CASE Complete
    <3>1. completed \in Nat /\ completed' = completed + 1 /\ Goto("demux", "done")
      BY <2>8 DEF Complete
    <3>2. completed' \in Nat
      BY <3>1
    <3>3. "done" \in Labels \ {"start", "check", "put"}
      OBVIOUS
    <3>. QED BY <2>8, <3>1, <3>2, <3>3 DEF Complete
  <2>. QED BY <2>1, <2>2, <2>3, <2>4, <2>5, <2>6, <2>7, <2>8
<1>2. CASE UNCHANGED pc
  <2>1. TypeOK'
    BY <1>1, <1>2 DEF TypeOK, AtMost, softVars
  <2>. QED BY <1>1, <1>2, <2>1 DEF Aside, HandInv, ClearInv, softVars
<1>3. ASSUME NEW label \in Labels \ {"start", "check", "put"}, Goto("demux", label) PROVE Aside
  <2>1. pc' \in [Threads -> Labels] /\ pc'["demux"] = label /\ pc'["user"] = pc["user"]
    BY <1>3, Moves
  <2>2. TypeOK'
    BY <1>1, <2>1 DEF TypeOK, AtMost, softVars
  <2>. QED BY <1>1, <2>1, <2>2 DEF Aside, HandInv, ClearInv, softVars
<1>. QED BY <1>1, <1>2, <1>3

LEMMA UserAside ==
    ASSUME SoftInv,
           \/ SeekBegin \/ Release \/ SeekFlag \/ SeekUnlock \/ SeekEnd
           \/ At("user", "clearAudio") /\ SeekClear("audio", "clearVideo"),
           UNCHANGED <<packet, audioVars, videoVars, softVars>>
    PROVE  Aside
<1>. USE Names DEF SoftInv
<1>1. /\ UNCHANGED <<layout, filter, pause, load, uiLoading, completed, position, epoch,
                     fault, packet, softVars>>
      /\ exit' \in BOOLEAN /\ (exit => exit') /\ seek' \in BOOLEAN /\ seek_mutex' \in BOOLEAN
  <2>. USE DEF shared, input, status, format, TypeOK
  <2>1. CASE SeekClear("audio", "clearVideo")
    BY <2>1 DEF SeekClear
  <2>2. CASE SeekBegin \/ Release \/ SeekFlag \/ SeekUnlock \/ SeekEnd
    BY <2>2 DEF SeekBegin, Release, SeekFlag, SeekUnlock, SeekEnd
  <2>. QED BY <2>1, <2>2
<1>2. queue' \in [Players -> Seq(Packet)] /\ queue'["video"] = queue["video"]
  <2>1. queue' = queue \/ queue' = [queue EXCEPT !["audio"] = <<>>]
    BY DEF SeekBegin, Release, SeekFlag, SeekUnlock, SeekEnd, SeekClear, shared
  <2>2. queue \in [Players -> Seq(Packet)] /\ <<>> \in Seq(Packet)
    BY DEF TypeOK
  <2>3. queue' = [queue EXCEPT !["audio"] = <<>>] => queue' \in [Players -> Seq(Packet)]
    BY <2>2
  <2>. QED BY <2>1, <2>2, <2>3
<1>3. PICK label \in {"flag", "released", "seekFile", "unflag", "idle", "clearVideo"} :
         /\ Goto("user", label)
         /\ label = "unflag" => pc["user"] = "unlock"
         /\ label = "clearVideo" <=> pc["user"] = "clearAudio"
         /\ pc["user"] \notin {"clearVideo", "clearPackets"}
         /\ label = "seekFile" => seek'
         /\ label \in {"clearVideo", "unflag"} => seek' = seek
  BY DEF SeekBegin, Release, SeekFlag, SeekUnlock, SeekEnd, SeekClear, At,
         shared, input, status, format
<1>4. pc' \in [Threads -> Labels] /\ pc'["user"] = label /\ pc'["demux"] = pc["demux"]
  BY <1>3, Moves DEF Labels
<1>5. TypeOK'
  BY <1>1, <1>2, <1>4 DEF TypeOK, AtMost, softVars
<1>6. /\ pc'["user"] \in Seeking => seek'
      /\ pc'["user"] = "clearPackets" => pc["user"] = "clearPackets"
      /\ pc["user"] \in Clearing => pc'["user"] \in Clearing
  BY <1>3, <1>4 DEF ClearInv, Seeking, Clearing
<1>. QED BY <1>1, <1>2, <1>4, <1>5, <1>6 DEF Aside, HandInv, softVars

(***************************************************************************)
(* The steps that move a packet.                                            *)
(***************************************************************************)

LEMMA ReadKeeps == ASSUME SoftInv, DemuxStep, Read PROVE SoftInv'
<1>. USE Names DEF SoftInv
<1>1. /\ UNCHANGED <<input, status, uiLoading, completed, queue, epoch, seek_mutex, fault, softVars>>
      /\ Goto("demux", "check") /\ pc["demux"] = "read"
      /\ \/ /\ position' = position + 1
            /\ \E s \in Streams : packet' = [stream |-> s, time |-> position, epoch |-> epoch]
         \/ packet' = EOF /\ position' = position
  BY DEF DemuxStep, Read, At
<1>2. pc' \in [Threads -> Labels] /\ pc'["demux"] = "check" /\ pc'["user"] = pc["user"]
  BY <1>1, Moves DEF Labels
<1>3. position \in Nat /\ epoch \in Nat
  BY DEF TypeOK
<1>4. packet' \in Packet \union {EOF} /\ position' \in Nat
  BY <1>1, <1>3 DEF Packet
<1>5. TypeOK'
  BY <1>1, <1>2, <1>4 DEF TypeOK, AtMost, input, status, softVars
<1>6. HandInv' /\ ClearInv'
  BY <1>1, <1>2 DEF HandInv, ClearInv, input, status, softVars
<1>7. \A p \in Pipeline' : p \in Pipeline \/ p.epoch = epoch
  <2>1. packet' = EOF \/ packet'.epoch = epoch
    BY <1>1
  <2>. QED BY <1>1, <2>1 DEF Pipeline, softVars
<1>8. OldInv'
  BY <1>1, <1>2, <1>7, NothingAges DEF status
<1>. QED BY <1>5, <1>6, <1>8

LEMMA CheckKeeps == ASSUME SoftInv, DemuxStep, CheckSeek PROVE SoftInv'
<1>. USE Names DEF SoftInv
<1>1. /\ UNCHANGED <<shared, packet, softVars>> /\ pc["demux"] = "check"
      /\ Goto("demux", IF seek THEN "loop" ELSE IF packet.stream \in layout THEN "put" ELSE "free")
  BY DEF DemuxStep, CheckSeek, At
<1>2. PICK label \in {"loop", "put", "free"} :
         Goto("demux", label) /\ (label = "put" => packet.stream \in layout)
  BY <1>1
<1>3. pc' \in [Threads -> Labels] /\ pc'["demux"] = label /\ pc'["user"] = pc["user"]
  BY <1>2, Moves DEF Labels
<1>4. TypeOK'
  BY <1>1, <1>3 DEF TypeOK, AtMost, shared, input, status, format, softVars
<1>5. HandInv' /\ ClearInv'
  BY <1>1, <1>2, <1>3 DEF HandInv, ClearInv, shared, input, status, softVars
<1>6. Pipeline' \subseteq Pipeline
  BY <1>1 DEF Pipeline, shared, softVars
<1>7. OldInv'
  BY <1>1, <1>3, <1>6, NothingAges DEF shared, status, format
<1>. QED BY <1>4, <1>5, <1>7

LEMMA PutKeeps == ASSUME SoftInv, DemuxStep, Put PROVE SoftInv'
<1>. USE Names DEF SoftInv
<1>1. /\ UNCHANGED <<input, status, uiLoading, completed, format, seek_mutex, fault, packet, softVars>>
      /\ pc["demux"] = "put" /\ Goto("demux", "loop")
      /\ queue' = [queue EXCEPT ![packet.stream] = Append(@, packet)]
  BY DEF DemuxStep, Put, At
<1>2. pc' \in [Threads -> Labels] /\ pc'["demux"] = "loop" /\ pc'["user"] = pc["user"]
  BY <1>1, Moves DEF Labels
<1>3. packet \in Packet /\ packet # EOF /\ packet.stream \in Players
  <2>1. packet.stream \in layout /\ layout \subseteq Players /\ packet \in Packet \union {EOF}
    BY <1>1 DEF TypeOK, HandInv
  <2>2. EOF.stream \notin Players
    BY DEF EOF, Players
  <2>. QED BY <2>1, <2>2
<1>4. queue \in [Players -> Seq(Packet)] /\ queue' \in [Players -> Seq(Packet)]
  BY <1>1, <1>3 DEF TypeOK
<1>5. TypeOK'
  BY <1>1, <1>2, <1>4 DEF TypeOK, AtMost, input, status, format, softVars
<1>6. \/ queue'["video"] = queue["video"]
      \/ packet.stream = "video" /\ queue'["video"] = Append(queue["video"], packet)
  BY <1>1, <1>3, <1>4
<1>7. HandInv' /\ ClearInv'
  BY <1>1, <1>2, <1>6 DEF HandInv, ClearInv, input, status, softVars
<1>8. Range(queue'["video"]) \subseteq Range(queue["video"]) \union {packet}
  <2>1. queue["video"] \in Seq(Packet)
    BY <1>4
  <2>2. Range(Append(queue["video"], packet)) = Range(queue["video"]) \union {packet}
    BY <1>3, <2>1, RangeOf
  <2>. QED BY <1>6, <2>2
<1>9. Pipeline' \subseteq Pipeline
  BY <1>1, <1>2, <1>3, <1>8 DEF Pipeline, softVars
<1>10. OldInv'
  BY <1>1, <1>2, <1>9, NothingAges DEF status, format
<1>. QED BY <1>5, <1>7, <1>10

LEMMA DecodeGetKeeps == ASSUME SoftInv, CodecFrame, DecodeGet PROVE SoftInv'
<1>. USE Names DEF SoftInv
<1>1. /\ UNCHANGED <<input, status, uiLoading, completed, format, seek_mutex, fault,
                     decoder, queueFrame, pc, packet>>
      /\ decFrame = "get" /\ decFrame' = "send" /\ queue["video"] # <<>>
      /\ inHand' = Head(queue["video"])
      /\ queue' = [queue EXCEPT !["video"] = Tail(@)]
  BY DEF CodecFrame, DecodeGet
<1>2. /\ queue \in [Players -> Seq(Packet)] /\ queue["video"] \in Seq(Packet)
      /\ Head(queue["video"]) \in Packet /\ Tail(queue["video"]) \in Seq(Packet)
  BY <1>1 DEF TypeOK
<1>3. queue' \in [Players -> Seq(Packet)] /\ queue'["video"] = Tail(queue["video"])
  BY <1>1, <1>2
<1>4. TypeOK'
  BY <1>1, <1>2, <1>3 DEF TypeOK, AtMost, DecodeLabel, Frame, input, status, format
<1>5. HandInv' /\ ClearInv'
  BY <1>1, <1>2 DEF HandInv, ClearInv, input, status
<1>6. inHand' \in Range(queue["video"]) /\ Range(queue'["video"]) \subseteq Range(queue["video"])
  BY <1>1, <1>2, <1>3, RangeOf
<1>7. Pipeline' \subseteq Pipeline
  BY <1>1, <1>6 DEF Pipeline
<1>8. OldInv'
  BY <1>1, <1>7, NothingAges DEF status, format
<1>. QED BY <1>4, <1>5, <1>8

LEMMA DrainKeeps == ASSUME SoftInv, CodecFrame, DecodeDrain PROVE SoftInv'
<1>. USE Names DEF SoftInv
<1>1. /\ UNCHANGED <<shared, queueFrame, pc, packet>>
      /\ decFrame = "get" /\ decFrame' = "put" /\ exit
      /\ \/ inHand' = Empty /\ decoder' = decoder
         \/ \E frame \in decoder : inHand' = frame /\ decoder' = decoder \ {frame}
  BY DEF CodecFrame, DecodeDrain
<1>2. inHand' \in Frame /\ decoder' \subseteq decoder
  BY <1>1 DEF TypeOK, Frame
<1>3. AtMost(decoder', Delay) /\ decoder' \subseteq Packet
  BY <1>2, FewerAtMost DEF TypeOK
<1>4. TypeOK'
  BY <1>1, <1>2, <1>3 DEF TypeOK, AtMost, DecodeLabel, shared, input, status, format
<1>5. HandInv' /\ ClearInv' /\ OldInv'
  BY <1>1 DEF HandInv, ClearInv, OldInv, AtMost, shared, input, status
<1>. QED BY <1>4, <1>5

\* What a decoder that has received a packet keeps is again within its delay.
LEMMA ReceiveKeeps ==
    ASSUME NEW frames, frames \subseteq Packet, AtMost(frames, Delay + 1), Receive(frames)
    PROVE  /\ decoder' \subseteq Packet /\ AtMost(decoder', Delay) /\ inHand' \in Frame
           /\ decoder' \subseteq frames /\ decFrame' \in {"loop", "put"}
           /\ decFrame' = "put" => inHand' \in frames
<1>1. CASE Cardinality(frames) <= Delay /\ decoder' = frames /\ inHand' = Empty /\ decFrame' = "loop"
  BY <1>1 DEF AtMost, Frame
<1>2. ASSUME NEW frame \in frames, decoder' = frames \ {frame}, inHand' = frame, decFrame' = "put"
      PROVE  /\ decoder' \subseteq Packet /\ AtMost(decoder', Delay) /\ inHand' \in Frame
             /\ decoder' \subseteq frames /\ decFrame' \in {"loop", "put"}
             /\ decFrame' = "put" => inHand' \in frames
  <2>1. IsFiniteSet(frames) /\ Cardinality(frames) \in Nat /\ Cardinality(frames) <= Delay + 1
    BY FS_CardinalityType DEF AtMost
  <2>2. IsFiniteSet(decoder') /\ Cardinality(decoder') = Cardinality(frames) - 1
    BY <1>2, <2>1, FS_RemoveElement
  <2>3. AtMost(decoder', Delay)
    BY <2>1, <2>2 DEF AtMost
  <2>. QED BY <1>2, <2>3 DEF Frame
<1>. QED BY <1>1, <1>2 DEF Receive

LEMMA SendKeeps == ASSUME SoftInv, CodecFrame, Send PROVE SoftInv'
<1>. USE Names DEF SoftInv
<1>1. /\ UNCHANGED <<shared, queueFrame, pc, packet>> /\ decFrame = "send"
      /\ Receive(decoder \union {inHand}) \/ Receive(decoder)
  BY DEF CodecFrame, Send
<1>2. inHand \in Packet /\ decoder \subseteq Packet /\ AtMost(decoder, Delay)
  BY <1>1 DEF HandInv, TypeOK
<1>3. AtMost(decoder, Delay + 1) /\ AtMost(decoder \union {inHand}, Delay + 1)
  <2>1. AtMost(decoder, Delay + 1)
    BY <1>2, FS_CardinalityType DEF AtMost
  <2>. QED BY <1>2, <2>1, OneMore
<1>4. /\ decoder' \subseteq Packet /\ AtMost(decoder', Delay) /\ inHand' \in Frame
      /\ decoder' \subseteq decoder \union {inHand} /\ decFrame' \in {"loop", "put"}
      /\ decFrame' = "put" => inHand' \in decoder \union {inHand}
  <2>1. CASE Receive(decoder \union {inHand})
    <3>1. decoder \union {inHand} \subseteq Packet
      BY <1>2
    <3>. QED BY <1>3, <2>1, <3>1, ReceiveKeeps
  <2>2. CASE Receive(decoder)
    BY <1>2, <1>3, <2>2, ReceiveKeeps
  <2>. QED BY <1>1, <2>1, <2>2
<1>5. TypeOK'
  BY <1>1, <1>4 DEF TypeOK, AtMost, DecodeLabel, shared, input, status, format
<1>6. HandInv' /\ ClearInv'
  BY <1>1, <1>4 DEF HandInv, ClearInv, shared, input, status
<1>7. Pipeline' \subseteq Pipeline
  BY <1>1, <1>4 DEF Pipeline, shared
<1>8. OldInv'
  BY <1>1, <1>7, NothingAges DEF shared, status, format
<1>. QED BY <1>5, <1>6, <1>8

LEMMA PutFrameKeeps == ASSUME SoftInv, CodecFrame, PutFrame PROVE SoftInv'
<1>. USE Names DEF SoftInv
<1>1. /\ UNCHANGED <<shared, decoder, pc, packet>>
      /\ decFrame = "put" /\ decFrame' = "loop" /\ inHand' = Empty
      /\ queueFrame' = Append(queueFrame, inHand)
  BY DEF CodecFrame, PutFrame
<1>2. queueFrame \in Seq(Frame) /\ inHand \in Frame
  BY DEF TypeOK
<1>3. /\ queueFrame' \in Seq(Frame) /\ Range(queueFrame') = Range(queueFrame) \union {inHand}
      /\ queueFrame = <<>> => Len(queueFrame') = 1
  <2>1. Range(queueFrame') = Range(queueFrame) \union {inHand}
    BY <1>1, <1>2, RangeOf
  <2>. QED BY <1>1, <1>2, <2>1
<1>4. TypeOK'
  BY <1>1, <1>3 DEF TypeOK, AtMost, DecodeLabel, Frame, shared, input, status, format
<1>5. HandInv' /\ ClearInv'
  BY <1>1, <1>3 DEF HandInv, ClearInv, shared, input, status
<1>6. Pipeline' \subseteq Pipeline
  BY <1>1, <1>3 DEF Pipeline, shared
<1>7. OldInv'
  BY <1>1, <1>6, NothingAges DEF shared, status, format
<1>. QED BY <1>4, <1>5, <1>7

LEMMA GetFrameKeeps == ASSUME SoftInv, GetFrame PROVE SoftInv'
<1>. USE Names DEF SoftInv
<1>1. /\ UNCHANGED <<shared, packet, decFrame, inHand, decoder>>
      /\ queueFrame # <<>> /\ queueFrame' = Tail(queueFrame)
      /\ Goto("video", "render")
  BY DEF GetFrame
<1>2. pc' \in [Threads -> Labels] /\ pc'["demux"] = pc["demux"] /\ pc'["user"] = pc["user"]
  BY <1>1, Moves DEF Labels
<1>3. /\ queueFrame \in Seq(Frame) /\ queueFrame' \in Seq(Frame)
      /\ Range(queueFrame') \subseteq Range(queueFrame)
      /\ Len(queueFrame) = 1 => queueFrame' = <<>>
  <2>1. queueFrame \in Seq(Frame)
    BY DEF TypeOK
  <2>2. Tail(queueFrame) \in Seq(Frame)
    BY <1>1, <2>1
  <2>. QED BY <1>1, <2>1, <2>2, RangeOf
<1>4. TypeOK'
  BY <1>1, <1>2, <1>3 DEF TypeOK, AtMost, shared, input, status, format
<1>5. HandInv' /\ ClearInv'
  BY <1>1, <1>2, <1>3 DEF HandInv, ClearInv, shared, input, status
<1>6. Pipeline' \subseteq Pipeline
  BY <1>1, <1>2, <1>3 DEF Pipeline, shared
<1>7. OldInv'
  BY <1>1, <1>2, <1>6, NothingAges DEF shared, status, format
<1>. QED BY <1>4, <1>5, <1>7

LEMMA RenderKeeps == ASSUME SoftInv, Render PROVE SoftInv'
<1>. USE Names DEF SoftInv
<1>1. /\ UNCHANGED <<input, status, uiLoading, completed, format, seek_mutex, fault, packet, softVars>>
      /\ Goto("video", "loop")
      /\ \/ queue' = queue
         \/ \E n \in 1..Len(queue["video"]) :
               queue' = [queue EXCEPT !["video"] = SubSeq(@, n + 1, Len(@))]
  BY DEF Render
<1>2. pc' \in [Threads -> Labels] /\ pc'["demux"] = pc["demux"] /\ pc'["user"] = pc["user"]
  BY <1>1, Moves DEF Labels
<1>3. queue["video"] \in Seq(Packet) /\ queue \in [Players -> Seq(Packet)]
  BY DEF TypeOK
<1>4. /\ queue' \in [Players -> Seq(Packet)]
      /\ Range(queue'["video"]) \subseteq Range(queue["video"])
      /\ queue["video"] = <<>> => queue'["video"] = <<>>
  <2>1. CASE queue' = queue
    BY <1>3, <2>1
  <2>2. ASSUME NEW n \in 1..Len(queue["video"]),
               queue' = [queue EXCEPT !["video"] = SubSeq(@, n + 1, Len(@))]
        PROVE  /\ queue' \in [Players -> Seq(Packet)]
               /\ Range(queue'["video"]) \subseteq Range(queue["video"])
               /\ queue["video"] # <<>>
    <3>1. SubSeq(queue["video"], n + 1, Len(queue["video"])) \in Seq(Packet)
          /\ n \in 0..Len(queue["video"]) /\ queue["video"] # <<>>
      BY <1>3
    <3>2. /\ queue'["video"] = SubSeq(queue["video"], n + 1, Len(queue["video"]))
          /\ queue' \in [Players -> Seq(Packet)]
      BY <1>3, <2>2, <3>1
    <3>. QED BY <1>3, <3>1, <3>2, RangeOf
  <2>. QED BY <1>1, <2>1, <2>2
<1>5. TypeOK'
  BY <1>1, <1>2, <1>4 DEF TypeOK, AtMost, input, status, format, softVars
<1>6. HandInv' /\ ClearInv'
  BY <1>1, <1>2, <1>4 DEF HandInv, ClearInv, input, status, softVars
<1>7. Pipeline' \subseteq Pipeline
  BY <1>1, <1>2, <1>4 DEF Pipeline, softVars
<1>8. OldInv'
  BY <1>1, <1>2, <1>7, NothingAges DEF status, format
<1>. QED BY <1>5, <1>6, <1>8

LEMMA SeekFileKeeps ==
    ASSUME SoftInv, SeekFile, UNCHANGED <<packet, audioVars, videoVars, softVars>>
    PROVE  SoftInv'
<1>. USE Names DEF SoftInv
<1>1. /\ UNCHANGED <<input, status, uiLoading, completed, queue, fault, packet, softVars>>
      /\ seek_mutex' = TRUE /\ epoch' = epoch + 1 /\ position' \in 0..FileEnd
      /\ pc["user"] = "seekFile" /\ Goto("user", "clearAudio")
  BY DEF SeekFile, At
<1>2. pc' \in [Threads -> Labels] /\ pc'["user"] = "clearAudio" /\ pc'["demux"] = pc["demux"]
  BY <1>1, Moves DEF Labels
<1>3. epoch \in Nat /\ epoch' \in Nat /\ position' \in Nat
  BY <1>1 DEF TypeOK
<1>4. TypeOK'
  BY <1>1, <1>2, <1>3 DEF TypeOK, AtMost, input, status, softVars
<1>5. HandInv' /\ ClearInv' /\ OldInv'
  BY <1>1, <1>2
  DEF HandInv, ClearInv, OldInv, input, status, softVars, Seeking, Clearing
<1>. QED BY <1>4, <1>5

LEMMA ClearFramesKeeps == ASSUME SoftInv, SeekClearFrames PROVE SoftInv'
<1>. USE Names DEF SoftInv
<1>1. /\ UNCHANGED <<shared, packet, decFrame, inHand, decoder>>
      /\ queueFrame' = <<>> /\ pc["user"] = "clearVideo" /\ Goto("user", "clearPackets")
  BY DEF SeekClearFrames, At
<1>2. pc' \in [Threads -> Labels] /\ pc'["user"] = "clearPackets" /\ pc'["demux"] = pc["demux"]
  BY <1>1, Moves DEF Labels
<1>3. TypeOK'
  BY <1>1, <1>2 DEF TypeOK, AtMost, shared, input, status, format
<1>4. HandInv' /\ ClearInv' /\ OldInv'
  BY <1>1, <1>2 DEF HandInv, ClearInv, OldInv, shared, input, status, Seeking, Clearing
<1>. QED BY <1>3, <1>4

\* With the packets cleared what is on its way is what the decoder keeps back, one
\* frame of codecFrame, in its hand or queued since, and one packet of the demuxer.
LEMMA ClearPacketsKeeps ==
    ASSUME SoftInv, At("user", "clearPackets"), SeekClear("video", "unlock"),
           UNCHANGED <<packet, audioVars, videoVars, softVars>>
    PROVE  SoftInv'
<1>. USE Names DEF SoftInv
<1>1. /\ UNCHANGED <<input, status, uiLoading, completed, format, seek_mutex, fault, packet, softVars>>
      /\ queue' = IF "video" \in layout THEN [queue EXCEPT !["video"] = <<>>] ELSE queue
      /\ pc["user"] = "clearPackets" /\ Goto("user", "unlock")
  BY DEF SeekClear, At
<1>2. pc' \in [Threads -> Labels] /\ pc'["user"] = "unlock" /\ pc'["demux"] = pc["demux"]
  BY <1>1, Moves DEF Labels
<1>3. queue' \in [Players -> Seq(Packet)] /\ queue'["video"] = <<>>
  <2>1. queue \in [Players -> Seq(Packet)] /\ <<>> \in Seq(Packet)
    BY DEF TypeOK
  <2>2. [queue EXCEPT !["video"] = <<>>] \in [Players -> Seq(Packet)]
    BY <2>1
  <2>3. "video" \notin layout => queue["video"] = <<>>
    BY DEF HandInv
  <2>. QED BY <1>1, <2>1, <2>2, <2>3
<1>4. TypeOK'
  BY <1>1, <1>2, <1>3 DEF TypeOK, AtMost, input, status, format, softVars
<1>5. HandInv' /\ ClearInv'
  BY <1>1, <1>2, <1>3 DEF HandInv, ClearInv, input, status, softVars, Seeking
<1>6. PICK frame : Range(queueFrame) \union (IF decFrame \in {"send", "put"} THEN {inHand} ELSE {})
                     \subseteq {frame}
  <2>1. CASE queueFrame = <<>>
    BY <2>1, NoRange
  <2>2. CASE Len(queueFrame) = 1 /\ decFrame \in {"loop", "done"}
    <3>1. Range(queueFrame) = {queueFrame[1]}
      BY <2>2, RangeOf DEF TypeOK
    <3>. QED BY <2>2, <3>1
  <2>. QED BY <1>1, <2>1, <2>2 DEF ClearInv
<1>7. Pipeline' \subseteq (decoder \union {frame}) \union {packet}
  BY <1>1, <1>2, <1>3, <1>6, NoRange DEF Pipeline, softVars
<1>8. AtMost((decoder \union {frame}) \union {packet}, Delay + 2)
  <2>. DEFINE kept == decoder \union {frame}
  <2>1. AtMost(decoder, Delay)
    BY DEF TypeOK
  <2>2. AtMost(kept, Delay + 1)
    BY <2>1, OneMore
  <2>3. Delay + 1 \in Nat /\ (Delay + 1) + 1 = Delay + 2
    OBVIOUS
  <2>. HIDE DEF kept
  <2>4. AtMost(kept \union {packet}, (Delay + 1) + 1)
    BY <2>2, <2>3, OneMore
  <2>. USE DEF kept
  <2>. QED BY <2>3, <2>4
<1>9. OldInv'
  <2>1. Stale' \subseteq (decoder \union {frame}) \union {packet}
    BY <1>7 DEF Stale
  <2>2. AtMost(Stale', Delay + 2)
    BY <1>8, <2>1, FewerAtMost
  <2>. QED BY <2>2 DEF OldInv, AtMost
<1>. QED BY <1>4, <1>5, <1>9

LEMMA StepKeeps == ASSUME SoftInv, [Next]_vars PROVE SoftInv'
<1>1. CASE UNCHANGED vars
  BY <1>1 DEF SoftInv, TypeOK, HandInv, ClearInv, OldInv, AtMost, Stale, Pipeline, vars,
              shared, input, status, format, softVars
<1>2. CASE StartSoft
  BY <1>2, StartAside, AsideKeeps
<1>3. CASE DemuxStep
  <2>1. CASE Loop \/ AudioSize \/ VideoSize \/ FilterFault \/ Free \/ EofVideo \/ EofAudio \/ Complete
    BY <1>3, <2>1, DemuxAside, AsideKeeps
  <2>2. CASE Read
    BY <1>3, <2>2, ReadKeeps
  <2>3. CASE CheckSeek
    BY <1>3, <2>3, CheckKeeps
  <2>4. CASE Put
    BY <1>3, <2>4, PutKeeps
  <2>5. ~Start
    BY <1>3 DEF DemuxStep, Start
  <2>. QED BY <1>3, <2>1, <2>2, <2>3, <2>4, <2>5 DEF DemuxStep, Demux
<1>4. CASE CodecFrame
  <2>1. CASE DecodeLoop \/ DecodeSize \/ DecodeSleep
    BY <1>4, <2>1, DecodeAside, AsideKeeps
  <2>2. CASE DecodeGet
    BY <1>4, <2>2, DecodeGetKeeps
  <2>3. CASE DecodeDrain
    BY <1>4, <2>3, DrainKeeps
  <2>4. CASE Send
    BY <1>4, <2>4, SendKeeps
  <2>5. CASE PutFrame
    BY <1>4, <2>5, PutFrameKeeps
  <2>. QED BY <1>4, <2>1, <2>2, <2>3, <2>4, <2>5 DEF CodecFrame
<1>5. CASE DecodVideo
  <2>1. CASE Watch
    BY <2>1, WatchAside, AsideKeeps
  <2>2. CASE SleepOnFrames \/ GetFrameExit
    BY <2>2, VideoAside, AsideKeeps
  <2>3. CASE GetFrame
    BY <2>3, GetFrameKeeps
  <2>4. CASE Render
    BY <2>4, RenderKeeps
  <2>. QED BY <1>5, <2>1, <2>2, <2>3, <2>4 DEF DecodVideo
<1>6. CASE UserStep
  <2>1. CASE SeekFile /\ UNCHANGED <<packet, audioVars, videoVars, softVars>>
    BY <2>1, SeekFileKeeps
  <2>2. CASE At("user", "clearPackets") /\ SeekClear("video", "unlock")
                /\ UNCHANGED <<packet, audioVars, videoVars, softVars>>
    BY <2>2, ClearPacketsKeeps
  <2>3. CASE SeekClearFrames
    BY <2>3, ClearFramesKeeps
  <2>4. CASE /\ \/ SeekBegin \/ Release \/ SeekFlag \/ SeekUnlock \/ SeekEnd
                \/ At("user", "clearAudio") /\ SeekClear("audio", "clearVideo")
             /\ UNCHANGED <<packet, audioVars, videoVars, softVars>>
    BY <2>4, UserAside, AsideKeeps
  <2>. QED BY <1>6, <2>1, <2>2, <2>3, <2>4 DEF UserStep, SeekSteps
<1>7. CASE Wakeup
  BY <1>7, DecodeAside, VideoAside, AsideKeeps DEF Wakeup
<1>. QED BY <1>1, <1>2, <1>3, <1>4, <1>5, <1>6, <1>7 DEF Next

-----------------------------------------------------------------------------
\* The types of the state, what the threads may have in hand, what the clears of a
\* seek leave to codecFrame and how much is left from before it: the invariant of
\* the software decoder.
THEOREM SoftInvariant == Spec => []SoftInv
<1>1. Init => SoftInv
  BY InitKeeps
<1>2. SoftInv /\ [Next]_vars => SoftInv'
  BY StepKeeps
<1>. QED BY <1>1, <1>2, PTL DEF Spec

\* Once the clears of a seek are through, what is still to come from before it is what
\* the decoder keeps back, one frame of codecFrame and one packet of the demuxer.
THEOREM StaleBounded == Spec => []StaleFramesBounded
<1>1. SoftInv => StaleFramesBounded
  BY DEF SoftInv, OldInv, StaleFramesBounded, Clearing, AtMost
<1>. QED BY <1>1, SoftInvariant, PTL

\* A step from a flood that neither ends playback nor empties the packets.
LEMMA FloodStays ==
    ASSUME SoftInv, [Next]_vars, Flooded, ~exit', queue'["video"] # <<>>
    PROVE  Flooded'
<1>. USE Names DEF SoftInv
<1>. DEFINE Long == Len(queue'["video"]) > DecodeLimit
            Calm == queueFrame' = <<>> /\ decFrame' \in {"loop", "size"}
            Still == pc'["video"] # "render"
<1>1. /\ Len(queue["video"]) > DecodeLimit /\ queueFrame = <<>> /\ ~exit
      /\ decFrame \in {"loop", "size"} /\ pc["video"] # "render"
  BY DEF Flooded
<1>2. SUFFICES Long /\ Calm /\ Still
  BY DEF Flooded
<1>3. queue \in [Players -> Seq(Packet)] /\ queue["video"] \in Seq(Packet)
  BY DEF TypeOK
<1>4. CASE UNCHANGED vars
  BY <1>1, <1>4 DEF vars, shared, softVars
<1>5. CASE StartSoft
  <2>1. decFrame = "none"
    BY <1>5 DEF StartSoft, Start, At, HandInv
  <2>. QED BY <1>1, <2>1
<1>6. CASE DemuxStep
  <2>1. UNCHANGED softVars /\ Calm
    BY <1>1, <1>6 DEF DemuxStep, softVars
  <2>2. pc'["video"] = pc["video"]
    BY <1>6 DEF DemuxStep, Demux, At, Goto, Start, Loop, AudioSize, VideoSize, Read, CheckSeek, Put,
                FilterFault, Free, EofVideo, EofAudio, Complete, shared, TypeOK
  <2>3. queue' = queue \/ Put
    BY <1>6 DEF DemuxStep, Demux, Start, Loop, AudioSize, VideoSize, Read, CheckSeek,
                FilterFault, Free, EofVideo, EofAudio, Complete, shared, input, status
  <2>4. CASE Put
    <3>1. packet.stream \in Players /\ packet \in Packet
      <4>1. packet.stream \in layout /\ layout \subseteq Players /\ packet \in Packet \union {EOF}
        BY <2>4 DEF Put, At, TypeOK, HandInv
      <4>2. EOF.stream \notin Players
        BY DEF EOF, Players
      <4>. QED BY <4>1, <4>2
    <3>2. queue'["video"] \in {queue["video"], Append(queue["video"], packet)}
      BY <1>3, <2>4 DEF Put
    <3>3. /\ Len(Append(queue["video"], packet)) = Len(queue["video"]) + 1
          /\ Len(queue["video"]) \in Nat
      BY <1>3, <3>1
    <3>4. Long
      BY <1>1, <3>2, <3>3, SoftAssumption
    <3>. QED BY <1>1, <2>1, <2>2, <3>4
  <2>. QED BY <1>1, <2>1, <2>2, <2>3, <2>4
<1>7. CASE CodecFrame
  <2>1. DecodeLoop \/ DecodeSize
    BY <1>1, <1>7 DEF CodecFrame, DecodeGet, DecodeSleep, DecodeDrain, Send, PutFrame
  <2>2. Calm /\ UNCHANGED <<queue, pc>>
    BY <1>1, <1>7, <2>1 DEF CodecFrame, DecodeLoop, DecodeSize, shared
  <2>. QED BY <1>1, <2>2
<1>8. CASE DecodVideo
  <2>1. Watch \/ SleepOnFrames
    BY <1>1, <1>8 DEF DecodVideo, GetFrame, GetFrameExit, Render, At
  <2>2. UNCHANGED <<queue, softVars>>
    BY <2>1 DEF Watch, SleepOnFrames, PlayerLoop, PlayerSeek, PlayerSize, PlayerEmpty, PlayerFilled,
                SetLoad, shared, input, status, format
  <2>3. Still
    BY <2>1 DEF Watch, SleepOnFrames, PlayerLoop, PlayerSeek, PlayerSize, PlayerEmpty, PlayerFilled,
                SetLoad, Goto, TypeOK
  <2>. QED BY <1>1, <2>2, <2>3 DEF softVars
<1>9. CASE UserStep
  <2>1. /\ queueFrame' \in {queueFrame, <<>>} /\ UNCHANGED decFrame
        /\ queue'["video"] = queue["video"] \/ queue'["video"] = <<>>
    BY <1>3, <1>9
    DEF UserStep, SeekSteps, SeekBegin, Release, SeekFlag, SeekFile, SeekUnlock, SeekEnd,
        SeekClear, SeekClearFrames, shared, input, status, softVars
  <2>2. pc'["video"] = pc["video"]
    BY <1>9
    DEF UserStep, SeekSteps, SeekBegin, Release, SeekFlag, SeekFile, SeekUnlock, SeekEnd,
        SeekClear, SeekClearFrames, Goto, At, shared, TypeOK
  <2>. QED BY <1>1, <2>1, <2>2
<1>10. CASE Wakeup
  <2>1. WakeOnFrames
    BY <1>1, <1>10 DEF Wakeup, DecodeWake
  <2>2. pc'["video"] = "getFrame"
    BY <2>1 DEF WakeOnFrames, Goto, TypeOK
  <2>. QED BY <1>1, <2>1, <2>2 DEF WakeOnFrames, shared, softVars
<1>. QED BY <1>4, <1>5, <1>6, <1>7, <1>8, <1>9, <1>10 DEF Next

\* codecFrame takes no packet while more than DecodeLimit are queued, decodVideo
\* takes packets away only behind a late frame, and the demuxer only adds them: once
\* there are too many of them and no frame is left, nothing is decoded until a seek
\* clears the packets or a release ends everything.
THEOREM FloodStopsDecoding == Spec => FloodIsPermanent
<1>1. SoftInv /\ [Next]_vars => [Flooded => Flooded' \/ exit' \/ queue'["video"] = <<>>]_vars
  BY FloodStays
<1>. QED BY <1>1, SoftInvariant, PTL DEF Spec, FloodIsPermanent
=============================================================================
