------------------------- MODULE CCLPlayer_proofs -------------------------
(***************************************************************************)
(* Proofs about the playing threads, for every limit, input and number of  *)
(* seeks.  PlayerInv is inductive and bounds the queues.  For the packets  *)
(* a step is then of one of nine kinds (Kind), and over those the order of *)
(* the queues, what a seek leaves in them and the clock of the video are   *)
(* inductive.  What the players do before the first seek, what they tell   *)
(* the user and how the input ends are proved thread by thread.            *)
(***************************************************************************)
EXTENDS CCLPlayer, TLAPS

USE PlayerAssumption, AudioAssumption

PlayLabel == DemuxLabel \union PlayerLabel \union UserLabel

\* A thread that goes to a label of the model leaves pc a function of its type.
LEMMA GotoType ==
    ASSUME pc \in [Threads -> PlayLabel], NEW t \in Threads, NEW label \in PlayLabel,
           Goto(t, label)
    PROVE  /\ pc' \in [Threads -> PlayLabel]
           /\ pc'[t] = label
           /\ \A u \in Threads \ {t} : pc'[u] = pc[u]
BY DEF Goto

LEMMA InitEstablishes == Init => PlayerInv
<1> SUFFICES ASSUME Init PROVE PlayerInv
  OBVIOUS
<1>1. pc = [t \in Threads |-> IF t = "demux" THEN "start"
                              ELSE IF t = "user" THEN "idle" ELSE "none"]
  BY DEF Init, SharedInit
<1>2. pc \in [Threads -> PlayLabel]
  BY <1>1 DEF PlayLabel, DemuxLabel, PlayerLabel, UserLabel
<1>3. pc["demux"] = "start"
  BY <1>1 DEF Threads
<1>4. queue \in [Players -> Seq(Packet)] /\ \A p \in Players : Len(queue[p]) = 0
  BY DEF Init, SharedInit
<1>5. held \in InHand
  BY DEF Init, VideoInit, Empty, InHand
<1>6. TypeOK
  BY <1>2, <1>4, <1>5 DEF Init, SharedInit, DemuxInit, AudioInit, VideoInit, TypeOK, PlayLabel
<1> QED BY <1>3, <1>4, <1>6 DEF PlayerInv, Backpressure

-----------------------------------------------------------------------------
\* The history stays of its type.
HistoryType == unplayed' \in [Players -> SUBSET Packet] /\ ended' \in BOOLEAN

LEMMA HistoryKeeps ==
    ASSUME TypeOK, \/ Queues \/ Moved \/ UNCHANGED history \/ \E p \in Players : Plays(p)
    PROVE  HistoryType
<1>1. /\ unplayed \in [Players -> SUBSET Packet] /\ ended \in BOOLEAN
      /\ packet \in Packet \union {EOF}
  BY DEF TypeOK
<1>2. [p \in Players |-> {}] \in [Players -> SUBSET Packet]
  OBVIOUS
<1>3. CASE Queues
  <2>1. CASE packet \in Packet
    BY <1>1, <1>3, <2>1 DEF Queues, HistoryType
  <2>2. CASE packet = EOF
    <3>1. [unplayed EXCEPT ![packet.stream] = @ \union {packet}] = unplayed
      BY <1>1, <2>2 DEF EOF, Players
    <3> QED BY <1>1, <1>3, <3>1 DEF Queues, HistoryType
  <2> QED BY <1>1, <2>1, <2>2
<1>4. CASE Moved \/ UNCHANGED history
  BY <1>1, <1>2, <1>4 DEF Moved, HistoryType, history
<1>5. ASSUME NEW p \in Players, Plays(p) PROVE HistoryType
  <2>1. [unplayed EXCEPT ![p] = @ \ {Head(queue[p])}] \in [Players -> SUBSET Packet]
    BY <1>1
  <2> QED BY <1>1, <1>5, <2>1 DEF Plays, HistoryType
<1> QED BY <1>3, <1>4, <1>5

-----------------------------------------------------------------------------
\* The steps of the demuxer.
LEMMA DemuxKeepsType == PlayerInv /\ DemuxStep => TypeOK'
<1> SUFFICES ASSUME PlayerInv, DemuxStep PROVE TypeOK'
  OBVIOUS
<1>0. TypeOK
  BY DEF PlayerInv
<1>H. HistoryType
  BY <1>0, HistoryKeeps DEF DemuxStep
<1> USE <1>0, <1>H
    DEF TypeOK, HistoryType, audioVars, videoVars, input, status, format, shared, DemuxStep
<1>1. pc \in [Threads -> PlayLabel] /\ "demux" \in Threads
  BY DEF PlayLabel, Threads
<1>2. \A label \in DemuxLabel : Goto("demux", label) => pc' \in [Threads -> PlayLabel]
  BY <1>1, GotoType DEF PlayLabel
<1>3. CASE Start
  <2>1. pc' \in [Threads -> PlayLabel]
    BY <1>1, <1>3 DEF Start, PlayLabel, DemuxLabel, PlayerLabel
  <2> QED BY <1>3, <2>1 DEF Start, PlayLabel
<1>4. CASE Loop
  BY <1>2, <1>4 DEF Loop, DemuxLabel, PlayLabel
<1>5. CASE AudioSize
  BY <1>2, <1>5 DEF AudioSize, DemuxLabel, PlayLabel
<1>6. CASE VideoSize
  BY <1>2, <1>6 DEF VideoSize, DemuxLabel, PlayLabel
<1>7. CASE Read
  <2>1. packet' \in Packet \union {EOF} /\ position' \in Nat
    BY <1>7 DEF Read, Packet
  <2> QED BY <1>2, <1>7, <2>1 DEF Read, DemuxLabel, PlayLabel
<1>8. CASE CheckSeek
  BY <1>2, <1>8 DEF CheckSeek, DemuxLabel, PlayLabel
<1>9. CASE Free
  BY <1>2, <1>9 DEF Free, DemuxLabel, PlayLabel
<1>10. CASE FilterFault
  BY <1>10 DEF FilterFault
<1>11. CASE EofVideo
  <2>1. exit' \in BOOLEAN /\ pc' \in [Threads -> PlayLabel]
    BY <1>2, <1>11 DEF EofVideo, DemuxLabel
  <2> QED BY <1>11, <2>1 DEF EofVideo, PlayLabel
<1>12. CASE EofAudio
  <2>1. exit' \in BOOLEAN /\ pc' \in [Threads -> PlayLabel]
    BY <1>2, <1>12 DEF EofAudio, DemuxLabel
  <2> QED BY <1>12, <2>1 DEF EofAudio, PlayLabel
<1>13. CASE Complete
  BY <1>2, <1>13 DEF Complete, DemuxLabel, PlayLabel
<1>14. CASE Put
  <2>1. queue' \in [Players -> Seq(Packet)]
    <3>1. packet \in Packet /\ packet.stream \in Players
      <4>1. packet.stream \in layout
        BY <1>14 DEF Put, At, PlayerInv
      <4>2. packet.stream \in Players
        BY <4>1
      <4>3. packet # EOF
        BY <4>2 DEF EOF, Players
      <4> QED BY <4>2, <4>3
    <3> QED BY <1>14, <3>1 DEF Put
  <2> QED BY <1>2, <1>14, <2>1 DEF Put, DemuxLabel, PlayLabel
<1> QED BY <1>3, <1>4, <1>5, <1>6, <1>7, <1>8, <1>9, <1>10, <1>11, <1>12, <1>13, <1>14
        DEF Demux

-----------------------------------------------------------------------------
\* What the threads but the demuxer do to the part of the state the bound on the
\* queues depends on.
OthersDo ==
    /\ UNCHANGED <<layout, packet>>
    /\ pc'["demux"] = pc["demux"]
    /\ \A p \in Players : Len(queue'[p]) <= Len(queue[p])

\* The steps the two players share keep the types and empty no queue.
LEMMA SharedPlayerSteps ==
    ASSUME TypeOK, NEW p \in Players, NEW next \in PlayerLabel,
           \/ PlayerLoop(p) \/ PlayerSeek(p, next) \/ PlayerSize(p) \/ PlayerEmpty(p)
           \/ PlayerFilled(p, next) \/ Sleep(p) \/ Wake(p)
    PROVE  /\ pc' \in [Threads -> PlayLabel] /\ pc'["demux"] = pc["demux"]
           /\ uiLoading' \in BOOLEAN
           /\ UNCHANGED <<layout, filter, exit, pause, load, seek, completed, queue,
                          position, epoch, seek_mutex, fault>>
<1>1. pc \in [Threads -> PlayLabel] /\ p \in Threads \ {"demux"} /\ "demux" \in Threads
  BY DEF TypeOK, PlayLabel, Threads, Players
<1>2. \A label \in PlayerLabel : Goto(p, label) =>
           pc' \in [Threads -> PlayLabel] /\ pc'["demux"] = pc["demux"]
  BY <1>1, GotoType DEF PlayLabel
<1> USE DEF input, status, format, shared
<1>3. uiLoading \in BOOLEAN
  BY DEF TypeOK
<1>4. CASE PlayerLoop(p)
  BY <1>2, <1>3, <1>4 DEF PlayerLoop, PlayerLabel
<1>5. CASE PlayerSeek(p, next)
  BY <1>2, <1>3, <1>5 DEF PlayerSeek, PlayerLabel, OnLoad
<1>6. CASE PlayerSize(p)
  BY <1>2, <1>3, <1>6 DEF PlayerSize, PlayerLabel
<1>7. CASE PlayerEmpty(p)
  BY <1>2, <1>3, <1>7 DEF PlayerEmpty, PlayerLabel, OnLoad
<1>8. CASE PlayerFilled(p, next)
  BY <1>2, <1>3, <1>8 DEF PlayerFilled, PlayerLabel, OnLoad
<1>9. CASE Sleep(p)
  BY <1>2, <1>3, <1>9 DEF Sleep, PlayerLabel
<1>10. CASE Wake(p)
  BY <1>2, <1>3, <1>10 DEF Wake, PlayerLabel
<1> QED BY <1>4, <1>5, <1>6, <1>7, <1>8, <1>9, <1>10

\* The flag follows the notice.
LEMMA SetLoadType ==
    ASSUME TypeOK, NEW p \in Players, NEW label, NEW flag \in BOOLEAN,
           NEW next \in PlayerLabel, SetLoad(p, label, flag, next)
    PROVE  /\ pc' \in [Threads -> PlayLabel] /\ pc'["demux"] = pc["demux"]
           /\ load' \in BOOLEAN
           /\ UNCHANGED <<layout, filter, exit, pause, seek, uiLoading, completed, queue,
                          position, epoch, seek_mutex, fault>>
<1>1. pc \in [Threads -> PlayLabel] /\ p \in Threads \ {"demux"} /\ "demux" \in Threads
  BY DEF TypeOK, PlayLabel, Threads, Players
<1>2. pc' \in [Threads -> PlayLabel] /\ pc'["demux"] = pc["demux"]
  BY <1>1, GotoType DEF PlayLabel, SetLoad
<1> QED BY <1>2 DEF SetLoad, input, format

\* A player that takes the front packet leaves its queue shorter.
LEMMA TakeType ==
    ASSUME TypeOK, NEW p \in Players, queue[p] # <<>>,
           queue' = [queue EXCEPT ![p] = Tail(@)]
    PROVE  /\ queue' \in [Players -> Seq(Packet)]
           /\ \A r \in Players : Len(queue'[r]) <= Len(queue[r])
           /\ Head(queue[p]) \in Packet
<1>1. queue \in [Players -> Seq(Packet)]
  BY DEF TypeOK
<1>2. Len(Tail(queue[p])) <= Len(queue[p])
  BY <1>1
<1>3. \A r \in Players : Len(queue[r]) \in Nat
  BY <1>1
<1> QED BY <1>1, <1>2, <1>3

LEMMA AudioKeeps == TypeOK /\ AudioStep => TypeOK' /\ OthersDo
<1> SUFFICES ASSUME TypeOK, AudioStep PROVE TypeOK' /\ OthersDo
  OBVIOUS
<1>H. HistoryType
  BY HistoryKeeps DEF AudioStep, Players
<1> USE <1>H DEF HistoryType
<1>1. /\ pc \in [Threads -> PlayLabel] /\ "audio" \in Threads \ {"demux"}
      /\ "demux" \in Threads /\ "audio" \in Players
  BY DEF TypeOK, PlayLabel, Threads, Players
<1>2. \A label \in PlayerLabel : Goto("audio", label) =>
           pc' \in [Threads -> PlayLabel] /\ pc'["demux"] = pc["demux"]
  BY <1>1, GotoType DEF PlayLabel
<1>3. \A p \in Players : Len(queue[p]) \in Nat /\ Len(queue[p]) <= Len(queue[p])
  BY DEF TypeOK
<1>4. pending \in Nat /\ 0..MaxFrames \subseteq Nat /\ pending..MaxFrames \subseteq Nat
  BY DEF TypeOK
<1>5. UNCHANGED <<packet, held, clock, staleShown>>
  BY DEF AudioStep, videoVars
<1>6. Decode \in PlayerLabel
  BY DEF Decode, PlayerLabel
<1> DEFINE Keeps == TypeOK' /\ OthersDo
<1>7. CASE AudioWatch
  <2>1. UNCHANGED audioVars
    BY <1>7 DEF AudioWatch
  <2>2. CASE \/ PlayerLoop("audio") \/ AudioSeek \/ PlayerSize("audio")
             \/ PlayerEmpty("audio") \/ PlayerFilled("audio", Decode) \/ Sleep("audio")
    <3>1. \E next \in PlayerLabel :
             \/ PlayerLoop("audio") \/ PlayerSeek("audio", next) \/ PlayerSize("audio")
             \/ PlayerEmpty("audio") \/ PlayerFilled("audio", next) \/ Sleep("audio")
      BY <1>6, <2>2 DEF AudioSeek, PlayerLabel
    <3>2. /\ pc' \in [Threads -> PlayLabel] /\ pc'["demux"] = pc["demux"]
          /\ uiLoading' \in BOOLEAN
          /\ UNCHANGED <<layout, filter, exit, pause, load, seek, completed, queue,
                         position, epoch, seek_mutex, fault>>
      BY <1>1, <3>1, SharedPlayerSteps
    <3> QED BY <1>3, <1>5, <2>1, <3>2 DEF TypeOK, PlayLabel, OthersDo, audioVars
  <2>3. CASE \/ SetLoad("audio", "setLoad", TRUE, "loop")
             \/ SetLoad("audio", "clearLoad", FALSE, Decode)
    <3>1. /\ pc' \in [Threads -> PlayLabel] /\ pc'["demux"] = pc["demux"]
          /\ load' \in BOOLEAN
          /\ UNCHANGED <<layout, filter, exit, pause, seek, uiLoading, completed, queue,
                         position, epoch, seek_mutex, fault>>
      <4>1. "loop" \in PlayerLabel
        BY DEF PlayerLabel
      <4>2. CASE SetLoad("audio", "setLoad", TRUE, "loop")
        BY <1>1, <4>1, <4>2, SetLoadType
      <4>3. CASE SetLoad("audio", "clearLoad", FALSE, Decode)
        BY <1>1, <1>6, <4>3, SetLoadType
      <4> QED BY <2>3, <4>2, <4>3
    <3> QED BY <1>3, <1>5, <2>1, <3>1 DEF TypeOK, PlayLabel, OthersDo, audioVars
  <2> QED BY <1>7, <2>2, <2>3 DEF AudioWatch
<1>8. CASE AudioSeekLoad
  <2>1. /\ pc' \in [Threads -> PlayLabel] /\ pc'["demux"] = pc["demux"]
        /\ load' \in BOOLEAN
        /\ UNCHANGED <<layout, filter, exit, pause, seek, uiLoading, completed, queue,
                       position, epoch, seek_mutex, fault>>
    BY <1>1, <1>8, SetLoadType DEF AudioSeekLoad, PlayerLabel
  <2> QED BY <1>3, <1>5, <1>8, <2>1 DEF AudioSeekLoad, PacketGone, TypeOK, PlayLabel, OthersDo
<1>9. CASE AudioGet
  <2>1. /\ queue' \in [Players -> Seq(Packet)]
        /\ \A r \in Players : Len(queue'[r]) <= Len(queue[r])
    BY <1>1, <1>9, TakeType DEF AudioGet
  <2>2. /\ pc' \in [Threads -> PlayLabel] /\ pc'["demux"] = pc["demux"]
        /\ pending' \in Nat /\ isReadPacketFinish' \in BOOLEAN
    BY <1>2, <1>4, <1>9 DEF AudioGet, PlayerLabel
  <2> QED BY <1>5, <1>9, <2>1, <2>2
          DEF AudioGet, TypeOK, PlayLabel, OthersDo, input, status, format
<1>10. CASE AudioGetExit
  <2>1. pending' \in Nat /\ pc' \in [Threads -> PlayLabel] /\ pc'["demux"] = pc["demux"]
    BY <1>2, <1>4, <1>10 DEF AudioGetExit, PlayerLabel
  <2> QED BY <1>3, <1>5, <1>10, <2>1
          DEF AudioGetExit, TypeOK, PlayLabel, OthersDo, shared, input, status, format
<1>11. CASE ReceiveDropped
  <2>1. pending' \in Nat /\ pc' \in [Threads -> PlayLabel] /\ pc'["demux"] = pc["demux"]
    BY <1>2, <1>4, <1>11 DEF ReceiveDropped, PlayerLabel
  <2> QED BY <1>3, <1>5, <1>11, <2>1
          DEF ReceiveDropped, PacketGone, TypeOK, PlayLabel, OthersDo, shared, input, status, format
<1>12. CASE ReceiveConverted
  <2>1. /\ pending' \in Nat /\ pc' \in [Threads -> PlayLabel] /\ pc'["demux"] = pc["demux"]
        /\ fault' \in {"convert", fault}
    BY <1>1, <1>2, <1>4, <1>12 DEF ReceiveConverted, PlayerLabel
  <2> QED BY <1>3, <1>5, <1>12, <2>1
          DEF ReceiveConverted, TypeOK, PlayLabel, OthersDo, input, status, format
<1>13. CASE ReceiveNone
  <2>1. pc' \in [Threads -> PlayLabel] /\ pc'["demux"] = pc["demux"]
    BY <1>2, <1>13 DEF ReceiveNone, PlayerLabel
  <2> QED BY <1>3, <1>5, <1>13, <2>1
          DEF ReceiveNone, PacketGone, TypeOK, PlayLabel, OthersDo, shared, input, status, format
<1> QED BY <1>7, <1>8, <1>9, <1>10, <1>11, <1>12, <1>13 DEF AudioStep, Audio

LEMMA VideoKeeps == TypeOK /\ VideoStep => TypeOK' /\ OthersDo
<1> SUFFICES ASSUME TypeOK, VideoStep PROVE TypeOK' /\ OthersDo
  OBVIOUS
<1>H. HistoryType
  BY HistoryKeeps DEF VideoStep, Players
<1> USE <1>H DEF HistoryType
<1>1. /\ pc \in [Threads -> PlayLabel] /\ "video" \in Threads \ {"demux"}
      /\ "demux" \in Threads /\ "video" \in Players
  BY DEF TypeOK, PlayLabel, Threads, Players
<1>2. \A label \in PlayerLabel : Goto("video", label) =>
           pc' \in [Threads -> PlayLabel] /\ pc'["demux"] = pc["demux"]
  BY <1>1, GotoType DEF PlayLabel
<1>3. \A p \in Players : Len(queue[p]) \in Nat /\ Len(queue[p]) <= Len(queue[p])
  BY DEF TypeOK
<1>4. UNCHANGED <<packet, dstFormatValid, isReadPacketFinish, pending, refused, lost>>
  BY DEF VideoStep, audioVars
<1>5. CASE VideoWatch
  <2>1. UNCHANGED videoVars
    BY <1>5 DEF VideoWatch
  <2>2. CASE \/ PlayerLoop("video") \/ PlayerSeek("video", "size") \/ PlayerSize("video")
             \/ PlayerEmpty("video") \/ PlayerFilled("video", "get") \/ Sleep("video")
    <3>1. \E next \in PlayerLabel :
             \/ PlayerLoop("video") \/ PlayerSeek("video", next) \/ PlayerSize("video")
             \/ PlayerEmpty("video") \/ PlayerFilled("video", next) \/ Sleep("video")
      BY <2>2 DEF PlayerLabel
    <3>2. /\ pc' \in [Threads -> PlayLabel] /\ pc'["demux"] = pc["demux"]
          /\ uiLoading' \in BOOLEAN
          /\ UNCHANGED <<layout, filter, exit, pause, load, seek, completed, queue,
                         position, epoch, seek_mutex, fault>>
      BY <1>1, <3>1, SharedPlayerSteps
    <3> QED BY <1>3, <1>4, <2>1, <3>2 DEF TypeOK, PlayLabel, OthersDo, videoVars
  <2>3. CASE \/ SetLoad("video", "seekLoad", TRUE, "loop")
             \/ SetLoad("video", "setLoad", TRUE, "loop")
             \/ SetLoad("video", "clearLoad", FALSE, "get")
    <3>1. "loop" \in PlayerLabel /\ "get" \in PlayerLabel
      BY DEF PlayerLabel
    <3>2. /\ pc' \in [Threads -> PlayLabel] /\ pc'["demux"] = pc["demux"]
          /\ load' \in BOOLEAN
          /\ UNCHANGED <<layout, filter, exit, pause, seek, uiLoading, completed, queue,
                         position, epoch, seek_mutex, fault>>
      BY <1>1, <2>3, <3>1, SetLoadType
    <3> QED BY <1>3, <1>4, <2>1, <3>2 DEF TypeOK, PlayLabel, OthersDo, videoVars
  <2> QED BY <1>5, <2>2, <2>3 DEF VideoWatch
<1>6. CASE VideoGet
  <2>1. /\ queue' \in [Players -> Seq(Packet)]
        /\ \A r \in Players : Len(queue'[r]) <= Len(queue[r])
        /\ Head(queue["video"]) \in Packet
    BY <1>1, <1>6, TakeType DEF VideoGet
  <2>2. held' \in InHand
    BY <1>6, <2>1 DEF VideoGet, Packet, InHand
  <2> QED BY <1>2, <1>4, <1>6, <2>1, <2>2
          DEF VideoGet, TypeOK, PlayLabel, PlayerLabel, OthersDo, input, status, format
<1>7. CASE VideoGetExit \/ Compare
  BY <1>2, <1>3, <1>4, <1>7
     DEF VideoGetExit, Compare, TypeOK, PlayLabel, PlayerLabel, OthersDo, shared, input, status,
         format, videoVars
<1>8. CASE Raise \/ Show
  <2>1. pc' \in [Threads -> PlayLabel] /\ pc'["demux"] = pc["demux"]
    BY <1>2, <1>8 DEF Raise, Show, PlayerLabel
  <2>2. /\ held' \in InHand
        /\ clock' \in Nat /\ staleShown' \in BOOLEAN
    <3>1. CASE Raise
      BY <3>1 DEF Raise, TypeOK, InHand
    <3>2. CASE Show
      BY <3>2 DEF Show, Empty, TypeOK, InHand
    <3> QED BY <1>8, <3>1, <3>2
  <2> QED BY <1>3, <1>4, <1>8, <2>1, <2>2
          DEF Raise, Show, TypeOK, PlayLabel, OthersDo, shared, input, status, format
<1>9. CASE ShowWithoutAudio
  BY <1>1, <1>3, <1>4, <1>9
     DEF ShowWithoutAudio, TypeOK, PlayLabel, OthersDo, input, status, format, videoVars
<1> QED BY <1>5, <1>6, <1>7, <1>8, <1>9 DEF VideoStep, Video

\* A seek clears the queue of a player that exists.
LEMMA ClearType ==
    ASSUME TypeOK, NEW p \in Players, NEW next \in UserLabel, SeekClear(p, next)
    PROVE  /\ queue' \in [Players -> Seq(Packet)]
           /\ \A r \in Players : Len(queue'[r]) <= Len(queue[r])
<1>1. queue \in [Players -> Seq(Packet)] /\ <<>> \in Seq(Packet) /\ Len(<<>>) = 0
  BY DEF TypeOK
<1>2. \A r \in Players : Len(queue[r]) \in Nat
  BY <1>1
<1>3. CASE p \in layout
  <2>1. queue' = [queue EXCEPT ![p] = <<>>]
    BY <1>3 DEF SeekClear
  <2> QED BY <1>1, <1>2, <2>1
<1>4. CASE p \notin layout
  BY <1>1, <1>2, <1>4 DEF SeekClear
<1> QED BY <1>3, <1>4

LEMMA UserKeeps == TypeOK /\ UserStep => TypeOK' /\ OthersDo
<1> SUFFICES ASSUME TypeOK, UserStep PROVE TypeOK' /\ OthersDo
  OBVIOUS
<1>H. HistoryType
  BY HistoryKeeps DEF UserStep, CallStep, SeekStep
<1> USE <1>H DEF HistoryType
<1>1. /\ pc \in [Threads -> PlayLabel] /\ "user" \in Threads \ {"demux"}
      /\ "demux" \in Threads /\ "audio" \in Players /\ "video" \in Players
  BY DEF TypeOK, PlayLabel, Threads, Players
<1>2. \A label \in UserLabel : Goto("user", label) =>
           pc' \in [Threads -> PlayLabel] /\ pc'["demux"] = pc["demux"]
  BY <1>1, GotoType DEF PlayLabel
<1>3. \A p \in Players : Len(queue[p]) \in Nat /\ Len(queue[p]) <= Len(queue[p])
  BY DEF TypeOK
<1>4. UNCHANGED packet
  BY DEF UserStep, CallStep, SeekStep
<1>5. CASE UserCalls
  <2>1. UNCHANGED <<audioVars, videoVars>>
    BY <1>5 DEF UserCalls
  <2>2. CASE Pause \/ Resume
    <3>1. /\ pause' \in BOOLEAN
          /\ UNCHANGED <<layout, filter, exit, load, seek, uiLoading, completed, queue,
                         position, epoch, seek_mutex, fault, pc>>
      BY <2>2 DEF Pause, Resume, input, format
    <3> QED BY <1>3, <1>4, <2>1, <3>1 DEF TypeOK, OthersDo, audioVars, videoVars
  <2>4. CASE SeekBegin
    <3>1. pc' \in [Threads -> PlayLabel] /\ pc'["demux"] = pc["demux"]
      BY <1>2, <2>4 DEF SeekBegin, UserLabel
    <3> QED BY <1>3, <1>4, <2>1, <2>4, <3>1
            DEF SeekBegin, TypeOK, PlayLabel, OthersDo, shared, input, status, format,
                audioVars, videoVars
  <2>5. CASE Release
    <3>1. pc' \in [Threads -> PlayLabel] /\ pc'["demux"] = pc["demux"]
      BY <1>2, <2>5 DEF Release, UserLabel
    <3> QED BY <1>3, <1>4, <2>1, <2>5, <3>1
            DEF Release, TypeOK, PlayLabel, OthersDo, input, format, audioVars, videoVars
  <2> QED BY <1>5, <2>2, <2>4, <2>5 DEF UserCalls
<1>6. CASE SeekClocks /\ UNCHANGED audioVars
  <2>1. /\ pc' \in [Threads -> PlayLabel] /\ pc'["demux"] = pc["demux"]
        /\ fault' \in {"audioClock", fault}
    BY <1>1, <1>2, <1>6 DEF SeekClocks, UserLabel
  <2>2. /\ clock' \in Nat /\ staleShown' \in BOOLEAN
        /\ UNCHANGED <<layout, filter, exit, pause, load, seek, uiLoading, completed, queue,
                       position, epoch, seek_mutex, held>>
    BY <1>6 DEF SeekClocks, input, status, format
  <2>3. fault' \in {"none", "filter", "freep", "convert", "audioClock"}
    BY <2>1 DEF TypeOK
  <2>4. UNCHANGED <<dstFormatValid, isReadPacketFinish, pending, refused, lost>>
    BY <1>6 DEF audioVars
  <2>5. OthersDo
    BY <1>3, <1>4, <2>1, <2>2 DEF OthersDo
  <2>6. TypeOK'
    BY <1>4, <2>1, <2>2, <2>3, <2>4 DEF TypeOK, PlayLabel
  <2> QED BY <2>5, <2>6
<1>7. ASSUME UNCHANGED <<audioVars, videoVars>>, SeekFlag \/ SeekFile \/ SeekUnlock \/ SeekEnd
      PROVE  TypeOK' /\ OthersDo
  <2>1. pc' \in [Threads -> PlayLabel] /\ pc'["demux"] = pc["demux"]
    BY <1>2, <1>7 DEF SeekFlag, SeekFile, SeekUnlock, SeekEnd, UserLabel
  <2>2. /\ UNCHANGED <<layout, filter, exit, pause, load, uiLoading, completed, queue, fault>>
        /\ seek' \in BOOLEAN /\ seek_mutex' \in BOOLEAN
        /\ epoch' \in Nat /\ position' \in Nat
    <3>1. seek \in BOOLEAN /\ seek_mutex \in BOOLEAN /\ epoch \in Nat /\ position \in Nat
      BY DEF TypeOK
    <3>2. CASE SeekFlag
      BY <3>1, <3>2 DEF SeekFlag, input, format
    <3>3. CASE SeekFile
      BY <3>1, <3>3 DEF SeekFile, input, status
    <3>4. CASE SeekUnlock
      BY <3>1, <3>4 DEF SeekUnlock, input, status, format
    <3>5. CASE SeekEnd
      BY <3>1, <3>5 DEF SeekEnd, input, format
    <3> QED BY <1>7, <3>2, <3>3, <3>4, <3>5
  <2> QED BY <1>3, <1>4, <1>7, <2>1, <2>2
          DEF TypeOK, PlayLabel, OthersDo, audioVars, videoVars
<1>8. ASSUME UNCHANGED <<audioVars, videoVars>>, NEW p \in Players, NEW next \in UserLabel,
             SeekClear(p, next)
      PROVE  TypeOK' /\ OthersDo
  <2>1. pc' \in [Threads -> PlayLabel] /\ pc'["demux"] = pc["demux"]
    BY <1>2, <1>8 DEF SeekClear
  <2>2. /\ queue' \in [Players -> Seq(Packet)]
        /\ \A r \in Players : Len(queue'[r]) <= Len(queue[r])
    BY <1>8, ClearType
  <2> QED BY <1>4, <1>8, <2>1, <2>2
          DEF SeekClear, TypeOK, PlayLabel, OthersDo, input, status, format, audioVars, videoVars
<1>9. "clearVideo" \in UserLabel /\ "clocks" \in UserLabel
  BY DEF UserLabel
<1> QED BY <1>1, <1>5, <1>6, <1>7, <1>8, <1>9 DEF UserStep, CallStep, SeekStep, UserSeeks

LEMMA WakeKeeps == TypeOK /\ SpuriousWake => TypeOK' /\ OthersDo
<1> SUFFICES ASSUME TypeOK, SpuriousWake PROVE TypeOK' /\ OthersDo
  OBVIOUS
<1>H. HistoryType
  BY HistoryKeeps DEF SpuriousWake, AudioWoken, VideoWoken
<1> USE <1>H DEF HistoryType
<1>1. \A p \in Players : Len(queue[p]) \in Nat /\ Len(queue[p]) <= Len(queue[p])
  BY DEF TypeOK
<1>2. \E p \in Players : Wake(p)
  BY DEF SpuriousWake, AudioWoken, VideoWoken, AudioWake, VideoWake, Players
<1>3. "get" \in PlayerLabel
  BY DEF PlayerLabel
<1>4. /\ pc' \in [Threads -> PlayLabel] /\ pc'["demux"] = pc["demux"]
      /\ uiLoading' \in BOOLEAN
      /\ UNCHANGED <<layout, filter, exit, pause, load, seek, completed, queue,
                     position, epoch, seek_mutex, fault>>
  BY <1>2, <1>3, SharedPlayerSteps
<1>5. UNCHANGED <<packet, audioVars, videoVars>>
  BY DEF SpuriousWake, AudioWoken, VideoWoken, AudioWake, VideoWake
<1> QED BY <1>1, <1>4, <1>5 DEF TypeOK, PlayLabel, OthersDo, audioVars, videoVars

-----------------------------------------------------------------------------
\* Threads that only shorten the queues leave what the demuxer has tested true.
LEMMA OthersKeepInv == PlayerInv /\ TypeOK' /\ OthersDo => PlayerInv'
<1> SUFFICES ASSUME PlayerInv, TypeOK', OthersDo PROVE PlayerInv'
  OBVIOUS
<1>1. \A p \in Players : /\ Len(queue[p]) \in Nat /\ Len(queue'[p]) \in Nat
                         /\ Len(queue'[p]) <= Len(queue[p])
  BY DEF PlayerInv, TypeOK, OthersDo
<1>2. Limit \in Nat /\ "audio" \in Players /\ layout \subseteq Players
  BY DEF PlayerInv, TypeOK, Players
<1> QED BY <1>1, <1>2 DEF PlayerInv, OthersDo, Backpressure

\* The demuxer puts one packet after it has found both queues within the limit.
LEMMA DemuxKeepsInv == PlayerInv /\ DemuxStep => PlayerInv'
<1> SUFFICES ASSUME PlayerInv, DemuxStep PROVE PlayerInv'
  OBVIOUS
<1>1. TypeOK'
  BY DemuxKeepsType
<1>2. /\ \A p \in Players : Len(queue[p]) \in Nat /\ Len(queue[p]) <= Limit + 1
      /\ Limit \in Nat /\ layout \subseteq Players
      /\ pc \in [Threads -> PlayLabel] /\ "demux" \in Threads
      /\ queue \in [Players -> Seq(Packet)]
  BY DEF PlayerInv, Backpressure, TypeOK, PlayLabel, Threads
<1> USE DEF At, Goto
<1>3. CASE Start \/ Loop \/ Free \/ EofVideo \/ EofAudio \/ Complete
  <2>1. UNCHANGED queue
    BY <1>3 DEF Start, Loop, Free, EofVideo, EofAudio, Complete, shared
  <2>2. pc'["demux"] \in {"loop", "audioSize", "complete", "eofVideo", "eofAudio", "done", "free"}
    BY <1>2, <1>3 DEF Start, Loop, Free, EofVideo, EofAudio, Complete
  <2> QED BY <1>1, <1>2, <2>1, <2>2 DEF PlayerInv, Backpressure
<1>4. CASE AudioSize
  <2>1. UNCHANGED <<queue, layout>>
    BY <1>4 DEF AudioSize, shared, input
  <2>2. \/ pc'["demux"] = "loop"
        \/ /\ pc'["demux"] = "videoSize"
           /\ "audio" \in layout => Len(queue["audio"]) <= Limit
    BY <1>2, <1>4 DEF AudioSize
  <2> QED BY <1>1, <1>2, <2>1, <2>2 DEF PlayerInv, Backpressure
<1>5. CASE VideoSize
  <2>1. UNCHANGED <<queue, layout>>
    BY <1>5 DEF VideoSize, shared, input
  <2>2. "audio" \in layout => Len(queue["audio"]) <= Limit
    BY <1>5 DEF VideoSize, PlayerInv
  <2>3. \/ pc'["demux"] = "loop"
        \/ /\ pc'["demux"] = "read"
           /\ "video" \in layout => Len(queue["video"]) <= Limit
    BY <1>2, <1>5 DEF VideoSize
  <2>4. \A p \in layout : p = "audio" \/ p = "video"
    BY <1>2 DEF Players
  <2> QED BY <1>1, <1>2, <2>1, <2>2, <2>3, <2>4 DEF PlayerInv, Backpressure
<1>6. CASE Read
  <2>1. UNCHANGED <<queue, layout>> /\ pc["demux"] = "read" /\ pc'["demux"] = "check"
    BY <1>2, <1>6 DEF Read, input
  <2> QED BY <1>1, <1>2, <2>1 DEF PlayerInv, Backpressure
<1>7. CASE CheckSeek
  <2>1. UNCHANGED <<queue, layout, packet>> /\ pc["demux"] = "check"
    BY <1>7 DEF CheckSeek, shared, input
  <2>2. \/ pc'["demux"] \in {"loop", "free"}
        \/ pc'["demux"] = "put" /\ packet.stream \in layout
    BY <1>2, <1>7 DEF CheckSeek
  <2> QED BY <1>1, <1>2, <2>1, <2>2 DEF PlayerInv, Backpressure
<1>8. CASE Put
  <2>1. /\ packet.stream \in layout
        /\ \A p \in layout : Len(queue[p]) <= Limit
    BY <1>8 DEF Put, PlayerInv
  <2>2. queue' = [queue EXCEPT ![packet.stream] = Append(@, packet)]
    BY <1>8 DEF Put
  <2>3. Len(queue'[packet.stream]) = Len(queue[packet.stream]) + 1
    BY <1>2, <2>1, <2>2
  <2>4. \A p \in Players : Len(queue'[p]) <= Limit + 1
    BY <1>2, <2>1, <2>2, <2>3
  <2>5. pc'["demux"] = "loop"
    BY <1>2, <1>8 DEF Put
  <2> QED BY <1>1, <2>4, <2>5 DEF PlayerInv, Backpressure
<1>9. CASE FilterFault
  <2>1. UNCHANGED <<queue, layout, packet, pc>>
    BY <1>9 DEF FilterFault, input
  <2> QED BY <1>1, <2>1 DEF PlayerInv, Backpressure
<1> QED BY <1>3, <1>4, <1>5, <1>6, <1>7, <1>8, <1>9 DEF DemuxStep, Demux

\* PlayerInv holds in every state of the playing threads.
THEOREM Playing == Spec => []PlayerInv
<1>1. PlayerInv /\ [Next]_vars => PlayerInv'
  <2> SUFFICES ASSUME PlayerInv, [Next]_vars PROVE PlayerInv'
    OBVIOUS
  <2>1. TypeOK
    BY DEF PlayerInv
  <2>2. CASE DemuxStep
    BY <2>2, DemuxKeepsInv
  <2>3. CASE AudioStep
    BY <2>1, <2>3, AudioKeeps, OthersKeepInv
  <2>4. CASE VideoStep
    BY <2>1, <2>4, VideoKeeps, OthersKeepInv
  <2>5. CASE UserStep
    BY <2>1, <2>5, UserKeeps, OthersKeepInv
  <2>6. CASE SpuriousWake
    BY <2>1, <2>6, WakeKeeps, OthersKeepInv
  <2>7. CASE UNCHANGED vars
    BY <2>7 DEF PlayerInv, TypeOK, Backpressure, vars, shared, input, status, format,
                audioVars, videoVars, history
  <2> QED BY <2>2, <2>3, <2>4, <2>5, <2>6, <2>7 DEF Next
<1> QED BY InitEstablishes, <1>1, PTL DEF Spec

\* A queue passes the limit of the demuxer by one packet at the most, however the
\* threads and the user interleave.
THEOREM QueuesBounded == Spec => []Backpressure
<1>1. PlayerInv => Backpressure
  BY DEF PlayerInv
<1> QED BY Playing, <1>1, PTL

-----------------------------------------------------------------------------
\* What a step does to the packets on their way and to the clock of the video, one
\* kind of step for each way to change them.

Hand == pc["demux"] \in {"check", "put"} /\ packet # EOF

SeekLabel == {"clearAudio", "clearVideo", "clocks"}

UserStays ==
    \/ pc'["user"] = pc["user"]
    \/ pc["user"] \notin SeekLabel /\ pc'["user"] \notin SeekLabel

Leaves ==
    /\ UNCHANGED <<layout, queue, packet, position, epoch, held, clock, staleShown, unplayed>>
    /\ Hand' => Hand
    /\ UserStays
    /\ pc'["user"] \in SeekLabel => UNCHANGED seek_mutex

Reads ==
    /\ UNCHANGED <<layout, queue, epoch, held, clock, staleShown, unplayed, seek_mutex>>
    /\ ~seek_mutex
    /\ pc'["user"] = pc["user"]
    /\ \/ packet' = EOF /\ UNCHANGED position
       \/ /\ packet'.time = position /\ packet'.epoch = epoch
          /\ position' = position + 1

Puts ==
    /\ UNCHANGED <<layout, packet, position, epoch, held, clock, staleShown, seek_mutex>>
    /\ pc'["user"] = pc["user"]
    /\ Hand /\ ~Hand' /\ packet.stream \in layout
    /\ queue' = [queue EXCEPT ![packet.stream] = Append(@, packet)]
    /\ unplayed' = IF packet.epoch = epoch
                   THEN [unplayed EXCEPT ![packet.stream] = @ \union {packet}]
                   ELSE unplayed

Takes(p) ==
    /\ UNCHANGED <<layout, packet, position, epoch, clock, staleShown, seek_mutex>>
    /\ pc'["user"] = pc["user"] /\ pc'["demux"] = pc["demux"]
    /\ queue[p] # <<>>
    /\ queue' = [queue EXCEPT ![p] = Tail(@)]
    /\ unplayed' = [unplayed EXCEPT ![p] = @ \ {Head(queue[p])}]
    /\ UNCHANGED held \/ held' = Head(queue[p])

PlayerMoves ==
    /\ UNCHANGED <<layout, queue, packet, position, epoch, unplayed, seek_mutex>>
    /\ pc'["user"] = pc["user"] /\ pc'["demux"] = pc["demux"]

Raises ==
    /\ PlayerMoves
    /\ UNCHANGED <<clock, staleShown>>
    /\ held' = [held EXCEPT !.time = clock]

Shows ==
    /\ PlayerMoves
    /\ held' = Empty
    /\ clock' = held.time
    /\ staleShown' = (staleShown \/ (held.epoch < epoch /\ held.time # clock))

Moves ==
    /\ UNCHANGED <<layout, queue, packet, held, clock, staleShown>>
    /\ pc'["demux"] = pc["demux"] /\ pc'["user"] = "clearAudio"
    /\ epoch' = epoch + 1
    /\ unplayed' = [p \in Players |-> {}]
    /\ seek_mutex'

Clears(p) ==
    /\ UNCHANGED <<layout, packet, position, epoch, held, clock, staleShown, unplayed, seek_mutex>>
    /\ pc'["demux"] = pc["demux"]
    /\ \/ p = "audio" /\ pc["user"] = "clearAudio" /\ pc'["user"] = "clearVideo"
       \/ p = "video" /\ pc["user"] = "clearVideo" /\ pc'["user"] = "clocks"
    /\ queue' = IF p \in layout THEN [queue EXCEPT ![p] = <<>>] ELSE queue

Resets ==
    /\ UNCHANGED <<layout, queue, packet, position, epoch, held, unplayed, seek_mutex>>
    /\ pc'["demux"] = pc["demux"]
    /\ pc["user"] = "clocks"
    /\ pc'["user"] = IF "audio" \in layout THEN "unlock" ELSE "clocks"
    /\ clock' = 0 /\ staleShown' = FALSE

Kind ==
    \/ Leaves \/ Reads \/ Puts \/ Raises \/ Shows \/ Moves \/ Resets
    \/ \E p \in Players : Takes(p) \/ Clears(p)

LEMMA Appended ==
    ASSUME NEW S, NEW q \in Seq(S), NEW x \in S
    PROVE  /\ Len(Append(q, x)) = Len(q) + 1
           /\ Append(q, x)[Len(q) + 1] = x
           /\ \A k \in 1..Len(q) : Append(q, x)[k] = q[k]
OBVIOUS

LEMMA Tailed ==
    ASSUME NEW S, NEW q \in Seq(S), q # <<>>
    PROVE  /\ Len(q) > 0 /\ Head(q) = q[1]
           /\ Len(Tail(q)) = Len(q) - 1
           /\ \A k \in 1..Len(Tail(q)) : Tail(q)[k] = q[k + 1]
OBVIOUS

\* A sequence differs from what it is after an end is put on or its head taken off.
LEMMA LengthTells ==
    ASSUME TypeOK, NEW p \in Players
    PROVE  /\ \A x \in Packet : Append(queue[p], x) # queue[p]
           /\ queue[p] # <<>> => Tail(queue[p]) # queue[p]
<1>1. queue[p] \in Seq(Packet) /\ Len(queue[p]) \in Nat
  BY DEF TypeOK
<1>2. ASSUME NEW x \in Packet PROVE Append(queue[p], x) # queue[p]
  <2>1. Len(Append(queue[p], x)) = Len(queue[p]) + 1
    BY <1>1, Appended
  <2> QED BY <1>1, <2>1
<1>3. ASSUME queue[p] # <<>>, Tail(queue[p]) = queue[p] PROVE FALSE
  <2>1. Len(Tail(queue[p])) = Len(queue[p]) - 1
    BY <1>1, <1>3, Tailed
  <2>2. Len(queue[p]) = Len(queue[p]) - 1
    BY <1>3, <2>1, Zenon
  <2> QED BY <1>1, <2>2
<1> QED BY <1>2, <1>3

LEMMA DemuxKind == PlayerInv /\ DemuxStep => Kind
<1> SUFFICES ASSUME PlayerInv, DemuxStep PROVE Kind
  OBVIOUS
<1>1. pc \in [Threads -> PlayLabel] /\ "demux" \in Threads /\ "user" \in Threads
  BY DEF PlayerInv, TypeOK, PlayLabel, Threads
<1>2. \A label : Goto("demux", label) => pc'["demux"] = label /\ pc'["user"] = pc["user"]
  BY <1>1 DEF Goto
<1>3. UNCHANGED <<held, clock, staleShown>>
  BY DEF DemuxStep, videoVars
<1>H. UNCHANGED queue => UNCHANGED unplayed
  BY DEF DemuxStep, Queues
<1> USE <1>H DEF At, shared, input, format
<1>4. CASE Start
  <2>1. pc'["demux"] = "loop" /\ pc'["user"] = pc["user"]
    <3>1. "user" \notin layout
      BY DEF PlayerInv, TypeOK, Players
    <3> QED BY <1>1, <1>4, <3>1 DEF Start
  <2> QED BY <1>3, <1>4, <2>1 DEF Start, Kind, Leaves, Hand, UserStays
<1>5. CASE Loop \/ AudioSize \/ VideoSize \/ CheckSeek
  BY <1>2, <1>3, <1>5
     DEF Loop, AudioSize, VideoSize, CheckSeek, Kind, Leaves, Hand, UserStays
<1>6. CASE Read
  BY <1>2, <1>3, <1>6 DEF Read, Kind, Reads
<1>7. CASE Put
  <2>1. packet.stream \in layout /\ packet # EOF
    BY <1>7 DEF Put, PlayerInv, TypeOK, Players, EOF
  <2>2. queue' # queue
    <3>1. packet.stream \in Players /\ packet \in Packet /\ queue \in [Players -> Seq(Packet)]
      BY <1>7, <2>1 DEF PlayerInv, TypeOK
    <3>2. queue'[packet.stream] = Append(queue[packet.stream], packet)
      BY <1>7, <3>1 DEF Put
    <3> QED BY <3>1, <3>2, LengthTells DEF PlayerInv
  <2> QED BY <1>2, <1>3, <1>7, <2>1, <2>2 DEF Put, Kind, Puts, Hand, DemuxStep, Queues
<1>8. CASE FilterFault
  BY <1>3, <1>8 DEF FilterFault, Kind, Leaves, Hand, UserStays
<1>9. CASE Free \/ EofVideo \/ EofAudio \/ Complete
  BY <1>2, <1>3, <1>9 DEF Free, EofVideo, EofAudio, Complete, Kind, Leaves, Hand, UserStays
<1> QED BY <1>4, <1>5, <1>6, <1>7, <1>8, <1>9 DEF DemuxStep, Demux

\* The steps of a player that leave its queue alone.
LEMMA PlayerLeaves ==
    ASSUME TypeOK, NEW p \in Players, NEW label, NEW next, NEW flag,
           \/ PlayerLoop(p) \/ PlayerSeek(p, next) \/ PlayerSize(p) \/ PlayerEmpty(p)
           \/ PlayerFilled(p, next) \/ Sleep(p) \/ Wake(p) \/ SetLoad(p, label, flag, next)
    PROVE  /\ UNCHANGED <<layout, queue, position, epoch, seek_mutex>>
           /\ pc'["user"] = pc["user"] /\ pc'["demux"] = pc["demux"]
<1>1. /\ pc \in [Threads -> PlayLabel] /\ p \in Threads
      /\ "user" \in Threads \ {p} /\ "demux" \in Threads \ {p}
  BY DEF TypeOK, PlayLabel, Threads, Players
<1>2. \A to : Goto(p, to) => pc'["demux"] = pc["demux"] /\ pc'["user"] = pc["user"]
  BY <1>1 DEF Goto
<1> QED BY <1>2 DEF PlayerLoop, PlayerSeek, PlayerSize, PlayerEmpty, PlayerFilled, Sleep, Wake,
                    SetLoad, shared, input, format

LEMMA AudioKind == PlayerInv /\ AudioStep => Kind
<1> SUFFICES ASSUME PlayerInv, AudioStep PROVE Kind
  OBVIOUS
<1>1. /\ TypeOK /\ pc \in [Threads -> PlayLabel]
      /\ "demux" \in Threads /\ "user" \in Threads /\ "audio" \in Players
  BY DEF PlayerInv, TypeOK, PlayLabel, Threads, Players
<1>2. \A label : Goto("audio", label) => pc'["demux"] = pc["demux"] /\ pc'["user"] = pc["user"]
  BY <1>1 DEF Goto
<1>3. UNCHANGED <<packet, held, clock, staleShown>>
  BY DEF AudioStep, videoVars
<1>H. UNCHANGED queue => UNCHANGED unplayed
  BY DEF AudioStep, Plays
<1> USE <1>H DEF shared, input, format
<1>4. CASE AudioWatch \/ AudioSeekLoad
  <2>1. /\ UNCHANGED <<layout, queue, position, epoch, seek_mutex>>
        /\ pc'["user"] = pc["user"] /\ pc'["demux"] = pc["demux"]
    BY <1>1, <1>4, PlayerLeaves DEF AudioWatch, AudioSeek, AudioSeekLoad
  <2> QED BY <1>3, <2>1 DEF Kind, Leaves, Hand, UserStays
<1>5. CASE AudioGet
  <2>1. pc'["demux"] = pc["demux"] /\ pc'["user"] = pc["user"]
    BY <1>2, <1>5 DEF AudioGet
  <2>2. queue' # queue
    BY <1>1, <1>5, LengthTells DEF AudioGet, TypeOK
  <2> QED BY <1>1, <1>3, <1>5, <2>1, <2>2 DEF AudioGet, Kind, Takes, AudioStep, Plays
<1>6. CASE AudioGetExit \/ ReceiveDropped \/ ReceiveConverted \/ ReceiveNone
  <2>1. pc'["demux"] = pc["demux"] /\ pc'["user"] = pc["user"]
    BY <1>2, <1>6 DEF AudioGetExit, ReceiveDropped, ReceiveConverted, ReceiveNone
  <2> QED BY <1>3, <1>6, <2>1
          DEF AudioGetExit, ReceiveDropped, ReceiveConverted, ReceiveNone, Kind, Leaves, Hand,
              UserStays
<1> QED BY <1>4, <1>5, <1>6 DEF AudioStep, Audio

LEMMA VideoKind == PlayerInv /\ VideoStep => Kind
<1> SUFFICES ASSUME PlayerInv, VideoStep PROVE Kind
  OBVIOUS
<1>1. /\ TypeOK /\ pc \in [Threads -> PlayLabel]
      /\ "demux" \in Threads /\ "user" \in Threads /\ "video" \in Players
  BY DEF PlayerInv, TypeOK, PlayLabel, Threads, Players
<1>2. \A label : Goto("video", label) => pc'["demux"] = pc["demux"] /\ pc'["user"] = pc["user"]
  BY <1>1 DEF Goto
<1>3. UNCHANGED packet
  BY DEF VideoStep
<1>H. UNCHANGED queue => UNCHANGED unplayed
  BY DEF VideoStep, Plays
<1> USE <1>H DEF shared, input, format, videoVars
<1>4. CASE VideoWatch
  <2>1. /\ UNCHANGED <<layout, queue, position, epoch, seek_mutex>>
        /\ pc'["user"] = pc["user"] /\ pc'["demux"] = pc["demux"]
    BY <1>1, <1>4, PlayerLeaves DEF VideoWatch
  <2> QED BY <1>3, <1>4, <2>1 DEF VideoWatch, Kind, Leaves, Hand, UserStays
<1>5. CASE VideoGet
  <2>1. queue' # queue
    BY <1>1, <1>5, LengthTells DEF VideoGet, TypeOK
  <2> QED BY <1>1, <1>2, <1>3, <1>5, <2>1 DEF VideoGet, Kind, Takes, VideoStep, Plays
<1>6. CASE VideoGetExit \/ Compare
  BY <1>2, <1>3, <1>6 DEF VideoGetExit, Compare, Kind, Leaves, Hand, UserStays
<1>7. CASE Raise \/ Show
  BY <1>2, <1>3, <1>7 DEF Raise, Show, Kind, Raises, Shows, PlayerMoves
<1>8. CASE ShowWithoutAudio
  BY <1>3, <1>8 DEF ShowWithoutAudio, Kind, Leaves, Hand, UserStays
<1> QED BY <1>4, <1>5, <1>6, <1>7, <1>8 DEF VideoStep, Video

LEMMA UserKind == PlayerInv /\ UserStep => Kind
<1> SUFFICES ASSUME PlayerInv, UserStep PROVE Kind
  OBVIOUS
<1>1. pc \in [Threads -> PlayLabel] /\ "demux" \in Threads /\ "user" \in Threads
  BY DEF PlayerInv, TypeOK, PlayLabel, Threads
<1>2. \A label : Goto("user", label) => pc'["user"] = label /\ pc'["demux"] = pc["demux"]
  BY <1>1 DEF Goto
<1>3. UNCHANGED packet
  BY DEF UserStep, CallStep, SeekStep
<1>H. /\ UNCHANGED epoch => UNCHANGED unplayed
      /\ epoch' # epoch => unplayed' = [p \in Players |-> {}]
  BY DEF UserStep, CallStep, SeekStep, Moved, history
<1> USE <1>H DEF At, shared, input, format, videoVars
<1>4. CASE UserCalls
  BY <1>2, <1>3, <1>4
     DEF UserCalls, Pause, Resume, SeekBegin, Release, Kind, Leaves, Hand, UserStays, SeekLabel
<1>5. CASE (SeekFlag \/ SeekUnlock \/ SeekEnd) /\ UNCHANGED videoVars
  BY <1>2, <1>3, <1>5
     DEF SeekFlag, SeekUnlock, SeekEnd, Kind, Leaves, Hand, UserStays, SeekLabel
<1>6. CASE SeekFile /\ UNCHANGED videoVars
  <2>1. epoch' # epoch
    BY <1>6 DEF SeekFile, PlayerInv, TypeOK
  <2> QED BY <1>2, <1>3, <1>6, <2>1 DEF SeekFile, Kind, Moves
<1>7. CASE At("user", "clearAudio") /\ SeekClear("audio", "clearVideo") /\ UNCHANGED videoVars
  <2>1. Clears("audio")
    BY <1>2, <1>3, <1>7 DEF SeekClear, Clears
  <2> QED BY <2>1 DEF Kind, Players
<1>8. CASE At("user", "clearVideo") /\ SeekClear("video", "clocks") /\ UNCHANGED videoVars
  <2>1. Clears("video")
    BY <1>2, <1>3, <1>8 DEF SeekClear, Clears
  <2> QED BY <2>1 DEF Kind, Players
<1>9. CASE SeekClocks
  BY <1>1, <1>2, <1>3, <1>9 DEF SeekClocks, Kind, Resets
<1> QED BY <1>4, <1>5, <1>6, <1>7, <1>8, <1>9 DEF UserStep, CallStep, SeekStep, UserSeeks

LEMMA KindOfStep == PlayerInv /\ [Next]_vars => Kind
<1> SUFFICES ASSUME PlayerInv, [Next]_vars PROVE Kind
  OBVIOUS
<1>1. CASE SpuriousWake
  <2>1. \E p \in Players : Wake(p)
    BY <1>1 DEF SpuriousWake, AudioWoken, VideoWoken, AudioWake, VideoWake, Players
  <2>2. /\ UNCHANGED <<layout, queue, position, epoch, seek_mutex>>
        /\ pc'["user"] = pc["user"] /\ pc'["demux"] = pc["demux"]
    BY <2>1, PlayerLeaves DEF PlayerInv
  <2> QED BY <1>1, <2>2
          DEF SpuriousWake, AudioWoken, VideoWoken, AudioWake, VideoWake, videoVars, history, Kind, Leaves, Hand, UserStays
<1>2. CASE UNCHANGED vars
  BY <1>2 DEF vars, shared, input, format, videoVars, history, Kind, Leaves, Hand, UserStays
<1> QED BY <1>1, <1>2, DemuxKind, AudioKind, VideoKind, UserKind DEF Next

-----------------------------------------------------------------------------
\* Order.  What was read stays behind the position, or has been left by a seek; and
\* all that is queued was read before the packet in hand.

Known(q) == q.epoch < epoch \/ (q.epoch = epoch /\ q.time < position)

OrderInv ==
    /\ \A p \in Players : \A k \in 1..Len(queue[p]) :
          Known(queue[p][k]) /\ (Hand => Before(queue[p][k], packet))
    /\ Hand => Known(packet)
    /\ QueuesOrdered

\* The packets there are have the fields of a packet.
LEMMA PacketTypes ==
    ASSUME TypeOK
    PROVE  /\ \A p \in Players : /\ queue[p] \in Seq(Packet) /\ Len(queue[p]) \in Nat
                                 /\ \A k \in 1..Len(queue[p]) : queue[p][k] \in Packet
           /\ packet # EOF => packet \in Packet
           /\ epoch \in Nat /\ position \in Nat
BY DEF TypeOK

LEMMA OrderKeeps == PlayerInv /\ OrderInv /\ Kind => OrderInv'
<1> SUFFICES ASSUME PlayerInv, OrderInv, Kind PROVE OrderInv'
  OBVIOUS
<1>1. /\ \A p \in Players : /\ queue[p] \in Seq(Packet) /\ Len(queue[p]) \in Nat
                            /\ \A k \in 1..Len(queue[p]) : queue[p][k] \in Packet
      /\ packet # EOF => packet \in Packet
      /\ epoch \in Nat /\ position \in Nat
  BY PacketTypes DEF PlayerInv
<1>2. queue \in [Players -> Seq(Packet)]
  BY DEF PlayerInv, TypeOK
<1>3. CASE Leaves
  BY <1>3 DEF Leaves, OrderInv, QueuesOrdered, Known, Before
<1>4. CASE Reads
  <2>1. \A q \in Packet : Known(q) => Known(q)'
    BY <1>1, <1>4 DEF Reads, Known, Packet
  <2>2. CASE packet' = EOF /\ UNCHANGED position
    BY <1>1, <1>4, <2>1, <2>2 DEF Reads, OrderInv, QueuesOrdered, Known, Before, Hand
  <2>3. CASE /\ packet'.time = position /\ packet'.epoch = epoch
             /\ position' = position + 1
    <3>1. \A q \in Packet : Known(q) => Before(q, packet')
      BY <1>1, <2>3 DEF Known, Before, Packet
    <3>2. Known(packet)'
      BY <1>1, <1>4, <2>3 DEF Reads, Known
    <3>3. \A p \in Players : \A k \in 1..Len(queue'[p]) :
             Known(queue[p][k])' /\ Before(queue'[p][k], packet')
      BY <1>1, <1>4, <2>1, <3>1 DEF Reads, OrderInv
    <3>5. QueuesOrdered'
      BY <1>4 DEF Reads, OrderInv, QueuesOrdered, Before
    <3> QED BY <3>2, <3>3, <3>5 DEF OrderInv, Before
  <2> QED BY <1>4, <2>2, <2>3 DEF Reads
<1>5. CASE Puts
  <2> DEFINE s == packet.stream
  <2>1. /\ s \in Players /\ packet \in Packet /\ ~Hand' /\ Hand
        /\ \A p \in Players : queue'[p] = IF p = s THEN Append(queue[p], packet) ELSE queue[p]
    BY <1>1, <1>2, <1>5 DEF Puts, Hand, PlayerInv, TypeOK
  <2>2. /\ Len(queue'[s]) = Len(queue[s]) + 1
        /\ queue'[s][Len(queue[s]) + 1] = packet
        /\ \A k \in 1..Len(queue[s]) : queue'[s][k] = queue[s][k]
    <3>1. queue'[s] = Append(queue[s], packet) /\ queue[s] \in Seq(Packet)
      BY <1>1, <2>1
    <3> QED BY <2>1, <3>1, Appended
  <2>3. \A k \in 1..Len(queue'[s]) : k \in 1..Len(queue[s]) \/ k = Len(queue[s]) + 1
    BY <1>1, <2>2
  <2>4. \A q : Known(q)' <=> Known(q)
    BY <1>5 DEF Puts, Known
  <2>5. \A p \in Players : \A k \in 1..Len(queue'[p]) : Known(queue'[p][k])
    BY <2>1, <2>2, <2>3 DEF OrderInv
  <2>6. \A k \in 1..(Len(queue'[s]) - 1) : Before(queue'[s][k], queue'[s][k + 1])
    <3>1. \A k \in 1..(Len(queue'[s]) - 1) :
             /\ k \in 1..Len(queue[s])
             /\ \/ k \in 1..(Len(queue[s]) - 1) /\ k + 1 \in 1..Len(queue[s])
                \/ k + 1 = Len(queue[s]) + 1
      BY <1>1, <2>1, <2>2
    <3> QED BY <2>1, <2>2, <3>1 DEF OrderInv, QueuesOrdered
  <2>7. QueuesOrdered'
    <3>1. \A k \in 1..Len(queue'[s]) : queue'[s][k].stream = s
      BY <2>1, <2>2, <2>3 DEF OrderInv, QueuesOrdered
    <3> QED BY <2>1, <2>6, <3>1 DEF OrderInv, QueuesOrdered, Before
  <2>9. \A p \in Players : \A k \in 1..Len(queue'[p]) : Known(queue[p][k])'
    BY <1>5, <2>5 DEF Known, Puts
  <2> QED BY <2>1, <2>7, <2>9 DEF OrderInv
<1>6. ASSUME NEW p \in Players, Takes(p) PROVE OrderInv'
  <2>1. \A r \in Players : queue'[r] = IF r = p THEN Tail(queue[r]) ELSE queue[r]
    BY <1>2, <1>6 DEF Takes
  <2>2. /\ Len(queue'[p]) = Len(queue[p]) - 1
        /\ \A k \in 1..Len(queue'[p]) : queue'[p][k] = queue[p][k + 1]
        /\ Head(queue[p]) = queue[p][1] /\ Len(queue[p]) > 0
    <3>1. queue'[p] = Tail(queue[p]) /\ queue[p] \in Seq(Packet) /\ queue[p] # <<>>
      BY <1>1, <1>6, <2>1 DEF Takes
    <3> QED BY <3>1, Tailed
  <2>3. /\ \A k \in 1..Len(queue'[p]) : k + 1 \in 1..Len(queue[p])
        /\ \A k \in 1..(Len(queue'[p]) - 1) :
              /\ k \in 1..Len(queue'[p]) /\ k + 1 \in 1..Len(queue'[p])
              /\ k + 1 \in 1..(Len(queue[p]) - 1)
    BY <1>1, <2>2
  <2>4. /\ \A q : Known(q)' <=> Known(q)
        /\ Hand' <=> Hand
        /\ packet' = packet
    BY <1>6 DEF Takes, Known, Hand
  <2>5. \A r \in Players : \A k \in 1..Len(queue'[r]) :
           Known(queue'[r][k]) /\ (Hand => Before(queue'[r][k], packet))
    BY <2>1, <2>2, <2>3 DEF OrderInv
  <2>6. QueuesOrdered'
    <3>1. \A k \in 1..Len(queue'[p]) : queue'[p][k].stream = p
      BY <2>2, <2>3 DEF OrderInv, QueuesOrdered
    <3>2. \A k \in 1..(Len(queue'[p]) - 1) : Before(queue'[p][k], queue'[p][k + 1])
      BY <2>2, <2>3 DEF OrderInv, QueuesOrdered
    <3> QED BY <2>1, <3>1, <3>2 DEF OrderInv, QueuesOrdered, Before
  <2>8. /\ \A r \in Players : \A k \in 1..Len(queue'[r]) :
              Known(queue[r][k])' /\ (Hand' => Before(queue'[r][k], packet'))
        /\ Hand' => Known(packet)'
    BY <1>6, <2>4, <2>5 DEF Takes, Known, OrderInv
  <2> QED BY <2>6, <2>8 DEF OrderInv, Before
<1>7. CASE Raises \/ Shows \/ Resets
  BY <1>7 DEF Raises, Shows, PlayerMoves, Resets, OrderInv, QueuesOrdered, Known, Before, Hand
<1>8. CASE Moves
  <2>1. \A q \in Packet : Known(q) => Known(q)'
    BY <1>1, <1>8 DEF Moves, Known, Packet
  <2>2. Hand' <=> Hand
    BY <1>8 DEF Moves, Hand
  <2>3. /\ \A r \in Players : \A k \in 1..Len(queue'[r]) : Known(queue[r][k])'
        /\ Hand' => Known(packet)'
    BY <1>1, <1>8, <2>1, <2>2 DEF Moves, OrderInv, Hand
  <2> QED BY <1>8, <2>2, <2>3 DEF Moves, OrderInv, QueuesOrdered, Before
<1>9. ASSUME NEW p \in Players, Clears(p) PROVE OrderInv'
  <2>1. \A r \in Players : queue'[r] = queue[r] \/ queue'[r] = <<>>
    BY <1>2, <1>9 DEF Clears
  <2>2. /\ \A q : Known(q)' <=> Known(q)
        /\ Hand' <=> Hand
        /\ packet' = packet
    BY <1>9 DEF Clears, Known, Hand
  <2>3. /\ \A r \in Players : \A k \in 1..Len(queue'[r]) :
              Known(queue[r][k])' /\ (Hand' => Before(queue'[r][k], packet'))
        /\ Hand' => Known(packet)'
    BY <1>9, <2>1, <2>2 DEF OrderInv, Clears, Known
  <2>4. QueuesOrdered'
    BY <2>1 DEF OrderInv, QueuesOrdered, Before
  <2> QED BY <2>3, <2>4 DEF OrderInv, Before
<1> QED BY <1>3, <1>4, <1>5, <1>6, <1>7, <1>8, <1>9 DEF Kind

LEMMA Ordered == Spec => []OrderInv
<1>1. Init => OrderInv
  <2> SUFFICES ASSUME Init PROVE OrderInv
    OBVIOUS
  <2>1. \A p \in Players : Len(queue[p]) = 0
    BY DEF Init, SharedInit
  <2>2. ~Hand
    BY DEF Init, DemuxInit, Hand
  <2> QED BY <2>1, <2>2 DEF OrderInv, QueuesOrdered
<1>2. PlayerInv /\ OrderInv /\ [Next]_vars => OrderInv'
  BY KindOfStep, OrderKeeps
<1> QED BY <1>1, <1>2, Playing, PTL DEF Spec

\* The packets of every queue stand in the order in which the demuxer read them and
\* belong to the stream of their player, whatever the seeks in between.
THEOREM QueuesInOrder == Spec => []QueuesOrdered
<1>1. OrderInv => QueuesOrdered
  BY DEF OrderInv
<1> QED BY <1>1, Ordered, PTL

-----------------------------------------------------------------------------
\* The clock of the video.

\* From avformat_seek_file until its clearing is done all there is was read before:
\* seek_mutex keeps the demuxer from reading on.
SeekStops ==
    pc["user"] \in SeekLabel =>
        /\ seek_mutex /\ epoch > 0
        /\ \A p \in Players : /\ \A k \in 1..Len(queue[p]) : queue[p][k].epoch < epoch
                              /\ unplayed[p] = {}
        /\ Hand => packet.epoch < epoch
        /\ held.epoch < epoch

\* What the video thread is about to write to its clock.
HeldInv ==
    /\ held.epoch <= epoch
    /\ held.epoch < epoch \/ held.time < position \/ held.time = 0 \/ staleShown

ClockInv == SeekStops /\ HeldInv /\ VideoClockTrusted

\* The front packet that a player takes was in the queue.
LEMMA FrontTaken ==
    ASSUME TypeOK, OrderInv, NEW p \in Players, Takes(p)
    PROVE  /\ \A r \in Players : queue'[r] = IF r = p THEN Tail(queue[r]) ELSE queue[r]
           /\ Len(queue[p]) > 0 /\ Head(queue[p]) = queue[p][1]
           /\ Len(queue'[p]) = Len(queue[p]) - 1
           /\ \A k \in 1..Len(queue'[p]) :
                 k + 1 \in 1..Len(queue[p]) /\ queue'[p][k] = queue[p][k + 1]
           /\ Head(queue[p]) \in Packet /\ Known(Head(queue[p]))
<1>1. /\ queue \in [Players -> Seq(Packet)] /\ queue[p] \in Seq(Packet)
      /\ queue[p] # <<>> /\ Len(queue[p]) \in Nat
  BY DEF TypeOK, Takes
<1>2. \A r \in Players : queue'[r] = IF r = p THEN Tail(queue[r]) ELSE queue[r]
  BY <1>1 DEF Takes
<1>3. /\ Len(queue[p]) > 0 /\ Head(queue[p]) = queue[p][1]
      /\ Len(queue'[p]) = Len(queue[p]) - 1
      /\ \A k \in 1..Len(queue'[p]) : queue'[p][k] = queue[p][k + 1]
  BY <1>1, <1>2, Tailed
<1>4. \A k \in 1..Len(queue'[p]) : k + 1 \in 1..Len(queue[p])
  BY <1>1, <1>3
<1>5. 1 \in 1..Len(queue[p])
  BY <1>1, <1>3
<1> QED BY <1>1, <1>2, <1>3, <1>4, <1>5 DEF OrderInv

LEMMA SeekStopsKeeps == PlayerInv /\ OrderInv /\ ClockInv /\ Kind => SeekStops'
<1> SUFFICES ASSUME PlayerInv, OrderInv, ClockInv, Kind, (pc["user"] \in SeekLabel)'
             PROVE  SeekStops'
  BY DEF SeekStops
<1>1. /\ TypeOK /\ epoch \in Nat /\ queue \in [Players -> Seq(Packet)]
      /\ unplayed \in [Players -> SUBSET Packet]
      /\ \A p \in Players : /\ Len(queue[p]) \in Nat
                            /\ \A k \in 1..Len(queue[p]) : queue[p][k] \in Packet
      /\ packet # EOF => packet \in Packet
  BY PacketTypes DEF PlayerInv, TypeOK
<1>2. HeldInv /\ SeekStops
  BY DEF ClockInv
<1> USE DEF SeekStops
<1>3. CASE Leaves
  BY <1>2, <1>3 DEF Leaves, UserStays
<1>4. CASE Reads
  BY <1>2, <1>4 DEF Reads
<1>5. CASE Puts
  <2>1. /\ pc["user"] \in SeekLabel /\ packet.epoch < epoch /\ packet \in Packet
        /\ packet.epoch # epoch
    <3>1. pc["user"] \in SeekLabel /\ packet.epoch < epoch /\ packet \in Packet
      BY <1>1, <1>2, <1>5 DEF Puts, Hand
    <3> QED BY <1>1, <3>1 DEF Packet
  <2>2. \A p \in Players : /\ queue'[p] = queue[p] \/ queue'[p] = Append(queue[p], packet)
    BY <1>1, <1>5 DEF Puts
  <2>3. ASSUME NEW p \in Players, NEW k \in 1..Len(queue'[p]) PROVE queue'[p][k].epoch < epoch
    <3>1. CASE queue'[p] = queue[p]
      BY <1>2, <2>1, <2>3, <3>1
    <3>2. CASE queue'[p] = Append(queue[p], packet)
      <4>1. /\ Len(queue'[p]) = Len(queue[p]) + 1
            /\ queue'[p][Len(queue[p]) + 1] = packet
            /\ \A j \in 1..Len(queue[p]) : queue'[p][j] = queue[p][j]
        BY <1>1, <2>1, <3>2, Appended
      <4>2. k \in 1..Len(queue[p]) \/ k = Len(queue[p]) + 1
        BY <1>1, <2>3, <4>1
      <4> QED BY <1>2, <2>1, <4>1, <4>2
    <3> QED BY <2>2, <3>1, <3>2
  <2> QED BY <1>2, <1>5, <2>1, <2>3 DEF Puts
<1>6. ASSUME NEW p \in Players, Takes(p) PROVE SeekStops'
  <2>1. pc["user"] \in SeekLabel
    BY <1>6 DEF Takes
  <2>2. /\ \A r \in Players : queue'[r] = IF r = p THEN Tail(queue[r]) ELSE queue[r]
        /\ Len(queue[p]) > 0 /\ Head(queue[p]) = queue[p][1]
        /\ \A k \in 1..Len(queue'[p]) :
              k + 1 \in 1..Len(queue[p]) /\ queue'[p][k] = queue[p][k + 1]
    BY <1>1, <1>6, FrontTaken
  <2>3. 1 \in 1..Len(queue[p])
    BY <1>1, <2>2
  <2>4. held'.epoch < epoch
    BY <1>2, <1>6, <2>1, <2>2, <2>3 DEF Takes
  <2>5. \A r \in Players : \A k \in 1..Len(queue'[r]) : queue'[r][k].epoch < epoch
    BY <1>2, <2>1, <2>2
  <2>6. \A r \in Players : unplayed'[r] = {}
    BY <1>1, <1>2, <1>6, <2>1 DEF Takes
  <2> QED BY <1>2, <1>6, <2>1, <2>4, <2>5, <2>6 DEF Takes, Hand
<1>7. CASE Raises \/ Shows
  <2>1. held'.epoch < epoch
    BY <1>1, <1>2, <1>7 DEF Raises, Shows, PlayerMoves, Empty, TypeOK, InHand
  <2> QED BY <1>2, <1>7, <2>1 DEF Raises, Shows, PlayerMoves, Hand
<1>8. CASE Moves
  <2>1. \A q \in Packet : Known(q) => q.epoch < epoch + 1
    BY <1>1 DEF Known, Packet
  <2>2. \A p \in Players : \A k \in 1..Len(queue[p]) : queue[p][k].epoch < epoch + 1
    BY <1>1, <2>1 DEF OrderInv
  <2>3. Hand => packet.epoch < epoch + 1
    BY <1>1, <2>1 DEF OrderInv, Hand
  <2>4. held.epoch < epoch + 1 /\ epoch + 1 > 0
    BY <1>1, <1>2 DEF HeldInv, TypeOK, InHand
  <2> QED BY <1>8, <2>2, <2>3, <2>4 DEF Moves, Hand
<1>9. ASSUME NEW p \in Players, Clears(p) PROVE SeekStops'
  <2>1. pc["user"] \in SeekLabel
    BY <1>9 DEF Clears, SeekLabel
  <2>2. \A r \in Players : queue'[r] = queue[r] \/ queue'[r] = <<>>
    BY <1>1, <1>9 DEF Clears
  <2> QED BY <1>2, <1>9, <2>1, <2>2 DEF Clears, Hand
<1>10. CASE Resets
  BY <1>2, <1>10 DEF Resets, SeekLabel, Hand
<1> QED BY <1>3, <1>4, <1>5, <1>6, <1>7, <1>8, <1>9, <1>10 DEF Kind

LEMMA HeldKeeps == PlayerInv /\ OrderInv /\ ClockInv /\ Kind => HeldInv'
<1> SUFFICES ASSUME PlayerInv, OrderInv, ClockInv, Kind PROVE HeldInv'
  OBVIOUS
<1>1. /\ TypeOK /\ epoch \in Nat /\ position \in Nat /\ clock \in Nat
      /\ held.time \in Nat /\ held.epoch \in Nat
  BY DEF PlayerInv, TypeOK, InHand
<1>2. HeldInv /\ SeekStops /\ VideoClockTrusted
  BY DEF ClockInv
<1>H. \A t : held' = [held EXCEPT !.time = t] => held'.time = t /\ held'.epoch = held.epoch
  BY DEF PlayerInv, TypeOK, InHand
<1> USE DEF HeldInv
<1>3. CASE Leaves \/ Puts \/ \E p \in Players : Clears(p)
  BY <1>2, <1>3 DEF Leaves, Puts, Clears
<1>4. CASE Reads
  BY <1>1, <1>2, <1>4 DEF Reads
<1>5. ASSUME NEW p \in Players, Takes(p) PROVE HeldInv'
  <2>1. CASE UNCHANGED held
    BY <1>2, <1>5, <2>1 DEF Takes
  <2>2. CASE held' = Head(queue[p])
    <3>1. held' \in Packet /\ Known(held')
      BY <1>1, <1>5, <2>2, FrontTaken
    <3> QED BY <1>1, <1>5, <3>1 DEF Takes, Known, Packet
  <2> QED BY <1>5, <2>1, <2>2 DEF Takes
<1>6. CASE Raises
  <2>1. /\ held'.epoch = held.epoch /\ held'.time = clock
        /\ UNCHANGED <<epoch, position, staleShown>>
    BY <1>6, <1>H DEF Raises, PlayerMoves
  <2>2. held.epoch < epoch \/ clock = 0 \/ clock < position \/ staleShown
    BY <1>2 DEF SeekStops, VideoClockTrusted, Seeking, SeekLabel
  <2> QED BY <1>2, <2>1, <2>2
<1>7. CASE Shows
  BY <1>1, <1>7 DEF Shows, PlayerMoves, Empty, InHand
<1>8. CASE Moves
  BY <1>1, <1>2, <1>8 DEF Moves
<1>9. CASE Resets
  <2>1. held.epoch < epoch
    BY <1>2, <1>9 DEF Resets, SeekStops, SeekLabel
  <2> QED BY <1>2, <1>9, <2>1 DEF Resets
<1> QED BY <1>3, <1>4, <1>5, <1>6, <1>7, <1>8, <1>9 DEF Kind

\* What is shown was read behind the position, or is left over from before a seek.
LEMMA ClockKeeps == PlayerInv /\ OrderInv /\ ClockInv /\ Kind => VideoClockTrusted'
<1> SUFFICES ASSUME PlayerInv, OrderInv, ClockInv, Kind PROVE VideoClockTrusted'
  OBVIOUS
<1>1. /\ epoch \in Nat /\ position \in Nat /\ clock \in Nat
      /\ held.time \in Nat /\ held.epoch \in Nat
  BY DEF PlayerInv, TypeOK, InHand
<1>2. HeldInv /\ VideoClockTrusted
  BY DEF ClockInv
<1> USE DEF VideoClockTrusted, Seeking
<1>3. CASE Leaves
  BY <1>2, <1>3 DEF Leaves, UserStays, SeekLabel
<1>4. CASE Reads
  BY <1>1, <1>2, <1>4 DEF Reads
<1>5. CASE Puts \/ \E p \in Players : Takes(p) \/ Clears(p)
  BY <1>2, <1>5 DEF Puts, Takes, Clears
<1>6. CASE Raises
  BY <1>2, <1>6 DEF Raises, PlayerMoves
<1>7. CASE Shows
  <2>1. CASE held.time = clock
    BY <1>2, <1>7, <2>1 DEF Shows, PlayerMoves
  <2>2. CASE held.time # clock
    BY <1>1, <1>2, <1>7, <2>2 DEF Shows, PlayerMoves, HeldInv
  <2> QED BY <2>1, <2>2
<1>8. CASE Moves \/ Resets
  BY <1>8 DEF Moves, Resets
<1> QED BY <1>3, <1>4, <1>5, <1>6, <1>7, <1>8 DEF Kind

LEMMA Clocks == Spec => []ClockInv
<1>1. Init => ClockInv
  <2> SUFFICES ASSUME Init PROVE ClockInv
    OBVIOUS
  <2>1. pc["user"] \notin SeekLabel
    BY DEF Init, SharedInit, Threads, SeekLabel
  <2> QED BY <2>1 DEF Init, SharedInit, VideoInit, Empty, ClockInv, SeekStops, HeldInv,
                      VideoClockTrusted
<1>2. PlayerInv /\ OrderInv /\ ClockInv /\ [Next]_vars => ClockInv'
  <2>1. PlayerInv /\ OrderInv /\ ClockInv /\ Kind => ClockInv'
    BY SeekStopsKeeps, HeldKeeps, ClockKeeps DEF ClockInv
  <2> QED BY <2>1, KindOfStep
<1> QED BY <1>1, <1>2, Playing, Ordered, PTL DEF Spec

\* Outside a seek the clock of the video, to which the audio's user interface and
\* the waits of the video go, is zero or the time of a packet read since the last
\* seek, unless a packet that was in flight across the seek has been shown.
THEOREM ClockTrusted == Spec => []VideoClockTrusted
<1>1. ClockInv => VideoClockTrusted
  BY DEF ClockInv
<1> QED BY <1>1, Clocks, PTL

-----------------------------------------------------------------------------
\* What a seek leaves behind.

HandStale == Hand /\ packet.epoch < epoch

\* The queue of p has been cleared since the last avformat_seek_file.
Cleared(p) == pc["user"] # "clearAudio" /\ (p = "audio" \/ pc["user"] # "clearVideo")

StaleInv ==
    /\ \A p \in Players :
          /\ p \notin layout => queue[p] = <<>>
          /\ Cleared(p) => /\ Stale(p) \subseteq {1}
                           /\ HandStale => queue[p] = <<>>
    /\ Cleared("video") => Stale("audio") = {} \/ Stale("video") = {}

LEMMA StaleKeeps == PlayerInv /\ StaleInv /\ Kind => StaleInv'
<1> SUFFICES ASSUME PlayerInv, StaleInv, Kind PROVE StaleInv'
  OBVIOUS
<1>1. /\ queue \in [Players -> Seq(Packet)] /\ epoch \in Nat
      /\ \A p \in Players : queue[p] \in Seq(Packet) /\ Len(queue[p]) \in Nat
      /\ "audio" \in Players /\ "video" \in Players
  BY DEF PlayerInv, TypeOK, Players
<1>2. \A p \in Players : queue[p] = <<>> => Stale(p) = {}
  BY DEF Stale
<1>3. \A p \in Players : Cleared("video") => Cleared(p)
  BY DEF Cleared, Players
<1>4. CASE Leaves
  <2>1. \A p \in Players : Cleared(p)' => Cleared(p)
    BY <1>4 DEF Leaves, UserStays, Cleared, SeekLabel
  <2>2. \A p \in Players : Stale(p)' = Stale(p)
    BY <1>4 DEF Leaves, Stale
  <2>3. HandStale' => HandStale
    BY <1>4 DEF Leaves, HandStale
  <2> QED BY <1>1, <1>4, <2>1, <2>2, <2>3 DEF StaleInv, Leaves
<1>5. CASE Reads
  <2>1. ~HandStale'
    BY <1>1, <1>5 DEF Reads, HandStale, Hand
  <2>2. \A p \in Players : (Cleared(p)' => Cleared(p)) /\ Stale(p)' = Stale(p)
    BY <1>5 DEF Reads, Cleared, Stale
  <2> QED BY <1>1, <1>5, <2>1, <2>2 DEF StaleInv, Reads
<1>6. CASE Puts
  <2>0. PICK s \in Players : s = packet.stream
    BY <1>6 DEF Puts, PlayerInv, TypeOK
  <2>1. /\ s \in Players /\ packet \in Packet /\ ~Hand'
        /\ \A p \in Players : queue'[p] = IF p = s THEN Append(queue[p], packet) ELSE queue[p]
    BY <1>1, <1>6, <2>0 DEF Puts, Hand, PlayerInv, TypeOK
  <2>2. /\ Len(queue'[s]) = Len(queue[s]) + 1
        /\ queue'[s][Len(queue[s]) + 1] = packet
        /\ \A k \in 1..Len(queue[s]) : queue'[s][k] = queue[s][k]
    <3>1. queue'[s] = Append(queue[s], packet) /\ queue[s] \in Seq(Packet)
      BY <1>1, <2>1
    <3> QED BY <2>1, <3>1, Appended
  <2>3. \A p \in Players : p # s => Stale(p)' = Stale(p)
    BY <1>6, <2>1 DEF Puts, Stale
  <2>4. HandStale => packet.epoch < epoch
    BY DEF HandStale
  <2>5. ~HandStale => Stale(s)' = Stale(s)
    <3> SUFFICES ASSUME ~HandStale PROVE Stale(s)' = Stale(s)
      OBVIOUS
    <3>1. ~(packet.epoch < epoch)
      BY <1>6 DEF HandStale, Puts
    <3>2. \A k \in 1..Len(queue'[s]) : k \in 1..Len(queue[s]) \/ k = Len(queue[s]) + 1
      BY <1>1, <2>1, <2>2
    <3>3. \A k \in 1..Len(queue[s]) : k \in 1..Len(queue'[s])
      BY <1>1, <2>1, <2>2
    <3>4. epoch' = epoch /\ packet' = packet
      BY <1>6 DEF Puts
    <3> QED BY <2>2, <3>1, <3>2, <3>3, <3>4 DEF Stale
  <2>6. HandStale /\ Cleared(s) => Stale(s)' \subseteq {1}
    <3> SUFFICES ASSUME HandStale, Cleared(s), NEW k \in Stale(s)' PROVE k = 1
      OBVIOUS
    <3>1. Len(queue[s]) = 0
      BY <2>1 DEF StaleInv
    <3>2. Len(queue'[s]) = 1
      BY <2>2, <3>1
    <3>3. k \in 1..Len(queue'[s])
      BY DEF Stale
    <3> QED BY <3>2, <3>3
  <2>7. \A p \in Players : Cleared(p)' <=> Cleared(p)
    BY <1>6 DEF Puts, Cleared
  <2>8. ~HandStale'
    BY <2>1 DEF HandStale
  <2>9. \A p \in Players : p \notin layout' => queue'[p] = <<>>
    BY <1>6, <2>1 DEF Puts, StaleInv
  <2>10. Cleared("video") => Stale("audio")' = {} \/ Stale("video")' = {}
    <3>1. HandStale /\ Cleared("video") => Stale("audio") = {} /\ Stale("video") = {}
      BY <1>1, <1>2, <1>3 DEF StaleInv
    <3>2. s = "audio" \/ s = "video"
      BY <2>1 DEF Players
    <3>3. CASE HandStale
      BY <1>1, <2>3, <3>1, <3>2, <3>3
    <3>4. CASE ~HandStale
      <4>1. \A p \in Players : Stale(p)' = Stale(p)
        BY <2>3, <2>5, <3>4
      <4> QED BY <1>1, <4>1 DEF StaleInv
    <3> QED BY <3>3, <3>4
  <2>11. ASSUME NEW p \in Players, Cleared(p) PROVE Stale(p)' \subseteq {1}
    <3>1. Stale(p) \subseteq {1}
      BY <2>11 DEF StaleInv
    <3>2. CASE p = s /\ HandStale
      BY <2>6, <2>11, <3>2
    <3>3. CASE ~(p = s /\ HandStale)
      <4>1. Stale(p)' = Stale(p)
        BY <2>3, <2>5, <3>3
      <4> QED BY <3>1, <4>1
    <3> QED BY <3>2, <3>3
  <2> QED BY <1>1, <2>7, <2>8, <2>9, <2>10, <2>11 DEF StaleInv
<1>7. ASSUME NEW p \in Players, Takes(p) PROVE StaleInv'
  <2>1. \A r \in Players : queue'[r] = IF r = p THEN Tail(queue[r]) ELSE queue[r]
    BY <1>1, <1>7 DEF Takes
  <2>2. /\ Len(queue'[p]) = Len(queue[p]) - 1
        /\ \A k \in 1..Len(queue'[p]) : queue'[p][k] = queue[p][k + 1]
    <3>1. queue'[p] = Tail(queue[p]) /\ queue[p] \in Seq(Packet) /\ queue[p] # <<>>
      BY <1>1, <1>7, <2>1 DEF Takes
    <3> QED BY <3>1, Tailed
  <2>3. Cleared(p) => Stale(p)' = {}
    <3> SUFFICES ASSUME Cleared(p), NEW k \in Stale(p)' PROVE FALSE
      OBVIOUS
    <3>1. /\ k \in 1..Len(queue'[p]) /\ queue'[p][k].epoch < epoch
      BY <1>7 DEF Stale, Takes
    <3>2. k + 1 \in 1..Len(queue[p]) /\ k + 1 # 1
      BY <1>1, <2>2, <3>1
    <3>3. k + 1 \in Stale(p)
      BY <2>2, <3>1, <3>2 DEF Stale
    <3> QED BY <3>2, <3>3 DEF StaleInv
  <2>4. \A r \in Players : r # p => Stale(r)' = Stale(r)
    BY <1>7, <2>1 DEF Takes, Stale
  <2>5. /\ \A r \in Players : Cleared(r)' <=> Cleared(r)
        /\ HandStale' <=> HandStale
    BY <1>7 DEF Takes, Cleared, HandStale, Hand
  <2>6. queue[p] # <<>> /\ p \in layout /\ layout' = layout
    BY <1>7 DEF Takes, StaleInv
  <2>7. \A r \in Players : Cleared(r) => /\ Stale(r)' \subseteq {1}
                                         /\ HandStale => queue'[r] = <<>>
    BY <2>1, <2>3, <2>4, <2>6 DEF StaleInv
  <2>8. Cleared("video") => Stale("audio")' = {} \/ Stale("video")' = {}
    BY <1>1, <1>3, <2>3, <2>4 DEF StaleInv
  <2>9. \A r \in Players : r \notin layout => queue'[r] = <<>>
    BY <2>1, <2>6 DEF StaleInv
  <2> QED BY <1>1, <2>5, <2>6, <2>7, <2>8, <2>9 DEF StaleInv
<1>8. CASE Raises \/ Shows \/ Resets
  <2>1. \A p \in Players : (Cleared(p)' => Cleared(p)) /\ Stale(p)' = Stale(p)
    BY <1>8 DEF Raises, Shows, PlayerMoves, Resets, Cleared, Stale
  <2>2. HandStale' => HandStale
    BY <1>8 DEF Raises, Shows, PlayerMoves, Resets, HandStale, Hand
  <2> QED BY <1>1, <1>8, <2>1, <2>2 DEF StaleInv, Raises, Shows, PlayerMoves, Resets
<1>9. CASE Moves
  <2>1. \A p \in Players : ~Cleared(p)'
    BY <1>9 DEF Moves, Cleared
  <2> QED BY <1>1, <1>9, <2>1 DEF StaleInv, Moves
<1>10. ASSUME NEW p \in Players, Clears(p) PROVE StaleInv'
  <2>1. queue'[p] = <<>> /\ \A r \in Players : r # p => queue'[r] = queue[r]
    BY <1>1, <1>10 DEF Clears, StaleInv
  <2>2. Stale(p)' = {} /\ \A r \in Players : r # p => Stale(r)' = Stale(r)
    BY <1>10, <2>1 DEF Clears, Stale
  <2>3. HandStale' <=> HandStale
    BY <1>10 DEF Clears, HandStale, Hand
  <2>4. \A r \in Players : r # p /\ Cleared(r)' => Cleared(r)
    BY <1>10 DEF Clears, Cleared, Players
  <2>5. Cleared("video")' => p = "video"
    BY <1>10 DEF Clears, Cleared
  <2>6. layout' = layout
    BY <1>10 DEF Clears
  <2> QED BY <1>1, <2>1, <2>2, <2>3, <2>4, <2>5, <2>6 DEF StaleInv
<1> QED BY <1>4, <1>5, <1>6, <1>7, <1>8, <1>9, <1>10 DEF Kind

LEMMA Staleness == Spec => []StaleInv
<1>1. Init => StaleInv
  <2> SUFFICES ASSUME Init PROVE StaleInv
    OBVIOUS
  <2>1. \A p \in Players : queue[p] = <<>>
    BY DEF Init, SharedInit
  <2>2. \A p \in Players : Stale(p) = {}
    BY <2>1 DEF Stale
  <2> QED BY <2>1, <2>2 DEF StaleInv, Players
<1>2. PlayerInv /\ StaleInv /\ [Next]_vars => StaleInv'
  BY KindOfStep, StaleKeeps
<1> QED BY <1>1, <1>2, Playing, PTL DEF Spec

\* After a seek no more than one packet from before it is queued, in one queue and at
\* its head: the one the demuxer held when it tested the seek flag too early.
THEOREM AtMostOneStale == Spec => []OneStalePacket
<1>1. StaleInv => OneStalePacket
  BY DEF StaleInv, OneStalePacket, Seeking, Cleared
<1> QED BY <1>1, Staleness, PTL

-----------------------------------------------------------------------------
\* What a step of one thread leaves to the others.

LEMMA DemuxEffect ==
    PlayerInv /\ DemuxStep =>
        /\ UNCHANGED <<layout, load, seek, uiLoading, epoch, audioVars>>
        /\ pc'["user"] = pc["user"]
        /\ pc'["demux"] # "start"
        /\ \A p \in Players : queue'[p] = queue[p] \/ queue'[p] # <<>>
        /\ \A p \in Players :
              \/ pc'[p] = pc[p]
              \/ pc["demux"] = "start" /\ p \in layout /\ pc'[p] = "loop"
<1> SUFFICES ASSUME PlayerInv, DemuxStep
             PROVE  /\ UNCHANGED <<layout, load, seek, uiLoading, epoch, audioVars>>
                    /\ pc'["user"] = pc["user"]
                    /\ pc'["demux"] # "start"
                    /\ \A p \in Players : queue'[p] = queue[p] \/ queue'[p] # <<>>
                    /\ \A p \in Players :
                          \/ pc'[p] = pc[p]
                          \/ pc["demux"] = "start" /\ p \in layout /\ pc'[p] = "loop"
  OBVIOUS
<1>1. /\ pc \in [Threads -> PlayLabel] /\ Players \subseteq Threads \ {"demux", "user"}
      /\ "demux" \in Threads /\ "user" \in Threads
      /\ queue \in [Players -> Seq(Packet)] /\ packet \in Packet \union {EOF}
      /\ layout \subseteq Players
  BY DEF PlayerInv, TypeOK, PlayLabel, Threads, Players
<1>2. \A label : Goto("demux", label) =>
         /\ pc'["demux"] = label
         /\ \A u \in Threads : u # "demux" => pc'[u] = pc[u]
  BY <1>1 DEF Goto
<1> USE DEF At, shared, input, status, format
<1>3. UNCHANGED audioVars
  BY DEF DemuxStep
<1>4. CASE Start
  <2>1. /\ pc'["user"] = pc["user"] /\ pc'["demux"] = "loop"
        /\ \A p \in Players : pc'[p] = pc[p] \/ (p \in layout /\ pc'[p] = "loop")
    BY <1>1, <1>4 DEF Start, Threads
  <2> QED BY <1>3, <1>4, <2>1 DEF Start
<1>5. CASE Put
  <2>1. \A p \in Players : queue'[p] = queue[p] \/ queue'[p] = Append(queue[p], packet)
    BY <1>1, <1>5 DEF Put
  <2>2. packet \in Packet
    BY <1>1, <1>5 DEF Put, PlayerInv, EOF, Players
  <2>3. \A p \in Players : Append(queue[p], packet) # <<>>
    <3>1. \A p \in Players : queue[p] \in Seq(Packet) /\ Len(queue[p]) \in Nat
      BY <1>1
    <3>2. \A p \in Players : Len(Append(queue[p], packet)) = Len(queue[p]) + 1
      BY <2>2, <3>1, Appended
    <3>3. \A p \in Players : Len(Append(queue[p], packet)) # 0
      BY <3>1, <3>2
    <3> QED BY <3>3
  <2> QED BY <1>1, <1>2, <1>3, <1>5, <2>1, <2>3 DEF Put
<1>6. CASE Loop \/ AudioSize \/ VideoSize \/ CheckSeek
  BY <1>1, <1>2, <1>3, <1>6 DEF Loop, AudioSize, VideoSize, CheckSeek
<1>7. CASE Read \/ EofVideo \/ EofAudio \/ Complete
  BY <1>1, <1>2, <1>3, <1>7 DEF Read, EofVideo, EofAudio, Complete
<1>8. CASE FilterFault \/ Free
  BY <1>1, <1>2, <1>3, <1>8 DEF FilterFault, Free
<1> QED BY <1>4, <1>5, <1>6, <1>7, <1>8 DEF DemuxStep, Demux

-----------------------------------------------------------------------------
\* Before the first seek.

SeekMet == seek \/ epoch > 0

\* The player looks at its queue before every packet.
Watches(p) == p = "video" \/ layout = {"audio"}

\* Until a seek has moved the input, what the player has seen in its queue stays.
Awake(p) ==
    epoch = 0 =>
        /\ pc[p] # "wait"
        /\ pc[p] \in {"filled", "clearLoad", "get"} => queue[p] # <<>>

\* Until a seek, a packet is taken only when the decoder has been drained.
Drained ==
    /\ pc["audio"] = "seekLoad" => SeekMet
    /\ ~SeekMet =>
          /\ ~refused /\ ~lost
          /\ pending > 0 => ~isReadPacketFinish
          /\ pc["audio"] \in {"get", "wait"} => pending = 0

SeekInv ==
    /\ pc["user"] \in {"clearAudio", "clearVideo", "clocks", "unlock", "unflag"} => epoch > 0
    /\ \A p \in Players : Watches(p) => Awake(p)
    /\ Drained

LEMMA WatchAwake ==
    ASSUME PlayerInv, NEW p \in Players, NEW next \in {"get", "receive"}, Awake(p),
           \/ PlayerLoop(p) \/ PlayerSeek(p, "size") \/ PlayerSize(p) \/ PlayerEmpty(p)
           \/ PlayerFilled(p, next) \/ Sleep(p)
           \/ SetLoad(p, "seekLoad", TRUE, "loop") \/ SetLoad(p, "setLoad", TRUE, "loop")
           \/ SetLoad(p, "clearLoad", FALSE, next)
    PROVE  Awake(p)'
<1>1. pc \in [Threads -> PlayLabel] /\ p \in Threads
  BY DEF PlayerInv, TypeOK, PlayLabel, Threads, Players
<1>2. \A label : Goto(p, label) => pc'[p] = label
  BY <1>1 DEF Goto
<1> USE DEF At, shared, format, Awake
<1>3. CASE PlayerLoop(p) \/ PlayerSeek(p, "size")
  BY <1>2, <1>3 DEF PlayerLoop, PlayerSeek
<1>4. CASE PlayerSize(p) \/ PlayerEmpty(p)
  BY <1>2, <1>4 DEF PlayerSize, PlayerEmpty
<1>5. CASE PlayerFilled(p, next) \/ Sleep(p)
  BY <1>2, <1>5 DEF PlayerFilled, Sleep
<1>6. CASE \/ SetLoad(p, "seekLoad", TRUE, "loop") \/ SetLoad(p, "setLoad", TRUE, "loop")
           \/ SetLoad(p, "clearLoad", FALSE, next)
  BY <1>2, <1>6 DEF SetLoad
<1> QED BY <1>3, <1>4, <1>5, <1>6

LEMMA DemuxSeekInv == PlayerInv /\ SeekInv /\ DemuxStep => SeekInv'
BY DemuxEffect DEF SeekInv, Watches, Awake, Drained, SeekMet, audioVars, Players

LEMMA VideoSeekInv == PlayerInv /\ SeekInv /\ VideoStep => SeekInv'
<1> SUFFICES ASSUME PlayerInv, SeekInv, VideoStep PROVE SeekInv'
  OBVIOUS
<1>1. /\ pc \in [Threads -> PlayLabel] /\ queue \in [Players -> Seq(Packet)]
      /\ Threads = {"demux", "audio", "video", "user"} /\ Players = {"audio", "video"}
  BY DEF PlayerInv, TypeOK, PlayLabel, Threads, Players
<1>2. \A label : Goto("video", label) =>
         /\ pc'["video"] = label
         /\ pc'["audio"] = pc["audio"] /\ pc'["user"] = pc["user"]
  BY <1>1 DEF Goto
<1> USE DEF At, shared, input, status, format, videoVars
<1>3. Awake("video")
  BY <1>1 DEF SeekInv, Watches
<1>4. /\ pc'["audio"] = pc["audio"] /\ pc'["user"] = pc["user"]
      /\ UNCHANGED <<layout, seek, epoch>> /\ queue'["audio"] = queue["audio"]
      /\ Awake("video")'
  <2>1. CASE VideoWatch
    <3>1. Awake("video")'
      BY <1>1, <1>3, <2>1, WatchAwake DEF VideoWatch
    <3> QED BY <1>1, <1>2, <2>1, <3>1
            DEF VideoWatch, PlayerLoop, PlayerSeek, PlayerSize, PlayerEmpty, PlayerFilled,
                SetLoad, Sleep
  <2>2. CASE VideoGet \/ VideoGetExit \/ Compare \/ Raise \/ Show
                    \/ ShowWithoutAudio
    BY <1>1, <1>2, <1>3, <2>2 DEF VideoGet, VideoGetExit, Compare, Raise, Show, ShowWithoutAudio, Awake
  <2> QED BY <2>1, <2>2 DEF VideoStep, Video
<1>5. UNCHANGED audioVars
  BY DEF VideoStep
<1> QED BY <1>1, <1>4, <1>5 DEF SeekInv, Watches, Awake, Drained, SeekMet, audioVars

LEMMA AudioSeekInv == PlayerInv /\ SeekInv /\ AudioStep => SeekInv'
<1> SUFFICES ASSUME PlayerInv, SeekInv, AudioStep PROVE SeekInv'
  OBVIOUS
<1>1. /\ pc \in [Threads -> PlayLabel] /\ queue \in [Players -> Seq(Packet)]
      /\ Threads = {"demux", "audio", "video", "user"} /\ Players = {"audio", "video"}
      /\ pending \in Nat /\ isReadPacketFinish \in BOOLEAN /\ refused \in BOOLEAN
  BY DEF PlayerInv, TypeOK, PlayLabel, Threads, Players
<1>2. \A label : Goto("audio", label) =>
         /\ pc'["audio"] = label
         /\ pc'["video"] = pc["video"] /\ pc'["user"] = pc["user"]
  BY <1>1 DEF Goto
<1> USE DEF At, shared, input, status, format
<1>3. Decode \in {"get", "receive"}
  BY DEF Decode
<1>4. /\ pc'["video"] = pc["video"] /\ pc'["user"] = pc["user"]
      /\ UNCHANGED <<layout, seek, epoch>> /\ queue'["video"] = queue["video"]
  <2>1. CASE AudioWatch
    BY <1>1, <1>2, <2>1
       DEF AudioWatch, AudioSeek, PlayerLoop, PlayerSeek, PlayerSize, PlayerEmpty,
           PlayerFilled, SetLoad, Sleep
  <2>2. CASE AudioSeekLoad
    BY <1>1, <1>2, <2>2 DEF AudioSeekLoad, SetLoad
  <2>3. CASE AudioGet
    BY <1>1, <1>2, <2>3 DEF AudioGet
  <2>4. CASE AudioGetExit \/ ReceiveDropped \/ ReceiveConverted \/ ReceiveNone
    BY <1>1, <1>2, <2>4 DEF AudioGetExit, ReceiveDropped, ReceiveConverted, ReceiveNone
  <2> QED BY <2>1, <2>2, <2>3, <2>4 DEF AudioStep, Audio
<1>5. Watches("audio") => Awake("audio")'
  <2> SUFFICES ASSUME layout = {"audio"}, Awake("audio") PROVE Awake("audio")'
    BY <1>1 DEF SeekInv, Watches
  <2>1. CASE AudioWatch
    <3>1. AudioSeek => PlayerSeek("audio", "size")
      BY DEF AudioSeek
    <3> QED BY <1>1, <1>3, <2>1, <3>1, WatchAwake DEF AudioWatch
  <2>2. CASE AudioSeekLoad
    BY <1>1, <2>2, WatchAwake DEF AudioSeekLoad
  <2>3. CASE AudioGet
    BY <1>2, <2>3 DEF AudioGet, Awake
  <2>4. CASE AudioGetExit \/ ReceiveDropped \/ ReceiveConverted \/ ReceiveNone
    BY <1>2, <2>4 DEF AudioGetExit, ReceiveDropped, ReceiveConverted, ReceiveNone, Awake
  <2> QED BY <2>1, <2>2, <2>3, <2>4 DEF AudioStep, Audio
<1>6. Drained'
  <2>1. CASE AudioWatch
    <3>1. /\ UNCHANGED <<isReadPacketFinish, pending, refused, lost>>
          /\ Drained /\ (SeekMet' <=> SeekMet)
      BY <1>4, <2>1 DEF AudioWatch, SeekInv, SeekMet, audioVars
    <3>2. \/ pc'["audio"] \in {"loop", "seek", "size", "empty", "setLoad", "filled", "clearLoad",
                              "receive", "done"}
          \/ pc'["audio"] = "seekLoad" /\ seek
          \/ pc'["audio"] = "wait" /\ pc["audio"] = "get"
          \/ pc'["audio"] = "get" /\ isReadPacketFinish
      <4>1. CASE AudioSeek
        BY <1>2, <4>1 DEF AudioSeek, PlayerSeek, Decode
      <4>2. CASE PlayerLoop("audio") \/ PlayerSize("audio") \/ PlayerEmpty("audio")
        BY <1>2, <4>2 DEF PlayerLoop, PlayerSize, PlayerEmpty
      <4>3. CASE PlayerFilled("audio", Decode) \/ Sleep("audio")
        BY <1>2, <4>3 DEF PlayerFilled, Sleep, Decode
      <4>4. CASE SetLoad("audio", "setLoad", TRUE, "loop")
                 \/ SetLoad("audio", "clearLoad", FALSE, Decode)
        BY <1>2, <4>4 DEF SetLoad, Decode
      <4> QED BY <2>1, <4>1, <4>2, <4>3, <4>4 DEF AudioWatch
    <3>3. seek => SeekMet
      BY DEF SeekMet
    <3> QED BY <1>1, <3>1, <3>2, <3>3 DEF Drained
  <2>2. CASE AudioSeekLoad
    BY <1>2, <1>4, <2>2 DEF AudioSeekLoad, SetLoad, SeekInv, Drained, SeekMet
  <2>3. CASE AudioGet
    BY <1>1, <1>2, <1>4, <2>3 DEF AudioGet, SeekInv, Drained, SeekMet
  <2>4. CASE AudioGetExit
    BY <1>1, <1>2, <1>4, <2>4 DEF AudioGetExit, SeekInv, Drained, SeekMet
  <2>5. CASE ReceiveDropped \/ ReceiveConverted \/ ReceiveNone
    BY <1>1, <1>2, <1>4, <2>5
       DEF ReceiveDropped, ReceiveConverted, ReceiveNone, PacketGone, SeekInv, Drained, SeekMet
  <2> QED BY <2>1, <2>2, <2>3, <2>4, <2>5 DEF AudioStep, Audio
<1> QED BY <1>1, <1>4, <1>5, <1>6 DEF SeekInv, Watches, Awake

LEMMA UserSeekInv == PlayerInv /\ SeekInv /\ UserStep => SeekInv'
<1> SUFFICES ASSUME PlayerInv, SeekInv, UserStep PROVE SeekInv'
  OBVIOUS
<1>1. /\ pc \in [Threads -> PlayLabel] /\ epoch \in Nat
      /\ Threads = {"demux", "audio", "video", "user"} /\ Players = {"audio", "video"}
  BY DEF PlayerInv, TypeOK, PlayLabel, Threads, Players
<1>2. \A label : Goto("user", label) =>
         /\ pc'["user"] = label
         /\ pc'["audio"] = pc["audio"] /\ pc'["video"] = pc["video"]
  BY <1>1 DEF Goto
<1> USE DEF At, shared, input, status, format, SeekInv, Drained, Watches, Awake, SeekMet
<1>3. UNCHANGED audioVars
  BY DEF UserStep, CallStep, SeekStep, UserCalls, UserSeeks
<1>4. CASE UserCalls
  BY <1>1, <1>2, <1>3, <1>4 DEF UserCalls, Pause, Resume, SeekBegin, Release, audioVars
<1>5. CASE SeekFlag \/ SeekFile \/ SeekUnlock \/ SeekEnd
  BY <1>1, <1>2, <1>3, <1>5 DEF SeekFlag, SeekFile, SeekUnlock, SeekEnd, audioVars
<1>6. CASE At("user", "clearAudio") /\ SeekClear("audio", "clearVideo")
  BY <1>1, <1>2, <1>3, <1>6 DEF SeekClear, audioVars
<1>7. CASE At("user", "clearVideo") /\ SeekClear("video", "clocks")
  BY <1>1, <1>2, <1>3, <1>7 DEF SeekClear, audioVars
<1>8. CASE SeekClocks
  BY <1>1, <1>2, <1>3, <1>8 DEF SeekClocks, audioVars
<1> QED BY <1>4, <1>5, <1>6, <1>7, <1>8 DEF UserStep, CallStep, SeekStep, UserSeeks

LEMMA WakeSeekInv == PlayerInv /\ SeekInv /\ SpuriousWake => SeekInv'
<1> SUFFICES ASSUME PlayerInv, SeekInv, NEW p \in Players, Wake(p), UNCHANGED audioVars
             PROVE SeekInv'
  BY DEF SpuriousWake, AudioWoken, VideoWoken, AudioWake, VideoWake, Players
<1>1. /\ pc \in [Threads -> PlayLabel]
      /\ Threads = {"demux", "audio", "video", "user"} /\ Players = {"audio", "video"}
  BY DEF PlayerInv, TypeOK, PlayLabel, Threads, Players
<1> QED BY <1>1 DEF Wake, Goto, At, shared, input, status, format, audioVars,
                    SeekInv, Drained, Watches, Awake, SeekMet

LEMMA Seeks == Spec => []SeekInv
<1>1. Init => SeekInv
  BY DEF Init, SharedInit, AudioInit, SeekInv, Watches, Awake, Drained, SeekMet, Threads, Players
<1>2. PlayerInv /\ SeekInv /\ [Next]_vars => SeekInv'
  <2>1. UNCHANGED vars /\ SeekInv => SeekInv'
    BY DEF vars, shared, input, status, format, audioVars, SeekInv, Watches, Awake, Drained,
           SeekMet
  <2> QED BY <2>1, DemuxSeekInv, AudioSeekInv, VideoSeekInv, UserSeekInv, WakeSeekInv DEF Next
<1> QED BY <1>1, <1>2, Playing, PTL DEF Spec

\* A player that tests its queue before it takes from it never sleeps in getAvpacket
\* before a seek: nobody else takes from the queue, and only seek() clears it.
THEOREM SleepsOnlyAfterSeek == Spec => []SleepNeedsSeek
<1>1. PlayerInv /\ SeekInv => SleepNeedsSeek
  BY DEF PlayerInv, TypeOK, SeekInv, Watches, Awake, SleepNeedsSeek
<1> QED BY <1>1, Playing, Seeks, PTL

\* The audio decoder refuses no packet for good before a seek: getPcmData drains it
\* first.
THEOREM LossOnlyAfterSeek == Spec => []LossNeedsSeek
<1>1. SeekInv => LossNeedsSeek
  BY DEF SeekInv, Drained, SeekMet, LossNeedsSeek
<1> QED BY <1>1, Seeks, PTL

-----------------------------------------------------------------------------
\* The end of the input.

\* What a player has yet to take is in its queue.
UnplayedInv ==
    \A p \in Players : \A q \in unplayed[p] : \E k \in 1..Len(queue[p]) : queue[p][k] = q

LEMMA UnplayedKeeps == PlayerInv /\ OrderInv /\ ClockInv /\ UnplayedInv /\ Kind => UnplayedInv'
<1> SUFFICES ASSUME PlayerInv, OrderInv, ClockInv, UnplayedInv, Kind PROVE UnplayedInv'
  OBVIOUS
<1>1. /\ TypeOK /\ queue \in [Players -> Seq(Packet)]
      /\ unplayed \in [Players -> SUBSET Packet]
      /\ \A p \in Players : queue[p] \in Seq(Packet) /\ Len(queue[p]) \in Nat
      /\ packet # EOF => packet \in Packet
  BY PacketTypes DEF PlayerInv, TypeOK
<1> USE DEF UnplayedInv
<1>2. CASE Leaves \/ Reads \/ Raises \/ Shows \/ Resets
  BY <1>2 DEF Leaves, Reads, Raises, Shows, PlayerMoves, Resets
<1>3. CASE Puts
  <2>1. packet \in Packet
    BY <1>1, <1>3 DEF Puts, Hand
  <2>2. ASSUME NEW p \in Players, NEW q \in unplayed'[p]
        PROVE  \E k \in 1..Len(queue'[p]) : queue'[p][k] = q
    <3>1. CASE p # packet.stream
      BY <1>1, <1>3, <2>2, <3>1 DEF Puts
    <3>2. CASE p = packet.stream
      <4>1. queue'[p] = Append(queue[p], packet)
        BY <1>1, <1>3, <3>2 DEF Puts
      <4>2. /\ Len(queue'[p]) = Len(queue[p]) + 1
            /\ queue'[p][Len(queue[p]) + 1] = packet
            /\ \A k \in 1..Len(queue[p]) : queue'[p][k] = queue[p][k]
        BY <1>1, <2>1, <4>1, Appended
      <4>3. q \in unplayed[p] \/ q = packet
        BY <1>1, <1>3, <2>2, <3>2 DEF Puts
      <4>4. /\ Len(queue[p]) + 1 \in 1..Len(queue'[p])
            /\ \A k \in 1..Len(queue[p]) : k \in 1..Len(queue'[p])
        BY <1>1, <4>2
      <4> QED BY <4>2, <4>3, <4>4
    <3> QED BY <3>1, <3>2
  <2> QED BY <2>2
<1>4. ASSUME NEW p \in Players, Takes(p) PROVE UnplayedInv'
  <2>1. /\ \A r \in Players : queue'[r] = IF r = p THEN Tail(queue[r]) ELSE queue[r]
        /\ Len(queue[p]) > 0 /\ Head(queue[p]) = queue[p][1]
        /\ Len(queue'[p]) = Len(queue[p]) - 1
        /\ \A k \in 1..Len(queue'[p]) : queue'[p][k] = queue[p][k + 1]
    BY <1>1, <1>4, FrontTaken
  <2>2. ASSUME NEW q \in unplayed'[p] PROVE \E k \in 1..Len(queue'[p]) : queue'[p][k] = q
    <3>1. q \in unplayed[p] /\ q # queue[p][1]
      BY <1>1, <1>4, <2>1, <2>2 DEF Takes
    <3>2. PICK k \in 1..Len(queue[p]) : queue[p][k] = q
      BY <3>1
    <3>3. k - 1 \in 1..Len(queue'[p]) /\ (k - 1) + 1 = k
      BY <1>1, <2>1, <3>1, <3>2
    <3>4. queue'[p][k - 1] = queue[p][(k - 1) + 1]
      BY <2>1, <3>3
    <3> QED BY <3>2, <3>3, <3>4
  <2>3. \A r \in Players \ {p} : unplayed'[r] = unplayed[r] /\ queue'[r] = queue[r]
    BY <1>1, <1>4, <2>1 DEF Takes
  <2> QED BY <2>2, <2>3
<1>5. CASE Moves
  BY <1>5 DEF Moves
<1>6. ASSUME NEW p \in Players, Clears(p) PROVE UnplayedInv'
  <2>1. \A r \in Players : unplayed[r] = {}
    BY <1>6 DEF Clears, SeekLabel, ClockInv, SeekStops
  <2> QED BY <1>6, <2>1 DEF Clears
<1> QED BY <1>2, <1>3, <1>4, <1>5, <1>6 DEF Kind

\* The end of the input in the demuxer's hand was read where the input still stands,
\* or a seek has moved it.
EndInv ==
    /\ pc["demux"] \in {"eofVideo", "eofAudio"} => packet = EOF
    /\ /\ pc["demux"] \in {"check", "free", "eofVideo", "eofAudio"}
       /\ packet = EOF /\ ~ended
       => epoch > 0

LEMMA DemuxEndInv == PlayerInv /\ EndInv /\ DemuxStep => EndInv'
<1> SUFFICES ASSUME PlayerInv, EndInv, DemuxStep PROVE EndInv'
  OBVIOUS
<1>1. pc \in [Threads -> PlayLabel] /\ "demux" \in Threads
  BY DEF PlayerInv, TypeOK, PlayLabel, Threads
<1>2. \A label : Goto("demux", label) => pc'["demux"] = label
  BY <1>1 DEF Goto
<1>3. epoch' = epoch
  BY DemuxEffect
<1>4. ended' = IF pc["demux"] = "read" THEN packet' = EOF ELSE ended
  BY DEF DemuxStep, Queues, At
<1> USE DEF At, EndInv
<1>5. CASE Start \/ Complete \/ Put
  <2>1. pc'["demux"] \in {"loop", "done"}
    BY <1>1, <1>2, <1>5 DEF Start, Complete, Put
  <2> QED BY <2>1
<1>6. CASE Loop \/ AudioSize \/ VideoSize
  <2>1. pc'["demux"] \in {"complete", "audioSize", "videoSize", "loop", "read"}
    BY <1>2, <1>6 DEF Loop, AudioSize, VideoSize
  <2> QED BY <2>1
<1>7. CASE Read
  BY <1>2, <1>4, <1>7 DEF Read
<1>8. CASE CheckSeek \/ Free \/ FilterFault
  BY <1>2, <1>3, <1>4, <1>8 DEF CheckSeek, Free, FilterFault
<1>9. CASE EofVideo \/ EofAudio
  BY <1>2, <1>3, <1>4, <1>9 DEF EofVideo, EofAudio
<1> QED BY <1>5, <1>6, <1>7, <1>8, <1>9 DEF DemuxStep, Demux

\* Of the other threads only the user's sets exit, to release, or moves the input.
OthersEnd ==
    /\ exit' = exit \/ pc'["user"] = "released"
    /\ (ended' = ended /\ epoch' = epoch) \/ epoch' > 0

LEMMA PlayersEnd == PlayerInv /\ (AudioStep \/ VideoStep \/ SpuriousWake) => OthersEnd
<1> SUFFICES ASSUME PlayerInv, AudioStep \/ VideoStep \/ SpuriousWake
             PROVE  UNCHANGED <<exit, ended, epoch>>
  BY DEF OthersEnd
<1> USE DEF shared, status, format, history
<1>1. CASE AudioStep
  <2>1. CASE AudioWatch
    BY <1>1, <2>1
       DEF AudioStep, Plays, AudioWatch, AudioSeek, PlayerLoop, PlayerSeek, PlayerSize,
           PlayerEmpty, PlayerFilled, SetLoad, Sleep
  <2>2. CASE AudioSeekLoad \/ AudioGet
    BY <1>1, <2>2 DEF AudioStep, Plays, AudioSeekLoad, SetLoad, AudioGet
  <2>3. CASE AudioGetExit \/ ReceiveDropped \/ ReceiveConverted \/ ReceiveNone
    BY <1>1, <2>3
       DEF AudioStep, Plays, AudioGetExit, ReceiveDropped, ReceiveConverted, ReceiveNone
  <2> QED BY <1>1, <2>1, <2>2, <2>3 DEF AudioStep, Audio
<1>2. CASE VideoStep
  <2>1. CASE VideoWatch
    BY <1>2, <2>1
       DEF VideoStep, Plays, VideoWatch, PlayerLoop, PlayerSeek, PlayerSize, PlayerEmpty,
           PlayerFilled, SetLoad, Sleep
  <2>2. CASE \/ VideoGet \/ VideoGetExit \/ Compare \/ Raise \/ Show
             \/ ShowWithoutAudio
    BY <1>2, <2>2
       DEF VideoStep, Plays, VideoGet, VideoGetExit, Compare, Raise, Show, ShowWithoutAudio
  <2> QED BY <1>2, <2>1, <2>2 DEF VideoStep, Video
<1>3. CASE SpuriousWake
  BY <1>3 DEF SpuriousWake, AudioWoken, VideoWoken, AudioWake, VideoWake, Wake
<1> QED BY <1>1, <1>2, <1>3

LEMMA UserEnds == PlayerInv /\ UserStep => OthersEnd
<1> SUFFICES ASSUME PlayerInv, UserStep PROVE OthersEnd
  OBVIOUS
<1>1. pc \in [Threads -> PlayLabel] /\ "user" \in Threads /\ epoch \in Nat
  BY DEF PlayerInv, TypeOK, PlayLabel, Threads
<1>2. epoch' = epoch => ended' = ended
  BY DEF UserStep, CallStep, SeekStep, Moved, history
<1> USE DEF shared, status, format, OthersEnd
<1>3. CASE UserCalls
  BY <1>1, <1>2, <1>3 DEF UserCalls, Pause, Resume, SeekBegin, Release, Goto
<1>4. CASE UserSeeks
  BY <1>1, <1>2, <1>4
     DEF UserSeeks, SeekFlag, SeekFile, SeekUnlock, SeekEnd, SeekClear, SeekClocks
<1> QED BY <1>3, <1>4 DEF UserStep, CallStep, SeekStep

LEMMA Ends == Spec => [](EndInv /\ UnplayedInv)
<1>1. Init => EndInv /\ UnplayedInv
  BY DEF Init, SharedInit, EndInv, UnplayedInv, Threads
<1>2. PlayerInv /\ OrderInv /\ ClockInv /\ UnplayedInv /\ [Next]_vars => UnplayedInv'
  BY KindOfStep, UnplayedKeeps
<1>3. PlayerInv /\ EndInv /\ [Next]_vars => EndInv'
  <2> SUFFICES ASSUME PlayerInv, EndInv, [Next]_vars PROVE EndInv'
    OBVIOUS
  <2>1. OthersDo /\ OthersEnd => EndInv'
    BY DEF OthersDo, OthersEnd, EndInv
  <2>2. CASE UNCHANGED vars
    BY <2>2 DEF vars, shared, format, history, EndInv
  <2>3. CASE AudioStep \/ VideoStep \/ UserStep \/ SpuriousWake
    BY <2>1, <2>3, AudioKeeps, VideoKeeps, UserKeeps, WakeKeeps, PlayersEnd, UserEnds
       DEF PlayerInv
  <2> QED BY <2>2, <2>3, DemuxEndInv DEF Next
<1> QED BY <1>1, <1>2, <1>3, Playing, Ordered, Clocks, PTL DEF Spec

\* Only the end of the input, or an error, makes the demuxer end the playback, and only
\* when one of the players has taken all that was queued for it since the last seek,
\* unless that seek came after the end was read.
THEOREM EndDrainsOne == Spec => EofDrainsOne
<1>1. PlayerInv /\ EndInv /\ UnplayedInv /\ [Next]_vars
         => [~exit /\ exit' /\ pc'["user"] # "released" =>
                /\ packet = EOF
                /\ ended => \E p \in layout : unplayed[p] = {}
                /\ ~ended => epoch > 0]_vars
  <2> SUFFICES ASSUME PlayerInv, EndInv, UnplayedInv, Next,
                      ~exit, exit', pc'["user"] # "released"
               PROVE  /\ packet = EOF
                      /\ ended => \E p \in layout : unplayed[p] = {}
                      /\ ~ended => epoch > 0
    OBVIOUS
  <2>1. DemuxStep
    BY PlayersEnd, UserEnds DEF Next, OthersEnd
  <2> USE DEF shared, status, At
  <2>2. CASE EofVideo \/ EofAudio
    <3>1. pc["demux"] \in {"eofVideo", "eofAudio"} /\ \E p \in layout : queue[p] = <<>>
      BY <2>2 DEF EofVideo, EofAudio
    <3>2. \A p \in Players : queue[p] = <<>> => unplayed[p] = {}
      BY DEF UnplayedInv
    <3>3. layout \subseteq Players
      BY DEF PlayerInv, TypeOK
    <3> QED BY <3>1, <3>2, <3>3 DEF EndInv
  <2>3. CASE ~(EofVideo \/ EofAudio)
    BY <2>1, <2>3
       DEF DemuxStep, Demux, Start, Loop, AudioSize, VideoSize, Read, CheckSeek, Put,
           FilterFault, Free, Complete
  <2> QED BY <2>2, <2>3
<1> QED BY <1>1, Ends, Playing, PTL DEF Spec, EofDrainsOne

-----------------------------------------------------------------------------
\* What the user is told of loading.

Reporting(p) == pc[p] \in {"seekLoad", "setLoad", "clearLoad"}

\* The flag follows what the user has been told.
Told ==
    /\ \A p \in Players :
          /\ pc[p] \in {"seekLoad", "setLoad"} => uiLoading = TRUE
          /\ pc[p] = "clearLoad" => uiLoading = FALSE
    /\ (\A p \in Players : ~Reporting(p)) => uiLoading = load

\* Of two players only the video reports, until a seek makes both.
LoadInv ==
    /\ pc["demux"] = "start" => \A p \in Players : pc[p] = "none"
    /\ \A p \in Players : p \notin layout => pc[p] = "none"
    /\ layout = Players /\ ~SeekMet =>
          pc["audio"] \notin {"size", "empty", "filled", "seekLoad", "setLoad", "clearLoad"}
    /\ layout # Players \/ ~SeekMet => Told

\* A step of the player that reports.
LEMMA ReporterTells ==
    ASSUME TypeOK, Told, NEW p \in Players, NEW o \in Players \ {p}, ~Reporting(o),
           NEW next \in {"size", "get", "receive"},
           \/ PlayerLoop(p) \/ PlayerSeek(p, next) \/ PlayerSize(p) \/ PlayerEmpty(p)
           \/ PlayerFilled(p, next) \/ Sleep(p) \/ Wake(p)
           \/ SetLoad(p, "seekLoad", TRUE, "loop") \/ SetLoad(p, "setLoad", TRUE, "loop")
           \/ SetLoad(p, "clearLoad", FALSE, next)
    PROVE  Told'
<1>1. /\ pc \in [Threads -> PlayLabel] /\ p \in Threads /\ o \in Threads
      /\ load \in BOOLEAN /\ uiLoading \in BOOLEAN
      /\ \A r \in Players : r = p \/ r = o
  BY DEF TypeOK, PlayLabel, Threads, Players
<1>2. \A label : Goto(p, label) => pc'[p] = label /\ pc'[o] = pc[o]
  BY <1>1 DEF Goto
<1> USE DEF At, shared, status
<1>3. /\ pc[o] \notin {"seekLoad", "setLoad", "clearLoad"}
      /\ pc[p] \in {"seekLoad", "setLoad"} => uiLoading = TRUE
      /\ pc[p] = "clearLoad" => uiLoading = FALSE
      /\ pc[p] \notin {"seekLoad", "setLoad", "clearLoad"} => uiLoading = load
  BY <1>1 DEF Told, Reporting
<1>4. /\ pc'[o] = pc[o]
      /\ pc'[p] \in {"seekLoad", "setLoad"} => uiLoading' = TRUE
      /\ pc'[p] = "clearLoad" => uiLoading' = FALSE
      /\ pc'[p] \notin {"seekLoad", "setLoad", "clearLoad"} => uiLoading' = load'
  <2>1. CASE PlayerLoop(p) \/ PlayerSeek(p, next) \/ PlayerSize(p)
    BY <1>2, <1>3, <2>1 DEF PlayerLoop, PlayerSeek, PlayerSize, OnLoad
  <2>2. CASE PlayerEmpty(p) \/ PlayerFilled(p, next) \/ Sleep(p) \/ Wake(p)
    BY <1>2, <1>3, <2>2 DEF PlayerEmpty, PlayerFilled, Sleep, Wake, OnLoad
  <2>3. CASE SetLoad(p, "seekLoad", TRUE, "loop") \/ SetLoad(p, "setLoad", TRUE, "loop")
    <3>1. /\ pc'[o] = pc[o] /\ pc'[p] = "loop"
          /\ uiLoading = TRUE /\ uiLoading' = uiLoading /\ load' = TRUE
      BY <1>2, <1>3, <2>3 DEF SetLoad
    <3> QED BY <3>1
  <2>4. CASE SetLoad(p, "clearLoad", FALSE, next)
    <3>1. /\ pc'[o] = pc[o] /\ pc'[p] = next
          /\ uiLoading = FALSE /\ uiLoading' = uiLoading /\ load' = FALSE
      BY <1>2, <1>3, <2>4 DEF SetLoad
    <3> QED BY <3>1
  <2> QED BY <2>1, <2>2, <2>3, <2>4
<1> QED BY <1>1, <1>3, <1>4 DEF Told, Reporting

\* A step that reports nothing, of a player that is not reporting.
LEMMA SilentTells ==
    ASSUME Told, UNCHANGED <<load, uiLoading>>,
           \A p \in Players : pc'[p] = pc[p] \/ (~Reporting(p) /\ ~Reporting(p)')
    PROVE  Told'
BY DEF Told, Reporting

LEMMA DemuxLoadInv == PlayerInv /\ LoadInv /\ DemuxStep => LoadInv'
<1> SUFFICES ASSUME PlayerInv, LoadInv, DemuxStep PROVE LoadInv'
  OBVIOUS
<1>1. \A p \in Players : \/ pc'[p] = pc[p]
                         \/ p \in layout /\ pc[p] = "none" /\ pc'[p] = "loop"
  BY DemuxEffect DEF LoadInv
<1>2. /\ UNCHANGED <<layout, load, seek, uiLoading, epoch>> /\ pc'["demux"] # "start"
      /\ "audio" \in Players
  BY DemuxEffect DEF Players
<1>3. Told => Told'
  BY <1>1, <1>2, SilentTells DEF Reporting
<1> QED BY <1>1, <1>2, <1>3 DEF LoadInv, SeekMet

LEMMA VideoLoadInv == PlayerInv /\ LoadInv /\ VideoStep => LoadInv'
<1> SUFFICES ASSUME PlayerInv, LoadInv, VideoStep PROVE LoadInv'
  OBVIOUS
<1>1. /\ pc \in [Threads -> PlayLabel] /\ TypeOK /\ layout \subseteq Players
      /\ Threads = {"demux", "audio", "video", "user"} /\ Players = {"audio", "video"}
  BY DEF PlayerInv, TypeOK, PlayLabel, Threads, Players
<1>2. \A label : Goto("video", label) =>
         /\ pc'["video"] = label
         /\ pc'["audio"] = pc["audio"] /\ pc'["demux"] = pc["demux"]
  BY <1>1 DEF Goto
<1> USE DEF At, shared, input, status, format, videoVars
<1>3. /\ pc'["audio"] = pc["audio"] /\ pc'["demux"] = pc["demux"]
      /\ pc["video"] # "none" /\ UNCHANGED <<layout, seek, epoch>>
  <2>1. CASE VideoWatch
    BY <1>2, <2>1
       DEF VideoWatch, PlayerLoop, PlayerSeek, PlayerSize, PlayerEmpty, PlayerFilled, SetLoad,
           Sleep
  <2>2. CASE VideoGet \/ VideoGetExit \/ Compare \/ Raise \/ Show
                    \/ ShowWithoutAudio
    BY <1>2, <2>2 DEF VideoGet, VideoGetExit, Compare, Raise, Show, ShowWithoutAudio
  <2> QED BY <2>1, <2>2 DEF VideoStep, Video
<1>4. "video" \in layout /\ (layout # Players => pc["audio"] = "none")
  BY <1>1, <1>3 DEF LoadInv
<1>5. ASSUME layout # Players \/ ~SeekMet PROVE Told'
  <2>1. Told /\ ~Reporting("audio")
    BY <1>4, <1>5 DEF LoadInv, Reporting
  <2>2. CASE VideoWatch
    BY <1>1, <2>1, <2>2, ReporterTells DEF VideoWatch
  <2>3. CASE VideoGet \/ VideoGetExit \/ Compare \/ Raise \/ Show
                    \/ ShowWithoutAudio
    <3>1. /\ UNCHANGED <<load, uiLoading>>
          /\ pc'["video"] = pc["video"] \/ (~Reporting("video") /\ ~Reporting("video")')
      BY <1>2, <2>3 DEF VideoGet, VideoGetExit, Compare, Raise, Show, ShowWithoutAudio, Reporting
    <3> QED BY <1>1, <1>3, <2>1, <3>1, SilentTells
  <2> QED BY <2>2, <2>3 DEF VideoStep, Video
<1> QED BY <1>1, <1>3, <1>4, <1>5 DEF LoadInv, SeekMet

LEMMA AudioLoadInv == PlayerInv /\ LoadInv /\ AudioStep => LoadInv'
<1> SUFFICES ASSUME PlayerInv, LoadInv, AudioStep PROVE LoadInv'
  OBVIOUS
<1>1. /\ pc \in [Threads -> PlayLabel] /\ TypeOK /\ layout \subseteq Players
      /\ Threads = {"demux", "audio", "video", "user"} /\ Players = {"audio", "video"}
  BY DEF PlayerInv, TypeOK, PlayLabel, Threads, Players
<1>2. \A label : Goto("audio", label) =>
         /\ pc'["audio"] = label
         /\ pc'["video"] = pc["video"] /\ pc'["demux"] = pc["demux"]
  BY <1>1 DEF Goto
<1> USE DEF At, shared, input, status, format
<1>3. /\ pc'["video"] = pc["video"] /\ pc'["demux"] = pc["demux"]
      /\ pc["audio"] # "none" /\ UNCHANGED <<layout, seek, epoch>>
  <2>1. CASE AudioWatch
    BY <1>2, <2>1
       DEF AudioWatch, AudioSeek, PlayerLoop, PlayerSeek, PlayerSize, PlayerEmpty,
           PlayerFilled, SetLoad, Sleep
  <2>2. CASE AudioSeekLoad \/ AudioGet
    BY <1>2, <2>2 DEF AudioSeekLoad, SetLoad, AudioGet
  <2>3. CASE AudioGetExit \/ ReceiveDropped \/ ReceiveConverted \/ ReceiveNone
    BY <1>2, <2>3 DEF AudioGetExit, ReceiveDropped, ReceiveConverted, ReceiveNone
  <2> QED BY <2>1, <2>2, <2>3 DEF AudioStep, Audio
<1>4. "audio" \in layout /\ (layout # Players => pc["video"] = "none")
  BY <1>1, <1>3 DEF LoadInv
<1>5. Decode \in {"get", "receive"}
  BY DEF Decode
\* Beside a video the audio reports nothing before a seek.
<1>6. ASSUME layout = Players, ~SeekMet
      PROVE  /\ UNCHANGED <<load, uiLoading>>
             /\ pc'["audio"] \notin {"size", "empty", "filled", "seekLoad", "setLoad", "clearLoad"}
  <2> USE DEF SeekMet
  <2>1. pc["audio"] \notin {"size", "empty", "filled", "seekLoad", "setLoad", "clearLoad"}
    BY <1>6 DEF LoadInv
  <2>2. CASE AudioSeek
    BY <1>1, <1>2, <1>5, <1>6, <2>2 DEF AudioSeek, PlayerSeek
  <2>3. CASE AudioWatch /\ ~AudioSeek
    <3>1. PlayerLoop("audio") \/ Sleep("audio")
      BY <2>1, <2>3
         DEF AudioWatch, PlayerLoop, PlayerSize, PlayerEmpty, PlayerFilled, SetLoad, Sleep
    <3> QED BY <1>2, <3>1 DEF PlayerLoop, Sleep
  <2>4. CASE AudioSeekLoad \/ AudioGet
    BY <1>2, <2>1, <2>4 DEF AudioSeekLoad, SetLoad, AudioGet
  <2>5. CASE AudioGetExit \/ ReceiveDropped \/ ReceiveConverted \/ ReceiveNone
    BY <1>2, <2>1, <2>5 DEF AudioGetExit, ReceiveDropped, ReceiveConverted, ReceiveNone
  <2> QED BY <2>2, <2>3, <2>4, <2>5 DEF AudioStep, Audio
<1>7. ASSUME layout # Players PROVE Told'
  <2>1. Told /\ ~Reporting("video")
    BY <1>4, <1>7 DEF LoadInv, Reporting
  <2>2. CASE AudioWatch
    <3>1. AudioSeek => PlayerSeek("audio", "size")
      <4>1. "video" \in layout => \A q : q \in layout <=> q \in Players
        BY <1>1, <1>4
      <4>2. "video" \notin layout
        BY <1>7, <4>1
      <4> QED BY <4>2 DEF AudioSeek
    <3> QED BY <1>1, <1>5, <2>1, <2>2, <3>1, ReporterTells DEF AudioWatch
  <2>3. CASE AudioSeekLoad
    BY <1>1, <2>1, <2>3, ReporterTells DEF AudioSeekLoad
  <2>4. CASE AudioGet \/ AudioGetExit \/ ReceiveDropped \/ ReceiveConverted \/ ReceiveNone
    <3>1. /\ UNCHANGED <<load, uiLoading>>
          /\ pc'["audio"] = pc["audio"] \/ (~Reporting("audio") /\ ~Reporting("audio")')
      BY <1>2, <2>4
         DEF AudioGet, AudioGetExit, ReceiveDropped, ReceiveConverted, ReceiveNone, Reporting
    <3> QED BY <1>1, <1>3, <2>1, <3>1, SilentTells
  <2> QED BY <2>2, <2>3, <2>4 DEF AudioStep, Audio
<1>8. ASSUME layout = Players, ~SeekMet PROVE Told'
  <2>1. Told /\ ~Reporting("audio") /\ ~Reporting("audio")'
    BY <1>6, <1>8 DEF LoadInv, Reporting
  <2> QED BY <1>1, <1>3, <1>6, <1>8, <2>1, SilentTells
<1> QED BY <1>1, <1>3, <1>4, <1>6, <1>7, <1>8 DEF LoadInv, SeekMet

LEMMA UserLoadInv == PlayerInv /\ SeekInv /\ LoadInv /\ UserStep => LoadInv'
<1> SUFFICES ASSUME PlayerInv, SeekInv, LoadInv, UserStep PROVE LoadInv'
  OBVIOUS
<1>1. /\ pc \in [Threads -> PlayLabel] /\ epoch \in Nat
      /\ Threads = {"demux", "audio", "video", "user"} /\ Players = {"audio", "video"}
  BY DEF PlayerInv, TypeOK, PlayLabel, Threads, Players
<1>2. \A label : Goto("user", label) =>
         /\ pc'["user"] = label /\ pc'["demux"] = pc["demux"]
         /\ \A p \in Players : pc'[p] = pc[p]
  BY <1>1 DEF Goto
<1> USE DEF At, shared, input, status, format, SeekMet
<1>3. /\ UNCHANGED <<layout, load, uiLoading>> /\ pc'["demux"] = pc["demux"]
      /\ \A p \in Players : pc'[p] = pc[p]
      /\ SeekMet => SeekMet'
  <2>1. CASE UserCalls
    BY <1>1, <1>2, <2>1 DEF UserCalls, Pause, Resume, SeekBegin, Release
  <2>2. CASE SeekFlag \/ SeekFile \/ SeekUnlock \/ SeekEnd
    BY <1>1, <1>2, <2>2 DEF SeekFlag, SeekFile, SeekUnlock, SeekEnd, SeekInv
  <2>3. CASE \/ At("user", "clearAudio") /\ SeekClear("audio", "clearVideo")
             \/ At("user", "clearVideo") /\ SeekClear("video", "clocks")
             \/ SeekClocks
    BY <1>2, <2>3 DEF SeekClear, SeekClocks
  <2> QED BY <2>1, <2>2, <2>3 DEF UserStep, CallStep, SeekStep, UserSeeks
<1>4. Told => Told'
  BY <1>3, SilentTells
<1> QED BY <1>1, <1>3, <1>4 DEF LoadInv

LEMMA WakeLoadInv == PlayerInv /\ LoadInv /\ SpuriousWake => LoadInv'
<1> SUFFICES ASSUME PlayerInv, LoadInv, NEW p \in Players, Wake(p) PROVE LoadInv'
  BY DEF SpuriousWake, AudioWoken, VideoWoken, AudioWake, VideoWake, Players
<1>1. /\ pc \in [Threads -> PlayLabel]
      /\ Threads = {"demux", "audio", "video", "user"} /\ Players = {"audio", "video"}
  BY DEF PlayerInv, TypeOK, PlayLabel, Threads, Players
<1>2. /\ UNCHANGED <<layout, load, seek, uiLoading, epoch>> /\ pc'["demux"] = pc["demux"]
      /\ pc[p] = "wait" /\ pc'[p] = "get"
      /\ \A o \in Players : o # p => pc'[o] = pc[o]
  BY <1>1 DEF Wake, Goto, At, shared, input, status, format
<1>3. Told => Told'
  BY <1>2, SilentTells DEF Reporting
<1> QED BY <1>1, <1>2, <1>3 DEF LoadInv, SeekMet

\* onLoad and the flag of the status are set in two steps, by two threads; what the
\* user was told last is what the flag says, as long as only one of them reports.
THEOREM LoadShown == Spec => []LoadShownRight
<1>1. Init => LoadInv
  BY DEF Init, SharedInit, LoadInv, Told, Reporting, SeekMet, Threads, Players
<1>2. PlayerInv /\ SeekInv /\ LoadInv /\ [Next]_vars => LoadInv'
  <2>1. UNCHANGED vars /\ LoadInv => LoadInv'
    BY DEF vars, shared, input, status, format, LoadInv, Told, Reporting, SeekMet
  <2> QED BY <2>1, DemuxLoadInv, AudioLoadInv, VideoLoadInv, UserLoadInv, WakeLoadInv DEF Next
<1>3. PlayerInv /\ LoadInv => LoadShownRight
  BY DEF PlayerInv, TypeOK, LoadInv, Told, Reporting, SeekMet, LoadShownRight, Notifying
<1> QED BY <1>1, <1>2, <1>3, Playing, Seeks, PTL DEF Spec

-----------------------------------------------------------------------------
\* The stall.

LEMMA StallStays ==
    PlayerInv /\ StaleInv /\ [Next]_vars => (Stalled => Stalled' \/ exit' \/ queue'["audio"] = <<>>)
<1> SUFFICES ASSUME PlayerInv, StaleInv, [Next]_vars, Stalled
             PROVE  Stalled' \/ exit' \/ queue'["audio"] = <<>>
  OBVIOUS
<1>1. /\ pc \in [Threads -> PlayLabel] /\ queue \in [Players -> Seq(Packet)]
      /\ Threads = {"demux", "audio", "video", "user"} /\ Players = {"audio", "video"}
      /\ Limit \in Nat
  BY DEF PlayerInv, TypeOK, PlayLabel, Threads, Players
<1>2. /\ pc["audio"] = "done" /\ ~exit /\ pc["demux"] \in {"loop", "audioSize"}
      /\ Len(queue["audio"]) > Limit
  BY DEF Stalled
<1>3. "audio" \in layout
  <2> SUFFICES ASSUME queue["audio"] = <<>> PROVE FALSE
    BY <1>1 DEF StaleInv
  <2>1. Len(queue["audio"]) = 0
    OBVIOUS
  <2> QED BY <1>1, <1>2, <2>1
<1> USE DEF At, shared, input, status, format, Stalled
<1>4. \A t \in {"video", "user"} : \A label : Goto(t, label) =>
         pc'["audio"] = pc["audio"] /\ pc'["demux"] = pc["demux"]
  BY <1>1 DEF Goto
<1>5. CASE DemuxStep
  <2>1. CASE Loop \/ AudioSize
    <3>1. \A label : Goto("demux", label) => pc'["audio"] = pc["audio"] /\ pc'["demux"] = label
      BY <1>1 DEF Goto
    <3> QED BY <1>2, <1>3, <2>1, <3>1 DEF Loop, AudioSize
  <2>2. CASE ~(Loop \/ AudioSize)
    BY <1>2, <1>5, <2>2
       DEF DemuxStep, Demux, Start, VideoSize, Read, CheckSeek, Put, FilterFault, Free,
           EofVideo, EofAudio, Complete
  <2> QED BY <2>1, <2>2
<1>6. ~AudioStep
  <2>1. ~AudioWatch
    BY <1>2 DEF AudioWatch, AudioSeek, PlayerLoop, PlayerSeek, PlayerSize, PlayerEmpty,
                PlayerFilled, SetLoad, Sleep
  <2>2. ~AudioSeekLoad /\ ~AudioGet /\ ~AudioGetExit
    BY <1>2 DEF AudioSeekLoad, SetLoad, AudioGet, AudioGetExit
  <2>3. ~ReceiveDropped /\ ~ReceiveConverted /\ ~ReceiveNone
    BY <1>2 DEF ReceiveDropped, ReceiveConverted, ReceiveNone
  <2> QED BY <2>1, <2>2, <2>3 DEF AudioStep, Audio
<1>7. CASE VideoStep
  <2>1. CASE VideoWatch
    BY <1>2, <1>4, <2>1
       DEF VideoWatch, PlayerLoop, PlayerSeek, PlayerSize, PlayerEmpty, PlayerFilled,
           SetLoad, Sleep
  <2>2. CASE VideoGet \/ VideoGetExit \/ Compare \/ Raise \/ Show
                    \/ ShowWithoutAudio
    BY <1>1, <1>2, <1>4, <2>2 DEF VideoGet, VideoGetExit, Compare, Raise, Show, ShowWithoutAudio
  <2> QED BY <1>7, <2>1, <2>2 DEF VideoStep, Video
<1>8. CASE UserStep
  <2>1. CASE UserCalls
    BY <1>2, <1>4, <2>1 DEF UserCalls, Pause, Resume, SeekBegin, Release
  <2>2. CASE SeekFlag \/ SeekFile \/ SeekUnlock \/ SeekEnd \/ SeekClocks
    BY <1>2, <1>4, <2>2 DEF SeekFlag, SeekFile, SeekUnlock, SeekEnd, SeekClocks
  <2>3. CASE SeekClear("audio", "clearVideo")
    BY <1>1, <1>3, <2>3 DEF SeekClear
  <2>4. CASE SeekClear("video", "clocks")
    BY <1>1, <1>2, <1>4, <2>4 DEF SeekClear
  <2> QED BY <1>8, <2>1, <2>2, <2>3, <2>4 DEF UserStep, CallStep, SeekStep, UserSeeks
<1>9. CASE SpuriousWake
  <2>1. ~Wake("audio")
    BY <1>2 DEF Wake
  <2> QED BY <1>2, <1>4, <1>9, <2>1 DEF SpuriousWake, AudioWoken, VideoWoken, AudioWake, VideoWake, Wake
<1>10. CASE UNCHANGED vars
  BY <1>2, <1>10 DEF vars
<1> QED BY <1>5, <1>6, <1>7, <1>8, <1>9, <1>10 DEF Next

\* Once the audio thread has ended over its first frame and its queue has filled, the
\* demuxer reads nothing more: only a seek or a release ends the stall.
THEOREM StallPermanent == Spec => StallIsPermanent
<1>1. PlayerInv /\ StaleInv /\ [Next]_vars
         => [Stalled => Stalled' \/ exit' \/ queue'["audio"] = <<>>]_vars
  BY StallStays
<1> QED BY <1>1, Playing, Staleness, PTL DEF Spec, StallIsPermanent
=============================================================================
