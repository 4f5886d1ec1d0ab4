------------------------- MODULE CCLPrepare_proofs -------------------------
(***************************************************************************)
(* Proofs about decodeFFmpeg: PrepareInv is inductive, whatever the number *)
(* of streams, their frame rates and the division by zero of the machine.  *)
(* With it NoticeInv, about what the user has been told at each label, and *)
(* ObjectsInv, which counts the players that are made, are inductive too.  *)
(***************************************************************************)
EXTENDS CCLPrepare, TLAPS

USE PrepareAssumption

\* The numbers of the streams the deques are filled from are indices of input.
LEMMA StreamNumbers ==
    ASSUME TypeOK
    PROVE  AudioStreams \in SUBSET Nat /\ VideoStreams \in SUBSET Nat
BY DEF AudioStreams, VideoStreams, TypeOK

\* The stream that is classified next becomes the last of its kind, and no
\* other kind notices.
LEMMA ClassifyKeepsFront ==
    ASSUME NEW deque \in Seq(Nat), NEW S \in SUBSET Nat, NEW n \in Nat, n > 0,
           LET before == {k \in S : k <= n - 1}
           IN  IF before = {} THEN deque = <<>>
               ELSE deque # <<>> /\ IsLast(Head(deque), before)
    PROVE  LET seen == {k \in S : k <= n}
               deque2 == IF n \in S THEN <<n>> \o deque ELSE deque
           IN  IF seen = {} THEN deque2 = <<>>
               ELSE deque2 # <<>> /\ IsLast(Head(deque2), seen)
<1> DEFINE before == {k \in S : k <= n - 1}
           seen == {k \in S : k <= n}
           deque2 == IF n \in S THEN <<n>> \o deque ELSE deque
<1>1. CASE n \in S
  <2>1. deque2 # <<>> /\ Head(deque2) = n
    BY <1>1
  <2>2. n \in seen /\ \A m \in seen : m <= n
    BY <1>1
  <2> QED BY <2>1, <2>2 DEF IsLast
<1>2. CASE n \notin S
  <2>1. \A k \in S : k <= n <=> k <= n - 1
    BY <1>2
  <2>2. seen = before
    BY <2>1
  <2> QED BY <1>2, <2>2
<1> QED BY <1>1, <1>2

\* Nothing has been built before the loop, and everything has its type.
LEMMA InitEstablishes == Init => PrepareInv
<1> SUFFICES ASSUME Init PROVE PrepareInv
  OBVIOUS
<1>1. PICK n \in 0..MaxStreams : streams \in [1..n -> Stream]
  BY DEF Init
<1>2. streams \in Seq(Stream)
  BY <1>1
<1>3. cclAudio \in [object : Nat, streamIndex : Nat, codec : Codec, isVideo : BOOLEAN]
  BY DEF Init, NullAudio, Codec
<1>4. cclVideo \in [object : Nat, streamIndex : Nat, codec : Codec, rate : Nat,
                    frameratebig : BOOLEAN, cclAudio : Nat]
  BY DEF Init, NullVideo, Codec
<1>5. /\ audiochannels \in Seq(Nat) /\ videochannels \in Seq(Nat)
      /\ notices \in Seq({"onError", "onInitMediacodec", "onParpared"} \X Nat)
  BY DEF Init
<1>6. mimeType \in BOOLEAN /\ exit \in BOOLEAN /\ init_mutex \in BOOLEAN
  BY DEF Init
<1>7. /\ isOnlyMusic \in BOOLEAN /\ isOnlySoft \in BOOLEAN
      /\ pc = "lock" /\ i \in Nat /\ ret \in {-1, 0, 1}
  BY DEF Init
<1>8. TypeOK
  BY <1>2, <1>3, <1>4, <1>5, <1>6, <1>7 DEF TypeOK
<1> QED BY <1>8 DEF Init, PrepareInv, InLoop, PlaysLastStreams, PlayersLinked, Successful

-----------------------------------------------------------------------------
\* One lemma for each action, one step for each part it can disturb.

LEMMA LockKeeps == PrepareInv /\ Lock => PrepareInv'
<1> SUFFICES ASSUME PrepareInv, Lock PROVE PrepareInv'
  OBVIOUS
<1>1. TypeOK'
  BY DEF PrepareInv, TypeOK, Lock, input, players
<1> QED BY <1>1 DEF PrepareInv, Lock, input, players, InLoop, PlaysLastStreams,
                    PlayersLinked, Successful

\* What is said to the user keeps the type of notices.
LEMMA NotifyKeepsType ==
    ASSUME notices \in Seq({"onError", "onInitMediacodec", "onParpared"} \X Nat),
           NEW kind \in {"onError", "onInitMediacodec", "onParpared"}, NEW n \in Nat,
           Notify(<<kind, n>>)
    PROVE  notices' \in Seq({"onError", "onInitMediacodec", "onParpared"} \X Nat)
BY DEF Notify

LEMMA OpenKeeps == PrepareInv /\ OpenInput => PrepareInv'
<1> SUFFICES ASSUME PrepareInv, OpenInput PROVE PrepareInv'
  OBVIOUS
<1>1. notices' \in Seq({"onError", "onInitMediacodec", "onParpared"} \X Nat)
  BY NotifyKeepsType DEF PrepareInv, TypeOK, OpenInput
<1>2. TypeOK'
  BY <1>1 DEF PrepareInv, TypeOK, OpenInput, input, players, Goto, Return
<1> QED BY <1>2 DEF PrepareInv, OpenInput, input, players, Goto, Return, InLoop,
                    PlaysLastStreams, PlayersLinked, Successful

LEMMA FindKeeps == PrepareInv /\ FindStreamInfo => PrepareInv'
<1> SUFFICES ASSUME PrepareInv, FindStreamInfo PROVE PrepareInv'
  OBVIOUS
<1>1. notices' \in Seq({"onError", "onInitMediacodec", "onParpared"} \X Nat)
  BY NotifyKeepsType DEF PrepareInv, TypeOK, FindStreamInfo
<1>2. TypeOK'
  <2>1. UNCHANGED <<input, players>>
    BY DEF FindStreamInfo
  <2>2. CASE Goto("loop") /\ i' = 1
    BY <1>1, <2>1, <2>2 DEF PrepareInv, TypeOK, input, players, Goto
  <2>3. CASE Return(-1) /\ UNCHANGED i
    BY <1>1, <2>1, <2>3 DEF PrepareInv, TypeOK, input, players, Return
  <2> QED BY <2>2, <2>3 DEF FindStreamInfo
<1>3. CASE pc' = "returned"
  BY <1>2, <1>3 DEF PrepareInv, FindStreamInfo, input, players, Goto, Return, InLoop,
                    PlaysLastStreams, PlayersLinked, Successful
<1>4. CASE pc' = "loop" /\ i' = 1
  <2>1. UNCHANGED <<streams, isOnlyMusic, players>>
    BY DEF FindStreamInfo, input
  <2>2. audiochannels' = <<>> /\ videochannels' = <<>>
    BY <2>1 DEF PrepareInv, FindStreamInfo, players
  <2>3. cclAudio' = NullAudio /\ cclVideo' = NullVideo
    BY <2>1 DEF PrepareInv, FindStreamInfo, players
  <2>4. Classified' = 0
    BY <1>4 DEF Classified
  <2>5. \A k \in AudioStreams' \union VideoStreams' : ~(k <= Classified')
    BY <2>4, <1>2 DEF AudioStreams, VideoStreams, TypeOK
  <2>6. FrontIsLast(audiochannels, AudioStreams)'
    BY <2>2, <2>5 DEF FrontIsLast
  <2>7. FrontIsLast(videochannels, VideoStreams)'
    BY <2>2, <2>5 DEF FrontIsLast
  <2>8. Len(streams') \in Nat
    BY <1>2 DEF TypeOK
  <2> QED BY <1>2, <1>4, <2>2, <2>3, <2>4, <2>6, <2>7, <2>8
          DEF PrepareInv, PlaysFront, PlaysLastStreams, PlayersLinked, Successful
<1> QED BY <1>3, <1>4 DEF FindStreamInfo, Goto, Return

LEMMA ClassifyKeeps == PrepareInv /\ Classify => PrepareInv'
<1> SUFFICES ASSUME PrepareInv, Classify PROVE PrepareInv'
  OBVIOUS
<1>1. UNCHANGED <<streams, isOnlyMusic, isOnlySoft, i, cclAudio, cclVideo, mimeType,
                  exit, init_mutex, notices, ret>>
  BY DEF Classify, input, Goto
<1>2. pc = "loop" /\ pc' = "audio" /\ i > 0 /\ i <= Len(streams) /\ i \in Nat
  BY DEF Classify, Goto, PrepareInv, InLoop, TypeOK
<1>3. AudioStreams' = AudioStreams /\ VideoStreams' = VideoStreams
  BY <1>1 DEF AudioStreams, VideoStreams, Playable
<1>4. Classified = i - 1 /\ Classified' = i
  BY <1>1, <1>2 DEF Classified
<1>5. /\ i \in AudioStreams <=> streams[i].type = "audio"
      /\ i \in VideoStreams <=> /\ streams[i].type = "video" /\ ~isOnlyMusic
                               /\ streams[i].fps # NoRate
  BY <1>2 DEF AudioStreams, VideoStreams, Playable, PrepareInv, TypeOK
<1>6. TypeOK'
  BY <1>1, <1>2 DEF PrepareInv, TypeOK, Classify
<1>7. audiochannels \in Seq(Nat) /\ videochannels \in Seq(Nat)
  BY DEF PrepareInv, TypeOK
<1>8. FrontIsLast(audiochannels, AudioStreams)'
  <2>1. audiochannels' = IF i \in AudioStreams THEN <<i>> \o audiochannels ELSE audiochannels
    BY <1>5 DEF Classify
  <2>2. LET before == {k \in AudioStreams : k <= i - 1}
        IN  IF before = {} THEN audiochannels = <<>>
            ELSE audiochannels # <<>> /\ IsLast(Head(audiochannels), before)
    BY <1>2, <1>4 DEF PrepareInv, InLoop, FrontIsLast
  <2>3. AudioStreams \in SUBSET Nat
    BY StreamNumbers DEF PrepareInv
  <2>4. LET seen == {k \in AudioStreams : k <= i}
        IN  IF seen = {} THEN audiochannels' = <<>>
            ELSE audiochannels' # <<>> /\ IsLast(Head(audiochannels'), seen)
    BY <1>2, <1>7, <2>1, <2>2, <2>3, ClassifyKeepsFront
  <2> QED BY <1>3, <1>4, <2>4 DEF FrontIsLast, IsLast
<1>9. FrontIsLast(videochannels, VideoStreams)'
  <2>1. videochannels' = IF i \in VideoStreams THEN <<i>> \o videochannels ELSE videochannels
    BY <1>5 DEF Classify
  <2>2. LET before == {k \in VideoStreams : k <= i - 1}
        IN  IF before = {} THEN videochannels = <<>>
            ELSE videochannels # <<>> /\ IsLast(Head(videochannels), before)
    BY <1>2, <1>4 DEF PrepareInv, InLoop, FrontIsLast
  <2>3. VideoStreams \in SUBSET Nat
    BY StreamNumbers DEF PrepareInv
  <2>4. LET seen == {k \in VideoStreams : k <= i}
        IN  IF seen = {} THEN videochannels' = <<>>
            ELSE videochannels' # <<>> /\ IsLast(Head(videochannels'), seen)
    BY <1>2, <1>7, <2>1, <2>2, <2>3, ClassifyKeepsFront
  <2> QED BY <1>3, <1>4, <2>4 DEF FrontIsLast, IsLast
<1>10. /\ audiochannels' = <<>> => cclAudio' = NullAudio
       /\ videochannels' = <<>> => cclVideo' = NullVideo
  <2>1. /\ audiochannels' = <<>> => audiochannels = <<>>
        /\ videochannels' = <<>> => videochannels = <<>>
    BY <1>2, <1>7 DEF Classify
  <2> QED BY <1>1, <1>2, <2>1 DEF PrepareInv, PlaysFront
<1> QED BY <1>1, <1>2, <1>4, <1>6, <1>8, <1>9, <1>10
        DEF PrepareInv, PlaysLastStreams, PlayersLinked, Successful

\* A report either goes on, or ends the preparation with the code 1.
LEMMA ReportOutcome ==
    ASSUME PrepareInv, NEW error \in {0, 3, 4, 6}, NEW next, Report(error, next)
    PROVE  /\ notices' \in Seq({"onError", "onInitMediacodec", "onParpared"} \X Nat)
           /\ \/ error = 0 /\ pc' = next /\ UNCHANGED <<ret, exit, init_mutex>>
              \/ pc' = "returned" /\ ret' = 1 /\ exit' = TRUE /\ init_mutex' = FALSE
BY NotifyKeepsType DEF PrepareInv, TypeOK, Report, Goto, Return

LEMMA AudioKeeps == PrepareInv /\ MakeAudio => PrepareInv'
<1> SUFFICES ASSUME PrepareInv, MakeAudio PROVE PrepareInv'
  OBVIOUS
<1>1. /\ UNCHANGED <<streams, isOnlyMusic, isOnlySoft, i, audiochannels, videochannels,
                     cclVideo, mimeType>>
      /\ pc = "audio"
  BY DEF MakeAudio, input
<1>2. UNCHANGED <<AudioStreams, VideoStreams>>
  BY <1>1 DEF AudioStreams, VideoStreams, Playable
<1>3. CASE audiochannels = <<>>
  <2>1. /\ pc' = "video"
        /\ UNCHANGED <<cclAudio, notices, ret, exit, init_mutex>>
    BY <1>3 DEF MakeAudio, Goto
  <2>2. TypeOK'
    BY <1>1, <2>1 DEF PrepareInv, TypeOK
  <2>3. Classified' = Classified
    BY <1>1, <2>1 DEF Classified
  <2>4. FrontIsLast(audiochannels, AudioStreams)' /\ FrontIsLast(videochannels, VideoStreams)'
    BY <1>1, <1>2, <2>3 DEF FrontIsLast, IsLast, PrepareInv, InLoop
  <2>5. cclAudio' = NullAudio
    BY <1>1, <1>3, <2>1 DEF PrepareInv, InLoop
  <2>6. PlaysFront(cclAudio, NullAudio, audiochannels)' /\ ~cclAudio'.isVideo
    BY <1>1, <1>3, <2>5 DEF PlaysFront, NullAudio
  <2>7. videochannels' = <<>> => cclVideo' = NullVideo
    BY <1>1 DEF PrepareInv, InLoop
  <2> QED BY <1>1, <2>1, <2>2, <2>3, <2>4, <2>5, <2>6, <2>7
          DEF PrepareInv, InLoop, PlaysFront, PlaysLastStreams, PlayersLinked, Successful
<1>4. CASE audiochannels # <<>>
  <2>1. PICK codec \in Codec, error \in {0, 3, 4, 6} :
           /\ OpenCodec(codec, error)
           /\ cclAudio' = [object |-> cclAudio.object + 1,
                           streamIndex |-> Head(audiochannels),
                           codec |-> codec, isVideo |-> FALSE]
           /\ Report(error, "video")
    BY <1>4 DEF MakeAudio
  <2>2. Head(audiochannels) \in Nat /\ cclAudio.object \in Nat
    BY <1>4 DEF PrepareInv, TypeOK
  <2>3. cclAudio' \in [object : Nat, streamIndex : Nat, codec : Codec, isVideo : BOOLEAN]
    BY <2>1, <2>2
  <2>4. /\ notices' \in Seq({"onError", "onInitMediacodec", "onParpared"} \X Nat)
        /\ \/ error = 0 /\ pc' = "video" /\ UNCHANGED <<ret, exit, init_mutex>>
           \/ pc' = "returned" /\ ret' = 1 /\ exit' = TRUE /\ init_mutex' = FALSE
    BY <2>1, ReportOutcome
  <2>5. TypeOK'
    BY <1>1, <2>3, <2>4 DEF PrepareInv, TypeOK
  <2>6. CASE pc' = "returned"
    BY <2>4, <2>5, <2>6 DEF PrepareInv, InLoop, PlaysLastStreams, PlayersLinked, Successful
  <2>7. CASE error = 0 /\ pc' = "video"
    <3>1. Classified' = Classified
      BY <1>1, <2>7 DEF Classified
    <3>2. FrontIsLast(audiochannels, AudioStreams)' /\ FrontIsLast(videochannels, VideoStreams)'
      BY <1>1, <1>2, <3>1 DEF FrontIsLast, IsLast, PrepareInv, InLoop
    <3>3. codec = "open"
      BY <2>1, <2>7 DEF OpenCodec
    <3>4. PlaysFront(cclAudio, NullAudio, audiochannels)' /\ ~cclAudio'.isVideo
      BY <1>1, <1>4, <2>1, <2>2, <3>3 DEF PlaysFront
    <3>5. /\ audiochannels' # <<>>
          /\ videochannels' = <<>> => cclVideo' = NullVideo
      BY <1>1, <1>4 DEF PrepareInv, InLoop
    <3> QED BY <1>1, <2>5, <2>7, <3>1, <3>2, <3>4, <3>5
            DEF PrepareInv, InLoop, PlaysLastStreams, PlayersLinked, Successful
  <2> QED BY <2>4, <2>6, <2>7
<1> QED BY <1>3, <1>4

\* A stream in the deque of the video has a rate that is a number.
LEMMA RatesAreNat ==
    ASSUME PrepareInv, pc = "video", videochannels # <<>>,
           NEW rate \in Rates(streams[Head(videochannels)].fps)
    PROVE  /\ Head(videochannels) \in Nat
           /\ rate \in Nat
           /\ streams[Head(videochannels)].fps \in Nat
<1> DEFINE s == Head(videochannels)
<1>1. s \in VideoStreams
  <2>1. FrontIsLast(videochannels, VideoStreams)
    BY DEF PrepareInv, InLoop
  <2> QED BY <2>1 DEF FrontIsLast, IsLast
<1>2. s \in 1..Len(streams) /\ streams[s].type = "video" /\ Playable(streams[s])
  BY <1>1 DEF VideoStreams
<1>3. streams[s] \in Stream
  BY <1>2 DEF PrepareInv, TypeOK
<1>4. streams[s].fps \in Nat
  BY <1>2, <1>3 DEF Playable, Stream
<1>5. rate \in Nat
  <2>1. CASE streams[s].fps > 0
    <3>1. 1000 \div streams[s].fps \in Nat
      BY <1>4, <2>1
    <3> QED BY <2>1, <3>1 DEF Rates
  <2>2. CASE ~(streams[s].fps > 0)
    BY <2>2 DEF Rates
  <2> QED BY <2>1, <2>2
<1> QED BY <1>2, <1>4, <1>5

LEMMA VideoKeeps == PrepareInv /\ MakeVideo => PrepareInv'
<1> SUFFICES ASSUME PrepareInv, MakeVideo PROVE PrepareInv'
  OBVIOUS
<1>1. /\ UNCHANGED <<streams, isOnlyMusic, isOnlySoft, i, audiochannels, videochannels,
                     cclAudio, mimeType>>
      /\ pc = "video"
  BY DEF MakeVideo, input
<1>2. UNCHANGED <<AudioStreams, VideoStreams>>
  BY <1>1 DEF AudioStreams, VideoStreams, Playable
<1>3. CASE videochannels = <<>>
  <2>1. /\ pc' = "check"
        /\ UNCHANGED <<cclVideo, notices, ret, exit, init_mutex>>
    BY <1>3 DEF MakeVideo, Goto
  <2>2. TypeOK'
    BY <1>1, <2>1 DEF PrepareInv, TypeOK
  <2>3. Classified' = Classified
    BY <1>1, <2>1 DEF Classified
  <2>4. FrontIsLast(audiochannels, AudioStreams)' /\ FrontIsLast(videochannels, VideoStreams)'
    BY <1>1, <1>2, <2>3 DEF FrontIsLast, IsLast, PrepareInv, InLoop
  <2>5. cclVideo = NullVideo
    BY <1>1, <1>3 DEF PrepareInv, InLoop
  <2> QED BY <1>1, <1>3, <2>1, <2>2, <2>3, <2>4, <2>5
          DEF PrepareInv, InLoop, PlaysFront, PlaysLastStreams, PlayersLinked, Successful
<1>4. CASE videochannels # <<>>
  <2> DEFINE s == Head(videochannels)
  <2>1. PICK codec \in Codec, error \in {0, 3, 4, 6}, rate \in Rates(streams[s].fps) :
           /\ OpenCodec(codec, error)
           /\ cclVideo' = [object |-> cclVideo.object + 1,
                           streamIndex |-> s, codec |-> codec,
                           rate |-> rate, frameratebig |-> streams[s].fps >= 60,
                           cclAudio |-> cclAudio.object]
           /\ Report(error, "check")
    BY <1>4 DEF MakeVideo
  <2>2. s \in Nat /\ rate \in Nat /\ streams[s].fps \in Nat
    BY <1>1, <1>4, <2>1, RatesAreNat
  <2>3. cclVideo.object \in Nat /\ cclAudio.object \in Nat
    BY DEF PrepareInv, TypeOK
  <2>4. (streams[s].fps >= 60) \in BOOLEAN
    OBVIOUS
  <2>5. cclVideo' \in [object : Nat, streamIndex : Nat, codec : Codec, rate : Nat,
                       frameratebig : BOOLEAN, cclAudio : Nat]
    BY <2>1, <2>2, <2>3, <2>4
  <2>6. /\ notices' \in Seq({"onError", "onInitMediacodec", "onParpared"} \X Nat)
        /\ \/ error = 0 /\ pc' = "check" /\ UNCHANGED <<ret, exit, init_mutex>>
           \/ pc' = "returned" /\ ret' = 1 /\ exit' = TRUE /\ init_mutex' = FALSE
    BY <2>1, ReportOutcome
  <2>7. TypeOK'
    BY <1>1, <2>5, <2>6 DEF PrepareInv, TypeOK
  <2>8. CASE pc' = "returned"
    BY <2>6, <2>7, <2>8 DEF PrepareInv, InLoop, PlaysLastStreams, PlayersLinked, Successful
  <2>9. CASE error = 0 /\ pc' = "check"
    <3>1. Classified' = Classified
      BY <1>1, <2>9 DEF Classified
    <3>2. FrontIsLast(audiochannels, AudioStreams)' /\ FrontIsLast(videochannels, VideoStreams)'
      BY <1>1, <1>2, <3>1 DEF FrontIsLast, IsLast, PrepareInv, InLoop
    <3>3. codec = "open"
      BY <2>1, <2>9 DEF OpenCodec
    <3>4. PlaysFront(cclVideo, NullVideo, videochannels)' /\ cclVideo'.cclAudio = cclAudio'.object
      BY <1>1, <1>4, <2>1, <2>2, <2>3, <3>3 DEF PlaysFront
    <3>5. PlaysFront(cclAudio, NullAudio, audiochannels)' /\ ~cclAudio'.isVideo
      BY <1>1 DEF PrepareInv, PlaysFront
    <3> QED BY <1>1, <1>4, <2>7, <2>9, <3>1, <3>2, <3>4, <3>5
            DEF PrepareInv, InLoop, PlaysLastStreams, PlayersLinked, Successful
  <2> QED BY <2>6, <2>8, <2>9
<1> QED BY <1>3, <1>4

LEMMA FaultKeeps == PrepareInv /\ DivideFault => PrepareInv'
<1> SUFFICES ASSUME PrepareInv, DivideFault PROVE PrepareInv'
  OBVIOUS
<1>1. TypeOK'
  BY DEF PrepareInv, TypeOK, DivideFault, input, players
<1> QED BY <1>1 DEF PrepareInv, DivideFault, InLoop, PlaysLastStreams,
                    PlayersLinked, Successful

LEMMA EndKeeps == PrepareInv /\ EndIteration => PrepareInv'
<1> SUFFICES ASSUME PrepareInv, EndIteration PROVE PrepareInv'
  OBVIOUS
<1>1. /\ UNCHANGED <<streams, isOnlyMusic, isOnlySoft, audiochannels, videochannels, cclVideo>>
      /\ pc = "check"
  BY DEF EndIteration, input
<1>2. UNCHANGED <<AudioStreams, VideoStreams>>
  BY <1>1 DEF AudioStreams, VideoStreams, Playable
<1>3. CASE cclAudio = NullAudio /\ cclVideo = NullVideo
  <2>1. TypeOK'
    BY <1>1, <1>3 DEF EndIteration, Return, PrepareInv, TypeOK
  <2> QED BY <1>1, <1>3, <2>1 DEF EndIteration, Return, PrepareInv, InLoop,
             PlaysLastStreams, PlayersLinked, Successful
<1>4. CASE ~(cclAudio = NullAudio /\ cclVideo = NullVideo)
  <2>1. /\ i' = i + 1 /\ pc' = "loop" /\ UNCHANGED <<ret, exit, init_mutex>>
        /\ cclAudio' = [cclAudio EXCEPT !.isVideo =
                           @ \/ (cclAudio # NullAudio /\ cclVideo # NullVideo)]
    BY <1>4 DEF EndIteration, Goto
  <2>2. /\ notices' \in Seq({"onError", "onInitMediacodec", "onParpared"} \X Nat)
        /\ mimeType' \in BOOLEAN
    BY <1>4, NotifyKeepsType DEF EndIteration, PrepareInv, TypeOK, AsBool
  <2>3. i \in Nat /\ i > 0 /\ i <= Len(streams)
    BY <1>1 DEF PrepareInv, TypeOK, InLoop, Classified
  <2>4. /\ cclAudio' \in [object : Nat, streamIndex : Nat, codec : Codec, isVideo : BOOLEAN]
        /\ cclAudio'.object = cclAudio.object
        /\ cclAudio'.codec = cclAudio.codec
        /\ cclAudio'.streamIndex = cclAudio.streamIndex
        /\ cclAudio'.isVideo = (cclAudio # NullAudio /\ cclVideo # NullVideo)
    BY <1>1, <2>1 DEF PrepareInv, TypeOK
  <2>5. TypeOK'
    <3>1. TypeOK
      BY DEF PrepareInv
    <3>2. i' \in Nat /\ pc' = "loop"
      BY <2>1, <2>3
    <3>3. /\ streams' \in Seq(Stream)
          /\ audiochannels' \in Seq(Nat) /\ videochannels' \in Seq(Nat)
          /\ isOnlyMusic' \in BOOLEAN /\ isOnlySoft' \in BOOLEAN
          /\ exit' \in BOOLEAN /\ init_mutex' \in BOOLEAN /\ ret' \in {-1, 0, 1}
      BY <1>1, <2>1, <3>1 DEF TypeOK
    <3>4. cclVideo' \in [object : Nat, streamIndex : Nat, codec : Codec, rate : Nat,
                         frameratebig : BOOLEAN, cclAudio : Nat]
      BY <1>1, <3>1 DEF TypeOK
    <3> QED
      BY <2>2, <2>4, <3>2, <3>3, <3>4 DEF TypeOK
  <2>6. Classified' = Classified /\ Classified' <= Len(streams') /\ i' > 0
    BY <1>1, <2>1, <2>3 DEF Classified
  <2>7. FrontIsLast(audiochannels, AudioStreams)' /\ FrontIsLast(videochannels, VideoStreams)'
    BY <1>1, <1>2, <2>6 DEF FrontIsLast, IsLast, PrepareInv, InLoop
  <2>8. /\ audiochannels = <<>> <=> cclAudio = NullAudio
        /\ audiochannels # <<>> => cclAudio.object > 0
    BY <1>1 DEF PrepareInv, PlaysFront, NullAudio
  <2>9. cclAudio = NullAudio => cclAudio' = NullAudio
    <3>1. ASSUME cclAudio = NullAudio PROVE cclAudio' = [NullAudio EXCEPT !.isVideo = FALSE]
      BY <2>1, <3>1 DEF NullAudio
    <3> QED BY <3>1 DEF NullAudio
  <2>10. cclAudio # NullAudio => cclAudio' # NullAudio
    BY <2>4, <2>8 DEF NullAudio
  <2>11. PlaysFront(cclAudio, NullAudio, audiochannels)'
    BY <1>1, <2>4, <2>8, <2>9 DEF PrepareInv, PlaysFront, NullAudio
  <2>12. PlaysFront(cclVideo, NullVideo, videochannels)'
    BY <1>1 DEF PrepareInv, PlaysFront, NullVideo
  <2>13. cclVideo' # NullVideo => cclVideo'.cclAudio = cclAudio'.object
    BY <1>1, <2>4 DEF PrepareInv
  <2>14. cclAudio' # NullAudio => cclAudio'.isVideo = (cclVideo' # NullVideo)
    BY <1>1, <2>4, <2>9
  <2>15. /\ audiochannels' = <<>> => cclAudio' = NullAudio
         /\ videochannels' = <<>> => cclVideo' = NullVideo
    BY <2>11, <2>12 DEF PlaysFront
  <2> QED BY <2>1, <2>5, <2>6, <2>7, <2>11, <2>12, <2>13, <2>14, <2>15
          DEF PrepareInv, PlaysLastStreams, PlayersLinked, Successful
<1> QED BY <1>3, <1>4

LEMMA PreparedKeeps == PrepareInv /\ Prepared => PrepareInv'
<1> SUFFICES ASSUME PrepareInv, Prepared PROVE PrepareInv'
  OBVIOUS
<1>1. /\ UNCHANGED <<streams, isOnlyMusic, isOnlySoft, i, audiochannels, videochannels,
                     cclAudio, cclVideo, mimeType>>
      /\ pc = "loop" /\ i > Len(streams)
      /\ pc' = "returned" /\ ret' = 0 /\ exit' = TRUE /\ init_mutex' = FALSE
  BY DEF Prepared, input, players, Return
<1>2. UNCHANGED <<AudioStreams, VideoStreams>>
  BY <1>1 DEF AudioStreams, VideoStreams, Playable
<1>3. notices' \in Seq({"onError", "onInitMediacodec", "onParpared"} \X Nat)
  BY NotifyKeepsType DEF PrepareInv, TypeOK, Prepared
<1>4. TypeOK'
  BY <1>1, <1>3 DEF PrepareInv, TypeOK
<1>5. i \in Nat /\ Len(streams) \in Nat /\ Classified = Len(streams)
  <2>1. i \in Nat /\ Len(streams) \in Nat
    BY DEF PrepareInv, TypeOK
  <2>2. Classified = i - 1 /\ Classified <= Len(streams)
    BY <1>1 DEF PrepareInv, InLoop, Classified
  <2> QED BY <1>1, <2>1, <2>2
<1>6. /\ {k \in AudioStreams : k <= Classified} = AudioStreams
      /\ {k \in VideoStreams : k <= Classified} = VideoStreams
  BY <1>5 DEF AudioStreams, VideoStreams
<1>7. PlaysLastStreams'
  <2>1. IF AudioStreams = {} THEN audiochannels = <<>>
        ELSE audiochannels # <<>> /\ IsLast(Head(audiochannels), AudioStreams)
    BY <1>1, <1>6 DEF PrepareInv, InLoop, FrontIsLast
  <2>2. IF VideoStreams = {} THEN videochannels = <<>>
        ELSE videochannels # <<>> /\ IsLast(Head(videochannels), VideoStreams)
    BY <1>1, <1>6 DEF PrepareInv, InLoop, FrontIsLast
  <2>3. /\ PlaysFront(cclAudio, NullAudio, audiochannels)
        /\ PlaysFront(cclVideo, NullVideo, videochannels)
    BY <1>1 DEF PrepareInv
  <2> QED BY <1>1, <1>2, <2>1, <2>2, <2>3 DEF PlaysFront, PlaysLastStreams, IsLast
<1>8. PlayersLinked'
  BY <1>1 DEF PrepareInv, PlayersLinked
<1> QED BY <1>1, <1>4, <1>7, <1>8 DEF PrepareInv, InLoop

LEMMA StutterKeeps == PrepareInv /\ UNCHANGED vars => PrepareInv'
<1> SUFFICES ASSUME PrepareInv, UNCHANGED vars PROVE PrepareInv'
  OBVIOUS
<1>1. UNCHANGED <<AudioStreams, VideoStreams, InLoop, Classified, Successful>>
  BY DEF vars, AudioStreams, VideoStreams, Playable, InLoop, Classified, Successful
<1>2. TypeOK'
  BY DEF PrepareInv, TypeOK, vars
<1>3. PlaysLastStreams' /\ PlayersLinked'
  BY <1>1 DEF PrepareInv, PlaysLastStreams, PlayersLinked, IsLast, vars
<1>4. InLoop' => /\ FrontIsLast(audiochannels, AudioStreams)'
                 /\ FrontIsLast(videochannels, VideoStreams)'
  BY <1>1 DEF PrepareInv, FrontIsLast, IsLast, vars
<1> QED BY <1>1, <1>2, <1>3, <1>4 DEF PrepareInv, PlaysFront, vars

-----------------------------------------------------------------------------
\* PrepareInv holds in every state: decodeFFmpeg at each of its labels.
THEOREM Preparing == Spec => []PrepareInv
<1>1. PrepareInv /\ [Next]_vars => PrepareInv'
  BY LockKeeps, OpenKeeps, FindKeeps, ClassifyKeeps, AudioKeeps, VideoKeeps,
     FaultKeeps, EndKeeps, PreparedKeeps, StutterKeeps DEF Next
<1> QED BY InitEstablishes, <1>1, PTL DEF Spec

\* decodeFFmpeg leaves players of the last usable streams, whatever it created
\* and replaced on the way.
THEOREM LastStreamsPlay == Spec => []PlaysLastStreams
<1>1. PrepareInv => PlaysLastStreams
  BY DEF PrepareInv
<1> QED BY Preparing, <1>1, PTL

\* The CCLVideo it leaves follows the clock of the CCLAudio it leaves, and that
\* one knows whether there is a video.
THEOREM PlayersKnowEachOther == Spec => []PlayersLinked
<1>1. PrepareInv => PlayersLinked
  BY DEF PrepareInv
<1> QED BY Preparing, <1>1, PTL

-----------------------------------------------------------------------------
\* Every return sets exit and gives init_mutex up: whoever waits is let in.
THEOREM ReturnedClean == Spec => []ReturnsClean
<1>1. Init => ReturnsClean
  BY DEF Init, ReturnsClean
<1>2. ReturnsClean /\ [Next]_vars => ReturnsClean'
  <2> SUFFICES ASSUME ReturnsClean, [Next]_vars PROVE ReturnsClean'
    OBVIOUS
  <2>1. CASE Lock
    BY <2>1 DEF Lock, ReturnsClean
  <2>2. CASE OpenInput
    BY <2>2 DEF OpenInput, Goto, Return, ReturnsClean
  <2>3. CASE FindStreamInfo
    BY <2>3 DEF FindStreamInfo, Goto, Return, ReturnsClean
  <2>4. CASE Classify
    BY <2>4 DEF Classify, Goto, ReturnsClean
  <2>5. CASE MakeAudio
    BY <2>5 DEF MakeAudio, Report, Goto, Return, ReturnsClean
  <2>6. CASE MakeVideo
    BY <2>6 DEF MakeVideo, Report, Goto, Return, ReturnsClean
  <2>7. CASE DivideFault
    BY <2>7 DEF DivideFault, ReturnsClean
  <2>8. CASE EndIteration
    BY <2>8 DEF EndIteration, Goto, Return, ReturnsClean
  <2>9. CASE Prepared
    BY <2>9 DEF Prepared, Return, ReturnsClean
  <2>10. CASE UNCHANGED vars
    BY <2>10 DEF vars, ReturnsClean
  <2> QED BY <2>1, <2>2, <2>3, <2>4, <2>5, <2>6, <2>7, <2>8, <2>9, <2>10 DEF Next
<1> QED BY <1>1, <1>2, PTL DEF Spec

-----------------------------------------------------------------------------
\* What has been said at each label: until the end only that a codec is to be
\* made, and nothing in the first iteration, which only a playable stream passes.
OnlyInits == \A k \in 1..Len(notices) : notices[k][1] = "onInitMediacodec"

HeadPlayable == streams # <<>> /\ Playable(streams[1])

NoticeInv ==
    /\ pc # "returned" => OnlyInits
    /\ pc \in {"lock", "open", "find"} => i = 0 /\ notices = <<>>
    /\ InLoop /\ i = 1 => notices = <<>>
    /\ InLoop /\ i > 1 => HeadPlayable
    /\ NoticesTellOutcome

\* The end of a preparation that says something.
LEMMA EndTells ==
    ASSUME PrepareInv, OnlyInits, UNCHANGED input,
           NEW kind \in {"onError", "onParpared"}, NEW n \in Nat, NEW value \in Int,
           Notify(<<kind, n>>), Return(value), value = 0 <=> kind = "onParpared",
           i' > 0 => streams = <<>> \/ HeadPlayable
    PROVE  NoticeInv'
<1>1. notices \in Seq({"onError", "onInitMediacodec", "onParpared"} \X Nat)
  BY DEF PrepareInv, TypeOK
<1>2. /\ Len(notices') = Len(notices) + 1 /\ notices' # <<>>
      /\ notices'[Len(notices')] = <<kind, n>>
      /\ \A k \in 1..Len(notices) : notices'[k] = notices[k]
  BY <1>1 DEF Notify
<1>3. pc' = "returned" /\ ret' = value
  BY DEF Return
<1>4. \A k \in 1..Len(notices') : notices'[k][1] # "onInitMediacodec" => k = Len(notices')
  BY <1>1, <1>2 DEF OnlyInits
<1>5. Successful' <=> notices' # <<>> /\ notices'[Len(notices')][1] = "onParpared"
  BY <1>2, <1>3 DEF Successful
<1>6. ~(notices' = <<>>)
  BY <1>2
<1>7. ~(i' > 0 /\ streams' # <<>> /\ ~Playable(streams[1])')
  BY DEF HeadPlayable, Playable, input
<1>8. NoticesTellOutcome'
  BY <1>3, <1>4, <1>5, <1>6, <1>7 DEF NoticesTellOutcome
<1> QED BY <1>3, <1>8 DEF NoticeInv, InLoop

\* A step that says nothing, changes no stream and stays in the preparation.
LEMMA SilentTells ==
    ASSUME NoticeInv, pc # "returned", pc' # "returned", UNCHANGED <<input, notices>>,
           pc' \in {"lock", "open", "find"} => i' = 0 /\ notices = <<>>,
           InLoop' /\ i' = 1 => notices = <<>>,
           InLoop' /\ i' > 1 => HeadPlayable
    PROVE  NoticeInv'
<1>1. OnlyInits' /\ OnlyInits
  BY DEF NoticeInv, OnlyInits
<1>2. ~Successful /\ ~Successful'
  BY DEF Successful
<1>3. NoticesTellOutcome'
  BY <1>1, <1>2 DEF NoticeInv, NoticesTellOutcome, OnlyInits
<1>4. HeadPlayable' <=> HeadPlayable
  BY DEF HeadPlayable, Playable, input
<1> QED BY <1>1, <1>3, <1>4 DEF NoticeInv

\* A deque that holds something tells that the first stream is playable.
LEMMA DequeTells ==
    ASSUME PrepareInv, NoticeInv, InLoop, audiochannels # <<>> \/ videochannels # <<>>
    PROVE  HeadPlayable
<1>1. i \in Nat /\ i > 0 /\ Len(streams) \in Nat
  BY DEF PrepareInv, TypeOK
<1>2. CASE i > 1
  BY <1>2 DEF NoticeInv
<1>3. CASE i = 1
  <2>1. PICK k \in AudioStreams \union VideoStreams : k <= Classified
    BY DEF PrepareInv, FrontIsLast
  <2>2. k = 1 /\ 1 <= Len(streams)
    BY <1>1, <1>3, <2>1 DEF AudioStreams, VideoStreams, Classified
  <2> QED BY <2>1, <2>2 DEF AudioStreams, VideoStreams, Playable, HeadPlayable
<1> QED BY <1>1, <1>2, <1>3

LEMMA NoticesKeep == PrepareInv /\ NoticeInv /\ [Next]_vars => NoticeInv'
<1> SUFFICES ASSUME PrepareInv, NoticeInv, [Next]_vars PROVE NoticeInv'
  OBVIOUS
<1>1. CASE Lock
  BY <1>1, SilentTells DEF Lock, NoticeInv, InLoop
<1>2. CASE OpenInput
  <2>1. CASE Goto("find") /\ UNCHANGED notices
    BY <1>2, <2>1, SilentTells DEF OpenInput, Goto, NoticeInv, InLoop
  <2>2. CASE Notify(<<"onError", 5>>) /\ Return(-1)
    BY <1>2, <2>2, EndTells DEF OpenInput, NoticeInv
  <2> QED BY <1>2, <2>1, <2>2 DEF OpenInput
<1>3. CASE FindStreamInfo
  <2>1. CASE Goto("loop") /\ i' = 1 /\ UNCHANGED notices
    BY <1>3, <2>1, SilentTells DEF FindStreamInfo, Goto, NoticeInv, InLoop
  <2>2. CASE Notify(<<"onError", 4>>) /\ Return(-1) /\ UNCHANGED i
    BY <1>3, <2>2, EndTells DEF FindStreamInfo, NoticeInv
  <2> QED BY <1>3, <2>1, <2>2 DEF FindStreamInfo
<1>4. CASE Classify
  BY <1>4, SilentTells DEF Classify, Goto, NoticeInv, InLoop
<1>5. CASE MakeAudio
  <2>1. CASE pc' = "video" /\ UNCHANGED notices
    BY <1>5, <2>1, SilentTells DEF MakeAudio, NoticeInv, InLoop
  <2>2. ASSUME NEW error \in {3, 4, 6}, audiochannels # <<>>,
               Notify(<<"onError", error>>), Return(1)
        PROVE  NoticeInv'
    <3>1. HeadPlayable
      BY <1>5, <2>2, DequeTells DEF MakeAudio, InLoop
    <3> QED BY <1>5, <2>2, <3>1, EndTells DEF MakeAudio, NoticeInv
  <2> QED BY <1>5, <2>1, <2>2 DEF MakeAudio, Report, Goto
<1>6. CASE MakeVideo
  <2>1. CASE pc' = "check" /\ UNCHANGED notices
    BY <1>6, <2>1, SilentTells DEF MakeVideo, NoticeInv, InLoop
  <2>2. ASSUME NEW error \in {3, 4, 6}, videochannels # <<>>,
               Notify(<<"onError", error>>), Return(1)
        PROVE  NoticeInv'
    <3>1. HeadPlayable
      BY <1>6, <2>2, DequeTells DEF MakeVideo, InLoop
    <3> QED BY <1>6, <2>2, <3>1, EndTells DEF MakeVideo, NoticeInv
  <2> QED BY <1>6, <2>1, <2>2 DEF MakeVideo, Report, Goto
<1>7. CASE DivideFault
  BY <1>7, SilentTells DEF DivideFault, InLoop
<1>8. CASE EndIteration
  <2>1. CASE cclAudio = NullAudio /\ cclVideo = NullVideo
    <3>1. /\ pc = "check" /\ pc' = "returned" /\ ret' = 1
          /\ UNCHANGED <<input, i, notices>>
      BY <1>8, <2>1 DEF EndIteration, Return
    <3>2. audiochannels = <<>> /\ videochannels = <<>>
      BY <2>1, <3>1 DEF PrepareInv, PlaysFront, NullAudio, NullVideo
    <3>3. 1 \in 1..Len(streams) /\ i \in Nat /\ i > 0 /\ Classified = i /\ streams # <<>>
      BY <3>1 DEF PrepareInv, TypeOK, InLoop, Classified
    <3>4. 1 \notin AudioStreams /\ 1 \notin VideoStreams
      BY <3>1, <3>2, <3>3 DEF PrepareInv, InLoop, FrontIsLast
    <3>5. ~Playable(streams[1])
      BY <3>3, <3>4 DEF AudioStreams, VideoStreams, Playable
    <3>6. i = 1 /\ notices = <<>>
      BY <3>1, <3>3, <3>5 DEF NoticeInv, InLoop, HeadPlayable
    <3>7. ~Successful' /\ UNCHANGED <<streams, isOnlyMusic>>
      BY <3>1 DEF Successful, input
    <3> QED BY <3>1, <3>3, <3>5, <3>6, <3>7
            DEF NoticeInv, NoticesTellOutcome, InLoop, Playable
  <2>2. CASE ~(cclAudio = NullAudio /\ cclVideo = NullVideo)
    <3>1. /\ pc = "check" /\ pc' = "loop" /\ i' = i + 1
          /\ UNCHANGED <<streams, isOnlyMusic, isOnlySoft>>
          /\ UNCHANGED notices \/ Notify(<<"onInitMediacodec", i>>)
      BY <1>8, <2>2 DEF EndIteration, Goto, input
    <3>2. HeadPlayable
      BY <2>2, <3>1, DequeTells DEF PrepareInv, PlaysFront, InLoop
    <3>3. i \in Nat /\ i > 0
      BY <3>1 DEF PrepareInv, TypeOK, InLoop
    <3>4. OnlyInits /\ notices \in Seq({"onError", "onInitMediacodec", "onParpared"} \X Nat)
      BY <3>1 DEF NoticeInv, PrepareInv, TypeOK
    <3>5. OnlyInits'
      <4>1. CASE UNCHANGED notices
        BY <3>4, <4>1 DEF OnlyInits
      <4>2. CASE Notify(<<"onInitMediacodec", i>>)
        <5>1. /\ Len(notices') = Len(notices) + 1
              /\ notices'[Len(notices) + 1] = <<"onInitMediacodec", i>>
              /\ \A k \in 1..Len(notices) : notices'[k] = notices[k]
          BY <3>3, <3>4, <4>2 DEF Notify
        <5>2. \A k \in 1..Len(notices') : k \in 1..Len(notices) \/ k = Len(notices) + 1
          BY <3>4, <5>1
        <5> QED BY <3>4, <5>1, <5>2 DEF OnlyInits
      <4> QED BY <3>1, <4>1, <4>2
    <3>6. ~Successful'
      BY <3>1 DEF Successful
    <3>7. HeadPlayable'
      BY <3>1, <3>2 DEF HeadPlayable, Playable
    <3>8. notices' \in Seq({"onError", "onInitMediacodec", "onParpared"} \X Nat)
      BY <3>1, <3>3, <3>4, NotifyKeepsType
    <3>9. notices' # <<>> => notices'[Len(notices')][1] = "onInitMediacodec"
      BY <3>5, <3>8 DEF OnlyInits
    <3>10. NoticesTellOutcome'
      BY <3>1, <3>5, <3>6, <3>9 DEF NoticesTellOutcome, OnlyInits
    <3> QED BY <3>1, <3>3, <3>5, <3>7, <3>10 DEF NoticeInv
  <2> QED BY <2>1, <2>2
<1>9. CASE Prepared
  <2>1. /\ pc = "loop" /\ i > Len(streams) /\ UNCHANGED <<input, i>>
        /\ Notify(<<"onParpared", 0>>) /\ Return(0)
    BY <1>9 DEF Prepared
  <2>2. i \in Nat /\ Len(streams) \in Nat /\ (streams = <<>> \/ Len(streams) > 0)
    BY DEF PrepareInv, TypeOK
  <2>3. streams = <<>> \/ HeadPlayable
    BY <2>1, <2>2 DEF NoticeInv, InLoop
  <2> QED BY <2>1, <2>3, EndTells DEF NoticeInv
<1>10. CASE UNCHANGED vars
  BY <1>10 DEF vars, NoticeInv, NoticesTellOutcome, OnlyInits, HeadPlayable, Playable, InLoop,
               Successful
<1> QED BY <1>1, <1>2, <1>3, <1>4, <1>5, <1>6, <1>7, <1>8, <1>9, <1>10 DEF Next

\* The last notice tells the outcome, and silence that the first stream is of no use.
THEOREM OutcomeTold == Spec => []NoticesTellOutcome
<1>1. Init => NoticeInv
  BY DEF Init, NoticeInv, NoticesTellOutcome, OnlyInits, InLoop, Successful
<1>2. NoticeInv => NoticesTellOutcome
  BY DEF NoticeInv
<1> QED BY <1>1, <1>2, NoticesKeep, Preparing, PTL DEF Spec

-----------------------------------------------------------------------------
\* The iterations in which a player was made, once its first stream was met.
MadeAudio == IF pc \in {"loop", "audio"} THEN i - 1 ELSE i
MadeVideo == IF pc = "check" THEN i ELSE i - 1

\* Each iteration since the first stream of a kind has made one object of that kind,
\* and each one with a video a notice, at its end.
Counts(S, object, made) ==
    \A k \in S : k <= Classified => object = made + 1 - k \/ \E m \in S : m < k

ObjectsInv ==
    /\ InLoop =>
          /\ Counts(AudioStreams, cclAudio.object, MadeAudio)
          /\ Counts(VideoStreams, cclVideo.object, MadeVideo)
          /\ Len(notices) = IF pc = "check" /\ videochannels # <<>>
                            THEN cclVideo.object - 1 ELSE cclVideo.object
    /\ OneObjectPerLaterStream

\* The stream classified next is the first of its kind, or none was made for it.
LEMMA CountsNext ==
    ASSUME NEW S \in SUBSET Nat, NEW n \in Nat, NEW object \in Nat,
           \A k \in S : k <= n - 1 => object = n - 1 + 1 - k \/ \E m \in S : m < k,
           (\A m \in S : ~(m <= n - 1)) => object = 0
    PROVE  \A k \in S : k <= n => object = n - 1 + 1 - k \/ \E m \in S : m < k
<1> SUFFICES ASSUME NEW k \in S, k <= n, ~\E m \in S : m < k
             PROVE  object = n - 1 + 1 - k
  OBVIOUS
<1>1. CASE k <= n - 1
  BY <1>1
<1>2. CASE k = n
  <2>1. \A m \in S : ~(m <= n - 1)
    BY <1>2
  <2> QED BY <1>2, <2>1
<1> QED BY <1>1, <1>2

\* One more object, if there is a stream for it.
LEMMA CountsMade ==
    ASSUME NEW S \in SUBSET Nat, NEW n \in Nat, NEW object \in Nat, NEW object2,
           \A k \in S : k <= n => object = n - 1 + 1 - k \/ \E m \in S : m < k,
           object2 = object + 1 \/ \A m \in S : ~(m <= n)
    PROVE  \A k \in S : k <= n => object2 = n + 1 - k \/ \E m \in S : m < k
OBVIOUS

LEMMA ObjectsKeep == PrepareInv /\ NoticeInv /\ ObjectsInv /\ [Next]_vars => ObjectsInv'
<1> SUFFICES ASSUME PrepareInv, NoticeInv, ObjectsInv, [Next]_vars PROVE ObjectsInv'
  OBVIOUS
<1>1. /\ i \in Nat /\ Len(streams) \in Nat
      /\ AudioStreams \in SUBSET Nat /\ VideoStreams \in SUBSET Nat
      /\ cclAudio.object \in Nat /\ cclVideo.object \in Nat
  BY StreamNumbers DEF PrepareInv, TypeOK
<1>2. UNCHANGED input => UNCHANGED <<AudioStreams, VideoStreams>>
  BY DEF input, AudioStreams, VideoStreams, Playable
<1>3. UNCHANGED input
  BY DEF Next, Lock, OpenInput, FindStreamInfo, Classify, MakeAudio, MakeVideo, DivideFault,
         EndIteration, Prepared, vars, input
<1>4. ~InLoop' /\ ~Successful' => ObjectsInv'
  BY DEF ObjectsInv, OneObjectPerLaterStream
<1>5. CASE Lock \/ OpenInput
  BY <1>4, <1>5 DEF Lock, OpenInput, Goto, Return, InLoop, Successful
<1>6. CASE FindStreamInfo
  <2>1. CASE pc' = "returned" /\ ret' = -1
    BY <1>4, <2>1 DEF InLoop, Successful
  <2>2. CASE pc' = "loop" /\ i' = 1 /\ UNCHANGED notices
    <3>1. Classified' = 0 /\ ~Successful'
      BY <2>2 DEF Classified, Successful
    <3>2. \A k \in AudioStreams \union VideoStreams : ~(k <= 0)
      BY <1>1 DEF AudioStreams, VideoStreams
    <3>3. Len(notices') = 0 /\ cclVideo'.object = 0
      BY <1>6, <2>2 DEF FindStreamInfo, NoticeInv, PrepareInv, players, NullVideo
    <3> QED BY <1>2, <1>3, <2>2, <3>1, <3>2, <3>3
            DEF ObjectsInv, Counts, OneObjectPerLaterStream
  <2> QED BY <1>6, <2>1, <2>2 DEF FindStreamInfo, Goto, Return
<1>7. CASE Classify
  <2>1. /\ pc = "loop" /\ pc' = "audio" /\ InLoop
        /\ UNCHANGED <<i, cclAudio, cclVideo, notices>>
        /\ Classified = i - 1 /\ Classified' = i
        /\ MadeAudio = i - 1 /\ MadeVideo = i - 1 /\ MadeAudio' = i - 1 /\ MadeVideo' = i - 1
    BY <1>7 DEF Classify, Goto, InLoop, Classified, MadeAudio, MadeVideo
  <2>2. /\ (\A m \in AudioStreams : ~(m <= i - 1)) => cclAudio.object = 0
        /\ (\A m \in VideoStreams : ~(m <= i - 1)) => cclVideo.object = 0
    BY <2>1 DEF PrepareInv, FrontIsLast, NullAudio, NullVideo
  <2>3. Counts(AudioStreams, cclAudio.object, MadeAudio)'
    <3>1. \A k \in AudioStreams : k <= i - 1 =>
             cclAudio.object = i - 1 + 1 - k \/ \E m \in AudioStreams : m < k
      BY <2>1 DEF ObjectsInv, Counts
    <3>2. \A k \in AudioStreams : k <= i =>
             cclAudio.object = i - 1 + 1 - k \/ \E m \in AudioStreams : m < k
      BY <1>1, <2>2, <3>1, CountsNext
    <3> QED BY <1>2, <1>3, <2>1, <3>2 DEF Counts
  <2>4. Counts(VideoStreams, cclVideo.object, MadeVideo)'
    <3>1. \A k \in VideoStreams : k <= i - 1 =>
             cclVideo.object = i - 1 + 1 - k \/ \E m \in VideoStreams : m < k
      BY <2>1 DEF ObjectsInv, Counts
    <3>2. \A k \in VideoStreams : k <= i =>
             cclVideo.object = i - 1 + 1 - k \/ \E m \in VideoStreams : m < k
      BY <1>1, <2>2, <3>1, CountsNext
    <3> QED BY <1>2, <1>3, <2>1, <3>2 DEF Counts
  <2> QED BY <2>1, <2>3, <2>4 DEF ObjectsInv, OneObjectPerLaterStream, Successful
<1>8. CASE MakeAudio
  <2>1. CASE pc' = "returned" /\ ret' = 1
    BY <1>4, <2>1 DEF InLoop, Successful
  <2>2. CASE pc' = "video" /\ UNCHANGED notices
    <3>1. /\ pc = "audio" /\ InLoop
          /\ UNCHANGED <<i, cclVideo, videochannels>>
          /\ Classified = i /\ Classified' = i
          /\ MadeAudio = i - 1 /\ MadeVideo = i - 1 /\ MadeAudio' = i /\ MadeVideo' = i - 1
      BY <1>8, <2>2 DEF MakeAudio, InLoop, Classified, MadeAudio, MadeVideo
    <3>2. \/ cclAudio'.object = cclAudio.object + 1
          \/ \A m \in AudioStreams : ~(m <= i)
      BY <1>8, <3>1 DEF MakeAudio, PrepareInv, FrontIsLast
    <3>3. Counts(AudioStreams, cclAudio.object, MadeAudio)'
      <4>1. \A k \in AudioStreams : k <= i =>
               cclAudio.object = i - 1 + 1 - k \/ \E m \in AudioStreams : m < k
        BY <3>1 DEF ObjectsInv, Counts
      <4>2. \A k \in AudioStreams : k <= i =>
               cclAudio'.object = i + 1 - k \/ \E m \in AudioStreams : m < k
        BY <1>1, <3>2, <4>1, CountsMade
      <4> QED BY <1>2, <1>3, <3>1, <4>2 DEF Counts
    <3>4. Counts(VideoStreams, cclVideo.object, MadeVideo)'
      BY <1>2, <1>3, <3>1 DEF ObjectsInv, Counts
    <3> QED BY <2>2, <3>1, <3>3, <3>4 DEF ObjectsInv, OneObjectPerLaterStream, Successful
  <2> QED BY <1>8, <2>1, <2>2 DEF MakeAudio, Report, Goto, Return
<1>9. CASE MakeVideo
  <2>1. CASE pc' = "returned" /\ ret' = 1
    BY <1>4, <2>1 DEF InLoop, Successful
  <2>2. CASE pc' = "check" /\ UNCHANGED notices
    <3>1. /\ pc = "video" /\ InLoop
          /\ UNCHANGED <<i, cclAudio, videochannels>>
          /\ Classified = i /\ Classified' = i
          /\ MadeAudio = i /\ MadeVideo = i - 1 /\ MadeAudio' = i /\ MadeVideo' = i
      BY <1>9, <2>2 DEF MakeVideo, InLoop, Classified, MadeAudio, MadeVideo
    <3>2. \/ videochannels # <<>> /\ cclVideo'.object = cclVideo.object + 1
          \/ /\ videochannels = <<>> /\ cclVideo' = cclVideo
             /\ \A m \in VideoStreams : ~(m <= i)
      BY <1>9, <3>1 DEF MakeVideo, PrepareInv, FrontIsLast
    <3>3. Counts(VideoStreams, cclVideo.object, MadeVideo)'
      <4>1. \A k \in VideoStreams : k <= i =>
               cclVideo.object = i - 1 + 1 - k \/ \E m \in VideoStreams : m < k
        BY <3>1 DEF ObjectsInv, Counts
      <4>2. \A k \in VideoStreams : k <= i =>
               cclVideo'.object = i + 1 - k \/ \E m \in VideoStreams : m < k
        BY <1>1, <3>2, <4>1, CountsMade
      <4> QED BY <1>2, <1>3, <3>1, <4>2 DEF Counts
    <3>4. Counts(AudioStreams, cclAudio.object, MadeAudio)'
      BY <1>2, <1>3, <3>1 DEF ObjectsInv, Counts
    <3>5. Len(notices) = cclVideo.object
      BY <3>1, <1>9 DEF ObjectsInv, MakeVideo
    <3> QED BY <1>1, <2>2, <3>1, <3>2, <3>3, <3>4, <3>5
            DEF ObjectsInv, OneObjectPerLaterStream, Successful
  <2> QED BY <1>9, <2>1, <2>2 DEF MakeVideo, Report, Goto, Return
<1>10. CASE DivideFault
  BY <1>4, <1>10 DEF DivideFault, InLoop, Successful
<1>11. CASE EndIteration
  <2>1. CASE pc' = "returned" /\ ret' = 1
    BY <1>4, <2>1 DEF InLoop, Successful
  <2>2. CASE pc' = "loop"
    <3>1. /\ pc = "check" /\ InLoop /\ i' = i + 1
          /\ UNCHANGED <<cclVideo, videochannels>> /\ cclAudio'.object = cclAudio.object
          /\ IF cclVideo # NullVideo THEN Notify(<<"onInitMediacodec", i>>)
             ELSE UNCHANGED notices
      BY <1>11, <2>2 DEF EndIteration, Return, InLoop, PrepareInv, TypeOK
    <3>2. /\ Classified = i /\ Classified' = i
          /\ MadeAudio = i /\ MadeVideo = i /\ MadeAudio' = i /\ MadeVideo' = i
      BY <1>1, <2>2, <3>1 DEF Classified, MadeAudio, MadeVideo
    <3>3. /\ Counts(VideoStreams, cclVideo.object, MadeVideo)'
          /\ Counts(AudioStreams, cclAudio.object, MadeAudio)'
      BY <1>2, <1>3, <3>1, <3>2 DEF ObjectsInv, Counts
    <3>4. videochannels = <<>> <=> cclVideo = NullVideo
      BY <3>1 DEF PrepareInv, PlaysFront, NullVideo
    <3>5. Len(notices') = IF videochannels = <<>> THEN Len(notices) ELSE Len(notices) + 1
      BY <3>1, <3>4 DEF Notify, PrepareInv, TypeOK
    <3>6. Len(notices') = cclVideo'.object
      BY <1>1, <3>1, <3>5 DEF ObjectsInv
    <3> QED BY <2>2, <3>3, <3>6 DEF ObjectsInv, OneObjectPerLaterStream, Successful
  <2> QED BY <1>11, <2>1, <2>2 DEF EndIteration, Goto, Return
<1>12. CASE Prepared
  <2>1. /\ pc = "loop" /\ InLoop /\ pc' = "returned" /\ i > Len(streams)
        /\ UNCHANGED <<streams, cclAudio, cclVideo>>
        /\ Len(notices') = Len(notices) + 1
    BY <1>12 DEF Prepared, Return, InLoop, input, players, Notify, PrepareInv, TypeOK
  <2>2. Classified = Len(streams) /\ MadeAudio = Len(streams) /\ MadeVideo = Len(streams)
    BY <1>1, <2>1 DEF PrepareInv, Classified, MadeAudio, MadeVideo
  <2>3. /\ \A k \in AudioStreams : k <= Len(streams)
        /\ \A k \in VideoStreams : k <= Len(streams)
    BY DEF AudioStreams, VideoStreams
  <2>4. Len(notices) = cclVideo.object /\ cclVideo.object = Len(notices') - 1
    BY <1>1, <2>1 DEF ObjectsInv
  <2>5. /\ Counts(AudioStreams, cclAudio.object, Len(streams))
        /\ Counts(VideoStreams, cclVideo.object, Len(streams))
    BY <2>1, <2>2 DEF ObjectsInv
  <2>6. \A k \in AudioStreams :
           k = Len(streams) + 1 - cclAudio.object \/ \E m \in AudioStreams : m < k
    BY <1>1, <2>2, <2>3, <2>5 DEF Counts
  <2>7. \A k \in VideoStreams :
           k = Len(streams) + 1 - cclVideo.object \/ \E m \in VideoStreams : m < k
    BY <1>1, <2>2, <2>3, <2>5 DEF Counts
  <2>8. OneObjectPerLaterStream'
    BY <1>2, <1>3, <2>1, <2>4, <2>6, <2>7 DEF OneObjectPerLaterStream
  <2> QED BY <2>1, <2>8 DEF ObjectsInv, InLoop
<1>13. CASE UNCHANGED vars
  BY <1>2, <1>3, <1>13
     DEF vars, ObjectsInv, Counts, OneObjectPerLaterStream, InLoop, Classified, MadeAudio,
         MadeVideo, Successful
<1> QED BY <1>5, <1>6, <1>7, <1>8, <1>9, <1>10, <1>11, <1>12, <1>13 DEF Next

\* From the first playable stream on, each stream costs one object and one notice.
THEOREM ObjectsCounted == Spec => []OneObjectPerLaterStream
<1>1. Init => NoticeInv /\ ObjectsInv
  BY DEF Init, NoticeInv, NoticesTellOutcome, OnlyInits, ObjectsInv, OneObjectPerLaterStream,
         InLoop, Successful
<1>2. ObjectsInv => OneObjectPerLaterStream
  BY DEF ObjectsInv
<1> QED BY <1>1, <1>2, NoticesKeep, ObjectsKeep, Preparing, PTL DEF Spec
=============================================================================
