------------------------ MODULE CCLLifecycle_proofs ------------------------
(***************************************************************************)
(* Proofs about the global objects, for any number of Java threads, calls  *)
(* and pairs of players.  Kept, MutexInv and ReadInv are inductive         *)
(* whatever is called when; Single is, until two calls of cclPrepared      *)
(* overlap; TakenInv is, until a release comes before the preparation it   *)
(* is to undo; Orderly is, until a call is misplaced.                      *)
(***************************************************************************)
EXTENDS CCLLifecycle, FiniteSetTheorems, TLAPS

USE LifecycleAssumption

\* The labels at which a caller works on an object.
Objected == StartLabel \union {"initMutex", "wait"}

\* The global object is one of those made, and so is the one each thread works on;
\* the decode thread of a caller exists only once the caller has made it.
Kept ==
    /\ TypeOK
    /\ \A c \in Callers : pc[c] \in CallerLabel
    /\ \A d \in Decoders : pc[d] \in DecoderLabel
    /\ made \in 0..Cardinality(Callers)
    /\ cclFFmpeg \in 0..made /\ (made > 0 => cclFFmpeg > 0)
    /\ \A c \in Callers :
          /\ pc[c] \in {"onLoad", "create"} => cclFFmpeg > 0
          /\ pc[c] \in Objected => job[c] \in 1..made
          /\ pc[c] \in {"newFFmpeg", "onLoad", "create"} => pc[Decoder(c)] = "none"
    /\ \A d \in Decoders :
          /\ pc[d] # "none" => job[d] \in 1..made
          /\ pc[d] \in StartLabel => plays[d] \in 1..made

\* Who holds init_mutex of an object: the decode thread, inside onParpared too, and a
\* release.
Holding == {"opening", "info", "streams", "onParpared", "exit"} \union StartLabel
MutexInv ==
    /\ \A d \in Decoders : pc[d] \in Holding => ffmpeg[job[d]].holds = {d}
    /\ \A c \in Callers : pc[c] = "wait" => ffmpeg[job[c]].holds = {c}

\* seek_mutex keeps starts on one object apart.
ReadInv == \A t, s \in Threads : At(t, "read") /\ At(s, "read") /\ Played(t) = Played(s) => t = s

\* While no two calls of cclPrepared have overlapped: one object, one decode thread,
\* and the JNIEnv of the thread that made the object.
Single ==
    /\ made <= 1 /\ ~foreignEnv
    /\ \A b, c \in Callers : pc[b] \in Preparing /\ pc[c] \in Preparing => b = c
    /\ \A c \in Callers :
          /\ pc[c] \in {"newJavaCall", "newFFmpeg"} => made = 0
          /\ pc[c] = "newJavaCall" => cclJavaCall = {}
          /\ pc[c] \in {"onLoad", "create"} => \A d \in Decoders : pc[d] = "none"
          /\ pc[c] \in {"newFFmpeg", "onLoad"} => cclJavaCall = {c}
          /\ pc[c] = "testFFmpeg" /\ made = 0 => cclJavaCall = {c}
          /\ pc[c] \in {"testFFmpeg", "newFFmpeg", "onLoad", "create"} => cclJavaCall # {}
    /\ cclJavaCall = {} => made = 0
    /\ cclJavaCall # {} /\ made = 0 => \E b \in Callers : pc[b] \in {"testFFmpeg", "newFFmpeg"}
    /\ \A d, e \in Decoders : pc[d] # "none" /\ pc[e] # "none" => d = e

\* Every preparation is over.
Settled ==
    /\ made > 0
    /\ \A c \in Callers : pc[c] \notin {"newFFmpeg", "onLoad", "create"}
    /\ \A d \in Decoders : pc[d] \notin {"lock", "opening", "info", "streams", "onParpared"}

\* While nothing was misused: playbacks and the taking of players come after the
\* preparation, so that what is played is open and its players stay the same.
Orderly ==
    /\ fault \notin {"nullCall", "noInput"} /\ ~misfed
    /\ \A o \in Objects :
          /\ o \in prepared => Settled /\ ffmpeg[o].format = "open"
          /\ ~ffmpeg[o].javaCall => Settled
    /\ \A c \in Callers : pc[c] = "wait" => Settled
    /\ \A d \in Decoders : pc[d] \in {"info", "streams", "onParpared"} => ffmpeg[job[d]].format = "open"
    /\ \A t \in Threads : pc[t] \in StartLabel \ {"enter"} =>
          /\ Played(t) \in prepared
          /\ ffmpeg[Played(t)].players \in {0, started[t]}

\* Behind TakenForGood: no decode thread is to make players for an object that a
\* release has locked or emptied.
Over(o) ==
    /\ o \in 1..made
    /\ cclFFmpeg = o => \A c \in Callers : pc[c] \notin {"onLoad", "create"}
    /\ \A d \in Decoders : job[d] = o => pc[d] \notin {"lock", "opening", "info", "streams"}
TakenInv ==
    /\ \A o \in Objects : ~ffmpeg[o].javaCall => ffmpeg[o].players = 0 /\ Over(o)
    /\ \A c \in Callers : pc[c] = "wait" => Over(job[c])

LifeInv ==
    /\ Kept /\ MutexInv /\ ReadInv
    /\ "earlyRelease" \notin misuse => TakenInv
    /\ "overlap" \notin misuse => Single
    /\ misuse = {} => Orderly

-----------------------------------------------------------------------------
\* The threads.

ThreadLabel == CallerLabel \union DecoderLabel

LEMMA ThreadsApart ==
    /\ Callers \subseteq Threads /\ Decoders \subseteq Threads
    /\ \A t \in Threads : t \in Callers \/ t \in Decoders
    /\ \A c \in Callers : c \notin Decoders /\ Decoder(c) \in Decoders
    /\ \A d \in Decoders : d \notin Callers
    /\ \A b, c \in Callers : Decoder(b) = Decoder(c) => b = c
    /\ \A d \in Decoders : \E c \in Callers : d = Decoder(c)
    /\ Cardinality(Callers) \in Nat /\ Objects = 1..Cardinality(Callers)
<1>1. Cardinality(Callers) \in Nat
  BY FS_CardinalityType
<1> QED BY <1>1 DEF Threads, Decoders, Decoder, Objects

\* What a thread that moves leaves of pc.
LEMMA Moved ==
    ASSUME TypeOK, NEW t \in Threads, NEW label \in ThreadLabel, Goto(t, label)
    PROVE  /\ pc' \in [Threads -> ThreadLabel]
           /\ pc'[t] = label
           /\ \A u \in Threads : u # t => pc'[u] = pc[u]
BY DEF TypeOK, Goto, ThreadLabel

\* What a step that changes one object leaves of the others.
LEMMA Updated ==
    ASSUME TypeOK, NEW o \in Objects, NEW fields \in Object,
           ffmpeg' = [ffmpeg EXCEPT ![o] = fields]
    PROVE  /\ ffmpeg' \in [Objects -> Object]
           /\ ffmpeg'[o] = fields
           /\ \A q \in Objects : q # o => ffmpeg'[q] = ffmpeg[q]
BY DEF TypeOK

-----------------------------------------------------------------------------
\* Types, and what each thread works for.

\* The object of a thread that starts or releases is one of those made.
LEMMA Works ==
    ASSUME Kept
    PROVE  /\ \A n \in 1..made : n \in Objects
           /\ \A c \in Callers : pc[c] \in Objected => job[c] \in Objects
           /\ \A d \in Decoders : pc[d] # "none" => job[d] \in Objects
           /\ \A t \in Threads : pc[t] \in StartLabel => Played(t) \in 1..made /\ Played(t) \in Objects
<1>1. \A n \in 1..made : n \in Objects
  BY ThreadsApart DEF Kept
<1>2. \A c \in Callers : pc[c] \in Objected => job[c] \in 1..made
  BY DEF Kept
<1>3. \A d \in Decoders : /\ pc[d] # "none" => job[d] \in 1..made
                          /\ pc[d] \in StartLabel => plays[d] \in 1..made
  BY DEF Kept
<1>4. \A t \in Threads : pc[t] \in StartLabel => Played(t) \in 1..made
  BY <1>2, <1>3, ThreadsApart DEF Played, Objected
<1> QED BY <1>1, <1>2, <1>3, <1>4

LEMMA PrepareType == ASSUME Kept, NEW c \in Callers, CallPrepared(c) \/ Prepare(c) PROVE TypeOK'
<1>1. TypeOK /\ c \in Threads /\ Decoder(c) \in Threads /\ Decoder(c) \in Decoders
      /\ Cardinality(Callers) \in Nat /\ Objects = 1..Cardinality(Callers)
  BY ThreadsApart DEF Kept
<1> USE DEF At
<1>2. \A label \in ThreadLabel : Goto(c, label) => pc' \in [Threads -> ThreadLabel]
  BY <1>1, Moved
<1>3. Preparing \union {"idle", "lock"} \subseteq ThreadLabel
  BY DEF Preparing, ThreadLabel, CallerLabel, DecoderLabel
<1> USE DEF TypeOK, ThreadLabel, global, history
<1>4. CASE CallPrepared(c)
  BY <1>1, <1>2, <1>3, <1>4 DEF CallPrepared, Enter, Preparing
<1>5. CASE TestJavaCall(c) \/ TestFFmpeg(c)
  BY <1>1, <1>2, <1>3, <1>5 DEF TestJavaCall, TestFFmpeg, Preparing
<1>6. CASE NewJavaCall(c)
  BY <1>1, <1>2, <1>3, <1>6 DEF NewJavaCall, Preparing
<1>7. CASE NewFFmpeg(c)
  BY <1>1, <1>2, <1>3, <1>7 DEF NewFFmpeg, Preparing
<1>9. CASE OnLoad(c)
  <2>1. foreignEnv' \in BOOLEAN
    BY <1>9 DEF OnLoad
  <2> QED BY <1>1, <1>2, <1>3, <1>9, <2>1 DEF OnLoad, Preparing
<1>8. CASE CreateDecoder(c)
  BY <1>1, <1>3, <1>8 DEF CreateDecoder
<1> QED BY <1>4, <1>5, <1>6, <1>7, <1>8, <1>9 DEF Prepare

LEMMA DecodeType ==
    ASSUME Kept, NEW d \in Decoders, Opened(d) \/ NotOpened(d) \/ FindStreamInfo(d) \/ Decode(d)
    PROVE  TypeOK'
<1>1. TypeOK /\ d \in Threads
  BY ThreadsApart DEF Kept
<1> USE DEF At
<1>2. \A label \in ThreadLabel : Goto(d, label) => pc' \in [Threads -> ThreadLabel]
  BY <1>1, Moved
<1>3. DecoderLabel \subseteq ThreadLabel
  BY DEF ThreadLabel
<1>4. pc[d] # "none" => job[d] \in Objects /\ ffmpeg[job[d]] \in Object
  BY <1>1, Works DEF TypeOK
<1>5. \A label \in DecoderLabel, fields \in Object :
         pc[d] # "none" /\ Update(d, job[d], label, fields) =>
            /\ pc' \in [Threads -> ThreadLabel]
            /\ ffmpeg' \in [Objects -> Object]
            /\ UNCHANGED <<cclJavaCall, cclFFmpeg, made, calls, fault, misuse, foreignEnv, misfed>>
  BY <1>1, <1>2, <1>3, <1>4, Updated DEF Update, global, history
<1> USE DEF TypeOK, ThreadLabel
<1>6. CASE LockAndAlloc(d)
  <2>1. [ffmpeg[job[d]] EXCEPT !.holds = {d}, !.finished = FALSE, !.format = "allocated"] \in Object
    BY <1>1, <1>4, <1>6 DEF LockAndAlloc, Object
  <2> QED BY <1>1, <1>5, <1>6, <2>1 DEF LockAndAlloc, DecoderLabel
<1>7. CASE Opened(d)
  <2>1. [ffmpeg[job[d]] EXCEPT !.format = "open"] \in Object
    BY <1>4, <1>7 DEF Opened, Object
  <2> QED BY <1>1, <1>5, <1>7, <2>1 DEF Opened, DecoderLabel
<1>8. CASE NotOpened(d)
  <2>1. [ffmpeg[job[d]] EXCEPT !.format = "null"] \in Object
    BY <1>4, <1>8 DEF NotOpened, Object
  <2> QED BY <1>1, <1>5, <1>8, <2>1 DEF NotOpened, DecoderLabel
<1>9. CASE FindStreamInfo(d) \/ EndOfStreams(d)
  BY <1>1, <1>4, <1>5, <1>9 DEF FindStreamInfo, EndOfStreams, DecoderLabel
<1>10. CASE MakePlayers(d)
  <2>1. [ffmpeg[job[d]] EXCEPT !.pairs = @ + 1, !.players = ffmpeg[job[d]].pairs + 1] \in Object
    <3>1. ffmpeg[job[d]] \in Object /\ ffmpeg[job[d]].pairs + 1 \in Nat
      BY <1>4, <1>10 DEF MakePlayers, Object
    <3> QED BY <3>1 DEF Object
  <2> QED BY <1>1, <1>5, <1>10, <2>1 DEF MakePlayers, DecoderLabel
<1>11. CASE CallNull(d)
  BY <1>1, <1>11 DEF CallNull, global, history
<1>12. CASE OnParpared(d)
  <2>1. pc' \in [Threads -> ThreadLabel]
    BY <1>2, <1>3, <1>12 DEF OnParpared, DecoderLabel, StartLabel
  <2> QED BY <1>1, <1>4, <1>12, <2>1 DEF OnParpared, global, history
<1>13. CASE DecodeExit(d)
  <2>1. [ffmpeg[job[d]] EXCEPT !.finished = TRUE, !.holds = {}] \in Object
    BY <1>4, <1>13 DEF DecodeExit, Object
  <2> QED BY <1>1, <1>5, <1>13, <2>1 DEF DecodeExit, DecoderLabel
<1> QED BY <1>6, <1>7, <1>8, <1>9, <1>10, <1>11, <1>12, <1>13 DEF Decode

LEMMA StartType == ASSUME Kept, NEW t \in Threads, Read(t) \/ Demux(t) PROVE TypeOK'
<1>1. TypeOK
  BY DEF Kept
<1> USE DEF At
<1>2. \A label \in ThreadLabel : Goto(t, label) => pc' \in [Threads -> ThreadLabel]
  BY <1>1, Moved
<1>3. StartLabel \union {"idle", "exit"} \subseteq ThreadLabel
  BY DEF ThreadLabel, CallerLabel, DecoderLabel
<1>4. pc[t] \in StartLabel => Played(t) \in Objects /\ ffmpeg[Played(t)] \in Object
  BY <1>1, Works DEF TypeOK
<1> USE DEF TypeOK, ThreadLabel, global, history
<1>5. CASE Start(t)
  BY <1>1, <1>2, <1>3, <1>4, <1>5 DEF Start, StartLabel, Object
<1>6. CASE Loop(t)
  <2>1. pc' \in [Threads -> ThreadLabel]
    BY <1>2, <1>3, <1>6 DEF Loop, StartLabel
  <2>2. ffmpeg' \in [Objects -> Object]
    <3>1. [ffmpeg EXCEPT ![Played(t)].finished = FALSE] \in [Objects -> Object]
      BY <1>1, <1>4, <1>6 DEF Loop, StartLabel, Object
    <3> QED BY <1>1, <1>6, <3>1 DEF Loop
  <2> QED BY <1>1, <1>6, <2>1, <2>2 DEF Loop
<1>7. CASE LockAndRead(t) \/ Read(t) \/ Put(t) \/ Freep(t) \/ FreeOther(t)
  BY <1>1, <1>2, <1>3, <1>4, <1>7 DEF LockAndRead, Read, Put, Freep, FreeOther, StartLabel
<1>8. CASE Eof(t)
  <2>1. pc' \in [Threads -> ThreadLabel]
    BY <1>2, <1>3, <1>8 DEF Eof, StartLabel
  <2>2. ffmpeg' \in [Objects -> Object]
    <3>1. [ffmpeg EXCEPT ![Played(t)].exit = TRUE] \in [Objects -> Object]
      BY <1>1, <1>4, <1>8 DEF Eof, StartLabel, Object
    <3> QED BY <1>1, <1>8, <3>1 DEF Eof
  <2> QED BY <1>1, <1>8, <2>1, <2>2 DEF Eof
<1>9. CASE Complete(t)
  BY <1>1, <1>2, <1>3, <1>4, <1>9 DEF Complete, StartLabel
<1>10. CASE Leave(t)
  BY <1>1, <1>2, <1>3, <1>4, <1>10 DEF Leave, StartLabel, Object
<1> QED BY <1>5, <1>6, <1>7, <1>8, <1>9, <1>10 DEF Demux

LEMMA ReleaseType ==
    ASSUME Kept, NEW c \in Callers, CallStart(c) \/ CallRelease(c) \/ Release(c) PROVE TypeOK'
<1>1. TypeOK /\ c \in Threads /\ cclFFmpeg \in 0..made /\ \A n \in 1..made : n \in Objects
  BY ThreadsApart, Works DEF Kept
<1> USE DEF At
<1>2. \A label \in ThreadLabel : Goto(c, label) => pc' \in [Threads -> ThreadLabel]
  BY <1>1, Moved
<1>3. {"idle", "enter", "initMutex", "wait"} \subseteq ThreadLabel
  BY DEF ThreadLabel, CallerLabel, StartLabel
<1>4. /\ pc[c] \in {"initMutex", "wait"} => job[c] \in Objects /\ ffmpeg[job[c]] \in Object
      /\ cclFFmpeg # 0 => cclFFmpeg \in Objects /\ ffmpeg[cclFFmpeg] \in Object
  BY <1>1, Works DEF Objected, TypeOK, Kept
<1> USE DEF TypeOK, ThreadLabel, global, history
<1>5. CASE CallStart(c)
  BY <1>1, <1>2, <1>3, <1>4, <1>5 DEF CallStart, Enter
<1>6. CASE CallRelease(c)
  <2>1. ffmpeg' \in [Objects -> Object]
    BY <1>1, <1>4, <1>6 DEF CallRelease, Object
  <2> QED BY <1>1, <1>2, <1>3, <1>4, <1>6, <2>1 DEF CallRelease, Enter
<1>7. CASE Lock(c)
  BY <1>1, <1>2, <1>3, <1>4, <1>7 DEF Lock, Object
<1>8. CASE Take(c)
  BY <1>1, <1>2, <1>3, <1>4, <1>8 DEF Take, Object
<1> QED BY <1>5, <1>6, <1>7, <1>8 DEF Release

-----------------------------------------------------------------------------
\* What the steps of start and of decodeFFmpeg leave alone.

Stays(t) == \A u \in Threads : u # t => pc'[u] = pc[u]

\* start, on thread t: only flags of its object change.
Starts(t) ==
    /\ Stays(t)
    /\ pc[t] \in StartLabel
    /\ \/ pc'[t] \in StartLabel \ {"enter"}
       \/ t \in Callers /\ pc'[t] = "idle"
       \/ t \in Decoders /\ pc'[t] = "exit"
    /\ UNCHANGED <<cclJavaCall, cclFFmpeg, made, prepared, job, plays, foreignEnv>>
    /\ misuse \subseteq misuse' /\ misuse' \subseteq misuse \union {"earlyStart"}
    /\ \A o \in Objects :
          /\ ffmpeg'[o].players = ffmpeg[o].players /\ ffmpeg'[o].pairs = ffmpeg[o].pairs
          /\ ffmpeg'[o].format = ffmpeg[o].format /\ ffmpeg'[o].javaCall = ffmpeg[o].javaCall
          /\ ffmpeg'[o].holds = ffmpeg[o].holds

LEMMA StartsEffect == ASSUME Kept, NEW t \in Threads, Read(t) \/ Demux(t) PROVE Starts(t)
<1>1. TypeOK
  BY DEF Kept
<1> USE DEF At
<1>2. \A label \in ThreadLabel : Goto(t, label) => pc'[t] = label /\ Stays(t)
  BY <1>1, Moved DEF Stays
<1>3. StartLabel \union {"idle", "exit"} \subseteq ThreadLabel
  BY DEF ThreadLabel, CallerLabel, DecoderLabel
<1>4. pc[t] \in StartLabel => Played(t) \in Objects
  BY <1>1, Works DEF TypeOK
<1>5. \A o \in Objects : ffmpeg[o] \in Object
  BY <1>1 DEF TypeOK
\* Setting one of the two flags leaves the other fields.
<1>6. ASSUME pc[t] \in StartLabel, NEW b \in BOOLEAN, ffmpeg' = [ffmpeg EXCEPT ![Played(t)].finished = b]
      PROVE \A o \in Objects :
          /\ ffmpeg'[o].players = ffmpeg[o].players /\ ffmpeg'[o].pairs = ffmpeg[o].pairs
          /\ ffmpeg'[o].format = ffmpeg[o].format /\ ffmpeg'[o].javaCall = ffmpeg[o].javaCall
          /\ ffmpeg'[o].holds = ffmpeg[o].holds
  BY <1>1, <1>4, <1>5, <1>6 DEF TypeOK, Object
<1>7. ASSUME pc[t] \in StartLabel, ffmpeg' = [ffmpeg EXCEPT ![Played(t)].exit = TRUE]
      PROVE \A o \in Objects :
          /\ ffmpeg'[o].players = ffmpeg[o].players /\ ffmpeg'[o].pairs = ffmpeg[o].pairs
          /\ ffmpeg'[o].format = ffmpeg[o].format /\ ffmpeg'[o].javaCall = ffmpeg[o].javaCall
          /\ ffmpeg'[o].holds = ffmpeg[o].holds
  BY <1>1, <1>4, <1>5, <1>7 DEF TypeOK, Object
<1>8. t \in Callers \/ t \in Decoders
  BY ThreadsApart
<1>9. t \in Callers => t \notin Decoders
  BY ThreadsApart
<1> USE DEF global, history
<1>10. CASE Start(t)
  <2>1. pc[t] \in StartLabel /\ pc'[t] \in StartLabel \ {"enter"} /\ Stays(t)
    BY <1>2, <1>3, <1>10 DEF Start, StartLabel
  <2>2. ffmpeg' = [ffmpeg EXCEPT ![Played(t)].finished = FALSE]
    BY <1>10 DEF Start
  <2> QED BY <1>6, <1>10, <2>1, <2>2 DEF Start, Starts
<1>11. CASE Loop(t)
  <2>1. pc[t] \in StartLabel /\ pc'[t] \in StartLabel \ {"enter"} /\ Stays(t)
    BY <1>2, <1>3, <1>11 DEF Loop, StartLabel
  <2>2. ffmpeg' = ffmpeg \/ ffmpeg' = [ffmpeg EXCEPT ![Played(t)].finished = FALSE]
    BY <1>11 DEF Loop
  <2> QED BY <1>6, <1>11, <2>1, <2>2 DEF Loop, Starts
<1>12. CASE LockAndRead(t) \/ Read(t) \/ Put(t) \/ Freep(t) \/ FreeOther(t)
  <2>1. pc[t] \in StartLabel /\ pc'[t] \in StartLabel \ {"enter"} /\ Stays(t)
    BY <1>2, <1>3, <1>12 DEF LockAndRead, Read, Put, Freep, FreeOther, StartLabel, Stays
  <2> QED BY <1>12, <2>1 DEF LockAndRead, Read, Put, Freep, FreeOther, Starts
<1>13. CASE Eof(t)
  <2>1. pc[t] \in StartLabel /\ pc'[t] \in StartLabel \ {"enter"} /\ Stays(t)
    BY <1>2, <1>3, <1>13 DEF Eof, StartLabel
  <2>2. ffmpeg' = ffmpeg \/ ffmpeg' = [ffmpeg EXCEPT ![Played(t)].exit = TRUE]
    BY <1>13 DEF Eof
  <2> QED BY <1>7, <1>13, <2>1, <2>2 DEF Eof, Starts
<1>14. CASE Complete(t)
  <2>1. pc[t] \in StartLabel /\ pc'[t] \in StartLabel \ {"enter"} /\ Stays(t)
    BY <1>2, <1>3, <1>14 DEF Complete, StartLabel, Stays
  <2> QED BY <1>14, <2>1 DEF Complete, Starts
<1>15. CASE Leave(t)
  <2>1. pc[t] \in StartLabel /\ pc'[t] = (IF t \in Callers THEN "idle" ELSE "exit") /\ Stays(t)
    BY <1>2, <1>3, <1>15 DEF Leave, StartLabel
  <2>2. ffmpeg' = [ffmpeg EXCEPT ![Played(t)].finished = TRUE]
    BY <1>15 DEF Leave
  <2> QED BY <1>6, <1>8, <1>15, <2>1, <2>2 DEF Leave, Starts
<1> QED BY <1>10, <1>11, <1>12, <1>13, <1>14, <1>15 DEF Demux

\* A step of thread t that leaves the objects and what the threads work for.
LEMMA KeptWhere ==
    ASSUME Kept, TypeOK', NEW t \in Threads, Stays(t), UNCHANGED <<made, cclFFmpeg, job, plays>>,
           t \in Callers =>
              /\ pc'[t] \in CallerLabel
              /\ pc'[t] \in {"onLoad", "create"} => cclFFmpeg > 0
              /\ pc'[t] \in Objected => job[t] \in 1..made
              /\ pc'[t] \in {"newFFmpeg", "onLoad", "create"} => pc[Decoder(t)] = "none",
           t \in Decoders =>
              /\ pc'[t] \in DecoderLabel
              /\ pc[t] # "none"
              /\ pc'[t] \in StartLabel => plays[t] \in 1..made
    PROVE  Kept'
<1>1. \A c \in Callers : c \in Threads /\ Decoder(c) \in Threads /\ Decoder(c) \in Decoders /\ Decoder(c) # c
  BY ThreadsApart
<1>2. \A d \in Decoders : d \in Threads /\ d \notin Callers
  BY ThreadsApart
<1>3. \A c \in Callers :
          /\ pc'[c] \in CallerLabel
          /\ pc'[c] \in {"onLoad", "create"} => cclFFmpeg > 0
          /\ pc'[c] \in Objected => job[c] \in 1..made
          /\ pc'[c] \in {"newFFmpeg", "onLoad", "create"} => pc[Decoder(c)] = "none"
  BY <1>1 DEF Kept, Stays
<1>4. \A d \in Decoders :
          /\ pc'[d] \in DecoderLabel
          /\ pc'[d] # "none" => job[d] \in 1..made
          /\ pc'[d] \in StartLabel => plays[d] \in 1..made
          /\ pc[d] = "none" => pc'[d] = "none"
  BY <1>2 DEF Kept, Stays
<1> QED BY <1>1, <1>3, <1>4 DEF Kept

LEMMA StartKept == ASSUME Kept, TypeOK', NEW t \in Threads, Starts(t) PROVE Kept'
<1>1. t \in Callers => job[t] \in 1..made
  BY DEF Kept, Starts, Objected
<1>2. t \in Decoders => plays[t] \in 1..made /\ pc[t] # "none"
  BY DEF Kept, Starts, StartLabel
<1> QED BY <1>1, <1>2, KeptWhere, ThreadsApart
        DEF Starts, CallerLabel, DecoderLabel, Objected, StartLabel

\* Each label of decodeFFmpeg and those that may follow.
Follows(from, to) ==
    \/ from = "lock" /\ to = "opening"
    \/ from = "opening" /\ to \in {"info", "exit"}
    \/ from = "info" /\ to \in {"streams", "exit"}
    \/ from = "streams" /\ to \in {"streams", "onParpared", "exit"}
    \/ from = "onParpared" /\ to \in {"onParpared", "enter", "exit"}
    \/ from = "exit" /\ to = "done"

\* decodeFFmpeg, on thread d: only its object changes.
Decodes(d) ==
    /\ Stays(d) /\ Follows(pc[d], pc'[d])
    /\ UNCHANGED <<cclJavaCall, cclFFmpeg, made, job, started, misuse, foreignEnv, misfed>>
    /\ \/ UNCHANGED plays /\ pc'[d] # "enter"
       \/ plays' = [plays EXCEPT ![d] = cclFFmpeg]
    /\ \/ UNCHANGED prepared
       \/ prepared' = prepared \union {job[d]} /\ pc[d] = "onParpared" /\ pc'[d] # "onParpared"
    /\ \/ UNCHANGED fault
       \/ fault' = "nullCall" /\ ~ffmpeg[job[d]].javaCall /\ pc[d] \in {"streams", "onParpared"}
    /\ \A q \in Objects : q # job[d] => ffmpeg'[q] = ffmpeg[q]
    /\ ffmpeg'[job[d]].exit = ffmpeg[job[d]].exit
    /\ ffmpeg'[job[d]].javaCall = ffmpeg[job[d]].javaCall
    /\ \/ /\ ffmpeg'[job[d]].players = ffmpeg[job[d]].players
          /\ ffmpeg'[job[d]].pairs = ffmpeg[job[d]].pairs
       \/ pc[d] = "streams" /\ ffmpeg'[job[d]].pairs > 0
    /\ ffmpeg'[job[d]].pairs >= ffmpeg[job[d]].pairs
    /\ \/ ffmpeg'[job[d]].holds = ffmpeg[job[d]].holds /\ pc[d] \notin {"lock", "exit"}
       \/ pc[d] = "lock" /\ ffmpeg[job[d]].holds = {} /\ ffmpeg'[job[d]].holds = {d}
       \/ pc[d] = "exit" /\ ffmpeg'[job[d]].holds = {}
    /\ \/ ffmpeg'[job[d]].format = ffmpeg[job[d]].format /\ pc[d] \notin {"lock", "opening"}
       \/ pc[d] = "lock"
       \/ pc[d] = "opening" /\ pc'[d] = "exit"
       \/ pc[d] = "opening" /\ ffmpeg'[job[d]].format = "open"

\* Object f as decodeFFmpeg locks it, makes players for it and leaves it.
Locked(f, d) == [f EXCEPT !.holds = {d}, !.finished = FALSE, !.format = "allocated"]
WithPlayers(f) == [f EXCEPT !.pairs = @ + 1, !.players = f.pairs + 1]
Left(f) == [f EXCEPT !.finished = TRUE, !.holds = {}]

LEMMA Fields ==
    ASSUME NEW f \in Object, NEW d \in Threads
    PROVE  /\ f.pairs \in Nat /\ f.pairs >= f.pairs
           /\ Locked(f, d) \in Object /\ Locked(f, d).holds = {d}
           /\ Locked(f, d).players = f.players /\ Locked(f, d).pairs = f.pairs
           /\ Locked(f, d).exit = f.exit /\ Locked(f, d).javaCall = f.javaCall
           /\ WithPlayers(f) \in Object /\ WithPlayers(f).pairs = f.pairs + 1
           /\ WithPlayers(f).holds = f.holds /\ WithPlayers(f).format = f.format
           /\ WithPlayers(f).exit = f.exit /\ WithPlayers(f).javaCall = f.javaCall
           /\ Left(f) \in Object /\ Left(f).holds = {} /\ Left(f).format = f.format
           /\ Left(f).players = f.players /\ Left(f).pairs = f.pairs
           /\ Left(f).exit = f.exit /\ Left(f).javaCall = f.javaCall
<1>1. f.pairs \in Nat /\ f.pairs >= f.pairs /\ f.pairs + 1 \in Nat
  BY DEF Object
<1>2. /\ Locked(f, d).holds = {d}
      /\ Locked(f, d).players = f.players /\ Locked(f, d).pairs = f.pairs
      /\ Locked(f, d).exit = f.exit /\ Locked(f, d).javaCall = f.javaCall
  BY DEF Object, Locked
<1>3. Locked(f, d) \in Object
  BY DEF Object, Locked
<1>4. /\ WithPlayers(f).pairs = f.pairs + 1
      /\ WithPlayers(f).holds = f.holds /\ WithPlayers(f).format = f.format
      /\ WithPlayers(f).exit = f.exit /\ WithPlayers(f).javaCall = f.javaCall
  BY DEF Object, WithPlayers
<1>5. WithPlayers(f) \in Object
  BY <1>1 DEF Object, WithPlayers
<1>6. /\ Left(f).holds = {} /\ Left(f).format = f.format
      /\ Left(f).players = f.players /\ Left(f).pairs = f.pairs
      /\ Left(f).exit = f.exit /\ Left(f).javaCall = f.javaCall
  BY DEF Object, Left
<1>7. Left(f) \in Object
  BY DEF Object, Left
<1> QED BY <1>1, <1>2, <1>3, <1>4, <1>5, <1>6, <1>7

LEMMA DecodesEffect ==
    ASSUME Kept, NEW d \in Decoders, Opened(d) \/ NotOpened(d) \/ FindStreamInfo(d) \/ Decode(d)
    PROVE  Decodes(d)
<1>1. TypeOK /\ d \in Threads
  BY ThreadsApart DEF Kept
<1> USE DEF At
<1>2. \A label \in ThreadLabel : Goto(d, label) => pc'[d] = label /\ Stays(d)
  BY <1>1, Moved DEF Stays
<1>3. DecoderLabel \subseteq ThreadLabel
  BY DEF ThreadLabel
<1>4. pc[d] # "none" => job[d] \in Objects /\ ffmpeg[job[d]] \in Object
  BY <1>1, Works DEF TypeOK
<1>5. \A label \in DecoderLabel, fields \in Object :
         pc[d] # "none" /\ Update(d, job[d], label, fields) =>
            /\ pc'[d] = label /\ Stays(d)
            /\ ffmpeg'[job[d]] = fields
            /\ \A q \in Objects : q # job[d] => ffmpeg'[q] = ffmpeg[q]
            /\ UNCHANGED <<cclJavaCall, cclFFmpeg, made, fault, misuse, foreignEnv, misfed>>
  BY <1>1, <1>2, <1>3, <1>4, Updated DEF Update, global, history
<1>6. CASE LockAndAlloc(d)
  <2>1. pc[d] = "lock" /\ ffmpeg[job[d]].holds = {}
        /\ Update(d, job[d], "opening", Locked(ffmpeg[job[d]], d))
    BY <1>6 DEF LockAndAlloc, Locked
  <2>2. ffmpeg[job[d]] \in Object
    BY <1>4, <2>1
  <2>3. /\ Locked(ffmpeg[job[d]], d) \in Object /\ Locked(ffmpeg[job[d]], d).holds = {d}
        /\ Locked(ffmpeg[job[d]], d).players = ffmpeg[job[d]].players
        /\ Locked(ffmpeg[job[d]], d).pairs = ffmpeg[job[d]].pairs
        /\ Locked(ffmpeg[job[d]], d).exit = ffmpeg[job[d]].exit
        /\ Locked(ffmpeg[job[d]], d).javaCall = ffmpeg[job[d]].javaCall
        /\ ffmpeg[job[d]].pairs >= ffmpeg[job[d]].pairs
    BY <1>1, <2>2, Fields
  <2>4. /\ pc'[d] = "opening" /\ Stays(d)
        /\ ffmpeg'[job[d]] = Locked(ffmpeg[job[d]], d)
        /\ \A q \in Objects : q # job[d] => ffmpeg'[q] = ffmpeg[q]
        /\ UNCHANGED <<cclJavaCall, cclFFmpeg, made, fault, misuse, foreignEnv, misfed>>
    BY <1>5, <2>1, <2>3 DEF DecoderLabel
  <2> QED BY <1>6, <2>1, <2>3, <2>4 DEF LockAndAlloc, Decodes, Follows
<1>7. CASE Opened(d)
  <2> DEFINE r == [ffmpeg[job[d]] EXCEPT !.format = "open"]
  <2>1. /\ r \in Object /\ r.format = "open" /\ r.holds = ffmpeg[job[d]].holds
        /\ r.players = ffmpeg[job[d]].players /\ r.pairs = ffmpeg[job[d]].pairs
        /\ r.exit = ffmpeg[job[d]].exit /\ r.javaCall = ffmpeg[job[d]].javaCall
        /\ r.pairs >= ffmpeg[job[d]].pairs
    BY <1>1, <1>4, <1>7 DEF Opened, Object
  <2>2. pc[d] = "opening" /\ Update(d, job[d], "info", r)
    BY <1>7 DEF Opened
  <2> HIDE DEF r
  <2> QED BY <1>5, <1>7, <2>1, <2>2 DEF Opened, DecoderLabel, Decodes, Follows
<1>8. CASE NotOpened(d)
  <2> DEFINE r == [ffmpeg[job[d]] EXCEPT !.format = "null"]
  <2>1. /\ r \in Object /\ r.holds = ffmpeg[job[d]].holds
        /\ r.players = ffmpeg[job[d]].players /\ r.pairs = ffmpeg[job[d]].pairs
        /\ r.exit = ffmpeg[job[d]].exit /\ r.javaCall = ffmpeg[job[d]].javaCall
        /\ r.pairs >= ffmpeg[job[d]].pairs
    BY <1>1, <1>4, <1>8 DEF NotOpened, Object
  <2>2. pc[d] = "opening" /\ Update(d, job[d], "exit", r)
    BY <1>8 DEF NotOpened
  <2> HIDE DEF r
  <2> QED BY <1>5, <1>8, <2>1, <2>2 DEF NotOpened, DecoderLabel, Decodes, Follows
<1>9. CASE FindStreamInfo(d) \/ EndOfStreams(d)
  <2>1. PICK label \in DecoderLabel : /\ Update(d, job[d], label, ffmpeg[job[d]])
                                      /\ pc[d] \in {"info", "streams"} /\ Follows(pc[d], label)
                                      /\ label # "enter"
    BY <1>9 DEF FindStreamInfo, EndOfStreams, DecoderLabel, Follows
  <2>2. ffmpeg[job[d]].pairs >= ffmpeg[job[d]].pairs
    BY <1>4, <2>1 DEF Object
  <2> QED BY <1>4, <1>5, <1>9, <2>1, <2>2 DEF FindStreamInfo, EndOfStreams, Decodes
<1>10. CASE MakePlayers(d)
  <2>1. PICK label \in {"streams", "exit"} :
            pc[d] = "streams" /\ Update(d, job[d], label, WithPlayers(ffmpeg[job[d]]))
    BY <1>10 DEF MakePlayers, WithPlayers
  <2>2. ffmpeg[job[d]] \in Object /\ ffmpeg[job[d]].pairs + 1 > 0
        /\ ffmpeg[job[d]].pairs + 1 >= ffmpeg[job[d]].pairs
    BY <1>4, <2>1 DEF Object
  <2>3. /\ WithPlayers(ffmpeg[job[d]]) \in Object
        /\ WithPlayers(ffmpeg[job[d]]).pairs = ffmpeg[job[d]].pairs + 1
        /\ WithPlayers(ffmpeg[job[d]]).holds = ffmpeg[job[d]].holds
        /\ WithPlayers(ffmpeg[job[d]]).format = ffmpeg[job[d]].format
        /\ WithPlayers(ffmpeg[job[d]]).exit = ffmpeg[job[d]].exit
        /\ WithPlayers(ffmpeg[job[d]]).javaCall = ffmpeg[job[d]].javaCall
    BY <1>1, <2>2, Fields
  <2>4. /\ pc'[d] = label /\ Stays(d)
        /\ ffmpeg'[job[d]] = WithPlayers(ffmpeg[job[d]])
        /\ \A q \in Objects : q # job[d] => ffmpeg'[q] = ffmpeg[q]
        /\ UNCHANGED <<cclJavaCall, cclFFmpeg, made, fault, misuse, foreignEnv, misfed>>
    BY <1>5, <2>1, <2>3 DEF DecoderLabel
  <2> QED BY <1>10, <2>1, <2>2, <2>3, <2>4 DEF MakePlayers, Decodes, Follows
<1>11. CASE CallNull(d)
  <2>1. ffmpeg[job[d]].pairs >= ffmpeg[job[d]].pairs
    BY <1>4, <1>11 DEF CallNull, Object
  <2> QED BY <1>11, <2>1 DEF CallNull, global, history, Decodes, Follows, Stays
<1>12. CASE OnParpared(d)
  <2>1. Stays(d) /\ pc[d] = "onParpared" /\ pc'[d] \in {"enter", "exit"}
    BY <1>2, <1>3, <1>12 DEF OnParpared, DecoderLabel, StartLabel
  <2>2. ffmpeg[job[d]].pairs >= ffmpeg[job[d]].pairs
    BY <1>4, <1>12 DEF OnParpared, Object
  <2>3. (UNCHANGED plays /\ pc'[d] # "enter") \/ plays' = [plays EXCEPT ![d] = cclFFmpeg]
    BY <1>2, <1>3, <1>12 DEF OnParpared, DecoderLabel
  <2> QED BY <1>12, <2>1, <2>2, <2>3 DEF OnParpared, global, history, Decodes, Follows
<1>13. CASE DecodeExit(d)
  <2>1. pc[d] = "exit" /\ Update(d, job[d], "done", Left(ffmpeg[job[d]]))
    BY <1>13 DEF DecodeExit, Left
  <2>2. ffmpeg[job[d]] \in Object
    BY <1>4, <2>1
  <2>3. /\ Left(ffmpeg[job[d]]) \in Object /\ Left(ffmpeg[job[d]]).holds = {}
        /\ Left(ffmpeg[job[d]]).format = ffmpeg[job[d]].format
        /\ Left(ffmpeg[job[d]]).players = ffmpeg[job[d]].players
        /\ Left(ffmpeg[job[d]]).pairs = ffmpeg[job[d]].pairs
        /\ Left(ffmpeg[job[d]]).exit = ffmpeg[job[d]].exit
        /\ Left(ffmpeg[job[d]]).javaCall = ffmpeg[job[d]].javaCall
        /\ ffmpeg[job[d]].pairs >= ffmpeg[job[d]].pairs
    BY <1>1, <2>2, Fields
  <2>4. /\ pc'[d] = "done" /\ Stays(d)
        /\ ffmpeg'[job[d]] = Left(ffmpeg[job[d]])
        /\ \A q \in Objects : q # job[d] => ffmpeg'[q] = ffmpeg[q]
        /\ UNCHANGED <<cclJavaCall, cclFFmpeg, made, fault, misuse, foreignEnv, misfed>>
    BY <1>5, <2>1, <2>3 DEF DecoderLabel
  <2> QED BY <1>13, <2>1, <2>3, <2>4 DEF DecodeExit, Decodes, Follows
<1> QED BY <1>6, <1>7, <1>8, <1>9, <1>10, <1>11, <1>12, <1>13 DEF Decode

LEMMA DecodeKept == ASSUME Kept, TypeOK', NEW d \in Decoders, Decodes(d) PROVE Kept'
<1>1. d \in Threads /\ d \notin Callers /\ pc[d] # "none" /\ pc'[d] \in DecoderLabel
  BY ThreadsApart DEF Decodes, Follows, DecoderLabel, StartLabel
<1>2. /\ job[d] \in 1..made /\ plays \in [Decoders -> Nat] /\ made \in Nat
      /\ cclFFmpeg \in 1..made
  <2>1. job[d] \in 1..made /\ made \in 0..Cardinality(Callers) /\ Cardinality(Callers) \in Nat
    BY <1>1, ThreadsApart DEF Kept
  <2>2. made \in Nat /\ made > 0
    BY <2>1
  <2> QED BY <2>1, <2>2 DEF Kept, TypeOK
<1>3. CASE UNCHANGED plays /\ pc'[d] # "enter"
  <2>1. pc'[d] \notin StartLabel
    BY <1>3 DEF Decodes, Follows, StartLabel
  <2> QED BY <1>1, <1>2, <1>3, <2>1, KeptWhere DEF Decodes
<1>4. CASE plays' = [plays EXCEPT ![d] = cclFFmpeg]
  <2>1. \A e \in Decoders : plays'[e] = IF e = d THEN cclFFmpeg ELSE plays[e]
    BY <1>2, <1>4
  <2>2. UNCHANGED <<made, cclFFmpeg, job>> /\ Stays(d)
    BY DEF Decodes
  <2>4. \A c \in Callers : pc'[c] = pc[c]
    BY <1>1, <2>2, ThreadsApart DEF Stays
  <2>5. \A c \in Callers : pc[Decoder(c)] = "none" => pc'[Decoder(c)] = "none"
    BY <1>1, <2>2, ThreadsApart DEF Stays
  <2>6. \A e \in Decoders :
          /\ pc'[e] \in DecoderLabel
          /\ pc'[e] # "none" => job[e] \in 1..made
          /\ pc'[e] \in StartLabel => plays'[e] \in 1..made
    BY <1>1, <1>2, <2>1, <2>2, ThreadsApart DEF Stays, Kept
  <2> QED BY <2>2, <2>4, <2>5, <2>6 DEF Kept
<1> QED BY <1>3, <1>4 DEF Decodes

\* A caller that enters a native method.
Enters(c, label, o) ==
    /\ Stays(c) /\ pc[c] = "idle" /\ pc'[c] = label
    /\ job'[c] = o /\ (\A u \in Threads : u # c => job'[u] = job[u])
    /\ UNCHANGED plays

LEMMA EnterKept ==
    ASSUME Kept, TypeOK', NEW c \in Callers, NEW label \in CallerLabel, NEW o, Enter(c, label, o),
           UNCHANGED <<made, cclFFmpeg>>,
           label \notin {"newFFmpeg", "onLoad", "create"}, label \in Objected => o \in 1..made
    PROVE  Kept' /\ Enters(c, label, o)
<1>1. /\ c \in Threads /\ TypeOK
      /\ \A b \in Callers :
            b \in Threads /\ Decoder(b) \in Decoders /\ Decoder(b) \in Threads /\ Decoder(b) # c
      /\ \A d \in Decoders : d \in Threads /\ d # c
  BY ThreadsApart DEF Kept
<1>2. Enters(c, label, o)
  <2>1. pc'[c] = label /\ Stays(c)
    BY <1>1, Moved DEF Enter, ThreadLabel, Stays
  <2>2. job'[c] = o /\ \A u \in Threads : u # c => job'[u] = job[u]
    BY <1>1 DEF Enter, TypeOK
  <2> QED BY <2>1, <2>2 DEF Enter, Enters, At
<1>3. \A b \in Callers :
          /\ pc'[b] \in CallerLabel
          /\ pc'[b] \in {"onLoad", "create"} => cclFFmpeg > 0
          /\ pc'[b] \in Objected => job'[b] \in 1..made
          /\ pc'[b] \in {"newFFmpeg", "onLoad", "create"} => pc'[Decoder(b)] = "none"
  <2> TAKE b \in Callers
  <2>1. CASE b = c
    BY <1>2, <2>1 DEF Enters
  <2>2. CASE b # c
    BY <1>1, <1>2, <2>2 DEF Enters, Stays, Kept
  <2> QED BY <2>1, <2>2
<1>4. \A d \in Decoders :
          /\ pc'[d] \in DecoderLabel
          /\ pc'[d] # "none" => job'[d] \in 1..made
          /\ pc'[d] \in StartLabel => plays'[d] \in 1..made
  BY <1>1, <1>2 DEF Enters, Stays, Kept
<1> QED BY <1>2, <1>3, <1>4 DEF Kept

\* cclPrepared, on caller c: no object changes.
Prepares(c) ==
    /\ \A u \in Threads : u # c /\ u # Decoder(c) => pc'[u] = pc[u] /\ job'[u] = job[u]
    /\ pc[c] \in Preparing \union {"idle"} /\ pc'[c] \in Preparing \union {"idle"}
    /\ pc'[c] \in {"newFFmpeg", "onLoad", "create"} =>
          pc[c] \in {"newFFmpeg", "onLoad"} \/ cclFFmpeg = 0
    /\ pc[Decoder(c)] # "none" =>
          pc'[Decoder(c)] = pc[Decoder(c)] /\ job'[Decoder(c)] = job[Decoder(c)]
    /\ pc[Decoder(c)] = "none" =>
          \/ pc'[Decoder(c)] = "none"
          \/ pc'[Decoder(c)] = "lock" /\ pc[c] = "create"
    /\ made <= made'
    /\ UNCHANGED <<ffmpeg, prepared, plays, started, fault, misfed>>
    /\ misuse \subseteq misuse' /\ misuse' \subseteq misuse \union {"overlap"}

LEMMA PrepareKept ==
    ASSUME Kept, TypeOK', NEW c \in Callers, CallPrepared(c) \/ Prepare(c)
    PROVE  Kept' /\ Prepares(c)
<1>1. /\ c \in Threads /\ Decoder(c) \in Threads /\ Decoder(c) \in Decoders /\ Decoder(c) # c /\ TypeOK
      /\ \A b \in Callers : b \in Threads /\ Decoder(b) \in Decoders /\ Decoder(b) \in Threads
                            /\ Decoder(b) # c /\ (b # c => Decoder(b) # Decoder(c)) /\ b # Decoder(c)
      /\ \A d \in Decoders : d \in Threads /\ d # c
      /\ Cardinality(Callers) \in Nat /\ made \in Nat /\ made <= made
  <2>1. Cardinality(Callers) \in Nat /\ made \in 0..Cardinality(Callers)
    BY ThreadsApart DEF Kept
  <2>2. made \in Nat /\ made <= made
    BY <2>1
  <2> QED BY <2>1, <2>2, ThreadsApart DEF Kept
<1> USE DEF At
<1>2. \A label \in ThreadLabel : Goto(c, label) => pc'[c] = label /\ Stays(c)
  BY <1>1, Moved DEF Stays
<1>3. Preparing \union {"idle", "lock"} \subseteq ThreadLabel
  BY DEF Preparing, ThreadLabel, CallerLabel, DecoderLabel
<1>4. \A label \in Preparing \union {"idle"} : label \in CallerLabel /\ label \notin Objected
  BY DEF Preparing, CallerLabel, Objected, StartLabel
<1>5. cclFFmpeg = 0 => \A d \in Decoders : pc[d] = "none"
  <2>1. cclFFmpeg = 0 => made = 0
    BY <1>1 DEF Kept
  <2>2. made = 0 => \A n \in 1..made : FALSE
    OBVIOUS
  <2> QED BY <2>1, <2>2 DEF Kept
\* The steps that only move c.
<1>6. ASSUME NEW label \in Preparing \union {"idle"}, Goto(c, label), pc[c] \in Preparing,
             UNCHANGED <<made, cclFFmpeg, job, plays>>,
             label \in {"onLoad", "create"} => cclFFmpeg > 0 /\ pc[c] = "onLoad",
             label = "newFFmpeg" => cclFFmpeg = 0,
             UNCHANGED <<ffmpeg, prepared, started, fault, misfed, misuse>>
      PROVE  Kept' /\ Prepares(c)
  <2>1. pc'[c] = label /\ Stays(c)
    BY <1>2, <1>3, <1>6
  <2>2. label \in {"newFFmpeg", "onLoad", "create"} => pc[Decoder(c)] = "none"
    BY <1>1, <1>5, <1>6 DEF Kept
  <2>3. Kept'
    BY <1>1, <1>4, <1>6, <2>1, <2>2, KeptWhere
  <2>4. pc'[Decoder(c)] = pc[Decoder(c)]
    BY <1>1, <2>1 DEF Stays
  <2> QED BY <1>1, <1>6, <2>1, <2>3, <2>4 DEF Prepares, Stays
<1> USE DEF global, history
<1>7. CASE CallPrepared(c)
  <2>1. UNCHANGED <<made, cclFFmpeg>> /\ Enter(c, "testJavaCall", 0)
    BY <1>7 DEF CallPrepared
  <2>2. Kept' /\ Enters(c, "testJavaCall", 0)
    BY <2>1, EnterKept DEF CallerLabel, Preparing, Objected, StartLabel
  <2>3. misuse \subseteq misuse' /\ misuse' \subseteq misuse \union {"overlap"}
    BY <1>7 DEF CallPrepared
  <2> QED BY <1>1, <1>7, <2>1, <2>2, <2>3 DEF CallPrepared, Prepares, Enters, Stays, Preparing
<1>8. CASE TestJavaCall(c)
  BY <1>6, <1>8 DEF TestJavaCall, Preparing
<1>9. CASE NewJavaCall(c)
  BY <1>6, <1>9 DEF NewJavaCall, Preparing
<1>10. CASE TestFFmpeg(c)
  BY <1>6, <1>10 DEF TestFFmpeg, Preparing
<1>11. CASE OnLoad(c)
  BY <1>1, <1>6, <1>11 DEF OnLoad, Preparing, Kept
<1>12. CASE NewFFmpeg(c)
  <2>1. pc[c] = "newFFmpeg" /\ pc'[c] = "onLoad" /\ Stays(c)
    BY <1>2, <1>3, <1>12 DEF NewFFmpeg, Preparing
  <2>2. made' = made + 1 /\ cclFFmpeg' = made + 1 /\ made < Cardinality(Callers)
    BY <1>12 DEF NewFFmpeg
  <2>3. made' \in 0..Cardinality(Callers) /\ cclFFmpeg' \in 0..made' /\ cclFFmpeg' > 0
        /\ (\A n \in 1..made : n \in 1..made') /\ made <= made'
    BY <1>1, <2>2
  <2>4. \A b \in Callers :
          /\ pc'[b] \in CallerLabel
          /\ pc'[b] \in Objected => job'[b] \in 1..made'
          /\ pc'[b] \in {"newFFmpeg", "onLoad", "create"} => pc'[Decoder(b)] = "none"
    <3> TAKE b \in Callers
    <3>1. pc'[b] = IF b = c THEN "onLoad" ELSE pc[b]
      BY <1>1, <2>1 DEF Stays
    <3>2. pc'[Decoder(b)] = pc[Decoder(b)] /\ job' = job
      BY <1>1, <1>12, <2>1 DEF Stays, NewFFmpeg
    <3> QED BY <1>4, <2>1, <2>3, <3>1, <3>2 DEF Kept, Preparing
  <2>5. \A d \in Decoders :
          /\ pc'[d] \in DecoderLabel
          /\ pc'[d] # "none" => job'[d] \in 1..made'
          /\ pc'[d] \in StartLabel => plays'[d] \in 1..made'
    BY <1>1, <1>12, <2>1, <2>3 DEF NewFFmpeg, Stays, Kept
  <2>6. Kept'
    BY <2>3, <2>4, <2>5 DEF Kept
  <2> QED BY <1>1, <1>12, <2>1, <2>3, <2>6 DEF NewFFmpeg, Prepares, Stays, Preparing
<1>13. CASE CreateDecoder(c)
  <2>1. /\ pc[c] = "create" /\ pc'[c] = "idle" /\ pc'[Decoder(c)] = "lock"
        /\ \A u \in Threads : u # c /\ u # Decoder(c) => pc'[u] = pc[u]
    BY <1>1, <1>13 DEF CreateDecoder, TypeOK
  <2>2. job'[Decoder(c)] = cclFFmpeg /\ \A u \in Threads : u # Decoder(c) => job'[u] = job[u]
    BY <1>1, <1>13 DEF CreateDecoder, TypeOK
  <2>3. pc[Decoder(c)] = "none" /\ cclFFmpeg \in 1..made
    <3>1. pc[Decoder(c)] = "none" /\ cclFFmpeg > 0 /\ cclFFmpeg \in 0..made
      BY <2>1 DEF Kept
    <3> QED BY <1>1, <3>1
  <2>4. UNCHANGED <<made, cclFFmpeg, plays>>
    BY <1>13 DEF CreateDecoder
  <2>5. \A b \in Callers :
          /\ pc'[b] \in CallerLabel
          /\ pc'[b] \in {"onLoad", "create"} => cclFFmpeg > 0
          /\ pc'[b] \in Objected => job'[b] \in 1..made
          /\ pc'[b] \in {"newFFmpeg", "onLoad", "create"} => pc'[Decoder(b)] = "none"
    <3> TAKE b \in Callers
    <3>1. CASE b = c
      BY <1>4, <2>1, <3>1
    <3>2. CASE b # c
      BY <1>1, <2>1, <2>2, <3>2 DEF Kept
    <3> QED BY <3>1, <3>2
  <2>6. \A d \in Decoders :
          /\ pc'[d] \in DecoderLabel
          /\ pc'[d] # "none" => job'[d] \in 1..made
          /\ pc'[d] \in StartLabel => plays[d] \in 1..made
    <3> TAKE d \in Decoders
    <3>1. CASE d = Decoder(c)
      BY <2>1, <2>2, <2>3, <3>1 DEF DecoderLabel, StartLabel
    <3>2. CASE d # Decoder(c)
      BY <1>1, <2>1, <2>2, <3>2 DEF Kept
    <3> QED BY <3>1, <3>2
  <2>7. Kept'
    BY <2>4, <2>5, <2>6 DEF Kept
  <2> QED BY <1>1, <1>13, <2>1, <2>2, <2>3, <2>7 DEF CreateDecoder, Prepares, Preparing
<1> QED BY <1>7, <1>8, <1>9, <1>10, <1>11, <1>12, <1>13 DEF Prepare


\* The fields of an object that a step leaves.
SameInput(o) ==
    /\ ffmpeg'[o].format = ffmpeg[o].format /\ ffmpeg'[o].pairs = ffmpeg[o].pairs

SamePlayers(o) ==
    /\ ffmpeg'[o].players = ffmpeg[o].players /\ ffmpeg'[o].javaCall = ffmpeg[o].javaCall

\* A caller goes into start, or into release, which raises exit.
Calls(c) ==
    /\ UNCHANGED <<global, prepared, started, fault, misuse, foreignEnv, misfed>>
    /\ cclFFmpeg \in 1..made
    /\ \/ Enters(c, "enter", cclFFmpeg) /\ UNCHANGED ffmpeg
       \/ /\ Enters(c, "initMutex", cclFFmpeg)
          /\ \A o \in Objects :
                /\ SameInput(o) /\ SamePlayers(o) /\ ffmpeg'[o].holds = ffmpeg[o].holds
                /\ o # cclFFmpeg => ffmpeg'[o].exit = ffmpeg[o].exit
                /\ ffmpeg[o].exit => ffmpeg'[o].exit

\* A release takes init_mutex.
Locks(c) ==
    /\ Stays(c) /\ pc[c] = "initMutex" /\ pc'[c] = "wait"
    /\ UNCHANGED <<global, prepared, job, plays, started, fault, foreignEnv, misfed>>
    /\ misuse' = IF Unprepared(job[c]) THEN misuse \union {"earlyRelease"} ELSE misuse
    /\ ffmpeg[job[c]].holds = {} /\ ffmpeg'[job[c]].holds = {c}
    /\ \A o \in Objects :
          /\ SameInput(o) /\ SamePlayers(o) /\ ffmpeg'[o].exit = ffmpeg[o].exit
          /\ o # job[c] => ffmpeg'[o].holds = ffmpeg[o].holds

\* It takes the players away and gives the mutex up.
TakesAway(c) ==
    /\ Stays(c) /\ pc[c] = "wait" /\ pc'[c] = "idle"
    /\ UNCHANGED <<global, prepared, job, plays, started, fault, history>>
    /\ ffmpeg'[job[c]].holds = {}
    /\ ffmpeg'[job[c]].players = 0
    /\ \A o \in Objects :
          /\ SameInput(o) /\ ffmpeg'[o].exit = ffmpeg[o].exit
          /\ o # job[c] => SamePlayers(o) /\ ffmpeg'[o].holds = ffmpeg[o].holds

Emptied(f) == [f EXCEPT !.finished = TRUE, !.players = 0, !.javaCall = FALSE, !.holds = {}]

LEMMA EmptiedFields ==
    ASSUME NEW f \in Object
    PROVE  /\ Emptied(f).players = 0 /\ Emptied(f).holds = {} /\ Emptied(f).exit = f.exit
           /\ Emptied(f).format = f.format /\ Emptied(f).pairs = f.pairs
BY DEF Object, Emptied

LEMMA ReleaseKept ==
    ASSUME Kept, TypeOK', NEW c \in Callers, CallStart(c) \/ CallRelease(c) \/ Release(c)
    PROVE  Kept' /\ (Calls(c) \/ Locks(c) \/ TakesAway(c))
<1>1. /\ c \in Threads /\ c \notin Decoders /\ TypeOK /\ made \in Nat
      /\ cclFFmpeg \in 0..made /\ (cclFFmpeg # 0 => cclFFmpeg \in 1..made)
  <2>1. Cardinality(Callers) \in Nat /\ made \in 0..Cardinality(Callers) /\ cclFFmpeg \in 0..made
    BY ThreadsApart DEF Kept
  <2>2. made \in Nat
    BY <2>1
  <2>3. cclFFmpeg # 0 => cclFFmpeg \in 1..made
    BY <2>1, <2>2
  <2> QED BY <2>1, <2>2, <2>3, ThreadsApart DEF Kept
<1>2. cclFFmpeg # 0 => cclFFmpeg \in Objects
  BY <1>1, Works
<1>3. \A o \in Objects : ffmpeg[o] \in Object
  BY <1>1 DEF TypeOK
<1>4. pc[c] \in {"initMutex", "wait"} => job[c] \in Objects /\ job[c] \in 1..made
  BY Works DEF Kept, Objected
<1> USE DEF At
<1>5. CASE CallStart(c)
  <2>1. cclFFmpeg \in 1..made /\ Enter(c, "enter", cclFFmpeg) /\ UNCHANGED <<made, cclFFmpeg>>
    BY <1>1, <1>5 DEF CallStart, global
  <2>2. Kept' /\ Enters(c, "enter", cclFFmpeg)
    BY <2>1, EnterKept DEF CallerLabel, StartLabel
  <2> QED BY <1>5, <2>1, <2>2 DEF CallStart, Calls, history
<1>6. CASE CallRelease(c)
  <2>1. /\ cclFFmpeg \in 1..made /\ cclFFmpeg \in Objects
        /\ Enter(c, "initMutex", cclFFmpeg) /\ UNCHANGED <<made, cclFFmpeg>>
        /\ ffmpeg' = [ffmpeg EXCEPT ![cclFFmpeg].exit = TRUE]
    BY <1>1, <1>2, <1>6 DEF CallRelease, global
  <2>2. Kept' /\ Enters(c, "initMutex", cclFFmpeg)
    BY <2>1, EnterKept DEF CallerLabel
  <2>3. \A o \in Objects :
          /\ SameInput(o) /\ SamePlayers(o) /\ ffmpeg'[o].holds = ffmpeg[o].holds
          /\ o # cclFFmpeg => ffmpeg'[o].exit = ffmpeg[o].exit
          /\ ffmpeg[o].exit => ffmpeg'[o].exit
    <3>1. \A o \in Objects :
             ffmpeg'[o] = IF o = cclFFmpeg THEN [ffmpeg[o] EXCEPT !.exit = TRUE] ELSE ffmpeg[o]
      BY <1>1, <2>1 DEF TypeOK
    <3>2. \A f \in Object : LET g == [f EXCEPT !.exit = TRUE] IN
             /\ g.format = f.format /\ g.pairs = f.pairs /\ g.players = f.players
             /\ g.javaCall = f.javaCall /\ g.holds = f.holds /\ g.exit
      BY DEF Object
    <3> QED BY <1>3, <3>1, <3>2 DEF SameInput, SamePlayers
  <2> QED BY <1>6, <2>1, <2>2, <2>3 DEF CallRelease, Calls
<1>7. CASE Lock(c)
  <2>1. pc[c] = "initMutex" /\ pc'[c] = "wait" /\ Stays(c)
    BY <1>1, <1>7, Moved DEF Lock, ThreadLabel, CallerLabel, Stays
  <2>2. ffmpeg' = [ffmpeg EXCEPT ![job[c]].holds = {c}]
    BY <1>7 DEF Lock
  <2>3. /\ ffmpeg'[job[c]].holds = {c}
        /\ \A o \in Objects :
              /\ SameInput(o) /\ SamePlayers(o) /\ ffmpeg'[o].exit = ffmpeg[o].exit
              /\ o # job[c] => ffmpeg'[o].holds = ffmpeg[o].holds
    BY <1>1, <1>3, <1>4, <2>1, <2>2 DEF SameInput, SamePlayers, TypeOK, Object
  <2>4. Kept'
    BY <1>1, <1>4, <1>7, <2>1, KeptWhere DEF Lock, global, CallerLabel
  <2> QED BY <1>7, <2>1, <2>3, <2>4 DEF Lock, Locks
<1>8. CASE Take(c)
  <2>1. pc[c] = "wait" /\ pc'[c] = "idle" /\ Stays(c)
    BY <1>1, <1>8, Moved DEF Take, ThreadLabel, CallerLabel, Stays
  <2>2. ffmpeg' = [ffmpeg EXCEPT ![job[c]] = Emptied(ffmpeg[job[c]])]
    BY <1>8 DEF Take, Emptied
  <2>3. /\ ffmpeg'[job[c]] = Emptied(ffmpeg[job[c]])
        /\ \A o \in Objects : o # job[c] => ffmpeg'[o] = ffmpeg[o]
    BY <1>1, <1>4, <2>1, <2>2 DEF TypeOK
  <2>4. /\ ffmpeg'[job[c]].players = 0 /\ ffmpeg'[job[c]].holds = {}
        /\ \A o \in Objects :
              /\ SameInput(o) /\ ffmpeg'[o].exit = ffmpeg[o].exit
              /\ o # job[c] => SamePlayers(o) /\ ffmpeg'[o].holds = ffmpeg[o].holds
    BY <1>3, <1>4, <2>1, <2>3, EmptiedFields DEF SameInput, SamePlayers
  <2>5. Kept'
    BY <1>1, <1>8, <2>1, KeptWhere DEF Take, global, CallerLabel, Objected, StartLabel
  <2> QED BY <1>8, <2>1, <2>4, <2>5 DEF Take, TakesAway
<1> QED BY <1>5, <1>6, <1>7, <1>8 DEF Release

\* Every step is of one of these kinds, and Kept is inductive.
Kind ==
    \/ \E c \in Callers : Prepares(c) /\ (CallPrepared(c) \/ Prepare(c))
    \/ \E c \in Callers : Calls(c) \/ Locks(c) \/ TakesAway(c)
    \/ \E d \in Decoders : Decodes(d)
    \/ \E t \in Threads : Starts(t) /\ (Read(t) \/ Demux(t))

LEMMA Steps == ASSUME Kept, Next PROVE Kept' /\ Kind
<1>1. CASE \E c \in Callers : CallPrepared(c) \/ Prepare(c)
  BY <1>1, PrepareType, PrepareKept DEF Kind
<1>2. CASE \E c \in Callers : CallStart(c) \/ CallRelease(c) \/ Release(c)
  BY <1>2, ReleaseType, ReleaseKept DEF Kind
<1>3. CASE \E d \in Decoders : Opened(d) \/ NotOpened(d) \/ FindStreamInfo(d) \/ Decode(d)
  BY <1>3, DecodeType, DecodesEffect, DecodeKept DEF Kind
<1>4. CASE \E t \in Threads : Read(t) \/ Demux(t)
  BY <1>4, StartType, StartsEffect, StartKept DEF Kind
<1> QED BY <1>1, <1>2, <1>3, <1>4 DEF Next

LEMMA KeptAtFirst == Init => Kept
<1> SUFFICES ASSUME Init PROVE Kept
  OBVIOUS
<1>1. /\ \A c \in Callers : c \in Threads /\ pc[c] = "idle" /\ pc[Decoder(c)] = "none"
      /\ \A d \in Decoders : d \in Threads /\ pc[d] = "none"
      /\ Cardinality(Callers) \in Nat
  BY ThreadsApart DEF Init
<1>2. Fresh \in Object
  BY DEF Fresh, Object
<1>3. TypeOK
  BY <1>2 DEF Init, TypeOK, CallerLabel, DecoderLabel
<1>4. made \in 0..Cardinality(Callers) /\ cclFFmpeg \in 0..made /\ ~(made > 0)
  BY <1>1 DEF Init
<1> QED BY <1>1, <1>3, <1>4 DEF Kept, CallerLabel, DecoderLabel, Objected, StartLabel


\* A thread inside start, past its first label, got there on the object it works
\* for, and moves only by its own steps.
LEMMA Steady ==
    ASSUME Kept, Kind
    PROVE  \A u \in Threads :
              pc'[u] \in StartLabel \ {"enter"} =>
                 /\ pc[u] \in StartLabel /\ Played(u)' = Played(u)
                 /\ pc'[u] = pc[u] \/ (Stays(u) /\ Starts(u) /\ (Read(u) \/ Demux(u)))
<1> SUFFICES ASSUME NEW u \in Threads, pc'[u] \in StartLabel \ {"enter"}
             PROVE  /\ pc[u] \in StartLabel /\ Played(u)' = Played(u)
                    /\ pc'[u] = pc[u] \/ (Stays(u) /\ Starts(u) /\ (Read(u) \/ Demux(u)))
  OBVIOUS
<1>1. u \in Callers \/ u \in Decoders
  BY ThreadsApart
<1>2. \A l \in Preparing \union {"idle", "lock", "initMutex", "wait", "enter"} : l \notin StartLabel \ {"enter"}
  BY DEF Preparing, StartLabel
<1>3. TypeOK
  BY DEF Kept
<1>4. ASSUME NEW c \in Callers, Prepares(c)
      PROVE  pc'[u] = pc[u] /\ Played(u)' = Played(u)
  <2>1. u # c
    BY <1>2, <1>4 DEF Prepares
  <2>2. CASE u = Decoder(c)
    <3>1. pc[u] # "none" /\ u \notin Callers
      BY <1>2, <1>4, <2>2, ThreadsApart DEF Prepares, StartLabel
    <3> QED BY <1>4, <2>2, <3>1 DEF Prepares, Played
  <2>3. CASE u # Decoder(c)
    BY <1>4, <2>1, <2>3 DEF Prepares, Played
  <2> QED BY <2>2, <2>3
<1>5. ASSUME NEW c \in Callers, Calls(c) \/ Locks(c) \/ TakesAway(c)
      PROVE  pc'[u] = pc[u] /\ Played(u)' = Played(u)
  <2>1. u # c
    BY <1>2, <1>5 DEF Calls, Locks, TakesAway, Enters
  <2> QED BY <1>5, <2>1 DEF Calls, Locks, TakesAway, Enters, Stays, Played
<1>6. ASSUME NEW d \in Decoders, Decodes(d)
      PROVE  pc'[u] = pc[u] /\ Played(u)' = Played(u)
  <2>1. u # d
    BY <1>6 DEF Decodes, Follows, StartLabel
  <2>2. u \in Decoders => plays'[u] = plays[u]
    BY <1>3, <1>6, <2>1 DEF Decodes, TypeOK
  <2>3. u \in Decoders => u \notin Callers
    BY ThreadsApart
  <2> QED BY <1>1, <1>6, <2>1, <2>2, <2>3 DEF Decodes, Stays, Played
<1>7. ASSUME NEW t \in Threads, Starts(t), Read(t) \/ Demux(t)
      PROVE  /\ pc[u] \in StartLabel /\ Played(u)' = Played(u)
             /\ pc'[u] = pc[u] \/ (Stays(u) /\ Starts(u) /\ (Read(u) \/ Demux(u)))
  <2>1. Played(u)' = Played(u)
    BY <1>7 DEF Starts, Played
  <2>2. CASE u = t
    BY <1>7, <2>1, <2>2 DEF Starts
  <2>3. CASE u # t
    BY <1>7, <2>1, <2>3 DEF Starts, Stays
  <2> QED BY <2>2, <2>3
<1> QED BY <1>4, <1>5, <1>6, <1>7 DEF Kind

-----------------------------------------------------------------------------
\* Who is inside init_mutex, and who inside libavformat.

LEMMA MutexStep == ASSUME Kept, Kept', MutexInv, Kind PROVE MutexInv'
<1>1. /\ \A c \in Callers : c \in Threads /\ c \notin Decoders
      /\ \A d \in Decoders : d \in Threads /\ d \notin Callers
  BY ThreadsApart
<1>2. /\ \A d \in Decoders : pc[d] # "none" => job[d] \in Objects
      /\ \A c \in Callers : pc[c] = "wait" => job[c] \in Objects
      /\ \A d \in Decoders : pc[d] \in Holding => pc[d] # "none"
  BY Works DEF Objected, Holding, StartLabel
<1>3. ASSUME NEW c \in Callers, Prepares(c) PROVE MutexInv'
  <2>1. \A d \in Decoders : pc'[d] \in Holding => pc[d] \in Holding /\ job'[d] = job[d]
    BY <1>1, <1>3 DEF Prepares, Holding, StartLabel
  <2>2. \A b \in Callers : pc'[b] = "wait" => pc[b] = "wait" /\ job'[b] = job[b]
    BY <1>1, <1>3, ThreadsApart DEF Prepares, Preparing
  <2> QED BY <1>3, <2>1, <2>2 DEF Prepares, MutexInv
<1>4. ASSUME NEW c \in Callers, Calls(c) PROVE MutexInv'
  <2>1. \A u \in Threads : u # c => pc'[u] = pc[u] /\ job'[u] = job[u]
    BY <1>4 DEF Calls, Enters, Stays
  <2>2. pc'[c] # "wait" /\ \A o \in Objects : ffmpeg'[o].holds = ffmpeg[o].holds
    BY <1>4 DEF Calls, Enters
  <2> QED BY <1>1, <1>2, <2>1, <2>2 DEF MutexInv
<1>5. ASSUME NEW c \in Callers, Locks(c) PROVE MutexInv'
  <2>1. \A u \in Threads : u # c => pc'[u] = pc[u]
    BY <1>5 DEF Locks, Stays
  <2>2. job' = job /\ ffmpeg[job[c]].holds = {} /\ ffmpeg'[job[c]].holds = {c}
        /\ \A o \in Objects : o # job[c] => ffmpeg'[o].holds = ffmpeg[o].holds
    BY <1>5 DEF Locks
  <2> QED BY <1>1, <1>2, <2>1, <2>2 DEF MutexInv
<1>6. ASSUME NEW c \in Callers, TakesAway(c) PROVE MutexInv'
  <2>1. \A u \in Threads : u # c => pc'[u] = pc[u]
    BY <1>6 DEF TakesAway, Stays
  <2>2. /\ job' = job /\ pc[c] = "wait" /\ pc'[c] = "idle"
        /\ \A o \in Objects : o # job[c] => ffmpeg'[o].holds = ffmpeg[o].holds
    BY <1>6 DEF TakesAway
  <2>3. ffmpeg[job[c]].holds = {c}
    BY <2>2 DEF MutexInv
  <2> QED BY <1>1, <1>2, <2>1, <2>2, <2>3 DEF MutexInv
<1>7. ASSUME NEW d \in Decoders, Decodes(d) PROVE MutexInv'
  <2>1. /\ \A u \in Threads : u # d => pc'[u] = pc[u]
        /\ job' = job /\ pc[d] # "none"
        /\ \A o \in Objects : o # job[d] => ffmpeg'[o].holds = ffmpeg[o].holds
    BY <1>7 DEF Decodes, Stays, Follows
  <2>2. CASE pc[d] = "lock"
    <3>1. ffmpeg[job[d]].holds = {} /\ ffmpeg'[job[d]].holds = {d}
      BY <1>7, <2>2 DEF Decodes
    <3> QED BY <1>1, <1>2, <2>1, <3>1 DEF MutexInv
  <2>3. CASE pc[d] = "exit"
    <3>1. ffmpeg[job[d]].holds = {d} /\ pc'[d] = "done"
      BY <1>7, <2>3 DEF Decodes, Follows, MutexInv, Holding
    <3> QED BY <1>1, <1>2, <2>1, <3>1 DEF MutexInv, Holding, StartLabel
  <2>4. CASE pc[d] \notin {"lock", "exit"}
    <3>1. ffmpeg'[job[d]].holds = ffmpeg[job[d]].holds /\ pc[d] \in Holding
      BY <1>7, <2>4 DEF Decodes, Follows, Holding
    <3> QED BY <1>1, <1>2, <2>1, <3>1 DEF MutexInv
  <2> QED BY <2>2, <2>3, <2>4
<1>8. ASSUME NEW t \in Threads, Starts(t) PROVE MutexInv'
  <2>1. /\ \A u \in Threads : u # t => pc'[u] = pc[u]
        /\ job' = job /\ pc[t] \in StartLabel /\ pc'[t] # "wait"
        /\ \A o \in Objects : ffmpeg'[o].holds = ffmpeg[o].holds
    BY <1>8 DEF Starts, Stays, StartLabel
  <2>2. t \in Decoders => pc[t] \in Holding
    BY <2>1 DEF Holding
  <2> QED BY <1>1, <1>2, <2>1, <2>2 DEF MutexInv
<1> QED BY <1>3, <1>4, <1>5, <1>6, <1>7, <1>8 DEF Kind

LEMMA ReadStep == ASSUME Kept, ReadInv, Kind PROVE ReadInv'
<1>1. ASSUME NEW u \in Threads, pc'[u] = "read"
      PROVE  /\ Played(u)' = Played(u)
             /\ \/ pc[u] = "read" /\ pc'[u] = pc[u]
                \/ /\ Stays(u)
                   /\ pc[u] = "seekMutex"
                   /\ \A s \in Threads : pc[s] = "read" => Played(s) # Played(u)
  <2>1. Played(u)' = Played(u) /\ (pc'[u] = pc[u] \/ (Stays(u) /\ (Read(u) \/ Demux(u))))
    BY <1>1, Steady DEF StartLabel
  <2>2. CASE pc[u] # "read"
    <3>1. TypeOK /\ (\A label \in ThreadLabel : Goto(u, label) => pc'[u] = label)
      BY Moved DEF Kept
    <3>2. StartLabel \union {"idle", "exit"} \subseteq ThreadLabel
      BY DEF ThreadLabel, CallerLabel, DecoderLabel
    <3>3. ~Read(u) /\ ~Start(u) /\ ~Loop(u) /\ ~Put(u) /\ ~Freep(u) /\ ~FreeOther(u) /\ ~Eof(u)
          /\ ~Complete(u) /\ ~Leave(u)
      BY <1>1, <2>2, <3>1, <3>2
      DEF Read, Start, Loop, Put, Freep, FreeOther, Eof, Complete, Leave, StartLabel, At
    <3> QED BY <1>1, <2>1, <2>2, <3>3 DEF Demux, LockAndRead, At
  <2> QED BY <1>1, <2>1, <2>2
<1> SUFFICES ASSUME NEW t \in Threads, NEW s \in Threads, pc'[t] = "read", pc'[s] = "read",
                    Played(t)' = Played(s)', t # s
             PROVE  FALSE
  BY DEF ReadInv, At
<1>2. CASE pc[t] = "read" /\ pc[s] = "read"
  BY <1>1, <1>2 DEF ReadInv, At
<1>3. CASE pc[t] # "read"
  <2>1. Stays(t) /\ \A r \in Threads : pc[r] = "read" => Played(r) # Played(t)
    BY <1>1, <1>3
  <2>2. pc[s] = "read"
    BY <2>1 DEF Stays
  <2> QED BY <1>1, <2>1, <2>2
<1>4. CASE pc[s] # "read"
  <2>1. Stays(s) /\ \A r \in Threads : pc[r] = "read" => Played(r) # Played(s)
    BY <1>1, <1>4
  <2>2. pc[t] = "read"
    BY <2>1 DEF Stays
  <2> QED BY <1>1, <2>1, <2>2
<1> QED BY <1>2, <1>3, <1>4


-----------------------------------------------------------------------------
\* One object, as long as no two calls of cclPrepared overlap.

\* Steps that are not of cclPrepared leave what Single is about.
SameGlobals ==
    /\ UNCHANGED <<cclJavaCall, made, foreignEnv>>
    /\ \A b \in Callers : pc[b] \in Preparing \/ pc'[b] \in Preparing => pc'[b] = pc[b]
    /\ \A d \in Decoders : pc'[d] # "none" <=> pc[d] # "none"
    /\ misuse \subseteq misuse'

LEMMA OthersSame ==
    ASSUME Kept,
           \/ \E c \in Callers : Calls(c) \/ Locks(c) \/ TakesAway(c)
           \/ \E d \in Decoders : Decodes(d)
           \/ \E t \in Threads : Starts(t)
    PROVE  SameGlobals
<1>1. /\ \A c \in Callers : c \in Threads /\ c \notin Decoders
      /\ \A d \in Decoders : d \in Threads /\ d \notin Callers
  BY ThreadsApart
<1>2. /\ \A l \in {"idle", "initMutex", "wait", "exit"} \union StartLabel : l \notin Preparing
      /\ \A l \in {"exit"} \union StartLabel : l # "none"
  BY DEF Preparing, StartLabel
<1>3. ASSUME NEW c \in Callers, Calls(c) \/ Locks(c) \/ TakesAway(c) PROVE SameGlobals
  <2>1. /\ pc[c] \in {"idle", "initMutex", "wait"} /\ pc'[c] \in {"idle", "enter", "initMutex", "wait"}
        /\ Stays(c)
    BY <1>3 DEF Calls, Locks, TakesAway, Enters
  <2>2. "enter" \in StartLabel
    BY DEF StartLabel
  <2>3. \A b \in Callers : pc[b] \in Preparing \/ pc'[b] \in Preparing => pc'[b] = pc[b]
    BY <1>1, <1>2, <2>1, <2>2 DEF Stays
  <2>4. \A d \in Decoders : pc'[d] = pc[d]
    BY <1>1, <2>1 DEF Stays
  <2> QED BY <1>3, <2>3, <2>4 DEF Calls, Locks, TakesAway, SameGlobals, global, history
<1>4. ASSUME NEW d \in Decoders, Decodes(d) PROVE SameGlobals
  <2>1. Stays(d) /\ pc[d] # "none" /\ pc'[d] # "none"
    BY <1>4 DEF Decodes, Follows
  <2> QED BY <1>1, <1>4, <2>1 DEF Decodes, Stays, SameGlobals
<1>5. ASSUME NEW t \in Threads, Starts(t) PROVE SameGlobals
  <2>1. /\ Stays(t) /\ pc[t] \notin Preparing /\ pc'[t] \notin Preparing
        /\ pc[t] # "none" /\ (t \in Decoders => pc'[t] # "none")
    <3>1. Stays(t) /\ pc[t] \in StartLabel
      BY <1>5 DEF Starts
    <3>2. pc'[t] \in StartLabel \/ (t \in Callers /\ pc'[t] = "idle") \/ pc'[t] = "exit"
      BY <1>5 DEF Starts
    <3> QED BY <1>1, <1>2, <3>1, <3>2
  <2> QED BY <1>1, <1>5, <2>1 DEF Starts, Stays, SameGlobals
<1> QED BY <1>3, <1>4, <1>5

LEMMA SingleOthers == ASSUME Single, SameGlobals PROVE Single'
<1>1. \A b, c \in Callers : pc'[b] \in Preparing /\ pc'[c] \in Preparing => b = c
  BY DEF Single, SameGlobals
<1>2. \A c \in Callers : pc'[c] \in Preparing => pc'[c] = pc[c]
  BY DEF SameGlobals
<1>3. {"newJavaCall", "newFFmpeg", "onLoad", "create", "testFFmpeg"} \subseteq Preparing
  BY DEF Preparing
<1>4. \A c \in Callers :
          /\ pc'[c] \in {"newJavaCall", "newFFmpeg"} => made = 0
          /\ pc'[c] = "newJavaCall" => cclJavaCall = {}
          /\ pc'[c] \in {"onLoad", "create"} => \A d \in Decoders : pc[d] = "none"
          /\ pc'[c] \in {"newFFmpeg", "onLoad"} => cclJavaCall = {c}
          /\ pc'[c] = "testFFmpeg" /\ made = 0 => cclJavaCall = {c}
          /\ pc'[c] \in {"testFFmpeg", "newFFmpeg", "onLoad", "create"} => cclJavaCall # {}
  BY <1>2, <1>3 DEF Single
<1>5. cclJavaCall # {} /\ made = 0 => \E b \in Callers : pc'[b] \in {"testFFmpeg", "newFFmpeg"}
  <2> SUFFICES ASSUME cclJavaCall # {}, made = 0
               PROVE  \E b \in Callers : pc'[b] \in {"testFFmpeg", "newFFmpeg"}
    OBVIOUS
  <2>1. PICK b \in Callers : pc[b] \in {"testFFmpeg", "newFFmpeg"}
    BY DEF Single
  <2>2. pc'[b] = pc[b]
    BY <1>3, <2>1 DEF SameGlobals
  <2> QED BY <2>1, <2>2
<1>6. \A d, e \in Decoders : pc'[d] # "none" /\ pc'[e] # "none" => d = e
  BY DEF Single, SameGlobals
<1>7. \A d \in Decoders : pc[d] = "none" => pc'[d] = "none"
  BY DEF SameGlobals
<1>8. UNCHANGED <<cclJavaCall, made, foreignEnv>>
  BY DEF SameGlobals
<1> QED BY <1>1, <1>4, <1>5, <1>6, <1>7, <1>8 DEF Single

LEMMA SinglePrepare ==
    ASSUME Kept, Kept', Single, NEW c \in Callers, CallPrepared(c) \/ Prepare(c),
           "overlap" \notin misuse'
    PROVE  Single'
<1>1. /\ c \in Threads /\ TypeOK /\ Decoder(c) \in Decoders /\ Decoder(c) \in Threads
      /\ \A b \in Callers : b \in Threads /\ b # Decoder(c) /\ b \notin Decoders
      /\ \A d \in Decoders : d \in Threads /\ d # c
  BY ThreadsApart DEF Kept
<1>2. made = 0 \/ made = 1
  <2>1. Cardinality(Callers) \in Nat /\ made \in 0..Cardinality(Callers) /\ made <= 1
    BY ThreadsApart DEF Kept, Single
  <2> QED BY <2>1
<1>3. made = 0 => cclFFmpeg = 0 /\ \A d \in Decoders : pc[d] = "none"
  <2>1. ASSUME made = 0 PROVE cclFFmpeg = 0
    BY <2>1 DEF Kept
  <2>2. ASSUME made = 0, NEW d \in Decoders, pc[d] # "none" PROVE FALSE
    <3>1. job[d] \in 1..made
      BY <2>2 DEF Kept
    <3> QED BY <2>2, <3>1
  <2> QED BY <2>1, <2>2
<1>4. made = 1 => cclFFmpeg # 0
  BY DEF Kept
<1> USE DEF At, global, history
<1>5. \A label \in ThreadLabel : Goto(c, label) => pc'[c] = label /\ Stays(c)
  BY <1>1, Moved DEF Stays
<1>6. Preparing \union {"idle", "lock"} \subseteq ThreadLabel
  BY DEF Preparing, ThreadLabel, CallerLabel, DecoderLabel
<1>7. \A b \in Callers : b # c /\ pc[c] \in Preparing => pc[b] \notin Preparing
  BY DEF Single
<1>8. Stays(c) => (\A b \in Callers : b # c => pc'[b] = pc[b]) /\ (\A d \in Decoders : pc'[d] = pc[d])
  BY <1>1 DEF Stays
<1>9. CASE CallPrepared(c)
  <2>1. pc[c] = "idle" /\ pc'[c] = "testJavaCall" /\ Stays(c)
    BY <1>5, <1>6, <1>9 DEF CallPrepared, Enter, Preparing
  <2>2. \A b \in Callers : pc[b] \notin Preparing
    BY <1>9 DEF CallPrepared
  <2>3. cclJavaCall # {} => made # 0
    BY <2>2 DEF Single, Preparing
  <2>4. UNCHANGED <<cclJavaCall, made, foreignEnv>>
    BY <1>9 DEF CallPrepared
  <2>5. \A b \in Callers : b # c => pc'[b] \notin Preparing
    BY <1>8, <2>1, <2>2
  <2> QED BY <1>8, <2>1, <2>3, <2>4, <2>5 DEF Single, Preparing
<1>10. CASE TestJavaCall(c)
  <2>1. /\ pc[c] = "testJavaCall" /\ Stays(c)
        /\ pc'[c] = IF cclJavaCall = {} THEN "newJavaCall" ELSE "testFFmpeg"
    BY <1>5, <1>6, <1>10 DEF TestJavaCall, Preparing
  <2>2. \A b \in Callers : b # c => pc'[b] \notin Preparing
    BY <1>7, <1>8, <2>1 DEF Preparing
  <2>3. cclJavaCall # {} => made # 0
    BY <1>7, <2>1 DEF Single, Preparing
  <2>4. UNCHANGED <<cclJavaCall, made, foreignEnv>>
    BY <1>10 DEF TestJavaCall
  <2> QED BY <1>8, <2>1, <2>2, <2>3, <2>4 DEF Single, Preparing
<1>11. CASE NewJavaCall(c)
  <2>1. pc[c] = "newJavaCall" /\ Stays(c) /\ pc'[c] = "testFFmpeg"
    BY <1>5, <1>6, <1>11 DEF NewJavaCall, Preparing
  <2>2. \A b \in Callers : b # c => pc'[b] \notin Preparing
    BY <1>7, <1>8, <2>1 DEF Preparing
  <2>3. cclJavaCall' = {c} /\ UNCHANGED <<made, foreignEnv>>
    BY <1>11 DEF NewJavaCall
  <2> QED BY <1>8, <2>1, <2>2, <2>3 DEF Single, Preparing
<1>12. CASE TestFFmpeg(c)
  <2>1. pc[c] = "testFFmpeg" /\ Stays(c) /\ pc'[c] = IF cclFFmpeg = 0 THEN "newFFmpeg" ELSE "idle"
    BY <1>5, <1>6, <1>12 DEF TestFFmpeg, Preparing
  <2>2. \A b \in Callers : b # c => pc'[b] \notin Preparing
    BY <1>7, <1>8, <2>1 DEF Preparing
  <2>3. UNCHANGED <<cclJavaCall, made, foreignEnv>>
    BY <1>12 DEF TestFFmpeg
  <2>4. made = 0 => cclJavaCall = {c} /\ pc'[c] = "newFFmpeg"
    BY <1>3, <2>1 DEF Single
  <2>5. made # 0 => pc'[c] = "idle"
    BY <1>2, <1>4, <2>1
  <2> QED BY <1>8, <2>1, <2>2, <2>3, <2>4, <2>5 DEF Single, Preparing
<1>13. CASE NewFFmpeg(c)
  <2>1. pc[c] = "newFFmpeg" /\ Stays(c) /\ pc'[c] = "onLoad"
    BY <1>5, <1>6, <1>13 DEF NewFFmpeg, Preparing
  <2>2. \A b \in Callers : b # c => pc'[b] \notin Preparing
    BY <1>7, <1>8, <2>1 DEF Preparing
  <2>3. made = 0 /\ cclJavaCall = {c}
    BY <2>1 DEF Single
  <2>4. made' = 1 /\ UNCHANGED <<cclJavaCall, foreignEnv>>
    BY <1>13, <2>3 DEF NewFFmpeg
  <2>5. \A d \in Decoders : pc'[d] = "none"
    BY <1>3, <1>8, <2>1, <2>3
  <2> QED BY <2>1, <2>2, <2>3, <2>4, <2>5 DEF Single, Preparing
<1>14. CASE OnLoad(c)
  <2>1. pc[c] = "onLoad" /\ Stays(c) /\ pc'[c] = "create"
    BY <1>5, <1>6, <1>14 DEF OnLoad, Preparing
  <2>2. \A b \in Callers : b # c => pc'[b] \notin Preparing
    BY <1>7, <1>8, <2>1 DEF Preparing
  <2>3. UNCHANGED <<cclJavaCall, made>> /\ cclJavaCall = {c} /\ ~foreignEnv'
    BY <1>14, <2>1 DEF OnLoad, Single
  <2>4. made # 0
    BY <1>3, <2>1 DEF Kept
  <2> QED BY <1>8, <2>1, <2>2, <2>3, <2>4 DEF Single, Preparing
<1>15. CASE CreateDecoder(c)
  <2>1. /\ pc[c] = "create" /\ pc'[c] = "idle" /\ pc'[Decoder(c)] = "lock"
        /\ \A u \in Threads : u # c /\ u # Decoder(c) => pc'[u] = pc[u]
    BY <1>1, <1>15 DEF CreateDecoder, TypeOK
  <2>2. \A b \in Callers : pc'[b] \notin Preparing
    BY <1>1, <1>7, <2>1 DEF Preparing
  <2>3. \A d \in Decoders : pc'[d] # "none" => d = Decoder(c)
    BY <1>1, <2>1 DEF Single
  <2>4. UNCHANGED <<cclJavaCall, made, foreignEnv>>
    BY <1>15 DEF CreateDecoder
  <2>5. made # 0
    BY <1>3, <2>1 DEF Kept
  <2> QED BY <2>1, <2>2, <2>3, <2>4, <2>5 DEF Single, Preparing
<1> QED BY <1>9, <1>10, <1>11, <1>12, <1>13, <1>14, <1>15 DEF Prepare


-----------------------------------------------------------------------------
\* Calls in order.

LEMMA MisuseGrows == Kind => misuse \subseteq misuse'
BY DEF Kind, Prepares, Calls, Locks, TakesAway, Decodes, Starts, history

\* Once every preparation is over, it stays so.
LEMMA SettledStays == ASSUME Kept, Kept', Settled, Kind PROVE Settled'
<1>1. /\ \A c \in Callers : c \in Threads /\ c \notin Decoders
      /\ \A d \in Decoders : d \in Threads /\ d \notin Callers
      /\ made \in Nat /\ cclFFmpeg # 0
  <2>1. Cardinality(Callers) \in Nat /\ made \in 0..Cardinality(Callers)
    BY ThreadsApart DEF Kept
  <2>2. made \in Nat /\ cclFFmpeg # 0
    BY <2>1 DEF Kept, Settled
  <2> QED BY <2>2, ThreadsApart
<1> DEFINE Opening == {"lock", "opening", "info", "streams", "onParpared"}
           Made == {"newFFmpeg", "onLoad", "create"}
<1>2. /\ \A b \in Callers : pc[b] \notin Made
      /\ \A d \in Decoders : pc[d] \notin Opening
      /\ made > 0
  BY DEF Settled
<1>3. ASSUME NEW c \in Callers, Prepares(c) PROVE Settled'
  <2>1. pc'[c] \notin Made
    BY <1>1, <1>2, <1>3 DEF Prepares
  <2>2. pc'[Decoder(c)] \notin Opening
    BY <1>2, <1>3, ThreadsApart DEF Prepares
  <2>3. \A u \in Threads : u # c /\ u # Decoder(c) => pc'[u] = pc[u]
    BY <1>3 DEF Prepares
  <2>4. made' > 0
    <3>1. made <= made' /\ made' \in Nat
      BY <1>3 DEF Prepares, Kept, TypeOK
    <3> QED BY <1>1, <1>2, <3>1
  <2> QED BY <1>1, <1>2, <2>1, <2>2, <2>3, <2>4, ThreadsApart DEF Settled
<1>4. ASSUME NEW c \in Callers, Calls(c) \/ Locks(c) \/ TakesAway(c) PROVE Settled'
  <2>1. Stays(c) /\ pc'[c] \notin Made /\ made' = made
    BY <1>4 DEF Calls, Locks, TakesAway, Enters, global
  <2> QED BY <1>1, <1>2, <2>1 DEF Stays, Settled
<1>5. ASSUME NEW d \in Decoders, Decodes(d) PROVE Settled'
  <2>1. Stays(d) /\ pc'[d] \notin Opening /\ made' = made
    BY <1>2, <1>5 DEF Decodes, Follows
  <2> QED BY <1>1, <1>2, <2>1 DEF Stays, Settled
<1>6. ASSUME NEW t \in Threads, Starts(t) PROVE Settled'
  <2>1. Stays(t) /\ pc'[t] \notin Made /\ pc'[t] \notin Opening /\ made' = made
    BY <1>6 DEF Starts, StartLabel
  <2> QED BY <1>1, <1>2, <2>1 DEF Stays, Settled
<1> QED BY <1>3, <1>4, <1>5, <1>6 DEF Kind

\* What a step of start does in an orderly playback.
LEMMA OrderlyStart ==
    ASSUME Kept, Orderly, NEW t \in Threads, Starts(t), Read(t) \/ Demux(t)
    PROVE  /\ fault' \in {fault, "freep", "detach"} /\ misfed' = misfed
           /\ \/ started' = started /\ pc[t] # "enter"
              \/ /\ started' = [started EXCEPT ![t] = ffmpeg[Played(t)].players]
                 /\ misuse' = {} => Played(t) \in prepared
<1>1. pc[t] \in StartLabel /\ Played(t) \in Objects
  BY Works DEF Starts
<1>2. pc[t] # "enter" =>
         /\ ffmpeg[Played(t)].format = "open"
         /\ ffmpeg[Played(t)].players \in {0, started[t]}
  BY <1>1 DEF Orderly
<1> USE DEF At, global, history
<1>3. CASE Start(t)
  BY <1>3 DEF Start
<1>4. CASE Loop(t)
  BY <1>4 DEF Loop
<1>5. CASE LockAndRead(t)
  BY <1>2, <1>5 DEF LockAndRead
<1>6. CASE Read(t)
  BY <1>6 DEF Read
<1>7. CASE Put(t)
  <2>1. /\ misfed' = (misfed \/ ffmpeg[Played(t)].players # started[t])
        /\ ffmpeg[Played(t)].players # 0 /\ pc[t] # "enter"
    BY <1>7 DEF Put
  <2>2. misfed' = misfed
    BY <1>2, <2>1 DEF Kept, TypeOK
  <2> QED BY <1>7, <2>1, <2>2 DEF Put
<1>8. CASE Eof(t) \/ Freep(t) \/ FreeOther(t)
  BY <1>8 DEF Eof, Freep, FreeOther
<1>9. CASE Complete(t)
  BY <1>9 DEF Complete
<1>10. CASE Leave(t)
  BY <1>10 DEF Leave
<1> QED BY <1>3, <1>4, <1>5, <1>6, <1>7, <1>8, <1>9, <1>10 DEF Demux

\* Nothing faults, and no player is fed that was not started.
LEMMA OrderlyFault == ASSUME Kept, Orderly, Kind PROVE fault' \notin {"nullCall", "noInput"} /\ ~misfed'
<1>1. fault \notin {"nullCall", "noInput"} /\ ~misfed
  BY DEF Orderly
<1>2. ASSUME NEW c \in Callers, Prepares(c) \/ Calls(c) \/ Locks(c) \/ TakesAway(c)
      PROVE  fault' = fault /\ misfed' = misfed
  BY <1>2 DEF Prepares, Calls, Locks, TakesAway, history
<1>3. ASSUME NEW d \in Decoders, Decodes(d) PROVE fault' = fault /\ misfed' = misfed
  <2>1. pc[d] \in {"streams", "onParpared"} => ffmpeg[job[d]].javaCall
    <3>1. pc[d] # "none" => job[d] \in Objects
      BY Works
    <3> QED BY <3>1 DEF Orderly, Settled
  <2> QED BY <1>3, <2>1 DEF Decodes
<1>4. ASSUME NEW t \in Threads, Starts(t), Read(t) \/ Demux(t)
      PROVE  fault' \in {fault, "freep", "detach"} /\ misfed' = misfed
  BY <1>4, OrderlyStart
<1> QED BY <1>1, <1>2, <1>3, <1>4 DEF Kind

\* Whoever is told of a preparation, and whoever takes the players away, comes
\* after all preparations.
LEMMA OrderlySettled ==
    ASSUME Kept, Kept', MutexInv, Single, Orderly, Kind, misuse' = {}
    PROVE  /\ \A o \in Objects :
                 /\ o \in prepared' => Settled'
                 /\ ~ffmpeg'[o].javaCall => Settled'
           /\ \A c \in Callers : pc'[c] = "wait" => Settled'
<1>1. /\ \A c \in Callers : c \in Threads /\ c \notin Decoders
      /\ \A d \in Decoders : d \in Threads /\ d \notin Callers
  BY ThreadsApart
<1>2. Settled => Settled'
  BY SettledStays
<1>3. /\ \A o \in Objects : o \in prepared \/ ~ffmpeg[o].javaCall => Settled'
      /\ \A c \in Callers : pc[c] = "wait" => Settled'
  BY <1>2 DEF Orderly
<1>4. ASSUME NEW c \in Callers, Prepares(c) \/ Calls(c)
      PROVE  /\ prepared' = prepared
             /\ \A o \in Objects : ffmpeg'[o].javaCall = ffmpeg[o].javaCall
             /\ \A b \in Callers : pc'[b] = "wait" => pc[b] = "wait"
  <2>1. CASE Prepares(c)
    <3>1. \A b \in Callers : b # c => pc'[b] = pc[b]
      BY <1>1, <2>1, ThreadsApart DEF Prepares
    <3>2. pc'[c] # "wait"
      BY <2>1 DEF Prepares, Preparing
    <3> QED BY <2>1, <3>1, <3>2 DEF Prepares
  <2>2. CASE Calls(c)
    <3>1. Stays(c) /\ pc'[c] # "wait"
      BY <2>2 DEF Calls, Enters
    <3> QED BY <1>1, <2>2, <3>1 DEF Calls, SamePlayers, Stays
  <2> QED BY <1>4, <2>1, <2>2
<1>5. ASSUME NEW c \in Callers, Locks(c) PROVE Settled'
  <2>1. /\ pc[c] = "initMutex" /\ ffmpeg[job[c]].holds = {} /\ ~Unprepared(job[c])
    BY <1>5 DEF Locks
  <2>2. job[c] \in 1..made /\ made <= 1 /\ made \in Nat
    BY <2>1, ThreadsApart DEF Kept, Objected, Single, TypeOK
  <2>3. made = 1 /\ job[c] = 1
    BY <2>2
  <2>4. \A b \in Callers : pc[b] \notin {"newFFmpeg", "onLoad", "create"}
    BY <2>1, <2>3 DEF Single, Unprepared
  <2>5. \A d \in Decoders : pc[d] # "none" => job[d] = 1
    <3>1. \A d \in Decoders : pc[d] # "none" => job[d] \in 1..made
      BY DEF Kept
    <3> QED BY <2>3, <3>1
  <2>6. \A d \in Decoders : pc[d] \notin {"lock", "opening", "info", "streams", "onParpared"}
    <3>1. \A d \in Decoders : pc[d] # "lock"
      BY <2>1, <2>3, <2>5 DEF Unprepared, At
    <3>2. \A d \in Decoders : pc[d] \in Holding => ffmpeg[1].holds = {d} /\ {d} # {}
      BY <2>5 DEF MutexInv, Holding, StartLabel
    <3> QED BY <2>1, <2>3, <3>1, <3>2 DEF Holding
  <2>7. Settled
    BY <2>3, <2>4, <2>6 DEF Settled
  <2> QED BY <1>2, <2>7
<1>6. ASSUME NEW c \in Callers, TakesAway(c) PROVE Settled'
  BY <1>3, <1>6 DEF TakesAway
<1>7. ASSUME NEW d \in Decoders, Decodes(d)
      PROVE  /\ prepared' = prepared \/ Settled'
             /\ \A o \in Objects : ffmpeg'[o].javaCall = ffmpeg[o].javaCall
             /\ \A b \in Callers : pc'[b] = "wait" => pc[b] = "wait"
  <2>1. Stays(d) /\ pc[d] # "none"
    BY <1>7 DEF Decodes, Follows
  <2>2. \A o \in Objects : ffmpeg'[o].javaCall = ffmpeg[o].javaCall
    BY <1>7 DEF Decodes
  <2>3. CASE prepared' # prepared
    <3>1. pc[d] = "onParpared" /\ pc'[d] \in {"enter", "exit"} /\ UNCHANGED made
      BY <1>7, <2>3 DEF Decodes, Follows
    <3>2. \A b \in Callers : pc[b] \notin {"onLoad", "create"}
      BY <2>1 DEF Single
    <3>3. made > 0
      <4>1. job[d] \in 1..made /\ made \in Nat
        BY <2>1 DEF Kept, TypeOK
      <4> QED BY <4>1
    <3>4. \A b \in Callers : pc[b] # "newFFmpeg"
      BY <3>3 DEF Single
    <3>5. \A e \in Decoders : e # d => pc[e] = "none"
      BY <2>1 DEF Single
    <3>6. \A b \in Callers : pc'[b] = pc[b]
      BY <1>1, <2>1 DEF Stays
    <3>7. \A e \in Decoders : e # d => pc'[e] = "none"
      BY <1>1, <2>1, <3>5 DEF Stays
    <3> QED BY <1>1, <2>1, <2>2, <3>1, <3>2, <3>3, <3>4, <3>6, <3>7 DEF Settled
  <2>4. CASE prepared' = prepared
    BY <1>1, <2>1, <2>2, <2>4 DEF Stays
  <2> QED BY <2>3, <2>4
<1>8. ASSUME NEW t \in Threads, Starts(t)
      PROVE  /\ prepared' = prepared
             /\ \A o \in Objects : ffmpeg'[o].javaCall = ffmpeg[o].javaCall
             /\ \A b \in Callers : pc'[b] = "wait" => pc[b] = "wait"
  <2>1. Stays(t) /\ pc'[t] # "wait"
    BY <1>8 DEF Starts, StartLabel
  <2> QED BY <1>1, <1>8, <2>1 DEF Starts, Stays
<1> QED BY <1>3, <1>4, <1>5, <1>6, <1>7, <1>8 DEF Kind

\* An input that is being looked through is open, and stays open once its players
\* are made.
LEMMA OrderlyFormat ==
    ASSUME Kept, Kept', Single, Orderly, Kind
    PROVE  /\ \A o \in Objects : o \in prepared' => ffmpeg'[o].format = "open"
           /\ \A d \in Decoders :
                 pc'[d] \in {"info", "streams", "onParpared"} => ffmpeg'[job'[d]].format = "open"
<1>1. /\ \A c \in Callers : c \in Threads /\ c \notin Decoders
      /\ \A d \in Decoders : d \in Threads /\ d \notin Callers
  BY ThreadsApart
<1>2. /\ \A d \in Decoders : pc[d] # "none" => job[d] \in Objects
      /\ \A o \in Objects : o \in prepared => Settled /\ ffmpeg[o].format = "open"
      /\ \A d \in Decoders : pc[d] \in {"info", "streams", "onParpared"} => ffmpeg[job[d]].format = "open"
  BY Works DEF Orderly
<1> DEFINE Looking == {"info", "streams", "onParpared"}
\* Steps that change no format and bring no decoder there.
<1>3. ASSUME prepared' = prepared, \A o \in Objects : ffmpeg'[o].format = ffmpeg[o].format,
             \A d \in Decoders : pc'[d] \in Looking => pc[d] \in Looking /\ job'[d] = job[d]
      PROVE  /\ \A o \in Objects : o \in prepared' => ffmpeg'[o].format = "open"
             /\ \A d \in Decoders : pc'[d] \in Looking => ffmpeg'[job'[d]].format = "open"
  BY <1>2, <1>3
<1>4. ASSUME NEW c \in Callers, Prepares(c)
      PROVE  /\ prepared' = prepared /\ \A o \in Objects : ffmpeg'[o].format = ffmpeg[o].format
             /\ \A d \in Decoders : pc'[d] \in Looking => pc[d] \in Looking /\ job'[d] = job[d]
  BY <1>1, <1>4, ThreadsApart DEF Prepares
<1>5. ASSUME NEW c \in Callers, Calls(c) \/ Locks(c) \/ TakesAway(c)
      PROVE  /\ prepared' = prepared /\ \A o \in Objects : ffmpeg'[o].format = ffmpeg[o].format
             /\ \A d \in Decoders : pc'[d] \in Looking => pc[d] \in Looking /\ job'[d] = job[d]
  BY <1>1, <1>5 DEF Calls, Locks, TakesAway, Enters, Stays, SameInput
<1>6. ASSUME NEW t \in Threads, Starts(t)
      PROVE  /\ prepared' = prepared /\ \A o \in Objects : ffmpeg'[o].format = ffmpeg[o].format
             /\ \A d \in Decoders : pc'[d] \in Looking => pc[d] \in Looking /\ job'[d] = job[d]
  BY <1>1, <1>6 DEF Starts, Stays, StartLabel
<1>7. ASSUME NEW d \in Decoders, Decodes(d)
      PROVE  /\ \A o \in Objects : o \in prepared' => ffmpeg'[o].format = "open"
             /\ \A e \in Decoders : pc'[e] \in Looking => ffmpeg'[job'[e]].format = "open"
  <2>1. Stays(d) /\ pc[d] # "none" /\ job' = job /\ job[d] \in Objects
        /\ \A o \in Objects : o # job[d] => ffmpeg'[o] = ffmpeg[o]
    BY <1>2, <1>7 DEF Decodes, Follows
  <2>2. \A e \in Decoders : e # d => pc'[e] = "none"
    BY <1>1, <2>1 DEF Single, Stays
  <2>3. pc'[d] \in Looking => ffmpeg'[job[d]].format = "open"
    <3>1. pc[d] \in Looking => ffmpeg'[job[d]].format = ffmpeg[job[d]].format
      BY <1>7 DEF Decodes
    <3>2. pc[d] = "opening" /\ pc'[d] \in Looking => ffmpeg'[job[d]].format = "open"
      BY <1>7 DEF Decodes
    <3>3. pc'[d] \in Looking => pc[d] \in Looking \union {"opening"}
      BY <1>7 DEF Decodes, Follows
    <3> QED BY <1>2, <3>1, <3>2, <3>3
  <2>4. ASSUME NEW o \in Objects, o \in prepared' PROVE ffmpeg'[o].format = "open"
    <3>1. CASE o \in prepared
      <4>1. pc[d] \notin {"lock", "opening"} /\ ffmpeg[o].format = "open"
        BY <1>2, <3>1 DEF Settled
      <4>2. ffmpeg'[job[d]].format = ffmpeg[job[d]].format
        BY <1>7, <4>1 DEF Decodes
      <4> QED BY <2>1, <4>1, <4>2
    <3>2. CASE o \notin prepared
      <4>1. o = job[d] /\ pc[d] = "onParpared"
        BY <1>7, <2>4, <3>2 DEF Decodes
      <4>2. ffmpeg'[job[d]].format = ffmpeg[job[d]].format
        BY <1>7, <4>1 DEF Decodes
      <4> QED BY <1>2, <4>1, <4>2
    <3> QED BY <3>1, <3>2
  <2>5. \A e \in Decoders : pc'[e] \in Looking => e = d
    BY <2>2
  <2> QED BY <2>1, <2>3, <2>4, <2>5
<1> QED BY <1>3, <1>4, <1>5, <1>6, <1>7 DEF Kind

\* Once the preparations are over no players are made.
LEMMA SettledPlayers ==
    ASSUME Kept, Settled, Kind, NEW o \in Objects
    PROVE  ffmpeg'[o].players \in {0, ffmpeg[o].players}
<1>1. ASSUME NEW c \in Callers, Prepares(c) \/ Calls(c) \/ Locks(c) \/ TakesAway(c)
      PROVE  ffmpeg'[o].players \in {0, ffmpeg[o].players}
  BY <1>1 DEF Prepares, Calls, Locks, TakesAway, SamePlayers
<1>2. ASSUME NEW d \in Decoders, Decodes(d)
      PROVE  ffmpeg'[o].players \in {0, ffmpeg[o].players}
  <2>1. pc[d] # "streams"
    BY DEF Settled
  <2> QED BY <1>2, <2>1 DEF Decodes
<1>3. ASSUME NEW t \in Threads, Starts(t)
      PROVE  ffmpeg'[o].players \in {0, ffmpeg[o].players}
  BY <1>3 DEF Starts
<1> QED BY <1>1, <1>2, <1>3 DEF Kind

\* A playback is of an object that was prepared, with the players it started.
LEMMA OrderlyPlays ==
    ASSUME Kept, Orderly, Kind, misuse' = {}
    PROVE  \A u \in Threads :
              pc'[u] \in StartLabel \ {"enter"} =>
                 /\ Played(u)' \in prepared'
                 /\ ffmpeg'[Played(u)'].players \in {0, started'[u]}
<1> SUFFICES ASSUME NEW u \in Threads, pc'[u] \in StartLabel \ {"enter"}
             PROVE  /\ Played(u)' \in prepared'
                    /\ ffmpeg'[Played(u)'].players \in {0, started'[u]}
  OBVIOUS
<1>1. /\ pc[u] \in StartLabel /\ Played(u)' = Played(u) /\ Played(u) \in Objects
      /\ pc'[u] = pc[u] \/ (Stays(u) /\ Starts(u) /\ (Read(u) \/ Demux(u)))
  BY Steady, Works
<1>2. prepared \subseteq prepared'
  BY DEF Kind, Prepares, Calls, Locks, TakesAway, Decodes, Starts
<1>3. started \in [Threads -> Nat]
  BY DEF Kept, TypeOK
<1>4. CASE pc'[u] = pc[u]
  <2>1. /\ Played(u) \in prepared /\ ffmpeg[Played(u)].players \in {0, started[u]}
        /\ Settled
    BY <1>1, <1>4 DEF Orderly
  <2>2. ffmpeg'[Played(u)].players \in {0, ffmpeg[Played(u)].players}
    BY <1>1, <2>1, SettledPlayers
  <2>3. started'[u] = started[u]
    <3>1. ASSUME NEW c \in Callers, Prepares(c) \/ Calls(c) \/ Locks(c) \/ TakesAway(c)
          PROVE  started' = started
      BY <3>1 DEF Prepares, Calls, Locks, TakesAway
    <3>2. ASSUME NEW d \in Decoders, Decodes(d) PROVE started' = started
      BY <3>2 DEF Decodes
    <3>3. ASSUME NEW t \in Threads, Starts(t), Read(t) \/ Demux(t) PROVE started'[u] = started[u]
      <4>1. \/ started' = started
            \/ pc[t] = "enter" /\ started' = [started EXCEPT ![t] = ffmpeg[Played(t)].players]
        BY <3>3 DEF Read, Demux, Start, Loop, LockAndRead, Put, Freep, FreeOther, Eof, Complete, Leave, At
      <4>2. pc[u] # "enter"
        BY <1>4
      <4> QED BY <1>3, <4>1, <4>2
    <3> QED BY <3>1, <3>2, <3>3 DEF Kind
  <2> QED BY <1>1, <1>2, <2>1, <2>2, <2>3
<1>5. CASE Stays(u) /\ Starts(u) /\ (Read(u) \/ Demux(u))
  <2>1. ffmpeg'[Played(u)].players = ffmpeg[Played(u)].players
    BY <1>1, <1>5 DEF Starts
  <2>2. CASE started' = started /\ pc[u] # "enter"
    BY <1>1, <1>2, <2>1, <2>2 DEF Orderly
  <2>3. CASE /\ started' = [started EXCEPT ![u] = ffmpeg[Played(u)].players]
             /\ Played(u) \in prepared
    BY <1>1, <1>2, <1>3, <2>1, <2>3
  <2> QED BY <1>5, <2>2, <2>3, OrderlyStart
<1> QED BY <1>1, <1>4, <1>5

-----------------------------------------------------------------------------
\* What a release has taken.

LEMMA OverStays == ASSUME Kept, Kept', NEW o \in Objects, Over(o), Kind PROVE Over(o)'
<1>1. /\ \A c \in Callers : c \in Threads /\ c \notin Decoders
      /\ \A d \in Decoders : d \in Threads /\ d \notin Callers
  BY ThreadsApart
<1> DEFINE Making == {"lock", "opening", "info", "streams"}
<1>2. /\ o \in 1..made /\ made \in Nat
      /\ cclFFmpeg = o => \A b \in Callers : pc[b] \notin {"onLoad", "create"}
      /\ \A d \in Decoders : job[d] = o => pc[d] \notin Making
  BY DEF Over, Kept, TypeOK
<1>3. ASSUME NEW c \in Callers, CallPrepared(c) \/ Prepare(c) PROVE Over(o)'
  <2>1. c \in Threads /\ TypeOK
    BY <1>1 DEF Kept
  <2> USE DEF At
  <2>2. CASE CallPrepared(c) \/ TestJavaCall(c) \/ NewJavaCall(c) \/ TestFFmpeg(c)
    <3>1. made' = made /\ cclFFmpeg' = cclFFmpeg
      BY <2>2 DEF CallPrepared, TestJavaCall, NewJavaCall, TestFFmpeg, global
    <3>2. /\ pc'[c] \notin {"onLoad", "create"}
          /\ \A u \in Threads : u # c => pc'[u] = pc[u] /\ job'[u] = job[u]
      BY <2>1, <2>2 DEF CallPrepared, TestJavaCall, NewJavaCall, TestFFmpeg, Enter, Goto, TypeOK
    <3> QED BY <1>1, <1>2, <3>1, <3>2 DEF Over
  <2>3. CASE NewFFmpeg(c)
    <3>1. made' = made + 1 /\ cclFFmpeg' = made + 1 /\ cclFFmpeg' # o /\ o \in 1..made'
      BY <1>2, <2>3 DEF NewFFmpeg
    <3>2. \A d \in Decoders : pc'[d] = pc[d] /\ job'[d] = job[d]
      BY <1>1, <2>1, <2>3 DEF NewFFmpeg, Goto, TypeOK
    <3> QED BY <1>2, <3>1, <3>2 DEF Over
  <2>4. CASE OnLoad(c)
    <3>1. made' = made /\ cclFFmpeg' = cclFFmpeg /\ job' = job /\ pc[c] = "onLoad"
      BY <2>4 DEF OnLoad, global
    <3>2. \A u \in Threads : u # c => pc'[u] = pc[u]
      BY <2>1, <2>4 DEF OnLoad, Goto, TypeOK
    <3> QED BY <1>1, <1>2, <3>1, <3>2 DEF Over
  <2>5. CASE CreateDecoder(c)
    <3>1. /\ made' = made /\ cclFFmpeg' = cclFFmpeg /\ pc[c] = "create"
          /\ Decoder(c) \in Threads /\ Decoder(c) # c
      BY <2>5, ThreadsApart DEF CreateDecoder, global
    <3>2. /\ pc'[c] = "idle" /\ job'[Decoder(c)] = cclFFmpeg
          /\ \A u \in Threads : u # c /\ u # Decoder(c) => pc'[u] = pc[u] /\ job'[u] = job[u]
      BY <2>1, <2>5, <3>1 DEF CreateDecoder, TypeOK
    <3>3. cclFFmpeg # o
      BY <1>2, <3>1
    <3> QED BY <1>1, <1>2, <3>1, <3>2, <3>3 DEF Over
  <2> QED BY <1>3, <2>2, <2>3, <2>4, <2>5 DEF Prepare
<1>4. ASSUME NEW c \in Callers, Calls(c) \/ Locks(c) \/ TakesAway(c) PROVE Over(o)'
  <2>1. /\ made' = made /\ cclFFmpeg' = cclFFmpeg /\ pc'[c] \notin {"onLoad", "create"}
        /\ \A u \in Threads : u # c => pc'[u] = pc[u] /\ job'[u] = job[u]
    BY <1>4 DEF Calls, Locks, TakesAway, Enters, Stays, global
  <2> QED BY <1>1, <1>2, <2>1 DEF Over
<1>5. ASSUME NEW d \in Decoders, Decodes(d) PROVE Over(o)'
  <2>1. /\ made' = made /\ cclFFmpeg' = cclFFmpeg /\ job' = job
        /\ \A u \in Threads : u # d => pc'[u] = pc[u]
        /\ pc'[d] \in Making => pc[d] \in Making
    BY <1>5 DEF Decodes, Stays, Follows
  <2> QED BY <1>1, <1>2, <2>1 DEF Over
<1>6. ASSUME NEW t \in Threads, Starts(t) PROVE Over(o)'
  <2>1. /\ made' = made /\ cclFFmpeg' = cclFFmpeg /\ job' = job
        /\ \A u \in Threads : u # t => pc'[u] = pc[u]
        /\ pc'[t] \notin Making /\ pc'[t] \notin {"onLoad", "create"}
    BY <1>6 DEF Starts, Stays, StartLabel
  <2> QED BY <1>1, <1>2, <2>1 DEF Over
<1> QED BY <1>3, <1>4, <1>5, <1>6 DEF Kind

LEMMA TakenStep ==
    ASSUME Kept, Kept', MutexInv, TakenInv, Kind, "earlyRelease" \notin misuse'
    PROVE  TakenInv'
<1>1. /\ \A c \in Callers : c \in Threads /\ c \notin Decoders
      /\ \A d \in Decoders : d \in Threads /\ d \notin Callers
  BY ThreadsApart
<1>2. /\ \A c \in Callers : pc[c] \in {"initMutex", "wait"} => job[c] \in Objects /\ job[c] \in 1..made
      /\ \A d \in Decoders : pc[d] # "none" => job[d] \in Objects
  BY Works DEF Kept, Objected
\* Nobody new waits, and no object is emptied or gets players.
<1>3. SUFFICES ASSUME \/ /\ \A c \in Callers : pc'[c] = "wait" => pc[c] = "wait" /\ job'[c] = job[c]
                         /\ \A o \in Objects : ffmpeg'[o].javaCall = ffmpeg[o].javaCall
                         /\ \A o \in Objects : ~ffmpeg[o].javaCall => ffmpeg'[o].players = ffmpeg[o].players
                      \/ \E c \in Callers : Locks(c) \/ TakesAway(c)
               PROVE  TakenInv'
  <2>1. ASSUME NEW c \in Callers, Prepares(c)
        PROVE  ffmpeg' = ffmpeg /\ \A b \in Callers : pc'[b] = "wait" => pc[b] = "wait" /\ job'[b] = job[b]
    BY <1>1, <2>1, ThreadsApart DEF Prepares, Preparing
  <2>2. ASSUME NEW c \in Callers, Calls(c)
        PROVE  /\ \A b \in Callers : pc'[b] = "wait" => pc[b] = "wait" /\ job'[b] = job[b]
               /\ \A o \in Objects : SamePlayers(o)
    BY <1>1, <2>2 DEF Calls, Enters, Stays, SamePlayers
  <2>3. ASSUME NEW d \in Decoders, Decodes(d)
        PROVE  /\ \A b \in Callers : pc'[b] = "wait" => pc[b] = "wait" /\ job'[b] = job[b]
               /\ \A o \in Objects : ffmpeg'[o].javaCall = ffmpeg[o].javaCall
               /\ \A o \in Objects : ~ffmpeg[o].javaCall => ffmpeg'[o].players = ffmpeg[o].players
    <3>1. pc[d] # "none" /\ job[d] \in Objects
      BY <1>2, <2>3 DEF Decodes, Follows
    <3>2. ~ffmpeg[job[d]].javaCall => pc[d] # "streams"
      BY <3>1 DEF TakenInv, Over
    <3> QED BY <1>1, <2>3, <3>1, <3>2 DEF Decodes, Stays
  <2>4. ASSUME NEW t \in Threads, Starts(t)
        PROVE  /\ \A b \in Callers : pc'[b] = "wait" => pc[b] = "wait" /\ job'[b] = job[b]
               /\ \A o \in Objects : SamePlayers(o)
    BY <1>1, <2>4 DEF Starts, Stays, StartLabel, SamePlayers
  <2> QED BY <1>3, <2>1, <2>2, <2>3, <2>4 DEF Kind, SamePlayers
<1>4. \A o \in Objects : Over(o) => Over(o)'
  BY OverStays
<1>5. CASE /\ \A c \in Callers : pc'[c] = "wait" => pc[c] = "wait" /\ job'[c] = job[c]
           /\ \A o \in Objects : ffmpeg'[o].javaCall = ffmpeg[o].javaCall
           /\ \A o \in Objects : ~ffmpeg[o].javaCall => ffmpeg'[o].players = ffmpeg[o].players
  <2>1. \A c \in Callers : pc'[c] = "wait" => Over(job[c])' 
    <3> SUFFICES ASSUME NEW c \in Callers, pc'[c] = "wait" PROVE Over(job[c])'
      OBVIOUS
    <3>1. pc[c] = "wait" /\ job'[c] = job[c] /\ job[c] \in Objects /\ Over(job[c])
      BY <1>2, <1>5 DEF TakenInv
    <3> QED BY <1>4, <3>1 DEF Over
  <2>2. \A o \in Objects : ~ffmpeg'[o].javaCall => ffmpeg'[o].players = 0 /\ Over(o)'
    BY <1>4, <1>5 DEF TakenInv
  <2> QED BY <2>1, <2>2 DEF TakenInv
<1>6. ASSUME NEW c \in Callers, Locks(c) PROVE TakenInv'
  <2>1. /\ Stays(c) /\ pc[c] = "initMutex" /\ job' = job /\ ~Unprepared(job[c])
        /\ ffmpeg[job[c]].holds = {} /\ \A o \in Objects : SamePlayers(o)
    BY <1>6 DEF Locks
  <2>2. job[c] \in Objects /\ job[c] \in 1..made
    BY <1>2, <2>1
  <2>3. \A d \in Decoders : job[d] = job[c] => pc[d] \notin {"lock", "opening", "info", "streams"}
    BY <2>1 DEF Unprepared, At, MutexInv, Holding
  <2>4. Over(job[c])
    BY <2>1, <2>2, <2>3 DEF Unprepared, Over
  <2>5. \A b \in Callers : pc'[b] = "wait" => Over(job[b])
    BY <1>1, <2>1, <2>4 DEF TakenInv, Stays
  <2>6. \A b \in Callers : pc'[b] = "wait" => Over(job[b])'
    <3> SUFFICES ASSUME NEW b \in Callers, pc'[b] = "wait" PROVE Over(job[b])'
      OBVIOUS
    <3>1. Over(job[b]) /\ job'[b] = job[b] /\ job[b] \in Objects
      BY <2>1, <2>5, Works DEF Over
    <3> QED BY <1>4, <3>1 DEF Over
  <2> QED BY <1>4, <2>1, <2>6 DEF TakenInv, SamePlayers
<1>7. ASSUME NEW c \in Callers, TakesAway(c) PROVE TakenInv'
  <2>1. /\ Stays(c) /\ pc[c] = "wait" /\ pc'[c] = "idle" /\ job' = job
        /\ ffmpeg'[job[c]].players = 0
        /\ \A o \in Objects : o # job[c] => SamePlayers(o)
    BY <1>7 DEF TakesAway
  <2>2. Over(job[c]) /\ job[c] \in Objects
    BY <1>2, <2>1 DEF TakenInv
  <2>3. \A b \in Callers : pc'[b] = "wait" => pc[b] = "wait" /\ job[b] \in Objects /\ Over(job[b])
    BY <1>1, <1>2, <2>1 DEF TakenInv, Stays
  <2>4. \A b \in Callers : pc'[b] = "wait" => Over(job[b])'
    <3> SUFFICES ASSUME NEW b \in Callers, pc'[b] = "wait" PROVE Over(job[b])'
      OBVIOUS
    <3>1. Over(job[b]) /\ job'[b] = job[b] /\ job[b] \in Objects
      BY <2>1, <2>3
    <3> QED BY <1>4, <3>1 DEF Over
  <2>5. \A o \in Objects : ~ffmpeg'[o].javaCall => ffmpeg'[o].players = 0 /\ Over(o)'
    BY <1>4, <2>1, <2>2 DEF TakenInv, SamePlayers
  <2> QED BY <2>4, <2>5 DEF TakenInv
<1> QED BY <1>3, <1>5, <1>6, <1>7

-----------------------------------------------------------------------------
\* The invariant, and what follows from it.

LEMMA LifeAtFirst == Init => LifeInv
<1> SUFFICES ASSUME Init PROVE LifeInv
  OBVIOUS
<1>1. Kept
  BY KeptAtFirst
<1>2. /\ \A c \in Callers : c \in Threads /\ pc[c] = "idle"
      /\ \A d \in Decoders : d \in Threads /\ pc[d] = "none"
      /\ \A t \in Threads : pc[t] \in {"idle", "none"}
  BY ThreadsApart DEF Init
<1>3. \A o \in Objects : ffmpeg[o].players = 0 /\ ~ffmpeg[o].exit /\ ffmpeg[o].javaCall
  BY DEF Init, Fresh
<1>4. TakenInv
  BY <1>2, <1>3 DEF TakenInv
<1>5. MutexInv /\ ReadInv
  BY <1>2 DEF MutexInv, ReadInv, Holding, StartLabel, At
<1>6. Single
  BY <1>2 DEF Init, Single, Preparing
<1>7. Orderly
  BY <1>2, <1>3 DEF Init, Orderly, StartLabel
<1> QED BY <1>1, <1>4, <1>5, <1>6, <1>7 DEF LifeInv

LEMMA LifeStep == LifeInv /\ [Next]_vars => LifeInv'
<1> SUFFICES ASSUME LifeInv, [Next]_vars PROVE LifeInv'
  OBVIOUS
<1>1. CASE Next
  <2>1. Kept /\ Kept' /\ Kind
    BY <1>1, Steps DEF LifeInv
  <2>2. MutexInv' /\ ReadInv'
    BY <2>1, MutexStep, ReadStep DEF LifeInv
  <2>3. misuse \subseteq misuse'
    BY <2>1, MisuseGrows
  <2>4. ASSUME "overlap" \notin misuse' PROVE Single'
    <3>1. Single
      BY <2>3, <2>4 DEF LifeInv
    <3>2. CASE \E c \in Callers : CallPrepared(c) \/ Prepare(c)
      BY <2>1, <2>4, <3>1, <3>2, SinglePrepare
    <3>3. CASE \/ \E c \in Callers : Calls(c) \/ Locks(c) \/ TakesAway(c)
               \/ \E d \in Decoders : Decodes(d)
               \/ \E t \in Threads : Starts(t)
      BY <2>1, <3>1, <3>3, OthersSame, SingleOthers
    <3> QED BY <2>1, <3>2, <3>3 DEF Kind
  <2>5. ASSUME misuse' = {} PROVE Orderly'
    <3>1. Single /\ Orderly /\ MutexInv
      BY <2>3, <2>5 DEF LifeInv
    <3> QED BY <2>1, <2>5, <3>1, OrderlyFault, OrderlySettled, OrderlyFormat, OrderlyPlays DEF Orderly
  <2>6. ASSUME "earlyRelease" \notin misuse' PROVE TakenInv'
    BY <2>1, <2>3, <2>6, TakenStep DEF LifeInv
  <2> QED BY <2>1, <2>2, <2>4, <2>5, <2>6 DEF LifeInv
<1>2. CASE UNCHANGED vars
  <2>1. UNCHANGED <<cclJavaCall, cclFFmpeg, made, ffmpeg, prepared, job, plays, started,
                    calls, fault, misuse, foreignEnv, misfed, pc>>
    BY <1>2 DEF vars, global, history
  <2>2. \A t \in Threads : Played(t)' = Played(t)
    BY <2>1 DEF Played
  <2>3. Kept'
    BY <2>1 DEF LifeInv, Kept, TypeOK
  <2>4. MutexInv' /\ ReadInv' /\ (TakenInv => TakenInv')
    BY <2>1, <2>2 DEF LifeInv, TakenInv, Over, MutexInv, ReadInv, At
  <2>5. Single => Single'
    BY <2>1 DEF Single
  <2>6. Orderly => Orderly'
    BY <2>1, <2>2 DEF Orderly, Settled
  <2> QED BY <2>1, <2>3, <2>4, <2>5, <2>6 DEF LifeInv
<1> QED BY <1>1, <1>2

\* LifeInv is an invariant of the native methods, however they are called: the
\* global object and those made, the threads' labels and what each works for
\* (CCLjni.cpp, CCLFFmpeg.cpp).
THEOREM Living == Spec => []LifeInv
BY LifeAtFirst, LifeStep, PTL DEF Spec

\* A release that waited for the preparation has taken the players for good: no
\* decode thread makes others (CCLFFmpeg.cpp:41, 332, 368).
THEOREM TakenStays == Spec => []TakenForGood
<1>1. LifeInv => TakenForGood
  BY DEF LifeInv, TakenInv, TakenForGood
<1> QED BY <1>1, Living, PTL

\* A release does not take the players of a playback that onParpared started,
\* which holds init_mutex, unless two cclPrepared have made two objects.
THEOREM HandlersKeep == Spec => []HandlerKeepsPlayers
<1>1. ASSUME LifeInv PROVE HandlerKeepsPlayers
  <2> SUFFICES ASSUME NEW c \in Callers, NEW d \in Decoders, pc[c] = "wait", pc[d] \in StartLabel,
                      Played(d) = job[c], "overlap" \notin misuse
               PROVE  FALSE
    BY DEF HandlerKeepsPlayers, At
  <2>1. Kept /\ MutexInv /\ Single
    BY <1>1 DEF LifeInv
  <2>2. c # d /\ Played(d) = plays[d]
    BY ThreadsApart DEF Played
  <2>3. made <= 1 /\ made \in Nat /\ job[d] \in 1..made /\ plays[d] \in 1..made
    BY <2>1 DEF Kept, TypeOK, Single, StartLabel
  <2>4. job[d] = job[c]
    BY <2>2, <2>3
  <2>5. ffmpeg[job[d]].holds = {d} /\ ffmpeg[job[c]].holds = {c}
    BY <2>1 DEF MutexInv, Holding
  <2>6. c \in ffmpeg[job[d]].holds
    BY <2>4, <2>5
  <2> QED BY <2>2, <2>5, <2>6
<1> QED BY <1>1, Living, PTL

\* Called in order, the library does not fault, feeds the players it started and
\* has one thread at a time inside libavformat; without overlapping cclPrepared
\* there is one object, used with the JNIEnv of its thread.
THEOREM OrderIsSafe == Spec => []SafeUnlessMisused
<1>1. ASSUME LifeInv PROVE SafeUnlessMisused
  <2>1. ASSUME misuse = {} PROVE fault \notin {"nullCall", "noInput"} /\ ~misfed /\ OneThreadInFormat
    <3>1. Orderly /\ ReadInv /\ Kept
      BY <1>1, <2>1 DEF LifeInv
    <3>2. ASSUME NEW t \in Threads, NEW s \in Threads, pc[t] = "read", pc[s] \in {"opening", "info"}
          PROVE  FALSE
      <4>1. s \in Decoders
        BY <3>1, <3>2, ThreadsApart DEF Kept, CallerLabel, Preparing, StartLabel
      <4>2. Played(t) \in prepared /\ Played(t) \in Objects
        BY <3>1, <3>2, Works DEF Orderly, StartLabel
      <4>3. Settled
        BY <3>1, <4>2 DEF Orderly
      <4> QED BY <3>2, <4>1, <4>3 DEF Settled
    <3>3. OneThreadInFormat
      BY <3>1, <3>2 DEF OneThreadInFormat, ReadInv, At
    <3> QED BY <3>1, <3>3 DEF Orderly
  <2>2. "overlap" \notin misuse => made <= 1 /\ ~foreignEnv
    BY <1>1 DEF LifeInv, Single
  <2> QED BY <2>1, <2>2 DEF SafeUnlessMisused
<1> QED BY <1>1, Living, PTL

\* Once a preparation has failed, no call prepares anything again: cclPrepared
\* finds the object there.
THEOREM FailureStays == Spec => FailureIsFinal
<1>1. ASSUME LifeInv, [Next]_vars, NEW o \in Objects, Failed(o) PROVE Failed(o)'
  <2>1. CASE Next
    <3>1. Kept /\ Kept' /\ Kind
      BY <1>1, <2>1, Steps DEF LifeInv
    <3>2. made \in Nat /\ made' \in Nat /\ o \in Nat /\ made # 0
      <4>1. o \in 1..Cardinality(Callers) /\ Cardinality(Callers) \in Nat
        BY ThreadsApart
      <4>2. made \in Nat /\ made' \in Nat /\ o <= made
        BY <1>1, <3>1 DEF Kept, TypeOK, Failed
      <4> QED BY <4>1, <4>2
    <3>3. Settled
      <4>1. made > 0
        BY <3>2
      <4> QED BY <1>1, <4>1 DEF Failed, Settled
    <3>4. Settled'
      BY <3>1, <3>3, SettledStays
    <3>5. made <= made'
      BY <3>1, <3>2 DEF Kind, Prepares, Calls, Locks, TakesAway, Decodes, Starts, global
    <3>6. \A d \in Decoders : pc[d] \in {"none", "done"}
      BY <1>1 DEF Failed
    <3>7. prepared' = prepared
      BY <3>1, <3>6 DEF Kind, Prepares, Calls, Locks, TakesAway, Decodes, Starts
    <3>8. \A d \in Decoders : pc'[d] \in {"none", "done"}
      <4>1. ASSUME NEW c \in Callers, Prepares(c), NEW d \in Decoders PROVE pc'[d] \in {"none", "done"}
        <5>1. pc[c] # "create" /\ d \in Threads /\ d # c
          BY <3>3, ThreadsApart DEF Settled
        <5> QED BY <3>6, <4>1, <5>1 DEF Prepares
      <4>2. ASSUME NEW c \in Callers, Calls(c) \/ Locks(c) \/ TakesAway(c), NEW d \in Decoders
            PROVE  pc'[d] \in {"none", "done"}
        <5>1. Stays(c) /\ d \in Threads /\ d # c
          BY <4>2, ThreadsApart DEF Calls, Locks, TakesAway, Enters
        <5> QED BY <3>6, <5>1 DEF Stays
      <4>3. ASSUME NEW e \in Decoders, Decodes(e) PROVE FALSE
        BY <3>6, <4>3 DEF Decodes, Follows
      <4>4. ASSUME NEW t \in Threads, Starts(t), NEW d \in Decoders PROVE pc'[d] \in {"none", "done"}
        <5>1. Stays(t) /\ d \in Threads /\ d # t
          BY <3>6, <4>4, ThreadsApart DEF Starts, StartLabel
        <5> QED BY <3>6, <5>1 DEF Stays
      <4> QED BY <3>1, <4>1, <4>2, <4>3, <4>4 DEF Kind
    <3>9. o <= made'
      BY <1>1, <3>2, <3>5 DEF Failed
    <3> QED BY <1>1, <3>4, <3>7, <3>8, <3>9 DEF Failed, Settled
  <2>2. CASE UNCHANGED vars
    BY <1>1, <2>2 DEF vars, global, Failed
  <2> QED BY <1>1, <2>1, <2>2
<1>2. LifeInv /\ [Next]_vars => [\A o \in Objects : Failed(o) => Failed(o)']_vars
  BY <1>1
<1> QED BY <1>2, Living, PTL DEF Spec, FailureIsFinal
=============================================================================
