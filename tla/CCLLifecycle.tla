---------------------------- MODULE CCLLifecycle ----------------------------
(***************************************************************************)
(* The native methods over the global cclFFmpeg: cclPrepared and cclStart   *)
(* of CCLjni, called by Java threads at any time, with CCLFFmpeg::release,  *)
(* which CCLFFmpeg offers beside them.  Each cclPrepared that finds no      *)
(* object makes one and a thread that runs decodeFFmpeg; a cclStart runs    *)
(* start() on the thread that calls it, which may be the decode thread,     *)
(* inside the onParpared of the Java layer.                                 *)
(*                                                                          *)
(* decodeFFmpeg, start and release are reduced to what they need of each    *)
(* other: the format context, the players, init_mutex and the flags.        *)
(***************************************************************************)
EXTENDS Naturals, FiniteSets

CONSTANTS
    Callers,        \* Java threads
    MaxCalls,       \* bound on the calls of each
    MaxPairs,       \* bound on the pairs of players made for one object
    FreepOutcomes   \* what av_freep(NULL) may do: "fault" in the libavutil shipped

\* No caller is named like a decode thread.
ASSUME LifecycleAssumption ==
    /\ IsFiniteSet(Callers)
    /\ Callers \intersect {<<"decode", c>> : c \in Callers} = {}
    /\ MaxCalls \in Nat /\ MaxPairs \in Nat
    /\ FreepOutcomes \subseteq {"fault", "return"}

Decoder(c) == <<"decode", c>>
Decoders == {Decoder(c) : c \in Callers}
Threads == Callers \union Decoders

\* A caller makes an object only if it finds none.
Objects == 1..Cardinality(Callers)

VARIABLES
    cclJavaCall,    \* the global one: the caller that made it, or nobody
    cclFFmpeg,      \* the global one: an object, or 0 for NULL
    made,           \* the objects made
    ffmpeg,         \* the fields of each object
    prepared,       \* the objects the user was told of by onParpared
    job,            \* the object each thread works for
    plays,          \* the object of a start inside onParpared, for each decode thread
    started,        \* the players whose threads the start on a thread created
    calls,          \* the calls each caller has made
    fault,          \* what killed the process, or "none"
    misuse,         \* history: what was called too early, or by two at once
    foreignEnv,     \* history: a JNIEnv was used on a thread it is not of
    misfed,         \* history: packets went to players that were not started
    pc

global == <<cclJavaCall, cclFFmpeg, made>>
history == <<misuse, foreignEnv, misfed>>
vars == <<global, ffmpeg, prepared, job, plays, started, calls, fault, history, pc>>

\* format is pFormatCtx; players numbers the pair that cclAudio and cclVideo point
\* to, of all the pairs; finished is CCLFFmpeg::exit, exit that of CCLPlayStatus,
\* and holds the threads that hold init_mutex.
Fresh == [format |-> "null", players |-> 0, pairs |-> 0,
          finished |-> FALSE, exit |-> FALSE, javaCall |-> TRUE, holds |-> {}]

Init ==
    /\ cclJavaCall = {} /\ cclFFmpeg = 0 /\ made = 0
    /\ ffmpeg = [o \in Objects |-> Fresh]
    /\ prepared = {}
    /\ job = [t \in Threads |-> 0]
    /\ plays = [d \in Decoders |-> 0]
    /\ started = [t \in Threads |-> 0]
    /\ calls = [c \in Callers |-> 0]
    /\ fault = "none"
    /\ misuse = {} /\ foreignEnv = FALSE /\ misfed = FALSE
    /\ pc = [t \in Threads |-> IF t \in Callers THEN "idle" ELSE "none"]

At(t, label) == pc[t] = label

Goto(t, label) == pc' = [pc EXCEPT ![t] = label]

-----------------------------------------------------------------------------
\* cclPrepared, on caller c.

\* A Java thread enters a native method, which works on object o.
Enter(c, label, o) ==
    /\ At(c, "idle") /\ calls[c] < MaxCalls
    /\ calls' = [calls EXCEPT ![c] = @ + 1]
    /\ job' = [job EXCEPT ![c] = o]
    /\ Goto(c, label)
    /\ UNCHANGED plays

\* The labels inside cclPrepared.
Preparing == {"testJavaCall", "newJavaCall", "testFFmpeg", "newFFmpeg", "onLoad", "create"}

CallPrepared(c) ==
    /\ Enter(c, "testJavaCall", 0)
    /\ misuse' = IF \E b \in Callers : pc[b] \in Preparing THEN misuse \union {"overlap"} ELSE misuse
    /\ UNCHANGED <<global, ffmpeg, prepared, started, fault, foreignEnv, misfed>>

TestJavaCall(c) ==
    /\ At(c, "testJavaCall")
    /\ Goto(c, IF cclJavaCall = {} THEN "newJavaCall" ELSE "testFFmpeg")
    /\ UNCHANGED <<global, ffmpeg, prepared, job, plays, started, calls, fault, history>>

\* It keeps the JNIEnv of the thread that made it.
NewJavaCall(c) ==
    /\ At(c, "newJavaCall") /\ Goto(c, "testFFmpeg")
    /\ cclJavaCall' = {c}
    /\ UNCHANGED <<cclFFmpeg, made, ffmpeg, prepared, job, plays, started, calls, fault, history>>

\* Mutant: a preparation that failed is tried again with a new object.
TestFFmpegRetries(c) ==
    /\ At(c, "testFFmpeg")
    /\ Goto(c, IF cclFFmpeg = 0 \/ (ffmpeg[cclFFmpeg].finished /\ cclFFmpeg \notin prepared)
               THEN "newFFmpeg" ELSE "idle")
    /\ UNCHANGED <<global, ffmpeg, prepared, job, plays, started, calls, fault, history>>

\* With an object there, whatever became of it, the call does nothing.
TestFFmpeg(c) ==
    /\ At(c, "testFFmpeg")
    /\ Goto(c, IF cclFFmpeg = 0 THEN "newFFmpeg" ELSE "idle")
    /\ UNCHANGED <<global, ffmpeg, prepared, job, plays, started, calls, fault, history>>

NewFFmpeg(c) ==
    /\ At(c, "newFFmpeg") /\ Goto(c, "onLoad")
    /\ made < Cardinality(Callers)
    /\ made' = made + 1
    /\ cclFFmpeg' = made + 1
    /\ UNCHANGED <<cclJavaCall, ffmpeg, prepared, job, plays, started, calls, fault, history>>

\* onLoad with WL_THREAD_MAIN uses the JNIEnv that was kept.
OnLoad(c) ==
    /\ At(c, "onLoad") /\ Goto(c, "create")
    /\ foreignEnv' = (foreignEnv \/ cclJavaCall # {c})
    /\ UNCHANGED <<global, ffmpeg, prepared, job, plays, started, calls, fault, misuse, misfed>>

\* preparedFFmpeg of the object that is now the global one.
CreateDecoder(c) ==
    /\ At(c, "create")
    /\ pc' = [pc EXCEPT ![c] = "idle", ![Decoder(c)] = "lock"]
    /\ job' = [job EXCEPT ![Decoder(c)] = cclFFmpeg]
    /\ UNCHANGED <<global, ffmpeg, prepared, plays, started, calls, fault, history>>

Prepare(c) ==
    \/ TestJavaCall(c) \/ NewJavaCall(c) \/ TestFFmpeg(c) \/ NewFFmpeg(c) \/ OnLoad(c)
    \/ CreateDecoder(c)

-----------------------------------------------------------------------------
\* decodeFFmpeg, on thread d.

\* A step of thread t that changes fields of object o.
Update(t, o, label, fields) ==
    /\ ffmpeg' = [ffmpeg EXCEPT ![o] = fields]
    /\ Goto(t, label)
    /\ UNCHANGED <<global, calls, fault, history>>

\* Mutant: init_mutex is not taken.
LockAndAllocUnlocked(d) ==
    /\ At(d, "lock")
    /\ Update(d, job[d], "opening",
              [ffmpeg[job[d]] EXCEPT !.finished = FALSE, !.format = "allocated"])
    /\ UNCHANGED <<prepared, job, plays, started>>

LockAndAlloc(d) ==
    /\ At(d, "lock") /\ ffmpeg[job[d]].holds = {}
    /\ Update(d, job[d], "opening",
              [ffmpeg[job[d]] EXCEPT !.holds = {d}, !.finished = FALSE, !.format = "allocated"])
    /\ UNCHANGED <<prepared, job, plays, started>>

\* Mutant: the user is told as soon as the input is open.
OpenedTells(d) ==
    /\ At(d, "opening")
    /\ Update(d, job[d], "info", [ffmpeg[job[d]] EXCEPT !.format = "open"])
    /\ prepared' = prepared \union {job[d]}
    /\ UNCHANGED <<job, plays, started>>

\* avformat_open_input returns when the network lets it: the interrupt callback
\* is set only after it, so that exit does not cut it short.
Opened(d) ==
    /\ At(d, "opening")
    /\ Update(d, job[d], "info", [ffmpeg[job[d]] EXCEPT !.format = "open"])
    /\ UNCHANGED <<prepared, job, plays, started>>

NotOpened(d) ==
    /\ At(d, "opening")
    /\ Update(d, job[d], "exit", [ffmpeg[job[d]] EXCEPT !.format = "null"])
    /\ UNCHANGED <<prepared, job, plays, started>>

FindStreamInfo(d) ==
    /\ At(d, "info")
    /\ \E label \in {"streams", "exit"} : Update(d, job[d], label, ffmpeg[job[d]])
    /\ UNCHANGED <<prepared, job, plays, started>>

\* A stream: a new pair of players, for the first usable stream and all after
\* it; a codec that does not open ends the preparation.
MakePlayers(d) ==
    /\ At(d, "streams") /\ ffmpeg[job[d]].pairs < MaxPairs
    /\ \E label \in {"streams", "exit"} :
          Update(d, job[d], label,
                 [ffmpeg[job[d]] EXCEPT !.pairs = @ + 1, !.players = ffmpeg[job[d]].pairs + 1])
    /\ UNCHANGED <<prepared, job, plays, started>>

\* Mutant: init_mutex is given up before onParpared.
EndOfStreamsUnlocks(d) ==
    /\ At(d, "streams")
    /\ Update(d, job[d], "onParpared", [ffmpeg[job[d]] EXCEPT !.holds = {}])
    /\ UNCHANGED <<prepared, job, plays, started>>

\* No stream at all is as good as players, an unusable first one is not.
EndOfStreams(d) ==
    /\ At(d, "streams")
    /\ \E label \in {"onParpared"} \union (IF ffmpeg[job[d]].players = 0 THEN {"exit"} ELSE {}) :
          Update(d, job[d], label, ffmpeg[job[d]])
    /\ UNCHANGED <<prepared, job, plays, started>>

\* cclJavaCall is not tested for NULL: by isOnlySoft for a video, and here.
CallNull(d) ==
    /\ \/ At(d, "streams") /\ ffmpeg[job[d]].players # 0
       \/ At(d, "onParpared")
    /\ ~ffmpeg[job[d]].javaCall
    /\ fault' = "nullCall"
    /\ UNCHANGED <<global, ffmpeg, prepared, job, plays, started, calls, history, pc>>

\* The Java onParpared may call cclStart, on this thread.
OnParpared(d) ==
    /\ At(d, "onParpared") /\ ffmpeg[job[d]].javaCall
    /\ prepared' = prepared \union {job[d]}
    /\ \/ Goto(d, "exit") /\ UNCHANGED plays
       \/ Goto(d, "enter") /\ plays' = [plays EXCEPT ![d] = cclFFmpeg]
    /\ UNCHANGED <<global, ffmpeg, job, started, calls, fault, history>>

DecodeExit(d) ==
    /\ At(d, "exit")
    /\ Update(d, job[d], "done", [ffmpeg[job[d]] EXCEPT !.finished = TRUE, !.holds = {}])
    /\ UNCHANGED <<prepared, job, plays, started>>

\* What does not depend on the network.
Decode(d) ==
    \/ LockAndAlloc(d) \/ MakePlayers(d) \/ EndOfStreams(d) \/ CallNull(d)
    \/ OnParpared(d) \/ DecodeExit(d)

-----------------------------------------------------------------------------
\* start, on thread t: a caller or, inside onParpared, a decode thread.

CallStart(c) ==
    /\ cclFFmpeg # 0 /\ Enter(c, "enter", cclFFmpeg)
    /\ UNCHANGED <<global, ffmpeg, prepared, started, fault, history>>

\* The object a start works on.
Played(t) == IF t \in Callers THEN job[t] ELSE plays[t]

\* The threads of the players that are there are created.
Start(t) ==
    /\ At(t, "enter") /\ Goto(t, "loop")
    /\ ffmpeg' = [ffmpeg EXCEPT ![Played(t)].finished = FALSE]
    /\ started' = [started EXCEPT ![t] = ffmpeg[Played(t)].players]
    /\ misuse' = IF Played(t) \in prepared THEN misuse ELSE misuse \union {"earlyStart"}
    /\ UNCHANGED <<global, prepared, job, plays, calls, fault, foreignEnv, misfed>>

Loop(t) ==
    /\ At(t, "loop")
    /\ IF ffmpeg[Played(t)].exit
       THEN Goto(t, "complete") /\ UNCHANGED ffmpeg
       ELSE /\ Goto(t, "seekMutex")
            /\ ffmpeg' = [ffmpeg EXCEPT ![Played(t)].finished = FALSE]
    /\ UNCHANGED <<global, prepared, job, plays, started, calls, fault, history>>

\* seek_mutex keeps a second start out; av_read_frame needs an open context.
LockAndRead(t) ==
    /\ At(t, "seekMutex")
    /\ \A s \in Threads : At(s, "read") => Played(s) # Played(t)
    /\ IF ffmpeg[Played(t)].format = "open"
       THEN Goto(t, "read") /\ UNCHANGED fault
       ELSE fault' = "noInput" /\ UNCHANGED pc
    /\ UNCHANGED <<global, ffmpeg, prepared, job, plays, started, calls, history>>

\* It returns when the network lets it.
Read(t) ==
    /\ At(t, "read")
    /\ \E label \in {"put", "eof"} : Goto(t, label)
    /\ UNCHANGED <<global, ffmpeg, prepared, job, plays, started, calls, fault, history>>

\* A packet for the players that are there now.
Put(t) ==
    /\ At(t, "put") /\ Goto(t, "loop")
    /\ ffmpeg[Played(t)].players # 0
    /\ misfed' = (misfed \/ ffmpeg[Played(t)].players # started[t])
    /\ UNCHANGED <<global, ffmpeg, prepared, job, plays, started, calls, fault, misuse, foreignEnv>>

\* A packet of no player's stream, and the one that the end of the input leaves
\* empty: av_packet_free clears the pointer, and av_freep is given NULL.
Freep(t) ==
    /\ pc[t] \in {"put", "eof"} /\ "fault" \in FreepOutcomes
    /\ fault' = "freep"
    /\ UNCHANGED <<global, ffmpeg, prepared, job, plays, started, calls, history, pc>>

FreeOther(t) ==
    /\ At(t, "put") /\ "return" \in FreepOutcomes
    /\ Goto(t, "loop")
    /\ UNCHANGED <<global, ffmpeg, prepared, job, plays, started, calls, fault, history>>

\* A player that has drained its queue ends the playback, if av_freep lets it.
Eof(t) ==
    /\ At(t, "eof") /\ "return" \in FreepOutcomes
    /\ \/ Goto(t, "loop") /\ UNCHANGED ffmpeg
       \/ /\ ffmpeg[Played(t)].players # 0
          /\ Goto(t, "complete")
          /\ ffmpeg' = [ffmpeg EXCEPT ![Played(t)].exit = TRUE]
    /\ UNCHANGED <<global, prepared, job, plays, started, calls, fault, history>>

\* onComplete with WL_THREAD_CHILD detaches its thread, which is one of Java's: its
\* caller, or the decode thread inside the Java onParpared.  ART aborts on that.
Complete(t) ==
    /\ At(t, "complete")
    /\ \/ Goto(t, "leave") /\ UNCHANGED fault
       \/ /\ ffmpeg[Played(t)].javaCall
          /\ fault' = "detach" /\ UNCHANGED pc
    /\ UNCHANGED <<global, ffmpeg, prepared, job, plays, started, calls, history>>

Leave(t) ==
    /\ At(t, "leave") /\ Goto(t, IF t \in Callers THEN "idle" ELSE "exit")
    /\ ffmpeg' = [ffmpeg EXCEPT ![Played(t)].finished = TRUE]
    /\ UNCHANGED <<global, prepared, job, plays, started, calls, fault, history>>

Demux(t) ==
    \/ Start(t) \/ Loop(t) \/ LockAndRead(t) \/ Put(t) \/ Freep(t) \/ FreeOther(t) \/ Eof(t)
    \/ Complete(t) \/ Leave(t)

-----------------------------------------------------------------------------
\* release, on caller c; what its players' threads do meanwhile is in CCLTeardown.

CallRelease(c) ==
    /\ cclFFmpeg # 0 /\ Enter(c, "initMutex", cclFFmpeg)
    /\ ffmpeg' = [ffmpeg EXCEPT ![cclFFmpeg].exit = TRUE]
    /\ UNCHANGED <<global, prepared, started, fault, misuse, foreignEnv, misfed>>

\* A thread that has not begun to prepare object o.
Unprepared(o) ==
    \/ \E c \in Callers : pc[c] \in {"onLoad", "create"}
    \/ \E d \in Decoders : At(d, "lock") /\ job[d] = o

Lock(c) ==
    /\ At(c, "initMutex") /\ ffmpeg[job[c]].holds = {}
    /\ Goto(c, "wait")
    /\ ffmpeg' = [ffmpeg EXCEPT ![job[c]].holds = {c}]
    /\ misuse' = IF Unprepared(job[c]) THEN misuse \union {"earlyRelease"} ELSE misuse
    /\ UNCHANGED <<global, prepared, job, plays, started, calls, fault, foreignEnv, misfed>>

\* The wait for the flag ends, at the latest when it has set the flag itself.
Take(c) ==
    /\ At(c, "wait") /\ Goto(c, "idle")
    /\ ffmpeg' = [ffmpeg EXCEPT ![job[c]].finished = TRUE, ![job[c]].players = 0,
                                ![job[c]].javaCall = FALSE, ![job[c]].holds = {}]
    /\ UNCHANGED <<global, prepared, job, plays, started, calls, fault, history>>

Release(c) == Lock(c) \/ Take(c)

-----------------------------------------------------------------------------
\* After a fault the process is gone.
Next ==
    /\ fault = "none"
    /\ \/ \E c \in Callers :
             \/ CallPrepared(c) \/ Prepare(c)
             \/ CallStart(c)
             \/ CallRelease(c) \/ Release(c)
       \/ \E d \in Decoders : Opened(d) \/ NotOpened(d) \/ FindStreamInfo(d) \/ Decode(d)
       \/ \E t \in Threads : Read(t) \/ Demux(t)

Spec == Init /\ [][Next]_vars

-----------------------------------------------------------------------------
StartLabel == {"enter", "loop", "seekMutex", "read", "put", "eof", "complete", "leave"}
CallerLabel == {"idle", "initMutex", "wait"} \union Preparing \union StartLabel
DecoderLabel == {"none", "lock", "opening", "info", "streams", "onParpared", "exit", "done"}
                    \union StartLabel

Object == [format : {"null", "allocated", "open"}, players : Nat, pairs : Nat,
           finished : BOOLEAN, exit : BOOLEAN, javaCall : BOOLEAN, holds : SUBSET Threads]

TypeOK ==
    /\ cclJavaCall \in SUBSET Callers
    /\ cclFFmpeg \in Nat /\ made \in Nat
    /\ ffmpeg \in [Objects -> Object]
    /\ prepared \in SUBSET Objects
    /\ job \in [Threads -> Nat] /\ plays \in [Decoders -> Nat] /\ started \in [Threads -> Nat]
    /\ calls \in [Callers -> Nat]
    /\ fault \in {"none", "nullCall", "noInput", "freep", "detach"}
    /\ misuse \in SUBSET {"overlap", "earlyStart", "earlyRelease"}
    /\ foreignEnv \in BOOLEAN /\ misfed \in BOOLEAN
    /\ pc \in [Threads -> CallerLabel \union DecoderLabel]

\* Called as the Java layer may be expected to call it (no two cclPrepared at once,
\* cclStart after onParpared, release not before the preparation has begun), the
\* library does not fault over a missing object; the demuxer fills the queues of the
\* players whose threads it created, although a preparation makes several pairs; and
\* one thread at a time is inside libavformat for an object, where seek_mutex keeps
\* starts from each other and nothing but the order of calls a start from the
\* preparation.
OneThreadInFormat ==
    \A t, s \in Threads :
        /\ At(t, "read") /\ At(s, "read") /\ Played(t) = Played(s) => t = s
        /\ At(t, "read") => ~(pc[s] \in {"opening", "info"} /\ job[s] = Played(t))

SafeUnlessMisused ==
    /\ misuse = {} => fault \notin {"nullCall", "noInput"} /\ ~misfed /\ OneThreadInFormat
    /\ "overlap" \notin misuse => made <= 1 /\ ~foreignEnv

\* An object whose preparation has failed: all that was to come has come.
Failed(o) ==
    /\ o <= made /\ o \notin prepared
    /\ \A c \in Callers : pc[c] \notin {"newFFmpeg", "onLoad", "create"}
    /\ \A d \in Decoders : pc[d] \in {"none", "done"}

\* A preparation that has failed is final: no later call prepares anything, as
\* cclPrepared finds the object there (CCLjni.cpp:40).
FailureIsFinal ==
    [][\A o \in Objects : Failed(o) => Failed(o)']_vars

\* What a release has taken stays taken: unless it came before the preparation had
\* begun, no decode thread makes players afterwards, which nobody would free.
TakenForGood ==
    "earlyRelease" \notin misuse =>
        \A o \in Objects : ~ffmpeg[o].javaCall => ffmpeg[o].players = 0

\* A playback that onParpared has started holds init_mutex: no release takes the
\* players from it, whatever its waits.
HandlerKeepsPlayers ==
    \A c \in Callers, d \in Decoders :
        At(c, "wait") /\ pc[d] \in StartLabel /\ Played(d) = job[c] => "overlap" \in misuse

=============================================================================
