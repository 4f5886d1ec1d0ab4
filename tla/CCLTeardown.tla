---------------------------- MODULE CCLTeardown ----------------------------
(***************************************************************************)
(* CCLFFmpeg::release with CCLAudio::realease and CCLVideo::release, and    *)
(* the threads it takes the players away from.  No thread is joined.  The   *)
(* release waits for flags instead: CCLFFmpeg::exit for the demuxer, isExit *)
(* for a player; after a number of sleeps it sets the flag itself and goes  *)
(* on.  The threads are reduced to what they touch of a player and to the   *)
(* flags; whether a queue is empty is open.                                 *)
(*                                                                          *)
(* Time: a wait is Patient if it outlasts whatever runs, and gives up only  *)
(* when every other thread has ended or cannot go on by itself.             *)
(***************************************************************************)
EXTENDS Naturals, Sequences

CONSTANTS
    Layouts,        \* the sets of players decodeFFmpeg may have made
    Releasers,      \* threads that call release
    Patient         \* whether the capped waits outlast whatever runs

Players == {"audio", "video"}

ASSUME TeardownAssumption ==
    /\ Layouts \subseteq SUBSET Players
    /\ Releasers \intersect (Players \union {"decode", "demux"}) = {}
    /\ Patient \in BOOLEAN

Threads == {"decode", "demux"} \union Players \union Releasers

\* What a release takes away from a player: of "status" and "calls" it clears the
\* pointers, to CCLPlayStatus and to CCLJavaCall, the rest it destroys.
Parts(p) == {"queue", "codec", "status", "object"}
                \union (IF p = "audio" THEN {"output"} ELSE {"calls"})

PartNames == Parts("audio") \union Parts("video")

VARIABLES
    layout,         \* the players made
    exit,           \* CCLPlayStatus::exit
    finished,       \* CCLFFmpeg::exit
    isExit,         \* isExit of each player
    alive,          \* the parts that may be used
    known,          \* the players whose pointer in CCLFFmpeg is not NULL
    javaCall,       \* whether CCLFFmpeg::cclJavaCall is not NULL
    init_mutex,     \* the threads that hold it: at most one
    victim,         \* the player its holder is taking away
    fault,          \* "deleted": a thread used what was gone; "clock": the log
                    \* line of the video without an audio
    expired,        \* history: the threads waits gave up before, and where they were
    overtaken,      \* history: the running threads a wait passed first
    overwritten,    \* history: the preparation set finished after start was called
    pc

flags == <<exit, finished, isExit>>
memory == <<alive, known, javaCall>>
lock == <<init_mutex, victim>>
history == <<expired, overtaken, overwritten>>
vars == <<layout, flags, memory, lock, fault, history, pc>>

\* The decode thread has called onParpared and holds init_mutex: start may be
\* called from now on.  Both flags of the video start as TRUE; isExit2 stays so without codecFrame.
Init ==
    /\ layout \in Layouts
    /\ exit = FALSE /\ finished = FALSE
    /\ isExit = [p \in Players |-> p = "video"]
    /\ alive = {u \in layout \X PartNames : u[2] \in Parts(u[1])}
    /\ known = layout
    /\ javaCall = TRUE
    /\ init_mutex = {"decode"} /\ victim = "audio"
    /\ fault = "none"
    /\ expired = {} /\ overtaken = {} /\ overwritten = FALSE
    /\ pc = [t \in Threads |-> IF t \in Players THEN "none"
                               ELSE IF t = "decode" THEN "prepared" ELSE "idle"]

At(t, label) == pc[t] = label

Goto(t, label) == pc' = [pc EXCEPT ![t] = label]

\* A thread uses parts of players and goes on, if they are all there.
Use(parts, next) ==
    /\ \/ parts \subseteq alive /\ pc' = next /\ UNCHANGED fault
       \/ ~(parts \subseteq alive) /\ fault' = "deleted" /\ UNCHANGED pc
    /\ UNCHANGED <<layout, memory, lock, history>>

\* Parts of a player whose pointer CCLFFmpeg tests for NULL before it goes on.
IfKnown(p, parts) == IF p \in known THEN {p} \X parts ELSE {}

\* A signal on the queue of player p.
Woken(p) == IF p \in known /\ pc[p] = "asleep" THEN "get" ELSE pc[p]

-----------------------------------------------------------------------------
\* The end of decodeFFmpeg.
DecodeExit ==
    /\ At("decode", "prepared") /\ Goto("decode", "unlocks")
    /\ finished' = TRUE
    /\ overwritten' = (pc["demux"] \notin {"idle", "enter", "done"})
    /\ UNCHANGED <<layout, exit, isExit, memory, lock, fault, expired, overtaken>>

DecodeUnlock ==
    /\ At("decode", "unlocks") /\ Goto("decode", "done")
    /\ init_mutex' = {}
    /\ UNCHANGED <<layout, flags, memory, victim, fault, history>>

-----------------------------------------------------------------------------
\* CCLFFmpeg::start, on the thread that calls it.

Call ==
    /\ At("demux", "idle") /\ Goto("demux", "enter")
    /\ UNCHANGED <<layout, flags, memory, lock, fault, history>>

\* Mutant: start does not take back the flag the preparation left set.
EnterFinished ==
    /\ At("demux", "enter") /\ Goto("demux", "playAudio")
    /\ UNCHANGED <<layout, flags, memory, lock, fault, history>>

Enter ==
    /\ At("demux", "enter") /\ Goto("demux", "playAudio")
    /\ finished' = FALSE
    /\ UNCHANGED <<layout, exit, isExit, memory, lock, fault, history>>

\* pthread_create is given the player.
Play(label, p, first, next) ==
    /\ At("demux", label)
    /\ Use(IfKnown(p, {"object"}),
           [pc EXCEPT !["demux"] = next, ![p] = IF p \in known THEN first ELSE @])
    /\ UNCHANGED flags

Loop ==
    /\ At("demux", "loop")
    /\ Goto("demux", IF exit THEN "complete" ELSE "again")
    /\ UNCHANGED <<layout, flags, memory, lock, fault, history>>

\* A pause sends the loop back to its head.
Again ==
    /\ At("demux", "again")
    /\ finished' = FALSE
    /\ \E to \in {"audioSize", "loop"} : Goto("demux", to)
    /\ UNCHANGED <<layout, exit, isExit, memory, lock, fault, history>>

\* A full queue sends the loop back to its head.
Size(label, p, next) ==
    /\ At("demux", label)
    /\ \E to \in {next, "loop"} : Use(IfKnown(p, {"object", "queue"}), [pc EXCEPT !["demux"] = to])
    /\ UNCHANGED flags

\* av_read_frame.  The packet's stream is compared with that of the audio first,
\* then with that of the video; during a seek it is not looked at.
Read ==
    /\ At("demux", "read")
    /\ \/ \E to \in {"putAudio", "putVideo"} :
             Use(IfKnown("audio", {"object"}), [pc EXCEPT !["demux"] = to])
       \/ Use(known \X {"object"}, [pc EXCEPT !["demux"] = "loop"])
       \/ \E to \in {"loop", "eof"} : Use({}, [pc EXCEPT !["demux"] = to])
    /\ UNCHANGED flags

\* The put wakes a player that sleeps on its queue.
Put(label, p) ==
    /\ At("demux", label)
    /\ Use(IfKnown(p, {"object", "queue"}), [pc EXCEPT !["demux"] = "loop", ![p] = Woken(p)])
    /\ UNCHANGED flags

\* At the end of the input the sizes are looked at, and exit may be raised.
Eof ==
    /\ At("demux", "eof")
    /\ \E to \in {"complete", "loop"} :
          /\ Use(known \X {"object", "queue"}, [pc EXCEPT !["demux"] = to])
          /\ exit' = (exit \/ (to = "complete" /\ fault' = "none"))
    /\ UNCHANGED <<finished, isExit>>

\* onComplete through cclJavaCall, which is tested for NULL first.
Complete ==
    /\ At("demux", "complete")
    /\ Goto("demux", IF javaCall THEN "onComplete" ELSE "leave")
    /\ UNCHANGED <<layout, flags, memory, lock, fault, history>>

OnComplete ==
    /\ At("demux", "onComplete")
    /\ IF javaCall THEN Goto("demux", "leave") /\ UNCHANGED fault
                   ELSE fault' = "deleted" /\ UNCHANGED pc
    /\ UNCHANGED <<layout, flags, memory, lock, history>>

Leave ==
    /\ At("demux", "leave") /\ Goto("demux", "done")
    /\ finished' = TRUE
    /\ UNCHANGED <<layout, exit, isExit, memory, lock, fault, history>>

Demux ==
    \/ Call \/ Enter \/ Loop \/ Again \/ Read \/ Eof \/ Complete \/ OnComplete \/ Leave
    \/ Play("playAudio", "audio", "open", "playVideo")
    \/ Play("playVideo", "video", "loop", "loop")
    \/ Size("audioSize", "audio", "videoSize") \/ Size("videoSize", "video", "read")
    \/ Put("putAudio", "audio") \/ Put("putVideo", "video")

-----------------------------------------------------------------------------
\* getPcmData and decodVideo, with codecType 1; p is the player and its thread.

UsePlayer(p, parts, next) == Use({p} \X parts, [pc EXCEPT ![p] = next])

Open ==
    /\ At("audio", "open") /\ UsePlayer("audio", {"object", "output"}, "loop")
    /\ UNCHANGED flags

PlayerLoop(p) ==
    /\ At(p, "loop") /\ UsePlayer(p, {"object", "status"}, IF exit THEN "leave" ELSE "mark")
    /\ UNCHANGED flags

Mark(p) ==
    /\ At(p, "mark") /\ UsePlayer(p, {"object"}, "work")
    /\ isExit' = [isExit EXCEPT ![p] = FALSE]
    /\ UNCHANGED <<exit, finished>>

\* A paused, seeking or starved player begins anew; an audio goes on with a
\* packet its decoder still works on.
Work(p) ==
    /\ At(p, "work")
    /\ \E next \in {"loop", "get"} \union (IF p = "audio" THEN {"use"} ELSE {}) :
          UsePlayer(p, Parts(p) \ {"codec", "output"}, next)
    /\ UNCHANGED flags

\* getAvpacket: with exit set it returns an empty packet, else it may find the
\* queue empty and wait, in a step of its own.
Get(p) ==
    /\ At(p, "get")
    /\ \E next \in {"use"} \union (IF exit THEN {} ELSE {"waits"}) :
          UsePlayer(p, {"object", "queue"}, next)
    /\ UNCHANGED flags

Wait(p) ==
    /\ At(p, "waits") /\ UsePlayer(p, {"queue"}, "asleep")
    /\ UNCHANGED flags

SpuriousWake(p) ==
    /\ At(p, "asleep") /\ Goto(p, "get")
    /\ UNCHANGED <<layout, flags, memory, lock, fault, history>>

\* The decoder may give a frame, with which getPcmData returns.
UseAudio ==
    /\ At("audio", "use")
    /\ \E next \in {"loop", "leave"} : UsePlayer("audio", {"object", "status", "codec"}, next)
    /\ UNCHANGED flags

\* The log line reads the clock of the audio.
UseVideo ==
    /\ At("video", "use") /\ "audio" \in layout
    /\ Use({<<"audio", "object">>, <<"video", "object">>, <<"video", "calls">>},
           [pc EXCEPT !["video"] = "loop"])
    /\ UNCHANGED flags

UseVideoAlone ==
    /\ At("video", "use") /\ "audio" \notin layout
    /\ fault' = "clock"
    /\ UNCHANGED <<layout, flags, memory, lock, history, pc>>

\* The audio's callback writes pcmsize; only the video sets isExit.
LeavePlayer(p) ==
    /\ At(p, "leave") /\ UsePlayer(p, {"object"}, "done")
    /\ isExit' = [isExit EXCEPT ![p] = @ \/ p = "video"]
    /\ UNCHANGED <<exit, finished>>

Player(p) ==
    PlayerLoop(p) \/ Mark(p) \/ Work(p) \/ Get(p) \/ Wait(p) \/ SpuriousWake(p) \/ LeavePlayer(p)

-----------------------------------------------------------------------------
\* CCLFFmpeg::release; r is the thread that calls it.

Stop(r) ==
    /\ At(r, "idle") /\ Goto(r, "lock")
    /\ exit' = TRUE
    /\ UNCHANGED <<layout, finished, isExit, memory, lock, fault, history>>

\* Mutant: init_mutex is not taken.
LockNothing(r) ==
    /\ At(r, "lock") /\ Goto(r, "waitDemux")
    /\ victim' = "audio"
    /\ UNCHANGED <<layout, flags, memory, init_mutex, fault, history>>

Lock(r) ==
    /\ At(r, "lock") /\ init_mutex = {} /\ Goto(r, "waitDemux")
    /\ init_mutex' = {r}
    /\ victim' = "audio"
    /\ UNCHANGED <<layout, flags, memory, fault, history>>

\* A wait is over: the threads it was for that may still run are overtaken.
Running(threads) == {<<t, pc[t]>> : t \in {u \in threads : pc[u] \notin {"none", "done"}}}

Pass(r, threads, next) ==
    /\ Goto(r, next)
    /\ overtaken' = IF overtaken = {} THEN Running(threads) ELSE overtaken
    /\ UNCHANGED <<layout, flags, memory, lock, fault, expired, overwritten>>

WaitDemux(r) ==
    /\ At(r, "waitDemux") /\ finished /\ Pass(r, {"demux"}, "notice")

\* The threads of the players that use a player.
Users(p) == IF p = "audio" THEN Players ELSE {"video"}

\* A thread that has ended, was not started, sleeps or waits for the network.
Stuck == {"idle", "none", "done", "asleep", "read"}

\* A wait is given up.
GiveUp(threads) ==
    expired' = IF overtaken = {} THEN expired \union {<<t, pc[t]>> : t \in threads} ELSE expired

MayExpire == Patient => \A t \in {"demux"} \union Players : pc[t] \in Stuck

ExpireDemux(r) ==
    /\ At(r, "waitDemux") /\ ~finished /\ MayExpire
    /\ finished' = TRUE
    /\ GiveUp({"demux"})
    /\ UNCHANGED <<layout, exit, isExit, memory, lock, fault, overtaken, overwritten, pc>>

\* noticeThread, if the player is there.
Notice(r) ==
    /\ At(r, "notice") /\ victim \in known
    /\ pc' = [pc EXCEPT ![r] = "wait", ![victim] = Woken(victim)]
    /\ UNCHANGED <<layout, flags, memory, lock, fault, history>>

\* The video comes after the audio.
NextVictim(r) ==
    /\ victim' = "video"
    /\ Goto(r, IF victim = "audio" THEN "notice" ELSE "javaCall")

NoVictim(r) ==
    /\ At(r, "notice") /\ victim \notin known /\ NextVictim(r)
    /\ UNCHANGED <<layout, flags, memory, init_mutex, fault, history>>

WaitPlayer(r) ==
    /\ At(r, "wait") /\ isExit[victim] /\ Pass(r, Users(victim), "drain")

\* Mutant: the flag that is set is not the one the wait tests.
ExpirePlayerUnset(r) ==
    /\ At(r, "wait") /\ ~isExit[victim] /\ MayExpire
    /\ GiveUp(Users(victim))
    /\ UNCHANGED <<layout, flags, memory, lock, fault, overtaken, overwritten, pc>>

ExpirePlayer(r) ==
    /\ At(r, "wait") /\ ~isExit[victim] /\ MayExpire
    /\ isExit' = [isExit EXCEPT ![victim] = TRUE]
    /\ GiveUp(Users(victim))
    /\ UNCHANGED <<layout, exit, finished, memory, lock, fault, overtaken, overwritten, pc>>

\* CCLQueue::release signals once more; its clearing needs the queue's mutex,
\* which a getter about to wait still holds.
Drain(r) ==
    /\ At(r, "drain")
    /\ pc' = [pc EXCEPT ![r] = "clear", ![victim] = Woken(victim)]
    /\ UNCHANGED <<layout, flags, memory, lock, fault, history>>

Clear(r) ==
    /\ At(r, "clear") /\ pc[victim] # "waits" /\ Goto(r, "queue")
    /\ UNCHANGED <<layout, flags, memory, lock, fault, history>>

After(part) ==
    CASE part = "queue" -> IF victim = "audio" THEN "output" ELSE "calls"
      [] part \in {"output", "calls"} -> "codec"
      [] part = "codec" -> "status"
      [] part = "status" -> "object"
      [] part = "object" -> "forget"

\* Mutant: the codec is closed and not freed.
FreeNoCodec(r) ==
    /\ pc[r] \in PartNames
    /\ \/ /\ <<victim, pc[r]>> \in alive
          /\ Goto(r, After(pc[r]))
          /\ alive' = IF pc[r] = "codec" THEN alive ELSE alive \ {<<victim, pc[r]>>}
          /\ UNCHANGED fault
       \/ /\ <<victim, pc[r]>> \notin alive
          /\ fault' = "deleted"
          /\ UNCHANGED <<pc, alive>>
    /\ UNCHANGED <<layout, flags, known, javaCall, lock, history>>

\* The parts go one after the other, the queue first and the object last.
Free(r) ==
    /\ pc[r] \in PartNames
    /\ \/ /\ <<victim, pc[r]>> \in alive
          /\ Goto(r, After(pc[r]))
          /\ alive' = alive \ {<<victim, pc[r]>>}
          /\ UNCHANGED fault
       \/ /\ <<victim, pc[r]>> \notin alive
          /\ fault' = "deleted"
          /\ UNCHANGED <<pc, alive>>
    /\ UNCHANGED <<layout, flags, known, javaCall, lock, history>>

Forget(r) ==
    /\ At(r, "forget") /\ NextVictim(r)
    /\ known' = known \ {victim}
    /\ UNCHANGED <<layout, flags, alive, javaCall, init_mutex, fault, history>>

ClearJavaCall(r) ==
    /\ At(r, "javaCall") /\ Goto(r, "unlock")
    /\ javaCall' = FALSE
    /\ UNCHANGED <<layout, flags, alive, known, lock, fault, history>>

Unlock(r) ==
    /\ At(r, "unlock") /\ Goto(r, "done")
    /\ init_mutex' = {}
    /\ UNCHANGED <<layout, flags, memory, victim, fault, history>>

Release(r) ==
    \/ Lock(r) \/ WaitDemux(r) \/ ExpireDemux(r) \/ Notice(r) \/ NoVictim(r)
    \/ WaitPlayer(r) \/ ExpirePlayer(r) \/ Drain(r) \/ Clear(r) \/ Free(r) \/ Forget(r)
    \/ ClearJavaCall(r) \/ Unlock(r)

-----------------------------------------------------------------------------
\* After a fault the process is gone.
Next ==
    /\ fault = "none"
    /\ \/ DecodeExit \/ DecodeUnlock
       \/ Demux
       \/ Open \/ UseAudio \/ UseVideo \/ UseVideoAlone
       \/ \E p \in Players : Player(p)
       \/ \E r \in Releasers : Stop(r) \/ Release(r)

Spec == Init /\ [][Next]_vars

\* The threads are scheduled; the user need not call start, and av_read_frame
\* need not return.
Fairness ==
    /\ WF_vars(fault = "none" /\ (DecodeExit \/ DecodeUnlock))
    /\ WF_vars(fault = "none" /\ ~At("demux", "idle") /\ ~At("demux", "read") /\ Demux)
    /\ WF_vars(fault = "none" /\ (Open \/ UseAudio \/ (~At("audio", "asleep") /\ Player("audio"))))
    /\ WF_vars(fault = "none" /\ (UseVideo \/ UseVideoAlone
                                    \/ (~At("video", "asleep") /\ Player("video"))))
    /\ \A r \in Releasers : WF_vars(fault = "none" /\ Release(r))

FairSpec == Spec /\ Fairness

-----------------------------------------------------------------------------
DemuxLabel == {"idle", "enter", "playAudio", "playVideo", "loop", "again", "audioSize",
               "videoSize", "read", "putAudio", "putVideo", "eof", "complete",
               "onComplete", "leave", "done"}
PlayerLabel == {"none", "open", "loop", "mark", "work", "get", "waits", "asleep", "use",
                "leave", "done"}
ReleaseLabel == {"idle", "lock", "waitDemux", "notice", "wait", "drain", "clear",
                 "forget", "javaCall", "unlock", "done"} \union PartNames
Label == DemuxLabel \union PlayerLabel \union ReleaseLabel \union {"prepared", "unlocks"}

TypeOK ==
    /\ layout \in SUBSET Players
    /\ exit \in BOOLEAN /\ finished \in BOOLEAN
    /\ isExit \in [Players -> BOOLEAN]
    /\ alive \in SUBSET (Players \X PartNames)
    /\ known \in SUBSET Players
    /\ javaCall \in BOOLEAN
    /\ init_mutex \in SUBSET (Releasers \union {"decode"}) /\ victim \in Players
    /\ fault \in {"none", "deleted", "clock"}
    /\ expired \in SUBSET (({"demux"} \union Players) \X Label)
    /\ overtaken \in SUBSET (({"demux"} \union Players) \X Label)
    /\ overwritten \in BOOLEAN
    /\ pc \in [Threads -> Label]

\* A thread uses what a release took away only if a wait let the release pass
\* while a thread was not through: whatever the order and number of releases,
\* they do no other harm.
FaultNeedsOvertaking == fault = "deleted" => overtaken # {}

\* What a release does not wait for, however long its waits: a start that was
\* not called yet or has not taken back the flag, a read from the network, a
\* player asleep on its queue (the video is told to wake only after the audio is
\* gone), a video that has not marked that it runs, and a start that was called
\* when the preparation had still to set the flag.
Excused ==
    ({"demux"} \X {"idle", "enter", "read"}) \union (Players \X {"asleep"})
        \union ({"video"} \X {"loop", "mark", "leave"})

OvertakesOnly ==
    Patient /\ overtaken # {} =>
        overwritten \/ (overtaken \union expired) \intersect Excused # {}

\* A release past the wait for the demuxer, and past the wait for its victim.
PastDemux == {"notice", "wait", "drain", "clear", "forget", "javaCall", "unlock", "done"}
                 \union PartNames
PastWait == {"drain", "clear", "forget"} \union PartNames

\* When no release is under way and one is done, nothing is left of the players.
AllFreed ==
    init_mutex = {} /\ (\E r \in Releasers : At(r, "done")) =>
        alive = {} /\ known = {} /\ ~javaCall

Gone(t) == pc[t] \in {"none", "done"}

\* The parts that are left when a release is at a label.
LeftAt(label) ==
    CASE label = "queue" -> PartNames
      [] label \in {"output", "calls"} -> PartNames \ {"queue"}
      [] label = "codec" -> {"codec", "status", "object"}
      [] label = "status" -> {"status", "object"}
      [] label = "object" -> {"object"}
      [] OTHER -> {}

Intact(p) == {p} \X Parts(p) \subseteq alive

\* What a release knows of the players at each of its labels.
Holding(r) ==
    /\ pc[r] \in PartNames =>
          /\ victim \in known /\ pc[r] \in Parts(victim)
          /\ \A part \in Parts(victim) : <<victim, part>> \in alive <=> part \in LeftAt(pc[r])
    /\ pc[r] = "forget" => \A part \in PartNames : <<victim, part>> \notin alive
    /\ pc[r] \in PastWait \union {"wait"} => victim \in known
    /\ pc[r] \in PastDemux /\ victim = "video" => "audio" \notin known
    /\ pc[r] \in {"javaCall", "unlock"} => known = {}
    /\ pc[r] = "unlock" => ~javaCall
    /\ pc[r] = "waitDemux" => victim = "audio"

\* Nobody uses what is gone, or is about to go.
Quiet ==
    /\ fault # "deleted"
    /\ \A r \in Releasers : pc[r] \in PastDemux => pc["demux"] = "done"
    /\ \A r \in init_mutex : pc[r] \in PastWait => \A t \in Users(victim) : Gone(t)
    /\ \A p \in layout : ~Intact(p) => \A t \in Users(p) : Gone(t)
    /\ (\E p \in layout : ~Intact(p)) \/ ~javaCall => pc["demux"] = "done"

\* The inductive invariant behind FaultNeedsOvertaking and AllFreed.
TeardownInv ==
    /\ TypeOK
    /\ known \subseteq layout
    /\ \A p \in Players : pc[p] # "none" => p \in layout
    /\ pc["demux"] # "none"
    /\ \A r \in Releasers : r \in init_mutex <=> pc[r] \notin {"idle", "lock", "done"}
    /\ "decode" \in init_mutex <=> pc["decode"] \in {"prepared", "unlocks"}
    /\ \A r, s \in init_mutex : r = s
    /\ \A r \in init_mutex : Holding(r)
    /\ \A u \in alive : u[1] \in known /\ u[2] \in Parts(u[1])
    /\ \A p \in known :
          \/ Intact(p)
          \/ victim = p /\ \E r \in init_mutex : pc[r] \in PartNames \union {"forget"}
    /\ (\E r \in Releasers : pc[r] = "done") => known = {} /\ ~javaCall
    /\ overtaken = {} => Quiet

\* A release ends: no thread and no other release keeps it for ever.
ReleaseEnds ==
    \A r \in Releasers : At(r, "lock") ~> At(r, "done") \/ fault # "none"

=============================================================================
