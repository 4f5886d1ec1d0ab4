----------------------------- MODULE CCLQueue -----------------------------
(***************************************************************************)
(* The queue between the player's threads (CCLQueue.cpp).  One object has  *)
(* two halves, each a std::queue with its own mutex and condition          *)
(* variable: "packet" between the demuxer and a decoder, "frame" between   *)
(* the software decoder and the renderer.  The exit flag of CCLPlayStatus  *)
(* is read by the getters and written by other classes without any lock.   *)
(*                                                                         *)
(* A step is one access to state that another thread can see.  Between     *)
(* pthread_mutex_lock and pthread_mutex_unlock a thread changes the queue  *)
(* in one step, because nobody else can look at it there; the signals and  *)
(* the reads of the exit flag are steps of their own, because they are not *)
(* protected by the mutex.                                                 *)
(***************************************************************************)
EXTENDS Naturals, Sequences

CONSTANTS
    Threads,        \* the threads that call into one queue object
    NoThread,       \* "the mutex is free"
    Calls,          \* Calls[t]: the calls <<operation, half>> thread t makes
    KeyItems,       \* packets whose flags are exactly AV_PKT_FLAG_KEY
    MaxItems,       \* bound: no put is called once this many items went in
    RefCanFail      \* whether av_packet_ref/av_frame_ref may fail (ENOMEM)

Half == {"packet", "frame"}

Operation == {"put", "get", "size", "clear", "clearToKey", "notice", "release"}

ASSUME QueueAssumption ==
    /\ NoThread \notin Threads
    /\ Calls \in [Threads -> SUBSET (Operation \X Half)]
    /\ MaxItems \in Nat
    /\ RefCanFail \in BOOLEAN

\* The player starts one consuming thread for each half of a queue.
ASSUME OneGetter ==
    \A t, u \in Threads : \A h \in Half :
        <<"get", h>> \in Calls[t] /\ <<"get", h>> \in Calls[u] => t = u

VARIABLES
    queue,          \* queuePacket and queueFrame
    mutex,          \* the holder of mutexPacket and mutexFrame
    waiters,        \* threads blocked in pthread_cond_wait, not signalled yet
    exit,           \* cclPlayStatus->exit
    pc,             \* where each thread is
    op,             \* the operation it is in
    half,           \* the half of the queue it operates on
    rest,           \* what CCLQueue::release still has to call afterwards
    produced,       \* how many items were ever pushed
    delivered,      \* the items getters received
    freed,          \* items given to av_packet_free or av_frame_free
    leaked,         \* packets removed whose AVPacket was never freed
    fault           \* an item was used after it was freed

vars == <<queue, mutex, waiters, exit, pc, op, half, rest,
          produced, delivered, freed, leaked, fault>>
memory == <<produced, delivered, freed, leaked, fault>>

-----------------------------------------------------------------------------
Init ==
    /\ queue = [h \in Half |-> <<>>]
    /\ mutex = [h \in Half |-> NoThread]
    /\ waiters = [h \in Half |-> {}]
    /\ exit = FALSE
    /\ pc = [t \in Threads |-> "idle"]
    /\ op = [t \in Threads |-> "size"]
    /\ half = [t \in Threads |-> "packet"]
    /\ rest = [t \in Threads |-> "nothing"]
    /\ produced = [h \in Half |-> 0]
    /\ delivered = [h \in Half |-> <<>>]
    /\ freed = [h \in Half |-> {}]
    /\ leaked = [h \in Half |-> {}]
    /\ fault = FALSE

Goto(t, label) == pc' = [pc EXCEPT ![t] = label]

\* pthread_cond_signal wakes one blocked thread, or nobody.
Signal(h) ==
    \/ /\ waiters[h] = {}
       /\ UNCHANGED waiters
    \/ \E w \in waiters[h] : waiters' = [waiters EXCEPT ![h] = @ \ {w}]

\* The label at which an operation starts.
Entry(operation) ==
    CASE operation \in {"clear", "clearToKey"} -> "presignal"
      [] operation \in {"notice", "release"}   -> "noticeFrame"
      [] OTHER                                 -> "lock"

-----------------------------------------------------------------------------
\* CCLFFmpeg::release, CCLVideo::release and the end of CCLFFmpeg::start set
\* the flag without taking a mutex of the queue.
RaiseExit ==
    /\ ~exit
    /\ exit' = TRUE
    /\ UNCHANGED <<queue, mutex, waiters, pc, op, half, rest, memory>>

\* A thread calls an operation.  noticeThread and release are called by
\* teardown code that has set the exit flag before.
Call(t) ==
    /\ pc[t] = "idle"
    /\ \E c \in Calls[t] :
          /\ c[1] = "put" => produced[c[2]] < MaxItems
          /\ c[1] \in {"notice", "release"} => exit
          /\ op' = [op EXCEPT ![t] = c[1]]
          /\ half' = [half EXCEPT ![t] = c[2]]
          /\ rest' = [rest EXCEPT ![t] =
                        IF c[1] = "release" THEN "clearPacket" ELSE "nothing"]
          /\ Goto(t, Entry(c[1]))
    /\ UNCHANGED <<queue, mutex, waiters, exit, memory>>

\* clearAvpacket, clearAvFrame and clearToKeyFrame signal before they lock.
PreSignal(t) ==
    /\ pc[t] = "presignal"
    /\ Signal(half[t])
    /\ Goto(t, "lock")
    /\ UNCHANGED <<queue, mutex, exit, op, half, rest, memory>>

Lock(t) ==
    /\ pc[t] = "lock"
    /\ mutex[half[t]] = NoThread
    /\ mutex' = [mutex EXCEPT ![half[t]] = t]
    /\ Goto(t, "body")
    /\ UNCHANGED <<queue, waiters, exit, op, half, rest, memory>>

-----------------------------------------------------------------------------
\* putAvpacket and putAvframe.
Push(t) ==
    /\ pc[t] = "body" /\ op[t] = "put"
    /\ queue' = [queue EXCEPT ![half[t]] = Append(@, produced[half[t]] + 1)]
    /\ produced' = [produced EXCEPT ![half[t]] = @ + 1]
    /\ Goto(t, "putSignal")
    /\ UNCHANGED <<mutex, waiters, exit, op, half, rest,
                   delivered, freed, leaked, fault>>

\* Mutant: a put that does not signal.
PutSilent(t) ==
    /\ pc[t] = "putSignal"
    /\ Goto(t, "unlock")
    /\ UNCHANGED <<queue, mutex, waiters, exit, op, half, rest, memory>>

PutSignal(t) ==
    /\ pc[t] = "putSignal"
    /\ Signal(half[t])
    /\ Goto(t, "unlock")
    /\ UNCHANGED <<queue, mutex, exit, op, half, rest, memory>>

\* getAvPacketSize and getAvFrameSize.
ReadSize(t) ==
    /\ pc[t] = "body" /\ op[t] = "size"
    /\ Goto(t, "unlock")
    /\ UNCHANGED <<queue, mutex, waiters, exit, op, half, rest, memory>>

-----------------------------------------------------------------------------
\* getAvpacket and getAvframe: the head of the while loop.
GetExit(t) ==
    /\ pc[t] = "body" /\ op[t] = "get"
    /\ exit
    /\ Goto(t, "unlock")
    /\ UNCHANGED <<queue, mutex, waiters, exit, op, half, rest, memory>>

\* Mutant: the front item is not popped.
GetTakeUnpopped(t) ==
    LET h == half[t] IN
    /\ pc[t] = "body" /\ op[t] = "get" /\ ~exit /\ queue[h] # <<>>
    /\ delivered' = [delivered EXCEPT ![h] = Append(@, Head(queue[h]))]
    /\ Goto(t, "unlock")
    /\ UNCHANGED <<queue, mutex, waiters, exit, op, half, rest, produced, freed,
                   leaked, fault>>

\* Mutant: the front item is not freed.
GetTakeUnfreed(t) ==
    LET h == half[t] IN
    /\ pc[t] = "body" /\ op[t] = "get" /\ ~exit /\ queue[h] # <<>>
    /\ queue' = [queue EXCEPT ![h] = Tail(@)]
    /\ delivered' = [delivered EXCEPT ![h] = Append(@, Head(queue[h]))]
    /\ Goto(t, "unlock")
    /\ UNCHANGED <<mutex, waiters, exit, op, half, rest, produced, freed, leaked, fault>>

\* The front item is referenced for the caller, popped and freed.
GetTake(t) ==
    LET h == half[t] IN
    /\ pc[t] = "body" /\ op[t] = "get"
    /\ ~exit
    /\ queue[h] # <<>>
    /\ Head(queue[h]) \notin freed[h]
    /\ queue' = [queue EXCEPT ![h] = Tail(@)]
    /\ delivered' = [delivered EXCEPT ![h] = Append(@, Head(queue[h]))]
    /\ freed' = [freed EXCEPT ![h] = @ \union {Head(queue[h])}]
    /\ Goto(t, "unlock")
    /\ UNCHANGED <<mutex, waiters, exit, op, half, rest, produced, leaked, fault>>

\* The reference fails: the item is not popped, but it is freed all the same,
\* and the caller is told 0 like after a success.
GetRefFails(t) ==
    LET h == half[t] IN
    /\ RefCanFail
    /\ pc[t] = "body" /\ op[t] = "get"
    /\ ~exit
    /\ queue[h] # <<>>
    /\ Head(queue[h]) \notin freed[h]
    /\ freed' = [freed EXCEPT ![h] = @ \union {Head(queue[h])}]
    /\ Goto(t, "unlock")
    /\ UNCHANGED <<queue, mutex, waiters, exit, op, half, rest,
                   produced, delivered, leaked, fault>>

GetEmpty(t) ==
    /\ pc[t] = "body" /\ op[t] = "get"
    /\ ~exit
    /\ queue[half[t]] = <<>>
    /\ Goto(t, "recheck")
    /\ UNCHANGED <<queue, mutex, waiters, exit, op, half, rest, memory>>

\* The exit flag is read once more before the wait.
GetRecheck(t) ==
    /\ pc[t] = "recheck"
    /\ Goto(t, IF exit THEN "body" ELSE "wait")
    /\ UNCHANGED <<queue, mutex, waiters, exit, op, half, rest, memory>>

\* pthread_cond_wait releases the mutex and blocks in one step.
GetWait(t) ==
    /\ pc[t] = "wait"
    /\ mutex' = [mutex EXCEPT ![half[t]] = NoThread]
    /\ waiters' = [waiters EXCEPT ![half[t]] = @ \union {t}]
    /\ Goto(t, "waiting")
    /\ UNCHANGED <<queue, exit, op, half, rest, memory>>

\* A condition variable may wake a thread that nobody signalled.
SpuriousWake(t) ==
    /\ pc[t] = "waiting"
    /\ t \in waiters[half[t]]
    /\ waiters' = [waiters EXCEPT ![half[t]] = @ \ {t}]
    /\ UNCHANGED <<queue, mutex, exit, pc, op, half, rest, memory>>

\* pthread_cond_wait returns once the mutex is held again.
Woken(t) ==
    /\ pc[t] = "waiting"
    /\ t \notin waiters[half[t]]
    /\ mutex[half[t]] = NoThread
    /\ mutex' = [mutex EXCEPT ![half[t]] = t]
    /\ Goto(t, "body")
    /\ UNCHANGED <<queue, waiters, exit, op, half, rest, memory>>

-----------------------------------------------------------------------------
\* The clearing operations take n items off the front: all of them, or those
\* before the first key packet.
Clears(t, n) ==
    LET q == queue[half[t]] IN
    /\ op[t] = "clear" => n = Len(q)
    /\ op[t] = "clearToKey" =>
          /\ \A i \in 1..n : q[i] \notin KeyItems
          /\ n < Len(q) => q[n + 1] \in KeyItems

\* Mutant: items are cleared from the wrong end.
ClearFromBack(t) ==
    LET h == half[t] IN
    /\ pc[t] = "body" /\ op[t] \in {"clear", "clearToKey"}
    /\ \E n \in 0..Len(queue[h]) :
          /\ Clears(t, n)
          /\ queue' = [queue EXCEPT ![h] = SubSeq(@, 1, Len(@) - n)]
    /\ Goto(t, "unlock")
    /\ UNCHANGED <<mutex, waiters, exit, op, half, rest, memory>>

\* clearAvpacket and clearToKeyFrame free three fields of each packet and
\* drop the AVPacket; clearAvFrame gives each frame to av_frame_free.
ClearBody(t) ==
    LET h == half[t] IN
    /\ pc[t] = "body" /\ op[t] \in {"clear", "clearToKey"}
    /\ queue[h] # <<>> => Head(queue[h]) \notin freed[h]
    /\ \E n \in 0..Len(queue[h]) :
          LET gone == {queue[h][i] : i \in 1..n} IN
          /\ Clears(t, n)
          /\ queue' = [queue EXCEPT ![h] = SubSeq(@, n + 1, Len(@))]
          /\ leaked' = [leaked EXCEPT ![h] =
                           @ \union IF h = "packet" THEN gone ELSE {}]
          /\ freed' = [freed EXCEPT ![h] =
                           @ \union IF h = "packet" THEN {} ELSE gone]
    /\ Goto(t, "unlock")
    /\ UNCHANGED <<mutex, waiters, exit, op, half, rest, produced, delivered, fault>>

\* An operation looks at a front item that was freed before.
UseAfterFree(t) ==
    /\ pc[t] = "body" /\ op[t] \in {"get", "clear", "clearToKey"}
    /\ op[t] = "get" => ~exit
    /\ queue[half[t]] # <<>>
    /\ Head(queue[half[t]]) \in freed[half[t]]
    /\ fault' = TRUE
    /\ UNCHANGED <<queue, mutex, waiters, exit, pc, op, half, rest,
                   produced, delivered, freed, leaked>>

-----------------------------------------------------------------------------
\* Where a thread goes when an operation returns: CCLQueue::release goes on to
\* clear the packets and then the frames.
Return(t) ==
    /\ rest' = [rest EXCEPT ![t] =
                  IF @ = "clearPacket" THEN "clearFrame" ELSE "nothing"]
    /\ IF rest[t] = "nothing"
       THEN /\ Goto(t, "idle")
            /\ UNCHANGED <<op, half>>
       ELSE /\ Goto(t, "presignal")
            /\ op' = [op EXCEPT ![t] = "clear"]
            /\ half' = [half EXCEPT ![t] =
                          IF rest[t] = "clearPacket" THEN "packet" ELSE "frame"]

\* Mutant: the mutex is not given up.
UnlockForgotten(t) ==
    /\ pc[t] = "unlock"
    /\ Return(t)
    /\ UNCHANGED <<queue, mutex, waiters, exit, memory>>

Unlock(t) ==
    /\ pc[t] = "unlock"
    /\ mutex' = [mutex EXCEPT ![half[t]] = NoThread]
    /\ Return(t)
    /\ UNCHANGED <<queue, waiters, exit, memory>>

\* noticeThread: two signals, no mutex.
NoticeFrame(t) ==
    /\ pc[t] = "noticeFrame"
    /\ Signal("frame")
    /\ Goto(t, "noticePacket")
    /\ UNCHANGED <<queue, mutex, exit, op, half, rest, memory>>

\* Mutant: the packet half is not signalled.
NoticePacketSilent(t) ==
    /\ pc[t] = "noticePacket"
    /\ Return(t)
    /\ UNCHANGED <<queue, mutex, waiters, exit, memory>>

NoticePacket(t) ==
    /\ pc[t] = "noticePacket"
    /\ Signal("packet")
    /\ Return(t)
    /\ UNCHANGED <<queue, mutex, exit, memory>>

-----------------------------------------------------------------------------
\* The steps of a call that is under way.
Step(t) ==
    \/ PreSignal(t) \/ Push(t) \/ PutSignal(t) \/ ReadSize(t)
    \/ GetExit(t) \/ GetTake(t) \/ GetRefFails(t) \/ GetEmpty(t)
    \/ GetRecheck(t) \/ GetWait(t) \/ ClearBody(t) \/ UseAfterFree(t)
    \/ Unlock(t) \/ NoticeFrame(t) \/ NoticePacket(t)

Acquire(t) == Lock(t) \/ Woken(t)

Next ==
    /\ ~fault
    /\ \/ RaiseExit
       \/ \E t \in Threads : Call(t) \/ Step(t) \/ Acquire(t) \/ SpuriousWake(t)

Spec == Init /\ [][Next]_vars

\* A thread inside a call keeps running, and a mutex that is released again
\* and again is not withheld from one thread for ever.  Nobody has to call.
Fairness ==
    \A t \in Threads : WF_vars(~fault /\ Step(t)) /\ SF_vars(~fault /\ Acquire(t))

FairSpec == Spec /\ Fairness

-----------------------------------------------------------------------------
Label == {"idle", "presignal", "lock", "body", "putSignal", "recheck", "wait",
          "waiting", "unlock", "noticeFrame", "noticePacket"}

\* The labels between taking and giving up the mutex.
Critical == {"body", "putSignal", "recheck", "wait", "unlock"}

\* The oldest item number that may still be queued: everything below it has left.
Left(h) == produced[h] - Len(queue[h])

\* Every variable has its type.
TypeOK ==
    /\ queue \in [Half -> Seq(Nat)]
    /\ mutex \in [Half -> Threads \union {NoThread}]
    /\ waiters \in [Half -> SUBSET Threads]
    /\ exit \in BOOLEAN
    /\ pc \in [Threads -> Label]
    /\ op \in [Threads -> Operation]
    /\ half \in [Threads -> Half]
    /\ rest \in [Threads -> {"nothing", "clearPacket", "clearFrame"}]
    /\ produced \in [Half -> Nat]
    /\ delivered \in [Half -> Seq(Nat)]
    /\ freed \in [Half -> SUBSET Nat]
    /\ leaked \in [Half -> SUBSET Nat]
    /\ fault \in BOOLEAN

\* A thread holds the mutex of a half exactly between the lock and the unlock
\* of an operation on that half, the wait of a getter excepted.
MutexOwned ==
    \A t \in Threads : \A h \in Half :
        mutex[h] = t <=> half[t] = h /\ pc[t] \in Critical

\* Only getters of a half sleep on its condition variable.
WaitersGet ==
    /\ \A h \in Half : \A t \in waiters[h] : pc[t] = "waiting" /\ half[t] = h
    /\ \A t \in Threads :
          /\ pc[t] \in {"recheck", "wait", "waiting"} => op[t] = "get"
          /\ pc[t] # "idle" /\ op[t] = "get" => <<"get", half[t]>> \in Calls[t]

\* A getter that has decided to wait still finds the queue empty when it does.
WaitsOnEmpty ==
    \A t \in Threads : pc[t] \in {"recheck", "wait"} => queue[half[t]] = <<>>

\* No wakeup for an item is lost: a thread sleeps on a half that holds items
\* only while the thread that put one there is about to signal it
\* (getAvpacket and getAvframe against putAvpacket and putAvframe).
NoLostItemWakeup ==
    \A h \in Half :
        waiters[h] # {} /\ queue[h] # <<>> =>
            \E u \in Threads : pc[u] = "putSignal" /\ half[u] = h

\* The queue is the contiguous run of the youngest items, in the order of
\* their puts, whatever getters and clearing operations were interleaved.
QueueIsSuffix ==
    \A h \in Half :
        /\ Left(h) \in Nat
        /\ \A i \in 1..Len(queue[h]) : queue[h][i] = Left(h) + i

\* Getters receive items in the order of the puts, none twice, and none that
\* is still queued: a clearing operation in between only leaves a gap.
DeliveredInOrder ==
    \A h \in Half :
        /\ \A i \in 1..Len(delivered[h]) : delivered[h][i] <= Left(h)
        /\ \A i, j \in 1..Len(delivered[h]) :
              i < j => delivered[h][i] < delivered[h][j]

\* Memory of items: what has left the queue was freed or dropped by a clearing
\* operation; what is queued was not, but for the front item after a failed
\* av_packet_ref or av_frame_ref, which stays there and is freed.
MemoryAccounted ==
    \A h \in Half :
        /\ \A n \in 1..produced[h] :
              n <= Left(h) => n \in freed[h] \union leaked[h]
        /\ \A n \in leaked[h] : n <= Left(h)
        /\ \A n \in freed[h] :
              \/ n <= Left(h)
              \/ RefCanFail /\ n = Left(h) + 1 /\ queue[h] # <<>>

\* An item is used after it was freed only after a failed reference.
FaultNeedsRefFailure == fault => RefCanFail

\* The inductive invariant of the queue.
IInv ==
    /\ TypeOK
    /\ MutexOwned
    /\ WaitersGet
    /\ WaitsOnEmpty
    /\ NoLostItemWakeup
    /\ QueueIsSuffix
    /\ DeliveredInOrder
    /\ MemoryAccounted
    /\ FaultNeedsRefFailure

\* Locks and signals aside, a queue object is two lossless FIFO channels that
\* clearing operations shorten from the front.
Fifo == INSTANCE PacketFifo WITH fifo <- queue

ImplementsFifo == Fifo!Spec

\* A getter that sleeps while items are queued is woken and leaves the wait.
SleeperServed ==
    \A t \in Threads :
        pc[t] = "waiting" /\ queue[half[t]] # <<>> ~> pc[t] # "waiting"

\* A getter asleep when noticeThread is about to signal its half returns from
\* its call: the flag is set before, so it does not wait again.
NoticeEndsGet ==
    \A t, c \in Threads :
        /\ pc[t] = "waiting"
        /\ \/ half[t] = "packet" /\ pc[c] \in {"noticeFrame", "noticePacket"}
           \/ half[t] = "frame" /\ pc[c] = "noticeFrame"
        ~> pc[t] = "idle"

\* The two mutexes never lock anybody out: a call ends, or its getter sleeps
\* on an empty queue.
CallsEnd ==
    \A t \in Threads : pc[t] # "idle" ~> pc[t] \in {"idle", "waiting"}

\* What avformat.h asks of whoever read a packet with av_read_frame: that it
\* is freed when it is no longer needed (clearAvpacket, clearToKeyFrame).
DroppedPacketsFreed == leaked["packet"] = {}
=============================================================================
