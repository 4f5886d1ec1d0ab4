-------------------------- MODULE CCLQueue_proofs --------------------------
(***************************************************************************)
(* For every set of threads, every assignment of calls to them and every   *)
(* bound: the inductive invariant of CCLQueue, what it implies, and that   *)
(* the queue implements PacketFifo.                                        *)
(***************************************************************************)
EXTENDS CCLQueue, SequenceTheorems, TLAPS


\* pthread_cond_signal takes one thread off one wait set, if there is one.
LEMMA SignalEffect ==
  ASSUME TypeOK, NEW h \in Half, Signal(h)
  PROVE  /\ waiters' \in [Half -> SUBSET Threads]
         /\ \A g \in Half : waiters'[g] \subseteq waiters[g]
         /\ \A g \in Half : g # h => waiters'[g] = waiters[g]
         /\ waiters[h] # {} =>
               \E w \in waiters[h] : waiters'[h] = waiters[h] \ {w}
  <1>0. waiters \in [Half -> SUBSET Threads]
    BY DEF TypeOK
  <1>1. CASE waiters[h] = {} /\ UNCHANGED waiters
    BY <1>0, <1>1
  <1>2. ASSUME NEW w \in waiters[h], waiters' = [waiters EXCEPT ![h] = @ \ {w}]
        PROVE  /\ waiters' \in [Half -> SUBSET Threads]
               /\ \A g \in Half : waiters'[g] \subseteq waiters[g]
               /\ \A g \in Half : g # h => waiters'[g] = waiters[g]
               /\ \E v \in waiters[h] : waiters'[h] = waiters[h] \ {v}
    BY <1>0, <1>2
  <1> QED
    BY <1>1, <1>2 DEF Signal

-----------------------------------------------------------------------------
\* Type correctness is inductive on its own.
LEMMA TypeInit == Init => TypeOK
  <1> SUFFICES ASSUME Init PROVE TypeOK
    OBVIOUS
  <1>1. <<>> \in Seq(Nat)
    BY EmptySeq
  <1>2. /\ queue \in [Half -> Seq(Nat)]
        /\ delivered \in [Half -> Seq(Nat)]
    BY <1>1 DEF Init
  <1>3. /\ mutex \in [Half -> Threads \union {NoThread}]
        /\ waiters \in [Half -> SUBSET Threads]
        /\ freed \in [Half -> SUBSET Nat]
        /\ leaked \in [Half -> SUBSET Nat]
        /\ produced \in [Half -> Nat]
    BY DEF Init
  <1>4. /\ pc \in [Threads -> Label]
        /\ op \in [Threads -> Operation]
        /\ half \in [Threads -> Half]
        /\ rest \in [Threads -> {"nothing", "clearPacket", "clearFrame"}]
    BY DEF Init, Label, Operation, Half
  <1> QED
    BY <1>2, <1>3, <1>4 DEF Init, TypeOK

LEMMA TypeNext == TypeOK /\ [Next]_vars => TypeOK'
  <1> SUFFICES ASSUME TypeOK, [Next]_vars PROVE TypeOK'
    OBVIOUS
  <1> USE QueueAssumption DEF QueueAssumption, TypeOK, Label, Goto, memory
  <1>1. CASE UNCHANGED vars
    BY <1>1 DEF vars
  <1>2. CASE RaiseExit
    BY <1>2 DEF RaiseExit
  <1>3. ASSUME NEW t \in Threads, Call(t) PROVE TypeOK'
    <2>1. PICK c \in Calls[t] :
             /\ op' = [op EXCEPT ![t] = c[1]]
             /\ half' = [half EXCEPT ![t] = c[2]]
             /\ rest' = [rest EXCEPT ![t] =
                           IF c[1] = "release" THEN "clearPacket" ELSE "nothing"]
             /\ pc' = [pc EXCEPT ![t] = Entry(c[1])]
      BY <1>3 DEF Call
    <2>2. c[1] \in Operation /\ c[2] \in Half
      BY <2>1
    <2>3. Entry(c[1]) \in Label
      BY DEF Entry
    <2>4. /\ op' \in [Threads -> Operation]
          /\ half' \in [Threads -> Half]
          /\ pc' \in [Threads -> Label]
      BY <2>1, <2>2, <2>3
    <2>5. rest' \in [Threads -> {"nothing", "clearPacket", "clearFrame"}]
      BY <2>1
    <2> QED
      BY <1>3, <2>4, <2>5 DEF Call
  <1>4. ASSUME NEW t \in Threads, PreSignal(t) \/ PutSignal(t) PROVE TypeOK'
    <2>1. half[t] \in Half /\ Signal(half[t])
      BY <1>4 DEF PreSignal, PutSignal
    <2>2. waiters' \in [Half -> SUBSET Threads]
      BY <2>1, SignalEffect
    <2> QED
      BY <1>4, <2>2 DEF PreSignal, PutSignal
  <1>5. ASSUME NEW t \in Threads, Push(t) PROVE TypeOK'
    <2>1. half[t] \in Half /\ produced[half[t]] + 1 \in Nat
      OBVIOUS
    <2>2. Append(queue[half[t]], produced[half[t]] + 1) \in Seq(Nat)
      BY <2>1, AppendProperties
    <2> QED
      BY <1>5, <2>1, <2>2 DEF Push
  <1>6. ASSUME NEW t \in Threads,
               ReadSize(t) \/ GetExit(t) \/ GetEmpty(t) \/ GetRecheck(t)
        PROVE  TypeOK'
    BY <1>6 DEF ReadSize, GetExit, GetEmpty, GetRecheck
  <1>7. ASSUME NEW t \in Threads, GetTake(t) PROVE TypeOK'
    <2> DEFINE h == half[t]
    <2>1. h \in Half /\ queue[h] \in Seq(Nat) /\ queue[h] # <<>>
      BY <1>7 DEF GetTake
    <2>2. Head(queue[h]) \in Nat /\ Tail(queue[h]) \in Seq(Nat)
      BY <2>1, HeadTailProperties
    <2>3. Append(delivered[h], Head(queue[h])) \in Seq(Nat)
      BY <2>1, <2>2, AppendProperties
    <2>4. queue' \in [Half -> Seq(Nat)]
      BY <1>7, <2>1, <2>2 DEF GetTake
    <2>5. delivered' \in [Half -> Seq(Nat)]
      BY <1>7, <2>1, <2>3 DEF GetTake
    <2>6. freed' \in [Half -> SUBSET Nat]
      BY <1>7, <2>1, <2>2 DEF GetTake
    <2>7. pc' \in [Threads -> Label]
      BY <1>7 DEF GetTake
    <2>8. UNCHANGED <<mutex, waiters, exit, op, half, rest, produced, leaked, fault>>
      BY <1>7 DEF GetTake
    <2> QED
      BY <2>4, <2>5, <2>6, <2>7, <2>8
  <1>8. ASSUME NEW t \in Threads, GetRefFails(t) PROVE TypeOK'
    <2> DEFINE h == half[t]
    <2>1. h \in Half /\ queue[h] \in Seq(Nat) /\ queue[h] # <<>>
      BY <1>8 DEF GetRefFails
    <2>2. Head(queue[h]) \in Nat
      BY <2>1, HeadTailProperties
    <2> QED
      BY <1>8, <2>1, <2>2 DEF GetRefFails
  <1>9. ASSUME NEW t \in Threads, GetWait(t) \/ SpuriousWake(t) \/ Acquire(t)
        PROVE  TypeOK'
    <2>1. half[t] \in Half
      OBVIOUS
    <2>2. CASE GetWait(t)
      BY <2>1, <2>2 DEF GetWait
    <2>3. CASE SpuriousWake(t)
      <3>1. waiters[half[t]] \ {t} \in SUBSET Threads
        BY <2>1
      <3>2. waiters' \in [Half -> SUBSET Threads]
        BY <2>1, <2>3, <3>1 DEF SpuriousWake
      <3> QED
        BY <2>3, <3>2 DEF SpuriousWake
    <2>4. CASE Acquire(t)
      <3>1. mutex' = [mutex EXCEPT ![half[t]] = t] /\ pc' = [pc EXCEPT ![t] = "body"]
        BY <2>4 DEF Acquire, Lock, Woken
      <3>2. mutex' \in [Half -> Threads \union {NoThread}]
        BY <2>1, <3>1
      <3>3. UNCHANGED <<queue, waiters, exit, op, half, rest, memory>>
        BY <2>4 DEF Acquire, Lock, Woken
      <3> QED
        BY <3>1, <3>2, <3>3
    <2> QED
      BY <1>9, <2>2, <2>3, <2>4
  <1>10. ASSUME NEW t \in Threads, ClearBody(t) PROVE TypeOK'
    <2> DEFINE h == half[t]
    <2>1. h \in Half /\ queue[h] \in Seq(Nat)
      OBVIOUS
    <2>2. PICK n \in 0..Len(queue[h]) :
             LET gone == {queue[h][i] : i \in 1..n} IN
             /\ queue' = [queue EXCEPT ![h] = SubSeq(@, n + 1, Len(@))]
             /\ leaked' = [leaked EXCEPT ![h] =
                              @ \union IF h = "packet" THEN gone ELSE {}]
             /\ freed' = [freed EXCEPT ![h] =
                              @ \union IF h = "packet" THEN {} ELSE gone]
      BY <1>10 DEF ClearBody
    <2>3. {queue[h][i] : i \in 1..n} \subseteq Nat
      BY <2>1, <2>2, ElementOfSeq
    <2>4. SubSeq(queue[h], n + 1, Len(queue[h])) \in Seq(Nat)
      <3>1. \A i \in (n + 1)..Len(queue[h]) : queue[h][i] \in Nat
        BY <2>1, <2>2, ElementOfSeq
      <3> QED
        BY <2>1, <2>2, <3>1, SubSeqProperties, LenProperties
    <2> QED
      BY <1>10, <2>1, <2>2, <2>3, <2>4 DEF ClearBody
  <1>11. ASSUME NEW t \in Threads, UseAfterFree(t) PROVE TypeOK'
    BY <1>11 DEF UseAfterFree
  <1>12. ASSUME NEW t \in Threads, Return(t)
         PROVE  /\ pc' \in [Threads -> Label]
                /\ op' \in [Threads -> Operation]
                /\ half' \in [Threads -> Half]
                /\ rest' \in [Threads -> {"nothing", "clearPacket", "clearFrame"}]
    <2>1. rest' \in [Threads -> {"nothing", "clearPacket", "clearFrame"}]
      BY <1>12 DEF Return
    <2>2. CASE rest[t] = "nothing"
      BY <1>12, <2>1, <2>2 DEF Return
    <2>3. CASE rest[t] # "nothing"
      <3>1. "clear" \in Operation /\ "packet" \in Half /\ "frame" \in Half
        BY DEF Operation, Half
      <3> QED
        <4>1. op' = [op EXCEPT ![t] = "clear"]
          BY <1>12, <2>3 DEF Return
        <4>2. PICK h \in Half : half' = [half EXCEPT ![t] = h]
          BY <1>12, <2>3, <3>1 DEF Return
        <4>3. pc' = [pc EXCEPT ![t] = "presignal"]
          BY <1>12, <2>3 DEF Return
        <4> QED
          BY <2>1, <3>1, <4>1, <4>2, <4>3
    <2> QED
      BY <2>2, <2>3
  <1>13. ASSUME NEW t \in Threads, Unlock(t) PROVE TypeOK'
    BY <1>12, <1>13 DEF Unlock
  <1>14. ASSUME NEW t \in Threads, NoticeFrame(t) PROVE TypeOK'
    <2>1. "frame" \in Half
      BY DEF Half
    <2> QED
      BY <1>14, <2>1, SignalEffect DEF NoticeFrame
  <1>15. ASSUME NEW t \in Threads, NoticePacket(t) PROVE TypeOK'
    <2>1. "packet" \in Half
      BY DEF Half
    <2> QED
      BY <1>12, <1>15, <2>1, SignalEffect DEF NoticePacket
  <1> QED
    BY <1>1, <1>2, <1>3, <1>4, <1>5, <1>6, <1>7, <1>8, <1>9, <1>10, <1>11,
       <1>13, <1>14, <1>15
    DEF Next, Step

\* Every variable of the queue keeps its type in every behaviour.
THEOREM TypeCorrect == Spec => []TypeOK
  BY TypeInit, TypeNext, PTL DEF Spec

-----------------------------------------------------------------------------
\* The mutex.

\* What a step of thread t does to the mutex, the program counters and halves:
\* it neither enters nor leaves a critical section, it enters one, or it
\* leaves one.
Keeps(t) ==
    /\ mutex' = mutex
    /\ \E l \in Label : pc' = [pc EXCEPT ![t] = l]
    /\ pc[t] \in Critical <=> pc'[t] \in Critical
    /\ \A u \in Threads : u # t => half'[u] = half[u]
    /\ pc[t] \in Critical => half'[t] = half[t]

Enters(t) ==
    /\ mutex[half[t]] = NoThread
    /\ mutex' = [mutex EXCEPT ![half[t]] = t]
    /\ pc[t] \notin Critical
    /\ pc' = [pc EXCEPT ![t] = "body"]
    /\ half' = half

Leaves(t) ==
    /\ pc[t] \in Critical
    /\ mutex' = [mutex EXCEPT ![half[t]] = NoThread]
    /\ \E l \in Label \ Critical : pc' = [pc EXCEPT ![t] = l]
    /\ \A u \in Threads : u # t => half'[u] = half[u]

\* A return leaves the thread outside every critical section.
LEMMA ReturnEffect ==
  ASSUME TypeOK, NEW t \in Threads, Return(t)
  PROVE  /\ \E l \in Label \ Critical : pc' = [pc EXCEPT ![t] = l]
         /\ \A u \in Threads : u # t => half'[u] = half[u] /\ op'[u] = op[u]
         /\ pc'[t] = "idle" \/ op'[t] = "clear"
  <1>1. CASE rest[t] = "nothing"
    BY <1>1 DEF Return, Goto, TypeOK, Label, Critical
  <1>2. CASE rest[t] # "nothing"
    <2>1. pc' = [pc EXCEPT ![t] = "presignal"] /\ op' = [op EXCEPT ![t] = "clear"]
      BY <1>2 DEF Return, Goto
    <2>2. \E h : half' = [half EXCEPT ![t] = h]
      BY <1>2 DEF Return
    <2>3. "presignal" \in Label \ Critical
      BY DEF Label, Critical
    <2> QED
      BY <2>1, <2>2, <2>3 DEF TypeOK
  <1> QED
    BY <1>1, <1>2

\* Every step of a thread is of one of the three kinds.
LEMMA MutexEffect ==
  ASSUME TypeOK, NEW t \in Threads,
         Call(t) \/ Step(t) \/ Acquire(t) \/ SpuriousWake(t)
  PROVE  Keeps(t) \/ Enters(t) \/ Leaves(t)
  <1> USE DEF TypeOK, Label, Critical, Goto
  <1>1. CASE Call(t)
    <2>1. PICK c \in Calls[t] : /\ half' = [half EXCEPT ![t] = c[2]]
                               /\ pc' = [pc EXCEPT ![t] = Entry(c[1])]
      BY <1>1 DEF Call
    <2>2. Entry(c[1]) \in Label \ Critical
      BY DEF Entry
    <2>3. pc'[t] = Entry(c[1]) /\ \A u \in Threads : u # t => half'[u] = half[u]
      BY <2>1
    <2>4. mutex' = mutex /\ pc[t] = "idle"
      BY <1>1 DEF Call
    <2> QED
      BY <2>1, <2>2, <2>3, <2>4 DEF Keeps
  <1>2. CASE PreSignal(t) \/ PutSignal(t)
    BY <1>2 DEF PreSignal, PutSignal, Keeps
  <1>3. CASE Push(t) \/ ReadSize(t) \/ GetExit(t) \/ GetEmpty(t) \/ GetRecheck(t)
    BY <1>3 DEF Push, ReadSize, GetExit, GetEmpty, GetRecheck, Keeps
  <1>4. CASE GetTake(t) \/ GetRefFails(t)
    BY <1>4 DEF GetTake, GetRefFails, Keeps
  <1>5. CASE ClearBody(t)
    BY <1>5 DEF ClearBody, Keeps
  <1>6. CASE UseAfterFree(t) \/ SpuriousWake(t)
    BY <1>6 DEF UseAfterFree, SpuriousWake, Keeps
  <1>7. CASE NoticeFrame(t)
    BY <1>7 DEF NoticeFrame, Keeps
  <1>8. CASE NoticePacket(t)
    <2>1. PICK l \in Label \ Critical : pc' = [pc EXCEPT ![t] = l]
      BY <1>8, ReturnEffect DEF NoticePacket
    <2>2. \A u \in Threads : u # t => half'[u] = half[u]
      BY <1>8, ReturnEffect DEF NoticePacket
    <2>3. mutex' = mutex /\ pc[t] = "noticePacket"
      BY <1>8 DEF NoticePacket
    <2> QED
      BY <2>1, <2>2, <2>3 DEF Keeps
  <1>9. CASE GetWait(t)
    BY <1>9 DEF GetWait, Leaves
  <1>10. CASE Unlock(t)
    <2>1. \E l \in Label \ Critical : pc' = [pc EXCEPT ![t] = l]
      BY <1>10, ReturnEffect DEF Unlock
    <2>2. \A u \in Threads : u # t => half'[u] = half[u]
      BY <1>10, ReturnEffect DEF Unlock
    <2>3. mutex' = [mutex EXCEPT ![half[t]] = NoThread] /\ pc[t] \in Critical
      BY <1>10 DEF Unlock
    <2> QED
      BY <2>1, <2>2, <2>3 DEF Leaves
  <1>11. CASE Acquire(t)
    BY <1>11 DEF Acquire, Lock, Woken, Enters
  <1> QED
    BY <1>1, <1>2, <1>3, <1>4, <1>5, <1>6, <1>7, <1>8, <1>9, <1>10, <1>11
    DEF Step

LEMMA MutexInit == Init => MutexOwned
  BY QueueAssumption DEF Init, MutexOwned, QueueAssumption, Critical

\* Mutual exclusion is inductive.
LEMMA MutexNext == TypeOK /\ MutexOwned /\ [Next]_vars => MutexOwned'
  <1> SUFFICES ASSUME TypeOK, MutexOwned, [Next]_vars PROVE MutexOwned'
    OBVIOUS
  <1>1. CASE UNCHANGED vars \/ RaiseExit
    BY <1>1 DEF vars, RaiseExit, MutexOwned
  <1>2. ASSUME NEW t \in Threads,
               Call(t) \/ Step(t) \/ Acquire(t) \/ SpuriousWake(t)
        PROVE  MutexOwned'
    <2> SUFFICES ASSUME NEW u \in Threads, NEW h \in Half
                 PROVE  mutex'[h] = u <=> half'[u] = h /\ pc'[u] \in Critical
      BY DEF MutexOwned
    <2>0. /\ half[t] \in Half /\ pc \in [Threads -> Label]
          /\ mutex \in [Half -> Threads \union {NoThread}] /\ NoThread \notin Threads
          /\ mutex[h] = u <=> half[u] = h /\ pc[u] \in Critical
          /\ mutex[h] = t <=> half[t] = h /\ pc[t] \in Critical
      BY QueueAssumption DEF TypeOK, QueueAssumption, MutexOwned
    <2>1. CASE Keeps(t)
      BY <2>0, <2>1 DEF Keeps
    <2>2. CASE Enters(t)
      BY <2>0, <2>2 DEF Enters, Critical
    <2>3. CASE Leaves(t)
      BY <2>0, <2>3 DEF Leaves
    <2> QED
      BY <1>2, <2>1, <2>2, <2>3, MutexEffect
  <1> QED
    BY <1>1, <1>2 DEF Next

-----------------------------------------------------------------------------
\* The getters.

\* WaitersGet for one thread.
Getter(t) ==
    /\ \A h \in Half : t \in waiters[h] => pc[t] = "waiting" /\ half[t] = h
    /\ pc[t] \in {"recheck", "wait", "waiting"} => op[t] = "get"
    /\ pc[t] # "idle" /\ op[t] = "get" => <<"get", half[t]>> \in Calls[t]

LEMMA GetterEquiv ==
  TypeOK => (WaitersGet <=> \A t \in Threads : Getter(t))
  BY DEF TypeOK, WaitersGet, Getter

\* A step of one thread leaves the others where they are and adds at most
\* that thread to a wait set.
LEMMA OthersStay ==
  ASSUME TypeOK, NEW t \in Threads, NEW u \in Threads, u # t,
         Call(t) \/ Step(t) \/ Acquire(t) \/ SpuriousWake(t)
  PROVE  /\ pc'[u] = pc[u] /\ half'[u] = half[u] /\ op'[u] = op[u]
         /\ \A h \in Half : u \in waiters'[h] => u \in waiters[h]
  <1> USE DEF TypeOK, Goto, memory
  <1>1. CASE Call(t)
    BY <1>1 DEF Call
  <1>2. CASE PreSignal(t) \/ PutSignal(t)
    <2>1. half[t] \in Half /\ Signal(half[t])
      BY <1>2 DEF PreSignal, PutSignal
    <2>2. \A h \in Half : waiters'[h] \subseteq waiters[h]
      BY <2>1, SignalEffect
    <2> QED
      BY <1>2, <2>2 DEF PreSignal, PutSignal
  <1>3. CASE Push(t) \/ ReadSize(t) \/ GetExit(t) \/ GetEmpty(t) \/ GetRecheck(t)
    BY <1>3 DEF Push, ReadSize, GetExit, GetEmpty, GetRecheck
  <1>4. CASE GetTake(t) \/ GetRefFails(t)
    BY <1>4 DEF GetTake, GetRefFails
  <1>5. CASE ClearBody(t)
    BY <1>5 DEF ClearBody
  <1>6. CASE UseAfterFree(t)
    BY <1>6 DEF UseAfterFree
  <1>7. CASE NoticeFrame(t)
    <2>1. \A h \in Half : waiters'[h] \subseteq waiters[h]
      BY <1>7, SignalEffect DEF NoticeFrame, Half
    <2> QED
      BY <1>7, <2>1 DEF NoticeFrame
  <1>8. CASE NoticePacket(t)
    <2>1. \A h \in Half : waiters'[h] \subseteq waiters[h]
      BY <1>8, SignalEffect DEF NoticePacket, Half
    <2>2. pc'[u] = pc[u] /\ half'[u] = half[u] /\ op'[u] = op[u]
      BY <1>8, ReturnEffect DEF NoticePacket
    <2> QED
      BY <2>1, <2>2
  <1>9. CASE Unlock(t)
    <2>1. pc'[u] = pc[u] /\ half'[u] = half[u] /\ op'[u] = op[u]
      BY <1>9, ReturnEffect DEF Unlock
    <2> QED
      BY <1>9, <2>1 DEF Unlock
  <1>10. CASE GetWait(t)
    BY <1>10 DEF GetWait
  <1>11. CASE SpuriousWake(t)
    BY <1>11 DEF SpuriousWake
  <1>12. CASE Acquire(t)
    BY <1>12 DEF Acquire, Lock, Woken
  <1> QED
    BY <1>1, <1>2, <1>3, <1>4, <1>5, <1>6, <1>7, <1>8, <1>9, <1>10, <1>11, <1>12
    DEF Step

LEMMA GetterInit == Init => WaitersGet
  BY DEF Init, WaitersGet

LEMMA GetterNext == TypeOK /\ WaitersGet /\ [Next]_vars => WaitersGet'
  <1> SUFFICES ASSUME TypeOK, TypeOK', WaitersGet, [Next]_vars PROVE WaitersGet'
    BY TypeNext
  <1>1. CASE UNCHANGED vars \/ RaiseExit
    BY <1>1 DEF vars, RaiseExit, WaitersGet
  <1>2. ASSUME NEW t \in Threads,
               Call(t) \/ Step(t) \/ Acquire(t) \/ SpuriousWake(t)
        PROVE  WaitersGet'
    <2>0. /\ Getter(t) /\ half[t] \in Half
          /\ pc \in [Threads -> Label] /\ waiters \in [Half -> SUBSET Threads]
          /\ op \in [Threads -> Operation] /\ half \in [Threads -> Half]
      BY GetterEquiv DEF TypeOK
    <2> USE <2>0 DEF Goto
    <2>1. ASSUME NEW u \in Threads, u # t PROVE Getter(u)'
      <3>1. Getter(u)
        BY GetterEquiv
      <3> QED
        BY <1>2, <2>1, <3>1, OthersStay DEF Getter
    <2>2. Getter(t)'
      <3>1. CASE Call(t)
        <4>1. PICK c \in Calls[t] : /\ op' = [op EXCEPT ![t] = c[1]]
                                   /\ half' = [half EXCEPT ![t] = c[2]]
          BY <3>1 DEF Call
        <4>2. c = <<c[1], c[2]>>
          BY QueueAssumption DEF QueueAssumption
        <4>3. pc' = [pc EXCEPT ![t] = Entry(op'[t])]
          BY <3>1 DEF Call
        <4>4. Entry(op'[t]) \notin {"recheck", "wait", "waiting"}
          BY DEF Entry
        <4>5. \A h \in Half : t \notin waiters[h]
          BY <3>1 DEF Call, Getter
        <4>6. waiters' = waiters
          BY <3>1 DEF Call
        <4>7. op'[t] = c[1] /\ half'[t] = c[2]
          BY <4>1
        <4>8. op'[t] = "get" => <<"get", half'[t]>> \in Calls[t]
          BY <4>2, <4>7
        <4>9. pc'[t] \notin {"recheck", "wait", "waiting"}
          BY <4>3, <4>4
        <4> QED
          BY <4>5, <4>6, <4>8, <4>9 DEF Getter
      <3>2. CASE PreSignal(t) \/ PutSignal(t)
        <4>1. \A h \in Half : waiters'[h] \subseteq waiters[h]
          BY <3>2, SignalEffect DEF PreSignal, PutSignal
        <4>2. pc[t] \in {"presignal", "putSignal"} /\ pc'[t] \in {"lock", "unlock"}
          BY <3>2 DEF PreSignal, PutSignal
        <4>3. op' = op /\ half' = half
          BY <3>2 DEF PreSignal, PutSignal
        <4> QED
          BY <4>1, <4>2, <4>3 DEF Getter
      <3>3. CASE Push(t) \/ ReadSize(t) \/ GetExit(t) \/ GetEmpty(t) \/ GetRecheck(t)
        BY <3>3 DEF Push, ReadSize, GetExit, GetEmpty, GetRecheck, Getter
      <3>4. CASE GetTake(t) \/ GetRefFails(t)
        BY <3>4 DEF GetTake, GetRefFails, Getter
      <3>5. CASE ClearBody(t) \/ UseAfterFree(t)
        BY <3>5 DEF ClearBody, UseAfterFree, Getter
      <3>6. CASE NoticeFrame(t)
        <4>1. \A h \in Half : waiters'[h] \subseteq waiters[h]
          BY <3>6, SignalEffect DEF NoticeFrame, Half
        <4> QED
          BY <3>6, <4>1 DEF NoticeFrame, Getter
      <3>7. CASE NoticePacket(t)
        <4>1. \A h \in Half : waiters'[h] \subseteq waiters[h]
          BY <3>7, SignalEffect DEF NoticePacket, Half
        <4>2. pc[t] = "noticePacket"
          BY <3>7 DEF NoticePacket
        <4>3. /\ pc'[t] \in Label \ Critical /\ pc'[t] # "waiting"
              /\ pc'[t] = "idle" \/ op'[t] = "clear"
          BY <3>7, ReturnEffect DEF NoticePacket, Return
        <4> QED
          BY <4>1, <4>2, <4>3 DEF Getter, Critical
      <3>8. CASE Unlock(t)
        <4>1. waiters' = waiters /\ pc[t] = "unlock"
          BY <3>8 DEF Unlock
        <4>2. /\ pc'[t] \in Label \ Critical /\ pc'[t] # "waiting"
              /\ pc'[t] = "idle" \/ op'[t] = "clear"
          BY <3>8, ReturnEffect DEF Unlock, Return
        <4> QED
          BY <4>1, <4>2 DEF Getter, Critical
      <3>9. CASE GetWait(t)
        BY <3>9 DEF GetWait, Getter
      <3>10. CASE SpuriousWake(t)
        BY <3>10 DEF SpuriousWake, Getter
      <3>11. CASE Acquire(t)
        BY <3>11 DEF Acquire, Lock, Woken, Getter
      <3> QED
        BY <1>2, <3>1, <3>2, <3>3, <3>4, <3>5, <3>6, <3>7, <3>8, <3>9, <3>10, <3>11
        DEF Step
    <2>3. waiters' \in [Half -> SUBSET Threads]
      BY DEF TypeOK
    <2>4. \A u \in Threads : Getter(u)'
      BY <2>1, <2>2
    <2>5. \A h \in Half : \A u \in waiters'[h] : pc'[u] = "waiting" /\ half'[u] = h
      BY <2>3, <2>4 DEF Getter
    <2> QED
      BY <2>4, <2>5 DEF WaitersGet, Getter
  <1> QED
    BY <1>1, <1>2 DEF Next

-----------------------------------------------------------------------------
\* Waiting and signalling.

\* The steps that change a queue.
LEMMA QueueEffect ==
  ASSUME TypeOK, NEW t \in Threads,
         Call(t) \/ Step(t) \/ Acquire(t) \/ SpuriousWake(t)
  PROVE  \/ queue' = queue
         \/ /\ pc[t] = "body"
            /\ \A h \in Half : h # half[t] => queue'[h] = queue[h]
            /\ Push(t) \/ GetTake(t) \/ ClearBody(t)
  <1> USE DEF TypeOK, memory
  <1>1. CASE Call(t) \/ Acquire(t) \/ SpuriousWake(t)
    BY <1>1 DEF Call, Acquire, Lock, Woken, SpuriousWake
  <1>2. CASE PreSignal(t) \/ PutSignal(t) \/ ReadSize(t) \/ GetExit(t)
             \/ GetRefFails(t) \/ GetEmpty(t) \/ GetRecheck(t) \/ GetWait(t)
             \/ UseAfterFree(t) \/ Unlock(t) \/ NoticeFrame(t) \/ NoticePacket(t)
    BY <1>2 DEF PreSignal, PutSignal, ReadSize, GetExit, GetRefFails, GetEmpty,
                GetRecheck, GetWait, UseAfterFree, Unlock, NoticeFrame, NoticePacket
  <1>3. CASE Push(t)
    BY <1>3 DEF Push
  <1>4. CASE GetTake(t)
    BY <1>4 DEF GetTake
  <1>5. CASE ClearBody(t)
    BY <1>5 DEF ClearBody
  <1> QED
    BY <1>1, <1>2, <1>3, <1>4, <1>5 DEF Step

LEMMA WaitsInit == Init => WaitsOnEmpty
  BY DEF Init, WaitsOnEmpty

LEMMA WaitsNext ==
  TypeOK /\ MutexOwned /\ WaitsOnEmpty /\ [Next]_vars => WaitsOnEmpty'
  <1> SUFFICES ASSUME TypeOK, MutexOwned, WaitsOnEmpty, [Next]_vars
               PROVE  WaitsOnEmpty'
    OBVIOUS
  <1>1. CASE UNCHANGED vars \/ RaiseExit
    BY <1>1 DEF vars, RaiseExit, WaitsOnEmpty
  <1>2. ASSUME NEW t \in Threads,
               Call(t) \/ Step(t) \/ Acquire(t) \/ SpuriousWake(t)
        PROVE  WaitsOnEmpty'
    <2> SUFFICES ASSUME NEW u \in Threads, pc'[u] \in {"recheck", "wait"}
                 PROVE  queue'[half'[u]] = <<>>
      BY DEF WaitsOnEmpty
    <2>0. pc \in [Threads -> Label] /\ half \in [Threads -> Half]
      BY DEF TypeOK
    <2>1. CASE u # t
      <3>1. pc'[u] = pc[u] /\ half'[u] = half[u]
        BY <1>2, <2>1, OthersStay
      <3>2. mutex[half[u]] = u /\ queue[half[u]] = <<>> /\ half[u] \in Half
        BY <2>0, <3>1 DEF MutexOwned, Critical, WaitsOnEmpty
      <3>3. pc[t] = "body" => mutex[half[t]] = t
        BY <2>0 DEF MutexOwned, Critical
      <3>4. queue'[half[u]] = queue[half[u]]
        BY <1>2, <2>1, <3>2, <3>3, QueueEffect
      <3> QED
        BY <3>1, <3>2, <3>4
    <2>2. CASE u = t
      <3>1. CASE GetEmpty(t)
        BY <2>2, <3>1 DEF GetEmpty, memory
      <3>2. CASE GetRecheck(t)
        BY <2>2, <3>2 DEF GetRecheck, memory, WaitsOnEmpty
      <3>3. CASE Call(t)
        <4>1. \E l : pc' = [pc EXCEPT ![t] = Entry(l)]
          BY <3>3 DEF Call, Goto
        <4>2. \A l : Entry(l) \notin {"recheck", "wait"}
          BY DEF Entry
        <4> QED
          BY <2>0, <2>2, <4>1, <4>2
      <3>4. CASE Unlock(t) \/ NoticePacket(t)
        <4>1. Return(t)
          BY <3>4 DEF Unlock, NoticePacket
        <4>2. pc'[t] \in Label \ Critical
          BY <2>0, <4>1, ReturnEffect
        <4> QED
          BY <2>2, <4>2 DEF Critical
      <3>5. CASE Acquire(t)
        BY <2>0, <2>2, <3>5 DEF Acquire, Lock, Woken, Goto
      <3>6. CASE SpuriousWake(t) \/ UseAfterFree(t)
        BY <2>2, <3>6 DEF SpuriousWake, UseAfterFree
      <3>7. CASE PreSignal(t) \/ Push(t) \/ PutSignal(t) \/ ReadSize(t)
                 \/ GetExit(t) \/ GetTake(t) \/ GetRefFails(t) \/ GetWait(t)
                 \/ ClearBody(t) \/ NoticeFrame(t)
        BY <2>0, <2>2, <3>7
        DEF PreSignal, Push, PutSignal, ReadSize, GetExit, GetTake, GetRefFails,
            GetWait, ClearBody, NoticeFrame, Goto
      <3> QED
        BY <1>2, <3>1, <3>2, <3>3, <3>4, <3>5, <3>6, <3>7 DEF Step
    <2> QED
      BY <2>1, <2>2
  <1> QED
    BY <1>1, <1>2 DEF Next

\* A half has one getter, so at most one thread sleeps on it.
LEMMA OneWaiter ==
  ASSUME TypeOK, WaitersGet, NEW h \in Half, NEW t \in waiters[h], NEW u \in waiters[h]
  PROVE  t = u
  <1>1. t \in Threads /\ u \in Threads
    BY DEF TypeOK
  <1>2. /\ pc[t] = "waiting" /\ half[t] = h
        /\ pc[u] = "waiting" /\ half[u] = h
    BY DEF WaitersGet
  <1>3. <<"get", h>> \in Calls[t] /\ <<"get", h>> \in Calls[u]
    BY <1>1, <1>2 DEF WaitersGet
  <1> QED
    BY <1>1, <1>3, OneGetter

LEMMA WakeupInit == Init => NoLostItemWakeup
  BY DEF Init, NoLostItemWakeup

LEMMA WakeupNext ==
  TypeOK /\ WaitersGet /\ WaitsOnEmpty /\ NoLostItemWakeup /\ [Next]_vars
    => NoLostItemWakeup'
  <1> SUFFICES ASSUME TypeOK, WaitersGet, WaitsOnEmpty, NoLostItemWakeup, [Next]_vars
               PROVE  NoLostItemWakeup'
    OBVIOUS
  <1>1. CASE UNCHANGED vars \/ RaiseExit
    BY <1>1 DEF vars, RaiseExit, NoLostItemWakeup
  <1>2. ASSUME NEW t \in Threads,
               Call(t) \/ Step(t) \/ Acquire(t) \/ SpuriousWake(t)
        PROVE  NoLostItemWakeup'
    <2> SUFFICES ASSUME NEW h \in Half, waiters'[h] # {}, queue'[h] # <<>>
                 PROVE  \E u \in Threads : pc'[u] = "putSignal" /\ half'[u] = h
      BY DEF NoLostItemWakeup
    <2>0. /\ pc \in [Threads -> Label] /\ half \in [Threads -> Half]
          /\ queue \in [Half -> Seq(Nat)] /\ waiters \in [Half -> SUBSET Threads]
      BY DEF TypeOK
    <2>1. CASE Push(t) /\ half[t] = h
      BY <2>0, <2>1 DEF Push, Goto
    <2>2. ASSUME waiters[h] # {}, queue[h] # <<>>, pc[t] # "putSignal" \/ half[t] # h
          PROVE  \E u \in Threads : pc'[u] = "putSignal" /\ half'[u] = h
      <3>1. PICK u \in Threads : pc[u] = "putSignal" /\ half[u] = h
        BY <2>2 DEF NoLostItemWakeup
      <3>2. u # t
        BY <2>2, <3>1
      <3> QED
        BY <1>2, <3>1, <3>2, OthersStay
    <2>3. CASE PutSignal(t) /\ half[t] = h
      <3>1. Signal(h) /\ waiters[h] # {}
        BY <2>0, <2>3, SignalEffect DEF PutSignal
      <3>2. PICK w \in waiters[h] : waiters'[h] = waiters[h] \ {w}
        BY <3>1, SignalEffect
      <3>3. waiters[h] = {w}
        BY <2>0, OneWaiter
      <3> QED
        BY <3>2, <3>3
    <2>4. CASE GetWait(t)
      <3>1. queue' = queue /\ queue[half[t]] = <<>>
        BY <2>4 DEF GetWait, WaitsOnEmpty
      <3>2. h # half[t]
        BY <3>1
      <3>3. waiters'[h] = waiters[h] /\ pc[t] # "putSignal"
        BY <2>0, <2>4, <3>2 DEF GetWait
      <3> QED
        BY <2>2, <3>1, <3>3
    <2>5. CASE ~GetWait(t) /\ ~(Push(t) /\ half[t] = h) /\ ~(PutSignal(t) /\ half[t] = h)
      <3>1. waiters[h] # {}
        <4>1. CASE PreSignal(t) \/ PutSignal(t) \/ NoticeFrame(t) \/ NoticePacket(t)
          <5>1. \E g \in Half : Signal(g)
            BY <2>0, <4>1 DEF PreSignal, PutSignal, NoticeFrame, NoticePacket, Half
          <5> QED
            BY <5>1, SignalEffect
        <4>2. CASE SpuriousWake(t)
          BY <2>0, <4>2 DEF SpuriousWake
        <4>3. CASE Call(t) \/ Acquire(t)
          BY <4>3 DEF Call, Acquire, Lock, Woken
        <4>4. CASE Push(t) \/ ReadSize(t) \/ GetExit(t) \/ GetTake(t)
                   \/ GetRefFails(t) \/ GetEmpty(t) \/ GetRecheck(t)
                   \/ ClearBody(t) \/ UseAfterFree(t) \/ Unlock(t)
          BY <4>4 DEF Push, ReadSize, GetExit, GetTake, GetRefFails, GetEmpty,
                      GetRecheck, ClearBody, UseAfterFree, Unlock
        <4> QED
          BY <1>2, <2>5, <4>1, <4>2, <4>3, <4>4 DEF Step
      <3>2. queue[h] # <<>>
        <4>1. CASE queue'[h] = queue[h]
          BY <4>1
        <4>2. CASE GetTake(t)
          BY <2>0, <4>2 DEF GetTake
        <4>3. CASE ClearBody(t)
          <5>1. CASE h = half[t]
            <6> SUFFICES ASSUME queue[h] = <<>> PROVE FALSE
              OBVIOUS
            <6>1. PICK n \in 0..Len(queue[h]) :
                     queue' = [queue EXCEPT ![h] = SubSeq(@, n + 1, Len(@))]
              BY <4>3, <5>1 DEF ClearBody
            <6>2. n = 0 /\ queue'[h] = SubSeq(<<>>, 1, 0)
              BY <2>0, <6>1
            <6> QED
              BY <6>2
          <5>2. CASE h # half[t]
            BY <2>0, <4>3, <5>2 DEF ClearBody
          <5> QED
            BY <5>1, <5>2
        <4>4. CASE Push(t) /\ half[t] # h
          BY <2>0, <4>4 DEF Push
        <4> QED
          BY <1>2, <2>5, <4>1, <4>2, <4>3, <4>4, QueueEffect
      <3>3. pc[t] # "putSignal" \/ half[t] # h
        <4>1. CASE pc[t] = "putSignal"
          <5>1. PutSignal(t)
            BY <1>2, <4>1
            DEF Call, Step, Acquire, SpuriousWake, Lock, Woken, PreSignal, Push,
                ReadSize, GetExit, GetTake, GetRefFails, GetEmpty, GetRecheck,
                GetWait, ClearBody, UseAfterFree, Unlock, NoticeFrame, NoticePacket
          <5> QED
            BY <2>5, <5>1
        <4> QED
          BY <4>1
      <3> QED
        BY <2>2, <3>1, <3>2, <3>3
    <2> QED
      BY <2>1, <2>3, <2>4, <2>5
  <1> QED
    BY <1>1, <1>2 DEF Next

-----------------------------------------------------------------------------
\* The items.

\* The invariants on items, for one half.
Items(h) ==
    /\ Left(h) \in Nat
    /\ \A i \in 1..Len(queue[h]) : queue[h][i] = Left(h) + i
    /\ \A i \in 1..Len(delivered[h]) : delivered[h][i] <= Left(h)
    /\ \A i, j \in 1..Len(delivered[h]) : i < j => delivered[h][i] < delivered[h][j]
    /\ \A n \in 1..produced[h] : n <= Left(h) => n \in freed[h] \union leaked[h]
    /\ \A n \in leaked[h] : n <= Left(h)
    /\ \A n \in freed[h] :
          n <= Left(h) \/ (RefCanFail /\ n = Left(h) + 1 /\ queue[h] # <<>>)

ItemsInv == QueueIsSuffix /\ DeliveredInOrder /\ MemoryAccounted

LEMMA ItemsEquiv == ItemsInv <=> \A h \in Half : Items(h)
  BY DEF ItemsInv, QueueIsSuffix, DeliveredInOrder, MemoryAccounted, Items

\* The steps that change what is known of items leave the other half alone.
data == <<queue, produced, delivered, freed, leaked>>

LEMMA DataEffect ==
  ASSUME TypeOK, NEW t \in Threads,
         Call(t) \/ Step(t) \/ Acquire(t) \/ SpuriousWake(t)
  PROVE  \/ UNCHANGED data
         \/ /\ Push(t) \/ GetTake(t) \/ GetRefFails(t) \/ ClearBody(t)
            /\ \A g \in Half : g # half[t] =>
                  /\ queue'[g] = queue[g] /\ produced'[g] = produced[g]
                  /\ delivered'[g] = delivered[g]
                  /\ freed'[g] = freed[g] /\ leaked'[g] = leaked[g]
  <1> USE DEF TypeOK, memory, data
  <1>1. CASE Call(t) \/ Acquire(t) \/ SpuriousWake(t)
    BY <1>1 DEF Call, Acquire, Lock, Woken, SpuriousWake
  <1>2. CASE PreSignal(t) \/ PutSignal(t) \/ ReadSize(t) \/ GetExit(t)
             \/ GetEmpty(t) \/ GetRecheck(t) \/ GetWait(t)
             \/ UseAfterFree(t) \/ Unlock(t) \/ NoticeFrame(t) \/ NoticePacket(t)
    BY <1>2 DEF PreSignal, PutSignal, ReadSize, GetExit, GetEmpty,
                GetRecheck, GetWait, UseAfterFree, Unlock, NoticeFrame, NoticePacket
  <1>3. CASE Push(t)
    BY <1>3 DEF Push
  <1>4. CASE GetTake(t)
    BY <1>4 DEF GetTake
  <1>5. CASE GetRefFails(t)
    BY <1>5 DEF GetRefFails
  <1>6. CASE ClearBody(t)
    BY <1>6 DEF ClearBody
  <1> QED
    BY <1>1, <1>2, <1>3, <1>4, <1>5, <1>6 DEF Step

LEMMA ItemsPush ==
  ASSUME TypeOK, NEW t \in Threads, NEW h \in Half, h = half[t],
         Push(t), Items(h)
  PROVE  Items(h)'
  <1> DEFINE q == queue[h]
             p == produced[h]
  <1>0. q \in Seq(Nat) /\ p \in Nat
    BY DEF TypeOK, Push
  <1>1. /\ queue'[h] = Append(q, p + 1) /\ produced'[h] = p + 1
        /\ delivered'[h] = delivered[h]
        /\ freed'[h] = freed[h] /\ leaked'[h] = leaked[h]
    BY <1>0 DEF Push, TypeOK
  <1>2. /\ Len(queue'[h]) = Len(q) + 1
        /\ \A i \in 1..Len(q) : queue'[h][i] = q[i]
        /\ queue'[h][Len(q) + 1] = p + 1
        /\ queue'[h] # <<>>
    BY <1>0, <1>1, AppendProperties
  <1>3. Len(q) \in Nat /\ Left(h) = p - Len(q) /\ Left(h) \in Nat
    BY <1>0, LenProperties DEF Left, Items
  <1>4. Left(h)' = Left(h)
    <2>1. Left(h)' = produced'[h] - Len(queue'[h])
      BY DEF Left
    <2> QED
      BY <1>0, <1>1, <1>2, <1>3, <2>1
  <1>5. \A i \in 1..Len(queue'[h]) : queue'[h][i] = Left(h) + i
    <2> SUFFICES ASSUME NEW i \in 1..Len(queue'[h])
                 PROVE  queue'[h][i] = Left(h) + i
      OBVIOUS
    <2>1. i \in 1..Len(q) \/ i = Len(q) + 1
      BY <1>2, <1>3
    <2>2. CASE i \in 1..Len(q)
      BY <1>2, <2>2 DEF Items
    <2>3. CASE i = Len(q) + 1
      BY <1>0, <1>2, <1>3, <2>3
    <2> QED
      BY <2>1, <2>2, <2>3
  <1>6. \A n \in 1..produced'[h] : n <= Left(h) => n \in freed[h] \union leaked[h]
    BY <1>0, <1>1, <1>3 DEF Items
  <1> QED
    BY <1>0, <1>1, <1>2, <1>4, <1>5, <1>6 DEF Items

LEMMA ItemsTake ==
  ASSUME TypeOK, NEW t \in Threads, NEW h \in Half, h = half[t],
         GetTake(t), Items(h)
  PROVE  Items(h)'
  <1> DEFINE q == queue[h]
             d == delivered[h]
  <1>0. /\ q \in Seq(Nat) /\ q # <<>> /\ d \in Seq(Nat)
        /\ produced[h] \in Nat
    BY DEF TypeOK, GetTake
  <1>1. /\ queue'[h] = Tail(q) /\ produced'[h] = produced[h]
        /\ delivered'[h] = Append(d, Head(q))
        /\ freed'[h] = freed[h] \union {Head(q)} /\ leaked'[h] = leaked[h]
        /\ Head(q) \notin freed[h]
    BY <1>0 DEF GetTake, TypeOK
  <1>2. /\ Len(q) \in Nat /\ Len(q) > 0
        /\ Len(Tail(q)) = Len(q) - 1
        /\ \A i \in 1..(Len(q) - 1) : Tail(q)[i] = q[i + 1]
        /\ Head(q) = q[1]
    BY <1>0, HeadTailProperties, LenProperties
  <1>3. Head(q) = Left(h) + 1 /\ Left(h) \in Nat /\ Left(h) = produced[h] - Len(q)
    BY <1>2 DEF Items, Left
  <1>4. Left(h)' = Left(h) + 1
    <2>1. Left(h)' = produced'[h] - Len(queue'[h])
      BY DEF Left
    <2> QED
      BY <1>0, <1>1, <1>2, <1>3, <2>1
  <1>5. \A i \in 1..Len(queue'[h]) : queue'[h][i] = Left(h)' + i
    BY <1>1, <1>2, <1>3, <1>4 DEF Items
  <1>6. /\ Len(delivered'[h]) = Len(d) + 1 /\ Len(d) \in Nat
        /\ \A i \in 1..Len(d) : delivered'[h][i] = d[i] /\ d[i] \in Nat
        /\ delivered'[h][Len(d) + 1] = Left(h) + 1
    <2>1. Left(h) + 1 \in Nat /\ delivered'[h] = Append(d, Left(h) + 1)
      BY <1>1, <1>3
    <2>2. Len(d) \in Nat /\ \A i \in 1..Len(d) : d[i] \in Nat
      BY <1>0, LenProperties, ElementOfSeq
    <2> QED
      BY <1>0, <2>1, <2>2, AppendProperties
  <1>7. \A i \in 1..Len(delivered'[h]) : delivered'[h][i] <= Left(h)'
    <2> SUFFICES ASSUME NEW i \in 1..Len(delivered'[h])
                 PROVE  delivered'[h][i] <= Left(h) + 1
      BY <1>4
    <2>1. CASE i = Len(d) + 1
      BY <1>3, <1>6, <2>1
    <2>2. CASE i \in 1..Len(d)
      BY <1>3, <1>6, <2>2 DEF Items
    <2> QED
      BY <1>6, <2>1, <2>2
  <1>8. \A i, j \in 1..Len(delivered'[h]) :
           i < j => delivered'[h][i] < delivered'[h][j]
    <2> SUFFICES ASSUME NEW i \in 1..Len(delivered'[h]),
                        NEW j \in 1..Len(delivered'[h]), i < j
                 PROVE  delivered'[h][i] < delivered'[h][j]
      OBVIOUS
    <2>1. i \in 1..Len(d) /\ d[i] <= Left(h)
      BY <1>6 DEF Items
    <2>2. CASE j = Len(d) + 1
      BY <1>3, <1>6, <2>1, <2>2
    <2>3. CASE j \in 1..Len(d)
      BY <1>6, <2>1, <2>3 DEF Items
    <2> QED
      BY <1>6, <2>2, <2>3
  <1>9. \A n \in 1..produced'[h] :
           n <= Left(h)' => n \in freed'[h] \union leaked'[h]
    <2> SUFFICES ASSUME NEW n \in 1..produced[h], n <= Left(h) + 1
                 PROVE  n \in freed[h] \union {Left(h) + 1} \union leaked[h]
      BY <1>1, <1>3, <1>4
    <2>1. n <= Left(h) \/ n = Left(h) + 1
      BY <1>0, <1>3
    <2> QED
      BY <2>1 DEF Items
  <1>10. \A n \in freed'[h] \union leaked'[h] : n <= Left(h)'
    <2> SUFFICES ASSUME NEW n \in freed'[h] \union leaked'[h] PROVE n <= Left(h)'
      OBVIOUS
    <2>1. n \in Nat
      BY <1>0, <1>1, <1>3 DEF TypeOK
    <2>2. n \in freed[h] \union leaked[h] \/ n = Left(h) + 1
      BY <1>1, <1>3
    <2> QED
      BY <1>3, <1>4, <2>1, <2>2 DEF Items
  <1>11. Left(h)' \in Nat
    BY <1>3, <1>4
  <1>12. \A n \in leaked'[h] : n <= Left(h)'
    BY <1>10
  <1>13. \A n \in freed'[h] :
            n <= Left(h)' \/ (RefCanFail /\ n = Left(h)' + 1 /\ queue'[h] # <<>>)
    BY <1>10
  <1> HIDE DEF q, d
  <1> QED
    BY <1>5, <1>7, <1>8, <1>9, <1>11, <1>12, <1>13 DEF Items

LEMMA ItemsRefFails ==
  ASSUME TypeOK, NEW t \in Threads, NEW h \in Half, h = half[t],
         GetRefFails(t), Items(h)
  PROVE  Items(h)'
  <1> DEFINE q == queue[h]
  <1>0. q \in Seq(Nat) /\ q # <<>>
    BY DEF TypeOK, GetRefFails
  <1>1. /\ queue'[h] = q /\ produced'[h] = produced[h] /\ RefCanFail
        /\ delivered'[h] = delivered[h] /\ leaked'[h] = leaked[h]
        /\ freed'[h] = freed[h] \union {Head(q)}
    BY <1>0 DEF GetRefFails, TypeOK
  <1>2. Head(q) = Left(h) + 1
    BY <1>0, HeadTailProperties, LenProperties DEF Items
  <1>3. Left(h)' = Left(h)
    BY <1>0, <1>1 DEF Left
  <1> QED
    BY <1>0, <1>1, <1>2, <1>3 DEF Items

LEMMA ItemsClear ==
  ASSUME TypeOK, NEW t \in Threads, NEW h \in Half, h = half[t],
         ClearBody(t), Items(h)
  PROVE  Items(h)'
  <1> DEFINE q == queue[h]
  <1>0. /\ q \in Seq(Nat) /\ Len(q) \in Nat
        /\ produced[h] \in Nat
    BY LenProperties DEF TypeOK, ClearBody
  <1>1. PICK n \in 0..Len(q) :
           LET gone == {queue[half[t]][i] : i \in 1..n} IN
           /\ queue' = [queue EXCEPT ![half[t]] = SubSeq(@, n + 1, Len(@))]
           /\ leaked' = [leaked EXCEPT ![half[t]] =
                            @ \union IF half[t] = "packet" THEN gone ELSE {}]
           /\ freed' = [freed EXCEPT ![half[t]] =
                            @ \union IF half[t] = "packet" THEN {} ELSE gone]
    BY DEF ClearBody
  <1>2. /\ queue'[h] = SubSeq(q, n + 1, Len(q))
        /\ produced'[h] = produced[h] /\ delivered'[h] = delivered[h]
        /\ q # <<>> => Head(q) \notin freed[h]
    BY <1>0, <1>1 DEF ClearBody, TypeOK
  <1>3. freed'[h] \union leaked'[h] = freed[h] \union leaked[h] \union {q[i] : i \in 1..n}
    BY <1>0, <1>1 DEF TypeOK
  <1>4. /\ Len(queue'[h]) = Len(q) - n
        /\ \A i \in 1..(Len(q) - n) : queue'[h][i] = q[n + i]
    <2>1. \A i \in (n + 1)..Len(q) : q[i] \in Nat
      BY <1>0, <1>1, ElementOfSeq
    <2>2. q \in Seq(Nat) /\ n + 1 \in Nat /\ Len(q) + 1 >= n + 1
      BY <1>0, <1>1
    <2>3. /\ Len(SubSeq(q, n + 1, Len(q))) =
                IF n + 1 <= Len(q) THEN Len(q) - (n + 1) + 1 ELSE 0
          /\ \A i \in 1..(Len(q) - (n + 1) + 1) :
                SubSeq(q, n + 1, Len(q))[i] = q[(n + 1) + i - 1]
      BY <1>0, <2>1, <2>2, SubSeqProperties
    <2>4. /\ Len(q) - (n + 1) + 1 = Len(q) - n
          /\ ~(n + 1 <= Len(q)) => Len(q) - n = 0
          /\ \A i \in 1..(Len(q) - n) : (n + 1) + i - 1 = n + i
      BY <1>0
    <2> QED
      BY <1>2, <2>3, <2>4
  <1>5. Left(h) \in Nat /\ Left(h) = produced[h] - Len(q)
    BY DEF Items, Left
  <1>6. Left(h)' = Left(h) + n
    <2>1. Left(h)' = produced'[h] - Len(queue'[h])
      BY DEF Left
    <2> QED
      BY <1>0, <1>1, <1>2, <1>4, <1>5, <2>1
  <1>7. {q[i] : i \in 1..n} = {Left(h) + i : i \in 1..n}
    <2>1. \A i \in 1..n : q[i] = Left(h) + i
      BY <1>0 DEF Items
    <2> QED
      BY <2>1
  <1>8. \A i \in 1..Len(queue'[h]) : queue'[h][i] = Left(h)' + i
    <2> SUFFICES ASSUME NEW i \in 1..(Len(q) - n)
                 PROVE  q[n + i] = Left(h) + n + i
      BY <1>4, <1>6
    <2>1. n + i \in 1..Len(q) /\ Left(h) + (n + i) = Left(h) + n + i
      BY <1>0, <1>1, <1>5
    <2> QED
      BY <2>1 DEF Items
  <1>9. \A i \in 1..Len(delivered[h]) : delivered[h][i] <= Left(h)'
    <2> SUFFICES ASSUME NEW i \in 1..Len(delivered[h])
                 PROVE  delivered[h][i] <= Left(h) + n
      BY <1>6
    <2>1. delivered[h] \in Seq(Nat)
      BY DEF TypeOK
    <2>2. delivered[h][i] \in Nat
      BY <2>1, ElementOfSeq
    <2>3. delivered[h][i] <= Left(h)
      BY DEF Items
    <2>4. n \in Nat
      BY <1>0, <1>1
    <2> QED
      BY <1>5, <2>2, <2>3, <2>4
  <1>10. \A m \in 1..produced[h] :
            m <= Left(h)' => m \in freed'[h] \union leaked'[h]
    <2> SUFFICES ASSUME NEW m \in 1..produced[h], m <= Left(h) + n, ~(m <= Left(h))
                 PROVE  m \in {Left(h) + i : i \in 1..n}
      BY <1>3, <1>6, <1>7 DEF Items
    <2>1. m - Left(h) \in 1..n /\ m = Left(h) + (m - Left(h))
      BY <1>0, <1>1, <1>5
    <2> QED
      BY <2>1
  <1>11. \A m \in freed[h] \union leaked[h] : m <= Left(h)
    <2>1. q # <<>> => Left(h) + 1 \notin freed[h]
      <3> SUFFICES ASSUME q # <<>> PROVE Left(h) + 1 \notin freed[h]
        OBVIOUS
      <3>1. 1 \in 1..Len(q) /\ Head(q) = q[1]
        BY <1>0
      <3>2. Head(q) = Left(h) + 1
        BY <3>1 DEF Items
      <3> QED
        BY <1>2, <3>2
    <2> QED
      BY <2>1 DEF Items
  <1>12. \A m \in freed'[h] \union leaked'[h] : m <= Left(h)'
    <2> SUFFICES ASSUME NEW m \in freed'[h] \union leaked'[h]
                 PROVE  m <= Left(h) + n
      BY <1>6
    <2>1. CASE m \in freed[h] \union leaked[h]
      <3>1. m \in Nat /\ m <= Left(h)
        BY <1>11, <2>1 DEF TypeOK
      <3> QED
        BY <1>1, <1>5, <3>1
    <2>2. CASE m \in {Left(h) + i : i \in 1..n}
      BY <1>1, <1>5, <2>2
    <2> QED
      BY <1>3, <1>7, <2>1, <2>2
  <1>13. Left(h)' \in Nat
    BY <1>1, <1>5, <1>6
  <1>14. \A i, j \in 1..Len(delivered'[h]) :
            i < j => delivered'[h][i] < delivered'[h][j]
    BY <1>2 DEF Items
  <1> QED
    BY <1>2, <1>8, <1>9, <1>10, <1>12, <1>13, <1>14 DEF Items

LEMMA ItemsInit == Init => ItemsInv
  <1> SUFFICES ASSUME Init, NEW h \in Half PROVE Items(h)
    BY ItemsEquiv
  <1>1. /\ queue[h] = <<>> /\ delivered[h] = <<>> /\ produced[h] = 0
        /\ freed[h] = {} /\ leaked[h] = {}
    BY DEF Init
  <1>2. Left(h) = 0
    <2>1. Len(queue[h]) = 0
      BY <1>1, EmptySeq
    <2>2. produced[h] = 0 /\ Left(h) = produced[h] - Len(queue[h])
      BY <1>1 DEF Left
    <2> QED
      BY <2>1, <2>2
  <1> QED
    BY <1>1, <1>2 DEF Items

LEMMA ItemsNext == TypeOK /\ ItemsInv /\ [Next]_vars => ItemsInv'
  <1> SUFFICES ASSUME TypeOK, ItemsInv, [Next]_vars, NEW h \in Half PROVE Items(h)'
    <2>1. (\A h \in Half : Items(h)') => ItemsInv'
      BY DEF ItemsInv, QueueIsSuffix, DeliveredInOrder, MemoryAccounted, Items
    <2> QED
      BY <2>1
  <1>0. Items(h)
    BY ItemsEquiv
  <1>1. CASE UNCHANGED data
    BY <1>0, <1>1 DEF data, Items, Left
  <1>2. CASE UNCHANGED vars \/ RaiseExit
    BY <1>1, <1>2 DEF vars, RaiseExit, memory, data
  <1>3. ASSUME NEW t \in Threads,
               Call(t) \/ Step(t) \/ Acquire(t) \/ SpuriousWake(t)
        PROVE  Items(h)'
    <2>1. CASE h = half[t] /\ (Push(t) \/ GetTake(t) \/ GetRefFails(t) \/ ClearBody(t))
      BY <1>0, <2>1, ItemsPush, ItemsTake, ItemsRefFails, ItemsClear
    <2>2. CASE /\ queue'[h] = queue[h] /\ produced'[h] = produced[h]
               /\ delivered'[h] = delivered[h]
               /\ freed'[h] = freed[h] /\ leaked'[h] = leaked[h]
      BY <1>0, <2>2 DEF Items, Left
    <2> QED
      BY <1>1, <1>3, <2>1, <2>2, DataEffect
  <1> QED
    BY <1>2, <1>3 DEF Next

\* Only the step that looks at a freed front item sets the fault flag, and
\* there is one only after a failed reference.
LEMMA FaultNext ==
  TypeOK /\ ItemsInv /\ FaultNeedsRefFailure /\ [Next]_vars => FaultNeedsRefFailure'
  <1> SUFFICES ASSUME TypeOK, ItemsInv, FaultNeedsRefFailure, [Next]_vars
               PROVE  FaultNeedsRefFailure'
    OBVIOUS
  <1>1. ASSUME NEW t \in Threads, UseAfterFree(t) PROVE RefCanFail
    <2> DEFINE h == half[t]
    <2>1. /\ h \in Half /\ queue[h] \in Seq(Nat) /\ queue[h] # <<>>
          /\ Head(queue[h]) \in freed[h]
      BY <1>1 DEF UseAfterFree, TypeOK
    <2>2. 1 \in 1..Len(queue[h]) /\ Head(queue[h]) = queue[h][1]
      BY <2>1
    <2>3. Head(queue[h]) = Left(h) + 1 /\ Left(h) \in Nat
      BY <2>1, <2>2 DEF ItemsInv, QueueIsSuffix
    <2> QED
      BY <2>1, <2>3 DEF ItemsInv, MemoryAccounted
  <1>2. fault' = fault \/ \E t \in Threads : UseAfterFree(t)
    BY DEF Next, vars, memory, RaiseExit, Call, Step, Acquire, SpuriousWake, Lock,
           Woken, PreSignal, Push, PutSignal, ReadSize, GetExit, GetTake,
           GetRefFails, GetEmpty, GetRecheck, GetWait, ClearBody, Unlock,
           NoticeFrame, NoticePacket
  <1> QED
    BY <1>1, <1>2 DEF FaultNeedsRefFailure

-----------------------------------------------------------------------------
\* What holds in every behaviour.

\* The invariant is inductive.
THEOREM Invariance == Spec => []IInv
  <1>1. Init => IInv
    BY TypeInit, MutexInit, GetterInit, WaitsInit, WakeupInit, ItemsInit
    DEF IInv, ItemsInv, Init, FaultNeedsRefFailure
  <1>2. IInv /\ [Next]_vars => IInv'
    BY TypeNext, MutexNext, GetterNext, WaitsNext, WakeupNext, ItemsNext, FaultNext
    DEF IInv, ItemsInv
  <1> QED
    BY <1>1, <1>2, PTL DEF Spec

\* No signal of putAvpacket or putAvframe is lost: a getter never sleeps on a
\* half that holds an item nobody is about to announce.
THEOREM WakeupsKept == Spec => []NoLostItemWakeup
  BY Invariance, PTL DEF IInv

\* getAvpacket and getAvframe hand items out in the order of the puts and none
\* twice, whatever is cleared in between.
THEOREM InOrder == Spec => []DeliveredInOrder
  BY Invariance, PTL DEF IInv

\* Items are freed or dropped when they leave the queue and not before.
THEOREM Accounted == Spec => []MemoryAccounted
  BY Invariance, PTL DEF IInv

-----------------------------------------------------------------------------
\* The refinement of PacketFifo.

LEMMA StepRefines ==
  ASSUME IInv, [Next]_vars
  PROVE  [Fifo!Next]_(Fifo!vars)
  <1> USE DEF IInv, TypeOK
  <1>1. CASE UNCHANGED data
    BY <1>1 DEF data, Fifo!vars
  <1>2. CASE UNCHANGED vars \/ RaiseExit
    BY <1>1, <1>2 DEF vars, RaiseExit, memory, data
  <1>3. ASSUME NEW t \in Threads, Push(t) PROVE Fifo!Put(half[t])
    BY <1>3 DEF Push, Fifo!Put
  <1>4. ASSUME NEW t \in Threads, GetTake(t) PROVE Fifo!Deliver(half[t])
    BY <1>4 DEF GetTake, Fifo!Deliver
  <1>5. ASSUME NEW t \in Threads, GetRefFails(t) PROVE UNCHANGED Fifo!vars
    BY <1>5 DEF GetRefFails, Fifo!vars
  <1>6. ASSUME NEW t \in Threads, ClearBody(t)
        PROVE  Fifo!Discard(half[t]) \/ UNCHANGED Fifo!vars
    <2> DEFINE h == half[t]
    <2>0. h \in Half /\ queue[h] \in Seq(Nat)
      OBVIOUS
    <2>1. PICK n \in 0..Len(queue[h]) :
             queue' = [queue EXCEPT ![h] = SubSeq(@, n + 1, Len(@))]
      BY <1>6 DEF ClearBody
    <2>2. UNCHANGED <<produced, delivered>>
      BY <1>6 DEF ClearBody
    <2>3. CASE n = 0
      <3>1. SubSeq(queue[h], 1, Len(queue[h])) = queue[h]
        BY <2>0, SubSeqProperties
      <3>2. queue' = queue
        BY <2>0, <2>1, <2>3, <3>1
      <3> QED
        BY <2>2, <3>2 DEF Fifo!vars
    <2>4. CASE n \in 1..Len(queue[h])
      BY <2>1, <2>2, <2>4 DEF Fifo!Discard
    <2>5. n = 0 \/ n \in 1..Len(queue[h])
      BY <2>0, LenProperties
    <2> QED
      BY <2>3, <2>4, <2>5
  <1>7. ASSUME NEW t \in Threads,
               Call(t) \/ Step(t) \/ Acquire(t) \/ SpuriousWake(t)
        PROVE  [Fifo!Next]_(Fifo!vars)
    <2>1. half[t] \in Half
      OBVIOUS
    <2> QED
      BY <1>1, <1>3, <1>4, <1>5, <1>6, <1>7, <2>1, DataEffect DEF Fifo!Next
  <1> QED
    BY <1>2, <1>7 DEF Next

\* CCLQueue, with its mutexes, signals and memory, implements the two FIFO
\* channels of PacketFifo.
THEOREM Refinement == Spec => ImplementsFifo
  <1>1. Init => Fifo!Init
    BY DEF Init, Fifo!Init
  <1>2. IInv /\ [Next]_vars => [Fifo!Next]_(Fifo!vars)
    BY StepRefines
  <1> QED
    BY <1>1, <1>2, Invariance, PTL DEF Spec, ImplementsFifo, Fifo!Spec
=============================================================================
