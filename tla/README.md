# A verification of the CCL player

The repository is an Android player: a thin Java activity over a C++ library
(`src/app/src/main/cpp`) that demuxes with FFmpeg 3.2.5, plays audio through
OpenSL ES and hands video packets to MediaCodec. This directory holds TLA+
modules of that library, the TLC configurations that check them on small
instances, and TLAPS proofs of what matters most for every instance.

File names without a directory are in `src/app/src/main/cpp`.

## Inventory

| Component | State | Operations | Talks to |
|---|---|---|---|
| `CCLQueue` | `queuePacket`, `queueFrame`, a mutex and a condition variable for each | put, get, size, three clears, `noticeThread`, `release` | every thread of the player |
| `CCLFFmpeg::decodeFFmpeg` | two deques of streams, `cclAudio`, `cclVideo`, `mimeType`, `exit`, `init_mutex` | opens the input, makes the players | Java callbacks, FFmpeg |
| `CCLFFmpeg::start` | the packet in hand | the reading loop, end of input, completion | both packet queues, `seek_mutex` |
| `CCLFFmpeg::pause`, `resume`, `seek` | the flags, `seek_mutex` | the user's operations while the threads run | queues and clocks of both players |
| `CCLFFmpeg::release`, `CCLAudio::realease`, `CCLVideo::release` | `exit`, `isExit`, `isExit2` | capped waits and deletes | all threads |
| `CCLPlayStatus` | `exit`, `pause`, `load`, `seek`: four bools without a lock | none | all threads |
| `CCLAudio` | `isReadPacketFinish`, the decoder, `clock`, OpenSL objects | `getPcmData`, `initOPenSL`, the buffer callback | its queue, the decoder |
| `CCLVideo` | `clock`, `playcount`, `delayTime`, the decoder | `decodVideo`, `codecFrame`, `getDelayTime`, `synchronize` | its queue, `CCLAudio::clock` |
| `CCLJavaCall` | method ids | the callbacks into Java | `MainActivity` |
| `CCLjni`, `MainActivity` | one global `CCLFFmpeg` | `cclPrepared`, `cclStart` | all of the above |
| `CCLBasePlayer`, `CCLAudioChannel`, `utils` | data, macros | none | |

`CCLjni` offers Java two methods, `cclPrepared` and `cclStart`: nobody in the
repository calls `pause`, `resume`, `seek` or `release`. They are public, and
modelled as calls that may come at any time.

The hard behaviour is in what is shared without a lock: the flags of
`CCLPlayStatus`, the load flag that two players write and `seek` reads, the
sizes of queues that are tested in one critical section and relied on in the
next, and an exit flag that is raised without waking who sleeps. The list of
hazards, each at its line, is in `PROJECT.json`.

What makes the components correct:

- the queue: no lost wakeup, order, single delivery, memory accounted for,
  calls that end;
- the preparation: the players that are left play the last usable streams, know
  each other, and the user is told the outcome;
- the native methods: one object, prepared before it is played, whatever the Java
  threads do, or a name for the order of calls that breaks it;
- the teardown: nothing is used after it was deleted, nothing is left, a release
  ends;
- the synchronisation: a delay within bounds, a video that comes to keep to the
  audio, drops that are spaced, a stopped audio that is not waited for;
- the playing threads: bounded, ordered queues; nothing old left after a seek;
  a clock that can be trusted; the loading notice shown right; an end that is
  reached and reported once.

## Modules

| Module | Models |
|---|---|
| `PacketFifo` | what a queue promises: two FIFO channels shortened from the front |
| `CCLQueue` | `CCLQueue.cpp`, one step for each access another thread can see |
| `CCLPrepare` | `decodeFFmpeg` with `setAudioChannel`, `setVideoChannel`, `getAvCodecContext` |
| `CCLPlayStatus` | the state the playing threads share, and the steps `getPcmData` and `decodVideo` have in common |
| `CCLDemux` | `CCLFFmpeg::start` |
| `CCLAudio` | `getPcmData` with the decoder's send and receive |
| `CCLVideo` | `decodVideo` for `codecType` 1 |
| `CCLControl` | `pause`, `resume`, `seek`, and of `release` the raising of `exit` |
| `CCLPlayer` | the four threads composed, their fairness, and the properties |
| `CCLSoftVideo` | `codecFrame` and `decodVideo` for `codecType` 0, composed with `CCLDemux` and `CCLControl` |
| `CCLSync` | `getDelayTime` and what `decodVideo` does with a packet's time |
| `CCLTeardown` | `release`, `realease`, `CCLVideo::release` against the end of the preparation and the playing threads |
| `CCLLifecycle` | `cclPrepared`, `cclStart` and `release` over the global object |
| `MC...` | the small instances TLC checks |
| `..._proofs` | theorems about the module of that name |

One program is looked at from several sides, and each module reduces what it is
not about: `CCLPlayer` keeps the packets and the flags and stops at `exit`;
`CCLTeardown` keeps which part of a player each step touches and forgets the
packets; `CCLLifecycle` keeps the order of whole operations on an object;
`CCLSync` keeps the times alone.

**CCLQueue.** `pc` says where each thread is in its operation. Between lock and
unlock the queue changes in one step, because nobody else can look; the
signals, the reads of the exit flag and the wait are steps of their own. Items
are numbered by their put, so order can be stated. `freed` and `leaked` say what
became of an item's memory; they and `delivered` record history and guard
nothing but the use of a front item that was freed after `av_packet_ref` failed.
A `get` may only be called by one thread for each half, as in the player.

**CCLPrepare.** Every layout of streams is an initial state. An audio or video
object is a number, counted up at each `new`; object 0 is NULL. `mimeType` is a
bool in the code, so -1 is converted to true (`AsBool`). The quotient of the
frame rate may be 0: `ZeroDivision` says whether the process dies (x86) or goes on
with the rate 0 (ARM); the run allows both.

**CCLPlayer.** A queue is a sequence here, because `CCLQueue` implements two
FIFO channels (`ImplementsFifo`). A packet carries the time it stands for and the
epoch, the number of seeks, it was read in. `Streams` are the streams of the input.
`epoch`, `refused`, `lost` and `staleShown` are history variables, and so are
`unplayed`, what was queued for each player since the last seek and not taken yet,
and `ended`, whether the end of the input was read after it. The video's thread
reads its clock twice and writes it in steps of their own (`Compare`, `Raise`,
`Show`), as `seek` resets it without a lock. The audio thread ends with the first frame
it converts: `getPcmData` returns 0 on every path, so the callback enqueues
nothing and OpenSL does not call again. `dst_format` is never initialised, so
whether it is a sample format is chosen at the start; `swr_convert` writes to a
NULL buffer, so the process may die there. A video without an audio dies at its
first packet, whose log line reads the audio's clock.

Three library functions have behaviour the model takes from the code or header
beside it: `avcodec_send_packet` refuses with EAGAIN while frames are ready;
`av_freep` reads through its argument (`src/app/src/main/ffmpeg-3.2.5/libavutil/mem.c:243`);
a condition variable may wake spuriously. `FreepNull` says what `av_freep(NULL)`
does. With `"fault"`, what the library does, every input ends the process at the
first packet of another stream or at the end of the input, which is the finding
of `player_freep`. The other runs of `CCLPlayer` and that of `CCLSoftVideo` take
`"return"`: they ask what the rest of the code does once that line is mended.
`CCLLifecycle` names the same choice `FreepOutcomes`, and its run allows both.

**CCLSoftVideo.** `start` makes the thread of `codecFrame` when `mimeType` is -1,
which a bool never is, so this commit never runs it; the module says what the
code would do once the type is mended. `layout` holds the video alone: what the
audio plays is not followed, nor are the times of the frames and the clocks, so that
`synchronize` and what `getDelayTime` makes of a frame are left out and a frame may
be late or not. Pausing is left to `CCLPlayer`. The decoder is the set of the packets
whose frames it keeps back, `Delay` at most; it gives them in any order, as the order
of presentation need not be that of decoding, and a seek does not flush it. A packet
it refuses with EAGAIN is dropped while a frame is received all the same.

**CCLSync.** A state is the moment before a packet is taken. What matters is
`diff`, how far the audio's clock is ahead of the video's: a packet moves the
video's clock on, sleeping lets the audio's go on, and the next delay is computed
from the last. Times are whole numbers of 1/54 ms, in which the few products with
2/3 and 3/2 in a row are exact; cutting a sleep to whole microseconds is within
the `costs` of an iteration. A packet has a pts out of order or none at all. A packet
is taken for a key packet if its flags are exactly `AV_PKT_FLAG_KEY`, as in the
code. `PlayWrap` stands for the 500 of the code and keeps its remainder by 3, on
which the spacing of the drops depends.

**CCLTeardown.** No thread is joined. `release` waits for `exit` of `CCLFFmpeg`
and for `isExit` of each player, sets the flag itself when a counter of sleeps has
run out, and goes on. `Patient` says that the waits outlast whatever runs: they
are given up only when every other thread has ended, sleeps, or waits for the
network. `alive` holds the parts of the players that may be used, `Parts(p)`; every
step names the parts it touches and faults if one is gone. The audio's `isExit` is
set by no thread of its own (`getPcmData` sets it to false, the video's thread sets
its own to true at its end), so the wait for the audio always runs out, a hundred
seconds long. What the code's own teardown cannot wait for, however patient, is
the list `Excused`, and the exit flag of the preparation that comes after `start`
has cleared it (`overwritten`).

**CCLLifecycle.** Java threads call `cclPrepared`, `cclStart` and `release` in any
order, and a Java handler may call `cclStart` inside `onParpared`, on the decode
thread and under `init_mutex`. `misuse` records what a careful caller would not do:
two `cclPrepared` at once, a start before `onParpared`, a release before the
preparation has begun. The demuxer of a start with no players, after a preparation
that failed with its input open, has only packets of no player's stream and the end
of the input, and each gives `av_freep` NULL. The interrupt callback is set after the I/O layer has
copied its own, so `exit` aborts neither the open nor a read: both return when the
network lets them. `onComplete` detaches its thread, which is one of Java's; ART
aborts on that, other machines may not, so either may happen.

Operators whose comment starts with `Mutant` are wrong on purpose: each is what
a definition would be with a plausible mistake in the code, and shows that a
property notices it. They are used nowhere else.

## Runs

| Run | Instance | Distinct states | Shows |
|---|---|---|---|
| `queue` | 4 threads, all operations, 2 items a half, references may fail | 2.3 million | `NoLostItemWakeup`, `DeliveredInOrder`, `MemoryAccounted`, refinement of `PacketFifo` |
| `queue_live` | 3 threads on the packet half, fair | | a sleeper over an item is served, `noticeThread` ends a sleeping getter's call, calls end |
| `queue_leak` | as `queue`, references succeed | | finding: a clear drops `AVPacket`s |
| `prepare` | up to 4 streams, rates 0, 25, 60 | | which streams play, linking, notices, leaks, unlocking |
| `player` | any set of players, limit 1, 2 packets, 2 frames a packet, 1 seek | 4.8 million | bound, order, stale packets, clock, notices, what was played before the end, sleeping, lost packets, stall |
| `player_live` | any set of players, 1 packet, 1 seek, fair | | `exit` ends the demuxer and the players |
| `player_freep` | `av_freep(NULL)` faults | | finding: `av_freep` is given NULL |
| `player_refused` | one player, one seek | | finding: a refused packet is dropped |
| `teardown` | any set of players, 2 releases, patient waits, fair | 0.5 million | no use after delete but over an overtaken thread, which those are, nothing left, releases end |
| `lifecycle` | 2 interchangeable callers, 2 calls each, 1 pair of players, `av_freep(NULL)` faults or returns | 9.3 million | which orders of calls are safe, that what was taken stays taken, what a handler's playback keeps, a failure that is final |
| `sync` | 3 streams: fast device, the same with a stopped audio, slow device at 60 frames a second | 0.8 million | delay bounded, drops spaced, lag bounded, in sync at last, alone at its own rate |
| `soft_video` | limit 2, 4 packets, 1 seek, a decoder of delay 1, at most 1 packet before `codecFrame` stops | 12.3 million | what is left from before a seek, the stall over too many packets |

Bounds. Two items a half let a clear stop between them, a key packet stand
behind another, and a failed reference leave the front behind; the order and
memory of longer queues are proved. Four streams hold two of each kind in every
order with a stream of neither between. A limit of 1 stands for the 100 of the
code: the demuxer compares with it and nothing else, and the properties of `player`
are proved for every limit, input and number of seeks. Two packets and one seek
give a packet read before the seek and put after, with one queued before it; a
second seek starts from what the first left. `mimeType` is TRUE in the player runs:
with the filter a packet may still be put, so these behaviours include those
without it. Two releases meet at `init_mutex`; a third would find what the second
finds. Two callers with two calls each can prepare, start and release in every
order and overlap in each; `MaxPairs` 1 separates an input with players from one
without, which is all the demuxer tests. In `soft_video` a `DecodeLimit` of 1 and a
`Limit` of 2 keep the order of the code's 20 and 100, on which the stall depends;
with four packets there can be more from before a seek than the three, `Delay` + 2,
that `StaleFramesBounded` allows. Its constraint `Followed` leaves off a playback
that has both ended and had a seek: `exit` is never cleared, and both properties
speak of states without it.
`Far` in `sync` bounds how far the video gets ahead of an audio that stands still:
the state beyond it repeats the last, and it is why that run has no deadlock
check. `Far` is past the ten seconds `getDelayTime` looks at.

The callers of `lifecycle` are symmetric: nothing orders them, and its properties
are an invariant or an action property that no caller is named in.

No run checks for deadlock: threads return and stay where they are, and a getter
may sleep for ever when its queue is empty.

Fairness. In `CCLQueue` a thread inside a call keeps running and a mutex given
up again and again is not withheld from one thread for ever (`SF` on taking it);
nobody is obliged to call. In `CCLPlayer` each thread is scheduled, a seek once
begun is carried through, and a put's signal wakes a sleeper; the user is
obliged to nothing, so a paused player may stay paused. `ExitEndsPlayback` leaves
out a thread asleep in its queue on purpose: the demuxer raises `exit` at the end
of the input without `noticeThread`, and only a teardown would wake it. In
`CCLTeardown` the threads are scheduled, a read from the network need not
return, nobody need call `start`, and no spurious wakeup is relied on. In `CCLSync`
packets keep coming. `CCLLifecycle` and `CCLSoftVideo` state no liveness.

## What the checks say of the code

- The queue's locking is right for packets and frames: no wakeup is lost,
  although `noticeThread` and the clears signal without the mutex. What is not
  guaranteed is that a getter about to wait notices a `noticeThread`; it is only
  promised to one already asleep.
- After a seek at most one packet from before it is left, at the front of one
  queue. Once shown, it pins the clock of the video, which never goes back.
- The loading notice and the flag agree as long as one player at a time writes
  them; after a seek with both players they may not, so the statement stops there.
- The audio thread ends with its first frame; when its queue is full the whole
  playback stands still until a seek or a release (`StallIsPermanent`).
- At the end of the input one player that has taken all its packets ends the playback
  of both. A seek that comes between the end that was read and the test of the
  queues, which it clears, lets the playback end with nothing played where it went
  (`EofDrainsOne`).
- A preparation makes a new pair of players for each stream after the first
  usable one and leaks the earlier ones; an input whose first stream cannot be
  played fails without a word.
- A preparation that failed is final: the object stays, and no later
  `cclPrepared` does anything. A start after it, with the input open and no players,
  ends the process at its first packet or at the end of the input, over
  `av_freep(NULL)`.
- A release is safe from the threads it does not join as long as no wait passes a
  running one (`FaultNeedsOvertaking`). A patient wait still passes a start that has
  not begun or reads from the network, a player asleep on its queue, a video that
  has not yet marked that it runs, and a start whose `exit` the preparation has
  overwritten (`OvertakesOnly`).
- `getDelayTime` closes its loop well: from anywhere within ten seconds the video
  comes to within a group of frames of the audio on a device that is fast enough.
  On one just fast enough for the stream it stays within `Lateness`, half a second
  (one second with a high frame rate) and a longest delay and a group besides
  (`LagBounded`). That bound holds of what the video is behind by as its packets
  count (`Behind`), not of the lag the code measures: the code's clock is taken to
  the latest frame decoded, so the lag swings by the frames it ran ahead.
  Further apart it plays at its own rate and does not recover. Since the audio's
  clock stands still in this commit, the video waits until it is ten seconds
  ahead and then plays alone.
- The software decoder, once it is chosen, stops for good over more than 20
  packets that a fast demuxer has queued. After a seek up to two frames more than the
  decoder keeps back are still shown from before it, as it is not flushed.

## Proofs

All proof modules follow one pattern: an invariant that is inductive, `Init`
establishes it, one lemma or step for each action preserves it, and the
properties follow. Each invariant was checked with TLC on the instance of the
module's run before it was proved. The assumptions are those the modules state
about their constants.

- `CCLQueue_proofs`, from `QueueAssumption` and `OneGetter`, by `IInv`. That no
  wakeup is lost needs that a mutex is held exactly at the critical labels
  (`MutexOwned`), that only getters sleep (`WaitersGet`) and that a getter about to
  wait has seen an empty queue nobody could fill since (`WaitsOnEmpty`). Order
  and memory need that a queue is the contiguous run of the youngest items
  (`QueueIsSuffix`). The refinement maps `queue` to `fifo`; each action is a put, a
  delivery, a discard or a stutter.
- `CCLPrepare_proofs`, from `PrepareAssumption`, by `PrepareInv`: which streams the
  fronts of the deques and the two players stand for at each label of the loop.
  `NoticeInv` adds what the user has been told there and who holds `init_mutex`,
  `ObjectsInv` that players were made once for each stream since the first usable
  one. All properties of `prepare` are proved.
- `CCLPlayer_proofs`, from `PlayerAssumption` and `AudioAssumption`. `Backpressure`
  alone is not inductive: what the demuxer tested must still hold when it puts, so
  `PlayerInv` carries the tests past each label, and the other threads are shown
  only to shorten queues. For what becomes of packets every step is then of one of
  nine kinds (`Kind`: a read, a put, a take, a clear, a seek in the file and so on),
  and the later invariants go over those instead of over some fifty actions:
  `OrderInv` (queues and the packet in hand are in reading order), `StaleInv` (at most
  one packet from before a seek, counting the one in hand) and the clock.
  `UnplayedInv` keeps what a player has yet to take in its queue, so that an empty
  queue says that all was taken, and `EndInv` that the end of the input in hand was
  read where the input stands unless a seek has moved it: `EofDrainsOne` needs both.
  `SeekInv` and `LoadInv` are about the control of the threads and go over the
  actions. All safety properties of `player` are proved.
- `CCLTeardown_proofs`, from `TeardownAssumption`, by `TeardownInv`: who holds
  `init_mutex`, what is left of the player a release is at, and, while nothing was
  overtaken (`Quiet`), that the threads are gone which could use what is gone.
  `OvertakeInv` says what a flag tells a patient release for as long as nothing
  excuses it: `finished` that the demuxer has ended or not begun, the audio's
  `isExit` that the demuxer and both players have gone, the video's that the video
  is outside its loop. It stands until the first release that meets a thread in an
  excused place, and `OvertakesOnly` is what is left of it then.
- `CCLLifecycle_proofs`, from `LifecycleAssumption`, by `LifeInv`, for any number of
  Java threads, calls and pairs of players. It has three parts. `Kept`,
  `TakenInv`, `MutexInv` and `ReadInv` hold whatever is called when. `Single`
  (one object, one decode thread) holds until two `cclPrepared` overlap: the test
  of a global and its assignment are separate steps, so the invariant follows one
  caller through them. `Orderly` holds until a call is misplaced: whoever is told
  of a preparation or takes players away comes after every preparation
  (`Settled`), so that what is played is open and keeps its players. All
  properties of `lifecycle` are proved.
- `CCLSync_proofs`, from `SyncAssumption`, by `SyncInv`: for every rate, stream and
  audio the delay is 0 or between half and twice the rate, and two packets are
  shown between two that are dropped, for every `PlayWrap` with the remainder of
  500 by 3. `ClockInv` follows the clock through a group of packets in decoding
  order, for groups of any length: it is at one of the group's frames and has
  passed every packet taken. With it each packet takes one frame off `Behind`
  and adds the time spent on it, which is more than a frame only when the packet
  was waited for and so came no later than where packets are dropped or shown at
  once: that gives `LagBounded`. The order of the group is a premise of the
  property (`InStep`), as is that the device keeps pace.
- `CCLSoftVideo_proofs`, from `PlayerAssumption` and `SoftAssumption`, by `SoftInv`.
  `HandInv` says who has something in hand, and `ClearInv` what the first clear of
  a seek leaves to `codecFrame`: no queued frame but one that it had in hand. `OldInv`
  is the bound: no step but the seek's change of position makes anything on its way
  older (`NothingAges`), so the bound once reached is kept, and the last of the clears
  reaches it (`ClearPacketsKeeps`). Both properties of `soft_video` are proved.

Every safety property of the passing runs is proved. Only model-checked: liveness
under fairness (`SleeperServed`, `NoticeEndsGet`, `CallsEnd`, `ExitEndsPlayback`,
`ReleaseEnds`, `InSync`, `PlaysOnAlone`), which is out of the prover's reach.

## Not modelled

- FFmpeg 3.2.5 is vendored: more than 99 of every 100 lines under `src/` are its
  sources and headers. It is an external library here, modelled where the
  player calls it, and the share of all lines this project covers is small for
  that reason. Of the program's own C++ the state-changing code is modelled.
- OpenSL's setup and the sample-rate table, the attaching of threads to the Java
  VM, `onVideoInfo`, `setVideoSize` and the data the callbacks carry, logging.
  They pass values on and branch on nothing another thread changes.
- `CCLBasePlayer`, `CCLAudioChannel` and `utils` are data and macros.
- The Java side of MediaCodec: `mediacodecInit` of `MainActivity` is empty, and the
  time it takes to show a packet is the `costs` of `CCLSync`.

What would add most from here: liveness of a playback with the software decoder
once a flood is over, and the steps `InSync` is made of as theorems: that a video
on a fast device comes nearer with each group.
