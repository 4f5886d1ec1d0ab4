------------------------- MODULE CCLTeardown_proofs -------------------------
(***************************************************************************)
(* TeardownInv is an invariant of CCLTeardown: until a wait has passed a    *)
(* thread that may still run, nobody uses what a release takes away, and    *)
(* what is taken away is gone as a whole once the release is done.  The     *)
(* second invariant says what the waits know when they end.                 *)
(***************************************************************************)
EXTENDS CCLTeardown, TLAPS

LEMMA Names ==
    /\ Players \subseteq Threads /\ Releasers \subseteq Threads
    /\ "demux" \in Threads /\ "decode" \in Threads
    /\ \A r \in Releasers : r # "demux" /\ r # "audio" /\ r # "video" /\ r # "decode"
    /\ \A p \in Players : p # "demux" /\ p # "decode" /\ p \in {"audio", "video"}
BY TeardownAssumption DEF Threads, Players

LEMMA Initially == Init => TeardownInv
<1> SUFFICES ASSUME Init PROVE TeardownInv
    OBVIOUS
<1>1. TypeOK
    BY TeardownAssumption
    DEF Init, TypeOK, Threads, Players, PartNames, Parts, Label, DemuxLabel, PlayerLabel,
        ReleaseLabel
<1>2. pc["demux"] # "none" /\ \A p \in Players : pc[p] = "none"
    BY Names DEF Init
<1>3. \A r \in Releasers : pc[r] = "idle"
    BY Names DEF Init, Players
<1>4. \A p \in layout : Intact(p)
    BY TeardownAssumption DEF Init, Intact, Parts, PartNames, Players
<1>0. pc["decode"] = "prepared"
    BY Names DEF Init, Players
<1>5. Quiet
    BY <1>0, <1>2, <1>3, <1>4 DEF Init, Quiet, PastDemux, PastWait, PartNames, Parts
<1>7. \A s \in init_mutex : Holding(s)
    BY <1>0 DEF Init, Holding, PastDemux, PastWait, PartNames, Parts
<1>6. \A u \in alive : u[1] \in known /\ u[2] \in Parts(u[1])
    BY DEF Init
<1>. QED
    BY <1>0, <1>1, <1>2, <1>3, <1>4, <1>5, <1>6, <1>7, Names DEF TeardownInv, Init

(***************************************************************************)
(* The steps of the threads that play.  They leave the players and the      *)
(* releases alone; all there is to show is that they keep the types, use    *)
(* what is there and start nobody once the demuxer has ended.               *)
(***************************************************************************)
PlayStep ==
    /\ UNCHANGED <<layout, memory, lock, history>>
    /\ TypeOK'
    /\ \A r \in Releasers : pc'[r] = pc[r]
    /\ \A p \in Players : pc'[p] # "none" => p \in layout
    /\ pc'["demux"] # "none" /\ pc'["decode"] = pc["decode"]
    /\ overtaken = {} => fault' # "deleted"
    /\ pc["demux"] = "done" =>
          pc'["demux"] = "done" /\ \A p \in Players : Gone(p) => Gone(p)'

LEMMA PlayStepKeeps == ASSUME TeardownInv, PlayStep PROVE TeardownInv'
<1>1. /\ \A r \in Releasers : r \in init_mutex' <=> pc'[r] \notin {"idle", "lock", "done"}
      /\ "decode" \in init_mutex' <=> pc'["decode"] \in {"prepared", "unlocks"}
      /\ \A r, s \in init_mutex' : r = s
      /\ \A r \in init_mutex' : r \in init_mutex /\ pc'[r] = pc[r]
    BY DEF TeardownInv, PlayStep, lock, TypeOK
<1>2. \A r \in init_mutex' : Holding(r)'
    BY <1>1 DEF TeardownInv, PlayStep, lock, memory, Holding
<1>3. /\ \A u \in alive' : u[1] \in known' /\ u[2] \in Parts(u[1])
      /\ (\E r \in Releasers : pc'[r] = "done") => known' = {} /\ ~javaCall'
    BY DEF TeardownInv, PlayStep, memory
<1>4. \A p \in known' :
          \/ Intact(p)'
          \/ victim' = p /\ \E r \in init_mutex' : pc'[r] \in PartNames \union {"forget"}
    BY <1>1 DEF TeardownInv, PlayStep, memory, lock, Intact
<1>5. ASSUME overtaken' = {} PROVE Quiet'
    <2>1. Quiet
        BY <1>5 DEF TeardownInv, PlayStep, history
    <2>2. \A r \in Releasers : pc'[r] \in PastDemux => pc'["demux"] = "done"
        BY <2>1 DEF Quiet, PlayStep
    <2>3. ASSUME NEW r \in init_mutex', pc'[r] \in PastWait PROVE \A t \in Users(victim') : Gone(t)'
        <3>0. r \in Releasers
            <4>1. r \in Releasers \/ (r = "decode" /\ pc'["decode"] \in {"prepared", "unlocks"})
                BY <1>1 DEF TeardownInv, TypeOK, PlayStep, lock
            <4>. QED
                BY <2>3, <4>1 DEF PastWait, PartNames, Parts
        <3>1. pc["demux"] = "done"
            BY <2>1, <2>3, <3>0, <1>1 DEF Quiet, PlayStep, PastWait, PastDemux
        <3>2. \A t \in Users(victim) : t \in Players /\ Gone(t)
            BY <2>1, <2>3, <1>1 DEF Quiet, PlayStep, lock, Users, Players
        <3>. QED
            BY <3>1, <3>2 DEF PlayStep, lock
    <2>4. ASSUME NEW p \in layout', ~Intact(p)' PROVE \A t \in Users(p) : Gone(t)'
        <3>1. p \in layout /\ ~Intact(p)
            BY <2>4 DEF PlayStep, memory, Intact
        <3>2. pc["demux"] = "done" /\ \A t \in Users(p) : t \in Players /\ Gone(t)
            BY <2>1, <3>1 DEF Quiet, Users, Players
        <3>. QED
            BY <3>2 DEF PlayStep
    <2>5. (\E p \in layout' : ~Intact(p)') \/ ~javaCall' => pc'["demux"] = "done"
        BY <2>1 DEF Quiet, PlayStep, memory, Intact
    <2>. QED
        BY <1>5, <2>1, <2>2, <2>3, <2>4, <2>5 DEF Quiet, PlayStep, history
<1>. QED
    BY <1>1, <1>2, <1>3, <1>4, <1>5 DEF TeardownInv, PlayStep, memory

\* What a thread that plays may use is there, as long as no wait has passed one.
LEMMA PartsThere ==
    ASSUME TeardownInv, overtaken = {}
    PROVE  /\ pc["demux"] # "done" => \A p \in layout : {p} \X Parts(p) \subseteq alive
           /\ \A p \in layout : \A t \in Users(p) :
                 ~Gone(t) => {p} \X Parts(p) \subseteq alive
           /\ pc["demux"] # "done" => javaCall
BY DEF TeardownInv, Quiet, Intact

\* Use by the demuxer of players it knows.
LEMMA DemuxUses ==
    ASSUME TeardownInv, NEW parts, NEW next, Use(parts, next), UNCHANGED <<finished, isExit>>,
           exit' \in BOOLEAN, pc["demux"] # "done",
           \A u \in parts : u \in known \X {"object", "queue"},
           next \in [Threads -> Label],
           \A r \in Releasers : next[r] = pc[r],
           \A p \in Players : next[p] # "none" => p \in layout, next["demux"] # "none",
           next["decode"] = pc["decode"]
    PROVE  PlayStep
<1>1. TypeOK'
    BY DEF TeardownInv, TypeOK, Use, memory, lock, history, Label
<1>2. ASSUME overtaken = {} PROVE parts \subseteq alive
    <2>1. \A p \in known : p \in layout
        BY DEF TeardownInv
    <2>2. \A p \in layout : {p} \X Parts(p) \subseteq alive
        BY <1>2, PartsThere
    <2>3. \A p : {"object", "queue"} \subseteq Parts(p)
        BY DEF Parts
    <2>4. ASSUME NEW u \in parts PROVE u \in alive
        <3>1. PICK p \in known, x \in {"object", "queue"} : u = <<p, x>>
            BY <2>4
        <3>. QED
            BY <2>1, <2>2, <2>3, <3>1
    <2>. QED
        BY <2>4
<1>3. fault' # "deleted" \/ overtaken # {}
    BY <1>2 DEF Use, TeardownInv, Quiet
<1>4. pc' = next \/ pc' = pc
    BY DEF Use
<1>. QED
    BY <1>1, <1>3, <1>4 DEF PlayStep, Use, TeardownInv

LEMMA DemuxPlays == ASSUME TeardownInv, Demux PROVE PlayStep
<1>. USE Names
<1>2. TypeOK /\ pc \in [Threads -> Label] /\ DOMAIN pc = Threads
    BY DEF TeardownInv, TypeOK, Label
<1>3. /\ \A p \in Players : pc[p] # "none" => p \in layout
      /\ known \subseteq layout /\ layout \subseteq Players
    BY DEF TeardownInv, TypeOK
<1>4. ASSUME NEW label \in DemuxLabel, pc["demux"] # "done", label \notin {"none", "done"},
             pc' = [pc EXCEPT !["demux"] = label], UNCHANGED <<layout, memory, lock, history>>,
             exit' \in BOOLEAN, finished' \in BOOLEAN, UNCHANGED <<isExit, fault>>
      PROVE  PlayStep
    <2>1. TypeOK'
        BY <1>2, <1>4 DEF TypeOK, memory, lock, history, Label
    <2>. QED
        BY <1>2, <1>3, <1>4, <2>1 DEF PlayStep, TeardownInv, Quiet
<1>5. CASE Call \/ Enter \/ Loop \/ Again \/ Complete
    BY <1>2, <1>4, <1>5
    DEF Call, Enter, Loop, Again, Complete, At, Goto, flags, TypeOK, DemuxLabel
<1>6. CASE Leave
    <2>1. TypeOK'
        BY <1>2, <1>6 DEF Leave, Goto, TypeOK, memory, lock, history, Label, DemuxLabel
    <2>. QED
        BY <1>2, <1>3, <1>6, <2>1 DEF Leave, At, Goto, PlayStep, TeardownInv, Quiet, Gone
<1>7. CASE OnComplete
    <2>1. TypeOK'
        BY <1>2, <1>7 DEF OnComplete, Goto, TypeOK, flags, memory, lock, history, Label, DemuxLabel
    <2>2. overtaken = {} => javaCall /\ fault # "deleted"
        BY <1>7, PartsThere DEF OnComplete, At, TeardownInv, Quiet
    <2>. QED
        BY <1>2, <1>3, <1>7, <2>1, <2>2 DEF OnComplete, At, Goto, PlayStep
<1>8. ASSUME NEW label \in DemuxLabel, label \notin {"none", "done"},
             NEW p \in Players, NEW first \in PlayerLabel, NEW next \in DemuxLabel,
             Play(label, p, first, next)
      PROVE  PlayStep
    <2>. DEFINE f == [pc EXCEPT !["demux"] = next, ![p] = IF p \in known THEN first ELSE @]
    <2>1. /\ f \in [Threads -> Label] /\ (\A r \in Releasers : f[r] = pc[r]) /\ f["demux"] # "none"
          /\ f["decode"] = pc["decode"]
        BY <1>2 DEF Label, DemuxLabel
    <2>2. \A q \in Players : f[q] # "none" => q \in layout
        BY <1>2, <1>3
    <2>3. \A u \in IfKnown(p, {"object"}) : u \in known \X {"object", "queue"}
        BY DEF IfKnown
    <2>4. Use(IfKnown(p, {"object"}), f) /\ pc["demux"] # "done" /\ UNCHANGED flags
        BY <1>8 DEF Play, At
    <2>5. exit' \in BOOLEAN /\ UNCHANGED <<finished, isExit>>
        BY <1>2, <2>4 DEF flags, TypeOK
    <2>. HIDE DEF f
    <2>. QED
        BY <2>1, <2>2, <2>3, <2>4, <2>5, DemuxUses
<1>9. ASSUME NEW label \in DemuxLabel, label # "done", NEW parts, NEW next \in DemuxLabel,
             pc["demux"] = label,
             \A u \in parts : u \in known \X {"object", "queue"},
             Use(parts, [pc EXCEPT !["demux"] = next]),
             exit' \in BOOLEAN, UNCHANGED <<finished, isExit>>
      PROVE  PlayStep
    <2>. DEFINE f == [pc EXCEPT !["demux"] = next]
    <2>1. /\ f \in [Threads -> Label] /\ \A r \in Releasers : f[r] = pc[r]
          /\ \A q \in Players : f[q] # "none" => q \in layout
          /\ f["demux"] # "none"
        BY <1>2, <1>3 DEF Label, DemuxLabel
    <2>. QED
        BY <1>9, <2>1, DemuxUses
<1>10. /\ \A p \in Players : \A u \in IfKnown(p, {"object", "queue"}) :
              u \in known \X {"object", "queue"}
       /\ \A p \in Players : \A u \in IfKnown(p, {"object"}) : u \in known \X {"object", "queue"}
       /\ \A u \in known \X {"object"} : u \in known \X {"object", "queue"}
    BY DEF IfKnown
<1>11. ASSUME NEW label \in DemuxLabel, label # "done", NEW next \in DemuxLabel, NEW p \in Players,
              Size(label, p, next)
       PROVE  PlayStep
    <2>1. PICK to \in {next, "loop"} :
              Use(IfKnown(p, {"object", "queue"}), [pc EXCEPT !["demux"] = to])
        BY <1>11 DEF Size
    <2>2. to \in DemuxLabel
        BY DEF DemuxLabel
    <2>. QED
        BY <1>2, <1>9, <1>10, <1>11, <2>1, <2>2 DEF Size, At, flags, TypeOK
<1>12. CASE Read
    <2>1. exit' \in BOOLEAN /\ pc["demux"] = "read" /\ UNCHANGED <<finished, isExit>>
          /\ "read" \in DemuxLabel
        BY <1>2, <1>12 DEF Read, At, flags, TypeOK, DemuxLabel
    <2>2. PICK to \in DemuxLabel, parts \in {IfKnown("audio", {"object"}), known \X {"object"}, {}} :
              Use(parts, [pc EXCEPT !["demux"] = to])
        BY <1>12 DEF Read, DemuxLabel
    <2>3. \A u \in parts : u \in known \X {"object", "queue"}
        BY <1>10, <2>2 DEF Players
    <2>. QED
        BY <1>9, <2>1, <2>2, <2>3
<1>13. ASSUME NEW label \in DemuxLabel, label \notin {"none", "done"}, NEW p \in Players, Put(label, p)
       PROVE  PlayStep
    <2>. DEFINE f == [pc EXCEPT !["demux"] = "loop", ![p] = Woken(p)]
    <2>1. Woken(p) \in Label /\ (Woken(p) # "none" => pc[p] # "none")
        BY <1>2 DEF Woken, Label, PlayerLabel
    <2>2. /\ f \in [Threads -> Label] /\ (\A r \in Releasers : f[r] = pc[r]) /\ f["demux"] # "none"
          /\ f["decode"] = pc["decode"]
        BY <1>2, <2>1 DEF Label, DemuxLabel
    <2>3. \A q \in Players : f[q] # "none" => q \in layout
        BY <1>2, <1>3, <2>1
    <2>4. /\ Use(IfKnown(p, {"object", "queue"}), f) /\ pc["demux"] # "done" /\ UNCHANGED flags
        BY <1>13 DEF Put, At
    <2>5. exit' \in BOOLEAN /\ UNCHANGED <<finished, isExit>>
        BY <1>2, <2>4 DEF flags, TypeOK
    <2>6. \A u \in IfKnown(p, {"object", "queue"}) : u \in known \X {"object", "queue"}
        BY <1>10
    <2>. HIDE DEF f
    <2>. QED
        BY <2>2, <2>3, <2>4, <2>5, <2>6, DemuxUses
<1>14. CASE Eof
    <2>1. PICK to \in {"complete", "loop"} :
              /\ Use(known \X {"object", "queue"}, [pc EXCEPT !["demux"] = to])
              /\ exit' = (exit \/ (to = "complete" /\ fault' = "none"))
        BY <1>14 DEF Eof
    <2>2. exit' \in BOOLEAN /\ to \in DemuxLabel /\ "eof" \in DemuxLabel
        BY <1>2, <2>1 DEF TypeOK, DemuxLabel
    <2>. QED
        BY <1>9, <1>14, <2>1, <2>2 DEF Eof, At
<1>. QED
    BY <1>5, <1>6, <1>7, <1>8, <1>11, <1>12, <1>13, <1>14
    DEF Demux, Players, DemuxLabel, PlayerLabel

\* Use by a player's thread of its own player.
LEMMA PlayerUses ==
    ASSUME TeardownInv, NEW p \in Players, NEW parts, NEW next \in PlayerLabel, ~Gone(p),
           parts \subseteq Parts(p), UsePlayer(p, parts, next), next # "none",
           exit' \in BOOLEAN, finished' \in BOOLEAN, isExit' \in [Players -> BOOLEAN]
    PROVE  PlayStep
<1>. USE Names
<1>1. p \in layout /\ pc \in [Threads -> Label] /\ p \in Users(p)
    BY DEF TeardownInv, TypeOK, Gone, Users, Players, Label
<1>2. TypeOK'
    BY <1>1 DEF TeardownInv, TypeOK, UsePlayer, Use, memory, lock, history, Label
<1>3. overtaken = {} => {p} \X parts \subseteq alive
    BY <1>1, PartsThere
<1>4. fault' # "deleted" \/ overtaken # {}
    BY <1>3 DEF UsePlayer, Use, TeardownInv, Quiet
<1>5. pc' = [pc EXCEPT ![p] = next] \/ pc' = pc
    BY DEF UsePlayer, Use
<1>. QED
    BY <1>1, <1>2, <1>4, <1>5 DEF PlayStep, UsePlayer, Use, TeardownInv, Gone

LEMMA PlayersPlay ==
    ASSUME TeardownInv, Open \/ UseAudio \/ UseVideo \/ UseVideoAlone
                          \/ \E p \in Players : Player(p)
    PROVE  PlayStep
<1>. USE Names
<1>2. /\ pc \in [Threads -> Label]
      /\ exit \in BOOLEAN /\ finished \in BOOLEAN /\ isExit \in [Players -> BOOLEAN]
      /\ "audio" \in Players /\ "video" \in Players
    BY DEF TeardownInv, TypeOK, Label, Players
<1>3. ASSUME NEW p \in Players, NEW parts, NEW label \in PlayerLabel, NEW next \in PlayerLabel,
             pc[p] = label, label \notin {"none", "done"}, next # "none",
             parts \subseteq Parts(p), UsePlayer(p, parts, next), UNCHANGED <<exit, finished>>,
             isExit' \in [Players -> BOOLEAN]
      PROVE  PlayStep
    BY <1>2, <1>3, PlayerUses DEF Gone
<1>4. CASE Open
    BY <1>2, <1>3, <1>4 DEF Open, At, flags, PlayerLabel, Parts
<1>5. CASE UseAudio
    BY <1>2, <1>3, <1>5 DEF UseAudio, At, flags, PlayerLabel, Parts
<1>6. CASE UseVideo
    <2>. DEFINE parts == {<<"audio", "object">>, <<"video", "object">>, <<"video", "calls">>}
                next == [pc EXCEPT !["video"] = "loop"]
    <2>1. /\ Use(parts, next) /\ UNCHANGED flags
          /\ pc["video"] = "use" /\ "audio" \in layout /\ "video" \in layout
        BY <1>2, <1>6 DEF UseVideo, At, TeardownInv
    <2>2. TypeOK'
        BY <1>2, <2>1 DEF TeardownInv, TypeOK, Use, flags, memory, lock, history, Label, PlayerLabel
    <2>3. ASSUME overtaken = {} PROVE parts \subseteq alive
        <3>1. {"audio"} \X Parts("audio") \subseteq alive /\ {"video"} \X Parts("video") \subseteq alive
            BY <2>1, <2>3, PartsThere DEF Users, Gone, Players
        <3>. QED
            BY <3>1 DEF Parts
    <2>4. fault' # "deleted" \/ overtaken # {}
        BY <2>1, <2>3 DEF Use, TeardownInv, Quiet
    <2>5. pc' = next \/ pc' = pc
        BY <2>1 DEF Use
    <2>. QED
        BY <1>2, <2>1, <2>2, <2>4, <2>5 DEF PlayStep, Use, TeardownInv, Gone
<1>7. CASE UseVideoAlone
    <2>1. TypeOK'
        BY <1>7 DEF UseVideoAlone, TeardownInv, TypeOK, flags, memory, lock, history
    <2>. QED
        BY <1>7, <2>1 DEF UseVideoAlone, PlayStep, TeardownInv, Gone
<1>8. ASSUME NEW p \in Players, Player(p) PROVE PlayStep
    <2>1. CASE PlayerLoop(p)
        BY <1>2, <1>3, <2>1 DEF PlayerLoop, At, flags, PlayerLabel, Parts
    <2>2. CASE Mark(p)
        BY <1>2, <1>3, <2>2 DEF Mark, At, PlayerLabel, Parts
    <2>3. CASE Work(p)
        <3>1. PICK next \in {"loop", "get", "use"} : UsePlayer(p, Parts(p) \ {"codec", "output"}, next)
            BY <2>3 DEF Work
        <3>2. next \in PlayerLabel /\ next # "none" /\ "work" \in PlayerLabel
            BY DEF PlayerLabel
        <3>3. /\ pc[p] = "work" /\ UNCHANGED flags
              /\ Parts(p) \ {"codec", "output"} \subseteq Parts(p)
            BY <2>3 DEF Work, At
        <3>. QED
            BY <1>2, <1>3, <3>1, <3>2, <3>3 DEF flags
    <2>4. CASE Get(p)
        BY <1>2, <1>3, <2>4 DEF Get, At, flags, PlayerLabel, Parts
    <2>5. CASE Wait(p)
        BY <1>2, <1>3, <2>5 DEF Wait, At, flags, PlayerLabel, Parts
    <2>6. CASE SpuriousWake(p)
        <3>1. TypeOK'
            BY <1>2, <2>6 DEF SpuriousWake, Goto, TeardownInv, TypeOK, flags, memory, lock, history,
                              Label, PlayerLabel
        <3>. QED
            BY <1>2, <2>6, <3>1 DEF SpuriousWake, At, Goto, PlayStep, TeardownInv, Quiet, Gone
    <2>7. CASE LeavePlayer(p)
        BY <1>2, <1>3, <2>7 DEF LeavePlayer, At, PlayerLabel, Parts
    <2>. QED
        BY <1>8, <2>1, <2>2, <2>3, <2>4, <2>5, <2>6, <2>7 DEF Player
<1>. QED
    BY <1>4, <1>5, <1>6, <1>7, <1>8

(***************************************************************************)
(* The steps of a release.                                                  *)
(***************************************************************************)
LEMMA Owner ==
    ASSUME TeardownInv, NEW r \in Releasers, pc[r] \notin {"idle", "lock", "done"}
    PROVE  /\ init_mutex = {r} /\ Holding(r)
           /\ \A s \in Releasers : s # r => pc[s] \in {"idle", "lock", "done"}
<1>1. r \in init_mutex /\ init_mutex \subseteq Releasers \union {"decode"}
    BY DEF TeardownInv, TypeOK
<1>2. \A s \in init_mutex : s = r
    BY <1>1 DEF TeardownInv
<1>. QED
    BY <1>1, <1>2 DEF TeardownInv

\* The decode thread holds the mutex or a release does.
LEMMA DecodeOwner ==
    ASSUME TeardownInv, pc["decode"] \in {"prepared", "unlocks"}
    PROVE  /\ init_mutex = {"decode"}
           /\ \A r \in Releasers : pc[r] \in {"idle", "lock", "done"}
<1>1. "decode" \in init_mutex /\ \A s \in init_mutex : s = "decode"
    BY DEF TeardownInv
<1>. QED
    BY <1>1, Names DEF TeardownInv

\* Nobody else moves, but a sleeping player that is woken.
OthersStay(r) ==
    \A t \in Threads : t # r =>
        pc'[t] = pc[t] \/ (t \in Players /\ pc[t] = "asleep" /\ pc'[t] = "get")

\* A release goes on and takes nothing away.
LEMMA Advance ==
    ASSUME TeardownInv, NEW r \in Releasers, TypeOK',
           pc[r] \notin {"idle", "lock", "done", "forget"} \union PartNames,
           pc'[r] \notin {"idle", "lock", "done"},
           OthersStay(r), UNCHANGED <<layout, memory, lock>>, Holding(r)',
           overtaken' = {} =>
              /\ overtaken = {} /\ fault' # "deleted"
              /\ pc'[r] \in PastDemux => pc["demux"] = "done"
              /\ pc'[r] \in PastWait => \A t \in Users(victim) : Gone(t)
    PROVE  TeardownInv'
<1>. USE Names
<1>1. /\ init_mutex = {r}
      /\ \A s \in Releasers : s # r => pc[s] \in {"idle", "lock", "done"} /\ pc'[s] = pc[s]
    BY Owner DEF OthersStay, Players
<1>2. /\ \A p \in Players : pc'[p] # "none" => p \in layout'
      /\ \A p \in Players : Gone(p) => Gone(p)'
      /\ pc'["demux"] = pc["demux"] /\ pc'["decode"] = pc["decode"]
    BY DEF TeardownInv, OthersStay, Gone, Players
<1>3. /\ \A s \in Releasers : s \in init_mutex' <=> pc'[s] \notin {"idle", "lock", "done"}
      /\ \A s, t \in init_mutex' : s = t
      /\ \A s \in init_mutex' : Holding(s)'
      /\ "decode" \in init_mutex' <=> pc'["decode"] \in {"prepared", "unlocks"}
    BY <1>1, <1>2 DEF lock, TeardownInv
<1>4. /\ known' \subseteq layout'
      /\ \A u \in alive' : u[1] \in known' /\ u[2] \in Parts(u[1])
      /\ (\E s \in Releasers : pc'[s] = "done") => known' = {} /\ ~javaCall'
    BY <1>1 DEF TeardownInv, memory
<1>5. \A p \in known' : Intact(p)'
    BY <1>1 DEF TeardownInv, memory, Intact
<1>6. ASSUME overtaken' = {} PROVE Quiet'
    <2>1. Quiet
        BY <1>6 DEF TeardownInv
    <2>2. \A s \in Releasers : pc'[s] \in PastDemux => pc'["demux"] = "done"
        BY <1>1, <1>2, <1>6, <2>1 DEF Quiet
    <2>3. \A s \in init_mutex' : pc'[s] \in PastWait => \A t \in Users(victim') : Gone(t)'
        BY <1>1, <1>2, <1>6 DEF lock, Users, Players
    <2>4. \A p \in layout' : ~Intact(p)' => \A t \in Users(p) : Gone(t)'
        BY <1>2, <2>1 DEF Quiet, memory, Intact, Users, Players
    <2>5. (\E p \in layout' : ~Intact(p)') \/ ~javaCall' => pc'["demux"] = "done"
        BY <1>2, <2>1 DEF Quiet, memory, Intact
    <2>. QED
        BY <1>6, <2>2, <2>3, <2>4, <2>5 DEF Quiet
<1>. QED
    BY <1>2, <1>3, <1>4, <1>5, <1>6 DEF TeardownInv

LEMMA WaitStep ==
    ASSUME TeardownInv, NEW r \in Releasers,
           \/ WaitDemux(r) \/ ExpireDemux(r) \/ Notice(r)
           \/ WaitPlayer(r) \/ ExpirePlayer(r) \/ Drain(r) \/ Clear(r)
    PROVE  TeardownInv'
<1>. USE Names
<1>1. /\ TypeOK /\ pc \in [Threads -> Label] /\ victim \in Players
      /\ isExit \in [Players -> BOOLEAN]
    BY DEF TeardownInv, TypeOK, Label
<1>2. pc[r] \notin {"idle", "lock", "done"} => Holding(r) /\ init_mutex = {r}
    BY Owner
<1>3. overtaken = {} =>
         /\ fault # "deleted"
         /\ pc[r] \in PastDemux => pc["demux"] = "done"
         /\ r \in init_mutex /\ pc[r] \in PastWait => \A t \in Users(victim) : Gone(t)
    BY DEF TeardownInv, Quiet
<1>4. ASSUME NEW threads \in SUBSET ({"demux"} \union Players), NEW next \in Label,
             Pass(r, threads, next)
      PROVE  /\ TypeOK' /\ OthersStay(r) /\ pc'[r] = next
             /\ UNCHANGED <<layout, memory, lock, fault>>
             /\ overtaken' = {} => overtaken = {} /\ \A t \in threads : Gone(t)
    <2>1. pc' \in [Threads -> Label] /\ OthersStay(r) /\ pc'[r] = next
        BY <1>1, <1>4 DEF Pass, Goto, OthersStay
    <2>2. \A t \in threads : pc[t] \in Label
        BY <1>1
    <2>. DEFINE caught == Running(threads)
    <2>3. overtaken' = IF overtaken = {} THEN caught ELSE overtaken
        BY <1>4 DEF Pass
    <2>4. \A u \in caught : u \in ({"demux"} \union Players) \X Label
        <3>1. ASSUME NEW u \in caught PROVE u \in ({"demux"} \union Players) \X Label
            <4>1. PICK t \in threads : u = <<t, pc[t]>>
                BY <3>1 DEF Running
            <4>. QED
                BY <2>2, <4>1
        <3>. QED
            BY <3>1
    <2>5. overtaken' \in SUBSET (({"demux"} \union Players) \X Label)
        BY <1>1, <2>3, <2>4 DEF TypeOK
    <2>6. ASSUME overtaken' = {} PROVE overtaken = {} /\ \A t \in threads : Gone(t)
        <3>1. \A t \in threads : pc[t] \notin {"none", "done"} => <<t, pc[t]>> \in caught
            BY DEF Running
        <3>. QED
            BY <2>3, <2>6, <3>1 DEF Gone
    <2>. QED
        BY <1>1, <1>4, <2>1, <2>5, <2>6 DEF Pass, TypeOK, flags, memory, lock
<1>5. CASE WaitDemux(r)
    <2>1. pc[r] = "waitDemux" /\ Pass(r, {"demux"}, "notice") /\ "notice" \in Label
        BY <1>5 DEF WaitDemux, At, Label, ReleaseLabel
    <2>2. Holding(r)'
        BY <1>1, <1>2, <1>4, <2>1
        DEF Holding, Pass, Goto, memory, lock, PartNames, Parts, PastWait, PastDemux
    <2>3. /\ TypeOK' /\ OthersStay(r) /\ pc'[r] = "notice"
          /\ UNCHANGED <<layout, memory, lock, fault>>
          /\ overtaken' = {} => overtaken = {} /\ Gone("demux")
        BY <1>4, <2>1
    <2>4. Gone("demux") => pc["demux"] = "done"
        BY DEF TeardownInv, TypeOK, Gone
    <2>. QED
        BY <1>3, <2>1, <2>2, <2>3, <2>4, Advance DEF PastWait, PartNames, Parts
<1>6. CASE WaitPlayer(r)
    <2>1. pc[r] = "wait" /\ Pass(r, Users(victim), "drain") /\ "drain" \in Label
        BY <1>6 DEF WaitPlayer, At, Label, ReleaseLabel
    <2>2. Users(victim) \in SUBSET ({"demux"} \union Players)
        BY DEF Users, Players
    <2>3. /\ TypeOK' /\ OthersStay(r) /\ pc'[r] = "drain"
          /\ UNCHANGED <<layout, memory, lock, fault>>
          /\ overtaken' = {} => overtaken = {} /\ \A t \in Users(victim) : Gone(t)
        BY <1>4, <2>1, <2>2
    <2>4. Holding(r)'
        BY <1>2, <2>1, <2>3 DEF Holding, memory, lock, PartNames, Parts, PastWait, PastDemux
    <2>. QED
        BY <1>3, <2>1, <2>3, <2>4, Advance DEF PastDemux, PartNames, Parts
<1>7. CASE ExpireDemux(r) \/ ExpirePlayer(r)
    <2>1. /\ pc[r] \in {"waitDemux", "wait"} /\ pc' = pc
          /\ UNCHANGED <<layout, memory, lock, fault, overtaken, overwritten>>
          /\ exit' = exit /\ finished' \in BOOLEAN /\ isExit' \in [Players -> BOOLEAN]
        BY <1>1, <1>7 DEF ExpireDemux, ExpirePlayer, At, TypeOK
    <2>2. \A t \in {"demux"} \union Players : pc[t] \in Label
        BY <1>1
    <2>3. \A u \in expired' : u \in ({"demux"} \union Players) \X Label
        <3>1. CASE ExpireDemux(r)
            BY <1>1, <2>2, <3>1 DEF ExpireDemux, GiveUp, TypeOK
        <3>2. CASE ExpirePlayer(r)
            <4>1. \A u \in {<<t, pc[t]>> : t \in Users(victim)} :
                      u \in ({"demux"} \union Players) \X Label
                BY <2>2 DEF Users, Players
            <4>. QED
                BY <1>1, <3>2, <4>1 DEF ExpirePlayer, GiveUp, TypeOK
        <3>. QED
            BY <1>7, <3>1, <3>2
    <2>4. TypeOK'
        BY <1>1, <2>1, <2>3 DEF TypeOK, memory, lock
    <2>5. Holding(r)' /\ OthersStay(r)
        BY <1>2, <2>1 DEF Holding, memory, lock, OthersStay
    <2>. QED
        BY <1>3, <2>1, <2>4, <2>5, Advance DEF PastWait, PartNames, Parts
<1>8. CASE Notice(r) \/ Drain(r)
    <2>1. PICK next \in {"wait", "clear"} :
              /\ pc' = [pc EXCEPT ![r] = next, ![victim] = Woken(victim)]
              /\ pc[r] \in {"notice", "drain"} /\ (next = "wait" <=> pc[r] = "notice")
              /\ next = "wait" => victim \in known
              /\ UNCHANGED <<layout, flags, memory, lock, fault, history>>
        BY <1>8 DEF Notice, Drain, At
    <2>2. next \in Label /\ Woken(victim) \in Label
        BY <1>1 DEF Label, PlayerLabel, ReleaseLabel, Woken
    <2>3. /\ pc' \in [Threads -> Label] /\ pc'[r] = next
          /\ OthersStay(r)
        BY <1>1, <2>1, <2>2 DEF OthersStay, Woken
    <2>4. TypeOK'
        BY <1>1, <2>1, <2>3 DEF TypeOK, flags, memory, lock, history
    <2>5. Holding(r)'
        BY <1>2, <2>1, <2>3 DEF Holding, memory, lock, PartNames, Parts, PastWait, PastDemux
    <2>6. pc'[r] \in PastWait => pc[r] \in PastWait
        BY <2>1, <2>3 DEF PastWait, PartNames, Parts
    <2>7. pc[r] \in PastDemux /\ pc[r] \notin PartNames
        BY <2>1 DEF PastDemux, PartNames, Parts
    <2>. QED
        BY <1>2, <1>3, <2>1, <2>3, <2>4, <2>5, <2>6, <2>7, Advance DEF history
<1>9. CASE Clear(r)
    <2>1. /\ pc[r] = "clear" /\ pc' = [pc EXCEPT ![r] = "queue"]
          /\ UNCHANGED <<layout, flags, memory, lock, fault, history>>
        BY <1>9 DEF Clear, At, Goto
    <2>2. pc' \in [Threads -> Label] /\ pc'[r] = "queue" /\ OthersStay(r)
        BY <1>1, <2>1 DEF OthersStay, Label, ReleaseLabel, PartNames, Parts
    <2>3. TypeOK'
        BY <1>1, <2>1, <2>2 DEF TypeOK, flags, memory, lock, history
    <2>4. victim \in known /\ Intact(victim)
        BY <1>2, <2>1 DEF Holding, PastWait, TeardownInv, PartNames, Parts
    <2>5. \A part \in Parts(victim) : <<victim, part>> \in alive /\ part \in PartNames
        BY <1>1, <2>4 DEF Intact, PartNames, Parts
    <2>6. Holding(r)'
        BY <1>2, <2>1, <2>2, <2>4, <2>5
        DEF Holding, memory, lock, PastWait, PastDemux, PartNames, Parts, LeftAt
    <2>7. pc[r] \in PastWait /\ pc[r] \in PastDemux /\ pc[r] \notin PartNames
        BY <2>1 DEF PastWait, PastDemux, PartNames, Parts
    <2>. QED
        BY <1>2, <1>3, <2>1, <2>2, <2>3, <2>6, <2>7, Advance DEF history
<1>. QED
    BY <1>5, <1>6, <1>7, <1>8, <1>9

(***************************************************************************)
(* The end of the preparation: it moves nobody but the decode thread.       *)
(***************************************************************************)
LEMMA DecodeStep == ASSUME TeardownInv, DecodeExit \/ DecodeUnlock PROVE TeardownInv'
<1>. USE Names
<1>1. /\ pc \in [Threads -> Label] /\ pc["decode"] \in {"prepared", "unlocks"}
      /\ UNCHANGED <<layout, exit, isExit, memory, victim, fault, expired, overtaken>>
      /\ finished' \in BOOLEAN /\ overwritten' \in BOOLEAN
      /\ \/ pc' = [pc EXCEPT !["decode"] = "unlocks"] /\ init_mutex' = init_mutex
         \/ pc' = [pc EXCEPT !["decode"] = "done"] /\ init_mutex' = {}
    BY DEF TeardownInv, TypeOK, DecodeExit, DecodeUnlock, At, Goto, lock, flags, history
<1>2. init_mutex = {"decode"} /\ \A r \in Releasers : pc[r] \in {"idle", "lock", "done"}
    BY <1>1, DecodeOwner
<1>3. /\ pc' \in [Threads -> Label] /\ \A t \in Threads : t # "decode" => pc'[t] = pc[t]
      /\ init_mutex' \subseteq {"decode"}
      /\ "decode" \in init_mutex' <=> pc'["decode"] \in {"prepared", "unlocks"}
      /\ pc'["decode"] \in {"unlocks", "done"}
    BY <1>1, <1>2 DEF Label, ReleaseLabel
<1>4. TypeOK'
    BY <1>1, <1>3 DEF TeardownInv, TypeOK, memory
<1>5. \A s \in init_mutex' : s = "decode" /\ pc'[s] = "unlocks"
    BY <1>3
<1>6. \A s \in init_mutex' : Holding(s)'
    BY <1>5 DEF Holding, PartNames, Parts, PastWait, PastDemux
<1>7. overtaken' = {} => Quiet'
    BY <1>1, <1>3, <1>5
    DEF TeardownInv, Quiet, memory, Intact, Gone, Users, Players, PastWait, PartNames, Parts
<1>8. \A p \in known' : Intact(p)'
    BY <1>1, <1>2 DEF TeardownInv, memory, Intact, PartNames, Parts
<1>9. /\ \A r \in Releasers : r \in init_mutex' <=> pc'[r] \notin {"idle", "lock", "done"}
      /\ \A r, s \in init_mutex' : r = s
    BY <1>2, <1>3, <1>5
<1>. QED
    BY <1>1, <1>3, <1>4, <1>6, <1>7, <1>8, <1>9 DEF TeardownInv, memory

LEMMA StopStep == ASSUME TeardownInv, NEW r \in Releasers, Stop(r) PROVE TeardownInv'
<1>. USE Names
<1>1. /\ pc \in [Threads -> Label] /\ pc[r] = "idle" /\ pc' = [pc EXCEPT ![r] = "lock"]
      /\ UNCHANGED <<layout, finished, isExit, memory, lock, fault, history>> /\ exit' = TRUE
    BY DEF TeardownInv, TypeOK, Stop, At, Goto
<1>2. pc' \in [Threads -> Label] /\ pc'[r] = "lock" /\ \A t \in Threads : t # r => pc'[t] = pc[t]
    BY <1>1 DEF Label, ReleaseLabel
<1>3. TypeOK'
    BY <1>1, <1>2 DEF TeardownInv, TypeOK, memory, lock, history
<1>4. r \notin init_mutex /\ init_mutex \subseteq Releasers \union {"decode"}
    BY <1>1 DEF TeardownInv, TypeOK
<1>5. \A s \in init_mutex' : s \in init_mutex /\ s # r /\ s \in Threads /\ pc'[s] = pc[s]
    BY <1>1, <1>2, <1>4 DEF lock
<1>6. \A s \in init_mutex' : Holding(s)'
    BY <1>1, <1>5 DEF TeardownInv, Holding, memory, lock
<1>7. overtaken' = {} => Quiet'
    BY <1>1, <1>2, <1>5
    DEF TeardownInv, Quiet, memory, history, lock, Intact, Gone, Users, Players, PastDemux,
        PartNames, Parts
<1>8. \A p \in known' :
          \/ Intact(p)'
          \/ victim' = p /\ \E s \in init_mutex' : pc'[s] \in PartNames \union {"forget"}
    BY <1>1, <1>5 DEF TeardownInv, memory, lock, Intact
<1>. QED
    BY <1>1, <1>2, <1>3, <1>4, <1>5, <1>6, <1>7, <1>8 DEF TeardownInv, memory, lock

LEMMA LockStep == ASSUME TeardownInv, NEW r \in Releasers, Lock(r) PROVE TeardownInv'
<1>. USE Names
<1>1. /\ pc \in [Threads -> Label] /\ pc[r] = "lock" /\ pc' = [pc EXCEPT ![r] = "waitDemux"]
      /\ UNCHANGED <<layout, flags, memory, fault, history>>
      /\ init_mutex = {} /\ init_mutex' = {r} /\ victim' = "audio"
    BY DEF TeardownInv, TypeOK, Lock, At, Goto
<1>2. pc' \in [Threads -> Label] /\ pc'[r] = "waitDemux" /\ \A t \in Threads : t # r => pc'[t] = pc[t]
    BY <1>1 DEF Label, ReleaseLabel
<1>3. TypeOK'
    BY <1>1, <1>2 DEF TeardownInv, TypeOK, flags, memory, history, Players
<1>4. Holding(r)'
    BY <1>1, <1>2 DEF Holding, PartNames, Parts, PastWait, PastDemux
<1>5. overtaken' = {} => Quiet'
    BY <1>1, <1>2
    DEF TeardownInv, Quiet, memory, history, Intact, Gone, Users, Players, PastDemux, PastWait,
        PartNames, Parts
<1>6. \A p \in known' : Intact(p)'
    BY <1>1 DEF TeardownInv, memory, Intact
<1>7. \A s \in Releasers : s \in init_mutex' <=> pc'[s] \notin {"idle", "lock", "done"}
    BY <1>1, <1>2 DEF TeardownInv
<1>. QED
    BY <1>1, <1>2, <1>3, <1>4, <1>5, <1>6, <1>7 DEF TeardownInv, memory

\* What the steps that take something away have in common.
LEMMA TakingStep ==
    ASSUME TeardownInv, NEW r \in Releasers,
           NoVictim(r) \/ Free(r) \/ Forget(r) \/ ClearJavaCall(r)
    PROVE  /\ pc \in [Threads -> Label] /\ pc' \in [Threads -> Label]
           /\ TypeOK'
           /\ init_mutex = {r} /\ init_mutex' = {r} /\ Holding(r)
           /\ \A t \in Threads : t # r => pc'[t] = pc[t]
           /\ pc'[r] \notin {"idle", "lock", "done"}
           /\ pc[r] \in PastDemux
           /\ UNCHANGED <<layout, history>>
           /\ victim \in Players
<1>. USE Names
<1>1. pc \in [Threads -> Label] /\ victim \in Players /\ TypeOK
    BY DEF TeardownInv, TypeOK
<1>2. /\ pc[r] \in PastDemux /\ pc[r] \notin {"idle", "lock", "done"}
      /\ UNCHANGED <<layout, flags, init_mutex, history>>
    BY DEF NoVictim, Free, Forget, ClearJavaCall, At, memory, lock, PastDemux, PartNames, Parts
<1>3. init_mutex = {r} /\ Holding(r)
    BY <1>2, Owner
<1>4. \E next \in Label \ {"idle", "lock", "done"} :
          pc' = [pc EXCEPT ![r] = next] \/ (pc' = pc /\ next = pc[r])
    <2>1. CASE NoVictim(r) \/ Forget(r) \/ ClearJavaCall(r)
        BY <2>1 DEF NoVictim, NextVictim, Forget, ClearJavaCall, Goto, Label, ReleaseLabel
    <2>2. CASE Free(r)
        <3>1. pc[r] \in PartNames
            BY <2>2 DEF Free
        <3>2. After(pc[r]) \in Label \ {"idle", "lock", "done"}
            BY <3>1 DEF After, Label, ReleaseLabel, PartNames, Parts
        <3>3. pc[r] \in Label \ {"idle", "lock", "done"}
            BY <1>1, <1>2
        <3>. QED
            BY <2>2, <3>2, <3>3 DEF Free, Goto
    <2>. QED
        BY <2>1, <2>2
<1>5. /\ pc' \in [Threads -> Label] /\ pc'[r] \notin {"idle", "lock", "done"}
      /\ \A t \in Threads : t # r => pc'[t] = pc[t]
    BY <1>1, <1>4
<1>6. /\ alive' \in SUBSET (Players \X PartNames) /\ known' \in SUBSET Players
      /\ javaCall' \in BOOLEAN /\ victim' \in Players
      /\ fault' \in {"none", "deleted", "clock"}
    BY <1>1 DEF TypeOK, NoVictim, NextVictim, Free, Forget, ClearJavaCall, memory, lock, Players
<1>7. TypeOK'
    BY <1>1, <1>2, <1>5, <1>6 DEF TypeOK, flags, history
<1>. QED
    BY <1>1, <1>2, <1>3, <1>5, <1>7

LEMMA TakeStep ==
    ASSUME TeardownInv, NEW r \in Releasers,
           NoVictim(r) \/ Free(r) \/ Forget(r) \/ ClearJavaCall(r)
    PROVE  TeardownInv'
<1>. USE Names
<1>1. /\ pc \in [Threads -> Label] /\ pc' \in [Threads -> Label]
      /\ TypeOK /\ TypeOK'
      /\ init_mutex = {r} /\ init_mutex' = {r} /\ Holding(r)
      /\ \A t \in Threads : t # r => pc'[t] = pc[t]
      /\ pc'[r] \notin {"idle", "lock", "done"}
      /\ pc[r] \in PastDemux
      /\ UNCHANGED <<layout, history>>
      /\ victim \in Players
    BY TakingStep DEF TeardownInv
<1>2. \A s \in Releasers : s # r => pc[s] \in {"idle", "lock", "done"} /\ pc'[s] = pc[s]
    BY <1>1 DEF TeardownInv
<1>3. /\ \A s \in Releasers : s \in init_mutex' <=> pc'[s] \notin {"idle", "lock", "done"}
      /\ "decode" \in init_mutex' <=> pc'["decode"] \in {"prepared", "unlocks"}
    BY <1>1, <1>2 DEF TeardownInv
<1>4. /\ known' \subseteq layout'
      /\ \A p \in Players : pc'[p] # "none" => p \in layout'
      /\ pc'["demux"] # "none"
    BY <1>1 DEF TeardownInv, NoVictim, Free, Forget, ClearJavaCall, memory
<1>5. ASSUME NEW p \in known, p # victim PROVE Intact(p)
    BY <1>5 DEF TeardownInv
<1>6. (\E s \in Releasers : pc[s] = "done") => known = {} /\ ~javaCall
    BY DEF TeardownInv
<1>7. ~(\E s \in Releasers : pc'[s] = "done") \/ (known = {} /\ ~javaCall)
    BY <1>1, <1>2, <1>6
<1>8. ASSUME overtaken' = {}
      PROVE  /\ Quiet /\ pc["demux"] = "done"
             /\ \A s \in Releasers : pc'[s] \in PastDemux => pc'["demux"] = "done"
             /\ \A t \in Threads : Gone(t) => Gone(t)' \/ t = r
             /\ pc[r] \in PastWait => \A t \in Users(victim) : Gone(t)'
    <2>1. Quiet /\ pc["demux"] = "done"
        BY <1>1, <1>8 DEF TeardownInv, Quiet, history
    <2>. QED
        BY <1>1, <2>1 DEF Quiet, Gone, Users, Players
<1>9. CASE Free(r)
    <2>1. /\ pc[r] \in PartNames /\ victim \in known /\ pc[r] \in Parts(victim)
          /\ \A part \in Parts(victim) : <<victim, part>> \in alive <=> part \in LeftAt(pc[r])
        BY <1>1, <1>9 DEF Free, Holding
    <2>2. <<victim, pc[r]>> \in alive
        BY <2>1 DEF LeftAt, PartNames, Parts
    <2>3. /\ pc' = [pc EXCEPT ![r] = After(pc[r])] /\ alive' = alive \ {<<victim, pc[r]>>}
          /\ UNCHANGED <<layout, flags, known, javaCall, lock, history, fault>>
        BY <1>9, <2>2 DEF Free, Goto
    <2>4. pc'[r] = After(pc[r]) /\ victim' = victim
        BY <1>1, <2>3 DEF lock
    <2>5. \A part \in Parts(victim) : <<victim, part>> \in alive' <=> part \in LeftAt(pc'[r])
        BY <1>1, <2>1, <2>3, <2>4 DEF LeftAt, After, PartNames, Parts, Players
    <2>6. \A u \in alive' : u[1] \in known' /\ u[2] \in Parts(u[1])
        BY <2>3 DEF TeardownInv
    <2>7. pc'[r] \in PartNames \union {"forget"} /\ (pc'[r] \in PartNames => pc'[r] \in Parts(victim))
        BY <1>1, <2>1, <2>4 DEF After, PartNames, Parts
    <2>8. pc'[r] = "forget" => \A part \in PartNames : <<victim, part>> \notin alive'
        <3>1. ASSUME pc'[r] = "forget", NEW part \in PartNames, <<victim, part>> \in alive' PROVE FALSE
            <4>1. part \in Parts(victim)
                BY <2>6, <3>1
            <4>. QED
                BY <2>5, <3>1, <4>1 DEF LeftAt
        <3>. QED
            BY <3>1
    <2>9. Holding(r)'
        BY <1>1, <2>1, <2>3, <2>4, <2>5, <2>7, <2>8 DEF Holding, PastDemux, PartNames, Parts
    <2>10. \A p \in known' : Intact(p)' \/ victim' = p
        BY <1>5, <2>3, <2>4 DEF Intact
    <2>11. ASSUME overtaken' = {} PROVE Quiet'
        <3>1. \A t \in Users(victim) : Gone(t)'
            BY <1>8, <2>1, <2>11 DEF PastWait
        <3>2. \A p \in layout' : ~Intact(p)' => \A t \in Users(p) : Gone(t)'
            <4>1. ASSUME NEW p \in layout, p # victim, ~Intact(p)' PROVE \A t \in Users(p) : Gone(t)'
                <5>1. ~Intact(p)
                    BY <2>3, <4>1 DEF Intact
                <5>. QED
                    BY <1>8, <2>11, <5>1 DEF Quiet, Users, Players
            <4>. QED
                BY <1>1, <3>1, <4>1
        <3>. QED
            BY <1>1, <1>8, <2>3, <2>4, <2>11, <3>1, <3>2 DEF Quiet
    <2>12. TypeOK' /\ (\A s, t \in init_mutex' : s = t) /\ \A s \in init_mutex' : Holding(s)'
        BY <1>1, <2>9
    <2>13. \A p \in known' :
              Intact(p)' \/ (victim' = p /\ \E s \in init_mutex' : pc'[s] \in PartNames \union {"forget"})
        BY <1>1, <2>7, <2>10
    <2>14. (\E s \in Releasers : pc'[s] = "done") => known' = {} /\ ~javaCall'
        BY <1>7, <2>3
    <2>. QED
        BY <1>3, <1>4, <2>6, <2>11, <2>12, <2>13, <2>14 DEF TeardownInv
<1>10. CASE NoVictim(r) \/ Forget(r) \/ ClearJavaCall(r)
    <2>1. /\ alive' = alive /\ fault' = fault
          /\ known' = known \/ (known' = known \ {victim} /\ pc[r] = "forget")
          /\ javaCall' = javaCall \/ ~javaCall'
          /\ pc[r] \in {"notice", "forget", "javaCall"}
        BY <1>10 DEF NoVictim, Forget, ClearJavaCall, At, memory
    <2>2. \A u \in alive' : u[1] \in known' /\ u[2] \in Parts(u[1])
        <3>1. ASSUME NEW u \in alive, u[1] = victim PROVE pc[r] # "forget"
            <4>1. u = <<victim, u[2]>> /\ u[2] \in PartNames
                BY <1>1, <3>1 DEF TypeOK
            <4>. QED
                BY <1>1, <4>1 DEF Holding
        <3>. QED
            BY <2>1, <3>1 DEF TeardownInv
    <2>3. \A p \in known' : Intact(p)'
        <3>1. \A p \in known' : p # victim \/ pc[r] # "forget"
            BY <1>10, <2>1 DEF Forget, NoVictim, ClearJavaCall, At
        <3>2. pc[r] \notin PartNames
            BY <2>1 DEF PartNames, Parts
        <3>3. ASSUME NEW p \in known, ~Intact(p) PROVE pc[r] = "forget" /\ victim = p
            <4>1. victim = p /\ \E s \in init_mutex : pc[s] \in PartNames \union {"forget"}
                BY <3>3 DEF TeardownInv
            <4>. QED
                BY <1>1, <3>2, <4>1
        <3>. QED
            BY <2>1, <3>1, <3>3 DEF Intact
    <2>4. Holding(r)'
        <3>1. CASE NoVictim(r) \/ Forget(r)
            <4>1. /\ victim' = "video" /\ victim \notin known'
                  /\ pc'[r] = IF victim = "audio" THEN "notice" ELSE "javaCall"
                BY <1>1, <3>1 DEF NoVictim, Forget, NextVictim, Goto, memory
            <4>2. victim = "video" => "audio" \notin known'
                BY <1>1, <2>1 DEF Holding
            <4>3. pc'[r] = "javaCall" => known' = {}
                BY <1>1, <1>4, <4>1, <4>2 DEF TypeOK, Players
            <4>4. "audio" \notin known'
                BY <1>1, <4>1, <4>2 DEF Players
            <4>. QED
                BY <4>1, <4>3, <4>4 DEF Holding, PartNames, Parts, PastWait
        <3>2. CASE ClearJavaCall(r)
            BY <1>1, <3>2
            DEF ClearJavaCall, At, Goto, Holding, lock, PartNames, Parts, PastWait, PastDemux
        <3>. QED
            BY <1>10, <3>1, <3>2
    <2>5. ASSUME overtaken' = {} PROVE Quiet'
        <3>1. pc'[r] \notin PastWait
            BY <1>1, <1>10 DEF NoVictim, Forget, ClearJavaCall, NextVictim, Goto, PastWait, PartNames, Parts
        <3>2. \A p \in layout' : ~Intact(p)' => \A t \in Users(p) : Gone(t)'
            BY <1>1, <1>8, <2>1, <2>5 DEF Quiet, Users, Players, Intact
        <3>. QED
            BY <1>1, <1>8, <2>1, <2>5, <3>1, <3>2 DEF Quiet
    <2>6. TypeOK' /\ (\A s, t \in init_mutex' : s = t) /\ \A s \in init_mutex' : Holding(s)'
        BY <1>1, <2>4
    <2>7. (\E s \in Releasers : pc'[s] = "done") => known' = {} /\ ~javaCall'
        BY <1>7, <2>1, <1>10 DEF NoVictim, Forget, ClearJavaCall, memory
    <2>. QED
        BY <1>3, <1>4, <2>2, <2>3, <2>5, <2>6, <2>7 DEF TeardownInv
<1>. QED
    BY <1>9, <1>10

LEMMA UnlockStep == ASSUME TeardownInv, NEW r \in Releasers, Unlock(r) PROVE TeardownInv'
<1>. USE Names
<1>1. /\ pc \in [Threads -> Label] /\ pc[r] = "unlock" /\ pc' = [pc EXCEPT ![r] = "done"]
      /\ UNCHANGED <<layout, flags, memory, victim, fault, history>> /\ init_mutex' = {}
    BY DEF TeardownInv, TypeOK, Unlock, At, Goto
<1>2. pc' \in [Threads -> Label] /\ pc'[r] = "done" /\ \A t \in Threads : t # r => pc'[t] = pc[t]
    BY <1>1 DEF Label, ReleaseLabel
<1>3. init_mutex = {r} /\ Holding(r) /\ \A s \in Releasers : s # r => pc[s] \in {"idle", "lock", "done"}
    BY <1>1, Owner
<1>4. TypeOK' /\ known = {} /\ ~javaCall
    BY <1>1, <1>2, <1>3 DEF TeardownInv, TypeOK, flags, memory, history, Holding
<1>5. overtaken' = {} => Quiet'
    BY <1>1, <1>2, <1>3
    DEF TeardownInv, Quiet, memory, history, Intact, Gone, Users, Players, PastDemux, PartNames, Parts
<1>6. \A s \in Releasers : s \in init_mutex' <=> pc'[s] \notin {"idle", "lock", "done"}
    BY <1>1, <1>2, <1>3
<1>. QED
    BY <1>1, <1>2, <1>4, <1>5, <1>6 DEF TeardownInv, memory

\* The inductive invariant holds of every behaviour: for any number of releases,
\* any players made and whether or not the waits are patient.
THEOREM Teardown == Spec => []TeardownInv
<1>1. ASSUME TeardownInv, [Next]_vars PROVE TeardownInv'
    <2>1. CASE UNCHANGED vars
        BY <1>1, <2>1
        DEF vars, flags, memory, lock, history, TeardownInv, TypeOK, Holding, Quiet, Intact, Gone
    <2>2. CASE Next
        <3>1. ASSUME NEW r \in Releasers, Release(r) PROVE TeardownInv'
            BY <1>1, <3>1, LockStep, WaitStep, TakeStep, UnlockStep DEF Release
        <3>. QED
            BY <1>1, <2>2, <3>1, DecodeStep, DemuxPlays, PlayersPlay, PlayStepKeeps, StopStep
            DEF Next
    <2>. QED
        BY <1>1, <2>1, <2>2
<1>. QED
    BY <1>1, Initially, PTL DEF Spec

\* What release takes away is not used as long as its waits held up every thread
\* (CCLFFmpeg.cpp:373, CCLAudio.cpp:293, CCLVideo.cpp:288).
THEOREM OnlyOvertakenFault == Spec => []FaultNeedsOvertaking
<1>1. TeardownInv => FaultNeedsOvertaking
    BY DEF TeardownInv, Quiet, FaultNeedsOvertaking
<1>. QED
    BY <1>1, Teardown, PTL

\* A release that is done has freed both players with all their parts.
THEOREM NothingLeft == Spec => []AllFreed
<1>1. ASSUME TeardownInv PROVE AllFreed
    <2>1. (\E r \in Releasers : pc[r] = "done") => known = {} /\ ~javaCall /\ alive = {}
        BY <1>1 DEF TeardownInv
    <2>. QED
        BY <2>1 DEF AllFreed, At
<1>. QED
    BY <1>1, Teardown, PTL

\* No thread that plays raises the flag of the audio.
LEMMA AudioUnmarked ==
    ASSUME isExit \in [Players -> BOOLEAN],
           Open \/ UseAudio \/ UseVideo \/ UseVideoAlone \/ \E p \in Players : Player(p)
    PROVE  isExit'["audio"] => isExit["audio"]
<1>1. ASSUME NEW p \in Players, Player(p) PROVE isExit'["audio"] => isExit["audio"]
    <2>1. CASE Mark(p) \/ LeavePlayer(p)
        BY <2>1 DEF Mark, LeavePlayer, Players
    <2>2. CASE PlayerLoop(p) \/ Work(p) \/ Get(p) \/ Wait(p) \/ SpuriousWake(p)
        BY <2>2 DEF PlayerLoop, Work, Get, Wait, SpuriousWake, flags
    <2>. QED
        BY <1>1, <2>1, <2>2 DEF Player
<1>2. Open \/ UseAudio \/ UseVideo \/ UseVideoAlone => isExit' = isExit
    BY DEF Open, UseAudio, UseVideo, UseVideoAlone, flags
<1>. QED
    BY <1>1, <1>2

(***************************************************************************)
(* What the waits of a release overtake.                                    *)
(***************************************************************************)
Blamed == overwritten \/ (overtaken \union expired) \intersect Excused # {}

\* What a flag says of the threads it is waited for, while nothing excuses a
\* release that goes on: it was set by their ends, or before they began.
FlagsTell ==
    /\ overtaken = {}
    /\ finished => pc["demux"] \in {"idle", "enter", "done"}
    /\ isExit["audio"] => pc["demux"] = "done" /\ \A p \in Players : Gone(p)
    /\ isExit["video"] => pc["video"] \in {"none", "loop", "mark", "leave", "done"}

OvertakeInv ==
    /\ pc["demux"] \in DemuxLabel
    /\ \A p \in Players : pc[p] \in PlayerLabel
    /\ pc["decode"] = "prepared" => ~overwritten
    /\ Patient /\ ~Blamed => FlagsTell

\* A step that excuses nobody and raises no flag keeps the invariant, if who is awake
\* goes on in an order that the flags allow.
LEMMA TellsOn ==
    ASSUME OvertakeInv, UNCHANGED history,
           pc'["demux"] \in DemuxLabel, \A p \in Players : pc'[p] \in PlayerLabel,
           pc'["decode"] = "prepared" => pc["decode"] = "prepared",
           finished' =>
              \/ finished /\ (pc["demux"] \in {"idle", "enter", "done"} =>
                                pc'["demux"] \in {"idle", "enter", "done"})
              \/ pc'["demux"] = "done",
           isExit'["audio"] => isExit["audio"],
           pc["demux"] = "done" =>
              pc'["demux"] = "done" /\ \A p \in Players : Gone(p) => Gone(p)',
           isExit'["video"] =>
              \/ isExit["video"] /\ (pc["video"] \in {"none", "loop", "mark", "leave", "done"} =>
                                        pc'["video"] \in {"none", "loop", "mark", "leave", "done"})
              \/ pc'["video"] \in {"leave", "done"}
    PROVE  OvertakeInv'
<1>1. Blamed' <=> Blamed
    BY DEF Blamed, history
<1>2. ASSUME Patient, ~Blamed' PROVE FlagsTell'
    <2>1. FlagsTell
        BY <1>1, <1>2 DEF OvertakeInv
    <2>. QED
        BY <2>1 DEF FlagsTell, history
<1>3. overwritten' = overwritten
    BY DEF history
<1>. QED
    BY <1>2, <1>3 DEF OvertakeInv

LEMMA DemuxMoves ==
    ASSUME TeardownInv, OvertakeInv, Demux
    PROVE  /\ pc'["demux"] \in DemuxLabel /\ UNCHANGED isExit
           /\ finished' =>
                 \/ finished /\ (pc["demux"] \in {"idle", "enter", "done"} =>
                                   pc'["demux"] \in {"idle", "enter", "done"})
                 \/ pc'["demux"] = "done"
           /\ \A p \in Players : pc'[p] \in {pc[p], "open", "loop"} \/ (pc[p] = "asleep" /\ pc'[p] = "get")
           /\ pc'["video"] # "open" \/ pc'["video"] = pc["video"]
<1>. USE Names
<1>1. DOMAIN pc = Threads /\ pc["demux"] \in DemuxLabel
    BY DEF TeardownInv, TypeOK, OvertakeInv
<1>2. CASE Call \/ Enter \/ Loop \/ Again \/ Complete \/ OnComplete \/ Leave
    <2>1. PICK to \in DemuxLabel : pc' = [pc EXCEPT !["demux"] = to] \/ pc' = pc
        BY <1>2
        DEF Call, Enter, Loop, Again, Complete, OnComplete, Leave, Goto, DemuxLabel
    <2>2. pc'["demux"] \in DemuxLabel /\ \A p \in Players : pc'[p] = pc[p]
        BY <1>1, <2>1
    <2>3. UNCHANGED isExit
        BY <1>2 DEF Call, Enter, Loop, Again, Complete, OnComplete, Leave, flags
    <2>4. \/ pc'["demux"] \in {"enter", "done"}
          \/ pc["demux"] \notin {"idle", "enter", "done"} /\ UNCHANGED finished
          \/ ~finished'
        BY <1>1, <1>2
        DEF Call, Enter, Loop, Again, Complete, OnComplete, Leave, At, Goto, flags
    <2>5. pc'["demux"] = "enter" => UNCHANGED finished
        BY <1>1, <1>2
        DEF Call, Enter, Loop, Again, Complete, OnComplete, Leave, At, Goto, flags
    <2>. QED
        BY <2>2, <2>3, <2>4, <2>5, Names DEF Players
<1>3. ASSUME NEW to \in DemuxLabel, pc["demux"] \notin {"idle", "enter", "done"},
             pc' = [pc EXCEPT !["demux"] = to] \/ pc' = pc, UNCHANGED <<finished, isExit>>
      PROVE  /\ pc'["demux"] \in DemuxLabel /\ UNCHANGED isExit
             /\ \A p \in Players : pc'[p] = pc[p]
             /\ finished' => finished /\ pc["demux"] \notin {"idle", "enter", "done"}
    BY <1>1, <1>3
<1>4. CASE Read \/ Eof \/ Size("audioSize", "audio", "videoSize") \/ Size("videoSize", "video", "read")
    <2>1. /\ \E to \in DemuxLabel : pc' = [pc EXCEPT !["demux"] = to] \/ pc' = pc
          /\ pc["demux"] \notin {"idle", "enter", "done"} /\ UNCHANGED <<finished, isExit>>
        BY <1>4 DEF Read, Eof, Size, Use, At, flags, DemuxLabel
    <2>. QED
        BY <1>3, <2>1, Names DEF Players
<1>5. ASSUME NEW p \in Players, Put("putAudio", p) \/ Put("putVideo", p)
      PROVE  /\ pc'["demux"] \in DemuxLabel /\ UNCHANGED isExit
             /\ \A q \in Players : pc'[q] = pc[q] \/ (pc[q] = "asleep" /\ pc'[q] = "get")
             /\ finished' => finished /\ pc["demux"] \notin {"idle", "enter", "done"}
    <2>1. \/ pc' = [pc EXCEPT !["demux"] = "loop", ![p] = Woken(p)]
          \/ pc' = pc
        BY <1>5 DEF Put, Use
    <2>2. pc["demux"] \in {"putAudio", "putVideo"} /\ UNCHANGED <<finished, isExit>>
        BY <1>5 DEF Put, At, flags
    <2>3. pc'["demux"] \in {"loop", pc["demux"]}
        BY <1>1, <2>1
    <2>4. \A q \in Players : pc'[q] = pc[q] \/ pc'[q] = Woken(q)
        BY <1>1, <2>1
    <2>. QED
        BY <1>1, <2>2, <2>3, <2>4 DEF Woken, DemuxLabel
<1>6. ASSUME NEW p \in Players, NEW label \in {"playAudio", "playVideo"}, NEW first \in {"open", "loop"},
             NEW next \in {"playVideo", "loop"}, Play(label, p, first, next)
      PROVE  /\ pc'["demux"] \in DemuxLabel /\ UNCHANGED isExit
             /\ \A q \in Players : pc'[q] = pc[q] \/ (q = p /\ pc'[q] = first)
             /\ finished' => finished /\ pc["demux"] \notin {"idle", "enter", "done"}
    <2>1. \/ pc' = [pc EXCEPT !["demux"] = next, ![p] = IF p \in known THEN first ELSE @]
          \/ pc' = pc
        BY <1>6 DEF Play, Use
    <2>2. pc["demux"] = label /\ UNCHANGED <<finished, isExit>>
        BY <1>6 DEF Play, At, flags
    <2>3. pc'["demux"] \in {next, pc["demux"]}
        BY <1>1, <2>1
    <2>4. \A q \in Players : pc'[q] = pc[q] \/ (q = p /\ pc'[q] = first)
        BY <1>1, <2>1
    <2>. QED
        BY <1>1, <2>2, <2>3, <2>4 DEF DemuxLabel
<1>7. "audio" \in Players /\ "video" \in Players
    BY DEF Players
<1>8. CASE Put("putAudio", "audio") \/ Put("putVideo", "video")
    BY <1>5, <1>7, <1>8
<1>9. CASE Play("playAudio", "audio", "open", "playVideo")
    BY <1>6, <1>7, <1>9
<1>10. CASE Play("playVideo", "video", "loop", "loop")
    BY <1>6, <1>7, <1>10
<1>. QED
    BY <1>2, <1>4, <1>8, <1>9, <1>10 DEF Demux

LEMMA DemuxTells == ASSUME TeardownInv, OvertakeInv, Demux PROVE OvertakeInv'
<1>1. PlayStep
    BY DemuxPlays
<1>2. \A p \in Players : pc'[p] \in PlayerLabel
    BY DemuxMoves DEF OvertakeInv, PlayerLabel
<1>3. isExit'["video"] =>
        isExit["video"] /\ (pc["video"] \in {"none", "loop", "mark", "leave", "done"} =>
                                pc'["video"] \in {"none", "loop", "mark", "leave", "done"})
    BY DemuxMoves DEF Players
<1>. QED
    BY <1>1, <1>2, <1>3, DemuxMoves, TellsOn DEF PlayStep

\* A player's thread moves itself, through its labels.
LEMMA PlayersTell ==
    ASSUME TeardownInv, OvertakeInv,
           Open \/ UseAudio \/ UseVideo \/ UseVideoAlone \/ \E p \in Players : Player(p)
    PROVE  OvertakeInv'
<1>. USE Names
<1>. DEFINE Unmarked == {"none", "loop", "mark", "leave", "done"}
<1>1. PlayStep /\ (isExit'["audio"] => isExit["audio"])
    BY PlayersPlay, AudioUnmarked DEF TeardownInv, TypeOK
<1>2. /\ DOMAIN pc = Threads /\ isExit \in [Players -> BOOLEAN]
      /\ "audio" \in Players /\ "video" \in Players
      /\ pc["demux"] \in DemuxLabel /\ \A p \in Players : pc[p] \in PlayerLabel
    BY DEF TeardownInv, TypeOK, OvertakeInv, Players
<1>3. ASSUME NEW p \in Players, NEW parts, NEW next \in PlayerLabel, UsePlayer(p, parts, next)
      PROVE  /\ pc'["demux"] = pc["demux"] /\ pc'[p] \in {pc[p], next}
             /\ \A q \in Players : q # p => pc'[q] = pc[q]
    BY <1>2, <1>3 DEF UsePlayer, Use
<1>. DEFINE Moved(p) ==
        /\ UNCHANGED finished /\ pc'["demux"] = pc["demux"]
        /\ \A q \in Players : pc'[q] \in PlayerLabel
        /\ p # "video" => pc'["video"] = pc["video"] /\ isExit'["video"] = isExit["video"]
        /\ p = "video" /\ isExit'["video"] =>
              \/ isExit["video"] /\ (pc["video"] \in Unmarked => pc'["video"] \in Unmarked)
              \/ pc'["video"] \in {"leave", "done"}
<1>4. ASSUME NEW p \in Players, PlayerLoop(p) PROVE Moved(p)
    BY <1>2, <1>3, <1>4 DEF PlayerLoop, At, flags, PlayerLabel
<1>5. ASSUME NEW p \in Players, Mark(p) PROVE Moved(p)
    <2>1. UsePlayer(p, {"object"}, "work") /\ "work" \in PlayerLabel /\ UNCHANGED finished
        BY <1>5 DEF Mark, PlayerLabel
    <2>2. isExit' = [isExit EXCEPT ![p] = FALSE]
        BY <1>5 DEF Mark
    <2>3. p = "video" => ~isExit'["video"]
        BY <1>2, <2>2
    <2>4. p # "video" => isExit'["video"] = isExit["video"]
        BY <1>2, <2>2
    <2>. QED
        BY <1>2, <1>3, <2>1, <2>3, <2>4
<1>6. ASSUME NEW p \in Players, Work(p) PROVE Moved(p)
    <2>1. PICK next \in {"loop", "get", "use"} : UsePlayer(p, Parts(p) \ {"codec", "output"}, next)
        BY <1>6 DEF Work
    <2>. QED
        BY <1>2, <1>3, <1>6, <2>1 DEF Work, At, flags, PlayerLabel
<1>7. ASSUME NEW p \in Players, Get(p) PROVE Moved(p)
    <2>1. PICK next \in {"use", "waits"} : UsePlayer(p, {"object", "queue"}, next)
        BY <1>7 DEF Get
    <2>. QED
        BY <1>2, <1>3, <1>7, <2>1 DEF Get, At, flags, PlayerLabel
<1>8. ASSUME NEW p \in Players, Wait(p) PROVE Moved(p)
    BY <1>2, <1>3, <1>8 DEF Wait, At, flags, PlayerLabel
<1>9. ASSUME NEW p \in Players, SpuriousWake(p) PROVE Moved(p)
    BY <1>2, <1>9 DEF SpuriousWake, At, Goto, flags, PlayerLabel
<1>10. ASSUME NEW p \in Players, LeavePlayer(p) PROVE Moved(p)
    BY <1>2, <1>3, <1>10 DEF LeavePlayer, At, PlayerLabel
<1>11. ASSUME Open PROVE Moved("audio")
    <2>1. UsePlayer("audio", {"object", "output"}, "loop") /\ "loop" \in PlayerLabel /\ UNCHANGED flags
        BY <1>11 DEF Open, PlayerLabel
    <2>. QED
        BY <1>2, <1>3, <2>1 DEF flags
<1>12. ASSUME UseAudio PROVE Moved("audio")
    <2>1. PICK next \in {"loop", "leave"} : UsePlayer("audio", {"object", "status", "codec"}, next)
        BY <1>12 DEF UseAudio
    <2>2. next \in PlayerLabel /\ UNCHANGED flags
        BY <1>12 DEF UseAudio, PlayerLabel
    <2>. QED
        BY <1>2, <1>3, <2>1, <2>2 DEF flags
<1>13. ASSUME UseVideo \/ UseVideoAlone PROVE Moved("video")
    <2>1. /\ pc' = [pc EXCEPT !["video"] = "loop"] \/ pc' = pc
          /\ pc["video"] = "use" /\ UNCHANGED flags
        BY <1>13 DEF UseVideo, UseVideoAlone, Use, At
    <2>. QED
        BY <1>2, <2>1, Names DEF flags, PlayerLabel
<1>14. \E p \in Players : Moved(p)
    <2>1. ASSUME NEW p \in Players, Player(p) PROVE Moved(p)
        <3>. HIDE DEF Moved
        <3>. QED
            BY <1>4, <1>5, <1>6, <1>7, <1>8, <1>9, <1>10, <2>1 DEF Player
    <2>. HIDE DEF Moved
    <2>. QED
        BY <1>2, <1>11, <1>12, <1>13, <2>1
<1>15. PICK p \in Players : Moved(p)
    BY <1>14
<1>16. isExit'["video"] =>
          \/ isExit["video"] /\ (pc["video"] \in Unmarked => pc'["video"] \in Unmarked)
          \/ pc'["video"] \in {"leave", "done"}
    BY <1>15
<1>17. /\ UNCHANGED finished /\ pc'["demux"] = pc["demux"]
       /\ \A q \in Players : pc'[q] \in PlayerLabel
    BY <1>15
<1>18. /\ UNCHANGED history /\ pc'["decode"] = pc["decode"]
       /\ pc["demux"] = "done" =>
             pc'["demux"] = "done" /\ \A q \in Players : Gone(q) => Gone(q)'
       /\ isExit'["audio"] => isExit["audio"]
    BY <1>1 DEF PlayStep
<1>. QED
    BY <1>2, <1>16, <1>17, <1>18, TellsOn

\* The steps of the decode thread and of a release that end no wait.
LEMMA DecodeTells ==
    ASSUME TeardownInv, OvertakeInv, DecodeExit \/ DecodeUnlock
    PROVE  OvertakeInv'
<1>. USE Names
<1>1. DOMAIN pc = Threads /\ \A p \in Players : p \in {"audio", "video"}
    BY DEF TeardownInv, TypeOK
<1>2. CASE DecodeUnlock
    <2>1. /\ \A t \in Threads \ {"decode"} : pc'[t] = pc[t]
          /\ pc'["decode"] = "done" /\ UNCHANGED <<flags, history>>
        BY <1>1, <1>2 DEF DecodeUnlock, Goto
    <2>. QED
        BY <1>1, <2>1, TellsOn DEF OvertakeInv, flags, Gone, Players
<1>3. CASE DecodeExit
    <2>1. /\ \A t \in Threads \ {"decode"} : pc'[t] = pc[t]
          /\ pc'["decode"] = "unlocks" /\ UNCHANGED <<isExit, expired, overtaken>>
          /\ overwritten' = (pc["demux"] \notin {"idle", "enter", "done"})
          /\ ~overwritten
        BY <1>1, <1>3 DEF DecodeExit, At, Goto, OvertakeInv
    <2>2. ASSUME Patient, ~Blamed' PROVE FlagsTell'
        <3>1. ~Blamed /\ ~overwritten'
            BY <2>1, <2>2 DEF Blamed
        <3>2. FlagsTell
            BY <2>2, <3>1 DEF OvertakeInv
        <3>. QED
            BY <1>1, <2>1, <3>1, <3>2 DEF FlagsTell, Gone, Players
    <2>. QED
        BY <2>1, <2>2 DEF OvertakeInv, Players
<1>. QED
    BY <1>2, <1>3

LEMMA ReleaseTells ==
    ASSUME TeardownInv, OvertakeInv, NEW r \in Releasers,
           \/ Stop(r) \/ Lock(r) \/ Notice(r) \/ NoVictim(r) \/ Drain(r) \/ Clear(r)
           \/ Free(r) \/ Forget(r) \/ ClearJavaCall(r) \/ Unlock(r)
    PROVE  OvertakeInv'
<1>. USE Names
<1>1. DOMAIN pc = Threads /\ victim \in Players
    BY DEF TeardownInv, TypeOK
<1>2. UNCHANGED <<finished, isExit, history>>
    BY DEF Stop, Lock, Notice, NoVictim, Drain, Clear, Free, Forget, ClearJavaCall, Unlock, flags
<1>3. OthersStay(r)
    <2>1. \/ pc' = pc
          \/ \E label : pc' = [pc EXCEPT ![r] = label]
          \/ \E label : pc' = [pc EXCEPT ![r] = label, ![victim] = Woken(victim)]
        BY DEF Stop, Lock, Notice, NoVictim, NextVictim, Drain, Clear, Free, Forget, ClearJavaCall,
               Unlock, Goto
    <2>. QED
        BY <1>1, <2>1 DEF OthersStay, Woken
<1>. QED
    BY <1>2, <1>3, TellsOn DEF OthersStay, OvertakeInv, PlayerLabel, Gone, Players

LEMMA PassTells ==
    ASSUME TeardownInv, OvertakeInv, NEW r \in Releasers, WaitDemux(r) \/ WaitPlayer(r)
    PROVE  OvertakeInv'
<1>. USE Names
<1>1. /\ DOMAIN pc = Threads /\ victim \in Players
      /\ "audio" \in Players /\ "video" \in Players
    BY DEF TeardownInv, TypeOK, Players
<1>2. /\ \A t \in Threads : t # r => pc'[t] = pc[t]
      /\ UNCHANGED <<flags, expired, overwritten>>
    BY <1>1 DEF WaitDemux, WaitPlayer, Pass, Goto
<1>3. PICK threads : /\ overtaken' = IF overtaken = {} THEN Running(threads) ELSE overtaken
                     /\ \/ finished /\ threads = {"demux"}
                        \/ isExit[victim] /\ threads = Users(victim)
    BY DEF WaitDemux, WaitPlayer, Pass
<1>4. ASSUME Patient, ~Blamed' PROVE FlagsTell'
    <2>1. ~Blamed
        BY <1>2, <1>3, <1>4 DEF Blamed
    <2>2. FlagsTell
        BY <1>4, <2>1 DEF OvertakeInv
    <2>3. overtaken' = Running(threads) /\ overtaken' \intersect Excused = {}
        BY <1>3, <1>4, <2>2 DEF Blamed, FlagsTell
    <2>4. \A t \in threads : pc[t] \notin {"none", "done"} => <<t, pc[t]>> \notin Excused
        BY <2>3 DEF Running
    <2>5. \A t \in threads : pc[t] \in {"none", "done"}
        <3>1. CASE finished /\ threads = {"demux"}
            BY <2>2, <2>4, <3>1 DEF FlagsTell, Excused
        <3>2. CASE isExit[victim] /\ threads = Users(victim) /\ victim = "audio"
            BY <2>2, <3>2 DEF FlagsTell, Users, Gone
        <3>3. CASE isExit[victim] /\ threads = Users(victim) /\ victim = "video"
            BY <2>2, <2>4, <3>3 DEF FlagsTell, Users, Excused
        <3>. QED
            BY <1>1, <1>3, <3>1, <3>2, <3>3
    <2>6. overtaken' = {}
        BY <2>3, <2>5 DEF Running
    <2>. QED
        BY <1>1, <1>2, <2>2, <2>6 DEF FlagsTell, flags, Gone
<1>. QED
    BY <1>1, <1>2, <1>4 DEF OvertakeInv

LEMMA ExpireTells ==
    ASSUME TeardownInv, OvertakeInv, NEW r \in Releasers, ExpireDemux(r) \/ ExpirePlayer(r)
    PROVE  OvertakeInv'
<1>. USE Names
<1>1. /\ victim \in Players /\ isExit \in [Players -> BOOLEAN]
      /\ "audio" \in Players /\ "video" \in Players
    BY DEF TeardownInv, TypeOK, Players
<1>2. UNCHANGED <<overtaken, overwritten, pc>> /\ MayExpire
    BY DEF ExpireDemux, ExpirePlayer
<1>3. expired \subseteq expired'
    BY DEF ExpireDemux, ExpirePlayer, GiveUp
<1>4. ASSUME Patient, ~Blamed' PROVE FlagsTell'
    <2>1. ~Blamed
        BY <1>2, <1>3, <1>4 DEF Blamed
    <2>2. FlagsTell /\ overtaken = {}
        BY <1>4, <2>1 DEF OvertakeInv, FlagsTell
    <2>3. expired' \intersect Excused = {}
        BY <1>4 DEF Blamed
    <2>4. /\ pc["demux"] \in DemuxLabel \intersect Stuck
          /\ \A p \in Players : pc[p] \in PlayerLabel \intersect Stuck
        BY <1>2, <1>4 DEF MayExpire, OvertakeInv
    <2>5. CASE ExpireDemux(r)
        <3>1. <<"demux", pc["demux"]>> \in expired' /\ UNCHANGED isExit
            BY <2>2, <2>5 DEF ExpireDemux, GiveUp
        <3>2. pc["demux"] = "done"
            BY <2>3, <2>4, <3>1 DEF Excused, DemuxLabel, Stuck
        <3>. QED
            BY <1>2, <2>2, <3>1, <3>2 DEF FlagsTell, Gone
    <2>6. CASE ExpirePlayer(r)
        <3>1. /\ isExit' = [isExit EXCEPT ![victim] = TRUE] /\ UNCHANGED finished
              /\ \A t \in Users(victim) : <<t, pc[t]>> \in expired'
            BY <2>2, <2>6 DEF ExpirePlayer, GiveUp
        <3>2. \A t \in Users(victim) : pc[t] \in {"none", "done"}
            <4>1. ASSUME NEW t \in Players PROVE pc[t] \in {"none", "done", "asleep"}
                BY <2>4 DEF PlayerLabel, Stuck
            <4>2. \A t \in Players : <<t, "asleep">> \in Excused
                BY DEF Excused
            <4>3. Users(victim) \subseteq Players
                BY <1>1 DEF Users
            <4>. QED
                BY <2>3, <3>1, <4>1, <4>2, <4>3
        <3>3. pc["demux"] = "done"
            BY <2>2, <2>6 DEF ExpirePlayer, At, PastDemux, TeardownInv, Quiet
        <3>4. victim = "audio" => \A p \in Players : Gone(p)
            BY <3>2 DEF Users, Gone
        <3>5. victim = "video" => pc["video"] \in {"none", "done"}
            BY <3>2 DEF Users
        <3>6. isExit'["audio"] => isExit["audio"] \/ victim = "audio"
            BY <1>1, <3>1
        <3>7. isExit'["video"] => isExit["video"] \/ victim = "video"
            BY <1>1, <3>1
        <3>. QED
            BY <1>2, <2>2, <3>1, <3>3, <3>4, <3>5, <3>6, <3>7 DEF FlagsTell, Gone
    <2>. QED
        BY <2>5, <2>6
<1>. QED
    BY <1>2, <1>4 DEF OvertakeInv

\* If the waits outlast whatever runs, a release overtakes a thread that is not
\* through only for what Excused lists: a start not called yet or just entered, a
\* read from the network, a player asleep on its queue, a video whose isExit is still
\* the TRUE it was made with, and a start whose flag the preparation has overwritten
\* (CCLFFmpeg.cpp:189, CCLFFmpeg.cpp:197, CCLVideo.h:21).
THEOREM OnlyExcusedOvertaken == Spec => []OvertakesOnly
<1>1. Init => OvertakeInv
    BY Names DEF Init, OvertakeInv, DemuxLabel, PlayerLabel, FlagsTell, Players
<1>2. ASSUME TeardownInv, OvertakeInv, [Next]_vars PROVE OvertakeInv'
    <2>1. CASE UNCHANGED vars
        BY <1>2, <2>1 DEF vars, flags, history, OvertakeInv, Blamed, FlagsTell, Gone
    <2>2. ASSUME NEW r \in Releasers, Stop(r) \/ Release(r) PROVE OvertakeInv'
        BY <1>2, <2>2, ReleaseTells, PassTells, ExpireTells DEF Release
    <2>. QED
        BY <1>2, <2>1, <2>2, DecodeTells, DemuxTells, PlayersTell DEF Next
<1>3. OvertakeInv => OvertakesOnly
    BY DEF OvertakeInv, OvertakesOnly, Blamed, FlagsTell
<1>. QED
    BY <1>1, <1>2, <1>3, Teardown, PTL DEF Spec
=============================================================================
