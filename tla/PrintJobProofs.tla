--------------------------- MODULE PrintJobProofs ---------------------------
(***************************************************************************)
(* Proofs about PrintJob: one worker feeds a print, its lines are executed *)
(* in order across pauses, shutdowns and outages, and none is executed     *)
(* while the print is paused.                                              *)
(***************************************************************************)
EXTENDS PrintJob, TLAPS

-----------------------------------------------------------------------------
(* The inductive invariant: where the greenlets are, and the mutex          *)

\* Where a worker executes a line of the file, under the mutex.
AtLine == {"ran", "error", "internal", "begin", "wait_sent", "macro1", "macro2",
           "m400", "wait_m25", "wait_cancel", "cancel_macro"}

\* Where a worker is in its loop, between lines or at one.
Feeding == AtLine \cup {"loop", "on_error", "broken"}

\* Where the client and the sensor execute a command, under the mutex.
AtCommand == {"wait_sent", "macro1", "macro2", "m400", "wait_m25", "wait_cancel",
              "cancel_macro", "heat", "resume", "start_macro", "outage_moves"}

Spots == Feeding \cup AtCommand \cup {"idle", "handler", "lock", "sent"}

Others == {"client", "sensor"}

\* Where p may be, and with which command.
MayBe(p, l, c) ==
    \/ /\ p \in Workers /\ l \in Feeding \cup {"idle", "handler"}
       /\ c \in LineKinds \cup {"none"}
       /\ l = "wait_sent" => c = "PAUSE"
    \/ /\ p = "client" /\ l \in AtCommand \cup {"idle", "lock"}
       /\ c \in ClientCommands \cup {"none"}
       /\ l = "wait_sent" => c = "PAUSE"
    \/ /\ p = "sensor"
       /\ \/ l = "idle" /\ c = "none"
          \/ l \in {"wait_sent", "sent"} /\ c = "runout"
          \/ l \in AtCommand \cup {"lock"} /\ c = "PAUSE"

\* p executes a line or a command at l.
Under(p, l, c) ==
    \/ p \in Workers /\ l \in AtLine
    \/ p \in Others /\ l \in AtCommand /\ c # "runout"

Inside(p) == Under(p, pc[p], cmd[p])

Places ==
    /\ pc \in [Procs -> Spots]
    /\ cmd \in [Procs -> ClientCommands \cup LineKinds \cup {"none", "runout"}]
    /\ \A p \in Procs : MayBe(p, pc[p], cmd[p])

\* Who executes a line or a command holds the mutex; those who wait for it are in
\* its queue once.
MutexInv ==
    /\ owner \in Procs \cup {"none"} /\ queue \in Seq(Procs)
    /\ \A p \in Procs : Inside(p) => owner = p
    /\ owner # "none" => Inside(owner) \/ (owner \in Others /\ pc[owner] = "lock")
    /\ \A i \in 1..Len(queue) : /\ queue[i] \in Others /\ pc[queue[i]] = "lock"
                                /\ queue[i] # owner
    /\ \A i, j \in 1..Len(queue) : queue[i] = queue[j] => i = j
    /\ owner = "none" => queue = <<>>

-----------------------------------------------------------------------------
(* The inductive invariant: the print                                       *)

Types ==
    /\ work_timer \in BOOLEAN /\ must_pause_work \in BOOLEAN /\ cmd_from_sd \in BOOLEAN
    /\ is_over_work \in BOOLEAN /\ is_paused \in BOOLEAN /\ pause_command_sent \in BOOLEAN
    /\ sd_paused \in BOOLEAN /\ is_shutdown \in BOOLEAN /\ paused \in BOOLEAN
    /\ homed \in BOOLEAN

States == {"standby", "printing", "paused", "complete", "error", "cancelled"}

FileType == file \in [open : BOOLEAN, fail : BOOLEAN, pos : 0..Lines]

Feeds == [cur : 1..(Lines + 1), read : 0..Lines, next : 0..Lines]

DataTypes ==
    /\ stats \in [state : States, started : BOOLEAN]
    /\ z \in Heights /\ saved \in [1..3 -> Heights]

CountTypes ==
    /\ done \in 0..Lines /\ job \in 0..MaxJobs /\ jobs \in 0..MaxJobs
    /\ pc["client"] = "lock" /\ cmd["client"] \in {"SDCARD_PRINT_FILE", "M23"}
         => jobs < MaxJobs

\* The work timer is there exactly while one worker is; while a print is being
\* started there is none.
WorkerInv ==
    /\ \A v, w \in Workers : pc[v] # "idle" /\ pc[w] # "idle" => v = w
    /\ work_timer <=> \E w \in Workers : pc[w] # "idle"
    /\ pc["client"] \in {"start_macro", "outage_moves"} => ~work_timer

\* file_position is behind the lines that were executed, unless the print was
\* cancelled, or is being cancelled with its file closed or its stream failed.
InPlace ==
    \/ job \in cancelled
    \/ file.pos = done
    \/ /\ is_over_work /\ (~file.open \/ file.fail)
       /\ is_shutdown \/ \E p \in Procs : pc[p] = "cancel_macro"

\* A record of an outage continues a print behind the lines that were executed.
RecordOK(r) ==
    \/ r = NoRecord
    \/ /\ r.none = FALSE
       /\ r.pos \in 0..Lines /\ r.done \in 0..Lines /\ r.job \in 0..MaxJobs
       /\ r.gcode_z \in Heights
       /\ r.job \in cancelled \/ r.pos = r.done

Records == RecordOK(record) /\ RecordOK(context)

\* The worker's line is the one after those that were executed.
FeedInv ==
    /\ feed \in [Workers -> Feeds]
    /\ \A w \in Workers :
         /\ feed[w].cur <= feed[w].read + 1
         /\ pc[w] \in Feeding => /\ file.pos < feed[w].cur
                                 /\ job \in cancelled \/ feed[w].cur = done + 1
         /\ pc[w] \in AtLine =>
              /\ feed[w].cur <= feed[w].read /\ feed[w].next <= feed[w].cur
              /\ job \in cancelled \/ feed[w].next = feed[w].cur

CancelInv == \A p \in Procs : pc[p] = "wait_cancel" => is_over_work

\* A worker that is still there after a pause or a shutdown has been told to stop.
Told == must_pause_work \/ ~work_timer

PauseInv ==
    /\ paused \/ is_shutdown => Told
    /\ \A p \in Procs : pc[p] = "wait_m25" => Told

Inv ==
    /\ Places /\ MutexInv
    /\ Types /\ FileType /\ DataTypes /\ CountTypes
    /\ WorkerInv /\ InPlace /\ Records /\ FeedInv /\ CancelInv /\ PauseInv

-----------------------------------------------------------------------------
(* Facts about places and procedures                                        *)

\* The greenlets.
LEMMA ProcFacts ==
    /\ Procs = Workers \cup Others /\ "none" \notin Procs
    /\ \A p \in Workers : p \in Procs /\ p \notin Others /\ p # "client" /\ p # "sensor"
    /\ "client" \in Others /\ "sensor" \in Others /\ "client" \in Procs /\ "sensor" \in Procs
    /\ "client" \notin Workers /\ "sensor" \notin Workers
  BY DEF Procs, Workers, Others

\* The sets of places.
LEMMA PlaceFacts ==
    /\ AtLine \subseteq Feeding /\ Feeding \subseteq Spots /\ AtCommand \subseteq Spots
    /\ {"idle", "handler", "lock", "sent"} \subseteq Spots
    /\ "idle" \notin Feeding /\ "handler" \notin Feeding /\ "lock" \notin Feeding
    /\ "sent" \notin Feeding /\ "loop" \notin AtLine /\ "on_error" \notin AtLine
    /\ "broken" \notin AtLine /\ {"loop", "on_error", "broken"} \subseteq Feeding
    /\ "idle" \notin AtCommand /\ "lock" \notin AtCommand /\ "sent" \notin AtCommand
    /\ "handler" \notin AtCommand /\ "wait_sent" \in AtCommand
    /\ Feeding \cap AtCommand \subseteq AtLine
  BY DEF AtLine, Feeding, AtCommand, Spots

\* p goes to l with command c, and nobody else moves, but a worker may start.
Moves(p, l, c) ==
    /\ pc' \in [Procs -> Spots]
    /\ cmd' \in [Procs -> ClientCommands \cup LineKinds \cup {"none", "runout"}]
    /\ pc'[p] = l /\ cmd'[p] = c
    /\ \A r \in Procs : r # p =>
         /\ cmd'[r] = cmd[r]
         /\ pc'[r] = pc[r] \/ (r \in Workers /\ pc[r] = "idle" /\ pc'[r] = "handler")

\* Nobody else moves at all.
Alone(p) == \A r \in Procs : r # p => pc'[r] = pc[r]

\* What Goto() and GotoWith() do.
LEMMA GotoMoves ==
    ASSUME Places, NEW p \in Procs, NEW l, NEW c, MayBe(p, l, c),
           pc' = [pc EXCEPT ![p] = l], cmd' = [cmd EXCEPT ![p] = c]
    PROVE  Moves(p, l, c) /\ Alone(p)
<1>1. l \in Spots /\ c \in ClientCommands \cup LineKinds \cup {"none", "runout"}
  <2>1. CASE p \in Workers
    BY <2>1, PlaceFacts, ProcFacts DEF MayBe
  <2>2. CASE p = "client"
    BY <2>2, PlaceFacts, ProcFacts DEF MayBe
  <2>3. CASE p = "sensor"
    <3>1. l \in Spots
      BY <2>3, PlaceFacts, ProcFacts DEF MayBe
    <3>2. c \in {"none", "runout", "PAUSE"}
      BY <2>3, ProcFacts DEF MayBe
    <3> QED  BY <3>1, <3>2 DEF LineKinds
  <2> QED  BY <2>1, <2>2, <2>3, ProcFacts DEF Others
<1> QED  BY <1>1 DEF Moves, Alone, Places

\* The places are kept.
LEMMA PlacesKept ==
    ASSUME Places, NEW p \in Procs, NEW l, NEW c, MayBe(p, l, c), Moves(p, l, c)
    PROVE  Places'
<1>1. ASSUME NEW r \in Procs PROVE MayBe(r, pc[r], cmd[r])'
  <2>1. CASE r = p
    BY <2>1 DEF Moves, MayBe
  <2>2. CASE r # p
    <3>1. MayBe(r, pc[r], cmd[r]) /\ cmd'[r] = cmd[r]
      BY <2>2 DEF Places, Moves
    <3>2. CASE pc'[r] = pc[r]
      BY <3>1, <3>2 DEF MayBe
    <3>3. CASE r \in Workers /\ pc[r] = "idle" /\ pc'[r] = "handler"
      BY <3>1, <3>3, ProcFacts DEF MayBe
    <3> QED  BY <2>2, <3>2, <3>3 DEF Moves
  <2> QED  BY <2>1, <2>2
<1> QED  BY <1>1 DEF Places, Moves

-----------------------------------------------------------------------------
(* The mutex                                                                *)

\* Who is inside besides p stays so.
LEMMA OthersInside ==
    ASSUME Places, NEW p \in Procs, NEW l, NEW c, Moves(p, l, c),
           NEW r \in Procs, r # p
    PROVE  /\ Inside(r)' <=> Inside(r)
           /\ pc[r] = "lock" <=> pc'[r] = "lock"
<1>1. cmd'[r] = cmd[r]
  BY DEF Moves
<1>2. CASE pc'[r] = pc[r]
  BY <1>1, <1>2 DEF Inside, Under
<1>3. CASE r \in Workers /\ pc[r] = "idle" /\ pc'[r] = "handler"
  BY <1>3, PlaceFacts, ProcFacts DEF Inside, Under
<1> QED  BY <1>2, <1>3 DEF Moves

\* A step under the mutex.
LEMMA MutexKept ==
    ASSUME Places, MutexInv, NEW p \in Procs, NEW l, NEW c, Moves(p, l, c),
           owner = p, UNCHANGED lockVars, Under(p, l, c)
    PROVE  MutexInv'
<1>1. Inside(p)'
  BY DEF Inside, Moves
<1>2. \A r \in Procs : Inside(r)' => owner = r
  BY OthersInside DEF MutexInv
<1>3. \A i \in 1..Len(queue) : queue[i] \in Procs /\ queue[i] # p
  BY DEF MutexInv
<1>4. \A i \in 1..Len(queue) : pc'[queue[i]] = "lock"
  BY <1>3, OthersInside DEF MutexInv
<1> QED  BY <1>1, <1>2, <1>4 DEF MutexInv, lockVars

\* The end of what p does under the mutex.
LEMMA MutexLeft ==
    ASSUME Places, MutexInv, NEW p \in Procs, NEW l, NEW c, Moves(p, l, c),
           owner = p, Unlock, ~Under(p, l, c), l # "lock"
    PROVE  MutexInv'
<1>1. ~Inside(p)'
  BY DEF Inside, Moves
<1>2. \A r \in Procs : ~Inside(r)'
  BY <1>1, OthersInside DEF MutexInv
<1>3. \A i \in 1..Len(queue) : queue[i] \in Procs /\ queue[i] # p
  BY DEF MutexInv
<1>4. \A i \in 1..Len(queue) : pc'[queue[i]] = "lock"
  BY <1>3, OthersInside DEF MutexInv
<1>n. "none" \notin Procs
  BY ProcFacts
<1>5. CASE queue = <<>>
  <2>1. owner' = "none" /\ queue' = <<>>
    BY <1>5 DEF Unlock
  <2> QED  BY <2>1, <1>2 DEF MutexInv
<1>6. CASE queue # <<>>
  <2>1. owner' = queue[1] /\ queue' = Tail(queue)
    BY <1>6 DEF Unlock
  <2>2. /\ queue \in Seq(Procs) /\ 1 \in 1..Len(queue)
        /\ Tail(queue) \in Seq(Procs) /\ Len(Tail(queue)) = Len(queue) - 1
        /\ \A i \in 1..Len(Tail(queue)) : Tail(queue)[i] = queue[i + 1] /\ i + 1 \in 1..Len(queue)
    BY <1>6 DEF MutexInv
  <2>3. owner' \in Others /\ pc'[owner'] = "lock" /\ owner' \in Procs
    BY <2>1, <2>2, <1>4 DEF MutexInv
  <2>4. \A i \in 1..Len(queue') : /\ queue'[i] \in Others /\ pc'[queue'[i]] = "lock"
                                  /\ queue'[i] # owner'
    BY <2>1, <2>2, <1>4 DEF MutexInv
  <2>5. \A i, j \in 1..Len(queue') : queue'[i] = queue'[j] => i = j
    BY <2>1, <2>2 DEF MutexInv
  <2> QED  BY <2>1, <2>2, <2>3, <2>4, <2>5, <1>2, <1>n DEF MutexInv
<1> QED  BY <1>5, <1>6

\* A step outside the mutex.
LEMMA MutexOutside ==
    ASSUME Places, MutexInv, NEW p \in Procs, NEW l, NEW c, Moves(p, l, c),
           UNCHANGED lockVars, ~Inside(p), ~Under(p, l, c), pc[p] # "lock", l # "lock"
    PROVE  MutexInv'
<1>1. ~Inside(p)' /\ owner # p
  BY ProcFacts DEF Inside, Moves, MutexInv
<1>2. \A r \in Procs : Inside(r)' => owner = r
  BY <1>1, OthersInside DEF MutexInv
<1>3. \A i \in 1..Len(queue) : queue[i] \in Procs /\ queue[i] # p
  BY DEF MutexInv
<1>4. \A i \in 1..Len(queue) : pc'[queue[i]] = "lock"
  BY <1>3, OthersInside DEF MutexInv
<1>5. \A r \in Procs : r = owner => Inside(r)' \/ (r \in Others /\ pc'[r] = "lock")
  BY <1>1, ProcFacts, OthersInside DEF MutexInv, Inside
<1> QED  BY <1>2, <1>4, <1>5 DEF MutexInv, lockVars, Inside

\* p asks for the mutex.
LEMMA MutexAsked ==
    ASSUME Places, MutexInv, NEW p \in Others, NEW c, Moves(p, "lock", c),
           Lock(p), ~Inside(p), pc[p] # "lock"
    PROVE  MutexInv'
<1>0. p \in Procs /\ "none" \notin Procs
  BY ProcFacts
<1>1. ~Inside(p)' /\ owner # p /\ pc'[p] = "lock"
  BY <1>0, ProcFacts, PlaceFacts DEF Inside, Moves, MutexInv, Under
<1>2. \A r \in Procs : Inside(r)' => owner = r
  BY <1>0, <1>1, OthersInside DEF MutexInv
<1>3. \A i \in 1..Len(queue) : queue[i] \in Procs /\ queue[i] # p
  BY DEF MutexInv
<1>4. \A i \in 1..Len(queue) : pc'[queue[i]] = "lock"
  BY <1>0, <1>3, OthersInside DEF MutexInv
<1>5. \A r \in Procs : r = owner => Inside(r)' \/ (r \in Others /\ pc'[r] = "lock")
  BY <1>0, <1>1, OthersInside DEF MutexInv, Inside
<1>6. CASE owner = "none"
  <2>1. owner' = p /\ queue' = <<>> /\ queue = <<>>
    BY <1>6 DEF Lock, MutexInv
  <2> QED  BY <2>1, <1>0, <1>1, <1>2, <1>6 DEF MutexInv
<1>7. CASE owner # "none"
  <2>1. owner' = owner /\ queue' = Append(queue, p)
    BY <1>7 DEF Lock
  <2>2. /\ queue \in Seq(Procs) /\ Append(queue, p) \in Seq(Procs)
        /\ Len(Append(queue, p)) = Len(queue) + 1
        /\ Append(queue, p)[Len(queue) + 1] = p
        /\ \A i \in 1..Len(queue) : Append(queue, p)[i] = queue[i]
    BY <1>0 DEF MutexInv
  <2>4. \A i \in 1..Len(queue') : /\ queue'[i] \in Others /\ pc'[queue'[i]] = "lock"
                                  /\ queue'[i] # owner'
    <3> SUFFICES ASSUME NEW i \in 1..Len(queue')
                 PROVE  /\ queue'[i] \in Others /\ pc'[queue'[i]] = "lock"
                        /\ queue'[i] # owner'
      OBVIOUS
    <3>1. CASE i = Len(queue) + 1
      BY <3>1, <2>1, <2>2, <1>1
    <3>2. CASE i # Len(queue) + 1
      <4>1. i \in 1..Len(queue)
        BY <3>2, <2>1, <2>2
      <4> QED  BY <4>1, <2>1, <2>2, <1>4 DEF MutexInv
    <3> QED  BY <3>1, <3>2
  <2>5. \A i, j \in 1..Len(queue') : queue'[i] = queue'[j] => i = j
    BY <2>1, <2>2, <1>3 DEF MutexInv
  <2> QED  BY <2>1, <2>2, <2>4, <2>5, <1>2, <1>5, <1>7 DEF MutexInv, Inside
<1> QED  BY <1>6, <1>7

\* A worker takes the free mutex.
LEMMA MutexTaken ==
    ASSUME Places, MutexInv, NEW p \in Workers, NEW l, NEW c, Moves(p, l, c),
           owner = "none", owner' = p, queue' = queue, Under(p, l, c)
    PROVE  MutexInv'
<1>0. p \in Procs /\ "none" \notin Procs
  BY ProcFacts
<1>1. Inside(p)' /\ queue = <<>>
  BY DEF Inside, Moves, MutexInv
<1>2. \A r \in Procs : Inside(r)' => r = p
  BY <1>0, OthersInside DEF MutexInv
<1> QED  BY <1>0, <1>1, <1>2 DEF MutexInv

-----------------------------------------------------------------------------
(* Steps that leave the print alone                                         *)

\* What p may do with the mutex when it goes to l with c.
Passes(p, l, c) ==
    \/ owner = p /\ UNCHANGED lockVars /\ Under(p, l, c)
    \/ owner = p /\ Unlock /\ ~Under(p, l, c) /\ l # "lock"
    \/ /\ UNCHANGED lockVars /\ ~Inside(p) /\ ~Under(p, l, c)
       /\ pc[p] # "lock" /\ l # "lock"
    \/ p \in Others /\ Lock(p) /\ ~Inside(p) /\ pc[p] # "lock" /\ l = "lock"
    \/ p \in Workers /\ owner = "none" /\ owner' = p /\ queue' = queue /\ Under(p, l, c)

\* The places and the mutex are kept by whatever passes.
LEMMA ControlKept ==
    ASSUME Places, MutexInv, NEW p \in Procs, NEW l, NEW c,
           MayBe(p, l, c), Moves(p, l, c), Passes(p, l, c)
    PROVE  Places' /\ MutexInv'
  BY PlacesKept, MutexKept, MutexLeft, MutexOutside, MutexAsked, MutexTaken DEF Passes

\* A worker stays in its loop, at its line or behind it.
GoesOn(p, l) ==
    p \in Workers => pc[p] \in Feeding /\ l \in Feeding /\ (l \in AtLine => pc[p] \in AtLine)

\* p goes to l with c, the mutex is passed on as it must be, and nobody else moves.
Goes(p, l, c) ==
    MayBe(p, l, c) /\ Moves(p, l, c) /\ Alone(p) /\ Passes(p, l, c) /\ GoesOn(p, l)

\* Nobody but p changes its place, and a worker goes on.
LEMMA WorkersKept ==
    ASSUME Places, WorkerInv, NEW p \in Procs, NEW l, NEW c, Moves(p, l, c), Alone(p),
           GoesOn(p, l), work_timer' = work_timer,
           p = "client" => l \notin {"start_macro", "outage_moves"}
    PROVE  WorkerInv'
<1>1. \A w \in Workers : pc'[w] # "idle" <=> pc[w] # "idle"
  <2> SUFFICES ASSUME NEW w \in Workers PROVE pc'[w] # "idle" <=> pc[w] # "idle"
    OBVIOUS
  <2>1. CASE w = p
    BY <2>1, PlaceFacts DEF GoesOn, Moves
  <2>2. CASE w # p
    BY <2>2, ProcFacts DEF Alone
  <2> QED  BY <2>1, <2>2
<1>2. pc'["client"] \in {"start_macro", "outage_moves"} => pc["client"] = pc'["client"]
  BY ProcFacts DEF Moves, Alone
<1> QED  BY <1>1, <1>2 DEF WorkerInv

\* The lines and the file are left alone.
LEMMA FeedKept ==
    ASSUME FeedInv, NEW p \in Procs, NEW l, NEW c, Moves(p, l, c), Alone(p), GoesOn(p, l),
           UNCHANGED <<feed, job, done>>, cancelled \subseteq cancelled',
           file.pos \in Nat, file'.pos \in Nat, file'.pos <= file.pos
    PROVE  FeedInv'
<1>1. ASSUME NEW w \in Workers
      PROVE  /\ pc'[w] \in Feeding => pc[w] \in Feeding
             /\ pc'[w] \in AtLine => pc[w] \in AtLine
  <2>1. CASE w = p
    BY <2>1 DEF GoesOn, Moves
  <2>2. CASE w # p
    BY <2>2, ProcFacts DEF Alone
  <2> QED  BY <2>1, <2>2
<1>2. \A w \in Workers : feed[w].cur \in Nat
  BY PrintAssumption DEF FeedInv, Feeds
<1> QED  BY <1>1, <1>2 DEF FeedInv

\* p goes to l with c and does not touch the print.
Quiet(p, l, c) ==
    /\ Goes(p, l, c)
    /\ UNCHANGED <<file, work_timer, is_over_work, feed, is_shutdown, job,
                   done, jobs, homed, cancelled, stats, cmd_from_sd>>
    /\ UNCHANGED <<record, context>> \/ (record' = NoRecord /\ context' = NoRecord)
    /\ must_pause_work' \in BOOLEAN /\ (must_pause_work => must_pause_work')
    /\ is_paused' \in BOOLEAN /\ pause_command_sent' \in BOOLEAN /\ sd_paused' \in BOOLEAN
    /\ paused' \in BOOLEAN /\ z' \in Heights /\ saved' \in [1..3 -> Heights]
    /\ l # "wait_cancel" /\ (p = "client" => l \notin {"start_macro", "outage_moves"})
    /\ (pc[p] = "cancel_macro" => is_shutdown)
    /\ (paused' => paused \/ Told') /\ (l = "wait_m25" => Told')
    /\ (p = "client" /\ l = "lock" /\ c \in {"SDCARD_PRINT_FILE", "M23"} => jobs < MaxJobs)

\* Such a step keeps the invariant.
LEMMA QuietStep ==
    ASSUME Inv, NEW p \in Procs, NEW l, NEW c, Quiet(p, l, c)
    PROVE  Inv'
<1>1. Places' /\ MutexInv'
  BY ControlKept DEF Inv, Quiet, Goes
<1>2. FileType' /\ DataTypes'
  BY DEF Inv, Quiet, FileType, DataTypes
<1>t. Types'
  BY DEF Inv, Quiet, Types
<1>3. CountTypes'
  <2>1. p # "client" => pc'["client"] = pc["client"] /\ cmd'["client"] = cmd["client"]
    BY ProcFacts DEF Quiet, Goes, Moves, Alone
  <2>2. p = "client" => pc'["client"] = l /\ cmd'["client"] = c
    BY DEF Quiet, Goes, Moves
  <2> QED  BY <2>1, <2>2 DEF Inv, Quiet, CountTypes
<1>4. WorkerInv'
  BY WorkersKept DEF Inv, Quiet, Goes
<1>5. FeedInv'
  <2>1. file.pos \in Nat /\ file' = file
    BY PrintAssumption DEF Inv, FileType, Quiet
  <2> QED  BY <2>1, FeedKept DEF Inv, Quiet, Goes
<1>6. InPlace'
  <2>1. ASSUME NEW r \in Procs, pc[r] = "cancel_macro" PROVE is_shutdown' \/ pc'[r] = "cancel_macro"
    BY <2>1 DEF Quiet, Goes, Alone
  <2> QED  BY <2>1 DEF Inv, Quiet, InPlace
<1>7. Records'
  BY DEF Inv, Quiet, Records, RecordOK
<1>8. CancelInv'
  BY DEF Inv, Quiet, Goes, CancelInv, Moves, Alone
<1>9. PauseInv'
  <2>1. Told => Told'
    BY DEF Quiet, Told
  <2>2. ASSUME NEW r \in Procs, pc'[r] = "wait_m25" PROVE paused \/ Told' \/ pc[r] = "wait_m25"
    BY <2>2 DEF Quiet, Goes, Moves, Alone
  <2> QED  BY <2>1, <2>2 DEF Inv, Quiet, PauseInv
<1> QED  BY <1>1, <1>2, <1>t, <1>3, <1>4, <1>5, <1>6, <1>7, <1>8, <1>9 DEF Inv

-----------------------------------------------------------------------------
(* Where a handler leads                                                    *)

\* The command p has once it is at l.
Kept(p, l) == IF l = "idle" THEN "none" ELSE cmd[p]

\* p executes a line or a command, or has just been given the mutex for one.
Runs(p) == Inside(p) \/ (owner = p /\ pc[p] = "lock")

\* The commands are not the one of the sensor's event.
LEMMA ClientNever == "runout" \notin ClientCommands \cup {"none"}
  BY DEF ClientCommands

\* Who does has the mutex.
LEMMA RunsHolds ==
    ASSUME Places, MutexInv, NEW p \in Procs, Runs(p)
    PROVE  /\ owner = p
           /\ p \in Workers => pc[p] \in AtLine
           /\ p \in Others => cmd[p] # "runout" /\ pc[p] \in AtCommand \cup {"lock"}
<1>1. owner = p
  BY DEF Runs, MutexInv
<1>2. p \in Workers => pc[p] \in AtLine
  BY ProcFacts, PlaceFacts DEF Runs, Inside, Under, Places, MayBe
<1>3. p \in Others => cmd[p] # "runout" /\ pc[p] \in AtCommand \cup {"lock"}
  BY ClientNever, ProcFacts, PlaceFacts DEF Runs, Inside, Under, Places, MayBe
<1> QED  BY <1>1, <1>2, <1>3

\* What a greenlet at a place of a handler does.
LEMMA HandlerRuns ==
    ASSUME Places, NEW p \in Procs,
           \/ pc[p] \in AtLine \cup AtCommand /\ pc[p] # "wait_sent"
           \/ pc[p] = "lock" /\ owner = p
    PROVE  Runs(p)
  BY ClientNever, ProcFacts, PlaceFacts DEF Runs, Inside, Under, Places, MayBe, Others

\* A step within a handler.
LEMMA GoesWithin ==
    ASSUME Places, MutexInv, NEW p \in Procs, Runs(p), NEW l,
           Goto(p, l), UNCHANGED lockVars,
           p \in Workers => l \in AtLine,
           p \in Others => l \in AtCommand,
           l # "wait_sent" \/ cmd[p] = "PAUSE"
    PROVE  Goes(p, l, cmd[p])
<1>0. /\ owner = p
      /\ p \in Workers => pc[p] \in AtLine
      /\ p \in Others => cmd[p] # "runout" /\ pc[p] \in AtCommand \cup {"lock"}
  BY RunsHolds
<1>1. l # "idle"
  BY PlaceFacts, ProcFacts
<1>2. MayBe(p, l, cmd[p])
  BY <1>0, PlaceFacts, ProcFacts DEF Places, MayBe
<1>3. Moves(p, l, cmd[p]) /\ Alone(p)
  BY <1>1, <1>2, GotoMoves DEF Goto
<1>4. Under(p, l, cmd[p])
  BY <1>0, ProcFacts DEF Under
<1>5. GoesOn(p, l)
  BY <1>0, PlaceFacts DEF GoesOn
<1> QED  BY <1>0, <1>2, <1>3, <1>4, <1>5 DEF Goes, Passes

\* A handler ends, with or without an error.
LEMMA GoesOut ==
    ASSUME Places, MutexInv, NEW p \in Procs, Runs(p), NEW l,
           Goto(p, l), Unlock,
           p \in Workers => l \in {"on_error", "broken", "loop"},
           p \in Others => l = "idle"
    PROVE  Goes(p, l, Kept(p, l))
<1>0. /\ owner = p
      /\ p \in Workers => pc[p] \in AtLine
  BY RunsHolds
<1>2. MayBe(p, l, Kept(p, l))
  BY <1>0, PlaceFacts, ProcFacts DEF Places, MayBe, Kept, Others
<1>3. Moves(p, l, Kept(p, l)) /\ Alone(p)
  BY <1>2, GotoMoves DEF Goto, Kept
<1>4. ~Under(p, l, Kept(p, l)) /\ l # "lock"
  BY <1>0, ProcFacts, PlaceFacts DEF Under
<1>5. GoesOn(p, l)
  BY <1>0, PlaceFacts DEF GoesOn
<1> QED  BY <1>0, <1>2, <1>3, <1>4, <1>5 DEF Goes, Passes

\* Return()
LEMMA GoesReturn ==
    ASSUME Places, MutexInv, NEW p \in Procs, Runs(p), Return(p)
    PROVE  \E l \in {"ran", "idle"} : Goes(p, l, Kept(p, l)) /\ (p \in Workers <=> l = "ran")
<1>1. CASE p \in Workers
  <2>1. Goes(p, "ran", cmd[p])
    BY <1>1, GoesWithin, ProcFacts DEF Return, AtLine
  <2> QED  BY <2>1, <1>1 DEF Kept
<1>2. CASE p \notin Workers
  <2>1. Goes(p, "idle", Kept(p, "idle"))
    BY <1>2, GoesOut, ProcFacts DEF Return
  <2> QED  BY <2>1, <1>2
<1> QED  BY <1>1, <1>2

\* Throw()
LEMMA GoesThrow ==
    ASSUME Places, MutexInv, NEW p \in Procs, Runs(p), Throw(p)
    PROVE  \E l \in {"on_error", "idle"} :
             Goes(p, l, Kept(p, l)) /\ (p \in Workers <=> l = "on_error")
<1>1. CASE p \in Workers
  <2>1. Goes(p, "on_error", Kept(p, "on_error"))
    BY <1>1, GoesOut, ProcFacts DEF Throw
  <2> QED  BY <2>1, <1>1
<1>2. CASE p \notin Workers
  <2>1. Goes(p, "idle", Kept(p, "idle"))
    BY <1>2, GoesOut, ProcFacts DEF Throw
  <2> QED  BY <2>1, <1>2
<1> QED  BY <1>1, <1>2

-----------------------------------------------------------------------------
(* The actions that leave the print alone                                   *)

\* The heights of the print.
LEMMA HeightFacts ==
    ASSUME CountTypes
    PROVE  /\ \A at \in {"absent", "print", "lift", "waste", "park"} : Height(at) \in Heights
           /\ Absent \in Heights /\ NoneSaved \in [1..3 -> Heights]
  BY PrintAssumption DEF CountTypes, Height, Heights, Absent, NoneSaved

\* A line that ends in an error.
LEMMA LineErrorKeeps ==
    ASSUME Inv, NEW p \in Workers, LineError(p)
    PROVE  Inv'
<1>1. Runs(p)
  BY HandlerRuns, ProcFacts DEF Inv, LineError, AtLine
<1>2. PICK l \in {"on_error", "idle"} : Goes(p, l, Kept(p, l))
  BY <1>1, GoesThrow, ProcFacts DEF Inv, LineError
<1>3. Quiet(p, l, Kept(p, l))
  BY <1>2, ProcFacts DEF LineError, Quiet, Inv, Types, DataTypes, sdVars, pauseVars, moveVars, histVars
<1> QED  BY <1>3, QuietStep, ProcFacts

\* A command that is refused after a shutdown.
LEMMA RefusedKeeps ==
    ASSUME Inv, NEW p \in Procs, Refused(p)
    PROVE  Inv'
<1>1. Runs(p)
  BY HandlerRuns DEF Inv, Refused, AtLine, AtCommand
<1>2. PICK l \in {"on_error", "idle"} : Goes(p, l, Kept(p, l))
  BY <1>1, GoesThrow DEF Inv, Refused
<1>3. Quiet(p, l, Kept(p, l))
  BY <1>2 DEF Refused, Quiet, Inv, Types, DataTypes, sdVars, pauseVars, moveVars, histVars
<1> QED  BY <1>3, QuietStep

\* The beginning of a handler.
LEMMA BeginsRuns ==
    ASSUME Inv, NEW p \in Procs, NEW c, Begins(p, c)
    PROVE  Runs(p) /\ cmd[p] = c /\ ~is_shutdown /\ pc[p] # "cancel_macro"
  BY HandlerRuns DEF Inv, Begins, AtLine

\* The commands of RESUME and CLEAR_PAUSE up to the resumption.
LEMMA ResumeBeginKeeps ==
    ASSUME Inv, ResumeBegin("client")
    PROVE  Inv'
<1>1. Runs("client") /\ pc["client"] # "cancel_macro"
  BY BeginsRuns, ProcFacts DEF ResumeBegin
<1>2. PICK l \in {"ran", "idle", "heat", "resume"} : Goes("client", l, Kept("client", l))
  <2>1. CASE Return("client")
    BY <2>1, <1>1, GoesReturn, ProcFacts DEF Inv
  <2>2. CASE Goto("client", IF homed THEN "heat" ELSE "resume") /\ UNCHANGED lockVars
    <3>1. PICK l \in {"heat", "resume"} : Goto("client", l) /\ UNCHANGED lockVars
      BY <2>2
    <3>2. Goes("client", l, cmd["client"])
      BY <3>1, <1>1, GoesWithin, ProcFacts DEF Inv, AtCommand
    <3> QED  BY <3>2 DEF Kept
  <2> QED  BY <2>1, <2>2 DEF ResumeBegin
<1>3. Quiet("client", l, Kept("client", l))
  BY <1>1, <1>2 DEF ResumeBegin, Quiet, Inv, Types, DataTypes, sdVars, pauseVars, moveVars, histVars
<1> QED  BY <1>3, QuietStep, ProcFacts

\* The head goes back to where it was.
LEMMA ResumeHeatedKeeps ==
    ASSUME Inv, ResumeHeated("client")
    PROVE  Inv'
<1>1. Runs("client") /\ pc["client"] # "cancel_macro"
  BY HandlerRuns, ProcFacts DEF Inv, ResumeHeated, AtCommand
<1>2. PICK l \in {"ran", "idle", "resume"} : Goes("client", l, Kept("client", l))
  <2>1. CASE Return("client")
    BY <2>1, <1>1, GoesReturn, ProcFacts DEF Inv
  <2>2. CASE Goto("client", "resume") /\ UNCHANGED lockVars
    <3>2. Goes("client", "resume", cmd["client"])
      BY <2>2, <1>1, GoesWithin, ProcFacts DEF Inv, AtCommand
    <3> QED  BY <3>2 DEF Kept
  <2> QED  BY <2>1, <2>2 DEF ResumeHeated
<1>z. z' \in Heights
  BY DEF ResumeHeated, Inv, DataTypes
<1>3. Quiet("client", l, Kept("client", l))
  BY <1>1, <1>2, <1>z DEF ResumeHeated, Quiet, Inv, Types, DataTypes, sdVars, pauseVars, histVars
<1> QED  BY <1>3, QuietStep, ProcFacts

\* CLEAR_PAUSE
LEMMA ClearPauseKeeps ==
    ASSUME Inv, ClearPause("client")
    PROVE  Inv'
<1>1. Runs("client") /\ pc["client"] # "cancel_macro"
  BY BeginsRuns, ProcFacts DEF ClearPause
<1>2. PICK l \in {"ran", "idle"} : Goes("client", l, Kept("client", l))
  BY <1>1, GoesReturn, ProcFacts DEF Inv, ClearPause
<1>3. Quiet("client", l, Kept("client", l))
  BY <1>1, <1>2 DEF ClearPause, Quiet, Inv, Types, DataTypes, sdVars, moveVars, histVars
<1> QED  BY <1>3, QuietStep, ProcFacts

\* The macros of PAUSE.
LEMMA PauseSave2Keeps ==
    ASSUME Inv, NEW p \in Procs, PauseSave2(p)
    PROVE  Inv'
<1>1. Runs(p) /\ pc[p] # "cancel_macro"
  BY HandlerRuns DEF Inv, PauseSave2, AtCommand
<1>2. PICK l \in {"macro2", "m400"} : Goto(p, l) /\ UNCHANGED lockVars
  BY DEF PauseSave2
<1>3. Goes(p, l, cmd[p])
  BY <1>1, <1>2, GoesWithin DEF Inv, AtLine, AtCommand
<1>4. z' \in Heights /\ saved' \in [1..3 -> Heights]
  BY HeightFacts DEF PauseSave2, Inv, DataTypes
<1>5. Quiet(p, l, cmd[p])
  BY <1>1, <1>3, <1>4 DEF PauseSave2, Quiet, Inv, Types, sdVars, pauseVars, histVars
<1> QED  BY <1>5, QuietStep

\* The last of them.
LEMMA PauseSave3Keeps ==
    ASSUME Inv, NEW p \in Procs, PauseSave3(p)
    PROVE  Inv'
<1>1. Runs(p) /\ pc[p] # "cancel_macro"
  BY HandlerRuns DEF Inv, PauseSave3, AtCommand
<1>3. Goes(p, "m400", cmd[p])
  BY <1>1, GoesWithin DEF Inv, AtLine, AtCommand, PauseSave3
<1>4. z' \in Heights /\ saved' \in [1..3 -> Heights]
  BY HeightFacts DEF PauseSave3, Inv, DataTypes
<1>5. Quiet(p, "m400", cmd[p])
  BY <1>1, <1>3, <1>4 DEF PauseSave3, Quiet, Inv, Types, sdVars, pauseVars, histVars
<1> QED  BY <1>5, QuietStep

\* The client sends a command.
LEMMA SendKeeps ==
    ASSUME Inv, NEW c \in Commands, Send(c)
    PROVE  Inv'
<1>1. MayBe("client", "lock", c)
  BY PrintAssumption, ProcFacts DEF MayBe
<1>2. Moves("client", "lock", c) /\ Alone("client")
  BY <1>1, GotoMoves, ProcFacts DEF Inv, Send, GotoWith
<1>3. ~Inside("client") /\ pc["client"] # "lock" /\ pc["client"] # "cancel_macro"
  BY ProcFacts, PlaceFacts DEF Send, Inside, Under
<1>4. Goes("client", "lock", c)
  BY <1>1, <1>2, <1>3, ProcFacts DEF Goes, Passes, GoesOn, Send
<1>5. Quiet("client", "lock", c)
  BY <1>3, <1>4 DEF Send, Quiet, Inv, Types, DataTypes, sdVars, pauseVars, moveVars, histVars
<1> QED  BY <1>5, QuietStep, ProcFacts

-----------------------------------------------------------------------------
(* The pause                                                                *)

\* do_pause() tells the worker.
LEMMA DoPauseTells ==
    ASSUME Types, DoPause, work_timer' = work_timer
    PROVE  /\ must_pause_work' \in BOOLEAN /\ (must_pause_work => must_pause_work')
           /\ Told'
  BY DEF Types, DoPause, Told

\* send_pause_command() up to its wait, which is only for a worker that was told.
LEMMA SendPauseTells ==
    ASSUME Types, SendPause, work_timer' = work_timer
    PROVE  /\ must_pause_work' \in BOOLEAN /\ (must_pause_work => must_pause_work')
           /\ pause_command_sent' \in BOOLEAN /\ sd_paused' \in BOOLEAN
<1>1. CASE pause_command_sent
  BY <1>1 DEF SendPause, Types
<1>2. CASE ~pause_command_sent
  BY <1>2, DoPauseTells DEF SendPause, Types, Waits
<1> QED  BY <1>1, <1>2

\* PAUSE saves the first state.
LEMMA PauseSave1Goes ==
    ASSUME Inv, NEW p \in Procs, Runs(p), PauseSave1(p), UNCHANGED lockVars
    PROVE  /\ \E l \in {"macro1", "m400"} : Goes(p, l, cmd[p])
           /\ saved' \in [1..3 -> Heights]
<1>1. PICK l \in {"macro1", "m400"} : Goto(p, l)
  BY DEF PauseSave1
<1>2. Goes(p, l, cmd[p])
  BY <1>1, GoesWithin DEF Inv, AtLine, AtCommand
<1>3. saved' \in [1..3 -> Heights]
  BY DEF PauseSave1, Inv, DataTypes
<1> QED  BY <1>2, <1>3

\* The beginning of PAUSE.
LEMMA PauseBeginKeeps ==
    ASSUME Inv, NEW p \in Procs, PauseBegin(p)
    PROVE  Inv'
<1>1. Runs(p) /\ pc[p] # "cancel_macro" /\ cmd[p] = "PAUSE"
  BY BeginsRuns DEF PauseBegin
<1>2. UNCHANGED <<file, work_timer, cmd_from_sd, is_over_work, context, is_paused,
                  stats, z, is_shutdown, feed, record, histVars, bounds>>
  BY DEF PauseBegin
<1>3. CASE is_paused
  <2>1. PICK l \in {"ran", "idle"} : Goes(p, l, Kept(p, l))
    BY <1>1, <1>3, GoesReturn DEF Inv, PauseBegin
  <2>2. UNCHANGED <<must_pause_work, pause_command_sent, sd_paused, saved>>
    BY <1>3 DEF PauseBegin
  <2>3. Quiet(p, l, Kept(p, l))
    BY <1>1, <1>2, <2>1, <2>2 DEF Quiet, Inv, Types, DataTypes, histVars
  <2> QED  BY <2>3, QuietStep
<1>4. CASE ~is_paused
  <2>1. SendPause /\ UNCHANGED lockVars
    BY <1>4 DEF PauseBegin
  <2>2. /\ must_pause_work' \in BOOLEAN /\ (must_pause_work => must_pause_work')
        /\ pause_command_sent' \in BOOLEAN /\ sd_paused' \in BOOLEAN
    BY <1>2, <2>1, SendPauseTells DEF Inv
  <2>3. PICK l \in {"wait_sent", "macro1", "m400"} :
          Goes(p, l, cmd[p]) /\ saved' \in [1..3 -> Heights]
    <3>1. CASE SendWaits
      <4>1. Goto(p, "wait_sent") /\ UNCHANGED saved
        BY <1>4, <3>1 DEF PauseBegin
      <4>2. Goes(p, "wait_sent", cmd[p])
        BY <1>1, <2>1, <4>1, GoesWithin DEF Inv, AtLine, AtCommand
      <4> QED  BY <4>1, <4>2 DEF Inv, DataTypes
    <3>2. CASE ~SendWaits
      BY <1>1, <1>4, <2>1, <3>2, PauseSave1Goes DEF PauseBegin
    <3> QED  BY <3>1, <3>2
  <2>4. Quiet(p, l, cmd[p])
    BY <1>1, <1>2, <2>2, <2>3 DEF Quiet, Inv, Types, DataTypes, histVars
  <2> QED  BY <2>4, QuietStep
<1> QED  BY <1>3, <1>4

\* The rest of send_pause_command(), of a PAUSE or of a sensor's event.
LEMMA SendPauseEndKeeps ==
    ASSUME Inv, NEW p \in Procs, SendPauseEnd(p)
    PROVE  Inv'
<1>1. pc[p] = "wait_sent" /\ pc[p] # "cancel_macro"
  BY DEF SendPauseEnd
<1>2. CASE cmd[p] = "PAUSE"
  <2>1. Runs(p)
    BY <1>1, <1>2, ProcFacts, PlaceFacts DEF Inv, Places, MayBe, Runs, Inside, Under, AtLine
  <2>2. PICK l \in {"macro1", "m400"} : Goes(p, l, cmd[p]) /\ saved' \in [1..3 -> Heights]
    BY <1>2, <2>1, PauseSave1Goes DEF SendPauseEnd
  <2>3. Quiet(p, l, cmd[p])
    BY <1>1, <2>2 DEF SendPauseEnd, Quiet, Inv, Types, DataTypes, sdVars, histVars
  <2> QED  BY <2>3, QuietStep
<1>3. CASE cmd[p] # "PAUSE"
  <2>1. p = "sensor" /\ cmd[p] = "runout"
    BY <1>1, <1>3 DEF Inv, Places, MayBe
  <2>2. MayBe(p, "sent", cmd[p]) /\ p \in Others
    BY <2>1, ProcFacts DEF MayBe
  <2>3. Moves(p, "sent", cmd[p]) /\ Alone(p)
    BY <1>3, <2>2, GotoMoves DEF Inv, SendPauseEnd, Goto
  <2>4. ~Inside(p) /\ ~Under(p, "sent", cmd[p])
    BY <2>1, ProcFacts, PlaceFacts DEF Inside, Under
  <2>5. Goes(p, "sent", cmd[p])
    BY <1>1, <2>2, <2>3, <2>4, ProcFacts DEF Goes, Passes, GoesOn, SendPauseEnd
  <2>6. Quiet(p, "sent", cmd[p])
    BY <1>1, <1>3, <2>1, <2>5 DEF SendPauseEnd, Quiet, Inv, Types, DataTypes, sdVars, histVars
  <2> QED  BY <2>6, QuietStep
<1> QED  BY <1>2, <1>3

\* The end of M25 or PAUSE.
LEMMA M25DoneGoes ==
    ASSUME Inv, NEW p \in Procs, Runs(p), M25Done(p)
    PROVE  /\ \E l \in {"ran", "idle"} : Goes(p, l, Kept(p, l))
           /\ is_paused' \in BOOLEAN /\ paused' \in BOOLEAN
<1>1. \E l \in {"ran", "idle"} : Goes(p, l, Kept(p, l))
  BY GoesReturn DEF Inv, M25Done
<1>2. is_paused' \in BOOLEAN /\ paused' \in BOOLEAN
  BY DEF Inv, Types, M25Done
<1> QED  BY <1>1, <1>2

\* M25 up to its wait.
LEMMA M25Keeps ==
    ASSUME Inv, NEW p \in Procs, M25(p)
    PROVE  Inv'
<1>1. Runs(p) /\ pc[p] # "cancel_macro"
  <2>1. CASE Begins(p, "M25")
    BY <2>1, BeginsRuns
  <2>2. CASE pc[p] = "m400"
    BY <2>2, HandlerRuns DEF Inv, AtCommand
  <2> QED  BY <2>1, <2>2 DEF M25
<1>2. UNCHANGED <<file, work_timer, cmd_from_sd, is_over_work, context,
                  pause_command_sent, sd_paused, stats, moveVars, is_shutdown, feed,
                  record, job, jobs, homed, done, cancelled, bounds>>
  BY DEF M25
<1>3. /\ must_pause_work' \in BOOLEAN /\ (must_pause_work => must_pause_work')
      /\ Told'
  BY <1>2, DoPauseTells DEF Inv, M25
<1>4. PICK l \in {"wait_m25", "ran", "idle"} :
        Goes(p, l, Kept(p, l)) /\ is_paused' \in BOOLEAN /\ paused' \in BOOLEAN
  <2>1. CASE Waits
    <3>1. Goto(p, "wait_m25") /\ UNCHANGED <<is_paused, paused, lockVars>>
      BY <2>1 DEF M25
    <3>2. Goes(p, "wait_m25", cmd[p])
      BY <1>1, <3>1, GoesWithin DEF Inv, AtLine, AtCommand
    <3> QED  BY <3>1, <3>2 DEF Kept, Inv, Types
  <2>2. CASE ~Waits
    BY <2>2, <1>1, M25DoneGoes DEF M25
  <2> QED  BY <2>1, <2>2
<1>5. Quiet(p, l, Kept(p, l))
  BY <1>1, <1>2, <1>3, <1>4 DEF Quiet, Inv, Types, DataTypes, moveVars
<1> QED  BY <1>5, QuietStep

\* M25 after its wait.
LEMMA M25EndKeeps ==
    ASSUME Inv, NEW p \in Procs, M25End(p)
    PROVE  Inv'
<1>1. Runs(p) /\ pc[p] # "cancel_macro"
  BY HandlerRuns DEF Inv, AtCommand, M25End
<1>2. Told /\ Told'
  BY DEF Inv, PauseInv, M25End, Told, sdVars
<1>4. PICK l \in {"ran", "idle"} :
        Goes(p, l, Kept(p, l)) /\ is_paused' \in BOOLEAN /\ paused' \in BOOLEAN
  BY <1>1, M25DoneGoes DEF M25End
<1>5. Quiet(p, l, Kept(p, l))
  BY <1>1, <1>2, <1>4 DEF M25End, Quiet, Inv, Types, DataTypes, moveVars, sdVars
<1> QED  BY <1>5, QuietStep

\* A sensor's event ...
LEMMA RunoutEventKeeps ==
    ASSUME Inv, RunoutEvent
    PROVE  Inv'
<1>1. PICK l \in {"wait_sent", "sent"} : GotoWith("sensor", l, "runout")
  BY DEF RunoutEvent
<1>2. MayBe("sensor", l, "runout")
  BY DEF MayBe
<1>3. Moves("sensor", l, "runout") /\ Alone("sensor")
  BY <1>1, <1>2, GotoMoves, ProcFacts DEF Inv, GotoWith
<1>4. /\ ~Inside("sensor") /\ ~Under("sensor", l, "runout") /\ pc["sensor"] # "lock"
      /\ pc["sensor"] # "cancel_macro"
  BY ProcFacts, PlaceFacts DEF Inside, Under, RunoutEvent
<1>5. Goes("sensor", l, "runout")
  BY <1>2, <1>3, <1>4, ProcFacts DEF Goes, Passes, GoesOn, RunoutEvent
<1>6. /\ must_pause_work' \in BOOLEAN /\ (must_pause_work => must_pause_work')
      /\ pause_command_sent' \in BOOLEAN /\ sd_paused' \in BOOLEAN
  BY SendPauseTells DEF Inv, RunoutEvent
<1>7. Quiet("sensor", l, "runout")
  BY <1>4, <1>5, <1>6 DEF RunoutEvent, Quiet, Inv, Types, DataTypes, moveVars, histVars
<1> QED  BY <1>7, QuietStep, ProcFacts

\* ... and its PAUSE.
LEMMA RunoutPauseKeeps ==
    ASSUME Inv, RunoutPause
    PROVE  Inv'
<1>1. MayBe("sensor", "lock", "PAUSE")
  BY DEF MayBe
<1>2. Moves("sensor", "lock", "PAUSE") /\ Alone("sensor")
  BY <1>1, GotoMoves, ProcFacts DEF Inv, RunoutPause, GotoWith
<1>3. ~Inside("sensor") /\ pc["sensor"] # "lock" /\ pc["sensor"] # "cancel_macro"
  BY ProcFacts, PlaceFacts DEF RunoutPause, Inside, Under
<1>4. Goes("sensor", "lock", "PAUSE")
  BY <1>1, <1>2, <1>3, ProcFacts DEF Goes, Passes, GoesOn, RunoutPause
<1>5. Quiet("sensor", "lock", "PAUSE")
  BY <1>3, <1>4 DEF RunoutPause, Quiet, Inv, Types, DataTypes, sdVars, pauseVars, moveVars,
                    histVars
<1> QED  BY <1>5, QuietStep, ProcFacts

-----------------------------------------------------------------------------
(* Parts of the invariant that most steps leave alone                       *)

\* The counters.
LEMMA CountKept ==
    ASSUME CountTypes, NEW p \in Procs, NEW l, NEW c, Moves(p, l, c),
           p = "client" => l # "lock",
           done' \in 0..Lines, job' \in 0..MaxJobs, jobs' = jobs
    PROVE  CountTypes'
<1>1. pc'["client"] = "lock" => pc["client"] = "lock" /\ cmd'["client"] = cmd["client"]
  BY ProcFacts DEF Moves
<1> QED  BY <1>1 DEF CountTypes

\* Who waits in do_cancel() has set is_over_work.
LEMMA CancelKept ==
    ASSUME CancelInv, NEW p \in Procs, NEW l, NEW c, Moves(p, l, c),
           is_over_work => is_over_work', l = "wait_cancel" => is_over_work'
    PROVE  CancelInv'
  BY DEF CancelInv, Moves

\* The position of the file.
LEMMA InPlaceKept ==
    ASSUME InPlace, NEW p \in Procs, NEW l, NEW c, Moves(p, l, c),
           pc[p] = "cancel_macro" => is_shutdown,
           job' = job, cancelled \subseteq cancelled', done' = done, file'.pos = file.pos,
           is_over_work => is_over_work', is_shutdown => is_shutdown',
           ~file.open \/ file.fail => ~file'.open \/ file'.fail
    PROVE  InPlace'
<1>1. ASSUME NEW r \in Procs, pc[r] = "cancel_macro" PROVE is_shutdown' \/ pc'[r] = "cancel_macro"
  BY <1>1 DEF Moves
<1> QED  BY <1>1 DEF InPlace

\* A worker that was told to stop still is.
LEMMA PauseKept ==
    ASSUME PauseInv, NEW p \in Procs, NEW l, NEW c, Moves(p, l, c),
           Told => Told', paused' => paused \/ Told', is_shutdown' => is_shutdown \/ Told',
           l = "wait_m25" => Told'
    PROVE  PauseInv'
<1>1. ASSUME NEW r \in Procs, pc'[r] = "wait_m25" PROVE Told' \/ pc[r] = "wait_m25"
  BY <1>1 DEF Moves
<1> QED  BY <1>1 DEF PauseInv

\* Nobody is told anything without a worker.
LEMMA PauseIdle ==
    ASSUME work_timer' = FALSE
    PROVE  PauseInv'
  BY DEF PauseInv, Told

\* Without a worker no line is in hand.
LEMMA FeedIdle ==
    ASSUME \A w \in Workers : pc'[w] = "idle" \/ pc'[w] = "handler",
           feed' \in [Workers -> Feeds], \A w \in Workers : feed'[w].cur <= feed'[w].read + 1
    PROVE  FeedInv'
  BY PlaceFacts DEF FeedInv

\* The worker ends.
LEMMA WorkerGone ==
    ASSUME Places, WorkerInv, NEW p \in Workers, pc[p] # "idle", NEW c, Moves(p, "idle", c),
           Alone(p), work_timer' = FALSE
    PROVE  WorkerInv' /\ \A w \in Workers : pc'[w] = "idle"
<1>1. ASSUME NEW w \in Workers PROVE pc'[w] = "idle"
  <2>1. CASE w = p
    BY <2>1 DEF Moves
  <2>2. CASE w # p
    BY <2>2, ProcFacts DEF Alone, WorkerInv
  <2> QED  BY <2>1, <2>2
<1> QED  BY <1>1 DEF WorkerInv

\* The records are kept with the prints that were cancelled.
LEMMA RecordsKept ==
    ASSUME Records, UNCHANGED <<record, context>>, cancelled \subseteq cancelled'
    PROVE  Records'
  BY DEF Records, RecordOK

-----------------------------------------------------------------------------
(* The worker                                                               *)

\* A worker that is outside a line leaves its loop.
LEMMA GoesIdle ==
    ASSUME Inv, NEW p \in Workers, pc[p] \notin AtLine, Goto(p, "idle"), UNCHANGED lockVars
    PROVE  Moves(p, "idle", "none") /\ Alone(p) /\ Places' /\ MutexInv'
<1>1. MayBe(p, "idle", "none")
  BY DEF MayBe
<1>2. Moves(p, "idle", "none") /\ Alone(p)
  BY <1>1, GotoMoves, ProcFacts DEF Inv, Goto
<1>3. pc[p] # "lock"
  BY ProcFacts, PlaceFacts DEF Inv, Places, MayBe
<1>4. Passes(p, "idle", "none")
  BY <1>3, ProcFacts, PlaceFacts DEF Passes, Inside, Under
<1> QED  BY <1>1, <1>2, <1>4, ControlKept, ProcFacts DEF Inv

\* What a worker that ends leaves.
LEMMA NoFeedFacts ==
    ASSUME FeedInv, NEW p \in Workers, feed' = [feed EXCEPT ![p] = NoFeed]
    PROVE  feed' \in [Workers -> Feeds] /\ \A w \in Workers : feed'[w].cur <= feed'[w].read + 1
<1>1. NoFeed \in Feeds /\ NoFeed.cur <= NoFeed.read + 1
  BY PrintAssumption DEF NoFeed, Feeds
<1> QED  BY <1>1 DEF FeedInv

\* The end of work_handler().
LEMMA ExitKeeps ==
    ASSUME Inv, NEW p \in Workers, pc[p] \in {"loop", "on_error", "broken"},
           NEW f \in {file, Closed}, NEW e \in BOOLEAN, Exit(p, f, e), UNCHANGED lockVars
    PROVE  Inv'
<1>0. pc[p] \notin AtLine /\ pc[p] # "idle" /\ pc[p] # "cancel_macro" /\ p \in Procs /\ p # "client"
  BY PlaceFacts, ProcFacts
<1>1. Moves(p, "idle", "none") /\ Alone(p) /\ Places' /\ MutexInv'
  BY <1>0, GoesIdle DEF Exit
<1>2. WorkerInv' /\ \A w \in Workers : pc'[w] = "idle"
  BY <1>0, <1>1, WorkerGone DEF Inv, Exit
<1>3. FeedInv'
  BY <1>2, NoFeedFacts, FeedIdle DEF Inv, Exit
<1>4. /\ f \in [open : BOOLEAN, fail : BOOLEAN, pos : 0..Lines] /\ f.pos = file.pos
      /\ ~file.open \/ file.fail => ~f.open \/ f.fail
  BY DEF Inv, FileType, Closed
<1>5. FileType'
  BY <1>4 DEF FileType, Exit
<1>6. is_over_work' \in BOOLEAN /\ (is_over_work => is_over_work')
  BY <1>4 DEF Exit, Inv, Types
<1>7. Types'
  BY <1>6 DEF Exit, Inv, Types, pauseVars, histVars
<1>8. DataTypes'
  <2>1. stats' \in [state : States, started : BOOLEAN]
    BY <1>4 DEF Exit, Inv, DataTypes, Finished, Paused, States
  <2> QED  BY <2>1 DEF Exit, Inv, DataTypes, moveVars
<1>9. CountTypes'
  BY <1>0, <1>1, CountKept DEF Inv, Exit, histVars, CountTypes
<1>10. InPlace'
  BY <1>0, <1>1, <1>4, <1>6, InPlaceKept DEF Inv, Exit, histVars
<1>11. Records'
  BY RecordsKept DEF Inv, Exit, histVars
<1>12. CancelInv'
  BY <1>0, <1>1, <1>6, CancelKept DEF Inv
<1>13. PauseInv'
  BY PauseIdle DEF Exit
<1> QED  BY <1>1, <1>2, <1>3, <1>5, <1>7, <1>8, <1>9, <1>10, <1>11, <1>12, <1>13 DEF Inv

\* The ways to it.
LEMMA StopKeeps ==
    ASSUME Inv, NEW p \in Workers, Stop(p) \/ OnErrorDone(p) \/ Broken(p)
    PROVE  Inv'
  BY ExitKeeps DEF Stop, OnErrorDone, Broken

\* The end of the file, or a bad read.
LEMMA ReadEndKeeps ==
    ASSUME Inv, NEW p \in Workers, ReadEnd(p)
    PROVE  Inv'
  BY ExitKeeps DEF ReadEnd

\* work_handler() up to its loop.
LEMMA WorkHandlerKeeps ==
    ASSUME Inv, NEW p \in Workers, WorkHandler(p)
    PROVE  Inv'
<1>0. /\ pc[p] = "handler" /\ pc[p] \notin AtLine /\ p \in Procs /\ p # "client"
      /\ UNCHANGED <<must_pause_work, cmd_from_sd, is_over_work, context, pauseVars,
                     moveVars, lockVars, is_shutdown, record, histVars, bounds>>
  BY PlaceFacts, ProcFacts DEF WorkHandler
<1>1. CASE file.open /\ ~file.fail
  <2>1. /\ feed' = [feed EXCEPT ![p] = [cur |-> file.pos + 1, read |-> file.pos,
                                        next |-> file.pos]]
        /\ stats' = [state |-> "printing", started |-> TRUE]
        /\ Goto(p, "loop")
        /\ UNCHANGED <<file, work_timer>>
    BY <1>1 DEF WorkHandler
  <2>2. MayBe(p, "loop", cmd[p])
    BY <1>0, PlaceFacts, ProcFacts DEF Inv, Places, MayBe
  <2>3. Moves(p, "loop", cmd[p]) /\ Alone(p)
    BY <1>0, <2>1, <2>2, GotoMoves DEF Inv, Goto
  <2>4. Passes(p, "loop", cmd[p])
    BY <1>0, ProcFacts, PlaceFacts DEF Passes, Inside, Under
  <2>5. Places' /\ MutexInv'
    BY <1>0, <2>2, <2>3, <2>4, ControlKept DEF Inv
  <2>6. WorkerInv'
    <3>1. \A w \in Workers : pc'[w] # "idle" <=> pc[w] # "idle"
      BY <1>0, <2>3, ProcFacts DEF Moves, Alone
    <3>2. pc'["client"] = pc["client"]
      BY <1>0, <2>3, ProcFacts DEF Alone
    <3> QED  BY <2>1, <3>1, <3>2 DEF Inv, WorkerInv
  <2>7. FeedInv'
    <3>1. /\ file.pos \in 0..Lines
          /\ job \in cancelled \/ file.pos = done
      BY <1>1 DEF Inv, FileType, InPlace
    <3>2. [cur |-> file.pos + 1, read |-> file.pos, next |-> file.pos] \in Feeds
      BY <3>1, PrintAssumption DEF Feeds
    <3>3. feed' \in [Workers -> Feeds]
      BY <2>1, <3>2 DEF Inv, FeedInv
    <3>4. ASSUME NEW w \in Workers
          PROVE  /\ feed'[w].cur <= feed'[w].read + 1
                 /\ pc'[w] \in Feeding => /\ file'.pos < feed'[w].cur
                                          /\ job' \in cancelled' \/ feed'[w].cur = done' + 1
                 /\ pc'[w] \notin AtLine
      <4>1. CASE w = p
        <5>1. feed'[w].cur = file.pos + 1 /\ feed'[w].read = file.pos
          BY <2>1, <4>1 DEF Inv, FeedInv
        <5>2. pc'[w] = "loop"
          BY <2>3, <4>1 DEF Moves
        <5> QED  BY <1>0, <2>1, <3>1, <5>1, <5>2, PlaceFacts DEF histVars
      <4>2. CASE w # p
        <5>1. feed'[w] = feed[w]
          BY <2>1, <4>2 DEF Inv, FeedInv
        <5>2. pc'[w] = "idle"
          BY <1>0, <2>3, <4>2, ProcFacts DEF Inv, WorkerInv, Alone
        <5> QED  BY <5>1, <5>2, PlaceFacts DEF Inv, FeedInv
      <4> QED  BY <4>1, <4>2
    <3> QED  BY <3>3, <3>4 DEF FeedInv
  <2>8. Types' /\ FileType'
    BY <1>0, <2>1 DEF Inv, Types, FileType, pauseVars, histVars
  <2>9. DataTypes'
    BY <1>0, <2>1 DEF Inv, DataTypes, States, moveVars
  <2>10. CountTypes'
    BY <1>0, <2>3, CountKept DEF Inv, histVars, CountTypes
  <2>11. InPlace'
    BY <1>0, <2>1, <2>3, InPlaceKept DEF Inv, histVars
  <2>12. Records' /\ CancelInv'
    BY <1>0, <2>3, RecordsKept, CancelKept DEF Inv, histVars
  <2>13. PauseInv'
    BY <1>0, <2>1, <2>3, PauseKept DEF Inv, histVars, Told
  <2> QED  BY <2>5, <2>6, <2>7, <2>8, <2>9, <2>10, <2>11, <2>12, <2>13 DEF Inv
<1>2. CASE ~(file.open /\ ~file.fail)
  <2>1. /\ file' = [file EXCEPT !.fail = TRUE]
        /\ work_timer' = FALSE
        /\ Goto(p, "idle")
        /\ UNCHANGED <<feed, stats>>
    BY <1>2 DEF WorkHandler
  <2>2. Moves(p, "idle", "none") /\ Alone(p) /\ Places' /\ MutexInv'
    BY <1>0, <2>1, GoesIdle
  <2>3. WorkerInv' /\ \A w \in Workers : pc'[w] = "idle"
    BY <1>0, <2>1, <2>2, WorkerGone DEF Inv
  <2>4. FeedInv'
    BY <2>1, <2>3, FeedIdle DEF Inv, FeedInv
  <2>5. FileType' /\ file'.pos = file.pos /\ file'.fail
    BY <2>1 DEF Inv, FileType
  <2>6. Types' /\ DataTypes'
    BY <1>0, <2>1 DEF Inv, Types, DataTypes, pauseVars, moveVars, histVars
  <2>7. CountTypes'
    BY <1>0, <2>2, CountKept DEF Inv, histVars, CountTypes
  <2>8. InPlace'
    BY <1>0, <2>2, <2>5, InPlaceKept DEF Inv, histVars
  <2>9. Records' /\ CancelInv'
    BY <1>0, <2>2, RecordsKept, CancelKept DEF Inv, histVars
  <2>10. PauseInv'
    BY <2>1, PauseIdle
  <2> QED  BY <2>2, <2>3, <2>4, <2>5, <2>6, <2>7, <2>8, <2>9, <2>10 DEF Inv
<1> QED  BY <1>1, <1>2

\* Nobody moves.
LEMMA StaysMoves ==
    ASSUME Inv, NEW p \in Procs, UNCHANGED <<pc, cmd, lockVars>>
    PROVE  Moves(p, pc[p], cmd[p]) /\ Places' /\ MutexInv'
<1>1. Moves(p, pc[p], cmd[p])
  BY DEF Inv, Places, Moves
<1>2. Places'
  BY DEF Inv, Places, MayBe
<1>3. MutexInv'
  <2>1. \A r \in Procs \cup {owner} : Inside(r)' <=> Inside(r)
    BY DEF Inside, Under
  <2> QED  BY <2>1 DEF Inv, MutexInv, lockVars, Inside, Under
<1> QED  BY <1>1, <1>2, <1>3

\* A chunk is read.
LEMMA ReadKeeps ==
    ASSUME Inv, NEW p \in Workers, Read(p)
    PROVE  Inv'
<1>0. /\ pc[p] = "loop" /\ ~file.fail /\ p \in Procs /\ p # "client"
      /\ UNCHANGED <<work_timer, must_pause_work, cmd_from_sd, is_over_work, context,
                     pauseVars, stats, moveVars, lockVars, is_shutdown, pc, cmd, record,
                     histVars, bounds>>
  BY ProcFacts DEF Read
<1>1. Moves(p, pc[p], cmd[p]) /\ Places' /\ MutexInv'
  BY <1>0, StaysMoves
<1>2. FileType' /\ file'.pos = file.pos /\ file'.open = file.open
  <2> DEFINE b == feed[p].read + ReadLines > Lines
  <2>1. b \in BOOLEAN
    OBVIOUS
  <2>2. file' = [file EXCEPT !.fail = b]
    BY DEF Read
  <2> HIDE DEF b
  <2> QED  BY <2>1, <2>2 DEF Inv, FileType
<1>3. Types' /\ DataTypes' /\ WorkerInv' /\ CountTypes'
  BY <1>0 DEF Inv, Types, DataTypes, WorkerInv, CountTypes, pauseVars, moveVars, histVars
<1>4. FeedInv'
  <2>1. /\ feed[p] \in Feeds /\ ReadTo(p) \in 0..Lines /\ feed[p].read <= ReadTo(p)
        /\ feed' = [feed EXCEPT ![p].read = ReadTo(p)]
    BY PrintAssumption DEF Inv, FeedInv, Feeds, ReadTo, Read
  <2>2. feed' \in [Workers -> Feeds]
    BY <2>1 DEF Inv, FeedInv, Feeds
  <2>3. ASSUME NEW w \in Workers
        PROVE  /\ feed'[w].cur = feed[w].cur /\ feed'[w].next = feed[w].next
               /\ feed[w].read <= feed'[w].read
               /\ feed[w].cur \in Nat /\ feed[w].read \in Nat /\ feed'[w].read \in Nat
    BY <2>1, PrintAssumption DEF Inv, FeedInv, Feeds
  <2> QED  BY <1>0, <1>2, <2>2, <2>3 DEF Inv, FeedInv, histVars
<1>5. InPlace'
  BY <1>0, <1>1, <1>2, InPlaceKept DEF Inv, histVars
<1>6. Records' /\ CancelInv'
  BY <1>0, <1>1, RecordsKept, CancelKept DEF Inv, histVars
<1>7. PauseInv'
  BY <1>0 DEF Inv, PauseInv, Told, histVars
<1> QED  BY <1>1, <1>2, <1>3, <1>4, <1>5, <1>6, <1>7 DEF Inv

\* Nobody is in a handler while the mutex is free, and none but its owner else.
LEMMA OnlyOwnerRuns ==
    ASSUME Inv, NEW r \in Procs, pc[r] \in {"cancel_macro", "wait_cancel", "wait_m25"}
    PROVE  owner = r
  BY HandlerRuns, RunsHolds DEF Inv, AtLine

\* A line is handed to the dispatch.
LEMMA RunLineKeeps ==
    ASSUME Inv, NEW p \in Workers, NEW k \in Kinds, RunLine(p, k)
    PROVE  Inv' /\ ~paused
<1>0. /\ pc[p] = "loop" /\ ~must_pause_work /\ feed[p].cur <= feed[p].read
      /\ owner = "none" /\ owner' = p /\ cmd_from_sd' = TRUE
      /\ feed' = [feed EXCEPT ![p].next = NextPosition]
      /\ UNCHANGED <<file, work_timer, must_pause_work, is_over_work, context, pauseVars,
                     stats, moveVars, queue, is_shutdown, record, histVars, bounds>>
      /\ p \in Procs /\ p # "client"
  BY ProcFacts, PrintAssumption DEF RunLine, Empty, Inv, FeedInv, Feeds
<1>1. PICK l \in {"ran", "error", "internal", "begin"} : GotoWith(p, l, k)
  BY DEF RunLine
<1>2. MayBe(p, l, k) /\ Under(p, l, k)
  BY PlaceFacts, ProcFacts, PrintAssumption DEF MayBe, Under, AtLine
<1>3. Moves(p, l, k) /\ Alone(p)
  BY <1>0, <1>1, <1>2, GotoMoves DEF Inv, GotoWith
<1>4. Places' /\ MutexInv'
  BY <1>0, <1>2, <1>3, ControlKept DEF Inv, Passes
<1>5. work_timer /\ ~Told /\ ~paused /\ ~is_shutdown
  BY <1>0 DEF Inv, WorkerInv, Told, PauseInv
<1>6. \A r \in Procs : pc[r] # "cancel_macro"
  BY <1>0, OnlyOwnerRuns, ProcFacts
<1>7. job \in cancelled \/ file.pos = done
  BY <1>5, <1>6 DEF Inv, InPlace
<1>8. FeedInv'
  <2>1. /\ file.pos \in 0..Lines /\ file.pos < feed[p].cur /\ feed[p] \in Feeds
        /\ job \in cancelled \/ feed[p].cur = done + 1
    BY <1>0, PlaceFacts DEF Inv, FeedInv, FileType
  <2>2. NextPosition \in 0..Lines /\ NextPosition <= feed[p].cur
    BY <1>0, <2>1, PrintAssumption DEF NextPosition, Feeds
  <2>3. job \in cancelled \/ NextPosition = feed[p].cur
    BY <1>7, <2>1 DEF NextPosition
  <2>4. feed' \in [Workers -> Feeds]
    BY <1>0, <2>2 DEF Inv, FeedInv, Feeds
  <2>5. ASSUME NEW w \in Workers
        PROVE  /\ feed'[w].cur = feed[w].cur /\ feed'[w].read = feed[w].read
               /\ w # p => feed'[w] = feed[w] /\ pc'[w] = "idle"
               /\ w = p => feed'[w].next = NextPosition
    <3>1. w # p => pc'[w] = "idle"
      BY <1>0, <1>3, ProcFacts DEF Inv, WorkerInv, Alone
    <3> QED  BY <1>0, <3>1 DEF Inv, FeedInv, Feeds
  <2>6. feed[p].cur <= feed[p].read + 1
    BY DEF Inv, FeedInv
  <2> QED  BY <1>0, <2>1, <2>2, <2>3, <2>4, <2>5, PlaceFacts DEF Inv, FeedInv, histVars
<1>9. WorkerInv'
  <2>1. \A w \in Workers : pc'[w] # "idle" <=> pc[w] # "idle"
    BY <1>0, <1>3, ProcFacts DEF Moves, Alone
  <2>2. pc'["client"] = pc["client"]
    BY <1>0, <1>3, ProcFacts DEF Alone
  <2> QED  BY <1>0, <2>1, <2>2 DEF Inv, WorkerInv
<1>10. Types' /\ FileType' /\ DataTypes'
  BY <1>0 DEF Inv, Types, FileType, DataTypes, pauseVars, moveVars, histVars
<1>11. CountTypes'
  BY <1>0, <1>3, CountKept DEF Inv, histVars, CountTypes
<1>12. InPlace'
  BY <1>0, <1>3, InPlaceKept DEF Inv, histVars
<1>13. Records' /\ CancelInv'
  BY <1>0, <1>3, RecordsKept, CancelKept DEF Inv, histVars
<1>14. PauseInv'
  BY <1>0, <1>3, PauseKept DEF Inv, histVars, Told
<1> QED  BY <1>4, <1>5, <1>8, <1>9, <1>10, <1>11, <1>12, <1>13, <1>14 DEF Inv

\* run_script() has returned.
LEMMA LineDoneKeeps ==
    ASSUME Inv, NEW p \in Workers, LineDone(p)
    PROVE  Inv'
<1>0. /\ pc[p] = "ran" /\ pc[p] \in AtLine /\ pc[p] \in Feeding
      /\ Unlock /\ cmd_from_sd' = FALSE /\ done' = feed[p].cur
      /\ file' = [file EXCEPT !.pos = feed[p].next]
      /\ UNCHANGED <<must_pause_work, is_over_work, context, pauseVars, stats, saved,
                     is_shutdown, record, job, jobs, homed, paused, cancelled, bounds>>
      /\ p \in Procs /\ p # "client"
  BY ProcFacts, PlaceFacts DEF LineDone, AtLine
<1>1. Runs(p) /\ owner = p
  BY <1>0, HandlerRuns, RunsHolds DEF Inv
<1>2. /\ feed[p] \in Feeds /\ feed[p].cur <= feed[p].read /\ feed[p].next <= feed[p].cur
      /\ job \in cancelled \/ feed[p].next = feed[p].cur
      /\ feed[p].cur \in 1..Lines /\ feed[p].next \in 0..Lines
  BY <1>0, PrintAssumption DEF Inv, FeedInv, Feeds
<1>3. FileType' /\ file'.pos = feed[p].next
  BY <1>0, <1>2 DEF Inv, FileType
<1>4. z' \in Heights
  BY HeightFacts DEF LineDone, Inv, DataTypes
<1>5. DataTypes'
  BY <1>0, <1>4 DEF Inv, DataTypes
<1>6. InPlace'
  BY <1>0, <1>2, <1>3 DEF InPlace
<1>7. Records'
  BY <1>0, RecordsKept DEF Inv
<1>8. CASE cmd[p] = "loop" /\ file.fail
  <2>1. work_timer' = FALSE /\ Goto(p, "idle") /\ feed' = [feed EXCEPT ![p] = NoFeed]
    BY <1>8 DEF LineDone
  <2>2. MayBe(p, "idle", "none")
    BY DEF MayBe
  <2>3. Moves(p, "idle", "none") /\ Alone(p)
    BY <1>0, <2>1, <2>2, GotoMoves DEF Inv, Goto
  <2>4. Passes(p, "idle", "none")
    BY <1>0, <1>1, ProcFacts, PlaceFacts DEF Passes, Under
  <2>5. Places' /\ MutexInv'
    BY <1>0, <2>2, <2>3, <2>4, ControlKept DEF Inv
  <2>6. WorkerInv' /\ \A w \in Workers : pc'[w] = "idle"
    BY <1>0, <2>1, <2>3, WorkerGone DEF Inv
  <2>7. FeedInv'
    BY <2>1, <2>6, NoFeedFacts, FeedIdle DEF Inv
  <2>8. Types'
    BY <1>0, <2>1 DEF Inv, Types, pauseVars
  <2>9. CountTypes' /\ CancelInv'
    BY <1>0, <1>2, <2>3, CountKept, CancelKept, PrintAssumption DEF Inv, CountTypes
  <2>10. PauseInv'
    BY <2>1, PauseIdle
  <2> QED  BY <1>3, <1>5, <1>6, <1>7, <2>5, <2>6, <2>7, <2>8, <2>9, <2>10 DEF Inv
<1>9. CASE ~(cmd[p] = "loop" /\ file.fail)
  <2>1. work_timer' = work_timer /\ Goto(p, "loop") /\ feed' = [feed EXCEPT ![p] = NextLine(p)]
    BY <1>9 DEF LineDone
  <2>2. Goes(p, "loop", cmd[p])
    BY <1>0, <1>1, <2>1, GoesOut, ProcFacts DEF Inv, Kept
  <2>3. Places' /\ MutexInv' /\ Moves(p, "loop", cmd[p]) /\ Alone(p) /\ GoesOn(p, "loop")
    BY <1>0, <2>2, ControlKept DEF Inv, Goes
  <2>4. WorkerInv'
    BY <1>0, <2>1, <2>3, WorkersKept DEF Inv
  <2>5. FeedInv'
    <3>1. /\ NextLine(p) \in Feeds /\ NextLine(p).cur = feed[p].cur + 1
          /\ NextLine(p).cur <= NextLine(p).read + 1
      <4> DEFINE r == IF cmd[p] = "loop" THEN feed[p].cur ELSE feed[p].read
      <4>1. NextLine(p) = [feed[p] EXCEPT !.cur = @ + 1, !.read = r]
        BY DEF NextLine
      <4>2. r \in 0..Lines /\ feed[p].cur <= r
        BY <1>2, PrintAssumption DEF Feeds
      <4> HIDE DEF r
      <4>3. NextLine(p).cur = feed[p].cur + 1 /\ NextLine(p).read = r
        BY <1>2, <4>1 DEF Feeds
      <4>4. feed[p].cur + 1 \in 1..(Lines + 1)
        BY <1>2, PrintAssumption
      <4>5. NextLine(p) \in Feeds
        BY <1>2, <4>1, <4>2, <4>4 DEF Feeds
      <4> QED  BY <1>2, <4>2, <4>3, <4>5, PrintAssumption
    <3>2. feed' \in [Workers -> Feeds]
      BY <2>1, <3>1 DEF Inv, FeedInv
    <3>3. feed'[p] = NextLine(p) /\ pc'[p] = "loop"
      BY <2>1, <2>3 DEF Inv, FeedInv, Moves
    <3>4. ASSUME NEW w \in Workers, w # p PROVE feed'[w] = feed[w] /\ pc'[w] = "idle"
      <4>1. pc'[w] = "idle"
        BY <1>0, <2>3, <3>4, ProcFacts, PlaceFacts DEF Inv, WorkerInv, Alone
      <4> QED  BY <2>1, <3>4, <4>1 DEF Inv, FeedInv
    <3>5. file'.pos < feed[p].cur + 1
      BY <1>2, <1>3
    <3> QED  BY <1>0, <3>1, <3>2, <3>3, <3>4, <3>5, PlaceFacts DEF Inv, FeedInv
  <2>8. Types'
    BY <1>0, <2>1 DEF Inv, Types, pauseVars
  <2>9. CountTypes' /\ CancelInv'
    BY <1>0, <1>2, <2>3, CountKept, CancelKept, PrintAssumption DEF Inv, CountTypes
  <2>10. PauseInv'
    BY <1>0, <2>1, <2>3, PauseKept DEF Inv, Told
  <2> QED  BY <1>3, <1>5, <1>6, <1>7, <2>3, <2>4, <2>5, <2>8, <2>9, <2>10 DEF Inv
<1> QED  BY <1>8, <1>9

-----------------------------------------------------------------------------
(* Shutdown, power outage and restart                                       *)

\* What handle_power_outage() records.
LEMMA RecordedOK ==
    ASSUME Inv
    PROVE  RecordOK(Recorded)
<1>1. CASE is_over_work
  BY <1>1 DEF Inv, Records, Recorded
<1>2. CASE ~is_over_work
  <2> DEFINE g == IF InPause THEN saved[1] ELSE z
             y == IF InPause THEN saved[LastSaved] ELSE z
             no == FALSE
  <2>1. g \in Heights
    BY DEF Inv, DataTypes
  <2>2. file.pos \in 0..Lines /\ done \in 0..Lines /\ job \in 0..MaxJobs
    BY DEF Inv, FileType, CountTypes
  <2>3. job \in cancelled \/ file.pos = done
    BY <1>2 DEF Inv, InPlace
  <2>4. Recorded = [none |-> no, pos |-> file.pos, kinematic_z |-> y, gcode_z |-> g,
                    actual_z |-> z, job |-> job, done |-> done]
    BY <1>2 DEF Recorded
  <2> HIDE DEF g, y
  <2> QED  BY <2>1, <2>2, <2>3, <2>4 DEF RecordOK
<1> QED  BY <1>1, <1>2

\* A line ends in an internal error.
LEMMA InternalErrorKeeps ==
    ASSUME Inv, NEW p \in Workers, InternalError(p)
    PROVE  Inv'
<1>0. /\ pc[p] = "internal" /\ is_shutdown' = TRUE /\ must_pause_work' = TRUE
      /\ UNCHANGED <<file, work_timer, cmd_from_sd, is_over_work, context, pauseVars,
                     stats, moveVars, feed, histVars, bounds>>
      /\ p \in Procs /\ p # "client"
  BY ProcFacts DEF InternalError
<1>1. Runs(p)
  BY <1>0, HandlerRuns DEF Inv, AtLine
<1>2. Goes(p, "broken", cmd[p])
  BY <1>1, GoesOut, ProcFacts DEF Inv, InternalError, Kept
<1>3. Places' /\ MutexInv' /\ Moves(p, "broken", cmd[p]) /\ Alone(p) /\ GoesOn(p, "broken")
  BY <1>0, <1>2, ControlKept DEF Inv, Goes
<1>4. WorkerInv'
  BY <1>0, <1>3, WorkersKept DEF Inv
<1>5. FeedInv'
  <2>1. file.pos \in Nat
    BY PrintAssumption DEF Inv, FileType
  <2> QED  BY <1>0, <1>3, <2>1, FeedKept DEF Inv, histVars
<1>6. Types' /\ FileType' /\ DataTypes'
  BY <1>0 DEF Inv, Types, FileType, DataTypes, pauseVars, moveVars, histVars
<1>7. CountTypes' /\ CancelInv'
  BY <1>0, <1>3, CountKept, CancelKept DEF Inv, CountTypes, histVars
<1>8. InPlace'
  BY <1>0, <1>3, InPlaceKept DEF Inv, histVars
<1>9. Records'
  <2>1. RecordOK(record)'
    BY <1>0, RecordedOK DEF InternalError, RecordOK, histVars
  <2> QED  BY <1>0, <2>1 DEF Inv, Records, RecordOK, histVars
<1>10. PauseInv'
  BY <1>0 DEF PauseInv, Told
<1> QED  BY <1>3, <1>4, <1>5, <1>6, <1>7, <1>8, <1>9, <1>10 DEF Inv

\* The printer shuts down for another reason.
LEMMA ShutdownKeeps ==
    ASSUME Inv, Shutdown
    PROVE  Inv'
<1>0. /\ is_shutdown' = TRUE /\ must_pause_work' = (must_pause_work \/ work_timer)
      /\ UNCHANGED <<file, work_timer, cmd_from_sd, is_over_work, context, pauseVars,
                     stats, moveVars, lockVars, pc, cmd, feed, histVars, sent>>
      /\ "client" \in Procs
  BY ProcFacts DEF Shutdown
<1>1. Places' /\ MutexInv'
  BY <1>0, StaysMoves
<1>2. must_pause_work' \in BOOLEAN /\ Told'
  BY <1>0 DEF Inv, Types, Told
<1>3. Types'
  BY <1>0, <1>2 DEF Inv, Types, pauseVars, histVars
<1>4. FileType' /\ DataTypes' /\ CountTypes' /\ WorkerInv' /\ FeedInv' /\ CancelInv' /\ InPlace'
  BY <1>0 DEF Inv, FileType, DataTypes, CountTypes, WorkerInv, FeedInv, CancelInv, InPlace,
              moveVars, histVars
<1>5. PauseInv'
  BY <1>2 DEF PauseInv
<1>6. Records'
  <2>1. RecordOK(record)'
    BY <1>0, RecordedOK DEF Shutdown, RecordOK, histVars
  <2> QED  BY <1>0, <2>1 DEF Inv, Records, RecordOK, histVars
<1> QED  BY <1>1, <1>3, <1>4, <1>5, <1>6 DEF Inv

\* The host starts again.
LEMMA StartedKeeps ==
    ASSUME Inv, NEW r, RecordOK(r), Started(r),
           UNCHANGED <<z, jobs, homed, paused, cancelled>>
    PROVE  Inv'
<1>1. /\ \A p \in Procs : pc'[p] = "idle" /\ cmd'[p] = "none"
      /\ pc' \in [Procs -> Spots]
      /\ cmd' \in [Procs -> ClientCommands \cup LineKinds \cup {"none", "runout"}]
  BY PlaceFacts DEF Started
<1>2. Places'
  BY <1>1, ProcFacts DEF Places, MayBe, Others
<1>3. MutexInv'
  <2>1. \A p \in Procs : ~Inside(p)'
    BY <1>1, PlaceFacts DEF Inside, Under
  <2>2. owner' = "none" /\ queue' = <<>>
    BY DEF Started
  <2> QED  BY <2>1, <2>2 DEF MutexInv
<1>4. Types'
  BY DEF Inv, Types, Started
<1>5. FileType' /\ file'.pos = 0
  <2> DEFINE o == ~r.none
             no == FALSE
  <2>1. file' = [open |-> o, fail |-> no, pos |-> 0] /\ o \in BOOLEAN
    BY DEF Started
  <2> HIDE DEF o
  <2> QED  BY <2>1, PrintAssumption DEF FileType
<1>6. DataTypes'
  BY HeightFacts DEF Inv, DataTypes, Started, Standby, States
<1>7. CountTypes'
  <2>1. job' \in 0..MaxJobs
    BY DEF Started, RecordOK, Inv, CountTypes, NoRecord
  <2> QED  BY <1>1, <2>1, ProcFacts, PrintAssumption DEF Started, Inv, CountTypes
<1>8. WorkerInv'
  BY <1>1, ProcFacts DEF WorkerInv, Started
<1>9. InPlace'
  BY <1>5 DEF InPlace, Started
<1>10. Records'
  BY DEF Records, RecordOK, Started
<1>11. FeedInv'
  <2>1. NoFeed \in Feeds /\ NoFeed.cur <= NoFeed.read + 1
    BY PrintAssumption DEF NoFeed, Feeds
  <2>2. feed' = [w \in Workers |-> NoFeed]
    BY DEF Started
  <2> QED  BY <1>1, <2>1, <2>2, FeedIdle, ProcFacts
<1>12. CancelInv' /\ PauseInv'
  BY <1>1, PauseIdle DEF CancelInv, Started
<1> QED  BY <1>2, <1>3, <1>4, <1>5, <1>6, <1>7, <1>8, <1>9, <1>10, <1>11, <1>12 DEF Inv

\* A restart after a shutdown, or after a power outage.
LEMMA RestartKeeps ==
    ASSUME Inv, Restart \/ PowerOutage
    PROVE  Inv'
<1>1. CASE Restart
  BY <1>1, StartedKeeps DEF Restart, Inv, Records
<1>2. CASE PowerOutage
  BY <1>2, StartedKeeps, RecordedOK DEF PowerOutage
<1> QED  BY <1>1, <1>2

-----------------------------------------------------------------------------
(* Cancelling                                                               *)

\* p goes to l with c, and the file is closed or goes to its start.
Closes(p, l, c) ==
    /\ Goes(p, l, c) /\ l \notin {"wait_m25", "lock", "start_macro", "outage_moves"}
    /\ UNCHANGED <<work_timer, feed, job, done, jobs, is_shutdown, record, context, paused>>
    /\ FileType' /\ Types' /\ DataTypes' /\ InPlace'
    /\ file'.pos <= file.pos /\ cancelled \subseteq cancelled'
    /\ (is_over_work => is_over_work') /\ (l = "wait_cancel" => is_over_work')
    /\ (must_pause_work => must_pause_work')

\* The rest of the invariant is kept by such a step.
LEMMA ClosesStep ==
    ASSUME Inv, NEW p \in Procs, NEW l, NEW c, Closes(p, l, c)
    PROVE  Inv'
<1>1. Places' /\ MutexInv' /\ Moves(p, l, c) /\ Alone(p) /\ GoesOn(p, l)
  BY ControlKept DEF Inv, Closes, Goes
<1>2. WorkerInv'
  BY <1>1, WorkersKept DEF Inv, Closes
<1>3. FeedInv'
  <2>1. file.pos \in Nat /\ file'.pos \in Nat
    BY PrintAssumption DEF Inv, FileType, Closes
  <2> QED  BY <1>1, <2>1, FeedKept DEF Inv, Closes
<1>4. CountTypes' /\ CancelInv' /\ Records'
  BY <1>1, CountKept, CancelKept, RecordsKept DEF Inv, Closes, CountTypes
<1>5. PauseInv'
  BY <1>1, PauseKept DEF Inv, Closes, Told
<1> QED  BY <1>1, <1>2, <1>3, <1>4, <1>5 DEF Inv, Closes

\* The file closed, at its start.
LEMMA ClosedFacts ==
    ASSUME FileType
    PROVE  /\ Closed \in [open : BOOLEAN, fail : BOOLEAN, pos : 0..Lines]
           /\ ~Closed.open /\ ~Closed.fail /\ Closed.pos = file.pos
           /\ \A f \in [open : BOOLEAN, fail : BOOLEAN, pos : 0..Lines] :
                /\ [f EXCEPT !.pos = 0] \in [open : BOOLEAN, fail : BOOLEAN, pos : 0..Lines]
                /\ [f EXCEPT !.pos = 0].pos = 0
                /\ [f EXCEPT !.pos = 0].open = f.open /\ [f EXCEPT !.pos = 0].fail = f.fail
           /\ file.pos \in Nat /\ 0 <= file.pos
<1> DEFINE File == [open : BOOLEAN, fail : BOOLEAN, pos : 0..Lines]
           no == FALSE
<1>1. Closed = [file EXCEPT !.open = no, !.fail = no] /\ no \in BOOLEAN /\ ~no
  BY DEF Closed
<1>2. 0 \in 0..Lines
  BY PrintAssumption
<1> HIDE DEF no
<1>3. Closed \in File /\ ~Closed.open /\ ~Closed.fail /\ Closed.pos = file.pos
  BY <1>1 DEF FileType
<1>4. ASSUME NEW f \in File
      PROVE  /\ [f EXCEPT !.pos = 0] \in File /\ [f EXCEPT !.pos = 0].pos = 0
             /\ [f EXCEPT !.pos = 0].open = f.open /\ [f EXCEPT !.pos = 0].fail = f.fail
  BY <1>2
<1>5. file.pos \in Nat /\ 0 <= file.pos
  BY PrintAssumption DEF FileType
<1> QED  BY <1>3, <1>4, <1>5

\* The end of do_cancel() closes the file.
LEMMA CloseFileFacts ==
    ASSUME Inv, CloseFile
    PROVE  /\ FileType' /\ ~file'.open /\ file'.pos <= file.pos
           /\ stats' \in [state : States, started : BOOLEAN]
<1>1. file' = [Closed EXCEPT !.pos = 0]
  BY DEF CloseFile
<1>2. FileType' /\ ~file'.open /\ file'.pos <= file.pos
  BY <1>1, ClosedFacts DEF Inv, FileType
<1>3. stats' \in [state : States, started : BOOLEAN]
  BY DEF CloseFile, Finished, Inv, DataTypes, States
<1> QED  BY <1>2, <1>3

\* CANCEL_PRINT up to its wait, and beyond if there is none.
LEMMA CancelBeginKeeps ==
    ASSUME Inv, NEW p \in Procs, CancelBegin(p)
    PROVE  Inv'
<1> DEFINE active == work_timer \/ sd_paused
           waiting == active /\ ~file.fail /\ Waits
<1>0. /\ Runs(p) /\ pc[p] # "cancel_macro"
      /\ is_over_work' = (is_over_work \/ active)
      /\ IF active /\ ~file.fail THEN DoPause ELSE UNCHANGED must_pause_work
      /\ IF active /\ ~file.fail /\ ~Waits THEN CloseFile
         ELSE /\ file' = IF active /\ file.fail THEN [file EXCEPT !.pos = 0] ELSE file
              /\ UNCHANGED stats
      /\ Goto(p, IF waiting THEN "wait_cancel" ELSE "cancel_macro")
      /\ UNCHANGED <<work_timer, cmd_from_sd, context, pauseVars, moveVars, lockVars,
                     is_shutdown, feed, record, histVars, bounds>>
  BY BeginsRuns DEF CancelBegin
<1>1. is_over_work' \in BOOLEAN /\ (is_over_work => is_over_work') /\ (active => is_over_work')
  BY <1>0 DEF Inv, Types
<1>2. must_pause_work' \in BOOLEAN /\ (must_pause_work => must_pause_work')
  BY <1>0, DoPauseTells DEF Inv, Types
<1>3. Types'
  BY <1>0, <1>1, <1>2 DEF Inv, Types, pauseVars, histVars
<1>4. PICK l \in {"wait_cancel", "cancel_macro"} :
        /\ Goto(p, l) /\ UNCHANGED lockVars
        /\ l = IF waiting THEN "wait_cancel" ELSE "cancel_macro"
  BY <1>0
<1>5. Goes(p, l, cmd[p])
  BY <1>0, <1>4, GoesWithin DEF Inv, AtLine, AtCommand
<1>6. Moves(p, l, cmd[p]) /\ pc'[p] = l
  BY <1>5 DEF Goes, Moves
<1>7. CASE active /\ ~file.fail /\ ~Waits
  <2>1. CloseFile /\ l = "cancel_macro"
    BY <1>0, <1>4, <1>7
  <2>2. InPlace'
    BY <1>1, <1>6, <1>7, <2>1, CloseFileFacts DEF InPlace
  <2>3. DataTypes'
    BY <1>0, <2>1, CloseFileFacts DEF Inv, DataTypes, moveVars
  <2>4. Closes(p, l, cmd[p])
    BY <1>0, <1>1, <1>2, <1>3, <1>5, <2>1, <2>2, <2>3, CloseFileFacts DEF Closes, histVars
  <2> QED  BY <2>4, ClosesStep
<1>8. CASE active /\ file.fail
  <2>1. file' = [file EXCEPT !.pos = 0] /\ UNCHANGED stats /\ l = "cancel_macro"
    BY <1>0, <1>4, <1>8
  <2>2. FileType' /\ file'.fail /\ file'.pos <= file.pos
    BY <1>8, <2>1, ClosedFacts DEF Inv, FileType
  <2>3. InPlace'
    BY <1>1, <1>6, <1>8, <2>1, <2>2 DEF InPlace
  <2>4. DataTypes'
    BY <1>0, <2>1 DEF Inv, DataTypes, moveVars
  <2>5. Closes(p, l, cmd[p])
    BY <1>0, <1>1, <1>2, <1>3, <1>5, <2>1, <2>2, <2>3, <2>4 DEF Closes, histVars
  <2> QED  BY <2>5, ClosesStep
<1>9. CASE ~active \/ waiting
  <2>1. file' = file /\ UNCHANGED stats
    BY <1>0, <1>9
  <2>2. FileType' /\ file'.pos <= file.pos /\ DataTypes'
    BY <1>0, <2>1, ClosedFacts DEF Inv, FileType, DataTypes, moveVars
  <2>3. InPlace'
    BY <1>0, <1>1, <1>6, <2>1, InPlaceKept DEF Inv, histVars
  <2>4. l = "wait_cancel" => is_over_work'
    BY <1>1, <1>4
  <2>5. Closes(p, l, cmd[p])
    BY <1>0, <1>1, <1>2, <1>3, <1>5, <2>1, <2>2, <2>3, <2>4 DEF Closes, histVars
  <2> QED  BY <2>5, ClosesStep
<1> QED  BY <1>7, <1>8, <1>9

\* CANCEL_PRINT after its wait.
LEMMA CancelCloseKeeps ==
    ASSUME Inv, NEW p \in Procs, CancelClose(p)
    PROVE  Inv'
<1>1. Runs(p) /\ is_over_work
  BY HandlerRuns DEF Inv, CancelClose, AtLine, CancelInv
<1>2. Goes(p, "cancel_macro", cmd[p])
  BY <1>1, GoesWithin DEF Inv, AtLine, AtCommand, CancelClose
<1>3. InPlace'
  <2>1. pc'[p] = "cancel_macro"
    BY <1>2 DEF Goes, Moves
  <2> QED  BY <1>1, <2>1, CloseFileFacts DEF InPlace, CancelClose
<1>4. Types' /\ DataTypes'
  BY CloseFileFacts DEF Inv, Types, DataTypes, CancelClose, pauseVars, moveVars, histVars
<1>5. Closes(p, "cancel_macro", cmd[p])
  BY <1>2, <1>3, <1>4, CloseFileFacts DEF Closes, CancelClose, histVars
<1> QED  BY <1>5, ClosesStep

\* The end of CANCEL_PRINT.
LEMMA CancelEndKeeps ==
    ASSUME Inv, NEW p \in Procs, CancelEnd(p)
    PROVE  Inv'
<1>1. Runs(p)
  BY HandlerRuns DEF Inv, CancelEnd, AtLine
<1>2. PICK l \in {"ran", "idle"} : Goes(p, l, Kept(p, l))
  BY <1>1, GoesReturn DEF Inv, CancelEnd
<1>3. InPlace'
  BY DEF CancelEnd, InPlace
<1>4. Types'
  BY DEF Inv, Types, CancelEnd, sdVars
<1>5. DataTypes' /\ FileType' /\ file' = file
  BY HeightFacts DEF Inv, DataTypes, FileType, CancelEnd, sdVars
<1>6. file'.pos <= file.pos
  BY <1>5, ClosedFacts DEF Inv
<1>7. Closes(p, l, Kept(p, l))
  BY <1>2, <1>3, <1>4, <1>5, <1>6 DEF Closes, CancelEnd, sdVars
<1> QED  BY <1>7, ClosesStep

\* SDCARD_RESET_FILE
LEMMA ResetFileKeeps ==
    ASSUME Inv, ResetFile("client")
    PROVE  Inv'
<1>0. /\ Runs("client") /\ pc["client"] # "cancel_macro" /\ "client" \in Procs
      /\ UNCHANGED <<work_timer, cmd_from_sd, is_over_work, context, pauseVars, moveVars,
                     is_shutdown, feed, record, job, jobs, homed, done, paused, bounds>>
  BY BeginsRuns, ProcFacts DEF ResetFile
<1>1. CASE cmd_from_sd
  <2>1. Throw("client") /\ UNCHANGED <<file, must_pause_work, stats, cancelled>>
    BY <1>1 DEF ResetFile
  <2>2. PICK l \in {"on_error", "idle"} : Goes("client", l, Kept("client", l))
    BY <1>0, <2>1, GoesThrow DEF Inv
  <2>3. Quiet("client", l, Kept("client", l))
    BY <1>0, <2>1, <2>2 DEF Quiet, Inv, Types, DataTypes, pauseVars, moveVars
  <2> QED  BY <1>0, <2>3, QuietStep
<1>2. CASE ~cmd_from_sd
  <2>1. /\ file' = [ClosedIfGood EXCEPT !.pos = 0]
        /\ cancelled' = cancelled \cup {job}
        /\ IF file.fail THEN UNCHANGED must_pause_work ELSE DoPause
        /\ stats' = Standby
        /\ Return("client")
    BY <1>2 DEF ResetFile
  <2>2. PICK l \in {"ran", "idle"} : Goes("client", l, Kept("client", l))
    BY <1>0, <2>1, GoesReturn DEF Inv
  <2>3. InPlace'
    BY <1>0, <2>1 DEF InPlace
  <2>4. must_pause_work' \in BOOLEAN /\ (must_pause_work => must_pause_work')
    BY <1>0, <2>1, DoPauseTells DEF Inv, Types
  <2>5. Types'
    BY <1>0, <2>4 DEF Inv, Types, pauseVars
  <2>6. DataTypes'
    BY <1>0, <2>1 DEF Inv, DataTypes, moveVars, Standby, States
  <2>7. FileType' /\ file'.pos <= file.pos
    <3>1. ClosedIfGood \in [open : BOOLEAN, fail : BOOLEAN, pos : 0..Lines]
      BY ClosedFacts DEF ClosedIfGood, Inv, FileType
    <3> QED  BY <2>1, <3>1, ClosedFacts DEF Inv, FileType
  <2>8. Closes("client", l, Kept("client", l))
    BY <1>0, <2>1, <2>2, <2>3, <2>4, <2>5, <2>6, <2>7 DEF Closes
  <2> QED  BY <1>0, <2>8, ClosesStep
<1> QED  BY <1>1, <1>2

-----------------------------------------------------------------------------
(* Starting and resuming                                                    *)

\* A handler that runs for the client is the only one: nobody is in the middle of
\* a cancel or a pause, and the file is where the print was left.
LEMMA ClientAlone ==
    ASSUME Inv, Runs("client"), ~is_shutdown,
           pc["client"] \notin {"cancel_macro", "wait_cancel", "wait_m25"}
    PROVE  /\ \A r \in Procs : pc[r] \notin {"cancel_macro", "wait_cancel", "wait_m25"}
           /\ job \in cancelled \/ file.pos = done
<1>1. owner = "client"
  BY RunsHolds, ProcFacts DEF Inv
<1>2. \A r \in Procs : pc[r] \notin {"cancel_macro", "wait_cancel", "wait_m25"}
  BY <1>1, OnlyOwnerRuns
<1> QED  BY <1>2 DEF Inv, InPlace

\* do_resume() starts the worker.
LEMMA ResumedKeeps ==
    ASSUME Inv, Runs("client"), ~is_shutdown, ~work_timer,
           pc["client"] \notin {"cancel_macro", "wait_cancel", "wait_m25"},
           NEW w \in Workers, DoResume("client", w),
           UNCHANGED <<file, cmd_from_sd, stats, z, is_shutdown, feed, job, jobs, homed, done,
                       cancelled>>,
           UNCHANGED <<record, context>> \/ (record' = NoRecord /\ context' = NoRecord),
           is_paused' \in BOOLEAN, pause_command_sent' \in BOOLEAN, sd_paused' \in BOOLEAN,
           saved' \in [1..3 -> Heights]
    PROVE  Inv'
<1>0. /\ owner = "client" /\ "client" \in Procs /\ w \in Procs /\ w # "client"
      /\ pc[w] = "idle" /\ Unlock
      /\ work_timer' = TRUE /\ must_pause_work' = FALSE /\ is_over_work' = FALSE
      /\ paused' = FALSE
  BY RunsHolds, ProcFacts DEF Inv, DoResume
<1>1. Moves("client", "idle", "none")
  BY <1>0, PlaceFacts DEF Inv, Places, DoResume, Moves
<1>2. MayBe("client", "idle", "none") /\ Passes("client", "idle", "none")
  BY <1>0, ProcFacts, PlaceFacts DEF MayBe, Passes, Under
<1>3. Places' /\ MutexInv'
  BY <1>0, <1>1, <1>2, ControlKept DEF Inv
<1>4. /\ pc'["client"] = "idle" /\ pc'[w] = "handler"
      /\ \A v \in Workers : v # w => pc'[v] = "idle"
      /\ \A r \in Procs : r \notin {"client", w} => pc'[r] = pc[r]
  BY <1>0, ProcFacts DEF Inv, Places, DoResume, WorkerInv
<1>5. WorkerInv'
  BY <1>0, <1>4 DEF WorkerInv
<1>6. FeedInv'
  BY <1>4, FeedIdle DEF Inv, FeedInv
<1>7. Types' /\ FileType' /\ DataTypes'
  BY <1>0 DEF Inv, Types, FileType, DataTypes
<1>8. CountTypes'
  BY <1>0, <1>1, CountKept DEF Inv, CountTypes
<1>9. InPlace'
  BY ClientAlone DEF InPlace
<1>10. Records'
  BY DEF Inv, Records, RecordOK
<1>11. CancelInv' /\ PauseInv'
  <2>1. \A r \in Procs : pc'[r] \notin {"wait_cancel", "wait_m25"}
    BY <1>1, ClientAlone DEF Moves
  <2> QED  BY <1>0, <2>1 DEF CancelInv, PauseInv
<1> QED  BY <1>3, <1>5, <1>6, <1>7, <1>8, <1>9, <1>10, <1>11 DEF Inv

\* "SD busy"
LEMMA BusyKeeps ==
    ASSUME Inv, Runs("client"), ~is_shutdown,
           pc["client"] \notin {"cancel_macro", "wait_cancel", "wait_m25"}, Busy("client")
    PROVE  Inv'
<1>0. /\ is_over_work' = FALSE /\ Throw("client") /\ "client" \in Procs
      /\ UNCHANGED <<file, work_timer, must_pause_work, cmd_from_sd, context, pauseVars,
                     stats, moveVars, is_shutdown, feed, record, histVars, bounds>>
  BY ProcFacts DEF Busy
<1>1. PICK l \in {"on_error", "idle"} : Goes("client", l, Kept("client", l))
  BY <1>0, GoesThrow DEF Inv
<1>2. /\ Places' /\ MutexInv' /\ Moves("client", l, Kept("client", l)) /\ Alone("client")
      /\ GoesOn("client", l)
  BY <1>0, <1>1, ControlKept DEF Inv, Goes
<1>3. WorkerInv'
  BY <1>0, <1>2, WorkersKept DEF Inv
<1>4. FeedInv'
  <2>1. file.pos \in Nat
    BY ClosedFacts DEF Inv
  <2> QED  BY <1>0, <1>2, <2>1, FeedKept DEF Inv, histVars
<1>5. Types' /\ FileType' /\ DataTypes'
  BY <1>0 DEF Inv, Types, FileType, DataTypes, pauseVars, moveVars, histVars
<1>6. CountTypes' /\ Records'
  BY <1>0, <1>2, CountKept, RecordsKept DEF Inv, CountTypes, histVars
<1>7. InPlace'
  BY <1>0, ClientAlone DEF InPlace, histVars
<1>8. CancelInv'
  BY <1>2, ClientAlone DEF CancelInv, Moves
<1>9. PauseInv'
  BY <1>0, <1>2, PauseKept DEF Inv, histVars, Told
<1> QED  BY <1>2, <1>3, <1>4, <1>5, <1>6, <1>7, <1>8, <1>9 DEF Inv

\* The end of RESUME.
LEMMA ResumeEndKeeps ==
    ASSUME Inv, ResumeEnd("client")
    PROVE  Inv'
<1>0. /\ pc["client"] = "resume" /\ ~is_shutdown /\ Runs("client") /\ "client" \in Procs
      /\ pc["client"] \notin {"cancel_macro", "wait_cancel", "wait_m25"}
  BY HandlerRuns, ProcFacts DEF Inv, ResumeEnd, AtCommand
<1>1. CASE Busy("client")
  BY <1>0, <1>1, BusyKeeps
<1>2. CASE /\ sd_paused' = FALSE /\ pause_command_sent' = FALSE /\ is_paused' = FALSE
           /\ saved' = NoneSaved
           /\ UNCHANGED <<file, cmd_from_sd, context, stats, z, is_shutdown, feed,
                          record, job, jobs, homed, done, cancelled, bounds>>
  <2>0. saved' \in [1..3 -> Heights]
    BY <1>2, HeightFacts DEF Inv
  <2>1. CASE NotBusy /\ \E w \in Workers : DoResume("client", w)
    <3>1. PICK w \in Workers : DoResume("client", w)
      BY <2>1
    <3> QED  BY <1>0, <1>2, <2>0, <2>1, <3>1, ResumedKeeps DEF NotBusy
  <2>2. CASE /\ Return("client")
             /\ UNCHANGED <<work_timer, must_pause_work, is_over_work, paused>>
    <3>1. PICK l \in {"ran", "idle"} : Goes("client", l, Kept("client", l))
      BY <1>0, <2>2, GoesReturn DEF Inv
    <3>2. Quiet("client", l, Kept("client", l))
      BY <1>0, <1>2, <2>0, <2>2, <3>1 DEF Quiet, Inv, Types, DataTypes
    <3> QED  BY <1>0, <3>2, QuietStep
  <2> QED  BY <1>2, <2>1, <2>2, <1>1 DEF ResumeEnd
<1> QED  BY <1>1, <1>2 DEF ResumeEnd

\* M24
LEMMA M24Keeps ==
    ASSUME Inv, M24("client")
    PROVE  Inv'
<1>0. /\ ~is_shutdown /\ Runs("client")
      /\ pc["client"] \notin {"cancel_macro", "wait_cancel", "wait_m25"}
  BY BeginsRuns, ProcFacts DEF M24, Begins
<1>1. CASE Busy("client")
  BY <1>0, <1>1, BusyKeeps
<1>2. CASE /\ NotBusy /\ \E w \in Workers : DoResume("client", w)
           /\ UNCHANGED <<file, cmd_from_sd, context, pauseVars, stats, moveVars, is_shutdown,
                          feed, record, job, jobs, homed, done, cancelled, bounds>>
  <2>1. PICK w \in Workers : DoResume("client", w)
    BY <1>2
  <2> QED  BY <1>0, <1>2, <2>1, ResumedKeeps DEF NotBusy, pauseVars, moveVars, Inv, Types, DataTypes
<1> QED  BY <1>1, <1>2 DEF M24

\* The print starts, after print_start_gcode or after the moves of the recovery.
LEMMA StartKeeps ==
    ASSUME Inv, PrintStart("client") \/ OutageResumed("client")
    PROVE  Inv'
<1>0. /\ pc["client"] \in {"start_macro", "outage_moves"} /\ ~is_shutdown /\ "client" \in Procs
      /\ UNCHANGED <<file, cmd_from_sd, pauseVars, stats, moveVars, is_shutdown, feed, job,
                     jobs, homed, done, cancelled>>
      /\ UNCHANGED <<record, context>> \/ (record' = NoRecord /\ context' = NoRecord)
  BY ProcFacts DEF PrintStart, OutageResumed
<1>1. /\ Runs("client") /\ pc["client"] \notin {"cancel_macro", "wait_cancel", "wait_m25"}
      /\ ~work_timer
  BY <1>0, HandlerRuns DEF Inv, AtCommand, WorkerInv
<1>2. PICK w \in Workers : DoResume("client", w)
  BY DEF PrintStart, OutageResumed
<1> QED  BY <1>0, <1>1, <1>2, ResumedKeeps DEF pauseVars, moveVars, Inv, Types, DataTypes

\* Another file is selected while there is no worker.
LEMMA LoadedKeeps ==
    ASSUME Inv, Runs("client"), ~work_timer,
           NEW l, Goes("client", l, Kept("client", l)), l \notin {"lock", "wait_cancel", "wait_m25"},
           pc["client"] # "cancel_macro",
           NEW pos \in 0..Lines, file' = Loaded(pos), stats' = Standby, z' \in Heights,
           done' \in 0..Lines, job' \in 0..MaxJobs, jobs' \in 0..MaxJobs,
           job' \in cancelled \/ pos = done',
           UNCHANGED <<work_timer, must_pause_work, cmd_from_sd, is_over_work, context,
                       pauseVars, saved, is_shutdown, feed, record, homed, paused,
                       cancelled>>
    PROVE  Inv'
<1>0. "client" \in Procs
  BY ProcFacts
<1>1. /\ Places' /\ MutexInv' /\ Moves("client", l, Kept("client", l)) /\ Alone("client")
  BY <1>0, ControlKept DEF Inv, Goes
<1>2. \A w \in Workers : pc[w] = "idle" /\ pc'[w] = "idle"
  BY <1>1, ProcFacts DEF Inv, WorkerInv, Alone
<1>3. WorkerInv' /\ FeedInv'
  BY <1>2, FeedIdle DEF Inv, WorkerInv, FeedInv
<1>4. FileType' /\ file'.pos = pos
  BY DEF Loaded, FileType
<1>5. Types' /\ DataTypes'
  BY DEF Inv, Types, DataTypes, pauseVars, Standby, States
<1>6. CountTypes'
  BY <1>1 DEF CountTypes, Moves
<1>7. InPlace'
  BY <1>4 DEF InPlace
<1>8. Records' /\ CancelInv' /\ PauseInv'
  BY <1>0, <1>1, RecordsKept, CancelKept, PauseIdle DEF Inv, Types
<1> QED  BY <1>1, <1>3, <1>4, <1>5, <1>6, <1>7, <1>8 DEF Inv

\* SDCARD_PRINT_FILE and M23
LEMMA PrintFileKeeps ==
    ASSUME Inv, NEW c \in {"SDCARD_PRINT_FILE", "M23"}, PrintFile("client", c)
    PROVE  Inv'
<1>0. /\ Runs("client") /\ pc["client"] # "cancel_macro" /\ cmd["client"] = c
      /\ "client" \in Procs
      /\ UNCHANGED <<work_timer, must_pause_work, cmd_from_sd, is_over_work, context,
                     pauseVars, moveVars, is_shutdown, feed, record, homed, paused,
                     cancelled, bounds>>
  BY BeginsRuns, ProcFacts DEF PrintFile
<1>1. CASE work_timer
  <2>1. Throw("client") /\ UNCHANGED <<file, stats, job, jobs, done>>
    BY <1>1 DEF PrintFile
  <2>2. PICK l \in {"on_error", "idle"} : Goes("client", l, Kept("client", l))
    BY <1>0, <2>1, GoesThrow DEF Inv
  <2>3. Quiet("client", l, Kept("client", l))
    BY <1>0, <2>1, <2>2 DEF Quiet, Inv, Types, DataTypes, pauseVars, moveVars
  <2> QED  BY <1>0, <2>3, QuietStep
<1>2. CASE ~work_timer
  <2>1. /\ jobs' = jobs + 1 /\ job' = jobs + 1 /\ done' = 0
        /\ file' = Loaded(0) /\ stats' = Standby
        /\ IF c = "M23" THEN Return("client")
           ELSE Goto("client", "start_macro") /\ UNCHANGED lockVars
    BY <1>2 DEF PrintFile
  <2>2. pc["client"] = "lock"
    <3>1. "begin" \notin AtCommand
      BY DEF AtCommand
    <3> QED  BY <1>0, <3>1, ProcFacts DEF PrintFile, Begins, Inv, Places, MayBe
  <2>3. jobs' \in 0..MaxJobs /\ job' \in 0..MaxJobs /\ 0 \in 0..Lines
    BY <1>0, <2>1, <2>2, PrintAssumption DEF Inv, CountTypes
  <2>4. PICK l \in {"ran", "idle", "start_macro"} : Goes("client", l, Kept("client", l))
    <3>1. CASE c = "M23"
      BY <1>0, <2>1, <3>1, GoesReturn DEF Inv
    <3>2. CASE c # "M23"
      <4>1. Goes("client", "start_macro", cmd["client"])
        BY <1>0, <2>1, <3>2, GoesWithin, ProcFacts DEF Inv, AtCommand
      <4> QED  BY <4>1 DEF Kept
    <3> QED  BY <3>1, <3>2
  <2>5. z' \in Heights /\ UNCHANGED saved
    BY <1>0 DEF Inv, DataTypes, moveVars
  <2> QED  BY <1>0, <1>2, <2>1, <2>3, <2>4, <2>5, LoadedKeeps
<1> QED  BY <1>1, <1>2

\* POWER_OUTAGE_RESUME, when nothing is resumed ...
LEMMA OutageDismissKeeps ==
    ASSUME Inv, OutageDismiss("client")
    PROVE  Inv'
<1>1. Runs("client") /\ pc["client"] # "cancel_macro"
  BY BeginsRuns, ProcFacts DEF OutageDismiss
<1>2. PICK l \in {"ran", "idle"} : Goes("client", l, Kept("client", l))
  BY <1>1, GoesReturn, ProcFacts DEF Inv, OutageDismiss
<1>3. Quiet("client", l, Kept("client", l))
  BY <1>1, <1>2 DEF OutageDismiss, Quiet, Inv, Types, DataTypes, pauseVars, moveVars, histVars
<1> QED  BY <1>3, QuietStep, ProcFacts

\* ... or the print of the record.
LEMMA OutageResumeKeeps ==
    ASSUME Inv, OutageResume("client")
    PROVE  Inv'
<1>0. /\ Runs("client") /\ pc["client"] # "cancel_macro" /\ ~context.none
      /\ "client" \in Procs
      /\ UNCHANGED <<work_timer, must_pause_work, cmd_from_sd, is_over_work, context,
                     pauseVars, saved, is_shutdown, feed, record, jobs, homed, paused,
                     cancelled, bounds>>
  BY BeginsRuns, ProcFacts DEF OutageResume
<1>1. CASE work_timer
  <2>1. Throw("client") /\ UNCHANGED <<file, stats, z, job, done>>
    BY <1>1 DEF OutageResume
  <2>2. PICK l \in {"on_error", "idle"} : Goes("client", l, Kept("client", l))
    BY <1>0, <2>1, GoesThrow DEF Inv
  <2>3. Quiet("client", l, Kept("client", l))
    BY <1>0, <2>1, <2>2 DEF Quiet, Inv, Types, DataTypes, pauseVars
  <2> QED  BY <1>0, <2>3, QuietStep
<1>2. CASE ~work_timer
  <2>1. /\ file' = Loaded(context.pos) /\ stats' = Standby
        /\ z' = context.gcode_z
        /\ job' = context.job /\ done' = context.done
        /\ Goto("client", "outage_moves") /\ UNCHANGED lockVars
    BY <1>2 DEF OutageResume
  <2>2. /\ context.pos \in 0..Lines /\ context.done \in 0..Lines /\ context.job \in 0..MaxJobs
        /\ context.gcode_z \in Heights
        /\ context.job \in cancelled \/ context.pos = context.done
    <3>1. context # NoRecord
      BY <1>0 DEF NoRecord
    <3> QED  BY <3>1 DEF Inv, Records, RecordOK
  <2>3. Goes("client", "outage_moves", cmd["client"])
    BY <1>0, <2>1, GoesWithin, ProcFacts DEF Inv, AtCommand
  <2>4. Goes("client", "outage_moves", Kept("client", "outage_moves"))
    BY <2>3 DEF Kept
  <2>5. jobs' \in 0..MaxJobs
    BY <1>0 DEF Inv, CountTypes
  <2> QED  BY <1>0, <1>2, <2>1, <2>2, <2>4, <2>5, LoadedKeeps
<1> QED  BY <1>1, <1>2

-----------------------------------------------------------------------------
(* The theorems                                                             *)

\* The host starts with the invariant.
LEMMA InitInv ==
    ASSUME Init
    PROVE  Inv
<1>1. /\ \A p \in Procs : pc[p] = "idle" /\ cmd[p] = "none"
      /\ pc \in [Procs -> Spots]
      /\ cmd \in [Procs -> ClientCommands \cup LineKinds \cup {"none", "runout"}]
  BY PlaceFacts DEF Init
<1>2. Places
  BY <1>1, ProcFacts DEF Places, MayBe, Others
<1>3. MutexInv
  <2>1. \A p \in Procs : ~Inside(p)
    BY <1>1, PlaceFacts DEF Inside, Under
  <2>2. owner = "none" /\ queue = <<>>
    BY DEF Init
  <2> QED  BY <2>1, <2>2 DEF MutexInv
<1>4. Types /\ FileType
  <2> DEFINE no == FALSE
  <2>1. file = [open |-> no, fail |-> no, pos |-> 0] /\ no \in BOOLEAN
    BY DEF Init
  <2> HIDE DEF no
  <2>2. FileType
    BY <2>1, PrintAssumption DEF FileType
  <2> QED  BY <2>2 DEF Types, Init
<1>5. CountTypes
  BY <1>1, ProcFacts, PrintAssumption DEF Init, CountTypes
<1>6. DataTypes
  BY <1>5, HeightFacts DEF DataTypes, Init, Standby, States
<1>7. WorkerInv
  BY <1>1, ProcFacts DEF WorkerInv, Init
<1>8. InPlace /\ Records /\ CancelInv /\ PauseInv
  BY <1>1 DEF InPlace, Records, RecordOK, CancelInv, PauseInv, Told, Init
<1>9. FeedInv
  <2>1. NoFeed \in Feeds /\ NoFeed.cur <= NoFeed.read + 1
    BY PrintAssumption DEF NoFeed, Feeds
  <2> QED  BY <1>1, <2>1, PlaceFacts, ProcFacts DEF FeedInv, Init
<1> QED  BY <1>2, <1>3, <1>4, <1>5, <1>6, <1>7, <1>8, <1>9 DEF Inv

\* Every step of a greenlet keeps it.
LEMMA StepKeeps ==
    ASSUME Inv, NEW p \in Procs, Step(p)
    PROVE  Inv'
<1>1. CASE p \in Workers /\ Worker(p)
  BY <1>1, WorkHandlerKeeps, StopKeeps, ReadKeeps, ReadEndKeeps, LineDoneKeeps, LineErrorKeeps,
     InternalErrorKeeps, RunLineKeeps DEF Worker
<1>2. CASE ClientCommand
  BY <1>2, ResumeBeginKeeps, ResumeHeatedKeeps, ResumeEndKeeps, M24Keeps, ClearPauseKeeps,
     ResetFileKeeps, PrintFileKeeps, StartKeeps, OutageDismissKeeps, OutageResumeKeeps
     DEF ClientCommand
<1>3. CASE RunoutPause
  BY <1>3, RunoutPauseKeeps
<1>4. CASE Command(p)
  BY <1>4, SendPauseEndKeeps, PauseBeginKeeps, PauseSave2Keeps, PauseSave3Keeps, M25Keeps,
     M25EndKeeps, CancelBeginKeeps, CancelCloseKeeps, CancelEndKeeps, RefusedKeeps DEF Command
<1> QED  BY <1>1, <1>2, <1>3, <1>4 DEF Step

\* So does a step in which nothing changes.
LEMMA StutterKeeps ==
    ASSUME Inv, UNCHANGED vars
    PROVE  Inv'
<1>1. Places' /\ MutexInv'
  BY StaysMoves, ProcFacts DEF vars
<1>2. /\ Types' /\ FileType' /\ DataTypes' /\ CountTypes' /\ WorkerInv' /\ InPlace'
      /\ FeedInv' /\ CancelInv' /\ PauseInv'
  BY DEF Inv, vars, sdVars, pauseVars, moveVars, histVars, Types, FileType, DataTypes,
         CountTypes, WorkerInv, InPlace, FeedInv, CancelInv, PauseInv, Told
<1>3. Records'
  BY RecordsKept DEF Inv, vars, sdVars, histVars
<1> QED  BY <1>1, <1>2, <1>3 DEF Inv

\* And every step of the system.
LEMMA NextKeeps ==
    ASSUME Inv, [Next]_vars
    PROVE  Inv'
  BY StepKeeps, SendKeeps, RunoutEventKeeps, ShutdownKeeps, RestartKeeps, StutterKeeps DEF Next

\* The types and the one worker are part of it.
LEMMA InvOneWorker ==
    ASSUME Inv
    PROVE  OneWorker
<1>1. /\ work_timer \in BOOLEAN /\ must_pause_work \in BOOLEAN /\ cmd_from_sd \in BOOLEAN
      /\ is_over_work \in BOOLEAN /\ is_paused \in BOOLEAN /\ pause_command_sent \in BOOLEAN
      /\ sd_paused \in BOOLEAN
  BY DEF Inv, Types
<1>2. /\ {work_timer, must_pause_work, cmd_from_sd, is_over_work} \subseteq BOOLEAN
      /\ {is_paused, pause_command_sent, sd_paused} \subseteq BOOLEAN
  BY <1>1, Zenon
<1>3. /\ file \in [open : BOOLEAN, fail : BOOLEAN, pos : 0..Lines]
      /\ z \in Heights /\ saved \in [1..3 -> Heights]
      /\ owner \in Procs \cup {"none"} /\ queue \in Seq(Procs)
      /\ cmd \in [Procs -> ClientCommands \cup LineKinds \cup {"none", "runout"}]
      /\ done \in 0..Lines /\ job \in 0..MaxJobs
  BY DEF Inv, FileType, DataTypes, MutexInv, Places, CountTypes
<1>4. /\ stats \in [state : {"standby", "printing", "paused", "complete", "error",
                             "cancelled"}, started : BOOLEAN]
      /\ feed \in [Workers -> [cur : 1..(Lines + 1), read : 0..Lines, next : 0..Lines]]
  BY DEF Inv, DataTypes, States, FeedInv, Feeds
<1>5. TypeOK
  BY <1>2, <1>3, <1>4 DEF TypeOK
<1> QED  BY <1>5 DEF Inv, WorkerInv, OneWorker

\* The mutex goes from nobody to a worker only when it hands a line to the dispatch.
LEMMA StartsLineFacts ==
    ASSUME Inv, Next, NEW w \in Workers, StartsLine(w)
    PROVE  ~paused /\ (job \in cancelled \/ feed[w].cur = done + 1)
<1>0. pc[w] = "loop" /\ owner = "none" /\ owner' = w /\ w # "none" /\ queue = <<>>
  BY ProcFacts DEF StartsLine, Inv, MutexInv
<1>1. ~Unlock /\ ~UNCHANGED lockVars /\ ~Lock("client") /\ ~Lock("sensor")
  BY <1>0, ProcFacts DEF Unlock, Lock, lockVars
<1>2. ASSUME NEW p \in Workers, Worker(p) PROVE \E k \in Kinds : RunLine(p, k)
  BY <1>1, <1>2 DEF Worker, WorkHandler, Stop, Read, ReadEnd, LineDone, LineError, OnErrorDone,
                    InternalError, Broken, Throw
<1>3. ASSUME NEW p \in Procs, Command(p) PROVE FALSE
  BY <1>1, <1>3 DEF Command, SendPauseEnd, PauseBegin, PauseSave2, PauseSave3, M25, M25End,
                    M25Done, CancelBegin, CancelClose, CancelEnd, Refused, Return, Throw
<1>4. ~ClientCommand
  BY <1>1 DEF ClientCommand, ResumeBegin, ResumeHeated, ResumeEnd, M24, ClearPause, ResetFile,
              PrintFile, PrintStart, OutageDismiss, OutageResume, OutageResumed, Busy,
              DoResume, Return, Throw
<1>5. ~RunoutPause /\ ~RunoutEvent /\ ~Shutdown /\ \A c \in Commands : ~Send(c)
  BY <1>1 DEF RunoutPause, RunoutEvent, Shutdown, Send
<1>6. ~Restart /\ ~PowerOutage
  BY <1>0 DEF Restart, PowerOutage, Started
<1>7. PICK p \in Workers, k \in Kinds : RunLine(p, k)
  BY <1>2, <1>3, <1>4, <1>5, <1>6 DEF Next, Step
<1>8. ~paused
  BY <1>7, RunLineKeeps
<1> QED  BY <1>0, <1>8, PlaceFacts DEF Inv, FeedInv

\* The inductive invariant holds in every state.
THEOREM InvHolds == Spec => []Inv
  BY InitInv, NextKeeps, PTL DEF Spec

\* One print is fed by one greenlet, and the variables have their types: whatever
\* commands, lines, sensors, shutdowns and outages come (work_timer,
\* virtual_sdcard.cpp).
THEOREM OneWorkerHolds == Spec => []OneWorker
  BY InvHolds, InvOneWorker, PTL

\* The lines of a print that is not cancelled are executed in order, none skipped and
\* none repeated, for files of any length and chunks of any size.
THEOREM LinesInOrderHolds == Spec => LinesInOrder
<1>1. Inv /\ [Next]_vars => [\A w \in Workers : StartsLine(w) =>
                               job \in cancelled \/ feed[w].cur = done + 1]_vars
  BY StartsLineFacts
<1> QED  BY <1>1, InvHolds, PTL DEF Spec, LinesInOrder

\* Once PAUSE has ended no line of the file is executed until a command resumes.
THEOREM NoLineWhilePausedHolds == Spec => NoLineWhilePaused
<1>1. Inv /\ [Next]_vars => [\A w \in Workers : StartsLine(w) => ~paused]_vars
  BY StartsLineFacts
<1> QED  BY <1>1, InvHolds, PTL DEF Spec, NoLineWhilePaused
=============================================================================
