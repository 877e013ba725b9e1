---------------------------- MODULE ShellTaskProofs ----------------------------
(***************************************************************************)
(* One durable shell task and its slot, however often it is read, its      *)
(* runtime dies, its files fail, its probes fail and its stops fail: a     *)
(* task is launched once, one that ended before that stays ended, and its  *)
(* slot comes back only when its command is gone, unless somebody worked   *)
(* on what he had read before the start was complete or the command was    *)
(* out of sight.                                                           *)
(*                                                                         *)
(* While the slot is held and watched (Watching), what ends the task in    *)
(* task.json, in the worker's copy of it or in a reader's hands is true    *)
(* (TellsTheTruth, ReadersKnow): a task.json that says "running" without   *)
(* the command's pid means that the worker is about to write it, because a *)
(* reader that writes back an older copy never writes "running".           *)
(***************************************************************************)
EXTENDS ShellTask, TLAPS

Begun == {"running", "termination_unverified"} \cup Terminal

\* The command does not run, and will not.
Over == child # "live" /\ wrk \notin {"spawned", "loaded", "ready"}

\* The launcher, its row, its lease and the worker it starts.
LaunchOrder ==
  /\ lpc # "idle" => lease = "held" /\ ~watched
  /\ lease = "held" => lpc # "idle" \/ watched
  /\ row \in {"none", "waiting"} => lease = "none"
  /\ row \in {"none", "waiting"} \/ lpc \in {"gate", "capacity", "read", "write", "spawn"}
       => wrk = "none" /\ ~published /\ ~watched
  /\ watched => published /\ lease = "held"
  /\ lpc \in {"capacity", "read", "write", "spawn", "publish"} => starting
  /\ spawns = IF wrk = "none" THEN 0 ELSE 1

\* The command and its pid.
PidsKnown ==
  /\ wrk \in {"none", "spawned", "loaded", "ready"} => child = "none"
  /\ wrk = "exited" => child # "live"
  /\ child # "none" => copy.c
  /\ meta.c \/ lmeta.c \/ copy.c => child # "none"
  /\ \A f \in Fibers : mem[f].c => child # "none"

\* A task is reserved, then parked, then begun, and never again what it was before.
Stages ==
  /\ row = "none" \/ asking => meta.state = "none"
  /\ asking => row # "none"
  /\ meta.state = "none" => wrk = "none" /\ lpc \notin {"write", "spawn", "publish"}
  /\ wrk # "none" \/ lpc \in {"spawn", "publish"} => meta.state \in Begun
  /\ WorkerAlive /\ wrk # "spawned" => copy.state \in Begun

\* So it goes with those who have read task.json.
ReadersPast(f) ==
  /\ pc[f] # "idle" => meta.state # "none"
  /\ pc[f] \notin {"idle", "read", "back", "done"} => mem[f].state \in Begun
  /\ pc[f] \notin {"idle", "read", "record", "done"} /\ mem[f].state \in Begun => meta.state \in Begun

\* Before a worker was started no pid is known, so that a verdict can only be an end.
Unstarted ==
  wrk = "none" =>
    /\ lpc # "publish" /\ ~published /\ ~meta.w /\ ~lmeta.w
    /\ meta.state # "termination_unverified"
    /\ \A f \in Fibers : /\ ~mem[f].w /\ mem[f].state # "termination_unverified"
                         /\ pc[f] \notin {"stop", "verify"}
                         /\ pc[f] \in {"write", "back", "record", "settle"} => mem[f].state # "running"

\* Without an early reader nobody else is at work while the worker is started.
StartAlone ==
  ~early =>
    /\ lpc \in {"write", "spawn", "publish"} => \A f \in Fibers : pc[f] \in {"idle", "done"}
    /\ lpc = "write" => meta.state = "waiting"
    /\ lpc = "spawn" => meta.state = "running"

\* The slot is held for a task that was started, and nothing is out of sight.
Watching == lease = "held" /\ ~early /\ ~blind /\ ~untold /\ (watched \/ lpc \in {"spawn", "publish"})

\* What task.json and the worker say.
Truth ==
  /\ meta.state \in Begun
  /\ meta.state \in Terminal => Over
  /\ meta.state = "running" /\ ~meta.c /\ child = "live" => wrk = "launched"
  /\ WorkerAlive /\ wrk # "spawned" => copy.state \in Begun /\ (copy.state \in Terminal => Over)

TellsTheTruth == Watching => Truth

\* What a reader, or a cancel, knows.
Knows(f) ==
  pc[f] \notin {"idle", "read", "done"} =>
    /\ mem[f].w
    /\ mem[f].state \in Begun
    /\ mem[f].state \in Terminal => Over
    /\ pc[f] \in {"reread", "reprobe"} => ~WorkerAlive
    /\ pc[f] = "reprobe" /\ mem[f].state = "running" /\ ~mem[f].c => child # "live"
    /\ pc[f] \in {"write", "record"} => mem[f].state # "running"
    /\ pc[f] \in {"stop", "verify"} => mem[f].c

ReadersKnow == Watching => \A f \in Fibers : Knows(f)

SettledWhenOver == lease = "settled" /\ ~early /\ ~blind /\ ~untold => Over

-----------------------------------------------------------------------------
(* The types.                                                              *)

FileTypes ==
  /\ meta \in Meta /\ lmeta \in Meta /\ mem \in [Fibers -> Meta]
  /\ copy \in [state : MetaStates, c : BOOLEAN]
FlagTypes ==
  /\ published \in BOOLEAN /\ pending \in BOOLEAN /\ reserving \in BOOLEAN /\ starting \in BOOLEAN
  /\ watched \in BOOLEAN /\ blind \in BOOLEAN /\ early \in BOOLEAN /\ untold \in BOOLEAN
  /\ asking \in BOOLEAN /\ allowed \in BOOLEAN
PlaceTypes ==
  /\ wrk \in {"none", "spawned", "loaded", "ready", "launched", "armed", "finishing",
              "lingering", "exited", "killed", "crashed"}
  /\ child \in {"none", "live", "gone"}
  /\ row \in {"none", "waiting", "running", "done"}
  /\ lease \in {"none", "held", "settled", "leaked", "lost"}
  /\ lpc \in {"idle", "gate", "capacity", "read", "write", "spawn", "publish"}
  /\ pc \in [Fibers -> {"idle", "read", "probe", "reread", "reprobe", "write", "back",
                        "stop", "verify", "record", "settle", "done"}]
  /\ events \in 0..MaxEvents
  /\ unread \in 0..(ReadLimit - 1)
LeaseOfRow == lease \in {"held", "settled", "leaked"} => row \in {"running", "done"}

LEMMA TaskTypesSplit ==
  ASSUME FileTypes, FlagTypes, PlaceTypes, LeaseOfRow, LaunchOrder, PidsKnown
  PROVE  TaskTypeOK
<1>1. spawns \in 0..(1 + MaxEvents) /\ (child = "live" => spawns > 0)
  BY TaskAssumption DEF LaunchOrder, PidsKnown
<1> QED
  BY <1>1 DEF TaskTypeOK, FileTypes, FlagTypes, PlaceTypes, LeaseOfRow

LEMMA TaskTypesAre ==
  ASSUME TaskTypeOK
  PROVE  FileTypes /\ FlagTypes /\ PlaceTypes /\ LeaseOfRow
<1>1. FlagTypes
  BY Zenon DEF TaskTypeOK, FlagTypes
<1> QED
  BY <1>1 DEF TaskTypeOK, FileTypes, PlaceTypes, LeaseOfRow

ReaderStep == (\E f \in Fibers : BeginRead(f) \/ ReadStep(f)) \/ StatusReturns \/ WatchUnread \/ WatchSettles
Others == CrashRuntime \/ RetireLost \/ CwdMoves \/ RecoverParked
ParkStep == EnqueueTask \/ Reserve \/ Retire \/ Grant
AllWorker == WorkerStep \/ TimeOut \/ WorkerDies

-----------------------------------------------------------------------------
(* What the actions that record a reader's overlap or a lost pid do.       *)

LEMMA ReadMetaIs ==
  ASSUME FileTypes, FlagTypes
  PROVE  /\ ReadMeta \in Meta
         /\ ReadMeta.state = meta.state /\ ReadMeta.c = meta.c
         /\ ReadMeta.w <=> meta.w \/ published
<1> DEFINE known == meta.w \/ published
<1>1. ReadMeta = [meta EXCEPT !.w = known]
  BY Zenon DEF ReadMeta
<1>2. meta.w \in BOOLEAN
  BY DEF FileTypes, Meta
<1>a. known \in BOOLEAN /\ (known <=> meta.w \/ published)
  BY <1>2, Zenon
<1> HIDE DEF known
<1>3. ReadMeta \in Meta /\ ReadMeta.state = meta.state /\ ReadMeta.c = meta.c /\ ReadMeta.w = known
  BY <1>1, <1>a DEF FileTypes, Meta
<1> QED
  BY <1>a, <1>3, Zenon

StartReadsDoes ==
  /\ lpc = "read"
  /\ \/ /\ meta.state = "waiting" /\ lpc' = "write"
        /\ lmeta' = ReadMeta
        /\ early \/ InHand <=> early'
        /\ early' \in BOOLEAN
        /\ UNCHANGED <<meta, admission>>
     \/ FailWaiting /\ StartFails /\ UNCHANGED <<watched, early>>
  /\ UNCHANGED <<published, wrk, copy, child, blind, pc, mem, rest, events>>

LEMMA StartReadsIs ==
  ASSUME StartReads
  PROVE  StartReadsDoes
BY Zenon DEF StartReads, StartReadsDoes, StartGoesOn, processes, fibers

BeginReadDoes(f) ==
  /\ pc[f] = "idle"
  /\ f = "watch" => watched
  /\ meta.state # "none"
  /\ IF f = "status" THEN OneEvent ELSE UNCHANGED events
  /\ early \/ lpc \in {"write", "spawn", "publish"} <=> early'
  /\ early' \in BOOLEAN
  /\ Moves(f, "read")
  /\ UNCHANGED <<meta, mem, Shared>>

LEMMA BeginReadIs ==
  ASSUME NEW f \in Fibers, BeginRead(f)
  PROVE  BeginReadDoes(f)
BY Zenon DEF BeginRead, BeginReadDoes

RereadsMetaDoes(f) ==
  /\ pc[f] = "reread"
  /\ \/ /\ mem' = [mem EXCEPT ![f] = ReadMeta]
        /\ Moves(f, IF meta.state \in Terminal THEN "back" ELSE "reprobe")
        /\ UNCHANGED <<untold, events>>
     \/ /\ OneEvent
        /\ Moves(f, "reprobe")
        /\ untold \/ ~mem[f].c <=> untold'
        /\ untold' \in BOOLEAN
        /\ UNCHANGED mem
  /\ UNCHANGED <<meta, early, published, processes, admission, launcher, asking, unread, allowed, spawns>>

LEMMA RereadsMetaIs ==
  ASSUME NEW f \in Fibers, RereadsMeta(f)
  PROVE  RereadsMetaDoes(f)
BY Zenon DEF RereadsMeta, RereadsMetaDoes

WatchUnreadDoes ==
  /\ pc["watch"] = "read"
  /\ \/ unread + 1 < ReadLimit /\ unread' = unread + 1 /\ UNCHANGED <<row, lease, watched, untold>>
     \/ /\ SettleWatched
        /\ untold \/ watched <=> untold'
        /\ untold' \in BOOLEAN
  /\ Moves("watch", "idle")
  /\ UNCHANGED <<taskFiles, processes, pending, reserving, starting, launcher, mem, asking, allowed,
                 spawns, early, events>>

LEMMA WatchUnreadIs ==
  ASSUME WatchUnread
  PROVE  WatchUnreadDoes
BY Zenon DEF WatchUnread, WatchUnreadDoes

\* What a reader leaves alone.
ReaderKeeps(f) ==
  /\ UNCHANGED <<published, wrk, copy, child, blind, row, lease, pending, reserving, starting, watched,
                 lpc, lmeta, asking, unread, allowed, spawns, early>>
  /\ (untold => untold') /\ (untold \in BOOLEAN => untold' \in BOOLEAN)
  /\ WritesVerdict(f) \/ meta' = meta
  /\ pc[f] \notin {"idle", "done", "settle"}

LEMMA ReaderKeepsAll ==
  ASSUME NEW f \in Fibers, ReadStep(f)
  PROVE  ReaderKeeps(f)
<1> USE DEF Shared, processes, admission, launcher, rest
<1>1. CASE RereadsMeta(f)
  <2>1. /\ UNCHANGED <<published, wrk, copy, child, blind, row, lease, pending, reserving, starting, watched,
                        lpc, lmeta, asking, unread, allowed, spawns, early, meta>>
        /\ untold' = untold \/ ((untold \/ ~mem[f].c <=> untold') /\ untold' \in BOOLEAN)
        /\ pc[f] = "reread"
    BY <1>1, RereadsMetaIs, Zenon DEF RereadsMetaDoes
  <2> QED
    BY <2>1 DEF ReaderKeeps
<1>2. CASE ReadsMeta(f) \/ ReadFails(f)
  BY <1>2 DEF ReaderKeeps, ReadsMeta, ReadFails
<1>3. CASE ProbesWorker(f) \/ Reprobes(f)
  BY <1>3 DEF ReaderKeeps, ProbesWorker, Reprobes
<1>4. CASE WritesVerdict(f)
  BY <1>4 DEF ReaderKeeps, WritesVerdict
<1>5. CASE WriteFails(f)
  BY <1>5 DEF ReaderKeeps, WriteFails
<1> QED
  BY <1>1, <1>2, <1>3, <1>4, <1>5 DEF ReadStep

WorkerDiesDoes ==
  /\ WorkerAlive
  /\ OneEvent
  /\ wrk' = "crashed"
  /\ blind \/ wrk = "launched" <=> blind'
  /\ blind' \in BOOLEAN
  /\ UNCHANGED <<meta, copy, child, Runtime>>

LEMMA WorkerDiesIs ==
  ASSUME WorkerDies
  PROVE  WorkerDiesDoes
BY Zenon DEF WorkerDies, WorkerDiesDoes

Named == \/ mem["cancel"].w /\ WorkerAlive
         \/ mem["cancel"].c /\ child = "live"

CancelDecidesDoes ==
  /\ pc["cancel"] = "back"
  /\ \/ /\ mem["cancel"].state \in Terminal
        /\ Moves("cancel", "settle")
        /\ UNCHANGED <<mem, blind>>
     \/ /\ mem["cancel"].state = "waiting"
        /\ mem' = [mem EXCEPT !["cancel"].state = "cancelled"]
        /\ Moves("cancel", "record")
        /\ UNCHANGED blind
     \/ /\ mem["cancel"].state \in {"running", "termination_unverified"}
        /\ Named
        /\ Moves("cancel", "stop")
        /\ blind \/ ~mem["cancel"].c <=> blind'
        /\ blind' \in BOOLEAN
        /\ UNCHANGED mem
     \/ /\ mem["cancel"].state \in {"running", "termination_unverified"}
        /\ ~Named
        /\ mem' = [mem EXCEPT !["cancel"].state = "termination_unverified"]
        /\ Moves("cancel", "record")
        /\ UNCHANGED blind
  /\ UNCHANGED <<taskFiles, wrk, copy, child, admission, launcher, rest, early, events>>

LEMMA CancelDecidesIs ==
  ASSUME CancelDecides
  PROVE  CancelDecidesDoes
BY Zenon DEF CancelDecides, CancelDecidesDoes, Named

-----------------------------------------------------------------------------
(* The types are kept.                                                     *)

LEMMA FileTypesKept ==
  ASSUME FileTypes, FlagTypes, PlaceTypes, TaskNext
  PROVE  FileTypes'
<1> USE DEF FileTypes, Meta, NoMeta, MetaStates, Terminal, Fibers, taskFiles, processes, admission,
            launcher, fibers, rest, Shared, Unseen, Runtime
<1>0. ReadMeta \in Meta
  BY ReadMetaIs
<1>a. /\ NoMeta \in Meta /\ [NoMeta EXCEPT !.state = "waiting"] \in Meta
      /\ [NoMeta EXCEPT !.state = "failed"] \in Meta
  OBVIOUS
<1>b. ASSUME NEW m \in Meta
      PROVE  [m EXCEPT !.state = "failed"] \in Meta /\ [m EXCEPT !.state = "running"] \in Meta
  OBVIOUS
<1>c. FailWaiting \/ RecordFailure => meta' \in Meta
  BY <1>b DEF FailWaiting, RecordFailure
<1> HIDE DEF Meta, NoMeta
<1> USE DEF Moves
<1>1. CASE ParkStep
  BY <1>1, <1>a, <1>c DEF ParkStep, EnqueueTask, Reserve, Retire, Grant
<1>2. CASE LaunchStep
  <2>1. CASE StartReads
    BY <2>1, <1>0, <1>a, <1>c, StartReadsIs DEF StartReadsDoes, StartFails
  <2>2. CASE PassGate \/ CheckCapacity
    BY <2>2, <1>a, <1>c DEF PassGate, CheckCapacity, StartFails
  <2>3. CASE StartWrites
    BY <2>3, <1>a, <1>b, <1>c DEF StartWrites, StartFails
  <2>4. CASE SpawnWorker \/ PublishWorker
    BY <2>4, <1>a, <1>c DEF SpawnWorker, PublishWorker, StartFails
  <2> QED
    BY <2>1, <2>2, <2>3, <2>4, <1>2 DEF LaunchStep
<1>3. CASE AllWorker
  <2>1. CASE WorkerDies
    BY <2>1, WorkerDiesIs DEF WorkerDiesDoes
  <2>2. CASE WorkerPersists \/ PersistChild \/ WorkerFinishes
    <3>1. [state |-> copy.state, w |-> TRUE, c |-> copy.c] \in Meta
      BY DEF Meta
    <3> QED
      BY <2>2, <3>1 DEF WorkerPersists, PersistChild, WorkerFinishes, Persist
  <2>3. CASE WorkerLoads
    BY <2>3 DEF WorkerLoads, Meta
  <2>4. CASE SpawnChild \/ ChildExits \/ ObserveExit \/ TimeOut
    BY <2>4 DEF SpawnChild, ChildExits, ObserveExit, TimeOut
  <2> QED
    BY <2>1, <2>2, <2>3, <2>4, <1>3 DEF AllWorker, WorkerStep
<1>4. CASE ReaderStep
  <2>1. ASSUME NEW f \in Fibers, BeginRead(f)
        PROVE  FileTypes'
    BY <2>1, BeginReadIs DEF BeginReadDoes
  <2>2. ASSUME NEW f \in Fibers, ReadsMeta(f) \/ RereadsMeta(f) \/ ReadFails(f) \/ WriteFails(f)
        PROVE  FileTypes'
    BY <2>2, <1>0, <1>a, RereadsMetaIs DEF ReadsMeta, RereadsMetaDoes, ReadFails, WriteFails
  <2>3. ASSUME NEW f \in Fibers, ProbesWorker(f) \/ Reprobes(f)
        PROVE  FileTypes'
    <3>1. ASSUME NEW s \in MetaStates
          PROVE  [mem EXCEPT ![f].state = s] \in [Fibers -> Meta]
      BY <3>1 DEF Meta
    <3>2. Verdict(f) \in MetaStates
      <4>1. mem[f].state \in MetaStates
        BY DEF Meta
      <4> QED
        BY <4>1 DEF Verdict
    <3> QED
      BY <2>3, <3>1, <3>2 DEF ProbesWorker, Reprobes, Unverifiable
  <2>4. ASSUME NEW f \in Fibers, WritesVerdict(f)
        PROVE  FileTypes'
    BY <2>4 DEF WritesVerdict
  <2>5. CASE StatusReturns \/ WatchUnread \/ WatchSettles
    BY <2>5, <1>a, WatchUnreadIs DEF StatusReturns, WatchUnreadDoes, WatchSettles
  <2> QED
    BY <2>1, <2>2, <2>3, <2>4, <2>5, <1>4 DEF ReaderStep, ReadStep
<1>5. CASE CancelStep
  <2>1. CASE CancelDecides
    BY <2>1, CancelDecidesIs DEF CancelDecidesDoes, Meta
  <2>2. CASE CancelStops \/ CancelRecords \/ CancelSettles
    BY <2>2, <1>a DEF CancelStops, CancelRecords, CancelSettles
  <2>3. CASE CancelVerifies
    BY <2>3 DEF CancelVerifies, Meta
  <2> QED
    BY <2>1, <2>2, <2>3, <1>5 DEF CancelStep
<1>6. CASE Others
  BY <1>6, <1>a, <1>c DEF Others, CrashRuntime, RetireLost, CwdMoves, RecoverParked
<1> QED
  BY <1>1, <1>2, <1>3, <1>4, <1>5, <1>6 DEF TaskNext, ParkStep, AllWorker, ReaderStep, Others

LEMMA FlagTypesKept ==
  ASSUME FlagTypes, TaskNext
  PROVE  FlagTypes'
<1> USE DEF FlagTypes, taskFiles, processes, admission, launcher, fibers, rest, Shared, Unseen, Runtime
<1>0. TRUE \in BOOLEAN /\ FALSE \in BOOLEAN
  OBVIOUS
<1>1. CASE EnqueueTask \/ Grant
  BY <1>1, <1>0, ZenonT(60) DEF EnqueueTask, Grant
<1>2. CASE Reserve \/ Retire
  BY <1>2, <1>0, ZenonT(60) DEF Reserve, Retire, Abandon
<1>3. CASE PassGate \/ StartWrites \/ PublishWorker
  BY <1>3, <1>0, ZenonT(60) DEF PassGate, StartWrites, PublishWorker, StartFails, Abandon
<1>4. CASE CheckCapacity \/ SpawnWorker
  BY <1>4, <1>0, ZenonT(60) DEF CheckCapacity, SpawnWorker, StartFails, Abandon
<1>5. CASE StartReads
  BY <1>5, <1>0, StartReadsIs, ZenonT(60) DEF StartReadsDoes, StartFails, Abandon
<1>6. CASE WorkerStep
  <2>1. CASE PersistChild
    <3>1. UNCHANGED <<published, pending, reserving, starting, watched, asking, allowed, early, blind>>
      BY <2>1 DEF PersistChild
    <3>2. untold' = untold \/ untold' = TRUE
      BY <2>1, ZenonT(60) DEF PersistChild
    <3>3. untold' \in BOOLEAN
      BY <3>2, <1>0, ZenonT(60)
    <3> QED
      BY <3>1, <3>3
  <2>2. CASE ~PersistChild
    <3>1. UNCHANGED <<published, pending, reserving, starting, watched, asking, allowed, early, blind, untold>>
      BY <2>2, <1>6 DEF WorkerStep, WorkerLoads, WorkerPersists, SpawnChild, ChildExits, ObserveExit, WorkerFinishes
    <3> QED
      BY <3>1
  <2> QED
    BY <2>1, <2>2
<1>7. CASE TimeOut
  <2>1. UNCHANGED <<published, pending, reserving, starting, watched, asking, allowed, early, blind, untold>>
    BY <1>7 DEF TimeOut
  <2> QED
    BY <2>1
<1>8. CASE WorkerDies
  BY <1>8, WorkerDiesIs, ZenonT(60) DEF WorkerDiesDoes
<1>9. ASSUME NEW f \in Fibers, BeginRead(f)
      PROVE  FlagTypes'
  BY <1>9, BeginReadIs, ZenonT(60) DEF BeginReadDoes
<1>10. ASSUME NEW f \in Fibers, ReadStep(f)
       PROVE  FlagTypes'
  BY <1>10, ReaderKeepsAll, ZenonT(60) DEF ReaderKeeps
<1>11. CASE StatusReturns \/ WatchUnread \/ WatchSettles
  <2>1. CASE WatchUnread
    BY <2>1, <1>0, WatchUnreadIs, ZenonT(60) DEF WatchUnreadDoes, SettleWatched
  <2>2. CASE StatusReturns \/ WatchSettles
    BY <2>2, <1>0, ZenonT(60) DEF StatusReturns, WatchSettles, SettleWatched
  <2> QED
    BY <1>11, <2>1, <2>2
<1>12. CASE CancelDecides
  BY <1>12, CancelDecidesIs, ZenonT(60) DEF CancelDecidesDoes
<1>13. CASE CancelStops \/ CancelVerifies \/ CancelRecords
  <2>1. UNCHANGED <<published, pending, reserving, starting, watched, asking, allowed, early, blind, untold>>
    BY <1>13 DEF CancelStops, CancelVerifies, CancelRecords
  <2> QED
    BY <2>1
<1>14. CASE CancelSettles
  BY <1>14, <1>0, ZenonT(60) DEF CancelSettles, SettleWatched, Abandon
<1>15. CASE CrashRuntime
  BY <1>15, <1>0, ZenonT(60) DEF CrashRuntime
<1>16. CASE RetireLost \/ RecoverParked
  BY <1>16, <1>0, ZenonT(60) DEF RetireLost, RecoverParked
<1>17. CASE CwdMoves
  <2>1. (allowed' <=> ~allowed) /\ allowed' \in BOOLEAN
    BY <1>17, ZenonT(60) DEF CwdMoves
  <2> QED
    BY <1>17, <2>1, ZenonT(60) DEF CwdMoves
<1> QED
  BY <1>1, <1>2, <1>3, <1>4, <1>5, <1>6, <1>7, <1>8, <1>9, <1>10, <1>11, <1>12, <1>13, <1>14, <1>15, <1>16, <1>17,
     ZenonT(60)
     DEF TaskNext, LaunchStep, CancelStep

LEMMA PlaceTypesKept ==
  ASSUME PlaceTypes, TaskNext
  PROVE  PlaceTypes'
<1> USE TaskAssumption DEF PlaceTypes, taskFiles, processes, admission, launcher, fibers, rest, Shared, Unseen,
                           Runtime, Moves, OneEvent
<1>1. CASE ParkStep
  BY <1>1 DEF ParkStep, EnqueueTask, Reserve, Retire, Grant, CancelRow
<1>2. CASE LaunchStep
  <2>1. CASE StartReads
    BY <2>1, StartReadsIs DEF StartReadsDoes, StartFails, SettleLease
  <2>2. CASE ~StartReads
    BY <2>2, <1>2 DEF LaunchStep, PassGate, CheckCapacity, StartWrites, SpawnWorker, PublishWorker,
                  StartFails, SettleLease
  <2> QED
    BY <2>1, <2>2
<1>3. CASE AllWorker
  <2>1. CASE WorkerDies
    BY <2>1, WorkerDiesIs DEF WorkerDiesDoes
  <2>2. CASE ~WorkerDies
    BY <2>2, <1>3 DEF AllWorker, WorkerStep, WorkerLoads, WorkerPersists, SpawnChild, PersistChild, ChildExits,
              ObserveExit, WorkerFinishes, TimeOut
  <2> QED
    BY <2>1, <2>2
<1>4. CASE ReaderStep
  <2>1. ASSUME NEW f \in Fibers, BeginRead(f)
        PROVE  PlaceTypes'
    BY <2>1, BeginReadIs DEF BeginReadDoes
  <2>2. ASSUME NEW f \in Fibers, ReadStep(f)
        PROVE  PlaceTypes'
    <3>1. CASE RereadsMeta(f)
      BY <3>1, RereadsMetaIs DEF RereadsMetaDoes
    <3>2. CASE ~RereadsMeta(f)
      BY <2>2, <3>2 DEF ReadStep, ReadsMeta, ProbesWorker, Reprobes, Unverifiable, WritesVerdict, ReadFails, WriteFails
    <3> QED
      BY <3>1, <3>2
  <2>3. CASE StatusReturns \/ WatchSettles
    BY <2>3 DEF StatusReturns, WatchSettles, SettleWatched, SettleLease
  <2>4. CASE WatchUnread
    <3>1. /\ pc' = [pc EXCEPT !["watch"] = "idle"]
          /\ \/ unread + 1 < ReadLimit /\ unread' = unread + 1 /\ UNCHANGED <<row, lease>>
             \/ unread' = 0 /\ (SettleLease \/ UNCHANGED <<row, lease>>)
          /\ UNCHANGED <<wrk, child, lpc, events>>
      BY <2>4, WatchUnreadIs, Zenon DEF WatchUnreadDoes, SettleWatched
    <3>2. unread' \in 0..(ReadLimit - 1)
      BY <3>1
    <3>3. row' \in {"none", "waiting", "running", "done"} /\ lease' \in {"none", "held", "settled", "leaked", "lost"}
      BY <3>1 DEF SettleLease
    <3> QED
      BY <3>1, <3>2, <3>3
  <2> QED
    BY <2>1, <2>2, <2>3, <2>4, <1>4 DEF ReaderStep
<1>5. CASE CancelStep
  <2>1. CASE CancelDecides
    BY <2>1, CancelDecidesIs DEF CancelDecidesDoes
  <2>2. CASE ~CancelDecides
    BY <2>2, <1>5 DEF CancelStep, CancelStops, CancelVerifies, CancelRecords, CancelSettles, SettleWatched,
                  SettleLease, CancelRow
  <2> QED
    BY <2>1, <2>2
<1>6. CASE Others
  BY <1>6 DEF Others, CrashRuntime, RetireLost, CwdMoves, RecoverParked, CancelRow
<1> QED
  BY <1>1, <1>2, <1>3, <1>4, <1>5, <1>6 DEF TaskNext, ParkStep, AllWorker, ReaderStep, Others

-----------------------------------------------------------------------------
(* The launcher and the processes.                                         *)

LEMMA LaunchOrderKept ==
  ASSUME FlagTypes, PlaceTypes, LaunchOrder, LeaseOfRow, TaskNext
  PROVE  LaunchOrder' /\ LeaseOfRow'
<1> USE DEF PlaceTypes, LaunchOrder, LeaseOfRow, taskFiles, processes, admission, launcher, fibers, rest, Shared,
            Unseen, Runtime
<1>1. CASE ParkStep
  BY <1>1 DEF ParkStep, EnqueueTask, Reserve, Retire, Grant, CancelRow, Abandon
<1>2. CASE LaunchStep
  <2>1. CASE StartReads
    <3>1. lpc = "read" /\ UNCHANGED <<wrk, spawns, published, watched>>
      BY <2>1, StartReadsIs DEF StartReadsDoes
    <3>2. CASE lpc' = "write" /\ UNCHANGED <<row, lease, starting>>
      BY <3>1, <3>2
    <3>3. CASE lpc' = "idle" /\ SettleLease
      BY <3>1, <3>3 DEF SettleLease
    <3> QED
      BY <2>1, <3>2, <3>3, StartReadsIs, Zenon DEF StartReadsDoes, StartFails
  <2>2. CASE PassGate \/ CheckCapacity
    BY <2>2 DEF PassGate, CheckCapacity, StartFails, SettleLease, Abandon
  <2>3. CASE StartWrites \/ SpawnWorker
    BY <2>3 DEF StartWrites, SpawnWorker, StartFails, SettleLease, Abandon
  <2>4. CASE PublishWorker
    BY <2>4 DEF PublishWorker, StartFails, SettleLease, Abandon
  <2> QED
    BY <2>1, <2>2, <2>3, <2>4, <1>2 DEF LaunchStep
<1>3. CASE AllWorker
  <2>1. CASE WorkerDies
    BY <2>1, WorkerDiesIs DEF WorkerDiesDoes, WorkerAlive
  <2>2. CASE ~WorkerDies
    BY <2>2, <1>3 DEF AllWorker, WorkerStep, WorkerLoads, WorkerPersists, SpawnChild, PersistChild, ChildExits,
              ObserveExit, WorkerFinishes, TimeOut
  <2> QED
    BY <2>1, <2>2
<1>4. CASE ReaderStep
  <2>1. ASSUME NEW f \in Fibers, BeginRead(f)
        PROVE  LaunchOrder' /\ LeaseOfRow'
    BY <2>1, BeginReadIs DEF BeginReadDoes
  <2>2. ASSUME NEW f \in Fibers, ReadStep(f)
        PROVE  LaunchOrder' /\ LeaseOfRow'
    BY <2>2, ReaderKeepsAll DEF ReaderKeeps
  <2>3. CASE StatusReturns \/ WatchSettles
    BY <2>3 DEF StatusReturns, WatchSettles, SettleWatched, SettleLease
  <2>4. CASE WatchUnread
    <3>1. UNCHANGED <<lpc, starting, wrk, spawns, published>>
      BY <2>4, WatchUnreadIs DEF WatchUnreadDoes
    <3>2. UNCHANGED <<row, lease, watched>> \/ (watched /\ SettleLease /\ watched' = FALSE)
      BY <2>4, WatchUnreadIs, Zenon DEF WatchUnreadDoes, SettleWatched
    <3> QED
      BY <3>1, <3>2 DEF SettleLease
  <2> QED
    BY <2>1, <2>2, <2>3, <2>4, <1>4 DEF ReaderStep
<1>5. CASE CancelStep
  <2>1. CASE CancelDecides
    BY <2>1, CancelDecidesIs DEF CancelDecidesDoes
  <2>2. CASE CancelStops
    BY <2>2 DEF CancelStops, WorkerAlive
  <2>3. CASE CancelVerifies \/ CancelRecords \/ CancelSettles
    BY <2>3 DEF CancelVerifies, CancelRecords, CancelSettles, SettleWatched, SettleLease, CancelRow, Abandon
  <2> QED
    BY <2>1, <2>2, <2>3, <1>5 DEF CancelStep
<1>6. CASE Others
  BY <1>6 DEF Others, CrashRuntime, RetireLost, CwdMoves, RecoverParked, CancelRow, Abandon
<1> QED
  BY <1>1, <1>2, <1>3, <1>4, <1>5, <1>6 DEF TaskNext, ParkStep, AllWorker, ReaderStep, Others

LEMMA PidsKnownKept ==
  ASSUME FileTypes, FlagTypes, PlaceTypes, LaunchOrder, PidsKnown, TaskNext
  PROVE  PidsKnown'
<1> USE DEF FileTypes, Meta, PlaceTypes, PidsKnown, taskFiles, processes, admission, launcher, fibers, rest, Shared,
            Unseen, Runtime, NoMeta, Fibers
<1>0. ReadMeta.c = meta.c
  BY ReadMetaIs
<1>a. ASSUME FailWaiting \/ RecordFailure
      PROVE  meta'.c \in {meta.c, lmeta.c}
  BY <1>a DEF FailWaiting, RecordFailure
<1>1. CASE ParkStep
  BY <1>1, <1>a DEF ParkStep, EnqueueTask, Reserve, Retire, Grant
<1>2. CASE LaunchStep
  <2>1. CASE StartReads
    <3>1. UNCHANGED <<wrk, copy, child, mem>>
      BY <2>1, StartReadsIs DEF StartReadsDoes
    <3>2. CASE lmeta' = ReadMeta /\ UNCHANGED <<meta, admission>>
      BY <3>1, <3>2, <1>0
    <3>3. CASE lmeta' = [state |-> "none", w |-> FALSE, c |-> FALSE] /\ FailWaiting
      BY <3>1, <3>3, <1>a
    <3> QED
      BY <2>1, <3>2, <3>3, StartReadsIs, Zenon DEF StartReadsDoes, StartFails
  <2>2. CASE PassGate \/ CheckCapacity
    BY <2>2, <1>a DEF PassGate, CheckCapacity, StartFails
  <2>3. CASE StartWrites
    BY <2>3, <1>a DEF StartWrites, StartFails
  <2>4. CASE SpawnWorker \/ PublishWorker
    BY <2>4, <1>a DEF LaunchOrder, SpawnWorker, PublishWorker, StartFails
  <2> QED
    BY <2>1, <2>2, <2>3, <2>4, <1>2 DEF LaunchStep
<1>3. CASE AllWorker
  <2>1. CASE WorkerDies
    BY <2>1, WorkerDiesIs DEF WorkerDiesDoes, WorkerAlive
  <2>2. CASE WorkerLoads \/ WorkerPersists \/ PersistChild \/ WorkerFinishes
    BY <2>2 DEF WorkerLoads, WorkerPersists, PersistChild, WorkerFinishes, Persist
  <2>3. CASE SpawnChild \/ ChildExits \/ ObserveExit \/ TimeOut
    BY <2>3 DEF SpawnChild, ChildExits, ObserveExit, TimeOut
  <2> QED
    BY <2>1, <2>2, <2>3, <1>3 DEF AllWorker, WorkerStep
<1>4. CASE ReaderStep
  <2>1. ASSUME NEW f \in Fibers, BeginRead(f)
        PROVE  PidsKnown'
    BY <2>1, BeginReadIs DEF BeginReadDoes
  <2>2. ASSUME NEW f \in Fibers, ReadStep(f)
        PROVE  PidsKnown'
    <3>1. /\ UNCHANGED <<wrk, copy, child, lmeta>>
          /\ meta' = meta \/ meta' = mem[f]
      BY <2>2, ReaderKeepsAll DEF ReaderKeeps, WritesVerdict
    <3>2. \A g \in Fibers : mem'[g].c => child # "none"
      <4>1. CASE ReadsMeta(f) \/ RereadsMeta(f) \/ ReadFails(f) \/ WriteFails(f)
        BY <4>1, <1>0, RereadsMetaIs DEF ReadsMeta, RereadsMetaDoes, ReadFails, WriteFails
      <4>2. CASE ProbesWorker(f) \/ Reprobes(f) \/ WritesVerdict(f)
        BY <4>2 DEF ProbesWorker, Reprobes, Unverifiable, WritesVerdict
      <4> QED
        BY <4>1, <4>2, <2>2 DEF ReadStep
    <3> QED
      BY <3>1, <3>2
  <2>3. CASE StatusReturns \/ WatchSettles
    BY <2>3 DEF StatusReturns, WatchSettles
  <2>4. CASE WatchUnread
    BY <2>4, WatchUnreadIs DEF WatchUnreadDoes
  <2> QED
    BY <2>1, <2>2, <2>3, <2>4, <1>4 DEF ReaderStep
<1>5. CASE CancelStep
  <2>1. CASE CancelDecides
    BY <2>1, CancelDecidesIs DEF CancelDecidesDoes
  <2>2. CASE CancelStops
    BY <2>2 DEF CancelStops, WorkerAlive
  <2>3. CASE CancelVerifies \/ CancelRecords \/ CancelSettles
    BY <2>3 DEF CancelVerifies, CancelRecords, CancelSettles
  <2> QED
    BY <2>1, <2>2, <2>3, <1>5 DEF CancelStep
<1>6. CASE Others
  BY <1>6, <1>a DEF Others, CrashRuntime, RetireLost, CwdMoves, RecoverParked
<1> QED
  BY <1>1, <1>2, <1>3, <1>4, <1>5, <1>6 DEF TaskNext, ParkStep, AllWorker, ReaderStep, Others

\* task.json is not forgotten, and a task that has begun does not wait again.
MetaGoesOn ==
  /\ meta'.state = "none" => meta.state = "none"
  /\ meta.state \in Begun => meta'.state \in Begun

LEMMA StagesKept ==
  ASSUME FileTypes, FlagTypes, PlaceTypes, LaunchOrder, Stages, \A f \in Fibers : ReadersPast(f), TaskNext
  PROVE  Stages' /\ MetaGoesOn
<1> USE DEF FileTypes, Meta, PlaceTypes, LaunchOrder, Stages, MetaGoesOn, Begun, Terminal, WorkerAlive, taskFiles,
            processes, admission, launcher, fibers, rest, Shared, Unseen, Runtime
<1>a. ASSUME FailWaiting
      PROVE  meta' = meta \/ (meta.state = "waiting" /\ meta'.state = "failed")
  BY <1>a DEF FailWaiting
<1>b. ASSUME RecordFailure
      PROVE  meta' = meta \/ meta'.state = "failed"
  BY <1>b DEF RecordFailure
<1>1. CASE ParkStep
  <2>1. CASE Reserve
    <3>1. asking /\ asking' = FALSE /\ meta'.state \in {"none", "waiting", "failed"}
      BY <2>1 DEF Reserve, NoMeta
    <3> QED
      BY <2>1, <3>1 DEF Reserve, CancelRow
  <2>2. CASE EnqueueTask \/ Retire \/ Grant
    BY <2>2, <1>a DEF EnqueueTask, Retire, Grant
  <2> QED
    BY <2>1, <2>2, <1>1 DEF ParkStep
<1>2. CASE LaunchStep
  <2>1. CASE StartReads
    <3>1. lpc = "read" /\ UNCHANGED <<wrk, copy, asking>>
      BY <2>1, StartReadsIs DEF StartReadsDoes
    <3>2. CASE meta.state = "waiting" /\ lpc' = "write" /\ UNCHANGED <<meta, admission>>
      BY <3>1, <3>2
    <3>3. CASE lpc' = "idle" /\ FailWaiting /\ row' \in {row, "done"}
      BY <3>1, <3>3, <1>a
    <3> QED
      BY <2>1, <3>2, <3>3, StartReadsIs DEF StartReadsDoes, StartFails, SettleLease
  <2>2. CASE PassGate \/ CheckCapacity
    BY <2>2, <1>a DEF PassGate, CheckCapacity, StartFails, SettleLease
  <2>3. CASE StartWrites
    <3>1. meta' = meta \/ meta'.state \in {"running", "failed"}
      BY <2>3, <1>b DEF StartWrites
    <3> QED
      BY <2>3, <3>1 DEF StartWrites, StartFails, SettleLease
  <2>4. CASE SpawnWorker
    BY <2>4, <1>b DEF SpawnWorker, StartFails, SettleLease
  <2>5. CASE PublishWorker
    BY <2>5, <1>b DEF PublishWorker, StartFails, SettleLease
  <2> QED
    BY <2>1, <2>2, <2>3, <2>4, <2>5, <1>2 DEF LaunchStep
<1>3. CASE AllWorker
  <2>1. CASE WorkerDies
    BY <2>1, WorkerDiesIs DEF WorkerDiesDoes
  <2>2. CASE WorkerLoads
    BY <2>2 DEF WorkerLoads
  <2>3. CASE WorkerPersists \/ PersistChild
    BY <2>3 DEF WorkerPersists, PersistChild, Persist
  <2>4. CASE WorkerFinishes
    BY <2>4 DEF WorkerFinishes, Persist
  <2>5. CASE SpawnChild \/ ChildExits \/ ObserveExit \/ TimeOut
    BY <2>5 DEF SpawnChild, ChildExits, ObserveExit, TimeOut
  <2> QED
    BY <2>1, <2>2, <2>3, <2>4, <2>5, <1>3 DEF AllWorker, WorkerStep
<1>4. CASE ReaderStep
  <2>1. ASSUME NEW f \in Fibers, BeginRead(f)
        PROVE  UNCHANGED <<meta, wrk, copy, row, lpc, asking>>
    BY <2>1, BeginReadIs DEF BeginReadDoes
  <2>2. ASSUME NEW f \in Fibers, ReadStep(f)
        PROVE  Stages' /\ MetaGoesOn
    <3>1. UNCHANGED <<wrk, copy, row, lpc, asking>> /\ (WritesVerdict(f) \/ meta' = meta)
      BY <2>2, ReaderKeepsAll DEF ReaderKeeps
    <3>2. CASE WritesVerdict(f)
      <4>1. meta'.state \in Begun /\ meta.state # "none"
        BY <3>2 DEF WritesVerdict, ReadersPast
      <4> QED
        BY <3>1, <4>1
    <3> QED
      BY <3>1, <3>2
  <2>3. CASE StatusReturns \/ WatchUnread \/ WatchSettles
    <3>1. UNCHANGED <<meta, wrk, copy, lpc, asking>> /\ row' \in {row, "done"}
      BY <2>3, WatchUnreadIs DEF StatusReturns, WatchUnreadDoes, WatchSettles, SettleWatched, SettleLease
    <3> QED
      BY <3>1
  <2> QED
    BY <2>1, <2>2, <2>3, <1>4 DEF ReaderStep
<1>5. CASE CancelStep
  <2>1. CASE CancelDecides
    BY <2>1, CancelDecidesIs DEF CancelDecidesDoes
  <2>2. CASE CancelStops
    BY <2>2 DEF CancelStops
  <2>3. CASE CancelRecords
    <3>1. meta'.state \in Begun /\ meta.state # "none"
      BY <2>3 DEF CancelRecords, ReadersPast, Fibers
    <3> QED
      BY <2>3, <3>1 DEF CancelRecords
  <2>4. CASE CancelVerifies \/ CancelSettles
    BY <2>4 DEF CancelVerifies, CancelSettles, SettleWatched, SettleLease, CancelRow
  <2> QED
    BY <2>1, <2>2, <2>3, <2>4, <1>5 DEF CancelStep
<1>6. CASE Others
  BY <1>6, <1>a DEF Others, CrashRuntime, RetireLost, CwdMoves, RecoverParked, CancelRow
<1> QED
  BY <1>1, <1>2, <1>3, <1>4, <1>5, <1>6 DEF TaskNext, ParkStep, AllWorker, ReaderStep, Others

LEMMA ReadersPastKept ==
  ASSUME FileTypes, FlagTypes, PlaceTypes, LaunchOrder, Stages, \A f \in Fibers : ReadersPast(f), TaskNext
  PROVE  \A f \in Fibers : ReadersPast(f)'
<1>0. MetaGoesOn
  BY StagesKept
<1> USE DEF Moves
<1>1. ASSUME NEW f \in Fibers, pc'[f] = pc[f], mem'[f] = mem[f]
      PROVE  ReadersPast(f)'
  BY <1>0, <1>1 DEF ReadersPast, MetaGoesOn
<1>2. ASSUME NEW f \in Fibers, pc'[f] \in {"idle", "done"}, pc'[f] = "done" => pc[f] # "idle"
      PROVE  ReadersPast(f)'
  BY <1>0, <1>2 DEF ReadersPast, MetaGoesOn
<1>3. CASE UNCHANGED <<pc, mem>>
  BY <1>1, <1>3
<1> USE DEF FileTypes, PlaceTypes
<1>4. ASSUME NEW f \in Fibers, BeginRead(f)
      PROVE  \A g \in Fibers : ReadersPast(g)'
  <2>1. pc' = [pc EXCEPT ![f] = "read"] /\ mem' = mem /\ meta' = meta /\ meta.state # "none"
    BY <1>4, BeginReadIs DEF BeginReadDoes
  <2>2. ReadersPast(f)'
    BY <2>1 DEF ReadersPast
  <2> QED
    BY <2>1, <2>2, <1>1
<1>5. ASSUME NEW f \in Fibers, ReadStep(f)
      PROVE  \A g \in Fibers : ReadersPast(g)'
  <2>a. ReadMeta.state = meta.state
    BY ReadMetaIs
  <2>b. ReadersPast(f)
    OBVIOUS
  <2>1. \A g \in Fibers \ {f} : pc'[g] = pc[g] /\ mem'[g] = mem[g]
    BY <1>5, RereadsMetaIs DEF ReadStep, ReadsMeta, ProbesWorker, RereadsMetaDoes, Reprobes, WritesVerdict, ReadFails,
                               WriteFails, Unverifiable
  <2>2. ASSUME ReadsMeta(f) PROVE ReadersPast(f)'
    BY <2>2, <2>a, <2>b DEF ReadsMeta, ReadersPast, Begun
  <2>3. ASSUME RereadsMeta(f) PROVE ReadersPast(f)'
    <3>1. /\ pc[f] = "reread" /\ meta' = meta
          /\ \/ mem'[f] = ReadMeta
             \/ mem'[f] = mem[f]
          /\ pc'[f] \in {"back", "reprobe"}
      BY <2>3, RereadsMetaIs DEF RereadsMetaDoes
    <3>2. mem[f].state \in Begun /\ meta.state \in Begun /\ meta.state # "none"
      BY <3>1, <2>b DEF ReadersPast
    <3>3. mem'[f].state \in Begun
      BY <3>1, <3>2, <2>a
    <3> QED
      BY <3>1, <3>2, <3>3 DEF ReadersPast
  <2>4. ASSUME ProbesWorker(f) PROVE ReadersPast(f)'
    BY <2>4, <2>b DEF ProbesWorker, Unverifiable, ReadersPast, Begun, Meta
  <2>5. ASSUME Reprobes(f) PROVE ReadersPast(f)'
    <3>1. Verdict(f) \in {mem[f].state, "termination_unverified", "failed"}
      BY DEF Verdict
    <3>2. /\ pc[f] = "reprobe" /\ meta' = meta /\ pc'[f] \in {"back", "write"}
          /\ mem'[f].state \in {mem[f].state, "termination_unverified", "failed"}
      BY <2>5, <3>1 DEF Reprobes, Unverifiable, Meta
    <3>3. mem[f].state \in Begun /\ meta.state \in Begun /\ meta.state # "none"
      BY <3>2, <2>b DEF ReadersPast
    <3>4. mem'[f].state \in Begun
      BY <3>2, <3>3 DEF Begun, Terminal
    <3> QED
      BY <3>2, <3>3, <3>4 DEF ReadersPast
  <2>6. ASSUME WritesVerdict(f) PROVE ReadersPast(f)'
    <3>1. pc[f] = "write" /\ pc'[f] = "back" /\ mem'[f] = mem[f] /\ meta' = mem[f]
      BY <2>6 DEF WritesVerdict
    <3>2. mem[f].state \in Begun /\ mem[f].state # "none"
      BY <3>1, <2>b DEF ReadersPast, Begun, Terminal
    <3> QED
      BY <3>1, <3>2 DEF ReadersPast
  <2>7. ASSUME ReadFails(f) \/ WriteFails(f) PROVE ReadersPast(f)'
    <3>1. pc'[f] = "idle"
      BY <2>7 DEF ReadFails, WriteFails
    <3> QED
      BY <3>1, <1>2
  <2>8. ReadersPast(f)'
    BY <2>2, <2>3, <2>4, <2>5, <2>6, <2>7, <1>5 DEF ReadStep
  <2> QED
    BY <2>1, <2>8, <1>1
<1>6. CASE StatusReturns \/ WatchUnread \/ WatchSettles
  <2>1. PICK f \in Fibers : pc'[f] = "idle" /\ \A g \in Fibers \ {f} : pc'[g] = pc[g] /\ mem'[g] = mem[g]
    BY <1>6, WatchUnreadIs DEF StatusReturns, WatchUnreadDoes, WatchSettles, Fibers
  <2> QED
    BY <2>1, <1>1, <1>2
<1>7. CASE CancelStep
  <2>a. "cancel" \in Fibers /\ ReadersPast("cancel")
    BY DEF Fibers
  <2>1. CASE CancelDecides
    <3>1. CancelDecidesDoes /\ \A g \in Fibers \ {"cancel"} : pc'[g] = pc[g] /\ mem'[g] = mem[g]
      BY <2>1, CancelDecidesIs DEF CancelDecidesDoes
    <3>2. /\ pc["cancel"] = "back" /\ meta' = meta
          /\ \/ mem'["cancel"] = mem["cancel"] /\ mem["cancel"].state \in Begun /\ pc'["cancel"] \in {"settle", "stop"}
             \/ mem'["cancel"].state \in {"cancelled", "termination_unverified"} /\ pc'["cancel"] = "record"
      BY <3>1, <2>a DEF CancelDecidesDoes, Begun, taskFiles, Meta
    <3>3. ReadersPast("cancel")'
      BY <3>2, <2>a DEF ReadersPast, Begun, Terminal
    <3> QED
      BY <3>1, <3>3, <1>1
  <2>2. CASE CancelStops \/ CancelVerifies \/ CancelRecords \/ CancelSettles
    <3>1. \A g \in Fibers \ {"cancel"} : pc'[g] = pc[g] /\ mem'[g] = mem[g]
      BY <2>2 DEF CancelStops, CancelVerifies, CancelRecords, CancelSettles
    <3>2. ASSUME CancelStops PROVE ReadersPast("cancel")'
      BY <3>2, <2>a DEF CancelStops, taskFiles, ReadersPast
    <3>3. ASSUME CancelVerifies PROVE ReadersPast("cancel")'
      BY <3>3, <2>a DEF CancelVerifies, ReadersPast, Begun, Terminal, Meta
    <3>4. ASSUME CancelRecords PROVE ReadersPast("cancel")'
      <4>1. /\ pc["cancel"] = "record" /\ pc'["cancel"] = "settle"
            /\ mem' = mem /\ meta' = mem["cancel"]
        BY <3>4, <2>a DEF CancelRecords
      <4>2. mem["cancel"].state \in Begun /\ mem["cancel"].state # "none"
        BY <4>1, <2>a DEF ReadersPast, Begun, Terminal
      <4> QED
        BY <4>1, <4>2 DEF ReadersPast
    <3>5. ASSUME CancelSettles PROVE ReadersPast("cancel")'
      <4>1. pc["cancel"] = "settle" /\ pc'["cancel"] = "done"
        BY <3>5, <2>a DEF CancelSettles
      <4> QED
        BY <4>1, <2>a, <1>2
    <3>6. ReadersPast("cancel")'
      BY <3>2, <3>3, <3>4, <3>5, <2>2
    <3> QED
      BY <3>1, <3>6, <1>1
  <2> QED
    BY <2>1, <2>2, <1>7 DEF CancelStep
<1>8. CASE CrashRuntime
  BY <1>8, <1>2 DEF CrashRuntime
<1>9. ParkStep \/ LaunchStep \/ AllWorker \/ RetireLost \/ CwdMoves \/ RecoverParked => UNCHANGED <<pc, mem>>
  <2> USE DEF taskFiles, processes, admission, launcher, fibers, rest, Shared, Unseen, Runtime
  <2>1. CASE ParkStep \/ RetireLost \/ CwdMoves \/ RecoverParked
    BY <2>1 DEF ParkStep, EnqueueTask, Reserve, Retire, Grant, RetireLost, CwdMoves, RecoverParked
  <2>2. CASE LaunchStep
    BY <2>2, StartReadsIs DEF LaunchStep, PassGate, CheckCapacity, StartReadsDoes, StartWrites, SpawnWorker, PublishWorker
  <2>3. CASE AllWorker
    BY <2>3, WorkerDiesIs DEF AllWorker, WorkerStep, WorkerLoads, WorkerPersists, SpawnChild, PersistChild, ChildExits,
                              ObserveExit, WorkerFinishes, TimeOut, WorkerDiesDoes
  <2> QED
    BY <2>1, <2>2, <2>3
<1> QED
  BY <1>3, <1>4, <1>5, <1>6, <1>7, <1>8, <1>9 DEF TaskNext, ParkStep, AllWorker

LEMMA UnstartedKept ==
  ASSUME FileTypes, FlagTypes, PlaceTypes, LaunchOrder, PidsKnown, Stages, Unstarted, \A f \in Fibers : ReadersPast(f), TaskNext
  PROVE  Unstarted'
<1> SUFFICES ASSUME wrk' = "none" PROVE Unstarted'
  BY DEF Unstarted
<1> USE DEF taskFiles, processes, admission, launcher, fibers, rest, Shared, Unseen, Runtime, Moves
<1>0. wrk = "none" /\ child # "live"
  <2>1. wrk = "none"
    <3>1. CASE AllWorker
      <4>1. ~WorkerDies
        BY WorkerDiesIs DEF WorkerDiesDoes
      <4> QED
        BY <4>1, <3>1 DEF AllWorker, WorkerStep, WorkerLoads, WorkerPersists, SpawnChild, PersistChild, ChildExits,
                          ObserveExit, WorkerFinishes, TimeOut
    <3>2. CASE LaunchStep
      BY <3>2, StartReadsIs DEF LaunchStep, PassGate, CheckCapacity, StartReadsDoes, StartWrites, SpawnWorker,
                                PublishWorker
    <3>3. CASE ParkStep \/ Others
      BY <3>3 DEF ParkStep, EnqueueTask, Reserve, Retire, Grant, Others, CrashRuntime, RetireLost, CwdMoves,
                  RecoverParked
    <3>4. CASE ReaderStep
      BY <3>4, BeginReadIs, ReaderKeepsAll, WatchUnreadIs
         DEF ReaderStep, BeginReadDoes, ReaderKeeps, StatusReturns, WatchUnreadDoes, WatchSettles
    <3>5. CASE CancelStep
      BY <3>5, CancelDecidesIs DEF CancelStep, CancelDecidesDoes, CancelStops, CancelVerifies, CancelRecords,
                                   CancelSettles
    <3> QED
      BY <3>1, <3>2, <3>3, <3>4, <3>5 DEF TaskNext, AllWorker, ParkStep, Others, ReaderStep
  <2> QED
    BY <2>1 DEF PidsKnown
<1>a. /\ lpc # "publish" /\ ~published /\ ~meta.w /\ ~lmeta.w
      /\ meta.state # "termination_unverified"
      /\ \A f \in Fibers : /\ ~mem[f].w /\ mem[f].state # "termination_unverified"
                           /\ pc[f] \notin {"stop", "verify"}
                           /\ pc[f] \in {"write", "back", "record", "settle"} => mem[f].state # "running"
  BY <1>0 DEF Unstarted
<1>b. ~ReadMeta.w /\ ReadMeta.state = meta.state /\ ReadMeta.state # "termination_unverified"
  BY <1>a, ReadMetaIs
<1> USE DEF FileTypes, PlaceTypes, Meta
<1>c. FailWaiting => ~meta'.w /\ meta'.state # "termination_unverified"
  BY <1>a DEF FailWaiting
<1>d. RecordFailure => ~meta'.w /\ meta'.state # "termination_unverified"
  BY <1>a DEF RecordFailure
<1>1. CASE UNCHANGED <<published, meta, lmeta, pc, mem>> /\ lpc' # "publish"
  BY <1>1, <1>a DEF Unstarted
<1>2. ASSUME UNCHANGED <<published, pc, mem>>, lpc' # "publish", ~meta'.w, meta'.state # "termination_unverified", ~lmeta'.w
      PROVE  Unstarted'
  BY <1>2, <1>a DEF Unstarted
<1>3. CASE ParkStep \/ RetireLost \/ CwdMoves \/ RecoverParked
  <2>1. UNCHANGED <<published, pc, mem, lmeta>>
    BY <1>3 DEF ParkStep, EnqueueTask, Reserve, Retire, Grant, RetireLost, CwdMoves, RecoverParked
  <2>2. lpc' # "publish"
    BY <1>3, <1>a DEF ParkStep, EnqueueTask, Reserve, Retire, Grant, RetireLost, CwdMoves, RecoverParked
  <2>3. ~meta'.w /\ meta'.state # "termination_unverified"
    BY <1>3, <1>a, <1>c DEF ParkStep, EnqueueTask, Reserve, Retire, Grant, RetireLost, CwdMoves, RecoverParked, NoMeta
  <2> QED
    BY <2>1, <2>2, <2>3, <1>a, <1>2
<1>4. CASE LaunchStep
  <2>1. UNCHANGED <<published, pc, mem>> /\ lpc' # "publish"
    <3>1. CASE StartReads
      BY <3>1, StartReadsIs DEF StartReadsDoes, StartFails
    <3>2. CASE PassGate \/ CheckCapacity \/ StartWrites
      BY <3>2 DEF PassGate, CheckCapacity, StartWrites, StartFails
    <3>3. CASE SpawnWorker
      BY <3>3 DEF SpawnWorker, StartFails
    <3>4. ~PublishWorker
      BY <1>a DEF PublishWorker
    <3> QED
      BY <3>1, <3>2, <3>3, <3>4, <1>4 DEF LaunchStep
  <2>2. ~lmeta'.w
    <3>1. CASE StartReads
      <4>1. lmeta' = ReadMeta \/ StartFails
        BY <3>1, StartReadsIs, Zenon DEF StartReadsDoes
      <4>2. StartFails => ~lmeta'.w
        BY DEF StartFails, NoMeta
      <4> QED
        BY <4>1, <4>2, <1>b
    <3>2. CASE ~StartReads
      <4>1. lmeta' \in {lmeta, NoMeta}
        BY <3>2, <1>4 DEF LaunchStep, PassGate, CheckCapacity, StartWrites, SpawnWorker, PublishWorker, StartFails
      <4> QED
        BY <4>1, <1>a DEF NoMeta
    <3> QED
      BY <3>1, <3>2
  <2>3. ~meta'.w /\ meta'.state # "termination_unverified"
    <3>1. CASE StartReads
      BY <3>1, <1>a, <1>c, StartReadsIs DEF StartReadsDoes
    <3>2. CASE StartWrites
      BY <3>2, <1>a, <1>d DEF StartWrites
    <3>3. CASE PassGate \/ CheckCapacity \/ SpawnWorker \/ PublishWorker
      BY <3>3, <1>a, <1>c, <1>d DEF PassGate, CheckCapacity, SpawnWorker, PublishWorker
    <3> QED
      BY <3>1, <3>2, <3>3, <1>4 DEF LaunchStep
  <2> QED
    BY <2>1, <2>2, <2>3, <1>2
<1>5. CASE AllWorker
  <2>1. UNCHANGED <<published, meta, lmeta, pc, mem, lpc>>
    BY <1>5, <1>0, WorkerDiesIs DEF AllWorker, WorkerStep, WorkerLoads, WorkerPersists, SpawnChild, PersistChild,
           ChildExits, ObserveExit, WorkerFinishes, TimeOut, WorkerDiesDoes
  <2> QED
    BY <2>1, <1>a, <1>1
<1>6. ASSUME NEW f \in Fibers, BeginRead(f)
      PROVE  Unstarted'
  BY <1>6, <1>a, BeginReadIs DEF BeginReadDoes, Unstarted
\* One reader, or a cancel, goes on.
<1>7. ASSUME NEW f \in Fibers, UNCHANGED <<published, lpc, lmeta>>,
             meta' = meta \/ (meta' = mem[f]),
             \A g \in Fibers \ {f} : pc'[g] = pc[g] /\ mem'[g] = mem[g],
             ~mem'[f].w, mem'[f].state # "termination_unverified", pc'[f] \notin {"stop", "verify"},
             pc'[f] \in {"write", "back", "record", "settle"} => mem'[f].state # "running"
      PROVE  Unstarted'
  BY <1>7, <1>a DEF Unstarted
<1>8. ASSUME NEW f \in Fibers, ReadStep(f)
      PROVE  Unstarted'
  <2>1. UNCHANGED <<published, lpc, lmeta>> /\ (meta' = meta \/ meta' = mem[f])
    BY <1>8, ReaderKeepsAll DEF ReaderKeeps, WritesVerdict
  <2>2. \A g \in Fibers \ {f} : pc'[g] = pc[g] /\ mem'[g] = mem[g]
    BY <1>8, RereadsMetaIs DEF ReadStep, ReadsMeta, ProbesWorker, RereadsMetaDoes, Reprobes, WritesVerdict, ReadFails,
                               WriteFails, Unverifiable
  <2> DEFINE Keeps == /\ ~mem'[f].w /\ mem'[f].state # "termination_unverified" /\ pc'[f] \notin {"stop", "verify"}
                      /\ pc'[f] \in {"write", "back", "record", "settle"} => mem'[f].state # "running"
  <2>3. ASSUME ReadsMeta(f) PROVE Keeps
    BY <2>3, <1>a, <1>b DEF ReadsMeta
  <2>4. ASSUME RereadsMeta(f) PROVE Keeps
    <3>1. mem'[f] \in {mem[f], ReadMeta} /\ pc'[f] \in {"back", "reprobe"}
      BY <2>4, RereadsMetaIs DEF RereadsMetaDoes
    <3>2. pc'[f] = "back" => mem'[f] = ReadMeta /\ meta.state \in Terminal
      BY <2>4, RereadsMetaIs DEF RereadsMetaDoes
    <3> QED
      BY <3>1, <3>2, <1>a, <1>b DEF Terminal
  <2>5. ASSUME ProbesWorker(f) PROVE Keeps
    BY <2>5, <1>a DEF ProbesWorker, Unverifiable
  <2>6. ASSUME Reprobes(f) PROVE Keeps
    <3>1. Verdict(f) = "failed"
      BY <1>a, <1>0 DEF Verdict
    <3> QED
      BY <2>6, <3>1, <1>a DEF Reprobes, Unverifiable
  <2>7. ASSUME WritesVerdict(f) PROVE Keeps
    BY <2>7, <1>a DEF WritesVerdict
  <2>8. ASSUME ReadFails(f) \/ WriteFails(f) PROVE Keeps
    BY <2>8, <1>a DEF ReadFails, WriteFails, NoMeta
  <2>9. Keeps
    BY <2>3, <2>4, <2>5, <2>6, <2>7, <2>8, <1>8 DEF ReadStep
  <2> QED
    BY <2>1, <2>2, <2>9, <1>7
<1>9. CASE StatusReturns \/ WatchUnread \/ WatchSettles
  <2>1. UNCHANGED <<published, lpc, lmeta, meta>>
    BY <1>9, WatchUnreadIs DEF StatusReturns, WatchUnreadDoes, WatchSettles
  <2>2. PICK f \in Fibers : /\ pc'[f] = "idle" /\ (mem'[f] = mem[f] \/ mem'[f] = NoMeta)
                            /\ \A g \in Fibers \ {f} : pc'[g] = pc[g] /\ mem'[g] = mem[g]
    BY <1>9, WatchUnreadIs DEF StatusReturns, WatchUnreadDoes, WatchSettles, Fibers
  <2> QED
    BY <2>1, <2>2, <1>a, <1>7 DEF NoMeta
<1>10. CASE CancelStep
  <2>a. "cancel" \in Fibers
    BY DEF Fibers
  <2>1. CASE CancelDecides
    <3>1. /\ CancelDecidesDoes /\ UNCHANGED <<published, lpc, lmeta, meta>>
          /\ \A g \in Fibers \ {"cancel"} : pc'[g] = pc[g] /\ mem'[g] = mem[g]
      BY <2>1, CancelDecidesIs DEF CancelDecidesDoes
    <3>2. \/ pc'["cancel"] = "settle" /\ mem'["cancel"] = mem["cancel"] /\ mem["cancel"].state # "running"
          \/ /\ pc'["cancel"] = "record"
             /\ mem'["cancel"].state = "cancelled" /\ mem'["cancel"].w = mem["cancel"].w
      BY <3>1, <2>a, <1>a DEF CancelDecidesDoes
    <3> QED
      BY <3>1, <3>2, <2>a, <1>a, <1>7
  <2>2. ~CancelStops /\ ~CancelVerifies
    BY <2>a, <1>a DEF CancelStops, CancelVerifies
  <2>3. CASE CancelRecords
    BY <2>3, <2>a, <1>a, <1>7 DEF CancelRecords
  <2>4. CASE CancelSettles
    BY <2>4, <2>a, <1>a, <1>7 DEF CancelSettles, NoMeta
  <2> QED
    BY <2>1, <2>2, <2>3, <2>4, <1>10 DEF CancelStep
<1>11. CASE CrashRuntime
  BY <1>11, <1>a DEF CrashRuntime, Unstarted, NoMeta
<1> QED
  BY <1>3, <1>4, <1>5, <1>6, <1>8, <1>9, <1>10, <1>11 DEF TaskNext, ParkStep, AllWorker

-----------------------------------------------------------------------------
(* While the slot is held.                                                 *)

Invariants ==
  /\ FileTypes /\ FlagTypes /\ PlaceTypes /\ LeaseOfRow /\ LaunchOrder /\ PidsKnown
  /\ Stages /\ Unstarted /\ StartAlone
  /\ \A f \in Fibers : ReadersPast(f)
Knowledge == TellsTheTruth /\ ReadersKnow /\ SettledWhenOver

\* What is known of an overlap or of a lost pid is not forgotten.
GhostsKept == (early => early') /\ (blind => blind') /\ (untold => untold')

LEMMA GhostsStay ==
  ASSUME TaskNext
  PROVE  GhostsKept
<1> USE DEF GhostsKept, taskFiles, processes, admission, launcher, fibers, rest, Shared, Unseen, Runtime
<1>1. CASE UNCHANGED <<early, blind, untold>>
  BY <1>1
<1>2. CASE ParkStep \/ Others
  <2>1. UNCHANGED <<early, blind, untold>>
    BY <1>2 DEF ParkStep, EnqueueTask, Reserve, Retire, Grant, Others, CrashRuntime, RetireLost, CwdMoves, RecoverParked
  <2> QED
    BY <1>1, <2>1
<1>3. CASE StartReads
  <2>1. UNCHANGED <<blind, untold>>
    BY <1>3, StartReadsIs DEF StartReadsDoes
  <2>2. early' = early \/ (early \/ InHand <=> early')
    BY <1>3, StartReadsIs, Zenon DEF StartReadsDoes
  <2> QED
    BY <2>1, <2>2
<1>4. CASE PassGate \/ CheckCapacity \/ StartWrites \/ SpawnWorker
  <2>1. UNCHANGED <<early, blind, untold>>
    BY <1>4 DEF PassGate, CheckCapacity, StartWrites, SpawnWorker
  <2> QED
    BY <1>1, <2>1
<1>5. CASE PublishWorker \/ PersistChild
  <2>1. UNCHANGED <<early, blind>> /\ (untold' = untold \/ untold' = TRUE)
    BY <1>5 DEF PublishWorker, PersistChild
  <2> QED
    BY <2>1
<1>6. CASE WorkerDies
  BY <1>6, WorkerDiesIs DEF WorkerDiesDoes
<1>7. ASSUME NEW f \in Fibers, BeginRead(f)
      PROVE  GhostsKept
  BY <1>7, BeginReadIs DEF BeginReadDoes
<1>8. ASSUME NEW f \in Fibers, ReadStep(f)
      PROVE  GhostsKept
  BY <1>8, ReaderKeepsAll DEF ReaderKeeps
<1>9. CASE StatusReturns \/ WatchSettles \/ CancelStops \/ CancelVerifies \/ CancelRecords \/ CancelSettles
  <2>1. UNCHANGED <<early, blind, untold>>
    BY <1>9 DEF StatusReturns, WatchSettles, CancelStops, CancelVerifies, CancelRecords, CancelSettles
  <2> QED
    BY <1>1, <2>1
<1>10. CASE CancelDecides
  BY <1>10, CancelDecidesIs DEF CancelDecidesDoes
<1>11. CASE WatchUnread
  <2>1. UNCHANGED <<early, blind>>
    BY <1>11, WatchUnreadIs DEF WatchUnreadDoes
  <2>2. untold' = untold \/ (untold \/ watched <=> untold')
    BY <1>11, WatchUnreadIs, Zenon DEF WatchUnreadDoes
  <2> QED
    BY <2>1, <2>2
<1>12. CASE (WorkerStep \/ TimeOut) /\ ~PersistChild
  <2>1. UNCHANGED <<early, blind, untold>>
    BY <1>12 DEF WorkerStep, WorkerLoads, WorkerPersists, SpawnChild, ChildExits, ObserveExit, WorkerFinishes, TimeOut
  <2> QED
    BY <1>1, <2>1
<1> QED
  BY <1>1, <1>2, <1>3, <1>4, <1>5, <1>6, <1>7, <1>8, <1>9, <1>10, <1>11, <1>12
     DEF TaskNext, LaunchStep, CancelStep, ParkStep, Others

\* Only a spawned worker brings a task that is over back.
LEMMA OverStays ==
  ASSUME PlaceTypes, LaunchOrder, PidsKnown, Over, TaskNext
  PROVE  Over' \/ (lpc = "spawn" /\ wrk' = "spawned" /\ lpc' = "publish")
<1> USE DEF Over, PlaceTypes, taskFiles, processes, admission, launcher, fibers, rest, Shared, Unseen, Runtime
<1>1. CASE UNCHANGED <<wrk, child>>
  BY <1>1
<1>2. CASE SpawnWorker
  BY <1>2 DEF SpawnWorker
<1>3. CASE WorkerDies
  BY <1>3, WorkerDiesIs DEF WorkerDiesDoes
<1>4. CASE WorkerStep \/ TimeOut
  BY <1>4 DEF WorkerStep, WorkerLoads, WorkerPersists, SpawnChild, PersistChild, ChildExits,
              ObserveExit, WorkerFinishes, TimeOut
<1>5. CASE CancelStops
  BY <1>5 DEF CancelStops
<1>6. CASE ParkStep \/ Others
  BY <1>1, <1>6 DEF ParkStep, EnqueueTask, Reserve, Retire, Grant, Others, CrashRuntime, RetireLost, CwdMoves, RecoverParked
<1>7. CASE StartReads
  BY <1>7, StartReadsIs DEF StartReadsDoes
<1>8. CASE PassGate \/ CheckCapacity \/ StartWrites \/ PublishWorker
  BY <1>8 DEF PassGate, CheckCapacity, StartWrites, PublishWorker
<1>9. ASSUME NEW f \in Fibers, BeginRead(f) \/ ReadStep(f)
      PROVE  UNCHANGED <<wrk, child>>
  BY <1>9, BeginReadIs, ReaderKeepsAll DEF BeginReadDoes, ReaderKeeps
<1>10. CASE StatusReturns \/ WatchUnread \/ WatchSettles \/ CancelVerifies \/ CancelRecords \/ CancelSettles
  BY <1>10, WatchUnreadIs DEF StatusReturns, WatchUnreadDoes, WatchSettles, CancelVerifies, CancelRecords, CancelSettles
<1>11. CASE CancelDecides
  BY <1>11, CancelDecidesIs DEF CancelDecidesDoes
<1> QED
  BY <1>1, <1>2, <1>3, <1>4, <1>5, <1>6, <1>7, <1>8, <1>9, <1>10, <1>11
     DEF TaskNext, LaunchStep, CancelStep, ParkStep, Others

\* A task begins to be watched when it is written as running.
LEMMA WatchingBegins ==
  ASSUME PlaceTypes, LaunchOrder, LeaseOfRow, TaskNext, Watching', ~StartWrites
  PROVE  Watching
<1> USE DEF PlaceTypes, LaunchOrder, LeaseOfRow, taskFiles, processes, admission, launcher, fibers, rest, Shared,
            Unseen, Runtime
<1>0. ~early /\ ~blind /\ ~untold
  BY GhostsStay DEF Watching, GhostsKept
<1>1. lease' = "held" /\ (watched' \/ lpc' \in {"spawn", "publish"})
  BY DEF Watching
<1> SUFFICES lease = "held" /\ (watched \/ lpc \in {"spawn", "publish"})
  BY <1>0 DEF Watching
<1>2. CASE UNCHANGED <<lease, watched, lpc>>
  BY <1>1, <1>2
<1>3. CASE ParkStep
  BY <1>1, <1>3 DEF ParkStep, EnqueueTask, Reserve, Retire, Grant
<1>4. CASE StartReads
  <2>1. lpc = "read" /\ watched' = watched /\ lpc' \in {"write", "idle"}
    BY <1>4, StartReadsIs DEF StartReadsDoes, StartFails
  <2> QED
    BY <2>1, <1>1
<1>5. CASE PassGate \/ CheckCapacity \/ SpawnWorker \/ PublishWorker
  BY <1>1, <1>5 DEF PassGate, CheckCapacity, SpawnWorker, PublishWorker, StartFails, SettleLease
<1>6. CASE AllWorker
  <2>1. CASE WorkerDies
    BY <2>1, <1>1, WorkerDiesIs DEF WorkerDiesDoes
  <2>2. CASE ~WorkerDies
    BY <1>1, <2>2, <1>6 DEF AllWorker, WorkerStep, WorkerLoads, WorkerPersists, SpawnChild, PersistChild, ChildExits,
              ObserveExit, WorkerFinishes, TimeOut
  <2> QED
    BY <2>1, <2>2
<1>7. ASSUME NEW f \in Fibers, BeginRead(f) \/ ReadStep(f)
      PROVE  UNCHANGED <<lease, watched, lpc>>
  BY <1>7, BeginReadIs, ReaderKeepsAll DEF BeginReadDoes, ReaderKeeps
<1>8. CASE StatusReturns \/ WatchSettles \/ CancelStops \/ CancelVerifies \/ CancelRecords \/ CancelSettles
  BY <1>1, <1>8 DEF StatusReturns, WatchSettles, CancelStops, CancelVerifies, CancelRecords, CancelSettles,
                    SettleWatched, SettleLease
<1>9. CASE CancelDecides
  BY <1>1, <1>9, CancelDecidesIs DEF CancelDecidesDoes
<1>10. CASE Others
  BY <1>1, <1>10 DEF Others, CrashRuntime, RetireLost, CwdMoves, RecoverParked
<1>11. CASE WatchUnread
  <2>1. UNCHANGED lpc /\ (UNCHANGED <<lease, watched>> \/ SettleLease)
    BY <1>11, WatchUnreadIs DEF WatchUnreadDoes, SettleWatched
  <2> QED
    BY <2>1, <1>1, <1>2 DEF SettleLease
<1> QED
  BY <1>2, <1>3, <1>4, <1>5, <1>6, <1>7, <1>8, <1>9, <1>10, <1>11 DEF TaskNext, LaunchStep, CancelStep, ParkStep, Others,
     AllWorker

\* What happens to a task that is watched.
LEMMA NotWhileWatching ==
  ASSUME PlaceTypes, LaunchOrder, LeaseOfRow, Stages, Watching, Truth
  PROVE  ~ParkStep /\ ~PassGate /\ ~CheckCapacity /\ ~StartReads /\ ~StartWrites /\ ~RetireLost /\ ~CwdMoves /\ ~RecoverParked
<1> USE DEF PlaceTypes, LaunchOrder, LeaseOfRow, Watching
<1>1. ~ParkStep
  BY DEF ParkStep, EnqueueTask, Reserve, Retire, Grant, Stages, Truth, Begun, Terminal
<1>2. lpc \notin {"gate", "capacity", "read", "write"}
  OBVIOUS
<1>3. ~PassGate /\ ~CheckCapacity /\ ~StartReads /\ ~StartWrites
  BY <1>2 DEF PassGate, CheckCapacity, StartReads, StartWrites
<1>4. ~RetireLost /\ ~CwdMoves /\ ~RecoverParked
  BY DEF RetireLost, CwdMoves, RecoverParked, Truth, Begun, Terminal
<1> QED
  BY <1>1, <1>3, <1>4

LEMMA TruthKept ==
  ASSUME Invariants, Knowledge, TaskNext, Watching'
  PROVE  Truth'
<1>0. PlaceTypes /\ FileTypes /\ FlagTypes /\ LaunchOrder /\ LeaseOfRow /\ PidsKnown /\ StartAlone /\ Stages
  BY DEF Invariants
<1>a. lease' = "held" /\ ~StartFails
  BY DEF Watching, StartFails, SettleLease
<1>1. CASE StartWrites
  <2>1. meta'.state = "running" /\ wrk' = "none" /\ child' = "none"
    BY <1>0, <1>1, <1>a DEF StartWrites, processes, LaunchOrder, PidsKnown, FileTypes, Meta
  <2> QED
    BY <2>1 DEF Truth, Begun, Over, WorkerAlive, Terminal
<1>2. CASE ~StartWrites
  <2>1. Watching /\ Truth /\ \A f \in Fibers : Knows(f)
    BY <1>0, <1>2, WatchingBegins DEF Knowledge, TellsTheTruth, ReadersKnow
  <2>2. ~blind /\ ~blind' /\ ~early /\ ~untold'
    BY <2>1 DEF Watching
  <2> USE DEF PlaceTypes, FileTypes, Meta, PidsKnown, Truth, Begun, Terminal, Over, WorkerAlive,
              taskFiles, processes, admission, launcher, fibers, rest, Shared, Unseen, Runtime
  <2>3. CASE UNCHANGED <<meta, wrk, copy, child>>
    BY <2>1, <2>3
  <2>4. CASE LaunchStep
    <3>1. CASE SpawnWorker
      <4>1. meta.state = "running" /\ wrk = "none" /\ child = "none"
        BY <3>1, <2>2, <1>0 DEF SpawnWorker, StartAlone, LaunchOrder
      <4>2. UNCHANGED <<meta, child>> /\ wrk' = "spawned"
        BY <3>1, <1>a DEF SpawnWorker
      <4> QED
        BY <4>1, <4>2
    <3>2. CASE PublishWorker
      BY <3>2, <2>1, <1>a DEF PublishWorker
    <3> QED
      BY <3>1, <3>2, <2>1, <2>4, <1>0, NotWhileWatching DEF LaunchStep
  <2>5. CASE WorkerLoads \/ WorkerPersists \/ PersistChild \/ WorkerFinishes
    BY <2>5, <2>1, <2>2, <1>0 DEF WorkerLoads, WorkerPersists, PersistChild, WorkerFinishes, Persist
  <2>6. CASE SpawnChild \/ ChildExits \/ ObserveExit \/ TimeOut
    BY <2>6, <2>1, <1>0 DEF SpawnChild, ChildExits, ObserveExit, TimeOut
  <2>7. CASE WorkerDies
    BY <2>7, <2>1, <2>2, <1>0, WorkerDiesIs DEF WorkerDiesDoes
  <2>8. ASSUME NEW f \in Fibers, WritesVerdict(f)
        PROVE  Truth'
    BY <2>8, <2>1, <1>0 DEF WritesVerdict, Knows
  <2>9. ASSUME NEW f \in Fibers, BeginRead(f) \/ (ReadStep(f) /\ ~WritesVerdict(f))
        PROVE  UNCHANGED <<meta, wrk, copy, child>>
    BY <2>9, BeginReadIs, ReaderKeepsAll DEF BeginReadDoes, ReaderKeeps
  <2>10. CASE StatusReturns \/ WatchUnread \/ WatchSettles
    BY <2>10, <2>3, WatchUnreadIs DEF StatusReturns, WatchUnreadDoes, WatchSettles
  <2>11. CASE CancelStep
    <3>1. CASE CancelDecides
      BY <3>1, <2>3, CancelDecidesIs DEF CancelDecidesDoes
    <3>2. CASE CancelStops
      BY <3>2, <2>1, <1>0 DEF CancelStops, Knows, Fibers
    <3>3. CASE CancelRecords
      BY <3>3, <2>1, <1>0 DEF CancelRecords, Knows, Fibers
    <3>4. CASE CancelVerifies \/ CancelSettles
      BY <3>4, <2>3 DEF CancelVerifies, CancelSettles
    <3> QED
      BY <3>1, <3>2, <3>3, <3>4, <2>11 DEF CancelStep
  <2>12. CASE CrashRuntime
    BY <2>12, <2>3 DEF CrashRuntime
  <2>13. ~ParkStep /\ ~RetireLost /\ ~CwdMoves /\ ~RecoverParked
    BY <2>1, <1>0, NotWhileWatching
  <2> QED
    BY <2>3, <2>4, <2>5, <2>6, <2>7, <2>8, <2>9, <2>10, <2>11, <2>12, <2>13
       DEF TaskNext, WorkerStep, ParkStep, ReadStep
<1> QED
  BY <1>1, <1>2

\* Processes end, and do not come back, unless a worker is started.
Ends ==
  /\ Over => Over'
  /\ ~WorkerAlive => ~WorkerAlive'
  /\ ~WorkerAlive /\ child # "live" => child' # "live"

LEMMA ProcessesEnd ==
  ASSUME PlaceTypes, LaunchOrder, PidsKnown, TaskNext, lpc # "spawn"
  PROVE  Ends
<1>0. Over => Over'
  BY OverStays
<1> USE DEF PlaceTypes, WorkerAlive, taskFiles, processes, admission, launcher, fibers, rest, Shared, Unseen, Runtime
<1> SUFFICES /\ ~WorkerAlive => ~WorkerAlive'
             /\ ~WorkerAlive /\ child # "live" => child' # "live"
  BY <1>0, Zenon DEF Ends
<1>1. CASE UNCHANGED <<wrk, child>>
  BY <1>1
<1>3. CASE WorkerDies
  BY <1>3, WorkerDiesIs DEF WorkerDiesDoes
<1>4. CASE WorkerStep \/ TimeOut
  BY <1>4 DEF WorkerStep, WorkerLoads, WorkerPersists, SpawnChild, PersistChild, ChildExits,
              ObserveExit, WorkerFinishes, TimeOut
<1>5. CASE CancelStops
  BY <1>5 DEF CancelStops
<1>6. CASE ParkStep \/ Others
  BY <1>1, <1>6 DEF ParkStep, EnqueueTask, Reserve, Retire, Grant, Others, CrashRuntime, RetireLost, CwdMoves, RecoverParked
<1>7. CASE StartReads
  BY <1>7, StartReadsIs DEF StartReadsDoes
<1>8. CASE PassGate \/ CheckCapacity \/ StartWrites \/ SpawnWorker \/ PublishWorker
  BY <1>8 DEF PassGate, CheckCapacity, StartWrites, SpawnWorker, PublishWorker
<1>9. ASSUME NEW f \in Fibers, BeginRead(f) \/ ReadStep(f)
      PROVE  UNCHANGED <<wrk, child>>
  BY <1>9, BeginReadIs, ReaderKeepsAll DEF BeginReadDoes, ReaderKeeps
<1>10. CASE StatusReturns \/ WatchUnread \/ WatchSettles \/ CancelVerifies \/ CancelRecords \/ CancelSettles
  BY <1>10, WatchUnreadIs DEF StatusReturns, WatchUnreadDoes, WatchSettles, CancelVerifies, CancelRecords, CancelSettles
<1>11. CASE CancelDecides
  BY <1>11, CancelDecidesIs DEF CancelDecidesDoes
<1> QED
  BY <1>1, <1>3, <1>4, <1>5, <1>6, <1>7, <1>8, <1>9, <1>10, <1>11
     DEF TaskNext, LaunchStep, CancelStep, ParkStep, Others

LEMMA StillKnows ==
  ASSUME NEW g \in Fibers, Knows(g), Ends, pc'[g] = pc[g], mem'[g] = mem[g]
  PROVE  Knows(g)'
BY DEF Knows, Ends

\* A fiber that reads.
LEMMA ReaderKnows ==
  ASSUME Invariants, Watching, Truth, ~untold', NEW f \in Fibers, Knows(f), Ends, ReadStep(f)
  PROVE  Knows(f)'
<1>0. PlaceTypes /\ FileTypes /\ FlagTypes /\ LaunchOrder /\ PidsKnown /\ StartAlone
  BY DEF Invariants
<1> USE DEF PlaceTypes, FileTypes, Moves
<1>1. CASE ReadsMeta(f)
  <2>1. published
    BY <1>0, <1>1 DEF ReadsMeta, Watching, StartAlone, LaunchOrder
  <2>2. ReadMeta.w /\ ReadMeta.state = meta.state
    BY <2>1, <1>0, ReadMetaIs
  <2>3. mem'[f] = ReadMeta /\ pc'[f] \in {"probe", "back"} /\ UNCHANGED <<wrk, child>>
    BY <1>0, <1>1 DEF ReadsMeta, Shared, processes
  <2>4. meta.state \in Begun /\ (meta.state \in Terminal => Over')
    BY DEF Truth, Ends
  <2> QED
    BY <2>2, <2>3, <2>4 DEF Knows
<1>2. CASE ProbesWorker(f)
  <2>1. mem[f].w /\ mem[f].state \in Begun /\ (mem[f].state \in Terminal => Over')
    BY <1>2 DEF ProbesWorker, Knows, Ends
  <2>2. CASE Unverifiable(f)
    <3>1. mem'[f].state = "termination_unverified" /\ mem'[f].w = mem[f].w /\ pc'[f] = "write"
      BY <2>2, <1>0 DEF Unverifiable, Meta
    <3> QED
      BY <3>1, <2>1 DEF Knows, Begun, Terminal
  <2>3. CASE Moves(f, IF mem[f].w /\ WorkerAlive THEN "back" ELSE "reread") /\ UNCHANGED mem
    <3>1. mem'[f] = mem[f] /\ pc'[f] = IF WorkerAlive THEN "back" ELSE "reread"
      BY <2>1, <2>3, <1>0
    <3>2. ~WorkerAlive => ~WorkerAlive'
      BY DEF Ends
    <3> QED
      BY <3>1, <3>2, <2>1 DEF Knows
  <2> QED
    BY <2>2, <2>3, <1>2 DEF ProbesWorker
<1>3. CASE RereadsMeta(f)
  <2>1. published
    BY <1>0, <1>3 DEF RereadsMeta, Watching, StartAlone, LaunchOrder
  <2>2. ReadMeta.w /\ ReadMeta.state = meta.state /\ ReadMeta.c = meta.c
    BY <2>1, <1>0, ReadMetaIs
  <2>3. /\ pc[f] = "reread" /\ pc'[f] \in {"reprobe", "back"} /\ UNCHANGED <<wrk, child>>
        /\ \/ mem'[f] = ReadMeta
           \/ mem'[f] = mem[f] /\ mem[f].c /\ pc'[f] = "reprobe"
    BY <1>0, <1>3, RereadsMetaIs DEF RereadsMetaDoes, processes
  <2>4. ~WorkerAlive /\ ~WorkerAlive'
    BY <2>3 DEF Knows, Ends
  <2>5. meta.state \in Begun /\ (meta.state \in Terminal => Over')
    BY DEF Truth, Ends
  <2>6. meta.state = "running" /\ ~meta.c => child # "live"
    BY <2>4 DEF Truth, WorkerAlive
  <2>7. mem[f].w /\ mem[f].state \in Begun /\ (mem[f].state \in Terminal => Over')
    BY <2>3 DEF Knows, Ends
  <2> QED
    BY <2>2, <2>3, <2>4, <2>5, <2>6, <2>7 DEF Knows
<1>4. CASE Reprobes(f)
  <2>1. /\ mem[f].w /\ mem[f].state \in Begun /\ (mem[f].state \in Terminal => Over /\ Over')
        /\ ~WorkerAlive /\ (mem[f].state = "running" /\ ~mem[f].c => child # "live")
    BY <1>4 DEF Reprobes, Knows, Ends
  <2>2. CASE Unverifiable(f)
    <3>1. mem'[f].state = "termination_unverified" /\ mem'[f].w = mem[f].w /\ pc'[f] = "write"
      BY <2>2, <1>0 DEF Unverifiable, Meta
    <3> QED
      BY <3>1, <2>1 DEF Knows, Begun, Terminal
  <2>3. CASE /\ mem' = [mem EXCEPT ![f].state = Verdict(f)]
             /\ Moves(f, IF Verdict(f) = mem[f].state THEN "back" ELSE "write")
    <3>1. /\ mem'[f].state = Verdict(f) /\ mem'[f].w = mem[f].w
          /\ pc'[f] = IF Verdict(f) = mem[f].state THEN "back" ELSE "write"
      BY <2>3, <1>0 DEF Meta
    <3>2. \/ Verdict(f) \in {mem[f].state, "termination_unverified"}
          \/ Verdict(f) = "failed" /\ (mem[f].c => child # "live") /\ mem[f].state # "termination_unverified"
      BY <2>1, <1>0 DEF Verdict
    <3>3. Verdict(f) \in Begun
      BY <3>2, <2>1 DEF Begun, Terminal
    <3>4. Verdict(f) \in Terminal => Over'
      <4>1. CASE Verdict(f) = mem[f].state
        BY <4>1, <2>1
      <4>2. CASE Verdict(f) = "termination_unverified"
        BY <4>2 DEF Terminal
      <4>3. CASE (mem[f].c => child # "live") /\ mem[f].state # "termination_unverified"
        <5>1. child # "live"
          BY <4>3, <2>1 DEF Begun, Over
        <5>2. Over
          BY <5>1, <2>1 DEF Over, WorkerAlive
        <5> QED
          BY <5>2 DEF Ends
      <4> QED
        BY <4>1, <4>2, <4>3, <3>2
    <3>5. Verdict(f) # mem[f].state => Verdict(f) # "running"
      BY <3>2
    <3> QED
      BY <3>1, <3>3, <3>4, <3>5, <2>1 DEF Knows
  <2> QED
    BY <2>2, <2>3, <1>4 DEF Reprobes
<1>5. CASE WritesVerdict(f)
  <2>1. pc[f] = "write" /\ pc'[f] = "back" /\ mem' = mem
    BY <1>5, <1>0 DEF WritesVerdict
  <2> QED
    BY <2>1 DEF Knows, Ends
<1>6. CASE ReadFails(f) \/ WriteFails(f)
  <2>1. pc'[f] = "idle"
    BY <1>6, <1>0 DEF ReadFails, WriteFails
  <2> QED
    BY <2>1 DEF Knows
<1> QED
  BY <1>1, <1>2, <1>3, <1>4, <1>5, <1>6 DEF ReadStep

\* The cancel, after its reconcile().
LEMMA CancelKnows ==
  ASSUME Invariants, Watching, ~blind', Knows("cancel"), Ends, CancelStep
  PROVE  Knows("cancel")'
<1>0. PlaceTypes /\ FileTypes /\ "cancel" \in Fibers
  BY DEF Invariants, Fibers
<1> USE DEF PlaceTypes, FileTypes, Moves
<1>1. CASE CancelDecides
  <2>1. pc["cancel"] = "back" /\ CancelDecidesDoes
    BY <1>1, CancelDecidesIs DEF CancelDecidesDoes
  <2>2. mem["cancel"].w /\ mem["cancel"].state \in Begun /\ (mem["cancel"].state \in Terminal => Over')
    BY <2>1 DEF Knows, Ends
  <2>3. \/ pc'["cancel"] = "settle" /\ mem' = mem
        \/ pc'["cancel"] = "stop" /\ mem["cancel"].c /\ mem' = mem
        \/ /\ pc'["cancel"] = "record"
           /\ mem'["cancel"].state = "termination_unverified" /\ mem'["cancel"].w = mem["cancel"].w
    <3>1. CASE mem["cancel"].state \in Terminal /\ Moves("cancel", "settle") /\ UNCHANGED mem
      BY <3>1, <1>0
    <3>2. CASE Moves("cancel", "stop") /\ (blind \/ ~mem["cancel"].c <=> blind') /\ UNCHANGED mem
      BY <3>2, <1>0
    <3>3. CASE /\ mem' = [mem EXCEPT !["cancel"].state = "termination_unverified"]
               /\ Moves("cancel", "record")
      BY <3>3, <1>0 DEF Meta
    <3>4. mem["cancel"].state # "waiting"
      BY <2>2 DEF Begun, Terminal
    <3> QED
      BY <2>1, <3>1, <3>2, <3>3, <3>4 DEF CancelDecidesDoes
  <2> QED
    BY <2>2, <2>3 DEF Knows, Begun, Terminal
<1>2. CASE CancelStops
  <2>1. pc["cancel"] = "stop" /\ pc'["cancel"] = "verify" /\ mem' = mem
    BY <1>2, <1>0 DEF CancelStops
  <2> QED
    BY <2>1 DEF Knows, Ends
<1>3. CASE CancelVerifies
  <2>1. /\ pc["cancel"] = "verify" /\ pc'["cancel"] = "record"
        /\ mem'["cancel"].w = mem["cancel"].w
        /\ \/ /\ mem'["cancel"].state = "cancelled"
              /\ ~(mem["cancel"].w /\ WorkerAlive) /\ ~(mem["cancel"].c /\ child = "live")
           \/ mem'["cancel"].state = "termination_unverified"
    BY <1>3, <1>0 DEF CancelVerifies, Meta
  <2>2. mem["cancel"].w /\ mem["cancel"].c
    BY <2>1 DEF Knows
  <2>3. mem'["cancel"].state = "cancelled" => Over'
    BY <2>1, <2>2 DEF Over, WorkerAlive, Ends
  <2> QED
    BY <2>1, <2>2, <2>3 DEF Knows, Begun, Terminal
<1>4. CASE CancelRecords
  <2>1. pc["cancel"] = "record" /\ pc'["cancel"] = "settle" /\ mem' = mem
    BY <1>4, <1>0 DEF CancelRecords
  <2> QED
    BY <2>1 DEF Knows, Ends
<1>5. CASE CancelSettles
  <2>1. pc'["cancel"] = "done"
    BY <1>5, <1>0 DEF CancelSettles
  <2> QED
    BY <2>1 DEF Knows
<1> QED
  BY <1>1, <1>2, <1>3, <1>4, <1>5 DEF CancelStep

LEMMA ReadersKept ==
  ASSUME Invariants, Knowledge, TaskNext, Watching'
  PROVE  \A f \in Fibers : Knows(f)'
<1>0. /\ PlaceTypes /\ FileTypes /\ LaunchOrder /\ LeaseOfRow /\ PidsKnown /\ Stages /\ StartAlone
      /\ ~early' /\ ~blind' /\ ~untold'
  BY DEF Invariants, Watching
<1>1. ~early
  BY <1>0, GhostsStay DEF GhostsKept
<1> USE DEF taskFiles, processes, admission, launcher, fibers, rest, Shared, Unseen, Runtime
<1>2. CASE StartWrites \/ SpawnWorker
  <2>1. (\A f \in Fibers : pc[f] \in {"idle", "done"}) /\ pc' = pc
    BY <1>0, <1>1, <1>2 DEF StartWrites, SpawnWorker, StartAlone
  <2> QED
    BY <2>1 DEF Knows
<1>3. CASE ~StartWrites /\ ~SpawnWorker
  <2>1. Watching /\ Truth /\ \A f \in Fibers : Knows(f)
    BY <1>0, <1>3, WatchingBegins DEF Knowledge, TellsTheTruth, ReadersKnow
  <2>a. ~ParkStep /\ ~PassGate /\ ~CheckCapacity /\ ~StartReads /\ ~RetireLost /\ ~CwdMoves /\ ~RecoverParked
    BY <1>0, <2>1, NotWhileWatching
  <2>b. ~CrashRuntime
    BY <1>0 DEF CrashRuntime, Watching, LaunchOrder
  <2>2. CASE lpc = "spawn"
    <3>1. \A f \in Fibers : pc[f] \in {"idle", "done"}
      BY <2>2, <1>0, <1>1 DEF StartAlone
    <3>2. ASSUME NEW f \in Fibers
          PROVE  ~BeginRead(f) /\ ~ReadStep(f)
      BY <2>2, <3>1, <1>0, BeginReadIs, ReaderKeepsAll DEF BeginReadDoes, ReaderKeeps
    <3>3. ~StatusReturns /\ ~WatchUnread /\ ~WatchSettles /\ ~CancelStep
      BY <3>1 DEF Fibers, StatusReturns, WatchUnread, WatchSettles, CancelStep, CancelDecides, CancelStops,
                  CancelVerifies, CancelRecords, CancelSettles
    <3>4. ~PublishWorker
      BY <2>2 DEF PublishWorker
    <3>5. CASE AllWorker
      <4>1. pc' = pc
        BY <3>5, WorkerDiesIs DEF AllWorker, WorkerStep, WorkerLoads, WorkerPersists, SpawnChild, PersistChild,
              ChildExits, ObserveExit, WorkerFinishes, TimeOut, WorkerDiesDoes
      <4> QED
        BY <4>1, <3>1 DEF Knows
    <3> QED
      BY <3>2, <3>3, <3>4, <3>5, <2>a, <2>b, <1>3 DEF TaskNext, LaunchStep, ParkStep, AllWorker
  <2>3. CASE lpc # "spawn"
    <3>1. Ends
      BY <2>3, <1>0, ProcessesEnd
    <3>2. CASE UNCHANGED <<pc, mem>>
      BY <3>1, <3>2, <2>1, StillKnows
    <3>3. ASSUME NEW f \in Fibers, pc'[f] \in {"idle", "read"}, \A g \in Fibers \ {f} : pc'[g] = pc[g] /\ mem'[g] = mem[g]
          PROVE  \A g \in Fibers : Knows(g)'
      <4>1. Knows(f)'
        BY <3>3 DEF Knows
      <4> QED
        BY <4>1, <3>3, <3>1, <2>1, StillKnows
    <3>4. ASSUME NEW f \in Fibers, BeginRead(f)
          PROVE  \A g \in Fibers : Knows(g)'
      <4>1. pc'[f] = "read" /\ \A g \in Fibers \ {f} : pc'[g] = pc[g] /\ mem'[g] = mem[g]
        BY <3>4, <1>0, BeginReadIs DEF BeginReadDoes, Moves, PlaceTypes
      <4> QED
        BY <4>1, <3>3
    <3>5. ASSUME NEW f \in Fibers, ReadStep(f)
          PROVE  \A g \in Fibers : Knows(g)'
      <4>1. \A g \in Fibers \ {f} : pc'[g] = pc[g] /\ mem'[g] = mem[g]
        BY <3>5, <1>0, RereadsMetaIs DEF ReadStep, ReadsMeta, ProbesWorker, RereadsMetaDoes, Reprobes, WritesVerdict,
                       ReadFails, WriteFails, Unverifiable, Moves, PlaceTypes, FileTypes
      <4>2. Knows(f)'
        BY <3>5, <3>1, <2>1, <1>0, ReaderKnows
      <4> QED
        BY <4>1, <4>2, <3>1, <2>1, StillKnows
    <3>6. CASE StatusReturns \/ WatchUnread \/ WatchSettles
      <4>1. PICK f \in Fibers : pc'[f] = "idle" /\ \A g \in Fibers \ {f} : pc'[g] = pc[g] /\ mem'[g] = mem[g]
        BY <3>6, <1>0, WatchUnreadIs DEF StatusReturns, WatchUnreadDoes, WatchSettles, Moves, Fibers, PlaceTypes, FileTypes
      <4> QED
        BY <4>1, <3>3
    <3>7. CASE CancelStep
      <4>1. \A g \in Fibers \ {"cancel"} : pc'[g] = pc[g] /\ mem'[g] = mem[g]
        <5>1. CASE CancelDecides
          BY <5>1, <1>0, CancelDecidesIs DEF CancelDecidesDoes, Moves, PlaceTypes, FileTypes
        <5>2. CASE CancelStops \/ CancelVerifies \/ CancelRecords \/ CancelSettles
          BY <5>2, <1>0 DEF CancelStops, CancelVerifies, CancelRecords, CancelSettles, Moves, PlaceTypes, FileTypes
        <5> QED
          BY <5>1, <5>2, <3>7 DEF CancelStep
      <4>2. Knows("cancel")'
        BY <3>7, <3>1, <2>1, <1>0, CancelKnows DEF Fibers
      <4> QED
        BY <4>1, <4>2, <3>1, <2>1, StillKnows
    <3>8. CASE AllWorker
      BY <3>8, <3>2, WorkerDiesIs DEF AllWorker, WorkerStep, WorkerLoads, WorkerPersists, SpawnChild, PersistChild,
              ChildExits, ObserveExit, WorkerFinishes, TimeOut, WorkerDiesDoes
    <3>9. CASE PublishWorker
      BY <3>9, <3>2 DEF PublishWorker
    <3> QED
      BY <3>4, <3>5, <3>6, <3>7, <3>8, <3>9, <2>a, <2>b, <1>3 DEF TaskNext, LaunchStep, ParkStep, AllWorker
  <2> QED
    BY <2>2, <2>3
<1> QED
  BY <1>2, <1>3

\* A slot is given back when the task is over.
LEMMA SettledKept ==
  ASSUME Invariants, Knowledge, TaskNext
  PROVE  SettledWhenOver'
<1> SUFFICES ASSUME lease' = "settled", ~early', ~blind', ~untold'
             PROVE  Over'
  BY DEF SettledWhenOver
<1>0. /\ PlaceTypes /\ FileTypes /\ FlagTypes /\ LaunchOrder /\ LeaseOfRow /\ PidsKnown /\ StartAlone
      /\ ~early /\ ~blind /\ ~untold
  BY GhostsStay DEF Invariants, GhostsKept
<1> USE DEF taskFiles, processes, admission, launcher, fibers, rest, Shared, Unseen, Runtime
<1>1. CASE lease = "settled"
  <2>1. lpc # "spawn" /\ Over
    BY <1>0, <1>1 DEF LaunchOrder, Knowledge, SettledWhenOver
  <2> QED
    BY <2>1, <1>0, OverStays
<1>2. CASE lease # "settled"
  <2>1. CASE lpc \in {"gate", "capacity", "read", "write", "spawn"} /\ lpc' = "idle" /\ UNCHANGED <<wrk, child>>
    BY <2>1, <1>0 DEF LaunchOrder, PidsKnown, Over
  <2>2. ASSUME NEW f \in Fibers, watched, pc[f] \in {"back", "settle"}, mem[f].state \in Terminal, UNCHANGED <<wrk, child>>
        PROVE  Over'
    <3>1. Watching /\ Knows(f)
      BY <2>2, <1>0 DEF Watching, LaunchOrder, Knowledge, ReadersKnow
    <3> QED
      BY <3>1, <2>2 DEF Knows, Over
  <2>3. CASE PassGate
    BY <2>3, <2>1, <1>2 DEF PassGate, SettleLease
  <2>4. CASE CheckCapacity \/ StartWrites \/ SpawnWorker
    BY <2>4, <2>1, <1>2 DEF CheckCapacity, StartWrites, SpawnWorker, StartFails, SettleLease
  <2>5. CASE StartReads
    <3>1. lpc = "read" /\ UNCHANGED <<wrk, child>>
      BY <2>5, StartReadsIs DEF StartReadsDoes
    <3>2. lpc' = "idle" \/ lease' = lease
      BY <2>5, StartReadsIs DEF StartReadsDoes, StartFails
    <3> QED
      BY <3>1, <3>2, <2>1, <1>2
  <2>6. CASE WatchSettles
    BY <2>6, <2>2, <1>2 DEF WatchSettles, SettleWatched, Fibers
  <2>7. CASE CancelSettles
    BY <2>7, <2>2, <1>2 DEF CancelSettles, SettleWatched, Fibers
  <2>8. CASE ParkStep \/ Others
    BY <2>8, <1>2, <1>0 DEF ParkStep, EnqueueTask, Reserve, Retire, Grant, Others, CrashRuntime, RetireLost,
                       CwdMoves, RecoverParked
  \* Whoever settles the lease of a command he lost sight of knows that he did.
  <2>9. ~PublishWorker
    BY <1>2 DEF PublishWorker
  <2>10. CASE AllWorker
    BY <2>10, <1>2, WorkerDiesIs DEF AllWorker, WorkerStep, WorkerLoads, WorkerPersists, SpawnChild, PersistChild,
              ChildExits, ObserveExit, WorkerFinishes, TimeOut, WorkerDiesDoes
  <2>11. ASSUME NEW f \in Fibers, BeginRead(f) \/ ReadStep(f)
         PROVE  lease' = lease
    BY <2>11, BeginReadIs, ReaderKeepsAll DEF BeginReadDoes, ReaderKeeps
  <2>12. CASE StatusReturns \/ CancelStops \/ CancelVerifies \/ CancelRecords
    BY <2>12, <1>2 DEF StatusReturns, CancelStops, CancelVerifies, CancelRecords
  <2>13. CASE CancelDecides
    BY <2>13, <1>2, CancelDecidesIs DEF CancelDecidesDoes
  <2>14. CASE WatchUnread
    <3>1. lease' = lease \/ (watched /\ (untold \/ watched <=> untold'))
      BY <2>14, WatchUnreadIs, Zenon DEF WatchUnreadDoes, SettleWatched
    <3> QED
      BY <3>1, <1>2
  <2> QED
    BY <2>3, <2>4, <2>5, <2>6, <2>7, <2>8, <2>9, <2>10, <2>11, <2>12, <2>13, <2>14, <1>2
       DEF TaskNext, LaunchStep, CancelStep, ParkStep, Others, AllWorker
<1> QED
  BY <1>1, <1>2

LEMMA StartAloneKept ==
  ASSUME Invariants, TaskNext
  PROVE  StartAlone'
<1> DEFINE Alone == /\ \A f \in Fibers : pc'[f] \in {"idle", "done"}
                    /\ lpc' = "write" => meta'.state = "waiting"
                    /\ lpc' = "spawn" => meta'.state = "running"
<1> SUFFICES ASSUME ~early', lpc' \in {"write", "spawn", "publish"}
             PROVE  Alone
  BY DEF StartAlone
<1>0. PlaceTypes /\ FileTypes /\ LaunchOrder /\ LeaseOfRow /\ PidsKnown /\ Stages /\ StartAlone /\ ~early
  BY GhostsStay DEF Invariants, GhostsKept
<1> USE DEF taskFiles, processes, admission, launcher, fibers, rest, Shared, Unseen, Runtime
<1>1. CASE StartReads
  <2>1. lpc' \in {"write", "idle"} /\ UNCHANGED <<pc, mem>>
    BY <1>1, StartReadsIs DEF StartReadsDoes, StartFails
  <2>2. /\ meta.state = "waiting"
        /\ early \/ InHand <=> early'
    BY <1>1, <2>1, StartReadsIs, Zenon DEF StartReadsDoes, StartFails
  <2>3. meta' = meta
    BY <1>1, StartReadsIs DEF StartReadsDoes, StartFails
  <2>4. \A f \in Fibers : pc[f] \in {"idle", "settle", "done"}
    BY <2>2 DEF InHand
  <2>5. ASSUME NEW f \in Fibers PROVE pc[f] # "settle"
    BY <2>2 DEF Invariants, ReadersPast, Begun, Terminal
  <2> QED
    BY <2>1, <2>2, <2>3, <2>4, <2>5
<1>2. CASE StartWrites
  BY <1>2, <1>0 DEF StartWrites, StartFails, StartAlone, FileTypes, Meta
<1>3. CASE SpawnWorker
  BY <1>3, <1>0 DEF SpawnWorker, StartAlone, StartFails
<1>4. CASE PassGate \/ CheckCapacity \/ PublishWorker \/ Grant \/ CrashRuntime
  BY <1>4, <1>0 DEF PassGate, CheckCapacity, PublishWorker, StartFails, Grant, CrashRuntime
<1>5. CASE ~(LaunchStep \/ Grant \/ CrashRuntime)
  <2>1. lpc' = lpc
    <3>1. CASE EnqueueTask \/ Reserve \/ Retire \/ RetireLost \/ CwdMoves \/ RecoverParked
      BY <3>1 DEF EnqueueTask, Reserve, Retire, RetireLost, CwdMoves, RecoverParked
    <3>2. CASE AllWorker
      BY <3>2, WorkerDiesIs DEF AllWorker, WorkerStep, WorkerLoads, WorkerPersists, SpawnChild, PersistChild,
           ChildExits, ObserveExit, WorkerFinishes, TimeOut, WorkerDiesDoes
    <3>3. ASSUME NEW f \in Fibers, BeginRead(f) \/ ReadStep(f)
          PROVE  lpc' = lpc
      BY <3>3, BeginReadIs, ReaderKeepsAll DEF BeginReadDoes, ReaderKeeps
    <3>4. CASE StatusReturns \/ WatchUnread \/ WatchSettles
      BY <3>4, WatchUnreadIs DEF StatusReturns, WatchUnreadDoes, WatchSettles
    <3>5. CASE CancelStep
      BY <3>5, CancelDecidesIs DEF CancelStep, CancelDecidesDoes, CancelStops, CancelVerifies, CancelRecords, CancelSettles
    <3> QED
      BY <3>1, <3>2, <3>3, <3>4, <3>5, <1>5 DEF TaskNext, AllWorker
  <2>2. /\ \A f \in Fibers : pc[f] \in {"idle", "done"}
        /\ lpc = "write" => meta.state = "waiting"
        /\ lpc = "spawn" => meta.state = "running"
        /\ lpc \in {"write", "spawn"} => wrk = "none" /\ child = "none"
        /\ lease = "held" /\ ~watched /\ starting /\ row \notin {"none", "waiting"} /\ meta.state # "none"
    BY <1>0, <2>1 DEF StartAlone, LaunchOrder, PidsKnown, Stages
  <2>3. ~EnqueueTask /\ ~Reserve /\ ~Retire /\ ~RetireLost /\ ~RecoverParked
    BY <2>2, <1>0 DEF EnqueueTask, Reserve, Retire, RetireLost, RecoverParked, Stages
  <2>4. ASSUME NEW f \in Fibers
        PROVE  ~BeginRead(f) /\ ~ReadStep(f)
    BY <2>1, <2>2, BeginReadIs, ReaderKeepsAll DEF BeginReadDoes, ReaderKeeps
  <2>5. ~StatusReturns /\ ~WatchUnread /\ ~WatchSettles /\ ~CancelStep
    BY <2>2 DEF Fibers, StatusReturns, WatchUnread, WatchSettles, CancelStep, CancelDecides, CancelStops,
                CancelVerifies, CancelRecords, CancelSettles
  <2>6. CASE AllWorker
    <3>1. pc' = pc /\ (wrk # "none" \/ child = "live")
      BY <2>6, WorkerDiesIs DEF AllWorker, WorkerStep, WorkerLoads, WorkerPersists, SpawnChild, PersistChild,
              ChildExits, ObserveExit, WorkerFinishes, TimeOut, WorkerDiesDoes, WorkerAlive
    <3> QED
      BY <3>1, <2>1, <2>2
  <2>7. CASE CwdMoves
    BY <2>7, <2>1, <2>2 DEF CwdMoves
  <2> QED
    BY <2>3, <2>4, <2>5, <2>6, <2>7, <1>5 DEF TaskNext, AllWorker
<1> QED
  BY <1>1, <1>2, <1>3, <1>4, <1>5 DEF LaunchStep

-----------------------------------------------------------------------------
(* The invariant and what it implies.                                      *)

TaskInd == Invariants /\ Knowledge

LEMMA TaskInvariant == TaskSpec => []TaskInd
<1>1. TaskInit => TaskInd
  <2> SUFFICES ASSUME TaskInit PROVE TaskInd
    OBVIOUS
  <2>1. FileTypes /\ PlaceTypes
    BY TaskAssumption DEF TaskInit, FileTypes, PlaceTypes, Meta, NoMeta, MetaStates
  <2>2. FlagTypes
    BY Zenon DEF TaskInit, FlagTypes
  <2>3. LeaseOfRow /\ LaunchOrder /\ PidsKnown /\ StartAlone
    BY DEF TaskInit, LeaseOfRow, LaunchOrder, PidsKnown, StartAlone, NoMeta
  <2>4. Stages /\ Unstarted /\ \A f \in Fibers : ReadersPast(f)
    BY DEF TaskInit, Stages, Unstarted, ReadersPast, NoMeta, WorkerAlive
  <2>5. Knowledge
    BY DEF TaskInit, Knowledge, TellsTheTruth, ReadersKnow, SettledWhenOver, Watching
  <2> QED
    BY <2>1, <2>2, <2>3, <2>4, <2>5 DEF TaskInd, Invariants
<1>2. TaskInd /\ [TaskNext]_taskVars => TaskInd'
  <2> SUFFICES ASSUME TaskInd, [TaskNext]_taskVars PROVE TaskInd'
    OBVIOUS
  <2>0. /\ FileTypes /\ FlagTypes /\ PlaceTypes /\ LeaseOfRow /\ LaunchOrder /\ PidsKnown
        /\ Stages /\ Unstarted /\ StartAlone
        /\ \A f \in Fibers : ReadersPast(f)
    BY DEF TaskInd, Invariants
  <2>1. CASE TaskNext
    <3>1. FileTypes' /\ FlagTypes' /\ PlaceTypes' /\ LeaseOfRow' /\ LaunchOrder' /\ PidsKnown'
      BY <2>0, <2>1, FileTypesKept, FlagTypesKept, PlaceTypesKept, LaunchOrderKept, PidsKnownKept
    <3>2. Stages' /\ Unstarted' /\ \A f \in Fibers : ReadersPast(f)'
      BY <2>0, <2>1, StagesKept, UnstartedKept, ReadersPastKept
    <3>3. StartAlone' /\ SettledWhenOver'
      BY <2>1, StartAloneKept, SettledKept DEF TaskInd
    <3>4. TellsTheTruth'
      BY <2>1, TruthKept DEF TaskInd, TellsTheTruth
    <3>5. ReadersKnow'
      BY <2>1, ReadersKept DEF TaskInd, ReadersKnow
    <3> QED
      BY <3>1, <3>2, <3>3, <3>4, <3>5 DEF TaskInd, Invariants, Knowledge
  <2>2. CASE UNCHANGED taskVars
    <3> USE <2>2 DEF taskVars
    <3>1. FileTypes' /\ FlagTypes' /\ PlaceTypes' /\ LeaseOfRow' /\ LaunchOrder' /\ PidsKnown' /\ StartAlone'
      BY <2>0 DEF FileTypes, FlagTypes, PlaceTypes, LeaseOfRow, LaunchOrder, PidsKnown, StartAlone
    <3>2. Stages' /\ Unstarted' /\ \A f \in Fibers : ReadersPast(f)'
      BY <2>0 DEF Stages, Unstarted, ReadersPast, WorkerAlive
    <3>3. Knowledge'
      BY DEF TaskInd, Knowledge, TellsTheTruth, ReadersKnow, SettledWhenOver, Watching, Truth, Knows, Over, WorkerAlive
    <3> QED
      BY <3>1, <3>2, <3>3 DEF TaskInd, Invariants
  <2> QED
    BY <2>1, <2>2
<1> QED
  BY <1>1, <1>2, PTL DEF TaskSpec

LEMMA SpawnsOnly ==
  ASSUME TaskNext, spawns' # spawns
  PROVE  lpc = "spawn" /\ spawns' = spawns + 1
<1> USE DEF taskFiles, processes, admission, launcher, fibers, rest, Shared, Unseen, Runtime
<1>1. ~ParkStep /\ ~Others
  BY DEF ParkStep, EnqueueTask, Reserve, Retire, Grant, Others, CrashRuntime, RetireLost, CwdMoves, RecoverParked
<1>2. ~StartReads
  BY StartReadsIs DEF StartReadsDoes
<1>3. ~PassGate /\ ~CheckCapacity /\ ~StartWrites /\ ~PublishWorker
  BY DEF PassGate, CheckCapacity, StartWrites, PublishWorker
<1>4. ~AllWorker
  BY WorkerDiesIs DEF AllWorker, WorkerStep, WorkerLoads, WorkerPersists, SpawnChild, PersistChild, ChildExits,
     ObserveExit, WorkerFinishes, TimeOut, WorkerDiesDoes
<1>5. \A f \in Fibers : ~BeginRead(f) /\ ~ReadStep(f)
  BY BeginReadIs, ReaderKeepsAll DEF BeginReadDoes, ReaderKeeps
<1>6. ~StatusReturns /\ ~WatchUnread /\ ~WatchSettles /\ ~CancelStep
  BY WatchUnreadIs, CancelDecidesIs DEF StatusReturns, WatchUnreadDoes, WatchSettles, CancelStep, CancelDecidesDoes,
     CancelStops, CancelVerifies, CancelRecords, CancelSettles
<1>7. SpawnWorker
  BY <1>1, <1>2, <1>3, <1>4, <1>5, <1>6 DEF TaskNext, LaunchStep, ParkStep, Others, AllWorker
<1> QED
  BY <1>7 DEF SpawnWorker

\* Before a worker was started, and nobody overlaps the start, an end is only
\* followed by an end.
LEMMA EndsStay ==
  ASSUME TaskInd, TaskNext, ~early, wrk = "none", meta.state \in Terminal
  PROVE  meta'.state \in Terminal
<1>0. /\ FileTypes /\ FlagTypes /\ PlaceTypes /\ LaunchOrder /\ PidsKnown /\ Stages /\ Unstarted /\ StartAlone
      /\ \A f \in Fibers : ReadersPast(f)
  BY DEF TaskInd, Invariants
<1>1. lpc \notin {"write", "spawn", "publish"} /\ child # "live"
  BY <1>0 DEF StartAlone, Unstarted, PidsKnown, Terminal
<1> USE DEF taskFiles, processes, admission, launcher, fibers, rest, Shared, Unseen, Runtime
<1>2. FailWaiting => meta' = meta
  BY DEF FailWaiting, Terminal
<1>3. CASE ParkStep \/ Others
  <2>1. ~Reserve
    BY <1>0 DEF Reserve, Stages, Terminal
  <2> QED
    BY <2>1, <1>2, <1>3 DEF ParkStep, EnqueueTask, Retire, Grant, Others, CrashRuntime, RetireLost, CwdMoves, RecoverParked
<1>4. CASE LaunchStep
  <2>1. CASE StartReads
    BY <2>1, <1>2, StartReadsIs DEF StartReadsDoes
  <2>2. ~StartWrites /\ ~SpawnWorker /\ ~PublishWorker
    BY <1>1 DEF StartWrites, SpawnWorker, PublishWorker
  <2>3. CASE PassGate \/ CheckCapacity
    BY <2>3, <1>2 DEF PassGate, CheckCapacity
  <2> QED
    BY <2>1, <2>2, <2>3, <1>4 DEF LaunchStep
<1>5. CASE AllWorker
  <2>1. meta' = meta
    BY <1>5, <1>1, WorkerDiesIs DEF AllWorker, WorkerStep, WorkerLoads, WorkerPersists, SpawnChild, PersistChild,
           ChildExits, ObserveExit, WorkerFinishes, TimeOut, WorkerDiesDoes
  <2> QED
    BY <2>1
<1>6. ASSUME NEW f \in Fibers, pc[f] \in {"write", "record"}
      PROVE  mem[f].state \in Terminal
  <2>1. mem[f].state \in Begun
    BY <1>0, <1>6 DEF ReadersPast
  <2>2. mem[f].state \notin {"running", "termination_unverified"}
    BY <1>0, <1>6 DEF Unstarted
  <2> QED
    BY <2>1, <2>2 DEF Begun
<1>7. ASSUME NEW f \in Fibers, BeginRead(f) \/ ReadStep(f)
      PROVE  meta'.state \in Terminal
  <2>1. CASE WritesVerdict(f)
    BY <2>1, <1>6 DEF WritesVerdict
  <2>2. CASE ~WritesVerdict(f)
    BY <2>2, <1>7, BeginReadIs, ReaderKeepsAll DEF BeginReadDoes, ReaderKeeps
  <2> QED
    BY <2>1, <2>2
<1>8. CASE StatusReturns \/ WatchUnread \/ WatchSettles
  BY <1>8, WatchUnreadIs DEF StatusReturns, WatchUnreadDoes, WatchSettles
<1>9. CASE CancelStep
  <2>1. CASE CancelRecords
    BY <2>1, <1>6 DEF CancelRecords, Fibers
  <2>2. CASE ~CancelRecords
    BY <2>2, <1>9, CancelDecidesIs DEF CancelStep, CancelDecidesDoes, CancelStops, CancelVerifies, CancelSettles
  <2> QED
    BY <2>1, <2>2
<1> QED
  BY <1>3, <1>4, <1>5, <1>7, <1>8, <1>9 DEF TaskNext, ParkStep, Others, AllWorker

(* task.json, the processes and the places of every fiber have the types   *)
(* the code gives them, whatever is read, written back or killed.          *)
THEOREM TaskTypeCorrect == TaskSpec => []TaskTypeOK
<1>1. TaskInd => TaskTypeOK
  BY TaskTypesSplit DEF TaskInd, Invariants
<1> QED
  BY <1>1, TaskInvariant, PTL

(* A held slot has a start under way or a watch that gives it back, and    *)
(* settleHeavyTask(), cancel(), the failed starts and the watch that gives *)
(* up let go of it only when the command is gone, unless one of them       *)
(* worked on what it had read before the start was complete, the command's *)
(* pid was not in the task.json it read, or a failed read or write had     *)
(* hidden the command.                                                     *)
THEOREM SlotsCoverCommands == TaskSpec => []SlotCoversCommand
<1>1. TaskInd => SlotCoversCommand
  BY DEF TaskInd, Invariants, Knowledge, LaunchOrder, SettledWhenOver, Over, SlotCoversCommand
<1> QED
  BY <1>1, TaskInvariant, PTL

(* A task that was cancelled or failed while it was parked is neither      *)
(* written as running again nor launched, by a grant, a wake, a recovery   *)
(* or a reader, unless a cancel or a reader overlapped startReserved(); no *)
(* task is launched twice.                                                 *)
THEOREM EndedTasksStayDown == TaskSpec => EndedNeverLaunched
<1> DEFINE Step == /\ spawns' > spawns => spawns = 0
                   /\ spawns = 0 /\ meta.state \in Terminal => early \/ (meta'.state \in Terminal /\ spawns' = 0)
<1>1. TaskInd /\ [TaskNext]_taskVars => [Step]_taskVars
  <2> SUFFICES ASSUME TaskInd, TaskNext
               PROVE  Step
    OBVIOUS
  <2>0. LaunchOrder /\ StartAlone /\ LaunchOrder'
    BY LaunchOrderKept DEF TaskInd, Invariants
  <2>1. spawns \in {0, 1} /\ spawns' \in {0, 1} /\ (spawns = 0 => wrk = "none")
    BY <2>0 DEF LaunchOrder
  <2>2. ASSUME spawns = 0, meta.state \in Terminal, ~early
        PROVE  meta'.state \in Terminal /\ spawns' = 0
    <3>1. meta'.state \in Terminal
      BY <2>1, <2>2, EndsStay
    <3>2. lpc # "spawn"
      BY <2>0, <2>2 DEF StartAlone, Terminal
    <3> QED
      BY <2>2, <3>1, <3>2, SpawnsOnly
  <2> QED
    BY <2>1, <2>2
<1> QED
  BY <1>1, TaskInvariant, PTL DEF TaskSpec, EndedNeverLaunched

=============================================================================
