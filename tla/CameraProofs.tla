---------------------------- MODULE CameraProofs ----------------------------
(***************************************************************************)
(* What holds of the camera driver for any number of frames, regions,      *)
(* buffers, requests and calls: the frames in shared memory, the preview,  *)
(* the native pipeline and the tuning tool.                                *)
(***************************************************************************)
EXTENDS CameraPath, FiniteSetTheorems, SequenceTheorems, TLAPS

-----------------------------------------------------------------------------
(* Frames in shared memory.                                                *)

Regions == 1 .. MaxRegions
Locks == {"free", "dead", "writer", "hmi", "photo"}
SlotRecords == [lock : Locks, head : Nat, data : Nat]
RegionRecords == [sized : BOOLEAN, ready : BOOLEAN, active : SlotIds, gen : Nat,
                  slot : [SlotIds -> SlotRecords]]
WriterPlaces == {"off", "create", "size", "init", "up", "lock", "head", "data", "active", "count"}
ReaderPlaces == {"open", "check", "lock", "copy", "deliver", "sync", "link"}

SharedTypeOK ==
    /\ shm \in [name : 0 .. MaxRegions, made : 0 .. MaxRegions, region : [Regions -> RegionRecords]]
    /\ cdrv \in [pc : WriterPlaces, region : 0 .. MaxRegions, slot : SlotIds]
    /\ cdrv.pc \notin {"off", "create"} => cdrv.region \in Regions
    /\ rd \in [Readers -> [pc : ReaderPlaces, region : 0 .. MaxRegions, slot : SlotIds,
                           head : Nat, data : Nat]]
    /\ \A r \in Readers : rd[r].pc # "open" => rd[r].region \in Regions
    /\ photo \in [final : {"none", "synced"}, temp : {"none", "written", "synced"}]

(* Only the writer at work, or one that died, leaves header and payload    *)
(* apart; a reader that copies has the lock.                               *)
SlotsAgree ==
    \A g \in Regions, i \in SlotIds :
        LET s == shm.region[g].slot[i] IN s.lock \in {"free", "hmi", "photo"} => s.head = s.data

WriterLocks ==
    /\ cdrv.pc \in {"head", "data"} => shm.region[cdrv.region].slot[cdrv.slot].lock = "writer"
    /\ cdrv.pc = "data" =>
         shm.region[cdrv.region].slot[cdrv.slot].head = shm.region[cdrv.region].gen + 1

ReadersLock ==
    \A r \in Readers :
        /\ rd[r].pc = "copy" => shm.region[rd[r].region].slot[rd[r].slot].lock = r
        /\ rd[r].head = rd[r].data

PhotoSynced == rd["photo"].pc = "link" => photo.temp = "synced"

SharedInv == SharedTypeOK /\ SlotsAgree /\ WriterLocks /\ ReadersLock /\ PhotoSynced

-----------------------------------------------------------------------------
(* The preview.                                                            *)

CapPlaces == {"off", "top", "timeout", "get", "missing", "backoff", "reopen", "read", "got",
              "empty", "gone", "lost"}
IspPlaces == {"off", "wait", "falling", "asleep", "process", "deliver", "ending"}
PreviewStates == {"stopped", "running", "recovering", "faulted"}

SourceRecords ==
    [run : BOOLEAN, recover : BOOLEAN, expired : BOOLEAN, stop : BOOLEAN,
     callback : BOOLEAN, device : {"none", "open"}, gen : 0 .. MaxGenerations,
     deadline : {"none", "ahead", "past"}, queue : Seq(0 .. MaxGenerations),
     cap : CapPlaces, isp : IspPlaces, frame : 0 .. MaxGenerations]

SourceTypeOK ==
    /\ src \in SourceRecords
    /\ reconnects \in [0 .. MaxGenerations -> Nat]

ServiceRecords ==
    [state : PreviewStates, error : BOOLEAN, await : BOOLEAN, frames : BOOLEAN,
     handle : {"none", "sunk"}, calls : Nat, down : BOOLEAN]
CallerRecords ==
    [pc : {"free", "stop", "join", "stopped", "starting", "started"},
     op : {"none", "start", "stop", "check"}, req : Requests \cup {"none"},
     prev : PreviewStates]
ServiceTypeOK == cam \in ServiceRecords /\ ctl \in CallerRecords

(* A generation has a deadline until it is counted, and no later one has   *)
(* been opened.                                                            *)
CountedOnce ==
    /\ \A g \in 0 .. MaxGenerations : reconnects[g] <= 1 /\ (g > src.gen => reconnects[g] = 0)
    /\ src.deadline # "none" => reconnects[src.gen] = 0

Silent == src.cap = "off" /\ src.isp = "off" /\ ~src.callback

PreviewInv ==
    /\ SourceTypeOK /\ ServiceTypeOK /\ CountedOnce
    /\ (ctl = Free /\ cam.state = "stopped") \/ ctl.pc \in {"stopped", "starting"} => Silent
    /\ ctl.pc \in {"starting", "started"} =>
         ctl.op = "start" /\ (ctl.prev = "faulted" => cam.state \in {"recovering", "running"})
    /\ cam.state = "running" => ~cam.error

-----------------------------------------------------------------------------
(* The native pipeline.                                                    *)

NativePlaces == {"off", "exit", "acquire", "publish", "reserve", "enqueue", "discard", "pop",
                 "convert", "use", "write"}

NativeRecords ==
    [running : BOOLEAN, session : Nat, alive : BOOLEAN, stop : {"none", "join", "capture"},
     encoding : BOOLEAN, slot : [Slots -> {"argus", "leased", "pending"}],
     preview : Seq(Slots), transform : Seq(Slots), retired : SUBSET Slots,
     shared : SUBSET Slots, retained : Nat, at : [Threads -> NativePlaces],
     has : [Threads -> Slots \cup {None}], starved : BOOLEAN, stuck : BOOLEAN]
TuningRecords ==
    [revision : Nat, next : Nat, fault : BOOLEAN, sent : SUBSET (Nat \X Nat), reused : BOOLEAN,
     read : [TuningClients -> Nat \X Nat]]

(* Who may hold a frame, the producer apart.                               *)
Others(n) ==
    {n.has["preview"], n.has["encode"]} \cup Range2(n.preview) \cup Range2(n.transform)
    \cup n.retired

(* A buffer is leased exactly while somebody holds it; only the producer   *)
(* holds one that is not wrapped and counted.                              *)
Counted(n) ==
    /\ n.shared \subseteq Outstanding(n)
    /\ Others(n) \cap Slots \subseteq n.shared
    /\ n.retained = Cardinality(n.shared) /\ n.retained <= Budget
Leases(n) == Counted(n) /\ \A s \in Slots : n.slot[s] = "leased" <=> s \in Holders(n)

Wrapping == {"publish", "reserve", "enqueue"}
Places(n) ==
    /\ n.at["producer"] \in Wrapping <=> n.has["producer"] # None
    /\ n.at["producer"] \in {"publish", "reserve"} => n.has["producer"] \notin n.shared
    /\ n.at["producer"] = "enqueue" => n.has["producer"] \in n.shared
    /\ \A t \in {"preview", "encode"} : n.has[t] # None => n.at[t] = "convert"
    /\ n.at["producer"] \in {"reserve", "enqueue"} => n.preview = << >>
    /\ n.at["producer"] # "reserve" => n.retired = {}
    /\ (\A t \in Threads : n.at[t] = "off") \/ n.stop = "capture" =>
         n.preview = << >> /\ n.transform = << >>
    /\ n.stop = "capture" => \A t \in Threads : n.at[t] = "exit"
    /\ (\E t \in Threads : n.at[t] = "off") => \A t \in Threads : n.at[t] = "off"

Sound(n) == n \in NativeRecords /\ Leases(n) /\ Places(n) /\ ~n.starved /\ ~n.stuck

RequestsNumbered ==
    \A id \in tune.sent : id[1] <= nat.session /\ (id[1] = nat.session => id[2] < tune.next)

NativeInv ==
    /\ Sound(nat) /\ tune \in TuningRecords /\ RequestsNumbered
    /\ RevisionNamesOneRequest

-----------------------------------------------------------------------------
(* The tuning tool.                                                        *)

Saving == {"write", "sync", "rename", "dirsync"}
ToolPlaces == {"off", "start", "phase", "do", "stop"} \cup Saving
Names == {"default", "kept", "out of range", "patched", "manual", "50hz", "60hz", "locked"}
Settings == Names \X BOOLEAN
ToolSteps == {"set", "phase", "save", "apply", "refuse"} \X Settings
Devices == {"this", "another sensor"}
Commands == {"get", "set", "reset", "verify", "save", "save as is", "load"}
Contents == [kind : {"none", "part", "profile"}, set : Settings,
             device : Devices]
DaemonRequests == [revision : Nat, set : Settings]
ToolRecords ==
    [at : ToolPlaces,
     action : Commands \cup {"none"},
     plan : Seq(ToolSteps), todo : Seq(ToolSteps), cycles : Int, commands : Nat, matched : Nat,
     left : Int, verify : BOOLEAN, before : Settings,
     rollback : {"none", "attempted", "succeeded"}, passed : BOOLEAN, verified : BOOLEAN]
SessionRecords ==
    [open : BOOLEAN, revision : Nat, next : Nat, requested : Settings, accepted : Settings,
     fault : BOOLEAN, sent : Seq(DaemonRequests), last : DaemonRequests]
FileRecords ==
    [name : Contents, disk : Contents, temp : Contents, synced : BOOLEAN, whole : BOOLEAN,
     promise : Contents]
ToolTypeOK == tool \in ToolRecords /\ argus \in SessionRecords /\ file \in FileRecords

(* A save comes right after a phase, and the first phase is a warm-up.     *)
SavesFollowPhases(q) == \A i \in 2 .. Len(q) : q[i][1] = "save" => q[i - 1][1] = "phase"
SavesNext(q) == q # << >> /\ q[1][1] = "save"

SaveIsVerified ==
    /\ SavesFollowPhases(tool.plan) /\ SavesFollowPhases(tool.todo) /\ ~SavesNext(tool.plan)
    /\ SavesNext(tool.todo) => /\ tool.at = "phase" => tool.verify
                               /\ tool.at = "do" => tool.verified
    /\ tool.at \in Saving => tool.verified /\ SavesNext(tool.todo)

FileKept(f) ==
    /\ f.whole /\ f.name.kind # "part" /\ f.disk.kind # "part"
    /\ f.promise # Nothing => f.name = f.promise /\ f.disk = f.promise
FileWhole ==
    /\ FileKept(file)
    /\ tool.at \in {"sync", "rename"} => file.temp.kind = "profile"
    /\ tool.at = "rename" => file.synced

(* The way back: first the old settings are sent, then they are looked for.  *)
WayBack ==
    /\ tool.at = "phase" => tool.matched < PhaseFrames
    /\ tool.rollback # "none" /\ tool.at = "do" =>
         \/ tool.todo = << <<"set", tool.before>>, Look >> /\ tool.rollback = "attempted"
         \/ tool.todo = << Look >> /\ argus.requested = tool.before
            /\ tool.rollback = "attempted"
         \/ tool.todo = << >> /\ tool.rollback = "succeeded"
    /\ tool.rollback # "none" /\ tool.at = "phase" =>
         /\ tool.todo = << >> /\ tool.verify /\ argus.requested = tool.before
         /\ tool.rollback = "attempted"
    /\ tool.rollback # "none" => tool.at \in {"do", "phase", "stop", "off"}
    /\ tool.rollback # "none" /\ tool.at = "stop" => tool.cycles = 0

ToolInv ==
    ToolTypeOK /\ SaveIsVerified /\ FileWhole /\ WayBack /\ RollbackIsObserved

-----------------------------------------------------------------------------
(* The region after a write to one slot.                                   *)
LEMMA SlotWritten ==
    ASSUME SharedTypeOK, NEW g \in Regions, NEW i \in SlotIds, NEW v \in SlotRecords,
           shm' = [shm EXCEPT !.region[g].slot[i] = v]
    PROVE  /\ shm' \in [name : 0 .. MaxRegions, made : 0 .. MaxRegions,
                        region : [Regions -> RegionRecords]]
           /\ shm'.region[g].slot[i] = v
           /\ \A h \in Regions, j \in SlotIds :
                h # g \/ j # i => shm'.region[h].slot[j] = shm.region[h].slot[j]
           /\ \A h \in Regions : shm'.region[h].gen = shm.region[h].gen
  <1> DEFINE row == [shm.region[g].slot EXCEPT ![i] = v]
             one == [shm.region[g] EXCEPT !.slot = row]
             all == [shm.region EXCEPT ![g] = one]
  <1>1. shm \in [name : 0 .. MaxRegions, made : 0 .. MaxRegions,
                 region : [Regions -> RegionRecords]]
    BY DEF SharedTypeOK
  <1>2. shm.region \in [Regions -> RegionRecords] /\ shm.region[g] \in RegionRecords
    BY <1>1
  <1>3. shm.region[g].slot \in [SlotIds -> SlotRecords]
    BY <1>2 DEF RegionRecords
  <1>4. row \in [SlotIds -> SlotRecords] /\ row[i] = v
        /\ \A j \in SlotIds : j # i => row[j] = shm.region[g].slot[j]
    BY <1>3
  <1>5. one \in RegionRecords /\ one.slot = row /\ one.gen = shm.region[g].gen
    BY <1>2, <1>4 DEF RegionRecords
  <1>6. all \in [Regions -> RegionRecords] /\ all[g] = one
        /\ \A h \in Regions : h # g => all[h] = shm.region[h]
    BY <1>2, <1>5
  <1>7. shm' = [shm EXCEPT !.region = all]
    OBVIOUS
  <1>8. shm'.region = all
        /\ shm' \in [name : 0 .. MaxRegions, made : 0 .. MaxRegions,
                     region : [Regions -> RegionRecords]]
    BY <1>1, <1>6, <1>7
  <1> QED BY <1>4, <1>5, <1>6, <1>8

(* A step of the writer that leaves the slots and the readers alone.       *)
LEMMA WriterMoves ==
    ASSUME SharedInv, SharedTypeOK', rd' = rd, photo' = photo,
           \A h \in Regions, j \in SlotIds : shm'.region[h].slot[j] = shm.region[h].slot[j],
           cdrv'.pc \notin {"head", "data"}
    PROVE  SharedInv'
  <1>1. SlotsAgree'
    BY DEF SharedInv, SlotsAgree
  <1>2. WriterLocks'
    BY DEF WriterLocks
  <1>3. ReadersLock'
    BY DEF SharedInv, ReadersLock, SharedTypeOK
  <1> QED BY <1>1, <1>2, <1>3 DEF SharedInv, PhotoSynced

(* What a region keeps when one of its other fields is written.            *)
LEMMA RegionWritten ==
    ASSUME SharedTypeOK, NEW g \in Regions, NEW new \in RegionRecords, NEW n \in 0 .. MaxRegions,
           new.slot = shm.region[g].slot,
           shm' = [shm EXCEPT !.name = n, !.region[g] = new]
    PROVE  /\ shm' \in [name : 0 .. MaxRegions, made : 0 .. MaxRegions,
                        region : [Regions -> RegionRecords]]
           /\ \A h \in Regions, j \in SlotIds : shm'.region[h].slot[j] = shm.region[h].slot[j]
  <1>1. shm \in [name : 0 .. MaxRegions, made : 0 .. MaxRegions,
                 region : [Regions -> RegionRecords]]
    BY DEF SharedTypeOK
  <1>2. [shm.region EXCEPT ![g] = new] \in [Regions -> RegionRecords]
    BY <1>1
  <1>3. shm' = [[shm EXCEPT !.name = n] EXCEPT !.region = [shm.region EXCEPT ![g] = new]]
    BY <1>1
  <1>4. shm'.region = [shm.region EXCEPT ![g] = new]
    BY <1>1, <1>3
  <1> QED BY <1>1, <1>2, <1>3, <1>4

LEMMA NoSlotWritten ==
    ASSUME SharedInv, WriterStarts \/ CreateRegion \/ PublishBegins
    PROVE  SharedInv'
  <1>1. CASE WriterStarts
    <2>1. cdrv' \in [pc : WriterPlaces, region : 0 .. MaxRegions, slot : SlotIds]
          /\ cdrv'.pc = "create"
      BY <1>1 DEF WriterStarts, WriterGoto, SharedInv, SharedTypeOK, WriterPlaces
    <2>2. SharedTypeOK'
      BY <1>1, <2>1 DEF WriterStarts, SharedInv, SharedTypeOK
    <2> QED BY <1>1, <2>1, <2>2, WriterMoves DEF WriterStarts
  <1>2. CASE CreateRegion
    <2>1. shm.made + 1 \in Regions
      BY <1>2, SharedAssumption DEF CreateRegion, SharedInv, SharedTypeOK, Regions
    <2>2. shm' \in [name : 0 .. MaxRegions, made : 0 .. MaxRegions,
                    region : [Regions -> RegionRecords]]
          /\ shm'.region = shm.region
      <3>1. shm \in [name : 0 .. MaxRegions, made : 0 .. MaxRegions,
                     region : [Regions -> RegionRecords]]
        BY DEF SharedInv, SharedTypeOK
      <3>2. shm' = [shm EXCEPT !.name = shm.made + 1, !.made = shm.made + 1]
        BY <1>2 DEF CreateRegion
      <3>3. shm.made + 1 \in 0 .. MaxRegions
        BY <2>1, SharedAssumption DEF Regions
      <3> QED BY <3>1, <3>2, <3>3
    <2>3. cdrv' \in [pc : WriterPlaces, region : 0 .. MaxRegions, slot : SlotIds]
          /\ cdrv'.pc = "size" /\ cdrv'.region \in Regions
      BY <1>2, <2>1 DEF CreateRegion, WriterPlaces, Regions, SlotIds
    <2>4. SharedTypeOK'
      BY <1>2, <2>2, <2>3 DEF CreateRegion, SharedInv, SharedTypeOK
    <2> QED BY <1>2, <2>2, <2>3, <2>4, WriterMoves DEF CreateRegion
  <1>3. CASE PublishBegins
    <2>1. cdrv.region \in Regions
      BY <1>3 DEF PublishBegins, SharedInv, SharedTypeOK
    <2>2. shm.region[cdrv.region] \in RegionRecords
      BY <2>1 DEF SharedInv, SharedTypeOK
    <2>3. Mine.active \in {0, 1}
      BY <2>2 DEF Mine, RegionRecords, SlotIds
    <2>4. 1 - Mine.active \in SlotIds
      BY <2>3 DEF SlotIds
    <2>5. cdrv' \in [pc : WriterPlaces, region : 0 .. MaxRegions, slot : SlotIds]
          /\ cdrv'.pc = "lock" /\ cdrv'.region = cdrv.region
      BY <1>3, <2>4 DEF PublishBegins, SharedInv, SharedTypeOK, WriterPlaces
    <2>6. SharedTypeOK'
      BY <1>3, <2>1, <2>5 DEF PublishBegins, SharedInv, SharedTypeOK
    <2> QED BY <1>3, <2>5, <2>6, WriterMoves DEF PublishBegins
  <1> QED BY <1>1, <1>2, <1>3

LEMMA RegionFieldsWritten ==
    ASSUME SharedInv,
           SizeRegion \/ RecoverStale \/ InitRegion \/ PublishActive \/ PublishCount \/ WriterCloses
    PROVE  SharedInv'
  <1>0. /\ shm \in [name : 0 .. MaxRegions, made : 0 .. MaxRegions,
                    region : [Regions -> RegionRecords]]
        /\ cdrv \in [pc : WriterPlaces, region : 0 .. MaxRegions, slot : SlotIds]
        /\ cdrv.pc \notin {"off", "create"} => cdrv.region \in Regions
    BY DEF SharedInv, SharedTypeOK
  <1>1. PICK g, n, new :
          /\ g \in Regions /\ n \in 0 .. MaxRegions /\ new \in RegionRecords
          /\ new.slot = shm.region[g].slot
          /\ shm' = [shm EXCEPT !.name = n, !.region[g] = new]
    <2>1. CASE SizeRegion
      <3> DEFINE new == [shm.region[cdrv.region] EXCEPT !.sized = TRUE]
      <3>1. cdrv.region \in Regions /\ shm.region[cdrv.region] \in RegionRecords
        BY <1>0, <2>1 DEF SizeRegion
      <3>2. new \in RegionRecords /\ new.slot = shm.region[cdrv.region].slot
        BY <3>1 DEF RegionRecords
      <3>3. shm' = [shm EXCEPT !.name = shm.name, !.region[cdrv.region] = new]
        BY <1>0, <2>1 DEF SizeRegion
      <3>4. shm.name \in 0 .. MaxRegions
        BY <1>0, SharedAssumption
      <3> HIDE DEF new
      <3> QED BY <3>1, <3>2, <3>3, <3>4
    <2>2. CASE RecoverStale
      <3> DEFINE new == [shm.region[shm.name] EXCEPT !.ready = FALSE]
      <3>1. shm.name \in Regions /\ shm.region[shm.name] \in RegionRecords
        BY <1>0, <2>2, SharedAssumption DEF RecoverStale, Regions
      <3>2. new \in RegionRecords /\ new.slot = shm.region[shm.name].slot
        BY <3>1 DEF RegionRecords
      <3>3. shm' = [shm EXCEPT !.name = 0, !.region[shm.name] = new]
        BY <1>0, <2>2 DEF RecoverStale
      <3>4. 0 \in 0 .. MaxRegions
        BY <1>0, SharedAssumption
      <3> HIDE DEF new
      <3> QED BY <3>1, <3>2, <3>3, <3>4
    <2>3. CASE InitRegion
      <3> DEFINE new == [shm.region[cdrv.region] EXCEPT !.ready = TRUE]
      <3>1. cdrv.region \in Regions /\ shm.region[cdrv.region] \in RegionRecords
        BY <1>0, <2>3 DEF InitRegion
      <3>2. new \in RegionRecords /\ new.slot = shm.region[cdrv.region].slot
        BY <3>1 DEF RegionRecords
      <3>3. shm' = [shm EXCEPT !.name = shm.name, !.region[cdrv.region] = new]
        BY <1>0, <2>3 DEF InitRegion
      <3>4. shm.name \in 0 .. MaxRegions
        BY <1>0, SharedAssumption
      <3> HIDE DEF new
      <3> QED BY <3>1, <3>2, <3>3, <3>4
    <2>4. CASE PublishActive
      <3> DEFINE new == [shm.region[cdrv.region] EXCEPT !.active = cdrv.slot]
      <3>1. cdrv.region \in Regions /\ shm.region[cdrv.region] \in RegionRecords /\ cdrv.slot \in SlotIds
        BY <1>0, <2>4 DEF PublishActive
      <3>2. new \in RegionRecords /\ new.slot = shm.region[cdrv.region].slot
        BY <3>1 DEF RegionRecords
      <3>3. shm' = [shm EXCEPT !.name = shm.name, !.region[cdrv.region] = new]
        BY <1>0, <2>4 DEF PublishActive
      <3>4. shm.name \in 0 .. MaxRegions
        BY <1>0, SharedAssumption
      <3> HIDE DEF new
      <3> QED BY <3>1, <3>2, <3>3, <3>4
    <2>5. CASE PublishCount
      <3> DEFINE new == [shm.region[cdrv.region] EXCEPT !.gen = shm.region[cdrv.region].gen + 1]
      <3>1. cdrv.region \in Regions /\ shm.region[cdrv.region] \in RegionRecords
        BY <1>0, <2>5 DEF PublishCount
      <3>2. new \in RegionRecords /\ new.slot = shm.region[cdrv.region].slot
        BY <3>1 DEF RegionRecords
      <3>3. shm' = [shm EXCEPT !.name = shm.name, !.region[cdrv.region] = new]
        BY <1>0, <2>5 DEF PublishCount
      <3>4. shm.name \in 0 .. MaxRegions
        BY <1>0, SharedAssumption
      <3> HIDE DEF new
      <3> QED BY <3>1, <3>2, <3>3, <3>4
    <2>6. CASE WriterCloses
      <3> DEFINE new == [shm.region[cdrv.region] EXCEPT !.ready = FALSE]
      <3>1. cdrv.region \in Regions /\ shm.region[cdrv.region] \in RegionRecords
        BY <1>0, <2>6 DEF WriterCloses
      <3>2. new \in RegionRecords /\ new.slot = shm.region[cdrv.region].slot
        BY <3>1 DEF RegionRecords
      <3>3. shm' = [shm EXCEPT !.name = 0, !.region[cdrv.region] = new]
        BY <1>0, <2>6 DEF WriterCloses
      <3>4. 0 \in 0 .. MaxRegions
        BY <1>0, SharedAssumption
      <3> HIDE DEF new
      <3> QED BY <3>1, <3>2, <3>3, <3>4
    <2> QED BY <2>1, <2>2, <2>3, <2>4, <2>5, <2>6
  <1>2. /\ shm' \in [name : 0 .. MaxRegions, made : 0 .. MaxRegions,
                     region : [Regions -> RegionRecords]]
        /\ \A h \in Regions, j \in SlotIds : shm'.region[h].slot[j] = shm.region[h].slot[j]
    BY <1>1, RegionWritten DEF SharedInv
  <1>3. /\ cdrv' \in [pc : WriterPlaces, region : 0 .. MaxRegions, slot : SlotIds]
        /\ cdrv'.pc \notin {"off", "create"} => cdrv'.region \in Regions
        /\ cdrv'.pc \notin {"head", "data"}
    <2>1. CASE RecoverStale
      BY <1>0, <2>1 DEF RecoverStale
    <2>2. CASE WriterCloses
      BY <2>2, SharedAssumption DEF WriterCloses, WriterPlaces, SlotIds
    <2>3. CASE SizeRegion
      BY <1>0, <2>3 DEF SizeRegion, WriterGoto, WriterPlaces
    <2>4. CASE InitRegion
      BY <1>0, <2>4 DEF InitRegion, WriterGoto, WriterPlaces
    <2>5. CASE PublishActive
      BY <1>0, <2>5 DEF PublishActive, WriterGoto, WriterPlaces
    <2>6. CASE PublishCount
      BY <1>0, <2>6 DEF PublishCount, WriterGoto, WriterPlaces
    <2> QED BY <2>1, <2>2, <2>3, <2>4, <2>5, <2>6
  <1>4. rd' = rd /\ photo' = photo
    BY DEF SizeRegion, RecoverStale, InitRegion, PublishActive, PublishCount, WriterCloses
  <1>5. SharedTypeOK'
    BY <1>2, <1>3, <1>4 DEF SharedInv, SharedTypeOK
  <1> QED BY <1>2, <1>3, <1>4, <1>5, WriterMoves

LEMMA SlotKeepsAgreement ==
    ASSUME SharedInv, NEW g \in Regions, NEW i \in SlotIds, NEW v \in SlotRecords,
           shm' = [shm EXCEPT !.region[g].slot[i] = v],
           v.lock \in {"free", "hmi", "photo"} => v.head = v.data
    PROVE  SlotsAgree'
  BY SlotWritten DEF SharedInv, SlotsAgree

LEMMA SlotPublished ==
    ASSUME SharedInv, PublishLocks \/ PublishHead \/ PublishData
    PROVE  SharedInv'
  <1>1. /\ cdrv.region \in Regions /\ cdrv.slot \in SlotIds
        /\ rd' = rd /\ photo' = photo
        /\ \A r \in Readers : rd[r].pc # "open" => rd[r].region \in Regions
        /\ rd \in [Readers -> [pc : ReaderPlaces, region : 0 .. MaxRegions, slot : SlotIds,
                               head : Nat, data : Nat]]
        /\ shm.region \in [Regions -> RegionRecords]
        /\ cdrv \in [pc : WriterPlaces, region : 0 .. MaxRegions, slot : SlotIds]
    BY DEF SharedInv, SharedTypeOK, PublishLocks, PublishHead, PublishData
  <1> DEFINE g == cdrv.region
             i == cdrv.slot
             old == shm.region[g].slot[i]
             next == shm.region[g].gen + 1
  <1>2. shm.region[g] \in RegionRecords
    BY <1>1
  <1>3. old \in SlotRecords /\ next \in Nat /\ shm.region[g].gen \in Nat
    BY <1>1, <1>2 DEF RegionRecords
  <1>4. PICK v, label :
          /\ v \in SlotRecords /\ shm' = [shm EXCEPT !.region[g].slot[i] = v]
          /\ cdrv' = [cdrv EXCEPT !.pc = label] /\ label \in {"head", "data", "active"}
          /\ v.lock \in {"free", "hmi", "photo"} => v.head = v.data
          /\ label # "active" => v.lock = "writer"
          /\ label = "data" => v.head = next
          /\ old.lock \in {"free", "dead", "writer"}
    <2>1. CASE PublishLocks
      <3> DEFINE v == Taken(old, "writer")
      <3>1. v \in SlotRecords /\ v.lock = "writer"
        BY <1>3 DEF Taken, SlotRecords, Locks, EmptySlot
      <3>2. shm' = [shm EXCEPT !.region[g].slot[i] = v]
        BY <2>1 DEF PublishLocks
      <3>3. cdrv' = [cdrv EXCEPT !.pc = "head"] /\ old.lock \in {"free", "dead"}
        BY <2>1 DEF PublishLocks, WriterGoto, LockOf
      <3> HIDE DEF v, old, next, g, i
      <3> QED BY <3>1, <3>2, <3>3
    <2>2. CASE PublishHead
      <3> DEFINE v == [old EXCEPT !.head = next]
      <3>0. old.lock = "writer"
        BY <2>2 DEF PublishHead, SharedInv, WriterLocks
      <3>1. v \in SlotRecords /\ v.lock = "writer" /\ v.head = next
        BY <1>3, <3>0 DEF SlotRecords
      <3>2. shm' = [shm EXCEPT !.region[g].slot[i] = v]
        BY <2>2 DEF PublishHead, Mine
      <3>3. cdrv' = [cdrv EXCEPT !.pc = "data"]
        BY <2>2 DEF PublishHead, WriterGoto
      <3> HIDE DEF v, old, next, g, i
      <3> QED BY <3>0, <3>1, <3>2, <3>3
    <2>3. CASE PublishData
      <3> DEFINE v == [old EXCEPT !.data = next, !.lock = "free"]
      <3>0. old.lock = "writer" /\ old.head = next
        BY <2>3 DEF PublishData, SharedInv, WriterLocks
      <3>1. v \in SlotRecords /\ v.lock = "free" /\ v.head = v.data
        BY <1>3, <3>0 DEF SlotRecords, Locks
      <3>2. shm' = [shm EXCEPT !.region[g].slot[i] = v]
        BY <2>3 DEF PublishData, Mine
      <3>3. cdrv' = [cdrv EXCEPT !.pc = "active"]
        BY <2>3 DEF PublishData, WriterGoto
      <3> HIDE DEF v, old, next, g, i
      <3> QED BY <3>0, <3>1, <3>2, <3>3
    <2> QED BY <2>1, <2>2, <2>3
  <1>5. /\ shm' \in [name : 0 .. MaxRegions, made : 0 .. MaxRegions,
                     region : [Regions -> RegionRecords]]
        /\ shm'.region[g].slot[i] = v
        /\ \A h \in Regions, j \in SlotIds :
             h # g \/ j # i => shm'.region[h].slot[j] = shm.region[h].slot[j]
        /\ \A h \in Regions : shm'.region[h].gen = shm.region[h].gen
    BY <1>1, <1>4, SlotWritten DEF SharedInv
  <1>6. /\ cdrv' \in [pc : WriterPlaces, region : 0 .. MaxRegions, slot : SlotIds]
        /\ cdrv'.pc = label /\ cdrv'.region = g /\ cdrv'.slot = i
    BY <1>1, <1>4 DEF WriterPlaces
  <1>7. SharedTypeOK'
    BY <1>1, <1>5, <1>6 DEF SharedInv, SharedTypeOK
  <1>8. SlotsAgree'
    BY <1>1, <1>4, SlotKeepsAgreement
  <1>9. WriterLocks'
    BY <1>1, <1>4, <1>5, <1>6 DEF WriterLocks
  <1>10. ReadersLock'
    <2> SUFFICES ASSUME NEW r \in Readers
                 PROVE  /\ rd[r].pc = "copy" =>
                             shm'.region[rd[r].region].slot[rd[r].slot].lock = r
                        /\ rd[r].head = rd[r].data
      BY <1>1 DEF ReadersLock
    <2>1. rd[r].head = rd[r].data
      BY DEF SharedInv, ReadersLock
    <2>2. ASSUME rd[r].pc = "copy" PROVE shm'.region[rd[r].region].slot[rd[r].slot].lock = r
      <3>1. shm.region[rd[r].region].slot[rd[r].slot].lock = r /\ rd[r].region \in Regions
        BY <1>1, <2>2 DEF SharedInv, ReadersLock
      <3>2. r \notin {"free", "dead", "writer"} /\ rd[r].slot \in SlotIds
        BY <1>1 DEF Readers
      <3> QED BY <1>4, <1>5, <3>1, <3>2
    <2> QED BY <2>1, <2>2
  <1> QED BY <1>1, <1>7, <1>8, <1>9, <1>10 DEF SharedInv, PhotoSynced

-----------------------------------------------------------------------------
(* Readers.                                                                *)

ReaderRecords == [pc : ReaderPlaces, region : 0 .. MaxRegions, slot : SlotIds,
                  head : Nat, data : Nat]

(* A reader's step that leaves the region as it is.                        *)
LEMMA ReaderMoves ==
    ASSUME SharedInv, shm' = shm, cdrv' = cdrv, NEW r \in Readers, NEW v \in ReaderRecords,
           rd' = [rd EXCEPT ![r] = v],
           v.pc # "copy", v.pc # "open" => v.region \in Regions, v.head = v.data,
           photo' \in [final : {"none", "synced"}, temp : {"none", "written", "synced"}],
           r = "photo" /\ v.pc = "link" => photo'.temp = "synced",
           r # "photo" => photo' = photo
    PROVE  SharedInv'
  <1>1. rd \in [Readers -> ReaderRecords]
    BY DEF SharedInv, SharedTypeOK, ReaderRecords
  <1>2. /\ rd' \in [Readers -> ReaderRecords] /\ rd'[r] = v
        /\ \A q \in Readers : q # r => rd'[q] = rd[q]
    BY <1>1
  <1>3. SharedTypeOK'
    BY <1>2 DEF SharedInv, SharedTypeOK, ReaderRecords
  <1>4. SlotsAgree' /\ WriterLocks'
    BY DEF SharedInv, SlotsAgree, WriterLocks
  <1>5. ReadersLock'
    BY <1>1, <1>2 DEF SharedInv, ReadersLock
  <1>6. PhotoSynced'
    BY <1>2 DEF SharedInv, PhotoSynced, Readers
  <1> QED BY <1>3, <1>4, <1>5, <1>6 DEF SharedInv

(* A reader's step that writes the slot it locks, has locked or clears.    *)
LEMMA ReaderWrites ==
    ASSUME SharedInv, cdrv' = cdrv, photo' = photo,
           NEW r \in Readers, NEW v \in ReaderRecords, NEW w \in SlotRecords,
           rd' = [rd EXCEPT ![r] = v], rd[r].region \in Regions,
           shm' = [shm EXCEPT !.region[rd[r].region].slot[rd[r].slot] = w],
           shm.region[rd[r].region].slot[rd[r].slot].lock \in {"free", "dead", r},
           w.lock \in {"free", r}, w.head = w.data,
           v.region \in Regions \/ v.pc = "open", v.slot = rd[r].slot \/ v.pc # "copy",
           v.pc = "copy" => w.lock = r /\ v.region = rd[r].region,
           v.pc # "link", v.head = v.data
    PROVE  SharedInv'
  <1> DEFINE g == rd[r].region
             i == rd[r].slot
  <1>1. rd \in [Readers -> ReaderRecords]
    BY DEF SharedInv, SharedTypeOK, ReaderRecords
  <1>2. /\ rd' \in [Readers -> ReaderRecords] /\ rd'[r] = v
        /\ \A q \in Readers : q # r => rd'[q] = rd[q]
    BY <1>1
  <1>3. g \in Regions /\ i \in SlotIds /\ r \notin {"free", "dead", "writer"}
    BY <1>1 DEF ReaderRecords, Readers
  <1>4. /\ shm' \in [name : 0 .. MaxRegions, made : 0 .. MaxRegions,
                     region : [Regions -> RegionRecords]]
        /\ shm'.region[g].slot[i] = w
        /\ \A h \in Regions, j \in SlotIds :
             h # g \/ j # i => shm'.region[h].slot[j] = shm.region[h].slot[j]
        /\ \A h \in Regions : shm'.region[h].gen = shm.region[h].gen
    BY <1>3, SlotWritten DEF SharedInv
  <1>5. SharedTypeOK'
    <2>1. \A q \in Readers : rd'[q].pc # "open" => rd'[q].region \in Regions
      BY <1>2 DEF SharedInv, SharedTypeOK
    <2>2. rd' \in [Readers -> [pc : ReaderPlaces, region : 0 .. MaxRegions, slot : SlotIds,
                               head : Nat, data : Nat]]
      BY <1>2 DEF ReaderRecords
    <2> QED BY <2>1, <2>2, <1>4 DEF SharedInv, SharedTypeOK
  <1>6. SlotsAgree'
    BY <1>3, SlotKeepsAgreement
  <1>7. WriterLocks'
    <2>1. /\ cdrv.region \in 0 .. MaxRegions /\ cdrv.slot \in SlotIds
          /\ cdrv.pc \in {"head", "data"} => cdrv.region \in Regions
      BY DEF SharedInv, SharedTypeOK
    <2>2. ASSUME cdrv.pc \in {"head", "data"}
          PROVE  /\ shm'.region[cdrv.region].slot[cdrv.slot]
                      = shm.region[cdrv.region].slot[cdrv.slot]
                 /\ shm'.region[cdrv.region].gen = shm.region[cdrv.region].gen
      <3>1. shm.region[cdrv.region].slot[cdrv.slot].lock = "writer"
        BY <2>2 DEF SharedInv, WriterLocks
      <3>2. cdrv.region # g \/ cdrv.slot # i
        BY <3>1, <1>3
      <3> QED BY <2>1, <2>2, <3>2, <1>4
    <2> QED BY <2>2 DEF SharedInv, WriterLocks
  <1>8. ReadersLock'
    <2> SUFFICES ASSUME NEW q \in Readers
                 PROVE  /\ rd'[q].pc = "copy" =>
                             shm'.region[rd'[q].region].slot[rd'[q].slot].lock = q
                        /\ rd'[q].head = rd'[q].data
      BY DEF ReadersLock
    <2>1. CASE q = r
      BY <2>1, <1>2, <1>4
    <2>2. CASE q # r
      <3>1. rd'[q] = rd[q] /\ rd[q].head = rd[q].data
        BY <2>2, <1>2 DEF SharedInv, ReadersLock
      <3>2. ASSUME rd[q].pc = "copy" PROVE shm'.region[rd[q].region].slot[rd[q].slot].lock = q
        <4>1. /\ shm.region[rd[q].region].slot[rd[q].slot].lock = q
              /\ rd[q].region \in Regions /\ rd[q].slot \in SlotIds
          BY <3>2, <1>1 DEF SharedInv, SharedTypeOK, ReadersLock, ReaderRecords
        <4>2. q \notin {"free", "dead", r}
          BY <2>2 DEF Readers
        <4>3. rd[q].region # g \/ rd[q].slot # i
          BY <4>1, <4>2
        <4> QED BY <4>1, <4>3, <1>4
      <3> QED BY <3>1, <3>2
    <2> QED BY <2>1, <2>2
  <1>9. PhotoSynced'
    BY <1>2 DEF SharedInv, PhotoSynced, Readers
  <1> QED BY <1>5, <1>6, <1>7, <1>8, <1>9 DEF SharedInv

LEMMA IdleRecord ==
    IdleReader \in ReaderRecords /\ IdleReader.pc = "open" /\ IdleReader.head = IdleReader.data
  BY SharedAssumption DEF IdleReader, ReaderRecords, ReaderPlaces, SlotIds

LEMMA ReaderLooks ==
    ASSUME SharedInv, NEW r \in Readers, ReaderOpens(r) \/ ReaderChecks(r)
    PROVE  SharedInv'
  <1>1. /\ rd[r] \in ReaderRecords /\ rd[r].head = rd[r].data
        /\ rd[r].pc # "open" => rd[r].region \in Regions
        /\ shm.name \in 0 .. MaxRegions
        /\ shm.region \in [Regions -> RegionRecords]
        /\ photo \in [final : {"none", "synced"}, temp : {"none", "written", "synced"}]
    BY DEF SharedInv, SharedTypeOK, ReadersLock, ReaderRecords
  <1>2. UNCHANGED <<shm, cdrv, photo>>
    BY DEF ReaderOpens, ReaderChecks
  <1>3. CASE ReaderOpens(r)
    <2> DEFINE v == [IdleReader EXCEPT !.pc = "check", !.region = shm.name]
    <2>1. shm.name \in Regions
      BY <1>1, <1>3, SharedAssumption DEF ReaderOpens, Regions
    <2>2. v \in ReaderRecords /\ v.pc = "check" /\ v.region \in Regions /\ v.head = v.data
      BY <1>1, <2>1, IdleRecord DEF ReaderRecords, ReaderPlaces
    <2>3. rd' = [rd EXCEPT ![r] = v]
      BY <1>3 DEF ReaderOpens
    <2> HIDE DEF v
    <2> QED BY <1>1, <1>2, <2>2, <2>3, ReaderMoves
  <1>4. CASE ReaderChecks(r) /\ rd' = [rd EXCEPT ![r] = IdleReader]
    BY <1>1, <1>2, <1>4, IdleRecord, ReaderMoves
  <1>5. CASE ReaderChecks(r) /\ rd' = [rd EXCEPT ![r].pc = "lock", ![r].slot = Region(r).active]
    <2> DEFINE v == [rd[r] EXCEPT !.pc = "lock", !.slot = Region(r).active]
    <2>1. rd[r].region \in Regions
      BY <1>1, <1>5 DEF ReaderChecks
    <2>2. Region(r).active \in SlotIds
      <3>1. shm.region[rd[r].region] \in RegionRecords
        BY <1>1, <2>1
      <3> QED BY <3>1 DEF RegionRecords, Region
    <2>3. v \in ReaderRecords /\ v.pc = "lock" /\ v.region \in Regions /\ v.head = v.data
      BY <1>1, <2>1, <2>2 DEF ReaderRecords, ReaderPlaces
    <2>4. rd' = [rd EXCEPT ![r] = v]
      <3>1. rd \in [Readers -> ReaderRecords]
        BY DEF SharedInv, SharedTypeOK, ReaderRecords
      <3>2. rd' = [rd EXCEPT ![r] = [rd[r] EXCEPT !.pc = "lock", !.slot = Region(r).active]]
        BY <1>5, <3>1 DEF ReaderRecords
      <3> QED BY <3>2
    <2> HIDE DEF v
    <2> QED BY <1>1, <1>2, <2>3, <2>4, ReaderMoves
  <1> QED BY <1>3, <1>4, <1>5 DEF ReaderChecks

LEMMA ReaderLocking ==
    ASSUME SharedInv, NEW r \in Readers, ReaderLocks(r) \/ ReaderRecovers(r) \/ ReaderCopies(r)
    PROVE  SharedInv'
  <1> DEFINE g == rd[r].region
             i == rd[r].slot
             old == shm.region[g].slot[i]
  <1>1. /\ rd[r] \in ReaderRecords /\ rd[r].head = rd[r].data
        /\ rd[r].pc # "open" => rd[r].region \in Regions
        /\ shm.region \in [Regions -> RegionRecords]
        /\ rd \in [Readers -> ReaderRecords]
        /\ UNCHANGED <<cdrv, photo>>
    BY DEF SharedInv, SharedTypeOK, ReadersLock, ReaderRecords, ReaderLocks, ReaderRecovers,
           ReaderCopies
  <1>2. g \in Regions /\ i \in SlotIds
    BY <1>1 DEF ReaderRecords, ReaderLocks, ReaderRecovers, ReaderCopies
  <1>3. old \in SlotRecords
    <2>1. shm.region[g] \in RegionRecords
      BY <1>1, <1>2
    <2> QED BY <1>2, <2>1 DEF RegionRecords
  <1>4. CASE ReaderLocks(r)
    <2> DEFINE v == [rd[r] EXCEPT !.pc = "copy"]
               w == [old EXCEPT !.lock = r]
    <2>1. old.lock = "free" /\ old.head = old.data
      BY <1>2, <1>4 DEF ReaderLocks, LockOf, SharedInv, SlotsAgree
    <2>2. w \in SlotRecords /\ w.lock = r /\ w.head = w.data
      BY <1>3, <2>1 DEF SlotRecords, Locks, Readers
    <2>3. /\ v \in ReaderRecords /\ v.pc = "copy" /\ v.region = g /\ v.slot = i
          /\ v.head = v.data
      BY <1>1 DEF ReaderRecords, ReaderPlaces
    <2>4. rd' = [rd EXCEPT ![r] = v] /\ shm' = [shm EXCEPT !.region[g].slot[i] = w]
      BY <1>4 DEF ReaderLocks, ReaderGoto
    <2> HIDE DEF v, w
    <2> QED BY <1>1, <1>2, <2>1, <2>2, <2>3, <2>4, ReaderWrites
  <1>5. CASE ReaderRecovers(r)
    <2> DEFINE v == [rd[r] EXCEPT !.pc = Again(r)]
    <2>1. old.lock = "dead"
      BY <1>5 DEF ReaderRecovers, LockOf
    <2>2. EmptySlot \in SlotRecords /\ EmptySlot.lock = "free" /\ EmptySlot.head = EmptySlot.data
      BY DEF EmptySlot, SlotRecords, Locks
    <2>3. /\ v \in ReaderRecords /\ v.pc \in {"open", "check"} /\ v.region = g
          /\ v.head = v.data
      BY <1>1 DEF ReaderRecords, ReaderPlaces, Again
    <2>4. rd' = [rd EXCEPT ![r] = v] /\ shm' = [shm EXCEPT !.region[g].slot[i] = EmptySlot]
      BY <1>5 DEF ReaderRecovers, ReaderGoto
    <2> HIDE DEF v
    <2> QED BY <1>1, <1>2, <2>1, <2>2, <2>3, <2>4, ReaderWrites
  <1>6. CASE ReaderCopies(r)
    <2> DEFINE v == [rd[r] EXCEPT !.pc = "deliver", !.head = old.head, !.data = old.data]
               w == [old EXCEPT !.lock = "free"]
    <2>1. old.lock = r /\ old.head = old.data
      <3>1. old.lock = r
        BY <1>6 DEF ReaderCopies, SharedInv, ReadersLock
      <3> QED BY <1>2, <3>1 DEF SharedInv, SlotsAgree, Readers
    <2>2. w \in SlotRecords /\ w.lock = "free" /\ w.head = w.data
      BY <1>3, <2>1 DEF SlotRecords, Locks
    <2>3. /\ v \in ReaderRecords /\ v.pc = "deliver" /\ v.region = g /\ v.head = v.data
      BY <1>1, <1>3, <2>1 DEF ReaderRecords, ReaderPlaces, SlotRecords
    <2>4. rd' = [rd EXCEPT ![r] = v]
      <3>1. rd' = [rd EXCEPT ![r] =
                     [rd[r] EXCEPT !.pc = "deliver", !.head = old.head, !.data = old.data]]
        BY <1>1, <1>6 DEF ReaderCopies, Region, ReaderRecords
      <3> QED BY <3>1
    <2>5. shm' = [shm EXCEPT !.region[g].slot[i] = w]
      BY <1>6 DEF ReaderCopies
    <2> HIDE DEF v, w
    <2> QED BY <1>1, <1>2, <2>1, <2>2, <2>3, <2>4, <2>5, ReaderWrites
  <1> QED BY <1>4, <1>5, <1>6

LEMMA FrameUsed ==
    ASSUME SharedInv,
           HmiShows \/ PhotoEncodes \/ PhotoSyncs \/ PhotoLinks \/ PhotoFails
    PROVE  SharedInv'
  <1>0. /\ "hmi" \in Readers /\ "photo" \in Readers
        /\ \A r \in Readers : /\ rd[r] \in ReaderRecords /\ rd[r].head = rd[r].data
                              /\ rd[r].pc # "open" => rd[r].region \in Regions
        /\ photo \in [final : {"none", "synced"}, temp : {"none", "written", "synced"}]
        /\ rd["photo"].pc = "link" => photo.temp = "synced"
        /\ UNCHANGED <<shm, cdrv>>
    BY DEF SharedInv, SharedTypeOK, ReadersLock, PhotoSynced, Readers, ReaderRecords, HmiShows,
           PhotoEncodes, PhotoSyncs, PhotoLinks, PhotoFails
  <1>1. CASE HmiShows
    <2> DEFINE v == [IdleReader EXCEPT !.pc = "check", !.region = rd["hmi"].region]
    <2>1. v \in ReaderRecords /\ v.pc = "check" /\ v.region \in Regions /\ v.head = v.data
      BY <1>0, <1>1, IdleRecord DEF HmiShows, ReaderRecords, ReaderPlaces
    <2>2. rd' = [rd EXCEPT !["hmi"] = v] /\ photo' = photo
      BY <1>1 DEF HmiShows
    <2> HIDE DEF v
    <2> QED BY <1>0, <2>1, <2>2, ReaderMoves
  <1>2. CASE rd' = [rd EXCEPT !["photo"] = IdleReader]
    <2>1. photo' \in [final : {"none", "synced"}, temp : {"none", "written", "synced"}]
      BY <1>0, <1>2 DEF HmiShows, PhotoEncodes, PhotoSyncs, PhotoLinks, PhotoFails
    <2> QED BY <1>0, <1>2, <2>1, IdleRecord, ReaderMoves
  <1>3. CASE PhotoEncodes /\ rd' = [rd EXCEPT !["photo"].pc = "sync"]
             /\ photo' = [photo EXCEPT !.temp = "written"]
    <2> DEFINE v == [rd["photo"] EXCEPT !.pc = "sync"]
    <2>1. v \in ReaderRecords /\ v.pc = "sync" /\ v.region \in Regions /\ v.head = v.data
      BY <1>0, <1>3 DEF PhotoEncodes, ReaderRecords, ReaderPlaces
    <2>2. photo' \in [final : {"none", "synced"}, temp : {"none", "written", "synced"}]
      BY <1>0, <1>3
    <2>3. rd' = [rd EXCEPT !["photo"] = v]
      BY <1>3
    <2> HIDE DEF v
    <2> QED BY <1>0, <2>1, <2>2, <2>3, ReaderMoves
  <1>4. CASE PhotoSyncs
    <2> DEFINE v == [rd["photo"] EXCEPT !.pc = "link"]
    <2>1. v \in ReaderRecords /\ v.pc = "link" /\ v.region \in Regions /\ v.head = v.data
      BY <1>0, <1>4 DEF PhotoSyncs, ReaderRecords, ReaderPlaces
    <2>2. photo' \in [final : {"none", "synced"}, temp : {"none", "written", "synced"}]
          /\ photo'.temp = "synced"
      BY <1>0, <1>4 DEF PhotoSyncs
    <2>3. rd' = [rd EXCEPT !["photo"] = v]
      BY <1>4 DEF PhotoSyncs, ReaderGoto
    <2> HIDE DEF v
    <2> QED BY <1>0, <2>1, <2>2, <2>3, ReaderMoves
  <1> QED BY <1>1, <1>2, <1>3, <1>4 DEF PhotoEncodes, ReaderGoto, PhotoLinks, PhotoFails

LEMMA SlotsOrphaned ==
    ASSUME SharedTypeOK, NEW owners \in SUBSET {"writer", "hmi", "photo"},
           shm' = [shm EXCEPT !.region = Orphaned(@, owners)]
    PROVE  /\ shm' \in [name : 0 .. MaxRegions, made : 0 .. MaxRegions,
                        region : [Regions -> RegionRecords]]
           /\ \A h \in Regions, j \in SlotIds :
                shm'.region[h].slot[j] = IF shm.region[h].slot[j].lock \in owners
                                         THEN [shm.region[h].slot[j] EXCEPT !.lock = "dead"]
                                         ELSE shm.region[h].slot[j]
           /\ \A h \in Regions : shm'.region[h].gen = shm.region[h].gen
  <1> DEFINE Left(s) == IF s.lock \in owners THEN [s EXCEPT !.lock = "dead"] ELSE s
             Row(h) == [j \in SlotIds |-> Left(shm.region[h].slot[j])]
             One(h) == [shm.region[h] EXCEPT !.slot = Row(h)]
             all == [h \in Regions |-> One(h)]
  <1>1. shm \in [name : 0 .. MaxRegions, made : 0 .. MaxRegions,
                 region : [Regions -> RegionRecords]]
    BY DEF SharedTypeOK
  <1>2. DOMAIN shm.region = Regions /\ \A h \in Regions : shm.region[h] \in RegionRecords
    BY <1>1
  <1>3. \A h \in Regions, j \in SlotIds : shm.region[h].slot[j] \in SlotRecords
    BY <1>2 DEF RegionRecords
  <1>4. \A s \in SlotRecords : Left(s) \in SlotRecords
    BY DEF SlotRecords, Locks
  <1>5. \A h \in Regions : Row(h) \in [SlotIds -> SlotRecords]
    BY <1>3, <1>4
  <1>6. \A h \in Regions : /\ One(h) \in RegionRecords /\ One(h).slot = Row(h)
                           /\ One(h).gen = shm.region[h].gen
    <2> SUFFICES ASSUME NEW h \in Regions
                 PROVE  /\ One(h) \in RegionRecords /\ One(h).slot = Row(h)
                        /\ One(h).gen = shm.region[h].gen
      OBVIOUS
    <2>1. shm.region[h] \in RegionRecords /\ Row(h) \in [SlotIds -> SlotRecords]
      BY <1>2, <1>5
    <2> HIDE DEF Row
    <2> QED BY <2>1 DEF RegionRecords
  <1>7. shm' = [shm EXCEPT !.region = all]
    BY <1>2 DEF Orphaned
  <1>8. all \in [Regions -> RegionRecords] /\ \A h \in Regions : all[h] = One(h)
    <2>1. \A h \in Regions : One(h) \in RegionRecords
      BY <1>6
    <2> HIDE DEF One
    <2> QED BY <2>1
  <1>9. /\ \A h \in Regions, j \in SlotIds : all[h].slot[j] = Left(shm.region[h].slot[j])
        /\ \A h \in Regions : all[h].gen = shm.region[h].gen
    <2> SUFFICES ASSUME NEW h \in Regions
                 PROVE  /\ \A j \in SlotIds : all[h].slot[j] = Left(shm.region[h].slot[j])
                        /\ all[h].gen = shm.region[h].gen
      OBVIOUS
    <2>1. all[h].slot = Row(h) /\ all[h].gen = shm.region[h].gen
      <3>1. all[h] = One(h)
        BY <1>8
      <3>2. One(h).slot = Row(h) /\ One(h).gen = shm.region[h].gen
        BY <1>6
      <3> HIDE DEF One, all, Row
      <3> QED BY <3>1, <3>2
    <2>2. \A j \in SlotIds : Row(h)[j] = Left(shm.region[h].slot[j])
      BY DEF SlotIds
    <2> HIDE DEF all, Row, Left
    <2> QED BY <2>1, <2>2
  <1>10. /\ shm'.region = all
         /\ shm' \in [name : 0 .. MaxRegions, made : 0 .. MaxRegions,
                      region : [Regions -> RegionRecords]]
    <2> HIDE DEF all
    <2> QED BY <1>1, <1>7, <1>8
  <1>11. \A h \in Regions, j \in SlotIds :
            shm'.region[h].slot[j] = IF shm.region[h].slot[j].lock \in owners
                                     THEN [shm.region[h].slot[j] EXCEPT !.lock = "dead"]
                                     ELSE shm.region[h].slot[j]
    <2>1. \A h \in Regions, j \in SlotIds : shm'.region[h].slot[j] = Left(shm.region[h].slot[j])
      <3> HIDE DEF all, Left
      <3> QED BY <1>9, <1>10
    <2> QED BY <2>1
  <1>12. \A h \in Regions : shm'.region[h].gen = shm.region[h].gen
    <2> HIDE DEF all, Left
    <2> QED BY <1>9, <1>10
  <1> QED BY <1>10, <1>11, <1>12

LEMMA ProcessDies ==
    ASSUME SharedInv, DriverDies \/ HmiDies
    PROVE  SharedInv'
  <1>1. PICK owners, r :
          /\ owners \in SUBSET {"writer", "hmi", "photo"} /\ r \in Readers
          /\ r \in owners /\ owners \cap Readers = {r}
          /\ shm' = [shm EXCEPT !.region = Orphaned(@, owners)]
          /\ rd' = [rd EXCEPT ![r] = IdleReader]
          /\ photo' = photo
          /\ \/ cdrv' = cdrv /\ "writer" \notin owners
             \/ cdrv' = [pc |-> "off", region |-> 0, slot |-> 0]
    <2> DEFINE Died(owners, r) ==
                 /\ owners \in SUBSET {"writer", "hmi", "photo"} /\ r \in Readers
                 /\ r \in owners /\ owners \cap Readers = {r}
                 /\ shm' = [shm EXCEPT !.region = Orphaned(@, owners)]
                 /\ rd' = [rd EXCEPT ![r] = IdleReader]
                 /\ photo' = photo
                 /\ \/ cdrv' = cdrv /\ "writer" \notin owners
                    \/ cdrv' = [pc |-> "off", region |-> 0, slot |-> 0]
    <2>1. ASSUME DriverDies PROVE Died({"writer", "photo"}, "photo")
      <3>1. {"writer", "photo"} \cap Readers = {"photo"} /\ "photo" \in Readers
        BY DEF Readers
      <3> QED BY <2>1, <3>1 DEF DriverDies
    <2>2. ASSUME HmiDies PROVE Died({"hmi"}, "hmi")
      <3>1. {"hmi"} \cap Readers = {"hmi"} /\ "hmi" \in Readers
        BY DEF Readers
      <3> QED BY <2>2, <3>1 DEF HmiDies
    <2>3. \E owners, r : Died(owners, r)
      <3> HIDE DEF Died
      <3> QED BY <2>1, <2>2
    <2> QED BY <2>3
  <1>2. /\ shm' \in [name : 0 .. MaxRegions, made : 0 .. MaxRegions,
                     region : [Regions -> RegionRecords]]
        /\ \A h \in Regions, j \in SlotIds :
             shm'.region[h].slot[j] = IF shm.region[h].slot[j].lock \in owners
                                      THEN [shm.region[h].slot[j] EXCEPT !.lock = "dead"]
                                      ELSE shm.region[h].slot[j]
        /\ \A h \in Regions : shm'.region[h].gen = shm.region[h].gen
    <2>1. SharedTypeOK
      BY DEF SharedInv
    <2>2. /\ owners \in SUBSET {"writer", "hmi", "photo"}
          /\ shm' = [shm EXCEPT !.region = Orphaned(@, owners)]
      BY <1>1
    <2> QED BY ONLY <2>1, <2>2, SlotsOrphaned
  <1>3. /\ rd \in [Readers -> ReaderRecords] /\ shm.region \in [Regions -> RegionRecords]
        /\ cdrv \in [pc : WriterPlaces, region : 0 .. MaxRegions, slot : SlotIds]
        /\ cdrv.pc \notin {"off", "create"} => cdrv.region \in Regions
    BY DEF SharedInv, SharedTypeOK, ReaderRecords
  <1>4. \A h \in Regions, j \in SlotIds : shm.region[h].slot[j] \in SlotRecords
    <2>1. \A h \in Regions : shm.region[h] \in RegionRecords
      BY <1>3
    <2> QED BY <2>1 DEF RegionRecords
  <1>5. /\ rd' \in [Readers -> ReaderRecords] /\ rd'[r] = IdleReader
        /\ \A q \in Readers : q # r => rd'[q] = rd[q]
    BY <1>1, <1>3, IdleRecord
  <1>6. /\ cdrv' \in [pc : WriterPlaces, region : 0 .. MaxRegions, slot : SlotIds]
        /\ cdrv'.pc \notin {"off", "create"} => cdrv'.region \in Regions
    BY <1>1, <1>3, SharedAssumption DEF WriterPlaces, SlotIds
  <1>7. SharedTypeOK'
    <2>1. \A q \in Readers : rd'[q].pc # "open" => rd'[q].region \in Regions
      BY <1>5, IdleRecord DEF SharedInv, SharedTypeOK
    <2>2. rd' \in [Readers -> [pc : ReaderPlaces, region : 0 .. MaxRegions, slot : SlotIds,
                               head : Nat, data : Nat]]
      BY <1>5 DEF ReaderRecords
    <2> QED BY <2>1, <2>2, <1>1, <1>2, <1>6 DEF SharedInv, SharedTypeOK
  <1>8. SlotsAgree'
    <2> SUFFICES ASSUME NEW h \in Regions, NEW j \in SlotIds,
                        shm'.region[h].slot[j].lock \in {"free", "hmi", "photo"}
                 PROVE  shm'.region[h].slot[j].head = shm'.region[h].slot[j].data
      BY DEF SlotsAgree
    <2>1. CASE shm.region[h].slot[j].lock \in owners
      <3>1. shm'.region[h].slot[j] = [shm.region[h].slot[j] EXCEPT !.lock = "dead"]
        BY <1>2, <2>1
      <3>2. shm.region[h].slot[j] \in SlotRecords
        BY <1>4
      <3>3. shm'.region[h].slot[j].lock = "dead"
        BY <3>1, <3>2 DEF SlotRecords
      <3> QED BY <3>3
    <2>2. CASE shm.region[h].slot[j].lock \notin owners
      <3>1. shm'.region[h].slot[j] = shm.region[h].slot[j]
        BY <1>2, <2>2
      <3> QED BY <3>1 DEF SharedInv, SlotsAgree
    <2> QED BY <2>1, <2>2
  <1>9. WriterLocks'
    <2>1. CASE cdrv'.pc = "off"
      BY <2>1 DEF WriterLocks
    <2>2. CASE cdrv' = cdrv /\ "writer" \notin owners
      <3> SUFFICES ASSUME cdrv.pc \in {"head", "data"}
                   PROVE  /\ shm'.region[cdrv.region].slot[cdrv.slot]
                               = shm.region[cdrv.region].slot[cdrv.slot]
                          /\ shm'.region[cdrv.region].gen = shm.region[cdrv.region].gen
        BY <2>2 DEF SharedInv, WriterLocks
      <3>1. shm.region[cdrv.region].slot[cdrv.slot].lock = "writer"
        BY DEF SharedInv, WriterLocks
      <3>2. cdrv.region \in Regions /\ cdrv.slot \in SlotIds
        BY <1>3
      <3> QED BY <1>2, <2>2, <3>1, <3>2
    <2> QED BY <1>1, <2>1, <2>2
  <1>10. ReadersLock'
    <2> SUFFICES ASSUME NEW q \in Readers
                 PROVE  /\ rd'[q].pc = "copy" =>
                             shm'.region[rd'[q].region].slot[rd'[q].slot].lock = q
                        /\ rd'[q].head = rd'[q].data
      BY DEF ReadersLock
    <2>1. CASE q = r
      BY <2>1, <1>5, IdleRecord
    <2>2. CASE q # r
      <3>1. rd'[q] = rd[q] /\ rd[q].head = rd[q].data /\ q \notin owners
        BY <2>2, <1>1, <1>5 DEF SharedInv, ReadersLock
      <3>2. ASSUME rd[q].pc = "copy" PROVE shm'.region[rd[q].region].slot[rd[q].slot].lock = q
        <4>1. /\ shm.region[rd[q].region].slot[rd[q].slot].lock = q
              /\ rd[q].region \in Regions /\ rd[q].slot \in SlotIds
          BY <3>2, <1>3 DEF SharedInv, SharedTypeOK, ReadersLock, ReaderRecords
        <4> QED BY <4>1, <3>1, <1>2
      <3> QED BY <3>1, <3>2
    <2> QED BY <2>1, <2>2
  <1>11. PhotoSynced'
    BY <1>1, <1>5, IdleRecord DEF SharedInv, PhotoSynced, Readers
  <1> QED BY <1>7, <1>8, <1>9, <1>10, <1>11 DEF SharedInv

LEMMA SharedBegins ==
    ASSUME SharedInit
    PROVE  SharedInv
  <1>1. EmptySlot \in SlotRecords /\ EmptySlot.head = EmptySlot.data
    BY DEF EmptySlot, SlotRecords, Locks
  <1>2. NoRegion \in RegionRecords /\ \A j \in SlotIds : NoRegion.slot[j] = EmptySlot
    BY <1>1 DEF NoRegion, RegionRecords, SlotIds
  <1>3. shm \in [name : 0 .. MaxRegions, made : 0 .. MaxRegions,
                 region : [Regions -> RegionRecords]]
        /\ \A g \in Regions : shm.region[g] = NoRegion
    BY <1>2, SharedAssumption DEF SharedInit, Regions
  <1>4. /\ rd \in [Readers -> ReaderRecords] /\ \A r \in Readers : rd[r] = IdleReader
    BY IdleRecord DEF SharedInit
  <1>5. SharedTypeOK
    <2>1. \A r \in Readers : rd[r].pc # "open" => rd[r].region \in Regions
      BY <1>4, IdleRecord
    <2>2. cdrv \in [pc : WriterPlaces, region : 0 .. MaxRegions, slot : SlotIds]
          /\ cdrv.pc = "off"
      BY SharedAssumption DEF SharedInit, WriterPlaces, SlotIds
    <2>3. photo \in [final : {"none", "synced"}, temp : {"none", "written", "synced"}]
      BY DEF SharedInit
    <2> QED BY <1>3, <1>4, <2>1, <2>2, <2>3 DEF SharedTypeOK, ReaderRecords
  <1>6. SlotsAgree
    BY <1>1, <1>2, <1>3 DEF SlotsAgree
  <1>7. WriterLocks /\ ReadersLock /\ PhotoSynced
    BY <1>4, IdleRecord DEF SharedInit, WriterLocks, ReadersLock, PhotoSynced, Readers
  <1> QED BY <1>5, <1>6, <1>7 DEF SharedInv

LEMMA SharedStep ==
    ASSUME SharedInv, [SharedNext]_sharedVars
    PROVE  SharedInv'
  <1>1. CASE UNCHANGED sharedVars
    BY <1>1 DEF SharedInv, SharedTypeOK, SlotsAgree, WriterLocks, ReadersLock, PhotoSynced,
                sharedVars
  <1>2. CASE SharedNext
    BY <1>2, NoSlotWritten, RegionFieldsWritten, SlotPublished, ReaderLooks, ReaderLocking,
       FrameUsed, ProcessDies
       DEF SharedNext, Writer, Reader, Hmi, Photo, Readers
  <1> QED BY <1>1, <1>2

(* NoTornFrame for any number of frames, regions and deaths.               *)
THEOREM FramesAreWhole ==
    Spec => []NoTornFrame
  <1>1. Init => SharedInv
    BY SharedBegins DEF Init
  <1>2. SharedInv /\ [Next]_cameraPathVars => SharedInv'
    BY SharedStep DEF Next, cameraPathVars
  <1>3. SharedInv => NoTornFrame
    BY DEF SharedInv, SharedTypeOK, ReadersLock, NoTornFrame
  <1> QED BY <1>1, <1>2, <1>3, PTL DEF Spec

-----------------------------------------------------------------------------
(* The threads of a preview source.                                        *)

(* What is left to show of a step the service has no part in.              *)
LEMMA SourceMoved ==
    ASSUME PreviewInv, src' \in SourceRecords, reconnects' \in [0 .. MaxGenerations -> Nat],
           CountedOnce', Silent => Silent', UNCHANGED <<cam, ctl>>
    PROVE  PreviewInv'
  BY DEF PreviewInv, SourceTypeOK, ServiceTypeOK

LEMMA CaptureThreadMoves ==
    ASSUME PreviewInv, CaptureThread, UNCHANGED <<reconnects, cam, ctl>>
    PROVE  PreviewInv'
  <1>1. /\ src \in SourceRecords /\ reconnects \in [0 .. MaxGenerations -> Nat] /\ CountedOnce
        /\ MaxGenerations \in Nat
    BY SourceAssumption DEF PreviewInv, SourceTypeOK
  <1>2. ~Silent
    BY DEF CaptureThread, CapTop, CapTimeout, CapGet, CapMissing, CapBackoff, ReopenFails,
           ReopenSucceeds, WaitFrame, Enqueue, ReadLost, MarkRecovering, ReadNothing, CapAt,
           Silent
  <1>3. ASSUME src' \in SourceRecords, src'.gen = src.gen, src'.deadline \in {src.deadline, "none"}
        PROVE  PreviewInv'
    <2>1. CountedOnce'
      BY <1>1, <1>3 DEF CountedOnce
    <2> QED BY <1>1, <1>2, <1>3, <2>1, SourceMoved
  <1>4. CASE ReopenSucceeds
    <2> DEFINE n == src.gen + 1
               v == [src EXCEPT !.device = "open", !.gen = n, !.deadline = "ahead",
                                !.recover = TRUE, !.cap = "top"]
    <2>0. n \in 0 .. MaxGenerations /\ n > src.gen /\ src.gen \in 0 .. MaxGenerations
      <3>1. src.gen \in 0 .. MaxGenerations /\ src.gen < MaxGenerations
        BY <1>1, <1>4 DEF ReopenSucceeds, SourceRecords
      <3> QED BY <1>1, <3>1
    <2>1. src' \in SourceRecords /\ src'.gen = n
      <3>1. src' = v
        BY <1>4 DEF ReopenSucceeds
      <3>2. v \in SourceRecords /\ v.gen = n
        <4> HIDE DEF n
        <4> QED BY <1>1, <2>0 DEF SourceRecords, CapPlaces
      <3> QED BY <3>1, <3>2
    <2>2. CountedOnce'
      <3>1. reconnects[n] = 0 /\ \A g \in 0 .. MaxGenerations : g > n => reconnects[g] = 0
        BY <1>1, <2>0 DEF CountedOnce
      <3> HIDE DEF n
      <3> QED BY <1>1, <2>1, <3>1 DEF CountedOnce
    <2> QED BY <1>1, <1>2, <2>1, <2>2, SourceMoved
  <1>5. CASE Enqueue
    <2> DEFINE q == IF Len(src.queue) >= IspQueue THEN Tail(src.queue) ELSE src.queue
               v == [src EXCEPT !.cap = "top", !.isp = Woken(src.isp), !.queue = Append(q, src.gen)]
    <2>1. q \in Seq(0 .. MaxGenerations)
      <3>1. src.queue \in Seq(0 .. MaxGenerations)
        BY <1>1 DEF SourceRecords
      <3>2. CASE Len(src.queue) >= IspQueue
        <4>1. src.queue # << >>
          BY <3>1, <3>2, SourceAssumption
        <4>2. Tail(src.queue) \in Seq(0 .. MaxGenerations)
          BY <3>1, <4>1, HeadTailProperties
        <4> QED BY <3>2, <4>2
      <3> QED BY <3>1, <3>2
    <2>2. Append(q, src.gen) \in Seq(0 .. MaxGenerations)
      <3>1. src.gen \in 0 .. MaxGenerations
        BY <1>1 DEF SourceRecords
      <3> HIDE DEF q
      <3> QED BY <2>1, <3>1
    <2>3. Woken(src.isp) \in IspPlaces
      BY <1>1 DEF Woken, SourceRecords, IspPlaces
    <2>4. src' = v
      BY <1>5 DEF Enqueue
    <2>5. v \in SourceRecords /\ v.gen = src.gen /\ v.deadline = src.deadline
      <3> HIDE DEF q
      <3> QED BY <1>1, <2>2, <2>3 DEF SourceRecords, CapPlaces
    <2> HIDE DEF v
    <2> QED BY <1>3, <2>4, <2>5
  <1>6. CASE CapTop \/ CapGet \/ CapBackoff \/ ReopenFails \/ WaitFrame
    <2>1. ASSUME NEW c \in CapPlaces, CapGoto(c) PROVE PreviewInv'
      <3>1. src' \in SourceRecords /\ src'.gen = src.gen /\ src'.deadline = src.deadline
        BY <1>1, <2>1 DEF SourceRecords, CapGoto
      <3> QED BY <1>3, <3>1
    <2>2. CASE CapTop /\ ~src.stop
      <3>1. src' \in SourceRecords /\ src'.gen = src.gen /\ src'.deadline = src.deadline
        <4> DEFINE c == IF src.expired THEN "timeout" ELSE "get"
        <4>1. src' = [src EXCEPT !.cap = c, !.expired = FALSE]
          BY <2>2 DEF CapTop
        <4>2. c \in CapPlaces
          BY DEF CapPlaces
        <4> HIDE DEF c
        <4> QED BY <1>1, <4>1, <4>2 DEF SourceRecords
      <3> QED BY <1>3, <3>1
    <2>3. /\ "off" \in CapPlaces /\ "reopen" \in CapPlaces /\ "top" \in CapPlaces
          /\ "read" \in CapPlaces /\ "missing" \in CapPlaces
          /\ Reads \subseteq CapPlaces
      BY DEF CapPlaces, Reads
    <2>4. CASE CapTop
      <3>1. CapGoto("off") \/ ~src.stop
        BY <2>4 DEF CapTop
      <3> QED BY <2>1, <2>2, <2>3, <2>4, <3>1
    <2>5. CASE WaitFrame
      <3>1. PICK c \in Reads : CapGoto(c)
        BY <2>5 DEF WaitFrame
      <3> QED BY <2>1, <2>3, <3>1
    <2>6. CASE CapGet \/ CapBackoff \/ ReopenFails
      <3>1. CapGoto("missing") \/ CapGoto("read") \/ CapGoto("off") \/ CapGoto("reopen")
            \/ CapGoto("top")
        BY <2>6 DEF CapGet, CapBackoff, ReopenFails
      <3> QED BY <2>1, <2>3, <3>1
    <2> QED BY <1>6, <2>4, <2>5, <2>6
  <1>7. CASE CapTimeout \/ CapMissing \/ ReadLost \/ MarkRecovering \/ ReadNothing
    <2>1. {"top", "backoff", "off", "lost"} \subseteq CapPlaces
      BY DEF CapPlaces
    <2>2. \E c \in {"top", "backoff", "off", "lost"} :
            \/ src' = [src EXCEPT !.cap = c]
            \/ src' = [src EXCEPT !.recover = TRUE, !.cap = c]
            \/ src' = [src EXCEPT !.device = "none", !.deadline = "none", !.cap = c]
      <3>1. CASE CapTimeout \/ CapMissing \/ MarkRecovering
        BY <3>1 DEF CapTimeout, CapMissing, MarkRecovering, DropDevice
      <3>2. CASE ReadLost
        BY <3>2 DEF ReadLost, DropDevice
      <3>3. CASE ReadNothing
        BY <3>3 DEF ReadNothing, DropDevice
      <3> QED BY <1>7, <3>1, <3>2, <3>3
    <2>3. src' \in SourceRecords /\ src'.gen = src.gen /\ src'.deadline \in {src.deadline, "none"}
      <3>1. PICK c \in CapPlaces :
              \/ src' = [src EXCEPT !.cap = c]
              \/ src' = [src EXCEPT !.recover = TRUE, !.cap = c]
              \/ src' = [src EXCEPT !.device = "none", !.deadline = "none", !.cap = c]
        BY <2>1, <2>2
      <3>2. CASE src' = [src EXCEPT !.cap = c]
        BY <1>1, <3>2 DEF SourceRecords
      <3>3. CASE src' = [src EXCEPT !.recover = TRUE, !.cap = c]
        BY <1>1, <3>3 DEF SourceRecords
      <3>4. CASE src' = [src EXCEPT !.device = "none", !.deadline = "none", !.cap = c]
        BY <1>1, <3>4 DEF SourceRecords
      <3> QED BY <3>1, <3>2, <3>3, <3>4
    <2> QED BY <1>3, <2>3
  <1> QED BY <1>4, <1>5, <1>6, <1>7 DEF CaptureThread

LEMMA OtherThreadsMove ==
    ASSUME PreviewInv, UNCHANGED <<cam, ctl>>,
           \/ (IspThread \/ DeadlinePasses) /\ UNCHANGED reconnects
           \/ IspJudges
    PROVE  PreviewInv'
  <1>1. /\ src \in SourceRecords /\ reconnects \in [0 .. MaxGenerations -> Nat] /\ CountedOnce
        /\ MaxGenerations \in Nat
    BY SourceAssumption DEF PreviewInv, SourceTypeOK
  <1>2. CASE DeadlinePasses /\ UNCHANGED reconnects
    <2>1. src' \in SourceRecords /\ src'.gen = src.gen /\ src.deadline # "none"
      BY <1>1, <1>2 DEF DeadlinePasses, SourceRecords
    <2>2. CountedOnce' /\ (Silent => Silent')
      BY <1>1, <1>2, <2>1 DEF CountedOnce, Silent, DeadlinePasses, SourceRecords
    <2> QED BY <1>1, <1>2, <2>1, <2>2, SourceMoved
  <1>3. CASE IspThread /\ UNCHANGED reconnects
    <2>1. ~Silent
      BY <1>3 DEF IspThread, IspTake, IspWaits, IspSleeps, IspStops, IspEnds, IspFails,
                  StreamSample, StreamDisconnects, Silent
    <2>2. src' \in SourceRecords /\ src'.gen = src.gen /\ src'.deadline = src.deadline
      <3>1. CASE IspTake
        <4> DEFINE h == Head(src.queue)
                   q == Tail(src.queue)
        <4>1. src.queue \in Seq(0 .. MaxGenerations) /\ src.queue # << >>
          BY <1>1, <3>1 DEF SourceRecords, IspTake
        <4>2. h \in 0 .. MaxGenerations /\ q \in Seq(0 .. MaxGenerations)
          BY <4>1, HeadTailProperties
        <4>3. PICK p \in {"process", "ending"} :
                src' = [src EXCEPT !.frame = h, !.queue = q, !.isp = p]
          BY <3>1 DEF IspTake
        <4> HIDE DEF h, q
        <4> QED BY <1>1, <4>2, <4>3 DEF SourceRecords, IspPlaces
      <3>2. CASE IspWaits \/ IspSleeps \/ IspStops \/ StreamSample \/ StreamDisconnects
        <4>1. ASSUME NEW c \in IspPlaces, IspGoto(c)
              PROVE  src' \in SourceRecords /\ src'.gen = src.gen /\ src'.deadline = src.deadline
          BY <1>1, <4>1 DEF SourceRecords, IspGoto
        <4>2. {"falling", "asleep", "ending", "deliver", "wait"} \subseteq IspPlaces
          BY DEF IspPlaces
        <4> QED
          BY <3>2, <4>1, <4>2 DEF IspWaits, IspSleeps, IspStops, StreamSample, StreamDisconnects
      <3>3. CASE IspEnds
        <4>1. 0 \in 0 .. MaxGenerations /\ "off" \in IspPlaces /\ FALSE \in BOOLEAN
          BY <1>1 DEF IspPlaces
        <4>2. src' = [src EXCEPT !.run = FALSE, !.isp = "off", !.frame = 0]
          BY <3>3 DEF IspEnds
        <4> QED BY <1>1, <4>1, <4>2 DEF SourceRecords
      <3>4. CASE IspFails
        <4> DEFINE e == src.expired \/ (src.recover /\ src.deadline = "past")
        <4>1. e \in BOOLEAN /\ src' = [src EXCEPT !.isp = "wait", !.expired = e]
          BY <1>1, <3>4 DEF SourceRecords, IspFails
        <4> HIDE DEF e
        <4> QED BY <1>1, <4>1 DEF SourceRecords, IspPlaces
      <3> QED BY <1>3, <3>1, <3>2, <3>3, <3>4 DEF IspThread
    <2>3. CountedOnce'
      BY <1>1, <1>3, <2>2 DEF CountedOnce
    <2> QED BY <1>1, <1>3, <2>1, <2>2, <2>3, SourceMoved
  <1>4. CASE IspJudges
    <2>1. ~Silent
      BY <1>4 DEF IspJudges, Silent
    <2>2. src' \in SourceRecords /\ src'.gen = src.gen
      <3> DEFINE i == IF src.recover /\ ~InTime THEN "wait" ELSE "deliver"
                 e == src.expired \/ (src.recover /\ src.frame = src.gen /\ src.deadline = "past")
                 r == src.recover /\ ~InTime
                 d == IF src.recover /\ InTime THEN "none" ELSE src.deadline
      <3>1. src' = [src EXCEPT !.isp = i, !.expired = e, !.recover = r, !.deadline = d]
        BY <1>4 DEF IspJudges
      <3>2. src.recover \in BOOLEAN /\ src.expired \in BOOLEAN
            /\ src.deadline \in {"none", "ahead", "past"}
        BY <1>1 DEF SourceRecords
      <3>3. i \in IspPlaces /\ d \in {"none", "ahead", "past"}
        BY <3>2 DEF IspPlaces
      <3>4. e \in BOOLEAN /\ r \in BOOLEAN
        BY <3>2, Zenon
      <3> HIDE DEF i, e, r, d
      <3> QED BY <1>1, <3>1, <3>3, <3>4 DEF SourceRecords
    <2>3. CASE src.recover /\ InTime
      <3>1. src.deadline # "none" /\ src'.deadline = "none"
        BY <1>1, <1>4, <2>3 DEF IspJudges, InTime, SourceRecords
      <3>2. src.gen \in 0 .. MaxGenerations /\ reconnects[src.gen] = 0
        BY <1>1, <3>1 DEF CountedOnce, SourceRecords
      <3>3. reconnects' = [reconnects EXCEPT ![src.gen] = 1]
        BY <1>4, <2>3, <3>2 DEF IspJudges
      <3>4. CountedOnce' /\ reconnects' \in [0 .. MaxGenerations -> Nat]
        BY <1>1, <2>2, <3>1, <3>2, <3>3 DEF CountedOnce
      <3> QED BY <2>1, <2>2, <3>4, SourceMoved
    <2>4. CASE ~(src.recover /\ InTime)
      <3>1. reconnects' = reconnects /\ src'.deadline = src.deadline
        BY <1>1, <1>4, <2>4 DEF IspJudges, SourceRecords
      <3>2. CountedOnce'
        BY <1>1, <2>2, <3>1 DEF CountedOnce
      <3> QED BY <1>1, <2>1, <2>2, <3>1, <3>2, SourceMoved
    <2> QED BY <2>3, <2>4
  <1> QED BY <1>2, <1>3, <1>4

-----------------------------------------------------------------------------
(* CameraService, inside lifecycle_mutex_ and in HandleFrame.              *)

LEMMA CallBegins ==
    ASSUME PreviewInv,
           \/ \E req \in Requests : StartPreview(req)
           \/ StopPreview \/ RuntimeStops \/ CheckPreviewHealth
    PROVE  PreviewInv'
  <1>1. /\ cam \in ServiceRecords /\ ctl = Free /\ ctl.pc = "free"
        /\ cam.state = "running" => ~cam.error
        /\ Free \in CallerRecords /\ UNCHANGED sourceVars
    BY DEF PreviewInv, ServiceTypeOK, StartPreview, StopPreview, RuntimeStops,
           CheckPreviewHealth, Free, CallerRecords, PreviewStates
  <1>2. SourceTypeOK' /\ CountedOnce' /\ (Silent => Silent')
    BY <1>1 DEF PreviewInv, SourceTypeOK, CountedOnce, Silent, sourceVars
  <1>3. ASSUME cam' \in ServiceRecords, cam'.state = "running" => ~cam'.error,
               \/ ctl' = Free /\ (cam'.state = "stopped" => cam.state = "stopped")
               \/ ctl' \in CallerRecords /\ ctl'.pc = "stop"
        PROVE  PreviewInv'
    BY <1>1, <1>2, <1>3 DEF PreviewInv, ServiceTypeOK, Free
  <1>4. ASSUME NEW req \in Requests, StartPreview(req)
        PROVE  PreviewInv'
    <2>1. CASE req = "uncalibrated"
      <3> DEFINE n == cam.calls + 1
      <3>0. n \in Nat
        BY <1>1 DEF ServiceRecords
      <3>1. cam' = [cam EXCEPT !.state = "faulted", !.error = TRUE, !.calls = n] /\ ctl' = Free
        BY <1>1, <1>4, <2>1 DEF StartPreview, SetError, ServiceRecords
      <3> HIDE DEF n
      <3>2. cam' \in ServiceRecords /\ cam'.state = "faulted"
        BY <1>1, <3>0, <3>1 DEF ServiceRecords, PreviewStates
      <3> QED BY <1>3, <3>1, <3>2
    <2>2. CASE req # "uncalibrated"
      <3> DEFINE s == IF cam.state \in {"running", "faulted"} THEN "recovering" ELSE cam.state
      <3> DEFINE n == cam.calls + 1
      <3>0. n \in Nat
        BY <1>1 DEF ServiceRecords
      <3>1. /\ cam' = [cam EXCEPT !.calls = n, !.state = s]
            /\ ctl' = [pc |-> "stop", op |-> "start", req |-> req, prev |-> cam.state]
        BY <1>4, <2>2 DEF StartPreview
      <3>2. s \in PreviewStates /\ s # "running"
        BY <1>1 DEF ServiceRecords, PreviewStates
      <3> HIDE DEF s, n
      <3>3. cam' \in ServiceRecords /\ cam'.state # "running"
        BY <1>1, <3>0, <3>1, <3>2 DEF ServiceRecords
      <3>4. ctl' \in CallerRecords /\ ctl'.pc = "stop"
        BY <1>1, <3>1 DEF ServiceRecords, CallerRecords
      <3> QED BY <1>3, <3>3, <3>4
    <2> QED BY <2>1, <2>2
  <1>5. CASE StopPreview \/ RuntimeStops
    <2>1. ctl' \in CallerRecords /\ ctl'.pc = "stop"
      BY <1>1, <1>5 DEF StopPreview, RuntimeStops, CallerRecords
    <2>2. cam' \in ServiceRecords /\ cam'.state = cam.state /\ cam'.error = cam.error
      <3> DEFINE n == cam.calls + 1
      <3>1. n \in Nat
        BY <1>1 DEF ServiceRecords
      <3>2. cam' = [cam EXCEPT !.calls = n] \/ cam' = [cam EXCEPT !.down = TRUE]
        BY <1>5 DEF StopPreview, RuntimeStops
      <3> HIDE DEF n
      <3> QED BY <1>1, <3>1, <3>2 DEF ServiceRecords
    <2> QED BY <1>1, <1>3, <2>1, <2>2
  <1>6. CASE CheckPreviewHealth
    <2>1. CASE src.recover
      <3>1. cam' \in ServiceRecords /\ cam'.state = "recovering" /\ ctl' = Free
        BY <1>1, <1>6, <2>1 DEF CheckPreviewHealth, ServiceRecords, PreviewStates
      <3> QED BY <1>3, <3>1
    <2>2. CASE ~src.recover
      <3>1. cam' = cam /\ ctl' \in CallerRecords /\ ctl'.pc = "stop"
        BY <1>1, <1>6, <2>2 DEF CheckPreviewHealth, CallerRecords
      <3> QED BY <1>1, <1>3, <3>1
    <2> QED BY <2>1, <2>2
  <1> QED BY <1>4, <1>5, <1>6

LEMMA CallGoesOn ==
    ASSUME PreviewInv, Inside
    PROVE  PreviewInv'
  <1>1. /\ cam \in ServiceRecords /\ ctl \in CallerRecords
        /\ src \in SourceRecords /\ reconnects \in [0 .. MaxGenerations -> Nat] /\ CountedOnce
        /\ cam.state = "running" => ~cam.error
        /\ ctl.pc \in {"stopped", "starting"} => Silent
        /\ ctl.pc \in {"starting", "started"} =>
             ctl.op = "start" /\ (ctl.prev = "faulted" => cam.state \in {"recovering", "running"})
        /\ Free \in CallerRecords /\ Free.pc = "free" /\ ctl.pc # "free"
    BY DEF PreviewInv, SourceTypeOK, ServiceTypeOK, Inside, StopAll, StopAllEnds, StopReturns,
           CheckReturns, RequestFails, ResetStatus, StartAllFails, StartAll, StartReturns, CtlAt,
           Free, CallerRecords, PreviewStates
  <1>2. /\ SetError(cam) \in ServiceRecords /\ SetError(cam).state = "faulted"
    BY <1>1 DEF SetError, ServiceRecords, PreviewStates
  <1>3. ASSUME UNCHANGED sourceVars, cam' \in ServiceRecords, ctl' \in CallerRecords,
               cam'.state = "running" => ~cam'.error,
               \/ ctl' = Free /\ (cam'.state = "stopped" => Silent)
               \/ /\ ctl'.pc = "starting" /\ Silent /\ ctl'.op = "start"
                  /\ ctl'.prev = "faulted" => cam'.state \in {"recovering", "running"}
        PROVE  PreviewInv'
    BY <1>1, <1>3 DEF PreviewInv, SourceTypeOK, ServiceTypeOK, CountedOnce, Silent, sourceVars
  <1>4. CASE StopAll
    <2>1. /\ src' \in SourceRecords /\ src'.gen = src.gen /\ src'.deadline = src.deadline
      <3>1. Woken(src.isp) \in IspPlaces
        BY <1>1 DEF Woken, SourceRecords, IspPlaces
      <3> HIDE DEF Woken
      <3> QED BY <1>1, <1>4, <3>1 DEF StopAll, SourceStopBegins, SourceRecords
    <2>2. CountedOnce' /\ reconnects' = reconnects
      BY <1>1, <1>4, <2>1 DEF CountedOnce, StopAll
    <2>3. cam' = cam /\ ctl' \in CallerRecords /\ ctl'.pc = "join"
      BY <1>1, <1>4 DEF StopAll, CtlGoto, CallerRecords
    <2> QED BY <1>1, <2>1, <2>2, <2>3 DEF PreviewInv, SourceTypeOK, ServiceTypeOK, Free
  <1>5. CASE StopAllEnds
    <2>1. src' \in SourceRecords /\ src'.gen = src.gen /\ src'.deadline = "none" /\ Silent'
      <3>1. << >> \in Seq(0 .. MaxGenerations)
        OBVIOUS
      <3> QED BY <1>1, <1>5, <3>1 DEF StopAllEnds, SourceStopEnds, SourceRecords, Silent
    <2>2. CountedOnce' /\ reconnects' = reconnects
      BY <1>1, <1>5, <2>1 DEF CountedOnce, StopAllEnds
    <2>3. cam' = cam /\ ctl' \in CallerRecords /\ ctl'.pc = "stopped"
      BY <1>1, <1>5 DEF StopAllEnds, CtlGoto, CallerRecords
    <2> QED BY <1>1, <2>1, <2>2, <2>3 DEF PreviewInv, SourceTypeOK, ServiceTypeOK, Free
  <1>6. CASE StopReturns
    <2>1. cam' \in ServiceRecords /\ cam'.state = "stopped"
      BY <1>1, <1>6 DEF StopReturns, ServiceRecords, PreviewStates
    <2>2. ctl' = Free /\ Silent /\ UNCHANGED sourceVars
      BY <1>1, <1>6 DEF StopReturns, CtlAt
    <2> QED BY <1>1, <1>3, <2>1, <2>2
  <1>7. CASE CheckReturns \/ RequestFails \/ StartAllFails
    <2>1. ctl' = Free /\ cam' = SetError(cam) /\ UNCHANGED sourceVars
      BY <1>7 DEF CheckReturns, RequestFails, StartAllFails
    <2> QED BY <1>1, <1>2, <1>3, <2>1
  <1>8. CASE ResetStatus
    <2> DEFINE s == IF ctl.prev \in {"running", "faulted"} THEN "recovering" ELSE "stopped"
               a == ctl.prev = "faulted"
    <2>1. cam' = [cam EXCEPT !.frames = FALSE, !.await = a, !.state = s]
      BY <1>8 DEF ResetStatus
    <2>2. s \in PreviewStates /\ s # "running" /\ (a => s = "recovering") /\ a \in BOOLEAN
      BY DEF PreviewStates
    <2>3. ctl' \in CallerRecords /\ ctl'.pc = "starting" /\ ctl'.op = "start"
          /\ ctl'.prev = ctl.prev
      BY <1>1, <1>8 DEF ResetStatus, CtlGoto, CtlAt, CallerRecords
    <2>4. Silent /\ UNCHANGED sourceVars
      BY <1>1, <1>8 DEF ResetStatus, CtlAt
    <2>5. ctl'.prev = "faulted" => a
      BY <2>3
    <2> HIDE DEF s, a
    <2>6. cam' \in ServiceRecords /\ cam'.state = s
      BY <1>1, <2>1, <2>2 DEF ServiceRecords
    <2> QED BY <1>3, <2>2, <2>3, <2>4, <2>5, <2>6
  <1>9. CASE StartAll
    <2>1. src' \in SourceRecords /\ src'.gen = src.gen /\ src'.deadline = "none"
      <3>1. << >> \in Seq(0 .. MaxGenerations)
        OBVIOUS
      <3>2. (IF IsIsp THEN "top" ELSE "off") \in CapPlaces /\ "wait" \in IspPlaces
        BY DEF CapPlaces, IspPlaces
      <3> QED BY <1>1, <1>9, <3>1, <3>2 DEF StartAll, SourceStarts, SourceRecords
    <2>2. CountedOnce' /\ reconnects' = reconnects
      BY <1>1, <1>9, <2>1 DEF CountedOnce, StartAll
    <2>3. /\ cam' = cam /\ ctl' \in CallerRecords /\ ctl'.pc = "started"
          /\ ctl'.op = "start" /\ ctl'.prev = ctl.prev /\ ctl.pc = "starting"
      BY <1>1, <1>9 DEF StartAll, CtlGoto, CtlAt, CallerRecords
    <2> QED BY <1>1, <2>1, <2>2, <2>3 DEF PreviewInv, SourceTypeOK, ServiceTypeOK, Free
  <1>10. CASE StartReturns
    <2>1. ctl.pc = "started" /\ ctl' = Free /\ UNCHANGED sourceVars
      BY <1>10 DEF StartReturns, CtlAt
    <2>2. CASE ctl.prev = "faulted"
      <3> DEFINE s == IF cam.frames THEN cam.state ELSE "recovering"
      <3>1. cam' = [cam EXCEPT !.state = s]
        BY <1>10, <2>2 DEF StartReturns
      <3>2. s \in {"recovering", "running"} /\ (s = "running" => cam.state = "running")
        BY <1>1, <2>1, <2>2
      <3> HIDE DEF s
      <3>3. cam' \in ServiceRecords /\ cam'.state = s /\ cam'.error = cam.error
        BY <1>1, <3>1, <3>2 DEF ServiceRecords, PreviewStates
      <3> QED BY <1>1, <1>3, <2>1, <3>2, <3>3
    <2>3. CASE ctl.prev # "faulted"
      <3>1. cam' \in ServiceRecords /\ cam'.state = "running" /\ ~cam'.error
        BY <1>1, <1>10, <2>3 DEF StartReturns, ServiceRecords, PreviewStates
      <3> QED BY <1>1, <1>3, <2>1, <3>1
    <2> QED BY <2>2, <2>3
  <1> QED BY <1>4, <1>5, <1>6, <1>7, <1>8, <1>9, <1>10 DEF Inside

LEMMA FrameHandled ==
    ASSUME PreviewInv, HandleFrame
    PROVE  PreviewInv'
  <1>1. /\ cam \in ServiceRecords /\ ctl \in CallerRecords
        /\ src \in SourceRecords /\ reconnects \in [0 .. MaxGenerations -> Nat] /\ CountedOnce
        /\ cam.state = "running" => ~cam.error
        /\ ctl.pc \in {"starting", "started"} =>
             ctl.op = "start" /\ (ctl.prev = "faulted" => cam.state \in {"recovering", "running"})
        /\ src.isp = "deliver"
    BY DEF PreviewInv, SourceTypeOK, ServiceTypeOK, HandleFrame, FramePublished, FrameDropped,
           FrameCounted
  <1>2. ~(ctl = Free /\ cam.state = "stopped") /\ ctl.pc \notin {"stopped", "starting"}
    BY <1>1 DEF PreviewInv, Silent
  <1>3. /\ src' \in SourceRecords /\ src'.gen = src.gen /\ src'.deadline = src.deadline
        /\ reconnects' = reconnects /\ ctl' = ctl
    BY <1>1 DEF HandleFrame, FramePublished, FrameDropped, FrameCounted, Delivered, IspGoto,
                sourceVars, SourceRecords, IspPlaces
  <1>4. CountedOnce'
    BY <1>1, <1>3 DEF CountedOnce
  <1>5. /\ cam' \in ServiceRecords
        /\ \/ cam'.state = cam.state /\ cam'.error = cam.error
           \/ cam'.state = "running" /\ ~cam'.error
    BY <1>1 DEF HandleFrame, FramePublished, FrameDropped, FrameCounted, ServiceRecords,
                PreviewStates
  <1> QED
    BY <1>1, <1>2, <1>3, <1>4, <1>5 DEF PreviewInv, SourceTypeOK, ServiceTypeOK, Free

LEMMA PreviewStep ==
    ASSUME PreviewInv, [CameraNext]_cameraVars
    PROVE  PreviewInv'
  <1>1. CASE UNCHANGED cameraVars
    BY <1>1 DEF cameraVars, sourceVars, PreviewInv, SourceTypeOK, ServiceTypeOK, CountedOnce,
                Silent
  <1>2. CASE CameraNext
    <2>1. CASE SourceMoves
      BY <2>1, CaptureThreadMoves, OtherThreadsMove DEF SourceMoves, SourceStep
    <2> QED BY <1>2, <2>1, CallBegins, CallGoesOn, FrameHandled DEF CameraNext
  <1> QED BY <1>1, <1>2

LEMMA PreviewBegins ==
    ASSUME CameraInit
    PROVE  PreviewInv
  <1>1. src \in SourceRecords /\ src.deadline = "none" /\ Silent
    <2>1. << >> \in Seq(0 .. MaxGenerations) /\ 0 \in 0 .. MaxGenerations
      BY SourceAssumption
    <2> QED BY <2>1 DEF CameraInit, SourceInit, SourceRecords, CapPlaces, IspPlaces, Silent
  <1>2. /\ reconnects \in [0 .. MaxGenerations -> Nat]
        /\ \A g \in 0 .. MaxGenerations : reconnects[g] = 0
    BY DEF CameraInit, SourceInit
  <1>3. cam \in ServiceRecords /\ cam.state = "stopped" /\ ctl = Free /\ Free \in CallerRecords
        /\ Free.pc = "free"
    BY DEF CameraInit, ServiceRecords, PreviewStates, Free, CallerRecords
  <1>4. CountedOnce
    BY <1>1, <1>2 DEF CountedOnce
  <1> QED BY <1>1, <1>2, <1>3, <1>4 DEF PreviewInv, SourceTypeOK, ServiceTypeOK

(* StoppedIsSilent for any number of calls, frames and lost devices.       *)
THEOREM PreviewFallsSilent ==
    Spec => []StoppedIsSilent
  <1>1. Init => PreviewInv
    BY PreviewBegins DEF Init
  <1>2. PreviewInv /\ [Next]_cameraPathVars => PreviewInv'
    BY PreviewStep DEF Next, cameraPathVars
  <1>3. PreviewInv => StoppedIsSilent
    BY DEF PreviewInv, SourceTypeOK, CountedOnce, Silent, StoppedIsSilent
  <1> QED BY <1>1, <1>2, <1>3, PTL DEF Spec

-----------------------------------------------------------------------------
(* The native pipeline.                                                    *)

LEMMA NativeConstants ==
    /\ IsFiniteSet(Slots) /\ Cardinality(Slots) \in Nat /\ None \notin Slots
    /\ Budget \in Nat /\ Budget < Cardinality(Slots)
  <1>1. IsFiniteSet(Slots) /\ Cardinality(Slots) \in Nat
    BY NativeAssumption, FS_CardinalityType
  <1> QED BY <1>1, NativeAssumption DEF Budget

LEMMA HoldersSplit ==
    ASSUME NEW n
    PROVE  Holders(n) = {n.has["producer"]} \cup Others(n)
  BY DEF Holders, Others, Threads

(* The end of a queue and the frame that leaves it.                        *)
LEMMA QueueMembers ==
    ASSUME NEW q \in Seq(Slots)
    PROVE  /\ Range2(q) \subseteq Slots
           /\ Range2(<< >>) = {}
           /\ \A s \in Slots : /\ Append(q, s) \in Seq(Slots) /\ << s >> \in Seq(Slots)
                               /\ Range2(Append(q, s)) = Range2(q) \cup {s}
                               /\ Range2(<< s >>) = {s}
           /\ q # << >> => /\ Head(q) \in Slots /\ Tail(q) \in Seq(Slots)
                           /\ Range2(q) = {Head(q)} \cup Range2(Tail(q))
  <1>1. Range2(q) \subseteq Slots /\ Range2(<< >>) = {}
    BY DEF Range2
  <1>2. ASSUME NEW s \in Slots
        PROVE  /\ Append(q, s) \in Seq(Slots) /\ << s >> \in Seq(Slots)
               /\ Range2(Append(q, s)) = Range2(q) \cup {s} /\ Range2(<< s >>) = {s}
    <2>1. Append(q, s) \in Seq(Slots) /\ << s >> \in Seq(Slots) /\ Range2(<< s >>) = {s}
      BY DEF Range2
    <2> DEFINE p == Append(q, s)
    <2>2. /\ Len(q) \in Nat /\ DOMAIN q = 1 .. Len(q) /\ DOMAIN p = 1 .. Len(q) + 1
          /\ \A i \in 1 .. Len(q) : p[i] = q[i]
          /\ p[Len(q) + 1] = s
      OBVIOUS
    <2> HIDE DEF p
    <2>3. Range2(p) = Range2(q) \cup {s}
      <3>1. ASSUME NEW i \in DOMAIN p PROVE p[i] \in Range2(q) \cup {s}
        <4>1. CASE i = Len(q) + 1
          BY <2>2, <4>1
        <4>2. CASE i # Len(q) + 1
          BY <2>2, <4>2 DEF Range2
        <4> QED BY <4>1, <4>2
      <3>2. ASSUME NEW i \in DOMAIN q PROVE q[i] \in Range2(p)
        <4>1. i \in DOMAIN p /\ p[i] = q[i]
          BY <2>2
        <4> QED BY <4>1 DEF Range2
      <3>3. s \in Range2(p)
        <4>1. Len(q) + 1 \in DOMAIN p
          BY <2>2
        <4> QED BY <2>2, <4>1 DEF Range2
      <3> QED BY <3>1, <3>2, <3>3 DEF Range2
    <2>4. Range2(Append(q, s)) = Range2(q) \cup {s}
      BY <2>3 DEF p
    <2> QED BY <2>1, <2>4
  <1>3. ASSUME q # << >>
        PROVE  /\ Head(q) \in Slots /\ Tail(q) \in Seq(Slots)
               /\ Range2(q) = {Head(q)} \cup Range2(Tail(q))
    <2> DEFINE p == Tail(q)
    <2>1. Head(q) \in Slots /\ p \in Seq(Slots)
      BY <1>3, HeadTailProperties
    <2>2. /\ Len(q) \in Nat /\ Len(q) > 0 /\ DOMAIN q = 1 .. Len(q) /\ Head(q) = q[1]
          /\ DOMAIN p = 1 .. Len(q) - 1 /\ \A i \in 1 .. Len(q) - 1 : p[i] = q[i + 1]
      BY <1>3, HeadTailProperties
    <2> HIDE DEF p
    <2>3. ASSUME NEW i \in DOMAIN q PROVE q[i] = Head(q) \/ q[i] \in Range2(p)
      <3>1. CASE i = 1
        BY <2>2, <3>1
      <3>2. CASE i # 1
        <4>1. i - 1 \in DOMAIN p /\ (i - 1) + 1 = i /\ i - 1 \in 1 .. Len(q) - 1
          BY <2>2, <3>2
        <4>2. p[i - 1] = q[(i - 1) + 1]
          BY <2>2, <4>1
        <4> QED BY <4>1, <4>2 DEF Range2
      <3> QED BY <3>1, <3>2
    <2>4. ASSUME NEW i \in DOMAIN p PROVE p[i] \in Range2(q)
      <3>1. p[i] = q[i + 1] /\ i + 1 \in DOMAIN q
        BY <2>2
      <3> QED BY <3>1 DEF Range2
    <2>5. Head(q) \in Range2(q)
      <3>1. 1 \in DOMAIN q
        BY <2>2
      <3> QED BY <2>2, <3>1 DEF Range2
    <2>6. Range2(q) = {Head(q)} \cup Range2(p)
      BY <2>3, <2>4, <2>5 DEF Range2
    <2>7. Tail(q) \in Seq(Slots) /\ Range2(q) = {Head(q)} \cup Range2(Tail(q))
      BY <2>1, <2>6 DEF p
    <2> QED BY <2>1, <2>7
  <1> QED BY <1>1, <1>2, <1>3

(* ~SharedNativeFrame for every frame that nobody holds any more.          *)
LEMMA Settled ==
    ASSUME NEW n \in NativeRecords, Counted(n),
           \A s \in Slots : s \in Holders(n) => n.slot[s] = "leased"
    PROVE  LET m == Settle(n) IN
           /\ m \in NativeRecords /\ Leases(m)
           /\ m.shared = n.shared \cap Holders(n)
           /\ m.running = n.running /\ m.stop = n.stop /\ m.preview = n.preview
           /\ m.transform = n.transform /\ m.retired = n.retired /\ m.at = n.at
           /\ m.has = n.has /\ m.starved = n.starved /\ m.stuck = n.stuck
           /\ m.session = n.session /\ m.encoding = n.encoding
  <1> DEFINE gone == {s \in Slots : n.slot[s] = "leased" /\ s \notin Holders(n)}
             pool == [s \in Slots |-> IF s \in gone THEN "pending" ELSE n.slot[s]]
             left == n.retained - Cardinality(gone \cap n.shared)
             held == n.shared \ gone
             m == [n EXCEPT !.slot = pool, !.retained = left, !.shared = held]
  <1>1. Settle(n) = m
    BY DEF Settle, Return, NativeRecords
  <1>2. /\ pool \in [Slots -> {"argus", "leased", "pending"}]
        /\ \A s \in Slots : pool[s] = "leased" <=> s \in Holders(n)
        /\ \A s \in Slots : pool[s] = "leased" => n.slot[s] = "leased"
    BY DEF NativeRecords
  <1>3. held = n.shared \cap Holders(n) /\ held \subseteq Slots
    BY DEF NativeRecords, Counted, Outstanding
  <1>4. left = Cardinality(held) /\ left \in Nat /\ left <= n.retained
    <2>1. IsFiniteSet(n.shared)
      BY NativeConstants, FS_Subset DEF NativeRecords
    <2>2. Cardinality(held) = Cardinality(n.shared) - Cardinality(n.shared \cap gone)
      BY <2>1, FS_Difference
    <2>3. gone \cap n.shared = n.shared \cap gone
      OBVIOUS
    <2>4. Cardinality(n.shared) \in Nat /\ Cardinality(held) \in Nat
          /\ Cardinality(n.shared \cap gone) \in Nat
      <3>1. IsFiniteSet(held) /\ IsFiniteSet(n.shared \cap gone)
        BY <2>1, FS_Subset
      <3> QED BY <2>1, <3>1, FS_CardinalityType
    <2>5. n.retained = Cardinality(n.shared)
      BY DEF Counted
    <2>6. left = Cardinality(n.shared) - Cardinality(n.shared \cap gone)
      BY <2>3, <2>5
    <2> HIDE DEF gone, held, left
    <2> QED BY <2>2, <2>4, <2>5, <2>6
  <1> HIDE DEF pool, left, held, gone
  <1>5. /\ m \in NativeRecords /\ m.slot = pool /\ m.retained = left /\ m.shared = held
        /\ m.running = n.running /\ m.stop = n.stop /\ m.preview = n.preview
        /\ m.transform = n.transform /\ m.retired = n.retired /\ m.at = n.at
        /\ m.has = n.has /\ m.starved = n.starved /\ m.stuck = n.stuck
        /\ m.session = n.session /\ m.encoding = n.encoding
    BY <1>2, <1>3, <1>4 DEF NativeRecords
  <1> HIDE DEF m
  <1>6. Holders(m) = Holders(n) /\ Others(m) = Others(n) /\ Others(n) \subseteq Holders(n)
    BY <1>5, HoldersSplit DEF Holders, Others
  <1>7. Counted(m)
    <2>1. held \subseteq Outstanding(m)
      BY <1>2, <1>3, <1>5 DEF Outstanding
    <2>2. Others(m) \cap Slots \subseteq held
      BY <1>3, <1>6 DEF Counted
    <2>3. left <= Budget
      <3>1. n.retained \in Nat /\ n.retained <= Budget
        BY DEF Counted, NativeRecords
      <3> QED BY <1>4, <3>1, NativeConstants
    <2> QED BY <1>4, <1>5, <2>1, <2>2, <2>3 DEF Counted
  <1>8. Leases(m)
    BY <1>2, <1>5, <1>6, <1>7 DEF Leases
  <1> QED BY <1>1, <1>3, <1>5, <1>8

LEMMA SettledSound ==
    ASSUME NEW n \in NativeRecords, Counted(n), Places(n), ~n.starved, ~n.stuck,
           \A s \in Slots : s \in Holders(n) => n.slot[s] = "leased"
    PROVE  /\ Sound(Settle(n)) /\ Settle(n).session = n.session
           /\ Settle(n).retired = n.retired /\ Settle(n).has = n.has /\ Settle(n).at = n.at
  <1> DEFINE m == Settle(n)
  <1>1. /\ m \in NativeRecords /\ Leases(m)
        /\ m.shared = n.shared \cap Holders(n)
        /\ m.running = n.running /\ m.stop = n.stop /\ m.preview = n.preview
        /\ m.transform = n.transform /\ m.retired = n.retired /\ m.at = n.at
        /\ m.has = n.has /\ m.starved = n.starved /\ m.stuck = n.stuck
        /\ m.session = n.session /\ m.encoding = n.encoding
    BY Settled
  <1> HIDE DEF m
  <1>2. n.has["producer"] \in Holders(n)
    BY HoldersSplit
  <1>3. Places(m)
    BY <1>1, <1>2 DEF Places
  <1> QED BY <1>1, <1>3 DEF Sound, m

LEMMA Awake ==
    ASSUME NEW n, Places(n), NEW t \in Threads, n.at[t] \notin {"off", "exit"}
    PROVE  n.stop # "capture" /\ \A q \in Threads : n.at[q] # "off"
  BY DEF Places

LEMMA FailSound ==
    ASSUME NEW n, Sound(n), NEW t \in Threads, n.at[t] \notin {"off", "exit"},
           t = "producer" => n.at[t] \in {"acquire", "publish"}
    PROVE  Sound(Fail(n, t)) /\ Fail(n, t).session = n.session
  <1> DEFINE x == [n EXCEPT !.running = FALSE, !.at[t] = "exit", !.has[t] = None]
             at == [n.at EXCEPT ![t] = "exit"]
             has == [n.has EXCEPT ![t] = None]
  <1>1. /\ n \in NativeRecords /\ Leases(n) /\ Places(n) /\ ~n.starved /\ ~n.stuck
        /\ n.at \in [Threads -> NativePlaces] /\ n.has \in [Threads -> Slots \cup {None}]
    BY DEF Sound, NativeRecords
  <1>2. /\ at \in [Threads -> NativePlaces] /\ at[t] = "exit"
        /\ has \in [Threads -> Slots \cup {None}] /\ has[t] = None
        /\ \A q \in Threads : q # t => at[q] = n.at[q] /\ has[q] = n.has[q]
    BY <1>1 DEF NativePlaces
  <1>3. x = [n EXCEPT !.running = FALSE, !.at = at, !.has = has]
    OBVIOUS
  <1> HIDE DEF x, at, has
  <1>4. /\ x \in NativeRecords /\ x.at = at /\ x.has = has /\ x.slot = n.slot
        /\ x.preview = n.preview /\ x.transform = n.transform /\ x.retired = n.retired
        /\ x.shared = n.shared /\ x.retained = n.retained /\ x.stop = n.stop
        /\ ~x.starved /\ ~x.stuck /\ x.session = n.session
    BY <1>1, <1>2, <1>3 DEF NativeRecords
  <1>5. \A q \in {"producer", "preview", "encode"} : x.has[q] = n.has[q] \/ x.has[q] = None
    BY <1>2, <1>4 DEF Threads
  <1>6. Others(x) \cap Slots \subseteq Others(n) \cap Slots
        /\ \A s \in Slots : s \in Holders(x) => s \in Holders(n)
    BY <1>4, <1>5, NativeConstants, HoldersSplit DEF Others
  <1>7. Counted(x) /\ \A s \in Slots : s \in Holders(x) => x.slot[s] = "leased"
    BY <1>1, <1>4, <1>6 DEF Leases, Counted, Outstanding
  <1>8. Places(x)
    <2>1. n.stop # "capture" /\ \A q \in Threads : n.at[q] # "off"
      BY <1>1, Awake
    <2>2. \A q \in Threads : x.at[q] # "off"
      BY <1>2, <1>4, <2>1
    <2>3. t \in Threads /\ Threads = {"producer", "preview", "encode"}
      BY DEF Threads
    <2>4. CASE t = "producer"
      <3>1. n.at["producer"] # "reserve"
        BY <2>4
      <3> QED BY <1>1, <1>2, <1>4, <2>1, <2>2, <2>3, <2>4, <3>1 DEF Places, Wrapping
    <2>5. CASE t # "producer"
      BY <1>1, <1>2, <1>4, <2>1, <2>2, <2>3, <2>5 DEF Places, Wrapping
    <2> QED BY <2>4, <2>5
  <1>9. Fail(n, t) = Settle(x)
    BY DEF Fail, x
  <1> QED BY <1>4, <1>7, <1>8, <1>9, SettledSound

LEMMA Flushed ==
    ASSUME NEW n, Sound(n)
    PROVE  LET m == FlushReturns(n) IN
           /\ Sound(m) /\ Outstanding(m) = Outstanding(n)
           /\ \A s \in Slots : m.slot[s] \in {"argus", "leased"}
           /\ m.running = n.running /\ m.stop = n.stop /\ m.preview = n.preview
           /\ m.transform = n.transform /\ m.retired = n.retired /\ m.at = n.at
           /\ m.has = n.has /\ m.session = n.session /\ m.shared = n.shared
           /\ m.retained = n.retained
  <1> DEFINE pool == [s \in Slots |-> IF n.slot[s] = "pending" THEN "argus" ELSE n.slot[s]]
             m == [n EXCEPT !.slot = pool]
  <1>1. n \in NativeRecords /\ Leases(n) /\ Places(n) /\ ~n.starved /\ ~n.stuck
    BY DEF Sound
  <1>2. FlushReturns(n) = m
    BY <1>1 DEF FlushReturns, NativeRecords
  <1>3. /\ pool \in [Slots -> {"argus", "leased", "pending"}]
        /\ \A s \in Slots : /\ pool[s] \in {"argus", "leased"}
                            /\ pool[s] = "leased" <=> n.slot[s] = "leased"
    BY <1>1 DEF NativeRecords
  <1> HIDE DEF pool
  <1>4. /\ m \in NativeRecords /\ m.slot = pool
        /\ m.running = n.running /\ m.stop = n.stop /\ m.preview = n.preview
        /\ m.transform = n.transform /\ m.retired = n.retired /\ m.at = n.at
        /\ m.has = n.has /\ m.session = n.session /\ m.shared = n.shared
        /\ m.retained = n.retained /\ m.starved = n.starved /\ m.stuck = n.stuck
    BY <1>1, <1>3 DEF NativeRecords
  <1> HIDE DEF m
  <1>5. Holders(m) = Holders(n) /\ Others(m) = Others(n) /\ Outstanding(m) = Outstanding(n)
    BY <1>3, <1>4 DEF Holders, Others, Outstanding
  <1>6. Leases(m) /\ Places(m)
    BY <1>1, <1>3, <1>4, <1>5 DEF Leases, Counted, Places
  <1> QED BY <1>1, <1>2, <1>3, <1>4, <1>5, <1>6 DEF Sound

LEMMA AcquireSound ==
    ASSUME Sound(nat), Acquire \/ AcquireFails \/ ProducerStops
    PROVE  Sound(nat') /\ nat'.session = nat.session
  <1>1. CASE AcquireFails \/ ProducerStops
    <2>1. nat.at["producer"] \in {"acquire", "publish"} /\ nat' = Fail(nat, "producer")
      BY <1>1 DEF AcquireFails, ProducerStops, ThreadAt
    <2>2. "producer" \in Threads
      BY DEF Threads
    <2> QED BY <2>1, <2>2, FailSound
  <1>2. CASE Acquire
    <2> DEFINE n == FlushReturns(nat)
    <2>1. /\ Sound(n) /\ Outstanding(n) = Outstanding(nat)
          /\ \A s \in Slots : n.slot[s] \in {"argus", "leased"}
          /\ n.at = nat.at /\ n.session = nat.session
          /\ nat.at["producer"] = "acquire"
      BY <1>2, Flushed DEF Acquire, ThreadAt
    <2>2. \/ nat' = Fail(n, "producer")
          \/ Outstanding(n) = Slots
          \/ /\ Outstanding(n) # Slots
             /\ nat' = [n EXCEPT !.slot[CHOOSE x \in Slots : n.slot[x] = "argus"] = "leased",
                                 !.has["producer"] = CHOOSE x \in Slots : n.slot[x] = "argus",
                                 !.at["producer"] = "publish"]
      BY <1>2 DEF Acquire
    <2> HIDE DEF n
    <2>3. /\ n \in NativeRecords /\ Leases(n) /\ Places(n) /\ ~n.starved /\ ~n.stuck
          /\ n.at["producer"] = "acquire" /\ n.has["producer"] = None
          /\ n.retired = {} /\ "producer" \in Threads
      BY <2>1 DEF Sound, Places, Wrapping, Threads
    <2>4. Outstanding(n) # Slots
      <3>1. Outstanding(n) \subseteq n.shared
        BY <2>3, NativeConstants, HoldersSplit DEF Leases, Counted, Outstanding
      <3>2. n.shared \subseteq Slots
        BY <2>3 DEF NativeRecords
      <3>3. ASSUME Outstanding(n) = Slots PROVE FALSE
        <4>1. n.shared = Slots
          BY <3>1, <3>2, <3>3
        <4> QED BY <4>1, <2>3, NativeConstants DEF Leases, Counted
      <3> QED BY <3>3
    <2>5. CASE nat' = Fail(n, "producer")
      BY <2>1, <2>3, <2>5, FailSound
    <2>6. CASE nat' # Fail(n, "producer")
      <3> DEFINE s == CHOOSE x \in Slots : n.slot[x] = "argus"
                 pool == [n.slot EXCEPT ![s] = "leased"]
                 has == [n.has EXCEPT !["producer"] = s]
                 at == [n.at EXCEPT !["producer"] = "publish"]
      <3>1. s \in Slots /\ n.slot[s] = "argus"
        BY <2>1, <2>4 DEF Outstanding
      <3>2. nat' = [n EXCEPT !.slot = pool, !.has = has, !.at = at]
        BY <2>2, <2>4, <2>6
      <3> HIDE DEF s
      <3>3. /\ n.slot \in [Slots -> {"argus", "leased", "pending"}]
            /\ n.at \in [Threads -> NativePlaces] /\ n.has \in [Threads -> Slots \cup {None}]
        BY <2>3 DEF NativeRecords
      <3>4. /\ pool \in [Slots -> {"argus", "leased", "pending"}]
            /\ \A r \in Slots : pool[r] = "leased" <=> (r = s \/ n.slot[r] = "leased")
        BY <3>1, <3>3
      <3>5. /\ has \in [Threads -> Slots \cup {None}] /\ has["producer"] = s
            /\ at \in [Threads -> NativePlaces] /\ at["producer"] = "publish"
            /\ \A q \in {"preview", "encode"} : has[q] = n.has[q] /\ at[q] = n.at[q]
        BY <2>3, <3>1, <3>3 DEF Threads, NativePlaces
      <3> HIDE DEF pool, has, at
      <3>6. /\ nat' \in NativeRecords /\ nat'.slot = pool /\ nat'.has = has /\ nat'.at = at
            /\ nat'.preview = n.preview /\ nat'.transform = n.transform
            /\ nat'.retired = n.retired /\ nat'.shared = n.shared
            /\ nat'.retained = n.retained /\ nat'.stop = n.stop
            /\ ~nat'.starved /\ ~nat'.stuck /\ nat'.session = n.session
        BY <2>3, <3>2, <3>4, <3>5 DEF NativeRecords
      <3>7. Others(nat') = Others(n)
        BY <3>5, <3>6 DEF Others
      <3>8. Leases(nat')
        <4>1. \A r \in Slots : nat'.slot[r] = "leased" <=> r \in Holders(nat')
          BY <2>3, <3>4, <3>5, <3>6, <3>7, HoldersSplit, NativeConstants DEF Leases
        <4>2. Counted(nat')
          BY <2>3, <3>4, <3>6, <3>7 DEF Leases, Counted, Outstanding
        <4> QED BY <4>1, <4>2 DEF Leases
      <3>9. Places(nat')
        <4>1. n.stop # "capture" /\ \A q \in Threads : n.at[q] # "off"
          BY <2>3, Awake
        <4>2. \A q \in Threads : at[q] # "off"
          BY <3>5, <4>1 DEF Threads
        <4>3. s \notin n.shared /\ s # None
          BY <2>3, <3>1, NativeConstants DEF Leases, Counted, Outstanding
        <4> QED BY <2>3, <3>5, <3>6, <4>1, <4>2, <4>3 DEF Places, Wrapping, Threads
      <3> QED BY <2>1, <3>6, <3>8, <3>9 DEF Sound
    <2> QED BY <2>5, <2>6
  <1> QED BY <1>1, <1>2

LEMMA EvictSound ==
    ASSUME Sound(nat), PublishEvict
    PROVE  Sound(nat') /\ nat'.session = nat.session
  <1> DEFINE full == Len(nat.transform) = TransformCapacity
             over == nat.retained >= Budget
             kept == IF over THEN << >> ELSE IF full THEN Tail(nat.transform) ELSE nat.transform
             out == (Range2(nat.preview) \cup Range2(nat.transform)) \ Range2(kept)
             at == [nat.at EXCEPT !["producer"] = "reserve"]
  <1>1. /\ nat \in NativeRecords /\ Leases(nat) /\ Places(nat) /\ ~nat.starved /\ ~nat.stuck
        /\ nat.at["producer"] = "publish" /\ nat.has["producer"] # None
        /\ nat.has["producer"] \notin nat.shared
        /\ nat.retired = {} /\ "producer" \in Threads
    BY DEF PublishEvict, ThreadAt, Sound, Places, Wrapping, Threads
  <1>2. /\ nat.preview \in Seq(Slots) /\ nat.transform \in Seq(Slots)
        /\ nat.at \in [Threads -> NativePlaces]
    BY <1>1 DEF NativeRecords
  <1>3. kept \in Seq(Slots) /\ Range2(kept) \subseteq Range2(nat.transform)
    <2>1. << >> \in Seq(Slots) /\ Range2(<< >>) = {}
      BY <1>2, QueueMembers
    <2>2. CASE nat.transform = << >>
      <3>1. ~full
        BY <2>2, NativeAssumption, NativeConstants
      <3> QED BY <2>1, <2>2, <3>1
    <2>3. CASE nat.transform # << >>
      <3>1. Tail(nat.transform) \in Seq(Slots)
            /\ Range2(Tail(nat.transform)) \subseteq Range2(nat.transform)
        BY <1>2, <2>3, QueueMembers
      <3> QED BY <1>2, <2>1, <3>1
    <2> QED BY <2>2, <2>3
  <1>4. nat' = [nat EXCEPT !.retired = out, !.preview = << >>, !.transform = kept, !.at = at]
    BY DEF PublishEvict
  <1>5. out \subseteq Slots /\ Range2(<< >>) = {} /\ << >> \in Seq(Slots)
    BY <1>2, QueueMembers
  <1>6. at \in [Threads -> NativePlaces] /\ at["producer"] = "reserve"
        /\ \A q \in {"preview", "encode"} : at[q] = nat.at[q]
    BY <1>1, <1>2 DEF Threads, NativePlaces
  <1>7. Range2(nat.preview) \cup Range2(nat.transform) = out \cup Range2(kept)
    BY <1>3
  <1> HIDE DEF full, over, kept, out, at
  <1>8. /\ nat' \in NativeRecords /\ nat'.retired = out /\ nat'.preview = << >>
        /\ nat'.transform = kept /\ nat'.at = at /\ nat'.has = nat.has
        /\ nat'.slot = nat.slot /\ nat'.shared = nat.shared /\ nat'.retained = nat.retained
        /\ nat'.stop = nat.stop /\ ~nat'.starved /\ ~nat'.stuck /\ nat'.session = nat.session
    BY <1>1, <1>3, <1>4, <1>5, <1>6 DEF NativeRecords
  <1>9. Others(nat') = Others(nat) /\ Holders(nat') = Holders(nat)
    <2>1. Others(nat') = Others(nat)
      BY <1>1, <1>5, <1>7, <1>8 DEF Others
    <2> QED BY <2>1, <1>8, HoldersSplit
  <1>10. Leases(nat')
    BY <1>1, <1>8, <1>9 DEF Leases, Counted, Outstanding
  <1>11. Places(nat')
    <2>1. nat.stop # "capture" /\ \A q \in Threads : nat.at[q] # "off"
      BY <1>1, Awake
    <2>2. \A q \in Threads : at[q] # "off"
      BY <1>6, <2>1 DEF Threads
    <2> QED BY <1>1, <1>6, <1>8, <2>1, <2>2 DEF Places, Wrapping, Threads
  <1> QED BY <1>8, <1>10, <1>11 DEF Sound

LEMMA ReserveSound ==
    ASSUME Sound(nat), PublishReserve
    PROVE  Sound(nat') /\ nat'.session = nat.session
  <1> DEFINE x == [nat EXCEPT !.retired = {}]
             n == Settle(x)
             p == n.has["producer"]
  <1>1. /\ nat \in NativeRecords /\ Leases(nat) /\ Places(nat) /\ ~nat.starved /\ ~nat.stuck
        /\ nat.at["producer"] = "reserve" /\ "producer" \in Threads
    BY DEF PublishReserve, ThreadAt, Sound, Threads
  <1>2. /\ x \in NativeRecords /\ x.retired = {} /\ x.slot = nat.slot /\ x.has = nat.has
        /\ x.at = nat.at /\ x.preview = nat.preview /\ x.transform = nat.transform
        /\ x.shared = nat.shared /\ x.retained = nat.retained /\ x.stop = nat.stop
        /\ ~x.starved /\ ~x.stuck /\ x.session = nat.session
    BY <1>1 DEF NativeRecords
  <1>3. /\ Sound(n) /\ n.session = nat.session /\ n.retired = {} /\ n.has = nat.has
        /\ n.at = nat.at
    <2> HIDE DEF x
    <2>1. Others(x) \subseteq Others(nat) /\ Holders(x) \subseteq Holders(nat)
      BY <1>2, HoldersSplit DEF Others
    <2>2. Counted(x) /\ \A s \in Slots : s \in Holders(x) => x.slot[s] = "leased"
      BY <1>1, <1>2, <2>1 DEF Leases, Counted, Outstanding
    <2>3. Places(x)
      BY <1>1, <1>2 DEF Places
    <2> QED BY <1>2, <2>2, <2>3, SettledSound
  <1>4. nat' = IF n.retained >= Budget
               THEN Settle([n EXCEPT !.has["producer"] = None, !.at["producer"] = "acquire"])
               ELSE [n EXCEPT !.retained = n.retained + 1, !.shared = n.shared \cup {p},
                              !.at["producer"] = "enqueue"]
    BY DEF PublishReserve
  <1> HIDE DEF x, n
  <1>5. /\ n \in NativeRecords /\ Leases(n) /\ Places(n) /\ ~n.starved /\ ~n.stuck
        /\ n.at["producer"] = "reserve" /\ n.has["producer"] # None
        /\ n.has["producer"] \notin n.shared
    BY <1>1, <1>3 DEF Sound, Places, Wrapping
  <1>6. /\ n.at \in [Threads -> NativePlaces] /\ n.has \in [Threads -> Slots \cup {None}]
        /\ n.retained \in Nat /\ n.shared \subseteq Slots
    BY <1>5 DEF NativeRecords
  <1>7. n.stop # "capture" /\ \A q \in Threads : n.at[q] # "off"
    BY <1>1, <1>5, Awake
  <1>8. CASE n.retained >= Budget
    <2> DEFINE has == [n.has EXCEPT !["producer"] = None]
               at == [n.at EXCEPT !["producer"] = "acquire"]
               y == [n EXCEPT !.has = has, !.at = at]
    <2>1. /\ has \in [Threads -> Slots \cup {None}] /\ has["producer"] = None
          /\ at \in [Threads -> NativePlaces] /\ at["producer"] = "acquire"
          /\ \A q \in {"preview", "encode"} : has[q] = n.has[q] /\ at[q] = n.at[q]
      BY <1>1, <1>6 DEF Threads, NativePlaces
    <2>2. nat' = Settle(y)
      BY <1>4, <1>8
    <2> HIDE DEF has, at
    <2>3. /\ y \in NativeRecords /\ y.retired = n.retired /\ y.slot = n.slot /\ y.has = has
          /\ y.at = at /\ y.preview = n.preview /\ y.transform = n.transform
          /\ y.shared = n.shared /\ y.retained = n.retained /\ y.stop = n.stop
          /\ ~y.starved /\ ~y.stuck /\ y.session = n.session
      BY <1>5, <2>1 DEF NativeRecords
    <2> HIDE DEF y
    <2>4. Others(y) = Others(n) /\ \A s \in Slots : s \in Holders(y) => s \in Holders(n)
      <3>1. Others(y) = Others(n)
        BY <2>1, <2>3 DEF Others
      <3> QED BY <2>1, <2>3, <3>1, NativeConstants, HoldersSplit
    <2>5. Counted(y) /\ \A s \in Slots : s \in Holders(y) => y.slot[s] = "leased"
      BY <1>5, <2>3, <2>4 DEF Leases, Counted, Outstanding
    <2>6. Places(y)
      <3>1. \A q \in Threads : at[q] # "off"
        BY <1>7, <2>1 DEF Threads
      <3> QED BY <1>3, <1>5, <1>7, <2>1, <2>3, <3>1 DEF Places, Wrapping, Threads
    <2> QED BY <1>3, <2>2, <2>3, <2>5, <2>6, SettledSound
  <1>9. CASE n.retained < Budget
    <2> DEFINE more == n.retained + 1
               wrapped == n.shared \cup {p}
               at == [n.at EXCEPT !["producer"] = "enqueue"]
    <2>1. p \in Slots /\ p \notin n.shared /\ n.slot[p] = "leased"
      <3>1. p \in Slots
        BY <1>1, <1>5, <1>6
      <3> QED BY <1>5, <3>1, HoldersSplit DEF Leases
    <2>2. more \in Nat /\ more <= Budget /\ more = Cardinality(wrapped) /\ wrapped \subseteq Slots
      <3>1. IsFiniteSet(n.shared)
        BY <1>6, NativeConstants, FS_Subset
      <3>2. Cardinality(wrapped) = Cardinality(n.shared) + 1
        BY <2>1, <3>1, FS_AddElement
      <3>3. n.retained = Cardinality(n.shared)
        BY <1>5 DEF Leases, Counted
      <3> QED BY <1>6, <1>9, <2>1, <3>2, <3>3, NativeConstants
    <2>3. /\ at \in [Threads -> NativePlaces] /\ at["producer"] = "enqueue"
          /\ \A q \in {"preview", "encode"} : at[q] = n.at[q]
      BY <1>1, <1>6 DEF Threads, NativePlaces
    <2>4. nat' = [n EXCEPT !.retained = more, !.shared = wrapped, !.at = at]
      <3>1. ~(n.retained >= Budget)
        BY <1>6, <1>9, NativeConstants
      <3> QED BY <1>4, <3>1
    <2>5. p \in wrapped /\ n.shared \subseteq wrapped
      OBVIOUS
    <2>6. wrapped \subseteq n.shared \cup {p}
      OBVIOUS
    <2> HIDE DEF more, wrapped, at
    <2>7. /\ nat' \in NativeRecords /\ nat'.retired = n.retired /\ nat'.slot = n.slot
          /\ nat'.has = n.has /\ nat'.at = at /\ nat'.preview = n.preview
          /\ nat'.transform = n.transform /\ nat'.shared = wrapped /\ nat'.retained = more
          /\ nat'.stop = n.stop /\ ~nat'.starved /\ ~nat'.stuck /\ nat'.session = n.session
      BY <1>5, <2>2, <2>3, <2>4 DEF NativeRecords
    <2>8. Others(nat') = Others(n) /\ Holders(nat') = Holders(n)
      BY <2>7 DEF Others, Holders
    <2>9. Leases(nat')
      <3>1. wrapped \subseteq Outstanding(nat')
        BY <1>5, <2>1, <2>2, <2>6, <2>7 DEF Leases, Counted, Outstanding
      <3> QED BY <1>5, <2>2, <2>5, <2>7, <2>8, <3>1 DEF Leases, Counted
    <2>10. Places(nat')
      <3>1. \A q \in Threads : at[q] # "off"
        BY <1>7, <2>3 DEF Threads
      <3> QED BY <1>3, <1>5, <1>7, <2>3, <2>5, <2>7, <3>1 DEF Places, Wrapping, Threads
    <2> QED BY <1>3, <2>7, <2>9, <2>10 DEF Sound
  <1> QED BY <1>6, <1>8, <1>9, NativeConstants

LEMMA EnqueueSound ==
    ASSUME Sound(nat), PublishEnqueue
    PROVE  Sound(nat') /\ nat'.session = nat.session
  <1> DEFINE p == nat.has["producer"]
             next == IF nat.encoding THEN "acquire" ELSE "discard"
             q1 == << p >>
             q2 == Append(nat.transform, p)
             at == [nat.at EXCEPT !["producer"] = next]
             has == [nat.has EXCEPT !["producer"] = None]
  <1>1. /\ nat \in NativeRecords /\ Leases(nat) /\ Places(nat) /\ ~nat.starved /\ ~nat.stuck
        /\ nat.at["producer"] = "enqueue" /\ p # None /\ p \in nat.shared
        /\ nat.preview = << >> /\ nat.retired = {} /\ "producer" \in Threads
    BY DEF PublishEnqueue, ThreadAt, Sound, Places, Wrapping, Threads
  <1>2. /\ nat.transform \in Seq(Slots) /\ nat.at \in [Threads -> NativePlaces]
        /\ nat.has \in [Threads -> Slots \cup {None}]
    BY <1>1 DEF NativeRecords
  <1>3. p \in Slots
    BY <1>1, <1>2
  <1>4. /\ q1 \in Seq(Slots) /\ q2 \in Seq(Slots) /\ Range2(q1) = {p}
        /\ Range2(q2) = Range2(nat.transform) \cup {p} /\ Range2(nat.preview) = {}
    BY <1>1, <1>2, <1>3, QueueMembers
  <1>5. nat' = [nat EXCEPT !.preview = q1, !.transform = q2, !.has = has, !.at = at]
    BY DEF PublishEnqueue
  <1>6. next \in {"acquire", "discard"}
    OBVIOUS
  <1> HIDE DEF next
  <1>7. /\ has \in [Threads -> Slots \cup {None}] /\ has["producer"] = None
        /\ at \in [Threads -> NativePlaces] /\ at["producer"] = next
        /\ \A q \in {"preview", "encode"} : has[q] = nat.has[q] /\ at[q] = nat.at[q]
    BY <1>1, <1>2, <1>6 DEF Threads, NativePlaces
  <1> HIDE DEF q1, q2, at, has
  <1>8. /\ nat' \in NativeRecords /\ nat'.retired = nat.retired /\ nat'.preview = q1
        /\ nat'.transform = q2 /\ nat'.at = at /\ nat'.has = has
        /\ nat'.slot = nat.slot /\ nat'.shared = nat.shared /\ nat'.retained = nat.retained
        /\ nat'.stop = nat.stop /\ ~nat'.starved /\ ~nat'.stuck /\ nat'.session = nat.session
    BY <1>1, <1>4, <1>5, <1>7 DEF NativeRecords
  <1>9. Others(nat') = Others(nat) \cup {p} /\ Holders(nat) = {p} \cup Others(nat)
        /\ \A s \in Slots : s \in Holders(nat') <=> s \in Holders(nat)
    <2>1. Others(nat') = Others(nat) \cup {p}
      BY <1>4, <1>7, <1>8 DEF Others
    <2> QED BY <1>7, <1>8, <2>1, HoldersSplit, NativeConstants
  <1>10. Leases(nat')
    BY <1>1, <1>8, <1>9 DEF Leases, Counted, Outstanding
  <1>11. Places(nat')
    <2>1. nat.stop # "capture" /\ \A q \in Threads : nat.at[q] # "off"
      BY <1>1, Awake
    <2>2. \A q \in Threads : at[q] # "off"
      BY <1>6, <1>7, <2>1 DEF Threads
    <2> QED BY <1>1, <1>6, <1>7, <1>8, <2>1, <2>2 DEF Places, Wrapping, Threads
  <1> QED BY <1>8, <1>10, <1>11 DEF Sound

LEMMA DiscardSound ==
    ASSUME Sound(nat), DiscardTransform
    PROVE  Sound(nat') /\ nat'.session = nat.session
  <1> DEFINE at == [nat.at EXCEPT !["producer"] = "acquire"]
             x == [nat EXCEPT !.transform = << >>, !.at = at]
  <1>1. /\ nat \in NativeRecords /\ Leases(nat) /\ Places(nat) /\ ~nat.starved /\ ~nat.stuck
        /\ nat.at["producer"] = "discard" /\ "producer" \in Threads
        /\ nat.at \in [Threads -> NativePlaces] /\ nat' = Settle(x)
    BY DEF DiscardTransform, ThreadAt, Sound, Threads, NativeRecords
  <1>2. /\ at \in [Threads -> NativePlaces] /\ at["producer"] = "acquire"
        /\ \A q \in {"preview", "encode"} : at[q] = nat.at[q]
    BY <1>1 DEF Threads, NativePlaces
  <1>3. << >> \in Seq(Slots) /\ Range2(<< >>) = {}
    BY DEF Range2
  <1> HIDE DEF at
  <1>4. /\ x \in NativeRecords /\ x.retired = nat.retired /\ x.slot = nat.slot
        /\ x.has = nat.has /\ x.at = at /\ x.preview = nat.preview /\ x.transform = << >>
        /\ x.shared = nat.shared /\ x.retained = nat.retained /\ x.stop = nat.stop
        /\ ~x.starved /\ ~x.stuck /\ x.session = nat.session
    BY <1>1, <1>2, <1>3 DEF NativeRecords
  <1> HIDE DEF x
  <1>5. Others(x) \subseteq Others(nat) /\ Holders(x) \subseteq Holders(nat)
    <2>1. Others(x) \subseteq Others(nat)
      BY <1>3, <1>4 DEF Others
    <2> QED BY <1>4, <2>1, HoldersSplit
  <1>6. Counted(x) /\ \A s \in Slots : s \in Holders(x) => x.slot[s] = "leased"
    BY <1>1, <1>4, <1>5 DEF Leases, Counted, Outstanding
  <1>7. Places(x)
    <2>1. nat.stop # "capture" /\ \A q \in Threads : nat.at[q] # "off"
      BY <1>1, Awake
    <2>2. \A q \in Threads : at[q] # "off"
      BY <1>2, <2>1 DEF Threads
    <2> QED BY <1>1, <1>2, <1>4, <2>1, <2>2 DEF Places, Wrapping, Threads
  <1> QED BY <1>1, <1>4, <1>6, <1>7, SettledSound

LEMMA PopSound ==
    ASSUME Sound(nat), NEW t \in {"preview", "encode"}, WaitPop(t)
    PROVE  Sound(nat') /\ nat'.session = nat.session
  <1> DEFINE h == Head(Queue(t))
             q1 == IF t = "preview" THEN Tail(nat.preview) ELSE nat.preview
             q2 == IF t = "encode" THEN Tail(nat.transform) ELSE nat.transform
             at == [nat.at EXCEPT ![t] = "convert"]
             has == [nat.has EXCEPT ![t] = h]
  <1>1. /\ nat \in NativeRecords /\ Leases(nat) /\ Places(nat) /\ ~nat.starved /\ ~nat.stuck
        /\ nat.at[t] = "pop" /\ nat.has[t] = None /\ t \in Threads /\ Queue(t) # << >>
    BY DEF WaitPop, ThreadAt, Sound, Places, Threads
  <1>2. /\ nat.preview \in Seq(Slots) /\ nat.transform \in Seq(Slots)
        /\ nat.at \in [Threads -> NativePlaces] /\ nat.has \in [Threads -> Slots \cup {None}]
    BY <1>1 DEF NativeRecords
  <1>3. /\ h \in Slots /\ q1 \in Seq(Slots) /\ q2 \in Seq(Slots)
        /\ Range2(nat.preview) \cup Range2(nat.transform) = {h} \cup Range2(q1) \cup Range2(q2)
    <2>1. CASE t = "preview"
      <3>1. nat.preview # << >> /\ h = Head(nat.preview)
        BY <1>1, <2>1 DEF Queue
      <3>2. /\ h \in Slots /\ Tail(nat.preview) \in Seq(Slots)
            /\ Range2(nat.preview) = {h} \cup Range2(Tail(nat.preview))
        BY <1>2, <3>1, QueueMembers
      <3> HIDE DEF h
      <3> QED BY <1>2, <2>1, <3>2
    <2>2. CASE t = "encode"
      <3>1. nat.transform # << >> /\ h = Head(nat.transform)
        BY <1>1, <2>2 DEF Queue
      <3>2. /\ h \in Slots /\ Tail(nat.transform) \in Seq(Slots)
            /\ Range2(nat.transform) = {h} \cup Range2(Tail(nat.transform))
        BY <1>2, <3>1, QueueMembers
      <3> HIDE DEF h
      <3> QED BY <1>2, <2>2, <3>2
    <2> QED BY <2>1, <2>2
  <1>4. t = "preview" => nat.preview # << >>
    BY <1>1 DEF Queue
  <1>5. t # "preview" => q1 = nat.preview
    OBVIOUS
  <1>6. nat' = [nat EXCEPT !.has = has, !.at = at, !.preview = q1, !.transform = q2]
    BY DEF WaitPop
  <1> HIDE DEF h, q1, q2
  <1>7. /\ has \in [Threads -> Slots \cup {None}] /\ has[t] = h
        /\ at \in [Threads -> NativePlaces] /\ at[t] = "convert"
        /\ \A q \in Threads : q # t => has[q] = nat.has[q] /\ at[q] = nat.at[q]
    BY <1>1, <1>2, <1>3 DEF NativePlaces
  <1> HIDE DEF at, has
  <1>8. /\ nat' \in NativeRecords /\ nat'.retired = nat.retired /\ nat'.preview = q1
        /\ nat'.transform = q2 /\ nat'.at = at /\ nat'.has = has
        /\ nat'.slot = nat.slot /\ nat'.shared = nat.shared /\ nat'.retained = nat.retained
        /\ nat'.stop = nat.stop /\ ~nat'.starved /\ ~nat'.stuck /\ nat'.session = nat.session
    BY <1>1, <1>3, <1>6, <1>7 DEF NativeRecords
  <1>9. /\ Others(nat') \cap Slots = Others(nat) \cap Slots
        /\ \A s \in Slots : s \in Holders(nat') <=> s \in Holders(nat)
    <2>1. /\ {has["preview"], has["encode"]} \cap Slots
               = ({nat.has["preview"], nat.has["encode"]} \cup {h}) \cap Slots
          /\ has["producer"] = nat.has["producer"]
      BY <1>1, <1>3, <1>7, NativeConstants DEF Threads
    <2>2. Others(nat') \cap Slots = Others(nat) \cap Slots
      BY <1>3, <1>8, <2>1 DEF Others
    <2> QED BY <1>8, <2>1, <2>2, HoldersSplit
  <1>10. Leases(nat')
    BY <1>1, <1>8, <1>9 DEF Leases, Counted, Outstanding
  <1>11. Places(nat')
    <2>1. nat.stop # "capture" /\ \A q \in Threads : nat.at[q] # "off"
      BY <1>1, Awake
    <2>2. \A q \in Threads : at[q] # "off"
      BY <1>7, <2>1
    <2>3. has["producer"] = nat.has["producer"] /\ at["producer"] = nat.at["producer"]
      BY <1>7 DEF Threads
    <2>4. \A q \in {"preview", "encode"} : has[q] # None => at[q] = "convert"
      BY <1>1, <1>7 DEF Places, Threads
    <2>5. at["producer"] \in {"reserve", "enqueue"} => q1 = << >>
      BY <1>1, <1>4, <1>5, <2>3 DEF Places
    <2> QED BY <1>1, <1>8, <2>1, <2>2, <2>3, <2>4, <2>5 DEF Places, Threads
  <1> QED BY <1>8, <1>10, <1>11 DEF Sound

LEMMA ConsumerSound ==
    ASSUME Sound(nat), NEW t \in {"preview", "encode"}, Convert(t) \/ ConsumerFails(t)
    PROVE  Sound(nat') /\ nat'.session = nat.session
  <1>1. CASE ConsumerFails(t)
    <2>1. /\ t \in Threads /\ t # "producer" /\ nat.at[t] \notin {"off", "exit"}
          /\ nat' = Fail(nat, t)
      BY <1>1 DEF ConsumerFails, Threads
    <2> QED BY <2>1, FailSound
  <1>2. CASE Convert(t)
    <2> DEFINE at == [nat.at EXCEPT ![t] = "use"]
               has == [nat.has EXCEPT ![t] = None]
               x == [nat EXCEPT !.has = has, !.at = at]
    <2>1. /\ nat \in NativeRecords /\ Leases(nat) /\ Places(nat) /\ ~nat.starved /\ ~nat.stuck
          /\ nat.at[t] = "convert" /\ t \in Threads /\ t # "producer"
          /\ nat.at \in [Threads -> NativePlaces] /\ nat.has \in [Threads -> Slots \cup {None}]
          /\ nat' = Settle(x)
      BY <1>2 DEF Convert, ThreadAt, Sound, Threads, NativeRecords
    <2>2. /\ has \in [Threads -> Slots \cup {None}] /\ has[t] = None
          /\ at \in [Threads -> NativePlaces] /\ at[t] = "use"
          /\ \A q \in Threads : q # t => has[q] = nat.has[q] /\ at[q] = nat.at[q]
      BY <2>1 DEF NativePlaces
    <2> HIDE DEF at, has
    <2>3. /\ x \in NativeRecords /\ x.retired = nat.retired /\ x.slot = nat.slot
          /\ x.has = has /\ x.at = at /\ x.preview = nat.preview
          /\ x.transform = nat.transform /\ x.shared = nat.shared
          /\ x.retained = nat.retained /\ x.stop = nat.stop
          /\ ~x.starved /\ ~x.stuck /\ x.session = nat.session
      BY <2>1, <2>2 DEF NativeRecords
    <2> HIDE DEF x
    <2>4. \A q \in {"producer", "preview", "encode"} : x.has[q] = nat.has[q] \/ x.has[q] = None
      BY <2>2, <2>3 DEF Threads
    <2>5. /\ Others(x) \cap Slots \subseteq Others(nat) \cap Slots
          /\ \A s \in Slots : s \in Holders(x) => s \in Holders(nat)
      BY <2>3, <2>4, NativeConstants, HoldersSplit DEF Others
    <2>6. Counted(x) /\ \A s \in Slots : s \in Holders(x) => x.slot[s] = "leased"
      BY <2>1, <2>3, <2>5 DEF Leases, Counted, Outstanding
    <2>7. Places(x)
      <3>1. nat.stop # "capture" /\ \A q \in Threads : nat.at[q] # "off"
        BY <2>1, Awake
      <3>2. \A q \in Threads : at[q] # "off"
        BY <2>2, <3>1
      <3>3. has["producer"] = nat.has["producer"] /\ at["producer"] = nat.at["producer"]
        BY <2>1, <2>2 DEF Threads
      <3>4. \A q \in {"preview", "encode"} : has[q] # None => at[q] = "convert"
        BY <2>1, <2>2 DEF Places, Threads
      <3> QED BY <2>1, <2>3, <3>1, <3>2, <3>3, <3>4 DEF Places, Threads
    <2> QED BY <2>1, <2>3, <2>6, <2>7, SettledSound
  <1> QED BY <1>1, <1>2

LEMMA LoopSound ==
    ASSUME Sound(nat), DeliverFrame \/ EncodeFrame \/ WritePackets \/ PreviewStops \/ EncodeFlushes
    PROVE  Sound(nat') /\ nat'.session = nat.session
  <1>1. PICK t \in {"preview", "encode"}, from \in {"use", "write", "pop"},
             to \in {"pop", "write", "exit"} :
          nat.at[t] = from /\ nat' = [nat EXCEPT !.at[t] = to]
    BY DEF DeliverFrame, EncodeFrame, WritePackets, PreviewStops, EncodeFlushes, MoveOn, ThreadAt
  <1> DEFINE at == [nat.at EXCEPT ![t] = to]
  <1>2. /\ nat \in NativeRecords /\ Leases(nat) /\ Places(nat) /\ ~nat.starved /\ ~nat.stuck
        /\ nat.at[t] \notin {"off", "exit", "convert"} /\ t \in Threads /\ t # "producer"
        /\ nat.at \in [Threads -> NativePlaces]
    BY <1>1 DEF Sound, Threads, NativeRecords
  <1>3. /\ at \in [Threads -> NativePlaces] /\ at[t] = to
        /\ \A q \in Threads : q # t => at[q] = nat.at[q]
    BY <1>2 DEF NativePlaces
  <1>4. nat' = [nat EXCEPT !.at = at]
    BY <1>1
  <1> HIDE DEF at
  <1>5. /\ nat' \in NativeRecords /\ nat'.retired = nat.retired /\ nat'.preview = nat.preview
        /\ nat'.transform = nat.transform /\ nat'.at = at /\ nat'.has = nat.has
        /\ nat'.slot = nat.slot /\ nat'.shared = nat.shared /\ nat'.retained = nat.retained
        /\ nat'.stop = nat.stop /\ ~nat'.starved /\ ~nat'.stuck /\ nat'.session = nat.session
    BY <1>2, <1>3, <1>4 DEF NativeRecords
  <1>6. Others(nat') = Others(nat) /\ Holders(nat') = Holders(nat)
    BY <1>5 DEF Others, Holders
  <1>7. Leases(nat')
    BY <1>2, <1>5, <1>6 DEF Leases, Counted, Outstanding
  <1>8. Places(nat')
    <2>1. nat.stop # "capture" /\ \A q \in Threads : nat.at[q] # "off"
      BY <1>2, Awake
    <2>2. \A q \in Threads : at[q] # "off"
      BY <1>3, <2>1
    <2>3. at["producer"] = nat.at["producer"]
      BY <1>2, <1>3 DEF Threads
    <2>4. \A q \in {"preview", "encode"} : nat.has[q] # None => at[q] = "convert"
      BY <1>2, <1>3 DEF Places, Threads
    <2> QED BY <1>2, <1>5, <2>1, <2>2, <2>3, <2>4 DEF Places, Threads
  <1> QED BY <1>5, <1>7, <1>8 DEF Sound

LEMMA StopSound ==
    ASSUME Sound(nat), NativeStop \/ BrokerClose
    PROVE  Sound(nat') /\ nat'.session = nat.session
  <1>1. /\ nat \in NativeRecords /\ Leases(nat) /\ Places(nat) /\ ~nat.starved /\ ~nat.stuck
    BY DEF Sound
  <1>2. CASE NativeStop
    <2>1. /\ nat' \in NativeRecords /\ nat'.retired = nat.retired /\ nat'.preview = nat.preview
          /\ nat'.transform = nat.transform /\ nat'.at = nat.at /\ nat'.has = nat.has
          /\ nat'.slot = nat.slot /\ nat'.shared = nat.shared /\ nat'.retained = nat.retained
          /\ nat'.stop = "join" /\ ~nat'.starved /\ ~nat'.stuck /\ nat'.session = nat.session
      BY <1>1, <1>2 DEF NativeStop, NativeRecords
    <2>2. Leases(nat')
      <3>1. Others(nat') = Others(nat) /\ Holders(nat') = Holders(nat)
        BY <2>1 DEF Others, Holders
      <3> QED BY <1>1, <2>1, <3>1 DEF Leases, Counted, Outstanding
    <2>3. Places(nat')
      BY <1>1, <2>1 DEF Places
    <2> QED BY <2>1, <2>2, <2>3 DEF Sound
  <1>3. CASE BrokerClose
    <2> DEFINE x == [nat EXCEPT !.stop = "capture", !.preview = << >>, !.transform = << >>]
    <2>1. << >> \in Seq(Slots) /\ Range2(<< >>) = {}
      BY DEF Range2
    <2>2. /\ x \in NativeRecords /\ x.retired = nat.retired /\ x.slot = nat.slot
          /\ x.has = nat.has /\ x.at = nat.at /\ x.preview = << >> /\ x.transform = << >>
          /\ x.shared = nat.shared /\ x.retained = nat.retained /\ x.stop = "capture"
          /\ ~x.starved /\ ~x.stuck /\ x.session = nat.session
      BY <1>1, <2>1 DEF NativeRecords
    <2>3. nat' = Settle(x) /\ \A t \in Threads : nat.at[t] = "exit"
      BY <1>3 DEF BrokerClose, ThreadAt
    <2> HIDE DEF x
    <2>4. Others(x) \subseteq Others(nat) /\ Holders(x) \subseteq Holders(nat)
      <3>1. Others(x) \subseteq Others(nat)
        BY <2>1, <2>2 DEF Others
      <3> QED BY <2>2, <3>1, HoldersSplit
    <2>5. Counted(x) /\ \A s \in Slots : s \in Holders(x) => x.slot[s] = "leased"
      BY <1>1, <2>2, <2>4 DEF Leases, Counted, Outstanding
    <2>6. Places(x)
      BY <1>1, <2>2, <2>3 DEF Places
    <2> QED BY <2>2, <2>3, <2>5, <2>6, SettledSound
  <1> QED BY <1>2, <1>3

(* When the threads are out of their loops nobody holds a buffer.          *)
LEMMA NobodyHolds ==
    ASSUME NEW n, Sound(n), n.preview = << >>, n.transform = << >>,
           \A t \in Threads : n.at[t] \in {"off", "exit"}
    PROVE  /\ Holders(n) \cap Slots = {} /\ Outstanding(n) = {} /\ n.shared = {}
           /\ n.retired = {} /\ \A t \in Threads : n.has[t] = None
  <1>1. /\ n \in NativeRecords /\ Leases(n) /\ Places(n)
        /\ Threads = {"producer", "preview", "encode"}
    BY DEF Sound, Threads
  <1>2. n.retired = {} /\ \A t \in Threads : n.has[t] = None
    BY <1>1 DEF Places, Wrapping
  <1>3. Holders(n) \cap Slots = {}
    <2>1. Range2(<< >>) = {}
      BY DEF Range2
    <2> QED BY <1>2, <2>1, NativeConstants DEF Holders
  <1>4. Outstanding(n) = {}
    BY <1>1, <1>3 DEF Leases, Outstanding
  <1>5. n.shared = {}
    BY <1>1, <1>4 DEF Leases, Counted
  <1> QED BY <1>2, <1>3, <1>4, <1>5

LEMMA CaptureStopSound ==
    ASSUME Sound(nat), CaptureStop
    PROVE  Sound(nat') /\ nat'.session = nat.session
  <1> DEFINE n == FlushReturns(nat)
             at == [t \in Threads |-> "off"]
             lives == Outstanding(n) # {}
             stays == n.stuck \/ Outstanding(n) # {}
  <1>1. /\ Sound(n) /\ n.stop = "capture" /\ n.session = nat.session
        /\ Outstanding(n) = Outstanding(nat)
    BY Flushed DEF CaptureStop
  <1>2. nat' = [n EXCEPT !.stop = "none", !.at = at, !.alive = lives, !.stuck = stays]
    BY <1>1 DEF CaptureStop
  <1> HIDE DEF n
  <1>3. /\ n \in NativeRecords /\ Leases(n) /\ Places(n) /\ ~n.starved /\ ~n.stuck
        /\ n.preview = << >> /\ n.transform = << >> /\ \A t \in Threads : n.at[t] = "exit"
    BY <1>1 DEF Sound, Places
  <1>4. /\ Holders(n) \cap Slots = {} /\ Outstanding(n) = {} /\ n.shared = {}
        /\ n.retired = {} /\ \A t \in Threads : n.has[t] = None
    BY <1>1, <1>3, NobodyHolds
  <1>5. ~stays /\ lives \in BOOLEAN /\ stays \in BOOLEAN
    BY <1>3, <1>4
  <1>6. at \in [Threads -> NativePlaces] /\ \A t \in Threads : at[t] = "off"
    BY DEF NativePlaces
  <1> HIDE DEF at, lives, stays
  <1>7. /\ nat' \in NativeRecords /\ nat'.retired = n.retired /\ nat'.preview = n.preview
        /\ nat'.transform = n.transform /\ nat'.at = at /\ nat'.has = n.has
        /\ nat'.slot = n.slot /\ nat'.shared = n.shared /\ nat'.retained = n.retained
        /\ nat'.stop = "none" /\ ~nat'.starved /\ ~nat'.stuck /\ nat'.session = n.session
    BY <1>2, <1>3, <1>5, <1>6 DEF NativeRecords
  <1>8. Leases(nat')
    <2>1. Others(nat') = Others(n) /\ Holders(nat') = Holders(n)
      BY <1>7 DEF Others, Holders
    <2> QED BY <1>3, <1>7, <2>1 DEF Leases, Counted, Outstanding
  <1>9. Places(nat')
    BY <1>3, <1>4, <1>6, <1>7 DEF Places, Wrapping, Threads
  <1> QED BY <1>1, <1>7, <1>8, <1>9 DEF Sound

LEMMA StartSound ==
    ASSUME Sound(nat), NativeStart
    PROVE  Sound(nat') /\ nat'.session = nat.session + 1
  <1> DEFINE at == [t \in Threads |-> IF t = "producer" THEN "acquire"
                      ELSE IF t = "preview" \/ Use("encode") THEN "pop" ELSE "exit"]
             next == nat.session + 1
             e == Use("encode")
  <1>1. /\ nat \in NativeRecords /\ Leases(nat) /\ Places(nat) /\ ~nat.starved /\ ~nat.stuck
        /\ nat.stop = "none" /\ \A t \in Threads : nat.at[t] = "off"
    BY DEF Sound, NativeStart, ThreadAt
  <1>2. nat.preview = << >> /\ nat.transform = << >>
    BY <1>1 DEF Places
  <1>3. /\ Holders(nat) \cap Slots = {} /\ nat.shared = {}
        /\ nat.retired = {} /\ \A t \in Threads : nat.has[t] = None
    BY <1>1, <1>2, NobodyHolds
  <1>4. nat' = [nat EXCEPT !.running = TRUE, !.session = next, !.alive = TRUE,
                           !.encoding = e, !.retained = 0, !.slot = FullPool, !.at = at]
    BY DEF NativeStart
  <1>5. /\ next \in Nat /\ e \in BOOLEAN /\ FullPool \in [Slots -> {"argus", "leased", "pending"}]
        /\ \A s \in Slots : FullPool[s] # "leased"
    BY <1>1 DEF NativeRecords, FullPool, Use
  <1>6. /\ at \in [Threads -> NativePlaces] /\ at["producer"] = "acquire"
        /\ \A t \in Threads : at[t] \in {"acquire", "pop", "exit"}
    BY DEF NativePlaces, Threads
  <1> HIDE DEF at, e
  <1>7. /\ nat' \in NativeRecords /\ nat'.retired = {} /\ nat'.preview = << >>
        /\ nat'.transform = << >> /\ nat'.at = at /\ nat'.has = nat.has
        /\ nat'.slot = FullPool /\ nat'.shared = {} /\ nat'.retained = 0
        /\ nat'.stop = "none" /\ ~nat'.starved /\ ~nat'.stuck /\ nat'.session = next
    <2> HIDE DEF next
    <2> QED BY <1>1, <1>2, <1>3, <1>4, <1>5, <1>6 DEF NativeRecords
  <1>8. Leases(nat')
    <2>1. Others(nat') = Others(nat) /\ Holders(nat') = Holders(nat)
      BY <1>2, <1>3, <1>7 DEF Others, Holders
    <2>2. Others(nat) \subseteq Holders(nat)
      BY HoldersSplit
    <2>3. Cardinality({}) = 0 /\ 0 <= Budget
      BY FS_EmptySet, NativeConstants
    <2> QED BY <1>3, <1>5, <1>7, <2>1, <2>2, <2>3 DEF Leases, Counted, Outstanding
  <1>9. Places(nat')
    BY <1>3, <1>6, <1>7 DEF Places, Wrapping, Threads
  <1> QED BY <1>7, <1>8, <1>9 DEF Sound

LEMMA NativeBegins ==
    ASSUME NativeInit
    PROVE  NativeInv
  <1>1. << >> \in Seq(Slots) /\ Range2(<< >>) = {} /\ Cardinality({}) = 0 /\ 0 <= Budget
    BY NativeConstants, FS_EmptySet DEF Range2
  <1>2. /\ FullPool \in [Slots -> {"argus", "leased", "pending"}]
        /\ \A s \in Slots : FullPool[s] # "leased"
    BY DEF FullPool
  <1>3. /\ nat \in NativeRecords /\ nat.slot = FullPool /\ nat.preview = << >>
        /\ nat.transform = << >> /\ nat.retired = {} /\ nat.shared = {} /\ nat.retained = 0
        /\ nat.stop = "none" /\ ~nat.starved /\ ~nat.stuck /\ nat.session = 0
        /\ \A t \in Threads : nat.at[t] = "off" /\ nat.has[t] = None
    BY <1>1, <1>2 DEF NativeInit, NativeRecords, NativePlaces
  <1>4. Holders(nat) \cap Slots = {} /\ Others(nat) \subseteq Holders(nat)
    <2>1. Holders(nat) \cap Slots = {}
      BY <1>1, <1>3, NativeConstants DEF Holders
    <2> QED BY <2>1, HoldersSplit
  <1>5. Leases(nat)
    BY <1>1, <1>2, <1>3, <1>4 DEF Leases, Counted, Outstanding
  <1>6. Places(nat)
    BY <1>3 DEF Places, Wrapping, Threads
  <1>7. tune \in TuningRecords /\ tune.sent = {} /\ ~tune.reused
    BY DEF NativeInit, TuningRecords
  <1> QED BY <1>3, <1>5, <1>6, <1>7 DEF NativeInv, Sound, RequestsNumbered, RevisionNamesOneRequest

(* Requests are numbered on within a session and anew in the next one.     *)
LEMMA RequestNumbered ==
    ASSUME NativeInv, NEW c \in TuningClients, NEW o \in Outcomes,
           GetTuning(c) \/ SetTuning(c, o)
    PROVE  NativeInv'
  <1> DEFINE id == <<nat.session, tune.next>>
             sent == tune.sent \cup {id}
             next == tune.next + 1
             again == tune.reused \/ id \in tune.sent
  <1>1. /\ Sound(nat) /\ tune \in TuningRecords /\ RequestsNumbered /\ ~tune.reused
        /\ nat' = nat /\ nat.session \in Nat /\ tune.next \in Nat /\ tune.revision \in Nat
        /\ tune.sent \subseteq Nat \X Nat /\ tune.read \in [TuningClients -> Nat \X Nat]
    BY DEF NativeInv, RevisionNamesOneRequest, GetTuning, SetTuning, Sound, NativeRecords,
           TuningRecords
  <1>2. CASE GetTuning(c)
    <2> DEFINE read == [tune.read EXCEPT ![c] = <<nat.session, tune.revision>>]
    <2>1. read \in [TuningClients -> Nat \X Nat] /\ tune' = [tune EXCEPT !.read = read]
      BY <1>1, <1>2 DEF GetTuning
    <2> HIDE DEF read
    <2>2. tune' \in TuningRecords /\ tune'.sent = tune.sent /\ tune'.next = tune.next
          /\ tune'.reused = tune.reused
      BY <1>1, <2>1 DEF TuningRecords
    <2> QED BY <1>1, <2>2 DEF NativeInv, RequestsNumbered, RevisionNamesOneRequest
  <1>3. CASE SetTuning(c, o)
    <2> DEFINE read == [tune.read EXCEPT ![c] = id]
    <2>1. /\ id \in Nat \X Nat /\ id[1] = nat.session /\ id[2] = tune.next
          /\ sent \subseteq Nat \X Nat /\ next \in Nat /\ next > tune.next
          /\ read \in [TuningClients -> Nat \X Nat]
      BY <1>1
    <2>2. id \notin tune.sent
      BY <1>1, <2>1 DEF RequestsNumbered
    <2>3. ~again /\ again \in BOOLEAN
      BY <1>1, <2>2
    <2>4. \A r \in sent : r[1] <= nat.session /\ (r[1] = nat.session => r[2] < next)
      <3> SUFFICES ASSUME NEW r \in sent
                   PROVE  r[1] <= nat.session /\ (r[1] = nat.session => r[2] < next)
        OBVIOUS
      <3>1. CASE r = id
        BY <1>1, <2>1, <3>1
      <3>2. CASE r # id
        <4>1. r \in tune.sent /\ r[1] \in Nat /\ r[2] \in Nat
          BY <1>1, <3>2
        <4> QED BY <1>1, <4>1 DEF RequestsNumbered
      <3> QED BY <3>1, <3>2
    <2>5. \/ tune' = [tune EXCEPT !.next = next, !.sent = sent, !.reused = again,
                                  !.revision = tune.next, !.read = read]
          \/ tune' = [tune EXCEPT !.next = next, !.sent = sent, !.reused = again]
          \/ tune' = [tune EXCEPT !.next = next, !.sent = sent, !.reused = again, !.fault = TRUE]
      BY <1>1, <1>3 DEF SetTuning, Submit, Outcomes, TuningRecords
    <2> HIDE DEF id, sent, next, again, read
    <2>6. tune' \in TuningRecords /\ tune'.sent = sent /\ tune'.next = next
          /\ tune'.reused = again
      BY <1>1, <2>1, <2>3, <2>5 DEF TuningRecords
    <2> QED BY <1>1, <2>3, <2>4, <2>6 DEF NativeInv, RequestsNumbered, RevisionNamesOneRequest
  <1> QED BY <1>2, <1>3

LEMMA NativeStep ==
    ASSUME NativeInv, NativeNext
    PROVE  NativeInv'
  <1>1. /\ Sound(nat) /\ tune \in TuningRecords /\ RequestsNumbered /\ ~tune.reused
        /\ nat.session \in Nat /\ tune.sent \subseteq Nat \X Nat /\ 0 \in Nat
    BY DEF NativeInv, RevisionNamesOneRequest, Sound, NativeRecords, TuningRecords
  <1>2. ASSUME Sound(nat'), nat'.session = nat.session, UNCHANGED tune
        PROVE  NativeInv'
    BY <1>1, <1>2 DEF NativeInv, RequestsNumbered, RevisionNamesOneRequest
  <1>3. CASE NativeStart
    <2>1. Sound(nat') /\ nat'.session = nat.session + 1
      BY <1>1, <1>3, StartSound
    <2>2. tune' \in TuningRecords /\ tune'.sent = tune.sent /\ ~tune'.reused
      BY <1>1, <1>3 DEF NativeStart, FirstRequest, TuningRecords
    <2>3. \A id \in tune.sent : id[1] < nat.session + 1
      <3> SUFFICES ASSUME NEW id \in tune.sent PROVE id[1] < nat.session + 1
        OBVIOUS
      <3>1. id[1] \in Nat /\ id[1] <= nat.session
        BY <1>1 DEF RequestsNumbered
      <3> QED BY <1>1, <3>1
    <2>4. RequestsNumbered'
      <3> SUFFICES ASSUME NEW id \in tune.sent
                   PROVE  id[1] <= nat'.session /\ id[1] # nat'.session
        BY <2>2 DEF RequestsNumbered
      <3>1. id[1] \in Nat /\ id[1] < nat.session + 1
        BY <1>1, <2>3
      <3> QED BY <1>1, <2>1, <3>1
    <2> QED BY <2>1, <2>2, <2>4 DEF NativeInv, RevisionNamesOneRequest
  <1>4. CASE CaptureStop
    <2> DEFINE read == [c \in TuningClients |-> <<0, 0>>]
    <2>1. read \in [TuningClients -> Nat \X Nat] /\ tune' = [tune EXCEPT !.read = read]
      BY <1>4 DEF CaptureStop
    <2> HIDE DEF read
    <2>2. tune' \in TuningRecords /\ tune'.sent = tune.sent /\ tune'.next = tune.next
          /\ tune'.reused = tune.reused
      BY <1>1, <2>1 DEF TuningRecords
    <2>3. Sound(nat') /\ nat'.session = nat.session
      BY <1>1, <1>4, CaptureStopSound
    <2> QED BY <1>1, <2>2, <2>3 DEF NativeInv, RequestsNumbered, RevisionNamesOneRequest
  <1>5. CASE NativeStop \/ BrokerClose
    <2>1. UNCHANGED tune
      BY <1>5 DEF NativeStop, BrokerClose
    <2> QED BY <1>1, <1>2, <1>5, <2>1, StopSound
  <1>6. CASE Producer
    <2>1. UNCHANGED tune
      BY <1>6 DEF Producer, Acquire, AcquireFails, ProducerStops, PublishEvict, PublishReserve,
                  PublishEnqueue, DiscardTransform
    <2> QED
      BY <1>1, <1>2, <1>6, <2>1, AcquireSound, EvictSound, ReserveSound, EnqueueSound,
         DiscardSound DEF Producer
  <1>7. CASE PreviewThread \/ EncodeThread
    <2>1. UNCHANGED tune
      BY <1>7 DEF PreviewThread, EncodeThread, Consumer, WaitPop, Convert, ConsumerFails,
                  DeliverFrame, EncodeFrame, WritePackets, PreviewStops, EncodeFlushes, MoveOn
    <2> QED
      BY <1>1, <1>2, <1>7, <2>1, PopSound, ConsumerSound, LoopSound
         DEF PreviewThread, EncodeThread, Consumer
  <1> QED BY <1>3, <1>4, <1>5, <1>6, <1>7 DEF NativeNext, Stopper

-----------------------------------------------------------------------------
(* The tuning tool.                                                        *)

LEMMA StepsLeft ==
    ASSUME NEW q \in Seq(ToolSteps), q # << >>, SavesFollowPhases(q)
    PROVE  /\ Head(q) = q[1] /\ q[1] \in ToolSteps /\ q[1][2] \in Settings
           /\ Tail(q) \in Seq(ToolSteps) /\ SavesFollowPhases(Tail(q))
           /\ SavesNext(Tail(q)) => q[1][1] = "phase"
  <1> DEFINE p == Tail(q)
  <1>1. Head(q) \in ToolSteps /\ p \in Seq(ToolSteps)
    BY HeadTailProperties
  <1>2. /\ Len(q) \in Nat /\ Len(q) > 0 /\ Head(q) = q[1] /\ Len(p) = Len(q) - 1
        /\ \A i \in 1 .. Len(q) - 1 : p[i] = q[i + 1]
    BY HeadTailProperties
  <1> HIDE DEF p
  <1>3. SavesFollowPhases(p)
    <2> SUFFICES ASSUME NEW i \in 2 .. Len(p), p[i][1] = "save"
                 PROVE  p[i - 1][1] = "phase"
      BY DEF SavesFollowPhases
    <2> DEFINE k == i - 1
    <2>1. /\ i \in 1 .. Len(q) - 1 /\ k \in 1 .. Len(q) - 1
          /\ i + 1 \in 2 .. Len(q) /\ (i + 1) - 1 = k + 1
      BY <1>2
    <2>2. p[i] = q[i + 1] /\ p[k] = q[k + 1]
      BY <1>2, <2>1
    <2>3. q[(i + 1) - 1][1] = "phase"
      BY <2>1, <2>2 DEF SavesFollowPhases
    <2> QED BY <2>1, <2>2, <2>3
  <1>4. SavesNext(p) => q[1][1] = "phase"
    <2> SUFFICES ASSUME p # << >>, p[1][1] = "save" PROVE q[1][1] = "phase"
      BY DEF SavesNext
    <2>1. Len(p) # 0
      BY <1>1
    <2>2. 1 \in 1 .. Len(q) - 1 /\ 2 \in 2 .. Len(q)
      BY <1>2, <2>1
    <2>3. p[1] = q[2] /\ 2 - 1 = 1
      BY <1>2, <2>2
    <2>4. q[2 - 1][1] = "phase"
      BY <2>2, <2>3 DEF SavesFollowPhases
    <2> QED BY <2>3, <2>4
  <1> QED BY <1>1, <1>2, <1>3, <1>4 DEF p, ToolSteps

LEMMA ShortSequences ==
    ASSUME NEW S, NEW a \in S, NEW b \in S, NEW c \in S
    PROVE  << a >> \in Seq(S) /\ << a, b >> \in Seq(S) /\ << a, b, c >> \in Seq(S)
  OBVIOUS

LEMMA LongSequence ==
    ASSUME NEW S, NEW m \in S, NEW r \in S, NEW l \in S, NEW a \in S, NEW b \in S, NEW c \in S,
           NEW o \in S
    PROVE  << m, l, r, l, a, l, b, l, c, l, r, l, o >> \in Seq(S)
  OBVIOUS

WithoutSave == {s \in ToolSteps : s[1] # "save"}

LEMMA NoSave ==
    ASSUME NEW q \in Seq(WithoutSave)
    PROVE  q \in Seq(ToolSteps) /\ SavesFollowPhases(q) /\ ~SavesNext(q)
  <1>1. Len(q) \in Nat /\ \A i \in 1 .. Len(q) : q[i] \in ToolSteps /\ q[i][1] # "save"
    BY DEF WithoutSave
  <1>2. q # << >> => 1 \in 1 .. Len(q)
    OBVIOUS
  <1>3. q \in Seq(ToolSteps)
    BY DEF WithoutSave
  <1>4. SavesFollowPhases(q)
    <2> SUFFICES ASSUME NEW i \in 2 .. Len(q) PROVE q[i][1] # "save"
      BY DEF SavesFollowPhases
    <2>1. i \in 1 .. Len(q)
      BY <1>1
    <2> QED BY <1>1, <2>1
  <1> QED BY <1>1, <1>2, <1>3, <1>4 DEF SavesNext

LEMMA SaveLast ==
    ASSUME NEW a \in WithoutSave, NEW b \in WithoutSave, NEW s \in ToolSteps,
           a[1] = "phase" \/ b[1] = "phase"
    PROVE  /\ a[1] = "phase" => << a, s >> \in Seq(ToolSteps) /\ SavesFollowPhases(<< a, s >>)
                                /\ ~SavesNext(<< a, s >>)
           /\ b[1] = "phase" => /\ << a, b, s >> \in Seq(ToolSteps)
                                /\ SavesFollowPhases(<< a, b, s >>)
                                /\ ~SavesNext(<< a, b, s >>)
  <1>1. a \in ToolSteps /\ b \in ToolSteps /\ a[1] # "save" /\ b[1] # "save"
    BY DEF WithoutSave
  <1>2. ASSUME a[1] = "phase"
        PROVE  /\ << a, s >> \in Seq(ToolSteps) /\ SavesFollowPhases(<< a, s >>)
               /\ ~SavesNext(<< a, s >>)
    <2> DEFINE q == << a, s >>
    <2>1. q \in Seq(ToolSteps)
      BY <1>1, ShortSequences
    <2>2. Len(q) = 2 /\ q[1] = a /\ q[2] = s /\ \A i \in 2 .. 2 : i = 2 /\ i - 1 = 1
      OBVIOUS
    <2> HIDE DEF q
    <2>3. SavesFollowPhases(q) /\ ~SavesNext(q)
      BY <1>1, <1>2, <2>2 DEF SavesFollowPhases, SavesNext
    <2> QED BY <2>1, <2>3 DEF q
  <1>3. ASSUME b[1] = "phase"
        PROVE  /\ << a, b, s >> \in Seq(ToolSteps) /\ SavesFollowPhases(<< a, b, s >>)
               /\ ~SavesNext(<< a, b, s >>)
    <2> DEFINE q == << a, b, s >>
    <2>1. q \in Seq(ToolSteps)
      BY <1>1, ShortSequences
    <2>2. /\ Len(q) = 3 /\ q[1] = a /\ q[2] = b /\ q[3] = s
          /\ \A i \in 2 .. 3 : i = 2 \/ (i = 3 /\ i - 1 = 2)
      OBVIOUS
    <2> HIDE DEF q
    <2>3. SavesFollowPhases(q) /\ ~SavesNext(q)
      BY <1>1, <1>3, <2>2 DEF SavesFollowPhases, SavesNext
    <2> QED BY <2>1, <2>3 DEF q
  <1> QED BY <1>2, <1>3

LEMMA StepsPlanned ==
    ASSUME NEW action \in Commands,
           file.name.set \in Settings
    PROVE  /\ Steps(action) \in Seq(ToolSteps) /\ SavesFollowPhases(Steps(action))
           /\ ~SavesNext(Steps(action))
  <1>1. \A s \in Settings : /\ \A k \in {"set", "refuse", "apply"} : <<k, s>> \in WithoutSave
                             /\ <<"phase", s>> \in WithoutSave /\ <<"phase", s>>[1] = "phase"
                             /\ <<"save", s>> \in ToolSteps
    BY DEF ToolSteps, WithoutSave
  <1>2. /\ Exactly("default") \in Settings /\ Exactly("manual") \in Settings
        /\ Exactly("50hz") \in Settings /\ Exactly("60hz") \in Settings
        /\ Exactly("locked") \in Settings /\ Exactly("out of range") \in Settings
        /\ Exactly("patched") \in Settings
    BY DEF Exactly, Settings, Names
  <1>3. /\ Patch \in WithoutSave /\ Reset \in WithoutSave /\ Look \in WithoutSave
        /\ Look[1] = "phase"
    BY <1>1, <1>2 DEF Patch, Reset, Look
  <1>4. CASE action \in {"get", "set", "reset", "load"}
    <2>1. \/ Steps(action) = << Look >>
          \/ \E s \in WithoutSave : Steps(action) = << s, Look >>
      <3>1. <<"apply", file.name.set>> \in WithoutSave
        BY <1>1
      <3> QED BY <1>3, <1>4, <3>1 DEF Steps
    <2>2. Steps(action) \in Seq(WithoutSave)
      BY <1>3, <2>1, ShortSequences
    <2> QED BY <2>2, NoSave
  <1>5. CASE action \in {"save", "save as is"}
    <2> DEFINE s == <<"save", Exactly("default")>>
    <2>1. s \in ToolSteps
      BY <1>1, <1>2
    <2>2. Steps(action) = << Patch, Look, s >> \/ Steps(action) = << Look, s >>
      BY <1>5 DEF Steps
    <2> HIDE DEF s
    <2> QED BY <1>3, <2>1, <2>2, SaveLast
  <1>6. CASE action = "verify"
    <2> DEFINE m == <<"set", Exactly("manual")>>
               a == <<"set", Exactly("50hz")>>
               b == <<"set", Exactly("60hz")>>
               c == <<"set", Exactly("locked")>>
               o == <<"refuse", Exactly("out of range")>>
    <2>1. /\ m \in WithoutSave /\ a \in WithoutSave /\ b \in WithoutSave
          /\ c \in WithoutSave /\ o \in WithoutSave
      BY <1>1, <1>2
    <2>2. Steps(action) = << m, Look, Reset, Look, a, Look, b, Look, c, Look, Reset, Look, o >>
      BY <1>6 DEF Steps, VerifySteps
    <2> HIDE DEF m, a, b, c, o
    <2>3. Steps(action) \in Seq(WithoutSave)
      <3>1. << m, Look, Reset, Look, a, Look, b, Look, c, Look, Reset, Look, o >>
              \in Seq(WithoutSave)
        BY <1>3, <2>1, LongSequence, Zenon
      <3> QED BY <2>2, <3>1
    <2> QED BY <2>3, NoSave
  <1> QED BY <1>4, <1>5, <1>6, Zenon DEF Commands

LEMMA ToolFails ==
    ASSUME ToolInv, NEW t \in ToolRecords, t.plan = tool.plan, t.rollback # "succeeded",
           tool' = Failed(t), argus' \in SessionRecords, file' \in FileRecords,
           FileKept(file')
    PROVE  ToolInv'
  <1>1. << >> \in Seq(ToolSteps) /\ SavesFollowPhases(<< >>) /\ ~SavesNext(<< >>)
    BY DEF SavesFollowPhases, SavesNext
  <1>2. /\ tool' \in ToolRecords /\ tool'.plan = tool.plan /\ tool'.todo = << >>
        /\ tool'.at = "stop" /\ tool'.cycles = 0 /\ tool'.rollback = t.rollback
    <2>1. tool' = [t EXCEPT !.at = "stop", !.todo = << >>, !.cycles = 0, !.passed = FALSE]
      BY DEF Failed
    <2>2. "stop" \in ToolPlaces /\ 0 \in Int /\ FALSE \in BOOLEAN
      BY DEF ToolPlaces
    <2>3. tool' \in ToolRecords
      BY <1>1, <2>1, <2>2 DEF ToolRecords
    <2>4. /\ tool'.plan = t.plan /\ tool'.todo = << >> /\ tool'.at = "stop"
          /\ tool'.cycles = 0 /\ tool'.rollback = t.rollback
      BY <2>1 DEF ToolRecords
    <2> QED BY <2>3, <2>4
  <1>3. SaveIsVerified'
    BY <1>1, <1>2 DEF ToolInv, SaveIsVerified, Saving
  <1>4. FileWhole' /\ WayBack' /\ RollbackIsObserved'
    BY <1>2 DEF FileWhole, WayBack, RollbackIsObserved
  <1> QED BY <1>2, <1>3, <1>4 DEF ToolInv, ToolTypeOK

LEMMA PhaseFails ==
    ASSUME ToolInv, NEW t \in ToolRecords, t.plan = tool.plan, t.rollback # "succeeded",
           tool' = PhaseFailed(t), argus' \in SessionRecords, UNCHANGED file
    PROVE  ToolInv'
  <1>1. file' \in FileRecords /\ FileKept(file')
    BY DEF ToolInv, ToolTypeOK, FileWhole
  <1>2. CASE tool' = Failed(t)
    BY <1>1, <1>2, ToolFails
  <1>3. CASE tool' # Failed(t)
    <2> DEFINE back == <<"set", t.before>>
               q == << back, Look >>
    <2>1. tool' = [t EXCEPT !.at = "do", !.todo = q, !.rollback = "attempted"]
      BY <1>3 DEF PhaseFailed
    <2>2. back \in ToolSteps /\ Look \in ToolSteps /\ back[1] = "set" /\ Look[1] = "phase"
      <3>1. t.before \in Settings
        BY DEF ToolRecords
      <3> QED BY <3>1 DEF Look, Exactly, ToolSteps, Settings, Names
    <2> HIDE DEF back
    <2>3. q \in Seq(ToolSteps) /\ SavesFollowPhases(q) /\ ~SavesNext(q)
      <3>1. back \in WithoutSave /\ Look \in WithoutSave
        BY <2>2 DEF WithoutSave
      <3>2. q \in Seq(WithoutSave)
        BY <3>1, ShortSequences
      <3> QED BY <3>2, NoSave
    <2> HIDE DEF q
    <2>4. /\ tool' \in ToolRecords /\ tool'.plan = tool.plan /\ tool'.todo = q
          /\ tool'.at = "do" /\ tool'.rollback = "attempted" /\ tool'.before = t.before
      BY <2>1, <2>3 DEF ToolRecords, ToolPlaces
    <2>5. SaveIsVerified'
      BY <2>3, <2>4 DEF ToolInv, SaveIsVerified, Saving
    <2>6. FileWhole' /\ RollbackIsObserved'
      BY <1>1, <2>4 DEF FileWhole, RollbackIsObserved
    <2>7. WayBack'
      BY <2>4 DEF WayBack, q, back
    <2> QED BY <1>1, <2>4, <2>5, <2>6, <2>7 DEF ToolInv, ToolTypeOK
  <1> QED BY <1>2, <1>3

LEMMA DefaultSettings ==
    /\ Exactly("default") \in Settings /\ << >> \in Seq(DaemonRequests)
    /\ \A s \in Settings : Readback(s) \subseteq Settings
    /\ \A s \in Settings : s[1] \in Names
  <1>1. "default" \in Names /\ FALSE \in BOOLEAN /\ TRUE \in BOOLEAN
    BY DEF Names
  <1>2. Exactly("default") \in Settings
    BY <1>1 DEF Exactly, Settings
  <1>3. \A s \in Settings : s[1] \in Names /\ Readback(s) \subseteq Settings
    <2> SUFFICES ASSUME NEW s \in Settings
                 PROVE  s[1] \in Names /\ Readback(s) \subseteq Settings
      OBVIOUS
    <2>1. s[1] \in Names
      BY DEF Settings
    <2>2. <<s[1], TRUE>> \in Settings
      BY <1>1, <2>1 DEF Settings
    <2> QED BY <2>1, <2>2 DEF Readback
  <1>4. << >> \in Seq(DaemonRequests)
    OBVIOUS
  <1> QED BY <1>2, <1>3, <1>4

LEMMA ToolShape ==
    ASSUME ToolInv
    PROVE  /\ tool \in ToolRecords /\ argus \in SessionRecords /\ file \in FileRecords
           /\ tool.todo \in Seq(ToolSteps) /\ tool.plan \in Seq(ToolSteps)
           /\ tool.cycles \in Int /\ tool.commands \in Nat /\ tool.left \in Int
           /\ tool.matched \in Nat /\ tool.rollback \in {"none", "attempted", "succeeded"}
           /\ argus.next \in Nat /\ argus.revision \in Nat /\ argus.requested \in Settings
           /\ argus.accepted \in Settings /\ argus.sent \in Seq(DaemonRequests)
           /\ FileKept(file) /\ file.name \in Contents /\ file.name.set \in Settings
           /\ SavesFollowPhases(tool.plan) /\ SavesFollowPhases(tool.todo)
           /\ ~SavesNext(tool.plan)
           /\ PhaseFrames \in Nat /\ PhaseFrames > 0 /\ PhaseSlack \in Nat
           /\ Exactly("default") \in Settings
  <1>1. tool \in ToolRecords /\ argus \in SessionRecords /\ file \in FileRecords
    BY DEF ToolInv, ToolTypeOK
  <1>2. file.name \in Contents /\ file.name.set \in Settings
    <2>1. file.name \in Contents
      BY <1>1 DEF FileRecords
    <2> QED BY <2>1 DEF Contents
  <1>3. FileKept(file) /\ SavesFollowPhases(tool.plan) /\ SavesFollowPhases(tool.todo)
        /\ ~SavesNext(tool.plan)
    BY DEF ToolInv, SaveIsVerified, FileWhole
  <1>4. /\ tool.todo \in Seq(ToolSteps) /\ tool.plan \in Seq(ToolSteps)
        /\ tool.cycles \in Int /\ tool.commands \in Nat /\ tool.left \in Int
        /\ tool.matched \in Nat /\ tool.rollback \in {"none", "attempted", "succeeded"}
    BY <1>1 DEF ToolRecords
  <1>5. /\ argus.next \in Nat /\ argus.revision \in Nat /\ argus.requested \in Settings
        /\ argus.accepted \in Settings /\ argus.sent \in Seq(DaemonRequests)
    BY <1>1 DEF SessionRecords
  <1>6. PhaseFrames \in Nat /\ PhaseFrames > 0 /\ PhaseSlack \in Nat
    BY ToolAssumption
  <1> QED BY <1>1, <1>2, <1>3, <1>4, <1>5, <1>6, DefaultSettings

LEMMA SessionCloses ==
    NoSession \in SessionRecords
  <1> DEFINE d == Exactly("default")
  <1>1. d \in Settings /\ << >> \in Seq(DaemonRequests)
    BY DefaultSettings
  <1>2. NoSession = [open |-> FALSE, revision |-> 0, next |-> 0, requested |-> d,
                     accepted |-> d, fault |-> FALSE, sent |-> << >>,
                     last |-> [revision |-> 0, set |-> d]]
    BY DEF NoSession
  <1> HIDE DEF d
  <1> QED BY <1>1, <1>2 DEF SessionRecords, DaemonRequests

LEMMA CommandBegins ==
    ASSUME ToolInv,
           NEW a \in Commands, Parse(a)
    PROVE  ToolInv'
  <1>1. /\ tool.commands + 1 \in Nat /\ tool \in ToolRecords /\ SavesFollowPhases(tool.todo)
        /\ file \in FileRecords /\ argus \in SessionRecords /\ FileKept(file)
        /\ file.name.set \in Settings
    BY ToolShape
  <1> DEFINE p == Steps(a)
             k == tool.commands + 1
  <1>2. p \in Seq(ToolSteps) /\ SavesFollowPhases(p) /\ ~SavesNext(p)
    BY <1>1, StepsPlanned, Zenon
  <1>3. PICK n \in Int : tool' = [tool EXCEPT !.at = "start", !.action = a, !.plan = p, !.cycles = n,
                                   !.commands = k, !.rollback = "none", !.passed = FALSE]
    <2> DEFINE counts == IF Use("again") THEN {1} ELSE 1 .. MaxCycles
    <2>1. \E n \in counts :
            tool' = [tool EXCEPT !.at = "start", !.action = a, !.plan = p, !.cycles = n,
                                 !.commands = k, !.rollback = "none", !.passed = FALSE]
      BY DEF Parse
    <2>2. counts \subseteq Int
      BY ToolAssumption
    <2> HIDE DEF counts, p, k
    <2> QED BY <2>1, <2>2
  <1> HIDE DEF p, k
  <1>4. /\ tool' \in ToolRecords /\ tool'.at = "start" /\ tool'.plan = p
        /\ tool'.todo = tool.todo /\ tool'.rollback = "none"
    <2>1. "start" \in ToolPlaces
      BY DEF ToolPlaces
    <2>2. k \in Nat
      BY <1>1 DEF k
    <2> QED BY <1>1, <1>2, <1>3, <2>1, <2>2 DEF ToolRecords
  <1>5. UNCHANGED <<argus, file>>
    BY DEF Parse
  <1>6. SaveIsVerified'
    BY <1>1, <1>2, <1>4 DEF SaveIsVerified, Saving
  <1> QED
    BY <1>1, <1>4, <1>5, <1>6 DEF ToolInv, ToolTypeOK, FileWhole, WayBack, RollbackIsObserved

LEMMA SessionOpens ==
    ASSUME ToolInv, OpenSession \/ OpenFails
    PROVE  ToolInv'
  <1>1. /\ tool.rollback = "none" /\ file' = file /\ file' \in FileRecords /\ FileKept(file')
        /\ tool \in ToolRecords
    BY ToolShape DEF OpenSession, OpenFails, ToolInv, WayBack
  <1>2. CASE OpenFails
    <2>1. tool' = Failed(tool) /\ argus' \in SessionRecords
      BY <1>2, ToolShape DEF OpenFails
    <2> QED BY <1>1, <2>1, ToolFails
  <1>3. CASE OpenSession
    <2> DEFINE first == [revision |-> 1, set |-> Exactly("default")]
               c == tool.cycles - 1
               n == PhaseFrames + PhaseSlack
    <2>1. argus' \in SessionRecords
      <3>1. PICK back \in Readback(Exactly("default")) :
              argus' = [argus EXCEPT !.revision = 1, !.next = 2, !.fault = FALSE, !.open = TRUE,
                                     !.requested = Exactly("default"), !.accepted = back,
                                     !.sent = << first >>]
        BY <1>3 DEF OpenSession, FirstRequest
      <3>2. back \in Settings /\ Exactly("default") \in Settings
        <4>1. Readback(Exactly("default")) \subseteq Settings /\ Exactly("default") \in Settings
          BY DefaultSettings, Zenon
        <4> QED BY <4>1, <3>1, Zenon
      <3>3. << first >> \in Seq(DaemonRequests)
        <4>1. first \in DaemonRequests
          BY <3>2 DEF DaemonRequests
        <4> HIDE DEF first
        <4> QED BY <4>1
      <3> HIDE DEF first
      <3> QED BY <3>1, <3>2, <3>3, ToolShape DEF SessionRecords
    <2>2. tool' = [tool EXCEPT !.at = "phase", !.todo = tool.plan, !.cycles = c, !.matched = 0,
                               !.left = n, !.verify = FALSE, !.verified = FALSE]
      BY <1>3 DEF OpenSession
    <2>3. c \in Int /\ n \in Int /\ tool.plan \in Seq(ToolSteps) /\ "phase" \in ToolPlaces
      BY ToolShape DEF ToolPlaces
    <2> HIDE DEF c, n
    <2>4. /\ tool' \in ToolRecords /\ tool'.at = "phase" /\ tool'.plan = tool.plan
          /\ tool'.todo = tool.plan /\ tool'.rollback = "none" /\ tool'.matched = 0
      BY <1>1, <2>2, <2>3 DEF ToolRecords
    <2>5. SaveIsVerified'
      BY <2>4, ToolShape DEF SaveIsVerified, Saving
    <2>6. FileWhole' /\ WayBack' /\ RollbackIsObserved'
      BY <1>1, <2>4, ToolShape DEF FileWhole, WayBack, RollbackIsObserved
    <2> QED BY <1>1, <2>1, <2>4, <2>5, <2>6 DEF ToolInv, ToolTypeOK
  <1> QED BY <1>2, <1>3

LEMMA CycleStops ==
    ASSUME ToolInv, CycleEnds \/ CloseSession
    PROVE  ToolInv'
  <1>1. file' = file /\ file' \in FileRecords /\ FileKept(file')
    BY ToolShape DEF CycleEnds, CloseSession
  <1>2. CASE CycleEnds
    <2> DEFINE b == tool.rollback = "none"
               n == IF b THEN tool.cycles ELSE 0
    <2>1. tool' = [tool EXCEPT !.at = "stop", !.passed = b, !.cycles = n] /\ argus' = argus
      BY <1>2 DEF CycleEnds
    <2>2. b \in BOOLEAN /\ n \in Int /\ "stop" \in ToolPlaces
          /\ (tool.rollback # "none" => n = 0)
      BY ToolShape DEF ToolPlaces
    <2> HIDE DEF b, n
    <2>3. /\ tool' \in ToolRecords /\ tool'.at = "stop" /\ tool'.plan = tool.plan
          /\ tool'.todo = tool.todo /\ tool'.rollback = tool.rollback /\ tool'.cycles = n
          /\ tool'.before = tool.before /\ tool.at = "do"
      BY <1>2, <2>1, <2>2, ToolShape DEF ToolRecords, CycleEnds
    <2>4. SaveIsVerified'
      BY <2>3, ToolShape DEF SaveIsVerified, Saving
    <2>5. FileWhole' /\ WayBack' /\ RollbackIsObserved'
      BY <1>1, <2>1, <2>2, <2>3 DEF ToolInv, FileWhole, WayBack, RollbackIsObserved
    <2> QED BY <1>1, <2>1, <2>3, <2>4, <2>5, ToolShape DEF ToolInv, ToolTypeOK
  <1>3. CASE CloseSession
    <2> DEFINE l == IF tool.cycles > 0 THEN "start" ELSE "off"
    <2>1. tool' = [tool EXCEPT !.at = l] /\ argus' = NoSession
      BY <1>3 DEF CloseSession
    <2>2. l \in {"start", "off"} /\ l \in ToolPlaces /\ (tool.rollback # "none" => l = "off")
      BY <1>3 DEF ToolPlaces, CloseSession, ToolInv, WayBack
    <2> HIDE DEF l
    <2>3. /\ tool' \in ToolRecords /\ tool'.at = l /\ tool'.plan = tool.plan
          /\ tool'.todo = tool.todo /\ tool'.rollback = tool.rollback
      BY <2>1, <2>2, ToolShape DEF ToolRecords
    <2>4. SaveIsVerified'
      BY <2>2, <2>3, ToolShape DEF SaveIsVerified, Saving
    <2>5. FileWhole' /\ WayBack' /\ RollbackIsObserved'
      BY <1>1, <2>2, <2>3, ToolShape DEF FileWhole, WayBack, RollbackIsObserved
    <2>6. argus' \in SessionRecords
      BY <2>1, SessionCloses
    <2> QED BY <1>1, <2>3, <2>4, <2>5, <2>6 DEF ToolInv, ToolTypeOK
  <1> QED BY <1>2, <1>3

LEMMA FrameTaken ==
    ASSUME ToolInv, NEW i \in DOMAIN argus.sent,
           argus' = [argus EXCEPT !.sent = SubSeq(argus.sent, i, Len(argus.sent)), !.last = Frame(i)]
    PROVE  /\ Frame(i) \in DaemonRequests /\ argus' \in SessionRecords /\ argus'.last = Frame(i)
           /\ argus'.revision = argus.revision /\ argus'.requested = argus.requested
  <1> DEFINE f == Frame(i)
             q == SubSeq(argus.sent, i, Len(argus.sent))
  <1>1. argus.sent \in Seq(DaemonRequests) /\ argus \in SessionRecords
    BY ToolShape
  <1>2. i \in 1 .. Len(argus.sent) /\ Len(argus.sent) \in Nat
    BY <1>1
  <1>3. f \in DaemonRequests
    BY <1>1, <1>2 DEF Frame
  <1>4. q \in Seq(DaemonRequests)
    BY <1>1, <1>2, SubSeqProperties
  <1>5. argus' = [argus EXCEPT !.sent = q, !.last = f]
    OBVIOUS
  <1> HIDE DEF f, q
  <1>6. argus' \in SessionRecords /\ argus'.last = f /\ argus'.revision = argus.revision
        /\ argus'.requested = argus.requested
    BY <1>1, <1>3, <1>4, <1>5 DEF SessionRecords
  <1> QED BY <1>3, <1>6 DEF f

LEMMA FrameCompared ==
    ASSUME ToolInv, AcquireFrame
    PROVE  ToolInv'
  <1>1. /\ tool.at = "phase" /\ tool.matched < PhaseFrames /\ file' = file
        /\ tool \in ToolRecords /\ tool.matched \in Nat /\ tool.left \in Int
        /\ file \in FileRecords /\ FileKept(file) /\ SavesFollowPhases(tool.plan)
        /\ SavesFollowPhases(tool.todo) /\ ~SavesNext(tool.plan) /\ PhaseFrames \in Nat
        /\ (SavesNext(tool.todo) => tool.verify)
        /\ (tool.rollback # "none" =>
              /\ tool.todo = << >> /\ tool.verify /\ argus.requested = tool.before
              /\ tool.rollback = "attempted")
    BY ToolShape DEF AcquireFrame, ToolInv, WayBack, SaveIsVerified
  <1>2. PICK i \in DOMAIN argus.sent, converged \in Convergence :
          /\ argus' = [argus EXCEPT !.sent = SubSeq(argus.sent, i, Len(argus.sent)),
                                    !.last = Frame(i)]
          /\ tool' = PhaseStep(Frame(i), converged)
    BY DEF AcquireFrame
  <1> DEFINE f == Frame(i)
  <1>3. /\ f \in DaemonRequests /\ argus' \in SessionRecords /\ argus'.last = f
        /\ argus'.revision = argus.revision /\ argus'.requested = argus.requested
    BY <1>2, FrameTaken
  <1> DEFINE m == IF f.revision = argus.revision THEN tool.matched + 1 ELSE tool.matched
             l == tool.left - 1
             t == [tool EXCEPT !.matched = m, !.left = l]
             r == IF tool.rollback = "attempted" THEN "succeeded" ELSE tool.rollback
             seen == converged /\ Near(f.set, argus.requested)
  <1>4. m \in Nat /\ l \in Int /\ m <= tool.matched + 1
        /\ (m = PhaseFrames => f.revision = argus.revision)
    BY <1>1
  <1>5. /\ t \in ToolRecords /\ t.plan = tool.plan /\ t.todo = tool.todo /\ t.at = "phase"
        /\ t.matched = m /\ t.left = l /\ t.verify = tool.verify /\ t.before = tool.before
        /\ t.rollback = tool.rollback
    <2> HIDE DEF m, l
    <2> QED BY <1>1, <1>4 DEF ToolRecords
  <1>6. \/ tool' = PhaseFailed(t)
        \/ /\ m = PhaseFrames /\ (tool.verify => seen)
           /\ tool' = [t EXCEPT !.at = "do", !.verified = t.verify, !.rollback = r]
        \/ m # PhaseFrames /\ tool' = t
    BY <1>2, <1>5 DEF PhaseStep
  <1>7. file' \in FileRecords /\ FileKept(file')
    BY <1>1
  <1> HIDE DEF f, m, l, t
  <1>8. CASE tool' = PhaseFailed(t)
    BY <1>1, <1>3, <1>5, <1>8, PhaseFails
  <1>9. CASE /\ m = PhaseFrames /\ (tool.verify => seen)
             /\ tool' = [t EXCEPT !.at = "do", !.verified = t.verify, !.rollback = r]
    <2>1. r \in {"none", "attempted", "succeeded"} /\ "do" \in ToolPlaces
          /\ r # "attempted" /\ (r # "none" => tool.rollback = "attempted")
      BY <1>1 DEF ToolPlaces
    <2> HIDE DEF r, seen
    <2>2. /\ tool' \in ToolRecords /\ tool'.at = "do" /\ tool'.plan = tool.plan
          /\ tool'.todo = tool.todo /\ tool'.verified = tool.verify /\ tool'.rollback = r
          /\ tool'.before = tool.before
      BY <1>5, <1>9, <2>1 DEF ToolRecords
    <2>3. SaveIsVerified'
      BY <1>1, <2>2 DEF SaveIsVerified, Saving
    <2>4. FileWhole'
      BY <1>7, <2>2 DEF FileWhole
    <2>5. WayBack'
      <3>1. r # "none" => r = "succeeded"
        BY <1>1, <2>1 DEF ToolRecords, r
      <3> QED BY <1>1, <2>1, <2>2, <3>1 DEF WayBack
    <2>6. RollbackIsObserved'
      <3>1. r = "succeeded" => Near(f.set, argus.requested) /\ argus.requested = tool.before
        BY <1>1, <1>9, <2>1 DEF seen
      <3>2. f.revision = argus.revision
        BY <1>4, <1>9
      <3> QED BY <1>3, <2>2, <3>1, <3>2 DEF RollbackIsObserved, Near
    <2> QED BY <1>3, <1>7, <2>2, <2>3, <2>4, <2>5, <2>6 DEF ToolInv, ToolTypeOK
  <1>10. CASE m # PhaseFrames /\ tool' = t
    <2>1. m < PhaseFrames
      BY <1>1, <1>4, <1>10
    <2>2. SaveIsVerified'
      BY <1>1, <1>5, <1>10 DEF SaveIsVerified, Saving
    <2>3. FileWhole' /\ WayBack' /\ RollbackIsObserved'
      BY <1>1, <1>3, <1>5, <1>7, <1>10, <2>1 DEF FileWhole, WayBack, RollbackIsObserved
    <2> QED BY <1>3, <1>5, <1>7, <1>10, <2>2, <2>3 DEF ToolInv, ToolTypeOK
  <1> QED BY <1>6, <1>8, <1>9, <1>10

LEMMA FrameMissing ==
    ASSUME ToolInv, AcquireRefused
    PROVE  ToolInv'
  <1>1. /\ tool' = PhaseFailed(tool) /\ argus' = argus /\ file' = file /\ tool.at = "phase"
        /\ tool \in ToolRecords /\ argus \in SessionRecords
    BY ToolShape DEF AcquireRefused
  <1>2. tool.rollback # "succeeded"
    BY <1>1 DEF ToolInv, WayBack
  <1> QED BY <1>1, <1>2, PhaseFails

(* What the next step of a cycle can be.                                   *)
LEMMA NextStep ==
    ASSUME ToolInv, tool.at = "do", tool.todo # << >>
    PROVE  /\ Wanted \in Settings /\ Tail(tool.todo) \in Seq(ToolSteps)
           /\ SavesFollowPhases(Tail(tool.todo))
           /\ SavesNext(Tail(tool.todo)) => Head(tool.todo)[1] = "phase"
           /\ tool.rollback # "succeeded" /\ Head(tool.todo) = tool.todo[1]
           /\ tool.rollback # "none" =>
                /\ tool.rollback = "attempted"
                /\ \/ /\ Head(tool.todo)[1] = "set" /\ Wanted = tool.before
                      /\ Tail(tool.todo) = << Look >>
                   \/ /\ Head(tool.todo)[1] = "phase" /\ Tail(tool.todo) = << >>
                      /\ argus.requested = tool.before
  <1> DEFINE q == tool.todo
  <1>1. q \in Seq(ToolSteps) /\ SavesFollowPhases(q) /\ q # << >>
    BY ToolShape
  <1>2. tool.rollback # "none" =>
          \/ q = << <<"set", tool.before>>, Look >> /\ tool.rollback = "attempted"
          \/ q = << Look >> /\ argus.requested = tool.before /\ tool.rollback = "attempted"
    BY DEF ToolInv, WayBack
  <1> HIDE DEF q
  <1>3. /\ Head(q) = q[1] /\ Head(q)[2] \in Settings /\ Tail(q) \in Seq(ToolSteps)
        /\ SavesFollowPhases(Tail(q)) /\ (SavesNext(Tail(q)) => Head(q)[1] = "phase")
    BY <1>1, StepsLeft
  <1>4. tool.rollback # "none" =>
          /\ tool.rollback = "attempted"
          /\ \/ Head(q)[1] = "set" /\ Head(q)[2] = tool.before /\ Tail(q) = << Look >>
             \/ Head(q)[1] = "phase" /\ Tail(q) = << >> /\ argus.requested = tool.before
    <2>1. \A a, b : Head(<< a, b >>) = a /\ Tail(<< a, b >>) = << b >>
                    /\ Head(<< a >>) = a /\ Tail(<< a >>) = << >>
      OBVIOUS
    <2>2. Look[1] = "phase"
      BY DEF Look
    <2> DEFINE back == <<"set", tool.before>>
    <2>3. back[1] = "set" /\ back[2] = tool.before
      OBVIOUS
    <2> HIDE DEF back
    <2>4. ASSUME q = << back, Look >> PROVE Head(q) = back /\ Tail(q) = << Look >>
      BY <2>1, <2>4, Zenon
    <2>5. ASSUME q = << Look >> PROVE Head(q) = Look /\ Tail(q) = << >>
      BY <2>1, <2>5, Zenon
    <2>6. tool.rollback # "none" =>
            \/ q = << back, Look >> /\ tool.rollback = "attempted"
            \/ q = << Look >> /\ argus.requested = tool.before /\ tool.rollback = "attempted"
      BY <1>2 DEF back
    <2> QED BY <2>2, <2>3, <2>4, <2>5, <2>6
  <1> QED BY <1>3, <1>4 DEF q, Wanted

LEMMA SettingsSent ==
    ASSUME argus \in SessionRecords, NEW s \in Settings
    PROVE  /\ \A back \in Readback(s) :
                Accepted(s, back) \in SessionRecords /\ Accepted(s, back).requested = s
           /\ Refused(s) \subseteq SessionRecords
  <1> DEFINE tried == [revision |-> argus.next, set |-> s]
             n == argus.next + 1
             one == Append(argus.sent, tried)
             two == argus.sent \o << tried, Running >>
             a == [argus EXCEPT !.next = n]
  <1>1. /\ argus.next \in Nat /\ argus.revision \in Nat /\ argus.requested \in Settings
        /\ argus.sent \in Seq(DaemonRequests) /\ n \in Nat
    BY DEF SessionRecords
  <1>2. tried \in DaemonRequests /\ Running \in DaemonRequests
    BY <1>1 DEF DaemonRequests, Running
  <1>3. one \in Seq(DaemonRequests) /\ two \in Seq(DaemonRequests)
    <2> HIDE DEF tried
    <2>1. << tried, Running >> \in Seq(DaemonRequests)
      BY <1>2, ShortSequences, Zenon
    <2> QED BY <1>1, <1>2, <2>1, AppendProperties, ConcatProperties
  <1>4. \A back \in Readback(s) :
          Accepted(s, back) = [argus EXCEPT !.next = n, !.revision = argus.next,
                                            !.requested = s, !.accepted = back, !.sent = one]
    BY DEF Accepted
  <1>5. Refused(s) = {a, [a EXCEPT !.fault = TRUE], [a EXCEPT !.sent = two],
                      [a EXCEPT !.sent = one, !.fault = TRUE]}
    BY DEF Refused
  <1>6. Readback(s) \subseteq Settings
    BY DefaultSettings
  <1> HIDE DEF tried, n, one, two, a
  <1>7. ASSUME NEW back \in Readback(s)
        PROVE  Accepted(s, back) \in SessionRecords /\ Accepted(s, back).requested = s
    <2>1. back \in Settings
      BY <1>6
    <2> QED BY <1>1, <1>3, <1>4, <2>1 DEF SessionRecords
  <1>8. Refused(s) \subseteq SessionRecords
    <2>1. a \in SessionRecords
      BY <1>1 DEF a, SessionRecords
    <2>2. /\ [a EXCEPT !.fault = TRUE] \in SessionRecords
          /\ [a EXCEPT !.sent = two] \in SessionRecords
          /\ [a EXCEPT !.sent = one, !.fault = TRUE] \in SessionRecords
      BY <1>3, <2>1 DEF SessionRecords
    <2> QED BY <1>5, <2>1, <2>2
  <1> QED BY <1>7, <1>8

(* A step of a cycle that asks the daemon for settings.                    *)
LEMMA SettingsAsked ==
    ASSUME ToolInv, TrySettings \/ ApplyProfile
    PROVE  ToolInv'
  <1>1. /\ tool.at = "do" /\ tool.todo # << >> /\ file' = file
        /\ Head(tool.todo)[1] \in {"set", "apply"}
    BY DEF TrySettings, ApplyProfile, Step
  <1>2. /\ tool \in ToolRecords /\ argus \in SessionRecords /\ file \in FileRecords
        /\ FileKept(file) /\ argus.accepted \in Settings /\ SavesFollowPhases(tool.plan)
        /\ ~SavesNext(tool.plan)
    BY ToolShape
  <1> DEFINE q == Tail(tool.todo)
  <1>3. /\ Wanted \in Settings /\ q \in Seq(ToolSteps) /\ SavesFollowPhases(q) /\ ~SavesNext(q)
        /\ tool.rollback # "succeeded"
        /\ tool.rollback # "none" =>
             /\ tool.rollback = "attempted" /\ Head(tool.todo)[1] = "set"
             /\ Wanted = tool.before /\ q = << Look >>
    BY <1>1, NextStep
  <1>4. /\ Refused(Wanted) \subseteq SessionRecords
        /\ \A back \in Readback(Wanted) : /\ Accepted(Wanted, back) \in SessionRecords
                                          /\ Accepted(Wanted, back).requested = Wanted
    BY <1>2, <1>3, SettingsSent
  <1>5. CASE tool' = Failed(tool)
    <2>1. argus' = argus \/ argus' \in Refused(Wanted)
          \/ \E back \in Readback(Wanted) : argus' = Accepted(Wanted, back)
      BY DEF TrySettings, ApplyProfile
    <2>2. argus' \in SessionRecords
      BY <1>2, <1>4, <2>1
    <2> QED BY <1>1, <1>2, <1>3, <1>5, <2>2, ToolFails
  <1>6. CASE tool' # Failed(tool)
    <2>1. PICK back \in Readback(Wanted) :
            /\ argus' = Accepted(Wanted, back)
            /\ \/ tool' = Changed /\ TrySettings
               \/ tool' = [Changed EXCEPT !.before = argus.accepted] /\ ApplyProfile
      BY <1>6 DEF TrySettings, ApplyProfile
    <2>2. argus' \in SessionRecords /\ argus'.requested = Wanted
      BY <1>4, <2>1
    <2>3. \E b \in Settings :
            /\ tool' = [tool EXCEPT !.todo = q, !.verified = FALSE, !.before = b]
            /\ tool.rollback # "none" => b = tool.before
      <3>1. tool.before \in Settings
        BY <1>2 DEF ToolRecords
      <3>2. tool = [tool EXCEPT !.before = tool.before]
        BY <1>2 DEF ToolRecords
      <3>3. Changed = [tool EXCEPT !.todo = q, !.verified = FALSE]
        BY DEF Changed, Rest
      <3>4. CASE tool' = Changed
        <4>1. tool' = [tool EXCEPT !.todo = q, !.verified = FALSE, !.before = tool.before]
          BY <1>2, <3>3, <3>4 DEF ToolRecords
        <4> QED BY <3>1, <4>1
      <3>5. CASE tool' = [Changed EXCEPT !.before = argus.accepted] /\ ApplyProfile
        <4>1. tool' = [tool EXCEPT !.todo = q, !.verified = FALSE, !.before = argus.accepted]
          BY <3>3, <3>5
        <4>2. tool.rollback = "none"
          BY <1>3, <3>5 DEF ApplyProfile, Step
        <4> QED BY <1>2, <4>1, <4>2
      <3> QED BY <2>1, <3>4, <3>5
    <2>4. PICK b \in Settings :
            /\ tool' = [tool EXCEPT !.todo = q, !.verified = FALSE, !.before = b]
            /\ tool.rollback # "none" => b = tool.before
      BY <2>3
    <2> HIDE DEF q
    <2>5. /\ tool' \in ToolRecords /\ tool'.at = "do" /\ tool'.plan = tool.plan
          /\ tool'.todo = q /\ tool'.rollback = tool.rollback /\ tool'.before = b
      BY <1>1, <1>2, <1>3, <2>4 DEF ToolRecords
    <2>6. SaveIsVerified'
      BY <1>2, <1>3, <2>5 DEF SaveIsVerified, Saving
    <2>7. FileWhole' /\ WayBack' /\ RollbackIsObserved'
      BY <1>1, <1>2, <1>3, <2>2, <2>4, <2>5 DEF FileWhole, WayBack, RollbackIsObserved
    <2> QED BY <1>1, <1>2, <2>2, <2>5, <2>6, <2>7 DEF ToolInv, ToolTypeOK
  <1> QED BY <1>5, <1>6

(* A step of a cycle that asks for nothing new.                            *)
LEMMA CycleGoesOn ==
    ASSUME ToolInv, BeginPhase \/ RefusedKeepsRevision
    PROVE  ToolInv'
  <1>1. /\ tool.at = "do" /\ tool.todo # << >> /\ argus' = argus /\ file' = file
        /\ Head(tool.todo)[1] \in {"phase", "refuse"}
    BY DEF BeginPhase, RefusedKeepsRevision, Step
  <1>2. /\ tool \in ToolRecords /\ argus \in SessionRecords /\ file \in FileRecords
        /\ FileKept(file) /\ SavesFollowPhases(tool.plan) /\ ~SavesNext(tool.plan)
        /\ PhaseFrames \in Nat /\ PhaseFrames > 0 /\ PhaseSlack \in Nat
    BY ToolShape
  <1> DEFINE q == Tail(tool.todo)
             n == PhaseFrames + PhaseSlack
  <1>3. /\ q \in Seq(ToolSteps) /\ SavesFollowPhases(q) /\ n \in Int
        /\ SavesNext(q) => Head(tool.todo)[1] = "phase"
        /\ tool.rollback # "succeeded"
        /\ tool.rollback # "none" =>
             /\ tool.rollback = "attempted" /\ Head(tool.todo)[1] = "phase"
             /\ q = << >> /\ argus.requested = tool.before
    BY <1>1, <1>2, NextStep
  <1>4. CASE BeginPhase
    <2>1. tool' = [tool EXCEPT !.todo = q, !.at = "phase", !.matched = 0, !.left = n,
                               !.verify = TRUE]
      BY <1>4 DEF BeginPhase, Rest
    <2>2. "phase" \in ToolPlaces
      BY DEF ToolPlaces
    <2> HIDE DEF q, n
    <2>3. /\ tool' \in ToolRecords /\ tool'.at = "phase" /\ tool'.plan = tool.plan
          /\ tool'.todo = q /\ tool'.rollback = tool.rollback /\ tool'.matched = 0
          /\ tool'.verify /\ tool'.before = tool.before
      BY <1>2, <1>3, <2>1, <2>2 DEF ToolRecords
    <2>4. SaveIsVerified'
      BY <1>2, <1>3, <2>3 DEF SaveIsVerified, Saving
    <2>5. FileWhole' /\ WayBack' /\ RollbackIsObserved'
      BY <1>1, <1>2, <1>3, <2>3 DEF FileWhole, WayBack, RollbackIsObserved
    <2> QED BY <1>1, <1>2, <2>3, <2>4, <2>5 DEF ToolInv, ToolTypeOK
  <1>5. CASE RefusedKeepsRevision
    <2>1. tool' = [tool EXCEPT !.todo = q] /\ Head(tool.todo)[1] = "refuse"
      BY <1>5 DEF RefusedKeepsRevision, Rest, Step
    <2> HIDE DEF q, n
    <2>2. /\ tool' \in ToolRecords /\ tool'.at = "do" /\ tool'.plan = tool.plan
          /\ tool'.todo = q /\ tool'.rollback = tool.rollback
      BY <1>1, <1>2, <1>3, <2>1 DEF ToolRecords
    <2>3. SaveIsVerified'
      BY <1>2, <1>3, <2>1, <2>2 DEF SaveIsVerified, Saving
    <2>4. FileWhole' /\ WayBack' /\ RollbackIsObserved'
      BY <1>1, <1>2, <1>3, <2>1, <2>2 DEF FileWhole, WayBack, RollbackIsObserved
    <2> QED BY <1>1, <1>2, <2>2, <2>3, <2>4 DEF ToolInv, ToolTypeOK
  <1> QED BY <1>4, <1>5

LEMMA FileContents ==
    /\ Nothing \in Contents /\ Torn \in Contents
    /\ \A s \in Settings : MakeTuningProfile(s) \in Contents /\ MakeTuningProfile(s).kind = "profile"
    /\ Nothing.kind = "none"
  <1> DEFINE d == Exactly("default")
  <1>1. d \in Settings
    BY DefaultSettings
  <1>2. Nothing = [kind |-> "none", set |-> d, device |-> "this"]
        /\ Torn = [kind |-> "part", set |-> d, device |-> "this"]
    BY DEF Nothing, Torn
  <1>3. "this" \in Devices
    BY Zenon DEF Devices
  <1> HIDE DEF d
  <1>4. Nothing \in Contents /\ Torn \in Contents /\ Nothing.kind = "none"
    BY <1>1, <1>2, <1>3 DEF Contents
  <1>5. \A s \in Settings : MakeTuningProfile(s) \in Contents /\ MakeTuningProfile(s).kind = "profile"
    BY <1>3 DEF MakeTuningProfile, Contents
  <1> QED BY <1>4, <1>5

LEMMA SaveMoves ==
    ASSUME ToolInv, NEW at \in Saving, tool.rollback = "none", tool.verified,
           SavesNext(tool.todo), tool' = [tool EXCEPT !.at = at], argus' = argus,
           file' \in FileRecords, FileKept(file'),
           at \in {"sync", "rename"} => file'.temp.kind = "profile",
           at = "rename" => file'.synced
    PROVE  ToolInv'
  <1>1. /\ tool \in ToolRecords /\ argus \in SessionRecords /\ SavesFollowPhases(tool.plan)
        /\ SavesFollowPhases(tool.todo) /\ ~SavesNext(tool.plan)
    BY ToolShape
  <1>2. /\ tool' \in ToolRecords /\ tool'.at = at /\ tool'.plan = tool.plan
        /\ tool'.todo = tool.todo /\ tool'.rollback = "none" /\ tool'.verified
    <2>1. at \in ToolPlaces
      BY DEF ToolPlaces
    <2> QED BY <1>1, <2>1 DEF ToolRecords
  <1>3. SaveIsVerified'
    BY <1>1, <1>2 DEF SaveIsVerified, Saving
  <1>4. FileWhole' /\ WayBack' /\ RollbackIsObserved'
    BY <1>2 DEF FileWhole, WayBack, RollbackIsObserved, Saving
  <1> QED BY <1>1, <1>2, <1>3, <1>4 DEF ToolInv, ToolTypeOK

LEMMA SaveGoesOn ==
    ASSUME ToolInv, CreateTemporary \/ WriteTemporary \/ SyncTemporary \/ RenameTemporary
    PROVE  ToolInv'
  <1>1. /\ tool \in ToolRecords /\ argus \in SessionRecords /\ file \in FileRecords
        /\ FileKept(file) /\ argus.accepted \in Settings
    BY ToolShape
  <1>2. /\ tool.rollback = "none" /\ tool.verified /\ SavesNext(tool.todo) /\ argus' = argus
    <2>1. CASE CreateTemporary
      <3>1. tool.at = "do" /\ tool.todo # << >> /\ Head(tool.todo)[1] = "save"
        BY <2>1 DEF CreateTemporary, Step
      <3>2. tool.rollback = "none" /\ SavesNext(tool.todo)
        BY <3>1, NextStep DEF SavesNext
      <3> QED BY <2>1, <3>1, <3>2 DEF CreateTemporary, ToolInv, SaveIsVerified
    <2>2. CASE ~CreateTemporary
      <3>1. tool.at \in {"write", "sync", "rename"} /\ argus' = argus
        BY <2>2 DEF WriteTemporary, SyncTemporary, RenameTemporary
      <3> QED BY <3>1 DEF ToolInv, SaveIsVerified, WayBack, Saving
    <2> QED BY <2>1, <2>2
  <1>3. CASE CreateTemporary
    <2>1. file' = [file EXCEPT !.temp = Torn, !.synced = FALSE]
          /\ tool' = [tool EXCEPT !.at = "write"] /\ "write" \in Saving
      BY <1>3 DEF CreateTemporary, Saving
    <2>2. file' \in FileRecords /\ FileKept(file')
      BY <1>1, <2>1, FileContents DEF FileRecords, FileKept
    <2> QED BY <1>2, <2>1, <2>2, SaveMoves
  <1>4. CASE WriteTemporary
    <2> DEFINE c == MakeTuningProfile(argus.accepted)
    <2>1. file' = [file EXCEPT !.temp = c]
          /\ tool' = [tool EXCEPT !.at = "sync"] /\ "sync" \in Saving
      BY <1>4 DEF WriteTemporary, Saving
    <2>2. c \in Contents /\ c.kind = "profile"
      BY <1>1, FileContents
    <2> HIDE DEF c
    <2>3. file' \in FileRecords /\ FileKept(file') /\ file'.temp.kind = "profile"
      BY <1>1, <2>1, <2>2 DEF FileRecords, FileKept
    <2> QED BY <1>2, <2>1, <2>3, SaveMoves
  <1>5. CASE SyncTemporary
    <2>1. file' = [file EXCEPT !.synced = TRUE] /\ file.temp.kind = "profile"
          /\ tool' = [tool EXCEPT !.at = "rename"] /\ "rename" \in Saving
      BY <1>5 DEF SyncTemporary, Saving, ToolInv, FileWhole
    <2>2. file' \in FileRecords /\ FileKept(file') /\ file'.temp.kind = "profile" /\ file'.synced
      BY <1>1, <2>1 DEF FileRecords, FileKept
    <2> QED BY <1>2, <2>1, <2>2, SaveMoves
  <1>6. CASE RenameTemporary
    <2>1. file' = [file EXCEPT !.name = file.temp, !.whole = file.synced, !.temp = Nothing,
                               !.promise = Nothing]
          /\ file.temp.kind = "profile" /\ file.synced
          /\ tool' = [tool EXCEPT !.at = "dirsync"] /\ "dirsync" \in Saving
      BY <1>6 DEF RenameTemporary, Saving, ToolInv, FileWhole
    <2>2. file' \in FileRecords /\ FileKept(file')
      BY <1>1, <2>1, FileContents DEF FileRecords, FileKept
    <2> QED BY <1>2, <2>1, <2>2, SaveMoves
  <1> QED BY <1>3, <1>4, <1>5, <1>6

LEMMA SaveReturns ==
    ASSUME ToolInv, SyncDirectory \/ SaveFails
    PROVE  ToolInv'
  <1>1. /\ tool \in ToolRecords /\ argus \in SessionRecords /\ file \in FileRecords
        /\ FileKept(file) /\ SavesFollowPhases(tool.plan) /\ ~SavesNext(tool.plan)
        /\ SavesFollowPhases(tool.todo) /\ tool.todo \in Seq(ToolSteps)
    BY ToolShape
  <1>2. /\ argus' = argus /\ tool.at \in Saving
    BY DEF SyncDirectory, SaveFails, Saving
  <1>3. /\ tool.rollback = "none" /\ tool.verified /\ SavesNext(tool.todo)
    BY <1>2 DEF ToolInv, SaveIsVerified, WayBack, Saving
  <1>4. CASE SaveFails
    <2>1. file' = [file EXCEPT !.temp = Nothing] /\ tool' = Failed(tool)
      BY <1>4 DEF SaveFails
    <2>2. file' \in FileRecords /\ FileKept(file')
      BY <1>1, <2>1, FileContents DEF FileRecords, FileKept
    <2> QED BY <1>1, <1>2, <1>3, <2>1, <2>2, ToolFails
  <1>5. CASE SyncDirectory
    <2> DEFINE q == Tail(tool.todo)
    <2>1. file' = [file EXCEPT !.disk = file.name, !.promise = file.name]
          /\ tool' = [tool EXCEPT !.todo = q, !.at = "do"]
      BY <1>1, <1>5 DEF SyncDirectory, Rest, FileKept
    <2>2. file' \in FileRecords /\ FileKept(file')
      BY <1>1, <2>1 DEF FileRecords, FileKept
    <2>3. q \in Seq(ToolSteps) /\ SavesFollowPhases(q) /\ ~SavesNext(q)
      BY <1>1, <1>3, StepsLeft DEF SavesNext
    <2> HIDE DEF q
    <2>4. /\ tool' \in ToolRecords /\ tool'.at = "do" /\ tool'.plan = tool.plan
          /\ tool'.todo = q /\ tool'.rollback = "none"
      <3>1. "do" \in ToolPlaces
        BY DEF ToolPlaces
      <3> QED BY <1>1, <1>3, <2>1, <2>3, <3>1 DEF ToolRecords
    <2>5. SaveIsVerified'
      BY <1>1, <2>3, <2>4 DEF SaveIsVerified, Saving
    <2>6. FileWhole' /\ WayBack' /\ RollbackIsObserved'
      BY <2>2, <2>4 DEF FileWhole, WayBack, RollbackIsObserved
    <2> QED BY <1>1, <1>2, <2>2, <2>4, <2>5, <2>6 DEF ToolInv, ToolTypeOK
  <1> QED BY <1>4, <1>5

LEMMA PowerComesBack ==
    ASSUME ToolInv, PowerFails
    PROVE  ToolInv'
  <1>1. /\ tool \in ToolRecords /\ file \in FileRecords /\ FileKept(file)
        /\ SavesFollowPhases(tool.plan) /\ ~SavesNext(tool.plan)
    BY ToolShape
  <1>2. PICK c \in Survivors : file' = [file EXCEPT !.name = c, !.disk = c, !.temp = Nothing]
    BY Zenon DEF PowerFails
  <1>3. c \in {file.disk, file.name}
    BY <1>1, <1>2 DEF Survivors, FileKept
  <1>4. file' \in FileRecords /\ FileKept(file')
    BY <1>1, <1>2, <1>3, FileContents DEF FileRecords, FileKept
  <1>5. << >> \in Seq(ToolSteps) /\ SavesFollowPhases(<< >>) /\ ~SavesNext(<< >>)
    BY DEF SavesFollowPhases, SavesNext
  <1>6. /\ tool' \in ToolRecords /\ tool'.at = "off" /\ tool'.plan = tool.plan
        /\ tool'.todo = << >> /\ tool'.rollback = "none"
    <2>1. tool' = [tool EXCEPT !.at = "off", !.todo = << >>, !.cycles = 0, !.rollback = "none"]
      BY Zenon DEF PowerFails
    <2>2. "off" \in ToolPlaces /\ 0 \in Int
      BY DEF ToolPlaces
    <2> QED BY <1>1, <1>5, <2>1, <2>2 DEF ToolRecords
  <1>7. argus' \in SessionRecords
    BY SessionCloses DEF PowerFails
  <1>8. SaveIsVerified'
    BY <1>1, <1>5, <1>6 DEF SaveIsVerified, Saving
  <1>9. FileWhole' /\ WayBack' /\ RollbackIsObserved'
    BY <1>4, <1>6 DEF FileWhole, WayBack, RollbackIsObserved
  <1> QED BY <1>4, <1>6, <1>7, <1>8, <1>9 DEF ToolInv, ToolTypeOK

LEMMA ToolBegins ==
    ASSUME ToolInit PROVE ToolInv
  <1> DEFINE d == Exactly("default")
  <1>1. d \in Settings /\ NoSession \in SessionRecords
    BY DefaultSettings, SessionCloses
  <1>2. tool = [at |-> "off", action |-> "none", plan |-> << >>, todo |-> << >>, cycles |-> 0,
                commands |-> 0, matched |-> 0, left |-> 0, verify |-> FALSE, before |-> d,
                rollback |-> "none", passed |-> FALSE, verified |-> FALSE]
        /\ argus = NoSession
    BY DEF ToolInit
  <1>3. PICK c \in KeptProfiles : file = [name |-> c, disk |-> c, temp |-> Nothing, synced |-> FALSE,
                                          whole |-> TRUE, promise |-> Nothing]
    BY DEF ToolInit
  <1>4. c \in Contents /\ c.kind # "part"
    <2>1. "kept" \in Names /\ "out of range" \in Names /\ FALSE \in BOOLEAN
      BY Zenon DEF Names
    <2>2. Exactly("kept") \in Settings /\ Exactly("out of range") \in Settings
      BY <2>1, Zenon DEF Exactly, Settings
    <2> DEFINE e == "another sensor"
               o == Exactly("out of range")
               k == Exactly("kept")
    <2>3. e \in Devices /\ o \in Settings /\ k \in Settings
      BY <2>2, Zenon DEF Devices
    <2>4. c \in {Kept, Nothing, [Kept EXCEPT !.device = e], MakeTuningProfile(o)}
      BY <1>3, Zenon DEF KeptProfiles
    <2>5. Kept = MakeTuningProfile(k)
      BY DEF Kept
    <2> HIDE DEF e, o, k
    <2>6. Kept \in Contents /\ Kept.kind = "profile" /\ MakeTuningProfile(o) \in Contents
          /\ MakeTuningProfile(o).kind = "profile"
      BY <2>3, <2>5, FileContents
    <2>7. [Kept EXCEPT !.device = e] \in Contents /\ [Kept EXCEPT !.device = e].kind = "profile"
      BY <2>3, <2>6 DEF Contents
    <2> QED BY <2>4, <2>6, <2>7, FileContents
  <1>5. << >> \in Seq(ToolSteps) /\ SavesFollowPhases(<< >>) /\ ~SavesNext(<< >>)
    BY DEF SavesFollowPhases, SavesNext
  <1> HIDE DEF d
  <1>6. tool \in ToolRecords
    <2>1. "off" \in ToolPlaces
      BY DEF ToolPlaces
    <2> QED BY <1>1, <1>2, <1>5, <2>1 DEF ToolRecords
  <1>7. file \in FileRecords /\ FileKept(file)
    BY <1>3, <1>4, FileContents DEF FileRecords, FileKept
  <1>8. SaveIsVerified
    BY <1>2, <1>5 DEF SaveIsVerified, Saving
  <1>9. FileWhole /\ WayBack /\ RollbackIsObserved
    BY <1>2, <1>7 DEF FileWhole, WayBack, RollbackIsObserved
  <1> QED BY <1>1, <1>2, <1>6, <1>7, <1>8, <1>9 DEF ToolInv, ToolTypeOK

LEMMA ToolGoesOn ==
    ASSUME ToolInv, ToolStep
    PROVE  ToolInv'
  <1>1. CASE OpenSession \/ OpenFails
    BY <1>1, SessionOpens
  <1>2. CASE AcquireFrame \/ AcquireRefused
    BY <1>2, FrameCompared, FrameMissing
  <1>3. CASE TrySettings \/ ApplyProfile
    BY <1>3, SettingsAsked
  <1>4. CASE BeginPhase \/ RefusedKeepsRevision
    BY <1>4, CycleGoesOn
  <1>5. CASE CreateTemporary \/ WriteTemporary \/ SyncTemporary \/ RenameTemporary
    BY <1>5, SaveGoesOn
  <1>6. CASE SyncDirectory \/ SaveFails
    BY <1>6, SaveReturns
  <1>7. CASE CycleEnds \/ CloseSession
    BY <1>7, CycleStops
  <1> QED BY <1>1, <1>2, <1>3, <1>4, <1>5, <1>6, <1>7 DEF ToolStep

LEMMA ToolProfile ==
    ASSUME ToolInv PROVE ProfileIsWhole /\ RollbackIsObserved
  <1>1. FileKept(file) /\ RollbackIsObserved /\ (tool.at \in Saving => tool.verified)
    BY DEF ToolInv, FileWhole, SaveIsVerified
  <1>2. Torn.kind = "part"
    BY DEF Torn, Nothing
  <1> QED BY <1>1, <1>2 DEF FileKept, ProfileIsWhole, Saving

LEMMA NativeUntouched ==
    ASSUME NativeInv, UNCHANGED nativeVars
    PROVE  NativeInv'
  <1>1. nat' = nat /\ tune' = tune
    BY DEF nativeVars
  <1>2. Sound(nat') /\ tune' \in TuningRecords
    BY <1>1 DEF NativeInv
  <1> QED BY <1>1, <1>2 DEF NativeInv, RequestsNumbered, RevisionNamesOneRequest

LEMMA ToolUntouched ==
    ASSUME ToolInv, UNCHANGED toolVars
    PROVE  ToolInv'
  <1>1. tool' = tool /\ argus' = argus /\ file' = file
    BY DEF toolVars
  <1>2. SaveIsVerified'
    BY <1>1 DEF ToolInv, SaveIsVerified, Saving
  <1>3. FileWhole' /\ WayBack' /\ RollbackIsObserved'
    BY <1>1 DEF ToolInv, FileWhole, WayBack, RollbackIsObserved
  <1> QED BY <1>1, <1>2, <1>3 DEF ToolInv, ToolTypeOK

(* NativeSessionSound (native_argus_capture.cc, frame_broker.cc,           *)
(* camera_tuning_ctl.cc, tuning_profile.cc): for every pool, reserve,      *)
(* queue and frame count the producer never finds every buffer leased, a   *)
(* Stop finds every lease returned, no revision names two requests, the    *)
(* profile is whole across power failures and was seen in frames, and a    *)
(* rollback that is reported was observed.                                 *)
THEOREM NativeSessionsAreSound == Spec => []NativeSessionSound
  <1>1. Init => NativeInv /\ ToolInv
    BY NativeBegins, ToolBegins DEF Init
  <1>2. NativeInv /\ ToolInv /\ [Next]_cameraPathVars => (NativeInv /\ ToolInv)'
    <2> SUFFICES ASSUME NativeInv, ToolInv, [Next]_cameraPathVars
                 PROVE  NativeInv' /\ ToolInv'
      OBVIOUS
    <2>1. CASE UNCHANGED nativeVars /\ UNCHANGED toolVars
      BY <2>1, NativeUntouched, ToolUntouched
    <2>2. CASE NativeNext /\ UNCHANGED toolVars
      BY <2>2, NativeStep, ToolUntouched
    <2>3. CASE ToolNext
      <3>1. ASSUME NEW a \in Commands, Parse(a), UNCHANGED nativeVars
            PROVE  NativeInv' /\ ToolInv'
        BY <3>1, CommandBegins, NativeUntouched
      <3>2. CASE (ToolStep \/ PowerFails) /\ UNCHANGED nativeVars
        BY <3>2, ToolGoesOn, PowerComesBack, NativeUntouched
      <3>3. ASSUME NEW c \in TuningClients, ServiceGet(c)
            PROVE  NativeInv' /\ ToolInv'
        <4>1. "accepted" \in Outcomes /\ GetTuning(c) /\ UNCHANGED toolVars
          BY <3>3 DEF Outcomes, ServiceGet
        <4>2. NativeInv'
          BY <4>1, RequestNumbered
        <4> QED BY <4>1, <4>2, ToolUntouched
      <3>4. ASSUME NEW c \in TuningClients, NEW o \in Outcomes,
                   ServiceSet(c, o) \/ ServiceApply(c, o) \/ ServiceReset(c, o)
            PROVE  NativeInv' /\ ToolInv'
        <4>1. SetTuning(c, o) /\ UNCHANGED toolVars
          BY <3>4 DEF ServiceSet, ServiceApply, ServiceReset
        <4> QED BY <4>1, RequestNumbered, ToolUntouched
      <3> QED BY <2>3, <3>1, <3>2, <3>3, <3>4, Zenon DEF ToolNext, Commands
    <2>4. UNCHANGED cameraPathVars => UNCHANGED nativeVars /\ UNCHANGED toolVars
      BY DEF cameraPathVars, nativeVars, toolVars
    <2> QED BY <2>1, <2>2, <2>3, <2>4 DEF Next
  <1>3. NativeInv /\ ToolInv => NativeSessionSound
    <2> SUFFICES ASSUME NativeInv, ToolInv PROVE NativeSessionSound
      OBVIOUS
    <2>1. ReserveHolds /\ StopFindsNoLease /\ RevisionNamesOneRequest
      BY DEF NativeInv, Sound, Leases, Counted, ReserveHolds, StopFindsNoLease
    <2> QED BY <2>1, ToolProfile DEF NativeSessionSound
  <1> QED BY <1>1, <1>2, <1>3, PTL DEF Spec
=============================================================================
