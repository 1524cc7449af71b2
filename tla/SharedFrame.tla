----------------------------- MODULE SharedFrame -----------------------------
(***************************************************************************)
(* driver/camera/shared_memory: the camera driver writes frames into a     *)
(* named memory region, the HMI and the photo service read them.  The      *)
(* driver and the HMI are processes: either can die between two steps, the *)
(* locks it holds are then found with their owner dead, and the region     *)
(* stays behind under its name.                                            *)
(***************************************************************************)
EXTENDS Naturals, Sequences, Scene

CONSTANTS
    MaxRegions,      \* bound: regions created, one for each life of the driver
    MaxFrames        \* bound: frames published in one region

ASSUME SharedAssumption == MaxRegions \in Nat \ {0} /\ MaxFrames \in Nat \ {0}

(* shm: name: the region the name leads to, 0 for none; regions: what is in  *)
(*      each, a slot being its lock, its header and its payload.             *)
(* drv: the writer: place, region, slot it writes.                           *)
(* rd: the readers: place, region, slot, header and payload they copied.     *)
(* photo: what is under the photo's name, and the photo's temporary file.    *)
VARIABLES shm, cdrv, rd, photo

sharedVars == <<shm, cdrv, rd, photo>>
Readers == {"hmi", "photo"}
SlotIds == {0, 1}                       \* kSlotCount = 2
EmptySlot == [lock |-> "free", head |-> 0, data |-> 0]
NoRegion == [sized |-> FALSE, ready |-> FALSE, active |-> 0, gen |-> 0,
             slot |-> [i \in SlotIds |-> EmptySlot]]
IdleReader == [pc |-> "open", region |-> 0, slot |-> 0, head |-> 0, data |-> 0]

SharedInit ==
    /\ shm = [name |-> 0, made |-> 0, region |-> [g \in 1 .. MaxRegions |-> NoRegion]]
    /\ cdrv = [pc |-> "off", region |-> 0, slot |-> 0]
    /\ rd = [r \in Readers |-> IdleReader]
    /\ photo = [final |-> "none", temp |-> "none"]

WriterGoto(label) == cdrv' = [cdrv EXCEPT !.pc = label]
Mine == shm.region[cdrv.region]
LockOf(g, i) == shm.region[g].slot[i].lock

-----------------------------------------------------------------------------
(* SharedFrameWriter::Create.                                              *)

WriterStarts == Use("shared") /\ cdrv.pc = "off" /\ WriterGoto("create") /\ UNCHANGED <<shm, rd, photo>>

(* shm_open with O_EXCL, when the name is free; the region has no size yet.  *)
CreateRegion ==
    /\ cdrv.pc = "create" /\ shm.name = 0 /\ shm.made < MaxRegions
    /\ shm' = [shm EXCEPT !.name = shm.made + 1, !.made = @ + 1]
    /\ cdrv' = [pc |-> "size", region |-> shm.made + 1, slot |-> 0]
    /\ UNCHANGED <<rd, photo>>

SizeRegion ==
    /\ cdrv.pc = "size" /\ shm' = [shm EXCEPT !.region[cdrv.region].sized = TRUE]
    /\ WriterGoto("init") /\ UNCHANGED <<rd, photo>>

(* Create fails: a region of an earlier life is opened, locked, marked       *)
(* unavailable and unlinked.  One without a size cannot be opened.           *)
RecoverQuietly ==
    /\ cdrv.pc = "create" /\ shm.name # 0 /\ shm.region[shm.name].sized
    /\ shm' = [shm EXCEPT !.name = 0]
    /\ UNCHANGED <<cdrv, rd, photo>>

RecoverStale ==
    /\ cdrv.pc = "create" /\ shm.name # 0 /\ shm.region[shm.name].sized
    /\ shm' = [shm EXCEPT !.region[shm.name].ready = FALSE, !.name = 0]
    /\ UNCHANGED <<cdrv, rd, photo>>

InitRegion ==
    /\ cdrv.pc = "init"
    /\ shm' = [shm EXCEPT !.region[cdrv.region].ready = TRUE]
    /\ WriterGoto("up") /\ UNCHANGED <<rd, photo>>

-----------------------------------------------------------------------------
(* SharedFrameWriter::Publish.                                             *)

PublishBegins ==
    /\ cdrv.pc = "up" /\ Mine.gen < MaxFrames
    /\ cdrv' = [cdrv EXCEPT !.pc = "lock", !.slot = 1 - Mine.active]
    /\ UNCHANGED <<shm, rd, photo>>

(* LockSlot: from a dead owner the slot comes cleared.                       *)
Taken(slot, who) ==
    IF slot.lock = "dead" THEN [EmptySlot EXCEPT !.lock = who] ELSE [slot EXCEPT !.lock = who]

PublishLocks ==
    /\ cdrv.pc = "lock" /\ LockOf(cdrv.region, cdrv.slot) \in {"free", "dead"}
    /\ shm' = [shm EXCEPT !.region[cdrv.region].slot[cdrv.slot] = Taken(@, "writer")]
    /\ WriterGoto("head") /\ UNCHANGED <<rd, photo>>

PublishHead ==
    /\ cdrv.pc = "head"
    /\ shm' = [shm EXCEPT !.region[cdrv.region].slot[cdrv.slot].head = Mine.gen + 1]
    /\ WriterGoto("data") /\ UNCHANGED <<rd, photo>>

PublishData ==
    /\ cdrv.pc = "data"
    /\ shm' = [shm EXCEPT !.region[cdrv.region].slot[cdrv.slot] =
                            [@ EXCEPT !.data = Mine.gen + 1, !.lock = "free"]]
    /\ WriterGoto("active") /\ UNCHANGED <<rd, photo>>

PublishActive ==
    /\ cdrv.pc = "active"
    /\ shm' = [shm EXCEPT !.region[cdrv.region].active = cdrv.slot]
    /\ WriterGoto("count") /\ UNCHANGED <<rd, photo>>

PublishCount ==
    /\ cdrv.pc = "count"
    /\ shm' = [shm EXCEPT !.region[cdrv.region].gen = @ + 1]
    /\ WriterGoto("up") /\ UNCHANGED <<rd, photo>>

(* ~SharedFrameWriter and ~SharedMemoryRegion.                               *)
WriterCloses ==
    /\ cdrv.pc = "up" /\ Use("close")
    /\ shm' = [shm EXCEPT !.region[cdrv.region].ready = FALSE, !.name = 0]
    /\ cdrv' = [pc |-> "off", region |-> 0, slot |-> 0] /\ UNCHANGED <<rd, photo>>

(* The locks of a dead process.                                              *)
Orphaned(regions, owners) ==
    [g \in DOMAIN regions |-> [regions[g] EXCEPT !.slot =
        [i \in SlotIds |-> IF @[i].lock \in owners THEN [@[i] EXCEPT !.lock = "dead"] ELSE @[i]]]]

(* The driver dies, and the photo service with it; Navigator starts another. *)
DriverDies ==
    /\ Use("driver dies") /\ cdrv.pc # "off" /\ shm.made < MaxRegions
    /\ shm' = [shm EXCEPT !.region = Orphaned(@, {"writer", "photo"})]
    /\ cdrv' = [pc |-> "off", region |-> 0, slot |-> 0]
    /\ rd' = [rd EXCEPT !["photo"] = IdleReader]
    /\ UNCHANGED photo

HmiDies ==
    /\ Use("hmi dies") /\ rd["hmi"] # IdleReader
    /\ shm' = [shm EXCEPT !.region = Orphaned(@, {"hmi"})]
    /\ rd' = [rd EXCEPT !["hmi"] = IdleReader] /\ UNCHANGED <<cdrv, photo>>

-----------------------------------------------------------------------------
(* SharedFrameReader.  CameraFrameClient::Run opens it again and again and   *)
(* reads while it is available; TakePhoto opens it for one frame.            *)

Region(r) == shm.region[rd[r].region]
ReaderGoto(r, label) == rd' = [rd EXCEPT ![r].pc = label]

ReaderOpens(r) ==
    /\ rd[r].pc = "open" /\ Use(r) /\ shm.name # 0
    /\ r = "photo" => cdrv.pc = "up" /\ photo.final = "none"
    /\ shm.region[shm.name].sized /\ shm.region[shm.name].ready
    /\ rd' = [rd EXCEPT ![r] = [IdleReader EXCEPT !.pc = "check", !.region = shm.name]]
    /\ UNCHANGED <<shm, cdrv, photo>>

(* IsAvailable, the generation and the active slot.  A region that is not    *)
(* available any more is left, one without a frame is looked at again.       *)
ReaderChecks(r) ==
    /\ rd[r].pc = "check"
    /\ IF ~Region(r).ready \/ (r = "photo" /\ Region(r).gen = 0)
       THEN rd' = [rd EXCEPT ![r] = IdleReader]
       ELSE /\ Region(r).gen # 0
            /\ rd' = [rd EXCEPT ![r].pc = "lock", ![r].slot = Region(r).active]
    /\ UNCHANGED <<shm, cdrv, photo>>

(* LockSlot; an interrupted write is cleared and reported as an error.       *)
ReaderLocksAny(r) ==
    /\ rd[r].pc = "lock" /\ LockOf(rd[r].region, rd[r].slot) \in {"free", "dead"}
    /\ shm' = [shm EXCEPT !.region[rd[r].region].slot[rd[r].slot].lock = r]
    /\ ReaderGoto(r, "copy") /\ UNCHANGED <<cdrv, photo>>

ReaderLocks(r) ==
    /\ rd[r].pc = "lock" /\ LockOf(rd[r].region, rd[r].slot) = "free"
    /\ shm' = [shm EXCEPT !.region[rd[r].region].slot[rd[r].slot].lock = r]
    /\ ReaderGoto(r, "copy") /\ UNCHANGED <<cdrv, photo>>

Again(r) == IF r = "photo" THEN "open" ELSE "check"
ReaderRecovers(r) ==
    /\ rd[r].pc = "lock" /\ LockOf(rd[r].region, rd[r].slot) = "dead"
    /\ shm' = [shm EXCEPT !.region[rd[r].region].slot[rd[r].slot] = EmptySlot]
    /\ ReaderGoto(r, Again(r)) /\ UNCHANGED <<cdrv, photo>>

ReaderCopies(r) ==
    /\ rd[r].pc = "copy"
    /\ LET s == Region(r).slot[rd[r].slot]
       IN  rd' = [rd EXCEPT ![r].pc = "deliver", ![r].head = s.head, ![r].data = s.data]
    /\ shm' = [shm EXCEPT !.region[rd[r].region].slot[rd[r].slot].lock = "free"]
    /\ UNCHANGED <<cdrv, photo>>

(* PostFrame, for a frame that is valid and of another generation than the   *)
(* last one shown.                                                           *)
HmiShows ==
    /\ rd["hmi"].pc = "deliver"
    /\ rd' = [rd EXCEPT !["hmi"] = [IdleReader EXCEPT !.pc = "check", !.region = rd["hmi"].region]]
    /\ UNCHANGED <<shm, cdrv, photo>>

-----------------------------------------------------------------------------
(* CameraPhotoService::TakePhoto and JpegEncoder::Encode: a temporary file,  *)
(* its sync, a link under the final name, which must be new.                 *)

PhotoEncodes ==
    /\ rd["photo"].pc = "deliver"
    /\ IF rd["photo"].data = 0 THEN rd' = [rd EXCEPT !["photo"] = IdleReader] /\ UNCHANGED photo
       ELSE /\ ReaderGoto("photo", "sync") /\ photo' = [photo EXCEPT !.temp = "written"]
    /\ UNCHANGED <<shm, cdrv>>

PhotoSyncs ==
    /\ rd["photo"].pc = "sync" /\ ReaderGoto("photo", "link")
    /\ photo' = [photo EXCEPT !.temp = "synced"] /\ UNCHANGED <<shm, cdrv>>

PhotoLinks ==
    /\ rd["photo"].pc = "link"
    /\ photo' = [final |-> IF photo.final = "none" THEN photo.temp ELSE photo.final,
                 temp |-> "none"]
    /\ rd' = [rd EXCEPT !["photo"] = IdleReader] /\ UNCHANGED <<shm, cdrv>>

(* The pipeline, the sync or the link fails; the temporary file is removed.  *)
PhotoFails ==
    /\ rd["photo"].pc \in {"sync", "link"}
    /\ photo' = [photo EXCEPT !.temp = "none"]
    /\ rd' = [rd EXCEPT !["photo"] = IdleReader] /\ UNCHANGED <<shm, cdrv>>

Writer ==
    CreateRegion \/ SizeRegion \/ RecoverStale \/ InitRegion \/ PublishBegins \/ PublishLocks
    \/ PublishHead \/ PublishData \/ PublishActive \/ PublishCount
Reader(r) ==
    ReaderOpens(r) \/ ReaderChecks(r) \/ ReaderLocks(r) \/ ReaderRecovers(r) \/ ReaderCopies(r)
Hmi == Reader("hmi") \/ HmiShows
Photo == Reader("photo") \/ PhotoEncodes \/ PhotoSyncs \/ PhotoLinks \/ PhotoFails

SharedNext == WriterStarts \/ Writer \/ WriterCloses \/ DriverDies \/ HmiDies \/ Hmi \/ Photo

(* Navigator restarts the driver, threads run.                               *)
SharedFairness == WF_sharedVars(WriterStarts) /\ WF_sharedVars(Writer)
                  /\ WF_sharedVars(Hmi) /\ WF_sharedVars(Photo)

-----------------------------------------------------------------------------
(* Whoever dies where: what a reader takes for a frame has the header and    *)
(* the payload of one and the same frame, and what is under a photo's name   *)
(* was synced before (the robust slot locks, the link at the end).           *)
NoTornFrame ==
    /\ \A r \in Readers : rd[r].data # 0 => rd[r].head = rd[r].data
    /\ photo.final \in {"none", "synced"}

(* The HMI follows the driver into its new region, also when the old driver  *)
(* died without marking its region unavailable (the next one does).          *)
HmiFollowsDriver ==
    \A g \in 1 .. MaxRegions :
        (Use("hmi") /\ cdrv.region = g /\ cdrv.pc = "up") ~> (rd["hmi"].region = g \/ cdrv.region # g)
=============================================================================
