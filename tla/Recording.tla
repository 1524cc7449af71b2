------------------------------ MODULE Recording ------------------------------
(***************************************************************************)
(* spider/recording: a session is written under a hidden name, completed   *)
(* by syncs, a manifest, a marker and a rename, and found again by the     *)
(* catalog.  mutex_ of RecordingSession is held through a whole Start,     *)
(* Append or Stop; the catalog, under a mutex of its own, looks at the     *)
(* directories and removes them, file by file, without it.  The process    *)
(* can die between any two steps of a Stop, of a removal or of a recovery, *)
(* and with the power goes whatever was not synced.                        *)
(***************************************************************************)
EXTENDS Naturals, Sequences, FiniteSets, FiniteSetsExt, Scene

CONSTANTS
    MaxSessions,     \* bound: sessions started
    MaxLines,        \* bound: lines in one session
    MaxRuns,         \* bound: starts of the process
    SessionBytes,    \* limits_.max_session_bytes, in lines
    TotalBytes,      \* retention max_total_bytes, in lines
    KeepSessions     \* retention max_sessions

ASSUME RecordingAssumption ==
    /\ MaxSessions \in Nat \ {0} /\ MaxRuns \in Nat \ {0} /\ SessionBytes \in 1 .. TotalBytes /\ KeepSessions \in Nat \ {0}

(* disk: each session: its name, the lines of its files, how many of them    *)
(*      reached the kernel and the disk, artifacts, manifest with its count, *)
(*      the two markers, what a power loss can still take away, and what a   *)
(*      removal took: files, and in the end the directory.                   *)
(* rec: the session in memory: state, id, messages, bytes; stop: where Stop  *)
(*      is, who called it; starter: where a Start is.                        *)
(* cat: the catalog's entries: session and the name it was found under;      *)
(* erase: who holds the catalog's mutex, for the entry it removes, and       *)
(*      whether the directory of that name was there to be opened.           *)
(* svc: the process, the directory it recovers; power: ghost, a power loss   *)
(*      happened.                                                            *)
VARIABLES disk, rec, cat, erase, svc

recordingVars == <<disk, rec, cat, erase, svc>>
Sessions == 1 .. MaxSessions

NoSession == [name |-> "none", lines |-> << >>, cached |-> 0, synced |-> 0, arts |-> {},
              manifest |-> "none", count |-> 0, complete |-> FALSE, interrupted |-> FALSE,
              dirty |-> {}, erased |-> {}]
IdleSession == [state |-> "idle", id |-> 0, bytes |-> 0, existing |-> 0, seen |-> 0,
                stop |-> "none", starter |-> "none"]
NoErase == [by |-> "none", target |-> {}, open |-> FALSE]

RecordingInit ==
    /\ disk = [s \in Sessions |-> NoSession]
    /\ rec = IdleSession /\ cat = {} /\ erase = NoErase
    /\ svc = [phase |-> "off", at |-> 0, used |-> 0, power |-> FALSE, lives |-> 0]

Up == svc.phase = "up"
Held == rec.stop \notin {"none", "refresh", "prune"}       \* Stop holds mutex_
Own == disk[rec.id]
There(d) == d.name # "none" /\ "dir" \notin d.erased
Has(d, file) == file \notin d.erased
SetFault(r) == [r EXCEPT !.state = "faulted"]

-----------------------------------------------------------------------------
(* RecordingRuntime::Start: RecoverInterrupted, one directory after another: *)
(* the marker, the rename, the sync of the directory above; then the catalog.*)

RuntimeBegins ==
    /\ Use("record") /\ svc.phase = "off" /\ svc.lives < MaxRuns
    /\ svc' = [svc EXCEPT !.phase = "recover", !.lives = @ + 1]
    /\ UNCHANGED <<disk, rec, cat, erase>>

Hidden(s) == disk[s].name = "temp" /\ There(disk[s])
Recovers(from, s, to) ==
    /\ svc.phase = from /\ svc' = [svc EXCEPT !.phase = to, !.at = s]
    /\ UNCHANGED <<rec, cat, erase>>

RecoverMarks(s) ==
    /\ Recovers("recover", s, "rename") /\ Hidden(s)
    /\ disk' = [disk EXCEPT ![s].interrupted = TRUE, ![s].dirty = @ \cup {"mark"},
                            ![s].erased = @ \ {"mark"}]

RecoverRenames(s) ==
    /\ Recovers("rename", s, "sync") /\ svc.at = s
    /\ disk' = [disk EXCEPT ![s].name = "interrupted", ![s].dirty = @ \cup {"name"}]

(* The sync of sessions/: the names in it, and what is no longer in it.      *)
SyncParent ==
    disk' = [s \in Sessions |->
               IF There(disk[s]) THEN [disk[s] EXCEPT !.dirty = @ \ {"name", "made"}] ELSE NoSession]
RecoverSyncs == Recovers("sync", 0, "recover") /\ SyncParent

(* The service goes up beside a recovery that has not ended.                 *)
UpTooEarly == Recovers("recover", 0, "refresh") /\ UNCHANGED disk
RecoverEnds ==
    /\ \A s \in Sessions : ~Hidden(s)
    /\ Recovers("recover", 0, "refresh") /\ UNCHANGED disk

(* A marker, a rename or the sync fails: it is logged, the service goes on.  *)
RecoverFails ==
    /\ Use("io") /\ (svc.phase # "recover" \/ \E s \in Sessions : Hidden(s))
    /\ \E from \in {"recover", "rename", "sync"} : Recovers(from, 0, "refresh")
    /\ UNCHANGED disk

-----------------------------------------------------------------------------
(* RecordingCatalog.  A directory with one of the markers is managed,        *)
(* whatever its name.  Refresh, Prune and Delete each hold the catalog's     *)
(* mutex to their end; RefreshAndPrune lets go of it in between.             *)

Managed(d) ==
    There(d) /\ ((d.complete /\ Has(d, "complete")) \/ (d.interrupted /\ Has(d, "mark")))
SizeOnDisk(d) ==
    (IF Has(d, "log") THEN d.cached ELSE 0) + (IF Has(d, "art") THEN Cardinality(d.arts) ELSE 0) + 1
ReadSession(s) ==
    LET d == disk[s]
    IN  [id |-> s, at |-> d.name, size |-> SizeOnDisk(d),
         state |-> IF d.manifest \in {"none", "torn"} \/ ~Has(d, "manifest") THEN "corrupted"
                   ELSE IF d.interrupted /\ Has(d, "mark") THEN "interrupted" ELSE d.manifest]
Refreshed == {ReadSession(s) : s \in {x \in Sessions : Managed(disk[x])}}

(* Entries are sorted by their start, an unreadable one counts as oldest.    *)
Age(e) == IF e.state = "corrupted" THEN 0 ELSE e.id
Oldest(entries) == CHOOSE e \in entries : \A f \in entries : Age(e) <= Age(f)
SizeOf(entries) == FoldSet(LAMBDA e, n : e.size + n, 0, entries)
OverLimit(entries) == Cardinality(entries) > KeepSessions \/ SizeOf(entries) > TotalBytes

(* Who refreshes and prunes: the runtime's Initialize, a Start, a Stop; the  *)
(* RPC Prune only prunes.                                                    *)
Reached(who, place) ==
    \/ who = "up" /\ svc.phase = place
    \/ who = "start" /\ Up /\ rec.starter = place
    \/ who = "stop" /\ Up /\ rec.stop = place
    \/ who = "rpc" /\ place = "prune" /\ erase.by = "rpc"
Goes(who, place) ==
    /\ svc' = IF who = "up" THEN [svc EXCEPT !.phase = place] ELSE svc
    /\ rec' = CASE who = "start" -> [rec EXCEPT !.starter = place]
                [] who = "stop" -> [rec EXCEPT !.stop = place]
                [] OTHER -> rec
Callers == {"up", "start", "stop", "rpc"}
Pruned(who) == CASE who = "up" -> "up" [] who = "start" -> "total" [] OTHER -> "none"
FailsTo(who) == IF who = "up" THEN "off" ELSE "none"

CatalogRefreshes(who) ==
    /\ Reached(who, "refresh") /\ erase.by = "none"
    /\ cat' = Refreshed /\ Goes(who, "prune") /\ UNCHANGED <<disk, erase>>

(* remove_all opens the directory that has the entry's name, if it is still  *)
(* there.                                                                    *)
Opens(who, e) ==
    erase' = [by |-> who, target |-> {e},
              open |-> There(disk[e.id]) /\ disk[e.id].name = e.at]

PruneTakes(who) ==
    /\ Reached(who, "prune") /\ erase.by \in {"none", who} /\ erase.target = {} /\ OverLimit(cat)
    /\ Opens(who, Oldest(cat)) /\ UNCHANGED <<disk, rec, cat, svc>>
PruneAsked ==
    /\ Use("delete") /\ Up /\ erase.by = "none" /\ OverLimit(cat)
    /\ Opens("rpc", Oldest(cat)) /\ UNCHANGED <<disk, rec, cat, svc>>
PruneEnds(who) ==
    /\ Reached(who, "prune") /\ erase.by \in {"none", who} /\ erase.target = {} /\ ~OverLimit(cat)
    /\ Goes(who, Pruned(who)) /\ erase' = NoErase /\ UNCHANGED <<disk, cat>>

(* Its files go one by one, in any order.  A rename meanwhile does not stop  *)
(* a library that holds the directory open, one that goes by paths finds     *)
(* nothing more.                                                             *)
FilesOf(d) ==
    {"log", "manifest"} \cup (IF d.arts = {} THEN {} ELSE {"art"})
      \cup (IF d.complete THEN {"complete"} ELSE {}) \cup (IF d.interrupted THEN {"mark"} ELSE {})
Remaining(d) == FilesOf(d) \ d.erased
Takes(s, what) == disk' = [disk EXCEPT ![s].erased = @ \cup {what}]

ErasesFile(s) ==
    /\ erase.open /\ \E e \in erase.target : e.id = s
    /\ \E file \in Remaining(disk[s]) : Takes(s, file)
    /\ UNCHANGED <<rec, cat, erase, svc>>

(* The directory itself, under the name it had; the entry is dropped.        *)
ErasesLast(s) ==
    /\ \E e \in erase.target :
          /\ e.id = s
          /\ \/ erase.open /\ disk[s].name = e.at /\ Remaining(disk[s]) = {} /\ Takes(s, "dir")
             \/ (~erase.open \/ disk[s].name # e.at) /\ UNCHANGED disk
    /\ cat' = cat \ erase.target
    /\ erase' = IF erase.by = "delete" THEN NoErase ELSE [NoErase EXCEPT !.by = erase.by]
    /\ UNCHANGED <<rec, svc>>

(* A scan or a removal fails: the call fails with it, the runtime does not   *)
(* start.                                                                    *)
CatalogFails(who) ==
    /\ Use("io")
    /\ \/ Reached(who, "refresh") /\ erase.by = "none"
       \/ Reached(who, "prune") /\ erase.by = who
    /\ Goes(who, FailsTo(who)) /\ erase' = NoErase
    /\ cat' = IF who = "up" THEN {} ELSE cat
    /\ UNCHANGED disk

(* Delete, by an RPC: status() waits for mutex_.                             *)
Delete(e) ==
    /\ Use("delete") /\ Up /\ ~Held /\ erase.by = "none"
    /\ ~(rec.state = "recording" /\ rec.id = e.id)
    /\ Opens("delete", e) /\ UNCHANGED <<disk, rec, cat, svc>>
DeleteFails ==
    /\ Use("io") /\ erase.by = "delete" /\ erase' = NoErase /\ UNCHANGED <<disk, rec, cat, svc>>

-----------------------------------------------------------------------------
(* RecordingService::Start: the catalog, then the session.                   *)

StartCalled ==
    /\ Use("record") /\ Up /\ rec.starter = "none" /\ (svc.used < MaxSessions \/ Held)
    /\ rec' = [rec EXCEPT !.starter = "refresh"] /\ UNCHANGED <<disk, cat, erase, svc>>

(* total_bytes(), after the prune has let go of the catalog.                 *)
StartReads ==
    /\ Reached("start", "total") /\ erase.by = "none"
    /\ rec' = [rec EXCEPT !.starter = "session", !.seen = SizeOf(cat)]
    /\ UNCHANGED <<disk, cat, erase, svc>>

SessionStarts ==
    /\ Up /\ rec.starter = "session" /\ ~Held /\ rec.state = "idle" /\ svc.used < MaxSessions
    /\ LET s == svc.used + 1
       IN  /\ disk' = [disk EXCEPT ![s] = [NoSession EXCEPT !.name = "temp",
                                              !.manifest = "recording", !.dirty = {"made"}]]
           /\ rec' = [IdleSession EXCEPT !.state = "recording", !.id = s,
                                         !.existing = rec.seen, !.stop = rec.stop]
    /\ svc' = [svc EXCEPT !.used = @ + 1] /\ UNCHANGED <<cat, erase>>

(* A file cannot be opened or the manifest not written.                      *)
SessionStartFails ==
    /\ Up /\ rec.starter = "session" /\ ~Held /\ rec.state = "idle" /\ Use("io")
    /\ svc.used < MaxSessions
    /\ LET s == svc.used + 1
       IN  /\ disk' = [disk EXCEPT ![s] = [NoSession EXCEPT !.name = "temp", !.manifest = "torn",
                                              !.dirty = {"made"}]]
           /\ rec' = [IdleSession EXCEPT !.state = "faulted", !.id = s, !.stop = rec.stop]
    /\ svc' = [svc EXCEPT !.used = @ + 1] /\ UNCHANGED <<cat, erase>>

SessionStartRefused ==
    /\ Up /\ rec.starter = "session" /\ ~Held
    /\ rec.state # "idle" \/ svc.used = MaxSessions
    /\ rec' = [rec EXCEPT !.starter = "none"] /\ UNCHANGED <<disk, cat, erase, svc>>

-----------------------------------------------------------------------------
(* Append, AppendEvent, AppendDataFile.                                      *)

(* EnsureCapacity; what the catalog held at the start is existing_bytes_.    *)
Room(n) ==
    /\ rec.bytes <= SessionBytes /\ n <= SessionBytes - rec.bytes
    /\ rec.existing <= TotalBytes /\ rec.bytes + n <= TotalBytes - rec.existing

Recording == Up /\ rec.state = "recording" /\ ~Held

AppendLine ==
    /\ Recording /\ Use("line") /\ Len(Own.lines) < MaxLines /\ Room(1)
    /\ disk' = [disk EXCEPT ![rec.id].lines = Append(@, "line"), ![rec.id].dirty = @ \cup {"log"}]
    /\ rec' = [rec EXCEPT !.bytes = @ + 1] /\ UNCHANGED <<cat, erase, svc>>

(* CopyDataFile, then the index line; the copy is synced, its directory is   *)
(* not.  The copy stays when the line does not fit any more.                 *)
AppendDataFile ==
    /\ Recording /\ Use("artifact") /\ Len(Own.lines) < MaxLines /\ Room(1)
    /\ disk' = [disk EXCEPT ![rec.id] =
                  [Own EXCEPT !.arts = @ \cup {Len(Own.lines) + 1},
                              !.lines = IF Room(2) THEN Append(@, "file") ELSE @,
                              !.dirty = @ \cup {"log", "art"}]]
    /\ rec' = IF Room(2) THEN [rec EXCEPT !.bytes = @ + 2] ELSE SetFault([rec EXCEPT !.bytes = @ + 1])
    /\ UNCHANGED <<cat, erase, svc>>

(* The limits, the free space of the file system or a stream fail.           *)
AppendFails ==
    /\ Recording /\ (~Room(1) \/ Use("io"))
    /\ rec' = SetFault(rec) /\ UNCHANGED <<disk, cat, erase, svc>>

(* Every tenth line, or when the stream's buffer is full.                    *)
Flush ==
    /\ Recording /\ Own.cached < Len(Own.lines)
    /\ disk' = [disk EXCEPT ![rec.id].cached = Len(Own.lines)] /\ UNCHANGED <<rec, cat, erase, svc>>

-----------------------------------------------------------------------------
(* Stop, by an RPC or by RecordingRuntime::Stop.                             *)

StopStep(from, to) == Up /\ rec.stop = from /\ rec' = [rec EXCEPT !.stop = to] /\ UNCHANGED <<cat, erase, svc>>
Dirt(s, new, gone) == [disk EXCEPT ![s].dirty = (@ \cup new) \ gone]

StopCalled ==
    /\ Use("record") /\ ~Held /\ rec.state = "recording" /\ StopStep("none", "close")
    /\ UNCHANGED disk

(* A faulted session is only closed: its directory waits for the next start. *)
StopFaulted ==
    /\ Up /\ Use("record") /\ ~Held /\ rec.state = "faulted" /\ Own.cached < Len(Own.lines)
    /\ disk' = [disk EXCEPT ![rec.id].cached = Len(Own.lines)] /\ UNCHANGED <<rec, cat, erase, svc>>

StopCloses ==
    /\ StopStep("close", "sync")
    /\ disk' = [disk EXCEPT ![rec.id].cached = Len(Own.lines)]

SkipSync == StopStep("sync", "manifest") /\ UNCHANGED disk
StopSyncs ==
    /\ StopStep("sync", "manifest")
    /\ disk' = [Dirt(rec.id, {}, {"log"}) EXCEPT ![rec.id].synced = Len(Own.lines)]

StopManifest ==
    /\ StopStep("manifest", "fsync")
    /\ disk' = [disk EXCEPT ![rec.id].manifest = "complete", ![rec.id].count = Len(Own.lines),
                            ![rec.id].dirty = @ \cup {"manifest"}]
StopManifestSync ==
    /\ StopStep("fsync", "marker") /\ disk' = Dirt(rec.id, {}, {"manifest"})

StopMarker ==
    /\ StopStep("marker", "dir") /\ disk' = [Dirt(rec.id, {"complete"}, {}) EXCEPT ![rec.id].complete = TRUE]

StopDir == StopStep("dir", "rename") /\ disk' = Dirt(rec.id, {}, {"complete"})

(* rename; it throws when a prune has removed the directory in between.      *)
StopRenames ==
    /\ Up /\ rec.stop = "rename" /\ UNCHANGED <<cat, erase, svc>>
    /\ IF Hidden(rec.id)
       THEN /\ rec' = [rec EXCEPT !.stop = "parent"]
            /\ disk' = [Dirt(rec.id, {"name"}, {}) EXCEPT ![rec.id].name = "final"]
       ELSE rec' = SetFault([rec EXCEPT !.stop = "none"]) /\ UNCHANGED disk

StopFinishes ==
    /\ Up /\ rec.stop = "parent"
    /\ rec' = [rec EXCEPT !.stop = "refresh", !.state = "idle"]
    /\ SyncParent /\ UNCHANGED <<cat, erase, svc>>

StopFails ==
    /\ Up /\ Use("io") /\ Held
    /\ rec' = SetFault([rec EXCEPT !.stop = "none"]) /\ UNCHANGED <<disk, cat, erase, svc>>

-----------------------------------------------------------------------------
(* The process dies; what streams held is gone.                              *)
Died(d) == [s \in Sessions |-> [d[s] EXCEPT !.lines = SubSeq(@, 1, d[s].cached)]]
Dies ==
    /\ svc.phase # "off" /\ svc.lives < MaxRuns
    /\ rec' = IdleSession /\ cat' = {} /\ erase' = NoErase
ProcessDies ==
    /\ Use("crash") /\ Dies
    /\ disk' = Died(disk) /\ svc' = [svc EXCEPT !.phase = "off", !.at = 0]

(* With the power, any part of what was not synced goes too, and any of the  *)
(* files a removal took may be back, when the directory is.                  *)
Lost(d, gone, back) ==
    IF "made" \in gone \/ "dir" \in d.erased \ back THEN NoSession
    ELSE [d EXCEPT
            !.name = IF "name" \in gone THEN "temp" ELSE @,
            !.cached = IF "log" \in gone THEN d.synced ELSE @,
            !.lines = SubSeq(@, 1, IF "log" \in gone THEN d.synced ELSE d.cached),
            !.arts = IF "art" \in gone THEN {} ELSE @,
            !.manifest = IF "manifest" \in gone THEN "torn" ELSE @,
            !.complete = @ /\ "complete" \notin gone,
            !.interrupted = @ /\ "mark" \notin gone,
            !.dirty = {}, !.erased = @ \ back]
Parts == {"made", "name", "dir", "log", "art", "manifest", "complete", "mark"}
Of(s, pairs) == {part \in Parts : <<s, part>> \in pairs}
PowerLoss ==
    /\ Use("power") /\ Dies
    /\ \E gone \in SUBSET UNION {{s} \X disk[s].dirty : s \in Sessions},
          back \in SUBSET UNION {{s} \X disk[s].erased : s \in Sessions} :
             disk' = [s \in Sessions |-> Lost(disk[s], Of(s, gone), Of(s, back))]
    /\ svc' = [svc EXCEPT !.phase = "off", !.at = 0, !.power = TRUE]

Catalog ==
    \/ \E who \in Callers : CatalogRefreshes(who) \/ PruneTakes(who) \/ PruneEnds(who)
    \/ \E s \in Sessions : ErasesFile(s) \/ ErasesLast(s)
Recorder ==
    \/ \E s \in Sessions : RecoverMarks(s) \/ RecoverRenames(s)
    \/ RecoverSyncs \/ RecoverEnds \/ Catalog
    \/ StartReads \/ SessionStarts \/ SessionStartRefused
    \/ StopCloses \/ StopSyncs \/ StopManifest \/ StopManifestSync \/ StopMarker \/ StopDir
    \/ StopRenames \/ StopFinishes

RecordingNext ==
    \/ RuntimeBegins \/ RecoverFails \/ Recorder \/ StartCalled \/ SessionStartFails
    \/ AppendLine \/ AppendDataFile \/ AppendFails \/ Flush
    \/ StopCalled \/ StopFaulted \/ StopFails \/ DeleteFails
    \/ \E who \in Callers : CatalogFails(who)
    \/ PruneAsked \/ \E e \in cat : Delete(e)
    \/ ProcessDies \/ PowerLoss

RecordingFairness == WF_recordingVars(RuntimeBegins) /\ WF_recordingVars(Recorder)

-----------------------------------------------------------------------------
(* GetReport: the timeline reads every line the manifest counts, the         *)
(* verifier finds the artifact of every index line.                          *)
TimelineWhole(s) == disk[s].cached = disk[s].count
Verified(s) == \A i \in 1 .. disk[s].cached : disk[s].lines[i] = "file" => i \in disk[s].arts

(* Wherever a Stop, a recovery, a removal, the process or the power stops:   *)
(* what stands under a session's final name, and of which no removal took a  *)
(* file, is complete, with the lines its manifest counts; and without a      *)
(* power loss its report is healthy (Stop's order of syncs, marker and       *)
(* rename, RecordingCatalog's remove_all).  Of a recording that a removal    *)
(* began with nothing is promised: what is left when the removal is cut      *)
(* short may have a report that is healthy with lines missing, or no marker, *)
(* and then no later start finds it.                                         *)
CompleteIsWhole ==
    \A s \in Sessions :
        disk[s].name = "final" /\ disk[s].erased = {} =>
            /\ disk[s].complete /\ disk[s].manifest = "complete" /\ TimelineWhole(s)
            /\ ~svc.power => Verified(s)

(* A recording does not stay behind under its hidden name: it is the one the *)
(* process is writing, or, wherever the process died, also while recovering  *)
(* or while removing it, a later start renames it; and but for a power loss  *)
(* or a removal it has its marker, so that the catalog can show or prune it  *)
(* (RecoverInterrupted before the service).                                  *)
InterruptedIsFound ==
    []<>(Use("io") \/ \A s \in Sessions :
            /\ Hidden(s) => Up /\ rec.id = s
            /\ disk[s].name = "interrupted" /\ disk[s].erased = {} =>
                  svc.power \/ Managed(disk[s]))
=============================================================================
