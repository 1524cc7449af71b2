----------------------------- MODULE TuningTool -----------------------------
(***************************************************************************)
(* tools/camera-ctl tuning: the command that tries settings on a native    *)
(* session of its own, frame by frame, and keeps them in a profile file;   *)
(* and tuning-service, which sends such a file to the camera service.  The *)
(* daemon runs one request at a time and frames of an older request come   *)
(* first.  Power may fail between any two system calls of a save.          *)
(***************************************************************************)
EXTENDS NativeCamera

CONSTANTS
    PhaseFrames,     \* frames of the new revision a phase waits for (--frames)
    PhaseSlack,      \* frames of other revisions it puts up with (30)
    MaxCommands,     \* bound: invocations of the command
    MaxCycles        \* bound: --cycles

ASSUME ToolAssumption ==
    PhaseFrames \in Nat \ {0} /\ PhaseSlack \in Nat /\ MaxCycles \in Nat

(* tool:  place, action, the steps of a cycle and those still to do, cycles  *)
(*        left; the phase's counts; what the                                 *)
(*        report says of a rollback; verified: ghost, the session's settings *)
(*        were seen in frames.                                               *)
(* argus: the tool's session; sent: the requests the daemon took, in order,  *)
(*        from the one it last delivered; last: the last frame's request.    *)
(* file:  the profile: what its name shows, what of it a power failure       *)
(*        leaves, whether its data were synchronised before its name was;    *)
(*        the temporary file; promise: ghost, what was reported durable.     *)
VARIABLES tool, argus, file

toolVars == <<tool, argus, file>>

(* Settings: a name for what tolerances tell apart, and whether the SDK has  *)
(* rounded them.                                                             *)
Exactly(name) == <<name, FALSE>>
Readback(s) == {s, <<s[1], TRUE>>}
Near(s, t) == s[1] = t[1]
ValidateCameraTuning(s) == s[1] # "out of range"

(* Contents of the profile file.                                             *)
Nothing == [kind |-> "none", set |-> Exactly("default"), device |-> "this"]
Torn == [Nothing EXCEPT !.kind = "part"]
MakeTuningProfile(s) == [kind |-> "profile", set |-> s, device |-> "this"]
DecodeTuningProfile(c) == c.kind = "profile"
ValidateTuningProfileForDevice(c) ==
    DecodeTuningProfile(c) /\ c.device = "this" /\ ValidateCameraTuning(c.set)

Kept == MakeTuningProfile(Exactly("kept"))
KeptProfiles ==
    {Kept} \cup {c \in {Nothing, [Kept EXCEPT !.device = "another sensor"],
                       MakeTuningProfile(Exactly("out of range"))} : Use("profile")}

NoSession == [open |-> FALSE, revision |-> 0, next |-> 0, requested |-> Exactly("default"),
              accepted |-> Exactly("default"), fault |-> FALSE, sent |-> << >>,
              last |-> [revision |-> 0, set |-> Exactly("default")]]

ToolInit ==
    /\ tool = [at |-> "off", action |-> "none", plan |-> << >>, todo |-> << >>, cycles |-> 0,
               commands |-> 0, matched |-> 0, left |-> 0, verify |-> FALSE,
               before |-> Exactly("default"), rollback |-> "none", passed |-> FALSE,
               verified |-> FALSE]
    /\ argus = NoSession
    /\ \E c \in KeptProfiles :
         file = [name |-> c, disk |-> c, temp |-> Nothing, synced |-> FALSE,
                 whole |-> TRUE, promise |-> Nothing]

-----------------------------------------------------------------------------
(* What the actions of the command do after the warm-up.                     *)

Patch == <<"set", Exactly("patched")>>
Reset == <<"set", Exactly("default")>>
Look == <<"phase", Exactly("default")>>
VerifySteps ==
    << <<"set", Exactly("manual")>>, Look, Reset, Look, <<"set", Exactly("50hz")>>, Look,
       <<"set", Exactly("60hz")>>, Look, <<"set", Exactly("locked")>>, Look, Reset, Look,
       <<"refuse", Exactly("out of range")>> >>
Steps(action) ==
    CASE action = "get" -> << Look >>
      [] action = "set" -> << Patch, Look >>
      [] action = "reset" -> << Reset, Look >>
      [] action = "verify" -> VerifySteps
      [] action = "save" -> << Patch, Look, <<"save", Exactly("default")>> >>
      [] action = "save as is" -> << Look, <<"save", Exactly("default")>> >>
      [] action = "load" -> << <<"apply", file.name.set>>, Look >>

(* Parse reads the profile of a load before any hardware is opened.          *)
Parse(action) ==
    /\ Use("tool") /\ tool.at = "off" /\ tool.commands < MaxCommands
    /\ Use("again") \/ tool.commands = 0
    /\ action = "load" => DecodeTuningProfile(file.name)
    /\ \E n \in (IF Use("again") THEN {1} ELSE 1 .. MaxCycles) :
         tool' = [tool EXCEPT !.at = "start", !.action = action, !.plan = Steps(action),
                              !.cycles = n, !.commands = @ + 1, !.rollback = "none",
                              !.passed = FALSE]
    /\ UNCHANGED <<argus, file>>

(* NativeArgusCapture::Start, and the warm-up that follows.                  *)
OpenSession ==
    /\ tool.at = "start"
    /\ \E back \in Readback(Exactly("default")) :
         argus' = [FirstRequest(argus) EXCEPT
                       !.open = TRUE, !.requested = Exactly("default"), !.accepted = back,
                       !.sent = << [revision |-> 1, set |-> Exactly("default")] >>]
    /\ tool' = [tool EXCEPT !.at = "phase", !.todo = tool.plan, !.cycles = @ - 1,
                            !.matched = 0, !.left = PhaseFrames + PhaseSlack,
                            !.verify = FALSE, !.verified = FALSE]
    /\ UNCHANGED file

Failed(t) == [t EXCEPT !.at = "stop", !.todo = << >>, !.cycles = 0, !.passed = FALSE]

(* No camera, no such sensor mode, no memory for the pool.                   *)
OpenFails ==
    /\ tool.at = "start" /\ Use("daemon")
    /\ tool' = Failed(tool) /\ UNCHANGED <<argus, file>>

(* A verified load that fails goes back to the settings before it.           *)
PhaseFailed(t) ==
    IF t.action = "load" /\ t.verify /\ t.rollback = "none"
    THEN [t EXCEPT !.at = "do", !.todo = << <<"set", t.before>>, Look >>,
                   !.rollback = "attempted"]
    ELSE Failed(t)

-----------------------------------------------------------------------------
(* Phase: frames until enough of them carry the revision asked for; the last *)
(* of these is compared with the request.                                    *)

Frame(i) == argus.sent[i]
Convergence == IF Use("daemon") THEN BOOLEAN ELSE {TRUE}
PhaseStep(f, converged) ==
    LET matches == f.revision = argus.revision
        t == [tool EXCEPT !.matched = IF matches THEN @ + 1 ELSE @, !.left = @ - 1]
        seen == converged /\ Near(f.set, argus.requested)
    IN  IF t.matched = PhaseFrames
        THEN IF t.verify /\ ~seen THEN PhaseFailed(t)
             ELSE [t EXCEPT !.at = "do", !.verified = t.verify,
                            !.rollback = IF @ = "attempted" THEN "succeeded" ELSE @]
        ELSE IF t.left = 0 THEN PhaseFailed(t) ELSE t

AcquireFrame ==
    /\ tool.at = "phase" /\ ~argus.fault
    /\ \E i \in DOMAIN argus.sent, converged \in Convergence :
         /\ argus' = [argus EXCEPT !.sent = SubSeq(@, i, Len(@)), !.last = Frame(i)]
         /\ tool' = PhaseStep(Frame(i), converged)
    /\ UNCHANGED file

(* No frame in three seconds, or the session is faulted.                     *)
AcquireRefused ==
    /\ tool.at = "phase" /\ (argus.fault \/ Use("daemon"))
    /\ tool' = PhaseFailed(tool) /\ UNCHANGED <<argus, file>>

-----------------------------------------------------------------------------
(* Session::SetTuning for the tool.  A refused request may have reached the  *)
(* daemon before the old one was repeated.                                   *)

Running == [revision |-> argus.revision, set |-> argus.requested]
Accepted(s, back) ==
    [argus EXCEPT !.next = @ + 1, !.revision = argus.next, !.requested = s, !.accepted = back,
                  !.sent = Append(@, [revision |-> argus.next, set |-> s])]
Refused(s) ==
    LET a == [argus EXCEPT !.next = @ + 1]
        tried == [revision |-> argus.next, set |-> s]
    IN  {a, [a EXCEPT !.fault = TRUE], [a EXCEPT !.sent = @ \o << tried, Running >>],
         [a EXCEPT !.sent = Append(@, tried), !.fault = TRUE]}

Step(kind) == tool.at = "do" /\ tool.todo # << >> /\ Head(tool.todo)[1] = kind
Rest == [tool EXCEPT !.todo = Tail(@)]
Changed == [Rest EXCEPT !.verified = FALSE]
Wanted == Head(tool.todo)[2]

TrySettings ==
    /\ Step("set")
    /\ IF ~ValidateCameraTuning(Wanted) \/ argus.fault
       THEN argus' = argus /\ tool' = Failed(tool)
       ELSE \/ \E back \in Readback(Wanted) : argus' = Accepted(Wanted, back) /\ tool' = Changed
            \/ Use("daemon") /\ argus' \in Refused(Wanted) /\ tool' = Failed(tool)
    /\ UNCHANGED file

(* LoadVerified: the profile must be for this device.                        *)
ApplyProfile ==
    /\ Step("apply")
    /\ LET c == [MakeTuningProfile(Wanted) EXCEPT !.device = file.name.device]
           t == [Changed EXCEPT !.before = argus.accepted]
       IN  IF ~ValidateTuningProfileForDevice(c)
           THEN argus' = argus /\ tool' = Failed(tool)
           ELSE \/ \E back \in Readback(Wanted) : argus' = Accepted(Wanted, back) /\ tool' = t
                \/ Use("daemon") /\ argus' \in Refused(Wanted) /\ tool' = Failed(tool)
    /\ UNCHANGED file

BeginPhase ==
    /\ Step("phase")
    /\ tool' = [Rest EXCEPT !.at = "phase", !.matched = 0, !.left = PhaseFrames + PhaseSlack,
                            !.verify = TRUE]
    /\ UNCHANGED <<argus, file>>

(* The last check of verify: settings out of range leave the revision alone. *)
RefusedKeepsRevision ==
    /\ Step("refuse") /\ ~ValidateCameraTuning(Wanted)
    /\ tool' = Rest /\ UNCHANGED <<argus, file>>

-----------------------------------------------------------------------------
(* SaveTuningProfile.  Before the rename a failure removes the temporary     *)
(* file; after it the profile is replaced, and durable once the directory    *)
(* is synchronised.                                                          *)

CreateTemporary ==
    /\ Step("save")
    /\ file' = [file EXCEPT !.temp = Torn, !.synced = FALSE]
    /\ tool' = [tool EXCEPT !.at = "write"] /\ UNCHANGED argus

WriteTemporary ==
    /\ tool.at = "write"
    /\ file' = [file EXCEPT !.temp = MakeTuningProfile(argus.accepted)]
    /\ tool' = [tool EXCEPT !.at = "sync"] /\ UNCHANGED argus

SyncTemporary ==
    /\ tool.at = "sync"
    /\ file' = [file EXCEPT !.synced = TRUE]
    /\ tool' = [tool EXCEPT !.at = "rename"] /\ UNCHANGED argus

RenameTemporary ==
    /\ tool.at = "rename"
    /\ file' = [file EXCEPT !.name = file.temp, !.whole = file.synced,
                            !.temp = Nothing, !.promise = Nothing]
    /\ tool' = [tool EXCEPT !.at = "dirsync"] /\ UNCHANGED argus

SyncDirectory ==
    /\ tool.at = "dirsync"
    /\ file' = [file EXCEPT !.disk = IF file.whole THEN file.name ELSE Torn,
                            !.promise = file.name]
    /\ tool' = [Rest EXCEPT !.at = "do"] /\ UNCHANGED argus

SaveFails ==
    /\ Use("disk") /\ tool.at \in {"write", "sync", "rename", "dirsync"}
    /\ file' = [file EXCEPT !.temp = Nothing]
    /\ tool' = Failed(tool) /\ UNCHANGED argus

(* What had not been synchronised may be there or not.                       *)
Survivors ==
    IF file.name = file.disk THEN {file.disk}
    ELSE {file.disk, file.name} \cup (IF file.whole THEN {} ELSE {Torn})
PowerFails ==
    /\ Use("power out") /\ tool.at \notin {"off", "start"}
    /\ \E c \in Survivors :
         file' = [file EXCEPT !.name = c, !.disk = c, !.temp = Nothing]
    /\ tool' = [tool EXCEPT !.at = "off", !.todo = << >>, !.cycles = 0, !.rollback = "none"]
    /\ argus' = NoSession

-----------------------------------------------------------------------------
(* The session is stopped after every cycle, a failed one included; the      *)
(* report passes when nothing failed and nothing was rolled back.            *)

CycleEnds ==
    /\ tool.at = "do" /\ tool.todo = << >>
    /\ tool' = [tool EXCEPT !.at = "stop", !.passed = tool.rollback = "none",
                            !.cycles = IF tool.rollback = "none" THEN @ ELSE 0]
    /\ UNCHANGED <<argus, file>>

CloseSession ==
    /\ tool.at = "stop"
    /\ argus' = NoSession
    /\ tool' = [tool EXCEPT !.at = IF tool.cycles > 0 THEN "start" ELSE "off"]
    /\ UNCHANGED file

(* tuning-service: get, then set, apply or reset with the session and the    *)
(* revision it printed.  The file goes over as it is; the service decodes it *)
(* and, for apply, holds it against the device.                              *)
ServiceGet(c) == GetTuning(c) /\ UNCHANGED toolVars
ServiceSet(c, o) == DecodeTuningProfile(file.name) /\ SetTuning(c, o) /\ UNCHANGED toolVars
ServiceApply(c, o) ==
    ValidateTuningProfileForDevice(file.name) /\ SetTuning(c, o) /\ UNCHANGED toolVars
ServiceReset(c, o) == SetTuning(c, o) /\ UNCHANGED toolVars

Outcomes == {"accepted", "refused", "broken"}
ToolStep ==
    \/ OpenSession \/ OpenFails \/ AcquireFrame \/ AcquireRefused \/ TrySettings \/ ApplyProfile
    \/ BeginPhase \/ RefusedKeepsRevision \/ CreateTemporary \/ WriteTemporary
    \/ SyncTemporary \/ RenameTemporary \/ SyncDirectory \/ SaveFails \/ CycleEnds
    \/ CloseSession

ToolNext ==
    \/ /\ \/ \E a \in {"get", "set", "reset", "verify", "save", "save as is", "load"} : Parse(a)
          \/ ToolStep \/ PowerFails
       /\ UNCHANGED nativeVars
    \/ \E c \in TuningClients : ServiceGet(c)
    \/ \E c \in TuningClients, o \in Outcomes :
         ServiceSet(c, o) \/ ServiceApply(c, o) \/ ServiceReset(c, o)

ToolFairness == WF_toolVars(ToolStep)

-----------------------------------------------------------------------------
(* Whoever reads the profile, also after a power failure in the middle of a  *)
(* save, finds a whole one or none; one that was reported durable is still   *)
(* there; and what a save leaves had been seen in frames of its own revision *)
(* (SaveTuningProfile's order of write, fsync, rename and fsync).            *)
ProfileIsWhole ==
    /\ file.name # Torn /\ file.disk # Torn
    /\ file.promise # Nothing =>
         file.name = file.promise /\ file.disk = file.promise
    /\ tool.at \in {"write", "sync", "rename", "dirsync"} => tool.verified

(* "previous settings restored" is said only when the last frame seen was    *)
(* taken with the settings from before the load, whatever requests the       *)
(* daemon still had under way (LoadVerified).                                *)
RollbackIsObserved ==
    tool.rollback = "succeeded" /\ tool.at # "off" =>
        Near(argus.last.set, tool.before) /\ argus.last.revision = argus.revision

(* A command ends.                                                           *)
ToolReturns == tool.at # "off" ~> tool.at = "off"
=============================================================================
