------------------------------ MODULE DataDir ------------------------------
(***************************************************************************)
(* The files of the data directory that the HTTP handlers, the ISO build   *)
(* and the deployments share: a preset (internal/config/store.go, and the  *)
(* same code in deploy/presets.go and craftapi/presets.go), the settings   *)
(* (config/settings.go, server/handlers.go) and the output folder of one   *)
(* build (job/runner.go, server/deploy_handlers.go).                       *)
(***************************************************************************)
EXTENDS Naturals

CONSTANTS
    Procs,     \* goroutines that serve requests or run a deployment
    MaxCalls,  \* bound: saves begun
    MaxFaults  \* bound: writes that fail, and restarts

ASSUME DataDirAssumption == {MaxCalls, MaxFaults} \subseteq Nat /\ 0 \notin Procs

VARIABLES
    file,    \* name -> what the file holds: None, Part while it is not whole, or a value
    caps,    \* KeepCompleted of the job and of the deployment manager
    mu,      \* Store.mu: the goroutine that holds it, 0 for none
    call,    \* what each goroutine is doing
    calls,   \* saves begun
    faults,
    overlap, \* two saves of the settings have been in progress at once
    build,   \* the worker's step
    spoilt,  \* the script has failed, or a file could not be copied to the output
    listed   \* the job is in the registry, and its configs/.jobs file exists

output == <<build, spoilt, listed>>
bounds == <<calls, faults>>
vars   == <<file, caps, mu, call, bounds, overlap, output>>

Temp  == [preset |-> "preset.tmp", settings |-> "settings.tmp"]
Names == DOMAIN Temp \cup {Temp[f] : f \in DOMAIN Temp} \cup {"stage", "iso", "conf"}

None  == 0
Part  == 1
Whole == 2

DefaultMaxHistory == 20

\* name: the file to save; val: a value, or what has been read; fd: the name of the file
\* that is open for writing.
NoCall == [pc |-> "idle", name |-> "none", val |-> None, fd |-> "none"]

\* LoadSettings: the default unless the file is there and whole.
Loaded == IF file["settings"] \in {None, Part} THEN DefaultMaxHistory ELSE file["settings"]

Init ==
    /\ file = [n \in Names |-> None]
    /\ caps = [job |-> DefaultMaxHistory, deploy |-> DefaultMaxHistory] /\ mu = 0
    /\ call = [p \in Procs |-> NoCall] /\ calls = 0 /\ faults = 0 /\ overlap = FALSE
    /\ build = "run" /\ spoilt = FALSE /\ listed = TRUE

At(p, pc)   == call[p].pc = pc
To(p, pc)   == call' = [call EXCEPT ![p].pc = pc]
End(p)      == call' = [call EXCEPT ![p] = NoCall]
Put(n, v)   == file' = [file EXCEPT ![n] = v]
Move(n, m)  == file' = [file EXCEPT ![m] = file[n], ![n] = None]
Fault       == faults < MaxFaults /\ faults' = faults + 1

-----------------------------------------------------------------------------
(* Store.Save and SaveSettings: a temporary file and a rename; only the store *)
(* has a mutex.                                                               *)

Saving(p) == call[p].name = "settings"

\* The next value that a form brings.
New == Whole + calls

Begin(p, f, v) ==
    /\ At(p, "idle") /\ calls < MaxCalls /\ calls' = calls + 1
    /\ call' = [call EXCEPT ![p] = [NoCall EXCEPT !.pc = "create", !.name = f, !.val = v]]

\* Mutant: without the mutex.
SavePresetUnlocked(p) ==
    /\ Begin(p, "preset", New)
    /\ UNCHANGED <<file, caps, mu, faults, overlap, output>>

\* Store.Save holds the mutex to its end.
SavePreset(p) ==
    /\ Begin(p, "preset", New) /\ mu = 0 /\ mu' = p
    /\ UNCHANGED <<file, caps, faults, overlap, output>>

\* handleAdminSettings: a form without a number saves the value it has loaded.
SaveSettings(p) ==
    /\ \E v \in {New, Loaded} : Begin(p, "settings", v)
    /\ overlap' = (overlap \/ \E q \in Procs : Saving(q))
    /\ UNCHANGED <<file, caps, mu, faults, output>>

\* os.WriteFile opens and truncates the temporary file ...
CreateTemp(p) ==
    /\ At(p, "create") /\ Put(Temp[call[p].name], Part)
    /\ call' = [call EXCEPT ![p].pc = "write", ![p].fd = Temp[call[p].name]]
    /\ UNCHANGED <<caps, mu, bounds, overlap, output>>

\* ... and writes it, under the name it has by now, if it has one.
WriteTemp(p) ==
    /\ At(p, "write")
    /\ IF call[p].fd = "gone" THEN UNCHANGED file ELSE Put(call[p].fd, call[p].val)
    /\ call' = [call EXCEPT ![p].pc = "rename", ![p].fd = "none"]
    /\ UNCHANGED <<caps, mu, bounds, overlap, output>>

Unlock(p) == mu' = IF mu = p THEN 0 ELSE mu

\* Mutant: the settings are applied although they have not been saved.
WriteFailsUnnoticed(p) ==
    /\ At(p, "write") /\ Fault /\ Unlock(p)
    /\ IF Saving(p) THEN call' = [call EXCEPT ![p].pc = "applyJob", ![p].fd = "none"] ELSE End(p)
    /\ UNCHANGED <<file, caps, calls, overlap, output>>

\* The disk is full: the temporary file stays as it is.
WriteFails(p) ==
    /\ At(p, "write") /\ Fault /\ End(p) /\ Unlock(p)
    /\ UNCHANGED <<file, caps, calls, overlap, output>>

\* The file that q has open after a file n has been renamed to m.
Followed(q, n, m) == CASE call[q].fd = n -> m [] call[q].fd = m -> "gone" [] OTHER -> call[q].fd

\* A settings request may find that another one has renamed the temporary file.
RenameTemp(p) ==
    /\ At(p, "rename") /\ Unlock(p)
    /\ LET f    == call[p].name
           temp == Temp[f]
           then == IF Saving(p) THEN [call[p] EXCEPT !.pc = "applyJob"] ELSE NoCall
       IN  IF file[temp] = None THEN End(p) /\ UNCHANGED file
           ELSE /\ Move(temp, f)
                /\ call' = [q \in Procs |-> IF q = p THEN then
                                            ELSE [call[q] EXCEPT !.fd = Followed(q, temp, f)]]
    /\ UNCHANGED <<caps, bounds, overlap, output>>

\* handleAdminSettings: JobManager.SetKeepCompleted, then DeployManager.SetKeepCompleted.
ApplyToJobs(p) ==
    /\ At(p, "applyJob") /\ To(p, "applyDeploy")
    /\ caps' = [caps EXCEPT !.job = call[p].val]
    /\ UNCHANGED <<file, mu, bounds, overlap, output>>

ApplyToDeployments(p) ==
    /\ At(p, "applyDeploy") /\ End(p)
    /\ caps' = [caps EXCEPT !.deploy = call[p].val]
    /\ UNCHANGED <<file, mu, bounds, overlap, output>>

\* Store.Delete takes no lock.
DeletePreset ==
    /\ file["preset"] # None /\ Put("preset", None)
    /\ UNCHANGED <<caps, mu, call, bounds, overlap, output>>

Save(p) ==
    \/ SavePreset(p) \/ SaveSettings(p) \/ CreateTemp(p) \/ WriteTemp(p) \/ WriteFails(p)
    \/ RenameTemp(p) \/ ApplyToJobs(p) \/ ApplyToDeployments(p)

-----------------------------------------------------------------------------
(* The worker of a job: its script, the collection of its outputs and the    *)
(* snapshot of its config.  The ISO stands for every file the script leaves. *)

others == <<caps, mu, call, calls, overlap>>

\* The script ends in its staging directory; a failing one leaves part of an ISO, or none.
ScriptEnds ==
    /\ build = "run" /\ build' = "collect"
    /\ \E left \in {None, Part, Whole} : Put("stage", left) /\ spoilt' = (left # Whole)
    /\ UNCHANGED <<others, faults, listed>>

\* collectOutputs moves a file by renaming it ...
CollectByRename ==
    /\ build = "collect" /\ build' = "mark"
    /\ IF file["stage"] = None THEN UNCHANGED file ELSE Move("stage", "iso")
    /\ UNCHANGED <<others, faults, spoilt, listed>>

\* ... or, across devices or when the folder has just been deleted, by copying it.
CollectByCopy ==
    /\ build = "collect" /\ file["stage"] # None /\ build' = "copy" /\ Put("iso", Part)
    /\ UNCHANGED <<others, faults, spoilt, listed>>

\* What is under a name when its file, deleted or not, has been written to the end.
Written(n, v) == IF file[n] = None THEN None ELSE v

\* The copy ends, and the staging directory goes.
CopyEnds ==
    /\ build = "copy" /\ build' = "mark"
    /\ file' = [file EXCEPT !["iso"] = Written("iso", file["stage"]), !["stage"] = None]
    /\ UNCHANGED <<others, faults, spoilt, listed>>

\* The error is logged, and the build goes on.
CopyFails ==
    /\ build = "copy" /\ Fault /\ build' = "mark" /\ Put("stage", None) /\ spoilt' = TRUE
    /\ UNCHANGED <<others, listed>>

\* markResult: from here on the job may be deleted.
MarkResult ==
    /\ build = "mark" /\ build' = "snapshot"
    /\ UNCHANGED <<file, others, faults, spoilt, listed>>

\* The copy of the config needs configs/.jobs/<id>.json.
SnapshotOpens ==
    /\ build = "snapshot"
    /\ IF listed THEN Put("conf", Part) /\ build' = "write" ELSE build' = "done" /\ UNCHANGED file
    /\ UNCHANGED <<others, faults, spoilt, listed>>

\* No error of it is looked at.
SnapshotFails ==
    /\ build = "write" /\ Fault /\ build' = "done"
    /\ UNCHANGED <<file, others, spoilt, listed>>

SnapshotWritten ==
    /\ build = "write" /\ build' = "done" /\ Put("conf", Written("conf", Whole))
    /\ UNCHANGED <<others, faults, spoilt, listed>>

\* handleDeleteOutputJob and handleDeleteOutputJobFile, one file at a time.
DeleteOutput(n) ==
    /\ file[n] # None /\ Put(n, None)
    /\ UNCHANGED <<others, faults, output>>

\* Manager.Delete or retention: a job with a verdict, and its configs/.jobs file.
DeleteJob ==
    /\ listed /\ build \in {"snapshot", "write", "done"} /\ listed' = FALSE
    /\ UNCHANGED <<file, others, faults, build, spoilt>>

Build ==
    \/ ScriptEnds \/ CollectByRename \/ CollectByCopy \/ CopyEnds \/ CopyFails \/ MarkResult
    \/ SnapshotOpens \/ SnapshotWritten \/ SnapshotFails

-----------------------------------------------------------------------------
(* A deployment from the output folder, and the import of the job's config.   *)

unchanged == <<file, caps, mu, bounds, overlap, output>>

\* Mutant: a folder without a config is listed.
ReadAnyConfig(p) ==
    /\ At(p, "idle") /\ To(p, "resolving")
    /\ UNCHANGED unchanged

\* loadOutputConfig, for listOutputs or resolveOutputNode: the config must be whole ...
ReadConfig(p) ==
    /\ At(p, "idle") /\ file["conf"] = Whole /\ To(p, "resolving")
    /\ UNCHANGED unchanged

\* ... and there must be an ISO.
FindISO(p) ==
    /\ At(p, "resolving") /\ IF file["iso"] = None THEN End(p) ELSE To(p, "resolved")
    /\ UNCHANGED unchanged

\* UploadISO of the deployment opens it much later, and reads all of it.
UploadISO(p) ==
    /\ At(p, "resolved")
    /\ IF file["iso"] = None THEN End(p)
       ELSE call' = [call EXCEPT ![p].pc = "uploaded", ![p].val = file["iso"]]
    /\ UNCHANGED unchanged

\* importJobConfig looks the job up; val: it has a path.
Import(p) ==
    /\ At(p, "idle")
    /\ call' = [call EXCEPT ![p] = [NoCall EXCEPT !.pc = "import", !.val = IF listed THEN Whole ELSE None]]
    /\ UNCHANGED unchanged

\* Mutant: a snapshot that cannot be parsed ends the import.
ReadSnapshotOnly(p) ==
    /\ At(p, "import")
    /\ IF file["conf"] = Whole THEN End(p)
       ELSE To(p, IF file["conf"] = Part \/ call[p].val = None THEN "notFound" ELSE "fallback")
    /\ UNCHANGED unchanged

\* The snapshot of the output folder comes first ...
ReadSnapshot(p) ==
    /\ At(p, "import")
    /\ IF file["conf"] = Whole THEN End(p)
       ELSE To(p, IF call[p].val = None THEN "notFound" ELSE "fallback")
    /\ UNCHANGED unchanged

\* ... and the job's own file second.
ReadJobConfig(p) ==
    /\ At(p, "fallback") /\ IF listed THEN End(p) ELSE To(p, "notFound")
    /\ UNCHANGED unchanged

Answered(p) == (At(p, "uploaded") \/ At(p, "notFound")) /\ End(p) /\ UNCHANGED unchanged

Reader(p) ==
    \/ ReadConfig(p) \/ FindISO(p) \/ UploadISO(p)
    \/ Import(p) \/ ReadSnapshot(p) \/ ReadJobConfig(p)
    \/ Answered(p)

\* The process dies and starts again: work/ is cleared, and main applies the settings it
\* loads to both managers.
Restart ==
    /\ Fault /\ Put("stage", None) /\ mu' = 0 /\ call' = [p \in Procs |-> NoCall]
    /\ caps' = [job |-> Loaded, deploy |-> Loaded]
    /\ build' = "done" /\ spoilt' = (spoilt \/ build = "copy")
    /\ UNCHANGED <<calls, overlap, listed>>

Next ==
    \/ \E p \in Procs : Save(p) \/ Reader(p)
    \/ Build \/ DeletePreset \/ DeleteJob \/ Restart
    \/ \E n \in {"iso", "conf"} : DeleteOutput(n)

Spec == Init /\ [][Next]_vars

-----------------------------------------------------------------------------
(* Store.Save: under its name a preset is whole at any time, whatever saves, deletions,  *)
(* full disks and crashes come together; so are the settings, unless two of their saves  *)
(* have overlapped, which share one temporary file and no mutex.                         *)
StoredIsWhole ==
    \A f \in DOMAIN Temp : (f = "settings" => ~overlap) => file[f] # Part

(* handleAdminSettings and main: with no request in progress both managers keep as many  *)
(* finished entries as the settings file says, or a restart would read, also after       *)
(* failed saves, unless two requests have overlapped.                                    *)
CapsAgree ==
    ~overlap /\ (\A p \in Procs : ~Saving(p)) => caps = [job |-> Loaded, deploy |-> Loaded]

(* loadOutputConfig: a deployment that has got its ISO into the library has uploaded a   *)
(* whole one, although it listed the folder at any moment of the build and files may     *)
(* have been deleted since; a failed script or collection excepted.                      *)
DeployedIsWhole ==
    \A p \in Procs : At(p, "uploaded") /\ ~spoilt => call[p].val = Whole

(* importJobConfig, "import keeps working even when the output folder was deleted": it   *)
(* finds no config only when the job has left the registry.                              *)
ImportFallsBack == \A p \in Procs : At(p, "notFound") => ~listed
=============================================================================
