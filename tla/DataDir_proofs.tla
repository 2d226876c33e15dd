--------------------------- MODULE DataDir_proofs ---------------------------
(***************************************************************************)
(* Proofs about DataDir, for any number of goroutines, saves and faults.   *)
(***************************************************************************)
EXTENDS DataDir, TLAPS

-----------------------------------------------------------------------------
(* Invariants *)

SavePcs == {"create", "write", "rename", "applyJob", "applyDeploy"}
ReadPcs == {"idle", "resolving", "resolved", "uploaded", "import", "fallback", "notFound"}

FileNames == {"preset", "preset.tmp", "settings", "settings.tmp", "stage", "iso", "conf"}

Calls == [pc : SavePcs \cup ReadPcs, name : {"none", "preset", "settings"}, val : Nat,
          fd : FileNames \cup {"none", "gone"}]

\* The types of all variables.
TypeOK ==
    /\ file \in [FileNames -> Nat]
    /\ caps \in [job : Nat, deploy : Nat]
    /\ mu \in Procs \cup {0}
    /\ call \in [Procs -> Calls]
    /\ calls \in Nat /\ faults \in Nat
    /\ overlap \in BOOLEAN /\ spoilt \in BOOLEAN /\ listed \in BOOLEAN
    /\ build \in {"run", "collect", "copy", "mark", "snapshot", "write", "done"}

-----------------------------------------------------------------------------
(* The saves. *)

\* A goroutine that is saving has the name of the file, and a value worth saving.
Named ==
    \A p \in Procs :
        /\ call[p].name # "none" <=> call[p].pc \in SavePcs
        /\ call[p].name # "none" => call[p].val \notin {None, Part}

\* The mutex is held from the first step of a preset save to its last.
Locked == \A p \in Procs : call[p].name = "preset" <=> mu = p

PresetPcs == \A p \in Procs : call[p].name = "preset" => call[p].pc \in {"create", "write", "rename"}

\* One goroutine at a time saves file f.
Alone(f) == f = "settings" => ~overlap
OneSaver ==
    \A f \in {"preset", "settings"} : Alone(f) =>
        \A p, q \in Procs : call[p].name = f /\ call[q].name = f => p = q

\* What its temporary file and its handle are meanwhile.
TempFile ==
    \A p \in Procs : call[p].name # "none" /\ Alone(call[p].name) =>
        /\ call[p].pc = "write" => call[p].fd = Temp[call[p].name]
        /\ call[p].pc = "rename" => file[Temp[call[p].name]] = call[p].val

\* Nobody else has a file open.
Handles ==
    \A p \in Procs :
        /\ call[p].pc # "write" => call[p].fd = "none"
        /\ call[p].name = "preset" /\ call[p].pc = "write" => call[p].fd = "preset.tmp"
        /\ call[p].name = "settings" => call[p].fd \in {"none", "settings.tmp", "settings", "gone"}

\* The managers follow the file, which a settings request changes before them.
Applied ==
    ~overlap =>
        /\ (\A p \in Procs : ~Saving(p)) => caps = [job |-> Loaded, deploy |-> Loaded]
        /\ \A p \in Procs : Saving(p) =>
               /\ call[p].pc \in {"create", "write", "rename"} => caps = [job |-> Loaded, deploy |-> Loaded]
               /\ call[p].pc = "applyJob" => Loaded = call[p].val
               /\ call[p].pc = "applyDeploy" => Loaded = call[p].val /\ caps.job = call[p].val

SaveInv ==
    /\ TypeOK /\ Named /\ Locked /\ PresetPcs /\ OneSaver /\ TempFile /\ Handles
    /\ StoredIsWhole /\ Applied

\* Where a step leaves every save alone, but may take the preset away.
Elsewhere ==
    /\ UNCHANGED <<mu, caps, overlap>>
    /\ \A n \in {"preset.tmp", "settings", "settings.tmp"} : file'[n] = file[n]
    /\ file'["preset"] \in {file["preset"], None}
    /\ \A p \in Procs : call'[p] # call[p] =>
           /\ call[p].name = "none" /\ call'[p].name = "none"
           /\ call'[p].pc \in ReadPcs /\ call'[p].fd = "none"

LEMMA NamesAre ==
    /\ Names = FileNames /\ DOMAIN Temp = {"preset", "settings"}
    /\ Temp["preset"] = "preset.tmp" /\ Temp["settings"] = "settings.tmp"
BY DEF Names, FileNames, Temp

LEMMA SaveInit == Init => SaveInv
<1> SUFFICES ASSUME Init PROVE SaveInv
    OBVIOUS
<1> USE NamesAre, DataDirAssumption DEF Init, None, Part, Whole, DefaultMaxHistory
<1>1. TypeOK
    BY DEF TypeOK, NoCall, Calls, SavePcs, ReadPcs
<1>2. Named /\ Locked /\ PresetPcs
    BY DEF Named, Locked, PresetPcs, NoCall, SavePcs
<1>3. OneSaver /\ TempFile /\ Handles
    BY DEF OneSaver, TempFile, Handles, NoCall
<1>4. StoredIsWhole
    BY DEF StoredIsWhole, FileNames
<1>5. Applied
    BY DEF Applied, Saving, NoCall, Loaded, FileNames
<1> QED
    BY <1>1, <1>2, <1>3, <1>4, <1>5 DEF SaveInv

LEMMA SaveElsewhere == SaveInv /\ TypeOK' /\ Elsewhere => SaveInv'
<1> SUFFICES ASSUME SaveInv, TypeOK', Elsewhere PROVE SaveInv'
    OBVIOUS
<1> USE NamesAre DEF SaveInv, Elsewhere
<1>1. (Named /\ Locked /\ PresetPcs)'
    BY DEF Named, Locked, PresetPcs, SavePcs, ReadPcs
<1>2. OneSaver'
    BY DEF OneSaver, Alone
<1>3. TempFile'
  <2> SUFFICES ASSUME NEW p \in Procs, call'[p].name # "none",
                      call'[p].name = "settings" => ~overlap'
               PROVE  /\ call'[p].pc = "write" => call'[p].fd = Temp[call'[p].name]
                      /\ call'[p].pc = "rename" => file'[Temp[call'[p].name]] = call'[p].val
    BY DEF TempFile, Alone
  <2>1. call'[p] = call[p]
    OBVIOUS
  <2>2. call[p].name \in {"preset", "settings"}
    BY <2>1 DEF TypeOK, Calls
  <2>3. file'[Temp[call[p].name]] = file[Temp[call[p].name]]
    BY <2>2
  <2> QED
    BY <2>1, <2>2, <2>3 DEF TempFile, Alone
<1>4. Handles'
    BY DEF Handles, ReadPcs
<1>5. StoredIsWhole'
    BY DEF StoredIsWhole, None, Part
<1>6. Applied'
    BY DEF Applied, Saving, Loaded
<1> QED
    BY <1>1, <1>2, <1>3, <1>4, <1>5, <1>6

-----------------------------------------------------------------------------
(* Types *)

\* What a goroutine that is saving has in its hands.
LEMMA SaverTypes ==
    ASSUME TypeOK, Named, NEW p \in Procs, call[p].pc \in SavePcs
    PROVE  /\ call[p].name \in {"preset", "settings"} /\ call[p].val \in Nat \ {None, Part}
           /\ Temp[call[p].name] \in FileNames
BY NamesAre DEF TypeOK, Named, Calls, FileNames

LEMMA FileStep == TypeOK /\ Named /\ Next => file' \in [FileNames -> Nat]
<1> SUFFICES ASSUME TypeOK, Named, Next PROVE file' \in [FileNames -> Nat]
    OBVIOUS
<1> USE DEF TypeOK, Put, Move, None, Part, Whole
<1>1. ASSUME NEW p \in Procs, Save(p) PROVE file' \in [FileNames -> Nat]
  <2>1. CASE CreateTemp(p) \/ WriteTemp(p) \/ RenameTemp(p)
    BY <2>1, SaverTypes DEF CreateTemp, WriteTemp, RenameTemp, At, SavePcs
  <2> QED
    BY <1>1, <2>1 DEF Save, SavePreset, SaveSettings, WriteFails, ApplyToJobs, ApplyToDeployments
<1>2. ASSUME NEW p \in Procs, Reader(p) PROVE file' \in [FileNames -> Nat]
    BY <1>2 DEF Reader, ReadConfig, FindISO, UploadISO, Import, ReadSnapshot, ReadJobConfig, Answered,
                unchanged
<1>3. CASE Build
  <2>1. file["stage"] \in Nat
    BY DEF FileNames
  <2>2. CASE CopyEnds
    BY <2>1, <2>2 DEF CopyEnds, Written
  <2> QED
    BY <1>3, <2>1, <2>2 DEF Build, ScriptEnds, CollectByRename, CollectByCopy, CopyFails, MarkResult,
                            SnapshotOpens, SnapshotWritten, SnapshotFails, Written, others
<1>4. CASE DeletePreset \/ DeleteJob \/ Restart \/ \E n \in {"iso", "conf"} : DeleteOutput(n)
    BY <1>4 DEF DeletePreset, DeleteJob, DeleteOutput, Restart
<1> QED
    BY <1>1, <1>2, <1>3, <1>4 DEF Next

LEMMA CallStep == TypeOK /\ Named /\ Next => call' \in [Procs -> Calls]
<1> SUFFICES ASSUME TypeOK, Named, Next PROVE call' \in [Procs -> Calls]
    OBVIOUS
<1> NoCall \in Calls
    BY DEF NoCall, Calls, ReadPcs, SavePcs, None
<1> USE DEF At, To, End
<1>1. ASSUME NEW p \in Procs, Save(p) PROVE call' \in [Procs -> Calls]
  <2>1. CASE SavePreset(p) \/ SaveSettings(p)
    <3>1. PICK f \in {"preset", "settings"}, v \in {New, Loaded} : Begin(p, f, v)
        BY <2>1 DEF SavePreset, SaveSettings
    <3>2. v \in Nat
        BY DEF TypeOK, New, Loaded, Whole, DefaultMaxHistory, FileNames
    <3> QED
        BY <3>1, <3>2 DEF Begin, TypeOK, Calls, SavePcs, NoCall, None
  <2>2. CASE CreateTemp(p) \/ WriteTemp(p)
    <3>1. \A fd \in FileNames \cup {"none"}, pc \in SavePcs :
              [call[p] EXCEPT !.pc = pc, !.fd = fd] \in Calls
        BY DEF TypeOK, Calls
    <3>2. PICK fd \in FileNames \cup {"none"}, pc \in SavePcs :
              call' = [call EXCEPT ![p].pc = pc, ![p].fd = fd]
        BY <2>2, SaverTypes DEF CreateTemp, WriteTemp, SavePcs
    <3> QED
        BY <3>1, <3>2 DEF TypeOK
  <2>3. CASE WriteFails(p) \/ ApplyToDeployments(p)
    BY <2>3 DEF WriteFails, ApplyToDeployments, TypeOK
  <2>4. CASE RenameTemp(p)
    <3>1. Temp[call[p].name] \in FileNames /\ call[p].name \in FileNames
        BY <2>4, SaverTypes DEF RenameTemp, SavePcs, FileNames
    <3>2. \A q \in Procs : Followed(q, Temp[call[p].name], call[p].name) \in FileNames \cup {"none", "gone"}
        BY <3>1 DEF Followed, TypeOK, Calls
    <3> QED
        BY <2>4, <3>1, <3>2 DEF RenameTemp, TypeOK, Calls, SavePcs
  <2>5. CASE ApplyToJobs(p)
    BY <2>5 DEF ApplyToJobs, TypeOK, Calls, SavePcs
  <2> QED
    BY <1>1, <2>1, <2>2, <2>3, <2>4, <2>5 DEF Save
<1>2. ASSUME NEW p \in Procs, Reader(p) PROVE call' \in [Procs -> Calls]
  <2>1. CASE UploadISO(p)
    <3>1. file["iso"] \in Nat
        BY DEF TypeOK, FileNames
    <3> QED
        BY <2>1, <3>1 DEF UploadISO, TypeOK, Calls, ReadPcs
  <2>2. CASE Import(p)
    BY <2>2 DEF Import, TypeOK, Calls, ReadPcs, NoCall, None, Whole
  <2>3. CASE ReadConfig(p) \/ FindISO(p) \/ ReadSnapshot(p) \/ ReadJobConfig(p) \/ Answered(p)
    <3>1. \A pc \in ReadPcs : [call[p] EXCEPT !.pc = pc] \in Calls
        BY DEF TypeOK, Calls
    <3>2. End(p) \/ \E pc \in ReadPcs : To(p, pc)
        BY <2>3 DEF ReadConfig, FindISO, ReadSnapshot, ReadJobConfig, Answered, ReadPcs
    <3> QED
        BY <3>1, <3>2 DEF TypeOK
  <2> QED
    BY <1>2, <2>1, <2>2, <2>3 DEF Reader
<1>3. CASE Build \/ DeletePreset \/ DeleteJob \/ \E n \in {"iso", "conf"} : DeleteOutput(n)
    BY <1>3 DEF TypeOK, Build, ScriptEnds, CollectByRename, CollectByCopy, CopyEnds, CopyFails,
                MarkResult, SnapshotOpens, SnapshotWritten, SnapshotFails, DeletePreset, DeleteJob,
                DeleteOutput, others
<1>4. CASE Restart
    BY <1>4 DEF Restart, TypeOK
<1> QED
    BY <1>1, <1>2, <1>3, <1>4 DEF Next

LEMMA RestStep ==
    TypeOK /\ Named /\ Next =>
        /\ caps' \in [job : Nat, deploy : Nat] /\ mu' \in Procs \cup {0}
        /\ calls' \in Nat /\ faults' \in Nat
        /\ overlap' \in BOOLEAN /\ spoilt' \in BOOLEAN /\ listed' \in BOOLEAN
        /\ build' \in {"run", "collect", "copy", "mark", "snapshot", "write", "done"}
<1> DEFINE Rest == /\ caps' \in [job : Nat, deploy : Nat] /\ mu' \in Procs \cup {0}
                   /\ calls' \in Nat /\ faults' \in Nat
                   /\ overlap' \in BOOLEAN /\ spoilt' \in BOOLEAN /\ listed' \in BOOLEAN
                   /\ build' \in {"run", "collect", "copy", "mark", "snapshot", "write", "done"}
<1> SUFFICES ASSUME TypeOK, Named, Next PROVE Rest
    OBVIOUS
<1> USE DEF TypeOK, output, bounds, others, unchanged, Fault
<1>1. ASSUME NEW p \in Procs, Save(p) PROVE Rest
  <2>1. CASE SavePreset(p) \/ SaveSettings(p)
    <3>1. overlap' \in BOOLEAN
        BY <2>1 DEF SavePreset, SaveSettings
    <3> QED
        BY <2>1, <3>1 DEF SavePreset, SaveSettings, Begin
  <2>2. CASE CreateTemp(p) \/ WriteTemp(p) \/ WriteFails(p) \/ RenameTemp(p)
    BY <2>2 DEF CreateTemp, WriteTemp, WriteFails, RenameTemp, Unlock
  <2>3. CASE ApplyToJobs(p) \/ ApplyToDeployments(p)
    <3>1. call[p].val \in Nat
        BY DEF Calls
    <3> QED
        BY <2>3, <3>1 DEF ApplyToJobs, ApplyToDeployments
  <2> QED
    BY <1>1, <2>1, <2>2, <2>3 DEF Save
<1>2. ASSUME NEW p \in Procs, Reader(p) PROVE Rest
    BY <1>2 DEF Reader, ReadConfig, FindISO, UploadISO, Import, ReadSnapshot, ReadJobConfig, Answered
<1>3. CASE Build
  <2>1. CASE ScriptEnds
    <3>1. spoilt' \in BOOLEAN
        BY <2>1 DEF ScriptEnds
    <3> QED
        BY <2>1, <3>1 DEF ScriptEnds
  <2>2. CASE SnapshotOpens
    BY <2>2 DEF SnapshotOpens
  <2>3. CASE CollectByRename \/ CollectByCopy \/ MarkResult
    BY <2>3 DEF CollectByRename, CollectByCopy, MarkResult
  <2>4. CASE CopyEnds
    BY <2>4 DEF CopyEnds
  <2>5. CASE CopyFails
    BY <2>5 DEF CopyFails
  <2>6. CASE SnapshotWritten \/ SnapshotFails
    BY <2>6 DEF SnapshotWritten, SnapshotFails
  <2> QED
    BY <1>3, <2>1, <2>2, <2>3, <2>4, <2>5, <2>6 DEF Build
<1>4. CASE DeletePreset \/ DeleteJob \/ \E n \in {"iso", "conf"} : DeleteOutput(n)
    BY <1>4 DEF DeletePreset, DeleteJob, DeleteOutput
<1>5. CASE Restart
  <2>1. Loaded \in Nat
    BY DEF Loaded, DefaultMaxHistory, FileNames
  <2>2. spoilt' \in BOOLEAN
    BY <1>5 DEF Restart
  <2>3. caps' \in [job : Nat, deploy : Nat]
    BY <1>5, <2>1 DEF Restart
  <2> QED
    BY <1>5, <2>2, <2>3 DEF Restart
<1> QED
    BY <1>1, <1>2, <1>3, <1>4, <1>5 DEF Next

LEMMA TypeStep == TypeOK /\ Named /\ [Next]_vars => TypeOK'
BY FileStep, CallStep, RestStep DEF TypeOK, vars, bounds, output

-----------------------------------------------------------------------------
(* The steps of a save *)

LEMMA BeginStep ==
    ASSUME SaveInv, TypeOK', NEW p \in Procs, SavePreset(p) \/ SaveSettings(p)
    PROVE  SaveInv'
<1> USE NamesAre, DataDirAssumption DEF SaveInv
<1>1. PICK f \in {"preset", "settings"}, v \in {New, Loaded} :
          /\ Begin(p, f, v) /\ UNCHANGED <<file, caps>>
          /\ f = "preset" => mu = 0 /\ mu' = p /\ UNCHANGED overlap
          /\ f = "settings" => UNCHANGED mu /\ overlap' = (overlap \/ \E q \in Procs : Saving(q))
    BY DEF SavePreset, SaveSettings
<1>2. /\ call[p].pc = "idle" /\ call[p].name = "none" /\ call'[p].name = f
      /\ call'[p].pc = "create" /\ call'[p].val = v /\ call'[p].fd = "none"
      /\ \A q \in Procs \ {p} : call'[q] = call[q]
    BY <1>1 DEF Begin, At, NoCall, Named, SavePcs, TypeOK, Calls
<1>3. v \in Nat \ {None, Part}
    BY DEF TypeOK, New, Loaded, None, Part, Whole, DefaultMaxHistory, FileNames
<1>4. (Named /\ PresetPcs)'
    BY <1>2, <1>3 DEF Named, PresetPcs, SavePcs, None, Part
<1>5. Locked'
    BY <1>1, <1>2 DEF Locked, TypeOK
<1>6. OneSaver'
  <2>1. CASE f = "preset"
    BY <1>1, <1>2, <2>1 DEF OneSaver, Alone, Locked
  <2>2. CASE f = "settings"
    <3>1. ~overlap' => ~overlap /\ \A q \in Procs : call[q].name # "settings"
        BY <1>1, <2>2 DEF Saving
    <3> QED
        BY <1>2, <2>2, <3>1 DEF OneSaver, Alone
  <2> QED
    BY <2>1, <2>2
<1>7. \A g : Alone(g)' => Alone(g)
    BY <1>1 DEF Alone
<1>8. TempFile'
    BY <1>1, <1>2, <1>7 DEF TempFile
<1>9. Handles'
    BY <1>2 DEF Handles
<1>10. StoredIsWhole'
    BY <1>1, <1>7 DEF StoredIsWhole, Alone
<1>11. Applied'
  <2>1. CASE f = "preset"
    BY <1>1, <1>2, <2>1 DEF Applied, Saving, Loaded
  <2>2. CASE f = "settings"
    BY <1>1, <1>2, <2>2 DEF Applied, Saving, Loaded
  <2> QED
    BY <2>1, <2>2
<1> QED
    BY <1>4, <1>5, <1>6, <1>8, <1>9, <1>10, <1>11

LEMMA WriteStep ==
    ASSUME SaveInv, TypeOK', NEW p \in Procs, CreateTemp(p) \/ WriteTemp(p)
    PROVE  SaveInv'
<1> USE NamesAre DEF SaveInv
<1> DEFINE f == call[p].name
<1>1. /\ UNCHANGED <<caps, mu, overlap>> /\ call[p].pc \in {"create", "write"}
      /\ \A q \in Procs \ {p} : call'[q] = call[q]
      /\ call'[p].name = f /\ call'[p].val = call[p].val
      /\ call[p].pc = "create" => call'[p].pc = "write" /\ call'[p].fd = Temp[f]
      /\ call[p].pc = "write" => call'[p].pc = "rename" /\ call'[p].fd = "none"
    BY DEF CreateTemp, WriteTemp, At, TypeOK, Calls, bounds
<1>2. f \in {"preset", "settings"} /\ call[p].val \in Nat \ {None, Part} /\ Temp[f] \in FileNames
    BY <1>1, SaverTypes DEF SavePcs
\* The file that is written: another one than its own only where saves of the settings overlap.
<1>3. /\ call[p].pc = "create" => file' = [file EXCEPT ![Temp[f]] = Part]
      /\ call[p].pc = "write" => \/ file' = file /\ call[p].fd = "gone"
                                 \/ file' = [file EXCEPT ![call[p].fd] = call[p].val]
    BY <1>2 DEF CreateTemp, WriteTemp, At, Put, Handles
<1>4. call[p].pc = "write" => IF Alone(f) THEN call[p].fd = Temp[f]
                              ELSE call[p].fd \in {"none", "settings.tmp", "settings", "gone"}
    BY <1>2 DEF TempFile, Handles, Alone
<1>5. (Named /\ PresetPcs)'
    BY <1>1, <1>2 DEF Named, PresetPcs, SavePcs
<1>6. (Locked /\ OneSaver)'
    BY <1>1 DEF Locked, OneSaver, Alone
<1>7. Handles'
    BY <1>1, <1>2 DEF Handles
<1>8. TempFile'
  <2> SUFFICES ASSUME NEW q \in Procs, call'[q].name # "none",
                      call'[q].name = "settings" => ~overlap'
               PROVE  /\ call'[q].pc = "write" => call'[q].fd = Temp[call'[q].name]
                      /\ call'[q].pc = "rename" => file'[Temp[call'[q].name]] = call'[q].val
    BY DEF TempFile, Alone
  <2>1. CASE q = p
    <3>1. Alone(f)
        BY <1>1, <2>1 DEF Alone
    <3>2. call[p].pc = "write" => file'[Temp[f]] = call[p].val
        BY <1>2, <1>3, <1>4, <3>1 DEF TypeOK, TempFile, FileNames
    <3> QED
        BY <1>1, <2>1, <3>2
  <2>2. CASE q # p
    <3>1. call'[q] = call[q] /\ call[q].name \in {"preset", "settings"} /\ Alone(call[q].name)
        BY <1>1, <2>2 DEF Alone, TypeOK, Calls
    <3>2. call[q].name # f
        BY <3>1, <2>2, <1>2 DEF OneSaver
    <3>3. file'[Temp[call[q].name]] = file[Temp[call[q].name]]
        BY <1>1, <1>2, <1>3, <1>4, <3>1, <3>2 DEF TypeOK, FileNames, Alone
    <3> QED
        BY <3>1, <3>3 DEF TempFile
  <2> QED
    BY <2>1, <2>2
<1>9. StoredIsWhole' /\ (~overlap => Loaded' = Loaded)
    BY <1>1, <1>2, <1>3, <1>4 DEF StoredIsWhole, TypeOK, FileNames, Alone, Loaded
<1>10. Applied'
    BY <1>1, <1>9 DEF Applied, Saving
<1> QED
    BY <1>5, <1>6, <1>7, <1>8, <1>9, <1>10

LEMMA WriteFailsStep ==
    ASSUME SaveInv, TypeOK', NEW p \in Procs, WriteFails(p)
    PROVE  SaveInv'
<1> USE NamesAre, DataDirAssumption DEF SaveInv
<1>1. /\ UNCHANGED <<file, caps, overlap>> /\ call[p].pc = "write" /\ mu' = IF mu = p THEN 0 ELSE mu
      /\ \A q \in Procs \ {p} : call'[q] = call[q]
      /\ call'[p].name = "none" /\ call'[p].pc = "idle" /\ call'[p].fd = "none"
    BY DEF WriteFails, At, End, NoCall, Unlock, TypeOK, Calls
<1>2. (Named /\ PresetPcs /\ Locked)'
    BY <1>1 DEF Named, PresetPcs, Locked, SavePcs, TypeOK
<1>3. (OneSaver /\ Handles)'
    BY <1>1 DEF OneSaver, Alone, Handles
<1>4. TempFile' /\ StoredIsWhole'
    BY <1>1 DEF TempFile, Alone, StoredIsWhole
<1>5. Applied'
  <2> SUFFICES ASSUME ~overlap PROVE Applied'
    BY <1>1 DEF Applied
  <2>1. call[p].name = "settings" => \A q \in Procs \ {p} : call[q].name # "settings"
    BY DEF OneSaver, Alone
  <2> QED
    BY <1>1, <2>1 DEF Applied, Saving, Loaded
<1> QED
    BY <1>2, <1>3, <1>4, <1>5

LEMMA RenameStep ==
    ASSUME SaveInv, TypeOK', NEW p \in Procs, RenameTemp(p)
    PROVE  SaveInv'
<1> USE NamesAre, DataDirAssumption DEF SaveInv
<1> DEFINE f == call[p].name
<1>1. /\ UNCHANGED <<caps, overlap>> /\ call[p].pc = "rename" /\ mu' = IF mu = p THEN 0 ELSE mu
      /\ call[p].fd = "none"
    BY DEF RenameTemp, At, Unlock, Handles
<1>2. f \in {"preset", "settings"} /\ call[p].val \in Nat \ {None, Part}
    BY <1>1, SaverTypes DEF SavePcs
<1>3. Alone(f) => file[Temp[f]] = call[p].val
    BY <1>1, <1>2 DEF TempFile
<1>4. \A q \in Procs \ {p} :
          /\ call'[q].pc = call[q].pc /\ call'[q].name = call[q].name /\ call'[q].val = call[q].val
          /\ \/ call'[q].fd = call[q].fd
             \/ call[q].fd \in {f, Temp[f]} /\ call'[q].fd \in {f, "gone"}
    BY <1>2 DEF RenameTemp, Followed, End, TypeOK, Calls
<1>5. \/ /\ f = "settings" /\ file[Temp[f]] # None /\ call'[p].name = f /\ call'[p].val = call[p].val
         /\ call'[p].pc = "applyJob" /\ call'[p].fd = "none"
      \/ /\ f = "preset" \/ file[Temp[f]] = None
         /\ call'[p].name = "none" /\ call'[p].pc = "idle" /\ call'[p].fd = "none"
  <2>1. CASE file[Temp[f]] = None
    BY <2>1 DEF RenameTemp, End, NoCall, TypeOK
  <2>2. CASE file[Temp[f]] # None /\ f = "settings"
    BY <1>1, <2>2 DEF RenameTemp, Followed, Saving, TypeOK, Calls
  <2>3. CASE file[Temp[f]] # None /\ f = "preset"
    BY <2>3 DEF RenameTemp, Followed, Saving, NoCall, TypeOK
  <2> QED
    BY <1>2, <2>1, <2>2, <2>3
<1>6. file' = IF file[Temp[f]] = None THEN file
              ELSE [file EXCEPT ![f] = file[Temp[f]], ![Temp[f]] = None]
    BY DEF RenameTemp, Move
<1>7. (Named /\ PresetPcs)'
    BY <1>1, <1>2, <1>4, <1>5 DEF Named, PresetPcs, SavePcs
<1>8. Locked'
    BY <1>1, <1>2, <1>4, <1>5, <1>3 DEF Locked, TypeOK, Alone
<1>9. OneSaver'
    BY <1>1, <1>4, <1>5 DEF OneSaver, Alone
<1>10. Handles'
  <2>1. \A q \in Procs \ {p} : call[q].name = "preset" => f = "settings"
    BY <1>2 DEF Locked
  <2> QED
    BY <1>1, <1>2, <1>4, <1>5, <2>1 DEF Handles
<1>11. TempFile'
  <2> SUFFICES ASSUME NEW q \in Procs, call'[q].name # "none",
                      call'[q].name = "settings" => ~overlap'
               PROVE  /\ call'[q].pc = "write" => call'[q].fd = Temp[call'[q].name]
                      /\ call'[q].pc = "rename" => file'[Temp[call'[q].name]] = call'[q].val
    BY DEF TempFile, Alone
  <2>1. CASE q = p
    BY <1>5, <2>1
  <2>2. CASE q # p
    <3>1. call[q].name \in {"preset", "settings"} /\ Alone(call[q].name)
        BY <1>1, <1>4, <2>2 DEF Alone, TypeOK, Calls
    <3>2. call[q].name # f
        BY <3>1, <2>2, <1>2 DEF OneSaver
    <3>3. file'[Temp[call[q].name]] = file[Temp[call[q].name]]
        BY <1>2, <1>6, <3>1, <3>2 DEF TypeOK, FileNames
    <3>4. call[q].pc = "write" => call[q].fd = Temp[call[q].name]
        BY <3>1 DEF TempFile
    <3> QED
        BY <1>2, <1>4, <2>2, <3>1, <3>2, <3>3, <3>4 DEF TempFile
  <2> QED
    BY <2>1, <2>2
<1>12. StoredIsWhole'
    BY <1>1, <1>2, <1>3, <1>6 DEF StoredIsWhole, Alone, TypeOK, FileNames
<1>13. Applied'
  <2> SUFFICES ASSUME ~overlap PROVE Applied'
    BY <1>1 DEF Applied
  <2>1. CASE f = "settings"
    <3>1. \A q \in Procs \ {p} : call[q].name # "settings"
        BY <2>1 DEF OneSaver, Alone
    <3>2. file[Temp[f]] = call[p].val /\ Loaded' = call[p].val
        BY <1>2, <1>3, <1>6, <2>1 DEF Alone, Loaded, TypeOK, FileNames, None, Part
    <3>3. call'[p].pc = "applyJob" /\ call'[p].val = call[p].val /\ call'[p].name = "settings"
        BY <1>2, <1>5, <2>1, <3>2
    <3> QED
        BY <1>4, <3>1, <3>2, <3>3 DEF Applied, Saving
  <2>2. CASE f = "preset"
    <3>1. Loaded' = Loaded
        BY <1>6, <2>2 DEF Loaded, TypeOK, FileNames
    <3> QED
        BY <1>1, <1>4, <1>5, <2>2, <3>1 DEF Applied, Saving
  <2> QED
    BY <1>2, <2>1, <2>2
<1> QED
    BY <1>7, <1>8, <1>9, <1>10, <1>11, <1>12, <1>13

LEMMA ApplyStep ==
    ASSUME SaveInv, TypeOK', NEW p \in Procs, ApplyToJobs(p) \/ ApplyToDeployments(p)
    PROVE  SaveInv'
<1> USE NamesAre DEF SaveInv
<1>1. /\ UNCHANGED <<file, mu, overlap>> /\ call[p].pc \in {"applyJob", "applyDeploy"}
      /\ \A q \in Procs \ {p} : call'[q] = call[q]
    BY DEF ApplyToJobs, ApplyToDeployments, At, To, End, TypeOK
<1>2. call[p].name = "settings" /\ call[p].fd = "none"
    BY <1>1, SaverTypes DEF PresetPcs, Handles, SavePcs
<1>3. /\ call[p].pc = "applyJob" =>
             /\ call'[p].pc = "applyDeploy" /\ call'[p].name = "settings" /\ call'[p].fd = "none"
             /\ call'[p].val = call[p].val /\ caps'.job = call[p].val
      /\ call[p].pc = "applyDeploy" =>
             /\ call'[p].pc = "idle" /\ call'[p].name = "none" /\ call'[p].fd = "none"
             /\ caps'.job = caps.job /\ caps'.deploy = call[p].val
    BY <1>2 DEF ApplyToJobs, ApplyToDeployments, At, To, End, NoCall, TypeOK, Calls
<1>4. (Named /\ PresetPcs /\ Locked)'
    BY <1>1, <1>2, <1>3 DEF Named, PresetPcs, Locked, SavePcs
<1>5. (OneSaver /\ Handles)'
    BY <1>1, <1>2, <1>3 DEF OneSaver, Alone, Handles
<1>6. TempFile' /\ StoredIsWhole'
    BY <1>1, <1>2, <1>3 DEF TempFile, Alone, StoredIsWhole
<1>7. Applied'
  <2> SUFFICES ASSUME ~overlap PROVE Applied'
    BY <1>1 DEF Applied
  <2>1. \A q \in Procs \ {p} : call[q].name # "settings"
    BY <1>2 DEF OneSaver, Alone
  <2>2. Loaded' = Loaded /\ Loaded = call[p].val
    BY <1>1, <1>2 DEF Applied, Saving, Loaded
  <2>3. call[p].pc = "applyDeploy" => caps' = [job |-> call[p].val, deploy |-> call[p].val]
    BY <1>2, <1>3 DEF Applied, Saving, TypeOK
  <2> QED
    BY <1>1, <1>2, <1>3, <2>1, <2>2, <2>3 DEF Applied, Saving
<1> QED
    BY <1>4, <1>5, <1>6, <1>7

LEMMA RestartStep == SaveInv /\ TypeOK' /\ Restart => SaveInv'
<1> SUFFICES ASSUME SaveInv, TypeOK', Restart PROVE SaveInv'
    OBVIOUS
<1> USE NamesAre, DataDirAssumption DEF SaveInv, Restart
<1>1. \A n \in FileNames \ {"stage"} : file'[n] = file[n]
    BY DEF Put, TypeOK
<1>2. \A p \in Procs : call'[p].pc = "idle" /\ call'[p].name = "none" /\ call'[p].fd = "none"
    BY DEF NoCall
<1>3. (Named /\ PresetPcs /\ Locked)'
    BY <1>2 DEF Named, PresetPcs, Locked, SavePcs
<1>4. (OneSaver /\ Handles /\ TempFile)'
    BY <1>2 DEF OneSaver, Handles, TempFile
<1>5. StoredIsWhole' /\ Loaded' = Loaded
    BY <1>1 DEF StoredIsWhole, Loaded, FileNames
<1>6. Applied'
    BY <1>2, <1>5 DEF Applied, Saving
<1> QED
    BY <1>3, <1>4, <1>5, <1>6

\* The worker keeps to its own files.
LEMMA BuildFiles ==
    TypeOK /\ Build => \A n \in FileNames \ {"stage", "iso", "conf"} : file'[n] = file[n]
<1> SUFFICES ASSUME TypeOK, Build, NEW n \in FileNames \ {"stage", "iso", "conf"}
             PROVE  file'[n] = file[n]
    OBVIOUS
<1> USE DEF TypeOK, Put, Move
<1>1. CASE ScriptEnds \/ CollectByRename \/ CollectByCopy
    BY <1>1 DEF ScriptEnds, CollectByRename, CollectByCopy
<1>2. CASE CopyEnds \/ CopyFails \/ MarkResult
    BY <1>2 DEF CopyEnds, CopyFails, MarkResult
<1>3. CASE SnapshotOpens \/ SnapshotWritten \/ SnapshotFails
    BY <1>3 DEF SnapshotOpens, SnapshotWritten, SnapshotFails
<1> QED
    BY <1>1, <1>2, <1>3 DEF Build

LEMMA OthersElsewhere ==
    ASSUME SaveInv, TypeOK',
           \/ \E p \in Procs : Reader(p)
           \/ Build \/ DeletePreset \/ DeleteJob \/ \E n \in {"iso", "conf"} : DeleteOutput(n)
    PROVE  Elsewhere
<1> USE DEF SaveInv, TypeOK
<1>1. CASE \E p \in Procs : Reader(p)
  <2> PICK p \in Procs : Reader(p)
    BY <1>1
  <2>1. UNCHANGED <<mu, caps, overlap, file>>
    BY DEF Reader, ReadConfig, FindISO, UploadISO, Import, ReadSnapshot, ReadJobConfig, Answered,
           unchanged
  <2>2. call[p].pc \notin SavePcs /\ \A q \in Procs \ {p} : call'[q] = call[q]
    BY DEF Reader, ReadConfig, FindISO, UploadISO, Import, ReadSnapshot, ReadJobConfig, Answered,
           At, To, End, SavePcs
  <2>3. call'[p].name = "none" /\ call'[p].pc \in ReadPcs /\ call'[p].fd = "none"
    <3>1. call[p].name = "none" /\ call[p].fd = "none"
        BY <2>2 DEF Named, Handles, SavePcs
    <3>2. CASE Import(p)
        BY <3>2 DEF Import, NoCall, ReadPcs
    <3>3. CASE UploadISO(p)
        BY <3>1, <3>3 DEF UploadISO, End, NoCall, ReadPcs, Calls
    <3>4. \A pc \in ReadPcs : To(p, pc) => call'[p].name = "none" /\ call'[p].pc = pc /\ call'[p].fd = "none"
        BY <3>1 DEF To, Calls
    <3>5. CASE ReadConfig(p) \/ FindISO(p) \/ ReadSnapshot(p) \/ ReadJobConfig(p) \/ Answered(p)
      <4>1. End(p) \/ \E pc \in ReadPcs : To(p, pc)
        BY <3>5 DEF ReadConfig, FindISO, ReadSnapshot, ReadJobConfig, Answered, ReadPcs
      <4> QED
        BY <3>4, <4>1 DEF End, NoCall, ReadPcs
    <3> QED
        BY <3>2, <3>3, <3>5 DEF Reader
  <2> QED
    BY <2>1, <2>2, <2>3 DEF Elsewhere, Named
<1>2. CASE Build
  <2>1. UNCHANGED others
    BY <1>2 DEF Build, ScriptEnds, CollectByRename, CollectByCopy, CopyEnds, CopyFails, MarkResult,
                SnapshotOpens, SnapshotWritten, SnapshotFails, others
  <2>2. \A n \in FileNames \ {"stage", "iso", "conf"} : file'[n] = file[n]
    BY <1>2, BuildFiles
  <2> QED
    BY <2>1, <2>2 DEF others, FileNames, Elsewhere
<1>3. CASE DeletePreset \/ DeleteJob
    BY <1>3 DEF DeletePreset, DeleteJob, others, Put, FileNames, Elsewhere
<1>4. CASE \E n \in {"iso", "conf"} : DeleteOutput(n)
    BY <1>4 DEF DeleteOutput, others, Put, Elsewhere
<1> QED
    BY <1>1, <1>2, <1>3, <1>4

LEMMA SaveStep == SaveInv /\ [Next]_vars => SaveInv'
<1> SUFFICES ASSUME SaveInv, [Next]_vars PROVE SaveInv'
    OBVIOUS
<1> TypeOK'
    BY TypeStep DEF SaveInv
<1>1. ASSUME NEW p \in Procs, Save(p) PROVE SaveInv'
    BY <1>1, BeginStep, WriteStep, WriteFailsStep, RenameStep, ApplyStep DEF Save
<1>2. CASE Restart
    BY <1>2, RestartStep
<1>3. CASE UNCHANGED vars
  <2> Elsewhere
    BY <1>3 DEF Elsewhere, vars
  <2> QED
    BY SaveElsewhere
<1> QED
    BY <1>1, <1>2, <1>3, OthersElsewhere, SaveElsewhere DEF Next

(* Store.Save, SaveSettings: the file under its final name is never a part of one, for any *)
(* number of requests and faults at any point (settings: unless two requests overlap).     *)
THEOREM StoredIsWholeTheorem == Spec => []StoredIsWhole
<1>1. SaveInv => StoredIsWhole
    BY DEF SaveInv
<1> QED
    BY <1>1, SaveInit, SaveStep, PTL DEF Spec

(* handleAdminSettings: the two managers and the settings file agree whenever no request   *)
(* is in progress, for any number of requests and faults.                                  *)
THEOREM CapsAgreeTheorem == Spec => []CapsAgree
<1>1. SaveInv => CapsAgree
    BY DEF SaveInv, Applied, CapsAgree
<1> QED
    BY <1>1, SaveInit, SaveStep, PTL DEF Spec

-----------------------------------------------------------------------------
(* The output folder *)

\* What the script has left, while it is being collected.
Stage ==
    /\ build \in {"collect", "copy"} /\ ~spoilt => file["stage"] = Whole
    /\ build \in {"run", "collect"} => file["iso"] = None

\* From the collection on the ISO is whole or gone, and the snapshot comes last.
Collected == build \in {"mark", "snapshot", "write", "done"} /\ ~spoilt => file["iso"] \in {None, Whole}
LastIsConf == file["conf"] = Whole => build = "done"

\* A deployment that has seen the snapshot comes after the collection.
Seen ==
    \A p \in Procs :
        /\ call[p].pc \in {"resolving", "resolved"} => build = "done"
        /\ call[p].pc = "uploaded" => build = "done" /\ call[p].val # None

\* An import looks no job up that was gone when it began.
Imports == \A p \in Procs : call[p].pc = "import" /\ call[p].val = None => ~listed

BuildInv ==
    /\ Stage /\ Collected /\ LastIsConf /\ Seen /\ Imports /\ DeployedIsWhole /\ ImportFallsBack

LEMMA BuildInit == Init => BuildInv
<1> SUFFICES ASSUME Init PROVE BuildInv
    OBVIOUS
<1> USE NamesAre DEF Init, NoCall
<1>1. Stage /\ Collected /\ LastIsConf
    BY DEF Stage, Collected, LastIsConf, None, Whole, FileNames
<1>2. Seen /\ Imports /\ DeployedIsWhole /\ ImportFallsBack
    BY DEF Seen, Imports, DeployedIsWhole, ImportFallsBack, At
<1> QED
    BY <1>1, <1>2 DEF BuildInv

\* Where a step leaves the output folder, the staging directory and every reader alone.
SameBuild ==
    /\ UNCHANGED output
    /\ \A n \in {"stage", "iso", "conf"} : file'[n] = file[n]
    /\ \A p \in Procs : call'[p] # call[p] =>
           \/ call'[p].pc \in SavePcs \cup {"idle"}
           \/ call'[p].pc = call[p].pc /\ call'[p].val = call[p].val

LEMMA BuildSame == BuildInv /\ SameBuild => BuildInv'
<1> SUFFICES ASSUME BuildInv, SameBuild PROVE BuildInv'
    OBVIOUS
<1> USE DEF BuildInv, SameBuild, output
<1>1. (Stage /\ Collected /\ LastIsConf)'
    BY DEF Stage, Collected, LastIsConf
<1>2. \A p \in Procs : call'[p].pc \in ReadPcs \ {"idle"} =>
          call'[p].pc = call[p].pc /\ call'[p].val = call[p].val
    BY DEF SavePcs, ReadPcs
<1>3. (Seen /\ Imports /\ DeployedIsWhole /\ ImportFallsBack)'
    BY <1>2 DEF Seen, Imports, DeployedIsWhole, ImportFallsBack, At, ReadPcs
<1> QED
    BY <1>1, <1>3

LEMMA MoveElsewhere ==
    ASSUME file \in [FileNames -> Nat], NEW f \in {"preset", "settings"}, NEW v,
           NEW t \in {"preset.tmp", "settings.tmp"}, file' = [file EXCEPT ![f] = v, ![t] = None]
    PROVE  \A n \in {"stage", "iso", "conf"} : file'[n] = file[n]
BY DEF FileNames

\* A save keeps to its own files.
LEMMA SaveSame == ASSUME SaveInv, NEW p \in Procs, Save(p) PROVE SameBuild
<1> USE NamesAre DEF SaveInv, TypeOK, bounds
<1>1. UNCHANGED output
    BY DEF Save, SavePreset, SaveSettings, CreateTemp, WriteTemp, WriteFails, RenameTemp,
           ApplyToJobs, ApplyToDeployments
<1>2. \A n \in {"stage", "iso", "conf"} : file'[n] = file[n]
  <2>1. CASE CreateTemp(p) \/ RenameTemp(p)
    <3>1. call[p].name \in {"preset", "settings"}
        BY <2>1, SaverTypes DEF CreateTemp, RenameTemp, At, SavePcs
    <3>2. Temp[call[p].name] \in {"preset.tmp", "settings.tmp"}
        BY <3>1
    <3>3. CASE CreateTemp(p)
        BY <3>2, <3>3 DEF CreateTemp, Put
    <3>4. CASE RenameTemp(p)
      <4>1. \/ file' = file
            \/ file' = [file EXCEPT ![call[p].name] = file[Temp[call[p].name]], ![Temp[call[p].name]] = None]
        BY <3>4 DEF RenameTemp, Move
      <4> QED
        BY <3>1, <3>2, <4>1, MoveElsewhere
    <3> QED
        BY <2>1, <3>3, <3>4
  <2>2. CASE WriteTemp(p)
    <3>1. call[p].name \in {"preset", "settings"} /\ call[p].pc = "write"
        BY <2>2, SaverTypes DEF WriteTemp, At, SavePcs
    <3>2. call[p].fd \notin {"stage", "iso", "conf"}
        BY <3>1 DEF Handles
    <3>3. CASE call[p].fd = "gone"
        BY <2>2, <3>3 DEF WriteTemp
    <3>4. CASE file' = [file EXCEPT ![call[p].fd] = call[p].val]
        BY <3>2, <3>4
    <3> QED
        BY <2>2, <3>3, <3>4 DEF WriteTemp, Put
  <2> QED
    BY <2>1, <2>2 DEF Save, SavePreset, SaveSettings, WriteFails, ApplyToJobs, ApplyToDeployments
<1>3. ASSUME NEW q \in Procs, call'[q] # call[q]
      PROVE  \/ call'[q].pc \in SavePcs \cup {"idle"}
             \/ call'[q].pc = call[q].pc /\ call'[q].val = call[q].val
  <2>1. CASE SavePreset(p) \/ SaveSettings(p)
    BY <1>3, <2>1 DEF SavePreset, SaveSettings, Begin, NoCall, SavePcs
  <2>2. CASE CreateTemp(p) \/ WriteTemp(p)
    BY <1>3, <2>2 DEF CreateTemp, WriteTemp, SavePcs, Calls
  <2>5. CASE WriteFails(p)
    BY <1>3, <2>5 DEF WriteFails, End, NoCall
  <2>3. CASE RenameTemp(p)
    <3>1. CASE End(p)
        BY <1>3, <3>1 DEF End, NoCall
    <3>2. CASE ~End(p)
        BY <1>3, <2>3, <3>2 DEF RenameTemp, NoCall, SavePcs, Calls
    <3> QED
        BY <3>1, <3>2
  <2>4. CASE ApplyToJobs(p) \/ ApplyToDeployments(p)
    BY <1>3, <2>4 DEF ApplyToJobs, ApplyToDeployments, To, End, NoCall, SavePcs, Calls
  <2> QED
    BY <2>1, <2>2, <2>3, <2>4, <2>5 DEF Save
<1> QED
    BY <1>1, <1>2, <1>3 DEF SameBuild

LEMMA ReaderStep == ASSUME TypeOK, BuildInv, NEW p \in Procs, Reader(p) PROVE BuildInv'
<1> USE DEF TypeOK, BuildInv, At, To, End
<1>1. UNCHANGED <<file, output>> /\ \A q \in Procs \ {p} : call'[q] = call[q]
    BY DEF Reader, ReadConfig, FindISO, UploadISO, Import, ReadSnapshot, ReadJobConfig, Answered,
           unchanged
<1>2. (Stage /\ Collected /\ LastIsConf)'
    BY <1>1 DEF Stage, Collected, LastIsConf, output
<1>3. \/ call'[p].pc = "idle"
      \/ call'[p].pc \in {"resolving", "resolved"} /\ build = "done"
      \/ /\ call'[p].pc = "uploaded" /\ build = "done"
         /\ call'[p].val = file["iso"] /\ file["iso"] # None
      \/ call'[p].pc = "import" /\ (call'[p].val = None => ~listed)
      \/ call'[p].pc = "fallback"
      \/ call'[p].pc = "notFound" /\ ~listed
  <2>1. CASE ReadConfig(p)
    BY <2>1 DEF ReadConfig, LastIsConf, Calls
  <2>2. CASE FindISO(p)
    BY <2>2 DEF FindISO, Seen, NoCall, Calls
  <2>3. CASE UploadISO(p)
    BY <2>3 DEF UploadISO, Seen, NoCall, Calls
  <2>4. CASE Import(p)
    BY <2>4 DEF Import, NoCall, None, Whole
  <2>5. CASE ReadSnapshot(p)
    BY <2>5 DEF ReadSnapshot, Imports, NoCall, Calls
  <2>6. CASE ReadJobConfig(p)
    BY <2>6 DEF ReadJobConfig, NoCall, Calls
  <2>7. CASE Answered(p)
    BY <2>7 DEF Answered, NoCall
  <2> QED
    BY <2>1, <2>2, <2>3, <2>4, <2>5, <2>6, <2>7 DEF Reader
<1>4. (Seen /\ Imports /\ ImportFallsBack)'
    BY <1>1, <1>3 DEF Seen, Imports, ImportFallsBack, output
<1>5. DeployedIsWhole'
    BY <1>1, <1>3 DEF DeployedIsWhole, Collected, output
<1> QED
    BY <1>2, <1>4, <1>5

\* The worker, the deletions and the restart leave the readers alone, or end them.
LEMMA WorkerStep ==
    ASSUME TypeOK, BuildInv,
           Build \/ DeletePreset \/ DeleteJob \/ Restart \/ \E n \in {"iso", "conf"} : DeleteOutput(n)
    PROVE  BuildInv'
<1> USE DEF TypeOK, BuildInv, Put, Move, others, output, None, Part, Whole
<1>1. /\ \/ call' = call
         \/ \A p \in Procs : call'[p].pc = "idle"
      /\ listed' => listed
    BY DEF Build, ScriptEnds, CollectByRename, CollectByCopy, CopyEnds, CopyFails, MarkResult,
           SnapshotOpens, SnapshotWritten, SnapshotFails, DeletePreset, DeleteJob, Restart,
           DeleteOutput, NoCall
<1>2. build = "done" => build' = "done" /\ (spoilt => spoilt')
    BY DEF Build, ScriptEnds, CollectByRename, CollectByCopy, CopyEnds, CopyFails, MarkResult,
           SnapshotOpens, SnapshotWritten, SnapshotFails, DeletePreset, DeleteJob, Restart,
           DeleteOutput
<1>3. (Seen /\ Imports /\ DeployedIsWhole /\ ImportFallsBack)'
    BY <1>1, <1>2 DEF Seen, Imports, DeployedIsWhole, ImportFallsBack, At
<1>4. (Stage /\ Collected /\ LastIsConf)'
  <2> USE DEF Stage, Collected, LastIsConf, FileNames
  <2>1. CASE ScriptEnds
    BY <2>1 DEF ScriptEnds
  <2>2. CASE CollectByRename \/ CollectByCopy
    BY <2>2 DEF CollectByRename, CollectByCopy
  <2>3. CASE CopyEnds
    BY <2>3 DEF CopyEnds, Written
  <2>4. CASE CopyFails \/ MarkResult
    BY <2>4 DEF CopyFails, MarkResult
  <2>5. CASE SnapshotOpens \/ SnapshotWritten \/ SnapshotFails
    BY <2>5 DEF SnapshotOpens, SnapshotWritten, SnapshotFails, Written
  <2>6. CASE DeletePreset \/ DeleteJob
    BY <2>6 DEF DeletePreset, DeleteJob
  <2>7. CASE Restart
    BY <2>7 DEF Restart
  <2>8. CASE \E n \in {"iso", "conf"} : DeleteOutput(n)
    BY <2>8 DEF DeleteOutput
  <2> QED
    BY <2>1, <2>2, <2>3, <2>4, <2>5, <2>6, <2>7, <2>8 DEF Build
<1> QED
    BY <1>3, <1>4

LEMMA BuildStep == SaveInv /\ BuildInv /\ [Next]_vars => BuildInv'
<1> SUFFICES ASSUME SaveInv, BuildInv, [Next]_vars PROVE BuildInv'
    OBVIOUS
<1> TypeOK
    BY DEF SaveInv
<1>1. ASSUME NEW p \in Procs, Save(p) PROVE BuildInv'
    BY <1>1, SaveSame, BuildSame
<1>2. CASE UNCHANGED vars
  <2> SameBuild
    BY <1>2 DEF SameBuild, vars, output
  <2> QED
    BY BuildSame
<1> QED
    BY <1>1, <1>2, ReaderStep, WorkerStep DEF Next

(* loadOutputConfig, UploadISO: a deployment uploads a whole ISO or none at all, at        *)
(* whatever point of the build it has listed the folder and whoever deletes files of it.   *)
THEOREM DeployedIsWholeTheorem == Spec => []DeployedIsWhole
<1>1. BuildInv => DeployedIsWhole
    BY DEF BuildInv
<1> QED
    BY <1>1, SaveInit, SaveStep, BuildInit, BuildStep, PTL DEF Spec

(* importJobConfig: an import comes back without a config only when the job has left the   *)
(* registry.                                                                              *)
THEOREM ImportFallsBackTheorem == Spec => []ImportFallsBack
<1>1. BuildInv => ImportFallsBack
    BY DEF BuildInv
<1> QED
    BY <1>1, SaveInit, SaveStep, BuildInit, BuildStep, PTL DEF Spec
=============================================================================
