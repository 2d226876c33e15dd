------------------------------- MODULE HyperV -------------------------------
(* internal/hypervisor/hyperv.go: PowerShell scripts over WinRM.  A script runs on the    *)
(* host beside those of the other clients; an error ends it where it is.  A VM's name is  *)
(* the name of its folder.                                                                *)
EXTENDS Hypervisor

\* The first chunk creates or truncates the file, the others are appended to it.
HyperVUploadISO(c) ==
    WriteFirst(c) \/ WriteLast(c) \/ BreakOff(c, "partial")

\* Test-Path.
HyperVFindISO(c) == NotFound(c) \/ Found(c)

Taken(n) == n \in folders \/ \E i \in Ids : vms[i].owner # 0 /\ vms[i].home = n

\* A free name: neither a VM nor a folder has it.
HyperVFreeName(c) ==
    /\ Answer(c, "create", "folder")
    /\ \E n \in Ids : ~Taken(n) /\ (\A m \in 1 .. n - 1 : Taken(m)) /\ cand' = [cand EXCEPT ![c] = n]
    /\ UNCHANGED <<mode, store, vms, disk, ports, held>>

\* The folder, which may exist by now, and the VM, whose name may be taken by now.
HyperVNewVM(c) ==
    /\ Done(c, "folder", "disks")
    /\ folders' = folders \cup {cand[c]}
    /\ vms' = [vms EXCEPT ![c] = [Shell(c, cand[c]) EXCEPT !.disks = {}, !.cd = NoDrive]]
    /\ UNCHANGED <<mode, store, files, cand, ports, held>>

\* Mutant: a virtual disk that exists is attached as it is.
HyperVAnyVHD(c) ==
    LET d == CHOOSE x \in Disks \ vms[c].disks : \A y \in Disks \ vms[c].disks : x <= y IN
    /\ pc[c] = "disks" /\ vms[c].disks # Disks
    /\ Done(c, "disks", "disks")
    /\ files' = files \cup {<<cand[c], d>>}
    /\ vms' = [vms EXCEPT ![c].disks = @ \cup {d}]
    /\ UNCHANGED <<mode, store, folders, cand, ports, held>>

\* New-VHD, which fails when the file exists, and Add-VMHardDiskDrive.
HyperVNewVHD(c) ==
    LET d == CHOOSE x \in Disks \ vms[c].disks : \A y \in Disks \ vms[c].disks : x <= y IN
    /\ pc[c] = "disks" /\ vms[c].disks # Disks
    /\ IF <<cand[c], d>> \in files
       THEN Answer(c, "disks", "failed") /\ UNCHANGED <<vms, files>>
       ELSE /\ Done(c, "disks", "disks")
            /\ files' = files \cup {<<cand[c], d>>}
            /\ vms' = [vms EXCEPT ![c].disks = @ \cup {d}]
    /\ UNCHANGED <<mode, store, folders, cand, ports, held>>

\* The TPM, and the GUID, which is the reference.
HyperVEnableTPM(c) ==
    /\ vms[c].disks = Disks
    /\ Answer(c, "disks", "attach") \/ Error(c, "disks", "failed")
    /\ Returned(c, c)
    /\ UNCHANGED <<mode, store, vms, disk, cand, ports, got, typed, ip>>

\* The cmdlets that take a name act on every VM of that name.
Named(c) == {i \in Ids : vms[i].owner # 0 /\ vms[i].home = Vm(c).home}

HyperVByName(c, field, val) ==
    /\ vms' = [i \in Ids |-> IF i \in Named(c) THEN [vms[i] EXCEPT ![field] = val] ELSE vms[i]]
    /\ UNCHANGED <<mode, store, disk, cand, ports, held>>

HyperVAttachISO(c) ==
    Done(c, "attach", "order") /\ HyperVByName(c, "cd", got[c])

\* By GUID: disk, DVD and network, as far as the VM has them.
HyperVSetBootDiskThenCD(c) ==
    /\ pc[c] = "order" /\ Vm(c).disks # {} /\ Vm(c).cd # NoDrive
    /\ Done(c, "order", "power") /\ Alter(c, [Vm(c) EXCEPT !.order = "disk,cd"])

HyperVPowerOn(c) ==
    Done(c, "power", AfterPower) /\ HyperVByName(c, "on", TRUE)

\* By GUID, in chunks: an error in between leaves a part typed.
HyperVSendKeys(c) == Type(c, ref[c])

\* Only IPv4, and neither a loopback nor a link-local address.
HyperVGetVMIP(c) == \E r \in Reports : Resolve(c, First(SelectSeq(r, LAMBDA a : a = "v4")))

\* No VM of that GUID is a success.  The files and the folder go best effort, and the
\* folder takes with it what else is in it.
HyperVDestroy(c) ==
    LET home == Vm(c).home IN
    \/ NotDestroyed(c)
    \/ /\ pc[c] = "destroy"
       /\ \E f \in {files, files \ FilesOf(home)} :
              Gone(c, "destroyed", f, IF f = files THEN folders ELSE folders \ {home})

HyperVNext(c) ==
    \/ HyperVFindISO(c) \/ HyperVUploadISO(c) \/ HyperVFreeName(c) \/ HyperVNewVM(c)
    \/ HyperVNewVHD(c) \/ HyperVEnableTPM(c) \/ HyperVAttachISO(c)
    \/ HyperVSetBootDiskThenCD(c) \/ HyperVPowerOn(c) \/ HyperVSendKeys(c)
    \/ HyperVGetVMIP(c) \/ HyperVDestroy(c)
=============================================================================
