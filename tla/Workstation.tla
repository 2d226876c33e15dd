---------------------------- MODULE Workstation ----------------------------
(* internal/hypervisor/workstation.go and vnc.go: scripts over WinRM as for Hyper-V; a VM *)
(* is a .vmx file in a folder of its own, and its console a VNC port of the host.         *)
EXTENDS Hypervisor

WorkstationUploadISO(c) ==
    WriteFirst(c) \/ WriteLast(c) \/ BreakOff(c, "partial")

WorkstationFindISO(c) == NotFound(c) \/ Found(c)

\* The driver value a client works with.
Driver(c) == IF shared THEN 1 ELSE c

\* A port is taken from the driver's counter, then the script picks a free folder.
WorkstationAllocate(c) ==
    /\ Answer(c, "create", "folder")
    /\ port' = [port EXCEPT ![c] = nextPort[Driver(c)]]
    /\ nextPort' = [nextPort EXCEPT ![Driver(c)] = @ + 1]
    /\ \E n \in Ids : n \notin folders /\ 1 .. n - 1 \subseteq folders /\ cand' = [cand EXCEPT ![c] = n]
    /\ UNCHANGED <<mode, store, vms, disk, held>>

\* New-Item -Force: the folder may exist by now.
WorkstationNewFolder(c) ==
    /\ Done(c, "folder", "disks") /\ folders' = folders \cup {cand[c]}
    /\ UNCHANGED <<mode, store, vms, files, cand, ports, held>>

\* vmware-vdiskmanager fails when the file exists, and its exit code ends the script.
WorkstationDisks(c) ==
    \/ /\ FilesOf(cand[c]) # {}
       /\ Answer(c, "disks", "failed")
       /\ UNCHANGED <<mode, store, vms, disk, cand, ports, held>>
    \/ /\ FilesOf(cand[c]) = {}
       /\ \/ Answer(c, "disks", "vmx") /\ files' = files \cup ({cand[c]} \X Disks)
          \/ /\ Error(c, "disks", "failed")
             /\ \E d \in SUBSET Disks : files' = files \cup ({cand[c]} \X d)
       /\ UNCHANGED <<mode, store, vms, folders, cand, ports, held>>

\* Set-Content of the .vmx: from here on there is a VM, and its path is the reference.
WorkstationWriteVMX(c) ==
    /\ Done(c, "vmx", "attach")
    /\ vms' = [vms EXCEPT ![cand[c]] = [Shell(c, cand[c]) EXCEPT !.port = port[c], !.cd = NoDrive]]
    /\ Returned(c, cand[c])
    /\ UNCHANGED <<mode, store, disk, cand, ports, got, typed, ip>>

\* The image, then that the drive is present, as it is from the start.
WorkstationAttachISO(c) == Done(c, "attach", "order") /\ Alter(c, [Vm(c) EXCEPT !.cd = got[c]])

WorkstationSetBootDiskThenCD(c) ==
    Done(c, "order", "power") /\ Alter(c, [Vm(c) EXCEPT !.order = "disk,cd"])

\* Through WMI, then the list of running VMs is polled: a VM may come up after that.
WorkstationPowerOn(c) ==
    Done(c, "power", AfterPower) /\ Alter(c, [Vm(c) EXCEPT !.on = TRUE])

\* The keys go to whichever running VM has the port.
WorkstationSendKeys(c) ==
    pc[c] = "keys" /\ \E i \in Ids : vms[i].on /\ vms[i].port = Vm(c).port /\ Type(c, i)

\* IPv4 by its form alone, which a loopback or link-local address has, too.
WorkstationGetVMIP(c) ==
    \E r \in Reports : Resolve(c, IF First(r) = "v6" THEN "none" ELSE First(r))

\* The exit code of deleteVM is not looked at: a VM that could not be deleted stays, and
\* the folder goes unless the VM holds its files.
WorkstationDestroy(c) ==
    LET home == Vm(c).home IN
    \/ NotDestroyed(c)
    \/ Gone(c, "destroyed", files \ FilesOf(home), folders \ {home})
    \/ /\ Error(c, "destroy", "destroyed")
       /\ UNCHANGED <<mode, store, vms, disk, cand, ports, held>>

WorkstationNext(c) ==
    \/ WorkstationFindISO(c) \/ WorkstationUploadISO(c) \/ WorkstationAllocate(c)
    \/ WorkstationNewFolder(c) \/ WorkstationDisks(c) \/ WorkstationWriteVMX(c)
    \/ WorkstationAttachISO(c) \/ WorkstationSetBootDiskThenCD(c) \/ WorkstationPowerOn(c)
    \/ WorkstationSendKeys(c) \/ WorkstationGetVMIP(c) \/ WorkstationDestroy(c)
=============================================================================
