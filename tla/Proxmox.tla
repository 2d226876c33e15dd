------------------------------ MODULE Proxmox ------------------------------
(* internal/hypervisor/proxmox.go: every call is a task whose exit status is checked. *)
EXTENDS Hypervisor

\* The upload lands in a temporary file and is imported under its name at the end; the
\* library is then listed, so that an import that failed silently is an error unless the
\* listing fails too.
ProxmoxUploadISO(c) ==
    \/ /\ Answer(c, "upload", "uploading")
       /\ UNCHANGED <<mode, store, vms, disk, cand, ports, held>>
    \/ WriteLast(c)
    \/ BreakOff(c, iso[Slot(c)])
    \/ /\ pc[c] = "uploading" /\ faults + 2 <= MaxFaults
       /\ faults' = faults + 2 /\ pc' = [pc EXCEPT ![c] = "create"]
       /\ UNCHANGED <<mode, store, vms, disk, cand, ports, held>>

ProxmoxFindISO(c) == NotFound(c) \/ Found(c)

\* The lowest free VM id, which is not reserved.
ProxmoxNextID(c) ==
    /\ Answer(c, "create", "build")
    /\ \E i \in Ids :
        /\ vms[i].owner = 0 /\ \A j \in 1 .. i - 1 : vms[j].owner # 0
        /\ cand' = [cand EXCEPT ![c] = i]
    /\ UNCHANGED <<mode, store, vms, disk, ports, held>>

\* Mutant: an id in use is taken all the same.
ProxmoxCreateAnyway(c) ==
    /\ Done(c, "build", "attach")
    /\ vms' = [vms EXCEPT ![cand[c]] = Shell(c, cand[c])]
    /\ files' = files \cup ({cand[c]} \X Disks)
    /\ Returned(c, cand[c])
    /\ UNCHANGED <<mode, store, folders, cand, ports, got, typed, ip>>

\* One task makes the VM and its disks; it fails when the id was taken meanwhile.
ProxmoxCreateVM(c) ==
    \/ /\ pc[c] = "build" /\ vms[cand[c]].owner = 0
       /\ Done(c, "build", "attach")
       /\ vms' = [vms EXCEPT ![cand[c]] = Shell(c, cand[c])]
       /\ files' = files \cup ({cand[c]} \X Disks)
       /\ Returned(c, cand[c])
       /\ UNCHANGED <<mode, store, folders, cand, ports, got, typed, ip>>
    \/ /\ pc[c] = "build" /\ vms[cand[c]].owner # 0
       /\ Answer(c, "build", "failed")
       /\ UNCHANGED <<mode, store, vms, disk, cand, ports, held>>

\* A volume that is not in the library cannot be attached.
ProxmoxAttachISO(c) ==
    /\ pc[c] = "attach"
    /\ IF iso[got[c]] = "absent"
       THEN /\ Answer(c, "attach", "failed")
            /\ UNCHANGED <<mode, store, vms, disk, cand, ports, held>>
       ELSE Done(c, "attach", "order") /\ Alter(c, [Vm(c) EXCEPT !.cd = got[c]])

ProxmoxSetBootDiskThenCD(c) ==
    Done(c, "order", "power") /\ Alter(c, [Vm(c) EXCEPT !.order = "disk,cd"])

ProxmoxPowerOn(c) == Done(c, "power", AfterPower) /\ Alter(c, [Vm(c) EXCEPT !.on = TRUE])

ProxmoxSendKeys(c) == Type(c, ref[c])

\* Only IPv4, and neither a loopback nor a link-local address.
ProxmoxGetVMIP(c) == \E r \in Reports : Resolve(c, First(SelectSeq(r, LAMBDA a : a = "v4")))

\* A stop that fails is ignored; the deletion takes the disks with it.
ProxmoxDestroy(c) ==
    \/ NotDestroyed(c)
    \/ Gone(c, "destroyed", files \ FilesOf(Vm(c).home), folders)

ProxmoxNext(c) ==
    \/ ProxmoxFindISO(c) \/ ProxmoxUploadISO(c) \/ ProxmoxNextID(c) \/ ProxmoxCreateVM(c)
    \/ ProxmoxAttachISO(c) \/ ProxmoxSetBootDiskThenCD(c) \/ ProxmoxPowerOn(c)
    \/ ProxmoxSendKeys(c) \/ ProxmoxGetVMIP(c) \/ ProxmoxDestroy(c)
=============================================================================
