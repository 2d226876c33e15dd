------------------------------- MODULE XCPng -------------------------------
(* internal/hypervisor/xcpng.go: CreateVM is a series of XenAPI calls that is rolled back *)
(* when one of them fails.  The cached session is taken to stay valid.                    *)
EXTENDS Hypervisor

\* VDI.Create makes the entry; what fails afterwards destroys it again, best effort.  The
\* scan at the end is not checked.
XCPngUploadISO(c) ==
    \/ WriteFirst(c)
    \/ /\ Answer(c, "uploading", "create")
       /\ iso' = [iso EXCEPT ![c] = "whole"] /\ got' = [got EXCEPT ![c] = c]
       /\ UNCHANGED <<mode, torn, vms, disk, cand, ports, ref, typed, ip>>
    \/ BreakOff(c, "absent")
    \/ /\ faults + 2 <= MaxFaults /\ pc[c] = "uploading"
       /\ faults' = faults + 2 /\ pc' = [pc EXCEPT ![c] = "failed"]
       /\ UNCHANGED <<mode, store, vms, disk, cand, ports, held>>

\* VM.Create; from its answer on the VM is in the driver's hands.
XCPngVMCreate(c) ==
    /\ Done(c, "create", "uuid")
    /\ vms' = [vms EXCEPT ![c] = [Shell(c, c) EXCEPT !.disks = {}, !.cd = NoDrive]]
    /\ cand' = IF pc'[c] = "uuid" THEN [cand EXCEPT ![c] = c] ELSE cand
    /\ UNCHANGED <<mode, store, disk, ports, held>>

NextDisk(c) == CHOOSE d \in Disks \ vms[c].disks : \A e \in Disks \ vms[c].disks : d <= e
AllDisks(c) == vms[c].disks = Disks

\* VM.GetUUID, and the first disk.
XCPngGetUUID(c) ==
    /\ Answer(c, "uuid", "vdi") \/ Error(c, "uuid", "rollback")
    /\ UNCHANGED <<mode, store, vms, disk, cand, ports, held>>

\* VDI.Create.
XCPngCreateVDI(c) ==
    /\ pc[c] = "vdi" /\ ~AllDisks(c)
    /\ \/ Answer(c, "vdi", "vbd") /\ files' = files \cup {<<c, NextDisk(c)>>}
       \/ Error(c, "vdi", "rollback") /\ files' \in {files, files \cup {<<c, NextDisk(c)>>}}
    /\ UNCHANGED <<mode, store, vms, folders, cand, ports, held>>

\* VBD.Create: only a VDI with a VBD is known to the rollback and to Destroy.
XCPngCreateVBD(c) ==
    \/ /\ Answer(c, "vbd", "vdi")
       /\ SetVM(c, [vms[c] EXCEPT !.disks = @ \cup {NextDisk(c)}])
    \/ /\ Error(c, "vbd", "rollback")
       /\ UNCHANGED <<mode, store, vms, disk, cand, ports, held>>

\* The empty CD drive, then the network interface.
XCPngCreateCD(c) ==
    /\ AllDisks(c) /\ vms[c].cd = NoDrive
    /\ Answer(c, "vdi", "vif") \/ Error(c, "vdi", "rollback")
    /\ SetVM(c, [vms[c] EXCEPT !.cd = Empty])

XCPngCreateVIF(c) ==
    /\ Answer(c, "vif", "attach") \/ Error(c, "vif", "rollback")
    /\ Returned(c, c)
    /\ UNCHANGED <<mode, store, vms, disk, cand, ports, got, typed, ip>>

Attached(c) == {<<c, d>> : d \in vms[c].disks}

\* destroyVMBestEffort: no error of it is seen.
XCPngRollback(c) ==
    /\ \/ /\ Answer(c, "rollback", "failed")
          /\ vms' = [vms EXCEPT ![c] = NoVM] /\ files' = files \ Attached(c)
       \/ /\ Error(c, "rollback", "failed")
          /\ \/ vms' = vms /\ \E left \in SUBSET Attached(c) : files' = files \ left
             \/ vms' = [vms EXCEPT ![c] = NoVM] /\ files' = files
    /\ UNCHANGED <<mode, store, folders, cand, ports, held>>

\* VBD.Insert of the VDI into the CD drive.
XCPngAttachISO(c) ==
    /\ pc[c] = "attach" /\ Vm(c).cd # NoDrive /\ iso[got[c]] # "absent"
    /\ Done(c, "attach", "order") /\ Alter(c, [Vm(c) EXCEPT !.cd = got[c]])

\* SetHVMBootParams replaces the whole map: the firmware key that CreateVM put there goes.
XCPngSetBootDiskThenCD(c) ==
    Done(c, "order", "power") /\ Alter(c, [Vm(c) EXCEPT !.order = "disk,cd", !.efi = FALSE])

XCPngPowerOn(c) == Done(c, "power", AfterPower) /\ Alter(c, [Vm(c) EXCEPT !.on = TRUE])

\* The first "N/ip" entry of the guest metrics, which are IPv4 entries.
XCPngGetVMIP(c) == \E r \in Reports : Resolve(c, First(SelectSeq(r, LAMBDA a : a # "v6")))

\* The VDIs are found by the VBDs and destroyed after the VM; their errors are ignored.
XCPngDestroy(c) ==
    \/ NotDestroyed(c)
    \/ Gone(c, "destroyed", files \ Attached(c), folders)
    \/ /\ Error(c, "destroy", "destroyed")
       /\ vms' = [vms EXCEPT ![c] = NoVM]
       /\ UNCHANGED <<mode, store, disk, cand, ports, held>>

XCPngNext(c) ==
    \/ XCPngUploadISO(c) \/ XCPngVMCreate(c) \/ XCPngGetUUID(c) \/ XCPngCreateVDI(c)
    \/ XCPngCreateVBD(c) \/ XCPngCreateCD(c) \/ XCPngCreateVIF(c) \/ XCPngRollback(c)
    \/ XCPngAttachISO(c) \/ XCPngSetBootDiskThenCD(c) \/ XCPngPowerOn(c)
    \/ XCPngGetVMIP(c) \/ XCPngDestroy(c)
=============================================================================
