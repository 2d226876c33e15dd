------------------------------ MODULE VSphere ------------------------------
(* internal/hypervisor/vsphere.go: govmomi tasks on managed objects. *)
EXTENDS Hypervisor

\* Datastore.Upload writes iso/<name> in place; a broken one may leave what arrived.
VSphereUploadISO(c) ==
    WriteFirst(c) \/ WriteLast(c) \/ \E left \in {"absent", "partial"} : BreakOff(c, left)

\* Datastore.Stat of that file.
VSphereFindISO(c) == NotFound(c) \/ Found(c)

\* One task makes the VM with all its devices; its result is the reference.
VSphereCreateVM(c) ==
    /\ Done(c, "create", "attach")
    /\ vms' = [vms EXCEPT ![c] = Shell(c, c)]
    /\ files' = files \cup ({c} \X Disks)
    /\ Returned(c, c)
    /\ UNCHANGED <<mode, store, folders, cand, ports, got, typed, ip>>

\* The backing of the drive CreateVM made.
VSphereAttachISO(c) ==
    /\ pc[c] = "attach" /\ Vm(c).cd # NoDrive
    /\ Done(c, "attach", "order") /\ Alter(c, [Vm(c) EXCEPT !.cd = got[c]])

\* BootOptions is rewritten, Secure Boot off included; the firmware is not in it.
VSphereSetBootDiskThenCD(c) ==
    /\ pc[c] = "order" /\ Vm(c).disks # {}
    /\ Done(c, "order", "power") /\ Alter(c, [Vm(c) EXCEPT !.order = "disk,cd"])

VSpherePowerOn(c) == Done(c, "power", AfterPower) /\ Alter(c, [Vm(c) EXCEPT !.on = TRUE])

\* All keys in one PutUsbScanCodes.
VSphereSendKeys(c) == Type(c, ref[c])

\* The primary address as VMware Tools reports it.
VSphereGetVMIP(c) == \E r \in Reports : Resolve(c, First(r))

\* The power-off is best effort, the Destroy task removes the VM and its disks.
VSphereDestroy(c) ==
    \/ NotDestroyed(c)
    \/ Gone(c, "destroyed", files \ FilesOf(Vm(c).home), folders)

VSphereNext(c) ==
    \/ VSphereFindISO(c) \/ VSphereUploadISO(c) \/ VSphereCreateVM(c) \/ VSphereAttachISO(c)
    \/ VSphereSetBootDiskThenCD(c) \/ VSpherePowerOn(c) \/ VSphereSendKeys(c)
    \/ VSphereGetVMIP(c) \/ VSphereDestroy(c)
=============================================================================
