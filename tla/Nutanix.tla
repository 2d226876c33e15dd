------------------------------ MODULE Nutanix ------------------------------
(* internal/hypervisor/nutanix.go: every change is a PUT of the VM's whole intent, read *)
(* just before, and a task that is polled to its end.                                   *)
EXTENDS Hypervisor

\* CreateImage makes the record, UploadImage fills it; nothing removes a record again.
NutanixUploadISO(c) == WriteFirst(c) \/ WriteLast(c) \/ BreakOff(c, "partial")

\* One task.  The UUID is in the answer to the POST, but returned after the task only.
NutanixCreateVM(c) ==
    /\ Done(c, "create", "attach")
    /\ vms' = [vms EXCEPT ![c] = [Shell(c, c) EXCEPT !.cd = NoDrive]]
    /\ files' = files \cup ({c} \X Disks)
    /\ Returned(c, c)
    /\ UNCHANGED <<mode, store, folders, cand, ports, got, typed, ip>>

\* updateVM: the intent that getVM has just returned, with one part changed.
NutanixUpdateVM(c, from, to, vm) == Done(c, from, to) /\ Alter(c, vm)

\* A CDROM disk is appended to the list.
NutanixAttachISO(c) == NutanixUpdateVM(c, "attach", "order", [Vm(c) EXCEPT !.cd = got[c]])

\* Mutant: the boot configuration is replaced, as XCP-ng does.
NutanixResetBootConfig(c) ==
    NutanixUpdateVM(c, "order", "power", [Vm(c) EXCEPT !.order = "disk,cd", !.efi = FALSE])

\* The device order; the boot type stays.
NutanixSetBootDiskThenCD(c) ==
    NutanixUpdateVM(c, "order", "power", [Vm(c) EXCEPT !.order = "disk,cd"])

NutanixPowerOn(c) == NutanixUpdateVM(c, "power", "up", [Vm(c) EXCEPT !.on = TRUE])

\* The first endpoint of the first NIC that has one.
NutanixGetVMIP(c) == \E r \in Reports : Resolve(c, First(r))

\* The power-off is best effort, the deletion takes the disks with it.
NutanixDestroy(c) ==
    \/ NotDestroyed(c)
    \/ Gone(c, "destroyed", files \ FilesOf(Vm(c).home), folders)

NutanixNext(c) ==
    \/ NutanixUploadISO(c) \/ NutanixCreateVM(c) \/ NutanixAttachISO(c)
    \/ NutanixSetBootDiskThenCD(c) \/ NutanixPowerOn(c) \/ NutanixGetVMIP(c)
    \/ NutanixDestroy(c)
=============================================================================
