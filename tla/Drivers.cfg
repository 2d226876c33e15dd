SPECIFICATION Spec
CONSTANTS
    Clients = {1, 2}
    Kinds = {"proxmox", "vsphere", "xcpng", "nutanix", "hyperv", "workstation"}
    Disks = {1, 2}
    MaxFaults = 2
INVARIANTS
    OwnVM
    Installs
PROPERTY HandsOff
CHECK_DEADLOCK FALSE
