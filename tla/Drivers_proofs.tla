--------------------------- MODULE Drivers_proofs ---------------------------
(***************************************************************************)
(* Proofs about the hypervisor drivers, for any number of clients, disks   *)
(* and failing calls, on every driver: the VM of a client is its own and   *)
(* complete, a node is installed as asked for, and no call takes anything  *)
(* from another client.                                                    *)
(*                                                                         *)
(* The actions of the six drivers come down to twelve shapes (Fetches ...  *)
(* Assembles) that say who changes what; the lemmas <Driver>Shape show     *)
(* that every action has one.  The inductive invariant DriversInv relates  *)
(* the stage of a client to the VM it holds or makes, and the VMs to each  *)
(* other; RespectsOthers says what a step leaves to the other clients, and *)
(* one lemma per part of the invariant does the rest.                      *)
(***************************************************************************)
EXTENDS Drivers, FiniteSetTheorems, WellFoundedInduction, TLAPS

-----------------------------------------------------------------------------
(* The stages of a node: before it has a VM, while CreateVM makes one, with one, and after. *)

Before == {"start", "find", "upload", "uploading", "create"}
Making == {"build", "folder", "disks", "vmx", "uuid", "vdi", "vbd", "vif", "rollback"}
Up     == {"attach", "order", "power", "keys", "up", "ready"}
Past   == {"destroyed", "undestroyed"}
Stages == Before \cup Making \cup Up \cup Past \cup {"failed", "destroy"}

\* The drivers that give a VM an id of its own at once; the others choose one.
ByClient == {"vsphere", "xcpng", "nutanix", "hyperv"}

Slots == {0} \cup Clients

VM == [owner : Slots, home : Slots, disks : SUBSET Disks, cd : {NoDrive, Empty} \cup Slots,
       order : {"", "disk,cd"}, efi : BOOLEAN, on : BOOLEAN, port : Nat]

\* The address of a guest is left out: nothing rests on it.
Typed ==
    /\ kind \in {"proxmox", "vsphere", "xcpng", "nutanix", "hyperv", "workstation"}
    /\ kick \in BOOLEAN /\ shared \in BOOLEAN /\ (kick => kind \in SupportsKickstart)
    /\ pc \in [Clients -> Stages] /\ faults \in Nat
    /\ iso \in [Slots -> {"absent", "partial", "whole", "torn"}] /\ torn \subseteq Slots
    /\ vms \in [Ids -> VM] /\ files \subseteq Ids \X Disks /\ folders \subseteq Ids
    /\ cand \in [Clients -> Slots]
    /\ nextPort \in [Clients -> Nat] /\ port \in [Clients -> Nat]
    /\ got \in [Clients -> Slots] /\ ref \in [Clients -> Slots] /\ typed \in [Clients -> Slots]

-----------------------------------------------------------------------------
(* Types. *)
\* The numbers of the clients.
LEMMA Numbers ==
    /\ Clients \subseteq Nat \ {0} /\ Disks \subseteq Nat \ {0} /\ MaxFaults \in Nat
    /\ Disks # {} /\ 1 \in Disks
    /\ Clients # {} => 1 \in Clients
    /\ IsFiniteSet(Disks) /\ IsFiniteSet(Clients)
<1>1. /\ Clients = 1 .. Cardinality(Clients) /\ Disks = 1 .. Cardinality(Disks)
      /\ Cardinality(Clients) \in Nat /\ Cardinality(Disks) \in Nat
  BY HypervisorAssumption, FS_CardinalityType
<1>2. Cardinality(Disks) # 0
  BY <1>1, HypervisorAssumption
<1>3. 1 .. Cardinality(Clients) \subseteq Nat \ {0} /\ 1 .. Cardinality(Disks) \subseteq Nat \ {0}
  BY <1>1
<1>4. 1 \in Disks
  BY <1>1, <1>2
<1>5. Clients # {} => 1 \in Clients
  BY <1>1
<1>6. QED
  BY <1>1, <1>3, <1>4, <1>5, HypervisorAssumption

\* How a stage follows another.
Goes(c, from, to) ==
    /\ pc[c] = from /\ pc' = [pc EXCEPT ![c] = to]
    /\ faults' \in Nat /\ faults' >= faults

LEMMA Outcomes ==
    ASSUME Typed, NEW c \in Clients, NEW from, NEW to
    PROVE  /\ Answer(c, from, to) => Goes(c, from, to) /\ faults' = faults
           /\ Error(c, from, to) => Goes(c, from, to) /\ faults' = faults + 1
           /\ Done(c, from, to) => Goes(c, from, to) \/ Goes(c, from, "failed")
BY DEF Typed, Answer, Error, Done, Goes

LEMMA GoesWell ==
    ASSUME Typed, NEW c \in Clients, NEW from, NEW to \in Stages, Goes(c, from, to)
    PROVE  /\ pc[c] = from /\ pc' \in [Clients -> Stages] /\ pc'[c] = to /\ faults' \in Nat
           /\ \A d \in Clients \ {c} : pc'[d] = pc[d]
BY DEF Typed, Goes
-----------------------------------------------------------------------------
(* What an action of client c does, whatever the driver. *)

\* The stages and the faults.
Moved(c, from, to) ==
    /\ pc[c] \in from /\ pc'[c] \in to /\ faults' >= faults
    /\ \A d \in Clients \ {c} : pc'[d] = pc[d]

\* Nothing changes for the other clients.
Apart(c) ==
    /\ UNCHANGED <<kind, kick, shared>>
    /\ \A d \in Clients \ {c} :
          /\ cand'[d] = cand[d] /\ port'[d] = port[d] /\ got'[d] = got[d]
          /\ ref'[d] = ref[d] /\ typed'[d] = typed[d]

\* The VMs, and who holds which, are left alone.
Still == UNCHANGED <<kind, kick, shared, vms, files, cand, nextPort, port, ref, typed>>

Fetches(c) ==       \* it works on the library
    /\ Still /\ Moved(c, Before, Before \cup {"failed"})
    /\ \A d \in Clients \ {c} : got'[d] = got[d]

Passes(c) ==        \* only its stage changes
    /\ Still /\ UNCHANGED <<iso, torn, got>>
    /\ \/ Moved(c, {"build", "disks"} \cup (Up \ {"ready"}), {"failed"})
       \/ Moved(c, {"folder"}, {"disks", "failed"}) /\ kind = "workstation"
       \/ Moved(c, {"ready", "failed"}, {"destroy"}) /\ ref[c] # 0
       \/ Moved(c, {"destroy"}, Past)
       \/ Moved(c, {"up"}, {"up", "ready"})

Chooses(c) ==       \* an id, name or folder, and a port
    /\ UNCHANGED <<vms, files, iso, torn, got, ref, typed>> /\ Apart(c)
    /\ cand'[c] \in Ids
    /\ \/ kind = "proxmox" /\ Moved(c, {"create"}, {"build"}) /\ UNCHANGED <<nextPort, port>>
       \/ kind = "hyperv" /\ Moved(c, {"create"}, {"folder"}) /\ UNCHANGED <<nextPort, port>>
       \/ /\ kind = "workstation" /\ Moved(c, {"create"}, {"folder"})
          /\ port'[c] = nextPort[Driver(c)]
          /\ nextPort' = [nextPort EXCEPT ![Driver(c)] = @ + 1]

Creates(c, i) ==    \* a VM with all its disks, at id i
    /\ UNCHANGED <<cand, nextPort, port, iso, torn, got, typed>> /\ Apart(c)
    /\ \/ kind \in {"vsphere", "nutanix"} /\ Moved(c, {"create"}, {"attach", "failed"}) /\ i = c
       \/ /\ kind = "proxmox" /\ Moved(c, {"build"}, {"attach", "failed"})
          /\ i = cand[c] /\ vms[i].owner = 0
       \/ kind = "workstation" /\ Moved(c, {"vmx"}, {"attach", "failed"}) /\ i = cand[c]
    /\ vms'[i].owner = c /\ vms'[i].home = i /\ vms'[i].disks = Disks
    /\ vms'[i].efi /\ vms'[i].port = (IF kind = "workstation" THEN port[c] ELSE 0)
    /\ \A j \in Ids \ {i} : vms'[j] = vms[j]
    /\ files' = files \cup ({i} \X Disks)
    /\ ref'[c] = IF pc'[c] = "attach" THEN i ELSE ref[c]

Namesake(c, i) ==     \* on Hyper-V, the VMs that go by the name of c's
    kind = "hyperv" /\ vms[i].owner # 0 /\ vms[i].home = Vm(c).home

Alters(c) ==        \* the drive, the boot order or the power of its VM
    /\ UNCHANGED <<files, cand, nextPort, port, iso, torn, got, ref, typed>> /\ Apart(c)
    /\ \A i \in Ids :
          /\ vms'[i].owner = vms[i].owner /\ vms'[i].home = vms[i].home
          /\ vms'[i].disks = vms[i].disks /\ vms'[i].port = vms[i].port
          /\ vms[i].owner = 0 /\ i # ref[c] => vms'[i] = vms[i]
          /\ i # ref[c] /\ ~Namesake(c, i) => vms'[i] = vms[i]
          /\ kind # "xcpng" => vms'[i].efi = vms[i].efi
    /\ \/ /\ Moved(c, {"attach"}, {"order", "failed"})
          /\ vms'[ref[c]].cd = got[c]
          /\ kind = "proxmox" => iso[got[c]] # "absent"
       \/ /\ Moved(c, {"order"}, {"power", "failed"})
          /\ vms'[ref[c]].order = "disk,cd" /\ vms'[ref[c]].cd = Vm(c).cd
       \/ /\ Moved(c, {"power"}, {"keys", "up", "failed"})
          /\ vms'[ref[c]].on
          /\ vms'[ref[c]].order = Vm(c).order /\ vms'[ref[c]].cd = Vm(c).cd

Types(c) ==         \* keys
    /\ UNCHANGED <<vms, files, cand, nextPort, port, iso, torn, got, ref>> /\ Apart(c)
    /\ Moved(c, {"keys"}, {"up", "failed"})
    /\ \/ typed'[c] = ref[c]
       \/ /\ kind = "workstation" /\ typed'[c] \in Ids
          /\ vms[typed'[c]].on /\ vms[typed'[c]].port = Vm(c).port

Destroys(c) ==      \* its VM, with files that are in the VM's home
    /\ UNCHANGED <<cand, nextPort, port, iso, torn, got, ref, typed>> /\ Apart(c)
    /\ Moved(c, {"destroy"}, Past)
    /\ vms'[ref[c]] = NoVM /\ \A i \in Ids \ {ref[c]} : vms'[i] = vms[i]
    /\ files' \subseteq files
    /\ \A f \in files \ files' : f[1] = IF kind = "xcpng" THEN c ELSE Vm(c).home

\* On Hyper-V and XCP-ng a VM is first made without its disks,
Founds(c) ==
    /\ UNCHANGED <<files, nextPort, port, iso, torn, got, ref, typed>> /\ Apart(c)
    /\ \/ kind = "hyperv" /\ Moved(c, {"folder"}, {"disks", "failed"}) /\ cand'[c] = cand[c]
       \/ /\ kind = "xcpng" /\ Moved(c, {"create"}, {"uuid", "failed"})
          /\ cand'[c] = IF pc'[c] = "uuid" THEN c ELSE cand[c]
    /\ vms'[c].owner = c /\ vms'[c].home = (IF kind = "hyperv" THEN cand[c] ELSE c)
    /\ vms'[c].disks = {} /\ vms'[c].efi /\ vms'[c].port = 0
    /\ \A j \in Ids \ {c} : vms'[j] = vms[j]

Plugs(c) ==         \* gets them one by one
    /\ UNCHANGED <<cand, nextPort, port, iso, torn, got, ref, typed>> /\ Apart(c)
    /\ kind = "hyperv" /\ Moved(c, {"disks"}, {"disks", "failed"})
    /\ vms'[c].owner = vms[c].owner /\ vms'[c].home = vms[c].home
    /\ vms'[c].efi = vms[c].efi /\ vms'[c].port = vms[c].port
    /\ \A j \in Ids \ {c} : vms'[j] = vms[j]
    /\ \E d \in Disks :
          /\ vms'[c].disks = vms[c].disks \cup {d} /\ files' = files \cup {<<cand[c], d>>}
          /\ <<cand[c], d>> \notin files
          /\ 1 \in vms[c].disks \/ d = 1

Hands(c) ==         \* and is handed over when it has them.
    /\ UNCHANGED <<vms, files, cand, nextPort, port, iso, torn, got, typed>> /\ Apart(c)
    /\ \/ kind = "hyperv" /\ Moved(c, {"disks"}, {"attach", "failed"}) /\ vms[c].disks = Disks
       \/ /\ kind = "xcpng" /\ Moved(c, {"vif"}, {"attach", "rollback"})
          /\ pc'[c] = "rollback" => faults' > faults
    /\ ref'[c] = IF pc'[c] = "attach" THEN c ELSE ref[c]

Lays(c) ==          \* Workstation has the disks before the VM
    /\ UNCHANGED <<vms, cand, nextPort, port, iso, torn, got, ref, typed>> /\ Apart(c)
    /\ kind = "workstation" /\ Moved(c, {"disks"}, {"vmx", "failed"})
    /\ FilesOf(cand[c]) = {} /\ files \subseteq files'
    /\ pc'[c] = "vmx" => files' = files \cup ({cand[c]} \X Disks)

\* The series of calls of XCP-ng, and its rollback.
Assembles(c) ==
    /\ UNCHANGED <<cand, nextPort, port, iso, torn, got, ref, typed>> /\ Apart(c)
    /\ kind = "xcpng" /\ \A j \in Ids \ {c} : vms'[j] = vms[j]
    /\ Moved(c, {"uuid", "vdi", "vbd", "rollback"}, {"vdi", "vbd", "vif", "rollback", "failed"})
    /\ \A f : f[1] # c => (f \in files <=> f \in files')
    /\ \/ /\ pc[c] = "uuid" /\ UNCHANGED <<vms, files>>
          /\ pc'[c] = "vdi" \/ (pc'[c] = "rollback" /\ faults' > faults)
       \/ /\ pc[c] = "vdi" /\ UNCHANGED vms /\ vms[c].disks # Disks
          /\ \/ pc'[c] = "vbd" /\ files' = files \cup {<<c, NextDisk(c)>>}
             \/ /\ pc'[c] = "rollback" /\ faults' > faults
                /\ files' \in {files, files \cup {<<c, NextDisk(c)>>}}
       \/ /\ pc[c] = "vbd" /\ UNCHANGED files /\ NextDisk(c) \in Disks
          /\ \/ /\ pc'[c] = "vdi" /\ vms'[c].owner = vms[c].owner /\ vms'[c].home = vms[c].home
                /\ vms'[c].disks = vms[c].disks \cup {NextDisk(c)} /\ vms'[c].port = vms[c].port
             \/ pc'[c] = "rollback" /\ faults' > faults /\ UNCHANGED vms
       \/ /\ pc[c] = "vdi" /\ vms[c].disks = Disks /\ UNCHANGED files
          /\ vms'[c].owner = vms[c].owner /\ vms'[c].home = vms[c].home
          /\ vms'[c].disks = vms[c].disks /\ vms'[c].port = vms[c].port
          /\ pc'[c] = "vif" \/ (pc'[c] = "rollback" /\ faults' > faults)
       \/ /\ pc[c] = "rollback" /\ pc'[c] = "failed" /\ files' \subseteq files
          /\ \/ vms'[c] = NoVM /\ files' = files \ Attached(c)
             \/ faults' > faults /\ vms'[c] = vms[c]
             \/ faults' > faults /\ vms'[c] = NoVM

Shares(c) ==
    \/ Fetches(c) \/ Passes(c) \/ Chooses(c) \/ (\E i \in Ids : Creates(c, i)) \/ Alters(c)
    \/ Types(c) \/ Destroys(c) \/ Founds(c) \/ Plugs(c) \/ Hands(c) \/ Lays(c) \/ Assembles(c)
-----------------------------------------------------------------------------
(* The inductive invariant: who has which VM. *)

\* What the stage of a client tells.
Staged(c) ==
    /\ pc[c] = "build" => kind = "proxmox"
    /\ pc[c] \in {"folder", "disks"} => kind \in {"hyperv", "workstation"}
    /\ pc[c] = "vmx" => kind = "workstation"
    /\ pc[c] \in {"uuid", "vdi", "vbd", "vif", "rollback"} => kind = "xcpng" /\ cand[c] = c
    /\ pc[c] \in Making => cand[c] # 0
    /\ pc[c] \in Before \cup Making => ref[c] = 0 /\ typed[c] = 0
    /\ pc[c] \in Up \cup Past \cup {"destroy"} => ref[c] # 0
    /\ ref[c] # 0 => ref[c] = IF kind \in ByClient THEN c ELSE cand[c]

\* A client that holds a VM owns it, with every disk, until it was destroyed.
Held(c) ==
    ref[c] # 0 =>
        /\ pc[c] \notin Past => Vm(c).owner = c
        /\ Vm(c).owner = c => Vm(c).disks = Disks

\* What Hyper-V has before the reference is known.
Half(c) == kind = "hyperv" /\ pc[c] = "disks" => vms[c].owner = c /\ vms[c].efi

\* On Workstation the disks reserve the folder for the .vmx that follows.
Reserved(c) ==
    pc[c] = "vmx" =>
        /\ {cand[c]} \X Disks \subseteq files /\ vms[cand[c]].owner = 0
        /\ \A d \in Clients \ {c} : pc[d] = "vmx" => cand[d] # cand[c]

\* Whose a VM is, and where.
Home(i) ==
    vms[i].owner # 0 =>
        /\ kind \in ByClient => vms[i].owner = i
        /\ IF kind = "hyperv" THEN vms[i].home = cand[i] /\ cand[i] # 0 ELSE vms[i].home = i
        /\ kind \notin ByClient => vms[i].disks = Disks /\ i = cand[vms[i].owner]
        /\ pc[vms[i].owner] \notin Before
        /\ kind = "workstation" => pc[vms[i].owner] \notin Making
        /\ kind = "hyperv" => vms[i].disks = {} \/ 1 \in vms[i].disks

\* A VM keeps its disk files, but for a rollback that failed.
Kept(i) ==
    vms[i].owner # 0 /\ ~(kind = "xcpng" /\ pc[i] = "failed" /\ ref[i] = 0)
        => {vms[i].home} \X vms[i].disks \subseteq files

\* Of two VMs in one home, one has no disks.
Alone(i, j) ==
    i # j /\ vms[i].owner # 0 /\ vms[j].owner # 0 /\ vms[i].home = vms[j].home
        => vms[i].disks = {} \/ vms[j].disks = {}

\* How far the series of calls of XCP-ng is.
Build(c) ==
    kind = "xcpng" =>
        /\ pc[c] \in Before => FilesOf(c) = {} /\ cand[c] = 0
        /\ pc[c] \in {"uuid", "vdi", "vbd", "vif"} => vms[c].owner = c
        /\ pc[c] \in {"uuid", "vdi", "vif"} => FilesOf(c) = {<<c, d>> : d \in vms[c].disks}
        /\ pc[c] = "vbd" => /\ vms[c].disks # Disks
                            /\ FilesOf(c) = {<<c, d>> : d \in vms[c].disks \cup {NextDisk(c)}}
        /\ pc[c] = "vif" => vms[c].disks = Disks
        /\ pc[c] = "rollback" =>
               faults > 0 /\ \E x : FilesOf(c) \subseteq {<<c, d>> : d \in vms[c].disks} \cup {x}
        /\ pc[c] = "failed" /\ cand[c] = c /\ ref[c] = 0 =>
               faults >= 2 \/ (vms[c] = NoVM /\ \E x : FilesOf(c) \subseteq {x})

\* What has been done to the VM of a node.
Ready(c) ==
    /\ pc[c] \in {"order", "power", "keys", "up", "ready"} => Vm(c).cd = got[c]
    /\ pc[c] \in {"power", "keys", "up", "ready"} => Vm(c).order = "disk,cd"
    /\ pc[c] \in {"keys", "up", "ready"} => Vm(c).on
    /\ pc[c] \in Up /\ kind # "xcpng" => Vm(c).efi

\* The libraries whose entries are named when they are built.
Library ==
    /\ kind \in {"proxmox", "xcpng", "nutanix"} => torn = {}
    /\ kind = "proxmox" => \A s \in Slots : iso[s] \in {"absent", "whole"}

Whole(c) ==
    /\ kind \in {"xcpng", "nutanix"} /\ pc[c] \in {"create"} \cup Making \cup Up
           => iso[c] = "whole" /\ got[c] = c
    /\ kind = "proxmox" /\ pc[c] \in {"order", "power", "keys", "up", "ready"}
           => iso[got[c]] = "whole"

\* The VNC ports of Workstation: no two nodes of a deployment get the same one.
Consoles ==
    kind = "workstation" =>
        /\ \A i \in Ids : IF vms[i].owner = 0 THEN ~vms[i].on ELSE vms[i].port = port[vms[i].owner]
        /\ \A c \in Clients : nextPort[c] > 0 /\ (pc[c] \in Making \cup Up => port[c] # 0)
        /\ shared => \A c \in Clients : port[c] < nextPort[1]
        /\ shared => \A c, d \in Clients : c # d /\ port[c] = port[d] => port[c] = 0

Own(c) == shared /\ typed[c] # 0 => typed[c] = ref[c]

Owns(c) == Staged(c) /\ Held(c) /\ Half(c) /\ Reserved(c) /\ Build(c)

DriversInv ==
    /\ Typed /\ Library /\ Consoles
    /\ \A c \in Clients : Owns(c) /\ Ready(c) /\ Whole(c) /\ Own(c)
    /\ \A i \in Ids : Home(i) /\ Kept(i) /\ \A j \in Ids : Alone(i, j)
-----------------------------------------------------------------------------
(* The calls the drivers share. *)

\* Only the stage changes.
LEMMA PassShape ==
    ASSUME Typed, NEW c \in Clients, NEW from, NEW to \in Stages, Goes(c, from, to),
           UNCHANGED <<mode, store, vms, disk, cand, ports, held>>
    PROVE  Typed' /\ Still /\ UNCHANGED <<iso, torn, got>> /\ Moved(c, {from}, {to})
<1>1. pc' \in [Clients -> Stages] /\ faults' \in Nat /\ Moved(c, {from}, {to})
  BY GoesWell DEF Moved, Goes
<1>2. QED
  BY <1>1 DEF Typed, Still, mode, store, disk, ports, held

\* Remote calls that are refused, and what internal/deploy does between the calls.
LEMMA CommonShape ==
    ASSUME Typed, NEW c \in Clients, Begin(c) \/ Refused(c) \/ RemoveVM(c) \/ NotDestroyed(c)
    PROVE  Typed' /\ (Fetches(c) \/ Passes(c))
<1> DEFINE Same == UNCHANGED <<mode, store, vms, disk, cand, ports, held>>
<1>1. Same
  BY Zenon DEF Begin, Refused, RemoveVM, NotDestroyed
<1>2. CASE \E from \in Before : \E to \in Before \cup {"failed"} : Goes(c, from, to)
  <2>1. PICK from \in Before, to \in Before \cup {"failed"} : Goes(c, from, to)
    BY <1>2
  <2>2. Typed' /\ Still /\ UNCHANGED <<iso, torn, got>> /\ Moved(c, {from}, {to})
    BY <1>1, <2>1, PassShape DEF Stages
  <2>3. QED
    BY <2>1, <2>2 DEF Fetches, Moved
<1>3. CASE \E from \in {"build"} \cup (Up \ {"ready"}) : Goes(c, from, "failed")
  <2>1. PICK from \in {"build"} \cup (Up \ {"ready"}) : Goes(c, from, "failed")
    BY <1>3
  <2>2. Typed' /\ Still /\ UNCHANGED <<iso, torn, got>> /\ Moved(c, {from}, {"failed"})
    BY <1>1, <2>1, PassShape DEF Stages
  <2>3. QED
    BY <2>1, <2>2 DEF Passes, Moved
<1>4. CASE ref[c] # 0 /\ \E from \in {"ready", "failed"} : Goes(c, from, "destroy")
  <2>1. PICK from \in {"ready", "failed"} : Goes(c, from, "destroy")
    BY <1>4
  <2>2. Typed' /\ Still /\ UNCHANGED <<iso, torn, got>> /\ Moved(c, {from}, {"destroy"})
    BY <1>1, <2>1, PassShape DEF Stages
  <2>3. QED
    BY <1>4, <2>1, <2>2 DEF Passes, Moved
<1>5. CASE Goes(c, "destroy", "undestroyed")
  <2>2. Typed' /\ Still /\ UNCHANGED <<iso, torn, got>> /\ Moved(c, {"destroy"}, {"undestroyed"})
    BY <1>1, <1>5, PassShape DEF Stages, Past
  <2>3. QED
    BY <2>2 DEF Passes, Moved, Past
<1>6. QED
  <2> HIDE DEF Same
  <2>1. CASE Begin(c)
    <3>1. Goes(c, "start", "find") \/ Goes(c, "start", "upload")
      BY <2>1, Outcomes DEF Begin
    <3>2. QED
      BY <1>2, <3>1 DEF Before
  <2>2. CASE Refused(c)
    <3>1. PICK from \in {"find", "upload", "create", "build", "attach", "order", "power", "keys", "up"} :
               Goes(c, from, "failed")
      BY <2>2, Outcomes DEF Refused
    <3>2. QED
      BY <1>2, <1>3, <3>1 DEF Before, Up
  <2>3. CASE RemoveVM(c)
    <3>1. ref[c] # 0 /\ (Goes(c, "ready", "destroy") \/ Goes(c, "failed", "destroy"))
      BY <2>3, Outcomes DEF RemoveVM
    <3>2. QED
      BY <1>4, <3>1
  <2>4. CASE NotDestroyed(c)
    BY <1>5, <2>4, Outcomes DEF NotDestroyed
  <2>5. QED
    BY <2>1, <2>2, <2>3, <2>4
\* The library.
LEMMA LibraryShape ==
    ASSUME Typed, NEW c \in Clients, NEW left \in {"absent", "partial", "whole", "torn"},
           \/ NotFound(c) \/ Found(c) \/ WriteFirst(c) \/ WriteLast(c) \/ BreakOff(c, left)
    PROVE  Typed' /\ Fetches(c)
<1> USE DEF mode, store, disk, ports, held
<1>1. PICK from \in Before, to \in Before \cup {"failed"} : Goes(c, from, to)
  <2>1. \/ Goes(c, "find", "create") \/ Goes(c, "find", "upload") \/ Goes(c, "upload", "uploading")
        \/ Goes(c, "uploading", "create") \/ Goes(c, "uploading", "failed")
    BY Outcomes DEF NotFound, Found, WriteFirst, WriteLast, BreakOff
  <2>2. QED
    BY <2>1 DEF Before
<1>2. /\ pc' \in [Clients -> Stages] /\ faults' \in Nat /\ Moved(c, Before, Before \cup {"failed"})
  BY <1>1, GoesWell DEF Moved, Goes, Stages
<1>3. Slot(c) \in Slots
  BY DEF Slot, Slots
<1>4. /\ UNCHANGED <<kind, kick, shared, vms, files, folders, cand, nextPort, port, ref, typed>>
      /\ got' \in {got, [got EXCEPT ![c] = Slot(c)]}
  BY DEF NotFound, Found, WriteFirst, WriteLast, BreakOff
<1>5. /\ iso' \in [Slots -> {"absent", "partial", "whole", "torn"}]
      /\ torn' \subseteq Slots
  <2>1. /\ \/ iso' = iso
           \/ \E x \in {"absent", "partial", "whole", "torn"} : iso' = [iso EXCEPT ![Slot(c)] = x]
        /\ torn' \in {torn, torn \cup {Slot(c)}, torn \ {Slot(c)}}
    BY DEF NotFound, Found, WriteFirst, WriteLast, BreakOff
  <2>2. QED
    BY <1>3, <2>1 DEF Typed
<1>6. got' \in [Clients -> Slots] /\ \A d \in Clients \ {c} : got'[d] = got[d]
  BY <1>3, <1>4 DEF Typed
<1>7. QED
  BY <1>2, <1>4, <1>5, <1>6 DEF Typed, Fetches, Still

\* resolveNodeIPs.
LEMMA ResolveShape ==
    ASSUME Typed, NEW c \in Clients, NEW address, Resolve(c, address)
    PROVE  Typed' /\ Passes(c)
<1>1. Goes(c, "up", "ready") \/ (pc[c] = "up" /\ UNCHANGED <<pc, faults>>)
  BY Outcomes DEF Resolve
<1>2. pc' \in [Clients -> Stages] /\ faults' \in Nat /\ Moved(c, {"up"}, {"up", "ready"})
  <2>1. CASE Goes(c, "up", "ready")
    BY <2>1, GoesWell DEF Moved, Goes, Stages, Up
  <2>2. CASE pc[c] = "up" /\ UNCHANGED <<pc, faults>>
    BY <2>2 DEF Moved, Typed
  <2>3. QED
    BY <1>1, <2>1, <2>2
<1>3. UNCHANGED <<kind, kick, shared, iso, torn, vms, files, folders, cand, nextPort, port, got, ref, typed>>
  BY DEF Resolve, mode, store, disk, ports
<1>4. QED
  BY <1>2, <1>3 DEF Typed, Passes, Still

\* The keys.
LEMMA TypeShape ==
    ASSUME Typed, NEW c \in Clients, NEW i \in Ids, Type(c, i),
           i = ref[c] \/ (kind = "workstation" /\ vms[i].on /\ vms[i].port = Vm(c).port)
    PROVE  Typed' /\ Types(c)
<1>1. Goes(c, "keys", "up") \/ Goes(c, "keys", "failed")
  BY Outcomes DEF Type
<1>2. pc' \in [Clients -> Stages] /\ faults' \in Nat /\ Moved(c, {"keys"}, {"up", "failed"})
  BY <1>1, GoesWell DEF Moved, Goes, Stages, Up
<1>3. /\ UNCHANGED <<kind, kick, shared, iso, torn, vms, files, folders, cand, nextPort, port, got, ref>>
      /\ typed' = [typed EXCEPT ![c] = i]
  BY DEF Type, mode, store, disk, ports
<1>4. /\ typed' \in [Clients -> Slots] /\ typed'[c] = i
      /\ \A d \in Clients \ {c} : typed'[d] = typed[d]
  BY <1>3 DEF Typed, Slots, Ids
<1>5. QED
  BY <1>2, <1>3, <1>4 DEF Typed, Types, Apart

\* A VM is set to one that is typed.
LEMMA Sets ==
    ASSUME Typed, NEW i \in Ids, NEW vm \in VM, vms' = [vms EXCEPT ![i] = vm]
    PROVE  /\ vms' \in [Ids -> VM] /\ vms'[i] = vm
           /\ \A j \in Ids \ {i} : vms'[j] = vms[j]
BY DEF Typed

LEMMA Blank == /\ NoVM \in VM /\ NoVM.owner = 0 /\ ~NoVM.on
BY DEF NoVM, VM, Slots

\* The end of a VM.
LEMMA GoneShape ==
    ASSUME Typed, NEW c \in Clients, NEW to \in Past, Goes(c, "destroy", to),
           vms' = [vms EXCEPT ![ref[c]] = NoVM], ref[c] # 0,
           files' \subseteq files, folders' \subseteq Ids,
           \A x \in files \ files' : x[1] = IF kind = "xcpng" THEN c ELSE Vm(c).home,
           UNCHANGED <<mode, store, cand, ports, held>>
    PROVE  Typed' /\ Destroys(c)
<1>2. pc' \in [Clients -> Stages] /\ faults' \in Nat /\ Moved(c, {"destroy"}, Past)
  BY GoesWell DEF Goes, Moved, Stages, Past
<1>3. UNCHANGED <<kind, kick, shared, iso, torn, cand, nextPort, port, got, ref, typed>>
  BY DEF mode, store, ports, held
<1>4. ref[c] \in Ids
  BY DEF Typed, Slots, Ids
<1>5. /\ vms' \in [Ids -> VM] /\ vms'[ref[c]] = NoVM
      /\ \A i \in Ids \ {ref[c]} : vms'[i] = vms[i]
  BY <1>4, Blank, Sets
<1>6. QED
  BY <1>2, <1>3, <1>5 DEF Typed, Destroys, Apart

\* Destroy of the drivers that delete the files in the home of the VM, or leave them.
LEMMA DestroyShape ==
    ASSUME Typed, NEW c \in Clients, Staged(c), kind # "xcpng",
           NEW f \in {files, files \ FilesOf(Vm(c).home)}, NEW g \in SUBSET Ids,
           Gone(c, "destroyed", f, g)
    PROVE  Typed' /\ Destroys(c)
<1>1. Goes(c, "destroy", "destroyed") \/ Goes(c, "destroy", "undestroyed")
  BY Outcomes DEF Gone
<1>2. PICK to \in Past : Goes(c, "destroy", to)
  BY <1>1 DEF Past
<1>3. ref[c] # 0
  BY <1>2 DEF Goes, Staged
<1>4. /\ UNCHANGED <<mode, store, cand, ports, held>>
      /\ vms' = [vms EXCEPT ![ref[c]] = NoVM] /\ files' = f /\ folders' = g
  BY DEF Gone
<1>5. files' \subseteq files /\ \A x \in files \ files' : x[1] = Vm(c).home
  BY <1>4 DEF FilesOf
<1>6. QED
  BY <1>2, <1>3, <1>4, <1>5, GoneShape

\* A change of the VM a client holds.
LEMMA AlterShape ==
    ASSUME Typed, NEW c \in Clients, NEW from, NEW to \in Stages, NEW vm \in VM,
           Done(c, from, to), Alter(c, vm), ref[c] # 0
    PROVE  /\ Typed' /\ Apart(c) /\ Moved(c, {from}, {to, "failed"})
           /\ UNCHANGED <<files, cand, nextPort, port, iso, torn, got, ref, typed>>
           /\ vms'[ref[c]] = vm /\ \A j \in Ids \ {ref[c]} : vms'[j] = vms[j]
<1>1. Goes(c, from, to) \/ Goes(c, from, "failed")
  BY Outcomes
<1>2. pc' \in [Clients -> Stages] /\ faults' \in Nat /\ Moved(c, {from}, {to, "failed"})
  BY <1>1, GoesWell DEF Moved, Goes, Stages
<1>3. /\ UNCHANGED <<kind, kick, shared, files, folders, cand, nextPort, port, iso, torn, got, ref, typed>>
      /\ vms' = [vms EXCEPT ![ref[c]] = vm]
  BY DEF Alter, SetVM, mode, store, disk, ports, held
<1>4. ref[c] \in Ids
  BY DEF Typed, Slots, Ids
<1>5. /\ vms' \in [Ids -> VM] /\ vms'[ref[c]] = vm
      /\ \A j \in Ids \ {ref[c]} : vms'[j] = vms[j]
  BY <1>3, <1>4, Sets
<1>6. QED
  BY <1>2, <1>3, <1>5 DEF Typed, Apart

\* CreateVM at its end.
LEMMA CreateShape ==
    ASSUME Typed, NEW c \in Clients, NEW from, NEW i \in Ids, NEW vm \in VM,
           Done(c, from, "attach"), vms' = [vms EXCEPT ![i] = vm], Returned(c, i),
           files' \subseteq Ids \X Disks,
           UNCHANGED <<mode, store, folders, cand, ports, got, typed, ip>>
    PROVE  /\ Typed' /\ Apart(c) /\ Moved(c, {from}, {"attach", "failed"})
           /\ UNCHANGED <<cand, nextPort, port, iso, torn, got, typed>>
           /\ vms'[i] = vm /\ \A j \in Ids \ {i} : vms'[j] = vms[j]
           /\ ref'[c] = IF pc'[c] = "attach" THEN i ELSE ref[c]
<1>1. Goes(c, from, "attach") \/ Goes(c, from, "failed")
  BY Outcomes
<1>2. pc' \in [Clients -> Stages] /\ faults' \in Nat /\ Moved(c, {from}, {"attach", "failed"})
  BY <1>1, GoesWell DEF Moved, Goes, Stages, Up
<1>3. UNCHANGED <<kind, kick, shared, folders, cand, nextPort, port, iso, torn, got, typed>>
  BY DEF mode, store, ports
<1>4. /\ vms' \in [Ids -> VM] /\ vms'[i] = vm
      /\ \A j \in Ids \ {i} : vms'[j] = vms[j]
  BY Sets
<1>5. /\ ref' \in [Clients -> Slots] /\ \A d \in Clients \ {c} : ref'[d] = ref[d]
      /\ ref'[c] = IF pc'[c] = "attach" THEN i ELSE ref[c]
  BY DEF Returned, Typed, Slots, Ids
<1>6. QED
  BY <1>2, <1>3, <1>4, <1>5 DEF Typed, Apart

\* A VM with all its disks.
LEMMA NewShape ==
    ASSUME Typed, NEW c \in Clients, NEW from, NEW i \in Ids, NEW vm \in VM,
           \/ kind \in {"vsphere", "nutanix"} /\ from = "create" /\ i = c /\ vm.port = 0
           \/ kind = "proxmox" /\ from = "build" /\ i = cand[c] /\ vms[i].owner = 0 /\ vm.port = 0
           \/ kind = "workstation" /\ from = "vmx" /\ i = cand[c] /\ vm.port = port[c],
           Done(c, from, "attach"), vms' = [vms EXCEPT ![i] = vm], Returned(c, i),
           vm.owner = c, vm.home = i, vm.disks = Disks, vm.efi,
           files' = files \cup ({i} \X Disks),
           UNCHANGED <<mode, store, folders, cand, ports, got, typed, ip>>
    PROVE  Typed' /\ Shares(c)
<1>1. files' \subseteq Ids \X Disks
  BY DEF Typed
<1>2. /\ Typed' /\ Apart(c) /\ Moved(c, {from}, {"attach", "failed"})
      /\ UNCHANGED <<cand, nextPort, port, iso, torn, got, typed>>
      /\ vms'[i] = vm /\ \A j \in Ids \ {i} : vms'[j] = vms[j]
      /\ ref'[c] = IF pc'[c] = "attach" THEN i ELSE ref[c]
  <2>1. /\ Done(c, from, "attach") /\ vms' = [vms EXCEPT ![i] = vm] /\ Returned(c, i)
        /\ files' \subseteq Ids \X Disks
        /\ UNCHANGED <<mode, store, folders, cand, ports, got, typed, ip>>
    BY <1>1
  <2>2. QED
    BY ONLY Typed, c \in Clients, i \in Ids, vm \in VM, <2>1, CreateShape
<1>3. Creates(c, i)
  BY <1>2 DEF Creates
<1>4. QED
  BY <1>2, <1>3 DEF Shares

\* A choice of an id, name or folder.
LEMMA ChooseShape ==
    ASSUME Typed, NEW c \in Clients, NEW to \in {"build", "folder"}, Answer(c, "create", to),
           \E i \in Ids : cand' = [cand EXCEPT ![c] = i],
           UNCHANGED <<mode, store, vms, disk, held>>
    PROVE  /\ UNCHANGED <<kind, kick, shared, vms, files, folders, iso, torn, got, ref, typed>>
           /\ Moved(c, {"create"}, {to}) /\ pc' \in [Clients -> Stages] /\ faults' \in Nat
           /\ cand' \in [Clients -> Slots] /\ cand'[c] \in Ids
           /\ \A d \in Clients \ {c} : cand'[d] = cand[d]
<1>1. Goes(c, "create", to) /\ to \in Stages
  BY Outcomes DEF Stages, Making
<1>2. pc' \in [Clients -> Stages] /\ faults' \in Nat /\ Moved(c, {"create"}, {to})
  BY <1>1, GoesWell DEF Goes, Moved
<1>3. /\ cand' \in [Clients -> Slots] /\ cand'[c] \in Ids
      /\ \A d \in Clients \ {c} : cand'[d] = cand[d]
  BY DEF Typed, Slots, Ids
<1>4. UNCHANGED <<kind, kick, shared, vms, files, folders, iso, torn, got, ref, typed>>
  BY DEF mode, store, disk, held
<1>5. QED
  BY <1>2, <1>3, <1>4
\* Parts of a VM that are replaced.
LEMMA Edits ==
    ASSUME NEW x \in VM, NEW s \in Slots
    PROVE  /\ [x EXCEPT !.cd = s] \in VM /\ [x EXCEPT !.order = "disk,cd"] \in VM
           /\ [x EXCEPT !.on = TRUE] \in VM
           /\ [x EXCEPT !.order = "disk,cd", !.efi = FALSE] \in VM
           /\ [x EXCEPT !.cd = NoDrive] \in VM /\ [x EXCEPT !.cd = Empty] \in VM
BY DEF VM

\* What CreateVM asks for.
LEMMA ShellShape ==
    ASSUME NEW c \in Clients, NEW h \in Slots
    PROVE  /\ Shell(c, h) \in VM /\ Shell(c, h).owner = c /\ Shell(c, h).home = h
           /\ Shell(c, h).disks = Disks /\ Shell(c, h).efi /\ Shell(c, h).port = 0
           /\ ~Shell(c, h).on
BY DEF Shell, NoVM, VM, Slots

\* The VM of a client that has one is typed.
LEMMA HasVM ==
    ASSUME Typed, NEW c \in Clients, Staged(c), pc[c] \in Up \cup {"destroy"}
    PROVE  ref[c] \in Ids /\ ref[c] # 0 /\ Vm(c) \in VM /\ got[c] \in Slots
BY DEF Typed, Staged, Slots, Ids, Vm

\* AttachISO, SetBootDiskThenCD and PowerOn of a driver that changes that VM alone.
LEMMA EditShape ==
    ASSUME Typed, NEW c \in Clients, Staged(c),
           \/ /\ Done(c, "attach", "order") /\ Alter(c, [Vm(c) EXCEPT !.cd = got[c]])
              /\ kind = "proxmox" => iso[got[c]] # "absent"
           \/ Done(c, "order", "power") /\ Alter(c, [Vm(c) EXCEPT !.order = "disk,cd"])
           \/ /\ Done(c, "order", "power") /\ kind = "xcpng"
              /\ Alter(c, [Vm(c) EXCEPT !.order = "disk,cd", !.efi = FALSE])
           \/ Done(c, "power", "keys") /\ Alter(c, [Vm(c) EXCEPT !.on = TRUE])
           \/ Done(c, "power", "up") /\ Alter(c, [Vm(c) EXCEPT !.on = TRUE])
    PROVE  Typed' /\ Alters(c)
<1>1. /\ \A from, to : Done(c, from, to) => pc[c] = from
      /\ {"order", "power", "keys", "up"} \subseteq Stages
  BY DEF Done, Answer, Error, Stages, Up
<1>2. ref[c] \in Ids /\ ref[c] # 0 /\ Vm(c) \in VM /\ got[c] \in Slots
  BY <1>1, HasVM DEF Up
<1> DEFINE x == Vm(c)
<1>3. x = vms[ref[c]]
  BY DEF Vm
<1>4. CASE /\ Done(c, "attach", "order") /\ Alter(c, [x EXCEPT !.cd = got[c]])
           /\ kind = "proxmox" => iso[got[c]] # "absent"
  <2> DEFINE y == [x EXCEPT !.cd = got[c]]
  <2>1. /\ y \in VM /\ y.cd = got[c] /\ y.owner = x.owner /\ y.home = x.home
        /\ y.disks = x.disks /\ y.port = x.port /\ y.efi = x.efi
    BY <1>2, Edits DEF VM
  <2> HIDE DEF y, x
  <2>2. /\ Typed' /\ Apart(c) /\ Moved(c, {"attach"}, {"order", "failed"})
        /\ UNCHANGED <<files, cand, nextPort, port, iso, torn, got, ref, typed>>
        /\ vms'[ref[c]] = y /\ \A j \in Ids \ {ref[c]} : vms'[j] = vms[j]
    BY <1>1, <1>2, <1>4, <2>1, AlterShape DEF y, x
  <2>3. QED
    BY <1>2, <1>3, <1>4, <2>1, <2>2 DEF Alters
<1>5. ASSUME NEW y \in {[x EXCEPT !.order = "disk,cd"], [x EXCEPT !.order = "disk,cd", !.efi = FALSE]},
             Done(c, "order", "power"), Alter(c, y), y.efi = x.efi \/ kind = "xcpng"
      PROVE  Typed' /\ Alters(c)
  <2>1. /\ y \in VM /\ y.cd = x.cd /\ y.owner = x.owner /\ y.home = x.home
        /\ y.disks = x.disks /\ y.port = x.port /\ y.order = "disk,cd"
    <3>1. x \in VM
      BY <1>2
    <3> HIDE DEF x
    <3>2. CASE y = [x EXCEPT !.order = "disk,cd"]
      BY <3>1, <3>2, Edits DEF VM
    <3>3. CASE y = [x EXCEPT !.order = "disk,cd", !.efi = FALSE]
      BY <3>1, <3>3, Edits DEF VM
    <3>4. QED
      BY <1>5, <3>2, <3>3
  <2> HIDE DEF x
  <2>2. /\ Typed' /\ Apart(c) /\ Moved(c, {"order"}, {"power", "failed"})
        /\ UNCHANGED <<files, cand, nextPort, port, iso, torn, got, ref, typed>>
        /\ vms'[ref[c]] = y /\ \A j \in Ids \ {ref[c]} : vms'[j] = vms[j]
    BY <1>1, <1>2, <1>5, <2>1, AlterShape
  <2>3. QED
    BY <1>2, <1>3, <1>5, <2>1, <2>2 DEF Alters, x
<1>6. ASSUME NEW to \in {"keys", "up"}, Done(c, "power", to), Alter(c, [x EXCEPT !.on = TRUE])
      PROVE  Typed' /\ Alters(c)
  <2> DEFINE y == [x EXCEPT !.on = TRUE]
  <2>1. /\ y \in VM /\ y.cd = x.cd /\ y.owner = x.owner /\ y.home = x.home /\ y.efi = x.efi
        /\ y.disks = x.disks /\ y.port = x.port /\ y.order = x.order /\ y.on
    BY <1>2, Edits DEF VM
  <2> HIDE DEF y, x
  <2>2. /\ Typed' /\ Apart(c) /\ Moved(c, {"power"}, {to, "failed"})
        /\ UNCHANGED <<files, cand, nextPort, port, iso, torn, got, ref, typed>>
        /\ vms'[ref[c]] = y /\ \A j \in Ids \ {ref[c]} : vms'[j] = vms[j]
    <3>1. to \in Stages /\ Done(c, "power", to) /\ Alter(c, y) /\ y \in VM /\ ref[c] # 0
      BY <1>1, <1>2, <1>6, <2>1 DEF y
    <3>2. QED
      BY <3>1, AlterShape
  <2>3. Moved(c, {"power"}, {"keys", "up", "failed"})
    BY <1>6, <2>2 DEF Moved
  <2>4. QED
    BY <1>2, <1>3, <2>1, <2>2, <2>3 DEF Alters, x
<1>7. [x EXCEPT !.order = "disk,cd"].efi = x.efi
  BY <1>2 DEF VM
<1>8. QED
  BY <1>4, <1>5, <1>6, <1>7

-----------------------------------------------------------------------------
(* Every action of a driver has one of the shapes. *)

LEMMA ProxmoxShape ==
    ASSUME Typed, NEW c \in Clients, Staged(c), kind = "proxmox", ProxmoxNext(c)
    PROVE  Typed' /\ Shares(c)
<1>1. CASE ProxmoxFindISO(c) \/ ProxmoxUploadISO(c)
  <2>1. CASE NotFound(c) \/ Found(c) \/ WriteLast(c)
    BY <2>1, LibraryShape DEF Shares
  <2>2. CASE BreakOff(c, iso[Slot(c)])
    <3>1. iso[Slot(c)] \in {"absent", "partial", "whole", "torn"}
      BY DEF Typed, Slot, Slots
    <3>2. QED
      BY <2>2, <3>1, LibraryShape DEF Shares
  <2>3. ASSUME Goes(c, "upload", "uploading") \/ Goes(c, "uploading", "create"),
               UNCHANGED <<mode, store, vms, disk, cand, ports, held>>
        PROVE  Typed' /\ Shares(c)
    <3>1. /\ Typed' /\ Still /\ UNCHANGED <<iso, torn, got>>
          /\ Moved(c, {"upload"}, {"uploading"}) \/ Moved(c, {"uploading"}, {"create"})
      BY <2>3, PassShape DEF Stages, Before
    <3>2. QED
      BY <3>1 DEF Shares, Fetches, Moved, Before
  <2>4. CASE Answer(c, "upload", "uploading") /\ UNCHANGED <<mode, store, vms, disk, cand, ports, held>>
    BY <2>3, <2>4, Outcomes
  <2>5. CASE /\ pc[c] = "uploading" /\ faults + 2 <= MaxFaults
             /\ faults' = faults + 2 /\ pc' = [pc EXCEPT ![c] = "create"]
             /\ UNCHANGED <<mode, store, vms, disk, cand, ports, held>>
    BY <2>3, <2>5 DEF Goes, Typed
  <2>6. QED
    BY <1>1, <2>1, <2>2, <2>4, <2>5 DEF ProxmoxFindISO, ProxmoxUploadISO
<1>2. CASE ProxmoxNextID(c)
  <2>1. /\ Answer(c, "create", "build") /\ \E i \in Ids : cand' = [cand EXCEPT ![c] = i]
        /\ UNCHANGED <<mode, store, vms, disk, held>> /\ UNCHANGED <<nextPort, port>>
    BY <1>2 DEF ProxmoxNextID, ports
  <2>2. /\ UNCHANGED <<kind, kick, shared, vms, files, folders, iso, torn, got, ref, typed>>
        /\ Moved(c, {"create"}, {"build"}) /\ pc' \in [Clients -> Stages] /\ faults' \in Nat
        /\ cand' \in [Clients -> Slots] /\ cand'[c] \in Ids
        /\ \A d \in Clients \ {c} : cand'[d] = cand[d]
    BY <2>1, ChooseShape
  <2>3. QED
    BY <2>1, <2>2 DEF Typed, Shares, Chooses, Apart
<1>3. CASE ProxmoxCreateVM(c)
  <2> DEFINE i == cand[c]
  <2>1. CASE vms[i].owner = 0
    <3>1. /\ pc[c] = "build" /\ Done(c, "build", "attach")
          /\ vms' = [vms EXCEPT ![i] = Shell(c, i)]
          /\ files' = files \cup ({i} \X Disks)
          /\ Returned(c, i)
          /\ UNCHANGED <<mode, store, folders, cand, ports, got, typed, ip>>
      BY <1>3, <2>1 DEF ProxmoxCreateVM
    <3>2. i \in Ids
      BY <3>1 DEF Staged, Typed, Making, Slots, Ids
    <3> HIDE DEF i
    <3>. i \in Slots
      BY <3>2 DEF Slots, Ids
    <3>4. /\ Shell(c, i) \in VM /\ Shell(c, i).owner = c /\ Shell(c, i).home = i
          /\ Shell(c, i).disks = Disks /\ Shell(c, i).efi /\ Shell(c, i).port = 0
      BY ShellShape
    <3>5. QED
      BY <2>1, <3>1, <3>2, <3>4, NewShape DEF i
  <2>2. CASE vms[i].owner # 0
    <3>1. Goes(c, "build", "failed") /\ UNCHANGED <<mode, store, vms, disk, cand, ports, held>>
      BY <1>3, <2>2, Outcomes DEF ProxmoxCreateVM
    <3>2. /\ Typed' /\ Still /\ UNCHANGED <<iso, torn, got>> /\ Moved(c, {"build"}, {"failed"})
      BY <3>1, PassShape DEF Stages
    <3>3. QED
      BY <3>2 DEF Shares, Passes, Moved
  <2>3. QED
    BY <2>1, <2>2
<1>4. CASE ProxmoxAttachISO(c)
  <2>1. CASE iso[got[c]] = "absent"
    <3>1. Goes(c, "attach", "failed") /\ UNCHANGED <<mode, store, vms, disk, cand, ports, held>>
      BY <1>4, <2>1, Outcomes DEF ProxmoxAttachISO
    <3>2. /\ Typed' /\ Still /\ UNCHANGED <<iso, torn, got>> /\ Moved(c, {"attach"}, {"failed"})
      BY <3>1, PassShape DEF Stages
    <3>3. QED
      BY <3>2 DEF Shares, Passes, Moved, Up
  <2>2. CASE iso[got[c]] # "absent"
    BY <1>4, <2>2, EditShape DEF ProxmoxAttachISO, Shares
  <2>3. QED
    BY <2>1, <2>2
<1>5. CASE ProxmoxSetBootDiskThenCD(c) \/ ProxmoxPowerOn(c)
  BY <1>5, EditShape DEF ProxmoxSetBootDiskThenCD, ProxmoxPowerOn, AfterPower, Shares
<1>6. CASE ProxmoxSendKeys(c)
  <2>1. pc[c] = "keys"
    BY <1>6 DEF ProxmoxSendKeys, Type, Done, Answer, Error
  <2>2. ref[c] \in Ids
    BY <2>1, HasVM DEF Up
  <2>3. QED
    BY <1>6, <2>2, TypeShape DEF ProxmoxSendKeys, Shares
<1>7. CASE ProxmoxGetVMIP(c)
  BY <1>7, ResolveShape DEF ProxmoxGetVMIP, Shares
<1>8. CASE ProxmoxDestroy(c)
  <2>1. CASE NotDestroyed(c)
    BY <2>1, CommonShape DEF Shares
  <2>2. CASE Gone(c, "destroyed", files \ FilesOf(Vm(c).home), folders)
    BY <2>2, DestroyShape DEF Typed, Shares
  <2>3. QED
    BY <1>8, <2>1, <2>2 DEF ProxmoxDestroy
<1>9. QED
  BY <1>1, <1>2, <1>3, <1>4, <1>5, <1>6, <1>7, <1>8 DEF ProxmoxNext

LEMMA VSphereShape ==
    ASSUME Typed, NEW c \in Clients, Staged(c), kind = "vsphere", VSphereNext(c)
    PROVE  Typed' /\ Shares(c)
<1>1. CASE VSphereFindISO(c) \/ VSphereUploadISO(c)
  BY <1>1, LibraryShape DEF VSphereFindISO, VSphereUploadISO, Shares
<1>2. CASE VSphereCreateVM(c)
  <2>1. /\ Done(c, "create", "attach") /\ Returned(c, c)
        /\ vms' = [vms EXCEPT ![c] = Shell(c, c)] /\ files' = files \cup ({c} \X Disks)
        /\ UNCHANGED <<mode, store, folders, cand, ports, got, typed, ip>>
    BY <1>2 DEF VSphereCreateVM
  <2>2. /\ Shell(c, c) \in VM /\ Shell(c, c).owner = c /\ Shell(c, c).home = c
        /\ Shell(c, c).disks = Disks /\ Shell(c, c).efi /\ Shell(c, c).port = 0
    <3>1. c \in Slots
      BY DEF Slots
    <3>2. QED
      BY <3>1, ShellShape
  <2>3. c \in Ids
    BY DEF Ids
  <2>4. QED
    BY <2>1, <2>2, <2>3, NewShape
<1>3. CASE VSphereAttachISO(c) \/ VSphereSetBootDiskThenCD(c) \/ VSpherePowerOn(c)
  BY <1>3, EditShape
     DEF VSphereAttachISO, VSphereSetBootDiskThenCD, VSpherePowerOn, AfterPower, Shares
<1>4. CASE VSphereSendKeys(c)
  <2>1. pc[c] = "keys"
    BY <1>4 DEF VSphereSendKeys, Type, Done, Answer, Error
  <2>2. ref[c] \in Ids
    BY <2>1, HasVM DEF Up
  <2>3. QED
    BY <1>4, <2>2, TypeShape DEF VSphereSendKeys, Shares
<1>5. CASE VSphereGetVMIP(c)
  BY <1>5, ResolveShape DEF VSphereGetVMIP, Shares
<1>6. CASE VSphereDestroy(c)
  BY <1>6, CommonShape, DestroyShape DEF VSphereDestroy, Typed, Shares
<1>7. QED
  BY <1>1, <1>2, <1>3, <1>4, <1>5, <1>6 DEF VSphereNext

LEMMA NutanixShape ==
    ASSUME Typed, NEW c \in Clients, Staged(c), kind = "nutanix", NutanixNext(c)
    PROVE  Typed' /\ Shares(c)
<1>1. CASE NutanixUploadISO(c)
  BY <1>1, LibraryShape DEF NutanixUploadISO, Shares
<1>2. CASE NutanixCreateVM(c)
  <2> DEFINE vm == [Shell(c, c) EXCEPT !.cd = NoDrive]
  <2>1. /\ Done(c, "create", "attach") /\ Returned(c, c)
        /\ vms' = [vms EXCEPT ![c] = vm] /\ files' = files \cup ({c} \X Disks)
        /\ UNCHANGED <<mode, store, folders, cand, ports, got, typed, ip>>
    BY <1>2 DEF NutanixCreateVM
  <2>2. /\ vm \in VM /\ vm.owner = c /\ vm.home = c /\ vm.disks = Disks /\ vm.efi /\ vm.port = 0
    <3> DEFINE x == Shell(c, c)
    <3>1. c \in Slots
      BY DEF Slots
    <3>2. x \in VM /\ x.owner = c /\ x.home = c /\ x.disks = Disks /\ x.efi /\ x.port = 0
      BY <3>1, ShellShape
    <3> HIDE DEF x
    <3>3. [x EXCEPT !.cd = NoDrive] \in VM
      BY <3>1, <3>2, Edits
    <3>4. vm = [x EXCEPT !.cd = NoDrive]
      BY DEF x
    <3> HIDE DEF vm
    <3>5. QED
      BY <3>2, <3>3, <3>4 DEF VM
  <2>3. c \in Ids
    BY DEF Ids
  <2> HIDE DEF vm
  <2>4. QED
    BY <2>1, <2>2, <2>3, NewShape
<1>3. CASE NutanixAttachISO(c) \/ NutanixSetBootDiskThenCD(c) \/ NutanixPowerOn(c)
  BY <1>3, EditShape
     DEF NutanixAttachISO, NutanixSetBootDiskThenCD, NutanixPowerOn, NutanixUpdateVM, Shares
<1>4. CASE NutanixGetVMIP(c)
  BY <1>4, ResolveShape DEF NutanixGetVMIP, Shares
<1>5. CASE NutanixDestroy(c)
  BY <1>5, CommonShape, DestroyShape DEF NutanixDestroy, Typed, Shares
<1>6. QED
  BY <1>1, <1>2, <1>3, <1>4, <1>5 DEF NutanixNext

LEMMA WorkstationShape ==
    ASSUME Typed, NEW c \in Clients, Staged(c), Reserved(c), kind = "workstation",
           WorkstationNext(c)
    PROVE  Typed' /\ Shares(c)
<1>1. CASE WorkstationFindISO(c) \/ WorkstationUploadISO(c)
  BY <1>1, LibraryShape DEF WorkstationFindISO, WorkstationUploadISO, Shares
<1>2. CASE WorkstationAllocate(c)
  <2>1. /\ Answer(c, "create", "folder") /\ \E i \in Ids : cand' = [cand EXCEPT ![c] = i]
        /\ UNCHANGED <<mode, store, vms, disk, held>>
        /\ port' = [port EXCEPT ![c] = nextPort[Driver(c)]]
        /\ nextPort' = [nextPort EXCEPT ![Driver(c)] = @ + 1]
    BY <1>2 DEF WorkstationAllocate
  <2>2. /\ UNCHANGED <<kind, kick, shared, vms, files, folders, iso, torn, got, ref, typed>>
        /\ Moved(c, {"create"}, {"folder"}) /\ pc' \in [Clients -> Stages] /\ faults' \in Nat
        /\ cand' \in [Clients -> Slots] /\ cand'[c] \in Ids
        /\ \A d \in Clients \ {c} : cand'[d] = cand[d]
    BY <2>1, ChooseShape
  <2>3. Driver(c) \in Clients
    BY Numbers DEF Driver
  <2>4. /\ port' \in [Clients -> Nat] /\ nextPort' \in [Clients -> Nat]
        /\ port'[c] = nextPort[Driver(c)] /\ \A d \in Clients \ {c} : port'[d] = port[d]
    BY <2>1, <2>3 DEF Typed
  <2>5. QED
    BY <2>1, <2>2, <2>4 DEF Typed, Shares, Chooses, Apart
<1>3. ASSUME UNCHANGED <<mode, store, vms, cand, ports, held>>, pc[c] \in {"folder", "disks"},
             NEW to \in Stages, Goes(c, pc[c], to), files' \subseteq Ids \X Disks, folders' \subseteq Ids
      PROVE  /\ Typed' /\ Moved(c, {pc[c]}, {to}) /\ Apart(c)
             /\ UNCHANGED <<kind, kick, shared, vms, cand, nextPort, port, iso, torn, got, ref, typed>>
  <2>1. pc' \in [Clients -> Stages] /\ faults' \in Nat /\ Moved(c, {pc[c]}, {to})
    BY <1>3, GoesWell DEF Goes, Moved
  <2>2. UNCHANGED <<kind, kick, shared, vms, cand, nextPort, port, iso, torn, got, ref, typed>>
    BY <1>3 DEF mode, store, ports, held
  <2>3. QED
    BY <1>3, <2>1, <2>2 DEF Typed, Apart
<1>4. CASE WorkstationNewFolder(c)
  <2>1. /\ Goes(c, "folder", "disks") \/ Goes(c, "folder", "failed")
        /\ UNCHANGED <<mode, store, vms, cand, ports, held>> /\ files' = files
        /\ folders' = folders \cup {cand[c]}
    BY <1>4, Outcomes DEF WorkstationNewFolder
  <2>2. pc[c] = "folder"
    BY <2>1 DEF Goes
  <2>3. cand[c] \in Ids
    BY <2>2 DEF Staged, Typed, Making, Slots, Ids
  <2>4. files' \subseteq Ids \X Disks /\ folders' \subseteq Ids
    BY <2>1, <2>3 DEF Typed
  <2>5. PICK to \in {"disks", "failed"} : Goes(c, "folder", to)
    BY <2>1
  <2>6. to \in Stages
    BY DEF Stages, Making
  <2>7. /\ Typed' /\ Moved(c, {"folder"}, {to})
        /\ UNCHANGED <<kind, kick, shared, vms, cand, nextPort, port, iso, torn, got, ref, typed>>
    BY <1>3, <2>1, <2>2, <2>4, <2>5, <2>6
  <2>8. QED
    BY <2>1, <2>7 DEF Shares, Passes, Still, Moved
<1>5. CASE WorkstationDisks(c)
  <2>1. /\ UNCHANGED <<mode, store, vms, cand, ports, held>> /\ folders' = folders /\ pc[c] = "disks"
        /\ \/ files' = files /\ Goes(c, "disks", "failed")
           \/ /\ FilesOf(cand[c]) = {}
              /\ \/ Goes(c, "disks", "vmx") /\ files' = files \cup ({cand[c]} \X Disks)
                 \/ /\ Goes(c, "disks", "failed")
                    /\ \E d \in SUBSET Disks : files' = files \cup ({cand[c]} \X d)
    BY <1>5, Outcomes DEF WorkstationDisks, disk, Goes
  <2>2. cand[c] \in Ids
    BY <2>1 DEF Staged, Typed, Making, Slots, Ids
  <2>3. files' \subseteq Ids \X Disks /\ folders' \subseteq Ids
    BY <2>1, <2>2 DEF Typed
  <2>4. {"vmx", "failed"} \subseteq Stages
    BY DEF Stages, Making
  <2>5. CASE files' = files /\ Goes(c, "disks", "failed")
    <3>1. /\ Typed' /\ Moved(c, {"disks"}, {"failed"})
          /\ UNCHANGED <<kind, kick, shared, vms, cand, nextPort, port, iso, torn, got, ref, typed>>
      BY <1>3, <2>1, <2>3, <2>4, <2>5
    <3>2. QED
      BY <2>5, <3>1 DEF Shares, Passes, Still, Moved
  <2>6. ASSUME NEW to \in {"vmx", "failed"}, Goes(c, "disks", to), FilesOf(cand[c]) = {},
               files \subseteq files', to = "vmx" => files' = files \cup ({cand[c]} \X Disks)
        PROVE  Typed' /\ Shares(c)
    <3>1. /\ Typed' /\ Moved(c, {"disks"}, {to}) /\ Apart(c)
          /\ UNCHANGED <<kind, kick, shared, vms, cand, nextPort, port, iso, torn, got, ref, typed>>
      BY <1>3, <2>1, <2>3, <2>4, <2>6
    <3>2. Lays(c)
      BY <2>6, <3>1 DEF Lays, Moved
    <3>3. QED
      BY <3>1, <3>2 DEF Shares
  <2>7. QED
    BY <2>1, <2>5, <2>6
<1>6. CASE WorkstationWriteVMX(c)
  <2> DEFINE i  == cand[c]
             vm == [Shell(c, cand[c]) EXCEPT !.port = port[c], !.cd = NoDrive]
  <2>1. /\ Done(c, "vmx", "attach") /\ Returned(c, i) /\ vms' = [vms EXCEPT ![i] = vm] /\ files' = files
        /\ UNCHANGED <<mode, store, folders, cand, ports, got, typed, ip>>
    BY <1>6 DEF WorkstationWriteVMX, disk
  <2>2. pc[c] = "vmx"
    BY <2>1 DEF Done, Answer, Error
  <2>3. i \in Ids /\ i \in Slots
    BY <2>2 DEF Staged, Typed, Making, Slots, Ids
  <2>4. files' = files \cup ({i} \X Disks)
    BY <2>1, <2>2 DEF Reserved
  <2>5. /\ vm \in VM /\ vm.owner = c /\ vm.home = i /\ vm.disks = Disks /\ vm.efi /\ vm.port = port[c]
    <3> DEFINE x == Shell(c, i)
    <3> HIDE DEF i
    <3>1. x \in VM /\ x.owner = c /\ x.home = i /\ x.disks = Disks /\ x.efi
      BY <2>3, ShellShape
    <3>2. vm = [x EXCEPT !.port = port[c], !.cd = NoDrive] /\ port[c] \in Nat
      BY DEF i, Typed
    <3> HIDE DEF x, vm
    <3>3. QED
      BY <3>1, <3>2 DEF VM
  <2> HIDE DEF vm
  <2>6. QED
    BY <2>1, <2>3, <2>4, <2>5, NewShape
<1>7. CASE WorkstationAttachISO(c) \/ WorkstationSetBootDiskThenCD(c) \/ WorkstationPowerOn(c)
  BY <1>7, EditShape
     DEF WorkstationAttachISO, WorkstationSetBootDiskThenCD, WorkstationPowerOn, AfterPower, Shares
<1>8. CASE WorkstationSendKeys(c)
  BY <1>8, TypeShape DEF WorkstationSendKeys, Shares
<1>9. CASE WorkstationGetVMIP(c)
  BY <1>9, ResolveShape DEF WorkstationGetVMIP, Shares
<1>10. CASE WorkstationDestroy(c)
  <2>1. CASE NotDestroyed(c)
    BY <2>1, CommonShape DEF Shares
  <2>2. CASE Gone(c, "destroyed", files \ FilesOf(Vm(c).home), folders \ {Vm(c).home})
    <3>1. folders \ {Vm(c).home} \in SUBSET Ids
      BY DEF Typed
    <3>2. QED
      BY <2>2, <3>1, DestroyShape DEF Shares
  <2>3. CASE Error(c, "destroy", "destroyed") /\ UNCHANGED <<mode, store, vms, disk, cand, ports, held>>
    <3>1. /\ Typed' /\ Still /\ UNCHANGED <<iso, torn, got>> /\ Moved(c, {"destroy"}, {"destroyed"})
      BY <2>3, Outcomes, PassShape DEF Stages, Past
    <3>2. QED
      BY <3>1 DEF Shares, Passes, Moved, Past
  <2>4. QED
    BY <1>10, <2>1, <2>2, <2>3 DEF WorkstationDestroy
<1>11. QED
  BY <1>1, <1>2, <1>4, <1>5, <1>6, <1>7, <1>8, <1>9, <1>10, Zenon DEF WorkstationNext

\* Hyper-V's cmdlets by name: the VMs of the name get something of VM c's.
LEMMA ByNameShape ==
    ASSUME Typed, NEW c \in Clients, Staged(c), Held(c), kind = "hyperv",
           \/ Done(c, "attach", "order") /\ HyperVByName(c, "cd", got[c])
           \/ Done(c, "power", AfterPower) /\ HyperVByName(c, "on", TRUE)
    PROVE  Typed' /\ Alters(c)
<1>1. pc[c] \in {"attach", "power"}
  BY DEF Done, Answer, Error
<1>2. ref[c] \in Ids /\ ref[c] # 0 /\ Vm(c) \in VM /\ got[c] \in Slots
  BY <1>1, HasVM DEF Up
<1>3. Vm(c).owner # 0 /\ \A i \in Ids : i \in Named(c) <=> vms[i].owner # 0 /\ vms[i].home = Vm(c).home
  <2>1. Vm(c).owner = c
    BY <1>1, <1>2 DEF Held, Past
  <2>2. QED
    BY <2>1, Numbers DEF Named
<1>4. ref[c] \in Named(c)
  BY <1>2, <1>3 DEF Vm
<1>5. ASSUME NEW from, NEW to, Done(c, from, to), to \in Stages
      PROVE  pc' \in [Clients -> Stages] /\ faults' \in Nat /\ Moved(c, {from}, {to, "failed"})
  <2>1. Goes(c, from, to) \/ Goes(c, from, "failed")
    BY <1>5, Outcomes
  <2>2. QED
    BY <1>5, <2>1, GoesWell DEF Moved, Goes, Stages
<1>6. /\ UNCHANGED <<kind, kick, shared, files, folders, cand, nextPort, port, iso, torn, got, ref, typed>>
      /\ Apart(c)
  <2>1. UNCHANGED <<mode, store, disk, cand, ports, held>>
    BY DEF HyperVByName
  <2>2. QED
    BY <2>1 DEF mode, store, disk, ports, held, Apart
<1>7. CASE Done(c, "attach", "order") /\ HyperVByName(c, "cd", got[c])
  <2>1. vms' = [i \in Ids |-> IF i \in Named(c) THEN [vms[i] EXCEPT !.cd = got[c]] ELSE vms[i]]
    BY <1>7 DEF HyperVByName
  <2>2. \A i \in Ids : /\ vms'[i] \in VM /\ vms'[i].owner = vms[i].owner /\ vms'[i].home = vms[i].home
                       /\ vms'[i].disks = vms[i].disks /\ vms'[i].port = vms[i].port
                       /\ vms'[i].efi = vms[i].efi
                       /\ IF i \in Named(c) THEN vms'[i].cd = got[c] ELSE vms'[i] = vms[i]
    <3> SUFFICES ASSUME NEW i \in Ids
                 PROVE  /\ vms'[i] \in VM /\ vms'[i].owner = vms[i].owner /\ vms'[i].home = vms[i].home
                        /\ vms'[i].disks = vms[i].disks /\ vms'[i].port = vms[i].port
                        /\ vms'[i].efi = vms[i].efi
                        /\ IF i \in Named(c) THEN vms'[i].cd = got[c] ELSE vms'[i] = vms[i]
      OBVIOUS
    <3> DEFINE x == vms[i]
    <3>1. x \in VM
      BY DEF Typed
    <3>2. vms'[i] = IF i \in Named(c) THEN [x EXCEPT !.cd = got[c]] ELSE x
      BY <2>1
    <3>3. x = vms[i]
      OBVIOUS
    <3> HIDE DEF x
    <3>4. [x EXCEPT !.cd = got[c]] \in VM
      BY <1>2, <3>1, Edits
    <3>5. QED
      BY <3>1, <3>2, <3>3, <3>4 DEF VM
  <2>3. vms' \in [Ids -> VM]
    BY <2>1, <2>2
  <2>4. pc' \in [Clients -> Stages] /\ faults' \in Nat /\ Moved(c, {"attach"}, {"order", "failed"})
    BY <1>5, <1>7 DEF Stages, Up
  <2>5. Alters(c)
    <3>1. \A i \in Ids : i # ref[c] /\ ~Namesake(c, i) => vms'[i] = vms[i]
      BY <1>3, <2>2 DEF Namesake
    <3>2. vms'[ref[c]].cd = got[c]
      BY <1>2, <1>4, <2>2
    <3>3. \A i \in Ids : vms[i].owner = 0 => vms'[i] = vms[i]
      BY <1>3, <2>2
    <3>4. QED
      BY <1>6, <2>2, <2>4, <3>1, <3>2, <3>3 DEF Alters
  <2>6. QED
    BY <1>6, <2>3, <2>4, <2>5 DEF Typed
<1>8. CASE Done(c, "power", AfterPower) /\ HyperVByName(c, "on", TRUE)
  <2>1. vms' = [i \in Ids |-> IF i \in Named(c) THEN [vms[i] EXCEPT !.on = TRUE] ELSE vms[i]]
    BY <1>8 DEF HyperVByName
  <2>2. \A i \in Ids : /\ vms'[i] \in VM /\ vms'[i].owner = vms[i].owner /\ vms'[i].home = vms[i].home
                       /\ vms'[i].disks = vms[i].disks /\ vms'[i].port = vms[i].port
                       /\ vms'[i].efi = vms[i].efi /\ vms'[i].cd = vms[i].cd
                       /\ vms'[i].order = vms[i].order
                       /\ IF i \in Named(c) THEN vms'[i].on ELSE vms'[i] = vms[i]
    <3> SUFFICES ASSUME NEW i \in Ids
                 PROVE  /\ vms'[i] \in VM /\ vms'[i].owner = vms[i].owner /\ vms'[i].home = vms[i].home
                        /\ vms'[i].disks = vms[i].disks /\ vms'[i].port = vms[i].port
                        /\ vms'[i].efi = vms[i].efi /\ vms'[i].cd = vms[i].cd
                        /\ vms'[i].order = vms[i].order
                        /\ IF i \in Named(c) THEN vms'[i].on ELSE vms'[i] = vms[i]
      OBVIOUS
    <3> DEFINE x == vms[i]
    <3>1. x \in VM
      BY DEF Typed
    <3>2. vms'[i] = IF i \in Named(c) THEN [x EXCEPT !.on = TRUE] ELSE x
      BY <2>1
    <3>3. x = vms[i]
      OBVIOUS
    <3> HIDE DEF x
    <3>4. [x EXCEPT !.on = TRUE] \in VM
      BY <3>1, <1>2, Edits
    <3>5. QED
      BY <3>1, <3>2, <3>3, <3>4 DEF VM
  <2>3. vms' \in [Ids -> VM]
    BY <2>1, <2>2
  <2>4. /\ pc' \in [Clients -> Stages] /\ faults' \in Nat
        /\ Moved(c, {"power"}, {AfterPower, "failed"})
    BY <1>5, <1>8 DEF Stages, Up, AfterPower
  <2>5. Moved(c, {"power"}, {"keys", "up", "failed"})
    BY <2>4 DEF Moved, AfterPower
  <2>6. Alters(c)
    <3>1. \A i \in Ids : i # ref[c] /\ ~Namesake(c, i) => vms'[i] = vms[i]
      BY <1>3, <2>2 DEF Namesake
    <3>2. /\ vms'[ref[c]].on /\ vms'[ref[c]].order = Vm(c).order /\ vms'[ref[c]].cd = Vm(c).cd
      BY <1>2, <1>4, <2>2 DEF Vm
    <3>3. \A i \in Ids : vms[i].owner = 0 => vms'[i] = vms[i]
      BY <1>3, <2>2
    <3>4. QED
      BY <1>6, <2>2, <2>5, <3>1, <3>2, <3>3 DEF Alters
  <2>7. QED
    BY <1>6, <2>3, <2>4, <2>6 DEF Typed
<1>9. QED
  BY <1>7, <1>8

\* The next disk is the first that is missing.
LEMMA FirstMissing ==
    ASSUME NEW D \in SUBSET Disks, D # Disks
    PROVE  /\ (CHOOSE x \in Disks \ D : \A y \in Disks \ D : x <= y) \in Disks \ D
           /\ 1 \in D \/ (CHOOSE x \in Disks \ D : \A y \in Disks \ D : x <= y) = 1
<1> DEFINE R == Disks \ D
           least(x) == \A y \in R : x <= y
<1>1. R \subseteq Nat /\ R # {} /\ \A y \in R : 1 <= y
  <2>1. \A y \in Disks : y \in Nat /\ y # 0
    BY Numbers
  <2>2. \A y \in Nat : y # 0 => 1 <= y
    OBVIOUS
  <2>3. QED
    BY <2>1, <2>2
<1>2. PICK m \in R : \A y \in R : m <= y
  <2>1. PICK m \in R : \A y \in R : <<y, m>> \notin OpToRel(<, Nat)
    BY <1>1, NatLessThanWellFounded, WFMin
  <2>2. \A y \in Nat, x \in Nat : y < x => <<y, x>> \in OpToRel(<, Nat)
    BY DEF OpToRel
  <2>3. \A y \in R : y \in Nat /\ m \in Nat /\ ~(y < m)
    BY <1>1, <2>1, <2>2
  <2>4. \A y \in R : m <= y
    BY <2>3
  <2>5. QED
    BY <2>4
<1>3. (CHOOSE x \in R : least(x)) \in R /\ least(CHOOSE x \in R : least(x))
  BY <1>2
<1>4. CASE 1 \in R
  BY <1>1, <1>3, <1>4
<1>5. QED
  BY <1>3, <1>4, Numbers

LEMMA HyperVShape ==
    ASSUME Typed, NEW c \in Clients, Staged(c), Held(c), Half(c), kind = "hyperv", HyperVNext(c),
           \A i \in Ids : Home(i)
    PROVE  Typed' /\ Shares(c)
<1>1. CASE HyperVFindISO(c) \/ HyperVUploadISO(c)
  BY <1>1, LibraryShape DEF HyperVFindISO, HyperVUploadISO, Shares
<1>2. CASE HyperVFreeName(c)
  <2>1. /\ Answer(c, "create", "folder") /\ \E i \in Ids : cand' = [cand EXCEPT ![c] = i]
        /\ UNCHANGED <<mode, store, vms, disk, held>> /\ UNCHANGED <<nextPort, port>>
    BY <1>2 DEF HyperVFreeName, ports
  <2>2. /\ UNCHANGED <<kind, kick, shared, vms, files, folders, iso, torn, got, ref, typed>>
        /\ Moved(c, {"create"}, {"folder"}) /\ pc' \in [Clients -> Stages] /\ faults' \in Nat
        /\ cand' \in [Clients -> Slots] /\ cand'[c] \in Ids
        /\ \A d \in Clients \ {c} : cand'[d] = cand[d]
    BY <2>1, ChooseShape
  <2>3. QED
    BY <2>1, <2>2 DEF Typed, Shares, Chooses, Apart
<1>3. CASE HyperVNewVM(c)
  <2> DEFINE vm == [Shell(c, cand[c]) EXCEPT !.disks = {}, !.cd = NoDrive]
  <2>1. /\ Done(c, "folder", "disks") /\ vms' = [vms EXCEPT ![c] = vm]
        /\ folders' = folders \cup {cand[c]} /\ UNCHANGED <<mode, store, files, cand, ports, held>>
    BY <1>3 DEF HyperVNewVM
  <2>2. pc[c] = "folder"
    BY <2>1 DEF Done, Answer, Error
  <2>3. cand[c] \in Ids /\ cand[c] \in Slots
    BY <2>2 DEF Staged, Typed, Making, Slots, Ids
  <2>4. vm \in VM /\ vm.owner = c /\ vm.home = cand[c] /\ vm.disks = {} /\ vm.efi /\ vm.port = 0
    <3> DEFINE x == Shell(c, cand[c])
    <3>1. x \in VM /\ x.owner = c /\ x.home = cand[c] /\ x.efi /\ x.port = 0
      BY <2>3, ShellShape
    <3>2. vm = [x EXCEPT !.disks = {}, !.cd = NoDrive]
      OBVIOUS
    <3> HIDE DEF x, vm
    <3>3. QED
      BY <3>1, <3>2 DEF VM
  <2> HIDE DEF vm
  <2>5. vms' \in [Ids -> VM] /\ vms'[c] = vm /\ \A j \in Ids \ {c} : vms'[j] = vms[j]
    BY <2>1, <2>4, Sets DEF Ids
  <2>6. pc' \in [Clients -> Stages] /\ faults' \in Nat /\ Moved(c, {"folder"}, {"disks", "failed"})
    <3>1. Goes(c, "folder", "disks") \/ Goes(c, "folder", "failed")
      BY <2>1, Outcomes
    <3>2. QED
      BY <3>1, GoesWell DEF Goes, Moved, Stages, Making
  <2>7. UNCHANGED <<kind, kick, shared, files, cand, nextPort, port, iso, torn, got, ref, typed>>
    BY <2>1 DEF mode, store, ports, held
  <2>8. folders' \subseteq Ids
    BY <2>1, <2>3 DEF Typed
  <2>9. QED
    BY <2>4, <2>5, <2>6, <2>7, <2>8 DEF Typed, Shares, Founds, Apart
<1>4. CASE HyperVNewVHD(c)
  <2> DEFINE d == CHOOSE x \in Disks \ vms[c].disks : \A y \in Disks \ vms[c].disks : x <= y
             x == vms[c]
             vm == [x EXCEPT !.disks = @ \cup {d}]
  <2>1. /\ pc[c] = "disks" /\ x.disks # Disks
        /\ UNCHANGED <<mode, store, folders, cand, ports, held>>
        /\ IF <<cand[c], d>> \in files
           THEN Answer(c, "disks", "failed") /\ UNCHANGED <<vms, files>>
           ELSE Done(c, "disks", "disks") /\ files' = files \cup {<<cand[c], d>>}
                /\ vms' = [vms EXCEPT ![c] = vm]
    BY <1>4 DEF HyperVNewVHD
  <2>2. x \in VM /\ cand[c] \in Ids /\ c \in Ids
    BY <2>1 DEF Staged, Typed, Making, Slots, Ids
  <2>3. d \in Disks \ x.disks /\ (1 \in x.disks \/ d = 1)
    BY <2>1, <2>2, FirstMissing DEF VM
  <2> HIDE DEF d
  <2>4. CASE <<cand[c], d>> \in files
    <3>1. Goes(c, "disks", "failed") /\ UNCHANGED <<mode, store, vms, disk, cand, ports, held>>
      BY <2>1, <2>4, Outcomes DEF disk
    <3>2. Typed' /\ Still /\ UNCHANGED <<iso, torn, got>> /\ Moved(c, {"disks"}, {"failed"})
      BY <3>1, PassShape DEF Stages
    <3>3. QED
      BY <3>2 DEF Shares, Passes, Moved
  <2>5. CASE <<cand[c], d>> \notin files
    <3>1. vm \in VM /\ vm.owner = x.owner /\ vm.home = x.home /\ vm.efi = x.efi /\ vm.port = x.port
          /\ vm.disks = x.disks \cup {d}
      <4> HIDE DEF x
      <4>1. QED
        BY <2>2, <2>3 DEF VM
    <3>2. vms[c] = x
      OBVIOUS
    <3> HIDE DEF x, vm
    <3>3. vms' \in [Ids -> VM] /\ vms'[c] = vm /\ \A j \in Ids \ {c} : vms'[j] = vms[j]
      BY <2>1, <2>2, <2>5, <3>1, Sets
    <3>4. pc' \in [Clients -> Stages] /\ faults' \in Nat /\ Moved(c, {"disks"}, {"disks", "failed"})
      <4>1. Goes(c, "disks", "disks") \/ Goes(c, "disks", "failed")
        BY <2>1, <2>5, Outcomes
      <4>2. QED
        BY <4>1, GoesWell DEF Goes, Moved, Stages, Making
    <3>5. /\ UNCHANGED <<kind, kick, shared, folders, cand, nextPort, port, iso, torn, got, ref, typed>>
          /\ Apart(c)
      BY <2>1 DEF mode, store, ports, held, Apart
    <3>6. files' = files \cup {<<cand[c], d>>} /\ files' \subseteq Ids \X Disks
      BY <2>1, <2>2, <2>3, <2>5 DEF Typed
    <3>7. Plugs(c)
      BY <2>3, <2>5, <3>1, <3>2, <3>3, <3>4, <3>5, <3>6 DEF Plugs
    <3>8. QED
      BY <3>3, <3>4, <3>5, <3>6, <3>7 DEF Typed, Shares
  <2>6. QED
    BY <2>4, <2>5
<1>5. CASE HyperVEnableTPM(c)
  <2>1. vms[c].disks = Disks /\ (Goes(c, "disks", "attach") \/ Goes(c, "disks", "failed"))
    BY <1>5, Outcomes DEF HyperVEnableTPM
  <2>2. pc' \in [Clients -> Stages] /\ faults' \in Nat /\ Moved(c, {"disks"}, {"attach", "failed"})
    BY <2>1, GoesWell DEF Goes, Moved, Stages, Up
  <2>3. UNCHANGED <<kind, kick, shared, vms, files, folders, cand, nextPort, port, iso, torn, got, typed>>
    BY <1>5 DEF HyperVEnableTPM, mode, store, disk, ports
  <2>4. /\ ref' \in [Clients -> Slots] /\ \A d \in Clients \ {c} : ref'[d] = ref[d]
        /\ ref'[c] = IF pc'[c] = "attach" THEN c ELSE ref[c]
    BY <1>5 DEF HyperVEnableTPM, Returned, Typed, Slots
  <2>5. QED
    BY <2>1, <2>2, <2>3, <2>4 DEF Typed, Shares, Hands, Apart
<1>6. CASE HyperVAttachISO(c) \/ HyperVPowerOn(c)
  BY <1>6, ByNameShape DEF HyperVAttachISO, HyperVPowerOn, Shares
<1>7. CASE HyperVSetBootDiskThenCD(c)
  BY <1>7, EditShape DEF HyperVSetBootDiskThenCD, Shares
<1>8. CASE HyperVSendKeys(c)
  <2>1. pc[c] = "keys"
    BY <1>8 DEF HyperVSendKeys, Type, Done, Answer, Error
  <2>2. ref[c] \in Ids
    BY <2>1, HasVM DEF Up
  <2>3. QED
    BY <1>8, <2>2, TypeShape DEF HyperVSendKeys, Shares
<1>9. CASE HyperVGetVMIP(c)
  BY <1>9, ResolveShape DEF HyperVGetVMIP, Shares
<1>10. CASE HyperVDestroy(c)
  <2>1. CASE NotDestroyed(c)
    BY <2>1, CommonShape DEF Shares
  <2>2. CASE \E f \in {files, files \ FilesOf(Vm(c).home)} :
               Gone(c, "destroyed", f, IF f = files THEN folders ELSE folders \ {Vm(c).home})
    <3>1. PICK f \in {files, files \ FilesOf(Vm(c).home)} :
                  Gone(c, "destroyed", f, IF f = files THEN folders ELSE folders \ {Vm(c).home})
      BY <2>2
    <3> DEFINE g == IF f = files THEN folders ELSE folders \ {Vm(c).home}
    <3>2. g \in SUBSET Ids /\ Gone(c, "destroyed", f, g)
      BY <3>1 DEF Typed
    <3> HIDE DEF g
    <3>3. Typed' /\ Destroys(c)
      BY <3>2, DestroyShape
    <3>4. QED
      BY <3>3 DEF Shares
  <2>3. QED
    BY <1>10, <2>1, <2>2 DEF HyperVDestroy
<1>11. QED
  BY <1>1, <1>2, <1>3, <1>4, <1>5, <1>6, <1>7, <1>8, <1>9, <1>10, Zenon DEF HyperVNext

LEMMA NextMissing ==
    ASSUME Typed, NEW c \in Clients, vms[c].disks # Disks
    PROVE  NextDisk(c) \in Disks \ vms[c].disks
<1>1. vms[c].disks \in SUBSET Disks
  BY DEF Typed, VM, Ids
<1>2. QED
  BY <1>1, FirstMissing DEF NextDisk

\* The series of calls and the rollback.
LEMMA SeriesShape ==
    ASSUME Typed, NEW c \in Clients, Staged(c), Build(c), kind = "xcpng",
           \/ XCPngGetUUID(c) \/ XCPngCreateVDI(c) \/ XCPngCreateVBD(c) \/ XCPngCreateCD(c)
           \/ XCPngRollback(c)
    PROVE  Typed' /\ Assembles(c)
<1> DEFINE x == vms[c]
           Else == UNCHANGED <<kind, kick, shared, folders, cand, nextPort, port, iso, torn, got, ref, typed>>
<1> USE DEF mode, store, disk, ports, held
<1>1. x \in VM /\ c \in Ids
  BY DEF Typed, Ids
<1>2. ASSUME NEW from \in {"uuid", "vdi", "vbd", "rollback"},
             NEW to \in {"vdi", "vbd", "vif", "rollback", "failed"},
             Answer(c, from, to) \/ Error(c, from, to)
      PROVE  /\ pc[c] = from /\ pc'[c] = to /\ pc' \in [Clients -> Stages] /\ faults' \in Nat
             /\ Moved(c, {"uuid", "vdi", "vbd", "rollback"}, {"vdi", "vbd", "vif", "rollback", "failed"})
             /\ Error(c, from, to) => faults' > faults
  <2>1. Goes(c, from, to) /\ to \in Stages
    BY <1>2, Outcomes DEF Stages, Making
  <2>2. pc[c] = from /\ pc'[c] = to /\ pc' \in [Clients -> Stages] /\ faults' \in Nat /\ faults' >= faults
        /\ \A d \in Clients \ {c} : pc'[d] = pc[d]
    BY <2>1, GoesWell DEF Goes
  <2>3. Error(c, from, to) => faults' > faults
    BY DEF Error, Typed
  <2>4. QED
    BY <2>2, <2>3 DEF Moved
<1>3. ASSUME Else, pc' \in [Clients -> Stages], faults' \in Nat, vms' \in [Ids -> VM],
             files' \subseteq Ids \X Disks
      PROVE  Typed' /\ Apart(c) /\ UNCHANGED <<cand, nextPort, port, iso, torn, got, ref, typed>>
  BY <1>3 DEF Typed, Apart
<1>4. CASE XCPngGetUUID(c)
  <2>1. /\ Else /\ vms' = vms /\ files' = files
        /\ Answer(c, "uuid", "vdi") \/ Error(c, "uuid", "rollback")
    BY <1>4 DEF XCPngGetUUID
  <2>2. PICK to \in {"vdi", "rollback"} : Answer(c, "uuid", to) \/ Error(c, "uuid", to)
    BY <2>1
  <2>3. /\ pc[c] = "uuid" /\ pc'[c] \in {"vdi", "rollback"} /\ pc' \in [Clients -> Stages] /\ faults' \in Nat
        /\ Moved(c, {"uuid", "vdi", "vbd", "rollback"}, {"vdi", "vbd", "vif", "rollback", "failed"})
        /\ pc'[c] = "vdi" \/ faults' > faults
    BY <1>2, <2>1
  <2>4. Typed' /\ Apart(c) /\ UNCHANGED <<cand, nextPort, port, iso, torn, got, ref, typed>>
    BY <1>3, <2>1, <2>3 DEF Typed
  <2>5. QED
    BY <2>1, <2>3, <2>4 DEF Assembles
<1>5. CASE XCPngCreateVDI(c)
  <2> DEFINE n == NextDisk(c)
  <2>1. /\ Else /\ vms' = vms /\ vms[c].disks # Disks
        /\ \/ Answer(c, "vdi", "vbd") /\ files' = files \cup {<<c, n>>}
           \/ Error(c, "vdi", "rollback") /\ files' \in {files, files \cup {<<c, n>>}}
    BY <1>5 DEF XCPngCreateVDI, AllDisks
  <2>2. n \in Disks
    BY <2>1, NextMissing
  <2> HIDE DEF n
  <2>3. files' \subseteq Ids \X Disks /\ \A f : f[1] # c => (f \in files <=> f \in files')
    BY <1>1, <2>1, <2>2 DEF Typed
  <2>4. CASE Answer(c, "vdi", "vbd") /\ files' = files \cup {<<c, n>>}
    <3>1. /\ pc[c] = "vdi" /\ pc'[c] = "vbd" /\ pc' \in [Clients -> Stages] /\ faults' \in Nat
          /\ Moved(c, {"uuid", "vdi", "vbd", "rollback"}, {"vdi", "vbd", "vif", "rollback", "failed"})
      BY <1>2, <2>4
    <3>2. Typed' /\ Apart(c) /\ UNCHANGED <<cand, nextPort, port, iso, torn, got, ref, typed>>
      BY <1>3, <2>1, <2>3, <3>1 DEF Typed
    <3>3. QED
      BY <2>1, <2>3, <2>4, <3>1, <3>2 DEF Assembles, n
  <2>5. CASE Error(c, "vdi", "rollback") /\ files' \in {files, files \cup {<<c, n>>}}
    <3>1. /\ pc[c] = "vdi" /\ pc'[c] = "rollback" /\ pc' \in [Clients -> Stages] /\ faults' \in Nat
          /\ Moved(c, {"uuid", "vdi", "vbd", "rollback"}, {"vdi", "vbd", "vif", "rollback", "failed"})
          /\ faults' > faults
      BY <1>2, <2>5
    <3>2. Typed' /\ Apart(c) /\ UNCHANGED <<cand, nextPort, port, iso, torn, got, ref, typed>>
      BY <1>3, <2>1, <2>3, <3>1 DEF Typed
    <3>3. QED
      BY <2>1, <2>3, <2>5, <3>1, <3>2 DEF Assembles, n
  <2>6. QED
    BY <2>1, <2>4, <2>5
<1>6. CASE XCPngCreateVBD(c)
  <2> DEFINE n  == NextDisk(c)
             vm == [x EXCEPT !.disks = @ \cup {n}]
  <2>1. /\ Else /\ files' = files
        /\ \/ Answer(c, "vbd", "vdi") /\ vms' = [vms EXCEPT ![c] = vm]
           \/ Error(c, "vbd", "rollback") /\ vms' = vms
    BY <1>6 DEF XCPngCreateVBD, SetVM
  <2>2. pc[c] = "vbd"
    BY <2>1 DEF Answer, Error
  <2>3. n \in Disks
    BY <2>2, NextMissing DEF Build
  <2> HIDE DEF n
  <2>4. CASE Answer(c, "vbd", "vdi") /\ vms' = [vms EXCEPT ![c] = vm]
    <3>1. vm \in VM /\ vm.owner = x.owner /\ vm.home = x.home /\ vm.port = x.port /\ vm.disks = x.disks \cup {n}
      <4> HIDE DEF x
      <4>1. QED
        BY <1>1, <2>3 DEF VM
    <3>2. x = vms[c]
      OBVIOUS
    <3> HIDE DEF x, vm
    <3>3. vms' \in [Ids -> VM] /\ vms'[c] = vm /\ \A j \in Ids \ {c} : vms'[j] = vms[j]
      BY <1>1, <2>4, <3>1, Sets
    <3>4. /\ pc[c] = "vbd" /\ pc'[c] = "vdi" /\ pc' \in [Clients -> Stages] /\ faults' \in Nat
          /\ Moved(c, {"uuid", "vdi", "vbd", "rollback"}, {"vdi", "vbd", "vif", "rollback", "failed"})
      BY <1>2, <2>4
    <3>5. Typed' /\ Apart(c) /\ UNCHANGED <<cand, nextPort, port, iso, torn, got, ref, typed>>
      BY <1>3, <2>1, <3>3, <3>4 DEF Typed
    <3>6. QED
      BY <2>1, <2>3, <3>1, <3>2, <3>3, <3>4, <3>5 DEF Assembles, n
  <2>5. CASE Error(c, "vbd", "rollback") /\ vms' = vms
    <3>1. /\ pc[c] = "vbd" /\ pc'[c] = "rollback" /\ pc' \in [Clients -> Stages] /\ faults' \in Nat
          /\ Moved(c, {"uuid", "vdi", "vbd", "rollback"}, {"vdi", "vbd", "vif", "rollback", "failed"})
          /\ faults' > faults
      BY <1>2, <2>5
    <3>2. Typed' /\ Apart(c) /\ UNCHANGED <<cand, nextPort, port, iso, torn, got, ref, typed>>
      BY <1>3, <2>1, <2>5, <3>1 DEF Typed
    <3>3. QED
      BY <2>1, <2>3, <2>5, <3>1, <3>2 DEF Assembles, n
  <2>6. QED
    BY <2>1, <2>4, <2>5
<1>7. CASE XCPngCreateCD(c)
  <2> DEFINE vm == [x EXCEPT !.cd = Empty]
  <2>1. /\ Else /\ files' = files /\ vms' = [vms EXCEPT ![c] = vm] /\ vms[c].disks = Disks
        /\ Answer(c, "vdi", "vif") \/ Error(c, "vdi", "rollback")
    BY <1>7 DEF XCPngCreateCD, SetVM, AllDisks
  <2>2. vm \in VM /\ vm.owner = x.owner /\ vm.home = x.home /\ vm.port = x.port /\ vm.disks = x.disks
    <3> HIDE DEF x
    <3>1. QED
      BY <1>1, Edits DEF VM
  <2>3. x = vms[c]
    OBVIOUS
  <2> HIDE DEF x, vm
  <2>4. vms' \in [Ids -> VM] /\ vms'[c] = vm /\ \A j \in Ids \ {c} : vms'[j] = vms[j]
    BY <1>1, <2>1, <2>2, Sets
  <2>5. PICK to \in {"vif", "rollback"} : Answer(c, "vdi", to) \/ Error(c, "vdi", to)
    BY <2>1
  <2>6. /\ pc[c] = "vdi" /\ pc'[c] \in {"vif", "rollback"} /\ pc' \in [Clients -> Stages] /\ faults' \in Nat
        /\ Moved(c, {"uuid", "vdi", "vbd", "rollback"}, {"vdi", "vbd", "vif", "rollback", "failed"})
        /\ pc'[c] = "vif" \/ faults' > faults
    BY <1>2, <2>1
  <2>7. Typed' /\ Apart(c) /\ UNCHANGED <<cand, nextPort, port, iso, torn, got, ref, typed>>
    BY <1>3, <2>1, <2>4, <2>6 DEF Typed
  <2>8. QED
    BY <2>1, <2>2, <2>3, <2>4, <2>6, <2>7 DEF Assembles
<1>8. CASE XCPngRollback(c)
  <2>1. /\ Else
        /\ \/ /\ Answer(c, "rollback", "failed")
              /\ vms' = [vms EXCEPT ![c] = NoVM] /\ files' = files \ Attached(c)
           \/ /\ Error(c, "rollback", "failed")
              /\ \/ vms' = vms /\ \E left \in SUBSET Attached(c) : files' = files \ left
                 \/ vms' = [vms EXCEPT ![c] = NoVM] /\ files' = files
    BY <1>8 DEF XCPngRollback
  <2>2. /\ pc[c] = "rollback" /\ pc'[c] = "failed" /\ pc' \in [Clients -> Stages] /\ faults' \in Nat
        /\ Moved(c, {"uuid", "vdi", "vbd", "rollback"}, {"vdi", "vbd", "vif", "rollback", "failed"})
        /\ Error(c, "rollback", "failed") => faults' > faults
    BY <1>2, <2>1
  <2>3. /\ vms' \in [Ids -> VM] /\ \A j \in Ids \ {c} : vms'[j] = vms[j]
        /\ vms' = [vms EXCEPT ![c] = NoVM] => vms'[c] = NoVM
    <3>1. CASE vms' = vms
      BY <3>1, <1>1, Blank, Sets DEF Typed
    <3>2. CASE vms' = [vms EXCEPT ![c] = NoVM]
      BY <3>2, <1>1, Blank, Sets
    <3>3. QED
      BY <2>1, <3>1, <3>2
  <2>4. /\ files' \subseteq files /\ files' \subseteq Ids \X Disks
        /\ \A f : f[1] # c => (f \in files <=> f \in files')
    <3>1. \A f \in Attached(c) : f[1] = c
      BY DEF Attached
    <3>2. \E left \in SUBSET Attached(c) : files' = files \ left
      <4>1. files \ {} = files /\ {} \in SUBSET Attached(c) /\ Attached(c) \in SUBSET Attached(c)
        OBVIOUS
      <4>2. \/ files' = files \ Attached(c) \/ files' = files
            \/ \E left \in SUBSET Attached(c) : files' = files \ left
        BY <2>1
      <4>3. QED
        BY <4>1, <4>2, Zenon
    <3>3. QED
      BY <3>1, <3>2 DEF Typed
  <2>5. Typed' /\ Apart(c) /\ UNCHANGED <<cand, nextPort, port, iso, torn, got, ref, typed>>
    BY <1>3, <2>1, <2>2, <2>3, <2>4 DEF Typed
  <2>6. \/ vms'[c] = NoVM /\ files' = files \ Attached(c)
        \/ faults' > faults /\ vms'[c] = vms[c]
        \/ faults' > faults /\ vms'[c] = NoVM
    BY <2>1, <2>2, <2>3
  <2>7. QED
    BY <2>2, <2>3, <2>4, <2>5, <2>6 DEF Assembles
<1>9. QED
  BY <1>4, <1>5, <1>6, <1>7, <1>8

LEMMA XCPngShape ==
    ASSUME Typed, NEW c \in Clients, Staged(c), Build(c), kind = "xcpng", XCPngNext(c)
    PROVE  Typed' /\ Shares(c)
<1>1. Slot(c) = c
  BY DEF Slot, Typed, SupportsKickstart
<1>2. CASE XCPngUploadISO(c)
  <2>1. CASE WriteFirst(c) \/ BreakOff(c, "absent")
    BY <2>1, LibraryShape DEF Shares
  <2>2. CASE /\ Answer(c, "uploading", "create") /\ iso' = [iso EXCEPT ![c] = "whole"]
             /\ got' = [got EXCEPT ![c] = c]
             /\ UNCHANGED <<mode, torn, vms, disk, cand, ports, ref, typed, ip>>
    <3>1. Goes(c, "uploading", "create")
      BY <2>2, Outcomes
    <3>2. /\ pc' \in [Clients -> Stages] /\ faults' \in Nat /\ Moved(c, Before, Before \cup {"failed"})
      BY <3>1, GoesWell DEF Moved, Goes, Stages, Before
    <3>3. /\ UNCHANGED <<kind, kick, shared, torn, vms, files, folders, cand, nextPort, port, ref, typed>>
      BY <2>2 DEF mode, disk, ports
    <3>4. /\ got' \in [Clients -> Slots] /\ \A d \in Clients \ {c} : got'[d] = got[d]
          /\ iso' \in [Slots -> {"absent", "partial", "whole", "torn"}]
      BY <2>2 DEF Typed, Slots
    <3>5. QED
      BY <3>2, <3>3, <3>4 DEF Typed, Shares, Fetches, Still
  <2>3. CASE /\ faults + 2 <= MaxFaults /\ pc[c] = "uploading"
             /\ faults' = faults + 2 /\ pc' = [pc EXCEPT ![c] = "failed"]
             /\ UNCHANGED <<mode, store, vms, disk, cand, ports, held>>
    <3>1. Goes(c, "uploading", "failed")
      BY <2>3 DEF Goes, Typed
    <3>2. Typed' /\ Still /\ UNCHANGED <<iso, torn, got>> /\ Moved(c, {"uploading"}, {"failed"})
      BY <2>3, <3>1, PassShape DEF Stages
    <3>3. QED
      BY <3>2 DEF Shares, Fetches, Moved, Before
  <2>4. QED
    BY <1>2, <2>1, <2>2, <2>3 DEF XCPngUploadISO
<1>3. CASE XCPngVMCreate(c)
  <2> DEFINE vm == [Shell(c, c) EXCEPT !.disks = {}, !.cd = NoDrive]
  <2>1. /\ Done(c, "create", "uuid") /\ vms' = [vms EXCEPT ![c] = vm]
        /\ cand' = (IF pc'[c] = "uuid" THEN [cand EXCEPT ![c] = c] ELSE cand)
        /\ UNCHANGED <<mode, store, disk, ports, held>>
    BY <1>3 DEF XCPngVMCreate
  <2>2. vm \in VM /\ vm.owner = c /\ vm.home = c /\ vm.disks = {} /\ vm.efi /\ vm.port = 0
    <3> DEFINE x == Shell(c, c)
    <3>1. c \in Slots
      BY DEF Slots
    <3>2. x \in VM /\ x.owner = c /\ x.home = c /\ x.efi /\ x.port = 0
      BY <3>1, ShellShape
    <3>3. vm = [x EXCEPT !.disks = {}, !.cd = NoDrive]
      OBVIOUS
    <3> HIDE DEF x, vm
    <3>4. QED
      BY <3>2, <3>3 DEF VM
  <2> HIDE DEF vm
  <2>3. vms' \in [Ids -> VM] /\ vms'[c] = vm /\ \A j \in Ids \ {c} : vms'[j] = vms[j]
    BY <2>1, <2>2, Sets DEF Ids
  <2>4. pc' \in [Clients -> Stages] /\ faults' \in Nat /\ Moved(c, {"create"}, {"uuid", "failed"})
    <3>1. Goes(c, "create", "uuid") \/ Goes(c, "create", "failed")
      BY <2>1, Outcomes
    <3>2. QED
      BY <3>1, GoesWell DEF Goes, Moved, Stages, Making
  <2>5. UNCHANGED <<kind, kick, shared, files, folders, nextPort, port, iso, torn, got, ref, typed>>
    BY <2>1 DEF mode, store, disk, ports, held
  <2>6. /\ cand' \in [Clients -> Slots] /\ cand'[c] = (IF pc'[c] = "uuid" THEN c ELSE cand[c])
        /\ \A d \in Clients \ {c} : cand'[d] = cand[d]
    BY <2>1 DEF Typed, Slots
  <2>7. QED
    BY <2>2, <2>3, <2>4, <2>5, <2>6 DEF Typed, Shares, Founds, Apart
<1>4. CASE XCPngGetUUID(c) \/ XCPngCreateVDI(c) \/ XCPngCreateVBD(c) \/ XCPngCreateCD(c) \/ XCPngRollback(c)
  BY <1>4, SeriesShape DEF Shares
<1>5. CASE XCPngCreateVIF(c)
  <2>1. Goes(c, "vif", "attach") \/ Goes(c, "vif", "rollback")
    BY <1>5, Outcomes DEF XCPngCreateVIF
  <2>2. pc' \in [Clients -> Stages] /\ faults' \in Nat /\ Moved(c, {"vif"}, {"attach", "rollback"})
        /\ (pc'[c] = "rollback" => faults' > faults)
    <3>1. pc'[c] = "rollback" => faults' > faults
      BY <1>5 DEF XCPngCreateVIF, Answer, Error, Typed
    <3>2. QED
      BY <2>1, <3>1, GoesWell DEF Goes, Moved, Stages, Up, Making
  <2>3. UNCHANGED <<kind, kick, shared, vms, files, folders, cand, nextPort, port, iso, torn, got, typed>>
    BY <1>5 DEF XCPngCreateVIF, mode, store, disk, ports
  <2>4. /\ ref' \in [Clients -> Slots] /\ \A d \in Clients \ {c} : ref'[d] = ref[d]
        /\ ref'[c] = IF pc'[c] = "attach" THEN c ELSE ref[c]
    BY <1>5 DEF XCPngCreateVIF, Returned, Typed, Slots
  <2>5. QED
    BY <2>2, <2>3, <2>4 DEF Typed, Shares, Hands, Apart
<1>6. CASE XCPngAttachISO(c) \/ XCPngSetBootDiskThenCD(c) \/ XCPngPowerOn(c)
  BY <1>6, EditShape DEF XCPngAttachISO, XCPngSetBootDiskThenCD, XCPngPowerOn, AfterPower, Shares
<1>7. CASE XCPngGetVMIP(c)
  BY <1>7, ResolveShape DEF XCPngGetVMIP, Shares
<1>8. CASE XCPngDestroy(c)
  <2>1. CASE NotDestroyed(c)
    BY <2>1, CommonShape DEF Shares
  <2>2. ASSUME NEW to \in Past, Goes(c, "destroy", to), vms' = [vms EXCEPT ![ref[c]] = NoVM],
               files' \in {files, files \ Attached(c)}, folders' = folders,
               UNCHANGED <<mode, store, cand, ports, held>>
        PROVE  Typed' /\ Shares(c)
    <3>1. /\ files' \subseteq files /\ \A f \in files \ files' : f[1] = c
      BY <2>2 DEF Attached
    <3>2. ref[c] # 0 /\ folders' \subseteq Ids
      BY <2>2 DEF Goes, Staged, Typed
    <3>3. Typed' /\ Destroys(c)
      BY <2>2, <3>1, <3>2, GoneShape
    <3>4. QED
      BY <3>3 DEF Shares
  <2>3. CASE Gone(c, "destroyed", files \ Attached(c), folders)
    BY <2>2, <2>3, Outcomes DEF Gone, Past
  <2>4. CASE /\ Error(c, "destroy", "destroyed") /\ vms' = [vms EXCEPT ![c] = NoVM]
             /\ UNCHANGED <<mode, store, disk, cand, ports, held>>
    <3>1. Goes(c, "destroy", "destroyed")
      BY <2>4, Outcomes
    <3>2. ref[c] = c
      BY <3>1 DEF Goes, Staged, ByClient
    <3>3. QED
      BY <2>2, <2>4, <3>1, <3>2 DEF Past, disk
  <2>5. QED
    BY <1>8, <2>1, <2>3, <2>4 DEF XCPngDestroy
<1>9. QED
  BY <1>2, <1>3, <1>4, <1>5, <1>6, <1>7, <1>8, Zenon DEF XCPngNext

\* A step of the system, by what it does.
LEMMA StepShape ==
    ASSUME DriversInv, NEW c \in Clients,
           Begin(c) \/ Refused(c) \/ RemoveVM(c) \/ DriverNext(c)
    PROVE  Typed' /\ Shares(c)
<1>1. Typed /\ Staged(c) /\ Held(c) /\ Half(c) /\ Reserved(c) /\ Build(c) /\ \A i \in Ids : Home(i)
  BY DEF DriversInv, Owns
<1>2. CASE Begin(c) \/ Refused(c) \/ RemoveVM(c)
  BY <1>1, <1>2, CommonShape DEF Shares
<1>3. CASE DriverNext(c)
  BY <1>1, <1>3, ProxmoxShape, VSphereShape, XCPngShape, NutanixShape, HyperVShape, WorkstationShape
     DEF DriverNext
<1>4. QED
  BY <1>2, <1>3

-----------------------------------------------------------------------------
(* What a step of client c leaves to the others. *)

LEMMA Bystander ==
    ASSUME NEW c \in Clients, Shares(c)
    PROVE  /\ UNCHANGED <<kind, kick, shared>> /\ faults' >= faults
           /\ \A d \in Clients \ {c} :
                 /\ pc'[d] = pc[d] /\ cand'[d] = cand[d] /\ port'[d] = port[d]
                 /\ got'[d] = got[d] /\ ref'[d] = ref[d] /\ typed'[d] = typed[d]
<1>1. CASE Fetches(c) \/ Passes(c)
  BY <1>1 DEF Fetches, Passes, Still, Moved
<1>2. CASE Chooses(c)
  BY <1>2 DEF Chooses, Apart, Moved
<1>3. CASE \E i \in Ids : Creates(c, i)
  BY <1>3 DEF Creates, Apart, Moved
<1>4. CASE Alters(c)
  BY <1>4 DEF Alters, Apart, Moved
<1>5. CASE Types(c) \/ Destroys(c)
  BY <1>5 DEF Types, Destroys, Apart, Moved
<1>6. CASE Founds(c) \/ Plugs(c)
  BY <1>6 DEF Founds, Plugs, Apart, Moved
<1>7. CASE Hands(c) \/ Lays(c) \/ Assembles(c)
  BY <1>7 DEF Hands, Lays, Assembles, Apart, Moved
<1>8. QED
  BY <1>1, <1>2, <1>3, <1>4, <1>5, <1>6, <1>7 DEF Shares

\* The client of a VM, and of a reference.
LEMMA Owners ==
    ASSUME Typed
    PROVE  /\ Ids = Clients /\ 0 \notin Clients
           /\ \A i \in Ids : vms[i] \in VM /\ vms[i].owner \in Slots /\ vms[i].home \in Slots
           /\ \A c \in Clients : ref[c] \in Slots /\ cand[c] \in Slots /\ (ref[c] # 0 => ref[c] \in Ids)
BY Numbers DEF Typed, VM, Slots, Ids

\* The VM a client works on is its own, with every disk; no other client's VM in the same
\* home has one.
LEMMA Holds ==
    ASSUME DriversInv, NEW c \in Clients, pc[c] \in Up \cup {"destroy"}
    PROVE  /\ ref[c] \in Ids /\ Vm(c).owner = c /\ Vm(c).disks = Disks /\ Disks # {}
           /\ \A i \in Ids \ {ref[c]} : vms[i].owner # 0 /\ vms[i].home = Vm(c).home => vms[i].disks = {}
<1>1. Typed /\ Staged(c) /\ Held(c) /\ \A i \in Ids : Alone(i, ref[c]) \/ ref[c] \notin Ids
  BY DEF DriversInv, Owns
<1>2. ref[c] \in Ids /\ ref[c] # 0
  BY <1>1, Owners DEF Staged
<1>3. Vm(c).owner = c /\ Vm(c).disks = Disks
  BY <1>1, <1>2 DEF Held, Up, Past
<1>4. Disks # {} /\ c # 0
  BY Numbers
<1>5. QED
  BY <1>1, <1>2, <1>3, <1>4 DEF Alone, Vm

\* A client respects VM i of another, and gives no VM to another.
Respects(c, i) ==
    /\ vms'[i].owner \in {vms[i].owner, 0, c}
    /\ vms[i].owner \notin {0, c} =>
          /\ vms'[i].owner = vms[i].owner /\ vms'[i].home = vms[i].home
          /\ vms'[i].disks = vms[i].disks /\ vms'[i].port = vms[i].port
          /\ kind # "xcpng" => vms'[i].efi = vms[i].efi
          /\ ref[vms[i].owner] = i => vms'[i] = vms[i]
          /\ files \cap ({vms[i].home} \X vms[i].disks) \subseteq files'

LEMMA RespectsOthers ==
    ASSUME DriversInv, NEW c \in Clients, Shares(c), NEW i \in Ids
    PROVE  Respects(c, i)
<1>1. Typed /\ Staged(c) /\ Held(c) /\ Reserved(c) /\ Home(i) /\ Ids = Clients /\ 0 \notin Clients
  BY Owners DEF DriversInv, Owns
<1>2. CASE Fetches(c) \/ Passes(c)
  BY <1>2 DEF Fetches, Passes, Still, Respects
<1>3. CASE Chooses(c) \/ Types(c) \/ Hands(c) \/ Lays(c)
  BY <1>3 DEF Chooses, Types, Hands, Lays, Respects
<1>4. CASE \E k \in Ids : Creates(c, k)
  <2>1. PICK k \in Ids : Creates(c, k)
    BY <1>4
  <2>2. vms'[k].owner = c /\ (i # k => vms'[i] = vms[i]) /\ files \subseteq files'
    BY <2>1 DEF Creates
  <2>3. i = k => vms[i].owner \in {0, c}
    <3>1. CASE kind \in {"vsphere", "nutanix"} /\ k = c
      BY <1>1, <3>1 DEF Home, ByClient
    <3>2. CASE vms[k].owner = 0
      BY <3>2
    <3>3. CASE pc[c] = "vmx" /\ k = cand[c]
      BY <1>1, <3>3 DEF Reserved
    <3>4. QED
      BY <2>1, <3>1, <3>2, <3>3 DEF Creates, Moved
  <2>4. QED
    BY <2>2, <2>3 DEF Respects
<1>5. CASE Alters(c)
  <2>1. pc[c] \in Up
    BY <1>5 DEF Alters, Moved, Up
  <2>2. /\ vms'[i].owner = vms[i].owner /\ vms'[i].home = vms[i].home
        /\ vms'[i].disks = vms[i].disks /\ vms'[i].port = vms[i].port /\ files' = files
        /\ kind # "xcpng" => vms'[i].efi = vms[i].efi
        /\ i # ref[c] /\ ~Namesake(c, i) => vms'[i] = vms[i]
    BY <1>5 DEF Alters
  <2>3. ASSUME NEW d \in Clients \ {c}, vms[i].owner = d, ref[d] = i
        PROVE  vms'[i] = vms[i]
    <3>1. i # ref[c]
      BY <2>1, <2>3, Holds DEF Vm
    <3>2. vms[i].disks = Disks /\ Disks # {}
      <4>1. Held(d)
        BY DEF DriversInv, Owns
      <4>2. QED
        BY <1>1, <2>3, <4>1, Numbers DEF Held, Vm
    <3>3. ~Namesake(c, i)
      BY <2>1, <3>1, <3>2, Holds DEF Namesake
    <3>4. QED
      BY <2>2, <3>1, <3>3
  <2>4. vms[i].owner \in {0} \cup Clients
    BY <1>1, Owners DEF Slots
  <2>5. QED
    BY <2>2, <2>3, <2>4 DEF Respects
<1>6. CASE Destroys(c)
  <2>1. /\ pc[c] = "destroy" /\ vms'[ref[c]] = NoVM /\ (i # ref[c] => vms'[i] = vms[i])
        /\ \A f \in files \ files' : f[1] = IF kind = "xcpng" THEN c ELSE Vm(c).home
    BY <1>6 DEF Destroys, Moved
  <2>2. /\ ref[c] \in Ids /\ Vm(c).owner = c
        /\ i # ref[c] /\ vms[i].owner # 0 /\ vms[i].home = Vm(c).home => vms[i].disks = {}
    BY <2>1, Holds
  <2>3. CASE i = ref[c]
    BY <2>1, <2>2, <2>3, Blank DEF Respects, Vm
  <2>4. CASE i # ref[c]
    <3>1. vms'[i] = vms[i]
      BY <2>1, <2>4
    <3>2. ASSUME vms[i].owner \notin {0, c}, NEW f \in files \cap ({vms[i].home} \X vms[i].disks)
          PROVE  f \in files'
      <4>1. f[1] = vms[i].home /\ vms[i].disks # {}
        BY <3>2
      <4>2. kind = "xcpng" => vms[i].home # c
        BY <1>1, <3>2 DEF Home, ByClient
      <4>3. f[1] # IF kind = "xcpng" THEN c ELSE Vm(c).home
        BY <2>2, <2>4, <3>2, <4>1, <4>2
      <4>4. QED
        BY <2>1, <3>2, <4>3
    <3>3. QED
      BY <3>1, <3>2 DEF Respects
  <2>5. QED
    BY <2>3, <2>4
<1>7. CASE Founds(c) \/ Plugs(c) \/ Assembles(c)
  <2>1. kind \in ByClient /\ (i # c => vms'[i] = vms[i])
    BY <1>7 DEF Founds, Plugs, Assembles, ByClient
  <2>2. vms'[c].owner \in {0, c, vms[c].owner}
    <3>1. CASE Founds(c)
      BY <3>1 DEF Founds
    <3>2. CASE Plugs(c)
      BY <3>2 DEF Plugs
    <3>3. CASE Assembles(c)
      BY <3>3, Blank DEF Assembles
    <3>4. QED
      BY <1>7, <3>1, <3>2, <3>3
  <2>3. vms[i].owner # 0 => vms[i].owner = i
    BY <1>1, <2>1 DEF Home
  <2>4. ASSUME i # c, vms[i].owner # 0, NEW f \in files \cap ({vms[i].home} \X vms[i].disks)
        PROVE  f \in files'
    <3>1. CASE Founds(c) \/ Plugs(c)
      BY <2>4, <3>1 DEF Founds, Plugs
    <3>2. CASE Assembles(c)
      <4>1. f[1] = i
        BY <1>1, <2>4, <3>2 DEF Assembles, Home
      <4>2. QED
        BY <2>4, <3>2, <4>1 DEF Assembles
    <3>3. QED
      BY <1>7, <3>1, <3>2
  <2>5. QED
    BY <2>1, <2>2, <2>3, <2>4 DEF Respects
<1>8. QED
  BY <1>2, <1>3, <1>4, <1>5, <1>6, <1>7, Zenon DEF Shares

-----------------------------------------------------------------------------
(* The steps keep the invariant. *)

LEMMA StagedKept ==
    ASSUME DriversInv, NEW c \in Clients, Shares(c), NEW d \in Clients
    PROVE  Staged(d)'
<1>1. Typed /\ Staged(c) /\ Staged(d) /\ Ids = Clients /\ 0 \notin Clients /\ ref[c] \in Slots
      /\ Home(c)
  BY Owners DEF DriversInv, Owns
<1>2. CASE d # c
  BY <1>1, <1>2, Bystander DEF Staged
<1>3. CASE d = c
  <2>1. CASE Fetches(c)
    <3>1. /\ pc[c] \in Before /\ pc'[c] \in Before \cup {"failed"}
          /\ UNCHANGED <<kind, cand, ref, typed>>
      BY <2>1 DEF Fetches, Still, Moved
    <3>2. QED
      BY <1>1, <1>3, <3>1 DEF Staged, Before, Making, Up, Past
  <2>2. CASE Passes(c)
    <3>1. UNCHANGED <<kind, cand, ref, typed>>
      BY <2>2 DEF Passes, Still
    <3>2. \/ pc'[c] = "failed"
          \/ pc[c] = "folder" /\ pc'[c] = "disks" /\ kind = "workstation"
          \/ pc[c] \in Up \cup Past \cup {"failed", "destroy"} /\ ref[c] # 0
             /\ pc'[c] \in Up \cup Past \cup {"destroy"}
      BY <1>1, <2>2 DEF Passes, Moved, Up, Past, Staged
    <3>3. QED
      BY <1>1, <1>3, <3>1, <3>2 DEF Staged, Before, Making, Up, Past
  <2>3. CASE Chooses(c)
    <3>1. /\ pc[c] = "create" /\ cand'[c] # 0 /\ UNCHANGED <<kind, ref, typed>>
          /\ \/ pc'[c] = "build" /\ kind = "proxmox"
             \/ pc'[c] = "folder" /\ kind \in {"hyperv", "workstation"}
      BY <1>1, <2>3 DEF Chooses, Moved, Apart
    <3>2. QED
      BY <1>1, <1>3, <3>1 DEF Staged, Before, Making, Up, Past
  <2>4. CASE \E i \in Ids : Creates(c, i)
    <3>1. PICK i \in Ids : Creates(c, i)
      BY <2>4
    <3>2. /\ pc[c] \in Before \cup Making /\ pc'[c] \in {"attach", "failed"} /\ UNCHANGED <<kind, cand, typed>>
          /\ i = (IF kind \in ByClient THEN c ELSE cand[c])
          /\ ref'[c] = IF pc'[c] = "attach" THEN i ELSE ref[c]
      BY <3>1 DEF Creates, Moved, Apart, Before, Making, ByClient
    <3>3. QED
      BY <1>1, <1>3, <3>2 DEF Staged, Before, Making, Up, Past
  <2>5. CASE Alters(c) \/ Types(c) \/ Destroys(c)
    <3>1. /\ pc[c] \in Up \cup {"destroy"} /\ pc'[c] \in Up \cup Past \cup {"failed"}
          /\ UNCHANGED <<kind, cand, ref>>
      BY <2>5 DEF Alters, Types, Destroys, Moved, Apart, Up
    <3>2. QED
      BY <1>1, <1>3, <3>1 DEF Staged, Before, Making, Up, Past
  <2>6. CASE Founds(c)
    <3>1. /\ UNCHANGED <<kind, ref, typed>> /\ ref[c] = 0 /\ typed[c] = 0
          /\ \/ kind = "hyperv" /\ pc'[c] \in {"disks", "failed"} /\ cand'[c] = cand[c] /\ cand[c] # 0
             \/ kind = "xcpng" /\ pc'[c] = "uuid" /\ cand'[c] = c
             \/ kind = "xcpng" /\ pc'[c] = "failed"
      BY <1>1, <2>6 DEF Founds, Moved, Apart, Staged, Before, Making
    <3>2. QED
      BY <1>1, <1>3, <3>1 DEF Staged, Before, Making, Up, Past
  <2>7. CASE Plugs(c) \/ Lays(c) \/ Assembles(c)
    <3>1. /\ UNCHANGED <<kind, ref, typed, cand>> /\ pc[c] \in Making
          /\ \/ kind = "hyperv" /\ pc'[c] \in {"disks", "failed"}
             \/ kind = "workstation" /\ pc'[c] \in {"vmx", "failed"}
             \/ kind = "xcpng" /\ pc'[c] \in {"vdi", "vbd", "vif", "rollback", "failed"}
                /\ pc[c] \in {"uuid", "vdi", "vbd", "rollback"}
      BY <2>7 DEF Plugs, Lays, Assembles, Moved, Apart, Making
    <3>2. QED
      BY <1>1, <1>3, <3>1 DEF Staged, Before, Making, Up, Past
  <2>8. CASE Hands(c)
    <3>1. /\ UNCHANGED <<kind, typed, cand>>
          /\ \/ kind = "hyperv" /\ pc[c] = "disks" /\ pc'[c] \in {"attach", "failed"}
             \/ kind = "xcpng" /\ pc[c] = "vif" /\ pc'[c] \in {"attach", "rollback"}
          /\ ref'[c] = IF pc'[c] = "attach" THEN c ELSE ref[c]
      BY <2>8 DEF Hands, Moved, Apart
    <3>2. QED
      BY <1>1, <1>3, <3>1 DEF Staged, Before, Making, Up, Past, ByClient
  <2>9. QED
    BY <2>1, <2>2, <2>3, <2>4, <2>5, <2>6, <2>7, <2>8, Zenon DEF Shares
<1>4. QED
  BY <1>2, <1>3

\* Who holds a VM owns it.
LEMMA HeldKept ==
    ASSUME DriversInv, NEW c \in Clients, Shares(c), NEW d \in Clients
    PROVE  Held(d)'
<1>1. Typed /\ Staged(c) /\ Held(d) /\ Half(c) /\ Build(c) /\ Ids = Clients /\ 0 \notin Clients
      /\ (ref[d] # 0 => ref[d] \in Ids) /\ \A i \in Ids : Respects(c, i)
  BY Owners, RespectsOthers DEF DriversInv, Owns
<1>2. CASE d # c
  <2>1. ref'[d] = ref[d] /\ pc'[d] = pc[d]
    BY <1>2, Bystander
  <2>2. CASE ref[d] # 0
    <3> DEFINE i == ref[d]
    <3>1. Respects(c, i) /\ Vm(d) = vms[i] /\ Vm(d)' = vms'[i] /\ d # 0
      BY <1>1, <2>1, <2>2 DEF Vm
    <3> HIDE DEF i
    <3>2. vms'[i].owner = d => vms[i].owner = d
      BY <1>2, <3>1 DEF Respects
    <3>3. vms[i].owner = d => vms'[i].owner = d /\ vms'[i].disks = vms[i].disks
      BY <1>2, <3>1 DEF Respects
    <3>4. QED
      BY <1>1, <2>1, <2>2, <3>1, <3>2, <3>3 DEF Held
  <2>3. QED
    BY <2>1, <2>2 DEF Held
<1>3. CASE d = c
  <2>1. CASE Fetches(c) \/ Passes(c)
    <3>1. UNCHANGED <<vms, ref>> /\ (pc[c] \in Past => pc'[c] \in Past)
      BY <2>1 DEF Fetches, Passes, Still, Moved, Before, Up, Past
    <3>2. QED
      BY <1>1, <1>3, <3>1 DEF Held, Vm
  <2>2. CASE Chooses(c) \/ Types(c) \/ Lays(c)
    <3>1. UNCHANGED <<vms, ref>> /\ pc[c] \notin Past
      BY <2>2 DEF Chooses, Types, Lays, Moved, Past
    <3>2. QED
      BY <1>1, <1>3, <3>1 DEF Held, Vm
  <2>3. CASE \E i \in Ids : Creates(c, i)
    <3>1. PICK i \in Ids : Creates(c, i)
      BY <2>3
    <3>2. /\ vms'[i].owner = c /\ vms'[i].disks = Disks /\ pc[c] \in Before \cup Making
          /\ ref'[c] = IF pc'[c] = "attach" THEN i ELSE ref[c]
      BY <3>1 DEF Creates, Moved, Before, Making
    <3>3. ref[c] = 0
      BY <1>1, <3>2 DEF Staged
    <3>4. QED
      BY <1>3, <3>2, <3>3 DEF Held, Vm
  <2>4. CASE Alters(c)
    <3>1. /\ pc[c] \in Up /\ ref'[c] = ref[c]
          /\ vms'[ref[c]].owner = vms[ref[c]].owner /\ vms'[ref[c]].disks = vms[ref[c]].disks
      <4>1. pc[c] \in Up
        BY <2>4 DEF Alters, Moved, Up
      <4>2. ref[c] \in Ids
        BY <4>1, Holds
      <4>3. QED
        BY <2>4, <4>1, <4>2 DEF Alters
    <3>2. Vm(c).owner = c /\ Vm(c).disks = Disks
      BY <3>1, Holds
    <3>3. QED
      BY <1>3, <3>1, <3>2 DEF Held, Vm
  <2>5. CASE Destroys(c)
    <3>1. pc'[c] \in Past /\ ref'[c] = ref[c] /\ vms'[ref[c]] = NoVM
      BY <2>5 DEF Destroys, Moved
    <3>2. QED
      BY <1>1, <1>3, <3>1, Blank DEF Held, Vm
  <2>6. CASE Founds(c) \/ Plugs(c) \/ Assembles(c)
    <3>1. pc[c] \in Before \cup Making /\ ref'[c] = ref[c]
      BY <2>6 DEF Founds, Plugs, Assembles, Moved, Before, Making
    <3>2. ref'[c] = 0
      BY <1>1, <3>1 DEF Staged
    <3>3. QED
      BY <1>3, <3>2 DEF Held
  <2>7. CASE Hands(c)
    <3>1. /\ vms' = vms /\ pc[c] \in Making
          /\ ref'[c] = IF pc'[c] = "attach" THEN c ELSE ref[c]
          /\ vms[c].owner = c /\ vms[c].disks = Disks
      BY <1>1, <2>7 DEF Hands, Moved, Making, Half, Build
    <3>2. ref[c] = 0
      BY <1>1, <3>1 DEF Staged
    <3>3. QED
      BY <1>3, <3>1, <3>2 DEF Held, Vm
  <2>8. QED
    BY <2>1, <2>2, <2>3, <2>4, <2>5, <2>6, <2>7, Zenon DEF Shares
<1>4. QED
  BY <1>2, <1>3

LEMMA HalfKept ==
    ASSUME DriversInv, NEW c \in Clients, Shares(c), NEW d \in Clients
    PROVE  Half(d)'
<1>1. Typed /\ Half(d) /\ Ids = Clients /\ 0 \notin Clients /\ Respects(c, d)
  BY Owners, RespectsOthers DEF DriversInv, Owns
<1>2. CASE d # c
  BY <1>1, <1>2, Bystander DEF Half, Respects
<1>3. ASSUME d = c, kind = "hyperv", pc'[c] = "disks"
      PROVE  vms'[c].owner = c /\ vms'[c].efi
  <2>1. CASE Founds(c)
    BY <2>1 DEF Founds
  <2>2. CASE Plugs(c)
    BY <1>1, <1>3, <2>2 DEF Plugs, Half, Moved
  <2>3. ~Fetches(c) /\ ~Passes(c) /\ ~Chooses(c) /\ ~Alters(c) /\ ~Types(c) /\ ~Destroys(c)
    BY <1>3 DEF Fetches, Passes, Chooses, Alters, Types, Destroys, Moved, Before, Past
  <2>4. ~Hands(c) /\ ~Lays(c) /\ ~Assembles(c) /\ \A i \in Ids : ~Creates(c, i)
    BY <1>3 DEF Hands, Lays, Assembles, Creates, Moved
  <2>5. QED
    BY <2>1, <2>2, <2>3, <2>4, Zenon DEF Shares
<1>4. QED
  BY <1>2, <1>3, Bystander DEF Half

\* Workstation: the folder a client has its disks in stays its own until the .vmx.
LEMMA ReservedKept ==
    ASSUME DriversInv, NEW c \in Clients, Shares(c), NEW d \in Clients
    PROVE  Reserved(d)'
<1>1. /\ Typed /\ Staged(c) /\ Staged(d) /\ Reserved(c) /\ Reserved(d) /\ Ids = Clients /\ 0 \notin Clients
      /\ \A i \in Ids : Home(i) /\ Kept(i)
      /\ \A e \in Clients : Staged(e) /\ Reserved(e)
  BY Owners DEF DriversInv, Owns
<1>2. \A e \in Clients : pc[e] = "vmx" => kind = "workstation" /\ cand[e] \in Ids
  BY <1>1, Owners DEF Staged, Making, Slots
<1>3. SUFFICES ASSUME pc'[d] = "vmx", kind = "workstation"
               PROVE  /\ {cand'[d]} \X Disks \subseteq files' /\ vms'[cand'[d]].owner = 0
                      /\ \A e \in Clients \ {d} : pc'[e] = "vmx" => cand'[e] # cand'[d]
  <2>1. pc'[d] = "vmx" => kind = "workstation"
    BY StagedKept, Bystander DEF Staged
  <2>2. QED
    BY <1>3, <2>1 DEF Reserved
<1>4. CASE Lays(c)
  <2>1. /\ UNCHANGED <<vms, cand>> /\ files \subseteq files' /\ FilesOf(cand[c]) = {} /\ pc[c] = "disks"
        /\ pc'[c] = "vmx" => files' = files \cup ({cand[c]} \X Disks)
        /\ \A e \in Clients \ {c} : pc'[e] = pc[e]
    BY <1>4 DEF Lays, Moved
  <2>2. PICK k \in Disks : TRUE
    BY Numbers
  <2>3. <<cand[c], k>> \notin files
    BY <2>1 DEF FilesOf
  <2>4. \A e \in Clients \ {c} : pc[e] = "vmx" => cand[e] # cand[c]
    BY <1>1, <2>2, <2>3 DEF Reserved
  <2>5. CASE d # c
    BY <1>1, <1>3, <2>1, <2>4, <2>5 DEF Reserved
  <2>6. CASE d = c
    <3>1. cand[c] \in Ids
      BY <1>1, <2>1, Owners DEF Staged, Making, Slots
    <3>2. vms[cand[c]].owner = 0
      <4>1. SUFFICES ASSUME vms[cand[c]].owner # 0
                     PROVE  FALSE
        OBVIOUS
      <4>2. vms[cand[c]].home = cand[c] /\ vms[cand[c]].disks = Disks
        BY <1>1, <1>3, <3>1, <4>1 DEF Home, ByClient
      <4>3. {cand[c]} \X Disks \subseteq files
        BY <1>1, <1>3, <3>1, <4>1, <4>2 DEF Kept
      <4>4. QED
        BY <2>2, <2>3, <4>3
    <3>3. QED
      BY <1>3, <2>1, <2>4, <2>6, <3>2
  <2>7. QED
    BY <2>5, <2>6
<1>5. CASE ~Lays(c)
  <2>0. pc'[c] # "vmx"
    <3>1. Fetches(c) \/ Passes(c) \/ Chooses(c) \/ Alters(c) \/ Types(c) \/ Destroys(c) => pc'[c] # "vmx"
      BY DEF Fetches, Passes, Chooses, Alters, Types, Destroys, Moved, Before, Past
    <3>2. Hands(c) \/ Founds(c) \/ Plugs(c) \/ Assembles(c) \/ (\E i \in Ids : Creates(c, i)) => pc'[c] # "vmx"
      BY DEF Hands, Founds, Plugs, Assembles, Creates, Moved
    <3>3. QED
      BY <1>5, <3>1, <3>2, Zenon DEF Shares
  <2>1. pc[d] = "vmx" /\ d # c
    BY <1>3, <2>0, Bystander
  <2>2. /\ cand'[d] = cand[d] /\ cand[d] \in Ids /\ {cand[d]} \X Disks \subseteq files
        /\ vms[cand[d]].owner = 0 /\ \A e \in Clients \ {d} : pc[e] = "vmx" => cand[e] # cand[d]
    BY <1>1, <1>2, <2>1, Bystander DEF Reserved
  <2>3. \A e \in Clients \ {d} : pc'[e] = "vmx" => cand'[e] # cand'[d]
    BY <2>0, <2>2, Bystander
  <2>4. CASE \E k \in Ids : Creates(c, k)
    <3>1. PICK k \in Ids : Creates(c, k)
      BY <2>4
    <3>2. pc[c] = "vmx" /\ k = cand[c] /\ (\A j \in Ids \ {k} : vms'[j] = vms[j]) /\ files \subseteq files'
      BY <1>3, <3>1 DEF Creates, Moved
    <3>3. QED
      BY <2>1, <2>2, <2>3, <3>2
  <2>5. CASE Destroys(c)
    <3>1. /\ pc[c] = "destroy" /\ \A j \in Ids \ {ref[c]} : vms'[j] = vms[j]
          /\ \A f \in files \ files' : f[1] = Vm(c).home
      BY <1>3, <2>5 DEF Destroys, Moved
    <3>2. ref[c] \in Ids /\ vms[ref[c]].owner = c
      BY <3>1, Holds DEF Vm
    <3>3. cand[d] # ref[c] /\ vms[ref[c]].home = ref[c]
      BY <1>1, <1>3, <2>2, <3>2 DEF Home
    <3>4. \A f \in {cand[d]} \X Disks : f[1] # Vm(c).home
      BY <3>3 DEF Vm
    <3>5. QED
      BY <2>2, <2>3, <3>1, <3>3, <3>4
  <2>6. CASE Alters(c)
    <3>1. pc[c] \in Up
      BY <2>6 DEF Alters, Moved, Up
    <3>2. QED
      BY <2>2, <2>3, <2>6 DEF Alters
  <2>7. CASE Fetches(c) \/ Passes(c) \/ Chooses(c) \/ Types(c) \/ Hands(c)
    BY <2>2, <2>3, <2>7 DEF Fetches, Passes, Still, Chooses, Types, Hands
  <2>8. ~Founds(c) /\ ~Plugs(c) /\ ~Assembles(c)
    BY <1>3 DEF Founds, Plugs, Assembles
  <2>9. QED
    BY <1>5, <2>4, <2>5, <2>6, <2>7, <2>8, Zenon DEF Shares
<1>6. QED
  BY <1>4, <1>5

\* Whose a VM is.
LEMMA HomeKept ==
    ASSUME DriversInv, NEW c \in Clients, Shares(c), NEW i \in Ids
    PROVE  Home(i)'
<1>1. /\ Typed /\ Staged(c) /\ Half(c) /\ Home(i) /\ Ids = Clients /\ 0 \notin Clients /\ Respects(c, i)
      /\ vms[i].owner \in Slots
  BY Owners, RespectsOthers DEF DriversInv, Owns
<1>2. kind' = kind
  BY Bystander
<1>3. ASSUME NEW d \in Clients \ {c}, vms'[i].owner = d
      PROVE  Home(i)'
  <2>1. vms[i].owner = d /\ vms'[i].home = vms[i].home /\ vms'[i].disks = vms[i].disks
    BY <1>1, <1>3 DEF Respects
  <2>2. pc'[d] = pc[d] /\ cand'[d] = cand[d]
    BY Bystander
  <2>3. kind = "hyperv" => i = d
    BY <1>1, <2>1 DEF Home, ByClient
  <2>4. QED
    BY <1>1, <1>2, <1>3, <2>1, <2>2, <2>3 DEF Home
<1>4. ASSUME vms'[i].owner = c, vms[i].owner = c, vms'[i].home = vms[i].home,
             vms'[i].disks = vms[i].disks \/ (kind \in ByClient /\ (kind = "hyperv" => 1 \in vms'[i].disks)),
             cand'[c] = cand[c], pc'[c] \notin Before,
             kind = "workstation" => pc'[c] \notin Making
      PROVE  Home(i)'
  <2>1. kind = "hyperv" => i = c
    BY <1>1, <1>4 DEF Home, ByClient
  <2>2. QED
    BY <1>1, <1>2, <1>4, <2>1 DEF Home
<1>5. ASSUME vms'[i].owner = c
      PROVE  Home(i)'
  <2>1. vms[i].owner = c => /\ pc[c] \notin Before /\ (kind = "workstation" => pc[c] \notin Making)
                            /\ (kind \in ByClient => i = c)
    BY <1>1 DEF Home
  <2>2. CASE Fetches(c) \/ Passes(c)
    <3>1. UNCHANGED <<vms, cand>>
      BY <2>2 DEF Fetches, Passes, Still
    <3>2. pc[c] \in Before \/ (pc'[c] \notin Before /\ pc'[c] \notin Making)
          \/ (pc[c] = "folder" /\ kind = "workstation")
      BY <2>2 DEF Fetches, Passes, Moved, Before, Making, Up, Past
    <3>3. pc'[c] \notin Before /\ (kind = "workstation" => pc'[c] \notin Making)
      BY <1>5, <2>1, <3>1, <3>2 DEF Making
    <3>4. QED
      BY <1>4, <1>5, <3>1, <3>3
  <2>3. CASE Chooses(c)
    <3>1. vms' = vms /\ pc[c] \in Before
      BY <2>3 DEF Chooses, Moved, Before
    <3>2. QED
      BY <1>5, <2>1, <3>1
  <2>4. CASE \E k \in Ids : Creates(c, k)
    <3>1. PICK k \in Ids : Creates(c, k)
      BY <2>4
    <3>2. /\ vms'[k].owner = c /\ vms'[k].home = k /\ vms'[k].disks = Disks /\ cand'[c] = cand[c]
          /\ pc[c] \in Before \cup Making /\ (kind = "workstation" => pc[c] \in Making)
          /\ pc'[c] \in {"attach", "failed"} /\ (i # k => vms'[i] = vms[i])
          /\ \/ kind \in ByClient /\ kind # "hyperv" /\ k = c
             \/ kind \notin ByClient /\ k = cand[c]
      BY <3>1 DEF Creates, Moved, Before, Making, ByClient
    <3>3. pc'[c] \notin Before /\ pc'[c] \notin Making
      BY <3>2 DEF Before, Making
    <3>4. CASE i = k
      BY <1>2, <1>5, <3>2, <3>3, <3>4 DEF Home, ByClient
    <3>5. CASE i # k
      BY <1>4, <1>5, <3>2, <3>3, <3>5
    <3>6. QED
      BY <3>4, <3>5
  <2>5. CASE Alters(c)
    <3>1. /\ vms'[i].owner = vms[i].owner /\ vms'[i].home = vms[i].home
          /\ vms'[i].disks = vms[i].disks /\ cand'[c] = cand[c]
          /\ pc'[c] \in Up \cup {"failed"}
      BY <2>5 DEF Alters, Moved, Up
    <3>2. pc'[c] \notin Before /\ pc'[c] \notin Making
      BY <3>1 DEF Before, Making, Up
    <3>3. QED
      BY <1>4, <1>5, <3>1, <3>2
  <2>6. CASE Types(c) \/ Destroys(c) \/ Hands(c)
    <3>1. /\ cand'[c] = cand[c] /\ pc'[c] \in Up \cup Past \cup {"failed", "rollback"}
          /\ (pc'[c] = "rollback" => kind = "xcpng")
      BY <2>6 DEF Types, Destroys, Hands, Moved, Up, Past
    <3>2. pc'[c] \notin Before /\ (kind = "workstation" => pc'[c] \notin Making)
      BY <3>1 DEF Before, Making, Up, Past
    <3>3. vms'[i] = vms[i] \/ vms'[i].owner = 0
      BY <2>6, Blank DEF Types, Destroys, Hands
    <3>4. QED
      BY <1>1, <1>4, <1>5, <3>1, <3>2, <3>3
  <2>7. CASE Founds(c)
    <3>1. /\ (i # c => vms'[i] = vms[i]) /\ pc[c] \in Before \cup Making
          /\ vms'[c].home = (IF kind = "hyperv" THEN cand[c] ELSE c) /\ vms'[c].disks = {}
          /\ kind \in {"hyperv", "xcpng"} /\ pc'[c] \in {"disks", "uuid", "failed"}
          /\ (kind = "hyperv" => pc[c] \in Making /\ cand'[c] = cand[c])
      BY <2>7 DEF Founds, Moved, Before, Making
    <3>2. pc'[c] \notin Before
      BY <3>1 DEF Before
    <3>3. i = c
      <4>1. SUFFICES ASSUME i # c PROVE FALSE
        OBVIOUS
      <4>2. QED
        BY <1>1, <1>5, <3>1, <4>1 DEF Home, ByClient
    <3>4. kind = "hyperv" => cand[c] # 0
      BY <1>1, <3>1 DEF Staged
    <3>5. QED
      BY <1>2, <1>5, <3>1, <3>2, <3>3, <3>4 DEF Home, ByClient
  <2>8. CASE Plugs(c)
    <3>1. /\ (i # c => vms'[i] = vms[i]) /\ cand'[c] = cand[c] /\ kind = "hyperv"
          /\ pc'[c] \in {"disks", "failed"} /\ vms'[c].owner = vms[c].owner /\ vms'[c].home = vms[c].home
          /\ 1 \in vms'[c].disks
      BY <2>8 DEF Plugs, Moved
    <3>2. pc'[c] \notin Before
      BY <3>1 DEF Before
    <3>3. CASE i = c
      BY <1>4, <1>5, <3>1, <3>2, <3>3 DEF ByClient
    <3>4. CASE i # c
      BY <1>4, <1>5, <3>1, <3>2, <3>4
    <3>5. QED
      BY <3>3, <3>4
  <2>9. CASE Lays(c)
    BY <1>5, <2>1, <2>9 DEF Lays, Moved, Making
  <2>10. CASE Assembles(c)
    <3>1. /\ (i # c => vms'[i] = vms[i]) /\ cand'[c] = cand[c] /\ kind = "xcpng"
          /\ pc'[c] \in {"vdi", "vbd", "vif", "rollback", "failed"}
      BY <2>10 DEF Assembles, Moved
    <3>2. vms'[c] = vms[c] \/ vms'[c].owner = 0
          \/ (vms'[c].owner = vms[c].owner /\ vms'[c].home = vms[c].home)
      BY <2>10, Blank DEF Assembles
    <3>3. pc'[c] \notin Before
      BY <3>1 DEF Before
    <3>4. QED
      BY <1>1, <1>4, <1>5, <3>1, <3>2, <3>3 DEF ByClient
  <2>11. QED
    BY <2>2, <2>3, <2>4, <2>5, <2>6, <2>7, <2>8, <2>9, <2>10, Zenon DEF Shares
<1>6. CASE vms'[i].owner = 0
  BY <1>6 DEF Home
<1>7. QED
  <2>1. vms'[i].owner \in {0} \cup Clients
    BY <1>1 DEF Respects, Slots
  <2>2. QED
    BY <1>3, <1>5, <1>6, <2>1

\* A VM keeps its disk files.
LEMMA KeptKept ==
    ASSUME DriversInv, NEW c \in Clients, Shares(c), NEW i \in Ids
    PROVE  Kept(i)'
<1>1. /\ Typed /\ Staged(c) /\ Build(c) /\ Home(i) /\ Kept(i) /\ Ids = Clients /\ 0 \notin Clients /\ Respects(c, i)
      /\ vms[i].owner \in Slots /\ (kind = "hyperv" /\ vms[i].owner = c => i = c)
  BY Owners, RespectsOthers DEF DriversInv, Owns, Home, ByClient
<1>2. kind' = kind
  BY Bystander
<1>3. ASSUME NEW d \in Clients \ {c}, vms'[i].owner = d
      PROVE  Kept(i)'
  <2>1. /\ vms[i].owner = d /\ vms'[i].home = vms[i].home /\ vms'[i].disks = vms[i].disks
        /\ files \cap ({vms[i].home} \X vms[i].disks) \subseteq files'
    BY <1>1, <1>3 DEF Respects
  <2>2. kind = "xcpng" => i = d
    BY <1>1, <2>1 DEF Home, ByClient
  <2>3. pc'[d] = pc[d] /\ ref'[d] = ref[d]
    BY Bystander
  <2>4. QED
    BY <1>1, <1>2, <2>1, <2>2, <2>3 DEF Kept
<1>4. ASSUME vms[i].owner = c, vms'[i].home = vms[i].home, vms'[i].disks = vms[i].disks,
             files \subseteq files', kind = "xcpng" => (pc[c] = "failed" /\ ref[c] = 0 => pc'[c] = "failed" /\ ref'[c] = 0)
      PROVE  Kept(i)'
  <2>1. kind = "xcpng" => i = c
    BY <1>1, <1>4 DEF Home, ByClient
  <2>2. QED
    BY <1>1, <1>2, <1>4, <2>1 DEF Kept
<1>5. ASSUME vms'[i].owner = c
      PROVE  Kept(i)'
  <2>1. vms[i].owner = c => pc[c] \notin Before
    BY <1>1 DEF Home
  <2>2. CASE Fetches(c) \/ Passes(c)
    <3>1. UNCHANGED <<vms, files, ref>>
      BY <2>2 DEF Fetches, Passes, Still
    <3>2. pc[c] = "failed" /\ ref[c] = 0 => pc'[c] = "failed"
      BY <2>2 DEF Fetches, Passes, Moved, Before, Up
    <3>3. QED
      BY <1>4, <1>5, <3>1, <3>2
  <2>3. CASE Chooses(c) \/ Types(c) \/ Hands(c) \/ Lays(c)
    <3>1. vms' = vms /\ files \subseteq files' /\ pc[c] # "failed"
      BY <2>3 DEF Chooses, Types, Hands, Lays, Moved
    <3>2. QED
      BY <1>4, <1>5, <3>1
  <2>4. CASE \E k \in Ids : Creates(c, k)
    <3>1. PICK k \in Ids : Creates(c, k)
      BY <2>4
    <3>2. /\ vms'[k].home = k /\ vms'[k].disks = Disks /\ files' = files \cup ({k} \X Disks)
          /\ (i # k => vms'[i] = vms[i]) /\ kind # "xcpng"
      BY <3>1 DEF Creates
    <3>3. CASE i = k
      BY <3>2, <3>3 DEF Kept
    <3>4. CASE i # k
      BY <1>4, <1>5, <3>2, <3>4
    <3>5. QED
      BY <3>3, <3>4
  <2>5. CASE Alters(c)
    <3>1. /\ vms'[i].owner = vms[i].owner /\ vms'[i].home = vms[i].home
          /\ vms'[i].disks = vms[i].disks /\ files' = files /\ pc[c] # "failed"
      BY <2>5 DEF Alters, Moved
    <3>2. QED
      BY <1>4, <1>5, <3>1
  <2>6. CASE Destroys(c)
    <3>1. /\ pc[c] = "destroy" /\ vms'[ref[c]] = NoVM /\ (i # ref[c] => vms'[i] = vms[i])
          /\ \A f \in files \ files' : f[1] = IF kind = "xcpng" THEN c ELSE Vm(c).home
          /\ ref'[c] = ref[c]
      BY <2>6 DEF Destroys, Moved
    <3>2. i # ref[c] /\ vms[i].owner = c /\ vms'[i] = vms[i]
      BY <1>1, <1>5, <3>1, Blank
    <3>3. ref[c] # 0 /\ (kind \in ByClient => ref[c] = c)
      BY <1>1, <3>1 DEF Staged
    <3>4. kind \notin ByClient
      BY <1>1, <3>2, <3>3 DEF Home
    <3>5. i = cand[c] /\ ref[c] = cand[c]
      BY <1>1, <3>2, <3>3, <3>4 DEF Home, Staged
    <3>6. QED
      BY <3>2, <3>5
  <2>7. CASE Founds(c)
    <3>1. (i # c => vms'[i] = vms[i]) /\ vms'[c].disks = {} /\ files' = files /\ pc[c] # "failed"
      BY <2>7 DEF Founds, Moved
    <3>2. CASE i = c
      BY <3>1, <3>2 DEF Kept
    <3>3. CASE i # c
      BY <1>4, <1>5, <3>1, <3>3
    <3>4. QED
      BY <3>2, <3>3
  <2>8. CASE Plugs(c)
    <3>1. PICK d \in Disks : vms'[c].disks = vms[c].disks \cup {d} /\ files' = files \cup {<<cand[c], d>>}
      BY <2>8 DEF Plugs
    <3>2. /\ (i # c => vms'[i] = vms[i]) /\ vms'[c].home = vms[c].home /\ vms'[c].owner = vms[c].owner
          /\ kind = "hyperv" /\ pc[c] # "failed"
      BY <2>8 DEF Plugs, Moved
    <3>3. CASE i # c
      BY <1>4, <1>5, <3>1, <3>2, <3>3
    <3>4. CASE i = c
      <4>1. vms[c].owner = c /\ vms[c].home = cand[c]
        BY <1>1, <1>5, <3>2, <3>4 DEF Home
      <4>2. {cand[c]} \X vms[c].disks \subseteq files
        BY <1>1, <3>2, <3>4, <4>1 DEF Kept
      <4>3. {cand[c]} \X vms'[c].disks \subseteq files'
        BY <3>1, <4>2
      <4>4. QED
        BY <3>2, <3>4, <4>1, <4>3 DEF Kept
    <3>5. QED
      BY <3>3, <3>4
  <2>9. CASE Assembles(c)
    <3>1. (i # c => vms'[i] = vms[i]) /\ kind = "xcpng" /\ pc[c] # "failed" /\ ref'[c] = ref[c]
          /\ pc[c] \in {"uuid", "vdi", "vbd", "rollback"}
      BY <2>9 DEF Assembles, Moved
    <3>2. i = c
      <4>1. SUFFICES ASSUME i # c PROVE FALSE
        OBVIOUS
      <4>2. QED
        BY <1>1, <1>5, <3>1, <4>1 DEF Home, ByClient
    <3>3. ref[c] = 0
      BY <1>1, <3>1 DEF Staged, Making
    <3>4. CASE pc'[c] = "failed"
      BY <1>2, <3>1, <3>2, <3>3, <3>4 DEF Kept
    <3>5. CASE pc'[c] # "failed"
      <4>1. pc[c] \in {"uuid", "vdi", "vbd"} /\ files \subseteq files' /\ vms'[c].home = vms[c].home
        BY <2>9, <3>5 DEF Assembles, Moved
      <4>2. vms[c].owner = c
        BY <1>1, <3>1, <4>1 DEF Build
      <4>3. vms[c].home = c
        BY <1>1, <3>1, <3>2, <4>2 DEF Home
      <4>4. CASE vms'[c].disks = vms[c].disks
        BY <1>4, <3>1, <3>2, <4>1, <4>2, <4>4
      <4>5. CASE pc[c] = "vbd" /\ vms'[c].disks = vms[c].disks \cup {NextDisk(c)}
        <5>1. FilesOf(c) = {<<c, d>> : d \in vms[c].disks \cup {NextDisk(c)}}
          BY <1>1, <3>1, <4>5 DEF Build
        <5>2. {c} \X vms'[c].disks \subseteq files
          BY <4>5, <5>1 DEF FilesOf
        <5>3. QED
          BY <3>2, <4>1, <4>3, <5>2 DEF Kept
      <4>6. QED
        BY <2>9, <3>5, <4>4, <4>5 DEF Assembles
    <3>6. QED
      BY <3>4, <3>5
  <2>10. QED
    BY <2>2, <2>3, <2>4, <2>5, <2>6, <2>7, <2>8, <2>9, Zenon DEF Shares
<1>6. CASE vms'[i].owner = 0
  BY <1>6 DEF Kept
<1>7. QED
  <2>1. vms'[i].owner \in {0} \cup Clients
    BY <1>1 DEF Respects, Slots
  <2>2. QED
    BY <1>3, <1>5, <1>6, <2>1

\* Of two VMs in one home, one has no disks.
LEMMA AloneKept ==
    ASSUME DriversInv, NEW c \in Clients, Shares(c), NEW i \in Ids, NEW j \in Ids
    PROVE  Alone(i, j)'
<1>1. /\ Typed /\ Ids = Clients /\ 0 \notin Clients /\ Staged(c) /\ Half(c)
      /\ \A k \in Ids : Home(k) /\ Kept(k) /\ \A l \in Ids : Alone(k, l)
  BY Owners DEF DriversInv, Owns
<1>2. kind' = kind
  BY Bystander
<1>3. Home(i)' /\ Home(j)'
  BY HomeKept
<1>4. CASE kind # "hyperv"
  BY <1>2, <1>3, <1>4 DEF Home, Alone
<1>5. ASSUME kind = "hyperv",
             \A k \in Ids : vms'[k].owner # 0 /\ vms'[k].disks # {} =>
                 vms[k].owner = vms'[k].owner /\ vms[k].home = vms'[k].home /\ vms[k].disks = vms'[k].disks
      PROVE  Alone(i, j)'
  BY <1>1, <1>5 DEF Alone
<1>6. CASE kind = "hyperv" /\ Plugs(c)
  <2>1. PICK d \in Disks : /\ vms'[c].disks = vms[c].disks \cup {d}
                           /\ <<cand[c], d>> \notin files /\ (1 \in vms[c].disks \/ d = 1)
    BY <1>6 DEF Plugs
  <2>2. /\ \A k \in Ids \ {c} : vms'[k] = vms[k]
        /\ vms'[c].owner = vms[c].owner /\ vms'[c].home = vms[c].home /\ pc[c] = "disks"
    BY <1>6 DEF Plugs, Moved
  <2>3. vms[c].owner = c /\ vms[c].home = cand[c]
    BY <1>1, <1>6, <2>2 DEF Half, Home
  <2>4. ASSUME NEW k \in Ids \ {c}, vms[k].owner # 0, vms[k].home = cand[c]
        PROVE  vms[k].disks = {}
    <3>1. CASE 1 \in vms[c].disks
      BY <1>1, <2>3, <2>4, <3>1 DEF Alone
    <3>2. CASE d = 1 /\ vms[k].disks # {}
      <4>1. 1 \in vms[k].disks
        BY <1>1, <1>6, <2>4, <3>2 DEF Home
      <4>2. {cand[c]} \X vms[k].disks \subseteq files
        BY <1>1, <1>6, <2>4 DEF Kept
      <4>3. QED
        BY <2>1, <3>2, <4>1, <4>2
    <3>3. QED
      BY <2>1, <3>1, <3>2
  <2>5. CASE i = c \/ j = c
    BY <2>2, <2>3, <2>4, <2>5 DEF Alone
  <2>6. CASE i # c /\ j # c
    BY <1>1, <2>2, <2>6 DEF Alone
  <2>7. QED
    BY <2>5, <2>6
<1>7. CASE kind = "hyperv" /\ ~Plugs(c)
  <2>1. CASE Fetches(c) \/ Passes(c) \/ Chooses(c) \/ Types(c) \/ Hands(c)
    <3>1. vms' = vms
      BY <2>1 DEF Fetches, Passes, Still, Chooses, Types, Hands
    <3>2. QED
      BY <1>5, <1>7, <3>1
  <2>2. CASE Alters(c)
    BY <1>5, <1>7, <2>2 DEF Alters
  <2>3. CASE Destroys(c)
    <3>1. vms'[ref[c]] = NoVM /\ \A k \in Ids \ {ref[c]} : vms'[k] = vms[k]
      BY <2>3 DEF Destroys
    <3>2. QED
      BY <1>5, <1>7, <3>1, Blank
  <2>4. CASE Founds(c)
    <3>1. vms'[c].disks = {} /\ \A k \in Ids \ {c} : vms'[k] = vms[k]
      BY <2>4 DEF Founds
    <3>2. QED
      BY <1>5, <1>7, <3>1
  <2>5. ~Lays(c) /\ ~Assembles(c) /\ \A k \in Ids : ~Creates(c, k)
    BY <1>7 DEF Lays, Assembles, Creates
  <2>6. QED
    BY <1>7, <2>1, <2>2, <2>3, <2>4, <2>5, Zenon DEF Shares
<1>8. QED
  BY <1>4, <1>6, <1>7

\* The series of calls of XCP-ng.
LEMMA BuildApart ==
    ASSUME DriversInv, NEW c \in Clients, Shares(c), kind = "xcpng", NEW d \in Clients \ {c}
    PROVE  vms'[d] = vms[d] /\ FilesOf(d)' = FilesOf(d)
<1>1. Ids = Clients
  BY DEF Ids
<1>2. SUFFICES vms'[d] = vms[d] /\ \A f : f[1] = d => (f \in files <=> f \in files')
  BY DEF FilesOf
<1>3. CASE Fetches(c) \/ Passes(c) \/ Chooses(c) \/ Types(c) \/ Hands(c)
  BY <1>3 DEF Fetches, Passes, Still, Chooses, Types, Hands
<1>4. CASE Alters(c) \/ Destroys(c)
  <2>1. pc[c] \in Up \cup {"destroy"}
    BY <1>4 DEF Alters, Destroys, Moved, Up
  <2>2. ref[c] = c
    BY <2>1 DEF DriversInv, Owns, Staged, ByClient
  <2>3. QED
    BY <1>1, <1>4, <2>2 DEF Alters, Destroys, Namesake
<1>5. CASE Founds(c) \/ Assembles(c)
  BY <1>1, <1>5 DEF Founds, Assembles
<1>6. ~Plugs(c) /\ ~Lays(c) /\ \A i \in Ids : ~Creates(c, i)
  BY DEF Plugs, Lays, Creates
<1>7. QED
  BY <1>3, <1>4, <1>5, <1>6, Zenon DEF Shares

LEMMA BuildKept ==
    ASSUME DriversInv, NEW c \in Clients, Shares(c), Typed', NEW d \in Clients
    PROVE  Build(d)'
<1>1. /\ Typed /\ Ids = Clients /\ 0 \notin Clients /\ Staged(c) /\ Build(c) /\ Build(d)
      /\ Home(c) /\ faults \in Nat /\ faults' \in Nat
  BY Owners DEF DriversInv, Owns, Typed
<1>2. kind' = kind /\ faults' >= faults
  BY Bystander
<1>3. SUFFICES ASSUME kind = "xcpng"
               PROVE  Build(d)'
  BY <1>2 DEF Build
<1>4. CASE d # c
  <2>1. vms'[d] = vms[d] /\ FilesOf(d)' = FilesOf(d)
    BY <1>3, <1>4, BuildApart
  <2>2. NextDisk(d)' = NextDisk(d)
    BY <2>1 DEF NextDisk
  <2>3. pc'[d] = pc[d] /\ cand'[d] = cand[d] /\ ref'[d] = ref[d]
    BY <1>4, Bystander
  <2>4. QED
    BY <1>1, <1>2, <1>3, <2>1, <2>2, <2>3 DEF Build
<1>5. Build(c)'
  <2>1. ASSUME FilesOf(c)' = FilesOf(c), cand'[c] = cand[c], pc[c] \in Before, pc'[c] \in Before \cup {"failed"}
        PROVE  Build(c)'
    <3>1. cand[c] = 0 /\ FilesOf(c) = {}
      BY <1>1, <1>3, <2>1 DEF Build
    <3>2. QED
      BY <1>1, <2>1, <3>1 DEF Build, Before
  <2>2. ASSUME pc'[c] \in Up \cup Past \cup {"destroy"}
        PROVE  Build(c)'
    BY <2>2 DEF Build, Before, Up, Past
  <2>3. ASSUME pc'[c] = "failed", ref'[c] # 0
        PROVE  Build(c)'
    BY <2>3 DEF Build, Before
  <2>4. CASE Fetches(c)
    BY <2>1, <2>4 DEF Fetches, Still, Moved, FilesOf
  <2>5. CASE Passes(c)
    <3>1. ref' = ref /\ pc[c] \in Making \cup Up \cup {"ready", "failed", "destroy"}
      BY <2>5 DEF Passes, Still, Moved, Making, Up
    <3>2. pc'[c] \in Up \cup Past \cup {"destroy", "failed"} /\ pc[c] \notin {"build", "folder", "disks"}
      BY <1>1, <1>3, <2>5 DEF Passes, Moved, Up, Past, Staged
    <3>3. pc'[c] = "failed" => ref[c] # 0
      BY <1>1, <1>3, <2>5, <3>2 DEF Passes, Moved, Up, Past, Staged
    <3>4. QED
      BY <2>2, <2>3, <3>1, <3>2, <3>3
  <2>6. CASE Alters(c) \/ Types(c) \/ Destroys(c)
    <3>1. ref'[c] = ref[c] /\ pc[c] \in Up \cup {"destroy"} /\ pc'[c] \in Up \cup Past \cup {"failed"}
      BY <2>6 DEF Alters, Types, Destroys, Moved, Up
    <3>2. ref[c] # 0
      BY <1>1, <3>1 DEF Staged
    <3>3. QED
      BY <2>2, <2>3, <3>1, <3>2
  <2>7. CASE Founds(c)
    <3>1. /\ vms'[c].owner = c /\ vms'[c].disks = {} /\ files' = files /\ ref' = ref
          /\ pc[c] = "create" /\ pc'[c] \in {"uuid", "failed"}
          /\ cand'[c] = IF pc'[c] = "uuid" THEN c ELSE cand[c]
      BY <1>3, <2>7 DEF Founds, Moved
    <3>2. FilesOf(c)' = {} /\ cand[c] = 0
      BY <1>1, <1>3, <3>1 DEF Build, Before, FilesOf
    <3>3. QED
      BY <1>1, <3>1, <3>2 DEF Build, Before
  <2>8. CASE Hands(c)
    <3>1. /\ vms' = vms /\ files' = files /\ pc[c] = "vif" /\ pc'[c] \in {"attach", "rollback"}
          /\ pc'[c] = "rollback" => faults' > faults
      BY <1>3, <2>8 DEF Hands, Moved
    <3>2. FilesOf(c)' = {<<c, k>> : k \in vms'[c].disks}
      BY <1>1, <1>3, <3>1 DEF Build, FilesOf
    <3>3. CASE pc'[c] = "rollback"
      BY <1>1, <3>1, <3>2, <3>3 DEF Build, Before
    <3>4. CASE pc'[c] = "attach"
      BY <2>2, <3>4 DEF Up
    <3>5. QED
      BY <3>1, <3>3, <3>4
  <2>9. CASE Assembles(c)
    <3> DEFINE F(n) == {<<c, k>> : k \in vms[c].disks \cup {n}}
    <3>1. UNCHANGED <<cand, ref>>
      BY <2>9 DEF Assembles
    <3>2. ASSUME pc'[c] = "rollback", faults' > faults, NEW x,
                 FilesOf(c)' \subseteq {<<c, k>> : k \in vms'[c].disks} \cup {x}
          PROVE  Build(c)'
      BY <1>1, <3>2 DEF Build, Before
    <3>3. CASE pc[c] = "uuid"
      <4>1. UNCHANGED <<vms, files>> /\ (pc'[c] = "vdi" \/ (pc'[c] = "rollback" /\ faults' > faults))
        BY <2>9, <3>3 DEF Assembles
      <4>2. vms'[c].owner = c /\ FilesOf(c)' = {<<c, k>> : k \in vms'[c].disks}
        BY <1>1, <1>3, <3>3, <4>1 DEF Build, FilesOf
      <4>3. CASE pc'[c] = "vdi"
        BY <4>2, <4>3 DEF Build, Before
      <4>4. CASE pc'[c] = "rollback" /\ faults' > faults
        BY <3>2, <4>2, <4>4
      <4>5. QED
        BY <4>1, <4>3, <4>4
    <3>4. CASE pc[c] = "vdi" /\ vms[c].disks # Disks
      <4>1. /\ vms' = vms
            /\ \/ pc'[c] = "vbd" /\ files' = files \cup {<<c, NextDisk(c)>>}
               \/ /\ pc'[c] = "rollback" /\ faults' > faults
                  /\ files' \in {files, files \cup {<<c, NextDisk(c)>>}}
        BY <2>9, <3>4 DEF Assembles
      <4>2. vms[c].owner = c /\ FilesOf(c) = {<<c, k>> : k \in vms[c].disks}
        BY <1>1, <1>3, <3>4 DEF Build
      <4>3. NextDisk(c)' = NextDisk(c)
        BY <4>1 DEF NextDisk
      <4>4. CASE pc'[c] = "vbd" /\ files' = files \cup {<<c, NextDisk(c)>>}
        <5>1. FilesOf(c)' = FilesOf(c) \cup {<<c, NextDisk(c)>>}
          BY <4>4 DEF FilesOf
        <5>2. FilesOf(c)' = {<<c, k>> : k \in vms'[c].disks \cup {NextDisk(c)'}}
          BY <4>1, <4>2, <4>3, <5>1
        <5>3. QED
          BY <3>4, <4>1, <4>2, <4>4, <5>2 DEF Build, Before
      <4>5. CASE pc'[c] = "rollback" /\ faults' > faults
        <5>1. FilesOf(c)' \subseteq FilesOf(c) \cup {<<c, NextDisk(c)>>}
          BY <4>1, <4>5 DEF FilesOf
        <5>2. FilesOf(c)' \subseteq {<<c, k>> : k \in vms'[c].disks} \cup {<<c, NextDisk(c)>>}
          BY <4>1, <4>2, <5>1
        <5>3. QED
          BY <3>2, <4>5, <5>2
      <4>6. QED
        BY <4>1, <4>4, <4>5
    <3>5. CASE pc[c] = "vbd"
      <4> DEFINE n == NextDisk(c)
      <4>1. /\ files' = files
            /\ \/ /\ pc'[c] = "vdi" /\ vms'[c].owner = vms[c].owner
                  /\ vms'[c].disks = vms[c].disks \cup {n}
               \/ pc'[c] = "rollback" /\ faults' > faults /\ vms' = vms
        BY <2>9, <3>5 DEF Assembles
      <4>2. vms[c].owner = c /\ FilesOf(c) = {<<c, k>> : k \in vms[c].disks \cup {n}}
        BY <1>1, <1>3, <3>5 DEF Build
      <4>3. FilesOf(c)' = {<<c, k>> : k \in vms[c].disks \cup {n}}
        BY <4>1, <4>2 DEF FilesOf
      <4> HIDE DEF n
      <4>4. CASE pc'[c] = "vdi" /\ vms'[c].owner = vms[c].owner /\ vms'[c].disks = vms[c].disks \cup {n}
        BY <4>2, <4>3, <4>4 DEF Build, Before
      <4>5. CASE pc'[c] = "rollback" /\ faults' > faults /\ vms' = vms
        <5>1. FilesOf(c)' \subseteq {<<c, k>> : k \in vms'[c].disks} \cup {<<c, n>>}
          BY <4>3, <4>5
        <5>2. QED
          BY <3>2, <4>5, <5>1
      <4>6. QED
        BY <4>1, <4>4, <4>5
    <3>6. CASE pc[c] = "vdi" /\ vms[c].disks = Disks
      <4>1. /\ files' = files /\ vms'[c].owner = vms[c].owner /\ vms'[c].disks = vms[c].disks
            /\ pc'[c] = "vif" \/ (pc'[c] = "rollback" /\ faults' > faults)
        BY <2>9, <3>6 DEF Assembles
      <4>2. vms[c].owner = c /\ FilesOf(c) = {<<c, k>> : k \in vms[c].disks}
        BY <1>1, <1>3, <3>6 DEF Build
      <4>3. FilesOf(c)' = {<<c, k>> : k \in vms'[c].disks}
        BY <4>1, <4>2 DEF FilesOf
      <4>4. CASE pc'[c] = "vif"
        BY <3>6, <4>1, <4>2, <4>3, <4>4 DEF Build, Before
      <4>5. CASE pc'[c] = "rollback" /\ faults' > faults
        BY <3>2, <4>3, <4>5
      <4>6. QED
        BY <4>1, <4>4, <4>5
    <3>7. CASE pc[c] = "rollback"
      <4>1. /\ pc'[c] = "failed"
            /\ \/ vms'[c] = NoVM /\ files' = files \ Attached(c)
               \/ faults' > faults
        BY <2>9, <3>7 DEF Assembles
      <4>2. faults > 0 /\ \E x : FilesOf(c) \subseteq {<<c, k>> : k \in vms[c].disks} \cup {x}
        BY <1>1, <1>3, <3>7 DEF Build
      <4>3. PICK x : FilesOf(c) \subseteq Attached(c) \cup {x}
        BY <4>2 DEF Attached
      <4>4. CASE vms'[c] = NoVM /\ files' = files \ Attached(c)
        <5>1. FilesOf(c)' \subseteq {x}
          BY <4>3, <4>4 DEF FilesOf
        <5>2. QED
          BY <4>1, <4>4, <5>1 DEF Build, Before
      <4>5. CASE faults' > faults
        <5>1. faults' >= 2
          BY <1>1, <4>2, <4>5
        <5>2. QED
          BY <4>1, <5>1 DEF Build, Before
      <4>6. QED
        BY <4>1, <4>4, <4>5
    <3>8. QED
      BY <2>9, <3>3, <3>4, <3>5, <3>6, <3>7 DEF Assembles, Moved
  <2>10. ~Chooses(c) /\ ~Plugs(c) /\ ~Lays(c) /\ \A i \in Ids : ~Creates(c, i)
    BY <1>3 DEF Chooses, Plugs, Lays, Creates
  <2>11. QED
    BY <2>4, <2>5, <2>6, <2>7, <2>8, <2>9, <2>10, Zenon DEF Shares
<1>6. QED
  BY <1>4, <1>5

\* What has been done to a VM.
LEMMA ReadyKept ==
    ASSUME DriversInv, NEW c \in Clients, Shares(c), NEW d \in Clients
    PROVE  Ready(d)'
<1>1. /\ Typed /\ Ids = Clients /\ 0 \notin Clients /\ Staged(c) /\ Half(c) /\ Ready(c) /\ Ready(d)
  BY Owners DEF DriversInv, Owns
<1>2. kind' = kind
  BY Bystander
<1>3. SUFFICES ASSUME pc'[d] \in Up
               PROVE  Ready(d)'
  BY DEF Ready, Up
<1>4. CASE d # c
  <2>1. pc'[d] = pc[d] /\ ref'[d] = ref[d] /\ got'[d] = got[d] /\ pc[d] \in Up
    BY <1>3, <1>4, Bystander
  <2>2. ref[d] \in Ids /\ vms[ref[d]].owner = d
    BY <2>1, Holds DEF Vm
  <2>3. Respects(c, ref[d])
    BY <2>2, RespectsOthers
  <2>4. vms'[ref[d]] = vms[ref[d]]
    BY <1>1, <1>4, <2>2, <2>3 DEF Respects
  <2>5. QED
    BY <1>1, <1>2, <2>1, <2>4 DEF Ready, Vm
<1>5. CASE d = c
  <2>1. CASE Passes(c)
    <3>1. UNCHANGED <<vms, ref, got>> /\ pc[c] = "up" /\ pc'[c] \in {"up", "ready"}
      BY <1>3, <1>5, <2>1 DEF Passes, Still, Moved, Up, Past
    <3>2. QED
      BY <1>1, <1>2, <1>5, <3>1 DEF Ready, Vm, Up
  <2>2. CASE Types(c)
    <3>1. UNCHANGED <<vms, ref, got>> /\ pc[c] = "keys" /\ pc'[c] \in {"up", "failed"}
      BY <1>3, <1>5, <2>2 DEF Types, Moved
    <3>2. QED
      BY <1>1, <1>2, <1>5, <3>1 DEF Ready, Vm, Up
  <2>3. CASE \E i \in Ids : Creates(c, i)
    <3>1. PICK i \in Ids : Creates(c, i)
      BY <2>3
    <3>2. pc'[c] = "attach" /\ ref'[c] = i /\ vms'[i].efi
      BY <1>3, <1>5, <3>1 DEF Creates, Moved, Up
    <3>3. QED
      BY <1>5, <3>2 DEF Ready, Vm
  <2>4. CASE Hands(c)
    <3>1. pc'[c] = "attach" /\ ref'[c] = c /\ vms' = vms
      BY <1>3, <1>5, <2>4 DEF Hands, Moved, Up
    <3>2. kind # "xcpng" => vms[c].efi
      BY <1>1, <2>4 DEF Hands, Half, Moved
    <3>3. QED
      BY <1>2, <1>5, <3>1, <3>2 DEF Ready, Vm
  <2>5. CASE Alters(c)
    <3>1. pc[c] \in Up /\ UNCHANGED <<ref, got>>
      BY <2>5 DEF Alters, Moved, Up
    <3>2. ref[c] \in Ids /\ (kind # "xcpng" => Vm(c).efi)
      BY <1>1, <3>1, Holds DEF Ready
    <3>3. kind # "xcpng" => vms'[ref[c]].efi
      BY <2>5, <3>2 DEF Alters, Vm
    <3>4. \/ pc'[c] = "order" /\ vms'[ref[c]].cd = got[c]
          \/ /\ pc[c] = "order" /\ pc'[c] = "power"
             /\ vms'[ref[c]].order = "disk,cd" /\ vms'[ref[c]].cd = Vm(c).cd
          \/ /\ pc[c] = "power" /\ pc'[c] \in {"keys", "up"} /\ vms'[ref[c]].on
             /\ vms'[ref[c]].order = Vm(c).order /\ vms'[ref[c]].cd = Vm(c).cd
      BY <1>3, <1>5, <2>5 DEF Alters, Moved, Up
    <3>5. QED
      BY <1>1, <1>2, <1>5, <3>1, <3>3, <3>4 DEF Ready, Vm
  <2>6. ~Fetches(c) /\ ~Chooses(c) /\ ~Destroys(c) /\ ~Founds(c) /\ ~Plugs(c) /\ ~Lays(c) /\ ~Assembles(c)
    BY <1>3, <1>5 DEF Fetches, Chooses, Destroys, Founds, Plugs, Lays, Assembles, Moved, Before, Up, Past
  <2>7. QED
    BY <2>1, <2>2, <2>3, <2>4, <2>5, <2>6, Zenon DEF Shares
<1>6. QED
  BY <1>4, <1>5

\* Ports and keys.
LEMMA ConsolesKept ==
    ASSUME DriversInv, NEW c \in Clients, Shares(c)
    PROVE  Consoles'
<1>1. /\ Typed /\ Ids = Clients /\ 0 \notin Clients /\ Staged(c) /\ Reserved(c) /\ Consoles
      /\ \A i \in Ids : Home(i) /\ Respects(c, i) /\ vms[i].owner \in Slots
  BY Owners, RespectsOthers DEF DriversInv, Owns
<1>2. kind' = kind /\ shared' = shared
  BY Bystander
<1>3. SUFFICES ASSUME kind = "workstation"
               PROVE  Consoles'
  BY <1>2 DEF Consoles
<1> DEFINE P == /\ \A i \in Ids : IF vms[i].owner = 0 THEN ~vms[i].on ELSE vms[i].port = port[vms[i].owner]
           Q == \A d \in Clients : pc[d] \in Making \cup Up => port[d] # 0
           R == /\ \A d \in Clients : nextPort[d] > 0
                /\ shared => \A d \in Clients : port[d] < nextPort[1]
                /\ shared => \A d, e \in Clients : d # e /\ port[d] = port[e] => port[d] = 0
<1>4. P /\ Q /\ R
  BY <1>1, <1>3 DEF Consoles
<1>5. ASSUME P', Q', R'
      PROVE  Consoles'
  BY <1>5 DEF Consoles
<1>6. CASE Chooses(c)
  <2>1. /\ vms' = vms /\ port'[c] = nextPort[Driver(c)] /\ pc[c] = "create" /\ shared' = shared
        /\ nextPort' = [nextPort EXCEPT ![Driver(c)] = @ + 1]
        /\ \A d \in Clients \ {c} : port'[d] = port[d] /\ pc'[d] = pc[d]
    BY <1>3, <1>6 DEF Chooses, Apart, Moved
  <2>2. /\ 1 \in Clients /\ Driver(c) \in Clients
        /\ nextPort \in [Clients -> Nat] /\ port \in [Clients -> Nat]
    BY <1>1, Numbers DEF Typed, Driver
  <2>3. \A d \in Clients : nextPort'[d] \in Nat /\ nextPort'[d] >= nextPort[d]
    BY <2>1, <2>2
  <2>4. shared => Driver(c) = 1
    BY DEF Driver
  <2>5. shared => nextPort'[1] = nextPort[1] + 1
    BY <2>1, <2>2, <2>4
  <2>6. \A d \in Clients : nextPort[d] > 0
    BY <1>4
  <2>7. P'
    <3>1. \A i \in Ids : vms[i].owner # c
      BY <1>1, <2>1 DEF Home, Before
    <3>2. QED
      BY <1>1, <1>4, <2>1, <3>1 DEF Slots
  <2>8. Q'
    BY <1>4, <2>1, <2>2, <2>6
  <2>9. R'
    <3>1. \A d \in Clients : nextPort'[d] > 0
      BY <2>2, <2>3, <2>6
    <3>2. ASSUME shared
          PROVE  /\ \A d \in Clients : port'[d] < nextPort'[1]
                 /\ \A d, e \in Clients : d # e /\ port'[d] = port'[e] => port'[d] = 0
      <4>1. /\ port'[c] = nextPort[1] /\ nextPort'[1] = nextPort[1] + 1 /\ nextPort[1] \in Nat
            /\ \A d \in Clients : port[d] < nextPort[1] /\ port[d] \in Nat
        BY <1>4, <2>1, <2>2, <2>4, <2>5, <3>2
      <4>2. \A d \in Clients : port'[d] < nextPort'[1]
        BY <2>1, <4>1
      <4>3. \A d \in Clients \ {c} : port'[d] # port'[c]
        BY <2>1, <4>1
      <4>4. \A d, e \in Clients : d # e /\ port[d] = port[e] => port[d] = 0
        BY <1>4, <3>2
      <4>5. QED
        BY <2>1, <4>2, <4>3, <4>4
    <3>3. QED
      BY <2>1, <3>1, <3>2
  <2>10. QED
    BY <1>5, <2>7, <2>8, <2>9
<1>7. CASE ~Chooses(c)
  <2>1. UNCHANGED <<nextPort, port, shared>>
    <3>1. CASE Fetches(c) \/ Passes(c)
      BY <3>1 DEF Fetches, Passes, Still
    <3>2. CASE Alters(c) \/ Types(c) \/ Destroys(c) \/ Lays(c) \/ Hands(c)
      BY <3>2 DEF Alters, Types, Destroys, Lays, Hands, Apart
    <3>3. CASE Founds(c) \/ Plugs(c) \/ Assembles(c) \/ \E i \in Ids : Creates(c, i)
      BY <3>3 DEF Founds, Plugs, Assembles, Creates, Apart
    <3>4. QED
      BY <1>7, <3>1, <3>2, <3>3 DEF Shares
  <2>2. R'
    BY <1>4, <2>1
  <2>3. Q'
    <3>1. pc'[c] \in Making \cup Up => pc[c] \in Making \cup Up
      <4>1. CASE Fetches(c) \/ Passes(c)
        BY <4>1 DEF Fetches, Passes, Moved, Before, Making, Up, Past
      <4>2. CASE Alters(c) \/ Types(c) \/ Destroys(c) \/ Lays(c) \/ Hands(c)
        BY <4>2 DEF Alters, Types, Destroys, Lays, Hands, Moved, Making, Up, Past
      <4>3. CASE Founds(c) \/ Plugs(c) \/ Assembles(c) \/ \E i \in Ids : Creates(c, i)
        BY <1>3, <4>3 DEF Founds, Plugs, Assembles, Creates, Moved, Making
      <4>4. QED
        BY <1>7, <4>1, <4>2, <4>3 DEF Shares
    <3>2. \A d \in Clients \ {c} : pc'[d] = pc[d]
      BY Bystander
    <3>3. QED
      BY <1>4, <2>1, <3>1, <3>2
  <2>4. P'
    <3>1. CASE Fetches(c) \/ Passes(c) \/ Types(c) \/ Hands(c) \/ Lays(c)
      <4>1. vms' = vms
        BY <3>1 DEF Fetches, Passes, Still, Types, Hands, Lays
      <4>2. QED
        BY <1>4, <2>1, <4>1
    <3>2. CASE \E i \in Ids : Creates(c, i)
      <4>1. PICK i \in Ids : Creates(c, i)
        BY <3>2
      <4>2. /\ vms'[i].owner = c /\ vms'[i].port = port[c] /\ \A j \in Ids \ {i} : vms'[j] = vms[j]
        BY <1>3, <4>1 DEF Creates
      <4>3. QED
        BY <1>1, <1>4, <2>1, <4>2
    <3>3. CASE Alters(c)
      <4>1. pc[c] \in Up
        BY <3>3 DEF Alters, Moved, Up
      <4>2. ref[c] \in Ids /\ vms[ref[c]].owner = c
        BY <4>1, Holds DEF Vm
      <4>3. \A i \in Ids : /\ vms'[i].owner = vms[i].owner /\ vms'[i].port = vms[i].port
                           /\ vms[i].owner = 0 /\ i # ref[c] => vms'[i] = vms[i]
        BY <3>3 DEF Alters
      <4>4. QED
        BY <1>1, <1>4, <2>1, <4>2, <4>3
    <3>4. CASE Destroys(c)
      <4>1. vms'[ref[c]] = NoVM /\ \A j \in Ids \ {ref[c]} : vms'[j] = vms[j]
        BY <3>4 DEF Destroys
      <4>2. QED
        BY <1>4, <2>1, <4>1, Blank
    <3>5. ~Founds(c) /\ ~Plugs(c) /\ ~Assembles(c)
      BY <1>3 DEF Founds, Plugs, Assembles
    <3>6. QED
      BY <1>7, <3>1, <3>2, <3>3, <3>4, <3>5 DEF Shares
  <2>5. QED
    BY <1>5, <2>2, <2>3, <2>4
<1>8. QED
  BY <1>6, <1>7

LEMMA OwnKept ==
    ASSUME DriversInv, NEW c \in Clients, Shares(c), NEW d \in Clients
    PROVE  Own(d)'
<1>1. /\ Typed /\ Ids = Clients /\ 0 \notin Clients /\ Staged(c) /\ Consoles /\ Own(d)
      /\ \A i \in Ids : Home(i) /\ vms[i].owner \in Slots
  BY Owners DEF DriversInv, Owns
<1>2. shared' = shared
  BY Bystander
<1>3. CASE d # c
  BY <1>1, <1>2, <1>3, Bystander DEF Own
<1>4. CASE d = c
  <2>1. CASE Types(c)
    <3>1. /\ pc[c] = "keys" /\ ref' = ref
          /\ \/ typed'[c] = ref[c]
             \/ /\ kind = "workstation" /\ typed'[c] \in Ids
                /\ vms[typed'[c]].on /\ vms[typed'[c]].port = Vm(c).port
      BY <2>1 DEF Types, Moved
    <3>2. ASSUME shared, kind = "workstation", NEW i \in Ids, vms[i].on, vms[i].port = Vm(c).port
          PROVE  i = ref[c]
      <4>1. ref[c] \in Ids /\ Vm(c).owner = c
        BY <3>1, Holds DEF Up
      <4>2. /\ vms[i].owner \in Clients /\ vms[i].port = port[vms[i].owner]
            /\ Vm(c).port = port[c] /\ port[c] # 0
        BY <1>1, <3>1, <3>2, <4>1 DEF Consoles, Slots, Vm, Up
      <4>3. vms[i].owner = c
        BY <1>1, <3>2, <4>2 DEF Consoles
      <4>4. i = cand[c] /\ ref[c] = cand[c]
        BY <1>1, <3>2, <4>1, <4>3 DEF Home, ByClient, Vm
      <4>5. QED
        BY <4>4
    <3>3. QED
      BY <1>2, <1>4, <3>1, <3>2 DEF Own
  <2>2. CASE ~Types(c)
    <3>1. typed'[c] = typed[c]
      <4>1. CASE Fetches(c) \/ Passes(c)
        BY <4>1 DEF Fetches, Passes, Still
      <4>2. CASE Chooses(c) \/ Alters(c) \/ Destroys(c) \/ Lays(c) \/ Hands(c)
        BY <4>2 DEF Chooses, Alters, Destroys, Lays, Hands
      <4>3. CASE Founds(c) \/ Plugs(c) \/ Assembles(c) \/ \E i \in Ids : Creates(c, i)
        BY <4>3 DEF Founds, Plugs, Assembles, Creates
      <4>4. QED
        BY <2>2, <4>1, <4>2, <4>3 DEF Shares
    <3>2. ref'[c] = ref[c] \/ typed[c] = 0
      <4>1. CASE Fetches(c) \/ Passes(c)
        BY <4>1 DEF Fetches, Passes, Still
      <4>2. CASE Chooses(c) \/ Alters(c) \/ Destroys(c) \/ Lays(c)
        BY <4>2 DEF Chooses, Alters, Destroys, Lays
      <4>3. CASE Founds(c) \/ Plugs(c) \/ Assembles(c)
        BY <4>3 DEF Founds, Plugs, Assembles
      <4>4. CASE Hands(c) \/ \E i \in Ids : Creates(c, i)
        <5>1. pc[c] \in Before \cup Making
          BY <4>4 DEF Hands, Creates, Moved, Before, Making
        <5>2. QED
          BY <1>1, <5>1 DEF Staged
      <4>5. QED
        BY <2>2, <4>1, <4>2, <4>3, <4>4 DEF Shares
    <3>3. QED
      BY <1>1, <1>2, <1>4, <3>1, <3>2 DEF Own
  <2>3. QED
    BY <2>1, <2>2
<1>5. QED
  BY <1>3, <1>4

\* The library, where an entry is named when it is built: what an upload of client c may do.
Stocks(c) ==
    /\ kind \in {"proxmox", "xcpng", "nutanix"} => torn' = {}
    /\ kind = "proxmox" => \A s \in Slots : iso'[s] \in {iso[s], "whole"}
    /\ kind \in {"xcpng", "nutanix"} =>
          /\ \A s \in Slots \ {c} : iso'[s] = iso[s]
          /\ pc'[c] = "create" => iso'[c] = "whole" /\ got'[c] = c

LEMMA LibraryStep ==
    ASSUME DriversInv, NEW c \in Clients, Fetches(c),
           Begin(c) \/ Refused(c) \/ RemoveVM(c) \/ DriverNext(c)
    PROVE  Stocks(c)
<1>1. Typed /\ Library
  BY DEF DriversInv
<1>2. SUFFICES ASSUME kind \in {"proxmox", "xcpng", "nutanix"}
               PROVE  Stocks(c)
  BY DEF Stocks
<1>3. torn = {}
  BY <1>1, <1>2 DEF Library
<1>4. ASSUME iso' = iso, torn' = torn, kind \in {"xcpng", "nutanix"} => pc'[c] # "create"
      PROVE  Stocks(c)
  BY <1>3, <1>4 DEF Stocks
<1>5. pc[c] \in Before
  BY DEF Fetches, Moved
<1>6. CASE Begin(c) \/ Refused(c) \/ RemoveVM(c)
  <2>1. iso' = iso /\ torn' = torn
    BY <1>6 DEF Begin, Refused, RemoveVM, store
  <2>2. pc'[c] # "create"
    BY <1>1, <1>6 DEF Begin, Refused, RemoveVM, Answer, Error, Typed
  <2>3. QED
    BY <1>4, <2>1, <2>2
<1>7. CASE kind = "proxmox" /\ ProxmoxNext(c)
  <2>1. pc[c] \notin {"build", "attach", "order", "power", "keys", "up", "destroy"}
    BY <1>5 DEF Before
  <2>2. ~ProxmoxCreateVM(c) /\ ~ProxmoxAttachISO(c) /\ ~ProxmoxSetBootDiskThenCD(c) /\ ~ProxmoxPowerOn(c)
    BY <2>1 DEF ProxmoxCreateVM, ProxmoxAttachISO, ProxmoxSetBootDiskThenCD, ProxmoxPowerOn, Done, Answer, Error
  <2>3. ~ProxmoxSendKeys(c) /\ ~ProxmoxGetVMIP(c) /\ ~ProxmoxDestroy(c)
    BY <2>1 DEF ProxmoxSendKeys, ProxmoxGetVMIP, ProxmoxDestroy, Type, Resolve, NotDestroyed, Gone, Done, Answer, Error
  <2>4. CASE ProxmoxFindISO(c) \/ ProxmoxNextID(c)
    <3>1. iso' = iso /\ torn' = torn
      BY <2>4 DEF ProxmoxFindISO, ProxmoxNextID, NotFound, Found, store
    <3>2. QED
      BY <1>4, <1>7, <3>1
  <2>5. CASE ProxmoxUploadISO(c)
    <3>1. torn' = torn /\ \E x \in {"whole", iso[Slot(c)]} : iso' \in {iso, [iso EXCEPT ![Slot(c)] = x]}
      BY <1>3, <2>5 DEF ProxmoxUploadISO, WriteLast, BreakOff, store
    <3>2. PICK x \in {"whole", iso[Slot(c)]} : iso' \in {iso, [iso EXCEPT ![Slot(c)] = x]}
      BY <3>1
    <3>3. \A s \in Slots : iso'[s] \in {iso[s], "whole"}
      BY <1>1, <3>2 DEF Typed
    <3>4. QED
      BY <1>3, <1>7, <3>1, <3>3 DEF Stocks
  <2>6. QED
    BY <1>7, <2>2, <2>3, <2>4, <2>5 DEF ProxmoxNext
<1>8. \A d \in Clients : kind \in {"xcpng", "nutanix"} => Slot(d) = d
  BY <1>1 DEF Slot, Typed, SupportsKickstart
<1>9. ASSUME kind \in {"xcpng", "nutanix"},
             \/ WriteFirst(c) \/ WriteLast(c) \/ BreakOff(c, "partial") \/ BreakOff(c, "absent")
             \/ /\ Answer(c, "uploading", "create")
                /\ iso' = [iso EXCEPT ![c] = "whole"] /\ got' = [got EXCEPT ![c] = c] /\ torn' = torn
      PROVE  Stocks(c)
  <2>1. Slot(c) = c /\ Others(c) = {} /\ c \in Slots
    BY <1>8, <1>9 DEF Others, Slots
  <2>2. \E x \in {"partial", "whole", "absent"} : iso' = [iso EXCEPT ![c] = x]
    BY <1>3, <1>9, <2>1 DEF WriteFirst, WriteLast, BreakOff
  <2>3. torn' = {}
    BY <1>3, <1>9, <2>1 DEF WriteFirst, WriteLast, BreakOff
  <2>4. pc'[c] = "create" => iso' = [iso EXCEPT ![c] = "whole"] /\ got' = [got EXCEPT ![c] = c]
    BY <1>1, <1>3, <1>9, <2>1 DEF WriteFirst, WriteLast, BreakOff, Answer, Error, Typed
  <2>5. pc'[c] = "create" => iso'[c] = "whole" /\ got'[c] = c
    BY <1>1, <2>1, <2>4 DEF Typed
  <2>6. \A s \in Slots \ {c} : iso'[s] = iso[s]
    BY <1>1, <2>2 DEF Typed
  <2>7. QED
    BY <1>9, <2>3, <2>5, <2>6 DEF Stocks
<1>10. CASE kind = "xcpng" /\ XCPngNext(c)
  <2>1. pc[c] \notin {"uuid", "vdi", "vbd", "vif", "rollback", "attach", "order", "power", "up", "destroy"}
    BY <1>5 DEF Before
  <2>2. ~XCPngGetUUID(c) /\ ~XCPngCreateVDI(c) /\ ~XCPngCreateVBD(c) /\ ~XCPngCreateCD(c)
    BY <2>1 DEF XCPngGetUUID, XCPngCreateVDI, XCPngCreateVBD, XCPngCreateCD, Answer, Error
  <2>3. ~XCPngCreateVIF(c) /\ ~XCPngRollback(c) /\ ~XCPngAttachISO(c)
    BY <2>1 DEF XCPngCreateVIF, XCPngRollback, XCPngAttachISO, Answer, Error
  <2>4. ~XCPngSetBootDiskThenCD(c) /\ ~XCPngPowerOn(c) /\ ~XCPngGetVMIP(c) /\ ~XCPngDestroy(c)
    BY <2>1 DEF XCPngSetBootDiskThenCD, XCPngPowerOn, XCPngGetVMIP, XCPngDestroy, Resolve, NotDestroyed, Gone,
       Done, Answer, Error
  <2>5. CASE XCPngVMCreate(c)
    <3>1. iso' = iso /\ torn' = torn
      BY <2>5 DEF XCPngVMCreate, store
    <3>2. pc'[c] # "create"
      BY <1>1, <2>5 DEF XCPngVMCreate, Done, Answer, Error, Typed
    <3>3. QED
      BY <1>4, <3>1, <3>2
  <2>6. CASE XCPngUploadISO(c)
    <3>1. CASE pc'[c] = "failed" /\ iso' = iso /\ torn' = torn
      BY <1>4, <3>1
    <3>2. CASE /\ faults + 2 <= MaxFaults /\ pc[c] = "uploading"
               /\ faults' = faults + 2 /\ pc' = [pc EXCEPT ![c] = "failed"]
               /\ UNCHANGED <<mode, store, vms, disk, cand, ports, held>>
      BY <1>1, <3>1, <3>2 DEF store, Typed
    <3>3. QED
      BY <1>9, <1>10, <2>6, <3>2 DEF XCPngUploadISO
  <2>7. QED
    BY <1>10, <2>2, <2>3, <2>4, <2>5, <2>6 DEF XCPngNext
<1>11. CASE kind = "nutanix" /\ NutanixNext(c)
  <2>1. pc[c] \notin {"attach", "order", "power", "up", "destroy"}
    BY <1>5 DEF Before
  <2>2. ~NutanixAttachISO(c) /\ ~NutanixSetBootDiskThenCD(c) /\ ~NutanixPowerOn(c)
    BY <2>1 DEF NutanixAttachISO, NutanixSetBootDiskThenCD, NutanixPowerOn, NutanixUpdateVM, Done, Answer, Error
  <2>3. ~NutanixGetVMIP(c) /\ ~NutanixDestroy(c)
    BY <2>1 DEF NutanixGetVMIP, NutanixDestroy, Resolve, NotDestroyed, Gone, Answer, Error
  <2>4. CASE NutanixCreateVM(c)
    <3>1. iso' = iso /\ torn' = torn
      BY <2>4 DEF NutanixCreateVM, store
    <3>2. pc'[c] # "create"
      BY <1>1, <2>4 DEF NutanixCreateVM, Done, Answer, Error, Typed
    <3>3. QED
      BY <1>4, <3>1, <3>2
  <2>5. CASE NutanixUploadISO(c)
    BY <1>9, <1>11, <2>5 DEF NutanixUploadISO
  <2>6. QED
    BY <1>11, <2>2, <2>3, <2>4, <2>5 DEF NutanixNext
<1>12. QED
  BY <1>2, <1>6, <1>7, <1>10, <1>11 DEF DriverNext

LEMMA LibraryKept ==
    ASSUME DriversInv, NEW c \in Clients, Shares(c), Fetches(c) => Stocks(c)
    PROVE  Library' /\ \A d \in Clients : Whole(d)'
<1>1. /\ Typed /\ Library /\ Staged(c) /\ 0 \notin Clients /\ Clients \subseteq Slots
      /\ \A d \in Clients : Whole(d) /\ got[d] \in Slots
  BY Owners DEF DriversInv, Owns, Typed, Slots
<1>2. /\ kind' = kind
      /\ \A d \in Clients \ {c} : pc'[d] = pc[d] /\ got'[d] = got[d]
  BY Bystander
<1>3. CASE Fetches(c)
  <2>1. Stocks(c) /\ pc[c] \in Before /\ pc'[c] \in Before \cup {"failed"}
    BY <1>3 DEF Fetches, Moved
  <2>2. Library'
    BY <1>1, <1>2, <2>1 DEF Library, Stocks
  <2>3. ASSUME NEW d \in Clients
        PROVE  Whole(d)'
    <3>1. CASE d = c
      BY <1>2, <2>1, <3>1 DEF Whole, Stocks, Before, Making, Up
    <3>2. CASE d # c
      <4>1. kind = "proxmox" /\ iso[got[d]] = "whole" => iso'[got[d]] = "whole"
        BY <1>1, <2>1 DEF Stocks
      <4>2. kind \in {"xcpng", "nutanix"} => iso'[d] = iso[d]
        BY <1>1, <2>1, <3>2 DEF Stocks
      <4>3. QED
        BY <1>1, <1>2, <3>2, <4>1, <4>2 DEF Whole
    <3>3. QED
      BY <3>1, <3>2
  <2>4. QED
    BY <2>2, <2>3
<1>4. CASE ~Fetches(c)
  <2>1. UNCHANGED <<iso, torn, got>>
    <3>1. CASE Passes(c) \/ Chooses(c) \/ Alters(c) \/ Types(c) \/ Destroys(c)
      BY <3>1 DEF Passes, Chooses, Alters, Types, Destroys
    <3>2. CASE Hands(c) \/ Lays(c) \/ Founds(c) \/ Plugs(c) \/ Assembles(c) \/ \E i \in Ids : Creates(c, i)
      BY <3>2 DEF Hands, Lays, Founds, Plugs, Assembles, Creates
    <3>3. QED
      BY <1>4, <3>1, <3>2 DEF Shares
  <2>2. Library'
    BY <1>1, <1>2, <2>1 DEF Library
  <2>3. ASSUME NEW d \in Clients \ {c}
        PROVE  Whole(d)'
    BY <1>1, <1>2, <2>1 DEF Whole
  <2>4. Whole(c)'
    <3>1. CASE Passes(c)
      <4>1. \/ pc'[c] \in Past \cup {"failed", "destroy"}
            \/ pc[c] = "folder" /\ pc'[c] = "disks"
            \/ pc[c] = "up" /\ pc'[c] \in {"up", "ready"}
        BY <3>1 DEF Passes, Moved
      <4>2. QED
        BY <1>1, <1>2, <2>1, <4>1 DEF Whole, Past, Making, Up
    <3>2. CASE Chooses(c) \/ Types(c) \/ Destroys(c) \/ Lays(c) \/ Plugs(c)
      <4>1. \/ kind \notin {"xcpng", "nutanix"} /\ pc'[c] \in {"build", "folder", "vmx", "disks", "failed"}
            \/ pc[c] = "keys" /\ pc'[c] \in {"up", "failed"}
            \/ pc'[c] \in Past
        BY <3>2 DEF Chooses, Types, Destroys, Lays, Plugs, Moved
      <4>2. QED
        BY <1>1, <1>2, <2>1, <4>1 DEF Whole, Past, Making, Up
    <3>3. CASE Founds(c) \/ Hands(c) \/ Assembles(c) \/ \E i \in Ids : Creates(c, i)
      <4>1. pc[c] \in {"create"} \cup Making /\ pc'[c] \in Making \cup {"attach", "failed"}
        BY <3>3 DEF Founds, Hands, Assembles, Creates, Moved, Making
      <4>2. QED
        BY <1>1, <1>2, <2>1, <4>1 DEF Whole, Making, Up
    <3>4. CASE Alters(c)
      <4>1. \/ /\ pc[c] = "attach" /\ pc'[c] \in {"order", "failed"}
               /\ kind = "proxmox" => iso[got[c]] # "absent"
            \/ pc[c] \in {"order", "power"} /\ pc'[c] \in {"power", "keys", "up", "failed"}
        BY <3>4 DEF Alters, Moved
      <4>2. kind = "proxmox" => iso[got[c]] \in {"absent", "whole"}
        BY <1>1 DEF Library
      <4>3. QED
        BY <1>1, <1>2, <2>1, <4>1, <4>2 DEF Whole, Making, Up
    <3>5. QED
      BY <1>4, <3>1, <3>2, <3>3, <3>4, Zenon DEF Shares
  <2>5. QED
    BY <2>2, <2>3, <2>4
<1>5. QED
  BY <1>3, <1>4

-----------------------------------------------------------------------------
(* The theorems. *)

LEMMA InitInv == Init => DriversInv
<1> SUFFICES ASSUME Init PROVE DriversInv
  OBVIOUS
<1> USE DEF Init
<1>1. Typed
  <2>1. kind \in {"proxmox", "vsphere", "xcpng", "nutanix", "hyperv", "workstation"}
    BY HypervisorAssumption
  <2>2. /\ pc \in [Clients -> Stages] /\ vms \in [Ids -> VM] /\ nextPort \in [Clients -> Nat]
        /\ port \in [Clients -> Nat]
    BY Blank DEF Stages, Before
  <2>3. /\ cand \in [Clients -> Slots] /\ got \in [Clients -> Slots] /\ ref \in [Clients -> Slots]
        /\ typed \in [Clients -> Slots] /\ iso \in [Slots -> {"absent", "partial", "whole", "torn"}]
    BY DEF Slots
  <2>4. QED
    BY <2>1, <2>2, <2>3 DEF Typed
<1>2. /\ \A i \in Ids : vms[i] = NoVM
      /\ \A c \in Clients : pc[c] = "start" /\ ref[c] = 0 /\ typed[c] = 0 /\ cand[c] = 0
                            /\ nextPort[c] = 1 /\ port[c] = 0
      /\ files = {}
  OBVIOUS
<1>3. \A i \in Ids : vms[i].owner = 0 /\ ~vms[i].on
  BY <1>2, Blank
<1>4. Library
  BY DEF Library, Slots
<1>5. Consoles
  <2>1. Clients # {} => 1 \in Clients
    BY Numbers
  <2>2. QED
    BY <1>2, <1>3, <2>1 DEF Consoles, Making, Up
<1>6. ASSUME NEW c \in Clients
      PROVE  Owns(c) /\ Ready(c) /\ Whole(c) /\ Own(c)
  <2>1. Staged(c) /\ Held(c) /\ Half(c) /\ Reserved(c)
    BY <1>2 DEF Staged, Held, Half, Reserved, Making, Up, Past
  <2>2. Build(c)
    BY <1>2 DEF Build, FilesOf
  <2>3. Ready(c) /\ Whole(c) /\ Own(c)
    BY <1>2 DEF Ready, Whole, Own, Making, Up
  <2>4. QED
    BY <2>1, <2>2, <2>3 DEF Owns
<1>7. \A i \in Ids : Home(i) /\ Kept(i) /\ \A j \in Ids : Alone(i, j)
  BY <1>3 DEF Home, Kept, Alone
<1>8. QED
  BY <1>1, <1>4, <1>5, <1>6, <1>7 DEF DriversInv

LEMMA StepInv == DriversInv /\ [Next]_vars => DriversInv'
<1> SUFFICES ASSUME DriversInv, [Next]_vars PROVE DriversInv'
  OBVIOUS
<1>1. CASE Next
  <2>1. PICK c \in Clients : Begin(c) \/ Refused(c) \/ RemoveVM(c) \/ DriverNext(c)
    BY <1>1 DEF Next
  <2>2. Typed' /\ Shares(c)
    BY <2>1, StepShape
  <2>3. Library' /\ \A d \in Clients : Whole(d)'
    BY <2>1, <2>2, LibraryStep, LibraryKept
  <2>4. Consoles'
    BY <2>2, ConsolesKept
  <2>5. ASSUME NEW d \in Clients
        PROVE  Owns(d)' /\ Ready(d)' /\ Own(d)'
    <3>1. Staged(d)' /\ Held(d)' /\ Half(d)' /\ Reserved(d)' /\ Build(d)'
      BY <2>2, StagedKept, HeldKept, HalfKept, ReservedKept, BuildKept
    <3>2. Ready(d)' /\ Own(d)'
      BY <2>2, ReadyKept, OwnKept
    <3>3. QED
      BY <3>1, <3>2 DEF Owns
  <2>6. \A i \in Ids : Home(i)' /\ Kept(i)' /\ \A j \in Ids : Alone(i, j)'
    BY <2>2, HomeKept, KeptKept, AloneKept
  <2>7. QED
    BY <2>2, <2>3, <2>4, <2>5, <2>6 DEF DriversInv, Ids
<1>2. CASE UNCHANGED vars
  <2>1. UNCHANGED <<kind, kick, shared, pc, faults, iso, torn, vms, files, folders, cand, nextPort, port,
                    got, ref, typed>>
    BY <1>2 DEF vars, mode, store, disk, ports, held
  <2>2. Typed' /\ Library' /\ Consoles'
    BY <2>1 DEF DriversInv, Typed, Library, Consoles
  <2>3. ASSUME NEW c \in Clients
        PROVE  Owns(c)' /\ Ready(c)' /\ Whole(c)' /\ Own(c)'
    <3>1. Owns(c) /\ Ready(c) /\ Whole(c) /\ Own(c)
      BY DEF DriversInv
    <3>2. FilesOf(c)' = FilesOf(c) /\ NextDisk(c)' = NextDisk(c)
      BY <2>1 DEF FilesOf, NextDisk
    <3>3. Build(c)'
      BY <2>1, <3>1, <3>2 DEF Owns, Build
    <3>4. Staged(c)' /\ Held(c)' /\ Half(c)' /\ Reserved(c)'
      BY <2>1, <3>1 DEF Owns, Staged, Held, Half, Reserved, Vm
    <3>5. Ready(c)' /\ Whole(c)' /\ Own(c)'
      BY <2>1, <3>1 DEF Ready, Whole, Own, Vm
    <3>6. QED
      BY <3>3, <3>4, <3>5 DEF Owns
  <2>4. \A i \in Ids : Home(i)' /\ Kept(i)' /\ \A j \in Ids : Alone(i, j)'
    BY <2>1 DEF DriversInv, Home, Kept, Alone
  <2>5. QED
    BY <2>2, <2>3, <2>4 DEF DriversInv, Ids
<1>3. QED
  BY <1>1, <1>2

\* Every variable of the platform and of the clients keeps its type.
THEOREM TypeCorrect == Spec => []Typed
<1>1. DriversInv => Typed
  BY DEF DriversInv
<1>2. QED
  BY InitInv, StepInv, <1>1, PTL DEF Spec

\* CreateVM: under every interleaving whoever gets a VM has one of its own, with files of
\* its own, and the rollback of XCP-ng leaves nothing behind unless it fails as well.
THEOREM VMsAreTheirOwn == Spec => []OwnVM
<1>1. ASSUME DriversInv PROVE OwnVM
  <2>1. ASSUME NEW c \in Clients, pc[c] \in {"attach", "order", "power", "keys", "up", "ready"}
        PROVE  HasOwnVM(c)
    <3>1. /\ ref[c] \in Ids /\ Vm(c).owner = c /\ Vm(c).disks = Disks
          /\ \A i \in Ids \ {ref[c]} : vms[i].owner # 0 /\ vms[i].home = Vm(c).home => vms[i].disks = {}
      BY <1>1, <2>1, Holds DEF Up
    <3>2. {Vm(c).home} \X Disks \subseteq files
      <4>1. Kept(ref[c]) /\ Staged(c) /\ c # 0 /\ ref[c] # 0
        BY <1>1, <3>1, Numbers DEF DriversInv, Owns, Ids
      <4>2. kind = "xcpng" => ref[c] = c
        BY <4>1 DEF Staged, ByClient
      <4>3. QED
        BY <2>1, <3>1, <4>1, <4>2 DEF Kept, Vm
    <3>3. ASSUME NEW d \in Clients \ {c}, ref[d] = ref[c]
          PROVE  pc[d] \in Past
      <4>1. Held(d) /\ ref[d] # 0
        BY <1>1, <3>1, <3>3, Numbers DEF DriversInv, Owns, Ids
      <4>2. QED
        BY <3>1, <3>3, <4>1 DEF Held, Vm
    <3>4. QED
      BY <3>1, <3>2, <3>3 DEF HasOwnVM, Past
  <2>2. ASSUME NEW c \in Clients,
               kind = "xcpng", pc[c] = "failed", cand[c] = c, ref[c] = 0, faults < 2
        PROVE  IsRolledBack(c)
    <3>1. faults \in Nat /\ Build(c)
      BY <1>1 DEF DriversInv, Owns, Typed
    <3>2. PICK x : vms[c] = NoVM /\ FilesOf(c) \subseteq {x}
      BY <2>2, <3>1 DEF Build
    <3>3. Cardinality(FilesOf(c)) <= 1
      <4>1. FilesOf(c) = {} \/ FilesOf(c) = {x}
        BY <3>2
      <4>2. Cardinality({}) = 0 /\ Cardinality({x}) = 1
        BY FS_EmptySet, FS_Singleton
      <4>3. QED
        BY <4>1, <4>2
    <3>4. QED
      BY <3>2, <3>3 DEF IsRolledBack
  <2>3. QED
    BY <2>1, <2>2 DEF OwnVM
<1>2. QED
  BY InitInv, StepInv, <1>1, PTL DEF Spec

\* deployNode: a node that is installing was started with its own installer, disk before
\* CD and the firmware it was made with, from a whole ISO where UploadISO names an entry
\* when it is built; and no boot command is typed at another node of the deployment.
THEOREM NodesInstall == Spec => []Installs
<1>1. ASSUME DriversInv PROVE Installs
  <2>1. ASSUME NEW c \in Clients, Deployed(c)
        PROVE  /\ Vm(c).on /\ Vm(c).cd = got[c] /\ Vm(c).order = "disk,cd"
               /\ kind # "xcpng" => Vm(c).efi
               /\ kind \in {"proxmox", "xcpng", "nutanix"} => iso[Vm(c).cd] = "whole"
    <3>1. Ready(c) /\ Whole(c) /\ pc[c] \in {"keys", "up", "ready"}
      BY <1>1, <2>1 DEF DriversInv, Deployed
    <3>2. QED
      BY <3>1 DEF Ready, Whole, Up
  <2>2. ASSUME NEW c \in Clients, shared, typed[c] # 0
        PROVE  typed[c] = ref[c]
    BY <1>1, <2>2 DEF DriversInv, Own
  <2>3. QED
    BY <2>1, <2>2 DEF Installs
<1>2. QED
  BY InitInv, StepInv, <1>1, PTL DEF Spec

\* No call of one client takes anything from another: the VM whose reference the other
\* holds stays as it is, and any VM of it, a half-made one included, keeps its disk files.
THEOREM OthersAreLeftAlone == Spec => HandsOff
<1> DEFINE Off == \A i \in Ids : LET c == vms[i].owner IN
                     c # 0 /\ pc'[c] = pc[c] =>
                         /\ ref[c] = i => vms'[i] = vms[i]
                         /\ vms'[i].owner = c /\ files \cap ({vms[i].home} \X vms[i].disks) \subseteq files'
<1>1. ASSUME DriversInv, Next PROVE Off
  <2>1. PICK a \in Clients : Begin(a) \/ Refused(a) \/ RemoveVM(a) \/ DriverNext(a)
    BY <1>1 DEF Next
  <2>2. Shares(a)
    BY <1>1, <2>1, StepShape
  <2>3. SUFFICES ASSUME NEW i \in Ids, NEW c, c = vms[i].owner, c # 0, pc'[c] = pc[c]
                 PROVE  /\ ref[c] = i => vms'[i] = vms[i]
                        /\ vms'[i].owner = c /\ files \cap ({vms[i].home} \X vms[i].disks) \subseteq files'
    OBVIOUS
  <2>4. CASE c # a
    <3>1. Respects(a, i)
      BY <1>1, <2>2, RespectsOthers
    <3>2. QED
      BY <2>3, <2>4, <3>1 DEF Respects
  <2>5. CASE c = a
    <3>1. Staged(a) /\ Home(i) /\ Half(a) /\ a # 0
      BY <1>1, Numbers DEF DriversInv, Owns
    <3>2. CASE Fetches(a) \/ Passes(a)
      BY <2>3, <3>2 DEF Fetches, Passes, Still
    <3>3. CASE Plugs(a)
      <4>1. kind = "hyperv" /\ pc[a] = "disks" /\ vms'[a].owner = vms[a].owner /\ files \subseteq files'
        BY <3>3 DEF Plugs, Moved
      <4>2. i = a /\ ref[a] = 0
        BY <2>3, <2>5, <3>1, <4>1 DEF Home, ByClient, Staged, Making
      <4>3. QED
        BY <2>3, <2>5, <3>1, <4>1, <4>2
    <3>4. ~Chooses(a) /\ ~Alters(a) /\ ~Types(a) /\ ~Destroys(a)
      BY <2>3, <2>5 DEF Chooses, Alters, Types, Destroys, Moved, Past
    <3>5. ~Founds(a) /\ ~Hands(a) /\ ~Lays(a) /\ ~Assembles(a) /\ \A k \in Ids : ~Creates(a, k)
      BY <2>3, <2>5 DEF Founds, Hands, Lays, Assembles, Creates, Moved
    <3>6. QED
      BY <2>2, <3>2, <3>3, <3>4, <3>5, Zenon DEF Shares
  <2>6. QED
    BY <2>4, <2>5
<1>3. DriversInv /\ [Next]_vars => [Off]_vars
  BY <1>1
<1>4. Spec => []DriversInv
  BY InitInv, StepInv, PTL DEF Spec
<1>5. Spec => [][Off]_vars
  BY <1>3, <1>4, PTL DEF Spec
<1>6. QED
  BY <1>5 DEF HandsOff
=============================================================================
