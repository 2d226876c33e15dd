----------------------------- MODULE CraftSync -----------------------------
(***************************************************************************)
(* The rendered script against internal/wiring: what Wire sends, and for   *)
(* which specifications the script sends the same.                         *)
(***************************************************************************)
EXTENDS Craft, SequencesExt

-----------------------------------------------------------------------------
(* What Wire sends, undisturbed, to a server where nothing is registered. *)

\* Wire names a repository by the hostname, an empty one too.
WireRepoName(s, n) ==
    LET same == {i \in 1 .. Len(HRs(s)) : HRs(s)[i].name = n.name}
    IN IF Cardinality(same) > 1 THEN n.ip ELSE n.name

\* resolveMountServer knows the VBR server by its address and by its hostname.
WireNode(s, n) ==
    <<ConnectionCertificate(n.ip, NoId), AddLinuxHost(n.ip, n.role, pairingCode(n)),
      IF isHR(n)
      THEN AddHardenedRepository(WireRepoName(s, n), HostId(n.ip), "RepoPath", s.immutableDays,
                                 HostId(vbr.self))
      ELSE AddVmwareProxy(HostId(n.ip))>>

\* createHA.
WireCluster(s) ==
    LET cred == Id("credentials", "HA secondary node")
        v    == VSAs(s)
    IN <<CreateCredentials(s.username, "HA secondary node"),
         ConnectionCertificate(v[2].ip, cred),
         CreateHACluster(v[1].ip, v[2].ip, cred, s.dns, s.endpoint)>>

\* The configuration backup moves, the default repository goes, and then the cluster.
WireHA(s, backups) ==
    LET first == RepoId(WireRepoName(s, Head(HRs(s))))
    IN (IF HRs(s) = <<>> THEN <<>>
        ELSE <<RedirectConfigBackup(first)>>
             \o [i \in 1 .. Len(backups) |-> DeleteBackup(Id("backup", backups[i]))]
             \o <<DeleteRepository(RepoId(DefaultRepo))>>)
       \o WireCluster(s)

WireS3(s) ==
    LET cred  == Id("cloudCredentials", s.s3.name)
        mount == SelectSeq(s.nodes, LAMBDA n : n.name = s.s3.mountServerNode)
    IN <<CreateCloudCredentials(s.s3.name)>>
       \o (IF s.s3.compatible /\ s.s3.folder # ""
           THEN <<NewS3CompatibleFolder(cred, s.s3.servicePoint, s.s3.region, s.s3.bucket, s.s3.folder)>>
           ELSE <<>>)
       \o <<AddS3Repository(s.s3, cred, IF s.s3.mountServerNode = "" THEN NoId ELSE HostId(Head(mount).ip))>>

\* A valid license stays.  The nodes are wired four at a time, each in a goroutine of its own:
\* here one after the other, as the script does it.
Wire(s0, backups) ==
    LET s == applyDefaults(s0)
        via == VIAs(s)
    IN (IF s.license = "" \/ VSAs(s) = <<>> \/ vbr.license = "valid" THEN <<>>
        ELSE <<InstallLicense(s.license)>>)
       \o FlattenSeq([i \in 1 .. Len(via) |-> WireNode(s, via[i])])
       \o (IF Len(VSAs(s)) < 2 THEN <<>> ELSE WireHA(s, backups))
       \o (IF s.exporter THEN SetNodeExporter(s.tls, s.exporterUser) ELSE <<>>)
       \o (IF s.syslog = "" THEN <<>> ELSE <<SetSyslog(s.syslog, s.syslogPort, "Udp")>>)
       \o (IF HasS3(s) THEN WireS3(s) ELSE <<>>)

-----------------------------------------------------------------------------
(* Properties *)

\* What the script sends, if nothing fails, is what Wire sends, in the same order.
Sync ==
    runs = 1 /\ faults = 0 =>
        /\ phase # "stopped"
        /\ IsPrefix(sent, Wire(spec, vbr.backups))
        /\ Finished => sent = Wire(spec, vbr.backups)

\* The specifications for which it holds.  Elsewhere Plan is not Wire: an HA cluster without
\* a hardened repository or without an address of its own, where Wire gives up, backups in
\* the default repository, an endpoint without a scheme, a user of the exporter, a pinned
\* mount server, a VBR server known by its hostname only or with a valid license, which the
\* script replaces, a license or a hardened repository for the VBR server of another
\* deployment, a hardened repository without a hostname, and nodes that share an address, or
\* the name of their repository, with each other or with that server: both find it there, and
\* the Wire above adds it twice.
Mirrored ==
    /\ Len(VSAs(spec)) > 1 => HRs(spec) # <<>> /\ vbr.backups = <<>> /\ spec.endpoint # ""
    /\ VSAs(spec) = <<>> => HRs(spec) = <<>> /\ spec.license = ""
    /\ HRs(spec) # <<>> => vbr.self = Head(VSAs(spec)).ip
    /\ spec.license = "" \/ vbr.license # "valid"
    /\ \A i, j \in 1 .. Len(VIAs(spec)) :
          LET m == VIAs(spec)[i]
              n == VIAs(spec)[j]
          IN /\ m.ip # vbr.self /\ (isHR(m) => m.name # "")
             /\ i # j => m.ip # n.ip
             /\ i # j /\ isHR(m) /\ isHR(n) => RepoName(spec, m) # RepoName(spec, n)
    /\ spec.exporterUser = "" /\ spec.s3.servicePoint # "bare" /\ spec.s3.mountServerNode = ""

\* A rendered script that meets no failure makes the calls of Wire with the bodies of Wire
\* and comes to its end.  A bash script of a topology with a hardened repository does not.
InSync == Mirrored /\ (shell = "curl" => HRs(spec) = <<>>) => Sync
=============================================================================
