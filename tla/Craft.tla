------------------------------- MODULE Craft -------------------------------
(***************************************************************************)
(* internal/craftapi: the wiring script rendered from a specification of a *)
(* topology, as PowerShell or as bash with curl, and what it does when an  *)
(* administrator runs it, and runs it again, against a VBR server.         *)
(*                                                                         *)
(* Plan makes the list of steps, the renderers give each step its control  *)
(* flow.  A step sees the variables the earlier ones captured.             *)
(*                                                                         *)
(* A step's reads are one action with the write they prepare: nobody else  *)
(* writes to the server meanwhile.  The server is external.                *)
(***************************************************************************)
EXTENDS VeeamCalls, FiniteSets, Sequences

CONSTANTS
    Specs,     \* the specifications entered
    Shells,    \* the scripts rendered
    Alike,     \* <<a, b>>: the nameFilter a finds the name b, too
    MaxRuns,   \* bound: runs of the script
    MaxFaults  \* bound: calls that go wrong

Nodes == [role : {"VSA", "VSA-2", "VIA-HR", "VIA-Proxy"}, ip : STRING, name : STRING, code : STRING]
S3    == [name : STRING, compatible : BOOLEAN, servicePoint : STRING, region : STRING, bucket : STRING,
          folder : STRING, immutableDays : Int, mountServerNode : STRING, overwriteOwner : BOOLEAN]
Specifications ==
    [nodes : Seq(Nodes), username : STRING, license : STRING, immutableDays : Int, dns : STRING,
     endpoint : STRING, exporter : BOOLEAN, exporterUser : STRING, tls : BOOLEAN, syslog : STRING,
     syslogPort : Int, s3 : S3]

\* A repository is its name: none has the name of the one that VBR comes with, or is found by
\* the filter for it.
DefaultRepo == "Default Backup Repository"

ASSUME CraftAssumption ==
    /\ Specs \subseteq Specifications
    /\ \A s \in Specs :
          /\ s.s3.name # DefaultRepo
          /\ \A i \in DOMAIN s.nodes : DefaultRepo \notin {s.nodes[i].ip, s.nodes[i].name}
    /\ Shells \subseteq {"powershell", "curl"}
    /\ \A a \in Alike : a[1] # DefaultRepo
    /\ MaxRuns \in Nat \ {0} /\ MaxFaults \in Nat

VARIABLES
    spec, shell,
    at, phase,   \* the step of the plan, and where in it
    tries,       \* attempts at a create that may find components pending
    env,         \* the script's variables
    sent,        \* the writes of this run, in their order
    vbr,         \* the server
    runs, faults

vars == <<spec, shell, at, phase, tries, env, sent, vbr, runs, faults>>

-----------------------------------------------------------------------------
(* The specification entered. *)

isVSA(n)   == n.role \in {"VSA", "VSA-2"}
isHR(n)    == n.role = "VIA-HR"
isProxy(n) == n.role = "VIA-Proxy"

\* The elements of a sequence that are in S, in their order.
Among(q, S) ==
    LET f[i \in 0 .. Len(q)] ==
            IF i = 0 THEN <<>> ELSE IF q[i] \in S THEN Append(f[i - 1], q[i]) ELSE f[i - 1]
    IN f[Len(q)]

VSAs(s) == Among(s.nodes, {n \in Nodes : isVSA(n)})
VIAs(s) == Among(s.nodes, {n \in Nodes : ~isVSA(n)})
HRs(s)  == Among(s.nodes, {n \in Nodes : isHR(n)})

pairingCode(n) == IF n.code = "" THEN "000000" ELSE n.code

\* The hostname may be left empty.
nodeName(n) == IF n.name = "" THEN n.ip ELSE n.name

\* HR-<node name>, and the address appended when two hardened repositories have one node name.
RepoName(s, n) ==
    LET same == {i \in 1 .. Len(HRs(s)) : nodeName(HRs(s)[i]) = nodeName(n)}
    IN IF Cardinality(same) > 1 THEN n.ip ELSE nodeName(n)

applyDefaults(s) ==
    [s EXCEPT !.username = IF @ = "" THEN "veeamadmin" ELSE @,
              !.immutableDays = IF @ <= 0 THEN 7 ELSE @,
              !.syslogPort = IF @ <= 0 THEN 514 ELSE @,
              !.dns = IF @ = "" /\ VSAs(s) # <<>> THEN Head(VSAs(s)).name ELSE @]

HasS3(s) == s.s3.name # ""

-----------------------------------------------------------------------------
(* Plan: the steps of the script.  A step sends "req", unless it only looks up the host *)
(* or repository "req", and keeps the answer in the variable "var".                     *)

Step(kind, req, var) == [kind |-> kind, req |-> req, var |-> var]
NoReq == Request("", "", <<>>, {})

HostId(name) == Id("host", name)
RepoId(name) == Id("repo", name)

Variables == {"", "hrMount", "repo", "defaultRepo", "haCred", "s3Cred", "mountSrv"}

\* New-VbrHardenedRepo and new_hardened_repo.  The mount server's variable stands in single
\* quotes in the bash script: what is sent is its name.
Mount(s, v) ==
    IF VSAs(s) = <<>> THEN NoId
    ELSE IF shell = "curl" THEN Id("text", "${hrMount_id}")
    ELSE IF v.hrMount = NullId THEN NoId ELSE v.hrMount

HardenedRepo(s, n, v) ==
    AddHardenedRepository(RepoName(s, n), HostId(n.ip), "RepoPath", s.immutableDays, Mount(s, v))

PlanLicense(s) ==
    IF s.license = "" THEN <<>> ELSE <<Step("call", InstallLicense(s.license), "")>>

PlanMount(s) ==
    IF HRs(s) = <<>> \/ VSAs(s) = <<>> THEN <<>>
    ELSE <<Step("host", [NoReq EXCEPT !.body = Head(VSAs(s)).ip], "hrMount")>>

NodeStep(kind, n, req, var) == [kind |-> kind, node |-> n, req |-> req, var |-> var]

PlanNode(s, n, v) ==
    IF isHR(n)
    THEN NodeStep("hr", n, HardenedRepo(s, n, v), IF n = Head(HRs(s)) THEN "repo" ELSE "")
    ELSE NodeStep("proxy", n, AddVmwareProxy(HostId(n.ip)), "")

\* Mutant: the configuration backup is redirected when the cluster is there.
PlanHALate(s, v) ==
    LET vsa == VSAs(s) IN
    <<Step("call", CreateCredentials(s.username, "HA secondary node"), "haCred"),
      Step("call", ConnectionCertificate(vsa[2].ip, v.haCred), ""),
      Step("wait", CreateHACluster(vsa[1].ip, vsa[2].ip, v.haCred, s.dns, s.endpoint), ""),
      Step("redirect", RedirectConfigBackup(v.repo), ""),
      Step("repo", [NoReq EXCEPT !.body = DefaultRepo], "defaultRepo"),
      Step("call", DeleteRepository(v.defaultRepo), "")>>

\* The repository is the first hardened one's, or an unset variable.
PlanHA(s, v) ==
    LET vsa == VSAs(s) IN
    <<Step("redirect", RedirectConfigBackup(v.repo), ""),
      Step("repo", [NoReq EXCEPT !.body = DefaultRepo], "defaultRepo"),
      Step("call", DeleteRepository(v.defaultRepo), ""),
      Step("call", CreateCredentials(s.username, "HA secondary node"), "haCred"),
      Step("call", ConnectionCertificate(vsa[2].ip, v.haCred), ""),
      Step("wait", CreateHACluster(vsa[1].ip, vsa[2].ip, v.haCred, s.dns, s.endpoint), "")>>

\* The body of setBasicAuth has no "type".
PlanExporter(s) ==
    LET calls == SetNodeExporter(s.tls, s.exporterUser) IN
    <<Step("call", calls[1], "")>>
    \o (IF Len(calls) = 1 THEN <<>>
        ELSE <<Step("call", [calls[2] EXCEPT !.body = [username |-> s.exporterUser,
                                                       password |-> "$NeBasicPass"]], "")>>)

PlanSyslog(s) == <<Step("call", SetSyslog(s.syslog, s.syslogPort, "Udp"), "")>>

\* s3RepoBody: as AddS3Repository, with the endpoint as it was entered.
s3RepoBody(s3, cred, mount) ==
    LET req == AddS3Repository(s3, cred, mount) IN
    IF s3.compatible THEN [req EXCEPT !.body.account.servicePoint = s3.servicePoint] ELSE req

\* The mount server is looked up by the hostname of its node.
PlanS3(s, v) ==
    LET folder == NewS3CompatibleFolder(v.s3Cred, s.s3.servicePoint, s.s3.region, s.s3.bucket, s.s3.folder)
        pinned == s.s3.mountServerNode # ""
    IN <<Step("call", CreateCloudCredentials(s.s3.name), "s3Cred")>>
       \o (IF s.s3.compatible /\ s.s3.folder # ""
           THEN <<Step("call", [folder EXCEPT !.body.connectionPoint = s.s3.servicePoint], "")>>
           ELSE <<>>)
       \o (IF pinned THEN <<Step("host", [NoReq EXCEPT !.body = s.s3.mountServerNode], "mountSrv")>>
           ELSE IF VSAs(s) # <<>> THEN <<Step("host", [NoReq EXCEPT !.body = Head(VSAs(s)).ip], "mountSrv")>>
           ELSE <<>>)
       \o <<Step(IF pinned \/ VSAs(s) # <<>> THEN "create" ELSE "wait",
                 s3RepoBody(s.s3, v.s3Cred, IF pinned THEN v.mountSrv ELSE NoId), "")>>

Plan(s0, v) ==
    LET s == applyDefaults(s0)
        via == VIAs(s)
    IN PlanLicense(s) \o PlanMount(s)
       \o [i \in 1 .. Len(via) |-> PlanNode(s, via[i], v)]
       \o (IF Len(VSAs(s)) < 2 THEN <<>> ELSE PlanHA(s, v))
       \o (IF s.exporter THEN PlanExporter(s) ELSE <<>>)
       \o (IF s.syslog = "" THEN <<>> ELSE PlanSyslog(s))
       \o (IF HasS3(s) THEN PlanS3(s, v) ELSE <<>>)

Steps    == Plan(spec, env)
Cur      == Steps[at]
Finished == phase = "start" /\ at > Len(Steps)
At(kinds, p) == phase = p /\ at <= Len(Steps) /\ Cur.kind \in kinds

-----------------------------------------------------------------------------
(* The server. *)

Knows(id) ==
    \/ id.obj = "host" /\ id.of \in vbr.hosts
    \/ id.obj = "repo" /\ id.of \in vbr.repos
    \/ id \in vbr.creds

\* A request that names what is not there is refused, a hardened repository without a
\* mount server, and the removal of a repository that is in use.
Accepts(req) ==
    /\ \A id \in req.refs : Knows(id)
    /\ req.path = "repositories" /\ req.method = "POST" /\ req.body.type = "LinuxHardened"
           => "mountServer" \in DOMAIN req.body
    /\ req.method = "DELETE" => vbr.target # req.body.id /\ vbr.backups = <<>>

\* The id in the answer.
Created(req) ==
    CASE req.path = "credentials"      -> Id("credentials", req.body.description)
      [] req.path = "cloudCredentials" -> Id("cloudCredentials", req.body.description)
      [] OTHER -> NullId

Effect(req) ==
    CASE req.method = "DELETE"          -> [vbr EXCEPT !.repos = @ \ {req.body.id.of}]
      [] req.path = "configBackup"      -> [vbr EXCEPT !.target = req.body.backupRepositoryId]
      [] req.path = "managedServers"    -> [vbr EXCEPT !.hosts = @ \cup {req.body.name}]
      [] req.path = "proxies"           -> [vbr EXCEPT !.proxies = Append(@, req.body.server.hostId.of)]
      [] req.path = "highAvailabilityCluster" -> [vbr EXCEPT !.cluster = TRUE]
      [] req.path = "license/install"   -> [vbr EXCEPT !.license = IF @ = "none" THEN "installed" ELSE @]
      [] Created(req) # NullId          -> [vbr EXCEPT !.creds = @ \cup {Created(req)}]
      [] req.method = "POST" /\ req.path \in {"repositories", "repositories?overwriteOwner=true"}
                                        -> [vbr EXCEPT !.repos = @ \cup {req.body.name}]
      [] OTHER -> vbr

-----------------------------------------------------------------------------
(* The script at work.  Invoke-Vbr throws what the server refuses and the script stops;  *)
(* vbr returns the error as if it were the answer, and jq finds no id in it.             *)

Throws == shell = "powershell"

Fault == faults < MaxFaults /\ faults' = faults + 1

Goto(p)  == phase' = p /\ UNCHANGED at
Stop     == Goto("stopped")
Advance  == at' = at + 1 /\ phase' = "start"

Capture(id) == env' = IF Cur.var = "" THEN env ELSE [env EXCEPT ![Cur.var] = id]
Write(req)  == sent' = Append(sent, req)

\* "data[0].id" of a lookup: of the names that the filter finds, any may be listed first.
Firsts ==
    LET names == IF Cur.kind = "host" THEN vbr.hosts ELSE vbr.repos
        found == {n \in names : n = Cur.req.body \/ <<Cur.req.body, n>> \in Alike}
    IN IF found = {} THEN {NullId} ELSE {Id(Cur.kind, n) : n \in found}

LookUp ==
    /\ At({"host", "repo"}, "start")
    /\ \E id \in Firsts : Capture(id)
    /\ Advance
    /\ UNCHANGED <<spec, shell, tries, sent, vbr, runs, faults>>

LookUpFails ==
    /\ At({"host", "repo"}, "start") /\ Fault
    /\ IF Throws THEN Stop /\ UNCHANGED env ELSE Capture(NullId) /\ Advance
    /\ UNCHANGED <<spec, shell, tries, sent, vbr, runs>>

\* bash stops at a variable that was never set.
Unbound == ~Throws /\ Cur.kind = "redirect" /\ HRs(spec) = <<>>

Call ==
    /\ At({"call", "redirect"}, "start") /\ ~Unbound /\ Accepts(Cur.req)
    /\ Write(Cur.req) /\ vbr' = Effect(Cur.req) /\ Capture(Created(Cur.req)) /\ Advance
    /\ UNCHANGED <<spec, shell, tries, runs, faults>>

\* Mutant: PowerShell goes on after an error, too.
CallFailsOn ==
    /\ At({"call", "redirect"}, "start")
    /\ IF Accepts(Cur.req) THEN Fault /\ vbr' \in {vbr, Effect(Cur.req)} ELSE UNCHANGED <<vbr, faults>>
    /\ Write(Cur.req) /\ Capture(NullId) /\ Advance
    /\ UNCHANGED <<spec, shell, tries, runs>>

\* The call is refused, or its answer is lost.
CallFails ==
    /\ At({"call", "redirect"}, "start")
    /\ IF Accepts(Cur.req) THEN Fault /\ vbr' \in {vbr, Effect(Cur.req)} ELSE UNCHANGED <<vbr, faults>>
    /\ IF Unbound THEN UNCHANGED sent ELSE Write(Cur.req)
    /\ IF Throws \/ Unbound THEN Stop /\ UNCHANGED env ELSE Capture(NullId) /\ Advance
    /\ UNCHANGED <<spec, shell, tries, runs>>

\* Register-ViaHost, register_via_host: find before add.
Register ==
    /\ At({"hr", "proxy"}, "start")
    /\ IF Cur.node.ip \in vbr.hosts THEN Goto("part") /\ UNCHANGED sent
       ELSE /\ sent' = sent \o <<ConnectionCertificate(Cur.node.ip, NoId),
                                 AddLinuxHost(Cur.node.ip, Cur.node.role, pairingCode(Cur.node))>>
            /\ Goto("hostWait")
    /\ UNCHANGED <<spec, shell, tries, env, vbr, runs, faults>>

\* The node does not answer, the lookup fails or a request is refused; what bash could not
\* find it adds.
RegisterFails ==
    /\ At({"hr", "proxy"}, "start") /\ Fault
    /\ \/ Stop /\ UNCHANGED sent
       \/ /\ ~Throws /\ Goto("hostWait")
          /\ sent' = sent \o <<ConnectionCertificate(Cur.node.ip, NoId),
                               AddLinuxHost(Cur.node.ip, Cur.node.role, pairingCode(Cur.node))>>
    /\ UNCHANGED <<spec, shell, tries, env, vbr, runs>>

Host(ip) == [vbr EXCEPT !.hosts = @ \cup {ip}]

HostAdded ==
    /\ phase = "hostWait" /\ vbr' = Host(Cur.node.ip) /\ Goto("part")
    /\ UNCHANGED <<spec, shell, tries, env, sent, runs, faults>>

\* The session fails or is stopped, or the script cannot wait for its end.
HostLost ==
    /\ phase = "hostWait" /\ Fault
    /\ vbr' \in {vbr, Host(Cur.node.ip)} /\ Stop
    /\ UNCHANGED <<spec, shell, tries, env, sent, runs>>

\* Mutant: the repository is not looked up.
FindPartNever ==
    /\ phase = "part" /\ Goto("create")
    /\ UNCHANGED <<spec, shell, tries, env, sent, vbr, runs, faults>>

\* A hardened repository is looked up before it is created, a proxy is not.
FindPart ==
    /\ phase = "part"
    /\ IF Cur.kind = "hr" /\ Cur.req.body.name \in vbr.repos
       THEN Capture(RepoId(Cur.req.body.name)) /\ Advance
       ELSE Goto("create") /\ UNCHANGED env
    /\ UNCHANGED <<spec, shell, tries, sent, vbr, runs, faults>>

FindPartFails ==
    /\ phase = "part" /\ Cur.kind = "hr" /\ Fault
    /\ IF Throws THEN Stop ELSE Goto("create")
    /\ UNCHANGED <<spec, shell, tries, env, sent, vbr, runs>>

\* The requests that start a session.
Creating == phase = "create" \/ At({"create", "wait"}, "start")

Create ==
    /\ Creating /\ Accepts(Cur.req)
    /\ Write(Cur.req) /\ Goto("wait")
    /\ UNCHANGED <<spec, shell, tries, env, vbr, runs, faults>>

\* Refused: without a session id both scripts stop, bash when its wait is over.
CreateFails ==
    /\ Creating
    /\ IF Accepts(Cur.req) THEN Fault /\ vbr' \in {vbr, Effect(Cur.req)} ELSE UNCHANGED <<vbr, faults>>
    /\ Write(Cur.req) /\ Stop
    /\ UNCHANGED <<spec, shell, tries, env, runs>>

\* The host's components are being updated: update them and try again, three times in all.
Pending ==
    /\ Creating /\ Cur.kind # "wait" /\ Accepts(Cur.req) /\ Fault
    /\ Write(Cur.req)
    /\ IF tries < 3 THEN Goto("update") /\ tries' = tries + 1 ELSE Stop /\ UNCHANGED tries
    /\ UNCHANGED <<spec, shell, env, vbr, runs>>

UpdateHost == IF Cur.kind = "create" THEN env.mountSrv ELSE HostId(Cur.node.ip)

\* Update-VbrComponents ignores every failure; the exit of wait_session ends the bash script.
Update ==
    /\ phase = "update" /\ Write(UpdateHostComponents(UpdateHost))
    /\ \/ UNCHANGED faults /\ Goto("create")
       \/ Fault /\ Goto("create")
       \/ Fault /\ ~Throws /\ Stop
    /\ UNCHANGED <<spec, shell, tries, env, vbr, runs>>

\* Wait-VbrSession, wait_session.
SessionEnds ==
    /\ phase = "wait" /\ vbr' = Effect(Cur.req) /\ Advance /\ tries' = 1
    /\ Capture(IF Cur.kind = "hr" THEN RepoId(Cur.req.body.name) ELSE NullId)
    /\ UNCHANGED <<spec, shell, sent, runs, faults>>

\* Mutant: a session that fails is taken for one that ends.
SessionFailsOn ==
    /\ phase = "wait" /\ Fault
    /\ vbr' \in {vbr, Effect(Cur.req)} /\ Advance
    /\ UNCHANGED <<spec, shell, tries, env, sent, runs>>

\* What a step's session is to make.
Made(st) ==
    CASE st.kind = "hr"    -> RepoId(RepoName(spec, st.node))
      [] st.kind = "proxy" -> Id("proxy", st.node.ip)
      [] st.kind = "wait" /\ st.req.path = "highAvailabilityCluster" -> Id("cluster", "")
      [] OTHER             -> RepoId(spec.s3.name)

\* A session that somebody stops has no result: both scripts take that for its end.
SessionStops ==
    /\ phase = "wait" /\ Fault
    /\ vbr' = [vbr EXCEPT !.stopped = @ \cup {Made(Cur)}] /\ Advance /\ tries' = 1
    /\ Capture(IF Cur.kind = "hr" /\ Made(Cur).of \in vbr.repos THEN Made(Cur) ELSE NullId)
    /\ UNCHANGED <<spec, shell, sent, runs>>

SessionFails ==
    /\ phase = "wait" /\ Fault
    /\ vbr' \in {vbr, Effect(Cur.req)} /\ Stop
    /\ UNCHANGED <<spec, shell, tries, env, sent, runs>>

\* The repository is there, and the last lookup of it fails.
RepoUnresolved ==
    /\ phase = "wait" /\ Cur.kind = "hr" /\ Fault
    /\ vbr' = Effect(Cur.req) /\ tries' = 1
    /\ IF Throws THEN Stop /\ UNCHANGED env ELSE Capture(NullId) /\ Advance
    /\ UNCHANGED <<spec, shell, sent, runs>>

\* Somebody runs the script again.
Rerun ==
    /\ phase = "stopped" \/ Finished
    /\ runs < MaxRuns /\ runs' = runs + 1
    /\ at' = 1 /\ phase' = "start" /\ tries' = 1 /\ sent' = <<>>
    /\ env' = [x \in Variables |-> NullId] /\ vbr' = [vbr EXCEPT !.stopped = {}]
    /\ UNCHANGED <<spec, shell, faults>>

Init ==
    /\ spec \in Specs /\ shell \in Shells
    /\ at = 1 /\ phase = "start" /\ tries = 1 /\ sent = <<>> /\ runs = 1 /\ faults = 0
    /\ env = [x \in Variables |-> NullId]
    /\ \E self \in {"ip", "name"}, backups \in {<<>>, <<"b1">>}, license \in {"none", "valid"} :
          /\ self = "name" => HRs(spec) # <<>>
          /\ backups # <<>> => Len(VSAs(spec)) > 1
          /\ license = "valid" => spec.license # ""
          /\ LET own == IF VSAs(spec) = <<>> THEN "target" ELSE Head(VSAs(spec))[self] IN
             vbr = [self |-> own, hosts |-> {own}, repos |-> {DefaultRepo}, proxies |-> <<>>, creds |-> {},
                    target |-> RepoId(DefaultRepo), backups |-> backups, cluster |-> FALSE,
                    license |-> license, stopped |-> {}]

Next ==
    \/ LookUp \/ LookUpFails \/ Call \/ CallFails \/ Register \/ RegisterFails
    \/ HostAdded \/ HostLost \/ FindPart \/ FindPartFails \/ Create \/ CreateFails
    \/ Pending \/ Update \/ SessionEnds \/ SessionStops \/ SessionFails \/ RepoUnresolved \/ Rerun

Spec == Init /\ [][Next]_vars

-----------------------------------------------------------------------------
(* Properties *)

\* A script that prints "Done" has registered every host, and has every repository and every
\* proxy; with two VSAs the cluster exists.  This is also true of the bash script, which
\* reads over refused calls.  What lacks is what a session that was stopped should have made.
DoneMeansWired ==
    Finished =>
        /\ \A i \in DOMAIN spec.nodes :
               LET n == spec.nodes[i] IN
               /\ ~isVSA(n) => n.ip \in vbr.hosts
               /\ isHR(n) => RepoName(spec, n) \in vbr.repos \/ RepoId(RepoName(spec, n)) \in vbr.stopped
               /\ isProxy(n) => \/ \E k \in DOMAIN vbr.proxies : vbr.proxies[k] = n.ip
                                \/ Id("proxy", n.ip) \in vbr.stopped
        /\ Len(VSAs(spec)) > 1 => vbr.cluster \/ Id("cluster", "") \in vbr.stopped
        /\ HasS3(spec) => spec.s3.name \in vbr.repos \/ RepoId(spec.s3.name) \in vbr.stopped

\* The PowerShell script forms the cluster only when the configuration backup is on a
\* repository that exists and the default repository is gone.
ClusterLast ==
    shell = "powershell" /\ vbr.cluster =>
        vbr.target.of \in vbr.repos /\ DefaultRepo \notin vbr.repos

\* However often the PowerShell script is run after a failure, it adds no host and creates no
\* hardened repository that is there.
NothingTwice ==
    [][\A i \in DOMAIN sent' \ DOMAIN sent :
           shell = "powershell" =>
               /\ sent'[i].path = "managedServers" => sent'[i].body.name \notin vbr.hosts
               /\ sent'[i].path = "repositories" /\ sent'[i].method = "POST"
                      /\ sent'[i].body.type = "LinuxHardened"
                  => sent'[i].body.name \notin vbr.repos]_vars
=============================================================================
