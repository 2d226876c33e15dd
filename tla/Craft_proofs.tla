---------------------------- MODULE Craft_proofs ----------------------------
(***************************************************************************)
(* Proofs about Craft, the script that craftapi renders: for every         *)
(* specification, either shell, and any number of runs and of calls that   *)
(* fail.                                                                   *)
(*                                                                         *)
(* The plan is made anew at each step, from the variables captured so far. *)
(* Its outline, the kind of each step and the node it is about, does not   *)
(* depend on them: Outline is the plan with no variable set.  Each step    *)
(* has one of eight forms, and the invariant says of every step passed     *)
(* what it has left on the server.                                         *)
(*                                                                         *)
(* That a run without a fault sends what Wire sends is shown along the     *)
(* ideal plan, the plan with every variable set to what it is meant to     *)
(* hold: what it sends is what Wire does, part by part, and the plan at    *)
(* hand agrees with it on each step whose variables hold these values.     *)
(***************************************************************************)
EXTENDS CraftSync, WellFoundedInduction, TLAPS

\* A sequence, whatever is in it.
IsSeq(q) == q \in Seq({q[i] : i \in DOMAIN q})

-----------------------------------------------------------------------------
(* Among: a recursive function, so that there is one has to be shown first. *)

\* The first m values of the function that Among is defined by.
Filter(g, q, S, m) ==
    g = [i \in 0 .. m |-> IF i = 0 THEN <<>>
                          ELSE IF q[i] \in S THEN Append(g[i - 1], q[i]) ELSE g[i - 1]]

\* What holds of zero and of every successor up to a bound holds up to the bound.
LEMMA UpTo ==
    ASSUME NEW G, NEW b \in Nat, 0 \in G, \A m \in Nat : m < b /\ m \in G => m + 1 \in G
    PROVE  b \in G
<1> DEFINE Bad == {m \in Nat : m <= b /\ m \notin G}
<1> SUFFICES ASSUME Bad # {}
             PROVE  FALSE
  OBVIOUS
<1>1. PICK m \in Bad : \A d \in Bad : ~(<<d, m>> \in OpToRel(<, Nat))
  BY NatLessThanWellFounded, WFMin
<1>2. \A d \in Nat, x \in Nat : d < x => <<d, x>> \in OpToRel(<, Nat)
  BY DEF OpToRel
<1>3. m - 1 \in Nat /\ m - 1 < b /\ m - 1 < m
  OBVIOUS
<1>4. m - 1 \notin Bad
  BY <1>1, <1>2, <1>3
<1>5. (m - 1) + 1 \in G
  BY <1>3, <1>4
<1>6. QED
  BY <1>3, <1>5

\* Every element of q that is in S is an element of r.
Covers(r, q, S) == \A i \in 1 .. Len(q) : q[i] \in S => \E k \in 1 .. Len(r) : r[k] = q[i]

\* The function is there for every sequence: it is built up value by value.
LEMMA FilterExists ==
    ASSUME NEW q, Len(q) \in Nat, NEW S
    PROVE  \E g : Filter(g, q, S, Len(q))
<1> DEFINE G == {m \in Nat : \E g : Filter(g, q, S, m)}
<1>1. 0 \in G
  <2>1. Filter([i \in 0 .. 0 |-> <<>>], q, S, 0)
    BY DEF Filter
  <2>2. QED
    BY <2>1
<1>2. ASSUME NEW m \in Nat, m < Len(q), m \in G
      PROVE  m + 1 \in G
  <2>1. PICK g : Filter(g, q, S, m)
    BY <1>2
  <2> DEFINE last == IF q[m + 1] \in S THEN Append(g[m], q[m + 1]) ELSE g[m]
             h    == [i \in 0 .. (m + 1) |-> IF i = m + 1 THEN last ELSE g[i]]
  <2>2. \A i \in 0 .. m : h[i] = g[i]
    BY <1>2
  <2>3. h[m + 1] = last
    BY <1>2
  <2>4. Filter(h, q, S, m + 1)
    <3> SUFFICES ASSUME NEW i \in 0 .. (m + 1)
                 PROVE  h[i] = IF i = 0 THEN <<>>
                               ELSE IF q[i] \in S THEN Append(h[i - 1], q[i]) ELSE h[i - 1]
      BY Zenon DEF Filter
    <3>1. CASE i = 0
      <4>1. g[0] = <<>>
        BY <1>2, <2>1 DEF Filter
      <4>2. h[i] = g[0]
        BY <3>1, <2>2, <1>2
      <4>3. QED
        BY <3>1, <4>1, <4>2, Zenon
    <3>2. CASE i \in 1 .. m
      <4>1. i # 0 /\ i \in 0 .. m /\ i - 1 \in 0 .. m
        BY <3>2, <1>2
      <4>2. h[i] = g[i] /\ h[i - 1] = g[i - 1]
        BY <4>1, <2>2
      <4>3. g[i] = IF i = 0 THEN <<>> ELSE IF q[i] \in S THEN Append(g[i - 1], q[i]) ELSE g[i - 1]
        BY <4>1, <2>1, Zenon DEF Filter
      <4>4. QED
        BY <4>1, <4>2, <4>3, Zenon
    <3>3. CASE i = m + 1
      <4>1. i # 0 /\ i - 1 = m /\ m \in 0 .. m
        BY <3>3, <1>2
      <4>2. h[i] = last /\ h[i - 1] = g[m]
        BY <3>3, <4>1, <2>2, <2>3
      <4>3. QED
        BY <3>3, <4>1, <4>2, Zenon
    <3>4. QED
      BY <3>1, <3>2, <3>3, <1>2
  <2>5. QED
    <3> HIDE DEF h
    <3> QED
      BY <1>2, <2>4
<1>3. Len(q) \in G
  <2> HIDE DEF G
  <2> QED
    BY <1>1, <1>2, UpTo
<1>4. QED
  BY <1>3

\* Among keeps the elements of S, and no others.
LEMMA AmongFacts ==
    ASSUME NEW T, NEW q \in Seq(T), NEW S
    PROVE  Among(q, S) \in Seq(T \cap S) /\ Covers(Among(q, S), q, S)
<1> DEFINE f == CHOOSE g : Filter(g, q, S, Len(q))
           Right(m) ==
              /\ f[m] \in Seq(T \cap S)
              /\ \A i \in 1 .. m : q[i] \in S => \E k \in 1 .. Len(f[m]) : f[m][k] = q[i]
           G == {m \in Nat : Right(m)}
<1>1. Among(q, S) = f[Len(q)]
  BY Zenon DEF Among, Filter
<1>2. Filter(f, q, S, Len(q))
  BY FilterExists
<1>3. \A i \in 0 .. Len(q) :
         f[i] = IF i = 0 THEN <<>> ELSE IF q[i] \in S THEN Append(f[i - 1], q[i]) ELSE f[i - 1]
  <2> HIDE DEF f
  <2> QED
    BY <1>2, Zenon DEF Filter
<1> HIDE DEF f
<1>4. 0 \in G
  <2>1. 0 \in 0 .. Len(q)
    OBVIOUS
  <2>2. f[0] = <<>>
    BY <1>3, <2>1, Zenon
  <2>3. Right(0)
    <3>1. <<>> \in Seq(T \cap S)
      OBVIOUS
    <3>2. \A i \in 1 .. 0 : FALSE
      OBVIOUS
    <3>3. QED
      BY <2>2, <3>1, <3>2, Zenon
  <2>4. QED
    <3> HIDE DEF Right
    <3> QED
      BY <2>3
<1>5. ASSUME NEW m \in Nat, m < Len(q), m \in G
      PROVE  m + 1 \in G
  <2> DEFINE last == f[m + 1]
  <2>1. q[m + 1] \in T
    BY <1>5
  <2>2. last = IF q[m + 1] \in S THEN Append(f[m], q[m + 1]) ELSE f[m]
    <3>1. m + 1 \in 0 .. Len(q) /\ m + 1 # 0 /\ (m + 1) - 1 = m
      BY <1>5
    <3>2. QED
      BY <1>3, <3>1
  <2> HIDE DEF last
  <2>3. last \in Seq(T \cap S)
    BY <2>1, <2>2, <1>5
  <2>4. \A i \in 1 .. m : q[i] \in S => \E k \in 1 .. Len(last) : last[k] = q[i]
    <3> SUFFICES ASSUME NEW i \in 1 .. m, q[i] \in S
                 PROVE  \E k \in 1 .. Len(last) : last[k] = q[i]
      OBVIOUS
    <3>1. PICK k \in 1 .. Len(f[m]) : f[m][k] = q[i]
      BY <1>5
    <3>2. k \in 1 .. Len(last) /\ last[k] = q[i]
      BY <1>5, <2>1, <2>2, <3>1
    <3>3. QED
      BY <3>2
  <2>5. q[m + 1] \in S => \E k \in 1 .. Len(last) : last[k] = q[m + 1]
    <3> SUFFICES ASSUME q[m + 1] \in S
                 PROVE  \E k \in 1 .. Len(last) : last[k] = q[m + 1]
      OBVIOUS
    <3>1. Len(last) \in 1 .. Len(last) /\ last[Len(last)] = q[m + 1]
      BY <1>5, <2>1, <2>2
    <3>2. QED
      BY <3>1
  <2>6. \A i \in 1 .. (m + 1) : i \in 1 .. m \/ i = m + 1
    BY <1>5
  <2>7. \A i \in 1 .. (m + 1) : q[i] \in S => \E k \in 1 .. Len(last) : last[k] = q[i]
    BY <2>4, <2>5, <2>6
  <2>8. QED
    BY <2>3, <2>7, <1>5 DEF last
<1>6. Len(q) \in Nat
  OBVIOUS
<1>7. Len(q) \in G
  <2> HIDE DEF G
  <2> QED
    BY <1>4, <1>5, <1>6, UpTo
<1>8. QED
  BY <1>1, <1>7 DEF Covers

-----------------------------------------------------------------------------
(* The steps of a plan, by what they may do. *)

\* The provers do not know that a literal is a string.
Names == STRING \cup {"", "target", "b1", "HA secondary node", DefaultRepo}
Ids   == [obj : {"", "null", "host", "repo", "credentials", "cloudCredentials"}, of : Names]
NodesOf(s) == {s.nodes[i] : i \in DOMAIN s.nodes}

\* What a step is about: a node, the default repository, the cluster, the S3 repository.
ForNode(st)  == st.kind \in {"hr", "proxy"}
Deletes(st)  == st.kind = "call" /\ st.req.method = "DELETE"
Clusters(st) == st.kind = "wait" /\ st.req.path = "highAvailabilityCluster"
Stores(st)   == st.kind = "create" \/ (st.kind = "wait" /\ ~Clusters(st))

\* The paths of the requests that make a repository.
RepositoryPaths == {"repositories", "repositories?overwriteOwner=true"}

\* A call that changes no more of the server than its credentials.
PlainForm(st) ==
    /\ st.kind = "call" /\ st.var \in {"", "haCred", "s3Cred"}
    /\ st.req.method \in {"POST", "PUT"}
    /\ st.req.path \notin {"configBackup", "managedServers", "proxies", "highAvailabilityCluster"}
                          \cup RepositoryPaths
    /\ st.req.path \in {"credentials", "cloudCredentials"} => st.req.body.description \in Names

\* The redirection of the configuration backup.
RedirectForm(st, v) ==
    st.kind = "redirect" /\ st.var = "" /\ st.req = RedirectConfigBackup(v.repo)

\* A lookup of a host, or of the default repository.
LookUpForm(st) ==
    \/ st.kind = "host" /\ st.var \in {"hrMount", "mountSrv"} /\ st.req.body \in Names
    \/ st.kind = "repo" /\ st.var = "defaultRepo" /\ st.req.body = DefaultRepo

\* The removal of the default repository.
RemovalForm(st, v) ==
    st.kind = "call" /\ st.var = "" /\ st.req = DeleteRepository(v.defaultRepo)

\* A hardened repository.
HardenedForm(s, st) ==
    /\ st.kind = "hr" /\ st.var \in {"", "repo"} /\ st.node \in NodesOf(s) \cap Nodes
    /\ st.req.method = "POST" /\ st.req.path = "repositories"
    /\ st.req.body.name = RepoName(s, st.node)

\* A proxy.
ProxyForm(s, st) ==
    /\ st.kind = "proxy" /\ st.var = "" /\ st.node \in NodesOf(s) \cap Nodes
    /\ st.req = AddVmwareProxy(HostId(st.node.ip))

\* The cluster.
ClusterForm(st) ==
    /\ st.kind = "wait" /\ st.var = ""
    /\ st.req.method = "POST" /\ st.req.path = "highAvailabilityCluster"

\* The S3 repository, with a mount server ("create") or without ("wait").
StoreForm(s, st) ==
    /\ st.kind \in {"create", "wait"} /\ st.var = ""
    /\ st.req.method = "POST" /\ st.req.path \in RepositoryPaths
    /\ st.req.body.name = s.s3.name /\ st.req.body.type # "LinuxHardened"

\* The eight forms.
Formed(s, st, v) ==
    \/ PlainForm(st) \/ RedirectForm(st, v) \/ LookUpForm(st) \/ RemovalForm(st, v)
    \/ HardenedForm(s, st) \/ ProxyForm(s, st) \/ ClusterForm(st) \/ StoreForm(s, st)

\* Two steps that differ in what the script's variables hold only.
SameStep(a, b) ==
    /\ a.kind = b.kind /\ a.req.method = b.req.method /\ a.req.path = b.req.path
    /\ ForNode(a) => a.node = b.node

\* A step that makes the cluster comes after one that removes the default repository.
Ordered(q) == \A i \in 1 .. Len(q) : Clusters(q[i]) => \E j \in 1 .. Len(q) : j < i /\ Deletes(q[j])

\* A plan p and its outline q.
Matches(s, p, q, v) ==
    /\ IsSeq(p) /\ IsSeq(q) /\ Len(p) = Len(q)
    /\ \A i \in 1 .. Len(p) : Formed(s, p[i], v) /\ SameStep(p[i], q[i])
    /\ Ordered(q)

\* What the provers have to be told of the concatenation of two sequences.
LEMMA Concatenation ==
    ASSUME NEW p, IsSeq(p), NEW q, IsSeq(q)
    PROVE  /\ IsSeq(p \o q) /\ Len(p \o q) = Len(p) + Len(q)
           /\ Len(p) \in Nat /\ Len(q) \in Nat
           /\ \A i \in 1 .. Len(p) : (p \o q)[i] = p[i]
           /\ \A i \in 1 .. Len(q) : (p \o q)[Len(p) + i] = q[i]
<1> DEFINE P == {p[i] : i \in DOMAIN p}
           Q == {q[i] : i \in DOMAIN q}
           R == {(p \o q)[i] : i \in DOMAIN (p \o q)}
<1>1. p \in Seq(P) /\ q \in Seq(Q)
  BY DEF IsSeq
<1> HIDE DEF P, Q
<1>2. p \in Seq(P \cup Q) /\ q \in Seq(P \cup Q)
  BY <1>1
<1>3. p \o q \in Seq(P \cup Q)
  BY <1>2
<1>4. /\ Len(p \o q) = Len(p) + Len(q) /\ Len(p) \in Nat /\ Len(q) \in Nat
      /\ \A i \in 1 .. Len(p) : (p \o q)[i] = p[i]
      /\ \A i \in 1 .. Len(q) : (p \o q)[Len(p) + i] = q[i]
  BY <1>2
<1> DEFINE r == p \o q
<1> HIDE DEF r
<1>5. r \in Seq({r[i] : i \in DOMAIN r})
  <2>1. r \in Seq(P \cup Q)
    BY <1>3 DEF r
  <2>2. \A i \in 1 .. Len(r) : r[i] \in {r[j] : j \in DOMAIN r}
    BY <2>1
  <2> DEFINE X == {r[j] : j \in DOMAIN r}
  <2>3. Len(r) \in Nat /\ r = [i \in 1 .. Len(r) |-> r[i]]
    BY <2>1
  <2>4. \A i \in 1 .. Len(r) : r[i] \in X
    BY <2>2
  <2> HIDE DEF X
  <2>5. r \in Seq(X)
    BY <2>3, <2>4
  <2>6. QED
    BY <2>5 DEF X
<1>6. QED
  BY <1>4, <1>5 DEF IsSeq, r

\* Two plans, one after the other, keep the cluster behind the removal.
LEMMA InOrder ==
    ASSUME NEW p, IsSeq(p), Ordered(p), NEW q, IsSeq(q), Ordered(q)
    PROVE  Ordered(p \o q)
<1> DEFINE r == p \o q
<1>1. /\ Len(r) = Len(p) + Len(q) /\ Len(p) \in Nat /\ Len(q) \in Nat
      /\ \A i \in 1 .. Len(p) : r[i] = p[i]
      /\ \A i \in 1 .. Len(q) : r[Len(p) + i] = q[i]
  BY Concatenation
<1> HIDE DEF r
<1> SUFFICES ASSUME NEW i \in 1 .. Len(r), Clusters(r[i])
             PROVE  \E j \in 1 .. Len(r) : j < i /\ Deletes(r[j])
  BY DEF Ordered, r
<1>2. CASE i \in 1 .. Len(p)
  <2>1. PICK j \in 1 .. Len(p) : j < i /\ Deletes(p[j])
    BY <1>1, <1>2 DEF Ordered
  <2>2. r[j] = p[j] /\ j \in 1 .. Len(r)
    BY <1>1
  <2>3. QED
    BY <2>1, <2>2
<1>3. CASE i \notin 1 .. Len(p)
  <2>1. i - Len(p) \in 1 .. Len(q) /\ i = Len(p) + (i - Len(p))
    BY <1>1, <1>3
  <2>2. Clusters(q[i - Len(p)])
    BY <1>1, <2>1
  <2>3. PICK j \in 1 .. Len(q) : j < i - Len(p) /\ Deletes(q[j])
    BY <2>1, <2>2 DEF Ordered
  <2>4. r[Len(p) + j] = q[j] /\ Len(p) + j \in 1 .. Len(r) /\ Len(p) + j < i
    BY <1>1, <2>1, <2>3
  <2>5. QED
    BY <2>3, <2>4
<1>4. QED
  BY <1>2, <1>3

\* Plans that match part by part match.
LEMMA Joint ==
    ASSUME NEW s, NEW v, NEW p, NEW q, NEW p2, NEW q2, Matches(s, p, q, v), Matches(s, p2, q2, v)
    PROVE  Matches(s, p \o p2, q \o q2, v)
<1>0. IsSeq(p) /\ IsSeq(p2) /\ IsSeq(q) /\ IsSeq(q2)
  BY DEF Matches
<1>1. /\ IsSeq(p \o p2) /\ Len(p \o p2) = Len(p) + Len(p2)
      /\ Len(p) \in Nat /\ Len(p2) \in Nat
      /\ \A i \in 1 .. Len(p) : (p \o p2)[i] = p[i]
      /\ \A i \in 1 .. Len(p2) : (p \o p2)[Len(p) + i] = p2[i]
  BY <1>0, Concatenation
<1>2. /\ IsSeq(q \o q2) /\ Len(q \o q2) = Len(q) + Len(q2)
      /\ \A i \in 1 .. Len(q) : (q \o q2)[i] = q[i]
      /\ \A i \in 1 .. Len(q2) : (q \o q2)[Len(q) + i] = q2[i]
  BY <1>0, Concatenation
<1>3. Len(p) = Len(q) /\ Len(p2) = Len(q2)
  BY DEF Matches
<1> DEFINE l == p \o p2
           r == q \o q2
<1> HIDE DEF l, r
<1>4. \A i \in 1 .. Len(p) : l[i] = p[i] /\ r[i] = q[i]
  BY <1>1, <1>2, <1>3 DEF l, r
<1>5. \A i \in 1 .. Len(p2) : l[Len(p) + i] = p2[i] /\ r[Len(p) + i] = q2[i]
  BY <1>1, <1>2, <1>3 DEF l, r
<1>6. \A i \in 1 .. Len(p) : Formed(s, l[i], v) /\ SameStep(l[i], r[i])
  BY <1>4 DEF Matches
<1>7. \A i \in 1 .. Len(p2) : Formed(s, l[Len(p) + i], v) /\ SameStep(l[Len(p) + i], r[Len(p) + i])
  BY <1>5 DEF Matches
<1>8. \A i \in 1 .. (Len(p) + Len(p2)) : i \in 1 .. Len(p) \/ \E j \in 1 .. Len(p2) : i = Len(p) + j
  <2> SUFFICES ASSUME NEW i \in 1 .. (Len(p) + Len(p2)), i \notin 1 .. Len(p)
               PROVE  i - Len(p) \in 1 .. Len(p2) /\ i = Len(p) + (i - Len(p))
    OBVIOUS
  <2>1. QED
    BY <1>1
<1>9. \A i \in 1 .. (Len(p) + Len(p2)) : Formed(s, l[i], v) /\ SameStep(l[i], r[i])
  BY <1>6, <1>7, <1>8
<1>10. Ordered(r)
  BY <1>0, InOrder DEF Matches, r
<1>11. QED
  BY <1>1, <1>2, <1>3, <1>9, <1>10 DEF Matches, l, r

\* A step that matches is a plan that matches.
LEMMA Single ==
    ASSUME NEW s, NEW v, NEW a, NEW b, Formed(s, a, v), SameStep(a, b), ~Clusters(b)
    PROVE  Matches(s, <<a>>, <<b>>, v)
<1>1. IsSeq(<<a>>) /\ Len(<<a>>) = 1 /\ <<a>>[1] = a
  BY DEF IsSeq
<1>2. IsSeq(<<b>>) /\ Len(<<b>>) = 1 /\ <<b>>[1] = b
  BY DEF IsSeq
<1>3. \A i \in 1 .. 1 : i = 1
  OBVIOUS
<1>4. Ordered(<<b>>)
  BY <1>2, <1>3 DEF Ordered
<1>5. QED
  BY <1>1, <1>2, <1>3, <1>4 DEF Matches

\* A part that the plan leaves out.
LEMMA Empty ==
    ASSUME NEW s, NEW v
    PROVE  Matches(s, <<>>, <<>>, v)
<1>1. IsSeq(<<>>) /\ Len(<<>>) = 0 /\ \A i \in 1 .. 0 : FALSE
  BY DEF IsSeq
<1>2. QED
  BY <1>1 DEF Matches, Ordered

\* applyDefaults touches neither the nodes nor the object storage.
LEMMA Defaults ==
    ASSUME NEW s \in Specifications
    PROVE  /\ applyDefaults(s).nodes = s.nodes /\ applyDefaults(s).s3 = s.s3
           /\ VSAs(applyDefaults(s)) = VSAs(s) /\ VIAs(applyDefaults(s)) = VIAs(s)
           /\ HRs(applyDefaults(s)) = HRs(s)
           /\ \A n : RepoName(applyDefaults(s), n) = RepoName(s, n)
<1>1. applyDefaults(s).nodes = s.nodes /\ applyDefaults(s).s3 = s.s3
  <2> DEFINE u == IF s.username = "" THEN "veeamadmin" ELSE s.username
             i == IF s.immutableDays <= 0 THEN 7 ELSE s.immutableDays
             p == IF s.syslogPort <= 0 THEN 514 ELSE s.syslogPort
             d == IF s.dns = "" /\ VSAs(s) # <<>> THEN Head(VSAs(s)).name ELSE s.dns
  <2>1. applyDefaults(s) = [s EXCEPT !.username = u, !.immutableDays = i, !.syslogPort = p, !.dns = d]
    BY Zenon DEF applyDefaults
  <2> HIDE DEF u, i, p, d
  <2>2. QED
    BY <2>1 DEF Specifications
<1>2. /\ VSAs(applyDefaults(s)) = VSAs(s) /\ VIAs(applyDefaults(s)) = VIAs(s)
      /\ HRs(applyDefaults(s)) = HRs(s)
  BY <1>1, Zenon DEF VSAs, VIAs, HRs
<1>3. \A n : RepoName(applyDefaults(s), n) = RepoName(s, n)
  BY <1>2, Zenon DEF RepoName
<1>4. QED
  BY <1>1, <1>2, <1>3

\* The nodes of each role are nodes of the specification, and none that is no VSA is lost.
LEMMA Selected ==
    ASSUME NEW s \in Specifications
    PROVE  /\ VIAs(s) \in Seq(NodesOf(s) \cap Nodes) /\ HRs(s) \in Seq(NodesOf(s) \cap Nodes)
           /\ VSAs(s) \in Seq(Nodes)
           /\ \A i \in 1 .. Len(VIAs(s)) : ~isVSA(VIAs(s)[i])
           /\ \A n \in NodesOf(s) : ~isVSA(n) => \E k \in 1 .. Len(VIAs(s)) : VIAs(s)[k] = n
<1>1. s.nodes \in Seq(Nodes)
  BY DEF Specifications
<1>2. s.nodes \in Seq(NodesOf(s)) /\ NodesOf(s) \subseteq Nodes
  <2> DEFINE q == s.nodes
             X == {q[i] : i \in DOMAIN q}
  <2>1. q \in Seq(Nodes)
    BY <1>1
  <2> HIDE DEF q
  <2>2. Len(q) \in Nat /\ q = [i \in 1 .. Len(q) |-> q[i]] /\ \A i \in 1 .. Len(q) : q[i] \in X
    BY <2>1
  <2>3. X \subseteq Nodes
    BY <2>1
  <2> HIDE DEF X
  <2>4. q \in Seq(X)
    BY <2>2
  <2>5. QED
    BY <2>3, <2>4 DEF X, q, NodesOf
<1> DEFINE N == NodesOf(s)
<1> HIDE DEF N
<1>3. N \cap {n \in Nodes : isVSA(n)} \subseteq Nodes
  OBVIOUS
<1>4. \A S : Among(s.nodes, S) \in Seq(N \cap S)
  BY <1>2, AmongFacts DEF N
<1>5. \A S, S2, q : S \subseteq S2 /\ q \in Seq(S) => q \in Seq(S2)
  OBVIOUS
<1>6. VSAs(s) \in Seq(N \cap {n \in Nodes : isVSA(n)})
  BY <1>4, Zenon DEF VSAs
<1>7. VIAs(s) \in Seq(N \cap {n \in Nodes : ~isVSA(n)})
  BY <1>4, Zenon DEF VIAs
<1>8. HRs(s) \in Seq(N \cap {n \in Nodes : isHR(n)})
  BY <1>4, Zenon DEF HRs
<1>9. ASSUME NEW n \in NodesOf(s), ~isVSA(n)
      PROVE  \E k \in 1 .. Len(VIAs(s)) : VIAs(s)[k] = n
  <2>1. PICK i \in 1 .. Len(s.nodes) : s.nodes[i] = n
    BY <1>1, <1>9 DEF NodesOf
  <2>2. n \in {m \in Nodes : ~isVSA(m)}
    BY <1>2, <1>9
  <2> DEFINE S == {m \in Nodes : ~isVSA(m)}
  <2>3. VIAs(s) = Among(s.nodes, S)
    BY Zenon DEF VIAs
  <2>4. s.nodes[i] \in S
    BY <2>1, <2>2
  <2> HIDE DEF S
  <2>5. \E k \in 1 .. Len(Among(s.nodes, S)) : Among(s.nodes, S)[k] = s.nodes[i]
    <3>1. Covers(Among(s.nodes, S), s.nodes, S)
      BY <1>1, AmongFacts
    <3>2. QED
      BY <2>1, <2>4, <3>1 DEF Covers
  <2>6. QED
    BY <2>1, <2>3, <2>5
<1>10. VSAs(s) \in Seq(Nodes)
  BY <1>3, <1>5, <1>6
<1>11. VIAs(s) \in Seq(N \cap Nodes) /\ HRs(s) \in Seq(N \cap Nodes)
  <2>1. /\ N \cap {n \in Nodes : ~isVSA(n)} \subseteq N \cap Nodes
        /\ N \cap {n \in Nodes : isHR(n)} \subseteq N \cap Nodes
    OBVIOUS
  <2>2. QED
    BY <2>1, <1>5, <1>7, <1>8
<1>12. \A i \in 1 .. Len(VIAs(s)) : ~isVSA(VIAs(s)[i])
  <2> DEFINE X == N \cap {n \in Nodes : ~isVSA(n)}
             q == VIAs(s)
  <2>1. \A n \in X : ~isVSA(n)
    OBVIOUS
  <2>2. q \in Seq(X)
    BY <1>7
  <2> HIDE DEF X, q
  <2>3. \A i \in 1 .. Len(q) : q[i] \in X
    BY <2>2
  <2>4. QED
    BY <2>1, <2>3 DEF q
<1>13. QED
  BY <1>9, <1>10, <1>11, <1>12 DEF N

\* The part of an entered specification that the forms of the steps depend on.
Like(t, s) ==
    /\ t.s3 = s.s3 /\ s \in Specifications
    /\ VSAs(t) = VSAs(s) /\ VIAs(t) = VIAs(s) /\ HRs(t) = HRs(s)
    /\ \A n : RepoName(t, n) = RepoName(s, n)

-----------------------------------------------------------------------------
(* The parts of the plan, whatever the variables hold. *)

\* The call that installs the license.
LEMMA LicensePart ==
    ASSUME NEW s, NEW t, NEW v
    PROVE  Matches(s, PlanLicense(t), PlanLicense(t), v)
<1> DEFINE a == Step("call", InstallLicense(t.license), "")
<1>1. PlainForm(a) /\ SameStep(a, a) /\ ~Clusters(a)
  BY DEF PlainForm, SameStep, Clusters, Step, InstallLicense, Request, RepositoryPaths
<1>2. Formed(s, a, v)
  BY <1>1 DEF Formed
<1>3. Matches(s, <<a>>, <<a>>, v)
  <2> HIDE DEF a
  <2> QED
    BY <1>1, <1>2, Single
<1>4. QED
  BY <1>3, Empty DEF PlanLicense

\* The lookup of the mount server.
LEMMA MountPart ==
    ASSUME NEW s, NEW t, NEW v, Like(t, s)
    PROVE  Matches(s, PlanMount(t), PlanMount(t), v)
<1> DEFINE a == Step("host", [NoReq EXCEPT !.body = Head(VSAs(t)).ip], "hrMount")
<1>1. ASSUME VSAs(t) # <<>>
      PROVE  Formed(s, a, v) /\ SameStep(a, a) /\ ~Clusters(a)
  <2>1. Head(VSAs(t)).ip \in STRING
    <3>1. VSAs(t) \in Seq(Nodes)
      BY Selected DEF Like
    <3>2. Head(VSAs(t)) \in Nodes
      BY <1>1, <3>1
    <3>3. QED
      BY <3>2 DEF Nodes
  <2>2. a.kind = "host" /\ a.var = "hrMount" /\ a.req.body = Head(VSAs(t)).ip
    BY DEF Step, NoReq, Request
  <2> HIDE DEF a
  <2>3. QED
    BY <2>1, <2>2 DEF Formed, LookUpForm, SameStep, Clusters, Names
<1>2. ASSUME VSAs(t) # <<>>
      PROVE  Matches(s, <<a>>, <<a>>, v)
  <2>1. Formed(s, a, v) /\ SameStep(a, a) /\ ~Clusters(a)
    BY <1>1, <1>2
  <2> HIDE DEF a
  <2> QED
    BY <2>1, Single
<1>3. QED
  BY <1>2, Empty DEF PlanMount

\* The one or two calls of the metrics exporter.
LEMMA ExporterPart ==
    ASSUME NEW s, NEW t, NEW v
    PROVE  Matches(s, PlanExporter(t), PlanExporter(t), v)
<1> DEFINE calls == SetNodeExporter(t.tls, t.exporterUser)
           a == Step("call", calls[1], "")
           b == Step("call", [calls[2] EXCEPT !.body = [username |-> t.exporterUser,
                                                        password |-> "$NeBasicPass"]], "")
<1>1. PlainForm(a) /\ SameStep(a, a) /\ ~Clusters(a)
  <2>1. calls[1].method = "PUT" /\ calls[1].path = "nodeExporterSettings"
    BY DEF SetNodeExporter, Request
  <2> HIDE DEF calls
  <2>2. QED
    BY <2>1 DEF PlainForm, SameStep, Clusters, Step, RepositoryPaths
<1>2. ASSUME Len(calls) # 1
      PROVE  PlainForm(b) /\ SameStep(b, b) /\ ~Clusters(b)
  <2>1. t.exporterUser # ""
    BY <1>2 DEF SetNodeExporter
  <2>2. calls[2] = Request("POST", "setBasicAuth", Auth(t.exporterUser), {})
    BY <2>1 DEF SetNodeExporter
  <2> HIDE DEF calls
  <2>3. b.req.method = "POST" /\ b.req.path = "setBasicAuth" /\ b.kind = "call" /\ b.var = ""
    BY <2>2 DEF Step, Request
  <2> HIDE DEF b
  <2>4. QED
    BY <2>3 DEF PlainForm, SameStep, Clusters, RepositoryPaths
<1> HIDE DEF calls
<1>3. Matches(s, <<a>>, <<a>>, v)
  <2> HIDE DEF a
  <2> QED
    BY <1>1, Single DEF Formed
<1>4. Len(calls) # 1 => Matches(s, <<b>>, <<b>>, v)
  <2> HIDE DEF b
  <2> QED
    BY <1>2, Single DEF Formed
<1>5. PlanExporter(t) = <<a>> \o (IF Len(calls) = 1 THEN <<>> ELSE <<b>>)
  BY DEF PlanExporter, calls
<1> HIDE DEF a, b
<1>6. Matches(s, IF Len(calls) = 1 THEN <<>> ELSE <<b>>, IF Len(calls) = 1 THEN <<>> ELSE <<b>>, v)
  BY <1>4, Empty
<1>7. QED
  BY <1>3, <1>5, <1>6, Joint

\* The call of the syslog server.
LEMMA SyslogPart ==
    ASSUME NEW s, NEW t, NEW v
    PROVE  Matches(s, PlanSyslog(t), PlanSyslog(t), v)
<1> DEFINE a == Step("call", SetSyslog(t.syslog, t.syslogPort, "Udp"), "")
<1>1. PlainForm(a) /\ SameStep(a, a) /\ ~Clusters(a)
  BY DEF PlainForm, SameStep, Clusters, Step, SetSyslog, Request, RepositoryPaths
<1>2. Formed(s, a, v)
  BY <1>1 DEF Formed
<1>3. Matches(s, <<a>>, <<a>>, v)
  <2> HIDE DEF a
  <2> QED
    BY <1>1, <1>2, Single
<1>4. QED
  BY <1>3 DEF PlanSyslog

\* The step of a node has the form of its kind.
LEMMA NodeForm ==
    ASSUME NEW s, NEW t, NEW v, NEW w, Like(t, s), NEW n \in NodesOf(s) \cap Nodes, ~isVSA(n)
    PROVE  /\ Formed(s, PlanNode(t, n, v), v) /\ SameStep(PlanNode(t, n, v), PlanNode(t, n, w))
           /\ ~Clusters(PlanNode(t, n, w))
<1>1. CASE isHR(n)
  <2> DEFINE a(x) == NodeStep("hr", n, HardenedRepo(t, n, x), IF n = Head(HRs(t)) THEN "repo" ELSE "")
  <2>1. PlanNode(t, n, v) = a(v) /\ PlanNode(t, n, w) = a(w)
    BY <1>1 DEF PlanNode
  <2>2. ASSUME NEW x
        PROVE  /\ a(x).kind = "hr" /\ a(x).node = n /\ a(x).var \in {"", "repo"}
               /\ a(x).req = HardenedRepo(t, n, x)
    BY DEF NodeStep
  <2>3. ASSUME NEW x
        PROVE  /\ HardenedRepo(t, n, x).method = "POST" /\ HardenedRepo(t, n, x).path = "repositories"
               /\ HardenedRepo(t, n, x).body.name = RepoName(s, n)
    <3>1. RepoName(t, n) = RepoName(s, n)
      BY DEF Like
    <3>2. QED
      BY <3>1 DEF HardenedRepo, AddHardenedRepository, Request, With, Joined
  <2> HIDE DEF a
  <2>4. HardenedForm(s, a(v)) /\ SameStep(a(v), a(w)) /\ ~Clusters(a(w))
    BY <2>2, <2>3 DEF HardenedForm, SameStep, Clusters
  <2>5. QED
    BY <2>1, <2>4 DEF Formed
<1>2. CASE ~isHR(n)
  <2> DEFINE a == NodeStep("proxy", n, AddVmwareProxy(HostId(n.ip)), "")
  <2>1. PlanNode(t, n, v) = a /\ PlanNode(t, n, w) = a
    BY <1>2 DEF PlanNode
  <2>2. ProxyForm(s, a) /\ SameStep(a, a) /\ ~Clusters(a)
    BY DEF ProxyForm, SameStep, Clusters, NodeStep
  <2>3. QED
    BY <2>1, <2>2 DEF Formed
<1>3. QED
  BY <1>1, <1>2

\* The steps of all nodes.
LEMMA NodesPart ==
    ASSUME NEW s, NEW t, NEW v, NEW w, Like(t, s)
    PROVE  Matches(s, [i \in 1 .. Len(VIAs(t)) |-> PlanNode(t, VIAs(t)[i], v)],
                      [i \in 1 .. Len(VIAs(t)) |-> PlanNode(t, VIAs(t)[i], w)], v)
<1> DEFINE via  == VIAs(t)
           m    == Len(via)
           p(x) == [i \in 1 .. m |-> PlanNode(t, via[i], x)]
<1>1. m \in Nat /\ \A i \in 1 .. m : via[i] \in NodesOf(s) \cap Nodes /\ ~isVSA(via[i])
  <2>1. VIAs(s) \in Seq(NodesOf(s) \cap Nodes) /\ \A i \in 1 .. Len(VIAs(s)) : ~isVSA(VIAs(s)[i])
    BY Selected DEF Like
  <2>2. via = VIAs(s)
    BY DEF Like
  <2> HIDE DEF via
  <2>3. QED
    BY <2>1, <2>2
<1> HIDE DEF via, m
<1>2. \A i \in 1 .. m : /\ Formed(s, PlanNode(t, via[i], v), v)
                        /\ SameStep(PlanNode(t, via[i], v), PlanNode(t, via[i], w))
                        /\ ~Clusters(PlanNode(t, via[i], w))
  BY <1>1, NodeForm
<1>3. ASSUME NEW x
      PROVE  IsSeq(p(x)) /\ Len(p(x)) = m /\ \A i \in 1 .. m : p(x)[i] = PlanNode(t, via[i], x)
  <2>1. Len(p(x)) = m /\ DOMAIN p(x) = 1 .. m /\ \A i \in 1 .. m : p(x)[i] = PlanNode(t, via[i], x)
    BY <1>1
  <2>2. p(x) \in Seq({PlanNode(t, via[i], x) : i \in 1 .. m})
    BY <1>1
  <2>3. {PlanNode(t, via[i], x) : i \in 1 .. m} = {p(x)[i] : i \in DOMAIN p(x)}
    BY <2>1
  <2>4. QED
    BY <2>1, <2>2, <2>3 DEF IsSeq
<1>4. /\ IsSeq(p(v)) /\ IsSeq(p(w)) /\ Len(p(v)) = m /\ Len(p(w)) = m
      /\ \A i \in 1 .. m : p(v)[i] = PlanNode(t, via[i], v) /\ p(w)[i] = PlanNode(t, via[i], w)
  BY <1>3
<1> HIDE DEF p
<1>5. Ordered(p(w))
  BY <1>2, <1>4 DEF Ordered
<1>6. Matches(s, p(v), p(w), v)
  BY <1>2, <1>4, <1>5 DEF Matches
<1>7. QED
  BY <1>6 DEF p, m, via

\* A tuple of six is a sequence.
LEMMA Six ==
    ASSUME NEW a, NEW b, NEW c, NEW d, NEW e, NEW f
    PROVE  LET p == <<a, b, c, d, e, f>> IN
           /\ IsSeq(p) /\ Len(p) = 6
           /\ p[1] = a /\ p[2] = b /\ p[3] = c /\ p[4] = d /\ p[5] = e /\ p[6] = f
<1> DEFINE p == <<a, b, c, d, e, f>>
<1>1. /\ Len(p) = 6 /\ DOMAIN p = 1 .. 6
      /\ p[1] = a /\ p[2] = b /\ p[3] = c /\ p[4] = d /\ p[5] = e /\ p[6] = f
  OBVIOUS
<1>2. p \in Seq({a, b, c, d, e, f})
  OBVIOUS
<1> HIDE DEF p
<1>3. {a, b, c, d, e, f} = {p[i] : i \in DOMAIN p}
  BY <1>1
<1>4. IsSeq(p)
  BY <1>2, <1>3, Zenon DEF IsSeq
<1>5. QED
  BY <1>1, <1>4 DEF p

\* The six steps of the cluster: the removal of the default repository is before the cluster.
LEMMA HAPart ==
    ASSUME NEW s, NEW t, NEW v, NEW w
    PROVE  Matches(s, PlanHA(t, v), PlanHA(t, w), v)
<1> DEFINE vsa  == VSAs(t)
           a(x) == Step("redirect", RedirectConfigBackup(x.repo), "")
           b    == Step("repo", [NoReq EXCEPT !.body = DefaultRepo], "defaultRepo")
           c(x) == Step("call", DeleteRepository(x.defaultRepo), "")
           d    == Step("call", CreateCredentials(t.username, "HA secondary node"), "haCred")
           e(x) == Step("call", ConnectionCertificate(vsa[2].ip, x.haCred), "")
           f(x) == Step("wait", CreateHACluster(vsa[1].ip, vsa[2].ip, x.haCred, t.dns, t.endpoint), "")
<1>1. RedirectForm(a(v), v) /\ SameStep(a(v), a(w)) /\ ~Clusters(a(w))
  BY DEF RedirectForm, SameStep, ForNode, Clusters, Step, RedirectConfigBackup, Request
<1>2. LookUpForm(b) /\ SameStep(b, b) /\ ~Clusters(b)
  BY DEF LookUpForm, SameStep, Clusters, Step, NoReq, Request
<1>3. RemovalForm(c(v), v) /\ SameStep(c(v), c(w)) /\ ~Clusters(c(w)) /\ Deletes(c(w))
  BY DEF RemovalForm, SameStep, ForNode, Clusters, Deletes, Step, DeleteRepository, Request
<1>4. PlainForm(d) /\ SameStep(d, d) /\ ~Clusters(d)
  <2>1. /\ d.kind = "call" /\ d.var = "haCred" /\ d.req.method = "POST" /\ d.req.path = "credentials"
        /\ d.req.body.description = "HA secondary node"
    BY DEF Step, CreateCredentials, Request
  <2> HIDE DEF d
  <2>2. QED
    BY <2>1 DEF PlainForm, SameStep, Clusters, RepositoryPaths, Names
<1>5. PlainForm(e(v)) /\ SameStep(e(v), e(w)) /\ ~Clusters(e(w))
  BY DEF PlainForm, SameStep, ForNode, Clusters, Step, ConnectionCertificate, Request, RepositoryPaths
<1>6. ClusterForm(f(v)) /\ SameStep(f(v), f(w))
  BY DEF ClusterForm, SameStep, ForNode, Step, CreateHACluster, Request
<1>7. PlanHA(t, v) = <<a(v), b, c(v), d, e(v), f(v)>> /\ PlanHA(t, w) = <<a(w), b, c(w), d, e(w), f(w)>>
  BY DEF PlanHA
<1> DEFINE p == <<a(v), b, c(v), d, e(v), f(v)>>
           q == <<a(w), b, c(w), d, e(w), f(w)>>
<1> HIDE DEF a, b, c, d, e, f
<1>8. /\ IsSeq(p) /\ Len(p) = 6 /\ p[1] = a(v) /\ p[2] = b /\ p[3] = c(v) /\ p[4] = d
      /\ p[5] = e(v) /\ p[6] = f(v)
  BY Six
<1>9. /\ IsSeq(q) /\ Len(q) = 6 /\ q[1] = a(w) /\ q[2] = b /\ q[3] = c(w) /\ q[4] = d
       /\ q[5] = e(w) /\ q[6] = f(w)
  BY Six
<1> HIDE DEF p, q
<1>10. \A i \in 1 .. 6 : i = 1 \/ i = 2 \/ i = 3 \/ i = 4 \/ i = 5 \/ i = 6
  OBVIOUS
<1>11. \A i \in 1 .. 6 : Formed(s, p[i], v) /\ SameStep(p[i], q[i])
  BY <1>1, <1>2, <1>3, <1>4, <1>5, <1>6, <1>8, <1>9, <1>10 DEF Formed
<1>12. Ordered(q)
  <2>1. \A i \in 1 .. 6 : Clusters(q[i]) => i = 6
    BY <1>1, <1>2, <1>3, <1>4, <1>5, <1>9, <1>10
  <2>2. 3 \in 1 .. Len(q) /\ 3 < 6 /\ Deletes(q[3])
    BY <1>3, <1>9
  <2>3. QED
    BY <1>9, <2>1, <2>2 DEF Ordered
<1>13. Matches(s, p, q, v)
  BY <1>8, <1>9, <1>11, <1>12 DEF Matches
<1>14. QED
  BY <1>7, <1>13 DEF p, q

\* The fields of a request.
Fields == {"method", "path", "body", "refs"}

\* What an EXCEPT below the body of a request leaves alone.
LEMMA Deeper ==
    ASSUME NEW g, DOMAIN g = Fields, NEW p
    PROVE  /\ [g EXCEPT !.body.connectionPoint = p].method = g.method
           /\ [g EXCEPT !.body.connectionPoint = p].path = g.path
           /\ [g EXCEPT !.body.account.servicePoint = p].method = g.method
           /\ [g EXCEPT !.body.account.servicePoint = p].path = g.path
           /\ {"name", "type"} \subseteq DOMAIN g.body =>
                 /\ [g EXCEPT !.body.account.servicePoint = p].body.name = g.body.name
                 /\ [g EXCEPT !.body.account.servicePoint = p].body.type = g.body.type
<1> DEFINE b == [g.body EXCEPT !.connectionPoint = p]
           a == [g.body.account EXCEPT !.servicePoint = p]
           c == [g.body EXCEPT !.account = a]
<1>1. [g EXCEPT !.body.connectionPoint = p] = [g EXCEPT !.body = b]
  BY Zenon
<1>2. [g EXCEPT !.body.account.servicePoint = p] = [g EXCEPT !.body = c]
  BY Zenon
<1>3. {"name", "type"} \subseteq DOMAIN g.body => c.name = g.body.name /\ c.type = g.body.type
  <2> HIDE DEF a
  <2> QED
    OBVIOUS
<1> HIDE DEF b, c
<1>4. [g EXCEPT !.body = b].method = g.method /\ [g EXCEPT !.body = b].path = g.path
  BY DEF Fields
<1>5. /\ [g EXCEPT !.body = c].method = g.method /\ [g EXCEPT !.body = c].path = g.path
      /\ [g EXCEPT !.body = c].body = c
  BY DEF Fields
<1>6. QED
  BY <1>1, <1>2, <1>3, <1>4, <1>5

\* A request for the S3 repository.
StoreReq(req, s3) ==
    /\ req.method = "POST" /\ req.path \in RepositoryPaths
    /\ req.path = IF s3.overwriteOwner THEN "repositories?overwriteOwner=true" ELSE "repositories"
    /\ req.body.name = s3.name /\ req.body.type # "LinuxHardened"

\* The request for the S3 repository carries its name, and its path whether an owner is overwritten.
LEMMA StoreRequest ==
    ASSUME NEW s3, NEW cred, NEW mount
    PROVE  StoreReq(s3RepoBody(s3, cred, mount), s3)
<1> DEFINE account == [credentialsId |-> cred, connectionSettings |-> "Direct"]
           body == IF s3.compatible
                   THEN [type |-> "S3Compatible",
                         account |-> Joined(account, [servicePoint |-> normalizeEndpoint(s3.servicePoint),
                                                      regionId |-> s3.region]),
                         bucket |-> S3Bucket(s3, <<>>)]
                   ELSE [type |-> "AmazonS3",
                         account |-> Joined(account, [regionType |-> "Global"]),
                         bucket |-> S3Bucket(s3, [regionId |-> s3.region])]
           named == Joined([name |-> s3.name, description |-> "autodeploy object storage"], body)
           whole == With(named, mount # NoId, LinuxMount(mount, FALSE, "/tmp"))
           add == AddS3Repository(s3, cred, mount)
<1>1. DOMAIN body = {"type", "account", "bucket"} /\ body.type # "LinuxHardened"
  OBVIOUS
<1> HIDE DEF body
<1>2. /\ named.name = s3.name /\ named.type = body.type
      /\ "name" \in DOMAIN named /\ "type" \in DOMAIN named
  BY <1>1 DEF Joined
<1> HIDE DEF named
<1>3. whole.name = s3.name /\ whole.type = body.type /\ {"name", "type"} \subseteq DOMAIN whole
  BY <1>2 DEF With, Joined
<1>4. add = Request("POST", IF s3.overwriteOwner THEN "repositories?overwriteOwner=true" ELSE "repositories",
                    whole, {cred, mount} \ {NoId})
  BY Zenon DEF AddS3Repository, whole, named, body
<1> HIDE DEF whole
<1>5. /\ add.method = "POST" /\ add.path \in RepositoryPaths /\ add.body = whole
      /\ add.path = (IF s3.overwriteOwner THEN "repositories?overwriteOwner=true" ELSE "repositories")
      /\ DOMAIN add = Fields
  BY <1>4 DEF Request, RepositoryPaths, Fields
<1>6. s3RepoBody(s3, cred, mount) =
         IF s3.compatible THEN [add EXCEPT !.body.account.servicePoint = s3.servicePoint] ELSE add
  BY Zenon DEF s3RepoBody
<1> HIDE DEF add
<1>7. QED
  BY <1>1, <1>3, <1>5, <1>6, Deeper DEF StoreReq

\* The steps of the object storage, and the one of them that makes the repository.
LEMMA S3Part ==
    ASSUME NEW s, NEW t, NEW v, NEW w, Like(t, s)
    PROVE  /\ Matches(s, PlanS3(t, v), PlanS3(t, w), v)
           /\ \E i \in 1 .. Len(PlanS3(t, w)) : Stores(PlanS3(t, w)[i])
<1> DEFINE pinned == t.s3.mountServerNode # ""
           folder(x) == NewS3CompatibleFolder(x.s3Cred, t.s3.servicePoint, t.s3.region, t.s3.bucket,
                                              t.s3.folder)
           a == Step("call", CreateCloudCredentials(t.s3.name), "s3Cred")
           b(x) == Step("call", [folder(x) EXCEPT !.body.connectionPoint = t.s3.servicePoint], "")
           c == Step("host", [NoReq EXCEPT !.body = t.s3.mountServerNode], "mountSrv")
           d == Step("host", [NoReq EXCEPT !.body = Head(VSAs(t)).ip], "mountSrv")
           e(x) == Step(IF pinned \/ VSAs(t) # <<>> THEN "create" ELSE "wait",
                        s3RepoBody(t.s3, x.s3Cred, IF pinned THEN x.mountSrv ELSE NoId), "")
           f(x) == IF t.s3.compatible /\ t.s3.folder # "" THEN <<b(x)>> ELSE <<>>
           m    == IF pinned THEN <<c>> ELSE IF VSAs(t) # <<>> THEN <<d>> ELSE <<>>
<1>1. t.s3 \in S3 /\ t.s3 = s.s3
  BY DEF Like, Specifications
<1>2. Matches(s, <<a>>, <<a>>, v)
  <2>1. t.s3.name \in Names
    BY <1>1 DEF S3, Names
  <2>2. /\ a.kind = "call" /\ a.var = "s3Cred" /\ a.req.method = "POST" /\ a.req.path = "cloudCredentials"
        /\ a.req.body.description = t.s3.name
    BY DEF Step, CreateCloudCredentials, Request
  <2> HIDE DEF a
  <2>3. PlainForm(a) /\ SameStep(a, a) /\ ~Clusters(a)
    BY <2>1, <2>2 DEF PlainForm, SameStep, Clusters, RepositoryPaths
  <2>4. QED
    BY <2>3, Single DEF Formed
<1>3. Matches(s, <<b(v)>>, <<b(w)>>, v)
  <2>1. ASSUME NEW x
        PROVE  b(x).kind = "call" /\ b(x).var = "" /\ b(x).req.method = "POST" /\ b(x).req.path = "newFolder"
    <3> DEFINE g == folder(x)
    <3>1. g.method = "POST" /\ g.path = "newFolder" /\ DOMAIN g = Fields
      BY DEF NewS3CompatibleFolder, Request, Fields
    <3> HIDE DEF g
    <3> DEFINE h == [g EXCEPT !.body.connectionPoint = t.s3.servicePoint]
    <3>2. h.method = "POST" /\ h.path = "newFolder"
      BY <3>1, Deeper
    <3> DEFINE y == b(x)
    <3>3. y = Step("call", h, "")
      BY Zenon DEF g
    <3> HIDE DEF h, y
    <3>4. y.kind = "call" /\ y.var = "" /\ y.req.method = "POST" /\ y.req.path = "newFolder"
      BY <3>2, <3>3 DEF Step
    <3>5. QED
      BY <3>4 DEF y
  <2> HIDE DEF b
  <2>2. PlainForm(b(v)) /\ SameStep(b(v), b(w)) /\ ~Clusters(b(w))
    BY <2>1 DEF PlainForm, SameStep, ForNode, Clusters, RepositoryPaths
  <2>3. QED
    BY <2>2, Single DEF Formed
<1>4. Matches(s, m, m, v)
  <2>1. ASSUME NEW n \in Names
        PROVE  LET z == Step("host", [NoReq EXCEPT !.body = n], "mountSrv") IN Matches(s, <<z>>, <<z>>, v)
    <3> DEFINE z == Step("host", [NoReq EXCEPT !.body = n], "mountSrv")
    <3>1. z.kind = "host" /\ z.var = "mountSrv" /\ z.req.body = n
      BY DEF Step, NoReq, Request
    <3> HIDE DEF z
    <3>2. LookUpForm(z) /\ SameStep(z, z) /\ ~Clusters(z)
      BY <3>1 DEF LookUpForm, SameStep, Clusters
    <3>3. Matches(s, <<z>>, <<z>>, v)
      BY <3>2, Single DEF Formed
    <3>4. QED
      BY <3>3 DEF z
  <2>2. t.s3.mountServerNode \in Names
    BY <1>1 DEF S3, Names
  <2>3. VSAs(t) # <<>> => Head(VSAs(t)).ip \in Names
    <3>1. VSAs(t) \in Seq(Nodes)
      BY Selected DEF Like
    <3>2. VSAs(t) # <<>> => Head(VSAs(t)) \in Nodes
      BY <3>1
    <3>3. QED
      BY <3>2 DEF Nodes, Names
  <2>4. Matches(s, <<c>>, <<c>>, v)
    BY <2>1, <2>2
  <2>5. VSAs(t) # <<>> => Matches(s, <<d>>, <<d>>, v)
    BY <2>1, <2>3
  <2> HIDE DEF c, d, pinned
  <2>6. QED
    BY <2>4, <2>5, Empty
<1>5. ASSUME NEW x
      PROVE  /\ e(x).kind \in {"create", "wait"} /\ e(x).var = ""
             /\ e(x).req.method = "POST" /\ e(x).req.path \in RepositoryPaths
             /\ e(x).req.body.name = s.s3.name /\ e(x).req.body.type # "LinuxHardened"
             /\ e(x).req.path = e(w).req.path /\ e(x).kind = e(w).kind
  <2> DEFINE r  == s3RepoBody(t.s3, x.s3Cred, IF pinned THEN x.mountSrv ELSE NoId)
             rw == s3RepoBody(t.s3, w.s3Cred, IF pinned THEN w.mountSrv ELSE NoId)
             k  == IF pinned \/ VSAs(t) # <<>> THEN "create" ELSE "wait"
             y  == e(x)
             yw == e(w)
  <2>1. StoreReq(r, t.s3) /\ StoreReq(rw, t.s3)
    BY StoreRequest
  <2>2. k \in {"create", "wait"}
    OBVIOUS
  <2>3. y = Step(k, r, "") /\ yw = Step(k, rw, "")
    OBVIOUS
  <2> HIDE DEF r, rw, k, y, yw
  <2>4. y.kind = k /\ y.var = "" /\ y.req = r /\ yw.kind = k /\ yw.req = rw
    BY <2>3 DEF Step
  <2>5. /\ y.kind \in {"create", "wait"} /\ y.var = ""
        /\ y.req.method = "POST" /\ y.req.path \in RepositoryPaths
        /\ y.req.body.name = s.s3.name /\ y.req.body.type # "LinuxHardened"
        /\ y.req.path = yw.req.path /\ y.kind = yw.kind
    BY <2>1, <2>2, <2>4, <1>1 DEF StoreReq
  <2>6. QED
    BY <2>5, Zenon DEF y, yw
<1> HIDE DEF e
<1>6. Stores(e(w)) /\ ~Clusters(e(w))
  BY <1>5 DEF Stores, Clusters, RepositoryPaths
<1>7. Matches(s, <<e(v)>>, <<e(w)>>, v)
  <2>1. StoreForm(s, e(v)) /\ SameStep(e(v), e(w))
    BY <1>5 DEF StoreForm, SameStep, ForNode
  <2>2. QED
    BY <1>6, <2>1, Single DEF Formed
<1> HIDE DEF a, b, c, d
<1>8. Matches(s, f(v), f(w), v)
  BY <1>3, Empty
<1>9. PlanS3(t, v) = <<a>> \o f(v) \o m \o <<e(v)>> /\ PlanS3(t, w) = <<a>> \o f(w) \o m \o <<e(w)>>
  BY Zenon DEF PlanS3, a, b, c, d, e
<1> HIDE DEF f, m
<1>10. Matches(s, <<a>> \o f(v) \o m, <<a>> \o f(w) \o m, v)
  <2>1. Matches(s, <<a>> \o f(v), <<a>> \o f(w), v)
    BY <1>2, <1>8, Joint
  <2>2. QED
    BY <2>1, <1>4, Joint
<1>11. Matches(s, PlanS3(t, v), PlanS3(t, w), v)
  BY <1>7, <1>9, <1>10, Joint
<1>12. \E i \in 1 .. Len(PlanS3(t, w)) : Stores(PlanS3(t, w)[i])
  <2> DEFINE p == <<a>> \o f(w) \o m
  <2>1. IsSeq(p) /\ IsSeq(<<e(w)>>)
    BY <1>7, <1>10 DEF Matches
  <2> HIDE DEF p
  <2>2. /\ Len(p \o <<e(w)>>) = Len(p) + 1 /\ Len(p) \in Nat
        /\ (p \o <<e(w)>>)[Len(p) + 1] = e(w)
    <3>1. Len(<<e(w)>>) = 1 /\ 1 \in 1 .. 1 /\ <<e(w)>>[1] = e(w)
      OBVIOUS
    <3>2. QED
      BY <2>1, <3>1, Concatenation
  <2>3. QED
    BY <2>2, <1>6, <1>9 DEF p
<1>13. QED
  BY <1>11, <1>12

\* Every step of p is one of q.
Within(p, q) == \A i \in 1 .. Len(p) : \E j \in 1 .. Len(q) : q[j] = p[i]

\* A part of a plan is within it.
LEMMA Parts ==
    ASSUME NEW p, IsSeq(p), NEW q, IsSeq(q)
    PROVE  Within(p, p \o q) /\ Within(q, p \o q)
<1> DEFINE r == p \o q
<1>1. /\ Len(r) = Len(p) + Len(q) /\ Len(p) \in Nat /\ Len(q) \in Nat
      /\ \A i \in 1 .. Len(p) : r[i] = p[i]
      /\ \A i \in 1 .. Len(q) : r[Len(p) + i] = q[i]
  BY Concatenation
<1> HIDE DEF r
<1>2. \A i \in 1 .. Len(p) : i \in 1 .. Len(r)
  BY <1>1
<1>3. \A i \in 1 .. Len(q) : Len(p) + i \in 1 .. Len(r)
  BY <1>1
<1>4. Within(p, r) /\ Within(q, r)
  BY <1>1, <1>2, <1>3 DEF Within
<1>5. QED
  BY <1>4 DEF r

\* A part of a part is a part.
LEMMA WithinTwice ==
    ASSUME NEW p, NEW q, NEW r, Within(p, q), Within(q, r)
    PROVE  Within(p, r)
<1> SUFFICES ASSUME NEW i \in 1 .. Len(p)
             PROVE  \E k \in 1 .. Len(r) : r[k] = p[i]
  BY DEF Within
<1>1. PICK j \in 1 .. Len(q) : q[j] = p[i]
  BY DEF Within
<1>2. PICK k \in 1 .. Len(r) : r[k] = q[j]
  BY DEF Within
<1>3. QED
  BY <1>1, <1>2

\* The step of a node.
NodesStep(st, n) == st.kind = (IF isHR(n) THEN "hr" ELSE "proxy") /\ st.node = n

\* Whatever the variables hold: each step has one of the forms, the outline of the plan is the
\* same, and the plan has a step for everything that is asked for.
LEMMA PlanFacts ==
    ASSUME NEW s \in Specifications, NEW v, NEW w
    PROVE  /\ Matches(s, Plan(s, v), Plan(s, w), v)
           /\ \A n \in NodesOf(s) :
                 ~isVSA(n) => \E i \in 1 .. Len(Plan(s, w)) : NodesStep(Plan(s, w)[i], n)
           /\ Len(VSAs(s)) > 1 => \E i \in 1 .. Len(Plan(s, w)) : Clusters(Plan(s, w)[i])
           /\ HasS3(s) => \E i \in 1 .. Len(Plan(s, w)) : Stores(Plan(s, w)[i])
<1> DEFINE t    == applyDefaults(s)
           via  == VIAs(t)
           L    == PlanLicense(t)
           M    == PlanMount(t)
           N(x) == [i \in 1 .. Len(via) |-> PlanNode(t, via[i], x)]
           H(x) == IF Len(VSAs(t)) < 2 THEN <<>> ELSE PlanHA(t, x)
           X    == IF t.exporter THEN PlanExporter(t) ELSE <<>>
           Y    == IF t.syslog = "" THEN <<>> ELSE PlanSyslog(t)
           S(x) == IF HasS3(t) THEN PlanS3(t, x) ELSE <<>>
<1>1. Like(t, s)
  BY Defaults DEF Like
<1>2. /\ Matches(s, L, L, v) /\ Matches(s, M, M, v) /\ Matches(s, N(v), N(w), v)
      /\ Matches(s, X, X, v) /\ Matches(s, Y, Y, v)
  <2>1. Matches(s, L, L, v) /\ Matches(s, M, M, v) /\ Matches(s, N(v), N(w), v)
    BY <1>1, LicensePart, MountPart, NodesPart
  <2>2. Matches(s, X, X, v) /\ Matches(s, Y, Y, v)
    BY ExporterPart, SyslogPart, Empty
  <2>3. QED
    BY <2>1, <2>2
<1>3. Matches(s, H(v), H(w), v) /\ Matches(s, S(v), S(w), v)
  BY <1>1, HAPart, S3Part, Empty
<1>4. /\ Plan(s, v) = L \o M \o N(v) \o H(v) \o X \o Y \o S(v)
      /\ Plan(s, w) = L \o M \o N(w) \o H(w) \o X \o Y \o S(w)
  BY Zenon DEF Plan
<1>5. \A n \in NodesOf(s) : ~isVSA(n) => \E i \in 1 .. Len(N(w)) : NodesStep(N(w)[i], n)
  <2> SUFFICES ASSUME NEW n \in NodesOf(s), ~isVSA(n)
               PROVE  \E i \in 1 .. Len(N(w)) : NodesStep(N(w)[i], n)
    OBVIOUS
  <2>1. PICK k \in 1 .. Len(via) : via[k] = n
    <3>1. via = VIAs(s)
      BY <1>1 DEF Like
    <3>2. \E k \in 1 .. Len(VIAs(s)) : VIAs(s)[k] = n
      BY Selected
    <3>3. QED
      BY <3>1, <3>2
  <2>2. Len(via) \in Nat
    <3>1. via \in Seq(NodesOf(s) \cap Nodes)
      BY <1>1, Selected DEF Like
    <3> HIDE DEF via
    <3>2. QED
      BY <3>1
  <2> HIDE DEF via
  <2>3. Len(N(w)) = Len(via) /\ N(w)[k] = PlanNode(t, n, w)
    BY <2>1, <2>2
  <2>4. NodesStep(PlanNode(t, n, w), n)
    BY DEF NodesStep, PlanNode, NodeStep
  <2>5. QED
    BY <2>3, <2>4
<1>6. Len(VSAs(s)) > 1 => \E i \in 1 .. Len(H(w)) : Clusters(H(w)[i])
  <2> SUFFICES ASSUME Len(VSAs(s)) > 1
               PROVE  \E i \in 1 .. Len(H(w)) : Clusters(H(w)[i])
    OBVIOUS
  <2>1. H(w) = PlanHA(t, w)
    <3>1. Len(VSAs(t)) > 1 /\ Len(VSAs(t)) \in Nat
      BY <1>1, Selected DEF Like
    <3>2. QED
      BY <3>1
  <2> DEFINE p == PlanHA(t, w)
             vsa == VSAs(t)
             f == Step("wait", CreateHACluster(vsa[1].ip, vsa[2].ip, w.haCred, t.dns, t.endpoint), "")
  <2>2. Len(p) = 6 /\ p[6] = f
    BY Six DEF PlanHA
  <2>3. Clusters(f)
    BY DEF Clusters, Step, CreateHACluster, Request
  <2> HIDE DEF p, f
  <2>4. \E i \in 1 .. Len(p) : Clusters(p[i])
    BY <2>2, <2>3
  <2>5. QED
    BY <2>1, <2>4 DEF p
<1>7. HasS3(s) => \E i \in 1 .. Len(S(w)) : Stores(S(w)[i])
  BY <1>1, S3Part DEF HasS3, Like
<1> HIDE DEF t, via, L, M, N, H, X, Y, S
<1> DEFINE c1    == L \o M
           c2(x) == c1 \o N(x)
           c3(x) == c2(x) \o H(x)
           c4(x) == c3(x) \o X
           c5(x) == c4(x) \o Y
           c6(x) == c5(x) \o S(x)
<1>8. Matches(s, c1, c1, v)
  BY <1>2, Joint
<1>9. Matches(s, c2(v), c2(w), v)
  <2> HIDE DEF c1
  <2> QED
    BY <1>2, <1>8, Joint
<1>10. Matches(s, c3(v), c3(w), v)
  <2> HIDE DEF c2
  <2> QED
    BY <1>3, <1>9, Joint
<1>11. Matches(s, c4(v), c4(w), v)
  <2> HIDE DEF c3
  <2> QED
    BY <1>2, <1>10, Joint
<1>12. Matches(s, c5(v), c5(w), v)
  <2> HIDE DEF c4
  <2> QED
    BY <1>2, <1>11, Joint
<1>13. Matches(s, c6(v), c6(w), v)
  <2> HIDE DEF c5
  <2> QED
    BY <1>3, <1>12, Joint
<1>14. Plan(s, v) = c6(v) /\ Plan(s, w) = c6(w)
  BY <1>4
<1> DEFINE d1 == c1
           d2 == c2(w)
           d3 == c3(w)
           d4 == c4(w)
           d5 == c5(w)
           d6 == c6(w)
           n == N(w)
           h == H(w)
           z == S(w)
<1>15. /\ d2 = d1 \o n /\ d3 = d2 \o h /\ d4 = d3 \o X /\ d5 = d4 \o Y /\ d6 = d5 \o z
  OBVIOUS
<1>16. IsSeq(d1) /\ IsSeq(d2) /\ IsSeq(d3) /\ IsSeq(d4) /\ IsSeq(d5) /\ IsSeq(n) /\ IsSeq(h) /\ IsSeq(X)
       /\ IsSeq(Y) /\ IsSeq(z)
  <2> HIDE DEF c1, c2, c3, c4, c5, c6
  <2> QED
    BY <1>2, <1>3, <1>8, <1>9, <1>10, <1>11, <1>12, Zenon DEF Matches
<1> HIDE DEF d1, d2, d3, d4, d5, d6, n, h, z
<1>17. /\ Within(n, d2) /\ Within(d2, d3) /\ Within(h, d3) /\ Within(d3, d4) /\ Within(d4, d5)
       /\ Within(d5, d6) /\ Within(z, d6)
  <2>1. Within(n, d2)
    BY <1>15, <1>16, Parts
  <2>2. Within(d2, d3) /\ Within(h, d3)
    BY <1>15, <1>16, Parts
  <2>3. Within(d3, d4)
    BY <1>15, <1>16, Parts
  <2>4. Within(d4, d5)
    BY <1>15, <1>16, Parts
  <2>5. Within(d5, d6) /\ Within(z, d6)
    BY <1>15, <1>16, Parts
  <2>6. QED
    BY <2>1, <2>2, <2>3, <2>4, <2>5
<1>18. Within(n, d6) /\ Within(h, d6) /\ Within(z, d6)
  <2>1. Within(d3, d6)
    <3>1. Within(d4, d6)
      BY <1>17, WithinTwice
    <3>2. QED
      BY <3>1, <1>17, WithinTwice
  <2>2. Within(d2, d6)
    BY <2>1, <1>17, WithinTwice
  <2>3. QED
    BY <2>1, <2>2, <1>17, WithinTwice
<1>19. \A m \in NodesOf(s) : ~isVSA(m) => \E i \in 1 .. Len(d6) : NodesStep(d6[i], m)
  <2> SUFFICES ASSUME NEW m \in NodesOf(s), ~isVSA(m)
               PROVE  \E i \in 1 .. Len(d6) : NodesStep(d6[i], m)
    OBVIOUS
  <2>1. PICK i \in 1 .. Len(n) : NodesStep(n[i], m)
    BY <1>5 DEF n
  <2>2. PICK j \in 1 .. Len(d6) : d6[j] = n[i]
    BY <1>18 DEF Within
  <2>3. QED
    BY <2>1, <2>2
<1>20. Len(VSAs(s)) > 1 => \E i \in 1 .. Len(d6) : Clusters(d6[i])
  <2> SUFFICES ASSUME Len(VSAs(s)) > 1
               PROVE  \E i \in 1 .. Len(d6) : Clusters(d6[i])
    OBVIOUS
  <2>1. PICK i \in 1 .. Len(h) : Clusters(h[i])
    BY <1>6 DEF h
  <2>2. PICK j \in 1 .. Len(d6) : d6[j] = h[i]
    BY <1>18 DEF Within
  <2>3. QED
    BY <2>1, <2>2
<1>21. HasS3(s) => \E i \in 1 .. Len(d6) : Stores(d6[i])
  <2> SUFFICES ASSUME HasS3(s)
               PROVE  \E i \in 1 .. Len(d6) : Stores(d6[i])
    OBVIOUS
  <2>1. PICK i \in 1 .. Len(z) : Stores(z[i])
    BY <1>7 DEF z
  <2>2. PICK j \in 1 .. Len(d6) : d6[j] = z[i]
    BY <1>18 DEF Within
  <2>3. QED
    BY <2>1, <2>2
<1>22. Plan(s, w) = d6
  BY <1>14 DEF d6
<1>23. Matches(s, Plan(s, v), Plan(s, w), v)
  BY <1>13, <1>14
<1>24. QED
  BY <1>19, <1>20, <1>21, <1>22, <1>23

-----------------------------------------------------------------------------
(* The invariant. *)

\* The phases of a step, and the server.
Phases == {"start", "stopped", "hostWait", "part", "create", "update", "wait"}
Things == [obj : {"repo", "proxy", "cluster"}, of : Names]
Server == [self : Names, hosts : SUBSET Names, repos : SUBSET Names, proxies : Seq(Names),
           creds : SUBSET Ids, target : Ids, backups : Seq(Names), cluster : BOOLEAN,
           license : {"none", "valid", "installed"}, stopped : SUBSET Things]

\* The types of all variables.
Typed ==
    /\ spec \in Specs /\ shell \in Shells
    /\ at \in Nat \ {0} /\ phase \in Phases
    /\ tries \in Nat /\ runs \in Nat /\ faults \in Nat
    /\ env \in [Variables -> Ids] /\ IsSeq(sent) /\ vbr \in Server

\* The plan with no variable set.
Outline == Plan(spec, [x \in Variables |-> NullId])
Aim     == Outline[at]

\* What a step that the script has passed has brought about on the server e.
Achieved(e, st) ==
    /\ ForNode(st) => st.node.ip \in e.hosts
    /\ st.kind = "hr" => RepoName(spec, st.node) \in e.repos
    /\ st.kind = "proxy" => \E k \in DOMAIN e.proxies : e.proxies[k] = st.node.ip
    /\ Clusters(st) => e.cluster
    /\ Stores(st) => spec.s3.name \in e.repos
    /\ Deletes(st) /\ Throws => DefaultRepo \notin e.repos

\* Unless its session was stopped: then there is the host at least.
Settled(e, st) ==
    \/ Achieved(e, st)
    \/ Made(st) \in e.stopped /\ (ForNode(st) => st.node.ip \in e.hosts) /\ ~Deletes(st)

\* Every step that the script has passed.
Done == \A i \in 1 .. Len(Outline) : i < at => Settled(vbr, Outline[i])

\* Which steps go through which phases.
Passes(p, st) ==
    /\ p \in {"hostWait", "part"} => ForNode(st)
    /\ p \in {"create", "update"} => ForNode(st) \/ st.kind = "create"
    /\ p = "wait" => ForNode(st) \/ st.kind \in {"create", "wait"}

\* The script is in the plan, and in a phase that its step has.
Placed ==
    /\ at <= Len(Outline) + 1
    /\ phase # "start" => at <= Len(Outline) /\ Passes(phase, Aim)

\* What the lookups of a node's step have found, in phase p and on the server e.
Found(p, e) ==
    /\ p \in {"part", "create", "update", "wait"} /\ ForNode(Aim) => Aim.node.ip \in e.hosts
    /\ p \in {"create", "update", "wait"} /\ Aim.kind = "hr" /\ Throws
         => RepoName(spec, Aim.node) \notin e.repos

\* What the script's variables for repositories hold.
Captured ==
    /\ env.repo = NullId \/ (env.repo.obj = "repo" /\ env.repo.of # DefaultRepo)
    /\ env.defaultRepo \in {NullId, RepoId(DefaultRepo)}

\* The configuration backup has a repository, and an id of credentials is not one of something else.
Sound(e) ==
    /\ e.target.obj = "repo" /\ e.target.of \in e.repos
    /\ \A id \in e.creds : id.obj \in {"credentials", "cloudCredentials"}

\* The cluster comes after the removal of the default repository.
Backed == Sound(vbr) /\ (vbr.cluster /\ Throws => DefaultRepo \notin vbr.repos)

\* The inductive invariant.
CraftInv == Typed /\ Done /\ Placed /\ Found(phase, vbr) /\ Captured /\ Backed

-----------------------------------------------------------------------------
(* What a request does to the server. *)

\* No repository that the plan makes has the name of the default one.
LEMMA NamesApart ==
    ASSUME spec \in Specs
    PROVE  /\ spec \in Specifications /\ spec.s3.name \in Names /\ spec.s3.name # DefaultRepo
           /\ \A n \in NodesOf(spec) \cap Nodes :
                 RepoName(spec, n) \in Names /\ RepoName(spec, n) # DefaultRepo /\ n.ip \in Names
<1>1. spec \in Specifications /\ spec.s3.name # DefaultRepo
  BY CraftAssumption
<1>2. spec.s3.name \in Names
  BY <1>1 DEF Specifications, S3, Names
<1>3. ASSUME NEW n \in NodesOf(spec) \cap Nodes
      PROVE  RepoName(spec, n) \in Names /\ RepoName(spec, n) # DefaultRepo /\ n.ip \in Names
  <2>1. n.ip \in STRING /\ n.name \in STRING
    BY DEF Nodes
  <2>2. n.ip # DefaultRepo /\ n.name # DefaultRepo
    <3>1. PICK i \in DOMAIN spec.nodes : n = spec.nodes[i]
      BY DEF NodesOf
    <3>2. DefaultRepo \notin {spec.nodes[i].ip, spec.nodes[i].name}
      BY CraftAssumption
    <3>3. QED
      BY <3>1, <3>2
  <2>3. RepoName(spec, n) \in {n.ip, n.name}
    <3>1. nodeName(n) \in {n.ip, n.name}
      BY DEF nodeName
    <3>2. RepoName(spec, n) \in {n.ip, nodeName(n)}
      BY Zenon DEF RepoName
    <3>3. QED
      BY <3>1, <3>2
  <2>4. QED
    BY <2>1, <2>2, <2>3 DEF Names
<1>4. QED
  BY <1>1, <1>2, <1>3

\* What never goes back.
Grown(a, e) ==
    /\ a.hosts \subseteq e.hosts /\ a.repos \ {DefaultRepo} \subseteq e.repos
    /\ DefaultRepo \in e.repos => DefaultRepo \in a.repos
    /\ \A k \in DOMAIN a.proxies : k \in DOMAIN e.proxies /\ e.proxies[k] = a.proxies[k]
    /\ (a.cluster => e.cluster) /\ a.stopped \subseteq e.stopped

\* A server that a step may leave.
Served(e) == e \in Server /\ Grown(vbr, e) /\ Sound(e)

\* A step may leave the server as it is.
LEMMA Unserved ==
    ASSUME Typed, Backed
    PROVE  Served(vbr)
BY DEF Served, Grown, Typed, Backed

\* A repository more.
LEMMA AddsRepo ==
    ASSUME Typed, Backed, NEW n \in Names, n # DefaultRepo
    PROVE  LET e == [vbr EXCEPT !.repos = @ \cup {n}] IN
           Served(e) /\ n \in e.repos /\ e.cluster = vbr.cluster /\ e.hosts = vbr.hosts
<1> DEFINE e == [vbr EXCEPT !.repos = @ \cup {n}]
<1>1. vbr \in Server
  BY DEF Typed
<1>2. /\ e.repos = vbr.repos \cup {n} /\ e.hosts = vbr.hosts /\ e.cluster = vbr.cluster
      /\ e.proxies = vbr.proxies /\ e.target = vbr.target /\ e.creds = vbr.creds
      /\ e.stopped = vbr.stopped
  BY <1>1 DEF Server
<1>3. e \in Server
  BY <1>1 DEF Server
<1> HIDE DEF e
<1>4. Grown(vbr, e)
  BY <1>2 DEF Grown
<1>5. Sound(e)
  BY <1>2 DEF Backed, Sound
<1>6. QED
  BY <1>2, <1>3, <1>4, <1>5 DEF Served, e

\* A host more.
LEMMA AddsHost ==
    ASSUME Typed, Backed, NEW n \in Names
    PROVE  /\ Served(Host(n)) /\ n \in Host(n).hosts /\ Host(n).cluster = vbr.cluster
           /\ Host(n).repos = vbr.repos
<1> DEFINE e == [vbr EXCEPT !.hosts = @ \cup {n}]
<1>1. vbr \in Server
  BY DEF Typed
<1>2. /\ e.hosts = vbr.hosts \cup {n} /\ e.repos = vbr.repos /\ e.cluster = vbr.cluster
      /\ e.proxies = vbr.proxies /\ e.target = vbr.target /\ e.creds = vbr.creds
      /\ e.stopped = vbr.stopped
  BY <1>1 DEF Server
<1>3. e \in Server
  BY <1>1 DEF Server
<1> HIDE DEF e
<1>4. Grown(vbr, e)
  BY <1>2 DEF Grown
<1>5. Sound(e)
  BY <1>2 DEF Backed, Sound
<1>6. Served(e) /\ n \in e.hosts /\ e.cluster = vbr.cluster /\ e.repos = vbr.repos
  BY <1>2, <1>3, <1>4, <1>5 DEF Served
<1>7. QED
  BY <1>6 DEF Host, e

\* A proxy more.
LEMMA AddsProxy ==
    ASSUME Typed, Backed, NEW n \in Names
    PROVE  LET e == [vbr EXCEPT !.proxies = Append(@, n)] IN
           Served(e) /\ (\E k \in DOMAIN e.proxies : e.proxies[k] = n) /\ e.cluster = vbr.cluster
           /\ e.hosts = vbr.hosts
<1> DEFINE e == [vbr EXCEPT !.proxies = Append(@, n)]
           q == Append(vbr.proxies, n)
<1>1. vbr \in Server /\ vbr.proxies \in Seq(Names)
  BY DEF Typed, Server
<1>2. /\ q \in Seq(Names) /\ Len(q) \in DOMAIN q /\ q[Len(q)] = n
      /\ \A k \in DOMAIN vbr.proxies : k \in DOMAIN q /\ q[k] = vbr.proxies[k]
  BY <1>1
<1>3. e = [vbr EXCEPT !.proxies = q]
  BY Zenon
<1> HIDE DEF e, q
<1>4. /\ e.hosts = vbr.hosts /\ e.repos = vbr.repos /\ e.cluster = vbr.cluster
      /\ e.proxies = q /\ e.target = vbr.target /\ e.creds = vbr.creds /\ e.stopped = vbr.stopped
  BY <1>1, <1>3 DEF Server
<1>5. e \in Server
  BY <1>1, <1>2, <1>3 DEF Server
<1>6. Grown(vbr, e)
  BY <1>2, <1>4 DEF Grown
<1>7. Sound(e)
  BY <1>4 DEF Backed, Sound
<1>8. QED
  BY <1>2, <1>4, <1>5, <1>6, <1>7 DEF Served, e

\* The cluster.
LEMMA AddsCluster ==
    ASSUME Typed, Backed
    PROVE  LET e == [vbr EXCEPT !.cluster = TRUE] IN Served(e) /\ e.cluster
<1> DEFINE e == [vbr EXCEPT !.cluster = TRUE]
<1>1. vbr \in Server
  BY DEF Typed
<1>2. /\ e.hosts = vbr.hosts /\ e.repos = vbr.repos /\ e.cluster = TRUE
      /\ e.proxies = vbr.proxies /\ e.target = vbr.target /\ e.creds = vbr.creds
      /\ e.stopped = vbr.stopped
  BY <1>1 DEF Server
<1>3. e \in Server
  BY <1>1 DEF Server
<1> HIDE DEF e
<1>4. Grown(vbr, e)
  BY <1>2 DEF Grown
<1>5. Sound(e)
  BY <1>2 DEF Backed, Sound
<1>6. QED
  BY <1>2, <1>3, <1>4, <1>5 DEF Served, e

\* Credentials more.
LEMMA AddsCredentials ==
    ASSUME Typed, Backed, NEW id \in Ids, id.obj \in {"credentials", "cloudCredentials"}
    PROVE  LET e == [vbr EXCEPT !.creds = @ \cup {id}] IN Served(e) /\ e.cluster = vbr.cluster
<1> DEFINE e == [vbr EXCEPT !.creds = @ \cup {id}]
<1>1. vbr \in Server
  BY DEF Typed
<1>2. /\ e.hosts = vbr.hosts /\ e.repos = vbr.repos /\ e.cluster = vbr.cluster
      /\ e.proxies = vbr.proxies /\ e.target = vbr.target /\ e.creds = vbr.creds \cup {id}
      /\ e.stopped = vbr.stopped
  BY <1>1 DEF Server
<1>3. e \in Server
  <2> HIDE DEF Ids
  <2> QED
    BY <1>1 DEF Server
<1> HIDE DEF e
<1>4. Grown(vbr, e)
  BY <1>2 DEF Grown
<1>5. Sound(e)
  BY <1>2 DEF Backed, Sound
<1>6. QED
  BY <1>2, <1>3, <1>4, <1>5 DEF Served, e

\* A license.
LEMMA Licenses ==
    ASSUME Typed, Backed, NEW l \in {"none", "valid", "installed"}
    PROVE  LET e == [vbr EXCEPT !.license = l] IN Served(e) /\ e.cluster = vbr.cluster
<1> DEFINE e == [vbr EXCEPT !.license = l]
<1>1. vbr \in Server
  BY DEF Typed
<1>2. /\ e.hosts = vbr.hosts /\ e.repos = vbr.repos /\ e.cluster = vbr.cluster
      /\ e.proxies = vbr.proxies /\ e.target = vbr.target /\ e.creds = vbr.creds
      /\ e.stopped = vbr.stopped
  BY <1>1 DEF Server
<1>3. e \in Server
  BY <1>1 DEF Server
<1> HIDE DEF e
<1>4. Grown(vbr, e)
  BY <1>2 DEF Grown
<1>5. Sound(e)
  BY <1>2 DEF Backed, Sound
<1>6. QED
  BY <1>2, <1>3, <1>4, <1>5 DEF Served, e

\* A session that is stopped.
LEMMA Stops ==
    ASSUME Typed, Backed, NEW m \in Things
    PROVE  LET e == [vbr EXCEPT !.stopped = @ \cup {m}] IN
           /\ Served(e) /\ e.cluster = vbr.cluster /\ e.hosts = vbr.hosts /\ m \in e.stopped
           /\ e.self = vbr.self /\ e.backups = vbr.backups /\ e.license = vbr.license
<1> DEFINE e == [vbr EXCEPT !.stopped = @ \cup {m}]
<1>1. vbr \in Server
  BY DEF Typed
<1>2. /\ e.hosts = vbr.hosts /\ e.repos = vbr.repos /\ e.cluster = vbr.cluster
      /\ e.proxies = vbr.proxies /\ e.target = vbr.target /\ e.creds = vbr.creds
      /\ e.stopped = vbr.stopped \cup {m}
      /\ e.self = vbr.self /\ e.backups = vbr.backups /\ e.license = vbr.license
  BY <1>1 DEF Server
<1>3. e \in Server
  <2> HIDE DEF Things
  <2> QED
    BY <1>1 DEF Server
<1> HIDE DEF e
<1>4. Grown(vbr, e)
  BY <1>2 DEF Grown
<1>5. Sound(e)
  BY <1>2 DEF Backed, Sound
<1>6. QED
  BY <1>2, <1>3, <1>4, <1>5 DEF Served, e

\* The configuration backup goes to a repository that is there.
LEMMA Targets ==
    ASSUME Typed, Backed, NEW id \in Ids, id.obj = "repo", id.of \in vbr.repos
    PROVE  LET e == [vbr EXCEPT !.target = id] IN Served(e) /\ e.cluster = vbr.cluster
<1> DEFINE e == [vbr EXCEPT !.target = id]
<1>1. vbr \in Server
  BY DEF Typed
<1>2. /\ e.hosts = vbr.hosts /\ e.repos = vbr.repos /\ e.cluster = vbr.cluster
      /\ e.proxies = vbr.proxies /\ e.target = id /\ e.creds = vbr.creds /\ e.stopped = vbr.stopped
  BY <1>1 DEF Server
<1>3. e \in Server
  BY <1>1 DEF Server
<1> HIDE DEF e
<1>4. Grown(vbr, e)
  BY <1>2 DEF Grown
<1>5. Sound(e)
  BY <1>2 DEF Backed, Sound
<1>6. QED
  BY <1>2, <1>3, <1>4, <1>5 DEF Served, e

\* An id is its two fields.
LEMMA Pairs ==
    ASSUME NEW A, NEW B, NEW id \in [obj : A, of : B]
    PROVE  id = [obj |-> id.obj, of |-> id.of]
OBVIOUS

\* The default repository goes, unless the configuration backup is on it.
LEMMA RemovesDefault ==
    ASSUME Typed, Backed, vbr.target # RepoId(DefaultRepo)
    PROVE  LET e == [vbr EXCEPT !.repos = @ \ {DefaultRepo}] IN
           Served(e) /\ e.cluster = vbr.cluster /\ DefaultRepo \notin e.repos
<1> DEFINE e == [vbr EXCEPT !.repos = @ \ {DefaultRepo}]
<1>1. vbr \in Server /\ vbr.target \in Ids
  BY DEF Typed, Server
<1>2. /\ e.hosts = vbr.hosts /\ e.repos = vbr.repos \ {DefaultRepo} /\ e.cluster = vbr.cluster
      /\ e.proxies = vbr.proxies /\ e.target = vbr.target /\ e.creds = vbr.creds
      /\ e.stopped = vbr.stopped
  BY <1>1 DEF Server
<1>3. e \in Server
  BY <1>1 DEF Server
<1> HIDE DEF e
<1>4. Grown(vbr, e)
  BY <1>2 DEF Grown
<1>5. vbr.target.of # DefaultRepo
  <2>1. \A id \in Ids : id.obj = "repo" /\ id.of = DefaultRepo => id = RepoId(DefaultRepo)
    <3>1. \A id \in Ids : id = [obj |-> id.obj, of |-> id.of]
      BY Pairs DEF Ids
    <3>2. QED
      BY <3>1, Zenon DEF RepoId, Id
  <2>2. QED
    BY <1>1, <2>1 DEF Backed, Sound
<1>6. Sound(e)
  BY <1>2, <1>5 DEF Backed, Sound
<1>7. QED
  BY <1>2, <1>3, <1>4, <1>6 DEF Served, e

-----------------------------------------------------------------------------
(* The effect of each form of request. *)

\* Only a step that makes the cluster makes one.
Brings(e, st) == Served(e) /\ (e.cluster => vbr.cluster \/ Clusters(st))
                 /\ ((ForNode(st) => st.node.ip \in vbr.hosts) => Achieved(e, st))

\* The arms of Effect for a plain call.
LEMMA PlainArms ==
    ASSUME NEW req, req.method # "DELETE",
           req.path \notin {"configBackup", "managedServers", "proxies", "highAvailabilityCluster"}
                           \cup RepositoryPaths
    PROVE  LET id == Created(req)
               l  == IF vbr.license = "none" THEN "installed" ELSE vbr.license
           IN Effect(req) = IF req.path = "license/install" THEN [vbr EXCEPT !.license = l]
                            ELSE IF id # NullId THEN [vbr EXCEPT !.creds = @ \cup {id}] ELSE vbr
<1>1. CASE req.path = "license/install"
  <2>1. Created(req) = NullId
    BY <1>1 DEF Created
  <2>2. QED
    BY <1>1, <2>1 DEF Effect
<1>2. CASE req.path # "license/install"
  BY <1>2, Zenon DEF Effect, RepositoryPaths
<1>3. QED
  BY <1>1, <1>2

\* A plain call brings credentials or a license at most.
LEMMA PlainEffect ==
    ASSUME Typed, Captured, Backed, NEW st, PlainForm(st)
    PROVE  Brings(Effect(st.req), st) /\ Created(st.req) \in Ids
<1> DEFINE req == st.req
           e == Effect(req)
           id == Created(req)
<1>1. /\ req.method # "DELETE"
      /\ req.path \notin {"configBackup", "managedServers", "proxies", "highAvailabilityCluster"}
                         \cup RepositoryPaths
  BY DEF PlainForm
<1>2. id \in Ids /\ (id # NullId => id.obj \in {"credentials", "cloudCredentials"})
  <2>1. CASE req.path = "credentials"
    <3>1. id = Id("credentials", req.body.description) /\ req.body.description \in Names
      BY <2>1 DEF Created, PlainForm
    <3> HIDE DEF req, id
    <3>2. QED
      BY <3>1 DEF Id, Ids
  <2>2. CASE req.path = "cloudCredentials"
    <3>1. id = Id("cloudCredentials", req.body.description) /\ req.body.description \in Names
      BY <2>2 DEF Created, PlainForm
    <3> HIDE DEF req, id
    <3>2. QED
      BY <3>1 DEF Id, Ids
  <2>3. CASE req.path \notin {"credentials", "cloudCredentials"}
    <3>1. id = NullId
      BY <2>3 DEF Created
    <3>2. NullId \in Ids
      BY DEF NullId, Id, Ids, Names
    <3>3. QED
      BY <3>1, <3>2
  <2>4. QED
    BY <2>1, <2>2, <2>3
<1> DEFINE l == IF vbr.license = "none" THEN "installed" ELSE vbr.license
<1>3. e = IF req.path = "license/install" THEN [vbr EXCEPT !.license = l]
          ELSE IF id # NullId THEN [vbr EXCEPT !.creds = @ \cup {id}] ELSE vbr
  BY <1>1, PlainArms DEF RepositoryPaths
<1>30. l \in {"none", "valid", "installed"}
  BY DEF Typed, Server
<1> HIDE DEF req, e, id, l
<1>4. Served(e) /\ e.cluster = vbr.cluster
  BY <1>2, <1>3, <1>30, AddsCredentials, Licenses, Unserved
<1>5. st.kind = "call" /\ ~Deletes(st)
  BY <1>1 DEF PlainForm, Deletes, req
<1>6. Achieved(e, st)
  BY <1>5 DEF Achieved, ForNode, Clusters, Stores
<1>7. QED
  BY <1>2, <1>4, <1>6 DEF Brings, req, e, id

\* An accepted redirection names a repository: an unset variable names none.
LEMMA RedirectEffect ==
    ASSUME Typed, Captured, Backed, NEW st, RedirectForm(st, env), Accepts(st.req)
    PROVE  Brings(Effect(st.req), st) /\ Created(st.req) = NullId
<1> DEFINE req == st.req
           e == Effect(req)
<1>0. req = RedirectConfigBackup(env.repo)
  BY DEF RedirectForm
<1> HIDE DEF req
<1>1. /\ req.method = "PUT" /\ req.path = "configBackup" /\ req.refs = {env.repo}
      /\ req.body.backupRepositoryId = env.repo
  BY <1>0 DEF RedirectConfigBackup, Request
<1>2. Created(req) = NullId
  BY <1>1 DEF Created
<1>3. e = [vbr EXCEPT !.target = env.repo]
  BY <1>1, <1>2 DEF Effect
<1>4. Knows(env.repo)
  BY <1>1 DEF Accepts, req
<1> HIDE DEF e
<1>5. env.repo \in Ids /\ env.repo.obj = "repo" /\ env.repo.of \in vbr.repos
  <2>1. env.repo \in Ids
    BY DEF Typed, Variables
  <2>2. NullId.obj = "null"
    BY DEF NullId, Id
  <2>3. env.repo \notin vbr.creds
    BY <2>2 DEF Captured, Backed, Sound
  <2>4. QED
    BY <1>4, <2>1, <2>2, <2>3 DEF Knows, Captured
<1>6. Served(e) /\ e.cluster = vbr.cluster
  BY <1>3, <1>5, Targets
<1>7. Achieved(e, st)
  BY DEF Achieved, ForNode, Clusters, Stores, Deletes, RedirectForm
<1>8. QED
  BY <1>2, <1>6, <1>7 DEF Brings, req, e

\* An accepted removal is that of the default repository: an unset variable names none.
LEMMA RemovalEffect ==
    ASSUME Typed, Captured, Backed, NEW st, RemovalForm(st, env), Accepts(st.req)
    PROVE  Brings(Effect(st.req), st) /\ Created(st.req) = NullId
<1> DEFINE req == st.req
           e == Effect(req)
<1>0. req = DeleteRepository(env.defaultRepo)
  BY DEF RemovalForm
<1> HIDE DEF req
<1>1. /\ req.method = "DELETE" /\ req.path = "repositories" /\ req.refs = {env.defaultRepo}
      /\ req.body.id = env.defaultRepo
  BY <1>0 DEF DeleteRepository, Request
<1>2. Created(req) = NullId
  BY <1>1 DEF Created
<1>3. e = [vbr EXCEPT !.repos = @ \ {env.defaultRepo.of}]
  <2>1. req.method # "POST" /\ req.path \notin {"configBackup", "managedServers", "proxies",
                                                "highAvailabilityCluster", "license/install"}
    BY <1>1
  <2>2. e = [vbr EXCEPT !.repos = @ \ {req.body.id.of}]
    BY <1>1, <1>2, <2>1, Zenon DEF Effect
  <2>3. QED
    BY <1>1, <2>2, Zenon
<1>4. Knows(env.defaultRepo) /\ vbr.target # env.defaultRepo
  BY <1>1 DEF Accepts, req
<1> HIDE DEF e
<1>5. env.defaultRepo = RepoId(DefaultRepo)
  <2>1. NullId.obj = "null"
    BY DEF NullId, Id
  <2>2. NullId \notin vbr.creds
    BY <2>1 DEF Backed, Sound
  <2>3. ~Knows(NullId)
    BY <2>1, <2>2 DEF Knows
  <2>4. QED
    BY <1>4, <2>3 DEF Captured
<1>6. env.defaultRepo.of = DefaultRepo
  BY <1>5 DEF RepoId, Id
<1>7. e = [vbr EXCEPT !.repos = @ \ {DefaultRepo}]
  BY <1>3, <1>6
<1>8. Served(e) /\ e.cluster = vbr.cluster /\ DefaultRepo \notin e.repos
  BY <1>4, <1>5, <1>7, RemovesDefault
<1>9. Achieved(e, st)
  BY <1>8 DEF Achieved, ForNode, Clusters, Stores, RemovalForm
<1>10. QED
  BY <1>2, <1>8, <1>9 DEF Brings, req, e

\* The request for a hardened repository.
LEMMA HardenedEffect ==
    ASSUME Typed, Captured, Backed, NEW st, HardenedForm(spec, st)
    PROVE  Brings(Effect(st.req), st)
<1> DEFINE req == st.req
           n == RepoName(spec, st.node)
           e == Effect(req)
<1>1. req.method = "POST" /\ req.path = "repositories" /\ req.body.name = n
  BY DEF HardenedForm
<1>2. n \in Names /\ n # DefaultRepo
  BY NamesApart DEF Typed, HardenedForm
<1>3. Created(req) = NullId
  BY <1>1 DEF Created
<1>4. e = [vbr EXCEPT !.repos = @ \cup {n}]
  BY <1>1, <1>3 DEF Effect
<1> HIDE DEF req, e, n
<1>5. Served(e) /\ n \in e.repos /\ e.cluster = vbr.cluster /\ e.hosts = vbr.hosts
  BY <1>2, <1>4, AddsRepo
<1>6. ForNode(st) /\ st.kind = "hr"
  BY DEF HardenedForm, ForNode
<1>7. st.node.ip \in vbr.hosts => Achieved(e, st)
  BY <1>5, <1>6 DEF Achieved, Clusters, Stores, Deletes, n
<1>8. QED
  BY <1>5, <1>6, <1>7 DEF Brings, e, req

\* The arm of Effect for a proxy.
LEMMA ProxyAdded ==
    ASSUME NEW req, req.method = "POST", req.path = "proxies"
    PROVE  Effect(req) = [vbr EXCEPT !.proxies = Append(@, req.body.server.hostId.of)]
<1>1. Created(req) = NullId
  BY DEF Created
<1>2. QED
  BY <1>1 DEF Effect

\* The request for a proxy.
LEMMA ProxyEffect ==
    ASSUME Typed, Captured, Backed, NEW st, ProxyForm(spec, st)
    PROVE  Brings(Effect(st.req), st)
<1> DEFINE req == st.req
           n == st.node.ip
           e == Effect(req)
<1>0. req = AddVmwareProxy(HostId(n))
  BY DEF ProxyForm
<1> HIDE DEF req, n
<1>1. req.method = "POST" /\ req.path = "proxies" /\ req.body.server.hostId.of = n
  BY <1>0 DEF AddVmwareProxy, Request, HostId, Id
<1>2. n \in Names
  BY NamesApart DEF Typed, ProxyForm, n
<1>3. e = [vbr EXCEPT !.proxies = Append(@, n)]
  <2>1. e = [vbr EXCEPT !.proxies = Append(@, req.body.server.hostId.of)]
    BY <1>1, ProxyAdded
  <2>2. QED
    BY <1>1, <2>1, Zenon
<1> HIDE DEF e
<1>4. Served(e) /\ (\E k \in DOMAIN e.proxies : e.proxies[k] = n) /\ e.cluster = vbr.cluster
      /\ e.hosts = vbr.hosts
  BY <1>2, <1>3, AddsProxy
<1>5. ForNode(st) /\ st.kind = "proxy"
  BY DEF ProxyForm, ForNode
<1>6. st.node.ip \in vbr.hosts => Achieved(e, st)
  BY <1>4, <1>5 DEF Achieved, Clusters, Stores, Deletes, n
<1>7. QED
  BY <1>4, <1>5, <1>6 DEF Brings, e, req

\* The request for the cluster.
LEMMA ClusterEffect ==
    ASSUME Typed, Captured, Backed, NEW st, ClusterForm(st)
    PROVE  Brings(Effect(st.req), st)
<1> DEFINE req == st.req
           e == Effect(req)
<1>1. req.method = "POST" /\ req.path = "highAvailabilityCluster"
  BY DEF ClusterForm
<1>2. e = [vbr EXCEPT !.cluster = TRUE]
  BY <1>1 DEF Effect, Created
<1> HIDE DEF req, e
<1>3. Served(e) /\ e.cluster
  BY <1>2, AddsCluster
<1>4. st.kind = "wait" /\ Clusters(st)
  BY DEF ClusterForm, Clusters
<1>5. Achieved(e, st)
  BY <1>3, <1>4 DEF Achieved, ForNode, Stores, Deletes
<1>6. QED
  BY <1>3, <1>4, <1>5 DEF Brings, e, req

\* The request for the S3 repository.
LEMMA StoreEffect ==
    ASSUME Typed, Captured, Backed, NEW st, StoreForm(spec, st)
    PROVE  Brings(Effect(st.req), st)
<1> DEFINE req == st.req
           n == spec.s3.name
           e == Effect(req)
<1>1. req.method = "POST" /\ req.path \in RepositoryPaths /\ req.body.name = n
  BY DEF StoreForm
<1>2. n \in Names /\ n # DefaultRepo
  BY NamesApart DEF Typed
<1>3. Created(req) = NullId
  BY <1>1 DEF Created, RepositoryPaths
<1>4. e = [vbr EXCEPT !.repos = @ \cup {n}]
  BY <1>1, <1>3 DEF Effect, RepositoryPaths
<1> HIDE DEF req, e, n
<1>5. Served(e) /\ n \in e.repos /\ e.cluster = vbr.cluster
  BY <1>2, <1>4, AddsRepo
<1>6. st.kind \in {"create", "wait"} /\ ~Clusters(st)
  BY <1>1 DEF StoreForm, Clusters, RepositoryPaths, req
<1>7. Achieved(e, st)
  BY <1>5, <1>6 DEF Achieved, ForNode, Deletes, n
<1>8. QED
  BY <1>5, <1>7 DEF Brings, e, req

-----------------------------------------------------------------------------
(* A step of the script. *)

\* The step at hand has a form, and is a step of the outline but for what the variables hold.
LEMMA Here ==
    ASSUME Typed
    PROVE  /\ Len(Steps) = Len(Outline) /\ Len(Outline) \in Nat /\ Ordered(Outline)
           /\ \A i \in 1 .. Len(Outline) : \E v : Formed(spec, Outline[i], v)
           /\ at <= Len(Outline) => Formed(spec, Cur, env) /\ SameStep(Cur, Aim)
<1> DEFINE blank == [x \in Variables |-> NullId]
           p == Plan(spec, env)
           q == Plan(spec, blank)
<1>1. spec \in Specifications
  BY CraftAssumption DEF Typed
<1>2. Matches(spec, p, q, env) /\ Matches(spec, q, q, blank)
  <2> HIDE DEF blank
  <2> QED
    BY <1>1, PlanFacts
<1>3. Outline = q /\ Steps = p
  BY DEF Outline, Steps
<1> HIDE DEF p, q
<1>4. Len(p) = Len(q) /\ Len(q) \in Nat /\ Ordered(q)
  <2>1. q \in Seq({q[i] : i \in DOMAIN q})
    BY <1>2 DEF Matches, IsSeq
  <2> DEFINE X == {q[i] : i \in DOMAIN q}
  <2>2. q \in Seq(X)
    BY <2>1
  <2> HIDE DEF X
  <2>3. QED
    BY <1>2, <2>2 DEF Matches
<1>5. \A i \in 1 .. Len(q) : Formed(spec, q[i], blank)
  BY <1>2 DEF Matches
<1>6. ASSUME at <= Len(q)
      PROVE  Formed(spec, p[at], env) /\ SameStep(p[at], q[at])
  <2>1. at \in 1 .. Len(p)
    BY <1>4, <1>6 DEF Typed
  <2>2. QED
    BY <1>2, <2>1 DEF Matches
<1>7. QED
  BY <1>3, <1>4, <1>5, <1>6 DEF Cur, Aim

\* The form of a step of a kind.
LEMMA ByKind ==
    ASSUME NEW s, NEW st, NEW v, Formed(s, st, v)
    PROVE  /\ st.kind \in {"host", "repo"} => LookUpForm(st)
           /\ st.kind = "redirect" => RedirectForm(st, v)
           /\ st.kind = "call" => PlainForm(st) \/ RemovalForm(st, v)
           /\ st.kind = "hr" => HardenedForm(s, st)
           /\ st.kind = "proxy" => ProxyForm(s, st)
           /\ st.kind = "create" => StoreForm(s, st)
           /\ st.kind = "wait" => ClusterForm(st) \/ StoreForm(s, st)
BY DEF Formed, LookUpForm, RedirectForm, PlainForm, RemovalForm, HardenedForm, ProxyForm, StoreForm,
       ClusterForm

\* What is achieved stays: nothing that the script removes is what a step is for.
LEMMA StillAchieved ==
    ASSUME Typed, NEW v, NEW st, Formed(spec, st, v), NEW a, NEW e, Grown(a, e), Achieved(a, st)
    PROVE  Achieved(e, st)
<1>1. ForNode(st) => st.node.ip \in e.hosts
  BY DEF Achieved, Grown
<1>2. st.kind = "hr" => RepoName(spec, st.node) \in e.repos
  <2> SUFFICES ASSUME st.kind = "hr"
               PROVE  RepoName(spec, st.node) \in e.repos
    OBVIOUS
  <2>1. st.node \in NodesOf(spec) \cap Nodes
    BY ByKind DEF HardenedForm
  <2>2. RepoName(spec, st.node) # DefaultRepo
    BY <2>1, NamesApart DEF Typed
  <2>3. QED
    BY <2>2 DEF Achieved, Grown
<1>3. st.kind = "proxy" => \E k \in DOMAIN e.proxies : e.proxies[k] = st.node.ip
  BY DEF Achieved, Grown
<1>4. Clusters(st) => e.cluster
  BY DEF Achieved, Grown
<1>5. Stores(st) => spec.s3.name \in e.repos
  BY NamesApart DEF Achieved, Grown, Typed
<1>6. Deletes(st) /\ Throws => DefaultRepo \notin e.repos
  BY DEF Achieved, Grown
<1>7. QED
  BY <1>1, <1>2, <1>3, <1>4, <1>5, <1>6 DEF Achieved

\* What is settled stays so.
LEMMA StillSettled ==
    ASSUME Typed, NEW v, NEW st, Formed(spec, st, v), NEW a, NEW e, Grown(a, e), Settled(a, st)
    PROVE  Settled(e, st)
<1>1. Achieved(a, st) => Settled(e, st)
  BY StillAchieved DEF Settled
<1>2. QED
  BY <1>1 DEF Settled, Grown

\* The outline tells what the step at hand is about.
LEMMA SameAim ==
    ASSUME NEW a, NEW b, SameStep(a, b)
    PROVE  /\ a.kind = b.kind /\ (ForNode(a) => a.node = b.node) /\ (ForNode(a) <=> ForNode(b))
           /\ (Clusters(a) <=> Clusters(b)) /\ (Stores(a) <=> Stores(b)) /\ (Deletes(a) <=> Deletes(b))
BY DEF SameStep, ForNode, Clusters, Stores, Deletes

\* A step achieves what its outline asks for.
LEMMA SameAchieved ==
    ASSUME NEW e, NEW a, NEW b, SameStep(a, b), Achieved(e, a)
    PROVE  Achieved(e, b)
<1>1. /\ a.kind = b.kind /\ (ForNode(b) => a.node = b.node) /\ (ForNode(a) <=> ForNode(b))
      /\ (Clusters(a) <=> Clusters(b)) /\ (Stores(a) <=> Stores(b)) /\ (Deletes(a) <=> Deletes(b))
  BY SameAim
<1>2. a.kind \in {"hr", "proxy"} => ForNode(b)
  BY <1>1 DEF ForNode
<1>3. QED
  BY <1>1, <1>2 DEF Achieved

-----------------------------------------------------------------------------
(* What every action but a rerun does. *)

\* The specification and the shell stay, the other variables keep their types.
Scalars ==
    /\ spec' = spec /\ shell' = shell /\ phase' \in Phases
    /\ tries' \in Nat /\ runs' \in Nat /\ faults' \in Nat /\ IsSeq(sent')

\* The variables of the script.
Keeps == env' \in [Variables -> Ids] /\ Captured'

\* The server, where only the step of the cluster makes one.
ServerStep == Served(vbr') /\ (vbr'.cluster => vbr.cluster \/ (at <= Len(Outline) /\ Clusters(Aim)))

\* The script stays at its step, or has passed it.
Stays  == at' = at /\ at <= Len(Outline) /\ Passes(phase', Aim) /\ Found(phase', vbr')
Passed == at' = at + 1 /\ phase' = "start" /\ at <= Len(Outline) /\ Settled(vbr', Aim)

\* An action that keeps to the above preserves the invariant.
LEMMA Outcome ==
    ASSUME CraftInv, Scalars, Keeps, ServerStep, Stays \/ Passed
    PROVE  CraftInv'
<1>1. /\ Typed /\ Done /\ Placed /\ Found(phase, vbr) /\ Captured /\ Backed
  BY DEF CraftInv
<1>2. Outline' = Outline
  BY DEF Outline, Scalars, Plan, PlanHA, PlanS3, PlanNode, HardenedRepo, Mount
<1>3. /\ Len(Outline) \in Nat /\ Ordered(Outline)
      /\ \A i \in 1 .. Len(Outline) : \E v : Formed(spec, Outline[i], v)
  BY <1>1, Here
<1>4. Grown(vbr, vbr') /\ vbr' \in Server /\ Sound(vbr')
  BY DEF ServerStep, Served
<1>5. at \in Nat \ {0} /\ at' \in Nat \ {0}
  BY <1>1 DEF Typed, Stays, Passed
<1>6. Typed'
  BY <1>1, <1>4, <1>5 DEF Typed, Scalars, Keeps
<1>7. ASSUME NEW i \in 1 .. Len(Outline), i < at'
      PROVE  Settled(vbr', Outline[i])
  <2>1. CASE i < at
    <3>1. Settled(vbr, Outline[i])
      BY <1>1, <2>1 DEF Done
    <3>2. QED
      BY <1>1, <1>3, <1>4, <3>1, StillSettled
  <2>2. CASE ~(i < at)
    <3>1. Passed /\ i = at
      BY <1>5, <1>7, <2>2 DEF Stays, Passed
    <3>2. QED
      BY <3>1 DEF Passed, Aim
  <2>3. QED
    BY <2>1, <2>2
<1>8. Done'
  <2>1. shell' = shell /\ spec' = spec
    BY DEF Scalars
  <2> SUFFICES ASSUME NEW i \in 1 .. Len(Outline), i < at'
               PROVE  Settled(vbr, Outline[i])'
    BY <1>2 DEF Done
  <2>2. Settled(vbr', Outline[i])
    BY <1>7
  <2>3. QED
    BY <1>2, <2>1, <2>2 DEF Settled, Achieved, Made, Throws
<1>9. Placed'
  <2>1. CASE Stays
    <3>1. at' = at /\ at <= Len(Outline) /\ Passes(phase', Aim)
      BY <2>1 DEF Stays
    <3>2. Aim' = Aim
      BY <1>2, <3>1 DEF Aim
    <3>3. QED
      BY <1>2, <1>3, <1>5, <3>1, <3>2 DEF Placed, Passes
  <2>2. CASE Passed
    BY <1>2, <1>3, <1>5, <2>2 DEF Placed, Passed
  <2>3. QED
    BY <2>1, <2>2
<1>10. Found(phase, vbr)'
  <2>1. CASE Stays
    <3>1. at' = at /\ Found(phase', vbr')
      BY <2>1 DEF Stays
    <3>2. Aim' = Aim
      BY <1>2, <3>1 DEF Aim
    <3>3. shell' = shell /\ spec' = spec
      BY DEF Scalars
    <3>4. QED
      BY <3>1, <3>2, <3>3 DEF Found, Throws
  <2>2. CASE Passed
    BY <2>2 DEF Found, Passed
  <2>3. QED
    BY <2>1, <2>2
<1>11. Backed'
  <2>1. ASSUME vbr'.cluster, Throws
        PROVE  DefaultRepo \notin vbr'.repos
    <3>1. CASE vbr.cluster
      BY <1>1, <1>4, <2>1, <3>1 DEF Backed, Grown
    <3>2. CASE ~vbr.cluster
      <4>1. at <= Len(Outline) /\ Clusters(Outline[at])
        BY <2>1, <3>2 DEF ServerStep, Aim
      <4>2. at \in 1 .. Len(Outline)
        BY <1>3, <1>5, <4>1
      <4>3. PICK j \in 1 .. Len(Outline) : j < at /\ Deletes(Outline[j])
        BY <1>3, <4>1, <4>2 DEF Ordered
      <4>4. DefaultRepo \notin vbr.repos
        BY <1>1, <2>1, <4>3 DEF Done, Settled, Achieved
      <4>5. QED
        BY <1>4, <4>4 DEF Grown
    <3>3. QED
      BY <3>1, <3>2
  <2>2. shell' = shell
    BY DEF Scalars
  <2>3. QED
    BY <1>4, <2>1, <2>2 DEF Backed, Sound, Throws
<1>12. Captured'
  BY DEF Keeps
<1>13. QED
  BY <1>6, <1>8, <1>9, <1>10, <1>11, <1>12 DEF CraftInv

\* The step at hand, in an action that is about one.
LEMMA Now ==
    ASSUME CraftInv, phase # "start" \/ at <= Len(Steps)
    PROVE  /\ at <= Len(Outline) /\ Formed(spec, Cur, env) /\ SameStep(Cur, Aim)
           /\ Cur.kind = Aim.kind /\ (ForNode(Cur) => Cur.node = Aim.node) /\ (ForNode(Cur) <=> ForNode(Aim))
           /\ Typed /\ Captured /\ Backed /\ Placed /\ Found(phase, vbr)
           /\ spec \in Specs /\ Served(vbr)
<1>1. Typed /\ Captured /\ Backed /\ Placed /\ Found(phase, vbr)
  BY DEF CraftInv
<1>2. at <= Len(Outline)
  BY <1>1, Here DEF Placed
<1>3. Formed(spec, Cur, env) /\ SameStep(Cur, Aim)
  BY <1>1, <1>2, Here
<1>4. spec \in Specs /\ Served(vbr)
  BY <1>1, Unserved DEF Typed
<1>5. QED
  BY <1>1, <1>2, <1>3, <1>4, SameAim

\* The writes stay a sequence.
LEMMA Written ==
    ASSUME Typed, NEW x
    PROVE  IsSeq(Append(sent, x))
<1>1. IsSeq(sent)
  BY DEF Typed
<1> DEFINE X == {sent[i] : i \in DOMAIN sent} \cup {x}
           q == Append(sent, x)
<1>2. sent \in Seq({sent[i] : i \in DOMAIN sent})
  BY <1>1 DEF IsSeq
<1> DEFINE Y == {sent[i] : i \in DOMAIN sent}
<1>3. sent \in Seq(Y)
  BY <1>2
<1> HIDE DEF Y
<1>4. q \in Seq(Y \cup {x})
  BY <1>3
<1> HIDE DEF q
<1>5. /\ Len(q) \in Nat /\ q = [i \in 1 .. Len(q) |-> q[i]]
      /\ \A i \in 1 .. Len(q) : q[i] \in {q[j] : j \in DOMAIN q}
  BY <1>4
<1> DEFINE Z == {q[j] : j \in DOMAIN q}
<1>6. \A i \in 1 .. Len(q) : q[i] \in Z
  BY <1>5
<1> HIDE DEF Z
<1>7. q \in Seq(Z)
  BY <1>5, <1>6
<1>8. QED
  BY <1>7 DEF IsSeq, Z, q

\* The writes stay a sequence when two are added.
LEMMA WrittenPair ==
    ASSUME Typed, NEW x, NEW y
    PROVE  IsSeq(sent \o <<x, y>>)
<1>1. IsSeq(sent)
  BY DEF Typed
<1>2. IsSeq(<<x, y>>)
  <2> DEFINE p == <<x, y>>
  <2>1. Len(p) = 2 /\ DOMAIN p = 1 .. 2 /\ p[1] = x /\ p[2] = y /\ p \in Seq({x, y})
    OBVIOUS
  <2> HIDE DEF p
  <2>2. {x, y} = {p[i] : i \in DOMAIN p}
    BY <2>1
  <2>3. IsSeq(p)
    BY <2>1, <2>2, Zenon DEF IsSeq
  <2>4. QED
    BY <2>3 DEF p
<1>3. QED
  BY <1>1, <1>2, Concatenation

\* What a variable may be given.
Catches(var, id) ==
    /\ var \in Variables /\ id \in Ids
    /\ var = "repo" => id = NullId \/ (id.obj = "repo" /\ id.of # DefaultRepo)
    /\ var = "defaultRepo" => id \in {NullId, RepoId(DefaultRepo)}

\* A variable that is set.
LEMMA Captures ==
    ASSUME Typed, Captured, NEW id, Catches(Cur.var, id), Capture(id)
    PROVE  Keeps
<1> DEFINE x == Cur.var
<1>1. x \in Variables /\ id \in Ids /\ env \in [Variables -> Ids]
  BY DEF Catches, Typed
<1>2. env' = IF x = "" THEN env ELSE [env EXCEPT ![x] = id]
  BY DEF Capture
<1>3. /\ x = "repo" => id = NullId \/ (id.obj = "repo" /\ id.of # DefaultRepo)
      /\ x = "defaultRepo" => id \in {NullId, RepoId(DefaultRepo)}
  BY DEF Catches
<1> HIDE DEF x
<1>4. env' \in [Variables -> Ids]
  <2> HIDE DEF Variables, Ids
  <2> QED
    BY <1>1, <1>2
<1>5. "repo" \in Variables /\ "defaultRepo" \in Variables
  BY DEF Variables
<1>6. /\ env'["repo"] = IF x = "repo" THEN id ELSE env["repo"]
      /\ env'["defaultRepo"] = IF x = "defaultRepo" THEN id ELSE env["defaultRepo"]
  <2> HIDE DEF Variables, Ids
  <2> QED
    BY <1>1, <1>2, <1>5
<1>7. Captured'
  BY <1>3, <1>6 DEF Captured
<1>8. QED
  BY <1>4, <1>7 DEF Keeps

\* Any variable may be given the id of nothing.
LEMMA CatchesNull ==
    ASSUME NEW var \in Variables
    PROVE  Catches(var, NullId)
<1>1. NullId \in Ids
  BY DEF NullId, Id, Ids, Names
<1>2. QED
  BY <1>1 DEF Catches

\* No variable is set.
LEMMA KeepsEnv ==
    ASSUME Typed, Captured, UNCHANGED env
    PROVE  Keeps
BY DEF Typed, Captured, Keeps

\* A step sets one of the variables of the script.
LEMMA VarIsOne ==
    ASSUME NEW s, NEW st, NEW v, Formed(s, st, v)
    PROVE  st.var \in Variables
BY DEF Formed, PlainForm, RedirectForm, LookUpForm, RemovalForm, HardenedForm, ProxyForm, ClusterForm,
       StoreForm, Variables

\* What a step whose kind asks for nothing brings about.
LEMMA NothingAsked ==
    ASSUME NEW e, NEW st,
           st.kind \in {"host", "repo", "redirect"} \/ (st.kind = "call" /\ (Deletes(st) => ~Throws))
    PROVE  Achieved(e, st)
BY DEF Achieved, ForNode, Clusters, Stores, Deletes

-----------------------------------------------------------------------------
(* The actions. *)

\* The filter for the default repository finds no other name.
LEMMA OnlyDefault == \A n : <<DefaultRepo, n>> \notin Alike
<1> SUFFICES ASSUME NEW n, <<DefaultRepo, n>> \in Alike
             PROVE  FALSE
  OBVIOUS
<1> DEFINE a == <<DefaultRepo, n>>
<1>1. a[1] = DefaultRepo
  OBVIOUS
<1>2. a[1] # DefaultRepo
  BY CraftAssumption
<1>3. QED
  BY <1>1, <1>2

\* A lookup.
LEMMA LookUpStep ==
    ASSUME CraftInv, LookUp \/ LookUpFails
    PROVE  CraftInv'
<1>1. /\ phase = "start" /\ at <= Len(Steps) /\ Cur.kind \in {"host", "repo"}
      /\ UNCHANGED <<spec, shell, tries, sent, vbr, runs>> /\ (faults' = faults \/ faults' = faults + 1)
      /\ \/ (\E id \in Firsts \cup {NullId} : Capture(id)) /\ Advance
         \/ UNCHANGED env /\ Stop
  BY DEF LookUp, LookUpFails, At, Fault
<1>2. /\ at <= Len(Outline) /\ Formed(spec, Cur, env) /\ Cur.kind = Aim.kind
      /\ Typed /\ Captured /\ Backed /\ Served(vbr)
  BY <1>1, Now
<1>3. LookUpForm(Cur)
  BY <1>1, <1>2, ByKind
<1>4. Scalars
  BY <1>1, <1>2 DEF Scalars, Typed, Advance, Stop, Goto, Phases
<1>5. ASSUME NEW id \in Firsts
      PROVE  Catches(Cur.var, id)
  <2>1. Cur.var \in Variables
    BY <1>3 DEF LookUpForm, Variables
  <2>2. CASE id = NullId
    BY <2>1, <2>2, CatchesNull
  <2>3. CASE id # NullId
    <3>1. PICK n \in vbr.hosts \cup vbr.repos :
             /\ n = Cur.req.body \/ <<Cur.req.body, n>> \in Alike
             /\ id = Id(Cur.kind, n)
      BY <2>3 DEF Firsts
    <3>2. n \in Names
      BY <1>2 DEF Typed, Server
    <3>3. id \in Ids
      <4> DEFINE k == Cur.kind
      <4>1. k \in {"host", "repo"} /\ n \in Names /\ id = Id(k, n)
        BY <1>1, <3>1, <3>2
      <4> HIDE DEF k
      <4>2. QED
        BY <4>1 DEF Id, Ids
    <3>4. Cur.var # "repo"
      BY <1>3 DEF LookUpForm
    <3>5. Cur.var = "defaultRepo" => id = RepoId(DefaultRepo)
      <4> SUFFICES ASSUME Cur.var = "defaultRepo"
                   PROVE  id = RepoId(DefaultRepo)
        OBVIOUS
      <4>1. Cur.kind = "repo" /\ Cur.req.body = DefaultRepo
        BY <1>3 DEF LookUpForm
      <4>2. n = DefaultRepo
        BY <3>1, <4>1, OnlyDefault
      <4>3. QED
        BY <3>1, <4>1, <4>2 DEF RepoId
    <3>6. QED
      BY <2>1, <3>3, <3>4, <3>5 DEF Catches
  <2>4. QED
    BY <2>2, <2>3
<1>6. Keeps
  <2>1. Catches(Cur.var, NullId)
    BY <1>2, VarIsOne, CatchesNull
  <2>2. QED
    BY <1>1, <1>2, <1>5, <2>1, Captures, KeepsEnv
<1>7. ServerStep
  BY <1>1, <1>2 DEF ServerStep
<1>8. Stays \/ Passed
  <2>1. Achieved(vbr', Aim)
    BY <1>1, <1>2, NothingAsked
  <2>2. Passes("stopped", Aim) /\ Found("stopped", vbr')
    BY DEF Passes, Found
  <2>3. QED
    BY <1>1, <1>2, <2>1, <2>2 DEF Stays, Passed, Settled, Advance, Stop, Goto
<1>9. QED
  BY <1>4, <1>6, <1>7, <1>8, Outcome

\* A call that reaches the server.
LEMMA CallEffect ==
    ASSUME Typed, Captured, Backed, NEW st, Formed(spec, st, env), st.kind \in {"call", "redirect"},
           Accepts(st.req)
    PROVE  Brings(Effect(st.req), st) /\ Catches(st.var, Created(st.req))
<1>1. CASE PlainForm(st)
  <2>1. Brings(Effect(st.req), st) /\ Created(st.req) \in Ids
    BY <1>1, PlainEffect
  <2>2. st.var \in Variables /\ st.var # "repo" /\ st.var # "defaultRepo"
    BY <1>1 DEF PlainForm, Variables
  <2>3. QED
    BY <2>1, <2>2 DEF Catches
<1>2. CASE RedirectForm(st, env)
  BY <1>2, RedirectEffect, VarIsOne, CatchesNull
<1>3. CASE RemovalForm(st, env)
  BY <1>3, RemovalEffect, VarIsOne, CatchesNull
<1>4. QED
  BY <1>1, <1>2, <1>3, ByKind

\* A call without a session.
LEMMA CallStep ==
    ASSUME CraftInv, Call
    PROVE  CraftInv'
<1>1. /\ phase = "start" /\ at <= Len(Steps) /\ Cur.kind \in {"call", "redirect"} /\ Accepts(Cur.req)
      /\ sent' = Append(sent, Cur.req) /\ vbr' = Effect(Cur.req) /\ Capture(Created(Cur.req)) /\ Advance
      /\ UNCHANGED <<spec, shell, tries, runs, faults>>
  BY DEF Call, At, Write
<1>2. /\ at <= Len(Outline) /\ Formed(spec, Cur, env) /\ SameStep(Cur, Aim)
      /\ Typed /\ Captured /\ Backed
  BY <1>1, Now
<1>3. Brings(vbr', Cur) /\ Catches(Cur.var, Created(Cur.req))
  BY <1>1, <1>2, CallEffect
<1>4. Scalars
  BY <1>1, <1>2, Written DEF Scalars, Typed, Advance, Phases
<1>5. Keeps
  BY <1>1, <1>2, <1>3, Captures
<1>6. ServerStep
  BY <1>2, <1>3, SameAim DEF ServerStep, Brings
<1>7. Passed
  <2>1. ~ForNode(Cur)
    BY <1>1 DEF ForNode
  <2>2. Achieved(vbr', Aim)
    BY <1>2, <1>3, <2>1, SameAchieved DEF Brings
  <2>3. QED
    BY <1>1, <1>2, <2>2 DEF Passed, Settled, Advance
<1>8. QED
  BY <1>4, <1>5, <1>6, <1>7, Outcome

\* A call that fails: bash goes on, and what it was for is asked of no call.
LEMMA CallFailsStep ==
    ASSUME CraftInv, CallFails
    PROVE  CraftInv'
<1>1. /\ phase = "start" /\ at <= Len(Steps) /\ Cur.kind \in {"call", "redirect"}
      /\ (vbr' = vbr \/ (Accepts(Cur.req) /\ vbr' = Effect(Cur.req)))
      /\ (faults' = faults \/ faults' = faults + 1)
      /\ (sent' = sent \/ sent' = Append(sent, Cur.req))
      /\ \/ Stop /\ UNCHANGED env
         \/ ~Throws /\ Capture(NullId) /\ Advance
      /\ UNCHANGED <<spec, shell, tries, runs>>
  BY DEF CallFails, At, Write, Fault
<1>2. /\ at <= Len(Outline) /\ Formed(spec, Cur, env) /\ SameStep(Cur, Aim) /\ Cur.kind = Aim.kind
      /\ Typed /\ Captured /\ Backed /\ Served(vbr)
  BY <1>1, Now
<1>3. vbr' = vbr \/ Brings(vbr', Cur)
  BY <1>1, <1>2, CallEffect
<1>4. Scalars
  <2>1. IsSeq(sent')
    BY <1>1, <1>2, Written DEF Typed
  <2>2. QED
    BY <1>1, <1>2, <2>1 DEF Scalars, Typed, Advance, Stop, Goto, Phases
<1>5. Keeps
  BY <1>1, <1>2, VarIsOne, CatchesNull, Captures, KeepsEnv
<1>6. ServerStep
  BY <1>2, <1>3, SameAim DEF ServerStep, Brings
<1>7. Stays \/ Passed
  <2>1. CASE Stop
    <3>1. Passes("stopped", Aim) /\ Found("stopped", vbr')
      BY DEF Passes, Found
    <3>2. QED
      BY <1>2, <2>1, <3>1 DEF Stays, Stop, Goto
  <2>2. CASE ~Throws /\ Advance
    <3>1. Achieved(vbr', Aim)
      BY <1>1, <1>2, <2>2, NothingAsked
    <3>2. QED
      BY <1>2, <2>2, <3>1 DEF Passed, Settled, Advance
  <2>3. QED
    BY <1>1, <2>1, <2>2
<1>8. QED
  BY <1>4, <1>5, <1>6, <1>7, Outcome

\* A script that stops has nothing to show.
LEMMA StopStays ==
    ASSUME Stop, at <= Len(Outline)
    PROVE  Stays
BY DEF Stays, Stop, Goto, Passes, Found

\* An action that does not touch the server.
LEMMA SamePlace ==
    ASSUME CraftInv, UNCHANGED vbr
    PROVE  ServerStep
BY Unserved DEF ServerStep, CraftInv

\* The registration of a host.
LEMMA RegisterStep ==
    ASSUME CraftInv, Register
    PROVE  CraftInv'
<1>1. /\ phase = "start" /\ at <= Len(Steps) /\ Cur.kind \in {"hr", "proxy"}
      /\ UNCHANGED <<spec, shell, tries, env, vbr, runs, faults>>
      /\ \/ Cur.node.ip \in vbr.hosts /\ Goto("part") /\ UNCHANGED sent
         \/ /\ \E x, y : sent' = sent \o <<x, y>>
            /\ Goto("hostWait")
  BY DEF Register, At
<1>2. /\ at <= Len(Outline) /\ ForNode(Aim) /\ Cur.node = Aim.node /\ Typed /\ Captured
  BY <1>1, Now DEF ForNode
<1>3. Scalars
  <2>1. IsSeq(sent')
    BY <1>1, <1>2, WrittenPair DEF Typed
  <2>2. QED
    BY <1>1, <1>2, <2>1 DEF Scalars, Typed, Goto, Phases
<1>4. Keeps
  BY <1>1, <1>2, KeepsEnv
<1>5. Stays
  BY <1>1, <1>2 DEF Stays, Goto, Passes, Found
<1>6. ServerStep
  BY <1>1, SamePlace
<1>7. QED
  BY <1>3, <1>4, <1>5, <1>6, Outcome

\* A registration that goes wrong.
LEMMA RegisterFailsStep ==
    ASSUME CraftInv, RegisterFails
    PROVE  CraftInv'
<1>1. /\ phase = "start" /\ at <= Len(Steps) /\ Cur.kind \in {"hr", "proxy"} /\ faults' = faults + 1
      /\ UNCHANGED <<spec, shell, tries, env, vbr, runs>>
      /\ \/ Stop /\ UNCHANGED sent
         \/ (\E x, y : sent' = sent \o <<x, y>>) /\ Goto("hostWait")
  BY DEF RegisterFails, At, Fault
<1>2. /\ at <= Len(Outline) /\ ForNode(Aim) /\ Typed /\ Captured
  BY <1>1, Now DEF ForNode
<1>3. Scalars
  <2>1. IsSeq(sent')
    BY <1>1, <1>2, WrittenPair DEF Typed
  <2>2. QED
    BY <1>1, <1>2, <2>1 DEF Scalars, Typed, Goto, Stop, Phases
<1>4. Keeps
  BY <1>1, <1>2, KeepsEnv
<1>5. Stays
  <2>1. CASE Stop
    BY <1>2, <2>1, StopStays
  <2>2. CASE Goto("hostWait")
    BY <1>2, <2>2 DEF Stays, Goto, Passes, Found
  <2>3. QED
    BY <1>1, <2>1, <2>2
<1>6. ServerStep
  BY <1>1, SamePlace
<1>7. QED
  BY <1>3, <1>4, <1>5, <1>6, Outcome

\* The host of the node at hand.
LEMMA HostOfAim ==
    ASSUME CraftInv, phase = "hostWait"
    PROVE  /\ at <= Len(Outline) /\ ForNode(Aim) /\ Typed /\ Captured /\ Cur.node = Aim.node
           /\ Served(Host(Cur.node.ip)) /\ Cur.node.ip \in Host(Cur.node.ip).hosts
           /\ Host(Cur.node.ip).cluster = vbr.cluster
<1>1. phase # "start"
  OBVIOUS
<1>2. /\ at <= Len(Outline) /\ Formed(spec, Cur, env) /\ (ForNode(Cur) => Cur.node = Aim.node)
      /\ (ForNode(Cur) <=> ForNode(Aim))
      /\ Typed /\ Captured /\ Backed /\ Placed /\ spec \in Specs
  BY <1>1, Now
<1>3. ForNode(Aim)
  BY <1>2 DEF Placed, Passes
<1>4. Cur.node \in NodesOf(spec) \cap Nodes
  BY <1>2, <1>3, ByKind DEF ForNode, HardenedForm, ProxyForm
<1>5. Cur.node.ip \in Names
  BY <1>2, <1>4, NamesApart
<1>6. QED
  BY <1>2, <1>3, <1>5, AddsHost

\* The host is there.
LEMMA HostAddedStep ==
    ASSUME CraftInv, HostAdded
    PROVE  CraftInv'
<1>1. /\ phase = "hostWait" /\ vbr' = Host(Cur.node.ip) /\ Goto("part")
      /\ UNCHANGED <<spec, shell, tries, env, sent, runs, faults>>
  BY DEF HostAdded
<1>2. /\ at <= Len(Outline) /\ ForNode(Aim) /\ Typed /\ Captured /\ Cur.node = Aim.node
      /\ Served(vbr') /\ Cur.node.ip \in vbr'.hosts /\ vbr'.cluster = vbr.cluster
  BY <1>1, HostOfAim
<1>3. Scalars
  BY <1>1, <1>2 DEF Scalars, Typed, Goto, Phases
<1>4. Keeps
  BY <1>1, <1>2, KeepsEnv
<1>5. Stays
  BY <1>1, <1>2 DEF Stays, Goto, Passes, Found
<1>6. ServerStep
  BY <1>2 DEF ServerStep
<1>7. QED
  BY <1>3, <1>4, <1>5, <1>6, Outcome

\* The host may be there, and the script does not go on.
LEMMA HostLostStep ==
    ASSUME CraftInv, HostLost
    PROVE  CraftInv'
<1>1. /\ phase = "hostWait" /\ vbr' \in {vbr, Host(Cur.node.ip)} /\ Stop /\ faults' = faults + 1
      /\ UNCHANGED <<spec, shell, tries, env, sent, runs>>
  BY DEF HostLost, Fault
<1>2. /\ at <= Len(Outline) /\ Typed /\ Captured
      /\ Served(Host(Cur.node.ip)) /\ Host(Cur.node.ip).cluster = vbr.cluster
  BY <1>1, HostOfAim
<1>3. Scalars
  BY <1>1, <1>2 DEF Scalars, Typed, Stop, Goto, Phases
<1>4. Keeps
  BY <1>1, <1>2, KeepsEnv
<1>5. Stays
  BY <1>1, <1>2, StopStays
<1>6. ServerStep
  <2>1. CASE vbr' = vbr
    BY <2>1, SamePlace
  <2>2. CASE vbr' = Host(Cur.node.ip)
    BY <1>2, <2>2 DEF ServerStep
  <2>3. QED
    BY <1>1, <2>1, <2>2
<1>7. QED
  BY <1>3, <1>4, <1>5, <1>6, Outcome

\* The request for a hardened repository carries its name.
LEMMA NameOfAim ==
    ASSUME CraftInv, phase # "start", Aim.kind = "hr"
    PROVE  /\ Cur.kind = "hr" /\ HardenedForm(spec, Cur) /\ Cur.req.body.name = RepoName(spec, Aim.node)
           /\ Catches(Cur.var, RepoId(Cur.req.body.name))
<1>1. /\ Formed(spec, Cur, env) /\ Cur.kind = "hr" /\ Cur.node = Aim.node /\ spec \in Specs
  BY Now DEF ForNode
<1>2. HardenedForm(spec, Cur)
  BY <1>1, ByKind
<1> DEFINE n == Cur.req.body.name
<1>3. n = RepoName(spec, Cur.node)
  BY <1>2 DEF HardenedForm
<1>4. n \in Names /\ n # DefaultRepo
  BY <1>1, <1>2, <1>3, NamesApart DEF HardenedForm
<1>5. Catches(Cur.var, RepoId(n))
  <2> HIDE DEF n
  <2>1. RepoId(n) \in Ids /\ RepoId(n).obj = "repo" /\ RepoId(n).of # DefaultRepo
    BY <1>4 DEF RepoId, Id, Ids
  <2>2. Cur.var \in Variables /\ Cur.var # "defaultRepo"
    BY <1>2 DEF HardenedForm, Variables
  <2>3. QED
    BY <2>1, <2>2 DEF Catches
<1>6. QED
  BY <1>1, <1>2, <1>3, <1>5

\* The lookup of the hardened repository.
LEMMA FindPartStep ==
    ASSUME CraftInv, FindPart
    PROVE  CraftInv'
<1>1. /\ phase = "part" /\ UNCHANGED <<spec, shell, tries, sent, vbr, runs, faults>>
      /\ \/ /\ Cur.kind = "hr" /\ Cur.req.body.name \in vbr.repos
            /\ Capture(RepoId(Cur.req.body.name)) /\ Advance
         \/ /\ Cur.kind = "hr" => Cur.req.body.name \notin vbr.repos
            /\ Goto("create") /\ UNCHANGED env
  BY DEF FindPart
<1>2. /\ at <= Len(Outline) /\ ForNode(Aim) /\ Cur.kind = Aim.kind /\ Aim.node.ip \in vbr.hosts
      /\ Typed /\ Captured
  BY <1>1, Now DEF Placed, Passes, Found
<1>3. Aim.kind = "hr" => /\ Cur.req.body.name = RepoName(spec, Aim.node)
                         /\ Catches(Cur.var, RepoId(Cur.req.body.name))
  BY <1>1, NameOfAim
<1>4. Scalars
  BY <1>1, <1>2 DEF Scalars, Typed, Goto, Advance, Phases
<1>5. Keeps
  BY <1>1, <1>2, <1>3, Captures, KeepsEnv
<1>6. Stays \/ Passed
  <2>1. CASE Cur.kind = "hr" /\ Cur.req.body.name \in vbr.repos /\ Advance
    <3>1. Achieved(vbr', Aim)
      BY <1>1, <1>2, <1>3, <2>1 DEF Achieved, Clusters, Stores, Deletes
    <3>2. QED
      BY <1>2, <2>1, <3>1 DEF Passed, Settled, Advance
  <2>2. CASE (Cur.kind = "hr" => Cur.req.body.name \notin vbr.repos) /\ Goto("create")
    BY <1>1, <1>2, <1>3, <2>2 DEF Stays, Goto, Passes, Found
  <2>3. QED
    BY <1>1, <2>1, <2>2
<1>7. ServerStep
  BY <1>1, SamePlace
<1>8. QED
  BY <1>4, <1>5, <1>6, <1>7, Outcome

\* The lookup goes wrong: bash creates what it could not find.
LEMMA FindPartFailsStep ==
    ASSUME CraftInv, FindPartFails
    PROVE  CraftInv'
<1>1. /\ phase = "part" /\ faults' = faults + 1 /\ UNCHANGED <<spec, shell, tries, env, sent, vbr, runs>>
      /\ (Stop \/ (~Throws /\ Goto("create")))
  BY DEF FindPartFails, Fault
<1>2. at <= Len(Outline) /\ ForNode(Aim) /\ Aim.node.ip \in vbr.hosts /\ Typed /\ Captured
  BY <1>1, Now DEF Placed, Passes, Found
<1>3. Scalars
  BY <1>1, <1>2 DEF Scalars, Typed, Stop, Goto, Phases
<1>4. Keeps
  BY <1>1, <1>2, KeepsEnv
<1>5. Stays
  <2>1. CASE Stop
    BY <1>2, <2>1, StopStays
  <2>2. CASE ~Throws /\ Goto("create")
    BY <1>1, <1>2, <2>2 DEF Stays, Goto, Passes, Found
  <2>3. QED
    BY <1>1, <2>1, <2>2
<1>6. ServerStep
  BY <1>1, SamePlace
<1>7. QED
  BY <1>3, <1>4, <1>5, <1>6, Outcome

\* A request that starts a session.
LEMMA SessionEffect ==
    ASSUME Typed, Captured, Backed, NEW st, Formed(spec, st, env),
           st.kind \in {"hr", "proxy", "create", "wait"}
    PROVE  Brings(Effect(st.req), st)
<1>1. st.kind = "hr" => HardenedForm(spec, st)
  BY ByKind
<1>2. st.kind = "proxy" => ProxyForm(spec, st)
  BY ByKind
<1>3. st.kind \in {"create", "wait"} => ClusterForm(st) \/ StoreForm(spec, st)
  BY ByKind
<1>4. QED
  BY <1>1, <1>2, <1>3, HardenedEffect, ProxyEffect, ClusterEffect, StoreEffect

\* A step at its request.
LEMMA AtRequest ==
    ASSUME CraftInv, Creating
    PROVE  /\ at <= Len(Outline) /\ Typed /\ Captured /\ Cur.kind = Aim.kind
           /\ Passes("wait", Aim) /\ Found("wait", vbr)
           /\ (Cur.kind # "wait" => Passes("update", Aim))
           /\ Served(Effect(Cur.req)) /\ (Effect(Cur.req).cluster => vbr.cluster \/ Clusters(Aim))
<1>1. phase = "create" \/ (phase = "start" /\ at <= Len(Steps) /\ Cur.kind \in {"create", "wait"})
  BY DEF Creating, At
<1>2. /\ at <= Len(Outline) /\ Formed(spec, Cur, env) /\ SameStep(Cur, Aim) /\ Cur.kind = Aim.kind
      /\ Typed /\ Captured /\ Backed /\ Placed /\ Found(phase, vbr)
  BY <1>1, Now
<1>3. phase = "create" => ForNode(Aim) \/ Aim.kind = "create"
  BY <1>2 DEF Placed, Passes
<1>4. ForNode(Aim) \/ Aim.kind \in {"create", "wait"}
  BY <1>1, <1>2, <1>3
<1>5. Passes("wait", Aim) /\ (Cur.kind # "wait" => Passes("update", Aim))
  BY <1>2, <1>4 DEF Passes
<1>6. Found("wait", vbr)
  <2>1. CASE phase = "create"
    BY <1>2, <2>1 DEF Found
  <2>2. CASE phase # "create"
    BY <1>1, <1>2, <2>2 DEF Found, ForNode
  <2>3. QED
    BY <2>1, <2>2
<1>7. Brings(Effect(Cur.req), Cur)
  BY <1>2, <1>4, SessionEffect DEF ForNode
<1>8. Served(Effect(Cur.req)) /\ (Effect(Cur.req).cluster => vbr.cluster \/ Clusters(Aim))
  BY <1>2, <1>7, SameAim DEF Brings
<1>9. QED
  BY <1>2, <1>5, <1>6, <1>8

\* A request that is accepted.
LEMMA CreateStep ==
    ASSUME CraftInv, Create
    PROVE  CraftInv'
<1>1. /\ Creating /\ sent' = Append(sent, Cur.req) /\ Goto("wait")
      /\ UNCHANGED <<spec, shell, tries, env, vbr, runs, faults>>
  BY DEF Create, Write
<1>2. at <= Len(Outline) /\ Typed /\ Captured /\ Passes("wait", Aim) /\ Found("wait", vbr)
  BY <1>1, AtRequest
<1>3. Scalars
  BY <1>1, <1>2, Written DEF Scalars, Typed, Goto, Phases
<1>4. Keeps
  BY <1>1, <1>2, KeepsEnv
<1>5. Stays
  BY <1>1, <1>2 DEF Stays, Goto
<1>6. ServerStep
  BY <1>1, SamePlace
<1>7. QED
  BY <1>3, <1>4, <1>5, <1>6, Outcome

\* A request that fails.
LEMMA CreateFailsStep ==
    ASSUME CraftInv, CreateFails
    PROVE  CraftInv'
<1>1. /\ Creating /\ sent' = Append(sent, Cur.req) /\ Stop /\ vbr' \in {vbr, Effect(Cur.req)}
      /\ (faults' = faults \/ faults' = faults + 1)
      /\ UNCHANGED <<spec, shell, tries, env, runs>>
  BY DEF CreateFails, Write, Fault
<1>2. /\ at <= Len(Outline) /\ Typed /\ Captured
      /\ Served(Effect(Cur.req)) /\ (Effect(Cur.req).cluster => vbr.cluster \/ Clusters(Aim))
  BY <1>1, AtRequest
<1>3. Scalars
  BY <1>1, <1>2, Written DEF Scalars, Typed, Stop, Goto, Phases
<1>4. Keeps
  BY <1>1, <1>2, KeepsEnv
<1>5. Stays
  BY <1>1, <1>2, StopStays
<1>6. ServerStep
  <2>1. CASE vbr' = vbr
    BY <2>1, SamePlace
  <2>2. CASE vbr' = Effect(Cur.req)
    BY <1>2, <2>2 DEF ServerStep
  <2>3. QED
    BY <1>1, <2>1, <2>2
<1>7. QED
  BY <1>3, <1>4, <1>5, <1>6, Outcome

\* A request that finds components pending.
LEMMA PendingStep ==
    ASSUME CraftInv, Pending
    PROVE  CraftInv'
<1>1. /\ Creating /\ Cur.kind # "wait" /\ sent' = Append(sent, Cur.req) /\ faults' = faults + 1
      /\ \/ Goto("update") /\ tries' = tries + 1
         \/ Stop /\ UNCHANGED tries
      /\ UNCHANGED <<spec, shell, env, vbr, runs>>
  BY DEF Pending, Write, Fault
<1>2. at <= Len(Outline) /\ Typed /\ Captured /\ Passes("update", Aim) /\ Found("wait", vbr)
  BY <1>1, AtRequest
<1>3. Scalars
  BY <1>1, <1>2, Written DEF Scalars, Typed, Stop, Goto, Phases
<1>4. Keeps
  BY <1>1, <1>2, KeepsEnv
<1>5. Stays
  <2>1. CASE Stop
    BY <1>2, <2>1, StopStays
  <2>2. CASE Goto("update")
    BY <1>1, <1>2, <2>2 DEF Stays, Goto, Found
  <2>3. QED
    BY <1>1, <2>1, <2>2
<1>6. ServerStep
  BY <1>1, SamePlace
<1>7. QED
  BY <1>3, <1>4, <1>5, <1>6, Outcome

\* The update of the components.
LEMMA UpdateStep ==
    ASSUME CraftInv, Update
    PROVE  CraftInv'
<1>1. /\ phase = "update" /\ (\E x : sent' = Append(sent, x)) /\ (Goto("create") \/ Stop)
      /\ (faults' = faults \/ faults' = faults + 1)
      /\ UNCHANGED <<spec, shell, tries, env, vbr, runs>>
  BY DEF Update, Write, Fault
<1>2. /\ at <= Len(Outline) /\ Typed /\ Captured /\ Placed /\ Found("update", vbr)
  BY <1>1, Now
<1>3. Scalars
  BY <1>1, <1>2, Written DEF Scalars, Typed, Stop, Goto, Phases
<1>4. Keeps
  BY <1>1, <1>2, KeepsEnv
<1>5. Stays
  <2>1. CASE Stop
    BY <1>2, <2>1, StopStays
  <2>2. CASE Goto("create")
    BY <1>1, <1>2, <2>2 DEF Stays, Goto, Found, Placed, Passes
  <2>3. QED
    BY <1>1, <2>1, <2>2
<1>6. ServerStep
  BY <1>1, SamePlace
<1>7. QED
  BY <1>3, <1>4, <1>5, <1>6, Outcome

\* A step that waits for its session.
LEMMA AtSession ==
    ASSUME CraftInv, phase = "wait"
    PROVE  /\ at <= Len(Outline) /\ Typed /\ Captured /\ Cur.kind = Aim.kind
           /\ Served(Effect(Cur.req)) /\ (Effect(Cur.req).cluster => vbr.cluster \/ Clusters(Aim))
           /\ Achieved(Effect(Cur.req), Aim)
           /\ Catches(Cur.var, NullId)
           /\ (Cur.kind = "hr" => Catches(Cur.var, RepoId(Cur.req.body.name)))
<1>1. /\ at <= Len(Outline) /\ Formed(spec, Cur, env) /\ SameStep(Cur, Aim) /\ Cur.kind = Aim.kind
      /\ (ForNode(Cur) => Cur.node = Aim.node) /\ (ForNode(Cur) <=> ForNode(Aim))
      /\ Typed /\ Captured /\ Backed /\ Placed /\ Found(phase, vbr)
  BY Now
<1>2. ForNode(Aim) \/ Aim.kind \in {"create", "wait"}
  BY <1>1 DEF Placed, Passes
<1>3. Brings(Effect(Cur.req), Cur)
  BY <1>1, <1>2, SessionEffect DEF ForNode
<1>4. ForNode(Cur) => Cur.node.ip \in vbr.hosts
  BY <1>1 DEF Found
<1>5. Served(Effect(Cur.req)) /\ (Effect(Cur.req).cluster => vbr.cluster \/ Clusters(Aim))
  BY <1>1, <1>3, SameAim DEF Brings
<1>6. Achieved(Effect(Cur.req), Aim)
  BY <1>1, <1>3, <1>4, SameAchieved DEF Brings
<1>7. Catches(Cur.var, NullId)
  BY <1>1, VarIsOne, CatchesNull
<1>8. Cur.kind = "hr" => Catches(Cur.var, RepoId(Cur.req.body.name))
  BY <1>1, NameOfAim
<1>9. QED
  BY <1>1, <1>5, <1>6, <1>7, <1>8

\* The end of a session.
LEMMA SessionStep ==
    ASSUME CraftInv, SessionEnds \/ SessionFails \/ RepoUnresolved
    PROVE  CraftInv'
<1>1. /\ phase = "wait" /\ vbr' \in {vbr, Effect(Cur.req)}
      /\ (tries' = tries \/ tries' = 1) /\ (faults' = faults \/ faults' = faults + 1)
      /\ \/ Stop /\ UNCHANGED env
         \/ /\ vbr' = Effect(Cur.req) /\ Advance
            /\ Capture(NullId) \/ (Cur.kind = "hr" /\ Capture(RepoId(Cur.req.body.name)))
      /\ UNCHANGED <<spec, shell, sent, runs>>
  <2>1. CASE SessionEnds
    BY <2>1 DEF SessionEnds
  <2>2. CASE SessionFails
    BY <2>2 DEF SessionFails, Fault
  <2>3. CASE RepoUnresolved
    BY <2>3 DEF RepoUnresolved, Fault
  <2>4. QED
    BY <2>1, <2>2, <2>3
<1>2. /\ at <= Len(Outline) /\ Typed /\ Captured
      /\ Served(Effect(Cur.req)) /\ (Effect(Cur.req).cluster => vbr.cluster \/ Clusters(Aim))
      /\ Achieved(Effect(Cur.req), Aim)
      /\ Catches(Cur.var, NullId)
      /\ (Cur.kind = "hr" => Catches(Cur.var, RepoId(Cur.req.body.name)))
  BY <1>1, AtSession
<1>3. Scalars
  BY <1>1, <1>2 DEF Scalars, Typed, Stop, Goto, Advance, Phases
<1>4. Keeps
  BY <1>1, <1>2, Captures, KeepsEnv
<1>5. Stays \/ Passed
  <2>1. CASE Stop
    BY <1>2, <2>1, StopStays
  <2>2. CASE Advance /\ vbr' = Effect(Cur.req)
    BY <1>2, <2>2 DEF Passed, Settled, Advance
  <2>3. QED
    BY <1>1, <2>1, <2>2
<1>6. ServerStep
  <2>1. CASE vbr' = vbr
    BY <2>1, SamePlace
  <2>2. CASE vbr' = Effect(Cur.req)
    BY <1>2, <2>2 DEF ServerStep
  <2>3. QED
    BY <1>1, <2>1, <2>2
<1>7. QED
  BY <1>3, <1>4, <1>5, <1>6, Outcome

\* What a session is to make.
LEMMA MadeIsOne ==
    ASSUME Typed, at <= Len(Outline)
    PROVE  /\ Made(Cur) \in Things /\ Made(Cur) = Made(Aim)
           /\ Cur.kind = "hr" => Made(Cur) = RepoId(Cur.req.body.name)
<1>1. /\ Formed(spec, Cur, env) /\ SameStep(Cur, Aim) /\ spec \in Specs
  BY Here DEF Typed
<1>2. Cur.kind = "hr" => /\ Cur.req.body.name = RepoName(spec, Cur.node)
                         /\ RepoName(spec, Cur.node) \in Names
  BY <1>1, ByKind, NamesApart DEF HardenedForm
<1>3. Cur.kind = "proxy" => Cur.node.ip \in Names
  BY <1>1, ByKind, NamesApart DEF ProxyForm
<1>4. spec.s3.name \in Names /\ "" \in Names
  BY <1>1, NamesApart DEF Names
<1>5. Made(Cur) \in {RepoId(spec.s3.name), Id("cluster", "")}
      \/ (Cur.kind = "hr" /\ Made(Cur) = RepoId(RepoName(spec, Cur.node)))
      \/ (Cur.kind = "proxy" /\ Made(Cur) = Id("proxy", Cur.node.ip))
  BY DEF Made
<1>6. \A o \in {"repo", "proxy", "cluster"}, n \in Names : Id(o, n) \in Things
  <2> HIDE DEF Names
  <2> QED
    BY DEF Id, Things
<1>7. Made(Cur) \in Things
  BY <1>2, <1>3, <1>4, <1>5, <1>6 DEF RepoId
<1>8. Made(Cur) = Made(Aim)
  BY <1>1 DEF SameStep, Made, ForNode
<1>9. Cur.kind = "hr" => Made(Cur) = RepoId(Cur.req.body.name)
  BY <1>2 DEF Made
<1>10. QED
  BY <1>7, <1>8, <1>9

\* A session is stopped: the script goes on without what it should have made.
LEMMA SessionStopsStep ==
    ASSUME CraftInv, SessionStops
    PROVE  CraftInv'
<1> DEFINE m == Made(Cur)
<1>1. /\ phase = "wait" /\ vbr' = [vbr EXCEPT !.stopped = @ \cup {m}] /\ Advance /\ tries' = 1
      /\ faults' = faults + 1
      /\ Capture(NullId) \/ (Cur.kind = "hr" /\ Capture(m))
      /\ UNCHANGED <<spec, shell, sent, runs>>
  BY DEF SessionStops, Fault
<1>2. /\ at <= Len(Outline) /\ Typed /\ Captured /\ Catches(Cur.var, NullId)
      /\ (Cur.kind = "hr" => Catches(Cur.var, RepoId(Cur.req.body.name)))
  BY <1>1, AtSession
<1>3. /\ m \in Things /\ m = Made(Aim) /\ (Cur.kind = "hr" => m = RepoId(Cur.req.body.name))
  BY <1>2, MadeIsOne
<1>4. Backed /\ Placed /\ Found(phase, vbr)
  BY DEF CraftInv
<1> HIDE DEF m
<1>5. /\ Served(vbr') /\ vbr'.cluster = vbr.cluster /\ vbr'.hosts = vbr.hosts /\ m \in vbr'.stopped
  BY <1>1, <1>2, <1>3, <1>4, Stops
<1>6. Scalars
  BY <1>1, <1>2 DEF Scalars, Typed, Advance, Phases
<1>7. Keeps
  BY <1>1, <1>2, <1>3, Captures
<1>8. ServerStep
  BY <1>5 DEF ServerStep
<1>9. Passed
  <2>1. ForNode(Aim) => Aim.node.ip \in vbr'.hosts
    BY <1>1, <1>4, <1>5 DEF Found
  <2>2. ~Deletes(Aim)
    BY <1>1, <1>4 DEF Placed, Passes, ForNode, Deletes
  <2>3. QED
    BY <1>1, <1>2, <1>3, <1>5, <2>1, <2>2 DEF Passed, Settled, Advance
<1>10. QED
  BY <1>6, <1>7, <1>8, <1>9, Outcome

-----------------------------------------------------------------------------
(* Beginnings. *)

\* A run begins at the first step with no variable set.
LEMMA Begins ==
    ASSUME spec \in Specs, at = 1, phase = "start", env = [x \in Variables |-> NullId], Typed
    PROVE  Done /\ Placed /\ Found(phase, vbr) /\ Captured
<1>1. Len(Outline) \in Nat
  BY Here
<1>2. Done /\ Placed /\ Found(phase, vbr)
  BY <1>1 DEF Done, Placed, Found
<1>3. env["repo"] = NullId /\ env["defaultRepo"] = NullId
  BY DEF Variables
<1>4. QED
  BY <1>2, <1>3 DEF Captured

\* No variable is set.
LEMMA EmptyEnv ==
    [x \in Variables |-> NullId] \in [Variables -> Ids]
<1>1. NullId \in Ids
  BY DEF NullId, Id, Ids, Names
<1> HIDE DEF NullId, Variables, Ids
<1>2. QED
  BY <1>1

\* The server an administrator has before the first run.
LEMMA InitInv ==
    ASSUME Init
    PROVE  CraftInv
<1>1. PICK self \in {"ip", "name"}, backups \in {<<>>, <<"b1">>}, license \in {"none", "valid"} :
        LET own == IF VSAs(spec) = <<>> THEN "target" ELSE Head(VSAs(spec))[self] IN
        vbr = [self |-> own, hosts |-> {own}, repos |-> {DefaultRepo}, proxies |-> <<>>, creds |-> {},
               target |-> RepoId(DefaultRepo), backups |-> backups, cluster |-> FALSE,
               license |-> license, stopped |-> {}]
  BY Zenon DEF Init
<1> DEFINE own == IF VSAs(spec) = <<>> THEN "target" ELSE Head(VSAs(spec))[self]
<1>2. spec \in Specs /\ spec \in Specifications
  BY CraftAssumption DEF Init
<1>3. own \in Names
  <2>1. VSAs(spec) \in Seq(Nodes)
    BY <1>2, Selected
  <2>2. VSAs(spec) # <<>> => Head(VSAs(spec)) \in Nodes
    BY <2>1
  <2>3. QED
    BY <2>2 DEF Nodes, Names
<1> HIDE DEF own
<1>4. vbr = [self |-> own, hosts |-> {own}, repos |-> {DefaultRepo}, proxies |-> <<>>, creds |-> {},
             target |-> RepoId(DefaultRepo), backups |-> backups, cluster |-> FALSE,
             license |-> license, stopped |-> {}]
  BY <1>1, Zenon DEF own
<1>5. RepoId(DefaultRepo) \in Ids /\ DefaultRepo \in Names /\ backups \in Seq(Names)
  <2>1. DefaultRepo \in Names /\ "b1" \in Names
    BY Zenon DEF Names
  <2> HIDE DEF Names, DefaultRepo
  <2>2. RepoId(DefaultRepo) \in Ids
    BY <2>1 DEF RepoId, Id, Ids
  <2>3. <<>> \in Seq(Names) /\ <<"b1">> \in Seq(Names)
    BY <2>1
  <2>4. QED
    BY <2>1, <2>2, <2>3
<1>6. vbr \in Server
  <2> DEFINE target == RepoId(DefaultRepo)
  <2> HIDE DEF Names, Ids, Things, target
  <2> QED
    BY <1>3, <1>4, <1>5 DEF Server, target
<1>7. Typed
  <2>1. IsSeq(<<>>)
    BY DEF IsSeq
  <2>2. /\ shell \in Shells /\ at = 1 /\ phase = "start" /\ tries = 1 /\ sent = <<>>
        /\ runs = 1 /\ faults = 0 /\ env = [x \in Variables |-> NullId]
    BY DEF Init
  <2>3. QED
    BY <1>2, <1>6, <2>1, <2>2, EmptyEnv DEF Typed, Phases
<1>8. Backed
  BY <1>4 DEF Backed, Sound, RepoId, Id
<1>9. Done /\ Placed /\ Found(phase, vbr) /\ Captured
  BY <1>2, <1>7, Begins DEF Init
<1>10. QED
  BY <1>7, <1>8, <1>9 DEF CraftInv

\* The script is run again: it begins, and nothing on the server is lost.
LEMMA RerunStep ==
    ASSUME CraftInv, Rerun
    PROVE  CraftInv'
<1>1. /\ UNCHANGED <<spec, shell, faults>> /\ runs' = runs + 1
      /\ at' = 1 /\ phase' = "start" /\ tries' = 1 /\ sent' = <<>>
      /\ env' = [x \in Variables |-> NullId] /\ vbr' = [vbr EXCEPT !.stopped = {}]
  BY DEF Rerun
<1>2. Typed /\ Backed
  BY DEF CraftInv
<1>20. /\ vbr' \in Server /\ vbr'.target = vbr.target /\ vbr'.repos = vbr.repos /\ vbr'.creds = vbr.creds
       /\ vbr'.cluster = vbr.cluster
  <2> HIDE DEF Things
  <2> QED
    BY <1>1, <1>2 DEF Typed, Server
<1>3. Typed'
  <2>1. IsSeq(<<>>)
    BY DEF IsSeq
  <2>2. QED
    BY <1>1, <1>2, <1>20, <2>1, EmptyEnv DEF Typed, Phases
<1>4. Backed'
  BY <1>1, <1>2, <1>20 DEF Backed, Sound, Throws
<1>5. Outline' = Outline
  BY <1>1 DEF Outline, Plan, PlanHA, PlanS3, PlanNode, HardenedRepo, Mount
<1>6. Len(Outline) \in Nat
  BY <1>2, Here
<1>7. Done' /\ Placed' /\ Found(phase, vbr)'
  BY <1>1, <1>5, <1>6 DEF Done, Placed, Found
<1>8. Captured'
  <2>1. env'["repo"] = NullId /\ env'["defaultRepo"] = NullId
    BY <1>1 DEF Variables
  <2>2. QED
    BY <2>1 DEF Captured
<1>9. QED
  BY <1>3, <1>4, <1>7, <1>8 DEF CraftInv

\* Each step preserves the invariant.
LEMMA NextInv ==
    ASSUME CraftInv, [Next]_vars
    PROVE  CraftInv'
<1>1. CASE LookUp \/ LookUpFails
  BY <1>1, LookUpStep
<1>2. CASE Call
  BY <1>2, CallStep
<1>3. CASE CallFails
  BY <1>3, CallFailsStep
<1>4. CASE Register
  BY <1>4, RegisterStep
<1>5. CASE RegisterFails
  BY <1>5, RegisterFailsStep
<1>6. CASE HostAdded
  BY <1>6, HostAddedStep
<1>7. CASE HostLost
  BY <1>7, HostLostStep
<1>8. CASE FindPart
  BY <1>8, FindPartStep
<1>9. CASE FindPartFails
  BY <1>9, FindPartFailsStep
<1>10. CASE Create
  BY <1>10, CreateStep
<1>11. CASE CreateFails
  BY <1>11, CreateFailsStep
<1>12. CASE Pending
  BY <1>12, PendingStep
<1>13. CASE Update
  BY <1>13, UpdateStep
<1>14. CASE SessionEnds \/ SessionFails \/ RepoUnresolved
  BY <1>14, SessionStep
<1>15. CASE Rerun
  BY <1>15, RerunStep
<1>150. CASE SessionStops
  BY <1>150, SessionStopsStep
<1>16. CASE UNCHANGED vars
  <2>1. /\ UNCHANGED <<spec, shell, at, phase>> /\ UNCHANGED <<tries, env, sent, vbr, runs, faults>>
    BY <1>16 DEF vars
  <2>2. Outline' = Outline
    BY <2>1 DEF Outline, Plan, PlanHA, PlanS3, PlanNode, HardenedRepo, Mount
  <2>3. Typed' /\ Captured' /\ Backed'
    BY <2>1 DEF CraftInv, Typed, Captured, Backed, Sound, Throws
  <2>4. Aim' = Aim
    BY <2>1, <2>2 DEF Aim
  <2>5. Done' /\ Placed' /\ Found(phase, vbr)'
    BY <2>1, <2>2, <2>4 DEF CraftInv, Done, Settled, Achieved, Made, Placed, Found, Throws
  <2>6. QED
    BY <2>3, <2>5 DEF CraftInv
<1>17. QED
  BY <1>1, <1>2, <1>3, <1>4, <1>5, <1>6, <1>7, <1>8, <1>9, <1>10, <1>11, <1>12, <1>13, <1>14, <1>15,
     <1>150, <1>16, Zenon DEF Next

-----------------------------------------------------------------------------
(* What the script writes. *)

\* A request that adds nothing that is there.
New(req) ==
    Throws =>
        /\ req.path = "managedServers" => req.body.name \notin vbr.hosts
        /\ req.path = "repositories" /\ req.method = "POST" /\ req.body.type = "LinuxHardened"
             => req.body.name \notin vbr.repos

\* All that the action writes.
AllNew == \A i \in DOMAIN sent' \ DOMAIN sent : New(sent'[i])

\* One write more.
LEMMA OneMore ==
    ASSUME Typed, NEW x, New(x), sent' = Append(sent, x)
    PROVE  AllNew
<1> DEFINE Y == {sent[i] : i \in DOMAIN sent}
<1>1. sent \in Seq(Y)
  BY DEF Typed, IsSeq
<1> HIDE DEF Y
<1>2. \A i \in DOMAIN sent' \ DOMAIN sent : sent'[i] = x
  BY <1>1
<1>3. QED
  BY <1>2 DEF AllNew

\* Two writes more.
LEMMA TwoMore ==
    ASSUME Typed, NEW x, NEW y, New(x), New(y), sent' = sent \o <<x, y>>
    PROVE  AllNew
<1> DEFINE p == <<x, y>>
<1>1. Len(p) = 2 /\ p[1] = x /\ p[2] = y
  OBVIOUS
<1>2. IsSeq(sent) /\ IsSeq(p)
  <2>1. IsSeq(p)
    <3>1. p \in Seq({x, y}) /\ {x, y} = {p[i] : i \in DOMAIN p}
      OBVIOUS
    <3> HIDE DEF p
    <3>2. QED
      BY <3>1, Zenon DEF IsSeq
  <2>2. QED
    BY <2>1 DEF Typed
<1>3. sent' = sent \o p
  OBVIOUS
<1> HIDE DEF p
<1>4. /\ IsSeq(sent') /\ Len(sent') = Len(sent) + 2 /\ Len(sent) \in Nat
      /\ \A i \in 1 .. 2 : sent'[Len(sent) + i] = p[i]
  <2>1. /\ IsSeq(sent \o p) /\ Len(sent \o p) = Len(sent) + Len(p) /\ Len(sent) \in Nat
        /\ \A i \in 1 .. Len(p) : (sent \o p)[Len(sent) + i] = p[i]
    BY <1>2, Concatenation
  <2>2. QED
    BY <1>1, <1>3, <2>1
<1>5. DOMAIN sent = 1 .. Len(sent) /\ DOMAIN sent' = 1 .. Len(sent')
  <2>1. \A X, q : q \in Seq(X) => DOMAIN q = 1 .. Len(q)
    OBVIOUS
  <2>2. QED
    BY <1>2, <1>4, <2>1 DEF IsSeq
<1>6. \A i \in DOMAIN sent' \ DOMAIN sent : i = Len(sent) + 1 \/ i = Len(sent) + 2
  BY <1>4, <1>5
<1>7. sent'[Len(sent) + 1] = x /\ sent'[Len(sent) + 2] = y
  <2>1. 1 \in 1 .. 2 /\ 2 \in 1 .. 2
    OBVIOUS
  <2>2. QED
    BY <1>1, <1>4, <2>1
<1>8. QED
  BY <1>6, <1>7 DEF AllNew

\* No write more.
LEMMA NoMore ==
    ASSUME DOMAIN sent' \subseteq DOMAIN sent
    PROVE  AllNew
BY DEF AllNew

\* The calls of a step without a session add no host and no repository.
LEMMA CallIsNew ==
    ASSUME NEW st, Formed(spec, st, env), st.kind \in {"call", "redirect"}
    PROVE  New(st.req)
<1>1. CASE PlainForm(st)
  BY <1>1 DEF PlainForm, RepositoryPaths, New
<1>2. CASE RedirectForm(st, env)
  <2>1. st.req.method = "PUT" /\ st.req.path = "configBackup"
    <3>1. RedirectConfigBackup(env.repo).method = "PUT" /\ RedirectConfigBackup(env.repo).path = "configBackup"
      BY DEF RedirectConfigBackup, Request
    <3>2. QED
      BY <1>2, <3>1 DEF RedirectForm
  <2>2. QED
    BY <2>1 DEF New
<1>3. CASE RemovalForm(st, env)
  <2>1. st.req.method = "DELETE" /\ st.req.path = "repositories"
    <3>1. /\ DeleteRepository(env.defaultRepo).method = "DELETE"
          /\ DeleteRepository(env.defaultRepo).path = "repositories"
      BY DEF DeleteRepository, Request
    <3>2. QED
      BY <1>3, <3>1 DEF RemovalForm
  <2>2. QED
    BY <2>1 DEF New
<1>4. QED
  BY <1>1, <1>2, <1>3, ByKind

\* A hardened repository is looked up before the request for it.
LEMMA SessionIsNew ==
    ASSUME CraftInv, Creating
    PROVE  New(Cur.req)
<1>1. phase # "start" \/ at <= Len(Steps)
  BY DEF Creating, At
<1>2. Formed(spec, Cur, env) /\ Cur.kind = Aim.kind /\ (ForNode(Cur) => Cur.node = Aim.node)
  BY <1>1, Now
<1>3. Passes("wait", Aim) /\ Found("wait", vbr)
  BY AtRequest
<1>4. CASE Cur.kind = "hr"
  <2>1. HardenedForm(spec, Cur)
    BY <1>2, <1>4, ByKind
  <2>2. Throws => Cur.req.body.name \notin vbr.repos
    BY <1>2, <1>3, <1>4, <2>1 DEF HardenedForm, Found, ForNode
  <2>3. Cur.req.path # "managedServers"
    BY <2>1 DEF HardenedForm
  <2>4. QED
    BY <2>2, <2>3 DEF New
<1>5. CASE Cur.kind = "proxy"
  <2>1. Cur.req = AddVmwareProxy(HostId(Cur.node.ip))
    BY <1>2, <1>5, ByKind DEF ProxyForm
  <2>2. AddVmwareProxy(HostId(Cur.node.ip)).path = "proxies"
    BY DEF AddVmwareProxy, Request
  <2>3. QED
    BY <2>1, <2>2 DEF New
<1>6. CASE ClusterForm(Cur)
  BY <1>6 DEF ClusterForm, New
<1>7. CASE StoreForm(spec, Cur)
  BY <1>7 DEF StoreForm, RepositoryPaths, New
<1>8. QED
  BY <1>2, <1>3, <1>4, <1>5, <1>6, <1>7, ByKind DEF Passes, ForNode

\* What each step writes.
LEMMA StepIsNew ==
    ASSUME CraftInv, [Next]_vars
    PROVE  AllNew
<1>1. Typed
  BY DEF CraftInv
<1>2. CASE Call \/ CallFails
  <2>1. /\ phase = "start" /\ at <= Len(Steps) /\ Cur.kind \in {"call", "redirect"}
        /\ (sent' = sent \/ sent' = Append(sent, Cur.req))
    BY <1>2 DEF Call, CallFails, At, Write
  <2>2. New(Cur.req)
    BY <2>1, Now, CallIsNew
  <2>3. QED
    BY <1>1, <2>1, <2>2, OneMore, NoMore
<1>3. CASE Register \/ RegisterFails
  <2> DEFINE x == ConnectionCertificate(Cur.node.ip, NoId)
             y == AddLinuxHost(Cur.node.ip, Cur.node.role, pairingCode(Cur.node))
  <2>1. sent' = sent \/ (sent' = sent \o <<x, y>> /\ (Throws => Cur.node.ip \notin vbr.hosts))
    BY <1>3, Zenon DEF Register, RegisterFails
  <2>2. New(x)
    BY DEF ConnectionCertificate, Request, New
  <2>3. y.path = "managedServers" /\ y.body.name = Cur.node.ip
    BY DEF AddLinuxHost, Request
  <2> HIDE DEF x, y
  <2>4. (Throws => Cur.node.ip \notin vbr.hosts) => New(y)
    BY <2>3 DEF New
  <2>5. QED
    BY <1>1, <2>1, <2>2, <2>4, TwoMore, NoMore
<1>4. CASE Create \/ CreateFails \/ Pending
  <2>1. Creating /\ sent' = Append(sent, Cur.req)
    BY <1>4, Zenon DEF Create, CreateFails, Pending, Write
  <2>2. QED
    BY <1>1, <2>1, SessionIsNew, OneMore
<1>5. CASE Update
  <2> DEFINE x == UpdateHostComponents(UpdateHost)
  <2>1. sent' = Append(sent, x)
    BY <1>5, Zenon DEF Update, Write
  <2>2. x.path = "updateComponents"
    BY DEF UpdateHostComponents, Request
  <2> HIDE DEF x
  <2>3. New(x)
    BY <2>2 DEF New
  <2>4. QED
    BY <1>1, <2>1, <2>3, OneMore
<1>6. CASE Rerun
  <2>1. DOMAIN sent' = {}
    BY <1>6 DEF Rerun
  <2>2. QED
    BY <2>1, NoMore
<1>7. CASE \/ LookUp \/ LookUpFails \/ HostAdded \/ HostLost \/ FindPart \/ FindPartFails
           \/ SessionEnds \/ SessionStops \/ SessionFails \/ RepoUnresolved \/ UNCHANGED vars
  <2>1. sent' = sent
    BY <1>7, Zenon DEF LookUp, LookUpFails, HostAdded, HostLost, FindPart, FindPartFails, SessionEnds,
                       SessionStops, SessionFails, RepoUnresolved, vars
  <2>2. QED
    BY <2>1, NoMore
<1>8. QED
  BY <1>2, <1>3, <1>4, <1>5, <1>6, <1>7, Zenon DEF Next

-----------------------------------------------------------------------------
(* FlattenSeq, which is a recursive function, too. *)

\* The function that FlattenSeq is defined by, for the first m elements.
Flattening(g, u, m) == g = [i \in 1 .. m |-> IF i = 1 THEN u[i] ELSE g[i - 1] \o u[i]]

\* The function is there.
LEMMA FlatteningExists ==
    ASSUME NEW u, NEW b \in Nat
    PROVE  \E g : Flattening(g, u, b)
<1> DEFINE G == {m \in Nat : \E g : Flattening(g, u, m)}
<1>1. 0 \in G
  <2>1. Flattening([i \in 1 .. 0 |-> <<>>], u, 0)
    BY DEF Flattening
  <2>2. QED
    BY <2>1
<1>2. ASSUME NEW m \in Nat, m < b, m \in G
      PROVE  m + 1 \in G
  <2>1. PICK g : Flattening(g, u, m)
    BY <1>2
  <2> DEFINE last == IF m = 0 THEN u[1] ELSE g[m] \o u[m + 1]
             h    == [i \in 1 .. (m + 1) |-> IF i = m + 1 THEN last ELSE g[i]]
  <2>2. \A i \in 1 .. m : h[i] = g[i]
    BY <1>2
  <2>3. h[m + 1] = last
    BY <1>2
  <2>4. Flattening(h, u, m + 1)
    <3> SUFFICES ASSUME NEW i \in 1 .. (m + 1)
                 PROVE  h[i] = IF i = 1 THEN u[i] ELSE h[i - 1] \o u[i]
      BY Zenon DEF Flattening
    <3>1. CASE i \in 1 .. m
      <4>1. i = 1 \/ i - 1 \in 1 .. m
        BY <3>1, <1>2
      <4>2. h[i] = g[i] /\ (i # 1 => h[i - 1] = g[i - 1])
        BY <3>1, <4>1, <2>2
      <4>3. g[i] = IF i = 1 THEN u[i] ELSE g[i - 1] \o u[i]
        BY <3>1, <2>1, Zenon DEF Flattening
      <4>4. QED
        BY <4>2, <4>3, Zenon
    <3>2. CASE i = m + 1
      <4>1. CASE m = 0
        <5>1. i = 1
          BY <3>2, <4>1
        <5>2. last = u[1]
          BY <4>1
        <5>3. QED
          BY <3>2, <5>1, <5>2, <2>3, Zenon
      <4>2. CASE m # 0
        <5>1. i # 1 /\ i - 1 = m /\ m \in 1 .. m
          BY <3>2, <4>2, <1>2
        <5>2. h[i - 1] = g[m]
          BY <5>1, <2>2
        <5>3. last = g[m] \o u[i]
          BY <3>2, <4>2, Zenon
        <5>4. QED
          BY <3>2, <5>1, <5>2, <5>3, <2>3, Zenon
      <4>3. QED
        BY <4>1, <4>2
    <3>3. QED
      BY <3>1, <3>2, <1>2
  <2>5. QED
    <3> HIDE DEF h
    <3> QED
      BY <1>2, <2>4
<1>3. b \in G
  <2> HIDE DEF G
  <2> QED
    BY <1>1, <1>2, UpTo
<1>4. QED
  BY <1>3

\* The function of a sequence and that of a beginning of it agree there.
LEMMA FlatteningsAgree ==
    ASSUME NEW u, NEW w, NEW m \in Nat, NEW k \in Nat, m <= k, \A i \in 1 .. m : u[i] = w[i],
           NEW g, Flattening(g, u, m), NEW h, Flattening(h, w, k)
    PROVE  \A i \in 1 .. m : g[i] = h[i]
<1> DEFINE G == {b \in Nat : \A i \in 1 .. b : i <= m => g[i] = h[i]}
<1>1. 0 \in G
  OBVIOUS
<1>2. ASSUME NEW b \in Nat, b < m, b \in G
      PROVE  b + 1 \in G
  <2>1. b + 1 \in 1 .. m /\ b + 1 \in 1 .. k
    BY <1>2
  <2>2. /\ g[b + 1] = IF b + 1 = 1 THEN u[b + 1] ELSE g[(b + 1) - 1] \o u[b + 1]
        /\ h[b + 1] = IF b + 1 = 1 THEN w[b + 1] ELSE h[(b + 1) - 1] \o w[b + 1]
    BY <2>1, Zenon DEF Flattening
  <2>3. (b + 1) - 1 = b /\ (b + 1 # 1 => g[b] = h[b])
    BY <1>2
  <2>4. g[b + 1] = h[b + 1]
    BY <2>1, <2>2, <2>3, Zenon
  <2>5. \A i \in 1 .. (b + 1) : i \in 1 .. b \/ i = b + 1
    BY <1>2
  <2>6. \A i \in 1 .. (b + 1) : i <= m => g[i] = h[i]
    BY <1>2, <2>4, <2>5
  <2>7. QED
    BY <1>2, <2>6
<1>3. m \in G
  <2> HIDE DEF G
  <2> QED
    BY <1>1, <1>2, UpTo
<1>4. QED
  BY <1>3

\* What FlattenSeq is.
LEMMA FlattenIs ==
    ASSUME NEW u, Len(u) \in Nat
    PROVE  /\ Len(u) = 0 => FlattenSeq(u) = u
           /\ Len(u) # 0 => \E g : Flattening(g, u, Len(u)) /\ FlattenSeq(u) = g[Len(u)]
<1> DEFINE f == CHOOSE g : Flattening(g, u, Len(u))
<1>1. FlattenSeq(u) = IF Len(u) = 0 THEN u ELSE f[Len(u)]
  BY Zenon DEF FlattenSeq, Flattening
<1>2. Flattening(f, u, Len(u))
  BY FlatteningExists
<1> HIDE DEF f
<1>3. QED
  BY <1>1, <1>2

\* A sequence after the empty one.
LEMMA NothingBefore ==
    ASSUME NEW q, IsSeq(q)
    PROVE  <<>> \o q = q /\ q \o <<>> = q
<1> DEFINE X == {q[i] : i \in DOMAIN q}
<1>1. q \in Seq(X)
  BY DEF IsSeq
<1> HIDE DEF X
<1>2. QED
  BY <1>1

\* Three sequences may be joined in either order.
Regroups(p, q, r) == (p \o q) \o r = p \o (q \o r)

\* They may.
LEMMA Associative ==
    ASSUME NEW p, IsSeq(p), NEW q, IsSeq(q), NEW r, IsSeq(r)
    PROVE  Regroups(p, q, r)
<1> DEFINE P == {p[i] : i \in DOMAIN p}
           Q == {q[i] : i \in DOMAIN q}
           R == {r[i] : i \in DOMAIN r}
<1>1. p \in Seq(P) /\ q \in Seq(Q) /\ r \in Seq(R)
  BY DEF IsSeq
<1> HIDE DEF P, Q, R
<1> DEFINE X == P \cup Q \cup R
<1>2. p \in Seq(X) /\ q \in Seq(X) /\ r \in Seq(X)
  BY <1>1
<1> HIDE DEF X
<1>3. QED
  BY <1>2 DEF Regroups

\* The sequence of one more.
LEMMA FlattenMore ==
    ASSUME NEW F, NEW m \in Nat, IsSeq(F[1])
    PROVE  /\ FlattenSeq([i \in 1 .. 0 |-> F[i]]) = <<>>
           /\ FlattenSeq([i \in 1 .. (m + 1) |-> F[i]]) = FlattenSeq([i \in 1 .. m |-> F[i]]) \o F[m + 1]
<1> DEFINE u == [i \in 1 .. m |-> F[i]]
           w == [i \in 1 .. (m + 1) |-> F[i]]
           z == [i \in 1 .. 0 |-> F[i]]
<1>1. /\ Len(u) = m /\ Len(w) = m + 1 /\ Len(z) = 0 /\ z = <<>>
      /\ \A i \in 1 .. m : u[i] = F[i] /\ w[i] = F[i]
      /\ w[m + 1] = F[m + 1]
  <2>1. m + 1 \in Nat /\ 0 \in Nat
    OBVIOUS
  <2>2. Len(u) = m /\ Len(w) = m + 1 /\ Len(z) = 0
    BY <2>1
  <2>3. (\A i \in 1 .. m : u[i] = F[i] /\ w[i] = F[i]) /\ w[m + 1] = F[m + 1]
    OBVIOUS
  <2>4. z = <<>>
    OBVIOUS
  <2>5. QED
    BY <2>2, <2>3, <2>4
<1>2. m = 0 => u = <<>>
  OBVIOUS
<1> HIDE DEF u, w, z
<1>3. FlattenSeq(z) = <<>>
  BY <1>1, FlattenIs
<1>4. PICK h : Flattening(h, w, m + 1) /\ FlattenSeq(w) = h[m + 1]
  <2>1. Len(w) \in Nat /\ Len(w) # 0
    BY <1>1
  <2>2. QED
    BY <1>1, <2>1, FlattenIs
<1>5. h[m + 1] = IF m + 1 = 1 THEN w[m + 1] ELSE h[(m + 1) - 1] \o w[m + 1]
  <2>1. m + 1 \in 1 .. (m + 1)
    OBVIOUS
  <2>2. QED
    BY <1>4, <2>1, Zenon DEF Flattening
<1>6. CASE m = 0
  <2>1. FlattenSeq(u) = <<>>
    BY <1>1, <1>2, <1>6, FlattenIs
  <2>2. FlattenSeq(w) = F[1] /\ m + 1 = 1
    BY <1>1, <1>4, <1>5, <1>6
  <2>3. QED
    BY <1>3, <2>1, <2>2, NothingBefore DEF u, w, z
<1>7. CASE m # 0
  <2>1. PICK g : Flattening(g, u, m) /\ FlattenSeq(u) = g[m]
    BY <1>1, <1>7, FlattenIs
  <2>2. g[m] = h[m]
    <3>1. m \in 1 .. m /\ m <= m + 1 /\ m + 1 \in Nat
      BY <1>7
    <3>2. (\A i \in 1 .. m : u[i] = w[i]) /\ Flattening(g, u, m) /\ Flattening(h, w, m + 1)
      BY <1>1, <1>4, <2>1
    <3>3. \A i \in 1 .. m : g[i] = h[i]
      <4> DEFINE k == m + 1
      <4>1. k \in Nat /\ m <= k /\ Flattening(h, w, k)
        BY <3>1, <3>2
      <4> HIDE DEF k
      <4>2. QED
        BY <3>2, <4>1, FlatteningsAgree
    <3>4. QED
      BY <3>1, <3>3
  <2>3. m + 1 # 1 /\ (m + 1) - 1 = m
    BY <1>7
  <2>4. FlattenSeq(w) = FlattenSeq(u) \o F[m + 1]
    BY <1>1, <1>4, <1>5, <2>1, <2>2, <2>3, Zenon
  <2>5. QED
    BY <1>3, <2>4 DEF u, w, z
<1>8. QED
  BY <1>6, <1>7

-----------------------------------------------------------------------------
(* What the steps of a plan send. *)

\* What a step sends when nothing fails.
Writes(st) ==
    IF st.kind \in {"host", "repo"} THEN <<>>
    ELSE IF ForNode(st)
    THEN <<ConnectionCertificate(st.node.ip, NoId),
           AddLinuxHost(st.node.ip, st.node.role, pairingCode(st.node)), st.req>>
    ELSE <<st.req>>

\* What the first m steps of a plan send, and what all of them do.
Sends(q, m) == FlattenSeq([i \in 1 .. m |-> Writes(q[i])])
SendsAll(q) == Sends(q, Len(q))

\* Short tuples are sequences.
LEMMA Tuples ==
    ASSUME NEW a, NEW b, NEW c
    PROVE  /\ IsSeq(<<>>) /\ IsSeq(<<a>>) /\ IsSeq(<<a, b>>) /\ IsSeq(<<a, b, c>>)
           /\ Len(<<a>>) = 1 /\ <<a>>[1] = a
<1>1. IsSeq(<<>>) /\ IsSeq(<<a>>) /\ Len(<<a>>) = 1 /\ <<a>>[1] = a
  BY DEF IsSeq
<1>2. IsSeq(<<a, b>>)
  <2> DEFINE p == <<a, b>>
  <2>1. Len(p) = 2 /\ DOMAIN p = 1 .. 2 /\ p[1] = a /\ p[2] = b /\ p \in Seq({a, b})
    OBVIOUS
  <2> HIDE DEF p
  <2>2. {a, b} = {p[i] : i \in DOMAIN p}
    BY <2>1
  <2>3. IsSeq(p)
    BY <2>1, <2>2, Zenon DEF IsSeq
  <2>4. QED
    BY <2>3 DEF p
<1>3. IsSeq(<<a, b, c>>)
  <2> DEFINE p == <<a, b, c>>
  <2>1. Len(p) = 3 /\ DOMAIN p = 1 .. 3 /\ p[1] = a /\ p[2] = b /\ p[3] = c /\ p \in Seq({a, b, c})
    OBVIOUS
  <2> HIDE DEF p
  <2>2. {a, b, c} = {p[i] : i \in DOMAIN p}
    BY <2>1
  <2>3. IsSeq(p)
    BY <2>1, <2>2, Zenon DEF IsSeq
  <2>4. QED
    BY <2>3 DEF p
<1>4. QED
  BY <1>1, <1>2, <1>3

\* What a step sends is a sequence.
LEMMA WritesSeq ==
    ASSUME NEW st
    PROVE  IsSeq(Writes(st))
<1> DEFINE a == ConnectionCertificate(st.node.ip, NoId)
           b == AddLinuxHost(st.node.ip, st.node.role, pairingCode(st.node))
           c == st.req
<1>1. Writes(st) \in {<<>>, <<a, b, c>>, <<c>>}
  BY Zenon DEF Writes
<1> HIDE DEF a, b, c
<1>2. IsSeq(<<>>) /\ IsSeq(<<a, b, c>>) /\ IsSeq(<<c>>)
  BY Tuples
<1>3. QED
  BY <1>1, <1>2 DEF c

\* The steps one by one.
LEMMA SendsMore ==
    ASSUME NEW q, NEW m \in Nat
    PROVE  Sends(q, 0) = <<>> /\ Sends(q, m + 1) = Sends(q, m) \o Writes(q[m + 1])
<1> DEFINE F == [i \in 1 .. (m + 1) |-> Writes(q[i])]
<1>1. /\ [i \in 1 .. 0 |-> F[i]] = [i \in 1 .. 0 |-> Writes(q[i])]
      /\ [i \in 1 .. m |-> F[i]] = [i \in 1 .. m |-> Writes(q[i])]
      /\ [i \in 1 .. (m + 1) |-> F[i]] = [i \in 1 .. (m + 1) |-> Writes(q[i])]
      /\ F[m + 1] = Writes(q[m + 1]) /\ F[1] = Writes(q[1])
  OBVIOUS
<1> HIDE DEF F
<1>2. IsSeq(F[1])
  BY <1>1, WritesSeq
<1>3. QED
  BY <1>1, <1>2, FlattenMore DEF Sends

\* What they send is a sequence.
LEMMA SendsSeq ==
    ASSUME NEW q, NEW b \in Nat
    PROVE  IsSeq(Sends(q, b))
<1> DEFINE G == {m \in Nat : IsSeq(Sends(q, m))}
<1>1. 0 \in G
  BY SendsMore, Tuples
<1>2. ASSUME NEW m \in Nat, m < b, m \in G
      PROVE  m + 1 \in G
  <2>1. IsSeq(Sends(q, m) \o Writes(q[m + 1]))
    BY <1>2, WritesSeq, Concatenation
  <2>2. Sends(q, m + 1) = Sends(q, m) \o Writes(q[m + 1])
    BY SendsMore
  <2>3. IsSeq(Sends(q, m + 1))
    BY <2>1, <2>2
  <2>4. QED
    BY <2>3
<1>3. b \in G
  <2> HIDE DEF G
  <2> QED
    BY <1>1, <1>2, UpTo
<1>4. QED
  BY <1>3

\* What is sent up to a step begins what is sent up to a later one.
LEMMA SendsStart ==
    ASSUME NEW q, NEW i \in Nat, NEW b \in Nat
    PROVE  \E r : IsSeq(r) /\ Sends(q, i + b) = Sends(q, i) \o r
<1> DEFINE G == {m \in Nat : \E r : IsSeq(r) /\ Sends(q, i + m) = Sends(q, i) \o r}
<1>1. 0 \in G
  <2>1. i + 0 = i
    OBVIOUS
  <2>2. Sends(q, i) = Sends(q, i) \o <<>> /\ IsSeq(<<>>)
    BY SendsSeq, NothingBefore, Tuples
  <2>3. Sends(q, i + 0) = Sends(q, i) \o <<>>
    BY <2>1, <2>2
  <2>4. QED
    BY <2>2, <2>3
<1>2. ASSUME NEW m \in Nat, m < b, m \in G
      PROVE  m + 1 \in G
  <2>1. PICK r : IsSeq(r) /\ Sends(q, i + m) = Sends(q, i) \o r
    BY <1>2
  <2> DEFINE w == Writes(q[(i + m) + 1])
  <2>2. IsSeq(w)
    BY WritesSeq
  <2>3. Sends(q, (i + m) + 1) = Sends(q, i + m) \o w
    <3>1. i + m \in Nat
      OBVIOUS
    <3>2. QED
      BY <3>1, SendsMore
  <2> HIDE DEF w
  <2>4. IsSeq(r \o w) /\ (Sends(q, i) \o r) \o w = Sends(q, i) \o (r \o w)
    <3>1. IsSeq(Sends(q, i))
      BY SendsSeq
    <3>2. IsSeq(r \o w)
      BY <2>1, <2>2, Concatenation
    <3>3. Regroups(Sends(q, i), r, w)
      BY <2>1, <2>2, <3>1, Associative
    <3>4. QED
      BY <3>2, <3>3 DEF Regroups
  <2>5. Sends(q, (i + m) + 1) = Sends(q, i) \o (r \o w)
    BY <2>1, <2>3, <2>4
  <2>6. (i + m) + 1 = i + (m + 1)
    OBVIOUS
  <2>7. Sends(q, i + (m + 1)) = Sends(q, i) \o (r \o w)
    BY <2>5, <2>6
  <2>8. \E z : IsSeq(z) /\ Sends(q, i + (m + 1)) = Sends(q, i) \o z
    <3> DEFINE z == r \o w
    <3>1. IsSeq(z) /\ Sends(q, i + (m + 1)) = Sends(q, i) \o z
      BY <2>4, <2>7
    <3> HIDE DEF z
    <3>2. QED
      BY <3>1
  <2>9. QED
    BY <2>8
<1>3. b \in G
  <2> HIDE DEF G
  <2> QED
    BY <1>1, <1>2, UpTo
<1>4. QED
  BY <1>3

\* Two plans, one after the other.
LEMMA SendsBoth ==
    ASSUME NEW p, IsSeq(p), NEW q, IsSeq(q)
    PROVE  SendsAll(p \o q) = SendsAll(p) \o SendsAll(q)
<1> DEFINE r == p \o q
           n == Len(p)
           b == Len(q)
<1>1. /\ Len(r) = n + b /\ n \in Nat /\ b \in Nat
      /\ \A i \in 1 .. n : r[i] = p[i]
      /\ \A i \in 1 .. b : r[n + i] = q[i]
  BY Concatenation
<1> HIDE DEF r, n, b
<1>2. Sends(r, n) = Sends(p, n)
  <2>1. \A i \in 1 .. n : Writes(r[i]) = Writes(p[i])
    BY <1>1
  <2>2. [i \in 1 .. n |-> Writes(r[i])] = [i \in 1 .. n |-> Writes(p[i])]
    BY <2>1
  <2>3. QED
    BY <2>2, Zenon DEF Sends
<1> DEFINE G == {m \in Nat : Sends(r, n + m) = Sends(p, n) \o Sends(q, m)}
<1>3. 0 \in G
  <2>1. n + 0 = n
    BY <1>1
  <2>2. Sends(q, 0) = <<>>
    BY SendsMore
  <2>3. Sends(p, n) \o <<>> = Sends(p, n)
    BY <1>1, SendsSeq, NothingBefore
  <2>4. Sends(r, n + 0) = Sends(p, n) \o Sends(q, 0)
    BY <1>2, <2>1, <2>2, <2>3
  <2>5. QED
    BY <2>4
<1>4. ASSUME NEW m \in Nat, m < b, m \in G
      PROVE  m + 1 \in G
  <2>1. n + m \in Nat /\ (n + m) + 1 = n + (m + 1) /\ m + 1 \in 1 .. b /\ m + 1 \in Nat
    BY <1>1, <1>4
  <2>2. Sends(r, (n + m) + 1) = Sends(r, n + m) \o Writes(r[(n + m) + 1])
    BY <2>1, SendsMore
  <2>3. r[(n + m) + 1] = q[m + 1]
    BY <1>1, <2>1
  <2>4. Sends(q, m + 1) = Sends(q, m) \o Writes(q[m + 1])
    BY SendsMore
  <2>5. Sends(r, n + m) = Sends(p, n) \o Sends(q, m)
    BY <1>4
  <2>6. (Sends(p, n) \o Sends(q, m)) \o Writes(q[m + 1]) = Sends(p, n) \o (Sends(q, m) \o Writes(q[m + 1]))
    <3>1. IsSeq(Sends(p, n)) /\ IsSeq(Sends(q, m)) /\ IsSeq(Writes(q[m + 1]))
      BY <1>1, SendsSeq, WritesSeq
    <3>2. Regroups(Sends(p, n), Sends(q, m), Writes(q[m + 1]))
      BY <3>1, Associative
    <3>3. QED
      BY <3>2 DEF Regroups
  <2>7. Sends(r, n + (m + 1)) = Sends(p, n) \o Sends(q, m + 1)
    BY <2>1, <2>2, <2>3, <2>4, <2>5, <2>6
  <2>8. QED
    BY <2>1, <2>7
<1>5. b \in G
  <2> HIDE DEF G
  <2> QED
    BY <1>1, <1>3, <1>4, UpTo
<1>6. Sends(r, n + b) = Sends(p, n) \o Sends(q, b)
  BY <1>5
<1>7. QED
  BY <1>1, <1>6 DEF SendsAll, r, n, b

\* What no step and what one step sends.
LEMMA SendsFew ==
    ASSUME NEW a
    PROVE  SendsAll(<<>>) = <<>> /\ SendsAll(<<a>>) = Writes(a)
<1>1. Len(<<>>) = 0 /\ Len(<<a>>) = 1 /\ <<a>>[1] = a
  OBVIOUS
<1>2. Sends(<<>>, 0) = <<>>
  BY SendsMore
<1> DEFINE q == <<a>>
<1> HIDE DEF q
<1>3. Sends(q, 0) = <<>> /\ Sends(q, 0 + 1) = Sends(q, 0) \o Writes(q[0 + 1])
  BY SendsMore
<1>4. 0 + 1 = 1
  OBVIOUS
<1>5. Sends(q, 1) = <<>> \o Writes(q[1])
  BY <1>3, <1>4
<1>6. Sends(q, 1) = Writes(a)
  BY <1>1, <1>5, WritesSeq, NothingBefore DEF q
<1>7. QED
  BY <1>1, <1>2, <1>6 DEF SendsAll, q

-----------------------------------------------------------------------------
(* The ideal plan. *)

\* What the variables of the script hold when each has been given its value and nothing fails.
Intended ==
    [x \in Variables |->
        CASE x = "hrMount"     -> HostId(vbr.self)
          [] x = "repo" /\ HRs(spec) # <<>> -> RepoId(RepoName(spec, Head(HRs(spec))))
          [] x = "defaultRepo" -> RepoId(DefaultRepo)
          [] x = "haCred"      -> Id("credentials", "HA secondary node")
          [] x = "s3Cred"      -> Id("cloudCredentials", spec.s3.name)
          [] OTHER             -> NullId]

\* The plan with these values.
Ideal == Plan(spec, Intended)

\* The specifications and shells that InSync is about.
Calm == Mirrored /\ (shell = "curl" => HRs(spec) = <<>>)

\* The variables that hold what an earlier step has made or found.
Caught == {"hrMount", "repo", "defaultRepo", "haCred", "s3Cred"}

\* The variables that a step reads.
Reads(st) ==
    {x \in Caught :
        \/ x = "hrMount" /\ st.kind = "hr"
        \/ x = "repo" /\ st.kind = "redirect"
        \/ x = "defaultRepo" /\ Deletes(st)
        \/ x = "haCred" /\ (Clusters(st) \/ (st.kind = "call" /\ st.req.path = "connectionCertificate"))
        \/ x = "s3Cred" /\ (Stores(st) \/ (st.kind = "call" /\ st.req.path = "newFolder"))}

\* Each variable that a step reads is one that an earlier step sets, and the default repository
\* is removed after the redirection.
Fed(q) ==
    \A i \in 1 .. Len(q) :
        /\ \A x \in Reads(q[i]) : \E j \in 1 .. Len(q) : j < i /\ q[j].var = x
        /\ Deletes(q[i]) => \E j \in 1 .. Len(q) : j < i /\ q[j].kind = "redirect"

\* A step b that comes after a step a.
Fits(a, b) ==
    /\ Deletes(a) => b.kind # "repo" /\ ~Deletes(b)
    /\ ForNode(a) /\ ForNode(b) => a.node.ip # b.node.ip
    /\ a.kind = "hr" /\ b.kind = "hr" => RepoName(spec, a.node) # RepoName(spec, b.node)
    /\ Stores(a) => b.kind # "hr"
    /\ ForNode(a) => b.var # "hrMount"

\* Every step fits what is before it.
Apart(q) == \A i, j \in 1 .. Len(q) : i < j => Fits(q[i], q[j])

\* What a step of the ideal plan asks of the server, and what it gives its variable.
Meant(st) ==
    /\ st.req.refs \subseteq {Intended[x] : x \in Reads(st)}
                             \cup (IF ForNode(st) THEN {HostId(st.node.ip)} ELSE {})
    /\ ForNode(st) => st.node.ip # vbr.self
    /\ st.kind = "hr" => "mountServer" \in DOMAIN st.req.body
    /\ st.kind = "hr" /\ st.var = "repo" => RepoId(RepoName(spec, st.node)) = Intended["repo"]
    /\ st.kind = "host" /\ st.var = "hrMount" => st.req.body = vbr.self
    /\ st.kind = "call" /\ st.var # "" =>
          /\ st.var \in {"haCred", "s3Cred"} /\ Created(st.req) = Intended[st.var]
    /\ Deletes(st) => vbr.backups = <<>>

\* A part p of the plan at hand, and the same part q of the ideal one: they agree on every step
\* whose variables hold what they are meant to.
Twins(p, q) ==
    /\ IsSeq(p) /\ IsSeq(q) /\ Len(p) = Len(q)
    /\ \A i \in 1 .. Len(q) :
          Meant(q[i]) /\ ((\A x \in Reads(q[i]) : env[x] = Intended[x]) => p[i] = q[i])

\* A part q of a plan, after the part c.
OnTop(c, q) ==
    /\ \A j \in 1 .. Len(q) :
          /\ \A x \in Reads(q[j]) : \/ \E k \in 1 .. Len(c) : c[k].var = x
                                    \/ \E k \in 1 .. Len(q) : k < j /\ q[k].var = x
          /\ Deletes(q[j]) => \/ \E k \in 1 .. Len(c) : c[k].kind = "redirect"
                              \/ \E k \in 1 .. Len(q) : k < j /\ q[k].kind = "redirect"
    /\ \A i \in 1 .. Len(c), j \in 1 .. Len(q) : Fits(c[i], q[j])
    /\ Apart(q)

\* Where an element of a joined sequence is from.
LEMMA FromEither ==
    ASSUME NEW p, IsSeq(p), NEW q, IsSeq(q), NEW i \in 1 .. Len(p \o q)
    PROVE  /\ Len(p) \in Nat /\ Len(q) \in Nat
           /\ \/ i \in 1 .. Len(p) /\ (p \o q)[i] = p[i]
              \/ \E j \in 1 .. Len(q) : i = Len(p) + j /\ (p \o q)[i] = q[j]
<1> DEFINE r == p \o q
<1>1. /\ Len(r) = Len(p) + Len(q) /\ Len(p) \in Nat /\ Len(q) \in Nat
      /\ \A k \in 1 .. Len(p) : r[k] = p[k]
      /\ \A k \in 1 .. Len(q) : r[Len(p) + k] = q[k]
  BY Concatenation
<1>2. i \in 1 .. Len(r)
  OBVIOUS
<1> HIDE DEF r
<1>3. CASE i \in 1 .. Len(p)
  BY <1>1, <1>3 DEF r
<1>4. CASE i \notin 1 .. Len(p)
  <2>1. i - Len(p) \in 1 .. Len(q) /\ i = Len(p) + (i - Len(p))
    BY <1>1, <1>2, <1>4
  <2>2. r[i] = q[i - Len(p)]
    BY <1>1, <2>1
  <2>3. QED
    BY <1>1, <2>1, <2>2 DEF r
<1>5. QED
  BY <1>3, <1>4

\* Twins joined.
LEMMA TwinsJoint ==
    ASSUME NEW p, NEW q, NEW p2, NEW q2, Twins(p, q), Twins(p2, q2)
    PROVE  Twins(p \o p2, q \o q2)
<1>1. IsSeq(p) /\ IsSeq(q) /\ IsSeq(p2) /\ IsSeq(q2) /\ Len(p) = Len(q) /\ Len(p2) = Len(q2)
  BY DEF Twins
<1> DEFINE l == p \o p2
           r == q \o q2
<1>2. /\ IsSeq(l) /\ Len(l) = Len(p) + Len(p2) /\ Len(p) \in Nat /\ Len(p2) \in Nat
      /\ \A i \in 1 .. Len(p) : l[i] = p[i]
      /\ \A i \in 1 .. Len(p2) : l[Len(p) + i] = p2[i]
  <2>1. IsSeq(p) /\ IsSeq(p2)
    BY <1>1
  <2>2. QED
    BY <2>1, Concatenation
<1>3. IsSeq(r) /\ Len(r) = Len(q) + Len(q2)
  BY <1>1, Concatenation
<1>4. ASSUME NEW i \in 1 .. Len(r)
      PROVE  Meant(r[i]) /\ ((\A x \in Reads(r[i]) : env[x] = Intended[x]) => l[i] = r[i])
  <2>1. \/ i \in 1 .. Len(q) /\ r[i] = q[i]
        \/ \E j \in 1 .. Len(q2) : i = Len(q) + j /\ r[i] = q2[j]
    BY <1>1, FromEither
  <2> HIDE DEF l, r
  <2>2. CASE i \in 1 .. Len(q) /\ r[i] = q[i]
    BY <1>1, <1>2, <2>2 DEF Twins
  <2>3. CASE \E j \in 1 .. Len(q2) : i = Len(q) + j /\ r[i] = q2[j]
    <3>1. PICK j \in 1 .. Len(q2) : i = Len(q) + j /\ r[i] = q2[j]
      BY <2>3
    <3>2. l[i] = p2[j]
      BY <1>1, <1>2, <3>1
    <3>3. QED
      BY <1>1, <3>1, <3>2 DEF Twins
  <2>4. QED
    BY <2>1, <2>2, <2>3
<1> HIDE DEF l, r
<1>5. Twins(l, r)
  BY <1>1, <1>2, <1>3, <1>4 DEF Twins
<1>6. QED
  BY <1>5 DEF l, r

\* A step and no step.
LEMMA TwinsFew ==
    ASSUME NEW a, NEW b, Meant(b), (\A x \in Reads(b) : env[x] = Intended[x]) => a = b
    PROVE  Twins(<<a>>, <<b>>)
<1>1. /\ IsSeq(<<a>>) /\ Len(<<a>>) = 1 /\ <<a>>[1] = a
      /\ IsSeq(<<b>>) /\ Len(<<b>>) = 1 /\ <<b>>[1] = b
  BY DEF IsSeq
<1>2. \A i \in 1 .. 1 : i = 1
  OBVIOUS
<1> DEFINE p == <<a>>
           q == <<b>>
<1> HIDE DEF p, q
<1>3. Twins(p, q)
  BY <1>1, <1>2 DEF Twins, p, q
<1>4. QED
  BY <1>3 DEF p, q

\* Nothing and nothing.
LEMMA TwinsNone == Twins(<<>>, <<>>)
<1>1. IsSeq(<<>>) /\ Len(<<>>) = 0 /\ \A i \in 1 .. 0 : FALSE
  BY DEF IsSeq
<1>2. QED
  BY <1>1 DEF Twins

\* A part that fits leaves the plan fed and its steps apart.
LEMMA OnTopOf ==
    ASSUME NEW c, IsSeq(c), Fed(c), Apart(c), NEW q, IsSeq(q), OnTop(c, q)
    PROVE  Fed(c \o q) /\ Apart(c \o q)
<1> DEFINE r == c \o q
           n == Len(c)
           m == Len(q)
<1>1. /\ Len(r) = n + m /\ n \in Nat /\ m \in Nat
      /\ \A i \in 1 .. n : r[i] = c[i]
      /\ \A i \in 1 .. m : r[n + i] = q[i]
  BY Concatenation
<1>2. \A i \in 1 .. Len(r) :
         \/ i \in 1 .. n /\ r[i] = c[i]
         \/ \E j \in 1 .. m : i = n + j /\ r[i] = q[j]
  BY FromEither
<1> HIDE DEF r
<1>3. (\A k \in 1 .. n : k \in 1 .. Len(r)) /\ (\A k \in 1 .. m : n + k \in 1 .. Len(r))
  BY <1>1
<1>4. Fed(r)
  <2> SUFFICES ASSUME NEW i \in 1 .. Len(r)
               PROVE  /\ \A x \in Reads(r[i]) : \E j \in 1 .. Len(r) : j < i /\ r[j].var = x
                      /\ Deletes(r[i]) => \E j \in 1 .. Len(r) : j < i /\ r[j].kind = "redirect"
    BY DEF Fed
  <2>1. CASE i \in 1 .. n /\ r[i] = c[i]
    <3>1. ASSUME NEW x \in Reads(r[i])
          PROVE  \E j \in 1 .. Len(r) : j < i /\ r[j].var = x
      <4>1. PICK j \in 1 .. n : j < i /\ c[j].var = x
        BY <2>1, <3>1 DEF Fed
      <4>2. QED
        BY <1>1, <1>3, <4>1
    <3>2. ASSUME Deletes(r[i])
          PROVE  \E j \in 1 .. Len(r) : j < i /\ r[j].kind = "redirect"
      <4>1. PICK j \in 1 .. n : j < i /\ c[j].kind = "redirect"
        BY <2>1, <3>2 DEF Fed
      <4>2. QED
        BY <1>1, <1>3, <4>1
    <3>3. QED
      BY <3>1, <3>2
  <2>2. CASE \E j \in 1 .. m : i = n + j /\ r[i] = q[j]
    <3>0. PICK j \in 1 .. m : i = n + j /\ r[i] = q[j]
      BY <2>2
    <3>1. ASSUME NEW x \in Reads(r[i])
          PROVE  \E k \in 1 .. Len(r) : k < i /\ r[k].var = x
      <4>1. \/ \E k \in 1 .. n : c[k].var = x
            \/ \E k \in 1 .. m : k < j /\ q[k].var = x
        BY <3>0, <3>1 DEF OnTop
      <4>2. CASE \E k \in 1 .. n : c[k].var = x
        <5>1. PICK k \in 1 .. n : c[k].var = x
          BY <4>2
        <5>2. k < i
          BY <1>1, <3>0
        <5>3. QED
          BY <1>1, <1>3, <5>1, <5>2
      <4>3. CASE \E k \in 1 .. m : k < j /\ q[k].var = x
        <5>1. PICK k \in 1 .. m : k < j /\ q[k].var = x
          BY <4>3
        <5>2. n + k < i
          BY <1>1, <3>0, <5>1
        <5>3. QED
          BY <1>1, <1>3, <5>1, <5>2
      <4>4. QED
        BY <4>1, <4>2, <4>3
    <3>2. ASSUME Deletes(r[i])
          PROVE  \E k \in 1 .. Len(r) : k < i /\ r[k].kind = "redirect"
      <4>1. \/ \E k \in 1 .. n : c[k].kind = "redirect"
            \/ \E k \in 1 .. m : k < j /\ q[k].kind = "redirect"
        BY <3>0, <3>2 DEF OnTop
      <4>2. CASE \E k \in 1 .. n : c[k].kind = "redirect"
        <5>1. PICK k \in 1 .. n : c[k].kind = "redirect"
          BY <4>2
        <5>2. k < i
          BY <1>1, <3>0
        <5>3. QED
          BY <1>1, <1>3, <5>1, <5>2
      <4>3. CASE \E k \in 1 .. m : k < j /\ q[k].kind = "redirect"
        <5>1. PICK k \in 1 .. m : k < j /\ q[k].kind = "redirect"
          BY <4>3
        <5>2. n + k < i
          BY <1>1, <3>0, <5>1
        <5>3. QED
          BY <1>1, <1>3, <5>1, <5>2
      <4>4. QED
        BY <4>1, <4>2, <4>3
    <3>3. QED
      BY <3>1, <3>2
  <2>3. QED
    BY <1>2, <2>1, <2>2
<1>5. Apart(r)
  <2> SUFFICES ASSUME NEW i \in 1 .. Len(r), NEW j \in 1 .. Len(r), i < j
               PROVE  Fits(r[i], r[j])
    BY DEF Apart
  <2>1. CASE j \in 1 .. n /\ r[j] = c[j]
    <3>1. i \in 1 .. n /\ r[i] = c[i]
      BY <1>1, <2>1
    <3>2. QED
      BY <2>1, <3>1 DEF Apart
  <2>2. CASE \E k \in 1 .. m : j = n + k /\ r[j] = q[k]
    <3>1. PICK k \in 1 .. m : j = n + k /\ r[j] = q[k]
      BY <2>2
    <3>2. CASE i \in 1 .. n /\ r[i] = c[i]
      BY <3>1, <3>2 DEF OnTop
    <3>3. CASE \E h \in 1 .. m : i = n + h /\ r[i] = q[h]
      <4>1. PICK h \in 1 .. m : i = n + h /\ r[i] = q[h]
        BY <3>3
      <4>2. h < k
        BY <1>1, <3>1, <4>1
      <4>3. QED
        BY <3>1, <4>1, <4>2 DEF OnTop, Apart
    <3>4. QED
      BY <1>2, <3>2, <3>3
  <2>3. QED
    BY <1>2, <2>1, <2>2
<1>6. QED
  BY <1>4, <1>5 DEF r

-----------------------------------------------------------------------------
(* The parts of the ideal plan. *)

\* A step that reads nothing and changes nothing that another step depends on.
Quiet(st) == st.kind \in {"call", "host"} /\ ~Deletes(st) /\ Reads(st) = {}

\* Parts of which all steps are quiet, come well after any other, or well before.
AllQuiet(q)  == \A i \in 1 .. Len(q) : Quiet(q[i])
Late(st)     == st.kind \notin {"repo", "hr", "proxy"} /\ ~Deletes(st) /\ st.var # "hrMount"
AllLate(q)   == \A i \in 1 .. Len(q) : Late(q[i])
AllGentle(q) == \A i \in 1 .. Len(q) : ~Deletes(q[i]) /\ ~Stores(q[i])

\* A part, its ideal, and what it sends.
Ready(p, q, w) == Twins(p, q) /\ SendsAll(q) = w

\* Joined parts.
LEMMA ReadyJoint ==
    ASSUME NEW p, NEW q, NEW w, NEW p2, NEW q2, NEW w2, Ready(p, q, w), Ready(p2, q2, w2)
    PROVE  Ready(p \o p2, q \o q2, w \o w2)
<1>1. Twins(p \o p2, q \o q2)
  BY TwinsJoint DEF Ready
<1>2. SendsAll(q \o q2) = SendsAll(q) \o SendsAll(q2)
  BY SendsBoth DEF Ready, Twins
<1>3. SendsAll(q) = w /\ SendsAll(q2) = w2
  BY DEF Ready
<1>4. SendsAll(q \o q2) = w \o w2
  BY <1>2, <1>3
<1>5. QED
  BY <1>1, <1>4 DEF Ready

\* A part that is left out.
LEMMA ReadyNone == Ready(<<>>, <<>>, <<>>)
BY TwinsNone, SendsFew DEF Ready

\* Quiet parts, joined.
LEMMA QuietJoint ==
    ASSUME NEW p, IsSeq(p), AllQuiet(p), NEW q, IsSeq(q), AllQuiet(q)
    PROVE  AllQuiet(p \o q)
<1> DEFINE r == p \o q
<1>1. \A i \in 1 .. Len(r) :
         \/ i \in 1 .. Len(p) /\ r[i] = p[i]
         \/ \E j \in 1 .. Len(q) : i = Len(p) + j /\ r[i] = q[j]
  BY FromEither
<1> HIDE DEF r
<1>2. AllQuiet(r)
  BY <1>1 DEF AllQuiet
<1>3. QED
  BY <1>2 DEF r

\* Gentle parts, joined.
LEMMA GentleJoint ==
    ASSUME NEW p, IsSeq(p), AllGentle(p), NEW q, IsSeq(q), AllGentle(q)
    PROVE  AllGentle(p \o q)
<1> DEFINE r == p \o q
<1>1. \A i \in 1 .. Len(r) :
         \/ i \in 1 .. Len(p) /\ r[i] = p[i]
         \/ \E j \in 1 .. Len(q) : i = Len(p) + j /\ r[i] = q[j]
  BY FromEither
<1> HIDE DEF r
<1>2. AllGentle(r)
  BY <1>1 DEF AllGentle
<1>3. QED
  BY <1>2 DEF r

\* A late step fits after any other.
LEMMA LateFits ==
    ASSUME NEW a, NEW b, Late(b)
    PROVE  Fits(a, b)
BY DEF Late, Fits, ForNode

\* A late part that is fed may come anywhere.
LEMMA LateOnTop ==
    ASSUME NEW c, NEW q, AllLate(q), Fed(q)
    PROVE  OnTop(c, q)
<1>1. Apart(q) /\ \A i \in 1 .. Len(c), j \in 1 .. Len(q) : Fits(c[i], q[j])
  BY LateFits DEF AllLate, Apart
<1>2. QED
  BY <1>1 DEF OnTop, Fed

\* A quiet part may come first, and anywhere if it is late.
LEMMA QuietOnTop ==
    ASSUME NEW q, AllQuiet(q)
    PROVE  Fed(q) /\ Apart(q) /\ AllGentle(q) /\ (AllLate(q) => \A c : OnTop(c, q))
<1>1. Fed(q)
  BY DEF AllQuiet, Quiet, Fed
<1>2. AllGentle(q)
  BY DEF AllQuiet, Quiet, AllGentle, Stores
<1>3. Apart(q)
  BY DEF AllQuiet, Quiet, Apart, Fits, ForNode, Stores
<1>4. AllLate(q) => \A c : OnTop(c, q)
  BY <1>1, LateOnTop
<1>5. QED
  BY <1>1, <1>2, <1>3, <1>4

\* A call that names nothing.
PlainCall(st) ==
    /\ st.kind = "call" /\ st.var = "" /\ st.req.refs = {} /\ st.req.method # "DELETE"
    /\ st.req.path \notin {"connectionCertificate", "newFolder"}

\* It is quiet, and sends itself.
LEMMA PlainCalls ==
    ASSUME NEW a, PlainCall(a)
    PROVE  Ready(<<a>>, <<a>>, <<a.req>>) /\ AllQuiet(<<a>>) /\ AllLate(<<a>>)
<1>1. Quiet(a) /\ Late(a)
  BY DEF PlainCall, Quiet, Late, Deletes, Clusters, Stores, Reads
<1>2. Meant(a)
  BY DEF PlainCall, Meant, ForNode, Deletes
<1>3. Writes(a) = <<a.req>>
  BY DEF PlainCall, Writes, ForNode
<1>4. Len(<<a>>) = 1 /\ <<a>>[1] = a /\ \A i \in 1 .. 1 : i = 1
  OBVIOUS
<1>5. AllQuiet(<<a>>) /\ AllLate(<<a>>)
  <2> DEFINE p == <<a>>
  <2> HIDE DEF p
  <2>1. AllQuiet(p) /\ AllLate(p)
    BY <1>1, <1>4 DEF AllQuiet, AllLate, p
  <2>2. QED
    BY <2>1 DEF p
<1>6. Ready(<<a>>, <<a>>, <<a.req>>)
  BY <1>2, <1>3, TwinsFew, SendsFew DEF Ready
<1>7. QED
  BY <1>5, <1>6

\* No step.
LEMMA NoneQuiet == AllQuiet(<<>>) /\ AllLate(<<>>)
<1>1. Len(<<>>) = 0 /\ \A i \in 1 .. 0 : FALSE
  OBVIOUS
<1>2. QED
  BY <1>1 DEF AllQuiet, AllLate

\* What applyDefaults leaves alone besides.
LEMMA MoreDefaults ==
    ASSUME NEW s \in Specifications
    PROVE  applyDefaults(s).license = s.license /\ applyDefaults(s).exporterUser = s.exporterUser
<1> DEFINE u == IF s.username = "" THEN "veeamadmin" ELSE s.username
           i == IF s.immutableDays <= 0 THEN 7 ELSE s.immutableDays
           p == IF s.syslogPort <= 0 THEN 514 ELSE s.syslogPort
           d == IF s.dns = "" /\ VSAs(s) # <<>> THEN Head(VSAs(s)).name ELSE s.dns
<1>1. applyDefaults(s) = [s EXCEPT !.username = u, !.immutableDays = i, !.syslogPort = p, !.dns = d]
  BY Zenon DEF applyDefaults
<1> HIDE DEF u, i, p, d
<1>2. QED
  BY <1>1 DEF Specifications

\* The specification entered and the same with its defaults, in a run that InSync is about.
Usual(t) ==
    /\ Calm /\ Like(t, spec) /\ t.license = spec.license /\ t.exporterUser = spec.exporterUser

\* The license.
LEMMA IdealLicense ==
    ASSUME NEW t, Usual(t)
    PROVE  /\ Ready(PlanLicense(t), PlanLicense(t),
                    IF t.license = "" \/ VSAs(t) = <<>> \/ vbr.license = "valid" THEN <<>>
                    ELSE <<InstallLicense(t.license)>>)
           /\ AllQuiet(PlanLicense(t))
<1> DEFINE a == Step("call", InstallLicense(t.license), "")
<1>1. VSAs(t) = <<>> \/ vbr.license = "valid" => t.license = ""
  BY DEF Usual, Calm, Mirrored, Like
<1>2. PlainCall(a) /\ a.req = InstallLicense(t.license)
  BY DEF PlainCall, Step, InstallLicense, Request
<1>3. PlanLicense(t) = IF t.license = "" THEN <<>> ELSE <<a>>
  BY DEF PlanLicense
<1> HIDE DEF a
<1>4. Ready(<<a>>, <<a>>, <<InstallLicense(t.license)>>) /\ AllQuiet(<<a>>)
  BY <1>2, PlainCalls
<1>5. QED
  BY <1>1, <1>3, <1>4, ReadyNone, NoneQuiet

\* The exporter has no user.
LEMMA IdealExporter ==
    ASSUME NEW t, Usual(t)
    PROVE  /\ Ready(PlanExporter(t), PlanExporter(t), SetNodeExporter(t.tls, t.exporterUser))
           /\ AllQuiet(PlanExporter(t)) /\ AllLate(PlanExporter(t))
<1> DEFINE calls == SetNodeExporter(t.tls, t.exporterUser)
           x == Request("PUT", "nodeExporterSettings",
                        [metricsSharingEnabled |-> TRUE, tlsEnabled |-> t.tls,
                         auth |-> IF t.exporterUser = "" THEN [type |-> "None"] ELSE Auth(t.exporterUser)],
                        {})
           a == Step("call", x, "")
<1>1. t.exporterUser = ""
  BY DEF Usual, Calm, Mirrored
<1>2. calls = <<x>>
  BY <1>1 DEF SetNodeExporter
<1>3. PlainCall(a) /\ a.req = x
  BY DEF PlainCall, Step, Request
<1>4. PlanExporter(t) = <<Step("call", calls[1], "")>> \o (IF Len(calls) = 1 THEN <<>>
        ELSE <<Step("call", [calls[2] EXCEPT !.body = [username |-> t.exporterUser,
                                                       password |-> "$NeBasicPass"]], "")>>)
  BY Zenon DEF PlanExporter
<1> HIDE DEF x
<1>5. calls[1] = x /\ Len(calls) = 1
  BY <1>2
<1> HIDE DEF calls
<1>6. PlanExporter(t) = <<a>> \o <<>>
  BY <1>4, <1>5
<1>7. <<a>> \o <<>> = <<a>>
  BY Tuples, NothingBefore
<1> HIDE DEF a
<1>8. Ready(<<a>>, <<a>>, <<x>>) /\ AllQuiet(<<a>>) /\ AllLate(<<a>>)
  BY <1>3, PlainCalls
<1>9. QED
  BY <1>2, <1>6, <1>7, <1>8 DEF calls

\* The syslog server.
LEMMA IdealSyslog ==
    ASSUME NEW t
    PROVE  /\ Ready(PlanSyslog(t), PlanSyslog(t), <<SetSyslog(t.syslog, t.syslogPort, "Udp")>>)
           /\ AllQuiet(PlanSyslog(t)) /\ AllLate(PlanSyslog(t))
<1> DEFINE a == Step("call", SetSyslog(t.syslog, t.syslogPort, "Udp"), "")
<1>1. PlainCall(a) /\ a.req = SetSyslog(t.syslog, t.syslogPort, "Udp")
  BY DEF PlainCall, Step, SetSyslog, Request
<1>2. PlanSyslog(t) = <<a>>
  BY DEF PlanSyslog
<1> HIDE DEF a
<1>3. QED
  BY <1>1, <1>2, PlainCalls

\* The lookup of the mount server: the VBR server knows itself by this address.
LEMMA IdealMount ==
    ASSUME NEW t, Usual(t)
    PROVE  /\ Ready(PlanMount(t), PlanMount(t), <<>>) /\ AllQuiet(PlanMount(t))
           /\ HRs(t) # <<>> => \E k \in 1 .. Len(PlanMount(t)) : PlanMount(t)[k].var = "hrMount"
<1> DEFINE a == Step("host", [NoReq EXCEPT !.body = Head(VSAs(t)).ip], "hrMount")
<1>1. HRs(t) # <<>> => VSAs(t) # <<>> /\ Head(VSAs(t)).ip = vbr.self
  BY DEF Usual, Calm, Mirrored, Like
<1>2. PlanMount(t) = IF HRs(t) = <<>> \/ VSAs(t) = <<>> THEN <<>> ELSE <<a>>
  BY DEF PlanMount
<1>3. a.kind = "host" /\ a.var = "hrMount" /\ a.req.refs = {} /\ a.req.body = Head(VSAs(t)).ip
  BY DEF Step, NoReq, Request
<1> HIDE DEF a
<1>4. Quiet(a) /\ Writes(a) = <<>>
  BY <1>3 DEF Quiet, Deletes, Clusters, Stores, Reads, Writes
<1>5. HRs(t) # <<>> => Meant(a)
  BY <1>1, <1>3 DEF Meant, ForNode, Deletes
<1> DEFINE p == <<a>>
<1>6. Len(p) = 1 /\ p[1] = a /\ (\A i \in 1 .. 1 : i = 1) /\ 1 \in 1 .. 1
  OBVIOUS
<1>7. HRs(t) # <<>> => Twins(p, p)
  BY <1>5, TwinsFew
<1>8. SendsAll(p) = <<>>
  BY <1>4, SendsFew
<1> HIDE DEF p
<1>9. AllQuiet(p)
  BY <1>4, <1>6 DEF AllQuiet
<1>10. CASE HRs(t) = <<>>
  <2>1. PlanMount(t) = <<>>
    BY <1>2, <1>10
  <2>2. QED
    BY <1>10, <2>1, ReadyNone, NoneQuiet
<1>11. CASE HRs(t) # <<>>
  <2>1. PlanMount(t) = p
    BY <1>1, <1>2, <1>11 DEF p
  <2>2. \E k \in 1 .. Len(p) : p[k].var = "hrMount"
    BY <1>3, <1>6
  <2>3. QED
    BY <1>7, <1>8, <1>9, <1>11, <2>1, <2>2 DEF Ready
<1>12. QED
  BY <1>10, <1>11

\* What each variable is meant to hold.
LEMMA IntendedIs ==
    /\ Intended["hrMount"] = HostId(vbr.self)
    /\ HRs(spec) # <<>> => Intended["repo"] = RepoId(RepoName(spec, Head(HRs(spec))))
    /\ Intended["defaultRepo"] = RepoId(DefaultRepo)
    /\ Intended["haCred"] = Id("credentials", "HA secondary node")
    /\ Intended["s3Cred"] = Id("cloudCredentials", spec.s3.name)
BY DEF Intended, Variables

\* What six steps send.
OfSix(a, b, c, d, e, f) ==
    SendsAll(<<a, b, c, d, e, f>>) =
        ((((Writes(a) \o Writes(b)) \o Writes(c)) \o Writes(d)) \o Writes(e)) \o Writes(f)

\* They send what each of them does.
LEMMA SendsSix ==
    ASSUME NEW a, NEW b, NEW c, NEW d, NEW e, NEW f
    PROVE  OfSix(a, b, c, d, e, f)
<1> DEFINE p == <<a, b, c, d, e, f>>
<1>1. /\ Len(p) = 6 /\ p[1] = a /\ p[2] = b /\ p[3] = c /\ p[4] = d /\ p[5] = e /\ p[6] = f
  BY Six
<1> HIDE DEF p
<1>2. \A m \in Nat : Sends(p, m + 1) = Sends(p, m) \o Writes(p[m + 1])
  BY SendsMore
<1>3. Sends(p, 0) = <<>>
  BY SendsMore
<1>4. /\ Sends(p, 0 + 1) = Sends(p, 0) \o Writes(p[0 + 1])
      /\ Sends(p, 1 + 1) = Sends(p, 1) \o Writes(p[1 + 1])
      /\ Sends(p, 2 + 1) = Sends(p, 2) \o Writes(p[2 + 1])
      /\ Sends(p, 3 + 1) = Sends(p, 3) \o Writes(p[3 + 1])
      /\ Sends(p, 4 + 1) = Sends(p, 4) \o Writes(p[4 + 1])
      /\ Sends(p, 5 + 1) = Sends(p, 5) \o Writes(p[5 + 1])
  BY <1>2
<1>5. 0 + 1 = 1 /\ 1 + 1 = 2 /\ 2 + 1 = 3 /\ 3 + 1 = 4 /\ 4 + 1 = 5 /\ 5 + 1 = 6
  OBVIOUS
<1>6. Sends(p, 1) = Writes(a)
  <2>1. Sends(p, 1) = <<>> \o Writes(a)
    BY <1>1, <1>3, <1>4, <1>5
  <2>2. QED
    BY <2>1, WritesSeq, NothingBefore
<1>7. Sends(p, 2) = Writes(a) \o Writes(b)
  BY <1>1, <1>4, <1>5, <1>6
<1>8. Sends(p, 3) = (Writes(a) \o Writes(b)) \o Writes(c)
  BY <1>1, <1>4, <1>5, <1>7
<1>9. Sends(p, 4) = ((Writes(a) \o Writes(b)) \o Writes(c)) \o Writes(d)
  BY <1>1, <1>4, <1>5, <1>8
<1>10. Sends(p, 5) = (((Writes(a) \o Writes(b)) \o Writes(c)) \o Writes(d)) \o Writes(e)
  BY <1>1, <1>4, <1>5, <1>9
<1>11. Sends(p, 6) = ((((Writes(a) \o Writes(b)) \o Writes(c)) \o Writes(d)) \o Writes(e)) \o Writes(f)
  BY <1>1, <1>4, <1>5, <1>10
<1>12. QED
  BY <1>1, <1>11 DEF SendsAll, OfSix, p

\* Sequences that are equal element by element.
LEMMA SameElements ==
    ASSUME NEW p, IsSeq(p), NEW q, IsSeq(q), Len(p) = Len(q), \A i \in 1 .. Len(p) : p[i] = q[i]
    PROVE  p = q
<1>1. p \in Seq({p[i] : i \in DOMAIN p}) /\ q \in Seq({q[i] : i \in DOMAIN q})
  BY DEF IsSeq
<1>2. p = [i \in 1 .. Len(p) |-> p[i]] /\ q = [i \in 1 .. Len(q) |-> q[i]]
  BY <1>1
<1>3. [i \in 1 .. Len(p) |-> p[i]] = [i \in 1 .. Len(p) |-> q[i]]
  OBVIOUS
<1>4. QED
  BY <1>2, <1>3, Zenon

\* One more element.
LEMMA OneElementMore ==
    ASSUME NEW p, IsSeq(p), NEW x
    PROVE  /\ IsSeq(p \o <<x>>) /\ Len(p \o <<x>>) = Len(p) + 1 /\ (p \o <<x>>)[Len(p) + 1] = x
           /\ \A i \in 1 .. Len(p) : (p \o <<x>>)[i] = p[i]
<1> DEFINE u == <<x>>
<1> HIDE DEF u
<1>1. IsSeq(u)
  BY Tuples DEF u
<1>2. Len(u) = 1 /\ u[1] = x
  BY Tuples DEF u
<1>3. /\ IsSeq(p \o u) /\ Len(p \o u) = Len(p) + Len(u)
      /\ \A i \in 1 .. Len(p) : (p \o u)[i] = p[i]
      /\ \A i \in 1 .. Len(u) : (p \o u)[Len(p) + i] = u[i]
  BY <1>1, Concatenation
<1> DEFINE r == p \o u
<1> HIDE DEF r
<1>4. r = p \o u
  BY DEF r
<1>5. /\ IsSeq(r) /\ Len(r) = Len(p) + Len(u)
      /\ \A i \in 1 .. Len(p) : r[i] = p[i]
      /\ \A i \in 1 .. Len(u) : r[Len(p) + i] = u[i]
  BY <1>3, <1>4, Zenon
<1>6. 1 \in 1 .. 1
  OBVIOUS
<1>7. IsSeq(r) /\ Len(r) = Len(p) + 1 /\ r[Len(p) + 1] = x /\ \A i \in 1 .. Len(p) : r[i] = p[i]
  BY <1>2, <1>5, <1>6
<1>8. QED
  BY <1>7 DEF r, u

\* Five elements.
LEMMA Five ==
    ASSUME NEW a, NEW b, NEW c, NEW d, NEW e
    PROVE  LET p == <<a, b, c, d, e>> IN
           /\ IsSeq(p) /\ Len(p) = 5
           /\ p[1] = a /\ p[2] = b /\ p[3] = c /\ p[4] = d /\ p[5] = e
<1> DEFINE p == <<a, b, c, d, e>>
<1>1. /\ Len(p) = 5 /\ DOMAIN p = 1 .. 5
      /\ p[1] = a /\ p[2] = b /\ p[3] = c /\ p[4] = d /\ p[5] = e
  OBVIOUS
<1>2. p \in Seq({a, b, c, d, e})
  OBVIOUS
<1> HIDE DEF p
<1>3. {a, b, c, d, e} = {p[i] : i \in DOMAIN p}
  BY <1>1
<1>4. IsSeq(p)
  BY <1>2, <1>3, Zenon DEF IsSeq
<1>5. QED
  BY <1>1, <1>4 DEF p

\* Requests joined one by one, and as Wire joins those of the cluster.
OfFive(a, b, c, d, e) ==
    /\ (((<<a>> \o <<b>>) \o <<c>>) \o <<d>>) \o <<e>> = <<a, b, c, d, e>>
    /\ (<<a>> \o <<b>>) \o <<c, d, e>> = <<a, b, c, d, e>>

\* They do.
LEMMA FiveRequests ==
    ASSUME NEW a, NEW b, NEW c, NEW d, NEW e
    PROVE  OfFive(a, b, c, d, e)
<1> DEFINE q  == <<a, b, c, d, e>>
           p1 == <<a>>
           p2 == p1 \o <<b>>
           p3 == p2 \o <<c>>
           p4 == p3 \o <<d>>
           p5 == p4 \o <<e>>
           r  == <<c, d, e>>
           p6 == p2 \o r
<1> HIDE DEF q, p1, p2, p3, p4, p5, p6, r
<1>1. p2 = p1 \o <<b>> /\ p3 = p2 \o <<c>> /\ p4 = p3 \o <<d>> /\ p5 = p4 \o <<e>>
  BY DEF p2, p3, p4, p5
<1>2. IsSeq(p1) /\ Len(p1) = 1 /\ p1[1] = a
  BY Tuples DEF p1
<1>3. IsSeq(p1)
  BY <1>2
<1>4. /\ IsSeq(p2) /\ Len(p2) = Len(p1) + 1 /\ p2[Len(p1) + 1] = b /\ \A i \in 1 .. Len(p1) : p2[i] = p1[i]
  <2>1. /\ IsSeq(p1 \o <<b>>) /\ Len(p1 \o <<b>>) = Len(p1) + 1
        /\ (p1 \o <<b>>)[Len(p1) + 1] = b
        /\ \A i \in 1 .. Len(p1) : (p1 \o <<b>>)[i] = p1[i]
    BY <1>3, OneElementMore
  <2>2. QED
    BY <1>1, <2>1, Zenon
<1>5. IsSeq(p2)
  BY <1>4
<1>6. /\ IsSeq(p3) /\ Len(p3) = Len(p2) + 1 /\ p3[Len(p2) + 1] = c /\ \A i \in 1 .. Len(p2) : p3[i] = p2[i]
  <2>1. /\ IsSeq(p2 \o <<c>>) /\ Len(p2 \o <<c>>) = Len(p2) + 1
        /\ (p2 \o <<c>>)[Len(p2) + 1] = c
        /\ \A i \in 1 .. Len(p2) : (p2 \o <<c>>)[i] = p2[i]
    BY <1>5, OneElementMore
  <2>2. QED
    BY <1>1, <2>1, Zenon
<1>7. IsSeq(p3)
  BY <1>6
<1>8. /\ IsSeq(p4) /\ Len(p4) = Len(p3) + 1 /\ p4[Len(p3) + 1] = d /\ \A i \in 1 .. Len(p3) : p4[i] = p3[i]
  <2>1. /\ IsSeq(p3 \o <<d>>) /\ Len(p3 \o <<d>>) = Len(p3) + 1
        /\ (p3 \o <<d>>)[Len(p3) + 1] = d
        /\ \A i \in 1 .. Len(p3) : (p3 \o <<d>>)[i] = p3[i]
    BY <1>7, OneElementMore
  <2>2. QED
    BY <1>1, <2>1, Zenon
<1>9. IsSeq(p4)
  BY <1>8
<1>10. /\ IsSeq(p5) /\ Len(p5) = Len(p4) + 1 /\ p5[Len(p4) + 1] = e /\ \A i \in 1 .. Len(p4) : p5[i] = p4[i]
  <2>1. /\ IsSeq(p4 \o <<e>>) /\ Len(p4 \o <<e>>) = Len(p4) + 1
        /\ (p4 \o <<e>>)[Len(p4) + 1] = e
        /\ \A i \in 1 .. Len(p4) : (p4 \o <<e>>)[i] = p4[i]
    BY <1>9, OneElementMore
  <2>2. QED
    BY <1>1, <2>1, Zenon
<1>11. /\ 1 + 1 = 2 /\ 2 + 1 = 3 /\ 3 + 1 = 4 /\ 4 + 1 = 5
       /\ 1 \in 1 .. 1 /\ 1 \in 1 .. 2 /\ 2 \in 1 .. 2 /\ 1 \in 1 .. 3 /\ 2 \in 1 .. 3 /\ 3 \in 1 .. 3
       /\ 1 \in 1 .. 4 /\ 2 \in 1 .. 4 /\ 3 \in 1 .. 4 /\ 4 \in 1 .. 4
  OBVIOUS
<1>12. Len(p2) = 2 /\ p2[1] = a /\ p2[2] = b
  BY <1>2, <1>4, <1>11
<1>13. Len(p3) = 3 /\ p3[1] = a /\ p3[2] = b /\ p3[3] = c
  BY <1>6, <1>11, <1>12
<1>14. Len(p4) = 4 /\ p4[1] = a /\ p4[2] = b /\ p4[3] = c /\ p4[4] = d
  BY <1>8, <1>11, <1>13
<1>15. Len(p5) = 5 /\ p5[1] = a /\ p5[2] = b /\ p5[3] = c /\ p5[4] = d /\ p5[5] = e
  BY <1>10, <1>11, <1>14
<1>16. IsSeq(q) /\ Len(q) = 5 /\ q[1] = a /\ q[2] = b /\ q[3] = c /\ q[4] = d /\ q[5] = e
  BY Five DEF q
<1>17. IsSeq(r)
  BY Tuples DEF r
<1>18. Len(r) = 3 /\ r[1] = c /\ r[2] = d /\ r[3] = e
  BY DEF r
<1>19. p6 = p2 \o r
  BY DEF p6
<1>20. /\ IsSeq(p2 \o r) /\ Len(p2 \o r) = Len(p2) + Len(r)
       /\ \A i \in 1 .. Len(p2) : (p2 \o r)[i] = p2[i]
       /\ \A i \in 1 .. Len(r) : (p2 \o r)[Len(p2) + i] = r[i]
  BY <1>5, <1>17, Concatenation
<1>21. /\ IsSeq(p6) /\ Len(p6) = Len(p2) + Len(r)
       /\ \A i \in 1 .. Len(p2) : p6[i] = p2[i]
       /\ \A i \in 1 .. Len(r) : p6[Len(p2) + i] = r[i]
  BY <1>19, <1>20, Zenon
<1>22. p6[2 + 1] = c /\ p6[2 + 2] = d /\ p6[2 + 3] = e
  BY <1>11, <1>12, <1>18, <1>21
<1>23. Len(p6) = 5 /\ p6[1] = a /\ p6[2] = b /\ p6[3] = c /\ p6[4] = d /\ p6[5] = e
  BY <1>11, <1>12, <1>18, <1>21, <1>22
<1>24. \A i \in 1 .. 5 : i = 1 \/ i = 2 \/ i = 3 \/ i = 4 \/ i = 5
  OBVIOUS
<1>25. (\A i \in 1 .. 5 : p5[i] = q[i]) /\ (\A i \in 1 .. 5 : p6[i] = q[i])
  BY <1>15, <1>16, <1>23, <1>24
<1>26. p5 = q
  BY <1>10, <1>15, <1>16, <1>25, SameElements
<1>27. p6 = q
  BY <1>16, <1>21, <1>23, <1>25, SameElements
<1>28. QED
  BY <1>26, <1>27 DEF OfFive, p1, p2, p3, p4, p5, p6, q, r

\* The six steps of the cluster, with what they read.
HASteps(a, b, c, d, e, f) ==
    /\ a.kind = "redirect" /\ a.var = "" /\ a.req.refs = {Intended["repo"]}
    /\ b.kind = "repo" /\ b.var = "defaultRepo" /\ b.req.refs = {}
    /\ c.kind = "call" /\ c.var = "" /\ c.req.refs = {Intended["defaultRepo"]}
    /\ c.req.method = "DELETE" /\ c.req.path = "repositories"
    /\ d.kind = "call" /\ d.var = "haCred" /\ d.req.refs = {} /\ d.req.method = "POST"
    /\ d.req.path = "credentials" /\ d.req.body.description = "HA secondary node"
    /\ e.kind = "call" /\ e.var = "" /\ e.req.refs \subseteq {Intended["haCred"]}
    /\ e.req.method = "POST" /\ e.req.path = "connectionCertificate"
    /\ f.kind = "wait" /\ f.var = "" /\ f.req.refs = {Intended["haCred"]}
    /\ f.req.method = "POST" /\ f.req.path = "highAvailabilityCluster"

\* A step that is no lookup, and names what it reads.
LEMMA MeantPlain ==
    ASSUME NEW st, st.kind \notin {"hr", "proxy", "host"}, st.kind = "call" => st.var = "",
           \A id \in st.req.refs : \E x \in Reads(st) : id = Intended[x],
           Deletes(st) => vbr.backups = <<>>
    PROVE  Meant(st)
BY DEF Meant, ForNode

\* What they read, what they are, and what they mean and send.
LEMMA HAStepFacts ==
    ASSUME NEW a, NEW b, NEW c, NEW d, NEW e, NEW f, HASteps(a, b, c, d, e, f), vbr.backups = <<>>
    PROVE  /\ Reads(a) = {"repo"} /\ Reads(b) = {} /\ Reads(c) = {"defaultRepo"} /\ Reads(d) = {}
           /\ Reads(e) = {"haCred"} /\ Reads(f) = {"haCred"}
           /\ ~Deletes(a) /\ ~Deletes(b) /\ Deletes(c) /\ ~Deletes(d) /\ ~Deletes(e) /\ ~Deletes(f)
           /\ Meant(a) /\ Meant(b) /\ Meant(c) /\ Meant(d) /\ Meant(e) /\ Meant(f)
           /\ Writes(a) = <<a.req>> /\ Writes(b) = <<>> /\ Writes(c) = <<c.req>>
           /\ Writes(d) = <<d.req>> /\ Writes(e) = <<e.req>> /\ Writes(f) = <<f.req>>
<1>1. /\ Reads(a) = {"repo"} /\ Reads(b) = {} /\ Reads(c) = {"defaultRepo"} /\ Reads(d) = {}
      /\ Reads(e) = {"haCred"} /\ Reads(f) = {"haCred"}
  <2>1. Reads(a) = {"repo"} /\ Reads(b) = {}
    BY DEF HASteps, Reads, Caught, Deletes, Clusters, Stores
  <2>2. Reads(c) = {"defaultRepo"} /\ Reads(d) = {}
    BY DEF HASteps, Reads, Caught, Deletes, Clusters, Stores
  <2>3. Reads(e) = {"haCred"} /\ Reads(f) = {"haCred"}
    BY DEF HASteps, Reads, Caught, Deletes, Clusters, Stores
  <2>4. QED
    BY <2>1, <2>2, <2>3
<1>2. ~Deletes(a) /\ ~Deletes(b) /\ Deletes(c) /\ ~Deletes(d) /\ ~Deletes(e) /\ ~Deletes(f)
  BY DEF HASteps, Deletes
<1>3. Meant(a) /\ Meant(b)
  <2>1. /\ a.kind = "redirect" /\ a.req.refs = {Intended["repo"]}
        /\ b.kind = "repo" /\ b.req.refs = {}
    BY DEF HASteps
  <2>2. QED
    BY <1>1, <1>2, <2>1, MeantPlain
<1>4. Meant(c)
  <2>1. c.kind = "call" /\ c.var = "" /\ c.req.refs = {Intended["defaultRepo"]}
    BY DEF HASteps
  <2>2. QED
    BY <1>1, <2>1, MeantPlain
<1>5. Meant(d)
  <2>1. Created(d.req) = Id("credentials", "HA secondary node")
    BY DEF HASteps, Created
  <2>2. QED
    BY <1>2, <2>1, IntendedIs DEF HASteps, Meant, ForNode
<1>6. Meant(e) /\ Meant(f)
  <2>1. /\ e.kind = "call" /\ e.var = "" /\ e.req.refs \subseteq {Intended["haCred"]}
        /\ f.kind = "wait" /\ f.req.refs = {Intended["haCred"]}
    BY DEF HASteps
  <2>2. QED
    BY <1>1, <1>2, <2>1, MeantPlain
<1>7. /\ Writes(a) = <<a.req>> /\ Writes(b) = <<>> /\ Writes(c) = <<c.req>>
      /\ Writes(d) = <<d.req>> /\ Writes(e) = <<e.req>> /\ Writes(f) = <<f.req>>
  BY DEF HASteps, Writes, ForNode
<1>8. QED
  BY <1>1, <1>2, <1>3, <1>4, <1>5, <1>6, <1>7

\* They agree with the plan at hand, and send five requests.
LEMMA HATwins ==
    ASSUME NEW a, NEW b, NEW c, NEW d, NEW e, NEW f, HASteps(a, b, c, d, e, f), vbr.backups = <<>>,
           NEW pa, NEW pc, NEW pe, NEW pf,
           env["repo"] = Intended["repo"] => pa = a,
           env["defaultRepo"] = Intended["defaultRepo"] => pc = c,
           env["haCred"] = Intended["haCred"] => pe = e /\ pf = f
    PROVE  Ready(<<pa, b, pc, d, pe, pf>>, <<a, b, c, d, e, f>>, <<a.req, c.req, d.req, e.req, f.req>>)
<1> DEFINE p == <<pa, b, pc, d, pe, pf>>
           q == <<a, b, c, d, e, f>>
<1> HIDE DEF p, q
<1>1. /\ IsSeq(p) /\ Len(p) = 6 /\ p[1] = pa /\ p[2] = b /\ p[3] = pc /\ p[4] = d
      /\ p[5] = pe /\ p[6] = pf
  BY Six DEF p
<1>2. /\ IsSeq(q) /\ Len(q) = 6 /\ q[1] = a /\ q[2] = b /\ q[3] = c /\ q[4] = d
      /\ q[5] = e /\ q[6] = f
  BY Six DEF q
<1>3. \A i \in 1 .. 6 : i = 1 \/ i = 2 \/ i = 3 \/ i = 4 \/ i = 5 \/ i = 6
  OBVIOUS
<1> DEFINE Same(x, y) == (\A z \in Reads(y) : env[z] = Intended[z]) => x = y
<1>4. Same(pa, a) /\ Same(b, b) /\ Same(pc, c) /\ Same(d, d) /\ Same(pe, e) /\ Same(pf, f)
  BY HAStepFacts
<1>5. Meant(a) /\ Meant(b) /\ Meant(c) /\ Meant(d) /\ Meant(e) /\ Meant(f)
  BY HAStepFacts
<1>6. \A i \in 1 .. 6 : Meant(q[i]) /\ Same(p[i], q[i])
  <2> HIDE DEF Same
  <2> QED
    BY <1>1, <1>2, <1>3, <1>4, <1>5
<1>7. Twins(p, q)
  BY <1>1, <1>2, <1>6 DEF Twins
<1>8. SendsAll(q) = <<a.req, c.req, d.req, e.req, f.req>>
  <2>1. SendsAll(q) = ((((Writes(a) \o Writes(b)) \o Writes(c)) \o Writes(d)) \o Writes(e)) \o Writes(f)
    <3>1. OfSix(a, b, c, d, e, f)
      BY SendsSix
    <3>2. QED
      BY <3>1 DEF OfSix, q
  <2>2. /\ Writes(a) = <<a.req>> /\ Writes(b) = <<>> /\ Writes(c) = <<c.req>>
        /\ Writes(d) = <<d.req>> /\ Writes(e) = <<e.req>> /\ Writes(f) = <<f.req>>
    BY HAStepFacts
  <2>3. Writes(a) \o Writes(b) = <<a.req>>
    BY <2>2, WritesSeq, NothingBefore
  <2>4. SendsAll(q) = (((<<a.req>> \o <<c.req>>) \o <<d.req>>) \o <<e.req>>) \o <<f.req>>
    BY <2>1, <2>2, <2>3, Zenon
  <2>5. (((<<a.req>> \o <<c.req>>) \o <<d.req>>) \o <<e.req>>) \o <<f.req>>
          = <<a.req, c.req, d.req, e.req, f.req>>
    <3>1. OfFive(a.req, c.req, d.req, e.req, f.req)
      BY FiveRequests
    <3>2. QED
      BY <3>1 DEF OfFive
  <2>6. QED
    BY <2>4, <2>5, Zenon
<1>9. QED
  BY <1>7, <1>8 DEF Ready, p, q

\* They may come after the nodes.
LEMMA HAOnTop ==
    ASSUME NEW a, NEW b, NEW c, NEW d, NEW e, NEW f, HASteps(a, b, c, d, e, f), vbr.backups = <<>>,
           NEW g, AllGentle(g), \E k \in 1 .. Len(g) : g[k].var = "repo"
    PROVE  OnTop(g, <<a, b, c, d, e, f>>)
<1> DEFINE q == <<a, b, c, d, e, f>>
<1> HIDE DEF q
<1>1. /\ IsSeq(q) /\ Len(q) = 6 /\ q[1] = a /\ q[2] = b /\ q[3] = c /\ q[4] = d
      /\ q[5] = e /\ q[6] = f
  BY Six DEF q
<1>2. \A i \in 1 .. 6 : i = 1 \/ i = 2 \/ i = 3 \/ i = 4 \/ i = 5 \/ i = 6
  OBVIOUS
<1>3. ~ForNode(a) /\ ~ForNode(b) /\ ~ForNode(c) /\ ~ForNode(d) /\ ~ForNode(e) /\ ~ForNode(f)
  BY DEF HASteps, ForNode
<1>4. ~Deletes(a) /\ ~Deletes(b) /\ Deletes(c) /\ ~Deletes(d) /\ ~Deletes(e) /\ ~Deletes(f)
  BY HAStepFacts
<1>5. \A j \in 1 .. 6 : ~ForNode(q[j])
  BY <1>1, <1>2, <1>3
<1>6. \A i \in 1 .. Len(g), j \in 1 .. 6 : Fits(g[i], q[j])
  <2>1. a.var = "" /\ b.var = "defaultRepo" /\ c.var = "" /\ d.var = "haCred" /\ e.var = "" /\ f.var = ""
    BY DEF HASteps
  <2>2. \A j \in 1 .. 6 : q[j].var # "hrMount"
    BY <1>1, <1>2, <2>1
  <2>3. QED
    BY <1>5, <2>2 DEF AllGentle, Fits, ForNode
<1>7. \A j \in 1 .. 6 : Deletes(q[j]) <=> j = 3
  BY <1>1, <1>2, <1>4
<1>8. Apart(q)
  <2> SUFFICES ASSUME NEW i \in 1 .. 6, NEW j \in 1 .. 6, i < j
               PROVE  Fits(q[i], q[j])
    BY <1>1 DEF Apart
  <2>1. ~ForNode(q[i]) /\ ~ForNode(q[j]) /\ q[i].kind # "hr" /\ q[j].kind # "hr"
    BY <1>5 DEF ForNode
  <2>2. i = 3 => j = 4 \/ j = 5 \/ j = 6
    OBVIOUS
  <2>3. q[4].kind # "repo" /\ q[5].kind # "repo" /\ q[6].kind # "repo"
    BY <1>1 DEF HASteps
  <2>4. Deletes(q[i]) => q[j].kind # "repo" /\ ~Deletes(q[j])
    BY <1>7, <2>2, <2>3
  <2>5. QED
    BY <2>1, <2>4 DEF Fits
<1>9. ASSUME NEW j \in 1 .. 6, NEW x \in Reads(q[j])
      PROVE  (\E k \in 1 .. Len(g) : g[k].var = x) \/ \E k \in 1 .. 6 : k < j /\ q[k].var = x
  <2>1. /\ Reads(a) = {"repo"} /\ Reads(b) = {} /\ Reads(c) = {"defaultRepo"} /\ Reads(d) = {}
        /\ Reads(e) = {"haCred"} /\ Reads(f) = {"haCred"}
    BY HAStepFacts
  <2>2. \/ (j = 1 /\ x = "repo") \/ (j = 3 /\ x = "defaultRepo") \/ (j \in {5, 6} /\ x = "haCred")
    <3>1. /\ Reads(q[1]) = {"repo"} /\ Reads(q[2]) = {} /\ Reads(q[3]) = {"defaultRepo"}
          /\ Reads(q[4]) = {} /\ Reads(q[5]) = {"haCred"} /\ Reads(q[6]) = {"haCred"}
      BY <1>1, <2>1
    <3>2. /\ j = 1 => x \in Reads(q[1])
          /\ j = 2 => x \in Reads(q[2])
          /\ j = 3 => x \in Reads(q[3])
          /\ j = 4 => x \in Reads(q[4])
          /\ j = 5 => x \in Reads(q[5])
          /\ j = 6 => x \in Reads(q[6])
      BY <1>9
    <3>3. QED
      BY <1>2, <3>1, <3>2
  <2>3. q[2].var = "defaultRepo" /\ q[4].var = "haCred" /\ 2 \in 1 .. 6 /\ 4 \in 1 .. 6
    <3>1. b.var = "defaultRepo" /\ d.var = "haCred"
      BY DEF HASteps
    <3>2. QED
      BY <1>1, <3>1
  <2>4. QED
    BY <2>2, <2>3
<1>10. ASSUME NEW j \in 1 .. 6, Deletes(q[j])
       PROVE  \E k \in 1 .. 6 : k < j /\ q[k].kind = "redirect"
  <2>1. q[1].kind = "redirect" /\ 1 \in 1 .. 6 /\ 1 < 3
    <3>1. a.kind = "redirect"
      BY DEF HASteps
    <3>2. QED
      BY <1>1, <3>1
  <2>2. QED
    BY <1>7, <1>10, <2>1
<1>11. OnTop(g, q)
  BY <1>1, <1>6, <1>8, <1>9, <1>10 DEF OnTop
<1>12. QED
  BY <1>11 DEF q

\* The hardened repositories are among the nodes that are no VSA.
LEMMA Hardened ==
    ASSUME NEW s \in Specifications
    PROVE  /\ \A n \in NodesOf(s) : isHR(n) => HRs(s) # <<>>
           /\ HRs(s) # <<>> => /\ isHR(Head(HRs(s)))
                               /\ \E k \in 1 .. Len(VIAs(s)) : VIAs(s)[k] = Head(HRs(s))
           /\ \A i \in 1 .. Len(HRs(s)) : /\ isHR(HRs(s)[i])
                                          /\ \E k \in 1 .. Len(VIAs(s)) : VIAs(s)[k] = HRs(s)[i]
<1> DEFINE q == s.nodes
           S == {n \in Nodes : isHR(n)}
           r == HRs(s)
<1>1. q \in Seq(Nodes)
  BY DEF Specifications
<1>2. r = Among(q, S)
  BY DEF HRs
<1> HIDE DEF S, r, q
<1>3. r \in Seq(Nodes \cap S) /\ Covers(r, q, S)
  BY <1>1, <1>2, AmongFacts
<1>4. ASSUME NEW n \in NodesOf(s), isHR(n)
      PROVE  r # <<>>
  <2>1. PICK i \in 1 .. Len(q) : q[i] = n
    BY <1>1 DEF NodesOf, q
  <2>2. q[i] \in S
    BY <1>1, <1>4, <2>1 DEF S
  <2>3. \E k \in 1 .. Len(r) : r[k] = q[i]
    BY <1>3, <2>1, <2>2 DEF Covers
  <2>4. QED
    BY <2>3
<1>5. r # <<>> => 1 \in 1 .. Len(r) /\ Head(r) = r[1]
  BY <1>3
<1>6. \A i \in 1 .. Len(r) : isHR(r[i]) /\ ~isVSA(r[i])
  <2>1. \A i \in 1 .. Len(r) : r[i] \in S
    BY <1>3
  <2>2. QED
    BY <2>1 DEF S, isHR, isVSA
<1>7. \A i \in 1 .. Len(r) : r[i] \in NodesOf(s)
  <2>1. HRs(s) \in Seq(NodesOf(s) \cap Nodes)
    BY Selected
  <2>2. r \in Seq(NodesOf(s) \cap Nodes)
    BY <2>1 DEF r
  <2>3. QED
    BY <2>2
<1>8. \A i \in 1 .. Len(r) : \E k \in 1 .. Len(VIAs(s)) : VIAs(s)[k] = r[i]
  BY <1>6, <1>7, Selected
<1>9. r # <<>> => isHR(Head(r)) /\ \E k \in 1 .. Len(VIAs(s)) : VIAs(s)[k] = Head(r)
  BY <1>5, <1>6, <1>8
<1>10. (\A n \in NodesOf(s) : isHR(n) => r # <<>>) /\ r = HRs(s)
  BY <1>4 DEF r
<1>11. QED
  BY <1>6, <1>8, <1>9, <1>10

\* Where every hardened repository has a hostname, Wire gives it the name that the script does.
LEMMA WireNames ==
    ASSUME NEW t, Usual(t), NEW n, n.name # ""
    PROVE  WireRepoName(t, n) = RepoName(t, n)
<1> DEFINE r   == HRs(t)
           via == VIAs(spec)
<1>1. /\ spec \in Specifications /\ r = HRs(spec)
      /\ \A i \in 1 .. Len(via) : isHR(via[i]) => via[i].name # ""
  BY DEF Usual, Like, Calm, Mirrored
<1>2. \A i \in 1 .. Len(HRs(spec)) : isHR(HRs(spec)[i]) /\ \E k \in 1 .. Len(via) : via[k] = HRs(spec)[i]
  BY <1>1, Hardened
<1> HIDE DEF r, via
<1>3. \A i \in 1 .. Len(r) : nodeName(r[i]) = r[i].name
  BY <1>1, <1>2 DEF nodeName
<1>4. nodeName(n) = n.name
  BY DEF nodeName
<1> DEFINE X == {i \in 1 .. Len(r) : nodeName(r[i]) = nodeName(n)}
           Y == {i \in 1 .. Len(r) : r[i].name = n.name}
<1>5. X = Y
  BY <1>3, <1>4
<1>6. /\ RepoName(t, n) = IF Cardinality(X) > 1 THEN n.ip ELSE nodeName(n)
      /\ WireRepoName(t, n) = IF Cardinality(Y) > 1 THEN n.ip ELSE n.name
  BY Zenon DEF RepoName, WireRepoName, r
<1> HIDE DEF X, Y
<1>7. QED
  BY <1>4, <1>5, <1>6

\* The six steps of the cluster: five calls, as in Wire when no backup is in the default
\* repository.
LEMMA IdealHA ==
    ASSUME NEW t, Usual(t), Len(VSAs(t)) > 1
    PROVE  /\ Ready(PlanHA(t, env), PlanHA(t, Intended), WireHA(t, vbr.backups))
           /\ \A c : AllGentle(c) /\ (\E k \in 1 .. Len(c) : c[k].var = "repo")
                        => OnTop(c, PlanHA(t, Intended))
<1> DEFINE vsa  == VSAs(t)
           a(x) == Step("redirect", RedirectConfigBackup(x.repo), "")
           b    == Step("repo", [NoReq EXCEPT !.body = DefaultRepo], "defaultRepo")
           c(x) == Step("call", DeleteRepository(x.defaultRepo), "")
           d    == Step("call", CreateCredentials(t.username, "HA secondary node"), "haCred")
           e(x) == Step("call", ConnectionCertificate(vsa[2].ip, x.haCred), "")
           f(x) == Step("wait", CreateHACluster(vsa[1].ip, vsa[2].ip, x.haCred, t.dns, t.endpoint), "")
           w    == Intended
           aw == a(w)
           cw == c(w)
           ew == e(w)
           fw == f(w)
           ra == RedirectConfigBackup(w.repo)
           rc == DeleteRepository(w.defaultRepo)
           rd == CreateCredentials(t.username, "HA secondary node")
           re == ConnectionCertificate(vsa[2].ip, w.haCred)
           rf == CreateHACluster(vsa[1].ip, vsa[2].ip, w.haCred, t.dns, t.endpoint)
<1>0. HRs(t) # <<>> /\ HRs(t) = HRs(spec) /\ vbr.backups = <<>>
  BY DEF Usual, Calm, Mirrored, Like
<1>1. HASteps(aw, b, cw, d, ew, fw)
  BY DEF HASteps, Step, RedirectConfigBackup, DeleteRepository, CreateCredentials,
         ConnectionCertificate, CreateHACluster, Request, NoReq
<1>2. aw.req = ra /\ cw.req = rc /\ d.req = rd /\ ew.req = re /\ fw.req = rf
  BY DEF Step
<1>3. /\ env["repo"] = Intended["repo"] => a(env) = aw
      /\ env["defaultRepo"] = Intended["defaultRepo"] => c(env) = cw
      /\ env["haCred"] = Intended["haCred"] => e(env) = ew /\ f(env) = fw
  OBVIOUS
<1>4. /\ PlanHA(t, env) = <<a(env), b, c(env), d, e(env), f(env)>>
      /\ PlanHA(t, Intended) = <<aw, b, cw, d, ew, fw>>
  BY DEF PlanHA
<1>5. WireHA(t, vbr.backups) = (<<ra>> \o <<rc>>) \o <<rd, re, rf>>
  <2> DEFINE first == RepoId(WireRepoName(t, Head(HRs(t))))
             cred  == Id("credentials", "HA secondary node")
             z     == [i \in 1 .. Len(vbr.backups) |-> DeleteBackup(Id("backup", vbr.backups[i]))]
             ub    == RedirectConfigBackup(first)
             uc    == DeleteRepository(RepoId(DefaultRepo))
             ue    == ConnectionCertificate(vsa[2].ip, cred)
             uf    == CreateHACluster(vsa[1].ip, vsa[2].ip, cred, t.dns, t.endpoint)
  <2>1. first = w.repo /\ cred = w.haCred /\ RepoId(DefaultRepo) = w.defaultRepo
    <3> DEFINE n == Head(HRs(t))
    <3>1. n.name # ""
      <4>1. isHR(Head(HRs(spec))) /\ \E k \in 1 .. Len(VIAs(spec)) : VIAs(spec)[k] = Head(HRs(spec))
        BY <1>0, Hardened DEF Usual, Like
      <4>2. \A k \in 1 .. Len(VIAs(spec)) : isHR(VIAs(spec)[k]) => VIAs(spec)[k].name # ""
        BY DEF Usual, Calm, Mirrored
      <4>3. QED
        BY <1>0, <4>1, <4>2
    <3>2. WireRepoName(t, n) = RepoName(t, n)
      BY <3>1, WireNames
    <3>3. RepoName(t, n) = RepoName(spec, Head(HRs(spec)))
      BY <1>0 DEF Usual, Like
    <3>4. QED
      BY <1>0, <3>2, <3>3, IntendedIs
  <2>2. WireHA(t, vbr.backups) =
          (IF HRs(t) = <<>> THEN <<>> ELSE <<ub>> \o z \o <<uc>>) \o <<rd, ue, uf>>
    BY Zenon DEF WireHA, WireCluster
  <2>3. ub = ra /\ uc = rc /\ ue = re /\ uf = rf
    <3> HIDE DEF first, cred, w
    <3> QED
      BY <2>1
  <2>4. z = <<>>
    BY <1>0
  <2>5. <<ub>> \o z = <<ub>>
    BY <2>4, Tuples, NothingBefore
  <2> HIDE DEF ub, uc, ue, uf, z, ra, rc, rd, re, rf
  <2>6. QED
    BY <1>0, <2>2, <2>3, <2>5, Zenon
<1> HIDE DEF a, b, c, d, e, f, aw, cw, ew, fw, ra, rc, rd, re, rf
<1>6. (<<ra>> \o <<rc>>) \o <<rd, re, rf>> = <<ra, rc, rd, re, rf>>
  <2>1. OfFive(ra, rc, rd, re, rf)
    BY FiveRequests
  <2>2. QED
    BY <2>1 DEF OfFive
<1>7. Ready(<<a(env), b, c(env), d, e(env), f(env)>>, <<aw, b, cw, d, ew, fw>>,
            <<aw.req, cw.req, d.req, ew.req, fw.req>>)
  BY <1>0, <1>1, <1>3, HATwins
<1>8. \A g : AllGentle(g) /\ (\E k \in 1 .. Len(g) : g[k].var = "repo")
                => OnTop(g, <<aw, b, cw, d, ew, fw>>)
  BY <1>0, <1>1, HAOnTop
<1>9. <<aw.req, cw.req, d.req, ew.req, fw.req>> = WireHA(t, vbr.backups)
  BY <1>2, <1>5, <1>6
<1>10. QED
  BY <1>4, <1>7, <1>8, <1>9, Zenon

\* The step of a node.
LEMMA IdealNode ==
    ASSUME NEW t, Usual(t), NEW n \in Nodes, ~isVSA(n), n.ip # vbr.self,
           isHR(n) => HRs(t) # <<>> /\ n.name # ""
    PROVE  LET a == PlanNode(t, n, env)
               b == PlanNode(t, n, Intended)
           IN /\ Meant(b) /\ Writes(b) = WireNode(t, n)
              /\ (\A x \in Reads(b) : env[x] = Intended[x]) => a = b
              /\ ForNode(b) /\ b.node = n /\ b.kind = (IF isHR(n) THEN "hr" ELSE "proxy")
              /\ Reads(b) = IF isHR(n) THEN {"hrMount"} ELSE {}
              /\ (isHR(n) /\ n = Head(HRs(t)) => b.var = "repo") /\ b.var # "hrMount"
<1>1. CASE isHR(n)
  <2> DEFINE v    == IF n = Head(HRs(t)) THEN "repo" ELSE ""
             a    == NodeStep("hr", n, HardenedRepo(t, n, env), v)
             b    == NodeStep("hr", n, HardenedRepo(t, n, Intended), v)
             self == HostId(vbr.self)
             req  == AddHardenedRepository(RepoName(t, n), HostId(n.ip), "RepoPath", t.immutableDays, self)
  <2>1. PlanNode(t, n, env) = a /\ PlanNode(t, n, Intended) = b
    BY <1>1 DEF PlanNode
  <2>2. VSAs(t) # <<>> /\ shell # "curl" /\ HRs(spec) = HRs(t) /\ HRs(t) # <<>>
    BY <1>1 DEF Usual, Calm, Mirrored, Like
  <2>3. self # NullId /\ self # NoId
    BY DEF HostId, Id, NullId, NoId
  <2>4. Mount(t, Intended) = self /\ (env["hrMount"] = Intended["hrMount"] => Mount(t, env) = self)
    <3> HIDE DEF self
    <3>1. Intended["hrMount"] = self
      BY IntendedIs DEF self
    <3>2. QED
      BY <2>2, <2>3, <3>1 DEF Mount
  <2>5. HardenedRepo(t, n, Intended) = req /\ (env["hrMount"] = Intended["hrMount"] => a = b)
    <3> HIDE DEF self
    <3>1. QED
      BY <2>4 DEF HardenedRepo
  <2>6. /\ req.method = "POST" /\ req.refs \subseteq {HostId(n.ip), self}
        /\ "mountServer" \in DOMAIN req.body
    <3> HIDE DEF self
    <3>1. QED
      BY <2>3 DEF AddHardenedRepository, Request, With, Joined, LinuxMount
  <2>7. b.kind = "hr" /\ b.node = n /\ b.var = v /\ b.req = HardenedRepo(t, n, Intended)
    BY DEF NodeStep
  <2>8. n = Head(HRs(t)) => RepoId(RepoName(spec, n)) = Intended["repo"]
    BY <2>2, IntendedIs
  <2> HIDE DEF req, self
  <2>9. WireNode(t, n) = <<ConnectionCertificate(n.ip, NoId),
                           AddLinuxHost(n.ip, n.role, pairingCode(n)), req>>
    <3>1. WireRepoName(t, n) = RepoName(t, n)
      BY <1>1, WireNames
    <3>2. QED
      BY <1>1, <3>1 DEF WireNode, req, self
  <2> HIDE DEF a, b
  <2>10. Writes(b) = WireNode(t, n)
    BY <2>5, <2>7, <2>9 DEF Writes, ForNode
  <2>11. Reads(b) = {"hrMount"}
    BY <2>7 DEF Reads, Caught, Deletes, Clusters, Stores
  <2>12. Intended["hrMount"] = self
    BY IntendedIs DEF self
  <2>13. Meant(b)
    <3>1. b.req.refs \subseteq {Intended[x] : x \in Reads(b)} \cup {HostId(b.node.ip)}
      BY <2>5, <2>6, <2>7, <2>11, <2>12
    <3>2. ForNode(b) /\ ~Deletes(b)
      BY <2>7 DEF ForNode, Deletes
    <3>3. b.var = "repo" => n = Head(HRs(t))
      BY <2>7
    <3>4. QED
      BY <2>5, <2>6, <2>7, <2>8, <3>1, <3>2, <3>3 DEF Meant
  <2>14. (\A x \in Reads(b) : env[x] = Intended[x]) => a = b
    BY <2>5, <2>11
  <2>15. ForNode(b)
    BY <2>7 DEF ForNode
  <2>16. QED
    BY <1>1, <2>1, <2>7, <2>10, <2>11, <2>13, <2>14, <2>15
<1>2. CASE ~isHR(n)
  <2> DEFINE b == NodeStep("proxy", n, AddVmwareProxy(HostId(n.ip)), "")
  <2>1. PlanNode(t, n, env) = b /\ PlanNode(t, n, Intended) = b
    BY <1>2 DEF PlanNode
  <2>2. b.kind = "proxy" /\ b.node = n /\ b.var = "" /\ b.req = AddVmwareProxy(HostId(n.ip))
    BY DEF NodeStep
  <2>3. AddVmwareProxy(HostId(n.ip)).refs = {HostId(n.ip)}
    BY DEF AddVmwareProxy, Request
  <2> HIDE DEF b
  <2>4. Reads(b) = {} /\ ForNode(b) /\ ~Deletes(b)
    BY <2>2 DEF Reads, ForNode, Deletes, Clusters, Stores
  <2>5. Meant(b)
    BY <2>2, <2>3, <2>4 DEF Meant
  <2>6. WireNode(t, n) = <<ConnectionCertificate(n.ip, NoId),
                           AddLinuxHost(n.ip, n.role, pairingCode(n)), AddVmwareProxy(HostId(n.ip))>>
    BY <1>2 DEF WireNode
  <2>7. Writes(b) = WireNode(t, n)
    BY <2>2, <2>6 DEF Writes, ForNode
  <2>8. QED
    BY <1>2, <2>1, <2>2, <2>4, <2>5, <2>7
<1>3. QED
  BY <1>1, <1>2

\* What is known of the nodes that are no VSA.
LEMMA ViaNodes ==
    ASSUME NEW t, Usual(t)
    PROVE  /\ Len(VIAs(t)) \in Nat
           /\ \A i \in 1 .. Len(VIAs(t)) :
                 LET n == VIAs(t)[i] IN
                 /\ n \in Nodes /\ ~isVSA(n) /\ n.ip # vbr.self
                 /\ isHR(n) => HRs(t) # <<>> /\ n.name # ""
           /\ \A i, j \in 1 .. Len(VIAs(t)) :
                 LET m == VIAs(t)[i]
                     n == VIAs(t)[j]
                 IN i # j => /\ m.ip # n.ip
                             /\ isHR(m) /\ isHR(n) => RepoName(spec, m) # RepoName(spec, n)
           /\ HRs(t) # <<>> => /\ isHR(Head(HRs(t)))
                               /\ \E k \in 1 .. Len(VIAs(t)) : VIAs(t)[k] = Head(HRs(t))
<1> DEFINE via == VIAs(spec)
<1>1. VIAs(t) = via /\ HRs(t) = HRs(spec) /\ spec \in Specifications
  BY DEF Usual, Like
<1>2. via \in Seq(NodesOf(spec) \cap Nodes) /\ \A i \in 1 .. Len(via) : ~isVSA(via[i])
  BY <1>1, Selected
<1>3. \A i, j \in 1 .. Len(via) :
         /\ via[i].ip # vbr.self /\ (isHR(via[i]) => via[i].name # "")
         /\ i # j => via[i].ip # via[j].ip
         /\ i # j /\ isHR(via[i]) /\ isHR(via[j]) => RepoName(spec, via[i]) # RepoName(spec, via[j])
  BY DEF Usual, Calm, Mirrored
<1>4. \A n \in NodesOf(spec) : isHR(n) => HRs(spec) # <<>>
  BY <1>1, Hardened
<1>5. HRs(spec) # <<>> => /\ isHR(Head(HRs(spec)))
                          /\ \E k \in 1 .. Len(via) : via[k] = Head(HRs(spec))
  BY <1>1, Hardened
<1> HIDE DEF via
<1>6. Len(via) \in Nat /\ \A i \in 1 .. Len(via) : via[i] \in NodesOf(spec) \cap Nodes
  BY <1>2
<1>7. QED
  BY <1>1, <1>2, <1>3, <1>4, <1>5, <1>6

\* The steps of the nodes come after some that are quiet.
LEMMA IdealNodes ==
    ASSUME NEW t, Usual(t), NEW c, AllQuiet(c),
           HRs(t) # <<>> => \E k \in 1 .. Len(c) : c[k].var = "hrMount"
    PROVE  LET via  == VIAs(t)
               p(v) == [i \in 1 .. Len(via) |-> PlanNode(t, via[i], v)]
           IN /\ Ready(p(env), p(Intended), FlattenSeq([i \in 1 .. Len(via) |-> WireNode(t, via[i])]))
              /\ AllGentle(p(Intended)) /\ OnTop(c, p(Intended))
              /\ HRs(t) # <<>> => \E k \in 1 .. Len(p(Intended)) : p(Intended)[k].var = "repo"
<1> DEFINE via  == VIAs(t)
           m    == Len(via)
           p(v) == [i \in 1 .. m |-> PlanNode(t, via[i], v)]
           a    == p(env)
           b    == p(Intended)
           w    == FlattenSeq([i \in 1 .. m |-> WireNode(t, via[i])])
<1>1. /\ m \in Nat
      /\ \A i \in 1 .. m : /\ via[i] \in Nodes /\ ~isVSA(via[i]) /\ via[i].ip # vbr.self
                           /\ isHR(via[i]) => HRs(t) # <<>> /\ via[i].name # ""
      /\ \A i, j \in 1 .. m :
            i # j => /\ via[i].ip # via[j].ip
                     /\ isHR(via[i]) /\ isHR(via[j]) => RepoName(spec, via[i]) # RepoName(spec, via[j])
      /\ HRs(t) # <<>> => isHR(Head(HRs(t))) /\ \E k \in 1 .. m : via[k] = Head(HRs(t))
  BY ViaNodes
<1> HIDE DEF via, m
<1>2. ASSUME NEW x
      PROVE  IsSeq(p(x)) /\ Len(p(x)) = m /\ \A i \in 1 .. m : p(x)[i] = PlanNode(t, via[i], x)
  <2> m \in Nat
    BY <1>1
  <2>1. Len(p(x)) = m /\ DOMAIN p(x) = 1 .. m /\ \A i \in 1 .. m : p(x)[i] = PlanNode(t, via[i], x)
    OBVIOUS
  <2>2. p(x) \in Seq({PlanNode(t, via[i], x) : i \in 1 .. m})
    OBVIOUS
  <2>3. {PlanNode(t, via[i], x) : i \in 1 .. m} = {p(x)[i] : i \in DOMAIN p(x)}
    BY <2>1
  <2>4. QED
    BY <2>1, <2>2, <2>3 DEF IsSeq
<1>3. /\ IsSeq(a) /\ IsSeq(b) /\ Len(a) = m /\ Len(b) = m
      /\ \A i \in 1 .. m : a[i] = PlanNode(t, via[i], env) /\ b[i] = PlanNode(t, via[i], Intended)
  BY <1>2
<1>4. w = FlattenSeq([i \in 1 .. m |-> WireNode(t, via[i])])
  OBVIOUS
<1> HIDE DEF p, a, b, w
<1>5. \A i \in 1 .. m :
         /\ Meant(b[i]) /\ Writes(b[i]) = WireNode(t, via[i])
         /\ (\A x \in Reads(b[i]) : env[x] = Intended[x]) => a[i] = b[i]
         /\ ForNode(b[i]) /\ b[i].node = via[i] /\ b[i].kind = (IF isHR(via[i]) THEN "hr" ELSE "proxy")
         /\ Reads(b[i]) = IF isHR(via[i]) THEN {"hrMount"} ELSE {}
         /\ (isHR(via[i]) /\ via[i] = Head(HRs(t)) => b[i].var = "repo") /\ b[i].var # "hrMount"
  <2> TAKE i \in 1 .. m
  <2>1. a[i] = PlanNode(t, via[i], env) /\ b[i] = PlanNode(t, via[i], Intended)
    BY <1>3
  <2>2. /\ via[i] \in Nodes /\ ~isVSA(via[i]) /\ via[i].ip # vbr.self
        /\ isHR(via[i]) => HRs(t) # <<>> /\ via[i].name # ""
    BY <1>1
  <2>3. LET y == PlanNode(t, via[i], Intended) IN
        /\ Meant(y) /\ Writes(y) = WireNode(t, via[i])
        /\ (\A x \in Reads(y) : env[x] = Intended[x]) => PlanNode(t, via[i], env) = y
        /\ ForNode(y) /\ y.node = via[i] /\ y.kind = (IF isHR(via[i]) THEN "hr" ELSE "proxy")
        /\ Reads(y) = IF isHR(via[i]) THEN {"hrMount"} ELSE {}
        /\ (isHR(via[i]) /\ via[i] = Head(HRs(t)) => y.var = "repo") /\ y.var # "hrMount"
    BY <2>2, IdealNode, Zenon
  <2>4. QED
    BY <2>1, <2>3, Zenon
<1>6. Twins(a, b)
  BY <1>3, <1>5 DEF Twins
<1>7. SendsAll(b) = w
  <2>1. [i \in 1 .. m |-> Writes(b[i])] = [i \in 1 .. m |-> WireNode(t, via[i])]
    BY <1>5
  <2>2. QED
    BY <1>3, <1>4, <2>1, Zenon DEF SendsAll, Sends
<1>8. \A i \in 1 .. m : ~Deletes(b[i]) /\ ~Stores(b[i]) /\ b[i].kind \in {"hr", "proxy"}
  BY <1>5 DEF ForNode, Deletes, Stores
<1>9. AllGentle(b)
  BY <1>3, <1>8 DEF AllGentle
<1>10. OnTop(c, b)
  <2>1. \A i \in 1 .. Len(c), j \in 1 .. m : Fits(c[i], b[j])
    BY DEF AllQuiet, Quiet, Fits, ForNode, Stores
  <2>2. ASSUME NEW i \in 1 .. m, NEW j \in 1 .. m, i # j
        PROVE  Fits(b[i], b[j])
    <3>1. /\ b[i].node = via[i] /\ (b[i].kind = "hr" => isHR(via[i]))
          /\ b[j].node = via[j] /\ (b[j].kind = "hr" => isHR(via[j])) /\ b[j].var # "hrMount"
      BY <1>5
    <3>2. /\ via[i].ip # via[j].ip
          /\ isHR(via[i]) /\ isHR(via[j]) => RepoName(spec, via[i]) # RepoName(spec, via[j])
      BY <1>1, <2>2
    <3>3. QED
      BY <1>8, <3>1, <3>2 DEF Fits
  <2>3. Apart(b)
    BY <1>3, <2>2 DEF Apart
  <2>4. \A j \in 1 .. m : \A x \in Reads(b[j]) : \E k \in 1 .. Len(c) : c[k].var = x
    BY <1>1, <1>5
  <2>5. QED
    BY <1>3, <1>8, <2>1, <2>3, <2>4 DEF OnTop
<1>11. HRs(t) # <<>> => \E k \in 1 .. m : b[k].var = "repo"
  BY <1>1, <1>5
<1>12. QED
  BY <1>3, <1>4, <1>6, <1>7, <1>9, <1>10, <1>11 DEF Ready, a, b, p, w, m, via

\* A field that is given the value it has.
LEMMA NoChange ==
    ASSUME NEW g, g = [x \in DOMAIN g |-> g[x]], NEW k, NEW v, k \in DOMAIN g => g[k] = v
    PROVE  [g EXCEPT ![k] = v] = g
<1>1. [g EXCEPT ![k] = v] = [x \in DOMAIN g |-> IF x = k THEN v ELSE g[x]]
  OBVIOUS
<1>2. [x \in DOMAIN g |-> IF x = k THEN v ELSE g[x]] = [x \in DOMAIN g |-> g[x]]
  OBVIOUS
<1>3. QED
  BY <1>1, <1>2, Zenon

\* A request for a folder names the endpoint as it was entered, unless it is a bare host.
LEMMA SameFolder ==
    ASSUME NEW c, NEW s3, s3.servicePoint # "bare"
    PROVE  LET folder == NewS3CompatibleFolder(c, s3.servicePoint, s3.region, s3.bucket, s3.folder)
           IN [folder EXCEPT !.body.connectionPoint = s3.servicePoint] = folder
<1> DEFINE p == s3.servicePoint
           g == NewS3CompatibleFolder(c, p, s3.region, s3.bucket, s3.folder)
           b == [g.body EXCEPT !.connectionPoint = p]
<1>1. normalizeEndpoint(p) = p
  BY DEF normalizeEndpoint
<1>2. g = [x \in DOMAIN g |-> g[x]]
  BY DEF NewS3CompatibleFolder, Request
<1>3. g.body = [x \in DOMAIN g.body |-> g.body[x]] /\ g.body.connectionPoint = p
  BY <1>1 DEF NewS3CompatibleFolder, Request
<1>4. [g EXCEPT !.body.connectionPoint = p] = [g EXCEPT !.body = b]
  BY Zenon
<1> HIDE DEF g
<1>5. b = g.body
  <2> DEFINE h == g.body
  <2>1. h = [x \in DOMAIN h |-> h[x]] /\ h.connectionPoint = p
    BY <1>3
  <2> HIDE DEF h
  <2>2. [h EXCEPT !.connectionPoint = p] = h
    BY <2>1, NoChange
  <2>3. QED
    BY <2>2 DEF h
<1> HIDE DEF b
<1>6. [g EXCEPT !.body = b] = g
  BY <1>2, <1>5, NoChange
<1>7. QED
  BY <1>4, <1>6, Zenon DEF g

\* So does the request for the S3 repository.
LEMMA SameStore ==
    ASSUME NEW c, NEW s3, s3.servicePoint # "bare"
    PROVE  s3RepoBody(s3, c, NoId) = AddS3Repository(s3, c, NoId)
<1> DEFINE p == s3.servicePoint
           g == AddS3Repository(s3, c, NoId)
           a == [g.body.account EXCEPT !.servicePoint = p]
           d == [g.body EXCEPT !.account = a]
<1>1. normalizeEndpoint(p) = p
  BY DEF normalizeEndpoint
<1>2. g = [x \in DOMAIN g |-> g[x]]
  BY DEF AddS3Repository, Request
<1>3. CASE s3.compatible
  <2> DEFINE account == Joined([credentialsId |-> c, connectionSettings |-> "Direct"],
                               [servicePoint |-> p, regionId |-> s3.region])
             r == [type |-> "S3Compatible", account |-> account, bucket |-> S3Bucket(s3, <<>>)]
             q == [name |-> s3.name, description |-> "autodeploy object storage"]
  <2>1. g.body = Joined(q, r)
    BY <1>1, <1>3 DEF AddS3Repository, Request, With
  <2>2. account = [x \in DOMAIN account |-> account[x]] /\ account.servicePoint = p
    BY DEF Joined
  <2> HIDE DEF account
  <2>3. /\ Joined(q, r) = [x \in DOMAIN Joined(q, r) |-> Joined(q, r)[x]]
        /\ Joined(q, r).account = account
    BY DEF Joined
  <2> HIDE DEF r, q
  <2>4. [g EXCEPT !.body.account.servicePoint = p] = [g EXCEPT !.body = d]
    BY Zenon
  <2> HIDE DEF g
  <2>5. a = account
    <3>1. g.body.account = account
      BY <2>1, <2>3
    <3>2. [account EXCEPT !.servicePoint = p] = account
      BY <2>2, NoChange
    <3>3. QED
      BY <3>1, <3>2
  <2> HIDE DEF a
  <2>6. d = g.body
    <3> DEFINE j == Joined(q, r)
    <3>1. j = [x \in DOMAIN j |-> j[x]] /\ j.account = a
      BY <2>3, <2>5
    <3> HIDE DEF j
    <3>2. [j EXCEPT !.account = a] = j
      BY <3>1, NoChange
    <3>3. j = g.body
      BY <2>1 DEF j
    <3>4. QED
      BY <3>2, <3>3
  <2> HIDE DEF d
  <2>7. [g EXCEPT !.body = d] = g
    BY <1>2, <2>6, NoChange
  <2>8. s3RepoBody(s3, c, NoId) = [g EXCEPT !.body.account.servicePoint = p]
    BY <1>3, Zenon DEF s3RepoBody, g
  <2>9. QED
    BY <2>4, <2>7, <2>8, Zenon DEF g
<1>4. CASE ~s3.compatible
  BY <1>4, Zenon DEF s3RepoBody
<1>5. QED
  BY <1>3, <1>4

\* A step that reads the credentials of the object storage at most, and a part of such steps;
\* one that starts with the step that makes them.
Storing(st) == Late(st) /\ Reads(st) \subseteq {"s3Cred"}
AllStoring(q) == \A i \in 1 .. Len(q) : Storing(q[i])
FromCred(q) ==
    IsSeq(q) /\ AllStoring(q) /\ 1 \in 1 .. Len(q) /\ q[1].var = "s3Cred" /\ Reads(q[1]) = {}

\* Such a part, and more such steps.
LEMMA FromCredJoint ==
    ASSUME NEW p, FromCred(p), NEW q, IsSeq(q), AllStoring(q)
    PROVE  FromCred(p \o q)
<1> DEFINE r == p \o q
<1>1. IsSeq(p)
  BY DEF FromCred
<1>2. /\ IsSeq(r) /\ Len(r) = Len(p) + Len(q) /\ Len(p) \in Nat /\ Len(q) \in Nat
      /\ \A i \in 1 .. Len(p) : r[i] = p[i]
  BY <1>1, Concatenation
<1>3. \A i \in 1 .. Len(r) :
         \/ i \in 1 .. Len(p) /\ r[i] = p[i]
         \/ \E j \in 1 .. Len(q) : i = Len(p) + j /\ r[i] = q[j]
  BY <1>1, FromEither
<1> HIDE DEF r
<1>4. AllStoring(r)
  BY <1>3 DEF AllStoring, FromCred
<1>5. 1 \in 1 .. Len(r) /\ r[1] = p[1]
  BY <1>2 DEF FromCred
<1>6. FromCred(r)
  BY <1>2, <1>4, <1>5 DEF FromCred
<1>7. QED
  BY <1>6 DEF r

\* It is late, and fed.
LEMMA FromCredFed ==
    ASSUME NEW q, FromCred(q)
    PROVE  AllLate(q) /\ Fed(q)
<1>1. AllLate(q)
  BY DEF FromCred, AllStoring, Storing, AllLate
<1>2. \A i \in 1 .. Len(q) : ~Deletes(q[i]) /\ Reads(q[i]) \subseteq {"s3Cred"}
  BY DEF FromCred, AllStoring, Storing, Late
<1>3. 1 \in 1 .. Len(q) /\ q[1].var = "s3Cred" /\ Reads(q[1]) = {}
  BY DEF FromCred
<1>4. ASSUME NEW i \in 1 .. Len(q), NEW x \in Reads(q[i])
      PROVE  \E j \in 1 .. Len(q) : j < i /\ q[j].var = x
  <2>1. x = "s3Cred" /\ i # 1
    BY <1>2, <1>3, <1>4
  <2>2. 1 < i
    BY <1>3, <2>1
  <2>3. QED
    BY <1>3, <2>1, <2>2
<1>5. QED
  BY <1>1, <1>2, <1>4 DEF Fed

\* One such step, and none.
LEMMA StoringFew ==
    ASSUME NEW a, Storing(a)
    PROVE  /\ IsSeq(<<a>>) /\ AllStoring(<<a>>) /\ IsSeq(<<>>) /\ AllStoring(<<>>)
           /\ a.var = "s3Cred" /\ Reads(a) = {} => FromCred(<<a>>)
<1>1. Len(<<>>) = 0 /\ \A i \in 1 .. 0 : FALSE
  OBVIOUS
<1>2. IsSeq(<<>>) /\ AllStoring(<<>>)
  BY <1>1, Tuples DEF AllStoring
<1> DEFINE p == <<a>>
<1> HIDE DEF p
<1>3. IsSeq(p) /\ Len(p) = 1 /\ p[1] = a
  BY Tuples DEF p
<1>4. (\A i \in 1 .. 1 : i = 1) /\ 1 \in 1 .. 1
  OBVIOUS
<1>5. AllStoring(p)
  BY <1>3, <1>4 DEF AllStoring
<1>6. a.var = "s3Cred" /\ Reads(a) = {} => FromCred(p)
  BY <1>3, <1>4, <1>5 DEF FromCred
<1>7. QED
  BY <1>2, <1>3, <1>5, <1>6 DEF p

\* The steps of the object storage.
LEMMA IdealS3 ==
    ASSUME NEW t, Usual(t)
    PROVE  /\ Ready(PlanS3(t, env), PlanS3(t, Intended), WireS3(t))
           /\ AllLate(PlanS3(t, Intended)) /\ Fed(PlanS3(t, Intended))
<1> DEFINE w    == Intended
           s3   == t.s3
           g(c) == NewS3CompatibleFolder(c, s3.servicePoint, s3.region, s3.bucket, s3.folder)
           k    == IF VSAs(t) # <<>> THEN "create" ELSE "wait"
           ra   == CreateCloudCredentials(s3.name)
           a    == Step("call", ra, "s3Cred")
           b(x) == Step("call", g(x.s3Cred), "")
           d    == Step("host", [NoReq EXCEPT !.body = Head(VSAs(t)).ip], "mountSrv")
           r(x) == AddS3Repository(s3, x.s3Cred, NoId)
           e(x) == Step(k, r(x), "")
           has  == s3.compatible /\ s3.folder # ""
           f(x) == IF has THEN <<b(x)>> ELSE <<>>
           h    == IF has THEN <<g(w.s3Cred)>> ELSE <<>>
           m    == IF VSAs(t) # <<>> THEN <<d>> ELSE <<>>
           bw   == b(w)
           ew   == e(w)
           rw   == r(w)
           gw   == g(w.s3Cred)
<1>1. /\ s3 = spec.s3 /\ s3.servicePoint # "bare" /\ s3.mountServerNode = ""
      /\ w.s3Cred = Id("cloudCredentials", s3.name)
  BY IntendedIs DEF Usual, Calm, Mirrored, Like
<1>2. /\ a.kind = "call" /\ a.var = "s3Cred" /\ a.req = ra
      /\ ra.refs = {} /\ ra.method = "POST" /\ ra.path = "cloudCredentials" /\ ra.body.description = s3.name
  BY DEF Step, CreateCloudCredentials, Request
<1>3. /\ bw.kind = "call" /\ bw.var = "" /\ bw.req = gw
      /\ gw.refs = {Intended["s3Cred"]} /\ gw.method = "POST" /\ gw.path = "newFolder"
      /\ (env["s3Cred"] = Intended["s3Cred"] => b(env) = bw)
  BY DEF Step, NewS3CompatibleFolder, Request
<1>4. d.kind = "host" /\ d.var = "mountSrv" /\ d.req.refs = {}
  BY DEF Step, NoReq, Request
<1>5. /\ ew.kind = k /\ ew.var = "" /\ ew.req = rw
      /\ (env["s3Cred"] = Intended["s3Cred"] => e(env) = ew)
  BY DEF Step
<1>6. rw.refs \subseteq {Intended["s3Cred"]} /\ rw.method = "POST" /\ rw.path \in RepositoryPaths
  BY DEF AddS3Repository, Request, RepositoryPaths
<1>7. PlanS3(t, env) = <<a>> \o f(env) \o m \o <<e(env)>> /\ PlanS3(t, w) = <<a>> \o f(w) \o m \o <<ew>>
  <2> DEFINE pinned == s3.mountServerNode # ""
             o(x) == [g(x.s3Cred) EXCEPT !.body.connectionPoint = s3.servicePoint]
             u == Step("host", [NoReq EXCEPT !.body = s3.mountServerNode], "mountSrv")
             q(x) == s3RepoBody(s3, x.s3Cred, IF pinned THEN x.mountSrv ELSE NoId)
             z(x) == <<a>> \o (IF has THEN <<Step("call", o(x), "")>> ELSE <<>>)
                     \o (IF pinned THEN <<u>> ELSE IF VSAs(t) # <<>> THEN <<d>> ELSE <<>>)
                     \o <<Step(IF pinned \/ VSAs(t) # <<>> THEN "create" ELSE "wait", q(x), "")>>
  <2>1. ~pinned
    BY <1>1
  <2>2. ASSUME NEW x
        PROVE  PlanS3(t, x) = <<a>> \o f(x) \o m \o <<e(x)>>
    <3>1. PlanS3(t, x) = z(x)
      BY Zenon DEF PlanS3
    <3>2. o(x) = g(x.s3Cred)
      BY <1>1, SameFolder
    <3>3. s3RepoBody(s3, x.s3Cred, NoId) = r(x)
      BY <1>1, SameStore
    <3>4. q(x) = r(x)
      BY <2>1, <3>3, Zenon
    <3> HIDE DEF o, g, q, r, pinned, a, d, u, has
    <3>5. (IF pinned \/ VSAs(t) # <<>> THEN "create" ELSE "wait") = k
      BY <2>1, Zenon
    <3>6. (IF pinned THEN <<u>> ELSE IF VSAs(t) # <<>> THEN <<d>> ELSE <<>>) = m
      BY <2>1, Zenon
    <3>7. z(x) = <<a>> \o f(x) \o m \o <<e(x)>>
      BY <3>2, <3>4, <3>5, <3>6, Zenon
    <3>8. QED
      BY <3>1, <3>7, Zenon
  <2>3. QED
    BY <2>2
<1>8. WireS3(t) = <<ra>> \o h \o <<rw>>
  <2> DEFINE cred  == Id("cloudCredentials", s3.name)
             mount == SelectSeq(t.nodes, LAMBDA n : n.name = s3.mountServerNode)
             at0   == IF s3.mountServerNode = "" THEN NoId ELSE HostId(Head(mount).ip)
  <2>1. WireS3(t) = <<ra>> \o (IF has THEN <<g(cred)>> ELSE <<>>) \o <<AddS3Repository(s3, cred, at0)>>
    BY Zenon DEF WireS3
  <2>2. at0 = NoId /\ cred = w.s3Cred
    BY <1>1
  <2> HIDE DEF at0, cred, w, g, ra, has
  <2>3. QED
    BY <2>1, <2>2, Zenon
<1> HIDE DEF k, f, m, h, a, b, d, e, r, g, bw, ew, ra, rw, gw
<1>9. Reads(a) = {} /\ Meant(a) /\ Writes(a) = <<ra>> /\ Storing(a)
  <2>1. Reads(a) = {} /\ ~Deletes(a)
    BY <1>2 DEF Reads, Caught, Deletes, Clusters, Stores
  <2>2. Created(ra) = Intended["s3Cred"]
    BY <1>1, <1>2 DEF Created
  <2>3. Meant(a)
    BY <1>2, <2>1, <2>2 DEF Meant, ForNode
  <2>4. QED
    BY <1>2, <2>1, <2>3 DEF Writes, ForNode, Storing, Late
<1>10. Reads(bw) = {"s3Cred"} /\ Meant(bw) /\ Writes(bw) = <<gw>> /\ Storing(bw)
  <2>1. Reads(bw) = {"s3Cred"} /\ ~Deletes(bw)
    BY <1>3 DEF Reads, Caught, Deletes, Clusters, Stores
  <2>2. Meant(bw)
    BY <1>3, <2>1, MeantPlain
  <2>3. QED
    BY <1>3, <2>1, <2>2 DEF Writes, ForNode, Storing, Late
<1>11. Reads(d) = {} /\ Meant(d) /\ Writes(d) = <<>> /\ Storing(d)
  <2>1. Reads(d) = {} /\ ~Deletes(d)
    BY <1>4 DEF Reads, Caught, Deletes, Clusters, Stores
  <2>2. Meant(d)
    BY <1>4, <2>1 DEF Meant, ForNode
  <2>3. QED
    BY <1>4, <2>1, <2>2 DEF Writes, ForNode, Storing, Late
<1>12. Reads(ew) = {"s3Cred"} /\ Meant(ew) /\ Writes(ew) = <<rw>> /\ Storing(ew)
  <2>1. k \in {"create", "wait"}
    BY DEF k
  <2>2. Reads(ew) = {"s3Cred"} /\ ~Deletes(ew)
    BY <1>5, <1>6, <2>1 DEF Reads, Caught, Deletes, Clusters, Stores, RepositoryPaths
  <2>3. Meant(ew)
    BY <1>5, <1>6, <2>1, <2>2, MeantPlain
  <2>4. QED
    BY <1>5, <2>1, <2>2, <2>3 DEF Writes, ForNode, Storing, Late
<1>13. Ready(<<a>>, <<a>>, <<ra>>) /\ FromCred(<<a>>)
  BY <1>2, <1>9, TwinsFew, SendsFew, StoringFew DEF Ready
<1>14. Ready(f(env), f(w), h) /\ IsSeq(f(w)) /\ AllStoring(f(w))
  <2>1. Ready(<<b(env)>>, <<bw>>, <<gw>>)
    BY <1>3, <1>10, TwinsFew, SendsFew DEF Ready
  <2>2. f(w) = (IF has THEN <<bw>> ELSE <<>>) /\ f(env) = (IF has THEN <<b(env)>> ELSE <<>>)
        /\ h = IF has THEN <<gw>> ELSE <<>>
    BY Zenon DEF f, h, bw, gw
  <2>3. IsSeq(<<bw>>) /\ AllStoring(<<bw>>) /\ IsSeq(<<>>) /\ AllStoring(<<>>)
    BY <1>10, StoringFew
  <2>4. QED
    BY <2>1, <2>2, <2>3, ReadyNone
<1>15. Ready(m, m, <<>>) /\ IsSeq(m) /\ AllStoring(m)
  <2>1. Ready(<<d>>, <<d>>, <<>>)
    BY <1>11, TwinsFew, SendsFew DEF Ready
  <2>2. IsSeq(<<d>>) /\ AllStoring(<<d>>) /\ IsSeq(<<>>) /\ AllStoring(<<>>)
    BY <1>11, StoringFew
  <2>3. QED
    BY <2>1, <2>2, ReadyNone DEF m
<1>16. Ready(<<e(env)>>, <<ew>>, <<rw>>) /\ IsSeq(<<ew>>) /\ AllStoring(<<ew>>)
  BY <1>5, <1>12, TwinsFew, SendsFew, StoringFew DEF Ready
<1> DEFINE p1 == <<a>> \o f(w)
           p2 == p1 \o m
           p3 == p2 \o <<ew>>
           q1 == <<a>> \o f(env)
           q2 == q1 \o m
           q3 == q2 \o <<e(env)>>
           w1 == <<ra>> \o h
<1>17. Ready(q1, p1, w1) /\ FromCred(p1)
  BY <1>13, <1>14, ReadyJoint, FromCredJoint
<1>18. IsSeq(w1)
  <2>1. IsSeq(<<ra>>) /\ IsSeq(h)
    BY Tuples DEF h
  <2>2. QED
    BY <2>1, Concatenation
<1> HIDE DEF p1, q1, w1
<1>19. Ready(q2, p2, w1) /\ FromCred(p2)
  <2>1. Ready(q2, p2, w1 \o <<>>) /\ FromCred(p2)
    BY <1>15, <1>17, ReadyJoint, FromCredJoint
  <2>2. w1 \o <<>> = w1
    BY <1>18, NothingBefore
  <2>3. QED
    BY <2>1, <2>2
<1> HIDE DEF p2, q2
<1>20. Ready(q3, p3, w1 \o <<rw>>) /\ FromCred(p3)
  BY <1>16, <1>19, ReadyJoint, FromCredJoint
<1>21. PlanS3(t, env) = q3 /\ PlanS3(t, w) = p3 /\ WireS3(t) = w1 \o <<rw>>
  BY <1>7, <1>8, Zenon DEF p1, p2, p3, q1, q2, q3, w1
<1>22. AllLate(p3) /\ Fed(p3)
  BY <1>20, FromCredFed
<1>23. QED
  BY <1>20, <1>21, <1>22, Zenon

\* A beginning of the plan.
Stage(p, q, w) == Ready(p, q, w) /\ Fed(q) /\ Apart(q)

\* A part more.
LEMMA StageJoint ==
    ASSUME NEW p, NEW q, NEW w, Stage(p, q, w), NEW p2, NEW q2, NEW w2, Ready(p2, q2, w2), OnTop(q, q2)
    PROVE  Stage(p \o p2, q \o q2, w \o w2)
<1>1. Ready(p \o p2, q \o q2, w \o w2)
  BY ReadyJoint DEF Stage
<1>2. Fed(q \o q2) /\ Apart(q \o q2)
  BY OnTopOf DEF Stage, Ready, Twins
<1>3. QED
  BY <1>1, <1>2 DEF Stage

\* What a part sets, the whole does.
Sets(q, x) == \E k \in 1 .. Len(q) : q[k].var = x

\* A part in front sets what it does when another follows.
LEMMA VarJoint ==
    ASSUME NEW p, IsSeq(p), NEW q, IsSeq(q), NEW x, Sets(q, x)
    PROVE  Sets(p \o q, x)
<1> DEFINE r == p \o q
<1>1. Within(q, r)
  BY Parts
<1> HIDE DEF r
<1>2. PICK k \in 1 .. Len(q) : q[k].var = x
  BY DEF Sets
<1>3. PICK j \in 1 .. Len(r) : r[j] = q[k]
  BY <1>1 DEF Within
<1>4. QED
  BY <1>2, <1>3 DEF Sets, r

\* The plan at hand agrees with the ideal one on each step whose variables hold what they are
\* meant to; the ideal one feeds its steps, and sends what Wire sends.
LEMMA IdealFacts ==
    ASSUME Calm, spec \in Specifications
    PROVE  Stage(Steps, Ideal, Wire(spec, vbr.backups))
<1> DEFINE t    == applyDefaults(spec)
           via  == VIAs(t)
           L    == PlanLicense(t)
           M    == PlanMount(t)
           N(x) == [i \in 1 .. Len(via) |-> PlanNode(t, via[i], x)]
           H(x) == IF Len(VSAs(t)) < 2 THEN <<>> ELSE PlanHA(t, x)
           X    == IF t.exporter THEN PlanExporter(t) ELSE <<>>
           Y    == IF t.syslog = "" THEN <<>> ELSE PlanSyslog(t)
           S(x) == IF HasS3(t) THEN PlanS3(t, x) ELSE <<>>
           wL   == IF t.license = "" \/ VSAs(t) = <<>> \/ vbr.license = "valid" THEN <<>>
                   ELSE <<InstallLicense(t.license)>>
           wN   == FlattenSeq([i \in 1 .. Len(via) |-> WireNode(t, via[i])])
           wH   == IF Len(VSAs(t)) < 2 THEN <<>> ELSE WireHA(t, vbr.backups)
           wX   == IF t.exporter THEN SetNodeExporter(t.tls, t.exporterUser) ELSE <<>>
           wY   == IF t.syslog = "" THEN <<>> ELSE <<SetSyslog(t.syslog, t.syslogPort, "Udp")>>
           wS   == IF HasS3(t) THEN WireS3(t) ELSE <<>>
           N1   == N(env)
           N2   == N(Intended)
           H1   == H(env)
           H2   == H(Intended)
           S1   == S(env)
           S2   == S(Intended)
           c1   == L \o M
<1>1. Usual(t)
  BY Defaults, MoreDefaults DEF Usual, Like
<1>2. Ready(L, L, wL) /\ AllQuiet(L)
  BY <1>1, IdealLicense
<1>3. /\ Ready(M, M, <<>>) /\ AllQuiet(M)
      /\ HRs(t) # <<>> => \E k \in 1 .. Len(M) : M[k].var = "hrMount"
  BY <1>1, IdealMount
<1>4. IsSeq(L) /\ IsSeq(M)
  BY <1>2, <1>3 DEF Ready, Twins
<1> HIDE DEF L, M, wL
<1>5. AllQuiet(c1) /\ (HRs(t) # <<>> => \E k \in 1 .. Len(c1) : c1[k].var = "hrMount")
  <2>1. AllQuiet(c1)
    BY <1>2, <1>3, <1>4, QuietJoint
  <2>2. Sets(M, "hrMount") => Sets(c1, "hrMount")
    BY <1>4, VarJoint
  <2> HIDE DEF c1, t
  <2>3. QED
    BY <1>3, <2>1, <2>2 DEF Sets
<1>6. Ready(c1, c1, wL)
  <2>1. Ready(c1, c1, wL \o <<>>)
    BY <1>2, <1>3, ReadyJoint
  <2>2. IsSeq(wL)
    <3>1. wL = SendsAll(L) /\ Len(L) \in Nat
      BY <1>2, <1>4 DEF Ready, IsSeq
    <3>2. QED
      BY <3>1, SendsSeq DEF SendsAll
  <2>3. wL \o <<>> = wL
    BY <2>2, NothingBefore
  <2>4. QED
    BY <2>1, <2>3
<1>7. Stage(c1, c1, wL) /\ AllGentle(c1)
  BY <1>5, <1>6, QuietOnTop DEF Stage
<1> HIDE DEF c1
<1>8. /\ Ready(N1, N2, wN) /\ AllGentle(N2) /\ OnTop(c1, N2)
      /\ HRs(t) # <<>> => \E k \in 1 .. Len(N2) : N2[k].var = "repo"
  BY <1>1, <1>5, IdealNodes
<1>9. /\ Ready(H1, H2, wH)
      /\ \A c : AllGentle(c) /\ (HRs(t) # <<>> => \E k \in 1 .. Len(c) : c[k].var = "repo") => OnTop(c, H2)
  <2>1. CASE Len(VSAs(t)) < 2
    BY <2>1, ReadyNone, NoneQuiet, QuietOnTop
  <2>2. CASE ~(Len(VSAs(t)) < 2)
    <3>1. Len(VSAs(t)) > 1
      <4>1. VSAs(t) = VSAs(spec) /\ VSAs(spec) \in Seq(Nodes)
        BY <1>1, Selected DEF Usual, Like
      <4>2. Len(VSAs(t)) \in Nat
        BY <4>1
      <4>3. QED
        BY <2>2, <4>2
    <3>2. HRs(t) # <<>>
      BY <1>1, <3>1 DEF Usual, Calm, Mirrored, Like
    <3> HIDE DEF t
    <3>3. QED
      BY <1>1, <2>2, <3>1, <3>2, IdealHA
  <2>3. QED
    BY <2>1, <2>2
<1>10. Ready(X, X, wX) /\ AllQuiet(X) /\ AllLate(X)
  BY <1>1, IdealExporter, ReadyNone, NoneQuiet
<1>11. Ready(Y, Y, wY) /\ AllQuiet(Y) /\ AllLate(Y)
  BY IdealSyslog, ReadyNone, NoneQuiet
<1>12. Ready(S1, S2, wS) /\ AllLate(S2) /\ Fed(S2)
  <2>1. AllLate(<<>>) /\ Fed(<<>>)
    <3>1. \A i \in 1 .. Len(<<>>) : FALSE
      OBVIOUS
    <3>2. QED
      BY <3>1 DEF AllLate, Fed
  <2>2. QED
    BY <1>1, <2>1, IdealS3, ReadyNone
<1>13. /\ Steps = c1 \o N1 \o H1 \o X \o Y \o S1
       /\ Ideal = c1 \o N2 \o H2 \o X \o Y \o S2
       /\ Wire(spec, vbr.backups) = wL \o wN \o wH \o wX \o wY \o wS
  <2>1. Steps = c1 \o N1 \o H1 \o X \o Y \o S1
    BY Zenon DEF Steps, Plan, c1, L, M
  <2>2. Ideal = c1 \o N2 \o H2 \o X \o Y \o S2
    BY Zenon DEF Ideal, Plan, c1, L, M
  <2>3. Wire(spec, vbr.backups) = wL \o wN \o wH \o wX \o wY \o wS
    BY Zenon DEF Wire, wL
  <2>4. QED
    BY <2>1, <2>2, <2>3
<1> HIDE DEF t, via, N, H, X, Y, S, wN, wH, wX, wY, wS, N1, N2, H1, H2, S1, S2
<1> DEFINE c2 == c1 \o N2
           c3 == c2 \o H2
           c4 == c3 \o X
           c5 == c4 \o Y
           d2 == c1 \o N1
           d3 == d2 \o H1
           d4 == d3 \o X
           d5 == d4 \o Y
           w2 == wL \o wN
           w3 == w2 \o wH
           w4 == w3 \o wX
           w5 == w4 \o wY
<1>14. Stage(d2, c2, w2)
  BY <1>7, <1>8, StageJoint
<1>15. AllGentle(c2) /\ (HRs(t) # <<>> => \E k \in 1 .. Len(c2) : c2[k].var = "repo")
  <2>1. IsSeq(c1) /\ IsSeq(N2)
    BY <1>6, <1>8 DEF Ready, Twins
  <2>2. AllGentle(c2)
    BY <1>7, <1>8, <2>1, GentleJoint
  <2>3. Sets(N2, "repo") => Sets(c2, "repo")
    BY <2>1, VarJoint
  <2> HIDE DEF c2
  <2>4. QED
    BY <1>8, <2>2, <2>3 DEF Sets
<1> HIDE DEF c2, d2, w2
<1>16. Stage(d3, c3, w3)
  BY <1>9, <1>14, <1>15, StageJoint
<1> HIDE DEF c3, d3, w3
<1>17. Stage(d4, c4, w4)
  BY <1>10, <1>16, QuietOnTop, StageJoint
<1> HIDE DEF c4, d4, w4
<1>18. Stage(d5, c5, w5)
  BY <1>11, <1>17, QuietOnTop, StageJoint
<1> HIDE DEF c5, d5, w5
<1>19. Stage(d5 \o S1, c5 \o S2, w5 \o wS)
  BY <1>12, <1>18, LateOnTop, StageJoint
<1>20. Steps = d5 \o S1 /\ Ideal = c5 \o S2 /\ Wire(spec, vbr.backups) = w5 \o wS
  BY <1>13, Zenon DEF c2, c3, c4, c5, d2, d3, d4, d5, w2, w3, w4, w5
<1>21. QED
  BY <1>19, <1>20, Zenon

-----------------------------------------------------------------------------
(* A first run in which nothing fails. *)

\* An object that is on the server e.
Known(e, id) ==
    \/ id.obj = "host" /\ id.of \in e.hosts
    \/ id.obj = "repo" /\ id.of \in e.repos
    \/ id \in e.creds

\* What a step that the script has passed has left in the variables v and on the server e.
Kept(v, e, st) ==
    /\ st.var \in Caught =>
          v[st.var] = Intended[st.var] /\ (st.var # "defaultRepo" => Known(e, Intended[st.var]))
    /\ st.kind = "redirect" => e.target = Intended["repo"]

\* Of hosts and repositories, the server e has what was there and what the steps before a have
\* made, and the host of step a when that is in phase p.
Bounded(e, a, p) ==
    /\ e.self \in e.hosts
    /\ \A h \in e.hosts :
          \/ h = e.self
          \/ \E j \in 1 .. Len(Ideal) : j < a /\ ForNode(Ideal[j]) /\ h = Ideal[j].node.ip
          \/ p \in {"part", "create", "wait"} /\ ForNode(Ideal[a]) /\ h = Ideal[a].node.ip
    /\ \A r \in e.repos :
          \/ r = DefaultRepo
          \/ \E j \in 1 .. Len(Ideal) :
                j < a /\ Ideal[j].kind = "hr" /\ r = RepoName(spec, Ideal[j].node)
          \/ \E j \in 1 .. Len(Ideal) : j < a /\ Stores(Ideal[j])
    /\ DefaultRepo \in e.repos \/ \E j \in 1 .. Len(Ideal) : j < a /\ Deletes(Ideal[j])

\* The two requests that register a node.
Pair(st) == <<ConnectionCertificate(st.node.ip, NoId),
              AddLinuxHost(st.node.ip, st.node.role, pairingCode(st.node))>>

\* What a step has sent when it is in phase p.
Part(st, p) ==
    IF p = "start" THEN <<>> ELSE IF p \in {"hostWait", "part", "create"} THEN Pair(st) ELSE Writes(st)

\* The script has sent what the ideal plan sends up to here, and its variables and the server
\* are what the ideal plan makes of them.
InStep ==
    /\ phase \notin {"stopped", "update"}
    /\ phase = "create" => ForNode(Ideal[at])
    /\ sent = Sends(Ideal, at - 1) \o Part(Ideal[at], phase)
    /\ \A i \in 1 .. Len(Ideal) : i < at => Kept(env, vbr, Ideal[i])
    /\ Bounded(vbr, at, phase)

\* The invariant of a first run without a fault.
SyncInv == runs >= 1 /\ (Calm /\ runs = 1 /\ faults = 0 => InStep)

\* The specification, the shell and what the server is stay.
Same ==
    /\ spec' = spec /\ shell' = shell /\ vbr'.self = vbr.self /\ vbr'.backups = vbr.backups
    /\ vbr'.license = "valid" <=> vbr.license = "valid"

\* The ideal plan stays with them.
LEMMA StaysIdeal ==
    ASSUME Same
    PROVE  Ideal' = Ideal /\ Intended' = Intended /\ (Calm' <=> Calm)
<1>1. Intended' = Intended
  BY DEF Intended, Same
<1>2. Ideal' = Ideal
  BY <1>1 DEF Ideal, Same, Plan, PlanHA, PlanS3, PlanNode, HardenedRepo, Mount
<1>3. Calm' <=> Calm
  BY Zenon DEF Calm, Mirrored, Same
<1>4. QED
  BY <1>1, <1>2, <1>3

\* The step at hand is that of the ideal plan, and the variables that it reads hold what they
\* are meant to.
LEMMA NowIdeal ==
    ASSUME CraftInv, Calm, InStep, phase # "start" \/ at <= Len(Steps)
    PROVE  /\ at \in 1 .. Len(Ideal) /\ Len(Ideal) \in Nat /\ Cur = Ideal[at] /\ Meant(Cur)
           /\ \A x \in Reads(Cur) : /\ env[x] = Intended[x]
                                    /\ x # "defaultRepo" => Known(vbr, Intended[x])
           /\ Deletes(Cur) => vbr.target = Intended["repo"] /\ env.repo = Intended["repo"]
           /\ \A j \in 1 .. Len(Ideal) : j < at => Fits(Ideal[j], Cur)
<1>1. Typed /\ Placed /\ spec \in Specifications /\ at <= Len(Outline)
  BY Now, CraftAssumption
<1>2. Twins(Steps, Ideal) /\ Fed(Ideal) /\ Apart(Ideal)
  BY <1>1, IdealFacts DEF Stage, Ready
<1>3. Len(Steps) = Len(Ideal) /\ Len(Outline) = Len(Steps) /\ Len(Outline) \in Nat
  BY <1>1, <1>2, Here DEF Twins
<1>4. at \in 1 .. Len(Ideal) /\ Len(Ideal) \in Nat
  BY <1>1, <1>3 DEF Typed
<1> DEFINE st == Ideal[at]
<1>5. ASSUME NEW j \in 1 .. Len(Ideal), j < at, Ideal[j].var \in Caught
      PROVE  LET x == Ideal[j].var IN
             env[x] = Intended[x] /\ (x # "defaultRepo" => Known(vbr, Intended[x]))
  BY <1>5 DEF InStep, Kept
<1>6. ASSUME NEW i \in 1 .. Len(Ideal), i <= at, NEW x \in Reads(Ideal[i])
      PROVE  env[x] = Intended[x] /\ (x # "defaultRepo" => Known(vbr, Intended[x]))
  <2>1. PICK j \in 1 .. Len(Ideal) : j < i /\ Ideal[j].var = x
    BY <1>2 DEF Fed
  <2>2. x \in Caught
    BY DEF Reads
  <2>3. j < at
    BY <1>4, <1>6, <2>1
  <2>4. QED
    BY <1>5, <2>1, <2>2, <2>3
<1>7. \A x \in Reads(st) : env[x] = Intended[x] /\ (x # "defaultRepo" => Known(vbr, Intended[x]))
  BY <1>4, <1>6
<1>8. Meant(st) /\ Steps[at] = st
  BY <1>2, <1>4, <1>7 DEF Twins
<1>9. Deletes(st) => vbr.target = Intended["repo"] /\ env.repo = Intended["repo"]
  <2> SUFFICES ASSUME Deletes(st)
               PROVE  vbr.target = Intended["repo"] /\ env["repo"] = Intended["repo"]
    OBVIOUS
  <2>1. PICK j \in 1 .. Len(Ideal) : j < at /\ Ideal[j].kind = "redirect"
    BY <1>2, <1>4 DEF Fed
  <2>2. vbr.target = Intended["repo"]
    BY <2>1 DEF InStep, Kept
  <2>3. "repo" \in Reads(Ideal[j]) /\ j <= at
    BY <1>4, <2>1 DEF Reads, Caught
  <2>4. QED
    BY <1>6, <2>2, <2>3
<1>10. \A j \in 1 .. Len(Ideal) : j < at => Fits(Ideal[j], st)
  BY <1>2, <1>4 DEF Apart
<1>11. Cur = st /\ Cur = Ideal[at]
  BY <1>8 DEF Cur
<1> HIDE DEF st
<1>12. QED
  BY <1>4, <1>7, <1>8, <1>9, <1>10, <1>11

\* What a step does to the server: it keeps what others depend on.
Gains(e) ==
    /\ e.self = vbr.self /\ e.backups = vbr.backups /\ (e.license = "valid" <=> vbr.license = "valid")
    /\ vbr.hosts \subseteq e.hosts /\ vbr.creds \subseteq e.creds /\ vbr.repos \ {DefaultRepo} \subseteq e.repos

\* What is known stays known, but for the default repository.
LEMMA StaysKnown ==
    ASSUME NEW e, Gains(e), NEW id, Known(vbr, id), id.obj # "repo" \/ id.of # DefaultRepo
    PROVE  Known(e, id)
BY DEF Known, Gains

\* The ids that the variables are meant to hold are not that of the default repository, but for one.
LEMMA NotDefault ==
    ASSUME Captured, NEW x \in Caught, env[x] = Intended[x], x # "defaultRepo"
    PROVE  Intended[x].obj # "repo" \/ Intended[x].of # DefaultRepo
<1>1. NullId.obj = "null"
  BY DEF NullId, Id
<1>2. CASE x = "repo"
  <2>1. env["repo"] = Intended["repo"]
    BY <1>2
  <2>2. Intended["repo"] = NullId \/ Intended["repo"].of # DefaultRepo
    BY <2>1 DEF Captured
  <2> QED
    BY <1>1, <1>2, <2>2
<1>3. CASE x # "repo"
  <2>1. x \in {"hrMount", "haCred", "s3Cred"}
    BY <1>3 DEF Caught
  <2>2. Intended[x].obj \in {"host", "credentials", "cloudCredentials"}
    <3>1. /\ HostId(vbr.self).obj = "host"
          /\ Id("credentials", "HA secondary node").obj = "credentials"
          /\ Id("cloudCredentials", spec.s3.name).obj = "cloudCredentials"
      BY DEF HostId, Id
    <3>2. QED
      BY <2>1, <3>1, IntendedIs
  <2>3. QED
    BY <2>2
<1>4. QED
  BY <1>2, <1>3

\* What has to hold after a step.
LEMMA Carries ==
    ASSUME Same, phase' \notin {"stopped", "update"}, phase' = "create" => ForNode(Ideal[at']),
           sent' = Sends(Ideal, at' - 1) \o Part(Ideal[at'], phase'),
           \A i \in 1 .. Len(Ideal) : i < at' => Kept(env', vbr', Ideal[i]),
           Bounded(vbr', at', phase')
    PROVE  InStep'
<1>1. Ideal' = Ideal /\ Intended' = Intended /\ spec' = spec
  BY StaysIdeal DEF Same
<1>2. ASSUME NEW i \in 1 .. Len(Ideal), i < at'
      PROVE  Kept(env, vbr, Ideal[i])'
  <2>1. Kept(env', vbr', Ideal[i])
    BY <1>2
  <2>2. QED
    BY <1>1, <2>1 DEF Kept
<1>3. Bounded(vbr, at, phase)'
  <2>1. Bounded(vbr', at', phase')
    OBVIOUS
  <2>2. QED
    BY <1>1, <2>1 DEF Bounded
<1>4. QED
  BY <1>1, <1>2, <1>3 DEF InStep

\* What a step st that is passed makes of the server.
Makes(e, st) ==
    /\ Gains(e)
    /\ e.hosts \subseteq vbr.hosts
    /\ \A r \in e.repos : r \in vbr.repos \/ (st.kind = "hr" /\ r = RepoName(spec, st.node)) \/ Stores(st)
    /\ DefaultRepo \in vbr.repos => DefaultRepo \in e.repos \/ Deletes(st)
    /\ e.target \in {vbr.target, Intended["repo"]}

\* Nothing, at least.
LEMMA MakesNothing ==
    ASSUME NEW st
    PROVE  Makes(vbr, st)
BY DEF Makes, Gains

\* A step that is passed.
LEMMA Passing ==
    ASSUME CraftInv, Calm, InStep, phase # "start" \/ at <= Len(Steps), Same, at' = at + 1, phase' = "start",
           sent' = Sends(Ideal, at - 1) \o Writes(Cur), Makes(vbr', Cur), NEW id, Capture(id),
           Kept(env', vbr', Cur)
    PROVE  InStep'
<1>1. /\ at \in 1 .. Len(Ideal) /\ Len(Ideal) \in Nat /\ Cur = Ideal[at] /\ Typed /\ Captured
  BY NowIdeal, Now
<1>2. sent' = Sends(Ideal, at' - 1) \o Part(Ideal[at'], phase')
  <2>1. at - 1 \in Nat /\ (at - 1) + 1 = at /\ at' - 1 = at /\ at \in Nat
    BY <1>1
  <2>2. Sends(Ideal, (at - 1) + 1) = Sends(Ideal, at - 1) \o Writes(Ideal[(at - 1) + 1])
    BY <2>1, SendsMore
  <2>3. sent' = Sends(Ideal, at)
    BY <1>1, <2>1, <2>2
  <2>4. IsSeq(Sends(Ideal, at))
    BY <2>1, SendsSeq
  <2>5. Sends(Ideal, at) \o <<>> = Sends(Ideal, at)
    BY <2>4, NothingBefore
  <2>6. Part(Ideal[at'], phase') = <<>>
    BY DEF Part
  <2>7. QED
    BY <2>1, <2>3, <2>5, <2>6
<1>3. ASSUME NEW i \in 1 .. Len(Ideal), i < at'
      PROVE  Kept(env', vbr', Ideal[i])
  <2>1. CASE i = at
    BY <1>1, <2>1
  <2>2. CASE i # at
    <3>1. i < at
      BY <1>1, <1>3, <2>2
    <3>2. Kept(env, vbr, Ideal[i])
      BY <3>1 DEF InStep
    <3> DEFINE x == Ideal[i].var
    <3>3. Ideal[i].kind = "redirect" => vbr'.target = Intended["repo"]
      BY <3>2 DEF Kept, Makes
    <3>4. ASSUME x \in Caught
          PROVE  env'[x] = Intended[x] /\ (x # "defaultRepo" => Known(vbr', Intended[x]))
      <4>1. env[x] = Intended[x] /\ (x # "defaultRepo" => Known(vbr, Intended[x]))
        BY <3>2, <3>4 DEF Kept
      <4>2. CASE x = Cur.var
        BY <3>4, <4>2 DEF Kept
      <4>3. CASE x # Cur.var
        <5>1. env'[x] = env[x]
          <6>1. x \in Variables
            BY <3>4 DEF Caught, Variables
          <6>2. env \in [Variables -> Ids]
            BY <1>1 DEF Typed
          <6>3. env' = IF Cur.var = "" THEN env ELSE [env EXCEPT ![Cur.var] = id]
            BY DEF Capture
          <6> HIDE DEF x
          <6>4. QED
            BY <4>3, <6>1, <6>2, <6>3
        <5>2. ASSUME x # "defaultRepo"
              PROVE  Known(vbr', Intended[x])
          <6> HIDE DEF x
          <6>1. Intended[x].obj # "repo" \/ Intended[x].of # DefaultRepo
            BY <1>1, <3>4, <4>1, <5>2, NotDefault
          <6>2. Gains(vbr')
            BY DEF Makes
          <6>3. QED
            BY <4>1, <5>2, <6>1, <6>2, StaysKnown
        <5>3. QED
          BY <4>1, <5>1, <5>2
      <4>4. QED
        BY <4>2, <4>3
    <3>5. QED
      BY <3>3, <3>4 DEF Kept
  <2>3. QED
    BY <2>1, <2>2
<1>4. Bounded(vbr', at', phase')
  <2>1. /\ Bounded(vbr, at, phase) /\ Makes(vbr', Cur) /\ Cur = Ideal[at]
        /\ \A j \in 1 .. Len(Ideal) : j < at => j < at'
        /\ at < at' /\ at \in 1 .. Len(Ideal)
    BY <1>1 DEF InStep
  <2>2. vbr'.self \in vbr'.hosts
    BY <2>1 DEF Bounded, Makes, Gains
  <2>3. ASSUME NEW h \in vbr'.hosts
        PROVE  \/ h = vbr'.self
               \/ \E j \in 1 .. Len(Ideal) : j < at' /\ ForNode(Ideal[j]) /\ h = Ideal[j].node.ip
    <3>1. h \in vbr.hosts /\ vbr'.self = vbr.self
      BY <2>1 DEF Makes, Gains
    <3>2. QED
      BY <2>1, <3>1 DEF Bounded
  <2>4. ASSUME NEW r \in vbr'.repos
        PROVE  \/ r = DefaultRepo
               \/ \E j \in 1 .. Len(Ideal) :
                     j < at' /\ Ideal[j].kind = "hr" /\ r = RepoName(spec, Ideal[j].node)
               \/ \E j \in 1 .. Len(Ideal) : j < at' /\ Stores(Ideal[j])
    BY <2>1 DEF Bounded, Makes
  <2>5. DefaultRepo \in vbr'.repos \/ \E j \in 1 .. Len(Ideal) : j < at' /\ Deletes(Ideal[j])
    BY <2>1 DEF Bounded, Makes
  <2>6. QED
    BY <2>2, <2>3, <2>4, <2>5 DEF Bounded
<1>5. QED
  BY <1>2, <1>3, <1>4, Carries

\* A step that the script stays at.
LEMMA Staying ==
    ASSUME CraftInv, Calm, InStep, phase # "start" \/ at <= Len(Steps), Same, UNCHANGED env, at' = at,
           phase' \in {"hostWait", "part", "create", "wait"}, phase' = "create" => ForNode(Cur),
           phase \in {"part", "create", "wait"} => phase' \in {"part", "create", "wait"},
           sent' = Sends(Ideal, at - 1) \o Part(Cur, phase'),
           \/ vbr' = vbr
           \/ vbr' = Host(Cur.node.ip) /\ ForNode(Cur) /\ phase' = "part"
    PROVE  InStep'
<1>1. /\ at \in 1 .. Len(Ideal) /\ Len(Ideal) \in Nat /\ Cur = Ideal[at] /\ Typed /\ Captured
  BY NowIdeal, Now
<1>2. /\ Gains(vbr') /\ vbr'.repos = vbr.repos /\ vbr'.target = vbr.target
      /\ \A h \in vbr'.hosts : h \in vbr.hosts \/ (ForNode(Cur) /\ phase' = "part" /\ h = Cur.node.ip)
  <2>1. CASE vbr' = vbr
    BY <2>1 DEF Gains
  <2>2. CASE vbr' = Host(Cur.node.ip) /\ ForNode(Cur) /\ phase' = "part"
    <3> DEFINE n == Cur.node.ip
    <3>1. vbr' = [vbr EXCEPT !.hosts = @ \cup {n}] /\ ForNode(Cur) /\ phase' = "part"
      BY <2>2 DEF Host
    <3> HIDE DEF n
    <3>2. /\ vbr'.hosts = vbr.hosts \cup {n} /\ vbr'.repos = vbr.repos /\ vbr'.target = vbr.target
          /\ vbr'.creds = vbr.creds /\ vbr'.self = vbr.self /\ vbr'.backups = vbr.backups
          /\ vbr'.license = vbr.license
      BY <1>1, <3>1 DEF Typed, Server
    <3>3. QED
      BY <3>1, <3>2 DEF Gains, n
  <2>3. QED
    BY <2>1, <2>2
<1>3. ASSUME NEW i \in 1 .. Len(Ideal), i < at'
      PROVE  Kept(env', vbr', Ideal[i])
  <2>1. Kept(env, vbr, Ideal[i])
    BY <1>3 DEF InStep
  <2> DEFINE x == Ideal[i].var
  <2>2. ASSUME x \in Caught, x # "defaultRepo"
        PROVE  Known(vbr', Intended[x])
    <3>1. env[x] = Intended[x] /\ Known(vbr, Intended[x])
      BY <2>1, <2>2 DEF Kept
    <3> HIDE DEF x
    <3>2. Intended[x].obj # "repo" \/ Intended[x].of # DefaultRepo
      BY <1>1, <2>2, <3>1, NotDefault
    <3>3. QED
      BY <1>2, <3>1, <3>2, StaysKnown
  <2>3. QED
    BY <1>2, <2>1, <2>2 DEF Kept
<1>4. Bounded(vbr', at', phase')
  <2>1. Bounded(vbr, at, phase) /\ vbr'.self = vbr.self
    BY DEF InStep, Same
  <2>2. vbr'.self \in vbr'.hosts
    BY <1>2, <2>1 DEF Bounded, Gains
  <2>3. ASSUME NEW h \in vbr'.hosts
        PROVE  \/ h = vbr'.self
               \/ \E j \in 1 .. Len(Ideal) : j < at' /\ ForNode(Ideal[j]) /\ h = Ideal[j].node.ip
               \/ phase' \in {"part", "create", "wait"} /\ ForNode(Ideal[at']) /\ h = Ideal[at'].node.ip
    <3>1. CASE h \in vbr.hosts
      BY <2>1, <3>1 DEF Bounded
    <3>2. CASE ForNode(Cur) /\ phase' = "part" /\ h = Cur.node.ip
      BY <1>1, <3>2
    <3>3. QED
      BY <1>2, <3>1, <3>2
  <2>4. QED
    BY <1>2, <2>1, <2>2, <2>3 DEF Bounded
<1>5. QED
  BY <1>1, <1>3, <1>4, Carries

\* What is written at the end.
LEMMA AtTheEnd ==
    ASSUME NEW p, IsSeq(p), NEW x, NEW a, NEW b
    PROVE  /\ Append(p, x) = p \o <<x>>
           /\ p \o <<>> = p
           /\ Append(p \o <<a, b>>, x) = p \o <<a, b, x>>
<1> DEFINE X == {p[i] : i \in DOMAIN p}
<1>1. p \in Seq(X)
  BY DEF IsSeq
<1> HIDE DEF X
<1>2. Append(p, x) = p \o <<x>>
  BY <1>1
<1>3. p \o <<>> = p
  BY <1>1
<1>4. Append(p \o <<a, b>>, x) = p \o <<a, b, x>>
  BY <1>1
<1>5. QED
  BY <1>2, <1>3, <1>4

\* What the writes are before a step.
LEMMA Before ==
    ASSUME CraftInv, Calm, InStep, phase # "start" \/ at <= Len(Steps)
    PROVE  /\ IsSeq(Sends(Ideal, at - 1)) /\ sent = Sends(Ideal, at - 1) \o Part(Cur, phase)
           /\ phase = "start" => sent = Sends(Ideal, at - 1)
<1>1. at \in 1 .. Len(Ideal) /\ Len(Ideal) \in Nat /\ Cur = Ideal[at]
  BY NowIdeal
<1>2. at - 1 \in Nat
  BY <1>1
<1>3. IsSeq(Sends(Ideal, at - 1))
  BY <1>2, SendsSeq
<1>4. sent = Sends(Ideal, at - 1) \o Part(Cur, phase)
  BY <1>1 DEF InStep
<1>5. phase = "start" => Part(Cur, phase) = <<>>
  BY DEF Part
<1>6. QED
  BY <1>3, <1>4, <1>5, AtTheEnd

\* The request of a step whose kind is not that of a lookup.
LEMMA Requested ==
    ASSUME NEW p, IsSeq(p), NEW st, st.kind \notin {"host", "repo"}
    PROVE  /\ ~ForNode(st) => Append(p, st.req) = p \o Writes(st)
           /\ ForNode(st) => Append(p \o Pair(st), st.req) = p \o Writes(st)
<1>1. CASE ~ForNode(st)
  <2>1. Writes(st) = <<st.req>>
    BY <1>1 DEF Writes
  <2>2. Append(p, st.req) = p \o <<st.req>>
    BY AtTheEnd
  <2>3. QED
    BY <1>1, <2>1, <2>2
<1>2. CASE ForNode(st)
  <2> DEFINE a == ConnectionCertificate(st.node.ip, NoId)
             b == AddLinuxHost(st.node.ip, st.node.role, pairingCode(st.node))
             c == st.req
  <2>1. Writes(st) = <<a, b, c>> /\ Pair(st) = <<a, b>>
    BY <1>2 DEF Writes, Pair
  <2> HIDE DEF a, b
  <2>2. Append(p \o <<a, b>>, c) = p \o <<a, b, c>>
    BY AtTheEnd
  <2>3. QED
    BY <1>2, <2>1, <2>2
<1>3. QED
  BY <1>1, <1>2

\* The server accepts the requests of a step, a node's when the node is registered.
LEMMA Accepted ==
    ASSUME CraftInv, Calm, InStep, phase # "start" \/ at <= Len(Steps), Cur.kind \notin {"host", "repo"},
           ForNode(Cur) => Cur.node.ip \in vbr.hosts
    PROVE  Accepts(Cur.req)
<1>1. /\ at \in 1 .. Len(Ideal) /\ Cur = Ideal[at] /\ Meant(Cur)
      /\ \A x \in Reads(Cur) : env[x] = Intended[x] /\ (x # "defaultRepo" => Known(vbr, Intended[x]))
      /\ Deletes(Cur) => vbr.target = Intended["repo"] /\ env.repo = Intended["repo"]
      /\ \A j \in 1 .. Len(Ideal) : j < at => Fits(Ideal[j], Cur)
      /\ Formed(spec, Cur, env) /\ Captured
  BY NowIdeal, Now
<1>2. Bounded(vbr, at, phase)
  BY DEF InStep
<1>3. ASSUME Deletes(Cur)
      PROVE  DefaultRepo \in vbr.repos
  <2>1. \A j \in 1 .. Len(Ideal) : j < at => ~Deletes(Ideal[j])
    BY <1>1, <1>3 DEF Fits
  <2>2. QED
    BY <1>2, <2>1 DEF Bounded
<1>4. \A id : Known(vbr, id) => Knows(id)
  BY DEF Known, Knows
<1>5. ASSUME NEW id \in Cur.req.refs
      PROVE  Knows(id)
  <2>1. CASE id \in {Intended[x] : x \in Reads(Cur)}
    <3>1. PICK x \in Reads(Cur) : id = Intended[x]
      BY <2>1
    <3>2. CASE x = "defaultRepo"
      <4>1. Deletes(Cur)
        BY <3>2 DEF Reads
      <4>2. id = RepoId(DefaultRepo) /\ DefaultRepo \in vbr.repos
        BY <1>3, <3>1, <3>2, <4>1, IntendedIs
      <4>3. RepoId(DefaultRepo).obj = "repo" /\ RepoId(DefaultRepo).of = DefaultRepo
        BY DEF RepoId, Id
      <4>4. QED
        BY <4>2, <4>3 DEF Knows
    <3>3. CASE x # "defaultRepo"
      BY <1>1, <1>4, <3>1, <3>3
    <3>4. QED
      BY <3>2, <3>3
  <2>2. CASE ForNode(Cur) /\ id = HostId(Cur.node.ip)
    <3>1. HostId(Cur.node.ip).obj = "host" /\ HostId(Cur.node.ip).of = Cur.node.ip
      BY DEF HostId, Id
    <3>2. QED
      BY <2>2, <3>1 DEF Knows
  <2>3. \/ id \in {Intended[x] : x \in Reads(Cur)}
        \/ ForNode(Cur) /\ id = HostId(Cur.node.ip)
    <3>1. Cur.req.refs \subseteq {Intended[x] : x \in Reads(Cur)}
                                 \cup (IF ForNode(Cur) THEN {HostId(Cur.node.ip)} ELSE {})
      BY <1>1 DEF Meant
    <3>2. QED
      BY <3>1
  <2>4. QED
    BY <2>1, <2>2, <2>3
<1>6. Cur.kind \in {"call", "redirect", "hr", "proxy", "create", "wait"}
  BY <1>1 DEF Formed, PlainForm, RedirectForm, LookUpForm, RemovalForm, HardenedForm, ProxyForm,
             ClusterForm, StoreForm
<1> DEFINE req == Cur.req
<1>7. \/ req.method \in {"POST", "PUT"} /\ req.path \notin RepositoryPaths
      \/ Deletes(Cur) /\ req.method = "DELETE" /\ req.body.id = env.defaultRepo
      \/ req.method = "POST" /\ Cur.kind = "hr"
      \/ req.method = "POST" /\ req.body.type # "LinuxHardened"
  <2>1. CASE PlainForm(Cur)
    BY <2>1 DEF PlainForm
  <2>2. CASE RedirectForm(Cur, env)
    <3>1. RedirectConfigBackup(env.repo).method = "PUT" /\ RedirectConfigBackup(env.repo).path = "configBackup"
      BY DEF RedirectConfigBackup, Request
    <3>2. QED
      BY <2>2, <3>1 DEF RedirectForm, RepositoryPaths
  <2>3. CASE RemovalForm(Cur, env)
    <3>1. /\ DeleteRepository(env.defaultRepo).method = "DELETE"
          /\ DeleteRepository(env.defaultRepo).body.id = env.defaultRepo
      BY DEF DeleteRepository, Request
    <3>2. QED
      BY <2>3, <3>1 DEF RemovalForm, Deletes
  <2>4. CASE HardenedForm(spec, Cur)
    BY <2>4 DEF HardenedForm
  <2>5. CASE ProxyForm(spec, Cur)
    <3> DEFINE n == HostId(Cur.node.ip)
    <3>1. AddVmwareProxy(n).method = "POST" /\ AddVmwareProxy(n).path = "proxies"
      BY DEF AddVmwareProxy, Request
    <3>2. QED
      BY <2>5, <3>1 DEF ProxyForm, RepositoryPaths
  <2>6. CASE ClusterForm(Cur)
    BY <2>6 DEF ClusterForm, RepositoryPaths
  <2>7. CASE StoreForm(spec, Cur)
    BY <2>7 DEF StoreForm
  <2>8. QED
    BY <1>1, <1>6, <2>1, <2>2, <2>3, <2>4, <2>5, <2>6, <2>7, ByKind
<1>8. req.path = "repositories" /\ req.method = "POST" /\ req.body.type = "LinuxHardened"
        => "mountServer" \in DOMAIN req.body
  <2>1. Cur.kind = "hr" => "mountServer" \in DOMAIN req.body
    BY <1>1 DEF Meant
  <2> HIDE DEF req
  <2>2. QED
    BY <1>7, <2>1 DEF RepositoryPaths
<1>9. req.method = "DELETE" => vbr.target # req.body.id /\ vbr.backups = <<>>
  <2> SUFFICES ASSUME req.method = "DELETE"
               PROVE  vbr.target # req.body.id /\ vbr.backups = <<>>
    OBVIOUS
  <2>1. Deletes(Cur) /\ req.body.id = env.defaultRepo
    BY <1>7
  <2>2. vbr.backups = <<>> /\ vbr.target = env.repo
    BY <1>1, <2>1 DEF Meant
  <2>3. env["defaultRepo"] = RepoId(DefaultRepo)
    <3>1. "defaultRepo" \in Reads(Cur)
      BY <2>1 DEF Reads, Caught
    <3>2. QED
      BY <1>1, <3>1, IntendedIs
  <2>4. /\ RepoId(DefaultRepo).obj = "repo" /\ RepoId(DefaultRepo).of = DefaultRepo
        /\ NullId.obj = "null"
    BY DEF RepoId, NullId, Id
  <2>5. env.repo # RepoId(DefaultRepo)
    BY <1>1, <2>4 DEF Captured
  <2>6. QED
    BY <2>1, <2>2, <2>3, <2>5
<1>10. QED
  BY <1>5, <1>8, <1>9 DEF Accepts

\* A server that differs in one field.
LEMMA OneField ==
    ASSUME Typed, NEW x
    PROVE  /\ \A e : e = [vbr EXCEPT !.repos = x] =>
                 /\ e.self = vbr.self /\ e.backups = vbr.backups /\ e.hosts = vbr.hosts
                 /\ e.creds = vbr.creds /\ e.repos = x /\ e.target = vbr.target /\ e.license = vbr.license
           /\ \A e : e = [vbr EXCEPT !.creds = x] =>
                 /\ e.self = vbr.self /\ e.backups = vbr.backups /\ e.hosts = vbr.hosts
                 /\ e.creds = x /\ e.repos = vbr.repos /\ e.target = vbr.target /\ e.license = vbr.license
           /\ \A e : e = [vbr EXCEPT !.hosts = x] =>
                 /\ e.self = vbr.self /\ e.backups = vbr.backups /\ e.hosts = x
                 /\ e.creds = vbr.creds /\ e.repos = vbr.repos /\ e.target = vbr.target
                 /\ e.license = vbr.license
           /\ \A e : e = [vbr EXCEPT !.target = x] =>
                 /\ e.self = vbr.self /\ e.backups = vbr.backups /\ e.hosts = vbr.hosts
                 /\ e.creds = vbr.creds /\ e.repos = vbr.repos /\ e.target = x /\ e.license = vbr.license
           /\ \A e : e = [vbr EXCEPT !.proxies = x] \/ e = [vbr EXCEPT !.cluster = x] =>
                 /\ e.self = vbr.self /\ e.backups = vbr.backups /\ e.hosts = vbr.hosts
                 /\ e.creds = vbr.creds /\ e.repos = vbr.repos /\ e.target = vbr.target
                 /\ e.license = vbr.license
           /\ \A e : e = [vbr EXCEPT !.license = x] =>
                 /\ e.self = vbr.self /\ e.backups = vbr.backups /\ e.hosts = vbr.hosts
                 /\ e.creds = vbr.creds /\ e.repos = vbr.repos /\ e.target = vbr.target /\ e.license = x
BY DEF Typed, Server

\* A session makes no more than its step is for.
LEMMA SessionMakes ==
    ASSUME Typed, NEW st, Formed(spec, st, env), st.kind \in {"hr", "proxy", "create", "wait"}
    PROVE  Makes(Effect(st.req), st) /\ (st.kind = "hr" => RepoName(spec, st.node) \in Effect(st.req).repos)
<1> DEFINE req == st.req
           e == Effect(req)
<1>1. CASE st.kind = "hr"
  <2>1. req.method = "POST" /\ req.path = "repositories" /\ req.body.name = RepoName(spec, st.node)
    BY <1>1, ByKind DEF HardenedForm
  <2>2. Created(req) = NullId
    BY <2>1 DEF Created
  <2>3. e = [vbr EXCEPT !.repos = @ \cup {RepoName(spec, st.node)}]
    BY <2>1, <2>2 DEF Effect
  <2> HIDE DEF req, e
  <2>4. /\ e.self = vbr.self /\ e.backups = vbr.backups /\ e.hosts = vbr.hosts
        /\ e.creds = vbr.creds /\ e.repos = vbr.repos \cup {RepoName(spec, st.node)} /\ e.target = vbr.target
        /\ e.license = vbr.license
    BY <2>3, OneField
  <2>5. Makes(e, st)
    BY <1>1, <2>4 DEF Makes, Gains
  <2>6. QED
    BY <2>4, <2>5 DEF e, req
<1>2. CASE st.kind = "proxy"
  <2> DEFINE n == HostId(st.node.ip)
  <2>1. req = AddVmwareProxy(n)
    BY <1>2, ByKind DEF ProxyForm
  <2>2. AddVmwareProxy(n).method = "POST" /\ AddVmwareProxy(n).path = "proxies"
    BY DEF AddVmwareProxy, Request
  <2>3. e = [vbr EXCEPT !.proxies = Append(@, req.body.server.hostId.of)]
    BY <2>1, <2>2, ProxyAdded
  <2> DEFINE z == Append(vbr.proxies, req.body.server.hostId.of)
  <2>4. e = [vbr EXCEPT !.proxies = z]
    BY <2>3
  <2> HIDE DEF req, e, z
  <2>5. /\ e.self = vbr.self /\ e.backups = vbr.backups /\ e.hosts = vbr.hosts
        /\ e.creds = vbr.creds /\ e.repos = vbr.repos /\ e.target = vbr.target
        /\ e.license = vbr.license
    BY <2>4, OneField
  <2>6. Makes(e, st)
    BY <2>5 DEF Makes, Gains
  <2>7. QED
    BY <1>2, <2>6 DEF e, req
<1>3. CASE ClusterForm(st)
  <2>1. st.kind = "wait" /\ req.method = "POST" /\ req.path = "highAvailabilityCluster"
    BY <1>3 DEF ClusterForm
  <2>2. e = [vbr EXCEPT !.cluster = TRUE]
    BY <2>1 DEF Effect, Created
  <2> HIDE DEF req, e
  <2>3. /\ e.self = vbr.self /\ e.backups = vbr.backups /\ e.hosts = vbr.hosts
        /\ e.creds = vbr.creds /\ e.repos = vbr.repos /\ e.target = vbr.target
        /\ e.license = vbr.license
    BY <2>2, OneField
  <2>4. Makes(e, st)
    BY <2>3 DEF Makes, Gains
  <2>5. QED
    BY <2>1, <2>4 DEF e, req
<1>4. CASE StoreForm(spec, st)
  <2>1. /\ st.kind \in {"create", "wait"} /\ req.method = "POST" /\ req.path \in RepositoryPaths
        /\ req.body.name = spec.s3.name
    BY <1>4 DEF StoreForm
  <2>2. Stores(st)
    BY <2>1 DEF Stores, Clusters, RepositoryPaths
  <2>3. Created(req) = NullId
    BY <2>1 DEF Created, RepositoryPaths
  <2>4. e = [vbr EXCEPT !.repos = @ \cup {spec.s3.name}]
    BY <2>1, <2>3 DEF Effect, RepositoryPaths
  <2> HIDE DEF req, e
  <2>5. /\ e.self = vbr.self /\ e.backups = vbr.backups /\ e.hosts = vbr.hosts
        /\ e.creds = vbr.creds /\ e.repos = vbr.repos \cup {spec.s3.name} /\ e.target = vbr.target
        /\ e.license = vbr.license
    BY <2>4, OneField
  <2>6. Makes(e, st)
    BY <2>2, <2>5 DEF Makes, Gains
  <2>7. QED
    BY <2>1, <2>6 DEF e, req
<1>5. QED
  BY <1>1, <1>2, <1>3, <1>4, ByKind

\* A call makes credentials, moves the configuration backup or removes the default repository.
LEMMA CallMakes ==
    ASSUME CraftInv, Calm, InStep, phase = "start", at <= Len(Steps), Cur.kind \in {"call", "redirect"}
    PROVE  LET e == Effect(Cur.req) IN
           /\ Makes(e, Cur)
           /\ Cur.kind = "redirect" => e.target = Intended["repo"]
           /\ Cur.var # "" => Created(Cur.req) \in e.creds
<1> DEFINE req == Cur.req
           e == Effect(req)
           id == Created(req)
<1>1. /\ Meant(Cur) /\ (\A x \in Reads(Cur) : env[x] = Intended[x])
      /\ Formed(spec, Cur, env) /\ Typed
  BY NowIdeal, Now
<1>2. CASE PlainForm(Cur)
  <2>1. /\ req.method # "DELETE" /\ Cur.kind = "call"
        /\ req.path \notin {"configBackup", "managedServers", "proxies", "highAvailabilityCluster"}
                           \cup RepositoryPaths
    BY <1>2 DEF PlainForm
  <2> DEFINE l == IF vbr.license = "none" THEN "installed" ELSE vbr.license
  <2>2. e = IF req.path = "license/install" THEN [vbr EXCEPT !.license = l]
            ELSE IF id # NullId THEN [vbr EXCEPT !.creds = @ \cup {id}] ELSE vbr
    BY <2>1, PlainArms
  <2>20. req.path = "license/install" => id = NullId
    BY DEF Created
  <2>21. l = "valid" <=> vbr.license = "valid"
    OBVIOUS
  <2>3. Cur.var # "" => id # NullId
    <3>1. Cur.var # "" => Cur.var \in {"haCred", "s3Cred"} /\ id = Intended[Cur.var]
      BY <1>1, <2>1 DEF Meant
    <3>2. /\ Id("credentials", "HA secondary node").obj = "credentials"
          /\ Id("cloudCredentials", spec.s3.name).obj = "cloudCredentials"
          /\ NullId.obj = "null"
      BY DEF NullId, Id
    <3>3. Intended["haCred"] # NullId /\ Intended["s3Cred"] # NullId
      BY <3>2, IntendedIs
    <3> HIDE DEF id
    <3>4. QED
      BY <3>1, <3>3
  <2> HIDE DEF req, e, id, l
  <2>4. /\ e.self = vbr.self /\ e.backups = vbr.backups /\ e.hosts = vbr.hosts
        /\ vbr.creds \subseteq e.creds /\ e.repos = vbr.repos /\ e.target = vbr.target
        /\ e.license = "valid" <=> vbr.license = "valid"
        /\ Cur.var # "" => id \in e.creds
    <3>1. CASE id # NullId
      <4>1. e = [vbr EXCEPT !.creds = vbr.creds \cup {id}]
        BY <2>2, <2>20, <3>1
      <4> DEFINE z == vbr.creds \cup {id}
      <4>2. vbr.creds \subseteq z /\ id \in z
        OBVIOUS
      <4> HIDE DEF z
      <4>3. /\ e.self = vbr.self /\ e.backups = vbr.backups /\ e.hosts = vbr.hosts
            /\ e.creds = z /\ e.repos = vbr.repos /\ e.target = vbr.target
            /\ e.license = vbr.license
        BY <1>1, <4>1, OneField DEF z
      <4>4. QED
        BY <4>2, <4>3
    <3>2. CASE id = NullId /\ req.path = "license/install"
      <4>1. e = [vbr EXCEPT !.license = l]
        BY <2>2, <3>2
      <4>2. /\ e.self = vbr.self /\ e.backups = vbr.backups /\ e.hosts = vbr.hosts
            /\ e.creds = vbr.creds /\ e.repos = vbr.repos /\ e.target = vbr.target /\ e.license = l
        BY <1>1, <4>1, OneField
      <4>3. QED
        BY <2>3, <2>21, <3>2, <4>2
    <3>3. CASE id = NullId /\ req.path # "license/install"
      BY <2>2, <2>3, <3>3
    <3>4. QED
      BY <3>1, <3>2, <3>3
  <2>5. Makes(e, Cur)
    BY <2>4 DEF Makes, Gains
  <2>6. QED
    BY <2>1, <2>4, <2>5 DEF e, req, id
<1>3. CASE RedirectForm(Cur, env)
  <2>1. req = RedirectConfigBackup(env.repo) /\ Cur.kind = "redirect" /\ Cur.var = ""
    BY <1>3 DEF RedirectForm
  <2>2. env["repo"] = Intended["repo"]
    <3>1. "repo" \in Reads(Cur)
      BY <2>1 DEF Reads, Caught
    <3>2. QED
      BY <1>1, <3>1
  <2>3. /\ RedirectConfigBackup(env.repo).method = "PUT" /\ RedirectConfigBackup(env.repo).path = "configBackup"
        /\ RedirectConfigBackup(env.repo).body.backupRepositoryId = env.repo
    BY DEF RedirectConfigBackup, Request
  <2>4. e = [vbr EXCEPT !.target = env.repo]
    <3>1. /\ req.method = "PUT" /\ req.path = "configBackup"
          /\ req.body.backupRepositoryId = env.repo
      BY <2>1, <2>3
    <3>2. QED
      BY <3>1 DEF Effect, Created
  <2> HIDE DEF req, e, id
  <2>5. /\ e.self = vbr.self /\ e.backups = vbr.backups /\ e.hosts = vbr.hosts
        /\ e.creds = vbr.creds /\ e.repos = vbr.repos /\ e.target = env.repo
        /\ e.license = vbr.license
    BY <1>1, <2>4, OneField
  <2>6. Makes(e, Cur)
    BY <2>2, <2>5 DEF Makes, Gains
  <2>7. QED
    BY <2>1, <2>2, <2>5, <2>6 DEF e, req
<1>4. CASE RemovalForm(Cur, env)
  <2>1. req = DeleteRepository(env.defaultRepo) /\ Cur.kind = "call" /\ Cur.var = ""
    BY <1>4 DEF RemovalForm
  <2>2. /\ DeleteRepository(env.defaultRepo).method = "DELETE"
        /\ DeleteRepository(env.defaultRepo).path = "repositories"
        /\ DeleteRepository(env.defaultRepo).body.id = env.defaultRepo
    BY DEF DeleteRepository, Request
  <2>3. /\ req.method = "DELETE" /\ req.path = "repositories" /\ req.body.id = env.defaultRepo
        /\ Deletes(Cur)
    BY <2>1, <2>2 DEF Deletes
  <2>4. env["defaultRepo"] = RepoId(DefaultRepo)
    <3>1. "defaultRepo" \in Reads(Cur)
      BY <2>3 DEF Reads, Caught
    <3>2. QED
      BY <1>1, <3>1, IntendedIs
  <2>5. req.body.id.of = DefaultRepo
    BY <2>3, <2>4 DEF RepoId, Id
  <2>6. e = [vbr EXCEPT !.repos = @ \ {DefaultRepo}]
    <3>1. Created(req) = NullId
      BY <2>3 DEF Created
    <3>2. req.method # "POST" /\ req.path \notin {"configBackup", "managedServers", "proxies",
                                                  "highAvailabilityCluster"}
      BY <2>3
    <3>3. e = [vbr EXCEPT !.repos = @ \ {req.body.id.of}]
      BY <2>3, <3>1, <3>2, Zenon DEF Effect
    <3>4. QED
      BY <2>5, <3>3, Zenon
  <2> HIDE DEF req, e, id
  <2>7. /\ e.self = vbr.self /\ e.backups = vbr.backups /\ e.hosts = vbr.hosts
        /\ e.creds = vbr.creds /\ e.repos = vbr.repos \ {DefaultRepo} /\ e.target = vbr.target
        /\ e.license = vbr.license
    BY <1>1, <2>6, OneField
  <2>8. Makes(e, Cur)
    BY <2>3, <2>7 DEF Makes, Gains
  <2>9. QED
    BY <2>1, <2>8 DEF e, req
<1>5. QED
  BY <1>1, <1>2, <1>3, <1>4, ByKind

\* A variable that is set.
LEMMA Holds ==
    ASSUME Typed, Cur.var \in Caught, NEW id, Capture(id)
    PROVE  env'[Cur.var] = id
<1> DEFINE x == Cur.var
<1>1. x \in Variables /\ x # "" /\ env \in [Variables -> Ids]
  BY DEF Typed, Caught, Variables
<1>2. env' = IF x = "" THEN env ELSE [env EXCEPT ![x] = id]
  BY DEF Capture
<1> HIDE DEF x
<1>3. env'[x] = id
  BY <1>1, <1>2
<1>4. QED
  BY <1>3 DEF x

\* A lookup finds what is there, and nothing else: the mount server is looked up before there is
\* a second host, and the filter for the default repository finds no other.
LEMMA LookUpInStep ==
    ASSUME CraftInv, Calm, InStep, LookUp
    PROVE  InStep'
<1>1. PICK id \in Firsts :
         /\ phase = "start" /\ at <= Len(Steps) /\ Cur.kind \in {"host", "repo"}
         /\ Capture(id) /\ Advance /\ UNCHANGED <<spec, shell, sent, vbr>>
  BY DEF LookUp, At
<1>2. /\ at \in 1 .. Len(Ideal) /\ Meant(Cur)
      /\ \A j \in 1 .. Len(Ideal) : j < at => Fits(Ideal[j], Cur)
      /\ Formed(spec, Cur, env) /\ Typed
  BY <1>1, NowIdeal, Now
<1>3. LookUpForm(Cur)
  BY <1>1, <1>2, ByKind
<1>4. Bounded(vbr, at, phase)
  BY DEF InStep
<1>5. sent' = Sends(Ideal, at - 1) \o Writes(Cur)
  <2>1. Writes(Cur) = <<>> /\ Part(Cur, phase) = <<>>
    BY <1>1 DEF Writes, Part
  <2>2. QED
    BY <1>1, <2>1, Before
<1>6. Kept(env', vbr', Cur)
  <2>1. ASSUME Cur.var \in Caught
        PROVE  id = Intended[Cur.var] /\ (Cur.var # "defaultRepo" => Known(vbr, Intended[Cur.var]))
    <3>1. CASE Cur.kind = "host"
      <4>1. Cur.var = "hrMount"
        BY <1>3, <2>1, <3>1 DEF LookUpForm, Caught
      <4>2. Cur.req.body = vbr.self
        BY <1>2, <3>1, <4>1 DEF Meant
      <4>3. vbr.hosts = {vbr.self}
        <5>1. \A j \in 1 .. Len(Ideal) : j < at => ~ForNode(Ideal[j])
          BY <1>2, <4>1 DEF Fits
        <5>2. phase \notin {"part", "create", "wait"}
          BY <1>1
        <5>3. QED
          BY <1>4, <5>1, <5>2 DEF Bounded
      <4>4. HostId(vbr.self).obj = "host" /\ HostId(vbr.self).of = vbr.self
        BY DEF HostId, Id
      <4>5. Known(vbr, HostId(vbr.self))
        BY <4>3, <4>4 DEF Known
      <4>6. id = HostId(vbr.self)
        <5> DEFINE found == {n \in vbr.hosts : n = Cur.req.body \/ <<Cur.req.body, n>> \in Alike}
        <5>1. Firsts = IF found = {} THEN {NullId} ELSE {Id(Cur.kind, n) : n \in found}
          BY <3>1, Zenon DEF Firsts
        <5>2. found = {vbr.self}
          BY <4>2, <4>3
        <5> HIDE DEF found
        <5>3. QED
          BY <3>1, <5>1, <5>2 DEF HostId
      <4>7. QED
        BY <4>1, <4>5, <4>6, IntendedIs
    <3>2. CASE Cur.kind = "repo"
      <4>1. Cur.var = "defaultRepo" /\ Cur.req.body = DefaultRepo
        BY <1>3, <3>2 DEF LookUpForm
      <4>2. \A j \in 1 .. Len(Ideal) : j < at => ~Deletes(Ideal[j])
        BY <1>2, <3>2 DEF Fits
      <4>3. DefaultRepo \in vbr.repos
        BY <1>4, <4>2 DEF Bounded
      <4>4. id = RepoId(DefaultRepo)
        <5> DEFINE found == {n \in vbr.repos : n = Cur.req.body \/ <<Cur.req.body, n>> \in Alike}
        <5>1. Firsts = IF found = {} THEN {NullId} ELSE {Id(Cur.kind, n) : n \in found}
          BY <3>2, Zenon DEF Firsts
        <5>2. found = {DefaultRepo}
          <6> HIDE DEF DefaultRepo
          <6> QED
            BY <4>1, <4>3, OnlyDefault
        <5> HIDE DEF found
        <5>3. QED
          BY <3>2, <5>1, <5>2 DEF RepoId
      <4>5. QED
        BY <4>1, <4>4, IntendedIs
    <3>3. QED
      BY <1>1, <3>1, <3>2
  <2>2. ASSUME Cur.var \in Caught
        PROVE  env'[Cur.var] = id
    BY <1>1, <1>2, <2>2, Holds
  <2>3. vbr' = vbr /\ Cur.kind # "redirect"
    BY <1>1
  <2>4. QED
    BY <2>1, <2>2, <2>3 DEF Kept
<1>7. Makes(vbr', Cur) /\ Same /\ at' = at + 1 /\ phase' = "start"
  BY <1>1, MakesNothing DEF Same, Advance
<1>8. QED
  BY <1>1, <1>5, <1>6, <1>7, Passing

\* A call is accepted, and does what it is for.
LEMMA CallInStep ==
    ASSUME CraftInv, Calm, InStep, Call
    PROVE  InStep'
<1>1. /\ phase = "start" /\ at <= Len(Steps) /\ Cur.kind \in {"call", "redirect"}
      /\ sent' = Append(sent, Cur.req) /\ vbr' = Effect(Cur.req) /\ Capture(Created(Cur.req)) /\ Advance
      /\ UNCHANGED <<spec, shell>>
  BY DEF Call, At, Write
<1>2. Meant(Cur) /\ Formed(spec, Cur, env) /\ Typed
  BY <1>1, NowIdeal, Now
<1>3. /\ Makes(vbr', Cur) /\ (Cur.kind = "redirect" => vbr'.target = Intended["repo"])
      /\ Cur.var # "" => Created(Cur.req) \in vbr'.creds
  BY <1>1, CallMakes
<1>4. sent' = Sends(Ideal, at - 1) \o Writes(Cur)
  BY <1>1, Before, Requested DEF ForNode
<1>5. Kept(env', vbr', Cur)
  <2>1. ASSUME Cur.var \in Caught
        PROVE  env'[Cur.var] = Intended[Cur.var] /\ Known(vbr', Intended[Cur.var])
    <3>1. Cur.var # ""
      BY <2>1 DEF Caught
    <3>2. Cur.kind = "call"
      BY <1>1, <1>2, <3>1, ByKind DEF RedirectForm
    <3>3. Created(Cur.req) = Intended[Cur.var]
      BY <1>2, <3>1, <3>2 DEF Meant
    <3>4. env'[Cur.var] = Created(Cur.req)
      BY <1>1, <1>2, <2>1, Holds
    <3>5. QED
      BY <1>3, <3>1, <3>3, <3>4 DEF Known
  <2>2. QED
    BY <1>3, <2>1 DEF Kept
<1>6. Same /\ at' = at + 1 /\ phase' = "start"
  BY <1>1, <1>3 DEF Same, Makes, Gains, Advance
<1>7. QED
  BY <1>1, <1>3, <1>4, <1>5, <1>6, Passing

\* No node is registered when the script comes to it.
LEMMA RegisterInStep ==
    ASSUME CraftInv, Calm, InStep, Register
    PROVE  InStep'
<1>1. /\ phase = "start" /\ at <= Len(Steps) /\ Cur.kind \in {"hr", "proxy"}
      /\ UNCHANGED <<spec, shell, env, vbr>>
      /\ \/ Cur.node.ip \in vbr.hosts
         \/ sent' = sent \o Pair(Cur) /\ Goto("hostWait")
  BY DEF Register, At, Pair
<1>2. /\ Meant(Cur) /\ \A j \in 1 .. Len(Ideal) : j < at => Fits(Ideal[j], Cur)
  BY <1>1, NowIdeal
<1>3. ForNode(Cur)
  BY <1>1 DEF ForNode
<1>4. Cur.node.ip \notin vbr.hosts
  <2>1. Cur.node.ip # vbr.self
    BY <1>2, <1>3 DEF Meant
  <2>2. \A j \in 1 .. Len(Ideal) : j < at /\ ForNode(Ideal[j]) => Ideal[j].node.ip # Cur.node.ip
    BY <1>2, <1>3 DEF Fits
  <2>3. phase \notin {"part", "create", "wait"} /\ Bounded(vbr, at, phase)
    BY <1>1 DEF InStep
  <2>4. QED
    BY <2>1, <2>2, <2>3 DEF Bounded
<1>5. /\ phase' = "hostWait" /\ at' = at
      /\ sent' = Sends(Ideal, at - 1) \o Part(Cur, phase')
  BY <1>1, <1>4, Before DEF Goto, Part
<1>6. Same
  BY <1>1 DEF Same
<1>7. QED
  BY <1>1, <1>5, <1>6, Staying

\* The host is added.
LEMMA HostAddedInStep ==
    ASSUME CraftInv, Calm, InStep, HostAdded
    PROVE  InStep'
<1>1. /\ phase = "hostWait" /\ vbr' = Host(Cur.node.ip) /\ phase' = "part" /\ at' = at
      /\ UNCHANGED <<spec, shell, env, sent>>
  BY DEF HostAdded, Goto
<1>2. ForNode(Cur) /\ Typed
  BY <1>1, HostOfAim, Now
<1>3. sent' = Sends(Ideal, at - 1) \o Part(Cur, phase')
  <2>1. sent = Sends(Ideal, at - 1) \o Part(Cur, phase)
    BY <1>1, Before
  <2>2. Part(Cur, phase') = Part(Cur, phase)
    BY <1>1 DEF Part
  <2>3. QED
    BY <1>1, <2>1, <2>2
<1>4. Same
  <2> DEFINE n == Cur.node.ip
  <2>1. vbr' = [vbr EXCEPT !.hosts = @ \cup {n}]
    BY <1>1 DEF Host
  <2> HIDE DEF n
  <2>2. vbr'.self = vbr.self /\ vbr'.backups = vbr.backups /\ vbr'.license = vbr.license
    BY <1>2, <2>1 DEF Typed, Server
  <2>3. QED
    BY <1>1, <2>2 DEF Same
<1>5. QED
  BY <1>1, <1>2, <1>3, <1>4, Staying

\* No hardened repository is there before its request.
LEMMA FindPartInStep ==
    ASSUME CraftInv, Calm, InStep, FindPart
    PROVE  InStep'
<1>1. /\ phase = "part" /\ UNCHANGED <<spec, shell, sent, vbr>>
      /\ \/ Cur.kind = "hr" /\ Cur.req.body.name \in vbr.repos
         \/ Goto("create") /\ UNCHANGED env
  BY DEF FindPart
<1>2. /\ \A j \in 1 .. Len(Ideal) : j < at => Fits(Ideal[j], Cur)
      /\ Placed /\ spec \in Specs
      /\ Cur.kind = Aim.kind /\ (ForNode(Cur) => Cur.node = Aim.node) /\ (ForNode(Cur) <=> ForNode(Aim))
  BY <1>1, NowIdeal, Now
<1>3. ForNode(Cur)
  BY <1>1, <1>2 DEF Placed, Passes
<1>4. ASSUME Cur.kind = "hr"
      PROVE  Cur.req.body.name \notin vbr.repos
  <2>1. HardenedForm(spec, Cur) /\ Cur.req.body.name = RepoName(spec, Cur.node)
    BY <1>1, <1>2, <1>3, <1>4, NameOfAim
  <2>2. RepoName(spec, Cur.node) # DefaultRepo
    BY <1>2, <2>1, NamesApart DEF HardenedForm
  <2>3. \A j \in 1 .. Len(Ideal) : j < at =>
           /\ ~Stores(Ideal[j])
           /\ Ideal[j].kind = "hr" => RepoName(spec, Ideal[j].node) # RepoName(spec, Cur.node)
    BY <1>2, <1>4 DEF Fits
  <2>4. Bounded(vbr, at, phase)
    BY DEF InStep
  <2>5. QED
    BY <2>1, <2>2, <2>3, <2>4 DEF Bounded
<1>5. phase' = "create" /\ at' = at /\ UNCHANGED env
  BY <1>1, <1>4 DEF Goto
<1>6. sent' = Sends(Ideal, at - 1) \o Part(Cur, phase')
  <2>1. sent = Sends(Ideal, at - 1) \o Part(Cur, phase)
    BY <1>1, Before
  <2>2. Part(Cur, phase') = Part(Cur, phase)
    BY <1>1, <1>5 DEF Part
  <2>3. QED
    BY <1>1, <2>1, <2>2
<1>7. Same
  BY <1>1 DEF Same
<1>8. QED
  BY <1>1, <1>3, <1>5, <1>6, <1>7, Staying

\* The node at a request is registered, and the step is past its other requests.
LEMMA AtItsRequest ==
    ASSUME CraftInv, Calm, InStep, Creating
    PROVE  /\ phase # "start" \/ at <= Len(Steps)
           /\ Cur.kind \notin {"host", "repo"} /\ (ForNode(Cur) => Cur.node.ip \in vbr.hosts)
           /\ (phase = "create" /\ ForNode(Cur)) \/ (phase = "start" /\ ~ForNode(Cur))
<1>1. phase = "create" \/ (phase = "start" /\ at <= Len(Steps) /\ Cur.kind \in {"create", "wait"})
  BY DEF Creating, At
<1>2. /\ Cur.kind = Aim.kind /\ (ForNode(Cur) => Cur.node = Aim.node) /\ (ForNode(Cur) <=> ForNode(Aim))
      /\ Cur = Ideal[at]
  BY <1>1, Now, NowIdeal
<1>3. ForNode(Cur) => Cur.node.ip \in vbr.hosts
  BY <1>2, AtRequest DEF Found
<1>4. CASE phase = "create"
  <2>1. ForNode(Cur)
    BY <1>2, <1>4 DEF InStep
  <2>2. QED
    BY <1>3, <1>4, <2>1 DEF ForNode
<1>5. CASE phase = "start" /\ at <= Len(Steps) /\ Cur.kind \in {"create", "wait"}
  BY <1>3, <1>5 DEF ForNode
<1>6. QED
  BY <1>1, <1>4, <1>5

\* A request that starts a session.
LEMMA CreateInStep ==
    ASSUME CraftInv, Calm, InStep, Create
    PROVE  InStep'
<1>1. /\ Creating /\ sent' = Append(sent, Cur.req) /\ phase' = "wait" /\ at' = at
      /\ UNCHANGED <<spec, shell, env, vbr>>
  BY DEF Create, Write, Goto
<1>2. /\ phase # "start" \/ at <= Len(Steps)
      /\ Cur.kind \notin {"host", "repo"}
      /\ (phase = "create" /\ ForNode(Cur)) \/ (phase = "start" /\ ~ForNode(Cur))
  BY <1>1, AtItsRequest
<1> DEFINE S == Sends(Ideal, at - 1)
<1>3. IsSeq(S) /\ sent = S \o Part(Cur, phase) /\ (phase = "start" => sent = S)
  BY <1>2, Before
<1> HIDE DEF S
<1>4. sent' = S \o Writes(Cur)
  <2>1. phase = "create" => Part(Cur, phase) = Pair(Cur)
    BY DEF Part
  <2>2. QED
    BY <1>1, <1>2, <1>3, <2>1, Requested
<1>5. Part(Cur, phase') = Writes(Cur)
  BY <1>1 DEF Part
<1>6. Same
  BY <1>1 DEF Same
<1>7. QED
  BY <1>1, <1>2, <1>4, <1>5, <1>6, Staying DEF S

\* The end of a session.
LEMMA SessionInStep ==
    ASSUME CraftInv, Calm, InStep, SessionEnds
    PROVE  InStep'
<1> DEFINE id == IF Cur.kind = "hr" THEN RepoId(Cur.req.body.name) ELSE NullId
<1>1. /\ phase = "wait" /\ vbr' = Effect(Cur.req) /\ Advance /\ Capture(id)
      /\ UNCHANGED <<spec, shell, sent>>
  BY DEF SessionEnds
<1>2. /\ Meant(Cur) /\ Formed(spec, Cur, env) /\ Typed /\ Placed /\ Cur.kind = Aim.kind
      /\ (ForNode(Cur) <=> ForNode(Aim))
  BY <1>1, NowIdeal, Now
<1>3. Cur.kind \in {"hr", "proxy", "create", "wait"}
  BY <1>1, <1>2 DEF Placed, Passes, ForNode
<1>4. Makes(vbr', Cur) /\ (Cur.kind = "hr" => RepoName(spec, Cur.node) \in vbr'.repos)
  BY <1>1, <1>2, <1>3, SessionMakes
<1>5. Kept(env', vbr', Cur)
  <2>1. ASSUME Cur.var \in Caught
        PROVE  env'[Cur.var] = Intended[Cur.var] /\ Known(vbr', Intended[Cur.var])
    <3>1. Cur.var # ""
      BY <2>1 DEF Caught
    <3>2. Cur.kind = "hr" /\ Cur.var = "repo" /\ Cur.req.body.name = RepoName(spec, Cur.node)
      BY <1>2, <1>3, <3>1, ByKind DEF HardenedForm, ProxyForm, ClusterForm, StoreForm
    <3>3. id = Intended["repo"] /\ id = RepoId(RepoName(spec, Cur.node))
      BY <1>2, <3>2 DEF Meant
    <3>4. env'[Cur.var] = id
      <4> HIDE DEF id
      <4> QED
        BY <1>1, <1>2, <2>1, Holds
    <3>5. RepoId(RepoName(spec, Cur.node)).obj = "repo"
          /\ RepoId(RepoName(spec, Cur.node)).of = RepoName(spec, Cur.node)
      BY DEF RepoId, Id
    <3>6. Known(vbr', RepoId(RepoName(spec, Cur.node)))
      BY <1>4, <3>2, <3>5 DEF Known
    <3>7. QED
      BY <3>2, <3>3, <3>4, <3>6
  <2>2. QED
    BY <1>3, <2>1 DEF Kept
<1>6. sent' = Sends(Ideal, at - 1) \o Writes(Cur)
  <2>1. Part(Cur, phase) = Writes(Cur)
    BY <1>1 DEF Part
  <2>2. QED
    BY <1>1, <2>1, Before
<1>7. Same /\ at' = at + 1 /\ phase' = "start"
  BY <1>1, <1>4 DEF Same, Makes, Gains, Advance
<1> HIDE DEF id
<1>8. QED
  BY <1>1, <1>4, <1>5, <1>6, <1>7, Passing

\* Nothing that the script does changes whose server it is, the backups there, or a license that is valid.
LEMMA EffectSame ==
    ASSUME Typed, NEW req
    PROVE  /\ Effect(req).self = vbr.self /\ Effect(req).backups = vbr.backups
           /\ Effect(req).license = "valid" <=> vbr.license = "valid"
<1> DEFINE a == vbr.repos \ {req.body.id.of}
           b == req.body.backupRepositoryId
           c == vbr.hosts \cup {req.body.name}
           d == Append(vbr.proxies, req.body.server.hostId.of)
           f == vbr.creds \cup {Created(req)}
           g == vbr.repos \cup {req.body.name}
           h == IF vbr.license = "none" THEN "installed" ELSE vbr.license
           e == Effect(req)
<1>1. \/ e = vbr \/ e = [vbr EXCEPT !.repos = a] \/ e = [vbr EXCEPT !.target = b] \/ e = [vbr EXCEPT !.hosts = c]
      \/ e = [vbr EXCEPT !.proxies = d] \/ e = [vbr EXCEPT !.cluster = TRUE]
      \/ e = [vbr EXCEPT !.creds = f] \/ e = [vbr EXCEPT !.repos = g] \/ e = [vbr EXCEPT !.license = h]
  BY DEF Effect
<1>2. h = "valid" <=> vbr.license = "valid"
  OBVIOUS
<1> HIDE DEF a, b, c, d, e, f, g, h
<1>3. /\ e.self = vbr.self /\ e.backups = vbr.backups
      /\ e.license \in {vbr.license, h}
  BY <1>1, OneField
<1>4. QED
  BY <1>2, <1>3 DEF e

\* Each step keeps to the ideal plan, for as long as nothing fails.
LEMMA SyncStep ==
    ASSUME CraftInv, SyncInv, [Next]_vars
    PROVE  SyncInv'
<1>1. runs \in Nat /\ faults \in Nat /\ runs >= 1 /\ Typed
  BY DEF CraftInv, Typed, SyncInv
<1>2. ASSUME Same, UNCHANGED <<runs, faults>>, Calm /\ InStep => InStep'
      PROVE  SyncInv'
  <2>1. Calm' <=> Calm
    BY <1>2, StaysIdeal
  <2>2. QED
    BY <1>2, <2>1 DEF SyncInv
<1>3. ASSUME runs' = runs, faults' = faults + 1
      PROVE  SyncInv'
  BY <1>1, <1>3 DEF SyncInv
<1>4. CASE \/ LookUpFails \/ RegisterFails \/ HostLost \/ FindPartFails \/ Pending \/ SessionFails
           \/ SessionStops \/ RepoUnresolved
  BY <1>3, <1>4, Zenon DEF LookUpFails, RegisterFails, HostLost, FindPartFails, Pending, SessionFails,
                           SessionStops, RepoUnresolved, Fault
<1>5. CASE LookUp \/ Register \/ FindPart \/ Create
  <2>1. UNCHANGED <<spec, shell, vbr, runs, faults>>
    BY <1>5 DEF LookUp, Register, FindPart, Create
  <2>2. Calm /\ InStep => InStep'
    BY <1>5, LookUpInStep, RegisterInStep, FindPartInStep, CreateInStep
  <2>3. QED
    BY <1>2, <2>1, <2>2 DEF Same
<1>6. CASE Call \/ SessionEnds
  <2>1. UNCHANGED <<spec, shell, runs, faults>> /\ vbr' = Effect(Cur.req)
    BY <1>6 DEF Call, SessionEnds
  <2>2. /\ vbr'.self = vbr.self /\ vbr'.backups = vbr.backups
        /\ vbr'.license = "valid" <=> vbr.license = "valid"
    BY <1>1, <2>1, EffectSame
  <2>3. Calm /\ InStep => InStep'
    BY <1>6, CallInStep, SessionInStep
  <2>4. QED
    BY <1>2, <2>1, <2>2, <2>3 DEF Same
<1>7. CASE HostAdded
  <2> DEFINE n == Cur.node.ip
  <2>1. UNCHANGED <<spec, shell, runs, faults>> /\ vbr' = [vbr EXCEPT !.hosts = @ \cup {n}]
    BY <1>7 DEF HostAdded, Host
  <2> HIDE DEF n
  <2>2. vbr'.self = vbr.self /\ vbr'.backups = vbr.backups /\ vbr'.license = vbr.license
    BY <1>1, <2>1 DEF Typed, Server
  <2>3. QED
    BY <1>2, <1>7, <2>1, <2>2, HostAddedInStep DEF Same
<1>8. CASE CallFails \/ CreateFails
  <2>1. /\ (faults' = faults + 1) \/ (UNCHANGED <<vbr, faults>> /\ ~Accepts(Cur.req))
        /\ UNCHANGED <<spec, shell, runs>>
    BY <1>8, Zenon DEF CallFails, CreateFails, Fault
  <2>2. ASSUME Calm, InStep
        PROVE  Accepts(Cur.req)
    <3>1. CASE CallFails
      <4>1. phase = "start" /\ at <= Len(Steps) /\ Cur.kind \in {"call", "redirect"}
        BY <3>1 DEF CallFails, At
      <4>2. QED
        BY <2>2, <4>1, Accepted DEF ForNode
    <3>2. CASE CreateFails
      <4>1. Creating
        BY <3>2 DEF CreateFails
      <4>2. QED
        BY <2>2, <4>1, AtItsRequest, Accepted
    <3>3. QED
      BY <1>8, <3>1, <3>2
  <2>3. CASE UNCHANGED <<vbr, faults>> /\ ~Accepts(Cur.req)
    BY <1>2, <2>1, <2>2, <2>3 DEF Same
  <2>4. QED
    BY <1>3, <2>1, <2>3
<1>9. CASE Update
  <2>1. UNCHANGED <<spec, shell, vbr, runs>> /\ (faults' = faults \/ faults' = faults + 1) /\ ~InStep
    BY <1>9 DEF Update, Fault, InStep
  <2>2. QED
    BY <1>2, <1>3, <2>1 DEF Same
<1>10. CASE Rerun
  <2>1. runs' = runs + 1
    BY <1>10 DEF Rerun
  <2>2. QED
    BY <1>1, <2>1 DEF SyncInv
<1>11. CASE UNCHANGED vars
  <2>1. UNCHANGED <<spec, shell, at, phase>> /\ UNCHANGED <<tries, env, sent, vbr, runs, faults>>
    BY <1>11 DEF vars
  <2>2. Same
    BY <2>1 DEF Same
  <2>3. ASSUME InStep
        PROVE  InStep'
    <3>1. \A i \in 1 .. Len(Ideal) : i < at' => Kept(env', vbr', Ideal[i])
      BY <2>1, <2>3 DEF InStep
    <3>2. Bounded(vbr', at', phase')
      BY <2>1, <2>3 DEF InStep
    <3>3. /\ phase' \notin {"stopped", "update"} /\ (phase' = "create" => ForNode(Ideal[at']))
          /\ sent' = Sends(Ideal, at' - 1) \o Part(Ideal[at'], phase')
      BY <2>1, <2>3 DEF InStep
    <3>4. QED
      BY <2>2, <3>1, <3>2, <3>3, Carries
  <2>4. QED
    BY <1>2, <2>1, <2>2, <2>3
<1>12. QED
  BY <1>4, <1>5, <1>6, <1>7, <1>8, <1>9, <1>10, <1>11, Zenon DEF Next

\* The script begins with nothing sent and nothing made.
LEMMA SyncInit ==
    ASSUME Init
    PROVE  SyncInv
<1>1. PICK self \in {"ip", "name"}, backups \in {<<>>, <<"b1">>}, license \in {"none", "valid"} :
        LET own == IF VSAs(spec) = <<>> THEN "target" ELSE Head(VSAs(spec))[self] IN
        vbr = [self |-> own, hosts |-> {own}, repos |-> {DefaultRepo}, proxies |-> <<>>, creds |-> {},
               target |-> RepoId(DefaultRepo), backups |-> backups, cluster |-> FALSE,
               license |-> license, stopped |-> {}]
  BY Zenon DEF Init
<1> DEFINE own == IF VSAs(spec) = <<>> THEN "target" ELSE Head(VSAs(spec))[self]
<1>2. vbr = [self |-> own, hosts |-> {own}, repos |-> {DefaultRepo}, proxies |-> <<>>, creds |-> {},
             target |-> RepoId(DefaultRepo), backups |-> backups, cluster |-> FALSE,
             license |-> license, stopped |-> {}]
  BY <1>1, Zenon
<1> HIDE DEF own
<1>3. at = 1 /\ phase = "start" /\ sent = <<>> /\ runs = 1
  BY DEF Init
<1>4. vbr.self = own /\ vbr.hosts = {own} /\ vbr.repos = {DefaultRepo}
  BY <1>2
<1>5. Bounded(vbr, at, phase)
  BY <1>4 DEF Bounded
<1>6. sent = Sends(Ideal, at - 1) \o Part(Ideal[at], phase)
  <2>1. at - 1 = 0
    BY <1>3
  <2>2. Sends(Ideal, 0) = <<>>
    BY SendsMore
  <2>3. <<>> \o <<>> = <<>>
    BY NothingBefore, Tuples
  <2>4. Part(Ideal[at], phase) = <<>>
    BY <1>3 DEF Part
  <2>5. QED
    BY <1>3, <2>1, <2>2, <2>3, <2>4
<1>7. \A i \in 1 .. Len(Ideal) : ~(i < at)
  BY <1>3
<1>8. InStep
  BY <1>3, <1>5, <1>6, <1>7 DEF InStep
<1>9. QED
  BY <1>3, <1>8 DEF SyncInv

\* What begins a joined sequence.
LEMMA Beginning ==
    ASSUME NEW p, IsSeq(p), NEW r, IsSeq(r)
    PROVE  IsPrefix(p, p \o r)
<1> DEFINE P == {p[i] : i \in DOMAIN p}
           R == {r[i] : i \in DOMAIN r}
<1>1. p \in Seq(P) /\ r \in Seq(R)
  BY DEF IsSeq
<1> HIDE DEF P, R
<1> DEFINE X == P \cup R
<1>2. p \in Seq(X) /\ r \in Seq(X)
  BY <1>1
<1> HIDE DEF X
<1> DEFINE s == p \o r
<1>3. s \in Seq(X) /\ Len(p) \in Nat /\ Len(s) \in Nat /\ Len(p) <= Len(s) /\ \A i \in 1 .. Len(p) : s[i] = p[i]
  BY <1>2
<1> HIDE DEF s
<1>4. SubSeq(p, 1, Len(p)) = SubSeq(s, 1, Len(p))
  BY <1>2, <1>3
<1>5. Len(p) <= Len(s) /\ SubSeq(p, 1, Len(p)) = SubSeq(s, 1, Len(p))
  BY <1>3, <1>4
<1>6. IsPrefix(p, s)
  BY <1>5 DEF IsPrefix
<1>7. QED
  BY <1>6 DEF s

\* A script that keeps to the ideal plan has sent a beginning of what Wire sends.
LEMMA SyncMeansInSync ==
    ASSUME CraftInv, SyncInv
    PROVE  InSync
<1> SUFFICES ASSUME Calm, runs = 1, faults = 0
             PROVE  /\ phase # "stopped"
                    /\ IsPrefix(sent, Wire(spec, vbr.backups))
                    /\ Finished => sent = Wire(spec, vbr.backups)
  BY DEF InSync, Sync, Calm
<1> DEFINE n == Len(Ideal)
           w == Wire(spec, vbr.backups)
<1>1. InStep /\ Typed /\ Placed /\ spec \in Specifications
  BY CraftAssumption DEF SyncInv, CraftInv, Typed
<1>2. Twins(Steps, Ideal) /\ SendsAll(Ideal) = w
  BY <1>1, IdealFacts DEF Stage, Ready
<1>3. /\ Len(Steps) = n /\ Len(Outline) = n /\ n \in Nat /\ at \in Nat \ {0} /\ at <= n + 1
      /\ phase # "start" => at <= n
  BY <1>1, <1>2, Here DEF Twins, Placed, Typed
<1>4. Sends(Ideal, n) = w
  BY <1>2 DEF SendsAll
<1>5. sent = Sends(Ideal, at - 1) \o Part(Ideal[at], phase)
  BY <1>1 DEF InStep
<1>6. at - 1 \in Nat /\ n - (at - 1) \in Nat /\ (at - 1) + (n - (at - 1)) = n
  BY <1>3
<1>7. IsSeq(Sends(Ideal, at - 1))
  BY <1>6, SendsSeq
<1>8. CASE phase = "start"
  <2>1. sent = Sends(Ideal, at - 1)
    <3>1. Part(Ideal[at], phase) = <<>>
      BY <1>8 DEF Part
    <3>2. QED
      BY <1>5, <1>7, <3>1, AtTheEnd
  <2>2. PICK r : IsSeq(r) /\ Sends(Ideal, (at - 1) + (n - (at - 1))) = Sends(Ideal, at - 1) \o r
    <3> HIDE DEF n
    <3> QED
      BY <1>6, SendsStart
  <2>3. w = sent \o r
    BY <1>4, <1>6, <2>1, <2>2
  <2>4. IsPrefix(sent, w)
    BY <1>7, <2>1, <2>2, <2>3, Beginning
  <2>5. Finished => sent = w
    <3> SUFFICES ASSUME Finished
                 PROVE  sent = w
      OBVIOUS
    <3>1. at - 1 = n
      BY <1>3 DEF Finished
    <3>2. QED
      BY <1>4, <2>1, <3>1
  <2>6. QED
    BY <1>8, <2>4, <2>5
<1>9. CASE phase # "start"
  <2>1. at \in 1 .. n /\ (at - 1) + 1 = at /\ n - at \in Nat /\ at + (n - at) = n /\ at \in Nat
    BY <1>3, <1>9
  <2> DEFINE S == Sends(Ideal, at - 1)
             p == Part(Ideal[at], phase)
  <2>2. IsSeq(S) /\ sent = S \o p
    BY <1>5, <1>7
  <2>3. Sends(Ideal, at) = S \o Writes(Ideal[at])
    <3>1. Sends(Ideal, (at - 1) + 1) = Sends(Ideal, at - 1) \o Writes(Ideal[(at - 1) + 1])
      BY <1>6, SendsMore
    <3>2. QED
      BY <2>1, <3>1
  <2>4. PICK r : IsSeq(r) /\ Sends(Ideal, at + (n - at)) = Sends(Ideal, at) \o r
    <3> HIDE DEF n
    <3> QED
      BY <2>1, SendsStart
  <2>5. PICK x : IsSeq(x) /\ IsSeq(p) /\ p \o x = Writes(Ideal[at])
    <3>1. phase \notin {"stopped", "update"}
      BY <1>1 DEF InStep
    <3>2. CASE phase = "wait"
      <4>1. p = Writes(Ideal[at])
        BY <3>2 DEF Part
      <4>2. QED
        BY <4>1, WritesSeq, NothingBefore, Tuples
    <3>3. CASE phase \in {"hostWait", "part", "create"}
      <4> DEFINE st == Ideal[at]
      <4>1. ForNode(Cur) /\ Cur = st
        <5>1. Cur = Ideal[at] /\ (ForNode(Cur) <=> ForNode(Aim))
          BY <1>1, <1>9, Now, NowIdeal
        <5>2. phase = "create" => ForNode(st)
          BY <1>1 DEF InStep
        <5>3. phase \in {"hostWait", "part"} => ForNode(Aim)
          BY <1>1, <1>9 DEF Placed, Passes
        <5>4. QED
          BY <3>3, <5>1, <5>2, <5>3
      <4>2. p = Pair(st)
        BY <3>3 DEF Part
      <4> HIDE DEF st, p
      <4>3. ForNode(st) /\ st.kind \notin {"host", "repo"}
        BY <4>1 DEF ForNode
      <4>4. IsSeq(Pair(st)) /\ IsSeq(<<>>) /\ IsSeq(<<st.req>>)
        BY Tuples DEF Pair
      <4>5. Append(<<>> \o Pair(st), st.req) = <<>> \o Writes(st)
        BY <4>3, <4>4, Requested
      <4>6. <<>> \o Pair(st) = Pair(st) /\ <<>> \o Writes(st) = Writes(st)
        BY <4>4, WritesSeq, NothingBefore
      <4>7. Append(Pair(st), st.req) = Pair(st) \o <<st.req>>
        BY <4>4, AtTheEnd
      <4>8. Pair(st) \o <<st.req>> = Writes(st)
        BY <4>5, <4>6, <4>7
      <4>9. QED
        BY <4>2, <4>4, <4>8 DEF st
    <3>4. QED
      BY <1>1, <1>9, <3>1, <3>2, <3>3 DEF Typed, Phases
  <2> HIDE DEF S, p, n, w
  <2>6. w = (S \o (p \o x)) \o r
    BY <1>4, <2>1, <2>3, <2>4, <2>5
  <2>7. Regroups(S, p, x) /\ Regroups(S \o p, x, r) /\ IsSeq(S \o p) /\ IsSeq(x \o r)
    BY <2>2, <2>4, <2>5, Associative, Concatenation
  <2>8. w = sent \o (x \o r)
    BY <2>2, <2>6, <2>7 DEF Regroups
  <2>9. IsPrefix(sent, w)
    BY <2>2, <2>7, <2>8, Beginning
  <2>10. phase # "stopped" /\ ~Finished
    BY <1>1, <1>9 DEF InStep, Finished
  <2>11. QED
    BY <2>9, <2>10 DEF w
<1>10. QED
  BY <1>8, <1>9

-----------------------------------------------------------------------------
(* Theorems. *)

\* In every state of every run: the variables have their types, each step the script has passed
\* has left on the server what it is for (also in bash, which reads over refused calls), the
\* configuration backup has a repository that exists, and a cluster that the PowerShell script
\* made came after the removal of the default repository.
THEOREM CraftInvariant == Spec => []CraftInv
<1>1. Init => CraftInv
  BY InitInv
<1>2. CraftInv /\ [Next]_vars => CraftInv'
  BY NextInv
<1>3. QED
  BY <1>1, <1>2, PTL DEF Spec

\* Whatever the specification entered and the calls that fail: a script that comes to its end
\* has registered every host, and has every repository and every proxy, and with two VSAs the
\* cluster, save for what a session that somebody stopped should have made.
THEOREM EndMeansWired == Spec => []DoneMeansWired
<1>1. CraftInv => DoneMeansWired
  <2> SUFFICES ASSUME CraftInv, Finished
               PROVE  DoneMeansWired
    BY DEF DoneMeansWired
  <2>1. Typed /\ Done /\ spec \in Specifications
    BY CraftAssumption DEF CraftInv, Typed
  <2>2. \A i \in 1 .. Len(Outline) : Settled(vbr, Outline[i])
    <3>1. at > Len(Outline) /\ Len(Outline) \in Nat /\ at \in Nat
      BY <2>1, Here DEF Finished, Typed
    <3>2. QED
      BY <2>1, <3>1 DEF Done
  <2> DEFINE blank == [x \in Variables |-> NullId]
  <2>3. Outline = Plan(spec, blank)
    BY DEF Outline
  <2> HIDE DEF blank
  <2>4. /\ \A n \in NodesOf(spec) : ~isVSA(n) => \E i \in 1 .. Len(Outline) : NodesStep(Outline[i], n)
        /\ Len(VSAs(spec)) > 1 => \E i \in 1 .. Len(Outline) : Clusters(Outline[i])
        /\ HasS3(spec) => \E i \in 1 .. Len(Outline) : Stores(Outline[i])
    BY <2>1, <2>3, PlanFacts
  <2>5. ASSUME NEW n \in NodesOf(spec)
        PROVE  /\ ~isVSA(n) => n.ip \in vbr.hosts
               /\ isHR(n) => RepoName(spec, n) \in vbr.repos \/ RepoId(RepoName(spec, n)) \in vbr.stopped
               /\ isProxy(n) => \/ \E k \in DOMAIN vbr.proxies : vbr.proxies[k] = n.ip
                                \/ Id("proxy", n.ip) \in vbr.stopped
    <3>1. isHR(n) \/ isProxy(n) => ~isVSA(n)
      BY DEF isHR, isProxy, isVSA
    <3>2. CASE isVSA(n)
      BY <3>1, <3>2
    <3>3. CASE ~isVSA(n)
      <4>1. PICK i \in 1 .. Len(Outline) : NodesStep(Outline[i], n)
        BY <2>4, <3>3
      <4>2. /\ Settled(vbr, Outline[i]) /\ ForNode(Outline[i]) /\ Outline[i].node = n
            /\ Outline[i].kind = (IF isHR(n) THEN "hr" ELSE "proxy")
        BY <2>2, <4>1 DEF NodesStep, ForNode
      <4>3. isProxy(n) => ~isHR(n)
        BY DEF isHR, isProxy
      <4>4. Made(Outline[i]) = IF isHR(n) THEN RepoId(RepoName(spec, n)) ELSE Id("proxy", n.ip)
        BY <4>2 DEF Made
      <4>5. QED
        BY <4>2, <4>3, <4>4 DEF Settled, Achieved
    <3>4. QED
      BY <3>2, <3>3
  <2>6. \A i \in DOMAIN spec.nodes : spec.nodes[i] \in NodesOf(spec)
    BY DEF NodesOf
  <2>7. Len(VSAs(spec)) > 1 => vbr.cluster \/ Id("cluster", "") \in vbr.stopped
    <3> SUFFICES ASSUME Len(VSAs(spec)) > 1
                 PROVE  vbr.cluster \/ Id("cluster", "") \in vbr.stopped
      OBVIOUS
    <3>1. PICK i \in 1 .. Len(Outline) : Clusters(Outline[i])
      BY <2>4
    <3>2. Made(Outline[i]) = Id("cluster", "")
      BY <3>1 DEF Made, Clusters
    <3>3. QED
      BY <2>2, <3>1, <3>2 DEF Settled, Achieved
  <2>8. HasS3(spec) => spec.s3.name \in vbr.repos \/ RepoId(spec.s3.name) \in vbr.stopped
    <3> SUFFICES ASSUME HasS3(spec)
                 PROVE  spec.s3.name \in vbr.repos \/ RepoId(spec.s3.name) \in vbr.stopped
      OBVIOUS
    <3>1. PICK i \in 1 .. Len(Outline) : Stores(Outline[i])
      BY <2>4
    <3>2. Made(Outline[i]) = RepoId(spec.s3.name)
      BY <3>1 DEF Made, Stores, Clusters
    <3>3. QED
      BY <2>2, <3>1, <3>2 DEF Settled, Achieved
  <2>9. QED
    BY <2>5, <2>6, <2>7, <2>8 DEF DoneMeansWired
<1>2. QED
  BY <1>1, CraftInvariant, PTL

\* For every specification and every order of failures and reruns: the PowerShell script has
\* formed the cluster only when the configuration backup is on a repository that exists and
\* the default repository is gone.
THEOREM ClusterComesLast == Spec => []ClusterLast
<1>1. CraftInv => ClusterLast
  BY DEF CraftInv, Backed, Sound, ClusterLast, Throws
<1>2. QED
  BY <1>1, CraftInvariant, PTL

\* However often the PowerShell script is run again, and whatever failed before: it registers no
\* host and creates no hardened repository that is there.
THEOREM NothingIsAddedTwice == Spec => NothingTwice
<1>1. CraftInv /\ [Next]_vars => AllNew
  BY StepIsNew
<1>2. AllNew => \A i \in DOMAIN sent' \ DOMAIN sent :
                    shell = "powershell" =>
                        /\ sent'[i].path = "managedServers" => sent'[i].body.name \notin vbr.hosts
                        /\ sent'[i].path = "repositories" /\ sent'[i].method = "POST"
                               /\ sent'[i].body.type = "LinuxHardened"
                           => sent'[i].body.name \notin vbr.repos
  BY DEF AllNew, New, Throws
<1>3. QED
  BY <1>1, <1>2, CraftInvariant, PTL DEF Spec, NothingTwice

\* For every specification that Mirrored tells of, and either shell: a script that meets no failure
\* never stops, has at each point sent a beginning of the calls that Wire makes, with the bodies
\* of Wire and in its order, and has sent all of them when it comes to its end.
THEOREM ScriptsSendTheSame == Spec => []InSync
<1>1. Init => CraftInv /\ SyncInv
  BY InitInv, SyncInit
<1>2. CraftInv /\ SyncInv /\ [Next]_vars => CraftInv' /\ SyncInv'
  BY NextInv, SyncStep
<1>3. CraftInv /\ SyncInv => InSync
  BY SyncMeansInSync
<1>4. QED
  BY <1>1, <1>2, <1>3, PTL DEF Spec
=============================================================================
