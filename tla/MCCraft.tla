------------------------------ MODULE MCCraft ------------------------------
EXTENDS CraftSync

Node(role, ip, name) == [role |-> role, ip |-> ip, name |-> name, code |-> ""]
Vsa   == Node("VSA", "10.1", "vsa")
Vsa2  == Node("VSA-2", "10.2", "vsa2")
Hr1   == Node("VIA-HR", "10.3", "hr")
Hr2   == Node("VIA-HR", "10.10", "hr")
Hr3   == Node("VIA-HR", "10.6", "")
Proxy == [Node("VIA-Proxy", "10.5", "proxy") EXCEPT !.code = "123456"]

Topologies == {<<Vsa>>, <<Vsa, Hr1, Proxy, Hr2>>, <<Vsa, Vsa2, Hr1, Proxy>>, <<Vsa, Vsa2>>,
               <<Proxy>>, <<Hr3>>}

\* The filter for the first VSA's address finds a longer one.
MCAlike == {<<"10.1", "10.10">>}

NoS3 == [name |-> "", compatible |-> FALSE, servicePoint |-> "", region |-> "r", bucket |-> "b",
         folder |-> "", immutableDays |-> 0, mountServerNode |-> "", overwriteOwner |-> FALSE]
Amazon     == [NoS3 EXCEPT !.name = "s3", !.overwriteOwner = TRUE]
Compatible == [NoS3 EXCEPT !.name = "s3", !.compatible = TRUE, !.servicePoint = "https",
                           !.folder = "f", !.immutableDays = 7]
Bare       == [Compatible EXCEPT !.servicePoint = "bare"]
Pinned     == [Amazon EXCEPT !.mountServerNode = "proxy"]

Bare0(nodes) == [nodes |-> nodes, username |-> "", license |-> "", immutableDays |-> 0, dns |-> "",
                 endpoint |-> "", exporter |-> FALSE, exporterUser |-> "", tls |-> FALSE,
                 syslog |-> "", syslogPort |-> 0, s3 |-> NoS3]

\* Each topology with nothing else, and with everything else in four ways.
Full(nodes, s3, user) ==
    [Bare0(nodes) EXCEPT !.license = "lic", !.endpoint = "10.9", !.exporter = TRUE, !.tls = TRUE,
                         !.exporterUser = user, !.syslog = "log", !.s3 = s3]
MCSpecs ==
    {Bare0(t) : t \in Topologies}
    \cup {Full(t, s3, "") : t \in Topologies, s3 \in {Amazon, Compatible, Bare}}
    \cup {Full(t, Pinned, "prom") : t \in {x \in Topologies : Proxy \in {x[i] : i \in DOMAIN x}}}
=============================================================================
