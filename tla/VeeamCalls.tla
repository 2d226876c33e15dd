----------------------------- MODULE VeeamCalls -----------------------------
(***************************************************************************)
(* internal/veeam: the request each method of Client sends, with the path  *)
(* below /api/v1 and the fields of its JSON body.  "refs" are the objects  *)
(* of the VBR server the body or the path names by id.                     *)
(*                                                                         *)
(* An id is the object it identifies; the server (external) gives it.      *)
(***************************************************************************)
EXTENDS Integers

Id(obj, of) == [obj |-> obj, of |-> of]
NoId   == Id("", "")      \* "": no id
NullId == Id("null", "")  \* what jq and PowerShell make of an absent field

Request(method, path, body, refs) ==
    [method |-> method, path |-> path, body |-> body, refs |-> refs]

\* The fields of two records in one (written out, and not with the @@ of TLC, for the proofs).
Joined(r, s) == [x \in DOMAIN r \cup DOMAIN s |-> IF x \in DOMAIN r THEN r[x] ELSE s[x]]

\* The body with an optional part.
With(body, cond, part) == IF cond THEN Joined(body, part) ELSE body

-----------------------------------------------------------------------------
(* Hosts, repositories and proxies. *)

CreateCredentials(username, description) ==
    Request("POST", "credentials",
            [type |-> "Linux", username |-> username, password |-> "$Password",
             description |-> description, authenticationType |-> "Password"], {})

ConnectionCertificate(ip, credentialsID) ==
    Request("POST", "connectionCertificate",
            With([serverName |-> ip, type |-> "LinuxHost"],
                 credentialsID # NoId, [credentialsId |-> credentialsID]),
            {credentialsID} \ {NoId})

AddLinuxHost(ip, description, handshakeCode) ==
    Request("POST", "managedServers",
            [type |-> "LinuxHost", name |-> ip, description |-> description,
             credentialsStorageType |-> "Certificate", handshakeCode |-> handshakeCode,
             sshFingerprint |-> Id("fingerprint", ip)], {})

UpdateHostComponents(hostID) ==
    Request("POST", "updateComponents", [ids |-> <<hostID>>], {hostID})

LinuxMount(hostID, nfs, cache) ==
    [mountServer |->
        [mountServerSettingsType |-> "Linux",
         linux |-> [mountServerId |-> hostID, vPowerNFSEnabled |-> nfs, writeCacheFolder |-> cache]]]

AddHardenedRepository(name, hostID, path, days, mountServerID) ==
    Request("POST", "repositories",
            With([type |-> "LinuxHardened", name |-> name, description |-> "", hostId |-> hostID,
                  repository |-> [path |-> path, useFastCloningOnXFSVolumes |-> TRUE,
                                  makeRecentBackupsImmutableDays |-> days]],
                 mountServerID # NoId, LinuxMount(mountServerID, TRUE, "IRCache")),
            {hostID, mountServerID} \ {NoId})

AddVmwareProxy(hostID) ==
    Request("POST", "proxies",
            [type |-> "ViProxy", description |-> "",
             server |-> [hostId |-> hostID, maxTaskCount |-> 4]], {hostID})

-----------------------------------------------------------------------------
(* License, configuration backup, HA cluster. *)

\* encodeLicensePayload: raw XML, wrapped base64 and canonical base64 of one license are
\* one payload.
InstallLicense(license) == Request("POST", "license/install", [license |-> license], {})

\* The PUT of the read-modify-write; it is left out when repoID is the target already.
RedirectConfigBackup(repoID) ==
    Request("PUT", "configBackup", [backupRepositoryId |-> repoID, SNMPEnabled |-> FALSE], {repoID})

DeleteBackup(backupID)   == Request("DELETE", "backups?includeGFS=true", [id |-> backupID], {backupID})
DeleteRepository(repoID) == Request("DELETE", "repositories", [id |-> repoID], {repoID})

CreateHACluster(primary, secondary, credentialsID, dns, endpoint) ==
    Request("POST", "highAvailabilityCluster",
            With([primaryNodeIpAddress |-> primary, secondaryNodeIpAddress |-> secondary,
                  secondaryNodeCredentialsId |-> credentialsID, clusterDnsName |-> dns,
                  certificate |-> [certificate |-> Id("certificate", secondary), formatType |-> "Pem"]],
                 endpoint # "", [clusterEndpoint |-> endpoint]),
            {credentialsID})

-----------------------------------------------------------------------------
(* General options and object storage. *)

Auth(user) == [type |-> "UsernamePassword", username |-> user, password |-> "$NeBasicPass"]

SetNodeExporter(tls, user) ==
    LET settings == Request("PUT", "nodeExporterSettings",
                            [metricsSharingEnabled |-> TRUE, tlsEnabled |-> tls,
                             auth |-> IF user = "" THEN [type |-> "None"] ELSE Auth(user)], {})
    IN IF user = "" THEN <<settings>>
       ELSE <<settings, Request("POST", "setBasicAuth", Auth(user), {})>>

SetSyslog(server, port, protocol) ==
    Request("PUT", "eventForwarding",
            [syslogServer |-> [serverName |-> server, port |-> port, transportProtocol |-> protocol]], {})

CreateCloudCredentials(description) ==
    Request("POST", "cloudCredentials",
            [type |-> "Amazon", accessKey |-> "$S3AccessKey", secretKey |-> "$S3SecretKey",
             description |-> description], {})

\* A bare host gets a scheme.
normalizeEndpoint(point) == IF point = "bare" THEN "https" ELSE point

NewS3CompatibleFolder(credentialsID, point, region, bucket, folder) ==
    Request("POST", "newFolder",
            [credentialsId |-> credentialsID, serviceType |-> "S3Compatible", newFolderName |-> folder,
             connectionPoint |-> normalizeEndpoint(point), regionId |-> region, bucketName |-> bucket],
            {credentialsID})

S3Bucket(s3, fields) ==
    With(Joined([bucketName |-> s3.bucket, folderName |-> s3.folder], fields), s3.immutableDays > 0,
         [immutability |-> [isEnabled |-> TRUE, daysCount |-> s3.immutableDays,
                            immutabilityMode |-> "RepositorySettings"]])

AddS3Repository(s3, credentialsID, mountServerID) ==
    LET account == [credentialsId |-> credentialsID, connectionSettings |-> "Direct"]
        body == IF s3.compatible
                THEN [type |-> "S3Compatible",
                      account |-> Joined(account, [servicePoint |-> normalizeEndpoint(s3.servicePoint),
                                                   regionId |-> s3.region]),
                      bucket |-> S3Bucket(s3, <<>>)]
                ELSE [type |-> "AmazonS3",
                      account |-> Joined(account, [regionType |-> "Global"]),
                      bucket |-> S3Bucket(s3, [regionId |-> s3.region])]
    IN Request("POST", IF s3.overwriteOwner THEN "repositories?overwriteOwner=true" ELSE "repositories",
               With(Joined([name |-> s3.name, description |-> "autodeploy object storage"], body),
                    mountServerID # NoId, LinuxMount(mountServerID, FALSE, "/tmp")),
               {credentialsID, mountServerID} \ {NoId})
=============================================================================
