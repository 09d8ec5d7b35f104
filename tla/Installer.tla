----------------------------- MODULE Installer -----------------------------
(***************************************************************************)
(* The install package: Do (install), Uninstall with its wait, Update (the *)
(* move of the stacks from a custom resource definition to the API server, *)
(* by way of a backup), Restore, UninstallComposeAPIServer and the         *)
(* debugging installer, against the cluster they work on.                  *)
(*                                                                         *)
(* A command is a program: `todo` holds the steps it has left, one per API *)
(* call that changes the cluster or decides how to go on.  Deployments,    *)
(* RBAC objects, secrets and service accounts are deleted in the           *)
(* foreground: the call returns, the object stays until the garbage        *)
(* collector is done with it.  A command that is interrupted leaves the    *)
(* cluster as it is, and the operator may start another one.               *)
(***************************************************************************)
EXTENDS Naturals, Sequences

CONSTANTS
    Stacks,             \* names of stacks
    CommandLines,       \* the command lines of cmd/installer
    Embedded,           \* the options of programs that call Do themselves
    UpdateTags,         \* the tags Update is called with
    KubeVersions,       \* the versions of Kubernetes the cluster may have
    Debug,              \* the tag "debug"
    Old,                \* the tag of the legacy installation with a CRD
    None, Failed,
    UpdateFrom,         \* who serves the stacks when Update is called, or "rerun": anybody
    MaxCommands,        \* bound on the commands of the operator
    MaxInterruptions,   \* bound on commands that stop half-way
    MaxFailures,        \* bound on failing calls a command goes on after
    MaxCreates          \* bound on stacks users create

BundleFiles == {"ca", "cert", "key"}

\* What the options of a call say, before newInstaller.
OptionsCommon(tag) ==
    [tag |-> tag, serviceType |-> "", replicas |-> 1, debug |-> FALSE,
     etcd |-> None, network |-> None, controllerImage |-> None, apiServerImage |-> None]

ASSUME InstallerAssumption ==
    /\ \A f \in CommandLines : f.replicas \in Nat /\ f.etcdFiles \cup f.tlsFiles \subseteq BundleFiles
    /\ \A o \in Embedded : DOMAIN o = DOMAIN OptionsCommon(Old)
    /\ None \notin UpdateTags \cup {Debug, Old, Failed}
    /\ UpdateFrom \subseteq {"crd", "api", "rerun"}
    /\ {MaxCommands, MaxInterruptions, MaxFailures, MaxCreates} \subseteq Nat

VARIABLES
    deployment,     \* the deployments "compose" and "compose-api", or None
    object,         \* the other objects the installer creates
    apiPod,         \* the API server's pod
    apiService,     \* is the aggregated API registered
    crd,            \* the definition stacks.compose.docker.com
    crdStacks,      \* the stacks it holds
    apiStacks,      \* the stacks in the API server's etcd
    backupCrd,      \* the definition stackbackups.composebackup.docker.com
    backup,         \* the stacks it holds
    workloads,      \* the stacks whose workloads run
    cmd, todo,      \* the running command and the steps it has left
    listed,         \* the stacks a loop of the command still has to treat
    result,         \* how the last command ended
    undisturbed,    \* history: no command has ended early or met an error
    known,          \* history: the stacks there were when the command listed them
    kubeVersion,    \* the version of Kubernetes the cluster runs
    stray,          \* a controller whose deployment is gone is still running
    budget

hostVars == <<stray, kubeVersion>>
clusterVars == <<deployment, object, apiPod, apiService, hostVars>>
stackVars == <<crd, crdStacks, apiStacks, backupCrd, backup, workloads>>
vars == <<clusterVars, stackVars, cmd, todo, listed, result, undisturbed, known, budget>>

Secrets == {"compose-etcd", "compose-tls"}
Services == {"service", "debugAPIServer", "debugController"}
Labelled == {"rbac", "serviceAccount"} \cup Secrets \cup Services
Objects == Labelled \cup {"defaultRoles"}
Names == {"compose", "compose-api"}

-----------------------------------------------------------------------------
(* The options: from a command line, from Update, from the debugging       *)
(* installer, and what newInstaller makes of them.                         *)

WithUnsafe(tag, debug) == [OptionsCommon(tag) EXCEPT !.debug = debug]
WithSafe(tag, replicas, etcdBundle, tlsBundle) ==
    [OptionsCommon(tag) EXCEPT !.replicas = replicas,
                               !.etcd = [bundle |-> etcdBundle], !.network = [bundle |-> tlsBundle]]

\* The three files of a bundle are given altogether or not at all.
load(files, content) ==
    CASE files = {} -> None
      [] files = BundleFiles -> content
      [] OTHER -> Failed
parsePullPolicy(p) == IF p \in {"Always", "Never", "IfNotPresent"} THEN p ELSE Failed
parseOptions(f) ==
    LET etcd == load(f.etcdFiles, f.content)
        tls == load(f.tlsFiles, f.content)
    IN IF Failed \in {parsePullPolicy(f.pullPolicy), etcd, tls} THEN Failed
       ELSE WithSafe(f.tag, f.replicas, etcd, tls)

sha1(data) == <<"sha1", data>>
tagForCustomImages(controllerImage, apiServerImage) == sha1(<<controllerImage, apiServerImage>>)

\* The tag the labels carry, and by which an installation is recognised.
newInstaller(o) ==
    [o EXCEPT !.tag =
        CASE o.debug -> Debug
          [] ~o.debug /\ o.controllerImage # None /\ o.apiServerImage # None ->
               tagForCustomImages(o.controllerImage, o.apiServerImage)
          [] OTHER -> @]
labels(i) == <<i.tag, i.serviceType>>
apiLabels(i) == <<i.tag>>
customTLSHash(i) ==
    IF i.network # None /\ i.network.bundle # None THEN sha1(i.network.bundle) ELSE None

\* "1.13+" is a version, "1.x" is none.
checkVersion(v) ==
    /\ v.suffix \in {"", "+"}
    /\ v.major > 1 \/ (v.major = 1 /\ v.minor >= 8)
\* The etcd in the API server's pod cannot be scaled with it.
validateOptions(i) == i.etcd # None \/ i.replicas = 1

-----------------------------------------------------------------------------
(* The commands as programs. *)

WaitForUninstallCompletion(skipCRD) ==
    <<"waitForNoApps", "waitForNoRbac", "waitForNoAPIAggregation", "waitForNoCoreComponents">>
    \o (IF skipCRD THEN <<>> ELSE <<"waitForNoCrd">>)
IsWait(step) ==
    step \in {"waitForNoApps", "waitForNoRbac", "waitForNoAPIAggregation",
              "waitForNoCoreComponents", "waitForNoCrd"}

Uninstall(keepCRD) ==
    <<"uninstallApps">> \o (IF keepCRD THEN <<>> ELSE <<"deleteCRD">>)
    \o <<"uninstallRbac", "deleteAPIServices", "uninstallCore">>

InstallAPIServer(i) ==
    (IF i.etcd # None THEN <<"compose-etcd">> ELSE <<>>)
    \o (IF customTLSHash(i) # None THEN <<"compose-tls">> ELSE <<>>)
    \o <<"compose-api", "service">>
    \o (IF i.debug THEN <<"debugAPIServer">> ELSE <<>>)
InstallController(i) == <<"compose">> \o (IF i.debug THEN <<"debugController">> ELSE <<>>)
Install(i, withAPIServer, withController) ==
    <<"serviceAccount", "rbac">>
    \o (IF withAPIServer THEN InstallAPIServer(i) ELSE <<>>)
    \o (IF withController THEN InstallController(i) ELSE <<>>)
    \o <<"defaultRoles">>

Backup == <<"getBackupCrd", "createBackupCrd", "listForBackup", "copy">>
Restore == <<"listBackup", "restore">>
UninstallCRD == <<"listStacks", "orphan", "waitForNoStacks", "removeCRD", "waitForNoCRD">>
UninstallComposeCRD_NoWait ==
    Uninstall(TRUE) \o <<"getCRD">> \o WaitForUninstallCompletion(FALSE)
UninstallComposeCRD ==
    Uninstall(TRUE) \o WaitForUninstallCompletion(TRUE)
    \o <<"getCRD">> \o WaitForUninstallCompletion(FALSE)
UninstallComposeAPIServer ==
    <<"deleteController", "getCRD">> \o Uninstall(FALSE) \o WaitForUninstallCompletion(FALSE)
Update_UninstallFirst(abortOnError) ==
    (IF abortOnError THEN <<"dryRun">> ELSE <<>>)
    \o UninstallComposeCRD \o Backup
    \o <<"doWithoutController", "isRunning">> \o Restore \o <<"doControllerOnly">>
Update(abortOnError) ==
    (IF abortOnError THEN <<"dryRun">> ELSE <<>>)
    \o Backup \o UninstallComposeCRD
    \o <<"doWithoutController", "isRunning">> \o Restore \o <<"doControllerOnly">>

\* What the last version with a definition has left: no API server yet.
LegacyController ==
    [labels |-> <<Old, "">>, image |-> <<"controller", Old>>, tls |-> None,
     mounts |-> {}, externalEtcd |-> FALSE, terminating |-> FALSE]

Init ==
    /\ \/ /\ deployment = [d \in Names |-> None]
          /\ object = [o \in Objects |-> "absent"]
          /\ crd = "absent" /\ crdStacks = {}
       \/ /\ deployment = [d \in Names |-> IF d = "compose" THEN LegacyController ELSE None]
          /\ object = [o \in Objects |->
                 IF o \in {"rbac", "serviceAccount"} THEN "present" ELSE "absent"]
          /\ crd = "present" /\ crdStacks \in SUBSET Stacks
    /\ apiPod = "none" /\ apiService = FALSE /\ apiStacks = {}
    /\ backupCrd = "absent" /\ backup = {}
    /\ workloads = crdStacks
    /\ kubeVersion \in KubeVersions /\ stray = FALSE
    /\ cmd = [name |-> "none", options |-> None] /\ todo = <<>> /\ listed = {} /\ result = "none"
    /\ undisturbed = TRUE
    /\ known = crdStacks
    /\ budget = [commands |-> MaxCommands, interruptions |-> MaxInterruptions,
                 failures |-> MaxFailures, creates |-> MaxCreates]

Spend(b) == budget[b] > 0 /\ budget' = [budget EXCEPT ![b] = @ - 1]

\* Who answers for the group compose.docker.com: a registered aggregated API
\* hides the definition, also when no pod is behind it.
Server ==
    IF apiService THEN (IF apiPod = "running" THEN "api" ELSE "nobody")
    ELSE IF crd # "absent" THEN "crd" ELSE "nobody"
Served == CASE Server = "api" -> apiStacks [] Server = "crd" -> crdStacks [] OTHER -> {}
CanCreate == Server = "api" \/ (Server = "crd" /\ crd = "present")
SetServed(stacks) ==
    /\ apiStacks' = IF Server = "api" THEN stacks ELSE apiStacks
    /\ crdStacks' = IF Server = "crd" THEN stacks ELSE crdStacks

\* A workload whose stack goes away is removed by a controller that is still
\* there to see it.
Forgotten(stacks) ==
    workloads' \in IF deployment["compose"] = None /\ ~stray THEN {workloads}
                   ELSE {workloads, workloads \ stacks}

At(step) == todo # <<>> /\ Head(todo) = step
Ahead(step) == \E i \in DOMAIN todo : todo[i] = step
Continue(rest) ==
    /\ todo' = rest
    /\ result' = IF rest # <<>> THEN result ELSE IF result = "failing" THEN "error" ELSE "done"
    /\ UNCHANGED undisturbed
Abort == todo' = <<>> /\ result' = "error" /\ undisturbed' = FALSE
Proceed == Continue(Tail(todo))

-----------------------------------------------------------------------------
(* The operator's commands, one at a time. *)

Start(name, options, program) ==
    /\ todo = <<>>
    /\ Spend("commands")
    /\ cmd' = [name |-> name, options |-> options] /\ todo' = program /\ result' = "running"
    /\ UNCHANGED <<clusterVars, stackVars, listed, undisturbed>>

\* Installing over a legacy installation, or uninstalling it, gives its stacks up.
StartDo(options) == Start("install", options, <<"do">>) /\ known' = {}
\* cmd/installer; a command line it refuses changes nothing.
StartInstall(f) ==
    LET options == parseOptions(f) IN
    IF options # Failed THEN StartDo(options)
    ELSE /\ todo = <<>>
         /\ Spend("commands")
         /\ cmd' = [name |-> "install", options |-> None] /\ result' = "error"
         /\ UNCHANGED <<clusterVars, stackVars, todo, listed, undisturbed, known>>
\* cmd/debug-installer, whose tag newInstaller replaces.
StartDebugInstall(tag) == StartDo(WithUnsafe(tag, TRUE))
StartUninstall ==
    /\ Start("uninstall", None, Uninstall(FALSE) \o WaitForUninstallCompletion(FALSE))
    /\ known' = {}
StartUninstallAPIServer ==
    /\ Server = "api"
    /\ Start("uninstallAPIServer", None, UninstallComposeAPIServer)
    /\ known' = {}

\* The cluster an operator updates: everything known is served, from the
\* definition with no API server about, or by an API server that stays.
Leaving == deployment["compose-api"] # None /\ deployment["compose-api"].terminating
Settled ==
    /\ known \subseteq Served
    /\ \/ /\ Server = "crd" /\ crd = "present"
          /\ deployment["compose-api"] = None /\ apiPod = "none"
       \/ Server = "api" /\ ~Leaving

StartUpdate(tag, abortOnError) ==
    /\ "rerun" \in UpdateFrom \/ (Server \in UpdateFrom /\ Settled)
    /\ Start("update", WithUnsafe(tag, FALSE), Update(abortOnError))
    /\ UNCHANGED known
StartRestore == Start("restore", None, Restore) /\ UNCHANGED known
StartDeleteBackup ==
    /\ Server = "api" /\ ~Leaving /\ known \subseteq apiStacks
    /\ Start("deleteBackup", None, <<"deleteBackup">>)
    /\ UNCHANGED known

-----------------------------------------------------------------------------
(* Installation. *)

installer == newInstaller(cmd.options)

\* isInstalled takes the tag of the first deployment in the list, the service
\* type from the controller's and the TLS hash from the API server's.
IsInstalled == \E d \in Names : deployment[d] # None
Status ==
    LET controller == deployment["compose"]
        apiServer == deployment["compose-api"]
    IN [tag |-> (IF controller # None THEN controller ELSE apiServer).labels[1],
        serviceType |-> IF controller # None THEN controller.labels[2] ELSE "",
        tls |-> IF apiServer # None THEN apiServer.tls ELSE None]
match(status, i) ==
    /\ Debug \notin {i.tag, status.tag}
    /\ status = [tag |-> i.tag, serviceType |-> i.serviceType, tls |-> customTLSHash(i)]

\* newInstaller with its check of the cluster, and install() up to its steps.
Do ==
    /\ todo # <<>> /\ Head(todo) \in {"do", "doWithoutController", "doControllerOnly"}
    /\ LET only == Head(todo) = "doControllerOnly"
           steps == Install(installer, ~only, Head(todo) # "doWithoutController")
       IN IF ~(checkVersion(kubeVersion) /\ validateOptions(installer)) THEN Abort
          ELSE Continue((CASE only \/ ~IsInstalled -> steps
                           [] ~only /\ IsInstalled /\ match(Status, installer) -> <<>>
                           [] OTHER -> Uninstall(FALSE) \o WaitForUninstallCompletion(FALSE) \o steps)
                        \o Tail(todo))
    /\ UNCHANGED <<clusterVars, stackVars, cmd, listed, known, budget>>

\* Get, then Update or Create: an object that is being deleted goes away all the same.
CreateObject(o) ==
    /\ At(o)
    /\ object' = [object EXCEPT ![o] = IF @ = "absent" THEN "present" ELSE @]
    /\ Proceed
    /\ UNCHANGED <<deployment, apiPod, apiService, hostVars, stackVars, cmd, listed, known, budget>>

\* The namespace, the pull secret and the account in it.
createServiceAccount == CreateObject("serviceAccount")
createClusterRoleBindings == CreateObject("rbac")
createEtcdSecret == CreateObject("compose-etcd")
createNetworkSecret == CreateObject("compose-tls")
createDebugService == CreateObject("debugAPIServer") \/ CreateObject("debugController")
createAPIServerService == CreateObject("service")
createDefaultClusterRoles == CreateObject("defaultRoles")

configureAPIServerImage(i) ==
    IF i.debug THEN <<"api-server-debug", None>> ELSE <<"api-server", i.tag>>
configureControllerImage(i) ==
    IF i.debug THEN <<"controller-debug", None>> ELSE <<"controller", i.tag>>

\* Without options the etcd is a container of the API server's pod; with them
\* the pod mounts the secret when there is a bundle for the client.
applyEtcdOptions(i) ==
    [externalEtcd |-> i.etcd # None,
     mounts |-> IF i.etcd # None /\ i.etcd.bundle # None THEN {"compose-etcd"} ELSE {}]
applyNetworkOptions(i) == IF customTLSHash(i) = None THEN {} ELSE {"compose-tls"}
applyCustomTLSHash(i) == customTLSHash(i)

APIServer(i) ==
    [labels |-> apiLabels(i),
     image |-> IF i.apiServerImage # None THEN i.apiServerImage ELSE configureAPIServerImage(i),
     tls |-> applyCustomTLSHash(i),
     mounts |-> applyEtcdOptions(i).mounts \cup applyNetworkOptions(i),
     externalEtcd |-> applyEtcdOptions(i).externalEtcd,
     terminating |-> FALSE]
Controller(i) ==
    [labels |-> labels(i),
     image |-> IF i.controllerImage # None THEN i.controllerImage ELSE configureControllerImage(i),
     tls |-> None, mounts |-> {}, externalEtcd |-> FALSE, terminating |-> FALSE]

\* Every set of options a program may call Do with.
Options ==
    ({parseOptions(f) : f \in CommandLines} \ {Failed}) \cup Embedded
    \cup {WithUnsafe(tag, debug) : tag \in UpdateTags, debug \in BOOLEAN}

\* No deployment is taken for none.
ASSUME DeploymentAssumption ==
    /\ None # LegacyController
    /\ \A o \in Options : None \notin {Controller(newInstaller(o)), APIServer(newInstaller(o))}

\* What match() does not look at, the operator has to keep in step with the tag:
\* the images are overridden together, none of the tags in use is that of the
\* legacy installation or the hash of two images, and two installations that
\* match() takes for the same have the same etcd options.
TagsTell ==
    \A o, p \in Options :
        /\ o.controllerImage = None <=> o.apiServerImage = None
        /\ tagForCustomImages(p.controllerImage, p.apiServerImage) \notin {o.tag, Old}
        /\ o.tag # Old
        /\ /\ newInstaller(o).tag = newInstaller(p).tag /\ o.serviceType = p.serviceType
           /\ customTLSHash(o) = customTLSHash(p)
           => o.etcd = p.etcd

\* The labels are the selector of a deployment too, which cannot be updated.
CreateDeployment(d, wanted) ==
    /\ At(d)
    /\ IF deployment[d] # None /\ deployment[d].labels # wanted.labels
       THEN Abort /\ UNCHANGED deployment
       ELSE /\ deployment' = [deployment EXCEPT ![d] =
                   [wanted EXCEPT !.terminating = deployment[d] # None /\ deployment[d].terminating]]
            /\ Proceed
    /\ UNCHANGED <<object, apiPod, apiService, hostVars, stackVars, cmd, listed, known, budget>>

createAPIServer == CreateDeployment("compose-api", APIServer(installer))
createController == CreateDeployment("compose", Controller(installer))

\* The poll for the three versions of the API, in Update, and its timeout.
IsRunning ==
    /\ At("isRunning")
    /\ IF Server = "api" THEN Proceed ELSE Abort
    /\ UNCHANGED <<clusterVars, stackVars, cmd, listed, known, budget>>

-----------------------------------------------------------------------------
(* Uninstallation.  The calls return at once; what is deleted in the       *)
(* foreground stays, terminating, until the garbage collector is done.     *)

Terminate(kinds) ==
    object' = [o \in Objects |->
        IF o \in kinds /\ object[o] = "present" THEN "terminating" ELSE object[o]]

uninstallApps ==
    /\ At("uninstallApps")
    /\ deployment' = [d \in Names |->
           IF deployment[d] = None THEN None ELSE [deployment[d] EXCEPT !.terminating = TRUE]]
    /\ Proceed
    /\ UNCHANGED <<object, apiPod, apiService, hostVars, stackVars, cmd, listed, known, budget>>

\* Uninstall's own removal of the definition, and the one of UninstallCRD.
deleteCRD ==
    /\ At("deleteCRD") \/ At("removeCRD")
    /\ crd' = IF crd = "present" THEN "terminating" ELSE crd
    /\ Proceed
    /\ UNCHANGED <<clusterVars, crdStacks, apiStacks, backupCrd, backup, workloads,
                   cmd, listed, known, budget>>

uninstallRbac ==
    /\ At("uninstallRbac")
    /\ Terminate({"rbac"})
    /\ Proceed
    /\ UNCHANGED <<deployment, apiPod, apiService, hostVars, stackVars, cmd, listed, known, budget>>

deleteAPIServices ==
    /\ At("deleteAPIServices")
    /\ apiService' = FALSE
    /\ Proceed
    /\ UNCHANGED <<deployment, object, apiPod, hostVars, stackVars, cmd, listed, known, budget>>

\* UninstallComposeAPIServer's own call: in the background, so the pod may
\* outlive the deployment.
DeleteController ==
    /\ At("deleteController")
    /\ deployment' = [deployment EXCEPT !["compose"] = None]
    /\ stray' = (stray \/ deployment["compose"] # None)
    /\ Proceed
    /\ UNCHANGED <<object, apiPod, apiService, kubeVersion, stackVars, cmd, listed, known, budget>>

UninstallCore(foreground) ==
    /\ At("uninstallCore")
    /\ object' = [o \in Objects |->
           CASE o \in Services -> "absent"
             [] o \in foreground /\ object[o] = "present" -> "terminating"
             [] OTHER -> object[o]]
    /\ Proceed
    /\ UNCHANGED <<deployment, apiPod, apiService, hostVars, stackVars, cmd, listed, known, budget>>
uninstallCore_NoAccounts == UninstallCore(Secrets)
\* Secrets and accounts in the foreground, services in the background.
uninstallCore == UninstallCore(Secrets \cup {"serviceAccount"})

waitForNoApps == \A d \in Names : deployment[d] = None
waitForNoRbac_OnePass == TRUE
waitForNoRbac == object["rbac"] = "absent"
\* The `continue` goes on with the inner loop: one pass, and it returns.
waitForNoAPIAggregation == TRUE
waitForNoCoreComponents_NoSecrets ==
    \A o \in Services \cup {"serviceAccount"} : object[o] = "absent"
waitForNoCoreComponents ==
    \A o \in Secrets \cup Services \cup {"serviceAccount"} : object[o] = "absent"
\* It lists definitions by label, and that of the stacks has none.
waitForNoCrd == TRUE

Wait ==
    /\ \/ At("waitForNoApps") /\ waitForNoApps
       \/ At("waitForNoRbac") /\ waitForNoRbac
       \/ At("waitForNoAPIAggregation") /\ waitForNoAPIAggregation
       \/ At("waitForNoCoreComponents") /\ waitForNoCoreComponents
       \/ At("waitForNoCrd") /\ waitForNoCrd
       \/ At("waitForNoCRD") /\ crd = "absent"
    /\ Proceed
    /\ UNCHANGED <<clusterVars, stackVars, cmd, listed, known, budget>>

\* orphanAllStacks waits for every stack to be gone, listed or not.
WaitForNoStacks ==
    /\ At("waitForNoStacks")
    /\ IF Server = "nobody" THEN Abort ELSE Served = {} /\ Proceed
    /\ UNCHANGED <<clusterVars, stackVars, cmd, listed, known, budget>>

\* UninstallCRD returns when there is no definition.
GetCRD ==
    /\ At("getCRD")
    /\ Continue((IF crd = "absent" THEN <<>> ELSE UninstallCRD) \o Tail(todo))
    /\ UNCHANGED <<clusterVars, stackVars, cmd, listed, known, budget>>

\* The lists of stacks that orphanAllStacks and Backup go through.
ListStacks ==
    /\ At("listStacks") \/ At("listForBackup")
    /\ IF Server = "nobody" THEN Abort /\ UNCHANGED <<listed, known>>
       ELSE /\ listed' = Served
            /\ known' = IF At("listForBackup") THEN known \cup Served ELSE known
            /\ Proceed
    /\ UNCHANGED <<clusterVars, stackVars, cmd, budget>>

\* The body of a loop over the listed stacks, and its end.
Each(step) == At(step) /\ listed # {}
EndOfLoop ==
    /\ todo # <<>> /\ Head(todo) \in {"orphan", "copy", "restore"} /\ listed = {}
    /\ Proceed
    /\ UNCHANGED <<clusterVars, stackVars, cmd, listed, known, budget>>

orphanStack(s) ==
    /\ Each("orphan") /\ s \in listed
    /\ listed' = listed \ {s}
    /\ SetServed(Served \ {s})
    /\ Forgotten({s})
    /\ UNCHANGED <<clusterVars, crd, backupCrd, backup, cmd, todo, result, undisturbed, known, budget>>

-----------------------------------------------------------------------------
(* Backup, with BackupPreviousErase, and Restore. *)

\* Only a dry run that finds nothing goes on.
DryRun ==
    /\ At("dryRun")
    /\ \/ Abort
       \/ Server # "nobody" /\ Proceed
    /\ UNCHANGED <<clusterVars, stackVars, cmd, listed, known, budget>>

GetBackupCrd ==
    /\ At("getBackupCrd")
    /\ IF backupCrd = "absent" THEN Proceed /\ UNCHANGED backupCrd
       ELSE backupCrd' = "terminating" /\ Continue(<<"poll">> \o Tail(todo))
    /\ UNCHANGED <<clusterVars, crd, crdStacks, apiStacks, backup, workloads,
                   cmd, listed, known, budget>>

\* At most 60 polls, then it goes on all the same.
Poll ==
    /\ At("poll")
    /\ Proceed
    /\ UNCHANGED <<clusterVars, stackVars, cmd, listed, known, budget>>

createBackupCrd ==
    /\ At("createBackupCrd")
    /\ IF backupCrd = "absent" THEN backupCrd' = "present" /\ Proceed
       ELSE Abort /\ UNCHANGED backupCrd
    /\ UNCHANGED <<clusterVars, crd, crdStacks, apiStacks, backup, workloads,
                   cmd, listed, known, budget>>

copyStackToBackupCrd(s) ==
    /\ Each("copy") /\ s \in listed
    /\ listed' = listed \ {s}
    /\ backup' = backup \cup {s}
    /\ UNCHANGED <<clusterVars, crd, crdStacks, apiStacks, backupCrd, workloads,
                   cmd, todo, result, undisturbed, known, budget>>

RestoreFails_Swallowed ==
    IF cmd.name = "update"
    THEN todo' = <<"doControllerOnly">> /\ UNCHANGED <<result, undisturbed>>
    ELSE Abort
\* Update installs the controller also when Restore has failed.
RestoreFails ==
    IF cmd.name = "update"
    THEN todo' = <<"doControllerOnly">> /\ result' = "failing" /\ undisturbed' = FALSE
    ELSE Abort

ListBackup ==
    /\ At("listBackup")
    /\ IF backupCrd = "absent" THEN RestoreFails /\ UNCHANGED listed
       ELSE listed' = backup /\ Proceed
    /\ UNCHANGED <<clusterVars, stackVars, cmd, known, budget>>

\* A stack that exists is only reported.
restoreStack(s) ==
    /\ Each("restore") /\ s \in listed
    /\ IF ~CanCreate
       THEN RestoreFails /\ UNCHANGED <<listed, apiStacks, crdStacks>>
       ELSE /\ listed' = listed \ {s}
            /\ SetServed(Served \cup {s})
            /\ UNCHANGED <<todo, result, undisturbed>>
    /\ UNCHANGED <<clusterVars, crd, backupCrd, backup, workloads, cmd, known, budget>>

DeleteBackup ==
    /\ At("deleteBackup")
    /\ backupCrd' = IF backupCrd = "present" THEN "terminating" ELSE backupCrd
    /\ Proceed
    /\ UNCHANGED <<clusterVars, crd, crdStacks, apiStacks, backup, workloads,
                   cmd, listed, known, budget>>

-----------------------------------------------------------------------------
(* The cluster, the users and what goes wrong. *)

StartPod ==
    /\ apiPod = "none"
    /\ deployment["compose-api"] # None /\ ~deployment["compose-api"].terminating
    /\ \A secret \in deployment["compose-api"].mounts : object[secret] # "absent"
    /\ apiPod' = "starting"
    /\ UNCHANGED <<deployment, object, apiService, hostVars, stackVars, cmd, todo, listed, result, undisturbed, known, budget>>

\* registerAggregatedAPIs, a post-start hook of the API server: it also runs
\* in a pod whose deployment is being deleted.
registerAggregatedAPIs ==
    /\ apiPod = "starting"
    /\ apiPod' = "running" /\ apiService' = TRUE
    /\ UNCHANGED <<deployment, object, hostVars, stackVars, cmd, todo, listed, result, undisturbed, known, budget>>

\* The etcd of an unsafe installation is a container of the pod.
StopPod ==
    /\ apiPod # "none" /\ Leaving
    /\ apiPod' = "none"
    /\ apiStacks' = IF deployment["compose-api"].externalEtcd THEN apiStacks ELSE {}
    /\ UNCHANGED <<deployment, object, apiService, hostVars, crd, crdStacks, backupCrd, backup, workloads,
                   cmd, todo, listed, result, undisturbed, known, budget>>

CollectDeployment(d) ==
    /\ deployment[d] # None /\ deployment[d].terminating
    /\ d = "compose-api" => apiPod = "none"
    /\ deployment' = [deployment EXCEPT ![d] = None]
    /\ UNCHANGED <<object, apiPod, apiService, hostVars, stackVars, cmd, todo, listed, result, undisturbed, known, budget>>

CollectStray ==
    /\ stray
    /\ stray' = FALSE
    /\ UNCHANGED <<deployment, object, apiPod, apiService, kubeVersion, stackVars, cmd, todo, listed,
                   result, undisturbed, known, budget>>

CollectObject(o) ==
    /\ object[o] = "terminating"
    /\ object' = [object EXCEPT ![o] = "absent"]
    /\ UNCHANGED <<deployment, apiPod, apiService, hostVars, stackVars, cmd, todo, listed, result, undisturbed, known, budget>>

\* A definition goes away with its objects, and these with their dependents.
CollectCRD ==
    /\ crd = "terminating"
    /\ crd' = "absent" /\ crdStacks' = {}
    /\ workloads' = workloads \ crdStacks
    /\ UNCHANGED <<clusterVars, apiStacks, backupCrd, backup, cmd, todo, listed, result, undisturbed, known, budget>>

CollectBackup ==
    /\ backupCrd = "terminating"
    /\ backupCrd' = "absent" /\ backup' = {}
    /\ UNCHANGED <<clusterVars, crd, crdStacks, apiStacks, workloads, cmd, todo, listed, result, undisturbed, known, budget>>

\* A user creates a stack; a controller, if there is one, runs its workloads.
CreateStack(s) ==
    /\ CanCreate /\ s \notin known \cup Served
    /\ Spend("creates")
    /\ SetServed(Served \cup {s})
    /\ workloads' = IF deployment["compose"] = None THEN workloads ELSE workloads \cup {s}
    /\ UNCHANGED <<clusterVars, crd, backupCrd, backup, cmd, todo, listed, result, undisturbed, known>>

\* The installer's process dies, or a call fails and the command with it.
Interrupt ==
    /\ todo # <<>>
    /\ Spend("interruptions")
    /\ Abort
    /\ UNCHANGED <<clusterVars, stackVars, cmd, listed, known>>

\* The waiters at the head of the program, all of them.
Waits ==
    {n \in 1 .. Len(todo) : /\ \A i \in 1 .. n : IsWait(todo[i])
                            /\ n < Len(todo) => ~IsWait(todo[n + 1])}

\* The two commands that preserve the stacks ignore the error of their waits.
IgnoresWaits == Ahead("doWithoutController") \/ cmd.name = "uninstallAPIServer"

\* A call fails and the command goes on: after the waits, which the first
\* waiter that fails ends, or with the rest of Update.
Fail ==
    /\ todo # <<>>
    /\ Spend("failures")
    /\ \/ /\ IsWait(Head(todo)) /\ IgnoresWaits
          /\ \E n \in Waits : /\ todo' = SubSeq(todo, n + 1, Len(todo))
                             /\ result' = IF n = Len(todo) THEN "done" ELSE result
          /\ undisturbed' = FALSE
       \/ Head(todo) \in {"listBackup", "restore"} /\ RestoreFails
    /\ UNCHANGED <<clusterVars, stackVars, cmd, listed, known>>

Step ==
    \/ Do \/ IsRunning
    \/ createServiceAccount \/ createClusterRoleBindings \/ createEtcdSecret \/ createNetworkSecret
    \/ createAPIServer \/ createAPIServerService \/ createDebugService
    \/ createController \/ createDefaultClusterRoles
    \/ DeleteController \/ uninstallApps \/ deleteCRD \/ uninstallRbac \/ deleteAPIServices \/ uninstallCore
    \/ Wait \/ WaitForNoStacks \/ GetCRD \/ ListStacks \/ EndOfLoop
    \/ DryRun \/ GetBackupCrd \/ Poll \/ createBackupCrd \/ ListBackup \/ DeleteBackup
    \/ \E s \in Stacks : orphanStack(s) \/ copyStackToBackupCrd(s) \/ restoreStack(s)

Cluster ==
    \/ StartPod \/ registerAggregatedAPIs \/ StopPod \/ CollectStray
    \/ \E d \in Names : CollectDeployment(d)
    \/ \E o \in Objects : CollectObject(o)
    \/ CollectCRD \/ CollectBackup

Next ==
    \/ \E f \in CommandLines : StartInstall(f)
    \/ \E o \in Embedded : StartDo(o)
    \/ \E tag \in UpdateTags :
           StartDebugInstall(tag) \/ \E abort \in BOOLEAN : StartUpdate(tag, abort)
    \/ StartUninstall \/ StartUninstallAPIServer \/ StartRestore \/ StartDeleteBackup
    \/ Step
    \/ Cluster
    \/ \E s \in Stacks : CreateStack(s)
    \/ Interrupt \/ Fail

Spec == Init /\ [][Next]_vars
\* As long as the process can go on with its command, or the cluster with its
\* own work, one of them does.
FairSpec == Spec /\ WF_vars(Step \/ Cluster)

-----------------------------------------------------------------------------
\* Update never leaves a stack without a copy: wherever the process dies or a
\* call fails, a stack that was there when the backup was taken is in the
\* definition, in the API server or in the backup (Update, Backup, Restore).
StacksKept == known \subseteq crdStacks \cup apiStacks \cup backup

\* What a command preserves.  UninstallComposeAPIServer does not wait for the
\* controller it deletes, so its promise starts when that one is gone.
Preserved ==
    CASE cmd.name # "uninstallAPIServer" -> known \cap workloads
      [] cmd.name = "uninstallAPIServer" /\ ~stray -> workloads \ crdStacks
      [] OTHER -> {}

\* Unless it ignores a call that fails, no command removes the workloads of a stack it
\* is to preserve: the controller is gone before the stacks are orphaned, and
\* the definition is removed once it is empty (UninstallComposeCRD and
\* UninstallComposeAPIServer, "preserving running stacks").
WorkloadsKept == [][budget.failures = MaxFailures => Preserved \subseteq workloads']_vars

\* An Update that reports no error has restored every stack it backed up, and
\* the new API server serves them (Update, "restoring the stacks").
UpdateRestores ==
    cmd.name = "update" /\ result = "done" => known \subseteq apiStacks /\ apiPod = "running"

Created ==
    {"rbac", "service", "serviceAccount", "defaultRoles"}
    \cup (IF installer.debug THEN {"debugAPIServer", "debugController"} ELSE {})

\* A command that installs and has not been disturbed, nor one before it,
\* leaves the two deployments its options ask for (images, certificate, etcd of
\* its own or not, and what they mount), and everything they need: what the
\* command keeps is what it would have built, where TagsTell holds, and what it
\* replaces is gone before the first of its objects is created (install, match,
\* WaitForUninstallCompletion).
InstallComplete ==
    /\ cmd.name \in {"install", "update"} /\ result = "done"
    /\ undisturbed
    => /\ deployment["compose"] = Controller(installer)
       /\ deployment["compose-api"] = APIServer(installer)
       /\ \A o \in Created \cup APIServer(installer).mounts : object[o] = "present"

\* An uninstallation that reports no error has removed the deployments and
\* every labelled object, whatever was interrupted before (Uninstall,
\* WaitForUninstallCompletion).
UninstallComplete ==
    cmd.name = "uninstall" /\ result = "done" =>
        /\ \A d \in Names : deployment[d] = None
        /\ \A o \in Labelled : object[o] = "absent"

\* Every command ends.  One thing can hold it up: a stack a user created after
\* orphanAllStacks had made its list, which it waits for and does not delete.
CommandsEnd ==
    todo # <<>> ~> todo = <<>> \/ (At("waitForNoStacks") /\ Served # {})
=============================================================================
