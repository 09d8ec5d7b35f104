------------------------------ MODULE Convert -------------------------------
(***************************************************************************)
(* From a stack to Kubernetes objects (internal/convert): every service    *)
(* becomes a workload (a deployment, a stateful set or a daemon set) and   *)
(* up to three Kubernetes services.  The conversion starts from a copy of  *)
(* the object that exists, if there is one, and overwrites what the stack  *)
(* says, so that what admission plugins added is kept.                     *)
(*                                                                         *)
(* A list the code sorts before use is modelled by the set or the map it   *)
(* holds (variables, host aliases).  The requirements on node labels come  *)
(* from a range over a map and are not sorted: `order` is the order that   *)
(* this range happens to take.                                             *)
(***************************************************************************)
EXTENDS ComposeTypes, SequencesExt

CONSTANT Names      \* the names of services, in alphabetical order

\* int32(v): the low 32 bits, as a signed number.
toInt32(v) ==
    LET low == v % Word
    IN  IF low >= Word \div 2 THEN low - Word ELSE low

Zero(v, default) == IF v = None THEN default ELSE v
-----------------------------------------------------------------------------
(* placement.go *)

toRequirementOperator(sign) ==
    CASE sign = "==" -> "In"
      [] sign = "!=" -> "NotIn"
      [] sign = ">"  -> "Gt"
      [] sign = "<"  -> "Lt"
      [] OTHER       -> Failed

Requirement(key, constraint) ==
    [key |-> key, operator |-> toRequirementOperator(constraint.Operator),
     values |-> {constraint.Value}]

hasRequirement(requirements, key) == \E r \in ToSet(requirements) : r.key = key

\* Mutant: the default is added to what the stack says.
PlatformDefault_Always(requirements, key, value) ==
    <<[key |-> key, operator |-> "In", values |-> {<<value>>}]>>

\* A stack that does not constrain the platform runs on linux/amd64.
PlatformDefault(requirements, key, value) ==
    IF hasRequirement(requirements, key) THEN <<>>
    ELSE <<[key |-> key, operator |-> "In", values |-> {<<value>>}]>>

toNodeAffinity(constraints, order) ==
    LET Single(key, c) == IF c = None THEN <<>> ELSE <<Requirement(key, c)>>
        keys == SelectSeq(order, LAMBDA k : k \in DOMAIN constraints.MatchLabels)
        asked == IF constraints = None THEN <<>>
                 ELSE Single("os", constraints.OperatingSystem)
                      \o Single("arch", constraints.Architecture)
                      \o Single("hostname", constraints.Hostname)
                      \o [i \in DOMAIN keys |->
                            Requirement(keys[i], constraints.MatchLabels[keys[i]])]
    IN  IF \E r \in ToSet(asked) : r.operator = Failed THEN Failed
        ELSE asked \o PlatformDefault(asked, "os", "linux")
                   \o PlatformDefault(asked, "arch", "amd64")
-----------------------------------------------------------------------------
(* volumes.go and pvc.go *)

dockerSock == <<"var", "run", "docker.sock">>

hasPersistentVolumes(s) == \E v \in ToSet(s.Volumes) : v.Type = "volume"

or(v, default) == IF v \in {<<>>, <<".">>} THEN default ELSE v

toKey(file) == IF file = <<>> THEN "file" ELSE Last(file)

defaultMode(mode) == IF mode = None THEN None ELSE toInt32(mode)

volumeMount(name, path, readOnly, subPath) ==
    [name |-> name, path |-> path, readOnly |-> readOnly, subPath |-> subPath]

hostPathVolume(path) == [kind |-> "hostPath", at |-> path]
gitVolume(path) == [kind |-> "gitRepo", at |-> path]
emptyVolumeInMemory == [kind |-> "memory", at |-> <<>>]

\* The volume of a secret or of a config map, with the one file it projects.
fileVolume(kind, config, topLevel, subPath) ==
    LET file == IF config.Source \in DOMAIN topLevel
                THEN topLevel[config.Source].File ELSE <<>>
    IN  [kind |-> kind, at |-> <<config.Source>>, key |-> toKey(file),
         path |-> subPath, mode |-> defaultMode(config.Mode)]

\* The i-th mount of a service: its source, None for a claim of its own.
MountSpec(i, m) ==
    LET numbered == <<"mount", ToString(i)>>
        source ==
          CASE m.Source.at = dockerSock /\ m.Target = dockerSock
                                       -> hostPathVolume(<<"var", "run">>)
            [] m.Source.kind = "git"   -> gitVolume(m.Source.at)
            [] m.Type = "volume"       -> None
            [] m.Source.kind # "path"  -> Failed
            [] m.Source.at = <<>>      -> hostPathVolume(<<>>)
            [] OTHER                   -> hostPathVolume(Front(m.Source.at))
        claimed == source = None /\ m.Source.kind # "none"
        inParent == source # None /\ source # Failed /\ source.kind = "hostPath"
                    /\ m.Source.at # <<>>
    IN  [source |-> source,
         mount |-> volumeMount(IF claimed THEN m.Source.at ELSE numbered, m.Target,
                               m.ReadOnly,
                               IF inParent THEN <<Last(m.Source.at)>> ELSE <<>>)]

toVolumeSpecs(s, spec) ==
    LET Numbered(prefix, i) == <<prefix, ToString(i - 1)>>
        File(kind, prefix, i, config, topLevel, target) ==
          LET name == Numbered(prefix, i)
          IN  [source |-> fileVolume(kind, config, topLevel, name),
               mount |-> volumeMount(name, target, TRUE, name)]
        specs ==
          [i \in DOMAIN s.Volumes |-> MountSpec(i - 1, s.Volumes[i])]
          \o [i \in DOMAIN s.Tmpfs |->
                [source |-> emptyVolumeInMemory,
                 mount |-> volumeMount(Numbered("tmp", i), s.Tmpfs[i], FALSE, <<>>)]]
          \o [i \in DOMAIN s.Secrets |->
                File("secret", "secret", i, s.Secrets[i], spec.Secrets,
                     <<"run", "secrets">>
                       \o or(s.Secrets[i].Target, <<s.Secrets[i].Source>>))]
          \o [i \in DOMAIN s.Configs |->
                File("configMap", "config", i, s.Configs[i], spec.Configs,
                     or(s.Configs[i].Target, <<s.Configs[i].Source>>))]
    IN  IF \E v \in ToSet(specs) : v.source = Failed THEN Failed ELSE specs

toVolumeMounts(specs) == [i \in DOMAIN specs |-> specs[i].mount]

toVolumes(specs) ==
    LET own == SelectSeq(specs, LAMBDA v : v.source # None)
    IN  [i \in DOMAIN own |-> [name |-> own[i].mount.name, source |-> own[i].source]]

\* Claims are annotated with the deploy labels of the service.
toPersistentVolumeClaims(s) ==
    LET Name(i) == IF s.Volumes[i].Source.kind = "none"
                   THEN <<"mount", ToString(i - 1)>> ELSE s.Volumes[i].Source.at
        claimed == SelectSeq([i \in DOMAIN s.Volumes |-> i],
                             LAMBDA i : s.Volumes[i].Type = "volume")
    IN  [j \in DOMAIN claimed |->
           [name |-> Name(claimed[j]), annotations |-> s.Deploy.Labels]]
-----------------------------------------------------------------------------
(* pod.go and duration.go *)

toImagePullPolicy(image, policy) ==
    CASE policy = None -> IF image.tag = "latest" /\ image.digest = None
                          THEN "Always" ELSE "IfNotPresent"
      [] policy \in {"Always", "IfNotPresent", "Never"} -> policy
      [] OTHER -> Failed

\* The last entry of a host name wins; hosts are grouped by address.
toHostAliases(extraHosts) ==
    LET hosts == {e[1] : e \in ToSet(extraHosts)}
        byHostnames == [h \in hosts |->
            extraHosts[SelectLastInSeq(extraHosts, LAMBDA e : e[1] = h)][2]]
    IN  IF \E e \in ToSet(extraHosts) : Len(e) # 2 THEN Failed
        ELSE [ip \in Range(byHostnames) |-> {h \in hosts : byHostnames[h] = ip}]

toHostPID(pid) == pid = "host"
toHostIPC(ipc) == ipc = "host"

toTerminationGracePeriodSeconds(duration, original) ==
    IF duration = None THEN original ELSE duration \div 1000

toSecondsOrDefault(duration, default) ==
    IF duration = None THEN default ELSE toInt32(duration \div 1000)

toLivenessProbe(hc) ==
    IF hc = None THEN None
    ELSE IF hc.Test = <<>> \/ Head(hc.Test) = "NONE" THEN None
    ELSE [timeout |-> toSecondsOrDefault(hc.Timeout, 1),
          period |-> toSecondsOrDefault(hc.Interval, 1),
          failures |-> toInt32(Zero(hc.Retries, 3)),
          command |-> (IF Head(hc.Test) = "CMD-SHELL" THEN <<"sh", "-c">> ELSE <<>>)
                      \o Tail(hc.Test)]

toEnv(env) == IF \E k \in DOMAIN env : env[k] = None THEN Failed ELSE env

toProtocol(value) == IF value = "udp" THEN "UDP" ELSE "TCP"

toPorts(list) ==
    [i \in DOMAIN list |-> [port |-> toInt32(list[i].Target),
                            protocol |-> toProtocol(list[i].Protocol)]]

toRestartPolicy(s, original) ==
    LET policy == s.Deploy.RestartPolicy
    IN  IF policy = None THEN original
        ELSE CASE policy.Condition = "any"        -> "Always"
               [] policy.Condition = "none"       -> "Never"
               [] policy.Condition = "on-failure" -> "OnFailure"
               [] OTHER                           -> Failed

\* resource.ParseQuantity, of the API machinery.
ParseQuantity(q) == IF q = "malformed" THEN Failed ELSE q

toResource(res) ==
    LET cpu == IF res.NanoCPUs = None THEN None ELSE ParseQuantity(res.NanoCPUs)
        memory == IF res.MemoryBytes = 0 THEN None ELSE res.MemoryBytes
    IN  IF res = None THEN None
        ELSE IF cpu = Failed THEN Failed ELSE [cpu |-> cpu, memory |-> memory]

toBoolPointer(value) == IF value THEN TRUE ELSE None

toSecurityContext(s) ==
    LET capabilities == IF s.CapAdd = <<>> /\ s.CapDrop = <<>> THEN None
                        ELSE [add |-> s.CapAdd, drop |-> s.CapDrop]
        context == [user |-> s.User, privileged |-> toBoolPointer(s.Privileged),
                    readOnly |-> toBoolPointer(s.ReadOnly), capabilities |-> capabilities]
    IN  IF \A f \in DOMAIN context : context[f] = None THEN None ELSE context

\* What a container, a template and a workload are before anything is set.
NoContainer ==
    [name |-> <<>>, image |-> [name |-> "", tag |-> "", digest |-> None],
     pullPolicy |-> None, plain |-> None, ports |-> <<>>, probe |-> None, env |-> <<>>,
     mounts |-> <<>>, security |-> None, limits |-> None, requests |-> None, extra |-> {}]

NoTemplate ==
    [labels |-> <<>>, plain |-> None, restart |-> None, volumes |-> <<>>,
     hostPID |-> FALSE, hostIPC |-> FALSE, grace |-> None, aliases |-> <<>>,
     affinity |-> None, containers |-> <<>>, pullSecrets |-> <<>>, tolerations |-> {}]

\* Mutant: the first container, whoever added it.
containerIX_First(name, containers) == 1

\* The index of the service's own container: by its name, else the first.
containerIX(name, containers) ==
    LET ix == SelectInSeq(containers, LAMBDA c : c.name = name)
    IN  IF ix = 0 THEN 1 ELSE ix

\* The fields of the container that the conversion does not write (`extra`) stay
\* as an admission plugin left them.  Those it does write, the environment, the
\* mounts, the resources and the security context among them, are replaced.
MainContainer(s, original, parts) ==
    [name |-> s.Name, image |-> s.Image, pullPolicy |-> parts.pullPolicy, plain |-> s.Plain,
     ports |-> toPorts(s.Ports), probe |-> toLivenessProbe(s.HealthCheck), env |-> parts.env,
     mounts |-> toVolumeMounts(parts.specs), security |-> toSecurityContext(s),
     limits |-> parts.limits, requests |-> parts.requests, extra |-> original.extra]

\* Mutant: the pull secret is added on every pass.
toPullSecrets_NoCheck(s, original) ==
    IF s.PullSecret = None THEN original ELSE Append(original, s.PullSecret)

\* A pull secret is added to those that are there.
toPullSecrets(s, original) ==
    IF s.PullSecret = None \/ Contains(original, s.PullSecret) THEN original
    ELSE Append(original, s.PullSecret)

\* The template from its parts, none of which may have failed.
PodTemplate(s, labels, original, containers, parts) ==
    IF \E part \in DOMAIN parts : parts[part] = Failed THEN Failed
    ELSE [original EXCEPT
            !.labels = labels, !.plain = s.Plain, !.restart = parts.restart,
            !.volumes = toVolumes(parts.specs),
            !.hostPID = toHostPID(s.Pid), !.hostIPC = toHostIPC(s.Ipc),
            !.grace = toTerminationGracePeriodSeconds(s.StopGracePeriod, @),
            !.aliases = parts.aliases, !.affinity = parts.affinity,
            !.containers = [containers EXCEPT ![containerIX(s.Name, containers)] =
                MainContainer(s, @, parts)],
            !.pullSecrets = toPullSecrets(s, @)]

toPodTemplate(s, labels, spec, original, order) ==
    PodTemplate(s, labels, original,
        IF original.containers = <<>> THEN <<NoContainer>> ELSE original.containers,
        [affinity |-> toNodeAffinity(s.Deploy.Placement.Constraints, order),
         aliases |-> toHostAliases(s.ExtraHosts), env |-> toEnv(s.Environment),
         restart |-> toRestartPolicy(s, original.restart),
         limits |-> toResource(s.Deploy.Resources.Limits),
         requests |-> toResource(s.Deploy.Resources.Reservations),
         specs |-> toVolumeSpecs(s, spec),
         pullPolicy |-> toImagePullPolicy(s.Image, s.PullPolicy)])

forceRestartPolicy(template, policy) ==
    IF template.restart = None THEN template ELSE [template EXCEPT !.restart = policy]
-----------------------------------------------------------------------------
(* deployment.go, stateful-set.go and daemon-set.go *)

NoWorkload == [labels |-> <<>>, selector |-> <<>>, replicas |-> None, strategy |-> None,
               claims |-> <<>>, template |-> NoTemplate]

isGlobal(s) == s.Deploy.Mode = "global"

toReplicas(replicas) == IF replicas = None THEN 1 ELSE toInt32(replicas)

\* Without a parallelism the strategy stays as it is.  A deployment takes it
\* for the pods that may be unavailable, a stateful set for the partition.
toStrategy(config, original, New(_)) ==
    IF config = None THEN original
    ELSE IF config.Parallelism = None THEN original
    ELSE New(toInt32(config.Parallelism))

toDeploymentStrategy(s, original) ==
    toStrategy(s.Deploy.UpdateConfig, original, LAMBDA n : [maxUnavailable |-> n])

toStatefulSetUpdateStrategy(s, original) ==
    toStrategy(s.Deploy.UpdateConfig, original, LAMBDA n : [partition |-> n])

toDaemonSet(labels, selector, template, original) ==
    [original EXCEPT !.labels = labels, !.template = template, !.selector = selector]

toDeployment(s, labels, selector, template, original) ==
    [original EXCEPT !.labels = labels, !.replicas = toReplicas(s.Deploy.Replicas),
        !.template = forceRestartPolicy(template, "Always"),
        !.strategy = toDeploymentStrategy(s, @), !.selector = selector]

toStatefulSet(s, labels, selector, template, original) ==
    [original EXCEPT !.labels = labels, !.replicas = toReplicas(s.Deploy.Replicas),
        !.template = forceRestartPolicy(template, "Always"),
        !.strategy = toStatefulSetUpdateStrategy(s, @),
        !.claims = toPersistentVolumeClaims(s), !.selector = selector]
-----------------------------------------------------------------------------
(* service.go *)

ClusterIPNone == -1     \* a headless service; 0 is an address not yet assigned

NoService == [labels |-> <<>>, selector |-> <<>>, type |-> None, clusterIP |-> 0,
              ports |-> <<>>]

headlessPort == 55555

ServicePort(name, port, target, protocol, nodePort) ==
    [name |-> name, port |-> port, target |-> target, protocol |-> protocol,
     nodePort |-> nodePort]

\* The node port the existing port of that name has, 0 if there is none.
findPortOrDefault(ports, name) ==
    LET ix == SelectInSeq(ports, LAMBDA p : p.name = name)
    IN  IF ix = 0 THEN ServicePort(name, 0, 0, None, 0) ELSE ports[ix]

publishedServiceType(strategy) == strategy
randomServiceType == "NodePort"

\* Mutant: with node ports, a port that exists keeps the node port it has.
convertServicePort_KeepNodePort(strategy, source, originalPublished, originalRandom) ==
    LET proto == toProtocol(source.Protocol)
        p == IF source.Published # 0
             THEN findPortOrDefault(originalPublished, <<source.Published, proto>>)
             ELSE findPortOrDefault(originalRandom, <<source.Target, proto>>)
        q == [p EXCEPT !.protocol = proto, !.target = source.Target]
    IN  IF source.Published # 0 /\ strategy = "LoadBalancer"
        THEN [q EXCEPT !.port = toInt32(source.Published)]
        ELSE [q EXCEPT !.port = toInt32(source.Target),
                       !.nodePort = IF @ = 0 THEN toInt32(source.Published) ELSE @]

\* A published port is the port of a load balancer, or the node port itself.
convertServicePort(strategy, source, originalPublished, originalRandom) ==
    LET proto == toProtocol(source.Protocol)
        published == source.Published # 0
        p == IF published
             THEN findPortOrDefault(originalPublished, <<source.Published, proto>>)
             ELSE findPortOrDefault(originalRandom, <<source.Target, proto>>)
        q == [p EXCEPT !.protocol = proto, !.target = source.Target]
    IN  CASE ~published -> [q EXCEPT !.port = toInt32(source.Target)]
          [] published /\ strategy = "LoadBalancer" ->
                [q EXCEPT !.port = toInt32(source.Published)]
          [] published /\ strategy = "NodePort" ->
                [q EXCEPT !.port = toInt32(source.Target),
                          !.nodePort = toInt32(source.Published)]

toInternalService(labels, selector, original, internalPorts, internalServiceType) ==
    LET useHeadless == \/ internalServiceType = "Headless"
                       \/ internalServiceType = "" /\ internalPorts = <<>>
        port == ServicePort(<<headlessPort, "headless">>, headlessPort, headlessPort,
                            "TCP", 0)
    IN  [original EXCEPT
           !.labels = labels, !.selector = selector,
           !.clusterIP = IF useHeadless THEN ClusterIPNone
                         ELSE IF @ = ClusterIPNone THEN 0 ELSE @,
           !.ports = IF useHeadless THEN <<port>>
                     ELSE [i \in DOMAIN internalPorts |->
                            LET p == internalPorts[i]
                            IN  ServicePort(<<p.Port, p.Protocol>>, p.Port, p.Port,
                                            p.Protocol, 0)]]

toExposedService(labels, ports, type, selector, original) ==
    [original EXCEPT !.labels = labels, !.type = type, !.selector = selector,
                     !.ports = ports]

\* The keys of objects: their kind and their name.
Key(kind, name) == <<kind, name>>
publishedObjectMeta(name) == Append(name, "published")
randomPortsObjectMeta(name) == Append(name, "random-ports")

Original(original, key, zero) == IF key \in DOMAIN original THEN original[key] ELSE zero

\* The internal service and, if it has ports, the published one and the one on
\* random ports, as a map from keys to objects.
toServices(s, labels, selector, strategy, original) ==
    LET hl == Key("service", s.Name)
        publishedKey == Key("service", publishedObjectMeta(s.Name))
        randomKey == Key("service", randomPortsObjectMeta(s.Name))
        originalPublished == Original(original, publishedKey, NoService)
        originalRandom == Original(original, randomKey, NoService)
        Converted(ports) == [i \in DOMAIN ports |->
            convertServicePort(strategy, ports[i], originalPublished.ports,
                               originalRandom.ports)]
        publishedPorts == Converted(SelectSeq(s.Ports, LAMBDA p : p.Published # 0))
        randomPorts == Converted(SelectSeq(s.Ports, LAMBDA p : p.Published = 0))
        Exposed(key, ports, type, orig) ==
          IF ports = <<>> THEN <<>>
          ELSE key :> toExposedService(labels, ports, type, selector, orig)
    IN  (hl :> toInternalService(labels, selector, Original(original, hl, NoService),
                                 s.InternalPorts, s.InternalServiceType))
        @@ Exposed(publishedKey, publishedPorts, publishedServiceType(strategy),
                   originalPublished)
        @@ Exposed(randomKey, randomPorts, randomServiceType, originalRandom)
-----------------------------------------------------------------------------
(* stack.go *)

ForService(name) == [service |-> name, stack |-> <<"stack">>]

mergeLabels(labels, more) == more @@ labels

KindOf(s) == IF isGlobal(s) THEN "daemonset"
             ELSE IF hasPersistentVolumes(s) THEN "statefulset" ELSE "deployment"

toWorkload(s, labels, selector, template, orig) ==
    CASE KindOf(s) = "daemonset"   -> toDaemonSet(labels, selector, template, orig)
      [] KindOf(s) = "statefulset" -> toStatefulSet(s, labels, selector, template, orig)
      [] KindOf(s) = "deployment"  -> toDeployment(s, labels, selector, template, orig)

\* The objects of a service, given its services and its template.  `skipped`: the
\* workloads of a clean stack whose generation is the expected one.
ServiceResources(s, labels, selector, key, orig, skipped, services, template) ==
    CASE isGlobal(s) /\ hasPersistentVolumes(s)   -> Failed
      [] key \in skipped                          -> services @@ (key :> orig)
      [] key \notin skipped /\ template = Failed  -> Failed
      [] OTHER ->
            services @@ (key :> toWorkload(s, labels, selector, template, orig))

toStackResources(s, spec, strategy, original, skipped, order) ==
    LET selector == ForService(s.Name)
        labels == mergeLabels(selector, s.Deploy.Labels)
        key == Key(KindOf(s), s.Name)
        orig == Original(original, key, NoWorkload)
    IN  ServiceResources(s, labels, selector, key, orig, skipped,
            toServices(s, labels, selector, strategy, original),
            toPodTemplate(s, labels, spec, orig.template, order))

SortedByName(services) ==
    FlattenSeq([i \in DOMAIN Names |->
                  SelectSeq(services, LAMBDA s : s.Name = Names[i])])

\* Objects of later services replace those of the same name of earlier ones; a
\* service that fails fails the stack.
NewStackState(resources) ==
    IF Contains(resources, Failed) THEN Failed
    ELSE FoldLeft(LAMBDA state, r : r @@ state, <<>>, resources)

StackToStack(spec, strategy, original, skipped, order) ==
    LET services == SortedByName(spec.Services)
    IN  IF spec.Services = <<>> THEN Failed
        ELSE NewStackState([i \in DOMAIN services |->
                toStackResources(services[i], spec, strategy, original, skipped, order)])
=============================================================================
