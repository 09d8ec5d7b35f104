--------------------------- MODULE StackPipeline ----------------------------
(***************************************************************************)
(* A stack from what its users write to the objects in the cluster: users  *)
(* write it as a compose file, through v1beta2 or through v1alpha3; the    *)
(* controller converts what is stored, compares it with the objects that   *)
(* exist and makes the calls that differ, one after the other.  The API    *)
(* server fills in defaults, assigns addresses and node ports, lets        *)
(* admission plugins change what it stores, and refuses what is not valid. *)
(*                                                                         *)
(* The informers are up to date here, nobody else changes the objects, and *)
(* a retry follows a failed pass at some time: the module StackController  *)
(* is about those.                                                         *)
(***************************************************************************)
EXTENDS Convert, Versions, FiniteSets

CONSTANTS
    Scenarios,      \* what may happen, one scenario per behaviour
    NodePorts,      \* the range the API server assigns node ports from
    Nodes           \* the nodes of the cluster, as maps from labels to values

Plugins == {"front", "behind", "volume", "extra", "toleration", "pin"}
Strategies == {"LoadBalancer", "NodePort"}
Edits == {"nothing", "scale"}

\* What users may write, as a file, through v1alpha3 and through v1beta2, and how
\* often; what the admission plugins add; and the strategies the controller may
\* be started with.
ScenarioSet(scenarios) ==
    \A s \in scenarios :
        /\ \A f \in s.files : FromComposeConfig(f) \in StackSpec
        /\ s.specs \subseteq StackSpec
        /\ s.edits \subseteq Edits
        /\ s.writes \in Nat
        /\ s.plugins \subseteq Plugins
        /\ s.strategies \subseteq Strategies

ASSUME StackPipelineAssumption ==
    /\ ScenarioSet(Scenarios)
    /\ NodePorts \subseteq Nat \ {0}

Diff == INSTANCE StackDiff

VARIABLES
    scenario,   \* the scenario
    file,       \* the compose file the stack was last written as, or None
    spec,       \* the stored specification
    dirty,      \* the stack is pending or has failed
    strategy,   \* how the controller publishes ports
    base,       \* the pass: its specification and its strategy, whether the stack is
                \* still the same and whether no object has gone since; or None
    calls,      \* the calls left of the pass
    live,       \* the objects in the cluster
    deleting,   \* those that are being deleted in the foreground
    refused,    \* why the last call was refused, or None
    applied,    \* the specification and the strategy the objects are made from, or None
    writes      \* how many writes are left

vars == <<scenario, file, spec, dirty, strategy, base, calls, live, deleting, refused,
          applied, writes>>
-----------------------------------------------------------------------------
(* The API server *)

isWorkload(key) == key[1] # "service"

Without(f, keys) == [k \in DOMAIN f \ keys |-> f[k]]

\* A probe's zeroes, a restart policy, a grace period and a strategy that are
\* not set get defaults.
ProbeDefaults(probe) ==
    IF probe = None THEN None
    ELSE [probe EXCEPT !.timeout = IF @ = 0 THEN 1 ELSE @,
                       !.period = IF @ = 0 THEN 10 ELSE @,
                       !.failures = IF @ = 0 THEN 3 ELSE @]

WorkloadDefaults(w) ==
    [w EXCEPT
       !.strategy = Zero(@, [default |-> TRUE]),
       !.template.restart = Zero(@, "Always"),
       !.template.grace = Zero(@, 30),
       !.template.containers =
           [i \in DOMAIN @ |-> [@[i] EXCEPT !.probe = ProbeDefaults(@)]]]

Sidecar == [NoContainer EXCEPT !.name = <<"sidecar">>, !.image.name = "sidecar",
    !.mounts = IF "volume" \in scenario.plugins
               THEN <<volumeMount(<<"sidecar">>, <<"sidecar">>, FALSE, <<>>)>> ELSE <<>>]

\* Plugins add a container, in front or behind, its volume, something to the
\* service's container, a toleration, and the digest of a signed image.
Admitted(verb, key, w) ==
    LET ix == containerIX(key[2], w.template.containers)
        created(p) == p \in scenario.plugins /\ verb = "create"
        pinned == [w EXCEPT
            !.template.containers[ix].image.digest =
                IF "pin" \in scenario.plugins THEN Zero(@, "signed") ELSE @,
            !.template.containers[ix].extra =
                IF created("extra") THEN @ \cup {"extra"} ELSE @,
            !.template.tolerations =
                IF "toleration" \in scenario.plugins
                THEN @ \cup {[prefix |-> "com.docker.ucp."]} ELSE @]
    IN  [pinned EXCEPT
           !.template.containers = IF created("front") THEN <<Sidecar>> \o @
                                   ELSE IF created("behind") THEN Append(@, Sidecar)
                                   ELSE @,
           !.template.volumes =
               IF created("volume")
               THEN Append(@, [name |-> <<"sidecar">>, source |-> emptyVolumeInMemory])
               ELSE @]

UsedNodePorts(keys) ==
    UNION {{p.nodePort : p \in ToSet(live[k].ports)} :
             k \in {k \in keys : ~isWorkload(k)}}

UsedAddresses == {live[k].clusterIP : k \in {k \in DOMAIN live : ~isWorkload(k)}}

\* Addresses and node ports that are asked for with 0 are assigned.
Assigned(key, s) ==
    LET free == NodePorts \ (UsedNodePorts(DOMAIN live)
                              \cup {p.nodePort : p \in ToSet(s.ports)})
        choice == SetToSortSeq(free, <)
        Nth(i) == Cardinality({j \in 1..i : s.ports[j].nodePort = 0})
    IN  [s EXCEPT
           !.type = Zero(@, "ClusterIP"),
           !.clusterIP = IF @ # 0 THEN @
                         ELSE Min({a \in 1..(Cardinality(UsedAddresses) + 2) :
                                     a \notin UsedAddresses}),
           !.ports = [i \in DOMAIN @ |->
                        IF s.type \in Strategies /\ @[i].nodePort = 0
                        THEN [@[i] EXCEPT !.nodePort = choice[Nth(i)]] ELSE @[i]]]

Stored(verb, key, object) ==
    IF isWorkload(key) THEN Admitted(verb, key, WorkloadDefaults(object))
    ELSE Assigned(key, object)

\* Every container mounts volumes that the template or the claims provide.
Provided(w) == {v.name : v \in ToSet(w.template.volumes)} \cup {c.name : c \in ToSet(w.claims)}

BadMounts(w) ==
    {c.name : c \in {c \in ToSet(w.template.containers) :
                       \E m \in ToSet(c.mounts) : m.name \notin Provided(w)}}

\* Why the API server refuses a workload or a service.
WorkloadRefusals(verb, key, w) ==
    LET restart == Zero(w.template.restart, "Always")
        probes == {c.probe : c \in ToSet(w.template.containers)} \ {None}
    IN  {why \in {"Exists", "Missing", "Restart", "Replicas", "Selector", "Mounts", "Claims",
                  "Probe"} :
           CASE why = "Exists"   -> verb = "create" /\ key \in DOMAIN live
             [] why = "Missing"  -> verb = "update" /\ key \notin DOMAIN live
             [] why = "Restart"  -> restart # "Always"
             [] why = "Replicas" -> w.replicas # None /\ w.replicas < 0
             [] why = "Selector" -> \E l \in DOMAIN w.selector :
                                      w.template.labels[l] # w.selector[l]
             [] why = "Mounts"   -> BadMounts(w) # {}
             [] why = "Claims"   -> /\ verb = "update" /\ key \in DOMAIN live
                                    /\ live[key].claims # w.claims
             [] why = "Probe"    -> \E p \in probes : p.failures < 0}

ServiceRefusals(verb, key, s) ==
    LET asked == {p.nodePort : p \in ToSet(s.ports)} \ {0}
    IN  {why \in {"Exists", "Missing", "NoPorts", "Headless", "ClusterIP", "NodePort"} :
           CASE why = "Exists"    -> verb = "create" /\ key \in DOMAIN live
             [] why = "Missing"   -> verb = "update" /\ key \notin DOMAIN live
             [] why = "NoPorts"   -> s.ports = <<>> /\ s.clusterIP # ClusterIPNone
             [] why = "Headless"  -> s.clusterIP = ClusterIPNone /\ s.type \in Strategies
             [] why = "ClusterIP" -> /\ verb = "update" /\ key \in DOMAIN live
                                     /\ live[key].clusterIP # s.clusterIP
             [] why = "NodePort"  -> /\ s.type \in Strategies
                                     /\ \/ ~(asked \subseteq NodePorts)
                                        \/ asked \cap UsedNodePorts(DOMAIN live \ {key}) # {}}

Refusals(call) ==
    CASE call.verb = "delete"    -> {}
      [] call.verb # "delete" /\ isWorkload(call.key)  ->
            WorkloadRefusals(call.verb, call.key, call.object)
      [] call.verb # "delete" /\ ~isWorkload(call.key) ->
            ServiceRefusals(call.verb, call.key, call.object)

\* The garbage collector ends a deletion; the controller sees the object go.
Collect(key) ==
    /\ key \in deleting
    /\ live' = Without(live, {key})
    /\ deleting' = deleting \ {key}
    /\ base' = IF base = None THEN None ELSE [base EXCEPT !.all = FALSE]
    /\ applied' = None
    /\ UNCHANGED <<scenario, file, spec, dirty, strategy, calls, refused, writes>>
-----------------------------------------------------------------------------
(* Users *)

Init ==
    /\ scenario \in Scenarios
    /\ \/ \E f \in scenario.files : file = f /\ spec = FromComposeConfig(f)
       \/ file = None /\ spec \in scenario.specs
    /\ strategy \in scenario.strategies
    /\ dirty = TRUE
    /\ base = None /\ calls = {} /\ live = <<>> /\ deleting = {}
    /\ refused = None /\ applied = None
    /\ writes = scenario.writes

\* A stack whose specification or compose file changes becomes pending.
Written(f, new) ==
    LET same == f = file /\ new = spec
    IN  /\ writes > 0 /\ writes' = writes - 1
        /\ file' = f
        /\ spec' = new
        /\ dirty' = (dirty \/ ~same)
        /\ base' = IF base = None THEN None ELSE [base EXCEPT !.current = @ /\ same]
        /\ UNCHANGED <<scenario, strategy, calls, live, deleting, refused, applied>>

\* The compose file goes out of date if the structured stack changes.
setFieldsForV1beta2Update(new) == IF new = spec THEN file ELSE None

WriteFile == \E f \in scenario.files : Written(f, FromComposeConfig(f))

WriteV1alpha3 ==
    \E new \in scenario.specs : Written(setFieldsForV1beta2Update(new), new)

\* A client of v1beta2 reads the stack, edits it and writes it back.
Edited(view, edit) ==
    CASE edit = "nothing" -> view
      [] edit = "scale"   -> [view EXCEPT !.Services[1].Deploy.Replicas = 2]

WriteV1beta2 ==
    \E edit \in scenario.edits :
        LET new == stackToInternalV1beta2(Edited(stackFromInternalV1beta2(spec), edit))
        IN  Written(setFieldsForV1beta2Update(new), new)
-----------------------------------------------------------------------------
(* The controller *)

\* The orders a range over the constraints on node labels may take.
LabelOrders(services) ==
    SetToSeqs(UNION {DOMAIN s.Deploy.Placement.Constraints.MatchLabels :
        s \in {s \in ToSet(services) : s.Deploy.Placement.Constraints # None}})

\* If the conversion fails, so does the pass.
BeginPass(desired) ==
    IF desired = Failed
    THEN /\ refused' = [cause |-> {"Conversion"}, key |-> None]
         /\ dirty' = TRUE /\ applied' = None
         /\ UNCHANGED <<base, calls>>
    ELSE /\ calls' = Diff!ComputeDiff(live, desired)
         /\ base' = [spec |-> spec, strategy |-> strategy, current |-> TRUE, all |-> TRUE]
         /\ UNCHANGED <<refused, dirty, applied>>

\* A pass begins: the stack is converted, from the objects that exist.  A clean
\* stack may skip workloads.
ComputeChildren ==
    /\ base = None
    /\ \E skipped \in IF dirty THEN {{}} ELSE SUBSET {k \in DOMAIN live : isWorkload(k)},
          order \in LabelOrders(spec.Services) :
         BeginPass(StackToStack(spec, strategy, live, skipped, order))
    /\ UNCHANGED <<scenario, file, spec, strategy, live, deleting, writes>>

\* The order of the calls: by kind, and deletions before creations before updates.
Rank(call) ==
    LET kinds == <<"daemonset", "deployment", "statefulset", "service">>
        verbs == <<"delete", "create", "update">>
    IN  3 * (CHOOSE i \in 1..4 : kinds[i] = call.key[1])
          + (CHOOSE i \in 1..3 : verbs[i] = call.verb)

IsNext(call) == call \in calls /\ \A c \in calls : Rank(call) <= Rank(c)

ApplyCall(call) ==
    /\ base # None /\ IsNext(call) /\ Refusals(call) = {}
    /\ calls' = calls \ {call}
    /\ CASE call.verb = "delete" ->
              /\ deleting' = deleting \cup ({call.key} \cap DOMAIN live)
              /\ UNCHANGED live
         [] call.verb # "delete" ->
              /\ live' = (call.key :> Stored(call.verb, call.key, call.object)) @@ live
              /\ UNCHANGED deleting
    /\ applied' = IF live' = live /\ deleting' = deleting THEN applied ELSE None
    /\ UNCHANGED <<scenario, file, spec, dirty, strategy, base, refused, writes>>

\* The first call that is refused ends the pass, and the stack has failed.
RefuseCall(call) ==
    /\ base # None /\ IsNext(call) /\ Refusals(call) # {}
    /\ refused' = [cause |-> Refusals(call), key |-> call.key]
    /\ base' = None /\ calls' = {}
    /\ dirty' = TRUE /\ applied' = None
    /\ UNCHANGED <<scenario, file, spec, strategy, live, deleting, writes>>

\* The status is only updated if the stack is still the one of the pass.
EndPass ==
    /\ base # None /\ calls = {}
    /\ applied' = IF base.all THEN [spec |-> base.spec, strategy |-> base.strategy] ELSE None
    /\ base' = None /\ refused' = None
    /\ dirty' = (dirty /\ ~base.current)
    /\ UNCHANGED <<scenario, file, spec, strategy, calls, live, deleting, writes>>

\* The controller stops, perhaps in a pass, and starts again, perhaps with the
\* other strategy.
Restart ==
    /\ writes > 0 /\ writes' = writes - 1
    /\ strategy' \in scenario.strategies
    /\ base' = None /\ calls' = {}
    /\ UNCHANGED <<scenario, file, spec, dirty, live, deleting, refused, applied>>

Next ==
    \/ WriteFile \/ WriteV1alpha3 \/ WriteV1beta2
    \/ ComputeChildren \/ (\E call \in calls : ApplyCall(call) \/ RefuseCall(call))
    \/ EndPass \/ Restart
    \/ \E key \in deleting : Collect(key)

Spec == Init /\ [][Next]_vars
-----------------------------------------------------------------------------
(* Correctness *)

\* The stack was applied as it is, and nothing is still to be deleted.
Settled ==
    /\ base = None /\ deleting = {}
    /\ applied = [spec |-> spec, strategy |-> strategy]

\* No service has the name of what another one publishes.
NoCollision(services) ==
    \A s \in ToSet(services), t \in ToSet(services) :
        t.Name \notin {publishedObjectMeta(s.Name), randomPortsObjectMeta(s.Name)}

WorkloadOf(s) == live[Key(KindOf(s), s.Name)]
ContainerOf(s, w) == w.template.containers[containerIX(s.Name, w.template.containers)]

\* The part of a workload that its service alone determines.  The conversion
\* leaves alone what admission plugins add, a grace period and a strategy that
\* the service no longer sets, pull secrets of earlier versions, and a digest
\* that the image does not name.
Determined(s, w) ==
    LET c == ContainerOf(s, w)
    IN  [w EXCEPT
           !.strategy = IF toDeploymentStrategy(s, None) = None THEN None ELSE @,
           !.template.grace = IF s.StopGracePeriod = None THEN None ELSE @,
           !.template.pullSecrets = {s.PullSecret} \cap (ToSet(@) \cup {None}),
           !.template.tolerations = {},
           !.template.affinity = ToSet(@),
           !.template.volumes = ToSet(@) \ {v \in ToSet(@) : v.name = <<"sidecar">>},
           !.template.containers =
               [c EXCEPT !.extra = {},
                         !.image.digest = IF s.Image.digest = None THEN None ELSE @]]

DeterminedService(s) ==
    [s EXCEPT !.clusterIP = IF @ = ClusterIPNone THEN @ ELSE 0,
              !.ports = [i \in DOMAIN @ |-> [@[i] EXCEPT !.nodePort = 0]],
              !.type = Zero(@, "ClusterIP")]

SameObjects(fresh) ==
    /\ DOMAIN live = DOMAIN fresh
    /\ \A s \in ToSet(spec.Services) :
         LET key == Key(KindOf(s), s.Name)
         IN  Determined(s, live[key]) = Determined(s, WorkloadDefaults(fresh[key]))
    /\ \A k \in {k \in DOMAIN live : ~isWorkload(k)} :
         DeterminedService(live[k]) = DeterminedService(fresh[k])

\* The objects of a stack that was applied are those that its specification makes
\* from nothing, whatever the stack was before: no object is left over, and no
\* field but those above remembers an earlier specification (StackToStack starts
\* from the existing objects, ComputeDiff deletes what is no longer wanted).
HistoryFree ==
    LET order == CHOOSE o \in LabelOrders(spec.Services) : TRUE
    IN  Settled => SameObjects(StackToStack(spec, strategy, <<>>, {}, order))

\* A pass over a stack that was applied changes nothing, also if it converts all
\* workloads again (ComputeDiff after toPodTemplate, toServices).  Two cases are
\* not stable: the order of two or more constraints on node labels, and a volume
\* that a plugin added, which the conversion takes away.
SettledIsQuiet ==
    [][/\ Settled /\ base' # None
       /\ Cardinality(LabelOrders(spec.Services)) = 1 /\ "volume" \notin scenario.plugins
       => \A c \in calls' :
            /\ c.verb = "update" /\ Refusals(c) = {}
            /\ Stored(c.verb, c.key, c.object) = live[c.key]]_vars

\* An update keeps what others put where the conversion does not write:
\* containers beside the service's own, the other fields of its own container,
\* tolerations and pull secrets, the address of a service, and the node ports
\* that were assigned to its ports (containerIX, toPullSecrets,
\* findPortOrDefault, serviceRequiresReCreate).  Environment, mounts, resources
\* and security context are the conversion's own: what others add is replaced.
OthersKept ==
    [][\A k \in DOMAIN live \cap DOMAIN live' :
         IF isWorkload(k)
         THEN LET old == live[k].template
                  new == live'[k].template
                  Beside(t) == SelectSeq(t.containers, LAMBDA c : c.name # k[2])
              IN  /\ Beside(old) = Beside(new)
                  /\ old.containers[containerIX(k[2], old.containers)].extra
                       \subseteq new.containers[containerIX(k[2], new.containers)].extra
                  /\ old.tolerations \subseteq new.tolerations
                  /\ IsPrefix(old.pullSecrets, new.pullSecrets)
         ELSE /\ live[k].clusterIP = live'[k].clusterIP
              /\ \A p \in ToSet(live[k].ports), q \in ToSet(live'[k].ports) :
                   p.name = q.name => q.nodePort \in {p.nodePort, p.name[1]}]_vars

\* What in a service explains that a call is refused.
Huge(n) == n # None /\ n >= Word \div 2

Explains(s, why, call) ==
    CASE why = "Exists"   -> call.key \in deleting
      [] why = "Missing"  -> ~base.all
      [] why = "Restart"  -> isGlobal(s) /\ s.Deploy.RestartPolicy # None
      [] why = "Replicas" -> Huge(s.Deploy.Replicas)
      [] why = "Selector" -> {"service", "stack"} \cap DOMAIN s.Deploy.Labels # {}
      [] why = "Mounts"   -> /\ "volume" \in scenario.plugins
                             /\ BadMounts(call.object) = {<<"sidecar">>}
      [] why = "Claims"   -> live[call.key].claims # toPersistentVolumeClaims(s)
      [] why = "Probe"    -> s.HealthCheck # None /\ Huge(s.HealthCheck.Retries)
      [] why = "NoPorts"  -> s.InternalServiceType = "ClusterIP" /\ s.InternalPorts = <<>>
      [] why = "NodePort" -> \E p \in ToSet(s.Ports) : p.Published \in
                                 (1..Word \ NodePorts) \cup UsedNodePorts(DOMAIN live)
      [] why = "Headless" -> \E version \in scenario.specs : ~NoCollision(version.Services)
      [] OTHER            -> FALSE

\* A call is only refused for something the stack asks for, because an object is
\* still being deleted, because of a plugin, or because some version of the stack
\* has a service with the name of what another one publishes: an address is never changed
\* (serviceRequiresReCreate), a service's own mounts always have their volumes
\* (toVolumes, toPersistentVolumeClaims), its selector always selects its pods.
RefusedExplained ==
    [][\A call \in calls : RefuseCall(call) =>
         \A why \in Refusals(call) :
            \E s \in ToSet(base.spec.Services) :
               IsPrefix(s.Name, call.key[2]) /\ Explains(s, why, call)]_vars

\* A node and the constraints of a compose file: those that the expression reads
\* as they were written, none of them twice.
NodeKey(text) ==
    CASE text.key[1].prefix = swarmOs -> "os"
      [] text.key[1].prefix = swarmArch -> "arch"
      [] text.key[1].prefix = swarmHostname -> "hostname"
      [] text.key[1].prefix = swarmLabelPrefix -> text.key[1].rest

Understood(texts) ==
    /\ \A t \in ToSet(texts) :
         /\ Len(t.key) = 1 /\ Len(t.value) = 1
         /\ t.key[1].prefix # "" /\ t.operator # ""
    /\ \A i, j \in DOMAIN texts : NodeKey(texts[i]) = NodeKey(texts[j]) => i = j

Meets(node, text) ==
    IF text.operator = "==" THEN node[NodeKey(text)] = text.value
    ELSE node[NodeKey(text)] # text.value

Schedulable(node, affinity) ==
    \A r \in ToSet(affinity) :
        IF r.operator = "In" THEN node[r.key] \in r.values ELSE node[r.key] \notin r.values

\* The pods of a service of a compose file may run on the nodes that meet its
\* constraints, on linux and on amd64 unless it says otherwise, and on no others
\* (fromComposeConstraints, toNodeAffinity).
PlacementAsWritten ==
    Settled /\ file # None =>
        \A i \in DOMAIN file.Services :
            LET texts == file.Services[i].Deploy.Placement.Constraints
                given == {NodeKey(t) : t \in ToSet(texts)}
            IN  Understood(texts) =>
                  \A n \in Nodes :
                     Schedulable(n, WorkloadOf(spec.Services[i]).template.affinity)
                     <=> /\ \A t \in ToSet(texts) : Meets(n, t)
                         /\ "os" \in given \/ n["os"] = <<"linux">>
                         /\ "arch" \in given \/ n["arch"] = <<"amd64">>

\* What a path in a container shows: a claim, or a place in a volume.
Shown(s, w, path) ==
    {IF \E c \in ToSet(w.claims) : c.name = m.name THEN [claim |-> m.name]
     ELSE LET v == (CHOOSE v \in ToSet(w.template.volumes) : v.name = m.name).source
          IN  CASE v.kind = "hostPath" -> [host |-> v.at \o m.subPath]
                [] v.kind \in {"secret", "configMap"} ->
                     [kind |-> v.kind, of |-> v.at, whole |-> v.path = m.subPath]
                [] OTHER -> v :
       m \in {m \in ToSet(ContainerOf(s, w).mounts) : m.path = path}}

\* A port is reachable the way the strategy publishes it; one without a number of
\* its own has a node port.
PortPublished(s, p) ==
    LET At(name) == live[Key("service", name)]
        Is(q) == q.target = p.Target /\ q.protocol = toProtocol(p.Protocol)
    IN  IF p.Published = 0
        THEN \E q \in ToSet(At(randomPortsObjectMeta(s.Name)).ports) :
                Is(q) /\ q.port = p.Target /\ q.nodePort \in NodePorts
        ELSE /\ At(publishedObjectMeta(s.Name)).type = strategy
             /\ \E q \in ToSet(At(publishedObjectMeta(s.Name)).ports) :
                  /\ Is(q)
                  /\ p.Published = IF strategy = "NodePort" THEN q.nodePort ELSE q.port

\* Once a stack was applied its services are as it says: every port is reachable,
\* every service selects its pods, and every volume, secret, config and tmpfs is
\* mounted where the stack says, from where it says (toServices, toVolumeSpecs).
ReachableAsWritten ==
    Settled /\ NoCollision(spec.Services) =>
        \A s \in ToSet(spec.Services) :
            LET w == WorkloadOf(s)
                File(kind, c) == {[kind |-> kind, of |-> <<c.Source>>, whole |-> TRUE]}
            IN  /\ \A p \in ToSet(s.Ports) : PortPublished(s, p)
                /\ \A k \in DOMAIN live :
                     ~isWorkload(k) /\ live[k].selector["service"] = s.Name =>
                        \A l \in DOMAIN live[k].selector :
                           live[k].selector[l] = w.template.labels[l]
                /\ \A m \in ToSet(s.Volumes) :
                     Shown(s, w, m.Target) =
                       CASE m.Source.kind = "git" -> {gitVolume(m.Source.at)}
                         [] m.Source.kind = "path" -> {[host |-> m.Source.at]}
                         [] m.Source.kind = "name" -> {[claim |-> m.Source.at]}
                         [] m.Source.kind = "none" ->
                              {[claim |-> c.name] :
                                 c \in {c \in ToSet(w.claims) : Head(c.name) = "mount"}}
                /\ \A t \in ToSet(s.Tmpfs) : Shown(s, w, t) = {emptyVolumeInMemory}
                /\ \A c \in ToSet(s.Configs) :
                     Shown(s, w, or(c.Target, <<c.Source>>)) = File("configMap", c)
                /\ \A c \in ToSet(s.Secrets) :
                     Shown(s, w, <<"run", "secrets">> \o or(c.Target, <<c.Source>>))
                       = File("secret", c)
=============================================================================
