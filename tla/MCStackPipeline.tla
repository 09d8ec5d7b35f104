-------------------------- MODULE MCStackPipeline ---------------------------
(***************************************************************************)
(* Scenarios for model checking StackPipeline: each is a few versions of a *)
(* small stack that differ in what one part of the conversion reads, so    *)
(* that every version follows every other one.                             *)
(***************************************************************************)
EXTENDS StackPipeline

MCStrings == STRING
MCWord == 65536
MCNames == <<<<"db">>, <<"web">>, <<"web", "published">>>>
MCNodePorts == 30001..30006

\* A service of a compose file with nothing but an image.
PlainDeploy ==
    [Mode |-> "replicated", Replicas |-> None, Labels |-> <<>>, UpdateConfig |-> None,
     Resources |-> [Limits |-> None, Reservations |-> None], RestartPolicy |-> None,
     Placement |-> [Constraints |-> <<>>]]

PlainService ==
    [Name |-> <<"web">>, Plain |-> "a", CapAdd |-> <<>>, CapDrop |-> <<>>,
     Configs |-> <<>>, Deploy |-> PlainDeploy, Environment |-> <<>>, ExtraHosts |-> <<>>,
     HealthCheck |-> None, Image |-> [name |-> "img", tag |-> "1", digest |-> None],
     Ipc |-> "", Pid |-> "", Ports |-> <<>>, Privileged |-> FALSE, ReadOnly |-> FALSE,
     Secrets |-> <<>>, StopGracePeriod |-> None, Tmpfs |-> <<>>, User |-> None,
     Volumes |-> <<>>]

\* Files and specifications of one service, and the second service.
Files(service) == [Services |-> <<service>>, Secrets |-> "a" :> [File |-> <<"f">>, External |-> FALSE],
                   Configs |-> "a" :> [File |-> <<>>, External |-> TRUE]]
Web == fromComposeServiceConfig(PlainService)
Db == [Web EXCEPT !.Name = <<"db">>]
Stack(services) == [Files(Web) EXCEPT !.Services = services]
One(change) == Stack(<<change @@ Web>>)
Deployed(change) == One([Deploy |-> change @@ Web.Deploy])
Scenario(specs) ==
    [files |-> {}, specs |-> specs, edits |-> {}, writes |-> 2, plugins |-> {},
     strategies |-> {"LoadBalancer"}]
-----------------------------------------------------------------------------
Host(h, ip) == <<h, ip>>
Check(test, timeout, interval, retries) ==
    [HealthCheck |-> [Test |-> test, Timeout |-> timeout, Interval |-> interval,
                      Retries |-> retries]]

\* What goes into a pod: hosts, variables, a health check, privileges.
Pods == Scenario({
    One([ExtraHosts |-> <<Host("h", "1"), Host("g", "1"), Host("h", "2")>>,
         Environment |-> "a" :> "1", Plain |-> "b"]),
    One([ExtraHosts |-> <<<<"h">>>>]),
    One([Environment |-> "a" :> None]),
    One(Check(<<"CMD-SHELL", "a">>, 1500, 500, MCWord \div 2)),
    One(Check(<<"CMD", "a">>, None, None, None)),
    One(Check(<<"NONE">>, None, None, 1)),
    One([CapAdd |-> <<"a">>, User |-> 1, Privileged |-> TRUE, Pid |-> "host",
         ReadOnly |-> TRUE, Ipc |-> "host"])})

\* What is left as it was when the stack does not say: the strategy, the grace
\* period, the restart policy of a global service; plugins add to the pod.
Kept == [Scenario({
    Deployed([UpdateConfig |-> [Parallelism |-> 2]]),
    One([StopGracePeriod |-> 1500, PullSecret |-> "a"]),
    One([PullSecret |-> "b"]),
    Deployed([Replicas |-> MCWord + 1, Labels |-> "a" :> <<"x">>,
              Resources |-> [Limits |-> [NanoCPUs |-> "1", MemoryBytes |-> 0],
                             Reservations |-> None]]),
    Deployed([Replicas |-> MCWord \div 2, RestartPolicy |-> [Condition |-> "none"]]),
    Deployed([Mode |-> "global", RestartPolicy |-> [Condition |-> "none"]]),
    Deployed([Mode |-> "global", RestartPolicy |-> [Condition |-> "any"]]),
    Deployed([Mode |-> "global"])})
    EXCEPT !.plugins = {"front", "extra", "toleration"}]

\* Images with and without a digest, and a plugin that pins them.
Img(tag, digest) == [Image |-> [name |-> "img", tag |-> tag, digest |-> digest]]
Images == [Scenario({One(Img("latest", None)), One(Img("latest", "signed")), One(Img("1", "other")),
    One([PullPolicy |-> "Never"]), One([PullPolicy |-> "malformed"]),
    Deployed([Labels |-> "service" :> <<"x">>]),
    Deployed([RestartPolicy |-> [Condition |-> "malformed"]]),
    Deployed([Resources |-> [Limits |-> None,
                Reservations |-> [NanoCPUs |-> "malformed", MemoryBytes |-> 1]]])})
    EXCEPT !.plugins = {"pin", "behind", "volume"}]
-----------------------------------------------------------------------------
Mount(type, kind, at) ==
    [Type |-> type, Source |-> [kind |-> kind, at |-> at], Target |-> <<"t">>,
     ReadOnly |-> FALSE]
Volume(m) == [Volumes |-> <<m>>]
Ref(target, mode) == <<[Source |-> "a", Target |-> target, Mode |-> mode]>>

\* Mounts of all kinds.
Mounts == Scenario({
    One(Volume(Mount("bind", "path", <<"d", "e">>))),
    One([Volumes |-> <<Mount("bind", "path", <<>>),
                       [Mount("bind", "path", dockerSock) EXCEPT !.Target = dockerSock]>>]),
    One(Volume(Mount("bind", "relative", <<"d">>))),
    One(Volume(Mount("bind", "git", <<"r">>)) @@ [Tmpfs |-> <<<<"x">>, <<"y">>>>]),
    One([Secrets |-> Ref(<<>>, MCWord), Configs |-> Ref(<<"c">>, None)]),
    One([Secrets |-> Ref(<<"s">>, 1),
         Configs |-> Ref(<<".">>, None) \o <<[Source |-> "b", Target |-> <<"c">>, Mode |-> None]>>])})

\* Claims: they turn a deployment into a stateful set, whose claims are fixed.
Claims == Scenario({
    One(Volume(Mount("volume", "name", <<"v">>))),
    One(Volume(Mount("volume", "none", <<>>)) @@ [Deploy |-> [Web.Deploy EXCEPT
            !.UpdateConfig = [Parallelism |-> 1], !.Replicas = 2]]),
    One(Volume(Mount("volume", "name", <<"v">>)) @@ [Deploy |-> [Web.Deploy EXCEPT
            !.Labels = "a" :> <<"x">>]]),
    One(Volume(Mount("volume", "name", <<"v">>)) @@ [Deploy |-> [Web.Deploy EXCEPT
            !.Mode = "global"]]),
    One(<<>>), Stack(<<>>)})
-----------------------------------------------------------------------------
Port(target, published, protocol) ==
    [Target |-> target, Published |-> published, Protocol |-> protocol]

\* Ports, published or not, with both strategies.
Ports == [Scenario({
    One([Ports |-> <<Port(80, 30001, "tcp"), Port(81, 0, "tcp")>>]),
    One([Ports |-> <<Port(80, 30001, "tcp"), Port(80, 30002, "udp"), Port(82, 0, "tcp"),
                     Port(81, 0, "tcp")>>]),
    One([Ports |-> <<Port(80, 8080, "tcp")>>]),
    Stack(<<[Ports |-> <<Port(80, 30001, "tcp")>>] @@ Db, [Ports |-> <<Port(80, 0, "tcp")>>] @@ Web>>)})
    EXCEPT !.strategies = Strategies]

\* Internal services with and without an address, and a service that has the
\* name of what another one publishes.
Internal(type, ports) ==
    [InternalServiceType |-> type,
     InternalPorts |-> [i \in DOMAIN ports |-> [Port |-> ports[i], Protocol |-> "TCP"]]]
Internals == [Scenario({
    One(Internal("", <<80>>)), One(Internal("", <<80, 81>>)), One(Internal("Headless", <<80>>)),
    One(Internal("ClusterIP", <<>>)),
    One([Ports |-> <<Port(80, 30001, "tcp")>>]),
    Stack(<<[Name |-> <<"web", "published">>] @@ Web, [Ports |-> <<Port(80, 30001, "tcp")>>] @@ Web>>)})
    EXCEPT !.edits = {"scale"}]

\* Constraints as they are written in compose files, and clients of v1beta2.
Text(prefix, rest, operator, value) ==
    [key |-> <<[prefix |-> prefix, rest |-> rest]>>, operator |-> operator, value |-> value]
File(texts) == Files([PlainService EXCEPT !.Deploy.Placement.Constraints = texts])
Placements == [Scenario({One([PullSecret |-> "a", PullPolicy |-> "Always"])}) EXCEPT
    !.edits = Edits,
    !.files = {
        File(<<Text(swarmOs, "", "!=", <<"linux">>)>>),
        File(<<Text(swarmArch, "", "==", <<"arm">>), Text(swarmHostname, "", "!=", <<"n1">>)>>),
        File(<<Text(swarmLabelPrefix, "a", "==", <<"x">>), Text(swarmLabelPrefix, "b", "!=", <<"y">>)>>),
        File(<<Text(swarmLabelPrefix, "a", "==", <<"x">>), Text("", "", "==", <<"x">>),
               Text(swarmOs, "", "", <<"x">>), Text(swarmHostname, "", "!=", <<"n", "2">>)>>),
        Files([PlainService EXCEPT !.User = [number |-> None]])}]

MCNodes ==
    {("os" :> os) @@ ("arch" :> arch) @@ ("hostname" :> host) @@ ("a" :> a) @@ ("b" :> b) :
       os \in {<<"linux">>, <<"windows">>}, arch \in {<<"amd64">>, <<"arm">>},
       host \in {<<"n1">>, <<"n2">>}, a \in {<<"x">>, None}, b \in {<<"y">>, None}}

MCScenarios == {Pods, Kept, Images, Mounts, Claims, Ports, Internals, Placements}
=============================================================================
