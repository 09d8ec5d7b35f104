---------------------------- MODULE ComposeTypes ----------------------------
(***************************************************************************)
(* The structured stack of the API (api/compose/v1alpha3/stack.go), as the *)
(* server stores it and as the controller converts it.                     *)
(*                                                                         *)
(* A nil pointer or an empty optional string is None; a nil slice or map   *)
(* is the empty one.  Paths are sequences of elements; the name of a       *)
(* service is a sequence because the conversion appends suffixes to it.    *)
(* Plain stands for the fields that every conversion copies as they are:   *)
(* Command, Entrypoint, Hostname, Labels, StdinOpen, Tty and WorkingDir.   *)
(***************************************************************************)
EXTENDS Integers, Sequences, FiniteSetsExt

CONSTANTS
    None,       \* nil, and the empty string where a string is optional
    Failed,     \* what a conversion that returns an error returns
    Texts,      \* strings that are only copied
    Words,      \* the words of constraints and of node labels
    Labels,     \* the keys of labels, of variables and of constraints
    Word        \* how many values an unsigned 32-bit integer has

ASSUME ComposeTypesAssumption == Word \in Nat /\ Word > 1

Path == Seq(Texts)
Optional(S) == S \cup {None}
MapOf(S) == FoldSet(LAMBDA K, maps : maps \cup [K -> S], {}, SUBSET Labels)

FileObjectConfig == [File : Path, External : BOOLEAN]
FileReferenceConfig == [Source : Texts, Target : Path, Mode : Optional(Nat)]

ServicePortConfig == [Target : Nat, Published : Nat, Protocol : Texts]
InternalServiceType == {"", "Headless", "ClusterIP"}
InternalPort == [Port : Int, Protocol : {"TCP", "UDP"}]

\* Where a mount comes from: nowhere, a volume by its name, a repository, an
\* absolute path or a relative one.
VolumeSource == [kind : {"none", "name", "git", "path", "relative"}, at : Path]
ServiceVolumeConfig ==
    [Type : Texts, Source : VolumeSource, Target : Path, ReadOnly : BOOLEAN]

Constraint == [Operator : Texts, Value : Seq(Words)]
Constraints ==
    [OperatingSystem : Optional(Constraint), Architecture : Optional(Constraint),
     Hostname : Optional(Constraint), MatchLabels : MapOf(Constraint)]

\* Durations in milliseconds.
HealthCheckConfig ==
    [Test : Seq(Texts), Timeout : Optional(Nat), Interval : Optional(Nat),
     Retries : Optional(Nat)]

Resource == [NanoCPUs : Optional(Texts), MemoryBytes : Int]
Resources == [Limits : Optional(Resource), Reservations : Optional(Resource)]
UpdateConfig == [Parallelism : Optional(Nat)]
RestartPolicy == [Condition : Texts]
Placement == [Constraints : Optional(Constraints)]

DeployConfig ==
    [Mode : Texts, Replicas : Optional(Nat), Labels : MapOf(Path),
     UpdateConfig : Optional(UpdateConfig), Resources : Resources,
     RestartPolicy : Optional(RestartPolicy), Placement : Placement]

\* A reference to an image; the digest is None unless the reference has one.
Image == [name : Texts, tag : Texts, digest : Optional(Texts)]

\* An extra host is what strings.SplitN makes of it: well-formed with two parts.
ServiceConfig ==
    [Name : Path, Plain : Texts, CapAdd : Seq(Texts), CapDrop : Seq(Texts),
     Configs : Seq(FileReferenceConfig), Deploy : DeployConfig,
     Environment : MapOf(Optional(Texts)), ExtraHosts : Seq(Path),
     HealthCheck : Optional(HealthCheckConfig), Image : Image, Ipc : Texts,
     Pid : Texts, Ports : Seq(ServicePortConfig), Privileged : BOOLEAN,
     ReadOnly : BOOLEAN, Secrets : Seq(FileReferenceConfig),
     StopGracePeriod : Optional(Nat), Tmpfs : Seq(Path), User : Optional(Int),
     Volumes : Seq(ServiceVolumeConfig), PullSecret : Optional(Texts),
     PullPolicy : Optional(Texts), InternalPorts : Seq(InternalPort),
     InternalServiceType : InternalServiceType]

StackSpec ==
    [Services : Seq(ServiceConfig), Secrets : MapOf(FileObjectConfig),
     Configs : MapOf(FileObjectConfig)]
=============================================================================
