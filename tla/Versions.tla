------------------------------ MODULE Versions ------------------------------
(***************************************************************************)
(* The forms a stack takes on its way into storage: a compose file as the  *)
(* loader returns it (internal/conversions/v1alpha3.go turns it into a     *)
(* stack), the stack of v1alpha3, which is what is stored, and the stack   *)
(* of v1beta2, which lacks four fields of a service.                       *)
(*                                                                         *)
(* The text of a constraint is its words: `key` and `value` are sequences  *)
(* of runs of letters, digits and dots, what is between them being other   *)
(* characters.  A word of a key is its known prefix and the rest.  The     *)
(* user of a service is None, a name or a number.                          *)
(***************************************************************************)
EXTENDS ComposeTypes, SequencesExt

swarmOs == "node.platform.os"
swarmArch == "node.platform.arch"
swarmHostname == "node.hostname"
swarmLabelPrefix == "node.labels."

ConstraintText ==
    [key : Seq([prefix : {swarmOs, swarmArch, swarmHostname, swarmLabelPrefix, ""},
                rest : Labels \cup {""}]),
     operator : {"==", "!=", ""}, value : Seq(Words)]

UserText == [number : Optional(Int)]

\* The expression matches the last word before the operator and the first one
\* after it, and nothing if there is no operator.
constraintEquals(text) ==
    IF text.operator = "" THEN None
    ELSE [key |-> Last(text.key), operator |-> text.operator,
          value |-> <<Head(text.value)>>]

\* Later constraints on the same key replace earlier ones; a key that is not
\* known is left out.
fromComposeConstraints(texts) ==
    LET Add(constraints, text) ==
          LET match == constraintEquals(text)
              constraint == [Operator |-> match.operator, Value |-> match.value]
          IN  IF match = None THEN constraints
              ELSE CASE match.key.prefix = swarmOs ->
                     [constraints EXCEPT !.OperatingSystem = constraint]
                [] match.key.prefix = swarmArch ->
                     [constraints EXCEPT !.Architecture = constraint]
                [] match.key.prefix = swarmHostname ->
                     [constraints EXCEPT !.Hostname = constraint]
                [] match.key.prefix = swarmLabelPrefix ->
                     [constraints EXCEPT
                        !.MatchLabels = (match.key.rest :> constraint) @@ @]
                [] OTHER -> constraints
        none == [OperatingSystem |-> None, Architecture |-> None, Hostname |-> None,
                 MatchLabels |-> <<>>]
    IN  IF texts = <<>> THEN None ELSE FoldLeft(Add, none, texts)

fromComposePlacement(p) == [Constraints |-> fromComposeConstraints(p.Constraints)]

\* Fields of the pointed-to record that the stack has, and no others.
Only(fields, r) == IF r = None THEN None ELSE [f \in fields |-> r[f]]
OnlyEach(fields, list) == [i \in DOMAIN list |-> Only(fields, list[i])]

fromComposeFiles(files) ==
    [name \in DOMAIN files |-> Only({"File", "External"}, files[name])]

fromComposePorts(ports) == OnlyEach({"Target", "Published", "Protocol"}, ports)
fromComposeServiceFiles(files) == OnlyEach({"Source", "Target", "Mode"}, files)
fromComposeServiceVolumeConfig(vs) ==
    OnlyEach({"Type", "Source", "Target", "ReadOnly"}, vs)
fromComposeHealthcheck(h) == Only({"Test", "Timeout", "Interval", "Retries"}, h)
fromComposeResources(r) ==
    [Limits |-> Only({"MemoryBytes", "NanoCPUs"}, r.Limits),
     Reservations |-> Only({"MemoryBytes", "NanoCPUs"}, r.Reservations)]
fromComposeUpdateConfig(u) == Only({"Parallelism"}, u)
fromComposeRestartPolicy(r) == Only({"Condition"}, r)

\* strconv.Atoi: the name of a user is not kept.
userID(user) == IF user = None THEN None ELSE user.number

fromComposeServiceConfig(s) ==
    [Name |-> s.Name, Plain |-> s.Plain, CapAdd |-> s.CapAdd, CapDrop |-> s.CapDrop,
     Configs |-> fromComposeServiceFiles(s.Configs),
     Deploy |-> [Mode |-> s.Deploy.Mode, Replicas |-> s.Deploy.Replicas,
                 Labels |-> s.Deploy.Labels,
                 UpdateConfig |-> fromComposeUpdateConfig(s.Deploy.UpdateConfig),
                 Resources |-> fromComposeResources(s.Deploy.Resources),
                 RestartPolicy |-> fromComposeRestartPolicy(s.Deploy.RestartPolicy),
                 Placement |-> fromComposePlacement(s.Deploy.Placement)],
     Environment |-> s.Environment, ExtraHosts |-> s.ExtraHosts,
     HealthCheck |-> fromComposeHealthcheck(s.HealthCheck), Image |-> s.Image,
     Ipc |-> s.Ipc, Pid |-> s.Pid, Ports |-> fromComposePorts(s.Ports),
     Privileged |-> s.Privileged, ReadOnly |-> s.ReadOnly,
     Secrets |-> fromComposeServiceFiles(s.Secrets),
     StopGracePeriod |-> s.StopGracePeriod, Tmpfs |-> s.Tmpfs, User |-> userID(s.User),
     Volumes |-> fromComposeServiceVolumeConfig(s.Volumes), PullSecret |-> None,
     PullPolicy |-> None, InternalPorts |-> <<>>, InternalServiceType |-> ""]

FromComposeConfig(c) ==
    [Services |-> [i \in DOMAIN c.Services |-> fromComposeServiceConfig(c.Services[i])],
     Secrets |-> fromComposeFiles(c.Secrets), Configs |-> fromComposeFiles(c.Configs)]
-----------------------------------------------------------------------------
(* v1beta2 *)

V1beta2DeployFields == {"Mode", "Replicas", "Labels", "UpdateConfig", "Resources",
                        "RestartPolicy", "Placement"}

V1beta2Fields == {"Name", "Plain", "CapAdd", "CapDrop", "Configs", "Deploy",
    "Environment", "ExtraHosts", "HealthCheck", "Image", "Ipc", "Pid", "Ports",
    "Privileged", "ReadOnly", "Secrets", "StopGracePeriod", "Tmpfs", "User", "Volumes"}

\* What a service that comes from v1beta2 has in the fields v1beta2 lacks.
V1alpha3Zero == [PullSecret |-> None, PullPolicy |-> None, InternalPorts |-> <<>>,
                 InternalServiceType |-> ""]

Convert_Resources(r) == Only({"Limits", "Reservations"}, r)
Convert_Placement(p) == Only({"Constraints"}, p)

Convert_DeployConfig(d) ==
    [Only(V1beta2DeployFields, d) EXCEPT
        !.Resources = Convert_Resources(@), !.Placement = Convert_Placement(@)]

Convert_v1alpha3_ServiceConfig_To_v1beta2_ServiceConfig(s) ==
    [Only(V1beta2Fields, s) EXCEPT !.Deploy = Convert_DeployConfig(@)]

Convert_v1beta2_ServiceConfig_To_v1alpha3_ServiceConfig(s) ==
    [Only(V1beta2Fields, s) EXCEPT !.Deploy = Convert_DeployConfig(@)] @@ V1alpha3Zero

Convert_v1alpha3_StackSpec_To_v1beta2_StackSpec(spec) ==
    [Services |-> [i \in DOMAIN spec.Services |->
        Convert_v1alpha3_ServiceConfig_To_v1beta2_ServiceConfig(spec.Services[i])],
     Secrets |-> spec.Secrets, Configs |-> spec.Configs]

Convert_v1beta2_StackSpec_To_v1alpha3_StackSpec(spec) ==
    [Services |-> [i \in DOMAIN spec.Services |->
        Convert_v1beta2_ServiceConfig_To_v1alpha3_ServiceConfig(spec.Services[i])],
     Secrets |-> spec.Secrets, Configs |-> spec.Configs]

\* Old stacks may have no specification.
Convert_v1alpha3_Stack_To_v1beta2_Stack(spec) ==
    IF spec = None THEN None ELSE Convert_v1alpha3_StackSpec_To_v1beta2_StackSpec(spec)

Convert_v1beta2_Stack_To_v1alpha3_Stack(spec) ==
    IF spec = None THEN None ELSE Convert_v1beta2_StackSpec_To_v1alpha3_StackSpec(spec)

\* A stack of the storage as a v1beta2 client reads it, and back: what is
\* stored has the form of v1alpha3.
stackFromInternalV1beta2(spec) == Convert_v1alpha3_Stack_To_v1beta2_Stack(spec)

stackToInternalV1beta2(spec) == Convert_v1beta2_Stack_To_v1alpha3_Stack(spec)
=============================================================================
