-------------------------- MODULE ApiRegistration --------------------------
(***************************************************************************)
(* The start of the Compose API server (cmd/api-server/cli/root.go) in     *)
(* every replica of its deployment.  A replica makes itself a certificate  *)
(* authority, serves with a certificate that authority signed, and adds    *)
(* the authority to the CA bundle of the three APIService objects through  *)
(* which the Kubernetes aggregator reaches the replicas.  The objects are  *)
(* shared: each replica reads one, merges its authority into the bundle    *)
(* and writes the object back under the resource version it read.  A       *)
(* replica that fails exits, and Kubernetes starts its container again     *)
(* under the same host name, with another authority.                       *)
(***************************************************************************)
EXTENDS Naturals, FiniteSets

CONSTANTS
    Hosts,          \* host names of the pods that may ever run
    FirstHosts,     \* those of the pods that run at the beginning
    None, Junk,     \* no object; the contents of a bundle that does not parse
    NVersions,      \* the API versions that are registered (three in the code)
    MaxAttempts,    \* attempts of one process to start (eight in the code)
    MaxFaults       \* bound on refused connections, failed requests, exits of a
                    \* process and replaced pods together

VARIABLES
    apiService,     \* version -> the APIService object, or None
    proc,           \* host -> the API server process of that pod
    provided,       \* host -> the pod is configured with a TLS bundle of the user
    generations,    \* host -> number of authorities made there so far
    faults          \* faults that may still happen

vars == <<apiService, proc, provided, generations, faults>>

Versions == 1..NVersions
-----------------------------------------------------------------------------
(* Certificate authorities.  Two have the same name exactly if they were   *)
(* made on the same host; the user's authority has a name of its own.      *)

\* keys.NewSelfSignedCA with the common name "compose-api-ca-" + host name:
\* a new key pair every time.
NewSelfSignedCA(h, n) == [name |-> h, serial |-> n]
UserCA == [name |-> None, serial |-> 0]
CAs == [name : Hosts \cup {None}, serial : Nat]

Bundles == SUBSET (CAs \cup {Junk})

mergeCABundle_OnlyNew(existing, ca) == {ca}
mergeCABundle_KeepAll(existing, ca) == (existing \ {Junk}) \cup {ca}

\* The authorities of the same name are replaced by the new one, the others
\* stay; an empty bundle and one that does not parse are overwritten.
mergeCABundle(existing, ca) ==
    IF Junk \in existing THEN {ca}
    ELSE {e \in existing : e.name # ca.name} \cup {ca}
-----------------------------------------------------------------------------
(* A process: what it does next, the attempts it has made to start, its    *)
(* authority, the version it registers and the object it has read.         *)

Process(pc, attempt, ca, ix, seen) ==
    [pc |-> pc, attempt |-> attempt, ca |-> ca, ix |-> ix, seen |-> seen]
Down == Process("down", 0, None, 0, None)
Absent == Process("absent", 0, None, 0, None)

Objects == [rv : Nat, bundle : Bundles]

ASSUME RegistrationAssumption ==
    /\ FirstHosts \subseteq Hosts /\ None \notin Hosts
    /\ None \notin Objects /\ None \notin CAs /\ Junk \notin CAs
    /\ NVersions \in Nat \ {0} /\ MaxAttempts \in Nat \ {0}
    /\ MaxFaults \in Nat

Init ==
    /\ \E o \in {None, [rv |-> 0, bundle |-> {}], [rv |-> 0, bundle |-> {Junk}]} :
        apiService = [v \in Versions |-> o]
    /\ proc = [h \in Hosts |-> IF h \in FirstHosts THEN Down ELSE Absent]
    /\ provided \in [Hosts -> BOOLEAN]
    /\ generations = [h \in Hosts |-> 0]
    /\ faults = MaxFaults

Fault == faults > 0 /\ faults' = faults - 1

Exit_Ignored(h) == UNCHANGED proc

\* The process ends with an error; the kubelet will start it again.  What it
\* generated was in files of the container and in its memory.
Exit(h) == proc' = [proc EXCEPT ![h] = Down]

\* The kubelet starts the container: RunE enters its loop with no attempt made.
StartContainer(h) ==
    /\ proc[h].pc = "down"
    /\ proc' = [proc EXCEPT ![h].pc = "start"]
    /\ UNCHANGED <<apiService, provided, generations, faults>>

\* generateCertificateIfRequired: nothing is generated if there are
\* certificate files, the user's or those of an earlier attempt.
generateCertificateIfRequired(h) ==
    IF provided[h] THEN UserCA
    ELSE IF proc[h].ca # None THEN proc[h].ca
    ELSE NewSelfSignedCA(h, generations[h] + 1)

\* The loop of RunE after a refused connection: another attempt, which finds the
\* certificates of this one, until the attempts are used up.
Retry(h, ca) ==
    IF proc[h].attempt + 1 < MaxAttempts
    THEN proc' = [proc EXCEPT ![h] = Process("start", @.attempt + 1, ca, 0, None)]
    ELSE Exit(h)

\* runComposeServer up to PrepareRun: the certificates, then the set-up of the
\* server, which reads from the Kubernetes API, and the post-start hook that
\* registers the versions.  RunE ends the process on any error but a refused
\* connection.
runComposeServer(h) ==
    /\ proc[h].pc = "start"
    /\ LET ca == generateCertificateIfRequired(h) IN
        /\ generations' = [generations EXCEPT ![h] =
                IF ca = NewSelfSignedCA(h, @ + 1) THEN @ + 1 ELSE @]
        /\ \/ /\ proc' = [proc EXCEPT ![h] = Process("get", @.attempt, ca, 1, None)]
              /\ UNCHANGED faults
           \/ Fault /\ Retry(h, ca)
           \/ Fault /\ Exit(h)
    /\ UNCHANGED <<apiService, provided>>

\* registerAggregatedAPI, first half: the Get.  Whatever error it returns,
\* the object is taken to be missing.
GetAPIService(h) ==
    /\ proc[h].pc = "get"
    /\ \/ /\ proc' = [proc EXCEPT ![h].pc = "put", ![h].seen = apiService[proc[h].ix]]
          /\ UNCHANGED faults
       \/ /\ Fault
          /\ proc' = [proc EXCEPT ![h].pc = "put", ![h].seen = None]
    /\ UNCHANGED <<apiService, provided, generations>>

\* The Kubernetes API server accepts an update of the version read, and the
\* creation of an object that does not exist.
Accepts(obj, seen) ==
    IF seen = None THEN obj = None ELSE obj # None /\ obj.rv = seen.rv

\* The bundle that is written: merged into the one read, or new.
Written(h) ==
    IF proc[h].seen = None THEN [rv |-> 1, bundle |-> {proc[h].ca}]
    ELSE [rv |-> proc[h].seen.rv + 1,
          bundle |-> mergeCABundle(proc[h].seen.bundle, proc[h].ca)]

\* registerAggregatedAPIs goes on with the next version; after the last one
\* the hook has succeeded and the replica serves.
Registered(h) ==
    proc' = [proc EXCEPT ![h] =
        IF @.ix < NVersions THEN Process("get", @.attempt, @.ca, @.ix + 1, None)
                            ELSE Process("serving", @.attempt, @.ca, @.ix, None)]

\* registerAggregatedAPI, second half: Update or Create.  An error of either
\* is an error of the post-start hook, which ends the process; the answer to a
\* write that took effect may be lost.
PutAPIService(h) ==
    /\ proc[h].pc = "put"
    /\ LET v == proc[h].ix
           store == apiService' = [apiService EXCEPT ![v] = Written(h)]
       IN \/ /\ Accepts(apiService[v], proc[h].seen)
             /\ store /\ Registered(h) /\ UNCHANGED faults
          \/ /\ ~Accepts(apiService[v], proc[h].seen)
             /\ Exit(h) /\ UNCHANGED <<apiService, faults>>
          \/ /\ Fault /\ Exit(h)
             /\ IF Accepts(apiService[v], proc[h].seen)
                THEN store \/ UNCHANGED apiService
                ELSE UNCHANGED apiService
    /\ UNCHANGED <<provided, generations>>

\* The process ends at any time: a crash, or, where the certificates were
\* generated, the timer of generateCertificateIfRequired that fires before
\* they expire.
ProcessExits(h) ==
    /\ proc[h].pc \notin {"absent", "down"}
    /\ Fault /\ Exit(h)
    /\ UNCHANGED <<apiService, provided, generations>>

\* The deployment replaces a pod by another one, with another host name.
ReplacePod(h, new) ==
    /\ proc[h].pc # "absent" /\ proc[new].pc = "absent" /\ generations[new] = 0
    /\ Fault
    /\ proc' = [proc EXCEPT ![h] = Absent, ![new] = Down]
    /\ UNCHANGED <<apiService, provided, generations>>

Step(h) ==
    StartContainer(h) \/ runComposeServer(h) \/ GetAPIService(h) \/ PutAPIService(h)

Next ==
    \E h \in Hosts :
        \/ Step(h)
        \/ ProcessExits(h)
        \/ \E new \in Hosts : ReplacePod(h, new)

Spec == Init /\ [][Next]_vars

\* Kubernetes restarts containers, processes run and requests are answered.
FairSpec == Spec /\ \A h \in Hosts : WF_vars(Step(h))
-----------------------------------------------------------------------------
TypeOK ==
    /\ apiService \in [Versions -> Objects \cup {None}]
    /\ proc \in [Hosts -> [pc : {"absent", "down", "start", "get", "put", "serving"},
                           attempt : 0..(MaxAttempts - 1), ca : CAs \cup {None},
                           ix : 0..NVersions, seen : Objects \cup {None}]]
    /\ provided \in [Hosts -> BOOLEAN]
    /\ generations \in [Hosts -> Nat]
    /\ faults \in 0..MaxFaults

\* The authority of a running replica is in the bundle of every version it
\* has registered, whatever other replicas merged into the same objects since:
\* the aggregator keeps trusting a replica that serves.
ServingIsTrusted ==
    \A h \in Hosts, v \in Versions :
        (v < proc[h].ix \/ proc[h].pc = "serving")
            => apiService[v] # None /\ proc[h].ca \in apiService[v].bundle

\* A bundle holds one authority per host name: the one a replica made before
\* it was restarted is dropped by the merge that adds its next one.
OneCAPerName ==
    \A v \in Versions : apiService[v] # None =>
        \A c, d \in apiService[v].bundle \ {Junk} : c.name = d.name => c = d

\* A replica ends up serving with all versions registered, unless its pod is
\* replaced: replicas that make each other's updates fail do not keep doing so.
AllServe ==
    \A h \in Hosts : <>[](proc[h].pc \in {"serving", "absent"})
=============================================================================
