----------------------- MODULE ApiRegistrationProofs -----------------------
(***************************************************************************)
(* The replicas' authorities stay trusted, and a bundle never holds two of *)
(* one host, for any number of hosts, API versions, attempts and faults.   *)
(*                                                                         *)
(* What the two invariants need beside each other: a replica that is about *)
(* to write has read an object that is still the current one whenever its  *)
(* resource version is; an authority is named after the host that runs it  *)
(* or is the user's; a bundle that does not parse holds nothing else.      *)
(***************************************************************************)
EXTENDS ApiRegistration, TLAPS

\* Most leaves are first-order reasoning on sets, functions and records; the
\* ones that need arithmetic, sequences or long case splits ask for SMT.
USE Zenon

Running == {"get", "put", "serving"}

\* The versions a process has registered, and its authority, by its state.
ProcessOK(h) ==
    LET p == proc[h] IN
    /\ p.pc \notin Running => p.ix = 0
    /\ p.pc \in Running => p.ix \in Versions /\ p.ca # None
    /\ p.pc = "serving" => p.ix = NVersions
    /\ p.ca # None => p.ca = UserCA \/ p.ca.name = h

\* What a process has read is what is stored, or an earlier version of it.
SeenOK(h) ==
    LET p == proc[h]
        o == apiService[p.ix]
    IN p.pc = "put" /\ p.seen # None =>
        o # None /\ p.seen.rv <= o.rv /\ (p.seen.rv = o.rv => p.seen = o)

BundleOK(b) == Junk \in b => b = {Junk}

BundlesOK ==
    /\ \A v \in Versions : apiService[v] # None => BundleOK(apiService[v].bundle)

IInv ==
    /\ TypeOK /\ BundlesOK /\ OneCAPerName /\ ServingIsTrusted
    /\ \A h \in Hosts : ProcessOK(h) /\ SeenOK(h)

\* A merge keeps what every other name has and holds the new authority.
LEMMA MergeKeeps ==
    ASSUME NEW b \in Bundles, NEW ca \in CAs, BundleOK(b)
    PROVE  /\ mergeCABundle(b, ca) \in Bundles
           /\ Junk \notin mergeCABundle(b, ca)
           /\ ca \in mergeCABundle(b, ca)
           /\ \A c \in CAs : c \in b /\ c.name # ca.name => c \in mergeCABundle(b, ca)
           /\ (\A c, d \in b \ {Junk} : c.name = d.name => c = d) =>
                 \A c, d \in mergeCABundle(b, ca) : c.name = d.name => c = d
  BY RegistrationAssumption, SMTT(30) DEF mergeCABundle, BundleOK, Bundles

\* It holds before the first registration.
LEMMA InitIInv == Init => IInv
  <1> SUFFICES ASSUME Init PROVE IInv
    OBVIOUS
  <1>1. TypeOK
    BY RegistrationAssumption, SMTT(30)
    DEF Init, TypeOK, Objects, Bundles, Down, Absent, Process
  <1>2. BundlesOK /\ OneCAPerName
    BY RegistrationAssumption, SMTT(30)
       DEF Init, BundlesOK, OneCAPerName, BundleOK, Objects, Bundles
  <1>3. \A h \in Hosts : ProcessOK(h) /\ SeenOK(h)
    BY RegistrationAssumption DEF Init, ProcessOK, SeenOK, Running, Down, Absent, Process
  <1>4. ServingIsTrusted
    BY RegistrationAssumption, SMTT(30) DEF Init, ServingIsTrusted, Versions, Down, Absent, Process
  <1> QED
    BY <1>1, <1>2, <1>3, <1>4 DEF IInv

Processes ==
    [pc : {"absent", "down", "start", "get", "put", "serving"},
     attempt : 0..(MaxAttempts - 1), ca : CAs \cup {None},
     ix : 0..NVersions, seen : Objects \cup {None}]

\* What a process must satisfy given the stored objects: the conjuncts of the
\* invariant that speak of one process.
Fits(h, p, objs) ==
    /\ p \in Processes
    /\ p.pc \notin Running => p.ix = 0
    /\ p.pc \in Running => p.ix \in Versions /\ p.ca # None
    /\ p.pc = "serving" => p.ix = NVersions
    /\ p.ca # None => p.ca = UserCA \/ p.ca.name = h
    /\ p.pc = "put" /\ p.seen # None =>
        /\ objs[p.ix] # None
        /\ p.seen.rv <= objs[p.ix].rv
        /\ p.seen.rv = objs[p.ix].rv => p.seen = objs[p.ix]
    /\ \A v \in Versions : v < p.ix \/ p.pc = "serving" =>
        objs[v] # None /\ p.ca \in objs[v].bundle

\* The API versions are counted from 1.
LEMMA VersionFacts ==
    ASSUME NEW v \in Versions
    PROVE  ~(v < 0) /\ (v < NVersions => v + 1 \in Versions)
  BY RegistrationAssumption, SMTT(30) DEF Versions

ObjectsOK(objs) ==
    /\ objs \in [Versions -> Objects \cup {None}]
    /\ \A v \in Versions : objs[v] # None =>
        /\ BundleOK(objs[v].bundle)
        /\ \A c, d \in objs[v].bundle \ {Junk} : c.name = d.name => c = d

\* The invariant, process by process.
LEMMA IInvByProcess ==
    IInv <=> /\ ObjectsOK(apiService)
             /\ proc \in [Hosts -> Processes]
             /\ \A h \in Hosts : Fits(h, proc[h], apiService)
             /\ provided \in [Hosts -> BOOLEAN] /\ generations \in [Hosts -> Nat]
             /\ faults \in 0..MaxFaults
  BY SMTT(30)
  DEF IInv, TypeOK, BundlesOK, OneCAPerName, ServingIsTrusted, ProcessOK, SeenOK, Fits,
      ObjectsOK, Processes

\* The same of the state after a step.
LEMMA IInvByProcessPrimed ==
    IInv' <=> /\ ObjectsOK(apiService')
              /\ proc' \in [Hosts -> Processes]
              /\ \A h \in Hosts : Fits(h, proc'[h], apiService')
              /\ provided' \in [Hosts -> BOOLEAN] /\ generations' \in [Hosts -> Nat]
              /\ faults' \in 0..MaxFaults
  BY SMTT(30)
  DEF IInv, TypeOK, BundlesOK, OneCAPerName, ServingIsTrusted, ProcessOK, SeenOK, Fits,
      ObjectsOK, Processes

\* A process without an authority registered for any version fits anything.
LEMMA DownFits ==
    ASSUME NEW h \in Hosts, NEW objs
    PROVE  Fits(h, Down, objs) /\ Fits(h, Absent, objs)
  BY RegistrationAssumption, SMTT(30)
  DEF Fits, Down, Absent, Process, Processes, Running, Versions

\* A step that writes no object keeps the invariant if the process it changes
\* fits the objects afterwards.
LEMMA QuietStep ==
    ASSUME IInv, UNCHANGED <<apiService, provided>>, generations' \in [Hosts -> Nat],
           faults' \in 0..MaxFaults, proc' \in [Hosts -> Processes],
           \A g \in Hosts : proc'[g] = proc[g] \/ Fits(g, proc'[g], apiService)
    PROVE  IInv'
  BY IInvByProcess, IInvByProcessPrimed

\* The authority the process starts with is its host's or the user's.
LEMMA GeneratedCA ==
    ASSUME IInv, NEW h \in Hosts
    PROVE  LET ca == generateCertificateIfRequired(h) IN
           /\ ca \in CAs /\ ca # None
           /\ ca = UserCA \/ ca.name = h
  <1>1. UserCA \in CAs
    BY DEF UserCA, CAs
  <1>2. proc[h].ca # None => proc[h].ca \in CAs /\ (proc[h].ca = UserCA \/ proc[h].ca.name = h)
    BY IInvByProcess DEF Fits, Processes
  <1>3. /\ NewSelfSignedCA(h, generations[h] + 1) \in CAs
        /\ NewSelfSignedCA(h, generations[h] + 1).name = h
    BY IInvByProcess, SMTT(30) DEF NewSelfSignedCA, CAs
  <1> QED
    BY <1>1, <1>2, <1>3, RegistrationAssumption DEF generateCertificateIfRequired

\* A write that the API server accepts adds the process's authority to the
\* version it registers, and the other processes still fit.
LEMMA StoreKeeps ==
    ASSUME IInv, NEW h \in Hosts, proc[h].pc = "put",
           Accepts(apiService[proc[h].ix], proc[h].seen),
           NEW objs, objs = [apiService EXCEPT ![proc[h].ix] = Written(h)]
    PROVE  /\ ObjectsOK(objs)
           /\ \A g \in Hosts : Fits(g, proc[g], objs) \/ g = h
           /\ objs[proc[h].ix] # None /\ proc[h].ca \in objs[proc[h].ix].bundle
           /\ \A v \in Versions : v < proc[h].ix =>
                objs[v] # None /\ proc[h].ca \in objs[v].bundle
  <1> DEFINE i == proc[h].ix
             ca == proc[h].ca
             new == Written(h)
  <1>1. /\ i \in Versions /\ ca \in CAs /\ ObjectsOK(apiService)
        /\ proc[h] \in Processes /\ \A g \in Hosts : Fits(g, proc[g], apiService)
    BY IInvByProcess DEF Fits, Running, Processes
  <1>2. CASE proc[h].seen = None
    <2>1. apiService[i] = None /\ new = [rv |-> 1, bundle |-> {ca}]
      BY <1>2 DEF Accepts, Written
    <2>2. new \in Objects /\ BundleOK(new.bundle) /\ Junk \notin new.bundle
      BY <1>1, <2>1, RegistrationAssumption, SMTT(30) DEF Objects, Bundles, BundleOK
    <2>3. ObjectsOK(objs)
      BY <1>1, <2>1, <2>2, SMTT(30) DEF ObjectsOK
    <2>4. ASSUME NEW g \in Hosts PROVE Fits(g, proc[g], objs)
      <3>1. \A v \in Versions : v # i => objs[v] = apiService[v]
        BY <1>1 DEF ObjectsOK
      <3>2. Fits(g, proc[g], apiService)
        BY <1>1, SMTT(30)
      <3>3. \A v \in Versions : v < proc[g].ix \/ proc[g].pc = "serving" =>
              objs[v] # None /\ proc[g].ca \in objs[v].bundle
        BY <3>1, <3>2, <2>1 DEF Fits
      <3>4. proc[g].pc = "put" /\ proc[g].seen # None =>
              proc[g].ix \in Versions /\ objs[proc[g].ix] = apiService[proc[g].ix]
        BY <3>1, <3>2, <2>1 DEF Fits, Running
      <3> QED
        BY <3>2, <3>3, <3>4 DEF Fits
    <2>5. objs[i] = new /\ new # None /\ ca \in new.bundle
      <3>1. new.bundle = {ca}
        BY <2>1, SMTT(30)
      <3>2. objs[i] = new
        BY <1>1, SMTT(30) DEF ObjectsOK
      <3> QED
        BY <3>1, <3>2, <2>2, RegistrationAssumption
    <2>6. ASSUME NEW v \in Versions, v < i
          PROVE  objs[v] # None /\ ca \in objs[v].bundle
      BY <2>6, <1>1, SMTT(30) DEF Fits, ObjectsOK, Versions
    <2> QED
      BY <2>3, <2>4, <2>5, <2>6, Zenon
  <1>3. CASE proc[h].seen # None
    <2> DEFINE o == apiService[i]
    <2>1. o # None /\ proc[h].seen = o /\ o \in Objects
      BY <1>1, <1>3 DEF Accepts, Fits, ObjectsOK
    <2>2. new = [rv |-> o.rv + 1, bundle |-> mergeCABundle(o.bundle, ca)]
      BY <2>1, <1>3 DEF Written
    <2>3. /\ o.bundle \in Bundles /\ o.rv \in Nat /\ BundleOK(o.bundle)
          /\ \A c, d \in o.bundle \ {Junk} : c.name = d.name => c = d
      BY <1>1, <2>1 DEF ObjectsOK, Objects
    <2>4. /\ new \in Objects /\ new.rv = o.rv + 1 /\ ca \in new.bundle
          /\ BundleOK(new.bundle)
          /\ \A c \in CAs : c \in o.bundle /\ c.name # ca.name => c \in new.bundle
          /\ \A c, d \in new.bundle : c.name = d.name => c = d
      <3>1. new.bundle = mergeCABundle(o.bundle, ca) /\ new.rv = o.rv + 1
        BY <2>2, SMTT(30)
      <3>2. Junk \notin new.bundle
        BY <1>1, <2>3, <3>1, MergeKeeps, SMTT(30)
      <3>3. new \in Objects
        BY <1>1, <2>2, <2>3, MergeKeeps, SMTT(30) DEF Objects
      <3> QED
        BY <1>1, <2>3, <3>1, <3>2, <3>3, MergeKeeps, SMTT(30) DEF BundleOK
    <2>5. new # None
      BY <2>4, RegistrationAssumption, SMTT(30)
    <2>6. ObjectsOK(objs)
      BY <1>1, <2>4, <2>5, SMTT(30) DEF ObjectsOK
    <2>7. ASSUME NEW g \in Hosts, g # h PROVE Fits(g, proc[g], objs)
      <3>1. Fits(g, proc[g], apiService) /\ proc[g] \in Processes
        BY <1>1 DEF Fits
      <3>2. proc[g].ca # None /\ proc[g].ca \in o.bundle => proc[g].ca \in new.bundle
        <4> SUFFICES ASSUME proc[g].ca # None, proc[g].ca \in o.bundle
                     PROVE  proc[g].ca \in new.bundle
          OBVIOUS
        <4>1. proc[g].ca \in CAs
          BY <3>1 DEF Processes
        <4>2. CASE proc[g].ca.name # ca.name
          BY <4>1, <4>2, <2>4
        <4>3. CASE proc[g].ca.name = ca.name
          <5>1. proc[g].ca = UserCA \/ proc[g].ca.name = g
            BY <3>1, SMTT(30) DEF Fits
          <5>2. ca = UserCA \/ ca.name = h
            BY <1>1, RegistrationAssumption DEF Fits
          <5>3. UserCA.name = None /\ None \notin Hosts
            BY RegistrationAssumption DEF UserCA
          <5>4. proc[g].ca = ca
            BY <5>1, <5>2, <5>3, <4>3, <2>7
          <5> QED
            BY <5>4, <2>4
        <4> QED
          BY <4>2, <4>3
      <3>3. ASSUME NEW v \in Versions, v < proc[g].ix \/ proc[g].pc = "serving"
            PROVE  objs[v] # None /\ proc[g].ca \in objs[v].bundle
        <4>1. apiService[v] # None /\ proc[g].ca \in apiService[v].bundle
          BY <3>1, <3>3 DEF Fits
        <4>2. proc[g].pc \in Running
          BY <3>1, <3>3, VersionFacts DEF Fits, Running
        <4>3. proc[g].ca # None
          BY <3>1, <4>2 DEF Fits
        <4> QED
          BY <4>1, <4>3, <3>2, <2>5, <1>1 DEF ObjectsOK
      <3>4. proc[g].pc = "put" /\ proc[g].seen # None =>
              /\ objs[proc[g].ix] # None
              /\ proc[g].seen.rv <= objs[proc[g].ix].rv
              /\ proc[g].seen.rv = objs[proc[g].ix].rv => proc[g].seen = objs[proc[g].ix]
        <4> SUFFICES ASSUME proc[g].pc = "put", proc[g].seen # None
                     PROVE  /\ objs[proc[g].ix] # None
                            /\ proc[g].seen.rv <= objs[proc[g].ix].rv
                            /\ proc[g].seen.rv = objs[proc[g].ix].rv
                                 => proc[g].seen = objs[proc[g].ix]
          OBVIOUS
        <4>1. proc[g].ix \in Versions /\ proc[g].seen.rv \in Nat
          BY <3>1 DEF Fits, Running, Processes, Objects
        <4>2. /\ apiService[proc[g].ix] # None
              /\ proc[g].seen.rv <= apiService[proc[g].ix].rv
              /\ proc[g].seen.rv = apiService[proc[g].ix].rv
                   => proc[g].seen = apiService[proc[g].ix]
          BY <3>1 DEF Fits
        <4> QED
          BY <4>1, <4>2, <2>3, <2>4, <2>5, <1>1, SMTT(30) DEF ObjectsOK
      <3> QED
        BY <3>1, <3>3, <3>4, SMTT(30) DEF Fits
    <2>8. ASSUME NEW v \in Versions, v < i
          PROVE  objs[v] # None /\ ca \in objs[v].bundle
      BY <2>8, <1>1, SMTT(30) DEF Fits, ObjectsOK, Versions
    <2>9. objs[i] = new
      BY <1>1 DEF ObjectsOK
    <2> QED
      BY <2>4, <2>5, <2>6, <2>7, <2>8, <2>9, Zenon
  <1> QED
    BY <1>2, <1>3, Zenon

\* Every step of the system keeps the invariant.
LEMMA StepIInv == IInv /\ [Next]_vars => IInv'
  <1> SUFFICES ASSUME IInv, [Next]_vars PROVE IInv'
    OBVIOUS
  <1>0. /\ ObjectsOK(apiService) /\ proc \in [Hosts -> Processes]
        /\ \A g \in Hosts : Fits(g, proc[g], apiService)
        /\ provided \in [Hosts -> BOOLEAN] /\ generations \in [Hosts -> Nat]
        /\ faults \in 0..MaxFaults
    BY IInvByProcess
  <1>f. Fault => faults' \in 0..MaxFaults
    BY <1>0, RegistrationAssumption, SMTT(30) DEF Fault
  <1>d. Down \in Processes /\ Absent \in Processes
    BY RegistrationAssumption, SMTT(30) DEF Down, Absent, Process, Processes
  <1>1. CASE UNCHANGED vars
    BY <1>1, <1>0, QuietStep DEF vars
  <1>2. ASSUME NEW h \in Hosts, StartContainer(h) PROVE IInv'
    <2> DEFINE p == [proc[h] EXCEPT !.pc = "start"]
    <2>1. proc' = [proc EXCEPT ![h] = p] /\ UNCHANGED <<apiService, provided, generations, faults>>
      BY <1>2, <1>0 DEF StartContainer
    <2>2. p \in Processes
      BY <1>0, SMTT(30) DEF Processes
    <2>3. Fits(h, p, apiService)
      BY <1>2, <1>0, <2>2, RegistrationAssumption, SMTT(30)
      DEF Fits, StartContainer, Running, Processes, Versions
    <2> QED
      BY <1>0, <2>1, <2>2, <2>3, QuietStep
  <1>3. ASSUME NEW h \in Hosts, runComposeServer(h) PROVE IInv'
    <2> DEFINE ca == generateCertificateIfRequired(h)
               p == Process("get", proc[h].attempt, ca, 1, None)
               q == Process("start", proc[h].attempt + 1, ca, 0, None)
    <2>1. ca \in CAs /\ ca # None /\ (ca = UserCA \/ ca.name = h)
      BY GeneratedCA
    <2>2. generations' \in [Hosts -> Nat] /\ UNCHANGED <<apiService, provided>>
      BY <1>3, <1>0, SMTT(30) DEF runComposeServer
    <2>3. Fits(h, p, apiService)
      BY <2>1, <1>0, RegistrationAssumption, SMTT(30)
      DEF Fits, Process, Processes, Running, Versions
    <2>4. proc[h].attempt + 1 < MaxAttempts => Fits(h, q, apiService)
      BY <2>1, <1>0, RegistrationAssumption, SMTT(30)
      DEF Fits, Process, Processes, Running, Versions
    <2>5. \/ proc' = [proc EXCEPT ![h] = p] /\ UNCHANGED faults
          \/ /\ Fault /\ proc[h].attempt + 1 < MaxAttempts
             /\ proc' = [proc EXCEPT ![h] = q]
          \/ Fault /\ proc' = [proc EXCEPT ![h] = Down]
      BY <1>3, <1>0, SMTT(30) DEF runComposeServer, Retry, Exit, Process
    <2>6. PICK r \in Processes : Fits(h, r, apiService) /\ proc' = [proc EXCEPT ![h] = r]
      BY <2>3, <2>4, <2>5, <1>d, DownFits DEF Fits
    <2>7. faults' \in 0..MaxFaults
      BY <2>5, <1>f, <1>0
    <2> QED
      BY <1>0, <2>2, <2>6, <2>7, QuietStep
  <1>4. ASSUME NEW h \in Hosts, GetAPIService(h) PROVE IInv'
    <2> DEFINE i == proc[h].ix
               p == [proc[h] EXCEPT !.pc = "put", !.seen = apiService[i]]
               q == [proc[h] EXCEPT !.pc = "put", !.seen = None]
    <2>1. i \in Versions /\ proc[h].pc = "get" /\ proc[h] \in Processes
      BY <1>4, <1>0 DEF GetAPIService, Fits, Running
    <2>2. apiService[i] \in Objects \cup {None}
      BY <2>1, <1>0 DEF ObjectsOK
    <2>3. p \in Processes /\ q \in Processes
      BY <2>1, <2>2, Zenon DEF Processes
    <2>4. Fits(h, p, apiService) /\ Fits(h, q, apiService)
      <3>1. Fits(h, proc[h], apiService)
        BY <1>0
      <3>2. apiService[i] # None => apiService[i].rv \in Nat
        BY <2>2 DEF Objects
      <3> QED
        BY <3>1, <3>2, <2>1, <2>2, <2>3, SMTT(30) DEF Fits, Running, Processes
    <2>5. /\ proc' = [proc EXCEPT ![h] = p] \/ proc' = [proc EXCEPT ![h] = q]
          /\ UNCHANGED <<apiService, provided, generations>>
          /\ Fault \/ UNCHANGED faults
      <3>1. CASE proc' = [proc EXCEPT ![h].pc = "put", ![h].seen = apiService[proc[h].ix]]
        <4>1. proc' = [proc EXCEPT ![h] = p]
          BY <3>1, <1>0, <2>1, Zenon DEF Processes
        <4> QED
          BY <4>1, <1>4 DEF GetAPIService
      <3>2. CASE proc' = [proc EXCEPT ![h].pc = "put", ![h].seen = None]
        <4>1. proc' = [proc EXCEPT ![h] = q]
          BY <3>2, <1>0, <2>1, ZenonT(30) DEF Processes
        <4> QED
          BY <4>1, <1>4 DEF GetAPIService
      <3> QED
        BY <3>1, <3>2, <1>4 DEF GetAPIService
    <2>6. faults' \in 0..MaxFaults
      BY <2>5, <1>f, <1>0
    <2> QED
      BY <1>0, <2>3, <2>4, <2>5, <2>6, QuietStep
  <1>5. ASSUME NEW h \in Hosts, PutAPIService(h) PROVE IInv'
    <2> DEFINE i == proc[h].ix
               objs == [apiService EXCEPT ![i] = Written(h)]
               p == Process("get", proc[h].attempt, proc[h].ca, i + 1, None)
               q == Process("serving", proc[h].attempt, proc[h].ca, i, None)
    <2>1. /\ i \in Versions /\ proc[h].pc = "put" /\ proc[h] \in Processes
          /\ proc[h].ca # None /\ proc[h].ca \in CAs
          /\ proc[h].ca = UserCA \/ proc[h].ca.name = h
      BY <1>5, <1>0, SMTT(30) DEF PutAPIService, Fits, Running, Processes
    <2>2. faults' \in 0..MaxFaults /\ UNCHANGED <<provided, generations>>
      BY <1>5, <1>0, <1>f DEF PutAPIService
    <2>3. CASE apiService' = apiService /\ proc' = [proc EXCEPT ![h] = Down]
      BY <1>0, <1>d, <2>2, <2>3, DownFits, QuietStep
    <2>4. CASE /\ Accepts(apiService[i], proc[h].seen) /\ apiService' = objs
               /\ proc' = [proc EXCEPT ![h] = Down]
      <3>1. ObjectsOK(objs) /\ \A g \in Hosts : Fits(g, proc[g], objs) \/ g = h
        BY <2>1, <2>4, StoreKeeps, Zenon
      <3> QED
        BY <3>1, <1>0, <1>d, <2>2, <2>4, DownFits, IInvByProcessPrimed, Zenon
    <2>5. CASE /\ Accepts(apiService[i], proc[h].seen) /\ apiService' = objs
               /\ proc' = [proc EXCEPT ![h] = IF i < NVersions THEN p ELSE q]
      <3>1. /\ ObjectsOK(objs) /\ \A g \in Hosts : Fits(g, proc[g], objs) \/ g = h
            /\ objs[i] # None /\ proc[h].ca \in objs[i].bundle
            /\ \A v \in Versions : v < i => objs[v] # None /\ proc[h].ca \in objs[v].bundle
        BY <2>1, <2>5, StoreKeeps, ZenonT(30)
      <3>2. i < NVersions => Fits(h, p, objs)
        <4> SUFFICES ASSUME i < NVersions PROVE Fits(h, p, objs)
          OBVIOUS
        <4>1. p \in Processes /\ p.ix = i + 1 /\ p.pc = "get" /\ p.ca = proc[h].ca
          BY <2>1, RegistrationAssumption, SMTT(30) DEF Process, Processes, Versions
        <4>2. \A v \in Versions : v < i + 1 => objs[v] # None /\ proc[h].ca \in objs[v].bundle
          BY <3>1, <2>1, SMTT(30) DEF Versions
        <4>3. i + 1 \in Versions
          BY <2>1, VersionFacts
        <4> HIDE DEF i, p, objs
        <4> QED
          BY <4>1, <4>2, <4>3, <2>1, Zenon DEF Fits, Running
      <3>3. ~(i < NVersions) => Fits(h, q, objs)
        <4> SUFFICES ASSUME ~(i < NVersions) PROVE Fits(h, q, objs)
          OBVIOUS
        <4>1. /\ q \in Processes /\ q.ix = i /\ q.pc = "serving" /\ q.ca = proc[h].ca
              /\ i = NVersions
          BY <2>1, RegistrationAssumption, SMTT(30) DEF Process, Processes, Versions
        <4>2. \A v \in Versions : objs[v] # None /\ proc[h].ca \in objs[v].bundle
          BY <3>1, <4>1, RegistrationAssumption, SMTT(30) DEF Versions
        <4> HIDE DEF i, q, objs
        <4> QED
          BY <4>1, <4>2, <2>1, Zenon DEF Fits, Running
      <3>4. ASSUME NEW r, Fits(h, r, objs), proc' = [proc EXCEPT ![h] = r]
            PROVE  IInv'
        <4>1. r \in Processes
          BY <3>4 DEF Fits
        <4>2. proc' \in [Hosts -> Processes] /\ proc'[h] = r
          BY <3>4, <4>1, <1>0
        <4>3. \A g \in Hosts : Fits(g, proc'[g], objs)
          BY <3>1, <3>4, <4>2, <1>0, Zenon
        <4> QED
          BY <3>1, <4>2, <4>3, <1>0, <2>2, <2>5, IInvByProcessPrimed, Zenon
      <3> HIDE DEF p, q, objs
      <3> QED
        BY <3>2, <3>3, <3>4, <2>5, Zenon
    <2> QED
      <3>1. \/ apiService' = apiService /\ proc' = [proc EXCEPT ![h] = Down]
            \/ /\ Accepts(apiService[i], proc[h].seen) /\ apiService' = objs
               /\ proc' = [proc EXCEPT ![h] = Down]
            \/ /\ Accepts(apiService[i], proc[h].seen) /\ apiService' = objs
               /\ proc' = [proc EXCEPT ![h] = IF i < NVersions THEN p ELSE q]
        BY <1>5, <1>0, SMTT(30) DEF PutAPIService, Exit, Registered, Process
      <3> QED
        BY <3>1, <2>3, <2>4, <2>5
  <1>6. ASSUME NEW h \in Hosts, ProcessExits(h) PROVE IInv'
    BY <1>6, <1>0, <1>d, <1>f, DownFits, QuietStep DEF ProcessExits, Exit
  <1>7. ASSUME NEW h \in Hosts, NEW new \in Hosts, ReplacePod(h, new) PROVE IInv'
    BY <1>7, <1>0, <1>d, <1>f, DownFits, QuietStep DEF ReplacePod
  <1> QED
    BY <1>1, <1>2, <1>3, <1>4, <1>5, <1>6, <1>7 DEF Next, Step

\* The invariant holds throughout, whichever replicas start, stop and register.
LEMMA Invariance == Spec => []IInv
  BY InitIInv, StepIInv, PTL DEF Spec

\* The authority of a replica stays in the bundle of every version the replica
\* has registered, whatever the other replicas write, restart or leave behind:
\* registerAggregatedAPI updates only the object it read.
THEOREM AuthoritiesStayTrusted == Spec => []ServingIsTrusted
  BY Invariance, PTL DEF IInv

\* mergeCABundle leaves no authority of an earlier run of the same pod.
THEOREM BundlesStaySmall == Spec => []OneCAPerName
  BY Invariance, PTL DEF IInv
=============================================================================
