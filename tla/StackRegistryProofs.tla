------------------------ MODULE StackRegistryProofs ------------------------
(***************************************************************************)
(* For any files, contents, users and requests:                            *)
(*   - the compose file that is shown without the "outdated" header is     *)
(*     what the structured stack was made from;                            *)
(*   - a scale request changes the service it names and no other;          *)
(*   - a stack that is Available runs the workloads of the stored spec;    *)
(*   - putting a status back leaves the compose file alone.                *)
(* The lemmas follow a request through the steps of the strategy.          *)
(***************************************************************************)
EXTENDS StackRegistry, TLAPS

\* Most leaves are first-order reasoning on sets, functions and records; the
\* ones that need arithmetic, sequences or long case splits ask for SMT.
USE Zenon

InSync(s) ==
    s.spec # None /\ s.file.text # NoFile /\ ~s.file.outdated
    => /\ s.spec.content = ParsedAs[s.file.text]
       /\ s.spec.replicas = AsWritten

IInv == TypeOK /\ FileTellsStack

\* The strategies behind the resources that are written.
LEMMA StorageFacts ==
    /\ VersionedResourcesStorageMap.v1beta1.stacks = "v1beta1"
    /\ VersionedResourcesStorageMap.v1beta2.stacks = "v1beta2"
    /\ VersionedResourcesStorageMap.v1beta2.composeFile = "v1beta1"
    /\ VersionedResourcesStorageMap.v1beta2.scale = "v1beta2"
    /\ VersionedResourcesStorageMap.v1alpha3.stacks = "v1beta2"
  BY DEF VersionedResourcesStorageMap, V1beta1Storage, V1beta2Storage

\* A service's count is one that was asked for, or the default.
LEMMA CountType == \A s, r : r \in Replicas => Count(s, r) \in Counts \cup {1, -1}
  BY DEF Count, ToInt, Replicas

\* Writing the count that was read leaves it as it is.
LEMMA CountWritten == \A s, r : r \in Replicas => Count(s, ToUint64(Count(s, r))) = Count(s, r)
  BY RequestsAssumption, SMT DEF Count, ToInt, ToUint64, Replicas, Unset, MaxUint64

\* The workloads of a structured stack have their type.
LEMMA WorkloadsType ==
    \A p \in StackSpec :
      Workloads(p) \in [content : Contents, counts : [Services -> Counts \cup {1, -1}]]
<1> TAKE p \in StackSpec
<1>1. \A s \in Services : Count(s, p.replicas[s]) \in Counts \cup {1, -1}
  BY CountType DEF StackSpec
<1>2. p.content \in Contents
  BY DEF StackSpec
<1> QED
  BY <1>1, <1>2 DEF Workloads

\* prepareStackFromComposefile parses the file the stack is stored with.
LEMMA ParseFacts ==
    ASSUME NEW s \in Stack, InSync(s), NEW skip \in BOOLEAN,
           NEW t \in prepareStackFromComposefile(s, skip)
    PROVE  t \in Stack /\ InSync(t)
<1>1. CASE s.spec # None
  BY <1>1 DEF prepareStackFromComposefile
<1>2. CASE s.spec = None /\ ParsedAs[s.file.text] # None
  <2>1. PICK p \in LoadStackData(s.file) : t = [s EXCEPT !.spec = p]
    BY <1>2 DEF prepareStackFromComposefile
  <2>2. s.file.text \in Files \cup {NoFile}
    BY DEF Stack, File
  <2>3. ParsedAs[s.file.text] \in Contents
    BY <1>2, <2>2, FilesAssumption
  <2>4. AsWritten \in [Services -> Replicas]
    BY DEF AsWritten, Replicas
  <2>5. p.content = ParsedAs[s.file.text] /\ p.replicas = AsWritten /\ p \in StackSpec
    BY <2>3, <2>4, SMT DEF LoadStackData, StackSpec
  <2>6. t.file = s.file /\ t.spec = p /\ t \in Stack
    BY <2>1, <2>5 DEF Stack
  <2> QED
    BY <2>5, <2>6 DEF InSync
<1>3. CASE s.spec = None /\ ParsedAs[s.file.text] = None
  <2>1. t = [s EXCEPT !.phase = "ParsingError"]
    BY <1>3 DEF prepareStackFromComposefile
  <2>2. t.spec = None /\ t \in Stack
    BY <2>1, <1>3 DEF Stack, Phase
  <2> QED
    BY <2>2 DEF InSync
<1> QED
  BY <1>1, <1>2, <1>3

\* A new phase changes neither the file nor the spec.
LEMMA PhaseFacts ==
    ASSUME NEW s \in Stack, InSync(s), NEW p \in Phase
    PROVE  [s EXCEPT !.phase = p] \in Stack /\ InSync([s EXCEPT !.phase = p])
<1> DEFINE t == [s EXCEPT !.phase = p]
<1>1. t \in Stack /\ t.spec = s.spec /\ t.file = s.file
  BY DEF Stack
<1> QED
  BY <1>1 DEF InSync

\* The dry run only changes the order of the services.
LEMMA ValidFacts ==
    ASSUME NEW s \in Stack, InSync(s), NEW skip \in BOOLEAN, NEW t \in Validated(s, skip)
    PROVE  t \in Stack /\ InSync(t)
<1>1. CASE skip
  BY <1>1 DEF Validated
<1>2. CASE ~skip
  <2>1. s.spec # None /\ t = [s EXCEPT !.spec.sorted = TRUE]
    BY <1>2 DEF Validated
  <2>2. s.spec \in StackSpec /\ s.file \in File /\ s.owner \in Users /\ s.phase \in Phase
    BY <2>1 DEF Stack
  <2> DEFINE p == [s.spec EXCEPT !.sorted = TRUE]
  <2>3. p \in StackSpec /\ p.content = s.spec.content /\ p.replicas = s.spec.replicas
    BY <2>2 DEF StackSpec
  <2>4. t = [s EXCEPT !.spec = p]
    BY <2>1 DEF Stack
  <2> HIDE DEF p
  <2>5. t \in Stack /\ t.spec = p /\ t.file = s.file
    BY <2>3, <2>4 DEF Stack
  <2> QED
    BY <2>1, <2>3, <2>5 DEF InSync
<1> QED
  BY <1>1, <1>2

\* A stack as it is created: it has a file or a spec, never both.
LEMMA CreatedFacts ==
    ASSUME NEW s \in Stack, InSync(s), NEW skip \in BOOLEAN, NEW t \in Created(s, skip)
    PROVE  t \in Stack /\ InSync(t)
<1>1. PICK r \in prepareStackFromComposefile(s, skip) :
        t \in Validated([r EXCEPT !.phase = "Pending"], skip)
  BY DEF Created
<1>2. r \in Stack /\ InSync(r)
  BY <1>1, ParseFacts
<1>3. [r EXCEPT !.phase = "Pending"] \in Stack /\ InSync([r EXCEPT !.phase = "Pending"])
  BY <1>2, PhaseFacts DEF Phase
<1> QED
  BY <1>1, <1>3, ValidFacts

\* Either strategy keeps the file and the structured stack in step, whatever
\* the request holds.
LEMMA FieldsFacts ==
    ASSUME NEW old \in Stack, InSync(old), NEW new \in Stack
    PROVE  /\ setFieldsForV1beta1Update(old, new) \in Stack
           /\ InSync(setFieldsForV1beta1Update(old, new))
           /\ setFieldsForV1beta2Update(old, new) \in Stack
           /\ InSync(setFieldsForV1beta2Update(old, new))
<1>1. setFieldsForV1beta1Update(old, new) \in Stack /\ InSync(setFieldsForV1beta1Update(old, new))
  <2> DEFINE p == IF new.file # old.file THEN None ELSE old.spec
             t == [new EXCEPT !.spec = p]
  <2>1. p \in StackSpec \cup {None}
    BY DEF Stack
  <2>2. t \in Stack /\ t.spec = p /\ t.file = new.file
    BY <2>1 DEF Stack
  <2>3. InSync(t)
    BY <2>2 DEF InSync
  <2> QED
    BY <2>2, <2>3 DEF setFieldsForV1beta1Update
<1>2. setFieldsForV1beta2Update(old, new) \in Stack /\ InSync(setFieldsForV1beta2Update(old, new))
  <2> DEFINE o == old.file.outdated \/ (new.spec # old.spec /\ old.file.text # NoFile)
             f == [old.file EXCEPT !.outdated = o]
             t == [new EXCEPT !.file = f]
  <2>1. old.file \in File /\ o \in BOOLEAN
    BY DEF Stack, File
  <2>2. f \in File /\ f.text = old.file.text /\ f.outdated = o
    <3> HIDE DEF o
    <3> QED BY <2>1 DEF File
  <2>3. t \in Stack /\ t.spec = new.spec /\ t.file = f
    <3> HIDE DEF f
    <3> QED BY <2>2 DEF Stack
  <2>4. InSync(t)
    <3> SUFFICES ASSUME t.spec # None, t.file.text # NoFile, ~t.file.outdated
                 PROVE  t.spec = old.spec /\ old.file = t.file
      BY DEF InSync
    <3>1. ~o /\ old.file.text # NoFile
      BY <2>2, <2>3
    <3>2. new.spec = old.spec /\ ~old.file.outdated
      BY <3>1
    <3>3. f = old.file
      BY <3>1, <3>2, <2>1, <2>2 DEF File
    <3> QED
      BY <3>2, <3>3, <2>3
  <2>5. setFieldsForV1beta2Update(old, new) = t
    BY DEF setFieldsForV1beta2Update
  <2> QED
    BY <2>3, <2>4, <2>5
<1> QED
  BY <1>1, <1>2

\* An update, as it is stored.
LEMMA UpdatedFacts ==
    ASSUME NEW old \in Stack, InSync(old), NEW new \in Stack, NEW skip \in BOOLEAN,
           NEW version \in {"v1beta1", "v1beta2"}, NEW t \in Updated(version, old, new, skip)
    PROVE  t \in Stack /\ InSync(t)
<1> DEFINE fields == IF version = "v1beta1" THEN setFieldsForV1beta1Update(old, new)
                                            ELSE setFieldsForV1beta2Update(old, new)
<1>1. fields \in Stack /\ InSync(fields)
  BY FieldsFacts
<1>2. PICK r \in prepareStackFromComposefile(fields, skip) :
        t \in Validated(MarkChanged(old, r), skip)
  BY DEF Updated
<1>3. r \in Stack /\ InSync(r)
  <2> HIDE DEF fields
  <2> QED BY <1>1, <1>2, ParseFacts
<1>4. MarkChanged(old, r) \in Stack /\ InSync(MarkChanged(old, r))
  BY <1>3, PhaseFacts DEF MarkChanged, Phase
<1> QED
  BY <1>2, <1>4, ValidFacts

\* A reader that may have been overtaken keeps its type.
LEMMA AgedFacts ==
    ASSUME TypeOK, NEW s
    PROVE  /\ Aged(scaling, s) \in Scaling \cup {None}
           /\ Aged(work, s) \in Pass \cup {None}
<1>1. ASSUME NEW b \in BOOLEAN
      PROVE  (b /\ s = stack) \in BOOLEAN
  OBVIOUS
<1>2. ASSUME scaling # None
      PROVE  Aged(scaling, s) \in Scaling
  <2>1. scaling.current \in BOOLEAN
    BY <1>2 DEF TypeOK, Scaling
  <2> DEFINE c == scaling.current /\ s = stack
  <2>2. c \in BOOLEAN
    BY <2>1, <1>1
  <2>3. Aged(scaling, s) = [scaling EXCEPT !.current = c]
    BY <1>2 DEF Aged
  <2> HIDE DEF c
  <2> QED
    BY <1>2, <2>2, <2>3 DEF TypeOK, Scaling
<1>3. scaling = None => Aged(scaling, s) = None
  BY DEF Aged
<1>4. ASSUME work # None
      PROVE  Aged(work, s) \in Pass
  <2>1. work.current \in BOOLEAN
    BY <1>4 DEF TypeOK, Pass
  <2> DEFINE c == work.current /\ s = stack
  <2>2. c \in BOOLEAN
    BY <2>1, <1>1
  <2>3. Aged(work, s) = [work EXCEPT !.current = c]
    BY <1>4 DEF Aged
  <2> HIDE DEF c
  <2> QED
    BY <1>4, <2>2, <2>3 DEF TypeOK, Pass
<1>5. work = None => Aged(work, s) = None
  BY DEF Aged
<1>6. Aged(scaling, s) \in Scaling \cup {None}
  BY <1>2, <1>3
<1>7. Aged(work, s) \in Pass \cup {None}
  BY <1>4, <1>5
<1> QED
  BY <1>6, <1>7

\* Writing a stack that is in step.
LEMMA WriteFacts ==
    ASSUME IInv, NEW s \in Stack, InSync(s), Write(s)
    PROVE  stack' \in Stack \cup {None} /\ fresh' \in BOOLEAN /\ FileTellsStack'
<1>1. stack' = s
  BY DEF Write
<1>2. fresh' \in BOOLEAN
  BY DEF Write
<1>3. FileTellsStack'
  BY <1>1 DEF FileTellsStack, InSync, AsWritten
<1> QED
  BY <1>1, <1>2, <1>3

\* A request that stores a stack that is in step.
LEMMA RequestStep ==
    ASSUME IInv, Request, NEW s \in Stack, InSync(s), Store(s)
    PROVE  IInv'
<1>1. stack' \in Stack \cup {None} /\ fresh' \in BOOLEAN /\ FileTellsStack'
  BY WriteFacts DEF Store
<1>2. writes' \in 0 .. MaxWrites
  BY RequestsAssumption, SMT DEF Request, IInv, TypeOK
<1>3. scaling' = Aged(scaling, s) /\ work' = Aged(work, s)
  BY DEF Store
<1>4. cache' = cache /\ applied' = applied
  BY DEF Request
<1> QED
  BY <1>1, <1>2, <1>3, <1>4, AgedFacts DEF IInv, TypeOK

\* The initial states have the types, and no stack of theirs has both a file
\* and a spec.
LEMMA InitInv == Init => IInv
<1> SUFFICES ASSUME Init PROVE IInv
  OBVIOUS
<1>0. \A u \in Users, f \in Files : OldStack(u, f) \in Stack /\ OldStack(u, f).spec = None
  BY DEF OldStack, Stack, File, Plain, Phase
<1>1. stack \in Stack \cup {None} /\ (stack # None => stack.spec = None)
  <2>1. CASE stack = None
    BY <2>1
  <2>2. CASE stack # None
    <3>1. \E u \in Users, f \in Files : stack = OldStack(u, f)
      <4> HIDE DEF OldStack
      <4> QED BY <2>2, SMT DEF Init
    <3> QED
      BY <3>1, <1>0
  <2> QED
    BY <2>1, <2>2
<1>2. writes \in 0 .. MaxWrites
  BY RequestsAssumption, SMT DEF Init
<1>3. scaling = None /\ cache = None /\ work = None /\ applied = None /\ fresh \in BOOLEAN
  BY DEF Init
<1> QED
  BY <1>1, <1>2, <1>3 DEF IInv, TypeOK, FileTellsStack

\* What users may send has its type.
LEMMA SentFacts ==
    ASSUME IInv, stack # None
    PROVE  /\ stack \in Stack /\ InSync(stack)
           /\ SentFiles \subseteq File
           /\ SentSpecs \subseteq StackSpec \cup {None}
           /\ \A body : V1beta1Phase(body) \in Phase /\ V1beta2Phase(body) \in Phase
<1>1. stack \in Stack /\ InSync(stack)
  BY DEF IInv, TypeOK, FileTellsStack, InSync
<1>2. SentFiles \subseteq File
  BY <1>1 DEF SentFiles, Stack, File
<1>3. AsWritten \in [Services -> Replicas]
  BY DEF AsWritten, Replicas
<1>4. stack.spec # None => stack.spec.replicas \in [Services -> Replicas]
  BY <1>1 DEF Stack, StackSpec
<1>5. SentSpecs \subseteq StackSpec \cup {None}
  BY <1>3, <1>4 DEF SentSpecs, StackSpec
<1>6. stack.phase \in Phase /\ stackFromInternalV1alpha3(stack).phase \in Phase
  BY <1>1 DEF stackFromInternalV1alpha3, Stack, Phase
<1>7. \A body : V1beta1Phase(body) \in Phase /\ V1beta2Phase(body) \in Phase
  BY <1>6 DEF V1beta1Phase, V1beta2Phase, Phase
<1> QED
  BY <1>1, <1>2, <1>5, <1>7

\* The two creations.
LEMMA CreateStep ==
    ASSUME IInv, NEW u \in Users, NEW skip \in SkipValidationFrom,
           \/ \E f \in Files : CreateFromFile(u, f, skip)
           \/ \E p \in [content : Contents, sorted : BOOLEAN, replicas : {AsWritten}] \cup {None} :
                CreateFromSpec(u, p, skip)
    PROVE  IInv'
<1> skip \in BOOLEAN
  BY DEF SkipValidationFrom, WithSkipValidationHandler
<1>1. ASSUME NEW f \in Files, CreateFromFile(u, f, skip)
      PROVE  IInv'
  <2> DEFINE new == [file |-> Plain(f), spec |-> None, owner |-> u, phase |-> "Nil"]
  <2>1. new \in Stack /\ InSync(new)
    BY DEF Stack, File, Plain, Phase, InSync
  <2>2. PICK s \in Created(new, skip) : Store(s)
    BY <1>1 DEF CreateFromFile
  <2> HIDE DEF new
  <2>3. s \in Stack /\ InSync(s)
    BY <2>1, CreatedFacts
  <2> QED
    BY <1>1, <2>2, <2>3, RequestStep DEF CreateFromFile
<1>2. ASSUME NEW p \in [content : Contents, sorted : BOOLEAN, replicas : {AsWritten}] \cup {None},
             CreateFromSpec(u, p, skip)
      PROVE  IInv'
  <2> DEFINE new == [file |-> Plain(NoFile), spec |-> p, owner |-> u, phase |-> "Nil"]
  <2>1. AsWritten \in [Services -> Replicas]
    BY DEF AsWritten, Replicas
  <2>2. p \in StackSpec \cup {None}
    BY <2>1 DEF StackSpec
  <2>3. new \in Stack /\ InSync(new)
    BY <2>2 DEF Stack, File, Plain, Phase, InSync
  <2>4. PICK s \in Created(new, skip) : Store(s)
    BY <1>2 DEF CreateFromSpec
  <2> HIDE DEF new
  <2>5. s \in Stack /\ InSync(s)
    BY <2>3, CreatedFacts
  <2> QED
    BY <1>2, <2>4, <2>5, RequestStep DEF CreateFromSpec
<1> QED
  BY <1>1, <1>2

\* The updates in either version and of the composeFile subresource.
LEMMA UpdateStep ==
    ASSUME IInv, NEW u \in Users, NEW skip \in SkipValidationFrom,
           \/ \E body \in Bodies : UpdateV1beta1(u, body, skip)
           \/ \E body \in Bodies : UpdateV1beta2(u, body, skip)
           \/ UpdateComposeFile(u, skip)
    PROVE  IInv'
<1> skip \in BOOLEAN
  BY DEF SkipValidationFrom, WithSkipValidationHandler
<1>1. stack # None /\ Request
  BY DEF UpdateV1beta1, UpdateV1beta2, UpdateComposeFile
<1>2. /\ stack \in Stack /\ InSync(stack)
      /\ SentFiles \subseteq File
      /\ SentSpecs \subseteq StackSpec \cup {None}
      /\ \A body : V1beta1Phase(body) \in Phase /\ V1beta2Phase(body) \in Phase
  BY <1>1, SentFacts
<1>3. ASSUME NEW new \in Stack, NEW version \in {"v1beta1", "v1beta2"},
             \E s \in Updated(version, stack, new, skip) : Store(s)
      PROVE  IInv'
  <2>1. PICK s \in Updated(version, stack, new, skip) : Store(s)
    BY <1>3
  <2>2. s \in Stack /\ InSync(s)
    BY <1>2, UpdatedFacts
  <2> QED
    BY <1>1, <2>1, <2>2, RequestStep
<1>4. ASSUME NEW body \in Bodies, UpdateV1beta1(u, body, skip)
      PROVE  IInv'
  <2>1. PICK f \in SentFiles :
          \E s \in Updated("v1beta1", stack,
                           [file |-> f, spec |-> None, owner |-> u,
                            phase |-> V1beta1Phase(body)], skip) : Store(s)
    BY <1>4, StorageFacts DEF UpdateV1beta1
  <2>2. [file |-> f, spec |-> None, owner |-> u, phase |-> V1beta1Phase(body)] \in Stack
    BY <1>2 DEF Stack
  <2> QED
    BY <1>3, <2>1, <2>2
<1>5. ASSUME NEW body \in Bodies, UpdateV1beta2(u, body, skip)
      PROVE  IInv'
  <2>1. PICK p \in SentSpecs :
          \E s \in Updated("v1beta2", stack,
                           [file |-> Plain(NoFile), spec |-> p, owner |-> u,
                            phase |-> V1beta2Phase(body)], skip) : Store(s)
    BY <1>5, StorageFacts DEF UpdateV1beta2
  <2>2. [file |-> Plain(NoFile), spec |-> p, owner |-> u, phase |-> V1beta2Phase(body)] \in Stack
    BY <1>2 DEF Stack, File, Plain
  <2> QED
    BY <1>3, <2>1, <2>2
<1>6. ASSUME UpdateComposeFile(u, skip)
      PROVE  IInv'
  <2>1. PICK f \in SentFiles :
          \E s \in Updated("v1beta1", stack,
                           [stack EXCEPT !.file = f, !.spec = None, !.owner = u], skip) : Store(s)
    BY <1>6, StorageFacts DEF UpdateComposeFile
  <2>2. [stack EXCEPT !.file = f, !.spec = None, !.owner = u] \in Stack
    BY <1>2 DEF Stack
  <2> QED
    BY <1>3, <2>1, <2>2
<1> QED
  BY <1>4, <1>5, <1>6

\* The counts of a scale update, as they are stored.
LEMMA ScaledSpecFacts ==
    ASSUME scaling \in Scaling, NEW spec \in StackSpec
    PROVE  /\ ScaledSpec(spec) \in StackSpec
           /\ ScaledSpec(spec).replicas = [s \in Services |-> ToUint64(scaling.counts[s])]
<1> DEFINE f == [s \in Services |-> ToUint64(scaling.counts[s])]
<1>1. \A s \in Services : scaling.counts[s] \in Counts \cup {1, -1}
  BY DEF Scaling
<1>2. \A s \in Services : ToUint64(scaling.counts[s]) \in Replicas
  BY <1>1 DEF ToUint64, Replicas
<1>3. f \in [Services -> Replicas]
  BY <1>2
<1>4. ScaledSpec(spec) = [spec EXCEPT !.replicas = f]
  BY DEF ScaledSpec
<1> HIDE DEF f
<1> QED
  BY <1>3, <1>4 DEF StackSpec, f

\* The two halves of a scale update.
LEMMA ScaleStep ==
    ASSUME IInv, NEW u \in Users, NEW skip \in SkipValidationFrom,
           \/ \E target \in Services, n \in Counts : ScaleGet(u, target, n)
           \/ ScaleUpdate(skip)
    PROVE  IInv'
<1> skip \in BOOLEAN
  BY DEF SkipValidationFrom, WithSkipValidationHandler
<1>1. ASSUME NEW target \in Services, NEW n \in Counts, ScaleGet(u, target, n)
      PROVE  IInv'
  <2>1. stack # None /\ stack.spec # None /\ Request
    BY <1>1 DEF ScaleGet
  <2>2. stack.spec \in StackSpec
    BY <2>1 DEF IInv, TypeOK, Stack
  <2> DEFINE c == [s \in Services |-> Count(s, stack.spec.replicas[s])]
             d == [c EXCEPT ![target] = n]
  <2>3. c \in [Services -> Counts \cup {1, -1}]
    BY <2>2, CountType DEF StackSpec
  <2>4. d \in [Services -> Counts \cup {1, -1}]
    <3> HIDE DEF c
    <3> QED BY <2>3
  <2>5. scaling' = [counts |-> d, target |-> target, owner |-> u, current |-> TRUE]
    BY <1>1 DEF ScaleGet
  <2> HIDE DEF d
  <2>6. writes' \in 0 .. MaxWrites
    BY <2>1, RequestsAssumption, SMT DEF Request, IInv, TypeOK
  <2>7. UNCHANGED <<stack, cache, fresh, work, applied>>
    BY <1>1 DEF ScaleGet, Request
  <2>8. TRUE \in BOOLEAN
    OBVIOUS
  <2>9. scaling' \in Scaling
    BY <2>4, <2>5, <2>8 DEF Scaling
  <2>10. FileTellsStack'
    BY <2>7 DEF IInv, FileTellsStack, AsWritten
  <2>11. stack' \in Stack \cup {None} /\ fresh' \in BOOLEAN
    BY <2>7 DEF IInv, TypeOK
  <2> QED
    BY <2>6, <2>7, <2>9, <2>10, <2>11 DEF IInv, TypeOK
<1>2. ASSUME ScaleUpdate(skip)
      PROVE  IInv'
  <2>1. scaling' = None /\ UNCHANGED <<writes, cache, applied>> /\ scaling # None
    BY <1>2 DEF ScaleUpdate
  <2>2. CASE UNCHANGED <<stack, fresh, work>>
    <3>1. FileTellsStack'
      BY <2>2 DEF IInv, FileTellsStack, AsWritten
    <3>2. stack' \in Stack \cup {None} /\ fresh' \in BOOLEAN
      BY <2>2 DEF IInv, TypeOK
    <3> QED
      BY <2>1, <2>2, <3>1, <3>2 DEF IInv, TypeOK
  <2>3. CASE ~UNCHANGED <<stack, fresh, work>>
    <3>1. stack # None /\ stack.spec # None
      BY <1>2, <2>3 DEF ScaleUpdate
    <3>2. stack \in Stack /\ InSync(stack) /\ stack.spec \in StackSpec
      BY <2>3, <3>1, SentFacts DEF Stack
    <3> DEFINE p == ScaledSpec(stack.spec)
               new == [stack EXCEPT !.spec = ScaledSpec(@), !.owner = scaling.owner]
    <3>3. scaling \in Scaling /\ scaling.owner \in Users
      BY <2>1 DEF IInv, TypeOK, Scaling
    <3>4. p \in StackSpec
      BY <3>2, <3>3, ScaledSpecFacts
    <3>5. new \in Stack
      BY <3>2, <3>3, <3>4 DEF Stack
    <3>6. PICK s \in Updated("v1beta2", stack, new, skip) : Write(s) /\ work' = Aged(work, s)
      BY <1>2, <2>3, StorageFacts DEF ScaleUpdate
    <3>7. s \in Stack /\ InSync(s)
      <4> HIDE DEF new
      <4> QED BY <3>2, <3>5, UpdatedFacts
    <3>8. stack' \in Stack \cup {None} /\ fresh' \in BOOLEAN /\ FileTellsStack'
      BY <3>6, <3>7, WriteFacts
    <3>9. work' \in Pass \cup {None}
      BY <3>6, AgedFacts DEF IInv
    <3> QED
      BY <2>1, <3>8, <3>9 DEF IInv, TypeOK
  <2> QED
    BY <2>2, <2>3
<1> QED
  BY <1>1, <1>2

\* The informer and the reconciler.
LEMMA ControllerStep ==
    ASSUME IInv, Watch \/ Reconcile \/ ReconcileStatus
    PROVE  IInv'
<1>1. CASE Watch
  <2>1. stack \in Stack
    BY <1>1 DEF Watch, IInv, TypeOK
  <2>2. stackFromInternalV1alpha3(stack) \in View
    BY <2>1 DEF stackFromInternalV1alpha3, Stack, View, Phase
  <2>3. cache' \in View /\ fresh' \in BOOLEAN /\ UNCHANGED <<stack, writes, scaling, work, applied>>
    BY <1>1, <2>2 DEF Watch
  <2>4. FileTellsStack'
    BY <2>3 DEF IInv, FileTellsStack, AsWritten
  <2> QED
    BY <2>3, <2>4 DEF IInv, TypeOK
<1>2. CASE Reconcile
  <2>1. cache \in View /\ fresh \in BOOLEAN
    BY <1>2 DEF Reconcile, IInv, TypeOK
  <2>2. Sorted(cache) \in View
    <3>1. CASE cache.spec = None
      BY <2>1, <3>1 DEF Sorted
    <3>2. CASE cache.spec # None
      <4> DEFINE p == [cache.spec EXCEPT !.sorted = TRUE]
      <4>1. cache.spec \in StackSpec
        BY <2>1, <3>2 DEF View
      <4>2. p \in StackSpec
        BY <4>1 DEF StackSpec
      <4>3. Sorted(cache) = [cache EXCEPT !.spec = p]
        BY <2>1, <3>2 DEF Sorted, View
      <4> HIDE DEF p
      <4> QED
        BY <2>1, <4>2, <4>3 DEF View
    <3> QED
      BY <3>1, <3>2
  <2>3. cache' \in View
    BY <1>2, <2>2 DEF Reconcile
  <2>4. work' \in Pass
    BY <1>2, <2>1, <2>3 DEF Reconcile, Phase, Pass
  <2>5. applied' \in [content : Contents, counts : [Services -> Counts \cup {1, -1}]] \cup {None}
    <3>1. Converts(cache) => cache.spec \in StackSpec
      BY <2>1 DEF Converts, View
    <3>2. Converts(cache) =>
            Workloads(cache.spec) \in [content : Contents, counts : [Services -> Counts \cup {1, -1}]]
      BY <3>1, WorkloadsType
    <3> QED
      BY <1>2, <3>2 DEF Reconcile, IInv, TypeOK
  <2>6. UNCHANGED <<stack, writes, scaling, fresh>>
    BY <1>2 DEF Reconcile
  <2>7. FileTellsStack'
    BY <2>6 DEF IInv, FileTellsStack, AsWritten
  <2>8. fresh' \in BOOLEAN
    BY <2>1, <2>6
  <2> QED
    BY <2>3, <2>4, <2>5, <2>6, <2>7, <2>8 DEF IInv, TypeOK
<1>3. CASE ReconcileStatus
  <2>1. work # None /\ work' = None /\ UpdateStackStatus /\ UNCHANGED <<writes, cache, applied>>
    BY <1>3 DEF ReconcileStatus
  <2>2. CASE UNCHANGED <<stack, fresh, scaling>>
    <3>1. FileTellsStack'
      BY <2>2 DEF IInv, FileTellsStack, AsWritten
    <3>2. fresh' \in BOOLEAN
      BY <2>2 DEF IInv, TypeOK
    <3> QED
      BY <2>1, <2>2, <3>1, <3>2 DEF IInv, TypeOK
  <2>3. CASE ~UNCHANGED <<stack, fresh, scaling>>
    <3> DEFINE new == [file |-> Plain(NoFile), spec |-> work.view.spec,
                       owner |-> stack.owner, phase |-> work.status]
    <3>1. PICK s \in Updated("v1beta2", stack, new, TRUE) :
            Write(s) /\ scaling' = Aged(scaling, s)
      BY <2>1, <2>3, StorageFacts DEF UpdateStackStatus
    <3>3. stack # None
      BY <2>1, <2>3 DEF UpdateStackStatus
    <3>4. stack \in Stack /\ InSync(stack)
      BY <3>3, SentFacts
    <3>5. work.view.spec \in StackSpec \cup {None} /\ work.status \in Phase
      BY <2>1 DEF IInv, TypeOK, View, Pass
    <3>6. new \in Stack
      BY <3>4, <3>5 DEF Stack, File, Plain
    <3>7. s \in Stack /\ InSync(s)
      <4> HIDE DEF new
      <4> QED BY <3>1, <3>4, <3>6, UpdatedFacts
    <3>8. stack' \in Stack \cup {None} /\ fresh' \in BOOLEAN /\ FileTellsStack'
      BY <3>1, <3>7, WriteFacts
    <3>9. scaling' = Aged(scaling, s)
      BY <3>1
    <3> QED
      BY <2>1, <3>8, <3>9, AgedFacts DEF IInv, TypeOK
  <2> QED
    BY <2>2, <2>3
<1> QED
  BY <1>1, <1>2, <1>3

\* Every step keeps the invariant.
LEMMA StepInv == IInv /\ [Next]_vars => IInv'
<1> SUFFICES ASSUME IInv, [Next]_vars PROVE IInv'
  OBVIOUS
<1>1. CASE UserRequest
  <2>1. PICK u \in Users, skip \in SkipValidationFrom :
          \/ \E f \in Files : CreateFromFile(u, f, skip)
          \/ \E p \in [content : Contents, sorted : BOOLEAN, replicas : {AsWritten}] \cup {None} :
               CreateFromSpec(u, p, skip)
          \/ \E body \in Bodies : UpdateV1beta1(u, body, skip)
          \/ \E body \in Bodies : UpdateV1beta2(u, body, skip)
          \/ UpdateComposeFile(u, skip)
          \/ \E target \in Services, n \in Counts : ScaleGet(u, target, n)
          \/ ScaleUpdate(skip)
    BY <1>1 DEF UserRequest
  <2> QED
    BY <2>1, CreateStep, UpdateStep, ScaleStep
<1>2. CASE Watch \/ Reconcile \/ ReconcileStatus
  BY <1>2, ControllerStep
<1>3. CASE UNCHANGED vars
  <2>1. FileTellsStack'
    BY <1>3 DEF IInv, FileTellsStack, AsWritten, vars
  <2>2. fresh' \in BOOLEAN
    BY <1>3 DEF IInv, TypeOK, vars
  <2> QED
    BY <1>3, <2>1, <2>2 DEF IInv, TypeOK, vars
<1> QED
  BY <1>1, <1>2, <1>3 DEF Next

\* The types and the agreement of file and structured stack hold in every
\* reachable state.
THEOREM Invariance == Spec => []IInv
  BY InitInv, StepInv, PTL DEF Spec

\* A compose file shown without the header is what the structured stack was
\* made from, whichever of the strategies' ways in were used and whatever the
\* controller put back (setFieldsForV1beta1Update, setFieldsForV1beta2Update).
THEOREM FilesTellStacks == Spec => []FileTellsStack
<1>1. IInv => FileTellsStack
  BY DEF IInv
<1> QED
  BY <1>1, Invariance, PTL
-----------------------------------------------------------------------------
(* The scale subresource *)

\* What a scale update that nobody overtook still knows of the stored stack.
ScaleInv ==
    scaling # None /\ scaling.current =>
      /\ stack # None /\ stack.spec # None
      /\ \A s \in Services \ {scaling.target} :
           scaling.counts[s] = Count(s, stack.spec.replicas[s])

\* What a step may do to a scale update under way.
LEMMA ScalingSteps ==
    ASSUME [Next]_vars
    PROVE  \/ scaling' = Aged(scaling, stack')
           \/ UNCHANGED <<stack, scaling>>
           \/ \E u \in Users, target \in Services, n \in Counts : ScaleGet(u, target, n)
           \/ \E skip \in BOOLEAN : ScaleUpdate(skip)
<1>1. ASSUME NEW s, Store(s) PROVE scaling' = Aged(scaling, stack')
  BY <1>1 DEF Store, Write
<1>2. CASE UserRequest
  <2>1. PICK u \in Users, skip \in SkipValidationFrom :
          \/ \E f \in Files : CreateFromFile(u, f, skip)
          \/ \E p \in [content : Contents, sorted : BOOLEAN, replicas : {AsWritten}] \cup {None} :
               CreateFromSpec(u, p, skip)
          \/ \E body \in Bodies : UpdateV1beta1(u, body, skip)
          \/ \E body \in Bodies : UpdateV1beta2(u, body, skip)
          \/ UpdateComposeFile(u, skip)
          \/ \E target \in Services, n \in Counts : ScaleGet(u, target, n)
          \/ ScaleUpdate(skip)
    BY <1>2 DEF UserRequest
  <2>2. skip \in BOOLEAN
    BY DEF SkipValidationFrom, WithSkipValidationHandler
  <2>3. ASSUME NEW f, CreateFromFile(u, f, skip) PROVE \E s : Store(s)
    BY <2>3 DEF CreateFromFile
  <2>4. ASSUME NEW p, CreateFromSpec(u, p, skip) PROVE \E s : Store(s)
    BY <2>4 DEF CreateFromSpec
  <2>5. ASSUME NEW body, UpdateV1beta1(u, body, skip) PROVE \E s : Store(s)
    BY <2>5 DEF UpdateV1beta1
  <2>6. ASSUME NEW body, UpdateV1beta2(u, body, skip) PROVE \E s : Store(s)
    BY <2>6 DEF UpdateV1beta2
  <2>7. ASSUME UpdateComposeFile(u, skip) PROVE \E s : Store(s)
    BY <2>7 DEF UpdateComposeFile
  <2> QED
    BY <1>1, <2>1, <2>2, <2>3, <2>4, <2>5, <2>6, <2>7
<1>3. CASE Watch \/ Reconcile
  BY <1>3 DEF Watch, Reconcile
<1>4. CASE ReconcileStatus
  BY <1>4 DEF ReconcileStatus, UpdateStackStatus, Write
<1>5. CASE UNCHANGED vars
  BY <1>5 DEF vars
<1> QED
  BY <1>2, <1>3, <1>4, <1>5 DEF Next

\* The v1beta2 strategy stores the replica counts it is given.
LEMMA UpdatedReplicas ==
    ASSUME NEW old \in Stack, NEW new \in Stack, new.spec \in StackSpec,
           NEW skip \in BOOLEAN, NEW t \in Updated("v1beta2", old, new, skip)
    PROVE  t.spec.replicas = new.spec.replicas
<1> DEFINE fields == setFieldsForV1beta2Update(old, new)
<1>1. fields.spec = new.spec /\ fields.spec # None /\ DOMAIN fields = DOMAIN new
  BY NoneAssumption DEF setFieldsForV1beta2Update, Stack
<1>2. prepareStackFromComposefile(fields, skip) = {fields}
  BY <1>1 DEF prepareStackFromComposefile
<1>3. t \in Validated(MarkChanged(old, fields), skip)
  BY <1>2 DEF Updated
<1> HIDE DEF fields
<1>4. "spec" \in DOMAIN fields
  BY <1>1 DEF Stack
<1>5. MarkChanged(old, fields).spec = new.spec
  BY <1>1, SMT DEF MarkChanged
<1> DEFINE m == MarkChanged(old, fields)
<1>6. "spec" \in DOMAIN m
  BY <1>4 DEF MarkChanged
<1> HIDE DEF m
<1>7. CASE t = m
  BY <1>5, <1>7 DEF m
<1>8. CASE t = [m EXCEPT !.spec.sorted = TRUE]
  <2>1. t.spec = [m.spec EXCEPT !.sorted = TRUE]
    BY <1>6, <1>8
  <2> QED
    BY <2>1, <1>5 DEF m, StackSpec
<1> QED
  BY <1>3, <1>7, <1>8 DEF Validated, m

\* The counts a scale update holds stay those of the stored stack as long as
\* nobody writes it.
LEMMA ScaleInvStep == IInv /\ ScaleInv /\ [Next]_vars => ScaleInv'
<1> SUFFICES ASSUME IInv, ScaleInv, [Next]_vars PROVE ScaleInv'
  OBVIOUS
<1>1. CASE scaling' = Aged(scaling, stack')
  <2> SUFFICES ASSUME scaling' # None, scaling'.current PROVE ScaleInv'
    BY DEF ScaleInv
  <2>1. scaling # None /\ scaling \in Scaling
    BY <1>1 DEF Aged, IInv, TypeOK
  <2>2. scaling' = [scaling EXCEPT !.current = scaling.current /\ stack' = stack]
    BY <1>1, <2>1 DEF Aged
  <2>3. scaling.current /\ stack' = stack
    BY <2>1, <2>2 DEF Scaling
  <2>4. scaling'.counts = scaling.counts /\ scaling'.target = scaling.target
    BY <2>1, <2>2 DEF Scaling
  <2> QED
    BY <2>1, <2>3, <2>4 DEF ScaleInv, Count, ToInt
<1>2. CASE UNCHANGED <<stack, scaling>>
  BY <1>2 DEF ScaleInv, Count, ToInt
<1>3. ASSUME NEW u \in Users, NEW target \in Services, NEW n \in Counts, ScaleGet(u, target, n)
      PROVE  ScaleInv'
  <2> DEFINE c == [s \in Services |-> Count(s, stack.spec.replicas[s])]
  <2>1. /\ stack' = stack /\ stack # None /\ stack.spec # None
        /\ scaling' = [counts |-> [c EXCEPT ![target] = n],
                       target |-> target, owner |-> u, current |-> TRUE]
    BY <1>3 DEF ScaleGet
  <2>2. \A s \in Services \ {target} : [c EXCEPT ![target] = n][s] = Count(s, stack.spec.replicas[s])
    OBVIOUS
  <2>3. scaling'.counts = [c EXCEPT ![target] = n] /\ scaling'.target = target
    BY <2>1
  <2> HIDE DEF c
  <2> QED
    BY <2>1, <2>2, <2>3, SMT DEF ScaleInv, Count, ToInt
<1>4. ASSUME NEW skip \in BOOLEAN, ScaleUpdate(skip) PROVE ScaleInv'
  BY <1>4 DEF ScaleUpdate, ScaleInv
<1> QED
  BY <1>1, <1>2, <1>3, <1>4, ScalingSteps

\* A scale request that nobody overtakes changes the count of the service it
\* names and of no other (stackScaleRest.Update writes the counts of them all).
THEOREM ScaleTouchesOneService == Spec => ScalesOneService
<1>1. Init => ScaleInv
  BY SMT DEF Init, ScaleInv
<1>2. IInv /\ ScaleInv /\ [Next]_vars =>
        [ScalesOneServiceStep]_vars
  <2> SUFFICES ASSUME IInv, ScaleInv, [Next]_vars, scaling # None, scaling' = None,
                      scaling.current, stack' # stack,
                      NEW x \in Services \ {scaling.target}
               PROVE  Count(x, stack'.spec.replicas[x]) = Count(x, stack.spec.replicas[x])
    BY DEF ScalesOneServiceStep
  <2>1. scaling \in Scaling
    BY DEF IInv, TypeOK
  <2>2. scaling' # Aged(scaling, stack')
    <3>1. CASE scaling' = Aged(scaling, stack')
      <4> DEFINE b == scaling.current /\ stack' = stack
      <4>1. b \in BOOLEAN
        BY <2>1 DEF Scaling
      <4>2. Aged(scaling, stack') = [scaling EXCEPT !.current = b]
        BY DEF Aged
      <4> HIDE DEF b
      <4>3. Aged(scaling, stack') \in Scaling
        BY <2>1, <4>1, <4>2 DEF Scaling
      <4> QED
        BY <3>1, <4>3, NoneAssumption
    <3> QED
      BY <3>1
  <2>3. ASSUME NEW u, NEW target, NEW n, ScaleGet(u, target, n) PROVE FALSE
    BY <2>3 DEF ScaleGet
  <2>4. PICK skip \in BOOLEAN : ScaleUpdate(skip)
    BY <2>2, <2>3, ScalingSteps
  <2> DEFINE new == [stack EXCEPT !.spec = ScaledSpec(@), !.owner = scaling.owner]
  <2>5. stack # None /\ stack.spec # None
    BY DEF ScaleInv
  <2>6. PICK s \in Updated("v1beta2", stack, new, skip) : stack' = s
    BY <2>4, StorageFacts DEF ScaleUpdate, Write
  <2>7. stack \in Stack /\ stack.spec \in StackSpec
    BY <2>5 DEF IInv, TypeOK, Stack
  <2>8. scaling.owner \in Users
    BY <2>1 DEF Scaling
  <2>9. /\ ScaledSpec(stack.spec) \in StackSpec
        /\ ScaledSpec(stack.spec).replicas = [r \in Services |-> ToUint64(scaling.counts[r])]
    BY <2>1, <2>7, ScaledSpecFacts
  <2>10. new \in Stack /\ new.spec = ScaledSpec(stack.spec)
    BY <2>7, <2>8, <2>9 DEF Stack
  <2> HIDE DEF new
  <2>11. stack'.spec.replicas[x] = ToUint64(scaling.counts[x])
    BY <2>6, <2>7, <2>9, <2>10, UpdatedReplicas, SMT
  <2>12. scaling.counts[x] = Count(x, stack.spec.replicas[x])
    BY DEF ScaleInv
  <2>13. stack.spec.replicas[x] \in Replicas
    BY <2>7 DEF StackSpec
  <2> QED
    BY <2>11, <2>12, <2>13, CountWritten, SMT
<1> QED
  BY <1>1, <1>2, Invariance, InitInv, ScaleInvStep, PTL DEF Spec, ScalesOneService
-----------------------------------------------------------------------------
(* What is Available is applied *)

Ready(s) == s # None /\ s.phase = "Available" /\ s.spec # None

\* What the controller knows of a stack that is Available: its view, which may
\* be old, is of the same workloads, so that reconciling it again does no harm.
KnownWhenReady ==
    Ready(stack) => cache # None /\ cache.spec # None
                    /\ Workloads(cache.spec) = Workloads(stack.spec)

\* A pass whose status can still be written is about the view in the cache,
\* and what it calls Available for the first time it applied.
PassIsApplied ==
    work # None =>
      /\ work.status \in {"Available", "ConversionError"}
      /\ work.current =>
           /\ fresh /\ cache = work.view
           /\ work.status = "Available" => work.view.spec # None
           /\ work.status = "Available" /\ work.view.phase # "Available"
                => applied = Workloads(work.view.spec)

\* Where users put back the status they read, no stored status is empty.
Reported ==
    /\ stack # None => stack.phase \notin {"Nil", "Unset"}
    /\ cache # None => cache.phase # "Unset"

AppliedInv == AvailableIsApplied /\ KnownWhenReady /\ PassIsApplied /\ Reported

\* The conversion looks at the content and at the counts.
LEMMA SameWorkloads ==
    ASSUME NEW p, NEW q, p.content = q.content, p.replicas = q.replicas
    PROVE  Workloads(p) = Workloads(q)
  BY Zenon DEF Workloads

\* The dry run keeps all but the order of the services.
LEMMA ValidKeeps ==
    ASSUME NEW s \in Stack, NEW skip \in BOOLEAN, NEW t \in Validated(s, skip)
    PROVE  /\ t.phase = s.phase /\ t.file = s.file
           /\ t.spec = None <=> s.spec = None
           /\ s.spec # None => Workloads(t.spec) = Workloads(s.spec)
<1>1. CASE t = s
  BY <1>1
<1>2. CASE s.spec # None /\ t = [s EXCEPT !.spec.sorted = TRUE]
  <2> DEFINE p == [s.spec EXCEPT !.sorted = TRUE]
  <2>1. s.spec \in StackSpec
    BY <1>2 DEF Stack
  <2>2. p \in StackSpec /\ p.content = s.spec.content /\ p.replicas = s.spec.replicas
    BY <2>1 DEF StackSpec
  <2>3. t = [s EXCEPT !.spec = p]
    BY <1>2 DEF Stack
  <2> HIDE DEF p
  <2>4. t.spec = p /\ t.file = s.file /\ t.phase = s.phase
    BY <2>3 DEF Stack
  <2>5. p # None
    BY <2>2, NoneAssumption
  <2>6. Workloads(p) = Workloads(s.spec)
    BY <2>2, SameWorkloads
  <2> QED BY <1>2, <2>4, <2>5, <2>6
<1> QED BY <1>1, <1>2 DEF Validated

\* A status is kept only with the file and the structured stack it is about,
\* and a stack is stored without a structured one only if its file is not parsed.
LEMMA UpdatedKeeps ==
    ASSUME NEW old \in Stack, InSync(old), NEW new \in Stack, NEW skip \in BOOLEAN,
           NEW version \in {"v1beta1", "v1beta2"}, NEW t \in Updated(version, old, new, skip)
    PROVE  /\ t.spec = None => ParsedAs[t.file.text] = None
           /\ t.phase \notin {"Pending", "ParsingError"}
                => /\ t.phase = new.phase /\ t.file = old.file
                   /\ t.spec = None <=> old.spec = None
                   /\ old.spec # None => Workloads(t.spec) = Workloads(old.spec)
<1> DEFINE fields == IF version = "v1beta1" THEN setFieldsForV1beta1Update(old, new)
                                            ELSE setFieldsForV1beta2Update(old, new)
<1>1. fields \in Stack /\ InSync(fields)
  BY FieldsFacts
<1>2. fields.phase = new.phase
  BY DEF setFieldsForV1beta1Update, setFieldsForV1beta2Update, Stack
<1>3. PICK r \in prepareStackFromComposefile(fields, skip) :
        t \in Validated(MarkChanged(old, r), skip)
  BY DEF Updated
<1> HIDE DEF fields
<1>4. r \in Stack
  BY <1>1, <1>3, ParseFacts
<1>5. /\ r.phase \in {fields.phase, "ParsingError"}
      /\ r.spec = None => ParsedAs[r.file.text] = None
  <2>1. CASE fields.spec # None
    BY <1>3, <2>1 DEF prepareStackFromComposefile
  <2>2. CASE fields.spec = None /\ ParsedAs[fields.file.text] # None
    <3>1. PICK p \in LoadStackData(fields.file) : r = [fields EXCEPT !.spec = p]
      BY <1>3, <2>2 DEF prepareStackFromComposefile
    <3>2. r.phase = fields.phase /\ r.spec = p
      BY <1>1, <3>1 DEF Stack
    <3>3. ParsedAs[fields.file.text] \in Contents
      BY <1>1, <2>2, FilesAssumption DEF Stack, File
    <3>4. AsWritten \in [Services -> Replicas]
      BY DEF AsWritten, Replicas
    <3>5. p \in StackSpec
      BY <3>3, <3>4, SMT DEF LoadStackData, StackSpec
    <3> QED BY <3>2, <3>5, NoneAssumption
  <2>3. CASE fields.spec = None /\ ParsedAs[fields.file.text] = None
    <3>1. r = [fields EXCEPT !.phase = "ParsingError"]
      BY <1>3, <2>3 DEF prepareStackFromComposefile
    <3> QED BY <1>1, <2>3, <3>1 DEF Stack
  <2> QED BY <2>1, <2>2, <2>3
<1> DEFINE m == MarkChanged(old, r)
<1>6. /\ m \in Stack /\ m.file = r.file /\ m.spec = r.spec
      /\ m.phase # "Pending" => m = r /\ old.file = r.file /\ old.spec = r.spec
  BY <1>4 DEF MarkChanged, Stack, Phase
<1> HIDE DEF m
<1>7. /\ t.phase = m.phase /\ t.file = m.file
      /\ t.spec = None <=> m.spec = None
      /\ m.spec # None => Workloads(t.spec) = Workloads(m.spec)
  BY <1>3, <1>6, ValidKeeps DEF m
<1> QED BY <1>2, <1>5, <1>6, <1>7

\* What the controller puts back, it puts back as it is; a structured stack
\* that did not change leaves the file alone.
LEMMA PutBack ==
    ASSUME NEW old \in Stack, NEW new \in Stack, new.spec # None,
           NEW t \in Updated("v1beta2", old, new, TRUE)
    PROVE  t.spec = new.spec /\ (new.spec = old.spec => t.file = old.file)
<1> DEFINE o == old.file.outdated \/ (new.spec # old.spec /\ old.file.text # NoFile)
           f == [old.file EXCEPT !.outdated = o]
           fields == [new EXCEPT !.file = f]
<1>1. fields = setFieldsForV1beta2Update(old, new)
  BY DEF setFieldsForV1beta2Update
<1>2. new.spec = old.spec => f = old.file
  <2>1. old.file \in File
    BY DEF Stack
  <2>2. old.file.outdated \in BOOLEAN
    BY <2>1 DEF File
  <2>3. new.spec = old.spec => o = old.file.outdated
    BY <2>2
  <2> HIDE DEF o
  <2> QED BY <2>1, <2>3 DEF File
<1> HIDE DEF f
<1>3. fields.spec = new.spec /\ fields.file = f
  BY DEF Stack
<1>4. DOMAIN fields = {"file", "spec", "owner", "phase"}
  BY DEF Stack
<1> HIDE DEF fields
<1>5. prepareStackFromComposefile(fields, TRUE) = {fields}
  BY <1>3 DEF prepareStackFromComposefile
<1>6. t = MarkChanged(old, fields)
  BY <1>1, <1>5 DEF Updated, Validated
<1>7. t.spec = fields.spec /\ t.file = fields.file
  BY <1>4, <1>6 DEF MarkChanged
<1> QED BY <1>2, <1>3, <1>7

\* A creation is stored as pending.
LEMMA CreatedPending ==
    ASSUME NEW s \in Stack, InSync(s), NEW skip \in BOOLEAN, NEW t \in Created(s, skip)
    PROVE  t.phase = "Pending"
<1>1. PICK r \in prepareStackFromComposefile(s, skip) :
        t \in Validated([r EXCEPT !.phase = "Pending"], skip)
  BY DEF Created
<1>2. r \in Stack /\ InSync(r)
  BY <1>1, ParseFacts
<1> DEFINE m == [r EXCEPT !.phase = "Pending"]
<1>3. m \in Stack /\ m.phase = "Pending"
  BY <1>2 DEF Stack, Phase
<1> HIDE DEF m
<1> QED BY <1>1, <1>3, ValidKeeps DEF m

\* A write of the stack, by a request or by the controller.
LEMMA WriteApplied ==
    ASSUME IInv, AppliedInv, UNCHANGED <<cache, applied>>, NEW s \in Stack, Write(s),
           work' \in {None, Aged(work, s)}, s.phase \notin {"Nil", "Unset"},
           Ready(s) => /\ applied = Workloads(s.spec)
                       /\ cache # None /\ cache.spec # None
                       /\ Workloads(cache.spec) = Workloads(s.spec)
    PROVE  AppliedInv'
<1>1. stack' = s /\ (fresh /\ s = stack => fresh')
  BY DEF Write
<1>2. AvailableIsApplied' /\ KnownWhenReady'
  BY <1>1 DEF AvailableIsApplied, KnownWhenReady, Ready, Workloads, Count, ToInt
<1>3. Reported'
  BY <1>1 DEF Reported, AppliedInv
<1>4. PassIsApplied'
  <2>1. CASE work' = None
    BY <2>1 DEF PassIsApplied
  <2>2. CASE work # None /\ work' = Aged(work, s)
    <3>1. work \in Pass
      BY <2>2 DEF IInv, TypeOK
    <3>2. /\ work'.view = work.view /\ work'.status = work.status
          /\ work'.current = (work.current /\ s = stack)
      BY <2>2, <3>1 DEF Aged, Pass
    <3>3. work'.current => work.current /\ fresh'
      BY <1>1, <2>2, <3>2 DEF AppliedInv, PassIsApplied
    <3> QED BY <2>2, <3>2, <3>3, SMT DEF AppliedInv, PassIsApplied, Workloads, Count, ToInt
  <2>3. CASE work = None /\ work' = Aged(work, s)
    BY <2>3 DEF Aged, PassIsApplied
  <2> QED BY <2>1, <2>2, <2>3
<1> QED BY <1>2, <1>3, <1>4 DEF AppliedInv

\* An update by a user who puts back the status they read.
LEMMA UpdateApplied ==
    ASSUME IInv, AppliedInv, stack # None, UNCHANGED <<cache, applied>>, NEW new \in Stack,
           NEW skip \in BOOLEAN, NEW version \in {"v1beta1", "v1beta2"},
           NEW s \in Updated(version, stack, new, skip), Write(s), work' = Aged(work, s),
           \/ new.phase = stack.phase
           \/ new.phase = "Nil" /\ stack.spec = None /\ ParsedAs[stack.file.text] # None
    PROVE  AppliedInv'
<1>1. stack \in Stack /\ InSync(stack)
  BY SentFacts
<1>2. s \in Stack
  BY <1>1, UpdatedFacts
<1>3. /\ s.spec = None => ParsedAs[s.file.text] = None
      /\ s.phase \notin {"Pending", "ParsingError"}
           => /\ s.phase = new.phase /\ s.file = stack.file
              /\ s.spec = None <=> stack.spec = None
              /\ stack.spec # None => Workloads(s.spec) = Workloads(stack.spec)
  BY <1>1, UpdatedKeeps, SMT
<1>4. s.phase \notin {"Nil", "Unset"}
  BY <1>3 DEF AppliedInv, Reported
<1>5. Ready(s) => /\ applied = Workloads(s.spec)
                  /\ cache # None /\ cache.spec # None
                  /\ Workloads(cache.spec) = Workloads(s.spec)
  BY <1>3 DEF Ready, AppliedInv, AvailableIsApplied, KnownWhenReady
<1> QED BY <1>2, <1>4, <1>5, WriteApplied

\* A creation.
LEMMA CreateApplied ==
    ASSUME IInv, AppliedInv, NEW u \in Users, NEW skip \in SkipValidationFrom,
           \/ \E f \in Files : CreateFromFile(u, f, skip)
           \/ \E p \in [content : Contents, sorted : BOOLEAN, replicas : {AsWritten}] \cup {None} :
                CreateFromSpec(u, p, skip)
    PROVE  AppliedInv'
<1> skip \in BOOLEAN
  BY DEF SkipValidationFrom, WithSkipValidationHandler
<1>1. ASSUME Request, NEW new \in Stack, InSync(new), NEW s \in Created(new, skip), Store(s)
      PROVE  AppliedInv'
  <2>1. s \in Stack /\ s.phase = "Pending"
    BY <1>1, CreatedFacts, CreatedPending
  <2>2. UNCHANGED <<cache, applied>> /\ Write(s) /\ work' = Aged(work, s)
    BY <1>1 DEF Request, Store
  <2> QED BY <2>1, <2>2, WriteApplied DEF Ready
<1>2. ASSUME NEW f \in Files, CreateFromFile(u, f, skip)
      PROVE  AppliedInv'
  <2> DEFINE new == [file |-> Plain(f), spec |-> None, owner |-> u, phase |-> "Nil"]
  <2>1. new \in Stack /\ InSync(new)
    BY DEF Stack, File, Plain, Phase, InSync
  <2>2. Request /\ \E s \in Created(new, skip) : Store(s)
    BY <1>2 DEF CreateFromFile
  <2> HIDE DEF new
  <2> QED BY <1>1, <2>1, <2>2
<1>3. ASSUME NEW p \in [content : Contents, sorted : BOOLEAN, replicas : {AsWritten}] \cup {None},
             CreateFromSpec(u, p, skip)
      PROVE  AppliedInv'
  <2> DEFINE new == [file |-> Plain(NoFile), spec |-> p, owner |-> u, phase |-> "Nil"]
  <2>1. AsWritten \in [Services -> Replicas]
    BY DEF AsWritten, Replicas
  <2>2. p \in StackSpec \cup {None}
    BY <2>1 DEF StackSpec
  <2>3. new \in Stack /\ InSync(new)
    BY <2>2 DEF Stack, File, Plain, Phase, InSync
  <2>4. Request /\ \E s \in Created(new, skip) : Store(s)
    BY <1>3 DEF CreateFromSpec
  <2> HIDE DEF new
  <2> QED BY <1>1, <2>3, <2>4
<1> QED BY <1>2, <1>3

\* An update in either version, or of the composeFile subresource.
LEMMA UserUpdateApplied ==
    ASSUME IInv, AppliedInv, Bodies \subseteq {"kept"}, NEW u \in Users,
           NEW skip \in SkipValidationFrom,
           \/ \E body \in Bodies : UpdateV1beta1(u, body, skip)
           \/ \E body \in Bodies : UpdateV1beta2(u, body, skip)
           \/ UpdateComposeFile(u, skip)
    PROVE  AppliedInv'
<1> skip \in BOOLEAN
  BY DEF SkipValidationFrom, WithSkipValidationHandler
<1>1. stack # None /\ UNCHANGED <<cache, applied>>
  BY DEF UpdateV1beta1, UpdateV1beta2, UpdateComposeFile, Request
<1>2. /\ stack \in Stack /\ InSync(stack)
      /\ SentFiles \subseteq File
      /\ SentSpecs \subseteq StackSpec \cup {None}
      /\ \A body : V1beta1Phase(body) \in Phase /\ V1beta2Phase(body) \in Phase
  BY <1>1, SentFacts
<1>3. ASSUME NEW new \in Stack, NEW version \in {"v1beta1", "v1beta2"},
             \E s \in Updated(version, stack, new, skip) : Store(s),
             \/ new.phase = stack.phase
             \/ new.phase = "Nil" /\ stack.spec = None /\ ParsedAs[stack.file.text] # None
      PROVE  AppliedInv'
  <2>1. PICK s \in Updated(version, stack, new, skip) : Store(s)
    BY <1>3
  <2>2. Write(s) /\ work' = Aged(work, s)
    BY <2>1 DEF Store
  <2> QED BY <1>1, <1>3, <2>2, UpdateApplied
<1>4. ASSUME NEW body \in Bodies, UpdateV1beta1(u, body, skip)
      PROVE  AppliedInv'
  <2> DEFINE New(f) == [file |-> f, spec |-> None, owner |-> u, phase |-> V1beta1Phase(body)]
  <2>1. PICK f \in SentFiles : \E s \in Updated("v1beta1", stack, New(f), skip) : Store(s)
    BY <1>4, StorageFacts DEF UpdateV1beta1
  <2>2. New(f) \in Stack
    BY <1>2 DEF Stack
  <2>3. New(f).phase = stack.phase
    BY <1>1 DEF V1beta1Phase, AppliedInv, Reported
  <2> HIDE DEF New
  <2> QED BY <1>3, <2>1, <2>2, <2>3
<1>5. ASSUME NEW body \in Bodies, UpdateV1beta2(u, body, skip)
      PROVE  AppliedInv'
  <2> DEFINE New(p) == [file |-> Plain(NoFile), spec |-> p, owner |-> u,
                        phase |-> V1beta2Phase(body)]
  <2>1. PICK p \in SentSpecs : \E s \in Updated("v1beta2", stack, New(p), skip) : Store(s)
    BY <1>5, StorageFacts DEF UpdateV1beta2
  <2>2. New(p) \in Stack
    BY <1>2 DEF Stack, File, Plain
  <2>3. \/ New(p).phase = stack.phase
        \/ New(p).phase = "Nil" /\ stack.spec = None /\ ParsedAs[stack.file.text] # None
    BY DEF V1beta2Phase, stackFromInternalV1alpha3
  <2> HIDE DEF New
  <2> QED BY <1>3, <2>1, <2>2, <2>3
<1>6. ASSUME UpdateComposeFile(u, skip)
      PROVE  AppliedInv'
  <2> DEFINE New(f) == [stack EXCEPT !.file = f, !.spec = None, !.owner = u]
  <2>1. PICK f \in SentFiles : \E s \in Updated("v1beta1", stack, New(f), skip) : Store(s)
    BY <1>6, StorageFacts DEF UpdateComposeFile
  <2>2. New(f) \in Stack /\ New(f).phase = stack.phase
    BY <1>2 DEF Stack
  <2> HIDE DEF New
  <2> QED BY <1>3, <2>1, <2>2
<1> QED BY <1>4, <1>5, <1>6

\* The two halves of a scale update.
LEMMA ScaleApplied ==
    ASSUME IInv, AppliedInv, NEW u \in Users, NEW skip \in SkipValidationFrom,
           \/ \E target \in Services, n \in Counts : ScaleGet(u, target, n)
           \/ ScaleUpdate(skip)
    PROVE  AppliedInv'
<1> skip \in BOOLEAN
  BY DEF SkipValidationFrom, WithSkipValidationHandler
<1>1. UNCHANGED <<cache, applied>>
  BY DEF ScaleGet, Request, ScaleUpdate
<1>2. CASE UNCHANGED <<stack, fresh, work>>
  BY <1>1, <1>2 DEF AppliedInv, AvailableIsApplied, KnownWhenReady, Ready, PassIsApplied,
                    Reported, Workloads, Count, ToInt
<1>3. CASE ~UNCHANGED <<stack, fresh, work>>
  <2>1. scaling # None /\ stack # None /\ stack.spec # None
    BY <1>3 DEF ScaleGet, ScaleUpdate
  <2>2. stack \in Stack /\ stack.spec \in StackSpec
    BY <2>1, SentFacts DEF Stack
  <2> DEFINE new == [stack EXCEPT !.spec = ScaledSpec(@), !.owner = scaling.owner]
  <2>3. scaling \in Scaling /\ scaling.owner \in Users
    BY <2>1 DEF IInv, TypeOK, Scaling
  <2>4. ScaledSpec(stack.spec) \in StackSpec
    BY <2>2, <2>3, ScaledSpecFacts
  <2>5. new \in Stack /\ new.phase = stack.phase
    BY <2>2, <2>3, <2>4 DEF Stack
  <2>6. PICK s \in Updated("v1beta2", stack, new, skip) : Write(s) /\ work' = Aged(work, s)
    BY <1>3, StorageFacts DEF ScaleGet, ScaleUpdate
  <2> HIDE DEF new
  <2> QED BY <1>1, <2>1, <2>5, <2>6, UpdateApplied
<1> QED BY <1>2, <1>3

\* The informer and the reconciler.
LEMMA WatchApplied ==
    ASSUME IInv, AppliedInv, Watch
    PROVE  AppliedInv'
<1>1. stack # None /\ ~fresh /\ cache' = stackFromInternalV1alpha3(stack)
      /\ UNCHANGED <<stack, work, applied>>
  BY DEF Watch
<1>2. /\ stack.spec # None => cache'.spec = stack.spec
      /\ cache'.phase \in {"Nil", stack.phase}
      /\ cache' \in View
  BY <1>1 DEF stackFromInternalV1alpha3, IInv, TypeOK, Stack, View, Phase
<1>3. cache' # None
  BY <1>2, NoneAssumption
<1>4. AvailableIsApplied'
  BY <1>1 DEF AppliedInv, AvailableIsApplied, Workloads, Count, ToInt
<1>5. KnownWhenReady'
  BY <1>1, <1>2, <1>3 DEF KnownWhenReady, Ready, Workloads, Count, ToInt
<1>6. PassIsApplied' /\ Reported'
  BY <1>1, <1>2 DEF AppliedInv, PassIsApplied, Reported
<1> QED BY <1>4, <1>5, <1>6 DEF AppliedInv

\* What the conversion sorts it does not change otherwise.
LEMMA SortedFacts ==
    ASSUME NEW view \in View
    PROVE  /\ Sorted(view) \in View
           /\ Sorted(view).phase = view.phase
           /\ Sorted(view).spec = None <=> view.spec = None
           /\ view.spec # None => /\ Workloads(Sorted(view).spec) = Workloads(view.spec)
                                  /\ view.spec.sorted => Sorted(view) = view
           /\ Sorted(Sorted(view)) = Sorted(view)
<1>1. CASE view.spec = None
  BY <1>1 DEF Sorted
<1>2. CASE view.spec # None
  <2> DEFINE p == [view.spec EXCEPT !.sorted = TRUE]
  <2>1. view.spec \in StackSpec
    BY <1>2 DEF View
  <2>2. /\ p \in StackSpec /\ p.content = view.spec.content /\ p.replicas = view.spec.replicas
        /\ p.sorted /\ (view.spec.sorted => p = view.spec)
    BY <2>1 DEF StackSpec
  <2>3. Sorted(view) = [view EXCEPT !.spec = p]
    BY <1>2 DEF Sorted, View
  <2>4. [p EXCEPT !.sorted = TRUE] = p
    BY <2>2 DEF StackSpec
  <2> HIDE DEF p
  <2> DEFINE v == [view EXCEPT !.spec = p]
  <2>5. v \in View /\ v.spec = p /\ v.phase = view.phase /\ (p = view.spec => v = view)
    BY <2>2 DEF View
  <2>6. p # None
    BY <2>2, NoneAssumption
  <2>7. Workloads(p) = Workloads(view.spec)
    BY <2>2, SameWorkloads
  <2>8. Sorted(v) = v
    <3>1. Sorted(v) = [v EXCEPT !.spec = [v.spec EXCEPT !.sorted = TRUE]]
      BY <2>5, <2>6 DEF Sorted, View
    <3> HIDE DEF v
    <3> QED BY <2>4, <2>5, <3>1, ZenonT(30) DEF View
  <2> HIDE DEF v
  <2> QED BY <1>2, <2>2, <2>3, <2>5, <2>6, <2>7, <2>8 DEF v
<1> QED BY <1>1, <1>2

\* What the controller applies is what the stack held when it looked.
LEMMA ReconcileApplied ==
    ASSUME IInv, AppliedInv, Reconcile
    PROVE  AppliedInv'
<1>1. /\ cache # None /\ work = None /\ cache' = Sorted(cache)
      /\ work' = [view |-> cache', current |-> fresh,
                  status |-> IF Converts(cache) THEN "Available" ELSE "ConversionError"]
      /\ applied' = IF Converts(cache) /\ (applied = None \/ IsStackDirty(cache.phase))
                    THEN Workloads(cache.spec) ELSE applied
      /\ UNCHANGED <<stack, fresh>>
  BY DEF Reconcile
<1>2. cache \in View
  BY <1>1 DEF IInv, TypeOK
<1>3. /\ cache' \in View /\ cache'.phase = cache.phase
      /\ cache'.spec = None <=> cache.spec = None
      /\ cache.spec # None => Workloads(cache'.spec) = Workloads(cache.spec)
  BY <1>1, <1>2, SortedFacts
<1>4. cache' # None
  BY <1>3, NoneAssumption
<1>5. Ready(stack) => applied' = Workloads(stack.spec) /\ cache'.spec # None
                      /\ Workloads(cache'.spec) = Workloads(stack.spec)
  BY <1>1, <1>3 DEF AppliedInv, AvailableIsApplied, KnownWhenReady, Ready
<1>6. AvailableIsApplied' /\ KnownWhenReady'
  BY <1>1, <1>4, <1>5 DEF AvailableIsApplied, KnownWhenReady, Ready, Workloads, Count, ToInt
<1>7. Reported'
  BY <1>1, <1>3 DEF AppliedInv, Reported
<1>8. Converts(cache) /\ cache.phase # "Available" => applied' = Workloads(cache'.spec)
  BY <1>1, <1>3 DEF AppliedInv, Reported, IsStackDirty, Converts
<1>9. PassIsApplied'
  <2>1. /\ work'.view = cache' /\ work'.current = fresh'
        /\ work'.status = IF Converts(cache) THEN "Available" ELSE "ConversionError"
    BY <1>1
  <2>2. work'.status = "Available" => Converts(cache) /\ cache'.spec # None
    BY <1>3, <2>1 DEF Converts
  <2> QED BY <1>3, <1>8, <2>1, <2>2 DEF PassIsApplied, Workloads, Count, ToInt
<1> QED BY <1>6, <1>7, <1>9 DEF AppliedInv

\* A status tells of what the controller has applied.
LEMMA StatusApplied ==
    ASSUME IInv, AppliedInv, ReconcileStatus
    PROVE  AppliedInv'
<1>1. work # None /\ work' = None /\ UpdateStackStatus /\ UNCHANGED <<cache, applied>>
  BY DEF ReconcileStatus
<1>2. CASE UNCHANGED <<stack, fresh, scaling>>
  BY <1>1, <1>2 DEF AppliedInv, AvailableIsApplied, KnownWhenReady, Ready, PassIsApplied,
                    Reported, Workloads, Count, ToInt
<1>3. CASE ~UNCHANGED <<stack, fresh, scaling>>
  <2> DEFINE new == [file |-> Plain(NoFile), spec |-> work.view.spec,
                     owner |-> stack.owner, phase |-> work.status]
  <2>1. stack # None /\ work.current /\ work.view.phase # work.status
    BY <1>1, <1>3 DEF UpdateStackStatus
  <2>2. PICK s \in Updated("v1beta2", stack, new, TRUE) : Write(s)
    BY <1>1, <1>3, StorageFacts DEF UpdateStackStatus
  <2>3. stack \in Stack /\ InSync(stack)
    BY <2>1, SentFacts
  <2>4. work.view \in View /\ work.status \in Phase
    BY <1>1 DEF IInv, TypeOK, Pass
  <2>5. new \in Stack /\ new.phase = work.status /\ new.spec = work.view.spec
    BY <2>3, <2>4 DEF Stack, File, Plain, View
  <2> HIDE DEF new
  <2>6. s \in Stack
    BY <2>2, <2>3, <2>5, UpdatedFacts
  <2>7. s.phase \notin {"Pending", "ParsingError"}
          => /\ s.phase = work.status
             /\ stack.spec # None => Workloads(s.spec) = Workloads(stack.spec)
             /\ s.spec = None <=> stack.spec = None
    BY <2>2, <2>3, <2>5, UpdatedKeeps
  <2>8. work.status \notin {"Nil", "Unset"}
    BY <1>1 DEF AppliedInv, PassIsApplied
  <2>9. work.status = "Available"
          => /\ applied = Workloads(work.view.spec) /\ work.view.spec # None
             /\ cache = work.view /\ cache # None
    BY <1>1, <2>1, <2>4, NoneAssumption DEF AppliedInv, PassIsApplied
  <2>10. work.status = "Available" => Workloads(s.spec) = Workloads(work.view.spec)
    BY <2>2, <2>3, <2>5, <2>9, PutBack
  <2>11. Ready(s) => /\ applied = Workloads(s.spec)
                     /\ cache # None /\ cache.spec # None
                     /\ Workloads(cache.spec) = Workloads(s.spec)
    BY <2>7, <2>9, <2>10 DEF Ready
  <2>12. s.phase \notin {"Nil", "Unset"}
    BY <2>7, <2>8
  <2> QED BY <1>1, <2>2, <2>6, <2>11, <2>12, WriteApplied
<1> QED BY <1>2, <1>3

\* Every step preserves it.
LEMMA AppliedStep ==
    ASSUME Bodies \subseteq {"kept"}
    PROVE  IInv /\ AppliedInv /\ [Next]_vars => AppliedInv'
<1> SUFFICES ASSUME IInv, AppliedInv, [Next]_vars PROVE AppliedInv'
  OBVIOUS
<1>1. CASE UserRequest
  <2>1. PICK u \in Users, skip \in SkipValidationFrom :
          \/ \E f \in Files : CreateFromFile(u, f, skip)
          \/ \E p \in [content : Contents, sorted : BOOLEAN, replicas : {AsWritten}] \cup {None} :
               CreateFromSpec(u, p, skip)
          \/ \E body \in Bodies : UpdateV1beta1(u, body, skip)
          \/ \E body \in Bodies : UpdateV1beta2(u, body, skip)
          \/ UpdateComposeFile(u, skip)
          \/ \E target \in Services, n \in Counts : ScaleGet(u, target, n)
          \/ ScaleUpdate(skip)
    BY <1>1 DEF UserRequest
  <2> QED BY <2>1, CreateApplied, UserUpdateApplied, ScaleApplied
<1>2. CASE Watch \/ Reconcile \/ ReconcileStatus
  BY <1>2, WatchApplied, ReconcileApplied, StatusApplied
<1>3. CASE UNCHANGED vars
  BY <1>3 DEF vars, AppliedInv, AvailableIsApplied, KnownWhenReady, Ready, PassIsApplied,
              Reported, Workloads, Count, ToInt
<1> QED BY <1>1, <1>2, <1>3 DEF Next

\* Available means applied: through whichever ways in the stack was written,
\* and however late the controller's view and its status are, a stack that is
\* Available runs the workloads of the stored spec, so that what
\* reconcileChildren skips is up to date.  The users put back the status they
\* read: a v1beta1 body without a status replaces "Pending" by the empty phase,
\* which IsStackDirty takes for clean, and then the theorem does not hold.
THEOREM AvailableStacksAreApplied ==
    ASSUME Bodies \subseteq {"kept"}
    PROVE  Spec => []AvailableIsApplied
<1>1. Init => AppliedInv
  <2> SUFFICES ASSUME Init PROVE AppliedInv
    OBVIOUS
  <2>1. stack # None => \E u \in Users, f \in Files : stack = OldStack(u, f)
    <3> HIDE DEF OldStack
    <3> QED BY SMT DEF Init
  <2>2. stack # None => stack.spec = None /\ stack.phase = "Available"
    BY <2>1, SMT DEF OldStack
  <2>3. cache = None /\ work = None
    BY DEF Init
  <2> QED BY <2>2, <2>3 DEF AppliedInv, AvailableIsApplied, KnownWhenReady, Ready,
                            PassIsApplied, Reported
<1>2. IInv /\ AppliedInv /\ [Next]_vars => AppliedInv'
  BY AppliedStep
<1>3. AppliedInv => AvailableIsApplied
  BY DEF AppliedInv
<1> QED BY <1>1, <1>2, <1>3, Invariance, PTL DEF Spec
-----------------------------------------------------------------------------
(* A status leaves the compose file alone *)

\* A view with the stored resource version is the stored stack, sorted or not,
\* and a pass that can still write holds it sorted.
ViewIsStored ==
    /\ fresh => /\ stack # None
                /\ \/ cache = stackFromInternalV1alpha3(stack)
                   \/ cache = Sorted(stackFromInternalV1alpha3(stack))
    /\ work # None /\ work.current
         => fresh /\ work.view = Sorted(stackFromInternalV1alpha3(stack))

\* A write ends the freshness of every reader, unless it changed nothing.
LEMMA WriteEndsFreshness ==
    ASSUME IInv, ViewIsStored, UNCHANGED cache, NEW s, Write(s),
           work' \in {None, Aged(work, s)}
    PROVE  ViewIsStored'
<1>1. stack' = s /\ (fresh' <=> fresh /\ s = stack)
  BY DEF Write
<1>2. work' # None /\ work'.current => work # None /\ work.current /\ s = stack /\ work'.view = work.view
  <2> SUFFICES ASSUME work' # None, work'.current
               PROVE  work # None /\ work.current /\ s = stack /\ work'.view = work.view
    OBVIOUS
  <2>1. work # None /\ work \in Pass /\ work' = [work EXCEPT !.current = work.current /\ s = stack]
    BY DEF Aged, IInv, TypeOK
  <2> QED BY <2>1 DEF Pass
<1> QED BY <1>1, <1>2 DEF ViewIsStored, stackFromInternalV1alpha3, Sorted

\* What may happen to the stored stack and to the controller's readings of it.
LEMMA ReaderSteps ==
    ASSUME [Next]_vars
    PROVE  \/ UNCHANGED <<stack, cache, fresh, work>>
           \/ UNCHANGED cache /\ \E s : Write(s) /\ work' = Aged(work, s)
           \/ Watch \/ Reconcile \/ ReconcileStatus
<1> DEFINE Written == UNCHANGED cache /\ \E s : Write(s) /\ work' = Aged(work, s)
<1>1. ASSUME Request, NEW s, Store(s) PROVE Written
  BY <1>1 DEF Request, Store
<1>2. CASE UserRequest
  <2>1. PICK u \in Users, skip \in SkipValidationFrom :
          \/ \E f \in Files : CreateFromFile(u, f, skip)
          \/ \E p \in [content : Contents, sorted : BOOLEAN, replicas : {AsWritten}] \cup {None} :
               CreateFromSpec(u, p, skip)
          \/ \E body \in Bodies : UpdateV1beta1(u, body, skip)
          \/ \E body \in Bodies : UpdateV1beta2(u, body, skip)
          \/ UpdateComposeFile(u, skip)
          \/ \E target \in Services, n \in Counts : ScaleGet(u, target, n)
          \/ ScaleUpdate(skip)
    BY <1>2 DEF UserRequest
  <2>2. ASSUME NEW f, CreateFromFile(u, f, skip) PROVE Request /\ \E s : Store(s)
    BY <2>2 DEF CreateFromFile
  <2>3. ASSUME NEW p, CreateFromSpec(u, p, skip) PROVE Request /\ \E s : Store(s)
    BY <2>3 DEF CreateFromSpec
  <2>4. ASSUME NEW body, UpdateV1beta1(u, body, skip) PROVE Request /\ \E s : Store(s)
    BY <2>4 DEF UpdateV1beta1
  <2>5. ASSUME NEW body, UpdateV1beta2(u, body, skip) PROVE Request /\ \E s : Store(s)
    BY <2>5 DEF UpdateV1beta2
  <2>6. ASSUME UpdateComposeFile(u, skip) PROVE Request /\ \E s : Store(s)
    BY <2>6 DEF UpdateComposeFile
  <2>7. ASSUME NEW target, NEW n, ScaleGet(u, target, n)
        PROVE  UNCHANGED <<stack, cache, fresh, work>>
    BY <2>7 DEF ScaleGet, Request
  <2>8. ASSUME ScaleUpdate(skip) PROVE UNCHANGED <<stack, cache, fresh, work>> \/ Written
    BY <2>8 DEF ScaleUpdate
  <2> HIDE DEF Written
  <2>9. ASSUME Request /\ \E s : Store(s) PROVE Written
    BY <1>1, <2>9
  <2>10. UNCHANGED <<stack, cache, fresh, work>> \/ Written
    BY <2>1, <2>2, <2>3, <2>4, <2>5, <2>6, <2>7, <2>8, <2>9
  <2> QED BY <2>10 DEF Written
<1> QED BY <1>2 DEF Next, vars

\* Whoever writes the stack takes the view's resource version out of date.
LEMMA ViewStep == IInv /\ ViewIsStored /\ [Next]_vars => ViewIsStored'
<1> SUFFICES ASSUME IInv, ViewIsStored, [Next]_vars PROVE ViewIsStored'
  OBVIOUS
<1> DEFINE v == stackFromInternalV1alpha3(stack)
<1>1. CASE UNCHANGED <<stack, cache, fresh, work>>
  BY <1>1 DEF ViewIsStored, stackFromInternalV1alpha3, Sorted
<1>2. CASE UNCHANGED cache /\ \E s : Write(s) /\ work' = Aged(work, s)
  BY <1>2, WriteEndsFreshness
<1>3. CASE Watch
  <2>1. stack # None /\ ~fresh /\ fresh' /\ cache' = v /\ UNCHANGED <<stack, work>>
    BY <1>3 DEF Watch
  <2> QED BY <2>1 DEF ViewIsStored, stackFromInternalV1alpha3
<1>4. CASE Reconcile
  <2>1. /\ cache' = Sorted(cache) /\ UNCHANGED <<stack, fresh>>
        /\ work'.view = cache' /\ work'.current = fresh /\ cache # None
    BY <1>4 DEF Reconcile
  <2>2. fresh => v \in View
    BY DEF ViewIsStored, IInv, TypeOK, stackFromInternalV1alpha3, Stack, View, Phase
  <2>3. fresh => cache' = Sorted(v)
    BY <2>1, <2>2, SortedFacts DEF ViewIsStored
  <2> QED BY <2>1, <2>3 DEF ViewIsStored, stackFromInternalV1alpha3, Sorted
<1>5. CASE ReconcileStatus
  <2>1. work' = None /\ UNCHANGED cache /\ UpdateStackStatus
    BY <1>5 DEF ReconcileStatus
  <2>2. CASE UNCHANGED <<stack, fresh>>
    BY <2>1, <2>2 DEF ViewIsStored, stackFromInternalV1alpha3, Sorted
  <2>3. CASE \E s : Write(s)
    BY <2>1, <2>3, WriteEndsFreshness
  <2> QED BY <2>1, <2>2, <2>3 DEF UpdateStackStatus
<1> QED BY <1>1, <1>2, <1>3, <1>4, <1>5, ReaderSteps

\* A pass that ends puts back the stored services, sorted.
LEMMA StatusKeepsFileStep ==
    ASSUME IInv, ViewIsStored, [Next]_vars, work # None, work' = None,
           stack.spec # None, stack.spec.sorted
    PROVE  stack'.file = stack.file
<1>1. ASSUME NEW s, work' = Aged(work, s) PROVE FALSE
  <2>1. work' \in Pass
    <3> DEFINE b == work.current /\ s = stack
    <3>1. work \in Pass /\ b \in BOOLEAN
      BY DEF IInv, TypeOK, Pass
    <3>2. work' = [work EXCEPT !.current = b]
      BY <1>1 DEF Aged
    <3> HIDE DEF b
    <3> QED BY <3>1, <3>2 DEF Pass
  <2> QED BY <2>1, NoneAssumption
<1>2. ~Reconcile /\ (UNCHANGED stack => stack'.file = stack.file)
  BY DEF Reconcile
<1>3. CASE ReconcileStatus /\ ~UNCHANGED stack
  <2> DEFINE new == [file |-> Plain(NoFile), spec |-> work.view.spec,
                     owner |-> stack.owner, phase |-> work.status]
             v == stackFromInternalV1alpha3(stack)
  <2>1. stack # None /\ work.current
    BY <1>3 DEF ReconcileStatus, UpdateStackStatus
  <2>2. PICK s \in Updated("v1beta2", stack, new, TRUE) : stack' = s
    BY <1>3, StorageFacts DEF ReconcileStatus, UpdateStackStatus, Write
  <2>3. stack \in Stack
    BY <2>1 DEF IInv, TypeOK
  <2>4. v \in View /\ v.spec = stack.spec
    BY <2>3 DEF stackFromInternalV1alpha3, Stack, View, Phase
  <2>5. work.view = v
    <3> HIDE DEF v
    <3> QED BY <2>1, <2>4, SortedFacts DEF ViewIsStored, v
  <2>6. work.status \in Phase
    BY DEF IInv, TypeOK, Pass
  <2>7. new \in Stack /\ new.spec = stack.spec
    BY <2>3, <2>4, <2>5, <2>6 DEF Stack, File, Plain
  <2> HIDE DEF new
  <2>8. s.spec = new.spec /\ (new.spec = stack.spec => s.file = stack.file)
    <3>1. new.spec # None
      BY <2>7
    <3> QED BY ONLY <2>2, <2>3, <2>7, <3>1, PutBack, Zenon
  <2> QED BY <2>2, <2>7, <2>8
<1>4. CASE Watch
  BY <1>4 DEF Watch
<1> QED BY <1>1, <1>2, <1>3, <1>4, ReaderSteps

\* updateStackStatus writes a whole stack to put a status, and yet the "outdated"
\* header is for those who update the stack: whatever the users sent before, a
\* status leaves the compose file alone if the stored services are sorted.
THEOREM StatusLeavesFile == Spec => StatusKeepsFile
<1>1. Init => ViewIsStored
  BY SMT DEF Init, ViewIsStored
<1>2. IInv /\ ViewIsStored /\ [Next]_vars => ViewIsStored'
  BY ViewStep
<1>3. IInv /\ ViewIsStored /\ [Next]_vars
        => [work # None /\ work' = None /\ stack.spec # None /\ stack.spec.sorted
              => stack'.file = stack.file]_vars
  BY StatusKeepsFileStep
<1> QED BY <1>1, <1>2, <1>3, Invariance, PTL DEF Spec, StatusKeepsFile
=============================================================================
