-------------------------- MODULE InstallerProofs ---------------------------
(***************************************************************************)
(* However many commands are run, wherever they stop and whatever fails:   *)
(*   - no stack is left without a copy while Update moves it;              *)
(*   - an uninstallation that reports success has left nothing behind;     *)
(*   - an Update that reports success has restored every stack;            *)
(*   - the move to the API server deletes no workload;                     *)
(*   - an installation that reports success is complete, if no command     *)
(*     before it ended early and the tags tell the images.                 *)
(*                                                                         *)
(* The first invariant ties the program that is left to the place where    *)
(* the stacks are: as long as a step of Backup is ahead, they are served   *)
(* and stay so; afterwards, all of them are in the backup, and the backup  *)
(* stays.  The other commands that destroy have given the stacks up.  The  *)
(* others read off the program that is left what the steps already made    *)
(* have done to the cluster.                                               *)
(***************************************************************************)
EXTENDS Installer, Integers, TLAPS

\* Most leaves are first-order reasoning on sets, functions and records; the
\* ones that need arithmetic, sequences or long case splits ask for SMT.
USE Zenon

\* The steps of Backup and before it, and those that never come before them.
Early == {"dryRun", "getBackupCrd", "poll", "createBackupCrd", "listForBackup", "copy"}
Late ==
    {"do", "doWithoutController", "doControllerOnly", "serviceAccount", "rbac",
     "compose-etcd", "compose-tls", "compose-api", "service", "debugAPIServer", "compose",
     "debugController", "defaultRoles", "isRunning", "deleteController", "uninstallApps",
     "deleteCRD", "uninstallRbac", "deleteAPIServices", "uninstallCore", "waitForNoApps",
     "waitForNoRbac", "waitForNoAPIAggregation", "waitForNoCoreComponents", "waitForNoCrd",
     "getCRD", "listStacks", "orphan", "waitForNoStacks", "removeCRD", "waitForNoCRD",
     "listBackup", "restore"}

\* What follows an early step other than the last one.
After(step) ==
    CASE step = "dryRun" -> "getBackupCrd"
      [] step \in {"getBackupCrd", "poll"} -> "createBackupCrd"
      [] step = "createBackupCrd" -> "listForBackup"
      [] OTHER -> "copy"

Sorted(s) ==
    \A i \in 1 .. Len(s) :
        /\ s[i] \in Early \ {"copy"} => i < Len(s) /\ s[i + 1] = After(s[i])
        /\ s[i] \in Late \cup {"copy"} => \A j \in i + 1 .. Len(s) : s[j] \in Late

GivesUp == {"install", "uninstall", "uninstallAPIServer"}

Programs ==
    /\ cmd.name \in GivesUp \cup {"none", "update", "restore", "deleteBackup"}
    /\ cmd.name = "none" => todo = <<>>
    /\ cmd.name \in GivesUp => todo \in Seq(Late)
    /\ cmd.name = "update" => todo \in Seq(Early \cup Late) /\ Sorted(todo)
    /\ cmd.name = "restore" => todo \in Seq({"listBackup", "restore"})
    /\ cmd.name = "deleteBackup" => todo \in Seq({"deleteBackup"})

\* The places where the known stacks are and stay.
InBackup == known \subseteq backup /\ backupCrd = "present"
InCRD == known \subseteq crdStacks /\ crd = "present"
InAPI == known \subseteq apiStacks /\ ~Leaving
Safe == known = {} \/ InBackup \/ InCRD \/ InAPI

Places ==
    /\ Safe
    /\ todo # <<>> =>
         /\ cmd.name \in GivesUp => known = {}
         /\ cmd.name = "deleteBackup" => InAPI
         /\ cmd.name = "update" /\ Head(todo) \in Late => InBackup
         /\ cmd.name = "update" /\ Head(todo) \in Early =>
              /\ Settled
              /\ Head(todo) \in {"listForBackup", "copy"} => backupCrd = "present"
              /\ Head(todo) = "copy" => known \subseteq listed \cup backup

IInv == Programs /\ Places
-----------------------------------------------------------------------------
(* Sequences.  These are facts of SequenceTheorems, proved again: with that  *)
(* module in its context, every obligation below takes half as long again.   *)

\* A sequence is one of any larger set.
LEMMA SeqMonotonic ==
    ASSUME NEW A, NEW B, A \subseteq B, NEW s \in Seq(A) PROVE s \in Seq(B)
  BY SMT

\* It has its elements in the set.
LEMMA ElementOfSeq ==
    ASSUME NEW A, NEW s \in Seq(A), NEW i \in 1 .. Len(s) PROVE s[i] \in A
  BY SMT

\* The empty one is of every set, and the only one without elements.
LEMMA EmptySeq ==
    ASSUME NEW A
    PROVE  <<>> \in Seq(A) /\ Len(<<>>) = 0 /\ \A s \in Seq(A) : s # <<>> => Len(s) \in Nat \ {0}
  BY SMT

\* It is a function on the numbers up to its length.
LEMMA LenProperties ==
    ASSUME NEW A, NEW s \in Seq(A)
    PROVE  Len(s) \in Nat /\ DOMAIN s = 1 .. Len(s) /\ s \in [1 .. Len(s) -> A]
  BY SMT

\* Two with the same elements are one.
LEMMA SeqEqual ==
    ASSUME NEW A, NEW s \in Seq(A), NEW t \in Seq(A), Len(s) = Len(t),
           \A i \in 1 .. Len(s) : s[i] = t[i]
    PROVE  s = t
  BY SMT

\* The second follows on the first.
LEMMA ConcatProperties ==
    ASSUME NEW A, NEW s \in Seq(A), NEW t \in Seq(A)
    PROVE  /\ s \o t \in Seq(A) /\ Len(s \o t) = Len(s) + Len(t)
           /\ \A i \in 1 .. Len(s) + Len(t) :
                (s \o t)[i] = IF i <= Len(s) THEN s[i] ELSE t[i - Len(s)]
  BY SMT

\* The empty one adds nothing.
LEMMA ConcatEmptySeq ==
    ASSUME NEW A, NEW s \in Seq(A) PROVE s \o <<>> = s /\ <<>> \o s = s
  BY SMT

\* The first element, and the others.
LEMMA HeadTailProperties ==
    ASSUME NEW A, NEW s \in Seq(A), s # <<>>
    PROVE  /\ Head(s) \in A /\ Tail(s) \in Seq(A) /\ Len(Tail(s)) = Len(s) - 1
           /\ \A i \in 1 .. Len(Tail(s)) : Tail(s)[i] = s[i + 1]
  BY SMT

\* The elements from one place to another.
LEMMA SubSeqProperties ==
    ASSUME NEW A, NEW s, NEW m \in Int, NEW n \in Int, \A i \in m .. n : s[i] \in A
    PROVE  /\ SubSeq(s, m, n) \in Seq(A)
           /\ Len(SubSeq(s, m, n)) = IF m <= n THEN n - m + 1 ELSE 0
           /\ \A i \in 1 .. n - m + 1 : SubSeq(s, m, n)[i] = s[m + i - 1]
  BY SMT

-----------------------------------------------------------------------------
(* Programs. *)

\* No step is early and late.
LEMMA Disjoint == Early \cap Late = {}
  BY ZenonT(30) DEF Early, Late

\* A sequence is one of the elements it has.
LEMMA SeqOfElements ==
    ASSUME NEW S, NEW T, NEW s \in Seq(S), \A i \in 1 .. Len(s) : s[i] \in T
    PROVE  s \in Seq(T)
  BY SMT

\* A program without early steps is sorted.
LEMMA LateIsSorted ==
    ASSUME NEW s \in Seq(Late)
    PROVE  Sorted(s)
  <1>1. ASSUME NEW i \in 1 .. Len(s) PROVE s[i] \in Late
    BY SMT
  <1> QED
    BY <1>1, Disjoint, SMT DEF Sorted

\* What is left after a step of a sorted program.
LEMMA SortedTail ==
    ASSUME NEW s \in Seq(Early \cup Late), Sorted(s), s # <<>>
    PROVE  /\ Tail(s) \in Seq(Early \cup Late) /\ Sorted(Tail(s))
           /\ Head(s) \in Late \cup {"copy"} => Tail(s) \in Seq(Late)
           /\ Head(s) \in Early \ {"copy"} => Tail(s) # <<>> /\ Head(Tail(s)) = After(Head(s))
  <1> DEFINE t == Tail(s)
  <1>1. /\ t \in Seq(Early \cup Late) /\ Len(t) = Len(s) - 1 /\ Len(s) \in Nat /\ Len(s) > 0
        /\ \A i \in 1 .. Len(t) : t[i] = s[i + 1]
        /\ Head(s) = s[1]
    BY SMT
  <1> HIDE DEF t
  <1>2. ASSUME NEW i \in 1 .. Len(t)
        PROVE  /\ t[i] \in Early \ {"copy"} => i < Len(t) /\ t[i + 1] = After(t[i])
               /\ t[i] \in Late \cup {"copy"} => \A j \in i + 1 .. Len(t) : t[j] \in Late
    <2>1. i + 1 \in 1 .. Len(s) /\ t[i] = s[i + 1]
      BY <1>1, SMT
    <2>2. ASSUME t[i] \in Early \ {"copy"} PROVE i < Len(t) /\ t[i + 1] = After(t[i])
      <3>1. i + 1 < Len(s) /\ s[i + 1 + 1] = After(s[i + 1])
        BY <2>1, <2>2 DEF Sorted
      <3> QED BY <1>1, <2>1, <3>1, SMT
    <2>3. ASSUME t[i] \in Late \cup {"copy"}, NEW j \in i + 1 .. Len(t) PROVE t[j] \in Late
      <3>1. \A k \in i + 1 + 1 .. Len(s) : s[k] \in Late
        BY <2>1, <2>3 DEF Sorted
      <3>2. j + 1 \in i + 1 + 1 .. Len(s) /\ t[j] = s[j + 1]
        BY <1>1, SMT
      <3> QED BY <3>1, <3>2
    <2> QED BY <2>2, <2>3
  <1>3. Len(t) > 0 => t # <<>> /\ Head(t) = t[1]
    BY <1>1, EmptySeq, SMT
  <1>4. ASSUME Head(s) \in Late \cup {"copy"} PROVE t \in Seq(Late)
    <2>1. \A j \in 2 .. Len(s) : s[j] \in Late
      BY <1>1, <1>4, SMT DEF Sorted
    <2>2. \A i \in 1 .. Len(t) : t[i] \in Late
      BY <1>1, <2>1, SMT
    <2> QED BY <1>1, <2>2, SeqOfElements
  <1>5. ASSUME Head(s) \in Early \ {"copy"} PROVE t # <<>> /\ Head(t) = After(Head(s))
    <2>1. 1 < Len(s) /\ s[2] = After(s[1])
      BY <1>1, <1>5, SMT DEF Sorted
    <2>2. Len(t) > 0 /\ t[1] = s[2]
      BY <1>1, <2>1, SMT
    <2> QED BY <1>1, <1>3, <2>1, <2>2
  <1> QED BY <1>1, <1>2, <1>4, <1>5 DEF t, Sorted

\* Late steps may follow a sorted program.
LEMMA SortedConcat ==
    ASSUME NEW s \in Seq(Early \cup Late), Sorted(s), NEW t \in Seq(Late)
    PROVE  /\ s \o t \in Seq(Early \cup Late) /\ Sorted(s \o t)
           /\ Len(s) > 0 => Len(s \o t) \in Nat \ {0} /\ (s \o t)[1] = s[1]
  <1> DEFINE u == s \o t
  <1>1. t \in Seq(Early \cup Late)
    BY SeqMonotonic
  <1>2. /\ u \in Seq(Early \cup Late) /\ Len(s) \in Nat /\ Len(t) \in Nat
        /\ Len(u) = Len(s) + Len(t)
        /\ \A i \in 1 .. Len(u) : u[i] = IF i <= Len(s) THEN s[i] ELSE t[i - Len(s)]
    BY <1>1, ConcatProperties, SMT
  <1>3. \A i \in 1 .. Len(t) : t[i] \in Late
    BY SMT
  <1> HIDE DEF u
  <1>4. \A i \in 1 .. Len(u) : i <= Len(s) => u[i] = s[i]
    BY <1>2
  <1>5. \A i \in 1 .. Len(u) : i > Len(s) => u[i] \in Late
    BY <1>2, <1>3, SMTT(30)
  <1>6. ASSUME NEW i \in 1 .. Len(u)
        PROVE  /\ u[i] \in Early \ {"copy"} => i < Len(u) /\ u[i + 1] = After(u[i])
               /\ u[i] \in Late \cup {"copy"} => \A j \in i + 1 .. Len(u) : u[j] \in Late
    <2>1. CASE i <= Len(s)
      <3>1. ASSUME u[i] \in Early \ {"copy"} PROVE i < Len(u) /\ u[i + 1] = After(u[i])
        <4>1. u[i] = s[i] /\ i \in 1 .. Len(s)
          BY <1>2, <1>4, <2>1, SMT
        <4>2. i < Len(s) /\ s[i + 1] = After(s[i])
          BY <3>1, <4>1 DEF Sorted
        <4> QED BY <1>2, <1>4, <4>1, <4>2, SMT
      <3>2. ASSUME u[i] \in Late \cup {"copy"}, NEW j \in i + 1 .. Len(u) PROVE u[j] \in Late
        <4>1. u[i] = s[i] /\ i \in 1 .. Len(s)
          BY <1>2, <1>4, <2>1, SMT
        <4>2. \A k \in i + 1 .. Len(s) : s[k] \in Late
          BY <3>2, <4>1 DEF Sorted
        <4> QED BY <1>2, <1>4, <1>5, <4>2, SMT
      <3> QED BY <3>1, <3>2
    <2>2. CASE i > Len(s)
      BY <1>2, <1>5, <2>2, Disjoint, SMT
    <2> QED BY <1>2, <2>1, <2>2, SMT
  <1>7. Len(s) > 0 => Len(u) \in Nat \ {0} /\ u[1] = s[1]
    BY <1>2, <1>4, SMT
  <1> QED BY <1>2, <1>6, <1>7 DEF u, Sorted

\* The poll takes the place of the step that erases the previous backup.
LEMMA SortedPoll ==
    ASSUME NEW s \in Seq(Early \cup Late), Sorted(s), s # <<>>, Head(s) = "getBackupCrd"
    PROVE  /\ <<"poll">> \o Tail(s) \in Seq(Early \cup Late)
           /\ Sorted(<<"poll">> \o Tail(s))
           /\ <<"poll">> \o Tail(s) # <<>> /\ Head(<<"poll">> \o Tail(s)) = "poll"
  <1> DEFINE t == Tail(s)
             u == <<"poll">> \o t
  <1>1. "getBackupCrd" \in Early \ {"copy"} /\ "poll" \in Early /\ "poll" \notin Late
    BY DEF Early, Late
  <1>2. After("getBackupCrd") = After("poll")
    BY DEF After
  <1>3. t \in Seq(Early \cup Late) /\ Sorted(t) /\ t # <<>> /\ Head(t) = After("poll")
    BY <1>1, <1>2, SortedTail
  <1>4. Len(t) \in Nat \ {0} /\ Head(t) = t[1]
    BY <1>3, EmptySeq, SMT
  <1>5. <<"poll">> \in Seq(Early \cup Late) /\ Len(<<"poll">>) = 1
    BY <1>1, SMT
  <1> HIDE DEF t
  <1>6. /\ u \in Seq(Early \cup Late) /\ Len(u) = 1 + Len(t)
        /\ u[1] = "poll" /\ \A i \in 2 .. Len(u) : u[i] = t[i - 1]
    BY <1>3, <1>4, <1>5, ConcatProperties, SMT
  <1> HIDE DEF u
  <1>7. u # <<>> /\ Head(u) = "poll"
    BY <1>6, <1>4, EmptySeq, SMT
  <1>8. ASSUME NEW i \in 1 .. Len(u)
        PROVE  /\ u[i] \in Early \ {"copy"} => i < Len(u) /\ u[i + 1] = After(u[i])
               /\ u[i] \in Late \cup {"copy"} => \A j \in i + 1 .. Len(u) : u[j] \in Late
    <2>1. CASE i = 1
      BY <1>1, <1>3, <1>4, <1>6, <2>1, SMT
    <2>2. CASE i > 1
      <3>1. i - 1 \in 1 .. Len(t) /\ u[i] = t[i - 1]
        BY <1>4, <1>6, <2>2, SMT
      <3>2. ASSUME u[i] \in Early \ {"copy"} PROVE i < Len(u) /\ u[i + 1] = After(u[i])
        <4>1. i - 1 < Len(t) /\ t[i - 1 + 1] = After(t[i - 1])
          BY <3>1, <3>2, <1>3 DEF Sorted
        <4> QED BY <1>4, <1>6, <3>1, <4>1, SMTT(30)
      <3>3. ASSUME u[i] \in Late \cup {"copy"}, NEW j \in i + 1 .. Len(u) PROVE u[j] \in Late
        <4>1. \A k \in i - 1 + 1 .. Len(t) : t[k] \in Late
          BY <3>1, <3>3, <1>3 DEF Sorted
        <4>2. j - 1 \in i - 1 + 1 .. Len(t) /\ u[j] = t[j - 1]
          BY <1>4, <1>6, <3>1, SMT
        <4> QED BY <4>1, <4>2
      <3> QED BY <3>2, <3>3
    <2> QED BY <2>1, <2>2, SMT
  <1> QED BY <1>6, <1>7, <1>8 DEF u, t, Sorted

\* The programs without a backup have late steps only.
LEMMA LatePrograms ==
    /\ \A keep \in BOOLEAN : Uninstall(keep) \in Seq(Late)
    /\ \A skip \in BOOLEAN : WaitForUninstallCompletion(skip) \in Seq(Late)
    /\ \A i : \A a, b \in BOOLEAN : Install(i, a, b) \in Seq(Late)
    /\ UninstallCRD \in Seq(Late) /\ UninstallComposeCRD \in Seq(Late)
    /\ UninstallComposeAPIServer \in Seq(Late)
    /\ Restore \in Seq({"listBackup", "restore"}) /\ Restore \in Seq(Late)
  <1>1. ASSUME NEW keep \in BOOLEAN PROVE Uninstall(keep) \in Seq(Late)
    <2>1. <<"uninstallApps">> \in Seq(Late) /\ <<"deleteCRD">> \in Seq(Late) /\ <<>> \in Seq(Late)
          /\ <<"uninstallRbac", "deleteAPIServices", "uninstallCore">> \in Seq(Late)
      BY SMT DEF Late
    <2> QED BY <2>1, ConcatProperties DEF Uninstall
  <1>2. ASSUME NEW skip \in BOOLEAN PROVE WaitForUninstallCompletion(skip) \in Seq(Late)
    <2>1. /\ <<"waitForNoApps", "waitForNoRbac", "waitForNoAPIAggregation",
               "waitForNoCoreComponents">> \in Seq(Late)
          /\ <<"waitForNoCrd">> \in Seq(Late) /\ <<>> \in Seq(Late)
      BY SMT DEF Late
    <2> QED BY <2>1, ConcatProperties DEF WaitForUninstallCompletion
  <1>3. ASSUME NEW i, NEW a \in BOOLEAN, NEW b \in BOOLEAN PROVE Install(i, a, b) \in Seq(Late)
    <2>1. /\ <<"compose-etcd">> \in Seq(Late) /\ <<"compose-tls">> \in Seq(Late)
          /\ <<"compose-api", "service">> \in Seq(Late) /\ <<"debugAPIServer">> \in Seq(Late)
          /\ <<"compose">> \in Seq(Late) /\ <<"debugController">> \in Seq(Late)
          /\ <<"serviceAccount", "rbac">> \in Seq(Late) /\ <<"defaultRoles">> \in Seq(Late)
          /\ <<>> \in Seq(Late)
      BY SMT DEF Late
    <2>2. InstallAPIServer(i) \in Seq(Late)
      BY <2>1, ConcatProperties DEF InstallAPIServer
    <2>3. InstallController(i) \in Seq(Late)
      BY <2>1, ConcatProperties DEF InstallController
    <2> QED BY <2>1, <2>2, <2>3, ConcatProperties DEF Install
  <1>4. UninstallCRD \in Seq(Late)
    BY SMT DEF UninstallCRD, Late
  <1>5. <<"getCRD">> \in Seq(Late) /\ <<"deleteController", "getCRD">> \in Seq(Late)
    BY SMT DEF Late
  <1>6. UninstallComposeCRD \in Seq(Late)
    BY <1>1, <1>2, <1>5, ConcatProperties DEF UninstallComposeCRD
  <1>7. UninstallComposeAPIServer \in Seq(Late)
    BY <1>1, <1>2, <1>5, ConcatProperties DEF UninstallComposeAPIServer
  <1>8. Restore \in Seq({"listBackup", "restore"}) /\ Restore \in Seq(Late)
    BY SMT DEF Restore, Late
  <1> QED BY <1>1, <1>2, <1>3, <1>4, <1>6, <1>7, <1>8

\* Update makes its backup before anything else.
LEMMA UpdateSorted ==
    ASSUME NEW abort \in BOOLEAN
    PROVE  /\ Update(abort) \in Seq(Early \cup Late) /\ Sorted(Update(abort))
           /\ Update(abort) # <<>> /\ Head(Update(abort)) \in {"dryRun", "getBackupCrd"}
  <1> DEFINE first == (IF abort THEN <<"dryRun">> ELSE <<>>) \o Backup
             rest == <<"doWithoutController", "isRunning">>
             u == first \o UninstallComposeCRD
             v == u \o rest
             w == v \o Restore
             x == w \o <<"doControllerOnly">>
  <1>1. /\ first \in Seq(Early \cup Late) /\ Sorted(first) /\ Len(first) \in Nat \ {0}
        /\ first[1] \in {"dryRun", "getBackupCrd"}
    <2>1. CASE abort
      <3>1. /\ <<"dryRun">> \in Seq(Early \cup Late) /\ Backup \in Seq(Early \cup Late)
            /\ Len(<<"dryRun">>) = 1 /\ Len(Backup) = 4 /\ Backup[1] = "getBackupCrd"
            /\ Backup[2] = "createBackupCrd" /\ Backup[3] = "listForBackup" /\ Backup[4] = "copy"
        BY SMT DEF Backup, Early
      <3>2. first = <<"dryRun">> \o Backup
        BY <2>1
      <3> HIDE DEF first
      <3>3. /\ first \in Seq(Early \cup Late) /\ Len(first) = Len(<<"dryRun">>) + Len(Backup)
            /\ \A i \in 1 .. Len(<<"dryRun">>) + Len(Backup) :
                 first[i] = IF i <= Len(<<"dryRun">>) THEN <<"dryRun">>[i]
                            ELSE Backup[i - Len(<<"dryRun">>)]
        BY ONLY <3>1, <3>2, ConcatProperties, ZenonT(30)
      <3>4. /\ first[1] = "dryRun" /\ first[2] = "getBackupCrd" /\ first[3] = "createBackupCrd"
            /\ first[4] = "listForBackup" /\ first[5] = "copy"
        BY <3>1, <3>3, SMT
      <3>5. Sorted(first)
        BY <3>1, <3>3, <3>4, SMT DEF Sorted, After, Early, Late
      <3> QED BY <3>1, <3>3, <3>4, <3>5, SMT
    <2>2. CASE ~abort
      <3>1. Backup \in Seq(Early \cup Late)
        BY SMT DEF Backup, Early
      <3>2. first = Backup
        BY <2>2, <3>1, ConcatEmptySeq
      <3> HIDE DEF first
      <3>3. /\ Len(first) = 4 /\ first[1] = "getBackupCrd" /\ first[2] = "createBackupCrd"
            /\ first[3] = "listForBackup" /\ first[4] = "copy"
        BY <3>2 DEF Backup
      <3>4. Sorted(first)
        BY <3>3, SMT DEF Sorted, After, Early, Late
      <3> QED BY <3>1, <3>2, <3>3, <3>4, SMT
    <2> QED BY <2>1, <2>2
  <1>2. rest \in Seq(Late) /\ <<"doControllerOnly">> \in Seq(Late)
    BY SMT DEF Late
  <1>3. Update(abort) = x
    BY DEF Update
  <1>4. UninstallComposeCRD \in Seq(Late) /\ Restore \in Seq(Late)
    BY LatePrograms
  <1>5. \A s \in Seq(Early \cup Late), t \in Seq(Late) :
          Sorted(s) /\ Len(s) \in Nat \ {0} =>
            /\ s \o t \in Seq(Early \cup Late) /\ Sorted(s \o t)
            /\ Len(s \o t) \in Nat \ {0} /\ (s \o t)[1] = s[1]
    BY SortedConcat, SMT
  <1> HIDE DEF first, rest, u, v, w, x
  <1>6. u \in Seq(Early \cup Late) /\ Sorted(u) /\ Len(u) \in Nat \ {0} /\ u[1] = first[1]
    BY ONLY <1>1, <1>4, <1>5 DEF u
  <1>7. v \in Seq(Early \cup Late) /\ Sorted(v) /\ Len(v) \in Nat \ {0} /\ v[1] = u[1]
    BY ONLY <1>2, <1>5, <1>6 DEF v
  <1>8. w \in Seq(Early \cup Late) /\ Sorted(w) /\ Len(w) \in Nat \ {0} /\ w[1] = v[1]
    BY ONLY <1>4, <1>5, <1>7 DEF w
  <1>9. x \in Seq(Early \cup Late) /\ Sorted(x) /\ Len(x) \in Nat \ {0} /\ x[1] = w[1]
    BY ONLY <1>2, <1>5, <1>8, Zenon DEF x
  <1> QED BY <1>1, <1>3, <1>6, <1>7, <1>8, <1>9, EmptySeq, SMT

\* What a program without early steps begins with.
LEMMA LateHead ==
    ASSUME NEW s \in Seq(Late), s # <<>>
    PROVE  Head(s) \in Late /\ Head(s) \notin Early
  <1>1. Head(s) \in Late
    BY HeadTailProperties
  <1> QED BY <1>1, Disjoint

\* A sorted program that begins late has no early steps.
LEMMA LateThroughout ==
    ASSUME NEW s \in Seq(Early \cup Late), Sorted(s), s # <<>>, Head(s) \in Late
    PROVE  s \in Seq(Late)
  <1>1. Tail(s) \in Seq(Late)
    BY SortedTail
  <1>2. /\ Len(s) \in Nat \ {0} /\ Len(Tail(s)) = Len(s) - 1 /\ Head(s) = s[1]
        /\ \A i \in 1 .. Len(Tail(s)) : Tail(s)[i] = s[i + 1]
    BY EmptySeq, HeadTailProperties, SMT
  <1>3. ASSUME NEW j \in 1 .. Len(s) PROVE s[j] \in Late
    <2>1. CASE j = 1
      BY <1>2, <2>1
    <2>2. CASE j # 1
      <3>1. j - 1 \in 1 .. Len(Tail(s))
        BY <1>2, <2>2, SMT
      <3>2. Tail(s)[j - 1] \in Late
        BY <1>1, <3>1, ElementOfSeq
      <3>3. Tail(s)[j - 1] = s[j - 1 + 1] /\ j - 1 + 1 = j
        BY <1>2, <3>1, SMT
      <3> QED BY <3>2, <3>3
    <2> QED BY <2>1, <2>2
  <1> QED BY <1>3, SeqOfElements

\* A program goes on with its tail.
LEMMA Continued ==
    ASSUME NEW S, todo \in Seq(S), todo # <<>>, todo' \in {<<>>, todo, Tail(todo)}
    PROVE  todo' \in Seq(S)
  <1>1. Tail(todo) \in Seq(S) /\ <<>> \in Seq(S)
    BY HeadTailProperties, EmptySeq
  <1> QED BY <1>1

\* An early step is one of Update; a late one that does not restore is one of a
\* command that has given the stacks up, or of Update once the backup is made.
LEMMA WhoseStep ==
    ASSUME Programs, todo # <<>>
    PROVE  /\ Head(todo) \in Early => cmd.name = "update"
           /\ Head(todo) \in Late \ {"listBackup", "restore"} =>
                cmd.name \in GivesUp \cup {"update"} /\ todo \in Seq(Late)
           /\ Head(todo) \in {"listBackup", "restore"} =>
                cmd.name \in GivesUp \cup {"update", "restore"}
           /\ Head(todo) = "deleteBackup" => cmd.name = "deleteBackup"
  <1>1. cmd.name \in GivesUp => todo \in Seq(Late) /\ Head(todo) \in Late
    BY LateHead DEF Programs
  <1>2. cmd.name = "restore" => Head(todo) \in {"listBackup", "restore"}
    BY HeadTailProperties DEF Programs
  <1>3. cmd.name = "deleteBackup" => Head(todo) = "deleteBackup"
    BY HeadTailProperties, SMT DEF Programs
  <1>4. cmd.name = "update" => /\ Head(todo) \in Early \cup Late
                               /\ Head(todo) \in Late => todo \in Seq(Late)
    <2> SUFFICES ASSUME cmd.name = "update"
                 PROVE  /\ Head(todo) \in Early \cup Late
                        /\ Head(todo) \in Late => todo \in Seq(Late)
      OBVIOUS
    <2>1. todo \in Seq(Early \cup Late) /\ Sorted(todo)
      BY DEF Programs
    <2>2. Head(todo) \in Early \cup Late /\ Len(todo) \in Nat \ {0} /\ Head(todo) = todo[1]
      BY <2>1, HeadTailProperties, EmptySeq, SMT
    <2>3. Head(todo) \in Late => todo \in Seq(Late)
      BY <2>1, LateThroughout
    <2> QED BY <2>2, <2>3
  <1>5. /\ "listBackup" \in Late /\ "restore" \in Late
        /\ "deleteBackup" \notin Late /\ "deleteBackup" \notin Early
    BY DEF Late, Early
  <1>6. cmd.name \in GivesUp \cup {"update", "restore", "deleteBackup"}
    BY DEF Programs
  <1>7. \A x \in Late : x \notin Early
    BY Disjoint
  <1> QED BY <1>1, <1>2, <1>3, <1>4, <1>5, <1>6, <1>7

\* The empty program.
LEMMA Ended ==
    ASSUME Programs, cmd' = cmd, todo' = <<>>
    PROVE  Programs'
  <1>1. \A S : <<>> \in Seq(S)
    BY EmptySeq
  <1>2. Sorted(<<>>)
    BY LateIsSorted, EmptySeq
  <1> QED BY <1>1, <1>2 DEF Programs

\* A late step of a command that destroys, whatever it does to the places other
\* than the backup.
LEMMA LateStep ==
    ASSUME IInv, todo # <<>>, Head(todo) \in Late \ {"listBackup", "restore"},
           cmd' = cmd, known' = known, backup' = backup, backupCrd' = backupCrd,
           todo' \in {<<>>, todo, Tail(todo)} \/ todo' \in Seq(Late)
    PROVE  IInv'
  <1>1. cmd.name \in GivesUp \cup {"update"} /\ todo \in Seq(Late) /\ Head(todo) \in Late
    BY WhoseStep DEF IInv
  <1>2. todo' \in Seq(Late)
    BY <1>1, Continued
  <1>3. todo' # <<>> => Head(todo') \in Late /\ Head(todo') \notin Early
    BY <1>2, LateHead
  <1>4. Programs'
    <2>1. todo' \in Seq(Early \cup Late) /\ Sorted(todo')
      BY <1>2, LateIsSorted, SeqMonotonic
    <2> QED BY <1>1, <1>2, <2>1 DEF Programs, GivesUp
  <1>5. CASE cmd.name \in GivesUp
    BY <1>4, <1>5 DEF IInv, Places, Safe, GivesUp
  <1>6. CASE cmd.name = "update"
    BY <1>1, <1>3, <1>4, <1>6 DEF IInv, Places, Safe, InBackup, GivesUp
  <1> QED BY <1>1, <1>5, <1>6

\* A step that restores leaves every place as it is, or with more stacks.
LEMMA RestoreStep ==
    ASSUME IInv, todo # <<>>, Head(todo) \in {"listBackup", "restore"},
           cmd' = cmd, known' = known, backup' = backup, backupCrd' = backupCrd,
           crd' = crd, deployment' = deployment,
           crdStacks \subseteq crdStacks', apiStacks \subseteq apiStacks',
           \/ todo' \in {<<>>, todo, Tail(todo)}
           \/ cmd.name = "update" /\ todo' = <<"doControllerOnly">>
    PROVE  IInv'
  <1>1. "listBackup" \in Late /\ "restore" \in Late /\ "doControllerOnly" \in Late
    BY DEF Late
  <1>2. cmd.name \in GivesUp \cup {"update", "restore"}
    BY WhoseStep DEF IInv
  <1>3. CASE cmd.name \in GivesUp
    <2>1. todo' \in Seq(Late)
      <3>1. todo \in Seq(Late) /\ cmd.name # "update"
        BY <1>3 DEF IInv, Programs, GivesUp
      <3> QED BY <3>1, Continued
    <2>2. Programs'
      BY <1>3, <2>1 DEF IInv, Programs, GivesUp
    <2> QED BY <1>3, <2>2 DEF IInv, Places, Safe, GivesUp
  <1>4. CASE cmd.name = "update"
    <2>1. /\ todo \in Seq(Early \cup Late) /\ Sorted(todo)
      BY <1>4 DEF IInv, Programs
    <2>2. todo \in Seq(Late)
      BY <1>1, <2>1, LateThroughout
    <2>3. todo' \in Seq(Late)
      <3>1. <<"doControllerOnly">> \in Seq(Late)
        BY <1>1, SMT
      <3> QED BY <2>2, <3>1, Continued
    <2>4. todo' # <<>> => Head(todo') \in Late /\ Head(todo') \notin Early
      BY <2>3, LateHead
    <2>5. Programs'
      <3>1. todo' \in Seq(Early \cup Late) /\ Sorted(todo')
        BY <2>3, LateIsSorted, SeqMonotonic
      <3> QED BY <1>4, <2>3, <3>1 DEF IInv, Programs, GivesUp
    <2> QED BY <1>1, <1>4, <2>4, <2>5 DEF IInv, Places, Safe, InBackup, GivesUp
  <1>5. CASE cmd.name = "restore"
    <2>1. todo' \in Seq({"listBackup", "restore"})
      <3>1. todo \in Seq({"listBackup", "restore"})
        BY <1>5 DEF IInv, Programs
      <3> QED BY <1>5, <3>1, Continued
    <2>2. Programs'
      BY <1>5, <2>1 DEF IInv, Programs, GivesUp
    <2>3. Safe'
      BY DEF IInv, Places, Safe, InBackup, InCRD, InAPI, Leaving
    <2> QED BY <1>5, <2>2, <2>3 DEF IInv, Places, GivesUp
  <1> QED BY <1>2, <1>3, <1>4, <1>5

\* A command that stops leaves every stack where it is.
LEMMA Stops ==
    ASSUME IInv, cmd' = cmd, todo' = <<>>,
           UNCHANGED <<known, backup, backupCrd, crd, crdStacks, apiStacks, deployment>>
    PROVE  IInv'
  <1>1. Programs'
    BY Ended DEF IInv
  <1>2. Safe'
    BY DEF IInv, Places, Safe, InBackup, InCRD, InAPI, Leaving
  <1> QED BY <1>1, <1>2 DEF IInv, Places

\* What holds before an early step.
LEMMA EarlyFacts ==
    ASSUME IInv, todo # <<>>, Head(todo) \in Early
    PROVE  /\ cmd.name = "update" /\ todo \in Seq(Early \cup Late) /\ Sorted(todo)
           /\ Settled
           /\ Head(todo) \in {"listForBackup", "copy"} => backupCrd = "present"
           /\ Head(todo) = "copy" => known \subseteq listed \cup backup
  <1>1. cmd.name = "update"
    BY WhoseStep DEF IInv
  <1> QED BY <1>1 DEF IInv, Programs, Places

\* An early step follows, and the stacks are still served.
LEMMA EarlyStep ==
    ASSUME cmd.name = "update", cmd' = cmd, todo' # <<>>, Head(todo') \in Early,
           todo' \in Seq(Early \cup Late), Sorted(todo'), Settled',
           Head(todo') \in {"listForBackup", "copy"} => backupCrd' = "present",
           Head(todo') = "copy" => known' \subseteq listed' \cup backup'
    PROVE  IInv'
  <1>1. Programs'
    BY DEF Programs, GivesUp
  <1>2. Safe'
    <2>1. CASE (Server = "crd")'
      BY <2>1 DEF Settled, Safe, InCRD, Served
    <2>2. CASE (Server = "api")'
      BY <2>2 DEF Settled, Safe, InAPI, Served
    <2> QED BY <2>1, <2>2 DEF Settled
  <1>3. Head(todo') \notin Late
    BY Disjoint
  <1> QED BY <1>1, <1>2, <1>3 DEF IInv, Places, GivesUp

\* An early step other than the last one goes on with the one that follows it.
LEMMA EarlyProceed ==
    ASSUME IInv, todo # <<>>, Head(todo) \in Early \ {"copy"}, todo' = Tail(todo)
    PROVE  /\ todo' # <<>> /\ Head(todo') = After(Head(todo)) /\ Head(todo') \in Early
           /\ todo' \in Seq(Early \cup Late) /\ Sorted(todo')
  <1>1. todo \in Seq(Early \cup Late) /\ Sorted(todo)
    BY EarlyFacts
  <1>2. /\ Tail(todo) # <<>> /\ Head(Tail(todo)) = After(Head(todo))
        /\ Tail(todo) \in Seq(Early \cup Late) /\ Sorted(Tail(todo))
    BY <1>1, SortedTail
  <1>3. After(Head(todo)) \in Early
    BY DEF After, Early
  <1> QED BY <1>2, <1>3

\* Who serves the stacks does not depend on the backup.
LEMMA StillSettled ==
    ASSUME Settled, UNCHANGED <<known, crd, crdStacks, apiStacks, deployment, apiPod, apiService>>
    PROVE  Settled'
  BY DEF Settled, Served, Server, Leaving

\* DryRun stops Update or lets it make its backup.
LEMMA DryRunStep == ASSUME IInv, DryRun PROVE IInv'
  <1>1. todo # <<>> /\ Head(todo) = "dryRun" /\ "dryRun" \in Early \ {"copy"}
    BY DEF DryRun, At, Early
  <1>2. CASE Abort
    BY <1>2, Stops DEF DryRun, Abort, clusterVars, stackVars
  <1>3. CASE Proceed
    <2>1. todo' = Tail(todo)
      BY <1>3 DEF Proceed, Continue
    <2>2. Settled'
      BY <1>1, EarlyFacts, StillSettled DEF DryRun, clusterVars, stackVars
    <2>3. Head(todo') = "getBackupCrd"
      BY <1>1, <2>1, EarlyProceed DEF After
    <2> QED BY <1>1, <2>1, <2>2, <2>3, EarlyFacts, EarlyProceed, EarlyStep DEF DryRun
  <1> QED BY <1>2, <1>3 DEF DryRun

\* Erasing the previous backup is harmless: what is in it is served.
LEMMA GetBackupCrdStep == ASSUME IInv, GetBackupCrd PROVE IInv'
  <1>1. todo # <<>> /\ Head(todo) = "getBackupCrd" /\ "getBackupCrd" \in Early \ {"copy"}
    BY DEF GetBackupCrd, At, Early
  <1>2. Settled' /\ cmd' = cmd
    BY <1>1, EarlyFacts, StillSettled DEF GetBackupCrd, clusterVars
  <1>3. CASE backupCrd = "absent"
    <2>1. todo' = Tail(todo)
      BY <1>3 DEF GetBackupCrd, Proceed, Continue
    <2>2. Head(todo') = "createBackupCrd"
      BY <1>1, <2>1, EarlyProceed DEF After
    <2> QED BY <1>1, <1>2, <2>1, <2>2, EarlyFacts, EarlyProceed, EarlyStep
  <1>4. CASE backupCrd # "absent"
    <2>1. todo' = <<"poll">> \o Tail(todo)
      BY <1>4 DEF GetBackupCrd, Continue
    <2>2. cmd.name = "update" /\ todo \in Seq(Early \cup Late) /\ Sorted(todo)
      BY <1>1, EarlyFacts
    <2>3. /\ todo' \in Seq(Early \cup Late) /\ Sorted(todo')
          /\ todo' # <<>> /\ Head(todo') = "poll"
      BY <1>1, <2>1, <2>2, SortedPoll
    <2>4. "poll" \in Early
      BY DEF Early
    <2> QED BY <1>2, <2>2, <2>3, <2>4, EarlyStep
  <1> QED BY <1>3, <1>4

\* The wait for the previous backup to go, whether it succeeds or not.
LEMMA PollStep == ASSUME IInv, Poll PROVE IInv'
  <1>1. todo # <<>> /\ Head(todo) = "poll" /\ "poll" \in Early \ {"copy"}
    BY DEF Poll, At, Early
  <1>2. Settled' /\ cmd' = cmd
    BY <1>1, EarlyFacts, StillSettled DEF Poll, clusterVars, stackVars
  <1>3. todo' = Tail(todo)
    BY DEF Poll, Proceed, Continue
  <1>4. Head(todo') = "createBackupCrd"
    BY <1>1, <1>3, EarlyProceed DEF After
  <1> QED BY <1>1, <1>2, <1>3, <1>4, EarlyFacts, EarlyProceed, EarlyStep

\* The definition of the backup is new, or Update stops.
LEMMA CreateBackupCrdStep == ASSUME IInv, createBackupCrd PROVE IInv'
  <1>1. todo # <<>> /\ Head(todo) = "createBackupCrd" /\ "createBackupCrd" \in Early \ {"copy"}
    BY DEF createBackupCrd, At, Early
  <1>2. CASE backupCrd = "absent"
    <2>1. Settled' /\ cmd' = cmd
      BY <1>1, EarlyFacts, StillSettled DEF createBackupCrd, clusterVars
    <2>2. todo' = Tail(todo) /\ backupCrd' = "present"
      BY <1>2 DEF createBackupCrd, Proceed, Continue
    <2>3. Head(todo') = "listForBackup"
      BY <1>1, <2>2, EarlyProceed DEF After
    <2> QED BY <1>1, <2>1, <2>2, <2>3, EarlyFacts, EarlyProceed, EarlyStep
  <1>3. CASE backupCrd # "absent"
    BY <1>3, Stops DEF createBackupCrd, Abort, clusterVars
  <1> QED BY <1>2, <1>3

\* A stack that is copied moves from what is to be copied to the backup.
LEMMA CopyStep ==
    ASSUME IInv, NEW s \in Stacks, copyStackToBackupCrd(s)
    PROVE  IInv'
  <1>1. todo # <<>> /\ Head(todo) = "copy" /\ "copy" \in Early
    BY DEF copyStackToBackupCrd, Each, At, Early
  <1>2. Settled' /\ cmd' = cmd /\ todo' = todo /\ backupCrd' = backupCrd
    BY <1>1, EarlyFacts, StillSettled DEF copyStackToBackupCrd, clusterVars
  <1>3. known' \subseteq listed' \cup backup'
    BY <1>1, EarlyFacts DEF copyStackToBackupCrd
  <1> QED BY <1>1, <1>2, <1>3, EarlyFacts, EarlyStep

\* Backup lists what is served, which is all that was known before and from
\* then on is known; the list of orphanAllStacks is a late step.
LEMMA ListStep == ASSUME IInv, ListStacks PROVE IInv'
  <1>1. CASE Head(todo) = "listStacks"
    <2>1. todo # <<>> /\ Head(todo) \in Late \ {"listBackup", "restore"}
      BY <1>1 DEF ListStacks, At, Late
    <2>2. ~At("listForBackup")
      BY <1>1 DEF At
    <2> QED BY <2>1, <2>2, LateStep
            DEF ListStacks, Proceed, Continue, Abort, clusterVars, stackVars
  <1>2. CASE Head(todo) = "listForBackup"
    <2>1. todo # <<>> /\ "listForBackup" \in Early \ {"copy"} /\ At("listForBackup")
      BY <1>2 DEF ListStacks, At, Early
    <2>2. Settled /\ cmd.name = "update" /\ cmd' = cmd /\ backupCrd = "present"
      BY <1>2, <2>1, EarlyFacts DEF ListStacks
    <2>3. Server # "nobody" /\ known \subseteq Served
      BY <2>2 DEF Settled
    <2>4. todo' = Tail(todo) /\ listed' = Served /\ known' = known \cup Served
      BY <2>1, <2>3 DEF ListStacks, Proceed, Continue
    <2>5. Served' = Served /\ Server' = Server /\ Leaving' = Leaving
      BY DEF ListStacks, clusterVars, stackVars, Served, Server, Leaving
    <2>6. Settled'
      BY <2>2, <2>3, <2>4, <2>5 DEF Settled, ListStacks, clusterVars, stackVars
    <2>7. Head(todo') = "copy"
      BY <1>2, <2>1, <2>4, EarlyProceed DEF After
    <2>8. known' \subseteq listed' \cup backup' /\ backupCrd' = "present"
      BY <2>2, <2>3, <2>4 DEF ListStacks, stackVars
    <2> QED BY <1>2, <2>1, <2>2, <2>4, <2>6, <2>7, <2>8, EarlyProceed, EarlyStep
  <1> QED BY <1>1, <1>2 DEF ListStacks, At

\* At the end of the copies all that is known is in the backup.
LEMMA EndOfLoopStep == ASSUME IInv, EndOfLoop PROVE IInv'
  <1>1. /\ todo # <<>> /\ todo' = Tail(todo) /\ cmd' = cmd /\ listed = {}
        /\ UNCHANGED <<clusterVars, stackVars, known>>
    BY DEF EndOfLoop, Proceed, Continue
  <1>2. CASE Head(todo) = "orphan"
    <2>1. Head(todo) \in Late \ {"listBackup", "restore"}
      BY <1>2 DEF Late
    <2> QED BY <1>1, <2>1, LateStep DEF stackVars
  <1>3. CASE Head(todo) = "restore"
    BY <1>1, <1>3, RestoreStep DEF stackVars, clusterVars
  <1>4. CASE Head(todo) = "copy"
    <2>1. "copy" \in Early
      BY DEF Early
    <2>2. /\ cmd.name = "update" /\ todo \in Seq(Early \cup Late) /\ Sorted(todo)
          /\ backupCrd = "present" /\ known \subseteq backup
      BY <1>1, <1>4, <2>1, EarlyFacts
    <2>3. todo' \in Seq(Late)
      BY <1>1, <1>4, <2>2, SortedTail
    <2>4. Programs'
      <3>1. todo' \in Seq(Early \cup Late) /\ Sorted(todo')
        BY <2>3, LateIsSorted, SeqMonotonic
      <3> QED BY <1>1, <2>2, <2>3, <3>1 DEF Programs, GivesUp
    <2>5. InBackup'
      BY <1>1, <2>2 DEF InBackup, stackVars
    <2>6. todo' # <<>> => Head(todo') \notin Early
      BY <2>3, LateHead
    <2> QED BY <1>1, <2>2, <2>4, <2>5, <2>6 DEF IInv, Places, Safe, GivesUp
  <1> QED BY <1>2, <1>3, <1>4 DEF EndOfLoop

\* A step of Restore, also one that fails.
LEMMA ListBackupStep == ASSUME IInv, ListBackup PROVE IInv'
  BY RestoreStep DEF ListBackup, At, RestoreFails, Abort, Proceed, Continue, clusterVars, stackVars

\* Restore adds to what is served.
LEMMA RestoreStackStep ==
    ASSUME IInv, NEW s \in Stacks, restoreStack(s)
    PROVE  IInv'
  <1>1. todo # <<>> /\ Head(todo) = "restore"
    BY DEF restoreStack, Each, At
  <1>2. CASE ~CanCreate
    BY <1>1, <1>2, RestoreStep
       DEF restoreStack, RestoreFails, Abort, clusterVars
  <1>3. CASE CanCreate
    <2>1. crdStacks \subseteq crdStacks' /\ apiStacks \subseteq apiStacks'
      BY <1>3 DEF restoreStack, SetServed, Served
    <2> QED BY <1>1, <1>3, <2>1, RestoreStep DEF restoreStack, clusterVars
  <1> QED BY <1>2, <1>3

\* The backup is deleted on purpose only while the API server has the stacks.
LEMMA DeleteBackupStep == ASSUME IInv, DeleteBackup PROVE IInv'
  <1>1. todo # <<>> /\ Head(todo) = "deleteBackup" /\ todo' = Tail(todo) /\ cmd' = cmd
    BY DEF DeleteBackup, At, Proceed, Continue
  <1>2. cmd.name = "deleteBackup" /\ InAPI
    BY <1>1, WhoseStep DEF IInv, Places
  <1>3. todo' \in Seq({"deleteBackup"})
    BY <1>1, <1>2, HeadTailProperties DEF IInv, Programs
  <1>4. Programs'
    BY <1>1, <1>2, <1>3 DEF Programs, GivesUp
  <1>5. InAPI'
    BY <1>2 DEF InAPI, DeleteBackup, clusterVars, Leaving
  <1> QED BY <1>1, <1>2, <1>4, <1>5 DEF IInv, Places, Safe, GivesUp

\* Installing puts late steps before late steps.
LEMMA DoStep == ASSUME IInv, Do PROVE IInv'
  <1>1. todo # <<>> /\ Head(todo) \in {"do", "doWithoutController", "doControllerOnly"}
    BY DEF Do
  <1>2. Head(todo) \in Late \ {"listBackup", "restore"}
    BY <1>1 DEF Late
  <1>3. Tail(todo) \in Seq(Late)
    BY <1>1, <1>2, WhoseStep, HeadTailProperties DEF IInv
  <1>4. \/ todo' = <<>>
        \/ \E p \in Seq(Late) : todo' = p \o Tail(todo)
    <2> DEFINE only == Head(todo) = "doControllerOnly"
               steps == Install(installer, ~only, Head(todo) # "doWithoutController")
               full == Uninstall(FALSE) \o WaitForUninstallCompletion(FALSE) \o steps
    <2>1. steps \in Seq(Late)
      BY LatePrograms
    <2>2. Uninstall(FALSE) \in Seq(Late) /\ WaitForUninstallCompletion(FALSE) \in Seq(Late)
      BY LatePrograms
    <2>3. <<>> \in Seq(Late)
      BY EmptySeq
    <2> HIDE DEF steps
    <2>4. full \in Seq(Late)
      BY <2>1, <2>2, ConcatProperties
    <2>5. \/ todo' = <<>>
          \/ \E p \in {steps, <<>>, full} : todo' = p \o Tail(todo)
      BY DEF Do, Abort, Continue, steps
    <2> QED BY <2>1, <2>3, <2>4, <2>5
  <1>5. todo' \in {<<>>, todo, Tail(todo)} \/ todo' \in Seq(Late)
    BY <1>3, <1>4, ConcatProperties
  <1> QED BY <1>1, <1>2, <1>5, LateStep DEF Do, stackVars

\* Every other step that creates, deletes or waits.
LEMMA OtherLateSteps ==
    ASSUME IInv,
           \/ IsRunning \/ createServiceAccount \/ createClusterRoleBindings
           \/ createEtcdSecret \/ createNetworkSecret \/ createAPIServer
           \/ createAPIServerService \/ createDebugService \/ createController
           \/ createDefaultClusterRoles \/ DeleteController \/ uninstallApps \/ deleteCRD
           \/ uninstallRbac \/ deleteAPIServices \/ uninstallCore \/ Wait \/ WaitForNoStacks
    PROVE  IInv'
  <1>1. ASSUME NEW x, x \in Late \ {"listBackup", "restore"}, At(x),
               cmd' = cmd, known' = known, backup' = backup, backupCrd' = backupCrd,
               Proceed \/ Abort
        PROVE  IInv'
    BY <1>1, LateStep DEF At, Proceed, Continue, Abort
  <1>2. ASSUME NEW o, o \in Late \ {"listBackup", "restore"}, CreateObject(o) PROVE IInv'
    BY <1>1, <1>2 DEF CreateObject, stackVars
  <1>3. ASSUME NEW d, NEW wanted, d \in Late \ {"listBackup", "restore"}, CreateDeployment(d, wanted)
        PROVE  IInv'
    BY <1>1, <1>3 DEF CreateDeployment, stackVars
  <1>4. CASE \/ createServiceAccount \/ createClusterRoleBindings \/ createEtcdSecret
             \/ createNetworkSecret \/ createAPIServerService \/ createDebugService
             \/ createDefaultClusterRoles
    <2>1. {"serviceAccount", "rbac", "compose-etcd", "compose-tls", "service",
           "debugAPIServer", "debugController", "defaultRoles"}
          \subseteq Late \ {"listBackup", "restore"}
      BY ZenonT(30) DEF Late
    <2> QED BY <1>2, <1>4, <2>1
            DEF createServiceAccount, createClusterRoleBindings, createEtcdSecret,
                createNetworkSecret, createAPIServerService, createDebugService,
                createDefaultClusterRoles
  <1>5. CASE createAPIServer \/ createController
    <2>1. {"compose", "compose-api"} \subseteq Late \ {"listBackup", "restore"}
      BY DEF Late
    <2> QED BY <1>3, <1>5, <2>1 DEF createAPIServer, createController
  <1>6. CASE IsRunning \/ DeleteController \/ uninstallApps
    <2>1. {"isRunning", "deleteController", "uninstallApps"}
            \subseteq Late \ {"listBackup", "restore"}
      BY DEF Late
    <2> QED BY <1>1, <1>6, <2>1 DEF IsRunning, DeleteController, uninstallApps, stackVars
  <1>7. CASE deleteCRD \/ uninstallRbac \/ deleteAPIServices \/ uninstallCore
    <2>1. {"deleteCRD", "removeCRD", "uninstallRbac", "deleteAPIServices", "uninstallCore"}
            \subseteq Late \ {"listBackup", "restore"}
      BY DEF Late
    <2> QED BY <1>1, <1>7, <2>1
            DEF deleteCRD, uninstallRbac, deleteAPIServices, uninstallCore, UninstallCore,
                stackVars
  <1>8. CASE Wait \/ WaitForNoStacks
    <2>1. {"waitForNoApps", "waitForNoRbac", "waitForNoAPIAggregation",
           "waitForNoCoreComponents", "waitForNoCrd", "waitForNoCRD", "waitForNoStacks"}
            \subseteq Late \ {"listBackup", "restore"}
      BY ZenonT(30) DEF Late
    <2> QED BY <1>1, <1>8, <2>1 DEF Wait, WaitForNoStacks, stackVars
  <1> QED BY <1>4, <1>5, <1>6, <1>7, <1>8

\* The removal of the definition, and the deletion of a stack before it.
LEMMA GetCRDStep == ASSUME IInv, GetCRD PROVE IInv'
  <1>1. todo # <<>> /\ Head(todo) \in Late \ {"listBackup", "restore"}
    BY DEF GetCRD, At, Late
  <1>2. Tail(todo) \in Seq(Late)
    BY <1>1, WhoseStep, HeadTailProperties DEF IInv
  <1>3. \E p \in {<<>>, UninstallCRD} : todo' = p \o Tail(todo)
    BY DEF GetCRD, Continue
  <1>4. <<>> \in Seq(Late) /\ UninstallCRD \in Seq(Late)
    BY LatePrograms, EmptySeq
  <1>5. todo' \in Seq(Late)
    BY <1>2, <1>3, <1>4, ConcatProperties
  <1> QED BY <1>1, <1>5, LateStep DEF GetCRD, stackVars

\* A stack is deleted after the backup.
LEMMA OrphanStep ==
    ASSUME IInv, NEW s \in Stacks, orphanStack(s)
    PROVE  IInv'
  <1>1. todo # <<>> /\ Head(todo) \in Late \ {"listBackup", "restore"}
    BY DEF orphanStack, Each, At, Late
  <1> QED BY <1>1, LateStep DEF orphanStack
-----------------------------------------------------------------------------
(* The cluster, the users and the operator. *)

\* The names of the deployments never change.
Deployed == DOMAIN deployment = Names

\* Whatever happens beside the command takes nothing from a place that stays.
LEMMA Beside ==
    ASSUME IInv, UNCHANGED <<cmd, todo, listed, known>>,
           InBackup => InBackup', InCRD => InCRD', InAPI => InAPI', Settled => Settled',
           backupCrd = "present" => backupCrd' = "present" /\ backup' = backup
    PROVE  IInv'
  <1>1. Programs'
    BY DEF IInv, Programs
  <1>2. Safe'
    BY DEF IInv, Places, Safe
  <1> QED BY <1>1, <1>2 DEF IInv, Places

\* What the cluster does of its own: a pod stops only when its deployment is
\* leaving, and a definition is collected only when it is being deleted.
LEMMA ClusterStep == ASSUME IInv, Deployed, Cluster PROVE IInv'
  <1> USE DEF InBackup, InCRD, InAPI, Settled, Served, Server, Leaving
  <1>1. CASE StartPod
    BY <1>1, Beside DEF StartPod, hostVars, stackVars
  <1>2. CASE registerAggregatedAPIs
    BY <1>2, Beside DEF registerAggregatedAPIs, hostVars, stackVars
  <1>3. CASE StopPod
    BY <1>3, Beside DEF StopPod, hostVars
  <1>4. CASE CollectStray
    BY <1>4, Beside DEF CollectStray, stackVars
  <1>5. ASSUME NEW d \in Names, CollectDeployment(d) PROVE IInv'
    <2>1. CASE d = "compose"
      <3>1. deployment'["compose-api"] = deployment["compose-api"]
        BY <1>5, <2>1 DEF CollectDeployment, Deployed, Names
      <3> QED BY <1>5, <3>1, Beside DEF CollectDeployment, hostVars, stackVars
    <2>2. CASE d = "compose-api"
      <3>1. Leaving /\ deployment'["compose-api"] = None /\ apiPod = "none"
        BY <1>5, <2>2 DEF CollectDeployment, Deployed, Names
      <3> QED BY <1>5, <3>1, Beside DEF CollectDeployment, hostVars, stackVars
    <2> QED BY <2>1, <2>2 DEF Names
  <1>6. ASSUME NEW o \in Objects, CollectObject(o) PROVE IInv'
    BY <1>6, Beside DEF CollectObject, hostVars, stackVars
  <1>7. CASE CollectCRD
    BY <1>7, Beside DEF CollectCRD, clusterVars
  <1>8. CASE CollectBackup
    BY <1>8, Beside DEF CollectBackup, clusterVars
  <1> QED BY <1>1, <1>2, <1>3, <1>4, <1>5, <1>6, <1>7, <1>8 DEF Cluster

\* A user's stack is one more.
LEMMA CreateStackStep ==
    ASSUME IInv, NEW s \in Stacks, CreateStack(s)
    PROVE  IInv'
  <1>1. crdStacks \subseteq crdStacks' /\ apiStacks \subseteq apiStacks'
    BY DEF CreateStack, SetServed, Served
  <1>2. UNCHANGED <<deployment, apiPod, apiService, crd, backupCrd, backup, cmd, todo, listed, known>>
    BY DEF CreateStack, clusterVars
  <1>3. Server' = Server /\ Leaving' = Leaving
    BY <1>2 DEF Server, Leaving
  <1>4. Served \subseteq Served'
    BY <1>1, <1>3 DEF Served
  <1> QED BY <1>1, <1>2, <1>3, <1>4, Beside DEF InBackup, InCRD, InAPI, Settled

\* A call that fails: the program goes on after its waits, or restores no more.
LEMMA FailStep == ASSUME IInv, Fail PROVE IInv'
  <1>1. todo # <<>> /\ cmd' = cmd /\ UNCHANGED <<clusterVars, stackVars, known>>
    BY DEF Fail
  <1>2. ASSUME IsWait(Head(todo)), NEW n \in Waits, todo' = SubSeq(todo, n + 1, Len(todo))
        PROVE  IInv'
    <2>1. Head(todo) \in Late \ {"listBackup", "restore"}
      BY <1>2 DEF IsWait, Late
    <2>2. todo \in Seq(Late)
      BY <1>1, <2>1, WhoseStep DEF IInv
    <2>3. n \in 1 .. Len(todo) /\ Len(todo) \in Nat
      BY <2>2, LenProperties DEF Waits
    <2>4. \A i \in n + 1 .. Len(todo) : todo[i] \in Late
      BY <2>2, <2>3, SMT
    <2>5. todo' \in Seq(Late)
      BY <1>2, <2>3, <2>4, SubSeqProperties, SMT
    <2> QED BY <1>1, <2>1, <2>5, LateStep DEF stackVars
  <1>3. ASSUME Head(todo) \in {"listBackup", "restore"}, RestoreFails PROVE IInv'
    BY <1>1, <1>3, RestoreStep DEF RestoreFails, Abort, clusterVars, stackVars
  <1> QED BY <1>2, <1>3 DEF Fail

\* A command starts with nothing to lose, or with its stacks in a place that stays.
LEMMA StartStep ==
    ASSUME "rerun" \notin UpdateFrom, IInv,
           \/ \E f \in CommandLines : StartInstall(f)
           \/ \E o \in Embedded : StartDo(o)
           \/ \E tag \in UpdateTags :
                StartDebugInstall(tag) \/ \E abort \in BOOLEAN : StartUpdate(tag, abort)
           \/ StartUninstall \/ StartUninstallAPIServer \/ StartRestore \/ StartDeleteBackup
    PROVE  IInv'
  <1>1. ASSUME NEW name \in GivesUp, NEW o, NEW p \in Seq(Late), Start(name, o, p), known' = {}
        PROVE  IInv'
    <2>1. cmd'.name = name /\ todo' = p
      BY <1>1 DEF Start
    <2>2. Programs'
      BY <2>1 DEF Programs, GivesUp
    <2> QED BY <1>1, <2>1, <2>2 DEF IInv, Places, Safe, GivesUp
  <1>2. ASSUME NEW o, StartDo(o) PROVE IInv'
    <2>1. <<"do">> \in Seq(Late) /\ "install" \in GivesUp
      BY SMT DEF Late, GivesUp
    <2> QED BY <1>1, <1>2, <2>1 DEF StartDo
  <1>3. ASSUME NEW f \in CommandLines, StartInstall(f) PROVE IInv'
    <2>1. CASE parseOptions(f) # Failed
      BY <1>2, <1>3, <2>1 DEF StartInstall
    <2>2. CASE parseOptions(f) = Failed
      <3>1. /\ todo = <<>> /\ todo' = <<>> /\ cmd'.name = "install" /\ known' = known
            /\ UNCHANGED <<clusterVars, stackVars>>
        BY <1>3, <2>2, SMT DEF StartInstall
      <3>2. Programs'
        BY <3>1, EmptySeq DEF Programs, GivesUp
      <3>3. Safe'
        BY <3>1 DEF IInv, Places, Safe, InBackup, InCRD, InAPI, Leaving, clusterVars, stackVars
      <3> QED BY <3>1, <3>2, <3>3 DEF IInv, Places
    <2> QED BY <2>1, <2>2
  <1>4. CASE StartUninstall
    <2>1. /\ Uninstall(FALSE) \o WaitForUninstallCompletion(FALSE) \in Seq(Late)
          /\ "uninstall" \in GivesUp
      BY LatePrograms, ConcatProperties DEF GivesUp
    <2> QED BY <1>1, <1>4, <2>1 DEF StartUninstall
  <1>5. CASE StartUninstallAPIServer
    <2>1. "uninstallAPIServer" \in GivesUp /\ UninstallComposeAPIServer \in Seq(Late)
      BY LatePrograms DEF GivesUp
    <2> QED BY <1>1, <1>5, <2>1 DEF StartUninstallAPIServer
  <1>6. ASSUME NEW tag \in UpdateTags, NEW abort \in BOOLEAN, StartUpdate(tag, abort) PROVE IInv'
    <2>1. /\ Settled /\ cmd'.name = "update" /\ todo' = Update(abort)
          /\ UNCHANGED <<clusterVars, stackVars, known>>
      BY <1>6 DEF StartUpdate, Start
    <2>2. /\ todo' \in Seq(Early \cup Late) /\ Sorted(todo') /\ todo' # <<>>
          /\ Head(todo') \in {"dryRun", "getBackupCrd"}
      BY <2>1, UpdateSorted
    <2>3. Settled'
      BY <2>1, StillSettled DEF clusterVars, stackVars
    <2>4. Programs'
      BY <2>1, <2>2 DEF Programs, GivesUp
    <2>5. Safe'
      <3>1. CASE (Server = "crd")'
        BY <2>3, <3>1 DEF Settled, Safe, InCRD, Served
      <3>2. CASE (Server = "api")'
        BY <2>3, <3>2 DEF Settled, Safe, InAPI, Served
      <3> QED BY <2>3, <3>1, <3>2 DEF Settled
    <2>6. Head(todo') \notin Late
      BY <2>2 DEF Late
    <2> QED BY <2>1, <2>2, <2>3, <2>4, <2>5, <2>6 DEF IInv, Places, GivesUp
  <1>7. CASE StartRestore
    <2>1. /\ cmd'.name = "restore" /\ todo' = Restore /\ UNCHANGED <<clusterVars, stackVars, known>>
      BY <1>7 DEF StartRestore, Start
    <2>2. Programs'
      BY <2>1, LatePrograms DEF Programs, GivesUp
    <2>3. Safe'
      BY <2>1 DEF IInv, Places, Safe, InBackup, InCRD, InAPI, Leaving, clusterVars, stackVars
    <2> QED BY <2>1, <2>2, <2>3 DEF IInv, Places, GivesUp
  <1>8. CASE StartDeleteBackup
    <2>1. /\ cmd'.name = "deleteBackup" /\ todo' = <<"deleteBackup">>
          /\ InAPI /\ UNCHANGED <<clusterVars, stackVars, known>>
      BY <1>8 DEF StartDeleteBackup, Start, InAPI
    <2>2. Programs'
      BY <2>1, SMT DEF Programs, GivesUp
    <2>3. InAPI'
      BY <2>1 DEF InAPI, Leaving, clusterVars, stackVars
    <2> QED BY <2>1, <2>2, <2>3 DEF IInv, Places, Safe, GivesUp
  <1> QED BY <1>2, <1>3, <1>4, <1>5, <1>6, <1>7, <1>8 DEF StartDebugInstall

\* The steps that change a deployment.
LEMMA DeploymentSteps ==
    ASSUME [Next]_vars
    PROVE  \/ deployment' = deployment
           \/ createAPIServer \/ createController \/ DeleteController \/ uninstallApps
           \/ \E d \in Names : CollectDeployment(d)
  <1>1. CASE UNCHANGED vars
    BY <1>1 DEF vars, clusterVars
  <1>2. CASE Step
    <2>1. CASE \/ createServiceAccount \/ createClusterRoleBindings \/ createEtcdSecret
               \/ createNetworkSecret \/ createAPIServerService \/ createDebugService
               \/ createDefaultClusterRoles
      BY <2>1 DEF createServiceAccount, createClusterRoleBindings, createEtcdSecret,
           createNetworkSecret, createAPIServerService, createDebugService,
           createDefaultClusterRoles, CreateObject
    <2>2. CASE \/ Do \/ IsRunning \/ deleteCRD \/ uninstallRbac \/ deleteAPIServices
               \/ uninstallCore \/ Wait \/ WaitForNoStacks \/ GetCRD \/ ListStacks \/ EndOfLoop
      BY <2>2 DEF Do, IsRunning, deleteCRD, uninstallRbac, deleteAPIServices,
           uninstallCore, UninstallCore, Wait, WaitForNoStacks, GetCRD, ListStacks, EndOfLoop,
           clusterVars
    <2>3. CASE \/ DryRun \/ GetBackupCrd \/ Poll \/ createBackupCrd \/ ListBackup \/ DeleteBackup
               \/ \E s \in Stacks : orphanStack(s) \/ copyStackToBackupCrd(s) \/ restoreStack(s)
      BY <2>3 DEF DryRun, GetBackupCrd, Poll, createBackupCrd, ListBackup, DeleteBackup,
           orphanStack, copyStackToBackupCrd, restoreStack, clusterVars
    <2> QED BY <1>2, <2>1, <2>2, <2>3 DEF Step
  <1>3. CASE Cluster
    BY <1>3 DEF Cluster, StartPod, registerAggregatedAPIs, StopPod, CollectStray,
       CollectObject, CollectCRD, CollectBackup, clusterVars
  <1>4. CASE (\E s \in Stacks : CreateStack(s)) \/ Interrupt \/ Fail
    BY <1>4 DEF CreateStack, Interrupt, Fail, clusterVars
  <1>5. CASE \/ \E f \in CommandLines : StartInstall(f)
             \/ \E o \in Embedded : StartDo(o)
             \/ \E tag \in UpdateTags :
                  StartDebugInstall(tag) \/ \E abort \in BOOLEAN : StartUpdate(tag, abort)
             \/ StartUninstall \/ StartUninstallAPIServer \/ StartRestore \/ StartDeleteBackup
    BY <1>5 DEF StartInstall, StartDo, StartDebugInstall, StartUpdate, StartUninstall,
       StartUninstallAPIServer, StartRestore, StartDeleteBackup, Start, clusterVars
  <1> QED BY <1>1, <1>2, <1>3, <1>4, <1>5 DEF Next

\* No step adds or removes the name of a deployment.
LEMMA DeployedStep == ASSUME Deployed, [Next]_vars PROVE Deployed'
  BY DeploymentSteps DEF Deployed, createAPIServer, createController, CreateDeployment,
     DeleteController, uninstallApps, CollectDeployment

\* In every state the known stacks are in a place that the rest of the running
\* command, and the cluster, leave alone (Update, Backup, UninstallComposeCRD,
\* Restore, DeleteBackup).
THEOREM Invariance ==
    ASSUME "rerun" \notin UpdateFrom
    PROVE  Spec => [](IInv /\ Deployed)
  <1>1. Init => IInv /\ Deployed
    <2> SUFFICES ASSUME Init PROVE IInv /\ Deployed
      OBVIOUS
    <2>1. Deployed
      BY DEF Init, Deployed
    <2>2. Programs
      BY DEF Init, Programs, GivesUp
    <2>3. Safe
      BY DEF Init, Safe, InCRD
    <2> QED BY <2>1, <2>2, <2>3 DEF Init, IInv, Places
  <1>2. IInv /\ Deployed /\ [Next]_vars => IInv'
    <2> SUFFICES ASSUME IInv, Deployed, [Next]_vars PROVE IInv'
      OBVIOUS
    <2>1. CASE Step
      BY <2>1, DoStep, OtherLateSteps, GetCRDStep, ListStep, EndOfLoopStep, DryRunStep,
         GetBackupCrdStep, PollStep, CreateBackupCrdStep, ListBackupStep, DeleteBackupStep,
         OrphanStep, CopyStep, RestoreStackStep DEF Step
    <2>2. CASE Interrupt
      BY <2>2, Stops DEF Interrupt, Abort, clusterVars, stackVars
    <2>3. CASE UNCHANGED vars
      BY <2>3, Beside, StillSettled
         DEF vars, clusterVars, stackVars, InBackup, InCRD, InAPI, Leaving
    <2> QED BY <2>1, <2>2, <2>3, ClusterStep, CreateStackStep, FailStep, StartStep DEF Next
  <1>3. Deployed /\ [Next]_vars => Deployed'
    BY DeployedStep
  <1> QED BY <1>1, <1>2, <1>3, PTL DEF Spec

\* Update never leaves a stack without a copy, for any stacks, options and versions
\* and any number of commands, interruptions and failing calls, provided it starts
\* with the known stacks being served (Update, Backup, Restore).
THEOREM UpdateKeepsStacks ==
    ASSUME "rerun" \notin UpdateFrom
    PROVE  Spec => []StacksKept
  <1>1. IInv => StacksKept
    BY DEF IInv, Places, Safe, InBackup, InCRD, InAPI, StacksKept
  <1> QED BY <1>1, Invariance, PTL
-----------------------------------------------------------------------------
(* An uninstallation that reports no error is complete. *)

UninstallSteps ==
    {"uninstallApps", "deleteCRD", "uninstallRbac", "deleteAPIServices", "uninstallCore",
     "waitForNoApps", "waitForNoRbac", "waitForNoAPIAggregation", "waitForNoCoreComponents",
     "waitForNoCrd"}

\* What a wait has seen go stays away: the steps that are left create nothing.
Cleared ==
    cmd.name = "uninstall" =>
      /\ todo \in Seq(UninstallSteps)
      /\ todo # <<>> => result = "running"
      /\ result # "error" =>
           /\ Ahead("waitForNoApps") \/ waitForNoApps
           /\ Ahead("waitForNoRbac") \/ waitForNoRbac
           /\ Ahead("waitForNoCoreComponents") \/ waitForNoCoreComponents

\* Nothing that is gone comes back.
Removes ==
    /\ \A d \in Names : deployment[d] = None => deployment'[d] = None
    /\ \A o \in Objects : object[o] = "absent" => object'[o] = "absent"

\* The names of the objects never change either.
Kinds == Deployed /\ DOMAIN object = Objects

\* No step adds or removes the name of an object.
LEMMA KindsStep == ASSUME Kinds, [Next]_vars PROVE Kinds'
  <1>0. Deployed'
    BY DeployedStep DEF Kinds
  <1>1. ASSUME object' = object PROVE Kinds'
    BY <1>0, <1>1 DEF Kinds
  <1>2. CASE UNCHANGED vars
    BY <1>1, <1>2 DEF vars, clusterVars
  <1>3. CASE Step
    <2>1. CASE \/ createServiceAccount \/ createClusterRoleBindings \/ createEtcdSecret
               \/ createNetworkSecret \/ createAPIServerService \/ createDebugService
               \/ createDefaultClusterRoles \/ uninstallRbac \/ uninstallCore
      BY <1>0, <2>1 DEF Kinds, createServiceAccount, createClusterRoleBindings, createEtcdSecret,
           createNetworkSecret, createAPIServerService, createDebugService,
           createDefaultClusterRoles, CreateObject, uninstallRbac, Terminate, uninstallCore,
           UninstallCore
    <2>2. CASE \/ createAPIServer \/ createController \/ DeleteController \/ uninstallApps
               \/ Do \/ IsRunning \/ deleteCRD \/ deleteAPIServices
               \/ Wait \/ WaitForNoStacks \/ GetCRD \/ ListStacks \/ EndOfLoop
      BY <1>1, <2>2
         DEF createAPIServer, createController, CreateDeployment, DeleteController,
           uninstallApps, Do, IsRunning, deleteCRD, deleteAPIServices, Wait, WaitForNoStacks,
           GetCRD, ListStacks, EndOfLoop, clusterVars
    <2>3. CASE \/ DryRun \/ GetBackupCrd \/ Poll \/ createBackupCrd \/ ListBackup \/ DeleteBackup
               \/ \E s \in Stacks : orphanStack(s) \/ copyStackToBackupCrd(s) \/ restoreStack(s)
      BY <1>1, <2>3
         DEF DryRun, GetBackupCrd, Poll, createBackupCrd, ListBackup, DeleteBackup,
           orphanStack, copyStackToBackupCrd, restoreStack, clusterVars
    <2> QED BY <1>3, <2>1, <2>2, <2>3 DEF Step
  <1>4. CASE Cluster
    BY <1>0, <1>1, <1>4
       DEF Kinds, Cluster, StartPod, registerAggregatedAPIs, StopPod, CollectStray,
       CollectDeployment, CollectObject, CollectCRD, CollectBackup, clusterVars
  <1>5. CASE (\E s \in Stacks : CreateStack(s)) \/ Interrupt \/ Fail
    BY <1>1, <1>5 DEF CreateStack, Interrupt, Fail, clusterVars
  <1>6. CASE \/ \E f \in CommandLines : StartInstall(f)
             \/ \E o \in Embedded : StartDo(o)
             \/ \E tag \in UpdateTags :
                  StartDebugInstall(tag) \/ \E abort \in BOOLEAN : StartUpdate(tag, abort)
             \/ StartUninstall \/ StartUninstallAPIServer \/ StartRestore \/ StartDeleteBackup
    BY <1>1, <1>6 DEF StartInstall, StartDo, StartDebugInstall, StartUpdate, StartUninstall,
       StartUninstallAPIServer, StartRestore, StartDeleteBackup, Start, clusterVars
  <1> QED BY <1>2, <1>3, <1>4, <1>5, <1>6 DEF Next

\* The cluster and the users, beside the command.
LEMMA BesideRemoves ==
    ASSUME Kinds, Cluster \/ (\E s \in Stacks : CreateStack(s)) \/ UNCHANGED vars
    PROVE  Removes /\ UNCHANGED <<cmd, todo, result>>
  <1>1. ASSUME UNCHANGED <<deployment, object>> PROVE Removes
    BY <1>1 DEF Removes
  <1>2. CASE UNCHANGED vars
    BY <1>1, <1>2 DEF vars, clusterVars
  <1>3. CASE \E s \in Stacks : CreateStack(s)
    BY <1>1, <1>3 DEF CreateStack, clusterVars
  <1>4. CASE StartPod \/ registerAggregatedAPIs \/ StopPod \/ CollectStray \/ CollectCRD \/ CollectBackup
    BY <1>1, <1>4 DEF StartPod, registerAggregatedAPIs, StopPod, CollectStray, CollectCRD,
                      CollectBackup, clusterVars
  <1>5. ASSUME NEW d \in Names, CollectDeployment(d)
        PROVE  Removes /\ UNCHANGED <<cmd, todo, result>>
    BY <1>5 DEF CollectDeployment, Removes, Kinds, Deployed
  <1>6. ASSUME NEW o \in Objects, CollectObject(o)
        PROVE  Removes /\ UNCHANGED <<cmd, todo, result>>
    BY <1>6 DEF CollectObject, Removes, Kinds
  <1> QED BY <1>2, <1>3, <1>4, <1>5, <1>6 DEF Cluster

\* A step of the uninstallation removes, or waits.
LEMMA UninstallStepRemoves ==
    ASSUME Kinds, Step, todo \in Seq(UninstallSteps)
    PROVE  /\ Removes /\ Proceed /\ todo # <<>> /\ cmd' = cmd
           /\ Head(todo) = "waitForNoApps" => waitForNoApps
           /\ Head(todo) = "waitForNoRbac" => waitForNoRbac
           /\ Head(todo) = "waitForNoCoreComponents" => waitForNoCoreComponents
  <1>1. todo # <<>> => Head(todo) \in UninstallSteps
    BY HeadTailProperties
  <1>2. \/ uninstallApps \/ deleteCRD \/ uninstallRbac \/ deleteAPIServices \/ uninstallCore \/ Wait
    <2>1. ~(\/ Do \/ IsRunning \/ DeleteController \/ WaitForNoStacks \/ GetCRD \/ ListStacks
            \/ EndOfLoop)
      BY <1>1 DEF UninstallSteps, Do, IsRunning, DeleteController, WaitForNoStacks, GetCRD,
                  ListStacks, EndOfLoop, At
    <2>2. ~(\/ createServiceAccount \/ createClusterRoleBindings \/ createEtcdSecret
            \/ createNetworkSecret \/ createAPIServerService \/ createDebugService
            \/ createDefaultClusterRoles \/ createAPIServer \/ createController)
      BY <1>1 DEF UninstallSteps, At, createServiceAccount, createClusterRoleBindings,
           createEtcdSecret, createNetworkSecret, createAPIServerService, createDebugService,
           createDefaultClusterRoles, CreateObject, createAPIServer, createController,
           CreateDeployment
    <2>3. ~(\/ DryRun \/ GetBackupCrd \/ Poll \/ createBackupCrd \/ ListBackup \/ DeleteBackup
            \/ \E s \in Stacks : orphanStack(s) \/ copyStackToBackupCrd(s) \/ restoreStack(s))
      BY <1>1 DEF UninstallSteps, At, Each, DryRun, GetBackupCrd, Poll, createBackupCrd,
           ListBackup, DeleteBackup, orphanStack, copyStackToBackupCrd, restoreStack
    <2> QED BY <2>1, <2>2, <2>3 DEF Step
  <1>3. CASE uninstallApps
    BY <1>3 DEF uninstallApps, Removes, At
  <1>4. CASE deleteCRD \/ deleteAPIServices
    BY <1>4 DEF deleteCRD, deleteAPIServices, Removes, At, clusterVars
  <1>5. CASE uninstallRbac \/ uninstallCore
    BY <1>5 DEF uninstallRbac, uninstallCore, UninstallCore, Terminate, Removes, At
  <1>6. CASE Wait
    BY <1>6 DEF Wait, Removes, At, clusterVars
  <1> QED BY <1>2, <1>3, <1>4, <1>5, <1>6

\* A step that is ahead is next, or ahead of the rest.
LEMMA AheadTail ==
    ASSUME NEW S, todo \in Seq(S), todo # <<>>, todo' = Tail(todo), NEW x, Ahead(x)
    PROVE  Head(todo) = x \/ Ahead(x)'
  <1>1. /\ Len(todo) \in Nat \ {0} /\ DOMAIN todo = 1 .. Len(todo) /\ Head(todo) = todo[1]
        /\ DOMAIN Tail(todo) = 1 .. Len(todo) - 1
        /\ \A i \in 1 .. Len(todo) - 1 : Tail(todo)[i] = todo[i + 1]
    BY EmptySeq, HeadTailProperties, LenProperties, SMT
  <1>2. PICK i \in 1 .. Len(todo) : todo[i] = x
    BY <1>1 DEF Ahead
  <1>3. CASE i = 1
    BY <1>1, <1>2, <1>3
  <1>4. CASE i # 1
    <2>1. i - 1 \in 1 .. Len(todo) - 1 /\ Tail(todo)[i - 1] = x
      BY <1>1, <1>2, <1>4, SMT
    <2> QED BY <1>1, <2>1 DEF Ahead
  <1> QED BY <1>3, <1>4

\* What is gone is still gone after a step that removes.
LEMMA GoneStaysGone ==
    ASSUME Removes
    PROVE  /\ waitForNoApps => waitForNoApps'
           /\ waitForNoRbac => waitForNoRbac'
           /\ waitForNoCoreComponents => waitForNoCoreComponents'
  BY DEF Removes, waitForNoApps, waitForNoRbac, waitForNoCoreComponents, Objects, Labelled,
         Secrets, Services

\* What is ahead in a part of a program is ahead in the whole.
Has(s, x) == \E i \in 1 .. Len(s) : s[i] = x

\* A program has the steps of its two parts.
LEMMA HasConcat ==
    ASSUME NEW S, NEW s \in Seq(S), NEW t \in Seq(S), NEW x, Has(s, x) \/ Has(t, x)
    PROVE  Has(s \o t, x)
  <1>1. /\ Len(s \o t) = Len(s) + Len(t)
        /\ \A i \in 1 .. Len(s) + Len(t) :
             (s \o t)[i] = IF i <= Len(s) THEN s[i] ELSE t[i - Len(s)]
        /\ Len(s) \in Nat /\ Len(t) \in Nat
    BY ConcatProperties, LenProperties
  <1>2. CASE Has(s, x)
    BY <1>1, <1>2, SMT DEF Has
  <1>3. CASE Has(t, x)
    <2>1. PICK i \in 1 .. Len(t) : t[i] = x
      BY <1>3 DEF Has
    <2>2. /\ i + Len(s) \in 1 .. Len(s \o t) /\ ~(i + Len(s) <= Len(s))
          /\ (i + Len(s)) - Len(s) = i
      BY <1>1, SMT
    <2>3. (s \o t)[i + Len(s)] = x
      BY <1>1, <2>1, <2>2
    <2> QED BY <2>2, <2>3 DEF Has
  <1> QED BY <1>2, <1>3

\* The program of Uninstall has the waits of WaitForUninstallCompletion.
LEMMA UninstallProgram ==
    LET u == Uninstall(FALSE) \o WaitForUninstallCompletion(FALSE) IN
    /\ u \in Seq(UninstallSteps)
    /\ Has(u, "waitForNoApps") /\ Has(u, "waitForNoRbac") /\ Has(u, "waitForNoCoreComponents")
  <1> DEFINE U == UninstallSteps
             c == <<"waitForNoApps", "waitForNoRbac", "waitForNoAPIAggregation",
                    "waitForNoCoreComponents">>
             w == WaitForUninstallCompletion(FALSE)
  <1>1. /\ <<"uninstallApps">> \in Seq(U) /\ <<"deleteCRD">> \in Seq(U)
        /\ <<"uninstallRbac", "deleteAPIServices", "uninstallCore">> \in Seq(U)
        /\ c \in Seq(U) /\ <<"waitForNoCrd">> \in Seq(U)
    BY SMT DEF UninstallSteps
  <1>2. Len(c) = 4 /\ c[1] = "waitForNoApps" /\ c[2] = "waitForNoRbac"
        /\ c[4] = "waitForNoCoreComponents"
    OBVIOUS
  <1>3. Has(c, "waitForNoApps") /\ Has(c, "waitForNoRbac") /\ Has(c, "waitForNoCoreComponents")
    BY <1>2, SMT DEF Has
  <1>4. w = c \o <<"waitForNoCrd">> /\ w \in Seq(U)
    BY <1>1, ConcatProperties DEF WaitForUninstallCompletion
  <1>5. Uninstall(FALSE) \in Seq(U)
    BY <1>1, ConcatProperties DEF Uninstall
  <1> HIDE DEF c, w, U
  <1>6. Has(w, "waitForNoApps") /\ Has(w, "waitForNoRbac") /\ Has(w, "waitForNoCoreComponents")
    BY <1>1, <1>3, <1>4, HasConcat
  <1>7. LET u == Uninstall(FALSE) \o w IN
        /\ u \in Seq(U)
        /\ Has(u, "waitForNoApps") /\ Has(u, "waitForNoRbac") /\ Has(u, "waitForNoCoreComponents")
    BY <1>4, <1>5, <1>6, HasConcat, ConcatProperties
  <1> QED BY <1>7 DEF U, w

\* Which steps start a command, and what they start.
Starts ==
    \/ \E f \in CommandLines : StartInstall(f)
    \/ \E o \in Embedded : StartDo(o)
    \/ \E tag \in UpdateTags :
         StartDebugInstall(tag) \/ \E abort \in BOOLEAN : StartUpdate(tag, abort)
    \/ StartUninstall \/ StartUninstallAPIServer \/ StartRestore \/ StartDeleteBackup

\* Only one command is called Uninstall.
LEMMA StartsWhat ==
    ASSUME Starts
    PROVE  StartUninstall \/ cmd'.name # "uninstall"
  <1>1. ASSUME NEW n, NEW o, NEW p, Start(n, o, p), n # "uninstall" PROVE cmd'.name # "uninstall"
    BY <1>1 DEF Start
  <1>2. ASSUME NEW o, StartDo(o) PROVE cmd'.name # "uninstall"
    BY <1>1, <1>2 DEF StartDo
  <1>3. ASSUME NEW f \in CommandLines, StartInstall(f) PROVE cmd'.name # "uninstall"
    BY <1>2, <1>3, SMT DEF StartInstall
  <1>4. ASSUME NEW t, NEW a, StartUpdate(t, a) PROVE cmd'.name # "uninstall"
    BY <1>1, <1>4 DEF StartUpdate
  <1>5. StartUninstallAPIServer \/ StartRestore \/ StartDeleteBackup => cmd'.name # "uninstall"
    BY <1>1 DEF StartUninstallAPIServer, StartRestore, StartDeleteBackup
  <1> QED BY <1>2, <1>3, <1>4, <1>5 DEF Starts, StartDebugInstall

\* No step brings back what the waits of Uninstall have seen go.
LEMMA ClearedStep == ASSUME Kinds, Cleared, [Next]_vars PROVE Cleared'
  <1>1. CASE StartUninstall
    <2> DEFINE u == Uninstall(FALSE) \o WaitForUninstallCompletion(FALSE)
    <2>1. todo' = u /\ result' = "running"
      BY <1>1 DEF StartUninstall, Start
    <2>2. /\ u \in Seq(UninstallSteps) /\ DOMAIN u = 1 .. Len(u)
          /\ Has(u, "waitForNoApps") /\ Has(u, "waitForNoRbac")
          /\ Has(u, "waitForNoCoreComponents")
      BY UninstallProgram, LenProperties
    <2> HIDE DEF u
    <2>3. Ahead("waitForNoApps")' /\ Ahead("waitForNoRbac")' /\ Ahead("waitForNoCoreComponents")'
      BY <2>1, <2>2 DEF Ahead, Has
    <2> QED BY <2>1, <2>2, <2>3 DEF Cleared
  <1>2. CASE Starts /\ ~StartUninstall
    BY <1>2, StartsWhat DEF Cleared
  <1>3. CASE cmd.name # "uninstall" /\ cmd' = cmd
    BY <1>3 DEF Cleared
  <1>4. CASE cmd.name = "uninstall" /\ cmd' = cmd
    <2>1. CASE todo' = <<>> /\ result' = "error"
      BY <1>4, <2>1, EmptySeq DEF Cleared
    <2>2. CASE Removes /\ UNCHANGED <<todo, result>>
      BY <1>4, <2>2, GoneStaysGone DEF Cleared, Ahead
    <2>3. CASE Step
      <3>1. todo \in Seq(UninstallSteps)
        BY <1>4 DEF Cleared
      <3>2. /\ Removes /\ Proceed /\ todo # <<>>
            /\ Head(todo) = "waitForNoApps" => waitForNoApps
            /\ Head(todo) = "waitForNoRbac" => waitForNoRbac
            /\ Head(todo) = "waitForNoCoreComponents" => waitForNoCoreComponents
        BY <2>3, <3>1, UninstallStepRemoves
      <3>3. result = "running"
        BY <1>4, <3>2 DEF Cleared
      <3>4. todo' = Tail(todo) /\ (todo' # <<>> => result' = "running")
        BY <3>2, <3>3 DEF Proceed, Continue
      <3>5. todo' \in Seq(UninstallSteps)
        BY <3>1, <3>2, <3>4, HeadTailProperties
      <3>6. /\ Ahead("waitForNoApps")' \/ waitForNoApps'
            /\ Ahead("waitForNoRbac")' \/ waitForNoRbac'
            /\ Ahead("waitForNoCoreComponents")' \/ waitForNoCoreComponents'
        <4>1. ASSUME NEW x, Ahead(x) PROVE Head(todo) = x \/ Ahead(x)'
          BY <3>1, <3>2, <3>4, <4>1, AheadTail
        <4>2. /\ Ahead("waitForNoApps") => Head(todo) = "waitForNoApps" \/ Ahead("waitForNoApps")'
              /\ Ahead("waitForNoRbac") => Head(todo) = "waitForNoRbac" \/ Ahead("waitForNoRbac")'
              /\ Ahead("waitForNoCoreComponents") =>
                   Head(todo) = "waitForNoCoreComponents" \/ Ahead("waitForNoCoreComponents")'
          BY <4>1
        <4> QED BY <1>4, <3>2, <3>3, <4>2, GoneStaysGone DEF Cleared
      <3> QED BY <3>4, <3>5, <3>6 DEF Cleared
    <2>4. CASE Cluster \/ (\E s \in Stacks : CreateStack(s)) \/ UNCHANGED vars
      BY <2>2, <2>4, BesideRemoves
    <2>5. CASE Interrupt
      BY <2>1, <2>5 DEF Interrupt, Abort
    <2>6. CASE Fail
      <3>1. todo \in Seq(UninstallSteps) /\ todo # <<>>
        BY <1>4, <2>6 DEF Cleared, Fail
      <3>2. Head(todo) \in UninstallSteps
        BY <3>1, HeadTailProperties
      <3>3. ~IgnoresWaits
        BY <1>4, <3>1, SMT DEF IgnoresWaits, Ahead, UninstallSteps
      <3> QED BY <2>6, <3>2, <3>3 DEF Fail, UninstallSteps
    <2>7. ~Starts \/ StartUninstall \/ cmd'.name # "uninstall"
      BY StartsWhat
    <2> QED BY <1>1, <1>4, <2>3, <2>4, <2>5, <2>6, <2>7 DEF Next, Starts
  <1>5. Starts \/ cmd' = cmd
    <2>1. CASE Step
      BY <2>1 DEF Step, Do, IsRunning, createServiceAccount, createClusterRoleBindings,
           createEtcdSecret, createNetworkSecret, createAPIServerService, createDebugService,
           createDefaultClusterRoles, CreateObject, createAPIServer, createController,
           CreateDeployment, DeleteController, uninstallApps, deleteCRD, uninstallRbac,
           deleteAPIServices, uninstallCore, UninstallCore, Wait, WaitForNoStacks, GetCRD,
           ListStacks, EndOfLoop, DryRun, GetBackupCrd, Poll, createBackupCrd, ListBackup,
           DeleteBackup, orphanStack, copyStackToBackupCrd, restoreStack
    <2>2. CASE Cluster \/ (\E s \in Stacks : CreateStack(s)) \/ Interrupt \/ Fail \/ UNCHANGED vars
      BY <2>2 DEF Cluster, StartPod, registerAggregatedAPIs, StopPod, CollectStray,
           CollectDeployment, CollectObject, CollectCRD, CollectBackup, CreateStack, Interrupt,
           Fail, vars
    <2> QED BY <2>1, <2>2 DEF Next, Starts
  <1> QED BY <1>1, <1>2, <1>3, <1>4, <1>5

\* An uninstallation that reports no error leaves no deployment and no labelled
\* object, whatever earlier commands were interrupted or failed, and whatever the
\* cluster holds (Uninstall, WaitForUninstallCompletion): what its waits have
\* seen go, no step that is left brings back.
THEOREM UninstallsAreComplete == Spec => []UninstallComplete
  <1>1. Init => Kinds /\ Cleared
    <2>1. Init => Kinds
      <3>1. Init => DOMAIN deployment = Names
        BY DEF Init
      <3>2. Init => DOMAIN object = Objects
        BY DEF Init
      <3> QED BY <3>1, <3>2 DEF Kinds, Deployed
    <2>2. Init => cmd = [name |-> "none", options |-> None]
      BY DEF Init
    <2>3. Init => cmd.name # "uninstall"
      BY <2>2, SMT
    <2> QED BY <2>1, <2>3 DEF Cleared
  <1>2. Kinds /\ [Next]_vars => Kinds'
    BY KindsStep
  <1>3. Kinds /\ Cleared /\ [Next]_vars => Cleared'
    BY ClearedStep
  <1>4. Cleared => UninstallComplete
    <2> SUFFICES ASSUME Cleared, cmd.name = "uninstall", result = "done"
                 PROVE  /\ \A d \in Names : deployment[d] = None
                        /\ \A o \in Labelled : object[o] = "absent"
      BY DEF UninstallComplete
    <2>1. todo = <<>>
      BY DEF Cleared
    <2>2. \A x : ~Ahead(x)
      BY <2>1, SMT DEF Ahead
    <2> QED BY <2>2 DEF Cleared, waitForNoApps, waitForNoRbac, waitForNoCoreComponents, Labelled
  <1> QED BY <1>1, <1>2, <1>3, <1>4, PTL DEF Spec
-----------------------------------------------------------------------------
(* An Update that reports no error has restored the stacks it moved, from  *)
(* a definition or from another API server.  Its program is a part that    *)
(* tears down, a part that builds and a fixed rest; the API server appears *)
(* with the second part, and the rest only begins once it serves.          *)

\* Programs can be put together in any order.
Regroups(S) == \A u, v, w \in Seq(S) : (u \o v) \o w = u \o (v \o w)

\* They can, whatever their steps are.
LEMMA Associative == ASSUME NEW S PROVE Regroups(S)
  BY SMTT(30) DEF Regroups

Wreck ==
    Early \cup UninstallSteps
    \cup {"getCRD", "listStacks", "orphan", "waitForNoStacks", "removeCRD", "waitForNoCRD"}
Build ==
    {"serviceAccount", "rbac", "compose-etcd", "compose-tls", "compose-api", "service",
     "debugAPIServer", "defaultRoles"}
Last == {"doControllerOnly", "serviceAccount", "rbac", "compose", "debugController", "defaultRoles"}
Rest == <<"isRunning", "listBackup", "restore", "doControllerOnly">>
Replace == <<"doWithoutController", "isRunning", "listBackup", "restore", "doControllerOnly">>

\* The steps of an Update, before and after.
LEMMA StepNames ==
    /\ Wreck \subseteq Early \cup Late /\ Build \subseteq Early \cup Late
    /\ Rest \in Seq(Early \cup Late) /\ Rest # <<>> /\ Head(Rest) = "isRunning"
    /\ Tail(Rest) = <<"listBackup", "restore", "doControllerOnly">>
    /\ Replace \in Seq(Early \cup Late) /\ Replace # <<>>
    /\ Head(Replace) = "doWithoutController" /\ Tail(Replace) = Rest
    /\ Len(Replace) = 5 /\ Replace[1] = "doWithoutController"
  BY SMT DEF Wreck, Build, Rest, Replace, Early, Late, UninstallSteps

\* The first step of a program in two parts.
LEMMA FirstOfTwo ==
    ASSUME NEW S, NEW p \in Seq(S), NEW r \in Seq(S), p # <<>>
    PROVE  /\ p \o r # <<>> /\ Head(p \o r) = Head(p) /\ Tail(p \o r) = Tail(p) \o r
           /\ Head(p) \in S /\ Tail(p) \in Seq(S)
  <1> DEFINE u == p \o r
             v == Tail(p) \o r
  <1>1. /\ u \in Seq(S) /\ Len(u) = Len(p) + Len(r)
        /\ \A i \in 1 .. Len(p) + Len(r) : u[i] = IF i <= Len(p) THEN p[i] ELSE r[i - Len(p)]
    BY ConcatProperties
  <1>2. /\ Len(p) \in Nat \ {0} /\ Len(r) \in Nat /\ Head(p) \in S /\ Tail(p) \in Seq(S)
        /\ Len(Tail(p)) = Len(p) - 1
        /\ \A i \in 1 .. Len(Tail(p)) : Tail(p)[i] = p[i + 1]
    BY EmptySeq, LenProperties, HeadTailProperties
  <1>3. /\ v \in Seq(S) /\ Len(v) = Len(Tail(p)) + Len(r)
        /\ \A i \in 1 .. Len(Tail(p)) + Len(r) :
             v[i] = IF i <= Len(Tail(p)) THEN Tail(p)[i] ELSE r[i - Len(Tail(p))]
    BY <1>2, ConcatProperties
  <1>4. Head(p) = p[1]
    BY SMT
  <1> HIDE DEF u, v
  <1>5. u # <<>>
    BY <1>1, <1>2, EmptySeq, SMT
  <1>6. Tail(u) \in Seq(S) /\ Len(Tail(u)) = Len(u) - 1
        /\ \A i \in 1 .. Len(Tail(u)) : Tail(u)[i] = u[i + 1]
    BY <1>1, <1>5, HeadTailProperties
  <1>7. Head(u) = Head(p)
    BY <1>1, <1>2, <1>4, <1>5, SMT
  <1>8. ASSUME NEW i \in 1 .. Len(v) PROVE Tail(u)[i] = v[i]
    <2>1. Tail(u)[i] = u[i + 1] /\ i + 1 \in 1 .. Len(p) + Len(r)
      BY <1>1, <1>2, <1>3, <1>6, SMTT(30)
    <2>2. CASE i <= Len(Tail(p))
      BY <1>1, <1>2, <1>3, <2>1, <2>2, SMTT(30)
    <2>3. CASE ~(i <= Len(Tail(p)))
      <3>1. ~(i + 1 <= Len(p)) /\ (i + 1) - Len(p) = i - Len(Tail(p))
        BY <1>2, <1>3, <2>3, SMT
      <3> QED BY <1>1, <1>2, <1>3, <2>1, <2>3, <3>1
    <2> QED BY <2>2, <2>3
  <1>9. Tail(u) = v
    <2>1. Len(Tail(u)) = Len(v)
      BY <1>1, <1>2, <1>3, <1>6, SMT
    <2> QED BY <1>3, <1>6, <1>8, <2>1, SeqEqual
  <1> QED BY <1>2, <1>5, <1>7, <1>9 DEF u, v

\* What is left of a sequence without its first n elements.
LEMMA Dropped ==
    ASSUME NEW S, NEW s \in Seq(S), NEW n \in 0 .. Len(s)
    PROVE  LET t == SubSeq(s, n + 1, Len(s)) IN
           /\ t \in Seq(S) /\ Len(t) = Len(s) - n
           /\ \A i \in 1 .. Len(s) - n : t[i] = s[n + i]
  <1> DEFINE t == SubSeq(s, n + 1, Len(s))
  <1>1. /\ Len(s) \in Nat /\ n \in Nat /\ n + 1 \in Int
        /\ \A i \in n + 1 .. Len(s) : s[i] \in S
    BY LenProperties, ElementOfSeq, SMT
  <1>2. /\ t \in Seq(S)
        /\ Len(t) = IF n + 1 <= Len(s) THEN Len(s) - (n + 1) + 1 ELSE 0
        /\ \A i \in 1 .. Len(s) - (n + 1) + 1 : t[i] = s[(n + 1) + i - 1]
    BY <1>1, SubSeqProperties, SMT
  <1> HIDE DEF t
  <1>3. Len(t) = Len(s) - n
    BY <1>1, <1>2, SMT
  <1>4. ASSUME NEW i \in 1 .. Len(s) - n PROVE t[i] = s[n + i]
    <2>1. i \in 1 .. Len(s) - (n + 1) + 1 /\ (n + 1) + i - 1 = n + i
      BY <1>1, SMT
    <2> QED BY <1>2, <2>1
  <1> QED BY <1>2, <1>3, <1>4 DEF t

\* The programs an Update is made of.
LEMMA UpdateParts ==
    /\ \A keep \in BOOLEAN : Uninstall(keep) \in Seq(Wreck)
    /\ \A skip \in BOOLEAN : WaitForUninstallCompletion(skip) \in Seq(Wreck)
    /\ UninstallCRD \in Seq(Wreck) /\ UninstallComposeCRD \in Seq(Wreck)
    /\ Backup \in Seq(Wreck)
    /\ \A i : Install(i, TRUE, FALSE) \in Seq(Build)
    /\ \A i : Install(i, FALSE, TRUE) \in Seq(Last)
  <1>1. ASSUME NEW keep \in BOOLEAN PROVE Uninstall(keep) \in Seq(Wreck)
    <2>1. <<"uninstallApps">> \in Seq(Wreck) /\ <<"deleteCRD">> \in Seq(Wreck) /\ <<>> \in Seq(Wreck)
          /\ <<"uninstallRbac", "deleteAPIServices", "uninstallCore">> \in Seq(Wreck)
      BY SMT DEF Wreck, UninstallSteps
    <2> QED BY <2>1, ConcatProperties DEF Uninstall
  <1>2. ASSUME NEW skip \in BOOLEAN PROVE WaitForUninstallCompletion(skip) \in Seq(Wreck)
    <2>1. /\ <<"waitForNoApps", "waitForNoRbac", "waitForNoAPIAggregation",
               "waitForNoCoreComponents">> \in Seq(Wreck)
          /\ <<"waitForNoCrd">> \in Seq(Wreck) /\ <<>> \in Seq(Wreck)
      BY SMT DEF Wreck, UninstallSteps
    <2> QED BY <2>1, ConcatProperties DEF WaitForUninstallCompletion
  <1>3. UninstallCRD \in Seq(Wreck) /\ Backup \in Seq(Wreck) /\ <<"getCRD">> \in Seq(Wreck)
    BY SMT DEF UninstallCRD, Backup, Wreck, Early
  <1>4. UninstallComposeCRD \in Seq(Wreck)
    BY <1>1, <1>2, <1>3, ConcatProperties DEF UninstallComposeCRD
  <1>5. ASSUME NEW i PROVE Install(i, TRUE, FALSE) \in Seq(Build)
    <2>1. /\ <<"compose-etcd">> \in Seq(Build) /\ <<"compose-tls">> \in Seq(Build)
          /\ <<"compose-api", "service">> \in Seq(Build) /\ <<"debugAPIServer">> \in Seq(Build)
          /\ <<"serviceAccount", "rbac">> \in Seq(Build) /\ <<"defaultRoles">> \in Seq(Build)
          /\ <<>> \in Seq(Build)
      BY SMT DEF Build
    <2>2. InstallAPIServer(i) \in Seq(Build)
      BY <2>1, ConcatProperties DEF InstallAPIServer
    <2> QED BY <2>1, <2>2, ConcatProperties DEF Install
  <1>6. ASSUME NEW i PROVE Install(i, FALSE, TRUE) \in Seq(Last)
    <2>1. /\ <<"compose">> \in Seq(Last) /\ <<"debugController">> \in Seq(Last)
          /\ <<"serviceAccount", "rbac">> \in Seq(Last) /\ <<"defaultRoles">> \in Seq(Last)
          /\ <<>> \in Seq(Last)
      BY SMT DEF Last
    <2>2. InstallController(i) \in Seq(Last)
      BY <2>1, ConcatProperties DEF InstallController
    <2> QED BY <2>1, <2>2, ConcatProperties DEF Install
  <1> QED BY <1>1, <1>2, <1>3, <1>4, <1>5, <1>6
\* Update makes its backup, uninstalls, and goes on with its fixed rest.
LEMMA UpdateSplit ==
    ASSUME NEW abort \in BOOLEAN
    PROVE  LET w == ((IF abort THEN <<"dryRun">> ELSE <<>>) \o Backup) \o UninstallComposeCRD IN
           w \in Seq(Wreck) /\ Update(abort) = w \o Replace
  <1> DEFINE S == Early \cup Late
             a == IF abort THEN <<"dryRun">> ELSE <<>>
             w == (a \o Backup) \o UninstallComposeCRD
             x == <<"doWithoutController", "isRunning">>
             c == <<"doControllerOnly">>
  <1>1. a \in Seq(Wreck)
    BY SMT DEF Wreck, Early
  <1>2. w \in Seq(Wreck)
    BY <1>1, UpdateParts, ConcatProperties
  <1>3. Update(abort) = ((w \o x) \o Restore) \o c
    BY DEF Update
  <1>4. Replace = (x \o Restore) \o c
    BY SMT DEF Replace, Restore
  <1>5. w \in Seq(S) /\ x \in Seq(S) /\ c \in Seq(S) /\ Restore \in Seq(S)
    <2>1. w \in Seq(S)
      BY <1>2, StepNames, SeqMonotonic
    <2> QED BY <2>1, SMT DEF Restore, Late
  <1>6. Update(abort) = w \o Replace
    <2> HIDE DEF S, w, x, c
    <2>1. Regroups(S)
      BY ONLY Associative
    <2>2. (w \o x) \o Restore = w \o (x \o Restore)
      BY ONLY <1>5, <2>1, SMTT(30) DEF Regroups
    <2> DEFINE r == x \o Restore
    <2>3. r \in Seq(S)
      BY <1>5, ConcatProperties
    <2> HIDE DEF r
    <2>4. (w \o r) \o c = w \o (r \o c)
      <3>1. w \in Seq(S) /\ c \in Seq(S)
        BY <1>5
      <3> QED BY ONLY <2>1, <2>3, <3>1 DEF Regroups
    <2> QED BY ONLY <1>3, <1>4, <2>2, <2>4 DEF r
  <1> QED BY <1>2, <1>6

\* An Update begins by tearing down, the API server included, and ends with its
\* fixed rest.
LEMMA UpdateProgram ==
    ASSUME NEW abort \in BOOLEAN
    PROVE  \E p \in Seq(Wreck) : /\ Update(abort) = p \o Replace
                                 /\ Has(p, "uninstallApps") /\ Has(p, "deleteAPIServices")
  <1> DEFINE a == IF abort THEN <<"dryRun">> ELSE <<>>
             w == (a \o Backup) \o UninstallComposeCRD
  <1>1. a \in Seq(Wreck)
    BY SMT DEF Wreck, Early
  <1>2. a \o Backup \in Seq(Wreck) /\ w \in Seq(Wreck)
    BY <1>1, UpdateParts, ConcatProperties
  <1>3. Update(abort) = w \o Replace
    BY UpdateSplit
  <1>4. ASSUME NEW z \in {"uninstallApps", "deleteAPIServices"} PROVE Has(w, z)
    <2> DEFINE b == <<"uninstallRbac", "deleteAPIServices", "uninstallCore">>
               f == <<"uninstallApps">>
               g == WaitForUninstallCompletion(TRUE)
               h == WaitForUninstallCompletion(FALSE)
               u == Uninstall(TRUE)
               v == UninstallComposeCRD
    <2>1. u = f \o b
      <3>1. f \o <<>> = f
        BY SMT
      <3> QED BY <3>1 DEF Uninstall
    <2>2. Has(f, z) \/ Has(b, z)
      <3>1. Len(f) = 1 /\ f[1] = "uninstallApps" /\ Len(b) = 3 /\ b[2] = "deleteAPIServices"
        OBVIOUS
      <3> QED BY <3>1, SMT DEF Has
    <2>3. f \in Seq(Wreck) /\ b \in Seq(Wreck) /\ <<"getCRD">> \in Seq(Wreck)
      BY SMT DEF Wreck, UninstallSteps
    <2>4. u \in Seq(Wreck) /\ g \in Seq(Wreck) /\ h \in Seq(Wreck) /\ v \in Seq(Wreck)
      BY UpdateParts
    <2>5. v = ((u \o g) \o <<"getCRD">>) \o h
      BY DEF UninstallComposeCRD
    <2> DEFINE k == a \o Backup
               d == <<"getCRD">>
    <2> HIDE DEF b, f, g, h, u, v, k, d
    <2>6. \A s, t \in Seq(Wreck) : s \o t \in Seq(Wreck)
      BY ConcatProperties
    <2>7. \A s, t \in Seq(Wreck) : Has(s, z) \/ Has(t, z) => Has(s \o t, z)
      BY HasConcat
    <2>8. Has(u, z)
      BY ONLY <2>1, <2>2, <2>3, <2>7
    <2>9. Has(u \o g, z) /\ u \o g \in Seq(Wreck)
      BY ONLY <2>4, <2>6, <2>7, <2>8
    <2>10. d \in Seq(Wreck)
      BY <2>3 DEF d
    <2>11. Has((u \o g) \o d, z) /\ (u \o g) \o d \in Seq(Wreck)
      BY ONLY <2>6, <2>7, <2>9, <2>10, Zenon
    <2>12. Has(v, z)
      BY ONLY <2>4, <2>5, <2>7, <2>11, Zenon DEF d
    <2>13. w = k \o v /\ k \in Seq(Wreck)
      BY <1>2 DEF k, v
    <2> QED BY ONLY <2>4, <2>7, <2>12, <2>13, Zenon
  <1> QED BY <1>2, <1>3, <1>4

\* Each step of a program has one action.
LEMMA Heads ==
    ASSUME Step
    PROVE  /\ todo # <<>> /\ cmd' = cmd
           /\ \/ /\ Head(todo) \in {"do", "doWithoutController", "doControllerOnly"} /\ Do
              \/ Head(todo) = "isRunning" /\ IsRunning
              \/ /\ Head(todo) \in {"serviceAccount", "rbac", "compose-etcd", "compose-tls",
                                    "service", "debugAPIServer", "debugController", "defaultRoles"}
                 /\ CreateObject(Head(todo))
              \/ Head(todo) = "compose-api" /\ createAPIServer
              \/ Head(todo) = "compose" /\ createController
              \/ Head(todo) = "deleteController" /\ DeleteController
              \/ Head(todo) = "uninstallApps" /\ uninstallApps
              \/ Head(todo) \in {"deleteCRD", "removeCRD"} /\ deleteCRD
              \/ Head(todo) = "uninstallRbac" /\ uninstallRbac
              \/ Head(todo) = "deleteAPIServices" /\ deleteAPIServices
              \/ Head(todo) = "uninstallCore" /\ uninstallCore
              \/ /\ Head(todo) \in {"waitForNoApps", "waitForNoRbac", "waitForNoAPIAggregation",
                                    "waitForNoCoreComponents", "waitForNoCrd", "waitForNoCRD"}
                 /\ Wait
              \/ Head(todo) = "waitForNoStacks" /\ WaitForNoStacks
              \/ Head(todo) = "getCRD" /\ GetCRD
              \/ Head(todo) \in {"listStacks", "listForBackup"} /\ ListStacks
              \/ Head(todo) \in {"orphan", "copy", "restore"} /\ EndOfLoop
              \/ Head(todo) = "dryRun" /\ DryRun
              \/ Head(todo) = "getBackupCrd" /\ GetBackupCrd
              \/ Head(todo) = "poll" /\ Poll
              \/ Head(todo) = "createBackupCrd" /\ createBackupCrd
              \/ Head(todo) = "listBackup" /\ ListBackup
              \/ Head(todo) = "deleteBackup" /\ DeleteBackup
              \/ Head(todo) = "orphan" /\ \E s \in Stacks : orphanStack(s)
              \/ Head(todo) = "copy" /\ \E s \in Stacks : copyStackToBackupCrd(s)
              \/ Head(todo) = "restore" /\ \E s \in Stacks : restoreStack(s)
  <1> USE DEF At, Each
  <1>1. CASE Do \/ IsRunning \/ createAPIServer \/ createController
    BY <1>1 DEF Do, IsRunning, createAPIServer, createController, CreateDeployment
  <1>2. CASE \/ createServiceAccount \/ createClusterRoleBindings \/ createEtcdSecret
             \/ createNetworkSecret \/ createAPIServerService \/ createDebugService
             \/ createDefaultClusterRoles
    BY <1>2 DEF createServiceAccount, createClusterRoleBindings, createEtcdSecret,
         createNetworkSecret, createAPIServerService, createDebugService,
         createDefaultClusterRoles, CreateObject
  <1>3. CASE DeleteController \/ uninstallApps \/ deleteCRD \/ uninstallRbac \/ deleteAPIServices
             \/ uninstallCore \/ Wait
    BY <1>3 DEF DeleteController, uninstallApps, deleteCRD, uninstallRbac, deleteAPIServices,
         uninstallCore, UninstallCore, Wait
  <1>4. CASE WaitForNoStacks \/ GetCRD \/ ListStacks \/ EndOfLoop
    BY <1>4 DEF WaitForNoStacks, GetCRD, ListStacks, EndOfLoop
  <1>5. CASE DryRun \/ GetBackupCrd \/ Poll \/ createBackupCrd \/ ListBackup \/ DeleteBackup
    BY <1>5 DEF DryRun, GetBackupCrd, Poll, createBackupCrd, ListBackup, DeleteBackup
  <1>6. CASE \E s \in Stacks : orphanStack(s) \/ copyStackToBackupCrd(s) \/ restoreStack(s)
    BY <1>6 DEF orphanStack, copyStackToBackupCrd, restoreStack
  <1> QED BY <1>1, <1>2, <1>3, <1>4, <1>5, <1>6 DEF Step

\* A deployment can always be marked for deletion.
Terminable == \A d \in Names : deployment[d] # None => "terminating" \in DOMAIN deployment[d]

\* Every deployment that is created can be marked for deletion.
LEMMA TerminableStep == ASSUME Deployed, Terminable, [Next]_vars PROVE Terminable'
  <1>1. CASE deployment' = deployment
    BY <1>1 DEF Terminable
  <1>2. ASSUME NEW d \in Names, NEW wanted, CreateDeployment(d, wanted),
               "terminating" \in DOMAIN wanted
        PROVE  Terminable'
    <2>1. CASE deployment' = deployment
      BY <1>1, <2>1
    <2>2. CASE deployment' # deployment
      <3> DEFINE r == [wanted EXCEPT !.terminating = deployment[d] # None /\ deployment[d].terminating]
      <3>1. deployment' = [deployment EXCEPT ![d] = r]
        BY <1>2, <2>2 DEF CreateDeployment
      <3>2. "terminating" \in DOMAIN r
        BY <1>2
      <3> HIDE DEF r
      <3> QED BY <3>1, <3>2 DEF Terminable, Deployed
    <2> QED BY <2>1, <2>2
  <1>3. CASE createAPIServer \/ createController
    <2>1. /\ "terminating" \in DOMAIN APIServer(installer)
          /\ "terminating" \in DOMAIN Controller(installer)
      BY DEF APIServer, Controller
    <2> QED BY <1>2, <1>3, <2>1 DEF createAPIServer, createController, Names
  <1>4. CASE uninstallApps
    BY <1>4 DEF uninstallApps, Terminable
  <1>5. CASE DeleteController \/ \E d \in Names : CollectDeployment(d)
    BY <1>5 DEF DeleteController, CollectDeployment, Terminable, Deployed, Names
  <1> QED BY <1>1, <1>3, <1>4, <1>5, DeploymentSteps

\* No deployment of the API server, or one on its way out; a pod that will not
\* register its API again; an API server that serves and stays.
Gone == deployment["compose-api"] = None
Down == Gone \/ Leaving
Quiet == apiPod # "starting" /\ (apiPod = "none" => Down)
Serving == apiPod = "running" /\ apiService /\ ~Leaving

\* Where an Update can be: before install(), in the uninstallation that install()
\* may begin with, after it has found that there is nothing to do, among the
\* steps that build, or restoring.
Tearing ==
    /\ Quiet
    /\ \E p \in Seq(Wreck) : /\ todo = p \o Replace
                             /\ Has(p, "uninstallApps") \/ Down
                             /\ Has(p, "deleteAPIServices") \/ ~apiService
Clearing ==
    \E p \in Seq(Wreck), b \in Seq(Build) : /\ todo = p \o (b \o Rest)
                                            /\ Has(p, "waitForNoApps") \/ Gone
Stuck == todo = Rest /\ Down /\ ~apiService /\ apiPod # "starting"
Building == ~Leaving /\ \E b \in Seq(Build) : todo = b \o Rest
Restoring ==
    /\ Serving
    /\ \/ todo = <<"listBackup", "restore", "doControllerOnly">>
       \/ todo = <<"restore", "doControllerOnly">> /\ known \subseteq listed \cup apiStacks
       \/ todo \in Seq(Last) /\ known \subseteq apiStacks

\* Unless it has failed, it is at one of these.
Moving ==
    cmd.name = "update" =>
      /\ todo # <<>> => result \in {"running", "failing"}
      /\ result = "failing" => todo \in Seq(Last)
      /\ result \in {"running", "done"} =>
           Tearing \/ Clearing \/ Stuck \/ Building \/ Restoring

\* A step that tears down brings no API server, and may only add steps that do
\* the same.
Torn ==
    /\ apiPod' = apiPod /\ (Gone => Gone') /\ (Down => Down')
    /\ apiService' => apiService
    /\ Head(todo) = "uninstallApps" => Down'
    /\ Head(todo) = "deleteAPIServices" => ~apiService'
    /\ Head(todo) = "waitForNoApps" => Gone'

\* No step that tears down starts a pod, and what it adds tears down too.
LEMMA WreckStep ==
    ASSUME Terminable, Step, NEW S, todo \in Seq(S), Head(todo) \in Wreck
    PROVE  /\ Torn
           /\ \/ Abort
              \/ UNCHANGED <<todo, result>>
              \/ \E q \in Seq(Wreck) : Continue(q \o Tail(todo))
  <1> DEFINE Goes == \/ Abort
                     \/ UNCHANGED <<todo, result>>
                     \/ \E q \in Seq(Wreck) : Continue(q \o Tail(todo))
  <1>1. todo # <<>>
    BY Heads
  <1>2. ASSUME Proceed PROVE Goes
    <2>1. <<>> \o Tail(todo) = Tail(todo) /\ <<>> \in Seq(Wreck)
      BY <1>1, HeadTailProperties, ConcatEmptySeq, EmptySeq
    <2> QED BY <1>2, <2>1 DEF Proceed
  <1> HIDE DEF Goes
  <1>3. ASSUME UNCHANGED <<deployment, apiPod, apiService>>, Head(todo) = "waitForNoApps" => waitForNoApps,
               Head(todo) \notin {"uninstallApps", "deleteAPIServices"}
        PROVE  Torn
    BY <1>3 DEF Torn, Gone, Down, Leaving, waitForNoApps, Names
  <1>4. CASE uninstallApps /\ Head(todo) = "uninstallApps"
    <2>1. Proceed /\ UNCHANGED <<apiPod, apiService>>
      BY <1>4 DEF uninstallApps
    <2>2. Down' /\ (Gone => Gone')
      BY <1>4 DEF uninstallApps, Terminable, Down, Gone, Leaving, Names
    <2>3. Torn
      BY <1>4, <2>1, <2>2 DEF Torn
    <2> QED BY <1>2, <2>1, <2>3 DEF Goes
  <1>5. CASE deleteAPIServices /\ Head(todo) = "deleteAPIServices"
    <2>1. Proceed /\ UNCHANGED <<apiPod, deployment>> /\ apiService' = FALSE
      BY <1>5 DEF deleteAPIServices
    <2>2. Torn
      BY <1>5, <2>1 DEF Torn, Gone, Down, Leaving
    <2> QED BY <1>2, <2>1, <2>2 DEF Goes
  <1>6. CASE Wait /\ Head(todo) \in {"waitForNoApps", "waitForNoRbac", "waitForNoAPIAggregation",
                                     "waitForNoCoreComponents", "waitForNoCrd", "waitForNoCRD"}
    <2>1. Proceed /\ UNCHANGED clusterVars /\ (Head(todo) = "waitForNoApps" => waitForNoApps)
      BY <1>6 DEF Wait, At
    <2> QED BY <1>2, <1>3, <1>6, <2>1 DEF Goes, clusterVars
  <1>7. CASE /\ deleteCRD \/ uninstallRbac \/ uninstallCore \/ EndOfLoop \/ Poll
             /\ Head(todo) \in {"deleteCRD", "removeCRD", "uninstallRbac", "uninstallCore", "orphan",
                                "copy", "restore", "poll"}
    <2>1. Proceed /\ UNCHANGED <<deployment, apiPod, apiService>>
      BY <1>7 DEF deleteCRD, uninstallRbac, uninstallCore, UninstallCore, EndOfLoop, Poll, clusterVars
    <2> QED BY <1>2, <1>3, <1>7, <2>1 DEF Goes
  <1>8. CASE /\ WaitForNoStacks \/ ListStacks \/ DryRun \/ createBackupCrd
             /\ Head(todo) \in {"waitForNoStacks", "listStacks", "listForBackup", "dryRun",
                                "createBackupCrd"}
    <2>1. (Proceed \/ Abort) /\ UNCHANGED <<deployment, apiPod, apiService>>
      BY <1>8 DEF WaitForNoStacks, ListStacks, DryRun, createBackupCrd, clusterVars
    <2> QED BY <1>2, <1>3, <1>8, <2>1 DEF Goes
  <1>9. CASE GetCRD /\ Head(todo) = "getCRD"
    <2>1. UNCHANGED <<deployment, apiPod, apiService>>
      BY <1>9 DEF GetCRD, clusterVars
    <2>2. \E q \in {<<>>, UninstallCRD} : Continue(q \o Tail(todo))
      BY <1>9 DEF GetCRD
    <2>3. Goes
      BY <2>2, UpdateParts, EmptySeq DEF Goes
    <2> QED BY <1>3, <1>9, <2>1, <2>3 DEF Goes
  <1>10. CASE GetBackupCrd /\ Head(todo) = "getBackupCrd"
    <2>1. UNCHANGED <<deployment, apiPod, apiService>>
      BY <1>10 DEF GetBackupCrd, clusterVars
    <2>2. Proceed \/ Continue(<<"poll">> \o Tail(todo))
      BY <1>10 DEF GetBackupCrd
    <2>3. <<"poll">> \in Seq(Wreck)
      BY SMT DEF Wreck, Early
    <2>4. Goes
      BY <1>2, <2>2, <2>3 DEF Goes
    <2> QED BY <1>3, <1>10, <2>1, <2>4 DEF Goes
  <1>11. CASE /\ \E s \in Stacks : orphanStack(s) \/ copyStackToBackupCrd(s)
              /\ Head(todo) \in {"orphan", "copy"}
    BY <1>3, <1>11 DEF orphanStack, copyStackToBackupCrd, clusterVars, Goes
  <1>12. Head(todo) \notin {"do", "doWithoutController", "doControllerOnly", "isRunning",
           "serviceAccount", "rbac", "compose-etcd", "compose-tls", "service", "debugAPIServer",
           "debugController", "defaultRoles", "compose-api", "compose", "deleteController",
           "listBackup", "deleteBackup", "restore"}
    BY DEF Wreck, Early, UninstallSteps
  <1> QED BY <1>4, <1>5, <1>6, <1>7, <1>8, <1>9, <1>10, <1>11, <1>12, Heads DEF Goes

\* A program in two parts has steps left as long as the second has.
LEMMA GoesOn ==
    ASSUME NEW S, NEW p \in Seq(S), NEW r \in Seq(S), r # <<>>
    PROVE  p \o r # <<>>
  BY ConcatProperties, LenProperties, EmptySeq, SMT

\* A program that has a step begins with it, or has it in the rest.
LEMMA HasTail ==
    ASSUME NEW S, NEW p \in Seq(S), NEW x, Has(p, x)
    PROVE  p # <<>> /\ (Head(p) = x \/ Has(Tail(p), x))
  <1>1. PICK i \in 1 .. Len(p) : p[i] = x
    BY DEF Has
  <1>2. p # <<>>
    BY <1>1, EmptySeq, SMTT(30)
  <1>3. /\ Len(p) \in Nat \ {0} /\ Head(p) = p[1] /\ Len(Tail(p)) = Len(p) - 1
        /\ \A j \in 1 .. Len(Tail(p)) : Tail(p)[j] = p[j + 1]
    BY <1>2, EmptySeq, HeadTailProperties, SMT
  <1>4. CASE i = 1
    BY <1>1, <1>2, <1>3, <1>4
  <1>5. CASE i # 1
    <2>1. i - 1 \in 1 .. Len(Tail(p)) /\ (i - 1) + 1 = i
      BY <1>3, <1>5, SMT
    <2>2. Tail(p)[i - 1] = x
      BY <1>1, <1>3, <2>1
    <2> QED BY <1>2, <2>1, <2>2 DEF Has
  <1> QED BY <1>4, <1>5

\* A step of the first part of a program: what is left, and what the first part
\* still has.
LEMMA FirstPart ==
    ASSUME NEW p \in Seq(Wreck), p # <<>>, NEW r \in Seq(Early \cup Late), r # <<>>, todo = p \o r,
           NEW q \in Seq(Wreck), Continue(q \o Tail(todo)), result = "running"
    PROVE  \E t \in Seq(Wreck) : /\ todo' = t \o r /\ result' = "running"
                                 /\ \A x : Has(p, x) => Head(p) = x \/ Has(t, x)
  <1> DEFINE S == Early \cup Late
             t == q \o Tail(p)
  <1>1. p \in Seq(S) /\ q \in Seq(S)
    BY StepNames, SeqMonotonic
  <1>2. Tail(todo) = Tail(p) \o r /\ Tail(p) \in Seq(S) /\ Tail(p) \in Seq(Wreck)
    BY <1>1, FirstOfTwo
  <1>3. t \in Seq(Wreck) /\ t \in Seq(S)
    <2>1. t \in Seq(Wreck)
      BY <1>2, ConcatProperties
    <2>2. t \in Seq(S)
      BY <1>1, <1>2, ConcatProperties
    <2> QED BY <2>1, <2>2
  <1>4. q \o (Tail(p) \o r) = t \o r
    <2>1. q \in Seq(S) /\ Tail(p) \in Seq(S) /\ r \in Seq(S)
      BY <1>1, <1>2
    <2> HIDE DEF S
    <2>2. Regroups(S)
      BY ONLY Associative
    <2>3. (q \o Tail(p)) \o r = q \o (Tail(p) \o r)
      BY ONLY <2>1, <2>2, SMTT(30) DEF Regroups
    <2> QED BY <2>3
  <1>5. t \o r # <<>>
    BY <1>3, GoesOn
  <1>6. ASSUME NEW x, Has(p, x), Head(p) # x PROVE Has(t, x)
    <2>1. Has(Tail(p), x)
      BY <1>6, HasTail
    <2>2. \A u, v \in Seq(Wreck) : Has(v, x) => Has(u \o v, x)
      BY HasConcat
    <2> QED BY <1>2, <2>1, <2>2
  <1> HIDE DEF t
  <1>7. todo' = t \o r /\ result' = "running"
    BY <1>2, <1>4, <1>5 DEF Continue
  <1> QED BY <1>3, <1>6, <1>7

\* Whatever the process stops at, Moving says nothing about.
LEMMA MovingStops == ASSUME Abort PROVE Moving'
  BY EmptySeq DEF Abort, Moving

\* While Update builds, an API server may appear, and none is on its way out.
LEMMA BuildingStep ==
    ASSUME Deployed, Building, Step, result = "running"
    PROVE  Moving'
  <1> DEFINE S == Early \cup Late
  <1>1. PICK p \in Seq(Build) : todo = p \o Rest
    BY DEF Building
  <1>2. p \in Seq(S) /\ Rest \in Seq(S) /\ Rest # <<>>
    BY StepNames, SeqMonotonic
  <1>3. ASSUME Proceed, ~Leaving', p # <<>> PROVE Moving'
    <2>1. Tail(todo) = Tail(p) \o Rest /\ Tail(p) \in Seq(S)
      BY <1>1, <1>2, <1>3, FirstOfTwo
    <2>2. Tail(p) \in Seq(Build)
      BY <1>3, HeadTailProperties
    <2>3. todo' = Tail(p) \o Rest /\ result' = "running"
      <3>1. Tail(p) \o Rest # <<>>
        BY <1>2, <2>1, GoesOn
      <3> QED BY <1>3, <2>1, <3>1 DEF Proceed, Continue
    <2> QED BY <1>3, <2>2, <2>3 DEF Moving, Building
  <1>4. ASSUME UNCHANGED deployment PROVE ~Leaving'
    BY <1>4 DEF Building, Leaving
  <1>5. CASE p # <<>>
    <2>1. Head(todo) \in Build
      BY <1>1, <1>2, <1>5, FirstOfTwo, HeadTailProperties, SMTT(30)
    <2>2. createAPIServer \/ CreateObject(Head(todo))
      BY <2>1, Heads DEF Build
    <2>3. CASE createAPIServer
      <3>1. CASE Abort
        BY <3>1, MovingStops
      <3>2. CASE ~Abort
        <4>1. /\ Proceed
              /\ deployment' = [deployment EXCEPT !["compose-api"] =
                   [APIServer(installer) EXCEPT !.terminating = Leaving]]
          BY <2>3, <3>2 DEF createAPIServer, CreateDeployment, Leaving
        <4>2. deployment'["compose-api"] = [APIServer(installer) EXCEPT !.terminating = Leaving]
          BY <4>1 DEF Deployed, Names
        <4>3. deployment'["compose-api"].terminating = Leaving
          BY <4>2 DEF APIServer
        <4> QED BY <1>3, <1>5, <4>1, <4>3 DEF Building, Leaving
      <3> QED BY <3>1, <3>2
    <2>4. CASE CreateObject(Head(todo))
      BY <1>3, <1>4, <1>5, <2>4 DEF CreateObject
    <2> QED BY <2>2, <2>3, <2>4
  <1>6. CASE p = <<>>
    <2>1. todo = Rest
      BY <1>1, <1>2, <1>6, ConcatEmptySeq
    <2>2. IsRunning
      BY <2>1, StepNames, Heads
    <2>3. CASE Abort
      BY <2>3, MovingStops
    <2>4. CASE ~Abort
      <3>1. Server = "api" /\ Proceed /\ UNCHANGED clusterVars
        BY <2>2, <2>4 DEF IsRunning
      <3>2. Serving'
        BY <3>1 DEF Server, Serving, Building, Leaving, clusterVars
      <3>3. todo' = <<"listBackup", "restore", "doControllerOnly">> /\ result' = "running"
        <4>1. Tail(todo) = <<"listBackup", "restore", "doControllerOnly">>
          BY <2>1, StepNames
        <4> QED BY <3>1, <4>1, SMT DEF Proceed, Continue
      <3> QED BY <3>2, <3>3 DEF Moving, Restoring
    <2> QED BY <2>3, <2>4
  <1> QED BY <1>5, <1>6

\* The uninstallation that install() begins with waits for the API server to go.
LEMMA ClearingStep ==
    ASSUME Deployed, Terminable, Clearing, Step, result = "running"
    PROVE  Moving'
  <1> DEFINE S == Early \cup Late
  <1>1. PICK p \in Seq(Wreck), b \in Seq(Build) : /\ todo = p \o (b \o Rest)
                                                  /\ Has(p, "waitForNoApps") \/ Gone
    BY DEF Clearing
  <1>2. p \in Seq(S) /\ b \in Seq(S) /\ Rest \in Seq(S) /\ Rest # <<>>
    BY StepNames, SeqMonotonic
  <1> DEFINE r == b \o Rest
  <1>3. r \in Seq(S) /\ r # <<>> /\ todo = p \o r
    BY <1>1, <1>2, GoesOn, ConcatProperties
  <1> HIDE DEF r
  <1>4. CASE p = <<>>
    <2>1. Gone
      BY <1>1, <1>4, HasTail
    <2>2. todo = b \o Rest
      BY <1>3, <1>4, ConcatEmptySeq DEF r
    <2>3. Building
      BY <2>1, <2>2 DEF Building, Gone, Leaving
    <2> QED BY <2>3, BuildingStep
  <1>5. CASE p # <<>>
    <2>1. Head(todo) = Head(p) /\ Head(p) \in Wreck /\ todo \in Seq(S)
      BY <1>2, <1>3, <1>5, FirstOfTwo, HeadTailProperties, ConcatProperties, ZenonT(30)
    <2>2. /\ Torn
          /\ \/ Abort
             \/ UNCHANGED <<todo, result>>
             \/ \E q \in Seq(Wreck) : Continue(q \o Tail(todo))
      BY <2>1, WreckStep
    <2>3. CASE UNCHANGED <<todo, result>>
      <3>1. Clearing'
        <4>1. Has(p, "waitForNoApps") \/ Gone'
          BY <1>1, <2>2 DEF Torn
        <4> QED BY <1>1, <2>3, <4>1 DEF Clearing
      <3> QED BY <2>3, <3>1 DEF Moving
    <2>4. ASSUME NEW q \in Seq(Wreck), Continue(q \o Tail(todo)) PROVE Moving'
      <3>1. PICK t \in Seq(Wreck) : /\ todo' = t \o r /\ result' = "running"
                                    /\ \A x : Has(p, x) => Head(p) = x \/ Has(t, x)
        BY <1>3, <1>5, <2>4, FirstPart
      <3>2. Has(t, "waitForNoApps") \/ Gone'
        BY <1>1, <2>1, <2>2, <3>1 DEF Torn
      <3>3. Clearing'
        BY <3>1, <3>2 DEF Clearing, r
      <3> QED BY <3>1, <3>3 DEF Moving
    <2> QED BY <2>2, <2>3, <2>4, MovingStops
  <1> QED BY <1>4, <1>5

\* While Update tears down, no API server appears; install() then finds none, or
\* waits for it to go, or has nothing to do and leaves none that serves.
LEMMA TearingStep ==
    ASSUME Terminable, Tearing, Step, result = "running"
    PROVE  Moving'
  <1> DEFINE S == Early \cup Late
  <1>1. PICK p \in Seq(Wreck) : /\ todo = p \o Replace
                                /\ Has(p, "uninstallApps") \/ Down
                                /\ Has(p, "deleteAPIServices") \/ ~apiService
    BY DEF Tearing
  <1>2. p \in Seq(S) /\ Replace \in Seq(S) /\ Replace # <<>>
    BY StepNames, SeqMonotonic
  <1>3. CASE p # <<>>
    <2>1. Head(todo) = Head(p) /\ Head(p) \in Wreck /\ todo \in Seq(S)
      BY <1>1, <1>2, <1>3, FirstOfTwo, HeadTailProperties, ConcatProperties, ZenonT(30)
    <2>2. /\ Torn
          /\ \/ Abort
             \/ UNCHANGED <<todo, result>>
             \/ \E q \in Seq(Wreck) : Continue(q \o Tail(todo))
      BY <2>1, WreckStep
    <2>3. Quiet'
      BY <2>2 DEF Torn, Quiet, Tearing
    <2>4. CASE UNCHANGED <<todo, result>>
      <3>1. /\ Has(p, "uninstallApps") \/ Down'
            /\ Has(p, "deleteAPIServices") \/ ~apiService'
        BY <1>1, <2>2 DEF Torn
      <3>2. Tearing'
        BY <1>1, <2>3, <2>4, <3>1 DEF Tearing
      <3> QED BY <2>4, <3>2 DEF Moving
    <2>5. ASSUME NEW q \in Seq(Wreck), Continue(q \o Tail(todo)) PROVE Moving'
      <3>1. PICK t \in Seq(Wreck) : /\ todo' = t \o Replace /\ result' = "running"
                                    /\ \A x : Has(p, x) => Head(p) = x \/ Has(t, x)
        BY <1>1, <1>2, <1>3, <2>5, FirstPart
      <3>2. /\ Has(t, "uninstallApps") \/ Down'
            /\ Has(t, "deleteAPIServices") \/ ~apiService'
        BY <1>1, <2>1, <2>2, <3>1 DEF Torn
      <3>3. Tearing'
        BY <2>3, <3>1, <3>2 DEF Tearing
      <3> QED BY <3>1, <3>3 DEF Moving
    <2> QED BY <2>2, <2>4, <2>5, MovingStops
  <1>4. CASE p = <<>>
    <2> DEFINE steps == Install(installer, TRUE, FALSE)
               u == Uninstall(FALSE) \o WaitForUninstallCompletion(FALSE)
    <2>1. todo = Replace
      BY <1>1, <1>2, <1>4, ConcatEmptySeq
    <2>2. Head(todo) = "doWithoutController" /\ Tail(todo) = Rest
      BY <2>1, StepNames
    <2>3. Do
      BY <2>2, Heads
    <2>4. Down /\ ~apiService
      BY <1>1, <1>4, HasTail
    <2>5. UNCHANGED <<deployment, apiPod, apiService>>
      BY <2>3 DEF Do, clusterVars
    <2>6. \/ Abort
          \/ ~IsInstalled /\ Continue(steps \o Rest)
          \/ Continue(<<>> \o Rest)
          \/ Continue((u \o steps) \o Rest)
      BY <2>2, <2>3 DEF Do
    <2>7. /\ steps \in Seq(Build) /\ u \in Seq(Wreck) /\ steps \in Seq(S) /\ u \in Seq(S)
          /\ Rest \in Seq(S) /\ Rest # <<>>
      <3>1. steps \in Seq(Build) /\ u \in Seq(Wreck)
        BY UpdateParts, ConcatProperties
      <3> HIDE DEF steps, u
      <3> QED BY <3>1, StepNames, SeqMonotonic
    <2>8. Has(u, "waitForNoApps")
      BY UninstallProgram
    <2> HIDE DEF steps, u
    <2>9. CASE ~IsInstalled /\ Continue(steps \o Rest)
      <3>1. steps \o Rest # <<>>
        BY <2>7, GoesOn
      <3>2. todo' = steps \o Rest /\ result' = "running"
        BY <2>9, <3>1 DEF Continue
      <3>3. deployment["compose-api"] = None
        BY <2>9 DEF IsInstalled, Names
      <3>4. Building'
        BY <2>5, <2>7, <3>2, <3>3 DEF Building, Leaving
      <3> QED BY <3>2, <3>4 DEF Moving
    <2>10. CASE Continue(<<>> \o Rest)
      <3>1. <<>> \o Rest = Rest /\ Rest # <<>>
        BY <2>7, ConcatEmptySeq
      <3>2. todo' = Rest /\ result' = "running"
        BY <2>10, <3>1 DEF Continue
      <3>3. Stuck'
        BY <2>4, <2>5, <3>2 DEF Stuck, Down, Gone, Leaving, Tearing, Quiet
      <3> QED BY <3>2, <3>3 DEF Moving
    <2>11. CASE Continue((u \o steps) \o Rest)
      <3>1. (u \o steps) \o Rest = u \o (steps \o Rest)
        <4>1. Regroups(S)
          BY ONLY Associative
        <4> HIDE DEF S
        <4> QED BY ONLY <2>7, <4>1, Zenon DEF Regroups
      <3>2. (u \o steps) \o Rest # <<>>
        BY <2>7, ConcatProperties, GoesOn
      <3>3. todo' = u \o (steps \o Rest) /\ result' = "running"
        BY <2>11, <3>1, <3>2 DEF Continue
      <3>4. Clearing'
        BY <2>7, <2>8, <3>3 DEF Clearing
      <3> QED BY <3>3, <3>4 DEF Moving
    <2> QED BY <2>6, <2>9, <2>10, <2>11, MovingStops
  <1> QED BY <1>3, <1>4

\* An installation that was found to be in place does not come back to life.
LEMMA StuckStep ==
    ASSUME Stuck, Step
    PROVE  Moving'
  <1>1. IsRunning
    BY Heads, StepNames DEF Stuck
  <1>2. Server # "api"
    BY DEF Stuck, Server
  <1> QED BY <1>1, <1>2, MovingStops DEF IsRunning

\* Installing the controller leaves the API server and the stacks alone.
LEMMA LastStep ==
    ASSUME Deployed, Step, todo \in Seq(Last)
    PROVE  /\ UNCHANGED <<cmd, apiPod, apiService, apiStacks, known>> /\ Leaving' = Leaving
           /\ Abort \/ (Continue(todo') /\ todo' \in Seq(Last))
  <1>1. todo # <<>>
    BY Heads
  <1>2. Head(todo) \in Last /\ Tail(todo) \in Seq(Last)
    BY <1>1, HeadTailProperties
  <1>3. ASSUME Proceed PROVE Continue(todo') /\ todo' \in Seq(Last)
    BY <1>2, <1>3 DEF Proceed, Continue
  <1>4. \/ Do \/ createController
        \/ /\ Head(todo) \in {"serviceAccount", "rbac", "debugController", "defaultRoles"}
           /\ CreateObject(Head(todo))
    BY <1>2, Heads DEF Last
  <1>6. CASE CreateObject(Head(todo))
    BY <1>3, <1>6, Heads DEF CreateObject, Leaving, stackVars
  <1>7. CASE createController
    <2>1. deployment'["compose-api"] = deployment["compose-api"]
      BY <1>7 DEF createController, CreateDeployment, Deployed, Names
    <2> QED BY <1>3, <1>7, <2>1 DEF createController, CreateDeployment, Leaving, stackVars
  <1>8. CASE Do
    <2> DEFINE steps == Install(installer, FALSE, TRUE)
    <2>1. /\ Head(todo) = "doControllerOnly"
          /\ UNCHANGED <<deployment, apiPod, apiService, apiStacks, cmd, known>>
      BY <1>2, <1>8 DEF Do, Last, clusterVars, stackVars
    <2>2. Abort \/ Continue(steps \o Tail(todo))
      BY <1>8, <2>1 DEF Do
    <2>3. steps \o Tail(todo) \in Seq(Last)
      BY <1>2, UpdateParts, ConcatProperties
    <2>4. Abort \/ (Continue(todo') /\ todo' \in Seq(Last))
      BY <2>2, <2>3 DEF Continue
    <2> QED BY <2>1, <2>4 DEF Leaving
  <1> QED BY <1>4, <1>6, <1>7, <1>8

\* Update goes on with the controller when it could not restore.
LEMMA RestoreFailsStep ==
    ASSUME cmd.name = "update", RestoreFails
    PROVE  Moving'
  <1>1. todo' = <<"doControllerOnly">> /\ result' = "failing"
    BY DEF RestoreFails
  <1>2. <<"doControllerOnly">> \in Seq(Last)
    BY SMT DEF Last
  <1> QED BY <1>1, <1>2 DEF Moving

\* Once the API server serves, the backup is restored into it and stays.
LEMMA RestoringStep ==
    ASSUME Deployed, IInv, Restoring, Step, result = "running", cmd.name = "update"
    PROVE  cmd' = cmd /\ Moving'
  <1>1. CASE todo \in Seq(Last) /\ known \subseteq apiStacks
    <2>1. /\ UNCHANGED <<cmd, apiPod, apiService, apiStacks, known>> /\ Leaving' = Leaving
          /\ Abort \/ (Continue(todo') /\ todo' \in Seq(Last))
      BY <1>1, LastStep
    <2>2. CASE Abort
      BY <2>1, <2>2, MovingStops
    <2>3. CASE Continue(todo') /\ todo' \in Seq(Last)
      <3>1. Restoring'
        BY <1>1, <2>1, <2>3 DEF Restoring, Serving
      <3>2. result' \in {"running", "done"} /\ (todo' # <<>> => result' = "running")
        BY <2>3 DEF Continue
      <3> QED BY <2>1, <3>1, <3>2 DEF Moving
    <2> QED BY <2>1, <2>2, <2>3
  <1>2. ASSUME Head(todo) \in {"listBackup", "restore"}, todo # <<>>
        PROVE  \/ ListBackup \/ EndOfLoop \/ \E s \in Stacks : restoreStack(s)
    BY <1>2, Heads
  <1>3. CASE todo = <<"listBackup", "restore", "doControllerOnly">>
    <2>1. /\ todo # <<>> /\ Head(todo) = "listBackup"
          /\ Tail(todo) = <<"restore", "doControllerOnly">>
      BY <1>3, SMT
    <2>2. ListBackup
      BY <1>2, <2>1 DEF EndOfLoop, restoreStack, Each, At
    <2>3. UNCHANGED <<cmd, known, clusterVars, stackVars>>
      BY <2>2 DEF ListBackup
    <2>4. CASE RestoreFails
      BY <2>3, <2>4, RestoreFailsStep
    <2>5. CASE ~RestoreFails
      <3>1. listed' = backup /\ Proceed
        BY <2>2, <2>5 DEF ListBackup
      <3>2. todo' = <<"restore", "doControllerOnly">> /\ result' = "running"
        BY <2>1, <3>1, SMTT(30) DEF Proceed, Continue
      <3>3. known \subseteq backup
        BY <2>1 DEF IInv, Places, InBackup, Late
      <3>4. Serving'
        BY <2>3 DEF Restoring, Serving, Leaving, clusterVars
      <3>5. Restoring'
        BY <2>3, <3>1, <3>2, <3>3, <3>4 DEF Restoring
      <3> QED BY <2>3, <3>2, <3>5 DEF Moving
    <2> QED BY <2>3, <2>4, <2>5
  <1>4. CASE todo = <<"restore", "doControllerOnly">> /\ known \subseteq listed \cup apiStacks
    <2>1. todo # <<>> /\ Head(todo) = "restore" /\ Tail(todo) = <<"doControllerOnly">>
      BY <1>4, SMT
    <2>2. EndOfLoop \/ \E s \in Stacks : restoreStack(s)
      BY <1>2, <2>1 DEF ListBackup, At
    <2>3. UNCHANGED <<cmd, known, clusterVars>>
      BY <2>2 DEF EndOfLoop, restoreStack
    <2>4. Serving'
      BY <2>3 DEF Restoring, Serving, Leaving, clusterVars
    <2>5. CASE EndOfLoop
      <3>1. listed = {} /\ Proceed /\ UNCHANGED apiStacks
        BY <2>5 DEF EndOfLoop, stackVars
      <3>2. todo' = <<"doControllerOnly">> /\ result' = "running"
        BY <2>1, <3>1, SMTT(30) DEF Proceed, Continue
      <3>3. <<"doControllerOnly">> \in Seq(Last)
        BY SMT DEF Last
      <3>4. Restoring'
        BY <1>4, <2>3, <2>4, <3>1, <3>2, <3>3 DEF Restoring
      <3> QED BY <2>3, <3>2, <3>4 DEF Moving
    <2>6. ASSUME NEW s \in Stacks, restoreStack(s) PROVE Moving'
      <3>1. CASE RestoreFails
        BY <3>1, RestoreFailsStep
      <3>2. CASE ~RestoreFails
        <4>1. Server = "api"
          BY DEF Restoring, Serving, Server
        <4>2. /\ listed' = listed \ {s} /\ UNCHANGED <<todo, result>>
              /\ apiStacks' = apiStacks \cup {s}
          BY <2>6, <3>2, <4>1 DEF restoreStack, SetServed, Served
        <4>3. Restoring'
          BY <1>4, <2>3, <2>4, <4>2 DEF Restoring
        <4> QED BY <4>2, <4>3 DEF Moving
      <3> QED BY <3>1, <3>2
    <2> QED BY <2>2, <2>3, <2>5, <2>6
  <1> QED BY <1>1, <1>3, <1>4 DEF Restoring

\* The cluster and the users, beside the command.
LEMMA MovingBeside ==
    ASSUME Deployed, Moving, Cluster \/ (\E s \in Stacks : CreateStack(s)) \/ UNCHANGED vars
    PROVE  Moving'
  <1> DEFINE Out == Down /\ ~apiService /\ apiPod # "starting"
  <1>1. ASSUME UNCHANGED <<cmd, todo, result, listed, known>>, Gone => Gone', Down => Down',
               ~Leaving => ~Leaving', Serving => Serving' /\ apiStacks \subseteq apiStacks',
               Quiet => Quiet' /\ (apiService' => apiService), Out => Out'
        PROVE  Moving'
    <2>1. Tearing => Tearing'
      BY <1>1 DEF Tearing
    <2>2. Clearing => Clearing'
      BY <1>1 DEF Clearing
    <2>3. Stuck => Stuck'
      BY <1>1 DEF Stuck
    <2>4. Building => Building'
      BY <1>1 DEF Building
    <2>5. Restoring => Restoring'
      BY <1>1 DEF Restoring
    <2> QED BY <1>1, <2>1, <2>2, <2>3, <2>4, <2>5 DEF Moving
  <1>2. CASE UNCHANGED vars
    BY <1>1, <1>2 DEF vars, clusterVars, stackVars, Gone, Down, Quiet, Leaving, Serving
  <1>3. ASSUME NEW s \in Stacks, CreateStack(s) PROVE Moving'
    <2>1. UNCHANGED <<cmd, todo, result, listed, known, deployment, apiPod, apiService>>
      BY <1>3 DEF CreateStack, clusterVars
    <2>2. apiStacks \subseteq apiStacks'
      BY <1>3 DEF CreateStack, SetServed, Served
    <2> QED BY <1>1, <2>1, <2>2 DEF Gone, Down, Quiet, Leaving, Serving
  <1>4. CASE StartPod \/ CollectStray \/ CollectCRD \/ CollectBackup \/ registerAggregatedAPIs
    BY <1>1, <1>4
       DEF StartPod, CollectStray, CollectCRD, CollectBackup, registerAggregatedAPIs,
         clusterVars, stackVars, Gone, Down, Quiet, Leaving, Serving
  <1>5. CASE StopPod
    BY <1>1, <1>5 DEF StopPod, Gone, Down, Quiet, Leaving, Serving
  <1>6. ASSUME NEW d \in Names, CollectDeployment(d) PROVE Moving'
    <2>1. /\ UNCHANGED <<cmd, todo, result, listed, known, apiPod, apiService, apiStacks>>
          /\ deployment'["compose-api"] \in {None, deployment["compose-api"]}
      BY <1>6 DEF CollectDeployment, Deployed, Names, stackVars
    <2> QED BY <1>1, <2>1 DEF Gone, Down, Quiet, Leaving, Serving
  <1>7. ASSUME NEW o \in Objects, CollectObject(o) PROVE Moving'
    BY <1>1, <1>7 DEF CollectObject, stackVars, Gone, Down, Quiet, Leaving, Serving
  <1> QED BY <1>2, <1>3, <1>4, <1>5, <1>6, <1>7 DEF Cluster

\* An Update that goes on after a failed wait still has to install the API server.
LEMMA MovingFail == ASSUME Moving, Fail PROVE Moving'
  <1>1. todo # <<>> /\ UNCHANGED <<cmd, clusterVars, stackVars, listed, known>>
    BY DEF Fail
  <1>2. CASE cmd.name # "update"
    BY <1>1, <1>2 DEF Moving
  <1>3. ASSUME cmd.name = "update", Head(todo) \in {"listBackup", "restore"}, RestoreFails
        PROVE  Moving'
    BY <1>3, RestoreFailsStep
  <1>4. ASSUME cmd.name = "update", IsWait(Head(todo)), IgnoresWaits, NEW n \in Waits,
               todo' = SubSeq(todo, n + 1, Len(todo)),
               result' = IF n = Len(todo) THEN "done" ELSE result
        PROVE  Moving'
    <2> DEFINE S == Early \cup Late
    <2>1. ASSUME NEW T, todo \in Seq(T), \A x \in T : ~IsWait(x) PROVE FALSE
      BY <1>1, <1>4, <2>1, HeadTailProperties
    <2>2. todo \notin Seq(Last)
      BY <2>1, SMT DEF Last, IsWait
    <2>3. ~Restoring
      BY <1>4, <2>2, SMT DEF Restoring, IsWait
    <2>4. ~Stuck
      BY <1>4, StepNames DEF Stuck, IsWait
    <2>5. ~(Clearing \/ Building)
      <3> DEFINE T == Wreck \cup Build \cup {"isRunning", "listBackup", "restore", "doControllerOnly"}
      <3>1. Rest \in Seq(T) /\ \A q : q \in Seq(Wreck) \/ q \in Seq(Build) => q \in Seq(T)
        BY SeqMonotonic, SMT DEF Rest
      <3>2. todo \notin Seq(T)
        <4>1. PICK i \in DOMAIN todo : todo[i] = "doWithoutController"
          BY <1>4 DEF IgnoresWaits, Ahead
        <4>2. "doWithoutController" \notin T
          BY DEF Wreck, Build, Early, UninstallSteps
        <4> HIDE DEF T
        <4> QED BY <4>1, <4>2, ElementOfSeq, LenProperties
      <3>3. ASSUME NEW b \in Seq(Build), todo = b \o Rest PROVE FALSE
        BY <3>1, <3>2, <3>3, ConcatProperties
      <3>4. ASSUME NEW q \in Seq(Wreck), NEW b \in Seq(Build), todo = q \o (b \o Rest) PROVE FALSE
        <4>1. \A u, v \in Seq(T) : u \o v \in Seq(T)
          BY ConcatProperties
        <4> HIDE DEF T
        <4> QED BY <3>1, <3>2, <3>4, <4>1
      <3> QED BY <3>3, <3>4 DEF Clearing, Building
    <2>6. result = "running" /\ Tearing
      BY <1>1, <1>4, <2>2, <2>3, <2>4, <2>5 DEF Moving
    <2>7. PICK p \in Seq(Wreck) : /\ todo = p \o Replace
                                  /\ Has(p, "uninstallApps") \/ Down
                                  /\ Has(p, "deleteAPIServices") \/ ~apiService
      BY <2>6 DEF Tearing
    <2>15. /\ p \in Seq(S) /\ Replace \in Seq(S) /\ Len(Replace) = 5
           /\ Replace[1] = "doWithoutController"
      BY StepNames, SeqMonotonic
    <2>8. /\ Len(p) \in Nat /\ Len(todo) = Len(p) + 5 /\ todo \in Seq(S)
          /\ \A i \in 1 .. Len(p) + 5 : todo[i] = IF i <= Len(p) THEN p[i] ELSE Replace[i - Len(p)]
      <3>1. /\ Len(p) \in Nat /\ p \o Replace \in Seq(S) /\ Len(p \o Replace) = Len(p) + Len(Replace)
            /\ \A i \in 1 .. Len(p) + Len(Replace) :
                 (p \o Replace)[i] = IF i <= Len(p) THEN p[i] ELSE Replace[i - Len(p)]
        BY <2>15, ConcatProperties, LenProperties
      <3> QED BY <2>7, <2>15, <3>1
    <2>9. n \in 1 .. Len(todo) /\ \A i \in 1 .. n : IsWait(todo[i])
      BY DEF Waits
    <2>10. n \in 0 .. Len(p)
      <3>1. todo[Len(p) + 1] = "doWithoutController"
        <4>1. /\ Len(p) + 1 \in 1 .. Len(p) + 5 /\ ~(Len(p) + 1 <= Len(p))
              /\ (Len(p) + 1) - Len(p) = 1
          BY <2>8, SMT
        <4> QED BY <2>15, <2>8, <4>1
      <3>2. ASSUME ~(n <= Len(p)) PROVE FALSE
        <4>1. Len(p) + 1 \in 1 .. n
          BY <2>8, <2>9, <3>2, SMTT(30)
        <4>2. IsWait("doWithoutController")
          BY <2>9, <3>1, <4>1
        <4> QED BY <4>2 DEF IsWait
      <3> QED BY <2>8, <2>9, <3>2, SMT
    <2> DEFINE t == SubSeq(p, n + 1, Len(p))
    <2>11. /\ t \in Seq(Wreck)
           /\ \A x : Has(p, x) /\ ~IsWait(x) => Has(t, x)
      <3>1. t \in Seq(Wreck) /\ Len(t) = Len(p) - n /\ \A i \in 1 .. Len(p) - n : t[i] = p[n + i]
        BY <2>10, Dropped
      <3> HIDE DEF t
      <3>2. ASSUME NEW x, Has(p, x), ~IsWait(x) PROVE Has(t, x)
        <4>1. PICK i \in DOMAIN p : p[i] = x
          BY <3>2, SMT DEF Has
        <4>2. i \in 1 .. Len(p)
          BY <4>1, LenProperties
        <4>3. todo[i] = x
          BY <2>8, <4>1, <4>2, SMTT(30)
        <4>4. ~(i <= n)
          BY <2>9, <3>2, <4>2, <4>3, SMTT(30)
        <4>5. i - n \in 1 .. Len(p) - n /\ n + (i - n) = i
          BY <2>8, <2>10, <4>2, <4>4, SMTT(30)
        <4>6. t[i - n] = x /\ i - n \in DOMAIN t
          BY <3>1, <4>1, <4>5, LenProperties
        <4> QED BY <4>6, SMT DEF Has
      <3> QED BY <3>1, <3>2
    <2>12. todo' = t \o Replace
      <3>1. SubSeq(todo, n + 1, Len(todo)) \in Seq(S)
            /\ Len(SubSeq(todo, n + 1, Len(todo))) = Len(todo) - n
            /\ \A i \in 1 .. Len(todo) - n : SubSeq(todo, n + 1, Len(todo))[i] = todo[n + i]
        <4>1. n \in 0 .. Len(todo)
          BY <2>9, SMT
        <4> QED BY <2>8, <4>1, Dropped
      <3>2. t \in Seq(S) /\ Len(t) = Len(p) - n /\ \A i \in 1 .. Len(p) - n : t[i] = p[n + i]
        BY <2>15, <2>10, Dropped
      <3> HIDE DEF t
      <3>3. /\ t \o Replace \in Seq(S) /\ Len(t \o Replace) = Len(t) + 5
            /\ \A i \in 1 .. Len(t) + 5 : (t \o Replace)[i] = IF i <= Len(t) THEN t[i] ELSE Replace[i - Len(t)]
        <4>1. /\ t \o Replace \in Seq(S) /\ Len(t \o Replace) = Len(t) + Len(Replace)
              /\ \A i \in 1 .. Len(t) + Len(Replace) :
                   (t \o Replace)[i] = IF i <= Len(t) THEN t[i] ELSE Replace[i - Len(t)]
          BY <2>15, <3>2, ConcatProperties, ZenonT(30)
        <4> QED BY <2>15, <4>1
      <3>4. ASSUME NEW i \in 1 .. Len(t) + 5 PROVE todo'[i] = (t \o Replace)[i]
        <4>1. n + i \in 1 .. Len(p) + 5 /\ i \in 1 .. Len(todo) - n
          BY <2>8, <2>10, <3>2, SMTT(30)
        <4>2. todo'[i] = todo[n + i]
          BY <1>4, <3>1, <4>1
        <4>3. CASE i <= Len(t)
          BY <2>8, <2>10, <3>2, <3>3, <4>1, <4>2, <4>3, SMTT(30)
        <4>4. CASE ~(i <= Len(t))
          <5>1. ~(n + i <= Len(p)) /\ (n + i) - Len(p) = i - Len(t)
            BY <2>8, <2>10, <3>2, <4>4, SMTT(30)
          <5> QED BY <2>8, <3>3, <4>1, <4>2, <4>4, <5>1
        <4> QED BY <4>3, <4>4
      <3>5. Len(todo') = Len(t \o Replace)
        BY <1>4, <2>8, <2>10, <3>1, <3>2, <3>3, SMTT(30)
      <3>6. todo' \in Seq(S)
        BY <1>4, <3>1
      <3> DEFINE u == t \o Replace
      <3>7. u \in Seq(S) /\ Len(todo') = Len(u) /\ \A i \in 1 .. Len(todo') : todo'[i] = u[i]
        BY <3>3, <3>4, <3>5
      <3> HIDE DEF u
      <3>8. todo' = u
        BY ONLY <3>6, <3>7, SeqEqual, SMTT(30)
      <3> QED BY <3>8 DEF u
    <2> HIDE DEF t
    <2>13. result' = "running"
      BY <1>4, <2>6, <2>8, <2>10, SMTT(30)
    <2>14. Tearing'
      <3>1. /\ Has(t, "uninstallApps") \/ Down
            /\ Has(t, "deleteAPIServices") \/ ~apiService
        BY <2>7, <2>11 DEF IsWait
      <3>2. UNCHANGED <<deployment, apiPod, apiService>>
        BY <1>1 DEF clusterVars
      <3> QED BY <2>6, <2>11, <2>12, <3>1, <3>2 DEF Tearing, Quiet, Down, Gone, Leaving
    <2> QED BY <2>13, <2>14 DEF Moving
  <1> QED BY <1>2, <1>3, <1>4 DEF Fail

\* An Update starts where the definition or an API server serves all stacks.
LEMMA MovingStart ==
    ASSUME "rerun" \notin UpdateFrom, Moving, Starts
    PROVE  Moving'
  <1>1. ASSUME NEW n, NEW o, NEW p, Start(n, o, p), n # "update" PROVE cmd'.name # "update"
    BY <1>1 DEF Start
  <1>2. ASSUME NEW o, StartDo(o) PROVE cmd'.name # "update"
    BY <1>1, <1>2 DEF StartDo
  <1>3. ASSUME NEW f \in CommandLines, StartInstall(f) PROVE cmd'.name # "update"
    BY <1>2, <1>3, SMT DEF StartInstall
  <1>4. StartUninstall \/ StartUninstallAPIServer \/ StartRestore \/ StartDeleteBackup =>
          cmd'.name # "update"
    BY <1>1 DEF StartUninstall, StartUninstallAPIServer, StartRestore, StartDeleteBackup
  <1>5. ASSUME NEW t \in UpdateTags, NEW a \in BOOLEAN, StartUpdate(t, a) PROVE Moving'
    <2>1. /\ Settled /\ UNCHANGED <<deployment, apiPod, apiService>>
          /\ todo' = Update(a) /\ result' = "running"
      BY <1>5 DEF StartUpdate, Start, clusterVars
    <2>2. Quiet
      BY <2>1 DEF Settled, Quiet, Down, Gone, Server
    <2>3. \E p \in Seq(Wreck) : /\ todo' = p \o Replace
                                /\ Has(p, "uninstallApps") /\ Has(p, "deleteAPIServices")
      BY <2>1, UpdateProgram
    <2>4. Tearing'
      BY <2>1, <2>2, <2>3 DEF Tearing, Quiet, Down, Gone, Leaving
    <2> QED BY <2>1, <2>4 DEF Moving
  <1>6. cmd'.name # "update" => Moving'
    BY DEF Moving
  <1> QED BY <1>2, <1>3, <1>4, <1>5, <1>6 DEF Starts, StartDebugInstall

\* Where an Update is, it goes on from.
LEMMA MovingStep ==
    ASSUME "rerun" \notin UpdateFrom, Deployed, Terminable, IInv, Moving, [Next]_vars
    PROVE  Moving'
  <1>1. CASE Step
    <2>1. CASE cmd.name # "update"
      BY <1>1, <2>1, Heads DEF Moving
    <2>2. CASE cmd.name = "update"
      <3>1. todo # <<>>
        BY <1>1, Heads
      <3>2. CASE result = "running"
        BY <1>1, <2>2, <3>2, TearingStep, ClearingStep, StuckStep, BuildingStep,
            RestoringStep DEF Moving
      <3>3. CASE result = "failing"
        <4>1. cmd' = cmd /\ (Abort \/ (Continue(todo') /\ todo' \in Seq(Last)))
          BY <1>1, <2>2, <3>3, LastStep DEF Moving
        <4> QED BY <3>3, <4>1, MovingStops DEF Continue, Moving
      <3> QED BY <2>2, <3>1, <3>2, <3>3 DEF Moving
    <2> QED BY <2>1, <2>2
  <1>2. CASE Cluster \/ (\E s \in Stacks : CreateStack(s)) \/ UNCHANGED vars
    BY <1>2, MovingBeside
  <1>3. CASE Interrupt
    BY <1>3, MovingStops DEF Interrupt
  <1>4. CASE Fail
    BY <1>4, MovingFail
  <1>5. CASE Starts
    BY <1>5, MovingStart
  <1> QED BY <1>1, <1>2, <1>3, <1>4, <1>5 DEF Next, Starts

\* In every state an Update is where it can go on from.
LEMMA MovingInvariance ==
    ASSUME "rerun" \notin UpdateFrom
    PROVE  Spec => [](IInv /\ Deployed /\ Terminable /\ Moving)
  <1>1. Init => Moving /\ Terminable
    <2>1. Init => cmd = [name |-> "none", options |-> None]
      BY DEF Init
    <2>2. Init => cmd.name # "update"
      BY <2>1, SMT
    <2>3. Init => Terminable
      <3>1. Init => \/ deployment = [d \in Names |-> None]
                    \/ deployment = [d \in Names |-> IF d = "compose" THEN LegacyController ELSE None]
        BY DEF Init
      <3>2. "terminating" \in DOMAIN LegacyController
        BY DEF LegacyController
      <3> QED BY <3>1, <3>2 DEF Terminable, Names
    <2> QED BY <2>2, <2>3 DEF Moving
  <1>2. Spec => [](IInv /\ Deployed)
    BY Invariance
  <1>3. IInv /\ Deployed /\ Terminable /\ Moving /\ [Next]_vars => (Terminable /\ Moving)'
    BY MovingStep, TerminableStep
  <1> QED BY <1>1, <1>2, <1>3, PTL DEF Spec

\* An Update that finds every stack served, by the definition or by an API server,
\* and that reports no error has restored every stack it backed up into an API
\* server that runs: however many commands ran before, wherever they stopped, and
\* whichever of its own calls fail (Update: an error of Restore is kept until the
\* controller is installed).
THEOREM UpdatesRestore ==
    ASSUME "rerun" \notin UpdateFrom
    PROVE  Spec => []UpdateRestores
  <1>1. Moving => UpdateRestores
    <2> SUFFICES ASSUME Moving, cmd.name = "update", result = "done"
                 PROVE  known \subseteq apiStacks /\ apiPod = "running"
      BY DEF UpdateRestores
    <2>1. todo = <<>> /\ (Tearing \/ Clearing \/ Stuck \/ Building \/ Restoring)
      BY DEF Moving
    <2> DEFINE S == Early \cup Late
    <2>2. /\ Rest \in Seq(S) /\ Rest # <<>> /\ Replace \in Seq(S) /\ Replace # <<>>
          /\ \A q : q \in Seq(Wreck) \/ q \in Seq(Build) => q \in Seq(S)
      BY StepNames, SeqMonotonic
    <2> HIDE DEF S
    <2>3. \A q, r \in Seq(S) : r # <<>> => q \o r \in Seq(S) /\ q \o r # <<>>
      BY GoesOn, ConcatProperties
    <2>4. Restoring
      BY <2>1, <2>2, <2>3 DEF Tearing, Clearing, Stuck, Building
    <2> QED BY <2>1, <2>4 DEF Restoring, Serving
  <1> QED BY <1>1, MovingInvariance, PTL
-----------------------------------------------------------------------------
(* No command removes the workloads of stacks it is to preserve.  That     *)
(* rests on the order of its steps: the controller is gone before the      *)
(* stacks are orphaned, no stack is left when the definition goes, and the *)
(* definition goes before the API server that hides it does.               *)

\* Wherever a program has the one step, it has the other one before.
Before(s, x, y) == \A i \in 1 .. Len(s) : s[i] = x => \E j \in 1 .. i - 1 : s[j] = y

\* What follows a step keeps the order, unless it is the step that comes first.
LEMMA BeforeTail ==
    ASSUME NEW S, NEW s \in Seq(S), s # <<>>, NEW x, NEW y, Before(s, x, y)
    PROVE  Head(s) # x /\ (Head(s) # y => Before(Tail(s), x, y))
  <1> DEFINE t == Tail(s)
  <1>1. /\ Len(s) \in Nat \ {0} /\ Head(s) = s[1] /\ Len(t) = Len(s) - 1
        /\ \A j \in 1 .. Len(t) : t[j] = s[j + 1]
    BY EmptySeq, HeadTailProperties, SMT
  <1> HIDE DEF t
  <1>2. Head(s) # x
    <2>1. 1 \in 1 .. Len(s) /\ 1 .. 1 - 1 = {}
      BY <1>1, SMT
    <2> QED BY <1>1, <2>1 DEF Before
  <1>3. ASSUME Head(s) # y, NEW i \in 1 .. Len(t), t[i] = x PROVE \E j \in 1 .. i - 1 : t[j] = y
    <2>1. i + 1 \in 1 .. Len(s) /\ s[i + 1] = x
      BY <1>1, <1>3, SMT
    <2>2. PICK j \in 1 .. (i + 1) - 1 : s[j] = y
      BY <2>1 DEF Before
    <2>3. j # 1
      BY <1>1, <1>3, <2>2
    <2>4. j - 1 \in 1 .. i - 1 /\ j - 1 \in 1 .. Len(t) /\ (j - 1) + 1 = j
      BY <1>1, <2>2, <2>3, SMTT(30)
    <2>5. t[j - 1] = y
      BY <1>1, <2>2, <2>4
    <2> QED BY <2>4, <2>5
  <1> QED BY <1>2, <1>3 DEF Before, t

\* A program in two parts keeps the order if both do, or the first has the step
\* that comes first.
LEMMA BeforeConcat ==
    ASSUME NEW S, NEW s \in Seq(S), NEW t \in Seq(S), NEW x, NEW y,
           Before(s, x, y), Has(s, y) \/ Before(t, x, y)
    PROVE  Before(s \o t, x, y)
  <1> DEFINE u == s \o t
  <1>1. /\ Len(u) = Len(s) + Len(t) /\ Len(s) \in Nat /\ Len(t) \in Nat
        /\ \A i \in 1 .. Len(s) + Len(t) : u[i] = IF i <= Len(s) THEN s[i] ELSE t[i - Len(s)]
    BY ConcatProperties, LenProperties
  <1> HIDE DEF u
  <1>2. ASSUME NEW i \in 1 .. Len(u), u[i] = x PROVE \E j \in 1 .. i - 1 : u[j] = y
    <2>1. CASE i <= Len(s)
      <3>1. i \in 1 .. Len(s) /\ s[i] = x
        BY <1>1, <1>2, <2>1, SMTT(30)
      <3>2. PICK j \in 1 .. i - 1 : s[j] = y
        BY <3>1 DEF Before
      <3>3. u[j] = y
        BY <1>1, <2>1, <3>2, SMTT(30)
      <3> QED BY <3>3
    <2>2. CASE ~(i <= Len(s))
      <3>1. i - Len(s) \in 1 .. Len(t) /\ t[i - Len(s)] = x
        BY <1>1, <1>2, <2>2, SMTT(30)
      <3>2. CASE Has(s, y)
        <4>1. PICK j \in 1 .. Len(s) : s[j] = y
          BY <3>2 DEF Has
        <4>2. j \in 1 .. i - 1 /\ u[j] = y
          BY <1>1, <2>2, <4>1, SMTT(30)
        <4> QED BY <4>2
      <3>3. CASE Before(t, x, y)
        <4>1. PICK j \in 1 .. (i - Len(s)) - 1 : t[j] = y
          BY <3>1, <3>3 DEF Before
        <4>2. j + Len(s) \in 1 .. i - 1 /\ ~(j + Len(s) <= Len(s)) /\ (j + Len(s)) - Len(s) = j
          BY <1>1, <1>2, <2>2, <4>1, SMTT(30)
        <4>3. u[j + Len(s)] = y
          BY <1>1, <4>1, <4>2, SMTT(30)
        <4> QED BY <4>2, <4>3
      <3> QED BY <3>2, <3>3
    <2> QED BY <2>1, <2>2
  <1> QED BY <1>2 DEF Before, u

\* A program without the step keeps any order.
LEMMA BeforeAbsent ==
    ASSUME NEW S, NEW s \in Seq(S), NEW x, x \notin S, NEW y
    PROVE  Before(s, x, y)
  BY ElementOfSeq DEF Before

NoController == deployment["compose"] = None

\* What a step of a command may change, and which step it takes.
Spared ==
    /\ crd' = crd \/ Head(todo) \in {"deleteCRD", "removeCRD"}
    /\ Head(todo) \in {"deleteCRD", "removeCRD"} => crd' # "present"
    /\ known' = known \/ (Head(todo) = "listForBackup" /\ known' = known \cup Served)
    /\ stray' = stray \/ Head(todo) = "deleteController"
    /\ apiService' = apiService \/ Head(todo) = "deleteAPIServices"
    /\ \/ crdStacks' \subseteq crdStacks
       \/ Head(todo) = "restore" /\ Server = "crd" /\ crd = "present"
    /\ NoController => NoController' \/ Head(todo) = "compose"
    /\ Head(todo) \in {"deleteController", "waitForNoApps"} => NoController'
    /\ workloads' = workloads \/ (Head(todo) = "orphan" /\ ~(NoController /\ ~stray))

\* The definition, the registration, the controller and the workloads change with
\* the one step that is there for it.
LEMMA StepSpares == ASSUME Deployed, Step PROVE Spared
  <1>1. ASSUME UNCHANGED <<crd, crdStacks, workloads, known, stray, apiService>>,
               NoController => NoController' \/ Head(todo) = "compose",
               Head(todo) \notin {"deleteCRD", "removeCRD", "deleteController", "waitForNoApps"}
        PROVE  Spared
    BY <1>1 DEF Spared
  <1>2. ASSUME UNCHANGED <<deployment, crd, crdStacks, workloads, known, stray, apiService>>,
               Head(todo) \notin {"deleteCRD", "removeCRD", "deleteController", "waitForNoApps"}
        PROVE  Spared
    BY <1>1, <1>2 DEF NoController
  <1>3. CASE /\ Do \/ IsRunning \/ GetCRD \/ WaitForNoStacks \/ EndOfLoop
             /\ Head(todo) \in {"do", "doWithoutController", "doControllerOnly", "isRunning",
                                "getCRD", "waitForNoStacks", "orphan", "copy", "restore"}
    BY <1>2, <1>3
       DEF Do, IsRunning, GetCRD, WaitForNoStacks, EndOfLoop, clusterVars, hostVars, stackVars
  <1>4. CASE /\ DryRun \/ GetBackupCrd \/ Poll \/ createBackupCrd \/ ListBackup \/ DeleteBackup
                \/ \E s \in Stacks : copyStackToBackupCrd(s)
             /\ Head(todo) \in {"dryRun", "getBackupCrd", "poll", "createBackupCrd", "listBackup",
                                "deleteBackup", "copy"}
    BY <1>2, <1>4 DEF DryRun, GetBackupCrd, Poll, createBackupCrd, ListBackup, DeleteBackup,
         copyStackToBackupCrd, clusterVars, hostVars, stackVars
  <1>5. CASE /\ Head(todo) \in {"serviceAccount", "rbac", "compose-etcd", "compose-tls",
                                "service", "debugAPIServer", "debugController", "defaultRoles"}
             /\ CreateObject(Head(todo))
    BY <1>2, <1>5 DEF CreateObject, hostVars, stackVars
  <1>6. CASE (Head(todo) = "compose-api" /\ createAPIServer) \/ (Head(todo) = "compose" /\ createController)
    <2>1. UNCHANGED <<crd, crdStacks, workloads, known, stray, apiService>>
      BY <1>6 DEF createAPIServer, createController, CreateDeployment, hostVars, stackVars
    <2>2. createAPIServer => deployment'["compose"] = deployment["compose"]
      BY DEF createAPIServer, CreateDeployment, Deployed, Names
    <2> QED BY <1>1, <1>6, <2>1, <2>2 DEF NoController
  <1>7. CASE (Head(todo) = "uninstallApps" /\ uninstallApps)
    <2>1. UNCHANGED <<crd, crdStacks, workloads, known, stray, apiService>>
      BY <1>7 DEF uninstallApps, hostVars, stackVars
    <2>2. NoController => NoController'
      BY <1>7 DEF uninstallApps, NoController, Names
    <2> QED BY <1>1, <1>7, <2>1, <2>2
  <1>8. CASE /\ uninstallRbac \/ uninstallCore
             /\ Head(todo) \in {"uninstallRbac", "uninstallCore"}
    BY <1>2, <1>8 DEF uninstallRbac, uninstallCore, UninstallCore, hostVars, stackVars
  <1>9. CASE Head(todo) = "deleteController" /\ DeleteController
    <2>1. UNCHANGED <<crd, crdStacks, workloads, known, apiService>>
      BY <1>9 DEF DeleteController, stackVars
    <2>2. NoController'
      BY <1>9 DEF DeleteController, NoController, Deployed, Names
    <2> QED BY <1>9, <2>1, <2>2 DEF Spared
  <1>10. CASE Head(todo) \in {"deleteCRD", "removeCRD"} /\ deleteCRD
    BY <1>10 DEF deleteCRD, Spared, NoController, clusterVars, hostVars
  <1>11. CASE Head(todo) = "deleteAPIServices" /\ deleteAPIServices
    BY <1>11 DEF deleteAPIServices, Spared, NoController, hostVars, stackVars
  <1>12. CASE /\ Head(todo) \in {"waitForNoApps", "waitForNoRbac", "waitForNoAPIAggregation",
                                 "waitForNoCoreComponents", "waitForNoCrd", "waitForNoCRD"}
              /\ Wait
    <2>1. Head(todo) = "waitForNoApps" => waitForNoApps
      BY <1>12 DEF Wait, At
    <2> QED BY <1>12, <2>1 DEF Wait, Spared, NoController, waitForNoApps, Names, clusterVars, hostVars, stackVars
  <1>13. CASE Head(todo) \in {"listStacks", "listForBackup"} /\ ListStacks
    <2>1. UNCHANGED <<deployment, crd, crdStacks, workloads, stray, apiService>>
      BY <1>13 DEF ListStacks, clusterVars, hostVars, stackVars
    <2>2. known' = known \/ (Head(todo) = "listForBackup" /\ known' = known \cup Served)
      BY <1>13 DEF ListStacks, At
    <2> QED BY <1>13, <2>1, <2>2 DEF Spared, NoController
  <1>14. ASSUME Head(todo) = "orphan", NEW s \in Stacks, orphanStack(s) PROVE Spared
    <2>1. UNCHANGED <<deployment, crd, known, stray, apiService>>
      BY <1>14 DEF orphanStack, clusterVars, hostVars
    <2>2. crdStacks' \subseteq crdStacks
      BY <1>14 DEF orphanStack, SetServed, Served
    <2>3. NoController /\ ~stray => workloads' = workloads
      BY <1>14 DEF orphanStack, Forgotten, NoController
    <2> QED BY <1>14, <2>1, <2>2, <2>3 DEF Spared, NoController
  <1>15. ASSUME Head(todo) = "restore", NEW s \in Stacks, restoreStack(s) PROVE Spared
    <2>1. UNCHANGED <<deployment, crd, known, stray, apiService, workloads>>
      BY <1>15 DEF restoreStack, clusterVars, hostVars
    <2>2. crdStacks' = crdStacks \/ (Server = "crd" /\ crd = "present")
      BY <1>15 DEF restoreStack, SetServed, CanCreate
    <2> QED BY <1>15, <2>1, <2>2 DEF Spared, NoController
  <1> QED BY <1>3, <1>4, <1>5, <1>6, <1>7, <1>8, <1>9, <1>10, <1>11, <1>12, <1>13, <1>14, <1>15, Heads, SMTT(30)

\* All but the one step that deletes the controller's deployment in the background,
\* and of these the ones that neither delete a stack nor lead to one that does.
Plain == Late \ {"deleteController"}
Post == Plain \ {"do", "getCRD", "listStacks", "orphan", "waitForNoStacks"}
Made == Build \cup {"compose", "debugController"}
Dos == {"do", "doWithoutController", "doControllerOnly"}
Ordered(s) == Before(s, "deleteAPIServices", "deleteCRD")

\* What install() creates.
LEMMA InstallMakes ==
    ASSUME NEW i, NEW a \in BOOLEAN, NEW b \in BOOLEAN
    PROVE  Install(i, a, b) \in Seq(Made)
  <1>1. /\ <<"compose-etcd">> \in Seq(Made) /\ <<"compose-tls">> \in Seq(Made)
        /\ <<"compose-api", "service">> \in Seq(Made) /\ <<"debugAPIServer">> \in Seq(Made)
        /\ <<"compose">> \in Seq(Made) /\ <<"debugController">> \in Seq(Made)
        /\ <<"serviceAccount", "rbac">> \in Seq(Made) /\ <<"defaultRoles">> \in Seq(Made)
        /\ <<>> \in Seq(Made)
    BY SMT DEF Made, Build
  <1>2. InstallAPIServer(i) \in Seq(Made)
    BY <1>1, ConcatProperties DEF InstallAPIServer
  <1>3. InstallController(i) \in Seq(Made)
    BY <1>1, ConcatProperties DEF InstallController
  <1> QED BY <1>1, <1>2, <1>3, ConcatProperties DEF Install

\* Uninstall deletes the definition before the registration that hides it.
LEMMA UninstallOrdered ==
    LET u == Uninstall(FALSE) \o WaitForUninstallCompletion(FALSE) IN
    u \in Seq(UninstallSteps) /\ Ordered(u)
  <1> DEFINE U == UninstallSteps
             a == <<"uninstallApps">> \o <<"deleteCRD">>
             b == <<"uninstallRbac", "deleteAPIServices", "uninstallCore">>
             w == WaitForUninstallCompletion(FALSE)
             V == U \ {"deleteAPIServices"}
  <1>1. a \in Seq(U) /\ a \in Seq(V) /\ b \in Seq(U) /\ Len(a) = 2 /\ a[2] = "deleteCRD"
    BY SMT DEF UninstallSteps
  <1>2. w \in Seq(U) /\ w \in Seq(V)
    BY SMT DEF UninstallSteps, WaitForUninstallCompletion
  <1>3. Uninstall(FALSE) = a \o b
    BY DEF Uninstall
  <1>4. "deleteAPIServices" \notin V
    OBVIOUS
  <1> HIDE DEF U, V, a, b, w
  <1>5. Has(a, "deleteCRD")
    BY <1>1, SMT DEF Has
  <1>6. Ordered(a) /\ Ordered(w)
    BY <1>1, <1>2, <1>4, BeforeAbsent DEF Ordered
  <1>7. Ordered(a \o b) /\ a \o b \in Seq(U)
    BY <1>1, <1>5, <1>6, BeforeConcat, ConcatProperties DEF Ordered
  <1>8. Ordered((a \o b) \o w) /\ (a \o b) \o w \in Seq(U)
    BY <1>2, <1>6, <1>7, BeforeConcat, ConcatProperties DEF Ordered
  <1> QED BY <1>3, <1>8 DEF U, w

\* How a step changes the program: it takes its place, or nothing does.
LEMMA NextSteps ==
    ASSUME Step, NEW S, todo \in Seq(S)
    PROVE  \/ Abort
           \/ todo' = todo
           \/ /\ cmd.name = "update" /\ todo' = <<"doControllerOnly">>
              /\ Head(todo) \in {"listBackup", "restore"}
           \/ \E q : /\ todo' = q \o Tail(todo) /\ Ordered(q)
                     /\ \/ q = <<>>
                        \/ q \in Seq(Post) /\ Head(todo) \in Dos
                        \/ q = UninstallCRD /\ Head(todo) = "getCRD"
                        \/ q = <<"poll">> /\ Head(todo) = "getBackupCrd"
  <1> DEFINE G == \/ Abort
                  \/ todo' = todo
                  \/ /\ cmd.name = "update" /\ todo' = <<"doControllerOnly">>
                     /\ Head(todo) \in {"listBackup", "restore"}
                  \/ \E q : /\ todo' = q \o Tail(todo) /\ Ordered(q)
                            /\ \/ q = <<>>
                               \/ q \in Seq(Post) /\ Head(todo) \in Dos
                               \/ q = UninstallCRD /\ Head(todo) = "getCRD"
                               \/ q = <<"poll">> /\ Head(todo) = "getBackupCrd"
  <1> SUFFICES G
    OBVIOUS
  <1>1. todo # <<>> /\ Tail(todo) \in Seq(S)
    BY Heads, HeadTailProperties
  <1>2. Ordered(<<>>) /\ Ordered(UninstallCRD) /\ Ordered(<<"poll">>)
    <2> DEFINE T == {"listStacks", "orphan", "waitForNoStacks", "removeCRD", "waitForNoCRD", "poll"}
    <2>1. <<>> \in Seq(T) /\ UninstallCRD \in Seq(T) /\ <<"poll">> \in Seq(T)
          /\ "deleteAPIServices" \notin T
      BY SMT DEF UninstallCRD
    <2> HIDE DEF T
    <2> QED BY <2>1, BeforeAbsent DEF Ordered
  <1>3. ASSUME Proceed PROVE G
    <2>1. todo' = <<>> \o Tail(todo)
      BY <1>1, <1>3, ConcatEmptySeq DEF Proceed, Continue
    <2> QED BY <1>2, <2>1
  <1>4. CASE Do
    <2> DEFINE steps == Install(installer, ~(Head(todo) = "doControllerOnly"),
                                Head(todo) # "doWithoutController")
               u == Uninstall(FALSE) \o WaitForUninstallCompletion(FALSE)
    <2>1. Head(todo) \in Dos
      BY <1>4 DEF Do, Dos
    <2>2. Abort \/ \E q \in {steps, <<>>, u \o steps} : todo' = q \o Tail(todo)
      BY <1>4 DEF Do, Continue
    <2>3. steps \in Seq(Made) /\ u \in Seq(UninstallSteps) /\ Ordered(u)
      BY InstallMakes, UninstallOrdered
    <2> HIDE DEF steps, u
    <2>4. Made \subseteq Post /\ UninstallSteps \subseteq Post /\ "deleteAPIServices" \notin Made
      BY SMT DEF Made, Build, UninstallSteps, Post, Plain, Late
    <2>5. Ordered(steps)
      BY <2>3, <2>4, BeforeAbsent DEF Ordered
    <2>6. steps \in Seq(Post) /\ u \in Seq(Post)
      BY <2>3, <2>4, SeqMonotonic
    <2>7. u \o steps \in Seq(Post) /\ Ordered(u \o steps)
      BY <2>3, <2>5, <2>6, BeforeConcat, ConcatProperties DEF Ordered
    <2> QED BY <1>2, <2>1, <2>2, <2>5, <2>6, <2>7
  <1>5. CASE Head(todo) = "getCRD" /\ GetCRD
    <2>1. \E q \in {<<>>, UninstallCRD} : todo' = q \o Tail(todo)
      BY <1>5 DEF GetCRD, Continue
    <2> QED BY <1>2, <1>5, <2>1
  <1>6. CASE Head(todo) = "getBackupCrd" /\ GetBackupCrd
    <2>1. Proceed \/ todo' = <<"poll">> \o Tail(todo)
      BY <1>6 DEF GetBackupCrd, Continue
    <2> QED BY <1>2, <1>3, <1>6, <2>1
  <1>7. CASE ListBackup \/ \E s \in Stacks : restoreStack(s)
    <2>1. Proceed \/ Abort \/ todo' = todo \/ (cmd.name = "update" /\ todo' = <<"doControllerOnly">>)
      BY <1>7 DEF ListBackup, restoreStack, RestoreFails
    <2>2. Head(todo) \in {"listBackup", "restore"}
      BY <1>7 DEF ListBackup, restoreStack, Each, At
    <2> QED BY <1>3, <2>1, <2>2
  <1>8. CASE \E s \in Stacks : orphanStack(s) \/ copyStackToBackupCrd(s)
    BY <1>8 DEF orphanStack, copyStackToBackupCrd
  <1> HIDE DEF G
  <1>9. CASE \/ IsRunning \/ createAPIServer \/ createController \/ WaitForNoStacks \/ ListStacks
             \/ DryRun \/ createBackupCrd
    <2>1. Proceed \/ Abort
      BY <1>9
         DEF IsRunning, createAPIServer, createController, CreateDeployment, WaitForNoStacks,
           ListStacks, DryRun, createBackupCrd
    <2> QED BY <1>3, <2>1 DEF G
  <1>10. CASE \/ DeleteController \/ uninstallApps \/ deleteCRD \/ uninstallRbac \/ deleteAPIServices
              \/ uninstallCore \/ Wait \/ EndOfLoop \/ Poll \/ DeleteBackup
              \/ \E o : CreateObject(o)
    BY <1>3, <1>10 DEF DeleteController, uninstallApps, deleteCRD, uninstallRbac, deleteAPIServices,
         uninstallCore, UninstallCore, Wait, EndOfLoop, Poll, DeleteBackup, CreateObject
  <1> QED BY <1>4, <1>5, <1>6, <1>7, <1>8, <1>9, <1>10, Heads

\* What an Update of stacks in a definition has left once the API server is gone:
\* before it looks for the definition, while it deletes the stacks, and after.
Final == WaitForUninstallCompletion(FALSE) \o Replace
Tear == Early \cup (UninstallSteps \ {"deleteCRD"})
Unorphaned ==
    \E p \in Seq(Tear) : /\ todo = p \o (<<"getCRD">> \o Final)
                         /\ Has(p, "waitForNoApps") \/ NoController
Orphaning ==
    /\ NoController
    /\ \E p \in Seq({"listStacks", "orphan"}) :
          todo = p \o (<<"waitForNoStacks", "removeCRD", "waitForNoCRD">> \o Final)
Orphaned == todo \in Seq(Post) /\ known \cap crdStacks = {}
Underway ==
    /\ ~stray
    /\ \/ Orphaned
       \/ crd = "present" /\ ~apiService /\ Quiet /\ (Unorphaned \/ Orphaning)

\* UninstallComposeAPIServer, once the controller's deployment is gone or before.
Dropping ==
    \/ todo \in Seq(Wreck) /\ NoController
    \/ /\ Head(todo) = "deleteController" /\ Tail(todo) \in Seq(Wreck)
       /\ apiService \/ crd # "present"

\* A definition that goes has none of the known stacks any more; one that stays is
\* hidden as long as a controller without a deployment runs.
Kept ==
    /\ crd # "present" => known \cap crdStacks = {}
    /\ crd = "present" /\ stray => apiService
    /\ todo # <<>> =>
         /\ cmd.name = "update" => Underway
         /\ cmd.name \in GivesUp => Ordered(todo) \/ crd # "present"
         /\ cmd.name \in {"install", "uninstall"} => todo \in Seq(Plain)
         /\ cmd.name = "uninstallAPIServer" => Dropping

\* A step of a command that gives the stacks up: it removes the registration once
\* the definition is on its way out.
LEMMA GivesUpKept ==
    ASSUME IInv, Deployed, Terminable, Kept, Step, cmd.name \in GivesUp
    PROVE  Kept'
  <1>1. todo # <<>> /\ cmd' = cmd /\ Spared
    BY Heads, StepSpares
  <1>2. todo \in Seq(Late) /\ Head(todo) \in Late /\ Tail(todo) \in Seq(Late) /\ known = {}
    <2>1. todo \in Seq(Late) /\ known = {}
      BY <1>1 DEF IInv, Programs, Places
    <2> QED BY <1>1, <2>1, HeadTailProperties
  <1>3. known' = {}
    BY <1>1, <1>2 DEF Spared, Late
  <1>4. crd' = "present" => crd = "present" /\ Head(todo) # "deleteCRD"
    BY <1>1 DEF Spared
  <1>5. cmd.name \in {"install", "uninstall"} => todo \in Seq(Plain) /\ Head(todo) \in Plain
    BY <1>1, HeadTailProperties DEF Kept
  <1>6. cmd.name = "uninstallAPIServer" => Dropping
    BY <1>1 DEF Kept
  <1>7. Head(todo) = "deleteController" =>
          /\ cmd.name = "uninstallAPIServer" /\ Tail(todo) \in Seq(Wreck)
          /\ apiService \/ crd # "present"
    <2>1. "deleteController" \notin Plain /\ "deleteController" \notin Wreck
      BY DEF Plain, Wreck, Early, UninstallSteps
    <2>2. todo \in Seq(Wreck) => Head(todo) \in Wreck
      BY <1>1, HeadTailProperties
    <2> QED BY <1>5, <1>6, <2>1, <2>2 DEF GivesUp, Dropping
  <1>8. Ordered(todo) \/ crd # "present"
    BY <1>1 DEF Kept
  <1>9. /\ Ordered(todo) => Head(todo) # "deleteAPIServices"
        /\ Ordered(todo) /\ Head(todo) # "deleteCRD" => Ordered(Tail(todo))
    BY <1>1, <1>2, BeforeTail DEF Ordered
  <1>10. crd' = "present" /\ stray' => apiService'
    <2> SUFFICES ASSUME crd' = "present", stray' PROVE apiService'
      OBVIOUS
    <2>1. crd = "present" /\ apiService' = apiService
      BY <1>1, <1>4, <1>8, <1>9 DEF Spared
    <2>2. stray' = stray \/ apiService
      BY <1>1, <1>7, <2>1 DEF Spared
    <2>3. apiService
      BY <2>1, <2>2 DEF Kept
    <2> QED BY <2>1, <2>3
  <1>11. \/ todo' = <<>>
         \/ todo' = todo
         \/ \E q : /\ todo' = q \o Tail(todo) /\ Ordered(q)
                   /\ q \in Seq(Plain) /\ q \in Seq(Late)
    <2>1. cmd.name # "update" /\ Head(todo) # "getBackupCrd"
      BY <1>2 DEF GivesUp, Late
    <2>2. /\ <<>> \in Seq(Plain) /\ UninstallCRD \in Seq(Plain)
          /\ \A q \in Seq(Post) : q \in Seq(Plain)
          /\ \A q \in Seq(Plain) : q \in Seq(Late)
      <3>1. UninstallCRD \in Seq(Plain)
        BY SMT DEF UninstallCRD, Plain, Late
      <3>2. Post \subseteq Plain /\ Plain \subseteq Late
        BY DEF Post, Plain
      <3> QED BY <3>1, <3>2, EmptySeq, SeqMonotonic
    <2> QED BY <1>2, <2>1, <2>2, NextSteps DEF Abort
  <1>12. todo' # <<>> => Ordered(todo') \/ crd' # "present"
    <2>1. ASSUME NEW q \in Seq(Late), todo' = q \o Tail(todo), Ordered(q), crd' = "present"
          PROVE  Ordered(todo')
      <3>1. Ordered(Tail(todo))
        BY <1>4, <1>8, <1>9, <2>1
      <3> QED BY <1>2, <2>1, <3>1, BeforeConcat DEF Ordered
    <2> QED BY <1>4, <1>8, <1>11, <2>1
  <1>13. cmd.name \in {"install", "uninstall"} => todo' \in Seq(Plain)
    <2> SUFFICES ASSUME cmd.name \in {"install", "uninstall"} PROVE todo' \in Seq(Plain)
      OBVIOUS
    <2>1. Tail(todo) \in Seq(Plain) /\ <<>> \in Seq(Plain)
      BY <1>1, <1>5, HeadTailProperties, EmptySeq
    <2> QED BY <1>5, <1>11, <2>1, ConcatProperties, ZenonT(30)
  <1>14. cmd.name = "uninstallAPIServer" => todo' \in Seq(Wreck) /\ NoController'
    <2> SUFFICES ASSUME cmd.name = "uninstallAPIServer" PROVE todo' \in Seq(Wreck) /\ NoController'
      OBVIOUS
    <2>1. CASE todo \in Seq(Wreck) /\ NoController
      <3>1. Head(todo) \in Wreck /\ Tail(todo) \in Seq(Wreck) /\ <<>> \in Seq(Wreck)
        BY <1>1, <2>1, HeadTailProperties, EmptySeq
      <3>2. \/ Abort
            \/ UNCHANGED <<todo, result>>
            \/ \E q \in Seq(Wreck) : todo' = q \o Tail(todo)
        BY <2>1, <3>1, WreckStep DEF Continue
      <3>3. todo' \in Seq(Wreck)
        BY <2>1, <3>1, <3>2, ConcatProperties DEF Abort
      <3> QED BY <1>1, <2>1, <3>1, <3>3 DEF Spared, Wreck, Early, UninstallSteps
    <2>2. CASE Head(todo) = "deleteController"
      <3>1. todo' = Tail(todo)
        BY <2>2, Heads DEF DeleteController, Proceed, Continue
      <3> QED BY <1>1, <1>7, <2>2, <3>1 DEF Spared
    <2> QED BY <1>6, <2>1, <2>2 DEF Dropping
  <1> QED BY <1>1, <1>3, <1>10, <1>12, <1>13, <1>14 DEF Kept, Dropping, GivesUp

\* Update deletes no stack after it has deleted all.
LEMMA FinalNames ==
    /\ Final \in Seq(Post) /\ Final \in Seq(Early \cup Late) /\ Final # <<>>
    /\ Post \subseteq Early \cup Late
    /\ <<"removeCRD", "waitForNoCRD">> \o Final \in Seq(Post)
  <1>1. Post \subseteq Early \cup Late
    BY DEF Post, Plain
  <1>2. WaitForUninstallCompletion(FALSE) \in Seq(Post)
    <2>1. /\ <<"waitForNoApps", "waitForNoRbac", "waitForNoAPIAggregation",
               "waitForNoCoreComponents">> \in Seq(Post)
          /\ <<"waitForNoCrd">> \in Seq(Post)
      BY SMTT(30) DEF Post, Plain, Late
    <2> QED BY <2>1, ConcatProperties DEF WaitForUninstallCompletion
  <1>3. Replace \in Seq(Post) /\ <<"removeCRD", "waitForNoCRD">> \in Seq(Post)
    BY SMT DEF Replace, Post, Plain, Late
  <1>4. Final \in Seq(Post)
    BY <1>2, <1>3, ConcatProperties DEF Final
  <1>5. Final # <<>>
    BY <1>2, <1>3, StepNames, GoesOn DEF Final
  <1>6. <<"removeCRD", "waitForNoCRD">> \o Final \in Seq(Post)
    BY <1>3, <1>4, ConcatProperties
  <1> QED BY <1>1, <1>4, <1>5, <1>6, SeqMonotonic

\* A step of the first part of a program, whatever the parts are.
LEMMA StepOfPart ==
    ASSUME NEW S, NEW T, T \subseteq S, NEW p \in Seq(T), p # <<>>, NEW q \in Seq(T),
           NEW r \in Seq(S), todo = p \o r, todo' = q \o Tail(todo)
    PROVE  \E t \in Seq(T) : /\ todo' = t \o r
                             /\ \A x : Has(p, x) => Head(p) = x \/ Has(t, x)
  <1> DEFINE t == q \o Tail(p)
  <1>1. p \in Seq(S) /\ q \in Seq(S)
    BY SeqMonotonic
  <1>2. Tail(todo) = Tail(p) \o r /\ Tail(p) \in Seq(S) /\ Tail(p) \in Seq(T)
    BY <1>1, FirstOfTwo, HeadTailProperties
  <1>3. t \in Seq(T)
    BY <1>2, ConcatProperties
  <1>4. q \o (Tail(p) \o r) = t \o r
    <2>1. Regroups(S)
      BY ONLY Associative
    <2>2. q \in Seq(S) /\ Tail(p) \in Seq(S) /\ r \in Seq(S)
      BY <1>1, <1>2
    <2>3. (q \o Tail(p)) \o r = q \o (Tail(p) \o r)
      BY ONLY <2>1, <2>2, SMTT(30) DEF Regroups
    <2> QED BY <2>3
  <1>5. ASSUME NEW x, Has(p, x), Head(p) # x PROVE Has(t, x)
    <2>1. Has(Tail(p), x)
      BY <1>5, HasTail
    <2>2. \A u, v \in Seq(T) : Has(v, x) => Has(u \o v, x)
      BY HasConcat
    <2> QED BY <1>2, <2>1, <2>2
  <1> HIDE DEF t
  <1> QED BY <1>2, <1>3, <1>4, <1>5

\* Update restores from its backup to the API server, never to a definition.
LEMMA RestoresToAPI ==
    ASSUME Moving, cmd.name = "update", todo # <<>>, Head(todo) = "restore"
    PROVE  Server # "crd"
  <1> DEFINE S == Early \cup Late
  <1>1. /\ "restore" \notin Wreck /\ "restore" \notin Build /\ "restore" \notin Last
    BY DEF Wreck, Early, UninstallSteps, Build, Last
  <1>2. ASSUME NEW T, T \subseteq S, "restore" \notin T, NEW p \in Seq(T), NEW r \in Seq(S),
               todo = p \o r
        PROVE  p = <<>> /\ todo = r
    <2>1. p \in Seq(S)
      BY <1>2, SeqMonotonic
    <2>2. p # <<>> => Head(todo) = Head(p) /\ Head(p) \in T
      BY <1>2, <2>1, FirstOfTwo, HeadTailProperties, ZenonT(30)
    <2>3. p = <<>>
      BY <1>2, <2>2
    <2> QED BY <1>2, <2>3, ConcatEmptySeq
  <1>3. todo \notin Seq(Last)
    BY <1>1, HeadTailProperties
  <1>4. ~Building /\ ~Stuck
    BY <1>1, <1>2, StepNames DEF Building, Stuck
  <1>5. ~Tearing
    BY <1>1, <1>2, StepNames DEF Tearing
  <1>6. ~Clearing
    <2> SUFFICES ASSUME NEW p \in Seq(Wreck), NEW b \in Seq(Build), todo = p \o (b \o Rest)
                 PROVE  FALSE
      BY DEF Clearing
    <2>1. b \o Rest \in Seq(S)
      BY StepNames, SeqMonotonic, ConcatProperties
    <2>2. todo = b \o Rest
      BY <1>1, <1>2, <2>1, StepNames
    <2> QED BY <1>1, <1>2, <2>2, StepNames
  <1>7. Restoring
    BY <1>3, <1>4, <1>5, <1>6 DEF Moving
  <1> QED BY <1>7 DEF Restoring, Serving, Server

\* A step of Update once no stack is left in the definition.
LEMMA OrphanedKept ==
    ASSUME Deployed, Moving, Step, cmd.name = "update", Orphaned, ~stray
    PROVE  Kept'
  <1>1. todo # <<>> /\ cmd' = cmd /\ Spared
    BY Heads, StepSpares
  <1>2. todo \in Seq(Post) /\ Head(todo) \in Post /\ Tail(todo) \in Seq(Post)
    BY <1>1, HeadTailProperties DEF Orphaned
  <1>3. Head(todo) \notin {"listForBackup", "deleteController", "getCRD", "getBackupCrd"}
    BY <1>2 DEF Post, Plain, Late
  <1>4. known' = known /\ ~stray'
    BY <1>1, <1>3, SMTT(30) DEF Spared
  <1>5. known' \cap crdStacks' = {}
    <2>1. crdStacks' \subseteq crdStacks
      BY <1>1, RestoresToAPI DEF Spared
    <2> QED BY <1>4, <2>1 DEF Orphaned
  <1>6. todo' \in Seq(Post)
    <2>1. <<"doControllerOnly">> \in Seq(Post) /\ <<>> \in Seq(Post)
      BY SMT DEF Post, Plain, Late
    <2>2. \/ todo' \in {<<>>, todo, <<"doControllerOnly">>}
          \/ \E q \in Seq(Post) : todo' = q \o Tail(todo)
      BY <1>2, <1>3, <2>1, NextSteps DEF Abort
    <2> QED BY <1>2, <2>1, <2>2, ConcatProperties
  <1> QED BY <1>1, <1>4, <1>5, <1>6 DEF Kept, Underway, Orphaned, GivesUp

\* A step of Update before that: the definition stays, and hidden by nothing.
LEMMA UnorphanedKept ==
    ASSUME Deployed, Terminable, Step, cmd.name = "update", ~stray, crd = "present",
           ~apiService, Quiet, Unorphaned \/ Orphaning
    PROVE  Kept'
  <1> DEFINE S == Early \cup Late
             O == {"listStacks", "orphan"}
             g == <<"getCRD">> \o Final
             h == <<"waitForNoStacks", "removeCRD", "waitForNoCRD">> \o Final
  <1>1. todo # <<>> /\ cmd' = cmd /\ Spared
    BY Heads, StepSpares
  <1>2. /\ Tear \subseteq S /\ O \subseteq S /\ Tear \subseteq Wreck /\ O \subseteq Wreck
        /\ "getCRD" \in Wreck /\ "waitForNoStacks" \in Wreck
    BY DEF Tear, Early, Late, UninstallSteps, Wreck
  <1>3. /\ g \in Seq(S) /\ g # <<>> /\ Head(g) = "getCRD" /\ Tail(g) = Final
        /\ h \in Seq(S) /\ h # <<>> /\ Head(h) = "waitForNoStacks"
        /\ Tail(h) = <<"removeCRD", "waitForNoCRD">> \o Final
    <2> DEFINE x == <<"getCRD">>
               y == <<"waitForNoStacks", "removeCRD", "waitForNoCRD">>
    <2>1. x \in Seq(S) /\ x # <<>> /\ Head(x) = "getCRD" /\ Tail(x) = <<>>
          /\ y \in Seq(S) /\ y # <<>> /\ Head(y) = "waitForNoStacks"
          /\ Tail(y) = <<"removeCRD", "waitForNoCRD">>
      BY SMT DEF Late
    <2>2. Final \in Seq(S) /\ <<>> \o Final = Final
      BY FinalNames, ConcatEmptySeq
    <2> HIDE DEF S, x, y
    <2> QED BY <2>1, <2>2, FirstOfTwo, ConcatProperties, SMTT(30) DEF x, y
  <1> HIDE DEF g, h
  <1>4. ASSUME crd' = "present", Head(todo) \in Wreck, todo' # <<>> => Unorphaned' \/ Orphaning',
               Head(todo) \notin {"deleteController"}
        PROVE  Kept'
    <2>1. ~stray'
      BY <1>1, <1>4 DEF Spared
    <2>2. todo \in Seq(S)
      <3>1. \A p \in Seq(Tear) : p \o g \in Seq(S)
        BY <1>2, <1>3, SeqMonotonic, ConcatProperties
      <3>2. \A p \in Seq(O) : p \o h \in Seq(S)
        BY <1>2, <1>3, SeqMonotonic, ConcatProperties
      <3> QED BY <3>1, <3>2 DEF Unorphaned, Orphaning, g, h
    <2>3. Torn
      BY <1>4, <2>2, WreckStep
    <2>4. Quiet' /\ ~apiService'
      BY <2>3 DEF Torn, Quiet
    <2> QED BY <1>1, <1>4, <2>1, <2>4 DEF Kept, Underway, GivesUp
  <1>5. ASSUME NEW p \in Seq(Tear), todo = p \o g, Has(p, "waitForNoApps") \/ NoController, p # <<>>
        PROVE  Kept'
    <2>1. p \in Seq(S) /\ Head(todo) = Head(p) /\ Head(p) \in Tear /\ todo \in Seq(S)
      <3>1. p \in Seq(S)
        BY <1>2, SeqMonotonic
      <3> QED BY <1>3, <1>5, <3>1, FirstOfTwo, HeadTailProperties, ConcatProperties, SMTT(30)
    <2>2. /\ Head(todo) \notin Dos
          /\ Head(todo) \notin {"getCRD", "listBackup", "restore", "deleteCRD", "removeCRD",
                                "deleteController", "compose"}
      BY <2>1 DEF Tear, Early, UninstallSteps, Dos
    <2>3. crd' = "present" /\ (NoController => NoController')
      BY <1>1, <2>2 DEF Spared
    <2>4. CASE todo' = todo
      <3>1. Unorphaned'
        BY <1>5, <2>3, <2>4 DEF Unorphaned, g
      <3> QED BY <1>2, <1>4, <2>1, <2>2, <2>3, <3>1
    <2>5. ASSUME NEW q \in Seq(Tear), todo' = q \o Tail(todo) PROVE Kept'
      <3>1. PICK t \in Seq(Tear) : /\ todo' = t \o g
                                   /\ \A x : Has(p, x) => Head(p) = x \/ Has(t, x)
        <4>1. Tear \subseteq S /\ g \in Seq(S)
          BY <1>2, <1>3
        <4> HIDE DEF S
        <4> QED BY ONLY <1>5, <2>5, <4>1, StepOfPart, ZenonT(30)
      <3>2. Has(t, "waitForNoApps") \/ NoController'
        BY <1>1, <1>5, <2>1, <2>3, <3>1 DEF Spared
      <3>3. Unorphaned'
        BY <3>1, <3>2 DEF Unorphaned, g
      <3> QED BY <1>2, <1>4, <2>1, <2>2, <2>3, <3>3
    <2>6. <<>> \in Seq(Tear) /\ <<"poll">> \in Seq(Tear)
      BY SMT DEF Tear, Early
    <2>7. todo' = <<>> => Kept'
      BY <1>2, <1>4, <2>1, <2>2, <2>3
    <2> QED BY <2>1, <2>2, <2>4, <2>5, <2>6, <2>7, NextSteps, ZenonT(30) DEF Abort
  <1>6. ASSUME todo = g, NoController PROVE Kept'
    <2>1. GetCRD /\ Head(todo) = "getCRD" /\ Tail(todo) = Final
      BY <1>3, <1>6, Heads
    <2>2. todo' = UninstallCRD \o Final
      BY <2>1 DEF GetCRD, Continue
    <2>3. todo' = <<"listStacks", "orphan">> \o h
      <3> DEFINE x == <<"listStacks", "orphan">>
                 y == <<"waitForNoStacks", "removeCRD", "waitForNoCRD">>
      <3>1. UninstallCRD = x \o y
        BY SMTT(30) DEF UninstallCRD
      <3>2. x \in Seq(S) /\ y \in Seq(S) /\ Final \in Seq(S)
        BY FinalNames, SMTT(30) DEF Late
      <3>3. Regroups(S)
        BY ONLY Associative, SMTT(30)
      <3> HIDE DEF S, x, y
      <3>4. (x \o y) \o Final = x \o (y \o Final)
        BY ONLY <3>2, <3>3, SMTT(30) DEF Regroups
      <3> QED BY <2>2, <3>1, <3>4 DEF h, x, y
    <2>4. crd' = "present" /\ NoController'
      BY <1>1, <1>6, <2>1 DEF Spared
    <2>5. <<"listStacks", "orphan">> \in Seq(O)
      BY SMT
    <2>6. Orphaning'
      BY <2>3, <2>4, <2>5 DEF Orphaning, h
    <2> QED BY <1>2, <1>4, <2>1, <2>4, <2>6
  <1>7. ASSUME NEW p \in Seq(O), todo = p \o h, NoController, p # <<>> PROVE Kept'
    <2>1. p \in Seq(S) /\ Head(todo) = Head(p) /\ Head(p) \in O /\ todo \in Seq(S)
      <3>1. p \in Seq(S)
        BY <1>2, SeqMonotonic
      <3>2. Head(p) \in O
        BY <1>7, HeadTailProperties
      <3> HIDE DEF S, O
      <3> QED BY <1>3, <1>7, <3>1, <3>2, FirstOfTwo, ConcatProperties, SMTT(30)
    <2>2. crd' = "present" /\ NoController' /\ Head(todo) \in Wreck /\ Head(todo) # "deleteController"
      BY <1>1, <1>2, <1>7, <2>1 DEF Spared
    <2>3. CASE todo' = todo
      BY <1>4, <1>7, <2>2, <2>3 DEF Orphaning, h
    <2>4. ASSUME todo' = <<>> \o Tail(todo) PROVE Kept'
      <3>1. <<>> \in Seq(O)
        BY SMT
      <3>2. PICK t \in Seq(O) : todo' = t \o h
        <4>1. O \subseteq S /\ h \in Seq(S)
          BY <1>2, <1>3
        <4> HIDE DEF S, O
        <4> QED BY ONLY <1>7, <2>4, <3>1, <4>1, StepOfPart, ZenonT(30)
      <3> QED BY <1>4, <2>2, <3>2 DEF Orphaning, h
    <2>5. todo' = <<>> => Kept'
      BY <1>4, <2>2
    <2> QED BY <2>1, <2>3, <2>4, <2>5, NextSteps, ZenonT(30) DEF Abort, Dos
  <1>8. ASSUME todo = h PROVE Kept'
    <2>1. WaitForNoStacks /\ Head(todo) = "waitForNoStacks"
      BY <1>3, <1>8, Heads
    <2>2. Server = "crd"
      BY DEF Server
    <2>3. crdStacks = {} /\ todo' = <<"removeCRD", "waitForNoCRD">> \o Final
      BY <1>3, <1>8, <2>1, <2>2 DEF WaitForNoStacks, Served, Proceed, Continue
    <2>4. crdStacks' = {} /\ ~stray'
      BY <1>1, <2>1, <2>3, SMTT(30) DEF Spared
    <2>5. Orphaned'
      BY <2>3, <2>4, FinalNames DEF Orphaned
    <2> QED BY <1>1, <2>4, <2>5 DEF Kept, Underway, GivesUp
  <1>9. CASE Unorphaned
    <2>1. PICK p \in Seq(Tear) : todo = p \o g /\ (Has(p, "waitForNoApps") \/ NoController)
      BY <1>9 DEF Unorphaned, g
    <2>2. p = <<>> => todo = g /\ NoController
      BY <1>3, <2>1, ConcatEmptySeq, HasTail
    <2> QED BY <1>5, <1>6, <2>1, <2>2
  <1>10. CASE Orphaning
    <2>1. PICK p \in Seq(O) : todo = p \o h
      BY <1>10 DEF Orphaning, h
    <2>2. p = <<>> => todo = h
      BY <1>3, <2>1, ConcatEmptySeq
    <2> QED BY <1>7, <1>8, <1>10, <2>1, <2>2 DEF Orphaning
  <1> QED BY <1>9, <1>10

\* A step of any command.
LEMMA StepKept ==
    ASSUME IInv, Deployed, Terminable, Moving, Kept, Step
    PROVE  Kept'
  <1>1. todo # <<>> /\ cmd' = cmd /\ Spared
    BY Heads, StepSpares
  <1>2. CASE cmd.name \in GivesUp
    BY <1>2, GivesUpKept
  <1>3. CASE cmd.name = "update"
    BY <1>1, <1>3, OrphanedKept, UnorphanedKept DEF Kept, Underway
  <1>4. CASE cmd.name \in {"restore", "deleteBackup"}
    <2>1. Head(todo) \in {"listBackup", "restore", "deleteBackup"}
      BY <1>1, <1>4, HeadTailProperties DEF IInv, Programs
    <2>2. UNCHANGED <<crd, known, stray, apiService>>
      BY <1>1, <2>1 DEF Spared
    <2>3. crd' # "present" => crdStacks' \subseteq crdStacks
      BY <1>1, <2>2 DEF Spared
    <2> QED BY <1>1, <1>4, <2>2, <2>3 DEF Kept, GivesUp
  <1> QED BY <1>1, <1>2, <1>3, <1>4 DEF IInv, Programs

\* What happens beside the command may hide the definition, never uncover it.
LEMMA KeptUnmoved ==
    ASSUME Kept, UNCHANGED <<cmd, todo, known>>,
           crd' = "present" <=> crd = "present",
           known \cap crdStacks = {} => known \cap crdStacks' = {},
           stray' => stray, apiService => apiService',
           ~apiService /\ Quiet => ~apiService' /\ Quiet',
           NoController => NoController'
    PROVE  Kept'
  <1>1. Underway => Underway'
    BY DEF Underway, Orphaned, Unorphaned, Orphaning
  <1>2. Dropping => Dropping'
    BY DEF Dropping
  <1> QED BY <1>1, <1>2 DEF Kept

\* The cluster and the users.
LEMMA KeptBeside ==
    ASSUME Deployed, Kept, Cluster \/ (\E s \in Stacks : CreateStack(s)) \/ UNCHANGED vars
    PROVE  Kept'
  <1> USE DEF Quiet, Down, Gone, Leaving, NoController
  <1>1. CASE UNCHANGED vars
    BY <1>1, KeptUnmoved DEF vars, clusterVars, hostVars, stackVars
  <1>2. ASSUME NEW s \in Stacks, CreateStack(s) PROVE Kept'
    <2>1. known \cap crdStacks' = known \cap crdStacks
      BY <1>2 DEF CreateStack, SetServed, Served
    <2> QED BY <1>2, <2>1, KeptUnmoved DEF CreateStack, clusterVars, hostVars
  <1>3. CASE StartPod \/ registerAggregatedAPIs
    BY <1>3, KeptUnmoved, SMTT(30) DEF StartPod, registerAggregatedAPIs, hostVars, stackVars
  <1>4. CASE StopPod \/ CollectStray
    BY <1>4, KeptUnmoved, SMTT(30) DEF StopPod, CollectStray, hostVars, stackVars
  <1>5. ASSUME NEW d \in Names, CollectDeployment(d) PROVE Kept'
    <2>1. CASE d = "compose"
      <3>1. deployment'["compose-api"] = deployment["compose-api"] /\ NoController'
        BY <1>5, <2>1 DEF CollectDeployment, Deployed, Names
      <3> QED BY <1>5, <3>1, KeptUnmoved DEF CollectDeployment, hostVars, stackVars
    <2>2. CASE d = "compose-api"
      <3>1. deployment'["compose-api"] = None /\ deployment'["compose"] = deployment["compose"]
        BY <1>5, <2>2 DEF CollectDeployment, Deployed, Names
      <3> QED BY <1>5, <3>1, KeptUnmoved DEF CollectDeployment, hostVars, stackVars
    <2> QED BY <2>1, <2>2 DEF Names
  <1>6. ASSUME NEW o \in Objects, CollectObject(o) PROVE Kept'
    BY <1>6, KeptUnmoved DEF CollectObject, hostVars, stackVars
  <1>7. CASE CollectCRD \/ CollectBackup
    BY <1>7, KeptUnmoved, SMTT(30) DEF CollectCRD, CollectBackup, clusterVars, hostVars
  <1> QED BY <1>1, <1>2, <1>3, <1>4, <1>5, <1>6, <1>7 DEF Cluster

\* An Update waits for the controller to go before it looks for the definition.
LEMMA UpdateUnorphaned ==
    ASSUME NEW abort \in BOOLEAN
    PROVE  \E p \in Seq(Tear) : /\ Update(abort) = p \o (<<"getCRD">> \o Final)
                                /\ Has(p, "waitForNoApps")
  <1> DEFINE S == Early \cup Late
             k == (IF abort THEN <<"dryRun">> ELSE <<>>) \o Backup
             u == Uninstall(TRUE)
             g == WaitForUninstallCompletion(TRUE)
             d == <<"getCRD">>
             h == WaitForUninstallCompletion(FALSE)
             p == k \o (u \o g)
  <1>1. Update(abort) = (k \o (((u \o g) \o d) \o h)) \o Replace
    BY UpdateSplit DEF UninstallComposeCRD
  <1>2. k \in Seq(Tear) /\ u \in Seq(Tear) /\ g \in Seq(Tear) /\ Has(g, "waitForNoApps")
    <2>1. k \in Seq(Tear)
      <3>1. Backup \in Seq(Tear) /\ <<"dryRun">> \in Seq(Tear) /\ <<>> \in Seq(Tear)
        BY SMT DEF Backup, Tear, Early
      <3> QED BY <3>1, ConcatProperties
    <2>2. <<"uninstallApps">> \o <<>> = <<"uninstallApps">>
      BY SMT
    <2>3. u \in Seq(Tear)
      BY <2>2, SMTT(30) DEF Uninstall, Tear, UninstallSteps
    <2> DEFINE x == <<"waitForNoApps", "waitForNoRbac", "waitForNoAPIAggregation",
                      "waitForNoCoreComponents">>
    <2>4. x \in Seq(Tear) /\ Len(x) = 4 /\ x[1] = "waitForNoApps"
      BY SMT DEF Tear, UninstallSteps
    <2>5. g = x \o <<>>
      BY DEF WaitForUninstallCompletion
    <2> HIDE DEF k, u, g, x
    <2>6. g = x
      BY <2>4, <2>5, ConcatEmptySeq
    <2>7. Has(g, "waitForNoApps")
      BY <2>4, <2>6, SMTT(30) DEF Has
    <2> QED BY <2>1, <2>3, <2>4, <2>6, <2>7
  <1>3. Tear \subseteq S /\ d \in Seq(S) /\ h \in Seq(S) /\ Replace \in Seq(S)
    <2>1. Tear \subseteq S /\ d \in Seq(S)
      BY SMT DEF Tear, Early, Late, UninstallSteps
    <2>2. h \in Seq(S)
      BY LatePrograms, SeqMonotonic
    <2> QED BY <2>1, <2>2, StepNames
  <1>4. Final = h \o Replace
    BY DEF Final
  <1> HIDE DEF S, k, u, g, d, h
  <1>5. k \in Seq(S) /\ u \in Seq(S) /\ g \in Seq(S)
    BY <1>2, <1>3, SeqMonotonic, ZenonT(30)
  <1>6. Update(abort) = p \o (d \o Final)
    <2>1. Regroups(S)
      BY ONLY Associative
    <2>2. \A x, y \in Seq(S) : x \o y \in Seq(S)
      BY ConcatProperties
    <2> DEFINE v == u \o g
    <2>3. v \in Seq(S)
      BY <1>5, <2>2
    <2> HIDE DEF v
    <2>4. (v \o d) \o h = v \o (d \o h) /\ d \o h \in Seq(S)
      BY ONLY <1>3, <2>1, <2>2, <2>3, SMTT(30) DEF Regroups
    <2>5. k \o (v \o (d \o h)) = (k \o v) \o (d \o h) /\ k \o v \in Seq(S)
      <3> DEFINE e == d \o h
      <3>1. e \in Seq(S)
        BY <2>4
      <3> HIDE DEF e
      <3>2. k \o (v \o e) = (k \o v) \o e /\ k \o v \in Seq(S)
        BY ONLY <1>5, <2>1, <2>2, <2>3, <3>1, SMTT(30) DEF Regroups
      <3> QED BY <3>2 DEF e
    <2>6. ((k \o v) \o (d \o h)) \o Replace = (k \o v) \o ((d \o h) \o Replace)
      BY ONLY <1>3, <2>1, <2>4, <2>5, Zenon DEF Regroups
    <2>7. (d \o h) \o Replace = d \o (h \o Replace)
      BY ONLY <1>3, <2>1, SMTT(30) DEF Regroups
    <2> QED BY ONLY <1>1, <1>4, <2>4, <2>5, <2>6, <2>7, ZenonT(30) DEF v, p
  <1>7. p \in Seq(Tear) /\ Has(p, "waitForNoApps")
    <2>1. u \o g \in Seq(Tear) /\ Has(u \o g, "waitForNoApps")
      BY <1>2, HasConcat, ConcatProperties
    <2> DEFINE v == u \o g
    <2> HIDE DEF v
    <2>2. v \in Seq(Tear) /\ Has(v, "waitForNoApps")
      BY <2>1 DEF v
    <2>3. k \o v \in Seq(Tear) /\ Has(k \o v, "waitForNoApps")
      BY <1>2, <2>2, HasConcat, ConcatProperties
    <2> QED BY <2>3 DEF p, v
  <1> QED BY <1>6, <1>7 DEF d

\* UninstallComposeAPIServer deletes the controller first, and the definition
\* before the registration.
LEMMA DropProgram ==
    LET u == UninstallComposeAPIServer IN
    u # <<>> /\ Head(u) = "deleteController" /\ Tail(u) \in Seq(Wreck) /\ Ordered(u)
  <1> DEFINE S == Early \cup Late
             a == <<"deleteController", "getCRD">>
             b == Uninstall(FALSE)
             c == WaitForUninstallCompletion(FALSE)
             d == b \o c
  <1>1. /\ a \in Seq(S) /\ a # <<>> /\ Head(a) = "deleteController" /\ Tail(a) = <<"getCRD">>
        /\ <<"getCRD">> \in Seq(Wreck)
    BY SMT DEF Late, Wreck
  <1>2. UninstallComposeAPIServer = (a \o b) \o c
    BY DEF UninstallComposeAPIServer
  <1>3. b \in Seq(S) /\ c \in Seq(S)
    BY LatePrograms, SeqMonotonic
  <1>4. d \in Seq(UninstallSteps) /\ Ordered(d)
    BY UninstallOrdered
  <1>5. UninstallSteps \subseteq S /\ UninstallSteps \subseteq Wreck
    BY DEF UninstallSteps, Late, Wreck
  <1>6. Ordered(a)
    <2> DEFINE T == {"deleteController", "getCRD"}
    <2>1. a \in Seq(T) /\ "deleteAPIServices" \notin T
      BY SMTT(30)
    <2> HIDE DEF a, T
    <2> QED BY <2>1, BeforeAbsent DEF Ordered
  <1> HIDE DEF S, a, b, c
  <1>7. UninstallComposeAPIServer = a \o d
    <2>1. Regroups(S)
      BY ONLY Associative
    <2> QED BY ONLY <1>1, <1>2, <1>3, <2>1, SMTT(30) DEF d, Regroups
  <1> HIDE DEF d
  <1>8. d \in Seq(S) /\ d \in Seq(Wreck)
    BY <1>4, <1>5, SeqMonotonic
  <1>9. a \o d # <<>> /\ Head(a \o d) = "deleteController" /\ Tail(a \o d) = <<"getCRD">> \o d
    <2>1. a \o d # <<>> /\ Head(a \o d) = Head(a) /\ Tail(a \o d) = Tail(a) \o d
      <3>1. a \in Seq(S) /\ a # <<>> /\ d \in Seq(S)
        BY <1>1, <1>8
      <3> QED BY ONLY <3>1, FirstOfTwo, SMTT(30)
    <2> QED BY <1>1, <2>1
  <1>10. <<"getCRD">> \o d \in Seq(Wreck)
    BY <1>1, <1>8, ConcatProperties
  <1>11. Ordered(a \o d)
    BY <1>1, <1>4, <1>6, <1>8, BeforeConcat DEF Ordered
  <1> QED BY <1>7, <1>9, <1>10, <1>11

\* A command that starts: Update where the definition serves all stacks and no
\* controller without a deployment runs, UninstallComposeAPIServer where an API
\* server does.
LEMMA KeptStart ==
    ASSUME UpdateFrom \subseteq {"crd"}, Kept, Starts
    PROVE  Kept'
  <1>1. ASSUME UNCHANGED <<clusterVars, stackVars>>, known' \in {known, {}},
               todo' # <<>> => cmd'.name \in {"restore", "deleteBackup"}
        PROVE  Kept'
    BY <1>1 DEF Kept, clusterVars, hostVars, stackVars, GivesUp
  <1>2. ASSUME NEW n \in {"install", "uninstall"}, NEW o, NEW p \in Seq(Plain), Ordered(p),
               Start(n, o, p), known' = {}
        PROVE  Kept'
    <2>1. cmd'.name = n /\ todo' = p /\ UNCHANGED <<clusterVars, stackVars>>
      BY <1>2 DEF Start
    <2> QED BY <1>2, <2>1 DEF Kept, clusterVars, hostVars, stackVars
  <1>3. ASSUME NEW o, StartDo(o) PROVE Kept'
    <2>1. <<"do">> \in Seq(Plain)
      BY SMT DEF Plain, Late
    <2>2. Ordered(<<"do">>)
      <3>1. <<"do">> \in Seq({"do"})
        BY SMT
      <3> QED BY <3>1, BeforeAbsent DEF Ordered
    <2> QED BY <1>2, <1>3, <2>1, <2>2 DEF StartDo
  <1>4. ASSUME NEW f \in CommandLines, StartInstall(f) PROVE Kept'
    <2>1. CASE parseOptions(f) # Failed
      BY <1>3, <1>4, <2>1 DEF StartInstall
    <2>2. CASE parseOptions(f) = Failed
      BY <1>1, <1>4, <2>2 DEF StartInstall
    <2> QED BY <2>1, <2>2
  <1>5. CASE StartUninstall
    <2> DEFINE u == Uninstall(FALSE) \o WaitForUninstallCompletion(FALSE)
    <2>1. u \in Seq(UninstallSteps) /\ Ordered(u) /\ UninstallSteps \subseteq Plain
      BY UninstallOrdered, ZenonT(30) DEF UninstallSteps, Plain, Late
    <2>2. Start("uninstall", None, u) /\ known' = {}
      BY <1>5 DEF StartUninstall
    <2> HIDE DEF u
    <2>3. u \in Seq(Plain)
      BY <2>1, SeqMonotonic
    <2> QED BY <1>2, <2>1, <2>2, <2>3
  <1>6. CASE StartUninstallAPIServer
    <2>1. /\ cmd'.name = "uninstallAPIServer" /\ todo' = UninstallComposeAPIServer /\ known' = {}
          /\ UNCHANGED <<clusterVars, stackVars>> /\ apiService
      BY <1>6 DEF StartUninstallAPIServer, Start, Server
    <2>2. apiService' /\ UNCHANGED <<crd, stray>>
      BY <2>1 DEF clusterVars, hostVars, stackVars
    <2>3. Dropping' /\ Ordered(todo')
      BY <2>1, <2>2, DropProgram DEF Dropping
    <2> QED BY <2>1, <2>2, <2>3 DEF Kept
  <1>7. ASSUME NEW tag \in UpdateTags, NEW abort \in BOOLEAN, StartUpdate(tag, abort) PROVE Kept'
    <2>1. /\ Server = "crd" /\ Settled
          /\ cmd'.name = "update" /\ todo' = Update(abort)
          /\ UNCHANGED <<clusterVars, stackVars, known>>
      BY <1>7 DEF StartUpdate, Start
    <2>2. crd = "present" /\ ~apiService /\ Gone /\ apiPod = "none"
      BY <2>1 DEF Settled, Server, Gone
    <2>3. ~stray
      BY <2>2 DEF Kept
    <2>4. UNCHANGED <<crd, apiService, stray, deployment, apiPod>>
      BY <2>1 DEF clusterVars, hostVars, stackVars
    <2>5. crd' = "present" /\ ~apiService' /\ ~stray' /\ Quiet'
      BY <2>2, <2>3, <2>4 DEF Quiet, Down, Gone
    <2>6. Unorphaned'
      BY <2>1, UpdateUnorphaned DEF Unorphaned
    <2> QED BY <2>1, <2>5, <2>6 DEF Kept, Underway, GivesUp
  <1>8. CASE StartRestore \/ StartDeleteBackup
    <2>1. /\ cmd'.name \in {"restore", "deleteBackup"} /\ UNCHANGED <<clusterVars, stackVars, known>>
      BY <1>8, SMTT(30) DEF StartRestore, StartDeleteBackup, Start
    <2> QED BY <1>1, <2>1
  <1> QED BY <1>3, <1>4, <1>5, <1>6, <1>7, <1>8 DEF Starts, StartDebugInstall

Unfailed == budget.failures = MaxFailures
Budgeted ==
    budget \in [commands : Nat, interruptions : Nat, failures : 0 .. MaxFailures, creates : Nat]

\* A failing call is never forgotten.
LEMMA BudgetStep ==
    ASSUME Budgeted, [Next]_vars
    PROVE  Budgeted' /\ (Unfailed' => Unfailed /\ ~Fail)
  <1>1. MaxFailures \in Nat
    BY InstallerAssumption
  <1>2. ASSUME NEW b \in {"commands", "interruptions", "creates"}, Spend(b)
        PROVE  Budgeted' /\ budget'.failures = budget.failures
    <2>1. CASE b = "commands"
      BY <1>2, <2>1, SMTT(30) DEF Budgeted, Spend
    <2>2. CASE b = "interruptions"
      BY <1>2, <2>2, SMTT(30) DEF Budgeted, Spend
    <2>3. CASE b = "creates"
      BY <1>2, <2>3, SMTT(30) DEF Budgeted, Spend
    <2> QED BY <1>2, <2>1, <2>2, <2>3
  <1>3. Fail => Budgeted' /\ budget'.failures = budget.failures - 1
    <2>1. Fail => Spend("failures")
      BY DEF Fail
    <2> QED BY <1>1, <2>1, SMTT(30) DEF Budgeted, Spend
  <1>4. Fail => ~Unfailed'
    BY <1>1, <1>3, SMTT(30) DEF Unfailed, Budgeted
  <1>5. CASE Starts
    <2>1. Spend("commands")
      BY <1>5
         DEF Starts, StartInstall, StartDo, StartDebugInstall, StartUpdate, StartUninstall,
           StartUninstallAPIServer, StartRestore, StartDeleteBackup, Start
    <2> QED BY <1>2, <1>4, <2>1 DEF Unfailed
  <1>6. CASE Interrupt \/ \E s \in Stacks : CreateStack(s)
    <2>1. Spend("interruptions") \/ Spend("creates")
      BY <1>6 DEF Interrupt, CreateStack
    <2> QED BY <1>2, <1>4, <2>1 DEF Unfailed
  <1>7. CASE Step
    <2>1. budget' = budget
      BY <1>7, Heads DEF Do, IsRunning, CreateObject, createAPIServer, createController,
           CreateDeployment, DeleteController, uninstallApps, deleteCRD, uninstallRbac,
           deleteAPIServices, uninstallCore, UninstallCore, Wait, WaitForNoStacks, GetCRD,
           ListStacks, EndOfLoop, DryRun, GetBackupCrd, Poll, createBackupCrd, ListBackup,
           DeleteBackup, orphanStack, copyStackToBackupCrd, restoreStack
    <2> QED BY <1>4, <2>1 DEF Budgeted, Unfailed
  <1>8. CASE Cluster \/ UNCHANGED vars
    <2>1. budget' = budget
      BY <1>8 DEF Cluster, StartPod, registerAggregatedAPIs, StopPod, CollectStray,
           CollectDeployment, CollectObject, CollectCRD, CollectBackup, vars
    <2> QED BY <1>4, <2>1 DEF Budgeted, Unfailed
  <1>9. CASE Fail
    BY <1>3, <1>4, <1>9
  <1> QED BY <1>5, <1>6, <1>7, <1>8, <1>9 DEF Next, Starts

\* No command removes the workloads of a stack it is to preserve, for any stacks,
\* options and versions, any number of commands and wherever they stop, as long
\* as it ignores no call that fails.  The stacks of an Update are in a definition:
\* the promise does not extend to a second one, of stacks the API server already
\* has (UninstallComposeCRD, UninstallComposeAPIServer, "preserving running
\* stacks").
THEOREM WorkloadsAreKept ==
    ASSUME UpdateFrom \subseteq {"crd"}
    PROVE  Spec => WorkloadsKept
  <1> DEFINE Inv == Budgeted /\ (Unfailed => Kept)
             Base == IInv /\ Deployed /\ Terminable /\ Moving
  <1>1. Init => Inv
    <2> SUFFICES ASSUME Init PROVE Inv
      OBVIOUS
    <2>1. Budgeted
      <3>1. /\ budget = [commands |-> MaxCommands, interruptions |-> MaxInterruptions,
                         failures |-> MaxFailures, creates |-> MaxCreates]
            /\ MaxCommands \in Nat /\ MaxInterruptions \in Nat /\ MaxFailures \in Nat
            /\ MaxCreates \in Nat
        BY InstallerAssumption DEF Init
      <3> QED BY <3>1, SMTT(30) DEF Budgeted
    <2>2. todo = <<>> /\ stray = FALSE /\ known = crdStacks /\ (crd = "present" \/ crdStacks = {})
      BY DEF Init
    <2> QED BY <2>1, <2>2 DEF Kept
  <1>2. Base /\ Inv /\ [Next]_vars => Inv'
    <2> SUFFICES ASSUME Base, Inv, [Next]_vars PROVE Inv'
      OBVIOUS
    <2>1. Budgeted' /\ (Unfailed' => Unfailed /\ ~Fail)
      BY BudgetStep
    <2>2. ASSUME Kept, ~Fail PROVE Kept'
      <3>1. CASE Step
        BY <2>2, <3>1, StepKept
      <3>2. CASE Cluster \/ (\E s \in Stacks : CreateStack(s)) \/ UNCHANGED vars
        BY <2>2, <3>2, KeptBeside
      <3>3. CASE Starts
        BY <2>2, <3>3, KeptStart
      <3>4. CASE Interrupt
        BY <2>2, <3>4 DEF Interrupt, Abort, Kept, clusterVars, hostVars, stackVars
      <3> QED BY <2>2, <3>1, <3>2, <3>3, <3>4 DEF Next, Starts
    <2> QED BY <2>1, <2>2
  <1>3. Base /\ Inv /\ [Next]_vars => [budget.failures = MaxFailures => Preserved \subseteq workloads']_vars
    <2> SUFFICES ASSUME Base, Kept, Next PROVE Preserved \subseteq workloads'
      BY DEF Unfailed
    <2>1. Preserved \subseteq workloads
      BY DEF Preserved
    <2>2. CASE workloads \subseteq workloads'
      BY <2>1, <2>2
    <2>3. CASE Step
      <3>1. Spared /\ todo # <<>>
        BY <2>3, StepSpares, Heads
      <3>2. CASE Head(todo) = "orphan" /\ ~(NoController /\ ~stray)
        <4>1. cmd.name \in GivesUp \cup {"update"}
          <5>1. "orphan" \in Late \ {"listBackup", "restore"}
            BY DEF Late
          <5> QED BY <3>1, <3>2, <5>1, WhoseStep DEF IInv
        <4>2. CASE cmd.name = "uninstallAPIServer"
          BY <3>1, <3>2, <4>2 DEF Kept, Dropping, Preserved
        <4>3. CASE cmd.name \in GivesUp \ {"uninstallAPIServer"}
          BY <3>1, <4>3 DEF IInv, Places, Preserved
        <4>4. CASE cmd.name = "update"
          <5>1. Underway
            BY <3>1, <4>4 DEF Kept
          <5>2. ~Orphaned
            <6>1. todo \in Seq(Post) => Head(todo) \in Post
              BY <3>1, HeadTailProperties
            <6> QED BY <3>2, <6>1 DEF Orphaned, Post
          <5>3. ~Unorphaned
            <6> SUFFICES ASSUME NEW p \in Seq(Tear), todo = p \o (<<"getCRD">> \o Final) PROVE FALSE
              BY DEF Unorphaned
            <6> DEFINE S == Early \cup Late
                       g == <<"getCRD">>
            <6>1. Tear \subseteq S /\ "orphan" \notin Tear
              BY ZenonT(30) DEF Tear, Early, UninstallSteps, Late
            <6>2. Final \in Seq(S) /\ g \in Seq(S) /\ g # <<>> /\ Head(g) = "getCRD"
              BY FinalNames, SMT DEF Late
            <6> HIDE DEF S, g
            <6>3. g \o Final \in Seq(S) /\ Head(g \o Final) = "getCRD"
              BY <6>2, FirstOfTwo, ConcatProperties, SMTT(30)
            <6>4. p \in Seq(S)
              BY <6>1, SeqMonotonic
            <6>5. p # <<>> => Head(todo) = Head(p) /\ Head(p) \in Tear
              BY <6>3, <6>4, FirstOfTwo, HeadTailProperties, SMTT(30) DEF g
            <6>6. p = <<>> => todo = g \o Final
              BY <6>3, ConcatEmptySeq DEF g
            <6> QED BY <3>2, <6>1, <6>3, <6>5, <6>6
          <5> QED BY <3>2, <5>1, <5>2, <5>3 DEF Underway, Orphaning
        <4> QED BY <4>1, <4>2, <4>3, <4>4
      <3> QED BY <2>2, <3>1, <3>2 DEF Spared
    <2>4. CASE CollectCRD
      <3>1. crd # "present" /\ workloads' = workloads \ crdStacks
        BY <2>4 DEF CollectCRD
      <3> QED BY <3>1 DEF Kept, Preserved
    <2>5. CASE Cluster /\ ~CollectCRD
      BY <2>2, <2>5 DEF Cluster, StartPod, registerAggregatedAPIs, StopPod, CollectStray,
         CollectDeployment, CollectObject, CollectBackup, stackVars
    <2>6. CASE (\E s \in Stacks : CreateStack(s)) \/ Interrupt \/ Fail
      BY <2>2, <2>6 DEF CreateStack, Interrupt, Fail, stackVars
    <2>7. CASE Starts
      BY <2>2, <2>7 DEF Starts, StartInstall, StartDo, StartDebugInstall, StartUpdate,
         StartUninstall, StartUninstallAPIServer, StartRestore, StartDeleteBackup, Start, stackVars
    <2> QED BY <2>3, <2>4, <2>5, <2>6, <2>7 DEF Next, Starts
  <1>4. Spec => []Base
    BY MovingInvariance
  <1> QED BY <1>1, <1>2, <1>3, <1>4, PTL DEF Spec, WorkloadsKept
-----------------------------------------------------------------------------
(* A command that installs, with no disturbance before, leaves every part   *)
(* in place.  The program that is left is a part that clears the cluster    *)
(* and a part that builds on what is cleared; each part of the installation *)
(* stands, or is still to be made.  Between commands the cluster is empty,  *)
(* holds the legacy installation, or one that Do has completed.             *)

Razes == Wreck \cup {"deleteController"}
Raises == Made \cup {"doControllerOnly", "isRunning", "listBackup", "restore"}
Waited == {"waitForNoApps", "waitForNoRbac", "waitForNoCoreComponents"}

\* The parts of an installation, by the step that makes each.
Parts(i) ==
    {"serviceAccount", "rbac", "service", "compose", "compose-api", "defaultRoles"}
    \cup (IF i.debug THEN {"debugAPIServer", "debugController"} ELSE {})
    \cup (IF i.etcd # None THEN {"compose-etcd"} ELSE {})
    \cup (IF customTLSHash(i) # None THEN {"compose-tls"} ELSE {})
Stands(x, i) ==
    CASE x = "compose" -> deployment["compose"] = Controller(i)
      [] x = "compose-api" -> deployment["compose-api"] = APIServer(i)
      [] OTHER -> object[x] = "present"
InPlace(i) == \A x \in Parts(i) : Stands(x, i)

\* What a command finds that nothing has disturbed.
Emptied == waitForNoApps /\ waitForNoRbac /\ waitForNoCoreComponents
Legacy ==
    /\ deployment["compose"] # None /\ ~deployment["compose"].terminating
    /\ deployment["compose"].labels = <<Old, "">>
Intact == Emptied \/ Legacy \/ \E o \in Options : InPlace(newInstaller(o))

\* Nothing is on its way out.
Solid ==
    /\ \A d \in Names : deployment[d] # None => ~deployment[d].terminating
    /\ \A o \in Objects : object[o] \in {"absent", "present"}

\* What is there is still waited for; what is missing is still made.
Clears(t) ==
    /\ Has(t, "waitForNoApps") \/ waitForNoApps
    /\ Has(t, "waitForNoRbac") \/ waitForNoRbac
    /\ Has(t, "waitForNoCoreComponents") \/ waitForNoCoreComponents
Covers(b, x) == Has(b, x) \/ (Has(b, "doControllerOnly") /\ x \in Last)

Razing ==
    \E t \in Seq(Razes), b \in Seq(Early \cup Late) :
        /\ todo = t \o b /\ Clears(t) /\ b # <<>>
        /\ b = Replace \/ (b \in Seq(Raises) /\ \A x \in Parts(installer) : Covers(b, x))
Raising ==
    /\ todo \in Seq(Raises) /\ Solid
    /\ \A x \in Parts(installer) : Covers(todo, x) \/ Stands(x, installer)

Keeping ==
    /\ cmd.name \in {"restore", "deleteBackup"}
    /\ todo \in Seq({"listBackup", "restore", "deleteBackup"}) /\ Intact
Demolishing ==
    /\ cmd.name \in {"uninstall", "uninstallAPIServer"}
    /\ todo \in Seq(Razes) /\ Clears(todo)
Installing ==
    /\ cmd.name \in {"install", "update"}
    /\ (todo = <<"do">> /\ Intact) \/ Razing \/ Raising

\* An installation with the one options cannot be told from one with the others.
Fits(o, p) ==
    LET i == newInstaller(o)
        j == newInstaller(p)
    IN /\ Controller(i) = Controller(j) /\ APIServer(i) = APIServer(j)
       /\ i.debug => j.debug
Installed ==
    cmd.name \in {"install", "update"} /\ result = "done" =>
        \E p \in Options : InPlace(newInstaller(p)) /\ Fits(cmd.options, p)

\* The roles for the users are never removed; a command that goes on has not
\* ended; a command that installs has options.
Roles == object["defaultRoles"] \in {"absent", "present"}
Unfinished == todo # <<>> => result # "done"
Asked ==
    cmd.name \in {"install", "update"} /\ (todo # <<>> \/ result = "done") =>
        cmd.options \in Options
Whole ==
    undisturbed =>
      /\ todo = <<>> => Intact /\ Installed
      /\ todo # <<>> => Keeping \/ Demolishing \/ Installing

\* The steps that clear and the steps that build.
LEMMA RazesRaises ==
    /\ Razes \subseteq Early \cup Late /\ Raises \subseteq Early \cup Late
    /\ Wreck \subseteq Razes /\ Made \subseteq Raises
    /\ Rest \in Seq(Raises)
    /\ Razes \cap (Raises \cup Dos) = {}
  <1>1. Razes \subseteq Early \cup Late /\ Wreck \subseteq Razes
    BY StepNames DEF Razes, Late
  <1>2. Raises \subseteq Early \cup Late /\ Made \subseteq Raises
    BY SMT DEF Raises, Made, Build, Late
  <1>3. Rest \in Seq(Raises)
    BY SMTT(30) DEF Rest, Raises
  <1>4. Razes \cap (Raises \cup Dos) = {}
    BY SMT DEF Razes, Wreck, Early, UninstallSteps, Raises, Made, Build, Dos
  <1> QED BY <1>1, <1>2, <1>3, <1>4, ZenonT(30)

\* A short program has the steps it is written with.
LEMMA HasWritten ==
    ASSUME NEW x, NEW y
    PROVE  Has(<<x>>, x) /\ Has(<<x, y>>, x) /\ Has(<<x, y>>, y)
  <1>1. /\ Len(<<x>>) = 1 /\ <<x>>[1] = x /\ Len(<<x, y>>) = 2
        /\ <<x, y>>[1] = x /\ <<x, y>>[2] = y
    OBVIOUS
  <1>2. 1 \in 1 .. 1 /\ 1 \in 1 .. 2 /\ 2 \in 1 .. 2
    BY SMT
  <1> QED BY <1>1, <1>2 DEF Has

\* The waits look at the deployments, the RBAC objects and the core components.
LEMMA WaitsProgram ==
    LET w == WaitForUninstallCompletion(FALSE) IN
    w \in Seq(Razes) /\ \A z \in Waited : Has(w, z)
  <1> DEFINE c == <<"waitForNoApps", "waitForNoRbac", "waitForNoAPIAggregation",
                    "waitForNoCoreComponents">>
             d == <<"waitForNoCrd">>
             w == WaitForUninstallCompletion(FALSE)
  <1>1. c \in Seq(Razes) /\ d \in Seq(Razes)
    BY SMT DEF Razes, Wreck, UninstallSteps
  <1>2. Len(c) = 4 /\ c[1] = "waitForNoApps" /\ c[2] = "waitForNoRbac"
        /\ c[4] = "waitForNoCoreComponents"
    OBVIOUS
  <1>3. w = c \o d
    BY DEF WaitForUninstallCompletion
  <1> HIDE DEF c, d, w
  <1>4. \A z \in Waited : Has(c, z)
    BY <1>2, SMTT(30) DEF Has, Waited
  <1>5. w \in Seq(Razes) /\ \A z \in Waited : Has(w, z)
    BY <1>1, <1>3, <1>4, HasConcat, ConcatProperties
  <1> QED BY <1>5 DEF w

\* Every command that uninstalls waits for all that it removes.
LEMMA ClearingPrograms ==
    /\ \A abort \in BOOLEAN : \E p \in Seq(Razes) :
         Update(abort) = p \o Replace /\ \A z \in Waited : Has(p, z)
    /\ LET u == Uninstall(FALSE) \o WaitForUninstallCompletion(FALSE) IN
       u \in Seq(Razes) /\ \A z \in Waited : Has(u, z)
    /\ LET u == UninstallComposeAPIServer IN u \in Seq(Razes) /\ \A z \in Waited : Has(u, z)
  <1> DEFINE w == WaitForUninstallCompletion(FALSE)
  <1>1. w \in Seq(Razes) /\ \A z \in Waited : Has(w, z)
    BY WaitsProgram
  <1> HIDE DEF w
  <1>2. ASSUME NEW s \in Seq(Razes)
        PROVE  s \o w \in Seq(Razes) /\ \A z \in Waited : Has(s \o w, z)
    BY <1>1, HasConcat, ConcatProperties
  <1>3. /\ \A keep \in BOOLEAN : Uninstall(keep) \in Seq(Razes)
        /\ \A skip \in BOOLEAN : WaitForUninstallCompletion(skip) \in Seq(Razes)
        /\ Backup \in Seq(Razes)
    BY UpdateParts, RazesRaises, SeqMonotonic
  <1>4. LET u == UninstallComposeAPIServer IN u \in Seq(Razes) /\ \A z \in Waited : Has(u, z)
    <2> DEFINE a == <<"deleteController", "getCRD">>
               b == Uninstall(FALSE)
    <2>1. a \in Seq(Razes)
      BY SMT DEF Razes, Wreck
    <2>2. a \o b \in Seq(Razes)
      BY <1>3, <2>1, ConcatProperties
    <2>3. UninstallComposeAPIServer = (a \o b) \o w
      BY DEF UninstallComposeAPIServer, w
    <2> HIDE DEF a, b
    <2> QED BY <1>2, <2>2, <2>3
  <1>5. ASSUME NEW abort \in BOOLEAN
        PROVE  \E p \in Seq(Razes) : Update(abort) = p \o Replace /\ \A z \in Waited : Has(p, z)
    <2> DEFINE k == (IF abort THEN <<"dryRun">> ELSE <<>>) \o Backup
               v == (Uninstall(TRUE) \o WaitForUninstallCompletion(TRUE)) \o <<"getCRD">>
               p == k \o UninstallComposeCRD
    <2>1. UninstallComposeCRD = v \o w
      BY DEF UninstallComposeCRD, w
    <2>2. <<"getCRD">> \in Seq(Razes) /\ <<"dryRun">> \in Seq(Razes) /\ <<>> \in Seq(Razes)
      BY SMT DEF Razes, Wreck, Early
    <2>3. k \in Seq(Razes)
      BY <1>3, <2>2, ConcatProperties
    <2>4. v \in Seq(Razes)
      BY <1>3, <2>2, ConcatProperties
    <2>5. Update(abort) = p \o Replace
      BY UpdateSplit
    <2> HIDE DEF k, v
    <2>6. UninstallComposeCRD \in Seq(Razes) /\ \A z \in Waited : Has(UninstallComposeCRD, z)
      BY <1>2, <2>1, <2>4
    <2>7. p \in Seq(Razes) /\ \A z \in Waited : Has(p, z)
      BY <2>3, <2>6, HasConcat, ConcatProperties
    <2> QED BY <2>5, <2>7
  <1> QED BY <1>2, <1>3, <1>4, <1>5 DEF w

\* A step that clears brings nothing back, and a wait has seen what it waits for.
LEMMA RazeStep ==
    ASSUME Kinds, Step, Head(todo) \in Razes
    PROVE  /\ Removes
           /\ Head(todo) = "waitForNoApps" => waitForNoApps
           /\ Head(todo) = "waitForNoRbac" => waitForNoRbac
           /\ Head(todo) = "waitForNoCoreComponents" => waitForNoCoreComponents
  <1>1. Head(todo) \notin Raises \cup Dos
    BY RazesRaises
  <1>2. \/ uninstallApps \/ deleteCRD \/ uninstallRbac \/ deleteAPIServices \/ uninstallCore \/ Wait
        \/ DeleteController \/ WaitForNoStacks \/ GetCRD \/ ListStacks \/ EndOfLoop \/ DryRun
        \/ GetBackupCrd \/ Poll \/ createBackupCrd \/ ListBackup \/ DeleteBackup
        \/ \E s \in Stacks : orphanStack(s) \/ copyStackToBackupCrd(s) \/ restoreStack(s)
    BY <1>1, Heads, SMTT(30) DEF Raises, Made, Build, Dos
  <1>3. CASE uninstallApps
    BY <1>3 DEF uninstallApps, Removes, At
  <1>4. CASE uninstallRbac \/ uninstallCore
    BY <1>4 DEF uninstallRbac, uninstallCore, UninstallCore, Terminate, Removes, At
  <1>5. CASE Wait
    BY <1>5 DEF Wait, Removes, At, clusterVars
  <1>6. CASE DeleteController
    BY <1>6 DEF DeleteController, Removes, At, Kinds, Deployed
  <1>7. CASE \/ deleteCRD \/ deleteAPIServices \/ WaitForNoStacks \/ GetCRD \/ ListStacks \/ EndOfLoop
    BY <1>7 DEF deleteCRD, deleteAPIServices, WaitForNoStacks, GetCRD, ListStacks, EndOfLoop,
         Removes, At, clusterVars
  <1>8. CASE \/ DryRun \/ GetBackupCrd \/ Poll \/ createBackupCrd \/ ListBackup \/ DeleteBackup
             \/ \E s \in Stacks : orphanStack(s) \/ copyStackToBackupCrd(s) \/ restoreStack(s)
    BY <1>8 DEF DryRun, GetBackupCrd, Poll, createBackupCrd, ListBackup, DeleteBackup,
         orphanStack, copyStackToBackupCrd, restoreStack, Removes, At, Each, clusterVars
  <1> QED BY <1>2, <1>3, <1>4, <1>5, <1>6, <1>7, <1>8, ZenonT(30)

\* What a program still clears, or has cleared, after a step that brings nothing back.
LEMMA StillClears ==
    ASSUME NEW p, NEW t, Clears(p), Removes,
           Has(p, "waitForNoApps") => waitForNoApps \/ Has(t, "waitForNoApps"),
           Has(p, "waitForNoRbac") => waitForNoRbac \/ Has(t, "waitForNoRbac"),
           Has(p, "waitForNoCoreComponents") =>
             waitForNoCoreComponents \/ Has(t, "waitForNoCoreComponents")
    PROVE  /\ Has(t, "waitForNoApps") \/ waitForNoApps'
           /\ Has(t, "waitForNoRbac") \/ waitForNoRbac'
           /\ Has(t, "waitForNoCoreComponents") \/ waitForNoCoreComponents'
  BY GoneStaysGone DEF Clears

\* A step of the part that clears leaves such a part, with the waits it needs.
LEMMA RazeProgram ==
    ASSUME Kinds, Step, ~Abort, NEW p \in Seq(Razes), p # <<>>, NEW g,
           g \in Seq(Early \cup Late), todo = p \o g, Clears(p)
    PROVE  \E t \in Seq(Razes) :
             /\ todo' = t \o g
             /\ Has(t, "waitForNoApps") \/ waitForNoApps'
             /\ Has(t, "waitForNoRbac") \/ waitForNoRbac'
             /\ Has(t, "waitForNoCoreComponents") \/ waitForNoCoreComponents'
  <1> DEFINE S == Early \cup Late
  <1>1. Razes \subseteq S /\ p \in Seq(S) /\ g \in Seq(S)
    BY RazesRaises, SeqMonotonic
  <1>2. todo \in Seq(S) /\ Head(todo) = Head(p) /\ Head(p) \in Razes
    BY <1>1, FirstOfTwo, ConcatProperties, HeadTailProperties, ZenonT(30)
  <1>3. /\ Removes
        /\ Head(p) = "waitForNoApps" => waitForNoApps
        /\ Head(p) = "waitForNoRbac" => waitForNoRbac
        /\ Head(p) = "waitForNoCoreComponents" => waitForNoCoreComponents
    BY <1>2, RazeStep
  <1> HIDE DEF S
  <1>4. \E t \in Seq(Razes) : todo' = t \o g /\ \A x : Has(p, x) => Head(p) = x \/ Has(t, x)
    <2>1. Head(todo) \notin {"listBackup", "restore"} \cup Dos
      BY <1>2, RazesRaises DEF Raises
    <2>2. todo' = todo \/ \E q \in {<<>>, UninstallCRD, <<"poll">>} : todo' = q \o Tail(todo)
      BY <1>2, <2>1, NextSteps
    <2>3. <<>> \in Seq(Razes) /\ UninstallCRD \in Seq(Razes) /\ <<"poll">> \in Seq(Razes)
      BY SMT DEF UninstallCRD, Razes, Wreck, Early
    <2>4. CASE todo' = todo
      BY <2>4
    <2>5. ASSUME NEW q \in Seq(Razes), todo' = q \o Tail(todo)
          PROVE  \E t \in Seq(Razes) : todo' = t \o g /\ \A x : Has(p, x) => Head(p) = x \/ Has(t, x)
      <3>1. p \in Seq(Razes) /\ p # <<>> /\ todo = p \o g
        OBVIOUS
      <3>2. Razes \subseteq S /\ g \in Seq(S)
        BY <1>1
      <3>3. PICK t \in Seq(Razes) : /\ todo' = t \o g
                                    /\ \A x : Has(p, x) => Head(p) = x \/ Has(t, x)
        BY ONLY <2>5, <3>1, <3>2, StepOfPart, ZenonT(30)
      <3> QED BY <3>3
    <2> QED BY <2>2, <2>3, <2>4, <2>5
  <1> QED BY <1>3, <1>4, StillClears

\* How a command goes on.
LEMMA Goes ==
    ASSUME Step
    PROVE  Abort \/ RestoreFails \/ UNCHANGED <<todo, result, undisturbed>> \/ Continue(todo')
  <1>1. ASSUME NEW rest, Continue(rest) PROVE Continue(todo')
    BY <1>1 DEF Continue
  <1>2. Proceed => Continue(todo')
    BY <1>1 DEF Proceed
  <1>3. CASE Do \/ GetCRD \/ GetBackupCrd
    BY <1>1, <1>2, <1>3 DEF Do, GetCRD, GetBackupCrd
  <1>4. CASE \/ IsRunning \/ createAPIServer \/ createController \/ WaitForNoStacks \/ ListStacks
             \/ DryRun \/ createBackupCrd \/ ListBackup
    BY <1>2, <1>4 DEF IsRunning, createAPIServer, createController, CreateDeployment,
         WaitForNoStacks, ListStacks, DryRun, createBackupCrd, ListBackup
  <1>5. CASE \/ DeleteController \/ uninstallApps \/ deleteCRD \/ uninstallRbac \/ deleteAPIServices
             \/ uninstallCore \/ Wait \/ EndOfLoop \/ Poll \/ DeleteBackup
             \/ \E o : CreateObject(o)
    BY <1>2, <1>5 DEF DeleteController, uninstallApps, deleteCRD, uninstallRbac, deleteAPIServices,
         uninstallCore, UninstallCore, Wait, EndOfLoop, Poll, DeleteBackup, CreateObject
  <1>6. CASE \E s \in Stacks : orphanStack(s) \/ copyStackToBackupCrd(s) \/ restoreStack(s)
    BY <1>6 DEF orphanStack, copyStackToBackupCrd, restoreStack
  <1> QED BY <1>3, <1>4, <1>5, <1>6, Heads

\* Only a command that has come to its end has ended well.
LEMMA UnfinishedStep == ASSUME Unfinished, [Next]_vars PROVE Unfinished'
  <1>1. CASE Step
    BY <1>1, Goes, Heads DEF Unfinished, Abort, RestoreFails, Continue
  <1>2. CASE Cluster \/ (\E s \in Stacks : CreateStack(s)) \/ UNCHANGED vars
    BY <1>2 DEF Unfinished, Cluster, StartPod, registerAggregatedAPIs, StopPod, CollectStray,
         CollectDeployment, CollectObject, CollectCRD, CollectBackup, CreateStack, vars
  <1>3. CASE Interrupt
    BY <1>3 DEF Unfinished, Interrupt, Abort
  <1>4. CASE Fail
    <2>1. CASE \E n \in Waits : /\ todo' = SubSeq(todo, n + 1, Len(todo))
                                /\ result' = IF n = Len(todo) THEN "done" ELSE result
      <3>1. PICK n \in Waits : /\ todo' = SubSeq(todo, n + 1, Len(todo))
                               /\ result' = IF n = Len(todo) THEN "done" ELSE result
        BY <2>1
      <3>2. CASE n = Len(todo)
        <4>1. Len(todo) \in Int
          BY <3>2, SMTT(30) DEF Waits
        <4>2. todo' = <<>>
          BY <3>1, <3>2, <4>1, SMTT(30)
        <4> QED BY <4>2 DEF Unfinished
      <3>3. CASE n # Len(todo)
        BY <1>4, <3>1, <3>3 DEF Unfinished, Fail
      <3> QED BY <3>2, <3>3
    <2>2. CASE RestoreFails
      BY <1>4, <2>2 DEF Unfinished, RestoreFails, Abort
    <2> QED BY <1>4, <2>1, <2>2 DEF Fail
  <1>5. CASE Starts
    <2>1. ASSUME NEW n, NEW o, NEW p, Start(n, o, p) PROVE Unfinished'
      BY <2>1 DEF Start, Unfinished
    <2>2. ASSUME NEW f, StartInstall(f) PROVE Unfinished'
      BY <2>1, <2>2, SMTT(30) DEF StartInstall, StartDo, Unfinished
    <2> QED BY <1>5, <2>1, <2>2 DEF Starts, StartDo, StartDebugInstall, StartUpdate, StartUninstall,
         StartUninstallAPIServer, StartRestore, StartDeleteBackup
  <1> QED BY <1>1, <1>2, <1>3, <1>4, <1>5, ZenonT(30) DEF Next, Starts

\* The roles for the users are never removed.
LEMMA RolesStep == ASSUME Kinds, Roles, [Next]_vars PROVE Roles'
  <1>0. "defaultRoles" \in Objects /\ "defaultRoles" \notin Services \cup Secrets \cup {"serviceAccount", "rbac"}
    BY DEF Objects, Labelled, Secrets, Services
  <1>1. ASSUME object' = object PROVE Roles'
    BY <1>1 DEF Roles
  <1>2. CASE UNCHANGED vars
    BY <1>1, <1>2 DEF vars, clusterVars
  <1>3. CASE Step
    <2>1. ASSUME NEW o, CreateObject(o) PROVE Roles'
      BY <2>1, SMTT(30) DEF Roles, CreateObject, Kinds
    <2>2. CASE uninstallRbac \/ uninstallCore
      BY <1>0, <2>2 DEF Roles, uninstallRbac, Terminate, uninstallCore, UninstallCore
    <2>3. CASE \/ createAPIServer \/ createController \/ DeleteController \/ uninstallApps
               \/ Do \/ IsRunning \/ deleteCRD \/ deleteAPIServices
               \/ Wait \/ WaitForNoStacks \/ GetCRD \/ ListStacks \/ EndOfLoop
      BY <1>1, <2>3, ZenonT(30)
         DEF createAPIServer, createController, CreateDeployment, DeleteController,
           uninstallApps, Do, IsRunning, deleteCRD, deleteAPIServices, Wait, WaitForNoStacks,
           GetCRD, ListStacks, EndOfLoop, clusterVars
    <2>4. CASE \/ DryRun \/ GetBackupCrd \/ Poll \/ createBackupCrd \/ ListBackup \/ DeleteBackup
               \/ \E s \in Stacks : orphanStack(s) \/ copyStackToBackupCrd(s) \/ restoreStack(s)
      BY <1>1, <2>4
         DEF DryRun, GetBackupCrd, Poll, createBackupCrd, ListBackup, DeleteBackup,
           orphanStack, copyStackToBackupCrd, restoreStack, clusterVars
    <2> QED BY <1>3, <2>1, <2>2, <2>3, <2>4, Heads, ZenonT(30)
  <1>4. CASE Cluster
    <2>1. ASSUME NEW o, CollectObject(o) PROVE Roles'
      BY <2>1, SMTT(30) DEF Roles, CollectObject, Kinds
    <2> QED BY <1>1, <1>4, <2>1, ZenonT(30)
         DEF Cluster, StartPod, registerAggregatedAPIs, StopPod, CollectStray,
           CollectDeployment, CollectCRD, CollectBackup, clusterVars
  <1>5. CASE (\E s \in Stacks : CreateStack(s)) \/ Interrupt \/ Fail
    BY <1>1, <1>5 DEF CreateStack, Interrupt, Fail, clusterVars
  <1>6. CASE Starts
    BY <1>1, <1>6 DEF Starts, StartInstall, StartDo, StartDebugInstall, StartUpdate, StartUninstall,
       StartUninstallAPIServer, StartRestore, StartDeleteBackup, Start, clusterVars
  <1> QED BY <1>2, <1>3, <1>4, <1>5, <1>6, ZenonT(30) DEF Next, Starts

\* On an emptied cluster nothing is on its way out.
LEMMA EmptiedSolid == ASSUME Emptied, Roles PROVE Solid
  BY DEF Emptied, Roles, Solid, waitForNoApps, waitForNoRbac, waitForNoCoreComponents, Objects,
         Labelled

\* install() makes all the parts; what it leaves out without the controller, it
\* makes with the controller alone.
LEMMA InstallHas ==
    ASSUME NEW i, NEW x \in Parts(i)
    PROVE  /\ Has(Install(i, TRUE, TRUE), x)
           /\ x \in Last \/ Has(Install(i, TRUE, FALSE), x)
           /\ x \in Last => Has(Install(i, FALSE, TRUE), x)
  <1> DEFINE e == IF i.etcd # None THEN <<"compose-etcd">> ELSE <<>>
             t == IF customTLSHash(i) # None THEN <<"compose-tls">> ELSE <<>>
             s == <<"compose-api", "service">>
             d == IF i.debug THEN <<"debugAPIServer">> ELSE <<>>
             f == IF i.debug THEN <<"debugController">> ELSE <<>>
             a == <<"serviceAccount", "rbac">>
             z == <<"defaultRoles">>
             n == <<>>
             c == <<"compose">>
             A == InstallAPIServer(i)
             C == InstallController(i)
  <1>1. /\ e \in Seq(Made) /\ t \in Seq(Made) /\ s \in Seq(Made) /\ d \in Seq(Made)
        /\ f \in Seq(Made) /\ a \in Seq(Made) /\ z \in Seq(Made) /\ n \in Seq(Made)
        /\ c \in Seq(Made)
    BY SMTT(30) DEF Made, Build
  <1>2. A = ((e \o t) \o s) \o d /\ C = c \o f
    BY DEF InstallAPIServer, InstallController
  <1>3. /\ Install(i, TRUE, TRUE) = ((a \o A) \o C) \o z
        /\ Install(i, TRUE, FALSE) = ((a \o A) \o n) \o z
        /\ Install(i, FALSE, TRUE) = ((a \o n) \o C) \o z
    BY DEF Install
  <1>4. Has(a, x) \/ Has(e, x) \/ Has(t, x) \/ Has(s, x) \/ Has(d, x) \/ Has(c, x) \/ Has(f, x) \/ Has(z, x)
    BY HasWritten DEF Parts
  <1>5. /\ Has(e, x) \/ Has(t, x) \/ Has(s, x) \/ Has(d, x) => x \notin Last
        /\ Has(c, x) \/ Has(f, x) => x \in Last
    BY SMTT(30) DEF Has, Last
  <1> HIDE DEF e, t, s, d, f, a, z, n, c, A, C
  <1>6. A \in Seq(Made) /\ C \in Seq(Made)
    BY <1>1, <1>2, ConcatProperties
  <1>7. /\ Has(e, x) \/ Has(t, x) \/ Has(s, x) \/ Has(d, x) => Has(A, x)
        /\ Has(c, x) \/ Has(f, x) => Has(C, x)
    <2>1. e \o t \in Seq(Made) /\ (e \o t) \o s \in Seq(Made)
      BY <1>1, ConcatProperties
    <2> QED BY <1>1, <1>2, <2>1, HasConcat
  <1>8. /\ a \o A \in Seq(Made) /\ a \o n \in Seq(Made)
        /\ (a \o A) \o C \in Seq(Made) /\ (a \o A) \o n \in Seq(Made) /\ (a \o n) \o C \in Seq(Made)
    BY <1>1, <1>6, ConcatProperties
  <1>9. /\ Has(a, x) \/ Has(A, x) \/ Has(C, x) \/ Has(z, x) => Has(Install(i, TRUE, TRUE), x)
        /\ Has(a, x) \/ Has(A, x) \/ Has(z, x) => Has(Install(i, TRUE, FALSE), x)
        /\ Has(a, x) \/ Has(C, x) \/ Has(z, x) => Has(Install(i, FALSE, TRUE), x)
    <2>1. \A u, v \in Seq(Made) : Has(u, x) \/ Has(v, x) => Has(u \o v, x)
      BY HasConcat
    <2>2. /\ Has(a, x) \/ Has(A, x) => Has(a \o A, x)
          /\ Has(a, x) => Has(a \o n, x)
      BY <1>1, <1>6, <2>1
    <2>3. /\ Has(a \o A, x) \/ Has(C, x) => Has((a \o A) \o C, x)
          /\ Has(a \o A, x) => Has((a \o A) \o n, x)
          /\ Has(a \o n, x) \/ Has(C, x) => Has((a \o n) \o C, x)
      BY <1>1, <1>6, <1>8, <2>1
    <2>4. /\ Has((a \o A) \o C, x) \/ Has(z, x) => Has(((a \o A) \o C) \o z, x)
          /\ Has((a \o A) \o n, x) \/ Has(z, x) => Has(((a \o A) \o n) \o z, x)
          /\ Has((a \o n) \o C, x) \/ Has(z, x) => Has(((a \o n) \o C) \o z, x)
      BY <1>1, <1>8, <2>1
    <2> QED BY <1>3, <2>2, <2>3, <2>4, ZenonT(30)
  <1> QED BY <1>4, <1>5, <1>7, <1>9, ZenonT(30)

\* A part that is still to be made is next, or ahead of the rest.
LEMMA Uncovered ==
    ASSUME NEW S, NEW p \in Seq(S), NEW x, Covers(p, x), Head(p) # "doControllerOnly"
    PROVE  Head(p) = x \/ Covers(Tail(p), x)
  BY HasTail DEF Covers

\* The deployments are records that can be marked for deletion, and are not.
LEMMA Fresh ==
    ASSUME NEW i
    PROVE  /\ ~Controller(i).terminating /\ ~APIServer(i).terminating
           /\ [Controller(i) EXCEPT !.terminating = FALSE] = Controller(i)
           /\ [APIServer(i) EXCEPT !.terminating = FALSE] = APIServer(i)
  <1>1. ~Controller(i).terminating /\ ~APIServer(i).terminating
    BY DEF Controller, APIServer
  <1>2. ASSUME NEW r, r = [x \in DOMAIN r |-> r[x]], "terminating" \in DOMAIN r,
               r.terminating = FALSE
        PROVE  [r EXCEPT !.terminating = FALSE] = r
    BY <1>2
  <1>3. LET c == Controller(i) IN
        c = [x \in DOMAIN c |-> c[x]] /\ "terminating" \in DOMAIN c /\ c.terminating = FALSE
    BY DEF Controller
  <1>4. LET a == APIServer(i) IN
        a = [x \in DOMAIN a |-> a[x]] /\ "terminating" \in DOMAIN a /\ a.terminating = FALSE
    BY DEF APIServer
  <1> QED BY <1>1, <1>2, <1>3, <1>4

\* While a command builds, each part stands or is still to be made, and what
\* stands stays.
LEMMA RaiseStep ==
    ASSUME NEW o \in Options, cmd.options = o, Kinds, Raising, Step, ~Abort, ~RestoreFails
    PROVE  Raising'
  <1> DEFINE i == newInstaller(o)
  <1>1. /\ installer = i /\ installer' = i
        /\ todo # <<>> /\ Head(todo) \in Raises /\ Tail(todo) \in Seq(Raises) /\ todo \in Seq(Raises)
    BY Heads, HeadTailProperties DEF installer, Raising
  <1> HIDE DEF i
  <1>2. /\ \A d \in Names : deployment[d] # None => ~deployment[d].terminating
        /\ \A n \in Objects : object[n] \in {"absent", "present"}
        /\ \A x \in Parts(i) : Covers(todo, x) \/ Stands(x, i)
    BY <1>1 DEF Raising, Solid
  <1>3. ASSUME todo' = Tail(todo), Solid', Head(todo) # "doControllerOnly",
               \A x \in Parts(i) : Stands(x, i) \/ Head(todo) = x => Stands(x, i)'
        PROVE  Raising'
    <2>1. \A x \in Parts(i) : Covers(Tail(todo), x) \/ Stands(x, i)'
      BY <1>1, <1>2, <1>3, Uncovered
    <2> QED BY <1>1, <1>3, <2>1 DEF Raising
  <1>4. \A x \in Parts(i) : x \in {"compose", "compose-api"} \cup Objects
    BY DEF Parts, Objects, Labelled, Secrets, Services
  <1>5. CASE /\ UNCHANGED <<deployment, object>> /\ Proceed
             /\ Head(todo) \in {"isRunning", "listBackup", "restore"}
    <2>1. Solid'
      BY <1>2, <1>5 DEF Solid
    <2>2. \A x \in Parts(i) : Stands(x, i) \/ Head(todo) = x => Stands(x, i)'
      BY <1>4, <1>5 DEF Stands, Objects, Labelled, Secrets, Services
    <2> QED BY <1>3, <1>5, <2>1, <2>2 DEF Proceed, Continue
  <1>6. CASE /\ Head(todo) \in {"serviceAccount", "rbac", "compose-etcd", "compose-tls",
                                "service", "debugAPIServer", "debugController", "defaultRoles"}
             /\ CreateObject(Head(todo))
    <2>1. /\ Head(todo) \in Objects /\ Head(todo) \notin Names /\ Head(todo) # "doControllerOnly"
      BY <1>6, SMTT(30) DEF Objects, Labelled, Secrets, Services, Names
    <2>2. /\ deployment' = deployment /\ todo' = Tail(todo)
          /\ \A n \in Objects : object'[n] = IF n = Head(todo) THEN "present" ELSE object[n]
      BY <1>2, <1>6, <2>1 DEF CreateObject, Proceed, Continue, Kinds
    <2>3. Solid'
      BY <1>2, <2>2 DEF Solid
    <2>4. \A x \in Parts(i) : Stands(x, i) \/ Head(todo) = x => Stands(x, i)'
      BY <1>4, <2>1, <2>2 DEF Stands, Names
    <2> QED BY <1>3, <2>1, <2>2, <2>3, <2>4, ZenonT(30)
  <1>7. ASSUME NEW d \in Names, NEW w, Head(todo) = d, CreateDeployment(d, w), ~w.terminating,
               [w EXCEPT !.terminating = FALSE] = w,
               w = IF d = "compose" THEN Controller(i) ELSE APIServer(i)
        PROVE  Raising'
    <2>1. (deployment[d] # None /\ deployment[d].terminating) = FALSE
      BY <1>2
    <2>2. /\ object' = object /\ todo' = Tail(todo)
          /\ deployment' = [deployment EXCEPT ![d] = w]
      BY <1>7, <2>1 DEF CreateDeployment, Proceed, Continue
    <2>3. \A n \in Names : deployment'[n] = IF n = d THEN w ELSE deployment[n]
      BY <2>2 DEF Kinds, Deployed
    <2>4. Solid'
      BY <1>2, <1>7, <2>2, <2>3, ZenonT(30) DEF Solid
    <2>5. \A x \in Parts(i) : Stands(x, i) \/ Head(todo) = x => Stands(x, i)'
      BY <1>4, <1>7, <2>2, <2>3 DEF Stands, Names
    <2> QED BY <1>3, <1>7, <2>2, <2>4, <2>5, ZenonT(30) DEF Names
  <1>8. CASE Head(todo) = "doControllerOnly" /\ Do
    <2> DEFINE q == Install(i, FALSE, TRUE)
    <2>1. todo' = q \o Tail(todo) /\ UNCHANGED <<deployment, object>>
      BY <1>1, <1>8 DEF Do, Continue, clusterVars
    <2>2. q \in Seq(Raises)
      BY InstallMakes, RazesRaises, SeqMonotonic
    <2>3. q \o Tail(todo) \in Seq(Raises)
      BY <1>1, <2>2, ConcatProperties
    <2>4. Solid'
      BY <1>2, <2>1 DEF Solid
    <2>5. ASSUME NEW x \in Parts(i) PROVE Covers(q \o Tail(todo), x) \/ Stands(x, i)'
      <3>1. CASE Stands(x, i)
        BY <2>1, <3>1 DEF Stands
      <3>2. CASE Has(todo, x)
        <4>1. x # "doControllerOnly"
          BY <1>4 DEF Objects, Labelled, Secrets, Services
        <4>2. Has(Tail(todo), x)
          BY <1>1, <1>8, <3>2, <4>1, HasTail, ZenonT(30)
        <4> QED BY <1>1, <2>2, <4>2, HasConcat, ZenonT(30) DEF Covers
      <3>3. CASE x \in Last
        BY <1>1, <2>2, <3>3, HasConcat, InstallHas, ZenonT(30) DEF Covers
      <3> QED BY <1>2, <3>1, <3>2, <3>3, ZenonT(30) DEF Covers
    <2> HIDE DEF q
    <2> QED BY <1>1, <2>1, <2>3, <2>4, <2>5, ZenonT(30) DEF Raising
  <1>9. CASE Head(todo) = "restore" /\ UNCHANGED <<deployment, object, todo>>
    <2>1. Solid'
      BY <1>2, <1>9 DEF Solid
    <2>2. \A x \in Parts(i) : Covers(todo, x) \/ Stands(x, i)'
      BY <1>2, <1>9 DEF Stands
    <2> QED BY <1>1, <1>9, <2>1, <2>2, ZenonT(30) DEF Raising
  <1>10. CASE Head(todo) = "isRunning" /\ IsRunning
    BY <1>5, <1>10 DEF IsRunning, clusterVars
  <1>11. CASE Head(todo) = "listBackup" /\ ListBackup
    BY <1>5, <1>11 DEF ListBackup, clusterVars
  <1>12. CASE Head(todo) = "restore" /\ EndOfLoop
    BY <1>5, <1>12 DEF EndOfLoop, clusterVars
  <1>13. CASE Head(todo) = "restore" /\ \E s \in Stacks : restoreStack(s)
    BY <1>9, <1>13 DEF restoreStack, clusterVars
  <1>14. CASE Head(todo) = "compose-api" /\ createAPIServer
    BY <1>1, <1>7, <1>14, Fresh, ZenonT(30) DEF createAPIServer, Names
  <1>15. CASE Head(todo) = "compose" /\ createController
    BY <1>1, <1>7, <1>15, Fresh, ZenonT(30) DEF createController, Names
  <1>16. \/ Head(todo) = "isRunning" /\ IsRunning
         \/ Head(todo) = "listBackup" /\ ListBackup
         \/ Head(todo) = "restore" /\ (EndOfLoop \/ \E s \in Stacks : restoreStack(s))
         \/ Head(todo) = "compose-api" /\ createAPIServer
         \/ Head(todo) = "compose" /\ createController
         \/ Head(todo) = "doControllerOnly" /\ Do
         \/ /\ Head(todo) \in {"serviceAccount", "rbac", "compose-etcd", "compose-tls",
                               "service", "debugAPIServer", "debugController", "defaultRoles"}
            /\ CreateObject(Head(todo))
    BY <1>1, Heads, SMTT(30) DEF Raises, Made, Build
  <1> QED BY <1>6, <1>8, <1>10, <1>11, <1>12, <1>13, <1>14, <1>15, <1>16, ZenonT(30)

\* newInstaller replaces the tag and keeps the other options.
LEMMA InstallerFields ==
    ASSUME NEW o \in Options
    PROVE  LET i == newInstaller(o) IN
           /\ i.serviceType = o.serviceType /\ i.debug = o.debug /\ i.etcd = o.etcd
           /\ i.network = o.network
           /\ i.controllerImage = o.controllerImage /\ i.apiServerImage = o.apiServerImage
           /\ i.tag = CASE o.debug -> Debug
                        [] ~o.debug /\ o.controllerImage # None /\ o.apiServerImage # None ->
                             tagForCustomImages(o.controllerImage, o.apiServerImage)
                        [] OTHER -> o.tag
  <1> DEFINE D == {"tag", "serviceType", "replicas", "debug", "etcd", "network",
                   "controllerImage", "apiServerImage"}
  <1>1. \A tag : DOMAIN OptionsCommon(tag) = D
    BY SMTT(30) DEF OptionsCommon
  <1>2. \A tag, debug : DOMAIN WithUnsafe(tag, debug) = D
    BY <1>1, SMTT(30) DEF WithUnsafe
  <1>3. \A tag, replicas, e, n : DOMAIN WithSafe(tag, replicas, e, n) = D
    BY <1>1, SMTT(30) DEF WithSafe
  <1>4. DOMAIN o = D
    <2>1. CASE o \in Embedded
      BY <1>1, <2>1, InstallerAssumption
    <2>2. CASE \E f \in CommandLines : o = parseOptions(f) /\ o # Failed
      <3>1. PICK f \in CommandLines : o = parseOptions(f) /\ o # Failed
        BY <2>2
      <3>2. \E e, n : o = WithSafe(f.tag, f.replicas, e, n)
        BY <3>1 DEF parseOptions
      <3> QED BY <1>3, <3>2
    <2>3. CASE \E tag \in UpdateTags, debug \in BOOLEAN : o = WithUnsafe(tag, debug)
      BY <1>2, <2>3
    <2> QED BY <2>1, <2>2, <2>3, SMTT(30) DEF Options
  <1> QED BY <1>4, SMTT(30) DEF newInstaller

\* The parts in place are what InstallComplete asks for, if what they were made
\* from cannot be told from the options of the command.
LEMMA PlacesComplete ==
    ASSUME NEW o \in Options, cmd.options = o, NEW p \in Options, InPlace(newInstaller(p)), Fits(o, p)
    PROVE  InstallComplete
  <1> DEFINE i == newInstaller(o)
             j == newInstaller(p)
  <1>1. installer = i
    BY DEF installer
  <1> HIDE DEF i, j
  <1>2. Controller(i) = Controller(j) /\ APIServer(i) = APIServer(j)
    BY DEF Fits, i, j
  <1>3. /\ deployment["compose"] = Controller(j) /\ deployment["compose-api"] = APIServer(j)
        /\ \A x \in Parts(j) \ Names : object[x] = "present"
    BY ZenonT(30) DEF InPlace, Stands, Parts, Names, j
  <1>4. APIServer(j).mounts \subseteq Parts(j) \ Names
    <2>1. APIServer(j).mounts = applyEtcdOptions(j).mounts \cup applyNetworkOptions(j)
      BY ZenonT(30) DEF APIServer
    <2>2. applyEtcdOptions(j).mounts \subseteq IF j.etcd # None THEN {"compose-etcd"} ELSE {}
      BY ZenonT(30) DEF applyEtcdOptions
    <2>3. /\ j.etcd # None => "compose-etcd" \in Parts(j) \ Names
          /\ applyNetworkOptions(j) \subseteq Parts(j) \ Names
      BY ONLY SMT DEF applyNetworkOptions, Parts, Names
    <2> QED BY <2>1, <2>2, <2>3, ZenonT(30)
  <1>5. Created \subseteq Parts(j) \ Names
    BY <1>1, SMTT(30) DEF Created, Parts, Names, Fits, i, j
  <1> QED BY <1>1, <1>2, <1>3, <1>4, <1>5, ZenonT(30) DEF InstallComplete

\* What an installation is recognised by tells what its deployments are made of.
LEMMA MatchTells ==
    ASSUME TagsTell, NEW o \in Options, NEW p \in Options, InPlace(newInstaller(p)),
           match(Status, newInstaller(o))
    PROVE  Fits(o, p)
  <1> DEFINE i == newInstaller(o)
             j == newInstaller(p)
  <1>1. deployment["compose"] = Controller(j) /\ deployment["compose-api"] = APIServer(j)
    BY DEF InPlace, Stands, Parts
  <1>2. Controller(j) # None /\ APIServer(j) # None
    BY DeploymentAssumption, ZenonT(30)
  <1>3. Controller(j).labels = <<j.tag, j.serviceType>> /\ APIServer(j).tls = customTLSHash(j)
    <2> HIDE DEF i, j
    <2>1. Controller(j).labels = <<j.tag, j.serviceType>>
      BY ZenonT(30) DEF Controller, labels
    <2>2. APIServer(j).tls = customTLSHash(j)
      BY ZenonT(30) DEF APIServer, applyCustomTLSHash
    <2> QED BY <2>1, <2>2
  <1>4. Status = [tag |-> j.tag, serviceType |-> j.serviceType, tls |-> customTLSHash(j)]
    <2> HIDE DEF i, j
    <2>1. Controller(j).labels[1] = j.tag /\ Controller(j).labels[2] = j.serviceType
      BY ONLY <1>3, SMT
    <2> QED BY <1>1, <1>2, <1>3, <2>1, ZenonT(30) DEF Status
  <1>5. /\ i.tag = j.tag /\ i.serviceType = j.serviceType /\ customTLSHash(i) = customTLSHash(j)
        /\ i.tag # Debug
    <2> HIDE DEF i, j
    <2>1. match(Status, i)
      BY DEF i
    <2>2. Status = [tag |-> i.tag, serviceType |-> i.serviceType, tls |-> customTLSHash(i)]
          /\ i.tag # Debug
      BY <2>1 DEF match
    <2> QED BY <1>4, <2>2, SMTT(30)
  <1>6. /\ i.debug = o.debug /\ j.debug = p.debug
        /\ i.controllerImage = o.controllerImage /\ i.apiServerImage = o.apiServerImage
        /\ j.controllerImage = p.controllerImage /\ j.apiServerImage = p.apiServerImage
    BY InstallerFields
  <1>7. /\ i.tag = CASE o.debug -> Debug
                     [] ~o.debug /\ o.controllerImage # None /\ o.apiServerImage # None ->
                          tagForCustomImages(o.controllerImage, o.apiServerImage)
                     [] OTHER -> o.tag
        /\ j.tag = CASE p.debug -> Debug
                     [] ~p.debug /\ p.controllerImage # None /\ p.apiServerImage # None ->
                          tagForCustomImages(p.controllerImage, p.apiServerImage)
                     [] OTHER -> p.tag
    BY InstallerFields
  <1> HIDE DEF i, j
  <1>8. ~o.debug /\ ~p.debug
    BY <1>5, <1>7
  <1>9. o.controllerImage = p.controllerImage /\ o.apiServerImage = p.apiServerImage
    <2>1. /\ o.controllerImage = None <=> o.apiServerImage = None
          /\ p.controllerImage = None <=> p.apiServerImage = None
          /\ o.tag # tagForCustomImages(p.controllerImage, p.apiServerImage)
          /\ p.tag # tagForCustomImages(o.controllerImage, o.apiServerImage)
      BY DEF TagsTell
    <2>2. CASE o.controllerImage # None /\ p.controllerImage # None
      <3>1. tagForCustomImages(o.controllerImage, o.apiServerImage)
              = tagForCustomImages(p.controllerImage, p.apiServerImage)
        BY <1>5, <1>7, <1>8, <2>1, <2>2, ZenonT(30)
      <3> QED BY <3>1, SMTT(30) DEF tagForCustomImages, sha1
    <2>3. CASE o.controllerImage = None /\ p.controllerImage = None
      BY <2>1, <2>3
    <2>4. CASE o.controllerImage # None /\ p.controllerImage = None
      BY <1>5, <1>7, <1>8, <2>1, <2>4, ZenonT(30)
    <2>5. CASE o.controllerImage = None /\ p.controllerImage # None
      BY <1>5, <1>7, <1>8, <2>1, <2>5, ZenonT(30)
    <2> QED BY <2>2, <2>3, <2>4, <2>5
  <1>10. o.etcd = p.etcd
    <2>1. /\ i.serviceType = o.serviceType /\ i.network = o.network
          /\ j.serviceType = p.serviceType /\ j.network = p.network
      BY InstallerFields DEF i, j
    <2>2. customTLSHash(o) = customTLSHash(i) /\ customTLSHash(p) = customTLSHash(j)
      BY <2>1 DEF customTLSHash
    <2> QED BY <1>5, <2>1, <2>2 DEF TagsTell, i, j
  <1>11. Controller(i) = Controller(j) /\ APIServer(i) = APIServer(j)
    <2>1. labels(i) = labels(j)
      BY <1>5 DEF labels
    <2>2. configureControllerImage(i) = configureControllerImage(j)
          /\ configureAPIServerImage(i) = configureAPIServerImage(j)
      BY <1>5, <1>6, <1>8 DEF configureControllerImage, configureAPIServerImage
    <2>3. Controller(i) = Controller(j)
      BY <1>6, <1>9, <2>1, <2>2, ZenonT(30) DEF Controller
    <2>4. i.etcd = j.etcd
      BY <1>10, InstallerFields DEF i, j
    <2>5. /\ apiLabels(i) = apiLabels(j) /\ applyCustomTLSHash(i) = applyCustomTLSHash(j)
          /\ applyEtcdOptions(i) = applyEtcdOptions(j)
          /\ applyNetworkOptions(i) = applyNetworkOptions(j)
      BY <1>5, <2>4 DEF apiLabels, applyCustomTLSHash, applyEtcdOptions, applyNetworkOptions
    <2>6. APIServer(i) = APIServer(j)
      BY <1>6, <1>9, <2>2, <2>5, ZenonT(30) DEF APIServer
    <2> QED BY <2>3, <2>6
  <1> QED BY <1>6, <1>8, <1>11 DEF Fits, i, j

\* The legacy installation is never taken for the one that is asked for.
LEMMA LegacyDiffers ==
    ASSUME TagsTell, NEW o \in Options, Legacy
    PROVE  ~match(Status, newInstaller(o))
  <1> DEFINE i == newInstaller(o)
  <1>1. Status.tag = Old
    <2>1. (<<Old, "">>)[1] = Old
      OBVIOUS
    <2>2. Status.tag = deployment["compose"].labels[1]
      BY DEF Status, Legacy
    <2> QED BY <2>1, <2>2 DEF Legacy
  <1>2. i.tag \in {Debug, o.tag, tagForCustomImages(o.controllerImage, o.apiServerImage)}
    BY InstallerFields
  <1>3. Old \notin {o.tag, tagForCustomImages(o.controllerImage, o.apiServerImage)}
    BY DEF TagsTell
  <1> HIDE DEF i
  <1>4. match(Status, i) => Status.tag = i.tag /\ i.tag # Debug
    <2> SUFFICES ASSUME match(Status, i) PROVE Status.tag = i.tag /\ i.tag # Debug
      OBVIOUS
    <2>1. Status = [tag |-> i.tag, serviceType |-> i.serviceType, tls |-> customTLSHash(i)]
          /\ i.tag # Debug
      BY DEF match
    <2> QED BY <2>1, SMTT(30)
  <1> QED BY <1>1, <1>2, <1>3, <1>4 DEF i

\* What stands and is not on its way out.
Stays ==
    /\ \A d \in Names :
         deployment[d] # None /\ ~deployment[d].terminating => deployment'[d] = deployment[d]
    /\ \A o \in Objects : object[o] = "present" => object'[o] = "present"

\* What stands stays when nothing marked or replaced it.
LEMMA PlacesStay ==
    ASSUME Stays, NEW o \in Options, NEW x \in Parts(newInstaller(o)), Stands(x, newInstaller(o))
    PROVE  Stands(x, newInstaller(o))'
  <1> DEFINE i == newInstaller(o)
  <1>1. Controller(i) # None /\ APIServer(i) # None
    BY DeploymentAssumption
  <1>2. x \in {"compose", "compose-api"} \cup Objects
    BY DEF Parts, Objects, Labelled, Secrets, Services
  <1>3. x \in Objects => x # "compose" /\ x # "compose-api"
    BY SMTT(30) DEF Objects, Labelled, Secrets, Services
  <1>4. ~Controller(i).terminating /\ ~APIServer(i).terminating
    BY Fresh
  <1> HIDE DEF i
  <1>5. Stands(x, i)
    BY DEF i
  <1>6. Stands(x, i)'
    BY <1>1, <1>2, <1>3, <1>4, <1>5, ZenonT(30) DEF Stays, Stands, Names
  <1> QED BY <1>6 DEF i

\* What is in place stays so when nothing marked or replaced it.
LEMMA InPlaceStays ==
    ASSUME Stays, NEW o \in Options, InPlace(newInstaller(o))
    PROVE  InPlace(newInstaller(o))'
  <1>1. \A x \in Parts(newInstaller(o)) : Stands(x, newInstaller(o))'
    BY PlacesStay DEF InPlace
  <1> QED BY <1>1 DEF InPlace

\* What a command finds is kept by the cluster.
LEMMA IntactStays == ASSUME Removes, Stays, Intact PROVE Intact'
  <1>1. CASE Emptied
    BY <1>1, GoneStaysGone DEF Emptied, Intact
  <1>2. CASE Legacy
    BY <1>2 DEF Legacy, Intact, Stays, Names
  <1>3. CASE \E o \in Options : InPlace(newInstaller(o))
    BY <1>3, InPlaceStays DEF Intact
  <1> QED BY <1>1, <1>2, <1>3 DEF Intact

\* Beside the command, the cluster only ends what was on its way out.
LEMMA BesideStays ==
    ASSUME Kinds, Cluster \/ (\E s \in Stacks : CreateStack(s)) \/ UNCHANGED vars
    PROVE  Stays /\ UNCHANGED undisturbed
  <1>1. ASSUME UNCHANGED <<deployment, object>> PROVE Stays
    BY <1>1 DEF Stays
  <1>2. CASE UNCHANGED vars
    BY <1>1, <1>2 DEF vars, clusterVars
  <1>3. CASE \E s \in Stacks : CreateStack(s)
    BY <1>1, <1>3 DEF CreateStack, clusterVars
  <1>4. CASE StartPod \/ registerAggregatedAPIs \/ StopPod \/ CollectStray \/ CollectCRD \/ CollectBackup
    BY <1>1, <1>4 DEF StartPod, registerAggregatedAPIs, StopPod, CollectStray, CollectCRD,
                      CollectBackup, clusterVars
  <1>5. ASSUME NEW d \in Names, CollectDeployment(d)
        PROVE  Stays /\ UNCHANGED undisturbed
    BY <1>5 DEF CollectDeployment, Stays, Kinds, Deployed
  <1>6. ASSUME NEW o \in Objects, CollectObject(o)
        PROVE  Stays /\ UNCHANGED undisturbed
    BY <1>6 DEF CollectObject, Stays, Kinds
  <1> QED BY <1>2, <1>3, <1>4, <1>5, <1>6, ZenonT(30) DEF Cluster

\* Nothing the cluster does beside the command undoes what it has done.
LEMMA WholeBeside ==
    ASSUME Kinds, Asked, Whole, Cluster \/ (\E s \in Stacks : CreateStack(s)) \/ UNCHANGED vars
    PROVE  Whole'
  <1>1. Removes /\ Stays /\ cmd' = cmd /\ todo' = todo /\ result' = result /\ undisturbed' = undisturbed
    BY BesideRemoves, BesideStays
  <1>2. Intact => Intact'
    BY <1>1, IntactStays
  <1>3. Installed => Installed'
    BY <1>1, InPlaceStays DEF Installed
  <1>4. Keeping => Keeping'
    BY <1>1, <1>2 DEF Keeping
  <1>5. ASSUME NEW t, Clears(t) PROVE Clears(t)'
    <2>1. /\ Has(t, "waitForNoApps") \/ waitForNoApps'
          /\ Has(t, "waitForNoRbac") \/ waitForNoRbac'
          /\ Has(t, "waitForNoCoreComponents") \/ waitForNoCoreComponents'
      BY <1>1, <1>5, StillClears
    <2> QED BY <2>1 DEF Clears
  <1>6. Demolishing => Demolishing'
    BY <1>1, <1>5 DEF Demolishing
  <1>7. ASSUME Installing, todo # <<>> PROVE Installing'
    <2>1. PICK o \in Options : cmd.options = o
      BY <1>7 DEF Installing, Asked
    <2>2. installer = newInstaller(o) /\ installer' = newInstaller(o)
      BY <1>1, <2>1 DEF installer
    <2>3. CASE todo = <<"do">> /\ Intact
      BY <1>1, <1>2, <1>7, <2>3, ZenonT(30) DEF Installing
    <2>4. CASE Razing
      BY <1>1, <1>5, <1>7, <2>2, <2>4, ZenonT(30) DEF Installing, Razing
    <2>5. CASE Raising
      <3>1. Solid'
        BY <1>1, <2>5 DEF Raising, Solid, Removes, Stays
      <3>2. \A x \in Parts(newInstaller(o)) : Stands(x, newInstaller(o)) => Stands(x, newInstaller(o))'
        BY <1>1, PlacesStay
      <3> QED BY <1>1, <1>7, <2>2, <2>5, <3>1, <3>2, ZenonT(30) DEF Installing, Raising
    <2> QED BY <1>7, <2>3, <2>4, <2>5 DEF Installing
  <1> QED BY <1>1, <1>2, <1>3, <1>4, <1>6, <1>7, ZenonT(30) DEF Whole

\* The part that clears is followed, once it is done, by the part that builds.
LEMMA RazingStep ==
    ASSUME NEW o \in Options, cmd.options = o, Kinds, Roles, Razing, Step, ~Abort, ~RestoreFails
    PROVE  Razing' \/ Raising'
  <1> DEFINE i == newInstaller(o)
             S == Early \cup Late
  <1>1. installer = i /\ installer' = i
    BY Heads DEF installer
  <1> HIDE DEF i
  <1>2. PICK t \in Seq(Razes), b \in Seq(S) :
          /\ todo = t \o b /\ Clears(t) /\ b # <<>>
          /\ b = Replace \/ (b \in Seq(Raises) /\ \A x \in Parts(i) : Covers(b, x))
    BY <1>1 DEF Razing
  <1>3. CASE t # <<>>
    <2>1. PICK s \in Seq(Razes) : /\ todo' = s \o b
                                  /\ Has(s, "waitForNoApps") \/ waitForNoApps'
                                  /\ Has(s, "waitForNoRbac") \/ waitForNoRbac'
                                  /\ Has(s, "waitForNoCoreComponents") \/ waitForNoCoreComponents'
      BY <1>2, <1>3, RazeProgram
    <2>2. Clears(s)'
      BY <2>1 DEF Clears
    <2>3. Razing'
      BY <1>1, <1>2, <2>1, <2>2, ZenonT(30) DEF Razing
    <2> QED BY <2>3
  <1>4. CASE t = <<>>
    <2>1. todo = b
      BY <1>2, <1>4, ConcatEmptySeq
    <2>2. Emptied
      <3>1. \A x : ~Has(<<>>, x)
        BY SMTT(30) DEF Has
      <3> QED BY <1>2, <1>4, <3>1 DEF Clears, Emptied
    <2>3. Solid
      BY <2>2, EmptiedSolid
    <2>4. CASE b = Replace
      <3> DEFINE q == Install(i, TRUE, FALSE)
      <3>1. Head(todo) = "doWithoutController" /\ Tail(todo) = Rest
        BY <2>1, <2>4, StepNames, ZenonT(30)
      <3>2. Do
        BY <3>1, Heads, SMTT(30)
      <3>3. ~IsInstalled
        BY <2>2 DEF Emptied, waitForNoApps, IsInstalled
      <3>4. todo' = q \o Rest /\ UNCHANGED <<deployment, object>>
        BY <1>1, <3>1, <3>2, <3>3, ZenonT(30) DEF Do, Continue, clusterVars
      <3>5. q \in Seq(Raises) /\ Rest \in Seq(Raises)
        BY InstallMakes, RazesRaises, SeqMonotonic, ZenonT(30)
      <3>6. Has(Rest, "doControllerOnly")
        <4>1. Len(Rest) = 4 /\ Rest[4] = "doControllerOnly"
          BY SMTT(30) DEF Rest
        <4> QED BY <4>1, SMTT(30) DEF Has
      <3>7. \A x \in Parts(i) : Covers(q \o Rest, x)
        <4>1. Has(q \o Rest, "doControllerOnly")
          BY <3>5, <3>6, HasConcat
        <4>2. \A x \in Parts(i) : x \in Last \/ Has(q \o Rest, x)
          BY <3>5, HasConcat, InstallHas
        <4> QED BY <4>1, <4>2 DEF Covers
      <3>8. q \o Rest \in Seq(Raises)
        BY <3>5, ConcatProperties
      <3>9. Solid'
        BY <2>3, <3>4 DEF Solid
      <3> HIDE DEF q
      <3>10. Raising'
        BY <1>1, <3>4, <3>7, <3>8, <3>9, ZenonT(30) DEF Raising
      <3> QED BY <3>10
    <2>5. CASE b \in Seq(Raises) /\ \A x \in Parts(i) : Covers(b, x)
      <3>1. Raising
        BY <1>1, <2>1, <2>3, <2>5 DEF Raising
      <3>2. Raising'
        BY <3>1, RaiseStep
      <3> QED BY <3>2
    <2> QED BY <1>2, <2>4, <2>5
  <1> QED BY <1>3, <1>4

\* Do builds on an empty cluster, keeps the installation it recognises and
\* clears what it finds otherwise.
LEMMA ReadyStep ==
    ASSUME TagsTell, NEW o \in Options, cmd.options = o, Kinds, Roles, todo = <<"do">>, Intact,
           Step, ~Abort
    PROVE  \/ Razing' \/ Raising'
           \/ todo' = <<>> /\ Intact' /\ \E p \in Options : InPlace(newInstaller(p))' /\ Fits(o, p)
  <1> DEFINE i == newInstaller(o)
             q == Install(i, TRUE, TRUE)
             u == Uninstall(FALSE) \o WaitForUninstallCompletion(FALSE)
             S == Early \cup Late
  <1>1. /\ installer = i /\ installer' = i
        /\ Head(todo) = "do" /\ Tail(todo) = <<>>
    BY Heads, SMTT(30) DEF installer
  <1>2. Do
    BY <1>1, Heads, SMTT(30)
  <1> HIDE DEF i
  <1>3. UNCHANGED <<deployment, object>>
    BY <1>2 DEF Do, clusterVars
  <1>4. q \in Seq(Raises) /\ q \in Seq(S) /\ u \in Seq(Razes) /\ u \in Seq(S)
        /\ \A z \in Waited : Has(u, z)
    BY InstallMakes, RazesRaises, ClearingPrograms, SeqMonotonic, ZenonT(30)
  <1>5. \A x \in Parts(i) : Has(q, x)
    BY InstallHas
  <1>6. q # <<>>
    BY <1>4, <1>5, HasTail DEF Parts
  <1>7. /\ ~IsInstalled => todo' = q \o <<>>
        /\ IsInstalled /\ match(Status, i) => todo' = <<>> \o <<>>
        /\ IsInstalled /\ ~match(Status, i) => todo' = (u \o q) \o <<>>
    BY <1>1, <1>2 DEF Do, Continue
  <1> HIDE DEF q, u
  <1>8. CASE ~IsInstalled
    <2>1. todo' = q
      BY <1>4, <1>7, <1>8, ConcatEmptySeq, ZenonT(30)
    <2>2. Emptied
      <3>1. \A d \in Names : deployment[d] = None
        BY <1>8 DEF IsInstalled
      <3>2. ~Legacy
        BY <3>1 DEF Legacy, Names
      <3>3. ASSUME NEW p \in Options, InPlace(newInstaller(p)) PROVE FALSE
        BY <3>1, <3>3, DeploymentAssumption DEF InPlace, Stands, Parts, Names
      <3> QED BY <3>2, <3>3 DEF Intact
    <2>3. Solid'
      BY <1>3, <2>2, EmptiedSolid DEF Solid
    <2>4. Raising'
      BY <1>1, <1>4, <1>5, <2>1, <2>3, ZenonT(30) DEF Raising, Covers
    <2> QED BY <2>4
  <1>9. CASE IsInstalled /\ match(Status, i)
    <2>1. todo' = <<>>
      BY <1>7, <1>9, SMTT(30)
    <2>2. ~Legacy
      BY <1>9, LegacyDiffers DEF i
    <2>3. ~Emptied
      BY <1>9 DEF IsInstalled, Emptied, waitForNoApps
    <2>4. PICK p \in Options : InPlace(newInstaller(p))
      BY <2>2, <2>3 DEF Intact
    <2>5. Fits(o, p)
      BY <1>9, <2>4, MatchTells DEF i
    <2>6. InPlace(newInstaller(p))'
      BY <1>3, <2>4 DEF InPlace, Stands
    <2>7. Intact'
      BY <2>6 DEF Intact
    <2> QED BY <2>1, <2>5, <2>6, <2>7, ZenonT(30)
  <1>10. CASE IsInstalled /\ ~match(Status, i)
    <2>1. todo' = u \o q
      <3>1. u \o q \in Seq(S)
        BY <1>4, ConcatProperties
      <3> QED BY <1>7, <1>10, <3>1, ConcatEmptySeq
    <2>2. Clears(u)'
      BY <1>4 DEF Clears, Waited
    <2>3. Razing'
      BY <1>1, <1>4, <1>5, <1>6, <2>1, <2>2, ZenonT(30) DEF Razing, Covers
    <2> QED BY <2>3
  <1> QED BY <1>8, <1>9, <1>10, ZenonT(30)

\* A command that installs has the options of a program that may call Do.
LEMMA AskedStep == ASSUME Asked, [Next]_vars PROVE Asked'
  <1>1. ASSUME todo # <<>>, cmd' = cmd PROVE Asked'
    BY <1>1 DEF Asked
  <1>2. CASE Step
    BY <1>1, <1>2, Heads
  <1>3. CASE Interrupt \/ Fail
    BY <1>1, <1>3 DEF Interrupt, Fail
  <1>4. CASE Cluster \/ (\E s \in Stacks : CreateStack(s)) \/ UNCHANGED vars
    BY <1>4 DEF Asked, Cluster, StartPod, registerAggregatedAPIs, StopPod, CollectStray,
         CollectDeployment, CollectObject, CollectCRD, CollectBackup, CreateStack, vars
  <1>5. CASE Starts
    <2>1. ASSUME NEW n, NEW o, NEW p, Start(n, o, p), n \in {"install", "update"} => o \in Options
          PROVE  Asked'
      BY <2>1, SMTT(30) DEF Start, Asked
    <2>2. ASSUME NEW o \in Options, StartDo(o) PROVE Asked'
      BY <2>1, <2>2 DEF StartDo
    <2>3. ASSUME NEW f \in CommandLines, StartInstall(f) PROVE Asked'
      <3>1. CASE parseOptions(f) # Failed
        <4>1. parseOptions(f) \in Options
          BY <3>1, SMTT(30) DEF Options
        <4> QED BY <2>2, <2>3, <3>1, <4>1, ZenonT(30) DEF StartInstall
      <3>2. CASE parseOptions(f) = Failed
        BY <2>3, <3>2 DEF StartInstall, Asked
      <3> QED BY <3>1, <3>2
    <2>4. ASSUME NEW tag \in UpdateTags, NEW debug \in BOOLEAN PROVE WithUnsafe(tag, debug) \in Options
      BY SMTT(30) DEF Options
    <2>5. ASSUME NEW tag \in UpdateTags, StartDebugInstall(tag) PROVE Asked'
      BY <2>2, <2>4, <2>5 DEF StartDebugInstall
    <2>6. ASSUME NEW tag \in UpdateTags, NEW abort \in BOOLEAN, StartUpdate(tag, abort) PROVE Asked'
      BY <2>1, <2>4, <2>6 DEF StartUpdate
    <2>7. ASSUME NEW o \in Embedded, StartDo(o) PROVE Asked'
      <3>1. o \in Options
        BY SMTT(30) DEF Options
      <3> QED BY <2>2, <2>7, <3>1
    <2>8. StartUninstall \/ StartUninstallAPIServer \/ StartRestore \/ StartDeleteBackup => Asked'
      BY <2>1 DEF StartUninstall, StartUninstallAPIServer, StartRestore, StartDeleteBackup
    <2> QED BY <1>5, <2>3, <2>5, <2>6, <2>7, <2>8, ZenonT(30) DEF Starts
  <1> QED BY <1>2, <1>3, <1>4, <1>5, ZenonT(30) DEF Next, Starts

\* A command starts on what the one before it has left.
LEMMA WholeStart == ASSUME Whole, Starts PROVE Whole'
  <1>1. ASSUME NEW n, NEW o, NEW p, Start(n, o, p)
        PROVE  /\ todo = <<>> /\ todo' = p /\ cmd'.name = n /\ undisturbed' = undisturbed
               /\ Installed' /\ (Intact => Intact')
    <2>1. /\ todo = <<>> /\ todo' = p /\ undisturbed' = undisturbed /\ result' = "running"
          /\ UNCHANGED <<deployment, object>> /\ cmd' = [name |-> n, options |-> o]
      BY <1>1 DEF Start, clusterVars
    <2>2. Intact => Intact'
      BY <2>1 DEF Intact, Emptied, waitForNoApps, waitForNoRbac, waitForNoCoreComponents, Legacy,
           InPlace, Stands
    <2> QED BY <2>1, <2>2 DEF Installed
  <1>2. ASSUME NEW n, NEW o, NEW p, Start(n, o, p),
               Intact' => Keeping' \/ Demolishing' \/ Installing'
        PROVE  Whole'
    BY <1>1, <1>2 DEF Whole
  <1>3. ASSUME NEW t, \A z \in Waited : Has(t, z) PROVE Clears(t)'
    BY <1>3 DEF Clears, Waited
  <1>4. ASSUME NEW o, StartDo(o) PROVE Whole'
    <2>1. Start("install", o, <<"do">>)
      BY <1>4 DEF StartDo
    <2>2. todo' = <<"do">> /\ cmd'.name = "install"
      BY <1>1, <2>1
    <2> QED BY <1>2, <2>1, <2>2 DEF Installing
  <1>5. ASSUME NEW f \in CommandLines, StartInstall(f) PROVE Whole'
    <2>1. CASE parseOptions(f) # Failed
      BY <1>4, <1>5, <2>1 DEF StartInstall
    <2>2. CASE parseOptions(f) = Failed
      <3>1. /\ todo = <<>> /\ todo' = <<>> /\ undisturbed' = undisturbed /\ result' = "error"
            /\ UNCHANGED <<deployment, object>>
        BY <1>5, <2>2 DEF StartInstall, clusterVars
      <3>2. Intact => Intact'
        BY <3>1 DEF Intact, Emptied, waitForNoApps, waitForNoRbac, waitForNoCoreComponents, Legacy,
             InPlace, Stands
      <3> QED BY <3>1, <3>2 DEF Whole, Installed
    <2> QED BY <2>1, <2>2
  <1>6. ASSUME NEW tag, NEW abort \in BOOLEAN, StartUpdate(tag, abort) PROVE Whole'
    <2>1. Start("update", WithUnsafe(tag, FALSE), Update(abort))
      BY <1>6 DEF StartUpdate
    <2>2. todo' = Update(abort) /\ cmd'.name = "update"
      BY <1>1, <2>1
    <2>3. PICK p \in Seq(Razes) : Update(abort) = p \o Replace /\ \A z \in Waited : Has(p, z)
      BY ClearingPrograms
    <2>4. Clears(p)'
      BY <1>3, <2>3
    <2>5. Replace \in Seq(Early \cup Late) /\ Replace # <<>>
      BY StepNames
    <2>6. Razing'
      BY <2>2, <2>3, <2>4, <2>5 DEF Razing
    <2> QED BY <1>2, <2>1, <2>2, <2>6, ZenonT(30) DEF Installing
  <1>7. CASE StartUninstall
    <2> DEFINE u == Uninstall(FALSE) \o WaitForUninstallCompletion(FALSE)
    <2>1. Start("uninstall", None, u)
      BY <1>7 DEF StartUninstall
    <2>2. u \in Seq(Razes) /\ \A z \in Waited : Has(u, z)
      BY ClearingPrograms
    <2> HIDE DEF u
    <2>3. Clears(u)' /\ todo' = u /\ cmd'.name = "uninstall"
      BY <1>1, <1>3, <2>1, <2>2
    <2>4. Demolishing'
      BY <2>2, <2>3 DEF Demolishing, Clears
    <2> QED BY <1>2, <2>1, <2>4
  <1>8. CASE StartUninstallAPIServer
    <2> DEFINE u == UninstallComposeAPIServer
    <2>1. Start("uninstallAPIServer", None, u)
      BY <1>8 DEF StartUninstallAPIServer
    <2>2. u \in Seq(Razes) /\ \A z \in Waited : Has(u, z)
      BY ClearingPrograms
    <2> HIDE DEF u
    <2>3. Clears(u)' /\ todo' = u /\ cmd'.name = "uninstallAPIServer"
      BY <1>1, <1>3, <2>1, <2>2
    <2>4. Demolishing'
      BY <2>2, <2>3 DEF Demolishing, Clears
    <2> QED BY <1>2, <2>1, <2>4
  <1>9. CASE StartRestore \/ StartDeleteBackup
    <2> DEFINE K == {"listBackup", "restore", "deleteBackup"}
    <2>1. Restore \in Seq(K) /\ <<"deleteBackup">> \in Seq(K)
      BY SMTT(30) DEF Restore
    <2>2. \/ Start("restore", None, Restore)
          \/ Start("deleteBackup", None, <<"deleteBackup">>)
      BY <1>9 DEF StartRestore, StartDeleteBackup
    <2>3. todo' \in Seq(K) /\ cmd'.name \in {"restore", "deleteBackup"}
      BY <1>1, <2>1, <2>2
    <2>4. Intact' => Keeping'
      BY <2>3 DEF Keeping
    <2> QED BY <1>2, <2>2, <2>4
  <1> QED BY <1>4, <1>5, <1>6, <1>7, <1>8, <1>9, ZenonT(30) DEF Starts, StartDebugInstall

\* A step of a command that nothing disturbs, by what the command is about.
LEMMA WholeStep == ASSUME TagsTell, Kinds, Roles, Asked, Whole, Step PROVE Whole'
  <1> SUFFICES ASSUME undisturbed'
               PROVE  /\ todo' = <<>> => Intact' /\ Installed'
                      /\ todo' # <<>> => Keeping' \/ Demolishing' \/ Installing'
    BY DEF Whole
  <1>1. undisturbed /\ ~Abort /\ ~RestoreFails /\ todo # <<>> /\ cmd' = cmd
    BY Goes, Heads DEF Abort, RestoreFails, Continue
  <1>2. Keeping \/ Demolishing \/ Installing
    BY <1>1 DEF Whole
  <1>3. CASE Keeping
    <2> DEFINE K == {"listBackup", "restore", "deleteBackup"}
    <2>1. Head(todo) \in K /\ Tail(todo) \in Seq(K) /\ todo \in Seq(K)
      BY <1>1, <1>3, HeadTailProperties, ZenonT(30) DEF Keeping
    <2>2. ListBackup \/ DeleteBackup \/ EndOfLoop \/ \E s \in Stacks : restoreStack(s)
      BY <2>1, Heads, SMTT(30)
    <2>3. UNCHANGED <<deployment, object>> /\ (Proceed \/ todo' = todo)
      BY <1>1, <2>2 DEF ListBackup, DeleteBackup, EndOfLoop, restoreStack, clusterVars
    <2>4. todo' \in Seq(K)
      BY <2>1, <2>3 DEF Proceed, Continue
    <2>5. Intact'
      BY <1>3, <2>3 DEF Keeping, Intact, Emptied, waitForNoApps, waitForNoRbac,
           waitForNoCoreComponents, Legacy, InPlace, Stands
    <2> QED BY <1>1, <1>3, <2>4, <2>5 DEF Keeping, Installed
  <1>4. CASE Demolishing
    <2> DEFINE S == Early \cup Late
    <2>1. <<>> \in Seq(S)
      BY SMTT(30)
    <2>2. todo = todo \o <<>>
      BY <1>4, ConcatEmptySeq DEF Demolishing
    <2>3. PICK t \in Seq(Razes) : /\ todo' = t \o <<>>
                                  /\ Has(t, "waitForNoApps") \/ waitForNoApps'
                                  /\ Has(t, "waitForNoRbac") \/ waitForNoRbac'
                                  /\ Has(t, "waitForNoCoreComponents") \/ waitForNoCoreComponents'
      BY <1>1, <1>4, <2>1, <2>2, RazeProgram, ZenonT(30) DEF Demolishing
    <2>4. todo' = t
      BY <2>3, ConcatEmptySeq
    <2>5. Demolishing'
      BY <1>1, <1>4, <2>3, <2>4, ZenonT(30) DEF Demolishing, Clears
    <2>6. ASSUME todo' = <<>> PROVE Intact'
      <3>1. \A x : ~Has(<<>>, x)
        BY SMTT(30) DEF Has
      <3> QED BY <2>3, <2>4, <2>6, <3>1, ZenonT(30) DEF Intact, Emptied
    <2> QED BY <1>1, <1>4, <2>5, <2>6, ZenonT(30) DEF Demolishing, Installed
  <1>5. CASE Installing
    <2>1. PICK o \in Options : cmd.options = o
      BY <1>1, <1>5 DEF Installing, Asked
    <2>2. cmd'.options = o /\ cmd'.name \in {"install", "update"}
      BY <1>1, <1>5, <2>1 DEF Installing
    <2>3. \/ Razing' \/ Raising'
          \/ todo' = <<>> /\ Intact' /\ \E p \in Options : InPlace(newInstaller(p))' /\ Fits(o, p)
      BY <1>1, <1>5, <2>1, RazingStep, RaiseStep, ReadyStep, ZenonT(30) DEF Installing
    <2>4. CASE todo' # <<>>
      BY <2>2, <2>3, <2>4 DEF Installing
    <2>5. CASE todo' = <<>>
      <3>1. ~Razing'
        BY <2>5, RazesRaises, SeqMonotonic, GoesOn DEF Razing
      <3>2. ASSUME Raising' PROVE InPlace(newInstaller(o))'
        <4>1. \A x : ~Has(<<>>, x)
          BY SMTT(30) DEF Has
        <4> QED BY <2>2, <2>5, <3>2, <4>1, ZenonT(30) DEF Raising, InPlace, Covers, installer
      <3>3. Fits(o, o)
        BY DEF Fits
      <3>4. \E p \in Options : InPlace(newInstaller(p))' /\ Fits(o, p)
        BY <2>3, <3>1, <3>2, <3>3, ZenonT(30)
      <3>5. Intact'
        BY <3>4 DEF Intact
      <3>6. Installed'
        BY <2>2, <3>4 DEF Installed
      <3> QED BY <2>5, <3>5, <3>6
    <2> QED BY <2>4, <2>5
  <1> QED BY <1>2, <1>3, <1>4, <1>5, ZenonT(30)

\* Where the tags tell the installations apart, their etcd options included,
\* every command that installs, and reports no error after commands that nothing
\* has disturbed, leaves the controller, the API server it asks for with the
\* secrets it mounts, and the other objects in place: install() never builds on
\* what is on its way out, and match() keeps what it would build again (Do,
\* Update).
THEOREM InstallsAreComplete ==
    ASSUME TagsTell
    PROVE  Spec => []InstallComplete
  <1> DEFINE Inv == Kinds /\ Roles /\ Unfinished /\ Asked /\ Whole
  <1>1. Init => Inv
    <2> SUFFICES ASSUME Init PROVE Inv
      OBVIOUS
    <2>1. Kinds
      BY DEF Init, Kinds, Deployed
    <2>2. todo = <<>> /\ result = "none" /\ cmd = [name |-> "none", options |-> None]
      BY DEF Init
    <2>3. cmd.name = "none"
      BY <2>2, SMTT(30)
    <2>4. Roles
      BY DEF Init, Roles, Objects, Labelled, Secrets, Services
    <2>5. Intact
      <3>1. CASE /\ deployment = [d \in Names |-> None]
                 /\ object = [o \in Objects |-> "absent"]
        BY <3>1 DEF Intact, Emptied, waitForNoApps, waitForNoRbac, waitForNoCoreComponents,
             Objects, Labelled, Secrets, Services, Names
      <3>2. CASE deployment = [d \in Names |-> IF d = "compose" THEN LegacyController ELSE None]
        <4>1. deployment["compose"] = LegacyController
          BY <3>2 DEF Names
        <4>2. LegacyController.labels = <<Old, "">> /\ ~LegacyController.terminating
          BY DEF LegacyController
        <4>3. LegacyController # None
          BY DeploymentAssumption
        <4> QED BY <4>1, <4>2, <4>3 DEF Intact, Legacy
      <3> QED BY <3>1, <3>2 DEF Init
    <2> QED BY <2>1, <2>2, <2>3, <2>4, <2>5, ZenonT(30) DEF Unfinished, Asked, Whole, Installed
  <1>2. Inv /\ [Next]_vars => Inv'
    <2> SUFFICES ASSUME Inv, [Next]_vars PROVE Inv'
      OBVIOUS
    <2>1. Kinds' /\ Roles' /\ Unfinished' /\ Asked'
      BY KindsStep, RolesStep, UnfinishedStep, AskedStep
    <2>2. CASE Step
      BY <2>1, <2>2, WholeStep
    <2>3. CASE Cluster \/ (\E s \in Stacks : CreateStack(s)) \/ UNCHANGED vars
      BY <2>1, <2>3, WholeBeside
    <2>4. CASE Starts
      BY <2>1, <2>4, WholeStart
    <2>5. CASE Interrupt \/ Fail
      BY <2>1, <2>5 DEF Whole, Interrupt, Fail, Abort, RestoreFails
    <2> QED BY <2>2, <2>3, <2>4, <2>5 DEF Next, Starts
  <1>3. Inv => InstallComplete
    <2> SUFFICES ASSUME Inv, cmd.name \in {"install", "update"}, result = "done", undisturbed
                 PROVE  InstallComplete
      BY DEF InstallComplete
    <2>1. todo = <<>>
      BY DEF Unfinished
    <2>2. PICK o \in Options : cmd.options = o
      BY DEF Asked
    <2>3. PICK p \in Options : InPlace(newInstaller(p)) /\ Fits(o, p)
      BY <2>1, <2>2 DEF Whole, Installed
    <2> QED BY <2>2, <2>3, PlacesComplete
  <1> QED BY <1>1, <1>2, <1>3, PTL DEF Spec
=============================================================================
