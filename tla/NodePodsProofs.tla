----------------------------- MODULE NodePodsProofs -----------------------------
(***************************************************************************)
(* Theorems about NodePods, for every set of pods, datasets and rules and  *)
(* every bound.                                                            *)
(*                                                                         *)
(* TypesInv is inductive by itself.  PlacesInv says whose datasets and     *)
(* whose paths the two containers have in hand, and AnswerInv what the     *)
(* count of a check stands for: as many entries of its list, each of them  *)
(* served but for what it has skipped and what has gone since.  NodeInv is *)
(* the three together.  EarnedInv and WatchedInv are about publications,   *)
(* and are invariants given NodeInv.                                       *)
(***************************************************************************)
EXTENDS NodePods, FiniteSetTheorems, TLAPS

--------------------------------------------------------------------------------
(* Types *)

\* The pods as they are admitted, or as their authors wrote them.
Admitted ==
    {Template[p] : p \in Pods} \cup
    {Handle(Template[p], NamespaceOf[p], driver, found) :
        p \in Pods, driver \in Drivers, found \in BOOLEAN}

Entries == Pods \X (Pods \cup {None})
PodRecords ==
    [phase : {"none", "Pending", "Running", "gone"}, spec : Admitted, deleted : BOOLEAN,
     watched : BOOLEAN, path : Pods \cup {None}, condition : Conditions]
Calls ==
    [pc : {"wait", "mount", "tag", "condition", "done"}, datasets : SUBSET Datasets,
     key : Texts \cup {<<>>}, count : Nat, failed : BOOLEAN, broken : SUBSET Datasets]
KnownDatasets == UNION {[S -> SUBSET Datasets] : S \in SUBSET Namespaces}
Checks ==
    [pc : {"idle", "pods", "condition"}, key : Texts \cup {<<>>}, listed : SUBSET Entries,
     todo : SUBSET Entries, known : KnownDatasets,
     target : (Pods \cup {None}) \X (Pods \cup {None}), count : Nat, failed : BOOLEAN,
     done : Nat, since : Nat, scope : Scopes \cup {All}, broken : SUBSET (Pods \X Datasets),
     skipped : SUBSET (Pods \X Datasets)]
Budgets == [events : Nat, troubles : Nat]

\* The variables one by one.
Types ==
    /\ pods \in [Pods -> PodRecords]
    /\ disk \in [Pods -> Paths]
    /\ publish \in [Pods -> Calls]
    /\ check \in Checks
    /\ settings \in Settings
    /\ catalog \in SUBSET Datasets
    /\ spent \in Budgets

\* A call that is about to mount has a key to write.
Keyed ==
    /\ \A p \in Pods : publish[p].pc = "mount" => publish[p].key \in Texts
    /\ check.pc # "idle" => check.key \in Texts

TypesInv == Types /\ Keyed

\* A credential that can be read is one of the texts.
LEMMA KeyIsText ==
    ASSUME settings \in Settings, Readable(settings.type, settings.secret)
    PROVE  CredentialText(settings.type, settings.secret) \in Texts
  BY DEF Texts

\* Texts are sequences of the characters that files are made of.
LEMMA TextType ==
    ASSUME NEW t \in Texts
    PROVE  t \in Seq(UNION {ToSet(u) : u \in Texts}) /\ Len(t) \in Nat
  <1> DEFINE Chars == UNION {ToSet(u) : u \in Texts}
  <1>1. t \in Seq(ToSet(t)) /\ ToSet(t) \subseteq Chars
    BY NodePodsAssumption DEF NodePodsAssumption
  <1> HIDE DEF Chars
  <1>2. t \in Seq(Chars)
    BY <1>1
  <1> QED
    BY <1>2 DEF Chars

\* Whatever was in the file, writing a text into it leaves such a sequence.
LEMMA FileType ==
    ASSUME NEW S, NEW file \in Seq(S), NEW text \in Seq(S)
    PROVE  WriteFile(file, text) \in Seq(S)
  BY DEF WriteFile

\* The number of the datasets that were mounted.
LEMMA CountType ==
    ASSUME NEW S \in SUBSET Datasets
    PROVE  Cardinality(S) \in Nat
  BY FS_Subset, FS_CardinalityType, NodePodsAssumption DEF NodePodsAssumption

\* Every step spends at most what the bounds leave, and never gets it back.
LEMMA BudgetStep ==
    ASSUME spent \in Budgets, Trouble \/ Event \/ UNCHANGED spent
    PROVE  /\ spent' \in Budgets
           /\ spent'.troubles >= spent.troubles
           /\ Trouble => spent'.troubles # 0
  BY DEF Budgets, Trouble, Event

\* What mounting does to the paths of the node: one of them gets the datasets of
\* "todo", mounted but for those that fail.
OneFilled(path, todo, failing) ==
    /\ \A p \in Pods \ {path} : disk'[p] = disk[p]
    /\ disk'[path].there = disk[path].there
    /\ disk'[path].folders = disk[path].folders \cup todo
    /\ disk'[path].mounts = (disk[path].mounts \cup todo) \ failing

LEMMA MountedType ==
    ASSUME disk \in [Pods -> Paths], NEW path \in Pods, NEW todo \in SUBSET Datasets,
           NEW key \in Texts, NEW failing, disk' = Mounted(path, todo, key, failing)
    PROVE  disk' \in [Pods -> Paths] /\ OneFilled(path, todo, failing)
  <1> DEFINE Chars == UNION {ToSet(u) : u \in Texts}
             Lengths == {0} \cup {Len(t) : t \in Texts}
             old == disk[path]
             new == [old EXCEPT !.file = WriteFile(@, key),
                                !.longest = IF Len(key) > @ THEN Len(key) ELSE @,
                                !.folders = @ \cup todo,
                                !.mounts = (@ \cup todo) \ failing]
  <1>1. key \in Seq(Chars) /\ Len(key) \in Lengths
    BY TextType
  <1>2. WriteFile(disk[path].file, key) \in Seq(Chars)
    BY <1>1, FileType DEF Paths
  <1> HIDE DEF Chars, Lengths
  <1>3. Paths = [there : BOOLEAN, folders : SUBSET Datasets, mounts : SUBSET Datasets,
                 file : Seq(Chars), longest : Lengths]
    BY DEF Paths, Chars, Lengths
  <1>4. old \in Paths
    OBVIOUS
  <1>5. new \in Paths
    BY <1>1, <1>2, <1>3, <1>4
  <1>6. /\ new.there = old.there
        /\ new.folders = old.folders \cup todo
        /\ new.mounts = (old.mounts \cup todo) \ failing
    BY <1>3, <1>4
  <1>7. disk' = [disk EXCEPT ![path] = new]
    BY <1>3, <1>4 DEF Mounted
  <1> HIDE DEF new
  <1> QED
    BY <1>5, <1>6, <1>7 DEF OneFilled

--------------------------------------------------------------------------------
(* Types are preserved, action by action *)

LEMMA IdleType == Idle \in Checks /\ Idle.pc = "idle"
  <1>1. <<>> \in [{} -> SUBSET Datasets]
    OBVIOUS
  <1>2. <<>> \in KnownDatasets
    BY <1>1 DEF KnownDatasets
  <1> QED
    BY <1>2 DEF Idle, Checks, Entries

LEMMA WaitingType == Waiting \in Calls /\ Waiting.pc = "wait"
  BY DEF Waiting, Calls

LEMMA NoPathType == NoPath \in Paths
  <1> DEFINE Chars == UNION {ToSet(u) : u \in Texts}
             Lengths == {0} \cup {Len(t) : t \in Texts}
  <1>1. 0 \in Lengths /\ <<>> \in Seq(Chars)
    OBVIOUS
  <1> HIDE DEF Chars, Lengths
  <1>2. Paths = [there : BOOLEAN, folders : SUBSET Datasets, mounts : SUBSET Datasets,
                 file : Seq(Chars), longest : Lengths]
    BY DEF Paths, Chars, Lengths
  <1> QED
    BY <1>1, <1>2 DEF NoPath

LEMMA SelectedType ==
    ASSUME NEW p, NEW ds
    PROVE  Selected(p, ds) \subseteq ds
  BY DEF Selected

\* BeginPublish: the call goes on to mount, with the datasets and the key, or straight
\* to the tag with an error, or it ends for want of a client.
LEMMA BeginPublishCases ==
    ASSUME TypesInv, NEW p \in Pods, BeginPublish(p)
    PROVE  \E call \in Calls :
              /\ publish' = [publish EXCEPT ![p] = call]
              /\ call.datasets \subseteq InNamespace(NamespaceOf[p])
              /\ call.pc \in {"mount", "tag", "done"}
              /\ call.pc = "mount" => call.key \in Texts
              /\ call.pc = "tag" => call.failed
              /\ call.pc = "done" => Trouble
  <1> DEFINE key == CredentialText(settings.type, settings.secret)
             mounting == [Waiting EXCEPT !.pc = "mount",
                             !.datasets = InNamespace(NamespaceOf[p]), !.key = key]
             tagging == [Waiting EXCEPT !.pc = "tag", !.failed = TRUE]
             ended == [Waiting EXCEPT !.pc = "done"]
  <1>1. Readable(settings.type, settings.secret) => key \in Texts
    BY KeyIsText DEF TypesInv, Types
  <1>2. InNamespace(NamespaceOf[p]) \in SUBSET Datasets
    BY DEF InNamespace, TypesInv, Types
  <1> HIDE DEF key
  <1>3. Readable(settings.type, settings.secret) =>
            /\ mounting \in Calls /\ mounting.pc = "mount" /\ mounting.key \in Texts
            /\ mounting.datasets = InNamespace(NamespaceOf[p])
    BY <1>1, <1>2, WaitingType DEF Calls
  <1>4. /\ tagging \in Calls /\ tagging.pc = "tag" /\ tagging.failed = TRUE
        /\ ended \in Calls /\ ended.pc = "done"
        /\ tagging.datasets = {} /\ ended.datasets = {}
    BY WaitingType DEF Calls, Waiting
  <1> HIDE DEF mounting, tagging, ended
  <1>5. \/ /\ Readable(settings.type, settings.secret)
           /\ publish' = [publish EXCEPT ![p] = mounting]
        \/ publish' = [publish EXCEPT ![p] = tagging]
        \/ publish' = [publish EXCEPT ![p] = ended] /\ Trouble
    BY DEF BeginPublish, mounting, tagging, ended, key
  <1> QED
    BY <1>3, <1>4, <1>5

LEMMA TypesBeginPublish ==
    ASSUME TypesInv, NEW p \in Pods, BeginPublish(p)
    PROVE  TypesInv'
  <1>1. PICK call \in Calls :
            /\ publish' = [publish EXCEPT ![p] = call]
            /\ call.pc = "mount" => call.key \in Texts
    BY BeginPublishCases
  <1>2. publish' \in [Pods -> Calls]
        /\ \A q \in Pods : publish'[q].pc = "mount" => publish'[q].key \in Texts
    BY <1>1 DEF TypesInv, Types, Keyed
  <1>3. disk' = [disk EXCEPT ![p].there = TRUE]
    BY DEF BeginPublish
  <1>4. [disk[p] EXCEPT !.there = TRUE] \in Paths
    BY DEF TypesInv, Types, Paths
  <1>5. disk' \in [Pods -> Paths]
    BY <1>3, <1>4 DEF TypesInv, Types
  <1>6. /\ UNCHANGED <<pods, check, settings, catalog>>
        /\ Trouble \/ UNCHANGED spent
    BY DEF BeginPublish
  <1>7. spent' \in Budgets
    BY <1>6, BudgetStep DEF TypesInv, Types
  <1> QED
    BY <1>2, <1>5, <1>6, <1>7 DEF TypesInv, Types, Keyed

\* What becomes of the call when the datasets are dealt with.
LEMMA CallMounted ==
    ASSUME TypesInv, NEW p \in Pods, NEW count \in Nat, NEW failed \in BOOLEAN
    PROVE  LET new == [publish[p] EXCEPT !.pc = "tag", !.key = <<>>, !.count = count,
                                         !.failed = failed]
           IN /\ new \in Calls /\ new.pc = "tag" /\ new.failed = failed
              /\ new.datasets = publish[p].datasets /\ new.broken = publish[p].broken
  <1>1. publish[p] \in Calls
    BY DEF TypesInv, Types
  <1> QED
    BY <1>1 DEF Calls

\* MountDatasets: the call goes on to the tag, and the datasets that were selected
\* are mounted but for those that fail, which the call then tells.
LEMMA MountDatasetsCases ==
    ASSUME NEW p \in Pods, TypesInv, MountDatasets(p)
    PROVE  \E count \in Nat, failed \in BOOLEAN :
              /\ publish' = [publish EXCEPT ![p] =
                    [publish[p] EXCEPT !.pc = "tag", !.key = <<>>, !.count = count,
                                       !.failed = failed]]
              /\ \/ UNCHANGED disk /\ (~failed => publish[p].datasets = {})
                 \/ \E failing :
                      /\ disk' = Mounted(p, Selected(p, publish[p].datasets),
                                         publish[p].key, failing)
                      /\ ~failed => failing = {}
  <1> DEFINE ds == publish[p].datasets
             wanted == Selected(p, ds)
             After(count, failed) ==
                [publish EXCEPT ![p] = [publish[p] EXCEPT !.pc = "tag", !.key = <<>>,
                                                          !.count = count, !.failed = failed]]
  <1>0. publish[p] \in Calls /\ publish \in [Pods -> Calls]
    BY DEF TypesInv, Types
  <1>1. CASE ds = {} /\ publish' = [publish EXCEPT ![p].pc = "tag", ![p].key = <<>>]
               /\ UNCHANGED disk
    <2>1. publish' = After(publish[p].count, publish[p].failed)
      BY <1>0, <1>1 DEF Calls
    <2> QED
      BY <1>0, <1>1, <2>1 DEF Calls
  <1>2. ASSUME NEW failing,
               disk' = Mounted(p, wanted, publish[p].key, failing),
               publish' = [publish EXCEPT ![p].pc = "tag", ![p].key = <<>>,
                   ![p].count = Cardinality(wanted \ failing),
                   ![p].failed = failing # {} \/ Erroneous(p, ds) # {}]
        PROVE  \E count \in Nat, failed \in BOOLEAN :
                  publish' = After(count, failed) /\ (~failed => failing = {})
    <2> DEFINE count == Cardinality(wanted \ failing)
               failed == failing # {} \/ Erroneous(p, ds) # {}
    <2>1. wanted \ failing \in SUBSET Datasets
      BY <1>0, SelectedType DEF Calls
    <2>2. count \in Nat
      BY <2>1, CountType
    <2>3. failed \in BOOLEAN /\ (~failed => failing = {})
      OBVIOUS
    <2>4. publish' = [publish EXCEPT ![p].pc = "tag", ![p].key = <<>>,
                         ![p].count = count, ![p].failed = failed]
      BY <1>2
    <2> HIDE DEF count, failed
    <2>5. publish' = After(count, failed)
      BY <1>0, <2>4 DEF Calls
    <2> QED
      BY <2>2, <2>3, <2>5
  <1>3. CASE publish' = [publish EXCEPT ![p].pc = "tag", ![p].key = <<>>, ![p].failed = TRUE]
               /\ UNCHANGED disk
    <2>1. publish' = After(publish[p].count, TRUE)
      BY <1>0, <1>3 DEF Calls
    <2> QED
      BY <1>0, <1>3, <2>1 DEF Calls
  <1>4. CASE \E failing :
               /\ disk' = Mounted(p, wanted, publish[p].key, failing)
               /\ publish' = [publish EXCEPT ![p].pc = "tag", ![p].key = <<>>,
                      ![p].count = Cardinality(wanted \ failing),
                      ![p].failed = failing # {} \/ Erroneous(p, ds) # {}]
    BY <1>2, <1>4
  <1> QED
    BY <1>1, <1>3, <1>4 DEF MountDatasets

LEMMA TypesMountDatasets ==
    ASSUME TypesInv, NEW p \in Pods, MountDatasets(p)
    PROVE  TypesInv'
  <1>1. PICK count \in Nat, failed \in BOOLEAN :
            /\ publish' = [publish EXCEPT ![p] =
                  [publish[p] EXCEPT !.pc = "tag", !.key = <<>>, !.count = count,
                                     !.failed = failed]]
            /\ \/ UNCHANGED disk
               \/ \E failing : disk' = Mounted(p, Selected(p, publish[p].datasets),
                                               publish[p].key, failing)
    BY MountDatasetsCases
  <1>2. publish' \in [Pods -> Calls]
        /\ \A q \in Pods : publish'[q].pc = "mount" => publish'[q].key \in Texts
    BY <1>1, CallMounted DEF TypesInv, Types, Keyed
  <1>3. publish[p].key \in Texts /\ Selected(p, publish[p].datasets) \in SUBSET Datasets
    BY SelectedType DEF MountDatasets, TypesInv, Types, Keyed, Calls
  <1>4. disk' \in [Pods -> Paths]
    <2>1. disk \in [Pods -> Paths]
      BY DEF TypesInv, Types
    <2> QED
      BY <1>1, <1>3, <2>1, MountedType
  <1>5. /\ Trouble \/ UNCHANGED spent
        /\ UNCHANGED <<pods, check, settings, catalog>>
    BY DEF MountDatasets
  <1> QED
    BY <1>2, <1>4, <1>5, BudgetStep DEF TypesInv, Types, Keyed

\* The pods after the tag or a condition: those of the name are written, or none.
LEMMA WrittenByName ==
    ASSUME pods \in [Pods -> PodRecords], NEW p, NEW reason \in Conditions,
           WriteCondition(p, reason)
    PROVE  /\ pods' \in [Pods -> PodRecords]
           /\ \A q \in Pods :
                 /\ pods'[q] = [pods[q] EXCEPT !.condition = pods'[q].condition]
                 /\ pods'[q].condition \in {reason, pods[q].condition}
           /\ Trouble \/ UNCHANGED spent
  <1>1. CASE pods' = [q \in Pods |-> IF q \in Namesakes(p)
                      THEN [pods[q] EXCEPT !.condition = reason] ELSE pods[q]]
    BY <1>1 DEF PodRecords, WriteCondition
  <1>2. CASE UNCHANGED pods
    BY <1>2 DEF PodRecords, WriteCondition
  <1> QED
    BY <1>1, <1>2 DEF WriteCondition

LEMMA TypesTagPod ==
    ASSUME TypesInv, NEW p \in Pods, TagPod(p)
    PROVE  TypesInv'
  <1>1. [publish[p] EXCEPT !.pc = "condition"] \in Calls
    BY DEF TypesInv, Types, Calls
  <1>2. publish' \in [Pods -> Calls]
        /\ \A q \in Pods : publish'[q].pc = "mount" => publish'[q].key \in Texts
    BY <1>1 DEF TagPod, TypesInv, Types, Keyed, Calls
  <1>3. \A q \in Pods : [pods[q] EXCEPT !.watched = TRUE, !.path = p] \in PodRecords
    BY DEF TypesInv, Types, PodRecords
  <1>4. pods' \in [Pods -> PodRecords]
    BY <1>3 DEF TagPod, TypesInv, Types
  <1>5. Trouble \/ UNCHANGED spent
    BY DEF TagPod
  <1> QED
    BY <1>2, <1>4, <1>5, BudgetStep DEF TagPod, TypesInv, Types, Keyed

LEMMA TypesEndPublish ==
    ASSUME TypesInv, NEW p \in Pods, EndPublish(p)
    PROVE  TypesInv'
  <1> DEFINE ended == [Waiting EXCEPT !.pc = "done"]
             reason == PublishReason(publish[p].count, publish[p].failed)
  <1>1. ended \in Calls /\ ended.pc = "done"
    BY WaitingType DEF Calls
  <1>2. reason \in Conditions
    BY DEF PublishReason, Conditions
  <1> HIDE DEF ended
  <1>3. publish' = [publish EXCEPT ![p] = ended]
    BY DEF EndPublish, ended
  <1>4. publish' \in [Pods -> Calls]
        /\ \A q \in Pods : publish'[q].pc = "mount" => publish'[q].key \in Texts
    BY <1>1, <1>3 DEF TypesInv, Types, Keyed
  <1> HIDE DEF reason
  <1>5. WriteCondition(p, reason)
    BY DEF EndPublish, reason
  <1>6. pods' \in [Pods -> PodRecords] /\ (Trouble \/ UNCHANGED spent)
    BY <1>2, <1>5, WrittenByName DEF TypesInv, Types
  <1> QED
    BY <1>4, <1>6, BudgetStep DEF EndPublish, TypesInv, Types, Keyed

\* What a check may begin with.
LEMMA TypesBeginCheck ==
    ASSUME TypesInv, NEW scope \in Scopes, BeginCheck(scope)
    PROVE  TypesInv'
  <1> DEFINE list == PodsToReconcile(scope)
             key == CredentialText(settings.type, settings.secret)
             todo == {entry \in list : entry[2] # None}
             begun == [Idle EXCEPT !.pc = "pods", !.listed = list, !.scope = scope,
                          !.todo = todo, !.known = InHand(scope),
                          !.since = spent.troubles, !.key = key]
  <1>1. Readable(settings.type, settings.secret) => key \in Texts
    BY KeyIsText DEF TypesInv, Types
  <1>2. list \in SUBSET Entries /\ todo \in SUBSET Entries
    BY DEF PodsToReconcile, Entries, TypesInv, Types, PodRecords
  <1>3. InHand(scope) \in KnownDatasets
    <2>1. CASE scope = All
      BY <2>1, IdleType DEF InHand, Idle, Checks
    <2>2. CASE scope # All
      <3>1. scope \in Datasets /\ Home[scope] \in Namespaces
        BY <2>2, NodePodsAssumption DEF NodePodsAssumption
      <3>2. InHand(scope) \in [{Home[scope]} -> SUBSET Datasets]
        BY <2>2, <3>1 DEF InHand
      <3> QED
        BY <3>1, <3>2 DEF KnownDatasets
    <2> QED
      BY <2>1, <2>2
  <1>4. /\ \/ check' = begun /\ Readable(settings.type, settings.secret)
           \/ check' = check
        /\ Trouble \/ UNCHANGED spent
        /\ UNCHANGED <<pods, disk, publish, settings, catalog>>
    BY DEF BeginCheck
  <1>5. spent.troubles \in Nat
    BY DEF TypesInv, Types, Budgets
  <1> HIDE DEF list, key, todo
  <1>6. key \in Texts => begun \in Checks /\ begun.key = key
    BY <1>2, <1>3, <1>5, IdleType DEF Checks
  <1> HIDE DEF begun
  <1>7. check' \in Checks /\ (check'.pc # "idle" => check'.key \in Texts)
    BY <1>1, <1>4, <1>6 DEF TypesInv, Types, Keyed
  <1> QED
    BY <1>4, <1>7, BudgetStep DEF TypesInv, Types, Keyed

\* A check of a pod in five cases.  In the first two it learns the datasets of the
\* namespace or nothing, and the pod is not counted; in the others it has a result.
Learned(entry, ds) ==
    [check EXCEPT !.todo = @ \ {entry},
        !.known = [n \in DOMAIN @ \cup {NamespaceOf[entry[1]]} |->
                      IF n = NamespaceOf[entry[1]] THEN ds ELSE @[n]]]
WithResult(taken, entry, count, failed, skipped) ==
    [taken EXCEPT !.pc = "condition", !.target = entry, !.count = count, !.failed = failed,
                  !.skipped = @ \cup ({entry[2]} \X skipped)]
Fixing(entry, ds) == Processed(entry[1], entry[2], ds) \ disk[entry[2]].mounts

LEMMA CheckPodCases ==
    ASSUME TypesInv, NEW entry \in Pods \X Pods, CheckPod(entry)
    PROVE  LET ds == DatasetsFor(NamespaceOf[entry[1]])
               fixing == Fixing(entry, ds)
           IN \/ check' = Learned(entry, ds) /\ UNCHANGED disk
              \/ check' = [check EXCEPT !.todo = @ \ {entry}] /\ UNCHANGED disk
              \/ \E count \in Nat, failed \in BOOLEAN, skipped \in SUBSET fixing :
                    /\ check' = WithResult(Learned(entry, ds), entry, count, failed, skipped)
                    /\ \/ UNCHANGED disk /\ (failed \/ ~disk[entry[2]].there)
                       \/ \E failing \in SUBSET (fixing \ skipped) :
                             /\ disk' = Mounted(entry[2], fixing \ skipped, check.key, failing)
                             /\ disk[entry[2]].there
                             /\ ~failed => failing = {}
  <1> DEFINE p == entry[1]  path == entry[2]
             ds == DatasetsFor(NamespaceOf[p])
             fixing == Fixing(entry, ds)
             taken == Learned(entry, ds)
             Ends(count, failed, skipped) ==
                check' = WithResult(taken, entry, count, failed, skipped)
             Repairs(skipped, failing) ==
                /\ disk' = Mounted(path, fixing \ skipped, check.key, failing)
                /\ Ends(Cardinality((fixing \ skipped) \ failing),
                        failing # {} \/ Erroneous(p, ds \ disk[path].folders) # {}, skipped)
             Repaired == \E skipped \in SUBSET fixing :
                            \E failing \in SUBSET (fixing \ skipped) : Repairs(skipped, failing)
  <1>1. ds \in SUBSET Datasets
    BY DEF DatasetsFor, InNamespace, TypesInv, Types, Checks, KnownDatasets
  <1>2. \A skipped, failing : (fixing \ skipped) \ failing \in SUBSET Datasets
    BY <1>1, SelectedType DEF Fixing, Processed
  <1>3. ASSUME NEW skipped \in SUBSET fixing, NEW failing \in SUBSET (fixing \ skipped),
               disk[path].there, Repairs(skipped, failing)
        PROVE  \E count \in Nat, failed \in BOOLEAN :
                   Ends(count, failed, skipped) /\ (~failed => failing = {})
    <2> DEFINE count == Cardinality((fixing \ skipped) \ failing)
               failed == failing # {} \/ Erroneous(p, ds \ disk[path].folders) # {}
    <2>1. count \in Nat
      BY <1>2, CountType
    <2>2. failed \in BOOLEAN /\ (~failed => failing = {})
      OBVIOUS
    <2>3. Ends(count, failed, skipped)
      BY <1>3
    <2> HIDE DEF count, failed, Ends
    <2> QED
      BY <2>1, <2>2, <2>3
  <1>4. \/ check' = taken /\ UNCHANGED disk
        \/ check' = [check EXCEPT !.todo = @ \ {entry}] /\ UNCHANGED disk
        \/ Ends(0, FALSE, {}) /\ UNCHANGED disk /\ ~disk[path].there
        \/ disk[path].there /\ Repaired
        \/ Ends(0, TRUE, {}) /\ UNCHANGED disk
    <2> DEFINE Failing(skipped, failures) ==
                  (failures \ skipped) \cup Refused(path, fixing \ skipped, check.key)
    <2>1. \/ check' = taken /\ UNCHANGED disk
          \/ check' = [check EXCEPT !.todo = @ \ {entry}] /\ UNCHANGED disk
          \/ Ends(0, FALSE, {}) /\ UNCHANGED disk /\ ~disk[path].there
          \/ disk[path].there /\ Repairs({}, Failing({}, {}))
          \/ /\ disk[path].there
             /\ \E skipped \in SUBSET (fixing \cap disk[path].folders),
                   failures \in SUBSET fixing : Repairs(skipped, Failing(skipped, failures))
          \/ Ends(0, TRUE, {}) /\ UNCHANGED disk
      BY DEF CheckPod, PathExists, Learned, WithResult, Fixing
    <2>2. \A skipped, failures \in SUBSET fixing :
              Failing(skipped, failures) \in SUBSET (fixing \ skipped)
      BY DEF Refused
    <2>3. {} \in SUBSET fixing
      OBVIOUS
    <2> HIDE DEF Failing, fixing, Ends, Repairs
    <2> QED
      BY <2>1, <2>2, <2>3
  <1> HIDE DEF taken, fixing, ds
  <1>5. CASE disk[path].there /\ Repaired
    <2>1. PICK skipped \in SUBSET fixing :
              \E failing \in SUBSET (fixing \ skipped) : Repairs(skipped, failing)
      BY <1>5
    <2>2. PICK failing \in SUBSET (fixing \ skipped) : Repairs(skipped, failing)
      BY <2>1
    <2>3. PICK count \in Nat, failed \in BOOLEAN :
              Ends(count, failed, skipped) /\ (~failed => failing = {})
      BY <1>3, <1>5, <2>2
    <2> QED
      BY <1>5, <2>2, <2>3 DEF taken, fixing, ds
  <1>6. {} \in SUBSET fixing
    OBVIOUS
  <1> QED
    BY <1>4, <1>5, <1>6 DEF taken, fixing, ds

LEMMA LearnedType ==
    ASSUME TypesInv, NEW entry \in Entries, NEW ds \in SUBSET Datasets
    PROVE  LET taken == Learned(entry, ds)
               ns == NamespaceOf[entry[1]]
           IN /\ taken \in Checks
              /\ taken.todo = check.todo \ {entry}
              /\ DOMAIN taken.known = DOMAIN check.known \cup {ns}
              /\ taken.known[ns] = ds
              /\ \A n \in DOMAIN check.known \ {ns} : taken.known[n] = check.known[n]
              /\ taken.pc = check.pc /\ taken.listed = check.listed /\ taken.key = check.key
              /\ taken.done = check.done /\ taken.broken = check.broken
              /\ taken.target = check.target /\ taken.failed = check.failed
              /\ taken.skipped = check.skipped
  <1> DEFINE ns == NamespaceOf[entry[1]]
             known == [n \in DOMAIN check.known \cup {ns} |->
                          IF n = ns THEN ds ELSE check.known[n]]
  <1>1. check \in Checks
    BY DEF TypesInv, Types
  <1>2. ns \in Namespaces
    BY DEF Entries, Namespaces
  <1>3. PICK S \in SUBSET Namespaces : check.known \in [S -> SUBSET Datasets]
    BY <1>1 DEF Checks, KnownDatasets
  <1> HIDE DEF ns
  <1>4. known \in [S \cup {ns} -> SUBSET Datasets] /\ S \cup {ns} \in SUBSET Namespaces
    BY <1>2, <1>3
  <1>5. known \in KnownDatasets
    BY <1>4 DEF KnownDatasets
  <1>6. /\ DOMAIN known = DOMAIN check.known \cup {ns}
        /\ known[ns] = ds
        /\ \A n \in DOMAIN check.known \ {ns} : known[n] = check.known[n]
    OBVIOUS
  <1>7. Learned(entry, ds) = [check EXCEPT !.todo = check.todo \ {entry}, !.known = known]
    BY <1>1 DEF Learned, Checks, ns
  <1> HIDE DEF known
  <1> DEFINE taken == [check EXCEPT !.todo = check.todo \ {entry}, !.known = known]
  <1>8. taken \in Checks
    BY <1>1, <1>5 DEF Checks
  <1>9. /\ taken.todo = check.todo \ {entry} /\ taken.known = known
        /\ taken.pc = check.pc /\ taken.listed = check.listed /\ taken.key = check.key
        /\ taken.done = check.done /\ taken.broken = check.broken
        /\ taken.target = check.target /\ taken.failed = check.failed
        /\ taken.skipped = check.skipped
    BY <1>1 DEF Checks
  <1> QED
    BY <1>6, <1>7, <1>8, <1>9 DEF ns

LEMMA ResultType ==
    ASSUME NEW taken \in Checks, NEW entry \in Pods \X Pods, NEW count \in Nat,
           NEW failed \in BOOLEAN, NEW skipped \in SUBSET Datasets
    PROVE  LET new == WithResult(taken, entry, count, failed, skipped)
           IN /\ new \in Checks
              /\ new.pc = "condition" /\ new.target = entry /\ new.failed = failed
              /\ new.todo = taken.todo /\ new.known = taken.known /\ new.listed = taken.listed
              /\ new.key = taken.key /\ new.done = taken.done /\ new.broken = taken.broken
              /\ new.skipped = taken.skipped \cup ({entry[2]} \X skipped)
  <1> DEFINE more == taken.skipped \cup ({entry[2]} \X skipped)
  <1>1. more \in SUBSET (Pods \X Datasets)
    BY DEF Checks
  <1>2. WithResult(taken, entry, count, failed, skipped) =
            [taken EXCEPT !.pc = "condition", !.target = entry, !.count = count,
                          !.failed = failed, !.skipped = more]
    BY DEF WithResult, Checks
  <1> HIDE DEF more
  <1>3. entry \in (Pods \cup {None}) \X (Pods \cup {None})
    OBVIOUS
  <1> DEFINE new == [taken EXCEPT !.pc = "condition", !.target = entry, !.count = count,
                                  !.failed = failed, !.skipped = more]
  <1>4. new \in Checks
    BY <1>1, <1>3 DEF Checks
  <1>5. /\ new.pc = "condition" /\ new.target = entry /\ new.failed = failed
        /\ new.todo = taken.todo /\ new.known = taken.known /\ new.listed = taken.listed
        /\ new.key = taken.key /\ new.done = taken.done /\ new.broken = taken.broken
        /\ new.skipped = more
    BY DEF Checks
  <1> HIDE DEF new
  <1> QED
    BY <1>2, <1>4, <1>5 DEF new, more

LEMMA DatasetsForType ==
    ASSUME TypesInv, NEW ns
    PROVE  DatasetsFor(ns) \in SUBSET Datasets
  BY DEF DatasetsFor, InNamespace, TypesInv, Types, Checks, KnownDatasets

LEMMA TypesCheckPod ==
    ASSUME TypesInv, NEW entry \in Pods \X Pods, CheckPod(entry)
    PROVE  TypesInv'
  <1> DEFINE ds == DatasetsFor(NamespaceOf[entry[1]])
             fixing == Fixing(entry, ds)
  <1>1. ds \in SUBSET Datasets
    BY DatasetsForType
  <1>2. fixing \in SUBSET Datasets
    BY <1>1, SelectedType DEF Fixing, Processed
  <1>3. check.pc = "pods" /\ check.key \in Texts /\ check \in Checks
        /\ entry \in check.todo /\ entry \in Entries
    BY DEF CheckPod, TypesInv, Types, Keyed, Entries
  <1>4. /\ UNCHANGED <<pods, publish, settings, catalog>>
        /\ Trouble \/ UNCHANGED spent
    BY DEF CheckPod
  <1>5. Learned(entry, ds) \in Checks /\ Learned(entry, ds).key = check.key
    BY <1>1, <1>3, LearnedType
  <1>6. [check EXCEPT !.todo = @ \ {entry}] \in Checks
        /\ [check EXCEPT !.todo = @ \ {entry}].key = check.key
    BY <1>3 DEF Checks
  <1>7. \A count \in Nat, failed \in BOOLEAN, skipped \in SUBSET fixing :
            /\ WithResult(Learned(entry, ds), entry, count, failed, skipped) \in Checks
            /\ WithResult(Learned(entry, ds), entry, count, failed, skipped).key = check.key
    BY <1>2, <1>5, ResultType
  <1>8. \/ UNCHANGED disk
        \/ \E skipped, failing :
              disk' = Mounted(entry[2], fixing \ skipped, check.key, failing)
    BY CheckPodCases
  <1>9. disk' \in [Pods -> Paths]
    <2>1. disk \in [Pods -> Paths]
      BY DEF TypesInv, Types
    <2> HIDE DEF fixing
    <2> QED
      BY <1>2, <1>3, <1>8, <2>1, MountedType
  <1>10. check' \in Checks /\ check'.key = check.key
    <2> DEFINE dropped == [check EXCEPT !.todo = @ \ {entry}]
    <2>1. \/ check' = Learned(entry, ds) \/ check' = dropped
          \/ \E count \in Nat, failed \in BOOLEAN, skipped \in SUBSET fixing :
                check' = WithResult(Learned(entry, ds), entry, count, failed, skipped)
      BY CheckPodCases
    <2> HIDE DEF dropped, fixing, ds
    <2> QED
      BY <1>5, <1>6, <1>7, <2>1 DEF dropped
  <1>11. spent' \in Budgets
    BY <1>4, BudgetStep DEF TypesInv, Types
  <1>12. Types'
    BY <1>4, <1>9, <1>10, <1>11 DEF TypesInv, Types
  <1>13. Keyed'
    BY <1>3, <1>4, <1>10 DEF TypesInv, Keyed
  <1> QED
    BY <1>12, <1>13 DEF TypesInv

LEMMA TypesEndPod ==
    ASSUME TypesInv, EndPod
    PROVE  /\ TypesInv'
           /\ check'.pc = "pods" /\ check'.todo = check.todo /\ check'.known = check.known
           /\ check'.listed = check.listed /\ check'.broken = check.broken
           /\ check'.skipped = check.skipped
           /\ check'.done = check.done + Counted(check.failed)
           /\ \A q \in Pods :
                 /\ pods'[q] = [pods[q] EXCEPT !.condition = pods'[q].condition]
                 /\ pods'[q].condition
                       \in {ReconcileReason(check.count, check.failed), pods[q].condition}
  <1> DEFINE reason == ReconcileReason(check.count, check.failed)
             p == check.target[1]
  <1>1. reason \in Conditions
    BY DEF ReconcileReason, Conditions
  <1>2. Counted(check.failed) \in Nat
    BY DEF Counted
  <1>3. check \in Checks /\ <<None, None>> \in (Pods \cup {None}) \X (Pods \cup {None})
    BY DEF TypesInv, Types
  <1>4. /\ check' \in Checks /\ check'.key = check.key
        /\ check'.pc = "pods" /\ check'.todo = check.todo /\ check'.known = check.known
        /\ check'.listed = check.listed /\ check'.broken = check.broken
        /\ check'.skipped = check.skipped
        /\ check'.done = check.done + Counted(check.failed)
    <2> DEFINE more == Counted(check.failed)
               nowhere == <<None, None>>
    <2>1. check' = [check EXCEPT !.pc = "pods", !.target = nowhere, !.count = 0,
                       !.failed = FALSE, !.done = @ + more]
      BY DEF EndPod
    <2>2. more \in Nat /\ nowhere \in (Pods \cup {None}) \X (Pods \cup {None})
      BY <1>2, <1>3
    <2> HIDE DEF more, nowhere
    <2>3. check.done + more \in Nat
      BY <1>3, <2>2 DEF Checks
    <2>4. check' \in Checks
      BY <1>3, <2>1, <2>2, <2>3 DEF Checks
    <2>5. /\ check'.key = check.key
          /\ check'.pc = "pods" /\ check'.todo = check.todo /\ check'.known = check.known
          /\ check'.listed = check.listed /\ check'.broken = check.broken
          /\ check'.skipped = check.skipped
          /\ check'.done = check.done + more
      BY <1>3, <2>1 DEF Checks
    <2> QED
      BY <2>4, <2>5 DEF more
  <1>5. WriteCondition(p, reason)
    BY DEF EndPod
  <1> HIDE DEF reason
  <1>6. /\ pods' \in [Pods -> PodRecords] /\ (Trouble \/ UNCHANGED spent)
        /\ \A q \in Pods :
              /\ pods'[q] = [pods[q] EXCEPT !.condition = pods'[q].condition]
              /\ pods'[q].condition \in {reason, pods[q].condition}
    BY <1>1, <1>5, WrittenByName DEF TypesInv, Types
  <1>7. UNCHANGED <<disk, publish, settings, catalog>> /\ check.pc = "condition"
    BY DEF EndPod
  <1> QED
    BY <1>4, <1>6, <1>7, BudgetStep DEF TypesInv, Types, Keyed, reason

\* The surroundings change the pods, or end the check, or change the rest.
LEMMA TypesPods ==
    ASSUME TypesInv, NEW p \in Pods,
           CreatePod(p) \/ StartPod(p) \/ DeletePod(p) \/ ForceDelete(p) \/ Forget(p)
    PROVE  TypesInv'
  <1>1. pods' \in [Pods -> PodRecords]
    <2>1. CASE CreatePod(p)
      <3>1. PICK driver \in Drivers, found \in BOOLEAN :
                pods' = [pods EXCEPT ![p].phase = "Pending",
                            ![p].spec = Handle(Template[p], NamespaceOf[p], driver, found)]
        BY <2>1 DEF CreatePod
      <3> DEFINE spec == Handle(Template[p], NamespaceOf[p], driver, found)
      <3>2. spec \in Admitted
        BY DEF Admitted
      <3> HIDE DEF spec
      <3>3. [pods[p] EXCEPT !.phase = "Pending", !.spec = spec] \in PodRecords
        BY <3>2 DEF TypesInv, Types, PodRecords
      <3>4. pods' = [pods EXCEPT ![p] = [pods[p] EXCEPT !.phase = "Pending", !.spec = spec]]
        BY <3>1 DEF TypesInv, Types, PodRecords, spec
      <3> QED
        BY <3>3, <3>4 DEF TypesInv, Types
    <2>2. CASE StartPod(p)
      <3> DEFINE new == [pods[p] EXCEPT !.phase = "Running"]
      <3>1. new \in PodRecords
        BY DEF TypesInv, Types, PodRecords
      <3>2. pods' = [pods EXCEPT ![p] = new]
        BY <2>2 DEF StartPod, TypesInv, Types, PodRecords
      <3> HIDE DEF new
      <3> QED
        BY <3>1, <3>2 DEF TypesInv, Types
    <2>3. CASE DeletePod(p)
      <3> DEFINE new == [pods[p] EXCEPT !.deleted = TRUE]
      <3>1. new \in PodRecords
        BY DEF TypesInv, Types, PodRecords
      <3>2. pods' = [pods EXCEPT ![p] = new]
        BY <2>3 DEF DeletePod, TypesInv, Types, PodRecords
      <3> HIDE DEF new
      <3> QED
        BY <3>1, <3>2 DEF TypesInv, Types
    <2>4. CASE ForceDelete(p)
      <3> DEFINE new == [pods[p] EXCEPT !.phase = "gone", !.deleted = TRUE]
      <3>1. new \in PodRecords
        BY DEF TypesInv, Types, PodRecords
      <3>2. pods' = [pods EXCEPT ![p] = new]
        BY <2>4 DEF ForceDelete, TypesInv, Types, PodRecords
      <3> HIDE DEF new
      <3> QED
        BY <3>1, <3>2 DEF TypesInv, Types
    <2>5. CASE Forget(p)
      <3> DEFINE new == [pods[p] EXCEPT !.phase = "gone"]
      <3>1. new \in PodRecords
        BY DEF TypesInv, Types, PodRecords
      <3>2. pods' = [pods EXCEPT ![p] = new]
        BY <2>5 DEF Forget, TypesInv, Types, PodRecords
      <3> HIDE DEF new
      <3> QED
        BY <3>1, <3>2 DEF TypesInv, Types
    <2> QED
      BY <2>1, <2>2, <2>3, <2>4, <2>5
  <1>2. /\ UNCHANGED <<disk, publish, check, settings, catalog>>
        /\ Trouble \/ UNCHANGED spent
    BY DEF CreatePod, StartPod, DeletePod, ForceDelete, Forget
  <1> QED
    BY <1>1, <1>2, BudgetStep DEF TypesInv, Types, Keyed

\* A mount that goes while a check is under way: the check is told, and nothing else of
\* it changes.
OnlyBroken ==
    /\ check' \in Checks /\ check.broken \subseteq check'.broken
    /\ check'.pc = check.pc /\ check'.key = check.key /\ check'.listed = check.listed
    /\ check'.todo = check.todo /\ check'.known = check.known /\ check'.target = check.target
    /\ check'.count = check.count /\ check'.failed = check.failed /\ check'.done = check.done
    /\ check'.since = check.since /\ check'.scope = check.scope
    /\ check'.skipped = check.skipped

LEMMA LoseFields ==
    ASSUME TypesInv, NEW p \in Pods, NEW d \in Datasets, Lose(p, d)
    PROVE  OnlyBroken /\ (check.pc # "idle" => <<p, d>> \in check'.broken)
  <1> DEFINE gone == IF check.pc # "idle" THEN check.broken \cup {<<p, d>>} ELSE check.broken
  <1>1. check \in Checks
    BY DEF TypesInv, Types
  <1>2. check' = [check EXCEPT !.broken = gone]
    BY <1>1 DEF Lose, Checks
  <1>3. /\ gone \in SUBSET (Pods \X Datasets) /\ check.broken \subseteq gone
        /\ check.pc # "idle" => <<p, d>> \in gone
    BY <1>1 DEF Checks
  <1> HIDE DEF gone
  <1> QED
    BY <1>1, <1>2, <1>3 DEF OnlyBroken, Checks

\* What a step of NodeUnpublishVolume does to the node: the path shrinks or goes, and a
\* check that is under way is told of the mounts.
PathShrinks(p) ==
    /\ disk' \in [Pods -> Paths] /\ \A q \in Pods \ {p} : disk'[q] = disk[q]
    /\ disk'[p].folders \subseteq disk[p].folders /\ disk'[p].mounts \subseteq disk[p].mounts
    /\ \/ disk'[p] = NoPath
       \/ /\ disk'[p].there /\ disk'[p].longest = disk[p].longest
          /\ disk'[p].file \in {disk[p].file, <<>>}
          /\ disk[p].mounts \subseteq disk[p].folders
                => disk'[p].mounts \subseteq disk'[p].folders

LEMMA UnpublishFields ==
    ASSUME TypesInv, NEW p \in Pods, Unpublish(p)
    PROVE  /\ UNCHANGED <<pods, publish, settings, catalog>> /\ (Trouble \/ UNCHANGED spent)
           /\ pods[p].deleted /\ publish[p].pc \in {"wait", "done"} /\ disk[p].there
           /\ PathShrinks(p) /\ OnlyBroken
           /\ check.pc # "idle" /\ disk'[p].there =>
                 \A d \in disk[p].mounts \ disk'[p].mounts : <<p, d>> \in check'.broken
  <1> DEFINE Told == check.pc # "idle" /\ disk'[p].there =>
                        \A d \in disk[p].mounts \ disk'[p].mounts : <<p, d>> \in check'.broken
  <1>0. disk \in [Pods -> Paths] /\ check \in Checks
    BY DEF TypesInv, Types
  <1>1. UNCHANGED check => OnlyBroken
    BY <1>0 DEF OnlyBroken
  <1>2. ASSUME UnpublishPath(p) PROVE PathShrinks(p) /\ OnlyBroken /\ Told
    <2>1. disk' = [disk EXCEPT ![p] = NoPath] /\ UNCHANGED check
      BY <1>2 DEF UnpublishPath
    <2>2. ~NoPath.there /\ NoPath.folders = {} /\ NoPath.mounts = {}
      BY DEF NoPath
    <2> QED
      BY <1>0, <1>1, <2>1, <2>2, NoPathType DEF PathShrinks
  <1>3. ASSUME UnpublishCredentials(p) PROVE PathShrinks(p) /\ OnlyBroken /\ Told
    <2> DEFINE new == [disk[p] EXCEPT !.file = <<>>]
    <2>1. disk' = [disk EXCEPT ![p] = new] /\ UNCHANGED check /\ disk[p].there
      BY <1>3 DEF UnpublishCredentials, Unpublishing
    <2> DEFINE Chars == UNION {ToSet(u) : u \in Texts}
               Lengths == {0} \cup {Len(t) : t \in Texts}
    <2>2. <<>> \in Seq(Chars)
      OBVIOUS
    <2> HIDE DEF Chars, Lengths
    <2>3. Paths = [there : BOOLEAN, folders : SUBSET Datasets, mounts : SUBSET Datasets,
                   file : Seq(Chars), longest : Lengths]
      BY DEF Paths, Chars, Lengths
    <2>4. /\ new \in Paths /\ new.there = disk[p].there /\ new.folders = disk[p].folders
          /\ new.mounts = disk[p].mounts /\ new.longest = disk[p].longest /\ new.file = <<>>
      BY <1>0, <2>2, <2>3
    <2> HIDE DEF new
    <2> QED
      BY <1>0, <1>1, <2>1, <2>4 DEF PathShrinks
  <1>4. ASSUME NEW d \in Datasets, UnpublishDataset(p, d)
        PROVE  PathShrinks(p) /\ OnlyBroken /\ Told
    <2> DEFINE cleaned == [disk[p] EXCEPT !.folders = @ \ {d}, !.mounts = @ \ {d}]
               unmounted == [disk[p] EXCEPT !.mounts = @ \ {d}]
    <2>1. /\ disk' = [disk EXCEPT ![p] = cleaned] \/ disk' = [disk EXCEPT ![p] = unmounted]
          /\ d \in disk[p].mounts => Lose(p, d)
          /\ d \notin disk[p].mounts => UNCHANGED check
          /\ disk[p].there
      BY <1>0, <1>4 DEF UnpublishDataset, Unpublishing, Paths
    <2>2. /\ cleaned \in Paths /\ cleaned.there = disk[p].there
          /\ cleaned.folders = disk[p].folders \ {d} /\ cleaned.mounts = disk[p].mounts \ {d}
          /\ cleaned.longest = disk[p].longest /\ cleaned.file = disk[p].file
      BY <1>0 DEF Paths
    <2>3. /\ unmounted \in Paths /\ unmounted.there = disk[p].there
          /\ unmounted.folders = disk[p].folders /\ unmounted.mounts = disk[p].mounts \ {d}
          /\ unmounted.longest = disk[p].longest /\ unmounted.file = disk[p].file
      BY <1>0 DEF Paths
    <2> HIDE DEF cleaned, unmounted
    <2>4. PathShrinks(p)
      BY <1>0, <2>1, <2>2, <2>3 DEF PathShrinks
    <2>5. disk'[p].mounts = disk[p].mounts \ {d}
      BY <1>0, <2>1, <2>2, <2>3
    <2>6. OnlyBroken /\ (d \in disk[p].mounts /\ check.pc # "idle" => <<p, d>> \in check'.broken)
      BY <1>1, <2>1, LoseFields
    <2> QED
      BY <2>4, <2>5, <2>6
  <1>5. PathShrinks(p) /\ OnlyBroken /\ Told
    BY <1>2, <1>3, <1>4 DEF Unpublish
  <1>6. /\ UNCHANGED <<pods, publish, settings, catalog>> /\ (Trouble \/ UNCHANGED spent)
        /\ Unpublishing(p)
    BY DEF Unpublish, UnpublishPath, UnpublishCredentials, UnpublishDataset
  <1> QED
    BY <1>5, <1>6 DEF Unpublishing

LEMMA TypesUnpublish ==
    ASSUME TypesInv, NEW p \in Pods, Unpublish(p)
    PROVE  TypesInv'
  <1>1. /\ UNCHANGED <<pods, publish, settings, catalog>> /\ (Trouble \/ UNCHANGED spent)
        /\ disk' \in [Pods -> Paths]
        /\ check' \in Checks /\ check'.pc = check.pc /\ check'.key = check.key
    BY UnpublishFields DEF PathShrinks, OnlyBroken
  <1> QED
    BY <1>1, BudgetStep DEF TypesInv, Types, Keyed

LEMMA TypesBreak ==
    ASSUME TypesInv, NEW p \in Pods, NEW d \in Datasets, Break(p, d)
    PROVE  TypesInv'
  <1>1. [disk[p] EXCEPT !.mounts = @ \ {d}] \in Paths
    BY DEF TypesInv, Types, Paths
  <1>2. disk' \in [Pods -> Paths]
    BY <1>1 DEF Break, TypesInv, Types, Paths
  <1> DEFINE lost == IF publish[p].pc = "done" THEN publish[p].broken
                     ELSE publish[p].broken \cup {d}
  <1>3. publish' = [publish EXCEPT ![p].broken = lost]
    BY DEF Break, TypesInv, Types, Calls
  <1>4. lost \in SUBSET Datasets
    BY DEF TypesInv, Types, Calls
  <1> HIDE DEF lost
  <1>5. [publish[p] EXCEPT !.broken = lost] \in Calls
    BY <1>4 DEF TypesInv, Types, Calls
  <1>6. publish' \in [Pods -> Calls]
        /\ \A q \in Pods : publish'[q].pc = publish[q].pc /\ publish'[q].key = publish[q].key
    BY <1>3, <1>5 DEF TypesInv, Types, Calls
  <1>7. check' \in Checks /\ check'.pc = check.pc /\ check'.key = check.key
    BY LoseFields DEF Break, OnlyBroken
  <1>8. /\ UNCHANGED <<pods, settings, catalog>>
        /\ Event
    BY DEF Break
  <1> QED
    BY <1>2, <1>6, <1>7, <1>8, BudgetStep DEF TypesInv, Types, Keyed

LEMMA TypesRest ==
    ASSUME TypesInv,
           \/ EndCheck \/ ReconcilerRestart \/ ChangeSettings
           \/ \E d \in Datasets : ChangeDataset(d)
           \/ UNCHANGED vars
    PROVE  TypesInv'
  <1>1. CASE EndCheck
    BY <1>1, IdleType DEF EndCheck, TypesInv, Types, Keyed
  <1>2. CASE ReconcilerRestart
    BY <1>2, IdleType, BudgetStep DEF ReconcilerRestart, TypesInv, Types, Keyed
  <1>3. CASE ChangeSettings
    BY <1>3, BudgetStep DEF ChangeSettings, TypesInv, Types, Keyed
  <1>4. CASE \E d \in Datasets : ChangeDataset(d)
    BY <1>4, BudgetStep DEF ChangeDataset, TypesInv, Types, Keyed
  <1>5. CASE UNCHANGED vars
    BY <1>5 DEF vars, TypesInv, Types, Keyed
  <1> QED
    BY <1>1, <1>2, <1>3, <1>4, <1>5

\* The steps in groups, as the proofs take them.
Surroundings ==
    \/ EndCheck \/ ReconcilerRestart \/ ChangeSettings
    \/ \E d \in Datasets : ChangeDataset(d)
    \/ UNCHANGED vars
PodStep(p) == CreatePod(p) \/ StartPod(p) \/ DeletePod(p) \/ ForceDelete(p) \/ Forget(p)

LEMMA StepCases ==
    ASSUME [Next]_vars
    PROVE  \/ \E p \in Pods : BeginPublish(p)
           \/ \E p \in Pods : MountDatasets(p)
           \/ \E p \in Pods : TagPod(p)
           \/ \E p \in Pods : EndPublish(p)
           \/ \E scope \in Scopes : BeginCheck(scope)
           \/ \E entry \in Pods \X Pods : CheckPod(entry)
           \/ EndPod
           \/ \E p \in Pods : PodStep(p)
           \/ \E p \in Pods : Unpublish(p)
           \/ \E p \in Pods, d \in Datasets : Break(p, d)
           \/ Surroundings
  BY DEF Next, Publishing, Checking, PodStep, Surroundings

LEMMA TypesStep == TypesInv /\ [Next]_vars => TypesInv'
  <1> SUFFICES ASSUME TypesInv, [Next]_vars PROVE TypesInv'
    OBVIOUS
  <1>1. ASSUME NEW p \in Pods, PodStep(p) PROVE TypesInv'
    BY <1>1, TypesPods DEF PodStep
  <1>2. ASSUME Surroundings PROVE TypesInv'
    BY <1>2, TypesRest DEF Surroundings
  <1> QED
    BY <1>1, <1>2, StepCases, TypesBeginPublish, TypesMountDatasets, TypesTagPod,
       TypesEndPublish, TypesBeginCheck, TypesCheckPod, TypesEndPod, TypesUnpublish, TypesBreak

\* A path with everything that there is to mount.
LEMMA FilledType ==
    ASSUME NEW ds \in SUBSET Datasets, NEW key \in Texts
    PROVE  [there |-> TRUE, folders |-> ds, mounts |-> ds, file |-> key, longest |-> Len(key)]
               \in Paths
  <1> DEFINE Chars == UNION {ToSet(u) : u \in Texts}
             Lengths == {0} \cup {Len(t) : t \in Texts}
  <1>1. Len(key) \in Lengths /\ key \in Seq(Chars)
    BY TextType
  <1> HIDE DEF Chars, Lengths
  <1>2. Paths = [there : BOOLEAN, folders : SUBSET Datasets, mounts : SUBSET Datasets,
                 file : Seq(Chars), longest : Lengths]
    BY DEF Paths, Chars, Lengths
  <1> QED
    BY <1>1, <1>2

LEMMA TypesInit == Init => TypesInv
  <1> SUFFICES ASSUME Init PROVE TypesInv
    OBVIOUS
  <1>1. settings \in Settings /\ Readable(settings.type, settings.secret)
        /\ check = Idle /\ spent \in Budgets
    BY DEF Init, Budgets
  <1>2. PICK cast \in Casts, driver \in Drivers \ {Nil} :
            /\ catalog \in SUBSET {d \in Datasets : \E p \in cast : NamespaceOf[p] = Home[d]}
            /\ pods = [p \in Pods |->
                   IF p \notin cast THEN [NewPod(p) EXCEPT !.phase = "gone"]
                   ELSE IF p \in Settled THEN Running(p, driver) ELSE NewPod(p)]
    BY DEF Init
  <1>3. \A p \in Pods : Running(p, driver) \in PodRecords /\ NewPod(p) \in PodRecords
                        /\ [NewPod(p) EXCEPT !.phase = "gone"] \in PodRecords
    <2> TAKE p \in Pods
    <2> DEFINE spec == Handle(Template[p], NamespaceOf[p], driver, TRUE)
    <2>1. Template[p] \in Admitted
      BY DEF Admitted
    <2>2. \A found \in BOOLEAN : Handle(Template[p], NamespaceOf[p], driver, found) \in Admitted
      BY DEF Admitted
    <2>3. spec \in Admitted
      BY <2>2
    <2> HIDE DEF spec
    <2>4. NewPod(p) \in PodRecords
      BY <2>1 DEF NewPod, PodRecords, Conditions
    <2>5. Running(p, driver) = [NewPod(p) EXCEPT !.phase = "Running", !.watched = TRUE,
                                                 !.path = p, !.spec = spec]
      BY DEF Running, NewPod, spec
    <2> QED
      BY <2>3, <2>4, <2>5 DEF PodRecords
  <1>4. pods \in [Pods -> PodRecords]
    BY <1>2, <1>3
  <1> DEFINE key == CredentialText(settings.type, settings.secret)
  <1>5. key \in Texts
    BY <1>1, KeyIsText
  <1>6. \A p \in Pods : Selected(p, InNamespace(NamespaceOf[p])) \in SUBSET Datasets
    BY <1>2, SelectedType DEF InNamespace
  <1>7. [NoPath EXCEPT !.there = TRUE] \in Paths
    BY NoPathType DEF Paths
  <1>8. \A ds \in SUBSET Datasets : 
           [there |-> TRUE, folders |-> ds, mounts |-> ds, file |-> key, longest |-> Len(key)]
               \in Paths
    BY <1>5, FilledType
  <1>9. disk = [p \in Pods |->
           LET ds == Selected(p, InNamespace(NamespaceOf[p]))
           IN IF pods[p].phase # "Running" THEN NoPath
              ELSE IF ds = {} THEN [NoPath EXCEPT !.there = TRUE]
              ELSE [there |-> TRUE, folders |-> ds, mounts |-> ds,
                    file |-> key, longest |-> Len(key)]]
    BY DEF Init
  <1> HIDE DEF key
  <1>10. disk \in [Pods -> Paths]
    BY <1>6, <1>7, <1>8, <1>9, NoPathType
  <1>11. publish = [p \in Pods |->
            [Waiting EXCEPT !.pc = IF pods[p].phase = "Running" THEN "done" ELSE @]]
    BY DEF Init
  <1>12. [Waiting EXCEPT !.pc = "done"] \in Calls /\ [Waiting EXCEPT !.pc = "done"].pc = "done"
    BY WaitingType DEF Calls
  <1>13. publish \in [Pods -> Calls] /\ \A p \in Pods : publish[p].pc # "mount"
    BY <1>11, <1>12, WaitingType DEF Calls
  <1> QED
    BY <1>1, <1>2, <1>4, <1>10, <1>13, IdleType DEF TypesInv, Types, Keyed

LEMMA TypesAlways == Spec => []TypesInv
  BY TypesInit, TypesStep, PTL DEF Spec

\* Only the tag changes what checks find of a pod, and only its creation what there is
\* in it.
LEMMA PodsKept ==
    ASSUME TypesInv, [Next]_vars
    PROVE  /\ \/ \E p \in Pods : TagPod(p)
              \/ \A q \in Pods : pods'[q].watched = pods[q].watched
                                /\ pods'[q].path = pods[q].path
           /\ \/ \E p \in Pods : CreatePod(p)
              \/ \A q \in Pods : pods'[q].spec = pods[q].spec
  <1> DEFINE Found == \A q \in Pods : pods'[q].watched = pods[q].watched
                                     /\ pods'[q].path = pods[q].path
             Same == \A q \in Pods : pods'[q].spec = pods[q].spec
  <1>0. pods \in [Pods -> PodRecords]
    BY DEF TypesInv, Types
  <1>1. ASSUME NEW p \in Pods, TagPod(p) PROVE Same
    BY <1>0, <1>1 DEF TagPod, PodRecords
  <1>2. ASSUME \A q \in Pods : pods'[q] = [pods[q] EXCEPT !.condition = pods'[q].condition]
        PROVE  Found /\ Same
    <2>1. ASSUME NEW q \in Pods
          PROVE  /\ pods'[q].watched = pods[q].watched /\ pods'[q].path = pods[q].path
                 /\ pods'[q].spec = pods[q].spec
      <3> DEFINE was == pods[q]  now == pods'[q]  cond == now.condition
      <3>1. was \in PodRecords /\ now = [was EXCEPT !.condition = cond]
        BY <1>0, <1>2
      <3> HIDE DEF was, now, cond
      <3>2. now.spec = was.spec /\ now.watched = was.watched /\ now.path = was.path
        BY <3>1 DEF PodRecords
      <3> QED
        BY <3>2 DEF was, now
    <2> QED
      BY <2>1
  <1>3. ASSUME NEW p \in Pods, EndPublish(p) PROVE Found /\ Same
    <2> DEFINE reason == PublishReason(publish[p].count, publish[p].failed)
    <2>1. reason \in Conditions /\ WriteCondition(p, reason)
      BY <1>3 DEF EndPublish, PublishReason, Conditions
    <2> HIDE DEF reason
    <2> QED
      BY <1>0, <1>2, <2>1, WrittenByName
  <1>4. ASSUME EndPod PROVE Found /\ Same
    BY <1>2, <1>4, TypesEndPod
  <1>5. ASSUME NEW p \in Pods, StartPod(p) \/ DeletePod(p) \/ ForceDelete(p) \/ Forget(p)
        PROVE  Found /\ Same
    BY <1>0, <1>5 DEF StartPod, DeletePod, ForceDelete, Forget, PodRecords
  <1>6. ASSUME NEW p \in Pods, CreatePod(p) PROVE Found
    BY <1>0, <1>6 DEF CreatePod, PodRecords
  <1>7. ASSUME \/ Surroundings
               \/ \E scope \in Scopes : BeginCheck(scope)
               \/ \E entry \in Pods \X Pods : CheckPod(entry)
               \/ \E p \in Pods : BeginPublish(p) \/ MountDatasets(p) \/ Unpublish(p)
               \/ \E p \in Pods, d \in Datasets : Break(p, d)
        PROVE  Found /\ Same
    <2>1. \A p \in Pods : Unpublish(p) => UNCHANGED pods
      BY UnpublishFields
    <2> QED
      BY <1>7, <2>1 DEF Surroundings, EndCheck, ReconcilerRestart, ChangeSettings,
             ChangeDataset, vars, BeginCheck, CheckPod, BeginPublish, MountDatasets, Break
  <1> HIDE DEF Found, Same
  <1>8. (Found \/ \E p \in Pods : TagPod(p)) /\ (Same \/ \E p \in Pods : CreatePod(p))
    BY <1>1, <1>3, <1>4, <1>5, <1>6, <1>7, StepCases DEF PodStep
  <1> QED
    BY <1>8 DEF Found, Same

\* Every step but those of the budget leaves it alone.
LEMMA BudgetAlways ==
    ASSUME TypesInv, [Next]_vars
    PROVE  (Trouble \/ Event \/ UNCHANGED spent) /\ spent'.troubles >= spent.troubles
  <1>0. \A p \in Pods : Unpublish(p) => Trouble \/ UNCHANGED spent
    BY UnpublishFields
  <1>1. Trouble \/ Event \/ UNCHANGED spent
    BY <1>0, ZenonT(60) DEF Next, Publishing, Checking, BeginPublish, MountDatasets, TagPod,
           EndPublish, WriteCondition, BeginCheck, CheckPod, EndPod, EndCheck, CreatePod, StartPod,
           DeletePod, ForceDelete, Forget, Break, ReconcilerRestart,
           ChangeSettings, ChangeDataset, vars
  <1> QED
    BY <1>1, BudgetStep DEF TypesInv, Types

--------------------------------------------------------------------------------
(* Everything stays in its namespace *)

Own(ns) == {d \in Datasets : Home[d] = ns}

\* What is on a path, or about to be mounted there, is of the pod's namespace; the
\* path is there when something is mounted.
VolumesInv ==
    \A p \in Pods :
        /\ disk[p].folders \subseteq Own(NamespaceOf[p])
        /\ publish[p].datasets \subseteq Own(NamespaceOf[p])
        /\ disk[p].mounts \subseteq disk[p].folders
        /\ ~disk[p].there => disk[p] = NoPath
        /\ publish[p].pc = "mount" => disk[p].there

\* A pod's path is that of a pod of its namespace, whose volume has been published.
Placed(p, path) ==
    NamespaceOf[path] = NamespaceOf[p] /\ publish[path].pc \in {"condition", "done"}
PathsInv == \A p \in Pods : pods[p].path # None => Placed(p, pods[p].path)

\* So are the paths that the check has listed, and what it knows of the namespaces.
CheckInv ==
    /\ check.todo \subseteq check.listed
    /\ \A entry \in check.listed : entry[2] # None => Placed(entry[1], entry[2])
    /\ \A entry \in check.todo : entry[2] # None
    /\ check.pc = "condition" =>
          check.target \in check.listed \ check.todo /\ check.target[2] # None
    /\ \A ns \in DOMAIN check.known : check.known[ns] \subseteq Own(ns)

PlacesInv == VolumesInv /\ PathsInv /\ CheckInv

\* Publications never go back to a step before the tag.
PublishedStays == \A p \in Pods :
    publish[p].pc \in {"condition", "done"} => publish'[p].pc \in {"condition", "done"}

LEMMA PlacedStays ==
    ASSUME PublishedStays, NEW p \in Pods, NEW path \in Pods, Placed(p, path)
    PROVE  Placed(p, path)'
  BY DEF PublishedStays, Placed

LEMMA InNamespaceOwn ==
    ASSUME TypesInv, NEW ns
    PROVE  InNamespace(ns) \subseteq Own(ns)
  BY DEF InNamespace, Own, TypesInv, Types

\* The check is left alone, or ended, in many steps.
LEMMA CheckKept ==
    ASSUME TypesInv, CheckInv, PublishedStays, \/ check' = check
                                               \/ check' = Idle
    PROVE  CheckInv'
  <1>1. CASE check' = check
    <2>1. \A entry \in check.listed : entry[2] # None => Placed(entry[1], entry[2])'
      BY PlacedStays DEF CheckInv, TypesInv, Types, Checks, Entries
    <2> QED
      BY <1>1, <2>1 DEF CheckInv
  <1>2. CASE check' = Idle
    BY <1>2 DEF CheckInv, Idle
  <1> QED
    BY <1>1, <1>2

LEMMA PathsKept ==
    ASSUME TypesInv, PathsInv, PublishedStays, \A p \in Pods : pods'[p].path = pods[p].path
    PROVE  PathsInv'
  BY PlacedStays DEF PathsInv, TypesInv, Types, PodRecords

LEMMA PlacesBeginPublish ==
    ASSUME TypesInv, PlacesInv, NEW p \in Pods, BeginPublish(p)
    PROVE  PlacesInv'
  <1>1. UNCHANGED <<pods, check>> /\ publish[p].pc = "wait"
        /\ disk' = [disk EXCEPT ![p].there = TRUE]
    BY DEF BeginPublish
  <1>2. PICK call \in Calls :
            /\ publish' = [publish EXCEPT ![p] = call]
            /\ call.datasets \subseteq InNamespace(NamespaceOf[p])
    BY BeginPublishCases
  <1>3. PublishedStays
    BY <1>1, <1>2 DEF PublishedStays, TypesInv, Types
  <1>4. \A q \in Pods : disk'[q].folders = disk[q].folders /\ disk'[q].mounts = disk[q].mounts
                        /\ (q # p => disk'[q] = disk[q]) /\ disk'[p].there
    BY <1>1 DEF TypesInv, Types, Paths
  <1>5. VolumesInv'
    BY <1>2, <1>4, InNamespaceOwn DEF VolumesInv, PlacesInv, TypesInv, Types
  <1> QED
    BY <1>1, <1>3, <1>5, CheckKept, PathsKept DEF PlacesInv

LEMMA PlacesMountDatasets ==
    ASSUME TypesInv, PlacesInv, NEW p \in Pods, MountDatasets(p)
    PROVE  PlacesInv'
  <1> DEFINE todo == Selected(p, publish[p].datasets)
  <1>1. PICK count \in Nat, failed \in BOOLEAN :
            /\ publish' = [publish EXCEPT ![p] =
                  [publish[p] EXCEPT !.pc = "tag", !.key = <<>>, !.count = count,
                                     !.failed = failed]]
            /\ \/ UNCHANGED disk
               \/ \E failing : disk' = Mounted(p, todo, publish[p].key, failing)
    BY MountDatasetsCases
  <1>2. UNCHANGED <<pods, check>> /\ publish[p].pc = "mount"
    BY DEF MountDatasets
  <1>3. /\ \A q \in Pods \ {p} : publish'[q] = publish[q]
        /\ publish'[p].pc = "tag" /\ publish'[p].datasets = publish[p].datasets
    <2> DEFINE new == [publish[p] EXCEPT !.pc = "tag", !.key = <<>>, !.count = count,
                                         !.failed = failed]
    <2>1. new.pc = "tag" /\ new.datasets = publish[p].datasets
      BY CallMounted, ZenonT(60)
    <2>2. publish' = [publish EXCEPT ![p] = new]
      BY <1>1
    <2>3. publish \in [Pods -> Calls]
      BY DEF TypesInv, Types
    <2> HIDE DEF new
    <2> QED
      BY <2>1, <2>2, <2>3
  <1>4. PublishedStays
    BY <1>2, <1>3 DEF PublishedStays
  <1>5. todo \in SUBSET Own(NamespaceOf[p]) /\ publish[p].key \in Texts /\ disk[p].there
    BY <1>2, SelectedType DEF PlacesInv, VolumesInv, TypesInv, Keyed
  <1>6. ASSUME NEW failing, disk' = Mounted(p, todo, publish[p].key, failing)
        PROVE  VolumesInv'
    <2>1. disk \in [Pods -> Paths] /\ todo \in SUBSET Datasets
      BY <1>5 DEF TypesInv, Types, Own
    <2> HIDE DEF todo
    <2>2. OneFilled(p, todo, failing)
      BY <1>5, <1>6, <2>1, MountedType
    <2> QED
      BY <1>3, <1>5, <2>2 DEF PlacesInv, VolumesInv, OneFilled
  <1>7. VolumesInv'
    BY <1>1, <1>3, <1>6 DEF PlacesInv, VolumesInv
  <1> QED
    BY <1>2, <1>4, <1>7, CheckKept, PathsKept DEF PlacesInv

LEMMA PlacesTagPod ==
    ASSUME TypesInv, PlacesInv, NEW p \in Pods, TagPod(p)
    PROVE  PlacesInv'
  <1>1. /\ UNCHANGED <<disk, check>> /\ publish[p].pc = "tag"
        /\ publish' = [publish EXCEPT ![p].pc = "condition"]
    BY DEF TagPod
  <1>2. /\ \A q \in Pods \ {p} : publish'[q] = publish[q]
        /\ publish'[p].pc = "condition" /\ publish'[p].datasets = publish[p].datasets
    BY <1>1 DEF TypesInv, Types, Calls
  <1>3. PublishedStays
    BY <1>1, <1>2 DEF PublishedStays
  <1>4. VolumesInv'
    BY <1>1, <1>2 DEF PlacesInv, VolumesInv
  <1>5. ASSUME NEW q \in Pods
        PROVE  \/ pods'[q].path = pods[q].path
               \/ pods'[q].path = p /\ NamespaceOf[p] = NamespaceOf[q]
    <2>1. \/ pods'[q] = pods[q]
          \/ /\ pods'[q] = [pods[q] EXCEPT !.watched = TRUE, !.path = p]
             /\ NamespaceOf[p] = NamespaceOf[q]
      BY DEF TagPod, Namesakes
    <2> QED
      BY <2>1 DEF TypesInv, Types, PodRecords
  <1>6. PathsInv'
    <2> SUFFICES ASSUME NEW q \in Pods, pods'[q].path # None
                 PROVE  /\ NamespaceOf[pods'[q].path] = NamespaceOf[q]
                        /\ publish'[pods'[q].path].pc \in {"condition", "done"}
      BY DEF PathsInv, Placed
    <2>1. CASE pods'[q].path = pods[q].path
      <3>1. Placed(q, pods[q].path) /\ pods[q].path \in Pods
        BY <2>1 DEF PlacesInv, PathsInv, TypesInv, Types, PodRecords
      <3> QED
        BY <1>3, <2>1, <3>1 DEF Placed, PublishedStays
    <2>2. CASE pods'[q].path = p /\ NamespaceOf[p] = NamespaceOf[q]
      BY <1>2, <2>2
    <2> QED
      BY <1>5, <2>1, <2>2
  <1> QED
    BY <1>1, <1>3, <1>4, <1>6, CheckKept DEF PlacesInv

LEMMA PlacesEndPublish ==
    ASSUME TypesInv, PlacesInv, NEW p \in Pods, EndPublish(p)
    PROVE  PlacesInv'
  <1> DEFINE ended == [Waiting EXCEPT !.pc = "done"]
  <1>1. ended.pc = "done" /\ ended.datasets = {}
    BY WaitingType DEF Waiting, Calls
  <1> HIDE DEF ended
  <1>2. UNCHANGED <<disk, check>> /\ publish' = [publish EXCEPT ![p] = ended]
    BY DEF EndPublish, ended
  <1>3. PublishedStays
    BY <1>1, <1>2 DEF PublishedStays, TypesInv, Types
  <1>4. VolumesInv'
    BY <1>1, <1>2 DEF PlacesInv, VolumesInv, TypesInv, Types
  <1> DEFINE reason == PublishReason(publish[p].count, publish[p].failed)
  <1>5. reason \in Conditions /\ WriteCondition(p, reason)
    BY DEF EndPublish, PublishReason, Conditions
  <1> HIDE DEF reason
  <1>6. \A q \in Pods : pods'[q] = [pods[q] EXCEPT !.condition = pods'[q].condition]
    BY <1>5, WrittenByName DEF TypesInv, Types
  <1>7. \A q \in Pods : pods'[q].path = pods[q].path
    <2>1. \A q \in Pods : pods[q] \in PodRecords
      BY DEF TypesInv, Types
    <2>2. \A pod \in PodRecords : \A c : [pod EXCEPT !.condition = c].path = pod.path
      BY DEF PodRecords
    <2> QED
      BY <1>6, <2>1, <2>2, ZenonT(60)
  <1> QED
    BY <1>2, <1>3, <1>4, <1>7, CheckKept, PathsKept DEF PlacesInv

LEMMA PlacesBeginCheck ==
    ASSUME TypesInv, PlacesInv, NEW scope \in Scopes, BeginCheck(scope)
    PROVE  PlacesInv'
  <1> DEFINE list == PodsToReconcile(scope)
             key == CredentialText(settings.type, settings.secret)
             todo == {entry \in list : entry[2] # None}
             known == InHand(scope)
             begun == [Idle EXCEPT !.pc = "pods", !.listed = list, !.scope = scope,
                          !.todo = todo, !.known = known,
                          !.since = spent.troubles, !.key = key]
  <1>1. \A entry \in list : entry[2] # None => Placed(entry[1], entry[2])
    BY DEF PodsToReconcile, PlacesInv, PathsInv
  <1>2. todo \subseteq list /\ \A entry \in todo : entry[2] # None
    OBVIOUS
  <1>3. \A ns \in DOMAIN known : known[ns] \subseteq Own(ns)
    BY NodePodsAssumption DEF NodePodsAssumption, InHand, Own
  <1>4. /\ check' = begun \/ check' = check
        /\ UNCHANGED <<pods, disk, publish>>
    BY DEF BeginCheck
  <1> HIDE DEF list, key, todo, known
  <1>5. /\ begun.pc = "pods" /\ begun.listed = list /\ begun.todo = todo
        /\ begun.known = known
    BY IdleType DEF Checks
  <1> HIDE DEF begun
  <1>6. PublishedStays /\ UNCHANGED publish
    BY <1>4 DEF PublishedStays
  <1>7. ASSUME check' = begun PROVE CheckInv'
    <2>1. \A entry \in check'.listed : entry[2] # None => Placed(entry[1], entry[2])
      BY <1>1, <1>5, <1>7
    <2>2. \A entry \in check'.listed : entry[2] # None => Placed(entry[1], entry[2])'
      BY <1>6, <2>1 DEF Placed
    <2> QED
      BY <1>2, <1>3, <1>5, <1>7, <2>2 DEF CheckInv
  <1>8. CheckInv'
    BY <1>4, <1>6, <1>7, CheckKept DEF PlacesInv
  <1> QED
    BY <1>4, <1>6, <1>8, PathsKept DEF PlacesInv, VolumesInv

LEMMA PlacesCheckPod ==
    ASSUME TypesInv, PlacesInv, NEW entry \in Pods \X Pods, CheckPod(entry)
    PROVE  PlacesInv'
  <1> DEFINE ns == NamespaceOf[entry[1]]
             ds == DatasetsFor(ns)
             fixing == Fixing(entry, ds)
             taken == Learned(entry, ds)
  <1>1. UNCHANGED <<pods, publish>> /\ check.pc = "pods" /\ entry \in check.todo
    BY DEF CheckPod
  <1>2. PublishedStays
    BY <1>1 DEF PublishedStays
  <1>3. ds \in SUBSET Datasets /\ ds \subseteq Own(ns)
    BY DatasetsForType, InNamespaceOwn DEF DatasetsFor, PlacesInv, CheckInv
  <1>4. entry \in check.listed /\ entry[2] # None /\ NamespaceOf[entry[2]] = ns
        /\ entry \in Entries /\ check \in Checks /\ check.key \in Texts
    BY <1>1 DEF PlacesInv, CheckInv, Placed, Entries, TypesInv, Types, Keyed
  <1>5. fixing \in SUBSET Own(NamespaceOf[entry[2]])
    BY <1>3, <1>4, SelectedType DEF Fixing, Processed
  <1> HIDE DEF fixing
  <1>6. VolumesInv'
    <2>1. ASSUME NEW todo \in SUBSET fixing, NEW failing,
                 disk' = Mounted(entry[2], todo, check.key, failing), disk[entry[2]].there
          PROVE  VolumesInv'
      <3>1. disk \in [Pods -> Paths] /\ todo \in SUBSET Datasets
        BY <1>5 DEF TypesInv, Types, Own
      <3>2. OneFilled(entry[2], todo, failing)
        BY <1>4, <2>1, <3>1, MountedType
      <3> QED
        BY <1>1, <1>5, <2>1, <3>2 DEF PlacesInv, VolumesInv, OneFilled
    <2>2. \/ UNCHANGED disk
          \/ disk[entry[2]].there
             /\ \E todo \in SUBSET fixing : \E failing :
                   disk' = Mounted(entry[2], todo, check.key, failing)
      <3>1. \A skipped : fixing \ skipped \in SUBSET fixing
        OBVIOUS
      <3> QED
        BY <3>1, CheckPodCases DEF fixing
    <2> QED
      BY <1>1, <2>1, <2>2 DEF PlacesInv, VolumesInv
  <1>7. CheckInv'
    <2>1. /\ taken \in Checks
          /\ taken.todo = check.todo \ {entry}
          /\ DOMAIN taken.known = DOMAIN check.known \cup {ns}
          /\ taken.known[ns] = ds
          /\ \A n \in DOMAIN check.known \ {ns} : taken.known[n] = check.known[n]
          /\ taken.pc = check.pc /\ taken.listed = check.listed
      BY <1>3, <1>4, LearnedType
    <2>2. \A n \in DOMAIN taken.known : taken.known[n] \subseteq Own(n)
      BY <1>3, <2>1 DEF PlacesInv, CheckInv
    <2> HIDE DEF taken
    <2>3. CASE check' = taken
      BY <1>1, <2>1, <2>2, <2>3 DEF PlacesInv, CheckInv, Placed
    <2>4. CASE check' = [check EXCEPT !.todo = @ \ {entry}]
      BY <1>1, <1>4, <2>4 DEF PlacesInv, CheckInv, Placed, Checks
    <2>5. CASE \E count \in Nat, failed \in BOOLEAN, skipped \in SUBSET Datasets :
                  check' = WithResult(taken, entry, count, failed, skipped)
      <3>1. /\ check'.pc = "condition" /\ check'.target = entry
            /\ check'.todo = taken.todo /\ check'.known = taken.known
            /\ check'.listed = taken.listed
        BY <2>1, <2>5, ResultType
      <3> QED
        BY <1>1, <1>4, <2>1, <2>2, <3>1 DEF PlacesInv, CheckInv, Placed
    <2>6. fixing \in SUBSET Datasets
      BY <1>5 DEF Own
    <2> QED
      BY <2>3, <2>4, <2>5, <2>6, CheckPodCases DEF taken, fixing
  <1> QED
    BY <1>1, <1>2, <1>6, <1>7, PathsKept DEF PlacesInv

LEMMA PlacesEndPod ==
    ASSUME TypesInv, PlacesInv, EndPod
    PROVE  PlacesInv'
  <1>1. /\ check'.pc = "pods" /\ check'.todo = check.todo /\ check'.known = check.known
        /\ check'.listed = check.listed
        /\ \A q \in Pods : pods'[q] = [pods[q] EXCEPT !.condition = pods'[q].condition]
    BY TypesEndPod
  <1>2. UNCHANGED <<disk, publish>>
    BY DEF EndPod
  <1>3. \A q \in Pods : pods'[q].path = pods[q].path
    BY <1>1 DEF TypesInv, Types, PodRecords
  <1> QED
    BY <1>1, <1>2, <1>3, PathsKept DEF PublishedStays, PlacesInv, VolumesInv, CheckInv, Placed

LEMMA PlacesPods ==
    ASSUME TypesInv, PlacesInv, NEW p \in Pods, PodStep(p)
    PROVE  PlacesInv'
  <1>1. UNCHANGED <<disk, publish, check>>
    BY DEF PodStep, CreatePod, StartPod, DeletePod, ForceDelete, Forget
  <1>2. \A q \in Pods : pods'[q].path = pods[q].path
    BY DEF PodStep, CreatePod, StartPod, DeletePod, ForceDelete, Forget,
           TypesInv, Types, PodRecords
  <1>3. PublishedStays
    BY <1>1 DEF PublishedStays
  <1> QED
    BY <1>1, <1>2, <1>3, PathsKept, CheckKept DEF PlacesInv, VolumesInv

\* A check that only learns of lost mounts has the paths that it had.
LEMMA CheckOnlyBroken ==
    ASSUME TypesInv, CheckInv, PublishedStays, OnlyBroken
    PROVE  CheckInv'
  BY PlacedStays DEF OnlyBroken, CheckInv, TypesInv, Types, Checks, Entries

LEMMA PlacesUnpublish ==
    ASSUME TypesInv, PlacesInv, NEW p \in Pods, Unpublish(p)
    PROVE  PlacesInv'
  <1>1. /\ UNCHANGED <<pods, publish>> /\ publish[p].pc \in {"wait", "done"}
        /\ PathShrinks(p) /\ OnlyBroken
    BY UnpublishFields
  <1>2. VolumesInv'
    <2>1. NoPath.mounts \subseteq NoPath.folders /\ NoPath.folders = {}
      BY DEF NoPath
    <2>2. /\ disk'[p].folders \subseteq Own(NamespaceOf[p])
          /\ disk'[p].mounts \subseteq disk'[p].folders
          /\ ~disk'[p].there => disk'[p] = NoPath
      BY <1>1, <2>1 DEF PlacesInv, VolumesInv, PathShrinks
    <2>3. \A q \in Pods \ {p} : disk'[q] = disk[q]
      BY <1>1 DEF PathShrinks
    <2> QED
      BY <1>1, <2>2, <2>3 DEF PlacesInv, VolumesInv
  <1>3. PublishedStays
    BY <1>1 DEF PublishedStays
  <1> QED
    BY <1>1, <1>2, <1>3, PathsKept, CheckOnlyBroken DEF PlacesInv

LEMMA PlacesBreak ==
    ASSUME TypesInv, PlacesInv, NEW p \in Pods, NEW d \in Datasets, Break(p, d)
    PROVE  PlacesInv'
  <1>1. UNCHANGED pods /\ d \in disk[p].mounts /\ disk' = [disk EXCEPT ![p].mounts = @ \ {d}]
    BY DEF Break
  <1>2. \A q \in Pods : publish'[q].pc = publish[q].pc /\ publish'[q].datasets = publish[q].datasets
    BY DEF Break, TypesInv, Types, Calls
  <1>3. OnlyBroken
    BY LoseFields DEF Break
  <1>4. disk[p].there
    BY <1>1 DEF PlacesInv, VolumesInv, NoPath
  <1>5. /\ \A q \in Pods \ {p} : disk'[q] = disk[q]
        /\ disk'[p].there /\ disk'[p].folders = disk[p].folders
        /\ disk'[p].mounts \subseteq disk[p].mounts
    BY <1>1, <1>4 DEF TypesInv, Types, Paths
  <1>6. VolumesInv'
    BY <1>2, <1>4, <1>5 DEF PlacesInv, VolumesInv
  <1>7. PublishedStays
    BY <1>2 DEF PublishedStays
  <1>8. CheckInv'
    BY <1>3, <1>7, CheckOnlyBroken DEF PlacesInv
  <1> QED
    BY <1>1, <1>6, <1>7, <1>8, PathsKept DEF PlacesInv

LEMMA PlacesRest ==
    ASSUME TypesInv, PlacesInv, Surroundings
    PROVE  PlacesInv'
  <1>1. /\ UNCHANGED <<pods, disk, publish>>
        /\ check' = check \/ check' = Idle
    BY DEF Surroundings, EndCheck, ReconcilerRestart, ChangeSettings, ChangeDataset, vars
  <1>2. PublishedStays
    BY <1>1 DEF PublishedStays
  <1> QED
    BY <1>1, <1>2, PathsKept, CheckKept DEF PlacesInv, VolumesInv

LEMMA PlacesStep == TypesInv /\ PlacesInv /\ [Next]_vars => PlacesInv'
  BY StepCases, PlacesBeginPublish, PlacesMountDatasets, PlacesTagPod, PlacesEndPublish,
     PlacesBeginCheck, PlacesCheckPod, PlacesEndPod, PlacesPods, PlacesUnpublish,
     PlacesBreak, PlacesRest

\* The paths of the node at the start, one by one.
LEMMA InitDisk ==
    ASSUME Init, NEW p \in Pods
    PROVE  LET ds == Selected(p, InNamespace(NamespaceOf[p]))
           IN \/ disk[p] = NoPath
              \/ disk[p] = [NoPath EXCEPT !.there = TRUE]
              \/ \E key, n : disk[p] = [there |-> TRUE, folders |-> ds, mounts |-> ds,
                                        file |-> key, longest |-> n]
  <1> DEFINE ds == Selected(p, InNamespace(NamespaceOf[p]))
             key == CredentialText(settings.type, settings.secret)
  <1>1. disk[p] = IF pods[p].phase # "Running" THEN NoPath
                  ELSE IF ds = {} THEN [NoPath EXCEPT !.there = TRUE]
                  ELSE [there |-> TRUE, folders |-> ds, mounts |-> ds,
                        file |-> key, longest |-> Len(key)]
    BY DEF Init
  <1> HIDE DEF ds, key
  <1>2. \/ disk[p] = NoPath
        \/ disk[p] = [NoPath EXCEPT !.there = TRUE]
        \/ disk[p] = [there |-> TRUE, folders |-> ds, mounts |-> ds,
                      file |-> key, longest |-> Len(key)]
    BY <1>1
  <1> QED
    BY <1>2 DEF ds

LEMMA InitPods ==
    ASSUME Init
    PROVE  /\ check = Idle /\ spent.troubles = 0
           /\ \A p \in Pods :
                 \/ /\ pods[p].phase = "Running" /\ publish[p].pc = "done"
                    /\ pods[p].path = p /\ pods[p].watched /\ p \in Settled
                 \/ /\ pods[p].phase \in {"gone", "none"} /\ publish[p].pc = "wait"
                    /\ pods[p].path = None
           /\ \A p \in Pods : publish[p].datasets = {} /\ pods[p].condition = "None"
  <1>1. PICK cast \in Casts, driver \in Drivers \ {Nil} :
            pods = [p \in Pods |->
                   IF p \notin cast THEN [NewPod(p) EXCEPT !.phase = "gone"]
                   ELSE IF p \in Settled THEN Running(p, driver) ELSE NewPod(p)]
    BY DEF Init
  <1>2. \A p \in Pods :
            \/ pods[p] = [NewPod(p) EXCEPT !.phase = "gone"]
            \/ pods[p] = Running(p, driver) /\ p \in Settled
            \/ pods[p] = NewPod(p)
    BY <1>1
  <1>3. \A p \in Pods :
            \/ /\ pods[p].phase = "Running" /\ p \in Settled
               /\ pods[p].path = p /\ pods[p].watched
            \/ pods[p].phase \in {"gone", "none"} /\ pods[p].path = None
    <2> TAKE p \in Pods
    <2>1. CASE pods[p] = [NewPod(p) EXCEPT !.phase = "gone"]
      BY <2>1 DEF NewPod
    <2>2. CASE pods[p] = Running(p, driver) /\ p \in Settled
      BY <2>2 DEF NewPod, Running
    <2>3. CASE pods[p] = NewPod(p)
      BY <2>3 DEF NewPod
    <2> QED
      BY <1>2, <2>1, <2>2, <2>3
  <1>4. \A p \in Pods : pods[p].condition = "None"
    <2> TAKE p \in Pods
    <2>1. CASE pods[p] = [NewPod(p) EXCEPT !.phase = "gone"]
      BY <2>1 DEF NewPod
    <2>2. CASE pods[p] = Running(p, driver) /\ p \in Settled
      BY <2>2 DEF NewPod, Running
    <2>3. CASE pods[p] = NewPod(p)
      BY <2>3 DEF NewPod
    <2> QED
      BY <1>2, <2>1, <2>2, <2>3
  <1>5. \A p \in Pods :
            /\ publish[p].pc = IF pods[p].phase = "Running" THEN "done" ELSE "wait"
            /\ publish[p].datasets = {}
    BY DEF Init, Waiting
  <1>6. check = Idle /\ spent.troubles = 0
    BY DEF Init
  <1> QED
    BY <1>3, <1>4, <1>5, <1>6

LEMMA PlacesInit == Init => PlacesInv
  <1> SUFFICES ASSUME Init PROVE PlacesInv
    OBVIOUS
  <1>1. TypesInv
    BY TypesInit
  <1>2. VolumesInv
    <2> SUFFICES ASSUME NEW p \in Pods
                 PROVE  /\ disk[p].folders \subseteq Own(NamespaceOf[p])
                        /\ disk[p].mounts \subseteq disk[p].folders
                        /\ ~disk[p].there => disk[p] = NoPath
                        /\ publish[p].datasets = {} /\ publish[p].pc # "mount"
      BY DEF VolumesInv
    <2> DEFINE ds == Selected(p, InNamespace(NamespaceOf[p]))
    <2>1. ds \subseteq Own(NamespaceOf[p])
      BY <1>1, SelectedType, InNamespaceOwn
    <2> HIDE DEF ds
    <2>2. \/ disk[p] = NoPath
          \/ disk[p] = [NoPath EXCEPT !.there = TRUE]
          \/ \E key, n : disk[p] = [there |-> TRUE, folders |-> ds, mounts |-> ds,
                                    file |-> key, longest |-> n]
      BY InitDisk DEF ds
    <2>3. /\ disk[p].folders \subseteq Own(NamespaceOf[p])
          /\ disk[p].mounts \subseteq disk[p].folders
          /\ ~disk[p].there => disk[p] = NoPath
      <3>1. CASE disk[p] = NoPath
        BY <3>1 DEF NoPath
      <3>2. CASE disk[p] = [NoPath EXCEPT !.there = TRUE]
        BY <3>2 DEF NoPath
      <3>3. CASE \E key, n : disk[p] = [there |-> TRUE, folders |-> ds, mounts |-> ds,
                                        file |-> key, longest |-> n]
        BY <2>1, <3>3
      <3> QED
        BY <2>2, <3>1, <3>2, <3>3
    <2> QED
      BY <2>3, InitPods
  <1>3. PathsInv
    BY InitPods DEF PathsInv, Placed
  <1>4. CheckInv
    BY InitPods DEF CheckInv, Idle
  <1> QED
    BY <1>2, <1>3, <1>4 DEF PlacesInv

\* A pod never gets a dataset of another namespace: what a publication and a check
\* have in hand, and the paths that pods are annotated with, are of the namespace of
\* the pod they are for, although pods and datasets come and go in between.
THEOREM DatasetsStayHome == Spec => []OwnDatasetsOnly
  <1>1. Init => TypesInv /\ PlacesInv
    BY TypesInit, PlacesInit
  <1>2. TypesInv /\ PlacesInv /\ [Next]_vars => (TypesInv /\ PlacesInv)'
    BY TypesStep, PlacesStep
  <1>3. TypesInv /\ PlacesInv => OwnDatasetsOnly
    BY DEF PlacesInv, VolumesInv, Own, OwnDatasetsOnly
  <1> QED
    BY <1>1, <1>2, <1>3, PTL DEF Spec

--------------------------------------------------------------------------------
(* What the answer of a check says *)

\* The mounts that the check cannot answer for: they have died or were taken down since
\* it began, or it has skipped them.
Excused == check.broken \cup check.skipped

\* The pod of the entry has its datasets, as far as the check knows them and but for
\* those that it cannot answer for.
Served(entry) ==
    /\ NamespaceOf[entry[1]] \in DOMAIN check.known
    /\ \A d \in Selected(entry[1], check.known[NamespaceOf[entry[1]]]) :
          d \in disk[entry[2]].mounts \/ <<entry[2], d>> \in Excused \/ ~disk[entry[2]].there

\* The pods that the check has counted are served, and so is the one in hand, unless
\* it has failed.
AnswerInv ==
    /\ check.pc = "idle" => check.done = 0
    /\ check.pc = "condition" /\ ~check.failed => Served(check.target)
    /\ \E S \in SUBSET (check.listed \ check.todo) :
          /\ check.pc = "condition" => check.target \notin S
          /\ Cardinality(S) = check.done
          /\ \A entry \in S : entry[2] # None /\ Served(entry)

\* What a step leaves of a path, and of what the check knows.
DiskKept(path) ==
    /\ ~disk[path].there => ~disk'[path].there
    /\ \A d \in disk[path].mounts :
          d \in disk'[path].mounts \/ <<path, d>> \in Excused' \/ ~disk'[path].there
DisksKept ==
    \A path \in Pods : publish[path].pc \in {"condition", "done"} => DiskKept(path)
KnownKept ==
    /\ Excused \subseteq Excused'
    /\ \A ns \in DOMAIN check.known :
          ns \in DOMAIN check'.known /\ check'.known[ns] = check.known[ns]

LEMMA ServedStays ==
    ASSUME TypesInv, PlacesInv, DisksKept, KnownKept,
           NEW entry \in check.listed, entry[2] # None, Served(entry)
    PROVE  Served(entry)'
  <1>1. entry[2] \in Pods /\ DiskKept(entry[2])
    BY DEF PlacesInv, CheckInv, Placed, DisksKept, TypesInv, Types, Checks, Entries
  <1> QED
    BY <1>1 DEF Served, DiskKept, KnownKept

\* Every listed pod is one of finitely many.
LEMMA ListedFinite == ASSUME TypesInv PROVE IsFiniteSet(check.listed)
  <1>1. IsFiniteSet(Pods \cup {None})
    BY FS_AddElement, NodePodsAssumption DEF NodePodsAssumption
  <1>2. IsFiniteSet(Entries)
    BY <1>1, FS_Product, NodePodsAssumption DEF NodePodsAssumption, Entries
  <1> QED
    BY <1>2, FS_Subset DEF TypesInv, Types, Checks

\* The answer stays as it is when the check does.
LEMMA AnswerKept ==
    ASSUME TypesInv, PlacesInv, AnswerInv, DisksKept, KnownKept,
           check'.pc = check.pc, check'.listed = check.listed, check'.todo \subseteq check.todo,
           check'.target = check.target, check'.failed = check.failed,
           check'.done = check.done
    PROVE  AnswerInv'
  <1>1. PICK S \in SUBSET (check.listed \ check.todo) :
            /\ check.pc = "condition" => check.target \notin S
            /\ Cardinality(S) = check.done
            /\ \A entry \in S : entry[2] # None /\ Served(entry)
    BY DEF AnswerInv
  <1>2. \A entry \in S : entry[2] # None /\ Served(entry)'
    BY <1>1, ServedStays
  <1>3. check.pc = "condition" /\ ~check.failed => Served(check.target)'
    BY ServedStays DEF AnswerInv, PlacesInv, CheckInv
  <1>4. (check.pc = "condition" /\ ~check.failed => Served(check.target))'
    BY <1>3 DEF Served
  <1> QED
    BY <1>1, <1>2, <1>4 DEF AnswerInv

\* A check that begins, or ends, has no answer yet.
LEMMA AnswerAnew ==
    ASSUME check'.pc # "condition", check'.done = 0
    PROVE  AnswerInv'
  BY FS_EmptySet DEF AnswerInv

LEMMA AnswerOfPublication ==
    ASSUME TypesInv, PlacesInv, AnswerInv, NEW p \in Pods,
           BeginPublish(p) \/ MountDatasets(p) \/ TagPod(p) \/ EndPublish(p)
    PROVE  AnswerInv'
  <1>1. UNCHANGED check
    BY DEF BeginPublish, MountDatasets, TagPod, EndPublish
  <1>2. KnownKept
    BY <1>1 DEF KnownKept, Excused
  <1>3. DisksKept
    <2>1. CASE BeginPublish(p)
      <3>1. publish[p].pc = "wait" /\ \A q \in Pods \ {p} : disk'[q] = disk[q]
        BY <2>1 DEF BeginPublish, TypesInv, Types
      <3> QED
        BY <3>1 DEF DisksKept, DiskKept
    <2>2. CASE MountDatasets(p)
      <3>1. publish[p].pc = "mount" /\ \A q \in Pods \ {p} : disk'[q] = disk[q]
        BY <2>2 DEF MountDatasets, Mounted, TypesInv, Types
      <3> QED
        BY <3>1 DEF DisksKept, DiskKept
    <2>3. CASE TagPod(p) \/ EndPublish(p)
      BY <2>3 DEF TagPod, EndPublish, DisksKept, DiskKept
    <2> QED
      BY <2>1, <2>2, <2>3
  <1> QED
    BY <1>1, <1>2, <1>3, AnswerKept

LEMMA AnswerOfBeginCheck ==
    ASSUME TypesInv, PlacesInv, AnswerInv, NEW scope \in Scopes, BeginCheck(scope)
    PROVE  AnswerInv'
  <1> DEFINE list == PodsToReconcile(scope)
             key == CredentialText(settings.type, settings.secret)
             todo == {entry \in list : entry[2] # None}
             known == InHand(scope)
             begun == [Idle EXCEPT !.pc = "pods", !.listed = list, !.scope = scope,
                          !.todo = todo, !.known = known,
                          !.since = spent.troubles, !.key = key]
  <1>1. check' = begun \/ (check' = check /\ UNCHANGED disk)
    BY DEF BeginCheck
  <1> HIDE DEF list, key, todo, known
  <1>2. begun.pc = "pods" /\ begun.done = 0
    BY IdleType DEF Idle
  <1> HIDE DEF begun
  <1>3. CASE check' = begun
    BY <1>2, <1>3, AnswerAnew
  <1>4. CASE check' = check /\ UNCHANGED disk
    BY <1>4, AnswerKept DEF KnownKept, DisksKept, DiskKept, Excused
  <1> QED
    BY <1>1, <1>3, <1>4

\* Mounting what is not mounted takes nothing away.
LEMMA FilledKept ==
    ASSUME TypesInv, NEW path \in Pods, NEW todo, todo \cap disk[path].mounts = {},
           NEW failing \in SUBSET todo, OneFilled(path, todo, failing)
    PROVE  /\ \A q \in Pods : DiskKept(q)
           /\ disk[path].mounts \subseteq disk'[path].mounts
  BY DEF DiskKept, OneFilled

LEMMA AnswerOfCheckPod ==
    ASSUME TypesInv, PlacesInv, AnswerInv, NEW entry \in Pods \X Pods, CheckPod(entry)
    PROVE  AnswerInv'
  <1> DEFINE ns == NamespaceOf[entry[1]]
             path == entry[2]
             ds == DatasetsFor(ns)
             fixing == Fixing(entry, ds)
             taken == Learned(entry, ds)
  <1>1. check.pc = "pods" /\ entry \in check.todo /\ entry \in check.listed
        /\ entry \in Entries /\ check \in Checks /\ check.key \in Texts
    BY DEF CheckPod, PlacesInv, CheckInv, Entries, TypesInv, Types, Keyed
  <1>2. ds \in SUBSET Datasets
    BY DatasetsForType
  <1>3. /\ taken \in Checks
        /\ taken.todo = check.todo \ {entry}
        /\ DOMAIN taken.known = DOMAIN check.known \cup {ns}
        /\ taken.known[ns] = ds
        /\ \A n \in DOMAIN check.known \ {ns} : taken.known[n] = check.known[n]
        /\ taken.pc = check.pc /\ taken.listed = check.listed
        /\ taken.done = check.done /\ taken.broken = check.broken
        /\ taken.target = check.target /\ taken.failed = check.failed
        /\ taken.skipped = check.skipped
    BY <1>1, <1>2, LearnedType
  <1>4. \A n \in DOMAIN check.known : n \in DOMAIN taken.known /\ taken.known[n] = check.known[n]
    BY <1>3 DEF DatasetsFor
  <1> HIDE DEF taken
  <1>5. CASE check' = taken /\ UNCHANGED disk
    <2>1. KnownKept /\ DisksKept
      BY <1>3, <1>4, <1>5 DEF KnownKept, DisksKept, DiskKept, Excused
    <2> QED
      BY <1>3, <1>5, <2>1, AnswerKept
  <1>6. CASE check' = [check EXCEPT !.todo = @ \ {entry}] /\ UNCHANGED disk
    <2>1. /\ check'.pc = check.pc /\ check'.listed = check.listed
          /\ check'.todo \subseteq check.todo
          /\ check'.target = check.target /\ check'.failed = check.failed
          /\ check'.done = check.done /\ check'.known = check.known
          /\ check'.broken = check.broken /\ check'.skipped = check.skipped
      BY <1>1, <1>6 DEF Checks
    <2>2. KnownKept /\ DisksKept
      BY <1>6, <2>1 DEF KnownKept, DisksKept, DiskKept, Excused
    <2> QED
      BY <2>1, <2>2, AnswerKept
  <1>7. ASSUME NEW count \in Nat, NEW failed \in BOOLEAN, NEW skipped \in SUBSET fixing,
               check' = WithResult(taken, entry, count, failed, skipped),
               \/ UNCHANGED disk /\ (failed \/ ~disk[path].there)
               \/ \E failing \in SUBSET (fixing \ skipped) :
                     /\ disk' = Mounted(path, fixing \ skipped, check.key, failing)
                     /\ ~failed => failing = {}
        PROVE  AnswerInv'
    <2>1. fixing \in SUBSET Datasets /\ fixing \cap disk[path].mounts = {}
      BY <1>2, SelectedType DEF Fixing, Processed
    <2>2. disk \in [Pods -> Paths]
      BY DEF TypesInv, Types
    <2>3. Selected(entry[1], ds) \ disk[path].mounts \subseteq fixing
      BY DEF Fixing, Processed, Selected
    <2> HIDE DEF fixing
    <2>4. /\ check'.pc = "condition" /\ check'.target = entry /\ check'.failed = failed
          /\ check'.todo = taken.todo /\ check'.known = taken.known
          /\ check'.listed = check.listed /\ check'.done = check.done
          /\ check'.broken = check.broken
          /\ check'.skipped = check.skipped \cup ({path} \X skipped)
      BY <1>3, <1>7, <2>1, ResultType
    <2>5. KnownKept /\ {path} \X skipped \subseteq Excused'
      BY <1>4, <2>4 DEF KnownKept, Excused
    <2> DEFINE todo == fixing \ skipped
    <2>6. todo \in SUBSET Datasets /\ todo \cap disk[path].mounts = {}
          /\ Selected(entry[1], ds) \subseteq disk[path].mounts \cup todo \cup skipped
      BY <2>1, <2>3
    <2>7. \/ UNCHANGED disk /\ (failed \/ ~disk[path].there)
          \/ \E failing \in SUBSET todo :
                /\ disk' = Mounted(path, todo, check.key, failing)
                /\ ~failed => failing = {}
      BY <1>7
    <2> HIDE DEF todo
    <2>8. \/ UNCHANGED disk /\ (failed \/ ~disk[path].there)
          \/ \E failing \in SUBSET todo :
                OneFilled(path, todo, failing) /\ (~failed => failing = {})
      BY <1>1, <2>2, <2>6, <2>7, MountedType
    <2>9. DisksKept
      <3>1. CASE UNCHANGED disk
        BY <3>1 DEF DisksKept, DiskKept
      <3>2. CASE \E failing \in SUBSET todo : OneFilled(path, todo, failing)
        BY <2>6, <3>2, FilledKept DEF DisksKept
      <3> QED
        BY <2>8, <3>1, <3>2
    <2>10. ~failed => Served(entry)'
      <3> SUFFICES ASSUME ~failed PROVE Served(entry)'
        OBVIOUS
      <3>1. ns \in DOMAIN check'.known /\ check'.known[ns] = ds
        BY <1>3, <2>4
      <3> HIDE DEF ds
      <3>2. ~disk'[path].there
            \/ Selected(entry[1], ds) \subseteq disk'[path].mounts \cup skipped
        BY <2>8, <2>6 DEF OneFilled
      <3>3. \A d \in skipped : <<path, d>> \in Excused'
        BY <2>5
      <3> QED
        BY <3>1, <3>2, <3>3 DEF Served
    <2>11. PICK S \in SUBSET (check.listed \ check.todo) :
              /\ Cardinality(S) = check.done
              /\ \A e \in S : e[2] # None /\ Served(e)
      BY DEF AnswerInv
    <2>12. \A e \in S : e[2] # None /\ Served(e)'
      BY <2>5, <2>9, <2>11, ServedStays
    <2>13. S \in SUBSET (check'.listed \ check'.todo) /\ entry \notin S
      BY <1>1, <1>3, <2>4
    <2>14. (check.pc = "condition" /\ ~check.failed => Served(check.target))'
      BY <2>4, <2>10 DEF Served
    <2> QED
      BY <2>4, <2>11, <2>12, <2>13, <2>14 DEF AnswerInv
  <1> QED
    BY <1>5, <1>6, <1>7, CheckPodCases DEF taken, fixing

LEMMA AnswerOfEndPod ==
    ASSUME TypesInv, PlacesInv, AnswerInv, EndPod
    PROVE  AnswerInv'
  <1>1. /\ check.pc = "condition" /\ UNCHANGED disk
        /\ check'.pc = "pods" /\ check'.todo = check.todo /\ check'.known = check.known
        /\ check'.listed = check.listed /\ check'.broken = check.broken
        /\ check'.skipped = check.skipped
        /\ check'.done = check.done + Counted(check.failed)
    BY TypesEndPod DEF EndPod
  <1>2. KnownKept /\ DisksKept
    BY <1>1 DEF KnownKept, DisksKept, DiskKept, Excused
  <1>3. PICK S \in SUBSET (check.listed \ check.todo) :
            /\ check.target \notin S
            /\ Cardinality(S) = check.done
            /\ \A e \in S : e[2] # None /\ Served(e)
    BY <1>1 DEF AnswerInv
  <1>4. check.target \in check.listed \ check.todo /\ check.target[2] # None
    BY <1>1 DEF PlacesInv, CheckInv
  <1>5. check.done \in Nat /\ IsFiniteSet(S)
    BY ListedFinite, FS_Subset DEF TypesInv, Types, Checks
  <1>6. CASE check.failed
    <2>1. check'.done = check.done
      BY <1>1, <1>5, <1>6 DEF Counted
    <2>2. \A e \in S : e[2] # None /\ Served(e)'
      BY <1>2, <1>3, ServedStays
    <2> QED
      BY <1>1, <1>3, <2>1, <2>2 DEF AnswerInv
  <1>7. CASE ~check.failed
    <2> DEFINE T == S \cup {check.target}
    <2>1. check'.done = check.done + 1
      BY <1>1, <1>7 DEF Counted
    <2>2. Cardinality(T) = check'.done
      <3>1. Cardinality(T) = Cardinality(S) + 1
        BY <1>3, <1>5, FS_AddElement
      <3> QED
        BY <1>3, <2>1, <3>1
    <2>3. T \in SUBSET (check.listed \ check.todo)
      BY <1>3, <1>4
    <2>4. \A e \in T : e[2] # None /\ Served(e)
      BY <1>1, <1>3, <1>4, <1>7 DEF AnswerInv
    <2>5. \A e \in T : e[2] # None /\ Served(e)'
      BY <1>2, <2>3, <2>4, ServedStays
    <2> HIDE DEF T
    <2> QED
      BY <1>1, <2>2, <2>3, <2>5 DEF AnswerInv
  <1> QED
    BY <1>6, <1>7

\* A check that is told of the mounts that go can answer all the same.
LEMMA AnswerOnlyBroken ==
    ASSUME TypesInv, PlacesInv, AnswerInv, OnlyBroken, check.pc # "idle" => DisksKept
    PROVE  AnswerInv'
  <1>1. CASE check.pc # "idle"
    <2>1. KnownKept
      BY DEF OnlyBroken, KnownKept, Excused
    <2> QED
      BY <1>1, <2>1, AnswerKept DEF OnlyBroken
  <1>2. CASE check.pc = "idle"
    BY <1>2, AnswerAnew DEF AnswerInv, OnlyBroken
  <1> QED
    BY <1>1, <1>2

LEMMA AnswerOfUnpublish ==
    ASSUME TypesInv, PlacesInv, AnswerInv, NEW p \in Pods, Unpublish(p)
    PROVE  AnswerInv'
  <1>1. /\ PathShrinks(p) /\ OnlyBroken /\ disk[p].there
        /\ check.pc # "idle" /\ disk'[p].there =>
              \A d \in disk[p].mounts \ disk'[p].mounts : <<p, d>> \in check'.broken
    BY UnpublishFields
  <1>2. check.pc # "idle" => DisksKept
    BY <1>1 DEF PathShrinks, DisksKept, DiskKept, Excused
  <1> QED
    BY <1>1, <1>2, AnswerOnlyBroken

LEMMA AnswerOfBreak ==
    ASSUME TypesInv, PlacesInv, AnswerInv, NEW p \in Pods, NEW d \in Datasets, Break(p, d)
    PROVE  AnswerInv'
  <1>1. OnlyBroken /\ (check.pc # "idle" => <<p, d>> \in check'.broken)
    BY LoseFields DEF Break
  <1>2. /\ \A q \in Pods \ {p} : disk'[q] = disk[q]
        /\ disk'[p].there = disk[p].there
        /\ disk'[p].mounts = disk[p].mounts \ {d}
    BY DEF Break, TypesInv, Types, Paths
  <1>3. check.pc # "idle" => DisksKept
    BY <1>1, <1>2 DEF DisksKept, DiskKept, Excused
  <1> QED
    BY <1>1, <1>3, AnswerOnlyBroken

LEMMA AnswerOfTheRest ==
    ASSUME TypesInv, PlacesInv, AnswerInv, Surroundings \/ \E p \in Pods : PodStep(p)
    PROVE  AnswerInv'
  <1>1. UNCHANGED disk /\ (UNCHANGED check \/ check' = Idle)
    BY DEF Surroundings, EndCheck, ReconcilerRestart, ChangeSettings, ChangeDataset, vars,
           PodStep, CreatePod, StartPod, DeletePod, ForceDelete, Forget
  <1>2. CASE UNCHANGED check
    BY <1>1, <1>2, AnswerKept DEF KnownKept, DisksKept, DiskKept, Excused
  <1>3. CASE check' = Idle
    BY <1>3, AnswerAnew DEF Idle
  <1> QED
    BY <1>1, <1>2, <1>3

LEMMA AnswerStep == TypesInv /\ PlacesInv /\ AnswerInv /\ [Next]_vars => AnswerInv'
  BY StepCases, AnswerOfPublication, AnswerOfBeginCheck, AnswerOfCheckPod, AnswerOfEndPod,
     AnswerOfUnpublish, AnswerOfBreak, AnswerOfTheRest

NodeInv == TypesInv /\ PlacesInv /\ AnswerInv

LEMMA NodeInvStep == NodeInv /\ [Next]_vars => NodeInv'
  BY TypesStep, PlacesStep, AnswerStep DEF NodeInv

LEMMA NodeInvInit == Init => NodeInv
  <1>1. Init => check.pc = "idle" /\ check.done = 0 /\ check.listed = {}
    BY InitPods DEF Idle
  <1>2. Init => AnswerInv
    BY <1>1, FS_EmptySet DEF AnswerInv
  <1> QED
    BY <1>2, TypesInit, PlacesInit DEF NodeInv

LEMMA NodeInvAlways == Spec => []NodeInv
  BY NodeInvInit, NodeInvStep, PTL DEF Spec

\* Types, in every reachable state; the answer of a check is at most what it has
\* left of its list.
THEOREM NodePodsTypes == Spec => []TypeOK
  <1>1. NodeInv => TypeOK
    <2> SUFFICES ASSUME NodeInv PROVE TypeOK
      OBVIOUS
    <2>1. check.done + Cardinality(check.todo) <= Cardinality(check.listed)
      <3>1. PICK S \in SUBSET (check.listed \ check.todo) : Cardinality(S) = check.done
        BY DEF NodeInv, AnswerInv
      <3>2. check.todo \subseteq check.listed /\ IsFiniteSet(check.listed)
        BY ListedFinite DEF NodeInv, PlacesInv, CheckInv
      <3>3. IsFiniteSet(S) /\ IsFiniteSet(check.todo) /\ S \cap check.todo = {}
            /\ S \cup check.todo \in SUBSET check.listed
        BY <3>2, FS_Subset
      <3>4. Cardinality(S \cup check.todo) = Cardinality(S) + Cardinality(check.todo)
        <4>1. Cardinality(S \cup check.todo)
                  = Cardinality(S) + Cardinality(check.todo) - Cardinality(S \cap check.todo)
          BY <3>3, FS_Union
        <4>2. Cardinality(S \cap check.todo) = 0
          BY <3>3, FS_EmptySet
        <4>3. Cardinality(S) \in Nat /\ Cardinality(check.todo) \in Nat
          BY <3>3, FS_CardinalityType
        <4> QED
          BY <4>1, <4>2, <4>3
      <3>5. Cardinality(S \cup check.todo) <= Cardinality(check.listed)
        BY <3>2, <3>3, FS_Subset
      <3> QED
        BY <3>1, <3>4, <3>5
    <2>2. ASSUME NEW p \in Pods
          PROVE  /\ pods[p].phase \in {"none", "Pending", "Running", "gone"}
                 /\ {pods[p].deleted, pods[p].watched} \subseteq BOOLEAN
                 /\ pods[p].path \in Pods \cup {None} /\ pods[p].condition \in Conditions
                 /\ disk[p] \in Paths
                 /\ publish[p].pc \in {"wait", "mount", "tag", "condition", "done"}
                 /\ publish[p].key \in Texts \cup {<<>>}
      BY DEF NodeInv, TypesInv, Types, PodRecords, Calls
    <2>3. /\ check.pc \in {"idle", "pods", "condition"}
          /\ check.listed \subseteq Pods \X (Pods \cup {None})
          /\ settings \in Settings /\ catalog \subseteq Datasets
      BY DEF NodeInv, TypesInv, Types, Checks, Entries
    <2> QED
      BY <2>1, <2>2, <2>3 DEF TypeOK, NodeInv, PlacesInv, VolumesInv, CheckInv
  <1> QED
    BY <1>1, NodeInvAlways, PTL

\* What the answer of a check is worth: when it counts as many pods as were listed, each
\* of them has the datasets that select it, whatever failed, restarted or was deleted
\* since the list was made; but for the mounts that have died or were taken down since,
\* the paths that are gone, and the datasets that the check has skipped because their
\* folders could not be cleaned up (isMountRequired), for which nothing is promised.
THEOREM AnswersAreTrue == Spec => RepairedIsTrue
  <1>1. NodeInv /\ [Next]_vars =>
           [EndCheck /\ check.done = Cardinality(check.listed) =>
              \A entry \in check.listed :
                  \A d \in Selected(entry[1], check.known[NamespaceOf[entry[1]]]) :
                      \/ d \in disk[entry[2]].mounts
                      \/ <<entry[2], d>> \in check.broken \cup check.skipped
                      \/ ~disk[entry[2]].there]_vars
    <2> SUFFICES ASSUME NodeInv, EndCheck, check.done = Cardinality(check.listed),
                        NEW entry \in check.listed
                 PROVE  Served(entry)
      BY DEF Served, Excused
    <2>1. PICK S \in SUBSET (check.listed \ check.todo) :
              Cardinality(S) = check.done /\ \A e \in S : Served(e)
      BY DEF NodeInv, AnswerInv
    <2>2. S = check.listed
      BY <2>1, ListedFinite, FS_Subset DEF NodeInv
    <2> QED
      BY <2>1, <2>2
  <1> QED
    BY <1>1, NodeInvAlways, PTL DEF Spec, RepairedIsTrue

--------------------------------------------------------------------------------
(* What the condition of a pod says *)

\* A publication without an error has mounted what selects its pod, unless it has
\* died since.
EarnedInv ==
    \A p \in Pods : publish[p].pc \in {"tag", "condition"} /\ ~publish[p].failed =>
        Selected(p, publish[p].datasets) \subseteq disk[p].mounts \cup publish[p].broken

\* A step leaves this of a publication that has mounted.
CallKept(p) ==
    publish'[p].pc \in {"tag", "condition"} =>
        /\ publish[p].pc \in {"tag", "condition"}
        /\ publish'[p].failed = publish[p].failed
        /\ publish'[p].datasets = publish[p].datasets
        /\ disk[p].mounts \cup publish[p].broken \subseteq disk'[p].mounts \cup publish'[p].broken

LEMMA EarnedKept ==
    ASSUME EarnedInv, NEW p \in Pods, CallKept(p),
           publish'[p].pc \in {"tag", "condition"}, ~publish'[p].failed
    PROVE  Selected(p, publish'[p].datasets) \subseteq disk'[p].mounts \cup publish'[p].broken
  BY DEF EarnedInv, CallKept

LEMMA EarnedByPublication ==
    ASSUME NodeInv, EarnedInv, NEW p \in Pods,
           BeginPublish(p) \/ MountDatasets(p) \/ TagPod(p) \/ EndPublish(p) \/ Unpublish(p)
    PROVE  EarnedInv'
  <1>1. ASSUME NEW q \in Pods, q # p PROVE CallKept(q)
    <2>1. Unpublish(p) => publish'[q] = publish[q] /\ disk'[q] = disk[q]
      BY <1>1, UnpublishFields DEF PathShrinks, NodeInv
    <2>2. publish'[q] = publish[q] /\ disk'[q] = disk[q]
      BY <1>1, <2>1 DEF BeginPublish, MountDatasets, TagPod, EndPublish, Mounted,
                  NodeInv, TypesInv, Types
    <2> QED
      BY <2>2 DEF CallKept
  <1> SUFFICES ASSUME publish'[p].pc \in {"tag", "condition"}, ~publish'[p].failed
               PROVE  Selected(p, publish'[p].datasets)
                          \subseteq disk'[p].mounts \cup publish'[p].broken
    BY <1>1, EarnedKept DEF EarnedInv
  <1>2. CASE BeginPublish(p)
    <2>1. PICK call \in Calls :
              /\ publish' = [publish EXCEPT ![p] = call]
              /\ call.pc \in {"mount", "tag", "done"}
              /\ call.pc = "tag" => call.failed
      BY <1>2, BeginPublishCases DEF NodeInv
    <2> QED
      BY <2>1 DEF NodeInv, TypesInv, Types
  <1>3. CASE MountDatasets(p)
    <2> DEFINE ds == publish[p].datasets
               todo == Selected(p, ds)
    <2>1. PICK count \in Nat, failed \in BOOLEAN :
              /\ publish' = [publish EXCEPT ![p] =
                    [publish[p] EXCEPT !.pc = "tag", !.key = <<>>, !.count = count,
                                       !.failed = failed]]
              /\ \/ UNCHANGED disk /\ (~failed => ds = {})
                 \/ \E failing :
                      /\ disk' = Mounted(p, todo, publish[p].key, failing)
                      /\ ~failed => failing = {}
      BY <1>3, MountDatasetsCases DEF NodeInv
    <2>2. publish'[p].failed = failed /\ publish'[p].datasets = ds
      <3> DEFINE new == [publish[p] EXCEPT !.pc = "tag", !.key = <<>>, !.count = count,
                                           !.failed = failed]
      <3>1. new.failed = failed /\ new.datasets = ds
        BY DEF NodeInv, TypesInv, Types, Calls
      <3> HIDE DEF new
      <3>2. publish' = [publish EXCEPT ![p] = new]
        BY <2>1 DEF new
      <3> QED
        BY <3>1, <3>2 DEF NodeInv, TypesInv, Types
    <2>3. todo \subseteq ds /\ todo \in SUBSET Datasets /\ publish[p].key \in Texts
          /\ disk \in [Pods -> Paths]
      BY <1>3, SelectedType DEF MountDatasets, NodeInv, TypesInv, Types, Keyed, Calls
    <2> HIDE DEF todo, ds
    <2>4. todo \subseteq disk'[p].mounts
      <3>1. CASE UNCHANGED disk /\ (~failed => ds = {})
        BY <2>2, <2>3, <3>1
      <3>2. ASSUME NEW failing, disk' = Mounted(p, todo, publish[p].key, failing),
                   ~failed => failing = {}
            PROVE  todo \subseteq disk'[p].mounts
        <4>1. OneFilled(p, todo, failing)
          BY <2>3, <3>2, MountedType
        <4> QED
          BY <2>2, <3>2, <4>1 DEF OneFilled
      <3> QED
        BY <2>1, <3>1, <3>2
    <2> QED
      BY <2>2, <2>4 DEF todo, ds
  <1>4. CASE TagPod(p)
    <2>1. CallKept(p)
      BY <1>4 DEF TagPod, CallKept, NodeInv, TypesInv, Types, Calls
    <2> QED
      BY <2>1, EarnedKept
  <1>5. CASE EndPublish(p)
    BY <1>5 DEF EndPublish, Waiting, NodeInv, TypesInv, Types
  <1>6. CASE Unpublish(p)
    BY <1>6, UnpublishFields DEF NodeInv
  <1> QED
    BY <1>2, <1>3, <1>4, <1>5, <1>6

LEMMA EarnedBesideCheck ==
    ASSUME NodeInv, EarnedInv, NEW entry \in Pods \X Pods, CheckPod(entry)
    PROVE  EarnedInv'
  <1> DEFINE ds == DatasetsFor(NamespaceOf[entry[1]])
             fixing == Fixing(entry, ds)
  <1>1. UNCHANGED publish /\ check.pc = "pods" /\ check.key \in Texts
        /\ disk \in [Pods -> Paths]
    BY DEF CheckPod, NodeInv, TypesInv, Types, Keyed
  <1>2. ds \in SUBSET Datasets
    BY DatasetsForType DEF NodeInv
  <1>3. fixing \in SUBSET Datasets /\ fixing \cap disk[entry[2]].mounts = {}
    BY <1>2, SelectedType DEF Fixing, Processed
  <1>4. \/ UNCHANGED disk
        \/ \E skipped \in SUBSET fixing : \E failing \in SUBSET (fixing \ skipped) :
              disk' = Mounted(entry[2], fixing \ skipped, check.key, failing)
    BY CheckPodCases DEF NodeInv
  <1> HIDE DEF fixing
  <1>5. \A q \in Pods : disk[q].mounts \subseteq disk'[q].mounts
    <2>1. ASSUME NEW todo \in SUBSET fixing, NEW failing \in SUBSET todo,
                 disk' = Mounted(entry[2], todo, check.key, failing)
          PROVE  \A q \in Pods : disk[q].mounts \subseteq disk'[q].mounts
      <3>1. OneFilled(entry[2], todo, failing)
        BY <1>1, <1>3, <2>1, MountedType
      <3> QED
        BY <1>3, <3>1 DEF OneFilled
    <2>2. \A skipped : fixing \ skipped \in SUBSET fixing
      OBVIOUS
    <2> QED
      BY <1>4, <2>1, <2>2
  <1>6. \A q \in Pods : CallKept(q)
    BY <1>1, <1>5 DEF CallKept
  <1> QED
    BY <1>6, EarnedKept DEF EarnedInv

LEMMA EarnedByTheRest ==
    ASSUME NodeInv, EarnedInv,
           \/ Surroundings \/ EndPod
           \/ \E scope \in Scopes : BeginCheck(scope)
           \/ \E p \in Pods : PodStep(p)
           \/ \E p \in Pods, d \in Datasets : Break(p, d)
    PROVE  EarnedInv'
  <1>1. CASE \E p \in Pods, d \in Datasets : Break(p, d)
    <2>1. PICK p \in Pods, d \in Datasets : Break(p, d)
      BY <1>1
    <2>2. \A q \in Pods :
              /\ publish'[q].pc = publish[q].pc /\ publish'[q].failed = publish[q].failed
              /\ publish'[q].datasets = publish[q].datasets
              /\ publish[q].broken \subseteq publish'[q].broken
              /\ q = p /\ publish[q].pc # "done" => d \in publish'[q].broken
      BY <2>1 DEF Break, NodeInv, TypesInv, Types, Calls
    <2>3. /\ \A q \in Pods \ {p} : disk'[q] = disk[q]
          /\ disk'[p].mounts = disk[p].mounts \ {d}
      BY <2>1 DEF Break, NodeInv, TypesInv, Types, Paths
    <2>4. \A q \in Pods : CallKept(q)
      BY <2>2, <2>3 DEF CallKept
    <2> QED
      BY <2>4, EarnedKept DEF EarnedInv
  <1>2. CASE UNCHANGED <<disk, publish>>
    BY <1>2 DEF EarnedInv
  <1> QED
    BY <1>1, <1>2 DEF Surroundings, EndCheck, ReconcilerRestart, ChangeSettings, ChangeDataset,
           vars, PodStep, CreatePod, StartPod, DeletePod, ForceDelete, Forget, EndPod, BeginCheck

LEMMA EarnedStep == NodeInv /\ EarnedInv /\ [Next]_vars => EarnedInv'
  BY StepCases, EarnedByPublication, EarnedBesideCheck, EarnedByTheRest

\* Only the last steps of a publication and of the repair of a pod write conditions.
LEMMA ConditionWriters ==
    ASSUME NodeInv, [Next]_vars, NEW q \in Pods, pods'[q].condition # pods[q].condition
    PROVE  \/ \E p \in Pods :
                 /\ EndPublish(p)
                 /\ pods'[q].condition = PublishReason(publish[p].count, publish[p].failed)
           \/ EndPod /\ pods'[q].condition = ReconcileReason(check.count, check.failed)
  <1>1. ~UNCHANGED pods
    OBVIOUS
  <1>2. ASSUME NEW p \in Pods, TagPod(p) PROVE FALSE
    <2>1. pods'[q] = pods[q] \/ pods'[q] = [pods[q] EXCEPT !.watched = TRUE, !.path = p]
      BY <1>2 DEF TagPod
    <2> QED
      BY <2>1 DEF NodeInv, TypesInv, Types, PodRecords
  <1>3. ASSUME NEW p \in Pods, PodStep(p) PROVE FALSE
    BY <1>3 DEF PodStep, CreatePod, StartPod, DeletePod, ForceDelete, Forget,
                NodeInv, TypesInv, Types, PodRecords
  <1>4. ASSUME NEW p \in Pods, EndPublish(p)
        PROVE  pods'[q].condition = PublishReason(publish[p].count, publish[p].failed)
    <2> DEFINE reason == PublishReason(publish[p].count, publish[p].failed)
    <2>1. reason \in Conditions /\ WriteCondition(p, reason)
      BY <1>4 DEF EndPublish, PublishReason, Conditions
    <2> HIDE DEF reason
    <2>2. pods'[q].condition \in {reason, pods[q].condition}
      BY <2>1, WrittenByName DEF NodeInv, TypesInv, Types
    <2> QED
      BY <2>2 DEF reason
  <1>5. EndPod => pods'[q].condition = ReconcileReason(check.count, check.failed)
    BY TypesEndPod DEF NodeInv
  <1>6. ASSUME Surroundings \/ (\E scope \in Scopes : BeginCheck(scope))
               \/ (\E p \in Pods : BeginPublish(p) \/ MountDatasets(p) \/ Unpublish(p))
               \/ (\E entry \in Pods \X Pods : CheckPod(entry))
               \/ (\E p \in Pods, d \in Datasets : Break(p, d))
        PROVE  UNCHANGED pods
    <2>1. \A p \in Pods : Unpublish(p) => UNCHANGED pods
      BY UnpublishFields DEF NodeInv
    <2> QED
      BY <1>6, <2>1 DEF Surroundings, EndCheck, ReconcilerRestart, ChangeSettings,
             ChangeDataset, vars, BeginCheck, BeginPublish, MountDatasets, CheckPod, Break
  <1> QED
    BY <1>1, <1>2, <1>3, <1>4, <1>5, <1>6, StepCases

\* "Complete" is only written by the last step of a publication or of a repair that
\* has not failed, and its datasets are mounted then, whatever other calls and crashes
\* did in between; but for the mounts that have died or were taken down since the call
\* began, and those that a repair has skipped because their folders could not be cleaned
\* up (isMountRequired): with one of these the pod is told "Complete" all the same.
THEOREM ConditionsAreEarned == Spec => CompleteIsEarned
  <1> DEFINE Inv == NodeInv /\ EarnedInv
             Earned ==
                \/ \E p \in Pods :
                      /\ publish[p].pc = "condition" /\ publish'[p].pc = "done"
                      /\ Selected(p, publish[p].datasets)
                             \subseteq disk[p].mounts \cup publish[p].broken
                \/ /\ check.pc = "condition" /\ check'.pc = "pods"
                   /\ LET p == check.target[1]  path == check.target[2]
                      IN \/ ~disk[path].there
                         \/ \A d \in Selected(p, check.known[NamespaceOf[p]]) :
                               \/ d \in disk[path].mounts
                               \/ <<path, d>> \in check.broken \cup check.skipped
  <1>1. Init => Inv
    <2>1. Init => \A p \in Pods : publish[p].pc \notin {"tag", "condition"}
      BY InitPods
    <2> QED
      BY <2>1, NodeInvInit DEF EarnedInv
  <1>2. Inv /\ [Next]_vars => Inv'
    BY EarnedStep, NodeInvStep
  <1>3. ASSUME Inv, [Next]_vars, NEW q \in Pods,
               pods'[q].condition = "Complete", pods[q].condition # "Complete"
        PROVE  Earned
    <2>1. ASSUME NEW p \in Pods, EndPublish(p),
                 PublishReason(publish[p].count, publish[p].failed) = "Complete"
          PROVE  Earned
      <3>1. ~publish[p].failed
        BY <2>1 DEF PublishReason
      <3>2. publish[p].pc = "condition" /\ publish'[p].pc = "done"
        BY <1>3, <2>1, WaitingType DEF EndPublish, NodeInv, TypesInv, Types, Calls
      <3> QED
        BY <1>3, <3>1, <3>2 DEF EarnedInv
    <2>2. ASSUME EndPod, ReconcileReason(check.count, check.failed) = "Complete"
          PROVE  Earned
      <3>1. ~check.failed
        BY <2>2 DEF ReconcileReason
      <3>2. check.pc = "condition" /\ check'.pc = "pods"
        BY <1>3, <2>2, TypesEndPod DEF EndPod, NodeInv
      <3>3. Served(check.target)
        BY <1>3, <3>1, <3>2 DEF NodeInv, AnswerInv
      <3> QED
        BY <3>2, <3>3 DEF Served, Excused
    <2> QED
      BY <1>3, <2>1, <2>2, ConditionWriters
  <1>4. Inv /\ [Next]_vars =>
           [(\E q \in Pods : pods'[q].condition = "Complete" /\ pods[q].condition # "Complete")
               => Earned]_vars
    BY <1>3
  <1> HIDE DEF Inv
  <1> QED
    BY <1>1, <1>2, <1>4, PTL DEF Spec, CompleteIsEarned

--------------------------------------------------------------------------------
(* What checks find *)

\* As long as nothing fails: a name is that of one pod, a pod is there while its volume
\* is published, it has the tag after that, and does not run before.
TagsInv ==
    /\ \A p, q \in Pods : Alive(p) /\ q \in Namesakes(p) => p = q
    /\ \A p \in Pods :
          /\ publish[p].pc \in {"mount", "tag", "condition"} => Alive(p)
          /\ publish[p].pc \in {"condition", "done"} /\ Alive(p) =>
                pods[p].watched /\ pods[p].path = p
          /\ pods[p].phase = "Running" /\ HasVolume(p) => publish[p].pc = "done"
          /\ pods[p].phase = "none" => publish[p].pc = "wait"
WatchedInv == spent.troubles = 0 => TagsInv

\* Steps that leave the pods and the progress of publications alone.
LEMMA TagsKept ==
    ASSUME TagsInv, UNCHANGED pods, \A p \in Pods : publish'[p].pc = publish[p].pc
    PROVE  TagsInv'
  BY DEF TagsInv, Alive, Namesakes, HasVolume

LEMMA TagsBeginPublish ==
    ASSUME NodeInv, TagsInv, NEW p \in Pods, BeginPublish(p), ~Trouble
    PROVE  TagsInv'
  <1>1. PICK call \in Calls :
            /\ publish' = [publish EXCEPT ![p] = call]
            /\ call.pc \in {"mount", "tag"}
    BY BeginPublishCases DEF NodeInv
  <1>2. UNCHANGED pods /\ pods[p].phase = "Pending"
    BY DEF BeginPublish
  <1> QED
    BY <1>1, <1>2 DEF TagsInv, Alive, Namesakes, HasVolume, NodeInv, TypesInv, Types

LEMMA TagsMountDatasets ==
    ASSUME NodeInv, TagsInv, NEW p \in Pods, MountDatasets(p)
    PROVE  TagsInv'
  <1>1. UNCHANGED pods /\ publish[p].pc = "mount"
    BY DEF MountDatasets
  <1>2. \A q \in Pods : publish'[q].pc = IF q = p THEN "tag" ELSE publish[q].pc
    <2>1. PICK count \in Nat, failed \in BOOLEAN :
              publish' = [publish EXCEPT ![p] =
                  [publish[p] EXCEPT !.pc = "tag", !.key = <<>>, !.count = count,
                                     !.failed = failed]]
      BY MountDatasetsCases DEF NodeInv
    <2> DEFINE new == [publish[p] EXCEPT !.pc = "tag", !.key = <<>>, !.count = count,
                                         !.failed = failed]
    <2>2. new.pc = "tag"
      BY CallMounted, ZenonT(60) DEF NodeInv
    <2> HIDE DEF new
    <2>3. publish' = [publish EXCEPT ![p] = new]
      BY <2>1 DEF new
    <2>4. publish \in [Pods -> Calls]
      BY DEF NodeInv, TypesInv, Types
    <2> QED
      BY <2>2, <2>3, <2>4
  <1> QED
    BY <1>1, <1>2 DEF TagsInv, Alive, Namesakes, HasVolume

LEMMA TagsTagPod ==
    ASSUME NodeInv, TagsInv, NEW p \in Pods, TagPod(p), ~Trouble
    PROVE  TagsInv'
  <1>1. \A q \in Pods : publish'[q].pc = IF q = p THEN "condition" ELSE publish[q].pc
    BY DEF TagPod, NodeInv, TypesInv, Types, Calls
  <1>2. publish[p].pc = "tag" /\ Alive(p) /\ Namesakes(p) = {p}
    BY DEF TagPod, TagsInv, Namesakes
  <1>3. /\ \A q \in Pods \ {p} : pods'[q] = pods[q]
        /\ pods'[p] = [pods[p] EXCEPT !.watched = TRUE, !.path = p]
    BY <1>2 DEF TagPod
  <1>4. /\ pods'[p].watched /\ pods'[p].path = p
        /\ \A q \in Pods : pods'[q].phase = pods[q].phase /\ pods'[q].spec = pods[q].spec
    <2>1. pods[p] \in PodRecords
      BY DEF NodeInv, TypesInv, Types
    <2>2. /\ pods'[p].watched /\ pods'[p].path = p
          /\ pods'[p].phase = pods[p].phase /\ pods'[p].spec = pods[p].spec
      BY <1>3, <2>1 DEF PodRecords
    <2> QED
      BY <1>3, <2>2
  <1>5. \A q \in Pods : /\ Alive(q)' <=> Alive(q)
                        /\ HasVolume(q)' <=> HasVolume(q)
                        /\ Namesakes(q)' = Namesakes(q)
    BY <1>4 DEF Alive, HasVolume, Namesakes
  <1>6. \A q \in Pods : publish'[q].pc \in {"condition", "done"} /\ Alive(q) =>
                            pods'[q].watched /\ pods'[q].path = q
    BY <1>1, <1>3, <1>4 DEF TagsInv
  <1> QED
    BY <1>1, <1>2, <1>4, <1>5, <1>6 DEF TagsInv

LEMMA TagsConditions ==
    ASSUME NodeInv, TagsInv, EndPod \/ \E p \in Pods : EndPublish(p)
    PROVE  TagsInv'
  <1>1. \A q \in Pods : pods'[q] = [pods[q] EXCEPT !.condition = pods'[q].condition]
    <2>1. ASSUME NEW p \in Pods, EndPublish(p)
          PROVE  \A q \in Pods : pods'[q] = [pods[q] EXCEPT !.condition = pods'[q].condition]
      <3> DEFINE reason == PublishReason(publish[p].count, publish[p].failed)
      <3>1. reason \in Conditions /\ WriteCondition(p, reason)
        BY <2>1 DEF EndPublish, PublishReason, Conditions
      <3> HIDE DEF reason
      <3> QED
        BY <3>1, WrittenByName DEF NodeInv, TypesInv, Types
    <2> QED
      BY <2>1, TypesEndPod DEF NodeInv
  <1>2. \A q \in Pods : /\ pods'[q].phase = pods[q].phase /\ pods'[q].spec = pods[q].spec
                        /\ pods'[q].watched = pods[q].watched /\ pods'[q].path = pods[q].path
    <2>1. \A q \in Pods : pods[q] \in PodRecords
      BY DEF NodeInv, TypesInv, Types
    <2>2. \A pod \in PodRecords : \A c :
              /\ [pod EXCEPT !.condition = c].phase = pod.phase
              /\ [pod EXCEPT !.condition = c].spec = pod.spec
              /\ [pod EXCEPT !.condition = c].watched = pod.watched
              /\ [pod EXCEPT !.condition = c].path = pod.path
      BY DEF PodRecords
    <2> TAKE q \in Pods
    <2>3. pods[q] \in PodRecords /\ pods'[q] = [pods[q] EXCEPT !.condition = pods'[q].condition]
      BY <1>1, <2>1
    <2> DEFINE was == pods[q]
               now == pods'[q]
               cond == now.condition
    <2>4. was \in PodRecords /\ now = [was EXCEPT !.condition = cond]
      BY <2>3
    <2> QED
      <3> HIDE DEF was, now, cond
      <3>1. /\ now.phase = was.phase /\ now.spec = was.spec
            /\ now.watched = was.watched /\ now.path = was.path
        BY <2>2, <2>4
      <3> QED
        BY <3>1 DEF was, now
  <1>3. \A q \in Pods : \/ publish'[q].pc = publish[q].pc
                        \/ publish[q].pc = "condition" /\ publish'[q].pc = "done"
    BY WaitingType DEF EndPod, EndPublish, NodeInv, TypesInv, Types, Calls
  <1> QED
    BY <1>2, <1>3 DEF TagsInv, Alive, Namesakes, HasVolume

LEMMA TagsCreatePod ==
    ASSUME NodeInv, TagsInv, NEW p \in Pods, CreatePod(p)
    PROVE  TagsInv'
  <1>1. UNCHANGED publish /\ pods[p].phase = "none" /\ publish[p].pc = "wait"
    BY DEF CreatePod, TagsInv
  <1>2. /\ \A q \in Pods \ {p} : pods'[q] = pods[q]
        /\ pods'[p].phase = "Pending"
    BY DEF CreatePod, NodeInv, TypesInv, Types, PodRecords
  <1>3. \A q \in Pods \ {p} :
            NameOf[q] = NameOf[p] /\ NamespaceOf[q] = NamespaceOf[p] => ~Alive(q)
    BY DEF CreatePod, Namesakes
  <1> QED
    BY <1>1, <1>2, <1>3 DEF TagsInv, Alive, Namesakes, HasVolume

LEMMA TagsPods ==
    ASSUME NodeInv, TagsInv, NEW p \in Pods, StartPod(p) \/ DeletePod(p) \/ Forget(p)
    PROVE  TagsInv'
  <1>1. UNCHANGED publish /\ Alive(p)
        /\ \A q \in Pods \ {p} : pods'[q] = pods[q]
    BY DEF StartPod, DeletePod, Forget, Alive, NodeInv, TypesInv, Types
  <1>2. pods'[p].spec = pods[p].spec /\ pods'[p].watched = pods[p].watched
        /\ pods'[p].path = pods[p].path
    BY DEF StartPod, DeletePod, Forget, NodeInv, TypesInv, Types, PodRecords
  <1>3. \/ pods'[p].phase = pods[p].phase
        \/ pods'[p].phase = "Running" /\ (HasVolume(p) => publish[p].pc = "done")
        \/ pods'[p].phase = "gone" /\ publish[p].pc \in {"wait", "done"}
    BY DEF StartPod, DeletePod, Forget, NodeInv, TypesInv, Types, PodRecords
  <1>4. \A q \in Pods : /\ Alive(q)' => Alive(q)
                        /\ Alive(q) => Alive(q)' \/ publish[q].pc \in {"wait", "done"}
                        /\ HasVolume(q)' <=> HasVolume(q)
    BY <1>1, <1>2, <1>3 DEF Alive, HasVolume
  <1>5. \A q \in Pods : Namesakes(q)' \subseteq Namesakes(q)
    BY <1>4 DEF Namesakes
  <1> QED
    BY <1>1, <1>2, <1>3, <1>4, <1>5 DEF TagsInv

LEMMA WatchedStep == NodeInv /\ WatchedInv /\ [Next]_vars => WatchedInv'
  <1> SUFFICES ASSUME NodeInv, WatchedInv, [Next]_vars, spent'.troubles = 0
               PROVE  TagsInv'
    BY DEF WatchedInv
  <1>1. Trouble \/ Event \/ UNCHANGED spent
    BY BudgetAlways DEF NodeInv
  <1>2. ~Trouble /\ spent.troubles = 0
    BY <1>1, BudgetStep DEF NodeInv, TypesInv, Types, Budgets
  <1>3. TagsInv
    BY <1>2 DEF WatchedInv
  <1>4. ASSUME NEW p \in Pods, PodStep(p) PROVE TagsInv'
    BY <1>2, <1>3, <1>4, TagsCreatePod, TagsPods DEF PodStep, ForceDelete
  <1>5. ASSUME \/ Surroundings
               \/ \E scope \in Scopes : BeginCheck(scope)
               \/ \E entry \in Pods \X Pods : CheckPod(entry)
               \/ \E p \in Pods : Unpublish(p)
               \/ \E p \in Pods, d \in Datasets : Break(p, d)
        PROVE  TagsInv'
    <2>1. \A p \in Pods : Unpublish(p) => UNCHANGED <<pods, publish>>
      BY UnpublishFields DEF NodeInv
    <2>2. UNCHANGED pods
      BY <1>5, <2>1 DEF Surroundings, EndCheck, ReconcilerRestart, ChangeSettings, ChangeDataset,
                  vars, BeginCheck, CheckPod, Break
    <2>3. ASSUME NEW p \in Pods, NEW d \in Datasets, Break(p, d)
          PROVE  \A q \in Pods : publish'[q].pc = publish[q].pc
      BY <2>3 DEF Break, NodeInv, TypesInv, Types, Calls
    <2>4. UNCHANGED publish \/ \E p \in Pods, d \in Datasets : Break(p, d)
      BY <1>5, <2>1 DEF Surroundings, EndCheck, ReconcilerRestart, ChangeSettings, ChangeDataset,
                  vars, BeginCheck, CheckPod
    <2> QED
      BY <1>3, <2>2, <2>3, <2>4, TagsKept
  <1> QED
    BY <1>2, <1>3, <1>4, <1>5, StepCases, TagsBeginPublish, TagsMountDatasets, TagsTagPod,
       TagsConditions

LEMMA WatchedInit == Init => WatchedInv
  <1> SUFFICES ASSUME Init PROVE TagsInv
    BY DEF WatchedInv
  <1> QED
    BY InitPods, NodePodsAssumption DEF NodePodsAssumption, TagsInv, Alive, Namesakes, HasVolume

\* Every pod that runs with a volume of the datasets is found by the checks, at its
\* own path, whatever became of its publication, as long as no call fails and no pod
\* is deleted by force.
THEOREM PublishedPodsAreFound == Spec => []PublishedIsWatched
  <1>1. NodeInv /\ WatchedInv => PublishedIsWatched
    BY DEF WatchedInv, TagsInv, PublishedIsWatched, Alive
  <1> QED
    BY <1>1, NodeInvInit, WatchedInit, NodeInvStep, WatchedStep, PTL DEF Spec

\* Whatever keys users put into the secret: a driver that can read its credential is
\* never reported as one without.
THEOREM ReadableCredentialsPass == Spec => []ReadableIsAccepted
  <1>1. ReadableIsAccepted
    BY DEF ReadableIsAccepted, Readable, checkCredentialFields, Filled
  <1> QED
    BY <1>1, PTL
================================================================================
