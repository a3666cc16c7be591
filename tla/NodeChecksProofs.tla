---------------------------- MODULE NodeChecksProofs ---------------------------
(***************************************************************************)
(* A theorem about the checks of NodePods that meet no failing call: they  *)
(* count every pod that they can.  CountInv follows the count through the  *)
(* loop; it leans on what the file of a path may hold (FilesInv) and on    *)
(* every listed pod having a path (ListedInv).                             *)
(***************************************************************************)
EXTENDS NodePodsProofs

--------------------------------------------------------------------------------
(* Files *)

\* Nothing in the file of a path is longer than the longest text written there.
FilesInv == \A p \in Pods : Len(disk[p].file) <= disk[p].longest

LEMMA LengthTypes ==
    ASSUME TypesInv, NEW p \in Pods
    PROVE  /\ disk[p].longest \in Nat
           /\ \E Chars : disk[p].file \in Seq(Chars) /\ \A t \in Texts : t \in Seq(Chars)
  <1> DEFINE Chars == UNION {ToSet(u) : u \in Texts}
  <1>1. disk[p] \in Paths
    BY DEF TypesInv, Types
  <1>2. \A t \in Texts : t \in Seq(Chars) /\ Len(t) \in Nat
    BY TextType
  <1>3. disk[p].file \in Seq(Chars) /\ disk[p].longest \in {0} \cup {Len(t) : t \in Texts}
    BY <1>1 DEF Paths
  <1> HIDE DEF Chars
  <1> QED
    BY <1>2, <1>3

\* Writing a text over a file leaves the longer of the two lengths, and the text itself
\* when the file was no longer.
LEMMA WriteFileLength ==
    ASSUME NEW S, NEW file \in Seq(S), NEW text \in Seq(S)
    PROVE  /\ Len(WriteFile(file, text)) = IF Len(file) > Len(text) THEN Len(file) ELSE Len(text)
           /\ Len(file) <= Len(text) => WriteFile(file, text) = text
  <1> DEFINE rest == SubSeq(file, Len(text) + 1, Len(file))
  <1>1. Len(file) \in Nat /\ Len(text) \in Nat
    OBVIOUS
  <1>2. CASE Len(file) <= Len(text)
    <2>1. rest = <<>>
      BY <1>1, <1>2
    <2>2. text \o <<>> = text
      OBVIOUS
    <2> QED
      BY <1>1, <1>2, <2>1, <2>2 DEF WriteFile
  <1>3. CASE Len(file) > Len(text)
    <2>1. rest \in Seq(S) /\ Len(rest) = Len(file) - Len(text)
      BY <1>1, <1>3
    <2> HIDE DEF rest
    <2>2. Len(text \o rest) = Len(text) + Len(rest)
      BY <2>1
    <2> QED
      BY <1>1, <1>3, <2>1, <2>2 DEF WriteFile, rest
  <1> QED
    BY <1>1, <1>2, <1>3

\* Mounting never makes a path shorter of memory: "longest" grows to the key's length.
LEMMA MountedLonger ==
    ASSUME TypesInv, FilesInv, NEW path \in Pods, NEW todo, NEW key \in Texts, NEW failing,
           disk' = Mounted(path, todo, key, failing)
    PROVE  /\ FilesInv'
           /\ \A p \in Pods : disk'[p].longest >= disk[p].longest
                              /\ disk'[p].there = disk[p].there
           /\ disk'[path].longest <= Len(key) => Len(disk[path].file) <= Len(key)
  <1> DEFINE file == WriteFile(disk[path].file, key)
             longest == IF Len(key) > disk[path].longest THEN Len(key) ELSE disk[path].longest
  <1>1. disk \in [Pods -> Paths]
    BY DEF TypesInv, Types
  <1>2. \A p \in Pods : disk[p].longest \in Nat /\ Len(disk[p].file) \in Nat
    BY LengthTypes
  <1>3. Len(key) \in Nat /\ longest \in Nat
    BY <1>2, TextType
  <1>4. Len(file) = IF Len(disk[path].file) > Len(key) THEN Len(disk[path].file) ELSE Len(key)
    BY LengthTypes, WriteFileLength
  <1> HIDE DEF file, longest
  <1>5. /\ \A p \in Pods \ {path} : disk'[p] = disk[p]
        /\ disk'[path].file = file /\ disk'[path].longest = longest
        /\ disk'[path].there = disk[path].there
    BY <1>1 DEF Mounted, Paths, file, longest
  <1>6. Len(file) <= longest /\ longest >= disk[path].longest
        /\ (longest <= Len(key) => Len(disk[path].file) <= Len(key))
    BY <1>2, <1>3, <1>4 DEF FilesInv, longest
  <1> QED
    BY <1>2, <1>5, <1>6 DEF FilesInv

\* A path that is still there was there before, and has forgotten nothing.
PathsGrow ==
    \A p \in Pods : publish[p].pc \in {"condition", "done"} /\ disk'[p].there =>
        disk[p].there /\ disk'[p].longest >= disk[p].longest

LEMMA FilesStep == TypesInv /\ FilesInv /\ [Next]_vars => FilesInv' /\ PathsGrow
  <1> SUFFICES ASSUME TypesInv, FilesInv, [Next]_vars PROVE FilesInv' /\ PathsGrow
    OBVIOUS
  <1>0. /\ disk \in [Pods -> Paths]
        /\ \A p \in Pods : disk[p].longest \in Nat
    BY LengthTypes DEF TypesInv, Types
  <1>1. CASE UNCHANGED disk
    BY <1>0, <1>1 DEF FilesInv, PathsGrow
  <1>2. ASSUME NEW path \in Pods, NEW todo, NEW key \in Texts, NEW failing,
               disk' = Mounted(path, todo, key, failing)
        PROVE  FilesInv' /\ PathsGrow
    BY <1>0, <1>2, MountedLonger DEF PathsGrow
  <1>3. ASSUME NEW p \in Pods, BeginPublish(p) PROVE FilesInv' /\ PathsGrow
    <2>1. publish[p].pc = "wait" /\ disk' = [disk EXCEPT ![p].there = TRUE]
      BY <1>3 DEF BeginPublish
    <2>2. \A q \in Pods : /\ disk'[q].file = disk[q].file /\ disk'[q].longest = disk[q].longest
                          /\ q # p => disk'[q] = disk[q]
      BY <1>0, <2>1 DEF Paths
    <2> QED
      BY <1>0, <2>1, <2>2 DEF FilesInv, PathsGrow
  <1>4. ASSUME NEW p \in Pods, MountDatasets(p) PROVE FilesInv' /\ PathsGrow
    <2>1. publish[p].key \in Texts
      BY <1>4 DEF MountDatasets, TypesInv, Keyed
    <2> QED
      BY <1>1, <1>2, <1>4, <2>1, MountDatasetsCases
  <1>5. ASSUME NEW entry \in Pods \X Pods, CheckPod(entry) PROVE FilesInv' /\ PathsGrow
    <2>1. check.key \in Texts /\ entry[2] \in Pods
      BY <1>5 DEF CheckPod, TypesInv, Keyed
    <2>2. \/ UNCHANGED disk
          \/ \E todo, failing : disk' = Mounted(entry[2], todo, check.key, failing)
      BY <1>5, CheckPodCases
    <2> QED
      BY <1>1, <1>2, <2>1, <2>2
  <1>6. ASSUME NEW p \in Pods, Unpublish(p) PROVE FilesInv' /\ PathsGrow
    <2>1. PathShrinks(p) /\ disk[p].there
      BY <1>6, UnpublishFields
    <2>2. Len(NoPath.file) <= NoPath.longest /\ ~NoPath.there
      BY DEF NoPath
    <2>3. Len(disk[p].file) <= disk[p].longest /\ 0 <= disk[p].longest /\ Len(<<>>) = 0
      BY <1>0 DEF FilesInv
    <2>4. /\ Len(disk'[p].file) <= disk'[p].longest
          /\ disk'[p].there => disk'[p].longest >= disk[p].longest
      BY <1>0, <2>1, <2>2, <2>3 DEF PathShrinks
    <2> QED
      BY <1>0, <2>1, <2>4 DEF FilesInv, PathsGrow, PathShrinks
  <1>7. ASSUME NEW p \in Pods, NEW d \in Datasets, Break(p, d) PROVE FilesInv' /\ PathsGrow
    <2>1. \A q \in Pods : /\ disk'[q].file = disk[q].file /\ disk'[q].longest = disk[q].longest
                          /\ disk'[q].there = disk[q].there
      BY <1>0, <1>7 DEF Break, Paths
    <2> QED
      BY <1>0, <2>1 DEF FilesInv, PathsGrow
  <1>8. ASSUME \/ Surroundings \/ EndPod
               \/ \E scope \in Scopes : BeginCheck(scope)
               \/ \E p \in Pods : TagPod(p) \/ EndPublish(p) \/ PodStep(p)
        PROVE  UNCHANGED disk
    BY <1>8 DEF Surroundings, EndCheck, ReconcilerRestart, ChangeSettings, ChangeDataset,
                vars, BeginCheck, EndPod, TagPod, EndPublish, PodStep, CreatePod, StartPod,
                DeletePod, ForceDelete, Forget
  <1> QED
    BY <1>1, <1>3, <1>4, <1>5, <1>6, <1>7, <1>8, StepCases

LEMMA FilesInit == Init => FilesInv
  <1> SUFFICES ASSUME Init, NEW p \in Pods PROVE Len(disk[p].file) <= disk[p].longest
    BY DEF FilesInv
  <1> DEFINE ds == Selected(p, InNamespace(NamespaceOf[p]))
             key == CredentialText(settings.type, settings.secret)
  <1>1. key \in Texts
    BY KeyIsText DEF Init
  <1>2. Len(key) \in Nat
    BY <1>1, TextType
  <1>3. disk[p] = IF pods[p].phase # "Running" THEN NoPath
                  ELSE IF ds = {} THEN [NoPath EXCEPT !.there = TRUE]
                  ELSE [there |-> TRUE, folders |-> ds, mounts |-> ds,
                        file |-> key, longest |-> Len(key)]
    BY DEF Init
  <1> HIDE DEF ds, key
  <1> QED
    BY <1>2, <1>3 DEF NoPath

--------------------------------------------------------------------------------
(* Lists *)

\* A pod that checks find has a path, and so has every entry of the list of a check.
ListedInv ==
    /\ \A p \in Pods : pods[p].watched => pods[p].path # None
    /\ check.pc # "idle" =>
          check.since <= spent.troubles /\ \A entry \in check.listed : entry[2] # None

\* What becomes of the check of everything, or of one dataset, in a step that is none
\* of its own.
CheckFields(c) == <<c.pc, c.key, c.listed, c.todo, c.known, c.failed, c.done, c.since>>

LEMMA CheckSteps ==
    ASSUME TypesInv, [Next]_vars
    PROVE  \/ \E scope \in Scopes : BeginCheck(scope)
           \/ \E entry \in Pods \X Pods : CheckPod(entry)
           \/ EndPod
           \/ check' = Idle
           \/ CheckFields(check') = CheckFields(check)
  <1>1. CASE EndCheck \/ ReconcilerRestart
    BY <1>1 DEF EndCheck, ReconcilerRestart
  <1>2. ASSUME NEW p \in Pods, Unpublish(p) \/ \E d \in Datasets : Break(p, d)
        PROVE  CheckFields(check') = CheckFields(check)
    <2>1. OnlyBroken
      BY <1>2, UnpublishFields, LoseFields DEF Break
    <2> QED
      BY <2>1 DEF OnlyBroken, CheckFields
  <1>3. ASSUME \/ ChangeSettings \/ UNCHANGED vars
               \/ \E d \in Datasets : ChangeDataset(d)
               \/ \E p \in Pods : \/ BeginPublish(p) \/ MountDatasets(p) \/ TagPod(p)
                                  \/ EndPublish(p) \/ PodStep(p)
        PROVE  UNCHANGED check
    BY <1>3 DEF ChangeSettings, ChangeDataset, vars, BeginPublish, MountDatasets, TagPod,
                EndPublish, PodStep, CreatePod, StartPod, DeletePod, ForceDelete, Forget
  <1> QED
    BY <1>1, <1>2, <1>3, StepCases DEF Surroundings

\* A check that begins has the listed pods before it, and nothing done.
LEMMA BegunCheck ==
    ASSUME TypesInv, NEW scope \in Scopes, BeginCheck(scope)
    PROVE  \/ check' = check
           \/ /\ check'.pc = "pods" /\ check'.done = 0 /\ check'.since = spent.troubles
              /\ check'.listed = PodsToReconcile(scope)
              /\ check'.todo = {entry \in PodsToReconcile(scope) : entry[2] # None}
              /\ UNCHANGED spent
  <1> DEFINE list == PodsToReconcile(scope)
             key == CredentialText(settings.type, settings.secret)
             todo == {entry \in list : entry[2] # None}
             known == InHand(scope)
             begun == [Idle EXCEPT !.pc = "pods", !.listed = list, !.scope = scope,
                          !.todo = todo, !.known = known,
                          !.since = spent.troubles, !.key = key]
  <1>1. (check' = begun /\ UNCHANGED spent) \/ check' = check
    BY DEF BeginCheck
  <1> HIDE DEF list, key, todo, known
  <1>2. /\ begun.pc = "pods" /\ begun.done = 0 /\ begun.since = spent.troubles
        /\ begun.listed = list /\ begun.todo = todo
    BY DEF Idle
  <1> HIDE DEF begun
  <1> QED
    BY <1>1, <1>2 DEF list, todo

LEMMA CheckPodFields ==
    ASSUME TypesInv, NEW entry \in Pods \X Pods, CheckPod(entry)
    PROVE  check.pc = "pods" /\ check'.listed = check.listed /\ check'.since = check.since
  <1> DEFINE ds == DatasetsFor(NamespaceOf[entry[1]])
             taken == Learned(entry, ds)
             dropped == [check EXCEPT !.todo = @ \ {entry}]
  <1>1. taken \in Checks /\ taken.listed = check.listed
    BY LearnedType, DatasetsForType DEF Entries
  <1>2. /\ taken.since = check.since
        /\ dropped.listed = check.listed /\ dropped.since = check.since
    BY DEF Learned, TypesInv, Types, Checks
  <1>3. check.pc = "pods"
    BY DEF CheckPod
  <1>4. \/ check' = taken
        \/ check' = dropped
        \/ \E count, failed, skipped :
              check' = WithResult(taken, entry, count, failed, skipped)
    BY CheckPodCases
  <1> HIDE DEF ds, taken, dropped
  <1>5. ASSUME NEW count, NEW failed, NEW skipped,
               check' = WithResult(taken, entry, count, failed, skipped)
        PROVE  check'.listed = taken.listed /\ check'.since = taken.since
    BY <1>1, <1>5 DEF WithResult, Checks
  <1> QED
    BY <1>1, <1>2, <1>3, <1>4, <1>5

LEMMA ListedStep == TypesInv /\ PlacesInv /\ ListedInv /\ [Next]_vars => ListedInv'
  <1> SUFFICES ASSUME TypesInv, PlacesInv, ListedInv, [Next]_vars PROVE ListedInv'
    OBVIOUS
  <1>0. pods \in [Pods -> PodRecords] /\ check \in Checks /\ None \notin Pods
        /\ spent \in Budgets /\ spent' \in Budgets
    BY TypesStep, NodePodsAssumption DEF TypesInv, Types, NodePodsAssumption
  <1>1. \A p \in Pods : pods'[p].watched => pods'[p].path # None
    <2>1. ASSUME NEW p \in Pods, TagPod(p)
          PROVE  \A q \in Pods : pods'[q].watched => pods'[q].path # None
      <3>1. \A q \in Pods : \/ pods'[q] = [pods[q] EXCEPT !.watched = TRUE, !.path = p]
                            \/ pods'[q] = pods[q]
        BY <2>1 DEF TagPod
      <3>2. \A q \in Pods : pods[q].watched => pods[q].path # None
        BY DEF ListedInv
      <3> SUFFICES ASSUME NEW q \in Pods, pods'[q].watched PROVE pods'[q].path # None
        OBVIOUS
      <3>3. CASE pods'[q] = [pods[q] EXCEPT !.watched = TRUE, !.path = p]
        <4>1. pods[q] \in PodRecords
          BY <1>0
        <4>2. pods'[q].path = p
          BY <3>3, <4>1 DEF PodRecords
        <4> QED
          BY <1>0, <4>2
      <3> QED
        BY <3>1, <3>2, <3>3
    <2>2. CASE \A q \in Pods : pods'[q].watched = pods[q].watched /\ pods'[q].path = pods[q].path
      BY <2>2 DEF ListedInv
    <2> QED
      BY <2>1, <2>2, PodsKept
  <1>2. check'.pc # "idle" => check'.since <= spent'.troubles
                              /\ \A entry \in check'.listed : entry[2] # None
    <2>0. spent'.troubles >= spent.troubles /\ spent.troubles \in Nat /\ spent'.troubles \in Nat
      BY <1>0, BudgetAlways DEF Budgets
    <2>1. CASE check'.pc = check.pc /\ check'.listed = check.listed /\ check'.since = check.since
      <3>1. check.pc # "idle" => check.since <= spent.troubles
                                 /\ \A entry \in check.listed : entry[2] # None
        BY DEF ListedInv
      <3>2. check.since \in Nat
        BY <1>0 DEF Checks
      <3> DEFINE since == check.since  old == spent.troubles  now == spent'.troubles
      <3>3. since <= old => since <= now
        <4>1. since \in Nat /\ old \in Nat /\ now \in Nat /\ now >= old
          BY <2>0, <3>2
        <4> HIDE DEF since, old, now
        <4> QED
          BY <4>1
      <3> QED
        BY <2>1, <3>1, <3>3
    <2>2. ASSUME NEW scope \in Scopes, BeginCheck(scope), check' # check
          PROVE  check'.since <= spent'.troubles /\ \A entry \in check'.listed : entry[2] # None
      <3>1. check'.since = spent.troubles /\ check'.listed = PodsToReconcile(scope)
        BY <2>2, BegunCheck
      <3>2. \A entry \in PodsToReconcile(scope) : entry[2] # None
        BY DEF PodsToReconcile, ListedInv
      <3> QED
        BY <2>0, <3>1, <3>2
    <2>3. ASSUME NEW entry \in Pods \X Pods, CheckPod(entry)
          PROVE  check.pc = "pods" /\ check'.listed = check.listed /\ check'.since = check.since
      BY <2>3, CheckPodFields
    <2>4. ASSUME EndPod
          PROVE  check.pc = "condition" /\ check'.listed = check.listed
                 /\ check'.since = check.since
      BY <1>0, <2>4 DEF EndPod, Checks
    <2>5. CASE check' = Idle
      BY <2>5, IdleType
    <2>6. CASE CheckFields(check') = CheckFields(check)
      BY <2>1, <2>6 DEF CheckFields
    <2>7. ASSUME check.pc # "idle", check'.listed = check.listed, check'.since = check.since
          PROVE  check'.since <= spent'.troubles /\ \A entry \in check'.listed : entry[2] # None
      <3>1. check.since <= spent.troubles /\ \A entry \in check.listed : entry[2] # None
        BY <2>7 DEF ListedInv
      <3>2. check.since \in Nat
        BY <1>0 DEF Checks
      <3> QED
        BY <2>0, <2>7, <3>1, <3>2
    <2> QED
      BY <2>1, <2>2, <2>3, <2>4, <2>5, <2>6, <2>7, CheckSteps
  <1> QED
    BY <1>1, <1>2 DEF ListedInv

LEMMA ListedInit == Init => ListedInv
  <1> SUFFICES ASSUME Init PROVE ListedInv
    OBVIOUS
  <1>1. \A p \in Pods : \/ pods[p].path = p
                        \/ ~pods[p].watched
    <2> SUFFICES ASSUME NEW p \in Pods PROVE pods[p].path = p \/ ~pods[p].watched
      OBVIOUS
    <2>1. PICK driver : \/ pods[p] = [NewPod(p) EXCEPT !.phase = "gone"]
                        \/ pods[p] = Running(p, driver)
                        \/ pods[p] = NewPod(p)
      BY DEF Init
    <2> DEFINE spec == Handle(NewPod(p).spec, NamespaceOf[p], driver, TRUE)
    <2>2. Running(p, driver) = [NewPod(p) EXCEPT !.phase = "Running", !.watched = TRUE,
                                                 !.path = p, !.spec = spec]
      BY DEF Running, NewPod
    <2> HIDE DEF spec
    <2>3. Running(p, driver).path = p
      BY <2>2 DEF NewPod
    <2>4. ~NewPod(p).watched /\ ~[NewPod(p) EXCEPT !.phase = "gone"].watched
      BY DEF NewPod
    <2> QED
      BY <2>1, <2>3, <2>4
  <1>2. check.pc = "idle" /\ None \notin Pods
    BY IdleType, NodePodsAssumption DEF Init, NodePodsAssumption
  <1> QED
    BY <1>1, <1>2 DEF ListedInv

--------------------------------------------------------------------------------
(* The count *)

\* The check has met no failing call since it began.
Calm == check.pc # "idle" /\ spent.troubles = check.since

\* The pod of the entry has datasets, its rules can be read, and its path is there
\* with a file that the key of the check fills.
Countable(entry) ==
    LET ds == check.known[NamespaceOf[entry[1]]]
    IN /\ ds # {} /\ Erroneous(entry[1], ds) = {}
       /\ disk[entry[2]].there /\ disk[entry[2]].longest <= Len(check.key)

Visited == check.listed \ check.todo
Done == check.done + (IF check.pc = "condition" THEN Counted(check.failed) ELSE 0)

\* Of the pods that a calm check has visited, all that can be are counted.
CountInv ==
    Calm => /\ \A entry \in Visited : NamespaceOf[entry[1]] \in DOMAIN check.known
            /\ Cardinality({entry \in Visited : Countable(entry)}) <= Done

\* What was countable after a step was so before it.
LEMMA CountableBefore ==
    ASSUME TypesInv, TypesInv', PlacesInv, ListedInv, PathsGrow,
           check.pc # "idle", check'.key = check.key,
           NEW entry \in check.listed,
           check'.known[NamespaceOf[entry[1]]] = check.known[NamespaceOf[entry[1]]],
           Countable(entry)'
    PROVE  Countable(entry)
  <1>1. /\ entry[2] \in Pods /\ publish[entry[2]].pc \in {"condition", "done"}
    BY DEF ListedInv, PlacesInv, CheckInv, Placed, TypesInv, Types, Checks, Entries
  <1>2. disk'[entry[2]].there /\ disk'[entry[2]].longest <= Len(check.key)
    BY DEF Countable
  <1>3. disk[entry[2]].there /\ disk'[entry[2]].longest >= disk[entry[2]].longest
    BY <1>1, <1>2 DEF PathsGrow
  <1>4. disk[entry[2]].longest \in Nat /\ disk'[entry[2]].longest \in Nat
    <2>1. disk[entry[2]] \in Paths /\ disk'[entry[2]] \in Paths
      BY <1>1 DEF TypesInv, Types
    <2>2. \A t \in Texts : Len(t) \in Nat
      BY TextType
    <2> QED
      BY <2>1, <2>2 DEF Paths
  <1>5. check.key \in Texts /\ Len(check.key) \in Nat
    BY TextType DEF TypesInv, Keyed
  <1>6. disk[entry[2]].longest <= Len(check.key)
    BY <1>2, <1>3, <1>4, <1>5
  <1> QED
    BY <1>3, <1>6 DEF Countable

\* The step of a calm check on a pod: the pod has no datasets, or its path is gone, or
\* the check mounts what is missing and tells what was refused and what is in error.
LEMMA CalmCheckPod ==
    ASSUME TypesInv, NEW entry \in Pods \X Pods, CheckPod(entry), ~Trouble
    PROVE  LET p == entry[1]  path == entry[2]
               ds == DatasetsFor(NamespaceOf[p])
               fixing == Fixing(entry, ds)
               refused == Refused(path, fixing, check.key)
           IN /\ UNCHANGED spent
              /\ \/ check' = Learned(entry, ds) /\ UNCHANGED disk /\ ds = {}
                 \/ \E count \in Nat, failed \in BOOLEAN :
                       /\ check' = WithResult(Learned(entry, ds), entry, count, failed, {})
                       /\ \/ UNCHANGED disk /\ ~disk[path].there
                          \/ /\ disk' = Mounted(path, fixing, check.key, refused)
                             /\ refused = {} /\ Erroneous(p, ds) = {} => ~failed
  <1> DEFINE p == entry[1]  path == entry[2]
             ds == DatasetsFor(NamespaceOf[p])
             fixing == Fixing(entry, ds)
             refused == Refused(path, fixing, check.key)
             taken == Learned(entry, ds)
             Ends(count, failed) == check' = WithResult(taken, entry, count, failed, {})
             count == Cardinality(fixing \ refused)
             failed == refused # {} \/ Erroneous(p, ds \ disk[path].folders) # {}
  <1>1. fixing \ refused \in SUBSET Datasets
    BY DatasetsForType, SelectedType DEF Fixing, Processed
  <1>2. count \in Nat /\ failed \in BOOLEAN
    BY <1>1, CountType
  <1>3. refused = {} /\ Erroneous(p, ds) = {} => ~failed
    BY DEF Erroneous
  <1>4. /\ UNCHANGED spent
        /\ \/ check' = taken /\ UNCHANGED disk /\ ds = {}
           \/ Ends(0, FALSE) /\ UNCHANGED disk /\ ~disk[path].there
           \/ Ends(count, failed) /\ disk' = Mounted(path, fixing, check.key, refused)
    <2>1. fixing \ {} = fixing /\ ({} \ {}) \cup refused = refused
      OBVIOUS
    <2> QED
      BY <2>1 DEF CheckPod, PathExists, Learned, WithResult, Fixing
  <1> HIDE DEF ds, fixing, refused, taken, count, failed, Ends
  <1> QED
    BY <1>2, <1>3, <1>4 DEF Ends, ds, fixing, refused, taken

\* Nothing is refused when the key fills the file.
LEMMA NothingRefused ==
    ASSUME TypesInv, NEW path \in Pods, NEW todo, NEW key \in Texts,
           Len(disk[path].file) <= Len(key)
    PROVE  Refused(path, todo, key) = {}
  <1>1. WriteFile(disk[path].file, key) = key
    BY LengthTypes, WriteFileLength
  <1> QED
    BY <1>1 DEF Refused

\* The count stays right when one visited entry is added to the visited ones and "more"
\* to the count, if the entry is countable only when it is counted.
LEMMA CountGrows ==
    ASSUME NEW S, IsFiniteSet(S), NEW T, NEW x, T \subseteq S \cup {x},
           NEW more \in {0, 1}, NEW n \in Nat, Cardinality(S) <= n,
           x \in T => more = 1
    PROVE  Cardinality(T) <= n + more
  <1>1. Cardinality(S) \in Nat
    BY FS_CardinalityType
  <1>2. CASE x \in T
    <2>1. IsFiniteSet(S \cup {x}) /\ Cardinality(S \cup {x}) <= Cardinality(S) + 1
      <3>1. /\ IsFiniteSet(S \cup {x})
            /\ Cardinality(S \cup {x}) = IF x \in S THEN Cardinality(S) ELSE Cardinality(S) + 1
        BY FS_AddElement, ZenonT(60)
      <3> QED
        BY <1>1, <3>1
    <2>2. Cardinality(T) <= Cardinality(S \cup {x}) /\ IsFiniteSet(T)
      BY <2>1, FS_Subset
    <2>3. Cardinality(T) \in Nat /\ Cardinality(S \cup {x}) \in Nat
      BY <2>1, <2>2, FS_CardinalityType
    <2> QED
      BY <1>1, <1>2, <2>1, <2>2, <2>3
  <1>3. CASE x \notin T
    <2>1. T \subseteq S
      BY <1>3
    <2>2. Cardinality(T) <= Cardinality(S) /\ IsFiniteSet(T)
      BY <2>1, FS_Subset
    <2>3. Cardinality(T) \in Nat
      BY <2>2, FS_CardinalityType
    <2> QED
      BY <1>1, <2>2, <2>3
  <1> QED
    BY <1>2, <1>3

\* A step that leaves the check alone leaves the count right.
LEMMA CountKept ==
    ASSUME TypesInv, TypesInv', PlacesInv, ListedInv, CountInv, PathsGrow,
           CheckFields(check') = CheckFields(check), spent'.troubles >= spent.troubles
    PROVE  CountInv'
  <1> SUFFICES ASSUME Calm'
               PROVE  /\ \A entry \in Visited : NamespaceOf[entry[1]] \in DOMAIN check.known
                      /\ Cardinality({entry \in Visited : Countable(entry)'}) <= Done
    BY DEF CountInv, Visited, Done, CheckFields
  <1>1. Calm
    BY DEF Calm, CheckFields, ListedInv, TypesInv, Types, Checks, Budgets
  <1> DEFINE before == {entry \in Visited : Countable(entry)}
             after == {entry \in Visited : Countable(entry)'}
  <1>2. after \subseteq before
    BY <1>1, CountableBefore DEF Visited, CheckFields, Calm
  <1>3. IsFiniteSet(before)
    BY ListedFinite, FS_Subset DEF Visited
  <1> HIDE DEF before, after
  <1>4. Cardinality(after) <= Cardinality(before) /\ IsFiniteSet(after)
    BY <1>2, <1>3, FS_Subset
  <1>5. Cardinality(before) \in Nat /\ Cardinality(after) \in Nat
    BY <1>3, <1>4, FS_CardinalityType
  <1>6. Done \in Nat
    BY DEF Done, Counted, TypesInv, Types, Checks
  <1>7. Cardinality(before) <= Done
        /\ \A entry \in Visited : NamespaceOf[entry[1]] \in DOMAIN check.known
    BY <1>1 DEF CountInv, before
  <1>8. Cardinality(after) <= Done
    BY <1>4, <1>5, <1>6, <1>7
  <1> QED
    BY <1>7, <1>8 DEF after

LEMMA CountBegin ==
    ASSUME TypesInv, TypesInv', PlacesInv, ListedInv, CountInv, PathsGrow,
           NEW scope \in Scopes, BeginCheck(scope), spent'.troubles >= spent.troubles
    PROVE  CountInv'
  <1>1. CASE check' = check
    BY <1>1, CountKept DEF CheckFields
  <1>2. CASE /\ check'.pc = "pods" /\ check'.done = 0
             /\ check'.listed = PodsToReconcile(scope)
             /\ check'.todo = {entry \in PodsToReconcile(scope) : entry[2] # None}
    <2>1. \A entry \in PodsToReconcile(scope) : entry[2] # None
      BY DEF PodsToReconcile, ListedInv
    <2>2. Visited' = {} /\ Done' = 0
      BY <1>2, <2>1 DEF Visited, Done
    <2>3. {entry \in Visited : Countable(entry)}' = {}
      BY <2>2
    <2>4. Cardinality({entry \in Visited : Countable(entry)}') = 0
      BY <2>3, FS_EmptySet, ZenonT(60)
    <2> QED
      BY <2>2, <2>4 DEF CountInv
  <1> QED
    BY <1>1, <1>2, BegunCheck

LEMMA CountEndPod ==
    ASSUME TypesInv, TypesInv', PlacesInv, ListedInv, CountInv, PathsGrow, EndPod,
           spent'.troubles >= spent.troubles
    PROVE  CountInv'
  <1> SUFFICES ASSUME Calm' PROVE CountInv'
    BY DEF CountInv
  <1>1. check.pc = "condition" /\ check'.since = check.since /\ check'.key = check.key
        /\ UNCHANGED disk
    BY DEF EndPod, TypesInv, Types, Checks
  <1>2. /\ check'.pc = "pods" /\ check'.todo = check.todo /\ check'.known = check.known
        /\ check'.listed = check.listed /\ check'.done = check.done + Counted(check.failed)
    BY TypesEndPod
  <1>3. Calm
    BY <1>1 DEF Calm, ListedInv, TypesInv, Types, Checks, Budgets
  <1>4. Visited' = Visited
    BY <1>2 DEF Visited
  <1>5. Done' = Done
    BY <1>1, <1>2 DEF Done, Counted, TypesInv, Types, Checks
  <1>6. \A entry \in Visited : Countable(entry)' <=> Countable(entry)
    BY <1>1, <1>2 DEF Countable
  <1>7. {entry \in Visited : Countable(entry)}' = {entry \in Visited : Countable(entry)}
    BY <1>4, <1>6
  <1> QED
    BY <1>2, <1>3, <1>4, <1>5, <1>7 DEF CountInv

LEMMA CountCheckPod ==
    ASSUME TypesInv, TypesInv', PlacesInv, FilesInv, ListedInv, CountInv, PathsGrow,
           NEW entry \in Pods \X Pods, CheckPod(entry), spent'.troubles >= spent.troubles
    PROVE  CountInv'
  <1> SUFFICES ASSUME Calm' PROVE CountInv'
    BY DEF CountInv
  <1> DEFINE p == entry[1]  path == entry[2]
             ns == NamespaceOf[p]
             ds == DatasetsFor(ns)
             fixing == Fixing(entry, ds)
             refused == Refused(path, fixing, check.key)
             taken == Learned(entry, ds)
  <1>1. /\ check.pc = "pods" /\ entry \in check.todo /\ check.todo \subseteq check.listed
        /\ check.key \in Texts /\ entry \in Entries /\ ds \in SUBSET Datasets
    BY DatasetsForType DEF CheckPod, TypesInv, Keyed, PlacesInv, CheckInv, Entries
  <1>2. /\ taken \in Checks /\ taken.todo = check.todo \ {entry}
        /\ DOMAIN taken.known = DOMAIN check.known \cup {ns} /\ taken.known[ns] = ds
        /\ \A n \in DOMAIN check.known \ {ns} : taken.known[n] = check.known[n]
        /\ taken.pc = "pods" /\ taken.listed = check.listed /\ taken.key = check.key
        /\ taken.done = check.done
    BY <1>1, LearnedType
  <1>3. Calm /\ ~Trouble
    <2>1. check'.since = check.since
      BY CheckPodFields
    <2>2. spent.troubles \in Nat /\ spent'.troubles \in Nat /\ check.since \in Nat
      BY DEF TypesInv, Types, Checks, Budgets
    <2>3. spent'.troubles = spent.troubles /\ spent.troubles = check.since
      BY <1>1, <2>1, <2>2 DEF Calm, ListedInv
    <2> QED
      BY <1>1, <2>2, <2>3 DEF Calm, Trouble, TypesInv, Types, Budgets
  <1>4. \/ check' = taken /\ UNCHANGED disk /\ ds = {}
        \/ \E count \in Nat, failed \in BOOLEAN :
              /\ check' = WithResult(taken, entry, count, failed, {})
              /\ \/ UNCHANGED disk /\ ~disk[path].there
                 \/ /\ disk' = Mounted(path, fixing, check.key, refused)
                    /\ refused = {} /\ Erroneous(p, ds) = {} => ~failed
    BY <1>3, CalmCheckPod
  <1>5. ns \in DOMAIN check.known => check.known[ns] = ds
    BY DEF DatasetsFor
  <1> DEFINE before == {e \in Visited : Countable(e)}
             after == {e \in Visited' : Countable(e)'}
  <1>6. /\ \A e \in Visited : NamespaceOf[e[1]] \in DOMAIN check.known
        /\ Cardinality(before) <= check.done /\ check.done \in Nat
    BY <1>1, <1>3 DEF CountInv, Done, TypesInv, Types, Checks
  <1>7. IsFiniteSet(before)
    BY ListedFinite, FS_Subset DEF Visited
  <1> HIDE DEF ds, taken, fixing, refused
  <1>8. ASSUME check'.todo = taken.todo, check'.listed = taken.listed, check'.key = taken.key,
               check'.known = taken.known
        PROVE  /\ Visited' = Visited \cup {entry}
               /\ \A e \in Visited' : NamespaceOf[e[1]] \in DOMAIN check'.known
               /\ after \subseteq before \cup {entry}
    <2>1. Visited' = Visited \cup {entry}
      BY <1>1, <1>2, <1>8 DEF Visited
    <2>2. \A e \in Visited' : NamespaceOf[e[1]] \in DOMAIN check'.known
      BY <1>2, <1>6, <1>8, <2>1
    <2>3. ASSUME NEW e \in Visited, Countable(e)' PROVE Countable(e)
      <3>1. check'.known[NamespaceOf[e[1]]] = check.known[NamespaceOf[e[1]]]
        BY <1>2, <1>5, <1>6, <1>8
      <3>2. e \in check.listed /\ check'.key = check.key /\ check.pc # "idle"
        BY <1>1, <1>2, <1>8 DEF Visited
      <3> QED
        BY <2>3, <3>1, <3>2, CountableBefore
    <2> QED
      BY <2>1, <2>2, <2>3
  <1>9. CASE check' = taken /\ UNCHANGED disk /\ ds = {}
    <2>1. entry \notin after
      BY <1>2, <1>9 DEF Countable
    <2>2. Done' = check.done
      BY <1>2, <1>6, <1>9 DEF Done
    <2>3. after \subseteq before \cup {entry}
          /\ \A e \in Visited' : NamespaceOf[e[1]] \in DOMAIN check'.known
      BY <1>8, <1>9
    <2> HIDE DEF before, after
    <2>4. Cardinality(after) <= check.done + 0
      BY <1>6, <1>7, <2>1, <2>3, CountGrows
    <2> QED
      BY <1>6, <2>2, <2>3, <2>4 DEF CountInv, after
  <1>10. ASSUME NEW count \in Nat, NEW failed \in BOOLEAN,
                check' = WithResult(taken, entry, count, failed, {}),
                \/ UNCHANGED disk /\ ~disk[path].there
                \/ /\ disk' = Mounted(path, fixing, check.key, refused)
                   /\ refused = {} /\ Erroneous(p, ds) = {} => ~failed
         PROVE  CountInv'
    <2>1. /\ check'.pc = "condition" /\ check'.failed = failed
          /\ check'.todo = taken.todo /\ check'.known = taken.known
          /\ check'.listed = taken.listed /\ check'.key = taken.key
          /\ check'.done = taken.done
      BY <1>2, <1>10, ResultType
    <2>2. Counted(failed) \in {0, 1} /\ Done' = check.done + Counted(failed)
      BY <1>2, <2>1 DEF Done, Counted
    <2>3. ASSUME entry \in after PROVE Counted(failed) = 1
      <3>1. /\ Erroneous(p, ds) = {} /\ disk'[path].there
            /\ disk'[path].longest <= Len(check.key)
        BY <1>2, <2>1, <2>3 DEF Countable
      <3>2. disk' = Mounted(path, fixing, check.key, refused)
            /\ (refused = {} /\ Erroneous(p, ds) = {} => ~failed)
        BY <1>10, <3>1
      <3>3. Len(disk[path].file) <= Len(check.key)
        BY <1>1, <3>1, <3>2, MountedLonger
      <3>4. refused = {}
        BY <1>1, <3>3, NothingRefused DEF refused
      <3> QED
        BY <3>1, <3>2, <3>4 DEF Counted
    <2>4. after \subseteq before \cup {entry}
          /\ \A e \in Visited' : NamespaceOf[e[1]] \in DOMAIN check'.known
      BY <1>8, <2>1
    <2> HIDE DEF before, after
    <2>5. Cardinality(after) <= check.done + Counted(failed)
      BY <1>6, <1>7, <2>2, <2>3, <2>4, CountGrows
    <2> QED
      BY <2>2, <2>4, <2>5 DEF CountInv, after
  <1> QED
    BY <1>4, <1>9, <1>10

CheckedInv == FilesInv /\ ListedInv /\ CountInv

LEMMA CheckedStep == NodeInv /\ CheckedInv /\ [Next]_vars => CheckedInv'
  <1> SUFFICES ASSUME NodeInv, CheckedInv, [Next]_vars PROVE CheckedInv'
    OBVIOUS
  <1>1. TypesInv /\ TypesInv' /\ PlacesInv
    BY TypesStep DEF NodeInv
  <1>2. FilesInv' /\ PathsGrow /\ ListedInv'
    BY <1>1, FilesStep, ListedStep DEF CheckedInv
  <1>3. spent'.troubles >= spent.troubles
    BY <1>1, BudgetAlways
  <1>4. ASSUME check' = Idle PROVE CountInv'
    <2>1. ~Calm'
      BY <1>4, IdleType DEF Calm
    <2> QED
      BY <2>1 DEF CountInv
  <1> QED
    BY <1>1, <1>2, <1>3, <1>4, CheckSteps, CountBegin, CountCheckPod, CountEndPod, CountKept
       DEF CheckedInv

LEMMA CheckedInit == Init => CheckedInv
  BY FilesInit, ListedInit, IdleType DEF CheckedInv, CountInv, Calm, Init

\* A check of everything that has met no failing call has counted, when it ends, every
\* pod of its list that has datasets, rules without errors and a path that is still
\* there with a file that can hold its key (processHealthCheckAll).
THEOREM FullChecksCount == Spec => FullCheckCountsAll
  <1>1. NodeInv /\ CheckedInv /\ [Next]_vars =>
            (EndCheck /\ check.scope = All /\ spent.troubles = check.since =>
                check.done >= Cardinality({entry \in check.listed :
                    /\ check.known[NamespaceOf[entry[1]]] # {}
                    /\ Erroneous(entry[1], check.known[NamespaceOf[entry[1]]]) = {}
                    /\ disk[entry[2]].there /\ disk[entry[2]].longest <= Len(check.key)}))
    <2> SUFFICES ASSUME NodeInv, CountInv, EndCheck, spent.troubles = check.since
                 PROVE  check.done >= Cardinality({entry \in check.listed : Countable(entry)})
      BY DEF CheckedInv, Countable
    <2>1. check.pc = "pods" /\ check.todo = {}
      BY DEF EndCheck
    <2>2. Visited = check.listed /\ Calm /\ Done = check.done
      BY <2>1 DEF Visited, Calm, Done, NodeInv, TypesInv, Types, Checks
    <2>3. Cardinality({entry \in check.listed : Countable(entry)}) <= check.done
      BY <2>2 DEF CountInv
    <2>4. IsFiniteSet({entry \in check.listed : Countable(entry)})
      BY ListedFinite, FS_Subset DEF NodeInv
    <2>5. Cardinality({entry \in check.listed : Countable(entry)}) \in Nat
          /\ check.done \in Nat
      BY <2>4, FS_CardinalityType DEF NodeInv, TypesInv, Types, Checks
    <2> DEFINE n == Cardinality({entry \in check.listed : Countable(entry)})
    <2> HIDE DEF n
    <2> QED
      BY <2>3, <2>5 DEF n
  <1>2. NodeInv /\ CheckedInv /\ [Next]_vars =>
            [EndCheck /\ check.scope = All /\ spent.troubles = check.since =>
                check.done >= Cardinality({entry \in check.listed :
                    /\ check.known[NamespaceOf[entry[1]]] # {}
                    /\ Erroneous(entry[1], check.known[NamespaceOf[entry[1]]]) = {}
                    /\ disk[entry[2]].there /\ disk[entry[2]].longest <= Len(check.key)})]_vars
    BY <1>1
  <1> QED
    BY <1>2, NodeInvInit, CheckedInit, NodeInvStep, CheckedStep, PTL DEF Spec, FullCheckCountsAll

================================================================================
