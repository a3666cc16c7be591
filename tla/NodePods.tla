-------------------------------- MODULE NodePods -------------------------------
(***************************************************************************)
(* The pods of one node and their datasets: a pod is admitted, published,  *)
(* tagged so that checks find it, and repaired by them, until it is gone   *)
(* and another pod may have its name.  What the two containers do with the *)
(* volume of one pod is a step here; DatasetMount takes it apart.          *)
(***************************************************************************)
EXTENDS PodSelector, PodWebhook, DriverSettings, FiniteSets

CONSTANTS
    Pods,          \* each lives once
    Settled,       \* those that run already, and stay
    Casts,         \* the sets of pods that there may be together
    NameOf,        \* NameOf[p]: a later pod may have the name again
    NamespaceOf,
    Labelled,      \* Labelled[p]: [name, generateName, labels]
    Template,      \* Template[p]: the pod as its author wrote it, [volumes, containers]
    Datasets,      \* the datasets that may be there
    Home,          \* Home[d]: the namespace of d
    Rules,         \* Rules[d]: the pod selectors of d
    Samples,       \* other lists of pod selectors, for the properties of rules
    Drivers,       \* the MarketplaceCSIDriver that a webhook may find, or Nil
    Settings,      \* what the driver may read: [type, secret]
    All, None,     \* what a check of everything is for; no path
    Scopes,        \* what the checks are for: datasets or All
    MaxEvents,     \* bound on changes of datasets and settings, and on lost mounts
    MaxTroubles    \* bound on failed calls, restarts and forced deletions, all together

Namespaces == {NamespaceOf[p] : p \in Pods}
Texts == {CredentialText(s.type, s.secret) : s \in {r \in Settings : Readable(r.type, r.secret)}}

ASSUME NodePodsAssumption ==
    /\ IsFiniteSet(Pods) /\ IsFiniteSet(Datasets)
    /\ \A d \in Datasets : Home[d] \in Namespaces
    /\ All \notin Datasets /\ None \notin Pods
    /\ Settled \subseteq Pods /\ Casts \subseteq SUBSET Pods /\ Casts # {}
    /\ \A p, q \in Settled : NameOf[p] = NameOf[q] /\ NamespaceOf[p] = NamespaceOf[q] => p = q
    /\ \A t \in Texts : t \in Seq(ToSet(t))
    /\ \A terms \in Samples : terms \in Seq(ToSet(terms))
    /\ Scopes \subseteq Datasets \cup {All}
    /\ MaxEvents \in Nat /\ MaxTroubles \in Nat

\* The API server lets no two volumes of a pod have one name.
ASSUME TemplateAssumption ==
    \A p \in Pods :
        LET pod == Template[p]  vols == pod.volumes
        IN /\ pod = [volumes |-> vols, containers |-> pod.containers]
           /\ vols \in Seq(ToSet(vols))
           /\ \A i, j \in DOMAIN vols : vols[i].name = vols[j].name => i = j
           /\ \A c \in DOMAIN pod.containers :
                 pod.containers[c] \in Seq(ToSet(pod.containers[c]))

VARIABLES
    pods,       \* the pods in the API server
    disk,       \* disk[p]: the target path of p on the node
    publish,    \* publish[p]: the kubelet's call for the volume of p
    check,      \* the health check that the reconcile container works on
    settings,   \* the driver's resource and the secret it names
    catalog,    \* the datasets that there are
    spent       \* what is used up of the bounds

vars == <<pods, disk, publish, check, settings, catalog, spent>>

--------------------------------------------------------------------------------
(* Data *)

Conditions == {"None", "Complete", "NoAction", "Warning", "Error"}
Alive(p) == pods[p].phase \in {"Pending", "Running"}
HasVolume(p) ==
    \E i \in DOMAIN pods[p].spec.volumes : pods[p].spec.volumes[i].claim = DatasetVolume.claim

\* A folder without a mount is one whose s3fs has failed or died.
\* "longest" records the length of the longest key that was written.
NoPath == [there |-> FALSE, folders |-> {}, mounts |-> {}, file |-> <<>>, longest |-> 0]

\* Records of what has happened since the call began: the mounts that are "broken" or
\* taken down, the folders that the check has "skipped", and the calls that had failed
\* "since" then.
Waiting == [pc |-> "wait", datasets |-> {}, key |-> <<>>, count |-> 0, failed |-> FALSE,
            broken |-> {}]
Idle == [pc |-> "idle", key |-> <<>>, listed |-> {}, todo |-> {}, known |-> <<>>,
         target |-> <<None, None>>, count |-> 0, failed |-> FALSE, done |-> 0,
         since |-> 0, scope |-> All, broken |-> {}, skipped |-> {}]

Event == spent.events < MaxEvents /\ spent' = [spent EXCEPT !.events = @ + 1]
Trouble == spent.troubles < MaxTroubles /\ spent' = [spent EXCEPT !.troubles = @ + 1]

\* The pods that a call by the name of p reaches: one at most.
Namesakes(p) ==
    {q \in Pods : Alive(q) /\ NameOf[q] = NameOf[p] /\ NamespaceOf[q] = NamespaceOf[p]}

InNamespace(ns) == {d \in catalog : Home[d] = ns}

\* The datasets among ds whose rules select p, and those whose rules are in error.
Verdicts == [p \in Pods, d \in Datasets |-> PodMatches(GetPodLabels(Labelled[p]), Rules[d])]
Selected(p, ds) == {d \in ds : Verdicts[p, d].match}
Erroneous(p, ds) == {d \in ds : Verdicts[p, d].errs # {}}

NewPod(p) == [phase |-> "none", spec |-> Template[p], deleted |-> FALSE,
              watched |-> FALSE, path |-> None, condition |-> "None"]
Running(p, driver) ==
    [NewPod(p) EXCEPT !.phase = "Running", !.watched = TRUE, !.path = p,
                      !.spec = Handle(@, NamespaceOf[p], driver, TRUE)]

\* A pod that runs already has what there was to mount; those that are not of the
\* cast are gone.
Init ==
    /\ settings \in {s \in Settings : Readable(s.type, s.secret)}
    /\ \E cast \in Casts, driver \in Drivers \ {Nil} :
          /\ catalog \in SUBSET {d \in Datasets : \E p \in cast : NamespaceOf[p] = Home[d]}
          /\ pods = [p \in Pods |->
                 IF p \notin cast THEN [NewPod(p) EXCEPT !.phase = "gone"]
                 ELSE IF p \in Settled THEN Running(p, driver) ELSE NewPod(p)]
    /\ disk = [p \in Pods |->
           LET ds == Selected(p, InNamespace(NamespaceOf[p]))
               key == CredentialText(settings.type, settings.secret)
           IN IF pods[p].phase # "Running" THEN NoPath
              ELSE IF ds = {} THEN [NoPath EXCEPT !.there = TRUE]
              ELSE [there |-> TRUE, folders |-> ds, mounts |-> ds,
                    file |-> key, longest |-> Len(key)]]
    /\ publish = [p \in Pods |->
           [Waiting EXCEPT !.pc = IF pods[p].phase = "Running" THEN "done" ELSE @]]
    /\ check = Idle
    /\ spent = [events |-> 0, troubles |-> 0]

--------------------------------------------------------------------------------
(* Mounting, which publication and repair have in common *)

\* mountDatasetS3 for all of "todo" but those that fail.
Mounted(path, todo, key, failing) ==
    [disk EXCEPT ![path].file = WriteFile(@, key),
                 ![path].longest = IF Len(key) > @ THEN Len(key) ELSE @,
                 ![path].folders = @ \cup todo,
                 ![path].mounts = (@ \cup todo) \ failing]

\* s3fs takes what is a credential, and fails with anything else in the file.
Refused(path, todo, key) == IF WriteFile(disk[path].file, key) \in Texts THEN {} ELSE todo

--------------------------------------------------------------------------------
(* NodePublishVolume *)

\* GetVolumeMountDetails, with the reads that it begins with.
BeginPublish(p) ==
    LET Go(call) == publish' = [publish EXCEPT ![p] = call]
    IN /\ pods[p].phase = "Pending" /\ ~pods[p].deleted /\ HasVolume(p)
       /\ publish[p].pc = "wait"
       /\ disk' = [disk EXCEPT ![p].there = TRUE]
       /\ \/ /\ Readable(settings.type, settings.secret)
             /\ Go([Waiting EXCEPT !.pc = "mount", !.datasets = InNamespace(NamespaceOf[p]),
                        !.key = CredentialText(settings.type, settings.secret)])
             /\ UNCHANGED spent
          \/ /\ \/ ~Readable(settings.type, settings.secret) /\ UNCHANGED spent
                \/ Trouble
             /\ Go([Waiting EXCEPT !.pc = "tag", !.failed = TRUE])
          \* no client, no pod: nothing is recorded anywhere
          \/ Trouble /\ Go([Waiting EXCEPT !.pc = "done"])
       /\ UNCHANGED <<pods, check, settings, catalog>>

MountDatasets(p) ==
    LET ds == publish[p].datasets
        wanted == Selected(p, ds)
        Result(failing) ==
            /\ disk' = Mounted(p, wanted, publish[p].key, failing)
            /\ publish' = [publish EXCEPT ![p].pc = "tag", ![p].key = <<>>,
                   ![p].count = Cardinality(wanted \ failing),
                   ![p].failed = failing # {} \/ Erroneous(p, ds) # {}]
    IN /\ publish[p].pc = "mount"
       /\ \/ /\ ds = {}
             /\ publish' = [publish EXCEPT ![p].pc = "tag", ![p].key = <<>>]
             /\ UNCHANGED <<disk, spent>>
          \/ /\ ds # {}
             /\ Result(Refused(p, wanted, publish[p].key))
             /\ UNCHANGED spent
          \/ Trouble /\ \E d \in wanted : Result({d} \cup Refused(p, wanted, publish[p].key))
          \/ /\ ds # {} /\ Trouble   \* the credentials cannot be written
             /\ publish' = [publish EXCEPT ![p].pc = "tag", ![p].key = <<>>, ![p].failed = TRUE]
             /\ UNCHANGED disk
       /\ UNCHANGED <<pods, check, settings, catalog>>

\* Mutant: only a pod that was published without an error is tagged.
TagPodPublished(p) ==
    /\ publish[p].pc = "tag"
    /\ pods' = [q \in Pods |->
           IF q \in Namesakes(p) /\ ~publish[p].failed
           THEN [pods[q] EXCEPT !.watched = TRUE, !.path = p] ELSE pods[q]]
    /\ publish' = [publish EXCEPT ![p].pc = "condition"]
    /\ UNCHANGED <<disk, check, settings, catalog, spent>>

\* TagPodForTracking, by the name of the pod.  A failure is only logged.
TagPod(p) ==
    /\ publish[p].pc = "tag"
    /\ \/ /\ pods' = [q \in Pods |->
                 IF q \in Namesakes(p)
                 THEN [pods[q] EXCEPT !.watched = TRUE, !.path = p] ELSE pods[q]]
          /\ UNCHANGED spent
       \/ Trouble /\ UNCHANGED pods
    /\ publish' = [publish EXCEPT ![p].pc = "condition"]
    /\ UNCHANGED <<disk, check, settings, catalog>>

PublishReason(count, failed) ==
    CASE failed -> IF count > 0 THEN "Warning" ELSE "Error"
      [] OTHER -> IF count > 0 THEN "Complete" ELSE "NoAction"

\* The condition of the pod that has the name, or of none.
WriteCondition(p, reason) ==
    \/ /\ pods' = [q \in Pods |-> IF q \in Namesakes(p)
                                  THEN [pods[q] EXCEPT !.condition = reason] ELSE pods[q]]
       /\ UNCHANGED spent
    \/ Trouble /\ UNCHANGED pods

\* The rest of UpdatePodOnNodePublishVolume.
EndPublish(p) ==
    /\ publish[p].pc = "condition"
    /\ WriteCondition(p, PublishReason(publish[p].count, publish[p].failed))
    /\ publish' = [publish EXCEPT ![p] = [Waiting EXCEPT !.pc = "done"]]
    /\ UNCHANGED <<disk, check, settings, catalog>>

--------------------------------------------------------------------------------
(* processHealthCheckAll and processHealthCheckForDataset *)

\* GetPodsToReconcile, with the path that each pod is annotated with.
PodsToReconcile(scope) ==
    {<<p, pods[p].path>> : p \in {q \in Pods :
        /\ pods[q].phase = "Running" /\ pods[q].watched
        /\ scope = All \/ NamespaceOf[q] = Home[scope]}}

\* A check of one dataset has it in hand for all pods; a check of everything
\* gets the datasets of a namespace when it first meets a pod of it.
InHand(scope) == IF scope = All THEN <<>> ELSE [ns \in {Home[scope]} |-> {scope}]

BeginCheck(scope) ==
    LET list == PodsToReconcile(scope)
        readable == Readable(settings.type, settings.secret)
        there == scope = All \/ scope \in catalog
    IN /\ check.pc = "idle"
       /\ \/ /\ ~(there /\ readable /\ list # {})   \* answered without a repair, or not at all
             /\ UNCHANGED <<check, spent>>
          \/ /\ there /\ readable /\ list # {}
             /\ check' = [Idle EXCEPT !.pc = "pods", !.listed = list, !.scope = scope,
                    !.todo = {entry \in list : entry[2] # None}, !.known = InHand(scope),
                    !.since = spent.troubles,
                    !.key = CredentialText(settings.type, settings.secret)]
             /\ UNCHANGED spent
          \/ Trouble /\ UNCHANGED check
       /\ UNCHANGED <<pods, disk, publish, settings, catalog>>

\* Mutant: the datasets of the first namespace are taken for all of them.
DatasetsForAny(ns) ==
    IF DOMAIN check.known # {} THEN UNION {check.known[n] : n \in DOMAIN check.known}
    ELSE InNamespace(ns)

\* Mutant: the path of the annotation is taken to be there.
PathAssumed(path) == TRUE

\* Whether the pod's path is still there, which the API server does not know.
PathExists(path) == disk[path].there

\* datasetsMap: what is known of the namespace, or read now.
DatasetsFor(ns) == IF ns \in DOMAIN check.known THEN check.known[ns] ELSE InNamespace(ns)

\* Mutant: folders that are there are left alone.
ProcessedNew(p, path, ds) == Selected(p, ds \ disk[path].folders)

\* What ReconcileDatasets looks at: the folders that are there, whatever the rules
\* say of them, and what the rules select.
Processed(p, path, ds) ==
    (ds \cap disk[path].folders) \cup Selected(p, ds \ disk[path].folders)

\* ReconcileDatasets for one pod of the list, which is known by what it was then.  A
\* folder that shows nothing is cleaned up before it is mounted again: when that fails,
\* isMountRequired says no, and the dataset is neither mounted nor an error.
CheckPod(entry) ==
    LET p == entry[1]  path == entry[2]
        ns == NamespaceOf[p]
        ds == DatasetsFor(ns)
        fixing == Processed(p, path, ds) \ disk[path].mounts
        taken == [check EXCEPT !.todo = @ \ {entry},
                     !.known = [n \in DOMAIN @ \cup {ns} |-> IF n = ns THEN ds ELSE @[n]]]
        Result(count, failed, skipped) == check' = [taken EXCEPT
            !.pc = "condition", !.target = entry, !.count = count, !.failed = failed,
            !.skipped = @ \cup ({path} \X skipped)]
        Repair(skipped, failures) ==
            LET todo == fixing \ skipped
                failing == (failures \ skipped) \cup Refused(path, todo, check.key)
            IN /\ disk' = Mounted(path, todo, check.key, failing)
               /\ Result(Cardinality(todo \ failing),
                         failing # {} \/ Erroneous(p, ds \ disk[path].folders) # {}, skipped)
    IN /\ check.pc = "pods" /\ entry \in check.todo
       /\ \/ /\ ds = {}   \* nothing to do for this pod
             /\ check' = taken
             /\ UNCHANGED <<disk, spent>>
          \/ /\ ns \notin DOMAIN check.known   \* the datasets cannot be read
             /\ Trouble
             /\ check' = [check EXCEPT !.todo = @ \ {entry}]
             /\ UNCHANGED disk
          \/ /\ ds # {} /\ ~PathExists(path)
             /\ Result(0, FALSE, {})
             /\ UNCHANGED <<disk, spent>>
          \/ /\ ds # {} /\ PathExists(path)
             /\ Repair({}, {})
             /\ UNCHANGED spent
          \/ /\ ds # {} /\ PathExists(path) /\ Trouble
             /\ \E skipped \in SUBSET (fixing \cap disk[path].folders), failures \in SUBSET fixing :
                    Repair(skipped, failures)
          \/ /\ ds # {} /\ PathExists(path) /\ Trouble   \* no credentials
             /\ Result(0, TRUE, {})
             /\ UNCHANGED disk
       /\ UNCHANGED <<pods, publish, settings, catalog>>

\* Mutant: a failure goes unnoticed when nothing was mounted.
ReconcileReasonByCount(count, failed) == IF failed /\ count > 0 THEN "Warning" ELSE "Complete"

ReconcileReason(count, failed) ==
    CASE failed -> IF count > 0 THEN "Warning" ELSE "Error"
      [] OTHER -> "Complete"

\* Mutant: every pod of the list counts.
CountedAll(failed) == 1

\* What a pod adds to podsChecked.
Counted(failed) == IF failed THEN 0 ELSE 1

\* UpdatePodStatusOnReconcile, by the name of the pod.
EndPod ==
    /\ check.pc = "condition"
    /\ WriteCondition(check.target[1], ReconcileReason(check.count, check.failed))
    /\ check' = [check EXCEPT !.pc = "pods", !.target = <<None, None>>, !.count = 0,
                    !.failed = FALSE, !.done = @ + Counted(check.failed)]
    /\ UNCHANGED <<disk, publish, settings, catalog>>

EndCheck ==
    /\ check.pc = "pods" /\ check.todo = {}
    /\ check' = Idle
    /\ UNCHANGED <<pods, disk, publish, settings, catalog, spent>>

--------------------------------------------------------------------------------
(* The surroundings *)

\* The name is free again when the pod that had it is gone.  The webhook finds the
\* claim or not; when it fails the pod is admitted as it is.
CreatePod(p) ==
    /\ pods[p].phase = "none" /\ Namesakes(p) = {}
    /\ \E driver \in Drivers, claimFound \in BOOLEAN :
           pods' = [pods EXCEPT ![p].phase = "Pending",
               ![p].spec = Handle(Template[p], NamespaceOf[p], driver, claimFound)]
    /\ UNCHANGED <<disk, publish, check, settings, catalog, spent>>

\* The containers start when the volume is published.
StartPod(p) ==
    /\ pods[p].phase = "Pending" /\ ~pods[p].deleted
    /\ HasVolume(p) => publish[p].pc = "done"
    /\ pods' = [pods EXCEPT ![p].phase = "Running"]
    /\ UNCHANGED <<disk, publish, check, settings, catalog, spent>>

DeletePod(p) ==
    /\ p \notin Settled /\ Alive(p) /\ ~pods[p].deleted
    /\ pods' = [pods EXCEPT ![p].deleted = TRUE]
    /\ UNCHANGED <<disk, publish, check, settings, catalog, spent>>

\* A deletion that does not wait for the node.
ForceDelete(p) ==
    /\ p \notin Settled /\ Alive(p) /\ Trouble
    /\ pods' = [pods EXCEPT ![p].phase = "gone", ![p].deleted = TRUE]
    /\ UNCHANGED <<disk, publish, check, settings, catalog>>

\* NodeUnpublishVolume goes through the names in the path, in any order, and whatever
\* it cannot clean up is left for the next call: the kubelet calls until the path is gone.
Unpublishing(p) ==
    pods[p].deleted /\ publish[p].pc \in {"wait", "done"} /\ disk[p].there

\* A check that is under way may have counted on the mount.
Lose(p, d) ==
    check' = [check EXCEPT !.broken = IF check.pc # "idle" THEN @ \cup {<<p, d>>} ELSE @]

\* The folder goes with the mount, unless its removal fails.
UnpublishDataset(p, d) ==
    /\ Unpublishing(p) /\ d \in disk[p].folders
    /\ \/ disk' = [disk EXCEPT ![p].folders = @ \ {d}, ![p].mounts = @ \ {d}] /\ UNCHANGED spent
       \/ disk' = [disk EXCEPT ![p].mounts = @ \ {d}] /\ d \in disk[p].mounts /\ Trouble
    /\ IF d \in disk[p].mounts THEN Lose(p, d) ELSE UNCHANGED check
    /\ UNCHANGED <<pods, publish, settings, catalog>>

UnpublishCredentials(p) ==
    /\ Unpublishing(p) /\ disk[p].file # <<>>
    /\ disk' = [disk EXCEPT ![p].file = <<>>]
    /\ UNCHANGED <<pods, publish, check, settings, catalog, spent>>

\* Nothing is left in the path.
UnpublishPath(p) ==
    /\ Unpublishing(p) /\ disk[p].folders = {} /\ disk[p].file = <<>>
    /\ disk' = [disk EXCEPT ![p] = NoPath]
    /\ UNCHANGED <<pods, publish, check, settings, catalog, spent>>

Unpublish(p) ==
    UnpublishPath(p) \/ UnpublishCredentials(p) \/ \E d \in Datasets : UnpublishDataset(p, d)

Forget(p) ==
    /\ Alive(p) /\ pods[p].deleted
    /\ publish[p].pc \in {"wait", "done"} /\ ~disk[p].there
    /\ pods' = [pods EXCEPT ![p].phase = "gone"]
    /\ UNCHANGED <<disk, publish, check, settings, catalog, spent>>

\* An s3fs process dies.
Break(p, d) ==
    /\ d \in disk[p].mounts /\ Event
    /\ disk' = [disk EXCEPT ![p].mounts = @ \ {d}]
    /\ publish' = [publish EXCEPT ![p].broken = IF publish[p].pc = "done" THEN @ ELSE @ \cup {d}]
    /\ Lose(p, d)
    /\ UNCHANGED <<pods, settings, catalog>>

\* The reconcile container stops in the middle of a check, which nobody takes up.
ReconcilerRestart ==
    /\ check.pc # "idle" /\ Trouble
    /\ check' = Idle
    /\ UNCHANGED <<pods, disk, publish, settings, catalog>>

ChangeSettings ==
    /\ Event
    /\ settings' \in Settings \ {settings}
    /\ UNCHANGED <<pods, disk, publish, check, catalog>>

ChangeDataset(d) ==
    /\ Event
    /\ catalog' = IF d \in catalog THEN catalog \ {d} ELSE catalog \cup {d}
    /\ UNCHANGED <<pods, disk, publish, check, settings>>

--------------------------------------------------------------------------------
(* The specification *)

Publishing(p) == BeginPublish(p) \/ MountDatasets(p) \/ TagPod(p) \/ EndPublish(p)
Checking == EndPod \/ EndCheck \/ \E entry \in Pods \X Pods : CheckPod(entry)

Next ==
    \/ Checking \/ ReconcilerRestart \/ ChangeSettings
    \/ \E scope \in Scopes : BeginCheck(scope)
    \/ \E d \in Datasets : ChangeDataset(d)
    \/ \E p \in Pods :
          \/ Publishing(p) \/ CreatePod(p) \/ StartPod(p) \/ DeletePod(p)
          \/ ForceDelete(p) \/ Unpublish(p) \/ Forget(p)
          \/ \E d \in Datasets : Break(p, d)

Spec == Init /\ [][Next]_vars

\* A check that has begun comes to an end, and checks of everything come again and
\* again beside the others, as the operator creates them from time to time.
Fairness == WF_vars(Checking) /\ SF_vars(BeginCheck(All))

FairSpec == Spec /\ Fairness

--------------------------------------------------------------------------------
(* Properties *)

Paths == [there : BOOLEAN, folders : SUBSET Datasets, mounts : SUBSET Datasets,
          file : Seq(UNION {ToSet(t) : t \in Texts}), longest : {0} \cup {Len(t) : t \in Texts}]

\* Every variable has its type; what is mounted is mounted on a folder, and nothing
\* is mounted on a path that is not there.
TypeOK ==
    /\ \A p \in Pods :
          /\ pods[p].phase \in {"none", "Pending", "Running", "gone"}
          /\ {pods[p].deleted, pods[p].watched} \subseteq BOOLEAN
          /\ pods[p].path \in Pods \cup {None} /\ pods[p].condition \in Conditions
          /\ disk[p] \in Paths /\ disk[p].mounts \subseteq disk[p].folders
          /\ ~disk[p].there => disk[p] = NoPath
          /\ publish[p].pc \in {"wait", "mount", "tag", "condition", "done"}
          /\ publish[p].key \in Texts \cup {<<>>}
    /\ check.pc \in {"idle", "pods", "condition"}
    /\ check.todo \subseteq check.listed /\ check.listed \subseteq Pods \X (Pods \cup {None})
    /\ check.pc = "condition" => check.target \in check.listed \ check.todo
    /\ check.done + Cardinality(check.todo) <= Cardinality(check.listed)
    /\ settings \in Settings /\ catalog \subseteq Datasets

\* A pod never gets a dataset of another namespace, though one loop repairs the pods
\* of all namespaces and the names of pods come again.
OwnDatasetsOnly ==
    \A p \in Pods : \A d \in disk[p].folders : Home[d] = NamespaceOf[p]

\* A pod that runs with a volume is found by checks, and at its own path, also when
\* its publication has failed or mounted nothing: as long as every call to the API
\* server goes through and no pod is deleted by force.  The tag is written by name,
\* and after a forced deletion it can hit the next pod of the name.
PublishedIsWatched ==
    spent.troubles = 0 =>
        \A p \in Pods : pods[p].phase = "Running" /\ HasVolume(p) =>
            pods[p].watched /\ pods[p].path = p

\* The webhook adds one volume of the datasets to a pod that has none, and one mount
\* of it to each container; it changes nothing else, and nothing the second time,
\* whatever it finds then.
AdmittedOnce ==
    \A p \in Pods :
        LET spec == pods[p].spec  old == Template[p]
            Claims(vols) == {i \in DOMAIN vols : vols[i].claim = DatasetVolume.claim}
        IN /\ Cardinality(Claims(spec.volumes)) <= Cardinality(Claims(old.volumes)) + 1
           /\ Claims(old.volumes) # {} => spec = old
           /\ spec # old =>
                /\ NamespaceOf[p] \notin ProtectedNamespaces
                /\ Cardinality({spec.volumes[i].name : i \in DOMAIN spec.volumes})
                      = Len(old.volumes) + 1
                /\ IsPrefix(old.volumes, spec.volumes)
                /\ DOMAIN spec.containers = DOMAIN old.containers
                /\ \A c \in DOMAIN old.containers :
                      /\ IsPrefix(old.containers[c], spec.containers[c])
                      /\ Len(spec.containers[c]) = Len(old.containers[c]) + 1
                /\ \A driver \in Drivers, found \in BOOLEAN :
                      Handle(spec, NamespaceOf[p], driver, found) = spec

\* The rules of a dataset select a pod whose volume is to be mounted if and only if
\* there are none, or one of those that can be read and say something is satisfied;
\* an unreadable rule is an error unless another one selects the pod, in whatever
\* order they are.  A rule that asks for a value with a hyphen at its end, as
\* generateName has it, is one that cannot be read: SatisfiedRulesMount is about what
\* the type's comment says of it.
RulesAgree ==
    \A p \in {q \in Pods : publish[q].pc = "mount"}, terms \in Samples :
        LET lbls == GetPodLabels(Labelled[p])
            said == {t \in ToSet(terms) : ~EmptyTerm(t)}
            readable == {t \in said : \A r \in Requirements(t) : WellFormed(r)}
            found == PodMatches(lbls, terms)
        IN /\ found.match <=>
                (terms = <<>> \/ \E t \in readable : \A r \in Requirements(t) : Holds(lbls, r))
           /\ found.errs # {} <=> (~found.match /\ said # readable)

\* What the comment on PodSelectors says: "In addition to labels, rules also support
\* fields metadata.name and metadata.generateName.  If one of the pod selector rules is
\* satisfied by a pod, this dataset will be mounted to that pod."  With no failing call,
\* the datasets of which a rule is satisfied are mounted when the publication of the pod
\* ends, or have died since.
SatisfiedRulesMount ==
    spent.troubles = 0 =>
        \A p \in {q \in Pods : publish[q].pc = "condition"} : \A d \in publish[p].datasets :
            (\E t \in ToSet(Rules[d]) :
                ~EmptyTerm(t) /\ \A r \in Requirements(t) : Holds(GetPodLabels(Labelled[p]), r))
            => d \in disk[p].mounts \cup publish[p].broken

\* Rules that the operator has accepted are no errors for such a pod, as long as their
\* matchLabels can be read, which it does not look at.
AcceptedRulesAreRead ==
    \A p \in {q \in Pods : publish[q].pc = "mount"}, terms \in Samples :
        LET plain(t) == \A k \in DOMAIN t.labels :
                            k \notin Malformed /\ t.labels[k] \notin Malformed
        IN ValidateTerms(terms) /\ (\A t \in ToSet(terms) : plain(t)) =>
               PodMatches(GetPodLabels(Labelled[p]), terms).errs = {}

\* Whatever the driver can read the operator has accepted: it never reports a missing
\* credential of a driver that works.  The other way round does not hold: the
\* operator accepts empty values and tokens that cannot be read.
ReadableIsAccepted ==
    Readable(settings.type, settings.secret)
        => checkCredentialFields(settings.type, settings.secret)

\* A check that answers with as many pods as it has listed leaves every dataset that
\* it was for, and that selects the pod, mounted at the path the pod had: whatever
\* failed, changed or was deleted meanwhile, unless the mount has died or was taken
\* down since, the path is gone, or the check has skipped the dataset because its folder
\* could not be cleaned up.  Such a pod counts although its dataset is missing, and
\* nothing in the answer tells.
RepairedIsTrue ==
    [][EndCheck /\ check.done = Cardinality(check.listed) =>
          \A entry \in check.listed :
              \A d \in Selected(entry[1], check.known[NamespaceOf[entry[1]]]) :
                  \/ d \in disk[entry[2]].mounts
                  \/ <<entry[2], d>> \in check.broken \cup check.skipped
                  \/ ~disk[entry[2]].there]_vars

\* A check of everything that meets no failing call counts every pod that it has
\* listed and that has datasets in its namespace.  A credentials file that was
\* longer than the key now is stays spoilt, and its pod fails.
FullCheckCountsAll ==
    [][EndCheck /\ check.scope = All /\ spent.troubles = check.since =>
          check.done >= Cardinality({entry \in check.listed :
              /\ check.known[NamespaceOf[entry[1]]] # {}
              /\ Erroneous(entry[1], check.known[NamespaceOf[entry[1]]]) = {}
              /\ disk[entry[2]].there /\ disk[entry[2]].longest <= Len(check.key)})]_vars

\* The condition that says "Complete" is earned when it is written: every dataset
\* that the publication or the check was for, and that selects its pod, is mounted at
\* its path, or has died or was taken down since.  The condition of a check says nothing
\* of the datasets that it was not for or has skipped because their folders could not be
\* cleaned up, nor of a path that is gone: the pod with a skipped dataset, a namesake of
\* the pod that was repaired, or of one that is unpublished, is told "Complete" all the
\* same.
CompleteIsEarned ==
    [][(\E q \in Pods : pods'[q].condition = "Complete" /\ pods[q].condition # "Complete") =>
          \/ \E p \in Pods :
                /\ publish[p].pc = "condition" /\ publish'[p].pc = "done"
                /\ Selected(p, publish[p].datasets)
                       \subseteq disk[p].mounts \cup publish[p].broken
          \/ /\ check.pc = "condition" /\ check'.pc = "pods"
             /\ LET p == check.target[1]  path == check.target[2]
                IN \/ ~disk[path].there
                   \/ \A d \in Selected(p, check.known[NamespaceOf[p]]) :
                         \/ d \in disk[path].mounts
                         \/ <<path, d>> \in check.broken \cup check.skipped]_vars

\* What one check misses, the next one gets: a pod that starts while a check is under
\* way, a dataset that comes or a mount that dies behind it.  In the end every pod
\* that runs with its own path, and is not being deleted, has the datasets that select
\* it, as long as its credentials file is not spoilt and the settings can be read.
RecurringChecksHeal ==
    <>[](\A p \in Pods :
            /\ pods[p].phase = "Running" /\ ~pods[p].deleted
            /\ pods[p].watched /\ pods[p].path = p
            /\ disk[p].there /\ Readable(settings.type, settings.secret)
            /\ disk[p].longest <= Len(CredentialText(settings.type, settings.secret))
            => Selected(p, InNamespace(NamespaceOf[p])) \subseteq disk[p].mounts)

================================================================================
