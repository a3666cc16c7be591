------------------------------ MODULE DatasetMount -----------------------------
(***************************************************************************)
(* The target path of one pod's dataset volume on one node, shared by two  *)
(* containers: the CSI driver, which the kubelet calls to publish and      *)
(* unpublish the volume, and the reconcile container, which repairs it     *)
(* when a health check arrives.  Every dataset is an s3fs process mounted  *)
(* on a folder of the target path; it dies with the container it was       *)
(* started in and leaves a mount behind that answers no system call.       *)
(***************************************************************************)
EXTENDS Naturals, Sequences, FiniteSets

CONSTANTS
    Datasets,      \* the datasets that may be in the pod's namespace
    EmptyBuckets,  \* those whose bucket holds no object
    Passwd,        \* the name of the credentials file in the target path
    MaxCrashes,    \* bound on container crashes
    MaxFaults,     \* bound on failed system calls, API calls and mounts
    MaxEdits,      \* bound on changes of the datasets
    MaxRestarts    \* bound on kubelet restarts

ASSUME DatasetMountAssumption ==
    /\ IsFiniteSet(Datasets)
    /\ EmptyBuckets \subseteq Datasets
    /\ Passwd \notin Datasets
    /\ {MaxCrashes, MaxFaults, MaxEdits, MaxRestarts} \subseteq Nat

VARIABLES
    fs,       \* the target path and what is in it
    worker,   \* the call in progress in each of the two containers
    pod,      \* the pod, as the API server stores it
    kubelet,  \* what the kubelet is doing with the volume
    catalog,  \* each dataset of the namespace, as its selectors treat the pod
    spent     \* how much of each bound is used up

vars == <<fs, worker, pod, kubelet, catalog, spent>>

--------------------------------------------------------------------------------
(* Data *)

Containers == {"driver", "reconciler"}
Verdicts == {"absent", "match", "other", "invalid"}

\* A mount is a live or dead s3fs process of a container; mounts stack up.
Mounts == [owner : Containers, live : BOOLEAN]
Files == [root : BOOLEAN, passwd : BOOLEAN, folders : SUBSET Datasets,
          mounts : [Datasets -> Seq(Mounts)]]

Idle == [pc |-> "idle", list |-> [d \in Datasets |-> "absent"], todo |-> {},
         current |-> Passwd, count |-> 0, failed |-> FALSE]

Reasons == {"None", "Complete", "NoAction", "Warning", "Error"}

Mounted(d) == fs.mounts[d] # <<>>
Serving(d) == Mounted(d) /\ Head(fs.mounts[d]).live
Broken(d) == Mounted(d) /\ ~Head(fs.mounts[d]).live

\* What a directory listing of the folder shows.
ShowsNothing(d) == ~Mounted(d) \/ d \in EmptyBuckets

Spend(kind, max) ==
    /\ spent[kind] < max
    /\ spent' = [spent EXCEPT ![kind] = @ + 1]

Fault == Spend("faults", MaxFaults)

Init ==
    /\ fs = [root |-> FALSE, passwd |-> FALSE, folders |-> {},
             mounts |-> [d \in Datasets |-> <<>>]]
    /\ worker = [w \in Containers |-> Idle]
    /\ pod = [running |-> FALSE, deleted |-> FALSE, tagged |-> FALSE, reason |-> "None"]
    /\ kubelet = "publish"
    /\ catalog \in [Datasets -> {"match", "other", "absent"}]
    /\ spent = [kind \in {"crashes", "faults", "edits", "restarts"} |-> 0]

--------------------------------------------------------------------------------
(* mountDatasetS3 *)

Becomes(w, record) == worker' = [worker EXCEPT ![w] = record]

\* The outcome of one dataset: counted, or remembered as an error.
Counts(w) == Becomes(w, [worker[w] EXCEPT
    !.pc = "next", !.current = Passwd, !.count = @ + 1])
Fails(w) == Becomes(w, [worker[w] EXCEPT
    !.pc = "next", !.current = Passwd, !.failed = TRUE])
Skips(w) == Becomes(w, [worker[w] EXCEPT !.pc = "next", !.current = Passwd])

\* s3fs wants its credentials and an empty directory.
Acceptable(d) == fs.passwd /\ ~Broken(d) /\ ShowsNothing(d)

\* The folder is made if it is not there, and s3fs started on it.
Launch(w, d) ==
    /\ fs' = [fs EXCEPT !.root = TRUE, !.folders = @ \cup {d}]
    /\ \/ /\ Acceptable(d)
          /\ Becomes(w, [worker[w] EXCEPT
                 !.pc = "launched", !.current = d, !.todo = @ \ {d}])
          /\ UNCHANGED spent
       \/ /\ \/ ~Acceptable(d) /\ UNCHANGED spent
             \/ Fault
          /\ Becomes(w, [worker[w] EXCEPT
                 !.pc = "next", !.current = Passwd, !.todo = @ \ {d}, !.failed = TRUE])
    /\ UNCHANGED <<pod, kubelet, catalog>>

\* s3fs attaches to the folder, unless that was removed or broken meanwhile.
Attach(w) ==
    LET d == worker[w].current
    IN /\ worker[w].pc = "launched"
       /\ \/ /\ d \in fs.folders /\ ~Broken(d)
             /\ fs' = [fs EXCEPT !.mounts[d] = <<[owner |-> w, live |-> TRUE]>> \o @]
             /\ Becomes(w, [worker[w] EXCEPT !.pc = "await"])
          \/ /\ ~(d \in fs.folders /\ ~Broken(d))
             /\ Fails(w)
             /\ UNCHANGED fs
       /\ UNCHANGED <<pod, kubelet, catalog, spent>>

\* WaitForMount, which cannot tell whose mount it finds.
WaitForMount(w) ==
    /\ worker[w].pc = "await"
    /\ \/ Serving(worker[w].current) /\ Counts(w)
       \/ ~Serving(worker[w].current) /\ Fails(w)
    /\ UNCHANGED <<fs, pod, kubelet, catalog, spent>>

--------------------------------------------------------------------------------
(* CleanMountPoint: unmount once, then remove the folder if that left none *)

\* UnMountDatasets goes on whatever happened; isMountRequired gives up.
Cleaned(w) ==
    IF w = "driver" THEN Skips(w) ELSE Becomes(w, [worker[w] EXCEPT !.pc = "launch"])

CleanUnmount(w) ==
    LET d == worker[w].current
    IN /\ worker[w].pc = "clean"
       /\ \/ /\ d \notin fs.folders
             /\ Cleaned(w) /\ UNCHANGED <<fs, spent>>
          \/ /\ d \in fs.folders /\ Mounted(d)
             /\ fs' = [fs EXCEPT !.mounts[d] = Tail(@)]
             /\ IF Len(fs.mounts[d]) = 1
                THEN Becomes(w, [worker[w] EXCEPT !.pc = "remove"])
                ELSE Skips(w)
             /\ UNCHANGED spent
          \/ /\ d \in fs.folders /\ ~Mounted(d)
             /\ Becomes(w, [worker[w] EXCEPT !.pc = "remove"])
             /\ UNCHANGED <<fs, spent>>
          \/ /\ d \in fs.folders /\ Mounted(d)   \* the mount is busy
             /\ Fault /\ Skips(w) /\ UNCHANGED fs
    /\ UNCHANGED <<pod, kubelet, catalog>>

CleanRemove(w) ==
    LET d == worker[w].current
    IN /\ worker[w].pc = "remove"
       /\ \/ /\ d \in fs.folders /\ ~Mounted(d)
             /\ fs' = [fs EXCEPT !.folders = @ \ {d}]
             /\ Cleaned(w)
          \/ /\ d \notin fs.folders \/ Mounted(d)
             /\ Skips(w) /\ UNCHANGED fs
       /\ UNCHANGED <<pod, kubelet, catalog, spent>>

--------------------------------------------------------------------------------
(* NodePublishVolume *)

Listed(list) == {d \in Datasets : list[d] # "absent"}
Matching(list) == {d \in Datasets : list[d] = "match"}
Invalid(list) == {d \in Datasets : list[d] = "invalid"}

\* Answers the kubelet, always with success: the pod starts.
Published ==
    /\ kubelet' = "idle"
    /\ Becomes("driver", Idle)

\* CheckMount, GetVolumeMountDetails and setUpCredentials.
BeginPublish ==
    /\ kubelet = "publish"
    /\ worker["driver"].pc = "idle"
    /\ \/ /\ fs' = [fs EXCEPT !.root = TRUE, !.passwd = @ \/ Listed(catalog) # {}]
          /\ Becomes("driver", [Idle EXCEPT
                 !.pc = "next", !.list = catalog, !.todo = Matching(catalog),
                 !.failed = Invalid(catalog) # {}])
          /\ UNCHANGED <<pod, kubelet, spent>>
       \* no datasets, no configuration, no credentials
       \/ /\ Fault
          /\ fs' = [fs EXCEPT !.root = TRUE]
          /\ Becomes("driver", [Idle EXCEPT !.pc = "next", !.failed = TRUE])
          /\ UNCHANGED <<pod, kubelet>>
       \* no target path, no client, no pod: nothing is recorded anywhere
       \/ /\ Fault
          /\ Published
          /\ pod' = [pod EXCEPT !.running = TRUE]
          /\ UNCHANGED fs
    /\ UNCHANGED catalog

PublishDataset(d) ==
    /\ kubelet = "publish"
    /\ worker["driver"].pc = "next"
    /\ d \in worker["driver"].todo
    /\ Launch("driver", d)

\* UpdatePodOnNodePublishVolume: the label and annotation that make the pod
\* eligible for repair, then the condition.
\* Mutants: an error after a mounted dataset is forgotten; the reason is one
\* of a health check's answers.
PublishReasonByCount(count, failed) ==
    CASE count > 0 -> "Complete"
      [] failed /\ count = 0 -> "Error"
      [] OTHER -> "NoAction"
PublishReasonOfCheck(count, failed) ==
    CASE failed /\ count > 0 -> "Warning"
      [] failed /\ count = 0 -> "Error"
      [] ~failed /\ count > 0 -> "Repaired"
      [] OTHER -> "NoAction"

PublishReason(count, failed) ==
    CASE failed /\ count > 0 -> "Warning"
      [] failed /\ count = 0 -> "Error"
      [] ~failed /\ count > 0 -> "Complete"
      [] OTHER -> "NoAction"

EndPublish ==
    /\ kubelet = "publish"
    /\ worker["driver"].pc = "next"
    /\ worker["driver"].todo = {}
    /\ LET reason == PublishReason(worker["driver"].count, worker["driver"].failed)
       IN \/ /\ pod' = [pod EXCEPT !.running = TRUE, !.tagged = TRUE, !.reason = reason]
             /\ UNCHANGED spent
          \/ /\ Fault   \* the patch fails
             /\ pod' = [pod EXCEPT !.running = TRUE, !.reason = reason]
          \/ /\ Fault   \* the status update fails
             /\ pod' = [pod EXCEPT !.running = TRUE, !.tagged = TRUE]
    /\ Published
    /\ UNCHANGED <<fs, catalog>>

--------------------------------------------------------------------------------
(* NodeUnpublishVolume *)

\* Mutant: the credentials file is not among the names.
BeginUnpublishFolders ==
    /\ kubelet = "unpublish"
    /\ worker["driver"].pc = "idle"
    /\ \/ /\ ~fs.root
          /\ kubelet' = "torn"
          /\ UNCHANGED <<worker, spent>>
       \/ /\ fs.root
          /\ Becomes("driver", [Idle EXCEPT !.pc = "next", !.todo = fs.folders])
          /\ UNCHANGED <<kubelet, spent>>
    /\ UNCHANGED <<fs, pod, catalog>>

BeginUnpublish ==
    /\ kubelet = "unpublish"
    /\ worker["driver"].pc = "idle"
    /\ \/ /\ ~fs.root
          /\ kubelet' = "torn"
          /\ UNCHANGED <<worker, spent>>
       \/ /\ fs.root
          /\ Becomes("driver", [Idle EXCEPT !.pc = "next",
                 !.todo = fs.folders \cup (IF fs.passwd THEN {Passwd} ELSE {})])
          /\ UNCHANGED <<kubelet, spent>>
       \/ /\ fs.root   \* the listing fails
          /\ Fault
          /\ Becomes("driver", [Idle EXCEPT !.pc = "next"])
          /\ UNCHANGED kubelet
    /\ UNCHANGED <<fs, pod, catalog>>

UnpublishName(name) ==
    /\ kubelet = "unpublish"
    /\ worker["driver"].pc = "next"
    /\ name \in worker["driver"].todo
    /\ IF name = Passwd
       THEN /\ fs' = [fs EXCEPT !.passwd = FALSE]
            /\ Becomes("driver", [worker["driver"] EXCEPT !.todo = @ \ {name}])
       ELSE /\ Becomes("driver", [worker["driver"] EXCEPT
                   !.pc = "clean", !.current = name, !.todo = @ \ {name}])
            /\ UNCHANGED fs
    /\ UNCHANGED <<pod, kubelet, catalog, spent>>

\* Mutant: one round of unmounting is taken to be enough.
EndUnpublishAnyway ==
    /\ kubelet = "unpublish"
    /\ worker["driver"].pc = "next"
    /\ worker["driver"].todo = {}
    /\ kubelet' = "torn"
    /\ Becomes("driver", Idle)
    /\ UNCHANGED <<fs, pod, catalog, spent>>

\* The target path goes only if nothing is left in it.  The answer is a
\* success either way; the kubelet calls again while the path is there.
EndUnpublish ==
    /\ kubelet = "unpublish"
    /\ worker["driver"].pc = "next"
    /\ worker["driver"].todo = {}
    /\ \/ /\ fs.folders = {} /\ ~fs.passwd
          /\ fs' = [fs EXCEPT !.root = FALSE]
          /\ kubelet' = "torn"
       \/ /\ fs.folders # {} \/ fs.passwd
          /\ UNCHANGED <<fs, kubelet>>
    /\ Becomes("driver", Idle)
    /\ UNCHANGED <<pod, catalog, spent>>

--------------------------------------------------------------------------------
(* processHealthCheckAll and processHealthCheckForDataset, for this pod *)

\* The pod is listed with its label and phase, the datasets after it: all of
\* the namespace, or the one the check is for.
Scopes == {Datasets} \cup {{d} : d \in Datasets}

BeginCheck(scope) ==
    /\ worker["reconciler"].pc = "idle"
    /\ pod.running /\ pod.tagged
    /\ \E d \in scope : catalog[d] # "absent"
    /\ Becomes("reconciler", [Idle EXCEPT
           !.pc = "listed",
           !.list = [d \in Datasets |-> IF d \in scope THEN catalog[d] ELSE "absent"]])
    /\ UNCHANGED <<fs, pod, kubelet, catalog, spent>>

\* Mutant: only datasets without a folder are looked at.
BeginReconcileMissing ==
    LET list == worker["reconciler"].list
    IN /\ worker["reconciler"].pc = "listed"
       /\ fs' = [fs EXCEPT !.passwd = @ \/ fs.root]
       /\ Becomes("reconciler", [worker["reconciler"] EXCEPT
              !.pc = "next",
              !.todo = IF fs.root THEN Matching(list) \ fs.folders ELSE {},
              !.failed = fs.root /\ Invalid(list) \ fs.folders # {}])
       /\ UNCHANGED <<pod, kubelet, catalog, spent>>

\* ReconcileDatasets, up to its loop: mounted folders are fixed whatever the
\* selectors say now.
BeginReconcile ==
    LET list == worker["reconciler"].list
    IN /\ worker["reconciler"].pc = "listed"
       /\ \/ /\ ~fs.root
             /\ Becomes("reconciler", [Idle EXCEPT !.pc = "next"])
             /\ UNCHANGED <<fs, spent>>
          \/ /\ fs.root
             /\ fs' = [fs EXCEPT !.passwd = TRUE]
             /\ Becomes("reconciler", [worker["reconciler"] EXCEPT
                    !.pc = "next",
                    !.todo = Matching(list) \cup (Listed(list) \cap fs.folders),
                    !.failed = Invalid(list) \ fs.folders # {}])
             /\ UNCHANGED spent
          \/ /\ fs.root   \* the credentials cannot be written
             /\ Fault
             /\ Becomes("reconciler", [Idle EXCEPT !.pc = "next", !.failed = TRUE])
             /\ UNCHANGED fs
       /\ UNCHANGED <<pod, kubelet, catalog>>

\* Mutant: every folder that is there is cleaned.
InspectAlways(d) ==
    LET examined == [worker["reconciler"] EXCEPT !.current = d, !.todo = @ \ {d}]
    IN /\ worker["reconciler"].pc = "next"
       /\ d \in worker["reconciler"].todo
       /\ Becomes("reconciler", [examined EXCEPT
              !.pc = IF d \in fs.folders THEN "clean" ELSE "launch"])
       /\ UNCHANGED <<fs, pod, kubelet, catalog, spent>>

\* isMountRequired
Inspect(d) ==
    LET examined == [worker["reconciler"] EXCEPT !.current = d, !.todo = @ \ {d}]
    IN /\ worker["reconciler"].pc = "next"
       /\ d \in worker["reconciler"].todo
       /\ \/ /\ d \notin fs.folders
             /\ Becomes("reconciler", [examined EXCEPT !.pc = "launch"])
             /\ UNCHANGED spent
          \/ /\ d \in fs.folders
             /\ Broken(d) \/ ShowsNothing(d)
             /\ Becomes("reconciler", [examined EXCEPT !.pc = "clean"])
             /\ UNCHANGED spent
          \/ /\ d \in fs.folders   \* the listing fails
             /\ Fault
             /\ Becomes("reconciler", [examined EXCEPT !.pc = "clean"])
          \/ /\ d \in fs.folders
             /\ Serving(d) /\ ~ShowsNothing(d)
             /\ Becomes("reconciler", [examined EXCEPT !.current = Passwd])
             /\ UNCHANGED spent
       /\ UNCHANGED <<fs, pod, kubelet, catalog>>

Remount ==
    /\ worker["reconciler"].pc = "launch"
    /\ Launch("reconciler", worker["reconciler"].current)

\* UpdatePodStatusOnReconcile
ReconcileReason(count, failed) ==
    CASE failed /\ count > 0 -> "Warning"
      [] failed /\ count = 0 -> "Error"
      [] OTHER -> "Complete"

EndReconcile ==
    /\ worker["reconciler"].pc = "next"
    /\ worker["reconciler"].todo = {}
    /\ \/ /\ pod' = [pod EXCEPT !.reason =
                 ReconcileReason(worker["reconciler"].count, worker["reconciler"].failed)]
          /\ UNCHANGED spent
       \/ Fault /\ UNCHANGED pod
    /\ Becomes("reconciler", Idle)
    /\ UNCHANGED <<fs, kubelet, catalog>>

--------------------------------------------------------------------------------
(* The surroundings *)

\* A container stops: its call is lost and its s3fs processes die.
Crash(w) ==
    /\ Spend("crashes", MaxCrashes)
    /\ Becomes(w, Idle)
    /\ fs' = [fs EXCEPT !.mounts = [d \in Datasets |->
                 [i \in DOMAIN fs.mounts[d] |->
                     IF fs.mounts[d][i].owner = w
                     THEN [owner |-> w, live |-> FALSE] ELSE fs.mounts[d][i]]]]
    /\ UNCHANGED <<pod, kubelet, catalog>>

\* A dataset is created, deleted, or gets other selectors.
Edit(d) ==
    /\ Spend("edits", MaxEdits)
    /\ \E verdict \in Verdicts \ {catalog[d]} : catalog' = [catalog EXCEPT ![d] = verdict]
    /\ UNCHANGED <<fs, worker, pod, kubelet>>

\* After a restart the kubelet publishes the volumes of running pods again.
KubeletRestart ==
    /\ kubelet = "idle"
    /\ pod.running /\ ~pod.deleted
    /\ Spend("restarts", MaxRestarts)
    /\ kubelet' = "publish"
    /\ UNCHANGED <<fs, worker, pod, catalog>>

DeletePod ==
    /\ ~pod.deleted
    /\ pod' = [pod EXCEPT !.deleted = TRUE]
    /\ UNCHANGED <<fs, worker, kubelet, catalog, spent>>

\* The containers of a deleted pod are stopped and its volumes taken down,
\* one call at a time.  Its phase in the API server is still Running.
TearDown ==
    /\ pod.deleted
    /\ kubelet \in {"idle", "publish"}
    /\ worker["driver"].pc = "idle"
    /\ kubelet' = "unpublish"
    /\ UNCHANGED <<fs, worker, pod, catalog, spent>>

\* The API server forgets the pod.
Forget ==
    /\ kubelet = "torn"
    /\ pod.running
    /\ pod' = [pod EXCEPT !.running = FALSE]
    /\ UNCHANGED <<fs, worker, kubelet, catalog, spent>>

--------------------------------------------------------------------------------
Mounting(w) == Attach(w) \/ WaitForMount(w) \/ CleanUnmount(w) \/ CleanRemove(w)

DriverStep ==
    \/ BeginPublish
    \/ \E d \in Datasets : PublishDataset(d)
    \/ EndPublish
    \/ BeginUnpublish
    \/ \E name \in Datasets \cup {Passwd} : UnpublishName(name)
    \/ EndUnpublish
    \/ Mounting("driver")

ReconcilerStep ==
    \/ BeginReconcile
    \/ \E d \in Datasets : Inspect(d)
    \/ Remount
    \/ EndReconcile
    \/ Mounting("reconciler")

\* The pod and its volume are gone and nobody works on them.
Terminated ==
    /\ kubelet = "torn" /\ ~pod.running
    /\ UNCHANGED vars

Next ==
    \/ DriverStep
    \/ \E scope \in Scopes : BeginCheck(scope)
    \/ ReconcilerStep
    \/ \E w \in Containers : Crash(w)
    \/ \E d \in Datasets : Edit(d)
    \/ KubeletRestart
    \/ DeletePod
    \/ TearDown
    \/ Forget
    \/ Terminated

Spec == Init /\ [][Next]_vars

\* Both containers go on with the call they are in, the kubelet with the pod.
Fairness ==
    /\ WF_vars(DriverStep)
    /\ WF_vars(ReconcilerStep)
    /\ WF_vars(TearDown)
    /\ WF_vars(Forget)

FairSpec == Spec /\ Fairness

--------------------------------------------------------------------------------
(* Properties *)

Workers == [pc : {"idle", "listed", "next", "clean", "remove", "launch", "launched", "await"},
            list : [Datasets -> Verdicts], todo : SUBSET (Datasets \cup {Passwd}),
            current : Datasets \cup {Passwd}, count : Nat, failed : BOOLEAN]
Pods == [running : BOOLEAN, deleted : BOOLEAN, tagged : BOOLEAN, reason : Reasons]

\* Every variable keeps the shape the code gives it.
TypeOK ==
    /\ fs \in Files
    /\ worker \in [Containers -> Workers]
    /\ pod \in Pods
    /\ kubelet \in {"idle", "publish", "unpublish", "torn"}
    /\ catalog \in [Datasets -> Verdicts]
    /\ spent \in [{"crashes", "faults", "edits", "restarts"} -> Nat]

\* No s3fs mount is left when the kubelet is done with the volume, whatever
\* the reconcile container was doing meanwhile.
NoMountOutlivesPod == kubelet = "torn" => \A d \in Datasets : ~Mounted(d)

\* After teardown a mount can only come from a repair that has written the
\* credentials again: removing them with the folders stops all others.
MountsNeedCredentials ==
    kubelet = "torn" /\ ~fs.passwd
        => \A d \in Datasets : ~Mounted(d)

\* A mount that serves objects is only taken down by unpublish or a crash, as
\* long as listings succeed and the kubelet does not publish a second time.
ServingMountsAreKept ==
    [][\A d \in Datasets \ EmptyBuckets :
          Serving(d) /\ ~Serving(d)'
             => kubelet = "unpublish" \/ spent'["crashes"] > spent["crashes"]]_vars

\* The same when the kubelet does publish again, beside a repair: no working
\* mount is taken down.
HealthyMountsAreKept ==
    [][\A d \in Datasets :
          Serving(d) /\ ~Serving(d)'
             => kubelet = "unpublish" \/ spent'["crashes"] > spent["crashes"]]_vars

\* A pod that starts with the condition "Complete" has every dataset that
\* matched it.
CompletePodHasDatasets ==
    [][~pod.running /\ pod'.running /\ pod'.reason = "Complete"
          => \A d \in Matching(worker["driver"].list) : Serving(d)]_vars

\* Once health checks stop, the volume of a deleted pod is taken down.
TeardownCompletes ==
    <>[][\A scope \in Scopes : ~BeginCheck(scope)]_vars
        => (pod.deleted ~> kubelet = "torn")

\* If checks of all datasets keep coming, a pod that is eligible for repair
\* ends up with every dataset that matches it, after any crash.
RepairHeals ==
    SF_vars(BeginCheck(Datasets))
        => <>[](\/ pod.deleted \/ ~pod.tagged
                \/ \A d \in Matching(catalog) \ EmptyBuckets : Serving(d))
================================================================================
