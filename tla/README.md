# A TLA+ model of the marketplace CSI driver

This directory specifies and checks the parts of `redhat-marketplace/marketplace-csi-driver`
in which several processes change the same state: the health check protocol between the
operator and the nodes, the mounting of datasets into pods by two containers of a node, the pods of
a node from their admission to their end, and the reconcilers of the driver and of the datasets.
TLC checks small instances; TLAPS proves the theorems of the `*Proofs` modules for every value
of the constants.

## 1. The system

| Component | Source | State it keeps | Operations |
|---|---|---|---|
| Driver operator | `operator/controllers/marketplacecsidriver_controller.go` | conditions and `status.driverPods` of the `MarketplaceCSIDriver`; `lastHealthCheckTime` in the process | `Reconcile`: apply assets, wait for the daemon sets, validate the credential, compare driver pods, create health checks |
| Asset application | `operator/pkg/resourceapply` | `driverUpdateNeeded` and the place holders, in the process | create or update each asset; mark the driver for a restart |
| Dataset operator | `operator/controllers/marketplacedataset_controller.go` | labels (bucket, hash of the selectors) and condition of a `MarketplaceDataset`, its claim | `Reconcile`: label, health check on a change, claim, condition |
| Health check operator | `operator/controllers/marketplacedriverhealthcheck_controller.go` | condition of a `MarketplaceDriverHealthCheck` | `Reconcile`: judge the answers, delete old checks |
| Pod webhook | `operator/pkg/csiwebhook/pod-csi.go` | none | decide whether a pod gets the dataset volume |
| Status conditions, selector validation | `operator/pkg/status`, `operator/pkg/selector` | none | `SetCondition`, `RemoveCondition`, `ValidateTerms` |
| Node driver | `driver/pkg/driver/node.go`, `mount.go`, `driver/pkg/helper/filesystem.go` | the target path of each volume: folders, s3fs mounts, the credentials file | `NodePublishVolume`, `NodeUnpublishVolume` |
| Reconcile container | `driver/pkg/driver/reconcile.go`, `mount.go` | its start time; the same target paths | handle each health check, repair the pods of the node, answer |
| Kubernetes client of the driver | `driver/pkg/client/client.go` | tag, annotation and condition of a pod; a node's entry in the status of a check | `UpdatePodOnNodePublishVolume`, `UpdatePodStatusOnReconcile`, `UpdateHealthCheckStatus` |
| Pod selectors | `driver/pkg/selector/podselector.go` | none | which datasets a pod gets |

How they interact. Two custom resources carry all communication. A `MarketplaceDataset` changes,
or a driver pod is replaced, or an interval has passed; an operator creates a
`MarketplaceDriverHealthCheck`. Every node's reconcile container gets it from an informer, repairs
the pods of its node that carry the tracking label, and enters its answer in the status. The
health check operator turns the answers into a condition and deletes the check later. Between the
containers of one node there is no message at all: the node driver, called by the kubelet, and the
reconcile container, woken by a check, work on the same directories without a lock.

What is hard:

* **Concurrent replacement.** Nodes and operator replace the *whole* status of one resource; only
  the resource version stands between them and lost answers, and the retries are limited to five.
* **Two containers, one directory.** Publish, unpublish and repair interleave at every system call.
* **Death of a container** takes its s3fs processes with it and leaves broken mounts behind.
* **Swallowed errors.** Most failures are logged and the call reports success; what happens next
  depends on somebody calling again: a watch event, a timer, the kubelet, the next check.
* **State kept in the process**: a flag and a time, lost or reset in between.

What makes each component correct. Health checks: no answer is lost, the verdict follows the
answers, a check ends and is removed, a node that was not there does not answer. Mounts: a working
mount is left alone, a broken one is brought back, nothing stays when the pod is gone, the condition
tells the truth. Driver operator: every new driver pod leads to a check, a change of configuration
leads to a restart. Dataset operator: a change of selectors leads to a check. Webhook and selectors:
a pure decision that agrees with its definition.

`PROJECT.json` lists every component with what is modelled of it, and every hazard at its line.

## 2. Modules

| Module | What it is |
|---|---|
| `CheckBoard` | the abstract promise of one health check: a board of answers, posted and judged atomically |
| `HealthCheck` | the protocol as the code runs it; `ImplementsBoard` is the refinement |
| `MCHealthCheck` | its instance for TLC, with the symmetry of the nodes |
| `HealthCheckProofs` | theorems about `HealthCheck` |
| `DatasetMount` | the target path of one pod's volume under the two containers |
| `DatasetMountProofs` | theorems about `DatasetMount` |
| `DriverOperator` | the reconciler of the `MarketplaceCSIDriver`, the driver's workloads and pods |
| `MCDriverOperator` | its instance for TLC: a daemon set and the stateful set |
| `DriverOperatorProofs` | theorems about `DriverOperator` |
| `StatusConditions` | the list of conditions in a status, as operators on sequences |
| `PodSelector` | the selectors of datasets: what the operator accepts, which pods the driver picks |
| `DatasetOperator` | the reconciler of the datasets of a namespace and their claim |
| `MCDatasetOperator` | its instance for TLC |
| `DatasetOperatorProofs` | theorems about `DatasetOperator` |
| `PodWebhook` | the admission of a pod |
| `DriverSettings` | the credential: what the operator accepts, what the driver reads, the file |
| `NodePods` | the pods of one node, admitted, published, tagged, checked and gone |
| `MCNodePods` | its instance for TLC |
| `NodePodsProofs` | theorems about `NodePods`: types, namespaces, answers and conditions |
| `NodeRulesProofs` | theorems about the rules of datasets and the admission of pods |
| `NodeChecksProofs` | the theorem that an undisturbed check counts every pod it can |
| `Induction` | induction over the natural numbers, for the loops of the code |

The modules compose in two ways. `DatasetOperator` and `NodePods` extend the pure modules: both use
`PodSelector`, the one to validate selectors and the other to evaluate them; `StatusConditions` serves
the first, `PodWebhook` and `DriverSettings` the second. And three modules look at one health check from
different heights: `HealthCheck` has every node and lets a repair give any answer the code can give;
`NodePods` has one node with all its pods and says what that answer and the conditions of the pods
mean; `DatasetMount` has one volume and takes each of its steps apart into system calls.

### HealthCheck and the code

`check` is the resource in the API server (phase, request, creation time, resource version, status),
`driver[n]` the reconcile container of node `n` with the local variables of `UpdateHealthCheckStatus`,
`operator` the controller with its cache, work queue, delay and the copy it works on.

* `Create` is `createHealthCheckCR` of both operators, over the requests they can make: the nodes
  of changed driver pods, the empty name that addresses every node, or no node at all for a dataset.
* `Start`, `ProcessHealthCheck`, `Repair` and `DatasetMissing` are the informer and its handler;
  `GetStatus`, `PutStatus` and `PutStatusFails` are one attempt of the retry loop, so that any other
  write can fall between its read and its write.
* `WatchEvent`, `Resync`, `TimerFires` feed the queue. `Reconcile` reads the cache; `UpdateCondition`
  or `DeleteExpired` then make the call that changes the resource, later. `UpdateConditionFails`
  keeps the detail that the error returned is the nil one of the earlier read.
* `Typed` is the passage through the operator's Go type: the key `status`, which the node writes, is
  not a field of it (`message` is), so the operator's write drops it.
* `Stop` and `OperatorRestart` lose what the process has in memory.

Abstracted: names and time stamps (a check is one resource, time is a few ticks), the texts of
conditions, and what a repair does: here it is any answer the code can give.

### DatasetMount and the code

`fs` is the target path: whether it exists, the credentials file, the folders, and for each dataset
the *stack* of mounts on its folder, each with the container that owns the s3fs process and whether
that is alive. `worker[w]` is the call in progress in the driver or the reconcile container with its
local variables (the datasets it has read, those still to do, count and error). `pod` is the pod in
the API server, `kubelet` what the kubelet wants of the volume, `catalog` how each dataset's
selectors treat this pod (match, other, invalid, or no such dataset).

* `BeginPublish`, `PublishDataset`, `EndPublish`: `NodePublishVolume`. The early returns, all of them
  successful answers, are disjuncts that spend a fault. `EndPublish` tags the pod, then writes its
  condition; either can fail and is only logged.
* `Launch`, `Attach`, `WaitForMount`: `mountDatasetS3`, with the folder made first, s3fs detached from
  its caller, and a wait that cannot tell whose mount it sees.
* `CleanUnmount`, `CleanRemove`: `CleanMountPoint`, one unmount and one removal. `UnMountDatasets` goes
  on after a failure; `isMountRequired` gives the dataset up.
* `BeginUnpublish`, `UnpublishName`, `EndUnpublish`: `NodeUnpublishVolume`, called again while the path
  is there, since it never reports a failure.
* `BeginCheck`, `BeginReconcile`, `Inspect`, `Remount`, `EndReconcile`: the repair of one pod. `Inspect`
  and the cleaning it decides on are separate steps, as they are in the code.

Abstracted: the contents of files and buckets (a bucket is empty or not), the arguments of s3fs, and
the evaluation of selectors (its verdict is in `catalog`). `Acceptable` says when s3fs starts: there
are credentials, and the mount point is an empty directory that answers. A bucket without objects
is an empty directory too, so a second s3fs stacks on it.

### DriverOperator and the code

`driver` is the stored resource: its environment variables and its status (the recorded pods, the
install condition, the driver condition). `cluster` holds the secret, the configuration map and, for
each workload, the release of its template (0 before it is created). `pods[p]` is a driver pod, or
rather its place: a pod that replaces another has a higher `version`, and so has a pod that becomes
ready, because `checkDriverPods` compares creation time *and* resource version. `operator` is the process:
the cached resource, the copy `Reconcile` works on, which of the two are behind the stored resource
(`old`, the model's form of the resource version), the flag `driverUpdateNeeded` (`restart`) and what
`Reconcile` has gathered so far. `announced[p]` is history: the version of `p` when a health check was last
created for its node.

* `BeginReconcile` is `Reconcile` up to the configuration map. Nothing that another process does in
  between depends on the assets before it, so they and the map are one step that can fail.
* `ApplyWorkload` is `applyDaemonSet` or `applyStatefulSet`, one workload at a time in the order of the
  code; a failure leads to `SetStatusInstallError`, an unavailable workload to `SetInstalling`.
* `CheckDriverPods` is `isCredentialValid`, `checkDriverPods` and `setDriverStatus` on the copy;
  `SetDriverStatus` is the update that follows. Listing the pods and creating the check are one step: a
  pod that changes in between would be announced in its newer version but recorded in the older.
* `NoHealthCheckDue` and `RunPeriodicHealthCheck` are the two ends of `runPeriodicHealthCheck`. How long the
  interval is, and what a restart of the process does to it, is left to the choice between them.
* `StopPod`, `StartPod`, `PodReady`, `LosePod` are Kubernetes; a pod reads the configuration map when it starts
  (`envFrom` in the assets).

Abstracted: the assets besides the configuration map and the workloads, the texts of conditions, the
contents of the secret, the place holders. A failed call has no effect.

### DatasetOperator and the code

`stored[d]` is the `MarketplaceDataset` named `d`, with a `uid` that tells a dataset from an earlier one of
its name (0: there is none). `claim` is the claim of the namespace with its owners by name and uid.
`operator` is the process: `pc` and `copy` are the reconcile in progress, `cache` and `claim` what the informers
have, and `behind` names the views that are older than the API server, which is what the resource
version tells. `checked[d]` is history: the uid and the spec of `d` when a check was last created for it.

* `BeginReconcile` is `Reconcile` up to its first call: the read from the cache, the uninstall label, the
  labels that `updateLabel` computes. `DeleteDataset` is the uninstallation, which names the dataset and
  nothing else of it.
* `FirstUpdate` and `SecondUpdate` are the two updates of `updateLabel`; nobody looks at the result of the
  first, so the second works on what the first returned, or on the copy with its old version. An
  update whose answer is lost is a disjunct of its own. `Announce` is `createHealthCheckCR`.
* `ApplyClaim` is `applyPersistentVolumeclaim` by the cached claim: created, updated, left alone or failed.
  `OwnerSet` compares names and no uids, as `isOwnerSet` does.
* `SetStatus` is `setStatusInstallError` or `setStatusInstallComplete`, by way of `SetCondition` and `MarshalJSON`.
* `ClaimEvent` refreshes the cache and wakes nobody: the watch follows owners that are controllers, and
  a dataset is none. `CollectGarbage` is the collector of Kubernetes.
* Users create, edit, remove and uninstall, and may replace the resource without its labels; `Touch` is any other
  writer of the resource, which is also where the second type of condition comes from.

Abstracted: the hash is the list of selectors itself (it is one to one), times are two values of
which one is always new, messages go with reasons, and the claim is its owners and one annotation.

### NodePods and the code

`pods[p]` is a pod in the API server: phase, spec, the tracking label (`watched`), the annotation with the
target path (`path`, a pod stands for its own path) and the condition. `disk[p]` is the target path of `p`:
folders, mounts that work, and the credentials file with the longest key ever written to it (history).
`publish[p]` is `NodePublishVolume` for `p`, `check` the check that the reconcile container works on: the list of
pods it was made with, those still to do, the datasets known by namespace, and the count.
`NameOf` and `NamespaceOf` let a later pod have the name of an earlier one: the driver tags pods and
writes conditions by name, so it can reach another pod than it meant.

* `CreatePod` is admission, by `Handle` of `PodWebhook`: protected namespaces, no driver, no claim or a pod that
  already has the volume leave the pod alone; otherwise the volume and a mount in each container.
* `BeginPublish`, `MountDatasets`, `TagPod`, `EndPublish` are `NodePublishVolume` with `GetVolumeMountDetails`, `mountDatasets`,
  `TagPodForTracking` and the condition. A publication of which any dataset fails goes on and is tagged.
* `BeginCheck`, `CheckPod`, `EndPod`, `EndCheck` are `processHealthCheckAll` and `processHealthCheckForDataset`: the list, the
  repair of each pod of it in any order, its condition, and the answer. `Processed` and `DatasetsFor` keep two details
  of the loop: a folder that is there is repaired whatever the rules now say, and a check of
  everything reads the datasets of a namespace once. A folder that is to be repaired is cleaned up first; when that fails
  the dataset is skipped, which is no error (`isMountRequired`): the pod is counted and told "Complete" without it.
  `CheckPod` has this choice for any of the folders, and the history `skipped` names the datasets it has taken it for.
* `Unpublish` is `NodeUnpublishVolume` step by step: `UnpublishDataset` and `UnpublishCredentials` take the names in the
  path in any order, and `UnpublishPath` comes last. A check can end in between, with the path still there.
* `Forget`, `StartPod`, `DeletePod`, `ForceDelete` are kubelet, users and API server; `Break` is an s3fs process that dies;
  `ReconcilerRestart` ends a check that nobody takes up.

`DriverSettings` has both judgements of the secret, `checkCredentialFields` of the operator and `Readable` of the
driver, and `WriteFile`, which opens the file without truncating it. `PodSelector` has `ValidateTerms` of the
operator and `PodMatches` of the driver, with the library that both build requirements with.

Abstracted: what happens inside one repair or one publication (that is `DatasetMount`); keys are
short sequences, labels and rules members of small sets. The order of the pods in a list is left open.

## 3. Runs

| Run | Configuration | What it shows |
|---|---|---|
| `hc_race` | 2 nodes, 5 attempts, 2 ticks, no faults | answers survive, verdicts count them and are final, five attempts are enough for two nodes and an operator, every node gets its answer in, and the whole refines `CheckBoard` |
| `hc_lifetime` | 1 node, 2 attempts, 4 ticks, 1 failed call, 1 restart | a restarted container leaves old checks alone, the verdict agrees with the answers in the end, every check is removed |
| `hc_complete` | as above without faults | **violated**: a check can be complete before the node it is for has answered |
| `mount_safety` | 2 datasets, one in an empty bucket; 2 crashes, 1 edit | repairs leave serving mounts alone; mounts after teardown need new credentials |
| `mount_heals` | the same; 1 crash, 1 fault, 1 kubelet restart | a pod reported Complete has its datasets; repeated checks heal; teardown completes |
| `mount_outlives` | 2 datasets, no mishap at all | **violated**: a mount can outlive its pod |
| `mount_race` | 2 datasets, 1 edit, 1 kubelet restart | **violated**: a repair can unmount a healthy mount |
| `driver_recovers` | 2 workloads, a pod of the stateful set; 2 failed calls, lost pods, edits, restarts or upgrades | no restarted pod is forgotten silently, the record never goes back, the status is right in the end, upgrades reach every pod, the periodic check makes up for lost checks |
| `driver_restarts` | as above | **violated**: a change of the environment restarts the driver |
| `dataset_settles` | 2 datasets, one of them eventful: created twice, 1 edit or removal, 1 failed call, restart or other writer | no edit is lost, lists of conditions stay maps, labels, condition and claim are right in the end, the operator stops writing, an undisturbed change is checked |
| `node_pods` | a pod and the next of its name, or a pod beside one of another namespace that runs already; 3 datasets; 1 event, 1 failed call, restart or forced deletion | datasets stay in their namespace, answers and conditions stand for what they say, published pods are found, recurring checks heal; webhook, rules and credential agree with their definitions |
| `node_generate_name` | 1 pod made from a generateName, 1 dataset for it, no mishap | **violated**: a dataset of which a rule is satisfied is mounted |

Why the bounds are enough. Two nodes and the operator are three writers of one status: each pair of
writers, and a writer that is overtaken twice, occur. Five attempts are the code's own number;
`RetriesSuffice` says what it buys: enough for two nodes, and with three nodes TLC finds the answer that is given
up (section 4 has the bound for any number). Two datasets are the
least for a loop with one success and one failure, and for a folder that stays while another goes;
with one in an empty bucket both answers of the listing in `isMountRequired` occur. One crash of
either container at any step, one failing call at any step, one repeated publication reach every
error path; two crashes let both containers die, or one die twice. `MaxClock` covers one keep time
and what lies before and after it. In `HealthCheckRace.cfg` `PollTime` is 0 and `KeepTime` 0, so that
delays end at the earliest moment the code allows. In `mount_heals` no dataset is edited: the
property is about the state the datasets stay in. In `DriverOperator` one bound, `MaxTroubles`, limits
everything that does not happen by itself. The installation alone already has new pods, pods becoming
ready, unavailable workloads and outdated caches, so one mishap at any step of it reaches every error path;
two are needed for a change and a failure that hits its consequences (an edit or an upgrade, then a
failed call). The pod is one of the workload that is updated last, which a failure in between leaves behind. With a
pod in each workload (`Pods = {d1, s1}`) the same properties pass for one mishap, and two make too many
states; the two safety properties of the record are proved for any number of both.

In `DatasetOperator` the second dataset is what the claim needs: with it the claim survives the removal of the
first, and an owner of an old uid can stay. Two creations of one name, an edit and a mishap
between any two steps reach every disjunct. `MCSpecs` has no selectors, and selectors of which only some are valid.
In `NodePods` the casts are the two ways in which pods get in each other's way: a pod and the
next one of its name, and a pod beside another namespace's, which runs already and stays. The first have one dataset,
the last has two, so that one repair has a success and a failure or a skip; a publication of several datasets is what
`mount_heals` has, and `ConditionsAreEarned` is proved for any number.
More pods at once add nothing that a list of two does not have. One event is a dataset that
comes or goes, a mount that dies, or new settings; one mishap is also a clean-up that fails, and that reaches the skipped
dataset: without the exemption of `skipped` TLC refutes `RepairedIsTrue` and `CompleteIsEarned` in five steps. The rules are checked for all lists of up to two of eight terms, readable and not, on labels
with a name that is used and one that is not, and proved for all lists; the settings are one of each type, one long,
one short and one that cannot be read.

Deadlock is checked in the runs of the first three modules. `Terminated` marks the only states in which nothing remains to be
done: no check, or a volume that is gone with its pod. In `DriverOperator` the operator never stops. `dataset_settles` and the runs of `NodePods` do not check it: without a dataset, or with
no pod and no scope left, their systems really stop.

Fairness. The steps of each process are weakly fair as one action per process: the kubelet restarts
containers, informers, work queues and API calls with time-outs go on. In `DatasetMount` the two
containers and the kubelet are. In `DriverOperator` the reconciler is (each return leaves a delay or a
requeue), and so are the watch and the controllers of the workloads; `EveryPodIsAnnounced` has as its
premise that a periodic check is due again and again, so it says nothing for an interval of 0. Nothing is assumed of time in general, of edits, crashes or the
creation of checks: `CheckExpires` says that a check is gone if time goes on, `TeardownCompletes` that
the volume goes once checks stop coming, and `RepairHeals` has as its premise that checks of all
datasets are handled again and again (the periodic check of the operator).

In `DatasetOperator` the steps of a reconcile, the watch events and the collector are weakly fair. `BeginReconcile(d)` is strongly
fair: it can only begin while nothing else is reconciled, and the work queue is served in turn, with every
dataset put into it again by the resync of the cache. In `NodePods` a check that has begun goes on (`WF(Checking)`)
and checks of everything come again and again (`SF(BeginCheck(All))`, the periodic check, which competes with
checks of single datasets for the one worker); nothing is assumed of the kubelet.

Assumptions built into properties. `ServingMountsAreKept` holds in `mount_safety`, where no listing
fails and the volume is published once. A failed listing makes `isMountRequired` unmount a
folder by design, and a second publication beside a repair breaks the property: that is what
`mount_race` shows (`HealthyMountsAreKept`, the same formula for all datasets). `RepairHeals` exempts
datasets in empty buckets, which a repair always mounts anew, and pods that were never tagged.

`UndisturbedChangeIsChecked` has its premise in its name. The hash is stored before the check is created, so
a failed creation, a restart or a conflict between the two loses the check; so do two edits that cancel out, the second one
between the two updates, which is why the property allows one. `PublishedIsWatched` holds while no call fails and no pod is deleted by
force: the failure of the tagging call is only logged, and after a forced deletion the tag reaches the next pod of the name.
`CompleteIsEarned` says what "Complete" means and what not: a pod whose path is gone, and the namesake of
the pod that was repaired, are told "Complete" too. `RepairedIsTrue` is about a count that is full; a check can answer
"repaired" with the count 0. Both exempt, by the histories `skipped` and `broken`, a dataset that the check skipped because its folder
could not be cleaned up, and a mount that died or was taken down after it was repaired. The first is what the code is meant to do:
its test expects "Complete" with "Reconcile mounted 0 datasets" after a failed clean-up (`reconcile_test.go:657-681`). Neither the
count in the answer nor the reason in the condition tells such a pod from a repaired one; only a later check mends it.
`RecurringChecksHeal` speaks of pods that are not being deleted, and like `FullCheckCountsAll` it exempts volumes whose credentials file was once
longer than the key now is (`longest`): the rest of the old key stays in the file, and s3fs refuses it from then on.
`ReadableIsAccepted` is one way only: the operator accepts empty values and tokens that cannot be read, which the driver refuses.
`AcceptedRulesAreRead` has as its premise that `matchLabels` can be read, which the operator does not look at.

### What the violated runs say

* **A check is complete too early** (`hc_complete`). `updateHealthCheckCondition` compares the *number*
  of addressed nodes with the number of answers, and unaffected nodes answer too. One `NoAction` of
  a node that has nothing to do completes the check of the node that has.
* **A mount outlives its pod** (`mount_outlives`). `ReconcileDatasets` looks at the target path once;
  `mountDatasetS3` makes the folder with `MkdirAll` later. If the kubelet has unpublished the volume in
  between the path is back, and a second check (the API server still shows the pod as Running)
  mounts there. Nobody unpublishes again.
* **A repair unmounts a healthy mount** (`mount_race`). `isMountRequired` finds the folder empty; the
  kubelet, restarted, has the volume published again and the driver mounts the dataset; the repair
  now cleans the folder it found empty, and with it the new mount. It mounts anew afterwards, so
  the pod's open files are lost, not the dataset.

* **A change of the environment is lost** (`driver_restarts`). `ResetAssetPlaceHolder` clears
  `driverUpdateNeeded` at the start of each reconcile and only writing the configuration map sets it. If the
  update of a workload then fails once, the next reconcile finds the map up to date and restarts nothing.
  An upgrade does not have this weakness (`UpgradeReachesPods`): the version label stays different.

What the passing runs of `DriverOperator` leave room for: `LossesAreReported` speaks of the update that records
a pod. The reason it reports is overwritten by the next reconcile, which finds nothing changed, and no
check is made up for unless the periodic check is on (`EveryPodIsAnnounced`).

* **A rule on the generateName mounts nothing** (`node_generate_name`). The comment on the selectors
  (`marketplacedataset_types.go:51`) offers `metadata.generateName`, and `GetPodLabels` adds it to the labels.
  As controllers write it the value has a hyphen at its end, so it is no label value, and a rule that asks for it with `In` is one that
  the library refuses: `PodMatches` reports an error and the publication ends without the dataset. `RulesAgree` counts such
  a rule among those that cannot be read, on which operator and driver do agree.

One more disagreement that no run shows as a violation: a node writes its message under a key that
the operator's type does not have (`Typed` in `HealthCheck`).

## 4. Theorems

Every invariant and every action property that a passing run checks is a theorem; only the
properties under fairness are not. The assumptions are those of the modules, as
`HealthCheckAssumption` and `DatasetMountAssumption` (finite sets, an extra name outside the set, natural
bounds, at least one attempt); two theorems have a premise of their own, `RetriesAreEnough` and
`RepairsKeepMounts`. The strengthened invariants were checked with TLC on the instances of the
runs before they were proved.

| Property | Theorem | Module |
|---|---|---|
| `TypeOK` of each model | `TypeCorrect`, `DatasetTypes`, `NodePodsTypes` | the `*Proofs` module of each |
| `AnswersSurvive`, `VerdictCountsAnswers`, `VerdictIsFinal`, `NoAnswerAfterRestart` | `AnswersAreNeverLost`, `VerdictsCount`, `VerdictsAreFinal`, `NoLateStarterAnswers` | `HealthCheckProofs` |
| `ImplementsBoard`, the refinement | `RefinesBoard` | `HealthCheckProofs` |
| `RetriesSuffice` | `RetriesAreEnough` | `HealthCheckProofs` |
| `MountsNeedCredentials`, `CompletePodHasDatasets`, `ServingMountsAreKept` | `CredentialsFirst`, `CompleteIsServed`, `RepairsKeepMounts` | `DatasetMountProofs` |
| `RecordedNeverGoesBack`, `LossesAreReported` | `RecordIsMonotone`, `NoSilentLoss` | `DriverOperatorProofs` |
| `EditsSurvive`, `ConditionsAreAMap` | `UsersPrevail`, `ConditionsStayAMap` with `AnyListIsAMap` | `DatasetOperatorProofs` |
| `OwnDatasetsOnly`, `RepairedIsTrue`, `CompleteIsEarned`, `PublishedIsWatched`, `ReadableIsAccepted` | `DatasetsStayHome`, `AnswersAreTrue`, `ConditionsAreEarned`, `PublishedPodsAreFound`, `ReadableCredentialsPass` | `NodePodsProofs` |
| `RulesAgree`, `AcceptedRulesAreRead`, `AdmittedOnce` | `RulesAreRead`, `AcceptedRulesPass`, `PodsAreAdmittedOnce` | `NodeRulesProofs` |
| `FullCheckCountsAll` | `FullChecksCount` | `NodeChecksProofs` |

**HealthCheck.** `TypeCorrect`; then `HonestCopies`, the inductive invariant behind the rest: a copy held
by a node, by the operator or by its cache is never newer than the stored resource, and if it has
the stored *version* it has the stored *status*. So the version test of an update makes its read and
its write one step. From it: `AnswersAreNeverLost`, `VerdictsCount`, `VerdictsAreFinal` and `RefinesBoard`
(initial states map to initial states; every step is one post, judgement, creation or removal, or a
stutter). `VerdictsCount` is strengthened with what the operator's copy says about counts, and needs
that answers are never taken back. `NoLateStarterAnswers` needs that whoever has a check in hand
started no later than its creation.

`RetriesAreEnough` has the premise `Retries >= 2 * (Cardinality(Nodes) + MaxRestarts)`. `RetryInv` keeps an account: the
attempts a node has used up, a conflict it has yet to meet (`Pending`), and how often the stored version
can still change (`Budget`) never sum up to more than `Bound`. An answer changes the version at most twice, once itself and once by
the operator's judgement of it; the operator judges once more without an answer; an update that changes
nothing makes no new version, which is what `Judged` is for; a restarted container can answer again. Conflicts
are paid for by changes, so what a node is left with is at least one attempt. The premise says what the code's
constant is worth: five attempts cover two nodes without a restart. For three nodes it does not hold,
and there TLC does find a node that gives up (`Retries = 5`).

**DatasetMount.** `TypeCorrect` is proved with `InHand`: a container that works on a dataset holds a
dataset, never the name of the credentials file. `CredentialsFirst`: after teardown there is no mount
unless the credentials have been written again. The property is not inductive; `MountInv` adds that
what is mounted has a folder and what is in the target path has the path (`Nested`), that the driver is
at rest once the volume is torn down (`Resting`), and that an s3fs started before has lost its folder
(`Bare`). It narrows the leak of `mount_outlives` down to repairs that begin after the teardown.

`CompleteIsServed` follows a publication through its loop. `PhasesInv` ties the step of the driver to the call of the
kubelet. `FreshInv`: until the pod has started, no check concerns it, no reason is recorded, and what is mounted was
mounted by this driver. `ProgressInv`: unless a failure is remembered, every dataset that matches is still to
be done, in hand, or served. The crash of the driver, which kills its mounts, is also what ends the call.

`RepairsKeepMounts` assumes `MaxFaults = 0` and `MaxRestarts = 0`: calls and listings succeed and the kubelet publishes a
volume once. Both are needed (section 3); crashes, edits and checks are without bound. `OnceInv`: a publication is
under way only while the pod has not started, so it is never beside a repair. `CleanInv`: what a repair is about to
unmount is not served, from the listing that said so to the unmount, unless its bucket is empty or the volume is
being taken down.

**DriverOperator.** `TypeCorrect` is proved with the fact that a process at rest is at the first workload, so
that `Reconcile` never applies one beyond the last. `RecordIsMonotone` and `NoSilentLoss` are action properties;
both follow from `RecordInv`: no pod is recorded in a version it has not had (`Known`), a view that is not
behind is the stored resource (`Views`), and a status about to be accepted differs from the stored one only
where a check has been created or its absence is reported (`Weighed`). `OnlyConcluded` then says that
nothing but such a status ever changes the record. `DriverOperatorAssumption`: the order of the
workloads is a sequence that is not empty, pods are finitely many and each has a workload and a node.

**DatasetOperator.** `DatasetTypes` contains that a status never holds two conditions of one type, nor conditions out of
order. The lemmas before it go through the four forms that a list can have (`ListForms`) and say what `SetCondition`
and `MarshalJSON` make of each. `UsersPrevail` (`EditsSurvive`) rests on `CopyInv`: a view of the operator that is not
behind is what is stored, and the copy in hand agrees with the stored resource in everything that reconcile does not
change. So an accepted update, which replaces the whole resource, changes labels and one condition only.
`DatasetOperatorAssumption` keeps the names of views and of datasets apart; `ConditionAssumption` says that the two types
of conditions are ordered and that `Nil` is no condition.

`AnyListIsAMap` is about the package of conditions by itself: lists of any length and in any order that have one
condition of each type at most. Each operation is described by what it makes of the *set* of conditions on the list
(`SetReplaces`, `RemoveTakesOne`, `SortKeepsContents`, `NewListHolds`), and `GetByContents` says that nothing else
counts. That a list can be sorted at all is `OrderExists`: a condition goes where the number of those that rank no
higher says. `ConditionsStayAMap` applies it to the lists that `DatasetTypes` leaves.

**NodePods.** `NodeInv` has three parts. `TypesInv` is inductive by itself. `PlacesInv` says that what the two containers have in
hand, datasets and paths, belongs to the namespace of the pod it is for: `DatasetsStayHome` follows, although the
loop over the pods shares what it has read. `AnswerInv` says what a count stands for: there is a set of entries of
the check's list, as many as were counted, each of which had its datasets when it was repaired, those excepted that
were skipped, and has them now unless they broke or were taken down, or the path is gone. It is the step from one pod to the number in the answer, and gives
`AnswersAreTrue`. Given `NodeInv`, `EarnedInv` follows a publication from its mounts to its condition
(`ConditionsAreEarned`), and `WatchedInv` keeps the tags of pods as long as nothing has gone wrong (`PublishedPodsAreFound`).
`ReadableCredentialsPass` is about the two judgements of a secret. `NodePodsAssumption`: finitely many pods and datasets, settled
pods have names of their own, keys and lists of rules are sequences.

`FullChecksCount` is the converse of `AnswersAreTrue`: a check that meets no failure counts all that it can. `CountInv`
says so of the pods that have been visited, `ListedInv` gives every entry of the list a path, and `FilesInv`
bounds what the file of the path may hold, so that a key that is not shorter than all before it is read back as
it was written.

`RulesAreRead` and `AcceptedRulesPass` are about the loop of `PodMatches`, for every list of rules. What the
loop has after each round is a function over the rounds (`RoundsExist`), and `Deserved` is its invariant. `PodsAreAdmittedOnce`
compares `Handle` with its own result: the volume that it adds is the one that it then finds. `TemplateAssumption` is
what Kubernetes requires of a pod: no two volumes of one name.

Loops over lists are proved by induction over the number of rounds. The provers cannot take the library's
induction theorems, whose hypothesis is an operator, so `NatInductionOnSets` states the principle for a set of
numbers, from the theorem that `<` on the numbers is well founded. It asks for loops written as functions over `0 .. n`, as
`PodMatches` and `NewConditions` are.

Model-checked only:

* everything under fairness (`EveryNodeAnswers`, `VerdictSettles`, `CheckExpires`, `TeardownCompletes`, `RepairHeals`, `StatusConverges`,
  `UpgradeReachesPods`, `EveryPodIsAnnounced`, `ClaimFollowsDatasets`, `DatasetsConverge`, `OperatorComesToRest`,
  `UndisturbedChangeIsChecked`, `RecurringChecksHeal`): liveness and `ENABLED` are beyond the provers;
* the five violated properties, which are false.

## 5. Not modelled, and what is left

Left out for good: CSI identity and controller services (stateless replies), process start-up, generated code,
embedded assets, manifests. Of modelled components: the endpoint, mount options and bucket of a dataset as
arguments of s3fs; datasets whose spec cannot be parsed, which the API server does not store; the assets of
the driver besides the configuration map and the workloads, which are one call that may fail; the texts of messages.

Hazards that no property covers, with the reason at each in `PROJECT.json`: an operator that restarts more often
than the interval never runs the periodic check (time has no length in `DriverOperator`); a deletion by name from an old
cache can hit a dataset that was created again, and a tag by name can hit the next pod after a forced deletion (the models
have both cases; the properties they would break do not hold of the code and are claimed nowhere).
Smaller ones are not listed there: the place holders of assets, which two reconcilers share without a lock, but
of which the dataset's asset has none; the owners of storage classes, which are added to the object in hand and not written
(`storage.go:61`); the maps of labels and annotations that the tag replaces as a whole (`client.go:310`); a second mount at the path
of the datasets (`pod-csi.go:133`); a claim of the token that is null (`jwt.go:27`).

What could come next:

1. `DatasetMount` shown to implement the steps of `NodePods` for one pod, under a mapping that forgets calls in progress.
2. For `DriverOperator` an abstract log of pods in which each restart is announced or excused.
3. The safety half of what converges: once labels, condition and claim agree with the specs, a reconcile by views that
   are not behind writes nothing.

## 6. Running

```
tlc -workers 2 -config HealthCheckRace.cfg MCHealthCheck.tla
tlc -workers 2 -config DatasetMountHeals.cfg DatasetMount.tla
tlc -workers 2 -config DriverOperatorRecovers.cfg MCDriverOperator.tla
tlc -workers 2 -config DatasetOperatorSettles.cfg MCDatasetOperator.tla
tlc -workers 2 -config NodePodsRepaired.cfg MCNodePods.tla
tlc -workers 2 -config NodePodsGenerateName.cfg MCNodePods.tla
tlapm HealthCheckProofs.tla
tlapm DatasetMountProofs.tla
tlapm DriverOperatorProofs.tla
tlapm DatasetOperatorProofs.tla
tlapm NodePodsProofs.tla
tlapm NodeRulesProofs.tla
tlapm NodeChecksProofs.tla
tlapm Induction.tla
```

The longest runs are `hc_race`, `hc_lifetime`, `mount_heals`, `dataset_settles` and `node_pods`, two to three minutes each.
