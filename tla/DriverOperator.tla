---------------------------- MODULE DriverOperator -----------------------------
(***************************************************************************)
(* The reconciler of the MarketplaceCSIDriver resource: it applies the     *)
(* assets of the driver, among them a configuration map and the workloads  *)
(* whose pods read it when they start, records the driver's pods in the    *)
(* resource's status, and creates a health check for the nodes whose pods  *)
(* have changed, and one for all nodes when an interval has passed.        *)
(***************************************************************************)
EXTENDS Naturals, Sequences, FiniteSets

CONSTANTS
    Order,           \* the workloads, in the order in which they are applied
    Stateful,        \* the one that is a stateful set; the others are daemon sets
    Pods,            \* the driver's pods, by name
    WorkloadOf,      \* WorkloadOf[p]: the workload of pod p
    NodeOf,          \* NodeOf[p]: the node of pod p
    MaxTroubles      \* bound on failed API calls, lost pods, edits and restarts, all together

Workloads == {Order[i] : i \in DOMAIN Order}

ASSUME DriverOperatorAssumption ==
    /\ Order \in Seq(Workloads) /\ Order # <<>>
    /\ IsFiniteSet(Pods)
    /\ WorkloadOf \in [Pods -> Workloads]
    /\ DOMAIN NodeOf = Pods
    /\ MaxTroubles \in Nat

VARIABLES
    driver,     \* the MarketplaceCSIDriver, as the API server stores it
    cluster,    \* secret, configuration map and workloads
    pods,       \* the driver's pods
    operator,   \* the operator's process
    announced,  \* announced[p]: the version of p when a check last addressed its node
    troubles    \* how many failures, losses, edits and restarts there have been

vars == <<driver, cluster, pods, operator, announced, troubles>>

--------------------------------------------------------------------------------
(* Data *)

Nodes == {NodeOf[p] : p \in Pods}
Of(w) == {p \in Pods : WorkloadOf[p] = w}

Installs == {"None", "Installing", "InstallComplete", "InstallFailed"}
Conditions == {"None", "CredentialError", "HealthCheckFailed", "RepairInitiated", "Operational"}

\* status.driverPods holds what tells a pod from its predecessors and from its
\* own earlier states: here one version, 0 for a pod that is not recorded.
Statuses == [recorded : [Pods -> Nat], install : Installs, condition : Conditions]
Drivers == [env : Nat, status : Statuses]

Trouble ==
    /\ troubles < MaxTroubles
    /\ troubles' = troubles + 1

Fresh == [env |-> 1,
          status |-> [recorded |-> [p \in Pods |-> 0], install |-> "None",
                      condition |-> "None"]]

\* A process that has just started: its cache is filled before it reconciles.
Started(release, stored) ==
    [pc |-> "idle", release |-> release, cache |-> stored, copy |-> Fresh,
     old |-> {}, restart |-> FALSE, next |-> 1, ready |-> TRUE]

Init ==
    /\ driver = Fresh
    /\ cluster \in [secret : {"valid", "bad"}, config : {0}, release : [Workloads -> {0}]]
    /\ pods = [p \in Pods |-> [version |-> 0, env |-> 0, state |-> "gone", outdated |-> FALSE]]
    /\ operator = Started(1, Fresh)
    /\ announced = [p \in Pods |-> 0]
    /\ troubles = 0

--------------------------------------------------------------------------------
(* The stored resource and the operator's views of it *)

AcceptedBlindly == TRUE   \* mutant: no version in the update
Accepted == "copy" \notin operator.old

\* Status().Update at the end of a step that leads to "then".  Its failure is
\* only logged.
UpdateStatus(status, then) ==
    \/ /\ Accepted /\ status # driver.status
       /\ driver' = [driver EXCEPT !.status = status]
       /\ operator' = [then EXCEPT !.old = {"cache"}]
       /\ UNCHANGED troubles
    \/ /\ ~Accepted \/ status = driver.status
       /\ operator' = then
       /\ UNCHANGED <<driver, troubles>>
    \/ /\ Trouble /\ operator' = then /\ UNCHANGED driver

Returned == [Started(operator.release, operator.cache) EXCEPT !.old = operator.old \ {"copy"}]

--------------------------------------------------------------------------------
(* Reconcile *)

\* A call failed: setStatusInstallError comes next.
Failed(op) == operator' = [op EXCEPT !.pc = "failed"]

SetStatusInstallError ==
    /\ operator.pc = "failed"
    /\ UpdateStatus([operator.copy.status EXCEPT !.install = "InstallFailed"], Returned)
    /\ UNCHANGED <<cluster, pods, announced>>

\* ApplyDriverConfigMap: a new or changed map means that the driver has to be
\* restarted.
ConfigChanges == cluster.config # operator.cache.env

\* Every return leaves a delay or a requeue behind, so the next reconcile comes
\* by itself; an event of the watched resources only makes it come earlier.  It
\* takes the resource from the cache and applies the driver's registration,
\* storage class, account, roles, service and configuration map, any of which
\* can fail.
BeginReconcile ==
    LET begun == [operator EXCEPT !.copy = operator.cache,
                      !.old = IF "cache" \in @ THEN {"cache", "copy"} ELSE {}]
    IN /\ operator.pc = "idle"
       /\ \/ /\ cluster' = [cluster EXCEPT !.config = operator.cache.env]
             /\ operator' = [begun EXCEPT !.pc = "workload", !.restart = ConfigChanges]
             /\ UNCHANGED troubles
          \/ Trouble /\ Failed(begun) /\ UNCHANGED cluster
       /\ UNCHANGED <<driver, pods, announced>>

\* Whether the template of an existing workload changes.
TemplateChangesOnRestart(w) == operator.restart   \* mutant: versions are not compared
TemplateChanges(w) == operator.restart \/ cluster.release[w] # operator.release

\* What the status of a workload says.
Available(w) ==
    IF w = Stateful THEN \E p \in Of(w) : pods[p].state = "ready"
    ELSE \A p \in Of(w) : pods[p].state = "ready"

\* Mutant: one workload too many.
ApplyWorkloadTooOften ==
    /\ operator.pc = "workload"
    /\ operator' = [operator EXCEPT
           !.next = @ + 1, !.pc = IF operator.next <= Len(Order) THEN "workload" ELSE "pods"]
    /\ UNCHANGED <<driver, cluster, pods, announced, troubles>>

\* applyDaemonSet and applyStatefulSet, and what Reconcile keeps of the answer.
\* A workload just created has an empty status, in which no daemon is
\* unavailable and no replica ready.
ApplyWorkload ==
    LET w == Order[operator.next]
        Applied(ready) ==
            operator' = [operator EXCEPT
                !.next = @ + 1, !.ready = @ /\ ready,
                !.pc = IF operator.next < Len(Order) THEN "workload"
                       ELSE IF operator.ready /\ ready THEN "pods" ELSE "installing"]
    IN /\ operator.pc = "workload"
       /\ \/ /\ cluster.release[w] = 0
             /\ cluster' = [cluster EXCEPT !.release[w] = operator.release]
             /\ Applied(w # Stateful)
             /\ UNCHANGED <<pods, troubles>>
          \/ /\ cluster.release[w] # 0 /\ TemplateChanges(w)
             /\ cluster' = [cluster EXCEPT !.release[w] = operator.release]
             /\ pods' = [p \in Pods |-> [pods[p] EXCEPT
                             !.outdated = @ \/ (p \in Of(w) /\ pods[p].state # "gone")]]
             /\ Applied(Available(w))
             /\ UNCHANGED troubles
          \/ /\ cluster.release[w] # 0 /\ ~TemplateChanges(w)
             /\ Applied(Available(w))
             /\ UNCHANGED <<cluster, pods, troubles>>
          \/ Trouble /\ Failed(operator) /\ UNCHANGED <<cluster, pods>>
       /\ UNCHANGED <<driver, announced>>

SetInstalling ==
    /\ operator.pc = "installing"
    /\ UpdateStatus([operator.copy.status EXCEPT !.install = "Installing"], Returned)
    /\ UNCHANGED <<cluster, pods, announced>>

--------------------------------------------------------------------------------
(* isCredentialValid, checkDriverPods, setDriverStatus and the health checks *)

\* isCredentialValid and checkCredentialFields
CredentialValid == cluster.secret = "valid"

\* createHealthCheckCR: the nodes are going to look at their pods.
Announce(nodes) ==
    announced' = [p \in Pods |-> IF NodeOf[p] \in nodes THEN pods[p].version ELSE announced[p]]

\* The pods that exist, by their versions.
Listing == [p \in Pods |-> IF pods[p].state = "gone" THEN 0 ELSE pods[p].version]

\* The status that Reconcile has in hand, to be written at its end.
Concluded(recorded, condition) ==
    operator' = [operator EXCEPT
        !.pc = "status", !.next = 1, !.ready = TRUE, !.restart = FALSE,
        !.copy.status = [recorded |-> recorded, install |-> "InstallComplete",
                         condition |-> condition]]

NodesToFix ==
    {NodeOf[p] : p \in {q \in Pods : Listing[q] \notin {0, operator.copy.status.recorded[q]}}}

\* Mutant: the listed pods are not put into the status.
CheckDriverPodsUnrecorded ==
    LET recorded == operator.copy.status.recorded
    IN /\ operator.pc = "pods"
       /\ \/ /\ CredentialValid /\ NodesToFix # {}
             /\ Announce(NodesToFix)
             /\ Concluded(recorded, "RepairInitiated")
          \/ /\ CredentialValid /\ NodesToFix = {}
             /\ Concluded(recorded, "Operational")
             /\ UNCHANGED announced
          \/ /\ ~CredentialValid
             /\ Concluded(recorded, "CredentialError")
             /\ UNCHANGED announced
       /\ UNCHANGED <<driver, cluster, pods, troubles>>

\* Mutant: the error of createHealthCheckCR is dropped.
CheckDriverPodsQuietly ==
    /\ operator.pc = "pods"
    /\ \/ Announce(NodesToFix) /\ UNCHANGED troubles
       \/ Trouble /\ UNCHANGED announced
    /\ Concluded(Listing, IF NodesToFix = {} THEN "Operational" ELSE "RepairInitiated")
    /\ UNCHANGED <<driver, cluster, pods>>

\* The listed pods are recorded, whatever becomes of the check for them.
CheckDriverPods ==
    LET recorded == operator.copy.status.recorded
    IN /\ operator.pc = "pods"
       /\ \/ /\ CredentialValid /\ NodesToFix # {}
             /\ Announce(NodesToFix)
             /\ Concluded(Listing, "RepairInitiated")
             /\ UNCHANGED troubles
          \/ /\ CredentialValid /\ NodesToFix # {}
             /\ Trouble   \* the check cannot be created
             /\ Concluded(Listing, "HealthCheckFailed")
             /\ UNCHANGED announced
          \/ /\ CredentialValid /\ NodesToFix = {}
             /\ Concluded(Listing, "Operational")
             /\ UNCHANGED <<announced, troubles>>
          \/ /\ \/ ~CredentialValid /\ UNCHANGED troubles
                \/ Trouble   \* the secret cannot be read
             /\ Concluded(Listing, "CredentialError")
             /\ UNCHANGED announced
          \/ /\ Trouble   \* the pods cannot be listed
             /\ Concluded(recorded, IF CredentialValid THEN "HealthCheckFailed"
                                    ELSE "CredentialError")
             /\ UNCHANGED announced
       /\ UNCHANGED <<driver, cluster, pods>>

SetDriverStatus ==
    /\ operator.pc = "status"
    /\ UpdateStatus(operator.copy.status, [Returned EXCEPT !.pc = "periodic"])
    /\ UNCHANGED <<cluster, pods, announced>>

\* No health check yet: the interval, counted from the last check or from the
\* start of the process, is still running, or there is no interval.
NoHealthCheckDue ==
    /\ operator.pc = "periodic"
    /\ operator' = Returned
    /\ UNCHANGED <<driver, cluster, pods, announced, troubles>>

\* Mutant: a check that names no node instead of one that names them all.
RunPeriodicHealthCheckNowhere ==
    /\ operator.pc = "periodic"
    /\ Announce({}) \/ UNCHANGED announced
    /\ operator' = Returned
    /\ UNCHANGED <<driver, cluster, pods, troubles>>

RunPeriodicHealthCheck ==
    /\ operator.pc = "periodic"
    /\ \/ Announce(Nodes) /\ UNCHANGED troubles
       \/ Trouble /\ UNCHANGED announced
    /\ operator' = Returned
    /\ UNCHANGED <<driver, cluster, pods>>

--------------------------------------------------------------------------------
(* The surroundings *)

\* The operator's cache follows the resource.
WatchEvent ==
    /\ "cache" \in operator.old
    /\ operator' = [operator EXCEPT !.cache = driver, !.old = @ \ {"cache"}]
    /\ UNCHANGED <<driver, cluster, pods, announced, troubles>>

\* The process starts again, with the same driver image or with a new one.
OperatorRestart ==
    /\ Trouble
    /\ \E release \in {operator.release, operator.release + 1} :
          operator' = Started(release, driver)
    /\ UNCHANGED <<driver, cluster, pods, announced>>

Gone(p) == pods' = [pods EXCEPT ![p].state = "gone", ![p].outdated = FALSE]

\* The controller of a workload takes away a pod of the old template, makes a
\* new one, which reads the configuration map, and sees it become ready.
StopPod(p) ==
    /\ pods[p].outdated
    /\ Gone(p)
    /\ UNCHANGED <<driver, cluster, operator, announced, troubles>>

StartPod(p) ==
    /\ cluster.release[WorkloadOf[p]] # 0 /\ pods[p].state = "gone"
    /\ pods' = [pods EXCEPT ![p] = [version |-> @.version + 1, env |-> cluster.config,
                                    state |-> "starting", outdated |-> FALSE]]
    /\ UNCHANGED <<driver, cluster, operator, announced, troubles>>

PodReady(p) ==
    /\ pods[p].state = "starting"
    /\ pods' = [pods EXCEPT ![p].state = "ready", ![p].version = @ + 1]
    /\ UNCHANGED <<driver, cluster, operator, announced, troubles>>

\* A pod is lost.
LosePod(p) ==
    /\ pods[p].state # "gone"
    /\ Trouble
    /\ Gone(p)
    /\ UNCHANGED <<driver, cluster, operator, announced>>

\* environmentVariables of the resource's spec
EditEnvironment ==
    /\ Trouble
    /\ driver' = [driver EXCEPT !.env = @ + 1]
    /\ operator' = [operator EXCEPT
           !.old = IF operator.pc \in {"idle", "periodic"} THEN {"cache"} ELSE {"cache", "copy"}]
    /\ UNCHANGED <<cluster, pods, announced>>

\* The credential's secret is made, spoilt or repaired.
EditSecret ==
    /\ Trouble
    /\ \E secret \in {"valid", "bad"} \ {cluster.secret} :
          cluster' = [cluster EXCEPT !.secret = secret]
    /\ UNCHANGED <<driver, pods, operator, announced>>

--------------------------------------------------------------------------------
OperatorStep ==
    \/ BeginReconcile
    \/ SetStatusInstallError
    \/ ApplyWorkload
    \/ SetInstalling
    \/ CheckDriverPods
    \/ SetDriverStatus
    \/ NoHealthCheckDue
    \/ RunPeriodicHealthCheck

Next ==
    \/ OperatorStep
    \/ WatchEvent
    \/ OperatorRestart
    \/ \E p \in Pods : StopPod(p) \/ StartPod(p) \/ PodReady(p) \/ LosePod(p)
    \/ EditEnvironment
    \/ EditSecret

Spec == Init /\ [][Next]_vars

\* The work queue and the informer go on, and so do the workloads' controllers.
Fairness ==
    /\ WF_vars(OperatorStep)
    /\ WF_vars(WatchEvent)
    /\ \A p \in Pods : WF_vars(StopPod(p) \/ StartPod(p) \/ PodReady(p))

FairSpec == Spec /\ Fairness

--------------------------------------------------------------------------------
(* Properties *)

Operators == [pc : {"idle", "workload", "installing", "failed", "pods", "status", "periodic"},
              release : Nat, cache : Drivers, copy : Drivers, old : SUBSET {"cache", "copy"},
              restart : BOOLEAN, next : 1 .. Len(Order) + 1, ready : BOOLEAN]

\* Every variable keeps the shape the code gives it, and Reconcile applies no
\* workload that is not there.
TypeOK ==
    /\ driver \in Drivers
    /\ cluster \in [secret : {"valid", "bad"}, config : Nat, release : [Workloads -> Nat]]
    /\ pods \in [Pods -> [version : Nat, env : Nat, state : {"gone", "starting", "ready"},
                          outdated : BOOLEAN]]
    /\ operator \in Operators
    /\ operator.pc = "workload" => operator.next \in DOMAIN Order
    /\ announced \in [Pods -> Nat]
    /\ troubles \in Nat

\* A pod is recorded as known without a health check only by an update that
\* also reports why: the credential is bad or the check failed.
LossesAreReported ==
    [][\A p \in Pods :
          /\ driver'.status.recorded[p] # driver.status.recorded[p]
          /\ announced[p] < driver'.status.recorded[p]
          => driver'.status.condition \in {"CredentialError", "HealthCheckFailed"}]_vars

\* What is recorded of a pod is never replaced by something older, although
\* the reconciler works on a cached copy.
RecordedNeverGoesBack ==
    [][\A p \in Pods :
          \/ driver'.status.recorded[p] >= driver.status.recorded[p]
          \/ driver'.status.recorded[p] = 0]_vars

\* In the end the status says what is so, whatever failed on the way.
StatusConverges ==
    <>[](/\ \A p \in Pods : driver.status.recorded[p] = pods[p].version
         /\ driver.status.install = "InstallComplete"
         /\ driver.status.condition =
               IF CredentialValid THEN "Operational" ELSE "CredentialError")

\* A new release of the driver reaches every pod, whatever failed on the way.
UpgradeReachesPods ==
    <>[](/\ \A w \in Workloads : cluster.release[w] = operator.release
         /\ \A p \in Pods : pods[p].state = "ready" /\ ~pods[p].outdated)

\* The periodic health check makes up for every check that was not created.
EveryPodIsAnnounced ==
    SF_vars(RunPeriodicHealthCheck) => <>[](\A p \in Pods : announced[p] = pods[p].version)

\* A change of the environment variables restarts the driver: in the end every
\* pod has been started with the environment of the resource.
ConfigChangeRestartsDriver ==
    <>[](\A p \in Pods : pods[p].env = driver.env)
================================================================================
