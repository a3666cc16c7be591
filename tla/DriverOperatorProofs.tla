------------------------- MODULE DriverOperatorProofs --------------------------
(***************************************************************************)
(* Theorems about DriverOperator, for every number of workloads and pods   *)
(* and every bound.                                                        *)
(*                                                                         *)
(* What an update does to the stored record can only be told from what     *)
(* the copy in hand has to do with it: a copy that is not behind is the    *)
(* stored resource until the pods are checked, and differs from it         *)
(* afterwards only where a check was created or its absence is reported.   *)
(* RecordInv says so.                                                      *)
(***************************************************************************)
EXTENDS DriverOperator, TLAPS

Shapes == TypeOK /\ (operator.pc = "idle" => operator.next = 1)

\* The order of the workloads is a sequence that is not empty.
LEMMA OrderType ==
    /\ Order \in Seq(Workloads)
    /\ Len(Order) \in Nat \ {0}
    /\ 1 \in DOMAIN Order
  BY DriverOperatorAssumption

\* A process that has just started is well-formed and at the first workload.
LEMMA StartedType ==
    ASSUME NEW release \in Nat, NEW stored \in Drivers
    PROVE  /\ Started(release, stored) \in Operators
           /\ Started(release, stored).next = 1
<1>1. Fresh \in Drivers
  BY DEF Fresh, Drivers, Statuses, Installs, Conditions
<1>2. 1 \in 1 .. Len(Order) + 1
  BY OrderType
<1> QED
  BY <1>1, <1>2 DEF Started, Operators

\* So is one that has returned from Reconcile.
LEMMA ReturnedType ==
    ASSUME TypeOK
    PROVE  /\ Returned \in Operators
           /\ Returned.next = 1
           /\ Returned.pc = "idle"
<1>1. /\ operator.release \in Nat /\ operator.cache \in Drivers
        /\ operator.old \in SUBSET {"cache", "copy"}
  BY DEF TypeOK, Operators
<1>2. Started(operator.release, operator.cache) \in Operators
  BY <1>1, StartedType
<1> QED
  BY <1>1, <1>2, StartedType DEF Returned, Started, Operators

\* An update of the status leaves everything well-formed.
LEMMA UpdateStatusType ==
    ASSUME TypeOK, NEW status \in Statuses, NEW then \in Operators,
           then.pc \in {"idle", "periodic"}, then.next = 1, UpdateStatus(status, then)
    PROVE  /\ driver' \in Drivers
           /\ operator' \in Operators
           /\ operator'.pc \in {"idle", "periodic"}
           /\ operator'.next = 1
           /\ troubles' \in Nat
<1>1. [driver EXCEPT !.status = status] \in Drivers
  BY DEF TypeOK, Drivers
<1>2. /\ [then EXCEPT !.old = {"cache"}] \in Operators
      /\ [then EXCEPT !.old = {"cache"}].pc = then.pc
      /\ [then EXCEPT !.old = {"cache"}].next = then.next
  BY DEF Operators
<1>3. CASE Accepted /\ status # driver.status /\ driver' = [driver EXCEPT !.status = status]
           /\ operator' = [then EXCEPT !.old = {"cache"}] /\ UNCHANGED troubles
  BY <1>1, <1>2, <1>3 DEF TypeOK
<1>4. CASE operator' = then /\ UNCHANGED driver /\ (Trouble \/ UNCHANGED troubles)
  BY <1>4 DEF TypeOK, Trouble
<1> QED
  BY <1>3, <1>4 DEF UpdateStatus

\* Creating a check leaves the versions natural numbers.
LEMMA AnnounceType ==
    ASSUME TypeOK, NEW nodes, Announce(nodes)
    PROVE  announced' \in [Pods -> Nat]
  BY DEF TypeOK, Announce

\* Reading the resource leaves everything well-formed.
LEMMA BeginReconcileType == ASSUME Shapes, BeginReconcile PROVE Shapes'
<1> DEFINE begun == [operator EXCEPT !.copy = operator.cache,
                        !.old = IF "cache" \in @ THEN {"cache", "copy"} ELSE {}]
<1>1. operator \in Operators /\ operator.cache \in Drivers /\ operator.cache.env \in Nat
  BY DEF Shapes, TypeOK, Operators, Drivers
<1>2. begun \in Operators /\ begun.next = 1
  BY <1>1 DEF Shapes, BeginReconcile, Operators
<1>3. CASE Trouble /\ Failed(begun) /\ UNCHANGED cluster
  <2>1. operator' \in Operators /\ operator'.pc = "failed"
    BY <1>2, <1>3 DEF Failed, Operators
  <2> QED
    BY <1>3, <2>1 DEF Shapes, TypeOK, BeginReconcile, Trouble
<1>4. CASE /\ cluster' = [cluster EXCEPT !.config = operator.cache.env]
           /\ operator' = [begun EXCEPT !.pc = "workload",
                                        !.restart = ConfigChanges]
           /\ UNCHANGED troubles
  <2>1. operator' \in Operators /\ operator'.pc = "workload" /\ operator'.next = 1
    BY <1>2, <1>4 DEF Operators, ConfigChanges
  <2>2. cluster' \in [secret : {"valid", "bad"}, config : Nat, release : [Workloads -> Nat]]
    BY <1>1, <1>4 DEF Shapes, TypeOK
  <2> QED
    BY <1>4, <2>1, <2>2, OrderType DEF Shapes, TypeOK, BeginReconcile
<1> QED
  BY <1>3, <1>4 DEF BeginReconcile

\* Applying a workload leaves everything well-formed, and stops at the last.
LEMMA ApplyWorkloadType == ASSUME Shapes, ApplyWorkload PROVE Shapes'
<1> DEFINE w == Order[operator.next]
           applied(ready) ==
               [operator EXCEPT
                   !.next = @ + 1, !.ready = @ /\ ready,
                   !.pc = IF operator.next < Len(Order) THEN "workload"
                          ELSE IF operator.ready /\ ready THEN "pods" ELSE "installing"]
<1>1. operator \in Operators /\ operator.next \in 1 .. Len(Order) /\ operator.release \in Nat
  BY OrderType DEF Shapes, TypeOK, ApplyWorkload, Operators
<1>2. w \in Workloads
  BY <1>1, OrderType
<1>3. ASSUME NEW ready \in BOOLEAN
      PROVE  /\ applied(ready) \in Operators
             /\ applied(ready).pc # "idle"
             /\ applied(ready).pc = "workload" => applied(ready).next \in 1 .. Len(Order)
  <2>1. operator.next + 1 \in 1 .. Len(Order) + 1
    BY <1>1, OrderType
  <2>2. operator.next < Len(Order) => operator.next + 1 \in 1 .. Len(Order)
    BY <1>1, OrderType
  <2>3. (operator.ready /\ ready) \in BOOLEAN
    OBVIOUS
  <2> QED
    BY <1>1, <2>1, <2>2, <2>3 DEF Operators
<1>4. (w # Stateful) \in BOOLEAN /\ Available(w) \in BOOLEAN
  BY DEF Available
<1>5. DOMAIN Order = 1 .. Len(Order)
  BY OrderType
<1>6. CASE Trouble /\ Failed(operator) /\ UNCHANGED <<cluster, pods>>
  <2>1. operator' \in Operators /\ operator'.pc = "failed"
    BY <1>1, <1>6 DEF Failed, Operators
  <2> QED
    BY <1>6, <2>1 DEF Shapes, TypeOK, ApplyWorkload, Trouble
<1>7. ASSUME NEW ready \in BOOLEAN, operator' = applied(ready),
             \/ UNCHANGED cluster
             \/ cluster' = [cluster EXCEPT !.release[w] = operator.release],
             \/ UNCHANGED pods
             \/ pods' = [p \in Pods |-> [pods[p] EXCEPT
                            !.outdated = @ \/ (p \in Of(w) /\ pods[p].state # "gone")]],
             UNCHANGED troubles
      PROVE  Shapes'
  <2>1. cluster' \in [secret : {"valid", "bad"}, config : Nat, release : [Workloads -> Nat]]
    BY <1>1, <1>2, <1>7 DEF Shapes, TypeOK
  <2>2. pods' \in [Pods -> [version : Nat, env : Nat, state : {"gone", "starting", "ready"},
                            outdated : BOOLEAN]]
    <3> DEFINE pod == [version : Nat, env : Nat, state : {"gone", "starting", "ready"},
                       outdated : BOOLEAN]
               flag(p) == pods[p].outdated \/ (p \in Of(w) /\ pods[p].state # "gone")
    <3>1. pods \in [Pods -> pod]
      BY DEF Shapes, TypeOK
    <3>2. \A p \in Pods : flag(p) \in BOOLEAN
      OBVIOUS
    <3> DEFINE changed == [p \in Pods |-> [pods[p] EXCEPT !.outdated = flag(p)]]
    <3>3. changed \in [Pods -> pod]
      <4> HIDE DEF flag
      <4>1. ASSUME NEW p \in Pods PROVE [pods[p] EXCEPT !.outdated = flag(p)] \in pod
        BY <3>1, <3>2
      <4> HIDE DEF pod
      <4> QED
        BY <4>1
    <3>4. UNCHANGED pods \/ pods' = changed
      BY <1>7
    <3> HIDE DEF changed
    <3> QED
      BY <3>1, <3>3, <3>4
  <2> QED
    BY <1>3, <1>5, <1>7, <2>1, <2>2 DEF Shapes, TypeOK, ApplyWorkload
<1> QED
  BY <1>4, <1>6, <1>7 DEF ApplyWorkload

\* What is concluded from the pods is a well-formed status.
LEMMA ConcludedType ==
    ASSUME TypeOK, NEW recorded \in [Pods -> Nat], NEW condition \in Conditions,
           Concluded(recorded, condition)
    PROVE  /\ operator' \in Operators
           /\ operator'.pc = "status"
<1>1. operator \in Operators /\ operator.copy \in Drivers
  BY DEF TypeOK, Operators
<1>2. [recorded |-> recorded, install |-> "InstallComplete", condition |-> condition] \in Statuses
  BY DEF Statuses, Installs
<1>3. [operator.copy EXCEPT !.status = [recorded |-> recorded, install |-> "InstallComplete",
                                        condition |-> condition]] \in Drivers
  BY <1>1, <1>2 DEF Drivers
<1>4. 1 \in 1 .. Len(Order) + 1
  BY OrderType
<1> QED
  BY <1>1, <1>3, <1>4 DEF Concluded, Operators

\* Every step keeps the shapes, and a process at rest is at the first workload.
LEMMA ShapesStep == Shapes /\ [Next]_vars => Shapes'
<1> SUFFICES ASSUME Shapes, [Next]_vars PROVE Shapes'
  OBVIOUS
<1>1. /\ TypeOK /\ driver \in Drivers /\ operator \in Operators
      /\ operator.copy \in Drivers /\ operator.copy.status \in Statuses
      /\ driver.status \in Statuses
  BY DEF Shapes, TypeOK, Operators, Drivers
<1>2. CASE SetStatusInstallError
  <2>1. [operator.copy.status EXCEPT !.install = "InstallFailed"] \in Statuses
    BY <1>1 DEF Statuses, Installs
  <2> QED
    BY <1>1, <1>2, <2>1, UpdateStatusType, ReturnedType DEF SetStatusInstallError, Shapes, TypeOK
<1>3. CASE SetInstalling
  <2>1. [operator.copy.status EXCEPT !.install = "Installing"] \in Statuses
    BY <1>1 DEF Statuses, Installs
  <2> QED
    BY <1>1, <1>3, <2>1, UpdateStatusType, ReturnedType DEF SetInstalling, Shapes, TypeOK
<1>4. CASE SetDriverStatus
  <2>1. /\ [Returned EXCEPT !.pc = "periodic"] \in Operators
        /\ [Returned EXCEPT !.pc = "periodic"].pc = "periodic"
        /\ [Returned EXCEPT !.pc = "periodic"].next = 1
    BY <1>1, ReturnedType DEF Operators
  <2> QED
    BY <1>1, <1>4, <2>1, UpdateStatusType DEF SetDriverStatus, Shapes, TypeOK
<1>5. CASE CheckDriverPods
  <2>1. Listing \in [Pods -> Nat] /\ operator.copy.status.recorded \in [Pods -> Nat]
    BY <1>1 DEF TypeOK, Listing, Statuses
  <2>2. PICK recorded \in [Pods -> Nat], condition \in Conditions : Concluded(recorded, condition)
    BY <1>5, <2>1 DEF CheckDriverPods, Conditions
  <2>3. operator' \in Operators /\ operator'.pc = "status"
    BY <1>1, <2>2, ConcludedType
  <2>4. announced' \in [Pods -> Nat]
    BY <1>1, <1>5, AnnounceType DEF CheckDriverPods, TypeOK
  <2>5. troubles' \in Nat
    BY <1>1, <1>5 DEF CheckDriverPods, TypeOK, Trouble
  <2> QED
    BY <1>1, <1>5, <2>3, <2>4, <2>5 DEF CheckDriverPods, Shapes, TypeOK
<1>6. CASE NoHealthCheckDue
  BY <1>1, <1>6, ReturnedType DEF NoHealthCheckDue, Shapes, TypeOK
<1>7. CASE RunPeriodicHealthCheck
  BY <1>1, <1>7, ReturnedType, AnnounceType DEF RunPeriodicHealthCheck, Shapes, TypeOK, Trouble
<1>8. CASE WatchEvent
  <2>1. operator' \in Operators /\ operator'.pc = operator.pc /\ operator'.next = operator.next
    BY <1>1, <1>8 DEF WatchEvent, Operators
  <2> QED
    BY <1>8, <2>1 DEF WatchEvent, Shapes, TypeOK
<1>9. CASE OperatorRestart
  <2>1. PICK release \in {operator.release, operator.release + 1} :
           operator' = Started(release, driver)
    BY <1>9 DEF OperatorRestart
  <2>2. release \in Nat
    BY <1>1, <2>1 DEF Operators
  <2>3. operator' \in Operators /\ operator'.next = 1 /\ operator'.pc = "idle"
    BY <1>1, <2>1, <2>2, StartedType DEF Started
  <2> QED
    BY <1>9, <2>3 DEF OperatorRestart, Shapes, TypeOK, Trouble
<1>10. ASSUME NEW p \in Pods, StopPod(p) \/ StartPod(p) \/ PodReady(p) \/ LosePod(p)
       PROVE  Shapes'
  <2>1. pods' \in [Pods -> [version : Nat, env : Nat, state : {"gone", "starting", "ready"},
                            outdated : BOOLEAN]]
    <3> DEFINE pod == [version : Nat, env : Nat, state : {"gone", "starting", "ready"},
                       outdated : BOOLEAN]
    <3>1. pods \in [Pods -> pod] /\ pods[p] \in pod /\ cluster.config \in Nat
      BY <1>1 DEF TypeOK
    <3>2. [version |-> pods[p].version + 1, env |-> cluster.config,
           state |-> "starting", outdated |-> FALSE] \in pod
      BY <3>1
    <3>3. CASE StopPod(p) \/ LosePod(p)
      BY <3>1, <3>3 DEF StopPod, LosePod, Gone
    <3>4. CASE StartPod(p)
      BY <3>1, <3>2, <3>4 DEF StartPod
    <3>5. CASE PodReady(p)
      BY <3>1, <3>5 DEF PodReady
    <3> QED
      BY <1>10, <3>3, <3>4, <3>5
  <2> QED
    BY <1>10, <2>1 DEF Shapes, TypeOK, StopPod, StartPod, PodReady, LosePod, Trouble
<1>11. CASE EditEnvironment
  <2>1. driver' \in Drivers
    BY <1>1, <1>11 DEF EditEnvironment, Drivers
  <2>2. operator' \in Operators /\ operator'.pc = operator.pc /\ operator'.next = operator.next
    BY <1>1, <1>11 DEF EditEnvironment, Operators
  <2> QED
    BY <1>11, <2>1, <2>2 DEF EditEnvironment, Shapes, TypeOK, Trouble
<1>12. CASE EditSecret
  BY <1>12 DEF EditSecret, Shapes, TypeOK, Trouble
<1>13. CASE UNCHANGED vars
  BY <1>13 DEF vars, Shapes, TypeOK
<1> QED
  BY <1>2, <1>3, <1>4, <1>5, <1>6, <1>7, <1>8, <1>9, <1>10, <1>11, <1>12, <1>13,
     BeginReconcileType, ApplyWorkloadType DEF Next, OperatorStep

\* The program starts well-formed.
LEMMA ShapesInit == Init => Shapes
<1> SUFFICES ASSUME Init PROVE Shapes
  OBVIOUS
<1>1. Fresh \in Drivers
  BY DEF Fresh, Drivers, Statuses, Installs, Conditions
<1>2. Started(1, Fresh) \in Operators /\ Started(1, Fresh).next = 1
  BY <1>1, StartedType
<1> QED
  BY <1>1, <1>2, OrderType DEF Init, Shapes, TypeOK, Started

\* Everything stays well-formed, and Reconcile applies no workload beyond the
\* last one of its order.
THEOREM TypeCorrect == Spec => []TypeOK
<1>1. Shapes => TypeOK
  BY DEF Shapes
<1> QED
  BY <1>1, ShapesInit, ShapesStep, PTL DEF Spec

--------------------------------------------------------------------------------
(* What is recorded *)

\* Nothing is recorded of a pod that has not been so.
Known == \A p \in Pods : driver.status.recorded[p] <= pods[p].version

\* A view that is not behind is what is stored.
Views ==
    /\ "cache" \notin operator.old => operator.cache = driver
    /\ operator.pc \in {"workload", "installing", "failed", "pods"} /\ Accepted =>
          operator.copy = driver

\* A status about to be accepted is of pods that are or were there, goes back
\* for none, and gives the reason where no check was created.
Weighed ==
    operator.pc = "status" /\ Accepted =>
        \A p \in Pods :
            LET old == driver.status.recorded[p]
                new == operator.copy.status.recorded[p]
            IN /\ new <= pods[p].version
               /\ new >= old \/ new = 0
               /\ new # old /\ announced[p] < new =>
                     operator.copy.status.condition \in {"CredentialError", "HealthCheckFailed"}

RecordInv == Known /\ Views /\ Weighed

\* The versions that the invariant compares are natural numbers.
LEMMA RecordTypes ==
    ASSUME TypeOK
    PROVE  /\ driver.status.recorded \in [Pods -> Nat]
           /\ operator.copy.status.recorded \in [Pods -> Nat]
           /\ announced \in [Pods -> Nat]
           /\ \A p \in Pods : pods[p].version \in Nat
  BY DEF TypeOK, Operators, Drivers, Statuses

\* What a process keeps when it returns from Reconcile.
LEMMA ReturnedKeeps ==
    ASSUME TypeOK
    PROVE  /\ Returned.pc = "idle"
           /\ Returned.cache = operator.cache
           /\ Returned.old = operator.old \ {"copy"}
           /\ [Returned EXCEPT !.pc = "periodic"].pc = "periodic"
           /\ [Returned EXCEPT !.pc = "periodic"].cache = operator.cache
           /\ [Returned EXCEPT !.pc = "periodic"].old = operator.old \ {"copy"}
  BY ReturnedType DEF Returned, Started, Operators

\* An update keeps the invariant if it would when accepted.
LEMMA UpdateStatusRecord ==
    ASSUME TypeOK, RecordInv, NEW status \in Statuses, NEW then \in Operators,
           then.pc \in {"idle", "periodic"}, then.cache = operator.cache,
           then.old = operator.old \ {"copy"}, UpdateStatus(status, then), UNCHANGED pods,
           Accepted => \A p \in Pods : status.recorded[p] <= pods[p].version
    PROVE  RecordInv'
<1>1. CASE Accepted /\ status # driver.status /\ driver' = [driver EXCEPT !.status = status]
           /\ operator' = [then EXCEPT !.old = {"cache"}]
  <2>1. driver'.status = status
    BY <1>1 DEF TypeOK, Drivers
  <2>2. operator'.pc = then.pc /\ operator'.old = {"cache"}
    BY <1>1 DEF Operators
  <2> QED
    BY <1>1, <2>1, <2>2 DEF RecordInv, Known, Views, Weighed
<1>2. CASE operator' = then /\ UNCHANGED driver
  BY <1>2 DEF RecordInv, Known, Views, Weighed
<1> QED
  BY <1>1, <1>2 DEF UpdateStatus

\* The pods listed are compared with what is recorded of them, and the nodes of
\* those that differ get a check or a reason why not.
LEMMA CheckDriverPodsRecord ==
    ASSUME TypeOK, RecordInv, CheckDriverPods
    PROVE  RecordInv'
<1>1. PICK recorded, condition :
         /\ Concluded(recorded, condition)
         /\ \/ recorded = operator.copy.status.recorded
            \/ recorded = Listing
         /\ \/ condition \in {"CredentialError", "HealthCheckFailed"}
            \/ recorded = Listing /\ Announce(NodesToFix)
            \/ recorded = Listing /\ NodesToFix = {} /\ UNCHANGED announced
  BY DEF CheckDriverPods
<1>2. /\ operator'.pc = "status" /\ operator'.old = operator.old
      /\ operator'.cache = operator.cache
      /\ operator'.copy.status.recorded = recorded
      /\ operator'.copy.status.condition = condition
  BY <1>1 DEF Concluded, TypeOK, Operators, Drivers
<1>3. UNCHANGED <<driver, pods>>
  BY DEF CheckDriverPods
<1>4. Known' /\ Views'
  BY <1>2, <1>3 DEF RecordInv, Known, Views, Accepted
<1>5. ASSUME Accepted', NEW p \in Pods
      PROVE  /\ recorded[p] <= pods[p].version
             /\ recorded[p] >= driver.status.recorded[p] \/ recorded[p] = 0
             /\ recorded[p] # driver.status.recorded[p] /\ announced'[p] < recorded[p] =>
                   condition \in {"CredentialError", "HealthCheckFailed"}
  <2>1. operator.copy = driver
    BY <1>2, <1>5 DEF RecordInv, Views, Accepted, CheckDriverPods
  <2>2. driver.status.recorded[p] <= pods[p].version
    BY DEF RecordInv, Known
  <2>3. recorded[p] \in {driver.status.recorded[p], 0, pods[p].version}
    BY <1>1, <2>1 DEF Listing
  <2>4. /\ recorded[p] \in Nat /\ driver.status.recorded[p] \in Nat
        /\ pods[p].version \in Nat
    BY <2>3, RecordTypes
  <2>5. ASSUME recorded = Listing, recorded[p] # driver.status.recorded[p], recorded[p] # 0
        PROVE  NodeOf[p] \in NodesToFix /\ recorded[p] = pods[p].version
    BY <2>1, <2>5 DEF NodesToFix, Listing
  <2>6. ASSUME recorded = Listing, Announce(NodesToFix),
               recorded[p] # driver.status.recorded[p], recorded[p] # 0
        PROVE  announced'[p] = recorded[p]
    BY <2>5, <2>6 DEF Announce
  <2>7. announced'[p] \in Nat
    BY RecordTypes, AnnounceType DEF CheckDriverPods
  <2>8. recorded[p] # driver.status.recorded[p] /\ announced'[p] < recorded[p] =>
           condition \in {"CredentialError", "HealthCheckFailed"}
    BY <1>1, <2>4, <2>5, <2>6, <2>7
  <2> QED
    BY <2>2, <2>3, <2>4, <2>8
<1> QED
  BY <1>2, <1>3, <1>4, <1>5 DEF RecordInv, Weighed

\* Every step keeps the invariant.
LEMMA RecordStep == Shapes /\ RecordInv /\ [Next]_vars => RecordInv'
<1> SUFFICES ASSUME Shapes, RecordInv, [Next]_vars PROVE RecordInv'
  OBVIOUS
<1>1. /\ TypeOK /\ operator \in Operators
      /\ operator.copy.status \in Statuses
  BY DEF Shapes, TypeOK, Operators, Drivers
<1>2. Returned \in Operators /\ [Returned EXCEPT !.pc = "periodic"] \in Operators
  BY <1>1, ReturnedType DEF Operators
<1>3. CASE BeginReconcile
  <2> DEFINE begun == [operator EXCEPT !.copy = operator.cache,
                          !.old = IF "cache" \in @ THEN {"cache", "copy"} ELSE {}]
  <2>1. operator'.pc \in {"failed", "workload"} /\ operator'.copy = operator.cache
        /\ operator'.cache = operator.cache /\ operator'.old = begun.old
    BY <1>1, <1>3 DEF BeginReconcile, Failed, Operators
  <2>2. begun.old = IF "cache" \in operator.old THEN {"cache", "copy"} ELSE {}
    BY <1>1 DEF Operators
  <2> QED
    BY <1>3, <2>1, <2>2 DEF BeginReconcile, RecordInv, Known, Views, Weighed, Accepted
<1>4. CASE SetStatusInstallError
  <2> DEFINE status == [operator.copy.status EXCEPT !.install = "InstallFailed"]
  <2>1. status \in Statuses /\ status.recorded = operator.copy.status.recorded
    BY <1>1 DEF Statuses, Installs
  <2>2. Accepted => \A p \in Pods : status.recorded[p] <= pods[p].version
    BY <1>4, <2>1 DEF SetStatusInstallError, RecordInv, Known, Views
  <2> QED
    BY <1>1, <1>2, <1>4, <2>1, <2>2, ReturnedKeeps, UpdateStatusRecord DEF SetStatusInstallError
<1>5. CASE ApplyWorkload
  <2>1. /\ operator'.pc \in {"workload", "installing", "failed", "pods"}
        /\ operator'.copy = operator.copy /\ operator'.cache = operator.cache
        /\ operator'.old = operator.old
    BY <1>1, <1>5 DEF ApplyWorkload, Failed, Operators
  <2>2. \A p \in Pods : pods'[p].version = pods[p].version
    BY <1>1, <1>5 DEF ApplyWorkload, TypeOK
  <2> QED
    BY <1>5, <2>1, <2>2 DEF ApplyWorkload, RecordInv, Known, Views, Weighed, Accepted
<1>6. CASE SetInstalling
  <2> DEFINE status == [operator.copy.status EXCEPT !.install = "Installing"]
  <2>1. status \in Statuses /\ status.recorded = operator.copy.status.recorded
    BY <1>1 DEF Statuses, Installs
  <2>2. Accepted => \A p \in Pods : status.recorded[p] <= pods[p].version
    BY <1>6, <2>1 DEF SetInstalling, RecordInv, Known, Views
  <2> QED
    BY <1>1, <1>2, <1>6, <2>1, <2>2, ReturnedKeeps, UpdateStatusRecord DEF SetInstalling
<1>7. CASE SetDriverStatus
  <2>1. Accepted => \A p \in Pods : operator.copy.status.recorded[p] <= pods[p].version
    BY <1>7 DEF SetDriverStatus, RecordInv, Weighed
  <2> QED
    BY <1>1, <1>2, <1>7, <2>1, ReturnedKeeps, UpdateStatusRecord DEF SetDriverStatus
<1>8. CASE NoHealthCheckDue \/ RunPeriodicHealthCheck
  BY <1>1, <1>8, ReturnedKeeps
     DEF NoHealthCheckDue, RunPeriodicHealthCheck, RecordInv, Known, Views, Weighed
<1>9. CASE WatchEvent
  <2>1. /\ operator'.pc = operator.pc /\ operator'.copy = operator.copy
        /\ operator'.cache = driver /\ operator'.old = operator.old \ {"cache"}
    BY <1>1, <1>9 DEF WatchEvent, Operators
  <2> QED
    BY <1>9, <2>1 DEF WatchEvent, RecordInv, Known, Views, Weighed, Accepted
<1>10. CASE OperatorRestart
  BY <1>10 DEF OperatorRestart, Started, RecordInv, Known, Views, Weighed
<1>11. ASSUME NEW p \in Pods, StopPod(p) \/ StartPod(p) \/ PodReady(p) \/ LosePod(p)
       PROVE  RecordInv'
  <2>1. \A q \in Pods : pods'[q].version \in {pods[q].version, pods[q].version + 1}
    BY <1>1, <1>11 DEF TypeOK, StopPod, StartPod, PodReady, LosePod, Gone
  <2>2. UNCHANGED <<driver, operator, announced>>
    BY <1>11 DEF StopPod, StartPod, PodReady, LosePod
  <2> QED
    BY <1>1, <2>1, <2>2, RecordTypes DEF RecordInv, Known, Views, Weighed, Accepted
<1>12. CASE EditEnvironment
  <2>1. driver'.status = driver.status
    BY <1>1, <1>12 DEF EditEnvironment, TypeOK, Drivers
  <2>2. /\ operator'.pc = operator.pc /\ "cache" \in operator'.old
        /\ operator.pc \notin {"idle", "periodic"} => "copy" \in operator'.old
    BY <1>1, <1>12 DEF EditEnvironment, Operators
  <2> QED
    BY <1>12, <2>1, <2>2 DEF EditEnvironment, RecordInv, Known, Views, Weighed, Accepted
<1>13. CASE EditSecret
  BY <1>13 DEF EditSecret, RecordInv, Known, Views, Weighed, Accepted
<1>14. CASE UNCHANGED vars
  BY <1>14 DEF vars, RecordInv, Known, Views, Weighed, Accepted
<1> QED
  BY <1>1, <1>3, <1>4, <1>5, <1>6, <1>7, <1>8, <1>9, <1>10, <1>11, <1>12, <1>13, <1>14,
     CheckDriverPodsRecord DEF Next, OperatorStep

\* The record starts empty.
LEMMA RecordInit == Init => Shapes /\ RecordInv
  BY ShapesInit DEF Init, Fresh, Started, RecordInv, Known, Views, Weighed

\* Only an accepted status that was concluded from the pods changes the record.
LEMMA OnlyConcluded ==
    ASSUME TypeOK, RecordInv, [Next]_vars,
           driver'.status.recorded # driver.status.recorded
    PROVE  /\ operator.pc = "status" /\ Accepted
           /\ driver'.status = operator.copy.status
           /\ UNCHANGED announced
<1>1. operator \in Operators /\ operator.copy.status \in Statuses
  BY DEF TypeOK, Operators, Drivers
<1>2. driver' # driver
  OBVIOUS
<1>3. ASSUME NEW status, NEW then, UpdateStatus(status, then)
      PROVE  Accepted /\ driver'.status = status
  BY <1>2, <1>3 DEF UpdateStatus, TypeOK, Drivers
<1>4. CASE SetStatusInstallError
  <2>1. [operator.copy.status EXCEPT !.install = "InstallFailed"].recorded
           = operator.copy.status.recorded
    BY <1>1 DEF Statuses
  <2> QED
    BY <1>3, <1>4, <2>1 DEF SetStatusInstallError, RecordInv, Views
<1>5. CASE SetInstalling
  <2>1. [operator.copy.status EXCEPT !.install = "Installing"].recorded
           = operator.copy.status.recorded
    BY <1>1 DEF Statuses
  <2> QED
    BY <1>3, <1>5, <2>1 DEF SetInstalling, RecordInv, Views
<1>6. CASE SetDriverStatus
  BY <1>3, <1>6 DEF SetDriverStatus
<1>7. ~EditEnvironment
  BY DEF EditEnvironment, TypeOK, Drivers
<1> QED
  BY <1>2, <1>4, <1>5, <1>6, <1>7
     DEF Next, OperatorStep, BeginReconcile, ApplyWorkload, CheckDriverPods, NoHealthCheckDue,
         RunPeriodicHealthCheck, WatchEvent, OperatorRestart, StopPod, StartPod, PodReady,
         LosePod, EditSecret, vars

\* The reconciler works on a cached copy, and an update made from an old one
\* would forget pods; the version in the update prevents it.
THEOREM RecordIsMonotone == Spec => RecordedNeverGoesBack
<1>1. TypeOK /\ RecordInv /\ [Next]_vars =>
         [\A p \in Pods :
             \/ driver'.status.recorded[p] >= driver.status.recorded[p]
             \/ driver'.status.recorded[p] = 0]_vars
  <2> SUFFICES ASSUME TypeOK, RecordInv, [Next]_vars, NEW p \in Pods
               PROVE  \/ driver'.status.recorded[p] >= driver.status.recorded[p]
                      \/ driver'.status.recorded[p] = 0
    OBVIOUS
  <2>1. CASE driver'.status.recorded = driver.status.recorded
    BY <2>1, RecordTypes
  <2>2. CASE driver'.status.recorded # driver.status.recorded
    BY <2>2, OnlyConcluded DEF RecordInv, Weighed
  <2> QED
    BY <2>1, <2>2
<1>2. Shapes => TypeOK
  BY DEF Shapes
<1> QED
  BY <1>1, <1>2, RecordInit, RecordStep, ShapesStep, PTL DEF Spec, RecordedNeverGoesBack

\* A restarted pod whose node is not checked keeps broken mounts; the update
\* that makes the operator forget the restart says that no check was created.
THEOREM NoSilentLoss == Spec => LossesAreReported
<1>1. TypeOK /\ RecordInv /\ [Next]_vars =>
         [\A p \in Pods :
             /\ driver'.status.recorded[p] # driver.status.recorded[p]
             /\ announced[p] < driver'.status.recorded[p]
             => driver'.status.condition \in {"CredentialError", "HealthCheckFailed"}]_vars
  <2> SUFFICES ASSUME TypeOK, RecordInv, [Next]_vars, NEW p \in Pods,
                      driver'.status.recorded[p] # driver.status.recorded[p],
                      announced[p] < driver'.status.recorded[p]
               PROVE  driver'.status.condition \in {"CredentialError", "HealthCheckFailed"}
    OBVIOUS
  <2>1. driver'.status.recorded # driver.status.recorded
    OBVIOUS
  <2> QED
    BY <2>1, OnlyConcluded DEF RecordInv, Weighed
<1>2. Shapes => TypeOK
  BY DEF Shapes
<1> QED
  BY <1>1, <1>2, RecordInit, RecordStep, ShapesStep, PTL DEF Spec, LossesAreReported

================================================================================
