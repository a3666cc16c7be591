------------------------------ MODULE HealthCheck ------------------------------
(***************************************************************************)
(* The life of one MarketplaceDriverHealthCheck custom resource.           *)
(*                                                                         *)
(* The operator (or the dataset reconciler) creates it; the reconcile      *)
(* container of every node receives it from an informer and reports its    *)
(* answer with a get/update loop on the status (client.go,                 *)
(* UpdateHealthCheckStatus); the operator's health check reconciler reads  *)
(* it from its cache, computes a condition and writes the status back, and *)
(* deletes the resource when it is old enough.  All of them replace the    *)
(* whole status, guarded only by the resource version.                     *)
(***************************************************************************)
EXTENDS Naturals, FiniteSets

CONSTANTS
    Nodes,        \* nodes that run the reconcile daemon set
    Everyone,     \* "" in affectedNodes: every node
    Retries,      \* retry.DefaultRetry.Steps of client-go (5)
    PollTime,     \* 5 minutes, in ticks
    BackOffTime,  \* pollingBackOffTimeInMinutes, in ticks
    KeepTime,     \* keepTimeInMinutes, in ticks
    CreateBy,     \* bound: the check is created no later than this tick
    MaxClock,     \* bound on the clock
    MaxFaults,    \* bound on failed API calls
    MaxRestarts   \* bound on container and operator restarts

ASSUME HealthCheckAssumption ==
    /\ IsFiniteSet(Nodes)
    /\ Everyone \notin Nodes
    /\ Retries \in Nat \ {0}
    /\ {PollTime, BackOffTime, KeepTime, CreateBy, MaxClock} \subseteq Nat
    /\ {MaxFaults, MaxRestarts} \subseteq Nat

VARIABLES
    check,     \* the resource, as the API server stores it
    driver,    \* driver[n]: the reconcile container of node n
    operator,  \* the health check reconciler of the operator
    clock,     \* time, in ticks
    faults,    \* API calls that failed so far
    restarts   \* restarts so far

vars == <<check, driver, operator, clock, faults, restarts>>

--------------------------------------------------------------------------------
(* Data *)

Responses == {"NoAction", "NoEligiblePods", "Repaired", "Error"}
Reasons == {"RepairInProgress", "RepairComplete", "RepairFailed"}

\* status.driverHealthCheckStatus[n].  The driver writes its message under the
\* key "status"; the operator's type has a field "message" and no "status".
NoEntry == [response |-> "None", status |-> "None", message |-> ""]
Entries == [response : Responses \cup {"None"},
            status : {"None", "", "Complete", "failure"}, message : {""}]

\* Mutant: the node's message ends up where the response belongs.
DriverEntrySwapped(response) ==
    [response |-> "failure", status |-> response, message |-> ""]

DriverEntry(response) ==
    [response |-> response,
     status |-> CASE response = "Repaired" -> "Complete"
                  [] response = "Error" -> "failure"
                  [] OTHER -> "",
     message |-> ""]

\* A status that went through the operator's Go type: unknown keys are gone.
Typed(answers) == [n \in Nodes |-> [answers[n] EXCEPT !.status = "None"]]

NoCondition == [reason |-> "None", message |-> ""]
Conditions == [reason : Reasons \cup {"None"}, message : {""}]

Statuses == [answers : [Nodes -> Entries], condition : Conditions]
EmptyStatus == [answers |-> [n \in Nodes |-> NoEntry], condition |-> NoCondition]

\* What a client holds after a read: the status and the version it came with.
Copies == [version : Nat, status : Statuses]
NoCopy == [version |-> 0, status |-> EmptyStatus]

\* The health checks this code creates: checkDriverPods names the nodes whose
\* driver pods changed (an unscheduled pod has the empty name), the periodic
\* check names "" and the dataset reconciler names a dataset and no node.
Requests ==
    [affected : (SUBSET (Nodes \cup {Everyone})) \ {{}}, scoped : {FALSE}]
        \cup {[affected |-> {}, scoped |-> TRUE]}

Answered(answers) == {n \in Nodes : answers[n].response # "None"}

NoTimer == MaxClock + KeepTime + BackOffTime + PollTime + 1
Earlier(t, u) == IF t < u THEN t ELSE u

--------------------------------------------------------------------------------
(* Initial state *)

Init ==
    /\ check = [phase |-> "none", request |-> [affected |-> {}, scoped |-> TRUE],
                born |-> 0, version |-> 0, status |-> EmptyStatus]
    /\ driver = [n \in Nodes |-> [pc |-> "down", started |-> 0, seen |-> FALSE,
                                  reply |-> "NoAction", copy |-> NoCopy, tries |-> 0]]
    /\ operator = [pc |-> "idle", queued |-> FALSE, timer |-> NoTimer,
                   cache |-> NoCopy, copy |-> NoCopy]
    /\ clock = 0
    /\ faults = 0
    /\ restarts = 0

--------------------------------------------------------------------------------
(* The API server's side *)

Live == check.phase = "live"

\* A get or list of the resource.
Snapshot == [version |-> check.version, status |-> check.status]

\* UpdateStatus is accepted when the caller's copy has the stored version.
AcceptedBlindly(copy) == Live   \* mutant: no version in the update
Accepted(copy) == Live /\ copy.version = check.version

\* An accepted update that changes nothing keeps the version.
Replaced(status) ==
    IF status = check.status THEN check
    ELSE [check EXCEPT !.status = status, !.version = @ + 1]

Fault ==
    /\ faults < MaxFaults
    /\ faults' = faults + 1

\* createHealthCheckCR of the driver and of the dataset reconciler.
Create(request) ==
    /\ check.phase = "none"
    /\ clock <= CreateBy
    /\ check' = [check EXCEPT !.phase = "live", !.request = request,
                              !.born = clock, !.version = @ + 1]
    /\ UNCHANGED <<driver, operator, clock, faults, restarts>>

\* Removed with its owner, or by hand.
Withdraw ==
    /\ Live
    /\ check' = [check EXCEPT !.phase = "deleted"]
    /\ UNCHANGED <<driver, operator, clock, faults, restarts>>

Tick ==
    /\ clock < MaxClock
    /\ clock' = clock + 1
    /\ UNCHANGED <<check, driver, operator, faults, restarts>>

--------------------------------------------------------------------------------
(* The reconcile container of node n *)

\* NewReconcileContext and StartInformers: the start time is taken, then the
\* informer lists and watches.
Start(n) ==
    /\ driver[n].pc = "down"
    /\ driver' = [driver EXCEPT ![n] = [@ EXCEPT
           !.pc = "watching", !.started = clock, !.seen = FALSE]]
    /\ UNCHANGED <<check, operator, clock, faults, restarts>>

\* The container stops, whatever it was doing.
Stop(n) ==
    /\ driver[n].pc # "down"
    /\ restarts < MaxRestarts
    /\ restarts' = restarts + 1
    /\ driver' = [driver EXCEPT ![n] = [@ EXCEPT
           !.pc = "down", !.reply = "NoAction", !.copy = NoCopy, !.tries = 0]]
    /\ UNCHANGED <<check, operator, clock, faults>>

\* The check was created before this container started.
PredatesNever(n) == FALSE                                 \* mutant
PredatesOrEqual(n) == driver[n].started >= check.born     \* mutant
Predates(n) == driver[n].started > check.born

IsCheckNeededForThisNode(n) ==
    LET nodes == check.request.affected
    IN nodes = {} \/ n \in nodes \/ Everyone \in nodes

\* AddFunc -> processHealthCheck, once per informer life: updates are ignored.
ProcessHealthCheck(n) ==
    /\ driver[n].pc = "watching"
    /\ ~driver[n].seen
    /\ Live
    /\ \/ /\ Predates(n)
          /\ driver' = [driver EXCEPT ![n].seen = TRUE]
       \/ /\ ~Predates(n)
          /\ ~IsCheckNeededForThisNode(n)
          /\ driver' = [driver EXCEPT ![n] = [@ EXCEPT
                 !.seen = TRUE, !.pc = "get", !.reply = "NoAction"]]
       \/ /\ ~Predates(n)
          /\ IsCheckNeededForThisNode(n)
          /\ driver' = [driver EXCEPT ![n] = [@ EXCEPT !.seen = TRUE, !.pc = "repair"]]
    /\ UNCHANGED <<check, operator, clock, faults, restarts>>

\* processHealthCheckForDataset returns without an answer when it cannot get
\* the dataset.
DatasetMissing(n) ==
    /\ driver[n].pc = "repair"
    /\ check.request.scoped
    /\ driver' = [driver EXCEPT ![n].pc = "watching"]
    /\ UNCHANGED <<check, operator, clock, faults, restarts>>

\* processHealthCheckForDataset and processHealthCheckAll end with one answer.
Repair(n) ==
    /\ driver[n].pc = "repair"
    /\ \E response \in Responses \ {"NoAction"} :
          driver' = [driver EXCEPT ![n] = [@ EXCEPT !.pc = "get", !.reply = response]]
    /\ UNCHANGED <<check, operator, clock, faults, restarts>>

\* The handler returns to the informer and its locals are gone.
Return(n, tries) ==
    driver' = [driver EXCEPT ![n] = [@ EXCEPT
        !.pc = "watching", !.reply = "NoAction", !.copy = NoCopy, !.tries = tries]]

\* UpdateHealthCheckStatus, the Get of one attempt.  Any error but a conflict
\* ends the retry loop; it is only logged.
GetStatus(n) ==
    /\ driver[n].pc = "get"
    /\ \/ /\ Live
          /\ driver' = [driver EXCEPT ![n] = [@ EXCEPT !.pc = "put", !.copy = Snapshot]]
          /\ UNCHANGED faults
       \/ ~Live /\ Return(n, 0) /\ UNCHANGED faults
       \/ Fault /\ Return(n, 0)
    /\ UNCHANGED <<check, operator, clock, restarts>>

\* The status an attempt sends: the copy, with this node's entry replaced.
WithAnswer(n) ==
    [driver[n].copy.status EXCEPT !.answers[n] = DriverEntry(driver[n].reply)]

\* UpdateHealthCheckStatus, the UpdateStatus of one attempt, when it is
\* accepted.
PutStatus(n) ==
    /\ driver[n].pc = "put"
    /\ Accepted(driver[n].copy)
    /\ check' = Replaced(WithAnswer(n))
    /\ Return(n, 0)
    /\ UNCHANGED <<operator, clock, faults, restarts>>

\* Mutant: a conflict ends the loop like any other error.
PutStatusFailsAtOnce(n) ==
    /\ driver[n].pc = "put"
    /\ ~Accepted(driver[n].copy)
    /\ Return(n, IF Live THEN Retries ELSE 0)
    /\ UNCHANGED <<check, operator, clock, faults, restarts>>

\* The same call when it fails: RetryOnConflict tries again after a conflict,
\* up to Retries attempts.
PutStatusFails(n) ==
    /\ driver[n].pc = "put"
    /\ \/ /\ Live /\ ~Accepted(driver[n].copy)
          /\ IF driver[n].tries + 1 < Retries
             THEN driver' = [driver EXCEPT ![n] = [@ EXCEPT
                                  !.pc = "get", !.copy = NoCopy,
                                  !.tries = driver[n].tries + 1]]
             ELSE Return(n, Retries)
          /\ UNCHANGED faults
       \/ ~Live /\ Return(n, 0) /\ UNCHANGED faults
       \/ Fault /\ Return(n, 0)
    /\ UNCHANGED <<check, operator, clock, restarts>>

--------------------------------------------------------------------------------
(* The operator's reconciler: one worker, one key *)

\* An event of the watch updates the cache and enqueues the key.
WatchEvent ==
    LET current == IF Live THEN Snapshot ELSE NoCopy
    IN /\ operator.cache # current
       /\ operator' = [operator EXCEPT !.cache = current, !.queued = TRUE]
       /\ UNCHANGED <<check, driver, clock, faults, restarts>>

\* The informer's periodic resync enqueues every cached object.
Resync ==
    /\ operator.cache # NoCopy
    /\ ~operator.queued
    /\ operator' = [operator EXCEPT !.queued = TRUE]
    /\ UNCHANGED <<check, driver, clock, faults, restarts>>

\* A RequeueAfter is over: delays end strictly after the tick they end in.
TimerFires ==
    /\ clock > operator.timer
    /\ operator' = [operator EXCEPT !.timer = NoTimer, !.queued = TRUE]
    /\ UNCHANGED <<check, driver, clock, faults, restarts>>

ElapsedNone == 0   \* mutant: age is not taken from the creation time
Elapsed == clock - check.born

\* Mutant: a check with a final condition is not looked at again.
ReconcileUnfinished ==
    /\ operator.pc = "idle"
    /\ operator.queued
    /\ operator' = [operator EXCEPT
           !.queued = FALSE,
           !.copy = operator.cache,
           !.pc = IF operator.cache.status.condition.reason
                       \in {"RepairComplete", "RepairFailed"}
                     \/ operator.cache = NoCopy THEN "idle"
                  ELSE IF Elapsed > KeepTime THEN "delete" ELSE "update"]
    /\ UNCHANGED <<check, driver, clock, faults, restarts>>

\* Reconcile, up to the call that changes the resource.
Reconcile ==
    /\ operator.pc = "idle"
    /\ operator.queued
    /\ operator' = [operator EXCEPT
           !.queued = FALSE,
           !.copy = operator.cache,
           !.pc = IF operator.cache = NoCopy THEN "idle"
                  ELSE IF Elapsed > KeepTime THEN "delete" ELSE "update"]
    /\ UNCHANGED <<check, driver, clock, faults, restarts>>

\* A failed delete is returned as an error, which requeues the key.
DeleteExpired ==
    /\ operator.pc = "delete"
    /\ \/ /\ Live
          /\ check' = [check EXCEPT !.phase = "deleted"]
          /\ operator' = [operator EXCEPT !.pc = "idle", !.copy = NoCopy]
          /\ UNCHANGED faults
       \/ /\ \/ ~Live /\ UNCHANGED faults
             \/ Fault
          /\ operator' = [operator EXCEPT !.pc = "idle", !.copy = NoCopy, !.queued = TRUE]
          /\ UNCHANGED check
    /\ UNCHANGED <<driver, clock, restarts>>

\* updateHealthCheckCondition: the condition and the delay of the next round.
InProgressOffByOne(answers) ==   \* mutant
    Cardinality(check.request.affected) > Cardinality(Answered(answers)) + 1

InProgress(answers) ==
    Cardinality(check.request.affected) > Cardinality(Answered(answers))

UpdateConditionUncounted(answers) ==   \* mutant: errors are not looked for
    [reason |-> IF InProgress(answers) THEN "RepairInProgress" ELSE "RepairComplete",
     message |-> ""]

UpdateHealthCheckCondition(answers) ==
    [reason |-> IF InProgress(answers) THEN "RepairInProgress"
                ELSE IF \E n \in Nodes : answers[n].response = "Error"
                     THEN "RepairFailed" ELSE "RepairComplete",
     \* the message of a failed node; other messages are fixed texts
     message |-> IF \E n \in Nodes : answers[n].response = "Error"
                 THEN (CHOOSE e \in {answers[n] : n \in Nodes} :
                         e.response = "Error").message
                 ELSE ""]

RequeueAfter(answers) ==
    IF ~InProgress(answers) THEN KeepTime
    ELSE IF Elapsed > BackOffTime THEN BackOffTime ELSE PollTime

\* Status().Update with the condition computed on the copy.
UpdateCondition ==
    LET answers == operator.copy.status.answers
    IN /\ operator.pc = "update"
       /\ Accepted(operator.copy)
       /\ check' = Replaced([answers |-> Typed(answers),
                             condition |-> UpdateHealthCheckCondition(answers)])
       /\ operator' = [operator EXCEPT !.pc = "idle", !.copy = NoCopy,
              !.timer = Earlier(operator.timer, clock + RequeueAfter(answers))]
       /\ UNCHANGED <<driver, clock, faults, restarts>>

\* When it fails, Reconcile returns the error of the earlier read, which is
\* nil: nothing is requeued and no delay is set.
UpdateConditionFails ==
    /\ operator.pc = "update"
    /\ \/ ~Accepted(operator.copy) /\ UNCHANGED faults
       \/ Fault
    /\ operator' = [operator EXCEPT !.pc = "idle", !.copy = NoCopy]
    /\ UNCHANGED <<check, driver, clock, restarts>>

\* The operator process restarts: queue, delays and cache are gone.
OperatorRestart ==
    /\ restarts < MaxRestarts
    /\ restarts' = restarts + 1
    /\ operator' = [pc |-> "idle", queued |-> FALSE, timer |-> NoTimer,
                    cache |-> NoCopy, copy |-> NoCopy]
    /\ UNCHANGED <<check, driver, clock, faults>>

--------------------------------------------------------------------------------
DriverStep(n) ==
    \/ ProcessHealthCheck(n)
    \/ DatasetMissing(n)
    \/ Repair(n)
    \/ GetStatus(n)
    \/ PutStatus(n)
    \/ PutStatusFails(n)

OperatorStep ==
    \/ Reconcile
    \/ DeleteExpired
    \/ UpdateCondition
    \/ UpdateConditionFails

\* There is no resource: never created, or gone.
Terminated ==
    /\ check.phase # "live"
    /\ UNCHANGED vars

Next ==
    \/ \E request \in Requests : Create(request)
    \/ Withdraw
    \/ Tick
    \/ \E n \in Nodes : Start(n) \/ Stop(n) \/ DriverStep(n)
    \/ WatchEvent
    \/ Resync
    \/ TimerFires
    \/ OperatorStep
    \/ OperatorRestart
    \/ Terminated

Spec == Init /\ [][Next]_vars

\* Containers are restarted by the kubelet, informers and workers keep
\* running, API calls return.
Fairness ==
    /\ \A n \in Nodes : WF_vars(Start(n)) /\ WF_vars(DriverStep(n))
    /\ WF_vars(WatchEvent)
    /\ WF_vars(Resync)
    /\ WF_vars(TimerFires)
    /\ WF_vars(OperatorStep)

\* Nothing is said about the passing of time, so a check may live forever.
FairSpec == Spec /\ Fairness

--------------------------------------------------------------------------------
(* Properties *)

Specs == [affected : SUBSET (Nodes \cup {Everyone}), scoped : BOOLEAN]
Checks == [phase : {"none", "live", "deleted"},
           request : Specs,
           born : Nat, version : Nat, status : Statuses]
Drivers == [pc : {"down", "watching", "repair", "get", "put"}, started : Nat,
            seen : BOOLEAN, reply : Responses, copy : Copies, tries : Nat]
Operators == [pc : {"idle", "delete", "update"}, queued : BOOLEAN, timer : Nat,
              cache : Copies, copy : Copies]

\* Every variable keeps the shape the code's types give it.
TypeOK ==
    /\ check \in Checks
    /\ driver \in [Nodes -> Drivers]
    /\ operator \in Operators
    /\ clock \in Nat /\ faults \in Nat /\ restarts \in Nat

\* The get/update loops of the nodes and of the operator, each replacing the
\* whole status, amount to atomic posts and atomic judgements of one board.
Board == INSTANCE CheckBoard WITH
    phase <- check.phase,
    affected <- check.request.affected,
    board <- [n \in Nodes |-> check.status.answers[n].response],
    verdict <- check.status.condition.reason

ImplementsBoard == Board!Spec

\* A copy is never ahead of the stored resource, and one that has the stored
\* version has the stored status: what makes the version test of an update
\* equivalent to an atomic read and write.
Honest(copy) ==
    /\ copy.version <= check.version
    /\ copy.version = check.version => copy.status = check.status

CopiesAreHonest ==
    /\ \A n \in Nodes : Honest(driver[n].copy)
    /\ Honest(operator.copy)
    /\ Honest(operator.cache)

\* Nobody's write loses an answer that another actor has stored: an answer
\* only changes by a write of its own node.
AnswersSurvive ==
    [][\A n \in Nodes :
          check'.status.answers[n].response # check.status.answers[n].response
             => driver[n].pc = "put" /\ driver'[n].pc = "watching"]_vars

\* The condition leaves RepairInProgress only when as many nodes have
\* answered as are addressed, and it stays true of the stored answers.
VerdictCountsAnswers ==
    check.status.condition.reason \in {"RepairComplete", "RepairFailed"}
        => Cardinality(Answered(check.status.answers))
              >= Cardinality(check.request.affected)

\* A finished verdict may turn from complete to failed or back when late
\* nodes answer, but the check is never reopened.
VerdictIsFinal ==
    [][check.status.condition.reason \in {"RepairComplete", "RepairFailed"}
          => check'.status.condition.reason \in {"RepairComplete", "RepairFailed"}]_vars

\* Whoever works on an answer was running when the check was created.
AnsweringDrivers ==
    \A n \in Nodes : driver[n].pc \in {"repair", "get", "put"}
        => check.phase # "none" /\ driver[n].started <= check.born

\* A container that starts later than the second in which the check was
\* created never answers it: the informer hands it every old resource again.
NoAnswerAfterRestart ==
    [][\A n \in Nodes :
          check'.status.answers[n].response # check.status.answers[n].response
             => driver[n].started <= check.born]_vars

\* No node runs out of attempts because of conflicting writers.
RetriesSuffice == \A n \in Nodes : driver[n].tries < Retries

\* The stored condition is the judgement of the stored answers.
VerdictIsCurrent ==
    check.status.condition.reason =
        Board!Judgement(check.request.affected,
                        [n \in Nodes |-> check.status.answers[n].response])

\* Once answers stop coming the condition agrees with them for good (unless
\* the check is removed), although a failed status write is not requeued.
VerdictSettles == <>[](Live => VerdictIsCurrent)

\* If time passes every check is removed in the end: by its owner or when it
\* is too old, whatever was lost on the way.
CheckExpires == WF_vars(Tick) => (Live ~> check.phase = "deleted")

\* A check of all datasets is answered by every node whose container was
\* running when it was created.
EveryNodeAnswers ==
    (Live /\ ~check.request.scoped) ~>
        (Live => \A n \in Nodes :
                    \/ n \in Answered(check.status.answers)
                    \/ driver[n].started > check.born)

\* The condition's message, "Repair completed in all nodes", is true of the
\* nodes the check is for.
CompleteMeansRepaired ==
    check.status.condition.reason = "RepairComplete"
        => \A n \in Nodes : IsCheckNeededForThisNode(n)
                                => n \in Answered(check.status.answers)
================================================================================
