--------------------------- MODULE HealthCheckProofs ---------------------------
(***************************************************************************)
(* Theorems about HealthCheck, for every set of nodes and every bound.     *)
(*                                                                         *)
(* All of them rest on one inductive invariant, CopiesAreHonest: a         *)
(* client's copy that has the stored version also has the stored status.   *)
(* It turns the version test of an accepted update into an atomic read and *)
(* write.                                                                  *)
(***************************************************************************)
EXTENDS HealthCheck, Integers, FiniteSetTheorems, TLAPS

\* What the assumption says of each constant.
LEMMA ConstantsType ==
    /\ IsFiniteSet(Nodes)
    /\ Retries \in Nat /\ KeepTime \in Nat /\ NoTimer \in Nat
    /\ BackOffTime \in Nat /\ PollTime \in Nat
  BY HealthCheckAssumption DEF HealthCheckAssumption, NoTimer

\* An answer is an entry, and a typed status keeps every response.
LEMMA EntryType ==
    ASSUME NEW response \in Responses
    PROVE  DriverEntry(response) \in Entries /\ DriverEntry(response).response = response
  BY DEF DriverEntry, Responses, Entries

\* Passing answers through the operator's Go type keeps every response.
LEMMA TypedType ==
    ASSUME NEW answers \in [Nodes -> Entries]
    PROVE  /\ Typed(answers) \in [Nodes -> Entries]
           /\ \A n \in Nodes : Typed(answers)[n].response = answers[n].response
  BY DEF Typed, Entries

\* The computed condition has a reason, and never a message.
LEMMA ConditionType ==
    ASSUME NEW answers \in [Nodes -> Entries]
    PROVE  UpdateHealthCheckCondition(answers)
              \in [reason : Reasons, message : {""}]
  <1> DEFINE failed == \E n \in Nodes : answers[n].response = "Error"
             e == CHOOSE x \in {answers[n] : n \in Nodes} : x.response = "Error"
  <1>1. failed => e \in {answers[n] : n \in Nodes}
    OBVIOUS
  <1>2. failed => e.message = ""
    BY <1>1 DEF Entries
  <1>3. UpdateHealthCheckCondition(answers).message = IF failed THEN e.message ELSE ""
    BY DEF UpdateHealthCheckCondition
  <1> QED
    BY <1>2, <1>3 DEF UpdateHealthCheckCondition, Reasons

\* The empty status and the empty copy are well-formed.
LEMMA EmptyStatusType == EmptyStatus \in Statuses /\ NoCopy \in Copies
  BY DEF EmptyStatus, Statuses, NoEntry, Entries, NoCondition, Conditions, NoCopy, Copies

\* Every request the code makes has the shape of the resource's spec.
LEMMA RequestType ==
    ASSUME NEW request \in Requests
    PROVE  request \in Specs
  <1>1. {} \in SUBSET (Nodes \cup {Everyone})
    OBVIOUS
  <1>2. [affected |-> {}, scoped |-> TRUE] \in Specs
    BY <1>1 DEF Specs
  <1>3. CASE request \in [affected : (SUBSET (Nodes \cup {Everyone})) \ {{}}, scoped : {FALSE}]
    BY <1>3 DEF Specs
  <1> QED
    BY <1>2, <1>3 DEF Requests

\* So has the one that stands for "no request yet".
LEMMA NoRequestType == [affected |-> {}, scoped |-> TRUE] \in Specs
  BY RequestType DEF Requests

\* What an accepted update leaves in the API server.
LEMMA ReplacedType ==
    ASSUME check \in Checks, NEW status \in Statuses
    PROVE  Replaced(status) \in Checks
  <1>1. check.version + 1 \in Nat
    BY DEF Checks
  <1>2. [check EXCEPT !.status = status, !.version = check.version + 1] \in Checks
    BY <1>1 DEF Checks
  <1> QED
    BY <1>2 DEF Replaced

\* The statuses that the two writers send.
LEMMA WithAnswerType ==
    ASSUME driver \in [Nodes -> Drivers], NEW n \in Nodes
    PROVE  WithAnswer(n) \in Statuses
  <1>1. driver[n].reply \in Responses /\ driver[n].copy.status \in Statuses
    BY DEF Drivers, Copies
  <1> QED
    BY <1>1, EntryType DEF WithAnswer, Statuses

\* What the operator writes is a status.
LEMMA JudgedType ==
    ASSUME NEW answers \in [Nodes -> Entries]
    PROVE  [answers |-> Typed(answers),
            condition |-> UpdateHealthCheckCondition(answers)] \in Statuses
  BY TypedType, ConditionType DEF Statuses, Conditions

\* A handler that returns leaves a well-formed driver.
LEMMA ReturnType ==
    ASSUME driver \in [Nodes -> Drivers], NEW n \in Nodes, NEW tries \in Nat, Return(n, tries)
    PROVE  driver' \in [Nodes -> Drivers]
  BY EmptyStatusType DEF Return, Drivers, Responses

--------------------------------------------------------------------------------
(* Type correctness *)

\* The variables of the model always have their types.
THEOREM TypeCorrect == Spec => []TypeOK
<1>1. Init => TypeOK
  <2> SUFFICES ASSUME Init PROVE TypeOK
    OBVIOUS
  <2>1. check \in Checks
    BY EmptyStatusType, NoRequestType DEF Init, Checks
  <2>2. driver \in [Nodes -> Drivers]
    BY EmptyStatusType DEF Init, Drivers, Responses
  <2>3. operator \in Operators
    BY EmptyStatusType, ConstantsType DEF Init, Operators
  <2> QED
    BY <2>1, <2>2, <2>3 DEF Init, TypeOK
<1>2. TypeOK /\ [Next]_vars => TypeOK'
  <2> SUFFICES ASSUME TypeOK, [Next]_vars PROVE TypeOK'
    OBVIOUS
  <2> USE EmptyStatusType
  <2>1. ASSUME NEW request \in Requests, Create(request) PROVE TypeOK'
    <3>1. check.version + 1 \in Nat
      BY DEF TypeOK, Checks
    <3>2. [check EXCEPT !.phase = "live", !.request = request, !.born = clock,
                        !.version = check.version + 1] \in Checks
      BY <3>1, RequestType DEF TypeOK, Checks
    <3> QED
      BY <2>1, <3>2 DEF TypeOK, Create
  <2>2. CASE Withdraw
    BY <2>2 DEF TypeOK, Withdraw, Checks
  <2>3. CASE Tick
    BY <2>3 DEF TypeOK, Tick
  <2>4. ASSUME NEW n \in Nodes, Start(n) PROVE TypeOK'
    BY <2>4 DEF TypeOK, Start, Drivers
  <2>5. ASSUME NEW n \in Nodes, Stop(n) PROVE TypeOK'
    <3>1. driver' \in [Nodes -> Drivers]
      BY <2>5 DEF TypeOK, Stop, Drivers, Responses
    <3> QED
      BY <2>5, <3>1 DEF TypeOK, Stop
  <2>6. ASSUME NEW n \in Nodes, ProcessHealthCheck(n) PROVE TypeOK'
    <3>1. [driver EXCEPT ![n].seen = TRUE] \in [Nodes -> Drivers]
      BY DEF TypeOK, Drivers
    <3>2. [driver EXCEPT ![n] = [@ EXCEPT !.seen = TRUE, !.pc = "get",
                                          !.reply = "NoAction"]] \in [Nodes -> Drivers]
      BY DEF TypeOK, Drivers, Responses
    <3>3. [driver EXCEPT ![n] = [@ EXCEPT !.seen = TRUE, !.pc = "repair"]]
             \in [Nodes -> Drivers]
      BY DEF TypeOK, Drivers
    <3> QED
      BY <2>6, <3>1, <3>2, <3>3 DEF TypeOK, ProcessHealthCheck
  <2>7. ASSUME NEW n \in Nodes, DatasetMissing(n) PROVE TypeOK'
    BY <2>7 DEF TypeOK, DatasetMissing, Drivers
  <2>8. ASSUME NEW n \in Nodes, Repair(n) PROVE TypeOK'
    <3>1. PICK response \in Responses :
            driver' = [driver EXCEPT ![n] = [@ EXCEPT !.pc = "get", !.reply = response]]
      BY <2>8 DEF Repair
    <3>2. [driver[n] EXCEPT !.pc = "get", !.reply = response] \in Drivers
      BY DEF TypeOK, Drivers
    <3>3. driver' \in [Nodes -> Drivers]
      BY <3>1, <3>2 DEF TypeOK
    <3> QED
      BY <2>8, <3>3 DEF TypeOK, Repair
  <2>9. ASSUME NEW n \in Nodes, GetStatus(n) PROVE TypeOK'
    <3>1. Snapshot \in Copies
      BY DEF TypeOK, Checks, Snapshot, Copies
    <3>2. [driver EXCEPT ![n] = [@ EXCEPT !.pc = "put", !.copy = Snapshot]]
             \in [Nodes -> Drivers]
      BY <3>1 DEF TypeOK, Drivers
    <3>3. driver' \in [Nodes -> Drivers]
      BY <2>9, <3>2, ReturnType DEF TypeOK, GetStatus
    <3>4. faults' \in Nat
      BY <2>9 DEF TypeOK, GetStatus, Fault
    <3> QED
      BY <2>9, <3>3, <3>4 DEF TypeOK, GetStatus
  <2>10. ASSUME NEW n \in Nodes, PutStatus(n) PROVE TypeOK'
    <3>1. WithAnswer(n) \in Statuses
      BY WithAnswerType DEF TypeOK
    <3>2. check' \in Checks
      BY <2>10, <3>1, ReplacedType DEF TypeOK, PutStatus
    <3>3. driver' \in [Nodes -> Drivers]
      BY <2>10, ReturnType DEF TypeOK, PutStatus
    <3> QED
      BY <2>10, <3>2, <3>3 DEF TypeOK, PutStatus
  <2>11. ASSUME NEW n \in Nodes, PutStatusFails(n) PROVE TypeOK'
    <3>1. [driver EXCEPT ![n] = [@ EXCEPT !.pc = "get", !.copy = NoCopy,
                                          !.tries = driver[n].tries + 1]]
             \in [Nodes -> Drivers]
      <4>1. driver[n] \in Drivers /\ driver[n].tries + 1 \in Nat
        BY DEF TypeOK, Drivers
      <4>2. [driver[n] EXCEPT !.pc = "get", !.copy = NoCopy,
                              !.tries = driver[n].tries + 1] \in Drivers
        BY <4>1 DEF Drivers
      <4> QED
        BY <4>2 DEF TypeOK
    <3>2. driver' \in [Nodes -> Drivers]
      BY <2>11, <3>1, ReturnType, ConstantsType DEF TypeOK, PutStatusFails
    <3>3. faults' \in Nat
      BY <2>11 DEF TypeOK, PutStatusFails, Fault
    <3> QED
      BY <2>11, <3>2, <3>3 DEF TypeOK, PutStatusFails
  <2>12. CASE WatchEvent
    BY <2>12 DEF TypeOK, WatchEvent, Snapshot, Operators, Copies, Checks
  <2>13. CASE Resync
    BY <2>13 DEF TypeOK, Resync, Operators
  <2>14. CASE TimerFires
    BY <2>14, ConstantsType DEF TypeOK, TimerFires, Operators
  <2>15. CASE Reconcile
    BY <2>15 DEF TypeOK, Reconcile, Operators
  <2>16. CASE DeleteExpired
    <3>1. operator' \in Operators
      BY <2>16 DEF TypeOK, DeleteExpired, Operators
    <3>2. check' \in Checks
      BY <2>16 DEF TypeOK, DeleteExpired, Checks
    <3>3. faults' \in Nat
      BY <2>16 DEF TypeOK, DeleteExpired, Fault
    <3> QED
      BY <2>16, <3>1, <3>2, <3>3 DEF TypeOK, DeleteExpired
  <2>17. CASE UpdateCondition
    <3> DEFINE answers == operator.copy.status.answers
               status == [answers |-> Typed(answers),
                          condition |-> UpdateHealthCheckCondition(answers)]
    <3>1. answers \in [Nodes -> Entries]
      BY DEF TypeOK, Operators, Copies, Statuses
    <3>2. status \in Statuses
      BY <3>1, JudgedType
    <3>3. check' = Replaced(status)
      BY <2>17 DEF UpdateCondition
    <3>4. check' \in Checks
      BY <3>2, <3>3, ReplacedType DEF TypeOK
    <3>5. operator' \in Operators
      <4>1. clock + RequeueAfter(answers) \in Nat
        BY ConstantsType DEF TypeOK, RequeueAfter
      <4>2. Earlier(operator.timer, clock + RequeueAfter(answers)) \in Nat
        BY <4>1 DEF TypeOK, Operators, Earlier
      <4> QED
        BY <2>17, <4>2 DEF TypeOK, UpdateCondition, Operators
    <3> QED
      BY <2>17, <3>4, <3>5 DEF TypeOK, UpdateCondition
  <2>18. CASE UpdateConditionFails
    <3>1. operator' \in Operators
      BY <2>18 DEF TypeOK, UpdateConditionFails, Operators
    <3>2. faults' \in Nat
      BY <2>18 DEF TypeOK, UpdateConditionFails, Fault
    <3> QED
      BY <2>18, <3>1, <3>2 DEF TypeOK, UpdateConditionFails
  <2>19. CASE OperatorRestart
    BY <2>19, ConstantsType DEF TypeOK, OperatorRestart, Operators
  <2>20. CASE UNCHANGED vars
    BY <2>20 DEF TypeOK, vars
  <2> QED
    BY <2>1, <2>2, <2>3, <2>4, <2>5, <2>6, <2>7, <2>8, <2>9, <2>10, <2>11, <2>12, <2>13,
       <2>14, <2>15, <2>16, <2>17, <2>18, <2>19, <2>20
       DEF Next, DriverStep, OperatorStep, Terminated
<1> QED
  BY <1>1, <1>2, PTL DEF Spec

--------------------------------------------------------------------------------
(* Copies are honest *)

\* The shape of every step: the stored version moves with the stored status,
\* and a copy is kept, dropped, or taken from the stored resource.
StepShape ==
    /\ \/ check'.version = check.version /\ check'.status = check.status
       \/ check'.version = check.version + 1
    /\ \A n \in Nodes :
          \/ driver'[n].copy \in {driver[n].copy, NoCopy}
          \/ driver'[n].copy = Snapshot /\ check' = check
    /\ operator'.copy \in {operator.copy, operator.cache, NoCopy}
    /\ \/ operator'.cache \in {operator.cache, NoCopy}
       \/ operator'.cache = Snapshot /\ check' = check

\* An accepted update either changes nothing or makes a new version.
LEMMA ReplacedShape ==
    ASSUME check \in Checks, NEW status \in Statuses, check' = Replaced(status)
    PROVE  \/ check'.version = check.version /\ check'.status = check.status
           \/ check'.version = check.version + 1
  BY DEF Replaced, Checks

\* Every step of the system has that shape.
LEMMA EveryStepHasTheShape ==
    ASSUME TypeOK, [Next]_vars
    PROVE  StepShape
<1> USE DEF StepShape
<1>1. ASSUME NEW request \in Requests, Create(request) PROVE StepShape
  BY <1>1 DEF TypeOK, Create, Checks
<1>2. CASE Withdraw
  BY <1>2 DEF TypeOK, Withdraw, Checks
<1>3. CASE Tick
  BY <1>3 DEF Tick
<1>4. ASSUME NEW n \in Nodes, Start(n) PROVE StepShape
  BY <1>4 DEF TypeOK, Start, Drivers
<1>5. ASSUME NEW n \in Nodes, Stop(n) PROVE StepShape
  BY <1>5 DEF TypeOK, Stop, Drivers
<1>6. ASSUME NEW n \in Nodes, ProcessHealthCheck(n) PROVE StepShape
  <2>1. check' = check /\ operator' = operator
    BY <1>6 DEF ProcessHealthCheck
  <2>2. \A m \in Nodes : driver'[m].copy = driver[m].copy
    <3>1. \/ driver' = [driver EXCEPT ![n].seen = TRUE]
          \/ driver' = [driver EXCEPT ![n] = [@ EXCEPT
                           !.seen = TRUE, !.pc = "get", !.reply = "NoAction"]]
          \/ driver' = [driver EXCEPT ![n] = [@ EXCEPT !.seen = TRUE, !.pc = "repair"]]
      BY <1>6 DEF ProcessHealthCheck
    <3>2. CASE driver' = [driver EXCEPT ![n].seen = TRUE]
      BY <3>2 DEF TypeOK, Drivers
    <3>3. CASE driver' = [driver EXCEPT ![n] = [@ EXCEPT
                           !.seen = TRUE, !.pc = "get", !.reply = "NoAction"]]
      BY <3>3 DEF TypeOK, Drivers
    <3>4. CASE driver' = [driver EXCEPT ![n] = [@ EXCEPT !.seen = TRUE, !.pc = "repair"]]
      BY <3>4 DEF TypeOK, Drivers
    <3> QED
      BY <3>1, <3>2, <3>3, <3>4
  <2> QED
    BY <2>1, <2>2
<1>7. ASSUME NEW n \in Nodes, DatasetMissing(n) PROVE StepShape
  BY <1>7 DEF TypeOK, DatasetMissing, Drivers
<1>8. ASSUME NEW n \in Nodes, Repair(n) PROVE StepShape
  BY <1>8 DEF TypeOK, Repair, Drivers
<1>9. ASSUME NEW n \in Nodes, GetStatus(n) PROVE StepShape
  BY <1>9 DEF TypeOK, GetStatus, Return, Drivers
<1>10. ASSUME NEW n \in Nodes, PutStatus(n) PROVE StepShape
  <2>1. check' = Replaced(WithAnswer(n))
    BY <1>10 DEF PutStatus
  <2>2. WithAnswer(n) \in Statuses
    BY WithAnswerType DEF TypeOK
  <2>3. \A m \in Nodes : driver'[m].copy \in {driver[m].copy, NoCopy}
    BY <1>10 DEF TypeOK, PutStatus, Return, Drivers
  <2> QED
    BY <1>10, <2>1, <2>2, <2>3, ReplacedShape DEF TypeOK, PutStatus
<1>11. ASSUME NEW n \in Nodes, PutStatusFails(n) PROVE StepShape
  BY <1>11 DEF TypeOK, PutStatusFails, Return, Drivers
<1>12. CASE WatchEvent
  BY <1>12 DEF TypeOK, WatchEvent, Operators
<1>13. CASE Resync
  BY <1>13 DEF TypeOK, Resync, Operators
<1>14. CASE TimerFires
  BY <1>14 DEF TypeOK, TimerFires, Operators
<1>15. CASE Reconcile
  BY <1>15 DEF TypeOK, Reconcile, Operators
<1>16. CASE DeleteExpired
  BY <1>16 DEF TypeOK, DeleteExpired, Operators, Checks
<1>17. CASE UpdateCondition
  <2>1. PICK status \in Statuses : check' = Replaced(status)
    BY <1>17, JudgedType DEF TypeOK, UpdateCondition, Operators, Copies, Statuses
  <2> QED
    BY <1>17, <2>1, ReplacedShape DEF TypeOK, UpdateCondition, Operators
<1>18. CASE UpdateConditionFails
  BY <1>18 DEF TypeOK, UpdateConditionFails, Operators
<1>19. CASE OperatorRestart
  BY <1>19 DEF TypeOK, OperatorRestart, Operators
<1>20. CASE UNCHANGED vars
  BY <1>20 DEF vars
<1> QED
  BY <1>1, <1>2, <1>3, <1>4, <1>5, <1>6, <1>7, <1>8, <1>9, <1>10, <1>11, <1>12, <1>13,
     <1>14, <1>15, <1>16, <1>17, <1>18, <1>19, <1>20
     DEF Next, DriverStep, OperatorStep, Terminated

\* A client never holds a wrong picture of a version that is still stored.
THEOREM HonestCopies == Spec => []CopiesAreHonest
<1> DEFINE IInv == TypeOK /\ CopiesAreHonest /\ Honest(NoCopy)
<1>1. Init => CopiesAreHonest /\ Honest(NoCopy)
  BY DEF Init, CopiesAreHonest, Honest, NoCopy
<1>2. TypeOK /\ TypeOK' /\ CopiesAreHonest /\ Honest(NoCopy) /\ [Next]_vars
         => CopiesAreHonest' /\ Honest(NoCopy)'
  <2> SUFFICES ASSUME TypeOK, TypeOK', CopiesAreHonest, Honest(NoCopy), [Next]_vars
               PROVE  CopiesAreHonest' /\ Honest(NoCopy)'
    OBVIOUS
  <2>1. StepShape
    BY EveryStepHasTheShape
  <2>2. ASSUME NEW copy \in Copies, Honest(copy)
        PROVE  /\ copy.version <= check'.version
               /\ copy.version = check'.version => copy.status = check'.status
    BY <2>1, <2>2 DEF StepShape, TypeOK, Checks, Copies, Honest
  <2>3. ASSUME check' = check
        PROVE  /\ Snapshot.version <= check'.version
               /\ Snapshot.version = check'.version => Snapshot.status = check'.status
    BY <2>3 DEF Snapshot, TypeOK, Checks
  <2>4. ASSUME NEW n \in Nodes PROVE Honest(driver[n].copy)'
    <3>1. driver[n].copy \in Copies /\ NoCopy \in Copies
      BY EmptyStatusType DEF TypeOK, Drivers
    <3> QED
      BY <2>1, <2>2, <2>3, <3>1 DEF StepShape, Honest, CopiesAreHonest
  <2>5. operator.copy \in Copies /\ operator.cache \in Copies /\ NoCopy \in Copies
    BY EmptyStatusType DEF TypeOK, Operators
  <2>6. Honest(operator.copy)' /\ Honest(operator.cache)'
    BY <2>1, <2>2, <2>3, <2>5 DEF StepShape, Honest, CopiesAreHonest
  <2>7. Honest(NoCopy)'
    BY <2>2, <2>5 DEF Honest
  <2> QED
    BY <2>4, <2>6, <2>7 DEF CopiesAreHonest
<1> QED
  BY <1>1, <1>2, TypeCorrect, PTL DEF Spec

--------------------------------------------------------------------------------
(* Answers *)

Stored(n) == check.status.answers[n].response

\* An accepted update stores the status it sends.
LEMMA ReplacedStatus ==
    ASSUME check \in Checks, NEW status \in Statuses, check' = Replaced(status)
    PROVE  check'.status = status
  BY DEF Replaced, Checks

\* An accepted copy is the stored status.
LEMMA AcceptedIsCurrent ==
    ASSUME NEW copy \in Copies, Honest(copy), Accepted(copy)
    PROVE  copy.status = check.status
  BY DEF Honest, Accepted

\* Creation sets the request and the creation time of an unused resource.
LEMMA CreateStores ==
    ASSUME TypeOK, NEW request \in Requests, Create(request)
    PROVE  /\ check.phase = "none" /\ check'.phase = "live"
           /\ check'.request = request /\ check'.born = clock
           /\ check'.status = check.status
  BY DEF TypeOK, Create, Checks

\* A status update leaves the rest of the resource alone.
LEMMA ReplacedFrame ==
    ASSUME check \in Checks, NEW status \in Statuses, check' = Replaced(status)
    PROVE  /\ check'.phase = check.phase
           /\ check'.request = check.request
           /\ check'.born = check.born
  BY DEF Replaced, Checks

\* What the two writers store, and that nobody else touches the status.
LEMMA PutStores ==
    ASSUME TypeOK, CopiesAreHonest, NEW n \in Nodes, PutStatus(n)
    PROVE  /\ check'.status.answers =
                [check.status.answers EXCEPT ![n] = DriverEntry(driver[n].reply)]
           /\ check'.status.condition = check.status.condition
           /\ driver[n].reply \in Responses
           /\ Live /\ check'.phase = check.phase
           /\ check'.request = check.request /\ check'.born = check.born
<1>1. driver[n].copy \in Copies /\ driver[n].reply \in Responses
  BY DEF TypeOK, Drivers
<1>2. driver[n].copy.status = check.status
  BY <1>1, AcceptedIsCurrent DEF CopiesAreHonest, PutStatus
<1>3. check' = Replaced(WithAnswer(n)) /\ WithAnswer(n) \in Statuses
  BY WithAnswerType DEF TypeOK, PutStatus
<1>4. check'.status = [check.status EXCEPT !.answers[n] = DriverEntry(driver[n].reply)]
  BY <1>2, <1>3, ReplacedStatus DEF TypeOK, WithAnswer
<1>5. check.status \in Statuses
  BY DEF TypeOK, Checks
<1>6. /\ check'.phase = check.phase /\ check'.request = check.request
      /\ check'.born = check.born
  BY <1>3, ReplacedFrame DEF TypeOK
<1> QED
  BY <1>1, <1>4, <1>5, <1>6 DEF Statuses, PutStatus, Accepted

\* An accepted update of the operator judges the stored answers themselves.
LEMMA UpdateStores ==
    ASSUME TypeOK, CopiesAreHonest, UpdateCondition
    PROVE  /\ check'.status = [answers |-> Typed(check.status.answers),
                               condition |-> UpdateHealthCheckCondition(check.status.answers)]
           /\ Live /\ check'.phase = check.phase
           /\ check'.request = check.request /\ check'.born = check.born
<1>1. operator.copy \in Copies
  BY DEF TypeOK, Operators
<1>2. operator.copy.status = check.status
  BY <1>1, AcceptedIsCurrent DEF CopiesAreHonest, UpdateCondition
<1>3. check.status.answers \in [Nodes -> Entries]
  BY DEF TypeOK, Checks, Statuses
<1> QED
  BY <1>2, <1>3, JudgedType, ReplacedStatus, ReplacedFrame
     DEF TypeOK, UpdateCondition, Accepted

\* The four ways in which a step changes the stored resource.
LEMMA ChangesOfTheCheck ==
    ASSUME TypeOK, [Next]_vars
    PROVE  \/ \E request \in Requests : Create(request)
           \/ \E n \in Nodes : PutStatus(n)
           \/ UpdateCondition
           \/ Live /\ check' = [check EXCEPT !.phase = "deleted"]
           \/ check' = check
<1>1. CASE Withdraw \/ DeleteExpired
  BY <1>1 DEF Withdraw, DeleteExpired
<1>2. ASSUME NEW n \in Nodes, Start(n) \/ Stop(n) \/ DriverStep(n), ~PutStatus(n)
      PROVE  check' = check
  BY <1>2 DEF Start, Stop, DriverStep, ProcessHealthCheck, DatasetMissing, Repair,
              GetStatus, PutStatusFails
<1>3. CASE Tick \/ WatchEvent \/ Resync \/ TimerFires
  BY <1>3 DEF Tick, WatchEvent, Resync, TimerFires
<1>4. CASE Reconcile \/ UpdateConditionFails \/ OperatorRestart
  BY <1>4 DEF Reconcile, UpdateConditionFails, OperatorRestart
<1>5. CASE UNCHANGED vars
  BY <1>5 DEF vars
<1> QED
  BY <1>1, <1>2, <1>3, <1>4, <1>5 DEF Next, OperatorStep, Terminated

\* Only node n's own accepted update changes the answer of node n.
LEMMA OwnAnswersOnly ==
    ASSUME TypeOK, CopiesAreHonest, [Next]_vars,
           NEW n \in Nodes, Stored(n)' # Stored(n)
    PROVE  PutStatus(n) /\ Stored(n)' \in Responses
<1>1. check.status.answers \in [Nodes -> Entries]
  BY DEF TypeOK, Checks, Statuses
<1>2. ~UpdateCondition
  BY <1>1, UpdateStores, TypedType DEF Stored
<1>3. ASSUME NEW m \in Nodes, PutStatus(m), m # n PROVE FALSE
  <2>1. check'.status.answers =
          [check.status.answers EXCEPT ![m] = DriverEntry(driver[m].reply)]
    BY <1>3, PutStores
  <2>2. check'.status.answers[n] = check.status.answers[n]
    BY <1>1, <1>3, <2>1
  <2> QED
    BY <2>2 DEF Stored
<1>4. PutStatus(n)
  <2>1. CASE Live /\ check' = [check EXCEPT !.phase = "deleted"]
    BY <2>1 DEF Stored, TypeOK, Checks
  <2> QED
    BY <1>2, <1>3, <2>1, ChangesOfTheCheck, CreateStores DEF Stored
<1>5. Stored(n)' = driver[n].reply
  <2>1. check'.status.answers =
          [check.status.answers EXCEPT ![n] = DriverEntry(driver[n].reply)]
    BY <1>4, PutStores
  <2>2. check'.status.answers[n] = DriverEntry(driver[n].reply)
    BY <1>1, <2>1
  <2>3. DriverEntry(driver[n].reply).response = driver[n].reply
    BY DEF DriverEntry
  <2> QED
    BY <2>2, <2>3 DEF Stored
<1> QED
  BY <1>4, <1>5, PutStores

\* No write of one actor loses the answer of another.
THEOREM AnswersAreNeverLost == Spec => AnswersSurvive
<1>1. TypeOK /\ CopiesAreHonest /\ [Next]_vars
         => [\A n \in Nodes :
               check'.status.answers[n].response # check.status.answers[n].response
                  => driver[n].pc = "put" /\ driver'[n].pc = "watching"]_vars
  <2> SUFFICES ASSUME TypeOK, CopiesAreHonest, [Next]_vars, NEW n \in Nodes,
                      Stored(n)' # Stored(n)
               PROVE  driver[n].pc = "put" /\ driver'[n].pc = "watching"
    BY DEF Stored
  <2>1. PutStatus(n)
    BY OwnAnswersOnly
  <2> QED
    BY <2>1 DEF TypeOK, PutStatus, Return, Drivers
<1> QED
  BY <1>1, TypeCorrect, HonestCopies, PTL DEF Spec, AnswersSurvive

--------------------------------------------------------------------------------
(* Verdicts *)

Reason == check.status.condition.reason
Final == {"RepairComplete", "RepairFailed"}

\* Counting answers gives a number, and so does counting the addressed names.
LEMMA CountsAreNumbers ==
    ASSUME TypeOK, NEW answers
    PROVE  /\ IsFiniteSet(Answered(answers))
           /\ Cardinality(Answered(answers)) \in Nat
           /\ Cardinality(check.request.affected) \in Nat
<1>1. IsFiniteSet(Nodes \cup {Everyone})
  BY ConstantsType, FS_AddElement
<1>2. check.request.affected \subseteq Nodes \cup {Everyone}
  BY DEF TypeOK, Checks, Specs
<1>3. Answered(answers) \subseteq Nodes
  BY DEF Answered
<1> QED
  BY <1>1, <1>2, <1>3, ConstantsType, FS_Subset, FS_CardinalityType

\* A final reason is only given when enough nodes have answered.
LEMMA FinalCounts ==
    ASSUME TypeOK, NEW answers, UpdateHealthCheckCondition(answers).reason \in Final
    PROVE  Cardinality(Answered(answers)) >= Cardinality(check.request.affected)
<1>1. ~InProgress(answers)
  BY DEF UpdateHealthCheckCondition, Final
<1> QED
  BY <1>1, CountsAreNumbers DEF InProgress

\* And it is given whenever enough nodes have answered.
LEMMA CountsAreFinal ==
    ASSUME TypeOK, NEW answers,
           Cardinality(Answered(answers)) >= Cardinality(check.request.affected)
    PROVE  UpdateHealthCheckCondition(answers).reason \in Final
<1>1. ~InProgress(answers)
  BY CountsAreNumbers DEF InProgress
<1> QED
  BY <1>1 DEF UpdateHealthCheckCondition, Final

\* No step takes an answer back.
LEMMA AnswersOnlyGrow ==
    ASSUME TypeOK, CopiesAreHonest, [Next]_vars
    PROVE  Answered(check.status.answers) \subseteq Answered(check'.status.answers)
<1> SUFFICES ASSUME NEW n \in Nodes, Stored(n) # "None" PROVE Stored(n)' # "None"
  BY DEF Answered, Stored
<1>1. Stored(n)' = Stored(n) \/ Stored(n)' \in Responses
  BY OwnAnswersOnly
<1> QED
  BY <1>1 DEF Responses

VerdictInv ==
    /\ VerdictCountsAnswers
    /\ check.phase = "none" => Reason = "None"

\* Every step keeps the count and the verdict together.
LEMMA VerdictStep ==
    ASSUME TypeOK, TypeOK', CopiesAreHonest, VerdictInv, [Next]_vars
    PROVE  VerdictInv'
<1> DEFINE answers == check.status.answers
<1>1. Cardinality(Answered(answers)) <= Cardinality(Answered(answers'))
  <2>1. IsFiniteSet(Answered(answers'))
    <3>1. Answered(answers') \subseteq Nodes
      BY DEF Answered
    <3> QED
      BY <3>1, ConstantsType, FS_Subset
  <2> QED
    BY <2>1, AnswersOnlyGrow, FS_Subset
<1>2. /\ Cardinality(Answered(answers)) \in Nat
      /\ Cardinality(Answered(answers')) \in Nat
      /\ Cardinality(check.request.affected) \in Nat
  <2>1. IsFiniteSet(Answered(answers'))
    <3>1. Answered(answers') \subseteq Nodes
      BY DEF Answered
    <3> QED
      BY <3>1, ConstantsType, FS_Subset
  <2> QED
    BY <2>1, CountsAreNumbers, FS_CardinalityType
<1>3. ASSUME NEW request \in Requests, Create(request) PROVE VerdictInv'
  BY <1>3, CreateStores DEF VerdictInv, VerdictCountsAnswers, Reason
<1>4. ASSUME NEW n \in Nodes, PutStatus(n) PROVE VerdictInv'
  <2>1. /\ Reason' = Reason /\ check'.request = check.request
        /\ check'.phase = "live"
    BY <1>4, PutStores DEF Reason, Live
  <2> QED
    BY <1>1, <1>2, <2>1 DEF VerdictInv, VerdictCountsAnswers, Reason
<1>5. CASE UpdateCondition
  <2>1. Reason' \in Final => Cardinality(Answered(answers)) >= Cardinality(check.request.affected)
    BY <1>5, UpdateStores, FinalCounts DEF Reason
  <2> QED
    BY <1>1, <1>2, <1>5, <2>1, UpdateStores
       DEF VerdictInv, VerdictCountsAnswers, Reason, Final, Live
<1>6. CASE Live /\ check' = [check EXCEPT !.phase = "deleted"]
  BY <1>6 DEF TypeOK, Checks, VerdictInv, VerdictCountsAnswers, Reason
<1>7. CASE check' = check
  BY <1>7 DEF VerdictInv, VerdictCountsAnswers, Reason
<1> QED
  BY <1>3, <1>4, <1>5, <1>6, <1>7, ChangesOfTheCheck

\* A check is called complete or failed only when at least as many nodes have
\* answered as it addresses, and this stays true.
THEOREM VerdictsCount == Spec => []VerdictCountsAnswers
<1>1. Init => VerdictInv
  <2>1. Init => check.status = EmptyStatus
    BY DEF Init
  <2>2. EmptyStatus.condition.reason = "None"
    BY DEF EmptyStatus, NoCondition
  <2> QED
    BY <2>1, <2>2 DEF VerdictInv, VerdictCountsAnswers, Reason
<1>2. TypeOK /\ TypeOK' /\ CopiesAreHonest /\ VerdictInv /\ [Next]_vars => VerdictInv'
  BY VerdictStep
<1>3. VerdictInv => VerdictCountsAnswers
  BY DEF VerdictInv
<1> QED
  BY <1>1, <1>2, <1>3, TypeCorrect, HonestCopies, PTL DEF Spec

\* A check that was complete or failed is never in progress again.
THEOREM VerdictsAreFinal == Spec => VerdictIsFinal
<1>1. TypeOK /\ CopiesAreHonest /\ VerdictCountsAnswers /\ [Next]_vars
         => [check.status.condition.reason \in {"RepairComplete", "RepairFailed"}
               => check'.status.condition.reason \in {"RepairComplete", "RepairFailed"}]_vars
  <2> SUFFICES ASSUME TypeOK, CopiesAreHonest, VerdictCountsAnswers, [Next]_vars,
                      Reason \in Final
               PROVE  Reason' \in Final
    BY DEF Reason, Final
  <2>1. CASE UpdateCondition
    <3>1. UpdateHealthCheckCondition(check.status.answers).reason \in Final
      BY CountsAreFinal DEF VerdictCountsAnswers, Reason, Final
    <3> QED
      BY <2>1, <3>1, UpdateStores DEF Reason
  <2>2. CASE Live /\ check' = [check EXCEPT !.phase = "deleted"]
    BY <2>2 DEF Reason, TypeOK, Checks
  <2> QED
    BY <2>1, <2>2, ChangesOfTheCheck, CreateStores, PutStores DEF Reason
<1> QED
  BY <1>1, TypeCorrect, HonestCopies, VerdictsCount, PTL DEF Spec, VerdictIsFinal

--------------------------------------------------------------------------------
(* Restarts *)

RestartInv ==
    /\ AnsweringDrivers
    /\ check.phase = "none" => \A n \in Nodes : driver[n].pc \in {"down", "watching"}

\* A container is at work on the check only after a ProcessHealthCheck that
\* found the check no older than the container.
LEMMA RestartStep ==
    ASSUME TypeOK, TypeOK', CopiesAreHonest, RestartInv, [Next]_vars
    PROVE  RestartInv'
<1> DEFINE busy(n) == driver[n].pc \in {"repair", "get", "put"}
<1>1. ASSUME NEW n \in Nodes, busy(n)'
        PROVE  check'.phase # "none" /\ driver'[n].started <= check'.born
  <2>1. CASE driver'[n].started = driver[n].started /\ busy(n)
    <3>1. check.phase # "none" /\ driver[n].started <= check.born
      BY <2>1 DEF RestartInv, AnsweringDrivers
    <3>2. check'.phase # "none" /\ check'.born = check.born
      <4>1. CASE Live /\ check' = [check EXCEPT !.phase = "deleted"]
        BY <4>1 DEF TypeOK, Checks
      <4> QED
        BY <3>1, <4>1, ChangesOfTheCheck, CreateStores, PutStores, UpdateStores
    <3> QED
      BY <2>1, <3>1, <3>2
  <2>2. CASE ~(driver'[n].started = driver[n].started /\ busy(n))
    <3>1. driver' # driver
      BY <1>1, <2>2
    <3>2. PICK m \in Nodes : Start(m) \/ Stop(m) \/ DriverStep(m)
      BY <3>1 DEF Next, vars, Create, Withdraw, Tick, WatchEvent, Resync, TimerFires,
                  OperatorStep, Reconcile, DeleteExpired, UpdateCondition,
                  UpdateConditionFails, OperatorRestart, Terminated
    <3>3. ~Start(m)
      <4>1. ASSUME Start(m), m # n PROVE FALSE
        BY <2>2, <1>1, <4>1 DEF TypeOK, Start
      <4>2. ASSUME Start(m), m = n PROVE FALSE
        BY <1>1, <2>2, <4>2 DEF TypeOK, Start, Drivers
      <4> QED
        BY <4>1, <4>2
    <3>4. ~Stop(m)
      <4>1. ASSUME Stop(m), m # n PROVE FALSE
        BY <2>2, <1>1, <4>1 DEF TypeOK, Stop
      <4>2. ASSUME Stop(m), m = n PROVE FALSE
        BY <1>1, <2>2, <4>2 DEF TypeOK, Stop, Drivers
      <4> QED
        BY <4>1, <4>2
    <3>5. ~DatasetMissing(m)
      BY <1>1, <2>2 DEF TypeOK, DatasetMissing, Drivers
    <3>9. ~Repair(m)
      <4>1. ASSUME Repair(m), m # n PROVE FALSE
        BY <2>2, <1>1, <4>1 DEF TypeOK, Repair
      <4>2. ASSUME Repair(m), m = n PROVE FALSE
        BY <1>1, <2>2, <4>2 DEF TypeOK, Repair, Drivers
      <4> QED
        BY <4>1, <4>2
    <3>10. ~GetStatus(m) /\ ~PutStatus(m) /\ ~PutStatusFails(m)
      <4>1. driver[n] \in Drivers /\ driver[m] \in Drivers
        BY DEF TypeOK
      <4>2. ASSUME NEW tries, Return(m, tries) PROVE FALSE
        BY <1>1, <2>2, <4>2 DEF TypeOK, Return, Drivers
      <4>3. ASSUME driver[m].pc \in {"get", "put"},
                   NEW r, r.started = driver[m].started,
                   driver' = [driver EXCEPT ![m] = r]
            PROVE  FALSE
        BY <1>1, <2>2, <4>3 DEF TypeOK
      <4>4. ~PutStatus(m)
        BY <4>2 DEF PutStatus
      <4>5. ~GetStatus(m)
        <5>1. [driver[m] EXCEPT !.pc = "put", !.copy = Snapshot].started = driver[m].started
          BY <4>1 DEF Drivers
        <5> QED
          BY <4>2, <4>3, <5>1 DEF GetStatus
      <4>6. ~PutStatusFails(m)
        <5>1. [driver[m] EXCEPT !.pc = "get", !.copy = NoCopy,
                                !.tries = driver[m].tries + 1].started = driver[m].started
          BY <4>1 DEF Drivers
        <5> QED
          BY <4>2, <4>3, <5>1 DEF PutStatusFails
      <4> QED
        BY <4>4, <4>5, <4>6
    <3>6. ProcessHealthCheck(m)
      BY <3>2, <3>3, <3>4, <3>5, <3>9, <3>10 DEF DriverStep
    <3>7. m = n /\ ~Predates(n) /\ driver'[n].started = driver[n].started
      <4>1. CASE driver' = [driver EXCEPT ![m].seen = TRUE]
        BY <1>1, <2>2, <4>1 DEF TypeOK, Drivers
      <4>2. CASE ~Predates(m) /\ driver' = [driver EXCEPT ![m] = [@ EXCEPT
                      !.seen = TRUE, !.pc = "get", !.reply = "NoAction"]]
        BY <1>1, <2>2, <4>2 DEF TypeOK, Drivers
      <4>3. CASE ~Predates(m) /\ driver' = [driver EXCEPT ![m] = [@ EXCEPT
                      !.seen = TRUE, !.pc = "repair"]]
        BY <1>1, <2>2, <4>3 DEF TypeOK, Drivers
      <4> QED
        BY <3>6, <4>1, <4>2, <4>3 DEF ProcessHealthCheck
    <3>8. check' = check /\ check.phase = "live"
      BY <3>6 DEF ProcessHealthCheck, Live
    <3> QED
      BY <3>7, <3>8 DEF Predates, TypeOK, Drivers, Checks
  <2> QED
    BY <2>1, <2>2
<1> QED
  BY <1>1 DEF RestartInv, AnsweringDrivers, TypeOK, Drivers

\* A container that started after the second in which the check was created
\* never answers it.
THEOREM NoLateStarterAnswers == Spec => NoAnswerAfterRestart
<1>1. Init => RestartInv
  BY DEF Init, RestartInv, AnsweringDrivers
<1>2. TypeOK /\ TypeOK' /\ CopiesAreHonest /\ RestartInv /\ [Next]_vars => RestartInv'
  BY RestartStep
<1>3. TypeOK /\ CopiesAreHonest /\ RestartInv /\ [Next]_vars
         => [\A n \in Nodes :
               check'.status.answers[n].response # check.status.answers[n].response
                  => driver[n].started <= check.born]_vars
  <2> SUFFICES ASSUME TypeOK, CopiesAreHonest, RestartInv, [Next]_vars, NEW n \in Nodes,
                      Stored(n)' # Stored(n)
               PROVE  driver[n].started <= check.born
    BY DEF Stored
  <2>1. PutStatus(n)
    BY OwnAnswersOnly
  <2> QED
    BY <2>1 DEF PutStatus, RestartInv, AnsweringDrivers
<1> QED
  BY <1>1, <1>2, <1>3, TypeCorrect, HonestCopies, PTL DEF Spec, NoAnswerAfterRestart

--------------------------------------------------------------------------------
(* Refinement *)

\* The abstract board counts as this module does.
LEMMA SameCardinality == ASSUME NEW S PROVE Board!Cardinality(S) = Cardinality(S)
  BY Zenon DEF Board!Cardinality, Cardinality

\* The operator's condition is the abstract judgement of the answers.
LEMMA JudgementIsTheCondition ==
    ASSUME TypeOK, NEW answers
    PROVE  UpdateHealthCheckCondition(answers).reason =
              Board!Judgement(check.request.affected,
                              [n \in Nodes |-> answers[n].response])
<1> DEFINE b == [n \in Nodes |-> answers[n].response]
<1>1. Board!Answered(b) = Answered(answers)
  BY DEF Board!Answered, Answered
<1>2. InProgress(answers) <=> Cardinality(Board!Answered(b)) < Cardinality(check.request.affected)
  BY <1>1, CountsAreNumbers DEF InProgress
<1>3. (\E n \in Nodes : b[n] = "Error") <=> \E n \in Nodes : answers[n].response = "Error"
  OBVIOUS
<1> HIDE DEF b
<1>4. UpdateHealthCheckCondition(answers).reason =
        IF InProgress(answers) THEN "RepairInProgress"
        ELSE IF \E n \in Nodes : answers[n].response = "Error"
             THEN "RepairFailed" ELSE "RepairComplete"
  BY DEF UpdateHealthCheckCondition
<1>5. UpdateHealthCheckCondition(answers).reason = Board!Judgement(check.request.affected, b)
  BY <1>2, <1>3, <1>4, SameCardinality DEF Board!Judgement
<1> QED
  BY <1>5 DEF b

\* Every step is a step of the board, or leaves the board alone.
LEMMA BoardStep ==
    ASSUME TypeOK, CopiesAreHonest, [Next]_vars
    PROVE  [Board!Next]_(Board!vars)
<1> DEFINE b == [n \in Nodes |-> check.status.answers[n].response]
<1> USE DEF Live
<1>1. ASSUME NEW request \in Requests, Create(request) PROVE Board!Next
  <2>1. request.affected \in SUBSET (Nodes \cup {Everyone})
    BY RequestType DEF Specs
  <2>2. Board!Open(request.affected)
    BY <1>1, CreateStores DEF Board!Open
  <2> QED
    BY <2>1, <2>2 DEF Board!Next
<1>2. ASSUME NEW n \in Nodes, PutStatus(n) PROVE Board!Next
  <2>1. PICK response \in Responses : response = driver[n].reply
    BY <1>2, PutStores
  <2>2. b' = [b EXCEPT ![n] = response]
    <3>1. check.status.answers \in [Nodes -> Entries]
      BY DEF TypeOK, Checks, Statuses
    <3>2. check'.status.answers =
            [check.status.answers EXCEPT ![n] = DriverEntry(response)]
      BY <1>2, <2>1, PutStores
    <3>3. DriverEntry(response).response = response
      BY DEF DriverEntry
    <3>4. \A m \in Nodes : check'.status.answers[m].response =
             IF m = n THEN response ELSE check.status.answers[m].response
      BY <3>1, <3>2, <3>3
    <3> QED
      BY <3>4
  <2>3. Board!Post(n, response)
    BY <1>2, <2>2, PutStores DEF Board!Post
  <2>4. response \in Board!Responses
    BY DEF Board!Responses, Responses
  <2> QED
    BY <2>3, <2>4 DEF Board!Next
<1>3. CASE UpdateCondition
  <2>1. check.status.answers \in [Nodes -> Entries]
    BY DEF TypeOK, Checks, Statuses
  <2>2. b' = b
    BY <1>3, <2>1, UpdateStores, TypedType
  <2>3. check'.status.condition.reason = Board!Judgement(check.request.affected, b)
    BY <1>3, UpdateStores, JudgementIsTheCondition
  <2>4. Board!Judge
    BY <1>3, <2>2, <2>3, UpdateStores DEF Board!Judge
  <2> QED
    BY <2>4 DEF Board!Next
<1>4. CASE Live /\ check' = [check EXCEPT !.phase = "deleted"]
  <2>1. Board!Remove
    BY <1>4 DEF Board!Remove, TypeOK, Checks
  <2> QED
    BY <2>1 DEF Board!Next
<1>5. CASE check' = check
  BY <1>5 DEF Board!vars
<1> QED
  BY <1>1, <1>2, <1>3, <1>4, <1>5, ChangesOfTheCheck

\* The loops of the nodes and of the operator implement the abstract board.
THEOREM RefinesBoard == Spec => ImplementsBoard
<1>1. Init => Board!Init
  <2> SUFFICES ASSUME Init PROVE Board!Init
    OBVIOUS
  <2>1. /\ check.phase = "none" /\ check.request.affected = {}
        /\ check.status.condition.reason = "None"
    BY DEF Init, EmptyStatus, NoCondition
  <2>2. [n \in Nodes |-> check.status.answers[n].response] = [n \in Nodes |-> "None"]
    BY DEF Init, EmptyStatus, NoEntry
  <2> QED
    BY <2>1, <2>2 DEF Board!Init
<1>2. TypeOK /\ CopiesAreHonest /\ [Next]_vars => [Board!Next]_(Board!vars)
  BY BoardStep
<1> QED
  BY <1>1, <1>2, TypeCorrect, HonestCopies, PTL DEF Spec, ImplementsBoard, Board!Spec
--------------------------------------------------------------------------------
(* Retries *)

\* The nodes that may still answer, in this life of their containers.
Able == {n \in Nodes : driver[n].pc \in {"down", "repair", "get", "put"} \/ ~driver[n].seen}

\* The operator's next update would change nothing.
Judged ==
    LET answers == check.status.answers
    IN check.status = [answers |-> Typed(answers),
                       condition |-> UpdateHealthCheckCondition(answers)]

\* How often the stored version can still change: an answer counts twice, as the operator
\* may judge it, and the operator has a judgement of its own.
Lives == Cardinality(Able) + (MaxRestarts - restarts)
Budget == 2 * Lives + (IF Judged THEN 0 ELSE 1)
Bound == 2 * (Cardinality(Nodes) + MaxRestarts) + 1

\* A conflict that node n has not met yet.
Pending(n) == IF driver[n].pc = "put" /\ driver[n].copy.version # check.version THEN 1 ELSE 0

\* The conflicts that a node has met or will meet are paid for by changes of the version.
RetryInv ==
    /\ restarts <= MaxRestarts
    /\ \A n \in Nodes :
          /\ driver[n].pc \in {"repair", "get", "put"} => driver[n].seen
          /\ driver[n].pc \notin {"get", "put"} => driver[n].tries = 0
          /\ driver[n].tries + Pending(n) + Budget <= Bound


\* What a step does to the handler of one node.
LEMMA HandlerSteps ==
    ASSUME TypeOK, [Next]_vars, NEW n \in Nodes
    PROVE  LET before == driver[n]  after == driver'[n]
           IN \/ after = before
              \/ before.pc = "down" /\ after.pc = "watching" /\ after.tries = before.tries
              \/ Stop(n) /\ after.pc = "down" /\ after.tries = 0
              \/ /\ before.pc = "watching" /\ ~before.seen /\ after.seen
                 /\ after.pc \in {"watching", "get", "repair"} /\ after.tries = before.tries
              \/ /\ before.pc = "repair" /\ after.pc \in {"watching", "get"}
                 /\ (after.seen <=> before.seen) /\ after.tries = before.tries
              \/ /\ before.pc = "get" /\ after.pc = "put" /\ (after.seen <=> before.seen)
                 /\ after.tries = before.tries
                 /\ check' = check /\ after.copy.version = check.version
              \/ /\ before.pc \in {"get", "put"} /\ after.pc = "watching" /\ after.tries = 0
                 /\ (after.seen <=> before.seen)
              \/ /\ before.pc = "put" /\ before.copy.version # check.version
                 /\ check' = check /\ (after.seen <=> before.seen)
                 /\ \/ /\ before.tries + 1 < Retries
                       /\ after.pc = "get" /\ after.tries = before.tries + 1
                    \/ /\ ~(before.tries + 1 < Retries)
                       /\ after.pc = "watching" /\ after.tries = Retries
<1> DEFINE before == driver[n]
           after == driver'[n]
<1>1. driver \in [Nodes -> Drivers] /\ before \in Drivers
  BY DEF TypeOK
<1>2. ASSUME driver' = driver PROVE after = before
  BY <1>2
<1>3. ASSUME NEW m \in Nodes, m # n, Start(m) \/ Stop(m) \/ DriverStep(m) PROVE after = before
  BY <1>1, <1>3 DEF Start, Stop, DriverStep, ProcessHealthCheck, DatasetMissing, Repair,
     GetStatus, PutStatus, PutStatusFails, Return
<1>4. CASE Start(n)
  BY <1>1, <1>4 DEF Start, Drivers
<1>5. CASE Stop(n)
  BY <1>1, <1>5 DEF Stop, Drivers
<1>6. CASE ProcessHealthCheck(n)
  <2>1. \/ driver' = [driver EXCEPT ![n].seen = TRUE]
        \/ driver' = [driver EXCEPT ![n] = [@ EXCEPT
                         !.seen = TRUE, !.pc = "get", !.reply = "NoAction"]]
        \/ driver' = [driver EXCEPT ![n] = [@ EXCEPT !.seen = TRUE, !.pc = "repair"]]
    BY <1>6 DEF ProcessHealthCheck
  <2>2. before.pc = "watching" /\ ~before.seen
    BY <1>6 DEF ProcessHealthCheck
  <2>3. /\ after.seen /\ after.pc \in {"watching", "get", "repair"}
        /\ after.tries = before.tries
    <3>1. CASE driver' = [driver EXCEPT ![n].seen = TRUE]
      BY <1>1, <2>2, <3>1 DEF Drivers
    <3>2. CASE driver' = [driver EXCEPT ![n] = [@ EXCEPT
                           !.seen = TRUE, !.pc = "get", !.reply = "NoAction"]]
      BY <1>1, <3>2 DEF Drivers
    <3>3. CASE driver' = [driver EXCEPT ![n] = [@ EXCEPT !.seen = TRUE, !.pc = "repair"]]
      BY <1>1, <3>3 DEF Drivers
    <3> QED
      BY <2>1, <3>1, <3>2, <3>3
  <2> QED
    BY <2>2, <2>3
<1>7. CASE DatasetMissing(n) \/ Repair(n)
  <2>1. CASE DatasetMissing(n)
    BY <1>1, <2>1 DEF DatasetMissing, Drivers
  <2>2. CASE Repair(n)
    BY <1>1, <2>2 DEF Repair, Drivers
  <2> QED
    BY <1>7, <2>1, <2>2
<1>8. ASSUME NEW tries \in Nat, Return(n, tries)
      PROVE  /\ after.pc = "watching" /\ after.tries = tries
             /\ after.seen <=> before.seen
  BY <1>1, <1>8 DEF Return, Drivers
<1>9. CASE GetStatus(n)
  <2>1. CASE driver' = [driver EXCEPT ![n] = [@ EXCEPT !.pc = "put", !.copy = Snapshot]]
    BY <1>1, <1>9, <2>1 DEF GetStatus, Drivers, Snapshot
  <2>2. CASE Return(n, 0)
    BY <1>8, <1>9, <2>2 DEF GetStatus
  <2> QED
    BY <1>9, <2>1, <2>2 DEF GetStatus
<1>10. CASE PutStatus(n)
  BY <1>8, <1>10 DEF PutStatus
<1>11. CASE PutStatusFails(n)
  <2>1. before.pc = "put" /\ check' = check
    BY <1>11 DEF PutStatusFails
  <2>2. CASE Return(n, 0)
    BY <1>8, <2>1, <2>2
  <2>3. CASE Live /\ ~Accepted(driver[n].copy) /\ ~Return(n, 0)
    <3>1. before.copy.version # check.version
      BY <2>3 DEF Accepted
    <3>2. CASE /\ before.tries + 1 < Retries
               /\ driver' = [driver EXCEPT ![n] = [@ EXCEPT !.pc = "get", !.copy = NoCopy,
                                                            !.tries = driver[n].tries + 1]]
      BY <1>1, <2>1, <3>1, <3>2 DEF Drivers
    <3>3. CASE ~(before.tries + 1 < Retries) /\ Return(n, Retries)
      BY <1>8, <2>1, <3>1, <3>3, ConstantsType
    <3> QED
      BY <1>11, <2>3, <3>2, <3>3 DEF PutStatusFails
  <2> QED
    BY <1>11, <2>2, <2>3 DEF PutStatusFails
<1>12. CASE Tick \/ Withdraw \/ \E request \in Requests : Create(request)
  BY <1>2, <1>12 DEF Tick, Withdraw, Create
<1>13. CASE WatchEvent \/ Resync \/ TimerFires \/ OperatorStep \/ OperatorRestart
  BY <1>2, <1>13 DEF WatchEvent, Resync, TimerFires, OperatorStep, Reconcile, DeleteExpired,
     UpdateCondition, UpdateConditionFails, OperatorRestart
<1>14. CASE UNCHANGED vars
  BY <1>2, <1>14 DEF vars
<1> HIDE DEF before, after
<1>15. ASSUME NEW m \in Nodes, Start(m) \/ Stop(m) \/ DriverStep(m)
       PROVE  \/ after = before \/ Start(n) \/ Stop(n) \/ DriverStep(n)
  BY <1>3, <1>15
<1> QED
  BY <1>4, <1>5, <1>6, <1>7, <1>9, <1>10, <1>11, <1>12, <1>13, <1>14, <1>15
     DEF Next, DriverStep, Terminated, before, after

\* Only a restart, and then of one container, gives a node another answer.
LEMMA AbleSteps ==
    ASSUME TypeOK, RetryInv, [Next]_vars
    PROVE  \/ Able' \subseteq Able /\ restarts' \in {restarts, restarts + 1}
                /\ restarts' <= MaxRestarts
           \/ /\ \E n \in Nodes : Able' \subseteq Able \cup {n}
              /\ restarts' = restarts + 1 /\ restarts' <= MaxRestarts
<1>1. ASSUME NEW n \in Nodes, ~Stop(n), n \in Able' PROVE n \in Able
  <2>1. driver'[n].pc \in {"down", "repair", "get", "put"} \/ ~driver'[n].seen
    BY <1>1 DEF Able
  <2>2. driver[n].pc \in {"down", "repair", "get", "put"} \/ ~driver[n].seen
    BY <1>1, <2>1, HandlerSteps
  <2> QED
    BY <2>2 DEF Able
<1>2. restarts \in Nat /\ MaxRestarts \in Nat /\ restarts <= MaxRestarts
  BY HealthCheckAssumption DEF TypeOK, RetryInv, HealthCheckAssumption
<1>3. CASE \E n \in Nodes : Stop(n)
  <2>1. PICK n \in Nodes : Stop(n)
    BY <1>3
  <2>2. restarts' = restarts + 1 /\ restarts' <= MaxRestarts
    BY <1>2, <2>1 DEF Stop
  <2>3. \A m \in Nodes : m # n => ~Stop(m) \/ driver'[m] = driver[m]
    BY <2>1 DEF Stop, TypeOK
  <2>4. \A m \in Nodes : m # n /\ m \in Able' => m \in Able
    BY <1>1, <2>3 DEF Able
  <2>5. Able' \subseteq Able \cup {n}
    BY <2>4 DEF Able
  <2> QED
    BY <2>2, <2>5
<1>4. CASE ~\E n \in Nodes : Stop(n)
  <2>1. Able' \subseteq Able
    BY <1>1, <1>4 DEF Able
  <2>2. restarts' = restarts \/ (restarts' = restarts + 1 /\ restarts < MaxRestarts)
    BY <1>4 DEF Next, Create, Withdraw, Tick, Start, DriverStep, ProcessHealthCheck,
       DatasetMissing, Repair, GetStatus, PutStatus, PutStatusFails, WatchEvent, Resync,
       TimerFires, OperatorStep, Reconcile, DeleteExpired, UpdateCondition,
       UpdateConditionFails, OperatorRestart, Terminated, vars
  <2> QED
    BY <1>2, <2>1, <2>2
<1> QED
  BY <1>3, <1>4

\* The lives that are left, counted.
LEMMA LivesStep ==
    ASSUME TypeOK, RetryInv, [Next]_vars
    PROVE  /\ Cardinality(Able) \in Nat /\ Cardinality(Able') \in Nat
           /\ restarts' <= MaxRestarts
           /\ Cardinality(Able') - restarts' <= Cardinality(Able) - restarts
           /\ \A n \in Nodes : PutStatus(n) =>
                 /\ restarts' = restarts
                 /\ Cardinality(Able') + 1 <= Cardinality(Able)
<1>1. restarts \in Nat /\ MaxRestarts \in Nat /\ restarts <= MaxRestarts
  BY HealthCheckAssumption DEF TypeOK, RetryInv, HealthCheckAssumption
<1>2. Able \in SUBSET Nodes /\ Able' \in SUBSET Nodes
  BY DEF Able
<1>3. IsFiniteSet(Able) /\ IsFiniteSet(Able')
  BY <1>2, ConstantsType, FS_Subset
<1>4. Cardinality(Able) \in Nat /\ Cardinality(Able') \in Nat
  BY <1>3, FS_CardinalityType
<1>5. Able' \subseteq Able => Cardinality(Able') <= Cardinality(Able)
  BY <1>3, FS_Subset
<1>6. ASSUME NEW n \in Nodes, Able' \subseteq Able \cup {n}
      PROVE  Cardinality(Able') <= Cardinality(Able) + 1
  <2>1. Cardinality(Able \cup {n}) = IF n \in Able THEN Cardinality(Able) ELSE Cardinality(Able) + 1
    BY <1>3, FS_AddElement, ZenonT(60)
  <2>2. IsFiniteSet(Able \cup {n})
    BY <1>3, FS_AddElement, ZenonT(60)
  <2>3. Cardinality(Able') <= Cardinality(Able \cup {n})
    BY <1>6, <2>2, FS_Subset
  <2> QED
    BY <1>4, <2>1, <2>3
<1>7. ASSUME NEW n \in Nodes, PutStatus(n)
      PROVE  restarts' = restarts /\ Cardinality(Able') + 1 <= Cardinality(Able)
  <2>1. driver[n].pc = "put" /\ driver[n].seen /\ restarts' = restarts
    BY <1>7 DEF PutStatus, RetryInv
  <2>2. n \in Able
    BY <2>1 DEF Able
  <2>3. driver'[n].pc = "watching" /\ (driver'[n].seen <=> driver[n].seen)
    BY <1>7 DEF PutStatus, Return, TypeOK, Drivers
  <2>4. n \notin Able'
    BY <2>1, <2>3 DEF Able
  <2>5. Able' \subseteq Able
    BY <2>1, <1>1, <2>2, AbleSteps
  <2>6. Cardinality(Able \ {n}) = IF n \in Able THEN Cardinality(Able) - 1 ELSE Cardinality(Able)
    BY <1>3, FS_RemoveElement, ZenonT(60)
  <2>7. IsFiniteSet(Able \ {n})
    BY <1>3, FS_RemoveElement, ZenonT(60)
  <2>8. Able' \in SUBSET (Able \ {n})
    BY <2>4, <2>5
  <2>9. Cardinality(Able') <= Cardinality(Able \ {n})
    BY <2>7, <2>8, FS_Subset
  <2> QED
    BY <1>4, <2>1, <2>2, <2>6, <2>9
<1> HIDE DEF Able
<1>8. CASE /\ Able' \subseteq Able /\ restarts' \in {restarts, restarts + 1}
             /\ restarts' <= MaxRestarts
  BY <1>1, <1>4, <1>5, <1>7, <1>8
<1>9. CASE /\ \E n \in Nodes : Able' \subseteq Able \cup {n}
           /\ restarts' = restarts + 1 /\ restarts' <= MaxRestarts
  BY <1>1, <1>4, <1>6, <1>7, <1>9
<1> QED
  BY <1>8, <1>9, AbleSteps

\* A judgement of answers that the operator has written already is the same.
LEMMA JudgedAgain ==
    ASSUME NEW answers \in [Nodes -> Entries]
    PROVE  /\ Typed(Typed(answers)) = Typed(answers)
           /\ UpdateHealthCheckCondition(Typed(answers)) = UpdateHealthCheckCondition(answers)
<1>1. /\ Typed(answers) \in [Nodes -> Entries]
      /\ \A n \in Nodes : Typed(answers)[n].response = answers[n].response
  BY TypedType
<1>2. \A n \in Nodes : Typed(answers)[n].status = "None"
  BY DEF Typed, Entries
<1>3. ASSUME NEW n \in Nodes
      PROVE  [Typed(answers)[n] EXCEPT !.status = "None"] = Typed(answers)[n]
  BY <1>1, <1>2 DEF Entries
<1>4. Typed(Typed(answers)) = Typed(answers)
  <2>1. Typed(Typed(answers)) = [n \in Nodes |-> [Typed(answers)[n] EXCEPT !.status = "None"]]
    BY DEF Typed
  <2>2. Typed(Typed(answers)) = [n \in Nodes |-> Typed(answers)[n]]
    BY <1>3, <2>1
  <2> QED
    BY <1>1, <2>2
<1> DEFINE again == Typed(answers)
<1> HIDE DEF again
<1>5. Answered(again) = Answered(answers)
  BY <1>1 DEF Answered, again
<1>6. InProgress(again) <=> InProgress(answers)
  BY <1>5 DEF InProgress
<1>7. (\E n \in Nodes : again[n].response = "Error") <=>
            \E n \in Nodes : answers[n].response = "Error"
  BY <1>1 DEF again
<1>8. UpdateHealthCheckCondition(again).reason = UpdateHealthCheckCondition(answers).reason
  BY <1>6, <1>7 DEF UpdateHealthCheckCondition
<1>9. /\ UpdateHealthCheckCondition(again) \in [reason : Reasons, message : {""}]
      /\ UpdateHealthCheckCondition(answers) \in [reason : Reasons, message : {""}]
  BY <1>1, ConditionType DEF again
<1>10. ASSUME NEW r \in [reason : Reasons, message : {""}],
              NEW s \in [reason : Reasons, message : {""}], r.reason = s.reason
       PROVE  r = s
  <2>1. r.message = s.message
    OBVIOUS
  <2>2. r = [reason |-> r.reason, message |-> r.message]
    OBVIOUS
  <2>3. s = [reason |-> s.reason, message |-> s.message]
    OBVIOUS
  <2> QED
    BY <1>10, <2>1, <2>2, <2>3
<1>11. UpdateHealthCheckCondition(again) = UpdateHealthCheckCondition(answers)
  BY <1>8, <1>9, <1>10
<1> QED
  BY <1>4, <1>11 DEF again

\* The operator's update is paid for by its judgement, an answer by the life of its node.
LEMMA BudgetStep ==
    ASSUME TypeOK, TypeOK', CopiesAreHonest, RetryInv, [Next]_vars,
           \A request \in Requests : ~Create(request)
    PROVE  /\ Budget \in Nat /\ Budget' \in Nat
           /\ Budget' <= Budget
           /\ check'.version # check.version =>
                 check'.version = check.version + 1 /\ Budget' + 1 <= Budget
<1>1. restarts \in Nat /\ restarts' \in Nat /\ MaxRestarts \in Nat /\ restarts <= MaxRestarts
  BY HealthCheckAssumption DEF TypeOK, RetryInv, HealthCheckAssumption
<1> DEFINE left == IF Judged THEN 0 ELSE 1
           after == IF Judged' THEN 0 ELSE 1
           able == Cardinality(Able)
           later == Cardinality(Able')
           spare == MaxRestarts - restarts
           rest == MaxRestarts - restarts'
           budget == Budget
           remaining == Budget'
<1>2. left \in 0 .. 1 /\ after \in 0 .. 1
  OBVIOUS
<1>3. /\ budget = 2 * (able + spare) + left
      /\ remaining = 2 * (later + rest) + after
  BY DEF Budget, Lives
<1>4. /\ able \in Nat /\ later \in Nat /\ spare \in Nat /\ rest \in Nat
      /\ later + rest <= able + spare
  <2>1. /\ able \in Nat /\ later \in Nat /\ restarts' <= MaxRestarts
        /\ later - restarts' <= able - restarts
    BY LivesStep
  <2> DEFINE used == restarts
             spent == restarts'
  <2>2. spare = MaxRestarts - used /\ rest = MaxRestarts - spent
    OBVIOUS
  <2>3. /\ able \in Nat /\ later \in Nat /\ later - spent <= able - used
        /\ used \in Nat /\ spent \in Nat /\ used <= MaxRestarts /\ spent <= MaxRestarts
    BY <1>1, <2>1
  <2> HIDE DEF able, later, spare, rest, used, spent
  <2>4. MaxRestarts \in Nat
    BY <1>1
  <2> QED
    BY <2>2, <2>3, <2>4
<1> HIDE DEF able, later, spare, rest, budget, remaining
<1>5. budget \in Nat /\ remaining \in Nat
  <2> HIDE DEF left, after
  <2> QED
    BY <1>2, <1>3, <1>4
<1>6. ASSUME check'.status = check.status, check'.request = check.request
      PROVE  left = after
  BY <1>6 DEF Judged, UpdateHealthCheckCondition, InProgress
<1>7. ASSUME NEW n \in Nodes, PutStatus(n)
      PROVE  remaining + 1 <= budget
  <2>1. rest = spare /\ later + 1 <= able
    BY <1>7, LivesStep DEF able, later, spare, rest
  <2> HIDE DEF left, after
  <2> QED
    BY <1>2, <1>3, <1>4, <2>1
<1>8. CASE UpdateCondition
  <2> DEFINE answers == check.status.answers
  <2>1. answers \in [Nodes -> Entries] /\ check \in Checks
    BY DEF TypeOK, Checks, Statuses
  <2>2. /\ check'.status = [answers |-> Typed(answers),
                            condition |-> UpdateHealthCheckCondition(answers)]
        /\ check'.request = check.request
    BY <1>8, UpdateStores
  <2>3. Judged' <=> check'.status = [answers |-> Typed(check'.status.answers),
                       condition |-> UpdateHealthCheckCondition(check'.status.answers)]
    BY <2>2 DEF Judged, UpdateHealthCheckCondition, InProgress
  <2>4. check'.status.answers = Typed(answers)
    BY <2>2
  <2>5. /\ Typed(Typed(answers)) = Typed(answers)
        /\ UpdateHealthCheckCondition(Typed(answers)) = UpdateHealthCheckCondition(answers)
    BY <2>1, JudgedAgain
  <2> HIDE DEF answers
  <2>6. after = 0
    BY <2>2, <2>3, <2>4, <2>5
  <2>7. left = 0 => check'.version = check.version
    <3>1. Judged => check'.status = check.status
      BY <2>2 DEF Judged, answers
    <3>2. PICK status \in Statuses : check' = Replaced(status)
      BY <1>8, JudgedType DEF TypeOK, UpdateCondition, Operators, Copies, Statuses
    <3>3. check'.status = status
      BY <2>1, <3>2, ReplacedStatus
    <3> QED
      BY <3>1, <3>2, <3>3 DEF Replaced
  <2>8. check'.version # check.version => check'.version = check.version + 1
    BY EveryStepHasTheShape DEF StepShape
  <2>9. left = 1 \/ check'.version = check.version
    BY <2>7
  <2> HIDE DEF left, after
  <2>10. remaining <= budget /\ (left = 1 => remaining + 1 <= budget)
    BY <1>2, <1>3, <1>4, <2>6
  <2> QED
    BY <1>5, <2>8, <2>9, <2>10 DEF budget, remaining
<1>9. CASE (Live /\ check' = [check EXCEPT !.phase = "deleted"]) \/ check' = check
  <2>1. check'.status = check.status /\ check'.request = check.request
        /\ check'.version = check.version
    BY <1>9 DEF TypeOK, Checks
  <2>2. left = after
    BY <1>6, <2>1
  <2> HIDE DEF left, after
  <2>3. remaining <= budget
    BY <1>2, <1>3, <1>4, <2>2
  <2> QED
    BY <1>5, <2>1, <2>3 DEF budget, remaining
<1>10. CASE \E n \in Nodes : PutStatus(n)
  <2>1. remaining + 1 <= budget
    BY <1>7, <1>10
  <2>2. check'.version # check.version => check'.version = check.version + 1
    BY EveryStepHasTheShape DEF StepShape
  <2>3. remaining <= budget
    BY <1>5, <2>1
  <2> QED
    BY <1>5, <2>1, <2>2, <2>3 DEF budget, remaining
<1> QED
  BY <1>8, <1>9, <1>10, ChangesOfTheCheck

\* Meeting a conflict turns a pending one into a counted one, and a new version makes one
\* pending.
LEMMA TriesStep ==
    ASSUME TypeOK, RetryInv, [Next]_vars, NEW n \in Nodes,
           driver[n].pc \in {"get", "put"}, driver'[n].pc \in {"get", "put"},
           check'.version \in {check.version, check.version + 1}
    PROVE  driver'[n].tries + Pending(n)'
              <= driver[n].tries + Pending(n)
                    + (IF check'.version = check.version THEN 0 ELSE 1)
<1> DEFINE tries == driver[n].tries
           later == driver'[n].tries
           pending == Pending(n)
           after == Pending(n)'
<1>1. tries \in Nat
  BY DEF TypeOK, Drivers
<1>2. pending \in 0 .. 1 /\ after \in 0 .. 1
  BY DEF Pending
<1>3. CASE driver'[n] = driver[n]
  <2>1. later = tries
    BY <1>3
  <2>2. check'.version = check.version => after = pending
    BY <1>3 DEF Pending
  <2> HIDE DEF tries, later, pending, after
  <2> QED
    BY <1>1, <1>2, <2>1, <2>2 DEF tries, later, pending, after
<1>4. CASE /\ driver'[n].pc = "put" /\ driver'[n].tries = tries
           /\ check' = check /\ driver'[n].copy.version = check.version
  <2>1. later = tries /\ after = 0 /\ check'.version = check.version
    BY <1>4 DEF Pending
  <2> HIDE DEF tries, later, pending, after
  <2> QED
    BY <1>1, <1>2, <2>1 DEF tries, later, pending, after
<1>5. CASE /\ driver[n].pc = "put" /\ driver[n].copy.version # check.version
           /\ check' = check /\ driver'[n].pc = "get" /\ driver'[n].tries = tries + 1
  <2>1. later = tries + 1 /\ after = 0 /\ pending = 1 /\ check'.version = check.version
    BY <1>5 DEF Pending
  <2> HIDE DEF tries, later, pending, after
  <2> QED
    BY <1>1, <1>2, <2>1 DEF tries, later, pending, after
<1> QED
  BY <1>3, <1>4, <1>5, HandlerSteps

\* A node that still has to answer is able to, so the bound leaves it an attempt.
LEMMA AttemptsLeft ==
    ASSUME TypeOK, RetryInv, Retries >= 2 * (Cardinality(Nodes) + MaxRestarts), NEW n \in Nodes
    PROVE  driver[n].tries + Pending(n) < Retries
<1>1. restarts \in Nat /\ MaxRestarts \in Nat /\ restarts <= MaxRestarts
  BY HealthCheckAssumption DEF TypeOK, RetryInv, HealthCheckAssumption
<1>2. driver[n].tries \in Nat /\ Retries \in Nat \ {0}
  BY HealthCheckAssumption DEF TypeOK, Drivers, HealthCheckAssumption
<1>3. CASE driver[n].pc \in {"get", "put"}
  <2>1. IsFiniteSet(Able) /\ Able # {}
    <3>1. Able \in SUBSET Nodes /\ n \in Able
      BY <1>3 DEF Able
    <3> QED
      BY <3>1, ConstantsType, FS_Subset
  <2>2. Cardinality(Able) \in Nat /\ Cardinality(Able) # 0
    BY <2>1, FS_CardinalityType, FS_EmptySet
  <2>3. Cardinality(Nodes) \in Nat
    BY ConstantsType, FS_CardinalityType
  <2>4. driver[n].tries + Pending(n) + Budget <= Bound /\ Pending(n) \in 0 .. 1
    BY DEF RetryInv, Pending
  <2>5. Budget >= 2
    BY <1>1, <2>2 DEF Budget, Lives
  <2>6. Budget \in Nat
    BY <1>1, <2>2 DEF Budget, Lives
  <2> HIDE DEF Budget
  <2> QED
    BY <1>1, <1>2, <2>3, <2>4, <2>5, <2>6 DEF Bound
<1>4. CASE driver[n].pc \notin {"get", "put"}
  BY <1>2, <1>4 DEF RetryInv, Pending
<1> QED
  BY <1>3, <1>4

\* The bound holds of a node that works on its answer, as the versions it loses are paid for.
LEMMA PaidStep ==
    ASSUME TypeOK, TypeOK', CopiesAreHonest, RetryInv, [Next]_vars, NEW n \in Nodes,
           driver[n].pc \in {"get", "put"}, driver'[n].pc \in {"get", "put"},
           \A request \in Requests : ~Create(request)
    PROVE  driver'[n].tries + Pending(n)' + Budget' <= Bound
<1> DEFINE tries == driver[n].tries
           later == driver'[n].tries
           pending == Pending(n)
           after == Pending(n)'
           budget == Budget
           remaining == Budget'
           new == IF check'.version = check.version THEN 0 ELSE 1
<1>1. tries \in Nat /\ later \in Nat
  BY DEF TypeOK, Drivers
<1>2. pending \in 0 .. 1 /\ after \in 0 .. 1 /\ new \in 0 .. 1
  BY DEF Pending
<1>3. budget \in Nat /\ remaining \in Nat /\ remaining + new <= budget
  <2>1. budget \in Nat /\ remaining \in Nat
    BY BudgetStep
  <2>2. remaining <= budget /\ (check'.version # check.version => remaining + 1 <= budget)
    BY BudgetStep
  <2> HIDE DEF budget, remaining
  <2> QED
    BY <2>1, <2>2
<1>4. check'.version \in {check.version, check.version + 1}
  BY BudgetStep
<1>5. later + after <= tries + pending + new
  BY <1>4, TriesStep
<1>6. tries + pending + budget <= Bound
  BY DEF RetryInv
<1>7. Bound \in Nat
  <2>1. Cardinality(Nodes) \in Nat /\ MaxRestarts \in Nat
    BY ConstantsType, FS_CardinalityType, HealthCheckAssumption DEF HealthCheckAssumption
  <2> QED
    BY <2>1 DEF Bound
<1> HIDE DEF tries, later, pending, after, budget, remaining, new, Bound
<1>8. later + after + remaining <= Bound
  BY <1>1, <1>2, <1>3, <1>5, <1>6, <1>7
<1> QED
  BY <1>8 DEF later, after, remaining

\* No step takes a node beyond what is paid for.
LEMMA RetryStep ==
    ASSUME TypeOK, TypeOK', CopiesAreHonest, RestartInv, RetryInv, [Next]_vars,
           Retries >= 2 * (Cardinality(Nodes) + MaxRestarts)
    PROVE  RetryInv'
<1>1. restarts' <= MaxRestarts
  BY LivesStep
<1>2. ASSUME NEW n \in Nodes
      PROVE  /\ driver'[n].pc \in {"repair", "get", "put"} => driver'[n].seen
             /\ driver'[n].pc \notin {"get", "put"} => driver'[n].tries = 0
  <2>1. /\ driver[n].pc \in {"repair", "get", "put"} => driver[n].seen
        /\ driver[n].pc \notin {"get", "put"} => driver[n].tries = 0
    BY DEF RetryInv
  <2>2. ASSUME driver[n].pc = "put", driver[n].copy.version # check.version
        PROVE  driver[n].tries + 1 < Retries
    BY <2>2, AttemptsLeft DEF Pending
  <2> QED
    BY <2>1, <2>2, HandlerSteps
<1>3. MaxRestarts \in Nat /\ Cardinality(Nodes) \in Nat
  BY ConstantsType, FS_CardinalityType, HealthCheckAssumption DEF HealthCheckAssumption
<1>4. Budget' \in Nat /\ Budget' <= Bound
  <2> DEFINE able == Cardinality(Able')
             rest == MaxRestarts - restarts'
             left == IF Judged' THEN 0 ELSE 1
             remaining == Budget'
  <2>1. able \in Nat /\ restarts' <= MaxRestarts /\ restarts' \in Nat
    BY LivesStep DEF TypeOK
  <2>2. able <= Cardinality(Nodes)
    <3>1. Able' \in SUBSET Nodes
      BY DEF Able
    <3> QED
      BY <3>1, ConstantsType, FS_Subset
  <2>3. rest \in Nat /\ rest <= MaxRestarts
    <3> DEFINE spent == restarts'
    <3>1. rest = MaxRestarts - spent /\ spent \in Nat /\ spent <= MaxRestarts
      BY <2>1
    <3> HIDE DEF rest, spent
    <3> QED
      BY <1>3, <3>1
  <2>4. left \in 0 .. 1
    OBVIOUS
  <2>5. remaining = 2 * (able + rest) + left
    BY DEF Budget, Lives
  <2> HIDE DEF able, rest, left, remaining
  <2>6. remaining \in Nat /\ remaining <= Bound
    BY <1>3, <2>1, <2>2, <2>3, <2>4, <2>5 DEF Bound
  <2> QED
    BY <2>6 DEF remaining
<1>5. ASSUME NEW n \in Nodes PROVE driver'[n].tries + Pending(n)' + Budget' <= Bound
  <2> DEFINE later == driver'[n].tries
             after == Pending(n)'
             remaining == Budget'
  <2>1. CASE driver'[n].pc \notin {"get", "put"}
    <3>1. later = 0 /\ after = 0
      BY <1>2, <2>1 DEF Pending
    <3>2. remaining \in Nat /\ remaining <= Bound
      BY <1>4
    <3> HIDE DEF later, after, remaining
    <3>3. later + after + remaining <= Bound
      BY <3>1, <3>2
    <3> QED
      BY <3>3 DEF later, after, remaining
  <2>2. CASE driver'[n].pc \in {"get", "put"} /\ driver[n].pc \notin {"get", "put"}
    <3>1. later = 0
      <4>1. driver'[n].tries = driver[n].tries
        BY <2>2, HandlerSteps
      <4>2. driver[n].tries = 0
        BY <2>2 DEF RetryInv
      <4> QED
        BY <4>1, <4>2
    <3>2. after = 0
      <4>1. driver'[n].pc = "get"
        BY <2>2, HandlerSteps
      <4> QED
        BY <4>1 DEF Pending
    <3>3. remaining \in Nat /\ remaining <= Bound
      BY <1>4
    <3> HIDE DEF later, after, remaining
    <3>4. later + after + remaining <= Bound
      BY <3>1, <3>2, <3>3
    <3> QED
      BY <3>4 DEF later, after, remaining
  <2>3. CASE driver'[n].pc \in {"get", "put"} /\ driver[n].pc \in {"get", "put"}
    <3>1. \A request \in Requests : ~Create(request)
      BY <2>3 DEF Create, RestartInv
    <3> QED
      BY <2>3, <3>1, PaidStep
  <2> QED
    BY <2>1, <2>2, <2>3
<1> QED
  BY <1>1, <1>2, <1>5 DEF RetryInv

\* RetriesSuffice: no node gives up its answer because of conflicts, if the attempts of
\* UpdateHealthCheckStatus's RetryOnConflict are twice as many as the nodes and restarts:
\* while a node tries, every other answer costs it two versions and the operator's first
\* judgement one.  (The default of 5 attempts covers two nodes without restarts.)
THEOREM RetriesAreEnough ==
    ASSUME Retries >= 2 * (Cardinality(Nodes) + MaxRestarts)
    PROVE  Spec => []RetriesSuffice
<1>1. Init => RestartInv /\ RetryInv
  <2> SUFFICES ASSUME Init PROVE RestartInv /\ RetryInv
    OBVIOUS
  <2>1. RestartInv
    BY DEF Init, RestartInv, AnsweringDrivers
  <2>2. \A n \in Nodes : driver[n].pc = "down" /\ driver[n].tries = 0 /\ Pending(n) = 0
    BY DEF Init, Pending
  <2>3. restarts = 0 /\ MaxRestarts \in Nat /\ Cardinality(Nodes) \in Nat
    BY ConstantsType, FS_CardinalityType, HealthCheckAssumption DEF HealthCheckAssumption, Init
  <2>4. Able = Nodes
    BY <2>2 DEF Able
  <2>5. 0 + 0 + Budget <= Bound
    BY <2>3, <2>4 DEF Budget, Lives, Bound
  <2> QED
    BY <2>1, <2>2, <2>3, <2>5 DEF RetryInv
<1>2. TypeOK /\ TypeOK' /\ CopiesAreHonest /\ RestartInv /\ RetryInv /\ [Next]_vars =>
          RestartInv' /\ RetryInv'
  BY RestartStep, RetryStep
<1>3. TypeOK /\ RetryInv => RetriesSuffice
  <2> SUFFICES ASSUME TypeOK, RetryInv, NEW n \in Nodes PROVE driver[n].tries < Retries
    BY DEF RetriesSuffice
  <2>1. driver[n].tries + Pending(n) < Retries
    BY AttemptsLeft
  <2>2. driver[n].tries \in Nat /\ Pending(n) \in 0 .. 1 /\ Retries \in Nat
    BY ConstantsType DEF TypeOK, Drivers, Pending
  <2> QED
    BY <2>1, <2>2
<1> QED
  BY <1>1, <1>2, <1>3, TypeCorrect, HonestCopies, PTL DEF Spec

================================================================================
