-------------------------- MODULE DatasetMountProofs ---------------------------
(***************************************************************************)
(* Theorems about DatasetMount, for every set of datasets and every bound. *)
(*                                                                         *)
(* MountsNeedCredentials is not inductive: it needs to know that a mount   *)
(* has a folder, that a missing target path holds nothing, that the driver *)
(* rests once the volume is torn down, and that an s3fs started with the   *)
(* old credentials has lost its folder by then.  MountInv says so.         *)
(***************************************************************************)
EXTENDS DatasetMount, TLAPS

\* A call that replaces its own record leaves both records well-formed.
LEMMA BecomesType ==
    ASSUME worker \in [Containers -> Workers], NEW w \in Containers,
           NEW record \in Workers, Becomes(w, record)
    PROVE  worker' \in [Containers -> Workers]
  BY DEF Becomes

\* The record of a container at rest is well-formed.
LEMMA IdleType == Idle \in Workers
  BY DEF Idle, Workers, Verdicts

\* Spending keeps the shape of what is spent.
LEMMA SpendType ==
    ASSUME spent \in [{"crashes", "faults", "edits", "restarts"} -> Nat],
           NEW kind \in {"crashes", "faults", "edits", "restarts"}, NEW max, Spend(kind, max)
    PROVE  spent' \in [{"crashes", "faults", "edits", "restarts"} -> Nat]
  BY DEF Spend

\* The three ways to be done with a dataset keep the records well-formed.
LEMMA OutcomeType ==
    ASSUME worker \in [Containers -> Workers], NEW w \in Containers,
           Counts(w) \/ Fails(w) \/ Skips(w) \/ Cleaned(w)
    PROVE  worker' \in [Containers -> Workers]
<1>1. worker[w] \in Workers
  OBVIOUS
<1>2. [worker[w] EXCEPT !.pc = "next", !.current = Passwd, !.count = @ + 1] \in Workers
  <2>1. worker[w].count + 1 \in Nat
    BY <1>1 DEF Workers
  <2> QED
    BY <1>1, <2>1 DEF Workers
<1>3. [worker[w] EXCEPT !.pc = "next", !.current = Passwd, !.failed = TRUE] \in Workers
  BY <1>1 DEF Workers
<1>4. [worker[w] EXCEPT !.pc = "next", !.current = Passwd] \in Workers
  BY <1>1 DEF Workers
<1>5. [worker[w] EXCEPT !.pc = "launch"] \in Workers
  BY <1>1 DEF Workers
<1> QED
  BY <1>2, <1>3, <1>4, <1>5, BecomesType DEF Counts, Fails, Skips, Cleaned

\* A started or failed s3fs keeps everything well-formed.
LEMMA LaunchType ==
    ASSUME TypeOK, NEW w \in Containers, NEW d \in Datasets, Launch(w, d)
    PROVE  TypeOK'
<1>1. worker[w] \in Workers
  BY DEF TypeOK
<1>2. [worker[w] EXCEPT !.pc = "launched", !.current = d, !.todo = @ \ {d}] \in Workers
  BY <1>1 DEF Workers
<1>3. [worker[w] EXCEPT !.pc = "next", !.current = Passwd, !.todo = @ \ {d},
                        !.failed = TRUE] \in Workers
  BY <1>1 DEF Workers
<1>4. worker' \in [Containers -> Workers]
  BY <1>2, <1>3, BecomesType DEF TypeOK, Launch
<1>5. fs' \in Files
  BY DEF TypeOK, Launch, Files
<1>6. spent' \in [{"crashes", "faults", "edits", "restarts"} -> Nat]
  BY SpendType DEF TypeOK, Launch, Fault
<1> QED
  BY <1>4, <1>5, <1>6 DEF TypeOK, Launch

\* Mounting and unmounting leave stacks of mounts.
LEMMA StackType ==
    ASSUME NEW stack \in Seq(Mounts), NEW w \in Containers
    PROVE  /\ <<[owner |-> w, live |-> TRUE]>> \o stack \in Seq(Mounts)
           /\ stack # <<>> => Tail(stack) \in Seq(Mounts)
  BY DEF Mounts, Containers

\* A stack of mounts after the processes of a container have died.
Dead(w, stack) ==
    [i \in DOMAIN stack |->
        IF stack[i].owner = w THEN [owner |-> w, live |-> FALSE] ELSE stack[i]]

\* They leave their mounts behind.
LEMMA DeadType ==
    ASSUME NEW stack \in Seq(Mounts), NEW w \in Containers
    PROVE  Dead(w, stack) \in Seq(Mounts) /\ (Dead(w, stack) = <<>> <=> stack = <<>>)
<1>1. \A i \in 1 .. Len(stack) : stack[i] \in Mounts
  OBVIOUS
<1>2. \A i \in 1 .. Len(stack) :
         (IF stack[i].owner = w THEN [owner |-> w, live |-> FALSE] ELSE stack[i]) \in Mounts
  BY <1>1 DEF Mounts
<1>3. Dead(w, stack) = [i \in 1 .. Len(stack) |->
         IF stack[i].owner = w THEN [owner |-> w, live |-> FALSE] ELSE stack[i]]
  BY DEF Dead
<1>4. Len(stack) \in Nat
  OBVIOUS
<1>5. Dead(w, stack) \in [1 .. Len(stack) -> Mounts]
  BY <1>2, <1>3
<1>6. Dead(w, stack) \in Seq(Mounts) /\ Len(Dead(w, stack)) = Len(stack)
  BY <1>4, <1>5
<1> QED
  BY <1>6

--------------------------------------------------------------------------------
(* Type correctness *)

\* What the spawned s3fs and the cleaning of a folder do keeps the types.
LEMMA MountingType ==
    ASSUME TypeOK, NEW w \in Containers, Mounting(w)
    PROVE  TypeOK'
<1> DEFINE d == worker[w].current
<1>1. worker[w] \in Workers /\ worker \in [Containers -> Workers] /\ fs \in Files
  BY DEF TypeOK
<1>2. fs.mounts \in [Datasets -> Seq(Mounts)] /\ fs.folders \subseteq Datasets
  BY <1>1 DEF Files
<1>3. CASE Attach(w)
  <2>1. [worker[w] EXCEPT !.pc = "await"] \in Workers
    BY <1>1 DEF Workers
  <2>2. worker' \in [Containers -> Workers]
    BY <1>1, <1>3, <2>1, OutcomeType, BecomesType DEF Attach
  <2>3. ASSUME d \in fs.folders,
               fs' = [fs EXCEPT !.mounts[d] = <<[owner |-> w, live |-> TRUE]>> \o @]
        PROVE  fs' \in Files
    <3>1. <<[owner |-> w, live |-> TRUE]>> \o fs.mounts[d] \in Seq(Mounts)
      BY <1>2, <2>3, StackType
    <3>2. [fs.mounts EXCEPT ![d] = <<[owner |-> w, live |-> TRUE]>> \o fs.mounts[d]]
             \in [Datasets -> Seq(Mounts)]
      BY <1>2, <3>1
    <3> QED
      BY <1>1, <2>3, <3>2 DEF Files
  <2> QED
    BY <1>3, <2>2, <2>3 DEF Attach, TypeOK
<1>4. CASE WaitForMount(w)
  <2>1. worker' \in [Containers -> Workers]
    BY <1>1, <1>4, OutcomeType DEF WaitForMount
  <2> QED
    BY <1>4, <2>1 DEF WaitForMount, TypeOK
<1>5. CASE CleanUnmount(w)
  <2>1. [worker[w] EXCEPT !.pc = "remove"] \in Workers
    BY <1>1 DEF Workers
  <2>2. worker' \in [Containers -> Workers]
    BY <1>1, <1>5, <2>1, OutcomeType, BecomesType DEF CleanUnmount
  <2>3. ASSUME d \in fs.folders, Mounted(d), fs' = [fs EXCEPT !.mounts[d] = Tail(@)]
        PROVE  fs' \in Files
    <3>1. Tail(fs.mounts[d]) \in Seq(Mounts)
      BY <1>2, <2>3, StackType DEF Mounted, Containers
    <3>2. [fs.mounts EXCEPT ![d] = Tail(fs.mounts[d])] \in [Datasets -> Seq(Mounts)]
      BY <1>2, <3>1
    <3> QED
      BY <1>1, <2>3, <3>2 DEF Files
  <2>4. fs' \in Files
    BY <1>1, <1>5, <2>3 DEF CleanUnmount
  <2>5. spent' \in [{"crashes", "faults", "edits", "restarts"} -> Nat]
    BY <1>5, SpendType DEF CleanUnmount, Fault, TypeOK
  <2> QED
    BY <1>5, <2>2, <2>4, <2>5 DEF CleanUnmount, TypeOK
<1>6. CASE CleanRemove(w)
  <2>1. worker' \in [Containers -> Workers]
    BY <1>1, <1>6, OutcomeType DEF CleanRemove
  <2>2. fs' \in Files
    BY <1>1, <1>6 DEF CleanRemove, Files
  <2> QED
    BY <1>6, <2>1, <2>2 DEF CleanRemove, TypeOK
<1> QED
  BY <1>3, <1>4, <1>5, <1>6 DEF Mounting

\* The steps of a publication keep the types.
LEMMA PublishType ==
    ASSUME TypeOK, BeginPublish \/ EndPublish
    PROVE  TypeOK'
<1> USE DEF TypeOK
<1>1. "driver" \in Containers
  BY DEF Containers
<1>2. Idle \in Workers
  BY IdleType
<1>3. spent' \in [{"crashes", "faults", "edits", "restarts"} -> Nat]
  BY SpendType DEF BeginPublish, EndPublish, Fault
<1>4. CASE BeginPublish
  <2>1. [Idle EXCEPT !.pc = "next", !.list = catalog, !.todo = Matching(catalog),
                     !.failed = Invalid(catalog) # {}] \in Workers
    BY <1>2 DEF Workers, Matching
  <2>2. [Idle EXCEPT !.pc = "next", !.failed = TRUE] \in Workers
    BY <1>2 DEF Workers
  <2>3. worker' \in [Containers -> Workers]
    BY <1>1, <1>2, <1>4, <2>1, <2>2, BecomesType DEF BeginPublish, Published
  <2>4. fs' \in Files
    BY <1>4 DEF BeginPublish, Files
  <2>5. pod' \in Pods /\ kubelet' \in {"idle", "publish", "unpublish", "torn"}
    BY <1>4 DEF BeginPublish, Published, Pods
  <2> QED
    BY <1>3, <1>4, <2>3, <2>4, <2>5 DEF BeginPublish
<1>5. CASE EndPublish
  <2>1. worker' \in [Containers -> Workers] /\ kubelet' \in {"idle", "publish", "unpublish", "torn"}
    BY <1>1, <1>2, <1>5, BecomesType DEF EndPublish, Published
  <2>2. PublishReason(worker["driver"].count, worker["driver"].failed) \in Reasons
    BY DEF PublishReason, Reasons
  <2>3. pod' \in Pods
    BY <1>5, <2>2 DEF EndPublish, Pods
  <2> QED
    BY <1>3, <1>5, <2>1, <2>3 DEF EndPublish
<1> QED
  BY <1>4, <1>5

\* The steps of unpublish keep the types.
LEMMA UnpublishType ==
    ASSUME TypeOK,
           \/ BeginUnpublish
           \/ \E name \in Datasets \cup {Passwd} : UnpublishName(name)
           \/ EndUnpublish
    PROVE  TypeOK'
<1> USE DEF TypeOK
<1>1. "driver" \in Containers /\ Idle \in Workers /\ worker["driver"] \in Workers
  BY IdleType DEF Containers
<1>2. CASE BeginUnpublish
  <2>1. fs.folders \cup (IF fs.passwd THEN {Passwd} ELSE {}) \subseteq Datasets \cup {Passwd}
    BY DEF Files
  <2>2. [Idle EXCEPT !.pc = "next",
           !.todo = fs.folders \cup (IF fs.passwd THEN {Passwd} ELSE {})] \in Workers
    BY <1>1, <2>1 DEF Workers
  <2>3. [Idle EXCEPT !.pc = "next"] \in Workers
    BY <1>1 DEF Workers
  <2>4. worker' \in [Containers -> Workers]
    BY <1>1, <1>2, <2>2, <2>3, BecomesType DEF BeginUnpublish
  <2>5. spent' \in [{"crashes", "faults", "edits", "restarts"} -> Nat]
    BY <1>2, SpendType DEF BeginUnpublish, Fault
  <2> QED
    BY <1>2, <2>4, <2>5 DEF BeginUnpublish
<1>3. ASSUME NEW name \in Datasets \cup {Passwd}, UnpublishName(name) PROVE TypeOK'
  <2>1. [worker["driver"] EXCEPT !.todo = @ \ {name}] \in Workers
    BY <1>1 DEF Workers
  <2>2. [worker["driver"] EXCEPT !.pc = "clean", !.current = name, !.todo = @ \ {name}] \in Workers
    BY <1>1 DEF Workers
  <2>3. worker' \in [Containers -> Workers]
    BY <1>1, <1>3, <2>1, <2>2, BecomesType DEF UnpublishName
  <2>4. fs' \in Files
    BY <1>3 DEF UnpublishName, Files
  <2> QED
    BY <1>3, <2>3, <2>4 DEF UnpublishName
<1>4. CASE EndUnpublish
  <2>1. worker' \in [Containers -> Workers]
    BY <1>1, <1>4, BecomesType DEF EndUnpublish
  <2>2. fs' \in Files
    BY <1>4 DEF EndUnpublish, Files
  <2> QED
    BY <1>4, <2>1, <2>2 DEF EndUnpublish
<1> QED
  BY <1>2, <1>3, <1>4

\* The steps of a repair keep the types.
LEMMA ReconcileType ==
    ASSUME TypeOK,
           \/ \E scope \in Scopes : BeginCheck(scope)
           \/ BeginReconcile
           \/ \E d \in Datasets : Inspect(d)
           \/ EndReconcile
    PROVE  TypeOK'
<1> USE DEF TypeOK
<1>1. "reconciler" \in Containers /\ Idle \in Workers /\ worker["reconciler"] \in Workers
  BY IdleType DEF Containers
<1>2. ASSUME NEW scope \in Scopes, BeginCheck(scope) PROVE TypeOK'
  <2>1. [d \in Datasets |-> IF d \in scope THEN catalog[d] ELSE "absent"] \in [Datasets -> Verdicts]
    BY DEF Verdicts
  <2>2. [Idle EXCEPT !.pc = "listed",
           !.list = [d \in Datasets |-> IF d \in scope THEN catalog[d] ELSE "absent"]] \in Workers
    BY <1>1, <2>1 DEF Workers
  <2>3. worker' \in [Containers -> Workers]
    BY <1>1, <1>2, <2>2, BecomesType DEF BeginCheck
  <2> QED
    BY <1>2, <2>3 DEF BeginCheck
<1>3. CASE BeginReconcile
  <2> DEFINE list == worker["reconciler"].list
             todo == Matching(list) \cup (Listed(list) \cap fs.folders)
             failed == Invalid(list) \ fs.folders # {}
  <2>1. todo \subseteq Datasets \cup {Passwd} /\ failed \in BOOLEAN
    BY DEF Matching, Listed
  <2> HIDE DEF todo, failed
  <2>2. [worker["reconciler"] EXCEPT !.pc = "next", !.todo = todo, !.failed = failed] \in Workers
    BY <1>1, <2>1 DEF Workers
  <2>3. /\ [Idle EXCEPT !.pc = "next"] \in Workers
        /\ [Idle EXCEPT !.pc = "next", !.failed = TRUE] \in Workers
    BY <1>1 DEF Workers
  <2>4. worker' \in [Containers -> Workers]
    BY <1>1, <1>3, <2>2, <2>3, BecomesType DEF BeginReconcile, todo, failed
  <2>5. fs' \in Files
    BY <1>3 DEF BeginReconcile, Files
  <2>6. spent' \in [{"crashes", "faults", "edits", "restarts"} -> Nat]
    BY <1>3, SpendType DEF BeginReconcile, Fault
  <2> QED
    BY <1>3, <2>4, <2>5, <2>6 DEF BeginReconcile
<1>4. ASSUME NEW d \in Datasets, Inspect(d) PROVE TypeOK'
  <2> DEFINE examined == [worker["reconciler"] EXCEPT !.current = d, !.todo = @ \ {d}]
  <2>1. examined \in Workers
    BY <1>1 DEF Workers
  <2>2. /\ [examined EXCEPT !.pc = "launch"] \in Workers
        /\ [examined EXCEPT !.pc = "clean"] \in Workers
        /\ [examined EXCEPT !.current = Passwd] \in Workers
    BY <2>1 DEF Workers
  <2>3. worker' \in [Containers -> Workers]
    BY <1>1, <1>4, <2>2, BecomesType DEF Inspect
  <2>4. spent' \in [{"crashes", "faults", "edits", "restarts"} -> Nat]
    BY <1>4, SpendType DEF Inspect, Fault
  <2> QED
    BY <1>4, <2>3, <2>4 DEF Inspect
<1>5. CASE EndReconcile
  <2>1. worker' \in [Containers -> Workers]
    BY <1>1, <1>5, BecomesType DEF EndReconcile
  <2>2. ReconcileReason(worker["reconciler"].count, worker["reconciler"].failed) \in Reasons
    BY DEF ReconcileReason, Reasons
  <2>3. pod' \in Pods
    BY <1>5, <2>2 DEF EndReconcile, Pods
  <2>4. spent' \in [{"crashes", "faults", "edits", "restarts"} -> Nat]
    BY <1>5, SpendType DEF EndReconcile, Fault
  <2> QED
    BY <1>5, <2>1, <2>3, <2>4 DEF EndReconcile
<1> QED
  BY <1>2, <1>3, <1>4, <1>5

\* The steps of the surroundings keep the types.
LEMMA SurroundingsType ==
    ASSUME TypeOK,
           \/ \E w \in Containers : Crash(w)
           \/ \E d \in Datasets : Edit(d)
           \/ KubeletRestart \/ DeletePod \/ TearDown \/ Forget
    PROVE  TypeOK'
<1> USE DEF TypeOK
<1>1. ASSUME NEW w \in Containers, Crash(w) PROVE TypeOK'
  <2>1. fs' = [fs EXCEPT !.mounts = [d \in Datasets |-> Dead(w, fs.mounts[d])]]
    BY <1>1 DEF Crash, Dead
  <2>2. [d \in Datasets |-> Dead(w, fs.mounts[d])] \in [Datasets -> Seq(Mounts)]
    BY DeadType DEF Files
  <2>3. fs' \in Files
    BY <2>1, <2>2 DEF Files
  <2>4. worker' \in [Containers -> Workers]
    BY <1>1, IdleType, BecomesType DEF Crash
  <2>5. spent' \in [{"crashes", "faults", "edits", "restarts"} -> Nat]
    BY <1>1, SpendType DEF Crash
  <2> QED
    BY <1>1, <2>3, <2>4, <2>5 DEF Crash
<1>2. ASSUME NEW d \in Datasets, Edit(d) PROVE TypeOK'
  <2>1. spent' \in [{"crashes", "faults", "edits", "restarts"} -> Nat]
    BY <1>2, SpendType DEF Edit
  <2> QED
    BY <1>2, <2>1 DEF Edit
<1>3. CASE KubeletRestart
  <2>1. spent' \in [{"crashes", "faults", "edits", "restarts"} -> Nat]
    BY <1>3, SpendType DEF KubeletRestart
  <2> QED
    BY <1>3, <2>1 DEF KubeletRestart
<1>4. CASE DeletePod
  BY <1>4 DEF DeletePod, Pods
<1>5. CASE TearDown
  BY <1>5 DEF TearDown
<1>6. CASE Forget
  BY <1>6 DEF Forget, Pods
<1> QED
  BY <1>1, <1>2, <1>3, <1>4, <1>5, <1>6

--------------------------------------------------------------------------------
(* The inductive invariant *)

\* A container that works on a dataset knows which one.
Holding(record) ==
    record.pc \in {"clean", "remove", "launch", "launched", "await"}
        => record.current \in Datasets

InHand == \A w \in Containers : Holding(worker[w])

\* What is mounted has a folder, and what is in the target path has the path.
Nested ==
    /\ \A d \in Datasets : Mounted(d) => d \in fs.folders
    /\ fs.folders # {} \/ fs.passwd => fs.root

\* The driver is done with a volume that is torn down.
Resting == kubelet = "torn" => worker["driver"].pc = "idle"

\* Then, without credentials, nothing is mounted or about to be.
Bare == kubelet = "torn" /\ ~fs.passwd =>
    /\ \A d \in Datasets : ~Mounted(d)
    /\ \A w \in Containers :
          worker[w].pc = "launched" => worker[w].current \notin fs.folders

MountInv == InHand /\ Nested /\ Resting /\ Bare

\* Records that hold on to a dataset replace others that do.
LEMMA BecomesHolding ==
    ASSUME TypeOK, InHand, NEW w \in Containers, NEW record, Holding(record),
           Becomes(w, record)
    PROVE  InHand'
<1>1. worker' = [worker EXCEPT ![w] = record] /\ worker \in [Containers -> Workers]
  BY DEF Becomes, TypeOK
<1>2. \A x \in Containers : worker'[x] = record \/ worker'[x] = worker[x]
  BY <1>1
<1> QED
  BY <1>2 DEF InHand, Holding

\* So do the three ways to be done with a dataset, and cleaning its folder.
LEMMA OutcomeHolding ==
    ASSUME TypeOK, InHand, NEW w \in Containers,
           \/ Counts(w) \/ Fails(w) \/ Skips(w)
           \/ worker[w].pc = "remove" /\ Cleaned(w)
           \/ worker[w].pc = "clean" /\ Cleaned(w)
    PROVE  InHand'
<1>1. worker[w] \in Workers /\ Holding(worker[w])
  BY DEF TypeOK, InHand
<1>2. /\ Holding([worker[w] EXCEPT !.pc = "next", !.current = Passwd, !.count = @ + 1])
      /\ Holding([worker[w] EXCEPT !.pc = "next", !.current = Passwd, !.failed = TRUE])
      /\ Holding([worker[w] EXCEPT !.pc = "next", !.current = Passwd])
  BY <1>1 DEF Holding, Workers
<1>3. worker[w].pc \in {"remove", "clean"} => Holding([worker[w] EXCEPT !.pc = "launch"])
  BY <1>1 DEF Holding, Workers
<1> QED
  BY <1>2, <1>3, BecomesHolding DEF Counts, Fails, Skips, Cleaned

\* Starting s3fs takes up the dataset it is started for.
LEMMA LaunchHolding ==
    ASSUME TypeOK, InHand, NEW w \in Containers, NEW d \in Datasets, Launch(w, d)
    PROVE  InHand'
<1>1. worker[w] \in Workers
  BY DEF TypeOK
<1>2. /\ Holding([worker[w] EXCEPT !.pc = "launched", !.current = d, !.todo = @ \ {d}])
      /\ Holding([worker[w] EXCEPT !.pc = "next", !.current = Passwd, !.todo = @ \ {d},
                                   !.failed = TRUE])
  BY <1>1 DEF Holding, Workers
<1> QED
  BY <1>2, BecomesHolding DEF Launch

\* Attaching, waiting and cleaning work on the dataset taken up before.
LEMMA MountingHolding ==
    ASSUME TypeOK, InHand, NEW w \in Containers, Mounting(w)
    PROVE  InHand'
<1>1. worker[w] \in Workers /\ Holding(worker[w])
  BY DEF TypeOK, InHand
<1>2. /\ worker[w].pc = "launched" => Holding([worker[w] EXCEPT !.pc = "await"])
      /\ worker[w].pc = "clean" => Holding([worker[w] EXCEPT !.pc = "remove"])
  BY <1>1 DEF Holding, Workers
<1> QED
  BY <1>2, BecomesHolding, OutcomeHolding
     DEF Mounting, Attach, WaitForMount, CleanUnmount, CleanRemove

\* Publish and unpublish take up a dataset only to clean its folder.
LEMMA DriverHolding ==
    ASSUME TypeOK, InHand,
           \/ BeginPublish \/ EndPublish \/ BeginUnpublish \/ EndUnpublish
           \/ \E name \in Datasets \cup {Passwd} : UnpublishName(name)
    PROVE  InHand'
<1>1. "driver" \in Containers /\ worker["driver"] \in Workers /\ Holding(worker["driver"])
  BY DEF Containers, TypeOK, InHand
<1>2. Holding(Idle)
  BY DEF Holding, Idle
<1>3. /\ Holding([Idle EXCEPT !.pc = "next", !.list = catalog, !.todo = Matching(catalog),
                              !.failed = Invalid(catalog) # {}])
      /\ Holding([Idle EXCEPT !.pc = "next", !.failed = TRUE])
      /\ Holding([Idle EXCEPT !.pc = "next"])
      /\ \A names : Holding([Idle EXCEPT !.pc = "next", !.todo = names])
  BY DEF Holding, Idle
<1>4. CASE BeginPublish \/ EndPublish \/ BeginUnpublish \/ EndUnpublish
  <2>1. worker' = worker => InHand'
    BY DEF InHand
  <2> QED
    BY <1>1, <1>2, <1>3, <1>4, <2>1, BecomesHolding
       DEF BeginPublish, EndPublish, BeginUnpublish, EndUnpublish, Published
<1>5. ASSUME NEW name \in Datasets \cup {Passwd}, UnpublishName(name) PROVE InHand'
  <2>1. Holding([worker["driver"] EXCEPT !.todo = @ \ {name}])
    BY <1>1 DEF Holding, Workers
  <2>2. name # Passwd => Holding([worker["driver"] EXCEPT
                             !.pc = "clean", !.current = name, !.todo = @ \ {name}])
    BY <1>1 DEF Holding, Workers
  <2> QED
    BY <1>1, <1>5, <2>1, <2>2, BecomesHolding DEF UnpublishName
<1> QED
  BY <1>4, <1>5

\* A repair takes up a dataset when it looks at the folder.
LEMMA ReconcileHolding ==
    ASSUME TypeOK, InHand,
           \/ \E scope \in Scopes : BeginCheck(scope)
           \/ BeginReconcile
           \/ \E d \in Datasets : Inspect(d)
           \/ EndReconcile
    PROVE  InHand'
<1>1. "reconciler" \in Containers /\ worker["reconciler"] \in Workers
  BY DEF Containers, TypeOK
<1>2. /\ Holding(Idle)
      /\ \A list : Holding([Idle EXCEPT !.pc = "listed", !.list = list])
      /\ Holding([Idle EXCEPT !.pc = "next"])
      /\ Holding([Idle EXCEPT !.pc = "next", !.failed = TRUE])
      /\ \A names, fail : Holding([worker["reconciler"] EXCEPT
                              !.pc = "next", !.todo = names, !.failed = fail])
  BY <1>1 DEF Holding, Idle, Workers
<1>3. CASE \/ \E scope \in Scopes : BeginCheck(scope)
           \/ BeginReconcile \/ EndReconcile
  BY <1>1, <1>2, <1>3, BecomesHolding DEF BeginCheck, BeginReconcile, EndReconcile
<1>4. ASSUME NEW d \in Datasets, Inspect(d) PROVE InHand'
  <2> DEFINE examined == [worker["reconciler"] EXCEPT !.current = d, !.todo = @ \ {d}]
  <2>1. examined \in Workers /\ examined.current = d
    BY <1>1 DEF Workers
  <2>2. worker["reconciler"].pc = "next" => examined.pc = "next"
    BY <1>1 DEF Workers
  <2>3. /\ Holding([examined EXCEPT !.pc = "launch"])
        /\ Holding([examined EXCEPT !.pc = "clean"])
        /\ examined.pc = "next" => Holding([examined EXCEPT !.current = Passwd])
    BY <2>1 DEF Holding, Workers
  <2> QED
    BY <1>1, <1>4, <2>2, <2>3, BecomesHolding DEF Inspect
<1> QED
  BY <1>3, <1>4

\* Together with the types, holding on is inductive.
LEMMA HoldingStep ==
    ASSUME TypeOK, InHand, [Next]_vars
    PROVE  TypeOK' /\ InHand'
<1>1. CASE UNCHANGED vars
  BY <1>1 DEF vars, TypeOK, InHand
<1>2. ASSUME NEW d \in Datasets, PublishDataset(d) PROVE TypeOK' /\ InHand'
  BY <1>2, LaunchType, LaunchHolding DEF PublishDataset, Containers
<1>3. CASE Remount
  <2>1. worker["reconciler"].pc = "launch" => worker["reconciler"].current \in Datasets
    BY DEF InHand, Holding, Containers
  <2> QED
    BY <1>3, <2>1, LaunchType, LaunchHolding DEF Remount, Containers
<1>4. CASE Mounting("driver") \/ Mounting("reconciler")
  BY <1>4, MountingType, MountingHolding DEF Containers
<1>5. CASE \/ BeginPublish \/ EndPublish \/ BeginUnpublish \/ EndUnpublish
           \/ \E name \in Datasets \cup {Passwd} : UnpublishName(name)
  BY <1>5, PublishType, UnpublishType, DriverHolding
<1>6. CASE \/ \E scope \in Scopes : BeginCheck(scope)
           \/ BeginReconcile \/ EndReconcile
           \/ \E d \in Datasets : Inspect(d)
  BY <1>6, ReconcileType, ReconcileHolding
<1>7. ASSUME NEW w \in Containers, Crash(w) PROVE TypeOK' /\ InHand'
  <2>1. Holding(Idle)
    BY DEF Holding, Idle
  <2> QED
    BY <1>7, <2>1, SurroundingsType, BecomesHolding DEF Crash
<1>8. CASE \/ \E d \in Datasets : Edit(d)
           \/ KubeletRestart \/ DeletePod \/ TearDown \/ Forget
  BY <1>8, SurroundingsType DEF Edit, KubeletRestart, DeletePod, TearDown, Forget, InHand
<1> QED
  BY <1>1, <1>2, <1>3, <1>4, <1>5, <1>6, <1>7, <1>8
     DEF Next, DriverStep, ReconcilerStep, Terminated

\* Both containers are at rest at first.
LEMMA HoldingInit == Init => TypeOK /\ InHand
<1> SUFFICES ASSUME Init PROVE TypeOK /\ InHand
  OBVIOUS
<1>1. fs \in Files
  BY DEF Init, Files
<1>2. worker \in [Containers -> Workers] /\ \A w \in Containers : worker[w] = Idle
  BY IdleType DEF Init
<1>3. pod \in Pods /\ catalog \in [Datasets -> Verdicts]
  BY DEF Init, Pods, Reasons, Verdicts
<1>4. InHand
  BY <1>2 DEF InHand, Holding, Idle
<1> QED
  BY <1>1, <1>2, <1>3, <1>4 DEF Init, TypeOK

\* The variables of the model always have their types.
THEOREM TypeCorrect == Spec => []TypeOK
  BY HoldingInit, HoldingStep, PTL DEF Spec

--------------------------------------------------------------------------------
(* Nothing is mounted without credentials *)

\* Every step keeps mounts in folders and folders in the target path.
LEMMA NestedStep ==
    ASSUME TypeOK, InHand, Nested, [Next]_vars
    PROVE  Nested'
<1> USE DEF Nested, Mounted
<1>1. fs \in Files /\ worker \in [Containers -> Workers]
  BY DEF TypeOK
<1>2. fs.mounts \in [Datasets -> Seq(Mounts)] /\ fs.folders \subseteq Datasets
  BY <1>1 DEF Files
<1>3. ASSUME UNCHANGED fs PROVE Nested'
  BY <1>3
<1>4. ASSUME NEW w \in Containers, NEW d \in Datasets, Launch(w, d) PROVE Nested'
  BY <1>1, <1>4 DEF Launch, Files
<1>5. ASSUME NEW w \in Containers, Attach(w) PROVE Nested'
  <2> DEFINE d == worker[w].current
  <2>1. CASE /\ d \in fs.folders
             /\ fs' = [fs EXCEPT !.mounts[d] = <<[owner |-> w, live |-> TRUE]>> \o @]
    <3>1. \A x \in Datasets : x # d => fs'.mounts[x] = fs.mounts[x]
      BY <1>1, <1>2, <2>1 DEF Files
    <3>2. fs'.folders = fs.folders /\ fs'.root = fs.root /\ fs'.passwd = fs.passwd
      BY <1>1, <2>1 DEF Files
    <3> QED
      BY <2>1, <3>1, <3>2
  <2> QED
    BY <1>3, <1>5, <2>1 DEF Attach
<1>6. ASSUME NEW w \in Containers, CleanUnmount(w) PROVE Nested'
  <2> DEFINE d == worker[w].current
  <2>1. CASE d \in fs.folders /\ fs' = [fs EXCEPT !.mounts[d] = Tail(@)]
    <3>1. \A x \in Datasets : x # d => fs'.mounts[x] = fs.mounts[x]
      BY <1>1, <1>2, <2>1 DEF Files
    <3>2. fs'.folders = fs.folders /\ fs'.root = fs.root /\ fs'.passwd = fs.passwd
      BY <1>1, <2>1 DEF Files
    <3> QED
      BY <2>1, <3>1, <3>2
  <2> QED
    BY <1>3, <1>6, <2>1 DEF CleanUnmount
<1>7. ASSUME NEW w \in Containers, CleanRemove(w) PROVE Nested'
  <2> DEFINE d == worker[w].current
  <2>1. CASE ~Mounted(d) /\ fs' = [fs EXCEPT !.folders = @ \ {d}]
    BY <1>1, <2>1 DEF Files
  <2> QED
    BY <1>3, <1>7, <2>1 DEF CleanRemove
<1>8. CASE BeginPublish
  BY <1>1, <1>8 DEF BeginPublish, Files
<1>9. ASSUME NEW name \in Datasets \cup {Passwd}, UnpublishName(name) PROVE Nested'
  BY <1>1, <1>9 DEF UnpublishName, Files
<1>10. CASE EndUnpublish
  BY <1>1, <1>10 DEF EndUnpublish, Files
<1>11. CASE BeginReconcile
  BY <1>1, <1>11 DEF BeginReconcile, Files
<1>12. ASSUME NEW w \in Containers, Crash(w) PROVE Nested'
  <2>1. fs' = [fs EXCEPT !.mounts = [d \in Datasets |-> Dead(w, fs.mounts[d])]]
    BY <1>12 DEF Crash, Dead
  <2>2. \A d \in Datasets : fs'.mounts[d] = <<>> <=> fs.mounts[d] = <<>>
    BY <1>1, <1>2, <2>1, DeadType DEF Files
  <2>3. fs'.folders = fs.folders /\ fs'.root = fs.root /\ fs'.passwd = fs.passwd
    BY <1>1, <2>1 DEF Files
  <2> QED
    BY <2>2, <2>3
<1>13. CASE Remount
  <2>1. worker["reconciler"].current \in Datasets /\ "reconciler" \in Containers
    BY <1>13 DEF Remount, InHand, Holding, Containers
  <2> QED
    BY <1>4, <1>13, <2>1 DEF Remount
<1>14. ASSUME NEW d \in Datasets, PublishDataset(d) PROVE Nested'
  BY <1>4, <1>14 DEF PublishDataset, Containers
<1>15. ASSUME NEW w \in Containers, Mounting(w) PROVE Nested'
  BY <1>3, <1>5, <1>6, <1>7, <1>15 DEF Mounting, WaitForMount
<1>16. CASE \/ UNCHANGED vars \/ EndPublish \/ BeginUnpublish \/ EndReconcile
            \/ \E scope \in Scopes : BeginCheck(scope)
            \/ \E d \in Datasets : Inspect(d) \/ Edit(d)
            \/ KubeletRestart \/ DeletePod \/ TearDown \/ Forget
  BY <1>3, <1>16 DEF vars, EndPublish, BeginUnpublish, EndReconcile, BeginCheck, Inspect,
     Edit, KubeletRestart, DeletePod, TearDown, Forget
<1> QED
  BY <1>8, <1>9, <1>10, <1>11, <1>12, <1>13, <1>14, <1>15, <1>16
     DEF Next, DriverStep, ReconcilerStep, Terminated, Containers

\* Unpublish ends with the call that takes the volume down, and no call of the
\* driver begins after it.
LEMMA RestingStep ==
    ASSUME TypeOK, Resting, [Next]_vars
    PROVE  Resting'
<1> USE DEF Resting
<1>1. worker \in [Containers -> Workers] /\ "driver" \in Containers
  BY DEF TypeOK, Containers
<1>2. ASSUME UNCHANGED <<worker, kubelet>> PROVE Resting'
  BY <1>2
<1>3. ASSUME kubelet' # "torn" PROVE Resting'
  BY <1>3
<1>4. ASSUME Becomes("driver", Idle) PROVE Resting'
  BY <1>1, <1>4 DEF Becomes, Idle
<1>5. ASSUME NEW record, Becomes("reconciler", record), UNCHANGED kubelet PROVE Resting'
  <2>1. worker'["driver"] = worker["driver"]
    BY <1>1, <1>5 DEF Becomes
  <2> QED
    BY <1>5, <2>1
<1>6. CASE BeginUnpublish
  BY <1>1, <1>6 DEF BeginUnpublish
<1>7. CASE EndUnpublish \/ EndPublish \/ BeginPublish
  BY <1>3, <1>4, <1>7 DEF EndUnpublish, EndPublish, BeginPublish, Published
<1>8. ASSUME NEW name, UnpublishName(name) PROVE Resting'
  BY <1>8 DEF UnpublishName
<1>9. ASSUME NEW d, PublishDataset(d) PROVE Resting'
  BY <1>9 DEF PublishDataset, Launch
<1>10. CASE Mounting("driver")
  BY <1>10 DEF Mounting, Attach, WaitForMount, CleanUnmount, CleanRemove
<1>11. CASE Mounting("reconciler")
  BY <1>5, <1>11 DEF Mounting, Attach, WaitForMount, CleanUnmount, CleanRemove,
     Counts, Fails, Skips, Cleaned
<1>12. CASE \/ \E scope \in Scopes : BeginCheck(scope)
            \/ BeginReconcile \/ EndReconcile \/ Remount
            \/ \E d \in Datasets : Inspect(d)
  BY <1>5, <1>12 DEF BeginCheck, BeginReconcile, EndReconcile, Remount, Launch, Inspect
<1>13. ASSUME NEW w \in Containers, Crash(w) PROVE Resting'
  BY <1>4, <1>5, <1>13 DEF Crash, Containers
<1>14. CASE UNCHANGED vars \/ DeletePod \/ Forget \/ \E d \in Datasets : Edit(d)
  BY <1>2, <1>14 DEF vars, DeletePod, Forget, Edit
<1>15. CASE KubeletRestart \/ TearDown
  BY <1>3, <1>15 DEF KubeletRestart, TearDown
<1> QED
  BY <1>6, <1>7, <1>8, <1>9, <1>10, <1>11, <1>12, <1>13, <1>14, <1>15
     DEF Next, DriverStep, ReconcilerStep, Terminated

\* A torn-down volume without credentials stays without mounts: an s3fs needs
\* the credentials to start, and one that has started needs its folder.
LEMMA BareStep ==
    ASSUME TypeOK, InHand, Nested, Resting, Bare, [Next]_vars
    PROVE  Bare'
<1> SUFFICES ASSUME kubelet' = "torn", ~fs'.passwd
             PROVE  /\ \A d \in Datasets : fs'.mounts[d] = <<>>
                    /\ \A w \in Containers :
                          worker'[w].pc = "launched" => worker'[w].current \notin fs'.folders
  BY DEF Bare, Mounted
<1>1. fs \in Files /\ worker \in [Containers -> Workers]
  BY DEF TypeOK
<1>2. "driver" \in Containers /\ "reconciler" \in Containers
  BY DEF Containers
<1>3. CASE kubelet # "torn"
  <2>1. kubelet' # kubelet
    BY <1>3
  <2>2. (BeginUnpublish /\ ~fs.root) \/ (EndUnpublish /\ fs.folders = {})
    <3>1. BeginUnpublish \/ EndUnpublish
      BY <2>1 DEF vars, Next, DriverStep, ReconcilerStep, Terminated, BeginPublish, Published,
         PublishDataset, Launch, EndPublish, UnpublishName, Mounting, Attach, WaitForMount,
         CleanUnmount, CleanRemove, BeginCheck, BeginReconcile, Inspect, Remount, EndReconcile,
         Crash, Edit, KubeletRestart, DeletePod, TearDown, Forget
    <3> QED
      BY <2>1, <3>1 DEF BeginUnpublish, EndUnpublish
  <2>3. fs.folders = {} /\ \A d \in Datasets : fs.mounts[d] = <<>>
    BY <2>2 DEF Nested, Mounted
  <2>4. fs'.folders = fs.folders /\ fs'.mounts = fs.mounts
    BY <1>1, <2>1, <2>2 DEF BeginUnpublish, EndUnpublish, Files
  <2> QED
    BY <2>3, <2>4
<1>4. CASE kubelet = "torn"
  <2>1. worker["driver"].pc = "idle"
    BY <1>4 DEF Resting
  <2>2. \/ UNCHANGED <<fs, worker>>
        \/ \E scope \in Scopes : BeginCheck(scope)
        \/ ReconcilerStep
        \/ \E w \in Containers : Crash(w)
    BY <1>4, <2>1 DEF vars, Next, DriverStep, Terminated, BeginPublish, PublishDataset, EndPublish,
       BeginUnpublish, UnpublishName, EndUnpublish, Mounting, Attach, WaitForMount, CleanUnmount,
       CleanRemove, Edit, KubeletRestart, DeletePod, TearDown, Forget
  <2>3. ~fs.passwd
    BY <1>1, <2>2 DEF BeginCheck, ReconcilerStep, BeginReconcile, Inspect, Remount, Launch,
       EndReconcile, Mounting, Attach, WaitForMount, CleanUnmount, CleanRemove, Crash, Files
  <2>4. /\ \A d \in Datasets : fs.mounts[d] = <<>>
        /\ \A w \in Containers : worker[w].pc = "launched" => worker[w].current \notin fs.folders
    BY <1>4, <2>3 DEF Bare, Mounted
  <2>5. ASSUME fs'.mounts = fs.mounts, fs'.folders \subseteq fs.folders,
               worker'["driver"] = worker["driver"],
               worker'["reconciler"] = worker["reconciler"] \/ worker'["reconciler"].pc # "launched"
        PROVE  /\ \A d \in Datasets : fs'.mounts[d] = <<>>
               /\ \A w \in Containers :
                     worker'[w].pc = "launched" => worker'[w].current \notin fs'.folders
    BY <2>4, <2>5 DEF Containers
  <2>6. ASSUME NEW record, Becomes("reconciler", record), record.pc # "launched"
        PROVE  worker'["driver"] = worker["driver"] /\ worker'["reconciler"].pc # "launched"
    BY <1>1, <1>2, <2>6 DEF Becomes
  <2>7. worker["reconciler"] \in Workers
    BY <1>1, <1>2
  <2>8. ASSUME Fails("reconciler") \/ Skips("reconciler") \/ Counts("reconciler")
               \/ Cleaned("reconciler")
        PROVE  worker'["driver"] = worker["driver"] /\ worker'["reconciler"].pc # "launched"
    BY <2>6, <2>7, <2>8 DEF Fails, Skips, Counts, Cleaned, Workers
  <2>9. CASE UNCHANGED <<fs, worker>>
    BY <2>5, <2>9
  <2>10. CASE \E scope \in Scopes : BeginCheck(scope)
    BY <2>5, <2>6, <2>10 DEF BeginCheck, Idle
  <2>11. CASE ReconcilerStep
    <3>1. CASE BeginReconcile
      BY <1>1, <2>5, <2>6, <2>7, <3>1 DEF BeginReconcile, Files, Workers, Idle
    <3>2. ASSUME NEW d \in Datasets, Inspect(d)
          PROVE  /\ fs' = fs
                 /\ worker'["driver"] = worker["driver"]
                 /\ worker'["reconciler"].pc # "launched"
      <4> DEFINE examined == [worker["reconciler"] EXCEPT !.current = d, !.todo = @ \ {d}]
      <4>1. examined.pc = "next"
        BY <2>7, <3>2 DEF Inspect, Workers
      <4>2. /\ [examined EXCEPT !.pc = "launch"].pc # "launched"
            /\ [examined EXCEPT !.pc = "clean"].pc # "launched"
            /\ [examined EXCEPT !.current = Passwd].pc # "launched"
        BY <2>7, <4>1 DEF Workers
      <4> QED
        BY <2>6, <3>2, <4>2 DEF Inspect
    <3>3. CASE Remount
      <4>1. Becomes("reconciler", [worker["reconciler"] EXCEPT
                !.pc = "next", !.current = Passwd, !.todo = @ \ {worker["reconciler"].current},
                !.failed = TRUE])
        BY <2>3, <3>3 DEF Remount, Launch, Acceptable
      <4>2. worker'["driver"] = worker["driver"] /\ worker'["reconciler"].pc # "launched"
        BY <2>6, <2>7, <4>1 DEF Workers
      <4>3. fs'.mounts = fs.mounts
        BY <1>1, <3>3 DEF Remount, Launch, Files
      <4> QED
        BY <2>1, <2>4, <4>2, <4>3 DEF Containers
    <3>4. CASE EndReconcile
      BY <2>5, <2>6, <3>4 DEF EndReconcile, Idle
    <3>5. CASE Attach("reconciler")
      BY <1>2, <2>4, <2>5, <2>8, <3>5 DEF Attach
    <3>6. CASE WaitForMount("reconciler")
      BY <2>5, <2>8, <3>6 DEF WaitForMount
    <3>7. CASE CleanUnmount("reconciler")
      <4>1. worker["reconciler"].pc = "clean" => worker["reconciler"].current \in Datasets
        BY <1>2 DEF InHand, Holding
      <4>2. ~Mounted(worker["reconciler"].current)
        BY <2>4, <3>7, <4>1 DEF CleanUnmount, Mounted
      <4>3. [worker["reconciler"] EXCEPT !.pc = "remove"].pc # "launched"
        BY <2>7 DEF Workers
      <4> QED
        BY <2>5, <2>6, <2>8, <3>7, <4>2, <4>3 DEF CleanUnmount
    <3>8. CASE CleanRemove("reconciler")
      BY <1>1, <2>5, <2>8, <3>8 DEF CleanRemove, Files
    <3> QED
      BY <2>5, <2>11, <3>1, <3>2, <3>3, <3>4, <3>5, <3>6, <3>7, <3>8 DEF ReconcilerStep, Mounting
  <2>12. ASSUME NEW w \in Containers, Crash(w)
         PROVE  /\ \A d \in Datasets : fs'.mounts[d] = <<>>
                /\ \A x \in Containers :
                      worker'[x].pc = "launched" => worker'[x].current \notin fs'.folders
    <3>1. fs' = [fs EXCEPT !.mounts = [d \in Datasets |-> Dead(w, fs.mounts[d])]]
      BY <2>12 DEF Crash, Dead
    <3>2. fs'.folders = fs.folders /\ \A d \in Datasets : fs'.mounts[d] = <<>>
      BY <1>1, <2>4, <3>1, DeadType DEF Files
    <3>3. \A x \in Containers : worker'[x] = worker[x] \/ worker'[x].pc = "idle"
      BY <1>1, <2>12 DEF Crash, Becomes, Idle
    <3> QED
      BY <2>4, <3>2, <3>3
  <2> QED
    BY <2>2, <2>9, <2>10, <2>11, <2>12
<1> QED
  BY <1>3, <1>4

\* UnMountDatasets removes the credentials with the folders, so a mount that is
\* left after teardown belongs to a repair that has written them again.
THEOREM CredentialsFirst == Spec => []MountsNeedCredentials
<1>1. Init => Nested /\ Resting /\ Bare
  BY DEF Init, Nested, Resting, Bare, Mounted
<1>2. TypeOK /\ MountInv /\ [Next]_vars => TypeOK' /\ MountInv'
  BY HoldingStep, NestedStep, RestingStep, BareStep DEF MountInv
<1>3. MountInv => MountsNeedCredentials
  BY DEF MountInv, Bare, MountsNeedCredentials
<1>4. Init => TypeOK /\ MountInv
  BY <1>1, HoldingInit DEF MountInv
<1> QED
  BY <1>2, <1>3, <1>4, PTL DEF Spec
--------------------------------------------------------------------------------
(* What the containers are at *)

\* The driver is at a step of the call that the kubelet has made.
PhasesInv ==
    LET pc == worker["driver"].pc
    IN /\ kubelet = "publish" => pc \in {"idle", "next", "launched", "await"}
       /\ kubelet = "unpublish" => pc \in {"idle", "next", "clean", "remove"}
       /\ kubelet \in {"idle", "torn"} => pc = "idle"

\* A step of the reconcile container leaves the record of the driver alone, and the
\* kubelet.
LEMMA ReconcilerAside ==
    ASSUME TypeOK, ReconcilerStep \/ Crash("reconciler")
                   \/ \E scope \in Scopes : BeginCheck(scope)
    PROVE  worker'["driver"] = worker["driver"] /\ UNCHANGED <<kubelet, catalog>>
<1>1. worker \in [Containers -> Workers]
  BY DEF TypeOK
<1>2. \A record : Becomes("reconciler", record) => worker'["driver"] = worker["driver"]
  BY <1>1 DEF Becomes, Containers
<1>3. CASE \/ BeginReconcile \/ Remount \/ EndReconcile \/ \E d \in Datasets : Inspect(d)
  BY <1>2, <1>3 DEF BeginReconcile, Inspect, Remount, Launch, EndReconcile
<1>4. CASE Mounting("reconciler")
  BY <1>2, <1>4 DEF Mounting, Attach, WaitForMount, CleanUnmount, CleanRemove,
     Counts, Fails, Skips, Cleaned
<1>5. CASE Crash("reconciler") \/ \E scope \in Scopes : BeginCheck(scope)
  BY <1>2, <1>5 DEF Crash, BeginCheck
<1> QED
  BY <1>3, <1>4, <1>5 DEF ReconcilerStep

\* What the three ways to be done with a dataset leave in the record of a call.
LEMMA OutcomeRecords ==
    ASSUME TypeOK, NEW w \in Containers
    PROVE  LET before == worker[w]  after == worker'[w]
           IN /\ Counts(w) \/ Fails(w) \/ Skips(w) =>
                   /\ after.pc = "next" /\ after.todo = before.todo /\ after.list = before.list
                   /\ \A other \in Containers \ {w} : worker'[other] = worker[other]
              /\ Counts(w) \/ Skips(w) => (after.failed <=> before.failed)
              /\ Fails(w) => after.failed
<1>1. worker \in [Containers -> Workers] /\ worker[w] \in Workers
  BY DEF TypeOK
<1> DEFINE counted == [worker[w] EXCEPT !.pc = "next", !.current = Passwd, !.count = @ + 1]
           failed == [worker[w] EXCEPT !.pc = "next", !.current = Passwd, !.failed = TRUE]
           skipped == [worker[w] EXCEPT !.pc = "next", !.current = Passwd]
<1>2. /\ counted.pc = "next" /\ counted.todo = worker[w].todo
      /\ counted.list = worker[w].list /\ counted.failed = worker[w].failed
  BY <1>1 DEF Workers
<1>3. /\ failed.pc = "next" /\ failed.todo = worker[w].todo
      /\ failed.list = worker[w].list /\ failed.failed = TRUE
  BY <1>1 DEF Workers
<1>4. /\ skipped.pc = "next" /\ skipped.todo = worker[w].todo
      /\ skipped.list = worker[w].list /\ skipped.failed = worker[w].failed
  BY <1>1 DEF Workers
<1>5. /\ Counts(w) => worker' = [worker EXCEPT ![w] = counted]
      /\ Fails(w) => worker' = [worker EXCEPT ![w] = failed]
      /\ Skips(w) => worker' = [worker EXCEPT ![w] = skipped]
  BY DEF Counts, Fails, Skips, Becomes
<1> HIDE DEF counted, failed, skipped
<1> QED
  BY <1>1, <1>2, <1>3, <1>4, <1>5

\* A call of the kubelet begins: the record of the driver.
LEMMA BeginRecords ==
    ASSUME TypeOK, BeginPublish \/ BeginUnpublish
    PROVE  LET after == worker'["driver"]
           IN /\ worker'["reconciler"] = worker["reconciler"]
              /\ after.pc \in {"next", "idle"}
              /\ BeginPublish /\ after.pc = "next" /\ ~after.failed =>
                    after.todo = Matching(after.list)
<1>1. worker \in [Containers -> Workers] /\ Idle \in Workers
  BY IdleType DEF TypeOK
<1> DEFINE begun == [Idle EXCEPT !.pc = "next", !.list = catalog, !.todo = Matching(catalog),
                                 !.failed = Invalid(catalog) # {}]
           broken == [Idle EXCEPT !.pc = "next", !.failed = TRUE]
           empty == [Idle EXCEPT !.pc = "next"]
           names == fs.folders \cup (IF fs.passwd THEN {Passwd} ELSE {})
           removing == [Idle EXCEPT !.pc = "next", !.todo = names]
<1>2. begun.pc = "next" /\ begun.list = catalog /\ begun.todo = Matching(catalog)
  BY DEF Idle
<1>3. broken.pc = "next" /\ broken.failed = TRUE
  BY DEF Idle
<1>4. empty.pc = "next" /\ removing.pc = "next" /\ Idle.pc = "idle"
  BY DEF Idle
<1>5. CASE BeginPublish
  <2>1. \E record \in {begun, broken, Idle} : worker' = [worker EXCEPT !["driver"] = record]
    BY <1>5 DEF BeginPublish, Published, Becomes
  <2> HIDE DEF begun, broken
  <2>2. \E record \in {begun, broken, Idle} :
            worker'["driver"] = record /\ worker'["reconciler"] = worker["reconciler"]
    BY <1>1, <2>1 DEF Containers
  <2>3. ~BeginUnpublish
    BY <1>5 DEF BeginPublish, BeginUnpublish
  <2> QED
    BY <1>2, <1>3, <1>4, <2>2
<1>6. CASE BeginUnpublish
  <2>1. \/ worker' = worker /\ worker["driver"].pc = "idle"
        \/ \E record \in {empty, removing} : worker' = [worker EXCEPT !["driver"] = record]
    BY <1>6 DEF BeginUnpublish, Becomes
  <2> HIDE DEF empty, removing
  <2>2. /\ worker'["driver"].pc = "idle" \/ worker'["driver"] \in {empty, removing}
        /\ worker'["reconciler"] = worker["reconciler"]
    BY <1>1, <2>1 DEF Containers
  <2>3. ~BeginPublish
    BY <1>6 DEF BeginPublish, BeginUnpublish
  <2> QED
    BY <1>4, <2>2, <2>3
<1> QED
  BY <1>5, <1>6

\* A call of the kubelet goes on: the record of the driver.
LEMMA NameRecords ==
    ASSUME TypeOK, NEW d \in Datasets \cup {Passwd},
           UnpublishName(d) \/ (d \in Datasets /\ PublishDataset(d))
    PROVE  LET before == worker["driver"]  after == worker'["driver"]
           IN /\ worker'["reconciler"] = worker["reconciler"]
              /\ UnpublishName(d) => after.pc \in {"next", "clean"}
              /\ PublishDataset(d) =>
                    /\ after.todo = before.todo \ {d} /\ after.list = before.list
                    /\ \/ after.pc = "launched" /\ after.current = d
                                /\ (after.failed <=> before.failed)
                       \/ after.pc = "next" /\ after.failed
<1>1. worker \in [Containers -> Workers] /\ worker["driver"] \in Workers
  BY DEF TypeOK, Containers
<1> DEFINE launched == [worker["driver"] EXCEPT !.pc = "launched", !.current = d, !.todo = @ \ {d}]
           failed == [worker["driver"] EXCEPT !.pc = "next", !.current = Passwd,
                                              !.todo = @ \ {d}, !.failed = TRUE]
           removed == [worker["driver"] EXCEPT !.todo = @ \ {d}]
           cleaning == [worker["driver"] EXCEPT !.pc = "clean", !.current = d, !.todo = @ \ {d}]
<1>2. /\ launched.pc = "launched" /\ launched.current = d
      /\ launched.todo = worker["driver"].todo \ {d}
      /\ launched.list = worker["driver"].list /\ launched.failed = worker["driver"].failed
  BY <1>1 DEF Workers
<1>3. /\ failed.pc = "next" /\ failed.todo = worker["driver"].todo \ {d}
      /\ failed.list = worker["driver"].list /\ failed.failed = TRUE
  BY <1>1 DEF Workers
<1>4. removed.pc = worker["driver"].pc /\ cleaning.pc = "clean"
  BY <1>1 DEF Workers
<1>5. CASE d \in Datasets /\ PublishDataset(d)
  <2>1. \E record \in {launched, failed} : worker' = [worker EXCEPT !["driver"] = record]
    BY <1>5 DEF PublishDataset, Launch, Becomes
  <2>2. ~UnpublishName(d)
    BY <1>5 DEF PublishDataset, UnpublishName
  <2> HIDE DEF launched, failed
  <2>3. \E record \in {launched, failed} :
            worker'["driver"] = record /\ worker'["reconciler"] = worker["reconciler"]
    BY <1>1, <2>1 DEF Containers
  <2> QED
    BY <1>2, <1>3, <2>2, <2>3
<1>6. CASE UnpublishName(d)
  <2>1. /\ \E record \in {removed, cleaning} : worker' = [worker EXCEPT !["driver"] = record]
        /\ worker["driver"].pc = "next"
    BY <1>6 DEF UnpublishName, Becomes
  <2>2. ~PublishDataset(d)
    BY <1>6 DEF PublishDataset, UnpublishName
  <2> HIDE DEF removed, cleaning
  <2>3. \E record \in {removed, cleaning} :
            worker'["driver"] = record /\ worker'["reconciler"] = worker["reconciler"]
    BY <1>1, <2>1 DEF Containers
  <2> QED
    BY <1>4, <2>1, <2>2, <2>3
<1> QED
  BY <1>5, <1>6

\* The driver at work on a folder: its record.
LEMMA MountingRecords ==
    ASSUME TypeOK, Mounting("driver")
    PROVE  LET before == worker["driver"]  after == worker'["driver"]
           IN /\ worker'["reconciler"] = worker["reconciler"]
              /\ Attach("driver") =>
                    /\ after.todo = before.todo /\ after.list = before.list
                    /\ \/ after.pc = "await" /\ after.current = before.current
                                /\ (after.failed <=> before.failed)
                       \/ after.pc = "next" /\ after.failed
              /\ WaitForMount("driver") =>
                    /\ after.pc = "next"
                    /\ after.todo = before.todo /\ after.list = before.list
                    /\ IF Serving(before.current) THEN after.failed <=> before.failed
                                                  ELSE after.failed
              /\ CleanUnmount("driver") \/ CleanRemove("driver") =>
                    /\ before.pc \in {"clean", "remove"} /\ after.pc \in {"next", "remove"}
<1>1. worker \in [Containers -> Workers] /\ worker["driver"] \in Workers
  BY DEF TypeOK, Containers
<1>2. "driver" \in Containers /\ Containers \ {"driver"} = {"reconciler"}
  BY DEF Containers
<1> DEFINE mounted == [worker["driver"] EXCEPT !.pc = "await"]
           emptied == [worker["driver"] EXCEPT !.pc = "remove"]
<1>3. /\ mounted.pc = "await" /\ mounted.current = worker["driver"].current
      /\ mounted.todo = worker["driver"].todo /\ mounted.list = worker["driver"].list
      /\ mounted.failed = worker["driver"].failed /\ emptied.pc = "remove"
  BY <1>1 DEF Workers
<1> DEFINE Done == Counts("driver") \/ Fails("driver") \/ Skips("driver")
<1>4. Done => /\ worker'["driver"].pc = "next"
              /\ worker'["driver"].todo = worker["driver"].todo
              /\ worker'["driver"].list = worker["driver"].list
              /\ worker'["reconciler"] = worker["reconciler"]
  BY <1>2, OutcomeRecords DEF Done
<1>5. /\ Counts("driver") => (worker'["driver"].failed <=> worker["driver"].failed)
      /\ Fails("driver") => worker'["driver"].failed
  BY <1>2, OutcomeRecords
<1>6. CASE Attach("driver")
  <2>1. worker' = [worker EXCEPT !["driver"] = mounted] \/ Fails("driver")
    BY <1>6 DEF Attach, Becomes
  <2>2. worker["driver"].pc = "launched"
    BY <1>6 DEF Attach
  <2> HIDE DEF mounted
  <2>3. worker' = [worker EXCEPT !["driver"] = mounted] =>
            worker'["driver"] = mounted /\ worker'["reconciler"] = worker["reconciler"]
    BY <1>1 DEF Containers
  <2> QED
    BY <1>3, <1>4, <1>5, <1>6, <2>1, <2>2, <2>3 DEF WaitForMount, CleanUnmount, CleanRemove
<1>7. CASE WaitForMount("driver")
  <2>1. /\ worker["driver"].pc = "await"
        /\ \/ Serving(worker["driver"].current) /\ Counts("driver")
           \/ ~Serving(worker["driver"].current) /\ Fails("driver")
    BY <1>7 DEF WaitForMount
  <2>2. ~Attach("driver") /\ ~CleanUnmount("driver") /\ ~CleanRemove("driver")
    BY <2>1 DEF Attach, CleanUnmount, CleanRemove
  <2> QED
    BY <1>4, <1>5, <2>1, <2>2
<1>8. CASE CleanUnmount("driver") \/ CleanRemove("driver")
  <2>1. /\ worker["driver"].pc \in {"clean", "remove"}
        /\ worker' = [worker EXCEPT !["driver"] = emptied] \/ Skips("driver")
    BY <1>8 DEF CleanUnmount, CleanRemove, Cleaned, Becomes
  <2>2. ~Attach("driver") /\ ~WaitForMount("driver")
    BY <2>1 DEF Attach, WaitForMount
  <2> HIDE DEF emptied
  <2>3. worker' = [worker EXCEPT !["driver"] = emptied] =>
            worker'["driver"] = emptied /\ worker'["reconciler"] = worker["reconciler"]
    BY <1>1 DEF Containers
  <2> QED
    BY <1>3, <1>4, <2>1, <2>2, <2>3
<1> QED
  BY <1>6, <1>7, <1>8 DEF Mounting

\* The driver keeps to the call of the kubelet.
LEMMA PhasesStep ==
    ASSUME TypeOK, PhasesInv, [Next]_vars
    PROVE  PhasesInv'
<1> USE DEF PhasesInv
<1>1. CASE BeginPublish
  <2>1. kubelet = "publish" /\ kubelet' \in {"publish", "idle"}
    BY <1>1 DEF BeginPublish, Published
  <2>2. kubelet' = "idle" => worker'["driver"].pc = "idle"
    BY <1>1 DEF BeginPublish, Published, Becomes, TypeOK, Containers, Idle
  <2> QED
    BY <1>1, <2>1, <2>2, BeginRecords
<1>2. CASE EndPublish \/ EndUnpublish
  <2>1. worker'["driver"].pc = "idle"
    BY <1>2 DEF EndPublish, EndUnpublish, Published, Becomes, TypeOK, Containers, Idle
  <2> QED
    BY <2>1
<1>3. CASE BeginUnpublish
  <2>1. kubelet = "unpublish" /\ kubelet' \in {"unpublish", "torn"}
    BY <1>3 DEF BeginUnpublish
  <2>2. kubelet' = "torn" => worker'["driver"].pc = "idle"
    BY <1>3 DEF BeginUnpublish
  <2> QED
    BY <1>3, <2>1, <2>2, BeginRecords
<1>4. ASSUME NEW d \in Datasets \cup {Passwd},
             UnpublishName(d) \/ (d \in Datasets /\ PublishDataset(d))
      PROVE  PhasesInv'
  <2>1. /\ UNCHANGED kubelet
        /\ UnpublishName(d) => kubelet = "unpublish"
        /\ PublishDataset(d) => kubelet = "publish"
    BY <1>4 DEF UnpublishName, PublishDataset, Launch
  <2>2. CASE UnpublishName(d)
    BY <1>4, <2>1, <2>2, NameRecords
  <2>3. CASE PublishDataset(d)
    <3>1. worker'["driver"].pc \in {"launched", "next"}
      BY <1>4, <2>3, NameRecords
    <3> QED
      BY <2>1, <2>3, <3>1
  <2> QED
    BY <1>4, <2>2, <2>3
<1>5. CASE Mounting("driver")
  <2>1. UNCHANGED kubelet
    BY <1>5 DEF Mounting, Attach, WaitForMount, CleanUnmount, CleanRemove
  <2>2. CASE Attach("driver")
    <3>1. worker["driver"].pc = "launched" /\ worker'["driver"].pc \in {"await", "next"}
      BY <1>5, <2>2, MountingRecords DEF Attach
    <3> QED
      BY <2>1, <3>1
  <2>3. CASE WaitForMount("driver")
    <3>1. worker["driver"].pc = "await" /\ worker'["driver"].pc = "next"
      BY <1>5, <2>3, MountingRecords DEF WaitForMount
    <3> QED
      BY <2>1, <3>1
  <2>4. CASE CleanUnmount("driver") \/ CleanRemove("driver")
    <3>1. /\ worker["driver"].pc \in {"clean", "remove"}
          /\ worker'["driver"].pc \in {"next", "remove"}
      BY <1>5, <2>4, MountingRecords
    <3>2. kubelet = "unpublish"
      BY <3>1 DEF TypeOK
    <3> QED
      BY <2>1, <3>1, <3>2
  <2> QED
    BY <1>5, <2>2, <2>3, <2>4 DEF Mounting
<1>6. CASE ReconcilerStep \/ Crash("reconciler") \/ \E scope \in Scopes : BeginCheck(scope)
  BY <1>6, ReconcilerAside
<1>7. CASE Crash("driver")
  <2>1. worker'["driver"].pc = "idle"
    BY <1>7 DEF Crash, Becomes, Idle, TypeOK, Containers
  <2> QED
    BY <2>1
<1>8. CASE \/ KubeletRestart \/ DeletePod \/ TearDown \/ Forget \/ UNCHANGED vars
           \/ \E d \in Datasets : Edit(d)
  BY <1>8 DEF KubeletRestart, DeletePod, TearDown, Forget, vars, Edit
<1> QED
  BY <1>1, <1>2, <1>3, <1>4, <1>5, <1>6, <1>7, <1>8
     DEF Next, DriverStep, Terminated, Containers

--------------------------------------------------------------------------------
(* A pod that starts as "Complete" has its datasets *)

\* What a crash leaves of a stack of mounts, and a new s3fs on top of one.
LEMMA TopOfStack ==
    ASSUME NEW stack \in Seq(Mounts), NEW w \in Containers
    PROVE  LET pushed == <<[owner |-> w, live |-> TRUE]>> \o stack
           IN /\ pushed # <<>> /\ Head(pushed).live /\ Head(pushed).owner = w
              /\ Dead(w, stack) = <<>> <=> stack = <<>>
              /\ stack # <<>> =>
                    /\ Head(Dead(w, stack)).owner = Head(stack).owner
                    /\ Head(Dead(w, stack)).live <=> Head(stack).live /\ Head(stack).owner # w
<1>1. <<[owner |-> w, live |-> TRUE]>> \o stack # <<>>
      /\ Head(<<[owner |-> w, live |-> TRUE]>> \o stack) = [owner |-> w, live |-> TRUE]
  BY DEF Mounts
<1>2. Dead(w, stack) \in Seq(Mounts) /\ (Dead(w, stack) = <<>> <=> stack = <<>>)
  BY DeadType
<1>3. ASSUME stack # <<>>
      PROVE  /\ Head(Dead(w, stack)).owner = Head(stack).owner
             /\ Head(Dead(w, stack)).live <=> Head(stack).live /\ Head(stack).owner # w
  <2>1. 1 \in DOMAIN stack /\ Head(stack) = stack[1] /\ stack[1] \in Mounts
    BY <1>3
  <2>2. Head(Dead(w, stack)) = Dead(w, stack)[1]
    BY <1>2, <1>3
  <2>3. Dead(w, stack)[1] =
            IF stack[1].owner = w THEN [owner |-> w, live |-> FALSE] ELSE stack[1]
    BY <2>1 DEF Dead
  <2> QED
    BY <2>1, <2>2, <2>3 DEF Mounts
<1> QED
  BY <1>1, <1>2, <1>3

\* What is on top of each folder after a crash.
LEMMA CrashMounts ==
    ASSUME TypeOK, NEW w \in Containers, Crash(w), NEW d \in Datasets
    PROVE  /\ Mounted(d)' <=> Mounted(d)
           /\ Mounted(d) =>
                /\ Head(fs'.mounts[d]).owner = Head(fs.mounts[d]).owner
                /\ Serving(d)' <=> Serving(d) /\ Head(fs.mounts[d]).owner # w
<1>1. fs \in Files /\ fs.mounts[d] \in Seq(Mounts)
  BY DEF TypeOK, Files
<1>2. fs' = [fs EXCEPT !.mounts = [x \in Datasets |-> Dead(w, fs.mounts[x])]]
  BY DEF Crash, Dead
<1>3. fs'.mounts[d] = Dead(w, fs.mounts[d])
  BY <1>1, <1>2 DEF Files
<1> DEFINE before == fs.mounts[d]
           after == Dead(w, before)
<1>4. /\ after = <<>> <=> before = <<>>
      /\ before # <<>> =>
           /\ Head(after).owner = Head(before).owner
           /\ Head(after).live <=> Head(before).live /\ Head(before).owner # w
  <2>1. before \in Seq(Mounts)
    BY <1>1
  <2> HIDE DEF before
  <2> QED
    BY <2>1, TopOfStack
<1>5. /\ Mounted(d) <=> before # <<>>
      /\ Serving(d) <=> before # <<>> /\ Head(before).live
  BY DEF Mounted, Serving
<1>6. /\ Mounted(d)' <=> after # <<>>
      /\ Serving(d)' <=> after # <<>> /\ Head(after).live
  BY <1>3 DEF Mounted, Serving
<1> HIDE DEF before, after
<1>7. Head(fs'.mounts[d]).owner = Head(after).owner
      /\ Head(fs.mounts[d]).owner = Head(before).owner
  BY <1>3 DEF before, after
<1>8. Mounted(d)' <=> Mounted(d)
  BY <1>4, <1>5, <1>6
<1>9. ASSUME Mounted(d)
      PROVE  /\ Head(fs'.mounts[d]).owner = Head(fs.mounts[d]).owner
             /\ Serving(d)' <=> Serving(d) /\ Head(fs.mounts[d]).owner # w
  <2>1. before # <<>> /\ after # <<>>
    BY <1>4, <1>5, <1>9
  <2>2. Head(after).owner = Head(before).owner
    BY <1>4, <2>1
  <2>3. Serving(d)' <=> Serving(d) /\ Head(before).owner # w
    BY <1>4, <1>5, <1>6, <2>1, ZenonT(60)
  <2> QED
    BY <1>7, <2>2, <2>3
<1> QED
  BY <1>8, <1>9

\* What is on top of each folder after s3fs attached.
LEMMA AttachMounts ==
    ASSUME TypeOK, NEW w \in Containers, Attach(w), NEW d \in Datasets
    PROVE  \/ fs'.mounts[d] = fs.mounts[d]
           \/ /\ d = worker[w].current
              /\ Mounted(d)' /\ Serving(d)' /\ Head(fs'.mounts[d]).owner = w
<1>1. fs \in Files /\ fs.mounts[d] \in Seq(Mounts) /\ fs.mounts \in [Datasets -> Seq(Mounts)]
  BY DEF TypeOK, Files
<1> DEFINE x == worker[w].current
<1>2. CASE fs' = [fs EXCEPT !.mounts[x] = <<[owner |-> w, live |-> TRUE]>> \o @]
  <2>1. fs'.mounts = [fs.mounts EXCEPT ![x] = <<[owner |-> w, live |-> TRUE]>> \o @]
    BY <1>1, <1>2 DEF Files
  <2>2. CASE d = x
    <3>1. fs'.mounts[d] = <<[owner |-> w, live |-> TRUE]>> \o fs.mounts[d]
      BY <1>1, <2>1, <2>2
    <3> QED
      BY <1>1, <2>2, <3>1, TopOfStack DEF Mounted, Serving
  <2>3. CASE d # x
    BY <1>1, <2>1, <2>3
  <2> QED
    BY <2>2, <2>3
<1>3. CASE UNCHANGED fs
  BY <1>3
<1> QED
  BY <1>2, <1>3 DEF Attach

\* The pod has not started yet: this is its first publication.
Early == kubelet = "publish" /\ ~pod.running

\* No reason is recorded by then, no check concerns the pod, and what is mounted was
\* mounted by the driver.
FreshInv == Early =>
    /\ pod.reason = "None"
    /\ worker["reconciler"].pc = "idle"
    /\ \A d \in Datasets : Mounted(d) => Head(fs.mounts[d]).owner = "driver"

\* Unless an error is remembered, a dataset that matches is still to be mounted, is
\* being mounted, or is there.
ProgressInv ==
    LET call == worker["driver"]
    IN Early /\ call.pc # "idle" /\ ~call.failed =>
           \A d \in Matching(call.list) :
               \/ d \in call.todo
               \/ call.pc \in {"launched", "await"} /\ call.current = d
               \/ Serving(d)

PublishInv == PhasesInv /\ FreshInv /\ ProgressInv

\* The three parts hold at first.
LEMMA PublishInit == Init => PublishInv
<1> SUFFICES ASSUME Init PROVE PublishInv
  OBVIOUS
<1>1. \A w \in Containers : worker[w] = Idle
  BY DEF Init
<1>2. worker["driver"].pc = "idle" /\ worker["reconciler"].pc = "idle"
  BY <1>1 DEF Containers, Idle
<1>3. \A d \in Datasets : ~Mounted(d)
  BY DEF Init, Mounted
<1>4. kubelet = "publish" /\ pod.reason = "None"
  BY DEF Init
<1> QED
  BY <1>2, <1>3, <1>4 DEF PublishInv, PhasesInv, FreshInv, ProgressInv

\* Before the pod has started only the driver mounts, crashes and edits happen.
LEMMA EarlySteps ==
    ASSUME TypeOK, PhasesInv, FreshInv, [Next]_vars, Early'
    PROVE  /\ Early /\ pod'.reason = pod.reason
           /\ \/ BeginPublish /\ fs'.mounts = fs.mounts /\ worker'["driver"].pc = "next"
              \/ \E d \in Datasets : PublishDataset(d) /\ fs'.mounts = fs.mounts
              \/ Attach("driver")
              \/ WaitForMount("driver") /\ UNCHANGED fs
              \/ \E w \in Containers : Crash(w)
              \/ UNCHANGED <<fs, worker>>
<1>1. fs \in Files /\ pod \in Pods /\ worker \in [Containers -> Workers]
  BY DEF TypeOK
<1>2. CASE BeginPublish
  <2>1. kubelet' = "publish" /\ UNCHANGED pod /\ kubelet = "publish"
    BY <1>2 DEF BeginPublish, Published, Early
  <2>2. fs'.mounts = fs.mounts
    BY <1>1, <1>2 DEF BeginPublish, Files
  <2>3. worker'["driver"].pc = "next"
    BY <1>1, <1>2, <2>1 DEF BeginPublish, Published, Becomes, Idle, Containers
  <2> QED
    BY <1>2, <2>1, <2>2, <2>3 DEF Early
<1>3. CASE \E d \in Datasets : PublishDataset(d)
  BY <1>1, <1>3 DEF PublishDataset, Launch, Files, Early
<1>4. CASE EndPublish \/ EndUnpublish \/ BeginUnpublish
            \/ \E name \in Datasets \cup {Passwd} : UnpublishName(name)
  BY <1>4 DEF EndPublish, Published, EndUnpublish, BeginUnpublish, UnpublishName, Early
<1>5. CASE Mounting("driver")
  <2>1. UNCHANGED <<kubelet, pod>>
    BY <1>5 DEF Mounting, Attach, WaitForMount, CleanUnmount, CleanRemove
  <2>2. worker["driver"].pc \notin {"clean", "remove"}
    BY <2>1 DEF PhasesInv, Early
  <2> QED
    BY <1>5, <2>1, <2>2 DEF Mounting, WaitForMount, CleanUnmount, CleanRemove, Early
<1>6. CASE ReconcilerStep \/ \E scope \in Scopes : BeginCheck(scope)
  <2>1. UNCHANGED kubelet /\ (UNCHANGED pod \/ EndReconcile)
    BY <1>6 DEF ReconcilerStep, BeginCheck, BeginReconcile, Inspect, Remount, Launch,
       EndReconcile, Mounting, Attach, WaitForMount, CleanUnmount, CleanRemove
  <2>2. EndReconcile => pod'.running = pod.running
    BY <1>1 DEF EndReconcile, Pods
  <2>3. Early
    BY <2>1, <2>2 DEF Early
  <2> QED
    BY <1>6, <2>3 DEF FreshInv, Early, ReconcilerStep, BeginCheck, BeginReconcile, Inspect,
       Remount, EndReconcile, Mounting, Attach, WaitForMount, CleanUnmount, CleanRemove
<1>7. CASE \E w \in Containers : Crash(w)
  BY <1>7 DEF Crash, Early
<1>8. CASE KubeletRestart \/ TearDown \/ Forget
  BY <1>8 DEF KubeletRestart, TearDown, Forget, Early
<1>9. CASE DeletePod \/ UNCHANGED vars \/ \E d \in Datasets : Edit(d)
  BY <1>1, <1>9 DEF DeletePod, vars, Edit, Early, Pods
<1> QED
  BY <1>2, <1>3, <1>4, <1>5, <1>6, <1>7, <1>8, <1>9 DEF Next, DriverStep, Terminated

\* No step before the start mounts for another container or records a reason.
LEMMA FreshStep ==
    ASSUME TypeOK, PhasesInv, FreshInv, [Next]_vars
    PROVE  FreshInv'
<1> SUFFICES ASSUME Early'
             PROVE  /\ pod'.reason = "None"
                    /\ worker'["reconciler"].pc = "idle"
                    /\ \A d \in Datasets : Mounted(d)' => Head(fs'.mounts[d]).owner = "driver"
  BY DEF FreshInv
<1>1. Early /\ pod'.reason = pod.reason
  BY EarlySteps
<1>2. /\ pod.reason = "None" /\ worker["reconciler"].pc = "idle"
      /\ \A d \in Datasets : Mounted(d) => Head(fs.mounts[d]).owner = "driver"
  BY <1>1 DEF FreshInv
<1>3. worker \in [Containers -> Workers] /\ "driver" \in Containers
  BY DEF TypeOK, Containers
<1>4. ASSUME fs'.mounts = fs.mounts
      PROVE  \A d \in Datasets : Mounted(d)' => Head(fs'.mounts[d]).owner = "driver"
  BY <1>2, <1>4 DEF Mounted
<1>5. CASE BeginPublish /\ fs'.mounts = fs.mounts
  BY <1>1, <1>2, <1>4, <1>5, BeginRecords
<1>6. ASSUME NEW d \in Datasets, PublishDataset(d), fs'.mounts = fs.mounts
      PROVE  worker'["reconciler"] = worker["reconciler"]
  BY <1>6, NameRecords
<1>7. CASE Attach("driver")
  <2>1. worker'["reconciler"] = worker["reconciler"]
    BY <1>7, MountingRecords DEF Mounting
  <2>2. \A d \in Datasets : Mounted(d)' => Head(fs'.mounts[d]).owner = "driver"
    BY <1>2, <1>3, <1>7, AttachMounts DEF Mounted
  <2> QED
    BY <1>1, <1>2, <2>1, <2>2
<1>8. CASE WaitForMount("driver") /\ UNCHANGED fs
  <2>1. worker'["reconciler"] = worker["reconciler"]
    BY <1>8, MountingRecords DEF Mounting
  <2> QED
    BY <1>1, <1>2, <1>4, <1>8, <2>1
<1>9. ASSUME NEW w \in Containers, Crash(w)
      PROVE  /\ worker'["reconciler"].pc = "idle"
             /\ \A d \in Datasets : Mounted(d)' => Head(fs'.mounts[d]).owner = "driver"
  <2>1. worker'["reconciler"].pc = "idle"
    BY <1>2, <1>3, <1>9 DEF Crash, Becomes, Idle, Containers
  <2>2. \A d \in Datasets : Mounted(d)' => Head(fs'.mounts[d]).owner = "driver"
    BY <1>2, <1>9, CrashMounts
  <2> QED
    BY <2>1, <2>2
<1>10. CASE UNCHANGED <<fs, worker>>
  BY <1>1, <1>2, <1>4, <1>10
<1> QED
  BY <1>1, <1>2, <1>4, <1>5, <1>6, <1>7, <1>8, <1>9, <1>10, EarlySteps

\* No dataset drops out of the publication without an error.
LEMMA ProgressStep ==
    ASSUME TypeOK, PhasesInv, FreshInv, ProgressInv, [Next]_vars
    PROVE  ProgressInv'
<1> DEFINE call == worker["driver"]
           after == worker'["driver"]
<1> SUFFICES ASSUME Early', after.pc # "idle", ~after.failed,
                    NEW d \in Datasets, after.list[d] = "match"
             PROVE  \/ d \in after.todo
                    \/ after.pc \in {"launched", "await"} /\ after.current = d
                    \/ Serving(d)'
  BY DEF ProgressInv, Matching
<1>1. /\ Early
      /\ call.pc # "idle" /\ ~call.failed /\ call.list[d] = "match" =>
             \/ d \in call.todo
             \/ call.pc \in {"launched", "await"} /\ call.current = d
             \/ Serving(d)
  BY EarlySteps DEF ProgressInv, Matching
<1>2. worker \in [Containers -> Workers] /\ "driver" \in Containers /\ call \in Workers
  BY DEF TypeOK, Containers
<1>3. fs'.mounts = fs.mounts => (Serving(d) <=> Serving(d)')
  BY DEF Serving, Mounted
<1> HIDE DEF call, after
<1>4. CASE BeginPublish
  BY <1>4, BeginRecords DEF Matching, after
<1>5. ASSUME NEW x \in Datasets, PublishDataset(x), fs'.mounts = fs.mounts
      PROVE  \/ d \in after.todo
             \/ after.pc \in {"launched", "await"} /\ after.current = d
             \/ Serving(d)'
  <2>1. call.pc = "next" /\ x \in call.todo
    BY <1>5 DEF PublishDataset, call
  <2>2. /\ after.todo = call.todo \ {x} /\ after.list = call.list
        /\ after.pc = "launched" /\ after.current = x /\ ~call.failed
    BY <1>5, NameRecords DEF call, after
  <2> QED
    BY <1>1, <1>3, <1>5, <2>1, <2>2
<1>6. CASE Attach("driver")
  <2>1. call.pc = "launched"
    BY <1>6 DEF Attach, call
  <2>2. /\ after.todo = call.todo /\ after.list = call.list
        /\ after.pc = "await" /\ after.current = call.current /\ ~call.failed
    BY <1>6, MountingRecords DEF Mounting, call, after
  <2>3. Serving(d) => Serving(d)'
    BY <1>2, <1>6, AttachMounts DEF Serving, Mounted
  <2> QED
    BY <1>1, <2>1, <2>2, <2>3
<1>7. CASE WaitForMount("driver") /\ UNCHANGED fs
  <2>1. call.pc = "await"
    BY <1>7 DEF WaitForMount, call
  <2>2. /\ after.todo = call.todo /\ after.list = call.list
        /\ Serving(call.current) /\ ~call.failed
    BY <1>7, MountingRecords DEF Mounting, call, after
  <2> QED
    BY <1>1, <1>3, <1>7, <2>1, <2>2
<1>8. ASSUME NEW w \in Containers, Crash(w)
      PROVE  \/ d \in after.todo
             \/ after.pc \in {"launched", "await"} /\ after.current = d
             \/ Serving(d)'
  <2>1. w # "driver"
    BY <1>2, <1>8 DEF Crash, Becomes, Idle, after
  <2>2. after = call
    BY <1>2, <1>8, <2>1 DEF Crash, Becomes, after, call
  <2>3. Serving(d) => Serving(d)'
    BY <1>1, <1>8, <2>1, CrashMounts DEF FreshInv, Serving
  <2> QED
    BY <1>1, <2>2, <2>3
<1>9. CASE UNCHANGED <<fs, worker>>
  BY <1>1, <1>3, <1>9 DEF call, after
<1> QED
  BY <1>4, <1>5, <1>6, <1>7, <1>8, <1>9, EarlySteps

\* A pod starts as "Complete" only at the end of a publication without errors.
LEMMA CompleteStep ==
    ASSUME TypeOK, PublishInv, [Next]_vars,
           ~pod.running, pod'.running, pod'.reason = "Complete",
           NEW d \in Matching(worker["driver"].list)
    PROVE  Serving(d)
<1> DEFINE call == worker["driver"]
<1>1. pod \in Pods
  BY DEF TypeOK
<1>2. BeginPublish \/ EndPublish
  <2>1. CASE \/ BeginUnpublish \/ \E name \in Datasets \cup {Passwd} : UnpublishName(name)
             \/ EndUnpublish \/ \E scope \in Scopes : BeginCheck(scope)
             \/ \E w \in Containers : Crash(w) \/ Mounting(w)
             \/ \E x \in Datasets : Edit(x) \/ Inspect(x) \/ PublishDataset(x)
             \/ BeginReconcile \/ Remount \/ TearDown \/ KubeletRestart \/ UNCHANGED vars
    <3>1. UNCHANGED pod
      BY <2>1 DEF BeginUnpublish, UnpublishName, EndUnpublish, BeginCheck, Crash, Mounting,
         Attach, WaitForMount, CleanUnmount, CleanRemove, Edit, Inspect, PublishDataset, Launch,
         BeginReconcile, Remount, TearDown, KubeletRestart, vars
    <3> QED
      BY <3>1
  <2>2. CASE EndReconcile \/ DeletePod \/ Forget
    <3>1. pod'.running => pod.running
      BY <1>1, <2>2 DEF EndReconcile, DeletePod, Forget, Pods
    <3> QED
      BY <3>1
  <2> QED
    BY <2>1, <2>2 DEF Next, DriverStep, ReconcilerStep, Terminated, Containers
<1>3. Early /\ pod.reason = "None"
  BY <1>2 DEF Early, BeginPublish, EndPublish, PublishInv, FreshInv
<1>4. EndPublish
  <2>1. BeginPublish => pod'.reason = pod.reason
    BY <1>1 DEF BeginPublish, Pods
  <2> QED
    BY <1>2, <1>3, <2>1
<1>5. call.pc = "next" /\ call.todo = {}
  BY <1>4 DEF EndPublish
<1>6. pod'.reason \in {pod.reason, PublishReason(call.count, call.failed)}
  BY <1>1, <1>4 DEF EndPublish, Pods
<1>7. PublishReason(call.count, call.failed) = "Complete"
  BY <1>3, <1>6
<1>8. call.count \in Nat /\ call.failed \in BOOLEAN
  BY DEF TypeOK, Containers, Workers
<1>9. ~call.failed
  BY <1>7, <1>8 DEF PublishReason
<1> QED
  BY <1>3, <1>5, <1>9 DEF PublishInv, ProgressInv

\* CompletePodHasDatasets: a pod that the driver lets start with the condition "Complete"
\* has a working mount of every dataset that matched it, for any number of datasets,
\* crashes of either container, failed calls and edits (NodePublishVolume, mountDatasetS3
\* and UpdatePodOnNodePublishVolume of the driver).
THEOREM CompleteIsServed == Spec => CompletePodHasDatasets
<1>1. Init => TypeOK /\ PublishInv
  BY HoldingInit, PublishInit
<1>2. TypeOK /\ InHand /\ PublishInv /\ [Next]_vars => PublishInv'
  BY PhasesStep, FreshStep, ProgressStep DEF PublishInv
<1>3. TypeOK /\ PublishInv /\ [Next]_vars =>
          [~pod.running /\ pod'.running /\ pod'.reason = "Complete"
              => \A d \in Matching(worker["driver"].list) : Serving(d)]_vars
  BY CompleteStep
<1> QED
  BY <1>1, <1>2, <1>3, HoldingInit, HoldingStep, PTL DEF Spec, CompletePodHasDatasets

--------------------------------------------------------------------------------
(* Mounts that work are kept *)

\* Calls and listings succeed, and the kubelet publishes each volume once.
Orderly == MaxFaults = 0 /\ MaxRestarts = 0

\* The kubelet publishes the volume of a pod that has not started, then.
OnceInv == kubelet = "publish" => ~pod.running

\* What a repair is about to unmount does not work.
CleanInv ==
    LET call == worker["reconciler"]
    IN call.pc = "clean" /\ call.current \notin EmptyBuckets /\ kubelet # "unpublish" =>
           ~Serving(call.current)

KeptInv == OnceInv /\ CleanInv

\* Nothing fails and nothing is published again.
LEMMA OrderlySteps ==
    ASSUME TypeOK, Orderly
    PROVE  ~Fault /\ ~KubeletRestart
<1>1. spent["faults"] \in Nat /\ spent["restarts"] \in Nat
  BY DEF TypeOK
<1> QED
  BY <1>1 DEF Orderly, Fault, Spend, KubeletRestart

\* A publication ends when the pod starts.
LEMMA OnceStep ==
    ASSUME TypeOK, Orderly, OnceInv, [Next]_vars
    PROVE  OnceInv'
<1> USE DEF OnceInv
<1>1. pod \in Pods
  BY DEF TypeOK
<1>2. CASE BeginPublish \/ EndPublish
  BY <1>2 DEF BeginPublish, EndPublish, Published
<1>3. CASE \/ BeginUnpublish \/ \E name \in Datasets \cup {Passwd} : UnpublishName(name)
           \/ EndUnpublish \/ \E scope \in Scopes : BeginCheck(scope)
           \/ \E w \in Containers : Crash(w) \/ Mounting(w)
           \/ \E x \in Datasets : Edit(x) \/ Inspect(x) \/ PublishDataset(x)
           \/ BeginReconcile \/ Remount \/ TearDown \/ UNCHANGED vars
  <2>1. UNCHANGED pod /\ (kubelet' = "publish" => kubelet = "publish")
    BY <1>3 DEF BeginUnpublish, UnpublishName, EndUnpublish, BeginCheck, Crash, Mounting,
       Attach, WaitForMount, CleanUnmount, CleanRemove, Edit, Inspect, PublishDataset, Launch,
       BeginReconcile, Remount, TearDown, vars
  <2> QED
    BY <2>1
<1>4. CASE EndReconcile \/ DeletePod \/ Forget
  <2>1. UNCHANGED kubelet /\ (pod'.running => pod.running)
    BY <1>1, <1>4 DEF EndReconcile, DeletePod, Forget, Pods
  <2> QED
    BY <2>1
<1> QED
  BY <1>2, <1>3, <1>4, OrderlySteps DEF Next, DriverStep, ReconcilerStep, Terminated, Containers

\* Which steps change what is mounted.
LEMMA MountSteps ==
    ASSUME TypeOK, [Next]_vars, fs'.mounts # fs.mounts
    PROVE  \E w \in Containers : Attach(w) \/ CleanUnmount(w) \/ Crash(w)
<1>1. fs \in Files
  BY DEF TypeOK
<1>2. CASE \/ BeginPublish \/ EndPublish \/ BeginUnpublish \/ EndUnpublish
           \/ \E name \in Datasets \cup {Passwd} : UnpublishName(name)
           \/ \E x \in Datasets : PublishDataset(x)
           \/ BeginReconcile \/ Remount
  BY <1>1, <1>2 DEF BeginPublish, EndPublish, BeginUnpublish, EndUnpublish, UnpublishName,
     PublishDataset, BeginReconcile, Remount, Launch, Files
<1>3. CASE \/ EndReconcile \/ \E x \in Datasets : Inspect(x) \/ Edit(x)
           \/ \E scope \in Scopes : BeginCheck(scope)
           \/ KubeletRestart \/ DeletePod \/ TearDown \/ Forget \/ UNCHANGED vars
  BY <1>3 DEF EndReconcile, Inspect, Edit, BeginCheck, KubeletRestart, DeletePod, TearDown,
     Forget, vars
<1>4. ASSUME NEW w \in Containers, WaitForMount(w) \/ CleanRemove(w) PROVE FALSE
  BY <1>1, <1>4 DEF WaitForMount, CleanRemove, Files
<1> QED
  BY <1>2, <1>3, <1>4 DEF Next, DriverStep, ReconcilerStep, Mounting, Terminated, Containers

\* Where the repair is after each of its steps: it comes to unmount a folder only by
\* looking at it.
LEMMA CleanSteps ==
    ASSUME TypeOK, Orderly, [Next]_vars, worker'["reconciler"].pc = "clean"
    PROVE  \/ worker'["reconciler"] = worker["reconciler"]
           \/ /\ worker'["reconciler"].current \in Datasets
              /\ \/ Broken(worker'["reconciler"].current)
                 \/ ShowsNothing(worker'["reconciler"].current)
              /\ UNCHANGED <<fs, kubelet>>
<1> DEFINE call == worker["reconciler"]
           after == worker'["reconciler"]
<1>1. /\ worker \in [Containers -> Workers] /\ call \in Workers
      /\ "reconciler" \in Containers /\ Containers = {"driver", "reconciler"}
  BY DEF TypeOK, Containers
<1>2. CASE BeginPublish \/ BeginUnpublish
  BY <1>2, BeginRecords
<1>3. CASE \E d \in Datasets \cup {Passwd} :
                 UnpublishName(d) \/ (d \in Datasets /\ PublishDataset(d))
  BY <1>3, NameRecords
<1>4. CASE EndPublish \/ EndUnpublish \/ Crash("driver")
  BY <1>1, <1>4 DEF EndPublish, Published, EndUnpublish, Crash, Becomes
<1>5. CASE Mounting("driver")
  BY <1>5, MountingRecords
<1>6. CASE \/ KubeletRestart \/ DeletePod \/ TearDown \/ Forget \/ UNCHANGED vars
           \/ \E d \in Datasets : Edit(d)
  BY <1>6 DEF KubeletRestart, DeletePod, TearDown, Forget, Edit, vars
<1>7. ASSUME NEW record, Becomes("reconciler", record), record.pc # "clean" PROVE FALSE
  BY <1>1, <1>7 DEF Becomes
<1>8. /\ Idle.pc # "clean" /\ [Idle EXCEPT !.pc = "next"].pc # "clean"
      /\ [Idle EXCEPT !.pc = "next", !.failed = TRUE].pc # "clean"
  BY DEF Idle
<1>9. ASSUME EndReconcile \/ Crash("reconciler") PROVE FALSE
  BY <1>7, <1>8, <1>9 DEF EndReconcile, Crash
<1>10. ASSUME NEW scope \in Scopes, BeginCheck(scope) PROVE FALSE
  <2> DEFINE list == [d \in Datasets |-> IF d \in scope THEN catalog[d] ELSE "absent"]
  <2>1. [Idle EXCEPT !.pc = "listed", !.list = list].pc # "clean"
    BY DEF Idle
  <2> QED
    BY <1>7, <1>10, <2>1 DEF BeginCheck
<1>11. ASSUME BeginReconcile PROVE FALSE
  <2> DEFINE todo == Matching(call.list) \cup (Listed(call.list) \cap fs.folders)
             failed == Invalid(call.list) \ fs.folders # {}
  <2>1. [call EXCEPT !.pc = "next", !.todo = todo, !.failed = failed].pc # "clean"
    BY <1>1 DEF Workers
  <2> QED
    BY <1>7, <1>8, <1>11, <2>1 DEF BeginReconcile
<1>12. ASSUME Remount PROVE FALSE
  <2> DEFINE d == call.current
  <2>1. /\ [call EXCEPT !.pc = "launched", !.current = d, !.todo = @ \ {d}].pc # "clean"
        /\ [call EXCEPT !.pc = "next", !.current = Passwd, !.todo = @ \ {d},
                        !.failed = TRUE].pc # "clean"
    BY <1>1 DEF Workers
  <2> QED
    BY <1>7, <1>12, <2>1 DEF Remount, Launch
<1>13. ASSUME Mounting("reconciler") PROVE FALSE
  <2>1. ~(Counts("reconciler") \/ Fails("reconciler") \/ Skips("reconciler"))
    BY <1>1, OutcomeRecords
  <2>2. /\ [call EXCEPT !.pc = "await"].pc # "clean"
        /\ [call EXCEPT !.pc = "remove"].pc # "clean"
        /\ [call EXCEPT !.pc = "launch"].pc # "clean"
    BY <1>1 DEF Workers
  <2> QED
    BY <1>7, <1>13, <2>1, <2>2 DEF Mounting, Attach, WaitForMount, CleanUnmount, CleanRemove,
       Cleaned
<1>14. ASSUME NEW d \in Datasets, Inspect(d)
       PROVE  /\ after.current = d /\ UNCHANGED <<fs, kubelet>>
              /\ Broken(d) \/ ShowsNothing(d)
  <2> DEFINE examined == [call EXCEPT !.current = d, !.todo = @ \ {d}]
  <2>1. examined \in Workers /\ examined.current = d
    BY <1>1 DEF Workers
  <2>2. /\ [examined EXCEPT !.pc = "launch"].pc # "clean"
        /\ [examined EXCEPT !.pc = "clean"].current = d
        /\ [examined EXCEPT !.current = Passwd].pc = call.pc
    BY <1>1, <2>1 DEF Workers
  <2>3. call.pc = "next"
    BY <1>14 DEF Inspect
  <2>4. /\ Becomes("reconciler", [examined EXCEPT !.pc = "clean"])
        /\ Broken(d) \/ ShowsNothing(d)
        /\ UNCHANGED <<fs, kubelet>>
    BY <1>7, <1>14, <2>2, <2>3, OrderlySteps DEF Inspect
  <2> HIDE DEF examined
  <2>5. after = [examined EXCEPT !.pc = "clean"]
    BY <1>1, <2>4 DEF Becomes
  <2> QED
    BY <2>2, <2>4, <2>5
<1> QED
  BY <1>2, <1>3, <1>4, <1>5, <1>6, <1>9, <1>10, <1>11, <1>12, <1>13, <1>14
     DEF Next, DriverStep, ReconcilerStep, Terminated, Containers

\* When the volume is torn down nothing is mounted.
LEMMA TornSteps ==
    ASSUME TypeOK, Nested, [Next]_vars, kubelet = "unpublish", kubelet' # "unpublish",
           NEW d \in Datasets
    PROVE  ~Mounted(d)'
<1>1. fs \in Files
  BY DEF TypeOK
<1>2. BeginUnpublish \/ EndUnpublish
  <2>1. CASE BeginPublish \/ EndPublish \/ KubeletRestart \/ TearDown \/ Forget
    BY <2>1 DEF BeginPublish, EndPublish, KubeletRestart, TearDown, Forget
  <2>2. CASE \/ \E name \in Datasets \cup {Passwd} : UnpublishName(name)
             \/ \E scope \in Scopes : BeginCheck(scope)
             \/ \E w \in Containers : Crash(w) \/ Mounting(w)
             \/ \E x \in Datasets : Edit(x) \/ Inspect(x) \/ PublishDataset(x)
             \/ BeginReconcile \/ Remount \/ EndReconcile \/ DeletePod \/ UNCHANGED vars
    BY <2>2 DEF UnpublishName, BeginCheck, Crash, Mounting, Attach, WaitForMount, CleanUnmount,
       CleanRemove, Edit, Inspect, PublishDataset, Launch, BeginReconcile, Remount,
       EndReconcile, DeletePod, vars
  <2> QED
    BY <2>1, <2>2 DEF Next, DriverStep, ReconcilerStep, Terminated, Containers
<1>3. fs.folders = {}
  BY <1>2 DEF BeginUnpublish, EndUnpublish, Nested
<1>4. fs'.mounts = fs.mounts
  BY <1>1, <1>2 DEF BeginUnpublish, EndUnpublish, Files
<1> QED
  BY <1>3, <1>4 DEF Nested, Mounted

\* A folder that a repair is about to clean does not get a working mount meanwhile.
LEMMA CleanStep ==
    ASSUME TypeOK, Orderly, InHand, Nested, PhasesInv, FreshInv, OnceInv, CleanInv, [Next]_vars
    PROVE  CleanInv'
<1> DEFINE call == worker["reconciler"]
           after == worker'["reconciler"]
<1> SUFFICES ASSUME after.pc = "clean", after.current \notin EmptyBuckets,
                    kubelet' # "unpublish", NEW d, d = after.current
             PROVE  ~Serving(d)'
  BY DEF CleanInv, Serving, Mounted
<1>1. CASE /\ d \in Datasets
           /\ Broken(d) \/ ShowsNothing(d)
           /\ UNCHANGED <<fs, kubelet>>
  BY <1>1 DEF Broken, ShowsNothing, Serving, Mounted
<1>2. CASE after = call
  <2>1. d = call.current /\ d \in Datasets
    BY <1>2 DEF InHand, Holding, Containers
  <2>2. CASE kubelet = "unpublish"
    BY <1>2, <2>1, <2>2, TornSteps DEF Serving
  <2>3. CASE kubelet # "unpublish"
    <3>1. ~Serving(d)
      BY <1>2, <2>1, <2>3 DEF CleanInv
    <3>2. CASE fs'.mounts = fs.mounts
      BY <1>2, <3>1, <3>2 DEF Serving, Mounted
    <3>3. ASSUME NEW w \in Containers, Attach(w) PROVE FALSE
      <4>1. w = "driver" /\ worker["driver"].pc = "launched"
        BY <1>2, <3>3 DEF Attach, Containers
      <4>2. Early
        BY <2>3, <4>1 DEF PhasesInv, OnceInv, Early, TypeOK
      <4> QED
        BY <1>2, <4>2 DEF FreshInv
    <3>4. ASSUME NEW w \in Containers, CleanUnmount(w) PROVE FALSE
      <4>1. worker[w].pc = "clean"
        BY <3>4 DEF CleanUnmount
      <4>2. w = "reconciler"
        BY <2>3, <4>1 DEF PhasesInv, Containers, TypeOK
      <4>3. after.pc # "clean"
        <5>1. worker \in [Containers -> Workers] /\ call \in Workers
          BY DEF TypeOK, Containers
        <5>2. Skips("reconciler") => after.pc = "next"
          BY OutcomeRecords DEF Containers
        <5>3. /\ [call EXCEPT !.pc = "remove"].pc = "remove"
              /\ [call EXCEPT !.pc = "launch"].pc = "launch"
          BY <5>1 DEF Workers
        <5>4. \/ Skips("reconciler")
              \/ worker' = [worker EXCEPT !["reconciler"] = [call EXCEPT !.pc = "remove"]]
              \/ worker' = [worker EXCEPT !["reconciler"] = [call EXCEPT !.pc = "launch"]]
          BY <3>4, <4>2 DEF CleanUnmount, Cleaned, Becomes
        <5> QED
          BY <5>1, <5>2, <5>3, <5>4 DEF Containers
      <4> QED
        BY <4>3
    <3>5. ASSUME NEW w \in Containers, Crash(w) PROVE ~Serving(d)'
      <4>1. Mounted(d)' <=> Mounted(d)
        BY <2>1, <3>5, CrashMounts
      <4>2. Mounted(d) => ~Serving(d)'
        BY <2>1, <3>1, <3>5, CrashMounts
      <4>3. ~Mounted(d)' => ~Serving(d)'
        BY DEF Serving
      <4> QED
        BY <4>1, <4>2, <4>3
    <3> QED
      BY <3>2, <3>3, <3>4, <3>5, MountSteps
  <2> QED
    BY <2>2, <2>3
<1> QED
  BY <1>1, <1>2, CleanSteps

\* A working mount of a dataset with objects is lost to unpublish or to a crash.
LEMMA KeptStep ==
    ASSUME TypeOK, Orderly, PhasesInv, CleanInv, [Next]_vars,
           NEW d \in Datasets \ EmptyBuckets, Serving(d), ~Serving(d)'
    PROVE  kubelet = "unpublish" \/ spent'["crashes"] > spent["crashes"]
<1>1. fs'.mounts[d] # fs.mounts[d]
  BY DEF Serving, Mounted
<1>2. PICK w \in Containers : Attach(w) \/ CleanUnmount(w) \/ Crash(w)
  BY <1>1, MountSteps
<1>3. CASE Attach(w)
  BY <1>1, <1>3, AttachMounts
<1>4. CASE CleanUnmount(w)
  <2>1. worker[w].pc = "clean"
    BY <1>4 DEF CleanUnmount
  <2>2. worker[w].current = d
    <3>1. fs \in Files /\ fs.mounts \in [Datasets -> Seq(Mounts)]
      BY DEF TypeOK, Files
    <3>2. \/ UNCHANGED fs
          \/ fs' = [fs EXCEPT !.mounts[worker[w].current] = Tail(@)]
      BY <1>4 DEF CleanUnmount
    <3> QED
      BY <1>1, <3>1, <3>2 DEF Files
  <2>3. CASE w = "driver"
    BY <2>1, <2>3 DEF PhasesInv, TypeOK
  <2>4. CASE w = "reconciler"
    BY <2>1, <2>2, <2>4 DEF CleanInv
  <2> QED
    BY <2>3, <2>4 DEF Containers
<1>5. CASE Crash(w)
  BY <1>5 DEF Crash, Spend, TypeOK
<1> QED
  BY <1>2, <1>3, <1>4, <1>5

\* ServingMountsAreKept: as long as calls and listings succeed and the kubelet publishes a
\* volume once, a mount that serves objects is taken down by unpublish or a crash only,
\* never by a health check's repair (CleanMountPoint behind isMountRequired), for any
\* datasets, crashes and edits.
THEOREM RepairsKeepMounts ==
    ASSUME MaxFaults = 0, MaxRestarts = 0
    PROVE  Spec => ServingMountsAreKept
<1>1. Orderly
  BY DEF Orderly
<1>2. Init => TypeOK /\ InHand /\ Nested /\ PublishInv /\ KeptInv
  <2> SUFFICES ASSUME Init PROVE TypeOK /\ InHand /\ Nested /\ PublishInv /\ KeptInv
    OBVIOUS
  <2>1. Nested /\ OnceInv
    BY DEF Init, Nested, Mounted, OnceInv
  <2>2. CleanInv
    BY DEF Init, Idle, CleanInv, Containers
  <2> QED
    BY <2>1, <2>2, HoldingInit, PublishInit DEF KeptInv
<1>3. TypeOK /\ InHand /\ Nested /\ PublishInv /\ KeptInv /\ [Next]_vars =>
          Nested' /\ PublishInv' /\ KeptInv'
  BY <1>1, NestedStep, PhasesStep, FreshStep, ProgressStep, OnceStep, CleanStep
     DEF PublishInv, KeptInv
<1>4. TypeOK /\ PublishInv /\ KeptInv /\ [Next]_vars =>
          [\A d \in Datasets \ EmptyBuckets :
              Serving(d) /\ ~Serving(d)'
                 => kubelet = "unpublish" \/ spent'["crashes"] > spent["crashes"]]_vars
  BY <1>1, KeptStep DEF PublishInv, KeptInv
<1> QED
  BY <1>2, <1>3, <1>4, HoldingStep, PTL DEF Spec, ServingMountsAreKept

================================================================================
