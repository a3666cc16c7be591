---------------------------- MODULE DatasetOperator ----------------------------
(***************************************************************************)
(* The reconciler of the MarketplaceDatasets of a namespace: it keeps two  *)
(* labels up to date, the bucket and a hash of the pod selectors, creates  *)
(* a health check when one of them changes, keeps the claim that pods      *)
(* mount for as long as there is a dataset, and writes a condition.        *)
(***************************************************************************)
EXTENDS PodSelector, StatusConditions, FiniteSets

CONSTANTS
    Datasets,      \* the names of datasets
    Specs,         \* the specs that users give them: [bucket, selectors]
    None,          \* a label that is not there
    Eventful,      \* those that are created, changed, removed and met by failures; each
                   \* of the others is installed already, or does not exist
    MaxUid,        \* bound on the times a dataset is created
    MaxEdits,      \* bound on the changes and removals
    MaxTroubles    \* bound on failed calls, restarts and writes of others, all together

Buckets == {s.bucket : s \in Specs}
SelectorLists == {s.selectors : s \in Specs}

ASSUME DatasetOperatorAssumption ==
    /\ Specs # {}
    /\ \A s \in Specs : s = [bucket |-> s.bucket, selectors |-> s.selectors]
    /\ Eventful \subseteq Datasets
    /\ None \notin Datasets /\ Datasets \cap {"copy", "claim"} = {}
    /\ MaxUid \in Nat /\ MaxEdits \in Nat /\ MaxTroubles \in Nat

VARIABLES
    stored,     \* stored[d]: the MarketplaceDataset named d in the API server
    claim,      \* the claim of the namespace, in the API server
    operator,   \* the operator's process
    checked,    \* checked[d]: the uid and the spec of d when a check was last created for it
    spent       \* what is used up of the bounds

vars == <<stored, claim, operator, checked, spent>>

--------------------------------------------------------------------------------
(* Data *)

\* getSelectorHash is one to one on lists of selectors; no selectors, and a list
\* that cannot be marshalled, give the empty hash.
NoSelectors == <<>>
Labels == [id : Buckets \cup {None}, hash : SelectorLists \cup {NoSelectors, None},
           uninstall : BOOLEAN]

\* The reasons of the dataset's condition and the status that each goes with.
InstallComplete == Condition("Install", "True", "InstallComplete")
InstallFailed == Condition("Install", "False", "InstallFailed")
ValidationFailed == Condition("Install", "False", "ValidationFailed")
CleanUp == Condition("CleanUpStatus", "True", "CleanedUp")   \* of somebody else
Times == {0, 1}   \* enough to tell whether the time has been set anew
Own == {[c EXCEPT !.time = t] :
           c \in {InstallComplete, InstallFailed, ValidationFailed}, t \in Times}
ConditionLists ==
    {<<>>, <<CleanUp>>} \cup {<<c>> : c \in Own} \cup {<<CleanUp, c>> : c \in Own}

Conditions ==
    [type : ToSet(Alphabet), status : {"True", "False", "Unknown"},
     reason : {c.reason : c \in Own \cup {CleanUp} \cup Sample}, time : Nat]

\* The order of the types of conditions is known, and Nil is no condition.
ASSUME ConditionAssumption ==
    /\ Alphabet \in Seq(STRING) /\ IsInjective(Alphabet)
    /\ \E i, j \in DOMAIN Alphabet :
           i < j /\ Alphabet[i] = "CleanUpStatus" /\ Alphabet[j] = "Install"
    /\ Nil \notin Conditions

Validated(spec) ==
    IF ValidateTerms(spec.selectors) THEN InstallComplete ELSE ValidationFailed

\* A dataset has a uid, which is 0 while there is none of the name.
Resources == [uid : Nat, spec : Specs, labels : Labels, conditions : ConditionLists]

Unlabelled == [id |-> None, hash |-> None, uninstall |-> FALSE]
Created(uid, spec) == [uid |-> uid, spec |-> spec, labels |-> Unlabelled, conditions |-> <<>>]
Installed(spec) ==
    [uid |-> 1, spec |-> spec,
     labels |-> [id |-> spec.bucket, hash |-> spec.selectors, uninstall |-> FALSE],
     conditions |-> <<Validated(spec)>>]
AnySpec == CHOOSE s \in Specs : TRUE
Absent == Created(0, AnySpec)

\* The claim's owners are kept by name and uid.
Live == {<<d, stored[d].uid>> : d \in {e \in Datasets : stored[e].uid # 0}}
NoClaim == [there |-> FALSE, owners |-> {}, annotated |-> FALSE]

\* A process that has just started: its caches are filled.
\* "behind" is what is older in the caches, or in the copy, than in the API server.
Started ==
    [pc |-> "idle", key |-> None, copy |-> Absent, cache |-> stored, claim |-> claim,
     behind |-> {}]

Init ==
    /\ \E old \in SUBSET (Datasets \ Eventful), spec \in [Datasets -> Specs] :
           stored = [d \in Datasets |-> IF d \in old THEN Installed(spec[d]) ELSE Absent]
    /\ claim = [there |-> Live # {}, owners |-> Live, annotated |-> Live # {}]
    /\ operator = Started
    /\ checked = [d \in Datasets |-> <<stored[d].uid, stored[d].spec>>]
    /\ spent = [creations |-> [d \in Datasets |-> 0], edits |-> 0, troubles |-> 0]

Trouble == spent.troubles < MaxTroubles /\ spent' = [spent EXCEPT !.troubles = @ + 1]
\* A call for the dataset in hand fails.
Fault == operator.key \in Eventful /\ Trouble
Edit == spent.edits < MaxEdits /\ spent' = [spent EXCEPT !.edits = @ + 1]

--------------------------------------------------------------------------------
(* Calls of the operator *)

AcceptedBlindly == TRUE   \* mutant: no version in the update
Accepted == "copy" \notin operator.behind

\* Every other write leaves the operator's views of the dataset behind.
Outdated(d) ==
    [operator EXCEPT !.behind = @ \cup {d} \cup (IF d = operator.key THEN {"copy"} ELSE {})]

\* An update of the dataset by the operator, of the resource or of its status.
Put(resource, then) ==
    /\ stored' = [stored EXCEPT ![operator.key] = resource]
    /\ operator' = [then EXCEPT !.behind =
                       IF resource = stored[operator.key] THEN @ ELSE @ \cup {operator.key}]

\* The end of Reconcile.  An error puts the dataset into the work queue again, which
\* only makes the next reconcile come sooner.
Returned ==
    [operator EXCEPT !.pc = "idle", !.key = None, !.copy = Absent, !.behind = @ \ {"copy"}]

At(pc) == [operator EXCEPT !.pc = pc]

--------------------------------------------------------------------------------
(* Reconcile *)

\* Mutant: the hash is set once.
RelabelledOnce(d, hash) ==
    [d.labels EXCEPT !.id = d.spec.bucket, !.hash = IF @ = None THEN hash ELSE @]

\* The labels that updateLabel computes.
Relabelled(d, hash) == [d.labels EXCEPT !.id = d.spec.bucket, !.hash = hash]

\* An event of the dataset, an error or the periodic resync of the cache wakes the
\* operator: at any time, as the resync does.  Reconcile takes the dataset from the
\* cache, returns when it is not there, and goes on to the call that comes first.
BeginReconcile(d) ==
    LET begun == [operator EXCEPT
            !.key = d, !.copy = operator.cache[d],
            !.behind = @ \cup (IF d \in @ THEN {"copy"} ELSE {})]
        taken == operator.cache[d]
        LabelWith(hash) ==
            operator' = [begun EXCEPT
                !.copy.labels = Relabelled(taken, hash),
                !.pc = IF Relabelled(taken, hash) = taken.labels THEN "claim" ELSE "update1"]
    IN /\ operator.pc = "idle" /\ taken.uid # 0
       /\ \/ /\ taken.labels.uninstall
             /\ operator' = [begun EXCEPT !.pc = "delete"]
             /\ UNCHANGED spent
          \/ /\ ~taken.labels.uninstall
             /\ LabelWith(taken.spec.selectors)
             /\ UNCHANGED spent
          \/ /\ ~taken.labels.uninstall
             /\ d \in Eventful /\ Trouble /\ LabelWith(NoSelectors)
       /\ UNCHANGED <<stored, claim, checked>>

\* The deletion names the dataset and nothing else of it.
DeleteDataset ==
    LET d == operator.key
    IN /\ operator.pc = "delete"
       /\ \/ /\ stored[d].uid # 0
             /\ stored' = [stored EXCEPT ![d] = Absent]
             /\ operator' = [Returned EXCEPT !.behind = @ \cup {d}]
             /\ UNCHANGED spent
          \/ /\ stored[d].uid = 0
             /\ operator' = Returned
             /\ UNCHANGED <<stored, spent>>
          \/ Fault /\ operator' = Returned /\ UNCHANGED stored
       /\ UNCHANGED <<claim, checked>>

\* The first of the two updates of updateLabel; nobody looks at its result.  An
\* update whose answer is lost has been done, and leaves the old version in hand.
FirstUpdate ==
    /\ operator.pc = "update1"
    /\ \/ /\ Accepted
          /\ Put(operator.copy, At("update2"))
          /\ UNCHANGED spent
       \/ /\ ~Accepted
          /\ operator' = At("update2")
          /\ UNCHANGED <<stored, spent>>
       \/ Fault /\ operator' = At("update2") /\ UNCHANGED stored
       \/ /\ Fault /\ Accepted
          /\ Put(operator.copy, [At("update2") EXCEPT !.behind = @ \cup {"copy"}])
    /\ UNCHANGED <<claim, checked>>

SecondUpdate ==
    /\ operator.pc = "update2"
    /\ \/ /\ Accepted
          /\ Put(operator.copy, At("announce"))
          /\ UNCHANGED spent
       \/ /\ ~Accepted
          /\ operator' = At("failed")
          /\ UNCHANGED <<stored, spent>>
       \/ Fault /\ operator' = At("failed") /\ UNCHANGED stored
    /\ UNCHANGED <<claim, checked>>

\* Mutant: no check for a dataset that had not been labelled yet.
AnnounceChangesOnly ==
    /\ operator.pc = "announce"
    /\ operator' = At("claim")
    /\ checked' = [checked EXCEPT ![operator.key] =
           IF operator.cache[operator.key].labels.hash = None THEN @
           ELSE <<stored[operator.key].uid, stored[operator.key].spec>>]
    /\ UNCHANGED <<stored, claim, spent>>

\* createHealthCheckCR: the nodes that handle the check read the dataset then.  A
\* failure is only logged.
Announce ==
    /\ operator.pc = "announce"
    /\ operator' = At("claim")
    /\ \/ /\ checked' = [checked EXCEPT ![operator.key] =
                            <<stored[operator.key].uid, stored[operator.key].spec>>]
          /\ UNCHANGED spent
       \/ Fault /\ UNCHANGED checked
    /\ UNCHANGED <<stored, claim>>

--------------------------------------------------------------------------------
(* The claim *)

\* Mutant: any owner will do.
OwnerSetAtAll(owners, name) == owners # {}

\* isOwnerSet: an owner of the name, whatever its uid.
OwnerSet(owners, name) == \E o \in owners : o[1] = name

\* What the asset makes of the claim that the operator sees.
Applied(seen) ==
    [seen EXCEPT !.annotated = TRUE,
         !.owners = IF OwnerSet(@, operator.key) THEN @
                    ELSE @ \cup {<<operator.key, operator.copy.uid>>}]

\* applyPersistentVolumeclaim, by the operator's cache.  A claim that is there
\* already is not created, and a claim that has changed is not updated.
ApplyClaim ==
    LET seen == operator.claim
        Write(new) ==
            /\ claim' = new
            /\ operator' = [At("complete") EXCEPT !.behind = @ \cup {"claim"}]
    IN /\ operator.pc = "claim"
       /\ \/ /\ ~seen.there /\ ~claim.there
             /\ Write([there |-> TRUE, annotated |-> TRUE,
                       owners |-> {<<operator.key, operator.copy.uid>>}])
             /\ UNCHANGED spent
          \/ /\ seen.there /\ Applied(seen) # seen /\ "claim" \notin operator.behind
             /\ Write(Applied(seen))
             /\ UNCHANGED spent
          \/ /\ seen.there /\ Applied(seen) = seen
             /\ operator' = At("complete")
             /\ UNCHANGED <<claim, spent>>
          \/ /\ \/ ~seen.there /\ claim.there
                \/ seen.there /\ Applied(seen) # seen /\ "claim" \in operator.behind
             /\ operator' = At("failed")
             /\ UNCHANGED <<claim, spent>>
          \/ Fault /\ operator' = At("failed") /\ UNCHANGED claim
       /\ UNCHANGED <<stored, checked>>

--------------------------------------------------------------------------------
(* The condition *)

\* A time that the condition does not have yet.
Now ==
    LET old == GetCondition(operator.copy.conditions, "Install")
    IN IF old = Nil THEN 0 ELSE 1 - old.time

\* setStatusInstallError and setStatusInstallComplete.  A failure of the update is
\* only logged.
SetStatus ==
    LET new == IF operator.pc = "failed" THEN InstallFailed ELSE Validated(operator.copy.spec)
    IN /\ operator.pc \in {"failed", "complete"}
       /\ \/ /\ Accepted
             /\ Put([stored[operator.key] EXCEPT !.conditions =
                        MarshalJSON(SetCondition(operator.copy.conditions, new, Now))], Returned)
             /\ UNCHANGED spent
          \/ /\ ~Accepted
             /\ operator' = Returned
             /\ UNCHANGED <<stored, spent>>
          \/ Fault /\ operator' = Returned /\ UNCHANGED stored
       /\ UNCHANGED <<claim, checked>>

--------------------------------------------------------------------------------
(* The controller runtime *)

WatchEvent(d) ==
    /\ d \in operator.behind
    /\ operator' = [operator EXCEPT !.cache[d] = stored[d], !.behind = @ \ {d}]
    /\ UNCHANGED <<stored, claim, checked, spent>>

\* The watch of the claims looks for an owner that is a controller, and a dataset
\* is none: the cache follows and nobody is woken, so a claim that is lost waits
\* for the resync.
ClaimEvent ==
    /\ "claim" \in operator.behind
    /\ operator' = [operator EXCEPT !.claim = claim, !.behind = @ \ {"claim"}]
    /\ UNCHANGED <<stored, claim, checked, spent>>

OperatorRestart ==
    /\ Trouble
    /\ operator' = Started
    /\ UNCHANGED <<stored, claim, checked>>

--------------------------------------------------------------------------------
(* Users, other writers, the garbage collector *)

UserWrites(d, resource) ==
    /\ stored' = [stored EXCEPT ![d] = resource]
    /\ operator' = Outdated(d)
    /\ UNCHANGED <<claim, checked>>

CreateDataset(d) ==
    /\ stored[d].uid = 0 /\ spent.creations[d] < MaxUid
    /\ spent' = [spent EXCEPT !.creations[d] = @ + 1]
    /\ \E s \in Specs : UserWrites(d, Created(spent.creations[d] + 1, s))

EditSpec(d) ==
    /\ stored[d].uid # 0 /\ Edit
    /\ \E s \in Specs \ {stored[d].spec} : UserWrites(d, [stored[d] EXCEPT !.spec = s])

RequestUninstall(d) ==
    /\ stored[d].uid # 0 /\ ~stored[d].labels.uninstall /\ Edit
    /\ UserWrites(d, [stored[d] EXCEPT !.labels.uninstall = TRUE])

\* A replacement of the whole resource drops the labels.
DropLabels(d) ==
    /\ stored[d].uid # 0 /\ Edit
    /\ UserWrites(d, [stored[d] EXCEPT !.labels = Unlabelled])

RemoveDataset(d) ==
    /\ stored[d].uid # 0 /\ Edit
    /\ UserWrites(d, Absent)

\* Somebody else writes the resource: the status has a place for another condition.
Touch(d) ==
    /\ d \in Eventful /\ stored[d].uid # 0 /\ Trouble
    /\ UserWrites(d, [stored[d] EXCEPT !.conditions = MarshalJSON(SetCondition(@, CleanUp, 0))])

ClaimBecomes(new) ==
    /\ claim' = new
    /\ operator' = [operator EXCEPT !.behind = @ \cup {"claim"}]
    /\ UNCHANGED <<stored, checked>>

SpoilClaim ==
    /\ claim.there /\ Trouble
    /\ \/ ClaimBecomes(NoClaim)
       \/ ClaimBecomes([claim EXCEPT !.annotated = FALSE])

\* The collector removes what has lost all its owners, and the owners that are
\* gone from what has lost some.
CollectGarbage ==
    /\ claim.there /\ ~(claim.owners \subseteq Live)
    /\ ClaimBecomes(IF claim.owners \cap Live = {} THEN NoClaim
                    ELSE [claim EXCEPT !.owners = @ \cap Live])
    /\ UNCHANGED spent

--------------------------------------------------------------------------------
(* The specification *)

OperatorStep ==
    \/ DeleteDataset \/ FirstUpdate \/ SecondUpdate \/ Announce \/ ApplyClaim \/ SetStatus

UserStep(d) ==
    /\ d \in Eventful
    /\ \/ CreateDataset(d) \/ EditSpec(d) \/ RequestUninstall(d)
       \/ DropLabels(d) \/ RemoveDataset(d)

Next ==
    \/ OperatorStep \/ ClaimEvent \/ OperatorRestart \/ SpoilClaim \/ CollectGarbage
    \/ \E d \in Datasets :
           BeginReconcile(d) \/ WatchEvent(d) \/ UserStep(d) \/ Touch(d)

Spec == Init /\ [][Next]_vars

\* The cache is resynchronised from time to time and the queue worked off in turn,
\* so no dataset waits for ever.
Fairness ==
    /\ WF_vars(OperatorStep) /\ WF_vars(ClaimEvent) /\ WF_vars(CollectGarbage)
    /\ \A d \in Datasets :
           SF_vars(BeginReconcile(d)) /\ WF_vars(WatchEvent(d))

FairSpec == Spec /\ Fairness

--------------------------------------------------------------------------------
(* Properties *)

Views == Datasets \cup {"copy", "claim"}
Steps == {"idle", "delete", "update1", "update2", "announce", "claim", "failed", "complete"}

\* Every variable has its type: a dataset has one condition at most, and the step
\* of Reconcile goes with a dataset in hand.
TypeOK ==
    /\ stored \in [Datasets -> Resources]
    /\ claim \in [there : BOOLEAN, owners : SUBSET (Datasets \X Nat), annotated : BOOLEAN]
    /\ operator \in [pc : Steps, key : Datasets \cup {None}, copy : Resources,
                     cache : [Datasets -> Resources],
                     claim : [there : BOOLEAN, owners : SUBSET (Datasets \X Nat),
                              annotated : BOOLEAN],
                     behind : SUBSET Views]
    /\ operator.pc # "idle" => operator.key \in Datasets
    /\ checked \in [Datasets -> Nat \X Specs]
    /\ spent \in [creations : [Datasets -> Nat], edits : 0 .. MaxEdits,
                  troubles : 0 .. MaxTroubles]

\* The operator writes the whole resource, from a copy that may be old, and never
\* takes back what a user has written: the spec changes only with the user's edit,
\* and a request to uninstall stays until the dataset is gone or the user drops it.
\* A condition of another type in the status stays as well.
EditsSurvive ==
    [][\A d \in Datasets :
           stored'[d].uid = stored[d].uid /\ spent'.edits = spent.edits =>
               /\ stored'[d].spec = stored[d].spec
               /\ stored'[d].labels.uninstall = stored[d].labels.uninstall
               /\ GetCondition(stored[d].conditions, "CleanUpStatus") # Nil =>
                      GetCondition(stored'[d].conditions, "CleanUpStatus") # Nil]_vars

\* The lists of conditions that Reconcile has in hand when it is about to set one
\* are maps for all operations on them.
ConditionsAreAMap == operator.pc \in {"failed", "complete"} => IsAMap(operator.copy.conditions)

\* The claim is there in the end if and only if there is a dataset, it is owned by
\* the datasets that there are and by no earlier ones of their names, and it has
\* its annotation: whatever the collector, a user and a stale cache do in between.
ClaimFollowsDatasets ==
    <>[](/\ claim.there = (Live # {})
         /\ claim.owners = Live
         /\ claim.there => claim.annotated)

\* In the end the labels agree with the spec and the condition with the validity
\* of the selectors, and a dataset that is to be uninstalled is gone.
DatasetsConverge ==
    <>[](\A d \in Datasets : stored[d].uid # 0 =>
            /\ stored[d].labels = [id |-> stored[d].spec.bucket,
                                   hash |-> stored[d].spec.selectors, uninstall |-> FALSE]
            /\ \E t \in Times : GetCondition(stored[d].conditions, "Install") =
                                  [Validated(stored[d].spec) EXCEPT !.time = t])

\* The operator is woken by its own writes and comes to rest all the same: in the
\* end it writes nothing any more, though it reconciles again and again.
OperatorComesToRest == <>[][UNCHANGED <<stored, claim>>]_vars

\* Every new dataset and every change of its bucket or selectors leads to a health
\* check, as long as no call fails, the operator does not restart, and nobody else
\* writes between the two updates: the label that would tell is stored before the
\* check is created.  Two changes of users that cancel out, one of them before the
\* second update, are enough to lose the check for good.
UndisturbedChangeIsChecked ==
    <>[](spent.troubles = 0 /\ spent.edits <= 1 =>
            \A d \in Datasets : stored[d].uid # 0 =>
                checked[d] = <<stored[d].uid, stored[d].spec>>)

================================================================================
