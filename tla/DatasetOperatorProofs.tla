------------------------- MODULE DatasetOperatorProofs -------------------------
(***************************************************************************)
(* Theorems about DatasetOperator, for every set of datasets and specs and *)
(* every bound.                                                            *)
(*                                                                         *)
(* The lists of conditions that can occur have four forms; the lemmas say  *)
(* what setting a condition and sorting make of each.  CopyInv adds to the *)
(* types that a view of the operator that is not behind agrees with the    *)
(* stored resource, so that an accepted update changes only what it means  *)
(* to change.  The last sections are about lists of conditions of any      *)
(* length: what every operation makes of the set of conditions on a list.  *)
(***************************************************************************)
EXTENDS DatasetOperator, Induction, SequenceTheorems, FiniteSetTheorems, TLAPS

--------------------------------------------------------------------------------
(* Lists of conditions *)

Records == {CleanUp} \cup Own

LEMMA OwnTypes ==
    /\ \A c \in Own : c.type = "Install" /\ c.time \in Times
                      /\ \A t \in Times : [c EXCEPT !.time = t] \in Own
    /\ CleanUp.type = "CleanUpStatus" /\ CleanUp.time = 0
    /\ InstallComplete \in Own /\ InstallFailed \in Own /\ ValidationFailed \in Own
  BY DEF Own, CleanUp, InstallComplete, InstallFailed, ValidationFailed, Condition, Times

LEMMA Ranks == Rank("CleanUpStatus") \in Nat /\ Rank("Install") \in Nat
               /\ Rank("CleanUpStatus") < Rank("Install")
  <1>1. PICK i \in DOMAIN Alphabet, j \in DOMAIN Alphabet :
            i < j /\ Alphabet[i] = "CleanUpStatus" /\ Alphabet[j] = "Install"
    BY ConditionAssumption DEF ConditionAssumption
  <1>2. Rank("CleanUpStatus") = i /\ Rank("Install") = j
    BY <1>1, ConditionAssumption DEF ConditionAssumption, IsInjective, Rank
  <1>3. DOMAIN Alphabet \subseteq Nat
    BY ConditionAssumption DEF ConditionAssumption
  <1> QED
    BY <1>1, <1>2, <1>3

LEMMA KnownConditions == Records \cup Sample \subseteq Conditions
  <1>1. "CleanUpStatus" \in ToSet(Alphabet) /\ "Install" \in ToSet(Alphabet)
    BY ConditionAssumption DEF ConditionAssumption, ToSet
  <1>2. \A c \in Records \cup Sample :
            c.reason \in {d.reason : d \in Own \cup {CleanUp} \cup Sample}
    BY DEF Records
  <1>3. \A c \in Records \cup Sample :
            /\ c = [type |-> c.type, status |-> c.status, reason |-> c.reason, time |-> c.time]
            /\ c.type \in ToSet(Alphabet) /\ c.status \in {"True", "False", "Unknown"}
            /\ c.time \in Nat
    BY <1>1 DEF Records, Own, CleanUp, InstallComplete, InstallFailed, ValidationFailed,
                Condition, Times, Sample
  <1> QED
    BY <1>2, <1>3 DEF Conditions

LEMMA SortedEmpty == MarshalJSON(<<>>) = <<>>
  BY DEF MarshalJSON, Arranged

LEMMA SortedOne == ASSUME NEW c \in Records PROVE MarshalJSON(<<c>>) = <<c>>
  <1> DEFINE conds == <<c>>
             P(order) == InOrder(Arranged(conds, order))
             orders == Bijection(DOMAIN conds, DOMAIN conds)
             chosen == CHOOSE order \in orders : P(order)
  <1>1. DOMAIN conds = {1}
    OBVIOUS
  <1> DEFINE id == [i \in {1} |-> 1]
  <1>2. id \in orders
    BY <1>1 DEF Bijection, Injection, Surjection, IsInjective
  <1>3. P(id)
    BY <1>1 DEF InOrder, Arranged
  <1>4. chosen \in orders
    BY <1>2, <1>3
  <1>5. chosen[1] = 1
    BY <1>1, <1>4 DEF Bijection, Injection
  <1>6. Arranged(conds, chosen) = <<c>>
    BY <1>5 DEF Arranged
  <1> QED
    BY <1>6 DEF MarshalJSON

\* Two conditions of the two types, in either order, are stored in the one order.
LEMMA SortedTwo ==
    ASSUME NEW c \in Own
    PROVE  /\ MarshalJSON(<<CleanUp, c>>) = <<CleanUp, c>>
           /\ MarshalJSON(<<c, CleanUp>>) = <<CleanUp, c>>
  <1> DEFINE orders == Bijection(1 .. 2, 1 .. 2)
             id == [i \in 1 .. 2 |-> i]
             swap == [i \in 1 .. 2 |-> 3 - i]
  <1>1. ASSUME NEW order \in orders
        PROVE  \/ order[1] = 1 /\ order[2] = 2
               \/ order[1] = 2 /\ order[2] = 1
    <2>1. order \in [1 .. 2 -> 1 .. 2] /\ (order[1] = order[2] => 1 = 2)
      BY DEF Bijection, Injection, IsInjective
    <2>2. order[1] \in 1 .. 2 /\ order[2] \in 1 .. 2
      BY <2>1
    <2> QED
      BY <2>1, <2>2
  <1>2. id \in orders /\ swap \in orders
    BY DEF Bijection, Injection, Surjection, IsInjective
  <1>3. id[1] = 1 /\ swap[1] = 2
    OBVIOUS
  <1>4. c \in Records /\ CleanUp \in Records
    BY DEF Records
  <1>5. ASSUME NEW a \in Records, NEW b \in Records
        PROVE  /\ DOMAIN <<a, b>> = 1 .. 2
               /\ \A order \in orders :
                     /\ order[1] = 1 => Arranged(<<a, b>>, order) = <<a, b>>
                     /\ order[1] = 2 => Arranged(<<a, b>>, order) = <<b, a>>
    BY <1>1 DEF Arranged
  <1>6. InOrder(<<CleanUp, c>>) /\ ~InOrder(<<c, CleanUp>>)
    BY Ranks, OwnTypes DEF InOrder
  <1> HIDE DEF orders, id, swap
  <1>7. ASSUME NEW conds,
               DOMAIN conds = 1 .. 2,
               \E order \in orders : InOrder(Arranged(conds, order)),
               \A order \in orders :
                   InOrder(Arranged(conds, order)) => Arranged(conds, order) = <<CleanUp, c>>
        PROVE  MarshalJSON(conds) = <<CleanUp, c>>
    <2> DEFINE chosen == CHOOSE order \in orders : InOrder(Arranged(conds, order))
    <2>1. chosen \in orders /\ InOrder(Arranged(conds, chosen))
      BY <1>7
    <2>2. MarshalJSON(conds) = Arranged(conds, chosen)
      BY <1>7 DEF MarshalJSON, orders
    <2> HIDE DEF chosen
    <2> QED
      BY <1>7, <2>1, <2>2
  <1>8. MarshalJSON(<<CleanUp, c>>) = <<CleanUp, c>>
    <2>1. Arranged(<<CleanUp, c>>, id) = <<CleanUp, c>>
      BY <1>2, <1>3, <1>4, <1>5
    <2>2. \A order \in orders :
              \/ Arranged(<<CleanUp, c>>, order) = <<CleanUp, c>>
              \/ Arranged(<<CleanUp, c>>, order) = <<c, CleanUp>>
      BY <1>1, <1>4, <1>5
    <2> QED
      BY <1>2, <1>4, <1>5, <1>6, <1>7, <2>1, <2>2
  <1>9. MarshalJSON(<<c, CleanUp>>) = <<CleanUp, c>>
    <2>1. Arranged(<<c, CleanUp>>, swap) = <<CleanUp, c>>
      BY <1>2, <1>3, <1>4, <1>5
    <2>2. \A order \in orders :
              \/ Arranged(<<c, CleanUp>>, order) = <<CleanUp, c>>
              \/ Arranged(<<c, CleanUp>>, order) = <<c, CleanUp>>
      BY <1>1, <1>4, <1>5
    <2> QED
      BY <1>2, <1>4, <1>5, <1>6, <1>7, <2>1, <2>2
  <1> QED
    BY <1>8, <1>9

LEMMA AppendPair == \A a, b : Append(<<a>>, b) = <<a, b>>
  <1> TAKE a, b
  <1> DEFINE S == {a, b}
             s == Append(<<a>>, b)
  <1>1. <<a>> \in Seq(S) /\ b \in S /\ Len(<<a>>) = 1
    OBVIOUS
  <1>2. s \in Seq(S) /\ Len(s) = 2 /\ s[1] = a /\ s[2] = b
    <2> HIDE DEF S
    <2> QED
      BY <1>1, AppendProperties
  <1> HIDE DEF s, S
  <1>3. DOMAIN s = 1 .. 2 /\ s = [i \in DOMAIN s |-> s[i]]
    BY <1>2
  <1>4. \A i \in 1 .. 2 : s[i] = <<a, b>>[i]
    BY <1>2
  <1>5. s = [i \in 1 .. 2 |-> <<a, b>>[i]]
    BY <1>3, <1>4
  <1>6. <<a, b>> = [i \in 1 .. 2 |-> <<a, b>>[i]]
    OBVIOUS
  <1> QED
    BY <1>5, <1>6 DEF s

\* SetCondition on the lists that there are: without and with a condition of the
\* operator's own.
LEMMA SetFirst ==
    ASSUME NEW now \in Times, NEW new \in Own
    PROVE  \E d \in Own : /\ SetCondition(<<>>, new, now) = <<d>>
                         /\ SetCondition(<<CleanUp>>, new, now) = <<CleanUp, d>>
  <1> DEFINE d == [new EXCEPT !.time = now]
  <1>1. d \in Own /\ new.type = "Install" /\ CleanUp.type = "CleanUpStatus"
    BY OwnTypes
  <1>2. Position(<<>>, "Install") = 0 /\ Position(<<CleanUp>>, "Install") = 0
    BY <1>1 DEF Position
  <1>3. SetCondition(<<>>, new, now) = <<d>>
    BY <1>1, <1>2 DEF SetCondition
  <1>4. SetCondition(<<CleanUp>>, new, now) = <<CleanUp, d>>
    BY <1>1, <1>2, AppendPair DEF SetCondition
  <1> QED
    BY <1>1, <1>3, <1>4

LEMMA SetOwn ==
    ASSUME NEW c \in Own, NEW now \in Times, NEW new \in Own
    PROVE  \E d \in Own : /\ SetCondition(<<c>>, new, now) = <<d>>
                         /\ SetCondition(<<CleanUp, c>>, new, now) = <<CleanUp, d>>
  <1> DEFINE time == IF c.status = new.status THEN c.time ELSE now
             d == [new EXCEPT !.time = time]
  <1>1. time \in Times /\ new.type = "Install" /\ c.type = "Install"
        /\ CleanUp.type = "CleanUpStatus"
    BY OwnTypes
  <1>2. d \in Own
    BY <1>1, OwnTypes
  <1>3. Position(<<c>>, "Install") = 1 /\ Position(<<CleanUp, c>>, "Install") = 2
    BY <1>1 DEF Position
  <1>4. SetCondition(<<c>>, new, now) = <<d>>
    BY <1>1, <1>3 DEF SetCondition
  <1>5. SetCondition(<<CleanUp, c>>, new, now) = <<CleanUp, d>>
    BY <1>1, <1>3 DEF SetCondition
  <1> QED
    BY <1>2, <1>4, <1>5

LEMMA SetCleanUp ==
    ASSUME NEW c \in Own
    PROVE  /\ SetCondition(<<>>, CleanUp, 0) = <<CleanUp>>
           /\ SetCondition(<<CleanUp>>, CleanUp, 0) = <<CleanUp>>
           /\ SetCondition(<<c>>, CleanUp, 0) = <<c, CleanUp>>
           /\ SetCondition(<<CleanUp, c>>, CleanUp, 0) = <<CleanUp, c>>
  <1>1. c.type = "Install" /\ CleanUp.type = "CleanUpStatus" /\ CleanUp.time = 0
    BY OwnTypes
  <1>2. /\ Position(<<>>, CleanUp.type) = 0 /\ Position(<<CleanUp>>, CleanUp.type) = 1
        /\ Position(<<c>>, CleanUp.type) = 0 /\ Position(<<CleanUp, c>>, CleanUp.type) = 1
    BY <1>1 DEF Position
  <1>3. [CleanUp EXCEPT !.time = 0] = CleanUp
    BY DEF CleanUp, Condition
  <1> QED
    BY <1>1, <1>2, <1>3, AppendPair DEF SetCondition

\* Every list has one of these forms.
LEMMA ListForms ==
    ASSUME NEW conds \in ConditionLists
    PROVE  \/ conds = <<>>
           \/ conds = <<CleanUp>>
           \/ \E c \in Own : conds = <<c>>
           \/ \E c \in Own : conds = <<CleanUp, c>>
  BY DEF ConditionLists

LEMMA CleanUpThere ==
    ASSUME NEW c \in Own
    PROVE  /\ GetCondition(<<>>, "CleanUpStatus") = Nil
           /\ GetCondition(<<c>>, "CleanUpStatus") = Nil
           /\ GetCondition(<<CleanUp>>, "CleanUpStatus") # Nil
           /\ GetCondition(<<CleanUp, c>>, "CleanUpStatus") # Nil
  <1>1. c.type = "Install" /\ CleanUp.type = "CleanUpStatus"
    BY OwnTypes
  <1>2. /\ Position(<<>>, "CleanUpStatus") = 0 /\ Position(<<CleanUp>>, "CleanUpStatus") = 1
        /\ Position(<<c>>, "CleanUpStatus") = 0 /\ Position(<<CleanUp, c>>, "CleanUpStatus") = 1
    BY <1>1 DEF Position
  <1>3. CleanUp # Nil
    BY KnownConditions, ConditionAssumption DEF ConditionAssumption, Records
  <1> QED
    BY <1>2, <1>3 DEF GetCondition

\* What is stored after a condition is set is a list again, and still has the
\* condition of somebody else.
Kept(conds, after) ==
    /\ after \in ConditionLists
    /\ GetCondition(conds, "CleanUpStatus") # Nil => GetCondition(after, "CleanUpStatus") # Nil

LEMMA SortedForms ==
    ASSUME NEW c \in Own
    PROVE  /\ MarshalJSON(<<>>) = <<>>
           /\ MarshalJSON(<<CleanUp>>) = <<CleanUp>>
           /\ MarshalJSON(<<c>>) = <<c>>
           /\ MarshalJSON(<<CleanUp, c>>) = <<CleanUp, c>>
           /\ MarshalJSON(<<c, CleanUp>>) = <<CleanUp, c>>
  BY SortedEmpty, SortedOne, SortedTwo DEF Records

LEMMA StoredOwn ==
    ASSUME NEW conds \in ConditionLists, NEW new \in Own, NEW now \in Times
    PROVE  Kept(conds, MarshalJSON(SetCondition(conds, new, now)))
  <1>1. CASE conds = <<>>
    <2>1. \E d \in Own : SetCondition(<<>>, new, now) = <<d>>
      BY SetFirst
    <2> QED
      BY <1>1, <2>1, SortedForms, CleanUpThere DEF Kept, ConditionLists
  <1>2. CASE conds = <<CleanUp>>
    <2>1. \E d \in Own : SetCondition(<<CleanUp>>, new, now) = <<CleanUp, d>>
      BY SetFirst
    <2> QED
      BY <1>2, <2>1, SortedForms, CleanUpThere DEF Kept, ConditionLists
  <1>3. ASSUME NEW c \in Own, conds = <<c>>
        PROVE  Kept(conds, MarshalJSON(SetCondition(conds, new, now)))
    <2>1. \E d \in Own : SetCondition(<<c>>, new, now) = <<d>>
      BY SetOwn
    <2> QED
      BY <1>3, <2>1, SortedForms, CleanUpThere DEF Kept, ConditionLists
  <1>4. ASSUME NEW c \in Own, conds = <<CleanUp, c>>
        PROVE  Kept(conds, MarshalJSON(SetCondition(conds, new, now)))
    <2>1. \E d \in Own : SetCondition(<<CleanUp, c>>, new, now) = <<CleanUp, d>>
      BY SetOwn
    <2> QED
      BY <1>4, <2>1, SortedForms, CleanUpThere DEF Kept, ConditionLists
  <1> QED
    BY <1>1, <1>2, <1>3, <1>4, ListForms

LEMMA StoredCleanUp ==
    ASSUME NEW conds \in ConditionLists
    PROVE  Kept(conds, MarshalJSON(SetCondition(conds, CleanUp, 0)))
  <1>1. CASE conds = <<>> \/ conds = <<CleanUp>>
    BY <1>1, SetCleanUp, OwnTypes, SortedForms, CleanUpThere DEF Kept, ConditionLists
  <1>2. ASSUME NEW c \in Own, conds = <<c>>
        PROVE  Kept(conds, MarshalJSON(SetCondition(conds, CleanUp, 0)))
    <2>1. SetCondition(conds, CleanUp, 0) = <<c, CleanUp>>
      BY <1>2, SetCleanUp
    <2>2. MarshalJSON(<<c, CleanUp>>) = <<CleanUp, c>>
      BY SortedForms
    <2>3. GetCondition(conds, "CleanUpStatus") = Nil /\ <<CleanUp, c>> \in ConditionLists
      BY <1>2, CleanUpThere DEF ConditionLists
    <2> QED
      BY <2>1, <2>2, <2>3 DEF Kept
  <1>3. ASSUME NEW c \in Own, conds = <<CleanUp, c>>
        PROVE  Kept(conds, MarshalJSON(SetCondition(conds, CleanUp, 0)))
    <2>1. SetCondition(conds, CleanUp, 0) = conds
      BY <1>3, SetCleanUp
    <2>2. MarshalJSON(conds) = conds
      BY <1>3, SortedForms
    <2> QED
      BY <2>1, <2>2 DEF Kept
  <1> QED
    BY <1>1, <1>2, <1>3, ListForms

--------------------------------------------------------------------------------
(* Types *)

Claims == [there : BOOLEAN, owners : SUBSET (Datasets \X Nat), annotated : BOOLEAN]
Processes ==
    [pc : Steps, key : Datasets \cup {None}, copy : Resources,
     cache : [Datasets -> Resources], claim : Claims, behind : SUBSET Views]

\* The variables one by one, with the step of Reconcile and the dataset in hand.
Types ==
    /\ stored \in [Datasets -> Resources]
    /\ claim \in Claims
    /\ operator \in Processes
    /\ operator.pc # "idle" => operator.key \in Datasets
    /\ checked \in [Datasets -> Nat \X Specs]

Bounds ==
    spent \in [creations : [Datasets -> Nat], edits : 0 .. MaxEdits, troubles : 0 .. MaxTroubles]

LEMMA TypesOfAll == TypeOK <=> Types /\ Bounds
  BY DEF TypeOK, Types, Bounds, Processes, Claims

LEMMA ListTypes ==
    /\ <<>> \in ConditionLists
    /\ \A spec \in Specs : Validated(spec) \in Own /\ <<Validated(spec)>> \in ConditionLists
  BY OwnTypes DEF ConditionLists, Validated

LEMMA SpecTypes ==
    /\ AnySpec \in Specs
    /\ \A s \in Specs : s.bucket \in Buckets /\ s.selectors \in SelectorLists
  BY DatasetOperatorAssumption DEF DatasetOperatorAssumption, AnySpec, Buckets, SelectorLists

LEMMA NewResources ==
    /\ Unlabelled \in Labels
    /\ Absent \in Resources
    /\ \A uid \in Nat, spec \in Specs : Created(uid, spec) \in Resources
    /\ \A spec \in Specs : Installed(spec) \in Resources
  <1>1. Unlabelled \in Labels
    BY DEF Unlabelled, Labels
  <1>2. \A uid \in Nat, spec \in Specs : Created(uid, spec) \in Resources
    BY <1>1, ListTypes DEF Created, Resources
  <1>3. Absent \in Resources
    BY <1>2, SpecTypes DEF Absent
  <1>4. \A spec \in Specs : Installed(spec) \in Resources
    BY ListTypes, SpecTypes DEF Installed, Resources, Labels
  <1> QED
    BY <1>1, <1>2, <1>3, <1>4

LEMMA LiveType == ASSUME stored \in [Datasets -> Resources] PROVE Live \subseteq Datasets \X Nat
  BY DEF Live, Resources

LEMMA NowType ==
    ASSUME Types, operator.pc # "idle"
    PROVE  Now \in Times
  <1> DEFINE conds == operator.copy.conditions
  <1>1. conds \in ConditionLists
    BY DEF Types, Processes, Resources
  <1> HIDE DEF conds
  <1>2. \A c \in Own : c.type = "Install" /\ c.time \in Times
    BY OwnTypes
  <1>3. CASE conds = <<>> \/ conds = <<CleanUp>>
    <2>1. Position(conds, "Install") = 0
      BY <1>3, OwnTypes DEF Position
    <2> QED
      BY <2>1 DEF Now, GetCondition, conds, Times
  <1>4. CASE \E c \in Own : conds = <<c>> \/ conds = <<CleanUp, c>>
    <2>1. PICK c \in Own : conds = <<c>> \/ conds = <<CleanUp, c>>
      BY <1>4
    <2>2. GetCondition(conds, "Install") = c
      <3>1. CASE conds = <<c>>
        BY <1>2, <3>1 DEF GetCondition, Position
      <3>2. CASE conds = <<CleanUp, c>>
        <4>1. Position(conds, "Install") = 2
          BY <1>2, <3>2, OwnTypes DEF Position
        <4> QED
          BY <4>1, <3>2 DEF GetCondition
      <3> QED
        BY <2>1, <3>1, <3>2
    <2> QED
      BY <1>2, <2>1, <2>2 DEF Now, conds, Times
  <1> QED
    BY <1>1, <1>3, <1>4, ListForms

\* A process after a write, at another step, or at rest.
LEMMA ProcessTypes ==
    ASSUME Types
    PROVE  /\ Started \in Processes /\ Started.pc = "idle"
           /\ Returned \in Processes /\ Returned.pc = "idle"
           /\ \A pc \in Steps : At(pc) \in Processes /\ At(pc).key = operator.key /\ At(pc).pc = pc
           /\ \A d \in Datasets :
                  Outdated(d) \in Processes /\ Outdated(d).pc = operator.pc
                  /\ Outdated(d).key = operator.key
  <1>1. Started \in Processes /\ Started.pc = "idle"
    BY NewResources DEF Started, Types, Processes, Steps
  <1>2. Returned \in Processes /\ Returned.pc = "idle"
    BY NewResources DEF Returned, Types, Processes, Steps
  <1>3. \A pc \in Steps : At(pc) \in Processes /\ At(pc).key = operator.key /\ At(pc).pc = pc
    BY DEF At, Types, Processes
  <1>4. \A d \in Datasets : Outdated(d) \in Processes /\ Outdated(d).pc = operator.pc
                            /\ Outdated(d).key = operator.key
    BY DEF Outdated, Types, Processes, Views
  <1> QED
    BY <1>1, <1>2, <1>3, <1>4

LEMMA PutTypes ==
    ASSUME Types, operator.pc # "idle", NEW resource \in Resources, NEW then \in Processes,
           then.pc = "idle" \/ then.key = operator.key,
           Put(resource, then)
    PROVE  /\ stored' \in [Datasets -> Resources]
           /\ operator' \in Processes
           /\ operator'.pc # "idle" => operator'.key \in Datasets
  BY DEF Put, Types, Processes, Views

LEMMA UserTypes ==
    ASSUME Types, NEW d \in Datasets, NEW resource \in Resources, UserWrites(d, resource)
    PROVE  Types'
  BY ProcessTypes DEF UserWrites, Types

LEMMA TypesInit == Init => TypeOK
  <1> SUFFICES ASSUME Init PROVE TypeOK
    OBVIOUS
  <1>1. stored \in [Datasets -> Resources]
    BY NewResources DEF Init
  <1>2. claim \in Claims
    BY <1>1, LiveType DEF Init, Claims
  <1>3. operator \in Processes /\ operator.pc = "idle"
    BY <1>1, <1>2, NewResources DEF Init, Started, Processes, Steps
  <1>4. checked \in [Datasets -> Nat \X Specs]
    BY <1>1 DEF Init, Resources
  <1>5. Bounds
    BY DatasetOperatorAssumption DEF DatasetOperatorAssumption, Init, Bounds
  <1> QED
    BY <1>1, <1>2, <1>3, <1>4, <1>5, TypesOfAll DEF Types

\* Nothing but the bounds is used up.
LEMMA BoundsStep ==
    ASSUME Bounds, [Next]_vars
    PROVE  Bounds'
  <1>1. Trouble => Bounds'
    BY DatasetOperatorAssumption DEF DatasetOperatorAssumption, Trouble, Bounds
  <1>2. Edit => Bounds'
    BY DatasetOperatorAssumption DEF DatasetOperatorAssumption, Edit, Bounds
  <1>3. \A d \in Datasets : CreateDataset(d) => Bounds'
    BY DEF CreateDataset, Bounds
  <1>4. UNCHANGED spent => Bounds'
    BY DEF Bounds
  <1>5. CASE OperatorStep
    BY <1>1, <1>4, <1>5
       DEF OperatorStep, DeleteDataset, FirstUpdate, SecondUpdate, Announce, ApplyClaim,
           SetStatus, Fault
  <1>6. CASE ClaimEvent \/ OperatorRestart \/ SpoilClaim \/ CollectGarbage
    BY <1>1, <1>4, <1>6 DEF ClaimEvent, OperatorRestart, SpoilClaim, CollectGarbage
  <1>7. ASSUME NEW d \in Datasets, BeginReconcile(d) \/ WatchEvent(d) \/ Touch(d)
        PROVE  Bounds'
    BY <1>1, <1>4, <1>7 DEF BeginReconcile, WatchEvent, Touch
  <1>8. ASSUME NEW d \in Datasets, UserStep(d)
        PROVE  Bounds'
    BY <1>2, <1>3, <1>8
       DEF UserStep, EditSpec, RequestUninstall, DropLabels, RemoveDataset
  <1>9. CASE UNCHANGED vars
    BY <1>4, <1>9 DEF vars
  <1> QED
    BY <1>5, <1>6, <1>7, <1>8, <1>9 DEF Next

LEMMA BeginTypes ==
    ASSUME Types, NEW d \in Datasets, BeginReconcile(d)
    PROVE  /\ Types'
           /\ stored' = stored
           /\ \E labels \in Labels, pc \in Steps \ {"idle"} :
                 /\ labels.uninstall = operator.cache[d].labels.uninstall
                 /\ operator' = [operator EXCEPT
                        !.key = d, !.copy = [operator.cache[d] EXCEPT !.labels = labels],
                        !.behind = @ \cup (IF d \in @ THEN {"copy"} ELSE {}), !.pc = pc]
  <1> DEFINE taken == operator.cache[d]
             begun == [operator EXCEPT
                !.key = d, !.copy = operator.cache[d],
                !.behind = @ \cup (IF d \in @ THEN {"copy"} ELSE {})]
             Begun(labels, pc) == [operator EXCEPT
                !.key = d, !.copy = [taken EXCEPT !.labels = labels],
                !.behind = @ \cup (IF d \in @ THEN {"copy"} ELSE {}), !.pc = pc]
  <1>1. taken \in Resources /\ operator \in Processes
    BY DEF Types, Processes
  <1>2. [taken EXCEPT !.labels = taken.labels] = taken /\ taken.labels \in Labels
    BY <1>1 DEF Resources
  <1>3. \A hash \in SelectorLists \cup {NoSelectors} :
            Relabelled(taken, hash) \in Labels
            /\ Relabelled(taken, hash).uninstall = taken.labels.uninstall
    BY <1>1, SpecTypes DEF Resources, Labels, Relabelled
  <1>4. taken.spec.selectors \in SelectorLists
    BY <1>1, SpecTypes DEF Resources
  <1>5. \E labels \in Labels, pc \in Steps \ {"idle"} :
            labels.uninstall = taken.labels.uninstall /\ operator' = Begun(labels, pc)
    <2>1. CASE operator' = [begun EXCEPT !.pc = "delete"]
      <3>1. operator' = Begun(taken.labels, "delete")
        BY <1>1, <1>2, <2>1 DEF Processes
      <3> QED
        BY <1>2, <3>1 DEF Steps
    <2>2. ASSUME NEW hash \in SelectorLists \cup {NoSelectors},
                 operator' = [begun EXCEPT
                    !.copy.labels = Relabelled(taken, hash),
                    !.pc = IF Relabelled(taken, hash) = taken.labels THEN "claim" ELSE "update1"]
          PROVE  \E labels \in Labels, pc \in Steps \ {"idle"} :
                     labels.uninstall = taken.labels.uninstall /\ operator' = Begun(labels, pc)
      <3> DEFINE pc == IF Relabelled(taken, hash) = taken.labels THEN "claim" ELSE "update1"
      <3>1. pc \in Steps \ {"idle"}
        BY DEF Steps
      <3>2. operator' = Begun(Relabelled(taken, hash), pc)
        BY <1>1, <2>2 DEF Processes
      <3> QED
        BY <1>3, <3>1, <3>2
    <2> QED
      BY <1>4, <2>1, <2>2 DEF BeginReconcile
  <1>6. \A labels \in Labels : [taken EXCEPT !.labels = labels] \in Resources
    BY <1>1 DEF Resources
  <1>7. \A labels \in Labels, pc \in Steps \ {"idle"} :
            Begun(labels, pc) \in Processes /\ Begun(labels, pc).key = d
    <2> TAKE labels \in Labels, pc \in Steps \ {"idle"}
    <2> DEFINE copy == [taken EXCEPT !.labels = labels]
    <2>1. copy \in Resources
      BY <1>6
    <2> DEFINE behind == operator.behind \cup (IF d \in operator.behind THEN {"copy"} ELSE {})
    <2>2. behind \in SUBSET Views
      BY <1>1 DEF Processes, Views
    <2>3. Begun(labels, pc) = [operator EXCEPT !.key = d, !.copy = copy, !.behind = behind,
                                               !.pc = pc]
      BY <1>1 DEF Processes
    <2> HIDE DEF copy, behind, taken, Begun
    <2> QED
      BY <1>1, <2>1, <2>2, <2>3 DEF Processes
  <1>8. UNCHANGED <<stored, claim, checked>>
    BY DEF BeginReconcile
  <1>9. Types'
    <2> HIDE DEF Begun, taken
    <2> QED
      BY <1>5, <1>7, <1>8 DEF Types
  <1> QED
    BY <1>5, <1>8, <1>9

\* What the operator writes with the condition.
Concluded(new) ==
    [stored[operator.key] EXCEPT !.conditions =
        MarshalJSON(SetCondition(operator.copy.conditions, new, Now))]

Conclusion == IF operator.pc = "failed" THEN InstallFailed ELSE Validated(operator.copy.spec)

LEMMA ConcludedTypes ==
    ASSUME Types, operator.pc # "idle"
    PROVE  /\ Concluded(Conclusion) \in Resources
           /\ Kept(operator.copy.conditions, Concluded(Conclusion).conditions)
  <1> DEFINE after == MarshalJSON(SetCondition(operator.copy.conditions, Conclusion, Now))
  <1>1. /\ stored[operator.key] \in Resources
        /\ operator.copy.spec \in Specs
        /\ operator.copy.conditions \in ConditionLists
    BY DEF Types, Processes, Resources
  <1>2. Conclusion \in Own
    BY <1>1, ListTypes, OwnTypes DEF Conclusion
  <1>3. Kept(operator.copy.conditions, after)
    BY <1>1, <1>2, NowType, StoredOwn
  <1>4. after \in ConditionLists
    BY <1>3 DEF Kept
  <1>5. Concluded(Conclusion) = [stored[operator.key] EXCEPT !.conditions = after]
    BY DEF Concluded
  <1> HIDE DEF after
  <1> QED
    BY <1>1, <1>3, <1>4, <1>5 DEF Resources

LEMMA OperatorTypes ==
    ASSUME Types, OperatorStep
    PROVE  Types'
  <1>1. /\ operator \in Processes /\ operator.copy \in Resources
        /\ operator.pc # "idle" => operator.key \in Datasets
    BY DEF Types, Processes
  <1>2. CASE DeleteDataset
    <2>1. operator.key \in Datasets
      BY <1>1, <1>2 DEF DeleteDataset
    <2>2. stored' \in [Datasets -> Resources]
      BY <1>2, NewResources DEF DeleteDataset, Types
    <2>3. operator' \in Processes /\ operator'.pc = "idle"
      <3>1. [Returned EXCEPT !.behind = @ \cup {operator.key}] \in Processes
        BY <2>1, ProcessTypes DEF Processes, Views
      <3>2. [Returned EXCEPT !.behind = @ \cup {operator.key}].pc = "idle"
        BY ProcessTypes DEF Processes
      <3> QED
        BY <1>2, <3>1, <3>2, ProcessTypes DEF DeleteDataset
    <2> QED
      BY <1>2, <2>2, <2>3 DEF DeleteDataset, Types
  <1>3. ASSUME NEW pc \in Steps, FirstUpdate \/ SecondUpdate, operator' = At(pc), UNCHANGED stored
        PROVE  Types'
    BY <1>1, <1>3, ProcessTypes DEF FirstUpdate, SecondUpdate, Types
  <1>4. CASE FirstUpdate
    <2>1. operator.pc # "idle" /\ UNCHANGED <<claim, checked>>
      BY <1>4 DEF FirstUpdate
    <2>2. At("update2") \in Processes /\ At("update2").key = operator.key
      BY ProcessTypes DEF Steps
    <2> DEFINE lost == [At("update2") EXCEPT !.behind = @ \cup {"copy"}]
    <2>3. lost \in Processes /\ lost.key = operator.key
      BY <2>2 DEF Processes, Views
    <2> HIDE DEF lost
    <2>4. CASE Put(operator.copy, At("update2")) \/ Put(operator.copy, lost)
      BY <1>1, <2>1, <2>2, <2>3, <2>4, PutTypes DEF Types
    <2>5. CASE operator' = At("update2") /\ UNCHANGED stored
      BY <1>3, <1>4, <2>5 DEF Steps
    <2> QED
      BY <1>4, <2>4, <2>5 DEF FirstUpdate, lost
  <1>5. CASE SecondUpdate
    <2>1. operator.pc # "idle" /\ UNCHANGED <<claim, checked>>
      BY <1>5 DEF SecondUpdate
    <2>2. At("announce") \in Processes /\ At("announce").key = operator.key
      BY ProcessTypes DEF Steps
    <2>3. CASE Put(operator.copy, At("announce"))
      BY <1>1, <2>1, <2>2, <2>3, PutTypes DEF Types
    <2>4. CASE operator' = At("failed") /\ UNCHANGED stored
      BY <1>3, <1>5, <2>4 DEF Steps
    <2> QED
      BY <1>5, <2>3, <2>4 DEF SecondUpdate
  <1>6. CASE Announce
    <2>1. operator' \in Processes /\ operator'.key \in Datasets
      BY <1>1, <1>6, ProcessTypes DEF Announce, Steps
    <2>2. checked' \in [Datasets -> Nat \X Specs]
      BY <1>6 DEF Announce, Types, Resources
    <2> QED
      BY <1>6, <2>1, <2>2 DEF Announce, Types
  <1>7. CASE ApplyClaim
    <2>1. operator.pc # "idle" /\ operator.key \in Datasets /\ UNCHANGED <<stored, checked>>
      BY <1>1, <1>7 DEF ApplyClaim
    <2>2. Applied(operator.claim) \in Claims
      <3> DEFINE owner == <<operator.key, operator.copy.uid>>
      <3>1. operator.claim \in Claims /\ owner \in Datasets \X Nat
        BY <1>1, <2>1 DEF Processes, Resources
      <3> DEFINE owners == operator.claim.owners
                 new == IF OwnerSet(owners, operator.key) THEN owners ELSE owners \cup {owner}
      <3>2. Applied(operator.claim) = [operator.claim EXCEPT !.annotated = TRUE, !.owners = new]
        BY <3>1 DEF Applied, Claims
      <3>3. new \in SUBSET (Datasets \X Nat)
        <4> HIDE DEF owner
        <4> QED
          BY <3>1 DEF Claims
      <3> HIDE DEF owner, new
      <3> QED
        BY <3>1, <3>2, <3>3 DEF Claims
    <2>3. [there |-> TRUE, annotated |-> TRUE, owners |-> {<<operator.key, operator.copy.uid>>}]
              \in Claims
      BY <1>1, <2>1 DEF Claims, Resources
    <2>4. claim' \in Claims
      BY <1>7, <2>2, <2>3 DEF ApplyClaim, Types
    <2>5. /\ At("complete") \in Processes /\ At("complete").key = operator.key
          /\ At("failed") \in Processes /\ At("failed").key = operator.key
      BY ProcessTypes DEF Steps
    <2>6. /\ [At("complete") EXCEPT !.behind = @ \cup {"claim"}] \in Processes
          /\ [At("complete") EXCEPT !.behind = @ \cup {"claim"}].key = operator.key
      BY <2>5 DEF Processes, Views
    <2>7. operator' \in Processes /\ operator'.key = operator.key
      BY <1>7, <2>5, <2>6 DEF ApplyClaim
    <2> QED
      BY <2>1, <2>4, <2>7 DEF Types
  <1>8. CASE SetStatus
    <2>1. operator.pc # "idle" /\ UNCHANGED <<claim, checked>>
      BY <1>8 DEF SetStatus
    <2>2. CASE Put(Concluded(Conclusion), Returned)
      BY <2>1, <2>2, ConcludedTypes, ProcessTypes, PutTypes DEF Types
    <2>3. CASE operator' = Returned /\ UNCHANGED stored
      BY <2>1, <2>3, ProcessTypes DEF Types
    <2> QED
      BY <1>8, <2>2, <2>3 DEF SetStatus, Concluded, Conclusion
  <1> QED
    BY <1>2, <1>4, <1>5, <1>6, <1>7, <1>8 DEF OperatorStep

LEMMA OthersTypes ==
    ASSUME Types, Bounds, NEW d \in Datasets, WatchEvent(d) \/ UserStep(d) \/ Touch(d)
    PROVE  Types'
  <1>1. stored[d] \in Resources
    BY DEF Types
  <1>2. CASE WatchEvent(d)
    <2>1. operator' \in Processes /\ operator'.pc = operator.pc /\ operator'.key = operator.key
      BY <1>1, <1>2 DEF WatchEvent, Types, Processes
    <2> QED
      BY <1>2, <2>1 DEF WatchEvent, Types
  <1>3. CASE Touch(d)
    <2> DEFINE after == MarshalJSON(SetCondition(stored[d].conditions, CleanUp, 0))
    <2>1. after \in ConditionLists
      BY <1>1, StoredCleanUp DEF Resources, Kept
    <2>2. UserWrites(d, [stored[d] EXCEPT !.conditions = after])
      BY <1>3 DEF Touch
    <2> HIDE DEF after
    <2>3. [stored[d] EXCEPT !.conditions = after] \in Resources
      BY <1>1, <2>1 DEF Resources
    <2> QED
      BY <2>2, <2>3, UserTypes
  <1>4. CASE UserStep(d)
    <2>1. CASE CreateDataset(d)
      <3>1. spent.creations[d] + 1 \in Nat
        BY DEF Bounds
      <3> QED
        BY <2>1, <3>1, NewResources, UserTypes DEF CreateDataset
    <2>2. CASE EditSpec(d)
      BY <1>1, <2>2, UserTypes DEF EditSpec, Resources
    <2>3. CASE RequestUninstall(d)
      BY <1>1, <2>3, UserTypes DEF RequestUninstall, Resources, Labels
    <2>4. CASE DropLabels(d)
      BY <1>1, <2>4, NewResources, UserTypes DEF DropLabels, Resources
    <2>5. CASE RemoveDataset(d)
      BY <2>5, NewResources, UserTypes DEF RemoveDataset
    <2> QED
      BY <1>4, <2>1, <2>2, <2>3, <2>4, <2>5 DEF UserStep
  <1> QED
    BY <1>2, <1>3, <1>4

LEMMA ClaimTypes ==
    ASSUME Types, ClaimEvent \/ OperatorRestart \/ SpoilClaim \/ CollectGarbage
    PROVE  Types'
  <1>1. operator \in Processes /\ claim \in Claims
    BY DEF Types
  <1>2. ASSUME NEW new \in Claims, ClaimBecomes(new)
        PROVE  Types'
    <2>1. operator' \in Processes /\ operator'.pc = operator.pc /\ operator'.key = operator.key
      BY <1>1, <1>2 DEF ClaimBecomes, Processes, Views
    <2> QED
      BY <1>2, <2>1 DEF ClaimBecomes, Types
  <1>3. CASE ClaimEvent
    <2>1. operator' \in Processes /\ operator'.pc = operator.pc /\ operator'.key = operator.key
      BY <1>1, <1>3 DEF ClaimEvent, Processes
    <2> QED
      BY <1>3, <2>1 DEF ClaimEvent, Types
  <1>4. CASE OperatorRestart
    BY <1>4, ProcessTypes DEF OperatorRestart, Types
  <1>5. CASE SpoilClaim
    <2>1. NoClaim \in Claims /\ [claim EXCEPT !.annotated = FALSE] \in Claims
      BY <1>1 DEF NoClaim, Claims
    <2> QED
      BY <1>2, <1>5, <2>1 DEF SpoilClaim
  <1>6. CASE CollectGarbage
    <2>1. NoClaim \in Claims /\ [claim EXCEPT !.owners = @ \cap Live] \in Claims
      BY <1>1 DEF NoClaim, Claims
    <2> QED
      BY <1>2, <1>6, <2>1 DEF CollectGarbage
  <1> QED
    BY <1>3, <1>4, <1>5, <1>6

LEMMA TypesStep == TypeOK /\ [Next]_vars => TypeOK'
  <1> SUFFICES ASSUME Types, Bounds, [Next]_vars
               PROVE  Types'
    BY TypesOfAll, BoundsStep DEF TypeOK, Types, Bounds, Processes, Claims
  <1>1. CASE UNCHANGED vars
    BY <1>1 DEF vars, Types
  <1> QED
    BY <1>1, OperatorTypes, ClaimTypes, BeginTypes, OthersTypes DEF Next

\* Every variable has its type in every reachable state: in particular the status
\* never holds two conditions of one type, nor conditions out of order, whatever is
\* written between the read and the write of a reconcile.
THEOREM DatasetTypes == Spec => []TypeOK
  BY TypesInit, TypesStep, PTL DEF Spec


--------------------------------------------------------------------------------
(* Copies *)

\* What reconcile does not change in its copy.
Agrees(copy, resource) ==
    /\ copy.uid = resource.uid /\ copy.spec = resource.spec
    /\ copy.labels.uninstall = resource.labels.uninstall
    /\ copy.conditions = resource.conditions

\* A view that is not behind is what is stored.
Cached == \A d \in Datasets : d \notin operator.behind => operator.cache[d] = stored[d]
InHand ==
    operator.pc # "idle" /\ "copy" \notin operator.behind =>
        Agrees(operator.copy, stored[operator.key])

CopyInv == TypeOK /\ Cached /\ InHand

\* A write that the user has not made.
Spared(d) ==
    stored'[d].uid = stored[d].uid /\ spent'.edits = spent.edits =>
        /\ stored'[d].spec = stored[d].spec
        /\ stored'[d].labels.uninstall = stored[d].labels.uninstall
        /\ GetCondition(stored[d].conditions, "CleanUpStatus") # Nil =>
               GetCondition(stored'[d].conditions, "CleanUpStatus") # Nil

LEMMA CopyInit == Init => CopyInv
  <1> SUFFICES ASSUME Init PROVE CopyInv
    OBVIOUS
  <1>1. operator.cache = stored /\ operator.pc = "idle"
    BY DEF Init, Started
  <1> QED
    BY <1>1, TypesInit DEF CopyInv, Cached, InHand

LEMMA UserCopies ==
    ASSUME CopyInv, NEW d \in Datasets, NEW resource, UserWrites(d, resource)
    PROVE  Cached' /\ InHand'
  <1>1. operator \in Processes /\ stored \in [Datasets -> Resources]
    BY TypesOfAll DEF CopyInv, Types
  <1>2. /\ operator'.cache = operator.cache /\ operator'.copy = operator.copy
        /\ operator'.pc = operator.pc /\ operator'.key = operator.key
        /\ operator.behind \cup {d} \subseteq operator'.behind
        /\ d = operator.key => "copy" \in operator'.behind
    BY <1>1 DEF UserWrites, Outdated, Processes
  <1>3. \A e \in Datasets \ {d} : stored'[e] = stored[e]
    BY <1>1 DEF UserWrites
  <1>4. operator.pc # "idle" => operator.key \in Datasets
    BY TypesOfAll DEF CopyInv, Types
  <1> QED
    BY <1>2, <1>3, <1>4 DEF CopyInv, Cached, InHand

\* The operator's own writes leave the cache behind; the copy that was written is
\* what is stored.
LEMMA PutCopies ==
    ASSUME CopyInv, operator.pc # "idle", NEW resource \in Resources, NEW then \in Processes,
           then.cache = operator.cache,
           operator.behind \ {"copy"} \subseteq then.behind,
           then.pc = "idle" \/ (then.key = operator.key /\ then.copy = resource),
           Put(resource, then)
    PROVE  Cached' /\ InHand'
  <1>1. operator.key \in Datasets /\ stored \in [Datasets -> Resources]
    BY TypesOfAll DEF CopyInv, Types
  <1>2. /\ operator'.cache = operator.cache /\ operator'.pc = then.pc
        /\ operator'.copy = then.copy /\ operator'.key = then.key
        /\ operator.behind \ {"copy"} \subseteq operator'.behind
        /\ resource # stored[operator.key] => operator.key \in operator'.behind
    BY DEF Put, Processes
  <1>3. stored' = [stored EXCEPT ![operator.key] = resource]
    BY DEF Put
  <1>4. "copy" \notin Datasets
    BY DatasetOperatorAssumption DEF DatasetOperatorAssumption
  <1>5. Cached'
    BY <1>1, <1>2, <1>3, <1>4 DEF CopyInv, Cached
  <1>6. InHand'
    BY <1>1, <1>2, <1>3 DEF InHand, Agrees
  <1> QED
    BY <1>5, <1>6

LEMMA PutSpares ==
    ASSUME CopyInv, operator.pc # "idle", NEW resource \in Resources, NEW then \in Processes,
           Put(resource, then),
           LET old == stored[operator.key]
           IN /\ resource.spec = old.spec /\ resource.labels.uninstall = old.labels.uninstall
              /\ GetCondition(old.conditions, "CleanUpStatus") # Nil =>
                     GetCondition(resource.conditions, "CleanUpStatus") # Nil
    PROVE  \A d \in Datasets : Spared(d)
  <1>1. operator.key \in Datasets /\ stored \in [Datasets -> Resources]
    BY TypesOfAll DEF CopyInv, Types
  <1>2. stored' = [stored EXCEPT ![operator.key] = resource]
    BY DEF Put
  <1> QED
    BY <1>1, <1>2 DEF Spared

\* A step that stores nothing and leaves the views as they are, or ends.
LEMMA SameCopies ==
    ASSUME CopyInv, stored' = stored, operator'.cache = operator.cache,
           operator.behind \ {"copy"} \subseteq operator'.behind,
           \/ operator'.pc = "idle"
           \/ /\ operator.pc # "idle" /\ operator'.key = operator.key
              /\ operator'.copy = operator.copy /\ operator.behind \subseteq operator'.behind
           \/ operator' = operator
    PROVE  Cached' /\ InHand' /\ \A d \in Datasets : Spared(d)
  <1>1. "copy" \notin Datasets
    BY DatasetOperatorAssumption DEF DatasetOperatorAssumption
  <1> QED
    BY <1>1 DEF CopyInv, Cached, InHand, Agrees, Spared


\* Every step of the operator keeps its views in order, and spares what the user
\* has written.
LEMMA OperatorCopies ==
    ASSUME CopyInv, OperatorStep
    PROVE  Cached' /\ InHand' /\ \A d \in Datasets : Spared(d)
  <1>1. Types
    BY TypesOfAll DEF CopyInv
  <1>2. /\ operator \in Processes /\ operator.copy \in Resources
        /\ operator.pc # "idle" => operator.key \in Datasets
        /\ stored \in [Datasets -> Resources]
    BY <1>1 DEF Types, Processes
  <1>3. \A pc \in Steps : /\ At(pc) \in Processes /\ At(pc).pc = pc /\ At(pc).key = operator.key
                          /\ At(pc).copy = operator.copy /\ At(pc).cache = operator.cache
                          /\ At(pc).behind = operator.behind
    BY <1>2 DEF At, Processes
  <1>4. /\ Returned \in Processes /\ Returned.pc = "idle" /\ Returned.cache = operator.cache
        /\ Returned.behind = operator.behind \ {"copy"}
    BY <1>1, <1>2, ProcessTypes DEF Returned, Processes
  <1>5. operator.pc # "idle" /\ Accepted => Agrees(operator.copy, stored[operator.key])
    BY DEF CopyInv, InHand, Accepted
  <1>6. CASE DeleteDataset
    <2>1. CASE stored' = stored /\ operator' = Returned
      BY <1>4, <2>1, SameCopies
    <2>2. CASE /\ stored[operator.key].uid # 0
               /\ stored' = [stored EXCEPT ![operator.key] = Absent]
               /\ operator' = [Returned EXCEPT !.behind = @ \cup {operator.key}]
      <3>1. /\ operator'.cache = operator.cache /\ operator'.pc = "idle"
            /\ operator'.behind = (operator.behind \ {"copy"}) \cup {operator.key}
        BY <1>4, <2>2 DEF Processes
      <3>2. "copy" \notin Datasets
        BY DatasetOperatorAssumption DEF DatasetOperatorAssumption
      <3>3. Cached' /\ InHand'
        BY <1>2, <2>2, <3>1, <3>2 DEF CopyInv, Cached, InHand
      <3>4. \A d \in Datasets : Spared(d)
        BY <1>2, <2>2 DEF Spared, Absent, Created
      <3> QED
        BY <3>3, <3>4
    <2> QED
      BY <1>6, <2>1, <2>2 DEF DeleteDataset
  <1>7. ASSUME NEW pc \in Steps, operator.pc # "idle", stored' = stored, operator' = At(pc)
        PROVE  Cached' /\ InHand' /\ \A d \in Datasets : Spared(d)
    BY <1>3, <1>7, SameCopies
  <1>8. ASSUME NEW then \in Processes, operator.pc # "idle", Accepted, Put(operator.copy, then),
               then.cache = operator.cache, then.key = operator.key, then.copy = operator.copy,
               operator.behind \subseteq then.behind
        PROVE  Cached' /\ InHand' /\ \A d \in Datasets : Spared(d)
    <2>1. Cached' /\ InHand'
      BY <1>2, <1>8, PutCopies
    <2>2. \A d \in Datasets : Spared(d)
      BY <1>2, <1>5, <1>8, PutSpares DEF Agrees
    <2> QED
      BY <2>1, <2>2
  <1>9. CASE FirstUpdate
    <2> DEFINE lost == [At("update2") EXCEPT !.behind = @ \cup {"copy"}]
    <2>1. At("update2") \in Processes
      BY <1>3 DEF Steps
    <2>2. /\ lost \in Processes /\ lost.key = operator.key /\ lost.copy = operator.copy
          /\ lost.cache = operator.cache /\ operator.behind \subseteq lost.behind
      BY <1>3, <2>1 DEF Processes, Steps, Views
    <2> HIDE DEF lost
    <2>3. CASE Accepted /\ Put(operator.copy, At("update2"))
      BY <1>3, <1>8, <1>9, <2>1, <2>3 DEF FirstUpdate, Steps
    <2>4. CASE Accepted /\ Put(operator.copy, lost)
      BY <1>8, <1>9, <2>2, <2>4 DEF FirstUpdate
    <2>5. CASE operator' = At("update2") /\ UNCHANGED stored
      BY <1>7, <1>9, <2>5 DEF FirstUpdate, Steps
    <2> QED
      BY <1>9, <2>3, <2>4, <2>5 DEF FirstUpdate, lost
  <1>10. CASE SecondUpdate
    <2>1. CASE Accepted /\ Put(operator.copy, At("announce"))
      BY <1>3, <1>8, <1>10, <2>1 DEF SecondUpdate, Steps
    <2>2. CASE operator' = At("failed") /\ UNCHANGED stored
      BY <1>7, <1>10, <2>2 DEF SecondUpdate, Steps
    <2> QED
      BY <1>10, <2>1, <2>2 DEF SecondUpdate
  <1>11. CASE Announce
    BY <1>7, <1>11 DEF Announce, Steps
  <1>12. CASE ApplyClaim
    <2>1. CASE operator' = At("complete") \/ operator' = At("failed")
      BY <1>7, <1>12, <2>1 DEF ApplyClaim, Steps
    <2>2. CASE operator' = [At("complete") EXCEPT !.behind = @ \cup {"claim"}]
      <3>1. At("complete") \in Processes /\ At("complete").key = operator.key
            /\ At("complete").copy = operator.copy /\ At("complete").cache = operator.cache
            /\ At("complete").behind = operator.behind
        BY <1>3 DEF Steps
      <3>2. /\ operator'.key = operator.key /\ operator'.copy = operator.copy
            /\ operator'.cache = operator.cache /\ operator.behind \subseteq operator'.behind
        BY <2>2, <3>1 DEF Processes
      <3> QED
        BY <1>12, <3>2, SameCopies DEF ApplyClaim
    <2> QED
      BY <1>12, <2>1, <2>2 DEF ApplyClaim
  <1>13. CASE SetStatus
    <2>1. CASE Accepted /\ Put(Concluded(Conclusion), Returned)
      <3>1. operator.pc # "idle"
        BY <1>13 DEF SetStatus
      <3>2. Concluded(Conclusion) \in Resources
            /\ Kept(operator.copy.conditions, Concluded(Conclusion).conditions)
        BY <1>1, <3>1, ConcludedTypes
      <3>3. Concluded(Conclusion).spec = stored[operator.key].spec
            /\ Concluded(Conclusion).labels = stored[operator.key].labels
        BY <1>2, <3>1 DEF Concluded, Resources
      <3>4. operator.copy.conditions = stored[operator.key].conditions
        BY <1>5, <2>1, <3>1 DEF Agrees
      <3>5. Cached' /\ InHand'
        BY <1>4, <2>1, <3>1, <3>2, PutCopies
      <3>6. \A d \in Datasets : Spared(d)
        BY <1>4, <2>1, <3>1, <3>2, <3>3, <3>4, PutSpares DEF Kept
      <3> QED
        BY <3>5, <3>6
    <2>2. CASE operator' = Returned /\ UNCHANGED stored
      BY <1>4, <2>2, SameCopies
    <2> QED
      BY <1>13, <2>1, <2>2 DEF SetStatus, Concluded, Conclusion
  <1> QED
    BY <1>6, <1>9, <1>10, <1>11, <1>12, <1>13 DEF OperatorStep


LEMMA ClaimCopies ==
    ASSUME CopyInv, ClaimEvent \/ OperatorRestart \/ SpoilClaim \/ CollectGarbage
    PROVE  Cached' /\ InHand' /\ \A d \in Datasets : Spared(d)
  <1>1. operator \in Processes
    BY TypesOfAll DEF CopyInv, Types
  <1>2. Datasets \cap {"copy", "claim"} = {}
    BY DatasetOperatorAssumption DEF DatasetOperatorAssumption
  <1>3. stored' = stored
    BY DEF ClaimEvent, OperatorRestart, SpoilClaim, CollectGarbage, ClaimBecomes
  <1>4. CASE OperatorRestart
    <2>1. operator'.cache = stored /\ operator'.pc = "idle"
      BY <1>4 DEF OperatorRestart, Started
    <2> QED
      BY <1>3, <2>1 DEF Cached, InHand, Spared
  <1>5. CASE ClaimEvent \/ SpoilClaim \/ CollectGarbage
    <2>1. /\ operator'.cache = operator.cache /\ operator'.copy = operator.copy
          /\ operator'.pc = operator.pc /\ operator'.key = operator.key
          /\ operator.behind \ {"claim"} \subseteq operator'.behind
      BY <1>1, <1>5 DEF ClaimEvent, SpoilClaim, CollectGarbage, ClaimBecomes, Processes
    <2>2. Cached'
      BY <1>2, <1>3, <2>1 DEF CopyInv, Cached
    <2>3. InHand'
      BY <1>3, <2>1 DEF CopyInv, InHand
    <2> QED
      BY <1>3, <2>2, <2>3 DEF Spared
  <1> QED
    BY <1>4, <1>5

LEMMA BeginCopies ==
    ASSUME CopyInv, NEW d \in Datasets, BeginReconcile(d)
    PROVE  Cached' /\ InHand' /\ \A e \in Datasets : Spared(e)
  <1>1. operator \in Processes /\ operator.cache[d] \in Resources
    BY TypesOfAll DEF CopyInv, Types, Processes
  <1>2. PICK labels \in Labels, pc \in Steps \ {"idle"} :
            /\ labels.uninstall = operator.cache[d].labels.uninstall
            /\ operator' = [operator EXCEPT
                   !.key = d, !.copy = [operator.cache[d] EXCEPT !.labels = labels],
                   !.behind = @ \cup (IF d \in @ THEN {"copy"} ELSE {}), !.pc = pc]
    BY TypesOfAll, BeginTypes DEF CopyInv
  <1>3. stored' = stored
    BY DEF BeginReconcile
  <1>4. /\ operator'.cache = operator.cache /\ operator'.key = d
        /\ operator.behind \subseteq operator'.behind
        /\ d \in operator.behind => "copy" \in operator'.behind
    BY <1>1, <1>2 DEF Processes
  <1>5. /\ operator'.copy.uid = operator.cache[d].uid
        /\ operator'.copy.spec = operator.cache[d].spec
        /\ operator'.copy.conditions = operator.cache[d].conditions
        /\ operator'.copy.labels.uninstall = operator.cache[d].labels.uninstall
    BY <1>1, <1>2 DEF Processes, Resources
  <1>6. Cached'
    BY <1>3, <1>4 DEF CopyInv, Cached
  <1>7. InHand'
    BY <1>3, <1>4, <1>5 DEF CopyInv, Cached, InHand, Agrees
  <1> QED
    BY <1>3, <1>6, <1>7 DEF Spared

LEMMA OthersCopies ==
    ASSUME CopyInv, NEW d \in Datasets, WatchEvent(d) \/ UserStep(d) \/ Touch(d)
    PROVE  Cached' /\ InHand' /\ \A e \in Datasets : Spared(e)
  <1>1. operator \in Processes /\ stored \in [Datasets -> Resources] /\ Bounds
    BY TypesOfAll DEF CopyInv, Types
  <1>2. CASE WatchEvent(d)
    <2>1. "copy" # d
      BY DatasetOperatorAssumption DEF DatasetOperatorAssumption
    <2>2. /\ operator'.cache = [operator.cache EXCEPT ![d] = stored[d]]
          /\ operator'.copy = operator.copy /\ operator'.pc = operator.pc
          /\ operator'.key = operator.key /\ operator'.behind = operator.behind \ {d}
      BY <1>1, <1>2 DEF WatchEvent, Processes
    <2>3. stored' = stored /\ operator.cache \in [Datasets -> Resources]
      BY <1>1, <1>2 DEF WatchEvent, Processes
    <2>4. Cached' /\ InHand'
      BY <2>1, <2>2, <2>3 DEF CopyInv, Cached, InHand
    <2> QED
      BY <2>3, <2>4 DEF Spared
  <1>3. CASE Touch(d)
    <2> DEFINE after == MarshalJSON(SetCondition(stored[d].conditions, CleanUp, 0))
    <2>1. Kept(stored[d].conditions, after)
      BY <1>1, StoredCleanUp DEF Resources
    <2>2. UserWrites(d, [stored[d] EXCEPT !.conditions = after])
      BY <1>3 DEF Touch
    <2> HIDE DEF after
    <2>3. \A e \in Datasets : Spared(e)
      <3>1. stored' = [stored EXCEPT ![d] = [stored[d] EXCEPT !.conditions = after]]
        BY <2>2 DEF UserWrites
      <3>2. /\ stored'[d].spec = stored[d].spec /\ stored'[d].labels = stored[d].labels
            /\ stored'[d].conditions = after
        BY <1>1, <3>1 DEF Resources
      <3> QED
        BY <1>1, <2>1, <3>1, <3>2 DEF Spared, Kept
    <2> QED
      BY <2>2, <2>3, UserCopies
  <1>4. CASE UserStep(d)
    <2>1. \E resource : UserWrites(d, resource)
      BY <1>4 DEF UserStep, CreateDataset, EditSpec, RequestUninstall, DropLabels, RemoveDataset
    <2>2. Cached' /\ InHand'
      BY <2>1, UserCopies
    <2>3. CASE CreateDataset(d)
      <3>1. PICK s \in Specs : UserWrites(d, Created(spent.creations[d] + 1, s))
        BY <2>3 DEF CreateDataset
      <3>2. spent.creations[d] \in Nat /\ stored[d].uid = 0
        BY <1>1, <2>3 DEF CreateDataset, Bounds
      <3>3. stored'[d].uid # stored[d].uid /\ \A e \in Datasets \ {d} : stored'[e] = stored[e]
        BY <1>1, <3>1, <3>2 DEF UserWrites, Created
      <3> QED
        BY <2>2, <3>3 DEF Spared
    <2>4. CASE Edit
      <3>1. spent'.edits # spent.edits
        BY <1>1, <2>4 DEF Edit, Bounds
      <3> QED
        BY <2>2, <3>1 DEF Spared
    <2> QED
      BY <1>4, <2>3, <2>4 DEF UserStep, EditSpec, RequestUninstall, DropLabels, RemoveDataset
  <1> QED
    BY <1>2, <1>3, <1>4

LEMMA CopyStep ==
    ASSUME CopyInv, [Next]_vars
    PROVE  CopyInv' /\ \A d \in Datasets : Spared(d)
  <1>1. TypeOK'
    BY TypesStep DEF CopyInv
  <1>2. ASSUME UNCHANGED vars PROVE Cached' /\ InHand' /\ \A d \in Datasets : Spared(d)
    <2>1. UNCHANGED <<stored, operator>>
      BY <1>2 DEF vars
    <2>2. Cached' /\ InHand'
      BY <2>1 DEF CopyInv, Cached, InHand
    <2> QED
      BY <2>1, <2>2 DEF Spared
  <1>3. ASSUME Next PROVE Cached' /\ InHand' /\ \A d \in Datasets : Spared(d)
    <2>1. CASE OperatorStep
      BY <2>1, OperatorCopies
    <2>2. CASE ClaimEvent \/ OperatorRestart \/ SpoilClaim \/ CollectGarbage
      BY <2>2, ClaimCopies
    <2>3. ASSUME NEW d \in Datasets, BeginReconcile(d)
          PROVE  Cached' /\ InHand' /\ \A e \in Datasets : Spared(e)
      BY <2>3, BeginCopies
    <2>4. ASSUME NEW d \in Datasets, WatchEvent(d) \/ UserStep(d) \/ Touch(d)
          PROVE  Cached' /\ InHand' /\ \A e \in Datasets : Spared(e)
      BY <2>4, OthersCopies
    <2> QED
      BY <1>3, <2>1, <2>2, <2>3, <2>4 DEF Next
  <1> QED
    BY <1>1, <1>2, <1>3 DEF CopyInv

\* The operator never takes back what a user has written, although it replaces the
\* whole resource with what it made of an older copy: an update is only accepted
\* while the copy agrees with what is stored.
THEOREM UsersPrevail == Spec => EditsSurvive
  <1>1. CopyInv /\ [Next]_vars =>
            [\A d \in Datasets :
                stored'[d].uid = stored[d].uid /\ spent'.edits = spent.edits =>
                    /\ stored'[d].spec = stored[d].spec
                    /\ stored'[d].labels.uninstall = stored[d].labels.uninstall
                    /\ GetCondition(stored[d].conditions, "CleanUpStatus") # Nil =>
                           GetCondition(stored'[d].conditions, "CleanUpStatus") # Nil]_vars
    BY CopyStep DEF Spared
  <1> QED
    BY <1>1, CopyInit, CopyStep, PTL DEF Spec, EditsSurvive

--------------------------------------------------------------------------------
(* Lists of conditions as maps *)

\* The lists that have one condition of each type at most.
Lists ==
    {conds \in Seq(Conditions) :
        \A i, j \in DOMAIN conds : conds[i].type = conds[j].type => i = j}

OfType(conds, t) == {c \in ToSet(conds) : c.type = t}
Timed(new, time) == [new EXCEPT !.time = time]

LEMMA TimedCondition ==
    ASSUME NEW new \in Conditions, NEW time \in Nat
    PROVE  /\ Timed(new, time) \in Conditions
           /\ Timed(new, time).type = new.type /\ Timed(new, time).status = new.status
           /\ Timed(new, time).reason = new.reason /\ Timed(new, time).time = time
  BY DEF Timed, Conditions

LEMMA ListElements ==
    ASSUME NEW conds \in Lists
    PROVE  /\ conds \in Seq(Conditions) /\ DOMAIN conds = 1 .. Len(conds) /\ Len(conds) \in Nat
           /\ ToSet(conds) \subseteq Conditions
           /\ \A i \in DOMAIN conds : conds[i] \in Conditions /\ conds[i] \in ToSet(conds)
           /\ \A c \in ToSet(conds) : \E i \in DOMAIN conds : c = conds[i]
           /\ \A i, j \in DOMAIN conds : conds[i].type = conds[j].type => i = j
  BY DEF Lists, ToSet

\* GetCondition finds the one condition of the type, if there is one.
LEMMA GetFinds ==
    ASSUME NEW conds \in Lists, NEW t
    PROVE  /\ Position(conds, t) = 0 => OfType(conds, t) = {} /\ GetCondition(conds, t) = Nil
           /\ Position(conds, t) # 0 =>
                  /\ Position(conds, t) \in DOMAIN conds
                  /\ conds[Position(conds, t)].type = t
                  /\ GetCondition(conds, t) = conds[Position(conds, t)]
                  /\ OfType(conds, t) = {GetCondition(conds, t)}
  <1>1. DOMAIN conds \subseteq Nat \ {0}
    BY ListElements
  <1>2. CASE \E i \in DOMAIN conds : conds[i].type = t
    <2>1. PICK i \in DOMAIN conds : conds[i].type = t
      BY <1>2
    <2>2. \A j \in DOMAIN conds : conds[j].type = t => j = i
      BY <2>1, ListElements
    <2>3. Position(conds, t) = i
      BY <1>1, <2>1, <2>2 DEF Position
    <2>4. i # 0 /\ GetCondition(conds, t) = conds[i]
      BY <1>1, <2>1, <2>3 DEF GetCondition
    <2>5. OfType(conds, t) = {conds[i]}
      BY <2>1, <2>2, ListElements DEF OfType
    <2> QED
      BY <2>1, <2>3, <2>4, <2>5
  <1>3. CASE ~\E i \in DOMAIN conds : conds[i].type = t
    <2>1. Position(conds, t) = 0
      BY <1>3 DEF Position
    <2>2. OfType(conds, t) = {}
      BY <1>3, ListElements DEF OfType
    <2> QED
      BY <2>1, <2>2 DEF GetCondition
  <1> QED
    BY <1>2, <1>3

\* What it finds does not depend on the order of the list.
LEMMA GetByContents ==
    ASSUME NEW conds \in Lists, NEW t
    PROVE  /\ GetCondition(conds, t) = Nil <=> OfType(conds, t) = {}
           /\ \A c \in OfType(conds, t) : GetCondition(conds, t) = c
           /\ \A other \in Lists :
                  OfType(other, t) = OfType(conds, t) =>
                      GetCondition(other, t) = GetCondition(conds, t)
  <1>1. \A l \in Lists : \/ OfType(l, t) = {} /\ GetCondition(l, t) = Nil
                         \/ OfType(l, t) = {GetCondition(l, t)}
    BY GetFinds
  <1>2. OfType(conds, t) \subseteq Conditions /\ Nil \notin Conditions
    BY ListElements, ConditionAssumption DEF OfType, ConditionAssumption
  <1> QED
    BY <1>1, <1>2

\* SetCondition puts the new condition in the place of the old one, and the time of
\* the old one into it when the status is the same.
LEMMA SetReplaces ==
    ASSUME NEW conds \in Lists, NEW new \in Conditions, NEW now \in Nat
    PROVE  LET after == SetCondition(conds, new, now)
               same == {c \in OfType(conds, new.type) : c.status = new.status}
           IN /\ after \in Lists
              /\ \E time \in Nat :
                    /\ ToSet(after) =
                          (ToSet(conds) \ OfType(conds, new.type)) \cup {Timed(new, time)}
                    /\ \/ same = {} /\ time = now
                       \/ \E c \in same : time = c.time
  <1> DEFINE after == SetCondition(conds, new, now)
             same == {c \in OfType(conds, new.type) : c.status = new.status}
             p == Position(conds, new.type)
             old == conds[p]
             time == IF p = 0 \/ old.status # new.status THEN now ELSE old.time
             d == Timed(new, time)
  <1>1. p = 0 => OfType(conds, new.type) = {}
    BY GetFinds
  <1>2. p # 0 => p \in DOMAIN conds /\ old.type = new.type /\ OfType(conds, new.type) = {old}
    BY GetFinds
  <1>3. time \in Nat /\ (\/ same = {} /\ time = now
                         \/ \E c \in same : time = c.time)
    <2>1. CASE p = 0
      BY <1>1, <2>1
    <2>2. CASE p # 0
      <3>1. old.time \in Nat
        BY <1>2, <2>2, ListElements DEF Conditions
      <3> QED
        BY <1>2, <2>2, <3>1
    <2> QED
      BY <2>1, <2>2
  <1>4. d \in Conditions /\ d.type = new.type
    BY <1>3, TimedCondition
  <1>5. CASE p = 0
    <2>1. after = Append(conds, d)
      BY <1>5 DEF SetCondition, Timed
    <2> HIDE DEF after, d, time, same
    <2>2. /\ after \in Seq(Conditions) /\ Len(after) = Len(conds) + 1
          /\ after[Len(conds) + 1] = d
          /\ \A i \in 1 .. Len(conds) : after[i] = conds[i]
      BY <1>4, <2>1, ListElements, AppendProperties
    <2>3. DOMAIN after = 1 .. Len(conds) + 1 /\ DOMAIN conds = 1 .. Len(conds)
      BY <2>2, ListElements
    <2>4. \A i \in DOMAIN conds : conds[i].type # d.type
      BY <1>1, <1>4, <1>5, ListElements DEF OfType
    <2>5. after \in Lists
      BY <2>2, <2>3, <2>4, ListElements DEF Lists
    <2>6. ToSet(after) = ToSet(conds) \cup {d}
      <3>1. Len(conds) \in Nat
        BY ListElements
      <3>2. DOMAIN after = DOMAIN conds \cup {Len(conds) + 1}
        BY <2>3, <3>1
      <3> QED
        BY <2>2, <2>3, <3>2 DEF ToSet
    <2>7. ToSet(after) = (ToSet(conds) \ OfType(conds, new.type)) \cup {d}
      BY <1>1, <1>5, <2>6
    <2> QED
      BY <1>3, <2>5, <2>7 DEF d, after, same
  <1>6. CASE p # 0
    <2>1. after = [conds EXCEPT ![p] = d]
      <3> HIDE DEF p
      <3> QED
        BY <1>6 DEF SetCondition, Timed, p
    <2> HIDE DEF after, d, time, same
    <2>2. /\ after \in Seq(Conditions) /\ DOMAIN after = DOMAIN conds
          /\ after[p] = d /\ \A i \in DOMAIN conds \ {p} : after[i] = conds[i]
      BY <1>2, <1>4, <1>6, <2>1, ListElements
    <2>3. \A i \in DOMAIN conds : after[i].type = conds[i].type
      BY <1>2, <1>4, <1>6, <2>2
    <2>4. after \in Lists
      BY <2>2, <2>3, ListElements DEF Lists
    <2>5. ToSet(after) = (ToSet(conds) \ {old}) \cup {d}
      <3>1. \A i \in DOMAIN conds \ {p} : conds[i] # old
        BY <1>2, <1>6, ListElements
      <3>2. ToSet(conds) \ {old} = {conds[i] : i \in DOMAIN conds \ {p}}
        BY <1>2, <1>6, <3>1 DEF ToSet
      <3>3. ToSet(after) = {conds[i] : i \in DOMAIN conds \ {p}} \cup {d}
        BY <1>2, <1>6, <2>2 DEF ToSet
      <3> QED
        BY <3>2, <3>3
    <2>6. ToSet(after) = (ToSet(conds) \ OfType(conds, new.type)) \cup {d}
      BY <1>2, <1>6, <2>5
    <2> QED
      BY <1>3, <2>4, <2>6 DEF d, after, same
  <1> QED
    BY <1>5, <1>6

\* RemoveCondition takes away the condition of the type.
LEMMA RemoveTakesOne ==
    ASSUME NEW conds \in Lists, NEW t
    PROVE  /\ RemoveCondition(conds, t) \in Lists
           /\ ToSet(RemoveCondition(conds, t)) = ToSet(conds) \ OfType(conds, t)
  <1> DEFINE p == Position(conds, t)
             before == SubSeq(conds, 1, p - 1)
             behind == SubSeq(conds, p + 1, Len(conds))
             after == before \o behind
  <1>1. CASE p = 0
    BY <1>1, GetFinds DEF RemoveCondition
  <1>2. CASE p # 0
    <2>1. p \in 1 .. Len(conds) /\ OfType(conds, t) = {conds[p]} /\ Len(conds) \in Nat
      BY <1>2, GetFinds, ListElements
    <2> HIDE DEF p
    <2>2. RemoveCondition(conds, t) = after
      BY <1>2 DEF RemoveCondition, RemoveAt, p
    <2>3. /\ before \in Seq(Conditions) /\ Len(before) = p - 1
          /\ \A i \in 1 .. p - 1 : before[i] = conds[i]
      <3>1. \A i \in 1 .. p - 1 : conds[i] \in Conditions
        BY <2>1, ListElements
      <3> QED
        BY <2>1, <3>1, SubSeqProperties, Z3
    <2>4. /\ behind \in Seq(Conditions) /\ Len(behind) = Len(conds) - p
          /\ \A i \in 1 .. Len(conds) - p : behind[i] = conds[p + i]
      <3>1. \A i \in p + 1 .. Len(conds) : conds[i] \in Conditions
        BY <2>1, ListElements
      <3> QED
        BY <2>1, <3>1, SubSeqProperties, Z3
    <2> HIDE DEF before, behind
    <2>5. /\ after \in Seq(Conditions) /\ Len(after) = Len(conds) - 1
          /\ \A i \in 1 .. Len(conds) - 1 :
                after[i] = conds[IF i <= p - 1 THEN i ELSE i + 1]
      <3>1. /\ after \in Seq(Conditions) /\ Len(after) = Len(before) + Len(behind)
            /\ \A i \in 1 .. Len(before) + Len(behind) : after[i] =
                   IF i <= Len(before) THEN before[i] ELSE behind[i - Len(before)]
        BY <2>3, <2>4, ConcatProperties
      <3> HIDE DEF after
      <3>2. Len(before) + Len(behind) = Len(conds) - 1
        BY <2>1, <2>3, <2>4
      <3>3. ASSUME NEW i \in 1 .. Len(conds) - 1, i <= p - 1 PROVE after[i] = conds[i]
        BY <2>1, <2>3, <3>1, <3>2, <3>3
      <3>4. ASSUME NEW i \in 1 .. Len(conds) - 1, ~(i <= p - 1) PROVE after[i] = conds[i + 1]
        <4>1. after[i] = behind[i - (p - 1)]
          BY <2>1, <2>3, <3>1, <3>2, <3>4
        <4>2. i - (p - 1) \in 1 .. Len(conds) - p /\ p + (i - (p - 1)) = i + 1
          BY <2>1, <3>4
        <4> QED
          BY <2>4, <4>1, <4>2
      <3> QED
        BY <3>1, <3>2, <3>3, <3>4
    <2> HIDE DEF after
    <2>6. DOMAIN after = 1 .. Len(conds) - 1 /\ DOMAIN conds = 1 .. Len(conds)
      BY <2>5, ListElements
    <2>7. after \in Lists
      <3>1. ASSUME NEW i \in DOMAIN after, NEW j \in DOMAIN after, after[i].type = after[j].type
            PROVE  i = j
        <4> DEFINE k(n) == IF n <= p - 1 THEN n ELSE n + 1
        <4>1. k(i) \in DOMAIN conds /\ k(j) \in DOMAIN conds
          BY <2>1, <2>6
        <4>2. after[i] = conds[k(i)] /\ after[j] = conds[k(j)]
          BY <2>5, <2>6
        <4>3. k(i) = k(j)
          BY <3>1, <4>1, <4>2, ListElements
        <4> QED
          BY <2>1, <2>6, <4>3
      <3> QED
        BY <2>5, <3>1 DEF Lists
    <2>8. ToSet(after) = {conds[i] : i \in DOMAIN conds \ {p}}
      <3>1. \A i \in DOMAIN after : \E j \in DOMAIN conds \ {p} : after[i] = conds[j]
        BY <2>1, <2>5, <2>6
      <3>2. ASSUME NEW j \in DOMAIN conds \ {p}
            PROVE  \E i \in DOMAIN after : after[i] = conds[j]
        <4>1. CASE j < p
          BY <2>1, <2>5, <2>6, <4>1
        <4>2. CASE j > p
          <5>1. j - 1 \in 1 .. Len(conds) - 1 /\ ~(j - 1 <= p - 1) /\ (j - 1) + 1 = j
            BY <2>1, <2>6, <4>2
          <5> QED
            BY <2>5, <2>6, <5>1
        <4> QED
          BY <2>1, <2>6, <4>1, <4>2
      <3> QED
        BY <3>1, <3>2 DEF ToSet
    <2>9. {conds[i] : i \in DOMAIN conds \ {p}} = ToSet(conds) \ {conds[p]}
      <3>1. p \in DOMAIN conds /\ \A i \in DOMAIN conds \ {p} : conds[i] # conds[p]
        BY <2>1, ListElements
      <3> QED
        BY <3>1 DEF ToSet
    <2> QED
      BY <2>1, <2>2, <2>7, <2>8, <2>9
  <1> QED
    BY <1>1, <1>2

\* The types of the alphabet are ranked as it lists them.
LEMMA RankOfType ==
    ASSUME NEW t \in ToSet(Alphabet)
    PROVE  Rank(t) \in Nat /\ Alphabet[Rank(t)] = t
  <1>1. \E i \in DOMAIN Alphabet : Alphabet[i] = t
    BY DEF ToSet
  <1>2. DOMAIN Alphabet \subseteq Nat
    BY ConditionAssumption DEF ConditionAssumption
  <1> QED
    BY <1>1, <1>2 DEF Rank

\* A list can be put in order: a condition goes where the number of those that rank
\* no higher says.
LEMMA OrderExists ==
    ASSUME NEW conds \in Lists
    PROVE  \E order \in Bijection(DOMAIN conds, DOMAIN conds) : InOrder(Arranged(conds, order))
  <1> DEFINE D == DOMAIN conds
             n == Len(conds)
             rank == [i \in D |-> Rank(conds[i].type)]
             Below(i) == {j \in D : rank[j] <= rank[i]}
             pos == [i \in D |-> Cardinality(Below(i))]
             order == [k \in D |-> CHOOSE i \in D : pos[i] = k]
  <1>1. D = 1 .. n /\ n \in Nat
    BY ListElements
  <1>2. \A i \in D : rank[i] \in Nat
    <2>1. \A i \in D : conds[i].type \in ToSet(Alphabet)
      BY ListElements DEF Conditions
    <2> QED
      BY <2>1, RankOfType
  <1>3. \A i, j \in D : rank[i] = rank[j] => i = j
    <2>1. \A i \in D : Alphabet[rank[i]] = conds[i].type
      <3>1. \A i \in D : conds[i].type \in ToSet(Alphabet)
        BY ListElements DEF Conditions
      <3> QED
        BY <3>1, RankOfType
    <2> HIDE DEF rank
    <2> QED
      BY <2>1, ListElements
  <1>4. IsFiniteSet(D) /\ Cardinality(D) = n
    <2>1. IsFiniteSet(1 .. n) /\ Cardinality(1 .. n) = IF 1 > n THEN 0 ELSE n - 1 + 1
      BY <1>1, FS_Interval
    <2> QED
      BY <1>1, <2>1
  <1> HIDE DEF rank
  <1>5. ASSUME NEW i \in D
        PROVE  IsFiniteSet(Below(i)) /\ Cardinality(Below(i)) \in D
    <2>1. Below(i) \in SUBSET D /\ i \in Below(i)
      BY <1>2
    <2> HIDE DEF Below, D
    <2>2. /\ IsFiniteSet(Below(i)) /\ Cardinality(Below(i)) \in Nat
          /\ Cardinality(Below(i)) <= n /\ Cardinality(Below(i)) # 0
      BY <1>4, <2>1, FS_Subset, FS_CardinalityType, FS_EmptySet
    <2> QED
      BY <1>1, <2>2
  <1>6. ASSUME NEW i \in D, NEW j \in D, rank[i] < rank[j]
        PROVE  pos[i] < pos[j]
    <2>1. Below(i) \in SUBSET Below(j) /\ j \in Below(j) /\ j \notin Below(i)
      BY <1>2, <1>6
    <2>2. pos[i] = Cardinality(Below(i)) /\ pos[j] = Cardinality(Below(j))
      OBVIOUS
    <2> HIDE DEF Below, pos
    <2>3. pos[i] \in Nat /\ pos[j] \in Nat
      BY <1>1, <1>5, <2>2
    <2>4. pos[i] <= pos[j] /\ pos[i] # pos[j]
      BY <1>5, <2>1, <2>2, FS_Subset
    <2> QED
      BY <2>3, <2>4
  <1>7. pos \in [D -> D]
    BY <1>5
  <1> HIDE DEF pos, Below
  <1>8. pos \in Injection(D, D)
    <2>1. ASSUME NEW i \in D, NEW j \in D, pos[i] = pos[j] PROVE i = j
      <3>1. ~(rank[i] < rank[j]) /\ ~(rank[j] < rank[i])
        BY <1>1, <1>6, <1>7, <2>1
      <3> QED
        BY <1>2, <1>3, <3>1
    <2> HIDE DEF D
    <2> QED
      BY <1>7, <2>1 DEF Injection, IsInjective
  <1>9. \A k \in D : \E i \in D : pos[i] = k
    <2>1. pos \in Surjection(D, D)
      BY <1>4, <1>8, FS_Injection
    <2> HIDE DEF D
    <2> QED
      BY <2>1 DEF Surjection
  <1>10. order \in [D -> D] /\ \A k \in D : pos[order[k]] = k
    BY <1>9
  <1> HIDE DEF order
  <1>11. order \in Bijection(D, D)
    <2>1. \A i \in D : order[pos[i]] = i
      <3>1. \A i, j \in D : pos[i] = pos[j] => i = j
        BY <1>8 DEF Injection, IsInjective
      <3> HIDE DEF D
      <3> QED
        BY <1>7, <1>10, <3>1
    <2>2. \A i, j \in D : order[i] = order[j] => i = j
      BY <1>10
    <2> HIDE DEF D
    <2> QED
      BY <1>7, <1>10, <2>1, <2>2 DEF Bijection, Injection, Surjection, IsInjective
  <1>12. InOrder(Arranged(conds, order))
    <2>1. /\ DOMAIN Arranged(conds, order) = D
          /\ \A k \in D : Arranged(conds, order)[k] = conds[order[k]]
      BY DEF Arranged
    <2>2. ASSUME NEW k \in D, NEW l \in D, k < l PROVE rank[order[k]] <= rank[order[l]]
      <3>1. order[k] \in D /\ order[l] \in D /\ pos[order[k]] = k /\ pos[order[l]] = l
        BY <1>10
      <3>2. ~(l < k)
        BY <1>1, <2>2
      <3>3. ~(rank[order[l]] < rank[order[k]])
        BY <1>6, <3>1, <3>2
      <3> QED
        BY <1>2, <3>1, <3>3
    <2>3. \A i \in D : rank[i] = Rank(conds[i].type)
      BY DEF rank
    <2> QED
      BY <1>10, <2>1, <2>2, <2>3 DEF InOrder
  <1> QED
    BY <1>11, <1>12

\* Storing a list only changes its order.
LEMMA SortKeepsContents ==
    ASSUME NEW conds \in Lists
    PROVE  MarshalJSON(conds) \in Lists /\ ToSet(MarshalJSON(conds)) = ToSet(conds)
  <1> DEFINE D == DOMAIN conds
             order == CHOOSE o \in Bijection(D, D) : InOrder(Arranged(conds, o))
             after == Arranged(conds, order)
  <1>1. order \in Bijection(D, D)
    BY OrderExists
  <1>2. MarshalJSON(conds) = after
    BY DEF MarshalJSON
  <1> HIDE DEF order
  <1>3. /\ order \in [D -> D]
        /\ \A i, j \in D : order[i] = order[j] => i = j
        /\ \A k \in D : \E i \in D : order[i] = k
    BY <1>1 DEF Bijection, Injection, Surjection, IsInjective
  <1>4. DOMAIN after = D /\ \A i \in D : after[i] = conds[order[i]]
    BY DEF Arranged
  <1>5. after \in Seq(Conditions)
    <2>1. Len(conds) \in Nat /\ D = 1 .. Len(conds) /\ \A i \in D : conds[i] \in Conditions
      BY ListElements
    <2>2. after = [i \in 1 .. Len(conds) |-> conds[order[i]]]
      BY <2>1 DEF Arranged
    <2>3. \A i \in 1 .. Len(conds) : conds[order[i]] \in Conditions
      BY <1>3, <2>1
    <2> HIDE DEF after
    <2> QED
      BY <2>1, <2>2, <2>3
  <1> HIDE DEF after
  <1>6. after \in Lists
    <2>1. ASSUME NEW i \in D, NEW j \in D, after[i].type = after[j].type PROVE i = j
      <3>1. order[i] \in D /\ order[j] \in D
        BY <1>3
      <3>2. order[i] = order[j]
        BY <1>4, <2>1, <3>1, ListElements
      <3> QED
        BY <1>3, <3>2
    <2> QED
      BY <1>4, <1>5, <2>1 DEF Lists
  <1>7. ToSet(after) = ToSet(conds)
    BY <1>3, <1>4 DEF ToSet
  <1> QED
    BY <1>2, <1>6, <1>7

\* A list is as long as it has types.
LEMMA OnePerType ==
    ASSUME NEW conds \in Lists
    PROVE  Len(conds) = Cardinality({c.type : c \in ToSet(conds)})
  <1> DEFINE types == {c.type : c \in ToSet(conds)}
             f == [i \in 1 .. Len(conds) |-> conds[i].type]
  <1>1. Len(conds) \in Nat /\ DOMAIN conds = 1 .. Len(conds)
    BY ListElements
  <1>2. f \in [1 .. Len(conds) -> types]
    BY <1>1, ListElements
  <1>3. \A i, j \in 1 .. Len(conds) : f[i] = f[j] => i = j
    BY <1>1, ListElements
  <1>4. \A t \in types : \E i \in 1 .. Len(conds) : f[i] = t
    BY <1>1, ListElements
  <1> HIDE DEF f, types
  <1>5. f \in Bijection(1 .. Len(conds), types)
    BY <1>2, <1>3, <1>4 DEF Bijection, Injection, Surjection, IsInjective
  <1>6. Cardinality(types) = Len(conds)
    BY <1>1, <1>5, FS_CountingElements DEF ExistsBijection
  <1> QED
    BY <1>6 DEF types

--------------------------------------------------------------------------------
(* A list made of conditions *)

\* The list after each round of the loop of NewConditions.
SetRounds(conds, now, n, set) ==
    set = [i \in 0 .. n |-> IF i = 0 THEN <<>> ELSE SetCondition(set[i - 1], conds[i], now)]

LEMMA SetRoundsExist ==
    ASSUME NEW conds, NEW now, NEW n \in Nat
    PROVE  \E set : SetRounds(conds, now, n, set)
  <1> DEFINE Reached == {m \in Nat : \E set : SetRounds(conds, now, m, set)}
  <1>1. 0 \in Reached
    <2>1. SetRounds(conds, now, 0, [i \in 0 .. 0 |-> <<>>])
      BY DEF SetRounds
    <2> QED
      BY <2>1
  <1>2. ASSUME NEW m \in Reached PROVE m + 1 \in Reached
    <2>1. PICK set : SetRounds(conds, now, m, set)
      OBVIOUS
    <2> DEFINE more == [i \in 0 .. m + 1 |->
                   IF i = m + 1 THEN SetCondition(set[m], conds[m + 1], now) ELSE set[i]]
    <2>2. \A i \in 0 .. m + 1 : more[i] =
              IF i = 0 THEN <<>> ELSE SetCondition(more[i - 1], conds[i], now)
      BY <2>1 DEF SetRounds
    <2>3. SetRounds(conds, now, m + 1, more)
      BY <2>2 DEF SetRounds
    <2> QED
      BY <2>3
  <1> HIDE DEF Reached
  <1>3. Reached = Nat
    BY <1>1, <1>2, NatInductionOnSets DEF Reached
  <1> QED
    BY <1>3 DEF Reached

\* NewConditions keeps the conditions, with the time of now.
LEMMA NewListHolds ==
    ASSUME NEW conds \in Lists, NEW now \in Nat
    PROVE  ToSet(NewConditions(conds, now)) = {Timed(c, now) : c \in ToSet(conds)}
  <1> DEFINE n == Len(conds)
             set == CHOOSE s : SetRounds(conds, now, n, s)
             First(i) == {Timed(conds[j], now) : j \in 1 .. i}
             Good == {i \in Nat : i <= n => set[i] \in Lists /\ ToSet(set[i]) = First(i)}
  <1>1. n \in Nat /\ DOMAIN conds = 1 .. n
    BY ListElements
  <1>2. SetRounds(conds, now, n, set)
    BY <1>1, SetRoundsExist
  <1>3. NewConditions(conds, now) = set[n]
    BY DEF NewConditions, SetRounds
  <1> HIDE DEF set
  <1>4. \A i \in 0 .. n :
            set[i] = IF i = 0 THEN <<>> ELSE SetCondition(set[i - 1], conds[i], now)
    BY <1>2 DEF SetRounds
  <1>5. 0 \in Good
    <2>1. set[0] = <<>>
      BY <1>1, <1>4
    <2>2. <<>> \in Lists /\ ToSet(<<>>) = {}
      BY DEF Lists, ToSet
    <2>3. First(0) = {}
      OBVIOUS
    <2> QED
      BY <2>1, <2>2, <2>3
  <1>6. ASSUME NEW i \in Good PROVE i + 1 \in Good
    <2> SUFFICES ASSUME i + 1 <= n
                 PROVE  set[i + 1] \in Lists /\ ToSet(set[i + 1]) = First(i + 1)
      OBVIOUS
    <2> DEFINE new == conds[i + 1]
    <2>1. i \in Nat /\ i <= n /\ i + 1 \in 0 .. n /\ i + 1 # 0 /\ (i + 1) - 1 = i
          /\ i + 1 \in DOMAIN conds
      BY <1>1
    <2>2. /\ set[i] \in Lists /\ ToSet(set[i]) = First(i)
          /\ set[i + 1] = SetCondition(set[i], new, now)
      BY <1>4, <2>1
    <2>3. new \in Conditions
      BY <2>1, ListElements
    <2>4. OfType(set[i], new.type) = {}
      <3>1. ASSUME NEW j \in 1 .. i PROVE Timed(conds[j], now).type # new.type
        <4>1. j \in DOMAIN conds /\ j # i + 1
          BY <1>1, <2>1
        <4>2. conds[j].type # new.type /\ conds[j] \in Conditions
          BY <2>1, <4>1, ListElements
        <4> QED
          BY <4>2, TimedCondition
      <3> QED
        BY <2>2, <3>1 DEF OfType
    <2>5. set[i + 1] \in Lists /\ ToSet(set[i + 1]) = First(i) \cup {Timed(new, now)}
      <3> DEFINE before == set[i]
                 same == {c \in OfType(before, new.type) : c.status = new.status}
                 after == SetCondition(before, new, now)
      <3>1. before \in Lists /\ same = {} /\ OfType(before, new.type) = {}
        BY <2>2, <2>4
      <3>2. set[i + 1] = after /\ ToSet(before) = First(i)
        BY <2>2
      <3> HIDE DEF before, new, First, Good
      <3>3. /\ after \in Lists
            /\ \E time \in Nat :
                  /\ ToSet(after) =
                        (ToSet(before) \ OfType(before, new.type)) \cup {Timed(new, time)}
                  /\ (same = {} /\ time = now) \/ (\E c \in same : time = c.time)
        BY <2>3, <3>1, SetReplaces
      <3> HIDE DEF same, after
      <3> QED
        BY <3>1, <3>2, <3>3
    <2>6. 1 .. i + 1 = (1 .. i) \cup {i + 1}
      BY <2>1
    <2>7. First(i + 1) = First(i) \cup {Timed(new, now)}
      BY <2>6
    <2> QED
      BY <2>5, <2>7
  <1> HIDE DEF Good
  <1>7. Good = Nat
    BY <1>5, <1>6, NatInductionOnSets DEF Good
  <1>8. ToSet(set[n]) = First(n)
    <2>1. n \in Good
      BY <1>1, <1>7
    <2> HIDE DEF First, n
    <2> QED
      BY <1>1, <2>1 DEF Good
  <1>9. First(n) = {Timed(c, now) : c \in ToSet(conds)}
    BY <1>1 DEF ToSet
  <1> QED
    BY <1>3, <1>8, <1>9

--------------------------------------------------------------------------------
(* The operations together *)

\* Every list with one condition of a type at most is a map for all operations on it,
\* however long it is (the methods of Conditions); a condition that is set at time 2 can
\* be told from the others.
THEOREM AnyListIsAMap ==
    ASSUME NEW conds \in Lists, \A c \in ToSet(conds) : c.time # 2
    PROVE  IsAMap(conds)
  <1> SUFFICES
        ASSUME NEW new \in Sample
        PROVE  LET after == MarshalJSON(SetCondition(conds, new, 2))
                   removed == RemoveCondition(after, new.type)
                   got == GetCondition(after, new.type)
                   others == ToSet(Alphabet) \ {new.type}
               IN /\ \A t \in others : /\ GetCondition(after, t) = GetCondition(conds, t)
                                       /\ GetCondition(removed, t) = GetCondition(conds, t)
                  /\ Len(after) = Cardinality({c.type : c \in ToSet(conds) \cup {new}})
                  /\ [got EXCEPT !.time = new.time] = new
                  /\ got.time # 2 <=>
                        \E c \in ToSet(conds) : c.type = new.type /\ c.status = new.status
                  /\ got # GetCondition(conds, new.type) =>
                        got.time # 2 \/ IsNewOrChanged(conds, new)
                  /\ IsFor(after, new.type, new.status) /\ IsFor(removed, new.type, "Unknown")
                  /\ ToSet(NewConditions(conds, 0)) =
                        {[c EXCEPT !.time = 0] : c \in ToSet(conds)}
    BY DEF IsAMap
  <1> DEFINE t0 == new.type
             set == SetCondition(conds, new, 2)
             after == MarshalJSON(set)
             removed == RemoveCondition(after, t0)
             got == GetCondition(after, t0)
             same == {c \in OfType(conds, t0) : c.status = new.status}
  <1>1. new \in Conditions /\ new.time = 0
    BY KnownConditions DEF Sample
  <1>2. PICK time \in Nat :
            /\ ToSet(set) = (ToSet(conds) \ OfType(conds, t0)) \cup {Timed(new, time)}
            /\ \/ same = {} /\ time = 2
               \/ \E c \in same : time = c.time
    BY <1>1, SetReplaces
  <1> DEFINE d == Timed(new, time)
  <1>3. set \in Lists
    BY <1>1, SetReplaces
  <1>4. after \in Lists /\ ToSet(after) = (ToSet(conds) \ OfType(conds, t0)) \cup {d}
    BY <1>2, <1>3, SortKeepsContents
  <1>5. /\ d \in Conditions /\ d.type = t0 /\ d.status = new.status /\ d.reason = new.reason
        /\ d.time = time
    BY <1>1, TimedCondition
  <1> HIDE DEF set, after, d
  <1>6. OfType(after, t0) = {d}
    BY <1>4, <1>5 DEF OfType
  <1>7. got = d
    BY <1>4, <1>6, GetByContents
  <1>8. removed \in Lists /\ ToSet(removed) = ToSet(conds) \ OfType(conds, t0)
    <2>1. removed \in Lists /\ ToSet(removed) = ToSet(after) \ OfType(after, t0)
      BY <1>4, RemoveTakesOne
    <2>2. d \notin ToSet(conds) \ OfType(conds, t0)
      BY <1>5 DEF OfType
    <2> QED
      BY <1>4, <1>6, <2>1, <2>2
  <1> HIDE DEF removed, got
  <1>9. ASSUME NEW t \in ToSet(Alphabet) \ {t0}
        PROVE  /\ GetCondition(after, t) = GetCondition(conds, t)
               /\ GetCondition(removed, t) = GetCondition(conds, t)
    <2>1. OfType(after, t) = OfType(conds, t) /\ OfType(removed, t) = OfType(conds, t)
      BY <1>4, <1>5, <1>8 DEF OfType
    <2> QED
      BY <1>4, <1>8, <2>1, GetByContents
  <1>10. Len(after) = Cardinality({c.type : c \in ToSet(conds) \cup {new}})
    <2>1. {c.type : c \in ToSet(after)} = {c.type : c \in ToSet(conds) \cup {new}}
      BY <1>4, <1>5 DEF OfType
    <2> QED
      BY <1>4, <2>1, OnePerType
  <1>11. [got EXCEPT !.time = new.time] = new
    <2>1. /\ new = [type |-> new.type, status |-> new.status, reason |-> new.reason,
                    time |-> new.time]
          /\ got = [type |-> new.type, status |-> new.status, reason |-> new.reason,
                    time |-> time]
      BY <1>1, <1>7 DEF Conditions, d, Timed
    <2> QED
      BY <2>1
  <1>12. got.time # 2 <=> \E c \in ToSet(conds) : c.type = t0 /\ c.status = new.status
    <2>1. got.time = time /\ same = {c \in ToSet(conds) : c.type = t0 /\ c.status = new.status}
      BY <1>5, <1>7 DEF OfType
    <2> HIDE DEF same
    <2>2. \A c \in same : c.time # 2
      BY <2>1
    <2> QED
      BY <1>2, <2>1, <2>2
  <1>13. ASSUME got.time = 2, ~IsNewOrChanged(conds, new)
         PROVE  got = GetCondition(conds, t0)
    <2> DEFINE old == GetCondition(conds, t0)
    <2>1. old # Nil /\ old.status = new.status
      BY <1>13 DEF IsNewOrChanged
    <2>2. old \in OfType(conds, t0)
      BY <2>1, GetByContents
    <2>3. old \in ToSet(conds) /\ old.type = t0
      BY <2>2 DEF OfType
    <2> QED
      BY <1>12, <1>13, <2>1, <2>3
  <1>14. IsFor(after, t0, new.status) /\ IsFor(removed, t0, "Unknown")
    <2>1. Nil \notin Conditions
      BY ConditionAssumption DEF ConditionAssumption
    <2>2. IsFor(after, t0, new.status)
      BY <1>5, <1>7, <2>1 DEF IsFor, got
    <2>3. OfType(removed, t0) = {}
      BY <1>8 DEF OfType
    <2>4. GetCondition(removed, t0) = Nil
      BY <1>8, <2>3, GetByContents
    <2> QED
      BY <2>2, <2>4 DEF IsFor
  <1>15. ToSet(NewConditions(conds, 0)) = {[c EXCEPT !.time = 0] : c \in ToSet(conds)}
    BY NewListHolds DEF Timed
  <1> QED
    BY <1>9, <1>10, <1>11, <1>12, <1>13, <1>14, <1>15 DEF got, removed, after, set

LEMMA ConditionListsAreLists ==
    ASSUME NEW conds \in ConditionLists
    PROVE  conds \in Lists /\ \A c \in ToSet(conds) : c.time # 2
  <1>1. CleanUp \in Conditions /\ Own \subseteq Conditions
    BY KnownConditions DEF Records
  <1>2. /\ CleanUp.type # "Install" /\ CleanUp.time # 2
        /\ \A c \in Own : c.type = "Install" /\ c.time # 2
    <2>1. \A c \in Own : c.type = "Install" /\ c.time \in Times
      BY OwnTypes
    <2>2. CleanUp.type = "CleanUpStatus" /\ CleanUp.time = 0
      BY OwnTypes
    <2> QED
      BY <2>1, <2>2 DEF Times
  <1>3. CASE conds = <<>>
    BY <1>3 DEF Lists, ToSet
  <1>4. CASE conds = <<CleanUp>>
    BY <1>1, <1>2, <1>4 DEF Lists, ToSet
  <1>5. ASSUME NEW c \in Own, conds = <<c>>
        PROVE  conds \in Lists /\ \A e \in ToSet(conds) : e.time # 2
    BY <1>1, <1>2, <1>5 DEF Lists, ToSet
  <1>6. ASSUME NEW c \in Own, conds = <<CleanUp, c>>
        PROVE  conds \in Lists /\ \A e \in ToSet(conds) : e.time # 2
    BY <1>1, <1>2, <1>6 DEF Lists, ToSet
  <1> QED
    BY <1>3, <1>4, <1>5, <1>6, ListForms

\* The conditions that Reconcile has in hand when it is about to set one are a map
\* for SetCondition, GetCondition, RemoveCondition, NewConditions and MarshalJSON.
THEOREM ConditionsStayAMap == Spec => []ConditionsAreAMap
  <1>1. TypeOK => ConditionsAreAMap
    <2> SUFFICES ASSUME TypeOK, operator.pc \in {"failed", "complete"}
                 PROVE  IsAMap(operator.copy.conditions)
      BY DEF ConditionsAreAMap
    <2>1. operator.copy.conditions \in ConditionLists
      BY DEF TypeOK, Resources
    <2> QED
      BY <2>1, ConditionListsAreLists, AnyListIsAMap
  <1> QED
    BY <1>1, DatasetTypes, PTL

================================================================================
