---------------------------- MODULE NodeRulesProofs ----------------------------
(***************************************************************************)
(* Theorems about what NodePods computes: which pods the rules of a        *)
(* dataset select, and what the webhook makes of a pod.                    *)
(***************************************************************************)
EXTENDS NodePodsProofs, Induction

--------------------------------------------------------------------------------
(* The loop over the rules *)

\* The answer after each round of the loop of PodMatches.
Rounds(lbls, terms, n, after) ==
    after = [i \in 0 .. n |->
        IF i = 0 THEN Answer(terms = <<>>, {}) ELSE Consider(lbls, after[i - 1], terms[i])]

\* The loop is defined for every list of rules.
LEMMA RoundsExist ==
    ASSUME NEW lbls, NEW terms, NEW n \in Nat
    PROVE  \E after : Rounds(lbls, terms, n, after)
  <1> DEFINE Reached == {m \in Nat : \E after : Rounds(lbls, terms, m, after)}
  <1>1. 0 \in Reached
    <2>1. Rounds(lbls, terms, 0, [i \in 0 .. 0 |-> Answer(terms = <<>>, {})])
      BY DEF Rounds
    <2> QED
      BY <2>1
  <1>2. ASSUME NEW m \in Reached PROVE m + 1 \in Reached
    <2>1. PICK after : Rounds(lbls, terms, m, after)
      OBVIOUS
    <2> DEFINE more == [i \in 0 .. m + 1 |->
                          IF i = m + 1 THEN Consider(lbls, after[m], terms[m + 1]) ELSE after[i]]
    <2>2. \A i \in 0 .. m + 1 : more[i] =
              IF i = 0 THEN Answer(terms = <<>>, {}) ELSE Consider(lbls, more[i - 1], terms[i])
      BY <2>1 DEF Rounds
    <2>3. Rounds(lbls, terms, m + 1, more)
      BY <2>2 DEF Rounds
    <2> QED
      BY <2>3
  <1> HIDE DEF Reached
  <1>3. Reached = Nat
    BY <1>1, <1>2, NatInductionOnSets DEF Reached
  <1> QED
    BY <1>3 DEF Reached

\* PodMatches answers what the last round of its loop leaves.
LEMMA PodMatchesRounds ==
    ASSUME NEW lbls, NEW S, NEW terms \in Seq(S)
    PROVE  \E after : /\ Rounds(lbls, terms, Len(terms), after)
                      /\ PodMatches(lbls, terms) = after[Len(terms)]
  <1> DEFINE after == CHOOSE f : Rounds(lbls, terms, Len(terms), f)
  <1>1. Len(terms) \in Nat
    OBVIOUS
  <1>2. \E f : Rounds(lbls, terms, Len(terms), f)
    BY <1>1, RoundsExist
  <1>3. Rounds(lbls, terms, Len(terms), after)
    BY <1>2
  <1>4. PodMatches(lbls, terms) = after[Len(terms)]
    BY DEF PodMatches, Rounds
  <1> QED
    BY <1>3, <1>4

\* What one round makes of the answer of the round before.
LEMMA ConsiderAnswer ==
    ASSUME NEW lbls, NEW found, NEW term,
           found.match \in BOOLEAN, found.match => found.errs = {}
    PROVE  LET m == matches(lbls, term)  new == Consider(lbls, found, term)
               counts == ~EmptyTerm(term)
           IN /\ new.match \in BOOLEAN
              /\ new.match <=> (found.match \/ (counts /\ m.match))
              /\ new.match => new.errs = {}
              /\ ~new.match => ((new.errs # {}) <=> (found.errs # {} \/ (counts /\ m.errs # {})))
  <1> DEFINE m == matches(lbls, term)
             new == Consider(lbls, found, term)
  <1>1. m.match \in BOOLEAN /\ (m.match => m.errs = {})
    BY DEF matches
  <1>2. \A match, errs : Answer(match, errs).match = match /\ Answer(match, errs).errs = errs
    BY DEF Answer
  <1>3. new = IF found.match \/ EmptyTerm(term) THEN found
              ELSE IF m.errs # {} THEN Answer(FALSE, found.errs \cup m.errs)
              ELSE IF m.match THEN Answer(TRUE, {}) ELSE found
    BY DEF Consider
  <1> HIDE DEF m, new
  <1>4. CASE found.match \/ EmptyTerm(term)
    <2>1. new = found
      BY <1>3, <1>4
    <2> QED
      BY <1>4, <2>1 DEF m, new
  <1>5. CASE ~found.match /\ ~EmptyTerm(term) /\ m.errs # {}
    <2>1. new = Answer(FALSE, found.errs \cup m.errs)
      BY <1>3, <1>5
    <2>2. new.match = FALSE /\ new.errs = found.errs \cup m.errs
      BY <1>2, <2>1
    <2> QED
      BY <1>1, <1>5, <2>2 DEF m, new
  <1>6. CASE ~found.match /\ ~EmptyTerm(term) /\ m.errs = {} /\ m.match
    <2>1. new = Answer(TRUE, {})
      BY <1>3, <1>6
    <2>2. new.match = TRUE /\ new.errs = {}
      BY <1>2, <2>1
    <2> QED
      BY <1>6, <2>2 DEF m, new
  <1>7. CASE ~found.match /\ ~EmptyTerm(term) /\ m.errs = {} /\ ~m.match
    <2>1. new = found
      BY <1>3, <1>7
    <2> QED
      BY <1>7, <2>1 DEF m, new
  <1> QED
    BY <1>1, <1>4, <1>5, <1>6, <1>7 DEF m, new

\* The answer "found" is the one that the first i rules of the list deserve: one of
\* them that says something is satisfied, or else the errors of those are told.
Deserved(lbls, terms, i, found) ==
    LET said == {j \in 1 .. i : ~EmptyTerm(terms[j])}
    IN /\ found.match \in BOOLEAN
       /\ found.match <=> (terms = <<>> \/ \E j \in said : matches(lbls, terms[j]).match)
       /\ found.match => found.errs = {}
       /\ ~found.match => ((found.errs # {}) <=> \E j \in said : matches(lbls, terms[j]).errs # {})

\* The invariant of the loop.
LEMMA RoundsDeserved ==
    ASSUME NEW lbls, NEW terms, NEW n \in Nat, NEW after, Rounds(lbls, terms, n, after)
    PROVE  Deserved(lbls, terms, n, after[n])
  <1> DEFINE Good == {i \in Nat : i <= n => Deserved(lbls, terms, i, after[i])}
  <1>0. \A i \in 0 .. n : after[i] =
            IF i = 0 THEN Answer(terms = <<>>, {}) ELSE Consider(lbls, after[i - 1], terms[i])
    BY DEF Rounds
  <1>1. 0 \in Good
    <2>1. after[0] = Answer(terms = <<>>, {})
      BY <1>0
    <2>2. 1 .. 0 = {}
      OBVIOUS
    <2>3. after[0].match = (terms = <<>>) /\ after[0].errs = {}
      BY <2>1 DEF Answer
    <2>4. Deserved(lbls, terms, 0, after[0])
      BY <2>2, <2>3 DEF Deserved
    <2> QED
      BY <2>4
  <1>2. ASSUME NEW i \in Good PROVE i + 1 \in Good
    <2> SUFFICES ASSUME i + 1 <= n PROVE Deserved(lbls, terms, i + 1, after[i + 1])
      BY DEF Good
    <2> DEFINE term == terms[i + 1]
               said == {j \in 1 .. i : ~EmptyTerm(terms[j])}
               said2 == {j \in 1 .. i + 1 : ~EmptyTerm(terms[j])}
    <2>1. i \in Nat /\ i <= n /\ i + 1 \in 0 .. n /\ (i + 1) - 1 = i /\ i + 1 # 0
      OBVIOUS
    <2>2. after[i + 1] = Consider(lbls, after[i], term)
      BY <1>0, <2>1
    <2>3. Deserved(lbls, terms, i, after[i])
      BY <2>1
    <2>4. said2 = said \cup (IF EmptyTerm(term) THEN {} ELSE {i + 1})
      BY <2>1
    <2>5. LET found == after[i]  new == after[i + 1]  m == matches(lbls, term)
              counts == ~EmptyTerm(term)
          IN /\ new.match \in BOOLEAN
             /\ new.match <=> (found.match \/ (counts /\ m.match))
             /\ new.match => new.errs = {}
             /\ ~new.match => ((new.errs # {}) <=> (found.errs # {} \/ (counts /\ m.errs # {})))
      <3>1. after[i].match \in BOOLEAN /\ (after[i].match => after[i].errs = {})
        BY <2>3 DEF Deserved
      <3> QED
        BY <2>2, <3>1, ConsiderAnswer
    <2> HIDE DEF said, said2
    <2>6. /\ (\E j \in said2 : matches(lbls, terms[j]).match) <=>
               (\/ \E j \in said : matches(lbls, terms[j]).match
                \/ ~EmptyTerm(term) /\ matches(lbls, term).match)
          /\ (\E j \in said2 : matches(lbls, terms[j]).errs # {}) <=>
               (\/ \E j \in said : matches(lbls, terms[j]).errs # {}
                \/ ~EmptyTerm(term) /\ matches(lbls, term).errs # {})
      BY <2>4
    <2>7. LET found == after[i]
          IN /\ found.match <=> (terms = <<>> \/ \E j \in said : matches(lbls, terms[j]).match)
             /\ ~found.match =>
                   ((found.errs # {}) <=> \E j \in said : matches(lbls, terms[j]).errs # {})
      BY <2>3 DEF Deserved, said
    <2>8. LET new == after[i + 1]
          IN /\ new.match <=> (terms = <<>> \/ \E j \in said2 : matches(lbls, terms[j]).match)
             /\ ~new.match =>
                   ((new.errs # {}) <=> \E j \in said2 : matches(lbls, terms[j]).errs # {})
      BY <2>5, <2>6, <2>7
    <2> QED
      BY <2>5, <2>8 DEF Deserved, said2
  <1> HIDE DEF Good
  <1>3. Good = Nat
    BY <1>1, <1>2, NatInductionOnSets DEF Good
  <1> QED
    BY <1>3 DEF Good

\* PodMatches gives the answer that the whole list deserves.
LEMMA PodMatchesDeserved ==
    ASSUME NEW lbls, NEW terms \in Samples
    PROVE  Deserved(lbls, terms, Len(terms), PodMatches(lbls, terms))
           /\ DOMAIN terms = 1 .. Len(terms)
  <1>1. terms \in Seq(ToSet(terms))
    BY NodePodsAssumption DEF NodePodsAssumption
  <1>2. Len(terms) \in Nat /\ DOMAIN terms = 1 .. Len(terms)
    BY <1>1
  <1> QED
    BY <1>1, <1>2, PodMatchesRounds, RoundsDeserved

\* The rules of a dataset select a pod as RulesAgree says, and tell the errors that
\* it says, for every list of rules and in whatever order (PodMatches).
THEOREM RulesAreRead == Spec => []RulesAgree
  <1>1. ASSUME NEW lbls, NEW terms \in Samples
        PROVE  LET said == {t \in ToSet(terms) : ~EmptyTerm(t)}
                   readable == {t \in said : \A r \in Requirements(t) : WellFormed(r)}
                   found == PodMatches(lbls, terms)
               IN /\ found.match <=> (terms = <<>> \/
                        \E t \in readable : \A r \in Requirements(t) : Holds(lbls, r))
                  /\ found.errs # {} <=> (~found.match /\ said # readable)
    <2> DEFINE said == {t \in ToSet(terms) : ~EmptyTerm(t)}
               readable == {t \in said : \A r \in Requirements(t) : WellFormed(r)}
               places == {j \in 1 .. Len(terms) : ~EmptyTerm(terms[j])}
               found == PodMatches(lbls, terms)
    <2>1. said = {terms[j] : j \in places}
      BY PodMatchesDeserved DEF ToSet
    <2>2. /\ found.match \in BOOLEAN
          /\ found.match <=> (terms = <<>> \/ \E j \in places : matches(lbls, terms[j]).match)
          /\ found.match => found.errs = {}
          /\ ~found.match =>
                ((found.errs # {}) <=> \E j \in places : matches(lbls, terms[j]).errs # {})
      BY PodMatchesDeserved DEF Deserved
    <2> HIDE DEF said, places, found
    <2>4. \A t : /\ matches(lbls, t).match <=> (\A r \in Requirements(t) :
                                                 WellFormed(r) /\ Holds(lbls, r))
                 /\ (matches(lbls, t).errs # {}) <=> (\E r \in Requirements(t) : ~WellFormed(r))
      BY DEF matches
    <2>5. (\E j \in places : matches(lbls, terms[j]).match) <=>
            (\E t \in readable : \A r \in Requirements(t) : Holds(lbls, r))
      BY <2>1, <2>4
    <2>6. (\E j \in places : matches(lbls, terms[j]).errs # {}) <=> (said # readable)
      BY <2>1, <2>4
    <2>7. found.match <=> (terms = <<>> \/
              \E t \in readable : \A r \in Requirements(t) : Holds(lbls, r))
      BY <2>2, <2>5
    <2>8. found.errs # {} <=> (~found.match /\ said # readable)
      BY <2>2, <2>6
    <2> QED
      BY <2>7, <2>8 DEF said, found
  <1>2. RulesAgree
    BY <1>1 DEF RulesAgree
  <1> QED
    BY <1>2, PTL

\* What the operator accepts is no error for the driver, as AcceptedRulesAreRead says
\* (ValidateTerms against PodMatches).
THEOREM AcceptedRulesPass == Spec => []AcceptedRulesAreRead
  <1>1. ASSUME NEW lbls, NEW terms \in Samples, ValidateTerms(terms),
               \A t \in ToSet(terms) : \A k \in DOMAIN t.labels :
                   k \notin Malformed /\ t.labels[k] \notin Malformed
        PROVE  PodMatches(lbls, terms).errs = {}
    <2>1. ASSUME NEW j \in 1 .. Len(terms), NEW r \in Requirements(terms[j])
          PROVE  WellFormed(r)
      <3>1. terms[j] \in ToSet(terms) /\ j \in DOMAIN terms
        BY PodMatchesDeserved DEF ToSet
      <3>2. CASE r \in terms[j].expressions
        BY <1>1, <3>1, <3>2 DEF ValidateTerms
      <3>3. ASSUME NEW k \in DOMAIN terms[j].labels,
                   r = [key |-> k, operator |-> "In", values |-> {terms[j].labels[k]}]
            PROVE  WellFormed(r)
        <4>1. k \notin Malformed /\ terms[j].labels[k] \notin Malformed
          BY <1>1, <3>1
        <4> QED
          BY <3>3, <4>1 DEF WellFormed, Known
      <3> QED
        BY <3>2, <3>3 DEF Requirements
    <2>2. \A j \in 1 .. Len(terms) : matches(lbls, terms[j]).errs = {}
      BY <2>1 DEF matches
    <2> QED
      BY <2>2, PodMatchesDeserved DEF Deserved
  <1>2. AcceptedRulesAreRead
    BY <1>1 DEF AcceptedRulesAreRead
  <1> QED
    BY <1>2, PTL

--------------------------------------------------------------------------------
(* The webhook *)

\* What may be admitted for p.
Admission(p) ==
    {Template[p]} \cup {Handle(Template[p], NamespaceOf[p], driver, found) :
                          driver \in Drivers, found \in BOOLEAN}
AdmissionInv == \A p \in Pods : pods[p].spec \in Admission(p)

LEMMA AdmissionStep == TypesInv /\ AdmissionInv /\ [Next]_vars => AdmissionInv'
  <1> SUFFICES ASSUME TypesInv, AdmissionInv, [Next]_vars PROVE AdmissionInv'
    OBVIOUS
  <1>1. CASE \A q \in Pods : pods'[q].spec = pods[q].spec
    BY <1>1 DEF AdmissionInv, Admission
  <1>2. ASSUME NEW p \in Pods, CreatePod(p) PROVE AdmissionInv'
    <2>1. PICK driver \in Drivers, found \in BOOLEAN :
              pods' = [pods EXCEPT ![p].phase = "Pending",
                          ![p].spec = Handle(Template[p], NamespaceOf[p], driver, found)]
      BY <1>2 DEF CreatePod
    <2> DEFINE spec == Handle(Template[p], NamespaceOf[p], driver, found)
    <2>2. spec \in Admission(p)
      BY DEF Admission
    <2> HIDE DEF spec
    <2>3. pods'[p].spec = spec /\ \A q \in Pods \ {p} : pods'[q] = pods[q]
      BY <2>1 DEF TypesInv, Types, PodRecords, spec
    <2> QED
      BY <2>2, <2>3 DEF AdmissionInv, Admission
  <1> QED
    BY <1>1, <1>2, PodsKept

LEMMA AdmissionInit == Init => AdmissionInv
  <1> SUFFICES ASSUME Init, NEW p \in Pods PROVE pods[p].spec \in Admission(p)
    BY DEF AdmissionInv
  <1>1. PICK cast \in Casts, driver \in Drivers \ {Nil} :
            pods = [q \in Pods |->
                   IF q \notin cast THEN [NewPod(q) EXCEPT !.phase = "gone"]
                   ELSE IF q \in Settled THEN Running(q, driver) ELSE NewPod(q)]
    BY DEF Init
  <1>2. \/ pods[p] = [NewPod(p) EXCEPT !.phase = "gone"]
        \/ pods[p] = Running(p, driver)
        \/ pods[p] = NewPod(p)
    BY <1>1
  <1>3. \/ pods[p].spec = Template[p]
        \/ pods[p].spec = Handle(Template[p], NamespaceOf[p], driver, TRUE)
    <2> DEFINE spec == Handle(Template[p], NamespaceOf[p], driver, TRUE)
    <2>1. Running(p, driver).spec = spec
      <3>1. Running(p, driver) = [NewPod(p) EXCEPT !.phase = "Running", !.watched = TRUE,
                                                   !.path = p, !.spec = spec]
        BY DEF Running, NewPod
      <3> HIDE DEF spec
      <3> QED
        BY <3>1 DEF NewPod
    <2>2. NewPod(p).spec = Template[p] /\ [NewPod(p) EXCEPT !.phase = "gone"].spec = Template[p]
      BY DEF NewPod
    <2> QED
      BY <1>2, <2>1, <2>2
  <1>4. \A found \in BOOLEAN : Handle(Template[p], NamespaceOf[p], driver, found) \in Admission(p)
    BY DEF Admission
  <1>5. Template[p] \in Admission(p)
    BY DEF Admission
  <1> QED
    BY <1>3, <1>4, <1>5

\* The volume is added at the end, and the pod has then one volume more, of one more
\* name; the volume that is added is the only one of the claim.
LEMMA VolumeAdded ==
    ASSUME NEW S, NEW vols \in Seq(S),
           \A i, j \in DOMAIN vols : vols[i].name = vols[j].name => i = j,
           ~\E i \in DOMAIN vols : IsDatasetVolume(vols[i])
    PROVE  LET more == Append(vols, DatasetVolume)
           IN /\ Cardinality({more[i].name : i \in DOMAIN more}) = Len(vols) + 1
              /\ {i \in DOMAIN more : more[i].claim = DatasetVolume.claim} = {Len(vols) + 1}
              /\ IsPrefix(vols, more) /\ more # vols
              /\ \E i \in DOMAIN more : IsDatasetVolume(more[i])
  <1> DEFINE n == Len(vols)
             more == Append(vols, DatasetVolume)
             names == {vols[i].name : i \in 1 .. n}
  <1>1. n \in Nat /\ DOMAIN vols = 1 .. n /\ DOMAIN more = 1 .. n + 1
        /\ Len(more) = n + 1 /\ more[n + 1] = DatasetVolume
        /\ \A i \in 1 .. n : more[i] = vols[i]
    OBVIOUS
  <1> HIDE DEF n, more
  <1>2. \A i \in 1 .. n : /\ vols[i].name # DatasetVolume.name
                          /\ vols[i].claim # DatasetVolume.claim
    BY <1>1 DEF IsDatasetVolume
  <1>3. {more[i].name : i \in 1 .. n + 1} = names \cup {DatasetVolume.name}
    BY <1>1
  <1>4. Cardinality(names) = n /\ IsFiniteSet(names)
    <2> DEFINE f == [i \in 1 .. n |-> vols[i].name]
    <2>1. f \in Bijection(1 .. n, names)
      <3>1. f \in [1 .. n -> names] /\ names = {f[i] : i \in 1 .. n}
        OBVIOUS
      <3>2. \A i, j \in 1 .. n : f[i] = f[j] => i = j
        BY <1>1
      <3> HIDE DEF f, names
      <3> QED
        BY <3>1, <3>2 DEF Bijection, Injection, Surjection, IsInjective
    <2>2. IsFiniteSet(1 .. n) /\ Cardinality(1 .. n) = n
      <3>1. 1 \in Int /\ n \in Int
        BY <1>1
      <3>2. IsFiniteSet(1 .. n) /\ Cardinality(1 .. n) = IF 1 > n THEN 0 ELSE n - 1 + 1
        BY <3>1, FS_Interval, ZenonT(60)
      <3> QED
        BY <1>1, <3>2
    <2> HIDE DEF f, names
    <2> QED
      BY <2>1, <2>2, FS_Bijection DEF ExistsBijection
  <1>5. Cardinality(names \cup {DatasetVolume.name}) = n + 1
    <2>1. DatasetVolume.name \notin names
      BY <1>2
    <2> HIDE DEF names
    <2> QED
      BY <1>4, <2>1, FS_AddElement
  <1>6. IsPrefix(vols, more)
    <2>1. SubSeq(vols, 1, n) = [i \in 1 .. n |-> vols[i]]
      BY <1>1 DEF n
    <2>2. SubSeq(more, 1, n) = [i \in 1 .. n |-> more[i]]
      BY <1>1 DEF n, more
    <2>3. SubSeq(vols, 1, n) = SubSeq(more, 1, n)
      BY <1>1, <2>1, <2>2
    <2> QED
      BY <1>1, <2>3 DEF IsPrefix, n
  <1>7. {i \in 1 .. n + 1 : more[i].claim = DatasetVolume.claim} = {n + 1}
    BY <1>1, <1>2
  <1>8. more # vols /\ IsDatasetVolume(more[n + 1])
    BY <1>1 DEF IsDatasetVolume, n
  <1> QED
    BY <1>1, <1>3, <1>5, <1>6, <1>7, <1>8 DEF more, n

\* A pod that was changed is the pod as it was written, with the volume and the mounts.
LEMMA ChangedPod ==
    ASSUME NEW p \in Pods, NEW spec \in Admission(p), spec # Template[p]
    PROVE  /\ NamespaceOf[p] \notin ProtectedNamespaces
           /\ ~\E i \in DOMAIN Template[p].volumes : IsDatasetVolume(Template[p].volumes[i])
           /\ spec.volumes = Append(Template[p].volumes, DatasetVolume)
           /\ \E mount : spec.containers =
                 [c \in DOMAIN Template[p].containers |->
                     Append(Template[p].containers[c], mount)]
  <1> DEFINE old == Template[p]
  <1>1. PICK driver \in Drivers, found \in BOOLEAN :
            spec = Handle(old, NamespaceOf[p], driver, found)
    BY DEF Admission
  <1>2. /\ NamespaceOf[p] \notin ProtectedNamespaces
        /\ ~\E i \in DOMAIN old.volumes : IsDatasetVolume(old.volumes[i])
        /\ spec = mutate(old, driver)
    BY <1>1 DEF Handle, isMutationRequired
  <1>3. old = [volumes |-> old.volumes, containers |-> old.containers]
    BY TemplateAssumption DEF TemplateAssumption
  <1> DEFINE path == IF driver.mountRootPath # "" THEN driver.mountRootPath ELSE DefaultMountPath
             mount == [name |-> DatasetVolume.name, path |-> path]
             more == [c \in DOMAIN old.containers |-> Append(old.containers[c], mount)]
             vols == Append(old.volumes, DatasetVolume)
  <1>4. spec = [old EXCEPT !.volumes = vols, !.containers = more]
    BY <1>2 DEF mutate
  <1> HIDE DEF old, more, vols, mount
  <1>5. spec.volumes = vols /\ spec.containers = more
    BY <1>3, <1>4
  <1> QED
    BY <1>2, <1>5 DEF old, more, vols

\* One more mount at the end of the list of a container.
LEMMA MountAdded ==
    ASSUME NEW S, NEW mounts \in Seq(S), NEW mount
    PROVE  LET more == Append(mounts, mount)
           IN IsPrefix(mounts, more) /\ Len(more) = Len(mounts) + 1
  <1> DEFINE n == Len(mounts)
             more == Append(mounts, mount)
  <1>1. n \in Nat /\ Len(more) = n + 1 /\ \A i \in 1 .. n : more[i] = mounts[i]
    OBVIOUS
  <1>2. SubSeq(mounts, 1, n) = [i \in 1 .. n |-> mounts[i]]
        /\ SubSeq(more, 1, n) = [i \in 1 .. n |-> more[i]]
    OBVIOUS
  <1>3. SubSeq(mounts, 1, n) = SubSeq(more, 1, n)
    BY <1>1, <1>2
  <1> QED
    BY <1>1, <1>3 DEF IsPrefix

\* The webhook changes a pod in one way and once, whatever it finds when it is asked
\* (Handle, mutate and isMutationRequired): for every pod whose volumes have names of
\* their own, every set of drivers and every set of protected namespaces.
THEOREM PodsAreAdmittedOnce == Spec => []AdmittedOnce
  <1>1. TypesInv /\ AdmissionInv => AdmittedOnce
    <2> SUFFICES ASSUME AdmissionInv PROVE AdmittedOnce
      OBVIOUS
    <2> DEFINE Claims(vols) == {i \in DOMAIN vols : vols[i].claim = DatasetVolume.claim}
    <2>0. ASSUME NEW p \in Pods
          PROVE  Cardinality(Claims(Template[p].volumes)) \in Nat
      <3> DEFINE vols == Template[p].volumes
      <3>1. vols \in Seq(ToSet(vols))
        BY TemplateAssumption DEF TemplateAssumption
      <3>2. Len(vols) \in Nat /\ Claims(vols) \subseteq 1 .. Len(vols)
        BY <3>1
      <3>3. IsFiniteSet(1 .. Len(vols))
        BY <3>2, FS_Interval
      <3> HIDE DEF Claims
      <3> QED
        BY <3>2, <3>3, FS_Subset, FS_CardinalityType
    <2>1. ASSUME NEW p \in Pods
          PROVE  LET spec == pods[p].spec  old == Template[p]
                 IN \/ spec = old
                    \/ /\ Claims(old.volumes) = {} /\ Cardinality(Claims(spec.volumes)) = 1
                       /\ NamespaceOf[p] \notin ProtectedNamespaces
                       /\ Cardinality({spec.volumes[i].name : i \in DOMAIN spec.volumes})
                             = Len(old.volumes) + 1
                       /\ IsPrefix(old.volumes, spec.volumes)
                       /\ DOMAIN spec.containers = DOMAIN old.containers
                       /\ \A c \in DOMAIN old.containers :
                             /\ IsPrefix(old.containers[c], spec.containers[c])
                             /\ Len(spec.containers[c]) = Len(old.containers[c]) + 1
                       /\ \A driver \in Drivers, found \in BOOLEAN :
                             Handle(spec, NamespaceOf[p], driver, found) = spec
      <3> DEFINE spec == pods[p].spec
                 old == Template[p]
                 vols == old.volumes
      <3>1. /\ vols \in Seq(ToSet(vols))
            /\ \A i, j \in DOMAIN vols : vols[i].name = vols[j].name => i = j
            /\ \A c \in DOMAIN old.containers :
                  old.containers[c] \in Seq(ToSet(old.containers[c]))
        BY TemplateAssumption DEF TemplateAssumption
      <3>2. CASE spec = old
        BY <3>2
      <3>3. CASE spec # old
        <4>1. spec \in Admission(p)
          BY DEF AdmissionInv
        <4>2. PICK mount :
                /\ NamespaceOf[p] \notin ProtectedNamespaces
                /\ ~\E i \in DOMAIN vols : IsDatasetVolume(vols[i])
                /\ spec.volumes = Append(vols, DatasetVolume)
                /\ spec.containers = [c \in DOMAIN old.containers |->
                                         Append(old.containers[c], mount)]
          <5>1. spec # Template[p]
            BY <3>3
          <5> HIDE DEF spec
          <5>2. /\ NamespaceOf[p] \notin ProtectedNamespaces
                /\ ~\E i \in DOMAIN Template[p].volumes : IsDatasetVolume(Template[p].volumes[i])
                /\ spec.volumes = Append(Template[p].volumes, DatasetVolume)
                /\ \E mount : spec.containers =
                      [c \in DOMAIN Template[p].containers |->
                          Append(Template[p].containers[c], mount)]
            BY <4>1, <5>1, ChangedPod
          <5> QED
            BY <5>2
        <4>3. /\ Cardinality({spec.volumes[i].name : i \in DOMAIN spec.volumes})
                    = Len(vols) + 1
              /\ Claims(spec.volumes) = {Len(vols) + 1}
              /\ IsPrefix(vols, spec.volumes)
              /\ \E i \in DOMAIN spec.volumes : IsDatasetVolume(spec.volumes[i])
          <5> DEFINE more == Append(vols, DatasetVolume)
          <5>1. /\ Cardinality({more[i].name : i \in DOMAIN more}) = Len(vols) + 1
                /\ {i \in DOMAIN more : more[i].claim = DatasetVolume.claim} = {Len(vols) + 1}
                /\ IsPrefix(vols, more)
                /\ \E i \in DOMAIN more : IsDatasetVolume(more[i])
            BY <3>1, <4>2, VolumeAdded
          <5>2. spec.volumes = more
            BY <4>2
          <5> HIDE DEF more, spec, vols
          <5> QED
            BY <5>1, <5>2
        <4>4. Claims(vols) = {}
          BY <4>2 DEF IsDatasetVolume
        <4>5. Cardinality(Claims(spec.volumes)) = 1
          BY <4>3, FS_Singleton
        <4>6. DOMAIN spec.containers = DOMAIN old.containers
              /\ \A c \in DOMAIN old.containers :
                    /\ IsPrefix(old.containers[c], spec.containers[c])
                    /\ Len(spec.containers[c]) = Len(old.containers[c]) + 1
          BY <3>1, <4>2, MountAdded
        <4>7. \A driver, found : Handle(spec, NamespaceOf[p], driver, found) = spec
          BY <4>3 DEF Handle, isMutationRequired
        <4> QED
          BY <4>2, <4>3, <4>4, <4>5, <4>6, <4>7
      <3> QED
        BY <3>2, <3>3
    <2>2. ASSUME NEW p \in Pods
          PROVE  LET spec == pods[p].spec  old == Template[p]
                 IN /\ Cardinality(Claims(spec.volumes)) <= Cardinality(Claims(old.volumes)) + 1
                    /\ Claims(old.volumes) # {} => spec = old
      <3> DEFINE spec == pods[p].spec
                 old == Template[p]
      <3>1. CASE spec = old
        BY <2>0, <3>1
      <3>2. CASE Claims(old.volumes) = {} /\ Cardinality(Claims(spec.volumes)) = 1
        <4>1. Cardinality(Claims(old.volumes)) = 0
          BY <3>2, FS_EmptySet, ZenonT(60)
        <4> HIDE DEF Claims
        <4> QED
          BY <3>2, <4>1
      <3> QED
        BY <2>1, <3>1, <3>2
    <2>3. ASSUME NEW p \in Pods, pods[p].spec # Template[p]
          PROVE  LET spec == pods[p].spec  old == Template[p]
                 IN /\ NamespaceOf[p] \notin ProtectedNamespaces
                    /\ Cardinality({spec.volumes[i].name : i \in DOMAIN spec.volumes})
                          = Len(old.volumes) + 1
                    /\ IsPrefix(old.volumes, spec.volumes)
                    /\ DOMAIN spec.containers = DOMAIN old.containers
                    /\ \A c \in DOMAIN old.containers :
                          /\ IsPrefix(old.containers[c], spec.containers[c])
                          /\ Len(spec.containers[c]) = Len(old.containers[c]) + 1
                    /\ \A driver \in Drivers, found \in BOOLEAN :
                          Handle(spec, NamespaceOf[p], driver, found) = spec
      BY <2>1, <2>3, ZenonT(60)
    <2> QED
      BY <2>2, <2>3, ZenonT(60) DEF AdmittedOnce
  <1> QED
    BY <1>1, TypesInit, AdmissionInit, TypesStep, AdmissionStep, PTL DEF Spec

================================================================================
