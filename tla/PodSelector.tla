------------------------------ MODULE PodSelector ------------------------------
(***************************************************************************)
(* The pod selectors of a dataset: what the operator accepts as valid and  *)
(* which pods the driver gives the dataset to.  The two are written apart, *)
(* in two programs, and both build their requirements with one library.    *)
(***************************************************************************)
EXTENDS Naturals, Sequences, SequencesExt

CONSTANTS
    Malformed     \* the keys and values that break the syntax of labels

\* A term holds a map of labels and a set of expressions.  All that is done with
\* its expressions is a conjunction, so their order is left out.
Known == {"In", "NotIn", "Exists", "DoesNotExist"}
EmptyTerm(term) == DOMAIN term.labels = {} /\ term.expressions = {}

--------------------------------------------------------------------------------
(* k8s.io/apimachinery/pkg/labels *)

\* NewRequirement returns no error.
WellFormed(r) ==
    /\ r.operator \in Known
    /\ r.key \notin Malformed
    /\ r.operator \in {"In", "NotIn"} <=> r.values # {}
    /\ r.values \cap Malformed = {}

\* Requirement.Matches
Holds(lbls, r) ==
    \/ r.operator = "In" /\ r.key \in DOMAIN lbls /\ lbls[r.key] \in r.values
    \/ r.operator = "NotIn" /\ (r.key \in DOMAIN lbls => lbls[r.key] \notin r.values)
    \/ r.operator = "Exists" /\ r.key \in DOMAIN lbls
    \/ r.operator = "DoesNotExist" /\ r.key \notin DOMAIN lbls

--------------------------------------------------------------------------------
(* The operator *)

\* Mutant: an operator that is not known passes.
ValidateKnownTerms(terms) ==
    \A i \in DOMAIN terms : \A r \in terms[i].expressions : r.operator \in Known => WellFormed(r)

\* ValidateTerms returns no error.  It does not look at matchLabels.
ValidateTerms(terms) == \A i \in DOMAIN terms : \A r \in terms[i].expressions : WellFormed(r)

--------------------------------------------------------------------------------
(* The driver *)

\* The two fields take the place of labels with their names.
GetPodLabels(pod) ==
    [k \in DOMAIN pod.labels \cup {"metadata.name", "metadata.generateName"} |->
        CASE k = "metadata.name" -> pod.name
          [] k = "metadata.generateName" -> pod.generateName
          [] OTHER -> pod.labels[k]]

\* What "matches" makes of a term: each label of matchLabels becomes an In.
Requirements(term) ==
    {[key |-> k, operator |-> "In", values |-> {term.labels[k]}] : k \in DOMAIN term.labels}
        \cup term.expressions

matches(lbls, term) ==
    LET errs == {r \in Requirements(term) : ~WellFormed(r)}
    IN [match |-> errs = {} /\ \A r \in Requirements(term) : Holds(lbls, r), errs |-> errs]

Answer(match, errs) == [match |-> match, errs |-> errs]

\* Mutant: a term with an error ends the search.
ConsiderTillError(lbls, found, term) ==
    LET m == matches(lbls, term)
    IN IF found.match \/ found.errs # {} \/ EmptyTerm(term) THEN found
       ELSE IF m.errs # {} THEN Answer(FALSE, m.errs)
       ELSE IF m.match THEN Answer(TRUE, {}) ELSE found

\* One round of the loop of PodMatches; a match has ended it.
Consider(lbls, found, term) ==
    LET m == matches(lbls, term)
    IN IF found.match \/ EmptyTerm(term) THEN found
       ELSE IF m.errs # {} THEN Answer(FALSE, found.errs \cup m.errs)
       ELSE IF m.match THEN Answer(TRUE, {}) ELSE found

PodMatches(lbls, terms) ==
    LET after[i \in 0 .. Len(terms)] ==
            IF i = 0 THEN Answer(terms = <<>>, {}) ELSE Consider(lbls, after[i - 1], terms[i])
    IN after[Len(terms)]

================================================================================
