--------------------------- MODULE MCDatasetOperator ---------------------------
(* Instances of DatasetOperator for TLC. *)
EXTENDS DatasetOperator, TLC

Rule(labels, expressions) == [labels |-> labels, expressions |-> expressions]
Anywhere == Rule(<<>>, {[key |-> "app", operator |-> "Exists", values |-> {}]})
Nowhere == Rule(<<>>, {[key |-> "app", operator |-> "In", values |-> {}]})
Unknown == Rule(<<>>, {[key |-> "app", operator |-> "Gt", values |-> {"1"}]})

\* No selectors, and terms that are not all valid.
MCSpecs == {[bucket |-> "b1", selectors |-> <<>>],
            [bucket |-> "b2", selectors |-> <<Anywhere, Unknown>>]}
MCAlphabet == <<"CleanUpStatus", "Install">>
================================================================================
