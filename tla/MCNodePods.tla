------------------------------ MODULE MCNodePods -------------------------------
(* Instances of NodePods for TLC. *)
EXTENDS NodePods, TLC

CONSTANTS p1, p2, p3, d1, d2, d3

\* The second pod may take the name of the first; the third is in another namespace.
MCNameOf == (p1 :> "web" @@ p2 :> "web" @@ p3 :> "job")
MCNamespaceOf == (p1 :> "n1" @@ p2 :> "n1" @@ p3 :> "n2")
Web == [name |-> "web", generateName |-> "", labels |-> ("app" :> "web")]
Job == [name |-> "job", generateName |-> "job-", labels |-> ("app" :> "job" @@ "odd-" :> "x")]
MCLabelled == (p1 :> Web @@ p2 :> Web @@ p3 :> Job)
MCMalformed == {"odd-", "job-"}

Bare == [volumes |-> <<>>, containers |-> <<<<>>, <<[name |-> "own", path |-> "/own"]>>>>]
Claiming == [volumes |-> <<[name |-> "own", claim |-> "csi-rhm-cos-pvc"]>>, containers |-> <<<<>>>>]
MCTemplate == (p1 :> Bare @@ p2 :> Claiming @@ p3 :> Bare)
MCDrivers == {[mountRootPath |-> ""]}

Requirement(key, operator, values) == [key |-> key, operator |-> operator, values |-> values]
Term(labels, expressions) == [labels |-> labels, expressions |-> expressions]
Web1 == Term("app" :> "web", {})
ByName == Term(<<>>, {Requirement("metadata.name", "In", {"job", "web"})})
ByGenerateName == Term(<<>>, {Requirement("metadata.generateName", "In", {"job-"})})
Undefined == Term(<<>>, {Requirement("app", "Gt", {"1"})})
OddLabel == Term("odd-" :> "x", {})
Blank == Term(<<>>, {})

MCHome == (d1 :> "n1" @@ d2 :> "n2" @@ d3 :> "n2")
MCRules == (d1 :> <<Web1>> @@ d2 :> <<ByName>> @@ d3 :> <<>>)

\* A dataset for the pods that were made from one generateName.
MCRulesByGenerateName == (d3 :> <<ByGenerateName>>)

\* All lists of up to two of the terms.
Terms == {Web1, ByName, ByGenerateName, Undefined, OddLabel, Blank,
          Term("app" :> "job", {Requirement("odd", "DoesNotExist", {})}),
          Term(<<>>, {Requirement("app", "NotIn", {"web"}), Requirement("app", "Exists", {})})}
MCSamples == {<<>>} \cup {<<t>> : t \in Terms} \cup {<<t, u>> : t, u \in Terms}

\* A long key, a short one, and a secret with an empty value.
Long == [type |-> "rhm-pull-secret-hmac",
         secret |-> [PULL_SECRET |-> [access_key_id |-> <<"a">>, secret_access_key |-> <<"b">>]]]
Short == [type |-> "rhm-pull-secret",
          secret |-> [PULL_SECRET |-> [iam_apikey |-> <<"c">>, access_key_id |-> Unreadable]]]
Empty == [type |-> "hmac", secret |-> [AccessKeyID |-> <<"d">>, SecretAccessKey |-> <<>>]]
MCSettings == {Long, Short, Empty}
================================================================================
