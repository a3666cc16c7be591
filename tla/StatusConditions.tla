--------------------------- MODULE StatusConditions ----------------------------
(***************************************************************************)
(* The list of conditions in the status of a resource: at most one of each *)
(* type, with the time at which its status last changed.                   *)
(***************************************************************************)
EXTENDS Naturals, Sequences, FiniteSets, SequencesExt

CONSTANTS
    Alphabet,    \* the types of conditions, in alphabetical order
    Nil          \* no condition

\* A condition is [type, status, reason, time]; the message goes with the reason.
Condition(type, status, reason) == [type |-> type, status |-> status, reason |-> reason, time |-> 0]

\* Where the first condition of the type is, or 0.
Position(conds, t) ==
    IF \E i \in DOMAIN conds : conds[i].type = t
    THEN CHOOSE i \in DOMAIN conds :
             conds[i].type = t /\ \A j \in DOMAIN conds : conds[j].type = t => i <= j
    ELSE 0

GetCondition(conds, t) ==
    IF Position(conds, t) = 0 THEN Nil ELSE conds[Position(conds, t)]

\* IsTrueFor, IsFalseFor and IsUnknownFor: without a condition it is unknown.
IsFor(conds, t, status) ==
    LET c == GetCondition(conds, t) IN IF c = Nil THEN status = "Unknown" ELSE c.status = status

\* Mutant: every write is a transition.
SetConditionNow(conds, new, now) ==
    LET i == Position(conds, new.type)
        timed == [new EXCEPT !.time = now]
    IN IF i = 0 THEN Append(conds, timed) ELSE [conds EXCEPT ![i] = timed]

\* Mutant: the old condition stays where it is.
SetConditionTwice(conds, new, now) == Append(conds, [new EXCEPT !.time = now])

\* A condition whose status stays keeps its time.
SetCondition(conds, new, now) ==
    LET i == Position(conds, new.type)
        since(t) == [new EXCEPT !.time = t]
    IN IF i = 0 THEN Append(conds, since(now))
       ELSE [conds EXCEPT ![i] =
                since(IF @.status = new.status THEN @.time ELSE now)]

\* What SetCondition answers; the callers do not ask.
IsNewOrChanged(conds, new) ==
    LET old == GetCondition(conds, new.type)
    IN old = Nil \/ old.status # new.status \/ old.reason # new.reason

RemoveCondition(conds, t) ==
    IF Position(conds, t) = 0 THEN conds ELSE RemoveAt(conds, Position(conds, t))

NewConditions(conds, now) ==
    LET set[n \in 0 .. Len(conds)] ==
            IF n = 0 THEN <<>> ELSE SetCondition(set[n - 1], conds[n], now)
    IN set[Len(conds)]

\* Marshalling sorts the list in place, so the stored list is in order.
Rank(t) == CHOOSE i \in DOMAIN Alphabet : Alphabet[i] = t
Arranged(conds, order) == [i \in DOMAIN conds |-> conds[order[i]]]
InOrder(conds) ==
    \A i, j \in DOMAIN conds : i < j => Rank(conds[i].type) <= Rank(conds[j].type)
MarshalJSON(conds) ==
    Arranged(conds, CHOOSE order \in Bijection(DOMAIN conds, DOMAIN conds) :
                        InOrder(Arranged(conds, order)))

--------------------------------------------------------------------------------
(* What a list of conditions is good for *)

Sample == [type : ToSet(Alphabet), status : {"True", "False", "Unknown"},
           reason : {"one", "other"}, time : {0}]

\* The list is a map from types to conditions, in whatever order it is: setting a
\* condition and storing the list leaves every other type alone, makes no second
\* entry, and moves the time exactly when the status of the type has changed;
\* removing the condition takes away that one and no other.
IsAMap(conds) ==
    \A new \in Sample :
        LET after == MarshalJSON(SetCondition(conds, new, 2))
            removed == RemoveCondition(after, new.type)
            got == GetCondition(after, new.type)
            others == ToSet(Alphabet) \ {new.type}
        IN /\ \A t \in others : /\ GetCondition(after, t) = GetCondition(conds, t)
                                /\ GetCondition(removed, t) = GetCondition(conds, t)
           /\ Len(after) = Cardinality({c.type : c \in ToSet(conds) \cup {new}})
           /\ [got EXCEPT !.time = new.time] = new
           /\ got.time # 2 <=> \E c \in ToSet(conds) : c.type = new.type /\ c.status = new.status
           /\ got # GetCondition(conds, new.type) => got.time # 2 \/ IsNewOrChanged(conds, new)
           /\ IsFor(after, new.type, new.status) /\ IsFor(removed, new.type, "Unknown")
           /\ ToSet(NewConditions(conds, 0)) = {[c EXCEPT !.time = 0] : c \in ToSet(conds)}

================================================================================
