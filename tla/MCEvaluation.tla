---------------------------- MODULE MCEvaluation ----------------------------
(* Values for checking Evaluation: two contents that differ in the fact they *)
(* expect, one of them with a context turn, and four observations: right for *)
(* the first, right but not recorded, by another tool, and not an object.    *)
EXTENDS Evaluation

Content(context, value) ==
    [context |-> context, tools |-> <<"find">>, expected |-> [n \in {"best"} |-> value],
     paths |-> [n \in {"best"} |-> "metric"], fixture |-> "f"]

Case(id, version, content) == [id |-> id, version |-> version, content |-> content]

FourScenarios ==
    {Case(1, 1, Content(0, 1)), Case(1, 1, Content(1, 2)),
     Case(1, 2, Content(1, 2)), Case(2, 1, Content(0, 1))}

Seen(tool, object, facts) ==
    [calls |-> <<[tool |-> tool, object |-> object]>>, facts |-> facts]

FourObservations ==
    {Seen("find", [p \in {"metric"} |-> 1], [n \in {"best"} |-> 1]),
     Seen("find", [p \in {"metric"} |-> 2], [n \in {"best"} |-> 2]),
     Seen("find", <<>>, [n \in {"best"} |-> 1]),
     Seen("other", None, None)}

NoneOrOne == {<<>>, [k \in {<<1, 1>>} |-> Content(0, 1)]}
=============================================================================
