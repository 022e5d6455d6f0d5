----------------------- MODULE MCExperimentDirectory ------------------------
(* Values for checking ExperimentDirectory: two names that may be anything   *)
(* one replacement leads to, and histories that tie, differ, hold NaN, lack  *)
(* a metric or do not parse.                                                 *)
EXTENDS ExperimentDirectory

Both(records) == [m \in {"r2", "racc"} |-> records]
Auc(records)  == [m \in {"r2", "racc", "auc"} |-> records]

Node(dir, config, history, content) ==
    [dir |-> dir, config |-> config, history |-> history, content |-> content]
Plain(content) == Node("plain", "plain", "plain", content)

SomeNodes ==
    {Plain(Auc(<<<<1, 1>>, <<2, 0>>>>)), Plain(Auc(<<<<1, 0>>, <<2, 1>>>>)),
     Plain(Both(<<<<1, 0>>, <<2, NaN>>>>)), Plain(None),
     Node("link_in", "plain", "link_in", Auc(<<<<1, NaN>>>>)),
     Node("plain", "absent", "link_out", None),
     Node("link_out", "plain", "plain", Auc(<<<<1, 2>>>>))}

Call(tool, scoped, specs, descending, diagnose) ==
    [tool |-> tool, scoped |-> scoped, specs |-> specs, sortBy |-> None,
     descending |-> descending, diagnose |-> diagnose]
AucSpecs == [m \in {"auc"} |-> "minimize"]

SomeCalls ==
    {Call("analyze", TRUE, None, TRUE, TRUE), Call("analyze", FALSE, AucSpecs, TRUE, FALSE),
     Call("report", FALSE, None, TRUE, FALSE),
     Call("compare", TRUE, None, TRUE, TRUE), Call("compare", TRUE, AucSpecs, FALSE, FALSE),
     Call("compare", FALSE, None, FALSE, FALSE),
     [Call("compare", FALSE, AucSpecs, TRUE, FALSE) EXCEPT !.sortBy = "r2"],
     Call("pipeline", FALSE, None, TRUE, FALSE), Call("pipeline", FALSE, AucSpecs, TRUE, TRUE)}

\* All histories of up to four records of three values and two epochs.
ShortHistories == UNION {[1..n -> {1, 2} \X {0, 1, 2}] : n \in 1..3}
                  \cup {[i \in 1..4 |-> <<i, v[i]>>] : v \in [1..4 -> {0, 1, 2}]}
=============================================================================
