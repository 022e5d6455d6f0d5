---------------------------- MODULE Diagnostics -----------------------------
(***************************************************************************)
(* The pure part of the analysis of experiment directories: metrics.py,     *)
(* diagnostics.py and the ranking of compare_experiments.py.                *)
(*                                                                         *)
(* A history is a sequence of records <<epoch, value>>; a value is a number *)
(* or NaN, which a JSON file may hold and which compares with nothing.      *)
(***************************************************************************)
EXTENDS Integers, Sequences, FiniteSets, SequencesExt

CONSTANT NaN

ASSUME NaNAssumption == NaN \notin Int

\* What is taken for a history (evaluate_metric_history): records, at least one.
Histories(values) == Seq(Int \X values) \ {<<>>}

Above(x, y) == NaN \notin {x, y} /\ x > y
Better(direction, x, y) == IF direction = "maximize" THEN Above(x, y) ELSE Above(y, x)

\* Mutant of BestIndex: an equal value replaces the best one.
BestIndexLate(records, direction) ==
    LET best[n \in DOMAIN records] ==
            IF n > 1 /\ Better(direction, records[best[n - 1]][2], records[n][2])
            THEN best[n - 1] ELSE n
    IN  best[Len(records)]

\* evaluate_metric_history, and analyze_validation_metric for "maximize": the
\* best record so far stands until a record is strictly better.
BestIndex(records, direction) ==
    LET best[n \in DOMAIN records] ==
            IF n = 1 \/ Better(direction, records[n][2], records[best[n - 1]][2])
            THEN n ELSE best[n - 1]
    IN  best[Len(records)]

BestValue(records, direction) == records[BestIndex(records, direction)][2]

----------------------------------------------------------------------------
(* The facts of one history, none of whose values is NaN *)

\* Mutant of Change: a change of a minimized metric counts as it stands.
ChangeAsIs(direction, earlier, later) == later - earlier

\* _normalized_change: positive is better.
Change(direction, earlier, later) ==
    IF direction = "maximize" THEN later - earlier ELSE earlier - later

Trend(transitions, improving, degrading, flat) ==
    IF transitions = 0 THEN "insufficient_data"
    ELSE IF flat = transitions THEN "flat"
    ELSE IF 2 * improving > transitions THEN "improving"
    ELSE IF 2 * degrading > transitions THEN "degrading"
    ELSE "mixed"

\* build_metric_facts.  The best record is looked up again by its epoch and value.
MetricFacts(records, direction, window) ==
    LET n       == Len(records)
        best    == records[BestIndex(records, direction)]
        index   == CHOOSE i \in 1..n : records[i] = best /\ \A j \in 1..(i - 1) : records[j] # best
        size    == IF window < n THEN window ELSE n
        step(i) == Change(direction, records[i - 1][2], records[i][2])
        recent  == (n - size + 2)..n
        count(S) == Cardinality(S)
        improving == count({i \in recent : step(i) > 0})
        degrading == count({i \in recent : step(i) < 0})
        flat      == count({i \in recent : step(i) = 0})
    IN  [count       |-> n,
         best        |-> index,
         duplicates  |-> {records[i][1] : i \in {j \in 1..n :
                              \E k \in 1..(j - 1) : records[k][1] = records[j][1]}},
         decreasing  |-> {i \in 2..n : records[i][1] < records[i - 1][1]},
         improvement |-> Change(direction, records[1][2], best[2]),
         regression  |-> -Change(direction, best[2], records[n][2]),
         steps       |-> <<improving, degrading, flat>>,
         net         |-> Change(direction, records[n - size + 1][2], records[n][2]),
         trend       |-> Trend(size - 1, improving, degrading, flat)]

TrendCode == [improving |-> "recent_improvement", degrading |-> "recent_degradation",
              flat |-> "recent_flat", mixed |-> "recent_mixed",
              insufficient_data |-> "insufficient_history_for_trend"]

\* build_metric_diagnostics.
MetricCodes(f) ==
    LET holds == [duplicate_epochs     |-> f.duplicates # {},
                  non_monotonic_epochs |-> f.decreasing # {},
                  best_at_first_record |-> f.count > 1 /\ f.best = 1,
                  best_at_last_record  |-> f.count > 1 /\ f.best = f.count,
                  no_improvement       |-> f.count > 1 /\ f.improvement = 0,
                  post_best_regression |-> f.regression > 0]
    IN  {code \in DOMAIN holds : holds[code]} \cup {TrendCode[f.trend]}

----------------------------------------------------------------------------
(* Several experiments: records [experiment, value], in the order analysed *)

\* Mutant of Rank: the ascending order read backwards, equal values with it.
RankReversed(records, descending) ==
    LET before(i, j) == \/ Above(records[j].value, records[i].value)
                        \/ records[i].value = records[j].value /\ i < j
        n       == Len(records)
        rank(i) == Cardinality({j \in 1..n : before(j, i)}) + 1
        place(i) == IF descending THEN n + 1 - rank(i) ELSE rank(i)
    IN  [p \in 1..n |-> records[CHOOSE i \in 1..n : place(i) = p]]

\* rank_comparison_records: sorted either way, equal values in their order.
Rank(records, descending) ==
    LET ahead(x, y)  == IF descending THEN Above(x, y) ELSE Above(y, x)
        before(i, j) == \/ ahead(records[i].value, records[j].value)
                        \/ records[i].value = records[j].value /\ i < j
        rank(i) == Cardinality({j \in DOMAIN records : before(j, i)}) + 1
    IN  [p \in DOMAIN records |-> records[CHOOSE i \in DOMAIN records : rank(i) = p]]

\* build_comparison_facts, of ranked records and the number of failures; an
\* absent gap is no gap.
ComparisonFacts(ranked, failed, descending) ==
    LET n == Len(ranked)
        gap(i) == IF i > n THEN {}
                  ELSE IF descending THEN {ranked[1].value - ranked[i].value}
                  ELSE {ranked[i].value - ranked[1].value}
    IN  [successful |-> n, failed |-> failed, total |-> n + failed,
         tied       |-> {ranked[i].experiment : i \in {j \in 1..n :
                             ranked[j].value = ranked[1].value}},
         second_gap |-> gap(2), worst_gap |-> IF n = 0 THEN {} ELSE gap(n)]

\* build_comparison_diagnostics.
ComparisonCodes(f) ==
    LET holds == [no_successful_experiments    |-> f.successful = 0,
                  failed_experiments_present   |-> f.failed > 0,
                  single_successful_experiment |-> f.successful = 1,
                  tied_best_experiments        |-> Cardinality(f.tied) > 1]
    IN  {code \in DOMAIN holds : holds[code]}

----------------------------------------------------------------------------
(* Recommendations *)

\* _RECOMMENDATION_RULES.
Rules ==
    [repair_metric_history       |-> {"duplicate_epochs", "non_monotonic_epochs"},
     verify_training_progress    |-> {"best_at_first_record", "no_improvement"},
     consider_extended_training  |-> {"best_at_last_record", "recent_improvement"},
     restore_best_checkpoint     |-> {"post_best_regression", "recent_degradation"},
     collect_more_history        |-> {"insufficient_history_for_trend"},
     review_optimization_plateau |-> {"recent_flat"},
     avoid_trend_conclusion      |-> {"recent_mixed"},
     resolve_analysis_failures   |-> {"no_successful_experiments", "failed_experiments_present"},
     add_comparison_experiments  |-> {"single_successful_experiment"},
     apply_secondary_tie_breaker |-> {"tied_best_experiments"}]

\* build_recommendations: each rule once, with the codes that triggered it.
Recommendations(codes) ==
    LET triggered == {r \in DOMAIN Rules : Rules[r] \cap codes # {}}
    IN  [r \in triggered |-> Rules[r] \cap codes]

----------------------------------------------------------------------------
(* What must hold of them, for given histories and lists of records *)

Negated(records) == [i \in DOMAIN records |-> <<records[i][1], -records[i][2]>>]
Other(direction) == IF direction = "maximize" THEN "minimize" ELSE "maximize"

\* The findings about one history do not contradict each other: the best record
\* is the first of the best ones, nothing improves or regresses by less than
\* nothing, the codes that compare it with both ends follow from where it
\* stands, and minimizing a metric is maximizing its negative.
FindingsAgree(records, direction, window) ==
    LET f == MetricFacts(records, direction, window)
        codes == MetricCodes(f)
        beaten(i) == \E j \in DOMAIN records : Better(direction, records[j][2], records[i][2])
    IN  /\ f = MetricFacts(Negated(records), Other(direction), window)
        /\ ~beaten(f.best) /\ \A i \in 1..(f.best - 1) : beaten(i)
        /\ f.best = BestIndex(records, direction)
        /\ f.improvement >= 0 /\ f.regression >= 0
        /\ "no_improvement" \in codes <=> "best_at_first_record" \in codes
        /\ {"best_at_last_record", "post_best_regression"} \cap codes # {} <=> Len(records) > 1 /\
               (f.best = Len(records) \/ beaten(Len(records)))
        /\ ~({"best_at_last_record", "post_best_regression"} \subseteq codes)
        /\ "insufficient_history_for_trend" \in codes <=> Len(records) = 1
        /\ "recent_improvement" \in codes /\ "recent_flat" \notin codes
               => f.steps[1] > f.steps[2]
        /\ UNION {Recommendations(codes)[r] : r \in DOMAIN Recommendations(codes)} = codes

\* A ranking is the records themselves, the best first and the worst last, equal
\* ones as they were; ranking the other way round turns over the values alone.
RankedWell(records, descending) ==
    LET ranked == Rank(records, descending)
        facts  == ComparisonFacts(ranked, 0, descending)
        place(r) == CHOOSE i \in DOMAIN records : records[i] = r
        n      == Len(records)
    IN  /\ Range(ranked) = Range(records) /\ Len(ranked) = n
        /\ \A i, j \in 1..n : i < j =>
             /\ ~(IF descending THEN Above(ranked[j].value, ranked[i].value)
                                ELSE Above(ranked[i].value, ranked[j].value))
             /\ ranked[i].value = ranked[j].value => place(ranked[i]) < place(ranked[j])
        /\ \A gap \in facts.second_gap, worst \in facts.worst_gap : 0 <= gap /\ gap <= worst
        /\ n > 1 => (Cardinality(facts.tied) > 1 <=> facts.second_gap = {0})
        /\ [i \in 1..n |-> Rank(records, ~descending)[n + 1 - i].value]
               = [i \in 1..n |-> ranked[i].value]
=============================================================================
