------------------------ MODULE ExperimentDirectory -------------------------
(***************************************************************************)
(* What reads experiment directories: analyze_experiment and                *)
(* compare_experiments of tool_layer/experiment_tools.py, on the path of an *)
(* adapter with a path policy (scoped) or called by a host, the report of   *)
(* generate_report.py and the pipeline of compare_experiments.py, which     *)
(* write what they found to two files.  experiment_path_access.py checks    *)
(* names before they are read, and the host may replace them between any    *)
(* two steps.                                                               *)
(*                                                                         *)
(* A name is a plain object of the wanted type, a link to one inside the    *)
(* authority, a link to one outside, unsafe (a broken link, a link to an    *)
(* object of another type, a special file), or absent (missing, or an       *)
(* ordinary object of the other type).                                      *)
(***************************************************************************)
EXTENDS Diagnostics

CONSTANTS
    Experiments,   \* the names below the root, numbers in their sorted order
    FirstNodes,    \* what a name may be when the call begins
    Calls,         \* [tool, scoped, specs, sortBy, descending, diagnose]
    Window,        \* diagnostic_recent_window
    Samples,       \* histories to diagnose
    MaxChanges,    \* bound: what the host replaces during the call
    None

Single == {"analyze", "report"}
Writers == {"report", "pipeline"}
Kinds == {"plain", "link_in", "link_out", "unsafe", "absent"}
Files == {"config", "history"}

ASSUME DirectoryAssumption ==
    /\ Experiments \subseteq Nat /\ IsFiniteSet(Experiments)
    /\ Window \in Nat /\ Window >= 2 /\ MaxChanges \in Nat
    /\ Samples \subseteq Histories(Int)
    /\ \A node \in FirstNodes :
         /\ node = [dir |-> node.dir, config |-> node.config,
                    history |-> node.history, content |-> node.content]
         /\ node.content # None => \A m \in DOMAIN node.content :
              node.content[m] \in Histories(Int \cup {NaN})
    /\ \A c \in Calls : /\ c.tool \in {"analyze", "compare", "report", "pipeline"}
                        /\ c.descending \in BOOLEAN
                        /\ c.scoped => c.tool \in {"analyze", "compare"}

VARIABLES
    call,     \* what was called
    tree,     \* [experiment -> [dir, config, history, content]]
    touched,  \* history: the experiments replaced since the call began
    changes,  \* how often
    phase,    \* "scan", "read", "build", "write" or "over"
    todo,     \* the experiments yet to be scanned, then those yet to be read
    at,       \* the step within the current experiment
    current,  \* the current experiment, None between two
    held,     \* what the last check saw, until the file is opened
    found,    \* scan: whether the configuration was there; then what was found
    good,     \* successful_experiments: [experiment -> content read]
    bad,      \* failed_experiments
    reads,    \* history: the files opened, where they were, and if replaced
    files,    \* the two files a report or a pipeline writes
    answer    \* None while the call is under way

vars == <<call, tree, touched, changes, phase, todo, at, current, held, found,
          good, bad, reads, files, answer>>
world == <<tree, touched, changes>>

Init ==
    /\ call \in Calls
    /\ tree \in [Experiments -> FirstNodes]
    /\ touched = {} /\ changes = 0
    /\ phase = "scan" /\ todo = Experiments /\ at = "dir" /\ current = None
    /\ held = None /\ found = {} /\ good = <<>> /\ bad = {} /\ reads = {}
    /\ files = [json |-> "old", markdown |-> "old"] /\ answer = None

----------------------------------------------------------------------------
(* The host *)

Replace ==
    /\ answer = None /\ changes < MaxChanges /\ changes' = changes + 1
    /\ \E e \in Experiments, name \in Files \cup {"dir"}, k \in Kinds :
         /\ tree[e][name] # k
         /\ tree' = [tree EXCEPT ![e][name] = k]
         /\ touched' = touched \cup {e}
    /\ UNCHANGED <<call, phase, todo, at, current, held, found, good, bad, reads, files, answer>>

----------------------------------------------------------------------------
(* The checks of experiment_path_access.py, and what they guard *)

Authorized(kind) == kind \in {"plain", "link_in"}
Followed(kind)   == kind \in {"plain", "link_in", "link_out"}

\* _inspect, before a read: the name must lead to an object of the wanted type
\* inside the authority, now.
DirAuthorized(e)     == Authorized(tree[e].dir)
FileAuthorized(e, f) == DirAuthorized(e) /\ Authorized(tree[e][f])

\* _inspect, during the scan: what is absent is left out, and what is unsafe
\* refuses the call.
DirSeen(e) ==
    IF call.scoped THEN (IF DirAuthorized(e) THEN "yes"
                         ELSE IF tree[e].dir = "absent" THEN "no" ELSE "refused")
    ELSE IF Followed(tree[e].dir) THEN "yes" ELSE "no"
FileSeen(e, f) ==
    IF call.scoped THEN (IF FileAuthorized(e, f) THEN "yes"
                         ELSE IF DirAuthorized(e) /\ tree[e][f] = "absent" THEN "no"
                         ELSE "refused")
    ELSE IF Followed(tree[e].dir) /\ Followed(tree[e][f]) THEN "yes" ELSE "no"

\* Where an open ends up: what was checked was resolved, so that a link that was
\* followed is not followed again.  It leads to a place that has no name here and
\* stays as it is; but below a directory still linked the file may be replaced.
\* Without a check the name is followed as it stands.
Opened(e, f) ==
    LET led  == call.scoped /\ "link_in" \in {held.dir, held.file}
        dir  == IF led THEN "plain" ELSE tree[e].dir
        file == IF led /\ (held.file = "link_in" \/ tree[e].dir # "link_in")
                THEN "plain" ELSE tree[e][f]
    IN  IF ~Followed(dir) \/ ~Followed(file) THEN "nowhere"
        ELSE IF "link_out" \in {dir, file} THEN "outside" ELSE "inside"

Seen(e, f) == [dir |-> tree[e].dir, file |-> tree[e][f]]

Finished(kind) ==
    /\ answer' = [kind |-> kind] /\ phase' = "over"
    /\ UNCHANGED <<todo, at, current, held, found, good, bad, reads, files>>

----------------------------------------------------------------------------
(* find_experiment_dirs, in the order the directory lists its names *)

Scanned ==
    /\ current' = None /\ at' = "dir" /\ todo' = todo \ {current}

ScanDir ==
    /\ phase = "scan" /\ call.tool \notin Single /\ at = "dir"
    /\ \E e \in todo :
         IF DirSeen(e) = "refused" THEN Finished("violation")
         ELSE /\ IF DirSeen(e) = "yes"
                 THEN current' = e /\ at' = "config" /\ UNCHANGED todo
                 ELSE todo' = todo \ {e} /\ UNCHANGED <<current, at>>
              /\ UNCHANGED <<phase, held, found, good, bad, reads, files, answer>>
    /\ UNCHANGED <<call, world>>

ScanConfig ==
    /\ phase = "scan" /\ at = "config"
    /\ LET seen == FileSeen(current, "config")
       IN  IF seen = "refused" THEN Finished("violation")
           ELSE /\ IF seen = "no" /\ ~call.scoped
                   THEN Scanned /\ UNCHANGED held
                   ELSE at' = "history" /\ held' = seen /\ UNCHANGED <<todo, current>>
                /\ UNCHANGED <<phase, found, good, bad, reads, files, answer>>
    /\ UNCHANGED <<call, world>>

\* Mutant of ScanHistory: the history is not looked at without a configuration.
ScanHistoryLazily ==
    /\ phase = "scan" /\ at = "history"
    /\ LET seen == IF held = "no" THEN "no" ELSE FileSeen(current, "history")
       IN  IF seen = "refused" THEN Finished("violation")
           ELSE /\ Scanned /\ held' = None
                /\ found' = found \cup {e \in {current} : held = "yes" /\ seen = "yes"}
                /\ UNCHANGED <<phase, good, bad, reads, files, answer>>
    /\ UNCHANGED <<call, world>>

\* _has_experiment_files: within the scope both files are looked at.
ScanHistory ==
    /\ phase = "scan" /\ at = "history"
    /\ LET seen == FileSeen(current, "history")
       IN  IF seen = "refused" THEN Finished("violation")
           ELSE /\ Scanned /\ held' = None
                /\ found' = found \cup {e \in {current} : held = "yes" /\ seen = "yes"}
                /\ UNCHANGED <<phase, good, bad, reads, files, answer>>
    /\ UNCHANGED <<call, world>>

EndScan ==
    /\ phase = "scan" /\ call.tool \notin Single /\ todo = {} /\ at = "dir"
    /\ phase' = "read" /\ todo' = found
    /\ UNCHANGED <<call, world, at, current, held, found, good, bad, reads, files, answer>>

\* resolve_experiment_paths: one experiment that is analysed or reported must
\* have both files, whatever they are; no scope is asked.
Resolve ==
    /\ phase = "scan" /\ call.tool \in Single
    /\ \E e \in Experiments :
         IF \A k \in {tree[e].dir, tree[e].config, tree[e].history} : Followed(k)
         THEN /\ phase' = "read" /\ at' = "config" /\ current' = e
              /\ todo' = {e} /\ found' = {e}
              /\ UNCHANGED <<held, good, bad, reads, files, answer>>
         ELSE Finished("error")
    /\ UNCHANGED <<call, world>>

----------------------------------------------------------------------------
(* analyze_experiment_dirs and build_experiment_summary, in sorted order *)

First(S) == CHOOSE e \in S : \A d \in S : e <= d

AuthorizeDir ==
    /\ phase = "read" /\ at = "dir" /\ todo # {}
    /\ IF call.scoped /\ ~DirAuthorized(First(todo)) THEN Finished("violation")
       ELSE /\ current' = First(todo) /\ at' = "config"
            /\ UNCHANGED <<phase, todo, held, found, good, bad, reads, files, answer>>
    /\ UNCHANGED <<call, world>>

\* Mutant of CheckFile: what the scan allowed is not checked again.
CheckFileOnce ==
    /\ phase = "read" /\ at \in Files /\ held = None
    /\ held' = Seen(current, at)
    /\ UNCHANGED <<phase, todo, at, current, found, good, bad, reads, files, answer>>
    /\ UNCHANGED <<call, world>>

CheckFile ==
    /\ phase = "read" /\ at \in Files /\ held = None
    /\ IF call.scoped /\ ~FileAuthorized(current, at) THEN Finished("violation")
       ELSE /\ held' = Seen(current, at)
            /\ UNCHANGED <<phase, todo, at, current, found, good, bad, reads, files, answer>>
    /\ UNCHANGED <<call, world>>

\* The metrics an analysis needs; each must have a history, and none may hold
\* NaN that its diagnosis meets.
Wanted == IF call.specs = None THEN {"r2", "racc"} ELSE DOMAIN call.specs
Direction(m) == IF call.specs = None THEN "maximize" ELSE call.specs[m]
Numeric(records) == \A i \in DOMAIN records : records[i][2] # NaN

Summarized(content) ==
    /\ content # None
    /\ \A m \in Wanted :
         /\ m \in DOMAIN content
         /\ call.tool \in Single /\ call.diagnose => Numeric(content[m])

Read(e, f, where) ==
    reads' = reads \cup {[experiment |-> e, file |-> f, where |-> where,
                          replaced |-> held # Seen(e, f)]}

\* Mutant of FailExperiment: a failure ends the comparison with what there is.
FailTheRest ==
    IF call.tool \in Single
    THEN answer' = [kind |-> "error"] /\ phase' = "over" /\ UNCHANGED <<bad, todo, at, current>>
    ELSE /\ bad' = bad \cup {current} /\ todo' = {}
         /\ at' = "dir" /\ current' = None /\ UNCHANGED <<phase, answer>>

\* An ordinary failure: of a single experiment it is raised, a comparison
\* collects it.
FailExperiment ==
    IF call.tool \in Single
    THEN answer' = [kind |-> "error"] /\ phase' = "over" /\ UNCHANGED <<bad, todo, at, current>>
    ELSE /\ bad' = bad \cup {current} /\ todo' = todo \ {current}
         /\ at' = "dir" /\ current' = None /\ UNCHANGED <<phase, answer>>

\* A file leads nowhere, or does not parse; in the latter case it is either.
OpenFails ==
    /\ phase = "read" /\ at \in Files /\ held # None
    /\ LET where == Opened(current, at)
       IN  \/ where = "nowhere" /\ UNCHANGED reads
           \/ where # "nowhere" /\ tree[current].content = None /\ Read(current, at, where)
    /\ FailExperiment /\ held' = None
    /\ UNCHANGED <<call, world, found, good, files>>

OpenConfig ==
    /\ phase = "read" /\ at = "config" /\ held # None
    /\ Opened(current, "config") # "nowhere"
    /\ Read(current, "config", Opened(current, "config"))
    /\ at' = "history" /\ held' = None
    /\ UNCHANGED <<call, world, phase, todo, current, found, good, bad, files, answer>>

OpenHistory ==
    /\ phase = "read" /\ at = "history" /\ held # None
    /\ Opened(current, "history") # "nowhere" /\ tree[current].content # None
    /\ Read(current, "history", Opened(current, "history"))
    /\ held' = None
    /\ IF Summarized(tree[current].content)
       THEN /\ good' = [e \in DOMAIN good \cup {current} |->
                           IF e = current THEN tree[e].content ELSE good[e]]
            /\ todo' = todo \ {current} /\ at' = "dir" /\ current' = None
            /\ UNCHANGED <<phase, bad, answer>>
       ELSE FailExperiment /\ UNCHANGED good
    /\ UNCHANGED <<call, world, found, files>>

----------------------------------------------------------------------------
(* build_comparison_payload, and the JSON it must be *)

\* Without a choice the first metric: the calls checked name one at most.
SortBy == IF call.sortBy # None THEN call.sortBy
          ELSE IF call.specs = None THEN "r2" ELSE CHOOSE m \in DOMAIN call.specs : TRUE

\* The values of a summary or a record that are told: of a default comparison
\* the best ones alone.
Told(records, direction) ==
    {BestValue(records, direction)} \cup
    (IF call.tool \notin Single /\ call.specs = None THEN {}
     ELSE {records[1][2], records[Len(records)][2]})

Strict == \A e \in DOMAIN good : \A m \in Wanted : NaN \notin Told(good[e][m], Direction(m))

\* The experiments that did not fail, in sorted order.
Analysed ==
    [i \in 1..Cardinality(DOMAIN good) |->
        CHOOSE e \in DOMAIN good : Cardinality({d \in DOMAIN good : d < e}) + 1 = i]
Records ==
    [i \in DOMAIN Analysed |->
        [experiment |-> Analysed[i],
         value |-> BestValue(good[Analysed[i]][SortBy], Direction(SortBy))]]

\* The comparison's facts refuse NaN.
Ordered == \A i \in DOMAIN Records : Records[i].value # NaN

Codes(ranked) ==
    ComparisonCodes(ComparisonFacts(ranked, Cardinality(bad), call.descending))

Payload ==
    LET ranked == Rank(Records, call.descending)
    IN  [kind |-> "payload", records |-> ranked, failed |-> bad,
         advice |-> IF call.diagnose THEN Recommendations(Codes(ranked)) ELSE None]

\* Python sorts NaN by no rule: the records come out in some order.
Unordered ==
    {[kind |-> "unordered", records |-> [i \in DOMAIN Records |-> Records[order[i]]],
      failed |-> bad] :
        order \in {f \in [DOMAIN Records -> DOMAIN Records] :
                      {f[i] : i \in DOMAIN Records} = DOMAIN Records}}

\* One experiment, with what is told of each of its metrics.
Summary ==
    LET content == good[CHOOSE e \in DOMAIN good : TRUE]
    IN  [kind |-> "summary",
         advice |-> IF call.diagnose
                    THEN [m \in Wanted |-> Recommendations(MetricCodes(
                             MetricFacts(content[m], Direction(m), Window)))]
                    ELSE None]

Result == IF call.tool \in Single THEN Summary ELSE Payload

Refused ==
    \/ call.tool \notin Single /\ (SortBy \notin Wanted \/ (call.diagnose /\ ~Ordered))
    \/ call.tool \notin Writers /\ ~Strict

\* The tools answer in strict JSON, or raise; the others go on to write, NaN or
\* not.
Build ==
    /\ phase = "read" /\ todo = {}
    /\ IF Refused THEN answer' = [kind |-> "error"] /\ phase' = "over"
       ELSE IF call.tool \in Writers THEN phase' = "write" /\ UNCHANGED answer
       ELSE answer' = Result /\ phase' = "over"
    /\ UNCHANGED <<call, world, todo, at, current, held, found, good, bad, reads, files>>

\* The JSON file, then the Markdown file: each is emptied before it is written,
\* and a write that fails leaves it torn.
Write ==
    /\ phase = "write"
    /\ \E f \in DOMAIN files, result \in {"new", "torn"} :
         /\ files[f] = "old" /\ (f = "markdown" => files["json"] = "new")
         /\ files' = [files EXCEPT ![f] = result]
         /\ IF result = "torn" THEN answer' = [kind |-> "error"] /\ phase' = "over"
            ELSE IF f = "json" THEN UNCHANGED <<answer, phase>>
            ELSE /\ phase' = "over"
                 /\ answer' \in IF call.tool = "report" \/ Ordered THEN {Result}
                                ELSE Unordered
    /\ UNCHANGED <<call, world, todo, at, current, held, found, good, bad, reads>>

Next ==
    \/ Replace
    \/ ScanDir \/ ScanConfig \/ ScanHistory \/ EndScan \/ Resolve
    \/ AuthorizeDir \/ CheckFile \/ OpenFails \/ OpenConfig \/ OpenHistory
    \/ Build \/ Write

Spec == Init /\ [][Next]_vars

----------------------------------------------------------------------------
(* What must hold *)

\* A name below the root that a scan must refuse while it stays as it is.
Unsafe(e) ==
    \/ tree[e].dir \in {"link_out", "unsafe"}
    \/ DirAuthorized(e) /\ \E f \in Files : tree[e][f] \in {"link_out", "unsafe"}

IsExperiment(e) ==
    \A k \in {tree[e].dir, tree[e].config, tree[e].history} : Followed(k)

(* Within the scope a file outside the authority is read only if it was     *)
(* replaced after its own check and before its open, the window v1_security *)
(* admits; and no comparison is returned past a name that was unsafe for as *)
(* long as the call ran, not even without it (_inspect,                     *)
(* _has_experiment_files, analyze_experiment_dirs).                         *)
Contained ==
    call.scoped =>
        /\ \A r \in reads : r.where = "outside" => r.replaced
        /\ answer # None /\ answer.kind \in {"payload", "unordered"} =>
             \A e \in Experiments \ touched : ~Unsafe(e)

\* The histories to diagnose, diagnosed.
FindingsOfSamples ==
    \A records \in Samples, direction \in {"maximize", "minimize"} :
        FindingsAgree(records, direction, Window)

\* A comparison accounts once for each experiment that was left alone, and for no
\* other name, and tells the best value of each history it read.
ComparisonWhole ==
    /\ LET told == {answer.records[i].experiment : i \in DOMAIN answer.records}
       IN  /\ told \cap answer.failed = {}
           /\ Len(answer.records) = Cardinality(told)
           /\ \A e \in Experiments \ touched :
                /\ e \in told \cup answer.failed <=> IsExperiment(e)
                /\ e \in told => Summarized(tree[e].content)
                /\ e \in answer.failed => ~Summarized(tree[e].content)
    /\ \A i \in DOMAIN answer.records :
         LET r == answer.records[i]
             values == {x[2] : x \in Range(good[r.experiment][SortBy])}
         IN  /\ r.value \in values
             /\ values \cap {v \in values : Better(Direction(SortBy), v, r.value)} = {}

\* A ranking puts the best before the others, ties as they were found, and has no
\* NaN for a number.
RankingRight ==
    /\ \A i \in DOMAIN answer.records : answer.records[i].value # NaN
    /\ RankedWell(Records, call.descending)
    /\ answer.records = Rank(Records, call.descending)

(* What is told is whole, right and does not contradict itself: a comparison *)
(* that is returned, its ranking unless the pipeline sorted NaN, the two     *)
(* files of a report or a pipeline, and the findings about any history with  *)
(* what is recommended from them (analyze_experiment_dirs,                   *)
(* rank_comparison_records, build_metric_facts, build_comparison_facts,      *)
(* build_recommendations).                                                   *)
WholeAndRanked ==
    /\ FindingsOfSamples
    /\ files.markdown # "old" => files.json = "new"
    /\ answer # None /\ answer.kind \in {"payload", "unordered"} => ComparisonWhole
    /\ answer # None /\ answer.kind = "payload" => RankingRight
=============================================================================
