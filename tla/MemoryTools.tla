---------------------------- MODULE MemoryTools ----------------------------
(***************************************************************************)
(* tool_layer/memory_tools.py over experiment_memory.py and                *)
(* experiment_comparability.py: one call of a read-only tool at a time,    *)
(* over the evidence store, while other clients change the store.          *)
(*                                                                         *)
(* A lookup or a listing is one transaction.  A comparison is two: the     *)
(* reference is read, then the candidates are searched, and in between its *)
(* row may be invalidated, deleted, and stored anew.  Callers of the tools *)
(* share nothing but the store, so one caller stands for all.              *)
(***************************************************************************)
EXTENDS MetricPolicy, FiniteSetsExt

CONSTANTS
    Clients,          \* callers of the repository,
    Tool,             \* the tools being one of them
    Allowed,          \* scope.allowed_experiment_ids
    AllowInvalidated, \* scope.allow_invalidated
    Limits,           \* of the results asked for
    FilterFields, Provenance,             \* what each snapshot declares to filters
    Filters,          \* the filters asked for: values of some of these fields
    MetricNames, Metrics, \* and of each metric, None without it
    Size, MaxResultBytes                  \* bytes of a projected snapshot, of a reply

ASSUME MemoryAssumption ==
    /\ Tool \in Clients
    /\ AllowInvalidated \in BOOLEAN
    /\ Limits \subseteq Nat \ {0}

VARIABLES
    table, answer, \* the evidence store
    pc,            \* where the call is
    request,       \* the call, None without one
    reference,     \* the row read for a comparison, None without one
    result,        \* the reply given in this step, None without one
    searched,      \* history: the table searched for that reply
    removed,       \* history: the reference was deleted since it was read,
    withdrawn      \* history: or invalidated

storeVars == <<table, answer>>
toolVars  == <<pc, request, reference, result>>
history   == <<searched, removed, withdrawn>>
vars      == <<storeVars, toolVars, history>>

Store == INSTANCE EvidenceStore

Lookups == [tool : {"get"}, execution : Executions, invalidated : BOOLEAN]
Listings == [tool : {"list"}, experiment : Experiments, filters : Filters,
             limit : Limits, invalidated : BOOLEAN]
Comparisons == [tool : {"compare"}, execution : Executions, metric : MetricNames,
                filters : Filters, limit : Limits, invalidated : BOOLEAN]
Requests == Lookups \cup Listings \cup Comparisons

\* The experiment a request is about.
About(r) == IF r.tool = "list" THEN r.experiment ELSE Experiment[r.execution]

Init ==
    /\ Store!Init
    /\ pc = "idle" /\ request = None /\ reference = None /\ result = None
    /\ searched = EmptyTable /\ removed = FALSE /\ withdrawn = FALSE

----------------------------------------------------------------------------
(* What is shown *)

Authorized(r) == About(r) \in Allowed /\ (r.invalidated => AllowInvalidated)

\* Mutant of Visible: an exact lookup ignores the lifecycle.
VisibleAlways(row) == row # None

Visible(row) == row # None /\ (row.status = "invalidated" => request.invalidated)

\* _matching_executions: a filter matches what is declared only.
Matching(rows) == {e \in Executions :
    /\ rows[e] # None
    /\ \A f \in DOMAIN request.filters :
          Provenance[rows[e].evidence][f] = request.filters[f]}

\* Those that have the metric, as find_comparison_candidates keeps them.
Candidates(rows) ==
    {e \in Matching(rows) : Metrics[rows[e].evidence][request.metric] # None}

\* sorted(...)[:n]
First(some, n) == {e \in some : Cardinality({d \in some : d < e}) < n}

\* Mutant of Probed: the search stops at the limit.
ProbedExactly(some) == First(some, request.limit)

\* One more than the limit is fetched, to tell whether there are more.
Probed(some) == First(some, request.limit + 1)

----------------------------------------------------------------------------
(* Replies *)

Replies(reply) ==
    pc' = "idle" /\ result' = reply /\ reference' = None /\ UNCHANGED request

Refused(code) == [code |-> code]

\* _success: a reply that is too large is withheld as a whole.
Succeeds(first, rows, items, more) ==
    LET size(row) == IF row = None THEN 0 ELSE Size[row.evidence]
        bytes == size(first) + MapThenSumSet(LAMBDA e : size(rows[e]), DOMAIN items)
    IN  Replies(IF bytes > MaxResultBytes THEN Refused("result_too_large")
                ELSE [code |-> "ok", reference |-> first, items |-> items, more |-> more])

\* invoke_tool, up to the provider.
Invoke ==
    /\ pc = "idle"
    /\ \/ \E code \in {"invalid_arguments", "unsupported_option", "invalid_filter"} :
             request' = None /\ result' = Refused(code) /\ UNCHANGED pc
       \/ \E r \in Requests :
             /\ request' = r
             /\ IF Authorized(r) THEN pc' = "reading" /\ result' = None
                ELSE result' = Refused("unauthorized_scope") /\ UNCHANGED pc
    /\ answer' = None
    /\ UNCHANGED <<table, reference>>
    /\ searched' = EmptyTable /\ removed' = FALSE /\ withdrawn' = FALSE

\* The provider or a read raises; what is no RepositoryError reaches the caller.
Fails ==
    /\ pc # "idle"
    /\ \E code \in {"repository_corrupt", "unsupported_repository_version",
                    "repository_unavailable", "raised"} : Replies(Refused(code))
    /\ answer' = None
    /\ UNCHANGED <<table, history>>

\* get_historical_execution, and the first half of
\* find_historical_comparison_candidates.
ReadExecution ==
    /\ pc = "reading" /\ request.tool \in {"get", "compare"}
    /\ LET e == request.execution
           row == answer'.seen[e]  \* None for KeyError
           items == [d \in {e} |-> row]
       IN  /\ Store!Show(Tool, e) \/ Store!Miss(Tool, e)
           /\ answer' # None
           /\ \/ ~Visible(row) /\ Replies(Refused("execution_not_found"))
              \/ /\ Visible(row) /\ request.tool = "get"
                 /\ Succeeds(None, answer'.seen, items, FALSE)
              \/ /\ Visible(row) /\ request.tool = "compare"
                 /\ Metrics[row.evidence][request.metric] = None
                 /\ Replies(Refused("metric_not_found"))
              \/ /\ Visible(row) /\ request.tool = "compare"
                 /\ Metrics[row.evidence][request.metric] # None
                 /\ reference' = row /\ pc' = "searching"
                 /\ UNCHANGED <<request, result>>
    /\ UNCHANGED history

\* list_historical_executions
ListHistory ==
    /\ pc = "reading" /\ request.tool = "list"
    /\ Store!ShowAll(Tool, request.experiment, request.invalidated)
    /\ answer' # None
    /\ LET rows == answer'.seen
           fetched == Probed(Matching(rows))
           items == [e \in First(fetched, request.limit) |-> rows[e]]
       IN  Succeeds(None, rows, items, Cardinality(fetched) > request.limit)
    /\ searched' = table
    /\ UNCHANGED <<removed, withdrawn>>

SearchesInvalidated(r) == r.invalidated

\* Mutant of IsReference: the execution whose metric declares the same.
IsReferenceByMetric(rows, e) ==
    Metrics[rows[e].evidence][request.metric] = Metrics[reference.evidence][request.metric]

IsReference(rows, e) == e = request.execution

\* The second half of find_historical_comparison_candidates.
FindCandidates ==
    /\ pc = "searching"
    /\ Store!ShowAll(Tool, Experiment[request.execution], SearchesInvalidated(request))
    /\ answer' # None
    /\ LET rows == answer'.seen
           fetched == Probed(Candidates(rows))
           metric(row) == Metrics[row.evidence][request.metric]
           items == [e \in First(fetched, request.limit) |->
                        [evidence |-> rows[e].evidence, status |-> rows[e].status,
                         comparability |-> Comparability(metric(reference), metric(rows[e])),
                         is_reference |-> IsReference(rows, e)]]
       IN  Succeeds(reference, rows, items, Cardinality(fetched) > request.limit)
    /\ searched' = table
    /\ UNCHANGED <<removed, withdrawn>>

\* Another client changes the store; its answer is nobody's business here.
Others ==
    /\ \E c \in Clients \ {Tool}, e \in Executions :
          \/ \E s \in Snapshots : Store!Take(c, e, s)
          \/ \E why \in Reasons : Store!Withdraw(c, e, why)
          \/ Store!Remove(c, e)
    /\ answer' = None /\ result' = None
    /\ \/ /\ pc = "searching"
          /\ LET now == table'[request.execution]
             IN  /\ removed' = (removed \/ now = None)
                 /\ withdrawn' = (withdrawn \/ (now # None /\ now.status = "invalidated"))
          /\ UNCHANGED <<request, searched>>
       \/ /\ pc = "reading"
          /\ UNCHANGED <<request, history>>
       \/ /\ pc = "idle"
          /\ request' = None /\ searched' = EmptyTable /\ removed' = FALSE /\ withdrawn' = FALSE
    /\ UNCHANGED <<pc, reference>>

Next == Invoke \/ Fails \/ ReadExecution \/ ListHistory \/ FindCandidates \/ Others

Spec == Init /\ [][Next]_vars

----------------------------------------------------------------------------
(* What must hold *)

Shown == pc = "idle" /\ request # None /\ result # None /\ result.code = "ok"

\* Every variable keeps to its values, and a reference is kept from its read to
\* its comparison only.
TypeOK ==
    /\ table \in Tables
    /\ pc \in {"idle", "reading", "searching"}
    /\ request \in Requests \cup {None}
    /\ pc # "idle" => request \in Requests
    /\ IF pc = "searching" THEN request.tool = "compare" /\ reference \in Rows
       ELSE reference = None
    /\ searched \in Tables
    /\ removed \in BOOLEAN /\ withdrawn \in BOOLEAN

\* Nothing of an experiment outside the scope is shown, and invalidated evidence
\* only when both the host allows it and the caller asks for it.
NothingHidden == Shown =>
    /\ About(request) \in Allowed
    /\ \A e \in DOMAIN result.items :
          /\ Experiment[e] = About(request)
          /\ result.items[e].status = "invalidated" => AllowInvalidated /\ request.invalidated
    /\ result.reference # None /\ result.reference.status = "invalidated" =>
          AllowInvalidated /\ request.invalidated

\* What a search may show of a table: visible, matching every filter, and with
\* the metric compared.
Eligible(rows) == {e \in Executions :
    /\ rows[e] # None /\ Experiment[e] = About(request)
    /\ rows[e].status = "active" \/ request.invalidated
    /\ \A f \in DOMAIN request.filters : Provenance[rows[e].evidence][f] = request.filters[f]
    /\ request.tool = "compare" => Metrics[rows[e].evidence][request.metric] # None}

\* A comparison whose filters the reference passes has the reference among what
\* it finds, unless the reference was deleted or hidden while it ran.
ReferenceFound == Shown /\ request.tool = "compare" =>
    LET e == request.execution
    IN  \/ removed \/ (withdrawn /\ ~request.invalidated)
        \/ \E f \in DOMAIN request.filters :
              Provenance[result.reference.evidence][f] # request.filters[f]
        \/ e \in DOMAIN result.items
        \/ result.more /\ \A d \in DOMAIN result.items : d < e

\* A search shows the first of what it may show, up to the limit, and says that
\* there is more exactly when it leaves something out; the reference of a
\* comparison is among what it finds.
FirstMatches ==
    /\ ReferenceFound
    /\ Shown /\ request.tool \in {"list", "compare"} =>
        LET left == Eligible(searched) \ DOMAIN result.items
        IN  /\ DOMAIN result.items \subseteq Eligible(searched)
            /\ Cardinality(DOMAIN result.items) <= request.limit
            /\ result.more <=> left # {}
            /\ left # {} => /\ Cardinality(DOMAIN result.items) = request.limit
                            /\ \A d \in left, e \in DOMAIN result.items : e < d

\* Unless it was deleted while the comparison ran, the reference and the item
\* that is the reference are the same evidence, the item as old or older in its
\* life, and it is never called incompatible with itself.
SelfConsistent == Shown /\ request.tool = "compare" /\ ~removed =>
    \A e \in DOMAIN result.items : result.items[e].is_reference =>
        /\ result.items[e].evidence = result.reference.evidence
        /\ result.items[e].comparability # "incompatible"
        /\ result.reference.status = "invalidated" => result.items[e].status = "invalidated"
        /\ result.items[e].status = "invalidated" =>
              result.reference.status = "invalidated" \/ withdrawn

=============================================================================
