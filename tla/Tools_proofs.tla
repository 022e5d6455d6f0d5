---------------------------- MODULE Tools_proofs ----------------------------
(***************************************************************************)
(* The tools: what a reply of the memory tools never shows and what the    *)
(* two transactions of a comparison may still say of its reference; what   *)
(* a tool bound to a host's data answers, whatever the host does to it     *)
(* since, for any rosters, numbers, declarations and pairs.                *)
(***************************************************************************)
EXTENDS MemoryTools, BoundTools, FiniteSetTheorems, WellFoundedInduction, TLAPS

\* A call that has passed the scope's check works for its request.
Working == pc # "idle" => Authorized(request)

\* The evidence of the reference is what was stored when it was read, and its
\* life only goes on, unless it is deleted.
ReferenceAges == pc = "searching" =>
    LET now == table[request.execution]
    IN  /\ reference.status = "invalidated" => request.invalidated
        /\ ~removed =>
              /\ now # None /\ now.evidence = reference.evidence
              /\ reference.status = "invalidated" => now.status = "invalidated"
              /\ now.status = "invalidated" => reference.status = "invalidated" \/ withdrawn

\* The metric of a reference was found.
ReferenceMeasured == pc = "searching" => Metrics[reference.evidence][request.metric] # None

\* The rows of a table, of which the store has taken one at a time.
Taken(rows) == {e \in Executions : rows[e] # None}

IInv ==
    /\ TypeOK /\ Working /\ ReferenceAges /\ NothingHidden /\ SelfConsistent
    /\ ReferenceMeasured /\ IsFiniteSet(Taken(table)) /\ FirstMatches

----------------------------------------------------------------------------

\* Less-than is well founded on the numbers.
LEMMA Least ==
    ASSUME NEW T \in SUBSET Nat, T # {}
    PROVE  \E x \in T : \A y \in T : x <= y
<1> DEFINE R == OpToRel(<, Nat)
<1>1. IsWellFoundedOn(R, Nat)
    BY NatLessThanWellFounded
<1>2. \A x, y \in Nat : <<x, y>> \in R <=> x < y
    BY DEF OpToRel
<1> HIDE DEF R
<1>3. \E x \in T : \A y \in T : ~(<<y, x>> \in R)
    BY <1>1, WFMin
<1>4. PICK x \in T : \A y \in T : ~(<<y, x>> \in R)
    BY <1>3
<1>5. ASSUME NEW y \in T PROVE x <= y
  <2>1. x \in Nat /\ y \in Nat /\ ~(<<y, x>> \in R)
    BY <1>4
  <2> QED BY <2>1, <1>2
<1> QED BY <1>5

\* The elements of S before e.
Before(S, e) == {d \in S : d < e}

\* The later of two elements has more before it.
LEMMA BeforeGrows ==
    ASSUME NEW S \in SUBSET Int, IsFiniteSet(S), NEW d \in S, NEW e \in S, d < e
    PROVE  /\ Before(S, d) \cup {d} \subseteq Before(S, e)
           /\ Cardinality(Before(S, d)) < Cardinality(Before(S, e))
<1>1. Before(S, d) \cup {d} \subseteq Before(S, e) /\ d \notin Before(S, d)
  <2>1. d \in Int /\ e \in Int
    OBVIOUS
  <2>2. ASSUME NEW c \in Before(S, d) PROVE c \in Before(S, e)
    <3>1. c \in S /\ c \in Int /\ c < d
      BY DEF Before
    <3> QED BY <2>1, <3>1 DEF Before
  <2>3. d \in Before(S, e) /\ d \notin Before(S, d)
    BY <2>1 DEF Before
  <2> QED BY <2>2, <2>3
<1>2. IsFiniteSet(Before(S, d)) /\ IsFiniteSet(Before(S, e))
    BY FS_Subset DEF Before
<1>3. Cardinality(Before(S, d) \cup {d}) = Cardinality(Before(S, d)) + 1
    BY <1>1, <1>2, FS_AddElement
<1>4. Cardinality(Before(S, d) \cup {d}) <= Cardinality(Before(S, e))
    BY <1>1, <1>2, FS_Subset
<1>5. Cardinality(Before(S, d)) \in Nat /\ Cardinality(Before(S, e)) \in Nat
    BY <1>2, FS_CardinalityType
<1> QED BY <1>1, <1>3, <1>4, <1>5

\* A finite set has a least element.
LEMMA LeastOf ==
    ASSUME NEW S \in SUBSET Int, IsFiniteSet(S), S # {}
    PROVE  \E m \in S : \A e \in S : m <= e
<1> DEFINE rank(e) == Cardinality(Before(S, e))
           T == {rank(e) : e \in S}
<1>1. \A e \in S : rank(e) \in Nat
    BY FS_Subset, FS_CardinalityType DEF Before
<1>2. T \in SUBSET Nat /\ T # {}
    BY <1>1
<1>3. PICK m \in S : \A e \in S : rank(m) <= rank(e)
  <2>1. PICK x \in T : \A y \in T : x <= y
    BY <1>2, Least
  <2> QED BY <2>1
<1>4. ASSUME NEW e \in S, e < m PROVE FALSE
    BY <1>1, <1>3, <1>4, BeforeGrows
<1> HIDE DEF rank
<1> QED BY <1>4

\* sorted(...)[:n] keeps at most n, exactly n when it leaves some out, and those
\* it leaves out come later.
LEMMA FirstCounts ==
    ASSUME NEW S \in SUBSET Int, IsFiniteSet(S), NEW n \in Nat
    PROVE  /\ IsFiniteSet(First(S, n)) /\ Cardinality(First(S, n)) \in Nat
           /\ \A e \in First(S, n), d \in S \ First(S, n) : e < d
           /\ S \ First(S, n) # {} => Cardinality(First(S, n)) = n
           /\ Cardinality(First(S, n)) <= n
<1> DEFINE F == First(S, n)
           rank(e) == Cardinality(Before(S, e))
<1>0. F = {e \in S : rank(e) < n}
    BY DEF First, Before
<1>1. \A e \in S : rank(e) \in Nat /\ IsFiniteSet(Before(S, e))
    BY FS_Subset, FS_CardinalityType DEF Before
<1>2. F \subseteq S /\ IsFiniteSet(F) /\ IsFiniteSet(S \ F) /\ Cardinality(F) \in Nat
    BY <1>0, FS_Subset, FS_CardinalityType
<1>3. ASSUME NEW e \in F, NEW d \in S \ F PROVE e < d
  <2>1. rank(e) < n /\ ~(rank(d) < n) /\ e \in S /\ d \in S /\ e \in Int /\ d \in Int
    BY <1>0
  <2>2. rank(e) \in Nat /\ rank(d) \in Nat
    BY <1>1, <2>1
  <2>3. CASE d < e
    <3>1. rank(d) < rank(e)
      BY <2>1, <2>3, BeforeGrows
    <3> HIDE DEF rank
    <3> QED BY <2>1, <2>2, <3>1
  <2>4. CASE d = e  BY <2>1, <2>4
  <2> QED BY <2>1, <2>3, <2>4
<1>4. Cardinality(F) <= n
  <2> DEFINE f == [e \in F |-> rank(e)]
  <2>1. f \in [F -> 0..(n - 1)]
    <3>1. ASSUME NEW e \in F PROVE rank(e) \in 0..(n - 1)
      <4>1. e \in S /\ rank(e) < n /\ rank(e) \in Nat
        BY <1>0, <1>1
      <4> HIDE DEF rank
      <4> QED BY <4>1
    <3> HIDE DEF rank, F
    <3> QED BY <3>1
  <2>2. ASSUME NEW d \in F, NEW e \in F, d # e PROVE rank(d) # rank(e)
    <3>1. d \in S /\ e \in S /\ d \in Int /\ e \in Int /\ rank(d) \in Nat /\ rank(e) \in Nat
      BY <1>0, <1>1
    <3>2. CASE d < e
      BY <3>1, <3>2, BeforeGrows
    <3>3. CASE e < d
      BY <3>1, <3>3, BeforeGrows
    <3> HIDE DEF rank
    <3> QED BY <2>2, <3>1, <3>2, <3>3
  <2>3. f \in Injection(F, 0..(n - 1))
    BY <2>1, <2>2, Zenon DEF Injection, IsInjective
  <2>4. IsFiniteSet(0..(n - 1)) /\ Cardinality(0..(n - 1)) = n
    BY FS_Interval
  <2> HIDE DEF f, F
  <2> QED BY <2>3, <2>4, FS_Injection
<1>5. ASSUME S \ F # {} PROVE Cardinality(F) = n
  <2>1. PICK m \in S \ F : \A e \in S \ F : m <= e
    BY <1>2, <1>5, LeastOf
  <2>2. Before(S, m) = F
    <3>1. ASSUME NEW e \in Before(S, m) PROVE e \in F
      <4>1. e \in S /\ e \in Int /\ m \in Int /\ e < m
        BY DEF Before
      <4> QED BY <2>1, <4>1
    <3>2. ASSUME NEW e \in F PROVE e \in Before(S, m)
      BY <1>2, <1>3, <2>1 DEF Before
    <3> QED BY <3>1, <3>2
  <2>3. rank(m) >= n
    <3>1. m \in S /\ ~(rank(m) < n) /\ rank(m) \in Nat
      BY <1>0, <1>1, <2>1
    <3> HIDE DEF rank
    <3> QED BY <3>1
  <2>4. rank(m) = Cardinality(F)
    BY <2>2
  <2> HIDE DEF rank, F
  <2> QED BY <1>2, <1>4, <2>3, <2>4
<1> QED BY <1>2, <1>3, <1>4, <1>5

\* To fetch one more than the limit and keep the limit is to keep the limit, and
\* there is more exactly when one more could be fetched.
LEMMA ProbeTells ==
    ASSUME NEW S \in SUBSET Int, IsFiniteSet(S), NEW n \in Nat
    PROVE  /\ First(First(S, n + 1), n) = First(S, n)
           /\ Cardinality(First(S, n + 1)) > n <=> S \ First(S, n) # {}
<1> DEFINE F == First(S, n)
           P == First(S, n + 1)
           rank(e) == Cardinality(Before(S, e))
<1>0. F = {e \in S : rank(e) < n} /\ P = {e \in S : rank(e) < n + 1}
    BY DEF First, Before
<1>1. \A e \in S : rank(e) \in Nat
    BY FS_Subset, FS_CardinalityType DEF Before
<1>2. F \subseteq P
  <2> SUFFICES ASSUME NEW e \in F PROVE e \in P
    OBVIOUS
  <2>1. e \in S /\ rank(e) \in Nat /\ rank(e) < n
    BY <1>0, <1>1
  <2> HIDE DEF rank
  <2>2. rank(e) < n + 1
    BY <2>1
  <2> QED BY <1>0, <2>1, <2>2
<1>3. ASSUME NEW e \in P PROVE {d \in P : d < e} = Before(S, e)
  <2>1. e \in S /\ e \in Int /\ rank(e) \in Nat /\ rank(e) < n + 1
    BY <1>0, <1>1
  <2>2. ASSUME NEW d \in Before(S, e) PROVE d \in P
    <3>1. d \in S /\ d \in Int /\ d < e /\ rank(d) \in Nat
      BY <1>1 DEF Before
    <3>2. rank(d) < rank(e)
      BY <2>1, <3>1, BeforeGrows
    <3> HIDE DEF rank
    <3>3. rank(d) < n + 1
      BY <2>1, <3>1, <3>2
    <3> QED BY <1>0, <3>1, <3>3
  <2> QED BY <1>0, <2>2 DEF Before
<1>4. First(P, n) = {e \in P : rank(e) < n}
    BY <1>3 DEF First
<1>5. First(P, n) = F
    BY <1>0, <1>2, <1>4
<1>6. /\ IsFiniteSet(F) /\ IsFiniteSet(P) /\ Cardinality(F) \in Nat /\ Cardinality(P) \in Nat
      /\ Cardinality(F) <= n
      /\ S \ F # {} => Cardinality(F) = n
      /\ S \ P # {} => Cardinality(P) = n + 1
  <2>1. n + 1 \in Nat
    OBVIOUS
  <2>2. /\ IsFiniteSet(F) /\ Cardinality(F) \in Nat /\ Cardinality(F) <= n
        /\ S \ F # {} => Cardinality(F) = n
    BY FirstCounts
  <2>3. /\ IsFiniteSet(P) /\ Cardinality(P) \in Nat
        /\ S \ P # {} => Cardinality(P) = n + 1
    BY <2>1, FirstCounts
  <2> QED BY <2>2, <2>3
<1> HIDE DEF F, P, rank
<1>7. ASSUME S \ F # {} PROVE Cardinality(P) > n
  <2>1. CASE S \ P # {}
    BY <1>6, <2>1
  <2>2. CASE S \ P = {}
    <3>1. F # P
      BY <1>7, <2>2
    <3>2. Cardinality(F) <= Cardinality(P) /\ (Cardinality(P) = Cardinality(F) => P = F)
      BY <1>2, <1>6, FS_Subset
    <3> QED BY <1>6, <1>7, <3>1, <3>2
  <2> QED BY <2>1, <2>2
<1>8. ASSUME Cardinality(P) > n PROVE S \ F # {}
  <2>1. F # P
    BY <1>6, <1>8
  <2> QED BY <1>0, <1>2, <2>1
<1> QED BY <1>5, <1>7, <1>8 DEF F, P

----------------------------------------------------------------------------

\* A metric is comparable with itself, or declares too little to tell.
LEMMA NeverIncompatibleWithItself == \A m : Comparability(m, m) # "incompatible"
<1> TAKE m
<1>1. Mismatched(m, m) = {}
    BY DEF Mismatched
<1> QED BY <1>1 DEF Comparability

\* What is kept of a search is part of what it found.
LEMMA FirstIsPart == \A some, n : First(some, n) \subseteq some
BY DEF First

\* A row of a table is active, or invalidated.
LEMMA RowFields ==
    ASSUME NEW row \in Rows
    PROVE  row # None /\ row.evidence \in Snapshots /\ row.status \in {"active", "invalidated"}
<1>1. CASE row \in ActiveRows
    BY <1>1, EvidenceAssumption DEF ActiveRows
<1>2. CASE row \in InvalidatedRows
    BY <1>2, EvidenceAssumption DEF InvalidatedRows
<1> QED BY <1>1, <1>2 DEF Rows

\* Operators of the store are those of Evidence.
LEMMA SameOperators ==
    /\ \A s : Store!Active(s) = Active(s)
    /\ \A row, why : Store!Invalidated(row, why) = Invalidated(row, why)
    /\ \A rows, x : Store!Retained(rows, x) = Retained(rows, x)
    /\ \A rows, some : Store!Only(rows, some) = Only(rows, some)
    /\ Store!EmptyTable = EmptyTable
<1>1. \A s : Store!Active(s) = Active(s)
    BY DEF Store!Active, Active
<1>2. \A row, why : Store!Invalidated(row, why) = Invalidated(row, why)
    BY DEF Store!Invalidated, Invalidated
<1>3. \A rows, x : Store!Retained(rows, x) = Retained(rows, x)
    BY DEF Store!Retained, Retained
<1>4. \A rows, some : Store!Only(rows, some) = Only(rows, some)
    BY DEF Store!Only, Only
<1>5. Store!EmptyTable = EmptyTable
    BY DEF Store!EmptyTable, EmptyTable
<1> QED BY <1>1, <1>2, <1>3, <1>4, <1>5

\* What a request asks for.
LEMMA RequestFields ==
    ASSUME NEW r \in Requests
    PROVE  /\ r.tool \in {"get", "list", "compare"} /\ r.invalidated \in BOOLEAN
           /\ r.tool = "list" => r.experiment \in Experiments
           /\ r.tool # "list" => r.execution \in Executions
           /\ r.tool # "get" => r.limit \in Nat \ {0}
<1>1. CASE r \in Lookups      BY <1>1 DEF Lookups
<1>2. CASE r \in Listings     BY <1>2, MemoryAssumption DEF Listings
<1>3. CASE r \in Comparisons  BY <1>3, MemoryAssumption DEF Comparisons
<1> QED BY <1>1, <1>2, <1>3 DEF Requests

LEMMA InitIInv == Init => IInv
<1> SUFFICES ASSUME Init PROVE IInv
    OBVIOUS
<1>1. EmptyTable \in Tables
    BY DEF EmptyTable, Tables
<1>2. table = EmptyTable
    BY SameOperators DEF Init, Store!Init
<1>3. Taken(table) = {}
    BY <1>2 DEF Taken, EmptyTable
<1>4. IsFiniteSet(Taken(table))
    BY <1>3, FS_EmptySet
<1>5. TypeOK /\ Working /\ ReferenceAges /\ NothingHidden /\ SelfConsistent
    BY <1>1, <1>2 DEF Init, TypeOK, Working, ReferenceAges, NothingHidden,
                     SelfConsistent, Shown
<1>6. ReferenceMeasured /\ FirstMatches
    BY DEF Init, ReferenceMeasured, FirstMatches, ReferenceFound, Shown
<1> QED BY <1>4, <1>5, <1>6 DEF IInv

\* What a step that gives no reply leaves to be shown of the two calls.
LEMMA Silent ==
    ASSUME result' = None \/ result'.code # "ok"
    PROVE  NothingHidden' /\ SelfConsistent' /\ FirstMatches'
BY DEF NothingHidden, SelfConsistent, FirstMatches, ReferenceFound, Shown

\* A refusal shows nothing.
LEMMA RefusalStep ==
    ASSUME IInv, NEW code, code # "ok", Replies(Refused(code)), pc # "idle",
           UNCHANGED table, searched' \in Tables,
           removed' \in BOOLEAN, withdrawn' \in BOOLEAN
    PROVE  IInv'
<1>1. pc' = "idle" /\ reference' = None /\ request' = request /\ result' = [code |-> code]
    BY DEF Replies, Refused
<1>2. TypeOK'
    BY <1>1 DEF IInv, TypeOK
<1>3. Working' /\ ReferenceAges' /\ ReferenceMeasured'
    BY <1>1 DEF Working, ReferenceAges, ReferenceMeasured
<1>4. NothingHidden' /\ SelfConsistent' /\ FirstMatches'
    BY <1>1, Silent
<1>5. IsFiniteSet(Taken(table))'
    BY DEF IInv, Taken
<1> QED BY <1>2, <1>3, <1>4, <1>5 DEF IInv

LEMMA InvokeStep == ASSUME IInv, Invoke PROVE IInv'
<1>1. EmptyTable \in Tables
    BY DEF EmptyTable, Tables
<1>2. TypeOK'
    BY <1>1 DEF Invoke, IInv, TypeOK
<1>3. Working'
    BY DEF Invoke, Working
<1>4. ReferenceAges' /\ ReferenceMeasured'
    BY DEF Invoke, ReferenceAges, ReferenceMeasured
<1>5. result' = None \/ result'.code # "ok"
    BY DEF Invoke, Refused
<1>6. NothingHidden' /\ SelfConsistent' /\ FirstMatches'
    BY <1>5, Silent
<1>7. IsFiniteSet(Taken(table))'
    BY DEF IInv, Invoke, Taken
<1> QED BY <1>2, <1>3, <1>4, <1>6, <1>7 DEF IInv

\* What the store answers to a lookup and to a listing.
LEMMA LookupAnswer ==
    ASSUME NEW e \in Executions, table \in Tables, answer' # None,
           Store!Show(Tool, e) \/ Store!Miss(Tool, e)
    PROVE  UNCHANGED table /\ answer'.seen[e] = table[e]
<1>1. CASE Store!Show(Tool, e)
    BY <1>1, SameOperators DEF Store!Show, Store!Told, Only
<1>2. CASE Store!Miss(Tool, e)
    BY <1>2, SameOperators DEF Store!Miss, Store!Told, Only
<1> QED BY <1>1, <1>2

LEMMA ListingAnswer ==
    ASSUME NEW x, NEW invalidated \in BOOLEAN, table \in Tables, answer' # None,
           Store!ShowAll(Tool, x, invalidated)
    PROVE  /\ UNCHANGED table
           /\ \A e \in Executions : answer'.seen[e] # None =>
                 /\ answer'.seen[e] = table[e] /\ Experiment[e] = x
                 /\ table[e].status = "active" \/ invalidated
           /\ \A e \in Executions :
                 /\ table[e] # None /\ Experiment[e] = x
                 /\ table[e].status = "active" \/ invalidated
                 => answer'.seen[e] = table[e]
<1>1. UNCHANGED table
    BY DEF Store!ShowAll
<1> DEFINE shown == {e \in Store!Retained(table, x) : invalidated \/ table[e].status = "active"}
<1>2. Store!Told(Tool, "listed", None, shown)
    BY DEF Store!ShowAll
<1>3. shown = {e \in Executions : /\ table[e] # None /\ Experiment[e] = x
                                  /\ invalidated \/ table[e].status = "active"}
    BY DEF Store!Retained
<1> HIDE DEF shown
<1>4. answer'.seen = Only(table, shown)
    BY <1>1, <1>2, SameOperators DEF Store!Told
<1> QED BY <1>1, <1>3, <1>4 DEF Only

\* Nothing that a reply shows is outside the request's experiment or hidden from
\* it, and the item that is the reference agrees with it.
Showable(first, items, deleted, hidden) ==
    /\ first # None /\ first.status = "invalidated" => request.invalidated
    /\ \A e \in DOMAIN items :
          /\ Experiment[e] = About(request)
          /\ items[e].status = "invalidated" => request.invalidated
    /\ request.tool = "compare" /\ ~deleted =>
          \A e \in DOMAIN items : items[e].is_reference =>
              /\ items[e].evidence = first.evidence
              /\ items[e].comparability # "incompatible"
              /\ first.status = "invalidated" => items[e].status = "invalidated"
              /\ items[e].status = "invalidated" => first.status = "invalidated" \/ hidden

\* What a reply lists of the rows it searched, and of its reference.
Lists(first, items, more, rows, deleted, hidden) ==
    /\ request.tool = "compare" =>
          \/ deleted \/ (hidden /\ ~request.invalidated)
          \/ \E f \in DOMAIN request.filters :
                Provenance[first.evidence][f] # request.filters[f]
          \/ request.execution \in DOMAIN items
          \/ more /\ \A d \in DOMAIN items : d < request.execution
    /\ request.tool \in {"list", "compare"} =>
          LET left == Eligible(rows) \ DOMAIN items
          IN  /\ DOMAIN items \subseteq Eligible(rows)
              /\ Cardinality(DOMAIN items) <= request.limit
              /\ more <=> left # {}
              /\ left # {} => /\ Cardinality(DOMAIN items) = request.limit
                              /\ \A d \in left, e \in DOMAIN items : e < d

LEMMA SuccessStep ==
    ASSUME IInv, pc # "idle", NEW first, NEW rows, NEW items, NEW more,
           Succeeds(first, rows, items, more),
           UNCHANGED <<table, removed, withdrawn>>, searched' \in Tables,
           Showable(first, items, removed, withdrawn),
           Lists(first, items, more, searched', removed, withdrawn)
    PROVE  IInv'
<1>1. CASE Replies(Refused("result_too_large"))
    BY <1>1, RefusalStep DEF IInv, TypeOK
<1>2. CASE Replies([code |-> "ok", reference |-> first, items |-> items, more |-> more])
  <2>1. /\ pc' = "idle" /\ reference' = None /\ request' = request
        /\ result'.code = "ok" /\ result'.reference = first /\ result'.items = items
        /\ result'.more = more
    BY <1>2 DEF Replies
  <2>2. TypeOK'
    BY <2>1 DEF IInv, TypeOK
  <2>3. Working' /\ ReferenceAges' /\ ReferenceMeasured'
    BY <2>1 DEF Working, ReferenceAges, ReferenceMeasured
  <2>4. About(request) \in Allowed /\ (request.invalidated => AllowInvalidated)
    BY DEF IInv, Working, Authorized
  <2>5. NothingHidden'
    BY <2>1, <2>4 DEF NothingHidden, Showable, About
  <2>6. SelfConsistent'
    BY <2>1 DEF SelfConsistent, Showable
  <2>7. (Eligible(searched))' = Eligible(searched')
    BY <2>1 DEF Eligible, About
  <2>8. FirstMatches'
    BY <2>1, <2>7 DEF FirstMatches, ReferenceFound, Lists
  <2>9. IsFiniteSet(Taken(table))'
    BY DEF IInv, Taken
  <2> QED BY <2>2, <2>3, <2>5, <2>6, <2>8, <2>9 DEF IInv
<1> QED BY <1>1, <1>2 DEF Succeeds

LEMMA ReadExecutionStep == ASSUME IInv, ReadExecution PROVE IInv'
<1> DEFINE e == request.execution
           row == answer'.seen[e]
           items == [d \in {e} |-> row]
<1>1. pc = "reading" /\ request \in Requests /\ request.tool \in {"get", "compare"}
      /\ UNCHANGED history
    BY DEF ReadExecution, IInv, TypeOK
<1>2. e \in Executions
    BY <1>1, RequestFields
<1>3. UNCHANGED table /\ row = table[e] /\ table \in Tables
    BY <1>2, LookupAnswer DEF ReadExecution, IInv, TypeOK
<1>4. row # None => row \in Rows
    BY <1>2, <1>3 DEF Tables
<1>5. table' \in Tables /\ searched' \in Tables /\ removed' \in BOOLEAN /\ withdrawn' \in BOOLEAN
      /\ UNCHANGED <<removed, withdrawn>>
    BY <1>1, <1>3 DEF history, IInv, TypeOK
<1>6. ASSUME NEW code \in {"execution_not_found", "metric_not_found"}, Replies(Refused(code))
      PROVE  IInv'
    BY <1>1, <1>3, <1>5, <1>6, RefusalStep
<1>7. CASE Visible(row) /\ request.tool = "get" /\ Succeeds(None, answer'.seen, items, FALSE)
  <2>1. Showable(None, items, removed, withdrawn)
    BY <1>1, <1>7 DEF Showable, Visible, About
  <2>2. Lists(None, items, FALSE, searched', removed, withdrawn)
    BY <1>1, <1>7 DEF Lists
  <2> HIDE DEF items
  <2> QED BY <1>1, <1>3, <1>5, <1>7, <2>1, <2>2, SuccessStep
<1>8. CASE Visible(row) /\ request.tool = "compare"
           /\ Metrics[row.evidence][request.metric] # None /\ reference' = row /\ pc' = "searching"
           /\ UNCHANGED <<request, result>>
  <2> HIDE DEF row, e
  <2>1. row \in Rows
    BY <1>4, <1>8 DEF Visible
  <2>2. TypeOK'
    BY <1>1, <1>5, <1>8, <2>1 DEF IInv, TypeOK
  <2>3. Working'
    BY <1>1, <1>8 DEF IInv, Working, Authorized, About
  <2>4. ReferenceAges'
    BY <1>3, <1>8, <2>1, RowFields DEF ReferenceAges, Visible, e
  <2>5. result' = result /\ pc' = "searching"
    BY <1>8
  <2>6. NothingHidden' /\ SelfConsistent' /\ FirstMatches'
    BY <2>5 DEF NothingHidden, SelfConsistent, FirstMatches, ReferenceFound, Shown
  <2>7. ReferenceMeasured'
    BY <1>8 DEF ReferenceMeasured
  <2>8. IsFiniteSet(Taken(table))'
    BY <1>3 DEF IInv, Taken
  <2> QED BY <2>2, <2>3, <2>4, <2>6, <2>7, <2>8 DEF IInv
<1> QED BY <1>6, <1>7, <1>8 DEF ReadExecution

\* A search of what the store shows finds all that may be shown, keeps the first
\* of it, and can tell whether there is more.
LEMMA SearchTells ==
    ASSUME IInv, pc # "idle", NEW rows, NEW found, request.tool \in {"list", "compare"},
           NEW items, NEW more,
           \A e \in Executions : rows[e] # None =>
                 /\ rows[e] = table[e] /\ Experiment[e] = About(request)
                 /\ table[e].status = "active" \/ request.invalidated,
           \A e \in Executions :
                 /\ table[e] # None /\ Experiment[e] = About(request)
                 /\ table[e].status = "active" \/ request.invalidated
                 => rows[e] = table[e],
           found = IF request.tool = "list" THEN Matching(rows) ELSE Candidates(rows),
           DOMAIN items = First(Probed(found), request.limit),
           more <=> Cardinality(Probed(found)) > request.limit
    PROVE  /\ found = Eligible(table)
           /\ LET left == Eligible(table) \ DOMAIN items
              IN  /\ DOMAIN items \subseteq Eligible(table)
                  /\ Cardinality(DOMAIN items) <= request.limit
                  /\ more <=> left # {}
                  /\ left # {} => /\ Cardinality(DOMAIN items) = request.limit
                                  /\ \A d \in left, e \in DOMAIN items : e < d
<1>1. Matching(rows) = {e \in Executions :
          /\ table[e] # None /\ Experiment[e] = About(request)
          /\ table[e].status = "active" \/ request.invalidated
          /\ \A f \in DOMAIN request.filters :
                Provenance[table[e].evidence][f] = request.filters[f]}
    BY DEF Matching
<1>2. Candidates(rows) = {e \in Matching(rows) :
          Metrics[table[e].evidence][request.metric] # None}
    BY DEF Candidates, Matching
<1>3. found = Eligible(table)
    BY <1>1, <1>2 DEF Eligible
<1>4. found \in SUBSET Int /\ IsFiniteSet(found)
  <2>1. found \subseteq Taken(table)
    BY <1>3 DEF Eligible, Taken
  <2>2. IsFiniteSet(Taken(table)) /\ Taken(table) \subseteq Int
    BY EvidenceAssumption DEF IInv, Taken
  <2> QED BY <2>1, <2>2, FS_Subset
<1>5. PICK n \in Nat : request.limit = n
    BY RequestFields DEF IInv, TypeOK
<1>6. Probed(found) = First(found, n + 1)
    BY <1>5 DEF Probed
<1>7. DOMAIN items = First(found, n) /\ (more <=> found \ First(found, n) # {})
    BY <1>4, <1>5, <1>6, ProbeTells
<1>8. /\ \A e \in First(found, n), d \in found \ First(found, n) : e < d
      /\ found \ First(found, n) # {} => Cardinality(First(found, n)) = n
      /\ Cardinality(First(found, n)) <= n
    BY <1>4, FirstCounts
<1> QED BY <1>3, <1>5, <1>7, <1>8, FirstIsPart

LEMMA ListHistoryStep == ASSUME IInv, ListHistory PROVE IInv'
<1> DEFINE rows == answer'.seen
           fetched == Probed(Matching(rows))
           items == [e \in First(fetched, request.limit) |-> rows[e]]
<1>1. pc = "reading" /\ request \in Requests /\ request.tool = "list" /\ table \in Tables
    BY DEF ListHistory, IInv, TypeOK
<1>2. request.invalidated \in BOOLEAN
    BY <1>1, RequestFields
<1>3. /\ UNCHANGED table
      /\ \A e \in Executions : rows[e] # None =>
            /\ rows[e] = table[e] /\ Experiment[e] = request.experiment
            /\ table[e].status = "active" \/ request.invalidated
      /\ \A e \in Executions :
            /\ table[e] # None /\ Experiment[e] = request.experiment
            /\ table[e].status = "active" \/ request.invalidated
            => rows[e] = table[e]
    BY <1>1, <1>2, ListingAnswer DEF ListHistory
<1>4. DOMAIN items \subseteq {e \in Executions : rows[e] # None}
    BY FirstIsPart DEF Probed, Matching
<1>5. Succeeds(None, rows, items, Cardinality(fetched) > request.limit)
      /\ searched' = table /\ UNCHANGED <<removed, withdrawn>>
    BY DEF ListHistory
<1>6. \A e \in DOMAIN items : items[e] = rows[e]
    OBVIOUS
<1>8. DOMAIN items = First(Probed(Matching(rows)), request.limit)
    OBVIOUS
<1> DEFINE more == Cardinality(fetched) > request.limit
<1>9. more <=> Cardinality(Probed(Matching(rows))) > request.limit
    OBVIOUS
<1> HIDE DEF rows, fetched, items, more
<1>10. LET left == Eligible(table) \ DOMAIN items
       IN  /\ DOMAIN items \subseteq Eligible(table)
           /\ Cardinality(DOMAIN items) <= request.limit
           /\ more <=> left # {}
           /\ left # {} => /\ Cardinality(DOMAIN items) = request.limit
                           /\ \A d \in left, e \in DOMAIN items : e < d
    BY <1>1, <1>3, <1>8, <1>9, SearchTells DEF About
<1>11. Lists(None, items, more, searched', removed, withdrawn)
    BY <1>1, <1>5, <1>10 DEF Lists
<1>7. Showable(None, items, removed, withdrawn)
    BY <1>1, <1>3, <1>4, <1>6 DEF Showable, About
<1> QED BY <1>1, <1>3, <1>5, <1>7, <1>11, SuccessStep DEF more

LEMMA FindCandidatesStep == ASSUME IInv, FindCandidates PROVE IInv'
<1> DEFINE x == Experiment[request.execution]
           rows == answer'.seen
           fetched == Probed(Candidates(rows))
           metric(row) == Metrics[row.evidence][request.metric]
           items == [e \in First(fetched, request.limit) |->
                        [evidence |-> rows[e].evidence, status |-> rows[e].status,
                         comparability |-> Comparability(metric(reference), metric(rows[e])),
                         is_reference |-> IsReference(rows, e)]]
<1>1. pc = "searching" /\ request \in Requests /\ request.tool = "compare" /\ table \in Tables
      /\ reference \in Rows
    BY DEF FindCandidates, IInv, TypeOK
<1>2. request.invalidated \in BOOLEAN
    BY <1>1, RequestFields
<1>3. /\ UNCHANGED table
      /\ \A e \in Executions : rows[e] # None =>
            /\ rows[e] = table[e] /\ Experiment[e] = x
            /\ table[e].status = "active" \/ request.invalidated
      /\ \A e \in Executions :
            /\ table[e] # None /\ Experiment[e] = x
            /\ table[e].status = "active" \/ request.invalidated
            => rows[e] = table[e]
    BY <1>1, <1>2, ListingAnswer DEF FindCandidates, SearchesInvalidated
<1>4. DOMAIN items \subseteq {e \in Executions : rows[e] # None}
    BY FirstIsPart DEF Probed, Candidates, Matching
<1>5. Succeeds(reference, rows, items, Cardinality(fetched) > request.limit)
      /\ searched' = table /\ UNCHANGED <<removed, withdrawn>>
    BY DEF FindCandidates
<1>6. \A e \in DOMAIN items :
          /\ items[e].evidence = rows[e].evidence /\ items[e].status = rows[e].status
          /\ items[e].comparability = Comparability(metric(reference), metric(rows[e]))
          /\ items[e].is_reference => e = request.execution
    BY DEF IsReference
<1> DEFINE more == Cardinality(fetched) > request.limit
<1>11. /\ DOMAIN items = First(Probed(Candidates(rows)), request.limit)
       /\ more <=> Cardinality(Probed(Candidates(rows))) > request.limit
    OBVIOUS
<1> HIDE DEF rows, fetched, items, more
<1>12. LET left == Eligible(table) \ DOMAIN items
       IN  /\ DOMAIN items \subseteq Eligible(table)
           /\ Cardinality(DOMAIN items) <= request.limit
           /\ more <=> left # {}
           /\ left # {} => /\ Cardinality(DOMAIN items) = request.limit
                           /\ \A d \in left, e \in DOMAIN items : e < d
    BY <1>1, <1>3, <1>11, SearchTells DEF About
<1>13. \/ removed \/ (withdrawn /\ ~request.invalidated)
       \/ \E f \in DOMAIN request.filters :
             Provenance[reference.evidence][f] # request.filters[f]
       \/ request.execution \in Eligible(table)
  <2> SUFFICES ASSUME ~removed, ~(withdrawn /\ ~request.invalidated),
                      \A f \in DOMAIN request.filters :
                          Provenance[reference.evidence][f] = request.filters[f]
               PROVE  request.execution \in Eligible(table)
    OBVIOUS
  <2> DEFINE e == request.execution
  <2>1. e \in Executions /\ About(request) = Experiment[e]
    BY <1>1, RequestFields DEF About
  <2>2. /\ table[e] # None /\ table[e].evidence = reference.evidence
        /\ table[e].status = "invalidated" => reference.status = "invalidated" \/ withdrawn
        /\ reference.status = "invalidated" => request.invalidated
        /\ Metrics[reference.evidence][request.metric] # None
    BY <1>1 DEF IInv, ReferenceAges, ReferenceMeasured
  <2>3. table[e].status \in {"active", "invalidated"}
    BY <1>1, <2>1, <2>2, RowFields DEF Tables
  <2> QED BY <2>1, <2>2, <2>3 DEF Eligible
<1>14. Lists(reference, items, more, searched', removed, withdrawn)
    BY <1>1, <1>5, <1>12, <1>13 DEF Lists
<1>7. reference.status = "invalidated" => request.invalidated
    BY <1>1 DEF IInv, ReferenceAges
<1>8. ASSUME NEW e \in DOMAIN items
      PROVE  /\ Experiment[e] = About(request)
             /\ items[e].status = "invalidated" => request.invalidated
    BY <1>1, <1>3, <1>4, <1>6 DEF About
<1>9. ASSUME ~removed, NEW e \in DOMAIN items, items[e].is_reference
      PROVE  /\ items[e].evidence = reference.evidence
             /\ items[e].comparability # "incompatible"
             /\ reference.status = "invalidated" => items[e].status = "invalidated"
             /\ items[e].status = "invalidated" => reference.status = "invalidated" \/ withdrawn
  <2>1. e = request.execution /\ rows[e] = table[e]
    BY <1>3, <1>4, <1>6, <1>9
  <2>2. /\ rows[e].evidence = reference.evidence
        /\ reference.status = "invalidated" => rows[e].status = "invalidated"
        /\ rows[e].status = "invalidated" => reference.status = "invalidated" \/ withdrawn
    BY <1>1, <1>9, <2>1 DEF IInv, ReferenceAges
  <2>3. metric(rows[e]) = metric(reference)
    BY <2>2
  <2> HIDE DEF metric
  <2>4. items[e].comparability # "incompatible"
    BY <1>6, <2>3, NeverIncompatibleWithItself
  <2> QED BY <1>6, <1>9, <2>2, <2>4
<1>10. Showable(reference, items, removed, withdrawn)
    BY <1>7, <1>8, <1>9 DEF Showable
<1> QED BY <1>1, <1>3, <1>5, <1>10, <1>14, SuccessStep DEF more

\* A row that stays keeps its evidence, and its invalidation.
Kept ==
    /\ table' \in Tables
    /\ \A d \in Executions : table[d] # None /\ table'[d] # None =>
          /\ table'[d].evidence = table[d].evidence
          /\ table[d].status = "invalidated" => table'[d].status = "invalidated"
    /\ \E e : Taken(table)' \subseteq Taken(table) \cup {e}

LEMMA OthersKeep == ASSUME IInv, Others PROVE Kept
<1>1. PICK c \in Clients \ {Tool}, e \in Executions :
          \/ \E s \in Snapshots : Store!Take(c, e, s)
          \/ \E why \in Reasons : Store!Withdraw(c, e, why)
          \/ Store!Remove(c, e)
    BY DEF Others
<1>2. table \in Tables
    BY DEF IInv, TypeOK
<1>3. ASSUME NEW s \in Snapshots, Store!Take(c, e, s) PROVE Kept
  <2>1. table[e] = None /\ table' = [table EXCEPT ![e] = Active(s)]
    BY <1>3, SameOperators DEF Store!Take
  <2>2. Active(s) \in Rows
    BY DEF Active, Rows, ActiveRows
  <2> QED BY <1>2, <2>1, <2>2 DEF Kept, Tables, Taken
<1>4. ASSUME NEW why \in Reasons, Store!Withdraw(c, e, why) PROVE Kept
  <2>1. table[e] # None /\ table' = [table EXCEPT ![e] = Invalidated(table[e], why)]
    BY <1>4, SameOperators DEF Store!Withdraw
  <2>2. table[e] \in Rows
    BY <1>2, <2>1 DEF Tables
  <2>3. /\ Invalidated(table[e], why) \in Rows
        /\ Invalidated(table[e], why).evidence = table[e].evidence
        /\ Invalidated(table[e], why).status = "invalidated"
    BY <2>2 DEF Invalidated, Rows, ActiveRows, InvalidatedRows
  <2> QED BY <1>2, <2>1, <2>3 DEF Kept, Tables, Taken
<1>5. CASE Store!Remove(c, e)
  <2>1. table' = [table EXCEPT ![e] = None]
    BY <1>5 DEF Store!Remove
  <2> QED BY <1>2, <2>1 DEF Kept, Tables, Taken
<1> QED BY <1>1, <1>3, <1>4, <1>5

LEMMA OthersStep == ASSUME IInv, Others PROVE IInv'
<1>1. UNCHANGED <<pc, reference>> /\ result' = None
    BY DEF Others
<1>2. NothingHidden' /\ SelfConsistent' /\ FirstMatches'
    BY <1>1, Silent
<1>3. pc # "idle" => UNCHANGED <<request, searched>>
    BY DEF Others, history
<1>4. removed' \in BOOLEAN /\ withdrawn' \in BOOLEAN
    BY DEF Others, history, IInv, TypeOK
<1>5. searched' \in Tables
  <2>1. EmptyTable \in Tables
    BY DEF EmptyTable, Tables
  <2> QED BY <2>1 DEF Others, history, IInv, TypeOK
<1>6. TypeOK'
  <2>1. request' = request \/ request' = None
    BY DEF Others
  <2> QED BY <1>1, <1>3, <1>4, <1>5, <2>1, OthersKeep DEF IInv, TypeOK, Kept
<1>7. Working'
    BY <1>1, <1>3 DEF IInv, Working, Authorized, About
<1>8. ReferenceAges'
  <2> SUFFICES ASSUME pc' = "searching" PROVE ReferenceAges'
    BY DEF ReferenceAges
  <2> DEFINE e == request.execution
  <2>1. pc = "searching" /\ request' = request /\ e \in Executions
    BY <1>1, <1>3, RequestFields DEF IInv, TypeOK
  <2>2. removed' = (removed \/ table'[e] = None)
        /\ withdrawn' = (withdrawn \/ (table'[e] # None /\ table'[e].status = "invalidated"))
    BY <2>1 DEF Others
  <2>3. /\ reference.status = "invalidated" => request.invalidated
        /\ ~removed =>
              /\ table[e] # None /\ table[e].evidence = reference.evidence
              /\ reference.status = "invalidated" => table[e].status = "invalidated"
    BY <2>1 DEF IInv, ReferenceAges
  <2>4. table[e] # None /\ table'[e] # None =>
          /\ table'[e].evidence = table[e].evidence
          /\ table[e].status = "invalidated" => table'[e].status = "invalidated"
    BY <2>1, OthersKeep DEF Kept
  <2> HIDE DEF e
  <2> QED BY <1>1, <2>1, <2>2, <2>3, <2>4 DEF ReferenceAges, e
<1>9. ReferenceMeasured'
    BY <1>1, <1>3 DEF IInv, ReferenceMeasured
<1>10. IsFiniteSet(Taken(table))'
  <2>1. PICK e : Taken(table)' \subseteq Taken(table) \cup {e}
    BY OthersKeep DEF Kept
  <2>2. IsFiniteSet(Taken(table) \cup {e})
    BY FS_AddElement DEF IInv
  <2> QED BY <2>1, <2>2, FS_Subset
<1> QED BY <1>2, <1>6, <1>7, <1>8, <1>9, <1>10 DEF IInv

LEMMA NextIInv == IInv /\ [Next]_vars => IInv'
<1> SUFFICES ASSUME IInv, [Next]_vars PROVE IInv'
    OBVIOUS
<1>1. CASE Invoke          BY <1>1, InvokeStep
<1>2. CASE Fails
  <2>1. PICK code \in {"repository_corrupt", "unsupported_repository_version",
                       "repository_unavailable", "raised"} : Replies(Refused(code))
    BY <1>2 DEF Fails
  <2> QED BY <1>2, <2>1, RefusalStep DEF Fails, history, IInv, TypeOK
<1>3. CASE ReadExecution   BY <1>3, ReadExecutionStep
<1>4. CASE ListHistory     BY <1>4, ListHistoryStep
<1>5. CASE FindCandidates  BY <1>5, FindCandidatesStep
<1>6. CASE Others          BY <1>6, OthersStep
<1>7. CASE UNCHANGED vars
  <2>1. UNCHANGED <<table, pc, request, reference, result, searched, removed, withdrawn>>
    BY <1>7 DEF vars, storeVars, toolVars, history
  <2>2. TypeOK' /\ Working' /\ ReferenceAges'
    BY <2>1 DEF IInv, TypeOK, Working, ReferenceAges, Authorized, About
  <2>3. NothingHidden' /\ SelfConsistent'
    BY <2>1 DEF IInv, NothingHidden, SelfConsistent, Shown, About
  <2>4. FirstMatches'
    BY <2>1 DEF IInv, FirstMatches, ReferenceFound, Shown, Eligible, About
  <2>5. ReferenceMeasured' /\ IsFiniteSet(Taken(table))'
    BY <2>1 DEF IInv, ReferenceMeasured, Taken
  <2> QED BY <2>2, <2>3, <2>4, <2>5 DEF IInv
<1> QED BY <1>1, <1>2, <1>3, <1>4, <1>5, <1>6, <1>7 DEF Next

----------------------------------------------------------------------------

\* The invariant holds in every reachable state.
THEOREM ToolsInvariant == Spec => []IInv
<1> QED BY InitIInv, NextIInv, PTL DEF Spec

\* Whatever other clients do to the store, every variable keeps to its values.
THEOREM ToolsTyped == Spec => []TypeOK
<1>1. IInv => TypeOK
    BY DEF IInv
<1> QED BY <1>1, ToolsInvariant, PTL

\* For every scope: no reply shows another experiment, nor invalidated evidence
\* without both permission and request (invoke_tool, memory_tools.py).
THEOREM NothingHiddenShown == Spec => []NothingHidden
<1>1. IInv => NothingHidden
    BY DEF IInv
<1> QED BY <1>1, ToolsInvariant, PTL

\* A comparison may tell its reference in two stages of its life, and never as
\* incompatible with itself, unless it was deleted meanwhile (_query, memory_tools.py).
THEOREM ReferenceTellsItself == Spec => []SelfConsistent
<1>1. IInv => SelfConsistent
    BY DEF IInv
<1> QED BY <1>1, ToolsInvariant, PTL

\* For every store, filter and limit: a reply shows the first of all it may show
\* and says whether there is more, and a comparison whose filters its reference
\* passes finds it (find_historical_comparison_candidates, experiment_memory.py).
THEOREM FirstMatchesShown == Spec => []FirstMatches
<1>1. IInv => FirstMatches
    BY DEF IInv
<1> QED BY <1>1, ToolsInvariant, PTL

-----------------------------------------------------------------------------
(* Sums *)

\* A family of finite sets that holds each set whose parts with one element less
\* it holds, holds them all.
LEMMA ByRemoval ==
    ASSUME NEW D, IsFiniteSet(D), NEW P \in SUBSET SUBSET D,
           \A S \in SUBSET D : (\A e \in S : S \ {e} \in P) => S \in P
    PROVE  P = SUBSET D
<1> DEFINE others == (SUBSET D) \ P
           T == {n \in Nat : \E S \in others : Cardinality(S) = n}
<1>1. SUFFICES ASSUME others # {} PROVE FALSE
  OBVIOUS
<1>2. \A S \in SUBSET D : IsFiniteSet(S) /\ Cardinality(S) \in Nat
  BY FS_Subset, FS_CardinalityType
<1>3. T # {}
  BY <1>1, <1>2
<1>4. PICK n \in T : \A m \in T : n <= m
  <2> T \in SUBSET Nat
    OBVIOUS
  <2> HIDE DEF T
  <2> QED BY <1>3, Least
<1>5. PICK S \in others : Cardinality(S) = n
  BY <1>4
<1>6. ASSUME NEW e \in S PROVE S \ {e} \in P
  <2>1. S \ {e} \in SUBSET D /\ Cardinality(S \ {e}) = n - 1
    BY <1>2, <1>5, FS_RemoveElement
  <2>2. n - 1 \notin T
    BY <1>4
  <2>3. n - 1 \in Nat
    BY <1>2, <2>1
  <2> QED BY <2>1, <2>2, <2>3
<1> QED BY <1>5, <1>6

LEMMA EveryNumber ==
    ASSUME NEW T \in SUBSET Nat, 0 \in T, \A n \in T : n + 1 \in T
    PROVE  T = Nat
<1> DEFINE U == Nat \ T
<1>1. SUFFICES ASSUME U # {} PROVE FALSE
  OBVIOUS
<1>2. PICK n \in U : \A m \in U : n <= m
  <2> U \in SUBSET Nat
    OBVIOUS
  <2> HIDE DEF U
  <2> QED BY <1>1, Least
<1>3. n - 1 \in Nat /\ n - 1 \notin U
  BY <1>2
<1> QED BY <1>2, <1>3

Some(S) == CHOOSE e \in S : TRUE
SumFrom(f, s, S) == IF S = {} THEN 0 ELSE f[Some(S)] + s[S \ {Some(S)}]

\* The sums of a function over the parts of its domain.
Sums(f) == CHOOSE s : s = [S \in SUBSET DOMAIN f |-> SumFrom(f, s, S)]

LEMMA SumIs == \A f : Sum(f) = Sums(f)[DOMAIN f]
BY DEF Sum, Sums, SumFrom, Some

LEMMA SumsExist ==
    ASSUME NEW f, IsFiniteSet(DOMAIN f)
    PROVE  \A S \in SUBSET DOMAIN f : Sums(f)[S] = SumFrom(f, Sums(f), S)
<1> DEFINE D == DOMAIN f
           Upto(s, n) == \A S \in SUBSET D : Cardinality(S) <= n => s[S] = SumFrom(f, s, S)
           T == {n \in Nat : \E s : Upto(s, n)}
<1>1. \A S \in SUBSET D : IsFiniteSet(S) /\ Cardinality(S) \in Nat
  BY FS_Subset, FS_CardinalityType
<1>2. \A S \in SUBSET D : S # {} =>
        Some(S) \in S /\ S \ {Some(S)} \in SUBSET D
        /\ Cardinality(S \ {Some(S)}) = Cardinality(S) - 1
  BY <1>1, FS_RemoveElement DEF Some
<1>3. 0 \in T
  <2> DEFINE s == [S \in SUBSET D |-> 0]
  <2>1. ASSUME NEW S \in SUBSET D, Cardinality(S) <= 0 PROVE s[S] = SumFrom(f, s, S)
    <3>1. S = {}
      BY <1>1, <2>1, FS_EmptySet
    <3> QED BY <3>1 DEF SumFrom
  <2>2. Upto(s, 0)
    BY <2>1
  <2> HIDE DEF s, Upto
  <2> QED BY <2>2
<1>4. ASSUME NEW n \in T PROVE n + 1 \in T
  <2>1. PICK s : Upto(s, n)
    BY <1>4
  <2> DEFINE t == [S \in SUBSET D |-> IF Cardinality(S) <= n THEN s[S] ELSE SumFrom(f, s, S)]
  <2>2. ASSUME NEW S \in SUBSET D, Cardinality(S) <= n + 1 PROVE t[S] = SumFrom(f, t, S)
    <3>1. t[S] = SumFrom(f, s, S)
      BY <2>1
    <3>2. CASE S = {}
      BY <3>1, <3>2 DEF SumFrom
    <3>3. CASE S # {}
      <4>1. S \ {Some(S)} \in SUBSET D /\ Cardinality(S \ {Some(S)}) <= n
        <5>1. Cardinality(S) - 1 <= n
          BY <1>1, <2>2
        <5> QED BY <1>2, <3>3, <5>1
      <4>2. t[S \ {Some(S)}] = s[S \ {Some(S)}]
        BY <4>1
      <4> HIDE DEF t
      <4> QED BY <3>1, <3>3, <4>2 DEF SumFrom
    <3> QED BY <3>2, <3>3
  <2>3. Upto(t, n + 1)
    BY <2>2
  <2> HIDE DEF t, Upto
  <2> QED BY <1>4, <2>3
<1>5. T = Nat
  <2> T \in SUBSET Nat
    OBVIOUS
  <2> HIDE DEF T
  <2> QED BY <1>3, <1>4, EveryNumber
<1>6. PICK s : Upto(s, Cardinality(D))
  BY <1>1, <1>5
<1>7. \A S \in SUBSET D : s[S] = SumFrom(f, s, S)
  <2>1. ASSUME NEW S \in SUBSET D PROVE Cardinality(S) <= Cardinality(D)
    BY FS_Subset
  <2> QED BY <1>6, <2>1
<1> DEFINE t == [S \in SUBSET D |-> s[S]]
<1>8. ASSUME NEW S \in SUBSET D PROVE t[S] = SumFrom(f, t, S)
  <2>1. S # {} => t[S \ {Some(S)}] = s[S \ {Some(S)}]
    BY <1>2
  <2>2. t[S] = s[S]
    OBVIOUS
  <2> HIDE DEF t
  <2> QED BY <1>7, <2>1, <2>2 DEF SumFrom
<1>9. t = [S \in SUBSET D |-> SumFrom(f, t, S)]
  <2>1. t = [S \in SUBSET D |-> t[S]]
    OBVIOUS
  <2> HIDE DEF t
  <2> QED BY <1>8, <2>1
<1>10. Sums(f) = [S \in SUBSET D |-> SumFrom(f, Sums(f), S)]
  <2> HIDE DEF t
  <2> QED BY <1>9 DEF Sums
<1> QED BY <1>10

\* The sums of numbers, which element is taken first.
LEMMA SumsAre ==
    ASSUME NEW D, IsFiniteSet(D), NEW f \in [D -> Int]
    PROVE  /\ \A S \in SUBSET D : Sums(f)[S] \in Int
           /\ Sums(f)[{}] = 0
           /\ \A S \in SUBSET D : \A e \in S : Sums(f)[S] = f[e] + Sums(f)[S \ {e}]
<1> DEFINE s == Sums(f)
           P == {S \in SUBSET D : s[S] \in Int}
           Q == {S \in SUBSET D : \A e \in S : s[S] = f[e] + s[S \ {e}]}
<1>1. ASSUME NEW S \in SUBSET D
      PROVE  /\ S = {} => s[S] = 0
             /\ S # {} => Some(S) \in S /\ s[S] = f[Some(S)] + s[S \ {Some(S)}]
  <2>1. s[S] = SumFrom(f, s, S)
    BY SumsExist
  <2>2. S # {} => Some(S) \in S
    BY DEF Some
  <2> QED BY <2>1, <2>2 DEF SumFrom
<1> HIDE DEF s
<1>2. P = SUBSET D
  <2>1. ASSUME NEW S \in SUBSET D, \A e \in S : S \ {e} \in P PROVE S \in P
    <3>1. CASE S = {}
      <4>1. s[S] = 0
        BY <1>1, <3>1
      <4>2. s[S] \in Int
        BY <4>1
      <4> QED BY <4>2
    <3>2. CASE S # {}
      <4>1. Some(S) \in S /\ s[S] = f[Some(S)] + s[S \ {Some(S)}]
        BY <1>1, <3>2
      <4>2. s[S \ {Some(S)}] \in Int /\ f[Some(S)] \in Int
        BY <2>1, <4>1
      <4> QED BY <4>1, <4>2
    <3> QED BY <3>1, <3>2
  <2>2. P \in SUBSET SUBSET D
    OBVIOUS
  <2> HIDE DEF P
  <2> QED BY <2>1, <2>2, ByRemoval
<1>3. Q = SUBSET D
  <2>1. ASSUME NEW S \in SUBSET D, \A e \in S : S \ {e} \in Q PROVE S \in Q
    <3>1. SUFFICES ASSUME NEW e \in S PROVE s[S] = f[e] + s[S \ {e}]
      BY DEF Q
    <3> DEFINE c == Some(S)
    <3>2. c \in S /\ s[S] = f[c] + s[S \ {c}]
      BY <1>1
    <3>3. CASE e # c
      <4>1. e \in S \ {c} /\ c \in S \ {e} /\ (S \ {c}) \ {e} = (S \ {e}) \ {c}
        BY <3>2, <3>3
      <4>2. s[S \ {c}] = f[e] + s[(S \ {c}) \ {e}]
        BY <2>1, <3>2, <4>1
      <4>3. s[S \ {e}] = f[c] + s[(S \ {e}) \ {c}]
        BY <2>1, <4>1
      <4>4. f[e] \in Int /\ f[c] \in Int /\ s[(S \ {e}) \ {c}] \in Int
        <5>1. e \in D /\ c \in D /\ (S \ {e}) \ {c} \in SUBSET D
          BY <3>2
        <5> QED BY <1>2, <5>1
      <4> DEFINE rest == (S \ {e}) \ {c}
      <4>5. /\ s[S] = f[c] + s[S \ {c}] /\ s[S \ {c}] = f[e] + s[rest]
            /\ s[S \ {e}] = f[c] + s[rest]
        BY <3>2, <4>1, <4>2, <4>3
      <4>6. f[e] \in Int /\ f[c] \in Int /\ s[rest] \in Int
        BY <4>4
      <4> HIDE DEF c, rest
      <4> QED BY <4>5, <4>6
    <3> QED BY <3>2, <3>3
  <2>2. Q \in SUBSET SUBSET D
    OBVIOUS
  <2> HIDE DEF Q
  <2> QED BY <2>1, <2>2, ByRemoval
<1> QED BY <1>1, <1>2, <1>3 DEF s

LEMMA SumInt ==
    ASSUME NEW D, IsFiniteSet(D), NEW f \in [D -> Int]
    PROVE  Sum(f) \in Int
BY SumsAre, SumIs

\* The sum of differences is the difference of the sums.
LEMMA SumOfDifferences ==
    ASSUME NEW D, IsFiniteSet(D), NEW l \in [D -> Int], NEW r \in [D -> Int],
           NEW d \in [D -> Int], \A e \in D : d[e] = r[e] - l[e]
    PROVE  Sum(d) = Sum(r) - Sum(l)
<1>0. ASSUME NEW f \in [D -> Int], NEW S \in SUBSET D, NEW e \in S
      PROVE  Sums(f)[S] = f[e] + Sums(f)[S \ {e}]
  BY SumsAre
<1> DEFINE P == {S \in SUBSET D : Sums(d)[S] = Sums(r)[S] - Sums(l)[S]}
<1>1. ASSUME NEW S \in SUBSET D, \A e \in S : S \ {e} \in P PROVE S \in P
  <2>1. CASE S = {}
    BY <2>1, SumsAre
  <2>2. CASE S # {}
    <3>1. PICK e \in S : TRUE
      BY <2>2
    <3>2. /\ Sums(d)[S] = d[e] + Sums(d)[S \ {e}]
          /\ Sums(r)[S] = r[e] + Sums(r)[S \ {e}]
          /\ Sums(l)[S] = l[e] + Sums(l)[S \ {e}]
      <4>1. Sums(d)[S] = d[e] + Sums(d)[S \ {e}]
        BY <1>0
      <4>2. Sums(r)[S] = r[e] + Sums(r)[S \ {e}]
        BY <1>0
      <4>3. Sums(l)[S] = l[e] + Sums(l)[S \ {e}]
        BY <1>0
      <4> QED BY <4>1, <4>2, <4>3
    <3>3. Sums(d)[S \ {e}] = Sums(r)[S \ {e}] - Sums(l)[S \ {e}]
      BY <1>1
    <3>4. Sums(r)[S \ {e}] \in Int /\ Sums(l)[S \ {e}] \in Int
      BY SumsAre
    <3> QED BY <3>2, <3>3, <3>4
  <2> QED BY <2>1, <2>2
<1>2. P = SUBSET D
  <2>1. P \in SUBSET SUBSET D
    OBVIOUS
  <2> HIDE DEF P
  <2> QED BY <1>1, <2>1, ByRemoval
<1>3. D \in P
  BY <1>2
<1> QED BY <1>3, SumIs

\* A sum is within as many times the bound of its terms.
LEMMA SumWithin ==
    ASSUME NEW D, IsFiniteSet(D), NEW d \in [D -> Int], NEW max \in Nat,
           \A e \in D : d[e] <= max /\ -d[e] <= max
    PROVE  Sum(d) <= max * Cardinality(D) /\ -Sum(d) <= max * Cardinality(D)
<1> DEFINE P == {S \in SUBSET D : /\ Sums(d)[S] <= max * Cardinality(S)
                                  /\ -Sums(d)[S] <= max * Cardinality(S)}
<1>1. ASSUME NEW S \in SUBSET D, \A e \in S : S \ {e} \in P PROVE S \in P
  <2>1. CASE S = {}
    <3>1. Cardinality(S) = 0 /\ max * 0 = 0
      BY <2>1, FS_EmptySet
    <3> QED BY <2>1, <3>1, SumsAre
  <2>2. CASE S # {}
    <3>1. PICK e \in S : TRUE
      BY <2>2
    <3>2. Sums(d)[S] = d[e] + Sums(d)[S \ {e}] /\ Sums(d)[S \ {e}] \in Int
      <4>1. S \ {e} \in SUBSET D
        OBVIOUS
      <4>2. \A R \in SUBSET D : Sums(d)[R] \in Int
        BY SumsAre
      <4>3. Sums(d)[S] = d[e] + Sums(d)[S \ {e}]
        BY SumsAre
      <4> QED BY <4>1, <4>2, <4>3
    <3>3. PICK n \in Nat : n = Cardinality(S \ {e}) /\ Cardinality(S) = n + 1
      <4>1. IsFiniteSet(S)
        BY FS_Subset
      <4>2. IsFiniteSet(S \ {e}) /\ Cardinality(S \ {e}) = Cardinality(S) - 1
            /\ Cardinality(S) \in Nat
        BY <4>1, FS_RemoveElement, FS_CardinalityType
      <4>3. Cardinality(S \ {e}) \in Nat
        BY <4>2, FS_CardinalityType
      <4> QED BY <4>2, <4>3
    <3>4. Sums(d)[S \ {e}] <= max * n /\ -Sums(d)[S \ {e}] <= max * n
      BY <1>1, <3>3
    <3>5. max * (n + 1) = max * n + max /\ max * n \in Int
      OBVIOUS
    <3>6. d[e] \in Int /\ d[e] <= max /\ -d[e] <= max
      OBVIOUS
    <3> QED BY <3>2, <3>3, <3>4, <3>5, <3>6
  <2> QED BY <2>1, <2>2
<1>2. P = SUBSET D
  <2>1. P \in SUBSET SUBSET D
    OBVIOUS
  <2> HIDE DEF P
  <2> QED BY <1>1, <2>1, ByRemoval
<1>3. D \in P
  BY <1>2
<1> QED BY <1>3, SumIs

\* A sum does not depend on how its terms are named.
LEMMA SumRenamed ==
    ASSUME NEW D, IsFiniteSet(D), NEW E, IsFiniteSet(E), NEW h \in [D -> E],
           \A p, q \in D : h[p] = h[q] => p = q, \A e \in E : \E p \in D : h[p] = e,
           NEW f \in [E -> Int], NEW g \in [D -> Int], \A p \in D : g[p] = f[h[p]]
    PROVE  Sum(g) = Sum(f)
<1> DEFINE Image(S) == {h[p] : p \in S}
           P == {S \in SUBSET D : Sums(g)[S] = Sums(f)[Image(S)]}
<1>1. ASSUME NEW S \in SUBSET D, \A e \in S : S \ {e} \in P PROVE S \in P
  <2>1. CASE S = {}
    <3>1. Image(S) = {}
      BY <2>1
    <3> HIDE DEF Image
    <3> QED BY <2>1, <3>1, SumsAre
  <2>2. CASE S # {}
    <3>1. PICK e \in S : TRUE
      BY <2>2
    <3>2. Image(S) \in SUBSET E /\ h[e] \in Image(S) /\ Image(S \ {e}) = Image(S) \ {h[e]}
      OBVIOUS
    <3>3. Sums(g)[S \ {e}] = Sums(f)[Image(S \ {e})]
      BY <1>1
    <3>4. g[e] = f[h[e]]
      OBVIOUS
    <3> HIDE DEF Image
    <3>5. Sums(g)[S] = g[e] + Sums(g)[S \ {e}]
      BY SumsAre
    <3>6. Sums(f)[Image(S)] = f[h[e]] + Sums(f)[Image(S) \ {h[e]}]
      BY <3>2, SumsAre
    <3> QED BY <3>2, <3>3, <3>4, <3>5, <3>6
  <2> QED BY <2>1, <2>2
<1>2. P = SUBSET D
  <2>1. P \in SUBSET SUBSET D
    OBVIOUS
  <2> HIDE DEF P
  <2> QED BY <1>1, <2>1, ByRemoval
<1>3. D \in P /\ Image(D) = E
  BY <1>2
<1> HIDE DEF Image
<1> QED BY <1>3, SumIs

-----------------------------------------------------------------------------
(* What the tools answer of valid inputs: artifacts *)

LEMMA EntryFound ==
    ASSUME NEW s, NEW a, NEW i \in DOMAIN s, s[i].id = a, Artifact!Distinct(s)
    PROVE  Artifact!Entry(s, a) = s[i] /\ \A j \in DOMAIN s : s[j].id = a => j = i
<1> DEFINE c == CHOOSE j \in DOMAIN s : s[j].id = a
<1>1. c \in DOMAIN s /\ s[c].id = a
  OBVIOUS
<1>2. Artifact!Entry(s, a) = s[c]
  BY DEF Artifact!Entry
<1> HIDE DEF c
<1> QED BY <1>1, <1>2 DEF Artifact!Distinct

\* How a field is compared, when both sides say something and not.
LEMMA ComparedTells ==
    ASSUME NEW x, NEW y, NEW observed \in BOOLEAN
    PROVE  LET told == Artifact!Compared(x, y, observed)
           IN  /\ told = "match" <=> observed /\ x # None /\ y # None /\ x = y
               /\ told = "mismatch" <=> observed /\ x # None /\ y # None /\ x # y
               /\ told = "not_evaluated" <=> ~observed
BY DEF Artifact!Compared

LEMMA DigestTells ==
    ASSUME NEW x \in Digests \cup {None}, NEW y \in Digests \cup {None}
    PROVE  /\ Artifact!Digest(x) = None <=> x = None
           /\ x # None /\ y # None =>
                (Artifact!Digest(x) = Artifact!Digest(y) <=> Lower[x] = Lower[y])
BY BoundToolsAssumption DEF Artifact!Digest

LEMMA ArtifactsShown ==
    ASSUME NEW d \in Seq(Artifact!Declarations), NEW r \in Seq(Artifact!Observations),
           NEW named, Artifact!Valid(d, r)
    PROVE  Artifact!Shown(d, r, Artifact!Report(d, r, named).artifacts)
<1> DEFINE ids == {d[i].id : i \in DOMAIN d}
           rows == [a \in ids |-> Artifact!Row(Artifact!Entry(d, a), Artifact!Entry(r, a))]
<1>1. Artifact!Report(d, r, named).artifacts = rows
  BY DEF Artifact!Report
<1>2. Artifact!Distinct(d) /\ Artifact!Distinct(r)
  BY DEF Artifact!Valid
<1>3. DOMAIN rows = ids
  OBVIOUS
<1>4. ASSUME NEW a \in ids, NEW f \in {"size", "sha", "locator"}
      PROVE  LET left  == {d[i][f] : i \in Artifact!Named(d, a)} \ {None}
                 right == {r[i][f] : i \in Artifact!Observed(r, a)} \ {None}
                 row   == rows[a]
             IN  /\ row[f] = "match" <=> \E x \in left, y \in right : Artifact!SameCase(f, x, y)
                 /\ row[f] = "mismatch" <=>
                      \E x \in left, y \in right : ~Artifact!SameCase(f, x, y)
                 /\ row[f] = "not_evaluated" <=> Artifact!Observed(r, a) = {}
  <2> DEFINE left  == {d[i][f] : i \in Artifact!Named(d, a)} \ {None}
             right == {r[i][f] : i \in Artifact!Observed(r, a)} \ {None}
             row   == rows[a]
             said(o) == IF o = None THEN [size |-> None, sha |-> None, locator |-> None] ELSE o
  <2>1. PICK i \in DOMAIN d : d[i].id = a
    OBVIOUS
  <2>2. Artifact!Named(d, a) = {i} /\ Artifact!Entry(d, a) = d[i]
        /\ d[i] \in Artifact!Declarations
    BY <1>2, <2>1, EntryFound DEF Artifact!Named
  <2>3. left = {d[i][f]} \ {None}
    BY <2>2
  <2> DEFINE o == Artifact!Entry(r, a)
             observed == o # None /\ o.status = "observed"
  <2>4. row = Artifact!Row(d[i], o)
    BY <2>2
  <2>5. /\ o = None => Artifact!Named(r, a) = {} /\ right = {} /\ ~observed
        /\ o # None => /\ o \in Artifact!Observations
                       /\ right = IF observed THEN {o[f]} \ {None} ELSE {}
        /\ observed \in BOOLEAN /\ (observed <=> Artifact!Observed(r, a) # {})
    <3>1. CASE \E j \in DOMAIN r : r[j].id = a
      <4>1. PICK j \in DOMAIN r : r[j].id = a
        BY <3>1
      <4>2. o = r[j] /\ Artifact!Named(r, a) = {j} /\ r[j] \in Artifact!Observations
        BY <1>2, <4>1, EntryFound DEF Artifact!Named
      <4>3. o # None
        BY <4>2, BoundToolsAssumption
      <4>4. Artifact!Observed(r, a) = IF r[j].status = "observed" THEN {j} ELSE {}
        BY <4>2 DEF Artifact!Observed
      <4> HIDE DEF o
      <4> QED BY <4>2, <4>3, <4>4
    <3>2. CASE ~\E j \in DOMAIN r : r[j].id = a
      <4>1. o = None
        BY <3>2 DEF Artifact!Entry
      <4>2. Artifact!Named(r, a) = {} /\ Artifact!Observed(r, a) = {}
        BY <3>2 DEF Artifact!Named, Artifact!Observed
      <4> HIDE DEF o
      <4> QED BY <4>1, <4>2
    <3> QED BY <3>1, <3>2
  <2> HIDE DEF o, left, right, row
  <2> DEFINE x == d[i][f]
             y == said(o)[f]
             same == IF f = "sha" THEN Artifact!Digest(x) = Artifact!Digest(y) ELSE x = y
  <2>6. /\ row[f] = "match" <=> observed /\ x # None /\ y # None /\ same
        /\ row[f] = "mismatch" <=> observed /\ x # None /\ y # None /\ ~same
        /\ row[f] = "not_evaluated" <=> ~observed
    <3>1. CASE f = "sha"
      <4>1. x \in Digests \cup {None} /\ y \in Digests \cup {None}
        BY <2>2, <2>5, <3>1 DEF Artifact!Declarations, Artifact!Observations, Artifact!Opt
      <4>2. row[f] = Artifact!Compared(Artifact!Digest(x), Artifact!Digest(y), observed)
        BY <2>4, <3>1 DEF Artifact!Row
      <4> HIDE DEF x, y, observed
      <4> QED BY <2>5, <3>1, <4>1, <4>2, ComparedTells, DigestTells
    <3>2. CASE f # "sha"
      <4>1. row[f] = Artifact!Compared(x, y, observed)
        BY <2>4, <3>2 DEF Artifact!Row
      <4> HIDE DEF x, y, observed
      <4> QED BY <2>5, <3>2, <4>1, ComparedTells
    <3> QED BY <3>1, <3>2
  <2>7. x # None /\ y # None /\ observed => (same <=> Artifact!SameCase(f, x, y))
    <3>1. CASE f = "sha"
      <4>1. x \in Digests \cup {None} /\ y \in Digests \cup {None}
        BY <2>2, <2>5, <3>1 DEF Artifact!Declarations, Artifact!Observations, Artifact!Opt
      <4> HIDE DEF x, y
      <4> QED BY <3>1, <4>1, DigestTells DEF Artifact!SameCase
    <3>2. CASE f # "sha"
      BY <3>2 DEF Artifact!SameCase
    <3> QED BY <3>1, <3>2
  <2>8. observed => right = {y} \ {None}
    BY <2>5
  <2>9. ~observed => right = {}
    BY <2>5
  <2>10. left = {x} \ {None}
    BY <2>3
  <2> HIDE DEF x, y, observed, same
  <2>11. (\E u \in left, v \in right : Artifact!SameCase(f, u, v)) <=>
           observed /\ x # None /\ y # None /\ Artifact!SameCase(f, x, y)
    BY <2>5, <2>8, <2>9, <2>10
  <2>12. (\E u \in left, v \in right : ~Artifact!SameCase(f, u, v)) <=>
           observed /\ x # None /\ y # None /\ ~Artifact!SameCase(f, x, y)
    BY <2>5, <2>8, <2>9, <2>10
  <2>13. /\ row[f] = "match" <=> \E u \in left, v \in right : Artifact!SameCase(f, u, v)
         /\ row[f] = "mismatch" <=> \E u \in left, v \in right : ~Artifact!SameCase(f, u, v)
         /\ row[f] = "not_evaluated" <=> Artifact!Observed(r, a) = {}
    BY <2>5, <2>6, <2>7, <2>11, <2>12
  <2> QED BY <2>13 DEF left, right, row
<1> HIDE DEF rows, ids
<1>5. Artifact!Shown(d, r, rows)
  BY <1>3, <1>4, Zenon DEF Artifact!Shown, ids
<1> QED BY <1>1, <1>5

-----------------------------------------------------------------------------
(* What a host makes of its data *)

LEMMA PartialStays ==
    ASSUME NEW V, NEW f, IsPartial(f, V), NEW e, NEW v, e \in DOMAIN f => v \in V
    PROVE  IsPartial([f EXCEPT ![e] = v], V) /\ IsPartial(Without(f, e), V)
<1>1. DOMAIN [f EXCEPT ![e] = v] = DOMAIN f /\ DOMAIN Without(f, e) = DOMAIN f \ {e}
  BY DEF Without
<1>2. IsFiniteSet(DOMAIN f \ {e})
  BY FS_Subset DEF IsPartial
<1>3. [f EXCEPT ![e] = v] \in [DOMAIN f -> V]
  BY DEF IsPartial
<1>4. Without(f, e) \in [DOMAIN f \ {e} -> V]
  BY DEF IsPartial, Without
<1> QED BY <1>1, <1>2, <1>3, <1>4 DEF IsPartial

LEMMA SnapshotStays ==
    ASSUME NEW s \in SnapshotRecords, NEW x \in ChangedSnapshots(s)
    PROVE  x \in SnapshotRecords
<1> DEFINE E == [Targets -> [fault : Faults, value : Int]]
<1>1. s \in [declares : Snapshots, seed : Opt(Seeds), protocol : Opt(ProtocolRefs),
             evidence : Opt(E)]
  BY DEF SnapshotRecords
<1> SUFFICES x \in [declares : Snapshots, seed : Opt(Seeds), protocol : Opt(ProtocolRefs),
                    evidence : Opt(E)]
  BY DEF SnapshotRecords
<1>2. CASE \E d \in Snapshots : x = [s EXCEPT !.declares = d]
  BY <1>1, <1>2
<1>3. CASE \E d \in Opt(Seeds) : x = [s EXCEPT !.seed = d]
  BY <1>1, <1>3
<1>4. CASE \E d \in Opt(ProtocolRefs) : x = [s EXCEPT !.protocol = d]
  BY <1>1, <1>4
<1>5. CASE x = [s EXCEPT !.evidence = None]
  BY <1>1, <1>5 DEF Opt
<1>6. CASE s.evidence # None /\ \E t \in Targets, d \in SomeFaults :
             x = [s EXCEPT !.evidence[t].fault = d]
  <2>1. PICK t \in Targets, d \in SomeFaults : x = [s EXCEPT !.evidence[t].fault = d]
    BY <1>6
  <2>2. s.evidence \in E
    BY <1>1, <1>6 DEF Opt
  <2>3. [s.evidence EXCEPT ![t].fault = d] \in E
    BY <2>2, BoundToolsAssumption
  <2>4. x = [s EXCEPT !.evidence = [s.evidence EXCEPT ![t].fault = d]]
    BY <2>1
  <2>5. [s.evidence EXCEPT ![t].fault = d] \in Opt(E)
    BY <2>3 DEF Opt
  <2> HIDE DEF E
  <2> QED BY <1>1, <2>4, <2>5
<1>7. CASE s.evidence # None /\ \E t \in Targets, d \in Numbers :
             x = [s EXCEPT !.evidence[t].value = d]
  <2>1. PICK t \in Targets, d \in Numbers : x = [s EXCEPT !.evidence[t].value = d]
    BY <1>7
  <2>2. s.evidence \in E
    BY <1>1, <1>7 DEF Opt
  <2>3. [s.evidence EXCEPT ![t].value = d] \in E
    BY <2>2, BoundToolsAssumption
  <2>4. x = [s EXCEPT !.evidence = [s.evidence EXCEPT ![t].value = d]]
    BY <2>1
  <2>5. [s.evidence EXCEPT ![t].value = d] \in Opt(E)
    BY <2>3 DEF Opt
  <2> HIDE DEF E
  <2> QED BY <1>1, <2>4, <2>5
<1>8. \/ \E d \in Snapshots : x = [s EXCEPT !.declares = d]
      \/ \E d \in Opt(Seeds) : x = [s EXCEPT !.seed = d]
      \/ \E d \in Opt(ProtocolRefs) : x = [s EXCEPT !.protocol = d]
      \/ x = [s EXCEPT !.evidence = None]
      \/ s.evidence # None /\ \E t \in Targets, d \in SomeFaults :
             x = [s EXCEPT !.evidence[t].fault = d]
      \/ s.evidence # None /\ \E t \in Targets, d \in Numbers :
             x = [s EXCEPT !.evidence[t].value = d]
  BY DEF ChangedSnapshots
<1> QED BY <1>2, <1>3, <1>4, <1>5, <1>6, <1>7, <1>8

AsGroup(experiment, protocol, seeds, snapshots, section, selectors) ==
    [experiment |-> experiment, protocol |-> protocol, seeds |-> seeds,
     snapshots |-> snapshots, section |-> section, selectors |-> selectors]

Parts(experiment, protocol, seeds, snapshots, section, selectors) ==
    /\ experiment \in Experiments /\ protocol \in Opt(ProtocolRefs)
    /\ IsPartial(seeds, Opt(Seeds)) /\ IsPartial(snapshots, SnapshotRecords)
    /\ section \in [Targets -> {"validation", "test"}]
    /\ selectors = [t \in Targets |-> selectors[t]]
    /\ \A t \in Targets : IsPartial(selectors[t], [SelectorFields -> Opt(SelectorValues)])

LEMMA MadeOfParts ==
    \A g : IsGroup(g) <=>
      /\ g = AsGroup(g.experiment, g.protocol, g.seeds, g.snapshots, g.section, g.selectors)
      /\ Parts(g.experiment, g.protocol, g.seeds, g.snapshots, g.section, g.selectors)
BY DEF IsGroup, AsGroup, Parts

LEMMA PartsMake ==
    ASSUME NEW x, NEW p, NEW s, NEW r, NEW c, NEW l, Parts(x, p, s, r, c, l)
    PROVE  IsGroup(AsGroup(x, p, s, r, c, l))
<1> DEFINE g == AsGroup(x, p, s, r, c, l)
<1>1. /\ g.experiment = x /\ g.protocol = p /\ g.seeds = s /\ g.snapshots = r
      /\ g.section = c /\ g.selectors = l
  BY DEF AsGroup
<1> HIDE DEF g
<1>2. g = AsGroup(x, p, s, r, c, l)
  BY DEF g
<1>3. IsGroup(g)
  BY <1>1, <1>2, MadeOfParts
<1> QED BY <1>3 DEF g

LEMMA GroupStays ==
    ASSUME NEW g, IsGroup(g), NEW h \in ChangedGroups(g)
    PROVE  IsGroup(h)
<1> DEFINE x == g.experiment
           p == g.protocol
           s == g.seeds
           r == g.snapshots
           c == g.section
           l == g.selectors
<1>1. g = AsGroup(x, p, s, r, c, l) /\ Parts(x, p, s, r, c, l)
  BY MadeOfParts
<1>2. CASE \E v \in Experiments : h = [g EXCEPT !.experiment = v]
  <2>1. PICK v \in Experiments : h = [g EXCEPT !.experiment = v]
    BY <1>2
  <2>2. h = AsGroup(v, p, s, r, c, l)
    <3> HIDE DEF x, p, s, r, c, l
    <3> QED BY <1>1, <2>1 DEF AsGroup
  <2>3. Parts(v, p, s, r, c, l)
    BY <1>1 DEF Parts
  <2> QED BY <2>2, <2>3, PartsMake
<1>3. CASE \E v \in Opt(ProtocolRefs) : h = [g EXCEPT !.protocol = v]
  <2>1. PICK v \in Opt(ProtocolRefs) : h = [g EXCEPT !.protocol = v]
    BY <1>3
  <2>2. h = AsGroup(x, v, s, r, c, l)
    <3> HIDE DEF x, p, s, r, c, l
    <3> QED BY <1>1, <2>1 DEF AsGroup
  <2>3. Parts(x, v, s, r, c, l)
    BY <1>1 DEF Parts
  <2> QED BY <2>2, <2>3, PartsMake
<1>4. CASE \E v : IsPartial(v, Opt(Seeds)) /\ h = [g EXCEPT !.seeds = v]
  <2>1. PICK v : IsPartial(v, Opt(Seeds)) /\ h = [g EXCEPT !.seeds = v]
    BY <1>4
  <2>2. h = AsGroup(x, p, v, r, c, l)
    <3> HIDE DEF x, p, s, r, c, l
    <3> QED BY <1>1, <2>1 DEF AsGroup
  <2>3. Parts(x, p, v, r, c, l)
    BY <1>1, <2>1 DEF Parts
  <2> QED BY <2>2, <2>3, PartsMake
<1>5. CASE \E v : IsPartial(v, SnapshotRecords) /\ h = [g EXCEPT !.snapshots = v]
  <2>1. PICK v : IsPartial(v, SnapshotRecords) /\ h = [g EXCEPT !.snapshots = v]
    BY <1>5
  <2>2. h = AsGroup(x, p, s, v, c, l)
    <3> HIDE DEF x, p, s, r, c, l
    <3> QED BY <1>1, <2>1 DEF AsGroup
  <2>3. Parts(x, p, s, v, c, l)
    BY <1>1, <2>1 DEF Parts
  <2> QED BY <2>2, <2>3, PartsMake
<1>6. CASE \E t \in Targets, v \in {"validation", "test"} : h = [g EXCEPT !.section[t] = v]
  <2>1. PICK t \in Targets, v \in {"validation", "test"} :
             h = [g EXCEPT !.section = [g.section EXCEPT ![t] = v]]
    BY <1>6
  <2> DEFINE w == [c EXCEPT ![t] = v]
  <2>2. h = AsGroup(x, p, s, r, w, l)
    <3>1. h = [g EXCEPT !.section = w]
      BY <2>1
    <3> HIDE DEF x, p, s, r, c, l, w
    <3> QED BY <1>1, <3>1 DEF AsGroup
  <2>3. w \in [Targets -> {"validation", "test"}]
    BY <1>1 DEF Parts
  <2>4. Parts(x, p, s, r, w, l)
    BY <1>1, <2>3 DEF Parts
  <2> QED BY <2>2, <2>4, PartsMake
<1>7. CASE \E e : \E t \in Targets, v \in Opt(SelectorValues) :
             h = [g EXCEPT !.selectors[t][e]["direction"] = v]
  <2>0. PICK e : \E t \in Targets, v \in Opt(SelectorValues) :
             h = [g EXCEPT !.selectors[t][e]["direction"] = v]
    BY <1>7
  <2>1. PICK t \in Targets, v \in Opt(SelectorValues) :
             h = [g EXCEPT !.selectors[t][e]["direction"] = v]
    BY <2>0
  <2> DEFINE m == [l[t] EXCEPT ![e] = [l[t][e] EXCEPT !["direction"] = v]]
             w == [l EXCEPT ![t] = m]
  <2>2. h = AsGroup(x, p, s, r, c, w)
    <3>1. h = [g EXCEPT !.selectors = w]
      BY <2>1
    <3> HIDE DEF x, p, s, r, c, l, w
    <3> QED BY <1>1, <3>1 DEF AsGroup
  <2>3. IsPartial(m, [SelectorFields -> Opt(SelectorValues)])
    <3>1. IsPartial(l[t], [SelectorFields -> Opt(SelectorValues)])
      BY <1>1 DEF Parts
    <3>2. e \in DOMAIN l[t] => [l[t][e] EXCEPT !["direction"] = v]
                                  \in [SelectorFields -> Opt(SelectorValues)]
      <4> HIDE DEF l
      <4> QED BY <3>1 DEF IsPartial
    <3> HIDE DEF l
    <3> QED BY <3>1, <3>2, PartialStays
  <2>4. l = [u \in Targets |-> l[u]]
    BY <1>1 DEF Parts
  <2>5. w = [u \in Targets |-> w[u]]
    <3> HIDE DEF l, m
    <3> QED BY <2>4
  <2>6. ASSUME NEW u \in Targets
        PROVE  IsPartial(w[u], [SelectorFields -> Opt(SelectorValues)])
    <3>1. w[u] = IF u = t THEN m ELSE l[u]
      <4> HIDE DEF l, m
      <4> QED BY <2>4
    <3>2. IsPartial(l[u], [SelectorFields -> Opt(SelectorValues)])
      BY <1>1 DEF Parts
    <3> HIDE DEF w, m, l
    <3> QED BY <2>3, <3>1, <3>2
  <2>7. Parts(x, p, s, r, c, w)
    <3> HIDE DEF w, x, p, s, r, c, l
    <3> QED BY <1>1, <2>5, <2>6 DEF Parts
  <2> QED BY <2>2, <2>7, PartsMake
<1>8. CASE \E e \in Roster(g), v \in Opt(Seeds) : h = [g EXCEPT !.seeds[e] = v]
  <2>1. PICK e \in Roster(g), v \in Opt(Seeds) :
             h = [g EXCEPT !.seeds = [g.seeds EXCEPT ![e] = v]]
    BY <1>8
  <2>2. IsPartial([s EXCEPT ![e] = v], Opt(Seeds))
    BY <1>1, PartialStays DEF Parts
  <2> QED BY <1>4, <2>1, <2>2
<1>9. CASE \E e \in Roster(g) : h = [g EXCEPT !.seeds = Without(g.seeds, e)]
  <2>1. PICK e \in Roster(g) : h = [g EXCEPT !.seeds = Without(s, e)]
    BY <1>9
  <2>2. IsPartial(Without(s, e), Opt(Seeds))
    <3>1. IsPartial(s, Opt(Seeds)) /\ None \in Opt(Seeds)
      BY <1>1 DEF Parts, Opt
    <3> QED BY <3>1, PartialStays
  <2> QED BY <1>4, <2>1, <2>2
<1>10. CASE \E e \in Supplied(g) : h = [g EXCEPT !.snapshots = Without(g.snapshots, e)]
  <2>1. PICK e \in Supplied(g) : h = [g EXCEPT !.snapshots = Without(r, e)]
    BY <1>10
  <2>2. IsPartial(Without(r, e), SnapshotRecords)
    <3>1. IsPartial(r, SnapshotRecords) /\ r[e] \in SnapshotRecords
      BY <1>1 DEF Parts, IsPartial, Supplied
    <3> QED BY <3>1, PartialStays
  <2> QED BY <1>5, <2>1, <2>2
<1>11. CASE \E e \in Supplied(g) : \E v \in ChangedSnapshots(g.snapshots[e]) :
              h = [g EXCEPT !.snapshots[e] = v]
  <2>1. PICK e \in Supplied(g) : \E v \in ChangedSnapshots(g.snapshots[e]) :
              h = [g EXCEPT !.snapshots[e] = v]
    BY <1>11
  <2>2. PICK v \in ChangedSnapshots(r[e]) :
             h = [g EXCEPT !.snapshots = [g.snapshots EXCEPT ![e] = v]]
    BY <2>1
  <2>3. IsPartial(r, SnapshotRecords) /\ r[e] \in SnapshotRecords
    BY <1>1 DEF Parts, IsPartial, Supplied
  <2>4. v \in SnapshotRecords
    BY <2>2, <2>3, SnapshotStays
  <2>5. IsPartial([r EXCEPT ![e] = v], SnapshotRecords)
    BY <2>3, <2>4, PartialStays
  <2> QED BY <1>5, <2>2, <2>5
<1> DEFINE N == {[g EXCEPT !.experiment = v] : v \in Experiments}
           P == {[g EXCEPT !.protocol = v] : v \in Opt(ProtocolRefs)}
           D == {[g EXCEPT !.seeds[e] = v] : e \in Roster(g), v \in Opt(Seeds)}
           W == {[g EXCEPT !.seeds = Without(g.seeds, e)] : e \in Roster(g)}
           R == {[g EXCEPT !.snapshots = Without(g.snapshots, e)] : e \in Supplied(g)}
           C == UNION {{[g EXCEPT !.snapshots[e] = v] : v \in ChangedSnapshots(g.snapshots[e])} :
                       e \in Supplied(g)}
           T == {[g EXCEPT !.section[t] = v] : t \in Targets, v \in {"validation", "test"}}
           L == {[g EXCEPT !.selectors[t][e]["direction"] = v] :
                 t \in Targets, e \in Roster(g), v \in Opt(SelectorValues)}
<1>12. h \in N \cup P \cup D \cup W \cup R \cup C \cup T \cup L
  BY DEF ChangedGroups
<1>13. h \in N => IsGroup(h)
  BY <1>2
<1>14. h \in P => IsGroup(h)
  BY <1>3
<1>15. h \in D => IsGroup(h)
  BY <1>8
<1>16. h \in W => IsGroup(h)
  BY <1>9
<1>17. h \in R => IsGroup(h)
  BY <1>10
<1>18. h \in C => IsGroup(h)
  BY <1>11
<1>19. h \in T => IsGroup(h)
  BY <1>6
<1>20. h \in L => IsGroup(h)
  BY <1>7
<1> HIDE DEF N, P, D, W, R, C, T, L
<1> QED BY <1>12, <1>13, <1>14, <1>15, <1>16, <1>17, <1>18, <1>19, <1>20

-----------------------------------------------------------------------------
\* Two groups and what is declared of both.
AsGrouping(a, b, pairs, mapping) == [a |-> a, b |-> b, pairs |-> pairs, mapping |-> mapping]

LEMMA GroupingStays ==
    ASSUME kind # "artifacts", NEW in, IsGrouping(in), NEW out \in Changed(in)
    PROVE  IsGrouping(out)
<1> DEFINE a == in.a
           b == in.b
           p == in.pairs
           m == in.mapping
<1>1. /\ in = AsGrouping(a, b, p, m)
      /\ IsGroup(a) /\ IsGroup(b)
      /\ p \subseteq [a : Executions, b : Executions] /\ m \subseteq [a : Targets, b : Targets]
  BY DEF IsGrouping, AsGrouping
<1>2. ASSUME NEW c, NEW d, NEW q, NEW n, IsGroup(c), IsGroup(d),
             q \subseteq [a : Executions, b : Executions], n \subseteq [a : Targets, b : Targets]
      PROVE  IsGrouping(AsGrouping(c, d, q, n))
  <2> DEFINE g == AsGrouping(c, d, q, n)
  <2>1. g.a = c /\ g.b = d /\ g.pairs = q /\ g.mapping = n
    BY DEF AsGrouping
  <2> HIDE DEF g
  <2>2. g = [a |-> g.a, b |-> g.b, pairs |-> g.pairs, mapping |-> g.mapping]
    BY <2>1 DEF g, AsGrouping
  <2>3. IsGrouping(g)
    BY <1>2, <2>1, <2>2 DEF IsGrouping
  <2> QED BY <2>3 DEF g
<1> HIDE DEF a, b, p, m
<1>3. CASE \E g : IsGroup(g) /\ out = [in EXCEPT !.a = g]
  <2>1. PICK g : IsGroup(g) /\ out = [in EXCEPT !.a = g]
    BY <1>3
  <2>2. out = AsGrouping(g, b, p, m)
    BY <1>1, <2>1 DEF AsGrouping
  <2> QED BY <1>1, <1>2, <2>1, <2>2
<1>4. CASE \E g : IsGroup(g) /\ out = [in EXCEPT !.b = g]
  <2>1. PICK g : IsGroup(g) /\ out = [in EXCEPT !.b = g]
    BY <1>4
  <2>2. out = AsGrouping(a, g, p, m)
    BY <1>1, <2>1 DEF AsGrouping
  <2> QED BY <1>1, <1>2, <2>1, <2>2
<1>5. CASE \E q \in SUBSET [a : Executions, b : Executions] : out = [in EXCEPT !.pairs = q]
  <2>1. PICK q \in SUBSET [a : Executions, b : Executions] : out = [in EXCEPT !.pairs = q]
    BY <1>5
  <2>2. out = AsGrouping(a, b, q, m)
    BY <1>1, <2>1 DEF AsGrouping
  <2> QED BY <1>1, <1>2, <2>1, <2>2
<1>6. CASE \E n \in SUBSET [a : Targets, b : Targets] : out = [in EXCEPT !.mapping = n]
  <2>1. PICK n \in SUBSET [a : Targets, b : Targets] : out = [in EXCEPT !.mapping = n]
    BY <1>6
  <2>2. out = AsGrouping(a, b, p, n)
    BY <1>1, <2>1 DEF AsGrouping
  <2> QED BY <1>1, <1>2, <2>1, <2>2
<1> DEFINE A == {[in EXCEPT !.a = g] : g \in ChangedGroups(in.a)}
           B == {[in EXCEPT !.b = g] : g \in ChangedGroups(in.b) \cup {in.a}}
           C == ChangedPairings(in)
<1>7. out \in A \cup B \cup C
  BY DEF Changed
<1>8. out \in A => IsGrouping(out)
  <2> SUFFICES ASSUME NEW g \in ChangedGroups(in.a), out = [in EXCEPT !.a = g]
               PROVE  IsGrouping(out)
    OBVIOUS
  <2>1. IsGroup(g)
    BY <1>1, GroupStays DEF a
  <2> QED BY <1>3, <2>1
<1>9. out \in B => IsGrouping(out)
  <2> SUFFICES ASSUME NEW g \in ChangedGroups(in.b) \cup {in.a}, out = [in EXCEPT !.b = g]
               PROVE  IsGrouping(out)
    OBVIOUS
  <2>1. IsGroup(g)
    BY <1>1, GroupStays DEF a, b
  <2> QED BY <1>4, <2>1
<1>10. out \in C => IsGrouping(out)
  <2> SUFFICES ASSUME out \in C PROVE IsGrouping(out)
    OBVIOUS
  <2>1. CASE \E x \in in.pairs : out = [in EXCEPT !.pairs = in.pairs \ {x}]
    <3>1. PICK x \in in.pairs : out = [in EXCEPT !.pairs = in.pairs \ {x}]
      BY <2>1
    <3>2. in.pairs \ {x} \in SUBSET [a : Executions, b : Executions]
      BY <1>1 DEF p
    <3> QED BY <1>5, <3>1, <3>2
  <2>2. CASE \E d \in Executions, e \in Executions :
               out = [in EXCEPT !.pairs = in.pairs \cup {[a |-> d, b |-> e]}]
    <3>1. PICK d \in Executions, e \in Executions :
               out = [in EXCEPT !.pairs = in.pairs \cup {[a |-> d, b |-> e]}]
      BY <2>2
    <3>2. in.pairs \cup {[a |-> d, b |-> e]} \in SUBSET [a : Executions, b : Executions]
      BY <1>1 DEF p
    <3> QED BY <1>5, <3>1, <3>2
  <2>3. CASE \E x \in in.mapping : out = [in EXCEPT !.mapping = in.mapping \ {x}]
    <3>1. PICK x \in in.mapping : out = [in EXCEPT !.mapping = in.mapping \ {x}]
      BY <2>3
    <3>2. in.mapping \ {x} \in SUBSET [a : Targets, b : Targets]
      BY <1>1 DEF m
    <3> QED BY <1>6, <3>1, <3>2
  <2> QED BY <2>1, <2>2, <2>3 DEF ChangedPairings
<1> QED BY <1>7, <1>8, <1>9, <1>10

-----------------------------------------------------------------------------
(* What a bound tool answers *)

\* The host's data is of the types its tool takes.
Typed(in) ==
    IF kind = "artifacts"
    THEN in \in [declared : Seq(Artifact!Declarations), reports : Seq(Artifact!Observations),
                 named : BOOLEAN]
    ELSE IsGrouping(in)

\* What is bound is what the tool was built from, and it answers from that.
BInv ==
    /\ kind \in Kinds /\ Typed(inputs)
    /\ bound = given
    /\ given # None => Typed(given) /\ Valid(given)
    /\ given # None /\ reply # None => reply = Answer(given)

LEMMA ListsStay ==
    ASSUME kind = "artifacts", NEW in, Typed(in), NEW out \in Changed(in)
    PROVE  Typed(out)
<1> DEFINE D == Artifact!Declarations
           O == Artifact!Observations
           R == [declared : Seq(D), reports : Seq(O), named : BOOLEAN]
<1>1. in \in R
  BY DEF Typed
<1>2. out \in ChangedLists(in)
  BY DEF Changed
<1>3. SUFFICES out \in R
  BY DEF Typed
<1> HIDE DEF D, O
<1>4. CASE \E d \in D : out = [in EXCEPT !.declared = Append(@, d)]
  <2>1. PICK d \in D : out = [in EXCEPT !.declared = Append(in.declared, d)]
    BY <1>4
  <2>2. Append(in.declared, d) \in Seq(D)
    BY <1>1
  <2> QED BY <1>1, <2>1, <2>2
<1>5. CASE \E o \in O : out = [in EXCEPT !.reports = Append(@, o)]
  <2>1. PICK o \in O : out = [in EXCEPT !.reports = Append(in.reports, o)]
    BY <1>5
  <2>2. Append(in.reports, o) \in Seq(O)
    BY <1>1
  <2> QED BY <1>1, <2>1, <2>2
<1>6. CASE 1 \in DOMAIN in.declared /\ out = [in EXCEPT !.declared = Tail(@)]
  <2>1. in.declared \in Seq(D) /\ in.declared # <<>>
    BY <1>1, <1>6
  <2>2. Tail(in.declared) \in Seq(D)
    BY <2>1
  <2> QED BY <1>1, <1>6, <2>2
<1>7. CASE 1 \in DOMAIN in.reports /\ out = [in EXCEPT !.reports = Tail(@)]
  <2>1. in.reports \in Seq(O) /\ in.reports # <<>>
    BY <1>1, <1>7
  <2>2. Tail(in.reports) \in Seq(O)
    BY <2>1
  <2> QED BY <1>1, <1>7, <2>2
<1> QED BY <1>2, <1>4, <1>5, <1>6, <1>7 DEF ChangedLists, D, O

LEMMA DataStays ==
    ASSUME NEW in, Typed(in), NEW out \in Changed(in)
    PROVE  Typed(out)
<1>1. CASE kind = "artifacts"
  BY <1>1, ListsStay
<1>2. CASE kind # "artifacts"
  BY <1>2, GroupingStays DEF Typed
<1> QED BY <1>1, <1>2

LEMMA BInvInductive == BoundInit /\ [][BoundNext]_boundVars => []BInv
<1>1. BoundInit => BInv
  <2> SUFFICES ASSUME BoundInit PROVE BInv
    OBVIOUS
  <2>1. kind \in Kinds /\ bound = given /\ given = None
    BY DEF BoundInit
  <2>2. Typed(inputs)
    <3>1. CASE kind = "artifacts"
      <4>1. PICK named \in BOOLEAN :
                 inputs = [declared |-> <<>>, reports |-> <<>>, named |-> named]
        BY <3>1 DEF BoundInit
      <4> QED BY <3>1, <4>1 DEF Typed
    <3>2. CASE kind # "artifacts"
      BY <3>2, BoundToolsAssumption DEF Typed, BoundInit
    <3> QED BY <3>1, <3>2
  <2> QED BY <2>1, <2>2 DEF BInv
<1>2. BInv /\ [BoundNext]_boundVars => BInv'
  <2> SUFFICES ASSUME BInv, [BoundNext]_boundVars PROVE BInv'
    OBVIOUS
  <2>3. CASE HostEdits
    <3>1. inputs' \in Changed(inputs) /\ UNCHANGED <<kind, bound, given, reply>>
      BY <2>3 DEF HostEdits
    <3>2. Typed(inputs')
      BY <3>1, DataStays DEF BInv
    <3>3. Typed(inputs)'
      BY <3>1, <3>2 DEF Typed
    <3>4. (given # None => Typed(given) /\ Valid(given))'
      BY <3>1 DEF BInv, Typed, Valid
    <3>5. (given # None /\ reply # None => reply = Answer(given))'
      BY <3>1 DEF BInv, Answer, Valid
    <3> QED BY <3>1, <3>3, <3>4, <3>5 DEF BInv
  <2>4. CASE Build
    <3>1. UNCHANGED <<kind, inputs>> /\ bound = None
      BY <2>4 DEF Build
    <3>2. CASE Valid(inputs) /\ bound' = inputs /\ given' = inputs /\ reply' = None
      <4>1. Typed(given)' /\ Valid(given)' /\ Typed(inputs)'
        BY <3>1, <3>2 DEF BInv, Typed, Valid
      <4> QED BY <3>1, <3>2, <4>1 DEF BInv
    <3>3. CASE reply' = Rejected /\ UNCHANGED <<bound, given>>
      <4>1. given' = None /\ bound' = given' /\ Typed(inputs)'
        BY <3>1, <3>3 DEF BInv, Typed
      <4> QED BY <3>1, <4>1 DEF BInv
    <3> QED BY <2>4, <3>2, <3>3 DEF Build
  <2>5. CASE InvokeTool
    <3>1. UNCHANGED <<kind, inputs, bound, given>> /\ reply' = Answer(bound)
      BY <2>5 DEF InvokeTool
    <3>2. Typed(inputs)' /\ (given # None => Typed(given) /\ Valid(given))'
      BY <3>1 DEF BInv, Typed, Valid
    <3>3. (given # None /\ reply # None => reply = Answer(given))'
      BY <3>1 DEF BInv, Answer, Valid
    <3> QED BY <3>1, <3>2, <3>3 DEF BInv
  <2>6. CASE UNCHANGED boundVars
    <3>1. UNCHANGED <<kind, inputs, bound, given, reply>>
      BY <2>6 DEF boundVars
    <3>2. Typed(inputs)' /\ (given # None => Typed(given) /\ Valid(given))'
      BY <3>1 DEF BInv, Typed, Valid
    <3>3. (given # None /\ reply # None => reply = Answer(given))'
      BY <3>1 DEF BInv, Answer, Valid
    <3> QED BY <3>1, <3>2, <3>3 DEF BInv
  <2> QED BY <2>3, <2>4, <2>5, <2>6 DEF BoundNext
<1> QED BY <1>1, <1>2, PTL

\* A bound tool keeps what it was built from, which was valid, and its last reply
\* is what the core returns for that (invoke_tool).
THEOREM BoundInvariant == BoundSpec => []BInv
BY BInvInductive DEF BoundSpec

-----------------------------------------------------------------------------
(* What is agreed in a group whose numbers are used *)

LEMMA GroupFacts ==
    ASSUME NEW g, IsGroup(g), ValidGroup(g)
    PROVE  /\ IsFiniteSet(Roster(g)) /\ IsFiniteSet(Supplied(g))
           /\ Roster(g) \subseteq Executions /\ Supplied(g) \subseteq Roster(g)
           /\ \A e \in Supplied(g) : g.snapshots[e] \in SnapshotRecords
           /\ \A t \in Targets :
                g.selectors[t] \in [Roster(g) -> [SelectorFields -> Opt(SelectorValues)]]
BY DEF IsGroup, ValidGroup, Roster, Supplied, IsPartial

\* Each item is in some pair, and two of them are one.
LEMMA PairsCover ==
    ASSUME NEW S, NEW d \in S, NEW e \in S
    PROVE  /\ d # e => <<d, e>> \in Pairs(S)
           /\ \E c \in S : <<d, c>> \in Pairs(S)
<1>1. CASE Cardinality(S) = 1
  <2>1. Pairs(S) = S \X S
    BY <1>1 DEF Pairs
  <2> QED BY <2>1
<1>2. CASE Cardinality(S) # 1
  <2>1. Pairs(S) = {p \in S \X S : p[1] # p[2]}
    BY <1>2 DEF Pairs
  <2>2. PICK c \in S : c # d
    <3>1. S # {d}
      BY <1>2, FS_Singleton
    <3> QED BY <3>1
  <2>3. <<d, c>> \in S \X S /\ <<d, e>> \in S \X S
    OBVIOUS
  <2> QED BY <2>1, <2>2, <2>3
<1> QED BY <1>1, <1>2

LEMMA WorstAgrees ==
    ASSUME NEW statuses, NEW bad, Worst(statuses, bad) \notin {bad, "unknown"}
    PROVE  bad \notin statuses /\ "unknown" \notin statuses
BY DEF Worst

\* A set that holds not more than one thing, apart from one.
LEMMA OnlyOne ==
    ASSUME NEW S, IsFiniteSet(S), Cardinality(S) <= 1, NEW x \in S, NEW y \in S
    PROVE  x = y
<1>1. SUFFICES ASSUME x # y PROVE FALSE
  OBVIOUS
<1>2. IsFiniteSet({x}) /\ Cardinality({x}) = 1
  BY FS_Singleton
<1>3. Cardinality({x} \cup {y}) = Cardinality({x}) + 1
  <2>1. y \notin {x}
    BY <1>1
  <2> QED BY <1>2, <2>1, FS_AddElement
<1>4. Cardinality({x} \cup {y}) <= Cardinality(S)
  <2>1. {x} \cup {y} \in SUBSET S
    OBVIOUS
  <2> QED BY <2>1, FS_Subset
<1>5. Cardinality(S) \in Nat
  BY FS_CardinalityType
<1> QED BY <1>2, <1>3, <1>4, <1>5

LEMMA ProtocolsFinite ==
    ASSUME NEW g, IsFiniteSet(Supplied(g))
    PROVE  IsFiniteSet(Protocols(g) \ {None})
<1> DEFINE S == Supplied(g)
           T == {g.snapshots[e].protocol : e \in S}
           f == [e \in S |-> g.snapshots[e].protocol]
<1>1. f \in Surjection(S, T)
  BY DEF Surjection
<1>2. IsFiniteSet(T)
  <2> HIDE DEF f, T
  <2> QED BY <1>1, FS_Surjection
<1>3. IsFiniteSet(T \cup {g.protocol})
  <2> HIDE DEF T
  <2> QED BY <1>2, FS_AddElement
<1>4. Protocols(g) \ {None} \in SUBSET (T \cup {g.protocol})
  BY DEF Protocols
<1> QED BY <1>3, <1>4, FS_Subset

\* A gate that is open, what it is open for.
LEMMA GateOpens ==
    ASSUME NEW g, NEW t, Gate(GroupStatus(g), MetricStatus(g, t)) = "eligible"
    PROVE  /\ Identity(g) \notin {"conflict", "unknown"}
           /\ MetricStatus(g, t) \notin {"incompatible", "unknown"}
           /\ ~(Cardinality(Protocols(g) \ {None}) > 1)
           /\ None \notin Protocols(g) /\ UnexpectedSeeds(g) = {}
           /\ \E e \in Roster(g) : Available(g, e)
BY DEF Gate, GroupStatus, GroupVerdict

LEMMA OpenAgrees ==
    ASSUME NEW g, IsGroup(g), ValidGroup(g), NEW t \in Targets,
           Gate(GroupStatus(g), MetricStatus(g, t)) = "eligible"
    PROVE  AllAgree(g, t)
<1> DEFINE S == Supplied(g)
<1>1. IsFiniteSet(S) /\ S \subseteq Roster(g)
  BY GroupFacts
<1>2. ASSUME NEW e \in Roster(g) PROVE Experiment[e] = g.experiment
  <2>1. Identity(g) \notin {"conflict", "unknown"}
    BY GateOpens
  <2> DEFINE X == {"conflict" : d \in {d \in Roster(g) : Experiment[d] # g.experiment}}
  <2>2. "conflict" \notin X
    <3> DEFINE one(d, c) == IF Experiment[d] # Experiment[c] THEN "conflict"
                      ELSE Consistency(g.snapshots[d].declares, g.snapshots[c].declares)
               Y == {one(p[1], p[2]) : p \in Pairs(Supplied(g))}
    <3>1. Identity(g) = Worst(Y \cup X, "conflict")
      BY DEF Identity
    <3> HIDE DEF X, Y
    <3> QED BY <2>1, <3>1, WorstAgrees
  <2> QED BY <2>2
<1>3. ASSUME NEW p \in Pairs(S)
      PROVE  Consistency(g.snapshots[p[1]].declares, g.snapshots[p[2]].declares)
               \notin {"conflict", "unknown"}
  <2>1. Identity(g) \notin {"conflict", "unknown"}
    BY GateOpens
  <2> DEFINE X == {"conflict" : d \in {d \in Roster(g) : Experiment[d] # g.experiment}}
             one(d, c) == IF Experiment[d] # Experiment[c] THEN "conflict"
                      ELSE Consistency(g.snapshots[d].declares, g.snapshots[c].declares)
             Y == {one(q[1], q[2]) : q \in Pairs(Supplied(g))}
  <2>2. "conflict" \notin Y /\ "unknown" \notin Y
    <3>1. Identity(g) = Worst(Y \cup X, "conflict")
      BY DEF Identity
    <3> HIDE DEF X, Y
    <3> QED BY <2>1, <3>1, WorstAgrees
  <2>3. one(p[1], p[2]) \in Y
    OBVIOUS
  <2> QED BY <2>2, <2>3
<1>4. ASSUME NEW p \in Pairs(S)
      PROVE  Comparability(Operand(g, t, p[1]), Operand(g, t, p[2]))
               \notin {"incompatible", "unknown"}
  <2>1. MetricStatus(g, t) \notin {"incompatible", "unknown"}
    BY GateOpens
  <2> DEFINE Y == {Comparability(Operand(g, t, q[1]), Operand(g, t, q[2])) :
                     q \in Pairs(Supplied(g))}
  <2>2. "incompatible" \notin Y /\ "unknown" \notin Y
    <3>1. MetricStatus(g, t) = Worst(Y, "incompatible")
      BY DEF MetricStatus
    <3> HIDE DEF Y
    <3> QED BY <2>1, <3>1, WorstAgrees
  <2> QED BY <2>2
<1>5. g.protocol # None /\ \A e \in S : g.snapshots[e].protocol = g.protocol
  <2>1. g.protocol \in Protocols(g) /\ \A e \in S : g.snapshots[e].protocol \in Protocols(g)
    BY DEF Protocols
  <2>2. None \notin Protocols(g)
    BY GateOpens
  <2>3. Cardinality(Protocols(g) \ {None}) <= 1
    <3>1. ~(Cardinality(Protocols(g) \ {None}) > 1)
      BY GateOpens
    <3>2. Cardinality(Protocols(g) \ {None}) \in Nat
      BY <1>1, ProtocolsFinite, FS_CardinalityType
    <3> QED BY <3>1, <3>2
  <2>4. \A x, y \in Protocols(g) \ {None} : x = y
    BY <1>1, <2>3, ProtocolsFinite, OnlyOne
  <2> QED BY <2>1, <2>2, <2>4
<1>6. ASSUME NEW e \in S, g.seeds[e] # None
      PROVE  g.snapshots[e].seed \in {None, g.seeds[e]}
  <2>1. UnexpectedSeeds(g) = {}
    BY GateOpens
  <2> QED BY <1>6, <2>1 DEF UnexpectedSeeds
<1>7. ASSUME NEW d \in S, NEW e \in S, NEW f \in RequiredFields
      PROVE  Operand(g, t, d)[f] # None /\ Operand(g, t, d)[f] = Operand(g, t, e)[f]
  <2>1. ASSUME NEW c \in S, <<d, c>> \in Pairs(S)
        PROVE  Operand(g, t, d)[f] # None /\ Operand(g, t, d)[f] = Operand(g, t, c)[f]
    <3>1. Comparability(Operand(g, t, d), Operand(g, t, c)) \notin {"incompatible", "unknown"}
      <4> DEFINE p == <<d, c>>
      <4>1. p \in Pairs(S) /\ p[1] = d /\ p[2] = c
        BY <2>1
      <4> HIDE DEF p
      <4> QED BY <1>4, <4>1
    <3> QED BY <3>1 DEF Comparability, Mismatched, Undeclared
  <2>2. /\ d # e => <<d, e>> \in Pairs(S)
        /\ \E c \in S : <<d, c>> \in Pairs(S)
    BY PairsCover
  <2> QED BY <2>1, <2>2
<1>8. ASSUME NEW d \in S, NEW e \in S, NEW f \in Fields
      PROVE  /\ Declared[g.snapshots[d].declares][f] # None
             /\ Declared[g.snapshots[d].declares][f] = Declared[g.snapshots[e].declares][f]
  <2>1. ASSUME NEW c \in S, <<d, c>> \in Pairs(S)
        PROVE  /\ Declared[g.snapshots[d].declares][f] # None
               /\ Declared[g.snapshots[d].declares][f] = Declared[g.snapshots[c].declares][f]
    <3>1. Consistency(g.snapshots[d].declares, g.snapshots[c].declares)
            \notin {"conflict", "unknown"}
      <4> DEFINE p == <<d, c>>
      <4>1. p \in Pairs(S) /\ p[1] = d /\ p[2] = c
        BY <2>1
      <4> HIDE DEF p
      <4> QED BY <1>3, <4>1
    <3> QED BY <3>1 DEF Consistency, Mismatches, Missing
  <2>2. /\ d # e => <<d, e>> \in Pairs(S)
        /\ \E c \in S : <<d, c>> \in Pairs(S)
    BY PairsCover
  <2> QED BY <2>1, <2>2
<1> QED BY <1>2, <1>5, <1>6, <1>7, <1>8 DEF AllAgree

-----------------------------------------------------------------------------
(* The row of a target *)

Read(g, t) == [e \in In(g, t, "included") |-> Number(g, t, e)]

LEMMA RowIs ==
    ASSUME NEW g, NEW t
    PROVE  LET row == Aggregate(g, t)
           IN  /\ \/ row.included = Read(g, t)
                  \/ row.included = <<>>
               /\ row.included # <<>> =>
                     /\ Gate(GroupStatus(g), MetricStatus(g, t)) = "eligible"
                     /\ row.included = Read(g, t) /\ ~Overflows(Read(g, t))
               /\ DOMAIN row.included # {} => row.eligibility = "eligible"
               /\ row.eligibility = "eligible" =>
                     /\ Gate(GroupStatus(g), MetricStatus(g, t)) = "eligible"
                     /\ DOMAIN row.included # {}
               /\ row.missing = In(g, t, "missing")
               /\ row.excluded = In(g, t, "excluded")
                                   \cup (In(g, t, "included") \ DOMAIN row.included)
               /\ row.complete <=> DOMAIN row.included = Roster(g)
<1> DEFINE gate == Gate(GroupStatus(g), MetricStatus(g, t))
           overflow == gate = "eligible" /\ Overflows(Read(g, t))
           included == IF gate = "eligible" /\ ~overflow THEN Read(g, t) ELSE <<>>
           row == Aggregate(g, t)
<1>1. /\ row.eligibility = IF gate = "blocked" \/ overflow THEN "blocked"
             ELSE IF gate = "insufficient" \/ DOMAIN included = {} THEN "insufficient"
             ELSE "eligible"
      /\ row.included = included
      /\ row.missing = In(g, t, "missing")
      /\ row.excluded = In(g, t, "excluded") \cup (DOMAIN Read(g, t) \ DOMAIN included)
      /\ row.complete = (DOMAIN included = Roster(g))
  BY DEF Aggregate, TargetRow, Read
<1>2. DOMAIN Read(g, t) = In(g, t, "included")
  BY DEF Read
<1>3. gate \in {"blocked", "insufficient", "eligible"}
  BY DEF Gate
<1>4. DOMAIN included # {} => included # <<>>
  OBVIOUS
<1>5. included # <<>> => gate = "eligible" /\ ~overflow /\ included = Read(g, t)
  OBVIOUS
<1>6. included = Read(g, t) \/ included = <<>>
  OBVIOUS
<1>7. overflow <=> gate = "eligible" /\ Overflows(Read(g, t))
  OBVIOUS
<1>8. row.included # <<>> =>
        gate = "eligible" /\ row.included = Read(g, t) /\ ~Overflows(Read(g, t))
  BY <1>1, <1>5
<1>9. DOMAIN row.included # {} => row.eligibility = "eligible"
  <2> HIDE DEF included, overflow, gate, row
  <2> QED BY <1>1, <1>3, <1>4, <1>5
<1>10. row.eligibility = "eligible" => gate = "eligible" /\ DOMAIN row.included # {}
  <2> HIDE DEF included, overflow, gate, row
  <2> QED BY <1>1, <1>3
<1> HIDE DEF included, overflow, row
<1> QED BY <1>1, <1>2, <1>6, <1>8, <1>9, <1>10 DEF row

LEMMA Counted ==
    ASSUME NEW g, IsGroup(g), ValidGroup(g), NEW t \in Targets
    PROVE  LET row  == Aggregate(g, t)
               used == DOMAIN row.included
           IN  /\ used \cup row.missing \cup row.excluded = Roster(g)
               /\ used \cap row.missing = {} /\ used \cap row.excluded = {}
               /\ row.missing \cap row.excluded = {}
               /\ Cardinality(used) + Cardinality(row.missing) + Cardinality(row.excluded)
                    = Cardinality(Roster(g))
<1> DEFINE row  == Aggregate(g, t)
           used == DOMAIN row.included
           R == Roster(g)
           A == In(g, t, "included")
           M == In(g, t, "missing")
           X == In(g, t, "excluded")
           E == X \cup (A \ used)
<1>1. /\ row.missing = M /\ row.excluded = E
      /\ row.included = Read(g, t) \/ row.included = <<>>
  BY RowIs
<1>2. used \subseteq A
  <2>1. DOMAIN Read(g, t) = A
    BY DEF Read
  <2> HIDE DEF row, A
  <2> QED BY <1>1, <2>1
<1>3. /\ A \cup M \cup X = R
      /\ A \cap M = {} /\ A \cap X = {} /\ M \cap X = {}
  BY DEF In, State
<1>4. IsFiniteSet(R)
  BY GroupFacts
<1> HIDE DEF A, M, X, R, used
<1>5. used \cup M \cup E = R /\ used \cap M = {} /\ used \cap E = {} /\ M \cap E = {}
  BY <1>2, <1>3
<1> HIDE DEF E
<1>6. IsFiniteSet(used) /\ IsFiniteSet(M) /\ IsFiniteSet(E)
  <2>1. used \in SUBSET R /\ M \in SUBSET R /\ E \in SUBSET R
    BY <1>5
  <2> QED BY <1>4, <2>1, FS_Subset
<1>7. Cardinality(used) \in Nat /\ Cardinality(M) \in Nat /\ Cardinality(E) \in Nat
  BY <1>6, FS_CardinalityType
<1>8. /\ IsFiniteSet(used \cup M)
      /\ Cardinality(used \cup M) = Cardinality(used) + Cardinality(M)
  <2>1. /\ IsFiniteSet(used \cup M)
        /\ Cardinality(used \cup M)
             = Cardinality(used) + Cardinality(M) - Cardinality(used \cap M)
    BY <1>6, FS_Union
  <2>2. Cardinality(used \cap M) = 0
    BY <1>5, FS_EmptySet
  <2> QED BY <1>7, <2>1, <2>2
<1>9. Cardinality((used \cup M) \cup E) = Cardinality(used \cup M) + Cardinality(E)
  <2>1. Cardinality((used \cup M) \cup E) = Cardinality(used \cup M) + Cardinality(E)
            - Cardinality((used \cup M) \cap E)
    BY <1>6, <1>8, FS_Union
  <2>2. (used \cup M) \cap E = {}
    BY <1>5
  <2>3. Cardinality((used \cup M) \cap E) = 0
    BY <2>2, FS_EmptySet
  <2> QED BY <1>7, <1>8, <2>1, <2>3
<1>10. Cardinality(used) + Cardinality(M) + Cardinality(E) = Cardinality(R)
  BY <1>5, <1>7, <1>8, <1>9
<1> HIDE DEF row
<1> QED BY <1>1, <1>5, <1>10 DEF used, R, row

\* What is used was read.
LEMMA UsedWasRead ==
    ASSUME NEW g, NEW t, NEW e \in DOMAIN Aggregate(g, t).included
    PROVE  /\ e \in Roster(g) /\ e \in Supplied(g) /\ g.snapshots[e].evidence # None
           /\ g.snapshots[e].evidence[t].fault = "none"
           /\ Aggregate(g, t).included[e] = g.snapshots[e].evidence[t].value
           /\ Aggregate(g, t).included = Read(g, t)
<1>1. Aggregate(g, t).included = Read(g, t)
  <2>1. Aggregate(g, t).included = Read(g, t) \/ Aggregate(g, t).included = <<>>
    BY RowIs
  <2> QED BY <2>1
<1>2. e \in In(g, t, "included") /\ Aggregate(g, t).included[e] = Number(g, t, e)
  BY <1>1 DEF Read
<1>3. /\ e \in Roster(g) /\ e \in Supplied(g) /\ g.snapshots[e].evidence # None
      /\ g.snapshots[e].evidence[t].fault = "none"
  BY <1>2 DEF In, State, Available
<1> QED BY <1>1, <1>2, <1>3 DEF Number, Available

-----------------------------------------------------------------------------
LEMMA AnswersTheGiven ==
    ASSUME BInv, NEW tool, Answered(tool)
    PROVE  /\ kind = tool /\ reply = Answer(given) /\ Typed(given) /\ Valid(given)
           /\ reply.code = "ok"
           /\ reply.report =
                IF kind = "artifacts"
                THEN Artifact!Report(given.declared, given.reports, given.named)
                ELSE IF kind = "aggregate" THEN AggregateGroup(given.a)
                ELSE IF kind = "groups" THEN CompareGroups(given.a, given.b, given.mapping)
                ELSE ComparePairs(given.a, given.b, given.pairs, given.mapping)
<1>1. kind = tool /\ reply = Answer(given) /\ Typed(given) /\ Valid(given)
  BY DEF BInv, Answered
<1> QED BY <1>1 DEF Answer

LEMMA ShownInvariant == BInv => AgreementIsShown
<1> SUFFICES ASSUME BInv, Answered("artifacts")
             PROVE  /\ reply.code = "ok"
                    /\ Artifact!Shown(given.declared, given.reports, reply.report.artifacts)
  BY DEF AgreementIsShown
<1>1. /\ kind = "artifacts" /\ Typed(given) /\ Valid(given) /\ reply.code = "ok"
      /\ reply.report = Artifact!Report(given.declared, given.reports, given.named)
  BY AnswersTheGiven
<1>2. /\ given.declared \in Seq(Artifact!Declarations)
      /\ given.reports \in Seq(Artifact!Observations)
      /\ Artifact!Valid(given.declared, given.reports)
  BY <1>1 DEF Typed, Valid
<1> QED BY <1>1, <1>2, ArtifactsShown

LEMMA CountedInvariant == BInv => ConflictsNeverCounted
<1> SUFFICES ASSUME BInv, Answered("aggregate") PROVE ConflictsNeverCounted
  BY DEF ConflictsNeverCounted
<1> DEFINE g == given.a
<1>1. /\ kind = "aggregate" /\ Typed(given) /\ Valid(given) /\ reply.code = "ok"
      /\ reply.report = AggregateGroup(g)
  BY AnswersTheGiven
<1>2. IsGroup(g) /\ ValidGroup(g)
  BY <1>1 DEF Typed, Valid, IsGrouping
<1>3. ASSUME NEW t \in Targets PROVE reply.report.targets[t] = Aggregate(g, t)
  BY <1>1 DEF AggregateGroup
<1>4. ASSUME NEW t \in Targets
      PROVE  LET row  == reply.report.targets[t]
                 used == DOMAIN row.included
             IN  /\ used \cup row.missing \cup row.excluded = Roster(g)
                 /\ Cardinality(used) + Cardinality(row.missing) + Cardinality(row.excluded)
                        = Cardinality(Roster(g))
                 /\ used # {} => AllAgree(g, t) /\ row.eligibility = "eligible"
                 /\ \A e \in used : /\ g.snapshots[e].evidence[t].fault = "none"
                                    /\ row.included[e] = g.snapshots[e].evidence[t].value
  <2> DEFINE row == Aggregate(g, t)
             used == DOMAIN row.included
  <2>1. /\ used \cup row.missing \cup row.excluded = Roster(g)
        /\ Cardinality(used) + Cardinality(row.missing) + Cardinality(row.excluded)
             = Cardinality(Roster(g))
    BY <1>2, Counted
  <2>2. used # {} => AllAgree(g, t) /\ row.eligibility = "eligible"
    <3> SUFFICES ASSUME used # {} PROVE AllAgree(g, t) /\ row.eligibility = "eligible"
      OBVIOUS
    <3>1. row.eligibility = "eligible"
      BY RowIs
    <3>2. Gate(GroupStatus(g), MetricStatus(g, t)) = "eligible"
      BY <3>1, RowIs
    <3>3. AllAgree(g, t)
      BY <1>2, <3>2, OpenAgrees
    <3> QED BY <3>1, <3>3
  <2>3. \A e \in used : /\ g.snapshots[e].evidence[t].fault = "none"
                        /\ row.included[e] = g.snapshots[e].evidence[t].value
    BY UsedWasRead
  <2> HIDE DEF row, g
  <2> QED BY <1>3, <2>1, <2>2, <2>3 DEF row
<1> QED BY <1>1, <1>4 DEF ConflictsNeverCounted

\* What a bound tool says of artifacts is said of the lists it was built from, and
\* never takes silence on either side for agreement (compare_artifact_descriptors).
THEOREM ShownAsDeclared == BoundSpec => []AgreementIsShown
BY BInvInductive, ShownInvariant, PTL DEF BoundSpec

\* A number that an aggregate uses is of a group whose snapshots all agree, and each
\* execution of the roster is counted once (aggregate_replicate_evidence).
THEOREM CountedInAgreement == BoundSpec => []ConflictsNeverCounted
BY BInvInductive, CountedInvariant, PTL DEF BoundSpec

-----------------------------------------------------------------------------
(* Comparisons from both sides *)

LEMMA ComparabilityMirrors == \A l, r : Comparability(l, r) = Comparability(r, l)
<1> SUFFICES ASSUME NEW l, NEW r PROVE Comparability(l, r) = Comparability(r, l)
  OBVIOUS
<1>1. Mismatched(l, r) = Mismatched(r, l) /\ Undeclared(l, r) = Undeclared(r, l)
  BY DEF Mismatched, Undeclared
<1> QED BY <1>1 DEF Comparability

LEMMA FavorsMirror ==
    ASSUME NEW delta \in Int, NEW direction
    PROVE  Favors(-delta, direction) = Opposite(Favors(delta, direction))
<1>1. CASE delta = 0
  <2>1. -delta = 0
    <3>1. delta <= 0 /\ delta >= 0
      BY <1>1
    <3> QED BY <3>1
  <2>2. Favors(delta, direction) = "equal" /\ Favors(-delta, direction) = "equal"
    BY <1>1, <2>1 DEF Favors
  <2> QED BY <2>2 DEF Opposite
<1>2. CASE delta > 0
  <2>1. ~(-delta > 0) /\ -delta # 0 /\ delta # 0
    BY <1>2
  <2> QED BY <1>2, <2>1 DEF Favors, Opposite
<1>3. CASE delta < 0
  <2>1. -delta > 0 /\ ~(delta > 0) /\ -delta # 0 /\ delta # 0
    BY <1>3
  <2> QED BY <1>3, <2>1 DEF Favors, Opposite
<1> QED BY <1>1, <1>2, <1>3

LEMMA BeyondMirrors ==
    ASSUME NEW amount \in Int, NEW count \in Int
    PROVE  Beyond(-amount, count) <=> Beyond(amount, count)
<1>1. MaxFloat * count \in Int
  BY BoundToolsAssumption
<1> DEFINE most == MaxFloat * count
<1>2. most \in Int
  BY <1>1
<1> HIDE DEF most
<1>3. (-amount > most \/ -(-amount) > most) <=> (amount > most \/ -amount > most)
  BY <1>2
<1> QED BY <1>3 DEF Beyond, most

LEMMA NoneIsNoNumber == None \notin Int /\ None \notin {"a", "b"}
BY BoundToolsAssumption

LEMMA NegatedIs == \A delta \in Int : Negated(delta) = -delta /\ Negated(None) = None
BY NoneIsNoNumber DEF Negated

LEMMA OppositeOfNone == Opposite(None) = None
BY NoneIsNoNumber DEF Opposite

LEMMA ConflictsMirror == \A l, r : SemanticConflicts(l, r) = SemanticConflicts(r, l)
BY DEF SemanticConflicts, Mismatched

LEMMA SidesMirrored ==
    ASSUME NEW a, NEW b, a.value \in Int, b.value \in Int
    PROVE  MirroredSides(CompareSides(a, b), CompareSides(b, a),
                         a.declares["direction"] = b.declares["direction"])
<1> DEFINE aligned(x, y) == x.section = y.section /\ x.fits /\ y.fits
           judged(x, y) == x.status = "available" /\ y.status = "available" /\ aligned(x, y)
           status(x, y) == IF judged(x, y) THEN Comparability(x.declares, y.declares) ELSE None
           computed(x, y) == judged(x, y) /\ status(x, y) # "incompatible"
                               /\ ~Beyond(y.value - x.value, 1)
           delta(x, y) == y.value - x.value
           row(x, y) == CompareSides(x, y)
<1>1. /\ row(a, b).comparability = status(a, b)
      /\ row(b, a).comparability = status(b, a)
      /\ row(a, b).aligned = (aligned(a, b) /\
            (judged(a, b) => SemanticConflicts(a.declares, b.declares) = {}))
      /\ row(b, a).aligned = (aligned(b, a) /\
            (judged(b, a) => SemanticConflicts(b.declares, a.declares) = {}))
      /\ row(a, b).delta = IF computed(a, b) THEN delta(a, b) ELSE None
      /\ row(b, a).delta = IF computed(b, a) THEN delta(b, a) ELSE None
      /\ row(a, b).favors = IF computed(a, b)
                            THEN Favors(delta(a, b), a.declares["direction"]) ELSE None
      /\ row(b, a).favors = IF computed(b, a)
                            THEN Favors(delta(b, a), b.declares["direction"]) ELSE None
  BY DEF CompareSides
<1>2. /\ aligned(a, b) <=> aligned(b, a)
      /\ judged(a, b) <=> judged(b, a)
  OBVIOUS
<1>3. status(a, b) = status(b, a)
  BY <1>2, ComparabilityMirrors
<1>4. delta(a, b) \in Int /\ delta(b, a) = -delta(a, b)
  OBVIOUS
<1> HIDE DEF delta
<1>5. Beyond(delta(b, a), 1) <=> Beyond(delta(a, b), 1)
  BY <1>4, BeyondMirrors
<1>6. computed(a, b) <=> computed(b, a)
  <2> HIDE DEF status, judged
  <2> QED BY <1>2, <1>3, <1>5 DEF delta
<1>7. SemanticConflicts(a.declares, b.declares) = SemanticConflicts(b.declares, a.declares)
  BY ConflictsMirror
<1> HIDE DEF row, computed, status, aligned, judged
<1>8. row(b, a).comparability = row(a, b).comparability
  BY <1>1, <1>3
<1>9. row(b, a).aligned = row(a, b).aligned
  BY <1>1, <1>2, <1>7
<1>10. row(b, a).delta = Negated(row(a, b).delta)
  BY <1>1, <1>4, <1>6, NegatedIs
<1>11. a.declares["direction"] = b.declares["direction"] =>
         row(b, a).favors = Opposite(row(a, b).favors)
  BY <1>1, <1>4, <1>6, FavorsMirror, OppositeOfNone
<1> QED BY <1>8, <1>9, <1>10, <1>11 DEF MirroredSides, row

LEMMA AllSidesMirror == SidesMirror
<1> SUFFICES ASSUME NEW declares \in [RequiredFields -> Opt(SelectorValues)],
                    NEW declared \in [RequiredFields -> Opt(SelectorValues)],
                    NEW x \in Numbers, NEW y \in Numbers,
                    NEW status \in {"available", "missing"}, NEW fits \in BOOLEAN
             PROVE  LET a == [section |-> "test", status |-> "available", value |-> x,
                              fits |-> fits, declares |-> declares]
                        b == [a EXCEPT !.status = status, !.value = y, !.fits = TRUE,
                                       !.declares = declared]
                    IN  MirroredSides(CompareSides(a, b), CompareSides(b, a),
                                      declares["direction"] = declared["direction"])
  BY Zenon DEF SidesMirror
<1> DEFINE a == [section |-> "test", status |-> "available", value |-> x,
                 fits |-> fits, declares |-> declares]
           b == [a EXCEPT !.status = status, !.value = y, !.fits = TRUE, !.declares = declared]
<1>1. /\ a.value \in Int /\ b.value \in Int
      /\ a.declares = declares /\ b.declares = declared
  BY BoundToolsAssumption
<1> HIDE DEF a, b
<1>2. MirroredSides(CompareSides(a, b), CompareSides(b, a),
                    declares["direction"] = declared["direction"])
  BY <1>1, SidesMirrored
<1> QED BY <1>2 DEF a, b

-----------------------------------------------------------------------------
(* Groups *)

LEMMA IncludedNumbers ==
    ASSUME NEW g, IsGroup(g), ValidGroup(g), NEW t \in Targets
    PROVE  LET included == Aggregate(g, t).included
           IN  /\ included \in [DOMAIN included -> Int]
               /\ IsFiniteSet(DOMAIN included) /\ DOMAIN included \subseteq Roster(g)
               /\ Sum(included) \in Int /\ Cardinality(DOMAIN included) \in Nat
<1> DEFINE f == Aggregate(g, t).included
<1>1. ASSUME NEW e \in DOMAIN f PROVE e \in Roster(g) /\ f[e] \in Int
  <2>1. /\ e \in Roster(g) /\ e \in Supplied(g) /\ g.snapshots[e].evidence # None
        /\ f[e] = g.snapshots[e].evidence[t].value
    BY UsedWasRead
  <2>2. g.snapshots[e] \in SnapshotRecords
    BY <2>1, GroupFacts
  <2>3. g.snapshots[e].evidence \in [Targets -> [fault : Faults, value : Int]]
    BY <2>1, <2>2 DEF SnapshotRecords, Opt
  <2> QED BY <2>1, <2>3
<1>2. f = [e \in DOMAIN f |-> f[e]]
  <2>1. f = Read(g, t) \/ f = <<>>
    BY RowIs
  <2>2. Read(g, t) = [e \in DOMAIN Read(g, t) |-> Read(g, t)[e]]
    BY DEF Read
  <2>3. <<>> = [e \in DOMAIN <<>> |-> <<>>[e]]
    OBVIOUS
  <2> HIDE DEF f
  <2> QED BY <2>1, <2>2, <2>3
<1> HIDE DEF f
<1>3. f \in [DOMAIN f -> Int]
  BY <1>1, <1>2
<1>4. IsFiniteSet(DOMAIN f) /\ DOMAIN f \subseteq Roster(g)
  <2>1. DOMAIN f \in SUBSET Roster(g) /\ IsFiniteSet(Roster(g))
    BY <1>1, GroupFacts
  <2> QED BY <2>1, FS_Subset
<1>5. Sum(f) \in Int /\ Cardinality(DOMAIN f) \in Nat
  BY <1>3, <1>4, SumInt, FS_CardinalityType
<1> QED BY <1>3, <1>4, <1>5 DEF f

LEMMA CrossMirrors ==
    ASSUME NEW a, NEW ta, NEW b, NEW tb
    PROVE  /\ CrossStatus(a, ta, b, tb) = CrossStatus(b, tb, a, ta)
           /\ SharedDirection(a, ta, b, tb) = SharedDirection(b, tb, a, ta)
<1> DEFINE X == {Comparability(Operand(a, ta, d), Operand(b, tb, e)) :
                   d \in Supplied(a), e \in Supplied(b)}
           Y == {Comparability(Operand(b, tb, d), Operand(a, ta, e)) :
                   d \in Supplied(b), e \in Supplied(a)}
           L == {Operand(a, ta, e)["direction"] : e \in Supplied(a)}
           R == {Operand(b, tb, e)["direction"] : e \in Supplied(b)}
<1>1. X = Y
  BY ComparabilityMirrors
<1>2. CrossStatus(a, ta, b, tb) = Worst(X, "incompatible")
      /\ CrossStatus(b, tb, a, ta) = Worst(Y, "incompatible")
  BY DEF CrossStatus
<1>3. L \cup R = R \cup L
  OBVIOUS
<1>4. SharedDirection(a, ta, b, tb) =
        IF \E d \in Directions : L \cup R = {d}
        THEN CHOOSE d \in Directions : L \cup R = {d} ELSE None
  BY DEF SharedDirection
<1>5. SharedDirection(b, tb, a, ta) =
        IF \E d \in Directions : R \cup L = {d}
        THEN CHOOSE d \in Directions : R \cup L = {d} ELSE None
  BY DEF SharedDirection
<1> HIDE DEF X, Y, L, R
<1> QED BY <1>1, <1>2, <1>3, <1>4, <1>5

LEMMA RowMirrors ==
    ASSUME NEW blocked \in BOOLEAN, NEW lacking \in BOOLEAN, NEW limited \in BOOLEAN,
           NEW delta \in Int, NEW count \in Int, NEW direction
    PROVE  MirroredGroups(GroupRow(blocked, lacking, limited, delta, count, direction),
                          GroupRow(blocked, lacking, limited, -delta, count, direction))
<1> DEFINE row(d) == GroupRow(blocked, lacking, limited, d, count, direction)
           usable == ~blocked /\ ~lacking
           judged == usable /\ ~Beyond(delta, count)
<1>1. Beyond(-delta, count) <=> Beyond(delta, count)
  BY BeyondMirrors
<1>2. /\ row(delta).eligibility = row(-delta).eligibility
      /\ row(delta).delta = (IF judged THEN delta ELSE None)
      /\ row(-delta).delta = (IF judged THEN -delta ELSE None)
      /\ row(delta).favors = (IF judged /\ direction # None
                              THEN Favors(delta, direction) ELSE None)
      /\ row(-delta).favors = (IF judged /\ direction # None
                               THEN Favors(-delta, direction) ELSE None)
  BY <1>1 DEF GroupRow
<1> HIDE DEF judged, usable, row
<1>3. row(-delta).delta = Negated(row(delta).delta)
  BY <1>2, NegatedIs
<1>4. row(-delta).favors = Opposite(row(delta).favors)
  BY <1>2, FavorsMirror, OppositeOfNone
<1> QED BY <1>2, <1>3, <1>4 DEF MirroredGroups, row

LEMMA TargetsMirrored ==
    ASSUME NEW a, IsGroup(a), ValidGroup(a), NEW ta \in Targets,
           NEW b, IsGroup(b), ValidGroup(b), NEW tb \in Targets
    PROVE  MirroredGroups(CompareTargets(a, ta, b, tb), CompareTargets(b, tb, a, ta))
<1> DEFINE left == Aggregate(a, ta)
           right == Aggregate(b, tb)
           cross == CrossStatus(a, ta, b, tb)
           direction == SharedDirection(a, ta, b, tb)
           delta == MeanDelta(left.included, right.included)
           count == Counts(left.included, right.included)
           blocked == Blocked(a, ta, b, tb, left, right, cross)
           lacking == Lacking(left, right, cross)
           limited == Limited(a, b, left, right)
<1>1. CompareTargets(a, ta, b, tb) =
        GroupRow(blocked, lacking, limited, delta, count, direction)
  BY DEF CompareTargets, CompareAggregates
<1>2. CompareTargets(b, tb, a, ta) =
        GroupRow(Blocked(b, tb, a, ta, right, left, cross), Lacking(right, left, cross),
                 Limited(b, a, right, left), MeanDelta(right.included, left.included),
                 Counts(right.included, left.included), direction)
  BY CrossMirrors DEF CompareTargets, CompareAggregates
<1> HIDE DEF cross, direction
<1>3. /\ Blocked(b, tb, a, ta, right, left, cross) = blocked
      /\ blocked \in BOOLEAN
  <2> HIDE DEF left, right
  <2>1. Blocked(b, tb, a, ta, right, left, cross) <=> Blocked(a, ta, b, tb, left, right, cross)
    BY DEF Blocked
  <2>2. Blocked(b, tb, a, ta, right, left, cross) \in BOOLEAN /\ blocked \in BOOLEAN
    BY DEF Blocked
  <2> QED BY <2>1, <2>2
<1>4. /\ Lacking(right, left, cross) = lacking
      /\ lacking \in BOOLEAN
  <2> HIDE DEF left, right
  <2>1. Lacking(right, left, cross) <=> Lacking(left, right, cross)
    BY DEF Lacking
  <2>2. Lacking(right, left, cross) \in BOOLEAN /\ lacking \in BOOLEAN
    BY DEF Lacking
  <2> QED BY <2>1, <2>2
<1>5. /\ Limited(b, a, right, left) = limited
      /\ limited \in BOOLEAN
  <2> HIDE DEF left, right
  <2>1. Limited(b, a, right, left) <=> Limited(a, b, left, right)
    BY DEF Limited
  <2>2. Limited(b, a, right, left) \in BOOLEAN /\ limited \in BOOLEAN
    BY DEF Limited
  <2> QED BY <2>1, <2>2
<1>6. /\ delta \in Int /\ MeanDelta(right.included, left.included) = -delta
      /\ count \in Int /\ Counts(right.included, left.included) = count
  <2> DEFINE l == left.included
             r == right.included
             sl == Sum(l)
             sr == Sum(r)
             cl == Cardinality(DOMAIN l)
             cr == Cardinality(DOMAIN r)
  <2>1. sl \in Int /\ cl \in Int
    BY IncludedNumbers
  <2>2. sr \in Int /\ cr \in Int
    BY IncludedNumbers
  <2>3. /\ delta = sr * cl - sl * cr
        /\ MeanDelta(right.included, left.included) = sl * cr - sr * cl
        /\ count = cl * cr /\ Counts(right.included, left.included) = cr * cl
    BY DEF MeanDelta, Counts
  <2> HIDE DEF sl, sr, cl, cr, delta, count
  <2>4. sr * cl \in Int /\ sl * cr \in Int /\ cl * cr \in Int /\ cr * cl = cl * cr
    BY <2>1, <2>2
  <2> QED BY <2>3, <2>4
<1> HIDE DEF blocked, lacking, limited, delta, count, left, right
<1>7. CompareTargets(b, tb, a, ta) =
        GroupRow(blocked, lacking, limited, -delta, count, direction)
  BY <1>2, <1>3, <1>4, <1>5, <1>6 DEF left, right
<1> QED BY <1>1, <1>3, <1>4, <1>5, <1>6, <1>7, RowMirrors

-----------------------------------------------------------------------------
(* Pairs *)

PairsOf(pairs) == pairs \in SUBSET [a : Executions, b : Executions]
Back(pairs) == {Reversed(p) : p \in pairs}

LEMMA ReversedTwice ==
    ASSUME NEW pairs, PairsOf(pairs)
    PROVE  /\ \A p \in pairs : /\ Reversed(p).a = p.b /\ Reversed(p).b = p.a
                               /\ Reversed(p) \in Back(pairs)
           /\ \A p, q \in pairs : Reversed(p) = Reversed(q) => p = q
           /\ \A q \in Back(pairs) : \E p \in pairs : q = Reversed(p)
BY DEF PairsOf, Back, Reversed

\* What a set of pairs that is turned around holds.
LEMMA BackOf ==
    ASSUME NEW pairs, PairsOf(pairs), NEW S \in SUBSET pairs
    PROVE  /\ \A p \in pairs : Reversed(p) \in Back(S) <=> p \in S
           /\ Back(S) = {} <=> S = {}
           /\ Back(S) = Back(pairs) <=> S = pairs
           /\ Back(S) \subseteq Back(pairs)
           /\ (\E x : Back(S) = {x}) <=> (\E x : S = {x})
<1>1. \A p \in pairs : Reversed(p) \in Back(S) <=> p \in S
  BY ReversedTwice DEF Back
<1>2. Back(S) = {} <=> S = {}
  BY DEF Back
<1>3. Back(S) \subseteq Back(pairs)
  BY DEF Back
<1>4. Back(S) = Back(pairs) <=> S = pairs
  <2>1. ASSUME Back(S) = Back(pairs), NEW p \in pairs PROVE p \in S
    BY <1>1, <2>1, ReversedTwice
  <2> QED BY <2>1
<1>5. ASSUME NEW x, S = {x} PROVE Back(S) = {Reversed(x)}
  BY <1>5 DEF Back
<1>6. ASSUME NEW x, Back(S) = {x} PROVE \E y : S = {y}
  <2>1. PICK y \in S : x = Reversed(y)
    BY <1>6 DEF Back
  <2>2. ASSUME NEW p \in S PROVE p = y
    <3>1. Reversed(p) \in Back(S)
      BY DEF Back
    <3>2. Reversed(p) = Reversed(y)
      BY <1>6, <2>1, <3>1
    <3> QED BY <3>2, ReversedTwice
  <2> QED BY <2>1, <2>2
<1> QED BY <1>1, <1>2, <1>3, <1>4, <1>5, <1>6

LEMMA PairStatusMirrors ==
    ASSUME NEW a, NEW ta, NEW b, NEW tb, NEW p
    PROVE  PairStatus(b, tb, a, ta, Reversed(p)) = PairStatus(a, ta, b, tb, p)
<1>1. Reversed(p).a = p.b /\ Reversed(p).b = p.a
  BY DEF Reversed
<1>2. Comparability(Operand(b, tb, p.b), Operand(a, ta, p.a))
        = Comparability(Operand(a, ta, p.a), Operand(b, tb, p.b))
  BY ComparabilityMirrors
<1> QED BY <1>1, <1>2 DEF PairStatus

\* The parts of a comparison of pairs, and of the same seen from the other side.
Statuses(a, ta, b, tb, pairs) == [p \in pairs |-> PairStatus(a, ta, b, tb, p)]

LEMMA StatusesMirror ==
    ASSUME NEW a, NEW ta, NEW b, NEW tb, NEW pairs, PairsOf(pairs)
    PROVE  LET there == Statuses(a, ta, b, tb, pairs)
               here  == Statuses(b, tb, a, ta, Back(pairs))
           IN  /\ DOMAIN there = pairs /\ DOMAIN here = Back(pairs)
               /\ \A p \in pairs : here[Reversed(p)] = there[p]
               /\ {here[p] : p \in DOMAIN here} = {there[p] : p \in DOMAIN there}
<1> DEFINE there == Statuses(a, ta, b, tb, pairs)
           here  == Statuses(b, tb, a, ta, Back(pairs))
<1>1. DOMAIN there = pairs /\ DOMAIN here = Back(pairs)
  BY DEF Statuses
<1>2. ASSUME NEW p \in pairs PROVE here[Reversed(p)] = there[p]
  <2>1. here[Reversed(p)] = PairStatus(b, tb, a, ta, Reversed(p))
    BY ReversedTwice DEF Statuses
  <2>2. there[p] = PairStatus(a, ta, b, tb, p)
    BY DEF Statuses
  <2> QED BY <2>1, <2>2, PairStatusMirrors
<1> HIDE DEF there, here
<1>3. {here[p] : p \in DOMAIN here} = {there[p] : p \in DOMAIN there}
  <2>1. \A q \in Back(pairs) : \E p \in pairs : q = Reversed(p)
    BY ReversedTwice
  <2>2. \A p \in pairs : Reversed(p) \in Back(pairs)
    BY ReversedTwice
  <2> QED BY <1>1, <1>2, <2>1, <2>2
<1> QED BY <1>1, <1>2, <1>3 DEF there, here

LEMMA MissingMirrors ==
    ASSUME NEW left, NEW right, NEW pairs, PairsOf(pairs)
    PROVE  /\ PairsMissing(left, right, pairs) \in SUBSET pairs
           /\ PairsMissing(right, left, Back(pairs)) = Back(PairsMissing(left, right, pairs))
<1> DEFINE M == PairsMissing(left, right, pairs)
           N == PairsMissing(right, left, Back(pairs))
<1>1. M \in SUBSET pairs
  BY DEF PairsMissing
<1>2. ASSUME NEW p \in pairs PROVE Reversed(p) \in N <=> p \in M
  BY ReversedTwice DEF PairsMissing
<1>3. N \subseteq Back(pairs)
  BY DEF PairsMissing
<1> HIDE DEF M, N
<1>4. Back(M) \subseteq Back(pairs) /\ \A p \in pairs : Reversed(p) \in Back(M) <=> p \in M
  BY <1>1, BackOf
<1>5. \A q \in Back(pairs) : q \in N <=> q \in Back(M)
  BY <1>2, <1>4, ReversedTwice
<1>6. N = Back(M)
  BY <1>3, <1>4, <1>5
<1> QED BY <1>1, <1>6 DEF M, N

LEMMA DeltasMirror ==
    ASSUME NEW left, NEW right, NEW pairs, PairsOf(pairs), NEW there, NEW here,
           \A p \in pairs : here[Reversed(p)] = there[p],
           left.included \in [DOMAIN left.included -> Int],
           right.included \in [DOMAIN right.included -> Int]
    PROVE  LET deltas == Deltas(left, right, pairs, there)
               back   == Deltas(right, left, Back(pairs), here)
           IN  /\ DOMAIN deltas \in SUBSET pairs /\ deltas \in [DOMAIN deltas -> Int]
               /\ DOMAIN back = Back(DOMAIN deltas)
               /\ \A p \in DOMAIN deltas : back[Reversed(p)] = -deltas[p]
<1> DEFINE deltas == Deltas(left, right, pairs, there)
           back   == Deltas(right, left, Back(pairs), here)
           M == PairsMissing(left, right, pairs)
           N == PairsMissing(right, left, Back(pairs))
           D == {p \in pairs \ M : p.a \in DOMAIN left.included /\ p.b \in DOMAIN right.included
                                   /\ there[p] = "comparable"}
           E == {p \in Back(pairs) \ N :
                   p.a \in DOMAIN right.included /\ p.b \in DOMAIN left.included
                   /\ here[p] = "comparable"}
<1>1. /\ deltas = [p \in D |-> right.included[p.b] - left.included[p.a]]
      /\ back = [p \in E |-> left.included[p.b] - right.included[p.a]]
  BY DEF Deltas
<1>2. \A p \in D : right.included[p.b] \in Int /\ left.included[p.a] \in Int
  OBVIOUS
<1>3. D \in SUBSET pairs /\ DOMAIN deltas = D /\ DOMAIN back = E
  BY <1>1
<1>4. N = Back(M)
  BY MissingMirrors
<1>5. M \in SUBSET pairs
  BY MissingMirrors
<1>6. ASSUME NEW p \in pairs PROVE Reversed(p) \in E <=> p \in D
  <2>1. Reversed(p) \in N <=> p \in M
    <3> HIDE DEF M, N
    <3> QED BY <1>4, <1>5, BackOf
  <2>2. Reversed(p).a = p.b /\ Reversed(p).b = p.a /\ Reversed(p) \in Back(pairs)
    BY ReversedTwice
  <2>3. here[Reversed(p)] = there[p]
    OBVIOUS
  <2> HIDE DEF M, N
  <2> QED BY <2>1, <2>2, <2>3
<1>7. E = Back(D)
  <2>1. E \subseteq Back(pairs)
    OBVIOUS
  <2> HIDE DEF E, D
  <2>2. Back(D) \subseteq Back(pairs) /\ \A p \in pairs : Reversed(p) \in Back(D) <=> p \in D
    BY <1>3, BackOf
  <2>3. \A q \in Back(pairs) : q \in E <=> q \in Back(D)
    BY <1>6, <2>2, ReversedTwice
  <2> QED BY <2>1, <2>2, <2>3
<1>8. ASSUME NEW p \in D PROVE back[Reversed(p)] = -deltas[p] /\ deltas[p] \in Int
  <2>1. p \in pairs /\ Reversed(p) \in E
    BY <1>6
  <2>2. Reversed(p).a = p.b /\ Reversed(p).b = p.a
    BY <2>1, ReversedTwice
  <2> DEFINE x == left.included[p.a]
             y == right.included[p.b]
  <2>3. back[Reversed(p)] = x - y
    <3> HIDE DEF E, D, back
    <3> QED BY <1>1, <2>1, <2>2
  <2>4. deltas[p] = y - x
    BY <1>1
  <2>5. x \in Int /\ y \in Int
    BY <1>2
  <2> HIDE DEF x, y, back, deltas
  <2> QED BY <2>3, <2>4, <2>5
<1>9. deltas \in [D -> Int]
  <2> HIDE DEF D
  <2> QED BY <1>1, <1>8
<1> HIDE DEF D, E, deltas, back
<1> QED BY <1>3, <1>7, <1>8, <1>9 DEF deltas, back

LEMMA OverflowMirrors ==
    ASSUME NEW D, NEW f \in [D -> Int], NEW E, NEW b, E = DOMAIN b, NEW h,
           \A p \in D : h[p] \in E /\ b[h[p]] = -f[p],
           \A q \in E : \E p \in D : q = h[p]
    PROVE  DeltasOverflow(b) <=> DeltasOverflow(f)
<1>1. \A p \in D : Beyond(-f[p], 1) <=> Beyond(f[p], 1)
  BY BeyondMirrors
<1>2. (\E d \in Values(b) : Beyond(d, 1)) <=> (\E d \in Values(f) : Beyond(d, 1))
  <2>1. (\E d \in Values(b) : Beyond(d, 1)) <=> (\E q \in E : Beyond(b[q], 1))
    BY DEF Values
  <2>2. (\E d \in Values(f) : Beyond(d, 1)) <=> (\E p \in D : Beyond(f[p], 1))
    BY DEF Values
  <2>3. (\E q \in E : Beyond(b[q], 1)) <=> (\E p \in D : Beyond(b[h[p]], 1))
    OBVIOUS
  <2>4. \A p \in D : Beyond(b[h[p]], 1) <=> Beyond(f[p], 1)
    BY <1>1
  <2> QED BY <2>1, <2>2, <2>3, <2>4
<1>3. Overflows(b) <=> Overflows(f)
  <2>1. Overflows(b) <=> \E q, r \in E : b[q] - b[r] > MaxFloat
    BY DEF Overflows, Values
  <2>2. Overflows(f) <=> \E p, r \in D : f[p] - f[r] > MaxFloat
    BY DEF Overflows, Values
  <2>3. (\E q, r \in E : b[q] - b[r] > MaxFloat)
          <=> (\E p, r \in D : b[h[p]] - b[h[r]] > MaxFloat)
    OBVIOUS
  <2>4. \A p, r \in D : (b[h[p]] - b[h[r]] > MaxFloat) <=> (f[r] - f[p] > MaxFloat)
    <3> SUFFICES ASSUME NEW p \in D, NEW r \in D
                 PROVE  (b[h[p]] - b[h[r]] > MaxFloat) <=> (f[r] - f[p] > MaxFloat)
      OBVIOUS
    <3>1. b[h[p]] = -f[p] /\ b[h[r]] = -f[r] /\ f[p] \in Int /\ f[r] \in Int
      OBVIOUS
    <3>2. MaxFloat \in Int
      BY BoundToolsAssumption
    <3> QED BY <3>1, <3>2
  <2> QED BY <2>1, <2>2, <2>3, <2>4
<1> QED BY <1>2, <1>3 DEF DeltasOverflow

-----------------------------------------------------------------------------
\* What is counted of some differences, and whether they overflow.
Spills(blocked, lacking, deltas) == ~blocked /\ ~lacking /\ DeltasOverflow(deltas)
CountedOf(blocked, lacking, deltas) ==
    IF blocked \/ lacking \/ Spills(blocked, lacking, deltas) THEN <<>> ELSE deltas

LEMMA PairRowIs ==
    ASSUME NEW pairs, NEW missing, NEW blocked, NEW lacking, NEW unpaired, NEW deltas,
           NEW direction
    PROVE  LET row     == PairRowOf(pairs, missing, blocked, lacking, unpaired, deltas, direction)
               counted == CountedOf(blocked, lacking, deltas)
           IN  /\ row.eligibility =
                     IF blocked \/ Spills(blocked, lacking, deltas) THEN "blocked"
                     ELSE IF lacking \/ DOMAIN counted = {} THEN "insufficient"
                     ELSE IF \/ DOMAIN counted # pairs \/ unpaired
                             \/ Cardinality(DOMAIN counted) = 1 THEN "limited"
                     ELSE "eligible"
               /\ row.included = counted
               /\ row.missing = missing
               /\ row.excluded = pairs \ (missing \cup DOMAIN counted)
               /\ row.favors = [p \in DOMAIN counted |-> Favors(counted[p], direction[p.a])]
BY DEF PairRowOf, PairRow, Spills, CountedOf

LEMMA PairRowsMirror ==
    ASSUME NEW pairs, PairsOf(pairs), IsFiniteSet(pairs), NEW missing,
           NEW blocked \in BOOLEAN, NEW lacking \in BOOLEAN, NEW unpaired \in BOOLEAN,
           NEW deltas, DOMAIN deltas \in SUBSET pairs, deltas \in [DOMAIN deltas -> Int],
           NEW back, DOMAIN back = Back(DOMAIN deltas),
           \A p \in DOMAIN deltas : back[Reversed(p)] = -deltas[p],
           NEW there, NEW here, \A p \in DOMAIN deltas : there[p.a] = here[p.b]
    PROVE  MirroredPairs(
             PairRowOf(pairs, missing, blocked, lacking, unpaired, deltas, there),
             PairRowOf(Back(pairs), Back(missing), blocked, lacking, unpaired, back, here))
<1> DEFINE row == PairRowOf(pairs, missing, blocked, lacking, unpaired, deltas, there)
           wor == PairRowOf(Back(pairs), Back(missing), blocked, lacking, unpaired, back, here)
           c == CountedOf(blocked, lacking, deltas)
           d == CountedOf(blocked, lacking, back)
           spills == Spills(blocked, lacking, deltas)
<1>1. Spills(blocked, lacking, back) = spills /\ spills \in BOOLEAN
  <2> DEFINE D == DOMAIN deltas
             h == [p \in D |-> Reversed(p)]
  <2>1. \A p \in D : h[p] \in DOMAIN back /\ back[h[p]] = -deltas[p]
    BY DEF Back
  <2>2. \A q \in DOMAIN back : \E p \in D : q = h[p]
    BY DEF Back
  <2> HIDE DEF h
  <2>3. DeltasOverflow(back) <=> DeltasOverflow(deltas)
    BY <2>1, <2>2, OverflowMirrors
  <2>4. DeltasOverflow(back) \in BOOLEAN /\ DeltasOverflow(deltas) \in BOOLEAN
    BY DEF DeltasOverflow
  <2> QED BY <2>3, <2>4 DEF Spills
<1>2. \/ c = <<>> /\ d = <<>>
      \/ c = deltas /\ d = back
  BY <1>1 DEF CountedOf
<1>3. DOMAIN c \in SUBSET pairs /\ DOMAIN d = Back(DOMAIN c)
  <2>1. Back({}) = {}
    BY DEF Back
  <2>2. DOMAIN <<>> = {}
    OBVIOUS
  <2> HIDE DEF c, d
  <2> QED BY <1>2, <2>1, <2>2
<1>4. ASSUME NEW p \in DOMAIN c
      PROVE  /\ p \in DOMAIN deltas /\ Reversed(p) \in DOMAIN d
             /\ c[p] = deltas[p] /\ d[Reversed(p)] = -c[p] /\ c[p] \in Int
  <2>1. c = deltas /\ d = back
    <3> HIDE DEF c, d
    <3> QED BY <1>2
  <2>2. Reversed(p) \in DOMAIN d
    BY <1>3 DEF Back
  <2>3. p \in DOMAIN deltas
    BY <2>1
  <2> HIDE DEF c, d
  <2>4. deltas[p] \in Int /\ back[Reversed(p)] = -deltas[p]
    BY <2>3
  <2> QED BY <2>1, <2>2, <2>3, <2>4
<1> HIDE DEF c, d
<1>5. /\ DOMAIN d = {} <=> DOMAIN c = {}
      /\ DOMAIN d = Back(pairs) <=> DOMAIN c = pairs
      /\ (\E x : DOMAIN d = {x}) <=> (\E x : DOMAIN c = {x})
  <2> DEFINE S == DOMAIN c
  <2>1. S \in SUBSET pairs /\ DOMAIN d = Back(S)
    BY <1>3
  <2> HIDE DEF S
  <2>2. /\ Back(S) = {} <=> S = {}
        /\ Back(S) = Back(pairs) <=> S = pairs
        /\ (\E x : Back(S) = {x}) <=> (\E x : S = {x})
    <3>1. Back(S) = {} <=> S = {}
      BY <2>1, BackOf
    <3>2. Back(S) = Back(pairs) <=> S = pairs
      BY <2>1, BackOf
    <3>3. (\E x : Back(S) = {x}) <=> (\E x : S = {x})
      BY <2>1, BackOf
    <3> QED BY <3>1, <3>2, <3>3
  <2> QED BY <2>1, <2>2 DEF S
<1>6. Cardinality(DOMAIN d) = 1 <=> Cardinality(DOMAIN c) = 1
  <2>1. IsFiniteSet(DOMAIN c)
    BY <1>3, FS_Subset
  <2>2. IsFiniteSet(DOMAIN d)
    <3> DEFINE D == DOMAIN c
               f == [p \in D |-> Reversed(p)]
    <3>1. f \in Surjection(D, Back(D))
      BY DEF Surjection, Back
    <3> HIDE DEF f, D
    <3>2. IsFiniteSet(Back(D))
      BY <2>1, <3>1, FS_Surjection DEF D
    <3> QED BY <1>3, <3>2 DEF D
  <2>3. Cardinality(DOMAIN c) = 1 <=> \E x : DOMAIN c = {x}
    BY <2>1, FS_Singleton
  <2>4. Cardinality(DOMAIN d) = 1 <=> \E x : DOMAIN d = {x}
    BY <2>2, FS_Singleton
  <2> QED BY <1>5, <2>3, <2>4
<1>7. /\ row.eligibility =
             IF blocked \/ spills THEN "blocked"
             ELSE IF lacking \/ DOMAIN c = {} THEN "insufficient"
             ELSE IF DOMAIN c # pairs \/ unpaired \/ Cardinality(DOMAIN c) = 1 THEN "limited"
             ELSE "eligible"
      /\ row.included = c /\ row.missing = missing
      /\ row.favors = [p \in DOMAIN c |-> Favors(c[p], there[p.a])]
  BY PairRowIs DEF c
<1>8. /\ wor.eligibility =
             IF blocked \/ spills THEN "blocked"
             ELSE IF lacking \/ DOMAIN d = {} THEN "insufficient"
             ELSE IF DOMAIN d # Back(pairs) \/ unpaired \/ Cardinality(DOMAIN d) = 1
                  THEN "limited"
             ELSE "eligible"
      /\ wor.included = d /\ wor.missing = Back(missing)
      /\ wor.favors = [p \in DOMAIN d |-> Favors(d[p], here[p.a])]
  BY <1>1, PairRowIs DEF d
<1> HIDE DEF row, wor, spills
<1>9. wor.eligibility = row.eligibility
  BY <1>5, <1>6, <1>7, <1>8
<1>10. ASSUME NEW p \in DOMAIN row.included
       PROVE  /\ wor.included[Reversed(p)] = -row.included[p]
              /\ wor.favors[Reversed(p)] = Opposite(row.favors[p])
  <2>1. p \in DOMAIN c
    BY <1>7
  <2>2. /\ p \in DOMAIN deltas /\ Reversed(p) \in DOMAIN d
        /\ d[Reversed(p)] = -c[p] /\ c[p] \in Int
    BY <1>4, <2>1
  <2>3. Reversed(p).a = p.b
    BY DEF Reversed
  <2>4. wor.favors[Reversed(p)] = Favors(-c[p], here[p.b])
    BY <1>8, <2>2, <2>3
  <2>5. row.favors[p] = Favors(c[p], there[p.a])
    BY <1>7, <2>1
  <2>6. there[p.a] = here[p.b]
    BY <2>2
  <2>7. Favors(-c[p], there[p.a]) = Opposite(Favors(c[p], there[p.a]))
    BY <2>2, FavorsMirror
  <2> QED BY <1>7, <1>8, <2>2, <2>4, <2>5, <2>6, <2>7
<1> QED BY <1>7, <1>8, <1>9, <1>10 DEF MirroredPairs, Back, row, wor

LEMMA SidesOfPairs ==
    ASSUME NEW pairs, PairsOf(pairs)
    PROVE  /\ {p.a : p \in Back(pairs)} = {p.b : p \in pairs}
           /\ {p.b : p \in Back(pairs)} = {p.a : p \in pairs}
<1>1. \A p \in pairs : Reversed(p).a = p.b /\ Reversed(p).b = p.a /\ Reversed(p) \in Back(pairs)
  BY ReversedTwice
<1>2. \A q \in Back(pairs) : \E p \in pairs : q = Reversed(p)
  BY ReversedTwice
<1> QED BY <1>1, <1>2

\* Two results that are comparable declare one direction.
LEMMA OneDirection ==
    ASSUME NEW a, NEW ta, NEW b, NEW tb, NEW p, PairStatus(a, ta, b, tb, p) = "comparable",
           p.a \in Supplied(a), p.b \in Supplied(b)
    PROVE  /\ \A f \in RequiredFields : Operand(a, ta, p.a)[f] # None
                 /\ Operand(a, ta, p.a)[f] = Operand(b, tb, p.b)[f]
           /\ a.selectors[ta][p.a]["direction"] = b.selectors[tb][p.b]["direction"]
<1> DEFINE l == Operand(a, ta, p.a)
           r == Operand(b, tb, p.b)
<1>1. Comparability(l, r) = "comparable"
  BY DEF PairStatus
<1>2. Mismatched(l, r) = {} /\ Undeclared(l, r) = {}
  <2> HIDE DEF l, r
  <2> QED BY <1>1 DEF Comparability
<1>3. \A f \in RequiredFields : l[f] # None /\ l[f] = r[f]
  <2> HIDE DEF l, r
  <2> QED BY <1>2 DEF Mismatched, Undeclared
<1>4. "direction" \in RequiredFields /\ "direction" \notin Fields
  BY BoundToolsAssumption DEF SelectorFields
<1>5. /\ l["direction"] = a.selectors[ta][p.a]["direction"]
      /\ r["direction"] = b.selectors[tb][p.b]["direction"]
  BY <1>4 DEF Operand
<1> QED BY <1>3, <1>4, <1>5

LEMMA PairingFacts ==
    ASSUME NEW a, IsGroup(a), ValidGroup(a), NEW b, IsGroup(b), ValidGroup(b),
           NEW pairs, PairsOf(pairs), ValidPairing(a, b, pairs)
    PROVE  /\ IsFiniteSet(pairs) /\ pairs # {} /\ OneToOne(pairs)
           /\ \A p \in pairs : p.a \in Roster(a) /\ p.b \in Roster(b)
           /\ Roster(a) \cap Roster(b) = {}
<1>1. /\ pairs # {} /\ OneToOne(pairs) /\ Roster(a) \cap Roster(b) = {}
      /\ \A p \in pairs : p.a \in Roster(a) /\ p.b \in Roster(b)
  BY DEF ValidPairing
<1> DEFINE f == [p \in pairs |-> p.a]
<1>2. f \in Injection(pairs, Roster(a))
  BY <1>1 DEF Injection, IsInjective, OneToOne
<1>3. IsFiniteSet(Roster(a))
  BY GroupFacts
<1> HIDE DEF f
<1>4. IsFiniteSet(pairs)
  BY <1>2, <1>3, FS_Injection
<1> QED BY <1>1, <1>4

\* The arguments a comparison of pairs is made of.
PairTargetFrom(a, ta, b, tb, pairs, left, right, status) ==
    PairRowOf(pairs, PairsMissing(left, right, pairs),
              PairsBlocked(a, ta, b, tb, left, right, status),
              PairsLacking(left, right, status), Unpaired(a, b, pairs),
              Deltas(left, right, pairs, status),
              [e \in Roster(a) |-> a.selectors[ta][e]["direction"]])

LEMMA PairTargetIs ==
    ASSUME NEW a, NEW ta, NEW b, NEW tb, NEW pairs
    PROVE  PairTarget(a, ta, b, tb, pairs) =
             PairTargetFrom(a, ta, b, tb, pairs, Aggregate(a, ta), Aggregate(b, tb),
                            Statuses(a, ta, b, tb, pairs))
BY DEF PairTarget, PairAggregates, PairTargetFrom, Statuses

LEMMA PairsMirrored ==
    ASSUME NEW a, IsGroup(a), ValidGroup(a), NEW ta \in Targets,
           NEW b, IsGroup(b), ValidGroup(b), NEW tb \in Targets,
           NEW pairs, PairsOf(pairs), ValidPairing(a, b, pairs)
    PROVE  MirroredPairs(PairTarget(a, ta, b, tb, pairs), PairTarget(b, tb, a, ta, Back(pairs)))
<1> DEFINE left == Aggregate(a, ta)
           right == Aggregate(b, tb)
           status == Statuses(a, ta, b, tb, pairs)
           sutats == Statuses(b, tb, a, ta, Back(pairs))
           missing == PairsMissing(left, right, pairs)
           blocked == PairsBlocked(a, ta, b, tb, left, right, status)
           lacking == PairsLacking(left, right, status)
           unpaired == Unpaired(a, b, pairs)
           deltas == Deltas(left, right, pairs, status)
           back == Deltas(right, left, Back(pairs), sutats)
           there == [e \in Roster(a) |-> a.selectors[ta][e]["direction"]]
           here == [e \in Roster(b) |-> b.selectors[tb][e]["direction"]]
<1>1. /\ DOMAIN status = pairs /\ DOMAIN sutats = Back(pairs)
      /\ \A p \in pairs : sutats[Reversed(p)] = status[p]
      /\ {sutats[p] : p \in DOMAIN sutats} = {status[p] : p \in DOMAIN status}
  <2>1. DOMAIN status = pairs /\ DOMAIN sutats = Back(pairs)
    BY DEF Statuses
  <2>2. \A p \in pairs : sutats[Reversed(p)] = status[p]
    BY StatusesMirror
  <2>3. {sutats[p] : p \in DOMAIN sutats} = {status[p] : p \in DOMAIN status}
    BY StatusesMirror
  <2> QED BY <2>1, <2>2, <2>3
<1>2. PairsMissing(right, left, Back(pairs)) = Back(missing)
  BY MissingMirrors
<1>3. PairsBlocked(b, tb, a, ta, right, left, sutats) = blocked /\ blocked \in BOOLEAN
  <2> HIDE DEF left, right, status, sutats
  <2>1. PairsBlocked(b, tb, a, ta, right, left, sutats)
          <=> PairsBlocked(a, ta, b, tb, left, right, status)
    BY <1>1 DEF PairsBlocked
  <2>2. PairsBlocked(b, tb, a, ta, right, left, sutats) \in BOOLEAN /\ blocked \in BOOLEAN
    BY DEF PairsBlocked
  <2> QED BY <2>1, <2>2
<1>4. PairsLacking(right, left, sutats) = lacking /\ lacking \in BOOLEAN
  <2> HIDE DEF left, right, status, sutats
  <2>1. PairsLacking(right, left, sutats) <=> PairsLacking(left, right, status)
    BY <1>1 DEF PairsLacking
  <2>2. PairsLacking(right, left, sutats) \in BOOLEAN /\ lacking \in BOOLEAN
    BY DEF PairsLacking
  <2> QED BY <2>1, <2>2
<1>5. Unpaired(b, a, Back(pairs)) = unpaired /\ unpaired \in BOOLEAN
  <2>1. Unpaired(b, a, Back(pairs)) <=> Unpaired(a, b, pairs)
    BY SidesOfPairs DEF Unpaired
  <2>2. Unpaired(b, a, Back(pairs)) \in BOOLEAN /\ unpaired \in BOOLEAN
    BY DEF Unpaired
  <2> QED BY <2>1, <2>2
<1>6. /\ left.included \in [DOMAIN left.included -> Int]
      /\ right.included \in [DOMAIN right.included -> Int]
  <2>1. left.included \in [DOMAIN left.included -> Int]
    BY IncludedNumbers
  <2>2. right.included \in [DOMAIN right.included -> Int]
    BY IncludedNumbers
  <2> QED BY <2>1, <2>2
<1>7. /\ DOMAIN deltas \in SUBSET pairs /\ deltas \in [DOMAIN deltas -> Int]
      /\ DOMAIN back = Back(DOMAIN deltas)
      /\ \A p \in DOMAIN deltas : back[Reversed(p)] = -deltas[p]
  <2> HIDE DEF status, sutats, left, right
  <2> QED BY <1>1, <1>6, DeltasMirror
<1>8. ASSUME NEW p \in DOMAIN deltas PROVE there[p.a] = here[p.b]
  <2>1. p \in pairs /\ p.a \in DOMAIN left.included /\ p.b \in DOMAIN right.included
        /\ status[p] = "comparable"
    BY DEF Deltas
  <2>2. PairStatus(a, ta, b, tb, p) = "comparable"
    BY <2>1 DEF Statuses
  <2>3. p.a \in Roster(a) /\ p.a \in Supplied(a)
    BY <2>1, UsedWasRead
  <2>4. p.b \in Roster(b) /\ p.b \in Supplied(b)
    BY <2>1, UsedWasRead
  <2>5. a.selectors[ta][p.a]["direction"] = b.selectors[tb][p.b]["direction"]
    BY <2>2, <2>3, <2>4, OneDirection
  <2> QED BY <2>3, <2>4, <2>5
<1>9. IsFiniteSet(pairs)
  BY PairingFacts
<1>10. PairTarget(a, ta, b, tb, pairs) =
         PairRowOf(pairs, missing, blocked, lacking, unpaired, deltas, there)
  BY PairTargetIs DEF PairTargetFrom
<1>11. PairTarget(b, tb, a, ta, Back(pairs)) =
         PairRowOf(Back(pairs), Back(missing), blocked, lacking, unpaired, back, here)
  <2>1. PairTarget(b, tb, a, ta, Back(pairs)) =
          PairRowOf(Back(pairs), PairsMissing(right, left, Back(pairs)),
                    PairsBlocked(b, tb, a, ta, right, left, sutats),
                    PairsLacking(right, left, sutats), Unpaired(b, a, Back(pairs)),
                    back, here)
    BY PairTargetIs DEF PairTargetFrom
  <2> HIDE DEF missing, blocked, lacking, unpaired, back, here
  <2> QED BY <1>2, <1>3, <1>4, <1>5, <2>1
<1> HIDE DEF missing, blocked, lacking, unpaired, deltas, back, there, here
<1> QED BY <1>3, <1>4, <1>5, <1>7, <1>8, <1>9, <1>10, <1>11, PairRowsMirror

-----------------------------------------------------------------------------
(* Pairs and groups *)

LEMMA ProductKeeps ==
    ASSUME NEW x \in Int, NEW y \in Int, x <= y, NEW n \in Nat
    PROVE  x * n <= y * n
<1>1. y - x \in Nat /\ (y - x) * n \in Nat
  OBVIOUS
<1>2. (y - x) * n = y * n - x * n /\ x * n \in Int /\ y * n \in Int
  OBVIOUS
<1> QED BY <1>1, <1>2

\* What is compared pair by pair can be compared as groups.
LEMMA PairsAllow ==
    ASSUME NEW a, IsGroup(a), ValidGroup(a), NEW ta \in Targets,
           NEW b, IsGroup(b), ValidGroup(b), NEW tb \in Targets,
           NEW pairs, PairsOf(pairs), ValidPairing(a, b, pairs),
           NEW p \in DOMAIN PairTarget(a, ta, b, tb, pairs).included
    PROVE  LET left   == Aggregate(a, ta)
               right  == Aggregate(b, tb)
               deltas == Deltas(left, right, pairs, Statuses(a, ta, b, tb, pairs))
           IN  /\ ~Blocked(a, ta, b, tb, left, right, CrossStatus(a, ta, b, tb))
               /\ ~Lacking(left, right, CrossStatus(a, ta, b, tb))
               /\ PairTarget(a, ta, b, tb, pairs).included = deltas
               /\ ~DeltasOverflow(deltas)
<1> DEFINE left == Aggregate(a, ta)
           right == Aggregate(b, tb)
           status == Statuses(a, ta, b, tb, pairs)
           deltas == Deltas(left, right, pairs, status)
           blocked == PairsBlocked(a, ta, b, tb, left, right, status)
           lacking == PairsLacking(left, right, status)
           cross == CrossStatus(a, ta, b, tb)
<1>1. PairTarget(a, ta, b, tb, pairs).included = CountedOf(blocked, lacking, deltas)
  <2> DEFINE there == [e \in Roster(a) |-> a.selectors[ta][e]["direction"]]
             missing == PairsMissing(left, right, pairs)
             unpaired == Unpaired(a, b, pairs)
  <2>1. PairTarget(a, ta, b, tb, pairs) =
          PairRowOf(pairs, missing, blocked, lacking, unpaired, deltas, there)
    BY PairTargetIs DEF PairTargetFrom
  <2> HIDE DEF there, missing, unpaired, blocked, lacking, deltas
  <2>2. PairRowOf(pairs, missing, blocked, lacking, unpaired, deltas, there).included
          = CountedOf(blocked, lacking, deltas)
    BY DEF PairRowOf, PairRow, Spills, CountedOf
  <2> QED BY <2>1, <2>2
<1>2. /\ ~blocked /\ ~lacking /\ ~DeltasOverflow(deltas)
      /\ CountedOf(blocked, lacking, deltas) = deltas
  <2> HIDE DEF blocked, lacking, deltas
  <2>1. DOMAIN CountedOf(blocked, lacking, deltas) # {}
    BY <1>1
  <2>2. CountedOf(blocked, lacking, deltas) # <<>>
    BY <2>1
  <2> QED BY <2>2 DEF CountedOf, Spills
<1>3. /\ p \in pairs /\ p.a \in DOMAIN left.included /\ p.b \in DOMAIN right.included
      /\ status[p] = "comparable"
  <2>1. p \in DOMAIN deltas
    BY <1>1, <1>2
  <2> QED BY <2>1 DEF Deltas
<1>4. p.a \in Supplied(a)
  BY <1>3, UsedWasRead
<1>5. p.b \in Supplied(b)
  BY <1>3, UsedWasRead
<1>6. left.eligibility = "eligible" /\ AllAgree(a, ta)
  <2>1. left.eligibility = "eligible"
    BY <1>3, RowIs
  <2>2. Gate(GroupStatus(a), MetricStatus(a, ta)) = "eligible"
    BY <2>1, RowIs
  <2> QED BY <2>1, <2>2, OpenAgrees
<1>7. right.eligibility = "eligible" /\ AllAgree(b, tb)
  <2>1. right.eligibility = "eligible"
    BY <1>3, RowIs
  <2>2. Gate(GroupStatus(b), MetricStatus(b, tb)) = "eligible"
    BY <2>1, RowIs
  <2> QED BY <2>1, <2>2, OpenAgrees
<1>8. \A f \in RequiredFields :
        Operand(a, ta, p.a)[f] # None /\ Operand(a, ta, p.a)[f] = Operand(b, tb, p.b)[f]
  <2>1. PairStatus(a, ta, b, tb, p) = "comparable"
    BY <1>3 DEF Statuses
  <2> QED BY <1>4, <1>5, <2>1, OneDirection
<1>9. ASSUME NEW d \in Supplied(a), NEW e \in Supplied(b)
      PROVE  Comparability(Operand(a, ta, d), Operand(b, tb, e)) = "comparable"
  <2> DEFINE l == Operand(a, ta, d)
             r == Operand(b, tb, e)
             m == Operand(a, ta, p.a)
             n == Operand(b, tb, p.b)
  <2>1. \A f \in RequiredFields : l[f] # None /\ l[f] = m[f]
    BY <1>4, <1>6 DEF AllAgree
  <2>2. \A f \in RequiredFields : r[f] # None /\ r[f] = n[f]
    BY <1>5, <1>7 DEF AllAgree
  <2>3. \A f \in RequiredFields : m[f] = n[f]
    BY <1>8
  <2> HIDE DEF l, r, m, n
  <2>4. \A f \in RequiredFields : l[f] # None /\ r[f] # None /\ l[f] = r[f]
    BY <2>1, <2>2, <2>3
  <2>5. Comparability(l, r) = "comparable"
    BY <2>4 DEF Comparability, Mismatched, Undeclared
  <2> QED BY <2>5 DEF l, r
<1>10. cross = "agree"
  <2> DEFINE X == {Comparability(Operand(a, ta, d), Operand(b, tb, e)) :
                     d \in Supplied(a), e \in Supplied(b)}
  <2>1. X = {"comparable"}
    BY <1>4, <1>5, <1>9
  <2>2. cross = Worst(X, "incompatible")
    BY DEF CrossStatus
  <2> HIDE DEF X, cross
  <2> QED BY <2>1, <2>2 DEF Worst
<1>11. a.section[ta] = b.section[tb] /\ Roster(a) \cap Roster(b) = {}
  BY <1>2, PairingFacts DEF PairsBlocked
<1>12. {} \notin {DOMAIN left.included, DOMAIN right.included}
  BY <1>3
<1> HIDE DEF left, right, cross, deltas
<1>13. ~Blocked(a, ta, b, tb, left, right, cross)
  BY <1>6, <1>7, <1>10, <1>11 DEF Blocked
<1>14. ~Lacking(left, right, cross)
  BY <1>6, <1>7, <1>10, <1>12 DEF Lacking
<1> QED BY <1>1, <1>2, <1>13, <1>14 DEF left, right, cross, deltas

\* Two groups that may be compared.
LEMMA GroupsAllowed ==
    ASSUME NEW a, NEW ta, NEW b, NEW tb,
           ~Blocked(a, ta, b, tb, Aggregate(a, ta), Aggregate(b, tb), CrossStatus(a, ta, b, tb)),
           ~Lacking(Aggregate(a, ta), Aggregate(b, tb), CrossStatus(a, ta, b, tb))
    PROVE  LET left  == Aggregate(a, ta)
               right == Aggregate(b, tb)
               row   == CompareTargets(a, ta, b, tb)
               delta == MeanDelta(left.included, right.included)
               over  == Beyond(delta, Counts(left.included, right.included))
           IN  /\ over \/ row.eligibility \in {"eligible", "limited"}
               /\ ~over /\ ~Limited(a, b, left, right) =>
                    row.eligibility = "eligible" /\ row.delta = delta
BY DEF CompareTargets, CompareAggregates, GroupRow

\* Each of some terms is one of the other's, under another name.
Renamed(D, E, h, f, g) ==
    /\ IsFiniteSet(D) /\ IsFiniteSet(E) /\ h \in [D -> E]
    /\ \A p, q \in D : h[p] = h[q] => p = q
    /\ \A e \in E : \E p \in D : h[p] = e
    /\ f \in [E -> Int] /\ g \in [D -> Int] /\ \A p \in D : g[p] = f[h[p]]

LEMMA RenamedSums ==
    ASSUME NEW D, NEW E, NEW h, NEW f, NEW g, Renamed(D, E, h, f, g)
    PROVE  Sum(g) = Sum(f)
<1>1. /\ IsFiniteSet(D) /\ IsFiniteSet(E) /\ h \in [D -> E]
      /\ \A p, q \in D : h[p] = h[q] => p = q
      /\ \A e \in E : \E p \in D : h[p] = e
      /\ f \in [E -> Int] /\ g \in [D -> Int] /\ \A p \in D : g[p] = f[h[p]]
  BY DEF Renamed
<1> QED BY <1>1, SumRenamed

\* All of two rosters is paired, and each difference is of the numbers of a pair.
PairedInFull(A, B, pairs, left, right, deltas) ==
    /\ IsFiniteSet(A) /\ IsFiniteSet(B) /\ IsFiniteSet(pairs) /\ OneToOne(pairs)
    /\ A = {p.a : p \in pairs} /\ B = {p.b : p \in pairs}
    /\ left \in [A -> Int] /\ right \in [B -> Int] /\ deltas \in [pairs -> Int]
    /\ ~DeltasOverflow(deltas)
    /\ \A p \in pairs : deltas[p] = right[p.b] - left[p.a]

\* When every execution is paired and counted, the mean of the differences is the
\* difference of the means, and overflows no more than they do.
LEMMA MeansAgree ==
    ASSUME NEW A, NEW B, NEW pairs, NEW left, NEW right, NEW deltas,
           PairedInFull(A, B, pairs, left, right, deltas)
    PROVE  /\ Cardinality(A) = Cardinality(pairs) /\ Cardinality(B) = Cardinality(pairs)
           /\ Sum(deltas) * Cardinality(pairs) = MeanDelta(left, right)
           /\ ~Beyond(MeanDelta(left, right), Counts(left, right))
<1> DEFINE f == [p \in pairs |-> p.a]
           g == [p \in pairs |-> p.b]
           l == [p \in pairs |-> left[p.a]]
           r == [p \in pairs |-> right[p.b]]
           n == Cardinality(pairs)
<1>0. /\ IsFiniteSet(A) /\ IsFiniteSet(B) /\ IsFiniteSet(pairs) /\ OneToOne(pairs)
      /\ A = {p.a : p \in pairs} /\ B = {p.b : p \in pairs}
      /\ left \in [A -> Int] /\ right \in [B -> Int] /\ deltas \in [pairs -> Int]
      /\ ~DeltasOverflow(deltas)
      /\ \A p \in pairs : deltas[p] = right[p.b] - left[p.a]
  BY DEF PairedInFull
<1>1. /\ f \in [pairs -> A] /\ \A p, q \in pairs : f[p] = f[q] => p = q
      /\ \A e \in A : \E p \in pairs : f[p] = e
  BY <1>0 DEF OneToOne
<1>2. /\ g \in [pairs -> B] /\ \A p, q \in pairs : g[p] = g[q] => p = q
      /\ \A e \in B : \E p \in pairs : g[p] = e
  BY <1>0 DEF OneToOne
<1>3. l \in [pairs -> Int] /\ \A p \in pairs : l[p] = left[f[p]]
  BY <1>0
<1>4. r \in [pairs -> Int] /\ \A p \in pairs : r[p] = right[g[p]]
  BY <1>0
<1>5. \A p \in pairs : deltas[p] = r[p] - l[p]
  BY <1>0
<1> HIDE DEF f, g, l, r
<1>6. Cardinality(A) = n
  <2>1. f \in Injection(pairs, A) /\ f \in Surjection(pairs, A)
    BY <1>1 DEF Injection, IsInjective, Surjection
  <2> QED BY <1>0, <2>1, FS_Injection
<1>7. Cardinality(B) = n
  <2>1. g \in Injection(pairs, B) /\ g \in Surjection(pairs, B)
    BY <1>2 DEF Injection, IsInjective, Surjection
  <2> QED BY <1>0, <2>1, FS_Injection
<1>8. Sum(l) = Sum(left)
  <2>1. Renamed(pairs, A, f, left, l)
    BY <1>0, <1>1, <1>3 DEF Renamed
  <2> QED BY <2>1, RenamedSums
<1>9. Sum(r) = Sum(right)
  <2>1. Renamed(pairs, B, g, right, r)
    BY <1>0, <1>2, <1>4 DEF Renamed
  <2> QED BY <2>1, RenamedSums
<1>10. Sum(deltas) = Sum(r) - Sum(l)
  BY <1>0, <1>3, <1>4, <1>5, SumOfDifferences
<1>11. n \in Nat /\ MaxFloat \in Nat
  BY <1>0, FS_CardinalityType, BoundToolsAssumption
<1>12. Sum(left) \in Int
  BY <1>0, SumInt
<1>13. Sum(right) \in Int
  BY <1>0, SumInt
<1>14. Sum(deltas) \in Int
  BY <1>0, SumInt
<1>15. Sum(deltas) <= MaxFloat * n /\ -Sum(deltas) <= MaxFloat * n
  <2>1. ASSUME NEW p \in pairs PROVE deltas[p] <= MaxFloat /\ -deltas[p] <= MaxFloat
    <3>1. deltas[p] \in Values(deltas)
      BY <1>0 DEF Values
    <3>2. ~Beyond(deltas[p], 1)
      BY <1>0, <3>1 DEF DeltasOverflow
    <3>3. MaxFloat * 1 = MaxFloat /\ deltas[p] \in Int
      BY <1>0, <1>11
    <3> QED BY <1>11, <3>2, <3>3 DEF Beyond
  <2> QED BY <1>0, <1>11, <2>1, SumWithin
<1>16. DOMAIN left = A /\ DOMAIN right = B
  BY <1>0
<1> DEFINE s == Sum(deltas)
           sl == Sum(left)
           sr == Sum(right)
           m == MaxFloat
<1>17. MeanDelta(left, right) = sr * n - sl * n /\ Counts(left, right) = n * n
  BY <1>6, <1>7, <1>16 DEF MeanDelta, Counts
<1>18. s = sr - sl
  BY <1>8, <1>9, <1>10
<1> HIDE DEF s, sl, sr, n, m
<1>19. s * n = sr * n - sl * n
  <2>1. sr \in Int /\ sl \in Int /\ n \in Int
    BY <1>11, <1>12, <1>13 DEF sl, sr
  <2> QED BY <1>18, <2>1
<1>20. s * n \in Int /\ s * n <= m * (n * n) /\ -(s * n) <= m * (n * n)
  <2>1. s \in Int /\ -s \in Int /\ n \in Nat /\ m \in Nat /\ m * n \in Int
    BY <1>11, <1>14 DEF s, m
  <2>2. s <= m * n /\ -s <= m * n
    BY <1>15 DEF s, m, n
  <2>3. s * n <= (m * n) * n
    BY <2>1, <2>2, ProductKeeps
  <2>4. (-s) * n <= (m * n) * n
    BY <2>1, <2>2, ProductKeeps
  <2>5. (m * n) * n = m * (n * n) /\ (-s) * n = -(s * n) /\ s * n \in Int
    BY <2>1
  <2> QED BY <2>3, <2>4, <2>5
<1>21. ~Beyond(s * n, n * n)
  <2>1. m * (n * n) \in Int
    BY <1>11 DEF m
  <2>2. ~(s * n > m * (n * n)) /\ ~(-(s * n) > m * (n * n))
    BY <1>20, <2>1
  <2> QED BY <2>2 DEF Beyond, m
<1> QED BY <1>6, <1>7, <1>17, <1>19, <1>21 DEF s, n

LEMMA PairsFit ==
    ASSUME NEW a, IsGroup(a), ValidGroup(a), NEW ta \in Targets,
           NEW b, IsGroup(b), ValidGroup(b), NEW tb \in Targets,
           NEW pairs, PairsOf(pairs), ValidPairing(a, b, pairs)
    PROVE  PairsFitGroups(PairTarget(a, ta, b, tb, pairs), CompareTargets(a, ta, b, tb),
                          Aggregate(a, ta).included, Aggregate(b, tb).included)
<1> DEFINE row == PairTarget(a, ta, b, tb, pairs)
           groups == CompareTargets(a, ta, b, tb)
           left == Aggregate(a, ta)
           right == Aggregate(b, tb)
           deltas == Deltas(left, right, pairs, Statuses(a, ta, b, tb, pairs))
           delta == MeanDelta(left.included, right.included)
           over == Beyond(delta, Counts(left.included, right.included))
<1>1. ASSUME DOMAIN row.included # {}
      PROVE  /\ over \/ groups.eligibility \in {"eligible", "limited"}
             /\ ~over /\ ~Limited(a, b, left, right) =>
                   groups.eligibility = "eligible" /\ groups.delta = delta
             /\ row.included = deltas /\ ~DeltasOverflow(deltas)
  <2>1. PICK p \in DOMAIN row.included : TRUE
    BY <1>1
  <2>2. /\ ~Blocked(a, ta, b, tb, left, right, CrossStatus(a, ta, b, tb))
        /\ ~Lacking(left, right, CrossStatus(a, ta, b, tb))
        /\ row.included = deltas /\ ~DeltasOverflow(deltas)
    BY <2>1, PairsAllow
  <2>3. /\ over \/ groups.eligibility \in {"eligible", "limited"}
        /\ ~over /\ ~Limited(a, b, left, right) =>
              groups.eligibility = "eligible" /\ groups.delta = delta
    BY <2>2, GroupsAllowed
  <2> QED BY <2>2, <2>3
<1>2. ASSUME row.eligibility = "eligible"
      PROVE  groups.eligibility = "eligible"
             /\ Sum(row.included) * Cardinality(DOMAIN row.included) = groups.delta
  <2>1. /\ DOMAIN row.included # {} /\ DOMAIN row.included = pairs /\ ~Unpaired(a, b, pairs)
        /\ Cardinality(pairs) # 1
    <3> DEFINE status == Statuses(a, ta, b, tb, pairs)
               there == [e \in Roster(a) |-> a.selectors[ta][e]["direction"]]
               missing == PairsMissing(left, right, pairs)
               unpaired == Unpaired(a, b, pairs)
               blocked == PairsBlocked(a, ta, b, tb, left, right, status)
               lacking == PairsLacking(left, right, status)
               counted == CountedOf(blocked, lacking, deltas)
    <3>1. row = PairRowOf(pairs, missing, blocked, lacking, unpaired, deltas, there)
      BY PairTargetIs DEF PairTargetFrom
    <3> HIDE DEF there, missing, unpaired, blocked, lacking, deltas, row
    <3>2. /\ row.eligibility =
                   IF blocked \/ Spills(blocked, lacking, deltas) THEN "blocked"
                   ELSE IF lacking \/ DOMAIN counted = {} THEN "insufficient"
                   ELSE IF \/ DOMAIN counted # pairs \/ unpaired
                           \/ Cardinality(DOMAIN counted) = 1 THEN "limited"
                   ELSE "eligible"
          /\ row.included = counted
      <4> DEFINE target == PairRowOf(pairs, missing, blocked, lacking, unpaired, deltas, there)
      <4>1. /\ target.eligibility =
                   IF blocked \/ Spills(blocked, lacking, deltas) THEN "blocked"
                   ELSE IF lacking \/ DOMAIN counted = {} THEN "insufficient"
                   ELSE IF \/ DOMAIN counted # pairs \/ unpaired
                           \/ Cardinality(DOMAIN counted) = 1 THEN "limited"
                   ELSE "eligible"
            /\ target.included = counted
        BY DEF PairRowOf, PairRow, Spills, CountedOf
      <4> HIDE DEF target, counted
      <4> QED BY <3>1, <4>1 DEF target
    <3> HIDE DEF counted
    <3>3. DOMAIN counted # {} /\ DOMAIN counted = pairs /\ ~unpaired /\ Cardinality(pairs) # 1
      BY <1>2, <3>2
    <3> QED BY <3>2, <3>3 DEF unpaired
  <2>2. /\ ~over /\ ~Limited(a, b, left, right) =>
              groups.eligibility = "eligible" /\ groups.delta = delta
        /\ row.included = deltas /\ ~DeltasOverflow(deltas)
    BY <1>1, <2>1
  <2>3. Roster(a) = {p.a : p \in pairs} /\ Roster(b) = {p.b : p \in pairs}
    BY <2>1 DEF Unpaired
  <2>4. DOMAIN deltas = pairs
    BY <2>1, <2>2
  <2>5. ASSUME NEW p \in pairs
        PROVE  /\ p.a \in DOMAIN left.included /\ p.b \in DOMAIN right.included
               /\ deltas[p] = right.included[p.b] - left.included[p.a]
    BY <2>4 DEF Deltas
  <2>6. /\ left.included \in [DOMAIN left.included -> Int]
        /\ DOMAIN left.included \subseteq Roster(a)
    BY IncludedNumbers
  <2>7. /\ right.included \in [DOMAIN right.included -> Int]
        /\ DOMAIN right.included \subseteq Roster(b)
    BY IncludedNumbers
  <2> HIDE DEF left, right, deltas, row, groups
  <2>8. DOMAIN left.included = Roster(a) /\ DOMAIN right.included = Roster(b)
    BY <2>3, <2>5, <2>6, <2>7
  <2>9. IsFiniteSet(Roster(a)) /\ IsFiniteSet(Roster(b)) /\ IsFiniteSet(pairs) /\ OneToOne(pairs)
    BY GroupFacts, PairingFacts
  <2>10. deltas \in [pairs -> Int]
    <3>1. ASSUME NEW p \in pairs PROVE deltas[p] \in Int
      <4>1. right.included[p.b] \in Int /\ left.included[p.a] \in Int
        BY <2>5, <2>6, <2>7
      <4> QED BY <2>5, <4>1
    <3>2. deltas = [p \in pairs |-> deltas[p]]
      BY <2>4 DEF deltas, Deltas
    <3> QED BY <3>1, <3>2
  <2> DEFINE A == Roster(a)
             B == Roster(b)
             l == left.included
             r == right.included
  <2>11. l \in [A -> Int] /\ r \in [B -> Int]
    BY <2>6, <2>7, <2>8
  <2>12. IsFiniteSet(A) /\ IsFiniteSet(B) /\ A = {p.a : p \in pairs} /\ B = {p.b : p \in pairs}
    BY <2>3, <2>9
  <2>13. \A p \in pairs : deltas[p] = r[p.b] - l[p.a]
    BY <2>5
  <2> HIDE DEF A, B, l, r
  <2>14. /\ Cardinality(A) = Cardinality(pairs) /\ Cardinality(B) = Cardinality(pairs)
         /\ Sum(deltas) * Cardinality(pairs) = MeanDelta(l, r)
         /\ ~Beyond(MeanDelta(l, r), Counts(l, r))
    <3>1. ~DeltasOverflow(deltas) /\ IsFiniteSet(pairs) /\ OneToOne(pairs)
      BY <2>2, <2>9
    <3>2. PairedInFull(A, B, pairs, l, r, deltas)
      BY <3>1, <2>10, <2>11, <2>12, <2>13 DEF PairedInFull
    <3> QED BY <3>2, MeansAgree
  <2>15. ~over /\ Sum(deltas) * Cardinality(pairs) = delta
    BY <2>14 DEF l, r
  <2>16. left.complete /\ right.complete
    <3>1. left.complete <=> DOMAIN left.included = Roster(a)
      BY RowIs DEF left
    <3>2. right.complete <=> DOMAIN right.included = Roster(b)
      BY RowIs DEF right
    <3> QED BY <2>8, <3>1, <3>2
  <2>17. ~Limited(a, b, left, right)
    BY <2>1, <2>8, <2>14, <2>16 DEF Limited, A, B
  <2> QED BY <2>1, <2>2, <2>15, <2>17
<1> HIDE DEF row, groups, left, right, deltas
<1> QED BY <1>1, <1>2 DEF PairsFitGroups, row, groups, left, right

\* Every declared pair is counted, missing or excluded.
LEMMA PairsCovered ==
    ASSUME NEW a, NEW ta, NEW b, NEW tb, NEW pairs
    PROVE  LET row == PairTarget(a, ta, b, tb, pairs)
           IN  DOMAIN row.included \cup row.missing \cup row.excluded = pairs
<1> DEFINE left == Aggregate(a, ta)
           right == Aggregate(b, tb)
           status == Statuses(a, ta, b, tb, pairs)
           deltas == Deltas(left, right, pairs, status)
           there == [e \in Roster(a) |-> a.selectors[ta][e]["direction"]]
           missing == PairsMissing(left, right, pairs)
           unpaired == Unpaired(a, b, pairs)
           blocked == PairsBlocked(a, ta, b, tb, left, right, status)
           lacking == PairsLacking(left, right, status)
           counted == CountedOf(blocked, lacking, deltas)
           row == PairTarget(a, ta, b, tb, pairs)
<1>1. row = PairRowOf(pairs, missing, blocked, lacking, unpaired, deltas, there)
  BY PairTargetIs DEF PairTargetFrom
<1>2. missing \subseteq pairs
  BY DEF PairsMissing
<1>3. DOMAIN deltas \subseteq pairs
  BY DEF Deltas
<1> HIDE DEF there, missing, unpaired, blocked, lacking, deltas, row
<1>4. DOMAIN counted \subseteq pairs
  <2>1. counted = deltas \/ counted = <<>>
    BY DEF CountedOf
  <2>2. DOMAIN <<>> = {}
    OBVIOUS
  <2> HIDE DEF counted
  <2> QED BY <1>3, <2>1, <2>2
<1>5. /\ row.included = counted /\ row.missing = missing
      /\ row.excluded = pairs \ (missing \cup DOMAIN counted)
  <2> DEFINE target == PairRowOf(pairs, missing, blocked, lacking, unpaired, deltas, there)
  <2>1. /\ target.included = counted /\ target.missing = missing
        /\ target.excluded = pairs \ (missing \cup DOMAIN counted)
    BY DEF PairRowOf, PairRow, Spills, CountedOf
  <2> HIDE DEF target, counted
  <2> QED BY <1>1, <2>1 DEF target
<1> HIDE DEF counted
<1>6. DOMAIN row.included \cup row.missing \cup row.excluded = pairs
  BY <1>2, <1>4, <1>5
<1> QED BY <1>6 DEF row

-----------------------------------------------------------------------------
LEMMA AgreeInvariant == BInv => ComparisonsAgree
<1> SUFFICES ASSUME BInv PROVE ComparisonsAgree
  OBVIOUS
<1> DEFINE a == given.a
           b == given.b
           pairs == given.pairs
           mapping == given.mapping
<1>1. ASSUME NEW tool \in {"groups", "paired"}, Answered(tool)
      PROVE  /\ IsGroup(a) /\ IsGroup(b) /\ ValidGroup(a) /\ ValidGroup(b)
             /\ \A m \in mapping : m.a \in Targets /\ m.b \in Targets
             /\ tool = "paired" => PairsOf(pairs) /\ ValidPairing(a, b, pairs)
             /\ reply.code = "ok"
             /\ tool = "groups" => reply.report = CompareGroups(a, b, mapping)
             /\ tool = "paired" => reply.report = ComparePairs(a, b, pairs, mapping)
  <2>1. /\ kind = tool /\ Typed(given) /\ Valid(given) /\ reply.code = "ok"
        /\ tool = "groups" => reply.report = CompareGroups(a, b, mapping)
        /\ tool = "paired" => reply.report = ComparePairs(a, b, pairs, mapping)
    BY <1>1, AnswersTheGiven
  <2>2. IsGrouping(given)
    BY <2>1 DEF Typed
  <2>3. /\ IsGroup(a) /\ IsGroup(b) /\ PairsOf(pairs)
        /\ \A m \in mapping : m.a \in Targets /\ m.b \in Targets
    BY <2>2 DEF IsGrouping, PairsOf
  <2>4. /\ ValidGroup(a) /\ ValidGroup(b)
        /\ tool = "paired" => ValidPairing(a, b, pairs)
    BY <2>1 DEF Valid
  <2> QED BY <2>1, <2>3, <2>4
<1> HIDE DEF a, b, pairs, mapping
<1>2. ASSUME Answered("groups"), NEW m \in mapping
      PROVE  MirroredGroups(reply.report[m], CompareTargets(b, m.b, a, m.a))
  <2>1. reply.report[m] = CompareTargets(a, m.a, b, m.b)
    BY <1>1, <1>2 DEF CompareGroups
  <2>2. /\ IsGroup(a) /\ IsGroup(b) /\ ValidGroup(a) /\ ValidGroup(b)
        /\ m.a \in Targets /\ m.b \in Targets
    BY <1>1, <1>2
  <2> QED BY <2>1, <2>2, TargetsMirrored
<1>3. ASSUME Answered("paired"), NEW m \in mapping
      PROVE  /\ MirroredPairs(reply.report[m],
                     PairTarget(b, m.b, a, m.a, {Reversed(p) : p \in pairs}))
             /\ DOMAIN reply.report[m].included \cup reply.report[m].missing
                    \cup reply.report[m].excluded = pairs
             /\ PairsFitGroups(reply.report[m], CompareTargets(a, m.a, b, m.b),
                    Aggregate(a, m.a).included, Aggregate(b, m.b).included)
  <2>1. reply.report[m] = PairTarget(a, m.a, b, m.b, pairs)
    BY <1>1, <1>3 DEF ComparePairs
  <2>2. /\ IsGroup(a) /\ IsGroup(b) /\ ValidGroup(a) /\ ValidGroup(b)
        /\ m.a \in Targets /\ m.b \in Targets
        /\ PairsOf(pairs) /\ ValidPairing(a, b, pairs)
    BY <1>1, <1>3
  <2>3. MirroredPairs(PairTarget(a, m.a, b, m.b, pairs),
                      PairTarget(b, m.b, a, m.a, Back(pairs)))
    BY <2>2, PairsMirrored
  <2>4. PairsFitGroups(PairTarget(a, m.a, b, m.b, pairs), CompareTargets(a, m.a, b, m.b),
                       Aggregate(a, m.a).included, Aggregate(b, m.b).included)
    BY <2>2, PairsFit
  <2>5. LET row == PairTarget(a, m.a, b, m.b, pairs)
        IN  DOMAIN row.included \cup row.missing \cup row.excluded = pairs
    BY PairsCovered
  <2> QED BY <2>1, <2>3, <2>4, <2>5 DEF Back
<1>4. /\ Answered("groups") => reply.code = "ok"
      /\ Answered("paired") => reply.code = "ok"
  BY <1>1
<1> QED BY <1>2, <1>3, <1>4, AllSidesMirror DEF ComparisonsAgree, a, b, pairs, mapping

\* The three comparisons say the same of two groups from either side, and of their
\* pairs what they say of the groups (compare_replicate_groups,
\* compare_paired_replicates).
THEOREM ComparedAlike == BoundSpec => []ComparisonsAgree
BY BInvInductive, AgreeInvariant, PTL DEF BoundSpec
=============================================================================
