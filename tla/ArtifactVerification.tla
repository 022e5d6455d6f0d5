----------------------- MODULE ArtifactVerification -----------------------
(***************************************************************************)
(* experiment_artifact_verification.py: what a host declares of its        *)
(* artifacts is compared with what it reports of them.                     *)
(*                                                                         *)
(* Texts, sizes and budgets in bytes are abstracted to well-formed values; *)
(* a digest keeps its letter case, which the comparison ignores.           *)
(***************************************************************************)
EXTENDS Integers, Sequences

CONSTANTS
    None,
    Ids,           \* artifact_id
    Sizes, Digests, Locators,
    Lower,         \* of each digest: its lower case
    Known,         \* reported_status values of the schema
    Foreign,       \* and one that is not
    MaxEntries     \* 32 in the code

Opt(S) == S \cup {None}

Declarations == [id : Ids, size : Opt(Sizes), sha : Opt(Digests), locator : Opt(Locators)]
Observations == [id : Ids, status : Known \cup {Foreign}, size : Opt(Sizes),
                 sha : Opt(Digests), locator : Opt(Locators)]

----------------------------------------------------------------------------
(* _validate *)

Distinct(s) == \A i, j \in DOMAIN s : s[i].id = s[j].id => i = j

\* A report other than of an observation holds nothing observed.
WellReported(o) == o.status \in Known /\ (o.status # "observed" => o.size = None /\ o.sha = None)

Valid(d, r) ==
    /\ Len(d) >= 1 /\ Len(d) <= MaxEntries /\ Distinct(d)
    /\ Len(r) <= MaxEntries /\ Distinct(r)
    /\ \A i \in DOMAIN r : WellReported(r[i]) /\ \E j \in DOMAIN d : d[j].id = r[i].id

----------------------------------------------------------------------------
(* _row *)

\* The entry of an artifact in a list, None without one.
Entry(s, a) ==
    IF \E i \in DOMAIN s : s[i].id = a
    THEN s[CHOOSE i \in DOMAIN s : s[i].id = a] ELSE None

\* _sha256: case is not told apart.
Digest(x) == IF x = None THEN None ELSE Lower[x]

\* Mutant of Compared: what is missing on both sides agrees.
ComparedMissing(left, right, observed) ==
    IF ~observed THEN "not_evaluated"
    ELSE IF left = right THEN "match"
    ELSE IF left = None \/ right = None THEN "unknown"
    ELSE "mismatch"

Compared(left, right, observed) ==
    IF ~observed THEN "not_evaluated"
    ELSE IF left = None \/ right = None THEN "unknown"
    ELSE IF left = right THEN "match" ELSE "mismatch"

Row(d, o) ==
    LET observed == o # None /\ o.status = "observed"
        other    == IF o = None THEN [size |-> None, sha |-> None, locator |-> None] ELSE o
    IN  [identity |-> IF o = None THEN "missing_observation" ELSE "aligned_host_key",
         status   |-> IF o = None THEN "unobserved" ELSE o.status,
         sha      |-> Compared(Digest(d.sha), Digest(other.sha), observed),
         size     |-> Compared(d.size, other.size, observed),
         locator  |-> Compared(d.locator, other.locator, observed)]

\* compare_artifact_descriptors: a row for each artifact declared.
Report(d, r, named) ==
    [membership |-> IF named THEN "host_declared" ELSE "unknown",
     artifacts  |-> [a \in {d[i].id : i \in DOMAIN d} |-> Row(Entry(d, a), Entry(r, a))]]

----------------------------------------------------------------------------

\* Where an artifact is declared, and where it is reported as observed.
Named(s, a) == {i \in DOMAIN s : s[i].id = a}
Observed(r, a) == {i \in Named(r, a) : r[i].status = "observed"}
SameCase(f, x, y) == IF f = "sha" THEN Lower[x] = Lower[y] ELSE x = y

(* Fields are said to match, or not to, exactly when an artifact is both     *)
(* declared with a value and observed with one, and these are, or are not,   *)
(* the same up to the case of a digest: silence on either side is never      *)
(* agreement (_comparison, _row).                                            *)
Shown(d, r, artifacts) ==
    /\ DOMAIN artifacts = {d[i].id : i \in DOMAIN d}
    /\ \A a \in DOMAIN artifacts, f \in {"size", "sha", "locator"} :
         LET left  == {d[i][f] : i \in Named(d, a)} \ {None}
             right == {r[i][f] : i \in Observed(r, a)} \ {None}
             row   == artifacts[a]
         IN  /\ row[f] = "match" <=> \E x \in left, y \in right : SameCase(f, x, y)
             /\ row[f] = "mismatch" <=> \E x \in left, y \in right : ~SameCase(f, x, y)
             /\ row[f] = "not_evaluated" <=> Observed(r, a) = {}
=============================================================================
