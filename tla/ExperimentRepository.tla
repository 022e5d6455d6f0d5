------------------------ MODULE ExperimentRepository ------------------------
(***************************************************************************)
(* experiment_repository.py: connections of several threads or processes   *)
(* to one SQLite file.                                                     *)
(*                                                                         *)
(* A call waits for its transaction, reads and perhaps writes in it, and   *)
(* commits or rolls back.  SQLite (external, with its default rollback     *)
(* journal) admits one writer beside any number of readers; a writer that  *)
(* commits lets no new reader in and waits for the present ones.  A wait   *)
(* that outlasts the busy timeout, or any other sqlite3.Error, ends the    *)
(* call with RepositoryError.  The process behind a connection may die at  *)
(* any point, between the commit and the return too.  A newer release may  *)
(* migrate the file while connections are open.                            *)
(***************************************************************************)
EXTENDS Evidence

CONSTANT Connections

ASSUME ConnectionsAssumption == Connections # {} /\ None \notin Connections

VARIABLES
    disk,    \* the committed database: user_version, whether the table exists, rows
    view,    \* the database as each open transaction sees it, None without one
    pc,      \* where each connection is
    job,     \* the call each connection works on, None without one
    answer   \* the answer given in this step, None without one

vars == <<disk, view, pc, job, answer>>

ReadCalls ==
    [op : {"get"}, execution : Executions]
    \cup [op : {"list"}, experiment : Experiments, invalidated : BOOLEAN]
WriteCalls ==
    [op : {"add"}, execution : Executions, evidence : Snapshots]
    \cup [op : {"invalidate"}, execution : Executions, reason : Reasons]
    \cup [op : {"delete"}, execution : Executions]
Opening == [op |-> "open"]

Writing == {"writing", "written", "committing"}
Databases == [version : {0, 1, 2}, created : BOOLEAN, rows : Tables]

Init ==
    /\ disk = [version |-> 0, created |-> FALSE, rows |-> EmptyTable]
    /\ view = [c \in Connections |-> None]
    /\ pc = [c \in Connections |-> "closed"]
    /\ job = [c \in Connections |-> None]
    /\ answer = None

----------------------------------------------------------------------------
(* Transactions *)

\* The writer holds SQLite's reserved lock until it has committed or rolled back.
NobodyWrites  == \A c \in Connections : pc[c] \notin Writing
NobodyReads   == \A c \in Connections : pc[c] # "reading"
NobodyCommits == \A c \in Connections : pc[c] # "committing"

\* The call of c is over: it returns or raises, and its transaction is gone.
\* An __init__ that raises leaves a closed connection.
Ends(c, code, about, seen) ==
    /\ pc' = [pc EXCEPT ![c] =
           IF job[c] = Opening /\ code # "opened" THEN "closed" ELSE "idle"]
    /\ view' = [view EXCEPT ![c] = None]
    /\ job' = [job EXCEPT ![c] = None]
    /\ answer' = [to |-> c, code |-> code, about |-> about, seen |-> seen]

\* Mutant of Raises: an exception leaves the transaction open.
RaisesUnrolled(c, code, about) ==
    /\ answer' = [to |-> c, code |-> code, about |-> about, seen |-> EmptyTable]
    /\ UNCHANGED <<disk, view, pc, job>>

Raises(c, code, about) == Ends(c, code, about, EmptyTable) /\ UNCHANGED disk

\* It returns without having written anything.
Returns(c, code, about, shown) ==
    Ends(c, code, about, Only(view[c].rows, shown)) /\ UNCHANGED disk

\* It has written, and will commit.
Writes(c, database) ==
    /\ view' = [view EXCEPT ![c] = database]
    /\ pc' = [pc EXCEPT ![c] = "written"]
    /\ answer' = None
    /\ UNCHANGED <<disk, job>>

WritesRow(c, e, row) == Writes(c, [view[c] EXCEPT !.rows[e] = row])

\* A host calls: the constructor on a closed connection, an operation on an
\* open one.
Call(c) ==
    /\ \/ pc[c] = "closed" /\ job' = [job EXCEPT ![c] = Opening]
       \/ /\ pc[c] = "idle"
          /\ \E call \in ReadCalls \cup WriteCalls : job' = [job EXCEPT ![c] = call]
    /\ pc' = [pc EXCEPT ![c] = "waiting"]
    /\ answer' = None
    /\ UNCHANGED <<disk, view>>

\* Evidence that does not encode, or a reason that is no string, is refused
\* before any transaction.
Refuse(c) ==
    /\ pc[c] = "idle"
    /\ Raises(c, "invalid", None)

BeginRead(c) ==
    /\ pc[c] = "waiting" /\ job[c] \in ReadCalls
    /\ NobodyCommits
    /\ view' = [view EXCEPT ![c] = disk]
    /\ pc' = [pc EXCEPT ![c] = "reading"]
    /\ answer' = None
    /\ UNCHANGED <<disk, job>>

\* Mutant of BeginWrite: retained evidence is read before the writer is reserved.
BeginUnreserved(c) ==
    /\ pc[c] = "waiting" /\ job[c] \in WriteCalls \cup {Opening}
    /\ NobodyCommits
    /\ view' = [view EXCEPT ![c] = disk]
    /\ pc' = [pc EXCEPT ![c] = "writing"]
    /\ answer' = None
    /\ UNCHANGED <<disk, job>>

\* BEGIN IMMEDIATE
BeginWrite(c) ==
    /\ pc[c] = "waiting" /\ job[c] \in WriteCalls \cup {Opening}
    /\ NobodyWrites
    /\ view' = [view EXCEPT ![c] = disk]
    /\ pc' = [pc EXCEPT ![c] = "writing"]
    /\ answer' = None
    /\ UNCHANGED <<disk, job>>

\* COMMIT of a transaction that has written: first it bars new readers ...
BeginCommit(c) ==
    /\ pc[c] = "written"
    /\ pc' = [pc EXCEPT ![c] = "committing"]
    /\ answer' = None
    /\ UNCHANGED <<disk, view, job>>

\* ... and when the present ones are gone its pages are the database.
Commit(c) ==
    /\ pc[c] = "committing" /\ NobodyReads
    /\ disk' = view[c]
    /\ \/ /\ job[c] = Opening
          /\ Ends(c, "opened", None, EmptyTable)
       \/ /\ job[c] # Opening /\ job[c].op = "delete"
          /\ Ends(c, "deleted", job[c].execution, EmptyTable)
       \/ /\ job[c] # Opening /\ job[c].op # "delete"
          /\ Ends(c, "stored", job[c].execution, Only(view[c].rows, {job[c].execution}))

\* A statement fails, or the busy timeout passes: the transaction rolls back.
Fail(c) ==
    /\ pc[c] \in {"reading"} \cup Writing
    /\ Raises(c, "unavailable", None)

\* The transaction did not begin within the busy timeout.
Busy(c) ==
    /\ pc[c] = "waiting"
    /\ IF job[c] \in ReadCalls THEN ~NobodyCommits ELSE ~NobodyWrites
    /\ Raises(c, "unavailable", None)

\* close(), or the process dies: SQLite undoes what was not committed.
Gone(c) ==
    /\ pc' = [pc EXCEPT ![c] = "closed"]
    /\ view' = [view EXCEPT ![c] = None]
    /\ job' = [job EXCEPT ![c] = None]
    /\ answer' = None

Crash(c) == pc[c] # "closed" /\ Gone(c) /\ UNCHANGED disk

\* The process dies after its commit took effect, before the call returned.
CrashCommitted(c) ==
    /\ pc[c] = "committing" /\ NobodyReads
    /\ disk' = view[c]
    /\ Gone(c)

----------------------------------------------------------------------------
(* The operations, inside their transaction *)

\* _validate_schema, "" when it lets the call go on.
SchemaError(database) ==
    IF database.version # 1 THEN "unsupported"
    ELSE IF ~database.created THEN "corrupt"
    ELSE ""

\* Mutant of Open: CREATE TABLE commits by itself, before the version is set.
OpenAutocommits(c) ==
    /\ pc[c] = "writing" /\ job[c] = Opening
    /\ IF view[c].version = 0 /\ ~view[c].created
       THEN /\ disk' = [disk EXCEPT !.created = TRUE]
            /\ view' = [view EXCEPT ![c].version = 1, ![c].created = TRUE]
            /\ pc' = [pc EXCEPT ![c] = "written"]
            /\ answer' = None
            /\ UNCHANGED job
       ELSE Returns(c, "opened", None, {})

\* __init__: an empty file gets the table and its version in one transaction.
Open(c) ==
    /\ pc[c] = "writing" /\ job[c] = Opening
    /\ IF view[c].version = 0 /\ ~view[c].created
       THEN Writes(c, [view[c] EXCEPT !.version = 1, !.created = TRUE])
       ELSE LET error == SchemaError(view[c])
            IN  IF error = "" THEN Returns(c, "opened", None, {})
                ELSE Raises(c, error, None)

\* Every other operation starts by validating the schema.
Works(c, stage, op) ==
    pc[c] = stage /\ job[c] # None /\ job[c].op = op /\ SchemaError(view[c]) = ""

Invalid(c) ==
    /\ pc[c] \in {"reading", "writing"} /\ job[c] # Opening
    /\ SchemaError(view[c]) # ""
    /\ Raises(c, SchemaError(view[c]), None)

AlreadyStored(rows, e) == rows[e] # None

\* Mutant of Conflicting: invalidated evidence keeps nothing out.
ConflictingActive(rows, e, s) ==
    {d \in Retained(rows, Experiment[e]) :
        /\ rows[d].status = "active"
        /\ Consistency(rows[d].evidence, s) = "conflict"}

\* The executions whose retained evidence keeps out s; invalidated ones count.
Conflicting(rows, e, s) ==
    {d \in Retained(rows, Experiment[e]) : Consistency(rows[d].evidence, s) = "conflict"}

Add(c) ==
    /\ Works(c, "writing", "add")
    /\ LET e == job[c].execution
           s == job[c].evidence
           rows == view[c].rows
           conflicting == Conflicting(rows, e, s)
       IN  \/ /\ AlreadyStored(rows, e) /\ rows[e].evidence # s
              /\ Raises(c, "mismatch", e)
           \/ /\ AlreadyStored(rows, e) /\ rows[e].evidence = s
              /\ Returns(c, "stored", e, {e})
           \/ /\ ~AlreadyStored(rows, e)
              /\ \E first \in conflicting :
                    /\ \A d \in conflicting : first <= d
                    /\ Raises(c, "conflict", first)
           \/ /\ ~AlreadyStored(rows, e) /\ conflicting = {}
              /\ WritesRow(c, e, Active(s))

Get(c) ==
    /\ Works(c, "reading", "get")
    /\ LET e == job[c].execution
       IN  IF view[c].rows[e] = None THEN Raises(c, "missing", e)
           ELSE Returns(c, "stored", e, {e})

ListExecutions(c) ==
    /\ Works(c, "reading", "list")
    /\ LET rows == view[c].rows
       IN  Returns(c, "listed", None,
               {e \in Retained(rows, job[c].experiment) :
                   job[c].invalidated \/ rows[e].status = "active"})

\* The reason given last stands.
Invalidate(c) ==
    /\ Works(c, "writing", "invalidate")
    /\ LET e == job[c].execution
           row == view[c].rows[e]
       IN  IF row = None THEN Raises(c, "missing", e)
           ELSE WritesRow(c, e, Invalidated(row, job[c].reason))

Delete(c) ==
    /\ Works(c, "writing", "delete")
    /\ LET e == job[c].execution
       IN  IF view[c].rows[e] = None THEN Returns(c, "absent", e, {})
           ELSE WritesRow(c, e, None)

----------------------------------------------------------------------------

\* Another program migrates the file to a later schema version.
Migrate ==
    /\ disk.version = 1 /\ NobodyReads /\ NobodyWrites
    /\ disk' = [disk EXCEPT !.version = 2]
    /\ answer' = None
    /\ UNCHANGED <<view, pc, job>>

Operation(c) ==
    Open(c) \/ Invalid(c) \/ Add(c) \/ Get(c) \/ ListExecutions(c) \/ Invalidate(c) \/ Delete(c)

Begin(c) == BeginRead(c) \/ BeginWrite(c)

Next ==
    \/ \E c \in Connections :
          \/ Call(c) \/ Refuse(c) \/ Begin(c) \/ Operation(c) \/ BeginCommit(c) \/ Commit(c)
          \/ Fail(c) \/ Busy(c) \/ Crash(c) \/ CrashCommitted(c)
    \/ Migrate

Spec == Init /\ [][Next]_vars

\* A process that lives goes on with its call, and SQLite lets a transaction
\* begin that could again and again.  Nothing need fail or time out.
Fairness == \A c \in Connections :
    /\ SF_vars(Begin(c))
    /\ WF_vars(Operation(c)) /\ WF_vars(BeginCommit(c)) /\ WF_vars(Commit(c))

FairSpec == Spec /\ Fairness

----------------------------------------------------------------------------
(* What must hold *)

\* Every variable keeps to the values the code and SQLite give it.
TypeOK ==
    /\ disk \in Databases
    /\ view \in [Connections -> Databases \cup {None}]
    /\ pc \in [Connections -> {"closed", "idle", "waiting", "reading"} \cup Writing]
    /\ job \in [Connections -> ReadCalls \cup WriteCalls \cup {Opening, None}]
    /\ answer # None => answer.to \in Connections /\ answer.seen \in Tables

\* The table and the schema version appear together: no crash while a file is
\* created leaves one that no later connection can open.
SchemaWhole == disk.created <=> disk.version # 0

\* A connection opened before a migration does not write into the migrated file.
NewerLeftAlone == [][disk.version = 2 => UNCHANGED disk]_disk

\* add keeps out conflicting evidence, across connections, deletions and
\* snapshots that declare little: no two rows of an experiment conflict.
Compatible == NoConflict(disk.rows)

\* A row's evidence never changes while the row exists, and an invalidated row
\* does not become active again.
EvidenceFixed ==
    [][\A e \in Executions :
          disk.rows[e] # None /\ disk'.rows[e] # None =>
              /\ disk'.rows[e].evidence = disk.rows[e].evidence
              /\ disk.rows[e].status = "invalidated" =>
                     disk'.rows[e].status = "invalidated"]_disk

\* Calls of concurrent connections take effect one at a time and answers tell
\* the effect: the repository implements the evidence store.
Store == INSTANCE EvidenceStore WITH Clients <- Connections, table <- disk.rows
StoreSpec == Store!Spec

\* Nobody waits for good: a call returns, raises, or dies with its process.
CallsEnd == \A c \in Connections :
    pc[c] \notin {"idle", "closed"} ~> pc[c] \in {"idle", "closed"}

=============================================================================
