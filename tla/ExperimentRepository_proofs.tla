-------------------- MODULE ExperimentRepository_proofs --------------------
(***************************************************************************)
(* TLAPS proofs about ExperimentRepository, for every set of connections,  *)
(* executions, snapshots and declarations.                                 *)
(***************************************************************************)
EXTENDS ExperimentRepository, TLAPS

\* What a transaction may make of the rows it found.
RowsFollow(old, new) ==
    \A e \in Executions : old[e] # None /\ new[e] # None =>
        /\ new[e].evidence = old[e].evidence
        /\ old[e].status = "invalidated" => new[e].status = "invalidated"

\* What a writer may commit over a database.
Follows(old, new) ==
    /\ old.version # 2 /\ new.version = 1 /\ new.created
    /\ NoConflict(new.rows)
    /\ RowsFollow(old.rows, new.rows)

\* What a call that has written makes of the rows.
Effect(call, old, new) ==
    \/ call = Opening /\ new = old
    \/ /\ call # Opening /\ call.op = "add" /\ old[call.execution] = None
       /\ Conflicting(old, call.execution, call.evidence) = {}
       /\ new = [old EXCEPT ![call.execution] = Active(call.evidence)]
    \/ /\ call # Opening /\ call.op = "invalidate" /\ old[call.execution] # None
       /\ new = [old EXCEPT ![call.execution] = Invalidated(@, call.reason)]
    \/ /\ call # Opening /\ call.op = "delete" /\ old[call.execution] # None
       /\ new = [old EXCEPT ![call.execution] = None]

\* SQLite's reserved lock has one holder.
OneWriter == \A c, d \in Connections : pc[c] \in Writing /\ pc[d] \in Writing => c = d

\* A transaction works for a call of its kind.
Transactions == \A c \in Connections :
    /\ pc[c] = "reading" => job[c] \in ReadCalls /\ view[c] \in Databases
    /\ pc[c] \in Writing => job[c] \in WriteCalls \cup {Opening} /\ view[c] \in Databases

\* A transaction sees the database, until the writer has written; what it would
\* commit follows the database and is the effect of its call.
WriterFollows == \A c \in Connections :
    /\ pc[c] \in {"reading", "writing"} => view[c] = disk
    /\ pc[c] \in {"written", "committing"} =>
          Follows(disk, view[c]) /\ Effect(job[c], disk.rows, view[c].rows)

IInv == TypeOK /\ OneWriter /\ Transactions /\ WriterFollows /\ SchemaWhole /\ Compatible

----------------------------------------------------------------------------

\* Conflict is symmetric, and no snapshot conflicts with itself.
LEMMA ConflictSymmetric ==
    \A s, u : Consistency(s, u) = "conflict" <=> Consistency(u, s) = "conflict"
<1> TAKE s, u
<1>1. Mismatches(s, u) = Mismatches(u, s)
    BY DEF Mismatches
<1>2. ASSUME NEW p, NEW q PROVE Consistency(p, q) = "conflict" <=> Mismatches(p, q) # {}
    BY DEF Consistency
<1> QED BY <1>1, <1>2

LEMMA NoSelfConflict == \A s : Consistency(s, s) # "conflict"
<1> TAKE s
<1>1. Mismatches(s, s) = {}
    BY DEF Mismatches
<1> QED BY <1>1 DEF Consistency

\* A snapshot that conflicts with no retained row of its experiment may be added.
LEMMA AddedFits ==
    ASSUME NEW rows \in Tables, NoConflict(rows),
           NEW e \in Executions, NEW s \in Snapshots, Conflicting(rows, e, s) = {}
    PROVE  NoConflict([rows EXCEPT ![e] = Active(s)])
<1> DEFINE new == [rows EXCEPT ![e] = Active(s)]
<1>1. new[e].evidence = s /\ \A d \in Executions : d # e => new[d] = rows[d]
    BY DEF Tables, Active
<1>2. \A d \in Executions :
          rows[d] # None /\ Experiment[d] = Experiment[e] =>
              Consistency(rows[d].evidence, s) # "conflict"
    BY DEF Conflicting, Retained
<1> HIDE DEF new
<1> SUFFICES ASSUME NEW d \in Executions, NEW f \in Executions,
                    new[d] # None, new[f] # None, Experiment[d] = Experiment[f]
             PROVE  Consistency(new[d].evidence, new[f].evidence) # "conflict"
    BY DEF NoConflict, new
<1>3. CASE d = e /\ f = e
    BY <1>1, <1>3, NoSelfConflict
<1>4. CASE d # e /\ f = e
    BY <1>1, <1>2, <1>4
<1>5. CASE d = e /\ f # e
    BY <1>1, <1>2, <1>5, ConflictSymmetric
<1>6. CASE d # e /\ f # e
    BY <1>1, <1>6 DEF NoConflict
<1> QED BY <1>3, <1>4, <1>5, <1>6

\* The tables that answers show are tables.
LEMMA ShownTables ==
    /\ EmptyTable \in Tables
    /\ \A rows \in Tables : \A some : Only(rows, some) \in Tables
BY DEF EmptyTable, Only, Tables

----------------------------------------------------------------------------

LEMMA InitIInv == Init => IInv
<1> SUFFICES ASSUME Init PROVE IInv
    OBVIOUS
<1>1. TypeOK
    BY ShownTables DEF Init, TypeOK, Databases
<1>2. OneWriter /\ Transactions /\ WriterFollows /\ SchemaWhole
    BY DEF Init, OneWriter, Transactions, WriterFollows, SchemaWhole, Writing
<1>3. Compatible
    BY DEF Init, Compatible, NoConflict, EmptyTable
<1> QED BY <1>1, <1>2, <1>3 DEF IInv

\* A connection that leaves its transaction leaves the rest of the invariant.
LEMMA LeaveStep ==
    ASSUME IInv, NEW c \in Connections, UNCHANGED disk,
           NEW stop \in {"closed", "idle"},
           pc' = [pc EXCEPT ![c] = stop], view' = [view EXCEPT ![c] = None],
           job' = [job EXCEPT ![c] = None],
           answer' # None => answer'.to \in Connections /\ answer'.seen \in Tables
    PROVE  IInv'
<1>1. pc'[c] = stop /\ \A d \in Connections : d # c =>
          pc'[d] = pc[d] /\ view'[d] = view[d] /\ job'[d] = job[d]
    BY DEF IInv, TypeOK
<1>2. stop \notin Writing \cup {"reading"}
    BY DEF Writing
<1>3. TypeOK'
    BY DEF IInv, TypeOK
<1>4. OneWriter'
    BY <1>1, <1>2 DEF IInv, OneWriter
<1>5. Transactions'
    BY <1>1, <1>2 DEF IInv, Transactions
<1>6. WriterFollows'
    BY <1>1, <1>2 DEF IInv, WriterFollows, Writing
<1>7. SchemaWhole' /\ Compatible'
    BY DEF IInv, SchemaWhole, Compatible
<1> QED BY <1>3, <1>4, <1>5, <1>6, <1>7 DEF IInv

\* So do calls that end without writing.
LEMMA EndStep ==
    ASSUME IInv, NEW c \in Connections, NEW code, NEW about, NEW seen \in Tables,
           Ends(c, code, about, seen), UNCHANGED disk
    PROVE  IInv'
<1>1. PICK stop \in {"closed", "idle"} : pc' = [pc EXCEPT ![c] = stop]
    BY DEF Ends
<1>2. answer'.to \in Connections /\ answer'.seen \in Tables
    BY DEF Ends
<1> QED BY <1>1, <1>2, LeaveStep DEF Ends

LEMMA RaisesStep ==
    ASSUME IInv, NEW c \in Connections, NEW code, NEW about, Raises(c, code, about)
    PROVE  IInv'
BY EndStep, ShownTables DEF Raises

LEMMA ReturnsStep ==
    ASSUME IInv, NEW c \in Connections, NEW code, NEW about, NEW shown,
           view[c] \in Databases, Returns(c, code, about, shown)
    PROVE  IInv'
<1>1. Only(view[c].rows, shown) \in Tables
    BY ShownTables DEF Databases
<1> QED BY <1>1, EndStep DEF Returns

\* A writer may write what follows the database it found.
LEMMA WritesStep ==
    ASSUME IInv, NEW c \in Connections, pc[c] = "writing",
           NEW database \in Databases, Follows(disk, database),
           Effect(job[c], disk.rows, database.rows), Writes(c, database)
    PROVE  IInv'
<1>1. /\ pc'[c] = "written" /\ view'[c] = database /\ UNCHANGED <<disk, job>> /\ answer' = None
      /\ \A d \in Connections : d # c => pc'[d] = pc[d] /\ view'[d] = view[d]
    BY DEF IInv, TypeOK, Writes
<1>2. "written" \in Writing /\ "writing" \in Writing /\ "reading" \notin Writing
    BY DEF Writing
<1>3. TypeOK'
    BY <1>1, <1>2 DEF IInv, TypeOK, Writes
<1>4. OneWriter'
    BY <1>1, <1>2 DEF IInv, OneWriter
<1>5. Transactions'
    BY <1>1, <1>2 DEF IInv, Transactions
<1>6. WriterFollows'
    BY <1>1 DEF IInv, WriterFollows
<1>7. SchemaWhole' /\ Compatible'
    BY <1>1 DEF IInv, SchemaWhole, Compatible
<1> QED BY <1>3, <1>4, <1>5, <1>6, <1>7 DEF IInv

\* The writer's database becomes the committed one, whoever hears of it.
LEMMA CommittedStep ==
    ASSUME IInv, NEW c \in Connections, pc[c] = "committing", NobodyReads, disk' = view[c],
           NEW stop \in {"closed", "idle"},
           pc' = [pc EXCEPT ![c] = stop], view' = [view EXCEPT ![c] = None],
           job' = [job EXCEPT ![c] = None],
           answer' # None => answer'.to \in Connections /\ answer'.seen \in Tables
    PROVE  IInv'
<1>1. pc'[c] = stop /\ \A d \in Connections : d # c =>
          pc'[d] = pc[d] /\ view'[d] = view[d] /\ job'[d] = job[d]
    BY DEF IInv, TypeOK
<1>2. stop \notin Writing \cup {"reading"} /\ "committing" \in Writing
    BY DEF Writing
<1>3. disk' \in Databases /\ Follows(disk, disk')
    BY <1>2 DEF IInv, Transactions, WriterFollows
<1>4. \A d \in Connections : d # c => pc[d] \notin Writing
    BY <1>2 DEF IInv, OneWriter
<1>5. TypeOK'
    BY <1>3 DEF IInv, TypeOK
<1>6. OneWriter'
    BY <1>1, <1>2, <1>4 DEF OneWriter
<1>7. Transactions'
    BY <1>1, <1>2 DEF IInv, Transactions
<1>8. WriterFollows'
    BY <1>1, <1>2, <1>4 DEF WriterFollows, Writing, NobodyReads
<1>9. SchemaWhole' /\ Compatible'
    BY <1>3 DEF Follows, SchemaWhole, Compatible, NoConflict
<1> QED BY <1>5, <1>6, <1>7, <1>8, <1>9 DEF IInv

----------------------------------------------------------------------------

\* The rows a single change leaves: the others, and perhaps the changed one.
LEMMA RowChange ==
    ASSUME NEW rows \in Tables, NEW e \in Executions, NEW row \in Rows \cup {None},
           row # None /\ rows[e] # None =>
               /\ row.evidence = rows[e].evidence
               /\ rows[e].status = "invalidated" => row.status = "invalidated"
    PROVE  /\ [rows EXCEPT ![e] = row] \in Tables
           /\ RowsFollow(rows, [rows EXCEPT ![e] = row])
<1> DEFINE new == [rows EXCEPT ![e] = row]
<1>1. new[e] = row /\ (\A d \in Executions : d # e => new[d] = rows[d]) /\ new \in Tables
    BY DEF Tables
<1> HIDE DEF new
<1>2. RowsFollow(rows, new)
  <2> SUFFICES ASSUME NEW d \in Executions, rows[d] # None, new[d] # None
               PROVE  /\ new[d].evidence = rows[d].evidence
                      /\ rows[d].status = "invalidated" => new[d].status = "invalidated"
    BY DEF RowsFollow
  <2>1. CASE d = e
    BY <1>1, <2>1
  <2>2. CASE d # e
    BY <1>1, <2>2
  <2> QED BY <2>1, <2>2
<1> QED BY <1>1, <1>2 DEF new

\* The databases that pass validation.
LEMMA ValidSchema ==
    ASSUME NEW database \in Databases, SchemaError(database) = ""
    PROVE  database.version = 1 /\ database.version # 2 /\ database.created
BY DEF SchemaError, Databases

\* A change of one row that brings no conflict follows a valid database.
LEMMA WritesRowStep ==
    ASSUME IInv, NEW c \in Connections, pc[c] = "writing", job[c] # Opening,
           SchemaError(view[c]) = "",
           NEW e \in Executions, NEW row \in Rows \cup {None},
           row # None /\ view[c].rows[e] # None =>
               /\ row.evidence = view[c].rows[e].evidence
               /\ view[c].rows[e].status = "invalidated" => row.status = "invalidated",
           NoConflict([view[c].rows EXCEPT ![e] = row]),
           Effect(job[c], disk.rows, [disk.rows EXCEPT ![e] = row]),
           WritesRow(c, e, row)
    PROVE  IInv'
<1> DEFINE rows == view[c].rows
           new  == [rows EXCEPT ![e] = row]
           database == [view[c] EXCEPT !.rows[e] = row]
<1>1. view[c] = disk /\ view[c] \in Databases
    BY DEF IInv, WriterFollows, TypeOK
<1>2. rows \in Tables
    BY <1>1 DEF Databases
<1>3. new \in Tables /\ RowsFollow(rows, new)
    BY <1>2, RowChange
<1>4. view[c].version = 1 /\ view[c].version # 2 /\ view[c].created
    BY <1>1, ValidSchema
<1>5. database = [view[c] EXCEPT !.rows = new]
    BY <1>1 DEF Databases
<1>6. NoConflict(new)
    OBVIOUS
<1> HIDE DEF new
<1>7. /\ database \in Databases /\ database.rows = new
      /\ database.version = 1 /\ database.created
    BY <1>1, <1>3, <1>4, <1>5 DEF Databases
<1>8. Writes(c, database)
    BY DEF WritesRow
<1> HIDE DEF database
<1>9. Follows(disk, database)
  <2>1. disk.version # 2 /\ disk.rows = rows
    BY <1>1, <1>4
  <2>2. NoConflict(database.rows) /\ RowsFollow(disk.rows, database.rows)
    BY <1>3, <1>6, <1>7, <2>1
  <2> QED BY <1>7, <2>1, <2>2 DEF Follows
<1>10. Effect(job[c], disk.rows, database.rows)
  <2>1. disk.rows = rows
    BY <1>1
  <2>2. Effect(job[c], disk.rows, new)
    BY <2>1 DEF new
  <2> QED BY <1>7, <2>2
<1> QED BY <1>7, <1>8, <1>9, <1>10, WritesStep

\* What a call inside its transaction knows.
LEMMA WorkFacts ==
    ASSUME IInv, NEW c \in Connections
    PROVE  /\ \A op : Works(c, "reading", op) =>
                 pc[c] = "reading" /\ view[c] \in Databases /\ job[c] \in ReadCalls /\ job[c].op = op
           /\ \A op : Works(c, "writing", op) =>
                 /\ pc[c] = "writing" /\ view[c] = disk /\ disk \in Databases
                 /\ job[c] \in WriteCalls \cup {Opening} /\ job[c].op = op
                 /\ SchemaError(view[c]) = ""
BY DEF IInv, Transactions, WriterFollows, TypeOK, Works, Writing

\* What a write is called with.
LEMMA CallFields ==
    ASSUME NEW call \in WriteCalls \cup {Opening}
    PROVE  /\ call.op # "open" => call # Opening /\ call.execution \in Executions
           /\ call.op = "add" => call.evidence \in Snapshots
           /\ call.op = "invalidate" => call.reason \in Reasons
<1>1. Opening.op = "open"
    BY DEF Opening
<1>2. CASE call = Opening
    BY <1>1, <1>2
<1>3. CASE call \in [op : {"add"}, execution : Executions, evidence : Snapshots]
    BY <1>1, <1>3
<1>4. CASE call \in [op : {"invalidate"}, execution : Executions, reason : Reasons]
    BY <1>1, <1>4
<1>5. CASE call \in [op : {"delete"}, execution : Executions]
    BY <1>1, <1>5
<1> QED BY <1>2, <1>3, <1>4, <1>5 DEF WriteCalls

\* Creating the table gives the first database of this schema.
LEMMA OpenStep == ASSUME IInv, NEW c \in Connections, Open(c) PROVE IInv'
<1>1. view[c] = disk /\ disk \in Databases /\ pc[c] = "writing"
    BY DEF Open, IInv, WriterFollows, TypeOK
<1>2. CASE view[c].version = 0 /\ ~view[c].created
  <2> DEFINE database == [view[c] EXCEPT !.version = 1, !.created = TRUE]
  <2>1. /\ database \in Databases /\ database.version = 1 /\ database.created
        /\ database.rows = disk.rows
    BY <1>1 DEF Databases
  <2>2. Writes(c, database)
    BY <1>2 DEF Open
  <2> HIDE DEF database
  <2>3. RowsFollow(disk.rows, disk.rows) /\ NoConflict(disk.rows)
    BY DEF RowsFollow, IInv, Compatible
  <2>4. Follows(disk, database)
    BY <1>1, <1>2, <2>1, <2>3 DEF Follows
  <2>5. Effect(job[c], disk.rows, database.rows)
    BY <2>1 DEF Open, Effect
  <2> QED BY <1>1, <2>1, <2>2, <2>4, <2>5, WritesStep
<1>3. CASE ~(view[c].version = 0 /\ ~view[c].created)
  <2>1. Returns(c, "opened", None, {}) \/ Raises(c, SchemaError(view[c]), None)
    BY <1>3 DEF Open
  <2> QED BY <1>1, <2>1, ReturnsStep, RaisesStep
<1> QED BY <1>2, <1>3

\* add stores evidence that conflicts with nothing retained, and nothing else.
LEMMA AddStep == ASSUME IInv, NEW c \in Connections, Add(c) PROVE IInv'
<1> DEFINE e == job[c].execution
           s == job[c].evidence
           rows == view[c].rows
<1>1. /\ pc[c] = "writing" /\ view[c] = disk /\ disk \in Databases
      /\ job[c] \in WriteCalls \cup {Opening} /\ job[c].op = "add" /\ SchemaError(view[c]) = ""
    BY WorkFacts DEF Add
<1>2. e \in Executions /\ s \in Snapshots /\ job[c] # Opening
    BY <1>1, CallFields
<1>3. CASE \/ Raises(c, "mismatch", e)
           \/ \E first \in Executions : Raises(c, "conflict", first)
    BY <1>3, RaisesStep
<1>4. CASE Returns(c, "stored", e, {e})
    BY <1>1, <1>4, ReturnsStep
<1>5. CASE /\ rows[e] = None /\ Conflicting(rows, e, s) = {} /\ WritesRow(c, e, Active(s))
  <2>1. Active(s) \in Rows
    BY <1>2 DEF Active, Rows, ActiveRows
  <2>2. rows \in Tables /\ NoConflict(rows)
    BY <1>1 DEF Databases, IInv, Compatible
  <2>3. NoConflict([rows EXCEPT ![e] = Active(s)])
    BY <1>2, <1>5, <2>2, AddedFits
  <2>4. Effect(job[c], rows, [rows EXCEPT ![e] = Active(s)])
    BY <1>1, <1>2, <1>5 DEF Effect
  <2> QED BY <1>1, <1>2, <1>5, <2>1, <2>3, <2>4, WritesRowStep
<1>6. \A first \in Conflicting(rows, e, s) : first \in Executions
    BY DEF Conflicting, Retained
<1> QED BY <1>3, <1>4, <1>5, <1>6 DEF Add, AlreadyStored

\* invalidate keeps the evidence of its row.
LEMMA InvalidateStep == ASSUME IInv, NEW c \in Connections, Invalidate(c) PROVE IInv'
<1> DEFINE e == job[c].execution
           rows == view[c].rows
<1>1. /\ pc[c] = "writing" /\ view[c] = disk /\ disk \in Databases
      /\ job[c] \in WriteCalls \cup {Opening} /\ job[c].op = "invalidate"
      /\ SchemaError(view[c]) = ""
    BY WorkFacts DEF Invalidate
<1>2. e \in Executions /\ job[c].reason \in Reasons /\ job[c] # Opening
    BY <1>1, CallFields
<1>3. CASE Raises(c, "missing", e)
    BY <1>3, RaisesStep
<1>4. CASE rows[e] # None /\ WritesRow(c, e, Invalidated(rows[e], job[c].reason))
  <2> DEFINE row == Invalidated(rows[e], job[c].reason)
  <2>1. rows \in Tables /\ NoConflict(rows)
    BY <1>1 DEF Databases, IInv, Compatible
  <2>2. rows[e] \in Rows
    BY <1>2, <1>4, <2>1 DEF Tables
  <2>3. row \in Rows /\ row.evidence = rows[e].evidence /\ row.status = "invalidated"
    BY <1>2, <2>2 DEF Invalidated, Rows, ActiveRows, InvalidatedRows
  <2>5. Effect(job[c], rows, [rows EXCEPT ![e] = row])
    BY <1>1, <1>2, <1>4 DEF Effect
  <2> HIDE DEF row
  <2>4. NoConflict([rows EXCEPT ![e] = row])
    <3> DEFINE new == [rows EXCEPT ![e] = row]
    <3>1. \A d \in Executions : new[d] # None =>
              rows[d] # None /\ new[d].evidence = rows[d].evidence
      BY <1>4, <2>1, <2>3 DEF Tables
    <3> HIDE DEF new
    <3>2. NoConflict(new)
      BY <2>1, <3>1 DEF NoConflict
    <3> QED BY <3>2 DEF new
  <2> QED BY <1>1, <1>2, <1>4, <2>3, <2>4, <2>5, WritesRowStep DEF row
<1> QED BY <1>3, <1>4 DEF Invalidate

\* delete takes one row away.
LEMMA DeleteStep == ASSUME IInv, NEW c \in Connections, Delete(c) PROVE IInv'
<1> DEFINE e == job[c].execution
           rows == view[c].rows
<1>1. /\ pc[c] = "writing" /\ view[c] = disk /\ disk \in Databases
      /\ job[c] \in WriteCalls \cup {Opening} /\ job[c].op = "delete"
      /\ SchemaError(view[c]) = ""
    BY WorkFacts DEF Delete
<1>2. e \in Executions /\ job[c] # Opening
    BY <1>1, CallFields
<1>3. CASE Returns(c, "absent", e, {})
    BY <1>1, <1>3, ReturnsStep
<1>4. CASE rows[e] # None /\ WritesRow(c, e, None)
  <2>1. rows \in Tables /\ NoConflict(rows)
    BY <1>1 DEF Databases, IInv, Compatible
  <2>2. NoConflict([rows EXCEPT ![e] = None])
    <3> DEFINE new == [rows EXCEPT ![e] = None]
    <3>1. \A d \in Executions : new[d] # None => new[d] = rows[d]
      BY <2>1 DEF Tables
    <3> HIDE DEF new
    <3>2. NoConflict(new)
      BY <2>1, <3>1 DEF NoConflict
    <3> QED BY <3>2 DEF new
  <2>3. Effect(job[c], rows, [rows EXCEPT ![e] = None])
    BY <1>1, <1>2, <1>4 DEF Effect
  <2> QED BY <1>1, <1>2, <1>4, <2>2, <2>3, WritesRowStep
<1> QED BY <1>3, <1>4 DEF Delete

----------------------------------------------------------------------------

\* A call made, and a commit begun, change neither database nor views.
LEMMA CallStep == ASSUME IInv, NEW c \in Connections, Call(c) PROVE IInv'
<1>1. /\ UNCHANGED <<disk, view>> /\ answer' = None
      /\ pc' = [pc EXCEPT ![c] = "waiting"]
      /\ pc[c] \in {"closed", "idle"}
    BY DEF Call
<1>2. PICK call \in ReadCalls \cup WriteCalls \cup {Opening} : job' = [job EXCEPT ![c] = call]
    BY DEF Call
<1>3. pc'[c] = "waiting" /\ \A d \in Connections : d # c => pc'[d] = pc[d] /\ job'[d] = job[d]
    BY <1>1, <1>2 DEF IInv, TypeOK
<1>4. TypeOK'
    BY <1>1, <1>2 DEF IInv, TypeOK
<1>5. OneWriter' /\ WriterFollows'
    BY <1>1, <1>3 DEF IInv, OneWriter, WriterFollows, Writing
<1>6. Transactions'
    BY <1>1, <1>3 DEF IInv, Transactions, Writing
<1>7. SchemaWhole' /\ Compatible'
    BY <1>1 DEF IInv, SchemaWhole, Compatible
<1> QED BY <1>4, <1>5, <1>6, <1>7 DEF IInv

LEMMA BeginReadStep == ASSUME IInv, NEW c \in Connections, BeginRead(c) PROVE IInv'
<1>1. /\ UNCHANGED <<disk, job>> /\ answer' = None /\ job[c] \in ReadCalls
      /\ view' = [view EXCEPT ![c] = disk] /\ pc' = [pc EXCEPT ![c] = "reading"]
    BY DEF BeginRead
<1>2. /\ pc'[c] = "reading" /\ view'[c] = disk /\ disk \in Databases
      /\ \A d \in Connections : d # c => pc'[d] = pc[d] /\ view'[d] = view[d]
    BY <1>1 DEF IInv, TypeOK
<1>3. TypeOK'
    BY <1>1 DEF IInv, TypeOK
<1>4. OneWriter'
    BY <1>2 DEF IInv, OneWriter, Writing
<1>5. Transactions'
    BY <1>1, <1>2 DEF IInv, Transactions, Writing
<1>6. WriterFollows'
    BY <1>1, <1>2 DEF IInv, WriterFollows
<1>7. SchemaWhole' /\ Compatible'
    BY <1>1 DEF IInv, SchemaWhole, Compatible
<1> QED BY <1>3, <1>4, <1>5, <1>6, <1>7 DEF IInv

LEMMA BeginWriteStep == ASSUME IInv, NEW c \in Connections, BeginWrite(c) PROVE IInv'
<1>1. /\ UNCHANGED <<disk, job>> /\ answer' = None /\ job[c] \in WriteCalls \cup {Opening}
      /\ view' = [view EXCEPT ![c] = disk] /\ pc' = [pc EXCEPT ![c] = "writing"]
      /\ \A d \in Connections : pc[d] \notin Writing
    BY DEF BeginWrite, NobodyWrites
<1>2. /\ pc'[c] = "writing" /\ view'[c] = disk /\ disk \in Databases
      /\ \A d \in Connections : d # c => pc'[d] = pc[d] /\ view'[d] = view[d]
    BY <1>1 DEF IInv, TypeOK
<1>3. TypeOK'
    BY <1>1 DEF IInv, TypeOK, Writing
<1>4. OneWriter'
    BY <1>1, <1>2 DEF OneWriter
<1>5. Transactions'
    BY <1>1, <1>2 DEF IInv, Transactions, Writing
<1>6. WriterFollows'
    BY <1>1, <1>2 DEF IInv, WriterFollows
<1>7. SchemaWhole' /\ Compatible'
    BY <1>1 DEF IInv, SchemaWhole, Compatible
<1> QED BY <1>3, <1>4, <1>5, <1>6, <1>7 DEF IInv

LEMMA BeginCommitStep == ASSUME IInv, NEW c \in Connections, BeginCommit(c) PROVE IInv'
<1>1. /\ UNCHANGED <<disk, view, job>> /\ answer' = None
      /\ pc[c] = "written" /\ pc' = [pc EXCEPT ![c] = "committing"]
    BY DEF BeginCommit
<1>2. pc'[c] = "committing" /\ \A d \in Connections : d # c => pc'[d] = pc[d]
    BY <1>1 DEF IInv, TypeOK
<1>3. TypeOK'
    BY <1>1 DEF IInv, TypeOK, Writing
<1>4. OneWriter'
    BY <1>1, <1>2 DEF IInv, OneWriter, Writing
<1>5. Transactions'
    BY <1>1, <1>2 DEF IInv, Transactions, Writing
<1>6. WriterFollows'
    BY <1>1, <1>2 DEF IInv, WriterFollows
<1>7. SchemaWhole' /\ Compatible'
    BY <1>1 DEF IInv, SchemaWhole, Compatible
<1> QED BY <1>3, <1>4, <1>5, <1>6, <1>7 DEF IInv

\* Commit and CrashCommitted differ in who hears of it.
LEMMA CommitStep ==
    ASSUME IInv, NEW c \in Connections, Commit(c) \/ CrashCommitted(c)
    PROVE  IInv'
<1>1. pc[c] = "committing" /\ NobodyReads /\ disk' = view[c] /\ view[c] \in Databases
    BY DEF Commit, CrashCommitted, IInv, Transactions, Writing
<1>2. CASE Commit(c)
  <2>1. PICK code, about, seen :
            Ends(c, code, about, seen)
            /\ seen \in {EmptyTable, Only(view[c].rows, {job[c].execution})}
    BY <1>2 DEF Commit
  <2>2. seen \in Tables
    BY <1>1, <2>1, ShownTables DEF Databases
  <2>3. PICK stop \in {"closed", "idle"} : pc' = [pc EXCEPT ![c] = stop]
    BY <2>1 DEF Ends
  <2>4. answer'.to \in Connections /\ answer'.seen \in Tables
    BY <2>1, <2>2 DEF Ends
  <2> QED BY <1>1, <2>1, <2>3, <2>4, CommittedStep DEF Ends
<1>3. CASE CrashCommitted(c)
    BY <1>1, <1>3, CommittedStep DEF CrashCommitted, Gone
<1> QED BY <1>2, <1>3

LEMMA MigrateStep == ASSUME IInv, Migrate PROVE IInv'
<1>1. /\ disk' = [disk EXCEPT !.version = 2] /\ disk.version = 1 /\ answer' = None
      /\ UNCHANGED <<view, pc, job>>
      /\ \A d \in Connections : pc[d] \notin Writing \cup {"reading"}
    BY DEF Migrate, NobodyWrites, NobodyReads
<1>2. /\ disk' \in Databases /\ disk'.version = 2 /\ disk'.rows = disk.rows
      /\ disk'.created = disk.created
    BY <1>1 DEF IInv, TypeOK, Databases
<1>3. TypeOK'
    BY <1>1, <1>2 DEF IInv, TypeOK
<1>4. OneWriter' /\ Transactions'
    BY <1>1 DEF IInv, OneWriter, Transactions
<1>5. WriterFollows'
    BY <1>1 DEF WriterFollows, Writing
<1>6. SchemaWhole'
    BY <1>1, <1>2 DEF IInv, SchemaWhole
<1>7. Compatible'
    BY <1>2 DEF IInv, Compatible
<1> QED BY <1>3, <1>4, <1>5, <1>6, <1>7 DEF IInv

\* Every operation inside its transaction preserves the invariant.
LEMMA OperationStep == ASSUME IInv, NEW c \in Connections, Operation(c) PROVE IInv'
<1>1. CASE Open(c)            BY <1>1, OpenStep
<1>2. CASE Invalid(c)         BY <1>2, RaisesStep DEF Invalid
<1>3. CASE Add(c)             BY <1>3, AddStep
<1>4. CASE Get(c)
    BY <1>4, WorkFacts, RaisesStep, ReturnsStep DEF Get
<1>5. CASE ListExecutions(c)
    BY <1>5, WorkFacts, ReturnsStep DEF ListExecutions
<1>6. CASE Invalidate(c)      BY <1>6, InvalidateStep
<1>7. CASE Delete(c)          BY <1>7, DeleteStep
<1> QED BY <1>1, <1>2, <1>3, <1>4, <1>5, <1>6, <1>7 DEF Operation

LEMMA NextIInv == IInv /\ [Next]_vars => IInv'
<1> SUFFICES ASSUME IInv, [Next]_vars PROVE IInv'
    OBVIOUS
<1>1. ASSUME NEW c \in Connections, Call(c) PROVE IInv'
    BY <1>1, CallStep
<1>2. ASSUME NEW c \in Connections, Refuse(c) \/ Fail(c) \/ Busy(c) PROVE IInv'
    BY <1>2, RaisesStep DEF Refuse, Fail, Busy
<1>3. ASSUME NEW c \in Connections, Begin(c) PROVE IInv'
    BY <1>3, BeginReadStep, BeginWriteStep DEF Begin
<1>4. ASSUME NEW c \in Connections, Operation(c) PROVE IInv'
    BY <1>4, OperationStep
<1>5. ASSUME NEW c \in Connections, BeginCommit(c) PROVE IInv'
    BY <1>5, BeginCommitStep
<1>6. ASSUME NEW c \in Connections, Commit(c) \/ CrashCommitted(c) PROVE IInv'
    BY <1>6, CommitStep
<1>7. ASSUME NEW c \in Connections, Crash(c) PROVE IInv'
    BY <1>7, LeaveStep DEF Crash, Gone
<1>8. CASE Migrate
    BY <1>8, MigrateStep
<1>9. CASE UNCHANGED vars
  <2>1. UNCHANGED <<disk, view, pc, job, answer>>
    BY <1>9 DEF vars
  <2>2. TypeOK' /\ OneWriter' /\ Transactions'
    BY <2>1 DEF IInv, TypeOK, OneWriter, Transactions
  <2>3. WriterFollows' /\ SchemaWhole' /\ Compatible'
    BY <2>1 DEF IInv, WriterFollows, SchemaWhole, Compatible
  <2> QED BY <2>2, <2>3 DEF IInv
<1> QED BY <1>1, <1>2, <1>3, <1>4, <1>5, <1>6, <1>7, <1>8, <1>9 DEF Next

\* The invariant holds in every reachable state.
THEOREM RepositoryInvariant == Spec => []IInv
<1> QED BY InitIInv, NextIInv, PTL DEF Spec

\* Whatever connections and processes do, every variable keeps to its type.
THEOREM RepositoryTyped == Spec => []TypeOK
<1>1. IInv => TypeOK
    BY DEF IInv
<1> QED BY <1>1, RepositoryInvariant, PTL

\* Evidence of one experiment never conflicts, however many connections add,
\* invalidate and delete it, time out and die (add, experiment_repository.py).
THEOREM EvidenceCompatible == Spec => []Compatible
<1>1. IInv => Compatible
    BY DEF IInv
<1> QED BY <1>1, RepositoryInvariant, PTL

\* A file has the table exactly when it has a schema version (__init__).
THEOREM SchemaCreatedWhole == Spec => []SchemaWhole
<1>1. IInv => SchemaWhole
    BY DEF IInv
<1> QED BY <1>1, RepositoryInvariant, PTL

----------------------------------------------------------------------------

\* The database changes when a writer commits, and when it is migrated.
LEMMA DiskChanges ==
    ASSUME IInv, [Next]_vars
    PROVE  \/ UNCHANGED disk
           \/ Follows(disk, disk')
           \/ disk.version = 1 /\ disk' = [disk EXCEPT !.version = 2]
<1>1. ASSUME NEW c \in Connections, Commit(c) \/ CrashCommitted(c)
      PROVE  Follows(disk, disk')
    BY <1>1 DEF Commit, CrashCommitted, IInv, WriterFollows
<1>2. ASSUME NEW c \in Connections, Operation(c) PROVE UNCHANGED disk
    BY <1>2 DEF Operation, Open, Invalid, Add, Get, ListExecutions, Invalidate, Delete,
                Writes, WritesRow, Returns, Raises
<1>3. ASSUME NEW c \in Connections,
             Call(c) \/ Refuse(c) \/ Begin(c) \/ BeginCommit(c) \/ Fail(c) \/ Busy(c) \/ Crash(c)
      PROVE  UNCHANGED disk
    BY <1>3 DEF Call, Refuse, Begin, BeginRead, BeginWrite, BeginCommit, Fail, Busy, Crash, Raises
<1>4. CASE Migrate
    BY <1>4 DEF Migrate
<1>5. CASE UNCHANGED vars
    BY <1>5 DEF vars
<1> QED BY <1>1, <1>2, <1>3, <1>4, <1>5 DEF Next

\* While a row exists its evidence is the one first taken, and an invalidation
\* is not taken back (add and invalidate, experiment_repository.py).
THEOREM EvidenceNeverReplaced == Spec => EvidenceFixed
<1> DEFINE Kept == \A e \in Executions :
        disk.rows[e] # None /\ disk'.rows[e] # None =>
            /\ disk'.rows[e].evidence = disk.rows[e].evidence
            /\ disk.rows[e].status = "invalidated" => disk'.rows[e].status = "invalidated"
<1>1. ASSUME IInv, [Next]_vars PROVE Kept
  <2>1. CASE UNCHANGED disk
    BY <2>1
  <2>2. CASE Follows(disk, disk')
    BY <2>2 DEF Follows, RowsFollow
  <2>3. CASE disk' = [disk EXCEPT !.version = 2]
    <3>1. disk'.rows = disk.rows
      BY <2>3 DEF IInv, TypeOK, Databases
    <3> QED BY <3>1
  <2> QED BY <1>1, <2>1, <2>2, <2>3, DiskChanges
<1>2. IInv /\ [Next]_vars => [Kept]_disk
    BY <1>1
<1> QED BY <1>2, RepositoryInvariant, PTL DEF Spec, EvidenceFixed

\* A connection opened before a migration never writes into the migrated file
\* (_validate_schema in every _transaction).
THEOREM NewerNeverWritten == Spec => NewerLeftAlone
<1>1. ASSUME IInv, [Next]_vars PROVE disk.version = 2 => UNCHANGED disk
  <2>1. disk.version = 1 => disk.version # 2
    OBVIOUS
  <2> QED BY <1>1, <2>1, DiskChanges DEF Follows
<1>2. IInv /\ [Next]_vars => [disk.version = 2 => UNCHANGED disk]_disk
    BY <1>1
<1> QED BY <1>2, RepositoryInvariant, PTL DEF Spec, NewerLeftAlone

----------------------------------------------------------------------------
(* The repository implements the evidence store. *)

\* The store computes with the repository's own operators on evidence.
LEMMA SameOperators ==
    /\ \A s, u : Store!Consistency(s, u) = Consistency(s, u)
    /\ \A s : Store!Active(s) = Active(s)
    /\ \A row, why : Store!Invalidated(row, why) = Invalidated(row, why)
    /\ \A rows, x : Store!Retained(rows, x) = Retained(rows, x)
    /\ \A rows, some : Store!Only(rows, some) = Only(rows, some)
    /\ Store!EmptyTable = EmptyTable
    /\ Store!Experiments = Experiments
<1>1. \A s, u : Store!Mismatches(s, u) = Mismatches(s, u) /\ Store!Missing(s, u) = Missing(s, u)
    BY DEF Store!Mismatches, Mismatches, Store!Missing, Missing
<1>2. \A s, u : Store!Consistency(s, u) = Consistency(s, u)
    BY <1>1 DEF Store!Consistency, Consistency
<1>3. \A s : Store!Active(s) = Active(s)
    BY DEF Store!Active, Active
<1>4. \A row, why : Store!Invalidated(row, why) = Invalidated(row, why)
    BY DEF Store!Invalidated, Invalidated
<1>5. \A rows, x : Store!Retained(rows, x) = Retained(rows, x)
    BY DEF Store!Retained, Retained
<1>6. \A rows, some : Store!Only(rows, some) = Only(rows, some)
    BY DEF Store!Only, Only
<1>7. Store!EmptyTable = EmptyTable /\ Store!Experiments = Experiments
    BY DEF Store!EmptyTable, EmptyTable, Store!Experiments, Experiments
<1> QED BY <1>2, <1>3, <1>4, <1>5, <1>6, <1>7

\* Nothing is shown when nothing is returned.
LEMMA NothingShown == \A rows : Only(rows, {}) = EmptyTable
BY DEF Only, EmptyTable

\* A step without answer or change of rows is an idle step of the store, and so
\* is a call that ends in one of these ways.
LEMMA IdleSimulation ==
    ASSUME NEW c \in Connections, disk'.rows = disk.rows,
           \/ answer' = None
           \/ \E code \in {"opened", "invalid", "unavailable", "unsupported"} :
                 answer' = [to |-> c, code |-> code, about |-> None, seen |-> EmptyTable]
    PROVE  Store!Next
<1>1. Store!Idle(c)
    BY NothingShown, SameOperators DEF Store!Idle, Store!Told
<1> QED BY <1>1, SameOperators DEF Store!Next

\* What a committed call did is the effect of one operation of the store.
LEMMA EffectSimulation ==
    ASSUME NEW c \in Connections, NEW call \in WriteCalls \cup {Opening},
           Effect(call, disk.rows, disk'.rows),
           \/ answer' = None
           \/ call = Opening
              /\ answer' = [to |-> c, code |-> "opened", about |-> None, seen |-> EmptyTable]
           \/ call # Opening /\ call.op = "delete"
              /\ answer' = [to |-> c, code |-> "deleted", about |-> call.execution,
                             seen |-> EmptyTable]
           \/ call # Opening /\ call.op # "delete"
              /\ answer' = [to |-> c, code |-> "stored", about |-> call.execution,
                             seen |-> Only(disk'.rows, {call.execution})]
    PROVE  Store!Next
<1>1. CASE call = Opening
  <2>1. disk'.rows = disk.rows
    BY <1>1, CallFields DEF Effect, Opening
  <2>2. \/ answer' = None
        \/ answer' = [to |-> c, code |-> "opened", about |-> None, seen |-> EmptyTable]
    BY <1>1
  <2> QED BY <2>1, <2>2, IdleSimulation
<1>2. CASE call # Opening
  <2> DEFINE e == call.execution
  <2>1. e \in Executions
    BY <1>2, CallFields DEF WriteCalls
  <2>2. CASE call.op = "add"
    <3> DEFINE s == call.evidence
    <3>1. s \in Snapshots /\ call.op # "delete"
      BY <2>2, CallFields
    <3>2. /\ disk.rows[e] = None /\ Conflicting(disk.rows, e, s) = {}
          /\ disk'.rows = [disk.rows EXCEPT ![e] = Active(s)]
      BY <1>2, <2>2 DEF Effect
    <3>3. Store!Fits(e, s)
      BY <3>2, SameOperators DEF Store!Fits, Conflicting
    <3>4. Store!Told(c, "stored", e, {e})
      BY <1>2, <3>1, SameOperators DEF Store!Told
    <3> QED BY <2>1, <3>1, <3>2, <3>3, <3>4, SameOperators DEF Store!Next, Store!Take
  <2>3. CASE call.op = "invalidate"
    <3>1. call.reason \in Reasons /\ call.op # "delete"
      BY <2>3, CallFields
    <3>2. /\ disk.rows[e] # None
          /\ disk'.rows = [disk.rows EXCEPT ![e] = Invalidated(@, call.reason)]
      BY <1>2, <2>3 DEF Effect
    <3>3. Store!Told(c, "stored", e, {e})
      BY <1>2, <3>1, SameOperators DEF Store!Told
    <3> QED BY <2>1, <3>1, <3>2, <3>3, SameOperators DEF Store!Next, Store!Withdraw
  <2>4. CASE call.op = "delete"
    <3>1. disk.rows[e] # None /\ disk'.rows = [disk.rows EXCEPT ![e] = None]
      BY <1>2, <2>4 DEF Effect
    <3>2. Store!Told(c, "deleted", e, {})
      BY <1>2, <2>4, NothingShown, SameOperators DEF Store!Told
    <3> QED BY <2>1, <3>1, <3>2, SameOperators DEF Store!Next, Store!Remove
  <2> QED BY <1>2, <2>2, <2>3, <2>4 DEF Effect
<1> QED BY <1>1, <1>2

\* A database of this program that fails validation is one it did not write.
LEMMA OnlyUnsupported ==
    IInv => SchemaError(disk) \in {"", "unsupported"}
BY DEF IInv, SchemaWhole, SchemaError, TypeOK, Databases

\* What a call answers inside its transaction tells the rows of this moment.
LEMMA OperationSimulation ==
    ASSUME IInv, NEW c \in Connections, Operation(c) PROVE Store!Next
<1>1. pc[c] \in {"reading", "writing"} /\ view[c] = disk /\ UNCHANGED disk
    BY DEF IInv, WriterFollows, Operation, Open, Invalid, Add, Get, ListExecutions, Invalidate,
           Delete, Works, Writes, WritesRow, Returns, Raises
<1>2. /\ job[c] \in ReadCalls \cup WriteCalls \cup {Opening}
      /\ pc[c] = "writing" => job[c] \in WriteCalls \cup {Opening}
      /\ pc[c] = "reading" => job[c] \in ReadCalls
    BY <1>1 DEF IInv, Transactions, Writing
<1>3. CASE Open(c)
  <2>1. SchemaError(disk) # "" => SchemaError(disk) = "unsupported"
    BY OnlyUnsupported
  <2> QED BY <1>1, <1>3, <2>1, IdleSimulation, NothingShown DEF Open, Writes, Returns, Raises, Ends
<1>4. CASE Invalid(c)
  <2>1. SchemaError(disk) = "unsupported"
    BY <1>1, <1>4, OnlyUnsupported DEF Invalid
  <2> QED BY <1>1, <1>4, <2>1, IdleSimulation DEF Invalid, Raises, Ends
<1>5. CASE Add(c)
  <2> DEFINE e == job[c].execution
             s == job[c].evidence
  <2>1. e \in Executions /\ s \in Snapshots
    BY <1>2, <1>5, CallFields DEF Add, Works
  <2>2. CASE disk.rows[e] # None /\ disk.rows[e].evidence # s /\ Raises(c, "mismatch", e)
    <3>1. Store!Told(c, "mismatch", e, {})
      BY <2>2, NothingShown, SameOperators DEF Store!Told, Raises, Ends
    <3> QED BY <1>1, <2>1, <2>2, <3>1, SameOperators DEF Store!Next, Store!TurnAway
  <2>3. CASE disk.rows[e] # None /\ disk.rows[e].evidence = s /\ Returns(c, "stored", e, {e})
    <3>1. Store!Told(c, "stored", e, {e})
      BY <1>1, <2>3, SameOperators DEF Store!Told, Returns, Ends
    <3> QED BY <1>1, <2>1, <2>3, <3>1, SameOperators DEF Store!Next, Store!TakeAgain
  <2>4. ASSUME disk.rows[e] = None, NEW first \in Conflicting(disk.rows, e, s),
               Raises(c, "conflict", first)
        PROVE  Store!Next
    <3>1. Store!Told(c, "conflict", first, {})
      BY <2>4, NothingShown, SameOperators DEF Store!Told, Raises, Ends
    <3>2. first \in Retained(disk.rows, Experiment[e])
          /\ Consistency(disk.rows[first].evidence, s) = "conflict"
      BY DEF Conflicting
    <3>3. ~Store!Fits(e, s)
      BY <3>2, SameOperators DEF Store!Fits
    <3> QED BY <1>1, <2>1, <2>4, <3>1, <3>2, <3>3, SameOperators DEF Store!Next, Store!TurnAway
  <2>5. CASE answer' = None
    BY <1>1, <2>5, IdleSimulation
  <2> QED BY <1>1, <1>5, <2>2, <2>3, <2>4, <2>5 DEF Add, AlreadyStored, WritesRow, Writes
<1>6. CASE Get(c)
  <2> DEFINE e == job[c].execution
  <2>1. e \in Executions
    BY <1>2, <1>6 DEF Get, Works, ReadCalls
  <2>2. CASE disk.rows[e] = None /\ Raises(c, "missing", e)
    <3>1. Store!Told(c, "missing", e, {})
      BY <2>2, NothingShown, SameOperators DEF Store!Told, Raises, Ends
    <3> QED BY <1>1, <2>1, <2>2, <3>1, SameOperators DEF Store!Next, Store!Miss
  <2>3. CASE disk.rows[e] # None /\ Returns(c, "stored", e, {e})
    <3>1. Store!Told(c, "stored", e, {e})
      BY <1>1, <2>3, SameOperators DEF Store!Told, Returns, Ends
    <3> QED BY <1>1, <2>1, <2>3, <3>1, SameOperators DEF Store!Next, Store!Show
  <2> QED BY <1>1, <1>6, <2>2, <2>3 DEF Get
<1>7. CASE ListExecutions(c)
  <2> DEFINE x == job[c].experiment
             shown == {e \in Retained(disk.rows, x) :
                          job[c].invalidated \/ disk.rows[e].status = "active"}
  <2>1. x \in Experiments /\ job[c].invalidated \in BOOLEAN
    BY <1>2, <1>7 DEF ListExecutions, Works, ReadCalls
  <2>2. Returns(c, "listed", None, shown)
    BY <1>1, <1>7 DEF ListExecutions
  <2> HIDE DEF shown
  <2>3. Store!Told(c, "listed", None, shown)
    BY <1>1, <2>2, SameOperators DEF Store!Told, Returns, Ends
  <2>4. Store!ShowAll(c, x, job[c].invalidated)
    BY <1>1, <2>3, SameOperators DEF Store!ShowAll, shown
  <2> QED BY <2>1, <2>4, SameOperators DEF Store!Next
<1>8. CASE Invalidate(c)
  <2> DEFINE e == job[c].execution
  <2>1. e \in Executions
    BY <1>2, <1>8, CallFields DEF Invalidate, Works
  <2>2. CASE disk.rows[e] = None /\ Raises(c, "missing", e)
    <3>1. Store!Told(c, "missing", e, {})
      BY <2>2, NothingShown, SameOperators DEF Store!Told, Raises, Ends
    <3> QED BY <1>1, <2>1, <2>2, <3>1, SameOperators DEF Store!Next, Store!Miss
  <2>3. CASE answer' = None
    BY <1>1, <2>3, IdleSimulation
  <2> QED BY <1>1, <1>8, <2>2, <2>3 DEF Invalidate, WritesRow, Writes
<1>9. CASE Delete(c)
  <2> DEFINE e == job[c].execution
  <2>1. e \in Executions
    BY <1>2, <1>9, CallFields DEF Delete, Works
  <2>2. CASE disk.rows[e] = None /\ Returns(c, "absent", e, {})
    <3>1. Store!Told(c, "absent", e, {})
      BY <1>1, <2>2, SameOperators DEF Store!Told, Returns, Ends
    <3> QED BY <1>1, <2>1, <2>2, <3>1, SameOperators DEF Store!Next, Store!Miss
  <2>3. CASE answer' = None
    BY <1>1, <2>3, IdleSimulation
  <2> QED BY <1>1, <1>9, <2>2, <2>3 DEF Delete, WritesRow, Writes
<1> QED BY <1>3, <1>4, <1>5, <1>6, <1>7, <1>8, <1>9 DEF Operation

\* Every step of the repository is a step of the store, or none.
LEMMA StepSimulation == IInv /\ [Next]_vars => [Store!Next]_Store!vars
<1> SUFFICES ASSUME IInv, [Next]_vars PROVE [Store!Next]_Store!vars
    OBVIOUS
<1>1. ASSUME NEW c \in Connections, Call(c) \/ Begin(c) \/ BeginCommit(c) \/ Crash(c)
      PROVE  Store!Next
  <2>1. UNCHANGED disk /\ answer' = None
    BY <1>1 DEF Call, Begin, BeginRead, BeginWrite, BeginCommit, Crash, Gone
  <2> QED BY <2>1, IdleSimulation
<1>2. ASSUME NEW c \in Connections, Refuse(c) \/ Fail(c) \/ Busy(c) PROVE Store!Next
  <2>1. PICK code \in {"invalid", "unavailable"} : Raises(c, code, None)
    BY <1>2 DEF Refuse, Fail, Busy
  <2> QED BY <2>1, IdleSimulation DEF Raises, Ends
<1>3. ASSUME NEW c \in Connections, Operation(c) PROVE Store!Next
    BY <1>3, OperationSimulation
<1>4. ASSUME NEW c \in Connections, Commit(c) \/ CrashCommitted(c) PROVE Store!Next
  <2>1. pc[c] = "committing" /\ disk' = view[c]
    BY <1>4 DEF Commit, CrashCommitted
  <2>2. job[c] \in WriteCalls \cup {Opening} /\ Effect(job[c], disk.rows, disk'.rows)
    BY <2>1 DEF IInv, Transactions, WriterFollows, Writing
  <2>3. CASE CrashCommitted(c)
    BY <2>2, <2>3, EffectSimulation DEF CrashCommitted, Gone
  <2>4. CASE Commit(c)
    <3> DEFINE call == job[c]
    <3>1. CASE call = Opening
      <4>1. answer' = [to |-> c, code |-> "opened", about |-> None, seen |-> EmptyTable]
        BY <2>4, <3>1 DEF Commit, Ends
      <4> QED BY <2>2, <3>1, <4>1, EffectSimulation
    <3>2. CASE call # Opening /\ call.op = "delete"
      <4>1. answer' = [to |-> c, code |-> "deleted", about |-> call.execution,
                       seen |-> EmptyTable]
        BY <2>4, <3>2 DEF Commit, Ends
      <4> HIDE DEF call
      <4> QED BY <2>2, <3>2, <4>1, EffectSimulation DEF call
    <3>3. CASE call # Opening /\ call.op # "delete"
      <4>1. answer' = [to |-> c, code |-> "stored", about |-> call.execution,
                       seen |-> Only(disk'.rows, {call.execution})]
        BY <2>1, <2>4, <3>3 DEF Commit, Ends
      <4> HIDE DEF call
      <4> QED BY <2>2, <3>3, <4>1, EffectSimulation DEF call
    <3> QED BY <3>1, <3>2, <3>3
  <2> QED BY <1>4, <2>3, <2>4
<1>5. CASE Migrate
  <2>1. disk'.rows = disk.rows /\ answer' = None
    BY <1>5 DEF Migrate, IInv, TypeOK, Databases
  <2>2. PICK c : c \in Connections
    BY ConnectionsAssumption
  <2> QED BY <2>1, <2>2, IdleSimulation
<1>6. CASE UNCHANGED vars
    BY <1>6 DEF vars, Store!vars
<1> QED BY <1>1, <1>2, <1>3, <1>4, <1>5, <1>6 DEF Next

\* Calls of concurrent, failing and dying connections take effect one at a time,
\* and answers tell the effect.
THEOREM ImplementsStore == Spec => StoreSpec
<1>1. Init => Store!Init
    BY SameOperators DEF Init, Store!Init
<1> QED BY <1>1, StepSimulation, RepositoryInvariant, PTL DEF Spec, StoreSpec, Store!Spec

=============================================================================
