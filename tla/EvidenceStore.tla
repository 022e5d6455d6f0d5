---------------------------- MODULE EvidenceStore ----------------------------
(***************************************************************************)
(* What the experiment repository promises its callers, whatever happens   *)
(* to connections, locks and processes: every call that has an effect has  *)
(* it at one moment, the answer tells that effect, evidence is taken once  *)
(* and never replaced, and snapshots of one experiment never conflict.     *)
(***************************************************************************)
EXTENDS Evidence

CONSTANT Clients

VARIABLES
    table,   \* the row of each execution, None without one
    answer   \* the answer given in this step, None without one

vars == <<table, answer>>

Init == table = EmptyTable /\ answer = None

\* The answer goes to c, or is lost when c has died meanwhile.
Told(c, code, about, shown) ==
    answer' \in {None, [to |-> c, code |-> code, about |-> about,
                        seen |-> Only(table', shown)]}

Fits(e, s) == \A d \in Retained(table, Experiment[e]) :
    Consistency(table[d].evidence, s) # "conflict"

Take(c, e, s) ==
    /\ table[e] = None /\ Fits(e, s)
    /\ table' = [table EXCEPT ![e] = Active(s)]
    /\ Told(c, "stored", e, {e})

TakeAgain(c, e, s) ==
    /\ table[e] # None /\ table[e].evidence = s
    /\ UNCHANGED table
    /\ Told(c, "stored", e, {e})

\* Another snapshot of a stored execution, or one that conflicts with another's.
TurnAway(c, e, s) ==
    /\ UNCHANGED table
    /\ \/ table[e] # None /\ table[e].evidence # s /\ Told(c, "mismatch", e, {})
       \/ /\ table[e] = None /\ ~Fits(e, s)
          /\ \E d \in Retained(table, Experiment[e]) :
                /\ Consistency(table[d].evidence, s) = "conflict"
                /\ Told(c, "conflict", d, {})

Withdraw(c, e, why) ==
    /\ table[e] # None
    /\ table' = [table EXCEPT ![e] = Invalidated(@, why)]
    /\ Told(c, "stored", e, {e})

Remove(c, e) ==
    /\ table[e] # None
    /\ table' = [table EXCEPT ![e] = None]
    /\ Told(c, "deleted", e, {})

Show(c, e) ==
    /\ table[e] # None
    /\ UNCHANGED table
    /\ Told(c, "stored", e, {e})

ShowAll(c, x, invalidated) ==
    /\ UNCHANGED table
    /\ Told(c, "listed", None, {e \in Retained(table, x) :
                                   invalidated \/ table[e].status = "active"})

Miss(c, e) ==
    /\ table[e] = None
    /\ UNCHANGED table
    /\ \E code \in {"missing", "absent"} : Told(c, code, e, {})

\* Opening a connection, and calls that are refused or could not complete;
\* "unsupported" is a database that a newer release has migrated.
Idle(c) ==
    /\ UNCHANGED table
    /\ \E code \in {"opened", "invalid", "unavailable", "unsupported"} : Told(c, code, None, {})

Next == \E c \in Clients :
    \/ Idle(c)
    \/ \E e \in Executions :
          \/ \E s \in Snapshots : Take(c, e, s) \/ TakeAgain(c, e, s) \/ TurnAway(c, e, s)
          \/ \E why \in Reasons : Withdraw(c, e, why)
          \/ Remove(c, e) \/ Show(c, e) \/ Miss(c, e)
    \/ \E x \in Experiments, invalidated \in BOOLEAN : ShowAll(c, x, invalidated)

Spec == Init /\ [][Next]_vars

=============================================================================
