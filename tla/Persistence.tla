----------------------------- MODULE Persistence -----------------------------
(***************************************************************************)
(* Units of work over one database (teaf/_internal/providers/database): a  *)
(* service opens a unit, works with a repository on its session, commits   *)
(* or not, and leaves the block. SQLAlchemy and the database are external, *)
(* as the code uses them: a session that executed something holds a        *)
(* connection until its transaction ends, and the pool then resets it with *)
(* a rollback, which is a call of its own.                                 *)
(*                                                                         *)
(* Either each session has a connection of its own, at read committed with *)
(* a lock on every row written; or all of them share the one connection of *)
(* the in-memory database that DatabaseModule is configured with by        *)
(* default (StaticPool), and with it one transaction.                      *)
(***************************************************************************)
EXTENDS Naturals, Sequences, SequencesExt

CONSTANTS
    Unit,    \* units of work
    Row,     \* ids of entities
    Work,    \* what a unit may do: sequences of [op, row]
    None

\* The module that instantiates this one assumes it.
PersistenceAssumption ==
    /\ None \notin Unit /\ 0 \notin Unit
    /\ Work \subseteq Seq([op : {"add", "update", "delete"}, row : Row])

VARIABLES
    shared,     \* all sessions use one connection
    work,       \* work[u]: what the service does in unit u
    at, step,   \* where u is, and in which operation
    rows,       \* the committed rows
    pending,    \* pending[c]: changes flushed and not committed on connection c, in order
    flushed,    \* history: flushed[u]: operations of u whose change was flushed
    durable,    \* history: durable[u]: operations of u whose change was committed
    crowded     \* history: units that used a connection while another did

vars == <<shared, work, at, step, rows, pending, flushed, durable, crowded>>

NoRow == [by |-> None, deleted |-> FALSE]

\* Entities that are there when the service starts.
Stored == [by |-> 0, deleted |-> FALSE]

InUse == {"working", "writing", "failing", "returning"}

-----------------------------------------------------------------------------
(* The database.                                                           *)

\* The connections: one for each unit, and None, which all of them share.
Connection == Unit \cup {None}
On(u) == IF shared THEN None ELSE u

\* What a column of a row is after these changes: what the last that writes
\* it wrote.
Column(changes, row, column) ==
    LET writing == {i \in DOMAIN changes :
                      changes[i].row = row /\ column \in DOMAIN changes[i].change}
        last == CHOOSE i \in writing : \A j \in writing : j <= i
    IN  IF writing = {} THEN rows[row][column] ELSE changes[last].change[column]

Applied(changes) ==
    [row \in Row |-> [by |-> Column(changes, row, "by"),
                      deleted |-> Column(changes, row, "deleted")]]

Visible(u) == Applied(pending[On(u)])

\* Operations of u on a connection.
Steps(u, changes) == {c.step : c \in {d \in ToSet(changes) : d.unit = u}}

\* COMMIT and ROLLBACK on the connection of u.
CommitOf(u) ==
    /\ rows' = Visible(u)
    /\ durable' = [v \in Unit |-> durable[v] \cup Steps(v, pending[On(u)])]
    /\ pending' = [pending EXCEPT ![On(u)] = <<>>]

RollbackOf(u) == pending' = [pending EXCEPT ![On(u)] = <<>>] /\ UNCHANGED <<rows, durable>>

\* A row that another transaction wrote is locked; one that shares the
\* connection does not wait for itself.
Unlocked(u, row) ==
    \A k \in Connection \ {On(u)} : \A c \in ToSet(pending[k]) : c.row # row

-----------------------------------------------------------------------------
Init ==
    /\ shared \in BOOLEAN
    /\ work \in [Unit -> Work]
    /\ at = [u \in Unit |-> "new"]
    /\ step = [u \in Unit |-> 1]
    /\ rows \in [Row -> {NoRow, Stored}]
    /\ pending = [k \in Connection |-> <<>>]
    /\ flushed = [u \in Unit |-> {}]
    /\ durable = [u \in Unit |-> {}]
    /\ crowded = {}

Doing(u, ops) ==
    step[u] <= Len(work[u]) /\ work[u][step[u]].op \in ops

\* Once u uses a connection; whoever uses one too is crowded with it.
Using(u) ==
    LET others == {v \in Unit \ {u} : at[v] \in InUse}
    IN  crowded' = IF others = {} THEN crowded ELSE crowded \cup others \cup {u}

\* factory.create(): a new session, which has no connection yet.
Open(u) ==
    /\ at[u] = "new"
    /\ at' = [at EXCEPT ![u] = "open"]
    /\ UNCHANGED <<shared, work, step, rows, pending, flushed, durable, crowded>>

\* get_by_id, by the service or by delete: what is deleted is not found, and
\* then there is nothing to do.
GetById(u) ==
    LET entity == Visible(u)[work[u][step[u]].row]
    IN  /\ at[u] \in {"open", "working"} /\ Doing(u, {"update", "delete"})
        /\ IF entity.by # None /\ ~entity.deleted
           THEN at' = [at EXCEPT ![u] = "writing"] /\ UNCHANGED step
           ELSE at' = [at EXCEPT ![u] = "working"] /\ step' = [step EXCEPT ![u] = @ + 1]
        /\ Using(u)
        /\ UNCHANGED <<shared, work, rows, pending, flushed, durable>>

\* What a flush sends of an entity: a new row, or the columns that changed.
\* Mutant: all the columns as they were loaded.
EveryColumn(u, op) ==
    IF op = "delete" THEN [deleted |-> TRUE] ELSE [by |-> u, deleted |-> FALSE]

Columns(u, op) ==
    CASE op = "add" -> [by |-> u, deleted |-> FALSE]
      [] op = "update" -> [by |-> u]
      [] op = "delete" -> [deleted |-> TRUE]

\* Mutant: the repository commits what it wrote.
FlushAndCommit(u) ==
    LET o == work[u][step[u]]
    IN  /\ at[u] = "writing"
        /\ Unlocked(u, o.row)
        /\ rows' = Applied(<<[row |-> o.row, change |-> Columns(u, o.op)]>>)
        /\ durable' = [durable EXCEPT ![u] = @ \cup {step[u]}]
        /\ flushed' = [flushed EXCEPT ![u] = @ \cup {step[u]}]
        /\ step' = [step EXCEPT ![u] = @ + 1]
        /\ at' = [at EXCEPT ![u] = "working"]
        /\ Using(u)
        /\ UNCHANGED <<shared, work, pending>>

\* add, update and delete: flush() of what the session changed.
Flush(u) ==
    LET o == work[u][step[u]]
    IN  /\ IF Doing(u, {"add"}) THEN at[u] \in {"open", "working"} /\ Visible(u)[o.row] = NoRow
           ELSE at[u] = "writing"
        /\ Unlocked(u, o.row)
        /\ pending' = [pending EXCEPT ![On(u)] =
              Append(@, [unit |-> u, step |-> step[u], row |-> o.row,
                         change |-> Columns(u, o.op)])]
        /\ flushed' = [flushed EXCEPT ![u] = @ \cup {step[u]}]
        /\ step' = [step EXCEPT ![u] = @ + 1]
        /\ at' = [at EXCEPT ![u] = "working"]
        /\ Using(u)
        /\ UNCHANGED <<shared, work, rows, durable>>

\* A statement, a deadlock that the database found, a commit or the service raises.
Raises(u) ==
    /\ at[u] \in {"open", "working", "writing"}
    /\ at' = [at EXCEPT ![u] = IF at[u] = "open" THEN "closed" ELSE "failing"]
    /\ UNCHANGED <<shared, work, step, rows, pending, flushed, durable, crowded>>

\* commit(): then the pool resets the connection. It may raise though the
\* transaction was committed: the rollback of __aexit__ finds none.
Commit(u) ==
    /\ at[u] = "working" /\ step[u] > Len(work[u])
    /\ CommitOf(u)
    /\ at' = [at EXCEPT ![u] = "returning"]
    /\ UNCHANGED <<shared, work, step, flushed, crowded>>

\* __aexit__ after an exception: rollback(), and the reset.
Rollback(u) ==
    /\ at[u] = "failing"
    /\ RollbackOf(u)
    /\ at' = [at EXCEPT ![u] = "returning"]
    /\ UNCHANGED <<shared, work, step, flushed, crowded>>

\* The pool resets the connection.
Reset(u) ==
    /\ at[u] = "returning"
    /\ RollbackOf(u)
    /\ at' = [at EXCEPT ![u] = "closed"]
    /\ UNCHANGED <<shared, work, step, flushed, crowded>>

\* __aexit__ without commit(): close() ends the transaction with a rollback.
Close(u) ==
    /\ at[u] \in {"open", "working"}
    /\ IF at[u] = "working" THEN RollbackOf(u) ELSE UNCHANGED <<rows, pending, durable>>
    /\ at' = [at EXCEPT ![u] = "closed"]
    /\ UNCHANGED <<shared, work, step, flushed, crowded>>

\* The process stops: the database ends what was not committed.
Crash ==
    /\ ~shared /\ \E u \in Unit : at[u] \in InUse
    /\ pending' = [k \in Connection |-> <<>>]
    /\ at' = [u \in Unit |-> "closed"]
    /\ UNCHANGED <<shared, work, step, rows, flushed, durable, crowded>>

Next ==
    \/ \E u \in Unit :
         \/ Open(u) \/ GetById(u) \/ Flush(u) \/ Raises(u)
         \/ Commit(u) \/ Rollback(u) \/ Reset(u) \/ Close(u)
    \/ Crash

Spec == Init /\ [][Next]_vars

-----------------------------------------------------------------------------
(* Properties.                                                             *)

\* A unit is whole: what it wrote is all committed, once it was all done, or
\* none of it is ever. On a connection of their own this holds however units
\* interleave, raise, are left without a commit or lose the process; on the
\* shared one, for the units that no other overlapped.
UnitsAreWhole ==
    \A u \in Unit :
      (~shared \/ u \notin crowded) =>
        \/ durable[u] = {}
        \/ durable[u] = flushed[u] /\ step[u] > Len(work[u])

\* A deleted entity stays deleted, also under an update of a unit that loaded
\* it before: the update writes its columns and not the mark of the deletion.
StaysDeleted == \A row \in Row : rows[row].deleted => rows'[row].deleted

DeletedStaysDeleted == [][StaysDeleted]_vars
=============================================================================
