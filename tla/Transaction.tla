---------------------------- MODULE Transaction ----------------------------
(***************************************************************************)
(* Transactions of a database model (framework/model/gt_model.go,          *)
(* com_model.go, com_controller.go).  Transaction registers an orm for     *)
(* goroutine and database, begins, runs the function and commits or rolls  *)
(* back; Conn().Raw(...) inside the function finds the registered orm.     *)
(* The database and its pool of MaxOpen connections are external.          *)
(***************************************************************************)
EXTENDS Integers, Sequences, SequencesExt, FiniteSets, FiniteSetsExt

CONSTANTS
    Gors,           \* goroutines that run controllers of one component
    MaxOpen,        \* connections of the pool (MaxOpenConns)
    MaxDepth,       \* Transaction within Transaction up to this level
    MaxStmts,       \* bound: statements of one function
    MaxPanics       \* bound: functions that panic

\* Who waits for a connection holds one for each enclosing transaction, and a
\* panic keeps one: with fewer connections all may wait for one another.
ASSUME PoolAssumption ==
    /\ MaxOpen \in Nat /\ MaxDepth \in Nat /\ MaxPanics \in Nat
    /\ MaxOpen > MaxPanics + (MaxDepth - 1) * Cardinality(Gors)

VARIABLES
    running,        \* per goroutine, its running transactions, innermost last
    runModel,       \* the registered orms: <<goroutine, level>>, or NoOrm
    lostConns,      \* connections of transactions that panicked
    ended           \* how the transaction ended that was the last to end

txVars == <<running, runModel, lostConns, ended>>

NoOrm == <<>>
NotYet == [asked |-> "nothing", err |-> FALSE, kept |-> FALSE,
           dropped |-> FALSE, clean |-> FALSE]

TxInit ==
    /\ running = [g \in Gors |-> <<>>]
    /\ runModel = [g \in Gors |-> NoOrm]
    /\ lostConns = 0
    /\ ended = NotYet

-----------------------------------------------------------------------------
Depth(g) == Len(running[g])
Innermost(g) == Last(running[g])
Inside(g) == Depth(g) > 0 /\ Innermost(g).phase = "run"

\* Connections in use: one for each open transaction, and those of panics.
InUse ==
    lostConns + FoldSet(LAMBDA g, sum :
        sum + Cardinality({i \in DOMAIN running[g] : running[g][i].isTx}), 0, Gors)

\* A bug: one key for all goroutines.
GoIdShared(g) == CHOOSE h \in Gors : TRUE

\* goId: the key of the registered orms is the goroutine.
GoId(g) == g

\* Transaction: createStackOrm registers a fresh orm; the one of an enclosing
\* transaction is overwritten.
CreateStackOrm(g) ==
    /\ Depth(g) < MaxDepth
    /\ Depth(g) > 0 => Inside(g) /\ ~Innermost(g).nested    \* bound: one nested each
    /\ runModel' = [runModel EXCEPT ![GoId(g)] = <<g, Depth(g) + 1>>]
    /\ running' = [running EXCEPT ![g] =
         Append([i \in DOMAIN @ |-> [@[i] EXCEPT !.nested = TRUE]],
                [phase |-> "begin", isTx |-> FALSE, began |-> FALSE,
                 nested |-> FALSE, own |-> 0, stray |-> 0])]
    /\ UNCHANGED <<lostConns, ended>>

\* Begin waits for a connection.
BeginTx(g) ==
    /\ Depth(g) > 0 /\ Innermost(g).phase = "begin"
    /\ InUse < MaxOpen
    /\ running' = [running EXCEPT ![g][Depth(g)] =
                    [@ EXCEPT !.phase = "run", !.isTx = TRUE, !.began = TRUE]]
    /\ UNCHANGED <<runModel, lostConns, ended>>

\* The error of Begin is not looked at: the function runs all the same.
BeginFails(g) ==
    /\ Depth(g) > 0 /\ Innermost(g).phase = "begin"
    /\ running' = [running EXCEPT ![g][Depth(g)].phase = "run"]
    /\ UNCHANGED <<runModel, lostConns, ended>>

\* getStackOrm.
Registered(g) == runModel[GoId(g)]

\* New: the registered orm of the goroutine, or a fresh one, NoOrm, which is
\* outside any transaction.
New(g) == Registered(g)

InTx(orm) ==
    orm # NoOrm /\ orm[2] <= Depth(orm[1]) /\ running[orm[1]][orm[2]].isTx

\* One statement of the function: in its transaction, or on a connection that
\* is free, where it is kept at once.
Raw(g) ==
    /\ Inside(g)
    /\ Innermost(g).own + Innermost(g).stray < MaxStmts
    /\ LET mine == InTx(New(g)) /\ New(g) = <<g, Depth(g)>>
       IN  /\ InTx(New(g)) \/ InUse < MaxOpen
           /\ running' = [running EXCEPT ![g][Depth(g)] =
                IF mine THEN [@ EXCEPT !.own = Innermost(g).own + 1]
                        ELSE [@ EXCEPT !.stray = Innermost(g).stray + 1]]
    /\ UNCHANGED <<runModel, lostConns, ended>>

\* The transaction returns: removeStackOrm takes the orm of the goroutine
\* away, which after a nested transaction leaves the outer one without.
RemoveStackOrm(g) == runModel' = [runModel EXCEPT ![GoId(g)] = NoOrm]

TxReturns(g, asked, fails, committed) ==
    /\ running' = [running EXCEPT ![g] = Front(@)]
    /\ RemoveStackOrm(g)
    /\ ended' = [asked |-> asked, err |-> fails,
                 kept |-> (Innermost(g).stray > 0) \/ (committed /\ Innermost(g).own > 0),
                 dropped |-> ~committed /\ Innermost(g).own > 0,
                 clean |-> Innermost(g).began /\ ~Innermost(g).nested]

\* The function returns nil: Commit, ErrTxDone without a transaction.
Commit(g) ==
    /\ Inside(g)
    /\ TxReturns(g, "nil", ~Innermost(g).isTx, Innermost(g).isTx)
    /\ UNCHANGED lostConns

\* Commit fails: the database has kept all of it or nothing.
CommitFails(g, committed) ==
    /\ Inside(g) /\ Innermost(g).isTx
    /\ TxReturns(g, "nil", TRUE, committed)
    /\ UNCHANGED lostConns

\* A bug: an error leaves the transaction as a panic does.
RollbackForgotten(g) ==
    /\ Inside(g)
    /\ TxReturns(g, "error", TRUE, FALSE)
    /\ lostConns' = lostConns + (IF Innermost(g).isTx THEN 1 ELSE 0)

\* The function returns an error: Rollback, which gives the connection back.
Rollback(g) ==
    /\ Inside(g)
    /\ TxReturns(g, "error", TRUE, FALSE)
    /\ UNCHANGED lostConns

\* The function panics: the panic becomes an error; neither Commit nor
\* Rollback is called, and the connection of the transaction stays taken.
Panics(g) ==
    /\ Inside(g)
    /\ lostConns < MaxPanics
    /\ TxReturns(g, "panic", TRUE, FALSE)
    /\ lostConns' = lostConns + (IF Innermost(g).isTx THEN 1 ELSE 0)

TxStep(g) ==
    \/ BeginTx(g) \/ BeginFails(g) \/ Raw(g)
    \/ Commit(g) \/ Rollback(g) \/ Panics(g)
    \/ \E kept \in BOOLEAN : CommitFails(g, kept)

TxNext == \E g \in Gors : CreateStackOrm(g) \/ TxStep(g)

\* A goroutine that can run runs, and one that waits for a connection gets one
\* that is given back again and again; nobody has to call Transaction, and
\* Begin need not fail.
TxFair ==
    \A g \in Gors :
        /\ SF_txVars(BeginTx(g))
        /\ WF_txVars(Commit(g) \/ Rollback(g))

TxSpec == TxInit /\ [][TxNext]_txVars /\ TxFair

-----------------------------------------------------------------------------
(* Properties.                                                             *)

\* A transaction that began and held no other one, and whose function did not
\* panic, is all or nothing whatever other goroutines do: without an error
\* everything is kept, and after an error of its function nothing is
\* (gt_model.go Transaction, New).
TransactionIsAtomic ==
    ended.clean /\ ended.asked # "panic" =>
        /\ ~(ended.kept /\ ended.dropped)
        /\ ~ended.err => ~ended.dropped
        /\ (ended.asked = "error") => ~ended.kept

\* README.md:384: "Transaction ... if it returns not nil, triggers the
\* rollback": nothing a function did that returned an error is kept.
FailedIsRolledBack == (ended.asked = "error") => ~ended.kept

\* With connections enough for the nesting and the panics, a transaction that
\* waits for a connection or runs comes to its end.
TransactionsEnd ==
    \A g \in Gors : Depth(g) > 0 ~> Depth(g) = 0
=============================================================================
