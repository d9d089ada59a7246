---------------------------- MODULE TradeDatabase ---------------------------
(***************************************************************************)
(* The SQLite file shared by the processes of the command line: imports    *)
(* (python/recon/importer.py) and matching runs (run_matching of           *)
(* python/recon/matching_logic.py; with dry_run it also is what            *)
(* _run_matching_pure of cli.py does, which the scheduler calls).          *)
(*                                                                         *)
(* Each process has its own connection.  Python opens a transaction before *)
(* its first INSERT, which takes the write lock of the file; the commit at *)
(* the end publishes all rows at once and releases the lock.  A SELECT     *)
(* opens no transaction: it sees what is committed when it is executed.  A *)
(* process may be killed at any time, and while it waits for the lock or   *)
(* to commit it may get "database is locked" after five seconds, which     *)
(* nothing catches: either way its transaction is gone.                    *)
(*                                                                         *)
(* A row keeps what keys, matching and the exceptions look at; key stands  *)
(* for trade_id in internal_trades and for confirm_id in confirmations.    *)
(***************************************************************************)
EXTENDS Integers, Sequences, FiniteSets

CONSTANTS
    Importers, Matchers,          \* the processes; each makes one call
    Files, kind, content,         \* the files, what each holds, its lines
    Ids, Venues, Quantities, Prices,
    NoId,                         \* a line without an id of its own
    CFM_,                         \* the confirm_id made from a trade_id
    FIX_,                         \* the id made from the count so far
    price_tolerance, qty_tolerance,
    Nobody                        \* nobody holds the write lock

Tables  == {"internal_trades", "confirmations"}
Kinds   == {"internal", "confirmation", "fix"}
Row     == [key : Ids, trade_id : Ids, venue : Venues,
            quantity : Quantities, price : Prices]

\* A line is a row; has a null where the table allows none (a null text, or a NaN, which
\* SQLite stores as null), so that INSERT OR IGNORE ignores it without a word; is
\* skipped with a warning (a missing column, no number, no new order message); or
\* raises what the import does not catch (a null for a number, an integer of more
\* than 64 bits).  Messages can be any of the four, as records can.
Line == [is : {"row", "ignored", "skipped", "fatal"}, id : Ids \cup {NoId}, trade_id : Ids,
         venue : Venues, quantity : Quantities, price : Prices]

ASSUME ProcessAssumption ==
    Importers \cap Matchers = {} /\ Nobody \notin Importers \cup Matchers
ASSUME FileAssumption ==
    /\ kind \in [Files -> Kinds]
    /\ content \in [Files -> Seq(Line)]
    /\ NoId \notin Ids
    /\ CFM_ \in [Ids -> Ids]
    /\ \A f \in Files : \A n \in 0..Len(content[f]) : FIX_[n] \in Ids
ASSUME NumberAssumption ==
    /\ Quantities \subseteq Int /\ Prices \subseteq Int
    /\ price_tolerance \in Nat /\ qty_tolerance \in Nat

Break == [type : {"qty_mismatch", "price_mismatch", "missing_broker", "missing_internal"},
          trade_id : Ids]

VARIABLES
    tables,          \* internal_trades and confirmations, as committed
    exceptions,      \* the table exceptions, as committed
    writer,          \* who holds the write lock
    pc,              \* where each process is
    at,              \* the line, or the exception, it is at
    file,            \* an import: its file
    count,           \*            count
    pending,         \*            the table it inserts into, as it sees it
    dry_run,         \* a run: dry_run
    internals,       \*        internals
    report           \*        exceptions, the list

import_vars == <<file, count, pending>>
match_vars  == <<dry_run, internals, report>>
vars == <<tables, exceptions, writer, pc, at, import_vars, match_vars>>

Processes == Importers \cup Matchers

-----------------------------------------------------------------------------
(* The rows of a file. *)

target(f) == IF kind[f] = "internal" THEN "internal_trades" ELSE "confirmations"

\* Wrong on purpose: a message without an id is stored without one.
RowOf_WithoutId(f, line, n) ==
    [key      |-> IF kind[f] = "confirmation" /\ line.id = NoId THEN CFM_[line.trade_id]
                  ELSE IF kind[f] = "internal" THEN line.trade_id ELSE line.id,
     trade_id |-> IF kind[f] = "fix" THEN line.id ELSE line.trade_id,
     venue    |-> line.venue, quantity |-> line.quantity, price |-> line.price]

\* The row a line is inserted as.  A confirmation without an id gets one from its
\* trade, a FIX message without one from the number of rows before it in the file,
\* which then is its trade id as well.
RowOf(f, line, n) ==
    LET own == IF line.id # NoId THEN line.id ELSE FIX_[n]
    IN  [key      |-> CASE kind[f] = "internal"     -> line.trade_id
                        [] kind[f] = "confirmation" ->
                               IF line.id # NoId THEN line.id ELSE CFM_[line.trade_id]
                        [] kind[f] = "fix"          -> own,
         trade_id |-> IF kind[f] = "fix" THEN own ELSE line.trade_id,
         venue    |-> line.venue, quantity |-> line.quantity, price |-> line.price]

SameKey(r, s) == r.key = s.key /\ r.venue = s.venue

\* Wrong on purpose: INSERT OR REPLACE.
InsertOrIgnore_Replaces(table, row) ==
    Append(SelectSeq(table, LAMBDA r : ~SameKey(r, row)), row)

\* Wrong on purpose: tables without a primary key.
InsertOrIgnore_NoKey(table, row) == Append(table, row)

InsertOrIgnore(table, row) ==
    IF \E i \in DOMAIN table : SameKey(table[i], row) THEN table ELSE Append(table, row)

-----------------------------------------------------------------------------
(* What run_matching makes of the two lists it has read. *)

Within(a, b, tolerance) == a - b \in -tolerance..tolerance

\* The type of an internal trade: compared with the first confirmation of its id.
TypeOf(t, confirms) ==
    LET hits == {i \in DOMAIN confirms : confirms[i].trade_id = t.trade_id}
        c    == confirms[CHOOSE i \in hits : \A j \in hits : i <= j]
    IN  CASE hits = {}                                            -> "missing_broker"
          [] hits # {} /\ ~Within(t.quantity, c.quantity, qty_tolerance) -> "qty_mismatch"
          [] hits # {} /\ Within(t.quantity, c.quantity, qty_tolerance)  ->
                 IF Within(t.price, c.price, price_tolerance) THEN "matched"
                 ELSE "price_mismatch"

Has(table, id) == \E i \in DOMAIN table : table[i].trade_id = id

\* One verdict per internal trade, then one per confirmation, which is missing on the
\* internal side if its trade is not among them.
Verdicts(trades, confirms) ==
    [i \in DOMAIN trades |->
        [type |-> TypeOf(trades[i], confirms), trade_id |-> trades[i].trade_id]]
    \o
    [i \in DOMAIN confirms |->
        [type |-> IF Has(trades, confirms[i].trade_id) THEN "matched" ELSE "missing_internal",
         trade_id |-> confirms[i].trade_id]]

\* The exceptions: the verdicts that are no matches, in their order.
Breaks(trades, confirms) ==
    LET verdicts == Verdicts(trades, confirms)
        bad      == {i \in DOMAIN verdicts : verdicts[i].type # "matched"}
    IN  [k \in 1..Cardinality(bad) |->
            verdicts[CHOOSE i \in bad : Cardinality({j \in bad : j <= i}) = k]]

-----------------------------------------------------------------------------

Init ==
    /\ tables = [t \in Tables |-> <<>>]
    /\ exceptions = <<>>
    /\ writer = Nobody
    /\ pc = [p \in Processes |-> "idle"]
    /\ at = [p \in Processes |-> 1]
    /\ file \in [Importers -> Files]
    /\ count = [p \in Importers |-> 0]
    /\ pending = [p \in Importers |-> <<>>]
    /\ dry_run \in [Matchers -> BOOLEAN]
    /\ internals = [p \in Matchers |-> <<>>]
    /\ report = [p \in Matchers |-> <<>>]

\* p is over, well or not, and its connection closed.
Ends(p, how) ==
    /\ pc' = [pc EXCEPT ![p] = how]
    /\ writer' = IF writer = p THEN Nobody ELSE writer

HasLock(p) == writer \in {Nobody, p} /\ writer' = p

-----------------------------------------------------------------------------
(* An import. *)

CurrentLine(p) == content[file[p]][at[p]]
AtLine(p, what) ==
    pc[p] = "importing" /\ at[p] <= Len(content[file[p]]) /\ CurrentLine(p).is \in what

\* The table p inserts into, as it sees it.  Its transaction begins with the first
\* INSERT; from then on that table changes by nobody else's hand.
Seen(p) == IF writer = p THEN pending[p] ELSE tables[target(file[p])]

\* That table after the INSERT of the current line.
Inserted(p) ==
    IF CurrentLine(p).is = "ignored" THEN Seen(p)
    ELSE InsertOrIgnore(Seen(p), RowOf(file[p], CurrentLine(p), count[p]))

StartImport(p) ==
    /\ pc[p] = "idle"
    /\ pc' = [pc EXCEPT ![p] = "importing"]
    /\ UNCHANGED <<tables, exceptions, writer, at, import_vars, match_vars>>

\* Wrong on purpose: each row is committed by itself.
ImportLine_Commits(p) ==
    /\ AtLine(p, {"row", "ignored"})
    /\ writer = Nobody
    /\ pending' = [pending EXCEPT ![p] = Inserted(p)]
    /\ tables' = [tables EXCEPT ![target(file[p])] = pending'[p]]
    /\ count' = [count EXCEPT ![p] = @ + 1]
    /\ at' = [at EXCEPT ![p] = @ + 1]
    /\ UNCHANGED <<exceptions, writer, pc, file, match_vars>>

ImportLine(p) ==
    /\ AtLine(p, {"row", "ignored"})
    /\ HasLock(p)
    /\ pending' = [pending EXCEPT ![p] = Inserted(p)]
    /\ count' = [count EXCEPT ![p] = @ + 1]
    /\ at' = [at EXCEPT ![p] = @ + 1]
    /\ UNCHANGED <<tables, exceptions, pc, file, match_vars>>

SkipLine(p) ==
    /\ AtLine(p, {"skipped"})
    /\ at' = [at EXCEPT ![p] = @ + 1]
    /\ UNCHANGED <<tables, exceptions, writer, pc, import_vars, match_vars>>

RaiseAtLine(p) ==
    /\ AtLine(p, {"fatal"})
    /\ Ends(p, "failed")
    /\ UNCHANGED <<tables, exceptions, at, import_vars, match_vars>>

\* commit, close, return count.  Without a row there was no transaction.
FinishImport(p) ==
    /\ pc[p] = "importing" /\ at[p] > Len(content[file[p]])
    /\ IF writer = p THEN tables' = [tables EXCEPT ![target(file[p])] = pending[p]]
                     ELSE UNCHANGED tables
    /\ Ends(p, "returned")
    /\ UNCHANGED <<exceptions, at, import_vars, match_vars>>

-----------------------------------------------------------------------------
(* A matching run. *)

ReadInternals(p) ==
    /\ pc[p] = "idle"
    /\ internals' = [internals EXCEPT ![p] = tables["internal_trades"]]
    /\ pc' = [pc EXCEPT ![p] = "reading"]
    /\ UNCHANGED <<tables, exceptions, writer, at, import_vars, dry_run, report>>

\* The second SELECT, and everything up to the first INSERT.
ReadConfirmations(p) ==
    /\ pc[p] = "reading"
    /\ report' = [report EXCEPT ![p] = Breaks(internals[p], tables["confirmations"])]
    /\ pc' = [pc EXCEPT ![p] =
                 IF dry_run[p] \/ report'[p] = <<>> THEN "returned" ELSE "saving"]
    /\ UNCHANGED <<tables, exceptions, writer, at, import_vars, dry_run, internals>>

SaveException(p) ==
    /\ pc[p] = "saving" /\ at[p] <= Len(report[p])
    /\ HasLock(p)
    /\ at' = [at EXCEPT ![p] = @ + 1]
    /\ UNCHANGED <<tables, exceptions, pc, import_vars, match_vars>>

CommitExceptions(p) ==
    /\ pc[p] = "saving" /\ at[p] > Len(report[p])
    /\ exceptions' = exceptions \o report[p]
    /\ Ends(p, "returned")
    /\ UNCHANGED <<tables, at, import_vars, match_vars>>

-----------------------------------------------------------------------------

\* The process is killed, or an INSERT or its commit raises "database is locked".
Die(p) ==
    /\ pc[p] \in {"importing", "reading", "saving"}
    /\ Ends(p, "failed")
    /\ UNCHANGED <<tables, exceptions, at, import_vars, match_vars>>

ImportStep(p) == \/ StartImport(p) \/ ImportLine(p) \/ SkipLine(p)
                 \/ RaiseAtLine(p) \/ FinishImport(p)

MatchStep(p) == \/ ReadInternals(p) \/ ReadConfirmations(p)
                \/ SaveException(p) \/ CommitExceptions(p)

Next ==
    \/ \E p \in Importers : ImportStep(p)
    \/ \E p \in Matchers : MatchStep(p)
    \/ \E p \in Processes : Die(p)

Spec == Init /\ [][Next]_vars

-----------------------------------------------------------------------------
(* What the detailed steps come to. *)

\* The lines of f that are rows, the count before line i, and the row of a line.
RowLines(f)   == {i \in DOMAIN content[f] : content[f][i].is = "row"}
Counted(f, i) == Cardinality({j \in 1..(i - 1) : content[f][j].is \in {"row", "ignored"}})
RowAt(f, i)   == RowOf(f, content[f][i], Counted(f, i))
CountOf(f)    == Counted(f, Len(content[f]) + 1)

\* The refinement mapping: a call is open until it ends, and what it computes
\* on the way shows when it has returned.
OutcomeOf(state) == IF state \in {"returned", "failed"} THEN state ELSE "open"

Outcomes == [p \in Processes |-> OutcomeOf(pc[p])]
Counts   == [p \in Importers |-> IF pc[p] = "returned" THEN count[p] ELSE 0]
Reports  == [p \in Matchers |-> IF pc[p] = "returned" THEN report[p] ELSE <<>>]

Atomic == INSTANCE AtomicDatabase WITH outcome <- Outcomes, count <- Counts, report <- Reports

-----------------------------------------------------------------------------
(* Properties. *)

\* Every variable has its type.
TypeOK ==
    /\ tables \in [Tables -> Seq(Row)]
    /\ exceptions \in Seq(Break)
    /\ writer \in Processes \cup {Nobody}
    /\ pc \in [Processes -> {"idle", "importing", "reading", "saving", "returned", "failed"}]
    /\ at \in [Processes -> Nat \ {0}]
    /\ file \in [Importers -> Files] /\ count \in [Importers -> Nat]
    /\ pending \in [Importers -> Seq(Row)]
    /\ dry_run \in [Matchers -> BOOLEAN] /\ internals \in [Matchers -> Seq(Row)]
    /\ report \in [Matchers -> Seq(Break)]

\* However calls overlap, are killed or raise: each import adds its file as a whole,
\* of each key the first row, or nothing, and returns the number of its lines that
\* were not skipped; each run saves its report as a whole and once, a dry run nothing.
AtomicSpec == Atomic!Spec

\* Importing a file again after it was imported, say because its process was thought
\* to have failed, changes nothing, rows with generated ids included.
ReimportChangesNothing ==
    [][\A p, q \in Importers :
          FinishImport(p) /\ pc[q] = "returned" /\ file[q] = file[p]
              => UNCHANGED tables]_vars

Rows(table) == {tables[table][k] : k \in DOMAIN tables[table]}

\* A mismatch on record is there to be looked up for good: no later import replaces
\* the trade and the confirmation it is about.
BreaksStayReal ==
    \A i \in DOMAIN exceptions :
        LET Differ(t, c) ==
                /\ t.trade_id = exceptions[i].trade_id /\ c.trade_id = exceptions[i].trade_id
                /\ exceptions[i].type = "qty_mismatch"   =>
                       ~Within(t.quantity, c.quantity, qty_tolerance)
                /\ exceptions[i].type = "price_mismatch" =>
                       ~Within(t.price, c.price, price_tolerance)
        IN  exceptions[i].type \in {"qty_mismatch", "price_mismatch"} =>
                \E t \in Rows("internal_trades"), c \in Rows("confirmations") : Differ(t, c)

-----------------------------------------------------------------------------
(* What the documentation states and the code does not do. *)

\* README.md:71: missing internal means that the internal side does not have the
\* trade.  The two tables are read one after the other, outside a transaction.
MissingInternalIsUnknown ==
    [][\A p \in Matchers : ReadConfirmations(p) =>
          \A i \in DOMAIN report'[p] :
              report'[p][i].type = "missing_internal" =>
                  ~Has(tables["internal_trades"], report'[p][i].trade_id)]_vars

=============================================================================
