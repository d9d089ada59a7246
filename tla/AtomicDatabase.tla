--------------------------- MODULE AtomicDatabase ---------------------------
(***************************************************************************)
(* What the SQLite file promises to those who share it: a call, import or  *)
(* matching run, happens at one moment or not at all.  What an import adds *)
(* and what it returns is said without a loop over its lines.  A matching  *)
(* run is not promised one state of the two tables, only that it has seen  *)
(* of each what was there at some moment.  TradeDatabase implements this   *)
(* with transactions of one step per line.                                 *)
(***************************************************************************)
EXTENDS Integers, Sequences, FiniteSets

CONSTANTS
    Importers, Matchers,     \* the callers
    Files, target(_),        \* the files, the table each is for
    RowLines(_), RowAt(_, _),   \* the lines of a file that are rows, and their rows
    CountOf(_),              \* what the import of a file returns
    SameKey(_, _),           \* when two rows have one primary key
    Breaks(_, _)             \* the mismatches between two lists of rows

VARIABLES
    tables, exceptions,      \* what is in the file
    file, dry_run,           \* the arguments of the calls
    outcome,                 \* of each call: open, returned or failed
    count, report            \* what the calls returned

vars == <<tables, exceptions, file, dry_run, outcome, count, report>>

Tables == {"internal_trades", "confirmations"}

HasKey(table, row) == \E k \in DOMAIN table : SameKey(table[k], row)

\* Of some lines of f, those that add their row: the first ones with keys that the
\* table does not have.
NewLines(table, f, lines) ==
    {i \in lines : /\ ~HasKey(table, RowAt(f, i))
                   /\ \A j \in lines : j < i => ~SameKey(RowAt(f, j), RowAt(f, i))}

\* new is old with the rows of these lines added, in their order.
Adds(old, new, f, lines) ==
    LET fresh == NewLines(old, f, lines)
    IN  /\ Len(new) = Len(old) + Cardinality(fresh)
        /\ \A k \in 1..Len(old) : new[k] = old[k]
        /\ \A i \in fresh :
               new[Len(old) + Cardinality({j \in fresh : j <= i})] = RowAt(f, i)

-----------------------------------------------------------------------------

Init ==
    /\ tables = [t \in Tables |-> <<>>]
    /\ exceptions = <<>>
    /\ file \in [Importers -> Files] /\ dry_run \in [Matchers -> BOOLEAN]
    /\ outcome = [p \in Importers \cup Matchers |-> "open"]
    /\ count = [p \in Importers |-> 0]
    /\ report = [p \in Matchers |-> <<>>]

Ends(p, how) == outcome[p] = "open" /\ outcome' = [outcome EXCEPT ![p] = how]

Import(p) ==
    /\ Ends(p, "returned")
    /\ Adds(tables[target(file[p])], tables'[target(file[p])], file[p], RowLines(file[p]))
    /\ \A t \in Tables \ {target(file[p])} : tables'[t] = tables[t]
    /\ count' = [count EXCEPT ![p] = CountOf(file[p])]
    /\ UNCHANGED <<exceptions, file, dry_run, report>>

\* The rows a run has seen are those that were there at some moment: a table only
\* grows at its end.
Run(p) ==
    /\ Ends(p, "returned")
    /\ \E m \in 0..Len(tables["internal_trades"]), n \in 0..Len(tables["confirmations"]) :
           report' = [report EXCEPT ![p] = Breaks(SubSeq(tables["internal_trades"], 1, m),
                                                  SubSeq(tables["confirmations"], 1, n))]
    /\ exceptions' = IF dry_run[p] \/ report'[p] = <<>> THEN exceptions
                      ELSE exceptions \o report'[p]
    /\ UNCHANGED <<tables, file, dry_run, count>>

Fail(p) ==
    /\ Ends(p, "failed")
    /\ UNCHANGED <<tables, exceptions, file, dry_run, count, report>>

Next == \/ \E p \in Importers : Import(p)
        \/ \E p \in Matchers : Run(p)
        \/ \E p \in Importers \cup Matchers : Fail(p)

Spec == Init /\ [][Next]_vars

=============================================================================
