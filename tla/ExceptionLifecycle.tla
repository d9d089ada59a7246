------------------------- MODULE ExceptionLifecycle -------------------------
(***************************************************************************)
(* What the exception workflow promises about the life of every exception, *)
(* with the bookkeeping left out: exceptions are raised under consecutive  *)
(* numbers, somebody takes a new exception on, an exception that was taken *)
(* on can be resolved, any open one can be written off, and a closed one   *)
(* stays closed with the resolution recorded when it was closed.           *)
(***************************************************************************)
EXTENDS Integers

CONSTANTS
    Resolutions,     \* what a resolution may say
    NoText,          \* nothing has been written
    MaxExceptions    \* bound: how many exceptions are ever raised

VARIABLES
    stage,           \* the stage each exception number is in
    outcome          \* what its resolution says

vars == <<stage, outcome>>

Numbers == 1..MaxExceptions
Stage   == {"absent", "new", "owned", "resolved", "written off"}

TypeOK ==
    /\ stage   \in [Numbers -> Stage]
    /\ outcome \in [Numbers -> Resolutions \cup {NoText}]

Init ==
    /\ stage   = [n \in Numbers |-> "absent"]
    /\ outcome = [n \in Numbers |-> NoText]

Move(n, from, to) ==
    /\ stage[n] \in from
    /\ stage' = [stage EXCEPT ![n] = to]

Raise(n) ==
    /\ \A k \in Numbers : k < n => stage[k] # "absent"
    /\ Move(n, {"absent"}, "new")
    /\ UNCHANGED outcome

TakeOn(n) == Move(n, {"new"}, "owned") /\ UNCHANGED outcome

Resolve(n, text) ==
    /\ Move(n, {"owned"}, "resolved")
    /\ outcome' = [outcome EXCEPT ![n] = text]

WriteOff(n) == Move(n, {"new", "owned"}, "written off") /\ UNCHANGED outcome

Next == \E n \in Numbers :
            \/ Raise(n)
            \/ TakeOn(n)
            \/ \E text \in Resolutions : Resolve(n, text)
            \/ WriteOff(n)

Spec == Init /\ [][Next]_vars

=============================================================================
