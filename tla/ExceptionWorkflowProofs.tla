----------------------- MODULE ExceptionWorkflowProofs ----------------------
(***************************************************************************)
(* Theorems about ExceptionWorkflow, for any number of exceptions, any     *)
(* assignees, resolutions and match results, and any behaviour of the wall *)
(* clock.                                                                  *)
(*                                                                         *)
(* Every operation looks its exception up by a scan.  The argument begins  *)
(* with that scan: ids are positions, so the scan finds the exception      *)
(* meant (Found), and each operation comes down to one of two rewrites of  *)
(* one record (OperationEffect).  All that follows is about the rewrites.  *)
(***************************************************************************)
EXTENDS ExceptionWorkflow, SequenceTheorems, FiniteSetTheorems, NaturalsInduction,
        WellFoundedInduction, TLAPS

\* The record with number i after a transition, and after an assignment.
Moved(i, to, text) ==
    [exceptions[i] EXCEPT !.state = to, !.resolution = text, !.updated_at_ns = now]
Assigned(i, who) ==
    [exceptions[i] EXCEPT !.assignee = who, !.updated_at_ns = now]

\* The record at i, and nothing else, is replaced by ex.
Rewrites(i, ex) ==
    /\ i \in DOMAIN exceptions
    /\ exceptions' = [exceptions EXCEPT ![i] = ex]
    /\ UNCHANGED <<next_id, clock>>

\* A transition takes the record of i to a state that may follow its own, with the
\* text of the caller if that is Resolved and the resolution it had otherwise.
Moves(i, to, text) ==
    /\ Rewrites(i, Moved(i, to, text))
    /\ to \in valid_transition[exceptions[i].state]
    /\ IF to = "Resolved" THEN text \in Resolutions ELSE text = exceptions[i].resolution

\* The record that create_exception appends.
Created(m) ==
    [id |-> next_id, match_state |-> m,
     severity |-> severity_from_match[m], state |-> "Detected",
     assignee |-> NoText, resolution |-> NoText,
     created_at_ns |-> now, updated_at_ns |-> now]

\* The inductive invariant.
IInv == TypeOK /\ IdsArePositions

-----------------------------------------------------------------------------
(* The scan and the operations. *)

\* What is on the list is an exception, and every position of the list has one.
LEMMA Listed ==
    ASSUME TypeOK
    PROVE  /\ DOMAIN exceptions = 1..Len(exceptions)
           /\ Len(exceptions) \in 0..MaxExceptions
           /\ \A i \in DOMAIN exceptions : exceptions[i] \in Exception
BY LenProperties, ElementOfSeq, MaxExceptionsAssumption DEF TypeOK

\* get_exception's scan for an id stops at the position with the number of the id.
LEMMA Found ==
    ASSUME IInv, NEW id, Positions(id) # {}
    PROVE  id \in DOMAIN exceptions /\ get_exception(id) = id
<1>1. Positions(id) = {id} /\ id \in DOMAIN exceptions
  BY DEF IInv, IdsArePositions, Positions
<1>2. id \in Int
  BY <1>1, Listed DEF IInv
<1> QED
  BY <1>1, <1>2 DEF get_exception

\* What may follow a state is a state.
LEMMA TransitionStates ==
    \A s \in ExceptionState : valid_transition[s] \subseteq ExceptionState
BY DEF valid_transition, ExceptionState

\* A transition asked for and granted moves the record meant.
LEMMA TransitionEffect ==
    ASSUME IInv, NEW id, NEW to, NEW text, Transition(id, to, text),
           IF to = "Resolved" THEN text \in Resolutions ELSE text = Untouched(id)
    PROVE  Moves(id, to, text)
<1>1. Positions(id) # {}
  BY DEF Transition
<1>2. id \in DOMAIN exceptions /\ get_exception(id) = id
  BY <1>1, Found
<1> QED
  BY <1>2 DEF Transition, Moves, Rewrites, Moved, Untouched

\* An assignment rewrites the record meant.
LEMMA AssignEffect ==
    ASSUME IInv, NEW id, NEW who, assign(id, who)
    PROVE  Rewrites(id, Assigned(id, who))
<1>1. Positions(id) # {}
  BY DEF assign
<1>2. id \in DOMAIN exceptions /\ get_exception(id) = id
  BY <1>1, Found
<1>3. exceptions' = [exceptions EXCEPT ![id].assignee = who, ![id].updated_at_ns = now]
  BY <1>2 DEF assign
<1>4. exceptions[id] \in Exception
  BY <1>2, Listed DEF IInv
<1>5. exceptions' = [exceptions EXCEPT ![id] = Assigned(id, who)]
  BY <1>2, <1>3, <1>4 DEF Assigned, Exception
<1> QED
  BY <1>2, <1>5 DEF assign, Rewrites

\* Whatever is asked for, what happens is a move or an assignment.
LEMMA OperationEffect ==
    ASSUME IInv, NEW id, Operation(id)
    PROVE  \/ \E to \in ExceptionState, text \in Resolutions \cup {NoText} : Moves(id, to, text)
           \/ \E who \in Assignees : assign(id, who) /\ Rewrites(id, Assigned(id, who))
<1>1. ASSUME NEW to, NEW text, Moves(id, to, text)
      PROVE  \E s \in ExceptionState, r \in Resolutions \cup {NoText} : Moves(id, s, r)
  <2>1. exceptions[id] \in Exception
    BY <1>1, Listed DEF Moves, Rewrites, IInv
  <2>2. to \in ExceptionState /\ text \in Resolutions \cup {NoText}
    BY <1>1, <2>1, TransitionStates DEF Moves, Exception
  <2> QED
    BY <1>1, <2>2
<1>2. ASSUME NEW to, to # "Resolved", Transition(id, to, Untouched(id))
      PROVE  \E text : Moves(id, to, text)
  <2>1. PICK text : text = Untouched(id)
    OBVIOUS
  <2>2. Transition(id, to, text)
    BY <1>2, <2>1
  <2> QED
    BY <1>2, <2>1, <2>2, TransitionEffect
<1>3. CASE acknowledge(id) \/ investigate(id) \/ escalate(id) \/ write_off(id)
  <2>1. PICK to \in ExceptionState \ {"Resolved"} : Transition(id, to, Untouched(id))
    BY <1>3 DEF acknowledge, investigate, escalate, write_off, ExceptionState
  <2> QED
    BY <1>1, <1>2, <2>1
<1>4. CASE \E text \in Resolutions : resolve(id, text)
  BY <1>1, <1>4, TransitionEffect DEF resolve
<1>5. CASE \E who \in Assignees : assign(id, who)
  BY <1>5, AssignEffect
<1> QED
  BY <1>3, <1>4, <1>5 DEF Operation

-----------------------------------------------------------------------------
(* Every step, seen from the list. *)

\* The step of a creation.
Creates(m) ==
    /\ exceptions' = Append(exceptions, Created(m))
    /\ Created(m) \in Exception
    /\ Len(exceptions) < MaxExceptions
    /\ next_id' = next_id + 1
    /\ UNCHANGED clock

\* Nothing happens to the list; the clock may have moved.
ListStands == UNCHANGED <<exceptions, next_id>>

\* A record that is moved or assigned is still an exception.
LEMMA RewrittenIsException ==
    ASSUME TypeOK, NEW i \in DOMAIN exceptions
    PROVE  /\ \A to \in ExceptionState, text \in Resolutions \cup {NoText} :
                  Moved(i, to, text) \in Exception
           /\ \A who \in Assignees : Assigned(i, who) \in Exception
<1>1. exceptions[i] \in Exception /\ now \in Instants
  BY Listed DEF TypeOK
<1> QED
  BY <1>1 DEF Moved, Assigned, Exception

\* A step creates one exception, moves one, assigns one, or leaves the list alone.
LEMMA StepEffect ==
    ASSUME IInv, [Next]_vars
    PROVE  \/ \E m \in MatchResults : Creates(m)
           \/ \E i \in DOMAIN exceptions :
                  \/ \E to \in ExceptionState, text \in Resolutions \cup {NoText} :
                         Moves(i, to, text)
                  \/ \E who \in Assignees : assign(i, who) /\ Rewrites(i, Assigned(i, who))
           \/ ListStands /\ now' \in Instants /\ set_back' \in BOOLEAN
              /\ (~set_back' => ~set_back /\ now <= now')
<1>1. CASE \E m \in MatchResults : create_exception(m)
  <2>1. PICK m \in MatchResults : create_exception(m)
    BY <1>1
  <2>2. next_id \in 1..MaxExceptions
    <3>1. Len(exceptions) < MaxExceptions
      BY <2>1 DEF create_exception
    <3> QED
      BY <3>1, Listed, MaxExceptionsAssumption DEF IInv, IdsArePositions
  <2>3. severity_from_match[m] \in ExceptionSeverity
    BY MatchResultsAssumption DEF severity_from_match, MatchState, ExceptionSeverity
  <2>4. Created(m) \in Exception
    BY <2>2, <2>3 DEF Created, Exception, IInv, TypeOK, ExceptionState
  <2>5. Creates(m)
    BY <2>1, <2>4 DEF Creates, Created, create_exception
  <2> QED
    BY <2>5
<1>2. CASE \E id \in 0..(MaxExceptions + 1) : Operation(id)
  <2>1. PICK id \in 0..(MaxExceptions + 1) : Operation(id)
    BY <1>2
  <2>2. (\E to \in ExceptionState, text \in Resolutions \cup {NoText} : Moves(id, to, text))
        \/ (\E who \in Assignees : assign(id, who) /\ Rewrites(id, Assigned(id, who)))
    BY <2>1, OperationEffect
  <2> QED
    BY <2>2 DEF Moves, Rewrites
<1>3. now \in Int /\ now \in Instants /\ set_back \in BOOLEAN
  BY ClockAssumption DEF IInv, TypeOK
<1>4. CASE ClockAdvances
  <2>1. PICK t \in Instants : t > now /\ now' = t
    BY <1>4 DEF ClockAdvances
  <2>2. t \in Int
    BY ClockAssumption
  <2> QED
    BY <1>3, <1>4, <2>1, <2>2 DEF ClockAdvances, ListStands
<1>5. CASE ClockIsSetBack
  BY <1>5 DEF ClockIsSetBack, ListStands
<1>6. CASE UNCHANGED vars
  BY <1>3, <1>6 DEF vars, clock, ListStands
<1> QED
  BY <1>1, <1>2, <1>4, <1>5, <1>6 DEF Next

-----------------------------------------------------------------------------
(* Types and ids. *)

\* What one record may be replaced by without disturbing the list as a whole.
LEMMA RewriteKeeps ==
    ASSUME TypeOK, NEW i, NEW ex \in Exception, Rewrites(i, ex)
    PROVE  /\ i \in DOMAIN exceptions
           /\ exceptions' \in Seq(Exception)
           /\ Len(exceptions') = Len(exceptions)
           /\ DOMAIN exceptions' = DOMAIN exceptions
           /\ \A j \in DOMAIN exceptions :
                  exceptions'[j] = IF j = i THEN ex ELSE exceptions[j]
           /\ next_id' = next_id /\ now' = now /\ set_back' = set_back
<1>1. i \in 1..Len(exceptions) /\ exceptions \in Seq(Exception)
  BY Listed DEF Rewrites, TypeOK
<1>2. exceptions' = [exceptions EXCEPT ![i] = ex]
  BY DEF Rewrites
<1>3. exceptions' \in Seq(Exception) /\ Len(exceptions') = Len(exceptions)
  BY <1>1, <1>2, ExceptSeq
<1>4. DOMAIN exceptions' = DOMAIN exceptions
  BY <1>2
<1> QED
  BY <1>1, <1>2, <1>3, <1>4 DEF Rewrites, clock

\* What a creation does to the list.
LEMMA CreationKeeps ==
    ASSUME TypeOK, NEW m, Creates(m)
    PROVE  /\ exceptions' \in Seq(Exception)
           /\ Len(exceptions') = Len(exceptions) + 1
           /\ Len(exceptions') <= MaxExceptions
           /\ DOMAIN exceptions' = DOMAIN exceptions \cup {Len(exceptions) + 1}
           /\ \A j \in DOMAIN exceptions : exceptions'[j] = exceptions[j]
           /\ exceptions'[Len(exceptions) + 1] = Created(m)
           /\ next_id' = next_id + 1 /\ now' = now /\ set_back' = set_back
<1>1. exceptions \in Seq(Exception) /\ Created(m) \in Exception
  BY DEF TypeOK, Creates
<1>2. exceptions' = Append(exceptions, Created(m))
  BY DEF Creates
<1>3. Len(exceptions) \in Nat /\ DOMAIN exceptions = 1..Len(exceptions)
  BY Listed
<1>4. /\ exceptions' \in Seq(Exception)
      /\ Len(exceptions') = Len(exceptions) + 1
      /\ \A j \in DOMAIN exceptions : exceptions'[j] = exceptions[j]
      /\ exceptions'[Len(exceptions) + 1] = Created(m)
  BY <1>1, <1>2, <1>3, AppendProperties
<1>5. DOMAIN exceptions' = 1..(Len(exceptions) + 1)
  BY <1>4, LenProperties
<1> QED
  BY <1>3, <1>4, <1>5, MaxExceptionsAssumption DEF Creates, clock

\* There are no exceptions in the beginning.
LEMMA IInvInit == Init => IInv
<1> SUFFICES ASSUME Init PROVE IInv
  OBVIOUS
<1>1. exceptions \in Seq(Exception) /\ Len(exceptions) = 0
  BY EmptySeq DEF Init
<1>2. DOMAIN exceptions = {}
  BY <1>1, LenProperties
<1>3. next_id = 1 /\ now \in Instants
  BY DEF Init
<1>4. set_back \in BOOLEAN
  BY DEF Init
<1>5. TypeOK
  BY <1>1, <1>3, <1>4, MaxExceptionsAssumption DEF TypeOK
<1>6. IdsArePositions
  BY <1>1, <1>2, <1>3 DEF IdsArePositions
<1> QED
  BY <1>5, <1>6 DEF IInv

\* A record that is moved or assigned keeps its id.
LEMMA IInvStep == IInv /\ [Next]_vars => IInv'
<1> SUFFICES ASSUME IInv, [Next]_vars PROVE IInv'
  OBVIOUS
<1>1. TypeOK /\ IdsArePositions
  BY DEF IInv
<1>2. ASSUME NEW m, Creates(m) PROVE IInv'
  <2>1. Created(m).id = Len(exceptions) + 1 /\ Len(exceptions) \in 0..MaxExceptions
    BY <1>1, Listed DEF Created, IdsArePositions
  <2>2. TypeOK'
    BY <1>1, <1>2, <2>1, CreationKeeps, MaxExceptionsAssumption
    DEF TypeOK, IdsArePositions
  <2>3. IdsArePositions'
    BY <1>1, <1>2, <2>1, CreationKeeps DEF IdsArePositions
  <2> QED
    BY <2>2, <2>3 DEF IInv
<1>3. ASSUME NEW i \in DOMAIN exceptions, NEW ex \in Exception, Rewrites(i, ex),
             ex.id = exceptions[i].id
      PROVE  IInv'
  <2>1. TypeOK'
    BY <1>1, <1>3, RewriteKeeps DEF TypeOK
  <2>2. IdsArePositions'
    BY <1>1, <1>3, RewriteKeeps DEF IdsArePositions
  <2> QED
    BY <2>1, <2>2 DEF IInv
<1>4. ASSUME NEW i \in DOMAIN exceptions, NEW to \in ExceptionState,
             NEW text \in Resolutions \cup {NoText}, Moves(i, to, text)
      PROVE  IInv'
  <2>1. exceptions[i] \in Exception
    BY <1>1, Listed
  <2>2. Moved(i, to, text).id = exceptions[i].id
    BY <2>1 DEF Moved, Exception
  <2> QED
    BY <1>1, <1>3, <1>4, <2>2, RewrittenIsException DEF Moves
<1>5. ASSUME NEW i \in DOMAIN exceptions, NEW who \in Assignees,
             Rewrites(i, Assigned(i, who))
      PROVE  IInv'
  <2>1. exceptions[i] \in Exception
    BY <1>1, Listed
  <2>2. Assigned(i, who).id = exceptions[i].id
    BY <2>1 DEF Assigned, Exception
  <2> QED
    BY <1>1, <1>3, <1>5, <2>2, RewrittenIsException
<1>6. CASE ListStands /\ now' \in Instants /\ set_back' \in BOOLEAN
  BY <1>1, <1>6 DEF ListStands, IInv, TypeOK, IdsArePositions
<1> QED
  BY <1>2, <1>4, <1>5, <1>6, StepEffect

\* The list is typed and numbered by position in every reachable state.
LEMMA Inductive == Spec => []IInv
BY IInvInit, IInvStep, PTL DEF Spec

\* Every variable keeps its type, for every bound on exceptions and every clock.
THEOREM TypeCorrect == Spec => []TypeOK
<1>1. IInv => TypeOK
  BY DEF IInv
<1> QED
  BY <1>1, Inductive, PTL

\* get_exception can return no other exception than the one that was meant: the
\* number of an exception is its place in exceptions_, whatever was called before.
THEOREM IdsCorrect == Spec => []IdsArePositions
<1>1. IInv => IdsArePositions
  BY DEF IInv
<1> QED
  BY <1>1, Inductive, PTL

-----------------------------------------------------------------------------
(* Resolutions. *)

\* What the last theorem below needs of one record.
Consistent(ex) == ex.resolution # NoText => ex.state = "Resolved"

\* Nothing follows a closed state, and a text comes with Resolved only, so that no
\* move takes a text to another state.
LEMMA MovesAreConsistent ==
    ASSUME TypeOK, NEW i \in DOMAIN exceptions, NEW to, NEW text, Moves(i, to, text),
           Consistent(exceptions[i])
    PROVE  Consistent(Moved(i, to, text)) /\ ~IsClosed(exceptions[i])
<1>1. exceptions[i] \in Exception
  BY Listed
<1>2. exceptions[i].state \notin {"Resolved", "WrittenOff"}
  BY <1>1 DEF Moves, valid_transition, Exception
<1>3. Moved(i, to, text).state = to /\ Moved(i, to, text).resolution = text
  BY <1>1 DEF Moved, Exception
<1> QED
  BY <1>2, <1>3 DEF Moves, Consistent, IsClosed

\* Every step keeps resolutions to the resolved.
LEMMA ResolutionStep ==
    IInv /\ ResolutionOnlyWhenResolved /\ [Next]_vars => ResolutionOnlyWhenResolved'
<1> SUFFICES ASSUME IInv, ResolutionOnlyWhenResolved, [Next]_vars
             PROVE  ResolutionOnlyWhenResolved'
  OBVIOUS
<1>1. TypeOK /\ \A j \in DOMAIN exceptions : Consistent(exceptions[j])
  BY DEF IInv, ResolutionOnlyWhenResolved, Consistent
<1>2. ASSUME NEW m, Creates(m) PROVE ResolutionOnlyWhenResolved'
  <2>1. Consistent(Created(m))
    BY DEF Created, Consistent
  <2> QED
    BY <1>1, <1>2, <2>1, CreationKeeps DEF ResolutionOnlyWhenResolved, Consistent
<1>3. ASSUME NEW i \in DOMAIN exceptions, NEW ex \in Exception, Rewrites(i, ex),
             Consistent(ex)
      PROVE  ResolutionOnlyWhenResolved'
  BY <1>1, <1>3, RewriteKeeps DEF ResolutionOnlyWhenResolved, Consistent
<1>4. ASSUME NEW i \in DOMAIN exceptions, NEW to \in ExceptionState,
             NEW text \in Resolutions \cup {NoText}, Moves(i, to, text)
      PROVE  ResolutionOnlyWhenResolved'
  <2>1. Consistent(Moved(i, to, text)) /\ Moved(i, to, text) \in Exception
    BY <1>1, <1>4, MovesAreConsistent, RewrittenIsException
  <2> QED
    BY <1>3, <1>4, <2>1 DEF Moves
<1>5. ASSUME NEW i \in DOMAIN exceptions, NEW who \in Assignees,
             Rewrites(i, Assigned(i, who))
      PROVE  ResolutionOnlyWhenResolved'
  <2>1. exceptions[i] \in Exception
    BY <1>1, Listed
  <2>2. Consistent(Assigned(i, who))
    BY <1>1, <2>1 DEF Assigned, Consistent, Exception
  <2> QED
    BY <1>1, <1>3, <1>5, <2>2, RewrittenIsException
<1>6. CASE ListStands
  BY <1>6 DEF ListStands, ResolutionOnlyWhenResolved
<1> QED
  BY <1>2, <1>4, <1>5, <1>6, StepEffect

\* A resolution is on record for resolved exceptions only: a refused resolve leaves no
\* text, and nothing that happens to a resolved exception takes the state from its text.
THEOREM ResolutionCorrect == Spec => []ResolutionOnlyWhenResolved
<1>1. Init => ResolutionOnlyWhenResolved
  <2> SUFFICES ASSUME Init PROVE ResolutionOnlyWhenResolved
    OBVIOUS
  <2>1. DOMAIN exceptions = {}
    BY EmptySeq, LenProperties DEF Init
  <2> QED
    BY <2>1 DEF ResolutionOnlyWhenResolved
<1> QED
  BY <1>1, Inductive, ResolutionStep, PTL DEF Spec

\* Whatever is called after an exception was resolved or written off leaves its
\* state and its resolution as they are.
THEOREM ClosedStaysClosed == Spec => ClosedIsFinal
<1> DEFINE Final == \A i \in DOMAIN exceptions : IsClosed(exceptions[i]) =>
                        /\ exceptions'[i].state = exceptions[i].state
                        /\ exceptions'[i].resolution = exceptions[i].resolution
<1>1. ASSUME IInv, ResolutionOnlyWhenResolved, [Next]_vars PROVE [Final]_vars
  <2>1. TypeOK /\ \A j \in DOMAIN exceptions : Consistent(exceptions[j])
    BY <1>1 DEF IInv, ResolutionOnlyWhenResolved, Consistent
  <2>2. ASSUME NEW m, Creates(m) PROVE Final
    BY <2>1, <2>2, CreationKeeps
  <2>3. ASSUME NEW i \in DOMAIN exceptions, NEW to \in ExceptionState,
               NEW text \in Resolutions \cup {NoText}, Moves(i, to, text)
        PROVE  Final
    <3>1. Moved(i, to, text) \in Exception /\ ~IsClosed(exceptions[i])
      BY <2>1, <2>3, MovesAreConsistent, RewrittenIsException
    <3>2. \A j \in DOMAIN exceptions : j # i => exceptions'[j] = exceptions[j]
      BY <2>1, <2>3, <3>1, RewriteKeeps DEF Moves
    <3> QED
      BY <3>1, <3>2
  <2>4. ASSUME NEW i \in DOMAIN exceptions, NEW who \in Assignees,
               Rewrites(i, Assigned(i, who))
        PROVE  Final
    <3>1. exceptions[i] \in Exception /\ Assigned(i, who) \in Exception
      BY <2>1, Listed, RewrittenIsException
    <3>2. /\ Assigned(i, who).state = exceptions[i].state
          /\ Assigned(i, who).resolution = exceptions[i].resolution
      BY <3>1 DEF Assigned, Exception
    <3> QED
      BY <2>1, <2>4, <3>1, <3>2, RewriteKeeps
  <2>5. CASE ListStands
    BY <2>5 DEF ListStands
  <2> QED
    BY <1>1, <2>2, <2>3, <2>4, <2>5, StepEffect
<1>2. Spec => [][Final]_vars
  BY <1>1, Inductive, ResolutionCorrect, PTL DEF Spec
<1> QED
  BY <1>2 DEF ClosedIsFinal

-----------------------------------------------------------------------------
(* Time stamps. *)

\* Readings of the clock are numbers.
LEMMA InstantsAreNumbers == \A t \in Instants : t \in 0..(ClockModulus - 1) /\ t \in Int
BY ClockAssumption

\* The stamps of one record are in order and in the past.
Ordered(ex, t) == ex.created_at_ns <= ex.updated_at_ns /\ ex.updated_at_ns <= t

\* Every step keeps the time stamps in order, while the clock is not set back.
LEMMA TimestampsStep == IInv /\ TimestampsOrdered /\ [Next]_vars => TimestampsOrdered'
<1> SUFFICES ASSUME IInv, TimestampsOrdered, [Next]_vars, ~set_back'
             PROVE  \A j \in DOMAIN exceptions' : Ordered(exceptions'[j], now')
  BY DEF TimestampsOrdered, Ordered
<1>1. TypeOK /\ (~set_back => \A j \in DOMAIN exceptions : Ordered(exceptions[j], now))
  BY DEF IInv, TimestampsOrdered, Ordered
<1>2. now \in Instants
  BY <1>1 DEF TypeOK
<1>3. ASSUME NEW m, Creates(m)
      PROVE  \A j \in DOMAIN exceptions' : Ordered(exceptions'[j], now')
  <2>1. Ordered(Created(m), now)
    BY <1>2, InstantsAreNumbers DEF Created, Ordered
  <2> QED
    BY <1>1, <1>3, <2>1, CreationKeeps
<1>4. ASSUME NEW i \in DOMAIN exceptions, NEW ex \in Exception, Rewrites(i, ex),
             ex.created_at_ns = exceptions[i].created_at_ns, ex.updated_at_ns = now
      PROVE  \A j \in DOMAIN exceptions' : Ordered(exceptions'[j], now')
  <2>1. set_back' = set_back /\ now' = now
    BY <1>1, <1>4, RewriteKeeps
  <2>2. exceptions[i] \in Exception /\ Ordered(exceptions[i], now)
    BY <1>1, <2>1, Listed
  <2>3. Ordered(ex, now)
    BY <1>2, <1>4, <2>2, InstantsAreNumbers DEF Ordered, Exception
  <2> QED
    BY <1>1, <1>4, <2>1, <2>3, RewriteKeeps
<1>5. ASSUME NEW i \in DOMAIN exceptions, NEW to \in ExceptionState,
             NEW text \in Resolutions \cup {NoText}, Moves(i, to, text)
      PROVE  \A j \in DOMAIN exceptions' : Ordered(exceptions'[j], now')
  <2>1. exceptions[i] \in Exception /\ Moved(i, to, text) \in Exception
    BY <1>1, Listed, RewrittenIsException
  <2>2. /\ Moved(i, to, text).created_at_ns = exceptions[i].created_at_ns
        /\ Moved(i, to, text).updated_at_ns = now
    BY <2>1 DEF Moved, Exception
  <2> QED
    BY <1>4, <1>5, <2>1, <2>2 DEF Moves
<1>6. ASSUME NEW i \in DOMAIN exceptions, NEW who \in Assignees,
             Rewrites(i, Assigned(i, who))
      PROVE  \A j \in DOMAIN exceptions' : Ordered(exceptions'[j], now')
  <2>1. exceptions[i] \in Exception /\ Assigned(i, who) \in Exception
    BY <1>1, Listed, RewrittenIsException
  <2>2. /\ Assigned(i, who).created_at_ns = exceptions[i].created_at_ns
        /\ Assigned(i, who).updated_at_ns = now
    BY <2>1 DEF Assigned, Exception
  <2> QED
    BY <1>4, <1>6, <2>1, <2>2
<1>7. CASE ListStands /\ now' \in Instants /\ (~set_back' => ~set_back /\ now <= now')
  <2>1. TAKE j \in DOMAIN exceptions'
  <2>2. exceptions'[j] = exceptions[j] /\ j \in DOMAIN exceptions
    BY <1>7 DEF ListStands
  <2>3. exceptions[j] \in Exception /\ Ordered(exceptions[j], now)
    BY <1>1, <1>7, <2>2, Listed
  <2> QED
    BY <1>2, <1>7, <2>2, <2>3, InstantsAreNumbers DEF Ordered, Exception
<1> QED
  BY <1>3, <1>5, <1>6, <1>7, StepEffect

\* As long as the wall clock is not set back, the differences that the two reports
\* take without a sign are differences of ordered time stamps.
THEOREM TimestampsCorrect == Spec => []TimestampsOrdered
<1>1. Init => TimestampsOrdered
  <2> SUFFICES ASSUME Init PROVE TimestampsOrdered
    OBVIOUS
  <2>1. DOMAIN exceptions = {}
    BY EmptySeq, LenProperties DEF Init
  <2> QED
    BY <2>1 DEF TimestampsOrdered
<1> QED
  BY <1>1, Inductive, TimestampsStep, PTL DEF Spec

-----------------------------------------------------------------------------
(* The reports. *)

\* The unsigned difference of ordered time stamps is their difference.
LEMMA OrderedDifference ==
    ASSUME NEW a \in Instants, NEW b \in Instants, b <= a
    PROVE  UnsignedMinus(a, b) = a - b
<1>1. a - b \in 0..(ClockModulus - 1) /\ ClockModulus \in Nat \ {0}
  BY InstantsAreNumbers, ClockAssumption
<1>2. \A x \in Int, m \in Nat \ {0} : x \in 0..(m - 1) => x % m = x
  OBVIOUS
<1> QED
  BY <1>1, <1>2 DEF UnsignedMinus

\* The older, the higher the bucket.
LEMMA BucketsAreOrdered ==
    ASSUME NEW age \in Int, NEW later \in Int, age <= later
    PROVE  Cardinality({days \in {1, 3, 7} : age > days * DayTicks})
           <= Cardinality({days \in {1, 3, 7} : later > days * DayTicks})
<1> DEFINE Passed(t) == {days \in {1, 3, 7} : t > days * DayTicks}
<1>1. Passed(age) \subseteq Passed(later)
  BY ClockAssumption
<1>2. Passed(later) \subseteq 1..7
  OBVIOUS
<1> HIDE DEF Passed
<1>3. IsFiniteSet(Passed(later))
  <2>1. PICK n \in Int : n = 7
    OBVIOUS
  <2>2. IsFiniteSet(1..n)
    BY FS_Interval
  <2>3. Passed(later) \in SUBSET (1..n)
    BY <1>2, <2>1
  <2> QED
    BY <2>2, <2>3, FS_Subset
<1>4. Cardinality(Passed(age)) <= Cardinality(Passed(later))
  BY <1>1, <1>3, FS_Subset
<1> QED
  BY <1>4 DEF Passed

\* No step touches the creation stamp of an exception, and the clock goes on.
LEMMA CreationStampStands ==
    ASSUME IInv, [Next]_vars, NEW i \in DOMAIN exceptions
    PROVE  /\ exceptions'[i].created_at_ns = exceptions[i].created_at_ns
           /\ now' \in Instants
           /\ ~set_back' => ~set_back /\ now <= now'
<1>1. TypeOK /\ now \in Instants /\ now \in Int
  BY InstantsAreNumbers DEF IInv, TypeOK
<1>2. ASSUME NEW m, Creates(m)
      PROVE  /\ exceptions'[i] = exceptions[i]
             /\ now' = now /\ set_back' = set_back
  BY <1>1, <1>2, CreationKeeps
<1>3. ASSUME NEW j \in DOMAIN exceptions, NEW ex \in Exception, Rewrites(j, ex),
             ex.created_at_ns = exceptions[j].created_at_ns
      PROVE  /\ exceptions'[i].created_at_ns = exceptions[i].created_at_ns
             /\ now' = now /\ set_back' = set_back
  BY <1>1, <1>3, RewriteKeeps
<1>4. \A j \in DOMAIN exceptions :
          /\ \A to \in ExceptionState, text \in Resolutions \cup {NoText} :
                 /\ Moved(j, to, text) \in Exception
                 /\ Moved(j, to, text).created_at_ns = exceptions[j].created_at_ns
          /\ \A who \in Assignees :
                 /\ Assigned(j, who) \in Exception
                 /\ Assigned(j, who).created_at_ns = exceptions[j].created_at_ns
  BY <1>1, Listed, RewrittenIsException DEF Moved, Assigned, Exception
<1>5. CASE ListStands /\ now' \in Instants /\ (~set_back' => ~set_back /\ now <= now')
  BY <1>5 DEF ListStands
<1> QED
  BY <1>1, <1>2, <1>3, <1>4, <1>5, StepEffect DEF Moves

\* While the wall clock is not set back, an exception that is not closed only ever
\* moves to older buckets of the aging report: no operation rejuvenates it.
THEOREM AgingIsMonotone == Spec => ExceptionsOnlyAge
<1>1. ASSUME IInv, TimestampsOrdered, [Next]_vars, ~set_back',
             NEW i \in DOMAIN exceptions
      PROVE  Bucket(exceptions[i]) <= Bucket(exceptions[i])'
  <2> DEFINE since == exceptions[i].created_at_ns
  <2>1. exceptions[i] \in Exception /\ now \in Instants /\ since \in Instants
    BY <1>1, Listed DEF IInv, TypeOK, Exception
  <2>2. /\ exceptions'[i].created_at_ns = since
        /\ now' \in Instants /\ ~set_back /\ now <= now'
    BY <1>1, CreationStampStands
  <2>3. since <= now /\ since <= now'
    BY <1>1, <2>1, <2>2, InstantsAreNumbers DEF TimestampsOrdered, Exception
  <2>4. /\ UnsignedMinus(now, since) = now - since
        /\ UnsignedMinus(now', since) = now' - since
    BY <2>1, <2>2, <2>3, OrderedDifference
  <2>5. now - since \in Int /\ now' - since \in Int /\ now - since <= now' - since
    BY <2>1, <2>2, InstantsAreNumbers
  <2>6. Bucket(exceptions[i]) =
            Cardinality({days \in {1, 3, 7} : now - since > days * DayTicks})
    BY <2>4 DEF Bucket
  <2>7. Bucket(exceptions[i])' =
            Cardinality({days \in {1, 3, 7} : now' - since > days * DayTicks})
    BY <2>2, <2>4 DEF Bucket, UnsignedMinus
  <2> HIDE DEF since
  <2> QED
    BY <2>5, <2>6, <2>7, BucketsAreOrdered
<1>2. ASSUME IInv, TimestampsOrdered, [Next]_vars
      PROVE  [~set_back' => \A i \in DOMAIN exceptions : ~IsClosed(exceptions[i]) =>
                 Bucket(exceptions[i]) <= Bucket(exceptions[i])']_vars
  BY <1>1, <1>2
<1> QED
  BY <1>2, Inductive, TimestampsCorrect, PTL DEF Spec, ExceptionsOnlyAge

-----------------------------------------------------------------------------
(* The mean time-to-resolution. *)

\* A set of numbers has a least one.
LEMMA LeastExists ==
    ASSUME NEW S, S \subseteq Nat, S # {}
    PROVE  \E i \in S : \A j \in S : i <= j
<1> DEFINE R == {ss \in Nat \X Nat : ss[1] < ss[2]}
<1>1. IsWellFoundedOn(R, Nat)
  BY NatLessThanWellFounded DEF OpToRel
<1> HIDE DEF R
<1>2. PICK x \in S : \A y \in S : ~ (<<y, x>> \in R)
  BY <1>1, WFMin
<1>3. \A y \in S : x \in Nat /\ y \in Nat /\ ~(y < x)
  BY <1>2 DEF R
<1>4. \A y \in S : x <= y
  BY <1>3
<1> QED
  BY <1>2, <1>4

\* SumFunction takes the elements of the domain off one by one, in an order that the
\* library leaves open.
Some(s) == CHOOSE x \in s : TRUE
\* One element more in a sum, and the sets of at most n elements.
Added(f, g, s) == IF s = {} THEN 0 ELSE f[Some(s)] + g[s \ {Some(s)}]
Upto(S, n) == {s \in SUBSET S : Cardinality(s) <= n}

\* The sum over a function, by the recursive function of the library that computes it.
LEMMA SumFunctionIs ==
    ASSUME NEW f
    PROVE  SumFunction(f) =
               (CHOOSE g : g = [s \in SUBSET DOMAIN f |-> Added(f, g, s)])[DOMAIN f]
  BY DEF SumFunction, SumFunctionOnSet, FoldFunctionOnSet, MapThenFoldSet, Added, Some

\* What is left of a set without some element of it.
LEMMA SomeTaken ==
    ASSUME NEW S, IsFiniteSet(S), NEW s \in SUBSET S, s # {}
    PROVE  /\ Some(s) \in S /\ s \ {Some(s)} \in SUBSET S
           /\ Cardinality(s) \in Nat
           /\ Cardinality(s \ {Some(s)}) = Cardinality(s) - 1
           /\ Cardinality(s \ {Some(s)}) \in Nat
<1>1. Some(s) \in s
  BY DEF Some
<1>2. IsFiniteSet(s)
  BY FS_Subset
<1>3. IsFiniteSet(s \ {Some(s)}) /\ Cardinality(s \ {Some(s)}) = Cardinality(s) - 1
  BY <1>1, <1>2, FS_RemoveElement
<1> QED
  BY <1>1, <1>2, <1>3, FS_CardinalityType

\* Partial sums exist: for the sets of at most n elements, for each n.
LEMMA PartialSumsExist ==
    ASSUME NEW f, IsFiniteSet(DOMAIN f), NEW n \in Nat
    PROVE  \E g : g = [s \in Upto(DOMAIN f, n) |-> Added(f, g, s)]
<1> DEFINE S == DOMAIN f
           Good(m) == \E g : g = [s \in Upto(S, m) |-> Added(f, g, s)]
           Bad == {m \in Nat : ~Good(m)}
<1>1. SUFFICES ASSUME Bad # {} PROVE FALSE
  OBVIOUS
<1>2. PICK m \in Bad : \A k \in Bad : m <= k
  <2> HIDE DEF Good
  <2>1. Bad \subseteq Nat
    OBVIOUS
  <2> HIDE DEF Bad
  <2> QED
    BY <1>1, <2>1, LeastExists
<1>3. m \in Nat /\ ~Good(m)
  BY <1>2
<1>4. CASE m = 0
  <2> DEFINE g == [s \in Upto(S, 0) |-> 0]
  <2>1. \A s \in Upto(S, 0) : s = {}
    <3>1. TAKE s \in Upto(S, 0)
    <3>2. s \in SUBSET S /\ Cardinality(s) <= 0
      BY DEF Upto
    <3>3. SUFFICES ASSUME s # {} PROVE FALSE
      OBVIOUS
    <3>4. /\ Cardinality(s) \in Nat
          /\ Cardinality(s \ {Some(s)}) = Cardinality(s) - 1
          /\ Cardinality(s \ {Some(s)}) \in Nat
      BY <3>2, <3>3, SomeTaken
    <3> QED
      BY <3>2, <3>4
  <2>2. g = [s \in Upto(S, 0) |-> Added(f, g, s)]
    BY <2>1 DEF Added
  <2> HIDE DEF g
  <2> QED
    BY <1>3, <1>4, <2>2
<1>5. CASE m # 0
  <2>1. m - 1 \in Nat /\ ~(m <= m - 1)
    BY <1>3, <1>5
  <2>2. Good(m - 1)
    BY <1>2, <2>1
  <2>3. PICK h : h = [s \in Upto(S, m - 1) |-> Added(f, h, s)]
    BY <2>2
  <2> DEFINE g == [s \in Upto(S, m) |-> Added(f, h, s)]
  <2>4. \A s \in Upto(S, m) : s # {} => s \ {Some(s)} \in Upto(S, m - 1)
    <3>1. TAKE s \in Upto(S, m)
    <3>2. HAVE s # {}
    <3>3. s \in SUBSET S /\ Cardinality(s) <= m
      BY DEF Upto
    <3>4. /\ s \ {Some(s)} \in SUBSET S
          /\ Cardinality(s) \in Nat
          /\ Cardinality(s \ {Some(s)}) = Cardinality(s) - 1
      BY <3>2, <3>3, SomeTaken
    <3>5. Cardinality(s \ {Some(s)}) <= m - 1
      BY <1>3, <3>3, <3>4
    <3> QED
      BY <3>4, <3>5 DEF Upto
  <2>5. \A s \in Upto(S, m - 1) : s \in Upto(S, m) /\ h[s] = Added(f, h, s)
    <3>1. TAKE s \in Upto(S, m - 1)
    <3>2. s \in SUBSET S /\ Cardinality(s) <= m - 1
      BY DEF Upto
    <3>3. Cardinality(s) \in Nat
      <4>1. IsFiniteSet(s)
        BY <3>2, FS_Subset
      <4> QED
        BY <4>1, FS_CardinalityType
    <3>4. Cardinality(s) <= m
      BY <1>3, <3>2, <3>3
    <3>5. h[s] = Added(f, h, s)
      BY <2>3
    <3> QED
      BY <3>2, <3>4, <3>5 DEF Upto
  <2>6. \A s \in Upto(S, m - 1) : g[s] = h[s]
    BY <2>5
  <2>7. \A s \in Upto(S, m) : Added(f, h, s) = Added(f, g, s)
    <3> HIDE DEF g
    <3> QED
      BY <2>4, <2>6 DEF Added
  <2>8. g = [s \in Upto(S, m) |-> Added(f, g, s)]
    <3>1. \A k : (\A s \in Upto(S, m) : Added(f, h, s) = Added(f, k, s)) =>
                 [s \in Upto(S, m) |-> Added(f, h, s)] = [s \in Upto(S, m) |-> Added(f, k, s)]
      OBVIOUS
    <3> QED
      BY <2>7, <3>1
  <2> HIDE DEF g
  <2> QED
    BY <1>3, <2>8
<1> QED
  BY <1>4, <1>5

\* The sum of a function to numbers none of which exceeds b.
LEMMA SumBounded ==
    ASSUME NEW S, IsFiniteSet(S), NEW f \in [S -> Nat], NEW b \in Nat,
           \A i \in S : f[i] <= b
    PROVE  SumFunction(f) \in Nat /\ SumFunction(f) <= Cardinality(S) * b
<1> DEFINE Sums(g) == g = [s \in SUBSET S |-> Added(f, g, s)]
           g == CHOOSE g : Sums(g)
<1>1. DOMAIN f = S /\ Cardinality(S) \in Nat
  BY FS_CardinalityType
<1>2. Upto(S, Cardinality(S)) = SUBSET S
  <2>1. \A s \in SUBSET S : Cardinality(s) <= Cardinality(S)
    BY FS_Subset
  <2> QED
    BY <2>1 DEF Upto
<1>3. \E h : Sums(h)
  <2>1. IsFiniteSet(DOMAIN f) /\ Cardinality(S) \in Nat
    BY <1>1
  <2>2. \E h : h = [s \in Upto(DOMAIN f, Cardinality(S)) |-> Added(f, h, s)]
    BY <2>1, PartialSumsExist
  <2> QED
    BY <1>1, <1>2, <2>2
<1>4. Sums(g)
  BY <1>3
<1>5. SumFunction(f) = g[S]
  BY <1>1, SumFunctionIs
<1> HIDE DEF g
<1>6. \A s \in SUBSET S : g[s] = Added(f, g, s)
  BY <1>4
<1> DEFINE Small(s) == g[s] \in Nat /\ g[s] <= Cardinality(s) * b
           Bad == {s \in SUBSET S : ~Small(s)}
           Sizes == {Cardinality(s) : s \in Bad}
<1>7. SUFFICES Bad = {}
  BY <1>5
<1>8. SUFFICES ASSUME Bad # {} PROVE FALSE
  OBVIOUS
<1>9. \A s \in SUBSET S : Cardinality(s) \in Nat
  <2>1. \A s \in SUBSET S : IsFiniteSet(s)
    BY FS_Subset
  <2> QED
    BY <2>1, FS_CardinalityType
<1>10. PICK n \in Sizes : \A k \in Sizes : n <= k
  <2>1. Sizes \subseteq Nat /\ Sizes # {}
    BY <1>8, <1>9
  <2> HIDE DEF Sizes
  <2> QED
    BY <2>1, LeastExists
<1>11. PICK s \in Bad : n = Cardinality(s)
  BY <1>10
<1>12. s \in SUBSET S /\ ~Small(s)
  BY <1>11
<1>13. CASE s = {}
  <2>1. g[s] = 0
    BY <1>6, <1>12, <1>13 DEF Added
  <2>2. Cardinality(s) = 0
    BY <1>13, FS_EmptySet
  <2>3. 0 * b = 0
    OBVIOUS
  <2> QED
    BY <1>12, <2>1, <2>2, <2>3
<1>14. CASE s # {}
  <2> DEFINE r == s \ {Some(s)}
  <2>1. /\ Some(s) \in S /\ r \in SUBSET S
        /\ Cardinality(s) \in Nat /\ Cardinality(r) \in Nat
        /\ Cardinality(r) = Cardinality(s) - 1
    BY <1>12, <1>14, SomeTaken
  <2>2. g[s] = f[Some(s)] + g[r]
    BY <1>6, <1>12, <1>14 DEF Added
  <2>3. r \notin Bad
    <3>1. SUFFICES ASSUME r \in Bad PROVE FALSE
      OBVIOUS
    <3>2. n <= Cardinality(r)
      BY <1>10, <3>1
    <3> QED
      BY <1>11, <2>1, <3>2
  <2> HIDE DEF r
  <2>4. g[r] \in Nat /\ g[r] <= Cardinality(r) * b
    BY <2>1, <2>3
  <2>5. f[Some(s)] \in Nat /\ f[Some(s)] <= b
    BY <2>1
  <2>6. \A c \in Nat, x \in Nat, y \in Nat : x <= b /\ y <= (c - 1) * b => x + y <= c * b
    <3>1. TAKE c \in Nat, x \in Nat, y \in Nat
    <3>2. (c - 1) * b = c * b - b
      OBVIOUS
    <3>3. c * b \in Int
      OBVIOUS
    <3> QED
      BY <3>2, <3>3
  <2>7. g[s] \in Nat /\ g[s] <= Cardinality(s) * b
    BY <2>1, <2>2, <2>4, <2>5, <2>6
  <2> QED
    BY <1>12, <2>7
<1> QED
  BY <1>13, <1>14

\* The first exception is the oldest.
FirstIsOldest ==
    ~set_back => \A i \in DOMAIN exceptions :
        exceptions[1].created_at_ns <= exceptions[i].created_at_ns

\* Every step keeps the first exception the oldest.
LEMMA FirstStep ==
    IInv /\ TimestampsOrdered /\ FirstIsOldest /\ [Next]_vars => FirstIsOldest'
<1> SUFFICES ASSUME IInv, TimestampsOrdered, FirstIsOldest, [Next]_vars, ~set_back',
                    NEW i \in DOMAIN exceptions'
             PROVE  exceptions'[1].created_at_ns <= exceptions'[i].created_at_ns
  BY DEF FirstIsOldest
<1>1. TypeOK /\ now \in Instants /\ now \in Int
  BY InstantsAreNumbers DEF IInv, TypeOK
<1>2. i \in DOMAIN exceptions => 1 \in DOMAIN exceptions
  BY <1>1, Listed
<1>3. CASE i \in DOMAIN exceptions
  <2>1. /\ exceptions'[1].created_at_ns = exceptions[1].created_at_ns
        /\ exceptions'[i].created_at_ns = exceptions[i].created_at_ns
        /\ ~set_back
    BY <1>2, <1>3, CreationStampStands
  <2> QED
    BY <1>3, <2>1 DEF FirstIsOldest
<1>4. CASE i \notin DOMAIN exceptions
  <2>1. ~(DOMAIN exceptions' = DOMAIN exceptions)
    BY <1>4
  <2>2. \A j, ex : Rewrites(j, ex) => DOMAIN exceptions' = DOMAIN exceptions
    BY DEF Rewrites
  <2>3. PICK m : Creates(m)
    BY <2>1, <2>2, StepEffect DEF Moves, ListStands
  <2>4. /\ DOMAIN exceptions' = DOMAIN exceptions \cup {Len(exceptions) + 1}
        /\ \A j \in DOMAIN exceptions : exceptions'[j] = exceptions[j]
        /\ exceptions'[Len(exceptions) + 1] = Created(m)
        /\ set_back' = set_back
    BY <1>1, <2>3, CreationKeeps
  <2>5. exceptions'[i].created_at_ns = now
    BY <1>4, <2>4 DEF Created
  <2>6. CASE i = 1
    BY <2>5, <2>6, <1>1
  <2>7. CASE i # 1
    <3>1. 1 \in DOMAIN exceptions
      BY <1>1, <1>4, <2>4, <2>7, Listed
    <3>2. Ordered(exceptions[1], now) /\ exceptions[1] \in Exception
      BY <1>1, <2>4, <3>1, Listed DEF TimestampsOrdered, Ordered
    <3>3. exceptions[1].created_at_ns \in Instants /\ exceptions[1].updated_at_ns \in Instants
      BY <3>2 DEF Exception
    <3>4. exceptions[1].created_at_ns \in Int /\ exceptions[1].updated_at_ns \in Int
      BY <3>3, InstantsAreNumbers
    <3>5. exceptions[1].created_at_ns <= now
      BY <1>1, <3>2, <3>4 DEF Ordered
    <3> QED
      BY <2>4, <2>5, <3>1, <3>5
  <2> QED
    BY <2>6, <2>7
<1> QED
  BY <1>3, <1>4

\* While the wall clock is not set back, the mean time-to-resolution is at most the time
\* since the first exception, for any number of exceptions and any modulus.
THEOREM AverageCorrect == Spec => []AverageWithinHistory
<1>1. Init => FirstIsOldest
  <2> SUFFICES ASSUME Init PROVE FirstIsOldest
    OBVIOUS
  <2>1. DOMAIN exceptions = {}
    BY EmptySeq, LenProperties DEF Init
  <2> QED
    BY <2>1 DEF FirstIsOldest
<1>2. IInv /\ TimestampsOrdered /\ FirstIsOldest => AverageWithinHistory
  <2> SUFFICES ASSUME IInv, TimestampsOrdered, FirstIsOldest, ~set_back,
                      get_average_resolution_time.count > 0
               PROVE  get_average_resolution_time.total
                          <= get_average_resolution_time.count * (now - exceptions[1].created_at_ns)
    BY DEF AverageWithinHistory
  <2> DEFINE closed == {i \in DOMAIN exceptions : IsClosed(exceptions[i])}
             times  == [i \in closed |-> ResolutionTime(exceptions[i])]
             b      == now - exceptions[1].created_at_ns
  <2>1. /\ get_average_resolution_time.total = SumFunction(times)
        /\ get_average_resolution_time.count = Cardinality(closed)
    BY DEF get_average_resolution_time
  <2>2. TypeOK /\ now \in Instants
    BY DEF IInv, TypeOK
  <2>3. IsFiniteSet(closed)
    <3>1. closed \in SUBSET (1..Len(exceptions)) /\ Len(exceptions) \in Int
      BY <2>2, Listed
    <3>2. IsFiniteSet(1..Len(exceptions))
      BY <3>1, FS_Interval
    <3> HIDE DEF closed
    <3> QED
      BY <3>1, <3>2, FS_Subset
  <2>4. closed # {}
    BY <2>1, FS_EmptySet
  <2>5. 1 \in DOMAIN exceptions
    BY <2>2, <2>4, Listed
  <2>6. \A i \in DOMAIN exceptions :
            /\ exceptions[i].created_at_ns \in Instants
            /\ exceptions[i].updated_at_ns \in Instants
            /\ exceptions[i].created_at_ns <= exceptions[i].updated_at_ns
            /\ exceptions[i].updated_at_ns <= now
            /\ exceptions[1].created_at_ns <= exceptions[i].created_at_ns
    BY <2>2, Listed DEF TimestampsOrdered, FirstIsOldest, Exception
  <2>7. \A i \in DOMAIN exceptions :
            ResolutionTime(exceptions[i]) =
                exceptions[i].updated_at_ns - exceptions[i].created_at_ns
    BY <2>6, OrderedDifference DEF ResolutionTime
  <2>8. b \in Nat
    BY <2>2, <2>5, <2>6, InstantsAreNumbers
  <2>9. \A i \in DOMAIN exceptions :
            ResolutionTime(exceptions[i]) \in Nat /\ ResolutionTime(exceptions[i]) <= b
    BY <2>2, <2>5, <2>6, <2>7, InstantsAreNumbers
  <2>10. times \in [closed -> Nat] /\ \A i \in closed : times[i] <= b
    BY <2>9
  <2> HIDE DEF closed, times, b
  <2>11. SumFunction(times) <= Cardinality(closed) * b
    BY <2>3, <2>8, <2>10, SumBounded
  <2> QED
    BY <2>1, <2>11 DEF b
<1> QED
  BY <1>1, <1>2, Inductive, TimestampsCorrect, FirstStep, PTL DEF Spec

\* Only assign can change how long the resolution of a closed exception is said to
\* have taken; every other operation leaves both its time stamps alone.
THEOREM OnlyAssignMoves == Spec => OnlyAssignMovesResolutionTime
<1>1. ASSUME IInv, ResolutionOnlyWhenResolved, [Next]_vars,
             NEW i \in DOMAIN exceptions, IsClosed(exceptions[i])
      PROVE  \/ ResolutionTime(exceptions[i])' = ResolutionTime(exceptions[i])
             \/ \E who \in Assignees : assign(exceptions[i].id, who)
  <2>1. TypeOK /\ IdsArePositions /\ \A j \in DOMAIN exceptions : Consistent(exceptions[j])
    BY <1>1 DEF IInv, ResolutionOnlyWhenResolved, Consistent
  <2>2. ASSUME exceptions'[i] = exceptions[i]
        PROVE  ResolutionTime(exceptions[i])' = ResolutionTime(exceptions[i])
    BY <2>2 DEF ResolutionTime, UnsignedMinus
  <2>3. ASSUME NEW m, Creates(m) PROVE exceptions'[i] = exceptions[i]
    BY <2>1, <2>3, CreationKeeps
  <2>4. ASSUME NEW j \in DOMAIN exceptions, NEW to \in ExceptionState,
               NEW text \in Resolutions \cup {NoText}, Moves(j, to, text)
        PROVE  exceptions'[i] = exceptions[i]
    <3>1. Moved(j, to, text) \in Exception /\ ~IsClosed(exceptions[j])
      BY <2>1, <2>4, MovesAreConsistent, RewrittenIsException
    <3> QED
      BY <1>1, <2>1, <2>4, <3>1, RewriteKeeps DEF Moves
  <2>5. ASSUME NEW j \in DOMAIN exceptions, NEW who \in Assignees,
               assign(j, who), Rewrites(j, Assigned(j, who)), j # i
        PROVE  exceptions'[i] = exceptions[i]
    BY <2>1, <2>5, RewriteKeeps, RewrittenIsException
  <2>6. CASE ListStands
    BY <2>2, <2>6 DEF ListStands
  <2>7. exceptions[i].id = i
    BY <2>1 DEF IdsArePositions
  <2> QED
    BY <1>1, <2>2, <2>3, <2>4, <2>5, <2>6, <2>7, StepEffect
<1>2. ASSUME IInv, ResolutionOnlyWhenResolved, [Next]_vars
      PROVE  [\A i \in DOMAIN exceptions : IsClosed(exceptions[i]) =>
                 \/ ResolutionTime(exceptions[i])' = ResolutionTime(exceptions[i])
                 \/ \E who \in Assignees : assign(exceptions[i].id, who)]_vars
  BY <1>1, <1>2
<1> QED
  BY <1>2, Inductive, ResolutionCorrect, PTL DEF Spec, OnlyAssignMovesResolutionTime

-----------------------------------------------------------------------------
(* The life cycle. *)

\* The refinement mapping of ExceptionWorkflow, by names.
Stages   == [n \in 1..MaxExceptions |->
                IF n <= Len(exceptions) THEN StageOf(exceptions[n].state) ELSE "absent"]
\* The text on record for each number.
Outcomes == [n \in 1..MaxExceptions |->
                IF n <= Len(exceptions) THEN exceptions[n].resolution ELSE NoText]

\* Rewriting a record changes the stage and the outcome of its number only.
LEMMA MappedRewrite ==
    ASSUME TypeOK, NEW i, NEW ex \in Exception, Rewrites(i, ex)
    PROVE  /\ i \in 1..MaxExceptions
           /\ Stages[i] = StageOf(exceptions[i].state)
           /\ Outcomes[i] = exceptions[i].resolution
           /\ Stages'   = [Stages EXCEPT ![i] = StageOf(ex.state)]
           /\ Outcomes' = [Outcomes EXCEPT ![i] = ex.resolution]
<1>1. i \in 1..Len(exceptions) /\ Len(exceptions) \in 0..MaxExceptions
  BY RewriteKeeps, Listed
<1>2. /\ Len(exceptions') = Len(exceptions)
      /\ \A j \in 1..Len(exceptions) :
             exceptions'[j] = IF j = i THEN ex ELSE exceptions[j]
  BY RewriteKeeps, Listed
<1>3. i \in 1..MaxExceptions
  BY <1>1, MaxExceptionsAssumption
<1>4. Stages[i] = StageOf(exceptions[i].state) /\ Outcomes[i] = exceptions[i].resolution
  BY <1>1, <1>3 DEF Stages, Outcomes
<1>5. \A n \in 1..MaxExceptions :
          (n <= Len(exceptions') <=> n \in 1..Len(exceptions))
          /\ (n \in 1..Len(exceptions) =>
                  exceptions'[n] = IF n = i THEN ex ELSE exceptions[n])
  BY <1>1, <1>2, MaxExceptionsAssumption
<1>6. Stages' = [Stages EXCEPT ![i] = StageOf(ex.state)]
  <2>1. \A n \in 1..MaxExceptions :
            Stages'[n] = IF n = i THEN StageOf(ex.state) ELSE Stages[n]
    BY <1>1, <1>5, MaxExceptionsAssumption DEF Stages
  <2> QED
    BY <2>1 DEF Stages
<1>7. Outcomes' = [Outcomes EXCEPT ![i] = ex.resolution]
  <2>1. \A n \in 1..MaxExceptions :
            Outcomes'[n] = IF n = i THEN ex.resolution ELSE Outcomes[n]
    BY <1>1, <1>5, MaxExceptionsAssumption DEF Outcomes
  <2> QED
    BY <2>1 DEF Outcomes
<1> QED
  BY <1>3, <1>4, <1>6, <1>7

\* An exception just created is raised under the next number.
LEMMA MappedCreation ==
    ASSUME TypeOK, NEW m, Creates(m)
    PROVE  \E n \in 1..MaxExceptions :
               /\ \A k \in 1..MaxExceptions : k < n => Stages[k] # "absent"
               /\ Stages[n] = "absent"
               /\ Stages'   = [Stages EXCEPT ![n] = "new"]
               /\ Outcomes' = Outcomes
<1> DEFINE n == Len(exceptions) + 1
<1>1. Len(exceptions) \in Nat /\ n \in 1..MaxExceptions
  BY Listed, MaxExceptionsAssumption DEF Creates
<1>2. /\ Len(exceptions') = n
      /\ \A j \in 1..Len(exceptions) : exceptions'[j] = exceptions[j]
      /\ exceptions'[n] = Created(m)
  BY CreationKeeps, Listed
<1>3. exceptions'[n].state = "Detected" /\ exceptions'[n].resolution = NoText
  BY <1>2 DEF Created
<1>4. StageOf("Detected") = "new"
  BY DEF StageOf
<1>5. \A k \in 1..Len(exceptions) : StageOf(exceptions[k].state) # "absent"
  BY Listed DEF Exception, ExceptionState, StageOf
<1>6. \A k \in 1..MaxExceptions : k < n => Stages[k] # "absent"
  BY <1>1, <1>5 DEF Stages
<1>7. Stages[n] = "absent"
  BY <1>1 DEF Stages
<1>8. Stages' = [Stages EXCEPT ![n] = "new"]
  <2>1. \A k \in 1..MaxExceptions : Stages'[k] = IF k = n THEN "new" ELSE Stages[k]
    BY <1>1, <1>2, <1>3, <1>4 DEF Stages
  <2> QED
    BY <2>1 DEF Stages
<1>9. Outcomes' = Outcomes
  BY <1>1, <1>2, <1>3 DEF Outcomes
<1> QED
  BY <1>1, <1>6, <1>7, <1>8, <1>9

\* Where a transition leads in the life cycle.
LEMMA MappedMove ==
    ASSUME TypeOK, NEW i, NEW to \in ExceptionState,
           NEW text \in Resolutions \cup {NoText}, Moves(i, to, text)
    PROVE  /\ i \in 1..MaxExceptions
           /\ \/ /\ Stages[i] = "new" /\ Stages' = [Stages EXCEPT ![i] = "owned"]
                 /\ Outcomes' = Outcomes
              \/ /\ Stages[i] = "owned" /\ Stages' = [Stages EXCEPT ![i] = "resolved"]
                 /\ text \in Resolutions /\ Outcomes' = [Outcomes EXCEPT ![i] = text]
              \/ /\ Stages[i] \in {"new", "owned"}
                 /\ Stages' = [Stages EXCEPT ![i] = "written off"]
                 /\ Outcomes' = Outcomes
              \/ Stages' = Stages /\ Outcomes' = Outcomes
<1>1. i \in DOMAIN exceptions /\ exceptions[i] \in Exception
  BY Listed DEF Moves, Rewrites
<1>2. Moved(i, to, text) \in Exception
  BY <1>1, RewrittenIsException
<1>3. Moved(i, to, text).state = to /\ Moved(i, to, text).resolution = text
  BY <1>1 DEF Moved, Exception
<1>4. /\ i \in 1..MaxExceptions
      /\ Stages[i] = StageOf(exceptions[i].state)
      /\ Outcomes[i] = exceptions[i].resolution
      /\ Stages'   = [Stages EXCEPT ![i] = StageOf(to)]
      /\ Outcomes' = [Outcomes EXCEPT ![i] = text]
  BY <1>2, <1>3, MappedRewrite DEF Moves
<1>5. to # "Resolved" => Outcomes' = Outcomes
  BY <1>4 DEF Moves, Outcomes
<1>6. StageOf(to) = Stages[i] => Stages' = Stages
  BY <1>4 DEF Stages
<1>7. \/ StageOf(exceptions[i].state) = "new" /\ to = "Acknowledged"
      \/ StageOf(exceptions[i].state) = "owned" /\ to \in {"Investigating", "Escalated"}
      \/ StageOf(exceptions[i].state) = "owned" /\ to = "Resolved" /\ text \in Resolutions
      \/ StageOf(exceptions[i].state) \in {"new", "owned"} /\ to = "WrittenOff"
  BY <1>1 DEF Moves, valid_transition, Exception, ExceptionState, StageOf
<1>8. /\ StageOf("Acknowledged") = "owned" /\ StageOf("Investigating") = "owned"
      /\ StageOf("Escalated") = "owned" /\ StageOf("Resolved") = "resolved"
      /\ StageOf("WrittenOff") = "written off"
  BY DEF StageOf
<1> QED
  BY <1>4, <1>5, <1>6, <1>7, <1>8

\* An assignment is not seen in the life cycle.
LEMMA MappedAssignment ==
    ASSUME TypeOK, NEW i, NEW who \in Assignees, Rewrites(i, Assigned(i, who))
    PROVE  Stages' = Stages /\ Outcomes' = Outcomes
<1>1. i \in DOMAIN exceptions /\ exceptions[i] \in Exception
  BY Listed DEF Rewrites
<1>2. /\ Assigned(i, who) \in Exception
      /\ Assigned(i, who).state = exceptions[i].state
      /\ Assigned(i, who).resolution = exceptions[i].resolution
  BY <1>1, RewrittenIsException DEF Assigned, Exception
<1>3. /\ Stages'   = [Stages EXCEPT ![i] = Stages[i]]
      /\ Outcomes' = [Outcomes EXCEPT ![i] = Outcomes[i]]
  BY <1>2, MappedRewrite
<1>4. [Stages EXCEPT ![i] = Stages[i]] = Stages
  BY DEF Stages
<1>5. [Outcomes EXCEPT ![i] = Outcomes[i]] = Outcomes
  BY DEF Outcomes
<1> QED
  BY <1>3, <1>4, <1>5

\* Every step is one of the life cycle, or does not show.
LEMMA LifecycleStep == IInv /\ [Next]_vars => [Lifecycle!Next]_(Lifecycle!vars)
<1> SUFFICES ASSUME IInv, [Next]_vars PROVE [Lifecycle!Next]_(Lifecycle!vars)
  OBVIOUS
<1> USE DEF Stages, Outcomes
<1>1. TypeOK
  BY DEF IInv
<1>2. ASSUME NEW m, Creates(m) PROVE Lifecycle!Next
  BY <1>1, <1>2, MappedCreation
  DEF Lifecycle!Next, Lifecycle!Numbers, Lifecycle!Raise, Lifecycle!Move
<1>3. ASSUME NEW i \in DOMAIN exceptions, NEW to \in ExceptionState,
             NEW text \in Resolutions \cup {NoText}, Moves(i, to, text)
      PROVE  [Lifecycle!Next]_(Lifecycle!vars)
  BY <1>1, <1>3, MappedMove
  DEF Lifecycle!Next, Lifecycle!Numbers, Lifecycle!vars, Lifecycle!TakeOn,
      Lifecycle!Resolve, Lifecycle!WriteOff, Lifecycle!Move
<1>4. ASSUME NEW i \in DOMAIN exceptions, NEW who \in Assignees,
             Rewrites(i, Assigned(i, who))
      PROVE  UNCHANGED Lifecycle!vars
  BY <1>1, <1>4, MappedAssignment DEF Lifecycle!vars
<1>5. CASE ListStands
  BY <1>5 DEF ListStands, Lifecycle!vars
<1> QED
  BY <1>2, <1>3, <1>4, <1>5, StepEffect

\* The workflow implements the life cycle: exceptions are raised under consecutive
\* numbers, taken on, resolved or written off, and closed for good.
THEOREM LifecycleImplemented == Spec => LifecycleSpec
<1>1. Init => Lifecycle!Init
  <2> SUFFICES ASSUME Init PROVE Lifecycle!Init
    OBVIOUS
  <2>1. Len(exceptions) = 0
    BY EmptySeq DEF Init
  <2>2. \A n \in 1..MaxExceptions : ~(n <= Len(exceptions))
    BY <2>1, MaxExceptionsAssumption
  <2>3. Stages = [n \in 1..MaxExceptions |-> "absent"]
    BY <2>2 DEF Stages
  <2>4. Outcomes = [n \in 1..MaxExceptions |-> NoText]
    BY <2>2 DEF Outcomes
  <2> QED
    BY <2>3, <2>4 DEF Lifecycle!Init, Lifecycle!Numbers, Stages, Outcomes
<1> QED
  BY <1>1, Inductive, LifecycleStep, PTL DEF Spec, LifecycleSpec, Lifecycle!Spec

=============================================================================
