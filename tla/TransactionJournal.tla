------------------------- MODULE TransactionJournal -------------------------
(***************************************************************************)
(* The transaction journal of the receipt store and the operator's lists   *)
(* of it (src/storage/receipts/store.ts, rows.ts; the HTTP side is         *)
(* src/gateway/routes.ts).  A row caches the state derived when it was     *)
(* last written.  The state also depends on the clock, so the lists select *)
(* candidates by the cached state and filter them by the derived one.  An  *)
(* operator walks a list page by page while rows are written.              *)
(*                                                                         *)
(* A row's place in the sequence is its seq, and the id of its attempt.    *)
(***************************************************************************)
EXTENDS TransactionState, Naturals, Sequences, FiniteSets, FiniteSetsExt

CONSTANTS
    Key,       \* replay keys
    NewHolds,  \* marks of a new row's hold: "none" without an authorization
    MaxRows,   \* bound on the journal
    Query,     \* the filters an operator asks for
    Limit,     \* page size after clampListLimit
    MaxTime    \* bound on the clock

VARIABLES
    now,       \* the clock
    journal,   \* transactions, each joined with its attempt
    live,      \* the row of each key's current attempt, 0 when there is none
    walk,      \* the operator's walk through a list
    steady     \* history: rows that matched the walk's filter ever since it began

vars == <<now, journal, live, walk, steady>>

Status == {"reserved", "settled", "rejected", "settlement-uncertain"}

\* A hold is open while reserved or uncertain, closed once consumed or released.
HoldMark == {"none", "open", "closed"}

\* deadline 0 stands for a backend call that was never recorded.
JournalEntry ==
    [key : Key, status : Status, resolved : BOOLEAN, backend : BackendFact,
     deadline : 0..(MaxTime + 1), completed : BOOLEAN, hold : HoldMark,
     cached : TransactionStates]

Filter ==
    [state : TransactionStates \cup {"any"}, unresolved : BOOLEAN, pendingHold : BOOLEAN]
NoFilter == [state |-> "any", unresolved |-> FALSE, pendingHold |-> FALSE]

ASSUME JournalConstants ==
    /\ {MaxRows, MaxTime} \subseteq Nat
    /\ Limit \in Nat \ {0}
    /\ Query \subseteq Filter
    /\ NewHolds \subseteq {"none", "open"}

Idle == [on |-> FALSE, filter |-> NoFilter, cursor |-> MaxRows + 1, got |-> <<>>]

Init ==
    /\ now = 0
    /\ journal = <<>>
    /\ live = [k \in Key |-> 0]
    /\ walk = Idle
    /\ steady = {}

\* rowToTransaction: the state of a row as of a reading of the clock.
Derived(row, at) ==
    TransactionStateOf(row.status, row.backend, row.completed, at < row.deadline)

Refreshed(row) == [row EXCEPT !.cached = Derived(row, now)]

-----------------------------------------------------------------------------
(* Writes: each is one database transaction that refreshes the cache.      *)

\* reserve with its journal row; a rejected attempt is archived and replaced.
Reserve(k, hold) ==
    /\ Len(journal) < MaxRows
    /\ live[k] # 0 => journal[live[k]].status = "rejected"
    /\ journal' = Append(journal,
          [key |-> k, status |-> "reserved", resolved |-> FALSE, backend |-> "none",
           deadline |-> 0, completed |-> FALSE, hold |-> hold,
           cached |-> "payment-pending"])
    /\ live' = [live EXCEPT ![k] = Len(journal) + 1]
    /\ UNCHANGED <<now, walk>>

\* updateAttempt, by replay key: the row of the key's current attempt.
Update(k, status) ==
    /\ live[k] # 0
    /\ ~journal[live[k]].resolved
    /\ journal' = [journal EXCEPT ![live[k]] = Refreshed([@ EXCEPT !.status = status])]
    /\ UNCHANGED <<now, live, walk>>

\* resolveAttempt, by attempt id: only a current attempt can be resolved.
Resolve(i, status) ==
    /\ \E k \in Key : live[k] = i
    /\ ~journal[i].resolved
    /\ journal' = [journal EXCEPT ![i] =
          Refreshed([@ EXCEPT !.status = status, !.resolved = TRUE])]
    /\ UNCHANGED <<now, live, walk>>

\* recordStep.
Step(i, row) ==
    /\ journal' = [journal EXCEPT ![i] = Refreshed(row)]
    /\ UNCHANGED <<now, live, walk>>

RecordHold(i, hold) ==
    /\ journal[i].hold # "none"
    /\ Step(i, [journal[i] EXCEPT !.hold = hold])

RecordDispatch(i, deadline) ==
    /\ journal[i].backend = "none"
    /\ ~journal[i].completed
    /\ Step(i, [journal[i] EXCEPT !.backend = "pending", !.deadline = deadline])

\* A result whose dispatch was not saved takes its own time for the deadline.
RecordResult(i, result) ==
    /\ journal[i].backend \in {"none", "pending"}
    /\ ~journal[i].completed
    /\ Step(i, [journal[i] EXCEPT
          !.backend = result,
          !.deadline = IF journal[i].backend = "none" THEN now ELSE @])

RecordCompleted(i) ==
    /\ ~journal[i].completed
    /\ Step(i, [journal[i] EXCEPT !.completed = TRUE])

Tick ==
    /\ now < MaxTime
    /\ now' = now + 1
    /\ UNCHANGED <<journal, live, walk>>

-----------------------------------------------------------------------------
(* Lists.                                                                  *)

TimeDependent(row) == row.deadline # 0 /\ ~row.completed

\* Mutant: the state filter selects by the cached state alone.
SelectedByCache(row, f) ==
    /\ f.state = "any" \/ row.cached = f.state
    /\ f.pendingHold => row.hold = "open"
    /\ f.unresolved => row.cached \notin ResolvedStates

\* The WHERE clause, which sees the cached state only.
Selected(row, f) ==
    /\ f.state = "any" \/ row.cached = f.state \/ TimeDependent(row)
    /\ f.pendingHold => row.hold = "open"
    /\ f.unresolved => row.cached \notin ResolvedStates

\* The filter on the derived state.
Kept(row, f) ==
    /\ f.state = "any" \/ Derived(row, now) = f.state
    /\ f.unresolved => Derived(row, now) \notin ResolvedStates

Newest(S) == {i \in S : Cardinality({j \in S : j > i}) < Limit}

\* The query parses and a walk begins at the newest row.
OpenWalk(f) ==
    /\ ~walk.on
    /\ walk' = [Idle EXCEPT !.on = TRUE, !.filter = f]
    /\ UNCHANGED <<now, journal, live>>

\* A bad flag, a limit below 1 or an unknown state is INPUT_INVALID, never an
\* unfiltered list.
RefuseQuery ==
    /\ ~walk.on
    /\ UNCHANGED <<now, journal, live, walk>>

\* Mutant: the cursor follows the rows returned, not the rows read.
NextCursorOfReturned(page, returned) ==
    IF Cardinality(returned) = Limit THEN Min(returned) ELSE 0

NextCursor(page, returned) == IF Cardinality(page) = Limit THEN Min(page) ELSE 0

Beyond(i) == i < walk.cursor

\* listTransactions: one page.
ReadPage ==
    LET page == Newest({i \in DOMAIN journal : Beyond(i) /\ Selected(journal[i], walk.filter)})
        returned == {i \in page : Kept(journal[i], walk.filter)}
    IN  /\ walk.on
        /\ walk.cursor # 0
        /\ walk' = [walk EXCEPT !.got = Append(@, returned),
                                !.cursor = NextCursor(page, returned)]
        /\ UNCHANGED <<now, journal, live>>

\* The last page carried no cursor.
CloseWalk ==
    /\ walk.on
    /\ walk.cursor = 0
    /\ walk' = Idle
    /\ UNCHANGED <<now, journal, live>>

Write ==
    \/ \E k \in Key, hold \in NewHolds : Reserve(k, hold)
    \/ \E k \in Key, status \in Status \ {"reserved"} : Update(k, status)
    \/ \E i \in DOMAIN journal :
          \/ \E status \in {"settled", "rejected"} : Resolve(i, status)
          \/ \E hold \in {"open", "closed"} : RecordHold(i, hold)
          \/ RecordDispatch(i, now + 1)
          \/ \E result \in {"zero", "ok", "error"} : RecordResult(i, result)
          \/ RecordCompleted(i)

Matching(f) ==
    {i \in DOMAIN journal :
        /\ f.state = "any" \/ Derived(journal[i], now) = f.state
        /\ f.unresolved => Derived(journal[i], now) \notin ResolvedStates
        /\ f.pendingHold => journal[i].hold = "open"}

Next ==
    \/ /\ \E f \in Query : OpenWalk(f) /\ steady' = Matching(f)
    \/ /\ Write \/ Tick \/ ReadPage \/ RefuseQuery
       /\ steady' = steady \cap Matching(walk.filter)'
    \/ CloseWalk /\ steady' = {}

Spec == Init /\ [][Next]_vars

-----------------------------------------------------------------------------
(* Properties.                                                             *)

\* The lists and `summary` select by the cached state, and a deadline passes
\* without a write.  Yet `unresolved=true` misses no purchase and counts none too
\* many, and `state=s` misses none whose state became s by the clock alone.
CacheHidesNothing ==
    LET Candidates(f) == {i \in DOMAIN journal : Selected(journal[i], f)}
        unresolved == [NoFilter EXCEPT !.unresolved = TRUE]
    IN  /\ Candidates(unresolved) = Matching(unresolved)
        /\ \A s \in TransactionStates :
              LET f == [NoFilter EXCEPT !.state = s] IN Matching(f) \subseteq Candidates(f)

\* A walk to the end returns every purchase that matched its filter from the
\* first page to the last, whatever was written meanwhile.
WalkMissesNothing ==
    walk.on /\ walk.cursor = 0 => steady \subseteq UNION {walk.got[n] : n \in DOMAIN walk.got}

=============================================================================
