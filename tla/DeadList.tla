------------------------------ MODULE DeadList ------------------------------
(***************************************************************************)
(* ListDead, walked page by page with its (finished_at, id) cursor, while  *)
(* jobs are buried, redriven, claimed again and deleted.  A burial takes   *)
(* its finished_at when its statement runs and shows when it commits, so a *)
(* job can appear behind a cursor that has passed its place.               *)
(***************************************************************************)
EXTENDS Statements, SequencesExt

CONSTANTS
  Queue, Lease,      \* the queue and the lease token of the instance
  Limits,            \* the page limits callers ask for, valid or not
  MaxDeadPage,       \* 100 in the code
  MaxTime            \* bound on the clock

\* The table is finite, and a cursor is not NULL.
ASSUME DeadListAssumption ==
  /\ IsFiniteSet(Ids) /\ NULL \notin Nat \X Ids
  /\ Lease \in Tokens /\ Workers # {} /\ MaxAttempts >= 1
  /\ Limits \subseteq Int /\ MaxDeadPage \in Nat /\ MaxTime \in Nat

VARIABLES
  clock, rows,
  open,              \* burials not yet committed, NoRow for none
  phase,             \* of the walk: "idle", "walking", "done", "failed"
  limit, cursor,     \* the arguments of the next ListDead
  listed,            \* the (finished_at, id) the pages showed, in order
  throughout         \* history: dead ever since the walk began

tableVars == <<clock, rows, open>>
walkVars  == <<phase, limit, cursor, listed>>
vars      == <<tableVars, walkVars, throughout>>

-----------------------------------------------------------------------------
(* The query.                                                              *)

Dead(queue) == {j \in Ids : rows[j].state = "dead" /\ rows[j].queue = queue}

DeadCursor(j) == <<rows[j].finished_at, j>>

Precedes(a, b) == a[1] < b[1] \/ (a[1] = b[1] /\ a[2] < b[2])

\* A cursor that compares timestamps alone.
BeyondByTime(c, j) == c = NULL \/ c[1] < DeadCursor(j)[1]

\* A cursor that is not exclusive.
BeyondOrAt(c, j) == c = NULL \/ c = DeadCursor(j) \/ Precedes(c, DeadCursor(j))

Beyond(c, j) == c = NULL \/ Precedes(c, DeadCursor(j))

\* The rows in the order of finished_at and id.
Ordered(jobs) ==
  CHOOSE s \in SetToSeqs(jobs) :
    \A i, k \in DOMAIN s : i < k => Precedes(DeadCursor(s[i]), DeadCursor(s[k]))

listDeadSQL(queue, c, n) ==
  LET found == Ordered({j \in Dead(queue) : Beyond(c, j)})
  IN SubSeq(found, 1, IF n < Len(found) THEN n ELSE Len(found))

\* scanJob accepts the row.
scanJob(j) ==
  /\ NULL \notin {rows[j].available_at, rows[j].created_at}
  /\ validateStoredJob(rows[j])

validLimit(n) == n \in 1..MaxDeadPage

-----------------------------------------------------------------------------
(* The walk.                                                               *)

Begin ==
  /\ phase = "idle"
  /\ limit' \in {n \in Limits : validLimit(n)}
  /\ phase' = "walking" /\ cursor' = NULL /\ listed' = <<>>
  /\ throughout' = Dead(Queue)
  /\ UNCHANGED tableVars

\* One ListDead.  A short page is the last; one unreadable row fails its page.
ListDead ==
  LET page == listDeadSQL(Queue, cursor, limit)
      jobs == IF \A i \in DOMAIN page : scanJob(page[i]) THEN page ELSE <<>>
  IN
  /\ phase = "walking"
  /\ phase' = CASE jobs # page                       -> "failed"
                [] jobs = page /\ Len(page) < limit  -> "done"
                [] OTHER                              -> "walking"
  /\ listed' = listed \o [i \in DOMAIN jobs |-> DeadCursor(jobs[i])]
  /\ cursor' = IF jobs = <<>> THEN cursor ELSE DeadCursor(Last(jobs))
  /\ UNCHANGED <<tableVars, limit, throughout>>

-----------------------------------------------------------------------------
(* The table.                                                              *)

Call(op, j) ==
  [NoCall EXCEPT !.op = op, !.id = j, !.token = Lease, !.queue = Queue,
                 !.worker = CHOOSE w \in Workers : TRUE,
                 !.permanent = TRUE, !.duration = MaxTime + 1]

\* A statement on a row no open burial has locked.
Writes(j, r) ==
  /\ open[j] = NoRow
  /\ rows' = [rows EXCEPT ![j] = r]
  /\ throughout' = throughout \ {j}
  /\ UNCHANGED <<clock, open, walkVars>>

Claim(j) ==
  /\ Eligible(Call("Claim", j), rows[j], clock)
  /\ Writes(j, Granted(Call("Claim", j), rows[j], clock))

Redrive(j) ==
  /\ Where(Call("Redrive", j), rows[j], clock)
  /\ Writes(j, Updated(Call("Redrive", j), rows[j], clock))

Purge(j) == Exists(rows[j]) /\ Writes(j, [NoRow EXCEPT !.state = "purged"])

\* A permanent Fail up to its commit, and the commit.
Fail(j) ==
  /\ open[j] = NoRow /\ Where(Call("Fail", j), rows[j], clock)
  /\ open' = [open EXCEPT ![j] = Updated(Call("Fail", j), rows[j], clock)]
  /\ UNCHANGED <<clock, rows, walkVars, throughout>>

Commit(j) ==
  /\ open[j] # NoRow
  /\ rows' = [rows EXCEPT ![j] = open[j]]
  /\ open' = [open EXCEPT ![j] = NoRow]
  /\ UNCHANGED <<clock, walkVars, throughout>>

Tick ==
  /\ clock < MaxTime /\ clock' = clock + 1
  /\ UNCHANGED <<rows, open, walkVars, throughout>>

-----------------------------------------------------------------------------
Init ==
  /\ clock = 0
  /\ rows \in [Ids -> {Inserted([queue |-> Queue, key |-> NULL, body |-> b,
                                 max_attempts |-> 1, available_at |-> NULL], 0) :
                         b \in Bodies}]
  /\ open = [j \in Ids |-> NoRow]
  /\ phase = "idle" /\ limit = 1 /\ cursor = NULL /\ listed = <<>>
  /\ throughout = {}

Next ==
  \/ Begin \/ ListDead \/ Tick
  \/ \E j \in Ids : Claim(j) \/ Fail(j) \/ Commit(j) \/ Redrive(j) \/ Purge(j)

Spec == Init /\ [][Next]_vars

-----------------------------------------------------------------------------
(* Correctness.                                                            *)

\* A job that was dead when the walk began and still is has been shown, though
\* others with the same finished_at share its page boundary and others leave
\* or enter the list between two pages.
WalkComplete ==
  phase = "done" => \A j \in throughout : \E i \in DOMAIN listed : listed[i][2] = j

\* The pages together are in order, and no death is shown twice.
WalkOrdered ==
  \A i \in 1..(Len(listed) - 1) : Precedes(listed[i], listed[i + 1])

\* No row that the repository's own statements leave makes a page fail: one
\* such row would hide every dead job behind it.
WalkReadable == phase # "failed"
=============================================================================
