----------------------------- MODULE Statements -----------------------------
(***************************************************************************)
(* The statements of the repository as functions: for each call c the rows *)
(* its WHERE clause accepts at an instant, the row version its SET clause  *)
(* writes, and what a caller is told whose statement matched no row.       *)
(***************************************************************************)
EXTENDS Jobs

-----------------------------------------------------------------------------
(* Calls.                                                                  *)

LeaseOps  == {"Heartbeat", "Complete", "Fail"}
UpdateOps == LeaseOps \union {"Cancel", "Redrive"}
AllOps    == UpdateOps \union {"Claim", "Enqueue", "Purge"}

NoCall == [op |-> "none", id |-> NULL, token |-> NULL, queue |-> NULL,
           worker |-> NULL, duration |-> 0, permanent |-> FALSE, delay |-> 0,
           request |-> NULL]

-----------------------------------------------------------------------------
(* The WHERE and SET clauses.                                              *)

\* The fence without its token column.
FencedByStateOnly(c, r, now) == r.state = "running" /\ r.lease_until > now

Fenced(c, r, now) ==
  r.state = "running" /\ r.token = c.token /\ r.lease_until > now

\* A cancellation that forgets to ask for an unfinished job.
WhereCancelsAnything(c, r, now) ==
  CASE c.op \in LeaseOps  -> Fenced(c, r, now)
    [] c.op = "Cancel"    -> Exists(r)
    [] c.op = "Redrive"   -> r.state = "dead"
    [] OTHER              -> FALSE

Where(c, r, now) ==
  CASE c.op \in LeaseOps  -> Fenced(c, r, now)
    [] c.op = "Cancel"    -> r.state \in {"pending", "running"}
    [] c.op = "Redrive"   -> r.state = "dead"
    [] OTHER              -> FALSE

\* A budget that is exhausted one attempt late.
ExhaustedOffByOne(c, r, now) ==
  /\ r.state = "running" /\ r.queue = c.queue
  /\ r.lease_until <= now /\ r.attempts > r.max_attempts

Exhausted(c, r, now) ==
  /\ r.state = "running" /\ r.queue = c.queue
  /\ r.lease_until <= now /\ r.attempts >= r.max_attempts

\* A reclaim that does not ask for budget left.
EligiblePastBudget(c, r, now) ==
  /\ r.state \in {"pending", "running"} /\ r.queue = c.queue
  /\ \/ r.state = "pending" /\ r.available_at <= now
     \/ r.state = "running" /\ r.lease_until <= now

Eligible(c, r, now) ==
  /\ r.state \in {"pending", "running"} /\ r.queue = c.queue
  /\ \/ r.state = "pending" /\ r.available_at <= now
     \/ r.state = "running" /\ r.lease_until <= now /\ r.attempts < r.max_attempts

Unleased(r) == [r EXCEPT !.token = NULL, !.owner = NULL, !.lease_until = NULL]

\* A finished job that keeps its lease.
FinishKeepsLease(r, state, now) ==
  [r EXCEPT !.state = state, !.finished_at = now]

Finish(r, state, now) ==
  [Unleased(r) EXCEPT !.state = state, !.finished_at = now]

heartbeatSQL(c, r, now) == [r EXCEPT !.lease_until = now + c.duration]

completeSQL(c, r, now) == Finish(r, "succeeded", now)

\* One attempt too many: the budget test off by one.
failSQLOffByOne(c, r, now) ==
  IF c.permanent \/ r.attempts > r.max_attempts
  THEN Finish(r, "dead", now)
  ELSE [Unleased(r) EXCEPT !.state = "pending", !.available_at = now + c.delay]

failSQL(c, r, now) ==
  IF c.permanent \/ r.attempts >= r.max_attempts
  THEN Finish(r, "dead", now)
  ELSE [Unleased(r) EXCEPT !.state = "pending", !.available_at = now + c.delay]

cancelSQL(c, r, now) == Finish(r, "canceled", now)

\* A redrive that leaves the spent budget in place.
redriveSQLKeepsAttempts(c, r, now) ==
  [Unleased(r) EXCEPT !.state = "pending", !.available_at = now,
                      !.finished_at = NULL]

redriveSQL(c, r, now) ==
  [Unleased(r) EXCEPT !.state = "pending", !.attempts = 0,
                      !.available_at = now, !.finished_at = NULL]

Updated(c, r, now) ==
  CASE c.op = "Heartbeat" -> heartbeatSQL(c, r, now)
    [] c.op = "Complete"  -> completeSQL(c, r, now)
    [] c.op = "Fail"      -> failSQL(c, r, now)
    [] c.op = "Cancel"    -> cancelSQL(c, r, now)
    [] c.op = "Redrive"   -> redriveSQL(c, r, now)

\* The two UPDATEs of claimSQL.
Buried(r, now) == Finish(r, "dead", now)

\* An attempt that is not counted.
GrantedUncounted(c, r, now) ==
  [r EXCEPT !.state = "running", !.token = c.token, !.owner = c.worker,
            !.lease_until = now + c.duration, !.finished_at = NULL]

Granted(c, r, now) ==
  [r EXCEPT !.state = "running", !.attempts = @ + 1, !.token = c.token,
            !.owner = c.worker, !.lease_until = now + c.duration,
            !.finished_at = NULL]

\* The insertion without COALESCE.
InsertedUndated(request, now) ==
  [NoRow EXCEPT
     !.state = "pending", !.queue = request.queue, !.key = request.key,
     !.fingerprint = requestFingerprint(request),
     !.max_attempts = request.max_attempts, !.created_at = now,
     !.available_at = request.available_at]

Inserted(request, now) ==
  [NoRow EXCEPT
     !.state = "pending", !.queue = request.queue, !.key = request.key,
     !.fingerprint = requestFingerprint(request),
     !.max_attempts = request.max_attempts, !.created_at = now,
     !.available_at = IF request.available_at = NULL THEN now
                      ELSE request.available_at]

-----------------------------------------------------------------------------
(* Rejected calls.                                                         *)

\* What a call is told whose statement found no row: the row r on a later
\* snapshot decides.
classifyLease(r) ==
  CASE r.state = "canceled"               -> "ErrCanceled"
    [] r.state \in JobState \ {"canceled"} -> "ErrLeaseLost"
    [] OTHER                              -> "ErrNotFound"

\* A cancellation that takes every finished job for a canceled one.
ClassifiedFinished(c, r) ==
  CASE c.op \in LeaseOps                            -> classifyLease(r)
    [] c.op \notin LeaseOps /\ ~Exists(r)           -> "ErrNotFound"
    [] c.op = "Cancel" /\ r.state \in Terminal      -> "ok"
    [] OTHER                                        -> "ErrStateConflict"

Classified(c, r) ==
  CASE c.op \in LeaseOps                            -> classifyLease(r)
    [] c.op \notin LeaseOps /\ ~Exists(r)           -> "ErrNotFound"
    [] c.op = "Cancel" /\ r.state = "canceled"      -> "ok"
    [] OTHER                                        -> "ErrStateConflict"
=============================================================================
