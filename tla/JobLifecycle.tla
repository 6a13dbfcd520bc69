---------------------------- MODULE JobLifecycle ----------------------------
(***************************************************************************)
(* What the durable queue promises about each job, with no sessions, locks *)
(* or transactions: how a committed row may move.  JobStore implements it. *)
(***************************************************************************)
EXTENDS Jobs

VARIABLES
  clock,     \* the database clock
  rows,      \* the committed table
  spent      \* every token ever granted

lifecycleVars == <<clock, rows, spent>>

-----------------------------------------------------------------------------
(* The moves of one job, from version r to version n.                      *)

Created(r, n) ==
  /\ r.state = "none" /\ n.state = "pending"
  /\ n.attempts = 0 /\ n.max_attempts \in 1..MaxAttempts

\* Who the job is never changes, and only a new attempt or a redrive touches
\* the count of attempts.
SameJob(r, n) ==
  /\ n.queue = r.queue /\ n.key = r.key /\ n.fingerprint = r.fingerprint
  /\ n.max_attempts = r.max_attempts /\ n.created_at = r.created_at

SameAttempt(r, n) == SameJob(r, n) /\ n.attempts = r.attempts

\* A new attempt is due, is within budget, and has a token nobody ever had.
Attempted(r, n) ==
  /\ \/ r.state = "pending" /\ r.available_at <= clock
     \/ r.state = "running" /\ r.lease_until <= clock
  /\ r.attempts < r.max_attempts
  /\ n.state = "running" /\ n.token \notin spent
  /\ SameJob(r, n) /\ n.attempts = r.attempts + 1

Renewed(r, n) ==
  /\ r.state = "running" /\ n.state = "running"
  /\ SameAttempt(r, n) /\ n.token = r.token

\* The acknowledgement is dated before the lease ran out.
Succeeded(r, n) ==
  /\ r.state = "running" /\ n.state = "succeeded"
  /\ SameAttempt(r, n) /\ n.finished_at < r.lease_until

Failed(r, n) ==
  /\ r.state = "running" /\ SameAttempt(r, n)
  /\ \/ n.state = "pending" /\ r.attempts < r.max_attempts
     \/ n.state = "dead" /\ n.finished_at < r.lease_until

\* A final attempt that nobody acknowledged in time.
Abandoned(r, n) ==
  /\ r.state = "running" /\ r.lease_until <= clock
  /\ r.attempts >= r.max_attempts
  /\ n.state = "dead" /\ SameAttempt(r, n)

Canceled(r, n) ==
  r.state \in {"pending", "running"} /\ n.state = "canceled" /\ SameAttempt(r, n)

Redriven(r, n) ==
  r.state = "dead" /\ n.state = "pending" /\ SameJob(r, n) /\ n.attempts = 0

Purged(r, n) == Exists(r) /\ n.state = "purged"

Move(r, n) ==
  \/ Created(r, n) \/ Attempted(r, n) \/ Renewed(r, n) \/ Succeeded(r, n)
  \/ Failed(r, n) \/ Abandoned(r, n) \/ Canceled(r, n) \/ Redriven(r, n)
  \/ Purged(r, n)

-----------------------------------------------------------------------------
TokensOf(table) == {table[j].token : j \in Ids} \ {NULL}

Init ==
  /\ clock = 0
  /\ rows = [j \in Ids |-> NoRow]
  /\ spent = {}

\* One committed transaction: it may bury several jobs, but it starts at most
\* one attempt.
Transact ==
  /\ \A j \in Ids : rows'[j] = rows[j] \/ Move(rows[j], rows'[j])
  /\ \A i, j \in Ids : Attempted(rows[i], rows'[i]) /\ Attempted(rows[j], rows'[j])
                         => i = j
  /\ spent' = spent \union TokensOf(rows')
  /\ UNCHANGED clock

Tick == clock' = clock + 1 /\ UNCHANGED <<rows, spent>>

Next == Transact \/ Tick

Spec == Init /\ [][Next]_lifecycleVars
=============================================================================
