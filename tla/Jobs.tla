-------------------------------- MODULE Jobs --------------------------------
(***************************************************************************)
(* The values of package jobs: the row of table gotth_jobs, the requests   *)
(* clients make, and the checks the library and the schema put on both.    *)
(*                                                                         *)
(* Columns kept: those some statement or check branches on.  payload and   *)
(* kind are one opaque `body'; updated_at and last_error are written by    *)
(* every statement and read by none, so they are left out.  Time is the    *)
(* database clock, a natural number of ticks.                              *)
(***************************************************************************)
EXTENDS Integers

CONSTANTS
  Ids,               \* job identifiers; random in the code, ordered as text
  Queues, Keys, Bodies, Workers,
  Tokens,            \* lease tokens; 256 random bits, assumed never to repeat
  NULL,              \* SQL NULL, a nil *T and the zero time.Time
  MaxAttempts,       \* 100 in the code
  MinLeaseDuration, MaxLeaseDuration, MaxRetryDelay

ASSUME IdsAssumption == Ids \subseteq Nat

ASSUME NullAssumption ==
  NULL \notin Nat /\ NULL \notin Tokens /\ NULL \notin Workers
                  /\ NULL \notin Keys /\ NULL \notin Ids

ASSUME LimitsAssumption ==
  /\ MaxAttempts \in Nat
  /\ MinLeaseDuration \in Nat \ {0} /\ MaxLeaseDuration \in Nat
  /\ MaxRetryDelay \in Nat

-----------------------------------------------------------------------------
(* Rows.                                                                   *)

JobState == {"pending", "running", "succeeded", "dead", "canceled"}

\* "none" stands for a row that was never inserted, "purged" for one that the
\* consumer's retention deleted; a random id is never used twice.
RowState == JobState \union {"none", "purged"}

Terminal == {"succeeded", "dead", "canceled"}

Time == Nat

Fingerprint == Queues \X Bodies \X Int \X (Time \union {NULL})

Row == [state        : RowState,
        queue        : Queues \union {NULL},
        key          : Keys \union {NULL},
        fingerprint  : Fingerprint \union {NULL},
        attempts     : Nat,
        max_attempts : Int,
        available_at : Time,
        created_at   : Time,
        token        : Tokens \union {NULL},
        owner        : Workers \union {NULL},
        lease_until  : Time \union {NULL},
        finished_at  : Time \union {NULL}]

NoRow == [state |-> "none", queue |-> NULL, key |-> NULL, fingerprint |-> NULL,
          attempts |-> 0, max_attempts |-> 0, available_at |-> 0,
          created_at |-> 0, token |-> NULL, owner |-> NULL,
          lease_until |-> NULL, finished_at |-> NULL]

Exists(r) == r.state \in JobState

-----------------------------------------------------------------------------
(* Requests.                                                               *)

EnqueueRequest == [queue        : Queues,
                   key          : Keys \union {NULL},
                   body         : Bodies,
                   max_attempts : Int,
                   available_at : Time \union {NULL}]

\* A request whose bounds are not checked reaches the table.
validateEnqueueSkipsBudget(request) == TRUE

validateEnqueue(request) == request.max_attempts \in 1..MaxAttempts

validateClaim(duration) == duration \in MinLeaseDuration..MaxLeaseDuration

validateFailure(permanent, delay) ==
  /\ delay \in 0..MaxRetryDelay
  /\ permanent => delay = 0

\* SHA-256 over length-prefixed fields, taken to be injective.  The key is not
\* part of it.
requestFingerprint(request) ==
  <<request.queue, request.body, request.max_attempts, request.available_at>>

-----------------------------------------------------------------------------
(* The two independent descriptions of a well-formed row: the CHECK         *)
(* constraints of the migration and the validation of every scanned row.    *)

SchemaChecks(r) ==
  /\ r.state \in JobState
  /\ r.attempts \in 0..MaxAttempts
  /\ r.max_attempts \in 1..MaxAttempts /\ r.attempts <= r.max_attempts
  /\ \/ r.state = "pending" /\ r.attempts < r.max_attempts
     \/ r.state \in {"running", "succeeded", "dead"} /\ r.attempts >= 1
     \/ r.state = "canceled"
  /\ \/ r.state = "running" /\ NULL \notin {r.token, r.owner, r.lease_until}
     \/ r.state # "running" /\ {r.token, r.owner, r.lease_until} = {NULL}
  /\ \/ r.state \in Terminal /\ r.finished_at # NULL
     \/ r.state \in {"pending", "running"} /\ r.finished_at = NULL

validateStoredJob(r) ==
  /\ r.attempts >= 0 /\ r.attempts <= r.max_attempts
  /\ r.max_attempts >= 1 /\ r.max_attempts <= MaxAttempts
  /\ ~(r.state = "pending" /\ r.attempts >= r.max_attempts)
  /\ ~(r.state \in {"running", "succeeded", "dead"} /\ r.attempts = 0)
  /\ r.state \in {"pending", "succeeded", "dead", "canceled"}
       => r.token = NULL /\ r.owner = NULL /\ r.lease_until = NULL
  /\ r.state = "running"
       => r.token # NULL /\ r.owner # NULL /\ r.lease_until # NULL
  /\ r.state \in JobState
  /\ (r.state \in Terminal) # (r.finished_at = NULL)
=============================================================================
