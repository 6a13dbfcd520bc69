------------------------------ MODULE JobStore ------------------------------
(***************************************************************************)
(* The PostgreSQL repository of package jobs: every mutating operation as  *)
(* the transaction `transact' runs, interleaved with the transactions of   *)
(* every other client of the table.                                        *)
(*                                                                         *)
(* A session is one call of an operation, on its own connection.  It goes  *)
(* through the phases                                                      *)
(*                                                                         *)
(*   idle      no call                                                     *)
(*   scanned   the first statement has read its snapshot and found rows it *)
(*             wants; it does not hold their locks yet                     *)
(*   rejected  the first statement returned no row; a second one decides   *)
(*             what the caller is told                                     *)
(*   commit    the body is done: new row versions are pending, their locks *)
(*             are held, COMMIT is next                                    *)
(*   doubt     the caller was told ErrCommitOutcomeUnknown; the server has *)
(*             not yet applied or discarded the transaction                *)
(*   returned  the caller has its reply                                    *)
(*                                                                         *)
(* What PostgreSQL itself does (Read Committed snapshots, row locks, the   *)
(* re-check of a row that changed under a waiting statement) is external   *)
(* and modelled from the statements the repository sends.                  *)
(***************************************************************************)
EXTENDS Statements, FiniteSets

CONSTANTS
  Sessions,          \* concurrent calls
  Operations,        \* the operations clients use in an instance
  Requests,          \* the requests given to Enqueue, valid or not
  LeaseDurations,    \* the durations given to Claim and Heartbeat, valid or not
  RetryDelays,       \* the delays given to Fail, valid or not
  SweepLimit,        \* LIMIT of the expired_exhausted sweep, 100 in the code
  MaxTime            \* bound on the clock

ASSUME StoreAssumption ==
  /\ Requests \subseteq EnqueueRequest
  /\ LeaseDurations \subseteq Int /\ RetryDelays \subseteq Int
  /\ SweepLimit \in Nat /\ MaxTime \in Nat

VARIABLES
  clock,             \* clock_timestamp() of the database
  rows,              \* the committed table
  txn,               \* the transaction of each session
  leases,            \* every lease Claim has put into a caller's hands
  settled,           \* history: how each attempt ended, per committed step
  grants             \* history: claims committed per job since its last reset

vars == <<clock, rows, txn, leases, settled, grants>>

-----------------------------------------------------------------------------
(* Calls and sessions.                                                     *)

NoRows == [j \in Ids |-> NoRow]

Idle == [phase |-> "idle", call |-> NoCall, reply |-> "none",
         at |-> 0, seen |-> NoRows, stale |-> {},
         writes |-> NoRows, shared |-> {}]

\* Rows the session's statement matched, and rows it has pending versions of.
Matched(s) == {j \in Ids : txn[s].seen[j].state # "none"}
Written(s) == {j \in Ids : txn[s].writes[j].state # "none"}

-----------------------------------------------------------------------------
(* Row locks (PostgreSQL).  A lock is held from the statement that takes it *)
(* until its transaction ends.                                              *)

LockHeld(p, j) ==
  CASE j \in Written(p) /\ txn[p].call.op = "Claim" -> "ForUpdate"
    [] j \in Written(p) /\ txn[p].call.op # "Claim" -> "NoKeyUpdate"
    [] j \notin Written(p) /\ j \in txn[p].shared   -> "KeyShare"
    [] OTHER                                        -> "none"

LockConflicts ==
  {<<"KeyShare", "ForUpdate">>, <<"ForUpdate", "KeyShare">>,
   <<"NoKeyUpdate", "NoKeyUpdate">>, <<"NoKeyUpdate", "ForUpdate">>,
   <<"ForUpdate", "NoKeyUpdate">>, <<"ForUpdate", "ForUpdate">>}

Lockable(s, j, mode) ==
  \A p \in Sessions \ {s} : <<LockHeld(p, j), mode>> \notin LockConflicts

-----------------------------------------------------------------------------
(* Statements that address one row by id: scan, then lock and write.       *)

\* BeginTx and the snapshot of the first statement.
Scan(s, c) ==
  /\ txn[s].phase = "idle"
  /\ c.op \in Operations
  /\ LET hit == Where(c, rows[c.id], clock) IN
     txn' = [txn EXCEPT ![s] =
       [Idle EXCEPT !.call = c,
                    !.phase = IF hit THEN "scanned" ELSE "rejected",
                    !.at = clock,
                    !.seen = IF hit THEN [NoRows EXCEPT ![c.id] = rows[c.id]]
                             ELSE NoRows]]
  /\ UNCHANGED <<clock, rows, leases, settled, grants>>

Heartbeat(s) ==
  \E l \in leases, d \in LeaseDurations :
    /\ validateClaim(d)
    /\ Scan(s, [NoCall EXCEPT !.op = "Heartbeat", !.id = l.id,
                              !.token = l.token, !.duration = d])

Complete(s) ==
  \E l \in leases :
    Scan(s, [NoCall EXCEPT !.op = "Complete", !.id = l.id, !.token = l.token])

Fail(s) ==
  \E l \in leases, permanent \in BOOLEAN, delay \in RetryDelays :
    /\ validateFailure(permanent, delay)
    /\ Scan(s, [NoCall EXCEPT !.op = "Fail", !.id = l.id, !.token = l.token,
                              !.permanent = permanent, !.delay = delay])

Cancel(s) ==
  \E j \in Ids : Scan(s, [NoCall EXCEPT !.op = "Cancel", !.id = j])

Redrive(s) ==
  \E j \in Ids : Scan(s, [NoCall EXCEPT !.op = "Redrive", !.id = j])

\* The statement gets its row lock.  If another transaction committed a new
\* version of the row in between, PostgreSQL evaluates WHERE and SET again on
\* it; if not, the values computed at the scan stand, however long the wait.
UpdateRow(s) ==
  LET c == txn[s].call
      r == rows[c.id]
      again == c.id \in txn[s].stale
      now == IF again THEN clock ELSE txn[s].at
  IN
  /\ txn[s].phase = "scanned" /\ c.op \in UpdateOps
  /\ Lockable(s, c.id, "NoKeyUpdate")
  /\ \/ /\ again => Where(c, r, now)
        /\ txn' = [txn EXCEPT ![s] =
             [Idle EXCEPT !.call = c, !.phase = "commit", !.reply = "ok",
                          !.writes = [NoRows EXCEPT ![c.id] = Updated(c, r, now)]]]
     \/ /\ again /\ ~Where(c, r, now)
        /\ txn' = [txn EXCEPT ![s] =
             [Idle EXCEPT !.call = c, !.phase = "rejected"]]
  /\ UNCHANGED <<clock, rows, leases, settled, grants>>

\* The second statement of a rejected call, on a snapshot of its own.
Reject(s) ==
  LET c == txn[s].call
      reply == Classified(c, rows[c.id])
  IN
  /\ txn[s].phase = "rejected" /\ c.op \in UpdateOps
  /\ txn' = [txn EXCEPT ![s] =
       [Idle EXCEPT !.call = c, !.reply = reply,
                    !.phase = IF reply = "ok" THEN "commit" ELSE "returned"]]
  /\ UNCHANGED <<clock, rows, leases, settled, grants>>

-----------------------------------------------------------------------------
(* Claim.                                                                  *)

FreshTokens ==
  Tokens \ ({l.token : l \in leases} \union {txn[p].call.token : p \in Sessions})

\* BeginTx and the snapshot of claimSQL: the rows its two locking CTEs walk.
ClaimScan(s, c) ==
  /\ txn[s].phase = "idle" /\ "Claim" \in Operations
  /\ txn' = [txn EXCEPT ![s] =
       [Idle EXCEPT !.call = c, !.phase = "scanned", !.at = clock,
                    !.seen = [j \in Ids |->
                                IF \/ Exhausted(c, rows[j], clock)
                                   \/ Eligible(c, rows[j], clock)
                                THEN rows[j] ELSE NoRow]]]
  /\ UNCHANGED <<clock, rows, leases, settled, grants>>

Claim(s) ==
  \E queue \in Queues, worker \in Workers, d \in LeaseDurations, t \in FreshTokens :
    /\ validateClaim(d)
    /\ ClaimScan(s, [NoCall EXCEPT !.op = "Claim", !.queue = queue,
                                   !.worker = worker, !.duration = d, !.token = t])

\* ORDER BY ..., created_at, id of both CTEs, on the version the snapshot saw.
ClaimOrder(j, r) ==
  <<IF r.state = "pending" THEN r.available_at ELSE r.lease_until, r.created_at, j>>

Precedes(a, b) ==
  \/ a[1] < b[1]
  \/ a[1] = b[1] /\ a[2] < b[2]
  \/ a[1] = b[1] /\ a[2] = b[2] /\ a[3] < b[3]

Before(i, j, seen) == Precedes(ClaimOrder(i, seen[i]), ClaimOrder(j, seen[j]))

\* ORDER BY ... LIMIT 1 over the rows in S: at most one.
First(S, seen) == {j \in S : \A i \in S \ {j} : Before(j, i, seen)}

\* ORDER BY ... LIMIT n.
Firsts(S, n, seen) ==
  {j \in S : Cardinality({i \in S \ {j} : Before(i, j, seen)}) < n}

\* The candidate query without its FOR UPDATE SKIP LOCKED.
ClaimLockOmitted == "none"

\* The row lock both CTEs ask for.
ClaimLock == "ForUpdate"

\* FOR UPDATE SKIP LOCKED: a row somebody has locked is passed over, and a row
\* that changed since the snapshot must still satisfy the CTE's own WHERE.
Sweepable(s) ==
  {j \in Matched(s) :
     /\ Exhausted(txn[s].call, txn[s].seen[j], txn[s].at)
     /\ Lockable(s, j, ClaimLock)
     /\ j \in txn[s].stale => Exhausted(txn[s].call, rows[j], clock)}

Claimable(s) ==
  {j \in Matched(s) :
     /\ Eligible(txn[s].call, txn[s].seen[j], txn[s].at)
     /\ Lockable(s, j, ClaimLock)
     /\ j \in txn[s].stale => Eligible(txn[s].call, rows[j], clock)}

\* The locks, the sweep of exhausted attempts and the grant.
ClaimRows(s) ==
  LET c == txn[s].call
      sweep == Firsts(Sweepable(s), SweepLimit, txn[s].seen)
      pick == First(Claimable(s), txn[s].seen)
  IN
  /\ txn[s].phase = "scanned" /\ c.op = "Claim"
  /\ txn' = [txn EXCEPT ![s] =
       [Idle EXCEPT
          !.call = [c EXCEPT !.id = IF pick = {} THEN NULL
                                    ELSE CHOOSE j \in pick : TRUE],
          !.phase = "commit",
          !.reply = IF pick = {} THEN "ErrNoJob" ELSE "ok",
          !.writes = [j \in Ids |->
            CASE j \in pick            -> Granted(c, rows[j], clock)
              [] j \in sweep \ pick    -> Buried(rows[j], clock)
              [] OTHER                 -> NoRow]]]
  /\ UNCHANGED <<clock, rows, leases, settled, grants>>

-----------------------------------------------------------------------------
(* Enqueue and EnqueueTx: enqueuePrepared inside one transaction.          *)

SameKey(r, request) ==
  Exists(r) /\ request.key # NULL /\ r.queue = request.queue /\ r.key = request.key

\* A unique index that does not see the rows of open transactions.
KeyInFlightUnseen(s, request) == FALSE

\* Another open transaction has inserted the key: the INSERT waits for it.
KeyInFlight(s, request) ==
  \E p \in Sessions \ {s} : /\ txn[p].call.op = "Enqueue"
                            /\ \E j \in Written(p) :
                                 SameKey(txn[p].writes[j], request)

\* INSERT ... ON CONFLICT DO NOTHING, with a new random id.
Insert(s, c, id) ==
  /\ txn[s].phase = "idle" /\ "Enqueue" \in Operations
  /\ ~KeyInFlight(s, c.request)
  /\ \/ /\ \A j \in Ids : ~SameKey(rows[j], c.request)
        /\ rows[id].state = "none" /\ \A p \in Sessions : id \notin Written(p)
        /\ txn' = [txn EXCEPT ![s] =
             [Idle EXCEPT !.call = [c EXCEPT !.id = id], !.phase = "commit",
                          !.reply = "ok",
                          !.writes = [NoRows EXCEPT ![id] = Inserted(c.request, clock)]]]
     \/ /\ \E j \in Ids : SameKey(rows[j], c.request)
        /\ txn' = [txn EXCEPT ![s] = [Idle EXCEPT !.call = c, !.phase = "rejected"]]
  /\ UNCHANGED <<clock, rows, leases, settled, grants>>

Enqueue(s) ==
  \E request \in Requests, id \in Ids :
    /\ validateEnqueue(request)
    /\ Insert(s, [NoCall EXCEPT !.op = "Enqueue", !.request = request], id)

\* The fallback read without FOR KEY SHARE.
RetainedNothing(j) == {}

\* The row whose key FOR KEY SHARE retains until the transaction ends.
Retained(j) == {j}

\* A comparison that looks at the key alone.
SameRequestByKey(r, request) == SameKey(r, request)

SameRequest(r, request) == r.fingerprint = requestFingerprint(request)

\* idempotentJobSQL on a fresh snapshot, and the comparison of fingerprints.
ReadIdempotent(s) ==
  LET c == txn[s].call IN
  /\ txn[s].phase = "rejected" /\ c.op = "Enqueue"
  /\ \/ /\ \A j \in Ids : ~SameKey(rows[j], c.request)
        /\ txn' = [txn EXCEPT ![s] =
             [Idle EXCEPT !.call = c, !.phase = "returned", !.reply = "error"]]
     \/ \E j \in Ids :
        /\ SameKey(rows[j], c.request)
        /\ Lockable(s, j, "KeyShare")
        /\ txn' = [txn EXCEPT ![s] =
             IF SameRequest(rows[j], c.request)
             THEN [Idle EXCEPT !.call = [c EXCEPT !.id = j], !.phase = "commit",
                               !.reply = "ok", !.shared = Retained(j)]
             ELSE [Idle EXCEPT !.call = c, !.phase = "returned",
                               !.reply = "ErrIdempotencyConflict"]]
  /\ UNCHANGED <<clock, rows, leases, settled, grants>>

-----------------------------------------------------------------------------
(* The end of a transaction.                                               *)

\* Attempts that end when s commits: the one an acknowledgement names, and
\* every other one whose token the commit removes from its row.
Endings(s) ==
  LET c == txn[s].call IN
  IF c.op \in {"Complete", "Fail"}
  THEN {[token |-> c.token, how |-> c.op] : j \in Written(s)}
  ELSE {[token |-> rows[j].token, how |-> c.op] :
          j \in {i \in Written(s) : /\ rows[i].token # NULL
                                    /\ txn[s].writes[i].token # rows[i].token}}

\* The pending versions become the committed ones, locks are released, and
\* statements of other sessions that had seen an old version must look again.
Apply(s, next) ==
  /\ rows' = [j \in Ids |-> IF j \in Written(s) THEN txn[s].writes[j] ELSE rows[j]]
  /\ txn' = [p \in Sessions |->
       IF p = s THEN next
       ELSE [txn[p] EXCEPT !.stale = @ \union (Matched(p) \intersect Written(s))]]
  /\ settled' = settled \union Endings(s)
  /\ grants' = [j \in Ids |->
       IF j \notin Written(s) THEN grants[j]
       ELSE CASE txn[s].call.op = "Claim" /\ txn[s].writes[j].state = "running"
                                          -> grants[j] + 1
              [] txn[s].call.op = "Redrive" -> 0
              [] OTHER                      -> grants[j]]

\* The lease a claim hands to its caller.
Handed(s) ==
  IF txn[s].call.op = "Claim" /\ txn[s].call.id # NULL
  THEN {[id |-> txn[s].call.id, token |-> txn[s].call.token]}
  ELSE {}

Commit(s) ==
  /\ txn[s].phase = "commit"
  /\ Apply(s, [Idle EXCEPT !.phase = "returned", !.call = txn[s].call,
                           !.reply = txn[s].reply])
  /\ leases' = leases \union Handed(s)
  /\ UNCHANGED clock

\* Commit returned an error: the caller is told so, whatever the server does.
CommitUnknown(s) ==
  /\ txn[s].phase = "commit"
  /\ txn' = [txn EXCEPT ![s].phase = "doubt", ![s].reply = "ErrCommitOutcomeUnknown"]
  /\ leases' = leases \union Handed(s)
  /\ UNCHANGED <<clock, rows, settled, grants>>

\* The server had received the COMMIT, and gets to it now.
LateCommit(s) ==
  /\ txn[s].phase = "doubt"
  /\ Apply(s, Idle)
  /\ UNCHANGED <<clock, leases>>

\* The server had not, and discards the transaction.
LateAbort(s) ==
  /\ txn[s].phase = "doubt"
  /\ txn' = [txn EXCEPT ![s] = Idle]
  /\ UNCHANGED <<clock, rows, leases, settled, grants>>

\* A failed call whose deferred Rollback is missing: its locks stay.
AbortLeavingLocks(s) ==
  /\ txn[s].phase \in {"scanned", "rejected", "commit"}
  /\ txn' = [txn EXCEPT ![s].phase = "returned", ![s].reply = "error"]
  /\ UNCHANGED <<clock, rows, leases, settled, grants>>

\* A query-stage error, a canceled context or the death of the caller: the
\* transaction is rolled back.
Abort(s) ==
  /\ txn[s].phase \in {"scanned", "rejected", "commit"}
  /\ txn' = [txn EXCEPT ![s] =
       [Idle EXCEPT !.call = txn[s].call, !.phase = "returned", !.reply = "error"]]
  /\ UNCHANGED <<clock, rows, leases, settled, grants>>

\* The caller goes on with its reply.
Return(s) ==
  /\ txn[s].phase = "returned"
  /\ txn' = [txn EXCEPT ![s] = Idle]
  /\ UNCHANGED <<clock, rows, leases, settled, grants>>

-----------------------------------------------------------------------------
(* The environment.                                                        *)

\* DELETE by the consumer's retention; like any DELETE it needs FOR UPDATE.
Purge(j) ==
  /\ "Purge" \in Operations
  /\ Exists(rows[j])
  /\ \A p \in Sessions : <<LockHeld(p, j), "ForUpdate">> \notin LockConflicts
  /\ rows' = [rows EXCEPT ![j] = [NoRow EXCEPT !.state = "purged"]]
  /\ txn' = [p \in Sessions |->
       [txn[p] EXCEPT !.stale = @ \union (Matched(p) \intersect {j})]]
  /\ settled' = settled \union
       {[token |-> t, how |-> "Purge"] : t \in {rows[j].token} \ {NULL}}
  /\ UNCHANGED <<clock, leases, grants>>

Tick ==
  /\ clock < MaxTime
  /\ clock' = clock + 1
  /\ UNCHANGED <<rows, txn, leases, settled, grants>>

-----------------------------------------------------------------------------
Init ==
  /\ clock = 0
  /\ rows = NoRows
  /\ txn = [s \in Sessions |-> Idle]
  /\ leases = {} /\ settled = {}
  /\ grants = [j \in Ids |-> 0]

Start(s) == \/ Enqueue(s) \/ Claim(s) \/ Heartbeat(s) \/ Complete(s)
            \/ Fail(s) \/ Cancel(s) \/ Redrive(s)

Body(s) == UpdateRow(s) \/ ClaimRows(s) \/ Reject(s) \/ ReadIdempotent(s)

End(s) == Commit(s) \/ CommitUnknown(s) \/ LateCommit(s) \/ LateAbort(s)

Next ==
  \/ \E s \in Sessions : Start(s) \/ Body(s) \/ End(s) \/ Abort(s) \/ Return(s)
  \/ \E j \in Ids : Purge(j)
  \/ Tick

Spec == Init /\ [][Next]_vars

\* A statement that waits for a row lock is queued and gets its turn; a
\* connected or lost client's transaction ends; nobody is forced to call.
Fairness ==
  \A s \in Sessions :
    /\ WF_vars(ClaimRows(s)) /\ WF_vars(Reject(s)) /\ WF_vars(End(s))
    /\ SF_vars(UpdateRow(s)) /\ SF_vars(ReadIdempotent(s))

FairSpec == Spec /\ Fairness

-----------------------------------------------------------------------------
(* Correctness.                                                            *)

Replies == {"none", "ok", "error", "ErrNoJob", "ErrCanceled", "ErrLeaseLost",
            "ErrNotFound", "ErrStateConflict", "ErrIdempotencyConflict",
            "ErrCommitOutcomeUnknown"}

Phases == {"idle", "scanned", "rejected", "commit", "doubt", "returned"}

Call == [op        : AllOps \union {"none"},
         id        : Ids \union {NULL},
         token     : Tokens \union {NULL},
         queue     : Queues \union {NULL},
         worker    : Workers \union {NULL},
         duration  : Int,
         permanent : BOOLEAN,
         delay     : Int,
         request   : EnqueueRequest \union {NULL}]

Txn == [phase  : Phases,
        call   : Call,
        reply  : Replies,
        at     : Time,
        seen   : [Ids -> Row],
        stale  : SUBSET Ids,
        writes : [Ids -> Row],
        shared : SUBSET Ids]

Ending == [token : Tokens, how : AllOps]

\* Every column, pending row version and call record stays in its type: in
\* particular no statement leaves a timestamp NULL that Go reads as mandatory.
TypeOK ==
  /\ clock \in Time
  /\ rows \in [Ids -> Row]
  /\ txn \in [Sessions -> Txn]
  /\ leases \subseteq [id : Ids, token : Tokens]
  /\ settled \subseteq Ending
  /\ grants \in [Ids -> Nat]

\* No statement of the repository ever produces a row version a CHECK
\* constraint of the migration rejects: whatever two calls interleave, the
\* caller never sees a constraint error (postgres.go transact, "query-stage").
ConstraintsNeverFire ==
  \A s \in Sessions : \A j \in Written(s) : SchemaChecks(txn[s].writes[j])

\* Every committed row passes validateStoredJob, so scanJob never turns a job
\* into one that no operation can return (rows.go).
RowsReadable == \A j \in Ids : Exists(rows[j]) => validateStoredJob(rows[j])

\* A pending version was computed from the version that is committed now, at
\* some instant at which the statement's WHERE clause held for it.  So the
\* commit loses no update and fences no stale fact, though the statement may
\* have waited for a lock, or its COMMIT been in doubt, for any time.
PendingWritesCurrent ==
  \A s \in Sessions : \A j \in Written(s) :
    LET c == txn[s].call
        r == rows[j]
        w == txn[s].writes[j]
    IN
    \E now \in 0..clock :
      \/ c.op \in UpdateOps /\ Where(c, r, now) /\ w = Updated(c, r, now)
      \/ c.op = "Claim" /\ Exhausted(c, r, now) /\ w = Buried(r, now)
      \/ c.op = "Claim" /\ Eligible(c, r, now) /\ w = Granted(c, r, now)
      \/ c.op = "Enqueue" /\ r.state = "none" /\ w = Inserted(c.request, now)

\* One attempt, one ending: of everything that can end an attempt (its own
\* Complete or Fail, a Cancel, a reclaim or burial by a Claim after expiry, a
\* purge) exactly one commits, and an ended attempt's token is on no row.
SettledOnce ==
  /\ \A e1, e2 \in settled : e1.token = e2.token => e1 = e2
  /\ \A e \in settled, j \in Ids : rows[j].token # e.token

\* attempts counts the claims committed since the job was created or redriven,
\* and no job is ever handed out more often than its budget allows.
AttemptsCountGrants ==
  \A j \in Ids : Exists(rows[j]) => /\ rows[j].attempts = grants[j]
                                    /\ grants[j] <= rows[j].max_attempts

\* What a caller was told stays true while it holds the reply, whatever the
\* other sessions commit meanwhile.
ReplyHonest ==
  \A s \in Sessions : txn[s].phase = "returned" =>
    LET c == txn[s].call
        told == txn[s].reply
        Is(state) == rows[c.id].state \in {state, "purged"}
    IN
    /\ c.op = "Complete" /\ told = "ok" =>
         Is("succeeded") /\ [token |-> c.token, how |-> "Complete"] \in settled
    /\ c.op = "Fail" /\ told = "ok" =>
         [token |-> c.token, how |-> "Fail"] \in settled
    /\ c.op = "Cancel" /\ told = "ok" => Is("canceled")
    /\ told = "ErrCanceled" => Is("canceled")
    /\ c.op \in LeaseOps /\ told = "ErrNotFound" => rows[c.id].state = "purged"
    /\ c.op = "Claim" /\ told = "ok" =>
         \/ rows[c.id].token = c.token
         \/ \E e \in settled : e.token = c.token
    /\ c.op = "Enqueue" /\ told = "ok" =>
         \/ rows[c.id].state = "purged"
         \/ /\ Exists(rows[c.id]) /\ rows[c.id].key = c.request.key
            /\ rows[c.id].fingerprint = requestFingerprint(c.request)

\* A finished job stays as it finished until retention removes it; only a dead
\* one comes back, and only by a redrive, with a fresh budget.
TerminalIsStable ==
  [][\A j \in Ids : rows[j].state \in Terminal =>
       \/ rows'[j] = rows[j]
       \/ rows'[j].state = "purged"
       \/ /\ rows[j].state = "dead"
          /\ rows'[j].state = "pending" /\ rows'[j].attempts = 0]_vars

\* At most one job per queue and idempotency key, over the committed table and
\* the insertions of transactions still open or in doubt.
KeyUnique ==
  LET Versions == {<<j, rows[j]>> : j \in Ids} \union
                  UNION {{<<j, txn[s].writes[j]>> : j \in Written(s)} : s \in Sessions}
  IN \A v, w \in Versions :
       (/\ Exists(v[2]) /\ Exists(w[2]) /\ v[2].key # NULL
        /\ v[2].queue = w[2].queue /\ v[2].key = w[2].key) => v[1] = w[1]

\* From the moment a duplicate enqueue has compared fingerprints until its
\* transaction ends, the job it will return is there and is the same request:
\* retention cannot delete it and nobody can take over its key.
DuplicateRetained ==
  \A s \in Sessions :
    LET c == txn[s].call IN
    (txn[s].phase \in {"commit", "doubt"} /\ c.op = "Enqueue" /\ Written(s) = {}) =>
       /\ SameKey(rows[c.id], c.request)
       /\ rows[c.id].fingerprint = requestFingerprint(c.request)

\* Tokens on a row now or once.
Spent == {e.token : e \in settled} \union ({rows[j].token : j \in Ids} \ {NULL})

Lifecycle == INSTANCE JobLifecycle WITH spent <- Spent

\* The committed table, with locks, waits and in-doubt commits forgotten, moves
\* only as the lifecycle of JobLifecycle allows.
ImplementsLifecycle == Lifecycle!Spec

\* Every call comes back: no two transactions wait for each other, a wait for a
\* row lock ends, and so does that of an Enqueue for another one's open insert
\* of its key.
CallReturns ==
  \A s \in Sessions :
    /\ txn[s].phase # "idle" ~> txn[s].phase \in {"doubt", "returned", "idle"}
    /\ \A request \in Requests : KeyInFlight(s, request) ~> ~KeyInFlight(s, request)

-----------------------------------------------------------------------------
(* What the documentation says and the code does not do.                   *)

\* docs/runtime-boundary.md: "non-key state updates remain compatible with the
\* lock" of a duplicate enqueue.  Were it so, a claim that finds no job would
\* have seen none that is not being changed by somebody else.
ShareLockHidesNoJob ==
  [][\A s \in Sessions :
       (ClaimRows(s) /\ txn'[s].reply = "ErrNoJob") =>
          \A j \in Matched(s) \ txn[s].stale :
            Eligible(txn[s].call, rows[j], txn[s].at) =>
              \E p \in Sessions \ {s} : j \in Written(p)]_vars

\* docs/architecture.md: a claim "selects one eligible row ordered by
\* `available_at`, `created_at`, and `id`".
ClaimsByAvailability ==
  [][\A s \in Sessions :
       (ClaimRows(s) /\ txn'[s].reply = "ok") =>
          LET id == txn'[s].call.id
              Due(j) == <<rows[j].available_at, rows[j].created_at, j>>
          IN \A j \in Claimable(s) \ {id} : Precedes(Due(id), Due(j))]_vars
=============================================================================
