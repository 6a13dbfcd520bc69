# Verification of gotth-jobs

gotth-jobs (`src/pkg/jobs`) is a durable job queue on one PostgreSQL table. Its
correctness rests on a handful of SQL statements, the order in which transactions
take row locks, the promise that a lease token fences every acknowledgement, and a
worker that must never act on what it does not know. This directory models the
library in TLA+, checks it with TLC on small instances, and proves its main
properties with TLAPS for every size.

## The system

| Component | State | Operations | Interacts with |
|---|---|---|---|
| Values (`types.go`, `values.go`) | none | validation of requests, fingerprint of a request, random ids and tokens | every operation validates before it begins a transaction |
| Schema (`migrations/000001_jobs.sql`) | table `gotth_jobs`, unique index on (queue, key) | CHECK constraints, key uniqueness | every statement |
| Transactions (`postgres.go`) | one open transaction per call | begin, body, commit or rollback, unknown commit outcome | wraps every mutating operation |
| Lease lifecycle (`lifecycle.go`) | a row's state, attempts, token, expiry | Claim, Heartbeat, Complete, Fail | concurrent callers through row locks |
| Enqueue (`enqueue.go`) | new rows, the key | Enqueue, EnqueueTx | unique index, retention through FOR KEY SHARE |
| Operator calls (`operations.go`) | as above | Cancel, Redrive; reads Get, Counts, ListDead | race with workers |
| Row decoding (`rows.go`) | none | bounded scan, `validateStoredJob` | refuses a row that breaks the contract |
| Worker (`worker.go`) | one attempt, a heartbeat goroutine, two contexts | Run, runAttempt, heartbeat, callHandler | calls the store, runs the handler |
| Retry policy (`retry.go`) | none | Delay | worker |
| Errors (`errors.go`) | none | reconciliation wrappers | worker, callers |

What is hard about it:

- every operation is one statement that *waits*: it decides on a snapshot, may
  queue for a row lock, and must then decide again on what it finds;
- a lease may expire, be reclaimed, canceled or redriven while its holder still
  works, and the holder may acknowledge at any later time;
- a COMMIT whose answer is lost leaves the caller without an answer while the
  server may still apply the transaction after the caller has retried;
- a rejected call is explained by a second statement on a newer snapshot;
- a duplicate enqueue returns a row that retention might delete meanwhile;
- the worker races its handler with a heartbeat, a shutdown and a panic.

Each of these is an entry of `hazards` in `PROJECT.json`, with the properties
that would catch it going wrong.

What makes each component correct: the lifecycle moves a job only along its
legal transitions and ends every attempt once; the budget is never exceeded; no
statement trips over the schema or leaves a row the reader refuses; a key has
one job; a duplicate really returns the job of its own request; a reply tells
the truth; a call comes back. The worker joins its heartbeat before it
acknowledges, acknowledges what happened and nothing that was cut short, surfaces
every unknown outcome and does nothing after it, and ends when it is told to. The
two together finish every job. A failure can always be recorded: its delay and
its text are ones Fail accepts. A walk over the dead list misses nothing that
was there.

## Modules

The repository:

- `Jobs` - rows, requests, validation, fingerprint, and the two independent
  descriptions of a legal row: the CHECK constraints (`SchemaChecks`) and the
  reader (`validateStoredJob`).
- `Statements` - the WHERE and SET clauses as functions of a call, a row and an
  instant, and what a rejected call is told. Every module with a table uses it.
- `JobStore` - the repository under concurrency: one session per call, one action
  per step at which another transaction can intervene.
- `JobLifecycle` - the abstract specification: how one committed job may move,
  with no sessions, locks or transactions.
- `DeadList` - ListDead walked page by page while the table changes.
- `RequestFingerprint` - the bytes the fingerprint hashes.

The worker:

- `RetryPolicy` - Delay in durations of a bounded width; `WorkerConfig` - the
  worker's fields and `validate`.
- `Worker` - Run against *any* Store: the claiming goroutine, the heartbeat
  goroutine, the handler, both contexts.
- `LeaseRenewal` - the heartbeat's ticker in time.
- `FailureText` - `boundedFailure` on classes of bytes.
- `WorkerStore` - `Worker` composed with `Statements`: the whole system.

`MC...` modules hold the instances TLC checks; sets of inputs also hold values
the library must refuse. `...Proofs` modules hold the theorems.

### How JobStore corresponds to the code

`rows` is the committed table; a row that was never inserted has state "none", a
deleted one "purged" (a random id is not reused). `txn[s]` is the call of
session `s`: phase, parameters, reply, what the first statement saw, which of
those rows others have replaced since (`stale`), the pending row versions and the
rows held FOR KEY SHARE. `leases` are the leases Claim has handed out; anybody
may use any of them at any time, also several sessions at once. `clock` is the
database clock. `settled` and `grants` are history: they are written only when a
transaction is applied and no action reads them.

| Code | Model |
|---|---|
| `transact`: begin and first statement's snapshot | `Scan`, `ClaimScan`, `Insert` |
| UPDATE ... WHERE id = ... gets its lock | `UpdateRow` |
| `claimSQL`: both locking CTEs and both UPDATEs | `ClaimRows` |
| `classifyLease`, fallback reads of Cancel and Redrive | `Reject` |
| `idempotentJobSQL` and the comparison of fingerprints | `ReadIdempotent` |
| Commit succeeds / its answer is an error | `Commit` / `CommitUnknown` |
| the server applies or discards that transaction later | `LateCommit`, `LateAbort` |
| query-stage error, canceled context, caller's death | `Abort` (rollback) |
| the consumer's retention DELETE | `Purge` |

Each public operation (`Enqueue`, `Claim`, `Heartbeat`, `Complete`, `Fail`,
`Cancel`, `Redrive`) is an action that validates its parameters and starts the
call. A call that fails validation begins no transaction, so it is no step.

What PostgreSQL does is external and taken from how the statements rely on it:

- Read Committed. Every statement has its own snapshot. An UPDATE evaluates its
  WHERE at the scan, takes the row lock, and if the row has a newer committed
  version evaluates WHERE and SET again on that version with the then current
  clock; if the blocker rolled back, the values computed at the scan stand.
- Row locks: FOR KEY SHARE, FOR NO KEY UPDATE (an UPDATE of non-key columns) and
  FOR UPDATE (Claim, DELETE), with PostgreSQL's conflict table. A lock lasts
  until its transaction ends, also while its COMMIT is in doubt.
- SKIP LOCKED passes over a locked row; a row that changed after the snapshot
  must satisfy the CTE again. Locks and writes of one claim are one step.
- ON CONFLICT DO NOTHING waits for another transaction's open insert of the key.

Abstractions: time is a natural number; ids, tokens, queues, keys, workers and
bodies are opaque; ids and tokens never repeat (128 and 256 random bits);
SHA-256 is injective; the database clock does not run backwards; payload and kind
are one `body`; `updated_at` and `last_error`, which no statement reads, are left
out. `clock_timestamp()` is read once per step. EnqueueTx issues the statements
of Enqueue inside the caller's transaction; its end is the same commit or abort.

### How Worker corresponds to the code

`pc` is where Run is, `hb` where the heartbeat goroutine is; every place at which
the other goroutine, the Store or the caller can come in between is a value of
its own. `ctx` is the caller's context, `cause` why the attempt's context ended,
`stop` the closed channel. An error is the *set* of identities `errors.Is` finds
in it, so a Store may answer "unknown, and canceled, and context.Canceled" in one
error and the order of the tests in the code matters, as it does in Go.

| Code | Model |
|---|---|
| `Run`: validate, `ctx.Err()`, the tests on Claim's answer, `waitContext` | `Start`, `CheckContext`, `ClaimReturns` (`afterClaim`), `WaitEnds` |
| `callHandler` with error, permanent error, panic; `runtime.Goexit` | `HandlerReturns`, `HandlerExits` |
| `close(stopHeartbeat)`, `cancel(errHandlerFinished)`, `<-heartbeatResult` and the decision | `StopHeartbeat`, `CancelAttempt`, `Join` (`afterJoin`) |
| Complete or Fail answers | `AckReturns` (`afterAck`) |
| the three cases of heartbeat's select, Heartbeat's answer | `HeartbeatStops`, `HeartbeatContextDone`, `HeartbeatTicks`, `HeartbeatReturns` |
| `cancel(err)`, `heartbeatResult <- err` | `HeartbeatCancels`, `HeartbeatSends` |
| the caller ends ctx; package context tells the child | `Shutdown`, `Propagate` |

In `Worker` the ticker fires whenever it likes and calls answer whenever they
like, which covers every timing. Real time matters for one question, whether the
lease survives a long handler, and `LeaseRenewal` asks it: `left` is the rest of
the lease at the database, `next` the time to the next tick, `ticks` the channel
of one tick, `call` and `age` the renewal under way. The claim's own answer may
have taken as long as any call.

`doubt` (the operation whose commit is unknown, its lease) and `interrupted` are
history. In `WorkerStore` so is `handled`, the tokens whose handler returned nil.

### How WorkerStore composes the two

The worker's actions are those of `Worker`; a call goes to the table in one step
(`Commits`, `InDoubt` or `Errs`), computed by `Statements`, and its answer comes
back in another (`Answer`), so that a lease can expire, a rival claim, an
operator cancel or the process die in between. What `claimWithToken`, `Heartbeat`,
`Complete` and `Fail` check before they open a transaction is `Accepted`; a call
that fails it changes nothing and is answered with ErrInvalid (`Refusal`). That a call is one step at the
table is what `JobStore` establishes for the statements (`PendingWritesCurrent`).
An in-doubt transaction takes effect at once or never: until it is resolved its
row is locked, so no other statement can tell a late commit from an early one
that nobody has read yet. Rivals claim and acknowledge correctly; an eligible row
may be locked by somebody, so a claim may answer ErrNoJob beside it.

Time is relative: the table stores how far in the future `available_at` and
`lease_until` lie and every statement runs at instant 0, while `Age` brings all
of them one tick nearer. No statement compares two columns, so nothing is lost,
and behaviours need no bound on the clock. `Reset` is a new call of Run.
`Disruptions` bounds crashes and shutdowns.

## Runs

The JobStore runs, `dead_list` and `limits` say CHECK_DEADLOCK FALSE: clock, ids,
tokens and lengths are finite there, so a behaviour of an instance may simply
end; so do the Worker runs, in which Run may return for good. The two WorkerStore
runs check for deadlock.

| Run | Instance | Checks |
|---|---|---|
| `lease_fencing` | 1 job of 2 attempts, 2 sessions, the seven operations without retention, 2 tokens, clock to 2, leases of 1 to 2 | `TypeOK`, `ConstraintsNeverFire`, `RowsReadable`, `PendingWritesCurrent`, `SettledOnce`, `AttemptsCountGrants`, `ReplyHonest`, `TerminalIsStable`, `ImplementsLifecycle` |
| `claim_queue` | 2 jobs of 1 or 2 attempts, due now or later, 2 claiming sessions, 3 tokens, sweep limit 1 | `ConstraintsNeverFire`, `PendingWritesCurrent`, `AttemptsCountGrants`, `ImplementsLifecycle` |
| `idempotent_enqueue` | 2 ids, 3 sessions, one key with two different requests, claims, retention | `KeyUnique`, `DuplicateRetained`, `ReplyHonest` |
| `calls_return` | 1 job, 2 sessions, fairness | `CallReturns` |
| `worker_protocol` | 7 configurations, 6 of them refused, a Store with a good job and several bad ones, every set of 5 error identities | `TypeOK`, `HeartbeatJoined`, `UnknownSurfaces`, `InterruptedNotAcknowledged`, `AcknowledgesWhatHappened`, `HandlesOwnLease`, `NothingAfterDoubt`; with fairness `ShutdownReturns`, `LossEndsAttempt` |
| `worker_on_store` | 7 configurations, 6 of them refused, 1 job of 2 attempts, the worker, a rival, an operator, 3 tokens, 2 disruptions | `SettledBeforeNext`, `NeverInvalid`, `SucceededMeansHandled` |
| `job_finishes` | 1 job of 2 attempts, 2 tokens, 2 disruptions, fairness | `JobFinishes` |
| `limits` | all policies of 5-bit durations over 7 attempts; all texts to 9 bytes of 4 classes, limit 7; all pairs of requests with names and payloads to 2 bytes; all leases and intervals to 13, latencies to 4 | `DelaySaturates`, `DelayAlwaysRecordable`, `FailureAccepted`, `CutsAreMarked`, `FingerprintBinds`, `LeaseKept` |
| `dead_list` | 3 jobs, pages of 1 and 2, clock to 1 | `WalkComplete`, `WalkOrdered`, `WalkReadable` |
| `share_lock` | expected violation | `ShareLockHidesNoJob` |
| `claim_order` | expected violation | `ClaimsByAvailability` |
| `handler_goexit` | expected violation | `HeartbeatBounded` |

- `PendingWritesCurrent`: a pending version was computed, at an instant its WHERE
  held, from the version still committed. This is the absence of lost updates and
  the honesty of the fence across any wait and any doubt.
- `SettledOnce`: an attempt is ended by exactly one committed step, whichever of
  Complete, Fail, Cancel, reclaim, burial or deletion wins.
- `AttemptsCountGrants`: `attempts` is the number of committed claims since
  creation or redrive, and within the budget.
- `ConstraintsNeverFire`, `RowsReadable`: the statements, the CHECKs and the
  reader agree about what a legal row is.
- `ReplyHonest`: what a caller was told is still true when it hears it, whatever
  other sessions committed meanwhile.
- `TerminalIsStable`: a finished job stays finished unless redriven or deleted.
- `CallReturns`: a call that has started ends. An Enqueue that waits for another
  one's open insert of its key has not started in the model; that this wait ends
  is part of the property.
- `KeyUnique`, `DuplicateRetained`: the idempotency contract, over the table and
  all open transactions.
- `ImplementsLifecycle`: the committed table implements `JobLifecycle`.
- `HeartbeatJoined`: no renewal races an acknowledgement or outlives Run.
- `UnknownSurfaces`, `NothingAfterDoubt`: an unknown outcome is what Run returns,
  with the lease to reconcile, and nothing is retried, polled, acknowledged,
  renewed or started once there is one.
- `InterruptedNotAcknowledged`: an attempt cut short by shutdown or a lost lease
  is neither a success nor the handler's failure.
- `AcknowledgesWhatHappened`: Complete only after a nil return (not after
  panic(nil)), Fail with a delay and a permanence the Store accepts.
- `HandlesOwnLease`: a custom Store cannot make the worker handle a job that is
  not a running attempt of its own.
- `ShutdownReturns`, `LossEndsAttempt`: Run ends after shutdown, an attempt after
  a failed renewal.
- `SucceededMeansHandled`: a job becomes succeeded only through the attempt that
  holds its lease at that moment, and only if that attempt's handler returned nil.
- `SettledBeforeNext`: a worker looks for its next job only when its last attempt
  is settled at the database.
- `NeverInvalid`: under every configuration `validate` accepts, the repository
  refuses no Claim, Heartbeat, Complete or Fail of the worker, and the worker no
  claimed job. With a `validate` that lets a policy of half microseconds pass, Fail
  refuses the failure after the handler has had its effects. That the message of a
  Fail is accepted is `FailureAccepted`.
- `JobFinishes`: every job ends, though acknowledgements and renewals may fail
  for ever.
- `DelaySaturates`, `DelayAlwaysRecordable`: Delay is
  min(initial * 2^(attempt-1), maximum), without overflow, and Fail accepts it.
- `LeaseKept`: under every configuration `validate` accepts, calls that take less
  than a quarter of the lease never lose it. The bound is tight: a quarter for the
  claim's answer, half the lease until the tick and a quarter for the renewal are
  the whole lease. With an interval of up to the whole lease no latency would be
  safe, which is why `validate` asks for half of it.
- `FailureAccepted`, `CutsAreMarked`: what boundedFailure makes of any text is
  one validateFailure accepts, and a cut is always visible. Texts are made of runes
  of one and three bytes (ASCII, NUL, U+FFFD, the ellipsis, others) and stray bytes;
  runes of two and four bytes are not among the classes.
- `WalkComplete`, `WalkOrdered`, `WalkReadable`: a job that is dead throughout a
  walk is listed, (finished_at, id) increases over the pages, so that no death is
  listed twice, and no row of the repository's own making fails a page. A job that
  is redriven and buried again during the walk may be listed for both deaths. A burial that commits after the cursor has passed its finished_at is
  not in that walk; the next one shows it.
- `FingerprintBinds`: different requests hash different bytes.

Bounds. Two sessions produce every pairwise race of statements, in-doubt commits
included; two attempts on one job are the fewest with a reclaim and a budget to
exhaust, and two ticks the fewest for a lease to be renewed, to expire and to be
granted anew. Two jobs and a sweep limit of one put the sweep at its limit.
Three enqueues of one key are an inserter, a duplicate and a rival that may take
over the key after a deletion. One worker with one job and any Store is the whole
of a worker's life, since attempts follow one another; the composition adds a
rival and enough tokens that a stale lease, its successor and a third coexist.
(With two jobs the composition was also checked once; 6 million states show
nothing else.) Durations of 5 bits are all of them, odd maxima and word limits
included (in the 64 bits of Go no delay below 24h comes near the limit); a limit of 7 bytes fits
two runes and a rest, and 9 bytes are past it by more than a byte's growth. Three
dead jobs on pages of one and two put a tie of finished_at on a page boundary.
The theorems remove the bounds for what they
cover. Tokens (and, where no fairness names them, sessions) are symmetric: they
are compared for equality only.

Fairness (`FairSpec`, used by `calls_return`): weak for statements that never
wait and for the end of a transaction (the server finishes or rolls back a
transaction whose client is gone); strong for statements that wait for a row
lock, since PostgreSQL queues the waiters of a row. No call is forced to start
and no caller to take its reply.

Worker's `Fairness` (`worker_protocol`): goroutines run and the Store answers
(weak); a select that is asked again and again takes each ready case at some time
(strong for the stop and context cases, since Go chooses among ready cases at
random); a handler whose context has ended returns, as Handler's comment demands.
A handler that is not canceled may run for ever and nobody need shut down.

`SystemFairness` (`job_finishes`): the same, and time passes, Run is called again,
handlers end, and of the claims that could grant or bury something, tried again
and again, some commit. Nothing is asked of acknowledgements and renewals: they
may all fail or be lost. Crashes and shutdowns are finitely many.

### Where code and documentation differ

- `share_lock`: `docs/runtime-boundary.md` says that "non-key state updates remain
  compatible with the lock" a duplicate enqueue holds. An UPDATE's own lock is,
  but Claim selects FOR UPDATE SKIP LOCKED, which conflicts with FOR KEY SHARE:
  it skips the due job and answers ErrNoJob. With EnqueueTx the lock lasts as
  long as the caller's transaction.
- `claim_order`: `docs/architecture.md` says a claim takes rows by `available_at`,
  `created_at`, `id`. The statement orders expired running rows by `lease_until`,
  so a pending job may precede a reclaimable one that became available earlier.
- `handler_goexit`: `docs/architecture.md` says that "A heartbeat goroutine is
  bounded to the active handler." A handler that calls runtime.Goexit unwinds
  past `close(stopHeartbeat)`, `cancel` and the join, which are not deferred: the
  goroutine goes on renewing the lease of an attempt nobody works on, and no
  reclaim or budget ends the job while it does. Everywhere else Goexit is either
  allowed (`Worker`, whose properties hold with it) or left out (`WorkerStore`,
  whose liveness it would break).

## Proofs

All theorems hold for any sets of sessions, jobs, queues, keys, tokens, rivals
and configurations, any limits and any bound on the clock. They assume only what
the ASSUMEs of the modules say: ids are ordered like naturals, NULL is no value
of any column, limits are naturals, inputs are of their Go types, a worker has a
name, a budget is one Enqueue accepts (`BudgetAssumption`), the table of the dead
list is finite (`DeadListAssumption`), the longest delay fits a duration
(`DurationAssumption`), lengths fit their word (`SizeAssumption`). TLC evaluates
all of them on the instances.

`JobStoreProofs` proves the inductive invariant `IInv`:

- `TypeOK`;
- `TxnOK` for each session: parameters passed validation (`CallOK`), a scan whose
  row nobody replaced still describes the table (`ScanOK`), and a pending version
  is what the statement writes over the *committed* version at an instant at
  which its WHERE held (`WriteOK`);
- `WritersExclude`: no two sessions have pending versions of one row;
- `RowOK`: a row in the table satisfies the CHECK constraints.

`PendingWritesCurrent` alone is not inductive: a commit of `p` would break it for
`s` if both had written the row, hence `WritersExclude`; and a statement that
wakes up must know whether its snapshot still holds, hence `ScanOK`. From `IInv`
follow `TypeCorrect`, `NoLostUpdate`, `ConstraintsSafe` and `JobsReadable`.

`JobStoreFencingProofs` adds what a commit does to a row (`WriteEffect`) and
proves `FinishedStays` (an action property), `BudgetKept` (with `CountInv`) and
`OneEnding`. The last needs `TokenInv`: no token is on two rows; every token on a
row or in an ending has been handed out; the token of an open claim is on no row
and in no ending; two open claims have different tokens. The same module proves
`Refinement`, Spec => ImplementsLifecycle: the initial states map, each statement
is a move of the lifecycle (`WriteIsMove`), a commit is one lifecycle step that
starts at most one attempt, and a token is spent exactly when it has been on a row.

`JobStoreReplyProofs` proves what callers may rely on. `RepliesStayTrue` and
`DuplicatesRetained` follow from `ReplyInv`, which says for each session what its
statement has established (`CommitOK`) and what its caller may conclude
(`ToldOK`): facts chosen so that no other session's commit or deletion can undo
them. A terminal state stays; an ending stays on record; a granted token is on
its row or in an ending; the row of a duplicate is held FOR KEY SHARE, which
excludes the DELETE. `OneJobPerKey` follows from `KeysApart`: committed rows,
open inserts against committed rows, and open inserts against each other.

`WorkerProofs` proves `Worker`'s safety against any Store: `TypeCorrect`,
`HeartbeatAlwaysJoined`, `OnlyOwnLeases`, `UnknownAlwaysSurfaces`,
`InterruptedNeverAcknowledged`, `AcknowledgedAsHandled` and the action property
`SilentAfterDoubt`. The properties are not inductive by themselves. That an
interrupted attempt is not acknowledged rests on what the join can see, so `IInv`
adds `CauseKnown`: the heartbeat's result in each of its places, and that an
attempt's context which had ended before the handler ended because of its parent
or of a failed renewal (`ParentEnded` then gives the test of ctx, the result that
of the error). That a doubt surfaces rests on where it can be known, so `IInv`
adds `DoubtKnown`: none while Run looks for a job or acknowledges, and inside an
attempt exactly when the heartbeat's result says so. That Fail accepts the delay
rests on the configuration having been validated (`ConfigAccepted`) and on what
Delay computes (`RetryPolicyProofs`).

`WorkerStoreProofs` proves the composition: `AttemptsSettled`, `SuccessIsHandled`
(an action property) and `NeverRefused`. A token is granted once, so a lease that
has left its row is gone for good: `Settled` is stable under every step of
anybody. `SystemInv` says which answers, in flight or received, are proof of it
(`Settling`), which call can be in flight where (`Flow`), and that the success of
a handler is on record for as long as the worker may act on it (`Succeeding`).
`NeverRefused` is about a configuration `validate` accepts: with another one Run
returns ErrInvalid at once, as it should. `Accepting` carries what a granted row
and a computed failure look like through the flight of the calls and answers:
every call then passes the repository's checks (`CallAccepted`), Fail's because a
computed delay is one it takes (`FailureRecordable`), and no answer, heartbeat
result or result of Run is a refusal (`Unrefused`).

`DeadListProofs` proves `WalkIsComplete`, `WalkIsOrdered` and `WalkIsReadable`.
ORDER BY is a CHOOSE among listings, so the proof first shows that every finite
set has an ordered listing (`ListingExists`, by the rank of an element). The
invariant: rows are ones the reader accepts (`Table`); the pages are ordered up to
the cursor, and every job that has been dead since the walk began is on a page or
lies beyond the cursor (`Walk`).

`RetryPolicyProofs` proves what Delay computes. Delay is recursive and the
induction theorems of the library cannot be instantiated here, so induction is
stated of *sets* (`SetInduction`, from the well-foundedness of < on Nat) and the
loop is shown to define a function (`IterationExists`).

`LimitsProofs` proves, for every size:

- `LeaseNeverLost`, `LeaseKept` for every lease, interval and latency: the
  invariant bounds from below what is left of the lease by the age of the renewal
  under way, the time to the next tick and the tick in the channel;
- `EveryDelayRecordable` and `DelayExact` for every policy, attempt and width;
- `FingerprintInjective` for all requests whose fields, budgets and times their
  words can hold, and from it `FingerprintsBind`: big-endian digits determine a
  number among those that differ by less than the word (`DigitsDetermine`), so
  each length can be read off, each field split off (`FieldSplits`), and so on;
- `EveryFailureAccepted`, for texts of any length over the classes of bytes of
  `FailureText`, and from it
  `FailuresAccepted`; `CutsMarked` for the same texts. Whether a byte is in a
  rune depends on its neighbours only (`Starts`, `InRuneIs`), so that a valid text
  stays valid when one is appended (`ConcatValid`) and when it is cut before a
  rune (`CutValid`). ToValidUTF8 and WithoutNUL replace a text piece by piece:
  FlattenSeq is shown to satisfy its equation (`FlattenJoins`, by set induction),
  and the induction over the pieces (`FlattenValid`) says that what is written so
  far is valid once the continuation bytes still `missing` from the rune under way
  are added.

`DelayExact` and the fingerprint theorems have a hypothesis each, `PowersOfTwo`
and `PowersOfBase`: the law of exponents, b^(k+1) = b * b^k, which is a fact of
arithmetic and not known to the provers.

Only model-checked: liveness (`CallReturns`, `ShutdownReturns`, `LossEndsAttempt`,
`JobFinishes`), which is outside what the prover handles.

## Not modelled

- Get and Counts: single reads whose answer is the table of one instant.
- EnqueueTx's isolation check, and its use as one of several calls in the caller's
  transaction: what other isolation levels and deadlock detection do there is
  PostgreSQL's behaviour alone; the statements are Enqueue's.
- The name alphabet, timestamp ranges and the byte-bounded scanners: tests of one
  value at a time, without state.
- Error texts and the job a LeaseReconciliationError carries beside its lease.
- `migrations.go`: exposes a file.

## Plan

Done: the repository, the worker, their composition, the algorithms and the
theorems above. Left: EnqueueTx with several calls in one transaction of the
caller.
