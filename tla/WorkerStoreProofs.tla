------------------------- MODULE WorkerStoreProofs -------------------------
(***************************************************************************)
(* The safety of a worker on the repository, for every set of jobs, rivals *)
(* and tokens and every configuration.                                     *)
(*                                                                         *)
(* A lease token is granted once, so a lease that is gone from its row is  *)
(* gone for good: Settled is stable.  The inductive invariant says which   *)
(* answers, on their way or received, are proof that the worker's lease is *)
(* settled (Settling), and that a handler's success is on record for as    *)
(* long as the worker may still act on it (Succeeding).                    *)
(***************************************************************************)
EXTENDS WorkerStore, WorkerProofs

-----------------------------------------------------------------------------
(* The inductive invariant.                                                *)

Fingerprints == {<<Queue, b, Budget, NULL>> : b \in Bodies}

StoredRow ==
  [state : JobState, queue : {Queue}, key : {NULL}, fingerprint : Fingerprints,
   attempts : Nat, max_attempts : {Budget}, available_at : Int, created_at : {0},
   token : Tokens \union {NULL}, owner : Workers \union {NULL},
   lease_until : Int \union {NULL}, finished_at : {NULL, 0}]

\* Only a running job has a lease, and a pending one an attempt left.
RowFits(r) ==
  /\ r \in StoredRow
  /\ r.state # "running" => r.token = NULL
  /\ r.state = "pending" => r.attempts < Budget

\* A job that was granted.
ClaimedJob == {c \in [id : Ids, row : StoredRow] :
                 c.row.token \in Tokens /\ c.row.attempts >= 1}

Typed ==
  /\ config \in Configs /\ pc \in Places /\ ctx \in {"live"} \union ContextErrors
  /\ rows \in [Ids -> StoredRow] /\ \A j \in Ids : RowFits(rows[j])
  /\ job \in ClaimedJob \union {NoJob}
  /\ ans.job \in ClaimedJob \union {NoJob}
  /\ ans = [job |-> ans.job, err |-> ans.err]
  /\ failure.permanent \in BOOLEAN /\ failure.delay \in Int
  /\ outcome \in Outcomes

\* The heartbeat, the call in flight and the claimed job by Run's place.
Flow ==
  /\ hb # "none" => pc \in InAttempt
  /\ ans # NoAnswer => pc \in {"claiming"} \union Acknowledging \/ hb = "calling"
  /\ pc = "start" => job = NoJob
  /\ pc \in InAttempt \union Acknowledging => job # NoJob

\* The lease of the worker's job is no longer on its row.
Settled == job # NoJob /\ rows[job.id].token # job.row.token

Settling ==
  /\ pc \in {"loop", "claiming", "waiting"} => job = NoJob \/ Settled
  /\ "ErrCanceled" \in hbErr \union ans.err => Settled
  /\ pc \in Acknowledging /\ ans.err = {} => Settled

Succeeding ==
  /\ pc \in Unjoined \union Acknowledging /\ handlerErr = "nil" => job.row.token \in handled
  /\ pc = "completing" => handlerErr = "nil"

SystemInv == Typed /\ Flow /\ Settling /\ Succeeding

\* What Fail is called with is what Fail accepts.
FailureFits ==
  /\ failure.delay % Microsecond = 0
  /\ validateFailure(failure.permanent, failure.delay \div Microsecond)

\* Nobody has been refused, by the repository or by Run.
Unrefused ==
  "ErrInvalid" \notin ans.err /\ "ErrInvalid" \notin hbErr /\ "ErrInvalid" \notin result.err

\* Under an accepted configuration: what is on its way to the worker, what it
\* sends, and what came of it.
Accepting ==
  /\ validate(config)
  /\ pc = "claiming" /\ ans.err = {} => validateClaimedAttempt(ans.job)
  /\ pc = "failing" => FailureFits
  /\ Unrefused

-----------------------------------------------------------------------------
(* Rows.                                                                   *)

LEMMA Constants ==
  /\ Budget \in Nat /\ Budget >= 1 /\ Budget <= MaxAttempts
  /\ NULL \notin Tokens /\ NULL \notin Ids /\ NULL \notin Nat
  /\ WorkerID \in Workers /\ NULL \notin Workers
BY BudgetAssumption, NullAssumption, WorkerAssumption, LimitsAssumption

LEMMA ConfigTyped ==
  ASSUME Typed
  PROVE  /\ config.lease \in Int
         /\ config.retry.initial \in Int /\ config.retry.maximum \in Int
BY ConfigAssumption DEF Typed

LEMMA NoJobNotClaimed ==
  ASSUME NEW c \in ClaimedJob \union {NoJob}
  PROVE  /\ c.row.token \in Tokens \union {NULL}
         /\ (c = NoJob) = (c.id = NULL)
         /\ c = NoJob => c.row.token = NULL
         /\ c # NoJob => c \in ClaimedJob /\ c.row.token \in Tokens /\ c.id \in Ids
                         /\ c.row.attempts \in Nat /\ c.row.attempts >= 1
<1>1. NoJob.id = NULL /\ NoJob.row.token = NULL
  BY DEF NoJob, NoRow
<1>2. ASSUME c \in ClaimedJob
      PROVE  c.row.token \in Tokens /\ c.id \in Ids /\ c.row.attempts \in Nat
             /\ c.row.attempts >= 1
  BY <1>2 DEF ClaimedJob, StoredRow
<1>. QED  BY <1>1, <1>2, Constants

\* Finishing a job drops its lease.
LEMMA FinishFits ==
  ASSUME NEW r \in StoredRow, NEW state \in Terminal
  PROVE  /\ RowFits(Finish(r, state, 0))
         /\ Finish(r, state, 0).state = state /\ Finish(r, state, 0).token = NULL
BY DEF StoredRow, RowFits, Finish, Unleased, Terminal, JobState

\* A call that updates one job.
CallFits(c) ==
  /\ c.op \in LeaseOps \union {"Cancel"}
  /\ c.duration \in Int /\ c.delay \in Int /\ c.permanent \in BOOLEAN

\* What an UPDATE on a job leaves: only Heartbeat keeps the lease, and only
\* Complete makes a job succeeded.
LEMMA UpdatedFits ==
  ASSUME NEW r, RowFits(r), NEW c, CallFits(c), Where(c, r, 0)
  PROVE  /\ RowFits(Updated(c, r, 0))
         /\ Updated(c, r, 0).token = IF c.op = "Heartbeat" THEN r.token ELSE NULL
         /\ Updated(c, r, 0).state = "succeeded" => c.op = "Complete"
<1>. DEFINE w == Updated(c, r, 0)
<1>. USE DEF CallFits
<1>1. r \in StoredRow /\ r.attempts \in Nat /\ r.max_attempts = Budget
  BY DEF RowFits, StoredRow
<1>2. CASE c.op = "Heartbeat"
  <2>1. w = [r EXCEPT !.lease_until = 0 + c.duration] /\ r.state = "running"
    BY <1>2 DEF Updated, heartbeatSQL, Where, Fenced, LeaseOps
  <2>2. w \in StoredRow /\ w.state = r.state /\ w.token = r.token
    BY <1>1, <2>1 DEF StoredRow
  <2>. QED  BY <1>2, <2>1, <2>2 DEF RowFits
<1>3. CASE c.op = "Complete"
  <2>1. w = Finish(r, "succeeded", 0)
    BY <1>3 DEF Updated, completeSQL
  <2>. QED  BY <1>1, <1>3, <2>1, FinishFits DEF Terminal
<1>4. CASE c.op = "Cancel"
  <2>1. w = Finish(r, "canceled", 0)
    BY <1>4 DEF Updated, cancelSQL
  <2>. QED  BY <1>1, <1>4, <2>1, FinishFits DEF Terminal
<1>5. CASE c.op = "Fail"
  <2>1. w = failSQL(c, r, 0)
    BY <1>5 DEF Updated
  <2>2. CASE c.permanent \/ r.attempts >= r.max_attempts
    <3>1. w = Finish(r, "dead", 0)
      BY <2>1, <2>2 DEF failSQL
    <3>. QED  BY <1>1, <1>5, <3>1, FinishFits DEF Terminal
  <2>3. CASE ~(c.permanent \/ r.attempts >= r.max_attempts)
    <3>1. w = [Unleased(r) EXCEPT !.state = "pending", !.available_at = 0 + c.delay]
      BY <2>1, <2>3 DEF failSQL
    <3>2. /\ w \in StoredRow /\ w.state = "pending" /\ w.token = NULL
          /\ w.attempts = r.attempts
      <4>1. 0 + c.delay \in Int /\ "pending" \in JobState
        BY DEF JobState
      <4>. HIDE DEF w
      <4>. QED  BY <1>1, <3>1, <4>1 DEF StoredRow, Unleased
    <3>3. r.attempts < Budget
      BY <1>1, <2>3, Constants
    <3>. QED  BY <1>5, <3>2, <3>3 DEF RowFits
  <2>. QED  BY <2>2, <2>3
<1>. QED  BY <1>2, <1>3, <1>4, <1>5 DEF LeaseOps

\* What Claim leaves of a job it does not grant, and of the one it does.
LEMMA SweptFits ==
  ASSUME NEW r, RowFits(r), NEW c
  PROVE  LET w == IF Exhausted(c, r, 0) THEN Buried(r, 0) ELSE r IN
         /\ RowFits(w) /\ w.token \in {r.token, NULL}
         /\ w.state = "succeeded" => r.state = "succeeded"
BY FinishFits DEF RowFits, Buried, Terminal

LEMMA GrantedFits ==
  ASSUME NEW r, RowFits(r), NEW c, Eligible(c, r, 0), c.token \in Tokens,
         c.worker \in Workers, c.duration \in Int
  PROVE  LET w == Granted(c, r, 0) IN
         /\ RowFits(w) /\ w.token = c.token /\ w.state = "running"
         /\ w.attempts = r.attempts + 1 /\ w.attempts >= 1 /\ w.attempts <= Budget
         /\ w.owner = c.worker /\ w.queue = Queue /\ w.max_attempts = Budget
         /\ w.lease_until = c.duration /\ w.finished_at = NULL
<1>. DEFINE w == Granted(c, r, 0)
<1>1. r \in StoredRow /\ r.attempts \in Nat /\ r.max_attempts = Budget /\ r.queue = Queue
  BY DEF RowFits, StoredRow
<1>2. w = [r EXCEPT !.state = "running", !.attempts = r.attempts + 1, !.token = c.token,
                    !.owner = c.worker, !.lease_until = 0 + c.duration,
                    !.finished_at = NULL]
  BY DEF Granted
<1>3. /\ w \in StoredRow /\ w.state = "running" /\ w.attempts = r.attempts + 1
      /\ w.token = c.token /\ w.owner = c.worker /\ w.lease_until = 0 + c.duration
      /\ w.finished_at = NULL /\ w.queue = r.queue /\ w.max_attempts = r.max_attempts
  <2>1. 0 + c.duration \in Int /\ r.attempts + 1 \in Nat /\ "running" \in JobState
    BY <1>1 DEF JobState
  <2>. HIDE DEF w
  <2>. QED  BY <1>1, <1>2, <2>1 DEF StoredRow
<1>4. r.attempts < Budget
  BY <1>1 DEF RowFits, Eligible
<1>. HIDE DEF w
<1>5. w.lease_until = c.duration
  BY <1>3
<1>6. w.attempts >= 1 /\ w.attempts <= Budget
  BY <1>1, <1>3, <1>4, Constants
<1>7. RowFits(w)
  BY <1>3 DEF RowFits
<1>. QED  BY <1>1, <1>3, <1>5, <1>6, <1>7 DEF w

LEMMA InsertedFits ==
  ASSUME NEW b \in Bodies
  PROVE  RowFits(Inserted([queue |-> Queue, key |-> NULL, body |-> b,
                           max_attempts |-> Budget, available_at |-> NULL], 0))
<1>. DEFINE r == Inserted([queue |-> Queue, key |-> NULL, body |-> b,
                           max_attempts |-> Budget, available_at |-> NULL], 0)
            f == <<Queue, b, Budget, NULL>>
<1>1. r = [NoRow EXCEPT !.state = "pending", !.queue = Queue, !.key = NULL,
                        !.fingerprint = f,
                        !.max_attempts = Budget, !.created_at = 0,
                        !.available_at = 0]
  BY DEF Inserted, requestFingerprint
<1>2. f \in Fingerprints /\ "pending" \in JobState
  BY DEF Fingerprints, JobState
<1>. HIDE DEF r, f
<1>3. r = [state |-> "pending", queue |-> Queue, key |-> NULL, fingerprint |-> f,
           attempts |-> 0, max_attempts |-> Budget, available_at |-> 0,
           created_at |-> 0, token |-> NULL, owner |-> NULL,
           lease_until |-> NULL, finished_at |-> NULL]
  BY <1>1 DEF NoRow
<1>4. r \in StoredRow
  BY <1>2, <1>3 DEF StoredRow
<1>5. r.state = "pending" /\ r.token = NULL /\ r.attempts = 0
  BY <1>3
<1>6. RowFits(r)
  BY <1>4, <1>5, Constants DEF RowFits
<1>. QED  BY <1>6 DEF r

\* Time passing touches no more than the instants of a row.
LEMMA AgedFits ==
  ASSUME NEW r, RowFits(r)
  PROVE  /\ RowFits(Aged(r)) /\ Aged(r).token = r.token /\ Aged(r).state = r.state
<1>. DEFINE w == Aged(r)
<1>1. r \in StoredRow /\ r.available_at \in Int /\ r.lease_until \in Int \union {NULL}
  BY DEF RowFits, StoredRow
<1>2. Sooner(r.available_at) \in Int /\ Sooner(r.lease_until) \in Int \union {NULL}
  BY <1>1 DEF Sooner
<1>. QED  BY <1>1, <1>2 DEF Aged, RowFits, StoredRow

-----------------------------------------------------------------------------
(* Transactions.                                                           *)

LEMMA ClaimCallIs ==
  ASSUME NEW w, NEW t
  PROVE  LET c == ClaimCall(w, t) IN
         c.token = t /\ c.worker = w /\ c.duration = config.lease /\ c.queue = Queue
BY DEF ClaimCall, NoCall

LEMMA OwnCallIs ==
  ASSUME Typed
  PROVE  /\ OwnCall.id = job.id /\ OwnCall.token = job.row.token
         /\ OwnCall.duration \in Int /\ OwnCall.delay \in Int
         /\ OwnCall.permanent \in BOOLEAN
         /\ OwnCall.op \in LeaseOps
         /\ pc = "completing" => OwnCall.op = "Complete"
         /\ pc = "failing" => OwnCall.op = "Fail"
         /\ OwnCall.op = "Complete" => pc = "completing"
<1>. DEFINE Of(op) == LeaseCall(op, job.id, job.row.token)
<1>1. \A op : /\ Of(op).id = job.id /\ Of(op).token = job.row.token
              /\ Of(op).duration \in Int /\ Of(op).op = op
              /\ Of(op).permanent \in BOOLEAN /\ Of(op).delay \in Int
  BY ConfigTyped DEF LeaseCall, NoCall
<1>2. CASE pc = "completing"
  <2>1. OwnCall = Of("Complete")
    BY <1>2 DEF OwnCall
  <2>. QED  BY <1>1, <1>2, <2>1 DEF LeaseOps
<1>3. CASE pc = "failing"
  <2>. DEFINE d == failure.delay \div Microsecond
  <2>1. OwnCall = [Of("Fail") EXCEPT !.permanent = failure.permanent, !.delay = d]
    BY <1>3 DEF OwnCall
  <2>2. d \in Int /\ failure.permanent \in BOOLEAN
    BY DurationAssumption DEF Typed
  <2>. HIDE DEF d
  <2>3. /\ OwnCall.id = job.id /\ OwnCall.token = job.row.token
        /\ OwnCall.duration = config.lease /\ OwnCall.op = "Fail"
        /\ OwnCall.permanent = failure.permanent /\ OwnCall.delay = d
    BY <2>1 DEF LeaseCall, NoCall
  <2>. QED  BY <1>3, <2>2, <2>3, ConfigTyped DEF LeaseOps
<1>4. CASE pc \notin {"completing", "failing"}
  <2>1. OwnCall = Of("Heartbeat")
    BY <1>4 DEF OwnCall
  <2>. QED  BY <1>1, <1>4, <2>1 DEF LeaseOps
<1>. QED  BY <1>2, <1>3, <1>4

\* A step of one transaction on one row.
RowMove(r, w) ==
  RowFits(w) /\ w.token \in {r.token, NULL} \union FreshTokens

NotFinished(r, w) == w.state = "succeeded" => r.state = "succeeded"

LEMMA GrantingMoves ==
  ASSUME Typed, NEW w \in Workers, NEW t \in FreshTokens,
         NEW e \in Granting(ClaimCall(w, t)) \union {Nothing(ClaimCall(w, t))}
  PROVE  /\ e.table \in [Ids -> StoredRow]
         /\ \A j \in Ids : RowMove(rows[j], e.table[j]) /\ NotFinished(rows[j], e.table[j])
         /\ e.job \in ClaimedJob \union {NoJob}
         /\ e.job.row.token \in {t, NULL}
         /\ e.job = NoJob => e.err = {"ErrNoJob"}
         /\ e.job # NoJob =>
              /\ e.err = {} /\ e.job.row.queue = Queue /\ e.job.row.owner = w
              /\ e.job.row.state = "running" /\ e.job.row.max_attempts = Budget
              /\ e.job.row.attempts <= Budget /\ e.job.row.lease_until = config.lease
              /\ e.job.row.finished_at = NULL
<1>. DEFINE c == ClaimCall(w, t)
<1>1. c.token = t /\ c.worker = w /\ c.duration = config.lease /\ t \in Tokens
  BY ClaimCallIs DEF FreshTokens
<1>2. config.lease \in Int
  BY ConfigTyped
<1>. HIDE DEF c
<1>3. \A j \in Ids : RowFits(rows[j]) /\ rows[j] \in StoredRow
  BY DEF Typed
<1>4. /\ Swept(c) \in [Ids -> StoredRow]
      /\ \A j \in Ids : RowMove(rows[j], Swept(c)[j]) /\ NotFinished(rows[j], Swept(c)[j])
  <2>1. \A j \in Ids : Swept(c)[j] = IF Exhausted(c, rows[j], 0) THEN Buried(rows[j], 0)
                                     ELSE rows[j]
    BY DEF Swept
  <2>2. \A j \in Ids : /\ RowFits(Swept(c)[j]) /\ Swept(c)[j].token \in {rows[j].token, NULL}
                       /\ Swept(c)[j].state = "succeeded" => rows[j].state = "succeeded"
    BY <1>3, <2>1, SweptFits
  <2>3. \A j \in Ids : Swept(c)[j] \in StoredRow
    BY <2>2 DEF RowFits
  <2>4. Swept(c) \in [Ids -> StoredRow]
    BY <2>3 DEF Swept
  <2>. QED  BY <2>2, <2>4 DEF RowMove, NotFinished
<1>5. CASE e = Nothing(c)
  BY <1>4, <1>5 DEF Nothing, NoJob, NoRow
<1>6. CASE e \in Granting(c)
  <2>1. PICK i \in Ids : /\ Eligible(c, rows[i], 0)
                         /\ e = [table |-> [Swept(c) EXCEPT ![i] = Granted(c, rows[i], 0)],
                                 job |-> [id |-> i, row |-> Granted(c, rows[i], 0)],
                                 err |-> {}]
    BY <1>6 DEF Granting
  <2>. DEFINE g == Granted(c, rows[i], 0)
  <2>2. /\ RowFits(g) /\ g.token = t /\ g.state = "running" /\ g.attempts >= 1
        /\ g.attempts <= Budget /\ g.owner = w /\ g.queue = Queue
        /\ g.max_attempts = Budget /\ g.lease_until = config.lease /\ g.finished_at = NULL
    BY <1>1, <1>2, <1>3, <2>1, GrantedFits
  <2>. HIDE DEF g
  <2>3. g \in StoredRow
    BY <2>2 DEF RowFits
  <2>4. e.table = [Swept(c) EXCEPT ![i] = g] /\ e.job = [id |-> i, row |-> g] /\ e.err = {}
    BY <2>1 DEF g
  <2>5. e.table \in [Ids -> StoredRow]
    BY <1>4, <2>3, <2>4
  <2>6. \A j \in Ids : RowMove(rows[j], e.table[j]) /\ NotFinished(rows[j], e.table[j])
    <3>. TAKE j \in Ids
    <3>1. CASE j = i
      <4>1. e.table[j] = g
        BY <1>4, <2>4, <3>1
      <4>. QED  BY <2>2, <4>1 DEF RowMove, NotFinished
    <3>2. CASE j # i
      <4>1. e.table[j] = Swept(c)[j]
        BY <1>4, <2>4, <3>2
      <4>. QED  BY <1>4, <4>1
    <3>. QED  BY <3>1, <3>2
  <2>7. e.job \in ClaimedJob /\ e.job # NoJob
    <3>1. e.job \in ClaimedJob
      BY <1>1, <2>2, <2>3, <2>4 DEF ClaimedJob
    <3>2. e.job.id = i /\ i # NULL
      BY <2>4, Constants
    <3>. QED  BY <3>1, <3>2, NoJobNotClaimed
  <2>. QED  BY <2>2, <2>4, <2>5, <2>6, <2>7
<1>. QED  BY <1>5, <1>6 DEF c

TableAfter(c, j) == [rows EXCEPT ![j] = Updated(c, rows[j], 0)]

LEMMA UpdateMoves ==
  ASSUME Typed, NEW j \in Ids, NEW c, CallFits(c), Where(c, rows[j], 0)
  PROVE  /\ TableAfter(c, j) \in [Ids -> StoredRow]
         /\ \A i \in Ids : RowMove(rows[i], TableAfter(c, j)[i])
         /\ \A i \in Ids : NotFinished(rows[i], TableAfter(c, j)[i])
                            \/ (i = j /\ c.op = "Complete")
         /\ c.op # "Heartbeat" => TableAfter(c, j)[j].token = NULL
<1>. DEFINE w == Updated(c, rows[j], 0)
            table == TableAfter(c, j)
<1>1. \A i \in Ids : RowFits(rows[i]) /\ rows[i] \in StoredRow
  BY DEF Typed
<1>2. /\ RowFits(w) /\ w.token = IF c.op = "Heartbeat" THEN rows[j].token ELSE NULL
      /\ w.state = "succeeded" => c.op = "Complete"
  BY <1>1, UpdatedFits
<1>3. table = [rows EXCEPT ![j] = w] /\ rows \in [Ids -> StoredRow]
  BY DEF Typed, TableAfter
<1>. HIDE DEF w, table
<1>4. w \in StoredRow
  BY <1>2 DEF RowFits
<1>5. table \in [Ids -> StoredRow] /\ table[j] = w /\ \A i \in Ids : i # j => table[i] = rows[i]
  BY <1>3, <1>4
<1>6. /\ \A i \in Ids : RowMove(rows[i], table[i])
      /\ \A i \in Ids : NotFinished(rows[i], table[i]) \/ (i = j /\ c.op = "Complete")
      /\ c.op # "Heartbeat" => table[j].token = NULL
  BY <1>1, <1>2, <1>5 DEF RowMove, NotFinished
<1>. QED  BY <1>5, <1>6 DEF table

\* An acknowledgement that the database accepts, or rejects as canceled, finds
\* or leaves the row without the worker's lease.
LEMMA AcknowledgedMoves ==
  ASSUME Typed, job # NoJob, NEW e, e = Acknowledged(OwnCall)
  PROVE  /\ e.table \in [Ids -> StoredRow]
         /\ \A j \in Ids : RowMove(rows[j], e.table[j])
         /\ \A j \in Ids : \/ NotFinished(rows[j], e.table[j])
                           \/ pc = "completing" /\ rows[j].token = job.row.token
         /\ e.job = NoJob
         /\ pc \in Acknowledging /\ e.err = {} => e.table[job.id].token = NULL
         /\ "ErrCanceled" \in e.err => e.table[job.id].token = NULL
<1>. DEFINE c == OwnCall
            r == rows[job.id]
<1>1. /\ c.id = job.id /\ c.token = job.row.token /\ c.duration \in Int /\ c.delay \in Int
      /\ c.permanent \in BOOLEAN /\ c.op \in LeaseOps
      /\ pc \in Acknowledging => c.op # "Heartbeat"
      /\ c.op = "Complete" => pc = "completing"
  BY OwnCallIs DEF Acknowledging
<1>2. job.id \in Ids
  BY NoJobNotClaimed DEF Typed
<1>3. RowFits(r) /\ r.state \in JobState
  BY <1>2 DEF Typed, StoredRow
<1>. HIDE DEF c, r
<1>4. e = IF Where(c, r, 0)
          THEN [table |-> [rows EXCEPT ![job.id] = Updated(c, r, 0)], job |-> NoJob, err |-> {}]
          ELSE [table |-> rows, job |-> NoJob, err |-> Identity(Classified(c, r))]
  BY <1>1 DEF Acknowledged, c, r
<1>5. CASE Where(c, r, 0)
  <2>1. /\ e.table = [rows EXCEPT ![job.id] = Updated(c, r, 0)]
        /\ e.job = NoJob /\ e.err = {}
    BY <1>4, <1>5
  <2>2. Where(c, rows[job.id], 0) /\ e.table = TableAfter(c, job.id)
    BY <1>5, <2>1 DEF r, TableAfter
  <2>3. rows[job.id].token = job.row.token
    BY <1>1, <2>2 DEF Where, Fenced, LeaseOps
  <2>4. CallFits(c)
    BY <1>1 DEF CallFits
  <2>5. /\ e.table \in [Ids -> StoredRow]
        /\ \A i \in Ids : RowMove(rows[i], e.table[i])
        /\ \A i \in Ids : NotFinished(rows[i], e.table[i])
                          \/ (i = job.id /\ c.op = "Complete")
        /\ c.op # "Heartbeat" => e.table[job.id].token = NULL
    BY <1>2, <2>2, <2>4, UpdateMoves
  <2>. QED  BY <1>1, <2>1, <2>3, <2>5
<1>6. CASE ~Where(c, r, 0)
  <2>0. Classified(c, r) = classifyLease(r)
    BY <1>1 DEF Classified, LeaseOps
  <2>1. e.table = rows /\ e.job = NoJob /\ e.err = Identity(classifyLease(r))
    BY <2>0, <1>4, <1>6
  <2>2. /\ classifyLease(r) = "ErrCanceled" => r.state = "canceled"
        /\ classifyLease(r) # "ok"
    BY <1>3 DEF classifyLease
  <2>3. e.err # {} /\ ("ErrCanceled" \in e.err => classifyLease(r) = "ErrCanceled")
    BY <2>1, <2>2 DEF Identity
  <2>4. "ErrCanceled" \in e.err => rows[job.id].token = NULL
    BY <1>3, <2>2, <2>3 DEF RowFits, r
  <2>5. \A j \in Ids : RowMove(rows[j], rows[j]) /\ NotFinished(rows[j], rows[j])
    BY DEF Typed, RowMove, NotFinished
  <2>. QED  BY <2>1, <2>3, <2>4, <2>5 DEF Typed
<1>. QED  BY <1>5, <1>6

\* What the transaction of the call in flight may do.
LEMMA ExecutionMoves ==
  ASSUME Typed, Flow, InFlight, NEW e \in Executions
  PROVE  /\ e.table \in [Ids -> StoredRow]
         /\ \A j \in Ids : RowMove(rows[j], e.table[j])
         /\ \A j \in Ids : \/ NotFinished(rows[j], e.table[j])
                           \/ pc = "completing" /\ rows[j].token = job.row.token
         /\ e.job \in ClaimedJob \union {NoJob}
         /\ e.job.row.token \in FreshTokens \union {NULL}
         /\ pc \in Acknowledging /\ e.err = {} =>
              job # NoJob /\ e.table[job.id].token = NULL
         /\ "ErrCanceled" \in e.err => job # NoJob /\ e.table[job.id].token = NULL
<1>0. CASE ~Accepted
  <2>1. e = Refusal
    BY <1>0 DEF Executions
  <2>2. e.table = rows /\ e.job = NoJob /\ e.err = {"ErrInvalid"}
    BY <2>1 DEF Refusal
  <2>3. NoJob.row.token = NULL
    BY NoJobNotClaimed
  <2>4. \A j \in Ids : RowMove(rows[j], rows[j]) /\ NotFinished(rows[j], rows[j])
    BY DEF Typed, RowMove, NotFinished
  <2>. QED  BY <2>2, <2>3, <2>4 DEF Typed
<1>1. CASE Accepted /\ pc = "claiming"
  <2>1. PICK t \in FreshTokens :
          e \in Granting(ClaimCall(WorkerID, t)) \union {Nothing(ClaimCall(WorkerID, t))}
    BY <1>1 DEF Executions
  <2>2. WorkerID \in Workers
    BY Constants
  <2>3. e.err = {"ErrNoJob"} \/ e.err = {}
    BY <2>1, <2>2, GrantingMoves
  <2>4. pc \notin Acknowledging /\ "ErrCanceled" \notin e.err
    BY <1>1, <2>3 DEF Acknowledging
  <2>5. /\ e.table \in [Ids -> StoredRow]
        /\ \A j \in Ids : RowMove(rows[j], e.table[j]) /\ NotFinished(rows[j], e.table[j])
        /\ e.job \in ClaimedJob \union {NoJob}
        /\ e.job.row.token \in {t, NULL}
    BY <2>1, <2>2, GrantingMoves
  <2>. QED  BY <2>4, <2>5
<1>2. CASE Accepted /\ pc # "claiming"
  <2>1. e = Acknowledged(OwnCall)
    BY <1>2 DEF Executions
  <2>2. job # NoJob
    BY <1>2 DEF InFlight, Flow, Acknowledging
  <2>3. NoJob.row.token = NULL
    BY NoJobNotClaimed
  <2>. QED  BY <2>1, <2>2, <2>3, AcknowledgedMoves
<1>. QED  BY <1>0, <1>1, <1>2

-----------------------------------------------------------------------------
(* Steps of the database.                                                  *)

\* A lease that is gone does not come back: no claim draws its token again.
LEMMA SettledStays ==
  ASSUME Typed, job' = job, \A j \in Ids : RowMove(rows[j], rows'[j]), Settled
  PROVE  Settled'
<1>1. job.id \in Ids /\ job.row.token \in Tokens /\ job.row.token # NULL
  BY NoJobNotClaimed, Constants DEF Typed, Settled
<1>2. job.row.token \notin FreshTokens
  BY DEF FreshTokens
<1>. QED  BY <1>1, <1>2 DEF Settled, RowMove

LEMMA DatabaseStep ==
  ASSUME SystemInv, UNCHANGED vars,
         rows' \in [Ids -> StoredRow], \A j \in Ids : RowMove(rows[j], rows'[j]),
         job.row.token \in handled /\ job.row.token \in Tokens => job.row.token \in handled',
         ans' = [job |-> (ans').job, err |-> (ans').err],
         (ans').job \in ClaimedJob \union {NoJob},
         ans' # NoAnswer => ans # NoAnswer \/ InFlight,
         "ErrCanceled" \in (ans').err => Settled',
         pc \in Acknowledging /\ (ans').err = {} => Settled'
  PROVE  SystemInv'
<1>. USE DEF SystemInv
<1>1. UNCHANGED <<config, pc, ctx, job, failure, outcome, hb, hbErr>>
  BY DEF vars, attemptVars, hbVars
<1>2. Typed'
  BY <1>1 DEF Typed, RowMove
<1>3. Flow'
  BY <1>1 DEF Flow, InFlight, Acknowledging
<1>4. Settled => Settled'
  BY <1>1, SettledStays
<1>5. Settling'
  BY <1>1, <1>4 DEF Settling
<1>6. Succeeding'
  <2>1. pc \in Unjoined \union Acknowledging => job.row.token \in Tokens
    BY NoJobNotClaimed DEF Typed, Flow, Unjoined, InAttempt
  <2>. QED  BY <1>1, <2>1 DEF Succeeding, handlerErr
<1>. QED  BY <1>2, <1>3, <1>5, <1>6

\* What SucceededMeansHandled says of a step.
HandledFirst ==
  \A j \in Ids : rows[j].state # "succeeded" /\ rows'[j].state = "succeeded" =>
                 rows[j].token \in handled'

\* A success that is on record stays there while the worker may act on it.
LEMMA RecordKept ==
  ASSUME NEW t \in FreshTokens \union {NULL}, job.row.token \in handled,
         job.row.token \in Tokens, handled' = handled \ {t}
  PROVE  job.row.token \in handled'
BY NullAssumption DEF FreshTokens

LEMMA CommitsStep == SystemInv /\ Commits => SystemInv' /\ HandledFirst
<1>. SUFFICES ASSUME SystemInv, Commits PROVE SystemInv' /\ HandledFirst
  OBVIOUS
<1>. USE DEF SystemInv
<1>1. PICK e \in Executions :
        /\ rows' = e.table /\ ans' = [job |-> e.job, err |-> e.err]
        /\ handled' = handled \ {e.job.row.token}
  BY DEF Commits
<1>2. InFlight /\ UNCHANGED vars
  BY DEF Commits
<1>3. /\ rows' \in [Ids -> StoredRow]
      /\ \A j \in Ids : RowMove(rows[j], rows'[j])
      /\ \A j \in Ids : \/ NotFinished(rows[j], rows'[j])
                        \/ pc = "completing" /\ rows[j].token = job.row.token
      /\ e.job \in ClaimedJob \union {NoJob}
      /\ e.job.row.token \in FreshTokens \union {NULL}
      /\ pc \in Acknowledging /\ e.err = {} => job # NoJob /\ rows'[job.id].token = NULL
      /\ "ErrCanceled" \in e.err => job # NoJob /\ rows'[job.id].token = NULL
  BY <1>1, <1>2, ExecutionMoves
<1>4. job.row.token \in handled /\ job.row.token \in Tokens => job.row.token \in handled'
  BY <1>1, <1>3, RecordKept
<1>5. job # NoJob /\ rows'[job.id].token = NULL => Settled'
  BY <1>2, NoJobNotClaimed, NullAssumption DEF Typed, Settled, vars, attemptVars
<1>6. /\ ans' = [job |-> (ans').job, err |-> (ans').err]
      /\ (ans').job = e.job /\ (ans').err = e.err
  BY <1>1
<1>7. SystemInv'
  BY <1>2, <1>3, <1>4, <1>5, <1>6, DatabaseStep
<1>8. HandledFirst
  <2>1. pc = "completing" => job.row.token \in handled /\ job.row.token \in Tokens
    BY NoJobNotClaimed DEF Succeeding, Flow, Typed, Acknowledging
  <2>. QED  BY <1>3, <1>4, <2>1 DEF HandledFirst, NotFinished
<1>. QED  BY <1>7, <1>8

LEMMA InDoubtStep == SystemInv /\ InDoubt => SystemInv' /\ HandledFirst
<1>. SUFFICES ASSUME SystemInv, InDoubt PROVE SystemInv' /\ HandledFirst
  OBVIOUS
<1>. USE DEF SystemInv
<1>1. PICK e \in Executions :
        /\ rows' \in {rows, e.table}
        /\ ans' = [job |-> e.job,
                   err |-> {Unknown} \union {i \in {"context.Canceled"} : CallCanceled}]
        /\ handled' = handled \ {e.job.row.token}
  BY DEF InDoubt
<1>2. InFlight /\ UNCHANGED vars
  BY DEF InDoubt
<1>3. /\ e.table \in [Ids -> StoredRow]
      /\ \A j \in Ids : RowMove(rows[j], e.table[j])
      /\ \A j \in Ids : \/ NotFinished(rows[j], e.table[j])
                        \/ pc = "completing" /\ rows[j].token = job.row.token
      /\ e.job \in ClaimedJob \union {NoJob}
      /\ e.job.row.token \in FreshTokens \union {NULL}
  BY <1>2, ExecutionMoves
<1>4. /\ rows' \in [Ids -> StoredRow]
      /\ \A j \in Ids : RowMove(rows[j], rows'[j])
      /\ \A j \in Ids : \/ NotFinished(rows[j], rows'[j])
                        \/ pc = "completing" /\ rows[j].token = job.row.token
  <2>1. CASE rows' = rows
    BY <2>1 DEF Typed, RowMove, NotFinished
  <2>2. CASE rows' = e.table
    BY <2>2, <1>3
  <2>. QED  BY <1>1, <2>1, <2>2
<1>5. job.row.token \in handled /\ job.row.token \in Tokens => job.row.token \in handled'
  BY <1>1, <1>3, RecordKept
<1>6. /\ ans' = [job |-> (ans').job, err |-> (ans').err]
      /\ (ans').job = e.job /\ Unknown \in (ans').err /\ "ErrCanceled" \notin (ans').err
  BY <1>1 DEF Unknown
<1>7. (ans').err # {} /\ (ans').job \in ClaimedJob \union {NoJob}
  BY <1>3, <1>6
<1>8. SystemInv'
  BY <1>2, <1>4, <1>5, <1>6, <1>7, DatabaseStep
<1>9. HandledFirst
  <2>1. pc = "completing" => job.row.token \in handled /\ job.row.token \in Tokens
    BY NoJobNotClaimed DEF Succeeding, Flow, Typed, Acknowledging
  <2>. QED  BY <1>4, <1>5, <2>1 DEF HandledFirst, NotFinished
<1>. QED  BY <1>8, <1>9

LEMMA ErrsStep == SystemInv /\ Errs => SystemInv' /\ HandledFirst
<1>. SUFFICES ASSUME SystemInv, Errs PROVE SystemInv' /\ HandledFirst
  OBVIOUS
<1>. USE DEF SystemInv
<1>1. InFlight /\ UNCHANGED vars /\ rows' = rows /\ handled' = handled
  BY DEF Errs
<1>2. PICK i \in {"other", "context.Canceled"} : ans' = [job |-> NoJob, err |-> {i}]
  BY DEF Errs
<1>3. /\ ans' = [job |-> (ans').job, err |-> (ans').err] /\ (ans').job = NoJob
      /\ (ans').err # {} /\ "ErrCanceled" \notin (ans').err
  BY <1>2
<1>4. rows' \in [Ids -> StoredRow] /\ \A j \in Ids : RowMove(rows[j], rows'[j])
  BY <1>1 DEF Typed, RowMove
<1>5. SystemInv'
  BY <1>1, <1>3, <1>4, DatabaseStep
<1>. QED  BY <1>1, <1>5 DEF HandledFirst

\* A step of others leaves the answer to the worker's call alone.
LEMMA OthersStep ==
  ASSUME SystemInv, UNCHANGED <<vars, ans>>,
         rows' \in [Ids -> StoredRow], \A j \in Ids : RowMove(rows[j], rows'[j]),
         job.row.token \in handled /\ job.row.token \in Tokens => job.row.token \in handled'
  PROVE  SystemInv'
<1>. USE DEF SystemInv
<1>1. UNCHANGED vars /\ job' = job /\ ans' = ans
  BY DEF vars, attemptVars
<1>2. Settled => Settled'
  BY <1>1, SettledStays
<1>3. /\ "ErrCanceled" \in (ans').err => Settled'
      /\ pc \in Acknowledging /\ (ans').err = {} => Settled'
  BY <1>1, <1>2 DEF Settling
<1>4. /\ ans' = [job |-> (ans').job, err |-> (ans').err]
      /\ (ans').job \in ClaimedJob \union {NoJob}
  BY <1>1 DEF Typed
<1>. QED  BY <1>1, <1>3, <1>4, DatabaseStep

LEMMA RivalClaimsStep == SystemInv /\ RivalClaims => SystemInv' /\ HandledFirst
<1>. SUFFICES ASSUME SystemInv, RivalClaims PROVE SystemInv' /\ HandledFirst
  OBVIOUS
<1>. USE DEF SystemInv
<1>1. UNCHANGED <<vars, ans>>
  BY DEF RivalClaims
<1>2. PICK w \in Rivals, t \in FreshTokens : \E e \in Granting(ClaimCall(w, t)) :
        rows' = e.table /\ handled' = handled \ {t}
  BY DEF RivalClaims
<1>3. PICK e \in Granting(ClaimCall(w, t)) : rows' = e.table /\ handled' = handled \ {t}
  BY <1>2
<1>4. w \in Workers
  BY DEF Rivals
<1>5. /\ rows' \in [Ids -> StoredRow]
      /\ \A j \in Ids : RowMove(rows[j], rows'[j]) /\ NotFinished(rows[j], rows'[j])
  BY <1>3, <1>4, GrantingMoves
<1>6. job.row.token \in handled /\ job.row.token \in Tokens => job.row.token \in handled'
  BY <1>3, RecordKept
<1>7. SystemInv'
  BY <1>1, <1>5, <1>6, OthersStep
<1>. QED  BY <1>5, <1>7 DEF HandledFirst, NotFinished

LEMMA RivalAcknowledgesStep == SystemInv /\ RivalAcknowledges => SystemInv' /\ HandledFirst
<1>. SUFFICES ASSUME SystemInv, RivalAcknowledges PROVE SystemInv' /\ HandledFirst
  OBVIOUS
<1>. USE DEF SystemInv
<1>1. UNCHANGED <<vars, ans>>
  BY DEF RivalAcknowledges
<1>2. PICK j \in Ids, op \in LeaseOps, permanent \in BOOLEAN :
        LET c == [LeaseCall(op, j, rows[j].token) EXCEPT !.permanent = permanent] IN
        /\ Where(c, rows[j], 0)
        /\ rows' = [rows EXCEPT ![j] = Updated(c, rows[j], 0)]
        /\ handled' = IF op = "Complete" THEN handled \union {c.token} ELSE handled
  BY DEF RivalAcknowledges
<1>. DEFINE c == [LeaseCall(op, j, rows[j].token) EXCEPT !.permanent = permanent]
<1>3. /\ c.op = op /\ c.token = rows[j].token /\ c.duration = config.lease
      /\ c.permanent = permanent /\ c.delay = 0
  BY DEF LeaseCall, NoCall
<1>4. /\ Where(c, rows[j], 0) /\ rows' = TableAfter(c, j)
      /\ handled' = IF op = "Complete" THEN handled \union {c.token} ELSE handled
  BY <1>2 DEF TableAfter
<1>. HIDE DEF c
<1>5. CallFits(c)
  BY <1>3, ConfigTyped DEF CallFits
<1>6. /\ rows' \in [Ids -> StoredRow]
      /\ \A i \in Ids : RowMove(rows[i], rows'[i])
      /\ \A i \in Ids : NotFinished(rows[i], rows'[i]) \/ (i = j /\ c.op = "Complete")
  BY <1>4, <1>5, UpdateMoves
<1>7. handled \subseteq handled'
  BY <1>4
<1>8. SystemInv'
  BY <1>1, <1>6, <1>7, OthersStep
<1>9. HandledFirst
  BY <1>3, <1>4, <1>6 DEF HandledFirst, NotFinished
<1>. QED  BY <1>8, <1>9

LEMMA OperatorCancelsStep == SystemInv /\ OperatorCancels => SystemInv' /\ HandledFirst
<1>. SUFFICES ASSUME SystemInv, OperatorCancels PROVE SystemInv' /\ HandledFirst
  OBVIOUS
<1>. USE DEF SystemInv
<1>1. UNCHANGED <<vars, ans>> /\ handled' = handled
  BY DEF OperatorCancels
<1>2. PICK j \in Ids :
        LET c == [NoCall EXCEPT !.op = "Cancel", !.id = j] IN
        Where(c, rows[j], 0) /\ rows' = [rows EXCEPT ![j] = Updated(c, rows[j], 0)]
  BY DEF OperatorCancels
<1>. DEFINE c == [NoCall EXCEPT !.op = "Cancel", !.id = j]
<1>3. c.op = "Cancel" /\ CallFits(c)
  BY DEF CallFits, NoCall
<1>4. Where(c, rows[j], 0) /\ rows' = TableAfter(c, j)
  BY <1>2 DEF TableAfter
<1>. HIDE DEF c
<1>5. /\ rows' \in [Ids -> StoredRow]
      /\ \A i \in Ids : RowMove(rows[i], rows'[i])
      /\ \A i \in Ids : NotFinished(rows[i], rows'[i])
  BY <1>3, <1>4, UpdateMoves
<1>6. SystemInv'
  BY <1>1, <1>5, OthersStep
<1>. QED  BY <1>5, <1>6 DEF HandledFirst, NotFinished

LEMMA AgeStep == SystemInv /\ Age => SystemInv' /\ HandledFirst
<1>. SUFFICES ASSUME SystemInv, Age PROVE SystemInv' /\ HandledFirst
  OBVIOUS
<1>. USE DEF SystemInv
<1>1. UNCHANGED <<vars, ans>> /\ handled' = handled /\ rows' = [j \in Ids |-> Aged(rows[j])]
  BY DEF Age
<1>2. \A j \in Ids : /\ RowFits(Aged(rows[j])) /\ Aged(rows[j]).token = rows[j].token
                     /\ Aged(rows[j]).state = rows[j].state
  BY AgedFits DEF Typed
<1>3. /\ rows' \in [Ids -> StoredRow]
      /\ \A j \in Ids : RowMove(rows[j], rows'[j]) /\ rows'[j].state = rows[j].state
  BY <1>1, <1>2 DEF RowMove, RowFits
<1>4. SystemInv'
  BY <1>1, <1>3, OthersStep
<1>. QED  BY <1>3, <1>4 DEF HandledFirst

-----------------------------------------------------------------------------
(* Steps of the worker.  None of them touches the table.                   *)

\* Run moves between the places where it has no attempt.
LEMMA RunStepOutside ==
  ASSUME SystemInv, Start \/ CheckContext \/ WaitEnds, UNCHANGED storeVars
  PROVE  SystemInv'
<1>. USE DEF SystemInv
<1>1. UNCHANGED <<config, ctx, job, failure, outcome, hb, hbErr, rows, ans, handled>>
  BY DEF Start, CheckContext, WaitEnds, attemptVars, hbVars, storeVars
<1>2. /\ pc \in {"start", "loop", "waiting"}
      /\ pc' \in {"loop", "claiming", "returned"}
  BY DEF Start, CheckContext, WaitEnds, Proceed, Results
<1>3. Typed'
  BY <1>1, <1>2 DEF Typed, Places
<1>4. Flow'
  BY <1>1, <1>2 DEF Flow, InAttempt, Acknowledging
<1>5. Settling'
  BY <1>1, <1>2 DEF Settling, Flow, Settled, Acknowledging
<1>6. Succeeding'
  BY <1>1, <1>2 DEF Succeeding, Unjoined, Acknowledging
<1>. QED  BY <1>3, <1>4, <1>5, <1>6

\* Run moves inside an attempt before it joins the heartbeat.
LEMMA RunStepInside ==
  ASSUME SystemInv, StopHeartbeat \/ CancelAttempt, UNCHANGED storeVars
  PROVE  SystemInv'
<1>. USE DEF SystemInv
<1>1. UNCHANGED <<config, ctx, job, failure, outcome, hb, hbErr, rows, ans, handled>>
  BY DEF StopHeartbeat, CancelAttempt, attemptVars, hbVars, storeVars
<1>2. /\ pc \in {"handled", "stopped"}
      /\ pc' \in {"stopped", "joining"}
  BY DEF StopHeartbeat, CancelAttempt, Proceed, Results
<1>3. Typed'
  BY <1>1, <1>2 DEF Typed, Places, InAttempt
<1>4. Flow'
  BY <1>1, <1>2 DEF Flow, InAttempt, Acknowledging
<1>5. Settling'
  BY <1>1, <1>2 DEF Settling, Settled, Acknowledging
<1>6. Succeeding'
  BY <1>1, <1>2 DEF Succeeding, Unjoined, Acknowledging, handlerErr
<1>. QED  BY <1>3, <1>4, <1>5, <1>6

\* Run takes the next job after a renewal that was refused because the job is
\* canceled: its lease is gone.
LEMMA AfterJoinSettled ==
  /\ afterJoin = "loop" => "ErrCanceled" \in hbErr
  /\ afterJoin = "completing" => handlerErr = "nil"
BY DEF afterJoin, acknowledge

LEMMA FailureTyped ==
  ASSUME Typed, job # NoJob
  PROVE  Failure.permanent \in BOOLEAN /\ Failure.delay \in Int
<1>1. Attempts \in Nat
  BY NoJobNotClaimed DEF Typed, Attempts
<1>2. Delay(config.retry, Attempts) \in 0..(MaxRetryDelay * Microsecond)
  BY <1>1, ConfigTyped, DelayBounded
<1>3. MaxRetryDelay * Microsecond \in Nat
  BY LimitsAssumption, DurationAssumption
<1>4. Delay(config.retry, Attempts) \in Int
  BY <1>2, <1>3
<1>5. IsPermanent(handlerErr) \in BOOLEAN
  BY DEF IsPermanent
<1>. QED  BY <1>4, <1>5 DEF Failure

LEMMA JoinStep == ASSUME SystemInv, Join, UNCHANGED storeVars PROVE SystemInv'
<1>. USE DEF SystemInv
<1>1. /\ UNCHANGED <<config, ctx, job, outcome, hbErr, rows, ans, handled>>
      /\ pc = "joining" /\ hb = "sent" /\ hb' = "none"
      /\ failure' = IF afterJoin = "failing" THEN Failure ELSE failure
  BY DEF Join, storeVars
<1>2. /\ pc' = IF afterJoin \in Results THEN "returned" ELSE afterJoin
      /\ pc' \in {"completing", "failing", "loop", "returned"}
  BY AfterJoin DEF Join, Proceed, Results
<1>3. job # NoJob /\ ans = NoAnswer
  BY <1>1 DEF Flow, InAttempt, Acknowledging
<1>4. Typed'
  BY <1>1, <1>2, <1>3, FailureTyped DEF Typed, Places
<1>5. Flow'
  BY <1>1, <1>2, <1>3 DEF Flow, InAttempt, Acknowledging
<1>6. Settling'
  <2>1. pc' = "loop" => "ErrCanceled" \in hbErr
    BY <1>2, AfterJoinSettled
  <2>2. ans.err # {}
    BY <1>3 DEF NoAnswer
  <2>. QED  BY <1>1, <1>2, <2>1, <2>2 DEF Settling, Settled
<1>7. Succeeding'
  <2>1. pc' = "completing" => handlerErr = "nil"
    BY <1>2, AfterJoinSettled
  <2>. QED  BY <1>1, <1>2, <2>1 DEF Succeeding, Unjoined, Acknowledging, handlerErr
<1>. QED  BY <1>4, <1>5, <1>6, <1>7

\* The heartbeat goroutine on its own, the parent's context: no call is
\* answered, and what heartbeat returns is the context's error at most.
LEMMA HeartbeatAlone ==
  ASSUME SystemInv, UNCHANGED storeVars,
         HeartbeatCancels \/ HeartbeatSends \/ HeartbeatStops
           \/ HeartbeatContextDone \/ HeartbeatTicks \/ Propagate
  PROVE  SystemInv'
<1>. USE DEF SystemInv
<1>1. UNCHANGED <<config, pc, ctx, job, failure, outcome, rows, ans, handled>>
  BY DEF HeartbeatCancels, HeartbeatSends, HeartbeatStops, HeartbeatContextDone,
         HeartbeatTicks, Propagate, attemptVars, hbVars, storeVars
<1>2. /\ hb # "none" /\ (hb = "calling" => hb' = "calling")
      /\ hbErr' = hbErr \/ hbErr' = {} \/ hbErr' = {ctx} \/ hbErr' = {"context.Canceled"}
  BY DEF HeartbeatCancels, HeartbeatSends, HeartbeatStops, HeartbeatContextDone,
         HeartbeatTicks, Propagate, attemptVars, hbVars
<1>3. "ErrCanceled" # ctx
  BY DEF Typed, ContextErrors
<1>4. Typed'
  BY <1>1 DEF Typed
<1>5. Flow'
  BY <1>1, <1>2 DEF Flow
<1>6. Settling'
  BY <1>1, <1>2, <1>3 DEF Settling, Settled
<1>7. Succeeding'
  BY <1>1 DEF Succeeding, handlerErr
<1>. QED  BY <1>4, <1>5, <1>6, <1>7

LEMMA WorksStep == SystemInv /\ Works => SystemInv' /\ HandledFirst
<1>. SUFFICES ASSUME SystemInv, Works PROVE SystemInv' /\ HandledFirst
  OBVIOUS
<1>1. UNCHANGED storeVars /\ rows' = rows
  BY DEF Works, storeVars
<1>2. SystemInv'
  BY <1>1, RunStepOutside, RunStepInside, JoinStep, HeartbeatAlone
     DEF Works, RunStep, HeartbeatStep
<1>. QED  BY <1>1, <1>2 DEF HandledFirst

\* The handler's success is put on record when it returns.
LEMMA HandleStep == SystemInv /\ Handle => SystemInv' /\ HandledFirst
<1>. SUFFICES ASSUME SystemInv, Handle PROVE SystemInv' /\ HandledFirst
  OBVIOUS
<1>. USE DEF SystemInv
<1>1. PICK o \in Outcomes : HandlerReturns(o)
  BY DEF Handle
<1>2. /\ UNCHANGED <<config, ctx, job, failure, hb, hbErr, rows, ans>>
      /\ pc = "handling" /\ pc' = "handled" /\ outcome' = o
      /\ handled' = IF handlerErr' = "nil" THEN handled \union {job.row.token} ELSE handled
  BY <1>1 DEF Handle, HandlerReturns, Proceed, Results, hbVars
<1>3. Typed'
  BY <1>2 DEF Typed, Places, InAttempt
<1>4. Flow'
  BY <1>2 DEF Flow, InAttempt, Acknowledging
<1>5. Settling'
  BY <1>2 DEF Settling, Settled, Acknowledging
<1>6. Succeeding'
  BY <1>2 DEF Succeeding
<1>. QED  BY <1>2, <1>3, <1>4, <1>5, <1>6 DEF HandledFirst

LEMMA ClaimAnswered ==
  ASSUME SystemInv, ClaimReturns(ans.job, ans.err), ans' = NoAnswer,
         UNCHANGED <<rows, handled, disrupted>>
  PROVE  SystemInv'
<1>. USE DEF SystemInv
<1>. DEFINE next == afterClaim(ans.job, ans.err)
<1>1. UNCHANGED <<config, ctx, rows, handled, outcome, failure>> /\ pc = "claiming"
  BY DEF ClaimReturns, attemptVars
<1>2. /\ (ans').job = NoJob /\ (ans').err = {"none"}
      /\ ans' = [job |-> (ans').job, err |-> (ans').err]
  BY DEF NoAnswer
<1>3. pc' = IF next \in Results THEN "returned" ELSE next
  BY DEF ClaimReturns, Proceed
<1>4. CASE next = "handling"
  <2>1. pc' = "handling" /\ job' = ans.job /\ hbErr' = {}
    BY <1>3, <1>4 DEF ClaimReturns, Results
  <2>2. job' # NoJob
    BY <1>4, <2>1, AfterClaim DEF validateClaimedAttempt, NoJob
  <2>3. Typed'
    BY <1>1, <1>2, <2>1 DEF Typed, Places, InAttempt
  <2>4. Flow'
    BY <2>1, <2>2 DEF Flow, InAttempt
  <2>5. Settling'
    BY <1>2, <2>1 DEF Settling, Acknowledging
  <2>6. Succeeding'
    BY <2>1 DEF Succeeding, Unjoined, Acknowledging
  <2>. QED  BY <2>3, <2>4, <2>5, <2>6
<1>5. CASE next # "handling"
  <2>1. UNCHANGED <<job, hb, hbErr>>
    BY <1>5 DEF ClaimReturns, attemptVars, hbVars
  <2>2. pc' \in {"waiting", "returned"}
    BY <1>3, <1>5, AfterClaim DEF Results
  <2>3. Typed'
    BY <1>1, <1>2, <2>1, <2>2 DEF Typed, Places
  <2>4. Flow'
    BY <1>1, <2>1, <2>2 DEF Flow, InAttempt, Acknowledging
  <2>5. Settling'
    BY <1>1, <1>2, <2>1, <2>2 DEF Settling, Settled, Acknowledging
  <2>6. Succeeding'
    BY <2>2 DEF Succeeding, Unjoined, Acknowledging
  <2>. QED  BY <2>3, <2>4, <2>5, <2>6
<1>. QED  BY <1>4, <1>5

\* Run takes the next job after an answer that proves its lease settled.
LEMMA AcknowledgementAnswered ==
  ASSUME SystemInv, AckReturns(ans.err), ans' = NoAnswer,
         UNCHANGED <<rows, handled, disrupted>>
  PROVE  SystemInv'
<1>. USE DEF SystemInv
<1>1. /\ UNCHANGED <<config, ctx, job, outcome, failure, hb, hbErr, rows, handled>>
      /\ pc \in Acknowledging
  BY DEF AckReturns, attemptVars, hbVars, Acknowledging
<1>2. /\ (ans').job = NoJob /\ (ans').err = {"none"}
      /\ ans' = [job |-> (ans').job, err |-> (ans').err]
  BY DEF NoAnswer
<1>3. /\ pc' \in {"loop", "returned"}
      /\ pc' = "loop" => "ErrCanceled" \in ans.err \/ ans.err = {}
  BY DEF AckReturns, Proceed, Results, afterAck
<1>4. Typed'
  BY <1>1, <1>2, <1>3 DEF Typed, Places
<1>5. Flow'
  BY <1>1, <1>3 DEF Flow, InAttempt, Acknowledging
<1>6. Settling'
  BY <1>1, <1>2, <1>3 DEF Settling, Settled, Acknowledging
<1>7. Succeeding'
  BY <1>3 DEF Succeeding, Unjoined, Acknowledging
<1>. QED  BY <1>4, <1>5, <1>6, <1>7

LEMMA RenewalAnswered ==
  ASSUME SystemInv, HeartbeatReturns(ans.err), ans' = NoAnswer,
         UNCHANGED <<rows, handled, disrupted>>
  PROVE  SystemInv'
<1>. USE DEF SystemInv
<1>1. /\ UNCHANGED <<config, pc, ctx, job, outcome, failure, rows, handled>>
      /\ hb = "calling" /\ hbErr' = ans.err
  BY DEF HeartbeatReturns, attemptVars
<1>2. /\ (ans').job = NoJob /\ (ans').err = {"none"}
      /\ ans' = [job |-> (ans').job, err |-> (ans').err]
  BY DEF NoAnswer
<1>3. Typed'
  BY <1>1, <1>2 DEF Typed
<1>4. Flow'
  BY <1>1 DEF Flow
<1>5. Settling'
  BY <1>1, <1>2 DEF Settling, Settled
<1>6. Succeeding'
  BY <1>1 DEF Succeeding, handlerErr
<1>. QED  BY <1>3, <1>4, <1>5, <1>6

LEMMA AnswerStep == SystemInv /\ Answer => SystemInv' /\ HandledFirst
<1>. SUFFICES ASSUME SystemInv, Answer PROVE SystemInv' /\ HandledFirst
  OBVIOUS
<1>1. SystemInv'
  BY ClaimAnswered, AcknowledgementAnswered, RenewalAnswered DEF Answer
<1>. QED  BY <1>1 DEF Answer, HandledFirst

\* Run begins anew with no job: whatever the process knew is forgotten.
LEMMA ResetStep == SystemInv /\ Reset => SystemInv' /\ HandledFirst
<1>. SUFFICES ASSUME SystemInv, Reset PROVE SystemInv' /\ HandledFirst
  OBVIOUS
<1>. USE DEF SystemInv
<1>1. /\ pc' = "start" /\ ctx' = "live" /\ job' = NoJob /\ hb' = "none" /\ hbErr' = {}
      /\ outcome' = [how |-> "return", err |-> "nil"]
      /\ failure' = [permanent |-> FALSE, delay |-> 0]
      /\ ans' = NoAnswer /\ UNCHANGED <<config, rows, handled>>
  BY DEF Reset
<1>2. /\ (ans').job = NoJob /\ (ans').err = {"none"}
      /\ ans' = [job |-> (ans').job, err |-> (ans').err]
  BY <1>1 DEF NoAnswer
<1>3. Typed'
  <2>1. outcome' \in Outcomes
    BY <1>1 DEF Outcomes
  <2>. QED  BY <1>1, <1>2, <2>1 DEF Typed, Places
<1>4. Flow'
  BY <1>1 DEF Flow, InAttempt, Acknowledging
<1>5. Settling'
  BY <1>1, <1>2 DEF Settling, Acknowledging
<1>6. Succeeding'
  BY <1>1 DEF Succeeding, Unjoined, Acknowledging
<1>. QED  BY <1>1, <1>3, <1>4, <1>5, <1>6 DEF HandledFirst

LEMMA StopStep == SystemInv /\ Stop => SystemInv' /\ HandledFirst
<1>. SUFFICES ASSUME SystemInv, Stop PROVE SystemInv' /\ HandledFirst
  OBVIOUS
<1>. USE DEF SystemInv
<1>1. /\ UNCHANGED <<config, pc, job, outcome, failure, hb, hbErr, rows, ans, handled>>
      /\ ctx' \in ContextErrors
  BY DEF Stop, Shutdown, attemptVars, hbVars
<1>2. Typed' /\ Flow'
  BY <1>1 DEF Typed, Flow
<1>3. Settling' /\ Succeeding'
  BY <1>1 DEF Settling, Settled, Succeeding, handlerErr
<1>. QED  BY <1>1, <1>2, <1>3 DEF HandledFirst

LEMMA IdleStep == SystemInv /\ UNCHANGED systemVars => SystemInv'
BY DEF systemVars, vars, attemptVars, hbVars, storeVars, SystemInv, Typed, Flow, Settling,
       Settled, Succeeding, handlerErr

-----------------------------------------------------------------------------
(* The system.                                                             *)

LEMMA SystemStarts == SystemInit => SystemInv
<1>. SUFFICES ASSUME SystemInit PROVE SystemInv
  OBVIOUS
<1>1. \A j \in Ids : RowFits(rows[j])
  BY InsertedFits DEF SystemInit
<1>2. rows \in [Ids -> StoredRow]
  BY <1>1 DEF SystemInit, RowFits
<1>3. /\ ans.job = NoJob /\ ans.err = {"none"} /\ ans = [job |-> ans.job, err |-> ans.err]
  BY DEF SystemInit, NoAnswer
<1>4. outcome \in Outcomes
  BY DEF SystemInit, Init, Outcomes
<1>5. Typed
  BY <1>1, <1>2, <1>3, <1>4 DEF SystemInit, Init, Typed, Places
<1>6. Flow
  BY DEF SystemInit, Init, Flow, InAttempt, Acknowledging
<1>7. Settling /\ Succeeding
  BY <1>3 DEF SystemInit, Init, Settling, Succeeding, Unjoined, Acknowledging
<1>. QED  BY <1>5, <1>6, <1>7 DEF SystemInv

LEMMA SystemStep == SystemInv /\ [SystemNext]_systemVars => SystemInv'
<1>. SUFFICES ASSUME SystemInv, [SystemNext]_systemVars PROVE SystemInv'
  OBVIOUS
<1>. QED
  BY CommitsStep, InDoubtStep, ErrsStep, AnswerStep, HandleStep, WorksStep, ResetStep,
     StopStep, RivalClaimsStep, RivalAcknowledgesStep, OperatorCancelsStep, AgeStep,
     IdleStep DEF SystemNext, Restart, Crash

LEMMA SystemStepHandled == SystemInv /\ SystemNext => HandledFirst
BY CommitsStep, InDoubtStep, ErrsStep, AnswerStep, HandleStep, WorksStep, ResetStep,
   StopStep, RivalClaimsStep, RivalAcknowledgesStep, OperatorCancelsStep, AgeStep
   DEF SystemNext, Restart, Crash

\* The invariant the theorems of this module rest on.
THEOREM SystemInvariant == SystemSpec => []SystemInv
BY SystemStarts, SystemStep, PTL DEF SystemSpec

\* A worker that looks for its next job has left no attempt behind: whatever
\* Claim, Heartbeat, Complete and Fail answered, and whoever else acted.
THEOREM AttemptsSettled == SystemSpec => []SettledBeforeNext
<1>1. SystemInv => SettledBeforeNext
  BY DEF SystemInv, Settling, Settled, SettledBeforeNext
<1>. QED  BY <1>1, SystemInvariant, PTL

\* A job becomes succeeded only when the handler of the attempt that holds its
\* lease at that moment has returned nil.
THEOREM SuccessIsHandled == SystemSpec => SucceededMeansHandled
<1>1. SystemInv /\ [SystemNext]_systemVars => [HandledFirst]_systemVars
  BY SystemStepHandled
<1>. QED  BY <1>1, SystemInvariant, PTL DEF SystemSpec, SucceededMeansHandled, HandledFirst

-----------------------------------------------------------------------------
(* What one side sends the other accepts.                                  *)

LEMMA AcceptedConfig ==
  ASSUME Typed, validate(config)
  PROVE  /\ config.lease \in Nat
         /\ \A attempt \in Nat : attempt >= 1 => policyValid(config.retry, attempt)
BY ConfigTyped, LimitsAssumption DEF validate, validateClaim, policyValid

\* What Claim grants passes the worker's own check of it.
LEMMA GrantAccepted ==
  ASSUME Typed, validate(config), NEW t \in FreshTokens,
         NEW e \in Granting(ClaimCall(WorkerID, t)) \union {Nothing(ClaimCall(WorkerID, t))},
         e.err = {}
  PROVE  validateClaimedAttempt(e.job)
<1>1. WorkerID \in Workers
  BY Constants
<1>2. e.job # NoJob /\ e.job \in ClaimedJob \union {NoJob}
  BY <1>1, GrantingMoves
<1>. DEFINE r == e.job.row
<1>3. /\ r.queue = Queue /\ r.owner = WorkerID /\ r.state = "running"
      /\ r.max_attempts = Budget /\ r.attempts <= Budget
      /\ r.lease_until = config.lease /\ r.finished_at = NULL
  BY <1>1, <1>2, GrantingMoves
<1>4. /\ r.token \in Tokens /\ e.job.id \in Ids /\ r.attempts \in Nat /\ r.attempts >= 1
  BY <1>2, NoJobNotClaimed
<1>5. r.token # NULL /\ r.owner # NULL /\ r.lease_until # NULL /\ e.job.id # NULL
  BY <1>1, <1>3, <1>4, AcceptedConfig, Constants
<1>. HIDE DEF r
<1>6. validateStoredJob(r)
  <2>1. r.state \notin Terminal /\ r.state \in JobState
    BY <1>3 DEF Terminal, JobState
  <2>2. /\ r.attempts >= 0 /\ r.attempts <= r.max_attempts
        /\ r.max_attempts >= 1 /\ r.max_attempts <= MaxAttempts /\ r.attempts # 0
    BY <1>3, <1>4, Constants
  <2>. QED  BY <1>3, <1>5, <2>1, <2>2 DEF validateStoredJob
<1>. QED  BY <1>3, <1>5, <1>6 DEF validateClaimedAttempt, r

\* No step changes the configuration.
LEMMA ConfigKept == ASSUME [SystemNext]_systemVars PROVE config' = config
<1>1. CASE Works
  BY <1>1 DEF Works, RunStep, HeartbeatStep, Start, CheckContext, WaitEnds, StopHeartbeat,
              CancelAttempt, Join, HeartbeatCancels, HeartbeatSends, HeartbeatStops,
              HeartbeatContextDone, HeartbeatTicks, Propagate
<1>2. CASE Answer
  BY <1>2 DEF Answer, ClaimReturns, AckReturns, HeartbeatReturns
<1>3. CASE Handle \/ Restart \/ Crash \/ Stop
  BY <1>3 DEF Handle, HandlerReturns, Restart, Crash, Reset, Stop, Shutdown
<1>4. CASE \/ Commits \/ InDoubt \/ Errs \/ RivalClaims \/ RivalAcknowledges
           \/ OperatorCancels \/ Age \/ UNCHANGED systemVars
  BY <1>4 DEF Commits, InDoubt, Errs, RivalClaims, RivalAcknowledges, OperatorCancels,
              Age, systemVars, vars
<1>. QED  BY <1>1, <1>2, <1>3, <1>4 DEF SystemNext

\* Every call of the worker passes the repository's checks.
LEMMA CallAccepted == ASSUME SystemInv, Accepting, InFlight PROVE Accepted
<1>. USE DEF SystemInv
<1>1. validateClaim(config.lease)
  BY DEF Accepting, validate
<1>2. ASSUME pc # "claiming" PROVE validateLeaseOperation(job)
  <2>1. job # NoJob
    BY <1>2 DEF InFlight, Flow, Acknowledging
  <2>. QED  BY <2>1, NoJobNotClaimed, Constants DEF Typed, validateLeaseOperation
<1>. QED  BY <1>1, <1>2 DEF Accepted, Accepting, FailureFits

\* So its execution is not a refusal, and what is claimed the worker accepts.
LEMMA ExecutionAccepted ==
  ASSUME SystemInv, Accepting, InFlight, NEW e \in Executions
  PROVE  /\ "ErrInvalid" \notin e.err
         /\ pc = "claiming" /\ e.err = {} => validateClaimedAttempt(e.job)
<1>. USE DEF SystemInv
<1>0. Accepted
  BY CallAccepted
<1>1. CASE pc = "claiming"
  <2>1. PICK t \in FreshTokens :
          e \in Granting(ClaimCall(WorkerID, t)) \union {Nothing(ClaimCall(WorkerID, t))}
    BY <1>0, <1>1 DEF Executions
  <2>2. WorkerID \in Workers
    BY Constants
  <2>3. e.err = {"ErrNoJob"} \/ e.err = {}
    BY <2>1, <2>2, GrantingMoves
  <2>4. e.err = {} => validateClaimedAttempt(e.job)
    BY <2>1, GrantAccepted DEF Accepting
  <2>. QED  BY <2>3, <2>4
<1>2. CASE pc # "claiming"
  <2>1. e = Acknowledged(OwnCall)
    BY <1>0, <1>2 DEF Executions
  <2>2. e.err = {} \/ e.err = Identity(Classified(OwnCall, rows[OwnCall.id]))
    BY <2>1 DEF Acknowledged
  <2>3. \A reply : "ErrInvalid" \notin Identity(reply)
    BY DEF Identity, Identities, Unknown
  <2>. QED  BY <1>2, <2>2, <2>3
<1>. QED  BY <1>1, <1>2

\* Run returns a refusal only if it was given one.
LEMMA ProceedValid ==
  ASSUME NEW next, next # "ErrInvalid", NEW err, "ErrInvalid" \notin err, NEW lease,
         Proceed(next, err, lease), ctx # "ErrInvalid", "ErrInvalid" \notin result.err
  PROVE  "ErrInvalid" \notin (result').err
BY DEF Proceed

LEMMA ContextValid == ASSUME Typed PROVE ctx # "ErrInvalid"
BY DEF Typed, ContextErrors

LEMMA JoinValid ==
  ASSUME SystemInv, Accepting, Join, ans' = ans
  PROVE  Unrefused' /\ (pc' = "failing" => FailureFits')
<1>. USE DEF Accepting, SystemInv
<1>1. Attempts \in Nat /\ Attempts >= 1
  BY NoJobNotClaimed DEF Join, Flow, InAttempt, Typed, Attempts
<1>2. policyValid(config.retry, Attempts)
  BY <1>1, AcceptedConfig
<1>3. afterJoin # "ErrInvalid"
  BY <1>2 DEF afterJoin, acknowledge
<1>4. "ErrInvalid" \notin (result').err
  BY <1>3, ProceedValid, ContextValid DEF Join, Unrefused
<1>5. ASSUME pc' = "failing" PROVE FailureFits'
  <2>1. afterJoin = "failing"
    BY <1>5 DEF Join, Proceed
  <2>2. failure' = Failure
    BY <2>1 DEF Join
  <2>3. /\ Failure.delay % Microsecond = 0
        /\ validateFailure(Failure.permanent, Failure.delay \div Microsecond)
    BY <1>1, <1>2, FailureRecordable DEF Typed
  <2>. QED  BY <2>2, <2>3 DEF FailureFits, validateFailure
<1>. QED  BY <1>4, <1>5 DEF Join, Unrefused

LEMMA WorksValid ==
  ASSUME SystemInv, Accepting, Works
  PROVE  Unrefused' /\ (pc' = "failing" => FailureFits')
<1>. USE DEF Accepting, SystemInv
<1>1. ans' = ans
  BY DEF Works, storeVars
<1>2. ctx # "ErrInvalid"
  BY ContextValid
<1>3. CASE Join
  BY <1>1, <1>3, JoinValid
<1>4. CASE Start \/ CheckContext \/ WaitEnds \/ StopHeartbeat \/ CancelAttempt
  <2>1. pc' # "failing" /\ hbErr' = hbErr
    BY <1>4 DEF Start, CheckContext, WaitEnds, StopHeartbeat, CancelAttempt, Proceed,
                Results, hbVars
  <2>2. "ErrInvalid" \notin (result').err
    <3>1. CASE Start
      BY <1>2, <3>1, ProceedValid DEF Start, Unrefused
    <3>2. CASE CheckContext
      BY <1>2, <3>2, ProceedValid DEF CheckContext, Unrefused
    <3>3. CASE WaitEnds
      BY <1>2, <3>3, ProceedValid DEF WaitEnds, Unrefused
    <3>4. CASE StopHeartbeat \/ CancelAttempt
      BY <1>2, <3>4, ProceedValid DEF StopHeartbeat, CancelAttempt, Unrefused
    <3>. QED  BY <1>4, <3>1, <3>2, <3>3, <3>4
  <2>. QED  BY <1>1, <2>1, <2>2 DEF Unrefused
<1>5. CASE HeartbeatCancels \/ HeartbeatSends \/ HeartbeatStops
             \/ HeartbeatContextDone \/ HeartbeatTicks \/ Propagate
  <2>1. /\ UNCHANGED <<pc, failure, result>>
        /\ hbErr' = hbErr \/ hbErr' = {} \/ hbErr' = {ctx} \/ hbErr' = {"context.Canceled"}
    BY <1>5 DEF HeartbeatCancels, HeartbeatSends, HeartbeatStops, HeartbeatContextDone,
                HeartbeatTicks, Propagate, attemptVars, hbVars
  <2>. QED  BY <1>1, <1>2, <2>1 DEF Unrefused, FailureFits, validateFailure
<1>. QED  BY <1>3, <1>4, <1>5 DEF Works, RunStep, HeartbeatStep

LEMMA AnswerValid ==
  ASSUME SystemInv, Accepting, Answer
  PROVE  Unrefused' /\ (pc' = "failing" => FailureFits')
<1>. USE DEF Accepting, SystemInv
<1>1. ctx # "ErrInvalid" /\ "ErrInvalid" \notin (ans').err
  BY ContextValid DEF Answer, NoAnswer
<1>2. CASE ClaimReturns(ans.job, ans.err)
  <2>1. afterClaim(ans.job, ans.err) \notin {"ErrInvalid", "failing"}
    BY <1>2 DEF ClaimReturns, afterClaim
  <2>2. "ErrInvalid" \notin (result').err
    BY <1>1, <1>2, <2>1, ProceedValid DEF ClaimReturns, Unrefused
  <2>3. hbErr' = hbErr \/ hbErr' = {}
    BY <1>2 DEF ClaimReturns, hbVars
  <2>4. pc' # "failing"
    BY <1>2, <2>1 DEF ClaimReturns, Proceed
  <2>. QED  BY <1>1, <2>2, <2>3, <2>4 DEF Unrefused
<1>3. CASE AckReturns(ans.err)
  <2>1. afterAck(ans.err) \notin {"ErrInvalid", "failing"}
    BY DEF afterAck
  <2>2. "ErrInvalid" \notin (result').err
    BY <1>1, <1>3, <2>1, ProceedValid DEF AckReturns, Unrefused
  <2>3. hbErr' = hbErr
    BY <1>3 DEF AckReturns, hbVars
  <2>4. pc' # "failing"
    BY <1>3, <2>1 DEF AckReturns, Proceed
  <2>. QED  BY <1>1, <2>2, <2>3, <2>4 DEF Unrefused
<1>4. CASE HeartbeatReturns(ans.err)
  <2>1. hbErr' = ans.err /\ UNCHANGED <<pc, result, failure>>
    BY <1>4 DEF HeartbeatReturns, attemptVars
  <2>. QED  BY <1>1, <2>1 DEF Unrefused, FailureFits, validateFailure
<1>. QED  BY <1>2, <1>3, <1>4 DEF Answer

\* Nobody is refused in any step.
LEMMA UnrefusedStep ==
  ASSUME SystemInv, Accepting, [SystemNext]_systemVars
  PROVE  Unrefused' /\ (pc' = "failing" => FailureFits')
<1>. USE DEF Accepting
<1>1. CASE Works
  BY <1>1, WorksValid
<1>2. CASE Answer
  BY <1>2, AnswerValid
<1>3. CASE Handle
  <2>1. pc' # "failing" /\ UNCHANGED <<ans, hbErr, result>>
    BY <1>3 DEF Handle, HandlerReturns, Proceed, Results, hbVars
  <2>. QED  BY <2>1 DEF Unrefused
<1>4. CASE Restart \/ Crash
  <2>1. /\ pc' = "start" /\ hbErr' = {} /\ ans' = NoAnswer
        /\ result' = [type |-> "none", err |-> {}, lease |-> NULL]
    BY <1>4 DEF Restart, Crash, Reset
  <2>. QED  BY <2>1 DEF Unrefused, NoAnswer
<1>5. CASE Stop
  <2>1. UNCHANGED <<pc, failure, ans, hbErr, result>>
    BY <1>5 DEF Stop, Shutdown, attemptVars, hbVars
  <2>. QED  BY <2>1 DEF Unrefused, FailureFits, validateFailure
<1>6. CASE \/ Commits \/ InDoubt \/ Errs \/ RivalClaims \/ RivalAcknowledges
           \/ OperatorCancels \/ Age \/ UNCHANGED systemVars
  <2>1. UNCHANGED <<pc, failure, hbErr, result>>
    <3>1. UNCHANGED vars
      BY <1>6 DEF Commits, InDoubt, Errs, RivalClaims, RivalAcknowledges,
                  OperatorCancels, Age, systemVars
    <3>. QED  BY <3>1 DEF vars, attemptVars, hbVars
  <2>2. "ErrInvalid" \notin (ans').err
    <3>1. CASE Commits
      <4>1. PICK e \in Executions : ans' = [job |-> e.job, err |-> e.err]
        BY <3>1 DEF Commits
      <4>. QED  BY <3>1, <4>1, ExecutionAccepted DEF Commits
    <3>2. CASE InDoubt
      <4>1. PICK e \in Executions :
              ans' = [job |-> e.job, err |-> {Unknown} \union
                                             {i \in {"context.Canceled"} : CallCanceled}]
        BY <3>2 DEF InDoubt
      <4>. QED  BY <4>1 DEF Unknown
    <3>3. CASE Errs
      BY <3>3 DEF Errs
    <3>4. CASE RivalClaims \/ RivalAcknowledges \/ OperatorCancels \/ Age
                 \/ UNCHANGED systemVars
      BY <3>4 DEF RivalClaims, RivalAcknowledges, OperatorCancels, Age, systemVars,
                  storeVars, Unrefused
    <3>. QED  BY <1>6, <3>1, <3>2, <3>3, <3>4
  <2>. QED  BY <2>1, <2>2 DEF Unrefused, FailureFits, validateFailure
<1>. QED  BY <1>1, <1>2, <1>3, <1>4, <1>5, <1>6 DEF SystemNext

\* The answer on its way to a claim is one the worker accepts.
LEMMA AnswerAccepted ==
  ASSUME SystemInv, Accepting, [SystemNext]_systemVars, pc' = "claiming", (ans').err = {}
  PROVE  validateClaimedAttempt((ans').job)
<1>. USE DEF SystemInv, Accepting
<1>1. NoAnswer.err # {}
  BY DEF NoAnswer
<1>2. CASE Works
  <2>1. ans' = ans /\ ans # NoAnswer
    BY <1>1, <1>2 DEF Works, storeVars
  <2>2. pc = "claiming"
    <3>1. CASE CheckContext
      BY <2>1, <3>1 DEF CheckContext, Flow, InAttempt, Acknowledging
    <3>2. CASE Start \/ WaitEnds \/ StopHeartbeat \/ CancelAttempt
      BY <3>2 DEF Start, WaitEnds, StopHeartbeat, CancelAttempt, Proceed, Results
    <3>3. CASE Join
      BY <3>3, AfterJoin DEF Join, Proceed, Results
    <3>4. CASE HeartbeatCancels \/ HeartbeatSends \/ HeartbeatStops
                 \/ HeartbeatContextDone \/ HeartbeatTicks \/ Propagate
      BY <3>4 DEF HeartbeatCancels, HeartbeatSends, HeartbeatStops, HeartbeatContextDone,
                  HeartbeatTicks, Propagate
    <3>. QED  BY <1>2, <3>1, <3>2, <3>3, <3>4 DEF Works, RunStep, HeartbeatStep
  <2>. QED  BY <2>1, <2>2
<1>3. CASE Answer \/ Restart \/ Crash
  BY <1>1, <1>3 DEF Answer, Restart, Crash, Reset
<1>4. CASE Handle
  BY <1>4 DEF Handle, HandlerReturns, Proceed, Results
<1>5. CASE \/ Stop \/ RivalClaims \/ RivalAcknowledges \/ OperatorCancels \/ Age
           \/ UNCHANGED systemVars
  BY <1>5 DEF Stop, Shutdown, RivalClaims, RivalAcknowledges, OperatorCancels, Age,
              systemVars, storeVars, vars
<1>6. CASE Commits
  <2>1. PICK e \in Executions : ans' = [job |-> e.job, err |-> e.err]
    BY <1>6 DEF Commits
  <2>2. InFlight /\ pc = "claiming" /\ e.err = {} /\ (ans').job = e.job
    BY <1>6, <2>1 DEF Commits, vars
  <2>. QED  BY <2>2, ExecutionAccepted
<1>7. CASE InDoubt \/ Errs
  <2>1. (ans').err # {}
    BY <1>7 DEF InDoubt, Errs
  <2>. QED  BY <2>1
<1>. QED  BY <1>2, <1>3, <1>4, <1>5, <1>6, <1>7 DEF SystemNext

\* A configuration is accepted once and for all.
LEMMA AcceptingStep ==
  SystemInv /\ (validate(config) => Accepting) /\ [SystemNext]_systemVars
    => (validate(config) => Accepting)'
<1>. SUFFICES ASSUME SystemInv, validate(config) => Accepting, [SystemNext]_systemVars,
                     validate(config)'
              PROVE  Accepting'
  OBVIOUS
<1>1. config' = config
  BY ConfigKept
<1>2. validate(config)
  BY <1>1 DEF validate, policyValid
<1>3. Unrefused' /\ (pc' = "failing" => FailureFits')
  BY <1>2, UnrefusedStep
<1>4. pc' = "claiming" /\ (ans').err = {} => validateClaimedAttempt((ans').job)
  BY <1>2, AnswerAccepted
<1>. QED  BY <1>3, <1>4 DEF Accepting, validateClaimedAttempt, validateStoredJob

\* With a configuration that validate accepts, the repository's own checks never
\* refuse a call of the worker, neither its Claim and Heartbeat durations nor its
\* leases nor the delay and permanence of its Fail, and the worker never refuses
\* a claimed job or finds its policy without a delay.
THEOREM NeverRefused == SystemSpec => []NeverInvalid
<1>1. SystemInit => (validate(config) => Accepting)
  BY DEF SystemInit, Init, Accepting, Unrefused, NoAnswer
<1>2. (validate(config) => Accepting) => NeverInvalid
  BY DEF Accepting, Unrefused, NeverInvalid
<1>. QED  BY <1>1, <1>2, AcceptingStep, SystemInvariant, PTL DEF SystemSpec
=============================================================================
