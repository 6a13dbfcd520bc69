--------------------------- MODULE JobStoreProofs ---------------------------
(***************************************************************************)
(* Proofs about JobStore, for any sets of jobs, sessions, tokens, requests *)
(* and durations, and any bounds.                                          *)
(***************************************************************************)
EXTENDS JobStore, TLAPS

-----------------------------------------------------------------------------
(* The inductive invariant.                                                *)

\* What the parameters of a call satisfy once its validation has passed.
CallOK(c) ==
  /\ c.op \in UpdateOps => c.id \in Ids
  /\ c.op \in LeaseOps \union {"Claim"} => c.token \in Tokens
  /\ c.op \in {"Heartbeat", "Claim"} => validateClaim(c.duration)
  /\ c.op = "Claim" => c.worker \in Workers /\ c.queue \in Queues
  /\ c.op = "Fail" => validateFailure(c.permanent, c.delay)
  /\ c.op = "Enqueue" => /\ c.request \in EnqueueRequest
                         /\ validateEnqueue(c.request)

RowOK(r) == IF Exists(r) THEN SchemaChecks(r) ELSE r.token = NULL

\* A scan whose row nobody has replaced still describes the table.
ScanOK(t, table, now) ==
  t.phase = "scanned" =>
    /\ t.at <= now
    /\ \A j \in Ids : t.seen[j].state # "none" =>
         RowOK(t.seen[j]) /\ (j \notin t.stale => t.seen[j] = table[j])
    /\ t.call.op \in UpdateOps => /\ t.seen[t.call.id].state # "none"
                                  /\ Where(t.call, t.seen[t.call.id], t.at)

\* w is what c writes over r at instant i, its WHERE clause being true then.
WriteAt(c, r, w, i) ==
  \/ c.op \in UpdateOps /\ Where(c, r, i) /\ w = Updated(c, r, i)
  \/ c.op = "Claim" /\ Exhausted(c, r, i) /\ w = Buried(r, i)
  \/ c.op = "Claim" /\ Eligible(c, r, i) /\ w = Granted(c, r, i)
  \/ c.op = "Enqueue" /\ r.state = "none" /\ w = Inserted(c.request, i)

WriteOK(c, r, w, now) == \E i \in 0..now : WriteAt(c, r, w, i)

TxnOK(t, table, now) ==
  /\ CallOK(t.call)
  /\ ScanOK(t, table, now)
  /\ \A j \in Ids : t.writes[j].state # "none" =>
       /\ t.phase \in {"commit", "doubt"}
       /\ WriteOK(t.call, table[j], t.writes[j], now)
       /\ t.call.op = "Claim" /\ t.writes[j].state = "running" => j = t.call.id

WritersExclude ==
  \A s, p \in Sessions, j \in Ids :
    (txn[s].writes[j].state # "none" /\ txn[p].writes[j].state # "none") => s = p

IInv ==
  /\ TypeOK
  /\ \A s \in Sessions : TxnOK(txn[s], rows, clock)
  /\ WritersExclude
  /\ \A j \in Ids : RowOK(rows[j])

-----------------------------------------------------------------------------
(* Row versions: every SET clause keeps a row in its type and legal.       *)

LEMMA NoRowType == NoRow \in Row /\ NoRow.state = "none" /\ NoRow.token = NULL
BY DEF NoRow, Row, RowState, JobState, Time

LEMMA FinishType ==
  ASSUME NEW r \in Row, NEW state \in RowState, NEW now \in Time
  PROVE  Finish(r, state, now) \in Row
BY DEF Finish, Unleased, Row

LEMMA UpdatedType ==
  ASSUME NEW c \in Call, CallOK(c), c.op \in UpdateOps, NEW r \in Row, NEW now \in Time
  PROVE  Updated(c, r, now) \in Row
<1>0. /\ "succeeded" \in RowState /\ "dead" \in RowState
      /\ "canceled" \in RowState /\ "pending" \in RowState
  BY DEF RowState, JobState
<1>1. CASE c.op = "Heartbeat"
  <2>1. now + c.duration \in Time
    BY <1>1, LimitsAssumption DEF CallOK, validateClaim, Call, Time
  <2> QED BY <1>1, <2>1 DEF Updated, heartbeatSQL, Row
<1>2. CASE c.op = "Complete"
  BY <1>0, <1>2, FinishType DEF Updated, completeSQL
<1>3. CASE c.op = "Fail"
  <2>1. now + c.delay \in Time
    BY <1>3, LimitsAssumption DEF CallOK, validateFailure, Call, Time
  <2>2. [Unleased(r) EXCEPT !.state = "pending", !.available_at = now + c.delay] \in Row
    BY <1>0, <2>1 DEF Unleased, Row
  <2> QED BY <1>0, <1>3, <2>2, FinishType DEF Updated, failSQL
<1>4. CASE c.op = "Cancel"
  BY <1>0, <1>4, FinishType DEF Updated, cancelSQL
<1>5. CASE c.op = "Redrive"
  BY <1>0, <1>5 DEF Updated, redriveSQL, Unleased, Row
<1> QED BY <1>1, <1>2, <1>3, <1>4, <1>5 DEF UpdateOps, LeaseOps

LEMMA BuriedType ==
  ASSUME NEW r \in Row, NEW now \in Time
  PROVE  Buried(r, now) \in Row
BY FinishType DEF Buried, RowState, JobState

LEMMA GrantedType ==
  ASSUME NEW c \in Call, CallOK(c), c.op = "Claim", NEW r \in Row, NEW now \in Time
  PROVE  Granted(c, r, now) \in Row
<1>1. now + c.duration \in Time
  BY LimitsAssumption DEF CallOK, validateClaim, Call, Time
<1>2. c.token \in Tokens /\ c.worker \in Workers /\ "running" \in RowState
  BY DEF CallOK, RowState, JobState
<1>3. r.attempts + 1 \in Nat
  BY DEF Row
<1> QED BY <1>1, <1>2, <1>3 DEF Granted, Row

LEMMA InsertedType ==
  ASSUME NEW request \in EnqueueRequest, NEW now \in Time
  PROVE  Inserted(request, now) \in Row
<1>1. requestFingerprint(request) \in Fingerprint
  BY DEF requestFingerprint, Fingerprint, EnqueueRequest
<1>2. (IF request.available_at = NULL THEN now ELSE request.available_at) \in Time
  BY DEF EnqueueRequest, Time
<1>3. /\ "pending" \in RowState /\ request.queue \in Queues \union {NULL}
      /\ request.key \in Keys \union {NULL} /\ request.max_attempts \in Int
  BY DEF EnqueueRequest, RowState, JobState
<1> QED BY <1>1, <1>2, <1>3 DEF Inserted, NoRow, Row, Time

LEMMA WriteType ==
  ASSUME NEW c \in Call, CallOK(c), NEW r \in Row, NEW now \in Time, NEW w,
         WriteAt(c, r, w, now)
  PROVE  w \in Row
BY UpdatedType, BuriedType, GrantedType, InsertedType DEF WriteAt, CallOK

\* The heart of the matter: a write over a legal row leaves a legal row.
LEMMA WriteLegal ==
  ASSUME NEW c \in Call, CallOK(c), NEW r \in Row, RowOK(r), NEW now \in Time,
         NEW w, WriteAt(c, r, w, now)
  PROVE  SchemaChecks(w)
<1>1. CASE c.op \in LeaseOps /\ Where(c, r, now) /\ w = Updated(c, r, now)
  <2>1. SchemaChecks(r) /\ r.state = "running"
    BY <1>1 DEF Where, LeaseOps, Fenced, RowOK, Exists, JobState
  <2>2. CASE c.op = "Heartbeat"
    <3>1. now + c.duration \in Nat
      BY <2>2, LimitsAssumption DEF CallOK, validateClaim, Call, Time
    <3> QED BY <1>1, <2>1, <2>2, <3>1, NullAssumption
            DEF Updated, heartbeatSQL, SchemaChecks, Row
  <2>3. CASE c.op = "Complete"
    BY <1>1, <2>1, <2>3, NullAssumption
       DEF Updated, completeSQL, Finish, Unleased, SchemaChecks, Row, Terminal, JobState, Time
  <2>4. CASE c.op = "Fail"
    <3>1. CASE c.permanent \/ r.attempts >= r.max_attempts
      <4>1. w = Finish(r, "dead", now)
        BY <1>1, <2>4, <3>1 DEF Updated, failSQL
      <4> QED BY <2>1, <4>1, NullAssumption
              DEF Finish, Unleased, SchemaChecks, Row, Terminal, JobState, Time
    <3>2. CASE ~(c.permanent \/ r.attempts >= r.max_attempts)
      <4>1. w = [Unleased(r) EXCEPT !.state = "pending", !.available_at = now + c.delay]
        BY <1>1, <2>4, <3>2 DEF Updated, failSQL
      <4> QED BY <2>1, <3>2, <4>1, NullAssumption
              DEF Unleased, SchemaChecks, Row, Terminal, JobState, Time
    <3> QED BY <3>1, <3>2
  <2> QED BY <1>1, <2>2, <2>3, <2>4 DEF LeaseOps
<1>2. CASE c.op = "Cancel" /\ Where(c, r, now) /\ w = Updated(c, r, now)
  <2>1. SchemaChecks(r) /\ w = Finish(r, "canceled", now)
    BY <1>2 DEF Where, LeaseOps, RowOK, Exists, JobState, Updated, cancelSQL
  <2> QED BY <2>1, NullAssumption
          DEF Finish, Unleased, SchemaChecks, Row, Terminal, JobState, Time
<1>3. CASE c.op = "Redrive" /\ Where(c, r, now) /\ w = Updated(c, r, now)
  <2>1. SchemaChecks(r) /\ w = redriveSQL(c, r, now)
    BY <1>3 DEF Where, LeaseOps, RowOK, Exists, JobState, Updated
  <2> QED BY <2>1, NullAssumption, LimitsAssumption
          DEF redriveSQL, Unleased, SchemaChecks, Row, Terminal, JobState, Time
<1>4. CASE c.op = "Claim" /\ Exhausted(c, r, now) /\ w = Buried(r, now)
  <2>1. SchemaChecks(r)
    BY <1>4 DEF Exhausted, RowOK, Exists, JobState
  <2> QED BY <1>4, <2>1, NullAssumption
          DEF Exhausted, Buried, Finish, Unleased, SchemaChecks, Row, Terminal, JobState, Time
<1>5. CASE c.op = "Claim" /\ Eligible(c, r, now) /\ w = Granted(c, r, now)
  <2>1. SchemaChecks(r)
    BY <1>5 DEF Eligible, RowOK, Exists, JobState
  <2>2. c.token # NULL /\ c.worker # NULL /\ now + c.duration # NULL
    BY <1>5, NullAssumption, LimitsAssumption DEF CallOK, validateClaim, Call, Time
  <2>3. r.attempts < r.max_attempts
    BY <1>5, <2>1 DEF Eligible, SchemaChecks
  <2>4. /\ w.state = "running" /\ w.attempts = r.attempts + 1
        /\ w.max_attempts = r.max_attempts /\ w.finished_at = NULL
        /\ NULL \notin {w.token, w.owner, w.lease_until}
    BY <1>5, <2>2 DEF Granted, Row
  <2>5. r.attempts \in Nat /\ r.max_attempts \in 1..MaxAttempts
    BY <2>1 DEF Row, SchemaChecks
  <2> QED BY <2>3, <2>4, <2>5, LimitsAssumption DEF SchemaChecks, Terminal, JobState
<1>6. CASE c.op = "Enqueue" /\ r.state = "none" /\ w = Inserted(c.request, now)
  <2>1. c.request.max_attempts \in 1..MaxAttempts
    BY <1>6 DEF CallOK, validateEnqueue
  <2> QED BY <1>6, <2>1, LimitsAssumption
          DEF Inserted, NoRow, SchemaChecks, Terminal, JobState
<1> QED BY <1>1, <1>2, <1>3, <1>4, <1>5, <1>6 DEF WriteAt, UpdateOps

-----------------------------------------------------------------------------
(* Transactions: the two ways a step changes the state.                    *)

LEMMA IdleType ==
  /\ Idle \in Txn /\ Idle.call = NoCall /\ Idle.writes = NoRows
  /\ Idle.phase = "idle" /\ NoCall \in Call /\ CallOK(NoCall)
  /\ NoRows \in [Ids -> Row] /\ \A j \in Ids : NoRows[j].state = "none"
<1>1. NoRows \in [Ids -> Row] /\ \A j \in Ids : NoRows[j].state = "none"
  BY NoRowType DEF NoRows
<1>2. NoCall \in Call
  BY DEF NoCall, Call
<1>3. CallOK(NoCall)
  BY DEF NoCall, CallOK, UpdateOps, LeaseOps
<1>4. Idle \in Txn
  BY <1>1, <1>2 DEF Idle, Txn, Phases, Replies, Time
<1> QED BY <1>1, <1>2, <1>3, <1>4 DEF Idle

\* A step of one session that commits nothing.
LEMMA LocalStep ==
  ASSUME IInv, NEW s \in Sessions, NEW t \in Txn, txn' = [txn EXCEPT ![s] = t],
         clock' = clock, rows' = rows, settled' = settled, grants' = grants,
         leases' \subseteq [id : Ids, token : Tokens],
         TxnOK(t, rows, clock),
         \A j \in Ids, p \in Sessions \ {s} :
            t.writes[j].state # "none" => txn[p].writes[j].state = "none"
  PROVE  IInv'
<1>1. TypeOK'
  BY DEF IInv, TypeOK
<1>2. \A p \in Sessions : txn'[p] = IF p = s THEN t ELSE txn[p]
  BY DEF IInv, TypeOK
<1>3. \A p \in Sessions : TxnOK(txn'[p], rows', clock')
  BY <1>2 DEF IInv
<1>4. WritersExclude'
  BY <1>2 DEF IInv, WritersExclude
<1> QED BY <1>1, <1>3, <1>4 DEF IInv

\* A session that has not reached its commit has written nothing.
LEMMA NothingWritten ==
  ASSUME NEW t \in Txn, CallOK(t.call), t.phase # "scanned",
         \A j \in Ids : t.writes[j].state = "none",
         NEW table, NEW now
  PROVE  TxnOK(t, table, now)
BY DEF TxnOK, ScanOK

\* The transaction s becomes durable.
LEMMA ApplyStep ==
  ASSUME IInv, NEW s \in Sessions, NEW next \in Txn, next.phase \in {"returned", "idle"},
         CallOK(next.call), \A j \in Ids : next.writes[j].state = "none",
         Apply(s, next), clock' = clock,
         leases' \subseteq [id : Ids, token : Tokens]
  PROVE  IInv'
<1> DEFINE W == Written(s)
           c == txn[s].call
<1>0. /\ clock \in Nat /\ rows \in [Ids -> Row] /\ txn \in [Sessions -> Txn]
      /\ \A p \in Sessions : TxnOK(txn[p], rows, clock)
      /\ WritersExclude /\ \A j \in Ids : RowOK(rows[j])
  BY DEF IInv, TypeOK, Time
<1>1. c \in Call /\ CallOK(c) /\ txn[s].writes \in [Ids -> Row] /\ W \subseteq Ids
  BY <1>0 DEF Txn, TxnOK, Written
<1>2. \A j \in W : WriteOK(c, rows[j], txn[s].writes[j], clock)
  BY <1>0 DEF TxnOK, Written
<1>3. \A j \in W : SchemaChecks(txn[s].writes[j])
  BY <1>0, <1>1, <1>2, WriteLegal DEF WriteOK, Time
<1>4. rows' = [j \in Ids |-> IF j \in W THEN txn[s].writes[j] ELSE rows[j]]
  BY DEF Apply
<1>5. \A j \in Ids : RowOK(rows'[j])
  BY <1>0, <1>3, <1>4 DEF RowOK, SchemaChecks, Exists
<1>6. \A p \in Sessions : txn'[p] = IF p = s THEN next
          ELSE [txn[p] EXCEPT !.stale = @ \union (Matched(p) \intersect W)]
  BY DEF Apply
<1>7. ASSUME NEW p \in Sessions, p # s
      PROVE  TxnOK(txn'[p], rows', clock')
  <2> DEFINE t == txn[p]
             u == txn'[p]
  <2>1. /\ t \in Txn /\ u = [t EXCEPT !.stale = @ \union (Matched(p) \intersect W)]
        /\ TxnOK(t, rows, clock)
    BY <1>0, <1>6, <1>7
  <2>2. /\ u.call = t.call /\ u.phase = t.phase /\ u.at = t.at /\ u.seen = t.seen
        /\ u.writes = t.writes /\ u.stale = t.stale \union (Matched(p) \intersect W)
    BY <2>1 DEF Txn
  <2>3. ScanOK(u, rows', clock')
    <3> SUFFICES ASSUME u.phase = "scanned"
                 PROVE  \A j \in Ids : (u.seen[j].state # "none" /\ j \notin u.stale)
                                         => u.seen[j] = rows'[j]
      BY <2>1, <2>2 DEF ScanOK, TxnOK
    <3> TAKE j \in Ids
    <3> HAVE u.seen[j].state # "none" /\ j \notin u.stale
    <3>1. j \in Matched(p) /\ j \notin t.stale /\ j \notin W
      BY <2>2 DEF Matched
    <3> QED BY <1>4, <2>1, <2>2, <3>1 DEF ScanOK, TxnOK
  <2>4. ASSUME NEW j \in Ids, u.writes[j].state # "none"
        PROVE  /\ u.phase \in {"commit", "doubt"}
               /\ WriteOK(u.call, rows'[j], u.writes[j], clock')
               /\ u.call.op = "Claim" /\ u.writes[j].state = "running" => j = u.call.id
    <3>1. j \notin W
      BY <1>0, <1>7, <2>2, <2>4 DEF WritersExclude, Written
    <3>2. rows'[j] = rows[j]
      BY <1>4, <3>1
    <3> QED BY <2>1, <2>2, <2>4, <3>2 DEF TxnOK
  <2> QED BY <2>1, <2>2, <2>3, <2>4 DEF TxnOK
<1>8. TxnOK(txn'[s], rows', clock')
  BY <1>6, NothingWritten
<1>9. WritersExclude'
  <2>1. ASSUME NEW p \in Sessions, NEW j \in Ids, txn'[p].writes[j].state # "none"
        PROVE  p # s /\ txn[p].writes[j].state # "none"
    <3>1. p # s
      BY <1>6, <2>1
    <3>2. txn[p] \in Txn /\ txn'[p] = [txn[p] EXCEPT !.stale = @ \union (Matched(p) \intersect W)]
      BY <1>0, <1>6, <3>1
    <3>3. txn'[p].writes = txn[p].writes
      BY <3>2 DEF Txn
    <3> QED BY <2>1, <3>1, <3>3
  <2> QED BY <1>0, <2>1 DEF WritersExclude
<1>10. TypeOK'
  <2>1. rows' \in [Ids -> Row]
    BY <1>0, <1>1, <1>4
  <2>2. txn' \in [Sessions -> Txn]
    <3>1. ASSUME NEW p \in Sessions PROVE txn'[p] \in Txn
      <4>1. CASE p = s
        BY <1>6, <4>1
      <4>2. CASE p # s
        <5>1. /\ txn[p] \in Txn
              /\ txn'[p] = [txn[p] EXCEPT !.stale = @ \union (Matched(p) \intersect W)]
          BY <1>0, <1>6, <4>2
        <5>2. txn[p].stale \union (Matched(p) \intersect W) \in SUBSET Ids
          BY <1>1, <5>1 DEF Txn
        <5> QED BY <5>1, <5>2 DEF Txn
      <4> QED BY <4>1, <4>2
    <3> QED BY <3>1 DEF Apply
  <2>3. Endings(s) \subseteq Ending
    <3>1. \A j \in W : c.op \in AllOps
      BY <1>2 DEF WriteOK, WriteAt, AllOps
    <3>2. \A j \in W : rows[j].token # NULL => rows[j].token \in Tokens
      BY <1>0, <1>1 DEF Row
    <3>3. c.op \in {"Complete", "Fail"} => c.token \in Tokens
      BY <1>1 DEF CallOK, LeaseOps
    <3> QED BY <3>1, <3>2, <3>3 DEF Endings, Ending
  <2>4. grants' \in [Ids -> Nat]
    <3>1. grants \in [Ids -> Nat]
      BY DEF IInv, TypeOK
    <3> QED BY <3>1 DEF Apply
  <2> QED BY <1>0, <2>1, <2>2, <2>3, <2>4 DEF TypeOK, Apply, IInv, Time
<1> QED BY <1>5, <1>7, <1>8, <1>9, <1>10 DEF IInv

-----------------------------------------------------------------------------
(* One lemma per kind of action.                                           *)

LEMMA ScanStep ==
  ASSUME IInv, NEW s \in Sessions, NEW c \in Call, CallOK(c), c.op \in UpdateOps,
         Scan(s, c)
  PROVE  IInv'
<1> DEFINE hit == Where(c, rows[c.id], clock)
           t == [Idle EXCEPT !.call = c,
                    !.phase = IF hit THEN "scanned" ELSE "rejected",
                    !.at = clock,
                    !.seen = IF hit THEN [NoRows EXCEPT ![c.id] = rows[c.id]]
                             ELSE NoRows]
<1>1. c.id \in Ids /\ rows \in [Ids -> Row] /\ clock \in Nat
  BY DEF CallOK, IInv, TypeOK, Time
<1>2. /\ t.call = c /\ t.at = clock /\ t.writes = NoRows /\ t.stale = {}
      /\ t.phase = IF hit THEN "scanned" ELSE "rejected"
      /\ t.seen = IF hit THEN [NoRows EXCEPT ![c.id] = rows[c.id]] ELSE NoRows
  BY DEF Idle
<1>3. t \in Txn
  BY <1>1, IdleType DEF Idle, Txn, Phases, Time
<1>4. ScanOK(t, rows, clock)
  <2> SUFFICES ASSUME hit PROVE ScanOK(t, rows, clock)
    BY <1>2 DEF ScanOK
  <2>1. t.seen = [NoRows EXCEPT ![c.id] = rows[c.id]]
    BY <1>2
  <2>2. \A j \in Ids : t.seen[j].state # "none" => t.seen[j] = rows[j] /\ RowOK(rows[j])
    BY <1>1, <2>1, IdleType DEF IInv
  <2>3. t.seen[c.id] = rows[c.id]
    BY <1>1, <2>1, IdleType
  <2>4. rows[c.id].state # "none"
    BY DEF Where, Fenced, UpdateOps, LeaseOps
  <2> QED BY <1>1, <1>2, <2>2, <2>3, <2>4 DEF ScanOK
<1>5. TxnOK(t, rows, clock)
  BY <1>2, <1>4, IdleType DEF TxnOK
<1>6. /\ txn' = [txn EXCEPT ![s] = t]
      /\ UNCHANGED <<clock, rows, leases, settled, grants>>
  BY DEF Scan
<1>7. leases' \subseteq [id : Ids, token : Tokens]
  BY <1>6 DEF IInv, TypeOK
<1> HIDE DEF t
<1> QED BY <1>2, <1>3, <1>5, <1>6, <1>7, IdleType, LocalStep

\* A writer's lock excludes every other writer of the row.
LEMMA LockExcludes ==
  ASSUME NEW s \in Sessions, NEW j \in Ids, NEW mode \in {"NoKeyUpdate", "ForUpdate"},
         Lockable(s, j, mode), NEW p \in Sessions \ {s}
  PROVE  txn[p].writes[j].state = "none"
<1> SUFFICES ASSUME j \in Written(p) PROVE FALSE
  BY DEF Written
<1>1. LockHeld(p, j) \in {"NoKeyUpdate", "ForUpdate"}
  BY DEF LockHeld
<1> QED BY <1>1 DEF Lockable, LockConflicts

LEMMA UpdateRowStep ==
  ASSUME IInv, NEW s \in Sessions, UpdateRow(s)
  PROVE  IInv'
<1> DEFINE c == txn[s].call
           again == c.id \in txn[s].stale
           now == IF again THEN clock ELSE txn[s].at
           w == Updated(c, rows[c.id], now)
           t == [Idle EXCEPT !.call = c, !.phase = "commit", !.reply = "ok",
                             !.writes = [NoRows EXCEPT ![c.id] = w]]
           u == [Idle EXCEPT !.call = c, !.phase = "rejected"]
<1>0. /\ clock \in Nat /\ rows \in [Ids -> Row] /\ txn[s] \in Txn
      /\ TxnOK(txn[s], rows, clock)
  BY DEF IInv, TypeOK, Time
<1>1. /\ c \in Call /\ CallOK(c) /\ c.op \in UpdateOps /\ c.id \in Ids
      /\ txn[s].at \in Nat /\ txn[s].phase = "scanned"
  BY <1>0 DEF TxnOK, Txn, CallOK, UpdateRow, Time
<1>2. now \in Nat /\ now \in 0..clock
  BY <1>0, <1>1 DEF TxnOK, ScanOK
<1>3. UNCHANGED <<clock, rows, leases, settled, grants>>
  BY DEF UpdateRow
<1>4. leases' \subseteq [id : Ids, token : Tokens]
  BY <1>3 DEF IInv, TypeOK
<1>5. CASE /\ again => Where(c, rows[c.id], now)
           /\ txn' = [txn EXCEPT ![s] = t]
  <2>1. Where(c, rows[c.id], now)
    <3>1. CASE again
      BY <1>5, <3>1
    <3>2. CASE ~again
      <4>1. txn[s].seen[c.id] = rows[c.id]
        BY <1>0, <1>1, <3>2 DEF TxnOK, ScanOK
      <4> QED BY <1>0, <1>1, <3>2, <4>1 DEF TxnOK, ScanOK
    <3> QED BY <3>1, <3>2
  <2>2. WriteAt(c, rows[c.id], w, now)
    BY <1>1, <2>1 DEF WriteAt
  <2>3. w \in Row
    BY <1>0, <1>1, <1>2, UpdatedType DEF Time
  <2> HIDE DEF w, now
  <2>4. /\ t.call = c /\ t.phase = "commit" /\ t.writes = [NoRows EXCEPT ![c.id] = w]
    BY DEF Idle
  <2>5. [NoRows EXCEPT ![c.id] = w] \in [Ids -> Row]
    BY <1>1, <2>3, IdleType
  <2>6. t \in Txn
    BY <1>1, <2>5, IdleType DEF Idle, Txn, Phases, Replies
  <2>7. \A j \in Ids : t.writes[j].state # "none" => j = c.id /\ t.writes[j] = w
    BY <1>1, <2>4, IdleType
  <2>8. TxnOK(t, rows, clock)
    BY <1>1, <1>2, <2>2, <2>4, <2>7 DEF TxnOK, ScanOK, WriteOK, UpdateOps, LeaseOps
  <2>9. Lockable(s, c.id, "NoKeyUpdate")
    BY DEF UpdateRow
  <2>10. \A j \in Ids, p \in Sessions \ {s} :
            t.writes[j].state # "none" => txn[p].writes[j].state = "none"
    BY <1>1, <2>7, <2>9, LockExcludes
  <2> HIDE DEF t
  <2> QED BY <1>3, <1>4, <1>5, <2>6, <2>8, <2>10, LocalStep
<1>6. CASE txn' = [txn EXCEPT ![s] = u]
  <2>1. u.call = c /\ u.phase = "rejected" /\ u.writes = NoRows
    BY DEF Idle
  <2>2. u \in Txn
    BY <1>1, IdleType DEF Idle, Txn, Phases
  <2>3. TxnOK(u, rows, clock)
    BY <1>1, <2>1, <2>2, IdleType, NothingWritten
  <2> HIDE DEF u
  <2> QED BY <1>3, <1>4, <1>6, <2>1, <2>2, <2>3, IdleType, LocalStep
<1> QED BY <1>5, <1>6 DEF UpdateRow

\* A session moves on without having written anything.
LEMMA QuietStep ==
  ASSUME IInv, NEW s \in Sessions, NEW t \in Txn, txn' = [txn EXCEPT ![s] = t],
         UNCHANGED <<clock, rows, leases, settled, grants>>,
         CallOK(t.call), t.phase # "scanned", t.writes = NoRows
  PROVE  IInv'
<1>1. TxnOK(t, rows, clock)
  BY IdleType, NothingWritten
<1>2. leases' \subseteq [id : Ids, token : Tokens]
  BY DEF IInv, TypeOK
<1> QED BY <1>1, <1>2, IdleType, LocalStep

LEMMA QuietSteps ==
  ASSUME IInv, NEW s \in Sessions,
         Reject(s) \/ ReadIdempotent(s) \/ LateAbort(s) \/ Abort(s) \/ Return(s)
  PROVE  IInv'
<1> DEFINE c == txn[s].call
<1>0. c \in Call /\ CallOK(c)
  BY DEF IInv, TypeOK, Txn, TxnOK
<1>1. CASE Reject(s)
  <2> DEFINE reply == Classified(c, rows[c.id])
             t == [Idle EXCEPT !.call = c, !.reply = reply,
                    !.phase = IF reply = "ok" THEN "commit" ELSE "returned"]
  <2>1. reply \in Replies
    BY <1>1 DEF Classified, classifyLease, Replies, Reject, UpdateOps
  <2> HIDE DEF reply
  <2>2. t \in Txn /\ t.call = c /\ t.phase # "scanned" /\ t.writes = NoRows
    BY <1>0, <2>1, IdleType DEF Idle, Txn, Phases
  <2>3. txn' = [txn EXCEPT ![s] = t] /\ UNCHANGED <<clock, rows, leases, settled, grants>>
    BY <1>1 DEF Reject, reply
  <2> HIDE DEF t
  <2> QED BY <1>0, <2>2, <2>3, QuietStep
<1>2. CASE ReadIdempotent(s)
  <2>0. UNCHANGED <<clock, rows, leases, settled, grants>>
    BY <1>2 DEF ReadIdempotent
  <2>1. CASE txn' = [txn EXCEPT ![s] =
               [Idle EXCEPT !.call = c, !.phase = "returned", !.reply = "error"]]
    <3> DEFINE t == [Idle EXCEPT !.call = c, !.phase = "returned", !.reply = "error"]
    <3>1. t \in Txn /\ t.call = c /\ t.phase # "scanned" /\ t.writes = NoRows
      BY <1>0, IdleType DEF Idle, Txn, Phases, Replies
    <3> HIDE DEF t
    <3> QED BY <1>0, <2>0, <2>1, <3>1, QuietStep DEF t
  <2>2. CASE \E j \in Ids : txn' = [txn EXCEPT ![s] =
               IF SameRequest(rows[j], c.request)
               THEN [Idle EXCEPT !.call = [c EXCEPT !.id = j], !.phase = "commit",
                                 !.reply = "ok", !.shared = Retained(j)]
               ELSE [Idle EXCEPT !.call = c, !.phase = "returned",
                                 !.reply = "ErrIdempotencyConflict"]]
    <3> PICK j \in Ids : txn' = [txn EXCEPT ![s] =
               IF SameRequest(rows[j], c.request)
               THEN [Idle EXCEPT !.call = [c EXCEPT !.id = j], !.phase = "commit",
                                 !.reply = "ok", !.shared = Retained(j)]
               ELSE [Idle EXCEPT !.call = c, !.phase = "returned",
                                 !.reply = "ErrIdempotencyConflict"]]
      BY <2>2
    <3> DEFINE d == [c EXCEPT !.id = j]
               t == [Idle EXCEPT !.call = d, !.phase = "commit",
                                 !.reply = "ok", !.shared = Retained(j)]
               u == [Idle EXCEPT !.call = c, !.phase = "returned",
                                 !.reply = "ErrIdempotencyConflict"]
    <3>1. d \in Call /\ CallOK(d)
      BY <1>0 DEF Call, CallOK
    <3> HIDE DEF d
    <3>2. t \in Txn /\ t.call = d /\ t.phase # "scanned" /\ t.writes = NoRows
      BY <3>1, IdleType DEF Idle, Txn, Phases, Replies, Retained
    <3>3. u \in Txn /\ u.call = c /\ u.phase # "scanned" /\ u.writes = NoRows
      BY <1>0, IdleType DEF Idle, Txn, Phases, Replies
    <3>4. txn' = [txn EXCEPT ![s] = t] \/ txn' = [txn EXCEPT ![s] = u]
      BY DEF d
    <3> HIDE DEF t, u
    <3> QED BY <1>0, <2>0, <3>1, <3>2, <3>3, <3>4, QuietStep
  <2> QED BY <1>2, <2>1, <2>2 DEF ReadIdempotent
<1>3. CASE LateAbort(s) \/ Return(s)
  BY <1>3, IdleType, QuietStep DEF LateAbort, Return
<1>4. CASE Abort(s)
  <2> DEFINE t == [Idle EXCEPT !.call = c, !.phase = "returned", !.reply = "error"]
  <2>1. t \in Txn /\ t.call = c /\ t.phase # "scanned" /\ t.writes = NoRows
    BY <1>0, IdleType DEF Idle, Txn, Phases, Replies
  <2>2. txn' = [txn EXCEPT ![s] = t] /\ UNCHANGED <<clock, rows, leases, settled, grants>>
    BY <1>4 DEF Abort
  <2> HIDE DEF t
  <2> QED BY <1>0, <2>1, <2>2, QuietStep
<1> QED BY <1>1, <1>2, <1>3, <1>4

LEMMA CommitSteps ==
  ASSUME IInv, NEW s \in Sessions,
         Commit(s) \/ CommitUnknown(s) \/ LateCommit(s)
  PROVE  IInv'
<1> DEFINE c == txn[s].call
<1>0. /\ c \in Call /\ CallOK(c) /\ txn[s] \in Txn /\ txn[s].reply \in Replies
      /\ leases \subseteq [id : Ids, token : Tokens]
  BY DEF IInv, TypeOK, Txn, TxnOK
<1>1. Handed(s) \subseteq [id : Ids, token : Tokens]
  BY <1>0 DEF Handed, Call, CallOK
<1>2. CASE Commit(s)
  <2> DEFINE t == [Idle EXCEPT !.phase = "returned", !.call = txn[s].call,
                               !.reply = txn[s].reply]
  <2>1. t \in Txn /\ t.call = c /\ t.phase = "returned" /\ t.writes = NoRows
    BY <1>0, IdleType DEF Idle, Txn, Phases
  <2>2. Apply(s, t) /\ clock' = clock /\ leases' \subseteq [id : Ids, token : Tokens]
    BY <1>0, <1>1, <1>2 DEF Commit
  <2> HIDE DEF t
  <2> QED BY <1>0, <2>1, <2>2, IdleType, ApplyStep
<1>3. CASE LateCommit(s)
  <2>1. Apply(s, Idle) /\ clock' = clock /\ leases' \subseteq [id : Ids, token : Tokens]
    BY <1>0, <1>3 DEF LateCommit
  <2> QED BY <2>1, IdleType, ApplyStep
<1>4. CASE CommitUnknown(s)
  <2> DEFINE t == [txn[s] EXCEPT !.phase = "doubt", !.reply = "ErrCommitOutcomeUnknown"]
  <2>1. /\ t \in Txn /\ t.call = c /\ t.phase = "doubt" /\ t.writes = txn[s].writes
    BY <1>0 DEF Txn, Phases, Replies
  <2>2. txn' = [txn EXCEPT ![s] = t] /\ UNCHANGED <<clock, rows, settled, grants>>
    BY <1>4 DEF CommitUnknown
  <2>3. leases' \subseteq [id : Ids, token : Tokens]
    BY <1>0, <1>1, <1>4 DEF CommitUnknown
  <2>4. TxnOK(t, rows, clock)
    BY <2>1 DEF IInv, TxnOK, ScanOK
  <2>5. \A j \in Ids, p \in Sessions \ {s} :
           t.writes[j].state # "none" => txn[p].writes[j].state = "none"
    BY <2>1 DEF IInv, WritersExclude
  <2> HIDE DEF t
  <2> QED BY <2>1, <2>2, <2>3, <2>4, <2>5, LocalStep
<1> QED BY <1>2, <1>3, <1>4

LEMMA ClaimScanStep ==
  ASSUME IInv, NEW s \in Sessions, NEW c \in Call, CallOK(c), c.op = "Claim",
         ClaimScan(s, c)
  PROVE  IInv'
<1> DEFINE seen == [j \in Ids |-> IF \/ Exhausted(c, rows[j], clock)
                                     \/ Eligible(c, rows[j], clock)
                                  THEN rows[j] ELSE NoRow]
           t == [Idle EXCEPT !.call = c, !.phase = "scanned", !.at = clock, !.seen = seen]
<1>0. /\ clock \in Nat /\ rows \in [Ids -> Row]
      /\ leases \subseteq [id : Ids, token : Tokens]
  BY DEF IInv, TypeOK, Time
<1>1. txn' = [txn EXCEPT ![s] = t] /\ UNCHANGED <<clock, rows, leases, settled, grants>>
  BY DEF ClaimScan
<1>2. /\ seen \in [Ids -> Row]
      /\ \A j \in Ids : seen[j].state # "none" => seen[j] = rows[j] /\ RowOK(seen[j])
  BY <1>0, NoRowType DEF IInv
<1> HIDE DEF seen
<1>3. t \in Txn /\ t.call = c /\ t.phase = "scanned" /\ t.at = clock /\ t.seen = seen
               /\ t.writes = NoRows
  BY <1>0, <1>2, IdleType DEF Idle, Txn, Phases, Time
<1> HIDE DEF t
<1>4. ScanOK(t, rows, clock)
  BY <1>0, <1>2, <1>3 DEF ScanOK, UpdateOps, LeaseOps
<1>5. TxnOK(t, rows, clock)
  BY <1>3, <1>4, IdleType DEF TxnOK
<1> QED BY <1>0, <1>1, <1>3, <1>5, IdleType, LocalStep

\* Time only makes more rows eligible.
LEMMA ClaimableStays ==
  ASSUME NEW c, NEW r \in Row, RowOK(r), NEW a \in Nat, NEW b \in Nat, a <= b
  PROVE  /\ Exhausted(c, r, a) => Exhausted(c, r, b)
         /\ Eligible(c, r, a) => Eligible(c, r, b)
<1>1. r.state = "running" => r.lease_until \in Nat
  BY DEF RowOK, Exists, SchemaChecks, JobState, Row, Time
<1>2. r.available_at \in Nat
  BY DEF Row, Time
<1> QED BY <1>1, <1>2 DEF Exhausted, Eligible

LEMMA ClaimRowsStep ==
  ASSUME IInv, NEW s \in Sessions, ClaimRows(s)
  PROVE  IInv'
<1> DEFINE c == txn[s].call
           seen == txn[s].seen
<1>0. /\ clock \in Nat /\ rows \in [Ids -> Row] /\ txn[s] \in Txn
      /\ TxnOK(txn[s], rows, clock) /\ \A j \in Ids : RowOK(rows[j])
      /\ leases \subseteq [id : Ids, token : Tokens]
  BY DEF IInv, TypeOK, Time
<1>1. /\ c \in Call /\ CallOK(c) /\ c.op = "Claim"
      /\ txn[s].phase = "scanned" /\ txn[s].at \in Nat /\ txn[s].at <= clock
  BY <1>0 DEF TxnOK, ScanOK, Txn, ClaimRows, Time
<1> DEFINE sweep == Firsts(Sweepable(s), SweepLimit, seen)
           pick == First(Claimable(s), seen)
           id == IF pick = {} THEN NULL ELSE CHOOSE j \in pick : TRUE
           d == [c EXCEPT !.id = id]
           reply == IF pick = {} THEN "ErrNoJob" ELSE "ok"
           writes == [j \in Ids |->
                        CASE j \in pick            -> Granted(c, rows[j], clock)
                          [] j \in sweep \ pick    -> Buried(rows[j], clock)
                          [] OTHER                 -> NoRow]
           t == [Idle EXCEPT !.call = d, !.phase = "commit", !.reply = reply,
                             !.writes = writes]
<1>2. txn' = [txn EXCEPT ![s] = t] /\ UNCHANGED <<clock, rows, leases, settled, grants>>
  BY DEF ClaimRows
<1>3. \A i, j \in pick : i = j
  <2>1. ASSUME NEW i \in pick, NEW j \in pick, i # j PROVE FALSE
    <3>1. Before(i, j, seen) /\ Before(j, i, seen)
      BY <2>1 DEF First
    <3>2. /\ i \in Ids /\ j \in Ids /\ seen[i] \in Row /\ seen[j] \in Row
          /\ seen[i].state # "none" /\ seen[j].state # "none"
          /\ Eligible(c, seen[i], txn[s].at) /\ Eligible(c, seen[j], txn[s].at)
      BY <1>0, <2>1 DEF First, Claimable, Matched, Txn
    <3>3. RowOK(seen[i]) /\ RowOK(seen[j])
      BY <1>0, <1>1, <3>2 DEF TxnOK, ScanOK
    <3>4. \A n \in {i, j} : seen[n].state # "pending" => seen[n].lease_until \in Nat
      BY <3>2, <3>3 DEF Eligible, RowOK, Exists, SchemaChecks, JobState, Row, Time
    <3>5. \A n \in {i, j} : /\ n \in Nat /\ seen[n].created_at \in Nat
                            /\ seen[n].available_at \in Nat
      BY <3>2, IdsAssumption DEF Row, Time
    <3> DEFINE key(n) == IF seen[n].state = "pending" THEN seen[n].available_at
                         ELSE seen[n].lease_until
    <3>6. key(i) \in Nat /\ key(j) \in Nat
      BY <3>4, <3>5
    <3>7. /\ ClaimOrder(i, seen[i]) = <<key(i), seen[i].created_at, i>>
          /\ ClaimOrder(j, seen[j]) = <<key(j), seen[j].created_at, j>>
      BY DEF ClaimOrder
    <3> HIDE DEF key
    <3>8. /\ Precedes(<<key(i), seen[i].created_at, i>>, <<key(j), seen[j].created_at, j>>)
          /\ Precedes(<<key(j), seen[j].created_at, j>>, <<key(i), seen[i].created_at, i>>)
      BY <3>1, <3>7 DEF Before
    <3> QED BY <3>5, <3>6, <3>8 DEF Precedes
  <2> QED BY <2>1
<1>4. pick \subseteq Claimable(s) /\ sweep \subseteq Sweepable(s)
  BY DEF First, Firsts
<1> HIDE DEF pick, sweep
<1>5. /\ \A j \in pick : /\ j \in Ids /\ Lockable(s, j, "ForUpdate")
                          /\ Eligible(c, rows[j], clock)
      /\ \A j \in sweep : /\ j \in Ids /\ Lockable(s, j, "ForUpdate")
                           /\ Exhausted(c, rows[j], clock)
  <2>1. \A j \in Matched(s) : j \in Ids /\ (j \notin txn[s].stale => seen[j] = rows[j])
    BY <1>0, <1>1 DEF Matched, TxnOK, ScanOK
  <2>2. \A j \in pick : /\ j \in Matched(s) /\ Lockable(s, j, "ForUpdate")
                        /\ Eligible(c, seen[j], txn[s].at)
                        /\ j \in txn[s].stale => Eligible(c, rows[j], clock)
    BY <1>4 DEF Sweepable, Claimable, ClaimLock
  <2>3. \A j \in sweep : /\ j \in Matched(s) /\ Lockable(s, j, "ForUpdate")
                         /\ Exhausted(c, seen[j], txn[s].at)
                         /\ j \in txn[s].stale => Exhausted(c, rows[j], clock)
    BY <1>4 DEF Sweepable, Claimable, ClaimLock
  <2>4. \A j \in Ids : rows[j] \in Row /\ RowOK(rows[j])
    BY <1>0
  <2> QED BY <1>0, <1>1, <2>1, <2>2, <2>3, <2>4, ClaimableStays
<1>7. id \in Ids \union {NULL} /\ \A j \in pick : j = id
  BY <1>3, <1>5
<1> HIDE DEF id
<1>8. /\ d \in Call /\ CallOK(d) /\ d.op = "Claim" /\ d.id = id /\ d.queue = c.queue
      /\ d.token = c.token /\ d.worker = c.worker /\ d.duration = c.duration
  BY <1>1, <1>7 DEF Call, CallOK, UpdateOps, LeaseOps
<1> HIDE DEF d
<1>9. \A j \in Ids : writes[j] \in Row
  BY <1>0, <1>1, GrantedType, BuriedType, NoRowType DEF Time
<1>10. \A j \in Ids : writes[j].state # "none" =>
         /\ Lockable(s, j, "ForUpdate")
         /\ WriteAt(d, rows[j], writes[j], clock)
         /\ writes[j].state = "running" => j = d.id
  <2> TAKE j \in Ids
  <2>1. CASE j \in pick
    <3>1. writes[j] = Granted(c, rows[j], clock)
      BY <2>1
    <3>2. Granted(c, rows[j], clock) = Granted(d, rows[j], clock)
      BY <1>8 DEF Granted
    <3>3. Eligible(d, rows[j], clock)
      BY <1>5, <1>8, <2>1 DEF Eligible
    <3> QED BY <1>5, <1>7, <1>8, <2>1, <3>1, <3>2, <3>3 DEF WriteAt
  <2>2. CASE j \in sweep \ pick
    <3>1. writes[j] = Buried(rows[j], clock)
      BY <2>2
    <3>2. Exhausted(d, rows[j], clock)
      BY <1>5, <1>8, <2>2 DEF Exhausted
    <3>3. writes[j].state # "running"
      <4>1. rows[j] \in Row
        BY <1>0
      <4>2. Buried(rows[j], clock).state = "dead"
        BY <4>1 DEF Buried, Finish, Unleased, Row
      <4> QED BY <3>1, <4>2
    <3> QED BY <1>5, <1>8, <2>2, <3>1, <3>2, <3>3 DEF WriteAt
  <2>3. CASE j \notin pick /\ j \notin sweep
    BY <2>3, NoRowType
  <2> QED BY <2>1, <2>2, <2>3
<1>11. writes \in [Ids -> Row]
  BY <1>9
<1> HIDE DEF writes
<1>12. t \in Txn /\ t.call = d /\ t.phase = "commit" /\ t.writes = writes
  BY <1>8, <1>11, IdleType DEF Idle, Txn, Phases, Replies
<1> HIDE DEF t
<1>13. TxnOK(t, rows, clock)
  BY <1>0, <1>8, <1>10, <1>12 DEF TxnOK, ScanOK, WriteOK
<1>14. \A j \in Ids, p \in Sessions \ {s} :
            t.writes[j].state # "none" => txn[p].writes[j].state = "none"
  BY <1>10, <1>12, LockExcludes
<1> QED BY <1>0, <1>2, <1>12, <1>13, <1>14, LocalStep

LEMMA InsertStep ==
  ASSUME IInv, NEW s \in Sessions, NEW c \in Call, CallOK(c), c.op = "Enqueue",
         NEW id \in Ids, Insert(s, c, id)
  PROVE  IInv'
<1> DEFINE d == [c EXCEPT !.id = id]
           w == Inserted(c.request, clock)
           writes == [NoRows EXCEPT ![id] = w]
           t == [Idle EXCEPT !.call = d, !.phase = "commit", !.reply = "ok", !.writes = writes]
           u == [Idle EXCEPT !.call = c, !.phase = "rejected"]
<1>0. clock \in Nat /\ leases \subseteq [id : Ids, token : Tokens]
  BY DEF IInv, TypeOK, Time
<1>1. UNCHANGED <<clock, rows, leases, settled, grants>>
  BY DEF Insert
<1>2. CASE /\ rows[id].state = "none" /\ \A p \in Sessions : id \notin Written(p)
           /\ txn' = [txn EXCEPT ![s] = t]
  <2>1. d \in Call /\ CallOK(d) /\ d.op = "Enqueue" /\ d.request = c.request
    BY DEF Call, CallOK, UpdateOps, LeaseOps
  <2>2. w \in Row
    BY <1>0, InsertedType DEF CallOK, Time
  <2>3. WriteAt(d, rows[id], w, clock)
    BY <1>2, <2>1 DEF WriteAt
  <2> HIDE DEF d, w
  <2>4. /\ writes \in [Ids -> Row]
        /\ \A j \in Ids : writes[j].state # "none" => j = id /\ writes[j] = w
    BY <2>2, IdleType
  <2> HIDE DEF writes
  <2>5. t \in Txn /\ t.call = d /\ t.phase = "commit" /\ t.writes = writes
    BY <2>1, <2>4, IdleType DEF Idle, Txn, Phases, Replies
  <2> HIDE DEF t
  <2>6. TxnOK(t, rows, clock)
    BY <1>0, <2>1, <2>3, <2>4, <2>5 DEF TxnOK, ScanOK, WriteOK
  <2>7. \A j \in Ids, p \in Sessions \ {s} :
            t.writes[j].state # "none" => txn[p].writes[j].state = "none"
    BY <1>2, <2>4, <2>5 DEF Written
  <2> QED BY <1>0, <1>1, <1>2, <2>5, <2>6, <2>7, LocalStep
<1>3. CASE txn' = [txn EXCEPT ![s] = u]
  <2>1. u \in Txn /\ u.call = c /\ u.phase # "scanned" /\ u.writes = NoRows
    BY IdleType DEF Idle, Txn, Phases
  <2> HIDE DEF u
  <2> QED BY <1>1, <1>3, <2>1, QuietStep
<1> QED BY <1>2, <1>3 DEF Insert

\* What the validations let through.
LEMMA StartStep ==
  ASSUME IInv, NEW s \in Sessions, Start(s)
  PROVE  IInv'
<1>0. leases \subseteq [id : Ids, token : Tokens]
  BY DEF IInv, TypeOK
<1>1. CASE Enqueue(s)
  <2> PICK request \in Requests, id \in Ids :
        /\ validateEnqueue(request)
        /\ Insert(s, [NoCall EXCEPT !.op = "Enqueue", !.request = request], id)
    BY <1>1 DEF Enqueue
  <2> DEFINE c == [NoCall EXCEPT !.op = "Enqueue", !.request = request]
  <2>1. request \in EnqueueRequest
    BY StoreAssumption
  <2>2. c \in Call /\ c.op = "Enqueue"
    BY <2>1, IdleType DEF Call, AllOps
  <2>3. CallOK(c)
    BY <2>1 DEF NoCall, CallOK, UpdateOps, LeaseOps
  <2> QED BY <2>2, <2>3, InsertStep
<1>2. CASE Claim(s)
  <2> PICK queue \in Queues, worker \in Workers, d \in LeaseDurations, t \in FreshTokens :
        /\ validateClaim(d)
        /\ ClaimScan(s, [NoCall EXCEPT !.op = "Claim", !.queue = queue,
                              !.worker = worker, !.duration = d, !.token = t])
    BY <1>2 DEF Claim
  <2> DEFINE c == [NoCall EXCEPT !.op = "Claim", !.queue = queue,
                              !.worker = worker, !.duration = d, !.token = t]
  <2>1. t \in Tokens /\ d \in Int
    BY StoreAssumption DEF FreshTokens
  <2>2. c \in Call /\ c.op = "Claim"
    BY <2>1, IdleType DEF Call, AllOps
  <2>3. CallOK(c)
    BY <2>1 DEF NoCall, CallOK, UpdateOps, LeaseOps
  <2> QED BY <2>2, <2>3, ClaimScanStep
<1>3. CASE Heartbeat(s)
  <2> PICK l \in leases, d \in LeaseDurations :
        /\ validateClaim(d)
        /\ Scan(s, [NoCall EXCEPT !.op = "Heartbeat", !.id = l.id,
                                  !.token = l.token, !.duration = d])
    BY <1>3 DEF Heartbeat
  <2> DEFINE c == [NoCall EXCEPT !.op = "Heartbeat", !.id = l.id,
                                 !.token = l.token, !.duration = d]
  <2>1. l.id \in Ids /\ l.token \in Tokens /\ d \in Int
    BY <1>0, StoreAssumption
  <2>2. c \in Call /\ c.op \in UpdateOps
    BY <2>1, IdleType DEF Call, AllOps, UpdateOps, LeaseOps
  <2>3. CallOK(c)
    BY <2>1 DEF NoCall, CallOK, UpdateOps, LeaseOps
  <2> QED BY <2>2, <2>3, ScanStep
<1>4. CASE Complete(s)
  <2> PICK l \in leases :
        Scan(s, [NoCall EXCEPT !.op = "Complete", !.id = l.id, !.token = l.token])
    BY <1>4 DEF Complete
  <2> DEFINE c == [NoCall EXCEPT !.op = "Complete", !.id = l.id, !.token = l.token]
  <2>1. l.id \in Ids /\ l.token \in Tokens
    BY <1>0
  <2>2. c \in Call /\ c.op \in UpdateOps
    BY <2>1, IdleType DEF Call, AllOps, UpdateOps, LeaseOps
  <2>3. CallOK(c)
    BY <2>1 DEF NoCall, CallOK, UpdateOps, LeaseOps
  <2> QED BY <2>2, <2>3, ScanStep
<1>5. CASE Fail(s)
  <2> PICK l \in leases, permanent \in BOOLEAN, delay \in RetryDelays :
        /\ validateFailure(permanent, delay)
        /\ Scan(s, [NoCall EXCEPT !.op = "Fail", !.id = l.id, !.token = l.token,
                                  !.permanent = permanent, !.delay = delay])
    BY <1>5 DEF Fail
  <2> DEFINE c == [NoCall EXCEPT !.op = "Fail", !.id = l.id, !.token = l.token,
                                 !.permanent = permanent, !.delay = delay]
  <2>1. l.id \in Ids /\ l.token \in Tokens /\ delay \in Int
    BY <1>0, StoreAssumption
  <2>2. c \in Call /\ c.op \in UpdateOps
    BY <2>1, IdleType DEF Call, AllOps, UpdateOps, LeaseOps
  <2>3. CallOK(c)
    BY <2>1 DEF NoCall, CallOK, UpdateOps, LeaseOps
  <2> QED BY <2>2, <2>3, ScanStep
<1>6. CASE Cancel(s) \/ Redrive(s)
  <2> PICK j \in Ids, op \in {"Cancel", "Redrive"} :
        Scan(s, [NoCall EXCEPT !.op = op, !.id = j])
    BY <1>6 DEF Cancel, Redrive
  <2> DEFINE c == [NoCall EXCEPT !.op = op, !.id = j]
  <2>1. c \in Call /\ c.op \in UpdateOps
    BY IdleType DEF Call, AllOps, UpdateOps, LeaseOps
  <2>2. CallOK(c)
    BY DEF NoCall, CallOK, UpdateOps, LeaseOps
  <2> QED BY <2>1, <2>2, ScanStep
<1> QED BY <1>1, <1>2, <1>3, <1>4, <1>5, <1>6 DEF Start

LEMMA PurgeStep ==
  ASSUME IInv, NEW k \in Ids, Purge(k)
  PROVE  IInv'
<1> DEFINE gone == [NoRow EXCEPT !.state = "purged"]
<1>0. /\ rows \in [Ids -> Row] /\ txn \in [Sessions -> Txn]
      /\ \A p \in Sessions : TxnOK(txn[p], rows, clock)
      /\ WritersExclude /\ \A j \in Ids : RowOK(rows[j])
  BY DEF IInv, TypeOK
<1>1. gone \in Row /\ gone.token = NULL /\ gone.state = "purged"
  BY NoRowType DEF Row, RowState
<1>2. /\ rows' = [rows EXCEPT ![k] = gone] /\ clock' = clock
      /\ \A p \in Sessions : txn'[p] =
           [txn[p] EXCEPT !.stale = @ \union (Matched(p) \intersect {k})]
  BY DEF Purge
<1> HIDE DEF gone
<1>3. \A j \in Ids : RowOK(rows'[j])
  BY <1>0, <1>1, <1>2 DEF RowOK, Exists, JobState
<1>4. ASSUME NEW p \in Sessions
      PROVE  /\ txn'[p] \in Txn /\ txn'[p].writes = txn[p].writes
             /\ TxnOK(txn'[p], rows', clock')
  <2> DEFINE t == txn[p]
             u == txn'[p]
  <2>1. t \in Txn /\ u = [t EXCEPT !.stale = @ \union (Matched(p) \intersect {k})]
    BY <1>0, <1>2
  <2>2. /\ u.call = t.call /\ u.phase = t.phase /\ u.at = t.at /\ u.seen = t.seen
        /\ u.writes = t.writes /\ u.stale = t.stale \union (Matched(p) \intersect {k})
    BY <2>1 DEF Txn
  <2>3. t.stale \union (Matched(p) \intersect {k}) \in SUBSET Ids
    BY <2>1 DEF Txn
  <2>4. u \in Txn
    BY <2>1, <2>3 DEF Txn
  <2>5. ScanOK(u, rows', clock')
    <3>0. ScanOK(t, rows, clock) /\ clock' = clock
      BY <1>0, <1>2 DEF TxnOK
    <3>1. ASSUME u.phase = "scanned", NEW j \in Ids, u.seen[j].state # "none",
                 j \notin u.stale
          PROVE  u.seen[j] = rows'[j]
      <4>1. j \in Matched(p) /\ j \notin t.stale /\ j # k
        BY <2>2, <3>1 DEF Matched
      <4>2. t.seen[j] = rows[j]
        BY <2>2, <3>0, <3>1, <4>1 DEF ScanOK
      <4> QED BY <1>0, <1>2, <2>2, <4>1, <4>2
    <3> HIDE DEF t, u
    <3> QED BY <2>2, <3>0, <3>1 DEF ScanOK
  <2>6. t.writes[k].state = "none"
    <3> SUFFICES ASSUME k \in Written(p) PROVE FALSE
      BY DEF Written
    <3>1. LockHeld(p, k) \in {"NoKeyUpdate", "ForUpdate"}
      BY DEF LockHeld
    <3> QED BY <3>1 DEF Purge, LockConflicts
  <2>7. \A j \in Ids : u.writes[j].state # "none" => rows'[j] = rows[j]
    BY <1>0, <1>2, <2>2, <2>6
  <2> QED BY <1>0, <1>2, <2>2, <2>4, <2>5, <2>7 DEF TxnOK
<1>5. WritersExclude'
  BY <1>0, <1>4 DEF WritersExclude
<1>6. TypeOK'
  <2>1. rows' \in [Ids -> Row]
    BY <1>0, <1>1, <1>2
  <2>2. txn' \in [Sessions -> Txn]
    BY <1>4 DEF Purge
  <2>3. \A t \in {rows[k].token} \ {NULL} : t \in Tokens
    BY <1>0 DEF Row
  <2>4. settled' \subseteq Ending
    BY <2>3 DEF Purge, Ending, AllOps, IInv, TypeOK
  <2> QED BY <2>1, <2>2, <2>4 DEF Purge, TypeOK, IInv
<1> QED BY <1>3, <1>4, <1>5, <1>6 DEF IInv

LEMMA TickStep ==
  ASSUME IInv, Tick
  PROVE  IInv'
<1>0. clock \in Nat /\ clock' = clock + 1 /\ UNCHANGED <<rows, txn, leases, settled, grants>>
  BY DEF IInv, TypeOK, Tick, Time
<1>1. ASSUME NEW s \in Sessions PROVE TxnOK(txn'[s], rows', clock')
  <2>1. TxnOK(txn[s], rows, clock) /\ txn[s].at \in Nat
    BY DEF IInv, TypeOK, Txn, Time
  <2>2. ScanOK(txn[s], rows, clock + 1)
    BY <1>0, <2>1 DEF TxnOK, ScanOK
  <2>3. \A j \in Ids : WriteOK(txn[s].call, rows[j], txn[s].writes[j], clock)
                 => WriteOK(txn[s].call, rows[j], txn[s].writes[j], clock + 1)
    BY <1>0 DEF WriteOK
  <2> QED BY <1>0, <2>1, <2>2, <2>3 DEF TxnOK
<1>2. TypeOK'
  BY <1>0 DEF IInv, TypeOK, Time
<1>3. WritersExclude'
  BY <1>0 DEF IInv, WritersExclude
<1> QED BY <1>0, <1>1, <1>2, <1>3 DEF IInv

LEMMA InitInvariant == Init => IInv
<1> SUFFICES ASSUME Init PROVE IInv
  OBVIOUS
<1>1. TypeOK
  BY IdleType DEF Init, TypeOK, Time
<1>2. \A s \in Sessions : txn[s] = Idle
  BY DEF Init
<1>3. \A s \in Sessions : TxnOK(txn[s], rows, clock)
  BY <1>2, IdleType, NothingWritten
<1>4. WritersExclude
  BY <1>2, IdleType DEF WritersExclude
<1>5. \A j \in Ids : RowOK(rows[j])
  BY NoRowType DEF Init, NoRows, RowOK, Exists, JobState
<1> QED BY <1>1, <1>3, <1>4, <1>5 DEF IInv

LEMMA NextInvariant == IInv /\ [Next]_vars => IInv'
<1> SUFFICES ASSUME IInv, [Next]_vars PROVE IInv'
  OBVIOUS
<1>1. ASSUME NEW s \in Sessions, Start(s) PROVE IInv'
  BY <1>1, StartStep
<1>2. ASSUME NEW s \in Sessions, Body(s) PROVE IInv'
  BY <1>2, UpdateRowStep, ClaimRowsStep, QuietSteps DEF Body
<1>3. ASSUME NEW s \in Sessions, End(s) PROVE IInv'
  BY <1>3, CommitSteps, QuietSteps DEF End
<1>4. ASSUME NEW s \in Sessions, Abort(s) \/ Return(s) PROVE IInv'
  BY <1>4, QuietSteps
<1>5. ASSUME NEW j \in Ids, Purge(j) PROVE IInv'
  BY <1>5, PurgeStep
<1>6. CASE Tick
  BY <1>6, TickStep
<1>7. CASE UNCHANGED vars
  <2>1. UNCHANGED <<clock, rows, txn, leases, settled, grants>>
    BY <1>7 DEF vars
  <2> QED BY <2>1 DEF IInv, TypeOK, WritersExclude, TxnOK, ScanOK, WriteOK
<1> QED BY <1>1, <1>2, <1>3, <1>4, <1>5, <1>6, <1>7 DEF Next

\* The inductive invariant holds of every reachable state: every pending write
\* is current, writers exclude each other, every row is legal.
THEOREM Invariance == Spec => []IInv
BY InitInvariant, NextInvariant, PTL DEF Spec

\* The columns, pending versions and calls of JobStore keep their types.
THEOREM TypeCorrect == Spec => []TypeOK
<1>1. IInv => TypeOK
  BY DEF IInv
<1> QED BY <1>1, Invariance, PTL

\* Whatever transactions interleave, a commit applies a version computed from
\* the committed one at an instant at which its WHERE clause held.
THEOREM NoLostUpdate == Spec => []PendingWritesCurrent
<1>1. IInv => PendingWritesCurrent
  BY DEF IInv, TxnOK, PendingWritesCurrent, Written, WriteOK, WriteAt
<1> QED BY <1>1, Invariance, PTL

\* No statement ever runs into a CHECK constraint of the migration.
THEOREM ConstraintsSafe == Spec => []ConstraintsNeverFire
<1>1. ASSUME IInv, NEW s \in Sessions, NEW j \in Written(s)
      PROVE  SchemaChecks(txn[s].writes[j])
  <2>1. /\ j \in Ids /\ txn[s].call \in Call /\ CallOK(txn[s].call) /\ clock \in Nat
        /\ rows[j] \in Row /\ RowOK(rows[j])
        /\ WriteOK(txn[s].call, rows[j], txn[s].writes[j], clock)
    BY <1>1 DEF IInv, TypeOK, Txn, TxnOK, Written, Time
  <2>2. PICK i \in 0..clock : WriteAt(txn[s].call, rows[j], txn[s].writes[j], i)
    BY <2>1 DEF WriteOK
  <2>3. i \in Time
    BY <2>1 DEF Time
  <2> DEFINE c == txn[s].call
             w == txn[s].writes[j]
  <2> HIDE DEF c, w
  <2>4. SchemaChecks(w)
    <3>1. c \in Call /\ CallOK(c) /\ rows[j] \in Row /\ RowOK(rows[j]) /\ WriteAt(c, rows[j], w, i)
      BY <2>1, <2>2 DEF c, w
    <3> QED BY <2>3, <3>1, WriteLegal
  <2> QED BY <2>4 DEF w
<1>2. IInv => ConstraintsNeverFire
  BY <1>1 DEF ConstraintsNeverFire
<1> QED BY <1>2, Invariance, PTL

\* Every committed job can be read back by scanJob.
THEOREM JobsReadable == Spec => []RowsReadable
<1>1. ASSUME NEW r \in Row, SchemaChecks(r)
      PROVE  validateStoredJob(r)
  BY <1>1, LimitsAssumption DEF Row, SchemaChecks, validateStoredJob, Terminal, JobState
<1>2. IInv => RowsReadable
  BY <1>1 DEF IInv, TypeOK, RowsReadable, RowOK
<1> QED BY <1>2, Invariance, PTL
-----------------------------------------------------------------------------
(* A step of a session that commits nothing changes that session only.     *)

LEMMA StartFrame ==
  ASSUME NEW s \in Sessions, Start(s)
  PROVE  /\ UNCHANGED <<clock, rows, leases, settled, grants>>
         /\ \E t : txn' = [txn EXCEPT ![s] = t]
<1>1. ASSUME NEW c, Scan(s, c)
      PROVE  /\ UNCHANGED <<clock, rows, leases, settled, grants>>
             /\ \E t : txn' = [txn EXCEPT ![s] = t]
  BY <1>1 DEF Scan
<1>2. ASSUME NEW c, ClaimScan(s, c)
      PROVE  /\ UNCHANGED <<clock, rows, leases, settled, grants>>
             /\ \E t : txn' = [txn EXCEPT ![s] = t]
  BY <1>2 DEF ClaimScan
<1>3. ASSUME NEW c, NEW id, Insert(s, c, id)
      PROVE  /\ UNCHANGED <<clock, rows, leases, settled, grants>>
             /\ \E t : txn' = [txn EXCEPT ![s] = t]
  BY <1>3 DEF Insert
<1>4. CASE Enqueue(s)
  BY <1>3, <1>4 DEF Enqueue
<1>5. CASE Claim(s)
  BY <1>2, <1>5 DEF Claim
<1>6. CASE Heartbeat(s)
  BY <1>1, <1>6 DEF Heartbeat
<1>7. CASE Complete(s)
  BY <1>1, <1>7 DEF Complete
<1>8. CASE Fail(s)
  BY <1>1, <1>8 DEF Fail
<1>9. CASE Cancel(s) \/ Redrive(s)
  BY <1>1, <1>9 DEF Cancel, Redrive
<1> QED BY <1>4, <1>5, <1>6, <1>7, <1>8, <1>9 DEF Start

LEMMA BodyFrame ==
  ASSUME NEW s \in Sessions, Body(s) \/ Abort(s) \/ Return(s) \/ LateAbort(s)
  PROVE  /\ UNCHANGED <<clock, rows, leases, settled, grants>>
         /\ \E t : txn' = [txn EXCEPT ![s] = t]
<1>1. CASE UpdateRow(s)
  BY <1>1 DEF UpdateRow
<1>2. CASE ClaimRows(s)
  BY <1>2 DEF ClaimRows
<1>3. CASE Reject(s)
  BY <1>3 DEF Reject
<1>4. CASE ReadIdempotent(s)
  BY <1>4 DEF ReadIdempotent
<1>5. CASE Abort(s) \/ Return(s) \/ LateAbort(s)
  BY <1>5 DEF Abort, Return, LateAbort
<1> QED BY <1>1, <1>2, <1>3, <1>4, <1>5 DEF Body
=============================================================================
