------------------------ MODULE JobStoreReplyProofs ------------------------
(***************************************************************************)
(* What callers of JobStore may rely on: a reply stays true after it was   *)
(* given, an idempotency key belongs to one job, and the job a duplicate   *)
(* enqueue is about to return is there until its transaction has ended.    *)
(***************************************************************************)
EXTENDS JobStoreFencingProofs

-----------------------------------------------------------------------------
(* The inductive invariant.                                                *)

\* The two versions would violate the unique index on (queue, key).
Clash(v, w) ==
  Exists(v) /\ Exists(w) /\ v.key # NULL /\ v.queue = w.queue /\ v.key = w.key

Inserts(t, j) == t.call.op = "Enqueue" /\ t.writes[j].state # "none"

KeysApart ==
  /\ \A i, j \in Ids : Clash(rows[i], rows[j]) => i = j
  /\ \A s \in Sessions, i, j \in Ids :
       Inserts(txn[s], i) => ~Clash(txn[s].writes[i], rows[j])
  /\ \A s, p \in Sessions, i, j \in Ids :
       Inserts(txn[s], i) /\ Inserts(txn[p], j)
         /\ Clash(txn[s].writes[i], txn[p].writes[j]) => i = j

\* The row is the job that request asks for.
Answers(r, request) == SameKey(r, request) /\ SameRequest(r, request)

\* What a transaction that waits for its commit has done.
CommitOK(t, table) ==
  LET c == t.call IN
  t.phase \in {"commit", "doubt"} =>
    /\ t.phase = "commit" => \/ t.reply = "ok"
                             \/ c.op = "Claim" /\ t.reply = "ErrNoJob"
    /\ c.op = "Claim" /\ t.phase = "commit" /\ t.reply = "ok" => c.id # NULL
    /\ c.op = "Claim" /\ c.id # NULL => t.writes[c.id].state = "running"
    /\ c.op \in UpdateOps =>
         \/ t.writes[c.id].state # "none"
         \/ c.op = "Cancel" /\ table[c.id].state \in {"canceled", "purged"}
    /\ c.op = "Enqueue" =>
         /\ c.id \in Ids
         /\ \A j \in Ids : t.writes[j].state # "none" => j = c.id
         /\ t.writes[c.id].state = "none" =>
              c.id \in t.shared /\ Answers(table[c.id], c.request)

\* What a caller that has its reply may conclude from it.
ToldOK(t, table, ended) ==
  LET c == t.call
      Is(state) == table[c.id].state \in {state, "purged"}
  IN
  t.phase = "returned" =>
    /\ c.op = "Complete" /\ t.reply = "ok" =>
         Is("succeeded") /\ [token |-> c.token, how |-> "Complete"] \in ended
    /\ c.op = "Fail" /\ t.reply = "ok" => [token |-> c.token, how |-> "Fail"] \in ended
    /\ c.op = "Cancel" /\ t.reply = "ok" => Is("canceled")
    /\ t.reply = "ErrCanceled" => c.op \in LeaseOps /\ Is("canceled")
    /\ c.op \in LeaseOps /\ t.reply = "ErrNotFound" => table[c.id].state = "purged"
    /\ c.op = "Claim" /\ t.reply = "ok" =>
         /\ c.id \in Ids
         /\ \/ table[c.id].token = c.token
            \/ \E e \in ended : e.token = c.token
    /\ c.op = "Enqueue" /\ t.reply = "ok" =>
         /\ c.id \in Ids
         /\ \/ table[c.id].state = "purged"
            \/ /\ Exists(table[c.id]) /\ table[c.id].key = c.request.key
               /\ SameRequest(table[c.id], c.request)

\* A lease names a job that was inserted.
KnownOK(t, table) == t.call.op \in LeaseOps => table[t.call.id].state # "none"

SessionOK(t, table, ended) ==
  CommitOK(t, table) /\ ToldOK(t, table, ended) /\ KnownOK(t, table)

ReplyInv ==
  /\ \A s \in Sessions : SessionOK(txn[s], rows, settled)
  /\ \A l \in leases : rows[l.id].state # "none"

-----------------------------------------------------------------------------
(* How a committed row may move.                                           *)

SameJob(w, r) ==
  Exists(w) /\ w.queue = r.queue /\ w.key = r.key /\ w.fingerprint = r.fingerprint

RowMove(r, w, ended) ==
  /\ r.state = "purged" => w.state = "purged"
  /\ r.state # "none" => w.state # "none"
  /\ r.state \in {"succeeded", "canceled"} => w.state \in {r.state, "purged"}
  /\ Exists(r) => w.state = "purged" \/ SameJob(w, r)
  /\ r.token # NULL => w.token = r.token \/ \E e \in ended : e.token = r.token

\* No SET clause touches queue, key or fingerprint, and only an insertion makes
\* a job.
LEMMA WriteIdentity ==
  ASSUME NEW c \in Call, CallOK(c), NEW r \in Row, RowOK(r), NEW now \in Nat,
         NEW w, WriteAt(c, r, w, now)
  PROVE  /\ Exists(w)
         /\ c.op = "Enqueue" =>
              /\ r.state = "none" /\ w.queue = c.request.queue
              /\ w.key = c.request.key /\ SameRequest(w, c.request)
         /\ c.op # "Enqueue" => Exists(r) /\ SameJob(w, r)
<1>1. Exists(w)
  BY WriteLegal DEF SchemaChecks, Exists, Time
<1>2. CASE c.op = "Enqueue"
  BY <1>1, <1>2 DEF WriteAt, Inserted, NoRow, SameRequest, UpdateOps, LeaseOps
<1>3. CASE c.op # "Enqueue"
  <2>1. Exists(r)
    BY <1>3, WriteEffect
  <2>2. w.queue = r.queue /\ w.key = r.key /\ w.fingerprint = r.fingerprint
    <3>1. CASE c.op = "Claim"
      BY <3>1 DEF WriteAt, Buried, Granted, Finish, Unleased, Row, UpdateOps, LeaseOps
    <3>2. CASE c.op = "Fail"
      <4>1. w = failSQL(c, r, now)
        BY <3>2 DEF WriteAt, Updated
      <4> QED BY <4>1 DEF failSQL, Finish, Unleased, Row
    <3>3. CASE c.op \in UpdateOps \ {"Fail"}
      <4>1. w = Updated(c, r, now)
        BY <3>3 DEF WriteAt, UpdateOps, LeaseOps
      <4> QED BY <3>3, <4>1
              DEF Updated, heartbeatSQL, completeSQL, cancelSQL, redriveSQL,
                  Finish, Unleased, Row, UpdateOps, LeaseOps
    <3> QED BY <1>3, <3>1, <3>2, <3>3 DEF WriteAt
  <2> QED BY <1>1, <1>3, <2>1, <2>2 DEF SameJob
<1> QED BY <1>2, <1>3

\* The pending version of a row, seen from the call that computed it.
LEMMA PendingIdentity ==
  ASSUME IInv, NEW s \in Sessions, NEW j \in Ids, txn[s].writes[j].state # "none"
  PROVE  LET c == txn[s].call
             r == rows[j]
             w == txn[s].writes[j]
         IN /\ txn[s].phase \in {"commit", "doubt"}
            /\ Exists(w) /\ w \in Row
            /\ c.op \in UpdateOps \union {"Claim", "Enqueue"}
            /\ c.op = "Enqueue" =>
                 /\ r.state = "none" /\ w.queue = c.request.queue
                 /\ w.key = c.request.key /\ SameRequest(w, c.request)
            /\ c.op # "Enqueue" => Exists(r) /\ SameJob(w, r)
            /\ c.op = "Complete" => w.state = "succeeded"
            /\ c.op = "Cancel" => w.state = "canceled"
            /\ c.op = "Claim" /\ w.state = "running" => w.token = c.token
            /\ r.state \notin {"succeeded", "canceled", "purged"}
<1> DEFINE c == txn[s].call
           r == rows[j]
           w == txn[s].writes[j]
<1>1. j \in Written(s) /\ txn[s].phase \in {"commit", "doubt"}
  BY DEF Written, IInv, TxnOK
<1>2. PICK i \in 0..clock : WriteAt(c, r, w, i)
  BY <1>1, WrittenRow
<1>3. /\ c \in Call /\ CallOK(c) /\ r \in Row /\ RowOK(r) /\ i \in Nat /\ w \in Row
  BY <1>1, WrittenRow
<1> HIDE DEF c, r, w
<1>4. /\ Exists(w)
      /\ c.op = "Enqueue" =>
           /\ r.state = "none" /\ w.queue = c.request.queue
           /\ w.key = c.request.key /\ SameRequest(w, c.request)
      /\ c.op # "Enqueue" => Exists(r) /\ SameJob(w, r)
  BY <1>2, <1>3, WriteIdentity
<1>5. /\ c.op \in UpdateOps \union {"Claim", "Enqueue"}
      /\ c.op = "Claim" /\ w.state = "running" => w.token = c.token
  BY <1>2, <1>3, WriteEffect
<1>6. /\ c.op = "Complete" => w.state = "succeeded"
      /\ c.op = "Cancel" => w.state = "canceled"
  BY <1>2, <1>3 DEF WriteAt, Updated, completeSQL, cancelSQL, Finish, Unleased, Row,
                    UpdateOps, LeaseOps
<1>7. r.state \notin {"succeeded", "canceled", "purged"}
  BY <1>2 DEF WriteAt, Where, Fenced, Exhausted, Eligible, UpdateOps, LeaseOps
<1> QED BY <1>1, <1>3, <1>4, <1>5, <1>6, <1>7 DEF c, r, w

\* A commit moves each row as RowMove allows, and remembers every ending.
LEMMA AppliedMoves ==
  ASSUME IInv, NEW s \in Sessions, Applied(s), NEW j \in Ids
  PROVE  /\ RowMove(rows[j], rows'[j], settled')
         /\ rows'[j] = rows[j] \/ rows'[j].state # "purged"
<1>1. CASE j \notin Written(s)
  <2>1. rows'[j] = rows[j]
    BY <1>1 DEF Applied
  <2> QED BY <2>1 DEF RowMove, SameJob
<1>2. CASE j \in Written(s)
  <2> DEFINE c == txn[s].call
             r == rows[j]
             w == txn[s].writes[j]
  <2>1. rows'[j] = w /\ w.state # "none"
    BY <1>2 DEF Applied, Written
  <2>2. /\ Exists(w) /\ r.state \notin {"succeeded", "canceled", "purged"}
        /\ c.op = "Enqueue" => r.state = "none"
        /\ c.op # "Enqueue" => SameJob(w, r)
    BY <2>1, PendingIdentity
  <2>3. ASSUME r.token # NULL, w.token # r.token
        PROVE  \E e \in settled' : e.token = r.token
    <3>1. CASE c.op \in {"Complete", "Fail"}
      <4>1. c.token = r.token
        <5>1. PICK i \in 0..clock : WriteAt(c, r, w, i)
          BY <1>2, WrittenRow
        <5> QED BY <3>1, <5>1 DEF WriteAt, Where, Fenced, UpdateOps, LeaseOps
      <4> DEFINE e == [token |-> c.token, how |-> c.op]
      <4>2. e \in settled' /\ e.token = r.token
        BY <1>2, <3>1, <4>1 DEF Applied, Endings
      <4> QED BY <4>2
    <3>2. CASE c.op \notin {"Complete", "Fail"}
      <4> DEFINE e == [token |-> r.token, how |-> c.op]
      <4>1. e \in settled' /\ e.token = r.token
        BY <1>2, <2>3, <3>2 DEF Applied, Endings
      <4> QED BY <4>1
    <3> QED BY <3>1, <3>2
  <2> QED BY <2>1, <2>2, <2>3 DEF RowMove, Exists, JobState
<1> QED BY <1>1, <1>2

LEMMA PurgeMoves ==
  ASSUME IInv, NEW k \in Ids, Purge(k), NEW j \in Ids
  PROVE  /\ RowMove(rows[j], rows'[j], settled')
         /\ rows'[j] = rows[j] \/ (j = k /\ rows'[j].state = "purged")
<1>0. rows \in [Ids -> Row] /\ [NoRow EXCEPT !.state = "purged"].state = "purged"
  BY DEF IInv, TypeOK, NoRow
<1>1. CASE j # k
  <2>1. rows'[j] = rows[j]
    BY <1>0, <1>1 DEF Purge
  <2> QED BY <2>1 DEF RowMove, SameJob
<1>2. CASE j = k
  <2>1. rows'[j].state = "purged"
    BY <1>0, <1>2 DEF Purge
  <2>2. ASSUME rows[j].token # NULL
        PROVE  \E e \in settled' : e.token = rows[j].token
    <3> DEFINE e == [token |-> rows[j].token, how |-> "Purge"]
    <3>1. e \in settled' /\ e.token = rows[j].token
      BY <1>2, <2>2 DEF Purge
    <3> QED BY <3>1
  <2> QED BY <1>2, <2>1, <2>2 DEF RowMove
<1> QED BY <1>1, <1>2

-----------------------------------------------------------------------------
(* Replies: the sessions that do not move keep what they know.             *)

LEMMA SessionKept ==
  ASSUME NEW t \in Txn, CallOK(t.call), NEW u,
         u.call = t.call, u.phase = t.phase, u.reply = t.reply,
         u.writes = t.writes, u.shared = t.shared,
         NEW before, NEW after, NEW ended, NEW ended2,
         SessionOK(t, before, ended), ended \subseteq ended2,
         \A j \in Ids : RowMove(before[j], after[j], ended2),
         (/\ t.phase \in {"commit", "doubt"} /\ t.call.op = "Enqueue"
          /\ t.call.id \in t.shared /\ t.writes[t.call.id].state = "none")
            => after[t.call.id].state # "purged"
  PROVE  SessionOK(u, after, ended2)
<1> DEFINE c == t.call
<1>0. c.op \in UpdateOps => c.id \in Ids
  BY DEF CallOK
<1>1. CommitOK(u, after)
  <2> SUFFICES ASSUME u.phase \in {"commit", "doubt"} PROVE CommitOK(u, after)
    BY DEF CommitOK
  <2>1. c.op = "Cancel" /\ before[c.id].state \in {"canceled", "purged"}
          => after[c.id].state \in {"canceled", "purged"}
    BY <1>0 DEF RowMove, UpdateOps
  <2>2. ASSUME c.op = "Enqueue", t.writes[c.id].state = "none"
        PROVE  Answers(after[c.id], c.request)
    <3>1. c.id \in Ids /\ c.id \in t.shared /\ Answers(before[c.id], c.request)
      BY <2>2 DEF SessionOK, CommitOK
    <3>2. after[c.id].state # "purged"
      BY <2>2, <3>1
    <3>3. SameJob(after[c.id], before[c.id])
      BY <3>1, <3>2 DEF RowMove, Answers, SameKey
    <3> QED BY <3>1, <3>3 DEF Answers, SameKey, SameRequest, SameJob
  <2> QED BY <2>1, <2>2 DEF SessionOK, CommitOK
<1>2. ToldOK(u, after, ended2)
  <2> SUFFICES ASSUME u.phase = "returned" PROVE ToldOK(u, after, ended2)
    BY DEF ToldOK
  <2>1. \A state \in {"succeeded", "canceled"} :
          c.op \in UpdateOps /\ before[c.id].state \in {state, "purged"}
            => after[c.id].state \in {state, "purged"}
    BY <1>0 DEF RowMove
  <2>2. c.op \in UpdateOps /\ before[c.id].state = "purged" => after[c.id].state = "purged"
    BY <1>0 DEF RowMove
  <2>3. ASSUME c.op = "Claim", t.reply = "ok"
        PROVE  /\ c.id \in Ids
               /\ \/ after[c.id].token = c.token
                  \/ \E e \in ended2 : e.token = c.token
    <3>1. /\ c.id \in Ids /\ c.token # NULL
          /\ \/ before[c.id].token = c.token
             \/ \E e \in ended : e.token = c.token
      BY <2>3, NullAssumption DEF SessionOK, ToldOK, CallOK
    <3> QED BY <3>1 DEF RowMove
  <2>4. ASSUME c.op = "Enqueue", t.reply = "ok"
        PROVE  /\ c.id \in Ids
               /\ \/ after[c.id].state = "purged"
                  \/ /\ Exists(after[c.id]) /\ after[c.id].key = c.request.key
                     /\ SameRequest(after[c.id], c.request)
    <3>1. /\ c.id \in Ids
          /\ \/ before[c.id].state = "purged"
             \/ /\ Exists(before[c.id]) /\ before[c.id].key = c.request.key
                /\ SameRequest(before[c.id], c.request)
      BY <2>4 DEF SessionOK, ToldOK
    <3> QED BY <3>1 DEF RowMove, SameJob, SameRequest
  <2>5. "Complete" \in UpdateOps /\ "Cancel" \in UpdateOps /\ LeaseOps \subseteq UpdateOps
    BY DEF UpdateOps, LeaseOps
  <2> HIDE DEF c
  <2>6. ToldOK(t, before, ended)
    BY DEF SessionOK
  <2> QED BY <2>1, <2>2, <2>3, <2>4, <2>5, <2>6 DEF ToldOK, c
<1>3. KnownOK(u, after)
  BY <1>0 DEF SessionOK, KnownOK, RowMove, UpdateOps
<1> QED BY <1>1, <1>2, <1>3 DEF SessionOK

\* A step of one session that commits nothing.
LEMMA ReplyLocal ==
  ASSUME ReplyInv, txn \in [Sessions -> Txn], NEW s \in Sessions, NEW t,
         txn' = [txn EXCEPT ![s] = t], rows' = rows, settled' = settled,
         SessionOK(t, rows, settled),
         \A l \in leases' : rows[l.id].state # "none"
  PROVE  ReplyInv'
<1>1. \A p \in Sessions : txn'[p] = IF p = s THEN t ELSE txn[p]
  OBVIOUS
<1>2. \A p \in Sessions : SessionOK(txn'[p], rows', settled')
  BY <1>1 DEF ReplyInv
<1> QED BY <1>2 DEF ReplyInv

\* A session without a commit ahead of it or a reply behind it.
LEMMA MidCall ==
  ASSUME NEW t, t.phase \in {"idle", "scanned", "rejected"}, KnownOK(t, rows)
  PROVE  SessionOK(t, rows, settled)
BY DEF SessionOK, CommitOK, ToldOK

LEMMA ReplyScan ==
  ASSUME IInv, ReplyInv, NEW s \in Sessions,
         Heartbeat(s) \/ Complete(s) \/ Fail(s) \/ Cancel(s) \/ Redrive(s)
  PROVE  ReplyInv'
<1>1. \E c : /\ c.op \in LeaseOps => rows[c.id].state # "none"
             /\ Scan(s, c)
  <2>0. \A l \in leases : rows[l.id].state # "none"
    BY DEF ReplyInv
  <2>1. ASSUME NEW l \in leases, NEW c, c.id = l.id, Scan(s, c)
        PROVE  \E d : (d.op \in LeaseOps => rows[d.id].state # "none") /\ Scan(s, d)
    BY <2>0, <2>1
  <2>2. CASE Heartbeat(s)
    <3> PICK l \in leases, d \in LeaseDurations :
          Scan(s, [NoCall EXCEPT !.op = "Heartbeat", !.id = l.id,
                                 !.token = l.token, !.duration = d])
      BY <2>2 DEF Heartbeat
    <3>1. [NoCall EXCEPT !.op = "Heartbeat", !.id = l.id,
                         !.token = l.token, !.duration = d].id = l.id
      BY DEF NoCall
    <3> QED BY <2>1, <3>1
  <2>3. CASE Complete(s)
    <3> PICK l \in leases :
          Scan(s, [NoCall EXCEPT !.op = "Complete", !.id = l.id, !.token = l.token])
      BY <2>3 DEF Complete
    <3>1. [NoCall EXCEPT !.op = "Complete", !.id = l.id, !.token = l.token].id = l.id
      BY DEF NoCall
    <3> QED BY <2>1, <3>1
  <2>4. CASE Fail(s)
    <3> PICK l \in leases, permanent \in BOOLEAN, delay \in RetryDelays :
          Scan(s, [NoCall EXCEPT !.op = "Fail", !.id = l.id, !.token = l.token,
                                 !.permanent = permanent, !.delay = delay])
      BY <2>4 DEF Fail
    <3>1. [NoCall EXCEPT !.op = "Fail", !.id = l.id, !.token = l.token,
                         !.permanent = permanent, !.delay = delay].id = l.id
      BY DEF NoCall
    <3> QED BY <2>1, <3>1
  <2>5. CASE Cancel(s) \/ Redrive(s)
    <3> PICK j \in Ids, op \in {"Cancel", "Redrive"} :
          Scan(s, [NoCall EXCEPT !.op = op, !.id = j])
      BY <2>5 DEF Cancel, Redrive
    <3>1. [NoCall EXCEPT !.op = op, !.id = j].op \notin LeaseOps
      BY DEF NoCall, LeaseOps
    <3> QED BY <3>1
  <2> QED BY <2>2, <2>3, <2>4, <2>5
<1>2. PICK c : /\ c.op \in LeaseOps => rows[c.id].state # "none"
               /\ Scan(s, c)
  BY <1>1
<1> DEFINE hit == Where(c, rows[c.id], clock)
           seen == IF hit THEN [NoRows EXCEPT ![c.id] = rows[c.id]] ELSE NoRows
           t == [Idle EXCEPT !.call = c,
                             !.phase = IF hit THEN "scanned" ELSE "rejected",
                             !.at = clock, !.seen = seen]
<1>3. /\ txn' = [txn EXCEPT ![s] = t]
      /\ t.call = c /\ t.phase \in {"scanned", "rejected"}
  <2>1. txn' = [txn EXCEPT ![s] = t]
    BY <1>2 DEF Scan
  <2> HIDE DEF hit, seen
  <2>2. t.call = c /\ t.phase \in {"scanned", "rejected"}
    BY DEF Idle
  <2> QED BY <2>1, <2>2
<1> HIDE DEF hit, seen, t
<1>4. /\ rows' = rows /\ settled' = settled /\ leases' = leases
      /\ txn \in [Sessions -> Txn]
  BY <1>2 DEF Scan, IInv, TypeOK
<1>5. SessionOK(t, rows, settled)
  BY <1>2, <1>3, MidCall DEF KnownOK
<1>6. \A l \in leases' : rows[l.id].state # "none"
  BY <1>4 DEF ReplyInv
<1> QED BY <1>3, <1>4, <1>5, <1>6, ReplyLocal

\* No update makes a row vanish.
LEMMA UpdatedState ==
  ASSUME NEW c, c.op \in UpdateOps, NEW r \in Row, NEW now,
         c.op \in LeaseOps => r.state # "none"
  PROVE  Updated(c, r, now).state # "none"
<1>1. CASE c.op = "Heartbeat"
  BY <1>1 DEF Updated, heartbeatSQL, Row, LeaseOps
<1>2. CASE c.op = "Fail"
  <2>1. Updated(c, r, now) = failSQL(c, r, now)
    BY <1>2 DEF Updated
  <2> QED BY <2>1 DEF failSQL, Finish, Unleased, Row
<1>3. CASE c.op \in {"Complete", "Cancel", "Redrive"}
  BY <1>3 DEF Updated, completeSQL, cancelSQL, redriveSQL, Finish, Unleased, Row
<1> QED BY <1>1, <1>2, <1>3 DEF UpdateOps, LeaseOps

LEMMA ReplyMoves ==
  ASSUME IInv, ReplyInv, NEW s \in Sessions,
         \/ Claim(s) \/ UpdateRow(s) \/ Reject(s) \/ Abort(s) \/ Return(s) \/ LateAbort(s)
  PROVE  ReplyInv'
<1> DEFINE c == txn[s].call
<1>0. /\ txn \in [Sessions -> Txn] /\ SessionOK(txn[s], rows, settled)
      /\ CallOK(c) /\ KnownOK(txn[s], rows) /\ \A l \in leases : rows[l.id].state # "none"
  BY DEF IInv, TypeOK, TxnOK, ReplyInv, SessionOK
<1>1. UNCHANGED <<rows, leases, settled>>
  <2>1. Start(s) \/ Body(s) \/ Abort(s) \/ Return(s) \/ LateAbort(s)
    BY DEF Start, Body
  <2> QED BY <2>1, StartFrame, BodyFrame
<1>2. SUFFICES \E t : txn' = [txn EXCEPT ![s] = t] /\ SessionOK(t, rows, settled)
  BY <1>0, <1>1, ReplyLocal
<1>3. SessionOK(Idle, rows, settled)
  BY MidCall DEF Idle, NoCall, KnownOK, LeaseOps
<1>4. CASE Claim(s)
  <2>1. PICK queue \in Queues, worker \in Workers, d \in LeaseDurations, k \in FreshTokens :
          ClaimScan(s, [NoCall EXCEPT !.op = "Claim", !.queue = queue,
                                      !.worker = worker, !.duration = d, !.token = k])
    BY <1>4 DEF Claim
  <2> DEFINE b == [NoCall EXCEPT !.op = "Claim", !.queue = queue,
                                 !.worker = worker, !.duration = d, !.token = k]
             seen == [j \in Ids |-> IF \/ Exhausted(b, rows[j], clock)
                                       \/ Eligible(b, rows[j], clock)
                                    THEN rows[j] ELSE NoRow]
             t == [Idle EXCEPT !.call = b, !.phase = "scanned", !.at = clock, !.seen = seen]
  <2>2. txn' = [txn EXCEPT ![s] = t]
    BY <2>1 DEF ClaimScan
  <2>3. b.op = "Claim"
    BY DEF NoCall
  <2> HIDE DEF b, seen
  <2>4. t.call = b /\ t.phase = "scanned"
    BY DEF Idle
  <2> HIDE DEF t
  <2>5. SessionOK(t, rows, settled)
    BY <2>3, <2>4, MidCall DEF KnownOK, LeaseOps
  <2> QED BY <2>2, <2>5
<1>5. CASE UpdateRow(s)
  <2> DEFINE now == IF c.id \in txn[s].stale THEN clock ELSE txn[s].at
             w == Updated(c, rows[c.id], now)
             writes == [NoRows EXCEPT ![c.id] = w]
             t == [Idle EXCEPT !.call = c, !.phase = "commit", !.reply = "ok",
                               !.writes = writes]
             u == [Idle EXCEPT !.call = c, !.phase = "rejected"]
  <2>1. txn' = [txn EXCEPT ![s] = t] \/ txn' = [txn EXCEPT ![s] = u]
    BY <1>5 DEF UpdateRow
  <2>2. CASE txn' = [txn EXCEPT ![s] = t]
    <3>1. c.op \in UpdateOps /\ c.id \in Ids
      BY <1>0, <1>5 DEF UpdateRow, CallOK
    <3>2. rows[c.id] \in Row /\ (c.op \in LeaseOps => rows[c.id].state # "none")
      BY <1>0, <3>1 DEF IInv, TypeOK, KnownOK
    <3>3. w.state # "none"
      BY <3>1, <3>2, UpdatedState
    <3> HIDE DEF w
    <3>4. writes[c.id].state # "none"
      BY <3>1, <3>3, IdleType
    <3> HIDE DEF writes
    <3>5. t.call = c /\ t.phase = "commit" /\ t.reply = "ok" /\ t.writes = writes
      BY DEF Idle
    <3> HIDE DEF t
    <3>6. SessionOK(t, rows, settled)
      BY <1>0, <3>1, <3>4, <3>5
         DEF SessionOK, CommitOK, ToldOK, KnownOK, UpdateOps, LeaseOps
    <3> QED BY <2>2, <3>6
  <2>3. CASE txn' = [txn EXCEPT ![s] = u]
    <3>1. u.call = c /\ u.phase = "rejected"
      BY DEF Idle
    <3> HIDE DEF u
    <3>2. SessionOK(u, rows, settled)
      BY <1>0, <3>1, MidCall DEF KnownOK
    <3> QED BY <2>3, <3>2
  <2> QED BY <2>1, <2>2, <2>3
<1>6. CASE Reject(s)
  <2> DEFINE reply == Classified(c, rows[c.id])
             t == [Idle EXCEPT !.call = c, !.reply = reply,
                               !.phase = IF reply = "ok" THEN "commit" ELSE "returned"]
  <2>1. txn' = [txn EXCEPT ![s] = t] /\ c.op \in UpdateOps
    BY <1>6 DEF Reject
  <2>2. /\ reply = "ok" => c.op = "Cancel" /\ rows[c.id].state = "canceled"
        /\ reply = "ErrCanceled" => c.op \in LeaseOps /\ rows[c.id].state = "canceled"
        /\ (reply = "ErrNotFound" /\ c.op \in LeaseOps) => rows[c.id].state \notin JobState
    BY DEF Classified, classifyLease, LeaseOps
  <2>3. (reply = "ErrNotFound" /\ c.op \in LeaseOps) => rows[c.id].state = "purged"
    <3>1. c.op \in LeaseOps => rows[c.id].state \in RowState
      BY <1>0 DEF IInv, TypeOK, Row, CallOK, UpdateOps
    <3> QED BY <1>0, <2>2, <3>1 DEF KnownOK, RowState
  <2> HIDE DEF reply
  <2>4. /\ t.call = c /\ t.reply = reply
        /\ t.phase = IF reply = "ok" THEN "commit" ELSE "returned"
    BY DEF Idle
  <2> HIDE DEF t
  <2>5. CommitOK(t, rows)
    BY <2>2, <2>4 DEF CommitOK, UpdateOps, LeaseOps
  <2>6. ToldOK(t, rows, settled)
    BY <2>1, <2>2, <2>3, <2>4 DEF ToldOK, UpdateOps, LeaseOps
  <2> QED BY <1>0, <2>1, <2>4, <2>5, <2>6 DEF SessionOK, KnownOK
<1>7. CASE Abort(s)
  <2> DEFINE t == [Idle EXCEPT !.call = c, !.phase = "returned", !.reply = "error"]
  <2>1. txn' = [txn EXCEPT ![s] = t]
    BY <1>7 DEF Abort
  <2>2. t.call = c /\ t.phase = "returned" /\ t.reply = "error"
    BY DEF Idle
  <2> HIDE DEF t
  <2> QED BY <1>0, <2>1, <2>2 DEF SessionOK, CommitOK, ToldOK, KnownOK
<1>8. CASE Return(s) \/ LateAbort(s)
  BY <1>3, <1>8 DEF Return, LateAbort
<1> QED BY <1>4, <1>5, <1>6, <1>7, <1>8

LEMMA ReplyClaimRows ==
  ASSUME IInv, ReplyInv, NEW s \in Sessions, ClaimRows(s)
  PROVE  ReplyInv'
<1> DEFINE c == txn[s].call
           seen == txn[s].seen
           sweep == Firsts(Sweepable(s), SweepLimit, seen)
           pick == First(Claimable(s), seen)
           id == IF pick = {} THEN NULL ELSE CHOOSE j \in pick : TRUE
           d == [c EXCEPT !.id = id]
           reply == IF pick = {} THEN "ErrNoJob" ELSE "ok"
           writes == [j \in Ids |->
                        CASE j \in pick            -> Granted(c, rows[j], clock)
                          [] j \in sweep \ pick    -> Buried(rows[j], clock)
                          [] OTHER                 -> NoRow]
           t == [Idle EXCEPT !.call = d, !.phase = "commit", !.reply = reply,
                             !.writes = writes]
<1>0. /\ txn \in [Sessions -> Txn] /\ rows \in [Ids -> Row] /\ c \in Call
      /\ c.op = "Claim" /\ \A l \in leases : rows[l.id].state # "none"
  BY DEF IInv, TypeOK, Txn, ReplyInv, ClaimRows
<1>1. /\ txn' = [txn EXCEPT ![s] = t]
      /\ rows' = rows /\ settled' = settled /\ leases' = leases
  BY DEF ClaimRows
<1>2. pick \subseteq Ids
  BY DEF First, Claimable, Matched
<1>3. \A j \in pick : writes[j].state = "running"
  <2> SUFFICES ASSUME NEW j \in pick PROVE writes[j].state = "running"
    OBVIOUS
  <2>1. j \in Ids /\ writes[j] = Granted(c, rows[j], clock) /\ rows[j] \in Row
    BY <1>0, <1>2
  <2> QED BY <2>1 DEF Granted, Row
<1> HIDE DEF writes, sweep, pick
<1>4. /\ id # NULL => id \in pick
      /\ reply = "ErrNoJob" \/ (reply = "ok" /\ id # NULL)
  <2>1. CASE pick = {}
    BY <2>1
  <2>2. CASE pick # {}
    <3>1. id \in pick /\ reply = "ok"
      BY <2>2
    <3> QED BY <1>2, <3>1, NullAssumption
  <2> QED BY <2>1, <2>2
<1> HIDE DEF id, reply
<1>5. d.op = "Claim" /\ d.id = id
  BY <1>0 DEF Call
<1> HIDE DEF d
<1>6. t.call = d /\ t.phase = "commit" /\ t.reply = reply /\ t.writes = writes
  BY DEF Idle
<1> HIDE DEF t
<1>7. SessionOK(t, rows, settled)
  BY <1>3, <1>4, <1>5, <1>6 DEF SessionOK, CommitOK, ToldOK, KnownOK, UpdateOps, LeaseOps
<1> QED BY <1>0, <1>1, <1>7, ReplyLocal

LEMMA ReplyEnqueue ==
  ASSUME IInv, ReplyInv, NEW s \in Sessions, Enqueue(s)
  PROVE  ReplyInv'
<1>0. /\ txn \in [Sessions -> Txn] /\ clock \in Nat
      /\ \A l \in leases : rows[l.id].state # "none"
  BY DEF IInv, TypeOK, Time, ReplyInv
<1>1. PICK request \in Requests, id \in Ids :
        Insert(s, [NoCall EXCEPT !.op = "Enqueue", !.request = request], id)
  BY DEF Enqueue
<1> DEFINE c == [NoCall EXCEPT !.op = "Enqueue", !.request = request]
           d == [c EXCEPT !.id = id]
           w == Inserted(request, clock)
           writes == [NoRows EXCEPT ![id] = w]
           t == [Idle EXCEPT !.call = d, !.phase = "commit", !.reply = "ok", !.writes = writes]
           u == [Idle EXCEPT !.call = c, !.phase = "rejected"]
<1>2. c.op = "Enqueue" /\ c.request = request /\ d.op = "Enqueue" /\ d.id = id
  BY DEF NoCall
<1>3. rows' = rows /\ settled' = settled /\ leases' = leases
  BY <1>1 DEF Insert
<1>4. txn' = [txn EXCEPT ![s] = t] \/ txn' = [txn EXCEPT ![s] = u]
  <2>1. c.request = request
    BY <1>2
  <2>2. Insert(s, c, id)
    BY <1>1
  <2> HIDE DEF c
  <2> QED BY <2>1, <2>2 DEF Insert
<1>5. w.state = "pending"
  BY DEF Inserted, NoRow
<1> HIDE DEF c, d, w
<1>6. writes[id].state # "none" /\ \A j \in Ids : writes[j].state # "none" => j = id
  BY <1>5, IdleType
<1> HIDE DEF writes
<1>7. /\ t.call = d /\ t.phase = "commit" /\ t.reply = "ok" /\ t.writes = writes
      /\ u.call = c /\ u.phase = "rejected"
  BY DEF Idle
<1> HIDE DEF t, u
<1>8. SessionOK(t, rows, settled)
  BY <1>2, <1>6, <1>7 DEF SessionOK, CommitOK, ToldOK, KnownOK, UpdateOps, LeaseOps
<1>9. SessionOK(u, rows, settled)
  BY <1>2, <1>7, MidCall DEF KnownOK, LeaseOps
<1> QED BY <1>0, <1>3, <1>4, <1>8, <1>9, ReplyLocal

LEMMA ReplyReadIdempotent ==
  ASSUME IInv, ReplyInv, NEW s \in Sessions, ReadIdempotent(s)
  PROVE  ReplyInv'
<1> DEFINE c == txn[s].call
           e == [Idle EXCEPT !.call = c, !.phase = "returned", !.reply = "error"]
           u == [Idle EXCEPT !.call = c, !.phase = "returned",
                             !.reply = "ErrIdempotencyConflict"]
           d(j) == [c EXCEPT !.id = j]
           t(j) == [Idle EXCEPT !.call = d(j), !.phase = "commit",
                                !.reply = "ok", !.shared = Retained(j)]
<1>0. /\ txn \in [Sessions -> Txn] /\ c \in Call /\ c.op = "Enqueue"
      /\ \A l \in leases : rows[l.id].state # "none"
  BY DEF IInv, TypeOK, Txn, ReplyInv, ReadIdempotent
<1>1. rows' = rows /\ settled' = settled /\ leases' = leases
  BY DEF ReadIdempotent
<1>2. \/ txn' = [txn EXCEPT ![s] = e]
      \/ txn' = [txn EXCEPT ![s] = u]
      \/ \E j \in Ids : /\ SameKey(rows[j], c.request) /\ SameRequest(rows[j], c.request)
                        /\ txn' = [txn EXCEPT ![s] = t(j)]
  BY DEF ReadIdempotent
<1>3. /\ e.call = c /\ e.phase = "returned" /\ e.reply = "error"
      /\ u.call = c /\ u.phase = "returned" /\ u.reply = "ErrIdempotencyConflict"
  BY DEF Idle
<1> HIDE DEF e, u
<1>4. SessionOK(e, rows, settled) /\ SessionOK(u, rows, settled)
  BY <1>0, <1>3 DEF SessionOK, CommitOK, ToldOK, KnownOK, LeaseOps
<1>5. ASSUME NEW j \in Ids, SameKey(rows[j], c.request), SameRequest(rows[j], c.request)
      PROVE  SessionOK(t(j), rows, settled)
  <2>1. d(j).op = "Enqueue" /\ d(j).id = j /\ d(j).request = c.request
    BY <1>0 DEF Call
  <2> HIDE DEF d
  <2>2. /\ t(j).call = d(j) /\ t(j).phase = "commit" /\ t(j).reply = "ok"
        /\ t(j).shared = {j} /\ t(j).writes = NoRows
    BY DEF Idle, Retained
  <2> HIDE DEF t, c
  <2>3. CommitOK(t(j), rows)
    BY <1>5, <2>1, <2>2, IdleType DEF CommitOK, Answers, UpdateOps, LeaseOps
  <2> QED BY <2>1, <2>2, <2>3 DEF SessionOK, ToldOK, KnownOK, LeaseOps
<1> HIDE DEF t
<1> QED BY <1>0, <1>1, <1>2, <1>4, <1>5, ReplyLocal

LEMMA ReplyCommitUnknown ==
  ASSUME IInv, ReplyInv, NEW s \in Sessions, CommitUnknown(s)
  PROVE  ReplyInv'
<1> DEFINE c == txn[s].call
           t == [txn[s] EXCEPT !.phase = "doubt", !.reply = "ErrCommitOutcomeUnknown"]
<1>0. /\ txn \in [Sessions -> Txn] /\ txn[s] \in Txn /\ c \in Call
      /\ SessionOK(txn[s], rows, settled) /\ txn[s].phase = "commit"
      /\ \A l \in leases : rows[l.id].state # "none"
  BY DEF IInv, TypeOK, Txn, ReplyInv, CommitUnknown
<1>1. /\ txn' = [txn EXCEPT ![s] = t] /\ rows' = rows /\ settled' = settled
      /\ leases' = leases \union Handed(s)
  BY DEF CommitUnknown
<1>2. /\ t.call = c /\ t.phase = "doubt" /\ t.writes = txn[s].writes
      /\ t.shared = txn[s].shared
  BY <1>0 DEF Txn
<1> HIDE DEF t
<1>3. SessionOK(t, rows, settled)
  BY <1>0, <1>2 DEF SessionOK, CommitOK, ToldOK, KnownOK
<1>4. ASSUME NEW l \in Handed(s) PROVE rows[l.id].state # "none"
  <2>1. l.id = c.id /\ c.op = "Claim" /\ c.id \in Ids
    BY <1>0 DEF Handed, Call
  <2>2. txn[s].writes[c.id].state # "none"
    BY <1>0, <2>1, NullAssumption DEF SessionOK, CommitOK
  <2> QED BY <2>1, <2>2, PendingIdentity DEF Exists, JobState
<1> QED BY <1>0, <1>1, <1>3, <1>4, ReplyLocal

\* A caller that is told its commit succeeded finds the table as its reply says.
LEMMA ReplyCommitted ==
  ASSUME IInv, NEW s \in Sessions, Applied(s), CommitOK(txn[s], rows),
         txn[s].phase = "commit", NEW t, t.call = txn[s].call, t.reply = txn[s].reply
  PROVE  ToldOK(t, rows', settled')
<1> DEFINE c == txn[s].call
<1>0. /\ c \in Call /\ CallOK(c)
      /\ t.reply = "ok" \/ (c.op = "Claim" /\ t.reply = "ErrNoJob")
  BY DEF IInv, TypeOK, Txn, TxnOK, CommitOK
<1>1. ASSUME NEW j \in Ids, txn[s].writes[j].state # "none"
      PROVE  j \in Written(s) /\ rows'[j] = txn[s].writes[j]
  BY <1>1 DEF Applied, Written
<1>2. ASSUME c.op \in {"Complete", "Fail"}
      PROVE  /\ c.id \in Ids /\ txn[s].writes[c.id].state # "none"
             /\ [token |-> c.token, how |-> c.op] \in settled'
  <2>1. c.id \in Ids /\ txn[s].writes[c.id].state # "none"
    BY <1>0, <1>2 DEF CommitOK, CallOK, UpdateOps, LeaseOps
  <2>2. c.id \in Written(s)
    BY <1>1, <2>1
  <2> QED BY <1>2, <2>1, <2>2 DEF Applied, Endings
<1>3. c.op = "Complete" => rows'[c.id].state = "succeeded"
  BY <1>1, <1>2, PendingIdentity
<1>4. ASSUME c.op = "Cancel" PROVE rows'[c.id].state \in {"canceled", "purged"}
  <2>1. c.id \in Ids
    BY <1>0, <1>4 DEF CallOK, UpdateOps
  <2>2. CASE txn[s].writes[c.id].state # "none"
    BY <1>1, <1>4, <2>1, <2>2, PendingIdentity
  <2>3. CASE txn[s].writes[c.id].state = "none"
    <3>1. rows[c.id].state \in {"canceled", "purged"}
      BY <1>4, <2>3 DEF CommitOK, UpdateOps
    <3>2. RowMove(rows[c.id], rows'[c.id], settled')
      BY <2>1, AppliedMoves
    <3> QED BY <3>1, <3>2 DEF RowMove
  <2> QED BY <2>2, <2>3
<1>5. ASSUME c.op = "Claim", t.reply = "ok"
      PROVE  c.id \in Ids /\ rows'[c.id].token = c.token
  <2>1. c.id \in Ids /\ txn[s].writes[c.id].state = "running"
    BY <1>0, <1>5 DEF CommitOK, Call
  <2> QED BY <1>1, <1>5, <2>1, PendingIdentity
<1>6. ASSUME c.op = "Enqueue"
      PROVE  /\ c.id \in Ids /\ Exists(rows'[c.id])
             /\ rows'[c.id].key = c.request.key /\ SameRequest(rows'[c.id], c.request)
  <2>1. c.id \in Ids
    BY <1>6 DEF CommitOK
  <2>2. CASE txn[s].writes[c.id].state # "none"
    BY <1>1, <1>6, <2>1, <2>2, PendingIdentity
  <2>3. CASE txn[s].writes[c.id].state = "none"
    <3>1. Answers(rows[c.id], c.request)
      BY <1>6, <2>3 DEF CommitOK
    <3>2. rows'[c.id] = rows[c.id]
      BY <2>1, <2>3 DEF Applied, Written
    <3> QED BY <2>1, <3>1, <3>2 DEF Answers, SameKey
  <2> QED BY <2>2, <2>3
<1> HIDE DEF c
<1>7. t.call = c
  BY DEF c
<1> QED BY <1>0, <1>2, <1>3, <1>4, <1>5, <1>6, <1>7 DEF ToldOK, LeaseOps

\* A commit, at once or late.
LEMMA ReplyApply ==
  ASSUME IInv, ReplyInv, NEW s \in Sessions, Commit(s) \/ LateCommit(s)
  PROVE  ReplyInv'
<1> DEFINE c == txn[s].call
           t == [Idle EXCEPT !.phase = "returned", !.call = c, !.reply = txn[s].reply]
<1>0. /\ txn \in [Sessions -> Txn] /\ \A p \in Sessions : CallOK(txn[p].call)
      /\ \A p \in Sessions : SessionOK(txn[p], rows, settled)
      /\ txn[s].phase \in {"commit", "doubt"} /\ c \in Call
      /\ leases \subseteq [id : Ids, token : Tokens]
      /\ \A l \in leases : rows[l.id].state # "none"
  BY DEF IInv, TypeOK, Txn, TxnOK, ReplyInv, Commit, LateCommit
<1>1. Applied(s)
  BY DEF Commit, LateCommit, Apply, Applied
<1>2. /\ \A j \in Ids : RowMove(rows[j], rows'[j], settled')
      /\ \A j \in Ids : rows'[j] = rows[j] \/ rows'[j].state # "purged"
      /\ settled \subseteq settled'
  BY <1>1, AppliedMoves DEF Applied
<1>3. ASSUME NEW p \in Sessions, p # s
      PROVE  SessionOK(txn'[p], rows', settled')
  <2>1. txn[p] \in Txn /\ txn'[p] =
          [txn[p] EXCEPT !.stale = @ \union (Matched(p) \intersect Written(s))]
    BY <1>0, <1>3 DEF Commit, LateCommit, Apply
  <2>2. /\ txn'[p].call = txn[p].call /\ txn'[p].phase = txn[p].phase
        /\ txn'[p].reply = txn[p].reply /\ txn'[p].writes = txn[p].writes
        /\ txn'[p].shared = txn[p].shared
    BY <2>1 DEF Txn
  <2>3. (/\ txn[p].phase \in {"commit", "doubt"} /\ txn[p].call.op = "Enqueue"
         /\ txn[p].call.id \in txn[p].shared
         /\ txn[p].writes[txn[p].call.id].state = "none")
           => rows'[txn[p].call.id].state # "purged"
    BY <1>0, <1>2, <1>3 DEF SessionOK, CommitOK, Answers, SameKey, Exists, JobState
  <2> DEFINE o == txn[p]
             u == txn'[p]
  <2>4. o \in Txn /\ CallOK(o.call) /\ SessionOK(o, rows, settled)
    BY <1>0, <2>1
  <2>5. /\ u.call = o.call /\ u.phase = o.phase /\ u.reply = o.reply
        /\ u.writes = o.writes /\ u.shared = o.shared
    BY <2>2
  <2>6. (/\ o.phase \in {"commit", "doubt"} /\ o.call.op = "Enqueue"
         /\ o.call.id \in o.shared /\ o.writes[o.call.id].state = "none")
           => rows'[o.call.id].state # "purged"
    BY <2>3
  <2> HIDE DEF o, u
  <2>7. SessionOK(u, rows', settled')
    BY <1>2, <2>4, <2>5, <2>6, SessionKept
  <2> QED BY <2>7 DEF u
<1>4. SessionOK(txn'[s], rows', settled')
  <2>1. CASE Commit(s)
    <3>1. txn'[s] = t
      BY <2>1 DEF Commit, Apply
    <3>2. t.phase = "returned" /\ t.call = c /\ t.reply = txn[s].reply
      BY DEF Idle
    <3> HIDE DEF t
    <3>3. ToldOK(t, rows', settled')
      BY <1>0, <1>1, <2>1, <3>2, ReplyCommitted DEF Commit, SessionOK
    <3>4. KnownOK(t, rows')
      BY <1>0, <1>2, <3>2 DEF KnownOK, SessionOK, RowMove, CallOK, UpdateOps
    <3> QED BY <3>1, <3>2, <3>3, <3>4 DEF SessionOK, CommitOK
  <2>2. CASE LateCommit(s)
    <3>1. txn'[s] = Idle
      BY <2>2 DEF LateCommit, Apply
    <3> QED BY <3>1
            DEF SessionOK, CommitOK, ToldOK, KnownOK, Idle, NoCall, LeaseOps
  <2> QED BY <2>1, <2>2
<1>5. ASSUME NEW l \in leases' PROVE rows'[l.id].state # "none"
  <2>1. CASE l \in leases
    BY <1>0, <1>2, <2>1 DEF RowMove
  <2>2. CASE l \in Handed(s)
    <3>1. l.id = c.id /\ c.op = "Claim" /\ c.id \in Ids
      BY <1>0, <2>2 DEF Handed, Call
    <3>2. txn[s].writes[c.id].state # "none"
      BY <1>0, <3>1, NullAssumption DEF SessionOK, CommitOK
    <3>3. Exists(rows[c.id])
      BY <3>1, <3>2, PendingIdentity
    <3> QED BY <1>2, <3>1, <3>3 DEF RowMove, Exists, JobState
  <2> QED BY <2>1, <2>2 DEF Commit, LateCommit
<1> QED BY <1>3, <1>4, <1>5 DEF ReplyInv

\* Retention passes over a row whose key a duplicate enqueue retains.
LEMMA ReplyPurge ==
  ASSUME IInv, ReplyInv, NEW k \in Ids, Purge(k)
  PROVE  ReplyInv'
<1>0. /\ txn \in [Sessions -> Txn] /\ \A p \in Sessions : CallOK(txn[p].call)
      /\ \A p \in Sessions : SessionOK(txn[p], rows, settled)
      /\ leases \subseteq [id : Ids, token : Tokens]
      /\ \A l \in leases : rows[l.id].state # "none"
  BY DEF IInv, TypeOK, TxnOK, ReplyInv
<1>1. /\ \A j \in Ids : RowMove(rows[j], rows'[j], settled')
      /\ \A j \in Ids : rows'[j] = rows[j] \/ j = k
      /\ settled \subseteq settled' /\ leases' = leases
  BY PurgeMoves DEF Purge
<1>2. ASSUME NEW p \in Sessions
      PROVE  SessionOK(txn'[p], rows', settled')
  <2>1. txn[p] \in Txn /\ txn'[p] =
          [txn[p] EXCEPT !.stale = @ \union (Matched(p) \intersect {k})]
    BY <1>0 DEF Purge
  <2>2. /\ txn'[p].call = txn[p].call /\ txn'[p].phase = txn[p].phase
        /\ txn'[p].reply = txn[p].reply /\ txn'[p].writes = txn[p].writes
        /\ txn'[p].shared = txn[p].shared
    BY <2>1 DEF Txn
  <2>3. ASSUME txn[p].phase \in {"commit", "doubt"}, txn[p].call.op = "Enqueue",
               txn[p].call.id \in txn[p].shared,
               txn[p].writes[txn[p].call.id].state = "none"
        PROVE  rows'[txn[p].call.id].state # "purged"
    <3> DEFINE j == txn[p].call.id
    <3>1. j \in Ids /\ Answers(rows[j], txn[p].call.request)
      BY <1>0, <2>3 DEF SessionOK, CommitOK
    <3>2. LockHeld(p, j) = "KeyShare"
      BY <2>3 DEF LockHeld, Written
    <3>3. j # k
      BY <3>2 DEF Purge, LockConflicts
    <3> QED BY <1>1, <3>1, <3>3 DEF Answers, SameKey, Exists, JobState
  <2> DEFINE o == txn[p]
             u == txn'[p]
  <2>4. o \in Txn /\ CallOK(o.call) /\ SessionOK(o, rows, settled)
    BY <1>0, <2>1
  <2>5. /\ u.call = o.call /\ u.phase = o.phase /\ u.reply = o.reply
        /\ u.writes = o.writes /\ u.shared = o.shared
    BY <2>2
  <2>6. (/\ o.phase \in {"commit", "doubt"} /\ o.call.op = "Enqueue"
         /\ o.call.id \in o.shared /\ o.writes[o.call.id].state = "none")
           => rows'[o.call.id].state # "purged"
    BY <2>3
  <2> HIDE DEF o, u
  <2>7. SessionOK(u, rows', settled')
    BY <1>1, <2>4, <2>5, <2>6, SessionKept
  <2> QED BY <2>7 DEF u
<1>3. \A l \in leases' : rows'[l.id].state # "none"
  BY <1>0, <1>1 DEF RowMove
<1> QED BY <1>2, <1>3 DEF ReplyInv

LEMMA ReplyStep ==
  ASSUME IInv, ReplyInv, [Next]_vars
  PROVE  ReplyInv'
<1>1. ASSUME NEW s \in Sessions, Start(s) PROVE ReplyInv'
  BY <1>1, ReplyEnqueue, ReplyMoves, ReplyScan DEF Start
<1>2. ASSUME NEW s \in Sessions, Body(s) PROVE ReplyInv'
  BY <1>2, ReplyMoves, ReplyClaimRows, ReplyReadIdempotent DEF Body
<1>3. ASSUME NEW s \in Sessions, End(s) PROVE ReplyInv'
  BY <1>3, ReplyApply, ReplyCommitUnknown, ReplyMoves DEF End
<1>4. ASSUME NEW s \in Sessions, Abort(s) \/ Return(s) PROVE ReplyInv'
  BY <1>4, ReplyMoves
<1>5. CASE Tick \/ UNCHANGED vars
  <2>1. UNCHANGED <<rows, txn, leases, settled>>
    BY <1>5 DEF Tick, vars
  <2> QED BY <2>1 DEF ReplyInv
<1> QED BY <1>1, <1>2, <1>3, <1>4, <1>5, ReplyPurge DEF Next

\* Whatever the other sessions commit after it, what every reply says about a
\* job, an attempt or a request stays true, and every commit that is still to
\* come finds what its reply will say.
THEOREM RepliesInvariant == Spec => []ReplyInv
<1>1. Init => ReplyInv
  <2> SUFFICES ASSUME Init PROVE ReplyInv
    OBVIOUS
  <2>1. \A s \in Sessions : txn[s] = Idle
    BY DEF Init
  <2>2. Idle.phase = "idle" /\ KnownOK(Idle, rows)
    BY DEF Idle, NoCall, KnownOK, LeaseOps
  <2>3. \A s \in Sessions : SessionOK(txn[s], rows, settled)
    BY <2>1, <2>2, MidCall
  <2> QED BY <2>3 DEF Init, ReplyInv
<1>2. IInv /\ ReplyInv /\ [Next]_vars => ReplyInv'
  BY ReplyStep
<1> QED BY <1>1, <1>2, Invariance, PTL DEF Spec

\* A caller may act on its reply for as long as it likes: a completed job is
\* succeeded or purged, a rejected lease was canceled or purged, a claimed
\* token is on its row or has ended, an enqueued job is the one requested.
THEOREM RepliesStayTrue == Spec => []ReplyHonest
<1>1. ReplyInv => ReplyHonest
  BY DEF ReplyInv, SessionOK, ToldOK, ReplyHonest, SameRequest
<1> QED BY <1>1, RepliesInvariant, PTL

\* FOR KEY SHARE is enough: the job a duplicate enqueue has compared is there,
\* with its key and its request, until the duplicate's transaction ends.
THEOREM DuplicatesRetained == Spec => []DuplicateRetained
<1>1. ReplyInv => DuplicateRetained
  BY DEF ReplyInv, SessionOK, CommitOK, Answers, SameRequest, DuplicateRetained, Written
<1> QED BY <1>1, RepliesInvariant, PTL

-----------------------------------------------------------------------------
(* Keys.                                                                   *)

\* A step after which every row and every pending insertion was there before,
\* or is gone.
LEMMA KeysQuiet ==
  ASSUME KeysApart,
         \A j \in Ids : Exists(rows'[j]) =>
            Exists(rows[j]) /\ rows'[j].queue = rows[j].queue /\ rows'[j].key = rows[j].key,
         \A p \in Sessions, j \in Ids : Inserts(txn'[p], j) =>
            Inserts(txn[p], j) /\ txn'[p].writes[j] = txn[p].writes[j]
  PROVE  KeysApart'
<1>1. \A i, j \in Ids : Clash(rows'[i], rows'[j]) => Clash(rows[i], rows[j])
  BY DEF Clash
<1>2. ASSUME NEW p \in Sessions, NEW i \in Ids, NEW j \in Ids,
             Inserts(txn'[p], i), Clash(txn'[p].writes[i], rows'[j])
      PROVE  Inserts(txn[p], i) /\ Clash(txn[p].writes[i], rows[j])
  BY <1>2 DEF Clash
<1> QED BY <1>1, <1>2 DEF KeysApart

\* No step but an insertion makes one pending.
LEMMA KeysLocal ==
  ASSUME IInv, KeysApart, NEW s \in Sessions,
         \/ Claim(s) \/ Heartbeat(s) \/ Complete(s) \/ Fail(s) \/ Cancel(s) \/ Redrive(s)
         \/ Body(s) \/ Abort(s) \/ Return(s) \/ LateAbort(s) \/ CommitUnknown(s)
  PROVE  KeysApart'
<1>0. txn \in [Sessions -> Txn] /\ txn[s] \in Txn /\ txn[s].call \in Call
  BY DEF IInv, TypeOK, Txn
<1>1. rows' = rows /\ \E t : txn' = [txn EXCEPT ![s] = t]
  <2>1. CASE CommitUnknown(s)
    BY <2>1 DEF CommitUnknown
  <2>2. CASE Start(s) \/ Body(s) \/ Abort(s) \/ Return(s) \/ LateAbort(s)
    BY <2>2, StartFrame, BodyFrame
  <2> QED BY <2>1, <2>2 DEF Start
<1>2. \A p \in Sessions : p # s => txn'[p] = txn[p]
  BY <1>0, <1>1
<1>3. ASSUME NEW j \in Ids, Inserts(txn'[s], j)
      PROVE  Inserts(txn[s], j) /\ txn'[s].writes[j] = txn[s].writes[j]
  <2>0. ASSUME txn'[s].writes = NoRows PROVE FALSE
    BY <1>3, <2>0, IdleType DEF Inserts
  <2>1. CASE \E c : Scan(s, c)
    <3> PICK c : Scan(s, c)
      BY <2>1
    <3>1. txn'[s].writes = NoRows
      BY <1>0 DEF Scan, Idle
    <3> QED BY <2>0, <3>1
  <2>2. CASE Heartbeat(s) \/ Complete(s) \/ Fail(s) \/ Cancel(s) \/ Redrive(s)
    BY <2>1, <2>2 DEF Heartbeat, Complete, Fail, Cancel, Redrive
  <2>3. CASE Claim(s)
    <3> PICK c : ClaimScan(s, c)
      BY <2>3 DEF Claim
    <3>1. txn'[s].writes = NoRows
      BY <1>0 DEF ClaimScan, Idle
    <3> QED BY <2>0, <3>1
  <2>4. CASE UpdateRow(s)
    <3> DEFINE c == txn[s].call
    <3>1. c.op \in UpdateOps
      BY <2>4 DEF UpdateRow
    <3>2. \/ \E w : txn' = [txn EXCEPT ![s] = [Idle EXCEPT !.call = c,
                               !.phase = "commit", !.reply = "ok", !.writes = w]]
          \/ txn' = [txn EXCEPT ![s] = [Idle EXCEPT !.call = c, !.phase = "rejected"]]
      BY <2>4 DEF UpdateRow
    <3> HIDE DEF c
    <3>3. txn'[s].call = c
      <4>1. CASE txn' = [txn EXCEPT ![s] = [Idle EXCEPT !.call = c, !.phase = "rejected"]]
        BY <1>0, <4>1 DEF Idle
      <4>2. ASSUME NEW w, txn' = [txn EXCEPT ![s] = [Idle EXCEPT !.call = c,
                                 !.phase = "commit", !.reply = "ok", !.writes = w]]
            PROVE  txn'[s].call = c
        BY <1>0, <4>2 DEF Idle
      <4> QED BY <3>2, <4>1, <4>2
    <3> QED BY <1>3, <3>1, <3>3 DEF Inserts, UpdateOps, LeaseOps
  <2>5. CASE ClaimRows(s)
    <3>1. PICK i, r, w : txn' = [txn EXCEPT ![s] =
            [Idle EXCEPT !.call = [txn[s].call EXCEPT !.id = i],
                         !.phase = "commit", !.reply = r, !.writes = w]]
      BY <2>5 DEF ClaimRows
    <3>2. txn'[s].call = [txn[s].call EXCEPT !.id = i]
      BY <1>0, <3>1 DEF Idle
    <3>3. [txn[s].call EXCEPT !.id = i].op = "Claim"
      BY <1>0, <2>5 DEF ClaimRows, Call
    <3> QED BY <1>3, <3>2, <3>3 DEF Inserts
  <2>6. CASE Reject(s)
    <3>1. txn'[s].writes = NoRows
      BY <1>0, <2>6 DEF Reject, Idle
    <3> QED BY <2>0, <3>1
  <2>7. CASE ReadIdempotent(s)
    <3> DEFINE c == txn[s].call
    <3>1. \/ \E r : txn' = [txn EXCEPT ![s] =
                 [Idle EXCEPT !.call = c, !.phase = "returned", !.reply = r]]
          \/ \E i \in Ids : txn' = [txn EXCEPT ![s] =
                 [Idle EXCEPT !.call = [c EXCEPT !.id = i], !.phase = "commit",
                              !.reply = "ok", !.shared = Retained(i)]]
      BY <2>7 DEF ReadIdempotent
    <3> HIDE DEF c
    <3>2. CASE \E r : txn' = [txn EXCEPT ![s] =
                 [Idle EXCEPT !.call = c, !.phase = "returned", !.reply = r]]
      <4>1. txn'[s].writes = NoRows
        BY <1>0, <3>2 DEF Idle
      <4> QED BY <2>0, <4>1
    <3>3. ASSUME NEW i \in Ids, txn' = [txn EXCEPT ![s] =
                 [Idle EXCEPT !.call = [c EXCEPT !.id = i], !.phase = "commit",
                              !.reply = "ok", !.shared = Retained(i)]]
          PROVE  FALSE
      <4>1. txn'[s].writes = NoRows
        BY <1>0, <3>3 DEF Idle
      <4> QED BY <2>0, <4>1
    <3> QED BY <3>1, <3>2, <3>3
  <2>8. CASE Abort(s) \/ Return(s) \/ LateAbort(s)
    <3>1. Abort(s) => txn'[s].writes = NoRows
      BY <1>0 DEF Abort, Idle
    <3>2. Return(s) \/ LateAbort(s) => txn'[s].writes = NoRows
      BY <1>0, IdleType DEF Return, LateAbort
    <3> QED BY <2>0, <2>8, <3>1, <3>2
  <2>9. CASE CommitUnknown(s)
    <3>1. txn'[s].writes = txn[s].writes /\ txn'[s].call = txn[s].call
      BY <1>0, <2>9 DEF CommitUnknown, Txn
    <3> QED BY <1>3, <3>1 DEF Inserts
  <2> QED BY <2>2, <2>3, <2>4, <2>5, <2>6, <2>7, <2>8, <2>9 DEF Body
<1>4. \A p \in Sessions, j \in Ids : Inserts(txn'[p], j) =>
            Inserts(txn[p], j) /\ txn'[p].writes[j] = txn[p].writes[j]
  BY <1>2, <1>3
<1> QED BY <1>1, <1>4, KeysQuiet

\* The unique index: an insertion finds its key neither committed nor pending.
LEMMA KeysEnqueue ==
  ASSUME IInv, KeysApart, NEW s \in Sessions, Enqueue(s)
  PROVE  KeysApart'
<1>0. txn \in [Sessions -> Txn] /\ \A p \in Sessions, j \in Ids :
         txn[p].writes[j].state # "none" => Exists(txn[p].writes[j])
  BY PendingIdentity DEF IInv, TypeOK
<1>1. PICK request \in Requests, id \in Ids :
        Insert(s, [NoCall EXCEPT !.op = "Enqueue", !.request = request], id)
  BY DEF Enqueue
<1> DEFINE c == [NoCall EXCEPT !.op = "Enqueue", !.request = request]
           d == [c EXCEPT !.id = id]
           w == Inserted(request, clock)
           writes == [NoRows EXCEPT ![id] = w]
           t == [Idle EXCEPT !.call = d, !.phase = "commit", !.reply = "ok", !.writes = writes]
           u == [Idle EXCEPT !.call = c, !.phase = "rejected"]
<1>2. c.request = request /\ d.op = "Enqueue"
  BY DEF NoCall
<1>3. /\ rows' = rows /\ ~KeyInFlight(s, request) /\ txn[s].phase = "idle"
      /\ \/ /\ \A j \in Ids : ~SameKey(rows[j], request)
            /\ txn' = [txn EXCEPT ![s] = t]
         \/ txn' = [txn EXCEPT ![s] = u]
  <2>1. Insert(s, c, id)
    BY <1>1
  <2> HIDE DEF c
  <2> QED BY <1>2, <2>1 DEF Insert
<1>4. w.queue = request.queue /\ w.key = request.key /\ w.state = "pending"
  BY DEF Inserted, NoRow
<1> HIDE DEF c, d, w
<1>5. writes[id] = w /\ \A j \in Ids : writes[j].state # "none" => j = id
  BY <1>4, IdleType
<1> HIDE DEF writes
<1>6. t.call = d /\ t.writes = writes /\ u.writes = NoRows
  BY DEF Idle
<1> HIDE DEF t, u
<1>7. CASE txn' = [txn EXCEPT ![s] = u]
  <2>1. \A p \in Sessions, j \in Ids : Inserts(txn'[p], j) =>
            Inserts(txn[p], j) /\ txn'[p].writes[j] = txn[p].writes[j]
    BY <1>0, <1>6, <1>7, IdleType DEF Inserts
  <2> QED BY <1>3, <2>1, KeysQuiet
<1>8. CASE /\ \A j \in Ids : ~SameKey(rows[j], request)
           /\ txn' = [txn EXCEPT ![s] = t]
  <2>1. txn'[s] = t /\ \A p \in Sessions : p # s => txn'[p] = txn[p]
    BY <1>0, <1>8
  <2>2. \A j \in Ids : Inserts(txn'[s], j) => j = id /\ txn'[s].writes[j] = w
    BY <1>5, <1>6, <2>1 DEF Inserts
  <2>3. \A j \in Ids : ~Clash(w, rows[j])
    BY <1>4, <1>8 DEF Clash, SameKey
  <2>4. \A p \in Sessions, j \in Ids : p # s /\ Inserts(txn[p], j) =>
           ~Clash(w, txn[p].writes[j]) /\ ~Clash(txn[p].writes[j], w)
    <3> SUFFICES ASSUME NEW p \in Sessions, NEW j \in Ids, p # s, Inserts(txn[p], j),
                        w.key # NULL, w.queue = txn[p].writes[j].queue,
                        w.key = txn[p].writes[j].key
                 PROVE  FALSE
      BY DEF Clash
    <3>1. j \in Written(p) /\ Exists(txn[p].writes[j])
      BY <1>0 DEF Inserts, Written
    <3>2. SameKey(txn[p].writes[j], request)
      BY <1>4, <3>1 DEF SameKey
    <3> QED BY <1>3, <3>1, <3>2 DEF KeyInFlight, Inserts
  <2> HIDE DEF KeysApart
  <2>5. \A p \in Sessions, i, j \in Ids : Inserts(txn'[p], i) =>
           ~Clash(txn'[p].writes[i], rows'[j])
    BY <1>3, <2>1, <2>2, <2>3 DEF KeysApart
  <2>6. ASSUME NEW p \in Sessions, NEW o \in Sessions, NEW i \in Ids, NEW j \in Ids,
               Inserts(txn'[p], i), Inserts(txn'[o], j),
               Clash(txn'[p].writes[i], txn'[o].writes[j])
        PROVE  i = j
    <3>1. CASE p = s /\ o = s
      BY <2>2, <2>6, <3>1
    <3>2. CASE p # s /\ o # s
      BY <2>1, <2>6, <3>2 DEF KeysApart
    <3>3. CASE p = s /\ o # s
      BY <2>1, <2>2, <2>4, <2>6, <3>3
    <3>4. CASE p # s /\ o = s
      BY <2>1, <2>2, <2>4, <2>6, <3>4
    <3> QED BY <3>1, <3>2, <3>3, <3>4
  <2> QED BY <1>3, <2>5, <2>6 DEF KeysApart
<1> QED BY <1>3, <1>7, <1>8

\* What a commit makes of pending insertions: the row is there, and the other
\* ones are pending as before.
LEMMA KeysApply ==
  ASSUME IInv, KeysApart, NEW s \in Sessions, Commit(s) \/ LateCommit(s)
  PROVE  KeysApart'
<1> DEFINE c == txn[s].call
<1>0. txn \in [Sessions -> Txn] /\ WritersExclude
  BY DEF IInv, TypeOK
<1>1. Applied(s)
  BY DEF Commit, LateCommit, Apply, Applied
<1>2. ASSUME NEW p \in Sessions, NEW j \in Ids, Inserts(txn'[p], j)
      PROVE  p # s /\ Inserts(txn[p], j) /\ txn'[p].writes[j] = txn[p].writes[j]
  <2>1. p # s
    <3> SUFFICES ASSUME p = s PROVE FALSE
      OBVIOUS
    <3>1. txn'[s].writes = NoRows
      <4>1. Commit(s) => txn'[s].writes = NoRows
        BY DEF Commit, Apply, Idle
      <4>2. LateCommit(s) => txn'[s].writes = NoRows
        BY IdleType DEF LateCommit, Apply
      <4> QED BY <4>1, <4>2
    <3> QED BY <1>2, <3>1, IdleType DEF Inserts
  <2>2. txn[p] \in Txn /\ txn'[p] =
          [txn[p] EXCEPT !.stale = @ \union (Matched(p) \intersect Written(s))]
    BY <1>0, <2>1 DEF Commit, LateCommit, Apply
  <2>3. txn'[p].call = txn[p].call /\ txn'[p].writes = txn[p].writes
    BY <2>2 DEF Txn
  <2> QED BY <1>2, <2>1, <2>3 DEF Inserts
<1>3. ASSUME NEW j \in Ids
      PROVE  \/ Inserts(txn[s], j) /\ rows'[j] = txn[s].writes[j]
             \/ /\ Exists(rows'[j]) => Exists(rows[j])
                /\ rows'[j].queue = rows[j].queue /\ rows'[j].key = rows[j].key
  <2>1. CASE j \in Written(s)
    BY <1>1, <2>1, PendingIdentity DEF Applied, Written, Inserts, SameJob
  <2>2. CASE j \notin Written(s)
    BY <1>1, <2>2 DEF Applied
  <2> QED BY <2>1, <2>2
<1>4. \A v, w : Clash(v, w) => Clash(w, v)
  BY DEF Clash
<1>5. ASSUME NEW i \in Ids, NEW j \in Ids, Clash(rows'[i], rows'[j])
      PROVE  i = j
  <2>1. CASE Inserts(txn[s], i) /\ rows'[i] = txn[s].writes[i]
    <3>1. CASE Inserts(txn[s], j) /\ rows'[j] = txn[s].writes[j]
      BY <1>5, <2>1, <3>1 DEF KeysApart
    <3>2. CASE /\ Exists(rows'[j]) => Exists(rows[j])
               /\ rows'[j].queue = rows[j].queue /\ rows'[j].key = rows[j].key
      <4>1. Clash(txn[s].writes[i], rows[j])
        BY <1>5, <2>1, <3>2 DEF Clash
      <4> QED BY <2>1, <4>1 DEF KeysApart
    <3> QED BY <1>3, <3>1, <3>2
  <2>2. CASE /\ Exists(rows'[i]) => Exists(rows[i])
             /\ rows'[i].queue = rows[i].queue /\ rows'[i].key = rows[i].key
    <3>1. CASE Inserts(txn[s], j) /\ rows'[j] = txn[s].writes[j]
      <4>1. Clash(txn[s].writes[j], rows[i])
        BY <1>5, <2>2, <3>1 DEF Clash
      <4> QED BY <3>1, <4>1 DEF KeysApart
    <3>2. CASE /\ Exists(rows'[j]) => Exists(rows[j])
               /\ rows'[j].queue = rows[j].queue /\ rows'[j].key = rows[j].key
      <4>1. Clash(rows[i], rows[j])
        BY <1>5, <2>2, <3>2 DEF Clash
      <4> QED BY <4>1 DEF KeysApart
    <3> QED BY <1>3, <3>1, <3>2
  <2> QED BY <1>3, <2>1, <2>2
<1>6. ASSUME NEW p \in Sessions, NEW i \in Ids, NEW j \in Ids, Inserts(txn'[p], i),
             Clash(txn'[p].writes[i], rows'[j])
      PROVE  FALSE
  <2> DEFINE w == txn[p].writes[i]
  <2>1. p # s /\ Inserts(txn[p], i) /\ Clash(w, rows'[j])
    BY <1>2, <1>6
  <2>2. CASE Inserts(txn[s], j) /\ rows'[j] = txn[s].writes[j]
    <3>1. i = j
      BY <2>1, <2>2 DEF KeysApart
    <3> QED BY <1>0, <2>1, <2>2, <3>1 DEF WritersExclude, Inserts
  <2>3. CASE /\ Exists(rows'[j]) => Exists(rows[j])
             /\ rows'[j].queue = rows[j].queue /\ rows'[j].key = rows[j].key
    <3>1. Clash(w, rows[j])
      BY <2>1, <2>3 DEF Clash
    <3> QED BY <2>1, <3>1 DEF KeysApart
  <2> QED BY <1>3, <2>2, <2>3
<1>7. ASSUME NEW p \in Sessions, NEW o \in Sessions, NEW i \in Ids, NEW j \in Ids,
             Inserts(txn'[p], i), Inserts(txn'[o], j),
             Clash(txn'[p].writes[i], txn'[o].writes[j])
      PROVE  i = j
  BY <1>2, <1>7 DEF KeysApart
<1> QED BY <1>5, <1>6, <1>7 DEF KeysApart

LEMMA KeysPurge ==
  ASSUME IInv, KeysApart, NEW k \in Ids, Purge(k)
  PROVE  KeysApart'
<1>1. \A j \in Ids : Exists(rows'[j]) => rows'[j] = rows[j]
  BY PurgeMoves DEF Exists, JobState
<1>2. ASSUME NEW p \in Sessions
      PROVE  txn'[p].call = txn[p].call /\ txn'[p].writes = txn[p].writes
  <2>1. txn[p] \in Txn /\ txn'[p] =
          [txn[p] EXCEPT !.stale = @ \union (Matched(p) \intersect {k})]
    BY DEF Purge, IInv, TypeOK
  <2> QED BY <2>1 DEF Txn
<1>3. \A p \in Sessions, j \in Ids : Inserts(txn'[p], j) =>
            Inserts(txn[p], j) /\ txn'[p].writes[j] = txn[p].writes[j]
  BY <1>2 DEF Inserts
<1> QED BY <1>1, <1>3, KeysQuiet

LEMMA KeysStep ==
  ASSUME IInv, KeysApart, [Next]_vars
  PROVE  KeysApart'
<1>1. ASSUME NEW s \in Sessions,
             Start(s) \/ Body(s) \/ End(s) \/ Abort(s) \/ Return(s)
      PROVE  KeysApart'
  BY <1>1, KeysLocal, KeysEnqueue, KeysApply DEF Start, End
<1>2. CASE Tick \/ UNCHANGED vars
  <2>1. UNCHANGED <<rows, txn>>
    BY <1>2 DEF Tick, vars
  <2> QED BY <2>1, KeysQuiet
<1> QED BY <1>1, <1>2, KeysPurge DEF Next

\* The inductive form of key uniqueness: committed rows and pending insertions
\* are apart; every other pending version is of the job it replaces.
THEOREM KeysInvariant == Spec => []KeysApart
<1>1. Init => KeysApart
  <2> SUFFICES ASSUME Init PROVE KeysApart
    OBVIOUS
  <2>1. \A j \in Ids : ~Exists(rows[j])
    BY NoRowType DEF Init, NoRows, Exists, JobState
  <2>2. \A s \in Sessions, j \in Ids : ~Inserts(txn[s], j)
    BY IdleType DEF Init, Inserts
  <2> QED BY <2>1, <2>2 DEF KeysApart, Clash
<1>2. IInv /\ KeysApart /\ [Next]_vars => KeysApart'
  BY KeysStep
<1> QED BY <1>1, <1>2, Invariance, PTL DEF Spec

\* A queue holds at most one job for an idempotency key, counting the ones that
\* open transactions and commits in doubt have yet to show.
THEOREM OneJobPerKey == Spec => []KeyUnique
<1>1. ASSUME IInv, KeysApart PROVE KeyUnique
  <2> DEFINE Committed == {<<j, rows[j]>> : j \in Ids}
             Pending(s) == {<<j, txn[s].writes[j]>> : j \in Written(s)}
             Versions == Committed \union UNION {Pending(s) : s \in Sessions}
             \* A version stands for the committed row it has or replaces, or
             \* is an insertion.
             Row1(v) == /\ Exists(rows[v[1]]) /\ v[2].queue = rows[v[1]].queue
                        /\ v[2].key = rows[v[1]].key
             New(v) == \E s \in Sessions : Inserts(txn[s], v[1]) /\ v[2] = txn[s].writes[v[1]]
  <2>1. ASSUME NEW v \in Versions, Exists(v[2])
        PROVE  v[1] \in Ids /\ (Row1(v) \/ New(v))
    <3>1. CASE v \in Committed
      BY <2>1, <3>1
    <3>2. ASSUME NEW s \in Sessions, v \in Pending(s)
          PROVE  v[1] \in Ids /\ (Row1(v) \/ New(v))
      <4>1. PICK j \in Written(s) : v = <<j, txn[s].writes[j]>>
        BY <3>2
      <4>2. j \in Ids /\ txn[s].writes[j].state # "none"
        BY DEF Written
      <4>3. CASE txn[s].call.op = "Enqueue"
        BY <4>1, <4>2, <4>3 DEF Inserts
      <4>4. CASE txn[s].call.op # "Enqueue"
        BY <1>1, <4>1, <4>2, <4>4, PendingIdentity DEF SameJob
      <4> QED BY <4>3, <4>4
    <3> QED BY <3>1, <3>2
  <2>2. ASSUME NEW v \in Versions, NEW w \in Versions, Clash(v[2], w[2])
        PROVE  v[1] = w[1]
    <3>1. /\ v[1] \in Ids /\ (Row1(v) \/ New(v))
          /\ w[1] \in Ids /\ (Row1(w) \/ New(w))
      BY <2>1, <2>2 DEF Clash
    <3> HIDE DEF Versions
    <3>2. CASE Row1(v) /\ Row1(w)
      <4>1. Clash(rows[v[1]], rows[w[1]])
        BY <2>2, <3>2 DEF Clash
      <4> QED BY <1>1, <3>1, <4>1 DEF KeysApart
    <3>3. CASE New(v) /\ Row1(w)
      <4>1. Clash(v[2], rows[w[1]])
        BY <2>2, <3>3 DEF Clash
      <4> QED BY <1>1, <3>1, <3>3, <4>1 DEF KeysApart
    <3>4. CASE Row1(v) /\ New(w)
      <4>1. Clash(w[2], rows[v[1]])
        BY <2>2, <3>4 DEF Clash
      <4> QED BY <1>1, <3>1, <3>4, <4>1 DEF KeysApart
    <3>5. CASE New(v) /\ New(w)
      BY <1>1, <2>2, <3>1, <3>5 DEF KeysApart
    <3> QED BY <3>1, <3>2, <3>3, <3>4, <3>5
  <2> QED BY <2>2 DEF KeyUnique, Clash
<1>2. IInv /\ KeysApart => KeyUnique
  BY <1>1
<1> QED BY <1>2, Invariance, KeysInvariant, PTL
=============================================================================
