----------------------- MODULE JobStoreFencingProofs -----------------------
(***************************************************************************)
(* What the invariant of JobStoreProofs gives for whole behaviours: how a  *)
(* committed row may move, how attempts are counted, and that every        *)
(* attempt ends once; and from these that JobStore implements JobLifecycle.*)
(***************************************************************************)
EXTENDS JobStoreProofs

\* The part of Apply that concerns the table and its history.
Applied(s) ==
  /\ rows' = [j \in Ids |-> IF j \in Written(s) THEN txn[s].writes[j] ELSE rows[j]]
  /\ settled' = settled \union Endings(s)
  /\ grants' = [j \in Ids |->
       IF j \notin Written(s) THEN grants[j]
       ELSE CASE txn[s].call.op = "Claim" /\ txn[s].writes[j].state = "running"
                                          -> grants[j] + 1
              [] txn[s].call.op = "Redrive" -> 0
              [] OTHER                      -> grants[j]]
  /\ clock' = clock

\* The table changes by a commit, by a purge, or not at all.
LEMMA TableSteps ==
  ASSUME [Next]_vars
  PROVE  \/ UNCHANGED <<rows, settled, grants>>
         \/ \E s \in Sessions : Applied(s)
         \/ \E k \in Ids : Purge(k)
<1>1. ASSUME NEW s \in Sessions, Start(s) \/ Body(s) \/ Abort(s) \/ Return(s)
      PROVE  UNCHANGED <<rows, settled, grants>>
  BY <1>1, StartFrame, BodyFrame
<1>2. ASSUME NEW s \in Sessions, End(s)
      PROVE  Applied(s) \/ UNCHANGED <<rows, settled, grants>>
  BY <1>2 DEF End, Commit, CommitUnknown, LateCommit, LateAbort, Apply, Applied
<1>3. ASSUME Tick \/ UNCHANGED vars
      PROVE  UNCHANGED <<rows, settled, grants>>
  BY <1>3 DEF Tick, vars
<1> QED BY <1>1, <1>2, <1>3 DEF Next

\* What the invariant says of a row that is about to be replaced.
LEMMA WrittenRow ==
  ASSUME IInv, NEW s \in Sessions, NEW j \in Written(s)
  PROVE  /\ j \in Ids /\ rows[j] \in Row /\ RowOK(rows[j])
         /\ txn[s].writes[j] \in Row /\ txn[s].writes[j].state # "none"
         /\ txn[s].call \in Call /\ CallOK(txn[s].call)
         /\ clock \in Nat
         /\ \E i \in 0..clock : WriteAt(txn[s].call, rows[j], txn[s].writes[j], i)
         /\ (txn[s].call.op = "Claim" /\ txn[s].writes[j].state = "running")
              => j = txn[s].call.id
BY DEF IInv, TypeOK, Txn, TxnOK, Written, WriteOK, Time

LEMMA TerminalStep ==
  ASSUME IInv, [Next]_vars, NEW j \in Ids, rows[j].state \in Terminal
  PROVE  \/ rows'[j] = rows[j]
         \/ rows'[j].state = "purged"
         \/ /\ rows[j].state = "dead"
            /\ rows'[j].state = "pending" /\ rows'[j].attempts = 0
<1>1. CASE UNCHANGED <<rows, settled, grants>>
  BY <1>1
<1>2. ASSUME NEW s \in Sessions, Applied(s)
      PROVE  \/ rows'[j] = rows[j]
             \/ /\ rows[j].state = "dead"
                /\ rows'[j].state = "pending" /\ rows'[j].attempts = 0
  <2>1. CASE j \notin Written(s)
    BY <1>2, <2>1 DEF Applied
  <2>2. CASE j \in Written(s)
    <3> DEFINE c == txn[s].call
               w == txn[s].writes[j]
    <3>1. PICK i \in 0..clock : WriteAt(c, rows[j], w, i)
      BY <2>2, WrittenRow
    <3>2. c.op = "Redrive" /\ rows[j].state = "dead" /\ w = redriveSQL(c, rows[j], i)
      BY <3>1 DEF WriteAt, Where, Fenced, UpdateOps, LeaseOps, Exhausted, Eligible,
                  Updated, Terminal
    <3>3. rows[j] \in Row /\ rows'[j] = w
      BY <1>2, <2>2, WrittenRow DEF Applied
    <3> QED BY <3>2, <3>3 DEF redriveSQL, Unleased, Row
  <2> QED BY <2>1, <2>2
<1>3. ASSUME NEW k \in Ids, Purge(k)
      PROVE  rows'[j] = rows[j] \/ rows'[j].state = "purged"
  <2>1. rows \in [Ids -> Row] /\ [NoRow EXCEPT !.state = "purged"].state = "purged"
    BY DEF IInv, TypeOK, NoRow
  <2> QED BY <1>3, <2>1 DEF Purge
<1> QED BY <1>1, <1>2, <1>3, TableSteps

\* Only a redrive or retention touches a finished job.
THEOREM FinishedStays == Spec => TerminalIsStable
<1>1. IInv /\ [Next]_vars =>
        [\A j \in Ids : rows[j].state \in Terminal =>
           \/ rows'[j] = rows[j]
           \/ rows'[j].state = "purged"
           \/ /\ rows[j].state = "dead"
              /\ rows'[j].state = "pending" /\ rows'[j].attempts = 0]_vars
  BY TerminalStep
<1> QED BY <1>1, Invariance, PTL DEF Spec, TerminalIsStable

-----------------------------------------------------------------------------
(* Attempts.                                                               *)

\* What each statement does to the token and to the count of attempts.
LEMMA WriteEffect ==
  ASSUME NEW c \in Call, CallOK(c), NEW r \in Row, RowOK(r), NEW now \in Nat,
         NEW w, WriteAt(c, r, w, now)
  PROVE  /\ c.op \in UpdateOps \union {"Claim", "Enqueue"}
         /\ IF c.op = "Enqueue" THEN r.state = "none" ELSE Exists(r)
         /\ c.op \in {"Complete", "Fail"} => r.token = c.token /\ w.token = NULL
         /\ c.op = "Heartbeat" => w.token = r.token
         /\ c.op \in {"Cancel", "Redrive", "Enqueue"} => w.token = NULL
         /\ c.op = "Claim" =>
              \/ w.state = "running" /\ w.token = c.token /\ w.attempts = r.attempts + 1
              \/ w.state = "dead" /\ w.token = NULL /\ w.attempts = r.attempts
         /\ c.op \in LeaseOps \union {"Cancel"} => w.attempts = r.attempts
         /\ c.op \in {"Redrive", "Enqueue"} => w.attempts = 0
<1>1. CASE c.op \in LeaseOps
  <2>1. r.state = "running" /\ r.token = c.token /\ w = Updated(c, r, now)
    BY <1>1 DEF WriteAt, Where, Fenced, UpdateOps, LeaseOps
  <2>2. CASE c.op = "Heartbeat"
    BY <2>1, <2>2 DEF Updated, heartbeatSQL, Row, UpdateOps, LeaseOps, Exists, JobState
  <2>3. CASE c.op = "Complete"
    BY <2>1, <2>3 DEF Updated, completeSQL, Finish, Unleased, Row, UpdateOps, LeaseOps,
                      Exists, JobState
  <2>4. CASE c.op = "Fail"
    <3>1. w.token = NULL /\ w.attempts = r.attempts
      BY <2>1, <2>4 DEF Updated, failSQL, Finish, Unleased, Row
    <3> QED BY <2>1, <2>4, <3>1 DEF UpdateOps, LeaseOps, Exists, JobState
  <2> QED BY <1>1, <2>2, <2>3, <2>4 DEF LeaseOps
<1>2. CASE c.op \in {"Cancel", "Redrive"}
  <2>1. Exists(r) /\ w = Updated(c, r, now)
    BY <1>2 DEF WriteAt, Where, UpdateOps, LeaseOps, Exists, JobState
  <2> QED BY <1>2, <2>1 DEF Updated, cancelSQL, redriveSQL, Finish, Unleased, Row,
                            UpdateOps, LeaseOps
<1>3. CASE c.op = "Claim"
  <2>1. CASE Exhausted(c, r, now) /\ w = Buried(r, now)
    BY <1>3, <2>1 DEF Exhausted, Buried, Finish, Unleased, Row, Exists, JobState,
                      UpdateOps, LeaseOps
  <2>2. CASE Eligible(c, r, now) /\ w = Granted(c, r, now)
    BY <1>3, <2>2 DEF Eligible, Granted, Row, Exists, JobState, UpdateOps, LeaseOps
  <2> QED BY <1>3, <2>1, <2>2 DEF WriteAt, UpdateOps, LeaseOps
<1>4. CASE c.op = "Enqueue"
  BY <1>4 DEF WriteAt, Inserted, NoRow, UpdateOps, LeaseOps
<1> QED BY <1>1, <1>2, <1>3, <1>4 DEF WriteAt, UpdateOps

CountInv ==
  \A j \in Ids : /\ Exists(rows[j]) => rows[j].attempts = grants[j]
                 /\ rows[j].state = "none" => grants[j] = 0

LEMMA CountStep ==
  ASSUME IInv, CountInv, [Next]_vars
  PROVE  CountInv'
<1>0. rows \in [Ids -> Row] /\ grants \in [Ids -> Nat]
  BY DEF IInv, TypeOK
<1>1. CASE UNCHANGED <<rows, settled, grants>>
  BY <1>1 DEF CountInv
<1>2. ASSUME NEW s \in Sessions, Applied(s), NEW j \in Ids
      PROVE  /\ Exists(rows'[j]) => rows'[j].attempts = grants'[j]
             /\ rows'[j].state = "none" => grants'[j] = 0
  <2>1. CASE j \notin Written(s)
    BY <1>2, <2>1 DEF Applied, CountInv
  <2>2. CASE j \in Written(s)
    <3> DEFINE c == txn[s].call
               w == txn[s].writes[j]
    <3>1. PICK i \in 0..clock : WriteAt(c, rows[j], w, i)
      BY <2>2, WrittenRow
    <3>2. /\ c \in Call /\ CallOK(c) /\ rows[j] \in Row /\ RowOK(rows[j]) /\ i \in Nat
          /\ w.state # "none" /\ rows'[j] = w
      BY <1>2, <2>2, <3>1, WrittenRow DEF Applied
    <3>3. grants'[j] = CASE c.op = "Claim" /\ w.state = "running" -> grants[j] + 1
                         [] c.op = "Redrive" -> 0
                         [] OTHER            -> grants[j]
      BY <1>2, <2>2 DEF Applied
    <3> HIDE DEF c, w
    <3>4. w.attempts = grants'[j]
      <4>1. CASE c.op = "Enqueue"
        BY <3>1, <3>2, <3>3, <4>1, WriteEffect DEF CountInv
      <4>2. CASE c.op = "Redrive"
        BY <3>1, <3>2, <3>3, <4>2, WriteEffect
      <4>3. CASE c.op \in LeaseOps \union {"Cancel"}
        BY <3>1, <3>2, <3>3, <4>3, WriteEffect DEF CountInv, LeaseOps
      <4>4. CASE c.op = "Claim"
        BY <3>1, <3>2, <3>3, <4>4, WriteEffect DEF CountInv
      <4> QED BY <3>1, <3>2, <4>1, <4>2, <4>3, <4>4, WriteEffect DEF UpdateOps
    <3> QED BY <3>2, <3>4
  <2> QED BY <2>1, <2>2
<1>3. ASSUME NEW k \in Ids, Purge(k)
      PROVE  CountInv'
  <2>1. [NoRow EXCEPT !.state = "purged"].state = "purged"
    BY DEF NoRow
  <2>2. \A j \in Ids : rows'[j] = rows[j] \/ rows'[j].state = "purged"
    BY <1>0, <1>3, <2>1 DEF Purge
  <2>3. grants' = grants
    BY <1>3 DEF Purge
  <2> QED BY <2>2, <2>3 DEF CountInv, Exists, JobState
<1> QED BY <1>1, <1>2, <1>3, TableSteps DEF CountInv

\* attempts is exactly the number of committed claims, so a job is never handed
\* out more often than its budget.
THEOREM BudgetKept == Spec => []AttemptsCountGrants
<1>1. Init => CountInv
  BY NoRowType DEF Init, NoRows, CountInv, Exists, JobState, NoRow
<1>2. IInv /\ CountInv /\ [Next]_vars => CountInv'
  BY CountStep
<1>3. IInv /\ CountInv => AttemptsCountGrants
  BY DEF IInv, CountInv, AttemptsCountGrants, RowOK, SchemaChecks
<1> QED BY <1>1, <1>2, <1>3, Invariance, PTL DEF Spec

-----------------------------------------------------------------------------
(* Tokens.                                                                 *)

LeaseTokens == {l.token : l \in leases}

\* A claim whose token may still reach the table.
OpenClaim(t) == t.call.op = "Claim" /\ t.phase \in {"scanned", "commit", "doubt"}

UnusedToken(tok) ==
  /\ \A j \in Ids : rows[j].token # tok
  /\ \A e \in settled : e.token # tok

TokenInv ==
  /\ \A i, j \in Ids : rows[i].token # NULL /\ rows[i].token = rows[j].token => i = j
  /\ SettledOnce
  /\ \A j \in Ids : rows[j].token # NULL => rows[j].token \in LeaseTokens
  /\ \A e \in settled : e.token \in LeaseTokens
  /\ \A s \in Sessions : OpenClaim(txn[s]) =>
       /\ UnusedToken(txn[s].call.token)
       /\ txn[s].phase = "doubt" /\ txn[s].call.id # NULL
            => txn[s].call.token \in LeaseTokens
  /\ \A s, p \in Sessions :
       OpenClaim(txn[s]) /\ OpenClaim(txn[p]) /\ txn[s].call.token = txn[p].call.token
         => s = p

\* A step that opens no claim and leaves the table alone.
LEMMA QuietTokens ==
  ASSUME TokenInv, rows' = rows, settled' = settled, leases \subseteq leases',
         \A p \in Sessions : OpenClaim(txn'[p]) =>
            /\ OpenClaim(txn[p]) /\ txn'[p].call.token = txn[p].call.token
            /\ txn'[p].phase = "doubt" /\ txn'[p].call.id # NULL =>
                 txn'[p].call.token \in LeaseTokens'
  PROVE  TokenInv'
<1>1. LeaseTokens \subseteq LeaseTokens'
  BY DEF LeaseTokens
<1>2. SettledOnce'
  BY DEF TokenInv, SettledOnce
<1>3. \A tok : UnusedToken(tok) => UnusedToken(tok)'
  BY DEF UnusedToken
<1> QED BY <1>1, <1>2, <1>3 DEF TokenInv

LEMMA QuietTokenSteps ==
  ASSUME IInv, TokenInv, NEW s \in Sessions,
         \/ Enqueue(s) \/ Heartbeat(s) \/ Complete(s) \/ Fail(s) \/ Cancel(s)
         \/ Redrive(s) \/ Body(s) \/ Abort(s) \/ Return(s)
         \/ CommitUnknown(s) \/ LateAbort(s)
  PROVE  TokenInv'
<1>0. txn \in [Sessions -> Txn] /\ txn[s] \in Txn
  BY DEF IInv, TypeOK
<1>1. CASE \/ Enqueue(s) \/ Heartbeat(s) \/ Complete(s) \/ Fail(s) \/ Cancel(s)
           \/ Redrive(s) \/ Body(s) \/ Abort(s) \/ Return(s) \/ LateAbort(s)
  <2>0. Start(s) \/ Body(s) \/ Abort(s) \/ Return(s) \/ LateAbort(s)
    BY <1>1 DEF Start
  <2>1. rows' = rows /\ settled' = settled /\ leases' = leases
    BY <2>0, StartFrame, BodyFrame
  <2>2. PICK t : txn' = [txn EXCEPT ![s] = t]
    BY <2>0, StartFrame, BodyFrame
  <2>3. \A p \in Sessions : txn'[p] = IF p = s THEN t ELSE txn[p]
    BY <1>0, <2>2
  <2>4. OpenClaim(txn'[s]) =>
            /\ OpenClaim(txn[s]) /\ txn'[s].call.token = txn[s].call.token
            /\ txn'[s].phase # "doubt"
    <3>1. CASE Enqueue(s)
      <4>1. PICK request \in Requests, id \in Ids :
              Insert(s, [NoCall EXCEPT !.op = "Enqueue", !.request = request], id)
        BY <3>1 DEF Enqueue
      <4> DEFINE c == [NoCall EXCEPT !.op = "Enqueue", !.request = request]
      <4>2. c.op = "Enqueue" /\ [c EXCEPT !.id = id].op = "Enqueue"
        BY DEF NoCall
      <4> HIDE DEF c
      <4>3. t.call = c \/ t.call = [c EXCEPT !.id = id]
        <5>1. txn'[s] = t
          BY <1>0, <2>2
        <5>2. Insert(s, c, id)
          BY <4>1 DEF c
        <5>3. \/ \E w : txn' = [txn EXCEPT ![s] = [Idle EXCEPT !.call = [c EXCEPT !.id = id],
                             !.phase = "commit", !.reply = "ok", !.writes = w]]
              \/ txn' = [txn EXCEPT ![s] = [Idle EXCEPT !.call = c, !.phase = "rejected"]]
          BY <5>2 DEF Insert
        <5>4. CASE txn' = [txn EXCEPT ![s] = [Idle EXCEPT !.call = c, !.phase = "rejected"]]
          BY <1>0, <5>1, <5>4 DEF Idle
        <5>5. ASSUME NEW w, txn' = [txn EXCEPT ![s] =
                       [Idle EXCEPT !.call = [c EXCEPT !.id = id],
                             !.phase = "commit", !.reply = "ok", !.writes = w]]
              PROVE  t.call = [c EXCEPT !.id = id]
          BY <1>0, <5>1, <5>5 DEF Idle
        <5> QED BY <5>3, <5>4, <5>5
      <4> QED BY <2>3, <4>2, <4>3 DEF OpenClaim
    <3>2. CASE Heartbeat(s) \/ Complete(s) \/ Fail(s) \/ Cancel(s) \/ Redrive(s)
      <4>1. \E c : c.op \in UpdateOps /\ Scan(s, c)
        <5>1. CASE Heartbeat(s)
          BY <5>1 DEF Heartbeat, NoCall, UpdateOps, LeaseOps
        <5>2. CASE Complete(s)
          BY <5>2 DEF Complete, NoCall, UpdateOps, LeaseOps
        <5>3. CASE Fail(s)
          BY <5>3 DEF Fail, NoCall, UpdateOps, LeaseOps
        <5>4. CASE Cancel(s) \/ Redrive(s)
          BY <5>4 DEF Cancel, Redrive, NoCall, UpdateOps
        <5> QED BY <3>2, <5>1, <5>2, <5>3, <5>4
      <4>2. PICK c : c.op \in UpdateOps /\ Scan(s, c)
        BY <4>1
      <4>3. txn'[s].call = c
        BY <1>0, <4>2 DEF Scan, Idle
      <4> QED BY <4>2, <4>3 DEF OpenClaim, UpdateOps, LeaseOps
    <3>3. CASE UpdateRow(s) \/ Reject(s)
      <4>1. txn[s].call.op # "Claim"
        BY <3>3 DEF UpdateRow, Reject, UpdateOps, LeaseOps
      <4>2. txn'[s].call = txn[s].call
        <5>1. CASE UpdateRow(s)
          <6>1. \/ \E w : txn' = [txn EXCEPT ![s] = [Idle EXCEPT !.call = txn[s].call,
                               !.phase = "commit", !.reply = "ok", !.writes = w]]
                \/ txn' = [txn EXCEPT ![s] =
                       [Idle EXCEPT !.call = txn[s].call, !.phase = "rejected"]]
            BY <5>1 DEF UpdateRow
          <6>2. CASE txn' = [txn EXCEPT ![s] =
                       [Idle EXCEPT !.call = txn[s].call, !.phase = "rejected"]]
            BY <1>0, <6>2 DEF Idle
          <6>3. ASSUME NEW w, txn' = [txn EXCEPT ![s] = [Idle EXCEPT !.call = txn[s].call,
                               !.phase = "commit", !.reply = "ok", !.writes = w]]
                PROVE  txn'[s].call = txn[s].call
            BY <1>0, <6>3 DEF Idle
          <6> QED BY <6>1, <6>2, <6>3
        <5>2. CASE Reject(s)
          BY <1>0, <5>2 DEF Reject, Idle
        <5> QED BY <3>3, <5>1, <5>2
      <4> QED BY <4>1, <4>2 DEF OpenClaim
    <3>4. CASE ReadIdempotent(s)
      <4>1. txn[s].call \in Call
        BY <1>0 DEF Txn
      <4>2. txn[s].call.op = "Enqueue" /\ \A j : [txn[s].call EXCEPT !.id = j].op = "Enqueue"
        BY <3>4, <4>1 DEF ReadIdempotent, Call
      <4>3. \/ t = [Idle EXCEPT !.call = txn[s].call, !.phase = "returned", !.reply = "error"]
            \/ \E j \in Ids : t =
                 IF SameRequest(rows[j], txn[s].call.request)
                 THEN [Idle EXCEPT !.call = [txn[s].call EXCEPT !.id = j],
                         !.phase = "commit", !.reply = "ok", !.shared = Retained(j)]
                 ELSE [Idle EXCEPT !.call = txn[s].call, !.phase = "returned",
                                   !.reply = "ErrIdempotencyConflict"]
        <5>1. txn'[s] = t
          BY <1>0, <2>2
        <5> HIDE DEF SameRequest
        <5>2. CASE \A j \in Ids : ~SameKey(rows[j], txn[s].call.request)
          BY <1>0, <3>4, <5>1, <5>2 DEF ReadIdempotent
        <5>3. CASE \E j \in Ids : SameKey(rows[j], txn[s].call.request)
          BY <1>0, <3>4, <5>1, <5>3 DEF ReadIdempotent
        <5> QED BY <5>2, <5>3
      <4>4. t.call = txn[s].call \/ \E j : t.call = [txn[s].call EXCEPT !.id = j]
        <5>1. CASE \E phase, reply : t = [Idle EXCEPT !.call = txn[s].call,
                                             !.phase = phase, !.reply = reply]
          BY <5>1 DEF Idle
        <5>2. CASE \E j \in Ids : t = [Idle EXCEPT !.call = [txn[s].call EXCEPT !.id = j],
                         !.phase = "commit", !.reply = "ok", !.shared = Retained(j)]
          BY <5>2 DEF Idle
        <5> QED BY <4>3, <5>1, <5>2
      <4> QED BY <2>3, <4>2, <4>4 DEF OpenClaim
    <3>5. CASE ClaimRows(s)
      <4>1. txn[s].call \in Call
        BY <1>0 DEF Txn
      <4>2. PICK j, r, w : txn' = [txn EXCEPT ![s] =
              [Idle EXCEPT !.call = [txn[s].call EXCEPT !.id = j],
                           !.phase = "commit", !.reply = r, !.writes = w]]
        BY <3>5 DEF ClaimRows
      <4>3. txn'[s].phase = "commit" /\ txn'[s].call = [txn[s].call EXCEPT !.id = j]
        BY <1>0, <4>2 DEF Idle
      <4>4. [txn[s].call EXCEPT !.id = j].token = txn[s].call.token
        BY <4>1 DEF Call
      <4>5. txn[s].phase = "scanned" /\ txn[s].call.op = "Claim"
        BY <3>5 DEF ClaimRows
      <4> QED BY <4>3, <4>4, <4>5 DEF OpenClaim
    <3>6. CASE Abort(s) \/ Return(s) \/ LateAbort(s)
      <4>1. t.phase \in {"returned", "idle"}
        BY <1>0, <2>2, <3>6, IdleType DEF Abort, Return, LateAbort, Idle
      <4> QED BY <2>3, <4>1 DEF OpenClaim
    <3> QED BY <1>1, <3>1, <3>2, <3>3, <3>4, <3>5, <3>6 DEF Body
  <2>5. ASSUME NEW p \in Sessions, OpenClaim(txn'[p])
        PROVE  /\ OpenClaim(txn[p]) /\ txn'[p].call.token = txn[p].call.token
               /\ txn'[p].phase = "doubt" /\ txn'[p].call.id # NULL =>
                    txn'[p].call.token \in LeaseTokens'
    <3>1. CASE p = s
      BY <2>4, <2>5, <3>1
    <3>2. CASE p # s
      BY <2>1, <2>3, <2>5, <3>2 DEF TokenInv, LeaseTokens
    <3> QED BY <3>1, <3>2
  <2> QED BY <2>1, <2>5, QuietTokens
<1>2. CASE CommitUnknown(s)
  <2>1. rows' = rows /\ settled' = settled /\ leases' = leases \union Handed(s)
    BY <1>2 DEF CommitUnknown
  <2>2. \A p \in Sessions : p # s => txn'[p] = txn[p]
    BY <1>0, <1>2 DEF CommitUnknown
  <2>3. /\ txn'[s].call = txn[s].call /\ txn'[s].phase = "doubt" /\ txn[s].phase = "commit"
    BY <1>0, <1>2 DEF CommitUnknown, Txn
  <2>4. (txn[s].call.op = "Claim" /\ txn[s].call.id # NULL)
           => txn[s].call.token \in LeaseTokens'
    <3> SUFFICES ASSUME txn[s].call.op = "Claim", txn[s].call.id # NULL
                 PROVE  txn[s].call.token \in LeaseTokens'
      OBVIOUS
    <3> DEFINE l == [id |-> txn[s].call.id, token |-> txn[s].call.token]
    <3>1. l \in leases' /\ l.token = txn[s].call.token
      BY <2>1 DEF Handed
    <3> HIDE DEF l
    <3> QED BY <3>1 DEF LeaseTokens
  <2>5. ASSUME NEW p \in Sessions, OpenClaim(txn'[p])
        PROVE  /\ OpenClaim(txn[p]) /\ txn'[p].call.token = txn[p].call.token
               /\ txn'[p].phase = "doubt" /\ txn'[p].call.id # NULL =>
                    txn'[p].call.token \in LeaseTokens'
    <3>1. CASE p = s
      BY <2>3, <2>4, <2>5, <3>1 DEF OpenClaim
    <3>2. CASE p # s
      BY <2>1, <2>2, <2>5, <3>2 DEF TokenInv, LeaseTokens
    <3> QED BY <3>1, <3>2
  <2> QED BY <2>1, <2>5, QuietTokens
<1> QED BY <1>1, <1>2

\* A claim starts with a token that no row, ending or other claim has.
LEMMA ClaimTokens ==
  ASSUME IInv, TokenInv, NEW s \in Sessions, Claim(s)
  PROVE  TokenInv'
<1>0. txn \in [Sessions -> Txn] /\ settled \subseteq Ending
  BY DEF IInv, TypeOK
<1>1. PICK queue \in Queues, worker \in Workers, d \in LeaseDurations, t \in FreshTokens :
        ClaimScan(s, [NoCall EXCEPT !.op = "Claim", !.queue = queue,
                                    !.worker = worker, !.duration = d, !.token = t])
  BY DEF Claim
<1>2. rows' = rows /\ settled' = settled /\ leases' = leases
  BY <1>1 DEF ClaimScan
<1>3. /\ t \in Tokens /\ t # NULL /\ t \notin LeaseTokens
      /\ \A p \in Sessions : txn[p].call.token # t
  BY NullAssumption DEF FreshTokens, LeaseTokens
<1> DEFINE c == [NoCall EXCEPT !.op = "Claim", !.queue = queue,
                               !.worker = worker, !.duration = d, !.token = t]
<1>4. c.token = t
  BY DEF NoCall
<1>5. ClaimScan(s, c)
  BY <1>1
<1> HIDE DEF c
<1>6. txn'[s].call.token = t /\ txn'[s].phase = "scanned"
  BY <1>0, <1>4, <1>5 DEF ClaimScan, Idle
<1>7. \A p \in Sessions : p # s => txn'[p] = txn[p]
  BY <1>0, <1>5 DEF ClaimScan
<1>8. UnusedToken(t)
  BY <1>3 DEF TokenInv, UnusedToken
<1>9. SettledOnce' /\ LeaseTokens' = LeaseTokens
  BY <1>2 DEF TokenInv, SettledOnce, LeaseTokens
<1>10. \A tok : UnusedToken(tok) => UnusedToken(tok)'
  BY <1>2 DEF UnusedToken
<1>11. ASSUME NEW p \in Sessions, OpenClaim(txn'[p])
       PROVE  /\ UnusedToken(txn[p].call.token)'
              /\ txn'[p].phase = "doubt" /\ txn'[p].call.id # NULL
                   => txn'[p].call.token \in LeaseTokens'
  <2>1. CASE p = s
    BY <1>6, <1>8, <1>10, <2>1
  <2>2. CASE p # s
    BY <1>7, <1>9, <1>10, <1>11, <2>2 DEF TokenInv
  <2> QED BY <2>1, <2>2
<1>12. ASSUME NEW p \in Sessions, NEW o \in Sessions, OpenClaim(txn'[p]),
              OpenClaim(txn'[o]), txn'[p].call.token = txn'[o].call.token
       PROVE  p = o
  BY <1>3, <1>6, <1>7, <1>12 DEF TokenInv
<1> QED BY <1>2, <1>9, <1>11, <1>12 DEF TokenInv

\* What a commit does to tokens: a row keeps its token, loses it, or gets the
\* one of the claim; and an attempt it ends is one whose row loses its token.
LEMMA AppliedTokens ==
  ASSUME IInv, NEW s \in Sessions, Applied(s)
  PROVE  /\ \A j \in Ids : \/ rows'[j].token \in {rows[j].token, NULL}
                           \/ /\ j \in Written(s) /\ txn[s].call.op = "Claim"
                              /\ j = txn[s].call.id
                              /\ rows'[j].token = txn[s].call.token
         /\ \A e \in Endings(s) : \E j \in Ids :
              /\ e = [token |-> rows[j].token, how |-> txn[s].call.op]
              /\ rows[j].token # NULL /\ rows'[j].token # rows[j].token
<1> DEFINE c == txn[s].call
<1>1. ASSUME NEW j \in Written(s)
      PROVE  /\ j \in Ids /\ rows'[j] = txn[s].writes[j]
             /\ c.op \in {"Complete", "Fail"} =>
                  rows[j].token = c.token /\ rows'[j].token = NULL /\ c.token # NULL
             /\ \/ rows'[j].token \in {rows[j].token, NULL}
                \/ c.op = "Claim" /\ j = c.id /\ rows'[j].token = c.token
  <2> DEFINE w == txn[s].writes[j]
             r == rows[j]
  <2>1. PICK i \in 0..clock : WriteAt(c, r, w, i)
    BY WrittenRow
  <2>2. /\ c \in Call /\ CallOK(c) /\ r \in Row /\ RowOK(r) /\ i \in Nat
        /\ rows'[j] = w /\ j \in Ids
        /\ c.op = "Claim" /\ w.state = "running" => j = c.id
    BY <2>1, WrittenRow DEF Applied
  <2> HIDE DEF c, w, r
  <2>3. /\ c.op \in UpdateOps \union {"Claim", "Enqueue"}
        /\ c.op \in {"Complete", "Fail"} => r.token = c.token /\ w.token = NULL
        /\ c.op = "Heartbeat" => w.token = r.token
        /\ c.op \in {"Cancel", "Redrive", "Enqueue"} => w.token = NULL
        /\ c.op = "Claim" => \/ w.state = "running" /\ w.token = c.token
                             \/ w.state = "dead" /\ w.token = NULL
    BY <2>1, <2>2, WriteEffect
  <2>4. c.op \in {"Complete", "Fail"} => c.token # NULL
    BY <2>2, NullAssumption DEF CallOK, LeaseOps
  <2>5. \/ w.token \in {r.token, NULL}
        \/ c.op = "Claim" /\ j = c.id /\ w.token = c.token
    BY <2>2, <2>3 DEF UpdateOps, LeaseOps
  <2> QED BY <2>2, <2>3, <2>4, <2>5 DEF w, r
<1>2. ASSUME NEW j \in Ids, j \notin Written(s)
      PROVE  rows'[j] = rows[j]
  BY <1>2 DEF Applied
<1>3. ASSUME NEW e \in Endings(s)
      PROVE  \E j \in Ids : /\ e = [token |-> rows[j].token, how |-> c.op]
                            /\ rows[j].token # NULL /\ rows'[j].token # rows[j].token
  <2>1. CASE c.op \in {"Complete", "Fail"}
    <3>1. PICK j \in Written(s) : e = [token |-> c.token, how |-> c.op]
      BY <2>1 DEF Endings
    <3> QED BY <1>1, <2>1, <3>1
  <2>2. CASE c.op \notin {"Complete", "Fail"}
    <3>1. PICK j \in Written(s) : /\ e = [token |-> rows[j].token, how |-> c.op]
                                  /\ rows[j].token # NULL
                                  /\ txn[s].writes[j].token # rows[j].token
      BY <2>2 DEF Endings
    <3> QED BY <1>1, <3>1
  <2> QED BY <2>1, <2>2
<1> QED BY <1>1, <1>2, <1>3

\* A commit ends each attempt it ends for the first and only time.
LEMMA CommitTokens ==
  ASSUME IInv, TokenInv, NEW s \in Sessions, Applied(s),
         txn[s].phase \in {"commit", "doubt"},
         LeaseTokens \subseteq LeaseTokens',
         (txn[s].call.op = "Claim" /\ txn[s].call.id # NULL)
            => txn[s].call.token \in LeaseTokens',
         \A p \in Sessions : OpenClaim(txn'[p]) =>
            /\ p # s /\ OpenClaim(txn[p])
            /\ txn'[p].call = txn[p].call /\ txn'[p].phase = txn[p].phase
  PROVE  TokenInv'
<1> DEFINE c == txn[s].call
           New(j) == c.op = "Claim" /\ j = c.id /\ rows'[j].token = c.token
<1>1. \A j \in Ids : rows'[j].token \in {rows[j].token, NULL} \/ New(j)
  BY AppliedTokens
<1>2. \A e \in Endings(s) : \E j \in Ids :
        /\ e = [token |-> rows[j].token, how |-> c.op]
        /\ rows[j].token # NULL /\ rows'[j].token # rows[j].token
  BY AppliedTokens
<1>3. c.op = "Claim" => UnusedToken(c.token)
  BY DEF TokenInv, OpenClaim
<1>4. settled' = settled \union Endings(s)
  BY DEF Applied
<1>5. settled \subseteq Ending /\ \A e \in settled : e.token # NULL
  BY NullAssumption DEF IInv, TypeOK, Ending
<1>6. ASSUME NEW i \in Ids, NEW j \in Ids, rows'[i].token # NULL,
             rows'[i].token = rows'[j].token
      PROVE  i = j
  BY <1>1, <1>3, <1>6 DEF TokenInv, UnusedToken
<1>7. \A e1, e2 \in settled' : e1.token = e2.token => e1 = e2
  <2> SUFFICES ASSUME NEW e1 \in settled', NEW e2 \in settled', e1.token = e2.token
               PROVE  e1 = e2
    OBVIOUS
  <2>1. CASE e1 \in settled /\ e2 \in settled
    BY <2>1 DEF TokenInv, SettledOnce
  <2>2. ASSUME NEW a \in Endings(s), NEW b \in settled
        PROVE  a.token # b.token
    <3>1. PICK j \in Ids : a = [token |-> rows[j].token, how |-> c.op]
      BY <1>2
    <3> QED BY <3>1 DEF TokenInv, SettledOnce
  <2>3. CASE e1 \in Endings(s) /\ e2 \in Endings(s)
    <3>1. PICK i \in Ids : /\ e1 = [token |-> rows[i].token, how |-> c.op]
                           /\ rows[i].token # NULL
      BY <1>2, <2>3
    <3>2. PICK j \in Ids : e2 = [token |-> rows[j].token, how |-> c.op]
      BY <1>2, <2>3
    <3>3. e1.token = rows[i].token /\ e2.token = rows[j].token
      BY <3>1, <3>2
    <3> QED BY <3>1, <3>2, <3>3 DEF TokenInv
  <2> QED BY <1>4, <2>1, <2>2, <2>3
<1>8. ASSUME NEW e \in settled', NEW j \in Ids
      PROVE  rows'[j].token # e.token
  <2>1. CASE e \in settled
    BY <1>1, <1>3, <1>5, <2>1 DEF TokenInv, SettledOnce, UnusedToken
  <2>2. CASE e \in Endings(s)
    <3>1. PICK i \in Ids : /\ e = [token |-> rows[i].token, how |-> c.op]
                           /\ rows[i].token # NULL /\ rows'[i].token # rows[i].token
      BY <1>2, <2>2
    <3>2. e.token = rows[i].token
      BY <3>1
    <3> QED BY <1>1, <1>3, <3>1, <3>2 DEF TokenInv, UnusedToken
  <2> QED BY <1>4, <2>1, <2>2
<1>9. SettledOnce'
  BY <1>7, <1>8 DEF SettledOnce
<1>10. ASSUME NEW j \in Ids, rows'[j].token # NULL
       PROVE  rows'[j].token \in LeaseTokens'
  BY <1>1, <1>10, NullAssumption DEF TokenInv
<1>11. ASSUME NEW e \in settled'
       PROVE  e.token \in LeaseTokens'
  <2>1. CASE e \in settled
    BY <2>1 DEF TokenInv
  <2>2. CASE e \in Endings(s)
    <3>1. PICK i \in Ids : /\ e = [token |-> rows[i].token, how |-> c.op]
                           /\ rows[i].token # NULL
      BY <1>2, <2>2
    <3> QED BY <3>1 DEF TokenInv
  <2> QED BY <1>4, <2>1, <2>2
<1>12. ASSUME NEW p \in Sessions, OpenClaim(txn'[p])
       PROVE  UnusedToken(txn[p].call.token)'
  <2> DEFINE tok == txn[p].call.token
  <2>1. /\ p # s /\ OpenClaim(txn[p]) /\ txn'[p].call.token = tok
        /\ UnusedToken(tok) /\ tok # NULL /\ (c.op = "Claim" => c.token # tok)
    <3>1. p # s /\ OpenClaim(txn[p]) /\ txn'[p].call = txn[p].call
      BY <1>12
    <3>2. tok # NULL
      BY <3>1, NullAssumption DEF IInv, TxnOK, CallOK, OpenClaim
    <3> QED BY <3>1, <3>2 DEF TokenInv, OpenClaim
  <2>2. \A j \in Ids : rows'[j].token # tok
    BY <1>1, <2>1 DEF UnusedToken
  <2>3. \A e \in Endings(s) : e.token # tok
    <3> SUFFICES ASSUME NEW e \in Endings(s) PROVE e.token # tok
      OBVIOUS
    <3>1. PICK i \in Ids : e = [token |-> rows[i].token, how |-> c.op]
      BY <1>2
    <3> QED BY <2>1, <3>1 DEF UnusedToken
  <2> QED BY <1>4, <2>1, <2>2, <2>3 DEF UnusedToken
<1>13. ASSUME NEW p \in Sessions, OpenClaim(txn'[p]),
              txn'[p].phase = "doubt", txn'[p].call.id # NULL
       PROVE  txn'[p].call.token \in LeaseTokens'
  BY <1>13 DEF TokenInv
<1>14. ASSUME NEW p \in Sessions, NEW o \in Sessions, OpenClaim(txn'[p]),
              OpenClaim(txn'[o]), txn'[p].call.token = txn'[o].call.token
       PROVE  p = o
  BY <1>14 DEF TokenInv
<1> QED BY <1>6, <1>9, <1>10, <1>11, <1>12, <1>13, <1>14 DEF TokenInv

\* Retention ends the attempt of the row it deletes, if the row has one.
LEMMA PurgeTokens ==
  ASSUME IInv, TokenInv, NEW k \in Ids, Purge(k)
  PROVE  TokenInv'
<1>0. rows \in [Ids -> Row] /\ txn \in [Sessions -> Txn] /\ settled \subseteq Ending
  BY DEF IInv, TypeOK
<1>1. [NoRow EXCEPT !.state = "purged"].token = NULL
  BY DEF NoRow
<1>2. /\ rows'[k].token = NULL
      /\ \A j \in Ids : j # k => rows'[j] = rows[j]
  BY <1>0, <1>1 DEF Purge
<1>3. \A p \in Sessions : txn'[p].call = txn[p].call /\ txn'[p].phase = txn[p].phase
  <2> SUFFICES ASSUME NEW p \in Sessions
               PROVE  txn'[p].call = txn[p].call /\ txn'[p].phase = txn[p].phase
    OBVIOUS
  <2>1. txn'[p] = [txn[p] EXCEPT !.stale = @ \union (Matched(p) \intersect {k})]
    BY DEF Purge
  <2>2. txn[p] \in Txn
    BY <1>0
  <2> QED BY <2>1, <2>2 DEF Txn
<1>4. leases' = leases /\ LeaseTokens' = LeaseTokens
  BY DEF Purge, LeaseTokens
<1> DEFINE end == [token |-> rows[k].token, how |-> "Purge"]
<1>5. /\ \A e \in settled' : e \in settled \/ (e = end /\ rows[k].token # NULL)
      /\ end.token = rows[k].token
  <2> DEFINE E == {[token |-> t, how |-> "Purge"] : t \in {rows[k].token} \ {NULL}}
  <2>1. settled' = settled \union E
    BY DEF Purge
  <2>2. ASSUME NEW e \in E
        PROVE  e = end /\ rows[k].token # NULL
    OBVIOUS
  <2>3. end.token = rows[k].token
    OBVIOUS
  <2> HIDE DEF E, end
  <2> QED BY <2>1, <2>2, <2>3
<1>6. \A e \in settled : e.token # NULL /\ e.token # rows[k].token
  BY <1>0, NullAssumption DEF Ending, TokenInv, SettledOnce
<1> HIDE DEF end
<1>7. ASSUME NEW i \in Ids, NEW j \in Ids, rows'[i].token # NULL,
             rows'[i].token = rows'[j].token
      PROVE  i = j
  BY <1>2, <1>7 DEF TokenInv
<1>8. SettledOnce'
  <2>1. \A e1, e2 \in settled' : e1.token = e2.token => e1 = e2
    BY <1>5, <1>6 DEF TokenInv, SettledOnce
  <2>2. ASSUME NEW e \in settled', NEW j \in Ids
        PROVE  rows'[j].token # e.token
    BY <1>2, <1>5, <1>6 DEF TokenInv, SettledOnce
  <2> QED BY <2>1, <2>2 DEF SettledOnce
<1>9. /\ \A j \in Ids : rows'[j].token # NULL => rows'[j].token \in LeaseTokens'
      /\ \A e \in settled' : e.token \in LeaseTokens'
  BY <1>2, <1>4, <1>5 DEF TokenInv
<1>10. ASSUME NEW p \in Sessions, OpenClaim(txn'[p])
       PROVE  /\ UnusedToken(txn[p].call.token)'
              /\ txn'[p].phase = "doubt" /\ txn'[p].call.id # NULL
                   => txn'[p].call.token \in LeaseTokens'
  <2> DEFINE tok == txn[p].call.token
  <2>1. OpenClaim(txn[p])
    BY <1>3, <1>10 DEF OpenClaim
  <2>2. UnusedToken(tok) /\ tok # NULL
    BY <2>1, NullAssumption DEF IInv, TxnOK, CallOK, OpenClaim, TokenInv
  <2>3. (\A j \in Ids : rows'[j].token # tok) /\ (\A e \in settled' : e.token # tok)
    BY <1>2, <1>5, <2>2 DEF UnusedToken
  <2> QED BY <1>3, <1>4, <2>1, <2>3 DEF UnusedToken, TokenInv
<1>11. ASSUME NEW p \in Sessions, NEW o \in Sessions, OpenClaim(txn'[p]),
              OpenClaim(txn'[o]), txn'[p].call.token = txn'[o].call.token
       PROVE  p = o
  BY <1>3, <1>11 DEF TokenInv, OpenClaim
<1> QED BY <1>7, <1>8, <1>9, <1>10, <1>11 DEF TokenInv

LEMMA TokenStep ==
  ASSUME IInv, TokenInv, [Next]_vars
  PROVE  TokenInv'
<1>1. ASSUME NEW s \in Sessions, Commit(s) \/ LateCommit(s)
      PROVE  TokenInv'
  <2>0. txn \in [Sessions -> Txn]
    BY DEF IInv, TypeOK
  <2>1. PICK next : Apply(s, next) /\ next.phase \in {"returned", "idle"}
    <3>1. CASE Commit(s)
      <4> DEFINE t == [Idle EXCEPT !.phase = "returned", !.call = txn[s].call,
                                   !.reply = txn[s].reply]
      <4>1. t.phase = "returned" /\ Apply(s, t)
        BY <3>1 DEF Commit, Idle
      <4> HIDE DEF t
      <4> QED BY <4>1
    <3>2. CASE LateCommit(s)
      BY <3>2 DEF LateCommit, Idle
    <3> QED BY <1>1, <3>1, <3>2
  <2>2. Applied(s) /\ txn[s].phase \in {"commit", "doubt"}
    BY <1>1, <2>1 DEF Commit, LateCommit, Apply, Applied
  <2>3. \A p \in Sessions : OpenClaim(txn'[p]) =>
            /\ p # s /\ OpenClaim(txn[p])
            /\ txn'[p].call = txn[p].call /\ txn'[p].phase = txn[p].phase
    <3> SUFFICES ASSUME NEW p \in Sessions, OpenClaim(txn'[p])
                 PROVE  /\ p # s /\ OpenClaim(txn[p])
                        /\ txn'[p].call = txn[p].call /\ txn'[p].phase = txn[p].phase
      OBVIOUS
    <3>1. p # s
      BY <2>1 DEF Apply, OpenClaim
    <3>2. txn'[p] = [txn[p] EXCEPT !.stale = @ \union (Matched(p) \intersect Written(s))]
      BY <2>1, <3>1 DEF Apply
    <3>3. txn[p] \in Txn
      BY <2>0
    <3>4. txn'[p].call = txn[p].call /\ txn'[p].phase = txn[p].phase
      BY <3>2, <3>3 DEF Txn
    <3> QED BY <3>1, <3>4 DEF OpenClaim
  <2>4. LeaseTokens \subseteq LeaseTokens'
    BY <1>1 DEF Commit, LateCommit, LeaseTokens
  <2>5. ASSUME txn[s].call.op = "Claim", txn[s].call.id # NULL
        PROVE  txn[s].call.token \in LeaseTokens'
    <3>1. CASE Commit(s)
      <4> DEFINE l == [id |-> txn[s].call.id, token |-> txn[s].call.token]
      <4>1. l \in leases' /\ l.token = txn[s].call.token
        BY <2>5, <3>1 DEF Commit, Handed
      <4> HIDE DEF l
      <4> QED BY <4>1 DEF LeaseTokens
    <3>2. CASE LateCommit(s)
      <4>1. txn[s].phase = "doubt"
        BY <3>2 DEF LateCommit
      <4> QED BY <2>4, <2>5, <4>1 DEF TokenInv, OpenClaim
    <3> QED BY <1>1, <3>1, <3>2
  <2> QED BY <2>2, <2>3, <2>4, <2>5, CommitTokens
<1>2. ASSUME NEW s \in Sessions,
             \/ Enqueue(s) \/ Heartbeat(s) \/ Complete(s) \/ Fail(s) \/ Cancel(s)
             \/ Redrive(s) \/ Body(s) \/ Abort(s) \/ Return(s)
             \/ CommitUnknown(s) \/ LateAbort(s)
      PROVE  TokenInv'
  BY <1>2, QuietTokenSteps
<1>3. ASSUME Tick \/ UNCHANGED vars
      PROVE  TokenInv'
  <2>1. UNCHANGED <<rows, settled, leases, txn>>
    BY <1>3 DEF Tick, vars
  <2> QED BY <2>1, QuietTokens DEF TokenInv, LeaseTokens
<1> QED BY <1>1, <1>2, <1>3, ClaimTokens, PurgeTokens DEF Next, Start, End

\* No token is on two rows, ends twice, or is claimed again.
THEOREM TokensInvariant == Spec => []TokenInv
<1>1. Init => TokenInv
  <2> SUFFICES ASSUME Init PROVE TokenInv
    OBVIOUS
  <2>1. \A j \in Ids : rows[j].token = NULL
    BY NoRowType DEF Init, NoRows
  <2>2. \A s \in Sessions : ~OpenClaim(txn[s])
    BY DEF Init, Idle, OpenClaim
  <2> QED BY <2>1, <2>2 DEF Init, TokenInv, SettledOnce
<1>2. IInv /\ TokenInv /\ [Next]_vars => TokenInv'
  BY TokenStep
<1> QED BY <1>1, <1>2, Invariance, PTL DEF Spec

\* The token is a fence: every attempt ends by exactly one committed step, and
\* from then on its token is on no row.
THEOREM OneEnding == Spec => []SettledOnce
<1>1. TokenInv => SettledOnce
  BY DEF TokenInv
<1> QED BY <1>1, TokensInvariant, PTL

-----------------------------------------------------------------------------
(* Refinement: whatever sessions, locks, waits and in-doubt commits do, the *)
(* committed table moves one lifecycle step at a time.  The mapping keeps   *)
(* the clock and the table and reads the abstract set of spent tokens off   *)
(* the endings and the rows (Spent).                                        *)

\* Each statement of the repository is a move of the lifecycle.
LEMMA WriteIsMove ==
  ASSUME NEW c \in Call, CallOK(c), NEW r \in Row, RowOK(r), clock \in Nat,
         NEW i \in 0..clock, NEW w, WriteAt(c, r, w, i),
         c.op = "Claim" => c.token \notin Spent
  PROVE  Lifecycle!Move(r, w)
<1>1. CASE c.op \in LeaseOps
  <2>1. /\ r.state = "running" /\ r.token = c.token /\ r.lease_until > i
        /\ w = Updated(c, r, i)
    BY <1>1 DEF WriteAt, Where, Fenced, UpdateOps, LeaseOps
  <2>2. CASE c.op = "Heartbeat"
    <3>1. Lifecycle!Renewed(r, w)
      BY <2>1, <2>2 DEF Updated, heartbeatSQL, Row, Lifecycle!Renewed,
                        Lifecycle!SameAttempt, Lifecycle!SameJob
    <3> QED BY <3>1 DEF Lifecycle!Move
  <2>3. CASE c.op = "Complete"
    <3>1. Lifecycle!Succeeded(r, w)
      BY <2>1, <2>3 DEF Updated, completeSQL, Finish, Unleased, Row, Lifecycle!Succeeded,
                        Lifecycle!SameAttempt, Lifecycle!SameJob
    <3> QED BY <3>1 DEF Lifecycle!Move
  <2>4. CASE c.op = "Fail"
    <3>1. w = failSQL(c, r, i)
      BY <2>1, <2>4 DEF Updated
    <3>2. r.attempts \in Int /\ r.max_attempts \in Int
      BY DEF Row
    <3>3. CASE c.permanent \/ r.attempts >= r.max_attempts
      <4>1. Lifecycle!Failed(r, w)
        BY <2>1, <3>1, <3>3 DEF failSQL, Finish, Unleased, Row, Lifecycle!Failed,
                                Lifecycle!SameAttempt, Lifecycle!SameJob
      <4> QED BY <4>1 DEF Lifecycle!Move
    <3>4. CASE ~(c.permanent \/ r.attempts >= r.max_attempts)
      <4>1. Lifecycle!Failed(r, w)
        BY <2>1, <3>1, <3>2, <3>4 DEF failSQL, Unleased, Row, Lifecycle!Failed,
                                      Lifecycle!SameAttempt, Lifecycle!SameJob
      <4> QED BY <4>1 DEF Lifecycle!Move
    <3> QED BY <3>3, <3>4
  <2> QED BY <1>1, <2>2, <2>3, <2>4 DEF LeaseOps
<1>2. CASE c.op = "Cancel"
  <2>1. r.state \in {"pending", "running"} /\ w = cancelSQL(c, r, i)
    BY <1>2 DEF WriteAt, Where, Updated, UpdateOps, LeaseOps
  <2>2. Lifecycle!Canceled(r, w)
    BY <2>1 DEF cancelSQL, Finish, Unleased, Row, Lifecycle!Canceled,
                Lifecycle!SameAttempt, Lifecycle!SameJob
  <2> QED BY <2>2 DEF Lifecycle!Move
<1>3. CASE c.op = "Redrive"
  <2>1. r.state = "dead" /\ w = redriveSQL(c, r, i)
    BY <1>3 DEF WriteAt, Where, Updated, UpdateOps, LeaseOps
  <2>2. Lifecycle!Redriven(r, w)
    BY <2>1 DEF redriveSQL, Unleased, Row, Lifecycle!Redriven, Lifecycle!SameJob
  <2> QED BY <2>2 DEF Lifecycle!Move
<1>4. CASE c.op = "Claim"
  <2>0. i \in Nat /\ i <= clock /\ NULL \notin Nat
    BY NullAssumption
  <2>1. CASE Exhausted(c, r, i) /\ w = Buried(r, i)
    <3>1. r.lease_until \in Nat
      BY <2>1, NullAssumption DEF Exhausted, RowOK, Exists, JobState, SchemaChecks, Row, Time
    <3>2. Lifecycle!Abandoned(r, w)
      BY <2>0, <2>1, <3>1 DEF Exhausted, Buried, Finish, Unleased, Row,
               Lifecycle!Abandoned, Lifecycle!SameAttempt, Lifecycle!SameJob
    <3> QED BY <3>2 DEF Lifecycle!Move
  <2>2. CASE Eligible(c, r, i) /\ w = Granted(c, r, i)
    <3>1. r.state = "running" => r.lease_until \in Nat
      BY NullAssumption DEF RowOK, Exists, JobState, SchemaChecks, Row, Time
    <3>2. r.attempts < r.max_attempts
      BY <2>2, <3>1 DEF Eligible, RowOK, Exists, JobState, SchemaChecks
    <3>3. \/ r.state = "pending" /\ r.available_at <= clock
          \/ r.state = "running" /\ r.lease_until <= clock
      BY <2>0, <2>2, <3>1 DEF Eligible, Row, Time
    <3>4. Lifecycle!Attempted(r, w)
      BY <1>4, <2>2, <3>2, <3>3 DEF Granted, Row, Lifecycle!Attempted, Lifecycle!SameJob
    <3> QED BY <3>4 DEF Lifecycle!Move
  <2> QED BY <1>4, <2>1, <2>2 DEF WriteAt, UpdateOps, LeaseOps
<1>5. CASE c.op = "Enqueue"
  <2>1. r.state = "none" /\ w = Inserted(c.request, i)
    BY <1>5 DEF WriteAt, UpdateOps, LeaseOps
  <2>2. Lifecycle!Created(r, w)
    BY <1>5, <2>1 DEF Inserted, NoRow, CallOK, validateEnqueue, Lifecycle!Created
  <2> QED BY <2>2 DEF Lifecycle!Move
<1> QED BY <1>1, <1>2, <1>3, <1>4, <1>5 DEF WriteAt, UpdateOps

\* A commit is one step of the lifecycle, at most one of whose moves starts an
\* attempt.
LEMMA CommitIsTransact ==
  ASSUME IInv, TokenInv, NEW s \in Sessions, Applied(s),
         txn[s].phase \in {"commit", "doubt"}
  PROVE  Lifecycle!Transact
<1> DEFINE c == txn[s].call
<1>0. /\ rows \in [Ids -> Row] /\ settled \subseteq Ending /\ clock \in Nat
      /\ clock' = clock /\ settled' = settled \union Endings(s)
  BY DEF IInv, TypeOK, Time, Applied
<1>1. c.op = "Claim" => c.token \notin Spent
  BY DEF TokenInv, OpenClaim, UnusedToken, Spent
<1>2. ASSUME NEW j \in Ids
      PROVE  /\ rows'[j] = rows[j] \/ Lifecycle!Move(rows[j], rows'[j])
             /\ Lifecycle!Attempted(rows[j], rows'[j]) => j = c.id
  <2>1. CASE j \notin Written(s)
    <3>1. rows'[j] = rows[j] /\ rows[j].attempts \in Nat
      BY <1>0, <2>1 DEF Applied, Row
    <3> QED BY <3>1 DEF Lifecycle!Attempted
  <2>2. CASE j \in Written(s)
    <3> DEFINE w == txn[s].writes[j]
    <3>1. PICK i \in 0..clock : WriteAt(c, rows[j], w, i)
      BY <2>2, WrittenRow
    <3>2. /\ c \in Call /\ CallOK(c) /\ rows[j] \in Row /\ RowOK(rows[j])
          /\ rows'[j] = w /\ i \in Nat
          /\ c.op = "Claim" /\ w.state = "running" => j = c.id
      BY <2>2, <3>1, WrittenRow DEF Applied
    <3> HIDE DEF c, w
    <3>3. Lifecycle!Move(rows[j], w)
      BY <1>0, <1>1, <3>1, <3>2, WriteIsMove
    <3>4. w.attempts = rows[j].attempts + 1 => c.op = "Claim" /\ w.state = "running"
      <4>1. rows[j].attempts \in Nat
        BY <3>2 DEF Row
      <4> QED BY <3>1, <3>2, <4>1, WriteEffect DEF UpdateOps
    <3> QED BY <3>2, <3>3, <3>4 DEF Lifecycle!Attempted
  <2> QED BY <2>1, <2>2
<1>3. Spent' = Spent \union Lifecycle!TokensOf(rows')
  <2>1. \A e \in Endings(s) : \E j \in Ids : e.token = rows[j].token /\ rows[j].token # NULL
    <3> SUFFICES ASSUME NEW e \in Endings(s)
                 PROVE  \E j \in Ids : e.token = rows[j].token /\ rows[j].token # NULL
      OBVIOUS
    <3>1. PICK j \in Ids : /\ e = [token |-> rows[j].token, how |-> c.op]
                           /\ rows[j].token # NULL
      BY AppliedTokens
    <3> QED BY <3>1
  <2>2. ASSUME NEW j \in Ids, rows[j].token # NULL, rows'[j].token # rows[j].token
        PROVE  \E e \in Endings(s) : e.token = rows[j].token
    <3>1. j \in Written(s) /\ rows'[j] = txn[s].writes[j]
      BY <2>2 DEF Applied
    <3>2. CASE c.op \in {"Complete", "Fail"}
      <4>1. PICK i \in 0..clock : WriteAt(c, rows[j], txn[s].writes[j], i)
        BY <3>1, WrittenRow
      <4>2. c \in Call /\ CallOK(c) /\ rows[j] \in Row /\ RowOK(rows[j]) /\ i \in Nat
        BY <3>1, <4>1, WrittenRow
      <4>3. rows[j].token = c.token
        BY <3>2, <4>1, <4>2, WriteEffect
      <4>4. [token |-> c.token, how |-> c.op] \in Endings(s)
        BY <3>1, <3>2 DEF Endings
      <4> QED BY <4>3, <4>4
    <3>3. CASE c.op \notin {"Complete", "Fail"}
      <4>1. [token |-> rows[j].token, how |-> c.op] \in Endings(s)
        BY <2>2, <3>1, <3>3 DEF Endings
      <4> QED BY <4>1
    <3> QED BY <3>2, <3>3
  <2>3. ASSUME NEW tok, tok \in Spent'
        PROVE  tok \in Spent \union Lifecycle!TokensOf(rows')
    <3>1. \/ \E e \in settled' : tok = e.token
          \/ \E j \in Ids : tok = rows'[j].token /\ tok # NULL
      BY <2>3 DEF Spent
    <3> QED BY <1>0, <2>1, <3>1 DEF Spent, Lifecycle!TokensOf
  <2>4. ASSUME NEW tok, tok \in Spent \union Lifecycle!TokensOf(rows')
        PROVE  tok \in Spent'
    <3>1. \/ \E e \in settled : tok = e.token
          \/ \E j \in Ids : tok = rows[j].token /\ tok # NULL
          \/ \E j \in Ids : tok = rows'[j].token /\ tok # NULL
      BY <2>4 DEF Spent, Lifecycle!TokensOf
    <3> QED BY <1>0, <2>2, <3>1 DEF Spent
  <2> QED BY <2>3, <2>4
<1> QED BY <1>0, <1>2, <1>3 DEF Lifecycle!Transact

LEMMA PurgeIsTransact ==
  ASSUME IInv, NEW k \in Ids, Purge(k)
  PROVE  Lifecycle!Transact
<1>0. rows \in [Ids -> Row] /\ clock' = clock
  BY DEF IInv, TypeOK, Purge
<1>1. /\ [NoRow EXCEPT !.state = "purged"].token = NULL
      /\ [NoRow EXCEPT !.state = "purged"].state = "purged"
  BY DEF NoRow
<1>2. /\ rows'[k].token = NULL /\ rows'[k].state = "purged" /\ Exists(rows[k])
      /\ \A j \in Ids : j # k => rows'[j] = rows[j]
  BY <1>0, <1>1 DEF Purge
<1>3. \A j \in Ids : rows'[j] = rows[j] \/ Lifecycle!Move(rows[j], rows'[j])
  BY <1>2 DEF Lifecycle!Move, Lifecycle!Purged, Lifecycle!Exists, Lifecycle!JobState,
              Exists, JobState
<1>4. ASSUME NEW j \in Ids
      PROVE  ~Lifecycle!Attempted(rows[j], rows'[j])
  <2>1. rows[j].attempts \in Nat
    BY <1>0 DEF Row
  <2> QED BY <1>2, <2>1 DEF Lifecycle!Attempted
<1>5. Spent' = Spent \union Lifecycle!TokensOf(rows')
  <2> DEFINE E == {[token |-> t, how |-> "Purge"] : t \in {rows[k].token} \ {NULL}}
  <2>1. settled' = settled \union E
    BY DEF Purge
  <2>2. \A tok : (\E e \in E : e.token = tok) <=> (tok = rows[k].token /\ tok # NULL)
    <3>1. CASE rows[k].token = NULL
      <4>1. E = {}
        BY <3>1
      <4> QED BY <3>1, <4>1
    <3>2. CASE rows[k].token # NULL
      <4>1. E = {[token |-> rows[k].token, how |-> "Purge"]}
        BY <3>2
      <4> HIDE DEF E
      <4> QED BY <3>2, <4>1
    <3> QED BY <3>1, <3>2
  <2> HIDE DEF E
  <2>3. \A tok : tok \in Spent' <=> \/ \E e \in settled' : tok = e.token
                                    \/ \E j \in Ids : tok = rows'[j].token /\ tok # NULL
    BY DEF Spent
  <2>4. \A tok : tok \in Spent <=> \/ \E e \in settled : tok = e.token
                                   \/ \E j \in Ids : tok = rows[j].token /\ tok # NULL
    BY DEF Spent
  <2>5. \A tok : tok \in Lifecycle!TokensOf(rows') <=>
                   \E j \in Ids : tok = rows'[j].token /\ tok # NULL
    BY DEF Lifecycle!TokensOf
  <2>6. \A tok : tok \in Spent' <=> tok \in Spent \union Lifecycle!TokensOf(rows')
    BY <1>2, <2>1, <2>2, <2>3, <2>4, <2>5
  <2> QED BY <2>6
<1> QED BY <1>0, <1>3, <1>4, <1>5 DEF Lifecycle!Transact

LEMMA LifecycleStep ==
  ASSUME IInv, TokenInv, [Next]_vars
  PROVE  Lifecycle!Next \/ UNCHANGED Lifecycle!lifecycleVars
<1>1. ASSUME NEW s \in Sessions,
             Start(s) \/ Body(s) \/ Abort(s) \/ Return(s) \/ CommitUnknown(s) \/ LateAbort(s)
      PROVE  UNCHANGED Lifecycle!lifecycleVars
  <2>1. UNCHANGED <<clock, rows, settled>>
    BY <1>1, StartFrame, BodyFrame DEF CommitUnknown
  <2> QED BY <2>1 DEF Lifecycle!lifecycleVars, Spent
<1>2. ASSUME NEW s \in Sessions, Commit(s) \/ LateCommit(s)
      PROVE  Lifecycle!Next
  <2>1. Applied(s) /\ txn[s].phase \in {"commit", "doubt"}
    BY <1>2 DEF Commit, LateCommit, Apply, Applied
  <2> QED BY <2>1, CommitIsTransact DEF Lifecycle!Next
<1>3. CASE Tick
  BY <1>3 DEF Tick, Spent, Lifecycle!Next, Lifecycle!Tick
<1>4. CASE UNCHANGED vars
  BY <1>4 DEF vars, Spent, Lifecycle!lifecycleVars
<1> QED BY <1>1, <1>2, <1>3, <1>4, PurgeIsTransact DEF Next, End, Lifecycle!Next

\* The repository implements the lifecycle, for every number of sessions, jobs
\* and tokens.
THEOREM Refinement == Spec => ImplementsLifecycle
<1>1. Init => Lifecycle!Init
  <2>1. NoRow = Lifecycle!NoRow
    BY DEF NoRow, Lifecycle!NoRow
  <2>2. Init => Spent = {}
    BY NoRowType DEF Init, NoRows, Spent
  <2> QED BY <2>1, <2>2 DEF Init, NoRows, Lifecycle!Init
<1>2. IInv /\ TokenInv /\ [Next]_vars => [Lifecycle!Next]_(Lifecycle!lifecycleVars)
  BY LifecycleStep
<1> QED BY <1>1, <1>2, Invariance, TokensInvariant, PTL
        DEF Spec, ImplementsLifecycle, Lifecycle!Spec
=============================================================================
