---------------------------- MODULE WorkerStore ----------------------------
(***************************************************************************)
(* A worker of Worker.tla on the repository's own statements, beside other *)
(* workers of the queue and operators that cancel.  Run is started again   *)
(* whenever it has returned or its process has died.                       *)
(*                                                                         *)
(* A call is one step at the database, and its answer travels on its own:  *)
(* between the two the lease may run out or the process die.  JobStore     *)
(* shows that transactions which wait for locks come to the same.  A row   *)
(* whose transaction is in doubt is locked for everyone else, so that such *)
(* a transaction takes effect at once or never.                            *)
(*                                                                         *)
(* Instants are counted from now: a row ages, and nothing else tells time. *)
(***************************************************************************)
EXTENDS Worker, Statements

CONSTANTS
  Budget,            \* max_attempts of the jobs
  Disruptions        \* bound on crashes and shutdowns

\* What Enqueue accepts.
ASSUME BudgetAssumption == Budget \in 1..MaxAttempts

VARIABLES
  rows,              \* the committed table
  ans,               \* the answer to the call in flight
  handled,           \* history: tokens whose handler returned nil
  disrupted          \* crashes and shutdowns so far

storeVars  == <<rows, ans, handled, disrupted>>
systemVars == <<vars, storeVars>>

NoAnswer == [job |-> NoJob, err |-> {"none"}]

-----------------------------------------------------------------------------
(* The call in flight.  Run and the heartbeat never have one at a time.    *)

ClaimCall(worker, t) ==
  [NoCall EXCEPT !.op = "Claim", !.queue = Queue, !.worker = worker,
                 !.duration = config.lease, !.token = t]

LeaseCall(op, id, t) ==
  [NoCall EXCEPT !.op = op, !.id = id, !.token = t, !.duration = config.lease]

\* The worker's own call on its lease.
OwnCall ==
  LET Of(op) == LeaseCall(op, job.id, job.row.token) IN
  CASE pc = "completing" -> Of("Complete")
    [] pc = "failing"    -> [Of("Fail") EXCEPT !.permanent = failure.permanent,
                                               !.delay = failure.delay \div Microsecond]
    [] OTHER             -> Of("Heartbeat")

validateLeaseOperation(lease) == lease.id # NULL /\ lease.row.token # NULL

\* What the repository asks of the call in flight before it opens a
\* transaction.  The message of a Fail is FailureText's.
Accepted ==
  /\ pc = "claiming" \/ hb = "calling" => validateClaim(config.lease)
  /\ pc # "claiming" => validateLeaseOperation(job)
  /\ pc = "failing" =>
       /\ failure.delay % Microsecond = 0
       /\ validateFailure(failure.permanent, failure.delay \div Microsecond)

FreshTokens ==
  Tokens \ ({rows[j].token : j \in Ids} \union {job.row.token, ans.job.row.token})

-----------------------------------------------------------------------------
(* Transactions: the table they leave, the job they return, the error.     *)

Swept(c) ==
  [j \in Ids |-> IF Exhausted(c, rows[j], 0) THEN Buried(rows[j], 0) ELSE rows[j]]

Granting(c) ==
  {[table |-> [Swept(c) EXCEPT ![j] = Granted(c, rows[j], 0)],
    job |-> [id |-> j, row |-> Granted(c, rows[j], 0)], err |-> {}] :
     j \in {i \in Ids : Eligible(c, rows[i], 0)}}

\* The table may hold an eligible row that somebody has locked.
Nothing(c) == [table |-> Swept(c), job |-> NoJob, err |-> {"ErrNoJob"}]

\* What Worker makes of a reply of the repository.
Identity(reply) ==
  CASE reply = "ok"                            -> {}
    [] reply # "ok" /\ reply \in Identities    -> {reply}
    [] reply # "ok" /\ reply \notin Identities -> {"other"}

Acknowledged(c) ==
  LET r == rows[c.id] IN
  IF Where(c, r, 0)
  THEN [table |-> [rows EXCEPT ![c.id] = Updated(c, r, 0)], job |-> NoJob, err |-> {}]
  ELSE [table |-> rows, job |-> NoJob, err |-> Identity(Classified(c, r))]

Refusal == [table |-> rows, job |-> NoJob, err |-> {"ErrInvalid"}]

Executions ==
  CASE ~Accepted -> {Refusal}
    [] Accepted /\ pc = "claiming" ->
         UNION {Granting(ClaimCall(WorkerID, t)) \union {Nothing(ClaimCall(WorkerID, t))} :
                  t \in FreshTokens}
    [] Accepted /\ pc # "claiming" -> {Acknowledged(OwnCall)}

\* The context the call was given has ended.
CallCanceled == IF hb = "calling" THEN cause # "none" ELSE ctx # "live"

InFlight ==
  /\ pc \in {"claiming", "completing", "failing"} \/ hb = "calling"
  /\ ans = NoAnswer

\* The repository has done what it was asked, or refused.
Commits ==
  /\ InFlight
  /\ \E e \in Executions :
       /\ rows' = e.table
       /\ ans' = [job |-> e.job, err |-> e.err]
       /\ handled' = handled \ {e.job.row.token}
  /\ UNCHANGED <<vars, disrupted>>

\* Commit failed: the caller has the job and an error that may name its
\* context too.  A call that was refused or whose body was rejected had no commit.
InDoubt ==
  /\ InFlight
  /\ \E e \in Executions :
       /\ e.err \subseteq {"ErrNoJob"}
       /\ rows' \in {rows, e.table}
       /\ ans' = [job |-> e.job,
                  err |-> {Unknown} \union
                          {i \in {"context.Canceled"} : CallCanceled}]
       /\ handled' = handled \ {e.job.row.token}
  /\ UNCHANGED <<vars, disrupted>>

\* A query-stage failure: nothing happened.
Errs ==
  /\ InFlight /\ Accepted
  /\ ans' \in {[job |-> NoJob, err |-> {i}] :
                 i \in {"other"} \union {i \in {"context.Canceled"} : CallCanceled}}
  /\ UNCHANGED <<vars, rows, handled, disrupted>>

Answer ==
  /\ ans # NoAnswer
  /\ \/ ClaimReturns(ans.job, ans.err)
     \/ AckReturns(ans.err)
     \/ HeartbeatReturns(ans.err)
  /\ ans' = NoAnswer
  /\ UNCHANGED <<rows, handled, disrupted>>

-----------------------------------------------------------------------------
(* The worker's own steps.  Handlers return or panic.                      *)

Handle ==
  /\ \E o \in Outcomes : HandlerReturns(o)
  /\ handled' = IF handlerErr' = "nil" THEN handled \union {job.row.token} ELSE handled
  /\ UNCHANGED <<rows, ans, disrupted>>

Works ==
  /\ \/ RunStep \/ HeartbeatStep \/ HeartbeatStops \/ HeartbeatContextDone
     \/ HeartbeatTicks \/ Propagate
  /\ UNCHANGED storeVars

Reset ==
  /\ pc' = "start" /\ ctx' = "live"
  /\ cause' = "none" /\ stop' = FALSE /\ job' = NoJob
  /\ outcome' = [how |-> "return", err |-> "nil"] /\ interrupted' = FALSE
  /\ failure' = [permanent |-> FALSE, delay |-> 0]
  /\ hb' = "none" /\ hbErr' = {} /\ doubt' = NoDoubt
  /\ result' = [type |-> "none", err |-> {}, lease |-> NULL]
  /\ ans' = NoAnswer
  /\ UNCHANGED <<config, rows, handled>>

Restart == pc = "returned" /\ Reset /\ UNCHANGED disrupted

Crash ==
  /\ pc # "returned" /\ disrupted < Disruptions
  /\ Reset /\ disrupted' = disrupted + 1

Stop ==
  /\ disrupted < Disruptions
  /\ Shutdown /\ disrupted' = disrupted + 1
  /\ UNCHANGED <<rows, ans, handled>>

-----------------------------------------------------------------------------
(* The rest of the world.  Rivals have the worker's own configuration.     *)

Rivals == Workers \ {WorkerID}

RivalClaims ==
  /\ validateClaim(config.lease)
  /\ \E w \in Rivals, t \in FreshTokens : \E e \in Granting(ClaimCall(w, t)) :
       rows' = e.table /\ handled' = handled \ {t}
  /\ UNCHANGED <<vars, ans, disrupted>>

\* A rival's Heartbeat, Complete or Fail; it completes what it has handled.
RivalAcknowledges ==
  /\ \E j \in Ids, op \in LeaseOps, permanent \in BOOLEAN :
       LET c == [LeaseCall(op, j, rows[j].token) EXCEPT !.permanent = permanent] IN
       /\ rows[j].owner \in Rivals /\ Where(c, rows[j], 0)
       /\ rows' = [rows EXCEPT ![j] = Updated(c, rows[j], 0)]
       /\ handled' = IF op = "Complete" THEN handled \union {c.token} ELSE handled
  /\ UNCHANGED <<vars, ans, disrupted>>

OperatorCancels ==
  /\ \E j \in Ids :
       LET c == [NoCall EXCEPT !.op = "Cancel", !.id = j] IN
       /\ Where(c, rows[j], 0)
       /\ rows' = [rows EXCEPT ![j] = Updated(c, rows[j], 0)]
  /\ UNCHANGED <<vars, ans, handled, disrupted>>

Sooner(t) == IF t = NULL \/ t = 0 THEN t ELSE t - 1

Aged(r) == [r EXCEPT !.available_at = Sooner(@), !.lease_until = Sooner(@)]

Age ==
  /\ rows' = [j \in Ids |-> Aged(rows[j])]
  /\ rows' # rows
  /\ UNCHANGED <<vars, ans, handled, disrupted>>

-----------------------------------------------------------------------------
SystemInit ==
  /\ Init
  /\ rows \in [Ids -> {Inserted([queue |-> Queue, key |-> NULL, body |-> b,
                                 max_attempts |-> Budget, available_at |-> NULL], 0) :
                         b \in Bodies}]
  /\ ans = NoAnswer /\ handled = {} /\ disrupted = 0

SystemNext ==
  \/ Commits \/ InDoubt \/ Errs \/ Answer
  \/ Handle \/ Works \/ Restart \/ Crash \/ Stop
  \/ RivalClaims \/ RivalAcknowledges \/ OperatorCancels \/ Age

SystemSpec == SystemInit /\ [][SystemNext]_systemVars

\* Everything runs and time passes; every call is answered, and of the claims
\* that could start or bury an attempt, tried again and again, one commits.
\* Acknowledgements and renewals may fail for ever.  Handlers end.
SystemFairness ==
  /\ WF_systemVars(RunStep /\ UNCHANGED storeVars)
  /\ WF_systemVars(HeartbeatStep /\ UNCHANGED storeVars)
  /\ WF_systemVars(Propagate /\ UNCHANGED storeVars)
  /\ SF_systemVars(HeartbeatStops /\ UNCHANGED storeVars)
  /\ SF_systemVars(HeartbeatContextDone /\ UNCHANGED storeVars)
  /\ WF_systemVars(Commits \/ InDoubt \/ Errs) /\ WF_systemVars(Answer)
  /\ SF_systemVars(pc = "claiming" /\ Commits /\ rows' # rows)
  /\ WF_systemVars(Handle) /\ WF_systemVars(Restart) /\ WF_systemVars(Age)

FairSystemSpec == SystemSpec /\ SystemFairness

-----------------------------------------------------------------------------
(* Correctness.                                                            *)

\* A job becomes succeeded only when the handler of the attempt that holds its
\* lease at that moment has returned nil: not by a worker that was too slow,
\* and not by an acknowledgement that crossed a reclaim.
SucceededMeansHandled ==
  [][\A j \in Ids : rows[j].state # "succeeded" /\ rows'[j].state = "succeeded" =>
       rows[j].token \in handled']_systemVars

\* A worker that looks for its next job has left no attempt behind: the last
\* one it handled is settled at the database, whatever the answers were.
SettledBeforeNext ==
  pc \in {"loop", "claiming", "waiting"} /\ job # NoJob =>
    rows[job.id].token # job.row.token

\* With a configuration that validate accepts, neither side ever refuses the
\* other: no Claim, Heartbeat, Complete or Fail of the worker is answered with
\* ErrInvalid, no claimed job and no retry policy makes Run return it.
NeverInvalid ==
  validate(config) => "ErrInvalid" \notin ans.err \union result.err

\* Every job ends, succeeded, dead or canceled, though workers crash, are shut
\* down after a handler has succeeded, or lose every acknowledgement.
JobFinishes == \A j \in Ids : rows[j].state \notin Terminal ~> rows[j].state \in Terminal
=============================================================================
