------------------------------- MODULE Worker -------------------------------
(***************************************************************************)
(* Worker.Run against any Store: the goroutine that claims, handles and    *)
(* acknowledges one job at a time, the heartbeat goroutine of the current  *)
(* attempt, the handler, and the two contexts.                             *)
(*                                                                         *)
(* An error is the set of identities errors.Is finds in it; nil is {}.  A  *)
(* Store may join any identities into one error, and answers whenever it   *)
(* likes.  Between two steps of one goroutine the others may take any.     *)
(***************************************************************************)
EXTENDS WorkerConfig

CONSTANTS
  StoreJobs,         \* the jobs a Store returns, [id, row], valid or not
  Queue, WorkerID    \* the worker's own queue and identity

NoJob == [id |-> NULL, row |-> NoRow]

ASSUME WorkerAssumption ==
  /\ StoreJobs \subseteq [id : Ids \union {NULL}, row : Row]
  /\ WorkerID \in Workers

VARIABLES
  config,            \* the worker's fields
  pc,                \* where Run is
  ctx,               \* Run's context: "live", or the error it ended with
  cause,             \* why the attempt's context ended, "none" before
  stop,              \* stopHeartbeat is closed
  job,               \* the claimed job
  hb,                \* where the heartbeat goroutine is, "none" without one
  hbErr,             \* what heartbeat returns
  outcome,           \* how the handler ended
  interrupted,       \* history: its context had ended before it did
  failure,           \* what Fail is called with
  doubt,             \* history: the operation whose commit is unknown, its lease
  result             \* what Run returned

attemptVars == <<cause, stop, job, outcome, interrupted, failure>>
hbVars      == <<hb, hbErr>>
vars        == <<config, pc, ctx, attemptVars, hbVars, doubt, result>>

-----------------------------------------------------------------------------
(* Errors.                                                                 *)

Unknown == "ErrCommitOutcomeUnknown"

\* The identities Worker tells apart, and one for all the others.
Identities == {Unknown, "ErrNoJob", "ErrCanceled", "context.Canceled", "other"}

Errors == SUBSET Identities

ContextErrors == {"context.Canceled", "context.DeadlineExceeded"}

\* Handler errors: nil, an ordinary one, one marked by Permanent, a panic.
Permanent(err) == IF err = "nil" THEN "nil" ELSE "permanentError"

IsPermanent(err) == err = "permanentError"

-----------------------------------------------------------------------------
(* Run.                                                                    *)

\* A check of the claimed row that does not ask whose it is.
validateClaimedAttemptAnyOwner(claimed) == validateStoredJob(claimed.row)

validateClaimedAttempt(claimed) ==
  /\ claimed.row.queue = Queue /\ claimed.row.owner = WorkerID
  /\ claimed.id # NULL /\ validateStoredJob(claimed.row)

\* The types of Run's result.
Results == {"error", "ctx.Err()", "ErrInvalid",
            "ClaimReconciliationError", "LeaseReconciliationError"}

\* The types that carry a job or a lease to be reconciled.
Reconciliations == {"ClaimReconciliationError", "LeaseReconciliationError"}

NoDoubt == [op |-> "none", lease |-> NULL]

\* Run goes on at next or, if next is a result, returns it with err and the
\* lease, if it has a place for it.
Proceed(next, err, lease) ==
  /\ pc' = IF next \in Results THEN "returned" ELSE next
  /\ result' =
       IF next \notin Results THEN result
       ELSE [type |-> next,
             lease |-> IF next \in Reconciliations THEN lease ELSE NULL,
             err |-> CASE next = "ctx.Err()"  -> {ctx}
                       [] next = "ErrInvalid" -> {"ErrInvalid"}
                       [] OTHER               -> err]

Start ==
  /\ pc = "start"
  /\ Proceed(IF validate(config) THEN "loop" ELSE "ErrInvalid", {}, NULL)
  /\ UNCHANGED <<config, ctx, attemptVars, hbVars, doubt>>

\* A loop that never looks at its context.
CheckContextOmitted ==
  /\ pc = "loop"
  /\ Proceed("claiming", {}, NULL)
  /\ UNCHANGED <<config, ctx, attemptVars, hbVars, doubt>>

CheckContext ==
  /\ pc = "loop"
  /\ Proceed(IF ctx = "live" THEN "claiming" ELSE "ctx.Err()", {}, NULL)
  /\ UNCHANGED <<config, ctx, attemptVars, hbVars, doubt>>

afterClaim(claimed, err) ==
  CASE Unknown \in err /\ claimed.id # NULL -> "ClaimReconciliationError"
    [] Unknown \in err /\ claimed.id = NULL -> "error"
    [] Unknown \notin err /\ "ErrNoJob" \in err -> "waiting"
    [] err # {} /\ {Unknown, "ErrNoJob"} \intersect err = {} -> "error"
    [] err = {} /\ validateClaimedAttempt(claimed) -> "handling"
    [] OTHER -> "ErrInvalid"

\* Claim answers.  A good job starts an attempt: its context, a child of ctx,
\* its channels and its heartbeat goroutine.
ClaimReturns(claimed, err) ==
  LET next == afterClaim(claimed, err) IN
  /\ pc = "claiming"
  /\ Proceed(next, err, claimed.row.token)
  /\ doubt' = IF Unknown \notin err THEN doubt
              ELSE [op |-> "Claim",
                    lease |-> IF claimed.id = NULL THEN NULL ELSE claimed.row.token]
  /\ \/ /\ next = "handling"
        /\ job' = claimed
        /\ cause' = IF ctx = "live" THEN "none" ELSE "parent"
        /\ stop' = FALSE
        /\ hb' = "select" /\ hbErr' = {}
        /\ UNCHANGED <<outcome, interrupted, failure>>
     \/ next # "handling" /\ UNCHANGED <<attemptVars, hbVars>>
  /\ UNCHANGED <<config, ctx>>

\* waitContext: the context or the timer, whichever the select takes.
WaitEnds ==
  /\ pc = "waiting"
  /\ \/ ctx # "live" /\ Proceed("ctx.Err()", {}, NULL)
     \/ Proceed("loop", {}, NULL)
  /\ UNCHANGED <<config, ctx, attemptVars, hbVars, doubt>>

-----------------------------------------------------------------------------
(* runAttempt.                                                             *)

Outcomes ==
  [how : {"return"}, err : {"nil", "error", Permanent("nil"), Permanent("error")}]
    \union [how : {"panic"}, err : {"nil"}]

\* The deferred function without its completion flag: panic(nil) leaves the
\* named result nil.
callHandlerUnflagged(o) == o.err

callHandler(o) == IF o.how = "return" THEN o.err ELSE "errHandlerPanicked"

handlerErr == callHandler(outcome)

\* callHandler returns.
HandlerReturns(o) ==
  /\ pc = "handling"
  /\ outcome' = o
  /\ interrupted' = (cause # "none")
  /\ Proceed("handled", {}, NULL)
  /\ UNCHANGED <<config, ctx, cause, stop, job, failure, hbVars, doubt>>

\* The handler ends the goroutine with runtime.Goexit: deferred functions run,
\* runAttempt does not go on.
HandlerExits ==
  /\ pc = "handling"
  /\ pc' = "exited"
  /\ UNCHANGED <<config, ctx, attemptVars, hbVars, doubt, result>>

\* close(stopHeartbeat)
StopHeartbeat ==
  /\ pc = "handled"
  /\ stop' = TRUE
  /\ Proceed("stopped", {}, NULL)
  /\ UNCHANGED <<config, ctx, cause, job, outcome, interrupted, failure, hbVars, doubt>>

\* Only the first cancellation of a context sets its cause.
Canceled(why) == IF cause = "none" THEN why ELSE cause

\* cancel(errHandlerFinished)
CancelAttempt ==
  /\ pc = "stopped"
  /\ cause' = Canceled("finished")
  /\ Proceed("joining", {}, NULL)
  /\ UNCHANGED <<config, ctx, stop, job, outcome, interrupted, failure, hbVars, doubt>>

\* The heartbeat stopped because the handler was done, not because it failed.
stoppedAfterHandler == "context.Canceled" \in hbErr /\ cause = "finished"

Attempts == job.row.attempts

acknowledge ==
  CASE handlerErr = "nil" -> "completing"
    [] handlerErr # "nil" /\ ~IsPermanent(handlerErr)
         /\ ~policyValid(config.retry, Attempts) -> "ErrInvalid"
    [] OTHER -> "failing"

\* A decision that asks for the context before the unknown outcome.
afterJoinContextFirst ==
  CASE ctx # "live" -> "ctx.Err()"
    [] ctx = "live" /\ Unknown \in hbErr -> "LeaseReconciliationError"
    [] ctx = "live" /\ Unknown \notin hbErr /\ hbErr # {} /\ ~stoppedAfterHandler ->
         IF "ErrCanceled" \in hbErr THEN "loop" ELSE "error"
    [] OTHER -> acknowledge

\* A decision that does not look whether the worker is being shut down.
afterJoinIgnoringShutdown ==
  CASE Unknown \in hbErr -> "LeaseReconciliationError"
    [] Unknown \notin hbErr /\ hbErr # {} /\ "context.Canceled" \notin hbErr ->
         IF "ErrCanceled" \in hbErr THEN "loop" ELSE "error"
    [] OTHER -> acknowledge

afterJoin ==
  CASE Unknown \in hbErr -> "LeaseReconciliationError"
    [] Unknown \notin hbErr /\ ctx # "live" -> "ctx.Err()"
    [] Unknown \notin hbErr /\ ctx = "live" /\ hbErr # {} /\ ~stoppedAfterHandler ->
         IF "ErrCanceled" \in hbErr THEN "loop" ELSE "error"
    [] OTHER -> acknowledge

Failure ==
  [permanent |-> IsPermanent(handlerErr),
   delay |-> IF IsPermanent(handlerErr) THEN 0 ELSE Delay(config.retry, Attempts)]

\* The acknowledgement without waiting for the heartbeat's result.
JoinNobody ==
  /\ pc = "joining"
  /\ Proceed(afterJoin, hbErr, job.row.token)
  /\ failure' = IF afterJoin = "failing" THEN Failure ELSE failure
  /\ UNCHANGED <<config, ctx, cause, stop, job, outcome, interrupted, hbVars, doubt>>

\* <-heartbeatResult, and the decision what to acknowledge, if anything.
Join ==
  /\ pc = "joining" /\ hb = "sent"
  /\ hb' = "none"
  /\ Proceed(afterJoin, hbErr, job.row.token)
  /\ failure' = IF afterJoin = "failing" THEN Failure ELSE failure
  /\ UNCHANGED <<config, ctx, cause, stop, job, outcome, interrupted, hbErr, doubt>>

\* An unknown outcome that also says the job is canceled taken for the latter.
afterAckCanceledFirst(err) ==
  CASE "ErrCanceled" \in err \/ err = {} -> "loop"
    [] Unknown \in err /\ "ErrCanceled" \notin err -> "LeaseReconciliationError"
    [] OTHER -> "error"

\* Every error that leaves no doubt taken for a settled attempt.
afterAckTolerant(err) ==
  CASE Unknown \in err -> "LeaseReconciliationError"
    [] OTHER -> "loop"

afterAck(err) ==
  CASE Unknown \in err -> "LeaseReconciliationError"
    [] Unknown \notin err /\ ("ErrCanceled" \in err \/ err = {}) -> "loop"
    [] OTHER -> "error"

\* Complete or Fail answers.
AckReturns(err) ==
  /\ pc \in {"completing", "failing"}
  /\ Proceed(afterAck(err), err, job.row.token)
  /\ doubt' = IF Unknown \notin err THEN doubt
              ELSE [op |-> pc, lease |-> job.row.token]
  /\ UNCHANGED <<config, ctx, attemptVars, hbVars>>

-----------------------------------------------------------------------------
(* The heartbeat goroutine.  Several cases of its select may be ready.     *)

HeartbeatStops ==
  /\ hb = "select" /\ stop
  /\ hb' = "sending" /\ hbErr' = {}
  /\ UNCHANGED <<config, pc, ctx, attemptVars, doubt, result>>

\* context.Cause(ctx) returned in the place of ctx.Err().
HeartbeatContextDoneWithCause ==
  /\ hb = "select" /\ cause # "none"
  /\ hb' = "failed"
  /\ hbErr' = {cause}
  /\ UNCHANGED <<config, pc, ctx, attemptVars, doubt, result>>

HeartbeatContextDone ==
  /\ hb = "select" /\ cause # "none"
  /\ hb' = "failed"
  /\ hbErr' = IF cause = "parent" THEN {ctx} ELSE {"context.Canceled"}
  /\ UNCHANGED <<config, pc, ctx, attemptVars, doubt, result>>

HeartbeatTicks ==
  /\ hb = "select"
  /\ hb' = "calling"
  /\ UNCHANGED <<config, pc, ctx, attemptVars, hbErr, doubt, result>>

\* Heartbeat answers.
HeartbeatReturns(err) ==
  /\ hb = "calling"
  /\ hb' = IF err = {} THEN "select" ELSE "failed"
  /\ hbErr' = err
  /\ doubt' = IF Unknown \notin err THEN doubt
              ELSE [op |-> "heartbeat", lease |-> job.row.token]
  /\ UNCHANGED <<config, pc, ctx, attemptVars, result>>

\* A failed renewal the handler is not told about.
HeartbeatSilent ==
  /\ hb = "failed"
  /\ hb' = "sending"
  /\ UNCHANGED <<config, pc, ctx, attemptVars, hbErr, doubt, result>>

\* cancel(err)
HeartbeatCancels ==
  /\ hb = "failed"
  /\ hb' = "sending"
  /\ cause' = Canceled("heartbeat")
  /\ UNCHANGED <<config, pc, ctx, stop, job, outcome, interrupted, failure,
                 hbErr, doubt, result>>

\* heartbeatResult <- err; the buffer of one never blocks.
HeartbeatSends ==
  /\ hb = "sending"
  /\ hb' = "sent"
  /\ UNCHANGED <<config, pc, ctx, attemptVars, hbErr, doubt, result>>

-----------------------------------------------------------------------------
(* The caller's context.                                                   *)

Shutdown ==
  /\ ctx = "live" /\ pc # "returned"
  /\ ctx' \in ContextErrors
  /\ UNCHANGED <<config, pc, attemptVars, hbVars, doubt, result>>

\* The end of ctx reaches the attempt's context, in its own time when ctx is
\* not one of package context's own.
Propagate ==
  /\ ctx # "live" /\ hb # "none" /\ cause = "none"
  /\ cause' = "parent"
  /\ UNCHANGED <<config, pc, ctx, stop, job, outcome, interrupted, failure,
                 hbVars, doubt, result>>

-----------------------------------------------------------------------------
Init ==
  /\ config \in Configs
  /\ pc = "start" /\ ctx = "live"
  /\ cause = "none" /\ stop = FALSE
  /\ job = NoJob
  /\ outcome = [how |-> "return", err |-> "nil"] /\ interrupted = FALSE
  /\ failure = [permanent |-> FALSE, delay |-> 0]
  /\ hb = "none" /\ hbErr = {}
  /\ doubt = NoDoubt
  /\ result = [type |-> "none", err |-> {}, lease |-> NULL]

RunStep == \/ Start \/ CheckContext \/ WaitEnds \/ StopHeartbeat
           \/ CancelAttempt \/ Join

HeartbeatStep == HeartbeatCancels \/ HeartbeatSends

HandlerStep == (\E o \in Outcomes : HandlerReturns(o)) \/ HandlerExits

\* What does not depend on the Store.
LocalStep == \/ RunStep \/ HeartbeatStep \/ HeartbeatStops
             \/ HeartbeatContextDone \/ HeartbeatTicks \/ HandlerStep
             \/ Shutdown \/ Propagate

StoreStep ==
  \/ \E claimed \in StoreJobs \union {NoJob}, err \in Errors : ClaimReturns(claimed, err)
  \/ \E err \in Errors : AckReturns(err)
  \/ \E err \in Errors : HeartbeatReturns(err)

Next == LocalStep \/ StoreStep

Spec == Init /\ [][Next]_vars

\* The goroutines run; every call of the Store answers; a select that is asked
\* again and again takes each ready case at some time; the handler honours its
\* context.  Nobody is forced to shut the worker down, and a handler that is
\* not canceled may run for ever.
Fairness ==
  /\ WF_vars(RunStep) /\ WF_vars(HeartbeatStep) /\ WF_vars(Propagate)
  /\ SF_vars(HeartbeatStops) /\ SF_vars(HeartbeatContextDone)
  /\ WF_vars(pc = "claiming" /\ StoreStep)
  /\ WF_vars(pc \in {"completing", "failing"} /\ StoreStep)
  /\ WF_vars(hb = "calling" /\ StoreStep)
  /\ WF_vars(cause # "none" /\ HandlerStep)

FairSpec == Spec /\ Fairness

-----------------------------------------------------------------------------
(* Correctness.                                                            *)

InAttempt == {"handling", "handled", "stopped", "joining"}

Places == {"start", "loop", "claiming", "waiting", "completing", "failing",
           "returned", "exited"} \union InAttempt

\* Every variable stays in its type: in particular what the heartbeat returns
\* is an error of the Store or of package context.
TypeOK ==
  /\ config \in Configs /\ pc \in Places
  /\ ctx \in {"live"} \union ContextErrors
  /\ cause \in {"none", "parent", "heartbeat", "finished"}
  /\ stop \in BOOLEAN /\ interrupted \in BOOLEAN
  /\ job \in StoreJobs \union {NoJob}
  /\ hb \in {"none", "select", "calling", "failed", "sending", "sent"}
  /\ hbErr \subseteq Identities \union ContextErrors
  /\ outcome \in Outcomes
  /\ doubt \in [op : {"none", "Claim", "heartbeat", "completing", "failing"},
               lease : Tokens \union {NULL}]
  /\ result \in [type : Results \union {"none"},
                 err : SUBSET (Identities \union ContextErrors \union {"ErrInvalid"}),
                 lease : Tokens \union {NULL}]

\* The heartbeat goroutine lives inside its attempt: it has been joined before
\* an acknowledgement is sent, before the next job is claimed and before Run
\* returns, so no renewal races an acknowledgement and none outlives Run.
HeartbeatJoined == hb # "none" => pc \in InAttempt \union {"exited"}

\* An unknown commit outcome is what Run returns, as a reconciliation error
\* with the lease in question where there is one, whatever else the same error
\* says and whatever shutdown or handler do meanwhile.
UnknownSurfaces ==
  pc = "returned" =>
    /\ (doubt # NoDoubt) = (Unknown \in result.err)
    /\ doubt # NoDoubt => result.lease = doubt.lease
    /\ doubt.op \in {"heartbeat", "completing", "failing"} =>
         result.type = "LeaseReconciliationError" /\ result.lease # NULL

\* Once an outcome is unknown nothing more is asked of the Store: no retry, no
\* poll, no acknowledgement, no renewal; and no handler is started.
NothingAfterDoubt ==
  [][doubt # NoDoubt =>
       /\ pc' \in {"claiming", "completing", "failing", "handling"} => pc' = pc
       /\ hb' = "calling" => hb = "calling"]_vars

\* An attempt that shutdown or a failed renewal has cut short is not
\* acknowledged, neither as a success nor as a failure of the handler.
InterruptedNotAcknowledged ==
  pc \in {"completing", "failing"} => ~interrupted

\* Complete follows a handler that returned nil; a panic and any other error
\* is a Fail, one the Store accepts, permanent exactly when it was marked.
AcknowledgesWhatHappened ==
  /\ pc = "completing" => outcome = [how |-> "return", err |-> "nil"]
  /\ pc = "failing" =>
       /\ outcome.err # "nil" \/ outcome.how = "panic"
       /\ failure.permanent = (outcome.err = "permanentError")
       /\ failure.delay % Microsecond = 0
       /\ validateFailure(failure.permanent, failure.delay \div Microsecond)

\* The handler and every acknowledgement have a lease: the claimed job is a
\* running attempt of this worker's queue, under its own name.
HandlesOwnLease ==
  pc \in InAttempt \union {"completing", "failing"} =>
    /\ job.row.state = "running" /\ job.row.token # NULL
    /\ job.row.queue = Queue /\ job.row.owner = WorkerID
    /\ job.row.attempts >= 1

\* Shutdown ends Run, if the handler honours its context.
ShutdownReturns == ctx # "live" ~> pc \in {"returned", "exited"}

\* A renewal that failed ends the attempt, though the handler was not done.
LossEndsAttempt == hb = "failed" ~> pc \notin InAttempt

-----------------------------------------------------------------------------
(* What the documentation says and the code does not do.                   *)

\* docs/architecture.md: "A heartbeat goroutine is bounded to the active
\* handler."
HeartbeatBounded == hb # "none" => pc \in InAttempt
=============================================================================
