---------------------------- MODULE WorkerProofs ----------------------------
(***************************************************************************)
(* The safety of Worker for every Store, every set of configurations and   *)
(* every set of jobs a Store may return.                                   *)
(*                                                                         *)
(* The inductive invariant adds to the properties themselves               *)
(*   - what the heartbeat's result says in each of its places, and why the *)
(*     attempt's context ended (CauseKnown), and                           *)
(*   - where an unknown outcome can be known: nowhere in Run's own code,   *)
(*     and inside an attempt only as the heartbeat's result (DoubtKnown),  *)
(*     and                                                                 *)
(*   - that Run goes past its first step with an accepted configuration    *)
(*     only (ConfigAccepted), on which the delays it sends rest.           *)
(***************************************************************************)
EXTENDS Worker, RetryPolicyProofs

Acknowledging == {"completing", "failing"}

\* The handler is done and its heartbeat has not been joined.
Unjoined == {"handled", "stopped", "joining"}

CauseKnown ==
  /\ pc \in InAttempt => hb # "none"
  /\ hb \in {"select", "calling"} => hbErr = {}
  /\ hb = "failed" => hbErr # {}
  /\ cause = "heartbeat" /\ hb # "none" => hb \in {"sending", "sent"} /\ hbErr # {}
  /\ cause = "finished" /\ hb # "none" => pc = "joining"
  /\ pc \in Unjoined /\ interrupted => cause \in {"parent", "heartbeat"}

DoubtKnown ==
  /\ pc \in {"start", "loop", "claiming", "waiting"} \union Acknowledging => doubt = NoDoubt
  /\ pc \in InAttempt \union {"exited"} =>
       /\ Unknown \notin hbErr => doubt = NoDoubt
       /\ Unknown \in hbErr => doubt = [op |-> "heartbeat", lease |-> job.row.token]

\* Run goes past its first step under an accepted configuration only.
ConfigAccepted == pc \notin {"start", "returned"} => validate(config)

\* ctx never comes back to life.
ParentEnded == cause = "parent" => ctx # "live"

IInv ==
  /\ TypeOK /\ ParentEnded /\ HeartbeatJoined /\ HandlesOwnLease /\ CauseKnown
  /\ DoubtKnown /\ UnknownSurfaces /\ InterruptedNotAcknowledged
  /\ ConfigAccepted /\ AcknowledgesWhatHappened

-----------------------------------------------------------------------------
(* The steps, one by one.                                                  *)

LEMMA StepCases ==
  ASSUME [Next]_vars
  PROVE  \/ Start \/ CheckContext \/ WaitEnds
         \/ StopHeartbeat \/ CancelAttempt \/ Join
         \/ HeartbeatCancels \/ HeartbeatSends
         \/ HeartbeatStops \/ HeartbeatContextDone \/ HeartbeatTicks
         \/ (\E o \in Outcomes : HandlerReturns(o)) \/ HandlerExits
         \/ Shutdown \/ Propagate
         \/ (\E claimed \in StoreJobs \union {NoJob}, err \in Errors :
               ClaimReturns(claimed, err))
         \/ (\E err \in Errors : AckReturns(err))
         \/ (\E err \in Errors : HeartbeatReturns(err))
         \/ UNCHANGED vars
BY DEF Next, LocalStep, StoreStep, RunStep, HeartbeatStep, HandlerStep

-----------------------------------------------------------------------------
(* Where Run may go on.                                                    *)

Result == [type : Results \union {"none"},
           err : SUBSET (Identities \union ContextErrors \union {"ErrInvalid"}),
           lease : Tokens \union {NULL}]

LEMMA ProceedTyped ==
  ASSUME TypeOK, NEW next \in Places \union Results,
         NEW err \in SUBSET (Identities \union ContextErrors),
         NEW lease \in Tokens \union {NULL},
         next = "ctx.Err()" => ctx # "live",
         Proceed(next, err, lease)
  PROVE  pc' \in Places /\ result' \in Result
<1>1. CASE next \notin Results
  <2>1. pc' = next /\ result' = result
    BY <1>1 DEF Proceed
  <2> QED
    BY <1>1, <2>1 DEF TypeOK, Result
<1>2. CASE next \in Results
  <2> DEFINE l == IF next \in Reconciliations THEN lease ELSE NULL
             e == CASE next = "ctx.Err()"  -> {ctx}
                    [] next = "ErrInvalid" -> {"ErrInvalid"}
                    [] OTHER               -> err
  <2>1. pc' = "returned" /\ result' = [type |-> next, lease |-> l, err |-> e]
    BY <1>2 DEF Proceed
  <2>2. l \in Tokens \union {NULL}
    OBVIOUS
  <2>3. ctx # "live" => ctx \in ContextErrors
    BY DEF TypeOK
  <2>4. e \in SUBSET (Identities \union ContextErrors \union {"ErrInvalid"})
    BY <2>3
  <2> HIDE DEF l, e
  <2>5. result' \in Result
    BY <1>2, <2>1, <2>2, <2>4 DEF Result
  <2> QED
    BY <2>1, <2>5 DEF Places
<1> QED
  BY <1>1, <1>2

LEMMA AfterClaim ==
  ASSUME NEW claimed, NEW err
  PROVE  /\ afterClaim(claimed, err) \in
              {"waiting", "handling", "error", "ErrInvalid", "ClaimReconciliationError"}
         /\ afterClaim(claimed, err) = "handling" =>
              err = {} /\ validateClaimedAttempt(claimed)
         /\ Unknown \in err =>
              afterClaim(claimed, err) =
                IF claimed.id = NULL THEN "error" ELSE "ClaimReconciliationError"
         /\ Unknown \notin err => afterClaim(claimed, err) # "ClaimReconciliationError"
BY DEF afterClaim

LEMMA AfterJoin ==
  /\ afterJoin \in {"completing", "failing", "loop", "error", "ErrInvalid",
                    "ctx.Err()", "LeaseReconciliationError"}
  /\ (afterJoin = "LeaseReconciliationError") = (Unknown \in hbErr)
  /\ afterJoin = "ctx.Err()" => ctx # "live"
  /\ afterJoin \in Acknowledging =>
       ctx = "live" /\ (hbErr = {} \/ cause = "finished")
BY DEF afterJoin, acknowledge, Acknowledging, stoppedAfterHandler

LEMMA AfterAck ==
  ASSUME NEW err
  PROVE  /\ afterAck(err) \in {"loop", "error", "LeaseReconciliationError"}
         /\ (afterAck(err) = "LeaseReconciliationError") = (Unknown \in err)
BY DEF afterAck

-----------------------------------------------------------------------------
(* Types.                                                                  *)

LEMMA TokenTyped ==
  ASSUME NEW claimed \in StoreJobs \union {NoJob}
  PROVE  /\ claimed.row.token \in Tokens \union {NULL}
         /\ claimed.row.owner \in Workers \union {NULL}
         /\ claimed.row.attempts \in Nat
         /\ claimed.row.state \in RowState
BY WorkerAssumption DEF NoJob, NoRow, Row, RowState

LEMMA ParentStep == ParentEnded /\ [Next]_vars => ParentEnded'
<1> SUFFICES ASSUME ParentEnded, [Next]_vars PROVE ParentEnded'
  OBVIOUS
<1> USE DEF ParentEnded, attemptVars, hbVars
<1>1. CASE Start \/ CheckContext \/ WaitEnds
  BY <1>1 DEF Start, CheckContext, WaitEnds
<1>2. CASE StopHeartbeat \/ CancelAttempt \/ Join
  BY <1>2 DEF StopHeartbeat, CancelAttempt, Join, Canceled
<1>3. CASE HeartbeatCancels \/ HeartbeatSends
  BY <1>3 DEF HeartbeatCancels, HeartbeatSends, Canceled
<1>4. CASE HeartbeatStops \/ HeartbeatContextDone \/ HeartbeatTicks
  BY <1>4 DEF HeartbeatStops, HeartbeatContextDone, HeartbeatTicks
<1>5. CASE (\E o \in Outcomes : HandlerReturns(o)) \/ HandlerExits
  BY <1>5 DEF HandlerReturns, HandlerExits
<1>6. CASE Shutdown \/ Propagate
  BY <1>6 DEF Shutdown, Propagate, ContextErrors
<1>7. ASSUME NEW claimed, NEW err, ClaimReturns(claimed, err) PROVE ParentEnded'
  BY <1>7 DEF ClaimReturns
<1>8. ASSUME NEW err, AckReturns(err) \/ HeartbeatReturns(err) PROVE ParentEnded'
  BY <1>8 DEF AckReturns, HeartbeatReturns
<1>9. CASE UNCHANGED vars
  BY <1>9 DEF vars
<1> QED
  BY <1>1, <1>2, <1>3, <1>4, <1>5, <1>6, <1>7, <1>8, <1>9, StepCases

LEMMA TypeInit == Init => TypeOK /\ ParentEnded
<1> SUFFICES ASSUME Init PROVE TypeOK /\ ParentEnded
  OBVIOUS
<1>1. result \in Result /\ doubt \in [op : {"none"}, lease : {NULL}]
  BY DEF Init, Result, NoDoubt
<1>2. outcome \in Outcomes
  BY DEF Init, Outcomes
<1> QED
  BY <1>1, <1>2 DEF Init, TypeOK, Result, Places, ParentEnded

LEMMA TypeStep == TypeOK /\ ParentEnded /\ [Next]_vars => TypeOK'
<1> SUFFICES ASSUME TypeOK, ParentEnded, [Next]_vars PROVE TypeOK'
  OBVIOUS
<1> USE DEF attemptVars, hbVars
<1>0. {} \in SUBSET (Identities \union ContextErrors) /\ NULL \in Tokens \union {NULL}
  OBVIOUS
<1>a. {"loop", "claiming", "waiting", "handling", "handled", "stopped", "joining",
       "completing", "failing", "exited"} \subseteq Places
  BY DEF Places, InAttempt
<1>1. CASE Start
  <2>1. pc' \in Places /\ result' \in Result
    BY <1>1, <1>0, <1>a, ProceedTyped DEF Start, Results
  <2> QED
    BY <1>1, <2>1 DEF Start, TypeOK, Result
<1>2. CASE CheckContext
  <2>1. pc' \in Places /\ result' \in Result
    BY <1>2, <1>0, <1>a, ProceedTyped DEF CheckContext, Results
  <2> QED
    BY <1>2, <2>1 DEF CheckContext, TypeOK, Result
<1>3. CASE WaitEnds
  <2>1. pc' \in Places /\ result' \in Result
    BY <1>3, <1>0, <1>a, ProceedTyped DEF WaitEnds, Results
  <2> QED
    BY <1>3, <2>1 DEF WaitEnds, TypeOK, Result
<1>4. CASE StopHeartbeat
  <2>1. pc' \in Places /\ result' \in Result
    BY <1>4, <1>0, <1>a, ProceedTyped DEF StopHeartbeat, Results
  <2> QED
    BY <1>4, <2>1 DEF StopHeartbeat, TypeOK, Result
<1>5. CASE CancelAttempt
  <2>1. pc' \in Places /\ result' \in Result
    BY <1>5, <1>0, <1>a, ProceedTyped DEF CancelAttempt, Results
  <2> QED
    BY <1>5, <2>1 DEF CancelAttempt, Canceled, TypeOK, Result
<1>6. CASE Join
  <2>1. afterJoin \in Places \union Results
    BY <1>a, AfterJoin DEF Results
  <2>2. job.row.token \in Tokens \union {NULL}
    BY TokenTyped DEF TypeOK
  <2>3. hbErr \in SUBSET (Identities \union ContextErrors)
    BY DEF TypeOK
  <2>4. pc' \in Places /\ result' \in Result
    BY <1>6, <2>1, <2>2, <2>3, AfterJoin, ProceedTyped DEF Join
  <2> QED
    BY <1>6, <2>4 DEF Join, TypeOK, Result
<1>7. CASE HeartbeatCancels
  BY <1>7 DEF HeartbeatCancels, Canceled, TypeOK
<1>8. CASE HeartbeatSends
  BY <1>8 DEF HeartbeatSends, TypeOK
<1>9. CASE HeartbeatStops
  BY <1>9 DEF HeartbeatStops, TypeOK
<1>10. CASE HeartbeatContextDone
  <2>1. hbErr' \subseteq Identities \union ContextErrors
    <3>1. CASE cause = "parent"
      BY <1>10, <3>1 DEF HeartbeatContextDone, TypeOK, ParentEnded
    <3>2. CASE cause # "parent"
      BY <1>10, <3>2 DEF HeartbeatContextDone, ContextErrors
    <3> QED
      BY <3>1, <3>2
  <2> QED
    BY <1>10, <2>1 DEF HeartbeatContextDone, TypeOK
<1>11. CASE HeartbeatTicks
  BY <1>11 DEF HeartbeatTicks, TypeOK
<1>12. ASSUME NEW o \in Outcomes, HandlerReturns(o) PROVE TypeOK'
  <2>1. pc' \in Places /\ result' \in Result
    BY <1>12, <1>0, <1>a, ProceedTyped DEF HandlerReturns, Results
  <2>2. interrupted' \in BOOLEAN
    BY <1>12, Zenon DEF HandlerReturns
  <2> QED
    BY <1>12, <2>1, <2>2 DEF HandlerReturns, TypeOK, Result
<1>13. CASE HandlerExits
  BY <1>13, <1>a DEF HandlerExits, TypeOK
<1>14. CASE Shutdown
  BY <1>14 DEF Shutdown, TypeOK
<1>15. CASE Propagate
  BY <1>15 DEF Propagate, TypeOK
<1>16. ASSUME NEW claimed \in StoreJobs \union {NoJob}, NEW err \in Errors,
              ClaimReturns(claimed, err)
       PROVE  TypeOK'
  <2>1. afterClaim(claimed, err) \in Places \union Results
    BY <1>a, AfterClaim DEF Results
  <2>2. claimed.row.token \in Tokens \union {NULL}
    BY TokenTyped
  <2>3. pc' \in Places /\ result' \in Result
    BY <1>16, <2>1, <2>2, AfterClaim, ProceedTyped DEF ClaimReturns, Errors
  <2>4. doubt' \in [op : {"none", "Claim", "heartbeat", "completing", "failing"},
                   lease : Tokens \union {NULL}]
    BY <1>16, <2>2 DEF ClaimReturns, TypeOK
  <2>5. CASE afterClaim(claimed, err) = "handling"
    BY <1>16, <2>3, <2>4, <2>5 DEF ClaimReturns, TypeOK, Result
  <2>6. CASE afterClaim(claimed, err) # "handling"
    BY <1>16, <2>3, <2>4, <2>6 DEF ClaimReturns, TypeOK, Result
  <2> QED
    BY <2>5, <2>6
<1>17. ASSUME NEW err \in Errors, AckReturns(err) PROVE TypeOK'
  <2>1. afterAck(err) \in Places \union Results
    BY <1>a, AfterAck DEF Results
  <2>2. job.row.token \in Tokens \union {NULL}
    BY TokenTyped DEF TypeOK
  <2>3. pc' \in Places /\ result' \in Result
    BY <1>17, <2>1, <2>2, AfterAck, ProceedTyped DEF AckReturns, Errors
  <2>4. doubt' \in [op : {"none", "Claim", "heartbeat", "completing", "failing"},
                   lease : Tokens \union {NULL}]
    BY <1>17, <2>2 DEF AckReturns, TypeOK
  <2> QED
    BY <1>17, <2>3, <2>4 DEF AckReturns, TypeOK, Result
<1>18. ASSUME NEW err \in Errors, HeartbeatReturns(err) PROVE TypeOK'
  <2>1. job.row.token \in Tokens \union {NULL}
    BY TokenTyped DEF TypeOK
  <2>2. doubt' \in [op : {"none", "Claim", "heartbeat", "completing", "failing"},
                   lease : Tokens \union {NULL}]
    BY <1>18, <2>1 DEF HeartbeatReturns, TypeOK
  <2>3. err \subseteq Identities \union ContextErrors
    BY DEF Errors
  <2> QED
    BY <1>18, <2>2, <2>3 DEF HeartbeatReturns, TypeOK
<1>19. CASE UNCHANGED vars
  BY <1>19 DEF vars, TypeOK
<1> QED
  BY <1>1, <1>2, <1>3, <1>4, <1>5, <1>6, <1>7, <1>8, <1>9, <1>10, <1>11, <1>12,
     <1>13, <1>14, <1>15, <1>16, <1>17, <1>18, <1>19, StepCases

\* Every variable of Worker.Run keeps its type against any Store.
THEOREM TypeCorrect == Spec => []TypeOK
BY TypeInit, ParentStep, TypeStep, PTL DEF Spec

-----------------------------------------------------------------------------
(* The attempt.                                                            *)

LEMMA JoinedStep == HeartbeatJoined /\ [Next]_vars => HeartbeatJoined'
<1> SUFFICES ASSUME HeartbeatJoined, [Next]_vars PROVE HeartbeatJoined'
  OBVIOUS
<1> USE DEF attemptVars, hbVars
<1>1. CASE Start
  BY <1>1 DEF Start, Proceed, Results, HeartbeatJoined, InAttempt
<1>2. CASE CheckContext
  BY <1>2 DEF CheckContext, Proceed, Results, HeartbeatJoined, InAttempt
<1>3. CASE WaitEnds
  BY <1>3 DEF WaitEnds, Proceed, Results, HeartbeatJoined, InAttempt
<1>4. CASE StopHeartbeat
  BY <1>4 DEF StopHeartbeat, Proceed, Results, HeartbeatJoined, InAttempt
<1>5. CASE CancelAttempt
  BY <1>5 DEF CancelAttempt, Proceed, Results, HeartbeatJoined, InAttempt
<1>6. CASE Join
  BY <1>6, AfterJoin DEF Join, Proceed, Results, HeartbeatJoined, InAttempt
<1>7. CASE HeartbeatCancels
  BY <1>7 DEF HeartbeatCancels, HeartbeatJoined, InAttempt
<1>8. CASE HeartbeatSends
  BY <1>8 DEF HeartbeatSends, HeartbeatJoined, InAttempt
<1>9. CASE HeartbeatStops
  BY <1>9 DEF HeartbeatStops, HeartbeatJoined, InAttempt
<1>10. CASE HeartbeatContextDone
  BY <1>10 DEF HeartbeatContextDone, HeartbeatJoined, InAttempt
<1>11. CASE HeartbeatTicks
  BY <1>11 DEF HeartbeatTicks, HeartbeatJoined, InAttempt
<1>12. ASSUME NEW o \in Outcomes, HandlerReturns(o) PROVE HeartbeatJoined'
  BY <1>12 DEF HandlerReturns, Proceed, Results, HeartbeatJoined, InAttempt
<1>13. CASE HandlerExits
  BY <1>13 DEF HandlerExits, HeartbeatJoined, InAttempt
<1>14. CASE Shutdown
  BY <1>14 DEF Shutdown, HeartbeatJoined, InAttempt
<1>15. CASE Propagate
  BY <1>15 DEF Propagate, HeartbeatJoined, InAttempt
<1>16. ASSUME NEW claimed \in StoreJobs \union {NoJob}, NEW err \in Errors,
              ClaimReturns(claimed, err)
       PROVE  HeartbeatJoined'
  BY <1>16, AfterClaim DEF ClaimReturns, Proceed, Results, HeartbeatJoined, InAttempt
<1>17. ASSUME NEW err \in Errors, AckReturns(err) PROVE HeartbeatJoined'
  BY <1>17, AfterAck DEF AckReturns, Proceed, Results, HeartbeatJoined, InAttempt
<1>18. ASSUME NEW err \in Errors, HeartbeatReturns(err) PROVE HeartbeatJoined'
  BY <1>18 DEF HeartbeatReturns, HeartbeatJoined, InAttempt
<1>19. CASE UNCHANGED vars
  BY <1>19 DEF vars, HeartbeatJoined, InAttempt
<1> QED
  BY <1>1, <1>2, <1>3, <1>4, <1>5, <1>6, <1>7, <1>8, <1>9, <1>10, <1>11, <1>12,
     <1>13, <1>14, <1>15, <1>16, <1>17, <1>18, <1>19, StepCases

LEMMA OwnLeaseStep == HandlesOwnLease /\ [Next]_vars => HandlesOwnLease'
<1> SUFFICES ASSUME HandlesOwnLease, [Next]_vars PROVE HandlesOwnLease'
  OBVIOUS
<1> USE DEF attemptVars, hbVars, HandlesOwnLease, InAttempt
<1>1. CASE Start
  BY <1>1 DEF Start, Proceed, Results
<1>2. CASE CheckContext
  BY <1>2 DEF CheckContext, Proceed, Results
<1>3. CASE WaitEnds
  BY <1>3 DEF WaitEnds, Proceed, Results
<1>4. CASE StopHeartbeat
  BY <1>4 DEF StopHeartbeat, Proceed, Results
<1>5. CASE CancelAttempt
  BY <1>5 DEF CancelAttempt, Proceed, Results
<1>6. CASE Join
  BY <1>6, AfterJoin DEF Join, Proceed, Results
<1>7. CASE HeartbeatCancels
  BY <1>7 DEF HeartbeatCancels
<1>8. CASE HeartbeatSends
  BY <1>8 DEF HeartbeatSends
<1>9. CASE HeartbeatStops
  BY <1>9 DEF HeartbeatStops
<1>10. CASE HeartbeatContextDone
  BY <1>10 DEF HeartbeatContextDone
<1>11. CASE HeartbeatTicks
  BY <1>11 DEF HeartbeatTicks
<1>12. ASSUME NEW o \in Outcomes, HandlerReturns(o) PROVE HandlesOwnLease'
  BY <1>12 DEF HandlerReturns, Proceed, Results
<1>13. CASE HandlerExits
  BY <1>13 DEF HandlerExits
<1>14. CASE Shutdown
  BY <1>14 DEF Shutdown
<1>15. CASE Propagate
  BY <1>15 DEF Propagate
<1>16. ASSUME NEW claimed \in StoreJobs \union {NoJob}, NEW err \in Errors,
              ClaimReturns(claimed, err)
       PROVE  HandlesOwnLease'
  <2>1. CASE afterClaim(claimed, err) = "handling"
    <3>1. validateClaimedAttempt(claimed) /\ job' = claimed
      BY <1>16, <2>1, AfterClaim DEF ClaimReturns
    <3>2. claimed.row.owner # NULL
      BY <3>1, WorkerAssumption, NullAssumption DEF validateClaimedAttempt
    <3>3. /\ claimed.row.state = "running" /\ claimed.row.token # NULL
          /\ claimed.row.attempts >= 1
      BY <3>1, <3>2, TokenTyped DEF validateClaimedAttempt, validateStoredJob, JobState
    <3> QED
      BY <3>1, <3>3 DEF validateClaimedAttempt
  <2>2. CASE afterClaim(claimed, err) # "handling"
    BY <1>16, <2>2, AfterClaim DEF ClaimReturns, Proceed, Results
  <2> QED
    BY <2>1, <2>2
<1>17. ASSUME NEW err \in Errors, AckReturns(err) PROVE HandlesOwnLease'
  BY <1>17, AfterAck DEF AckReturns, Proceed, Results
<1>18. ASSUME NEW err \in Errors, HeartbeatReturns(err) PROVE HandlesOwnLease'
  BY <1>18 DEF HeartbeatReturns
<1>19. CASE UNCHANGED vars
  BY <1>19 DEF vars
<1> QED
  BY <1>1, <1>2, <1>3, <1>4, <1>5, <1>6, <1>7, <1>8, <1>9, <1>10, <1>11, <1>12,
     <1>13, <1>14, <1>15, <1>16, <1>17, <1>18, <1>19, StepCases

LEMMA CauseStep == TypeOK /\ CauseKnown /\ HeartbeatJoined /\ [Next]_vars => CauseKnown'
<1> SUFFICES ASSUME TypeOK, CauseKnown, HeartbeatJoined, [Next]_vars PROVE CauseKnown'
  OBVIOUS
<1> USE DEF attemptVars, hbVars, CauseKnown, HeartbeatJoined, InAttempt, Unjoined
<1>1. CASE Start
  BY <1>1 DEF Start, Proceed, Results
<1>2. CASE CheckContext
  BY <1>2 DEF CheckContext, Proceed, Results
<1>3. CASE WaitEnds
  BY <1>3 DEF WaitEnds, Proceed, Results
<1>4. CASE StopHeartbeat
  BY <1>4 DEF StopHeartbeat, Proceed, Results
<1>5. CASE CancelAttempt
  BY <1>5 DEF CancelAttempt, Proceed, Results, Canceled
<1>6. CASE Join
  BY <1>6, AfterJoin DEF Join, Proceed, Results
<1>7. CASE HeartbeatCancels
  BY <1>7 DEF HeartbeatCancels, Canceled
<1>8. CASE HeartbeatSends
  BY <1>8 DEF HeartbeatSends
<1>9. CASE HeartbeatStops
  BY <1>9 DEF HeartbeatStops
<1>10. CASE HeartbeatContextDone
  BY <1>10 DEF HeartbeatContextDone
<1>11. CASE HeartbeatTicks
  BY <1>11 DEF HeartbeatTicks
<1>12. ASSUME NEW o \in Outcomes, HandlerReturns(o) PROVE CauseKnown'
  <2>1. cause \in {"none", "parent", "heartbeat", "finished"}
    BY DEF TypeOK
  <2>2. pc' = "handled" /\ UNCHANGED <<cause, hb, hbErr>> /\ hb # "none"
    BY <1>12 DEF HandlerReturns, Proceed, Results
  <2>3. interrupted' => cause # "none"
    BY <1>12 DEF HandlerReturns
  <2>4. cause # "finished"
    BY <1>12, <2>2 DEF HandlerReturns
  <2> QED
    BY <2>1, <2>2, <2>3, <2>4
<1>13. CASE HandlerExits
  BY <1>13 DEF HandlerExits
<1>14. CASE Shutdown
  BY <1>14 DEF Shutdown
<1>15. CASE Propagate
  BY <1>15 DEF Propagate
<1>16. ASSUME NEW claimed \in StoreJobs \union {NoJob}, NEW err \in Errors,
              ClaimReturns(claimed, err)
       PROVE  CauseKnown'
  BY <1>16, AfterClaim DEF ClaimReturns, Proceed, Results
<1>17. ASSUME NEW err \in Errors, AckReturns(err) PROVE CauseKnown'
  BY <1>17, AfterAck DEF AckReturns, Proceed, Results
<1>18. ASSUME NEW err \in Errors, HeartbeatReturns(err) PROVE CauseKnown'
  BY <1>18 DEF HeartbeatReturns
<1>19. CASE UNCHANGED vars
  BY <1>19 DEF vars
<1> QED
  BY <1>1, <1>2, <1>3, <1>4, <1>5, <1>6, <1>7, <1>8, <1>9, <1>10, <1>11, <1>12,
     <1>13, <1>14, <1>15, <1>16, <1>17, <1>18, <1>19, StepCases

LEMMA InterruptedStep == ParentEnded /\ CauseKnown /\ InterruptedNotAcknowledged /\ [Next]_vars => InterruptedNotAcknowledged'
<1> SUFFICES ASSUME ParentEnded, CauseKnown, InterruptedNotAcknowledged, [Next]_vars PROVE InterruptedNotAcknowledged'
  OBVIOUS
<1> USE DEF attemptVars, hbVars, InterruptedNotAcknowledged
<1>1. CASE Start
  BY <1>1 DEF Start, Proceed, Results
<1>2. CASE CheckContext
  BY <1>2 DEF CheckContext, Proceed, Results
<1>3. CASE WaitEnds
  BY <1>3 DEF WaitEnds, Proceed, Results
<1>4. CASE StopHeartbeat
  BY <1>4 DEF StopHeartbeat, Proceed, Results
<1>5. CASE CancelAttempt
  BY <1>5 DEF CancelAttempt, Proceed, Results
<1>6. CASE Join
  BY <1>6, AfterJoin DEF Join, Proceed, Results, ParentEnded, CauseKnown, Unjoined, Acknowledging
<1>7. CASE HeartbeatCancels
  BY <1>7 DEF HeartbeatCancels
<1>8. CASE HeartbeatSends
  BY <1>8 DEF HeartbeatSends
<1>9. CASE HeartbeatStops
  BY <1>9 DEF HeartbeatStops
<1>10. CASE HeartbeatContextDone
  BY <1>10 DEF HeartbeatContextDone
<1>11. CASE HeartbeatTicks
  BY <1>11 DEF HeartbeatTicks
<1>12. ASSUME NEW o \in Outcomes, HandlerReturns(o) PROVE InterruptedNotAcknowledged'
  BY <1>12 DEF HandlerReturns, Proceed, Results
<1>13. CASE HandlerExits
  BY <1>13 DEF HandlerExits
<1>14. CASE Shutdown
  BY <1>14 DEF Shutdown
<1>15. CASE Propagate
  BY <1>15 DEF Propagate
<1>16. ASSUME NEW claimed \in StoreJobs \union {NoJob}, NEW err \in Errors,
              ClaimReturns(claimed, err)
       PROVE  InterruptedNotAcknowledged'
  BY <1>16, AfterClaim DEF ClaimReturns, Proceed, Results
<1>17. ASSUME NEW err \in Errors, AckReturns(err) PROVE InterruptedNotAcknowledged'
  BY <1>17, AfterAck DEF AckReturns, Proceed, Results
<1>18. ASSUME NEW err \in Errors, HeartbeatReturns(err) PROVE InterruptedNotAcknowledged'
  BY <1>18 DEF HeartbeatReturns
<1>19. CASE UNCHANGED vars
  BY <1>19 DEF vars
<1> QED
  BY <1>1, <1>2, <1>3, <1>4, <1>5, <1>6, <1>7, <1>8, <1>9, <1>10, <1>11, <1>12,
     <1>13, <1>14, <1>15, <1>16, <1>17, <1>18, <1>19, StepCases

LEMMA DoubtStep == TypeOK /\ HeartbeatJoined /\ CauseKnown /\ DoubtKnown /\ [Next]_vars => DoubtKnown'
<1> SUFFICES ASSUME TypeOK, HeartbeatJoined, CauseKnown, DoubtKnown, [Next]_vars PROVE DoubtKnown'
  OBVIOUS
<1> USE DEF attemptVars, hbVars, DoubtKnown, InAttempt, Acknowledging
<1>1. CASE Start
  BY <1>1 DEF Start, Proceed, Results
<1>2. CASE CheckContext
  BY <1>2 DEF CheckContext, Proceed, Results
<1>3. CASE WaitEnds
  BY <1>3 DEF WaitEnds, Proceed, Results
<1>4. CASE StopHeartbeat
  BY <1>4 DEF StopHeartbeat, Proceed, Results
<1>5. CASE CancelAttempt
  BY <1>5 DEF CancelAttempt, Proceed, Results
<1>6. CASE Join
  BY <1>6, AfterJoin DEF Join, Proceed, Results
<1>7. CASE HeartbeatCancels
  BY <1>7 DEF HeartbeatCancels
<1>8. CASE HeartbeatSends
  BY <1>8 DEF HeartbeatSends
<1>9. CASE HeartbeatStops
  BY <1>9 DEF HeartbeatStops, CauseKnown
<1>10. CASE HeartbeatContextDone
  BY <1>10 DEF HeartbeatContextDone, TypeOK, HeartbeatJoined, CauseKnown, ContextErrors, Unknown
<1>11. CASE HeartbeatTicks
  BY <1>11 DEF HeartbeatTicks
<1>12. ASSUME NEW o \in Outcomes, HandlerReturns(o) PROVE DoubtKnown'
  BY <1>12 DEF HandlerReturns, Proceed, Results
<1>13. CASE HandlerExits
  BY <1>13 DEF HandlerExits
<1>14. CASE Shutdown
  BY <1>14 DEF Shutdown
<1>15. CASE Propagate
  BY <1>15 DEF Propagate
<1>16. ASSUME NEW claimed \in StoreJobs \union {NoJob}, NEW err \in Errors,
              ClaimReturns(claimed, err)
       PROVE  DoubtKnown'
  BY <1>16, AfterClaim DEF ClaimReturns, Proceed, Results
<1>17. ASSUME NEW err \in Errors, AckReturns(err) PROVE DoubtKnown'
  BY <1>17, AfterAck DEF AckReturns, Proceed, Results
<1>18. ASSUME NEW err \in Errors, HeartbeatReturns(err) PROVE DoubtKnown'
  BY <1>18 DEF HeartbeatReturns, HeartbeatJoined, CauseKnown
<1>19. CASE UNCHANGED vars
  BY <1>19 DEF vars
<1> QED
  BY <1>1, <1>2, <1>3, <1>4, <1>5, <1>6, <1>7, <1>8, <1>9, <1>10, <1>11, <1>12,
     <1>13, <1>14, <1>15, <1>16, <1>17, <1>18, <1>19, StepCases

\* What Run returns with.
LEMMA Returned ==
  ASSUME NEW next \in Results, NEW err, NEW lease, Proceed(next, err, lease)
  PROVE  /\ pc' = "returned" /\ result'.type = next
         /\ next \in Reconciliations => result'.lease = lease
         /\ next \notin Reconciliations => result'.lease = NULL
         /\ next = "ctx.Err()" => result'.err = {ctx}
         /\ next = "ErrInvalid" => result'.err = {"ErrInvalid"}
         /\ next \notin {"ctx.Err()", "ErrInvalid"} => result'.err = err
BY DEF Proceed

\* Without a doubt nothing unknown has to surface, and nothing does.
LEMMA NothingToSurface ==
  ASSUME doubt' = NoDoubt, pc' = "returned" => Unknown \notin result'.err
  PROVE  UnknownSurfaces'
BY DEF UnknownSurfaces, NoDoubt

LEMMA ContextNotUnknown == TypeOK => Unknown # ctx /\ Unknown # "ErrInvalid"
BY DEF TypeOK, ContextErrors, Unknown

LEMMA SurfacesStep == TypeOK /\ HeartbeatJoined /\ HandlesOwnLease /\ DoubtKnown /\ UnknownSurfaces /\ [Next]_vars => UnknownSurfaces'
<1> SUFFICES ASSUME TypeOK, HeartbeatJoined, HandlesOwnLease, DoubtKnown, UnknownSurfaces, [Next]_vars PROVE UnknownSurfaces'
  OBVIOUS
<1> USE DEF attemptVars, hbVars, UnknownSurfaces
<1>1. CASE Start
  <2>1. pc' = "returned" => Unknown \notin result'.err
    BY <1>1, ContextNotUnknown, Returned DEF Start, Proceed, Results
  <2> QED
    BY <1>1, <2>1, NothingToSurface DEF Start, DoubtKnown
<1>2. CASE CheckContext
  <2>1. pc' = "returned" => Unknown \notin result'.err
    BY <1>2, ContextNotUnknown, Returned DEF CheckContext, Proceed, Results
  <2> QED
    BY <1>2, <2>1, NothingToSurface DEF CheckContext, DoubtKnown
<1>3. CASE WaitEnds
  <2>1. pc' = "returned" => Unknown \notin result'.err
    BY <1>3, ContextNotUnknown, Returned DEF WaitEnds, Proceed, Results
  <2> QED
    BY <1>3, <2>1, NothingToSurface DEF WaitEnds, DoubtKnown
<1>4. CASE StopHeartbeat
  BY <1>4 DEF StopHeartbeat, Proceed, Results
<1>5. CASE CancelAttempt
  BY <1>5 DEF CancelAttempt, Proceed, Results
<1>6. CASE Join
  <2>1. CASE Unknown \in hbErr
    <3>1. doubt' = [op |-> "heartbeat", lease |-> job.row.token] /\ job.row.token # NULL
      BY <1>6, <2>1 DEF Join, DoubtKnown, HandlesOwnLease, InAttempt
    <3>2. /\ result'.type = "LeaseReconciliationError" /\ result'.lease = job.row.token
          /\ result'.err = hbErr
      BY <1>6, <2>1, AfterJoin, Returned DEF Join, Results, Reconciliations
    <3> QED
      BY <2>1, <3>1, <3>2 DEF NoDoubt
  <2>2. CASE Unknown \notin hbErr
    <3>1. doubt' = NoDoubt
      BY <1>6, <2>2 DEF Join, DoubtKnown, InAttempt
    <3>2. CASE afterJoin \in Results
      <4>1. Unknown \notin result'.err
        BY <1>6, <2>2, <3>2, ContextNotUnknown, Returned DEF Join
      <4> QED
        BY <3>1, <4>1, NothingToSurface
    <3>3. CASE afterJoin \notin Results
      BY <1>6, <3>1, <3>3, AfterJoin, NothingToSurface DEF Join, Proceed
    <3> QED
      BY <3>2, <3>3
  <2> QED
    BY <2>1, <2>2
<1>7. CASE HeartbeatCancels
  BY <1>7 DEF HeartbeatCancels
<1>8. CASE HeartbeatSends
  BY <1>8 DEF HeartbeatSends
<1>9. CASE HeartbeatStops
  BY <1>9 DEF HeartbeatStops
<1>10. CASE HeartbeatContextDone
  BY <1>10 DEF HeartbeatContextDone
<1>11. CASE HeartbeatTicks
  BY <1>11 DEF HeartbeatTicks
<1>12. ASSUME NEW o \in Outcomes, HandlerReturns(o) PROVE UnknownSurfaces'
  BY <1>12 DEF HandlerReturns, Proceed, Results
<1>13. CASE HandlerExits
  BY <1>13 DEF HandlerExits
<1>14. CASE Shutdown
  BY <1>14 DEF Shutdown
<1>15. CASE Propagate
  BY <1>15 DEF Propagate
<1>16. ASSUME NEW claimed \in StoreJobs \union {NoJob}, NEW err \in Errors,
              ClaimReturns(claimed, err)
       PROVE  UnknownSurfaces'
  <2> DEFINE next == afterClaim(claimed, err)
  <2>1. CASE Unknown \in err
    <3>1. next = IF claimed.id = NULL THEN "error" ELSE "ClaimReconciliationError"
      BY <2>1, AfterClaim
    <3>2. Proceed(next, err, claimed.row.token)
      BY <1>16 DEF ClaimReturns
    <3>3. doubt' = [op |-> "Claim", lease |-> IF claimed.id = NULL THEN NULL
                                              ELSE claimed.row.token]
      BY <1>16, <2>1 DEF ClaimReturns
    <3> HIDE DEF next
    <3>4. /\ result'.err = err
          /\ result'.lease = IF claimed.id = NULL THEN NULL ELSE claimed.row.token
      BY <3>1, <3>2, Returned DEF Results, Reconciliations
    <3> QED
      BY <2>1, <3>3, <3>4 DEF NoDoubt
  <2>2. CASE Unknown \notin err
    <3>1. doubt' = NoDoubt /\ Proceed(next, err, claimed.row.token)
      BY <1>16, <2>2 DEF ClaimReturns, DoubtKnown
    <3>2. next \in {"waiting", "handling", "error", "ErrInvalid",
                    "ClaimReconciliationError"}
      BY AfterClaim
    <3> HIDE DEF next
    <3>3. pc' = "returned" => Unknown \notin result'.err
      BY <2>2, <3>1, <3>2, ContextNotUnknown, Returned DEF Proceed, Results
    <3> QED
      BY <3>1, <3>3, NothingToSurface
  <2> QED
    BY <2>1, <2>2
<1>17. ASSUME NEW err \in Errors, AckReturns(err) PROVE UnknownSurfaces'
  <2> DEFINE next == afterAck(err)
  <2>1. Proceed(next, err, job.row.token)
    BY <1>17 DEF AckReturns
  <2>2. CASE Unknown \in err
    <3>1. doubt' = [op |-> pc, lease |-> job.row.token] /\ job.row.token # NULL
      BY <1>17, <2>2 DEF AckReturns, HandlesOwnLease
    <3>2. next = "LeaseReconciliationError"
      BY <2>2, AfterAck
    <3> HIDE DEF next
    <3>3. /\ result'.type = "LeaseReconciliationError" /\ result'.lease = job.row.token
          /\ result'.err = err
      BY <2>1, <3>2, Returned DEF Results, Reconciliations
    <3> QED
      BY <1>17, <2>2, <3>1, <3>3 DEF NoDoubt, AckReturns
  <2>3. CASE Unknown \notin err
    <3>1. doubt' = NoDoubt
      BY <1>17, <2>3 DEF AckReturns, DoubtKnown, Acknowledging
    <3>2. next \in {"loop", "error", "LeaseReconciliationError"}
      BY AfterAck
    <3> HIDE DEF next
    <3>3. pc' = "returned" => Unknown \notin result'.err
      BY <2>1, <2>3, <3>2, Returned DEF Proceed, Results
    <3> QED
      BY <3>1, <3>3, NothingToSurface
  <2> QED
    BY <2>2, <2>3
<1>18. ASSUME NEW err \in Errors, HeartbeatReturns(err) PROVE UnknownSurfaces'
  BY <1>18 DEF HeartbeatReturns, HeartbeatJoined, InAttempt
<1>19. CASE UNCHANGED vars
  BY <1>19 DEF vars
<1> QED
  BY <1>1, <1>2, <1>3, <1>4, <1>5, <1>6, <1>7, <1>8, <1>9, <1>10, <1>11, <1>12,
     <1>13, <1>14, <1>15, <1>16, <1>17, <1>18, <1>19, StepCases

\* What NothingAfterDoubt says of one step.
Quiet ==
  doubt # NoDoubt =>
    /\ pc' \in {"claiming", "completing", "failing", "handling"} => pc' = pc
    /\ hb' = "calling" => hb = "calling"

LEMMA QuietStep == TypeOK /\ HeartbeatJoined /\ CauseKnown /\ DoubtKnown /\ [Next]_vars => Quiet
<1> SUFFICES ASSUME TypeOK, HeartbeatJoined, CauseKnown, DoubtKnown, [Next]_vars PROVE Quiet
  OBVIOUS
<1> USE DEF attemptVars, hbVars, Quiet, DoubtKnown, InAttempt, Acknowledging
<1>1. CASE Start
  BY <1>1 DEF Start, Proceed, Results
<1>2. CASE CheckContext
  BY <1>2 DEF CheckContext, Proceed, Results
<1>3. CASE WaitEnds
  BY <1>3 DEF WaitEnds, Proceed, Results
<1>4. CASE StopHeartbeat
  BY <1>4 DEF StopHeartbeat, Proceed, Results
<1>5. CASE CancelAttempt
  BY <1>5 DEF CancelAttempt, Proceed, Results
<1>6. CASE Join
  BY <1>6, AfterJoin DEF Join, Proceed, Results
<1>7. CASE HeartbeatCancels
  BY <1>7 DEF HeartbeatCancels
<1>8. CASE HeartbeatSends
  BY <1>8 DEF HeartbeatSends
<1>9. CASE HeartbeatStops
  BY <1>9 DEF HeartbeatStops
<1>10. CASE HeartbeatContextDone
  BY <1>10 DEF HeartbeatContextDone
<1>11. CASE HeartbeatTicks
  BY <1>11 DEF HeartbeatTicks, HeartbeatJoined, CauseKnown
<1>12. ASSUME NEW o \in Outcomes, HandlerReturns(o) PROVE Quiet
  BY <1>12 DEF HandlerReturns, Proceed, Results
<1>13. CASE HandlerExits
  BY <1>13 DEF HandlerExits
<1>14. CASE Shutdown
  BY <1>14 DEF Shutdown
<1>15. CASE Propagate
  BY <1>15 DEF Propagate
<1>16. ASSUME NEW claimed \in StoreJobs \union {NoJob}, NEW err \in Errors,
              ClaimReturns(claimed, err)
       PROVE  Quiet
  BY <1>16, AfterClaim DEF ClaimReturns, Proceed, Results
<1>17. ASSUME NEW err \in Errors, AckReturns(err) PROVE Quiet
  BY <1>17, AfterAck DEF AckReturns, Proceed, Results
<1>18. ASSUME NEW err \in Errors, HeartbeatReturns(err) PROVE Quiet
  BY <1>18 DEF HeartbeatReturns
<1>19. CASE UNCHANGED vars
  BY <1>19 DEF vars
<1> QED
  BY <1>1, <1>2, <1>3, <1>4, <1>5, <1>6, <1>7, <1>8, <1>9, <1>10, <1>11, <1>12,
     <1>13, <1>14, <1>15, <1>16, <1>17, <1>18, <1>19, StepCases

-----------------------------------------------------------------------------
(* What is acknowledged.                                                   *)

LEMMA ConfigStep == ConfigAccepted /\ [Next]_vars => ConfigAccepted'
<1> SUFFICES ASSUME ConfigAccepted, [Next]_vars PROVE ConfigAccepted'
  OBVIOUS
<1> USE DEF attemptVars, hbVars, ConfigAccepted
<1>1. CASE Start
  BY <1>1 DEF Start, Proceed, Results
<1>2. CASE CheckContext
  BY <1>2 DEF CheckContext, Proceed, Results
<1>3. CASE WaitEnds
  BY <1>3 DEF WaitEnds, Proceed, Results
<1>4. CASE StopHeartbeat
  BY <1>4 DEF StopHeartbeat, Proceed, Results
<1>5. CASE CancelAttempt
  BY <1>5 DEF CancelAttempt, Proceed, Results
<1>6. CASE Join
  BY <1>6, AfterJoin DEF Join, Proceed, Results
<1>7. CASE HeartbeatCancels
  BY <1>7 DEF HeartbeatCancels
<1>8. CASE HeartbeatSends
  BY <1>8 DEF HeartbeatSends
<1>9. CASE HeartbeatStops
  BY <1>9 DEF HeartbeatStops
<1>10. CASE HeartbeatContextDone
  BY <1>10 DEF HeartbeatContextDone
<1>11. CASE HeartbeatTicks
  BY <1>11 DEF HeartbeatTicks
<1>12. ASSUME NEW o \in Outcomes, HandlerReturns(o) PROVE ConfigAccepted'
  BY <1>12 DEF HandlerReturns, Proceed, Results
<1>13. CASE HandlerExits
  BY <1>13 DEF HandlerExits
<1>14. CASE Shutdown
  BY <1>14 DEF Shutdown
<1>15. CASE Propagate
  BY <1>15 DEF Propagate
<1>16. ASSUME NEW claimed \in StoreJobs \union {NoJob}, NEW err \in Errors,
              ClaimReturns(claimed, err)
       PROVE  ConfigAccepted'
  BY <1>16, AfterClaim DEF ClaimReturns, Proceed, Results
<1>17. ASSUME NEW err \in Errors, AckReturns(err) PROVE ConfigAccepted'
  BY <1>17, AfterAck DEF AckReturns, Proceed, Results
<1>18. ASSUME NEW err \in Errors, HeartbeatReturns(err) PROVE ConfigAccepted'
  BY <1>18 DEF HeartbeatReturns
<1>19. CASE UNCHANGED vars
  BY <1>19 DEF vars
<1> QED
  BY <1>1, <1>2, <1>3, <1>4, <1>5, <1>6, <1>7, <1>8, <1>9, <1>10, <1>11, <1>12,
     <1>13, <1>14, <1>15, <1>16, <1>17, <1>18, <1>19, StepCases

\* Under an accepted configuration every failure can be recorded.
LEMMA FailureRecordable ==
  ASSUME validate(config), config \in Configs, Attempts \in Nat,
         IsPermanent(handlerErr) \/ policyValid(config.retry, Attempts)
  PROVE  /\ Failure.delay % Microsecond = 0
         /\ validateFailure(Failure.permanent, Failure.delay \div Microsecond)
<1>1. Microsecond \in Nat \ {0} /\ MaxRetryDelay \in Nat
  BY DurationAssumption, LimitsAssumption
<1>2. CASE IsPermanent(handlerErr)
  <2>1. Failure.permanent = TRUE /\ Failure.delay = 0
    BY <1>2 DEF Failure, IsPermanent
  <2>2. 0 % Microsecond = 0 /\ 0 \div Microsecond = 0
    BY <1>1
  <2>3. validateFailure(TRUE, 0)
    BY <1>1 DEF validateFailure
  <2>. QED  BY <2>1, <2>2, <2>3
<1>3. CASE ~IsPermanent(handlerErr)
  <2>1. Failure.permanent = FALSE /\ Failure.delay = Delay(config.retry, Attempts)
    BY <1>3 DEF Failure, IsPermanent
  <2>2. /\ config.retry.initial \in Int /\ config.retry.maximum \in Int
        /\ config.retry.initial % Microsecond = 0
        /\ config.retry.maximum % Microsecond = 0
    BY ConfigAssumption DEF validate
  <2>3. /\ Delay(config.retry, Attempts) % Microsecond = 0
        /\ Delay(config.retry, Attempts) \div Microsecond \in 0..MaxRetryDelay
    BY <1>3, <2>2, DelayRecordable
  <2>4. validateFailure(FALSE, Delay(config.retry, Attempts) \div Microsecond)
    BY <2>3 DEF validateFailure
  <2>. QED  BY <2>1, <2>3, <2>4
<1>. QED  BY <1>2, <1>3

\* What Join decides to send is what the handler did, and the repository
\* accepts it: under an accepted configuration every delay can be recorded.
LEMMA JoinDecides ==
  ASSUME TypeOK, ConfigAccepted, pc = "joining"
  PROVE  /\ afterJoin = "completing" => outcome = [how |-> "return", err |-> "nil"]
         /\ afterJoin = "failing" =>
              /\ outcome.err # "nil" \/ outcome.how = "panic"
              /\ Failure.permanent = (outcome.err = "permanentError")
              /\ Failure.delay % Microsecond = 0
              /\ validateFailure(Failure.permanent, Failure.delay \div Microsecond)
<1>. DEFINE panicked == outcome.how = "panic"
<1>1. /\ outcome = [how |-> outcome.how, err |-> outcome.err]
      /\ outcome.how \in {"return", "panic"}
      /\ panicked => outcome.err = "nil"
  BY DEF TypeOK, Outcomes
<1>2. /\ panicked => handlerErr = "errHandlerPanicked"
      /\ ~panicked => handlerErr = outcome.err
  BY <1>1 DEF handlerErr, callHandler
<1>3. ASSUME afterJoin = "completing" PROVE outcome = [how |-> "return", err |-> "nil"]
  <2>1. handlerErr = "nil"
    BY <1>3 DEF afterJoin, acknowledge
  <2>. QED  BY <1>1, <1>2, <2>1
<1>4. ASSUME afterJoin = "failing"
      PROVE  /\ outcome.err # "nil" \/ outcome.how = "panic"
             /\ Failure.permanent = (outcome.err = "permanentError")
             /\ Failure.delay % Microsecond = 0
             /\ validateFailure(Failure.permanent, Failure.delay \div Microsecond)
  <2>1. /\ handlerErr # "nil"
        /\ IsPermanent(handlerErr) \/ policyValid(config.retry, Attempts)
    BY <1>4 DEF afterJoin, acknowledge
  <2>2. outcome.err # "nil" \/ outcome.how = "panic"
    BY <1>1, <1>2, <2>1
  <2>3. IsPermanent(handlerErr) = (outcome.err = "permanentError")
    BY <1>1, <1>2 DEF IsPermanent
  <2>4. Failure.permanent = (outcome.err = "permanentError")
    BY <2>3 DEF Failure
  <2>5. Attempts \in Nat /\ config \in Configs /\ validate(config)
    BY TokenTyped DEF TypeOK, Attempts, ConfigAccepted
  <2>. QED  BY <2>1, <2>2, <2>4, <2>5, FailureRecordable
<1>. QED  BY <1>3, <1>4

LEMMA AcknowledgesStep == TypeOK /\ ConfigAccepted /\ AcknowledgesWhatHappened /\ [Next]_vars => AcknowledgesWhatHappened'
<1> SUFFICES ASSUME TypeOK, ConfigAccepted, AcknowledgesWhatHappened, [Next]_vars PROVE AcknowledgesWhatHappened'
  OBVIOUS
<1> USE DEF attemptVars, hbVars, AcknowledgesWhatHappened
<1>1. CASE Start
  BY <1>1 DEF Start, Proceed, Results
<1>2. CASE CheckContext
  BY <1>2 DEF CheckContext, Proceed, Results
<1>3. CASE WaitEnds
  BY <1>3 DEF WaitEnds, Proceed, Results
<1>4. CASE StopHeartbeat
  BY <1>4 DEF StopHeartbeat, Proceed, Results
<1>5. CASE CancelAttempt
  BY <1>5 DEF CancelAttempt, Proceed, Results
<1>6. CASE Join
  <2>1. pc = "joining" /\ outcome' = outcome
    BY <1>6 DEF Join
  <2>2. pc' \in Acknowledging => pc' = afterJoin
    BY <1>6 DEF Join, Proceed, Acknowledging
  <2>3. pc' = "failing" => failure' = Failure
    BY <1>6, <2>2 DEF Join, Acknowledging
  <2> QED
    BY <2>1, <2>2, <2>3, JoinDecides DEF Acknowledging
<1>7. CASE HeartbeatCancels
  BY <1>7 DEF HeartbeatCancels
<1>8. CASE HeartbeatSends
  BY <1>8 DEF HeartbeatSends
<1>9. CASE HeartbeatStops
  BY <1>9 DEF HeartbeatStops
<1>10. CASE HeartbeatContextDone
  BY <1>10 DEF HeartbeatContextDone
<1>11. CASE HeartbeatTicks
  BY <1>11 DEF HeartbeatTicks
<1>12. ASSUME NEW o \in Outcomes, HandlerReturns(o) PROVE AcknowledgesWhatHappened'
  BY <1>12 DEF HandlerReturns, Proceed, Results
<1>13. CASE HandlerExits
  BY <1>13 DEF HandlerExits
<1>14. CASE Shutdown
  BY <1>14 DEF Shutdown
<1>15. CASE Propagate
  BY <1>15 DEF Propagate
<1>16. ASSUME NEW claimed \in StoreJobs \union {NoJob}, NEW err \in Errors,
              ClaimReturns(claimed, err)
       PROVE  AcknowledgesWhatHappened'
  BY <1>16, AfterClaim DEF ClaimReturns, Proceed, Results
<1>17. ASSUME NEW err \in Errors, AckReturns(err) PROVE AcknowledgesWhatHappened'
  BY <1>17, AfterAck DEF AckReturns, Proceed, Results
<1>18. ASSUME NEW err \in Errors, HeartbeatReturns(err) PROVE AcknowledgesWhatHappened'
  BY <1>18 DEF HeartbeatReturns
<1>19. CASE UNCHANGED vars
  BY <1>19 DEF vars
<1> QED
  BY <1>1, <1>2, <1>3, <1>4, <1>5, <1>6, <1>7, <1>8, <1>9, <1>10, <1>11, <1>12,
     <1>13, <1>14, <1>15, <1>16, <1>17, <1>18, <1>19, StepCases

-----------------------------------------------------------------------------
(* The inductive invariant and what follows from it.                       *)

LEMMA Inductive == Spec => []IInv
<1>1. Init => IInv
  <2> SUFFICES ASSUME Init PROVE IInv
    OBVIOUS
  <2>1. TypeOK /\ ParentEnded
    BY TypeInit
  <2>2. HeartbeatJoined /\ HandlesOwnLease /\ UnknownSurfaces /\ InterruptedNotAcknowledged
    BY DEF Init, HeartbeatJoined, HandlesOwnLease, InAttempt, UnknownSurfaces,
           InterruptedNotAcknowledged
  <2>3. CauseKnown /\ DoubtKnown
    BY DEF Init, CauseKnown, DoubtKnown, InAttempt, Unjoined, Unknown
  <2>4. ConfigAccepted /\ AcknowledgesWhatHappened
    BY DEF Init, ConfigAccepted, AcknowledgesWhatHappened
  <2> QED
    BY <2>1, <2>2, <2>3, <2>4 DEF IInv
<1>2. IInv /\ [Next]_vars => IInv'
  BY TypeStep, ParentStep, JoinedStep, OwnLeaseStep, CauseStep, DoubtStep,
     SurfacesStep, InterruptedStep, ConfigStep, AcknowledgesStep DEF IInv
<1> QED
  BY <1>1, <1>2, PTL DEF Spec

\* Against any Store the heartbeat goroutine is joined before runAttempt
\* acknowledges, before Run claims again and before Run returns.
THEOREM HeartbeatAlwaysJoined == Spec => []HeartbeatJoined
<1>1. IInv => HeartbeatJoined
  BY DEF IInv
<1> QED
  BY <1>1, Inductive, PTL

\* Whatever jobs a Store hands out, handlers and acknowledgements only ever
\* have a running attempt of the worker's own queue and name.
THEOREM OnlyOwnLeases == Spec => []HandlesOwnLease
<1>1. IInv => HandlesOwnLease
  BY DEF IInv
<1> QED
  BY <1>1, Inductive, PTL

\* An unknown commit outcome is never swallowed: Run returns it, with the lease
\* to reconcile, whatever identities the Store joined to it.
THEOREM UnknownAlwaysSurfaces == Spec => []UnknownSurfaces
<1>1. IInv => UnknownSurfaces
  BY DEF IInv
<1> QED
  BY <1>1, Inductive, PTL

\* runAttempt acknowledges no attempt whose context had ended before its
\* handler did.
THEOREM InterruptedNeverAcknowledged == Spec => []InterruptedNotAcknowledged
<1>1. IInv => InterruptedNotAcknowledged
  BY DEF IInv
<1> QED
  BY <1>1, Inductive, PTL

\* runAttempt completes what a handler returned nil for and fails the rest, as
\* permanent exactly when it was marked so, with a delay Fail accepts at every
\* attempt of every accepted retry policy: no failure is lost to ErrInvalid.
THEOREM AcknowledgedAsHandled == Spec => []AcknowledgesWhatHappened
<1>1. IInv => AcknowledgesWhatHappened
  BY DEF IInv
<1> QED
  BY <1>1, Inductive, PTL

\* After an unknown outcome Run and its heartbeat ask nothing more of the
\* Store and start no handler.
THEOREM SilentAfterDoubt == Spec => NothingAfterDoubt
<1>1. IInv /\ [Next]_vars => [Quiet]_vars
  BY QuietStep DEF IInv
<1>2. [Quiet]_vars <=> [doubt # NoDoubt =>
         /\ pc' \in {"claiming", "completing", "failing", "handling"} => pc' = pc
         /\ hb' = "calling" => hb = "calling"]_vars
  BY DEF Quiet
<1> QED
  BY <1>1, <1>2, Inductive, PTL DEF Spec, NothingAfterDoubt
=============================================================================
