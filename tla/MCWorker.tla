------------------------------ MODULE MCWorker ------------------------------
(***************************************************************************)
(* Instances of Worker for TLC: configurations on either side of each      *)
(* limit and, from a custom Store, jobs a worker must not handle.          *)
(***************************************************************************)
EXTENDS Worker

CONSTANTS q, q2, w1, w2, t1

Config(wired, lease, interval, poll, initial, maximum) ==
  [wired |-> wired, lease |-> lease, interval |-> interval, poll |-> poll,
   retry |-> [initial |-> initial, maximum |-> maximum]]

ValidConfig == Config(TRUE, 2, 1, 1, 2, 4)

SomeConfigs ==
  {ValidConfig,
   Config(FALSE, 2, 1, 1, 2, 4),                 \* no store or handler
   Config(TRUE, MaxLeaseDuration + 1, 1, 1, 2, 4),
   Config(TRUE, 2, 2, 1, 2, 4),                  \* beyond half the lease
   Config(TRUE, 2, 1, Minute + 1, 2, 4),
   Config(TRUE, 2, 1, 1, 4, 2),
   Config(TRUE, 2, 1, 1, 1, 4)}                  \* no whole microsecond

OneConfig == {ValidConfig}

RunningJob(queue, owner, attempts) ==
  [id |-> 1,
   row |-> [NoRow EXCEPT !.state = "running", !.queue = queue, !.owner = owner,
                         !.attempts = attempts, !.max_attempts = 3, !.token = t1,
                         !.lease_until = 2]]

SomeJobs ==
  {RunningJob(q, w1, 1), RunningJob(q, w1, 3), RunningJob(q, w2, 1),
   RunningJob(q2, w1, 1), RunningJob(q, w1, 0),
   [RunningJob(q, w1, 1) EXCEPT !.row.state = "pending"]}

OneJob == {RunningJob(q, w1, 1)}
=============================================================================
