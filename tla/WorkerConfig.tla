---------------------------- MODULE WorkerConfig ----------------------------
(***************************************************************************)
(* The fields of Worker and what validate asks of them.  Durations are in  *)
(* the unit of Jobs except the retry policy's, which are in RetryPolicy's. *)
(***************************************************************************)
EXTENDS RetryPolicy

CONSTANTS
  Configs,           \* the configurations Run is called with, valid or not
  Minute             \* the longest poll interval, time.Minute

\* Queue and WorkerID are constants of Worker; wired says that there are a
\* Store and a Handler.
ASSUME ConfigAssumption ==
  /\ \A c \in Configs :
       c \in [wired : BOOLEAN, lease : Int, interval : Int, poll : Int,
              retry : [initial : Int, maximum : Int]]
  /\ Minute \in Int

\* A renewal interval of up to the whole lease.
validateWholeLease(c) ==
  /\ c.wired /\ validateClaim(c.lease)
  /\ c.interval > 0 /\ c.interval <= c.lease
  /\ c.poll > 0 /\ c.poll <= Minute
  /\ policyValid(c.retry, 1)
  /\ c.retry.initial % Microsecond = 0 /\ c.retry.maximum % Microsecond = 0

\* Retry delays the database cannot represent.
validateAnyPrecision(c) ==
  /\ c.wired /\ validateClaim(c.lease)
  /\ c.interval > 0 /\ c.interval <= c.lease \div 2
  /\ c.poll > 0 /\ c.poll <= Minute
  /\ policyValid(c.retry, 1)

validate(c) ==
  /\ c.wired /\ validateClaim(c.lease)
  /\ c.interval > 0 /\ c.interval <= c.lease \div 2
  /\ c.poll > 0 /\ c.poll <= Minute
  /\ policyValid(c.retry, 1)
  /\ c.retry.initial % Microsecond = 0 /\ c.retry.maximum % Microsecond = 0
=============================================================================
