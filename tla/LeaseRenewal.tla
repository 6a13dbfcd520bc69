---------------------------- MODULE LeaseRenewal ----------------------------
(***************************************************************************)
(* The heartbeat goroutine in time: a ticker, calls that take some of it,  *)
(* and the lease running down at the database.  Worker leaves the ticker   *)
(* to chance; here a handler runs on and no call fails, and the question   *)
(* is how slow the calls may be before the lease is lost all the same.     *)
(***************************************************************************)
EXTENDS WorkerConfig

CONSTANT MaxLatency  \* the longest call in an instance

ASSUME LatencyAssumption == MaxLatency \in Nat

VARIABLES
  config, latency,   \* the worker's fields; how long a call may take
  left,              \* of the lease, at the database
  next,              \* until the ticker fires
  ticks,             \* in the ticker's channel, which holds one
  call,              \* "none", or "sent" and then "committed"
  age                \* of the call

vars == <<config, latency, left, next, ticks, call, age>>

\* The claim has committed while its answer took up to latency; then the
\* goroutine makes its ticker.
Init ==
  /\ config \in {c \in Configs : validate(c)}
  /\ latency \in 0..MaxLatency
  /\ left \in {config.lease - d : d \in 0..latency}
  /\ next = config.interval /\ ticks = 0
  /\ call = "none" /\ age = 0

\* <-ticker.C
Send ==
  /\ call = "none" /\ ticks = 1
  /\ ticks' = 0 /\ call' = "sent" /\ age' = 0
  /\ UNCHANGED <<config, latency, left, next>>

\* heartbeatSQL commits, on a lease that has not run out.
Commit ==
  /\ call = "sent" /\ left > 0
  /\ left' = config.lease /\ call' = "committed"
  /\ UNCHANGED <<config, latency, next, ticks, age>>

Return ==
  /\ call = "committed"
  /\ call' = "none"
  /\ UNCHANGED <<config, latency, left, next, ticks, age>>

\* One unit of time.  A tick that finds the channel full is dropped; a call
\* returns within latency, and a tick is taken at once by an idle goroutine.
Pass ==
  /\ left > 0
  /\ call # "none" => age < latency
  /\ call = "none" => ticks = 0
  /\ left' = left - 1
  /\ next' = IF next = 1 THEN config.interval ELSE next - 1
  /\ ticks' = IF next = 1 THEN 1 ELSE ticks
  /\ age' = IF call = "none" THEN age ELSE age + 1
  /\ UNCHANGED <<config, latency, call>>

Next == Send \/ Commit \/ Return \/ Pass

Spec == Init /\ [][Next]_vars

-----------------------------------------------------------------------------
(* Correctness.                                                            *)

\* Under every configuration validate accepts, a worker whose calls take less
\* than a quarter of the lease keeps it for as long as the handler runs.
LeaseKept == 4 * latency < config.lease => left > 0
=============================================================================
