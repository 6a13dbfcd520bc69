----------------------------- MODULE MCJobStore -----------------------------
(***************************************************************************)
(* Instances of JobStore for TLC.  Every set of inputs holds a value the   *)
(* library must refuse beside those it accepts.                            *)
(***************************************************************************)
EXTENDS JobStore, TLC

CONSTANTS q, w1, k, b1, b2, s1, s2, s3, t1, t2, t3, t4

Request(key, body, budget, available) ==
  [queue |-> q, key |-> key, body |-> body, max_attempts |-> budget,
   available_at |-> available]

\* One job without a key: a budget of two, one the library refuses.
UnkeyedRequests == {Request(NULL, b1, 2, NULL), Request(NULL, b1, 0, NULL)}

\* Jobs of one attempt, at once or later.
QueueRequests == {Request(NULL, b1, 1, NULL), Request(NULL, b1, 2, NULL),
                  Request(NULL, b1, 1, 1)}

\* A key with two different requests, and one out of bounds.
KeyedRequests == {Request(k, b1, 1, NULL), Request(k, b2, 1, NULL),
                  Request(k, b1, MaxAttempts + 1, NULL)}

SingleKeyed == {Request(k, b1, 1, NULL)}

BoundaryDelays == -1..(MaxRetryDelay + 1)

BoundaryDurations == (MinLeaseDuration - 1)..(MaxLeaseDuration + 1)

\* Tokens are only compared for equality; so are sessions when no fairness is
\* attached to one of them.
TokenSymmetry == Permutations(Tokens)

FullSymmetry == Permutations(Tokens) \union Permutations(Sessions)
=============================================================================
