------------------------------ MODULE MCLimits ------------------------------
(***************************************************************************)
(* The parts of the library that compute at a limit, each over every input *)
(* of a bounded size: retry delays in a small word, failure texts around   *)
(* the length limit, fingerprints of requests that grow field by field,    *)
(* and the renewal of a lease against the latency of its calls.  A         *)
(* behaviour examines one of them; the variables of the others rest.       *)
(***************************************************************************)
EXTENDS LeaseRenewal, FailureText, RequestFingerprint

CONSTANTS LastAttempt, LongestText, LongestName, LongestPayload, Budgets

\* A length is a length of its word, and so is a budget.
ASSUME SizeAssumption ==
  /\ LongestName \in Nat /\ LongestName < Base ^ WordBytes
  /\ LongestPayload \in Nat /\ LongestPayload < Base ^ WordBytes
  /\ Budgets \subseteq {n \in Nat : n < Base ^ WordBytes}

VARIABLES subject, policy, attempt, text, request

inputs == <<policy, attempt, text, request>>

-----------------------------------------------------------------------------
(* Inputs, accepted or not.                                                *)

AllConfigs ==
  [wired : {TRUE}, lease : 0..MaxLeaseDuration + 1,
   interval : 0..MaxLeaseDuration + 1, poll : {1},
   retry : {[initial |-> 0, maximum |-> 0]}]

Word == -(2 ^ (WordBits - 1))..(2 ^ (WordBits - 1) - 1)

Bytes == 0..(Base - 1)

Strings(min, max) == UNION {[1..n -> Bytes] : n \in min..max}

\* Seconds before and after 1970, to the ends of a word.
Seconds == {-(Base ^ WordBytes \div 2), -1, Base ^ WordBytes \div 2 - 1}

Requests ==
  [queue : Strings(1, LongestName), kind : Strings(1, LongestName),
   payload : Strings(0, LongestPayload), max_attempts : Budgets,
   available_at : {NULL, <<0, 0>>} \union (Seconds \X {1})]

ShortRequests ==
  {r \in Requests : Len(r.queue) = 1 /\ Len(r.kind) = 1 /\ r.payload = <<>>}

-----------------------------------------------------------------------------
Resting ==
  /\ config = [wired |-> TRUE, lease |-> 2, interval |-> 1, poll |-> 1,
               retry |-> [initial |-> 0, maximum |-> 0]]
  /\ latency = 0 /\ left = 2 /\ next = 1 /\ ticks = 0 /\ call = "none" /\ age = 0

SomePolicy == [initial |-> 0, maximum |-> 0]

LimitsInit ==
  /\ attempt = 0 /\ text = <<>>
  /\ \/ /\ subject = "policy" /\ Resting
        /\ policy \in [initial : Word, maximum : Word] /\ request = NULL
     \/ subject = "text" /\ Resting /\ policy = SomePolicy /\ request = NULL
     \/ /\ subject = "request" /\ Resting
        /\ policy = SomePolicy /\ request \in ShortRequests
     \/ subject = "renewal" /\ Init /\ policy = SomePolicy /\ request = NULL

AttemptFails ==
  /\ subject = "policy" /\ attempt < LastAttempt
  /\ attempt' = attempt + 1
  /\ UNCHANGED <<vars, subject, policy, text, request>>

LongerText ==
  /\ subject = "text" /\ Len(text) < LongestText
  /\ \E byte \in {"a", "0", "c", "r"} : text' = Append(text, byte)
  /\ UNCHANGED <<vars, subject, policy, attempt, request>>

LongerRequest ==
  /\ subject = "request"
  /\ \E b \in Bytes :
       \/ /\ Len(request.queue) < LongestName
          /\ request' = [request EXCEPT !.queue = Append(@, b)]
       \/ /\ Len(request.kind) < LongestName
          /\ request' = [request EXCEPT !.kind = Append(@, b)]
       \/ /\ Len(request.payload) < LongestPayload
          /\ request' = [request EXCEPT !.payload = Append(@, b)]
  /\ UNCHANGED <<vars, subject, policy, attempt, text>>

Renews == subject = "renewal" /\ Next /\ UNCHANGED <<subject, inputs>>

LimitsNext == AttemptFails \/ LongerText \/ LongerRequest \/ Renews

LimitsSpec == LimitsInit /\ [][LimitsNext]_<<vars, subject, inputs>>

-----------------------------------------------------------------------------
(* Correctness.                                                            *)

Accepted == policyValid(policy, 1)

\* Under a policy the library accepts, Delay is the smaller of the maximum and
\* initial * 2^(attempt - 1), computed without any width.
DelaySaturates ==
  LET unbounded == policy.initial * 2 ^ (attempt - 1) IN
  Accepted /\ attempt >= 1 =>
    Delay(policy, attempt) = IF unbounded <= policy.maximum THEN unbounded
                             ELSE policy.maximum

\* A policy Worker.validate accepts, whole microseconds included, yields only
\* delays that Fail accepts, at every attempt: a worker never finds out after
\* the handler has failed that it cannot record the failure.
DelayAlwaysRecordable ==
  (/\ Accepted /\ attempt >= 1
   /\ policy.initial % Microsecond = 0 /\ policy.maximum % Microsecond = 0) =>
     /\ Delay(policy, attempt) % Microsecond = 0
     /\ validateFailure(FALSE, Delay(policy, attempt) \div Microsecond)

\* Whatever a handler's error says, Fail accepts the text the worker makes of
\* it: replacing a byte by three never takes it past the limit, and no cut
\* leaves half a rune.
FailureAccepted == validMessage(boundedFailure(text))

\* A text that needs no cut is kept as it is but for what is not UTF-8, and
\* every cut is marked by the ellipsis.
CutsAreMarked ==
  LET whole == WithoutNUL(ToValidUTF8(text)) IN
  IF Len(text) <= MaxFailureBytes /\ Len(whole) <= MaxFailureBytes
  THEN boundedFailure(text) = whole
  ELSE IsSuffix(Suffix, boundedFailure(text))

\* Two different requests never hash the same bytes, so that a reused key is a
\* duplicate exactly when the request is the same: no byte moves unseen from
\* one field to the next, no budget passes for a payload, no time for none.
FingerprintBinds ==
  subject = "request" =>
    \A other \in Requests : hashInput(other) = hashInput(request) => other = request
=============================================================================
