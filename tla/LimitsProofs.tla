---------------------------- MODULE LimitsProofs ----------------------------
(***************************************************************************)
(* Lease renewal for every lease, interval and latency, retry delays for   *)
(* every policy and attempt, fingerprints of requests of any length, and   *)
(* failure texts of any length over FailureText's classes of bytes.        *)
(***************************************************************************)
EXTENDS MCLimits, RetryPolicyProofs, SequenceTheorems

-----------------------------------------------------------------------------
(* LeaseKept.  The inductive invariant bounds the time since the lease was *)
(* last set, by the ticker and by the age of the call:                     *)
(*   no call, no tick   latency plus what the ticker has run               *)
(*   no call, a tick    latency plus a whole interval                      *)
(*   a call not yet in  the same plus the age of the call                  *)
(*   a call committed   the age of the call                                *)

Elapsed == config.lease - left

Types ==
  /\ config \in Configs /\ latency \in Nat
  /\ config.lease \in Nat /\ config.interval \in Nat
  /\ left \in Int /\ next \in Int /\ ticks \in {0, 1}
  /\ call \in {"none", "sent", "committed"} /\ age \in Nat

\* At most half of the lease between two ticks.
HalfLease == config.interval >= 1 /\ 2 * config.interval <= config.lease

Renewing ==
  /\ next >= 1 /\ next <= config.interval
  /\ age <= latency \/ call = "none"
  /\ call = "none" /\ ticks = 0 => Elapsed <= latency + config.interval - next
  /\ call = "none" /\ ticks = 1 => Elapsed <= latency + config.interval
  /\ call = "sent" => Elapsed <= latency + config.interval + age
  /\ call = "committed" => Elapsed <= age

IInv == Types /\ HalfLease /\ Renewing

LEMMA Initial == Init => IInv
<1> SUFFICES ASSUME Init PROVE IInv
  OBVIOUS
<1>1. config \in Configs /\ validate(config)
  BY DEF Init
<1>2. config.lease \in Int /\ config.interval \in Int
  BY <1>1, ConfigAssumption
<1>3. MinLeaseDuration \in Nat /\ MaxLeaseDuration \in Nat
  BY LimitsAssumption
<1>4. config.lease \in MinLeaseDuration..MaxLeaseDuration
  BY <1>1 DEF validate, validateClaim
<1>5. config.interval > 0 /\ config.interval <= config.lease \div 2
  BY <1>1 DEF validate
<1>6. config.lease \in Nat /\ config.interval \in Nat /\ HalfLease
  BY <1>2, <1>3, <1>4, <1>5 DEF HalfLease
<1>7. latency \in Nat
  BY LatencyAssumption DEF Init
<1>8. PICK d \in 0..latency : left = config.lease - d
  BY DEF Init
<1>9. Types
  <2>1. left \in Int
    BY <1>6, <1>7, <1>8
  <2>2. next = config.interval /\ ticks = 0 /\ call = "none" /\ age = 0
    BY DEF Init
  <2> QED
    BY <1>1, <1>6, <1>7, <2>1, <2>2 DEF Types
<1>10. Renewing
  BY <1>6, <1>7, <1>8 DEF Init, Renewing, Elapsed, HalfLease
<1> QED
  BY <1>6, <1>9, <1>10 DEF IInv

LEMMA Step == IInv /\ [Next]_vars => IInv'
<1> SUFFICES ASSUME IInv, [Next]_vars PROVE IInv'
  OBVIOUS
<1> USE DEF IInv
<1>1. CASE Send
  BY <1>1 DEF Send, Types, HalfLease, Renewing, Elapsed
<1>2. CASE Commit
  BY <1>2 DEF Commit, Types, HalfLease, Renewing, Elapsed
<1>3. CASE Return
  BY <1>3 DEF Return, Types, HalfLease, Renewing, Elapsed
<1>4. CASE Pass
  <2>1. Types'
    BY <1>4 DEF Pass, Types, HalfLease
  <2>2. HalfLease'
    BY <1>4 DEF Pass, HalfLease
  <2>3. Renewing'
    BY <1>4 DEF Pass, Types, HalfLease, Renewing, Elapsed
  <2> QED
    BY <2>1, <2>2, <2>3
<1>5. CASE UNCHANGED vars
  BY <1>5 DEF vars, Types, HalfLease, Renewing, Elapsed
<1> QED
  BY <1>1, <1>2, <1>3, <1>4, <1>5 DEF Next

LEMMA Enough == IInv => LeaseKept
<1> SUFFICES ASSUME IInv, 4 * latency < config.lease PROVE left > 0
  BY DEF LeaseKept
<1>1. 2 * latency + config.interval < config.lease
  BY DEF IInv, Types, HalfLease
<1>2. Elapsed <= 2 * latency + config.interval
  BY DEF IInv, Types, HalfLease, Renewing, Elapsed
<1> QED
  BY <1>1, <1>2 DEF IInv, Types, Elapsed

\* Worker.heartbeat under any configuration Worker.validate accepts: while the
\* handler runs and every call takes less than a quarter of LeaseDuration, the
\* lease does not run out.
THEOREM LeaseNeverLost == Spec => []LeaseKept
<1>1. Init => IInv
  BY Initial
<1>2. IInv /\ [Next]_vars => IInv'
  BY Step
<1>3. IInv => LeaseKept
  BY Enough
<1> QED
  BY <1>1, <1>2, <1>3, PTL DEF Spec

-----------------------------------------------------------------------------
(* Delays.                                                                 *)

Inputs ==
  /\ policy.initial \in Int /\ policy.maximum \in Int
  /\ attempt \in Nat

LEMMA InputsAlways == LimitsSpec => []Inputs
<1>1. LimitsInit => Inputs
  <2>1. Word \subseteq Int
    BY DEF Word
  <2>2. policy \in [initial : Int, maximum : Int] => Inputs \/ attempt # 0
    BY DEF Inputs
  <2>3. LimitsInit => policy \in [initial : Word, maximum : Word] \/ policy = SomePolicy
    BY DEF LimitsInit
  <2>4. policy \in [initial : Word, maximum : Word] => policy \in [initial : Int, maximum : Int]
    BY <2>1
  <2>5. SomePolicy \in [initial : Int, maximum : Int]
    BY DEF SomePolicy
  <2>6. LimitsInit => attempt = 0
    BY DEF LimitsInit
  <2>. QED  BY <2>2, <2>3, <2>4, <2>5, <2>6
<1>2. Inputs /\ [LimitsNext]_<<vars, subject, inputs>> => Inputs'
  <2>. SUFFICES ASSUME Inputs, [LimitsNext]_<<vars, subject, inputs>> PROVE Inputs'
    OBVIOUS
  <2>. USE DEF Inputs
  <2>1. CASE AttemptFails
    BY <2>1 DEF AttemptFails
  <2>2. CASE LongerText
    BY <2>2 DEF LongerText
  <2>3. CASE LongerRequest
    BY <2>3 DEF LongerRequest
  <2>4. CASE Renews
    BY <2>4 DEF Renews, inputs
  <2>5. CASE UNCHANGED <<vars, subject, inputs>>
    BY <2>5 DEF inputs
  <2>. QED  BY <2>1, <2>2, <2>3, <2>4, <2>5 DEF LimitsNext
<1>. QED  BY <1>1, <1>2, PTL DEF LimitsSpec

\* RetryPolicy.Delay under every policy Worker.validate accepts and at every
\* attempt: a whole number of microseconds that Fail accepts.
THEOREM EveryDelayRecordable == LimitsSpec => []DelayAlwaysRecordable
<1>1. Inputs => DelayAlwaysRecordable
  <2>. SUFFICES ASSUME Inputs, policyValid(policy, 1), attempt >= 1,
                       policy.initial % Microsecond = 0, policy.maximum % Microsecond = 0
                PROVE  /\ Delay(policy, attempt) % Microsecond = 0
                       /\ validateFailure(FALSE, Delay(policy, attempt) \div Microsecond)
    BY DEF DelayAlwaysRecordable, Accepted
  <2>1. policyValid(policy, attempt)
    BY DEF policyValid
  <2>2. /\ Delay(policy, attempt) % Microsecond = 0
        /\ Delay(policy, attempt) \div Microsecond \in 0..MaxRetryDelay
    BY <2>1, DelayRecordable DEF Inputs
  <2>. QED  BY <2>2 DEF validateFailure
<1>. QED  BY <1>1, InputsAlways, PTL

\* The law of exponents, which the provers do not know.
PowersOfTwo ==
  \A k \in Nat : 2 ^ k \in Nat \ {0} /\ 2 ^ (k + 1) = 2 * 2 ^ k

LEMMA DelaysSaturate ==
  ASSUME PowersOfTwo, Inputs, policyValid(policy, 1), NEW n \in Nat
  PROVE  delays(policy)[n + 1] =
           IF policy.initial * 2 ^ n <= policy.maximum THEN policy.initial * 2 ^ n
           ELSE policy.maximum
<1>. DEFINE a == policy.initial
            m == policy.maximum
            D == delays(policy)
            Least(u) == IF u <= m THEN u ELSE m
            Good == {k \in Nat : D[k + 1] = Least(a * 2 ^ k)}
<1>1. m \in Nat /\ m <= MaxRetryDelay * Microsecond /\ a \in 0..m
  BY LimitsAssumption, DurationAssumption DEF Inputs, policyValid
<1>2. ASSUME NEW d \in 0..m PROVE NextDelay(policy, d) = Least(2 * d)
  BY <1>1, NextDelayDoubles
<1>3. \A d \in 0..m : NextDelay(policy, d) \in 0..m
  BY <1>1, <1>2
<1>4. /\ \A k \in Nat : D[k] \in 0..m
      /\ D[1] = a
      /\ \A k \in Nat \ {0} : D[k + 1] = NextDelay(policy, D[k])
  <2>. HIDE DEF m
  <2>. QED  BY <1>1, <1>3, DelaysWithin
<1>. HIDE DEF D
<1>5. 0 \in Good
  <2>1. 2 ^ 0 = 1 /\ a * 1 = a /\ 0 + 1 = 1
    BY <1>1
  <2>2. D[0 + 1] = Least(a * 2 ^ 0)
    BY <1>1, <1>4, <2>1
  <2>. QED  BY <2>2
<1>6. ASSUME NEW k \in Nat, k \in Good PROVE k + 1 \in Good
  <2>. DEFINE p == 2 ^ k
              u == a * p
  <2>1. p \in Nat \ {0} /\ 2 ^ (k + 1) = 2 * p
    BY DEF PowersOfTwo
  <2>2. D[k + 1] = Least(u) /\ k + 1 \in Nat \ {0}
    BY <1>6
  <2>3. D[(k + 1) + 1] = Least(2 * D[k + 1])
    <3>1. D[k + 1] \in 0..m
      BY <1>4, <2>2
    <3>2. D[(k + 1) + 1] = NextDelay(policy, D[k + 1])
      BY <1>4, <2>2
    <3>. HIDE DEF Least, m
    <3>. QED  BY <3>1, <3>2, <1>2
  <2>4. u \in Nat /\ a * (2 * p) = 2 * u
    BY <1>1, <2>1
  <2>. HIDE DEF p, u
  <2>5. Least(2 * Least(u)) = Least(2 * u)
    BY <1>1, <2>4
  <2>6. D[(k + 1) + 1] = Least(a * 2 ^ (k + 1))
    BY <2>1, <2>2, <2>3, <2>4, <2>5
  <2>. QED  BY <2>6
<1>7. Nat \subseteq Good
  <2>. HIDE DEF Good
  <2>. QED  BY <1>5, <1>6, SetInduction
<1>. QED  BY <1>7 DEF D

\* RetryPolicy.Delay under every accepted policy and at every attempt is the
\* smaller of the maximum and the exact exponential delay: doubling in a word
\* never wraps, and saturation never comes early or late.
THEOREM DelayExact == ASSUME PowersOfTwo PROVE LimitsSpec => []DelaySaturates
<1>1. Inputs => DelaySaturates
  <2>. SUFFICES ASSUME Inputs, policyValid(policy, 1), attempt >= 1
                PROVE  Delay(policy, attempt) =
                         IF policy.initial * 2 ^ (attempt - 1) <= policy.maximum
                         THEN policy.initial * 2 ^ (attempt - 1) ELSE policy.maximum
    BY DEF DelaySaturates, Accepted
  <2>. DEFINE u == policy.initial * 2 ^ (attempt - 1)
  <2>1. attempt - 1 \in Nat /\ (attempt - 1) + 1 = attempt
    BY DEF Inputs
  <2>2. delays(policy)[attempt] = IF u <= policy.maximum THEN u ELSE policy.maximum
    BY <2>1, DelaysSaturate
  <2>3. policyValid(policy, attempt)
    BY DEF policyValid, Inputs
  <2>4. policy.initial \in Nat /\ policy.maximum \in Nat
    BY DEF policyValid, Inputs
  <2>5. u \in Nat /\ (policy.initial = 0 => u = 0)
    BY <2>1, <2>4 DEF PowersOfTwo
  <2>. HIDE DEF u
  <2>6. Delay(policy, attempt) = IF u <= policy.maximum THEN u ELSE policy.maximum
    <3>1. CASE policy.initial = 0
      BY <2>3, <2>4, <2>5, <3>1, DelayIs
    <3>2. CASE policy.initial # 0
      BY <2>2, <2>3, <2>4, <2>5, <3>2, DelayIs
    <3>. QED  BY <3>1, <3>2
  <2>. QED  BY <2>6 DEF u
<1>. QED  BY <1>1, InputsAlways, PTL

-----------------------------------------------------------------------------
(* Fingerprints.  Digits determine a number among those that differ by     *)
(* less than the word, and a prefix of known length can be split off.      *)

\* The law of exponents for the values of a byte.
PowersOfBase ==
  /\ Base ^ 0 = 1
  /\ \A k \in Nat : Base ^ k \in Nat \ {0} /\ Base ^ (k + 1) = Base ^ k * Base

\* Dividing twice is dividing by the product.
LEMMA DivideTwice ==
  ASSUME NEW n \in Int, NEW p \in Nat \ {0}, NEW b \in Nat \ {0}
  PROVE  n \div (p * b) = (n \div p) \div b
<1>. DEFINE q == n \div p
            r == n % p
            d == q \div b
            e == q % b
<1>1. q \in Int /\ r \in 0..(p - 1) /\ n = p * q + r
  OBVIOUS
<1>. HIDE DEF q, r
<1>2. d \in Int /\ e \in 0..(b - 1) /\ q = b * d + e
  BY <1>1
<1>. HIDE DEF d, e
<1>. DEFINE w == p * b
            t == p * e + r
<1>3. p * q = w * d + p * e
  <2>1. p * q = p * (b * d + e)
    BY <1>2
  <2>2. p * (b * d + e) = (p * b) * d + p * e
    BY <1>2
  <2>. QED  BY <2>1, <2>2
<1>4. w \in Nat \ {0} /\ t \in Int /\ n = w * d + t
  BY <1>1, <1>2, <1>3
<1>5. t >= 0 /\ t < w
  <2>1. p * e >= 0
    BY <1>2
  <2>2. p * e <= p * (b - 1)
    BY <1>2
  <2>3. p * (b - 1) = w - p
    OBVIOUS
  <2>4. p * e \in Int /\ w \in Int
    BY <1>2
  <2>. QED  BY <1>1, <2>1, <2>2, <2>3, <2>4
<1>. HIDE DEF w, t
<1>6. (w * d + t) \div w = d
  BY <1>2, <1>4, <1>5
<1>. QED  BY <1>4, <1>6 DEF w, d, q

LEMMA DigitsDetermine ==
  ASSUME PowersOfBase, NEW width \in Nat, NEW m \in Int, NEW n \in Int,
         m - n < Base ^ width, n - m < Base ^ width,
         BigEndian(m, width) = BigEndian(n, width)
  PROVE  m = n
<1>. DEFINE A(k) == m \div Base ^ k
            B(k) == n \div Base ^ k
            Good == {k \in Nat : k <= width => m - n = Base ^ k * (A(k) - B(k))}
<1>1. Base \in Nat \ {0, 1} /\ \A k \in Nat : Base ^ k \in Nat \ {0}
  BY WordAssumption DEF PowersOfBase
<1>2. \A k \in Nat : A(k) \in Int /\ B(k) \in Int
  BY <1>1
<1>3. 0 \in Good
  <2>1. A(0) = m /\ B(0) = n
    BY DEF PowersOfBase
  <2>2. m - n = Base ^ 0 * (A(0) - B(0))
    BY <2>1 DEF PowersOfBase
  <2>. QED  BY <2>2
<1>4. ASSUME NEW k \in Nat, k \in Good PROVE k + 1 \in Good
  <2>. SUFFICES ASSUME k + 1 <= width
                PROVE  m - n = Base ^ (k + 1) * (A(k + 1) - B(k + 1))
    OBVIOUS
  <2>1. m - n = Base ^ k * (A(k) - B(k))
    BY <1>4
  <2>2. A(k) % Base = B(k) % Base
    <3>. DEFINE i == width - k
    <3>1. i \in 1..width /\ width - i = k
      OBVIOUS
    <3>2. BigEndian(m, width)[i] = A(width - i) % Base
      BY <3>1 DEF BigEndian
    <3>3. BigEndian(n, width)[i] = B(width - i) % Base
      BY <3>1 DEF BigEndian
    <3>. HIDE DEF i, A, B
    <3>. QED  BY <3>1, <3>2, <3>3
  <2>3. A(k + 1) = A(k) \div Base /\ B(k + 1) = B(k) \div Base
    <3>1. Base ^ (k + 1) = Base ^ k * Base
      BY DEF PowersOfBase
    <3>2. ASSUME NEW x \in Int
          PROVE  x \div (Base ^ k * Base) = (x \div Base ^ k) \div Base
      <4>. DEFINE p == Base ^ k
      <4>1. p \in Nat \ {0} /\ Base \in Nat \ {0}
        BY <1>1
      <4>. HIDE DEF p
      <4>2. x \div (p * Base) = (x \div p) \div Base
        BY <4>1, DivideTwice, Zenon
      <4>. QED  BY <4>2 DEF p
    <3>. QED  BY <3>1, <3>2
  <2>4. A(k) - B(k) = Base * (A(k + 1) - B(k + 1))
    <3>1. \A x \in Int : /\ x = Base * (x \div Base) + (x % Base)
                        /\ x \div Base \in Int /\ x % Base \in Int
      BY <1>1
    <3>2. /\ A(k) = Base * A(k + 1) + (A(k) % Base)
          /\ B(k) = Base * B(k + 1) + (B(k) % Base)
          /\ A(k) % Base \in Int
      BY <1>2, <2>3, <3>1
    <3>3. k + 1 \in Nat
      OBVIOUS
    <3>. HIDE DEF A, B
    <3>4. /\ A(k + 1) \in Int /\ B(k + 1) \in Int
          /\ Base * (A(k + 1) - B(k + 1)) = Base * A(k + 1) - Base * B(k + 1)
          /\ Base * A(k + 1) \in Int /\ Base * B(k + 1) \in Int
      BY <1>1, <1>2, <3>3
    <3>. QED  BY <2>2, <3>2, <3>4
  <2>5. Base ^ (k + 1) = Base ^ k * Base
    BY DEF PowersOfBase
  <2>. DEFINE P == Base ^ k
              c == A(k + 1) - B(k + 1)
  <2>6. P \in Int /\ c \in Int /\ Base \in Int
    BY <1>1, <1>2
  <2>. HIDE DEF P, c
  <2>7. P * (Base * c) = (P * Base) * c
    BY <2>6
  <2>. QED  BY <2>1, <2>4, <2>5, <2>7 DEF P, c
<1>5. width \in Good
  <2>1. Nat \subseteq Good
    <3>. HIDE DEF Good
    <3>. QED  BY <1>3, <1>4, SetInduction
  <2>. QED  BY <2>1
<1>. DEFINE P == Base ^ width
            c == A(width) - B(width)
<1>6. P \in Nat \ {0} /\ c \in Int /\ m - n = P * c /\ m - n < P /\ n - m < P
  BY <1>1, <1>2, <1>5
<1>. HIDE DEF P, c
<1>7. ~(c >= 1)
  <2>1. c >= 1 => P * c >= P
    BY <1>6
  <2>. QED  BY <1>6, <2>1
<1>8. ~(c <= -1)
  <2>1. c <= -1 => P * c <= -P
    BY <1>6
  <2>. QED  BY <1>6, <2>1
<1>9. c = 0
  BY <1>6, <1>7, <1>8
<1>. QED  BY <1>6, <1>9

LEMMA WordTyped ==
  ASSUME PowersOfBase, NEW n \in Int, NEW width \in Nat
  PROVE  BigEndian(n, width) \in Seq(Int) /\ Len(BigEndian(n, width)) = width
<1>1. \A i \in 1..width : (n \div Base ^ (width - i)) % Base \in Int
  <2>. SUFFICES ASSUME NEW i \in 1..width PROVE (n \div Base ^ (width - i)) % Base \in Int
    OBVIOUS
  <2>1. width - i \in Nat
    OBVIOUS
  <2>2. Base ^ (width - i) \in Nat \ {0}
    BY <2>1 DEF PowersOfBase
  <2>. QED  BY <2>2, WordAssumption
<1>2. BigEndian(n, width) \in [1..width -> Int]
  BY <1>1 DEF BigEndian
<1>. QED  BY <1>2

\* Sequences that start with pieces of one length have the pieces in common.
LEMMA SplitOff ==
  ASSUME NEW u \in Seq(Int), NEW v \in Seq(Int), NEW x \in Seq(Int), NEW y \in Seq(Int),
         Len(u) = Len(x), u \o v = x \o y
  PROVE  u = x /\ v = y
<1>1. u = x
  <2>1. \A i \in 1..Len(u) : u[i] = (u \o v)[i] /\ x[i] = (x \o y)[i]
    BY ConcatProperties
  <2>. QED  BY <2>1, SeqEqual
<1>2. v = y
  BY <1>1, ConcatSimplifications
<1>. QED  BY <1>1, <1>2

\* Concatenation with its meaning hidden: what follows only needs these laws.
Joined(u, v) == u \o v

\* The byte that announces a time.
Present == <<1>>

LEMMA JoinedLaws ==
  /\ \A u, v \in Seq(Int) : Joined(u, v) \in Seq(Int)
  /\ \A u, v, w \in Seq(Int) : Joined(Joined(u, v), w) = Joined(u, Joined(v, w))
  /\ \A u, v, x, y \in Seq(Int) :
       Len(u) = Len(x) /\ Joined(u, v) = Joined(x, y) => u = x /\ v = y
<1>1. \A u, v \in Seq(Int) : Joined(u, v) \in Seq(Int)
  BY ConcatProperties DEF Joined
<1>2. ASSUME NEW u \in Seq(Int), NEW v \in Seq(Int), NEW w \in Seq(Int)
      PROVE  Joined(Joined(u, v), w) = Joined(u, Joined(v, w))
  BY ConcatAssociative DEF Joined
<1>3. ASSUME NEW u \in Seq(Int), NEW v \in Seq(Int), NEW x \in Seq(Int), NEW y \in Seq(Int),
             Len(u) = Len(x), Joined(u, v) = Joined(x, y)
      PROVE  u = x /\ v = y
  BY <1>3, SplitOff DEF Joined
<1>. QED  BY <1>1, <1>2, <1>3

LEMMA JoinedCancels ==
  ASSUME NEW u \in Seq(Int), NEW v \in Seq(Int), NEW y \in Seq(Int), Joined(u, v) = Joined(u, y)
  PROVE  v = y
  BY ConcatSimplifications DEF Joined

\* Every request the hash can be given: fields shorter than a word counts, a
\* budget and a time of their words.
Hashable ==
  LET Field == {f \in Seq(Int) : Len(f) < Base ^ WordBytes}
      Signed == {n \in Int : -(Base ^ WordBytes \div 2) <= n /\ n < Base ^ WordBytes \div 2}
      Times == Signed \X {n \in Nat : n < Base ^ NanoBytes}
  IN [queue : Field, kind : Field, payload : Field,
      max_attempts : {n \in Nat : n < Base ^ WordBytes},
      available_at : Times \union {NULL}]

timeInput(t) ==
  IF t = NULL THEN <<0>>
  ELSE (<<1>> \o BigEndian(t[1], WordBytes)) \o BigEndian(t[2], NanoBytes)

LEMMA FieldTyped ==
  ASSUME PowersOfBase, NEW f \in Seq(Int)
  PROVE  writeFingerprintField(f) \in Seq(Int)
<1>1. BigEndian(Len(f), WordBytes) \in Seq(Int)
  BY WordTyped, WordAssumption
<1>. QED  BY <1>1, ConcatProperties DEF writeFingerprintField

\* A framed field can be told from what follows it.
LEMMA FieldSplits ==
  ASSUME PowersOfBase,
         NEW f \in Seq(Int), NEW g \in Seq(Int), NEW v \in Seq(Int), NEW w \in Seq(Int),
         Len(f) < Base ^ WordBytes, Len(g) < Base ^ WordBytes,
         writeFingerprintField(f) \o v = writeFingerprintField(g) \o w
  PROVE  f = g /\ v = w
<1>. DEFINE m == Len(f)
            n == Len(g)
            a == BigEndian(m, WordBytes)
            b == BigEndian(n, WordBytes)
<1>1. m \in Nat /\ n \in Nat /\ WordBytes \in Nat /\ Base ^ WordBytes \in Nat
  <2>1. m \in Nat /\ n \in Nat
    OBVIOUS
  <2>. HIDE DEF m, n
  <2>. QED  BY <2>1, WordAssumption DEF PowersOfBase
<1>2. a \in Seq(Int) /\ b \in Seq(Int) /\ Len(a) = WordBytes /\ Len(b) = WordBytes
  BY <1>1, WordTyped
<1>3. Joined(Joined(a, f), v) = Joined(Joined(b, g), w)
  BY DEF writeFingerprintField, Joined
<1>4. m - n < Base ^ WordBytes /\ n - m < Base ^ WordBytes
  BY <1>1
<1>5. a = b => m = n
  <2>. HIDE DEF m, n
  <2>. QED  BY <1>1, <1>4, DigitsDetermine
<1>. HIDE DEF a, b
<1>6. Joined(a, Joined(f, v)) = Joined(b, Joined(g, w))
  BY <1>2, <1>3, JoinedLaws
<1>7. a = b /\ Joined(f, v) = Joined(g, w)
  BY <1>2, <1>6, JoinedLaws
<1>8. Len(f) = Len(g)
  BY <1>5, <1>7
<1>. QED  BY <1>7, <1>8, JoinedLaws

LEMMA TimeTyped ==
  ASSUME PowersOfBase, NEW r \in Hashable
  PROVE  timeInput(r.available_at) \in Seq(Int)
<1>1. CASE r.available_at = NULL
  BY <1>1 DEF timeInput
<1>2. CASE r.available_at # NULL
  <2>. DEFINE t == r.available_at
  <2>1. t[1] \in Int /\ t[2] \in Int
    BY <1>2 DEF Hashable
  <2>2. BigEndian(t[1], WordBytes) \in Seq(Int) /\ BigEndian(t[2], NanoBytes) \in Seq(Int)
    BY <2>1, WordTyped, WordAssumption
  <2>. HIDE DEF t
  <2>3. <<1>> \o BigEndian(t[1], WordBytes) \in Seq(Int)
    BY <2>2, ConcatProperties
  <2>4. (<<1>> \o BigEndian(t[1], WordBytes)) \o BigEndian(t[2], NanoBytes) \in Seq(Int)
    BY <2>2, <2>3, ConcatProperties
  <2>. QED  BY <1>2, <2>4 DEF timeInput, t
<1>. QED  BY <1>1, <1>2

LEMMA TimeDetermined ==
  ASSUME PowersOfBase, NEW r \in Hashable, NEW s \in Hashable,
         timeInput(r.available_at) = timeInput(s.available_at)
  PROVE  r.available_at = s.available_at
<1>. DEFINE x == r.available_at
            y == s.available_at
            half == Base ^ WordBytes \div 2
<1>1. WordBytes \in Nat /\ NanoBytes \in Nat
      /\ Base ^ WordBytes \in Nat /\ Base ^ NanoBytes \in Nat
  BY WordAssumption DEF PowersOfBase
<1>2. ASSUME NEW t, t # NULL, t = x \/ t = y
      PROVE  /\ t = <<t[1], t[2]>> /\ t[1] \in Int /\ t[2] \in Nat
             /\ -half <= t[1] /\ t[1] < half /\ t[2] < Base ^ NanoBytes
  BY <1>2 DEF Hashable
<1>3. ASSUME NEW a \in Seq(Int), NEW b \in Seq(Int)
      PROVE  /\ Joined(Joined(Present, a), b) = Joined(Present, Joined(a, b))
             /\ Joined(Present, Joined(a, b))[1] = 1
  <2>1. Present \in Seq(Int)
    BY DEF Present
  <2>2. Joined(a, b) \in Seq(Int)
    BY JoinedLaws
  <2>3. Joined(Joined(Present, a), b) = Joined(Present, Joined(a, b))
    BY <2>1, JoinedLaws
  <2>. DEFINE c == Joined(a, b)
  <2>. HIDE DEF c
  <2>4. Joined(Present, c)[1] = 1
    BY <2>2 DEF c, Joined, Present
  <2>. QED  BY <2>3, <2>4 DEF c
<1>4. ASSUME NEW t, t # NULL, t = x \/ t = y
      PROVE  /\ BigEndian(t[1], WordBytes) \in Seq(Int) /\ BigEndian(t[2], NanoBytes) \in Seq(Int)
             /\ Len(BigEndian(t[1], WordBytes)) = WordBytes
             /\ timeInput(t) = Joined(Present, Joined(BigEndian(t[1], WordBytes), BigEndian(t[2], NanoBytes)))
             /\ timeInput(t)[1] = 1
  <2>1. t[1] \in Int /\ t[2] \in Int
    BY <1>2, <1>4
  <2>2. /\ BigEndian(t[1], WordBytes) \in Seq(Int) /\ Len(BigEndian(t[1], WordBytes)) = WordBytes
        /\ BigEndian(t[2], NanoBytes) \in Seq(Int)
    BY <1>1, <2>1, WordTyped
  <2>3. timeInput(t) = Joined(Joined(Present, BigEndian(t[1], WordBytes)), BigEndian(t[2], NanoBytes))
    BY <1>4 DEF timeInput, Joined, Present
  <2>. QED  BY <1>3, <2>2, <2>3
<1>5. timeInput(NULL)[1] = 0
  BY DEF timeInput
<1>6. x = NULL <=> y = NULL
  BY <1>4, <1>5
<1>7. CASE x = NULL
  BY <1>6, <1>7
<1>8. CASE x # NULL
  <2>1. y # NULL
    BY <1>6, <1>8
  <2>. DEFINE a == BigEndian(x[1], WordBytes)
              b == BigEndian(x[2], NanoBytes)
              c == BigEndian(y[1], WordBytes)
              d == BigEndian(y[2], NanoBytes)
  <2>2. /\ a \in Seq(Int) /\ b \in Seq(Int) /\ c \in Seq(Int) /\ d \in Seq(Int)
        /\ Len(a) = Len(c)
        /\ Joined(Present, Joined(a, b)) = Joined(Present, Joined(c, d))
    BY <1>4, <1>8, <2>1
  <2>3. a = c /\ b = d
    <3>. HIDE DEF a, b, c, d
    <3>1. Joined(a, b) \in Seq(Int) /\ Joined(c, d) \in Seq(Int) /\ Present \in Seq(Int)
      BY <2>2, JoinedLaws DEF Present
    <3>2. Joined(a, b) = Joined(c, d)
      <4>. DEFINE p == Joined(a, b)
                  q == Joined(c, d)
      <4>1. p \in Seq(Int) /\ q \in Seq(Int) /\ Joined(Present, p) = Joined(Present, q)
        BY <2>2, <3>1
      <4>. HIDE DEF p, q
      <4>2. p = q
        BY <3>1, <4>1, JoinedCancels
      <4>. QED  BY <4>2 DEF p, q
    <3>. QED  BY <2>2, <3>2, JoinedLaws
  <2>4. /\ x = <<x[1], x[2]>> /\ x[1] \in Int /\ x[2] \in Nat
        /\ y = <<y[1], y[2]>> /\ y[1] \in Int /\ y[2] \in Nat
        /\ -half <= x[1] /\ x[1] < half /\ x[2] < Base ^ NanoBytes
        /\ -half <= y[1] /\ y[1] < half /\ y[2] < Base ^ NanoBytes
    BY <1>2, <1>8, <2>1
  <2>5. half \in Int /\ 2 * half <= Base ^ WordBytes
    BY <1>1
  <2>. HIDE DEF x, y, half
  <2>6. x[1] = y[1]
    <3>1. x[1] - y[1] < Base ^ WordBytes /\ y[1] - x[1] < Base ^ WordBytes
      BY <1>1, <2>4, <2>5
    <3>. QED  BY <1>1, <2>3, <2>4, <3>1, DigitsDetermine
  <2>7. x[2] = y[2]
    <3>1. x[2] - y[2] < Base ^ NanoBytes /\ y[2] - x[2] < Base ^ NanoBytes
      BY <1>1, <2>4
    <3>. QED  BY <1>1, <2>3, <2>4, <3>1, DigitsDetermine
  <2>. QED  BY <2>4, <2>6, <2>7 DEF x, y
<1>. QED  BY <1>7, <1>8

\* values.go's requestFingerprint hashes different bytes for different requests,
\* whatever their lengths: no byte moves unseen from one field to the next, no
\* budget passes for a payload and no time for none.
THEOREM FingerprintInjective ==
  ASSUME PowersOfBase, NEW r \in Hashable, NEW s \in Hashable, hashInput(r) = hashInput(s)
  PROVE  r = s
<1>. DEFINE F(f) == writeFingerprintField(f)
            budget(x) == BigEndian(x.max_attempts, WordBytes)
            time(x) == timeInput(x.available_at)
            rest3(x) == Joined(budget(x), time(x))
            rest2(x) == Joined(F(x.payload), rest3(x))
            rest1(x) == Joined(F(x.kind), rest2(x))
<1>1. WordBytes \in Nat /\ NanoBytes \in Nat /\ Base ^ WordBytes \in Nat
  BY WordAssumption DEF PowersOfBase
<1>2. ASSUME NEW x \in Hashable
      PROVE  /\ x.queue \in Seq(Int) /\ Len(x.queue) < Base ^ WordBytes
             /\ x.kind \in Seq(Int) /\ Len(x.kind) < Base ^ WordBytes
             /\ x.payload \in Seq(Int) /\ Len(x.payload) < Base ^ WordBytes
             /\ x.max_attempts \in Nat /\ x.max_attempts < Base ^ WordBytes
             /\ x = [queue |-> x.queue, kind |-> x.kind, payload |-> x.payload,
                     max_attempts |-> x.max_attempts, available_at |-> x.available_at]
  BY <1>2 DEF Hashable
<1>3. ASSUME NEW x \in Hashable
      PROVE  /\ F(x.queue) \in Seq(Int) /\ F(x.kind) \in Seq(Int) /\ F(x.payload) \in Seq(Int)
             /\ budget(x) \in Seq(Int) /\ Len(budget(x)) = WordBytes
             /\ time(x) \in Seq(Int)
  <2>1. F(x.queue) \in Seq(Int) /\ F(x.kind) \in Seq(Int) /\ F(x.payload) \in Seq(Int)
    BY <1>2, FieldTyped
  <2>2. budget(x) \in Seq(Int) /\ Len(budget(x)) = WordBytes
    BY <1>1, <1>2, WordTyped
  <2>3. time(x) \in Seq(Int)
    BY TimeTyped
  <2>. QED  BY <2>1, <2>2, <2>3
<1>4. ASSUME NEW x \in Hashable
      PROVE  hashInput(x) = Joined(Joined(Joined(Joined(F(x.queue), F(x.kind)), F(x.payload)),
                                   budget(x)), time(x))
  <2>1. CASE x.available_at = NULL
    BY <2>1 DEF hashInput, timeInput, Joined
  <2>2. CASE x.available_at # NULL
    BY <2>2 DEF hashInput, timeInput, Joined
  <2>. QED  BY <2>1, <2>2
<1>. HIDE DEF F, budget, time
<1>5. ASSUME NEW x \in Hashable
      PROVE  /\ hashInput(x) = Joined(F(x.queue), rest1(x))
             /\ rest1(x) \in Seq(Int) /\ rest2(x) \in Seq(Int) /\ rest3(x) \in Seq(Int)
  <2>. DEFINE a == F(x.queue)
              b == F(x.kind)
              c == F(x.payload)
              d == budget(x)
              e == time(x)
  <2>1. a \in Seq(Int) /\ b \in Seq(Int) /\ c \in Seq(Int) /\ d \in Seq(Int) /\ e \in Seq(Int)
    BY <1>3
  <2>. HIDE DEF a, b, c, d, e
  <2>2. Joined(d, e) \in Seq(Int) /\ Joined(a, b) \in Seq(Int)
    BY <2>1, JoinedLaws
  <2>3. Joined(c, Joined(d, e)) \in Seq(Int) /\ Joined(Joined(a, b), c) \in Seq(Int)
    BY <2>1, <2>2, JoinedLaws
  <2>4. Joined(b, Joined(c, Joined(d, e))) \in Seq(Int)
    BY <2>1, <2>3, JoinedLaws
  <2>5. hashInput(x) = Joined(Joined(Joined(Joined(a, b), c), d), e)
    BY <1>4 DEF a, b, c, d, e
  <2>6. hashInput(x) = Joined(a, Joined(b, Joined(c, Joined(d, e))))
    BY <2>1, <2>2, <2>3, <2>5, JoinedLaws
  <2>. QED  BY <2>2, <2>3, <2>4, <2>6 DEF a, b, c, d, e
<1>6. r.queue = s.queue /\ rest1(r) = rest1(s)
  <2>1. Joined(F(r.queue), rest1(r)) = Joined(F(s.queue), rest1(s))
    BY <1>5
  <2>2. /\ r.queue \in Seq(Int) /\ Len(r.queue) < Base ^ WordBytes /\ rest1(r) \in Seq(Int)
        /\ s.queue \in Seq(Int) /\ Len(s.queue) < Base ^ WordBytes /\ rest1(s) \in Seq(Int)
    BY <1>2, <1>5
  <2>. HIDE DEF rest1
  <2>. QED  BY <2>1, <2>2, FieldSplits, Zenon DEF F, Joined
<1>7. r.kind = s.kind /\ rest2(r) = rest2(s)
  <2>1. Joined(F(r.kind), rest2(r)) = Joined(F(s.kind), rest2(s))
    BY <1>6
  <2>2. /\ r.kind \in Seq(Int) /\ Len(r.kind) < Base ^ WordBytes /\ rest2(r) \in Seq(Int)
        /\ s.kind \in Seq(Int) /\ Len(s.kind) < Base ^ WordBytes /\ rest2(s) \in Seq(Int)
    BY <1>2, <1>5
  <2>. HIDE DEF rest2
  <2>. QED  BY <2>1, <2>2, FieldSplits, Zenon DEF F, Joined
<1>8. r.payload = s.payload /\ rest3(r) = rest3(s)
  <2>1. Joined(F(r.payload), rest3(r)) = Joined(F(s.payload), rest3(s))
    BY <1>7
  <2>2. /\ r.payload \in Seq(Int) /\ Len(r.payload) < Base ^ WordBytes /\ rest3(r) \in Seq(Int)
        /\ s.payload \in Seq(Int) /\ Len(s.payload) < Base ^ WordBytes /\ rest3(s) \in Seq(Int)
    BY <1>2, <1>5
  <2>. HIDE DEF rest3
  <2>. QED  BY <2>1, <2>2, FieldSplits, Zenon DEF F, Joined
<1>9. budget(r) = budget(s) /\ time(r) = time(s)
  BY <1>3, <1>8, JoinedLaws
<1>10. r.max_attempts = s.max_attempts
  <2>. DEFINE m == r.max_attempts
              n == s.max_attempts
  <2>1. m \in Nat /\ n \in Nat /\ m < Base ^ WordBytes /\ n < Base ^ WordBytes
    BY <1>2
  <2>2. BigEndian(m, WordBytes) = BigEndian(n, WordBytes)
    BY <1>9 DEF budget
  <2>. HIDE DEF m, n
  <2>3. m \in Int /\ n \in Int /\ m - n < Base ^ WordBytes /\ n - m < Base ^ WordBytes
    BY <1>1, <2>1
  <2>4. m = n
    BY <1>1, <2>2, <2>3, DigitsDetermine
  <2>. QED  BY <2>4 DEF m, n
<1>11. r.available_at = s.available_at
  BY <1>9, TimeDetermined DEF time
<1>. QED  BY <1>2, <1>6, <1>7, <1>8, <1>10, <1>11

\* The request under examination is one of the run's requests.
RequestKnown == subject = "request" => request \in Requests

LEMMA StringsAre ==
  ASSUME NEW min \in Nat, NEW max \in Nat
  PROVE  Strings(min, max) = {f \in Seq(Bytes) : min <= Len(f) /\ Len(f) <= max}
<1>1. ASSUME NEW f \in Strings(min, max)
      PROVE  f \in Seq(Bytes) /\ min <= Len(f) /\ Len(f) <= max
  <2>1. PICK n \in min..max : f \in [1..n -> Bytes]
    BY DEF Strings
  <2>2. n \in Nat
    OBVIOUS
  <2>3. f \in Seq(Bytes) /\ Len(f) = n
    BY <2>1, <2>2
  <2>. QED  BY <2>3
<1>2. ASSUME NEW f \in Seq(Bytes), min <= Len(f), Len(f) <= max
      PROVE  f \in Strings(min, max)
  <2>1. Len(f) \in min..max /\ f \in [1..Len(f) -> Bytes]
    BY <1>2
  <2>. QED  BY <2>1 DEF Strings
<1>. QED  BY <1>1, <1>2

LEMMA StringGrows ==
  ASSUME NEW min \in Nat, NEW max \in Nat, NEW f \in Strings(min, max), Len(f) < max,
         NEW b \in Bytes
  PROVE  Append(f, b) \in Strings(min, max)
<1>1. f \in Seq(Bytes) /\ min <= Len(f)
  BY StringsAre
<1>2. Append(f, b) \in Seq(Bytes) /\ Len(Append(f, b)) = Len(f) + 1 /\ Len(f) \in Nat
  BY <1>1
<1>3. min <= Len(Append(f, b)) /\ Len(Append(f, b)) <= max
  BY <1>1, <1>2
<1>4. Strings(min, max) = {g \in Seq(Bytes) : min <= Len(g) /\ Len(g) <= max}
  BY StringsAre
<1>. QED  BY <1>2, <1>3, <1>4

LEMMA RequestAlways == LimitsSpec => []RequestKnown
<1>1. LimitsInit => RequestKnown
  BY DEF LimitsInit, RequestKnown, ShortRequests
<1>2. RequestKnown /\ [LimitsNext]_<<vars, subject, inputs>> => RequestKnown'
  <2>. SUFFICES ASSUME RequestKnown, [LimitsNext]_<<vars, subject, inputs>> PROVE RequestKnown'
    OBVIOUS
  <2>1. CASE AttemptFails
    BY <2>1 DEF AttemptFails, RequestKnown
  <2>2. CASE LongerText
    BY <2>2 DEF LongerText, RequestKnown
  <2>3. CASE LongerRequest
    <3>1. request \in Requests /\ subject' = subject
      BY <2>3 DEF LongerRequest, RequestKnown
    <3>2. /\ request.queue \in Strings(1, LongestName) /\ request.kind \in Strings(1, LongestName)
          /\ request.payload \in Strings(0, LongestPayload)
          /\ LongestName \in Nat /\ LongestPayload \in Nat
      BY <3>1, SizeAssumption DEF Requests
    <3>3. PICK b \in Bytes :
            \/ /\ Len(request.queue) < LongestName
               /\ request' = [request EXCEPT !.queue = Append(@, b)]
            \/ /\ Len(request.kind) < LongestName
               /\ request' = [request EXCEPT !.kind = Append(@, b)]
            \/ /\ Len(request.payload) < LongestPayload
               /\ request' = [request EXCEPT !.payload = Append(@, b)]
      BY <2>3 DEF LongerRequest
    <3>4. Len(request.queue) < LongestName => Append(request.queue, b) \in Strings(1, LongestName)
      BY <3>2, StringGrows
    <3>5. Len(request.kind) < LongestName => Append(request.kind, b) \in Strings(1, LongestName)
      BY <3>2, StringGrows
    <3>6. Len(request.payload) < LongestPayload => Append(request.payload, b) \in Strings(0, LongestPayload)
      BY <3>2, StringGrows
    <3>7. request' \in Requests
      BY <3>1, <3>3, <3>4, <3>5, <3>6 DEF Requests
    <3>. QED  BY <3>7 DEF RequestKnown
  <2>4. CASE Renews
    BY <2>4 DEF Renews, inputs, RequestKnown
  <2>5. CASE UNCHANGED <<vars, subject, inputs>>
    BY <2>5 DEF inputs, RequestKnown
  <2>. QED  BY <2>1, <2>2, <2>3, <2>4, <2>5 DEF LimitsNext
<1>. QED  BY <1>1, <1>2, PTL DEF LimitsSpec

\* The run's requests are among those of FingerprintInjective.
LEMMA RequestsHashable == ASSUME PowersOfBase PROVE Requests \subseteq Hashable
<1>. DEFINE M == Base ^ WordBytes
<1>1. M \in Nat /\ M >= 2 /\ Base ^ NanoBytes >= 2 /\ Base ^ NanoBytes \in Nat
  <2>1. ASSUME NEW k \in Nat \ {0} PROVE Base ^ k \in Nat /\ Base ^ k >= 2
    <3>. DEFINE p == Base ^ (k - 1)
    <3>1. k - 1 \in Nat /\ (k - 1) + 1 = k
      OBVIOUS
    <3>2. p \in Nat \ {0} /\ Base ^ k = p * Base
      BY <3>1 DEF PowersOfBase
    <3>3. Base \in Nat /\ Base >= 2
      BY WordAssumption
    <3>. HIDE DEF p
    <3>4. p * Base >= Base /\ p * Base \in Nat
      BY <3>2, <3>3
    <3>. QED  BY <3>2, <3>3, <3>4
  <2>. QED  BY <2>1, WordAssumption
<1>2. \A f \in Strings(1, LongestName) \union Strings(0, LongestPayload) :
        f \in Seq(Int) /\ Len(f) < M
  <2>1. Bytes \subseteq Int
    BY WordAssumption DEF Bytes
  <2>2. ASSUME NEW f \in Seq(Bytes) PROVE f \in Seq(Int) /\ Len(f) \in Nat
    <3>1. Len(f) \in Nat /\ f \in [1..Len(f) -> Bytes]
      OBVIOUS
    <3>2. f \in [1..Len(f) -> Int]
      BY <2>1, <3>1
    <3>. QED  BY <3>1, <3>2
  <2>3. \A f \in Strings(1, LongestName) : f \in Seq(Bytes) /\ Len(f) <= LongestName
    BY SizeAssumption, StringsAre
  <2>4. \A f \in Strings(0, LongestPayload) : f \in Seq(Bytes) /\ Len(f) <= LongestPayload
    BY SizeAssumption, StringsAre
  <2>5. LongestName \in Nat /\ LongestName < M /\ LongestPayload \in Nat /\ LongestPayload < M
    BY SizeAssumption
  <2>. HIDE DEF M
  <2>. QED  BY <1>1, <2>2, <2>3, <2>4, <2>5
<1>3. \A n \in Budgets : n \in Nat /\ n < M
  BY SizeAssumption
<1>4. \A t \in {<<0, 0>>} \union (Seconds \X {1}) :
        t \in {n \in Int : -(M \div 2) <= n /\ n < M \div 2} \X {n \in Nat : n < Base ^ NanoBytes}
  <2>1. M \div 2 \in Nat /\ M \div 2 >= 1
    BY <1>1
  <2>2. Seconds = {-(M \div 2), -1, M \div 2 - 1}
    BY DEF Seconds
  <2>. DEFINE h == M \div 2
  <2>. HIDE DEF h, M
  <2>3. \A n \in {-h, -1, h - 1} \union {0} : n \in Int /\ -h <= n /\ n < h
    BY <2>1 DEF h
  <2>. QED  BY <1>1, <2>2, <2>3 DEF h
<1>. QED  BY <1>2, <1>3, <1>4 DEF Requests, Hashable

\* requestFingerprint over the requests a run examines: two that hash the same
\* bytes are one request, so that a reused key is a duplicate exactly then.
THEOREM FingerprintsBind == ASSUME PowersOfBase PROVE LimitsSpec => []FingerprintBinds
<1>1. RequestKnown => FingerprintBinds
  BY RequestsHashable, FingerprintInjective DEF RequestKnown, FingerprintBinds
<1>. QED  BY <1>1, RequestAlways, PTL

-----------------------------------------------------------------------------
(* Failure texts.  A byte's place in its rune depends on its neighbours    *)
(* only, so that validity survives concatenation, a cut before the first   *)
(* byte of a rune, and the replacement of bytes that stand alone.          *)

Byte == {"a", "0", "c", "r", "?", "."}
Ascii == {"a", "0"}

\* A rune of three bytes starts at i.
Starts(s, i) ==
  /\ i \in 1..Len(s) /\ i + 2 <= Len(s) /\ s[i] \in {"r", "?", "."}
  /\ s[i + 1] = "c" /\ s[i + 2] = "c"

LEMMA WidthIs ==
  ASSUME NEW s \in Seq(Byte), NEW i \in 1..Len(s)
  PROVE  Width(s, i) = IF s[i] \in Ascii THEN 1 ELSE IF Starts(s, i) THEN 3 ELSE 0
<1>1. CASE s[i] \in Ascii
  BY <1>1 DEF Width, Ascii
<1>2. CASE s[i] \notin Ascii /\ Starts(s, i)
  BY <1>2 DEF Width, Ascii, Starts
<1>3. CASE s[i] \notin Ascii /\ ~Starts(s, i)
  BY <1>3 DEF Width, Ascii, Starts
<1>. QED  BY <1>1, <1>2, <1>3

LEMMA InRuneIs ==
  ASSUME NEW s \in Seq(Byte), NEW i \in 1..Len(s)
  PROVE  InRune(s, i) <=> \/ s[i] \in Ascii \/ Starts(s, i)
                          \/ Starts(s, i - 1) \/ Starts(s, i - 2)
<1>1. InRune(s, i) <=> \/ Width(s, i) > 0
                       \/ i - 1 \in 1..Len(s) /\ Width(s, i - 1) > 1
                       \/ i - 2 \in 1..Len(s) /\ Width(s, i - 2) > 2
  <2>1. DOMAIN s = 1..Len(s) /\ i - 0 = i
    OBVIOUS
  <2>2. 0..2 = {0, 1, 2}
    OBVIOUS
  <2>. QED  BY <2>1, <2>2 DEF InRune
<1>2. \A j \in 1..Len(s) : /\ Width(s, j) > 0 <=> s[j] \in Ascii \/ Starts(s, j)
                           /\ Width(s, j) > 1 <=> Starts(s, j)
                           /\ Width(s, j) > 2 <=> Starts(s, j)
  BY WidthIs DEF Starts, Ascii
<1>3. \A j : Starts(s, j) => j \in 1..Len(s)
  BY DEF Starts
<1>. QED  BY <1>1, <1>2, <1>3

LEMMA ConcatValid ==
  ASSUME NEW u \in Seq(Byte), NEW v \in Seq(Byte), ValidString(u), ValidString(v)
  PROVE  u \o v \in Seq(Byte) /\ ValidString(u \o v)
<1>. DEFINE w == u \o v
            m == Len(u)
            n == Len(v)
<1>1. /\ w \in Seq(Byte) /\ Len(w) = m + n /\ m \in Nat /\ n \in Nat
      /\ \A i \in 1..m : w[i] = u[i]
      /\ \A i \in 1..n : w[m + i] = v[i]
  OBVIOUS
<1>2. \A i \in Int : Starts(u, i) => Starts(w, i)
  BY <1>1 DEF Starts
<1>3. ASSUME NEW i \in Int, Starts(v, i) PROVE Starts(w, m + i)
  <2>1. /\ i \in 1..n /\ i + 1 \in 1..n /\ i + 2 \in 1..n
        /\ m + (i + 1) = (m + i) + 1 /\ m + (i + 2) = (m + i) + 2
    BY <1>1, <1>3 DEF Starts
  <2>2. w[m + i] = v[i] /\ w[(m + i) + 1] = v[i + 1] /\ w[(m + i) + 2] = v[i + 2]
    BY <1>1, <2>1
  <2>. HIDE DEF w, m, n
  <2>. QED  BY <1>1, <1>3, <2>1, <2>2 DEF Starts, n
<1>. HIDE DEF w
<1>4. ASSUME NEW i \in 1..m PROVE InRune(w, i)
  <2>1. i \in 1..Len(w)
    BY <1>1
  <2>2. InRune(u, i)
    BY DEF ValidString
  <2>3. u[i] \in Ascii \/ Starts(u, i) \/ Starts(u, i - 1) \/ Starts(u, i - 2)
    BY <2>2, InRuneIs
  <2>4. w[i] \in Ascii \/ Starts(w, i) \/ Starts(w, i - 1) \/ Starts(w, i - 2)
    BY <1>1, <1>2, <2>3
  <2>. QED  BY <1>1, <2>1, <2>4, InRuneIs
<1>5. ASSUME NEW i \in 1..n PROVE InRune(w, m + i)
  <2>1. m + i \in 1..Len(w)
    BY <1>1
  <2>2. InRune(v, i)
    BY DEF ValidString
  <2>3. v[i] \in Ascii \/ Starts(v, i) \/ Starts(v, i - 1) \/ Starts(v, i - 2)
    BY <2>2, InRuneIs
  <2>4. m + (i - 1) = (m + i) - 1 /\ m + (i - 2) = (m + i) - 2
    BY <1>1
  <2>5. w[m + i] \in Ascii \/ Starts(w, m + i) \/ Starts(w, (m + i) - 1) \/ Starts(w, (m + i) - 2)
    <3>1. i \in Int /\ i - 1 \in Int /\ i - 2 \in Int
      BY <1>1
    <3>. HIDE DEF m
    <3>. QED  BY <1>1, <1>3, <2>3, <2>4, <3>1
  <2>. QED  BY <1>1, <2>1, <2>5, InRuneIs
<1>6. ASSUME NEW i \in 1..Len(w) PROVE InRune(w, i)
  <2>1. i \in 1..m \/ (i - m \in 1..n /\ m + (i - m) = i)
    BY <1>1
  <2>. HIDE DEF m, n
  <2>. QED  BY <1>4, <1>5, <2>1
<1>7. DOMAIN w = 1..Len(w)
  BY <1>1
<1>8. ValidString(w)
  BY <1>6, <1>7 DEF ValidString
<1>. QED  BY <1>1, <1>8 DEF w

\* A cut before the first byte of a rune leaves whole runes.
LEMMA CutValid ==
  ASSUME NEW s \in Seq(Byte), ValidString(s), NEW e \in 0..Len(s),
         e = Len(s) \/ RuneStart(s[e + 1])
  PROVE  SubSeq(s, 1, e) \in Seq(Byte) /\ Len(SubSeq(s, 1, e)) = e /\ ValidString(SubSeq(s, 1, e))
<1>. DEFINE t == SubSeq(s, 1, e)
<1>1. t \in Seq(Byte) /\ Len(t) = e /\ \A i \in 1..e : t[i] = s[i]
  OBVIOUS
<1>. HIDE DEF t
<1>2. ASSUME NEW j \in Int, NEW i \in 1..e, Starts(s, j), i \in {j, j + 1, j + 2}
      PROVE  Starts(t, j)
  <2>1. j \in 1..Len(s) /\ j + 2 <= Len(s) /\ s[j + 1] = "c" /\ s[j + 2] = "c"
    BY <1>2 DEF Starts
  <2>2. j + 2 <= e
    <3>1. CASE e = Len(s)
      BY <2>1, <3>1
    <3>2. CASE e # Len(s)
      <4>1. s[e + 1] # "c"
        BY <3>2 DEF RuneStart
      <4>2. e + 1 # j + 1 /\ e + 1 # j + 2
        BY <2>1, <4>1
      <4>. QED  BY <1>2, <2>1, <4>2
    <3>. QED  BY <3>1, <3>2
  <2>. QED  BY <1>1, <1>2, <2>1, <2>2 DEF Starts
<1>3. ASSUME NEW i \in 1..e PROVE InRune(t, i)
  <2>1. i \in 1..Len(s) /\ i \in 1..Len(t) /\ i - 1 \in Int /\ i - 2 \in Int
        /\ i = (i - 1) + 1 /\ i = (i - 2) + 2
    BY <1>1
  <2>2. s[i] \in Ascii \/ Starts(s, i) \/ Starts(s, i - 1) \/ Starts(s, i - 2)
    BY <2>1, InRuneIs DEF ValidString
  <2>3. t[i] \in Ascii \/ Starts(t, i) \/ Starts(t, i - 1) \/ Starts(t, i - 2)
    <3>. DEFINE j == i - 1
                k == i - 2
    <3>1. /\ i \in Int /\ j \in Int /\ k \in Int
          /\ i \in {i, i + 1, i + 2} /\ i \in {j, j + 1, j + 2} /\ i \in {k, k + 1, k + 2}
      BY <2>1
    <3>. HIDE DEF j, k
    <3>2. /\ Starts(s, i) => Starts(t, i)
          /\ Starts(s, j) => Starts(t, j)
          /\ Starts(s, k) => Starts(t, k)
      BY <1>2, <3>1
    <3>3. /\ Starts(s, i - 1) => Starts(t, i - 1)
          /\ Starts(s, i - 2) => Starts(t, i - 2)
      BY <3>2 DEF j, k
    <3>. QED  BY <1>1, <2>2, <3>2, <3>3
  <2>. QED  BY <1>1, <2>1, <2>3, InRuneIs
<1>4. ValidString(t)
  <2>1. DOMAIN t = 1..e
    BY <1>1
  <2>. QED  BY <1>3, <2>1 DEF ValidString
<1>. QED  BY <1>1, <1>4 DEF t

\* What FlattenSeq joins, as the function its definition chooses.
joins(p) ==
  CHOOSE g : g = [i \in 1..Len(p) |-> IF i = 1 THEN p[i] ELSE g[i - 1] \o p[i]]

\* The pieces joined up to each of them.
Joins(f, n, p) == f[0] = <<>> /\ \A i \in 1..n : f[i] = f[i - 1] \o p[i]

LEMMA JoinsExist ==
  ASSUME NEW S, NEW n \in Nat, NEW p \in [1..n -> Seq(S)]
  PROVE  \E f \in [0..n -> Seq(S)] : Joins(f, n, p)
<1>. DEFINE T == Nat \X Seq(S)
            F == [x \in T |-> <<x[1] + 1,
                                IF x[1] + 1 \in 1..n THEN x[2] \o p[x[1] + 1] ELSE x[2]>>]
            start == <<0, <<>>>>
<1>1. start \in T
  <2>1. <<>> \in Seq(S)
    OBVIOUS
  <2>. QED  BY <2>1
<1>2. F \in [T -> T]
  <2>1. ASSUME NEW x \in T PROVE F[x] \in T
    <3>1. x[1] \in Nat /\ x[2] \in Seq(S)
      OBVIOUS
    <3>2. x[1] + 1 \in 1..n => x[2] \o p[x[1] + 1] \in Seq(S)
      BY <3>1, ConcatProperties
    <3>3. F[x] = <<x[1] + 1, IF x[1] + 1 \in 1..n THEN x[2] \o p[x[1] + 1] ELSE x[2]>>
      OBVIOUS
    <3>. HIDE DEF F
    <3>. DEFINE y == IF x[1] + 1 \in 1..n THEN x[2] \o p[x[1] + 1] ELSE x[2]
    <3>4. y \in Seq(S) /\ x[1] + 1 \in Nat /\ F[x] = <<x[1] + 1, y>>
      BY <3>1, <3>2, <3>3
    <3>. HIDE DEF y
    <3>. QED  BY <3>4
  <2>. QED  BY <2>1
<1>3. PICK g \in [Nat -> T] : Iterates(g, F, start)
  <2>. HIDE DEF T, F, start
  <2>. QED  BY <1>1, <1>2, IterationExists
<1>4. \A k \in Nat : g[k] \in T
  BY <1>3
<1>5. g[0] = start /\ \A k \in Nat : g[k + 1] = F[g[k]]
  BY <1>3 DEF Iterates
<1>. DEFINE Counted == {k \in Nat : g[k][1] = k}
<1>6. Nat \subseteq Counted
  <2>1. 0 \in Counted
    BY <1>5
  <2>2. ASSUME NEW k \in Nat, k \in Counted PROVE k + 1 \in Counted
    <3>1. F[g[k]][1] = g[k][1] + 1
      BY <1>4
    <3>2. g[k + 1] = F[g[k]] /\ g[k][1] = k
      BY <1>5, <2>2
    <3>. HIDE DEF F
    <3>3. g[k + 1][1] = k + 1 /\ k + 1 \in Nat
      BY <3>1, <3>2
    <3>. QED  BY <3>3
  <2>. HIDE DEF Counted
  <2>. QED  BY <2>1, <2>2, SetInduction
<1>. DEFINE f == [i \in 0..n |-> g[i][2]]
<1>7. f \in [0..n -> Seq(S)]
  BY <1>4
<1>8. f[0] = <<>>
  BY <1>5
<1>9. ASSUME NEW i \in 1..n PROVE f[i] = f[i - 1] \o p[i]
  <2>1. i - 1 \in Nat /\ (i - 1) + 1 = i /\ i - 1 \in 0..n /\ i \in 0..n
    OBVIOUS
  <2>2. g[i - 1] \in T /\ g[i - 1][1] = i - 1
    BY <1>4, <1>6, <2>1
  <2>3. g[i] = F[g[i - 1]]
    BY <1>5, <2>1
  <2>4. F[g[i - 1]][2] = g[i - 1][2] \o p[i]
    BY <2>1, <2>2
  <2>. HIDE DEF F
  <2>. QED  BY <2>1, <2>3, <2>4
<1>. HIDE DEF f
<1>. QED  BY <1>7, <1>8, <1>9 DEF Joins

LEMMA FlattenJoins ==
  ASSUME NEW S, NEW n \in Nat, NEW p \in [1..n -> Seq(S)]
  PROVE  \E f \in [0..n -> Seq(S)] : Joins(f, n, p) /\ FlattenSeq(p) = f[n]
<1>1. PICK f \in [0..n -> Seq(S)] : Joins(f, n, p)
  BY JoinsExist
<1>2. Len(p) = n /\ p \in Seq(Seq(S))
  OBVIOUS
<1>3. CASE n = 0
  <2>1. p = <<>>
    BY <1>2, <1>3
  <2>2. FlattenSeq(p) = <<>>
    BY <1>2, <1>3, <2>1 DEF FlattenSeq
  <2>. QED  BY <1>1, <1>3, <2>2 DEF Joins
<1>4. CASE n # 0
  <2>. DEFINE Loop(g) == [i \in 1..n |-> IF i = 1 THEN p[i] ELSE g[i - 1] \o p[i]]
              h == [i \in 1..n |-> f[i]]
  <2>1. f[1] = p[1]
    <3>1. f[1] = f[0] \o p[1] /\ f[0] = <<>> /\ p[1] \in Seq(S)
      <4>1. 1 \in 1..n /\ 1 - 1 = 0
        BY <1>4
      <4>. QED  BY <1>1, <4>1 DEF Joins
    <3>. QED  BY <3>1, ConcatEmptySeq
  <2>2. h = Loop(h)
    <3>1. ASSUME NEW i \in 1..n PROVE h[i] = Loop(h)[i]
      <4>1. CASE i = 1
        BY <2>1, <4>1
      <4>2. CASE i # 1
        <5>1. i - 1 \in 1..n
          BY <4>2
        <5>. QED  BY <1>1, <4>2, <5>1 DEF Joins
      <4>. QED  BY <4>1, <4>2
    <3>. QED  BY <3>1
  <2>. DEFINE J == joins(p)
  <2>3. J = Loop(J)
    <3>1. \E g : g = Loop(g)
      <4>. HIDE DEF h, Loop
      <4>. QED  BY <2>2
    <3>2. J = CHOOSE g : g = Loop(g)
      BY <1>2 DEF joins
    <3>. HIDE DEF J, Loop
    <3>. QED  BY <3>1, <3>2
  <2>4. FlattenSeq(p) = J[n]
    BY <1>2, <1>4 DEF FlattenSeq, joins
  <2>. HIDE DEF J
  <2>. DEFINE Same == {i \in Nat : i + 1 <= n => J[i + 1] = f[i + 1]}
  <2>5. 0 \in Same
    BY <1>4, <2>1, <2>3
  <2>6. ASSUME NEW i \in Nat, i \in Same PROVE i + 1 \in Same
    <3>. SUFFICES ASSUME (i + 1) + 1 <= n PROVE J[(i + 1) + 1] = f[(i + 1) + 1]
      OBVIOUS
    <3>. DEFINE k == (i + 1) + 1
    <3>1. k \in 1..n /\ k # 1 /\ k - 1 = i + 1
      OBVIOUS
    <3>2. J[i + 1] = f[i + 1]
      BY <2>6
    <3>. HIDE DEF k
    <3>3. J[k] = J[k - 1] \o p[k]
      BY <2>3, <3>1
    <3>4. f[k] = f[k - 1] \o p[k]
      BY <1>1, <3>1 DEF Joins
    <3>5. J[k] = f[k]
      BY <3>1, <3>2, <3>3, <3>4
    <3>. QED  BY <3>5 DEF k
  <2>7. Nat \subseteq Same
    <3>. HIDE DEF Same
    <3>. QED  BY <2>5, <2>6, SetInduction
  <2>8. J[n] = f[n]
    <3>1. n - 1 \in Nat /\ (n - 1) + 1 = n
      BY <1>4
    <3>. DEFINE k == n - 1
    <3>2. k \in Nat /\ k + 1 = n
      BY <3>1
    <3>. HIDE DEF k
    <3>3. k \in Same
      BY <2>7, <3>2
    <3>4. J[k + 1] = f[k + 1]
      BY <3>2, <3>3
    <3>. QED  BY <3>2, <3>4
  <2>. QED  BY <1>1, <2>4, <2>8
<1>. QED  BY <1>3, <1>4

\* The continuation bytes that the first i bytes of s lack at their end.
missing(s, i) == IF Starts(s, i) THEN 2 ELSE IF Starts(s, i - 1) THEN 1 ELSE 0
Rest(k) == IF k = 0 THEN <<>> ELSE IF k = 1 THEN <<"c">> ELSE <<"c", "c">>

LEMMA ShortTexts ==
  /\ <<>> \in Seq(Byte) /\ ValidString(<<>>)
  /\ \A b \in Ascii : <<b>> \in Seq(Byte) /\ ValidString(<<b>>)
  /\ \A b \in {"r", "?", "."} : <<b, "c", "c">> \in Seq(Byte) /\ ValidString(<<b, "c", "c">>)
<1>1. <<>> \in Seq(Byte) /\ ValidString(<<>>)
  BY DEF ValidString
<1>2. ASSUME NEW b \in Ascii PROVE <<b>> \in Seq(Byte) /\ ValidString(<<b>>)
  <2>. DEFINE s == <<b>>
  <2>1. s \in Seq(Byte) /\ Len(s) = 1 /\ DOMAIN s = 1..1 /\ s[1] = b
    BY DEF Byte, Ascii
  <2>. HIDE DEF s
  <2>2. \A j \in 1..1 : InRune(s, j)
    BY <2>1, InRuneIs
  <2>. QED  BY <2>1, <2>2 DEF ValidString, s
<1>3. ASSUME NEW b \in {"r", "?", "."}
      PROVE  <<b, "c", "c">> \in Seq(Byte) /\ ValidString(<<b, "c", "c">>)
  <2>. DEFINE s == <<b, "c", "c">>
  <2>1. /\ s \in Seq(Byte) /\ Len(s) = 3 /\ DOMAIN s = 1..3
        /\ s[1] = b /\ s[2] = "c" /\ s[3] = "c"
    BY DEF Byte
  <2>. HIDE DEF s
  <2>2. Starts(s, 1)
    BY <2>1 DEF Starts
  <2>3. ASSUME NEW j \in 1..3 PROVE InRune(s, j)
    <3>1. j = 1 \/ j - 1 = 1 \/ j - 2 = 1
      OBVIOUS
    <3>. QED  BY <2>1, <2>2, <3>1, InRuneIs
  <2>. QED  BY <2>1, <2>3 DEF ValidString, s
<1>. QED  BY <1>1, <1>2, <1>3

LEMMA RuneAppended ==
  ASSUME NEW t \in Seq(Byte), NEW b \in Byte
  PROVE  (t \o <<b>>) \o <<"c", "c">> = t \o <<b, "c", "c">>
<1>. DEFINE n == Len(t)
            u == (t \o <<b>>) \o <<"c", "c">>
            v == t \o <<b, "c", "c">>
            w == t \o <<b>>
<1>1. n \in Nat /\ <<b>> \in Seq(Byte) /\ <<"c", "c">> \in Seq(Byte) /\ <<b, "c", "c">> \in Seq(Byte)
  BY DEF Byte
<1>2. w \in Seq(Byte) /\ Len(w) = n + 1 /\ (\A i \in 1..n : w[i] = t[i]) /\ w[n + 1] = b
  BY <1>1
<1>. HIDE DEF w
<1>3. /\ u \in Seq(Byte) /\ Len(u) = n + 3 /\ \A i \in 1..n : u[i] = t[i]
      /\ u[n + 1] = b /\ u[n + 2] = "c" /\ u[n + 3] = "c"
  <2>. DEFINE x == w \o <<"c", "c">>
  <2>1. /\ x \in Seq(Byte) /\ Len(x) = n + 3 /\ \A i \in 1..(n + 1) : x[i] = w[i]
        /\ x[(n + 1) + 1] = "c" /\ x[(n + 1) + 2] = "c"
    BY <1>1, <1>2
  <2>2. u = x /\ (n + 1) + 1 = n + 2 /\ (n + 1) + 2 = n + 3
    BY <1>1 DEF w
  <2>. HIDE DEF x, u
  <2>. QED  BY <1>1, <1>2, <2>1, <2>2
<1>4. /\ v \in Seq(Byte) /\ Len(v) = n + 3 /\ \A i \in 1..n : v[i] = t[i]
      /\ v[n + 1] = b /\ v[n + 2] = "c" /\ v[n + 3] = "c"
  BY <1>1
<1>. HIDE DEF n, u, v
<1>5. ASSUME NEW i \in 1..(n + 3) PROVE u[i] = v[i]
  <2>1. i \in 1..n \/ i = n + 1 \/ i = n + 2 \/ i = n + 3
    BY <1>1
  <2>. QED  BY <1>3, <1>4, <2>1
<1>6. u = v
  BY <1>3, <1>4, <1>5, SeqEqual
<1>. QED  BY <1>6 DEF u, v

\* Joining the bytes of a text again gives a valid text when every byte of a
\* rune of three is kept and every other one becomes a valid piece.
LEMMA FlattenValid ==
  ASSUME NEW s \in Seq(Byte), NEW n \in Nat, n = Len(s), NEW p \in [1..n -> Seq(Byte)],
         \A i \in 1..n : \/ InRune(s, i) /\ p[i] = <<s[i]>>
                         \/ ValidString(p[i]) /\ (s[i] \in Ascii \/ ~InRune(s, i))
  PROVE  FlattenSeq(p) \in Seq(Byte) /\ ValidString(FlattenSeq(p))
<1>1. PICK f \in [0..n -> Seq(Byte)] : Joins(f, n, p) /\ FlattenSeq(p) = f[n]
  BY FlattenJoins
<1>. DEFINE Good == {i \in Nat : i <= n => ValidString(f[i] \o Rest(missing(s, i)))}
<1>2. \A i \in 0..n : f[i] \in Seq(Byte) /\ f[i] \o <<>> = f[i]
  BY <1>1, ConcatEmptySeq
<1>3. 0 \in Good
  <2>1. missing(s, 0) = 0
    BY DEF missing, Starts
  <2>2. f[0] = <<>>
    BY <1>1 DEF Joins
  <2>. QED  BY <1>2, <2>1, <2>2, ShortTexts DEF Rest
<1>4. ASSUME NEW i \in Nat, i \in Good PROVE i + 1 \in Good
  <2>. SUFFICES ASSUME i + 1 <= n
                PROVE  ValidString(f[i + 1] \o Rest(missing(s, i + 1)))
    OBVIOUS
  <2>. DEFINE j == i + 1
              t == f[i]
              q == p[j]
  <2>1. j \in 1..n /\ i \in 0..n /\ j - 1 = i /\ j - 2 = i - 1
    OBVIOUS
  <2>2. ValidString(t \o Rest(missing(s, i)))
    BY <1>4
  <2>3. t \in Seq(Byte) /\ q \in Seq(Byte) /\ f[j] = t \o q /\ t \o <<>> = t
    <3>1. f[j] = f[j - 1] \o p[j]
      BY <1>1, <2>1 DEF Joins
    <3>. QED  BY <1>2, <2>1, <3>1
  <2>4. InRune(s, j) <=> s[j] \in Ascii \/ Starts(s, j) \/ Starts(s, i) \/ Starts(s, i - 1)
    BY <2>1, InRuneIs
  <2>5. /\ Starts(s, i) => s[j] = "c" /\ ~Starts(s, j)
        /\ Starts(s, i - 1) => s[j] = "c" /\ ~Starts(s, j) /\ ~Starts(s, i)
        /\ Starts(s, j) => s[j] \in {"r", "?", "."}
    <3>1. (i - 1) + 1 = i /\ (i - 1) + 2 = j
      OBVIOUS
    <3>. QED  BY <3>1 DEF Starts
  <2>6. missing(s, j) = IF Starts(s, j) THEN 2 ELSE IF Starts(s, i) THEN 1 ELSE 0
    BY <2>1 DEF missing
  <2>. HIDE DEF j, t, q
  <2>7. CASE ValidString(q) /\ (s[j] \in Ascii \/ ~InRune(s, j))
    <3>1. ~Starts(s, j) /\ ~Starts(s, i) /\ ~Starts(s, i - 1)
      BY <2>4, <2>5, <2>7 DEF Ascii
    <3>2. missing(s, i) = 0 /\ missing(s, j) = 0
      BY <2>6, <3>1 DEF missing
    <3>3. ValidString(t)
      BY <2>2, <2>3, <3>2 DEF Rest
    <3>4. t \o q \in Seq(Byte) /\ ValidString(t \o q)
      BY <2>3, <2>7, <3>3, ConcatValid
    <3>5. (t \o q) \o <<>> = t \o q
      BY <3>4, ConcatEmptySeq
    <3>. QED  BY <2>3, <3>2, <3>4, <3>5 DEF Rest, j
  <2>8. CASE q = <<s[j]>> /\ Starts(s, j)
    <3>1. missing(s, i) = 0 /\ missing(s, j) = 2
      BY <2>5, <2>6, <2>8 DEF missing
    <3>2. ValidString(t)
      BY <2>2, <2>3, <3>1 DEF Rest
    <3>. DEFINE rune == <<s[j], "c", "c">>
    <3>3. rune \in Seq(Byte) /\ ValidString(rune)
      BY <2>5, <2>8, ShortTexts
    <3>4. (t \o q) \o Rest(2) = t \o rune
      <4>1. t \in Seq(Byte) /\ s[j] \in Byte
        BY <2>3, <2>5, <2>8 DEF Byte
      <4>2. (t \o <<s[j]>>) \o <<"c", "c">> = t \o rune
        BY <4>1, RuneAppended
      <4>3. Rest(2) = <<"c", "c">>
        BY DEF Rest
      <4>. HIDE DEF rune, Rest
      <4>. QED  BY <2>8, <4>2, <4>3
    <3>. HIDE DEF rune
    <3>5. ValidString(t \o rune)
      BY <2>3, <3>2, <3>3, ConcatValid
    <3>. QED  BY <2>3, <3>1, <3>4, <3>5 DEF j
  <2>9. CASE q = <<s[j]>> /\ Starts(s, i)
    <3>1. missing(s, i) = 2 /\ missing(s, j) = 1 /\ q = <<"c">>
      BY <2>5, <2>6, <2>9 DEF missing
    <3>2. (t \o <<"c">>) \o Rest(1) = t \o Rest(2)
      BY <2>3 DEF Rest
    <3>. QED  BY <2>2, <2>3, <3>1, <3>2 DEF j
  <2>10. CASE q = <<s[j]>> /\ Starts(s, i - 1)
    <3>1. missing(s, i) = 1 /\ missing(s, j) = 0 /\ q = <<"c">>
      BY <2>5, <2>6, <2>10 DEF missing
    <3>2. (t \o <<"c">>) \o Rest(0) = t \o Rest(1)
      BY <2>3 DEF Rest
    <3>. QED  BY <2>2, <2>3, <3>1, <3>2 DEF j
  <2>11. CASE q = <<s[j]>> /\ s[j] \in Ascii
    <3>1. ValidString(q)
      BY <2>11, ShortTexts
    <3>. QED  BY <2>7, <2>11, <3>1
  <2>12. \/ InRune(s, j) /\ q = <<s[j]>>
         \/ ValidString(q) /\ (s[j] \in Ascii \/ ~InRune(s, j))
    BY <2>1 DEF q
  <2>. QED  BY <2>4, <2>7, <2>8, <2>9, <2>10, <2>11, <2>12
<1>5. n \in Good
  <2>1. Nat \subseteq Good
    <3>. HIDE DEF Good
    <3>. QED  BY <1>3, <1>4, SetInduction
  <2>. QED  BY <2>1
<1>6. missing(s, n) = 0
  BY DEF missing, Starts
<1>7. ValidString(f[n])
  BY <1>2, <1>5, <1>6 DEF Rest
<1>. QED  BY <1>1, <1>7

\* strings.ToValidUTF8 and the replacement of NULs, of any text.
LEMMA ToValidUTF8Valid ==
  ASSUME NEW s \in Seq(Byte)
  PROVE  ToValidUTF8(s) \in Seq(Byte) /\ ValidString(ToValidUTF8(s))
<1>. DEFINE n == Len(s)
            p == [i \in DOMAIN s |->
                    IF InRune(s, i) THEN <<s[i]>>
                    ELSE IF i > 1 /\ ~InRune(s, i - 1) THEN <<>> ELSE Replacement]
<1>1. n \in Nat /\ DOMAIN s = 1..n /\ \A i \in 1..n : s[i] \in Byte
  OBVIOUS
<1>2. Replacement \in Seq(Byte) /\ ValidString(Replacement)
  BY ShortTexts DEF Replacement
<1>3. ASSUME NEW i \in 1..n
      PROVE  /\ p[i] \in Seq(Byte)
             /\ \/ InRune(s, i) /\ p[i] = <<s[i]>>
                \/ ValidString(p[i]) /\ ~InRune(s, i)
  <2>1. CASE InRune(s, i)
    BY <1>1, <2>1
  <2>2. CASE ~InRune(s, i)
    <3>1. p[i] = <<>> \/ p[i] = Replacement
      BY <1>1, <2>2
    <3>. HIDE DEF p
    <3>. QED  BY <1>2, <2>2, <3>1, ShortTexts
  <2>. QED  BY <2>1, <2>2
<1>4. p \in [1..n -> Seq(Byte)]
  <2>1. p = [i \in 1..n |-> p[i]]
    BY <1>1
  <2>. HIDE DEF p
  <2>. QED  BY <1>3, <2>1
<1>5. ToValidUTF8(s) = FlattenSeq(p)
  BY DEF ToValidUTF8
<1>. HIDE DEF p
<1>. QED  BY <1>1, <1>3, <1>4, <1>5, FlattenValid

LEMMA WithoutNULValid ==
  ASSUME NEW s \in Seq(Byte), ValidString(s)
  PROVE  /\ WithoutNUL(s) \in Seq(Byte \ {"0"}) /\ WithoutNUL(s) \in Seq(Byte)
         /\ ValidString(WithoutNUL(s))
<1>. DEFINE n == Len(s)
            p == [i \in DOMAIN s |-> IF s[i] = "0" THEN Replacement ELSE <<s[i]>>]
<1>1. n \in Nat /\ DOMAIN s = 1..n /\ \A i \in 1..n : s[i] \in Byte
  OBVIOUS
<1>2. /\ Replacement \in Seq(Byte) /\ ValidString(Replacement)
      /\ Replacement \in Seq(Byte \ {"0"})
  <2>1. Replacement \in Seq(Byte \ {"0"})
    BY DEF Replacement, Byte
  <2>. QED  BY <2>1, ShortTexts DEF Replacement
<1>3. ASSUME NEW i \in 1..n
      PROVE  /\ p[i] \in Seq(Byte) /\ p[i] \in Seq(Byte \ {"0"})
             /\ \/ InRune(s, i) /\ p[i] = <<s[i]>>
                \/ ValidString(p[i]) /\ s[i] \in Ascii
  <2>1. CASE s[i] = "0"
    <3>1. p[i] = Replacement
      BY <1>1, <2>1
    <3>. HIDE DEF p
    <3>. QED  BY <1>2, <2>1, <3>1 DEF Ascii
  <2>2. CASE s[i] # "0"
    <3>1. p[i] = <<s[i]>> /\ s[i] \in Byte /\ InRune(s, i)
      BY <1>1, <2>2 DEF ValidString
    <3>. HIDE DEF p
    <3>. QED  BY <2>2, <3>1
  <2>. QED  BY <2>1, <2>2
<1>4. p \in [1..n -> Seq(Byte)] /\ p \in [1..n -> Seq(Byte \ {"0"})]
  <2>1. p = [i \in 1..n |-> p[i]]
    BY <1>1
  <2>. HIDE DEF p
  <2>. QED  BY <1>3, <2>1
<1>5. WithoutNUL(s) = FlattenSeq(p)
  BY DEF WithoutNUL
<1>. HIDE DEF p
<1>6. FlattenSeq(p) \in Seq(Byte \ {"0"})
  <2>. DEFINE B == Byte \ {"0"}
  <2>1. p \in [1..n -> Seq(B)]
    BY <1>4
  <2>. HIDE DEF B, n
  <2>2. PICK f \in [0..n -> Seq(B)] : FlattenSeq(p) = f[n]
    BY <1>1, <2>1, FlattenJoins
  <2>3. FlattenSeq(p) \in Seq(B)
    BY <1>1, <2>2
  <2>. QED  BY <2>3 DEF B
<1>7. FlattenSeq(p) \in Seq(Byte) /\ ValidString(FlattenSeq(p))
  BY <1>1, <1>3, <1>4, FlattenValid
<1>. QED  BY <1>5, <1>6, <1>7

\* The loop that looks for the end finds one, within the room for the suffix.
LEMMA CutIs ==
  ASSUME NEW m \in Seq(Byte), ValidString(m)
  PROVE  \E e \in 0..Len(m) : /\ Cut(m) = SubSeq(m, 1, e) /\ e <= MaxFailureBytes - 3
                              /\ Cut(m) \in Seq(Byte) /\ Len(Cut(m)) = e /\ ValidString(Cut(m))
<1>. DEFINE limit == MaxFailureBytes - Len(Suffix)
            room == Len(Prefix(m, limit))
            ends == {e \in 0..room : e = Len(m) \/ e = 0 \/ RuneStart(m[e + 1])}
<1>1. limit = MaxFailureBytes - 3 /\ limit \in Nat /\ Len(m) \in Nat
  BY FailureAssumption DEF Suffix
<1>. HIDE DEF limit
<1>2. room \in 0..Len(m) /\ room <= limit
  BY <1>1 DEF Prefix
<1>. HIDE DEF room
<1>3. \E e \in ends : \A d \in ends : d <= e
  <2>. DEFINE gaps == {g \in 0..room : room - g \in ends}
  <2>1. gaps \in SUBSET Nat /\ room \in gaps
    BY <1>2
  <2>2. PICK g \in gaps : \A h \in gaps : g <= h
    <3>. HIDE DEF gaps
    <3>. QED  BY <2>1, LeastNumber
  <2>3. room - g \in ends
    BY <2>2
  <2>4. ASSUME NEW d \in ends PROVE d <= room - g
    <3>1. room - d \in 0..room /\ room - (room - d) = d
      BY <1>2
    <3>2. room - d \in gaps
      BY <3>1
    <3>3. g <= room - d
      BY <2>2, <3>2
    <3>. QED  BY <1>2, <2>2, <3>3
  <2>. QED  BY <2>3, <2>4
<1>. DEFINE e == CHOOSE x \in ends : \A d \in ends : d <= x
<1>4. e \in ends
  <2>. HIDE DEF ends
  <2>. QED  BY <1>3
<1>5. Cut(m) = SubSeq(m, 1, e)
  BY DEF Cut, room, limit
<1>. HIDE DEF e
<1>6. e \in 0..Len(m) /\ e <= limit
  BY <1>1, <1>2, <1>4
<1>7. e = Len(m) \/ RuneStart(m[e + 1])
  <2>1. CASE e = 0 /\ e # Len(m)
    <3>1. 1 \in 1..Len(m) /\ InRune(m, 1)
      BY <1>1, <2>1 DEF ValidString
    <3>2. m[1] \in Ascii \/ Starts(m, 1) \/ Starts(m, 1 - 1) \/ Starts(m, 1 - 2)
      BY <3>1, InRuneIs
    <3>3. m[1] # "c"
      BY <3>2 DEF Starts, Ascii
    <3>. QED  BY <2>1, <3>3 DEF RuneStart
  <2>. QED  BY <1>4, <2>1
<1>8. Cut(m) \in Seq(Byte) /\ Len(Cut(m)) = e /\ ValidString(Cut(m))
  BY <1>5, <1>6, <1>7, CutValid
<1>. QED  BY <1>1, <1>5, <1>6, <1>8

LEMMA PrefixTyped ==
  ASSUME NEW s \in Seq(Byte), NEW n \in Nat
  PROVE  Prefix(s, n) \in Seq(Byte)
  BY DEF Prefix

\* What is made of a text: the whole of it when nothing is too long, otherwise
\* a cut of a valid text without NULs, and the suffix.
LEMMA FailureIs ==
  ASSUME NEW s \in Seq(Byte)
  PROVE  LET whole == WithoutNUL(ToValidUTF8(s)) IN
         \/ /\ Len(s) <= MaxFailureBytes /\ Len(whole) <= MaxFailureBytes
            /\ boundedFailure(s) = whole
         \/ /\ ~(Len(s) <= MaxFailureBytes /\ Len(whole) <= MaxFailureBytes)
            /\ \E m \in Seq(Byte) : /\ boundedFailure(s) = Cut(m) \o Suffix
                                    /\ m \in Seq(Byte \ {"0"}) /\ ValidString(m)
<1>. DEFINE whole == WithoutNUL(ToValidUTF8(s))
            truncated == Len(s) > MaxFailureBytes
            kept == IF truncated THEN Prefix(s, MaxFailureBytes - Len(Suffix)) ELSE s
            message == WithoutNUL(ToValidUTF8(kept))
<1>1. Len(s) \in Nat /\ MaxFailureBytes \in Nat /\ MaxFailureBytes - Len(Suffix) \in Nat
  BY FailureAssumption DEF Suffix
<1>2. kept \in Seq(Byte)
  BY <1>1, PrefixTyped
<1>3. boundedFailure(s) = IF ~truncated /\ Len(message) <= MaxFailureBytes THEN message
                          ELSE Cut(message) \o Suffix
  BY DEF boundedFailure
<1>4. ~truncated => message = whole
  OBVIOUS
<1>. HIDE DEF kept
<1>5. ToValidUTF8(kept) \in Seq(Byte) /\ ValidString(ToValidUTF8(kept))
  BY <1>2, ToValidUTF8Valid
<1>6. message \in Seq(Byte \ {"0"}) /\ message \in Seq(Byte) /\ ValidString(message)
  BY <1>5, WithoutNULValid
<1>. HIDE DEF message, whole
<1>7. CASE ~truncated /\ Len(message) <= MaxFailureBytes
  BY <1>1, <1>3, <1>4, <1>7 DEF whole
<1>8. CASE ~(~truncated /\ Len(message) <= MaxFailureBytes)
  <2>1. ~(Len(s) <= MaxFailureBytes /\ Len(whole) <= MaxFailureBytes)
    BY <1>1, <1>4, <1>8
  <2>2. boundedFailure(s) = Cut(message) \o Suffix
    BY <1>3, <1>8
  <2>. QED  BY <1>6, <2>1, <2>2 DEF whole
<1>. QED  BY <1>7, <1>8

\* boundedFailure turns every text, of any length and however broken, into one
\* that validateFailure accepts.
THEOREM EveryFailureAccepted ==
  ASSUME NEW s \in Seq(Byte)
  PROVE  validMessage(boundedFailure(s))
<1>. DEFINE whole == WithoutNUL(ToValidUTF8(s))
            result == boundedFailure(s)
<1>1. CASE Len(whole) <= MaxFailureBytes /\ result = whole
  <2>1. ToValidUTF8(s) \in Seq(Byte) /\ ValidString(ToValidUTF8(s))
    BY ToValidUTF8Valid
  <2>2. whole \in Seq(Byte \ {"0"}) /\ ValidString(whole)
    BY <2>1, WithoutNULValid
  <2>. HIDE DEF whole
  <2>. QED  BY <1>1, <2>2 DEF validMessage
<1>2. CASE \E m \in Seq(Byte) : /\ result = Cut(m) \o Suffix
                                /\ m \in Seq(Byte \ {"0"}) /\ ValidString(m)
  <2>1. PICK m \in Seq(Byte) : /\ result = Cut(m) \o Suffix
                               /\ m \in Seq(Byte \ {"0"}) /\ ValidString(m)
    BY <1>2
  <2>2. PICK e \in 0..Len(m) :
          /\ Cut(m) = SubSeq(m, 1, e) /\ e <= MaxFailureBytes - 3
          /\ Cut(m) \in Seq(Byte) /\ Len(Cut(m)) = e /\ ValidString(Cut(m))
    BY <2>1, CutIs
  <2>. DEFINE c == Cut(m)
  <2>3. \A i \in 1..e : c[i] # "0"
    BY <2>1, <2>2
  <2>. HIDE DEF c
  <2>4. /\ Suffix \in Seq(Byte) /\ ValidString(Suffix) /\ Len(Suffix) = 3
        /\ \A i \in 1..3 : Suffix[i] # "0"
    <3>1. Suffix \in Seq(Byte) /\ ValidString(Suffix)
      BY ShortTexts DEF Suffix
    <3>. QED  BY <3>1 DEF Suffix
  <2>5. c \o Suffix \in Seq(Byte) /\ ValidString(c \o Suffix)
    BY <2>2, <2>4, ConcatValid DEF c
  <2>6. Len(c \o Suffix) = e + 3
    <3>1. c \in Seq(Byte) /\ Len(c) = e
      BY <2>2 DEF c
    <3>2. Len(c \o Suffix) = Len(c) + Len(Suffix)
      BY <2>4, <3>1, ConcatProperties
    <3>. QED  BY <2>4, <3>1, <3>2
  <2>7. ASSUME NEW i \in DOMAIN (c \o Suffix) PROVE (c \o Suffix)[i] # "0"
    <3>1. i \in 1..(e + 3)
      BY <2>5, <2>6
    <3>2. CASE i \in 1..e
      <4>1. (c \o Suffix)[i] = c[i]
        BY <2>2, <2>4, <3>2 DEF c
      <4>. QED  BY <2>3, <3>2, <4>1
    <3>3. CASE i \notin 1..e
      <4>1. i - e \in 1..3
        BY <3>1, <3>3
      <4>2. (c \o Suffix)[i] = Suffix[i - e]
        BY <2>2, <2>4, <3>1, <3>3 DEF c
      <4>. QED  BY <2>4, <4>1, <4>2
    <3>. QED  BY <3>2, <3>3
  <2>8. e + 3 <= MaxFailureBytes
    BY <2>2, FailureAssumption
  <2>. QED  BY <2>1, <2>5, <2>6, <2>7, <2>8 DEF validMessage, c
<1>. QED  BY <1>1, <1>2, FailureIs

\* The text under examination is a text.
TextKnown == text \in Seq(Byte)

LEMMA TextAlways == LimitsSpec => []TextKnown
<1>1. LimitsInit => TextKnown
  BY DEF LimitsInit, TextKnown
<1>2. TextKnown /\ [LimitsNext]_<<vars, subject, inputs>> => TextKnown'
  <2>. SUFFICES ASSUME TextKnown, [LimitsNext]_<<vars, subject, inputs>> PROVE TextKnown'
    OBVIOUS
  <2>. USE DEF TextKnown
  <2>1. CASE AttemptFails
    BY <2>1 DEF AttemptFails
  <2>2. CASE LongerText
    BY <2>2 DEF LongerText, Byte
  <2>3. CASE LongerRequest
    BY <2>3 DEF LongerRequest
  <2>4. CASE Renews
    BY <2>4 DEF Renews, inputs
  <2>5. CASE UNCHANGED <<vars, subject, inputs>>
    BY <2>5 DEF inputs
  <2>. QED  BY <2>1, <2>2, <2>3, <2>4, <2>5 DEF LimitsNext
<1>. QED  BY <1>1, <1>2, PTL DEF LimitsSpec

\* boundedFailure over the texts a run examines, whatever the limit and the
\* length: Fail accepts the message.
THEOREM FailuresAccepted == LimitsSpec => []FailureAccepted
<1>1. TextKnown => FailureAccepted
  BY EveryFailureAccepted DEF TextKnown, FailureAccepted
<1>. QED  BY <1>1, TextAlways, PTL

LEMMA ReverseIs ==
  ASSUME NEW s \in Seq(Byte), NEW k \in Nat, k = Len(s)
  PROVE  /\ Reverse(s) \in Seq(Byte) /\ Len(Reverse(s)) = k
         /\ \A i \in 1..k : Reverse(s)[i] = s[(k - i) + 1]
<1>. DEFINE y == Reverse(s)
<1>1. y = [i \in 1..k |-> s[(k - i) + 1]]
  BY DEF Reverse
<1>2. ASSUME NEW i \in 1..k PROVE s[(k - i) + 1] \in Byte
  <2>1. (k - i) + 1 \in 1..k
    OBVIOUS
  <2>. QED  BY <2>1
<1>. HIDE DEF y
<1>3. y \in [1..k -> Byte]
  BY <1>1, <1>2
<1>4. y \in Seq(Byte) /\ Len(y) = k
  BY <1>3
<1>5. \A i \in 1..k : y[i] = s[(k - i) + 1]
  BY <1>1
<1>. QED  BY <1>4, <1>5 DEF y

LEMMA FirstThree ==
  ASSUME NEW s \in Seq(Byte), NEW r \in Seq(Byte), Len(s) >= 3, Len(r) >= 3,
         \A i \in 1..3 : s[i] = r[i]
  PROVE  SubSeq(s, 1, 3) = SubSeq(r, 1, 3)
<1>. DEFINE f == SubSeq(s, 1, 3)
            g == SubSeq(r, 1, 3)
<1>1. \A i \in 1..3 : s[i] \in Byte /\ r[i] \in Byte
  BY LenProperties
<1>2. f \in Seq(Byte) /\ Len(f) = 3 /\ \A i \in 1..3 : f[i] = s[i]
  BY <1>1, SubSeqProperties
<1>3. g \in Seq(Byte) /\ Len(g) = 3 /\ \A i \in 1..3 : g[i] = r[i]
  BY <1>1, SubSeqProperties
<1>. HIDE DEF f, g
<1>4. Len(f) = Len(g) /\ \A i \in 1..Len(f) : f[i] = g[i]
  BY <1>2, <1>3
<1>5. f = g
  BY <1>2, <1>3, <1>4, SeqEqual
<1>. QED  BY <1>5 DEF f, g

LEMMA MarkIsSuffix ==
  ASSUME NEW c \in Seq(Byte), NEW z \in Seq(Byte), Len(z) = 3
  PROVE  IsSuffix(z, c \o z)
<1>. DEFINE t == c \o z
            n == Len(c)
            x == Reverse(z)
            y == Reverse(t)
<1>1. n \in Nat
  OBVIOUS
<1>2. t \in Seq(Byte) /\ Len(t) = n + Len(z)
  BY ConcatProperties
<1>3. \A j \in 1..(n + Len(z)) : t[j] = IF j <= n THEN c[j] ELSE z[j - n]
  BY ConcatProperties
<1>. HIDE DEF t
<1>4. Len(t) = n + 3
  BY <1>2
<1>5. ASSUME NEW i \in 1..3 PROVE t[n + i] = z[i]
  <2>1. n + i \in 1..(n + Len(z)) /\ ~(n + i <= n) /\ (n + i) - n = i
    BY <1>1
  <2>. HIDE DEF n
  <2>2. t[n + i] = z[(n + i) - n]
    BY <1>3, <2>1
  <2>. QED  BY <2>1, <2>2
<1>6. x \in Seq(Byte) /\ Len(x) = 3 /\ \A i \in 1..3 : x[i] = z[(3 - i) + 1]
  BY ReverseIs
<1>. HIDE DEF n
<1>7. n + 3 \in Nat
  BY <1>1
<1>8. y \in Seq(Byte) /\ Len(y) = n + 3 /\ \A i \in 1..(n + 3) : y[i] = t[((n + 3) - i) + 1]
  BY <1>2, <1>4, <1>7, ReverseIs
<1>. HIDE DEF x, y
<1>9. ASSUME NEW i \in 1..3 PROVE x[i] = y[i]
  <2>1. /\ i \in 1..(n + 3) /\ (3 - i) + 1 \in 1..3
        /\ ((n + 3) - i) + 1 = n + ((3 - i) + 1)
    BY <1>1
  <2>2. y[i] = t[n + ((3 - i) + 1)]
    BY <1>8, <2>1
  <2>. QED  BY <1>5, <1>6, <2>1, <2>2
<1>10. SubSeq(x, 1, 3) = SubSeq(y, 1, 3)
  <2>1. Len(x) >= 3 /\ Len(y) >= 3
    BY <1>1, <1>6, <1>8
  <2>. QED  BY <1>6, <1>8, <1>9, <2>1, FirstThree
<1>11. IsPrefix(x, y)
  <2>1. Len(x) <= Len(y)
    BY <1>1, <1>6, <1>8
  <2>. QED  BY <1>6, <1>10, <2>1 DEF IsPrefix
<1>12. IsPrefix(Reverse(z), Reverse(c \o z))
  BY <1>11 DEF x, y, t
<1>. QED  BY <1>12 DEF IsSuffix

LEMMA SuffixMarks ==
  ASSUME NEW c \in Seq(Byte)
  PROVE  IsSuffix(Suffix, c \o Suffix)
<1>1. Suffix \in Seq(Byte)
  BY ShortTexts DEF Suffix
<1>2. Len(Suffix) = 3
  BY DEF Suffix
<1>. QED  BY <1>1, <1>2, MarkIsSuffix

\* boundedFailure over the texts a run examines: a text is kept whole, but for
\* what is not UTF-8 or NUL, or it ends in the ellipsis.
THEOREM CutsMarked == LimitsSpec => []CutsAreMarked
<1>1. TextKnown => CutsAreMarked
  <2>. SUFFICES ASSUME TextKnown PROVE CutsAreMarked
    OBVIOUS
  <2>. DEFINE whole == WithoutNUL(ToValidUTF8(text))
              fits == Len(text) <= MaxFailureBytes /\ Len(whole) <= MaxFailureBytes
  <2>1. \/ fits /\ boundedFailure(text) = whole
        \/ ~fits /\ \E m \in Seq(Byte) : /\ boundedFailure(text) = Cut(m) \o Suffix
                                         /\ ValidString(m)
    BY FailureIs DEF TextKnown
  <2>2. CASE fits
    BY <2>1, <2>2 DEF CutsAreMarked
  <2>3. CASE ~fits
    <3>1. PICK m \in Seq(Byte) : boundedFailure(text) = Cut(m) \o Suffix /\ ValidString(m)
      BY <2>1, <2>3
    <3>2. Cut(m) \in Seq(Byte)
      BY <3>1, CutIs
    <3>3. IsSuffix(Suffix, boundedFailure(text))
      BY <3>1, <3>2, SuffixMarks
    <3>. QED  BY <2>3, <3>3 DEF CutsAreMarked
  <2>. QED  BY <2>2, <2>3
<1>. QED  BY <1>1, TextAlways, PTL

=============================================================================
