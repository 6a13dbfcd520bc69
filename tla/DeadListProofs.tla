--------------------------- MODULE DeadListProofs ---------------------------
(***************************************************************************)
(* The walk over the dead list, for every table, page limit and number of  *)
(* statements between two pages.                                           *)
(*                                                                         *)
(* ORDER BY is a CHOOSE, so that what a page holds rests on the existence  *)
(* of an ordered listing of every finite set of jobs.  The place of a job  *)
(* in it is its rank, the number of jobs that do not come after it.        *)
(***************************************************************************)
EXTENDS DeadList, FiniteSetTheorems, SequenceTheorems, TLAPS

-----------------------------------------------------------------------------
(* Ordered listings.                                                       *)

\* A strict total order on a set.
Orders(R, T) ==
  /\ \A x \in T : <<x, x>> \notin R
  /\ \A x, y, z \in T : <<x, y>> \in R /\ <<y, z>> \in R => <<x, z>> \in R
  /\ \A x, y \in T : x = y \/ <<x, y>> \in R \/ <<y, x>> \in R

UpTo(R, T, x) == {y \in T : y = x \/ <<y, x>> \in R}

LEMMA RankGrows ==
  ASSUME NEW T, IsFiniteSet(T), NEW R, Orders(R, T), NEW x \in T
  PROVE  /\ Cardinality(UpTo(R, T, x)) \in 1..Cardinality(T)
         /\ \A y \in T : <<x, y>> \in R =>
              Cardinality(UpTo(R, T, x)) < Cardinality(UpTo(R, T, y))
<1>1. \A y \in T : /\ UpTo(R, T, y) \in SUBSET T /\ y \in UpTo(R, T, y)
  BY DEF UpTo
<1>2. \A y \in T : /\ IsFiniteSet(UpTo(R, T, y))
                   /\ Cardinality(UpTo(R, T, y)) <= Cardinality(T)
  BY <1>1, FS_Subset
<1>3. Cardinality(T) \in Nat /\ \A y \in T : Cardinality(UpTo(R, T, y)) \in Nat
  BY <1>2, FS_CardinalityType
<1>4. Cardinality(UpTo(R, T, x)) # 0
  BY <1>1, <1>2, FS_EmptySet
<1>5. ASSUME NEW y \in T, <<x, y>> \in R
      PROVE  Cardinality(UpTo(R, T, x)) < Cardinality(UpTo(R, T, y))
  <2>1. UpTo(R, T, x) \in SUBSET UpTo(R, T, y)
    BY <1>5 DEF UpTo, Orders
  <2>2. y \notin UpTo(R, T, x)
    BY <1>5 DEF UpTo, Orders
  <2>3. UpTo(R, T, x) # UpTo(R, T, y)
    BY <1>1, <2>2
  <2>4. /\ Cardinality(UpTo(R, T, x)) <= Cardinality(UpTo(R, T, y))
        /\ Cardinality(UpTo(R, T, y)) # Cardinality(UpTo(R, T, x))
    BY <1>2, <2>1, <2>3, FS_Subset
  <2>. QED  BY <1>3, <2>4
<1>. QED  BY <1>2, <1>3, <1>4, <1>5

\* Every finite set has a listing in every total order.
LEMMA ListingExists ==
  ASSUME NEW T, IsFiniteSet(T), NEW R, Orders(R, T)
  PROVE  \E s \in [1..Cardinality(T) -> T] :
           \A i, k \in 1..Cardinality(T) : i < k => <<s[i], s[k]>> \in R
<1>. DEFINE n == Cardinality(T)
            rank == [x \in T |-> Cardinality(UpTo(R, T, x))]
            s == [i \in 1..n |-> CHOOSE x \in T : rank[x] = i]
<1>1. n \in Nat /\ IsFiniteSet(1..n) /\ Cardinality(1..n) = n
  BY FS_CardinalityType, FS_Interval
<1>2. rank \in [T -> 1..n]
  BY RankGrows
<1>3. \A x, y \in T : <<x, y>> \in R => rank[x] < rank[y]
  BY RankGrows
<1>. HIDE DEF n, rank
<1>4. rank \in Injection(T, 1..n)
  <2>1. ASSUME NEW x \in T, NEW y \in T, rank[x] = rank[y] PROVE x = y
    <3>1. rank[x] \in Nat /\ rank[y] \in Nat
      BY <1>1, <1>2
    <3>2. ~(rank[x] < rank[y]) /\ ~(rank[y] < rank[x])
      BY <2>1, <3>1
    <3>3. <<x, y>> \notin R /\ <<y, x>> \notin R
      BY <1>3, <3>2, Zenon
    <3>. QED  BY <3>3, Zenon DEF Orders
  <2>. QED  BY <1>2, <2>1 DEF Injection, IsInjective
<1>5. rank \in Surjection(T, 1..n)
  BY <1>1, <1>4, FS_Injection DEF n
<1>6. \A i \in 1..n : \E x \in T : rank[x] = i
  BY <1>5 DEF Surjection
<1>7. \A i \in 1..n : s[i] \in T /\ rank[s[i]] = i
  BY <1>6
<1>8. s \in [1..n -> T]
  BY <1>7
<1>. HIDE DEF s
<1>9. ASSUME NEW i \in 1..n, NEW k \in 1..n, i < k PROVE <<s[i], s[k]>> \in R
  <2>1. /\ s[i] \in T /\ s[k] \in T /\ rank[s[i]] = i /\ rank[s[k]] = k
    BY <1>7
  <2>2. ~(k < i) /\ s[i] # s[k]
    BY <1>1, <1>9, <2>1
  <2>3. <<s[k], s[i]>> \notin R
    BY <1>3, <2>1, <2>2, Zenon
  <2>. QED  BY <2>1, <2>2, <2>3, Zenon DEF Orders
<1>. QED  BY <1>8, <1>9 DEF n

-----------------------------------------------------------------------------
(* The table.                                                              *)

StoredRow ==
  [state : RowState, queue : {Queue, NULL}, key : {NULL},
   fingerprint : {<<Queue, b, 1, NULL>> : b \in Bodies} \union {NULL},
   attempts : Nat, max_attempts : {0, 1}, available_at : Nat, created_at : Nat,
   token : Tokens \union {NULL}, owner : Workers \union {NULL},
   lease_until : Nat \union {NULL}, finished_at : Nat \union {NULL}]

Readable(r) == r \in StoredRow /\ (Exists(r) => validateStoredJob(r))

\* A burial waits for its commit on a row that still runs.
Table ==
  /\ clock \in Nat
  /\ rows \in [Ids -> StoredRow] /\ \A j \in Ids : Readable(rows[j])
  /\ open \in [Ids -> StoredRow]
  /\ \A j \in Ids : open[j] # NoRow =>
       Readable(open[j]) /\ open[j].state = "dead" /\ rows[j].state = "running"

LEMMA CallIs ==
  ASSUME NEW op, NEW j
  PROVE  /\ Call(op, j).op = op /\ Call(op, j).token = Lease
         /\ Call(op, j).worker \in Workers
         /\ Call(op, j).permanent = TRUE /\ Call(op, j).duration \in Nat
<1>1. (CHOOSE w \in Workers : TRUE) \in Workers
  BY DeadListAssumption
<1>. QED  BY <1>1, DeadListAssumption DEF Call, NoCall

\* What validateStoredJob asks of a row by its state.
LEMMA ValidRow ==
  ASSUME NEW r \in StoredRow
  PROVE  validateStoredJob(r) <=>
           /\ r.state \in JobState /\ r.attempts <= r.max_attempts
           /\ r.max_attempts = 1
           /\ r.state = "pending" => r.attempts < 1
           /\ r.state \in {"running", "succeeded", "dead"} => r.attempts # 0
           /\ r.state # "running" => r.token = NULL /\ r.owner = NULL /\ r.lease_until = NULL
           /\ r.state = "running" => r.token # NULL /\ r.owner # NULL /\ r.lease_until # NULL
           /\ r.state \in Terminal => r.finished_at # NULL
           /\ r.state \notin Terminal => r.finished_at = NULL
<1>1. /\ r.attempts \in Nat /\ r.max_attempts \in {0, 1}
  BY DEF StoredRow
<1>2. MaxAttempts \in Nat /\ MaxAttempts >= 1
  BY LimitsAssumption, DeadListAssumption
<1>3. ((r.state \in Terminal) # (r.finished_at = NULL)) <=>
        /\ r.state \in Terminal => r.finished_at # NULL
        /\ r.state \notin Terminal => r.finished_at = NULL
  OBVIOUS
<1>. QED  BY <1>1, <1>2, <1>3 DEF validateStoredJob, JobState

LEMMA GrantReadable ==
  ASSUME NEW r, Readable(r), NEW j, clock \in Nat, Eligible(Call("Claim", j), r, clock)
  PROVE  /\ Readable(Granted(Call("Claim", j), r, clock))
         /\ Granted(Call("Claim", j), r, clock).state # "dead"
<1>. DEFINE c == Call("Claim", j)
            w == Granted(c, r, clock)
<1>1. c.token = Lease /\ c.worker \in Workers /\ c.duration \in Nat
  BY CallIs
<1>. HIDE DEF c
<1>2. r \in StoredRow /\ r.attempts \in Nat /\ r.state \in {"pending", "running"}
  BY DEF Readable, StoredRow, Eligible
<1>3. validateStoredJob(r)
  BY <1>2 DEF Readable, Exists, JobState
<1>4. w = [r EXCEPT !.state = "running", !.attempts = r.attempts + 1, !.token = c.token,
                    !.owner = c.worker, !.lease_until = clock + c.duration,
                    !.finished_at = NULL]
  BY DEF Granted
<1>5. /\ clock + c.duration \in Nat /\ r.attempts + 1 \in Nat /\ "running" \in RowState
      /\ c.token \in Tokens
  BY <1>1, <1>2, DeadListAssumption DEF RowState, JobState
<1>. HIDE DEF w
<1>6. w \in StoredRow
  BY <1>1, <1>2, <1>4, <1>5 DEF StoredRow
<1>7. /\ w.state = "running" /\ w.attempts = r.attempts + 1 /\ w.max_attempts = r.max_attempts
      /\ w.token \in Tokens /\ w.owner \in Workers /\ w.lease_until \in Nat
      /\ w.finished_at = NULL
  BY <1>1, <1>2, <1>4, <1>5 DEF StoredRow
<1>8. r.max_attempts = 1 /\ r.attempts < 1
  BY <1>2, <1>3, ValidRow DEF Eligible
<1>9. validateStoredJob(w)
  BY <1>2, <1>6, <1>7, <1>8, ValidRow, NullAssumption DEF JobState, Terminal
<1>. QED  BY <1>6, <1>7, <1>9 DEF Readable, w, c

LEMMA FailReadable ==
  ASSUME NEW r, Readable(r), NEW j, clock \in Nat, Where(Call("Fail", j), r, clock)
  PROVE  LET w == Updated(Call("Fail", j), r, clock) IN
         Readable(w) /\ w.state = "dead" /\ r.state = "running"
<1>. DEFINE c == Call("Fail", j)
            w == Updated(c, r, clock)
<1>1. c.op = "Fail" /\ c.permanent = TRUE
  BY CallIs
<1>. HIDE DEF c
<1>2. r.state = "running" /\ r \in StoredRow
  BY <1>1 DEF Where, Fenced, LeaseOps, Readable, c
<1>3. validateStoredJob(r)
  BY <1>2 DEF Readable, Exists, JobState
<1>4. w = Finish(r, "dead", clock)
  BY <1>1 DEF Updated, failSQL
<1>5. w = [r EXCEPT !.token = NULL, !.owner = NULL, !.lease_until = NULL,
                    !.state = "dead", !.finished_at = clock]
  BY <1>2, <1>4 DEF Finish, Unleased, StoredRow
<1>. HIDE DEF w
<1>6. w \in StoredRow
  BY <1>2, <1>5 DEF StoredRow, RowState, JobState
<1>7. /\ w.state = "dead" /\ w.attempts = r.attempts /\ w.max_attempts = r.max_attempts
      /\ w.token = NULL /\ w.owner = NULL /\ w.lease_until = NULL /\ w.finished_at \in Nat
  BY <1>2, <1>5 DEF StoredRow
<1>8. validateStoredJob(w)
  BY <1>2, <1>3, <1>6, <1>7, ValidRow, NullAssumption DEF JobState, Terminal
<1>. QED  BY <1>2, <1>6, <1>7, <1>8 DEF Readable, w, c

LEMMA RedriveReadable ==
  ASSUME NEW r, Readable(r), NEW j, clock \in Nat, Where(Call("Redrive", j), r, clock)
  PROVE  LET w == Updated(Call("Redrive", j), r, clock) IN
         Readable(w) /\ w.state # "dead"
<1>. DEFINE c == Call("Redrive", j)
            w == Updated(c, r, clock)
<1>1. c.op = "Redrive"
  BY CallIs
<1>. HIDE DEF c
<1>2. r.state = "dead" /\ r \in StoredRow
  BY <1>1 DEF Where, LeaseOps, Readable, c
<1>3. validateStoredJob(r)
  BY <1>2 DEF Readable, Exists, JobState
<1>4. w = redriveSQL(c, r, clock)
  BY <1>1 DEF Updated
<1>5. w = [r EXCEPT !.token = NULL, !.owner = NULL, !.lease_until = NULL,
                    !.state = "pending", !.attempts = 0, !.available_at = clock,
                    !.finished_at = NULL]
  BY <1>2, <1>4 DEF redriveSQL, Unleased, StoredRow
<1>. HIDE DEF w
<1>6. w \in StoredRow
  BY <1>2, <1>5 DEF StoredRow, RowState, JobState
<1>7. /\ w.state = "pending" /\ w.attempts = 0 /\ w.max_attempts = r.max_attempts
      /\ w.token = NULL /\ w.owner = NULL /\ w.lease_until = NULL /\ w.finished_at = NULL
  BY <1>2, <1>5 DEF StoredRow
<1>8. validateStoredJob(w)
  BY <1>2, <1>3, <1>6, <1>7, ValidRow DEF JobState, Terminal
<1>. QED  BY <1>6, <1>7, <1>8 DEF Readable, w, c

LEMMA PurgedReadable ==
  /\ Readable([NoRow EXCEPT !.state = "purged"])
  /\ [NoRow EXCEPT !.state = "purged"].state # "dead"
BY DEF Readable, StoredRow, NoRow, Exists, RowState, JobState

LEMMA InsertedReadable ==
  ASSUME NEW b \in Bodies
  PROVE  Readable(Inserted([queue |-> Queue, key |-> NULL, body |-> b,
                            max_attempts |-> 1, available_at |-> NULL], 0))
<1>. DEFINE r == Inserted([queue |-> Queue, key |-> NULL, body |-> b,
                           max_attempts |-> 1, available_at |-> NULL], 0)
            f == <<Queue, b, 1, NULL>>
<1>1. r = [NoRow EXCEPT !.state = "pending", !.queue = Queue, !.key = NULL,
                        !.fingerprint = f, !.max_attempts = 1, !.created_at = 0,
                        !.available_at = 0]
  BY DEF Inserted, requestFingerprint
<1>2. f \in {<<Queue, x, 1, NULL>> : x \in Bodies}
  OBVIOUS
<1>. HIDE DEF r, f
<1>3. r = [state |-> "pending", queue |-> Queue, key |-> NULL, fingerprint |-> f,
           attempts |-> 0, max_attempts |-> 1, available_at |-> 0,
           created_at |-> 0, token |-> NULL, owner |-> NULL,
           lease_until |-> NULL, finished_at |-> NULL]
  BY <1>1 DEF NoRow
<1>4. r \in StoredRow
  BY <1>2, <1>3 DEF StoredRow, RowState, JobState
<1>5. validateStoredJob(r)
  BY <1>3, <1>4, ValidRow DEF JobState, Terminal
<1>6. Readable(r)
  BY <1>4, <1>5 DEF Readable
<1>. QED  BY <1>6 DEF r

-----------------------------------------------------------------------------
(* A page.                                                                 *)

LEMMA PrecedesOrders ==
  /\ \A a \in Nat \X Nat : ~Precedes(a, a)
  /\ \A a, b, c \in Nat \X Nat : Precedes(a, b) /\ Precedes(b, c) => Precedes(a, c)
  /\ \A a, b \in Nat \X Nat : a[2] = b[2] \/ Precedes(a, b) \/ Precedes(b, a)
BY DEF Precedes

LEMMA DeadCursors ==
  ASSUME Table, NEW j \in Dead(Queue)
  PROVE  /\ j \in Ids /\ DeadCursor(j) \in Nat \X Ids /\ DeadCursor(j) \in Nat \X Nat
         /\ DeadCursor(j)[2] = j /\ scanJob(j)
<1>1. j \in Ids /\ rows[j].state = "dead"
  BY DEF Dead
<1>2. rows[j] \in StoredRow /\ validateStoredJob(rows[j])
  BY <1>1 DEF Table, Readable, Exists, JobState
<1>3. rows[j].finished_at # NULL
  BY <1>1, <1>2, ValidRow DEF Terminal
<1>4. /\ rows[j].finished_at \in Nat /\ rows[j].available_at \in Nat
      /\ rows[j].created_at \in Nat
  BY <1>2, <1>3 DEF StoredRow
<1>5. scanJob(j)
  BY <1>2, <1>4, NullAssumption DEF scanJob
<1>. QED  BY <1>1, <1>4, <1>5, IdsAssumption DEF DeadCursor

LEMMA OrderedListing ==
  ASSUME Table, NEW T \in SUBSET Dead(Queue)
  PROVE  /\ Cardinality(T) \in Nat /\ Ordered(T) \in [1..Cardinality(T) -> T]
         /\ \A i, k \in 1..Cardinality(T) :
              i < k => Precedes(DeadCursor(Ordered(T)[i]), DeadCursor(Ordered(T)[k]))
         /\ \A j \in T : \E i \in 1..Cardinality(T) : Ordered(T)[i] = j
<1>. DEFINE n == Cardinality(T)
            R == {p \in T \X T : Precedes(DeadCursor(p[1]), DeadCursor(p[2]))}
            InOrder(s) == \A i, k \in DOMAIN s :
                            i < k => Precedes(DeadCursor(s[i]), DeadCursor(s[k]))
<1>1. \A x \in T : DeadCursor(x) \in Nat \X Nat /\ DeadCursor(x)[2] = x
  BY DeadCursors
<1>2. IsFiniteSet(T)
  <2>1. T \in SUBSET Ids
    BY DEF Dead
  <2>. QED  BY <2>1, DeadListAssumption, FS_Subset
<1>3. n \in Nat /\ IsFiniteSet(1..n) /\ Cardinality(1..n) = n
  BY <1>2, FS_CardinalityType, FS_Interval
<1>4. \A x, y \in T : <<x, y>> \in R <=> Precedes(DeadCursor(x), DeadCursor(y))
  OBVIOUS
<1>. HIDE DEF R, n
<1>5. Orders(R, T)
  <2>1. \A x \in T : <<x, x>> \notin R
    BY <1>1, <1>4, PrecedesOrders
  <2>2. ASSUME NEW x \in T, NEW y \in T, NEW z \in T, <<x, y>> \in R, <<y, z>> \in R
        PROVE  <<x, z>> \in R
    <3>1. Precedes(DeadCursor(x), DeadCursor(y)) /\ Precedes(DeadCursor(y), DeadCursor(z))
      BY <1>4, <2>2
    <3>2. Precedes(DeadCursor(x), DeadCursor(z))
      BY <1>1, <3>1, PrecedesOrders
    <3>. QED  BY <1>4, <3>2
  <2>3. \A x, y \in T : x = y \/ <<x, y>> \in R \/ <<y, x>> \in R
    BY <1>1, <1>4, PrecedesOrders
  <2>. QED  BY <2>1, <2>2, <2>3 DEF Orders
<1>6. PICK s \in [1..n -> T] : \A i, k \in 1..n : i < k => <<s[i], s[k]>> \in R
  BY <1>2, <1>5, ListingExists DEF n
<1>7. \A i, k \in 1..n : i < k => Precedes(DeadCursor(s[i]), DeadCursor(s[k]))
  BY <1>4, <1>6
<1>8. s \in SetToSeqs(T)
  <2>1. ASSUME NEW i \in 1..n, NEW k \in 1..n, i # k PROVE s[i] # s[k]
    <3>1. Precedes(DeadCursor(s[i]), DeadCursor(s[k])) \/ Precedes(DeadCursor(s[k]), DeadCursor(s[i]))
      BY <1>3, <1>7, <2>1
    <3>2. ~Precedes(DeadCursor(s[i]), DeadCursor(s[i]))
      BY <1>1, PrecedesOrders
    <3>. QED  BY <3>1, <3>2
  <2>. QED  BY <2>1 DEF SetToSeqs, n
<1>9. Ordered(T) \in SetToSeqs(T) /\ InOrder(Ordered(T))
  <2>1. DOMAIN s = 1..n
    OBVIOUS
  <2>2. InOrder(s)
    BY <1>7, <2>1
  <2>. QED  BY <1>8, <2>2 DEF Ordered
<1>10. Ordered(T) \in [1..n -> T] /\ DOMAIN Ordered(T) = 1..n
  BY <1>9 DEF SetToSeqs, n
<1>11. Ordered(T) \in Injection(1..n, T)
  BY <1>9, <1>10 DEF SetToSeqs, Injection, IsInjective, n
<1>12. Ordered(T) \in Surjection(1..n, T)
  BY <1>2, <1>3, <1>11, FS_Injection DEF n
<1>13. \A j \in T : \E i \in 1..n : Ordered(T)[i] = j
  BY <1>12 DEF Surjection
<1>. QED  BY <1>3, <1>9, <1>10, <1>13 DEF n

\* What the query can return: an ordered part of the dead list, beyond the
\* cursor and from its first element, and all of it unless it fills the page.
Candidates == {j \in Dead(Queue) : Beyond(cursor, j)}

Page == listDeadSQL(Queue, cursor, limit)

LEMMA PageIs ==
  ASSUME Table, limit \in Nat
  PROVE  \E m \in Nat :
           /\ Len(Page) = m /\ Page \in [1..m -> Candidates] /\ m <= limit
           /\ \A i, k \in 1..m : i < k => Precedes(DeadCursor(Page[i]), DeadCursor(Page[k]))
           /\ \A j \in Candidates :
                \/ \E i \in 1..m : Page[i] = j
                \/ /\ m = limit
                   /\ \A i \in 1..m : Precedes(DeadCursor(Page[i]), DeadCursor(j))
<1>. DEFINE n == Cardinality(Candidates)
            found == Ordered(Candidates)
            m == IF limit < n THEN limit ELSE n
<1>1. /\ n \in Nat /\ found \in [1..n -> Candidates]
      /\ \A i, k \in 1..n : i < k => Precedes(DeadCursor(found[i]), DeadCursor(found[k]))
      /\ \A j \in Candidates : \E i \in 1..n : found[i] = j
  <2>1. Candidates \in SUBSET Dead(Queue)
    BY DEF Candidates
  <2>. QED  BY <2>1, OrderedListing
<1>. HIDE DEF n, found
<1>2. found \in Seq(Candidates) /\ Len(found) = n
  BY <1>1
<1>3. m \in Nat /\ m <= limit /\ m <= n /\ (m < limit => m = n)
  BY <1>1
<1>4. Page = SubSeq(found, 1, m)
  BY <1>2 DEF Page, listDeadSQL, found, Candidates
<1>. HIDE DEF m
<1>5. /\ Len(Page) = m /\ Page \in [1..m -> Candidates]
      /\ \A i \in 1..m : Page[i] = found[i]
  <2>1. \A i \in 1..m : found[i] \in Candidates
    BY <1>1, <1>3
  <2>2. /\ Page \in Seq(Candidates) /\ Len(Page) = IF 1 <= m THEN m - 1 + 1 ELSE 0
        /\ \A i \in 1..(m - 1 + 1) : Page[i] = found[1 + i - 1]
    BY <1>3, <1>4, <2>1, SubSeqProperties
  <2>3. Len(Page) = m /\ \A i \in 1..m : Page[i] = found[i]
    BY <1>3, <2>2
  <2>4. Page \in [1..Len(Page) -> Candidates]
    BY <2>2, LenProperties
  <2>. QED  BY <2>3, <2>4
<1>6. \A i, k \in 1..m : i < k => Precedes(DeadCursor(Page[i]), DeadCursor(Page[k]))
  BY <1>1, <1>3, <1>5
<1>7. ASSUME NEW j \in Candidates, ~\E i \in 1..m : Page[i] = j
      PROVE  m = limit /\ \A i \in 1..m : Precedes(DeadCursor(Page[i]), DeadCursor(j))
  <2>1. PICK k \in 1..n : found[k] = j
    BY <1>1
  <2>2. k \in Nat /\ m < k
    BY <1>1, <1>3, <1>5, <1>7, <2>1
  <2>3. m = limit
    BY <1>1, <1>3, <2>2
  <2>4. \A i \in 1..m : Precedes(DeadCursor(found[i]), DeadCursor(found[k]))
    BY <1>1, <1>3, <2>2
  <2>. QED  BY <1>5, <2>1, <2>3, <2>4
<1>. QED  BY <1>3, <1>5, <1>6, <1>7

-----------------------------------------------------------------------------
(* The walk.                                                               *)

Shown(j) == \E i \in DOMAIN listed : listed[i][2] = j

\* The pages so far are in order, the cursor is the last death they showed,
\* and what they have not shown is still to come.
Walk ==
  /\ phase \in {"idle", "walking", "done"}
  /\ limit \in Nat \ {0}
  /\ listed \in Seq(Nat \X Ids)
  /\ \A i, k \in 1..Len(listed) : i < k => Precedes(listed[i], listed[k])
  /\ cursor = IF Len(listed) = 0 THEN NULL ELSE listed[Len(listed)]
  /\ throughout \subseteq Dead(Queue)
  /\ phase = "walking" => \A j \in throughout : Shown(j) \/ Beyond(cursor, j)
  /\ phase = "done" => \A j \in throughout : Shown(j)

ListInv == Table /\ Walk

LEMMA ListStarts == Init => ListInv
<1>. SUFFICES ASSUME Init PROVE ListInv
  OBVIOUS
<1>1. \A j \in Ids : Readable(rows[j])
  BY InsertedReadable DEF Init
<1>2. rows \in [Ids -> StoredRow]
  BY <1>1 DEF Init, Readable
<1>3. NoRow \in StoredRow
  BY DEF NoRow, StoredRow, RowState, JobState
<1>4. Table
  BY <1>1, <1>2, <1>3 DEF Init, Table
<1>5. Walk
  BY DEF Init, Walk
<1>. QED  BY <1>4, <1>5 DEF ListInv

\* A step of the table behind the walk: it may only take jobs off the list of
\* those that stayed dead.
LEMMA BehindTheWalk ==
  ASSUME ListInv, Table', UNCHANGED walkVars, throughout' \subseteq throughout,
         \A j \in throughout' : rows'[j] = rows[j]
  PROVE  ListInv'
<1>. USE DEF ListInv
<1>1. UNCHANGED <<phase, limit, cursor, listed>>
  BY DEF walkVars
<1>2. \A j \in throughout' : j \in Dead(Queue)' /\ (Beyond(cursor, j) <=> Beyond(cursor, j)')
  BY <1>1 DEF Walk, Dead, Beyond, DeadCursor
<1>3. \A j : Shown(j) <=> Shown(j)'
  BY <1>1 DEF Shown
<1>. QED  BY <1>1, <1>2, <1>3 DEF Walk

LEMMA WriteStep ==
  ASSUME ListInv, NEW j \in Ids, NEW r, Readable(r), Writes(j, r)
  PROVE  ListInv'
<1>. USE DEF ListInv
<1>1. /\ open[j] = NoRow /\ rows' = [rows EXCEPT ![j] = r]
      /\ throughout' = throughout \ {j} /\ UNCHANGED <<clock, open, walkVars>>
  BY DEF Writes
<1>2. Table'
  BY <1>1 DEF Table, Readable
<1>3. \A i \in throughout' : rows'[i] = rows[i]
  BY <1>1 DEF Walk, Dead, Table
<1>. QED  BY <1>1, <1>2, <1>3, BehindTheWalk

LEMMA TableStep ==
  ASSUME ListInv, NEW j \in Ids, Claim(j) \/ Redrive(j) \/ Purge(j)
  PROVE  ListInv'
<1>0. Readable(rows[j]) /\ clock \in Nat
  BY DEF ListInv, Table
<1>1. CASE Claim(j)
  BY <1>0, <1>1, GrantReadable, WriteStep DEF Claim
<1>2. CASE Redrive(j)
  BY <1>0, <1>2, RedriveReadable, WriteStep DEF Redrive
<1>3. CASE Purge(j)
  BY <1>3, PurgedReadable, WriteStep DEF Purge
<1>. QED  BY <1>1, <1>2, <1>3

\* A burial is no part of the list before its commit, and then not of those
\* that were dead throughout.
LEMMA BurialStep ==
  ASSUME ListInv, NEW j \in Ids, Fail(j) \/ Commit(j)
  PROVE  ListInv'
<1>. USE DEF ListInv
<1>0. Readable(rows[j]) /\ clock \in Nat
  BY DEF Table
<1>1. CASE Fail(j)
  <2>. DEFINE w == Updated(Call("Fail", j), rows[j], clock)
  <2>1. /\ Where(Call("Fail", j), rows[j], clock) /\ open' = [open EXCEPT ![j] = w]
        /\ UNCHANGED <<clock, rows, walkVars, throughout>>
    BY <1>1 DEF Fail
  <2>2. Readable(w) /\ w.state = "dead" /\ rows[j].state = "running"
    BY <1>0, <2>1, FailReadable
  <2>. HIDE DEF w
  <2>3. Table'
    BY <2>1, <2>2 DEF Table, Readable
  <2>. QED  BY <2>1, <2>3, BehindTheWalk
<1>2. CASE Commit(j)
  <2>1. /\ open[j] # NoRow /\ rows' = [rows EXCEPT ![j] = open[j]]
        /\ open' = [open EXCEPT ![j] = NoRow]
        /\ UNCHANGED <<clock, walkVars, throughout>>
    BY <1>2 DEF Commit
  <2>2. Readable(open[j]) /\ rows[j].state = "running" /\ open[j] \in StoredRow
    BY <2>1 DEF Table
  <2>3. NoRow \in StoredRow
    BY DEF NoRow, StoredRow, RowState, JobState
  <2>4. Table'
    BY <2>1, <2>2, <2>3 DEF Table
  <2>5. j \notin throughout
    BY <2>2 DEF Walk, Dead
  <2>6. \A i \in throughout' : rows'[i] = rows[i]
    BY <2>1, <2>5 DEF Walk, Dead, Table
  <2>. QED  BY <2>1, <2>4, <2>6, BehindTheWalk
<1>. QED  BY <1>1, <1>2

LEMMA BeginStep == ASSUME ListInv, Begin PROVE ListInv'
<1>. USE DEF ListInv
<1>1. /\ UNCHANGED <<clock, rows, open>> /\ phase' = "walking" /\ cursor' = NULL
      /\ listed' = <<>> /\ throughout' = Dead(Queue)
      /\ limit' \in Limits /\ validLimit(limit')
  BY DEF Begin, tableVars
<1>2. limit' \in Nat \ {0}
  BY <1>1, DeadListAssumption DEF validLimit
<1>3. Table' /\ Dead(Queue)' = Dead(Queue)
  BY <1>1 DEF Table, Dead
<1>4. Walk'
  BY <1>1, <1>2, <1>3 DEF Walk, Beyond
<1>. QED  BY <1>3, <1>4

\* No page fails, so that ListDead shows what its query returned.
LEMMA ListDeadIs ==
  ASSUME ListInv, ListDead
  PROVE  \E m \in Nat, shown \in Seq(Nat \X Ids) :
           /\ Len(shown) = m /\ UNCHANGED <<clock, rows, open, limit, throughout>>
           /\ phase = "walking"
           /\ m <= limit /\ phase' = IF m < limit THEN "done" ELSE "walking"
           /\ listed' = listed \o shown
           /\ cursor' = IF m = 0 THEN cursor ELSE shown[m]
           /\ \A i, k \in 1..m : i < k => Precedes(shown[i], shown[k])
           /\ cursor # NULL => \A i \in 1..m : Precedes(cursor, shown[i])
           /\ \A j \in Candidates :
                \/ \E i \in 1..m : shown[i][2] = j
                \/ m = limit /\ \A i \in 1..m : Precedes(shown[i], DeadCursor(j))
<1>. USE DEF ListInv
<1>1. PICK m \in Nat :
        /\ Len(Page) = m /\ Page \in [1..m -> Candidates] /\ m <= limit
        /\ \A i, k \in 1..m : i < k => Precedes(DeadCursor(Page[i]), DeadCursor(Page[k]))
        /\ \A j \in Candidates :
             \/ \E i \in 1..m : Page[i] = j
             \/ m = limit /\ \A i \in 1..m : Precedes(DeadCursor(Page[i]), DeadCursor(j))
  BY PageIs DEF Walk
<1>. DEFINE shown == [i \in 1..m |-> DeadCursor(Page[i])]
            jobs == IF \A i \in DOMAIN Page : scanJob(Page[i]) THEN Page ELSE <<>>
<1>2. \A j \in Candidates : /\ j \in Dead(Queue) /\ DeadCursor(j) \in Nat \X Ids
                            /\ DeadCursor(j)[2] = j /\ scanJob(j)
  BY DeadCursors DEF Candidates
<1>3. jobs = Page
  BY <1>1, <1>2
<1>4. /\ phase = "walking" /\ UNCHANGED <<tableVars, limit, throughout>>
      /\ phase' = CASE jobs # Page                       -> "failed"
                    [] jobs = Page /\ Len(Page) < limit  -> "done"
                    [] OTHER                              -> "walking"
      /\ listed' = listed \o [i \in DOMAIN jobs |-> DeadCursor(jobs[i])]
      /\ cursor' = IF jobs = <<>> THEN cursor ELSE DeadCursor(Last(jobs))
  BY DEF ListDead, Page
<1>. HIDE DEF jobs
<1>5. DOMAIN Page = 1..m
  BY <1>1
<1>6. shown \in Seq(Nat \X Ids) /\ Len(shown) = m
  <2>1. \A i \in 1..m : DeadCursor(Page[i]) \in Nat \X Ids
    BY <1>1, <1>2
  <2>2. shown \in [1..m -> Nat \X Ids]
    BY <2>1
  <2>. QED  BY <2>2
<1>7. listed' = listed \o shown
  BY <1>3, <1>4, <1>5
<1>8. phase' = IF m < limit THEN "done" ELSE "walking"
  BY <1>1, <1>3, <1>4
<1>9. cursor' = IF m = 0 THEN cursor ELSE shown[m]
  <2>1. (jobs = <<>>) <=> m = 0
    BY <1>1, <1>3, <1>5
  <2>2. Last(Page) = Page[m]
    BY <1>1 DEF Last
  <2>. QED  BY <1>1, <1>3, <1>4, <2>1, <2>2
<1>10. \A i \in 1..m : shown[i] = DeadCursor(Page[i]) /\ Page[i] \in Candidates
  BY <1>1
<1>. HIDE DEF shown
<1>11. \A i, k \in 1..m : i < k => Precedes(shown[i], shown[k])
  BY <1>1, <1>10
<1>12. cursor # NULL => \A i \in 1..m : Precedes(cursor, shown[i])
  BY <1>10 DEF Candidates, Beyond
<1>13. ASSUME NEW j \in Candidates
       PROVE  \/ \E i \in 1..m : shown[i][2] = j
              \/ m = limit /\ \A i \in 1..m : Precedes(shown[i], DeadCursor(j))
  <2>1. CASE \E i \in 1..m : Page[i] = j
    BY <1>2, <1>10, <2>1
  <2>2. CASE m = limit /\ \A i \in 1..m : Precedes(DeadCursor(Page[i]), DeadCursor(j))
    BY <1>10, <2>2
  <2>. QED  BY <1>1, <2>1, <2>2
<1>14. UNCHANGED <<clock, rows, open, limit, throughout>>
  BY <1>4 DEF tableVars
<1>. QED  BY <1>1, <1>4, <1>6, <1>7, <1>8, <1>9, <1>11, <1>12, <1>13, <1>14

LEMMA ListDeadStep == ASSUME ListInv, ListDead PROVE ListInv'
<1>. USE DEF ListInv
<1>1. PICK m \in Nat, shown \in Seq(Nat \X Ids) :
        /\ Len(shown) = m /\ UNCHANGED <<clock, rows, open, limit, throughout>>
        /\ phase = "walking"
        /\ m <= limit /\ phase' = IF m < limit THEN "done" ELSE "walking"
        /\ listed' = listed \o shown
        /\ cursor' = IF m = 0 THEN cursor ELSE shown[m]
        /\ \A i, k \in 1..m : i < k => Precedes(shown[i], shown[k])
        /\ cursor # NULL => \A i \in 1..m : Precedes(cursor, shown[i])
        /\ \A j \in Candidates :
             \/ \E i \in 1..m : shown[i][2] = j
             \/ m = limit /\ \A i \in 1..m : Precedes(shown[i], DeadCursor(j))
  BY ListDeadIs
<1>. DEFINE n == Len(listed)
<1>2. /\ listed \in Seq(Nat \X Ids) /\ n \in Nat
      /\ \A i \in 1..n : listed[i] \in Nat \X Ids
  BY DEF Walk
<1>3. /\ listed' \in Seq(Nat \X Ids) /\ Len(listed') = n + m
      /\ \A i \in 1..(n + m) : listed'[i] = IF i <= n THEN listed[i] ELSE shown[i - n]
  BY <1>1, <1>2, ConcatProperties
<1>4. /\ DOMAIN listed = 1..n /\ DOMAIN listed' = 1..(n + m)
      /\ \A i \in 1..n : i \in 1..(n + m) /\ listed'[i] = listed[i]
      /\ \A i \in 1..m : n + i \in 1..(n + m) /\ listed'[n + i] = shown[i]
  BY <1>1, <1>2, <1>3
<1>5. \A i \in 1..m : shown[i] \in Nat \X Ids
  BY <1>1
<1>6. \A a \in Nat \X Ids : a \in Nat \X Nat
  BY IdsAssumption
<1>. HIDE DEF n
<1>7. ASSUME NEW i \in 1..(n + m), NEW k \in 1..(n + m), i < k
      PROVE  Precedes(listed'[i], listed'[k])
  <2>0. /\ i \in Nat \ {0} /\ k \in Nat \ {0} /\ i <= n + m /\ k <= n + m
    BY <1>2
  <2>. DEFINE At(x) == IF x <= n THEN listed[x] ELSE shown[x - n]
  <2>. HIDE DEF At
  <2>a. listed'[i] = At(i) /\ listed'[k] = At(k)
    BY <1>3 DEF At
  <2>b. \A x, y \in 1..n : x < y => Precedes(listed[x], listed[y])
    BY DEF Walk, n
  <2>1. CASE k <= n
    <3>1. i \in 1..n /\ k \in 1..n /\ i <= n
      BY <1>2, <1>7, <2>0, <2>1
    <3>2. At(i) = listed[i] /\ At(k) = listed[k]
      BY <2>1, <3>1 DEF At
    <3>3. Precedes(listed[i], listed[k])
      BY <1>7, <2>b, <3>1
    <3>. QED  BY <2>a, <3>2, <3>3
  <2>2. CASE n < i
    <3>1. /\ i - n \in 1..m /\ k - n \in 1..m /\ i - n < k - n
          /\ ~(i <= n) /\ ~(k <= n)
      BY <1>2, <1>7, <2>0, <2>2
    <3>2. At(i) = shown[i - n] /\ At(k) = shown[k - n]
      BY <3>1 DEF At
    <3>3. Precedes(shown[i - n], shown[k - n])
      BY <1>1, <3>1
    <3>. QED  BY <2>a, <3>2, <3>3
  <2>3. CASE i <= n /\ n < k
    <3>1. k - n \in 1..m /\ i \in 1..n /\ n \in 1..n /\ n # 0 /\ ~(k <= n)
      BY <1>2, <2>0, <2>3
    <3>2. cursor = listed[n] /\ listed[n] \in Nat \X Ids
      BY <1>2, <3>1 DEF Walk, n
    <3>3. Precedes(listed[n], shown[k - n])
      BY <1>1, <3>1, <3>2, DeadListAssumption
    <3>4. i = n \/ Precedes(listed[i], listed[n])
      <4>1. i = n \/ i < n
        BY <1>2, <2>0, <2>3
      <4>. QED  BY <2>b, <3>1, <4>1
    <3>5. /\ listed[i] \in Nat \X Nat /\ listed[n] \in Nat \X Nat
          /\ shown[k - n] \in Nat \X Nat
      BY <1>2, <1>5, <1>6, <3>1
    <3>6. Precedes(listed[i], shown[k - n])
      BY <3>3, <3>4, <3>5, PrecedesOrders
    <3>7. At(i) = listed[i] /\ At(k) = shown[k - n]
      BY <2>3, <3>1 DEF At
    <3>. QED  BY <2>a, <3>6, <3>7
  <2>. QED  BY <1>2, <2>0, <2>1, <2>2, <2>3
<1>8. cursor' = IF Len(listed') = 0 THEN NULL ELSE listed'[Len(listed')]
  <2>1. CASE m = 0
    BY <1>1, <1>2, <1>3, <2>1 DEF Walk, n
  <2>2. CASE m # 0
    BY <1>1, <1>2, <1>3, <1>4, <2>2
  <2>. QED  BY <2>1, <2>2
<1>9. throughout' \subseteq Dead(Queue)'
  BY <1>1 DEF Walk, Dead
<1>10. \A j : Shown(j) => Shown(j)'
  BY <1>4 DEF Shown
<1>11. ASSUME NEW j \in throughout, ~Shown(j)'
       PROVE  m = limit /\ Beyond(cursor, j)'
  <2>1. j \in Candidates
    BY <1>1, <1>10, <1>11 DEF Walk, Candidates
  <2>2. ~\E i \in 1..m : shown[i][2] = j
    BY <1>4, <1>11 DEF Shown
  <2>3. m = limit /\ \A i \in 1..m : Precedes(shown[i], DeadCursor(j))
    BY <1>1, <2>1, <2>2
  <2>4. m \in 1..m /\ m # 0
    BY <2>3 DEF Walk
  <2>5. cursor' = shown[m] /\ DeadCursor(j)' = DeadCursor(j)
    BY <1>1, <2>4 DEF DeadCursor
  <2>. QED  BY <2>3, <2>4, <2>5 DEF Beyond
<1>12. Table'
  BY <1>1 DEF Table
<1>13. Walk'
  <2>1. /\ phase' \in {"idle", "walking", "done"} /\ limit' \in Nat \ {0}
        /\ throughout' = throughout
    BY <1>1 DEF Walk
  <2>2. \A i, k \in 1..Len(listed') : i < k => Precedes(listed'[i], listed'[k])
    BY <1>3, <1>7
  <2>3. phase' = "done" => \A j \in throughout' : Shown(j)'
    BY <1>1, <1>11, <2>1 DEF Walk
  <2>4. \A j \in throughout' : Shown(j)' \/ Beyond(cursor, j)'
    BY <1>11, <2>1
  <2>. QED  BY <1>3, <1>8, <1>9, <2>1, <2>2, <2>3, <2>4 DEF Walk
<1>. QED  BY <1>12, <1>13

-----------------------------------------------------------------------------
LEMMA ListStep == ListInv /\ [Next]_vars => ListInv'
<1>. SUFFICES ASSUME ListInv, [Next]_vars PROVE ListInv'
  OBVIOUS
<1>1. CASE Tick \/ UNCHANGED vars
  <2>1. /\ UNCHANGED <<rows, open, walkVars, throughout>> /\ clock' \in Nat
    BY <1>1 DEF Tick, vars, tableVars, ListInv, Table
  <2>2. Table'
    BY <2>1 DEF ListInv, Table
  <2>. QED  BY <2>1, <2>2, BehindTheWalk
<1>. QED  BY <1>1, BeginStep, ListDeadStep, TableStep, BurialStep DEF Next

\* The invariant the theorems of this module rest on.
THEOREM ListInvariant == Spec => []ListInv
BY ListStarts, ListStep, PTL DEF Spec

\* A job that was dead when a walk began and still is when it ends was on one
\* of its pages, whatever entered or left the list between two pages.
THEOREM WalkIsComplete == Spec => []WalkComplete
<1>1. ListInv => WalkComplete
  BY DEF ListInv, Walk, Shown, WalkComplete
<1>. QED  BY <1>1, ListInvariant, PTL

\* The pages of a walk together are in the order of finished_at and id, and no
\* death is on two of them.
THEOREM WalkIsOrdered == Spec => []WalkOrdered
<1>1. ListInv => WalkOrdered
  BY DEF ListInv, Walk, WalkOrdered
<1>. QED  BY <1>1, ListInvariant, PTL

\* No row the repository's statements leave makes a page of the walk fail.
THEOREM WalkIsReadable == Spec => []WalkReadable
<1>1. ListInv => WalkReadable
  BY DEF ListInv, Walk, WalkReadable
<1>. QED  BY <1>1, ListInvariant, PTL
=============================================================================
