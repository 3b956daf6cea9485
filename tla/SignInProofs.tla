---------------------------- MODULE SignInProofs ----------------------------
(***************************************************************************)
(* Proofs about SignIn: its types, that another client's failures cost at  *)
(* most the global cap, that a block in force stands, that verifications   *)
(* are rationed, and that a session is valid exactly as long as it should  *)
(* be.                                                                     *)
(***************************************************************************)
EXTENDS SignIn, FiniteSetTheorems, TLAPS

-----------------------------------------------------------------------------
(* Delays *)

\* A delay is a natural number and no longer than its bucket's cap.
LEMMA DelayBounded ==
  ASSUME NEW n \in Nat, NEW k \in Key
  PROVE  /\ Delay(n, CapOf(k)) \in Nat
         /\ Delay(n, CapOf(k)) <= CapOf(k)
         /\ CapOf(k) \in Nat /\ CapOf(k) <= MaxDelay
<1> DEFINE e == IF n < 16 THEN n ELSE 16
           p == 2^e
<1>1. e \in 0..16
  OBVIOUS
<1>2. p \in Nat
  BY <1>1, PowersAssumption
<1>3. CapOf(k) \in Nat /\ CapOf(k) <= MaxDelay
  BY NatsAssumption, DelaysAssumption DEF CapOf
<1> HIDE DEF p
<1>4. Base * p \in Nat
  BY <1>2, NatsAssumption
<1>5. Delay(n, CapOf(k)) = IF Base * p < CapOf(k) THEN Base * p ELSE CapOf(k)
  BY DEF Delay, p
<1> QED
  BY <1>3, <1>4, <1>5

\* One failure more never means a shorter delay.
LEMMA DelayGrows ==
  ASSUME NEW n \in Nat, NEW k \in Key
  PROVE  Delay(n, CapOf(k)) <= Delay(n + 1, CapOf(k))
<1> DEFINE e(i) == IF i < 16 THEN i ELSE 16
           p == 2^e(n)
           q == 2^e(n + 1)
<1>1. /\ e(n) \in 0..16 /\ e(n + 1) \in 0..16 /\ e(n) <= e(n + 1)
  OBVIOUS
<1>2. p \in Nat /\ q \in Nat /\ p <= q
  BY <1>1, PowersAssumption
<1>3. CapOf(k) \in Nat
  BY DelayBounded
<1>4. /\ Delay(n, CapOf(k)) = IF Base * p < CapOf(k) THEN Base * p ELSE CapOf(k)
      /\ Delay(n + 1, CapOf(k)) = IF Base * q < CapOf(k) THEN Base * q ELSE CapOf(k)
  BY DEF Delay
<1> HIDE DEF p, q
<1>5. Base * p \in Nat /\ Base * q \in Nat
  BY <1>2, NatsAssumption
<1>6. Base * p <= Base * q
  <2>1. PICK d \in Nat : q = p + d
    <3>1. q - p \in Nat /\ q = p + (q - p)
      BY <1>2
    <3> QED
      BY <3>1
  <2>2. Base * q = Base * p + Base * d
    BY <1>2, <2>1, NatsAssumption
  <2>3. Base * d \in Nat
    BY <2>1, NatsAssumption
  <2> QED
    BY <1>5, <2>2, <2>3
<1> QED
  BY <1>3, <1>4, <1>5, <1>6

\* What one more failure makes of a bucket.
LEMMA FailedBucket ==
  ASSUME NEW b \in Bucket, NEW k \in Key, NEW now \in Instant
  PROVE  Failed(b, k, now) \in Bucket
<1>1. FreeOf(k) \in Nat /\ now \in Nat
  BY NatsAssumption DEF FreeOf, Instant
<1>2. CASE b.failures + 1 > FreeOf(k)
  <2>1. b.failures + 1 - FreeOf(k) - 1 \in Nat
    BY <1>1, <1>2 DEF Bucket
  <2>2. Delay(b.failures + 1 - FreeOf(k) - 1, CapOf(k)) \in Nat
    BY <2>1, DelayBounded
  <2> QED
    BY <1>1, <1>2, <2>2 DEF Failed, Bucket
<1>3. CASE ~(b.failures + 1 > FreeOf(k))
  BY <1>1, <1>3 DEF Failed, Bucket
<1> QED
  BY <1>2, <1>3

-----------------------------------------------------------------------------
(* Types *)

\* A login under way began with the clock, less than a verification ago.
TriesOK ==
  \A w \in Worker : tries[w] # Idle =>
    /\ tries[w].key \in Client /\ tries[w].at \in 0..clock
    /\ clock - tries[w].at <= MaxVerify

LEMMA Typing == Spec => [](TypeOK /\ TriesOK)
<1> USE NatsAssumption, DelaysAssumption
<1>1. Init => TypeOK /\ TriesOK
  BY PlanAssumption, FaultsAssumption
  DEF Init, TypeOK, TriesOK, Instant, Key, Bucket, Attempt, Stage, Empty, Idle, Never, NoRow
<1>2. TypeOK /\ TriesOK /\ [Next]_vars => TypeOK' /\ TriesOK'
  <2> SUFFICES ASSUME TypeOK, TriesOK, [Next]_vars
               PROVE  TypeOK' /\ TriesOK'
    OBVIOUS
  <2> USE DEF TypeOK, TriesOK
  <2>1. ASSUME NEW w \in Worker, NEW c \in Client, StartLogin(w, c)
        PROVE  TypeOK' /\ TriesOK'
    BY <2>1 DEF StartLogin, NoFault, faulty, sessions, Key, Attempt, Instant, Idle, Never
  <2>2. ASSUME NEW w \in Worker, RejectLogin(w)
        PROVE  TypeOK' /\ TriesOK'
    <3> DEFINE now == tries[w].at
    <3>1. now \in Instant /\ now \in 0..clock /\ tries[w].key \in Client
      BY <2>2 DEF RejectLogin, Instant
    <3>2. Retain(now) \in [Key -> Bucket]
      BY <3>1 DEF Retain, Empty, Bucket
    <3>3. buckets' \in [Key -> Bucket]
      <4>1. \A k \in Key : Failed(Retain(now)[k], k, now) \in Bucket
        BY <3>1, <3>2, FailedBucket
      <4> QED
        BY <2>2, <3>2, <4>1 DEF RejectLogin, RecordFailure
    <3>4. tries' \in [Worker -> Attempt] /\ TriesOK'
      BY <2>2 DEF RejectLogin, Attempt, Idle, Never, Key, sessions, NoFault
    <3> QED
      BY <2>2, <3>3, <3>4 DEF RejectLogin, sessions, NoFault, faulty
  <2>3. ASSUME NEW w \in Worker, AcceptLogin(w)
        PROVE  TypeOK' /\ TriesOK'
    BY <2>3 DEF AcceptLogin, RecordSuccess, Empty, Bucket, Attempt, Idle, Never, Key,
                NoFault, faulty
  <2>4. ASSUME NEW t \in Token, CreateSession(t)
        PROVE  TypeOK' /\ TriesOK'
    BY <2>4 DEF CreateSession, Fault, NoFault, faulty, limiter, Instant, NoRow
  <2>5. ASSUME NEW t \in Token, Touch(t)
        PROVE  TypeOK' /\ TriesOK'
    BY <2>5 DEF Touch, NoFault, faulty, limiter, Stage
  <2>6. ASSUME NEW t \in Token, RevokeOthers(t)
        PROVE  TypeOK' /\ TriesOK'
    BY <2>6 DEF RevokeOthers, Fault, NoFault, faulty, limiter, Stage, NoRow
  <2>7. ASSUME NEW t \in Token, Logout(t)
        PROVE  TypeOK' /\ TriesOK'
    BY <2>7 DEF Logout, Fault, NoFault, faulty, limiter, NoRow
  <2>8. ASSUME NEW t \in Token, NEW what \in {"page", "others"}, Ask(t, what)
        PROVE  TypeOK' /\ TriesOK'
    BY <2>8 DEF Ask, NoFault, faulty, limiter, Stage
  <2>9. CASE Restart
    BY <2>9 DEF Restart, Fault, Purge, Empty, Bucket, Idle, Never, Attempt, Key, Stage, NoRow
  <2>10. CASE Tick
    BY <2>10 DEF Tick, NoFault, faulty, limiter, sessions, Instant
  <2>11. CASE UNCHANGED vars
    BY <2>11 DEF vars, limiter, sessions, faulty
  <2> QED
    BY <2>1, <2>2, <2>3, <2>4, <2>5, <2>6, <2>7, <2>8, <2>9, <2>10, <2>11 DEF Next
<1> QED
  BY <1>1, <1>2, PTL DEF Spec

\* The variables keep their types.
THEOREM SignInTyped == Spec => []TypeOK
  BY Typing, PTL

-----------------------------------------------------------------------------
(* The limiter *)

\* A bucket that is still within its allowance has never blocked anyone; one beyond it
\* is blocked from its last failure on, for the delay that goes with its count.
BucketOK(k) ==
  /\ buckets[k].failures <= FreeOf(k) => buckets[k].until = 0
  /\ buckets[k].failures > FreeOf(k) =>
       buckets[k].until = buckets[k].seen
                          + Delay(buckets[k].failures - FreeOf(k) - 1, CapOf(k))
  /\ buckets[k].seen <= clock

BucketsOK == \A k \in Key : BucketOK(k)

\* How RejectLogin changes a bucket: it is dropped, left alone, or counts one more.
LEMMA Rejected ==
  ASSUME TypeOK, TriesOK, NEW w \in Worker, RejectLogin(w), NEW k \in Key
  PROVE  /\ tries[w].at \in 0..clock /\ clock - tries[w].at <= MaxVerify
         /\ \E b \in Bucket :
              /\ \/ b = buckets[k] /\ tries[w].at - buckets[k].seen < ForgetAfter
                 \/ b = Empty /\ tries[w].at - buckets[k].seen >= ForgetAfter
              /\ buckets'[k] \in {b, Failed(b, k, tries[w].at)}
<1>1. tries[w].at \in 0..clock /\ clock - tries[w].at <= MaxVerify
  BY DEF RejectLogin, TriesOK
<1>2. buckets'[k] \in {Retain(tries[w].at)[k], Failed(Retain(tries[w].at)[k], k, tries[w].at)}
  BY DEF RejectLogin, RecordFailure
<1>3. \/ /\ Retain(tries[w].at)[k] = buckets[k]
         /\ tries[w].at - buckets[k].seen < ForgetAfter
      \/ /\ Retain(tries[w].at)[k] = Empty
         /\ tries[w].at - buckets[k].seen >= ForgetAfter
  BY <1>1, NatsAssumption DEF Retain, TypeOK, Bucket, Instant
<1>4. Retain(tries[w].at)[k] \in Bucket
  BY <1>3 DEF TypeOK, Bucket, Empty
<1> QED
  BY <1>1, <1>2, <1>3, <1>4

LEMMA EmptyOK ==
  ASSUME TypeOK, NEW k \in Key, buckets'[k] = Empty, clock' \in Nat
  PROVE  BucketOK(k)'
<1>1. FreeOf(k) \in Nat
  BY NatsAssumption DEF FreeOf
<1> QED
  BY <1>1 DEF BucketOK, Empty

LEMMA FailedOK ==
  ASSUME NEW k \in Key, NEW b \in Bucket, NEW now \in Nat, now <= clock', clock' \in Nat,
         b.failures <= FreeOf(k) => b.until = 0,
         buckets'[k] = Failed(b, k, now)
  PROVE  BucketOK(k)'
<1>1. FreeOf(k) \in Nat
  BY NatsAssumption DEF FreeOf
<1>2. b.failures \in Nat /\ b.until \in Nat
  BY DEF Bucket
<1>3. /\ buckets'[k].failures = b.failures + 1
      /\ buckets'[k].seen = now
      /\ buckets'[k].until =
           IF b.failures + 1 > FreeOf(k)
           THEN now + Delay(b.failures + 1 - FreeOf(k) - 1, CapOf(k)) ELSE b.until
  BY <1>1, <1>2 DEF Failed
<1> QED
  BY <1>1, <1>2, <1>3 DEF BucketOK

LEMMA BucketsKept == Spec => []BucketsOK
<1> USE NatsAssumption, DelaysAssumption
<1>1. Init => BucketsOK
  <2> SUFFICES ASSUME Init, NEW k \in Key PROVE BucketOK(k)
    BY DEF BucketsOK
  <2>1. FreeOf(k) \in Nat
    BY DEF FreeOf
  <2> QED
    BY <2>1 DEF Init, BucketOK, Empty
<1>2. TypeOK /\ TypeOK' /\ TriesOK /\ BucketsOK /\ [Next]_vars => BucketsOK'
  <2> SUFFICES ASSUME TypeOK, TypeOK', TriesOK, BucketsOK, [Next]_vars, NEW k \in Key
               PROVE  BucketOK(k)'
    BY DEF BucketsOK
  <2>0. BucketOK(k) /\ clock \in Nat /\ clock' \in Nat
    BY DEF BucketsOK, TypeOK, Instant
  <2>1. ASSUME NEW w \in Worker, RejectLogin(w)
        PROVE  BucketOK(k)'
    <3>1. PICK b \in Bucket :
            /\ b = buckets[k] \/ b = Empty
            /\ buckets'[k] \in {b, Failed(b, k, tries[w].at)}
      BY <2>1, Rejected
    <3>2. tries[w].at \in 0..clock
      BY <2>1, Rejected
    <3>3. clock' = clock
      BY <2>1 DEF RejectLogin
    <3>4. b.failures <= FreeOf(k) => b.until = 0
      BY <2>0, <3>1 DEF BucketOK, Empty
    <3>5. CASE buckets'[k] = Failed(b, k, tries[w].at)
      BY <2>0, <3>2, <3>3, <3>4, <3>5, FailedOK
    <3>6. CASE buckets'[k] = Empty
      BY <2>0, <3>6, EmptyOK
    <3>7. CASE buckets'[k] = buckets[k]
      BY <2>0, <3>3, <3>7 DEF BucketOK
    <3> QED
      BY <3>1, <3>5, <3>6, <3>7
  <2>2. ASSUME NEW w \in Worker, AcceptLogin(w)
        PROVE  BucketOK(k)'
    <3>1. buckets'[k] = buckets[k] \/ buckets'[k] = Empty
      BY <2>2 DEF AcceptLogin, RecordSuccess, TypeOK
    <3>2. clock' = clock
      BY <2>2 DEF AcceptLogin
    <3> QED
      BY <2>0, <3>1, <3>2, EmptyOK DEF BucketOK
  <2>3. CASE Restart
    <3>1. buckets'[k] = Empty
      BY <2>3 DEF Restart
    <3> QED
      BY <2>0, <3>1, EmptyOK
  <2>4. CASE buckets' = buckets /\ clock' >= clock
    BY <2>0, <2>4 DEF BucketOK, TypeOK, Bucket
  <2>5. ASSUME NEW w \in Worker, NEW c \in Client, StartLogin(w, c)
        PROVE  buckets' = buckets /\ clock' = clock
    BY <2>5 DEF StartLogin
  <2>6. ASSUME NEW t \in Token,
               \/ CreateSession(t) \/ Touch(t) \/ RevokeOthers(t) \/ Logout(t)
               \/ \E what \in {"page", "others"} : Ask(t, what)
        PROVE  buckets' = buckets /\ clock' = clock
    BY <2>6 DEF CreateSession, Touch, RevokeOthers, Logout, Ask, limiter
  <2>7. CASE Tick
    BY <2>0, <2>4, <2>7 DEF Tick, limiter
  <2>8. CASE UNCHANGED vars
    BY <2>0, <2>4, <2>8 DEF vars, limiter
  <2> QED
    BY <2>0, <2>1, <2>2, <2>3, <2>4, <2>5, <2>6, <2>7, <2>8 DEF Next
<1> QED
  BY <1>1, <1>2, Typing, PTL DEF Spec

\* No bucket blocks for longer than its cap.
LEMMA UntilBounded ==
  ASSUME TypeOK, BucketsOK, NEW k \in Key
  PROVE  buckets[k].until <= buckets[k].seen + CapOf(k) /\ buckets[k].seen <= clock
<1>1. FreeOf(k) \in Nat /\ CapOf(k) \in Nat
  BY NatsAssumption, DelayBounded DEF FreeOf
<1>2. BucketOK(k) /\ buckets[k] \in Bucket /\ clock \in Nat
  BY NatsAssumption DEF BucketsOK, TypeOK, Instant
<1>3. CASE buckets[k].failures <= FreeOf(k)
  BY <1>1, <1>2, <1>3 DEF BucketOK, Bucket
<1>4. CASE buckets[k].failures > FreeOf(k)
  <2>1. buckets[k].failures - FreeOf(k) - 1 \in Nat
    BY <1>1, <1>2, <1>4 DEF Bucket
  <2>2. /\ Delay(buckets[k].failures - FreeOf(k) - 1, CapOf(k)) \in Nat
        /\ Delay(buckets[k].failures - FreeOf(k) - 1, CapOf(k)) <= CapOf(k)
    BY <2>1, DelayBounded
  <2> QED
    BY <1>1, <1>2, <1>4, <2>2 DEF BucketOK, Bucket
<1> QED
  BY <1>1, <1>2, <1>3, <1>4 DEF Bucket

\* The noise of others costs a client at most the global cap.
THEOREM NoiseIsCheap == Spec => []NoiseCostsLittle
<1>1. TypeOK /\ BucketsOK => NoiseCostsLittle
  <2> SUFFICES ASSUME TypeOK, BucketsOK, NEW c \in Client
               PROVE  Wait(c) > GlobalMax => buckets[c].failures > Free
    BY DEF NoiseCostsLittle
  <2> DEFINE own == buckets[c].until - clock
             all == buckets[Global].until - clock
  <2>1. /\ c \in Key /\ Global \in Key /\ c # Global
    BY KeysAssumption DEF Key
  <2>2. clock \in Nat /\ buckets[c] \in Bucket /\ buckets[Global] \in Bucket
    BY <2>1, NatsAssumption DEF TypeOK, Instant
  <2>3. own \in Int /\ (own <= 0 \/ buckets[c].failures > Free)
    BY <2>1, <2>2, NatsAssumption DEF BucketsOK, BucketOK, FreeOf, Bucket
  <2>4. all \in Int /\ all <= GlobalMax
    BY <2>1, <2>2, UntilBounded, NatsAssumption DEF CapOf, Bucket
  <2>5. Wait(c) = CHOOSE w \in {own, all} : \A v \in {own, all} : v <= w
    <3>1. {buckets[k].until - clock : k \in {c, Global}} = {own, all}
      OBVIOUS
    <3> QED
      BY <3>1 DEF Wait
  <2> HIDE DEF own, all
  <2>6. \E w \in {own, all} : \A v \in {own, all} : v <= w
    BY <2>3, <2>4
  <2>7. Wait(c) \in {own, all}
    BY <2>5, <2>6
  <2> QED
    BY <2>3, <2>4, <2>7, NatsAssumption
<1> QED
  BY <1>1, BucketsKept, SignInTyped, PTL

\* A login that is rejected does not shorten a block that is in force by more than the
\* time it took.
LEMMA RejectionStands ==
  ASSUME TypeOK, TriesOK, BucketsOK, NEW w \in Worker, RejectLogin(w), NEW k \in Key,
         buckets[k].until > clock
  PROVE  buckets'[k].until + MaxVerify >= buckets[k].until
<1> DEFINE now == tries[w].at
           n == buckets[k].failures - FreeOf(k) - 1
<1>1. /\ FreeOf(k) \in Nat /\ CapOf(k) \in Nat /\ CapOf(k) <= MaxDelay
      /\ MaxVerify \in Nat /\ MaxDelay \in Nat /\ ForgetAfter \in Nat
  BY NatsAssumption, DelayBounded DEF FreeOf
<1>2. buckets[k] \in Bucket /\ clock \in Nat /\ BucketOK(k)
  BY NatsAssumption DEF TypeOK, Instant, BucketsOK
<1>3. now \in 0..clock /\ clock - now <= MaxVerify
  BY Rejected
<1>4. /\ buckets[k].failures > FreeOf(k)
      /\ buckets[k].until = buckets[k].seen + Delay(n, CapOf(k))
  BY <1>1, <1>2 DEF BucketOK, Bucket
<1>5. n \in Nat
  BY <1>1, <1>2, <1>4 DEF Bucket
<1>6. now - buckets[k].seen < ForgetAfter
  <2>1. buckets[k].until <= buckets[k].seen + CapOf(k)
    BY UntilBounded
  <2> QED
    BY <1>1, <1>2, <1>3, <2>1, DelaysAssumption DEF Bucket
<1>7. buckets'[k] \in {buckets[k], Failed(buckets[k], k, now)}
  BY <1>1, <1>2, <1>3, <1>6, Rejected DEF Bucket
<1>8. CASE buckets'[k] = Failed(buckets[k], k, now)
  <2>1. buckets'[k].until = now + Delay(n + 1, CapOf(k))
    <3>1. /\ buckets[k].failures + 1 > FreeOf(k)
          /\ buckets[k].failures + 1 - FreeOf(k) - 1 = n + 1
      BY <1>1, <1>2, <1>4 DEF Bucket
    <3>2. buckets'[k].until =
            IF buckets[k].failures + 1 > FreeOf(k)
            THEN now + Delay(buckets[k].failures + 1 - FreeOf(k) - 1, CapOf(k))
            ELSE buckets[k].until
      BY <1>1, <1>2, <1>8 DEF Failed, Bucket
    <3> QED
      BY <3>1, <3>2
  <2>2. Delay(n, CapOf(k)) <= Delay(n + 1, CapOf(k))
    BY <1>5, DelayGrows
  <2>3. Delay(n, CapOf(k)) \in Nat /\ Delay(n + 1, CapOf(k)) \in Nat
    BY <1>5, DelayBounded
  <2> QED
    BY <1>1, <1>2, <1>3, <1>4, <2>1, <2>2, <2>3 DEF BucketOK, Bucket
<1>9. CASE buckets'[k] = buckets[k]
  BY <1>1, <1>2, <1>9 DEF Bucket
<1> QED
  BY <1>7, <1>8, <1>9

\* A block in force is lifted by nothing but time, a restart or the client's own success.
THEOREM BlocksStand == Spec => BlockStands
<1>1. TypeOK /\ TriesOK /\ BucketsOK /\ [Next]_vars =>
        [\A k \in Key :
           \/ buckets[k].until <= clock
           \/ buckets'[k].until + MaxVerify >= buckets[k].until
           \/ k # Global /\ plan'.right # plan.right
           \/ faults' # faults]_vars
  <2> SUFFICES ASSUME TypeOK, TriesOK, BucketsOK, Next, NEW k \in Key,
                      ~(buckets[k].until <= clock)
               PROVE  \/ buckets'[k].until + MaxVerify >= buckets[k].until
                      \/ k # Global /\ plan'.right # plan.right
                      \/ faults' # faults
    OBVIOUS
  <2>1. buckets[k] \in Bucket /\ clock \in Nat /\ MaxVerify \in Nat
    BY NatsAssumption DEF TypeOK, Instant
  <2>2. buckets[k].until > clock
    BY <2>1 DEF Bucket
  <2>3. ASSUME NEW w \in Worker, RejectLogin(w)
        PROVE  buckets'[k].until + MaxVerify >= buckets[k].until
    BY <2>2, <2>3, RejectionStands
  <2>4. CASE buckets'[k] = buckets[k]
    BY <2>1, <2>4 DEF Bucket
  <2>5. ASSUME NEW w \in Worker, AcceptLogin(w)
        PROVE  buckets'[k] = buckets[k] \/ (k # Global /\ plan'.right # plan.right)
    <3>1. tries[w].key \in Client /\ plan \in [wrong : Nat, right : Nat]
      BY <2>5 DEF AcceptLogin, TriesOK, TypeOK
    <3>2. buckets' = [buckets EXCEPT ![tries[w].key] = Empty]
      BY <2>5 DEF AcceptLogin, RecordSuccess
    <3>3. plan'.right # plan.right
      BY <2>5, <3>1 DEF AcceptLogin
    <3> QED
      BY <3>1, <3>2, <3>3, KeysAssumption DEF TypeOK
  <2>6. CASE Restart
    BY <2>6 DEF Restart, Fault, TypeOK
  <2>7. ASSUME NEW w \in Worker, NEW c \in Client, StartLogin(w, c)
        PROVE  buckets' = buckets
    BY <2>7 DEF StartLogin
  <2>8. ASSUME NEW t \in Token,
               \/ CreateSession(t) \/ Touch(t) \/ RevokeOthers(t) \/ Logout(t)
               \/ \E what \in {"page", "others"} : Ask(t, what)
        PROVE  buckets' = buckets
    BY <2>8 DEF CreateSession, Touch, RevokeOthers, Logout, Ask, limiter
  <2>9. CASE Tick
    BY <2>4, <2>9 DEF Tick, limiter
  <2> QED
    BY <2>3, <2>4, <2>5, <2>6, <2>7, <2>8, <2>9 DEF Next
<1> QED
  BY <1>1, Typing, BucketsKept, PTL DEF Spec, BlockStands

-----------------------------------------------------------------------------
(* Sessions *)

\* A row says when its session, once created, expires; a session without a row has ended
\* or expired, and one that ended and has a row was signed out when the database failed.
SessionOK(t) ==
  /\ rows[t] # NoRow => born[t] # Never /\ rows[t] = born[t] + Ttl
  /\ rows[t] = NoRow /\ born[t] # Never => t \in ended \/ born[t] + Ttl <= clock
  /\ rows[t] # NoRow /\ t \in ended => "db" \in suffered
  /\ t \in making => born[t] = Never
  /\ t \in jar \cup ended => born[t] # Never

SessionsOK == \A t \in Token : SessionOK(t)

LEMMA SessionsKept == Spec => []SessionsOK
<1> USE NatsAssumption, DelaysAssumption
<1>1. Init => SessionsOK
  BY DEF Init, SessionsOK, SessionOK, NoRow, Never
<1>2. TypeOK /\ TypeOK' /\ SessionsOK /\ [Next]_vars => SessionsOK'
  <2> SUFFICES ASSUME TypeOK, TypeOK', SessionsOK, [Next]_vars, NEW u \in Token
               PROVE  SessionOK(u)'
    BY DEF SessionsOK
  <2>0. /\ SessionOK(u) /\ clock \in Nat /\ clock' \in Nat
        /\ rows[u] \in Nat \cup {NoRow} /\ born[u] \in Nat \cup {Never}
    BY DEF SessionsOK, TypeOK, Instant
  <2> USE DEF SessionOK
  <2>1. ASSUME NEW w \in Worker, NEW c \in Client, StartLogin(w, c)
        PROVE  SessionOK(u)'
    BY <2>0, <2>1 DEF StartLogin, sessions, NoFault, faulty
  <2>2. ASSUME NEW w \in Worker, RejectLogin(w)
        PROVE  SessionOK(u)'
    BY <2>0, <2>2 DEF RejectLogin, sessions, NoFault, faulty
  <2>3. ASSUME NEW w \in Worker, AcceptLogin(w)
        PROVE  SessionOK(u)'
    BY <2>0, <2>3 DEF AcceptLogin, NoFault, faulty
  <2>4. ASSUME NEW t \in Token, CreateSession(t)
        PROVE  SessionOK(u)'
    <3>1. CASE u = t
      BY <2>0, <2>4, <3>1 DEF CreateSession, Fault, NoFault, faulty, TypeOK, NoRow, Never
    <3>2. CASE u # t
      BY <2>0, <2>4, <3>2 DEF CreateSession, Fault, NoFault, faulty, TypeOK
    <3> QED
      BY <3>1, <3>2
  <2>5. ASSUME NEW t \in Token, Touch(t)
        PROVE  SessionOK(u)'
    BY <2>0, <2>5 DEF Touch, NoFault, faulty
  <2>6. ASSUME NEW t \in Token, RevokeOthers(t)
        PROVE  SessionOK(u)'
    BY <2>0, <2>6 DEF RevokeOthers, Fault, NoFault, faulty, TypeOK
  <2>7. ASSUME NEW t \in Token, Logout(t)
        PROVE  SessionOK(u)'
    BY <2>0, <2>7 DEF Logout, Fault, NoFault, faulty, TypeOK
  <2>8. ASSUME NEW t \in Token, NEW what \in {"page", "others"}, Ask(t, what)
        PROVE  SessionOK(u)'
    BY <2>0, <2>8 DEF Ask, NoFault, faulty
  <2>9. CASE Restart
    BY <2>0, <2>9 DEF Restart, Fault, Purge, TypeOK
  <2>10. CASE Tick
    BY <2>0, <2>10 DEF Tick, NoFault, faulty, sessions
  <2>11. CASE UNCHANGED vars
    BY <2>0, <2>11 DEF vars, sessions, faulty
  <2> QED
    BY <2>1, <2>2, <2>3, <2>4, <2>5, <2>6, <2>7, <2>8, <2>9, <2>10, <2>11 DEF Next
<1> QED
  BY <1>1, <1>2, SignInTyped, PTL DEF Spec

\* Sessions are valid from sign-in to sign-out or expiry, and not longer.
THEOREM SessionsHold == Spec => []SessionsStand
<1>1. TypeOK /\ SessionsOK => SessionsStand
  BY NatsAssumption, DelaysAssumption
  DEF TypeOK, SessionsOK, SessionOK, SessionsStand, Valid, NoRow, Never, Instant
<1> QED
  BY <1>1, SessionsKept, SignInTyped, PTL

-----------------------------------------------------------------------------
(* Rationing *)

\* Rounds of Base seconds: they grow with time, and a delay later is a round later.
LEMMA RoundsGrow ==
  ASSUME NEW t \in Nat, NEW u \in Nat, t <= u
  PROVE  t \div Base \in Nat /\ t \div Base <= u \div Base
  BY NatsAssumption, DelaysAssumption, Z3T(30)

LEMMA NextRound ==
  ASSUME NEW t \in Nat, NEW u \in Nat, t + Base <= u
  PROVE  1 + t \div Base <= u \div Base
<1>1. Base \in Nat /\ Base > 0
  BY NatsAssumption, DelaysAssumption
<1>2. (t + Base) \div Base = 1 + t \div Base
  BY <1>1, Z3T(30)
<1> QED
  BY <1>1, <1>2, RoundsGrow

\* What so many rounds allow a bucket.
Allowance(k, rounds) == FreeOf(k) + Workers * rounds

LEMMA AllowanceGrows ==
  ASSUME NEW k \in Key, NEW m \in Nat, NEW n \in Nat, m <= n
  PROVE  /\ Allowance(k, m) \in Nat /\ Allowance(k, m) <= Allowance(k, n)
         /\ Allowance(k, m) + Workers = Allowance(k, 1 + m)
<1>1. Workers \in Nat /\ FreeOf(k) \in Nat
  BY KeysAssumption, NatsAssumption, FS_CardinalityType DEF Workers, FreeOf
<1>2. PICK d \in Nat : n = m + d
  <2>1. n - m \in Nat /\ n = m + (n - m)
    OBVIOUS
  <2> QED
    BY <2>1
<1> HIDE DEF Workers, FreeOf
<1>3. Workers * n = Workers * m + Workers * d /\ Workers * (1 + m) = Workers + Workers * m
  BY <1>1, <1>2
<1>4. Workers * m \in Nat /\ Workers * d \in Nat
  BY <1>1, <1>2
<1> QED
  BY <1>1, <1>3, <1>4 DEF Allowance

\* Every delay is at least the shortest, and every one but the first outlasts it by a
\* verification.
LEMMA DelayIsLong ==
  ASSUME NEW n \in Nat, NEW k \in Key
  PROVE  /\ Delay(n, CapOf(k)) >= Base
         /\ n > 0 => Delay(n, CapOf(k)) >= Base + MaxVerify
<1> DEFINE e == IF n < 16 THEN n ELSE 16
           p == 2^e
<1>1. p \in Nat /\ p >= 1 /\ (n > 0 => p >= 2)
  <2>1. e \in 0..16 /\ 0 <= e /\ (n > 0 => 1 <= e) /\ 0 \in 0..16 /\ 1 \in 0..16
    OBVIOUS
  <2> HIDE DEF e
  <2>2. p \in Nat /\ 2^0 <= p /\ (n > 0 => 2^1 <= p)
    BY <2>1, PowersAssumption
  <2> HIDE DEF p
  <2> QED
    BY <2>2, PowersAssumption
<1>2. CapOf(k) \in Nat /\ CapOf(k) >= Base + MaxVerify
  BY NatsAssumption, DelaysAssumption DEF CapOf
<1>3. Delay(n, CapOf(k)) = IF Base * p < CapOf(k) THEN Base * p ELSE CapOf(k)
  BY DEF Delay
<1> HIDE DEF p
<1>4. Base * p \in Nat /\ Base * p >= Base /\ (n > 0 => Base * p >= 2 * Base)
  <2>1. PICK d \in Nat : p = 1 + d
    <3>1. p - 1 \in Nat /\ p = 1 + (p - 1)
      BY <1>1
    <3> QED
      BY <3>1
  <2>2. Base * p = Base + Base * d /\ Base * d \in Nat
    BY <2>1, NatsAssumption
  <2>3. ASSUME n > 0
        PROVE  Base * p >= 2 * Base
    <3>1. PICK f \in Nat : p = 2 + f
      <4>1. p - 2 \in Nat /\ p = 2 + (p - 2)
        BY <1>1, <2>3
      <4> QED
        BY <4>1
    <3>2. Base * p = 2 * Base + Base * f /\ Base * f \in Nat
      BY <3>1, NatsAssumption
    <3> QED
      BY <3>2, NatsAssumption
  <2> QED
    BY <2>2, <2>3, NatsAssumption
<1> QED
  BY <1>2, <1>3, <1>4, NatsAssumption, DelaysAssumption

\* The threads verifying a password for a bucket.
Pending(k) == {w \in Worker : tries[w] # Idle /\ k \in {tries[w].key, Global}}

\* The failures so far are within the rounds that are over when the block is, and with
\* the verifications under way they are within the rounds begun.
CountOK(k) ==
  /\ buckets[k].failures > FreeOf(k) =>
       buckets[k].failures <= Allowance(k, buckets[k].until \div Base)
  /\ buckets[k].failures + Cardinality(Pending(k)) <= Allowance(k, 1 + clock \div Base)

CountsOK == \A k \in Key : CountOK(k)

LEMMA PendingCount ==
  ASSUME TypeOK, NEW k \in Key
  PROVE  /\ IsFiniteSet(Pending(k)) /\ Cardinality(Pending(k)) \in 0..Workers
         /\ Workers \in Nat
<1>1. IsFiniteSet(Worker) /\ Pending(k) \subseteq Worker
  BY KeysAssumption DEF Pending
<1>2. /\ IsFiniteSet(Pending(k)) /\ Cardinality(Pending(k)) \in Nat
      /\ Cardinality(Pending(k)) <= Workers /\ Workers \in Nat
  BY <1>1, FS_Subset, FS_CardinalityType DEF Workers
<1> QED
  BY <1>2

\* Pending verifications after a step: one more, one less, or no more than before.
LEMMA PendingStarted ==
  ASSUME TypeOK, TriesOK, NEW w \in Worker, NEW c \in Client, StartLogin(w, c), NEW k \in Key
  PROVE  IF k \in {c, Global}
         THEN /\ Cardinality(Pending(k)') = Cardinality(Pending(k)) + 1
              /\ Cardinality(Pending(k)) < Workers
         ELSE Pending(k)' = Pending(k)
<1>1. /\ tries' = [tries EXCEPT ![w] = [at |-> clock, key |-> c]] /\ tries[w] = Idle
      /\ tries \in [Worker -> Attempt]
  BY DEF StartLogin, TypeOK
<1>2. [at |-> clock, key |-> c] # Idle
  BY NatsAssumption DEF Idle, Never, TypeOK, Instant
<1>3. CASE k \in {c, Global}
  <2>1. Pending(k)' = Pending(k) \cup {w} /\ w \notin Pending(k)
    BY <1>1, <1>2, <1>3 DEF Pending
  <2>2. IsFiniteSet(Pending(k))
    BY PendingCount
  <2>3. Cardinality(Pending(k)') = Cardinality(Pending(k)) + 1
    BY <2>1, <2>2, FS_AddElement
  <2>4. Pending(k)' \subseteq Worker /\ IsFiniteSet(Worker)
    BY KeysAssumption DEF Pending
  <2>5. Cardinality(Pending(k)') <= Workers
    BY <2>4, FS_Subset DEF Workers
  <2> QED
    BY <1>3, <2>3, <2>5, PendingCount
<1>4. CASE k \notin {c, Global}
  BY <1>1, <1>4 DEF Pending, Idle
<1> QED
  BY <1>3, <1>4

LEMMA PendingEnded ==
  ASSUME TypeOK, TriesOK, NEW w \in Worker, tries[w] # Idle,
         tries' = [tries EXCEPT ![w] = Idle], NEW k \in Key
  PROVE  IF k \in {tries[w].key, Global}
         THEN Cardinality(Pending(k)') = Cardinality(Pending(k)) - 1
         ELSE Pending(k)' = Pending(k)
<1>1. CASE k \in {tries[w].key, Global}
  <2>1. Pending(k)' = Pending(k) \ {w} /\ w \in Pending(k)
    BY <1>1 DEF Pending, TypeOK
  <2>2. IsFiniteSet(Pending(k))
    BY PendingCount
  <2> QED
    BY <1>1, <2>1, <2>2, FS_RemoveElement
<1>2. CASE k \notin {tries[w].key, Global}
  BY <1>2 DEF Pending, TypeOK
<1> QED
  BY <1>1, <1>2

\* A bucket that is dropped or whose block is still that of its last failure.
LEMMA CountKept ==
  ASSUME TypeOK, TypeOK', NEW k \in Key, CountOK(k),
         \/ buckets'[k] = buckets[k] \/ buckets'[k] = Empty,
         Cardinality(Pending(k)') <= Cardinality(Pending(k)), clock <= clock'
  PROVE  CountOK(k)'
<1>1. /\ clock \in Nat /\ clock' \in Nat /\ buckets[k] \in Bucket /\ buckets'[k] \in Bucket
      /\ FreeOf(k) \in Nat
  BY NatsAssumption DEF TypeOK, Instant, FreeOf
<1>2. /\ Cardinality(Pending(k)) \in Nat /\ Cardinality(Pending(k)') \in Nat
      /\ Workers \in Nat
  <2>1. Pending(k)' \subseteq Worker /\ IsFiniteSet(Worker)
    BY KeysAssumption DEF Pending
  <2>2. Cardinality(Pending(k)') \in Nat
    BY <2>1, FS_Subset, FS_CardinalityType
  <2> QED
    BY <2>2, PendingCount
<1>3. clock \div Base \in Nat /\ clock' \div Base \in Nat /\ clock \div Base <= clock' \div Base
  BY <1>1, RoundsGrow
<1>4. /\ Allowance(k, 1 + clock \div Base) <= Allowance(k, 1 + clock' \div Base)
      /\ Allowance(k, 1 + clock \div Base) \in Nat /\ Allowance(k, 1 + clock' \div Base) \in Nat
  <2>1. 1 + clock \div Base \in Nat /\ 1 + clock' \div Base \in Nat
        /\ 1 + clock \div Base <= 1 + clock' \div Base
    BY <1>3
  <2> QED
    BY <2>1, AllowanceGrows
<1>5. buckets'[k].failures <= buckets[k].failures
  BY <1>1 DEF Empty, Bucket
<1>6. buckets'[k].failures + Cardinality(Pending(k)') <= Allowance(k, 1 + clock' \div Base)
  <2>1. buckets[k].failures + Cardinality(Pending(k)) <= Allowance(k, 1 + clock \div Base)
    BY DEF CountOK
  <2> QED
    BY <1>1, <1>2, <1>4, <1>5, <2>1 DEF Bucket
<1>7. buckets'[k].failures > FreeOf(k) =>
        buckets'[k].failures <= Allowance(k, buckets'[k].until \div Base)
  BY <1>1 DEF CountOK, Empty, Bucket
<1> QED
  BY <1>6, <1>7 DEF CountOK, Allowance, Workers, FreeOf

\* A login is let in only when the block is over, so that the failures so far are within
\* the rounds before the one it begins.
LEMMA StartCounts ==
  ASSUME TypeOK, TypeOK', TriesOK, NEW w \in Worker, NEW c \in Client, StartLogin(w, c),
         NEW k \in Key, CountOK(k)
  PROVE  CountOK(k)'
<1>1. buckets' = buckets /\ clock' = clock
  BY DEF StartLogin
<1>2. /\ clock \in Nat /\ buckets[k] \in Bucket /\ FreeOf(k) \in Nat /\ Base \in Nat
  BY NatsAssumption DEF TypeOK, Instant, FreeOf
<1>3. CASE k \notin {c, Global}
  <2>1. Pending(k)' = Pending(k)
    BY <1>3, PendingStarted
  <2> QED
    BY <1>1, <1>2, <2>1, PendingCount, CountKept
<1>4. CASE k \in {c, Global}
  <2> DEFINE n == Cardinality(Pending(k))
  <2>1. Cardinality(Pending(k)') = n + 1 /\ n < Workers
    BY <1>4, PendingStarted
  <2>2. n \in Nat /\ Workers \in Nat
    BY PendingCount
  <2>3. buckets[k].until <= clock
    BY <1>2, <1>4 DEF StartLogin, Blocked, Bucket
  <2>4. clock \div Base \in Nat
    BY <1>2, RoundsGrow
  <2>5. /\ Allowance(k, clock \div Base) \in Nat
        /\ Allowance(k, clock \div Base) + Workers = Allowance(k, 1 + clock \div Base)
    BY <2>4, AllowanceGrows
  <2>6. buckets[k].failures <= Allowance(k, clock \div Base)
    <3>1. CASE buckets[k].failures > FreeOf(k)
      <4>1. buckets[k].failures <= Allowance(k, buckets[k].until \div Base)
        BY <3>1 DEF CountOK
      <4>2. /\ buckets[k].until \div Base \in Nat
            /\ buckets[k].until \div Base <= clock \div Base
        BY <1>2, <2>3, RoundsGrow DEF Bucket
      <4>3. /\ Allowance(k, buckets[k].until \div Base) <= Allowance(k, clock \div Base)
            /\ Allowance(k, buckets[k].until \div Base) \in Nat
        BY <2>4, <4>2, AllowanceGrows
      <4> QED
        BY <1>2, <2>5, <4>1, <4>3 DEF Bucket
    <3>2. CASE buckets[k].failures <= FreeOf(k)
      <4>1. /\ Allowance(k, 0) <= Allowance(k, clock \div Base)
            /\ Allowance(k, 0) = FreeOf(k)
        <5>1. Allowance(k, 0) <= Allowance(k, clock \div Base)
          BY <2>4, AllowanceGrows
        <5>2. Allowance(k, 0) = FreeOf(k)
          BY <1>2, <2>2 DEF Allowance
        <5> QED
          BY <5>1, <5>2
      <4> QED
        BY <1>2, <2>5, <3>2, <4>1 DEF Bucket
    <3> QED
      BY <1>2, <3>1, <3>2 DEF Bucket
  <2> HIDE DEF n
  <2>7. buckets[k].failures + (n + 1) <= Allowance(k, 1 + clock \div Base)
    BY <1>2, <2>1, <2>2, <2>5, <2>6 DEF Bucket
  <2>8. buckets'[k].failures + Cardinality(Pending(k)') <= Allowance(k, 1 + clock' \div Base)
    BY <1>1, <2>1, <2>7
  <2>9. buckets'[k].failures > FreeOf(k) =>
          buckets'[k].failures <= Allowance(k, buckets'[k].until \div Base)
    BY <1>1 DEF CountOK
  <2> QED
    BY <2>8, <2>9 DEF CountOK, Allowance, Workers, FreeOf
<1> QED
  BY <1>3, <1>4

\* A failure that counts is blocked for a whole round from now, or it is the first one.
LEMMA RejectCounts ==
  ASSUME TypeOK, TypeOK', TriesOK, NEW w \in Worker, RejectLogin(w),
         NEW k \in Key, CountOK(k)
  PROVE  CountOK(k)'
<1> DEFINE now == tries[w].at
<1>1. /\ clock' = clock /\ tries[w] # Idle /\ tries' = [tries EXCEPT ![w] = Idle]
  BY DEF RejectLogin
<1>2. /\ clock \in Nat /\ buckets[k] \in Bucket /\ FreeOf(k) \in Nat
      /\ Base \in Nat /\ MaxVerify \in Nat
  BY NatsAssumption DEF TypeOK, Instant, FreeOf
<1>3. now \in 0..clock /\ clock - now <= MaxVerify
  BY Rejected
<1>4. PICK b \in Bucket :
        /\ b = buckets[k] \/ b = Empty
        /\ buckets'[k] = IF k \in {tries[w].key, Global} THEN Failed(b, k, now) ELSE b
  <2>1. Retain(now)[k] = buckets[k] \/ Retain(now)[k] = Empty
    BY DEF Retain
  <2>2. Retain(now)[k] \in Bucket
    BY <1>2, <2>1 DEF Bucket, Empty
  <2>3. buckets'[k] = IF k \in {tries[w].key, Global} THEN Failed(Retain(now)[k], k, now)
                      ELSE Retain(now)[k]
    BY DEF RejectLogin, RecordFailure
  <2> QED
    BY <2>1, <2>2, <2>3
<1>5. CASE k \notin {tries[w].key, Global}
  <2>1. Pending(k)' = Pending(k)
    BY <1>1, <1>5, PendingEnded
  <2> QED
    BY <1>1, <1>2, <1>4, <1>5, <2>1, PendingCount, CountKept
<1>6. CASE k \in {tries[w].key, Global}
  <2> DEFINE n == Cardinality(Pending(k))
             f == b.failures + 1
  <2>1. Cardinality(Pending(k)') = n - 1
    BY <1>1, <1>6, PendingEnded
  <2>2. n \in Nat /\ n >= 1 /\ Workers \in Nat
    <3>1. w \in Pending(k) /\ IsFiniteSet(Pending(k))
      BY <1>1, <1>6, PendingCount DEF Pending
    <3>2. n \in Nat /\ n # 0
      BY <3>1, FS_EmptySet, FS_CardinalityType
    <3> QED
      BY <3>2, PendingCount
  <2>3. /\ f \in Nat /\ f <= buckets[k].failures + 1
        /\ buckets'[k].failures = f
        /\ buckets'[k].until = IF f > FreeOf(k) THEN now + Delay(f - FreeOf(k) - 1, CapOf(k))
                               ELSE b.until
    BY <1>2, <1>4, <1>6 DEF Failed, Bucket, Empty
  <2>4. buckets[k].failures + n <= Allowance(k, 1 + clock \div Base)
    BY DEF CountOK
  <2>5. clock \div Base \in Nat
    BY <1>2, RoundsGrow
  <2>6. Allowance(k, 1 + clock \div Base) \in Nat
    BY <2>5, AllowanceGrows
  <2> HIDE DEF n, f
  <2>7. f + (n - 1) <= Allowance(k, 1 + clock \div Base) /\ f <= Allowance(k, 1 + clock \div Base)
    BY <1>2, <2>2, <2>3, <2>4, <2>6 DEF Bucket
  <2>8. ASSUME f > FreeOf(k)
        PROVE  f <= Allowance(k, buckets'[k].until \div Base)
    <3> DEFINE d == Delay(f - FreeOf(k) - 1, CapOf(k))
    <3>1. f - FreeOf(k) - 1 \in Nat
      BY <1>2, <2>3, <2>8
    <3>2. /\ d \in Nat /\ d >= Base
          /\ f - FreeOf(k) - 1 > 0 => d >= Base + MaxVerify
      BY <3>1, DelayBounded, DelayIsLong
    <3>3. buckets'[k].until = now + d
      BY <2>3, <2>8
    <3> HIDE DEF d
    <3>4. now + d \in Nat
      BY <1>2, <1>3, <3>2
    <3>5. CASE f = FreeOf(k) + 1
      <4>1. 1 + 0 \div Base <= (now + d) \div Base /\ 0 \div Base \in Nat
            /\ (now + d) \div Base \in Nat
        <5>1. 0 + Base <= now + d
          BY <1>2, <1>3, <3>2
        <5> QED
          BY <3>4, <5>1, NextRound, RoundsGrow
      <4>2. 1 <= (now + d) \div Base
        BY <4>1
      <4>3. /\ Allowance(k, 1) <= Allowance(k, (now + d) \div Base)
            /\ Allowance(k, (now + d) \div Base) \in Nat
        BY <4>1, <4>2, AllowanceGrows
      <4>4. Allowance(k, 1) = FreeOf(k) + Workers
        BY <1>2, <2>2 DEF Allowance
      <4>5. Workers >= 1
        BY <2>2, PendingCount DEF n
      <4> QED
        BY <1>2, <2>2, <3>3, <3>5, <4>3, <4>4, <4>5
    <3>6. CASE f # FreeOf(k) + 1
      <4>1. d >= Base + MaxVerify
        BY <1>2, <2>3, <2>8, <3>2, <3>6
      <4>2. clock + Base <= now + d
        BY <1>2, <1>3, <3>2, <4>1
      <4>3. 1 + clock \div Base <= (now + d) \div Base /\ (now + d) \div Base \in Nat
        BY <1>2, <3>4, <4>2, NextRound, RoundsGrow
      <4>4. /\ Allowance(k, 1 + clock \div Base) <= Allowance(k, (now + d) \div Base)
            /\ Allowance(k, (now + d) \div Base) \in Nat
        BY <2>5, <4>3, AllowanceGrows
      <4> QED
        BY <2>3, <2>6, <2>7, <3>3, <4>4
    <3> QED
      BY <3>5, <3>6
  <2>9. buckets'[k].failures + Cardinality(Pending(k)') <= Allowance(k, 1 + clock' \div Base)
    BY <1>1, <2>1, <2>3, <2>7
  <2>10. buckets'[k].failures > FreeOf(k) =>
           buckets'[k].failures <= Allowance(k, buckets'[k].until \div Base)
    BY <2>3, <2>8
  <2> QED
    BY <2>9, <2>10 DEF CountOK, Allowance, Workers, FreeOf
<1> QED
  BY <1>5, <1>6

LEMMA CountsKept == Spec => []CountsOK
<1>1. Init => CountsOK
  <2> SUFFICES ASSUME Init, NEW k \in Key PROVE CountOK(k)
    BY DEF CountsOK
  <2>1. Pending(k) = {} /\ buckets[k].failures = 0 /\ clock = 0
    BY DEF Init, Pending, Empty
  <2>2. Cardinality(Pending(k)) = 0
    BY <2>1, FS_EmptySet
  <2>3. Allowance(k, 1 + 0 \div Base) \in Nat
    BY RoundsGrow, AllowanceGrows
  <2>4. FreeOf(k) \in Nat
    BY NatsAssumption DEF FreeOf
  <2> QED
    BY <2>1, <2>2, <2>3, <2>4 DEF CountOK
<1>2. TypeOK /\ TypeOK' /\ TriesOK /\ CountsOK /\ [Next]_vars => CountsOK'
  <2> SUFFICES ASSUME TypeOK, TypeOK', TriesOK, CountsOK, [Next]_vars, NEW k \in Key
               PROVE  CountOK(k)'
    BY DEF CountsOK
  <2>0. /\ CountOK(k) /\ clock \in Nat /\ clock' \in Nat
        /\ Cardinality(Pending(k)) \in Nat
    BY PendingCount, NatsAssumption DEF CountsOK, TypeOK, Instant
  <2>1. ASSUME NEW w \in Worker, NEW c \in Client, StartLogin(w, c)
        PROVE  CountOK(k)'
    BY <2>0, <2>1, StartCounts
  <2>2. ASSUME NEW w \in Worker, RejectLogin(w)
        PROVE  CountOK(k)'
    BY <2>0, <2>2, RejectCounts
  <2>3. ASSUME NEW w \in Worker, AcceptLogin(w)
        PROVE  CountOK(k)'
    <3>1. /\ tries[w] # Idle /\ tries' = [tries EXCEPT ![w] = Idle] /\ clock' = clock
          /\ buckets' = [buckets EXCEPT ![tries[w].key] = Empty]
      BY <2>3 DEF AcceptLogin, RecordSuccess
    <3>2. Cardinality(Pending(k)') <= Cardinality(Pending(k))
      <4>1. \/ Cardinality(Pending(k)') = Cardinality(Pending(k)) - 1
            \/ Pending(k)' = Pending(k)
        BY <3>1, PendingEnded
      <4> QED
        BY <2>0, <4>1
    <3>3. buckets'[k] = buckets[k] \/ buckets'[k] = Empty
      BY <3>1 DEF TypeOK
    <3> QED
      BY <2>0, <3>1, <3>2, <3>3, CountKept
  <2>4. CASE Restart
    <3>1. Pending(k)' = {} /\ buckets'[k] = Empty /\ clock' = clock
      BY <2>4 DEF Restart, Pending
    <3>2. Cardinality(Pending(k)') = 0
      BY <3>1, FS_EmptySet
    <3> QED
      BY <2>0, <3>1, <3>2, CountKept
  <2>5. CASE buckets' = buckets /\ tries' = tries /\ clock' >= clock
    <3>1. Pending(k)' = Pending(k)
      BY <2>5 DEF Pending
    <3> QED
      BY <2>0, <2>5, <3>1, CountKept
  <2>6. ASSUME NEW t \in Token,
               \/ CreateSession(t) \/ Touch(t) \/ RevokeOthers(t) \/ Logout(t)
               \/ \E what \in {"page", "others"} : Ask(t, what)
        PROVE  CountOK(k)'
    BY <2>0, <2>5, <2>6 DEF CreateSession, Touch, RevokeOthers, Logout, Ask, limiter
  <2>7. CASE Tick
    BY <2>0, <2>5, <2>7 DEF Tick, limiter
  <2>8. CASE UNCHANGED vars
    BY <2>0, <2>5, <2>8 DEF vars, limiter
  <2> QED
    BY <2>1, <2>2, <2>3, <2>4, <2>6, <2>7, <2>8 DEF Next
<1> QED
  BY <1>1, <1>2, Typing, PTL DEF Spec

\* No more than a round of verifications in every shortest delay, past the free ones.
THEOREM VerificationsRationed == Spec => []Rationed
<1>1. TypeOK /\ CountsOK => Rationed
  <2> SUFFICES ASSUME TypeOK, CountsOK, NEW k \in Key
               PROVE  buckets[k].failures <= FreeOf(k) + Workers * (1 + clock \div Base)
    BY DEF Rationed
  <2>1. clock \in Nat /\ buckets[k].failures \in Nat
    BY NatsAssumption DEF TypeOK, Instant, Bucket
  <2>2. Cardinality(Pending(k)) \in Nat
    BY PendingCount
  <2>3. Allowance(k, 1 + clock \div Base) \in Nat
    BY <2>1, RoundsGrow, AllowanceGrows
  <2>4. buckets[k].failures + Cardinality(Pending(k)) <= Allowance(k, 1 + clock \div Base)
    BY DEF CountsOK, CountOK
  <2>5. buckets[k].failures <= Allowance(k, 1 + clock \div Base)
    BY <2>1, <2>2, <2>3, <2>4
  <2> QED
    BY <2>5 DEF Allowance
<1> QED
  BY <1>1, CountsKept, SignInTyped, PTL
=============================================================================
