------------------------------- MODULE SignIn -------------------------------
(***************************************************************************)
(* Signing in: the limiter of ratelimit.rs, the handlers of auth.rs, the   *)
(* sessions table in db.rs.                                                *)
(*                                                                         *)
(* A login reads the clock once, asks the limiter, verifies the password   *)
(* and records the outcome under the time it read.  There is no await in   *)
(* between, so as many logins overlap as the runtime has worker threads.   *)
(* The limiter lives in memory; the sessions are rows that survive the     *)
(* process.  A session is asked for by a cookie some browser holds, and    *)
(* every request with one looks its row up before it does anything else.   *)
(***************************************************************************)
EXTENDS Integers, FiniteSets

CONSTANTS
  Client,       \* what client_key returns
  Global,       \* GLOBAL_KEY
  Worker,       \* worker threads of the runtime
  Token,        \* session tokens, each made by one sign-in
  Free,         \* FREE_ATTEMPTS
  GlobalFree,   \* GLOBAL_FREE_ATTEMPTS
  Base,         \* BASE_DELAY_SECS
  MaxDelay,     \* MAX_DELAY_SECS
  GlobalMax,    \* GLOBAL_MAX_DELAY_SECS
  ForgetAfter,  \* FORGET_AFTER_SECS
  MaxVerify,    \* the longest a verification takes
  Ttl,          \* session_ttl_secs
  Plan,         \* bounds: wrong and right passwords given in one behaviour
  End,          \* bound: the last instant
  MaxFaults,    \* bound: faults in one behaviour
  FaultKinds    \* which faults may happen: a subset of AllFaults

AllFaults == {"crash", "db", "lost"}

ASSUME KeysAssumption == Global \notin Client /\ IsFiniteSet(Worker)
ASSUME NatsAssumption ==
  {Free, GlobalFree, Base, MaxDelay, GlobalMax, ForgetAfter, MaxVerify, Ttl, End,
   MaxFaults} \subseteq Nat
ASSUME PlanAssumption == Plan \subseteq [wrong : Nat, right : Nat]
ASSUME FaultsAssumption == FaultKinds \subseteq AllFaults

\* What the limiter's constants have in common, and that a verification is short beside
\* the shortest delay: 5 seconds, and the caps are 30 and 300.
ASSUME DelaysAssumption ==
  /\ 0 < Ttl /\ MaxVerify < Base /\ Base + MaxVerify <= GlobalMax /\ GlobalMax <= MaxDelay
  /\ MaxDelay + MaxVerify < ForgetAfter
ASSUME PowersAssumption ==
  2^0 = 1 /\ 2^1 = 2 /\ \A m, n \in 0..16 : 2^n \in Nat /\ (m <= n => 2^m <= 2^n)

VARIABLES
  clock,     \* seconds
  buckets,   \* the limiter's map; a key without an entry has an empty bucket
  tries,     \* the login each worker thread is verifying
  making,    \* tokens whose create_session is under way
  rows,      \* the sessions table: when each token's row expires
  jar,       \* tokens in browsers' cookie jars
  asks,      \* how far the request that came with each token has got
  plan,      \* passwords still to be given
  born,      \* ghost: when each session was created
  ended,     \* ghost: sessions signed out, by their own browser or from another one
  faults,    \* faults so far
  suffered   \* ghost: their kinds

limiter  == <<buckets, tries>>
sessions == <<making, rows, jar, asks, born, ended>>
faulty   == <<faults, suffered>>
vars     == <<clock, limiter, sessions, plan, faulty>>

Key       == Client \cup {Global}
Instant   == 0..End
Never     == -1
NoRow     == -1
Empty     == [failures |-> 0, until |-> 0, seen |-> 0]
Idle      == [at |-> Never, key |-> Global]
Bucket  == [failures : Nat, until : Nat, seen : Nat]
Attempt == [at : Instant \cup {Never}, key : Key]

\* "touching": the row was valid.  "deleting": and it is revoke_others that asked.
Stage == {"none", "page", "others", "deleting"}

Init ==
  /\ clock = 0
  /\ buckets = [k \in Key |-> Empty] /\ tries = [w \in Worker |-> Idle]
  /\ making = {} /\ rows = [t \in Token |-> NoRow] /\ jar = {}
  /\ asks = [t \in Token |-> "none"]
  /\ plan \in Plan
  /\ born = [t \in Token |-> Never] /\ ended = {}
  /\ faults = 0 /\ suffered = {}

-----------------------------------------------------------------------------
(* Helpers *)

Fault(f) ==
  /\ f \in FaultKinds /\ faults < MaxFaults
  /\ faults' = faults + 1 /\ suffered' = suffered \cup {f}

NoFault == UNCHANGED faulty

\* session_valid
Valid(t) == rows[t] > clock

-----------------------------------------------------------------------------
(* The limiter *)

\* Mutant of Blocked: only the client's own bucket is consulted.
BlockedByOwn(c) == buckets[c].until > clock

\* retry_after: the longer of the two waits is not zero.
Blocked(c) == \E k \in {c, Global} : buckets[k].until > clock

Wait(c) == LET left == {buckets[k].until - clock : k \in {c, Global}}
           IN CHOOSE w \in left : \A v \in left : v <= w

FreeOf(k) == IF k = Global THEN GlobalFree ELSE Free

\* Mutant of CapOf: the global bucket is capped like the others.
CapOfAll(k) == MaxDelay

CapOf(k) == IF k = Global THEN GlobalMax ELSE MaxDelay

\* The delay after `n` failures past the first one that costs something.
Delay(n, cap) == LET d == Base * 2^(IF n < 16 THEN n ELSE 16)
                 IN IF d < cap THEN d ELSE cap

\* One more failure in bucket `b` of `k`.
Failed(b, k, now) ==
  LET n == b.failures + 1
  IN [failures |-> n, seen |-> now,
      until |-> IF n > FreeOf(k) THEN now + Delay(n - FreeOf(k) - 1, CapOf(k))
                ELSE b.until]

\* Buckets not touched for a long time are dropped.
Retain(now) ==
  [k \in Key |-> IF now - buckets[k].seen < ForgetAfter THEN buckets[k] ELSE Empty]

RecordFailure(c, now) ==
  buckets' = [k \in Key |-> IF k \in {c, Global} THEN Failed(Retain(now)[k], k, now)
                            ELSE Retain(now)[k]]

\* Mutant of RecordSuccess: a success clears both buckets.
RecordSuccessBoth(c) == buckets' = [buckets EXCEPT ![c] = Empty, ![Global] = Empty]

\* Only the client's bucket.
RecordSuccess(c) == buckets' = [buckets EXCEPT ![c] = Empty]

-----------------------------------------------------------------------------
(* login *)

\* A login that is throttled is answered at once and changes nothing.
StartLogin(w, c) ==
  /\ tries[w] = Idle /\ ~Blocked(c)
  /\ Cardinality({v \in Worker : tries[v] # Idle}) < plan.wrong + plan.right
  /\ tries' = [tries EXCEPT ![w] = [at |-> clock, key |-> c]]
  /\ NoFault /\ UNCHANGED <<clock, buckets, sessions, plan>>

RejectLogin(w) ==
  /\ tries[w] # Idle /\ plan.wrong > 0 /\ plan' = [plan EXCEPT !.wrong = @ - 1]
  /\ RecordFailure(tries[w].key, tries[w].at)
  /\ tries' = [tries EXCEPT ![w] = Idle]
  /\ NoFault /\ UNCHANGED <<clock, sessions>>

\* The handler goes on to create a session, and the thread to other requests.
AcceptLogin(w) ==
  /\ tries[w] # Idle /\ plan.right > 0 /\ plan' = [plan EXCEPT !.right = @ - 1]
  /\ RecordSuccess(tries[w].key)
  /\ tries' = [tries EXCEPT ![w] = Idle]
  /\ \E t \in Token : /\ born[t] = Never /\ t \notin making
                      /\ making' = making \cup {t}
  /\ NoFault /\ UNCHANGED <<clock, rows, jar, asks, born, ended>>

\* The row, then the cookie; the browser may never get the cookie, or not keep it.
CreateSession(t) ==
  /\ t \in making /\ making' = making \ {t}
  /\ \/ /\ rows' = [rows EXCEPT ![t] = clock + Ttl]
        /\ \/ jar' = jar \cup {t} /\ NoFault
           \/ UNCHANGED jar /\ Fault("lost")
        /\ born' = [born EXCEPT ![t] = clock] /\ UNCHANGED ended
     \/ /\ UNCHANGED <<rows, jar>> /\ Fault("db")
        /\ born' = [born EXCEPT ![t] = clock] /\ ended' = ended \cup {t}
  /\ UNCHANGED <<clock, limiter, plan, asks>>

-----------------------------------------------------------------------------
(* Requests with a session *)

\* session_token: a row that is missing or has expired, or a database that does not
\* answer, is a 401.
Ask(t, what) ==
  /\ t \in jar /\ asks[t] = "none" /\ Valid(t)
  /\ asks' = [asks EXCEPT ![t] = what]
  /\ NoFault /\ UNCHANGED <<clock, limiter, making, rows, jar, plan, born, ended>>

\* Mutant of Touch: the activity is noted with an INSERT OR REPLACE.
TouchUpsert(t) ==
  /\ asks[t] \in {"page", "others"}
  /\ asks' = [asks EXCEPT ![t] = IF @ = "page" THEN "none" ELSE "deleting"]
  /\ rows' = [rows EXCEPT ![t] = IF @ = NoRow THEN clock + Ttl ELSE @]
  /\ NoFault /\ UNCHANGED <<clock, limiter, making, jar, plan, born, ended>>

\* touch_session updates a column nothing else depends on, in a row that may have gone.
Touch(t) ==
  /\ asks[t] \in {"page", "others"}
  /\ asks' = [asks EXCEPT ![t] = IF @ = "page" THEN "none" ELSE "deleting"]
  /\ NoFault /\ UNCHANGED <<clock, limiter, making, rows, jar, plan, born, ended>>

\* revoke_other_sessions; when it fails the handler answers 500.
RevokeOthers(t) ==
  /\ asks[t] = "deleting" /\ asks' = [asks EXCEPT ![t] = "none"]
  /\ \/ /\ rows' = [u \in Token |-> IF u = t THEN rows[u] ELSE NoRow]
        /\ ended' = ended \cup {u \in Token \ {t} : rows[u] # NoRow}
        /\ NoFault
     \/ UNCHANGED <<rows, ended>> /\ Fault("db")
  /\ UNCHANGED <<clock, limiter, making, jar, plan, born>>

\* The row goes whether it is valid or not; an error is logged, and the cookie goes in
\* any case.
Logout(t) ==
  /\ t \in jar /\ jar' = jar \ {t}
  /\ ended' = ended \cup {t}
  /\ \/ rows' = [rows EXCEPT ![t] = NoRow] /\ NoFault
     \/ UNCHANGED rows /\ Fault("db")
  /\ UNCHANGED <<clock, limiter, making, asks, plan, born>>

-----------------------------------------------------------------------------
(* The process and the clock *)

\* purge_expired_sessions
Purge == [t \in Token |-> IF rows[t] <= clock THEN NoRow ELSE rows[t]]

\* The process ends and is started again.  Its memory is gone; sign-ins that were making
\* a session have come to nothing.  A purge that fails is only logged.
Restart ==
  /\ Fault("crash")
  /\ buckets' = [k \in Key |-> Empty] /\ tries' = [w \in Worker |-> Idle]
  /\ asks' = [t \in Token |-> "none"]
  /\ rows' \in {rows, Purge}
  /\ making' = {}
  /\ UNCHANGED <<clock, jar, plan, born, ended>>

\* No verification takes longer than MaxVerify.
Tick ==
  /\ clock < End /\ clock' = clock + 1
  /\ \A w \in Worker : tries[w] # Idle => clock - tries[w].at < MaxVerify
  /\ NoFault /\ UNCHANGED <<limiter, sessions, plan>>

Next ==
  \/ \E w \in Worker : \/ \E c \in Client : StartLogin(w, c)
                       \/ RejectLogin(w) \/ AcceptLogin(w)
  \/ \E t \in Token : \/ CreateSession(t) \/ Touch(t) \/ RevokeOthers(t) \/ Logout(t)
                      \/ \E what \in {"page", "others"} : Ask(t, what)
  \/ Restart \/ Tick

Spec == Init /\ [][Next]_vars

-----------------------------------------------------------------------------
(* Properties *)

\* Type invariant.
TypeOK ==
  /\ clock \in Instant
  /\ buckets \in [Key -> Bucket] /\ tries \in [Worker -> Attempt]
  /\ making \subseteq Token /\ rows \in [Token -> 0..End + Ttl \cup {NoRow}]
  /\ jar \subseteq Token /\ asks \in [Token -> Stage]
  /\ plan \in [wrong : Nat, right : Nat]
  /\ born \in [Token -> Instant \cup {Never}] /\ ended \subseteq Token
  /\ faults \in 0..MaxFaults /\ suffered \subseteq FaultKinds

Workers == Cardinality(Worker)

\* What the limiter buys is a bound on the hashing (ratelimit.rs:6): past the free
\* attempts, no more than one round of verifications, one on each worker thread, in
\* every shortest delay, although a login asks the limiter before it verifies and
\* reports to it after.
Rationed ==
  \A k \in Key :
    buckets[k].failures <= FreeOf(k) + Workers * (1 + clock \div Base)

\* "someone else's noise must not cost you the evening" (ratelimit.rs:18): only a client
\* that has used up its own free attempts waits longer than the global cap.
NoiseCostsLittle ==
  \A c \in Client : Wait(c) > GlobalMax => buckets[c].failures > Free

\* A block in force stays until it is over: another client's success, old buckets being
\* dropped, and logins recorded in another order than they began take at most one
\* verification's time off it.  Only a restart and the client's own success lift it.
BlockStands ==
  [][\A k \in Key :
       \/ buckets[k].until <= clock
       \/ buckets'[k].until + MaxVerify >= buckets[k].until
       \/ k # Global /\ plan'.right # plan.right
       \/ faults' # faults]_vars

\* A session is valid from its sign-in until it expires or is signed out, over restarts
\* and whatever else its requests meet, and never again after that.  A sign-out whose
\* DELETE fails is the exception (db.rs:550 logs it, auth.rs:306 drops the cookie).
SessionsStand ==
  \A t \in Token :
    LET lasts == born[t] # Never /\ clock < born[t] + Ttl
    IN /\ Valid(t) => lasts /\ (t \in ended => "db" \in suffered)
       /\ lasts /\ t \notin ended => Valid(t)
=============================================================================
