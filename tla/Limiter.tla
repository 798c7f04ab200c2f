------------------------------ MODULE Limiter ------------------------------
(***************************************************************************)
(* The create limiter of internal/torbox/client.go: a token bucket that    *)
(* every create call, of an NZB, a torrent or a magnet, passes on its way  *)
(* to TorBox.                                                              *)
(*                                                                         *)
(* The bucket is golang.org/x/time/rate, external: Wait takes its token at *)
(* once, on credit if need be, and returns when the refill has paid it.    *)
(* Callers are anonymous, since they are served in turn.  A token is       *)
(* counted as Hour parts, so that a tick of the clock pays whole parts.    *)
(***************************************************************************)
EXTENDS Integers

CONSTANTS PerHour,      \* TorboxCreatePerHour, also the burst
          Hour,         \* ticks of an hour
          Callers,      \* goroutines of submitter.go that call at a time
          MaxRestarts   \* bound of the model

ASSUME LimiterAssumption ==
    /\ {PerHour, Hour, Callers} \subseteq Nat \ {0}
    /\ MaxRestarts \in Nat

VARIABLES tokens,   \* parts in the bucket, negative when on credit
          pending,  \* calls that have taken their token and not reached TorBox
          restarts,
          made,     \* history: creates of the last k ticks
          boots     \* history: restarts of the last k ticks

limiterVars == <<tokens, pending, restarts, made, boots>>

Full == PerHour * Hour
Back == 0..Hour

\* NewClient fills the bucket.
LimiterInit ==
    /\ tokens = Full
    /\ pending = 0 /\ restarts = 0
    /\ made = [k \in Back |-> 0]
    /\ boots = [k \in Back |-> 0]

\* waitCreate, up to the wait.
WaitCreate ==
    /\ pending < Callers
    /\ tokens' = tokens - Hour
    /\ pending' = pending + 1
    /\ UNCHANGED <<restarts, made, boots>>

\* Mutant: the wait returns at once.
CreateUnpaid ==
    /\ pending > 0
    /\ pending' = pending - 1
    /\ made' = [k \in Back |-> made[k] + 1]
    /\ UNCHANGED <<tokens, restarts, boots>>

\* The eldest call has its token paid; its request may reach TorBox much later.
Create ==
    /\ pending > 0 /\ tokens + (pending - 1) * Hour >= 0
    /\ pending' = pending - 1
    /\ made' = [k \in Back |-> made[k] + 1]
    /\ UNCHANGED <<tokens, restarts, boots>>

\* What was counted for k ticks is, a tick later, counted for k + 1.
Shifted(count) == [k \in Back |-> IF k = 0 THEN 0 ELSE count[k - 1]]

\* Mutant: an idle bucket fills without end.
RefillUncapped == tokens + PerHour

Refill == IF tokens + PerHour < Full THEN tokens + PerHour ELSE Full

RefillTick ==
    /\ tokens' = Refill
    /\ made' = Shifted(made) /\ boots' = Shifted(boots)
    /\ UNCHANGED <<pending, restarts>>

\* The bucket of the next process is full again.
Restart ==
    /\ restarts < MaxRestarts
    /\ restarts' = restarts + 1
    /\ tokens' = Full /\ pending' = 0
    /\ boots' = [k \in Back |-> boots[k] + 1]
    /\ UNCHANGED made

LimiterNext == WaitCreate \/ Create \/ RefillTick \/ Restart

LimiterSpec == LimiterInit /\ [][LimiterNext]_limiterVars

-----------------------------------------------------------------------------
\* The bucket holds at most its burst, and is on credit for no more than the
\* calls that wait (client.go waitCreate, CreateHeadroom).
LimiterTypeOK ==
    /\ tokens \in Int /\ tokens <= Full /\ tokens + pending * Hour >= 0
    /\ pending \in 0..Callers
    /\ restarts \in 0..MaxRestarts
    /\ {made, boots} \subseteq [Back -> Nat]

\* Over any stretch of time TorBox sees no more creates than the bucket held,
\* the refill paid and the pool had on its way; every restart fills the bucket
\* once more.  For an hour that is twice the rate and the pool, not the rate
\* that TorBox's ceiling is set against (client.go NewClient).
CreatesAreBounded == \A k \in Back :
    made[k] * Hour <= Full * (1 + boots[k]) + PerHour * k + Callers * Hour

\* With what is in the bucket and on its way the bound is inductive.
BucketHolds == \A k \in Back :
    made[k] * Hour + pending * Hour + tokens
        <= Full * (1 + boots[k]) + PerHour * k + Callers * Hour
=============================================================================
