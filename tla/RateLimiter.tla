------------------------------ MODULE RateLimiter ------------------------------
(***************************************************************************)
(* The rate limiters (apps/go/server/middleware/rate_limiter.go): a map    *)
(* from queue names to token buckets, made on demand and dropped by a      *)
(* periodic cleanup when they are full.  A bucket that a request has taken *)
(* out of the map lives on without it.  The global limiter is one bucket   *)
(* that is never dropped.                                                  *)
(*                                                                         *)
(* What the limiter is to do is a counter per name: ideal holds Burst      *)
(* tokens at most, gains Refill with time and loses one with each request  *)
(* that is let through, and it should not fall below zero.                 *)
(***************************************************************************)
EXTENDS Integers, Sequences

CONSTANTS
  Limited,    \* the names that have buckets
  Shared,     \* the one of the global limiter
  Burst,
  Refill,     \* tokens per tick of the clock
  MaxBuckets  \* bound

\* No queue.
NoQueue == ""

ASSUME RateLimiterAssumption ==
  Shared \in Limited /\ NoQueue \notin Limited /\ Burst \in Nat /\ Refill \in Nat /\ MaxBuckets \in Nat

VARIABLES
  limiters, \* [name -> its bucket, or 0]
  buckets,  \* [of, tokens]; as many as were ever made
  sweep,    \* of the cleanup: [on, left, idle], names; idle NoQueue for none
  ideal,
  strayed   \* [name -> requests let through by a bucket out of the map]

limiterVars == <<limiters, buckets, sweep, ideal, strayed>>

NoSweep == [on |-> FALSE, left |-> {}, idle |-> NoQueue]

LimiterInit ==
  /\ limiters = [n \in Limited |-> 0] /\ buckets = <<>> /\ sweep = NoSweep
  /\ ideal = [n \in Limited |-> Burst] /\ strayed = [n \in Limited |-> 0]

\* The process ends, and with it all that is in memory.
LimiterReset ==
  /\ limiters' = [n \in Limited |-> 0] /\ buckets' = <<>> /\ sweep' = NoSweep
  /\ ideal' = [n \in Limited |-> Burst] /\ strayed' = [n \in Limited |-> 0]

\* Mutant: the account in the path is taken for the queue.
QueueIsAccount(path) == IF Len(path) < 2 THEN NoQueue ELSE path[1]

\* /{accountId}/{queueName}: the second segment, NoQueue without one.
ExtractQueueName(path) == IF Len(path) < 2 THEN NoQueue ELSE path[2]

LeastOf(a, b) == IF a <= b THEN a ELSE b

\* getLimiter, under the mutex of the map: b is the bucket of the name.
GetLimiter(n, b) ==
  /\ ~sweep.on
  /\ \/ /\ limiters[n] # 0 /\ b = limiters[n]
        /\ UNCHANGED limiterVars
     \/ /\ limiters[n] = 0 /\ b = Len(buckets) + 1 /\ b <= MaxBuckets
        /\ buckets' = Append(buckets, [of |-> n, tokens |-> Burst])
        /\ limiters' = [limiters EXCEPT ![n] = b]
        /\ UNCHANGED <<sweep, ideal, strayed>>

\* A bucket that is out of the map, or that the cleanup is about to drop.
Dropped(n, b) == limiters[n] # b \/ sweep.idle = n

\* Allow takes a token, outside the mutex of the map.
Take(n, b) ==
  /\ buckets[b].tokens > 0
  /\ buckets' = [buckets EXCEPT ![b].tokens = @ - 1]
  /\ ideal' = [ideal EXCEPT ![n] = @ - 1]
  /\ strayed' = IF Dropped(n, b) THEN [strayed EXCEPT ![n] = @ + 1] ELSE strayed
  /\ UNCHANGED <<limiters, sweep>>

Refuses(b) == buckets[b].tokens = 0

\* Time fills every bucket, those out of the map as well.
Refilled ==
  /\ buckets' = [b \in DOMAIN buckets |->
                   [buckets[b] EXCEPT !.tokens = LeastOf(Burst, @ + Refill)]]
  /\ ideal' = [n \in Limited |-> LeastOf(Burst, ideal[n] + Refill)]
  /\ UNCHANGED <<limiters, sweep, strayed>>

(***************************************************************************)
(* The cleanup, every five minutes, under the mutex of the map: it looks   *)
(* at the tokens of one limiter after the other, which requests that hold  *)
(* it may take meanwhile, and deletes the idle ones.                       *)
(***************************************************************************)
\* Mutant: any bucket that holds a token counts as idle.
IdleWithToken(n) == buckets[limiters[n]].tokens >= 1

\* A bucket that is full has not been used recently.
IsIdle(n) == buckets[limiters[n]].tokens >= Burst

CleanupLock ==
  /\ ~sweep.on
  /\ sweep' = [on |-> TRUE, left |-> {n \in Limited : limiters[n] # 0}, idle |-> NoQueue]
  /\ UNCHANGED <<limiters, buckets, ideal, strayed>>

CleanupLook(n) ==
  /\ n \in sweep.left /\ sweep.idle = NoQueue
  /\ sweep' = [sweep EXCEPT !.left = @ \ {n}, !.idle = IF IsIdle(n) THEN n ELSE NoQueue]
  /\ UNCHANGED <<limiters, buckets, ideal, strayed>>

CleanupDelete(n) ==
  /\ sweep.idle = n
  /\ limiters' = [limiters EXCEPT ![n] = 0]
  /\ sweep' = [sweep EXCEPT !.idle = NoQueue]
  /\ UNCHANGED <<buckets, ideal, strayed>>

CleanupUnlock ==
  /\ sweep.on /\ sweep.left = {} /\ sweep.idle = NoQueue /\ sweep' = NoSweep
  /\ UNCHANGED <<limiters, buckets, ideal, strayed>>

Cleanup ==
  \/ CleanupLock \/ CleanupUnlock
  \/ \E n \in Limited : CleanupLook(n) \/ CleanupDelete(n)
(***************************************************************************)
(* Properties                                                              *)
(***************************************************************************)
\* More requests than the limiter is to let through were let through only by
\* buckets that the cleanup had dropped while a request held them.
LimitHolds == \A n \in Limited : ideal[n] + strayed[n] >= 0
=============================================================================
