------------------------------- MODULE Limiter -------------------------------
(***************************************************************************)
(* The token buckets of the server (pkg/ratelimit/limiter.go) and the      *)
(* stores that make one for each user (app/server/pty_runtime.go).  Wait   *)
(* takes what there is, sleeps for as long as the rest takes to come in,    *)
(* and tries again; what it has taken is gone even if it is cancelled.     *)
(*                                                                         *)
(* Time is counted in steps in which a whole number of units comes in:     *)
(* the tokens, floating point in the code, are integers here.              *)
(***************************************************************************)
EXTENDS Integers

CONSTANTS
  Waiters,   \* goroutines that call Wait
  Buckets,   \* the limiters there can be: one for each user and purpose
  Rate,      \* units per step of time, for each bucket
  Burst,     \* and the most it holds
  MaxTime    \* bound: how long time is watched

ASSUME LimiterAssumption ==
  /\ Rate \in [Buckets -> Nat \ {0}]
  /\ Burst \in [Buckets -> Nat \ {0}]
  /\ MaxTime \in Nat

VARIABLES
  now,
  made,      \* limiters the stores have made
  tokens, last,
  born,      \* when each was made
  granted,   \* units taken from each
  remaining, \* units each Wait still needs
  wakeAt     \* when its timer fires

limitVars == <<now, made, tokens, last, born, granted, remaining, wakeAt>>

LimiterInit ==
  /\ now = 0
  /\ made = {}
  /\ tokens = [b \in Buckets |-> 0]
  /\ last = [b \in Buckets |-> 0]
  /\ born = [b \in Buckets |-> 0]
  /\ granted = [b \in Buckets |-> 0]
  /\ remaining = [w \in Waiters |-> 0]
  /\ wakeAt = [w \in Waiters |-> 0]

Least(a, b) == IF a < b THEN a ELSE b

\* limiterFor without the map: every call makes a new limiter.
MutAlwaysNew(b) ==
  /\ made' = made \cup {b}
  /\ tokens' = [tokens EXCEPT ![b] = Burst[b]]
  /\ last' = [last EXCEPT ![b] = now]
  /\ born' = [born EXCEPT ![b] = IF b \in made THEN @ ELSE now]

\* limiterFor, under the mutex of the store: a full limiter at the first call.
LimiterFor(b) ==
  /\ made' = made \cup {b}
  /\ tokens' = [tokens EXCEPT ![b] = IF b \in made THEN @ ELSE Burst[b]]
  /\ last' = [last EXCEPT ![b] = IF b \in made THEN @ ELSE now]
  /\ born' = [born EXCEPT ![b] = IF b \in made THEN @ ELSE now]

\* Wait is called for n units.
WaitCalled(w, b, n) ==
  /\ LimiterFor(b)
  /\ remaining' = [remaining EXCEPT ![w] = n]
  /\ UNCHANGED <<now, granted, wakeAt>>

\* refillLocked.
Refilled(b) == Least(Burst[b], tokens[b] + Rate[b] * (now - last[b]))

\* durationForUnits, rounded up to a step of time.
Duration(units, rate) == (units + rate - 1) \div rate

\* One turn of Wait under the mutex of the limiter: refill, take, and set the timer
\* for what is missing.
WaitTurn(w, b) ==
  LET avail == Refilled(b)
      take == Least(remaining[w], avail)
      left == remaining[w] - take
      need == Least(left, Burst[b]) - (avail - take)
  IN  /\ wakeAt[w] =< now
      /\ remaining[w] > 0
      /\ tokens' = [tokens EXCEPT ![b] = avail - take]
      /\ last' = [last EXCEPT ![b] = now]
      /\ granted' = [granted EXCEPT ![b] = @ + take]
      /\ remaining' = [remaining EXCEPT ![w] = left]
      /\ wakeAt' = [wakeAt EXCEPT ![w] = IF left = 0 THEN 0 ELSE now + Duration(need, Rate[b])]
      /\ UNCHANGED <<now, made, born>>

\* waitContext: the context ends before Wait goes on.
WaitCancelled(w) ==
  /\ wakeAt[w] > 0
  /\ remaining' = [remaining EXCEPT ![w] = 0]
  /\ wakeAt' = [wakeAt EXCEPT ![w] = 0]
  /\ UNCHANGED <<now, made, tokens, last, born, granted>>

Tick ==
  /\ now < MaxTime
  /\ now' = now + 1
  /\ UNCHANGED <<made, tokens, last, born, granted, remaining, wakeAt>>

-----------------------------------------------------------------------------
(* Properties *)

\* Wait, limiterFor: however many sessions of a user wait and give up, what was let
\* through since the limiter was made is the burst and what came in since.
RateKept == \A b \in made : granted[b] =< Burst[b] + Rate[b] * (now - born[b])
=============================================================================
