----------------------------- MODULE LlmRouter -----------------------------
(***************************************************************************)
(* The chain of language-model providers (llm/router.rs).  The router is   *)
(* asked in two ways.  generate_bouquet walks down the chain: every        *)
(* provider has a token bucket and a circuit breaker of its own, and a     *)
(* call takes the lock of the breaker, of the bucket, and of the health    *)
(* cache one after the other, never together, and holds none of them while *)
(* it waits for the provider: what it saw at the breaker may be old when   *)
(* it asks.  generate_raw_with_default and its structured form ask the     *)
(* first provider of the chain at once and look at none of these.          *)
(*                                                                         *)
(* This is what the library offers.  The application asks in the second    *)
(* way for its pills, fans, polishes and confirmations; it walks the chain *)
(* only to test a provider, once on each router and with one provider.     *)
(*                                                                         *)
(* Time passes in units in which a bucket gains Rate whole tokens.         *)
(***************************************************************************)
EXTENDS Naturals, Sequences, FiniteSets

CONSTANTS Provider,     \* the providers of the chain
          Chain,        \* the chain, each provider once
          Caller,       \* the tasks that may call at the same time
          Capacity,     \* tokens of a full bucket
          Rate,         \* tokens a bucket gains in a unit of time
          Threshold,    \* failures in a row that open a breaker
          OpenFor,      \* how long it stays open
          MaxTime,      \* bound on the clock
          MaxDirect,    \* bound on the single-shot calls
          Shut          \* the breaker state Closed: not a time

ASSUME RouterAssumption ==
    /\ IsFiniteSet(Caller) /\ Caller # {}
    /\ Chain \in Seq(Provider)
    /\ \A i, j \in 1..Len(Chain) : Chain[i] = Chain[j] => i = j
    /\ Capacity \in Nat \ {0} /\ Rate \in Nat
    /\ Threshold \in Nat \ {0} /\ OpenFor \in Nat \ {0}
    /\ MaxTime \in Nat /\ MaxDirect \in Nat
    /\ Shut \notin Nat

VARIABLES now,        \* the clock
          tokens,     \* of each bucket, as of its last refill
          filled,     \* when each bucket was last refilled
          failures,   \* consecutive failures each breaker has counted
          until,      \* when an open breaker lets a call through, or Shut
          health,     \* the cached outcome of the last call of each provider
          call,       \* what each caller is doing
          asked,      \* history: how often each provider was asked
          direct,     \* history: how often the first one by a single shot
          strays      \* history: how often a call of the chain asked each
                      \* provider while its breaker was open

breakers   == <<failures, until>>
buckets    == <<tokens, filled>>
routerVars == <<now, tokens, filled, failures, until, health, call, asked, direct, strays>>

CallOutcome == {"ok", "failed"}
CallStage == {"idle", "gate", "bucket", "asking", "noting"}
NoCall  == [stage |-> "idle", at |-> 1, outcome |-> "ok"]
CallState  == [stage : CallStage, at : 1..(Len(Chain) + 1), outcome : CallOutcome]

RouterTypeOK ==
    /\ now \in 0..MaxTime
    /\ tokens \in [Provider -> 0..Capacity]
    /\ filled \in [Provider -> 0..MaxTime]
    /\ failures \in [Provider -> Nat]
    /\ until \in [Provider -> Nat \cup {Shut}]
    /\ health \in [Provider -> CallOutcome \cup {"unknown"}]
    /\ call \in [Caller -> CallState]
    /\ asked \in [Provider -> Nat]
    /\ direct \in 0..MaxDirect
    /\ strays \in [Provider -> Nat]

RouterInit ==
    /\ now = 0
    /\ tokens = [p \in Provider |-> Capacity]
    /\ filled = [p \in Provider |-> 0]
    /\ failures = [p \in Provider |-> 0]
    /\ until = [p \in Provider |-> Shut]
    /\ health = [p \in Provider |-> "unknown"]
    /\ call = [c \in Caller |-> NoCall]
    /\ asked = [p \in Provider |-> 0]
    /\ direct = 0
    /\ strays = [p \in Provider |-> 0]

-----------------------------------------------------------------------------
Asked(c) == Chain[call[c].at]         \* the provider a call has come to
Tries(c, stage) == call[c].stage = stage /\ call[c].at <= Len(Chain)
Goes(c, stage) == call' = [call EXCEPT ![c].stage = stage]
GoesOn(c) == call' = [call EXCEPT ![c].stage = "gate", ![c].at = @ + 1]

BreakerOpen(p) == until[p] # Shut /\ now < until[p]

CallChain(c) ==
    /\ call[c].stage = "idle"
    /\ Goes(c, "gate")
    /\ UNCHANGED <<now, tokens, filled, failures, until, health, asked, direct, strays>>

(* Breaker::allow.  The first call after the time is up closes the breaker *)
(* for all of them.                                                        *)
Allow(p) ==
    IF until[p] = Shut
    THEN UNCHANGED <<failures, until, strays>>
    ELSE /\ until' = [until EXCEPT ![p] = Shut]
         /\ failures' = [failures EXCEPT ![p] = 0]
         /\ strays' = [strays EXCEPT ![p] = 0]

PassAnyBreaker(c) ==     \* a call that does not look at the breaker
    /\ Tries(c, "gate")
    /\ Goes(c, "bucket")
    /\ UNCHANGED <<now, tokens, filled, failures, until, health, asked, direct, strays>>

PassBreaker(c) ==
    /\ Tries(c, "gate")
    /\ ~BreakerOpen(Asked(c))
    /\ Allow(Asked(c))
    /\ Goes(c, "bucket")
    /\ UNCHANGED <<now, tokens, filled, health, asked, direct>>

SkipOpen(c) ==
    /\ Tries(c, "gate")
    /\ BreakerOpen(Asked(c))
    /\ GoesOn(c)
    /\ UNCHANGED <<now, tokens, filled, failures, until, health, asked, direct, strays>>

(* TokenBucket::try_take refills for the time since the last refill, up to *)
(* the capacity, and takes one token if there is one.                      *)
Refilled(p) ==
    LET full == tokens[p] + Rate * (now - filled[p])
    IN IF full < Capacity THEN full ELSE Capacity

TakeToken(c) ==
    LET p == Asked(c) IN
    /\ Tries(c, "bucket")
    /\ Refilled(p) >= 1
    /\ tokens' = [tokens EXCEPT ![p] = Refilled(p) - 1]
    /\ filled' = [filled EXCEPT ![p] = now]
    /\ asked' = [asked EXCEPT ![p] = @ + 1]
    /\ strays' = IF BreakerOpen(p) THEN [strays EXCEPT ![p] = @ + 1] ELSE strays
    /\ Goes(c, "asking")
    /\ UNCHANGED <<now, failures, until, health, direct>>

RateLimited(c) ==
    LET p == Asked(c) IN
    /\ Tries(c, "bucket")
    /\ Refilled(p) < 1
    /\ tokens' = [tokens EXCEPT ![p] = Refilled(p)]
    /\ filled' = [filled EXCEPT ![p] = now]
    /\ GoesOn(c)
    /\ UNCHANGED <<now, failures, until, health, asked, direct, strays>>

-----------------------------------------------------------------------------
(* The answer of the provider, or its failure: the time limit of its HTTP  *)
(* client makes one of the two happen.                                     *)
ProviderAnswers(c) ==
    LET p == Asked(c) IN
    /\ Tries(c, "asking")
    /\ failures' = [failures EXCEPT ![p] = 0]
    /\ until' = [until EXCEPT ![p] = Shut]
    /\ strays' = [strays EXCEPT ![p] = 0]
    /\ call' = [call EXCEPT ![c].stage = "noting", ![c].outcome = "ok"]
    /\ UNCHANGED <<now, tokens, filled, health, asked, direct>>

ProviderFails(c) ==
    LET p == Asked(c) IN
    /\ Tries(c, "asking")
    /\ failures' = [failures EXCEPT ![p] = @ + 1]
    /\ until' = IF failures[p] + 1 >= Threshold
                THEN [until EXCEPT ![p] = now + OpenFor] ELSE until
    /\ call' = [call EXCEPT ![c].stage = "noting", ![c].outcome = "failed"]
    /\ UNCHANGED <<now, tokens, filled, health, asked, direct, strays>>

(* record_health, the status event, and then the result or the next        *)
(* provider.                                                               *)
NoteHealth(c) ==
    /\ Tries(c, "noting")
    /\ health' = [health EXCEPT ![Asked(c)] = call[c].outcome]
    /\ IF call[c].outcome = "ok"
       THEN call' = [call EXCEPT ![c] = NoCall]
       ELSE GoesOn(c)
    /\ UNCHANGED <<now, tokens, filled, failures, until, asked, direct, strays>>

ChainEnds(c) ==             \* the end of the chain: the last error, if any
    /\ call[c].stage = "gate"
    /\ call[c].at > Len(Chain)
    /\ call' = [call EXCEPT ![c] = NoCall]
    /\ UNCHANGED <<now, tokens, filled, failures, until, health, asked, direct, strays>>

(* generate_raw_with_default, generate_structured_with_default: the first  *)
(* provider is asked past bucket and breaker, and the answer, or the       *)
(* failure, goes to the caller alone.                                      *)
IsPrimary(p) == Chain # <<>> /\ p = Chain[1]

AskPrimary(p) ==
    /\ IsPrimary(p)
    /\ direct < MaxDirect
    /\ direct' = direct + 1
    /\ asked' = [asked EXCEPT ![p] = @ + 1]
    /\ UNCHANGED <<now, tokens, filled, failures, until, health, call, strays>>

RouterClock ==
    /\ now < MaxTime
    /\ now' = now + 1
    /\ UNCHANGED <<tokens, filled, failures, until, health, call, asked, direct, strays>>

CallStep(c) ==
    \/ PassBreaker(c) \/ SkipOpen(c)
    \/ TakeToken(c) \/ RateLimited(c)
    \/ ProviderAnswers(c) \/ ProviderFails(c)
    \/ NoteHealth(c) \/ ChainEnds(c)

RouterNext ==
    \/ RouterClock
    \/ \E c \in Caller : CallChain(c) \/ CallStep(c)
    \/ \E p \in Provider : AskPrimary(p)

RouterSpec == RouterInit /\ [][RouterNext]_routerVars

-----------------------------------------------------------------------------
(* However many calls walk the chain at once, they ask a provider no more  *)
(* often than its bucket holds and gains: a full bucket, plus Rate for     *)
(* every unit of time (TokenBucket::try_take, RateLimitConfig).  What goes *)
(* past the buckets goes to the first provider only.                       *)
RateIsLimited ==
    \A p \in Provider :
        asked[p] + tokens[p] <= Capacity + Rate * filled[p]
                                  + (IF IsPrimary(p) THEN direct ELSE 0)

(* A breaker that is not shut has counted Threshold failures in a row, and *)
(* one that is shut has not: success, failure and the end of the time keep *)
(* the two fields of Breaker together.                                     *)
BreakerCountsFailures ==
    \A p \in Provider : until[p] # Shut <=> failures[p] >= Threshold

(* A provider whose breaker is open is left alone by the calls that walk   *)
(* the chain, but for those that had passed the breaker before it opened:  *)
(* one for every other caller.                                             *)
OpenBreakerHolds ==
    \A p \in Provider : BreakerOpen(p) => strays[p] < Cardinality(Caller)

(* However the calls of generate_bouquet on one router overlap with each   *)
(* other and with single shots, each provider is asked by them as its      *)
(* bucket and its breaker allow, the two fields of the breaker are one,    *)
(* and only the first provider is ever asked past both.                    *)
CallsAreLimited ==
    /\ RouterTypeOK
    /\ RateIsLimited
    /\ BreakerCountsFailures
    /\ OpenBreakerHolds
=============================================================================
