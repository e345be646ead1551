-------------------------- MODULE LlmRouter_proofs --------------------------
(***************************************************************************)
(* Proofs about the chain of providers, for every chain, any number of     *)
(* callers and every setting of the buckets and the breakers.              *)
(*                                                                         *)
(* RateIsLimited and BreakerCountsFailures are inductive next to the type. *)
(* OpenBreakerHolds is not: it has to know the calls that passed the       *)
(* breaker and have not yet been to the bucket, for each of them may still *)
(* ask.  The one whose failure opens the breaker is not among them.        *)
(***************************************************************************)
EXTENDS LlmRouter, Providers, FiniteSetTheorems, TLAPS

(* The calls that passed the breaker of p and may still ask p.             *)
Past(p) == {c \in Caller : Tries(c, "bucket") /\ Asked(c) = p}

StraysAreCounted ==
    \A p \in Provider :
        IF until[p] = Shut THEN strays[p] = 0
        ELSE strays[p] + Cardinality(Past(p)) < Cardinality(Caller)

RefillsAreBehind == \A p \in Provider : filled[p] <= now

RouterInv ==
    /\ RouterTypeOK
    /\ RefillsAreBehind
    /\ RateIsLimited
    /\ BreakerCountsFailures
    /\ StraysAreCounted

-----------------------------------------------------------------------------
(* The place of a call in the chain is a provider.                         *)
LEMMA AskedIsProvider ==
    ASSUME RouterTypeOK, NEW c \in Caller, call[c].at <= Len(Chain)
    PROVE  Asked(c) \in Provider
BY RouterAssumption DEF RouterTypeOK, CallState, Asked

(* A call that goes on to the next provider, or to the end of the chain.   *)
LEMMA NextPlace ==
    ASSUME RouterTypeOK, NEW c \in Caller, call[c].at <= Len(Chain)
    PROVE  [call[c] EXCEPT !.stage = "gate", !.at = @ + 1] \in CallState
<1>1. call[c] \in CallState /\ Len(Chain) \in Nat
  BY RouterAssumption DEF RouterTypeOK
<1>2. call[c].at \in 1 .. (Len(Chain) + 1)
  BY <1>1 DEF CallState
<1>3. call[c].at + 1 \in 1 .. (Len(Chain) + 1)
  BY <1>1, <1>2
<1>4. \A i \in 1 .. (Len(Chain) + 1) : [call[c] EXCEPT !.stage = "gate", !.at = i] \in CallState
  BY <1>1 DEF CallState, CallStage
<1> QED BY <1>3, <1>4

LEMMA PastIsFinite ==
    ASSUME NEW p PROVE IsFiniteSet(Past(p)) /\ Cardinality(Past(p)) \in Nat
BY RouterAssumption, FS_Subset, FS_CardinalityType DEF Past

LEMMA CallersAreFinite == Cardinality(Caller) \in Nat
BY RouterAssumption, FS_CardinalityType

(* A refill never holds more than the bucket and the time allow.           *)
LEMMA RefillIsBounded ==
    ASSUME RouterTypeOK, NEW p \in Provider, filled[p] <= now
    PROVE  /\ Refilled(p) \in 0 .. Capacity
           /\ Refilled(p) <= tokens[p] + Rate * (now - filled[p])
<1>1. now - filled[p] \in Nat /\ tokens[p] \in Nat /\ Rate \in Nat /\ Capacity \in Nat
  BY RouterAssumption DEF RouterTypeOK
<1>2. Rate * (now - filled[p]) \in Nat
  BY <1>1
<1> QED BY <1>1, <1>2 DEF Refilled

LEMMA RateIsDistributive ==
    ASSUME NEW r \in Nat, NEW a \in Nat, NEW b \in Nat, b <= a
    PROVE  r * (a - b) + r * b = r * a
OBVIOUS

(* What the bucket of p does not count.                                    *)
Direct(p) == IF IsPrimary(p) THEN direct ELSE 0

LEMMA DirectType == ASSUME RouterTypeOK, NEW p PROVE Direct(p) \in Nat
BY RouterAssumption DEF RouterTypeOK, Direct

-----------------------------------------------------------------------------
LEMMA RouterStarts == RouterInit => RouterInv
<1> SUFFICES ASSUME RouterInit PROVE RouterInv
  OBVIOUS
<1>1. RouterTypeOK
  BY RouterAssumption DEF RouterInit, RouterTypeOK, NoCall, CallState, CallOutcome, CallStage
<1>2. RefillsAreBehind /\ RateIsLimited /\ BreakerCountsFailures
  BY RouterAssumption DEF RouterInit, RefillsAreBehind, RateIsLimited, BreakerCountsFailures
<1>3. StraysAreCounted
  BY DEF RouterInit, StraysAreCounted
<1> QED BY <1>1, <1>2, <1>3 DEF RouterInv

(* A step of one call that leaves the breakers and the buckets alone.      *)
LEMMA CallMoves ==
    ASSUME RouterInv, NEW c \in Caller,
           call' \in [Caller -> CallState],
           \A d \in Caller \ {c} : call'[d] = call[d],
           ~ call'[c].stage = "bucket",
           UNCHANGED <<now, tokens, filled, failures, until, asked, direct, strays>>,
           health' \in [Provider -> CallOutcome \cup {"unknown"}]
    PROVE  RouterInv'
<1>1. RouterTypeOK' /\ RefillsAreBehind' /\ RateIsLimited' /\ BreakerCountsFailures'
  BY DEF RouterInv, RouterTypeOK, RefillsAreBehind, RateIsLimited, BreakerCountsFailures
<1>2. StraysAreCounted'
  <2> SUFFICES ASSUME NEW p \in Provider
               PROVE  IF until[p] = Shut THEN strays[p] = 0
                      ELSE strays[p] + Cardinality(Past(p)') < Cardinality(Caller)
    BY DEF StraysAreCounted
  <2>1. Past(p)' \subseteq Past(p)
    BY DEF Past, Tries, Asked
  <2>2. Cardinality(Past(p)') <= Cardinality(Past(p)) /\ Cardinality(Past(p)') \in Nat
    BY <2>1, PastIsFinite, FS_Subset, FS_CardinalityType
  <2> QED BY <2>2, PastIsFinite, CallersAreFinite DEF RouterInv, StraysAreCounted, RouterTypeOK
<1> QED BY <1>1, <1>2 DEF RouterInv

LEMMA PassingBreaker == ASSUME RouterInv, NEW c \in Caller, PassBreaker(c) PROVE RouterInv'
<1>0. PICK a \in Provider : a = Asked(c) /\ call[c] \in CallState
  BY AskedIsProvider DEF RouterInv, PassBreaker, Tries, RouterTypeOK
<1>1. PICK k \in CallState : call' = [call EXCEPT ![c] = k] /\ k.stage = "bucket" /\ k.at = call[c].at
  <2>1. [call[c] EXCEPT !.stage = "bucket"] \in CallState
    BY <1>0 DEF CallState, CallStage
  <2>2. call' = [call EXCEPT ![c] = [call[c] EXCEPT !.stage = "bucket"]]
    BY DEF PassBreaker, Goes, RouterInv, RouterTypeOK
  <2> QED BY <2>1, <2>2, <1>0 DEF CallState
<1>2. /\ now' = now /\ tokens' = tokens /\ filled' = filled /\ health' = health
      /\ asked' = asked /\ direct' = direct
  BY DEF PassBreaker
<1>3. /\ until'[a] = Shut /\ strays'[a] = 0 /\ failures'[a] < Threshold
      /\ \A q \in Provider \ {a} :
            until'[q] = until[q] /\ strays'[q] = strays[q] /\ failures'[q] = failures[q]
      /\ until' \in [Provider -> Nat \cup {Shut}]
      /\ strays' \in [Provider -> Nat] /\ failures' \in [Provider -> Nat]
  <2>1. CASE until[a] = Shut
    <3>1. failures' = failures /\ until' = until /\ strays' = strays
      BY <1>0, <2>1 DEF PassBreaker, Allow
    <3>2. failures[a] \in Nat /\ Threshold \in Nat /\ ~ failures[a] >= Threshold
      BY <1>0, <2>1, RouterAssumption DEF RouterInv, RouterTypeOK, BreakerCountsFailures
    <3>3. strays[a] = 0
      BY <1>0, <2>1 DEF RouterInv, StraysAreCounted
    <3> QED BY <2>1, <3>1, <3>2, <3>3 DEF RouterInv, RouterTypeOK
  <2>2. CASE until[a] # Shut
    <3>1. /\ failures' = [failures EXCEPT ![a] = 0] /\ until' = [until EXCEPT ![a] = Shut]
          /\ strays' = [strays EXCEPT ![a] = 0]
      BY <1>0, <2>2 DEF PassBreaker, Allow
    <3> QED BY <1>0, <3>1, RouterAssumption DEF RouterInv, RouterTypeOK
  <2> QED BY <2>1, <2>2
<1>4. RouterTypeOK' /\ RefillsAreBehind' /\ RateIsLimited'
  BY <1>1, <1>2, <1>3 DEF RouterInv, RouterTypeOK, RefillsAreBehind, RateIsLimited
<1>5. BreakerCountsFailures'
  <2>1. ~ until'[a] # Shut /\ ~ failures'[a] >= Threshold
    BY <1>3, RouterAssumption
  <2>2. \A q \in Provider \ {a} : until'[q] # Shut <=> failures'[q] >= Threshold
    BY <1>3 DEF RouterInv, BreakerCountsFailures
  <2> QED BY <2>1, <2>2 DEF BreakerCountsFailures
<1>6. StraysAreCounted'
  <2>1. \A q \in Provider \ {a} : Past(q)' = Past(q)
    BY <1>1, <1>0 DEF Past, Tries, Asked, RouterInv, RouterTypeOK, PassBreaker
  <2> QED BY <2>1, <1>3 DEF RouterInv, StraysAreCounted
<1> QED BY <1>4, <1>5, <1>6 DEF RouterInv

LEMMA TakingAToken == ASSUME RouterInv, NEW c \in Caller, TakeToken(c) PROVE RouterInv'
<1>0. PICK a \in Provider : a = Asked(c) /\ call[c] \in CallState /\ filled[a] <= now
  BY AskedIsProvider DEF RouterInv, TakeToken, Tries, RouterTypeOK, RefillsAreBehind
<1>1. PICK k \in CallState : call' = [call EXCEPT ![c] = k] /\ k.stage = "asking"
  <2>1. [call[c] EXCEPT !.stage = "asking"] \in CallState
    BY <1>0 DEF CallState, CallStage
  <2>2. call' = [call EXCEPT ![c] = [call[c] EXCEPT !.stage = "asking"]]
    BY DEF TakeToken, Goes, RouterInv, RouterTypeOK
  <2> QED BY <2>1, <2>2, <1>0 DEF CallState
<1>2. /\ Refilled(a) \in 0 .. Capacity /\ Refilled(a) >= 1
      /\ Refilled(a) <= tokens[a] + Rate * (now - filled[a])
  BY <1>0, RefillIsBounded DEF RouterInv, TakeToken
<1>3. /\ now' = now /\ failures' = failures /\ until' = until /\ health' = health
      /\ tokens' = [tokens EXCEPT ![a] = Refilled(a) - 1]
      /\ filled' = [filled EXCEPT ![a] = now]
      /\ asked' = [asked EXCEPT ![a] = @ + 1] /\ direct' = direct
      /\ strays' = IF BreakerOpen(a) THEN [strays EXCEPT ![a] = @ + 1] ELSE strays
      /\ call[c].stage = "bucket" /\ call[c].at <= Len(Chain)
  BY <1>0 DEF TakeToken, Tries
<1>4. RouterTypeOK' /\ RefillsAreBehind'
  <2>1. Refilled(a) - 1 \in 0 .. Capacity
    BY <1>2, RouterAssumption
  <2>2. now \in 0 .. MaxTime /\ now <= now
    BY RouterAssumption DEF RouterInv, RouterTypeOK
  <2> QED BY <1>0, <1>1, <1>3, <2>1, <2>2 DEF RouterInv, RouterTypeOK, RefillsAreBehind
<1>5. BreakerCountsFailures'
  BY <1>3 DEF RouterInv, BreakerCountsFailures
<1>6. RateIsLimited'
  <2>1. /\ asked[a] \in Nat /\ tokens[a] \in Nat /\ filled[a] \in Nat /\ now \in Nat
        /\ Rate \in Nat /\ Capacity \in Nat
    BY <1>0, RouterAssumption DEF RouterInv, RouterTypeOK
  <2>2. Rate * (now - filled[a]) + Rate * filled[a] = Rate * now
    BY <2>1, <1>0, RateIsDistributive
  <2>3. /\ Rate * (now - filled[a]) \in Nat /\ Rate * filled[a] \in Nat /\ Rate * now \in Nat
    BY <2>1, <1>0
  <2>4. asked[a] + tokens[a] <= Capacity + Rate * filled[a] + Direct(a)
    BY <1>0 DEF RouterInv, RateIsLimited, Direct
  <2>5. asked[a] + 1 + (Refilled(a) - 1) <= Capacity + Rate * now + Direct(a)
    BY <1>2, <2>1, <2>2, <2>3, <2>4, DirectType DEF RouterInv
  <2> QED BY <1>0, <1>3, <2>5 DEF RouterInv, RouterTypeOK, RateIsLimited, Direct
<1>7. StraysAreCounted'
  <2>1. \A q \in Provider \ {a} : Past(q)' = Past(q)
    BY <1>0, <1>1, <1>3 DEF Past, Tries, Asked, RouterInv, RouterTypeOK
  <2>a. c \in Past(a) /\ c \notin Past(a)'
    BY <1>0, <1>1, <1>3 DEF Past, Tries, Asked, RouterInv, RouterTypeOK
  <2>b. \A d \in Caller \ {c} : d \in Past(a)' <=> d \in Past(a)
    BY <1>1 DEF Past, Tries, Asked, RouterInv, RouterTypeOK
  <2>2. Past(a)' = Past(a) \ {c} /\ c \in Past(a)
    <3>1. Past(a)' \subseteq Caller /\ Past(a) \subseteq Caller
      BY DEF Past
    <3> QED BY <2>a, <2>b, <3>1
  <2>3. Cardinality(Past(a)') = Cardinality(Past(a)) - 1
    BY <2>2, PastIsFinite, FS_RemoveElement
  <2>4. /\ strays'[a] <= strays[a] + 1 /\ strays'[a] \in Nat /\ strays[a] \in Nat
        /\ until[a] = Shut => strays'[a] = 0
        /\ \A q \in Provider \ {a} : strays'[q] = strays[q]
    BY <1>0, <1>3 DEF RouterInv, RouterTypeOK, StraysAreCounted, BreakerOpen
  <2>5. until[a] # Shut => strays'[a] + Cardinality(Past(a)') < Cardinality(Caller)
    BY <1>0, <2>3, <2>4, PastIsFinite, CallersAreFinite DEF RouterInv, StraysAreCounted
  <2> QED BY <1>0, <1>3, <2>1, <2>4, <2>5 DEF RouterInv, StraysAreCounted
<1> QED BY <1>4, <1>5, <1>6, <1>7 DEF RouterInv

LEMMA RunningDry == ASSUME RouterInv, NEW c \in Caller, RateLimited(c) PROVE RouterInv'
<1>0. PICK a \in Provider : a = Asked(c) /\ call[c] \in CallState /\ filled[a] <= now
  BY AskedIsProvider DEF RouterInv, RateLimited, Tries, RouterTypeOK, RefillsAreBehind
<1>1. PICK k \in CallState : call' = [call EXCEPT ![c] = k] /\ k.stage = "gate"
  <2>1. [call[c] EXCEPT !.stage = "gate", !.at = @ + 1] \in CallState
    BY NextPlace DEF RateLimited, Tries, RouterInv
  <2>2. call' = [call EXCEPT ![c] = [call[c] EXCEPT !.stage = "gate", !.at = @ + 1]]
    BY DEF RateLimited, GoesOn, RouterInv, RouterTypeOK
  <2> QED BY <2>1, <2>2, <1>0 DEF CallState
<1>2. /\ Refilled(a) \in 0 .. Capacity
      /\ Refilled(a) <= tokens[a] + Rate * (now - filled[a])
  BY <1>0, RefillIsBounded DEF RouterInv
<1>3. /\ UNCHANGED <<now, failures, until, health, asked, direct, strays>>
      /\ tokens' = [tokens EXCEPT ![a] = Refilled(a)]
      /\ filled' = [filled EXCEPT ![a] = now]
  BY <1>0 DEF RateLimited
<1>4. RouterTypeOK' /\ RefillsAreBehind'
  <2>2. now \in 0 .. MaxTime /\ now <= now
    BY RouterAssumption DEF RouterInv, RouterTypeOK
  <2> QED BY <1>0, <1>1, <1>2, <1>3, <2>2 DEF RouterInv, RouterTypeOK, RefillsAreBehind
<1>5. BreakerCountsFailures'
  BY <1>3 DEF RouterInv, BreakerCountsFailures
<1>6. RateIsLimited'
  <2>1. /\ asked[a] \in Nat /\ tokens[a] \in Nat /\ filled[a] \in Nat /\ now \in Nat
        /\ Rate \in Nat /\ Capacity \in Nat
    BY <1>0, RouterAssumption DEF RouterInv, RouterTypeOK
  <2>2. Rate * (now - filled[a]) + Rate * filled[a] = Rate * now
    BY <2>1, <1>0, RateIsDistributive
  <2>3. /\ Rate * (now - filled[a]) \in Nat /\ Rate * filled[a] \in Nat /\ Rate * now \in Nat
    BY <2>1, <1>0
  <2>4. asked[a] + tokens[a] <= Capacity + Rate * filled[a] + Direct(a)
    BY <1>0 DEF RouterInv, RateIsLimited, Direct
  <2>5. asked[a] + Refilled(a) <= Capacity + Rate * now + Direct(a)
    BY <1>2, <2>1, <2>2, <2>3, <2>4, DirectType DEF RouterInv
  <2> QED BY <1>0, <1>3, <2>5 DEF RouterInv, RouterTypeOK, RateIsLimited, Direct
<1>7. StraysAreCounted'
  <2>1. \A q \in Provider : Past(q)' \subseteq Past(q)
    BY <1>1 DEF Past, Tries, Asked, RouterInv, RouterTypeOK
  <2>2. \A q \in Provider : /\ Cardinality(Past(q)') <= Cardinality(Past(q))
                             /\ Cardinality(Past(q)') \in Nat /\ Cardinality(Past(q)) \in Nat
    BY <2>1, PastIsFinite, FS_Subset, FS_CardinalityType
  <2> QED BY <1>3, <2>2, CallersAreFinite DEF RouterInv, StraysAreCounted, RouterTypeOK
<1> QED BY <1>4, <1>5, <1>6, <1>7 DEF RouterInv

LEMMA Answering == ASSUME RouterInv, NEW c \in Caller, ProviderAnswers(c) PROVE RouterInv'
<1>0. PICK a \in Provider : a = Asked(c) /\ call[c] \in CallState
  BY AskedIsProvider DEF RouterInv, ProviderAnswers, Tries, RouterTypeOK
<1>1. PICK k \in CallState : call' = [call EXCEPT ![c] = k] /\ k.stage = "noting"
  <2>1. [call[c] EXCEPT !.stage = "noting", !.outcome = "ok"] \in CallState
    BY <1>0 DEF CallState, CallStage, CallOutcome
  <2>2. call' = [call EXCEPT ![c] = [call[c] EXCEPT !.stage = "noting", !.outcome = "ok"]]
    BY DEF ProviderAnswers, RouterInv, RouterTypeOK
  <2> QED BY <2>1, <2>2, <1>0 DEF CallState
<1>2. /\ UNCHANGED <<now, tokens, filled, health, asked, direct>>
      /\ failures' = [failures EXCEPT ![a] = 0] /\ until' = [until EXCEPT ![a] = Shut]
      /\ strays' = [strays EXCEPT ![a] = 0]
  BY <1>0 DEF ProviderAnswers
<1>3. RouterTypeOK' /\ RefillsAreBehind' /\ RateIsLimited'
  BY <1>1, <1>2 DEF RouterInv, RouterTypeOK, RefillsAreBehind, RateIsLimited
<1>4. BreakerCountsFailures'
  BY <1>2, RouterAssumption DEF RouterInv, RouterTypeOK, BreakerCountsFailures
<1>5. StraysAreCounted'
  <2>1. \A q \in Provider : Past(q)' = Past(q)
    BY <1>0, <1>1 DEF Past, Tries, Asked, RouterInv, RouterTypeOK, ProviderAnswers
  <2> QED BY <1>2, <2>1 DEF RouterInv, RouterTypeOK, StraysAreCounted
<1> QED BY <1>3, <1>4, <1>5 DEF RouterInv

(* The call whose failure opens the breaker is itself past the bucket.     *)
LEMMA Failing == ASSUME RouterInv, NEW c \in Caller, ProviderFails(c) PROVE RouterInv'
<1>0. PICK a \in Provider : a = Asked(c) /\ call[c] \in CallState
  BY AskedIsProvider DEF RouterInv, ProviderFails, Tries, RouterTypeOK
<1>1. PICK k \in CallState : call' = [call EXCEPT ![c] = k] /\ k.stage = "noting"
  <2>1. [call[c] EXCEPT !.stage = "noting", !.outcome = "failed"] \in CallState
    BY <1>0 DEF CallState, CallStage, CallOutcome
  <2>2. call' = [call EXCEPT ![c] = [call[c] EXCEPT !.stage = "noting", !.outcome = "failed"]]
    BY DEF ProviderFails, RouterInv, RouterTypeOK
  <2> QED BY <2>1, <2>2, <1>0 DEF CallState
<1>2. /\ UNCHANGED <<now, tokens, filled, health, asked, direct, strays>>
      /\ failures' = [failures EXCEPT ![a] = @ + 1]
      /\ until' = IF failures[a] + 1 >= Threshold
                  THEN [until EXCEPT ![a] = now + OpenFor] ELSE until
  BY <1>0 DEF ProviderFails
<1>3. now + OpenFor \in Nat /\ now + OpenFor # Shut /\ failures[a] \in Nat
  BY RouterAssumption DEF RouterInv, RouterTypeOK
<1>4. RouterTypeOK' /\ RefillsAreBehind' /\ RateIsLimited'
  <2>1. until' \in [Provider -> Nat \cup {Shut}] /\ failures' \in [Provider -> Nat]
    BY <1>2, <1>3 DEF RouterInv, RouterTypeOK
  <2> QED BY <1>1, <1>2, <2>1 DEF RouterInv, RouterTypeOK, RefillsAreBehind, RateIsLimited
<1>5. BreakerCountsFailures'
  <2>1. until'[a] # Shut <=> failures'[a] >= Threshold
    BY <1>2, <1>3, RouterAssumption DEF RouterInv, RouterTypeOK, BreakerCountsFailures
  <2>2. \A q \in Provider \ {a} : until'[q] = until[q] /\ failures'[q] = failures[q]
    BY <1>2 DEF RouterInv, RouterTypeOK
  <2> QED BY <2>1, <2>2 DEF RouterInv, BreakerCountsFailures
<1>6. StraysAreCounted'
  <2>1. \A q \in Provider : Past(q)' = Past(q)
    BY <1>0, <1>1 DEF Past, Tries, Asked, RouterInv, RouterTypeOK, ProviderFails
  <2>2. Cardinality(Past(a)) < Cardinality(Caller)
    <3>1. Past(a) \subseteq Caller \ {c}
      BY <1>0 DEF Past, Tries, ProviderFails
    <3>2. Cardinality(Caller \ {c}) = Cardinality(Caller) - 1
      BY RouterAssumption, FS_RemoveElement
    <3>3. IsFiniteSet(Caller \ {c})
      BY RouterAssumption, FS_RemoveElement
    <3>4. Cardinality(Past(a)) <= Cardinality(Caller \ {c})
      BY <3>1, <3>3, FS_Subset
    <3> QED BY <3>2, <3>4, CallersAreFinite, PastIsFinite
  <2>3. until[a] = Shut => strays[a] = 0
    BY DEF RouterInv, StraysAreCounted
  <2>4. \A q \in Provider \ {a} : until'[q] = until[q]
    BY <1>2 DEF RouterInv, RouterTypeOK
  <2>5. until'[a] = Shut => until[a] = Shut
    BY <1>2, <1>3 DEF RouterInv, RouterTypeOK
  <2>6. until'[a] # Shut => strays[a] + Cardinality(Past(a)) < Cardinality(Caller)
    BY <2>2, <2>3, PastIsFinite, CallersAreFinite DEF RouterInv, StraysAreCounted
  <2> QED BY <1>2, <2>1, <2>3, <2>4, <2>5, <2>6 DEF RouterInv, StraysAreCounted
<1> QED BY <1>4, <1>5, <1>6 DEF RouterInv

-----------------------------------------------------------------------------
LEMMA RouterStep == RouterInv /\ [RouterNext]_routerVars => RouterInv'
<1> SUFFICES ASSUME RouterInv, [RouterNext]_routerVars PROVE RouterInv'
  OBVIOUS
<1>1. CASE RouterClock
  <2>1. RouterTypeOK' /\ RefillsAreBehind' /\ RateIsLimited' /\ BreakerCountsFailures'
    BY <1>1, RouterAssumption DEF RouterClock, RouterInv, RouterTypeOK, RefillsAreBehind,
       RateIsLimited, BreakerCountsFailures
  <2>2. StraysAreCounted'
    BY <1>1 DEF RouterClock, RouterInv, StraysAreCounted, Past, Tries, Asked
  <2> QED BY <2>1, <2>2 DEF RouterInv
<1>2. CASE UNCHANGED routerVars
  <2>1. RouterTypeOK' /\ RefillsAreBehind' /\ RateIsLimited' /\ BreakerCountsFailures'
    BY <1>2 DEF routerVars, RouterInv, RouterTypeOK, RefillsAreBehind, RateIsLimited,
       BreakerCountsFailures
  <2>2. StraysAreCounted'
    BY <1>2 DEF routerVars, RouterInv, StraysAreCounted, Past, Tries, Asked
  <2> QED BY <2>1, <2>2 DEF RouterInv
<1>3. ASSUME NEW c \in Caller, CallChain(c) \/ CallStep(c) PROVE RouterInv'
  <2>0. call[c] \in CallState /\ call \in [Caller -> CallState] /\ NoCall \in CallState
    BY RouterAssumption DEF RouterInv, RouterTypeOK, NoCall, CallState, CallStage, CallOutcome
  <2>1. CASE CallChain(c)
    <3>1. PICK k \in CallState : call' = [call EXCEPT ![c] = k] /\ k.stage = "gate"
      <4>1. [call[c] EXCEPT !.stage = "gate"] \in CallState
        BY <2>0 DEF CallState, CallStage
      <4>2. call' = [call EXCEPT ![c] = [call[c] EXCEPT !.stage = "gate"]]
        BY <2>0, <2>1 DEF CallChain, Goes
      <4> QED BY <4>1, <4>2, <2>0 DEF CallState
    <3> QED BY <2>0, <2>1, <3>1, CallMoves DEF CallChain, RouterInv, RouterTypeOK
  <2>2. CASE SkipOpen(c)
    <3>1. PICK k \in CallState : call' = [call EXCEPT ![c] = k] /\ k.stage = "gate"
      <4>1. [call[c] EXCEPT !.stage = "gate", !.at = @ + 1] \in CallState
        BY <2>2, NextPlace DEF SkipOpen, Tries, RouterInv
      <4>2. call' = [call EXCEPT ![c] = [call[c] EXCEPT !.stage = "gate", !.at = @ + 1]]
        BY <2>0, <2>2 DEF SkipOpen, GoesOn
      <4> QED BY <4>1, <4>2, <2>0 DEF CallState
    <3> QED BY <2>0, <2>2, <3>1, CallMoves DEF SkipOpen, RouterInv, RouterTypeOK
  <2>3. CASE NoteHealth(c)
    <3>1. PICK k \in CallState : call' = [call EXCEPT ![c] = k] /\ k.stage # "bucket"
      <4>1. CASE call[c].outcome = "ok"
        BY <2>0, <2>3, <4>1 DEF NoteHealth, NoCall
      <4>2. CASE call[c].outcome # "ok"
        <5>1. [call[c] EXCEPT !.stage = "gate", !.at = @ + 1] \in CallState
          BY <2>3, NextPlace DEF NoteHealth, Tries, RouterInv
        <5>2. call' = [call EXCEPT ![c] = [call[c] EXCEPT !.stage = "gate", !.at = @ + 1]]
          BY <2>0, <2>3, <4>2 DEF NoteHealth, GoesOn
        <5> QED BY <5>1, <5>2, <2>0 DEF CallState
      <4> QED BY <4>1, <4>2
    <3>2. health' \in [Provider -> CallOutcome \cup {"unknown"}]
      BY <2>0, <2>3 DEF NoteHealth, RouterInv, RouterTypeOK, CallState
    <3> QED BY <2>0, <2>3, <3>1, <3>2, CallMoves DEF NoteHealth
  <2>4. CASE ChainEnds(c)
    BY <2>0, <2>4, CallMoves DEF ChainEnds, NoCall, RouterInv, RouterTypeOK
  <2> QED BY <1>3, <2>1, <2>2, <2>3, <2>4, PassingBreaker, TakingAToken, RunningDry,
             Answering, Failing DEF CallStep
<1>4. ASSUME NEW p \in Provider, AskPrimary(p) PROVE RouterInv'
  <2>1. /\ direct' = direct + 1 /\ direct' \in 0..MaxDirect
        /\ asked' = [asked EXCEPT ![p] = @ + 1]
        /\ asked' \in [Provider -> Nat] /\ IsPrimary(p)
        /\ UNCHANGED <<now, tokens, filled, failures, until, health, call, strays>>
    BY <1>4, RouterAssumption DEF AskPrimary, RouterInv, RouterTypeOK
  <2>2. RouterTypeOK' /\ RefillsAreBehind' /\ BreakerCountsFailures'
    BY <2>1 DEF RouterInv, RouterTypeOK, RefillsAreBehind, BreakerCountsFailures
  <2>3. ASSUME NEW q \in Provider
        PROVE  asked'[q] + tokens'[q] <= Capacity + Rate * filled'[q] + Direct(q)'
    <3>1. /\ asked[q] + tokens[q] <= Capacity + Rate * filled[q] + Direct(q)
          /\ asked[q] \in Nat /\ tokens[q] \in Nat /\ Rate * filled[q] \in Nat
          /\ Capacity \in Nat /\ direct \in Nat
      <4>1. asked[q] + tokens[q] <= Capacity + Rate * filled[q] + Direct(q)
        BY DEF RouterInv, RateIsLimited, Direct
      <4>2. /\ asked[q] \in Nat /\ tokens[q] \in 0..Capacity /\ filled[q] \in 0..MaxTime
            /\ direct \in 0..MaxDirect
        BY DEF RouterInv, RouterTypeOK
      <4>3. Capacity \in Nat /\ Rate \in Nat /\ MaxTime \in Nat /\ MaxDirect \in Nat
        BY RouterAssumption
      <4>4. tokens[q] \in Nat /\ filled[q] \in Nat /\ direct \in Nat
        BY <4>2, <4>3
      <4>5. Rate * filled[q] \in Nat
        BY <4>3, <4>4
      <4> QED BY <4>1, <4>2, <4>3, <4>4, <4>5
    <3>2. CASE q = p
      <4>1. asked'[q] = asked[q] + 1 /\ Direct(q) = direct /\ Direct(q)' = direct + 1
        BY <2>1, <3>2 DEF RouterInv, RouterTypeOK, Direct, IsPrimary
      <4> QED BY <2>1, <3>1, <4>1
    <3>3. CASE q # p
      <4>1. asked'[q] = asked[q] /\ Direct(q) = 0 /\ Direct(q)' = 0
        BY <2>1, <3>3 DEF RouterInv, RouterTypeOK, Direct, IsPrimary
      <4> QED BY <2>1, <3>1, <4>1
    <3> QED BY <3>2, <3>3
  <2>4. RateIsLimited'
    BY <2>3 DEF RateIsLimited, Direct
  <2>5. StraysAreCounted'
    BY <2>1 DEF RouterInv, StraysAreCounted, Past, Tries, Asked
  <2> QED BY <2>2, <2>4, <2>5 DEF RouterInv
<1> QED BY <1>1, <1>2, <1>3, <1>4 DEF RouterNext

LEMMA RouterInvHolds == RouterSpec => []RouterInv
  BY RouterStarts, RouterStep, PTL DEF RouterSpec

(* Calls of the chain ask a provider no more often than its bucket holds   *)
(* and gains, its breaker is open exactly when it has counted enough       *)
(* failures, and while it is open fewer of them reach the provider than    *)
(* there are callers; single shots spare nothing and reach one provider    *)
(* only (generate_bouquet, generate_raw_with_default).                     *)
THEOREM ProvidersAreSpared == RouterSpec => []CallsAreLimited
<1>1. RouterInv => CallsAreLimited
  <2> SUFFICES ASSUME RouterInv PROVE CallsAreLimited
    OBVIOUS
  <2>1. OpenBreakerHolds
    BY PastIsFinite, CallersAreFinite
       DEF RouterInv, RouterTypeOK, StraysAreCounted, OpenBreakerHolds, BreakerOpen
  <2> QED BY <2>1 DEF RouterInv, CallsAreLimited
<1> QED BY <1>1, RouterInvHolds, PTL

-----------------------------------------------------------------------------
(* A router that has answered has given all its variants, and asks for a   *)
(* named model; the router in use is one whose test is over, and stays so. *)
AnsweredStage == {"answered", "kept", "installed"}

RoutersAreTested ==
    \A i \in 1 .. Len(made) :
        /\ made[i] \in Router
        /\ made[i].stage \in AnsweredStage => made[i].got = VariantsAsked

CurrentIsInstalled == current # 0 => made[current].stage = "installed"

ProvidersInv ==
    /\ ProvidersTypeOK
    /\ RoutersAreTested
    /\ CurrentIsInstalled
    /\ WireIsComplete

(* Every request names a model: the fallbacks fit together.                *)
LEMMA FallbacksFitTogether ==
    ASSUME NEW p \in Offer
    PROVE  /\ \A m \in Model \cup {Unset} : /\ ModelOfTest(p, m) \in ModelName
                                            /\ ModelOfTest(p, m) # Unset
           /\ \A m \in ModelName \cup {Unset}, n \in 1 .. ClampedTokens :
                /\ RawRequest(p, m, n).model # Unset
                /\ RawRequest(p, m, n)
                     \in [provider : Offer, model : ModelName \cup {Unset}, tokens : Tokens]
                /\ RawRequest(p, m, n).tokens > 0
           /\ \A m \in ModelName, n \in 1 .. ClampedTokens :
                /\ BouquetRequest(p, m, n).model = m
                /\ BouquetRequest(p, m, n)
                     \in [provider : Offer, model : ModelName \cup {Unset}, tokens : Tokens]
                /\ BouquetRequest(p, m, n).tokens > 0
<1>1. p \in DOMAIN Build /\ Unset \notin ModelName
  BY ProvidersAssumption
<1>2. /\ DefaultModelFor[p] \in ModelName /\ Build[p].raw \in ModelName
      /\ Model \subseteq ModelName
  BY <1>1 DEF ModelName
<1>3. \A n \in 1 .. ClampedTokens : n \in Tokens /\ n > 0 /\ n # 0
  BY DEF ClampedTokens, Tokens
<1>4. \A m \in Model \cup {Unset} : ModelOfTest(p, m) \in ModelName /\ ModelOfTest(p, m) # Unset
  BY <1>1, <1>2 DEF ModelOfTest, Or
<1>5. ASSUME NEW m \in ModelName \cup {Unset}, NEW n \in 1 .. ClampedTokens
      PROVE  /\ RawRequest(p, m, n).model # Unset
             /\ RawRequest(p, m, n)
                  \in [provider : Offer, model : ModelName \cup {Unset}, tokens : Tokens]
             /\ RawRequest(p, m, n).tokens > 0
  <2>1. Or(m, Build[p].raw) \in ModelName /\ Or(m, Build[p].raw) # Unset
    BY <1>1, <1>2 DEF Or
  <2>2. RawRequest(p, m, n) = [provider |-> p, model |-> Or(m, Build[p].raw), tokens |-> n]
    BY <1>3 DEF RawRequest
  <2> QED BY <1>3, <2>1, <2>2
<1>6. ASSUME NEW m \in ModelName, NEW n \in 1 .. ClampedTokens
      PROVE  /\ BouquetRequest(p, m, n).model = m
             /\ BouquetRequest(p, m, n)
                  \in [provider : Offer, model : ModelName \cup {Unset}, tokens : Tokens]
             /\ BouquetRequest(p, m, n).tokens > 0
  <2>1. Or(m, Build[p].bouquet) = m
    BY <1>1 DEF Or
  <2>2. BouquetRequest(p, m, n) = [provider |-> p, model |-> m, tokens |-> n]
    BY <2>1 DEF BouquetRequest
  <2> QED BY <1>3, <2>2
<1> QED BY <1>4, <1>5, <1>6

(* A step that changes one router and nothing it has answered.             *)
LEMMA ChangedRouters ==
    ASSUME ProvidersInv, NEW i \in 1 .. Len(made), NEW r \in Router,
           r.stage \in AnsweredStage => r.got = VariantsAsked,
           i = current => r.stage = "installed",
           made' = [made EXCEPT ![i] = r], UNCHANGED <<pill, wire>>,
           current' = current
    PROVE  ProvidersInv'
<1>1. made \in Seq(Router) /\ Len(made) \in Nat /\ Len(made) <= MaxTests
  BY DEF ProvidersInv, ProvidersTypeOK
<1>2. /\ made' \in Seq(Router) /\ Len(made') = Len(made)
      /\ \A j \in 1 .. Len(made) : made'[j] = IF j = i THEN r ELSE made[j]
  BY <1>1
<1>3. ProvidersTypeOK'
  BY <1>1, <1>2 DEF ProvidersInv, ProvidersTypeOK
<1>4. RoutersAreTested'
  BY <1>2 DEF ProvidersInv, RoutersAreTested
<1>5. CurrentIsInstalled'
  BY <1>2 DEF ProvidersInv, ProvidersTypeOK, CurrentIsInstalled
<1>6. WireIsComplete'
  BY DEF ProvidersInv, WireIsComplete
<1> QED BY <1>3, <1>4, <1>5, <1>6 DEF ProvidersInv

LEMMA ProvidersStep == ProvidersInv /\ [ProvidersNext]_providerVars => ProvidersInv'
<1> SUFFICES ASSUME ProvidersInv, [ProvidersNext]_providerVars PROVE ProvidersInv'
  OBVIOUS
<1>0. /\ made \in Seq(Router) /\ Len(made) \in Nat /\ Len(made) <= MaxTests /\ MaxTests \in Nat
      /\ current \in 0 .. Len(made) /\ pill \in [Pending -> 0 .. Len(made)]
      /\ \A j \in 1 .. Len(made) : made[j] \in Router
      /\ \A j \in 1 .. Len(made) : made[j].stage \in AnsweredStage => made[j].got = VariantsAsked
  BY ProvidersAssumption DEF ProvidersInv, ProvidersTypeOK, RoutersAreTested
<1>1. ASSUME NEW p \in Offer, NEW m \in Model \cup {Unset}, TestProvider(p, m)
      PROVE  ProvidersInv'
  <2> DEFINE chosen == ModelOfTest(p, m)
             r == [provider |-> p, asked |-> chosen, override |-> Unset,
                   stage |-> "testing", got |-> 0]
             q == BouquetRequest(p, chosen, TestTokens)
  <2>1. /\ Len(made) < MaxTests /\ made' = Append(made, r) /\ wire' = q
        /\ current' = current /\ pill' = pill
    BY <1>1 DEF TestProvider
  <2>2. chosen \in ModelName /\ TestTokens \in 1 .. ClampedTokens
    <3>1. chosen \in ModelName
      BY FallbacksFitTogether
    <3>2. TestTokens \in 1 .. ClampedTokens
      BY DEF TestTokens, ClampedTokens
    <3> QED BY <3>1, <3>2
  <2>3. /\ q.model # Unset /\ q.tokens > 0
        /\ q \in [provider : Offer, model : ModelName \cup {Unset}, tokens : Tokens]
    BY <2>2, FallbacksFitTogether
  <2> HIDE DEF q, chosen
  <2>4. r \in Router
    BY <2>2 DEF Router, TestStage, VariantsAsked
  <2>5. r.stage = "testing"
    OBVIOUS
  <2> HIDE DEF r
  <2>6. /\ made' \in Seq(Router) /\ Len(made') = Len(made) + 1 /\ made'[Len(made) + 1] = r
        /\ \A j \in 1 .. Len(made) : made'[j] = made[j]
        /\ \A j \in 1 .. Len(made') : j \in 1 .. Len(made) \/ j = Len(made) + 1
    BY <1>0, <2>1, <2>4
  <2>7. current' \in 0 .. Len(made') /\ pill' \in [Pending -> 0 .. Len(made')]
        /\ Len(made') <= MaxTests
    BY <1>0, <2>1, <2>6
  <2>8. ProvidersTypeOK'
    BY <2>1, <2>3, <2>6, <2>7 DEF ProvidersTypeOK
  <2>9. RoutersAreTested'
    BY <1>0, <2>4, <2>5, <2>6 DEF RoutersAreTested, AnsweredStage
  <2>10. CurrentIsInstalled'
    BY <1>0, <2>1, <2>6 DEF ProvidersInv, CurrentIsInstalled
  <2>11. WireIsComplete'
    BY <2>1, <2>3 DEF WireIsComplete
  <2> QED BY <2>8, <2>9, <2>10, <2>11 DEF ProvidersInv
<1>2. ASSUME NEW p \in Offer, NEW m \in Model \cup {Unset}, SetModel(p, m)
      PROVE  ProvidersInv'
  <2> DEFINE r == [made[current] EXCEPT !.override = m]
  <2>1. current \in 1 .. Len(made) /\ made[current] \in Router
    BY <1>0, <1>2 DEF SetModel
  <2>2. m \in ModelName \cup {Unset}
    BY DEF ModelName
  <2>3. r \in Router /\ r.stage = made[current].stage /\ r.got = made[current].got
    BY <2>1, <2>2 DEF Router
  <2>4. made' = [made EXCEPT ![current] = r] /\ UNCHANGED <<current, pill, wire>>
    BY <1>2 DEF SetModel
  <2> HIDE DEF r
  <2>5. r.stage = "installed" /\ r.got = VariantsAsked
    BY <1>0, <2>1, <2>3 DEF ProvidersInv, CurrentIsInstalled, AnsweredStage
  <2> QED BY <2>1, <2>3, <2>4, <2>5, ChangedRouters
<1>3. ASSUME NEW i \in DOMAIN made,
             \/ \E items \in (VariantsAsked - 1) .. (VariantsAsked + 1) : TestAnswered(i, items)
             \/ TestFailed(i) \/ KeepModel(i) \/ Install(i)
      PROVE  ProvidersInv'
  <2>1. i \in 1 .. Len(made) /\ made[i] \in Router
    BY <1>0
  <2>2. i = current => made[i].stage = "installed"
    BY <2>1, <1>0 DEF ProvidersInv, CurrentIsInstalled
  <2>3. ASSUME NEW items \in (VariantsAsked - 1) .. (VariantsAsked + 1), TestAnswered(i, items)
        PROVE  ProvidersInv'
    <3>1. PICK got \in Parsed(items, VariantsAsked) :
              made' = [made EXCEPT ![i].stage = "answered", ![i].got = got]
      BY <2>3 DEF TestAnswered
    <3>2. got = VariantsAsked /\ got \in 0 .. VariantsAsked
      BY <3>1 DEF Parsed, VariantsAsked
    <3> DEFINE half == [made[i] EXCEPT !.stage = "answered"]
               r == [half EXCEPT !.got = got]
    <3>3. half \in Router /\ half.stage = "answered"
      BY <2>1 DEF Router, TestStage
    <3>4. made' = [[made EXCEPT ![i] = half] EXCEPT ![i].got = got]
      BY <3>1
    <3> HIDE DEF half
    <3>5. r \in Router /\ r.stage = "answered" /\ r.got = got
      BY <3>2, <3>3 DEF Router
    <3>6. made' = [made EXCEPT ![i] = r]
      BY <1>0, <2>1, <3>3, <3>4
    <3>7. i # current /\ UNCHANGED <<current, pill, wire>>
      BY <2>2, <2>3 DEF TestAnswered
    <3> HIDE DEF r
    <3> QED BY <2>1, <3>2, <3>5, <3>6, <3>7, ChangedRouters
  <2>4. CASE TestFailed(i)
    <3> DEFINE r == [made[i] EXCEPT !.stage = "failed"]
    <3>1. r \in Router /\ r.stage = "failed"
      BY <2>1 DEF Router, TestStage
    <3>2. made' = [made EXCEPT ![i] = r] /\ UNCHANGED <<current, pill, wire>> /\ i # current
      BY <2>2, <2>4 DEF TestFailed
    <3> HIDE DEF r
    <3> QED BY <2>1, <3>1, <3>2, ChangedRouters DEF AnsweredStage
  <2>5. CASE KeepModel(i)
    <3> DEFINE half == [made[i] EXCEPT !.stage = "kept"]
               r == [half EXCEPT !.override = made[i].asked]
    <3>1. half \in Router /\ half.stage = "kept" /\ half.got = made[i].got
      BY <2>1 DEF Router, TestStage
    <3>2. made' = [[made EXCEPT ![i] = half] EXCEPT ![i].override = made[i].asked]
      BY <2>5 DEF KeepModel
    <3>3. made[i].asked \in ModelName /\ made[i].got = VariantsAsked
      BY <1>0, <2>1, <2>5 DEF Router, KeepModel, AnsweredStage
    <3> HIDE DEF half
    <3>4. r \in Router /\ r.stage = "kept" /\ r.got = VariantsAsked
      BY <3>1, <3>3 DEF Router
    <3>5. made' = [made EXCEPT ![i] = r]
      BY <1>0, <2>1, <3>1, <3>2
    <3>6. UNCHANGED <<current, pill, wire>> /\ i # current
      BY <2>2, <2>5 DEF KeepModel
    <3> HIDE DEF r
    <3> QED BY <2>1, <3>4, <3>5, <3>6, ChangedRouters
  <2>6. CASE Install(i)
    <3> DEFINE r == [made[i] EXCEPT !.stage = "installed"]
    <3>1. r \in Router /\ r.stage = "installed" /\ r.got = made[i].got
      BY <2>1 DEF Router, TestStage
    <3>2. made' = [made EXCEPT ![i] = r] /\ UNCHANGED <<pill, wire>> /\ current' = i
      BY <2>6 DEF Install
    <3>3. r.got = VariantsAsked
      BY <1>0, <2>1, <2>6, <3>1 DEF Install, AnsweredStage
    <3> HIDE DEF r
    <3>4. /\ made' \in Seq(Router) /\ Len(made') = Len(made)
          /\ \A j \in 1 .. Len(made) : made'[j] = IF j = i THEN r ELSE made[j]
      BY <1>0, <2>1, <3>1, <3>2
    <3>5. ProvidersTypeOK'
      BY <1>0, <2>1, <3>2, <3>4 DEF ProvidersInv, ProvidersTypeOK
    <3>6. RoutersAreTested'
      BY <1>0, <3>1, <3>3, <3>4 DEF RoutersAreTested
    <3>7. CurrentIsInstalled'
      BY <2>1, <3>1, <3>2, <3>4 DEF CurrentIsInstalled
    <3>8. WireIsComplete'
      BY <3>2 DEF ProvidersInv, WireIsComplete
    <3> QED BY <3>5, <3>6, <3>7, <3>8 DEF ProvidersInv
  <2> QED BY <1>3, <2>3, <2>4, <2>5, <2>6
<1>4. ASSUME NEW t \in Pending, CloneRouter(t) PROVE ProvidersInv'
  <2>1. pill' = [pill EXCEPT ![t] = current] /\ UNCHANGED <<made, current, wire>>
    BY <1>4 DEF CloneRouter
  <2>2. pill' \in [Pending -> 0 .. Len(made)]
    BY <1>0, <2>1
  <2> QED BY <2>1, <2>2 DEF ProvidersInv, ProvidersTypeOK, RoutersAreTested, CurrentIsInstalled,
                            WireIsComplete
<1>5. ASSUME NEW t \in Pending, GenerateRaw(t) PROVE ProvidersInv'
  <2> DEFINE i == pill[t]
             q == RawRequest(made[i].provider, made[i].override, PillTokens)
  <2>1. i \in 1 .. Len(made)
    BY <1>0, <1>5 DEF GenerateRaw
  <2>2. /\ made[i].provider \in Offer /\ made[i].override \in ModelName \cup {Unset}
        /\ PillTokens \in 1 .. ClampedTokens
    BY <1>0, <2>1 DEF Router, PillTokens, ClampedTokens
  <2>3. /\ q.model # Unset /\ q.tokens > 0
        /\ q \in [provider : Offer, model : ModelName \cup {Unset}, tokens : Tokens]
    BY <2>2, FallbacksFitTogether
  <2>4. wire' = q /\ pill' = [pill EXCEPT ![t] = 0] /\ UNCHANGED <<made, current>>
    BY <1>5 DEF GenerateRaw
  <2> HIDE DEF q
  <2>5. pill' \in [Pending -> 0 .. Len(made)]
    BY <1>0, <2>4
  <2>6. ProvidersTypeOK'
    BY <2>3, <2>4, <2>5 DEF ProvidersInv, ProvidersTypeOK
  <2>7. RoutersAreTested' /\ CurrentIsInstalled'
    BY <2>4 DEF ProvidersInv, RoutersAreTested, CurrentIsInstalled
  <2>8. WireIsComplete'
    BY <2>3, <2>4 DEF WireIsComplete
  <2> QED BY <2>6, <2>7, <2>8 DEF ProvidersInv
<1>6. CASE UNCHANGED providerVars
  BY <1>6 DEF providerVars, ProvidersInv, ProvidersTypeOK, RoutersAreTested, CurrentIsInstalled,
              WireIsComplete
<1> QED BY <1>1, <1>2, <1>3, <1>4, <1>5, <1>6 DEF ProvidersNext

(* Whichever providers are tried, chosen, cleared and overtaken: every     *)
(* request that goes out names a model and has room for an answer, and the *)
(* router in use has given the variants its test asked for.                *)
THEOREM EveryRequestIsWhole == ProvidersSpec => []RequestsAreWhole
<1>1. ProvidersInit => ProvidersInv
  <2> SUFFICES ASSUME ProvidersInit PROVE ProvidersInv
    OBVIOUS
  <2>1. /\ made = <<>> /\ current = 0 /\ wire = NothingSent
        /\ pill = [t \in Pending |-> 0]
    BY DEF ProvidersInit
  <2>2. /\ made \in Seq(Router) /\ Len(made) = 0 /\ MaxTests \in Nat
        /\ pill \in [Pending -> 0 .. 0]
    BY <2>1, ProvidersAssumption
  <2> QED BY <2>1, <2>2 DEF ProvidersInv, ProvidersTypeOK, RoutersAreTested,
                            CurrentIsInstalled, WireIsComplete
<1>2. ProvidersInv => RequestsAreWhole
  <2> SUFFICES ASSUME ProvidersInv PROVE RequestsAreWhole
    OBVIOUS
  <2>1. RouterInUsePassed
    BY DEF ProvidersInv, ProvidersTypeOK, RoutersAreTested, CurrentIsInstalled,
           RouterInUsePassed, AnsweredStage
  <2> QED BY <2>1 DEF ProvidersInv, RequestsAreWhole
<1> QED BY <1>1, <1>2, ProvidersStep, PTL DEF ProvidersSpec
=============================================================================
