------------------------- MODULE PillSystem_proofs --------------------------
(***************************************************************************)
(* Theorems about the service and the panel together, for any number of    *)
(* pills, any room on the screen and in the stash, and any channel.        *)
(*                                                                         *)
(* The panel is a window of the service's because it reports only pills it *)
(* was told of; from there on every theorem about the service holds of the *)
(* two, and what the panel promises rests on one of them: no pill is       *)
(* announced twice, so nothing that is on the panel or in its stash can    *)
(* come again, and nothing that is on it was dismissed.                    *)
(***************************************************************************)
EXTENDS PillSystem, PillService_proofs

(* What the panel does to its lists.                                       *)
LEMMA Places == ASSUME NEW S, NEW s \in Seq(S)
  PROVE  /\ DOMAIN s = 1..Len(s) /\ Len(s) \in Nat
         /\ \A x : x \in ToSet(s) <=> \E i \in 1..Len(s) : s[i] = x
         /\ \A i \in 1..Len(s) : s[i] \in S
         /\ ToSet(s) \subseteq S
BY DEF ToSet

(* A pill arrives at the end of a list.                                    *)
LEMMA Arriving == ASSUME NEW S, NEW s \in Seq(S), NEW x \in S
  PROVE  /\ Append(s, x) \in Seq(S)
         /\ Len(Append(s, x)) = Len(s) + 1
         /\ ToSet(Append(s, x)) = ToSet(s) \cup {x}
         /\ IsInjective(s) /\ x \notin ToSet(s) => IsInjective(Append(s, x))
<1> DEFINE a == Append(s, x)
<1>1. /\ a \in Seq(S) /\ Len(a) = Len(s) + 1 /\ Len(s) \in Nat
      /\ \A i \in 1..Len(s) : a[i] = s[i]
      /\ a[Len(s) + 1] = x
  OBVIOUS
<1> HIDE DEF a
<1>2. \A i \in 1..Len(a) : i \in 1..Len(s) \/ i = Len(s) + 1
  BY <1>1
<1>3. 1..Len(s) \subseteq 1..Len(a) /\ Len(s) + 1 \in 1..Len(a)
  BY <1>1
<1>4. ToSet(a) = ToSet(s) \cup {x}
  <2>1. ASSUME NEW y \in ToSet(a) PROVE y \in ToSet(s) \cup {x}
    BY <1>1, <1>2, <2>1, Places
  <2>2. ASSUME NEW y \in ToSet(s) PROVE y \in ToSet(a)
    BY <1>1, <1>3, <2>2, Places
  <2>3. x \in ToSet(a)
    BY <1>1, <1>3, Places
  <2> QED BY <2>1, <2>2, <2>3
<1>5. ASSUME IsInjective(s), x \notin ToSet(s) PROVE IsInjective(a)
  <2>1. \A i \in 1..Len(s) : s[i] # x
    BY <1>5, Places
  <2>2. ASSUME NEW i \in 1..Len(a), NEW j \in 1..Len(a), a[i] = a[j] PROVE i = j
    BY <1>1, <1>2, <1>5, <2>1, <2>2, Places DEF IsInjective
  <2> QED BY <1>1, <2>2, Places DEF IsInjective
<1> QED BY <1>1, <1>4, <1>5 DEF a

(* The oldest pill of a list leaves it.                                    *)
LEMMA Leaving == ASSUME NEW S, NEW s \in Seq(S), s # <<>>
  PROVE  /\ Tail(s) \in Seq(S) /\ Len(Tail(s)) = Len(s) - 1
         /\ Head(s) \in ToSet(s)
         /\ ToSet(s) = ToSet(Tail(s)) \cup {Head(s)}
         /\ IsInjective(s) => IsInjective(Tail(s)) /\ Head(s) \notin ToSet(Tail(s))
<1> DEFINE t == Tail(s)
<1>1. /\ t \in Seq(S) /\ Len(s) \in Nat \ {0} /\ Len(t) = Len(s) - 1
      /\ \A i \in 1..Len(t) : t[i] = s[i + 1]
      /\ Head(s) = s[1]
  OBVIOUS
<1> HIDE DEF t
<1>2. /\ \A i \in 1..Len(t) : i + 1 \in 1..Len(s) /\ i + 1 # 1
      /\ \A i \in 1..Len(s) : i = 1 \/ (i - 1 \in 1..Len(t) /\ (i - 1) + 1 = i)
      /\ 1 \in 1..Len(s)
  BY <1>1
<1>3. ToSet(s) = ToSet(t) \cup {Head(s)}
  <2>1. ASSUME NEW y \in ToSet(s) PROVE y \in ToSet(t) \cup {Head(s)}
    <3>1. PICK i \in 1..Len(s) : s[i] = y
      BY <2>1, Places
    <3>2. CASE i = 1
      BY <1>1, <3>1, <3>2
    <3>3. CASE i # 1
      <4>1. i - 1 \in 1..Len(t) /\ t[i - 1] = y
        BY <1>1, <1>2, <3>1, <3>3
      <4> QED BY <1>1, <4>1, Places
    <3> QED BY <3>2, <3>3
  <2>2. ASSUME NEW y \in ToSet(t) PROVE y \in ToSet(s)
    BY <1>1, <1>2, <2>2, Places
  <2>3. Head(s) \in ToSet(s)
    BY <1>1, <1>2, Places
  <2> QED BY <2>1, <2>2, <2>3
<1>4. ASSUME IsInjective(s) PROVE IsInjective(t) /\ Head(s) \notin ToSet(t)
  <2>1. ASSUME NEW i \in 1..Len(t), NEW j \in 1..Len(t), t[i] = t[j] PROVE i = j
    <3>1. s[i + 1] = s[j + 1] /\ i + 1 \in 1..Len(s) /\ j + 1 \in 1..Len(s)
      BY <1>1, <1>2, <2>1
    <3>2. i + 1 = j + 1
      BY <1>4, <3>1, Places DEF IsInjective
    <3> QED BY <3>2
  <2>2. Head(s) \notin ToSet(t)
    BY <1>1, <1>2, <1>4, Places DEF IsInjective
  <2> QED BY <1>1, <2>1, <2>2, Places DEF IsInjective
<1> QED BY <1>1, <1>3, <1>4 DEF t

(* One list after the other.                                               *)
LEMMA Joining == ASSUME NEW S, NEW v \in Seq(S), NEW s \in Seq(S)
  PROVE  /\ v \o s \in Seq(S) /\ Len(v \o s) = Len(v) + Len(s)
         /\ \A i \in 1..Len(v) : (v \o s)[i] = v[i]
         /\ \A i \in 1..Len(v \o s) : i > Len(v) => (v \o s)[i] = s[i - Len(v)]
OBVIOUS

(* A pill is taken out of a list.                                          *)
LEMMA TakingOut == ASSUME NEW S, NEW s \in Seq(S), NEW p
  PROVE  /\ Without(s, p) \in Seq(S) /\ Len(Without(s, p)) <= Len(s)
         /\ ToSet(Without(s, p)) \subseteq ToSet(s)
         /\ ToSet(s) \subseteq ToSet(Without(s, p)) \cup {p}
         /\ IsInjective(s) => /\ IsInjective(Without(s, p))
                              /\ p \notin ToSet(Without(s, p))
<1>1. CASE p \notin ToSet(s)
  BY <1>1 DEF Without
<1>2. CASE p \in ToSet(s)
  <2> DEFINE k == CHOOSE i \in DOMAIN s : s[i] = p
             w == RemoveAt(s, k)
  <2>1. k \in 1..Len(s) /\ s[k] = p
    BY <1>2, Places
  <2> HIDE DEF k
  <2>2. Without(s, p) = w
    BY <1>2 DEF Without, k
  <2>3. /\ w \in Seq(S) /\ Len(w) = Len(s) - 1 /\ Len(s) \in Nat
        /\ \A i \in 1..Len(w) : w[i] = IF i < k THEN s[i] ELSE s[i + 1]
    <3> DEFINE l == SubSeq(s, 1, k - 1)
               r == SubSeq(s, k + 1, Len(s))
    <3>1. /\ l \in Seq(S) /\ Len(l) = k - 1 /\ \A i \in 1..(k - 1) : l[i] = s[i]
      BY <2>1
    <3>2. /\ r \in Seq(S) /\ Len(r) = Len(s) - k
          /\ \A i \in 1..(Len(s) - k) : r[i] = s[k + i]
      BY <2>1
    <3>3. w = l \o r
      BY DEF RemoveAt
    <3> HIDE DEF l, r
    <3> HIDE DEF w
    <3>4. /\ w \in Seq(S) /\ Len(w) = Len(l) + Len(r)
          /\ \A i \in 1..Len(l) : w[i] = l[i]
          /\ \A i \in 1..Len(w) : i > Len(l) => w[i] = r[i - Len(l)]
      BY <3>1, <3>2, <3>3, Joining
    <3>5. Len(w) = Len(s) - 1 /\ Len(s) \in Nat
      BY <2>1, <3>1, <3>2, <3>4
    <3>6. ASSUME NEW i \in 1..Len(w) PROVE w[i] = IF i < k THEN s[i] ELSE s[i + 1]
      <4>1. CASE i < k
        BY <2>1, <3>1, <3>4, <4>1
      <4>2. CASE ~(i < k)
        <5>1. i > Len(l) /\ i - Len(l) \in 1..(Len(s) - k) /\ k + (i - Len(l)) = i + 1
          BY <2>1, <3>1, <3>5, <4>2
        <5> QED BY <3>2, <3>4, <4>2, <5>1
      <4> QED BY <4>1, <4>2
    <3> QED BY <3>4, <3>5, <3>6
  <2> HIDE DEF w
  <2>4. \A i \in 1..Len(w) : /\ i \in 1..Len(s) /\ i + 1 \in 1..Len(s)
                             /\ i < k => i # k
                             /\ ~(i < k) => i + 1 # k
    BY <2>1, <2>3
  <2>5. ASSUME NEW y \in ToSet(w) PROVE y \in ToSet(s)
    <3>1. PICK i \in 1..Len(w) : w[i] = y
      BY <2>3, <2>5, Places
    <3>2. CASE i < k
      BY <2>3, <2>4, <3>1, <3>2, Places
    <3>3. CASE ~(i < k)
      BY <2>3, <2>4, <3>1, <3>3, Places
    <3> QED BY <3>2, <3>3
  <2>6. ASSUME NEW y \in ToSet(s) PROVE y \in ToSet(w) \cup {p}
    <3>1. PICK i \in 1..Len(s) : s[i] = y
      BY <2>6, Places
    <3>2. CASE i < k
      BY <2>1, <2>3, <3>1, <3>2, Places
    <3>3. CASE i = k
      BY <2>1, <3>1, <3>3
    <3>4. CASE i > k
      <4>1. i - 1 \in 1..Len(w) /\ ~(i - 1 < k) /\ (i - 1) + 1 = i
        BY <2>1, <2>3, <3>4
      <4>2. w[i - 1] = y
        BY <2>3, <3>1, <4>1
      <4> QED BY <2>3, <4>1, <4>2, Places
    <3> QED BY <2>1, <3>2, <3>3, <3>4
  <2>7. ASSUME IsInjective(s) PROVE IsInjective(w) /\ p \notin ToSet(w)
    <3>1. ASSUME NEW i \in 1..Len(w), NEW j \in 1..Len(w), w[i] = w[j] PROVE i = j
      <4> DEFINE at(n) == IF n < k THEN n ELSE n + 1
      <4>1. /\ at(i) \in 1..Len(s) /\ at(j) \in 1..Len(s)
            /\ w[i] = s[at(i)] /\ w[j] = s[at(j)]
        BY <2>3, <2>4
      <4> HIDE DEF at
      <4>2. at(i) = at(j)
        <5>1. \A a, b \in 1..Len(s) : s[a] = s[b] => a = b
          BY <2>7, Places DEF IsInjective
        <5> QED BY <3>1, <4>1, <5>1
      <4> USE DEF at
      <4> QED BY <2>1, <4>2
    <3>2. ASSUME NEW i \in 1..Len(w) PROVE w[i] # p
      <4>1. \A j \in 1..Len(s) : s[j] = p => j = k
        BY <2>1, <2>7, Places DEF IsInjective
      <4>2. CASE i < k
        BY <2>3, <2>4, <4>1, <4>2
      <4>3. CASE ~(i < k)
        BY <2>3, <2>4, <4>1, <4>3
      <4> QED BY <4>2, <4>3
    <3> QED BY <2>3, <3>1, <3>2, Places DEF IsInjective
  <2> QED BY <2>2, <2>3, <2>5, <2>6, <2>7
<1> QED BY <1>1, <1>2

(* A pill goes on top of the stash, which has room for it.                 *)
LEMMA Stashing == ASSUME NEW S, NEW s \in Seq(S), NEW p \in S, MaxStashed \in Nat \ {0}
  PROVE  /\ TopOfStash(p, s) \in Seq(S) /\ Len(TopOfStash(p, s)) <= MaxStashed
         /\ p \in ToSet(TopOfStash(p, s))
         /\ ToSet(TopOfStash(p, s)) \subseteq ToSet(s) \cup {p}
         /\ IsInjective(s) /\ p \notin ToSet(s) => IsInjective(TopOfStash(p, s))
<1> DEFINE m == Min({MaxStashed, Len(s) + 1})
           f == <<p>> \o s
           t == TopOfStash(p, s)
<1>1. m \in 1..(Len(s) + 1) /\ m <= MaxStashed /\ Len(s) \in Nat
  <2>1. \E x \in {MaxStashed, Len(s) + 1} : \A y \in {MaxStashed, Len(s) + 1} : x =< y
    <3>1. MaxStashed \in Nat /\ Len(s) + 1 \in Nat
      OBVIOUS
    <3> QED BY <3>1
  <2>2. m \in {MaxStashed, Len(s) + 1} /\ \A y \in {MaxStashed, Len(s) + 1} : m =< y
    BY <2>1 DEF Min
  <2> HIDE DEF m
  <2> QED BY <2>2
<1> HIDE DEF m
<1>2. /\ f \in Seq(S) /\ Len(f) = Len(s) + 1 /\ f[1] = p
      /\ \A i \in 2..Len(f) : f[i] = s[i - 1]
  OBVIOUS
<1>3. t = SubSeq(f, 1, m)
  BY DEF TopOfStash, m
<1> HIDE DEF f
<1>4. /\ t \in Seq(S) /\ Len(t) = m /\ \A i \in 1..m : t[i] = f[i]
  BY <1>1, <1>2, <1>3
<1> HIDE DEF t
<1>5. /\ t[1] = p /\ 1 \in 1..Len(t)
      /\ \A i \in 1..Len(t) : i # 1 => i - 1 \in 1..Len(s) /\ t[i] = s[i - 1]
  BY <1>1, <1>2, <1>4
<1>6. p \in ToSet(t) /\ ToSet(t) \subseteq ToSet(s) \cup {p}
  BY <1>4, <1>5, Places
<1>7. ASSUME IsInjective(s), p \notin ToSet(s) PROVE IsInjective(t)
  <2>1. \A i \in 1..Len(s) : s[i] # p
    BY <1>7, Places
  <2>2. ASSUME NEW i \in 1..Len(t), NEW j \in 1..Len(t), t[i] = t[j] PROVE i = j
    <3>1. CASE i = 1 \/ j = 1
      BY <1>5, <2>1, <2>2, <3>1
    <3>2. CASE i # 1 /\ j # 1
      <4>1. i - 1 = j - 1
        BY <1>5, <1>7, <2>2, <3>2, Places DEF IsInjective
      <4> QED BY <4>1
    <3> QED BY <3>1, <3>2
  <2> QED BY <1>4, <2>2, Places DEF IsInjective
<1> QED BY <1>1, <1>4, <1>6, <1>7 DEF t

(* Shown in one place: no list holds a pill twice, and no pill is in both. *)
LEMMA InOnePlace == ASSUME NEW S, NEW v \in Seq(S), NEW s \in Seq(S)
  PROVE  IsInjective(v \o s) <=> /\ IsInjective(v) /\ IsInjective(s)
                                 /\ ToSet(v) \cap ToSet(s) = {}
<1> DEFINE c == v \o s
<1>1. /\ c \in Seq(S) /\ Len(c) = Len(v) + Len(s) /\ Len(v) \in Nat /\ Len(s) \in Nat
      /\ \A i \in 1..Len(v) : c[i] = v[i]
      /\ \A i \in 1..Len(c) : i > Len(v) => c[i] = s[i - Len(v)]
  BY Joining
<1> HIDE DEF c
<1>2. /\ \A i \in 1..Len(v) : i \in 1..Len(c)
      /\ \A i \in 1..Len(s) : /\ i + Len(v) \in 1..Len(c) /\ i + Len(v) > Len(v)
                              /\ (i + Len(v)) - Len(v) = i
      /\ \A i \in 1..Len(c) : ~(i > Len(v)) => i \in 1..Len(v)
      /\ \A i \in 1..Len(c) : i > Len(v) => i - Len(v) \in 1..Len(s)
  BY <1>1
<1>3. \A i \in 1..Len(s) : c[i + Len(v)] = s[i]
  BY <1>1, <1>2
<1>4. ASSUME IsInjective(c) PROVE IsInjective(v) /\ IsInjective(s) /\ ToSet(v) \cap ToSet(s) = {}
  <2>1. \A i, j \in 1..Len(c) : c[i] = c[j] => i = j
    <3>1. DOMAIN c = 1..Len(c)
      BY <1>1
    <3> QED BY <1>4, <3>1 DEF IsInjective
  <2>2. IsInjective(v)
    BY <1>1, <1>2, <2>1, Places DEF IsInjective
  <2>3. ASSUME NEW i \in 1..Len(s), NEW j \in 1..Len(s), s[i] = s[j] PROVE i = j
    <3>1. i + Len(v) = j + Len(v)
      BY <1>2, <1>3, <2>1, <2>3
    <3> QED BY <1>1, <3>1
  <2>4. ASSUME NEW i \in 1..Len(v), NEW j \in 1..Len(s) PROVE v[i] # s[j]
    <3>1. i # j + Len(v)
      BY <1>1
    <3> QED BY <1>1, <1>2, <1>3, <2>1, <3>1
  <2> QED BY <2>2, <2>3, <2>4, Places DEF IsInjective
<1>5. ASSUME IsInjective(v), IsInjective(s), ToSet(v) \cap ToSet(s) = {} PROVE IsInjective(c)
  <2>1. \A i \in 1..Len(v), j \in 1..Len(s) : v[i] # s[j]
    BY <1>5, Places
  <2>2. \A i, j \in 1..Len(v) : v[i] = v[j] => i = j
    BY <1>5, Places DEF IsInjective
  <2>3. \A i, j \in 1..Len(s) : s[i] = s[j] => i = j
    BY <1>5, Places DEF IsInjective
  <2>4. ASSUME NEW i \in 1..Len(c), NEW j \in 1..Len(c), c[i] = c[j] PROVE i = j
    <3>1. CASE ~(i > Len(v)) /\ ~(j > Len(v))
      BY <1>1, <1>2, <2>2, <2>4, <3>1
    <3>2. CASE i > Len(v) /\ j > Len(v)
      <4>1. i - Len(v) = j - Len(v)
        BY <1>1, <1>2, <2>3, <2>4, <3>2
      <4> QED BY <1>1, <4>1
    <3>3. CASE (i > Len(v)) # (j > Len(v))
      BY <1>1, <1>2, <2>1, <2>4, <3>3
    <3> QED BY <3>1, <3>2, <3>3
  <2> QED BY <1>1, <2>4, Places DEF IsInjective
<1> QED BY <1>4, <1>5 DEF c

-----------------------------------------------------------------------------
(* The pills the bus told the window of so far.                            *)
HeardOf(r, b) == {p \in Pill : \E i \in 1..r : b[i] = [kind |-> "emerged", pill |-> p]}
Heard == HeardOf(read, bus)

(* The panel holds only what it was told of.                               *)
PanelHeard ==
    /\ LayerTypeOK
    /\ OnScreen \subseteq Heard
    /\ ToSet(stash) \subseteq Heard
    /\ shown \subseteq Heard

(* What was heard stays heard: events are only added, and read in order.   *)
LEMMA HearingGrows ==
  ASSUME read \in 0..Len(bus), bus \in Seq(Event), bus' \in Seq(Event),
         read' \in Nat, read <= read', read' <= Len(bus'),
         \A i \in 1..Len(bus) : bus'[i] = bus[i]
  PROVE  Heard \subseteq Heard'
<1>1. 1..read \subseteq 1..read' /\ 1..read \subseteq 1..Len(bus)
  OBVIOUS
<1> QED BY <1>1 DEF Heard, HeardOf

(* The service only adds events.                                           *)
LEMMA BusGrows ==
  ASSUME TypeOK, [Next]_vars
  PROVE  /\ bus' \in Seq(Event) /\ Len(bus) <= Len(bus')
         /\ \A i \in 1..Len(bus) : bus'[i] = bus[i]
<1>1. bus \in Seq(Event) /\ bus' \in Seq(Event)
  BY TypeStep DEF TypeOK, ChannelsTypeOK
<1>2. CASE bus' = bus
  BY <1>1, <1>2
<1>3. ASSUME NEW p \in Pill, NEW k \in {"emerged", "dismissed"}, Answer(p, k)
      PROVE  /\ Len(bus) <= Len(bus')
             /\ \A i \in 1..Len(bus) : bus'[i] = bus[i]
  <2> DEFINE e == [kind |-> k, pill |-> p]
  <2>1. bus' = Append(bus, e)
    BY <1>3 DEF Answer, Emit
  <2>2. e \in Event
    BY DEF Event
  <2> HIDE DEF e
  <2> QED BY <1>1, <2>1, <2>2
<1> QED
  BY <1>1, <1>2, <1>3
  DEF vars, channels, serviceVars, Next, ServiceNext, Serve, Confirmed, Take, Answered,
      PillSpeaks, PillFallsSilent, DeliverRequest, Deliver, TickPasses, TickAsks, TickMints,
      OutcomeClick, OutcomeTerminal, OutcomeUnknown, ResetLearning, ResetGivenUp,
      SceneState, Shutdown, ConfirmationDrops, ConfirmationMints, Mint, LockDatabase,
      UnlockDatabase, Elapse, WindowCommands, InvokeTelemetry, InvokeSceneState,
      InvokeReset, CloseProject, InvokeOutcome, Invoke

(* A report of a pill the window was told of is one of its commands.       *)
LEMMA ReportIsACommand ==
  ASSUME NEW p \in Emerged, Report(p), UNCHANGED serviceVars
  PROVE  [Next]_vars
<1>1. CASE Invoke(Outcome(p, "evict"))
  <2>1. "evict" \in Signal
    BY DEF Signal
  <2>2. InvokeOutcome
    BY <1>1, <2>1 DEF InvokeOutcome
  <2> QED BY <2>2 DEF Next, WindowCommands
<1>2. CASE UNCHANGED channels
  BY <1>2 DEF vars
<1> QED BY <1>1, <1>2 DEF Report

LEMMA HeardHasEmerged == ASSUME LayerTypeOK, bus \in Seq(Event) PROVE Heard \subseteq Emerged
<1>1. 1..read \subseteq DOMAIN bus
  BY DEF LayerTypeOK
<1> QED BY <1>1 DEF Heard, HeardOf, Emerged

(* A pill appears: whom it evicts was on the screen.                       *)
LEMMA Appearing ==
  ASSUME LayerTypeOK, NEW p \in Pill, NEW kept \in Seq(Pill), Len(kept) <= MaxStashed,
         Appear(p, kept)
  PROVE  /\ shown' = shown \cup {p} /\ shown' \subseteq Pill
         /\ visible' \in Seq(Pill) /\ Len(visible') <= MaxOnScreen
         /\ stash' \in Seq(Pill) /\ Len(stash') <= MaxStashed
         /\ p \in OnScreen' /\ OnScreen' \subseteq OnScreen \cup {p}
         /\ ToSet(stash') \subseteq ToSet(kept) \cup OnScreen
         /\ engaged' \subseteq engaged
         /\ \/ UNCHANGED channels
            \/ \E e \in OnScreen : Report(e)
         /\ IsInjective(visible) /\ IsInjective(kept) /\ p \notin OnScreen \cup ToSet(kept)
               /\ OnScreen \cap ToSet(kept) = {}
            => /\ IsInjective(visible') /\ IsInjective(stash')
               /\ OnScreen' \cap ToSet(stash') = {}
         /\ \A e \in OnScreen \ OnScreen' :
               /\ Report(e)
               /\ e \in engaged => e \in ToSet(stash')
<1>1. /\ MaxOnScreen \in Nat \ {0} /\ MaxStashed \in Nat \ {0}
      /\ visible \in Seq(Pill) /\ Len(visible) <= MaxOnScreen /\ shown \subseteq Pill
  BY LayerAssumption DEF LayerTypeOK
<1>2. shown' = shown \cup {p} /\ shown' \subseteq Pill
  BY <1>1 DEF Appear
<1>3. CASE /\ Len(visible) < MaxOnScreen /\ visible' = Append(visible, p) /\ stash' = kept
           /\ UNCHANGED <<channels, engaged>>
  <2>1. /\ visible' \in Seq(Pill) /\ Len(visible') = Len(visible) + 1
        /\ OnScreen' = OnScreen \cup {p}
        /\ IsInjective(visible) /\ p \notin OnScreen => IsInjective(visible')
    BY <1>1, <1>3, Arriving DEF OnScreen
  <2>2. Len(visible') <= MaxOnScreen
    BY <1>1, <1>3, <2>1
  <2>3. OnScreen \ OnScreen' = {} /\ OnScreen' \subseteq OnScreen \cup {p} /\ p \in OnScreen'
    BY <2>1
  <2>4. ASSUME IsInjective(visible), IsInjective(kept), p \notin OnScreen \cup ToSet(kept),
               OnScreen \cap ToSet(kept) = {}
        PROVE  /\ IsInjective(visible') /\ IsInjective(stash')
               /\ OnScreen' \cap ToSet(stash') = {}
    BY <1>3, <2>1, <2>4
  <2>5. /\ stash' \in Seq(Pill) /\ Len(stash') <= MaxStashed
        /\ ToSet(stash') \subseteq ToSet(kept) \cup OnScreen
    BY <1>3
  <2> QED BY <1>2, <1>3, <2>1, <2>2, <2>3, <2>4, <2>5
<1>4. CASE /\ Len(visible) >= MaxOnScreen /\ visible' = Append(Tail(visible), p)
           /\ Evict(Head(visible), kept)
  <2> DEFINE h == Head(visible)
             t == Tail(visible)
  <2>1. visible # <<>>
    BY <1>1, <1>4
  <2>2. /\ t \in Seq(Pill) /\ Len(t) = Len(visible) - 1 /\ h \in OnScreen
        /\ OnScreen = ToSet(t) \cup {h}
        /\ IsInjective(visible) => IsInjective(t) /\ h \notin ToSet(t)
    BY <1>1, <2>1, Leaving DEF OnScreen
  <2>3. h \in Pill
    BY <1>1, <2>2, Places DEF OnScreen
  <2>4. visible' = Append(t, p)
    BY <1>4
  <2> HIDE DEF h, t
  <2>5. /\ visible' \in Seq(Pill) /\ Len(visible') = Len(t) + 1
        /\ OnScreen' = ToSet(t) \cup {p}
        /\ IsInjective(t) /\ p \notin ToSet(t) => IsInjective(visible')
    BY <2>2, <2>4, Arriving DEF OnScreen
  <2>6. Len(visible') <= MaxOnScreen
    BY <1>1, <2>2, <2>5
  <2>7. Report(h)
    BY <1>4 DEF Evict, h
  <2>8. /\ stash' \in Seq(Pill) /\ Len(stash') <= MaxStashed
        /\ ToSet(stash') \subseteq ToSet(kept) \cup {h}
        /\ IsInjective(kept) /\ h \notin ToSet(kept) => IsInjective(stash')
        /\ h \in engaged => h \in ToSet(stash')
        /\ engaged' \subseteq engaged
    <3>1. CASE h \in engaged
      <4>1. stash' = TopOfStash(h, kept) /\ engaged' = engaged \ {h}
        BY <1>4, <3>1 DEF Evict, h
      <4> QED BY <1>1, <2>3, <4>1, Stashing
    <3>2. CASE h \notin engaged
      <4>1. stash' = kept /\ engaged' = engaged
        BY <1>4, <3>2 DEF Evict, h
      <4> QED BY <3>2, <4>1
    <3> QED BY <3>1, <3>2
  <2>9. OnScreen \ OnScreen' \subseteq {h}
    BY <2>2, <2>5
  <2>10. ASSUME IsInjective(visible), IsInjective(kept), p \notin OnScreen \cup ToSet(kept),
               OnScreen \cap ToSet(kept) = {}
        PROVE  /\ IsInjective(visible') /\ IsInjective(stash')
               /\ OnScreen' \cap ToSet(stash') = {}
    <3>1. h \notin ToSet(kept) /\ p # h /\ h \notin ToSet(t) /\ p \notin ToSet(t) /\ IsInjective(t)
      BY <2>2, <2>10
    <3>2. IsInjective(visible') /\ IsInjective(stash')
      BY <2>5, <2>8, <2>10, <3>1
    <3>3. OnScreen' \cap ToSet(stash') = {}
      BY <2>2, <2>5, <2>8, <2>10, <3>1
    <3> QED BY <3>2, <3>3
  <2>11. p \in OnScreen' /\ OnScreen' \subseteq OnScreen \cup {p}
         /\ ToSet(stash') \subseteq ToSet(kept) \cup OnScreen
    BY <2>2, <2>5, <2>8
  <2>12. \A e \in OnScreen \ OnScreen' : Report(e) /\ (e \in engaged => e \in ToSet(stash'))
    BY <2>7, <2>8, <2>9
  <2> QED BY <1>2, <2>2, <2>5, <2>6, <2>7, <2>8, <2>10, <2>11, <2>12
<1> QED BY <1>3, <1>4 DEF Appear

(* The panel's subscription delivers the next event.                       *)
LEMMA Hearing ==
  ASSUME LayerTypeOK, bus \in Seq(Event), read < Len(bus), read' = read + 1, bus' = bus
  PROVE  /\ Delivered \in Event /\ read' \in 0..Len(bus')
         /\ Heard \subseteq Heard'
         /\ Delivered.kind = "emerged" => Delivered.pill \in Heard'
<1>1. /\ read \in Nat /\ read + 1 \in 1..Len(bus) /\ read' \in 0..Len(bus')
      /\ read + 1 \in 1..read'
  BY DEF LayerTypeOK
<1>2. Delivered \in Event
  BY <1>1 DEF Delivered
<1>3. Heard \subseteq Heard'
  BY <1>1, HearingGrows DEF LayerTypeOK
<1>4. ASSUME Delivered.kind = "emerged" PROVE Delivered.pill \in Heard'
  <2>1. Delivered = [kind |-> "emerged", pill |-> Delivered.pill] /\ Delivered.pill \in Pill
    BY <1>2, <1>4 DEF Event
  <2>2. bus'[read + 1] = Delivered
    BY DEF Delivered
  <2> QED BY <1>1, <2>1, <2>2 DEF Heard, HeardOf
<1> QED BY <1>1, <1>2, <1>3, <1>4

LEMMA HearEmergedHears ==
  ASSUME TypeOK, PanelHeard, HearEmerged, UNCHANGED serviceVars
  PROVE  PanelHeard' /\ [Next]_vars
<1> DEFINE d == Delivered.pill
<1>1. /\ LayerTypeOK /\ bus \in Seq(Event) /\ MaxStashed \in Nat
      /\ stash \in Seq(Pill) /\ Len(stash) <= MaxStashed
  BY LayerAssumption DEF PanelHeard, LayerTypeOK, TypeOK, ChannelsTypeOK
<1>2. /\ read < Len(bus) /\ read' = read + 1 /\ Appear(d, stash)
      /\ Delivered.kind = "emerged" /\ UNCHANGED <<listening, opened, hovered>>
  BY DEF HearEmerged
<1>3. bus' = bus
  BY <1>2 DEF Appear, Evict, Report, Invoke, channels
<1>4. /\ Delivered \in Event /\ read' \in 0..Len(bus') /\ Heard \subseteq Heard' /\ d \in Heard'
  BY <1>1, <1>2, <1>3, Hearing
<1>5. d \in Pill
  BY <1>4 DEF Event
<1> HIDE DEF d
<1>6. /\ shown' = shown \cup {d} /\ shown' \subseteq Pill
      /\ visible' \in Seq(Pill) /\ Len(visible') <= MaxOnScreen
      /\ stash' \in Seq(Pill) /\ Len(stash') <= MaxStashed
      /\ OnScreen' \subseteq OnScreen \cup {d}
      /\ ToSet(stash') \subseteq ToSet(stash) \cup OnScreen
      /\ engaged' \subseteq engaged
      /\ (UNCHANGED channels) \/ \E e \in OnScreen : Report(e)
  BY <1>1, <1>2, <1>5, Appearing
<1>7. LayerTypeOK'
  BY <1>1, <1>2, <1>4, <1>6 DEF LayerTypeOK
<1>8. PanelHeard'
  BY <1>4, <1>6, <1>7 DEF PanelHeard
<1>9. [Next]_vars
  <2>1. OnScreen \subseteq Emerged
    BY <1>1, HeardHasEmerged DEF PanelHeard
  <2>2. CASE UNCHANGED channels
    BY <2>2 DEF vars
  <2>3. CASE \E e \in OnScreen : Report(e)
    BY <2>1, <2>3, ReportIsACommand
  <2> QED BY <1>6, <2>2, <2>3
<1> QED BY <1>8, <1>9

LEMMA RestoringHears ==
  ASSUME TypeOK, PanelHeard, NEW p \in Pill, RestoreStashed(p), UNCHANGED serviceVars
  PROVE  PanelHeard' /\ [Next]_vars
<1> DEFINE kept == Without(stash, p)
<1>1. /\ LayerTypeOK /\ bus \in Seq(Event) /\ MaxStashed \in Nat
      /\ stash \in Seq(Pill) /\ Len(stash) <= MaxStashed
  BY LayerAssumption DEF PanelHeard, LayerTypeOK, TypeOK, ChannelsTypeOK
<1>2. /\ p \in ToSet(stash) /\ Appear(p, kept) /\ UNCHANGED <<read, listening, opened, hovered>>
  BY DEF RestoreStashed
<1>3. bus' = bus
  BY <1>2 DEF Appear, Evict, Report, Invoke, channels
<1>4. kept \in Seq(Pill) /\ Len(kept) <= Len(stash) /\ ToSet(kept) \subseteq ToSet(stash)
  BY <1>1, TakingOut
<1> HIDE DEF kept
<1>5. Len(kept) <= MaxStashed
  BY <1>1, <1>4
<1>6. /\ shown' = shown \cup {p} /\ shown' \subseteq Pill
      /\ visible' \in Seq(Pill) /\ Len(visible') <= MaxOnScreen
      /\ stash' \in Seq(Pill) /\ Len(stash') <= MaxStashed
      /\ OnScreen' \subseteq OnScreen \cup {p}
      /\ ToSet(stash') \subseteq ToSet(kept) \cup OnScreen
      /\ engaged' \subseteq engaged
      /\ (UNCHANGED channels) \/ \E e \in OnScreen : Report(e)
  BY <1>1, <1>2, <1>4, <1>5, Appearing
<1>7. LayerTypeOK'
  BY <1>1, <1>2, <1>3, <1>6 DEF LayerTypeOK
<1>8. Heard' = Heard
  BY <1>2, <1>3 DEF Heard
<1>9. PanelHeard'
  BY <1>2, <1>4, <1>6, <1>7, <1>8 DEF PanelHeard
<1>10. [Next]_vars
  <2>1. OnScreen \subseteq Emerged
    BY <1>1, HeardHasEmerged DEF PanelHeard
  <2>2. CASE UNCHANGED channels
    BY <2>2 DEF vars
  <2>3. CASE \E e \in OnScreen : Report(e)
    BY <2>1, <2>3, ReportIsACommand
  <2> QED BY <1>6, <2>2, <2>3
<1> QED BY <1>9, <1>10

(* Every step of the panel is one the service allows its window, and the   *)
(* panel goes on holding only what it was told of.                         *)
LEMMA PanelStepHears ==
  ASSUME TypeOK, PanelHeard, PanelStep
  PROVE  PanelHeard' /\ [Next]_vars
<1>1. /\ LayerTypeOK /\ bus \in Seq(Event) /\ visible \in Seq(Pill) /\ Len(visible) <= MaxOnScreen
      /\ MaxOnScreen \in Nat \ {0}
  BY LayerAssumption DEF PanelHeard, LayerTypeOK, TypeOK, ChannelsTypeOK
<1>2. LayerNext /\ UNCHANGED serviceVars
  BY DEF PanelStep
<1>3. CASE HearEmerged
  BY <1>2, <1>3, HearEmergedHears
<1>4. ASSUME NEW p \in Pill, RestoreStashed(p) PROVE PanelHeard' /\ [Next]_vars
  BY <1>2, <1>4, RestoringHears
<1>5. ASSUME UNCHANGED channels PROVE bus' = bus /\ [Next]_vars
  BY <1>2, <1>5 DEF channels, vars
<1>6. CASE HearDismissed
  <2>1. /\ UNCHANGED channels /\ read < Len(bus) /\ read' = read + 1
        /\ visible' = Without(visible, Delivered.pill)
        /\ UNCHANGED <<listening, stash, engaged, opened, hovered, shown>>
    BY <1>6 DEF HearDismissed
  <2>2. Heard \subseteq Heard' /\ read' \in 0..Len(bus')
    BY <1>1, <1>5, <2>1, Hearing
  <2>3. /\ visible' \in Seq(Pill) /\ Len(visible') <= Len(visible) /\ OnScreen' \subseteq OnScreen
    BY <1>1, <2>1, TakingOut DEF OnScreen
  <2>4. LayerTypeOK'
    <3>1. Len(visible') <= MaxOnScreen
      BY <1>1, <2>3
    <3> QED BY <1>1, <2>1, <2>2, <2>3, <3>1 DEF LayerTypeOK
  <2> QED BY <1>5, <2>1, <2>2, <2>3, <2>4 DEF PanelHeard
<1>7. CASE MissEvent
  <2>1. /\ UNCHANGED channels /\ read < Len(bus) /\ read' = read + 1 /\ UNCHANGED listening
        /\ UNCHANGED <<visible, stash, engaged, opened, hovered, shown>>
    BY <1>7 DEF MissEvent, panelVars
  <2>2. Heard \subseteq Heard' /\ read' \in 0..Len(bus')
    BY <1>1, <1>5, <2>1, Hearing
  <2> QED BY <1>5, <2>1, <2>2 DEF PanelHeard, LayerTypeOK, OnScreen
<1>8. CASE \/ Listen
           \/ \E p \in Pill : \/ ClickCapsule(p) \/ ClosePanel(p) \/ EnterPanel(p)
                              \/ LeavePanel(p) \/ HoverTimer(p)
  <2>1. /\ UNCHANGED channels /\ UNCHANGED <<read, visible, stash, shown>>
        /\ listening' \in BOOLEAN /\ {engaged', opened', hovered'} \subseteq SUBSET Pill
    BY <1>1, <1>8 DEF LayerTypeOK, Listen, ClickCapsule, ClosePanel, EnterPanel, LeavePanel,
                      HoverTimer, panelVars
  <2>2. bus' = bus /\ Heard' = Heard /\ OnScreen' = OnScreen
    BY <1>5, <2>1 DEF Heard, OnScreen
  <2> QED BY <1>5, <2>1, <2>2 DEF PanelHeard, LayerTypeOK
<1>9. CASE SwitchScene
  <2>1. /\ UNCHANGED channels /\ read' = read /\ listening' = FALSE
        /\ visible' = <<>> /\ stash' = <<>> /\ engaged' = {} /\ opened' = {}
        /\ hovered' = {} /\ shown' = {}
    BY <1>9 DEF SwitchScene
  <2>2. ToSet(<<>>) = {} /\ <<>> \in Seq(Pill) /\ Len(<<>>) = 0
    BY EmptySeq DEF ToSet
  <2>3. LayerTypeOK'
    <3>1. Len(<<>>) <= MaxOnScreen /\ Len(<<>>) <= MaxStashed
      BY LayerAssumption, <2>2
    <3> QED BY <1>1, <1>5, <2>1, <2>2, <3>1 DEF LayerTypeOK
  <2> QED BY <1>5, <2>1, <2>2, <2>3 DEF PanelHeard, OnScreen
<1> QED BY <1>2, <1>3, <1>4, <1>6, <1>7, <1>8, <1>9 DEF LayerNext

LEMMA SystemStepHears ==
  ASSUME TypeOK, PanelHeard, [SystemNext]_systemVars
  PROVE  TypeOK' /\ PanelHeard' /\ [Next]_vars
<1>1. CASE PanelStep
  BY <1>1, PanelStepHears, TypeStep
<1>2. CASE ServiceStep \/ WindowStep \/ UNCHANGED systemVars
  <2>1. [Next]_vars /\ UNCHANGED layerVars
    BY <1>2 DEF ServiceStep, WindowStep, systemVars, Next, WindowCommands
  <2>2. /\ TypeOK' /\ bus \in Seq(Event) /\ bus' \in Seq(Event) /\ Len(bus) <= Len(bus')
        /\ \A i \in 1..Len(bus) : bus'[i] = bus[i]
    BY <2>1, TypeStep, BusGrows DEF TypeOK, ChannelsTypeOK
  <2>3. UNCHANGED <<read, listening, visible, stash, engaged, opened, hovered, shown>>
    BY <2>1 DEF layerVars, panelVars
  <2>4. read \in 0..Len(bus) /\ read' \in 0..Len(bus')
    BY <2>2, <2>3 DEF PanelHeard, LayerTypeOK
  <2>5. Heard \subseteq Heard'
    BY <2>2, <2>3, <2>4, HearingGrows
  <2> QED BY <2>1, <2>2, <2>3, <2>4, <2>5 DEF PanelHeard, LayerTypeOK, OnScreen
<1> QED BY <1>1, <1>2 DEF SystemNext

LEMMA PanelHearsFirst == SystemInit => TypeOK /\ PanelHeard
<1> SUFFICES ASSUME SystemInit PROVE TypeOK /\ PanelHeard
  OBVIOUS
<1>1. TypeOK /\ Init /\ LayerInit
  BY InitType DEF SystemInit
<1>2. ToSet(<<>>) = {} /\ <<>> \in Seq(Pill) /\ Len(<<>>) = 0
  BY EmptySeq DEF ToSet
<1>3. Len(<<>>) <= MaxOnScreen /\ Len(<<>>) <= MaxStashed
  BY LayerAssumption, <1>2
<1>4. read \in 0..Len(bus)
  BY <1>1 DEF LayerInit, TypeOK, ChannelsTypeOK
<1>5. /\ listening = FALSE /\ visible = <<>> /\ stash = <<>> /\ engaged = {} /\ opened = {}
      /\ hovered = {} /\ shown = {}
  BY <1>1 DEF LayerInit
<1>6. LayerTypeOK
  BY <1>2, <1>3, <1>4, <1>5 DEF LayerTypeOK
<1> QED BY <1>1, <1>2, <1>5, <1>6 DEF PanelHeard, OnScreen

LEMMA PanelHearsAlways == SystemSpec => [](TypeOK /\ PanelHeard)
<1>1. TypeOK /\ PanelHeard /\ [SystemNext]_systemVars => (TypeOK /\ PanelHeard)'
  BY SystemStepHears
<1> QED BY <1>1, PanelHearsFirst, PTL DEF SystemSpec

(* The panel, the editor, the settings and the project switcher are a      *)
(* window that the service allows for: whatever holds of the service with  *)
(* any window holds of the two together.                                   *)
THEOREM WindowIsAllowed == SystemSpec => IsAService
<1>1. SystemInit => Init
  BY DEF SystemInit
<1>2. TypeOK /\ PanelHeard /\ [SystemNext]_systemVars => [Next]_vars
  BY SystemStepHears
<1> QED BY <1>1, <1>2, PanelHearsAlways, PTL DEF SystemSpec, IsAService, Spec

-----------------------------------------------------------------------------
(* What the panel promises.  A pill the window is told of next is on       *)
(* neither list, and a pill that is dismissed is on neither, because it is *)
(* announced once.                                                         *)
LEMMA NextIsNew ==
  ASSUME TypeOK, PanelHeard, AnnouncedOnce, read < Len(bus)
  PROVE  /\ Delivered.pill \notin Heard /\ Delivered \in Event
         /\ Delivered.pill \notin OnScreen \cup ToSet(stash) \cup shown
<1>1. bus \in Seq(Event) /\ read \in Nat /\ DOMAIN bus = 1..Len(bus)
  BY DEF TypeOK, ChannelsTypeOK, PanelHeard, LayerTypeOK
<1>2. read + 1 \in 1..Len(bus) /\ 1..read \subseteq 1..Len(bus) /\ read + 1 \notin 1..read
  BY <1>1
<1>3. Delivered.pill \notin Heard
  BY <1>1, <1>2 DEF Delivered, AnnouncedOnce, Heard, HeardOf
<1>4. Delivered \in Event
  BY <1>1, <1>2 DEF Delivered
<1> QED BY <1>3, <1>4 DEF PanelHeard

OnePlaceEach ==
    /\ IsInjective(visible) /\ IsInjective(stash)
    /\ OnScreen \cap ToSet(stash) = {}

LEMMA OnePlaceIsEach == ASSUME LayerTypeOK PROVE ShownInOnePlace <=> OnePlaceEach
BY InOnePlace DEF LayerTypeOK, ShownInOnePlace, OnePlaceEach, OnScreen

(* What a step of the panel does to the pills on screen: it shows each in  *)
(* one place still, and one that leaves was reported, and stashed if it    *)
(* was engaged, unless the whole panel went.                               *)
WhoLeavesIsReported ==
    \/ shown' = {}
    \/ /\ shown' \subseteq shown \cup OnScreen'
       /\ \A e \in OnScreen \ OnScreen' :
             /\ Report(e)
             /\ e \in engaged => e \in ToSet(stash')

LEMMA AppearingKeeps ==
  ASSUME LayerTypeOK, NEW p \in Pill, NEW kept \in Seq(Pill), Len(kept) <= MaxStashed,
         IsInjective(visible), IsInjective(kept), p \notin OnScreen \cup ToSet(kept),
         OnScreen \cap ToSet(kept) = {}, Appear(p, kept)
  PROVE  OnePlaceEach' /\ WhoLeavesIsReported
<1>1. /\ shown' = shown \cup {p} /\ p \in OnScreen'
      /\ IsInjective(visible') /\ IsInjective(stash') /\ OnScreen' \cap ToSet(stash') = {}
      /\ \A e \in OnScreen \ OnScreen' : Report(e) /\ (e \in engaged => e \in ToSet(stash'))
  BY Appearing
<1> QED BY <1>1 DEF OnePlaceEach, WhoLeavesIsReported

LEMMA PanelKeepsPlaces ==
  ASSUME TypeOK, PanelHeard, AnnouncedOnce, OnePlaceEach, LayerNext
  PROVE  OnePlaceEach' /\ WhoLeavesIsReported
<1>1. /\ LayerTypeOK /\ visible \in Seq(Pill) /\ stash \in Seq(Pill)
      /\ Len(stash) <= MaxStashed /\ MaxStashed \in Nat /\ Len(stash) \in Nat
  BY LayerAssumption DEF PanelHeard, LayerTypeOK
<1>2. CASE HearEmerged
  <2>1. read < Len(bus) /\ Appear(Delivered.pill, stash)
    BY <1>2 DEF HearEmerged
  <2>2. Delivered.pill \in Pill /\ Delivered.pill \notin OnScreen \cup ToSet(stash)
    BY <2>1, NextIsNew DEF Event
  <2> QED BY <1>1, <2>1, <2>2, AppearingKeeps DEF OnePlaceEach
<1>3. ASSUME NEW p \in Pill, RestoreStashed(p) PROVE OnePlaceEach' /\ WhoLeavesIsReported
  <2> DEFINE kept == Without(stash, p)
  <2>1. p \in ToSet(stash) /\ Appear(p, kept)
    BY <1>3 DEF RestoreStashed
  <2>2. /\ kept \in Seq(Pill) /\ Len(kept) <= Len(stash) /\ ToSet(kept) \subseteq ToSet(stash)
        /\ IsInjective(kept) /\ p \notin ToSet(kept)
    BY <1>1, TakingOut DEF OnePlaceEach
  <2> HIDE DEF kept
  <2>3. /\ Len(kept) <= MaxStashed /\ p \notin OnScreen \cup ToSet(kept)
        /\ OnScreen \cap ToSet(kept) = {} /\ IsInjective(visible)
    BY <1>1, <2>1, <2>2 DEF OnePlaceEach
  <2> QED BY <1>1, <2>1, <2>2, <2>3, AppearingKeeps
<1>4. CASE HearDismissed
  <2>1. /\ read < Len(bus) /\ visible' = Without(visible, Delivered.pill)
        /\ UNCHANGED <<stash, shown>>
    BY <1>4 DEF HearDismissed
  <2>2. Delivered.pill \notin ToSet(visible)
    BY <2>1, NextIsNew DEF OnScreen
  <2>3. visible' = visible
    BY <2>1, <2>2 DEF Without
  <2> QED BY <2>1, <2>3 DEF OnePlaceEach, WhoLeavesIsReported, OnScreen
<1>5. CASE \/ MissEvent \/ Listen
           \/ \E p \in Pill : \/ ClickCapsule(p) \/ ClosePanel(p) \/ EnterPanel(p)
                              \/ LeavePanel(p) \/ HoverTimer(p)
  <2>1. UNCHANGED <<visible, stash, shown>>
    BY <1>5 DEF MissEvent, Listen, ClickCapsule, ClosePanel, EnterPanel, LeavePanel,
                HoverTimer, panelVars
  <2> QED BY <2>1 DEF OnePlaceEach, WhoLeavesIsReported, OnScreen
<1>6. CASE SwitchScene
  <2>1. visible' = <<>> /\ stash' = <<>> /\ shown' = {}
    BY <1>6 DEF SwitchScene
  <2>2. ToSet(<<>>) = {} /\ IsInjective(<<>>)
    BY DEF ToSet, IsInjective
  <2> QED BY <2>1, <2>2 DEF OnePlaceEach, WhoLeavesIsReported, OnScreen
<1> QED BY <1>2, <1>3, <1>4, <1>5, <1>6 DEF LayerNext

LEMMA StepKeepsPlaces ==
  ASSUME TypeOK, PanelHeard, AnnouncedOnce, OnePlaceEach, [SystemNext]_systemVars
  PROVE  OnePlaceEach' /\ WhoLeavesIsReported
<1>1. CASE PanelStep
  BY <1>1, PanelKeepsPlaces DEF PanelStep
<1>2. CASE ServiceStep \/ WindowStep \/ UNCHANGED systemVars
  <2>1. UNCHANGED <<visible, stash, shown>>
    BY <1>2 DEF ServiceStep, WindowStep, systemVars, layerVars, panelVars
  <2> QED BY <2>1 DEF OnePlaceEach, WhoLeavesIsReported, OnScreen
<1> QED BY <1>1, <1>2 DEF SystemNext

LEMMA PlacesAlways == SystemSpec => []OnePlaceEach
<1>1. SystemInit => OnePlaceEach
  BY DEF SystemInit, LayerInit, OnePlaceEach, OnScreen, ToSet, IsInjective
<1>2. TypeOK /\ PanelHeard /\ AnnouncedOnce /\ OnePlaceEach /\ [SystemNext]_systemVars
        => OnePlaceEach'
  BY StepKeepsPlaces
<1>3. SystemSpec => []AnnouncedOnce
  BY WindowIsAllowed, NothingIsAnnouncedTwice, PTL DEF IsAService
<1> QED BY <1>1, <1>2, <1>3, PanelHearsAlways, PTL DEF SystemSpec

(* The panel shows no pill twice, whatever was evicted, stashed, recalled  *)
(* and dismissed in between, and an engaged pill leaves the screen only    *)
(* for the stash, or with the whole panel.                                 *)
THEOREM PanelsKeepTheirPills == SystemSpec => PanelKeepsItsPills
<1>1. PanelHeard /\ OnePlaceEach => LayerTypeOK /\ ShownInOnePlace
  BY OnePlaceIsEach DEF PanelHeard
<1>2. TypeOK /\ PanelHeard /\ AnnouncedOnce /\ OnePlaceEach /\ [SystemNext]_systemVars
        => [\A p \in OnScreen \cap engaged :
               p \in OnScreen' \cup ToSet(stash') \/ shown' = {}]_systemVars
  BY StepKeepsPlaces DEF WhoLeavesIsReported
<1>3. SystemSpec => []AnnouncedOnce
  BY WindowIsAllowed, NothingIsAnnouncedTwice, PTL DEF IsAService
<1> QED BY <1>1, <1>2, <1>3, PlacesAlways, PanelHearsAlways, PTL
        DEF SystemSpec, PanelKeepsItsPills, EngagedPillsAreKept

-----------------------------------------------------------------------------
(* What leaves the screen is reported, and the report arrives.             *)
Sent == invoked \cup ToSet(inbox)

LEMMA FlightIsSent == ASSUME TypeOK, NEW r PROVE InFlight(r) <=> r \in Sent
BY Places DEF TypeOK, ChannelsTypeOK, InFlight, Sent

LEMMA OpenIsSent ==
  ASSUME TypeOK PROVE ProjectOpen <=> running /\ \A r \in Sent : r.kind # "shutdown"
BY DEF ProjectOpen, Sent, ToSet

(* A request on its way stays on its way until it is served, and the       *)
(* outcome of a pill is served by settling its attribution.                *)
LEMMA RequestsAreServed ==
  ASSUME TypeOK, [Next]_vars, running', NEW r \in Sent
  PROVE  /\ running
         /\ \/ r \in Sent'
            \/ /\ r.kind # "shutdown"
               /\ r.kind = "outcome" =>
                     r.signal = "click" \/ attribution'[r.pill] = NoAttribution
<1>1. inbox \in Seq(Request) /\ invoked \subseteq Request
  BY DEF TypeOK, ChannelsTypeOK
<1>2. CASE inbox' = inbox /\ invoked \subseteq invoked' /\ running' = running
  BY <1>2 DEF Sent
<1>3. ASSUME NEW q \in Offered, DeliverRequest(q)
      PROVE  running /\ r \in Sent'
  <2>1. running /\ inbox' = Append(inbox, q) /\ invoked' = invoked \ {q} /\ q \in Request
    BY <1>1, <1>3 DEF DeliverRequest, Deliver
  <2>2. ToSet(inbox') = ToSet(inbox) \cup {q}
    BY <1>1, <2>1, Arriving
  <2> QED BY <2>1, <2>2 DEF Sent
<1>4. ASSUME NEW k, Take(k)
      PROVE  running /\ (r \in Sent' \/ r = Head(inbox)) /\ Head(inbox).kind = k
  <2>1. /\ running /\ inbox # <<>> /\ inbox' = Tail(inbox) /\ invoked' = invoked
        /\ Head(inbox).kind = k
    BY <1>4 DEF Take
  <2>2. ToSet(inbox) = ToSet(inbox') \cup {Head(inbox)}
    BY <1>1, <2>1, Leaving
  <2> QED BY <2>1, <2>2 DEF Sent
<1>5. ASSUME NEW k \in {"telemetry", "reset", "scene"}, Take(k)
      PROVE  running /\ (r \in Sent' \/ r.kind \notin {"shutdown", "outcome"})
  BY <1>4, <1>5
<1>6. CASE OutcomeClick
  <2>1. Take("outcome") /\ Head(inbox).signal = "click"
    BY <1>6 DEF OutcomeClick
  <2> QED BY <1>4, <2>1
<1>7. CASE OutcomeTerminal
  <2>1. /\ Take("outcome")
        /\ attribution' = [attribution EXCEPT ![Head(inbox).pill] = NoAttribution]
    BY <1>7 DEF OutcomeTerminal, CloseAttribution
  <2>2. Head(inbox).pill \in DOMAIN attribution
    BY <2>1, TakeType DEF OutcomeRequest, TypeOK
  <2>3. attribution'[Head(inbox).pill] = NoAttribution
    BY <2>1, <2>2
  <2> QED BY <1>4, <2>1, <2>3
<1>8. CASE OutcomeUnknown
  <2>1. Take("outcome") /\ attribution'[Head(inbox).pill] = NoAttribution
    BY <1>8 DEF OutcomeUnknown, serviceVars
  <2> QED BY <1>4, <2>1
<1>9. CASE Shutdown
  BY <1>9 DEF Shutdown
<1>10. CASE WindowCommands \/ ConfirmationDrops \/ LockDatabase \/ UnlockDatabase \/ Elapse
            \/ UNCHANGED vars \/ \E p \in Pill : Answered(p)
  <2>1. inbox' = inbox /\ invoked \subseteq invoked' /\ running' = running
    BY <1>10 DEF WindowCommands, InvokeTelemetry, InvokeSceneState, InvokeReset, CloseProject,
          InvokeOutcome, Invoke, ConfirmationDrops, LockDatabase, UnlockDatabase, Elapse, vars,
          channels, Answered, PillSpeaks, PillFallsSilent, Answer
  <2> QED BY <1>2, <2>1
<1>11. CASE \E p \in Pill, s \in Speaker : ConfirmationMints(p, s)
  <2>1. inbox' = inbox /\ invoked' = invoked /\ running' = running
    BY <1>11 DEF ConfirmationMints, Mint
  <2> QED BY <1>2, <2>1
<1>12. CASE \/ TickPasses \/ \E t \in Trigger : TickAsks(t)
            \/ \E p \in Pill, t \in Trigger, s \in Speaker : TickMints(p, t, s)
            \/ ResetLearning \/ ResetGivenUp \/ SceneState
  <2>1. \E k \in {"telemetry", "reset", "scene"} : Take(k)
    BY <1>12 DEF TickPasses, TickAsks, TickMints, ResetLearning, ResetGivenUp, SceneState
  <2> QED BY <1>5, <2>1
<1> QED
  BY <1>3, <1>6, <1>7, <1>8, <1>9, <1>10, <1>11, <1>12 DEF Next, ServiceNext, Serve, Confirmed

(* The loop that has ended does not start again.                           *)
LEMMA RunningStays == ASSUME [Next]_vars, running' PROVE running
BY DEF vars, channels, serviceVars, Next, ServiceNext, Serve, Confirmed, Take, Answered,
      PillSpeaks, PillFallsSilent, Answer, DeliverRequest, Deliver, TickPasses, TickAsks, TickMints,
      OutcomeClick, OutcomeTerminal, OutcomeUnknown, ResetLearning, ResetGivenUp,
      SceneState, Shutdown, ConfirmationDrops, ConfirmationMints, Mint, LockDatabase,
      UnlockDatabase, Elapse, WindowCommands, InvokeTelemetry, InvokeSceneState,
      InvokeReset, CloseProject, InvokeOutcome, Invoke

(* Once a project was closed it stays closed.                              *)
LEMMA ClosedStaysClosed == ASSUME TypeOK, [Next]_vars, ProjectOpen' PROVE ProjectOpen
<1>1. running' /\ \A r \in Sent' : r.kind # "shutdown"
  BY TypeStep DEF ProjectOpen, Sent, ToSet
<1>2. running
  BY <1>1, RunningStays
<1>3. \A r \in Sent : r.kind # "shutdown"
  BY <1>1, RequestsAreServed
<1> QED BY <1>2, <1>3, OpenIsSent

LEMMA ReportsStay ==
  ASSUME TypeOK, PanelHeard, AnnouncedOnce, OnePlaceEach, LearningInv, LeftPillsAreReported,
         [SystemNext]_systemVars
  PROVE  LeftPillsAreReported'
<1>1. TypeOK' /\ [Next]_vars /\ WhoLeavesIsReported
  BY SystemStepHears, StepKeepsPlaces
<1> SUFFICES ASSUME ProjectOpen', NEW p \in shown' \ OnScreen', attribution'[p] # NoAttribution
             PROVE  InFlight(Outcome(p, "evict"))'
  BY DEF LeftPillsAreReported
<1> DEFINE o == Outcome(p, "evict")
<1>2. ProjectOpen /\ running'
  BY <1>1, ClosedStaysClosed DEF ProjectOpen
<1>3. /\ p \in shown
      /\ p \notin OnScreen \/ Report(p)
  BY <1>1 DEF WhoLeavesIsReported
<1>4. p \in Pill /\ pills[p] # Unminted
  <2>1. p \in Heard /\ p \in Pill
    BY <1>3 DEF PanelHeard, LayerTypeOK
  <2>2. PICK i \in 1..read : bus[i].pill = p
    BY <2>1 DEF Heard, HeardOf
  <2>3. i \in DOMAIN bus
    BY <2>2 DEF PanelHeard, LayerTypeOK, TypeOK, ChannelsTypeOK
  <2> QED BY <2>1, <2>2, <2>3 DEF AnnouncedOnce, Minted
<1>5. attribution[p] # NoAttribution
  BY <1>1, <1>4, AttributionsStay DEF AttributionStep
<1>6. o.kind = "outcome" /\ o.pill = p /\ o.signal = "evict"
  BY DEF Outcome
<1>7. CASE p \notin OnScreen
  <2>1. o \in Sent
    BY <1>2, <1>3, <1>5, <1>7, FlightIsSent DEF LeftPillsAreReported
  <2> HIDE DEF o
  <2>2. o \in Sent'
    BY <1>1, <1>2, <1>6, <2>1, RequestsAreServed
  <2> QED BY <2>2 DEF InFlight, Sent, ToSet, o
<1>8. CASE Report(p)
  <2>1. CASE Invoke(o)
    BY <2>1 DEF Invoke, InFlight
  <2>2. CASE ~ProjectOpen
    BY <1>2, <2>2
  <2> QED BY <1>8, <2>1, <2>2 DEF Report
<1> QED BY <1>3, <1>7, <1>8

(* No pill the panel showed keeps an open attribution once it left the     *)
(* screen: its eviction is on the way or was served, for as long as the    *)
(* project is open.                                                        *)
THEOREM EvictionsAreReported == SystemSpec => []LeftPillsAreReported
<1>1. SystemInit => LeftPillsAreReported
  BY DEF SystemInit, LayerInit, LeftPillsAreReported
<1>2. TypeOK /\ PanelHeard /\ AnnouncedOnce /\ OnePlaceEach /\ LearningInv
        /\ LeftPillsAreReported /\ [SystemNext]_systemVars => LeftPillsAreReported'
  BY ReportsStay
<1>3. SystemSpec => [](AnnouncedOnce /\ LearningInv)
  BY WindowIsAllowed, NothingIsAnnouncedTwice, LearningInductive, PTL DEF IsAService
<1> QED BY <1>1, <1>2, <1>3, PlacesAlways, PanelHearsAlways, PTL DEF SystemSpec
=============================================================================
