----------------------------- MODULE Deepening -----------------------------
(***************************************************************************)
(* Deepening a pill: the panel asks for a first fan, the service plants a  *)
(* root and asks the model, a task of its own stores the children and      *)
(* announces them, and every open panel hears the announcement             *)
(* (DeepenPanel.tsx, orchestrator_service.rs, rabbit.rs).                  *)
(*                                                                         *)
(* A click starts a command that no one waits for: commands reach the      *)
(* channel of the service in any order, one loop serves them in the order  *)
(* they reached it, the answers of the model come back in any order.  A    *)
(* project is closed and opened again, which ends its panels, or opened    *)
(* over the open one, which leaves them; tasks that still wait for the     *)
(* model survive both, as in the program.                                  *)
(*                                                                         *)
(* The window never reads the table: contested and taken say when what it  *)
(* shows may differ from it, and nothing else looks at them.               *)
(***************************************************************************)
EXTENDS RabbitTree, Sequences

CONSTANTS
    Pill,           \* pills the writer may deepen; a root says its pill
    Fan,            \* tasks that ask the model for a fan
    MaxDepth,       \* bound: levels of a panel
    MaxInputs,      \* bound: panels and projects opened, clicks, crashes
    Closed, Pending, NoFan

ASSUME DeepeningAssumption == Message = Pill

(* A level waits for its children or shows them; a failed one shows none.  *)
Level == [parent: Thought \cup {None}, children: (SUBSET Thought) \cup {Pending}]

Stage == {"hearing ready", "calling", "called", "live"}
Timer == {"unarmed", "armed", "off"}
Panel == [path: Seq(Level), stage: Stage, timer: Timer, marked: SUBSET Thought]

(* Events are about the pill of a first fan that failed early, or about a  *)
(* thought.                                                                *)
Subject == Thought \cup Pill
DeepenEvent == [kind: {"ready", "failed"}, about: Subject, children: SUBSET Thought]

DeepenRequest ==
         [kind: {"pill"}, pill: Pill]
    \cup [kind: {"thought"}, thought: Thought]
    \cup [kind: {"mark"}, thought: Thought, on: BOOLEAN]

VARIABLES
    calls,          \* how many commands of each kind are under way
    inbox,          \* requests the loop has not read
    scene,          \* the service knows the scene that is open
    fan,            \* the parent each task asks children for
    events,         \* emitted, not yet heard by the window
    panel,          \* the open panels
    inputs,         \* panels and projects opened, clicks and crashes so far
    contested,      \* history: marks of which the last click may not last
    taken           \* history: thoughts the trims have taken

serviceVars == <<inbox, scene, fan, events>>
historyVars == <<contested, taken>>
deepVars == <<treeVars, serviceVars, panel, calls, inputs, historyVars>>

NoCalls == [r \in DeepenRequest |-> 0]

DeepInit ==
    /\ TreeInit
    /\ calls = NoCalls
    /\ inbox = <<>>
    /\ scene = FALSE
    /\ fan = [f \in Fan |-> NoFan]
    /\ events = <<>>
    /\ panel = [p \in Pill |-> Closed]
    /\ inputs = 0
    /\ contested = {} /\ taken = {}

Spend == inputs < MaxInputs /\ inputs' = inputs + 1

Announce(kind, about, children) ==
    events' = Append(events, [kind |-> kind, about |-> about, children |-> children])

-----------------------------------------------------------------------------
(* The service.                                                            *)

Ready(kind) == ~ Trimming /\ inbox # <<>> /\ Head(inbox).kind = kind

Taken == inbox' = Tail(inbox)

SceneState ==
    /\ ~ scene /\ scene' = TRUE
    /\ UNCHANGED <<treeVars, inbox, fan, events, panel, calls, inputs, historyVars>>

(* spawn_fan_4: no persona, no prompt or no router, or a task of its own.  *)
SpawnFan(p) ==
    \/ Announce("failed", p, {}) /\ UNCHANGED fan
    \/ /\ \E f \in Fan :
            /\ fan[f] = NoFan
            /\ \A g \in Fan : fan[g] = NoFan => f <= g
            /\ fan' = [fan EXCEPT ![f] = p]
       /\ UNCHANGED events

(* No scene, or the root cannot be stored.                                 *)
DeepenPillRefused ==
    /\ Ready("pill")
    /\ Taken
    /\ Announce("failed", Head(inbox).pill, {})
    /\ UNCHANGED <<treeVars, scene, fan, panel, calls, inputs, historyVars>>

DeepenPill ==
    /\ Ready("pill") /\ scene
    /\ Taken
    /\ InsertRoot(Head(inbox).pill)
    /\ SpawnFan(minted')
    /\ UNCHANGED <<scene, panel, calls, inputs, historyVars>>

DeepenThought ==
    /\ Ready("thought")
    /\ Taken
    /\ LET t == Head(inbox).thought IN
         IF t \in DOMAIN Seen THEN SpawnFan(t)
         ELSE Announce("failed", t, {}) /\ UNCHANGED fan
    /\ UNCHANGED <<treeVars, scene, panel, calls, inputs, historyVars>>

MarkThought ==
    /\ Ready("mark")
    /\ Taken
    /\ SetResonance(Head(inbox).thought, Head(inbox).on)
    /\ UNCHANGED <<scene, fan, events, panel, calls, inputs, historyVars>>

(* An UPDATE that fails is logged; no one tells the panel.                 *)
MarkFails ==
    /\ Ready("mark")
    /\ Taken
    /\ contested' = contested \cup {Head(inbox).thought}
    /\ UNCHANGED <<treeVars, scene, fan, events, panel, calls, inputs, taken>>

Serve == DeepenPillRefused \/ DeepenPill \/ DeepenThought \/ MarkThought \/ MarkFails

-----------------------------------------------------------------------------
(* The task of a fan.                                                      *)

FanEnds(f) ==
    /\ fan[f] # NoFan
    /\ fan' = [fan EXCEPT ![f] = NoFan]
    /\ UNCHANGED <<inbox, scene, panel, calls, inputs, historyVars>>

(* Mutant: the parent is not looked up again when the children are stored. *)
FanStoredUnchecked(f) ==
    /\ FanEnds(f)
    /\ ~ Trimming /\ minted < MaxThoughts
    /\ Store(With(Seen, Fresh(1),
                  [parent |-> fan[f], depth |-> 1, resonance |-> FALSE,
                   created |-> minted + 1, message |-> None]))
    /\ minted' = minted + 1 /\ UNCHANGED spared
    /\ Announce("ready", fan[f], Fresh(1))

FanStored(f) ==
    /\ FanEnds(f)
    /\ \E n \in 1 .. MaxFan : /\ InsertChildren(fan[f], n)
                              /\ Announce("ready", fan[f], Fresh(n))

(* No children in the answer: nothing is looked up or stored.              *)
FanEmpty(f) ==
    /\ FanEnds(f)
    /\ Announce("ready", fan[f], {})
    /\ UNCHANGED treeVars

(* The call fails, or its parent is gone, or no transaction can begin; the *)
(* mutant says nothing then.                                               *)
FanFailedSilently(f) ==
    /\ FanEnds(f)
    /\ UNCHANGED <<events, treeVars>>

FanFailed(f) ==
    /\ FanEnds(f)
    /\ Announce("failed", fan[f], {})
    /\ UNCHANGED treeVars

FanAnswers(f) == FanStored(f) \/ FanEmpty(f) \/ FanFailed(f)

-----------------------------------------------------------------------------
(* The panel.                                                              *)

Open(p) == panel[p] # Closed
LastOf(p) == panel[p].path[Len(panel[p].path)]
IsPending(p) == Open(p) /\ LastOf(p).children = Pending

Call(r) == calls' = [calls EXCEPT ![r] = @ + 1]

Asking(p) == [kind |-> "pill", pill |-> p]
Below(t) == [kind |-> "thought", thought |-> t]
Mark(t, on) == [kind |-> "mark", thought |-> t, on |-> on]

(* A command finds room in the channel, before or after any other.         *)
Deliver(r) ==
    /\ calls[r] > 0
    /\ calls' = [calls EXCEPT ![r] = @ - 1]
    /\ inbox' = Append(inbox, r)
    /\ UNCHANGED <<treeVars, scene, fan, events, panel, inputs, historyVars>>

OpenPanel(p) ==
    /\ panel[p] = Closed /\ Spend
    /\ panel' = [panel EXCEPT ![p] =
                   [path |-> <<[parent |-> None, children |-> Pending]>>,
                    stage |-> "hearing ready", timer |-> "unarmed", marked |-> {}]]
    /\ UNCHANGED <<treeVars, serviceVars, calls, historyVars>>

HearFailures(p) ==
    /\ Open(p) /\ panel[p].stage = "hearing ready"
    /\ panel' = [panel EXCEPT ![p].stage = "calling"]
    /\ UNCHANGED <<treeVars, serviceVars, calls, inputs, historyVars>>

(* The panel waits for this command, which lasts for the whole stage.      *)
CallDeepen(p) ==
    /\ Open(p) /\ panel[p].stage = "calling"
    /\ inbox' = Append(inbox, Asking(p))
    /\ panel' = [panel EXCEPT ![p].stage = "called"]
    /\ UNCHANGED <<treeVars, scene, fan, events, calls, inputs, historyVars>>

CallFails(p) ==
    /\ Open(p) /\ panel[p].stage = "calling"
    /\ panel' = [panel EXCEPT ![p].stage = "called",
                   ![p].path[Len(panel[p].path)].children = {}]
    /\ UNCHANGED <<treeVars, serviceVars, calls, inputs, historyVars>>

(* The safety timer is armed when the command has returned, whatever has   *)
(* been heard by then.                                                     *)
ArmTimer(p) ==
    /\ Open(p) /\ panel[p].stage = "called"
    /\ panel' = [panel EXCEPT ![p].stage = "live", ![p].timer = "armed"]
    /\ UNCHANGED <<treeVars, serviceVars, calls, inputs, historyVars>>

TimeOut(p) ==
    /\ Open(p) /\ panel[p].timer = "armed"
    /\ panel' = [panel EXCEPT ![p].timer = "off",
                   ![p].path[Len(panel[p].path)].children = IF @ = Pending THEN {} ELSE @]
    /\ UNCHANGED <<treeVars, serviceVars, calls, inputs, historyVars>>

Mount(p) == HearFailures(p) \/ CallDeepen(p) \/ CallFails(p) \/ ArmTimer(p)

(* The command of a panel that is gone goes on.                            *)
ClosePanel(p) ==
    /\ Open(p)
    /\ panel' = [panel EXCEPT ![p] = Closed]
    /\ IF panel[p].stage = "calling" THEN Call(Asking(p)) ELSE UNCHANGED calls
    /\ UNCHANGED <<treeVars, serviceVars, inputs, historyVars>>

(* Mutant: an answer about another thought is taken for the last level's.  *)
AnsweredAny(q, e) == q.path[Len(q.path)].children = Pending

(* An answer belongs to the last level when it is about its thought, or    *)
(* when that level has not been told yet which thought it is about.        *)
Answered(q, e) == q.path[Len(q.path)].parent \in {None, e.about}

LevelAfter(level, e) ==
    IF e.kind = "ready" THEN [parent |-> e.about, children |-> e.children]
                        ELSE [level EXCEPT !.children = {}]

(* Any event disarms the safety timer.                                     *)
Heard(q, e) ==
    IF e.kind = "failed" /\ q.stage = "hearing ready" THEN q
    ELSE LET last == Len(q.path) IN
         [q EXCEPT !.timer = IF @ = "armed" THEN "off" ELSE @,
                   !.path[last] = IF Answered(q, e) THEN LevelAfter(@, e) ELSE @]

HearEvent ==
    /\ events # <<>>
    /\ events' = Tail(events)
    /\ panel' = [p \in Pill |-> IF Open(p) THEN Heard(panel[p], Head(events)) ELSE Closed]
    /\ UNCHANGED <<treeVars, inbox, scene, fan, calls, inputs, historyVars>>

(* The writer clicks later than the two subscriptions take.                *)
CanClick(p, t) ==
    /\ Open(p) /\ panel[p].stage \in {"called", "live"}
    /\ ~ IsPending(p) /\ t \in LastOf(p).children

Descend(p, t) ==
    /\ CanClick(p, t)
    /\ Len(panel[p].path) < MaxDepth /\ Spend
    /\ panel' = [panel EXCEPT ![p].path =
                   Append(@, [parent |-> t, children |-> Pending])]
    /\ Call(Below(t))
    /\ UNCHANGED <<treeVars, serviceVars, historyVars>>

(* Esc, or a click on an ancestor.                                         *)
Ascend(p, level) ==
    /\ Open(p) /\ level \in 1 .. Len(panel[p].path) - 1
    /\ panel' = [panel EXCEPT ![p].path = SubSeq(@, 1, level)]
    /\ UNCHANGED <<treeVars, serviceVars, calls, inputs, historyVars>>

UnderWay(r) == calls[r] > 0 \/ \E i \in 1 .. Len(inbox) : inbox[i] = r

(* A click is contested when the opposite of it is under way, which may    *)
(* come last, and when it takes away what another panel still shows.       *)
Contested(p, t, on) ==
    \/ UnderWay(Mark(t, ~ on))
    \/ ~ on /\ \E q \in Pill \ {p} : Open(q) /\ t \in panel[q].marked

ToggleResonance(p, t) ==
    LET on == t \notin panel[p].marked
    IN  /\ CanClick(p, t)
        /\ Spend
        /\ panel' = [panel EXCEPT ![p].marked = SymDiff(@, {t})]
        /\ Call(Mark(t, on))
        /\ contested' = IF Contested(p, t, on) THEN contested \cup {t}
                                               ELSE contested \ {t}
        /\ UNCHANGED <<treeVars, serviceVars, taken>>

-----------------------------------------------------------------------------
(* Closing the project and opening it again: its panels are gone, and each *)
(* command under way finds the new project or none.  The connection lives  *)
(* as long as a task that uses it.  The trim is skipped when somebody      *)
(* holds the database.                                                     *)
Reopen ==
    /\ inbox = <<>> /\ events = <<>> /\ ~ Trimming
    /\ Spend
    /\ InTransaction => \A f \in Fan : fan[f] = NoFan
    /\ panel' = [p \in Pill |-> Closed]
    /\ \E lost \in SUBSET {r \in DeepenRequest : calls[r] > 0} :
         calls' = [r \in DeepenRequest |-> IF r \in lost THEN 0 ELSE calls[r]]
    /\ scene' = FALSE
    /\ Disconnect
    /\ UNCHANGED <<inbox, fan, events, historyVars>>

(* Opening it over the open one: the panels stay, and so does the old      *)
(* loop, with a connection of its own.  A command that still holds its     *)
(* handle is served like the others: their order is open anyway.           *)
ReopenOver ==
    /\ inbox = <<>> /\ ~ Trimming /\ ~ InTransaction
    /\ Spend
    /\ scene' = FALSE
    /\ UNCHANGED <<treeVars, inbox, fan, events, panel, calls, historyVars>>

Crash ==
    /\ Spend
    /\ panel' = [p \in Pill |-> Closed]
    /\ calls' = NoCalls
    /\ scene' = FALSE
    /\ inbox' = <<>> /\ events' = <<>>
    /\ fan' = [f \in Fan |-> NoFan]
    /\ Disconnect
    /\ UNCHANGED historyVars

TrimAtStart ==
    /\ inbox = <<>> /\ ~ scene
    /\ BeginTrim
    /\ UNCHANGED <<serviceVars, panel, calls, inputs, historyVars>>

Trim ==
    /\ TrimLeaf \/ CommitTrim \/ FailTrim
    /\ taken' = taken \cup (DOMAIN rows \ DOMAIN rows')
    /\ UNCHANGED <<serviceVars, panel, calls, inputs, contested>>

DeepNext ==
    \/ SceneState \/ Serve \/ HearEvent \/ TrimAtStart \/ Trim
    \/ Reopen \/ ReopenOver \/ Crash
    \/ \E r \in DeepenRequest : Deliver(r)
    \/ \E f \in Fan : FanAnswers(f)
    \/ \E p \in Pill : \/ OpenPanel(p) \/ Mount(p) \/ TimeOut(p) \/ ClosePanel(p)
                       \/ \E t \in Thought : Descend(p, t) \/ ToggleResonance(p, t)
                       \/ \E level \in 1 .. MaxDepth : Ascend(p, level)

DeepSpec == DeepInit /\ [][DeepNext]_deepVars

(* The loop and the mounting effect keep running, a command that waits for *)
(* room in the channel gets it, every call to the model has a timeout, the *)
(* window hears every event.                                               *)
FairDeepSpec ==
    /\ DeepSpec
    /\ WF_deepVars(Serve) /\ WF_deepVars(HearEvent) /\ WF_deepVars(Trim)
    /\ WF_deepVars(\E r \in DeepenRequest : Deliver(r))
    /\ \A f \in Fan : WF_deepVars(FanAnswers(f))
    /\ \A p \in Pill : WF_deepVars(Mount(p)) /\ WF_deepVars(TimeOut(p))

-----------------------------------------------------------------------------
DeepTypeOK ==
    /\ TreeTypeOK
    /\ calls \in [DeepenRequest -> Nat]
    /\ \A i \in 1 .. Len(inbox) : inbox[i] \in DeepenRequest
    /\ scene \in BOOLEAN
    /\ fan \in [Fan -> Thought \cup {NoFan}]
    /\ \A i \in 1 .. Len(events) : events[i] \in DeepenEvent
    /\ panel \in [Pill -> Panel \cup {Closed}]
    /\ contested \subseteq Thought /\ taken \subseteq Thought

(* The service and its panels use the store of thoughts as it is meant.    *)
UsesTheTree == TreeSpec

(* Below its first level a panel shows a chain of the tree: every level is *)
(* about a thought the level above shows, and shows stored children of it, *)
(* whatever was ascended from, asked twice or answered late (the parent_id *)
(* checks of the deepen:ready handler).  A trim that runs under an open    *)
(* panel may have taken some.                                              *)
Stored(t) == t \in DOMAIN rows

LevelsFollowTheTree ==
    \A p \in Pill : Open(p) =>
        \A i \in 1 .. Len(panel[p].path) :
            LET level == panel[p].path[i] IN
            /\ i > 1 => level.parent \in panel[p].path[i - 1].children
            /\ level.children # Pending =>
                 \A t \in level.children \ taken :
                     Stored(t) /\ rows[t].parent = level.parent

(* A mark the writer sees is the one in the table once no request about it *)
(* is under way, whatever was trimmed, reopened or clicked elsewhere,      *)
(* unless the last click was contested or an UPDATE failed: nothing orders *)
(* two commands, and the renderer never reads the tree, as the comment of  *)
(* on_set_rabbit_resonance supposes it does (toggleResonance).             *)
MarksAreKept ==
    \A p \in Pill : Open(p) =>
        \A t \in panel[p].marked \ contested :
            /\ Stored(t) \/ t \in taken
            /\ (\A on \in BOOLEAN : ~ UnderWay(Mark(t, on))) /\ t \in DOMAIN Seen
                 => Seen[t].resonance

(* What a panel shows is what the store of thoughts holds.                 *)
PanelsFollowTheTree == DeepTypeOK /\ LevelsFollowTheTree /\ MarksAreKept

(* No panel waits for ever: not for an early failure, a lost parent, a     *)
(* slow model or an answer heard before the timer was armed (the comments  *)
(* of on_deepen_pill and of the safety timer).                             *)
PanelsStopWaiting == \A p \in Pill : IsPending(p) ~> ~ IsPending(p)

(* What a panel shows under a pill was written about that pill.            *)
PanelShowsItsPill ==
    \A p \in Pill : Open(p) =>
        LET root == panel[p].path[1].parent IN
        root # None /\ Stored(root) => rows[root].message \in {None, p}
=============================================================================
