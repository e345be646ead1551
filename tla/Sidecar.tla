------------------------------ MODULE Sidecar ------------------------------
(***************************************************************************)
(* The analysis process of a project and those who watch it: the boot      *)
(* (Sidecar::spawn), the loop that asks for its health                     *)
(* (SidecarSupervisor::start), the task that forwards the status to the    *)
(* window, and close_project.  The process is killed when the last clone   *)
(* of its handle is dropped.  The supervisor waits for its interval or for *)
(* a stop, whichever comes first; a stop reaches it only while it waits.   *)
(*                                                                         *)
(* One session of a project; opening it again starts another one beside    *)
(* it.  Times are countdowns, in ticks.                                    *)
(***************************************************************************)
EXTENDS Naturals, Sequences, FiniteSets

CONSTANTS PollEvery,    \* the interval of the health polls
          Backoffs,     \* the pauses after one, two, ... failures in a row
          BootTime      \* boot_timeout

ASSUME SidecarAssumption ==
    /\ PollEvery \in Nat \ {0} /\ BootTime \in Nat
    /\ Backoffs \in Seq(Nat \ {0}) /\ Backoffs # <<>>

VARIABLES project,      \* "closed", "booting", "open", "closing"
          process,      \* "none", "starting", "silent", "answering", "dead"
          bootLeft,     \* what is left of the boot time
          holders,      \* who holds a clone of the handle
          watch,        \* the supervisor: where its loop is
          fails,        \* consecutive_failures, as far as the pauses tell
          dueIn,        \* ticks until the interval fires
          pauseLeft,    \* ticks of the pause after a failure
          told,         \* a stop has woken the wait that is under way
          stopAsked,    \* stop was called
          status,       \* the value in the watch channel
          unseen,       \* it was sent since the forwarder last looked
          forwarder,    \* "waiting", or "seen" a change and not emitted it
          shown,        \* the last status emitted to the window
          sinceLast     \* history: ticks since a poll began, up to PollEvery

sideVars == <<project, process, bootLeft, holders, watch, fails, dueIn, pauseLeft, told,
              stopAsked, status, unseen, forwarder, shown, sinceLast>>
supervisor == <<watch, fails, dueIn, pauseLeft, told, sinceLast>>
channel    == <<status, unseen, forwarder, shown>>
session    == <<project, bootLeft, stopAsked>>

Holder == {"boot", "project", "supervisor", "service", "analysis"}
Status == {"loading", "ready", "error"}

SideTypeOK ==
    /\ project \in {"closed", "booting", "open", "closing"}
    /\ process \in {"none", "starting", "silent", "answering", "dead"}
    /\ bootLeft \in 0..BootTime
    /\ holders \subseteq Holder
    /\ watch \in {"none", "waiting", "polling", "pausing", "ended"}
    /\ fails \in 0..Len(Backoffs)
    /\ dueIn \in 0..PollEvery
    /\ pauseLeft \in Nat
    /\ told \in BOOLEAN /\ stopAsked \in BOOLEAN /\ unseen \in BOOLEAN
    /\ status \in Status /\ shown \in Status
    /\ forwarder \in {"waiting", "seen"}
    /\ sinceLast \in 0..PollEvery

SideInit ==
    /\ project = "closed" /\ process = "none" /\ bootLeft = 0 /\ holders = {}
    /\ watch = "none" /\ fails = 0 /\ dueIn = 0 /\ pauseLeft = 0 /\ told = FALSE
    /\ stopAsked = FALSE
    /\ status = "loading" /\ unseen = FALSE /\ forwarder = "waiting" /\ shown = "loading"
    /\ sinceLast = PollEvery

-----------------------------------------------------------------------------
(* kill_on_drop: the process goes with the last of its holders. *)
Holding(who) ==
    /\ holders' = who
    /\ process' = IF who = {} /\ process # "none" THEN "dead" ELSE process

NoSidecar ==             \* uv or the workspace is not there
    /\ project = "closed"
    /\ project' = "open"
    /\ UNCHANGED <<process, bootLeft, holders, stopAsked, supervisor, channel>>

BootSidecar ==
    /\ project = "closed"
    /\ project' = "booting"
    /\ process' = "starting" /\ holders' = {"boot"}
    /\ bootLeft' = BootTime
    /\ UNCHANGED <<stopAsked, supervisor, channel>>

(* The process, from outside: it comes up, hangs, answers again, dies. *)
ProcessAnswers ==
    /\ process \in {"starting", "silent"}
    /\ process' = "answering"
    /\ UNCHANGED <<session, holders, supervisor, channel>>

ProcessHangs ==
    /\ process = "answering"
    /\ process' = "silent"
    /\ UNCHANGED <<session, holders, supervisor, channel>>

ProcessDies ==
    /\ process \in {"starting", "answering", "silent"}
    /\ process' = "dead"
    /\ UNCHANGED <<session, holders, supervisor, channel>>

(* /health has answered: the project, the supervisor and the service of    *)
(* the project share the handle.  The interval fires at once.              *)
BootSucceeds ==
    /\ project = "booting" /\ process = "answering"
    /\ project' = "open"
    /\ holders' = {"project", "supervisor", "service"}
    /\ watch' = "waiting" /\ dueIn' = 0
    /\ UNCHANGED <<process, bootLeft, stopAsked, fails, pauseLeft, told, sinceLast, channel>>

BootFails ==             \* out of time, or the process has closed its output
    /\ project = "booting"
    /\ bootLeft = 0 \/ process = "dead"
    /\ project' = "open"
    /\ Holding({})
    /\ UNCHANGED <<bootLeft, stopAsked, supervisor, channel>>

-----------------------------------------------------------------------------
(* MissedTickBehavior::Delay: the next tick counts from this one. *)
NextDue == PollEvery

PollBegins ==
    /\ watch = "waiting" /\ dueIn = 0
    /\ watch' = "polling"
    /\ dueIn' = NextDue
    /\ sinceLast' = 0
    /\ told' = FALSE     \* a stop that came in this wait is dropped with it
    /\ UNCHANGED <<session, process, holders, fails, pauseLeft, channel>>

SendUnnoticed(s) ==      \* a change that is not marked
    status' = s /\ UNCHANGED <<unseen, forwarder, shown>>

Send(s) == status' = s /\ unseen' = TRUE /\ UNCHANGED <<forwarder, shown>>

PollSucceeds ==
    /\ watch = "polling" /\ process = "answering"
    /\ watch' = "waiting"
    /\ fails' = 0
    /\ IF status # "ready" THEN Send("ready") ELSE UNCHANGED channel
    /\ UNCHANGED <<session, process, holders, dueIn, pauseLeft, told, sinceLast>>

Pause ==
    /\ fails' = IF fails < Len(Backoffs) THEN fails + 1 ELSE fails
    /\ pauseLeft' = Backoffs[fails']
    /\ watch' = "pausing"

PollFails ==
    /\ watch = "polling" /\ process # "answering"
    /\ Pause
    /\ Send("error")
    /\ UNCHANGED <<session, process, holders, dueIn, told, sinceLast>>

PauseEnds ==
    /\ watch = "pausing" /\ pauseLeft = 0
    /\ watch' = "waiting"
    /\ told' = FALSE
    /\ UNCHANGED <<session, process, holders, fails, dueIn, pauseLeft, sinceLast, channel>>

SupervisorEnds ==
    /\ told /\ watch \in {"waiting", "pausing"}
    /\ watch' = "ended" /\ told' = FALSE
    /\ Holding(holders \ {"supervisor"})
    /\ UNCHANGED <<session, fails, dueIn, pauseLeft, sinceLast, channel>>

(* The forwarder: changed() marks the value as seen, borrow() reads it. *)
ForwarderSees ==
    /\ forwarder = "waiting" /\ unseen
    /\ forwarder' = "seen" /\ unseen' = FALSE
    /\ UNCHANGED <<session, process, holders, supervisor, status, shown>>

ForwarderEmits ==
    /\ forwarder = "seen"
    /\ forwarder' = "waiting" /\ shown' = status
    /\ UNCHANGED <<session, process, holders, supervisor, status, unseen>>

-----------------------------------------------------------------------------
AnalysisBegins ==        \* maybe_kick_sidecar_analyze: the task has a clone
    /\ "service" \in holders
    /\ holders' = holders \cup {"analysis"}
    /\ UNCHANGED <<session, process, supervisor, channel>>

AnalysisEnds ==          \* with an answer or an error
    /\ "analysis" \in holders
    /\ Holding(holders \ {"analysis"})
    /\ UNCHANGED <<session, supervisor, channel>>

(* close_project: the Shutdown of the service, notify_waiters, and the     *)
(* clone of the project.                                                   *)
CloseSession ==
    /\ project = "open"
    /\ project' = "closing"
    /\ stopAsked' = (watch # "none")
    /\ told' = (watch \in {"waiting", "pausing"})
    /\ Holding(holders \ {"project"})
    /\ UNCHANGED <<bootLeft, watch, fails, dueIn, pauseLeft, sinceLast, channel>>

ServiceEnds ==
    /\ project = "closing" /\ "service" \in holders
    /\ Holding(holders \ {"service"})
    /\ UNCHANGED <<session, supervisor, channel>>

Less(n) == IF n = 0 THEN 0 ELSE n - 1
SideTick ==
    /\ project # "closed"
    /\ bootLeft' = Less(bootLeft) /\ dueIn' = Less(dueIn) /\ pauseLeft' = Less(pauseLeft)
    /\ sinceLast' = IF sinceLast < PollEvery THEN sinceLast + 1 ELSE sinceLast
    /\ UNCHANGED <<project, process, holders, watch, fails, told, stopAsked, channel>>

SideNext ==
    \/ NoSidecar \/ BootSidecar \/ BootSucceeds \/ BootFails
    \/ ProcessAnswers \/ ProcessHangs \/ ProcessDies
    \/ PollBegins \/ PollSucceeds \/ PollFails \/ PauseEnds \/ SupervisorEnds
    \/ ForwarderSees \/ ForwarderEmits
    \/ AnalysisBegins \/ AnalysisEnds \/ CloseSession \/ ServiceEnds
    \/ SideTick

SideSpec == SideInit /\ [][SideNext]_sideVars

-----------------------------------------------------------------------------
(* "The supervisor NEVER permanently gives up": whatever the process does, *)
(* and however long it is down, its loop ends for a stop only.             *)
NeverGivesUp == watch = "ended" => stopAsked

(* Health polls begin PollEvery apart at least, after a pause as well:     *)
(* nothing that was missed is made up for in a burst.                      *)
PollsAreSpaced == [][watch # "polling" /\ watch' = "polling" => sinceLast = PollEvery]_sideVars

(* The window is shown the last status, whatever came while the forwarder  *)
(* was between seeing a change and emitting it.                            *)
ShownIsCurrent == forwarder = "waiting" /\ ~unseen => shown = status

(* The supervisor's watch as the writer sees it: it does not end, it is in *)
(* no hurry, and its news arrive.                                          *)
SupervisorKeepsWatch ==
    [](SideTypeOK /\ NeverGivesUp /\ ShownIsCurrent) /\ PollsAreSpaced

-----------------------------------------------------------------------------
(* Documented, and not what the code does: a stop during a health call is *)
(* lost.  Once it was stopped the supervisor asks no more: "only           *)
(* stop() (or runtime shutdown) ends the loop".                            *)
StopEndsThePolls == [][stopAsked => ~(watch # "polling" /\ watch' = "polling")]_sideVars
=============================================================================
