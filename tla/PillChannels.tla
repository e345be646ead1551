---------------------------- MODULE PillChannels ----------------------------
(***************************************************************************)
(* What lies between the renderer and the orchestrator service of an open  *)
(* project.                                                                *)
(*                                                                         *)
(*   invoked  Tauri commands the renderer has invoked and whose handler    *)
(*            has not sent its request yet.  Every command is an async     *)
(*            task of its own: two invocations may reach the channel in    *)
(*            either order, so this is a set.                              *)
(*   inbox    the bounded mpsc channel of OrchestratorRequest; the service *)
(*            loop is its only receiver.                                   *)
(*   bus      the application events emitted towards the window, in the    *)
(*            order of their emission.                                     *)
(*   running  the loop is alive: it holds the channel's receiver.          *)
(*                                                                         *)
(* Requests are records with a kind; only the fields some handler of these *)
(* modules reads are kept (the text of a scene or of a paragraph is not).  *)
(***************************************************************************)
EXTENDS Naturals, Sequences, FiniteSets

CONSTANTS
    Pill,       \* identities a session can mint (Id::new)
    Scene,      \* scenes of the project
    InboxCap,   \* depth of the request channel: 64 in the code
    MaxInFlight,    \* bound: commands in flight at a time
    Offered         \* bound: the requests the window may make

ASSUME InboxCapAssumption ==
    /\ InboxCap \in Nat \ {0}
    /\ MaxInFlight \in Nat

VARIABLES invoked, inbox, bus, running

channels == <<invoked, inbox, bus, running>>

(* WriterMode: the writer's state, classified from a telemetry tick.       *)
Mode == {"pour", "reflect"}

(* OutcomeSignal: what a command reports about one pill.                   *)
Signal == {"click", "pin", "dismiss", "evict"}

TelemetryRequest == [kind: {"telemetry"}, atBoundary: BOOLEAN, mode: Mode]
SceneRequest     == [kind: {"scene"}, scene: Scene]
OutcomeRequest   == [kind: {"outcome"}, pill: Pill, signal: Signal]
PlainRequest     == [kind: {"reset", "shutdown"}]

Request == TelemetryRequest \cup SceneRequest \cup OutcomeRequest
             \cup PlainRequest

Outcome(p, s) == [kind |-> "outcome", pill |-> p, signal |-> s]

Event == [kind: {"emerged", "dismissed"}, pill: Pill]

ChannelsTypeOK ==
    /\ invoked \in SUBSET Request
    /\ inbox \in Seq(Request)
    /\ Len(inbox) <= InboxCap
    /\ bus \in Seq(Event)
    /\ running \in BOOLEAN

ChannelsInit ==
    /\ invoked = {}
    /\ inbox = <<>>
    /\ bus = <<>>
    /\ running = TRUE

(* The open project has a service whose handle a command can clone: not    *)
(* once close_project has taken it to send the shutdown.                   *)
ProjectOpen ==
    /\ running
    /\ \A r \in invoked \cup {inbox[i] : i \in DOMAIN inbox} :
            r.kind # "shutdown"

(* The window invokes a command that will send request r.  A command       *)
(* clones the handle of the open project first: once the project is taken  *)
(* no later command sends anything; those already invoked still do.        *)
Invoke(r) ==
    /\ r \in Offered
    /\ ProjectOpen
    /\ Cardinality(invoked) < MaxInFlight
    /\ invoked' = invoked \cup {r}
    /\ UNCHANGED <<inbox, bus, running>>

(* Mutant: an unbounded channel.                                           *)
DeliverUnbounded(r) ==
    /\ r \in invoked
    /\ invoked' = invoked \ {r}
    /\ inbox' = IF running THEN Append(inbox, r) ELSE inbox
    /\ UNCHANGED <<bus, running>>

(* A command reaches OrchestratorHandle::send, which waits while the       *)
(* channel is full and drops the request when the receiver is gone.        *)
Deliver(r) ==
    /\ r \in invoked
    /\ invoked' = invoked \ {r}
    /\ \/ /\ running
          /\ Len(inbox) < InboxCap
          /\ inbox' = Append(inbox, r)
       \/ /\ ~running
          /\ UNCHANGED inbox
    /\ UNCHANGED <<bus, running>>

(* emit(&app, name, payload).                                              *)
Emit(k, p) == bus' = Append(bus, [kind |-> k, pill |-> p])
=============================================================================
