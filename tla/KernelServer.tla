---------------------------- MODULE KernelServer ----------------------------
(***************************************************************************)
(* One /kernel WebSocket connection of openmat-server (websocket.rs): the  *)
(* connection thread, which reads frames, answers interrupts itself,       *)
(* drains worker events to the socket and finally stops the session, and   *)
(* the worker thread, which owns the kernel session of KernelSession.      *)
(*                                                                         *)
(* The threads share the bounded command channel (queue), the unbounded    *)
(* event channel (events), the stopping flag, and through the control      *)
(* handle the status and the cancellation token of the kernel.             *)
(***************************************************************************)
EXTENDS KernelSession

CONSTANTS
  Capacity,        \* MAX_PENDING_REQUESTS
  MaxBootstraps,   \* bound on the bootstrap frames of a client
  MaxInterrupts    \* bound on the interrupt frames of a client
ASSUME CapacityAssumption == Capacity \in Nat \ {0}
ASSUME ClientAssumption == MaxBootstraps \in Nat /\ MaxInterrupts \in Nat

VARIABLES
  session,         \* "none", "active", or "lost" when dropped before it was stored
  queue,           \* sync_channel of WorkerCommand
  events,          \* channel of WorkerEvent
  stopping,        \* ActiveSession.stopping
  wpc, cmd,        \* the worker thread and the command it received
  cpc,             \* the connection thread
  negotiatedHere,  \* ActiveSession.control and .protocol are Some
  shutdownQueued,  \* ActiveSession.shutdown_queued
  registered,      \* the graphics registry holds this session's entry
  sent,            \* history: number of requests handed to the worker
  boots, ints,     \* history: bootstrap and interrupt frames read
  out              \* history: the frames written to the socket

channels   == <<queue, events>>
worker     == <<wpc, cmd>>
connection == <<session, cpc, negotiatedHere, shutdownQueued, registered>>
record     == <<sent, boots, ints, out>>
vars == <<kernelVars, channels, stopping, worker, connection, record>>

NoFields(k) == [id |-> 0, kind |-> k, expected |-> 0]
BootstrapCommand == NoFields("bootstrap")
StopCommand == NoFields("stop")
\* The request orderly_stop makes up.
DisconnectShutdown == NoFields("shutdown")
Commands == Request \cup {BootstrapCommand, StopCommand}

\* WorkerEvent; negotiated says whether a bootstrap event carries a control.
WorkerEvents ==
  [type : {"started", "bootstrap", "messages", "failure"}, frames : Seq(Frames),
   execution : BOOLEAN, dead : BOOLEAN, negotiated : BOOLEAN]
Event(t, f) == [type |-> t, frames |-> f, execution |-> FALSE, dead |-> FALSE, negotiated |-> FALSE]
Started == Event("started", <<Frame("busy", 0)>>)
Failure == Event("failure", <<>>)
BootstrapEvent(f, ok) == [Event("bootstrap", f) EXCEPT !.negotiated = ok]
Messages(f, x, d) == [Event("messages", f) EXCEPT !.execution = x, !.dead = d]

Init ==
  /\ KernelInit
  /\ session = "none" /\ queue = <<>> /\ events = <<>> /\ stopping = FALSE
  /\ wpc = "none" /\ cmd = StopCommand
  /\ cpc = "read" /\ negotiatedHere = FALSE /\ shutdownQueued = FALSE
  /\ registered = FALSE /\ sent = 0 /\ boots = 0 /\ ints = 0 /\ out = <<>>
----------------------------------------------------------------------------
(* The worker thread: worker_loop, finish_worker_request, orderly_stop.    *)

\* commands.recv()
Receive ==
  /\ wpc = "recv" /\ queue # <<>>
  /\ cmd' = Head(queue) /\ queue' = Tail(queue)
  /\ wpc' = "check"
  /\ UNCHANGED <<kernelVars, events, stopping, connection, record>>

\* recv fails once the session that held the sender was dropped.
HangUp ==
  /\ wpc = "recv" /\ queue = <<>> /\ session = "lost"
  /\ wpc' = "exited"
  /\ UNCHANGED <<kernelVars, channels, stopping, cmd, connection, record>>

CheckStoppingNoShutdown ==
  /\ wpc = "check"
  /\ wpc' = CASE cmd.kind = "stop" -> "orderly"
              [] stopping /\ cmd.kind # "stop" -> "exited"
              [] ~stopping /\ cmd.kind = "bootstrap" -> "bootstrap"
              [] OTHER -> "handle"
  /\ UNCHANGED <<kernelVars, channels, stopping, cmd, connection, record>>

\* The stopping flag is loaded once, before the command is dispatched.
CheckStopping ==
  /\ wpc = "check"
  /\ wpc' = CASE stopping \/ cmd.kind = "stop" -> "orderly"
              [] ~stopping /\ cmd.kind = "bootstrap" -> "bootstrap"
              [] OTHER -> "handle"
  /\ UNCHANGED <<kernelVars, channels, stopping, cmd, connection, record>>

\* A bootstrap is answered, or fails the worker when the protocol is already
\* locked or the engine's capabilities do not encode.
WorkerBootstrap ==
  /\ wpc = "bootstrap"
  /\ \/ /\ \E p \in Protocols \cup {None} : Bootstrap(p)
        /\ wpc' = "bootstrapped"
        /\ UNCHANGED events
     \/ /\ wpc' = "exited"
        /\ events' = Append(events, Failure)
        /\ UNCHANGED kernelVars
  /\ UNCHANGED <<queue, stopping, cmd, connection, record>>

SendBootstrap ==
  /\ wpc = "bootstrapped"
  /\ TakeAnswer
  /\ events' = Append(events, BootstrapEvent(msgs, negotiated # None))
  /\ wpc' = "recv"
  /\ UNCHANGED <<queue, stopping, cmd, connection, record>>

\* KernelSession::handle, or handle_v*_frame, whose decoder may refuse.
WorkerHandle ==
  /\ wpc = "handle"
  /\ \/ /\ Handle(cmd)
        /\ wpc' = "kernel"
        /\ UNCHANGED events
     \/ /\ negotiated # "V0"
        /\ events' = Append(events, Failure)
        /\ wpc' = "orderly"
        /\ UNCHANGED kernelVars
  /\ UNCHANGED <<queue, stopping, cmd, connection, record>>

\* NotifyingEngine announces an execution before it enters the engine.
Announce(r) == IF r.kind \in ExecutionKinds THEN Append(events, Started) ELSE events

WorkerKernelStep ==
  /\ wpc \in {"kernel", "final"}
  /\ KernelStep
  /\ events' = IF kpc = "busy" THEN Announce(req) ELSE events
  /\ UNCHANGED <<queue, stopping, worker, connection, record>>

\* finish_worker_request up to the send: dead is what the status says now.
FinishRequest ==
  /\ wpc = "kernel"
  /\ TakeAnswer
  /\ \/ /\ events' = Append(events, Messages(msgs, req.kind \in ExecutionKinds, status = "Dead"))
        /\ wpc' = IF status = "Dead" THEN "exited" ELSE "stopcheck"
     \/ /\ negotiated # "V0"
        /\ events' = Append(events, Failure)
        /\ wpc' = "orderly"
  /\ UNCHANGED <<queue, stopping, cmd, connection, record>>

\* The end of finish_worker_request.
FinishCheckStopping ==
  /\ wpc = "stopcheck"
  /\ wpc' = IF stopping THEN "orderly" ELSE "recv"
  /\ UNCHANGED <<kernelVars, channels, stopping, cmd, connection, record>>

\* orderly_stop: nothing for a dead or never negotiated session, else the
\* shutdown request goes through the kernel like any other.
OrderlyStop ==
  /\ wpc = "orderly"
  /\ IF status = "Dead" \/ negotiated = None
       THEN wpc' = "exited" /\ UNCHANGED kernelVars
       ELSE wpc' = "final" /\ Handle(DisconnectShutdown)
  /\ UNCHANGED <<channels, stopping, cmd, connection, record>>

WorkerExits ==
  /\ wpc = "final"
  /\ TakeAnswer
  /\ wpc' = "exited"
  /\ UNCHANGED <<channels, stopping, cmd, connection, record>>

Worker ==
  \/ Receive \/ HangUp \/ CheckStopping \/ WorkerBootstrap \/ SendBootstrap
  \/ WorkerHandle \/ WorkerKernelStep \/ FinishRequest \/ FinishCheckStopping
  \/ OrderlyStop \/ WorkerExits
----------------------------------------------------------------------------
(* The connection thread: run_connection and what it calls.                *)

\* run_connection returned: stop the session if there is one.
Leave == IF session = "active" THEN "stop" ELSE "done"

DeliveredTwice(e) == e.frames

\* drain_worker_events filters the kernel's own busy frame out of the batch of
\* an execution: the Started event already told the client.  A batch has at
\* most one such frame, ahead of all others (BusyComesFirst).
Delivered(e) == IF e.execution /\ Head(e.frames).t = "busy" THEN Tail(e.frames) ELSE e.frames

WriteErrorIgnored == "drain"

\* write_frames(..)? leaves run_connection, and stop follows.
AfterWriteError == "stop"

\* What a failing write_frames got out: some of the frames, in order.
Cut(f) == {SubSeq(f, 1, n) : n \in 0..(Len(f) - 1)}

\* drain_worker_events writes one event; a failed write ends the connection.
DrainEvent ==
  /\ cpc = "drain" /\ events # <<>>
  /\ LET e == Head(events) IN
     /\ events' = Tail(events)
     /\ \/ /\ e.type # "failure"
           /\ out' = out \o Delivered(e)
           /\ negotiatedHere' = IF e.type = "bootstrap" THEN e.negotiated ELSE negotiatedHere
           /\ cpc' = IF e.dead THEN "stop" ELSE "drain"
        \/ /\ e.type # "failure"
           /\ \E f \in Cut(Delivered(e)) : out' = out \o f
           /\ cpc' = AfterWriteError
           /\ UNCHANGED negotiatedHere
        \/ /\ e.type = "failure"
           /\ cpc' = "stop"
           /\ UNCHANGED <<out, negotiatedHere>>
  /\ UNCHANGED <<kernelVars, queue, stopping, worker, session, shutdownQueued, registered, sent, boots, ints>>

\* Nothing to drain: a queued shutdown keeps the thread from reading, and a
\* worker that is gone ends the connection.
DrainedAll ==
  /\ cpc = "drain" /\ events = <<>>
  /\ \/ wpc # "exited" /\ ~shutdownQueued /\ cpc' = "read"
     \/ wpc = "exited" /\ cpc' = "stop"
  /\ UNCHANGED <<kernelVars, channels, stopping, worker, session, negotiatedHere, shutdownQueued, registered, record>>

ReadBlocks == cpc = "read" /\ FALSE /\ UNCHANGED vars

\* The poll timed out: events are delivered without waiting for the client.
ReadNothing ==
  /\ cpc = "read" /\ session = "active"
  /\ cpc' = "drain"
  /\ UNCHANGED <<kernelVars, channels, stopping, worker, session, negotiatedHere, shutdownQueued, registered, record>>

\* The client closed, or sent a frame the connection closes on.
ReadClose ==
  /\ cpc = "read"
  /\ cpc' = Leave
  /\ UNCHANGED <<kernelVars, channels, stopping, worker, session, negotiatedHere, shutdownQueued, registered, record>>

\* try_send on the command channel: full or disconnected closes.
TrySend(c) ==
  IF Len(queue) < Capacity /\ wpc # "exited"
    THEN queue' = Append(queue, c) /\ cpc' = "drain"
    ELSE cpc' = "stop" /\ UNCHANGED queue

\* The first bootstrap frame starts the session.  The engine factory (answered
\* with a bootstrap failure) or the registration may fail, the thread may not spawn
\* (registered, no worker), the startup frame may not be written (registered,
\* worker running, ActiveSession dropped).
StartSession ==
  /\ cpc = "read" /\ session = "none"
  /\ \/ /\ cpc' = "done" /\ out' \in {<<>>, <<Frame("bootstrap", 0)>>}
        /\ UNCHANGED <<session, registered, wpc, queue>>
     \/ /\ cpc' = "done" /\ session' = "lost" /\ registered' = TRUE
        /\ wpc' \in {"none", "recv"}
        /\ UNCHANGED <<queue, out>>
     \/ /\ session' = "active" /\ registered' = TRUE /\ wpc' = "recv"
        /\ out' = <<Frame("starting", 0)>>
        /\ TrySend(BootstrapCommand)
  /\ UNCHANGED <<kernelVars, events, stopping, cmd, negotiatedHere, shutdownQueued, sent, boots, ints>>

\* A further bootstrap frame, read before the first was seen to succeed.
ReadBootstrap ==
  /\ cpc = "read" /\ session = "active" /\ ~negotiatedHere
  /\ boots < MaxBootstraps /\ boots' = boots + 1
  /\ TrySend(BootstrapCommand)
  /\ UNCHANGED <<kernelVars, events, stopping, worker, session, negotiatedHere, shutdownQueued, registered, sent, ints, out>>

\* handle_negotiated_text for a sequential request.
ReadRequest ==
  /\ cpc = "read" /\ session = "active" /\ negotiatedHere
  /\ \E k \in Kinds, e \in 0..MaxRevision :
       /\ sent < MaxRequests
       /\ Decodes(k) /\ (k # "set" => e = 0)
       /\ TrySend([id |-> sent + 1, kind |-> k, expected |-> e])
       /\ sent' = IF queue' # queue THEN sent + 1 ELSE sent
       /\ shutdownQueued' = (queue' # queue /\ k = "shutdown")
  /\ UNCHANGED <<kernelVars, events, stopping, worker, session, negotiatedHere, registered, boots, ints, out>>

\* handle_negotiated_text for an interrupt: the control path, synchronously.
ReadInterrupt ==
  /\ cpc = "read" /\ session = "active" /\ negotiatedHere
  /\ ints < MaxInterrupts /\ ints' = ints + 1
  /\ InterruptLoad
  /\ cpc' = "interrupt"
  /\ UNCHANGED <<channels, stopping, worker, session, negotiatedHere, shutdownQueued, registered, sent, boots, out>>

ConnectionInterruptStep ==
  /\ cpc \in {"interrupt", "stopInterrupt"}
  /\ InterruptStep
  /\ UNCHANGED <<channels, stopping, worker, connection, record>>

\* The interrupt's messages are written directly, ahead of queued events.
WriteInterrupt ==
  /\ cpc = "interrupt"
  /\ TakeInterrupt
  /\ \/ out' = out \o InterruptFrames /\ cpc' = "drain"
     \/ cpc' = AfterWriteError /\ \E f \in Cut(InterruptFrames) : out' = out \o f
  /\ UNCHANGED <<channels, stopping, worker, session, negotiatedHere, shutdownQueued, registered, sent, boots, ints>>

\* ActiveSession::stop: a kernel that is already dead is only joined.
StopCheck ==
  /\ cpc = "stop"
  /\ cpc' = IF negotiatedHere /\ status = "Dead" THEN "join" ELSE "stopFlag"
  /\ UNCHANGED <<kernelVars, channels, stopping, worker, session, negotiatedHere, shutdownQueued, registered, record>>

StopFlagForgotten ==
  /\ cpc = "stopFlag"
  /\ cpc' = IF negotiatedHere THEN "stopLoad" ELSE "sendStop"
  /\ UNCHANGED <<kernelVars, channels, stopping, worker, session, negotiatedHere, shutdownQueued, registered, record>>

StopFlag ==
  /\ cpc = "stopFlag"
  /\ stopping' = TRUE
  /\ cpc' = IF negotiatedHere THEN "stopLoad" ELSE "sendStop"
  /\ UNCHANGED <<kernelVars, channels, worker, session, negotiatedHere, shutdownQueued, registered, record>>

\* The disconnect interrupt; its messages are discarded.
StopInterrupt ==
  /\ \/ cpc = "stopLoad" /\ InterruptLoad /\ cpc' = "stopInterrupt"
     \/ cpc = "stopInterrupt" /\ TakeInterrupt /\ cpc' = "sendStop"
  /\ UNCHANGED <<channels, stopping, worker, session, negotiatedHere, shutdownQueued, registered, record>>

SendNoStop ==
  /\ cpc = "sendStop"
  /\ cpc' = "join"
  /\ UNCHANGED <<kernelVars, channels, stopping, worker, session, negotiatedHere, shutdownQueued, registered, record>>

\* try_send(Stop): a full or disconnected channel is ignored.
SendStop ==
  /\ cpc = "sendStop"
  /\ queue' = IF Len(queue) < Capacity /\ wpc # "exited" THEN Append(queue, StopCommand) ELSE queue
  /\ cpc' = "join"
  /\ UNCHANGED <<kernelVars, events, stopping, worker, session, negotiatedHere, shutdownQueued, registered, record>>

\* join, then unregister the graphics session.
Join ==
  /\ cpc = "join" /\ wpc = "exited"
  /\ registered' = FALSE
  /\ cpc' = "done"
  /\ UNCHANGED <<kernelVars, channels, stopping, worker, session, negotiatedHere, shutdownQueued, record>>

\* What the connection thread does once a frame came in or the poll ended.
Connection ==
  \/ DrainEvent \/ DrainedAll \/ ReadNothing
  \/ ConnectionInterruptStep \/ WriteInterrupt
  \/ StopCheck \/ StopFlag \/ StopInterrupt \/ SendStop \/ Join

\* A frame of the client, read and handled.
ClientFrame == StartSession \/ ReadBootstrap \/ ReadRequest \/ ReadInterrupt \/ ReadClose

\* Both threads are gone.
Finished == cpc = "done" /\ wpc \in {"none", "exited"} /\ UNCHANGED vars

Next == Worker \/ Connection \/ ClientFrame \/ Finished

Spec == Init /\ [][Next]_vars

\* Both threads are scheduled; the client owes nothing.
FairSpec == Spec /\ WF_vars(Worker) /\ WF_vars(Connection)
----------------------------------------------------------------------------
WorkerPcs == {"none", "recv", "check", "bootstrap", "bootstrapped", "handle",
              "kernel", "stopcheck", "orderly", "final", "exited"}
ConnectionPcs == {"read", "drain", "interrupt", "stop", "stopFlag", "stopLoad",
                  "stopInterrupt", "sendStop", "join", "done"}

\* The values every variable keeps; the command channel is never over-full.
TypeOK ==
  /\ KernelTypeOK
  /\ session \in {"none", "active", "lost"}
  /\ queue \in Seq(Commands) /\ Len(queue) <= Capacity
  /\ events \in Seq(WorkerEvents)
  /\ stopping \in BOOLEAN /\ wpc \in WorkerPcs /\ cmd \in Commands
  /\ cpc \in ConnectionPcs /\ negotiatedHere \in BOOLEAN
  /\ shutdownQueued \in BOOLEAN /\ registered \in BOOLEAN
  /\ sent \in Nat /\ boots \in Nat /\ ints \in Nat /\ out \in Seq(Frames)

\* The engine is shut down at most once and never entered afterwards, although
\* an interrupt call in flight may overwrite the Dead status that guards it
\* and both the client and the disconnect path ask for the shutdown.
EngineLifecycle ==
  /\ shutdowns <= 1
  /\ kpc \in {"reset", "busy", "engine", "shutdown"} => shutdowns = 0

\* However a worker that negotiated a protocol ends (client shutdown, failed
\* frame, disconnect at any point), it has shut the engine down, unless it
\* ended on a bootstrap frame.
OrderlyExit ==
  wpc = "exited" /\ negotiated # None /\ cmd.kind # "bootstrap" => shutdowns = 1

\* The frames that tell the client whether the kernel is free.
Signal(f) == f.t \in {"busy", "idle"}

\* The signals of s begin with an idle, and busy and idle alternate.
Alternates(s) ==
  \A i \in 1..Len(s) : Signal(s[i]) =>
    /\ (\A j \in 1..(i - 1) : ~Signal(s[j])) => s[i].t = "idle"
    /\ \A j \in 1..(i - 1) :
         Signal(s[j]) /\ (\A k \in (j + 1)..(i - 1) : ~Signal(s[k])) => s[j].t # s[i].t

\* The client sees busy and idle alternate, exactly one busy before each idle:
\* the transport announces an execution early and removes the kernel's own
\* busy frame from its later batch.
BusyIdleAlternate == Alternates(out)

\* Only the first frame of a batch may be a busy frame.
BusyComesFirst ==
  \A i \in 1..Len(events) : \A k \in 2..Len(events[i].frames) : events[i].frames[k].t # "busy"

\* The three, as one invariant: the state and what was sent fit together.
ServerConsistent == TypeOK /\ BusyIdleAlternate /\ BusyComesFirst

Open == cpc \in {"read", "drain", "interrupt"}

\* Once the connection thread stops a session, it finishes: the worker is
\* joined whether it was waiting, executing, or had a full channel.
StopCompletes == (cpc = "stop") ~> (cpc = "done")

\* The ids of the requests answered so far, in the order of their replies.
Answered == LET replies == SelectSeq(out, LAMBDA f : f.t = "reply")
            IN  [i \in 1..Len(replies) |-> replies[i].id]

\* Every request the connection accepted is answered, or the connection ends.
AcceptedAnswered == \A i \in 1..MaxRequests : (i <= sent) ~> (i <= Len(Answered) \/ ~Open)

\* The connection promises sequential service: see SequentialSession.
Service == INSTANCE SequentialSession WITH
  Limit <- MaxRequests, open <- Open, answered <- Answered,
  pending <- IF Open THEN [i \in 1..(sent - Len(Answered)) |-> Len(Answered) + i] ELSE <<>>

ServesSequentially == Service!Spec
=============================================================================
