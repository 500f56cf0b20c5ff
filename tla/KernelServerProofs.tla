------------------------- MODULE KernelServerProofs -------------------------
(***************************************************************************)
(* Proofs about KernelServer, for every capacity, client and bound: the    *)
(* engine of a connection is shut down at most once, is never entered      *)
(* after that, and every orderly end of the worker shuts it down; and the  *)
(* client sees busy and idle alternate.                                    *)
(***************************************************************************)
EXTENDS KernelServer, KernelSessionProofs, SequenceTheorems

USE RevisionAssumption, ProtocolAssumption DEF Versions

\* The types the argument needs.
ServerType ==
  /\ KernelTypeOK
  /\ session \in {"none", "active", "lost"}
  /\ queue \in Seq(Commands) /\ cmd \in Commands
  /\ wpc \in WorkerPcs /\ cpc \in ConnectionPcs
  /\ stopping \in BOOLEAN /\ shutdownQueued \in BOOLEAN /\ sent \in Nat

\* Where the kernel is, given where the worker is.
WorkerControl ==
  /\ kpc # "ready" => wpc \in {"bootstrapped", "kernel", "final"}
  /\ wpc = "bootstrapped" => kpc = "answered"
  /\ wpc = "final" => kpc \in {"shutdown", "answered"}
  /\ wpc = "kernel" => kpc # "ready" /\ req = cmd
  /\ wpc = "kernel" /\ kpc = "shutdown" => cmd.kind = "shutdown"
  /\ wpc = "kernel" /\ cmd.kind = "shutdown" => kpc \in {"shutdown", "answered"}
  /\ wpc = "handle" => cmd.kind \notin {"stop", "bootstrap"}
  /\ wpc = "bootstrap" => cmd.kind = "bootstrap"
  /\ status = "Busy" => kpc \in {"engine", "judge", "mark", "idle"}

\* Nothing happens to a session that is not (or no longer) stored.
SessionControl ==
  session # "active" =>
    /\ queue = <<>> /\ negotiated = None
    /\ wpc \in {"none", "recv", "exited"} /\ cpc \in {"read", "done"}
    /\ session = "none" => wpc = "none"
    /\ session = "lost" => cpc = "done"

\* A shutdown request on its way keeps the connection from reading, hence
\* from interrupting, until the worker has handled it.
ShutdownPath ==
  /\ \A i \in 1..Len(queue) : queue[i].kind = "shutdown" => shutdownQueued
  /\ wpc \in {"check", "handle", "kernel"} /\ cmd.kind = "shutdown" => shutdownQueued
  /\ shutdownQueued => cpc \notin {"read", "interrupt"}

\* An interrupt call that will store Interrupted.
WillStore == ipc \in {"cancel", "store"} /\ iseen = "Busy"

\* The disconnect interrupt is issued after the stopping flag: the request it
\* found running is the worker's last one.
InterruptPath ==
  /\ ipc # "none" => cpc \in {"interrupt", "stopInterrupt"}
  /\ ipc = "store" => iseen = "Busy"
  /\ cpc \in {"stopLoad", "stopInterrupt"} => stopping
  /\ cpc = "stopInterrupt" /\ WillStore =>
       /\ wpc \in {"kernel", "stopcheck", "orderly", "final", "exited"}
       /\ wpc = "kernel" => cmd.kind # "shutdown"

\* Once the engine is shut down the worker is on its way out, and while it
\* still looks at the status nobody is about to overwrite Dead.
Down ==
  /\ shutdowns \in {0, 1}
  /\ status = "Dead" => shutdowns = 1
  /\ kpc = "shutdown" => shutdowns = 0
  /\ shutdowns = 1 =>
       \/ wpc = "exited"
       \/ wpc = "final" /\ kpc = "answered"
       \/ wpc = "kernel" /\ kpc = "answered" /\ status = "Dead" /\ ~WillStore
       \/ wpc = "orderly" /\ status = "Dead" /\ ~WillStore
  /\ wpc = "final" /\ kpc = "answered" => shutdowns = 1
  /\ OrderlyExit

ServerInv ==
  ServerType /\ WorkerControl /\ SessionControl /\ ShutdownPath /\ InterruptPath /\ Down
----------------------------------------------------------------------------
\* The commands and what tells them apart.
LEMMA CommandFacts ==
  /\ BootstrapCommand \in Commands /\ BootstrapCommand.kind = "bootstrap"
  /\ StopCommand \in Commands /\ StopCommand.kind = "stop"
  /\ DisconnectShutdown \in Request /\ DisconnectShutdown.kind = "shutdown"
  /\ Request \subseteq Commands
  /\ \A c \in Commands : c.kind \notin {"stop", "bootstrap"} => c \in Request
  /\ \A k \in Kinds, e \in 0..MaxRevision, n \in Nat :
       /\ [id |-> n, kind |-> k, expected |-> e] \in Request
       /\ [id |-> n, kind |-> k, expected |-> e].kind = k
<1>1. /\ BootstrapCommand \in Commands /\ BootstrapCommand.kind = "bootstrap"
      /\ StopCommand \in Commands /\ StopCommand.kind = "stop"
  BY DEF Commands, BootstrapCommand, StopCommand, NoFields
<1>2. DisconnectShutdown \in Request /\ DisconnectShutdown.kind = "shutdown"
  BY DEF DisconnectShutdown, NoFields, Request, RequestKinds
<1>3. Request \subseteq Commands
  BY DEF Commands
<1>4. \A c \in Commands : c.kind \notin {"stop", "bootstrap"} => c \in Request
  BY DEF Commands, BootstrapCommand, StopCommand, NoFields
<1>5. \A k \in Kinds, e \in 0..MaxRevision, n \in Nat :
        /\ [id |-> n, kind |-> k, expected |-> e] \in Request
        /\ [id |-> n, kind |-> k, expected |-> e].kind = k
  BY KindAssumption DEF Request
<1>6. QED
  BY <1>1, <1>2, <1>3, <1>4, <1>5

\* A step that leaves the kernel alone keeps its types.
LEMMA KernelUnchanged ==
  ASSUME KernelTypeOK, UNCHANGED kernelVars
  PROVE  KernelTypeOK' /\ UNCHANGED <<status, negotiated, kpc, req, ipc, iseen, shutdowns>>
BY DEF kernelVars, shared, local, control, history, KernelTypeOK

\* A step of a request: the shutdown itself, or one that keeps the engine up.
LEMMA KernelStepEffect ==
  ASSUME KernelTypeOK, KernelStep
  PROVE  /\ UNCHANGED <<negotiated, req, ipc, iseen>>
         /\ \/ /\ kpc = "shutdown" /\ kpc' = "answered"
               /\ shutdowns' = shutdowns + 1 /\ status' = "Dead"
            \/ /\ kpc \in {"reset", "busy", "engine", "judge", "mark", "idle"}
               /\ kpc' \in {"busy", "engine", "judge", "mark", "idle", "answered"}
               /\ UNCHANGED shutdowns
               /\ status' = "Dead" => status = "Dead"
               /\ status' = "Busy" => kpc \in {"reset", "busy"} \/ kpc' \in {"engine", "judge", "mark", "idle"}
               /\ kpc = "reset" => UNCHANGED status
               /\ kpc = "busy" => kpc' = "engine"
<1> USE DEF shared, control, history
<1>1. CASE ResetCancellation \/ SetBusy
  BY <1>1 DEF ResetCancellation, SetBusy
<1>2. CASE JudgeInterrupted \/ MarkInterrupted
  BY <1>2 DEF JudgeInterrupted, MarkInterrupted
<1>3. CASE \E outcome \in {"done", "cancelled", "error"} : ExecuteReturns(outcome)
  BY <1>3 DEF ExecuteReturns
<1>4. CASE \E ok \in BOOLEAN : QueryReturns(ok) \/ EditReturns(ok)
  BY <1>4 DEF QueryReturns, EditReturns
<1>5. CASE SetIdle \/ Shutdown
  BY <1>5 DEF SetIdle, Shutdown
<1>6. QED
  BY <1>1, <1>2, <1>3, <1>4, <1>5 DEF KernelStep

\* Dispatching a request changes no shared state.
LEMMA HandleEffect ==
  ASSUME KernelTypeOK, NEW r \in Request, Handle(r)
  PROVE  /\ UNCHANGED <<status, negotiated, ipc, iseen, shutdowns>>
         /\ negotiated # None /\ req' = r
         /\ kpc = "ready" /\ kpc' \in {"reset", "busy", "shutdown", "answered"}
         /\ kpc' = "shutdown" => r.kind = "shutdown"
         /\ r.kind = "shutdown" => kpc' \in {"shutdown", "answered"}
         /\ r.kind = "shutdown" /\ status # "Dead" => kpc' = "shutdown"
BY DEF Handle, FirstStep, Refused, ExecutionKinds, shared, control

\* An answer is taken.
LEMMA TakeAnswerEffect ==
  ASSUME TakeAnswer
  PROVE  /\ kpc = "answered" /\ kpc' = "ready"
         /\ UNCHANGED <<status, negotiated, req, ipc, iseen, shutdowns>>
BY DEF TakeAnswer, shared, control, history

\* What a bootstrap changes.
LEMMA BootstrapEffect ==
  ASSUME NEW p, Bootstrap(p)
  PROVE  /\ kpc = "ready" /\ kpc' = "answered"
         /\ status' \in {status, "Idle"}
         /\ UNCHANGED <<req, ipc, iseen, shutdowns>>
BY DEF Bootstrap, control, history

\* What the control path does to the shared status.
LEMMA InterruptLoadEffect ==
  ASSUME InterruptLoad
  PROVE  /\ UNCHANGED <<status, negotiated, kpc, req, shutdowns>>
         /\ ipc = "none" /\ iseen' = status /\ ipc' \in {"cancel", "done"}
         /\ ipc' = "cancel" => status \in {"Busy", "Interrupted"}
BY DEF InterruptLoad, Accepts, shared, local

\* The two stores of an interrupt call.
LEMMA InterruptStepEffect ==
  ASSUME InterruptStep
  PROVE  /\ UNCHANGED <<negotiated, kpc, req, iseen, shutdowns>>
         /\ ipc \in {"cancel", "store"} /\ ipc' \in {"store", "done"}
         /\ ipc' = "store" => iseen = "Busy"
         /\ \/ UNCHANGED status
            \/ ipc = "store" /\ status' = "Interrupted"
BY DEF InterruptStep, InterruptCancel, InterruptStore, local, history

\* An interrupt call returns.
LEMMA TakeInterruptEffect ==
  ASSUME TakeInterrupt
  PROVE  ipc' = "none" /\ UNCHANGED <<status, negotiated, kpc, req, iseen, shutdowns>>
BY DEF TakeInterrupt, shared, local, history

\* A connection starts in the invariant.
LEMMA ServerInitInv == Init => ServerInv
<1> SUFFICES ASSUME Init PROVE ServerInv
  OBVIOUS
<1>1. KernelTypeOK
  BY KernelInitInv DEF Init, KernelInv
<1>2. ServerType
  BY <1>1, CommandFacts, EmptyIsSeq DEF Init, ServerType, WorkerPcs, ConnectionPcs
<1>3. WorkerControl /\ SessionControl
  BY DEF Init, KernelInit, WorkerControl, SessionControl
<1>4. ShutdownPath /\ InterruptPath /\ Down
  BY DEF Init, KernelInit, ShutdownPath, InterruptPath, WillStore, Down, OrderlyExit
<1>5. QED
  BY <1>2, <1>3, <1>4 DEF ServerInv
----------------------------------------------------------------------------
\* The worker takes a command; a shutdown in hand is still announced.
LEMMA ReceiveInv ==
  ASSUME ServerInv, Receive
  PROVE  ServerInv'
<1> USE DEF ServerInv, Receive, channels, worker, connection, record
<1>0. KernelTypeOK
  BY DEF ServerType
<1>1. ServerType' /\ WorkerControl'
  BY <1>0, KernelUnchanged DEF ServerType, WorkerPcs, ConnectionPcs, WorkerControl
<1>2. SessionControl' /\ ShutdownPath'
  BY <1>0, KernelUnchanged DEF SessionControl, ShutdownPath, ServerType
<1>3. InterruptPath' /\ Down'
  BY <1>0, KernelUnchanged DEF InterruptPath, Down, OrderlyExit, WillStore
<1>4. QED
  BY <1>1, <1>2, <1>3

\* A worker whose session was dropped never negotiated.
LEMMA HangUpInv ==
  ASSUME ServerInv, HangUp
  PROVE  ServerInv'
<1> USE DEF ServerInv, HangUp, channels, worker, connection, record
<1>0. KernelTypeOK
  BY DEF ServerType
<1>1. ServerType' /\ WorkerControl'
  BY <1>0, KernelUnchanged DEF ServerType, WorkerPcs, ConnectionPcs, WorkerControl
<1>2. SessionControl' /\ ShutdownPath'
  BY <1>0, KernelUnchanged DEF SessionControl, ShutdownPath, ServerType
<1>3. InterruptPath' /\ Down'
  BY <1>0, KernelUnchanged DEF InterruptPath, Down, OrderlyExit, WillStore, SessionControl
<1>4. QED
  BY <1>1, <1>2, <1>3

\* The stopping check keeps a stopped session from dispatching.
LEMMA CheckStoppingInv ==
  ASSUME ServerInv, CheckStopping
  PROVE  ServerInv'
<1> USE DEF ServerInv, CheckStopping, channels, worker, connection, record
<1>0. KernelTypeOK
  BY DEF ServerType
<1>1. ServerType' /\ WorkerControl'
  BY <1>0, KernelUnchanged DEF ServerType, WorkerPcs, ConnectionPcs, WorkerControl
<1>2. SessionControl' /\ ShutdownPath'
  BY <1>0, KernelUnchanged DEF SessionControl, ShutdownPath, ServerType
<1>3. InterruptPath' /\ Down'
  BY <1>0, KernelUnchanged DEF InterruptPath, Down, OrderlyExit, WillStore
<1>4. QED
  BY <1>1, <1>2, <1>3

\* The bootstrap answer is handed over.
LEMMA SendBootstrapInv ==
  ASSUME ServerInv, SendBootstrap
  PROVE  ServerInv'
<1> USE DEF ServerInv, SendBootstrap, channels, worker, connection, record
<1>0. KernelTypeOK
  BY DEF ServerType
<1>1. ServerType' /\ WorkerControl'
  BY <1>0, TakeAnswerType, TakeAnswerEffect DEF ServerType, WorkerPcs, ConnectionPcs, WorkerControl
<1>2. SessionControl' /\ ShutdownPath'
  BY <1>0, TakeAnswerType, TakeAnswerEffect DEF SessionControl, ShutdownPath, ServerType
<1>3. InterruptPath' /\ Down'
  BY <1>0, TakeAnswerType, TakeAnswerEffect DEF InterruptPath, Down, OrderlyExit, WillStore
<1>4. QED
  BY <1>1, <1>2, <1>3

\* After a request the worker looks at the stopping flag again.
LEMMA FinishCheckStoppingInv ==
  ASSUME ServerInv, FinishCheckStopping
  PROVE  ServerInv'
<1> USE DEF ServerInv, FinishCheckStopping, channels, worker, connection, record
<1>0. KernelTypeOK
  BY DEF ServerType
<1>1. ServerType' /\ WorkerControl'
  BY <1>0, KernelUnchanged DEF ServerType, WorkerPcs, ConnectionPcs, WorkerControl
<1>2. SessionControl' /\ ShutdownPath'
  BY <1>0, KernelUnchanged DEF SessionControl, ShutdownPath, ServerType
<1>3. InterruptPath' /\ Down'
  BY <1>0, KernelUnchanged DEF InterruptPath, Down, OrderlyExit, WillStore
<1>4. QED
  BY <1>1, <1>2, <1>3

\* A finished request: Dead is still there if this was the shutdown.
LEMMA FinishRequestInv ==
  ASSUME ServerInv, FinishRequest
  PROVE  ServerInv'
<1> USE DEF ServerInv, FinishRequest, channels, worker, connection, record
<1>0. KernelTypeOK
  BY DEF ServerType
<1>1. ServerType' /\ WorkerControl'
  BY <1>0, TakeAnswerType, TakeAnswerEffect DEF ServerType, WorkerPcs, ConnectionPcs, WorkerControl
<1>2. SessionControl' /\ ShutdownPath'
  BY <1>0, TakeAnswerType, TakeAnswerEffect DEF SessionControl, ShutdownPath, ServerType
<1>3. InterruptPath' /\ Down'
  BY <1>0, TakeAnswerType, TakeAnswerEffect DEF InterruptPath, Down, OrderlyExit, WillStore
<1>4. QED
  BY <1>1, <1>2, <1>3

\* orderly_stop returns after its shutdown request.
LEMMA WorkerExitsInv ==
  ASSUME ServerInv, WorkerExits
  PROVE  ServerInv'
<1> USE DEF ServerInv, WorkerExits, channels, worker, connection, record
<1>0. KernelTypeOK
  BY DEF ServerType
<1>1. ServerType' /\ WorkerControl'
  BY <1>0, TakeAnswerType, TakeAnswerEffect DEF ServerType, WorkerPcs, ConnectionPcs, WorkerControl
<1>2. SessionControl' /\ ShutdownPath'
  BY <1>0, TakeAnswerType, TakeAnswerEffect DEF SessionControl, ShutdownPath, ServerType
<1>3. InterruptPath' /\ Down'
  BY <1>0, TakeAnswerType, TakeAnswerEffect DEF InterruptPath, Down, OrderlyExit, WillStore
<1>4. QED
  BY <1>1, <1>2, <1>3

\* The heart of the argument: when the shutdown request of a client runs,
\* no interrupt call can be about to store Interrupted.
LEMMA WorkerKernelStepInv ==
  ASSUME ServerInv, WorkerKernelStep
  PROVE  ServerInv'
<1> USE DEF ServerInv, WorkerKernelStep, channels, worker, connection, record
<1>0. KernelTypeOK
  BY DEF ServerType
<1>1. ServerType' /\ WorkerControl'
  BY <1>0, KernelStepType, KernelStepEffect DEF ServerType, WorkerPcs, ConnectionPcs, WorkerControl
<1>2. SessionControl' /\ ShutdownPath'
  BY <1>0, KernelStepType, KernelStepEffect DEF SessionControl, ShutdownPath, ServerType
<1>3. InterruptPath' /\ Down'
  BY <1>0, KernelStepType, KernelStepEffect DEF InterruptPath, Down, OrderlyExit, WillStore, WorkerControl, ShutdownPath
<1>4. QED
  BY <1>1, <1>2, <1>3

\* An interrupt call may overwrite Dead only when the worker is past
\* looking at it.
LEMMA ConnectionInterruptStepInv ==
  ASSUME ServerInv, ConnectionInterruptStep
  PROVE  ServerInv'
<1> USE DEF ServerInv, ConnectionInterruptStep, channels, worker, connection, record
<1>0. KernelTypeOK
  BY DEF ServerType
<1>1. ServerType' /\ WorkerControl'
  BY <1>0, InterruptType, InterruptStepEffect DEF ServerType, WorkerPcs, ConnectionPcs, WorkerControl
<1>2. SessionControl' /\ ShutdownPath'
  BY <1>0, InterruptType, InterruptStepEffect DEF SessionControl, ShutdownPath, ServerType
<1>3. InterruptPath' /\ Down'
  BY <1>0, InterruptType, InterruptStepEffect DEF InterruptPath, Down, OrderlyExit, WillStore
<1>4. QED
  BY <1>1, <1>2, <1>3

\* The interrupt call returned.
LEMMA WriteInterruptInv ==
  ASSUME ServerInv, WriteInterrupt
  PROVE  ServerInv'
<1> USE DEF ServerInv, WriteInterrupt, AfterWriteError, channels, worker, connection, record
<1>0. KernelTypeOK
  BY DEF ServerType
<1>1. ServerType' /\ WorkerControl'
  BY <1>0, InterruptType, TakeInterruptEffect DEF ServerType, WorkerPcs, ConnectionPcs, WorkerControl
<1>2. SessionControl' /\ ShutdownPath'
  BY <1>0, InterruptType, TakeInterruptEffect DEF SessionControl, ShutdownPath, ServerType
<1>3. InterruptPath' /\ Down'
  BY <1>0, InterruptType, TakeInterruptEffect DEF InterruptPath, Down, OrderlyExit, WillStore
<1>4. QED
  BY <1>1, <1>2, <1>3

\* An interrupt frame is read only while no shutdown is queued.
LEMMA ReadInterruptInv ==
  ASSUME ServerInv, ReadInterrupt
  PROVE  ServerInv'
<1> USE DEF ServerInv, ReadInterrupt, channels, worker, connection, record
<1>0. KernelTypeOK
  BY DEF ServerType
<1>1. ServerType' /\ WorkerControl'
  BY <1>0, InterruptType, InterruptLoadEffect DEF ServerType, WorkerPcs, ConnectionPcs, WorkerControl
<1>2. SessionControl' /\ ShutdownPath'
  BY <1>0, InterruptType, InterruptLoadEffect DEF SessionControl, ShutdownPath, ServerType
<1>3. InterruptPath' /\ Down'
  BY <1>0, InterruptType, InterruptLoadEffect DEF InterruptPath, Down, OrderlyExit, WillStore
<1>4. QED
  BY <1>1, <1>2, <1>3

\* The stop command is no shutdown request.
LEMMA SendStopInv ==
  ASSUME ServerInv, SendStop
  PROVE  ServerInv'
<1> USE DEF ServerInv, SendStop, channels, worker, connection, record
<1>0. KernelTypeOK
  BY DEF ServerType
<1>1. ServerType' /\ WorkerControl'
  BY <1>0, KernelUnchanged, CommandFacts DEF ServerType, WorkerPcs, ConnectionPcs, WorkerControl
<1>2. SessionControl' /\ ShutdownPath'
  BY <1>0, KernelUnchanged, CommandFacts DEF SessionControl, ShutdownPath, ServerType
<1>3. InterruptPath' /\ Down'
  BY <1>0, KernelUnchanged, CommandFacts DEF InterruptPath, Down, OrderlyExit, WillStore
<1>4. QED
  BY <1>1, <1>2, <1>3

\* Nor is a further bootstrap.
LEMMA ReadBootstrapInv ==
  ASSUME ServerInv, ReadBootstrap
  PROVE  ServerInv'
<1> USE DEF ServerInv, ReadBootstrap, TrySend, channels, worker, connection, record
<1>0. KernelTypeOK
  BY DEF ServerType
<1>1. ServerType' /\ WorkerControl'
  BY <1>0, KernelUnchanged, CommandFacts DEF ServerType, WorkerPcs, ConnectionPcs, WorkerControl
<1>2. SessionControl' /\ ShutdownPath'
  BY <1>0, KernelUnchanged, CommandFacts DEF SessionControl, ShutdownPath, ServerType
<1>3. InterruptPath' /\ Down'
  BY <1>0, KernelUnchanged, CommandFacts DEF InterruptPath, Down, OrderlyExit, WillStore
<1>4. QED
  BY <1>1, <1>2, <1>3

\* The steps of the connection that only move it, or raise the stopping flag
\* before the disconnect interrupt is issued.
LEMMA ConnectionMovesInv ==
  ASSUME ServerInv,
         DrainEvent \/ DrainedAll \/ ReadNothing \/ ReadClose \/ StopCheck \/ StopFlag \/ Join
  PROVE  ServerInv'
<1> USE DEF ServerInv
<1>1. /\ UNCHANGED <<kernelVars, queue, wpc, cmd, session, shutdownQueued, sent>>
      /\ stopping' \in BOOLEAN
      /\ cpc \notin {"interrupt", "stopInterrupt", "stopLoad"}
      /\ cpc' \in {"read", "drain", "stop", "stopFlag", "stopLoad", "sendStop", "join", "done"}
      /\ cpc' = "read" => ~shutdownQueued
      /\ cpc' = "stopLoad" => stopping'
      /\ session # "active" => cpc' = "done"
  BY DEF DrainEvent, DrainedAll, ReadNothing, ReadClose, StopCheck, StopFlag, Join, Leave, AfterWriteError,
         ServerType, SessionControl, channels, worker, connection, record
<1>2. KernelTypeOK' /\ UNCHANGED <<status, negotiated, kpc, req, ipc, iseen, shutdowns>>
  BY <1>1, KernelUnchanged DEF ServerType
<1>3. ServerType'
  BY <1>1, <1>2 DEF ServerType, ConnectionPcs
<1>4. WorkerControl' /\ SessionControl' /\ ShutdownPath'
  BY <1>1, <1>2 DEF WorkerControl, SessionControl, ShutdownPath
<1>5. InterruptPath' /\ Down'
  BY <1>1, <1>2 DEF InterruptPath, Down, OrderlyExit, WillStore
<1>6. QED
  BY <1>3, <1>4, <1>5

\* A bootstrap is answered, or ends the worker with its command still a bootstrap.
LEMMA WorkerBootstrapInv ==
  ASSUME ServerInv, WorkerBootstrap
  PROVE  ServerInv'
<1> USE DEF ServerInv, connection, record
<1>0. KernelTypeOK
  BY DEF ServerType
<1>1. ASSUME NEW p \in Protocols \cup {None}, Bootstrap(p), wpc = "bootstrap", wpc' = "bootstrapped",
             UNCHANGED <<queue, stopping, cmd, connection, record>>
      PROVE  ServerInv'
  <2>1. ServerType'
    BY <1>0, <1>1, BootstrapType DEF ServerType, WorkerPcs
  <2>2. WorkerControl' /\ SessionControl' /\ ShutdownPath' /\ InterruptPath'
    BY <1>1, BootstrapEffect DEF WorkerControl, SessionControl, ShutdownPath, InterruptPath, WillStore
  <2>3. Down'
    BY <1>1, BootstrapEffect DEF Down, OrderlyExit, WillStore
  <2>4. QED
    BY <2>1, <2>2, <2>3
<1>2. CASE wpc = "bootstrap" /\ wpc' = "exited" /\ UNCHANGED <<kernelVars, queue, stopping, cmd, connection, record>>
  <2>1. cmd.kind = "bootstrap"
    BY <1>2 DEF WorkerControl
  <2>2. ServerType'
    BY <1>0, <1>2, KernelUnchanged DEF ServerType, WorkerPcs
  <2>3. WorkerControl' /\ SessionControl' /\ ShutdownPath' /\ InterruptPath'
    BY <1>0, <1>2, KernelUnchanged DEF WorkerControl, SessionControl, ShutdownPath, InterruptPath, WillStore
  <2>4. Down'
    BY <1>0, <1>2, <2>1, KernelUnchanged DEF Down, OrderlyExit, WillStore
  <2>5. QED
    BY <2>2, <2>3, <2>4
<1>3. QED
  BY <1>1, <1>2 DEF WorkerBootstrap

\* The worker dispatches a request, or gives up on it.
LEMMA WorkerHandleInv ==
  ASSUME ServerInv, WorkerHandle
  PROVE  ServerInv'
<1> USE DEF ServerInv, connection, record
<1>0. KernelTypeOK
  BY DEF ServerType
<1>1. CASE wpc = "handle" /\ Handle(cmd) /\ wpc' = "kernel" /\ UNCHANGED <<queue, stopping, cmd, connection, record>>
  <2>0. cmd \in Request
    BY <1>1, CommandFacts DEF ServerType, WorkerControl
  <2>1. ServerType'
    BY <1>0, <1>1, <2>0, HandleType DEF ServerType, WorkerPcs
  <2>2. WorkerControl' /\ SessionControl' /\ ShutdownPath'
    BY <1>0, <1>1, <2>0, HandleEffect DEF WorkerControl, SessionControl, ShutdownPath
  <2>3. InterruptPath' /\ Down'
    BY <1>0, <1>1, <2>0, HandleEffect DEF InterruptPath, Down, OrderlyExit, WillStore
  <2>4. QED
    BY <2>1, <2>2, <2>3
<1>2. CASE wpc = "handle" /\ wpc' = "orderly" /\ UNCHANGED <<kernelVars, queue, stopping, cmd, connection, record>>
  <2>1. ServerType' /\ WorkerControl' /\ SessionControl' /\ ShutdownPath'
    BY <1>0, <1>2, KernelUnchanged DEF ServerType, WorkerPcs, WorkerControl, SessionControl, ShutdownPath
  <2>2. InterruptPath' /\ Down'
    BY <1>0, <1>2, KernelUnchanged DEF InterruptPath, Down, OrderlyExit, WillStore
  <2>3. QED
    BY <2>1, <2>2
<1>3. QED
  BY <1>1, <1>2 DEF WorkerHandle

\* orderly_stop shuts a live engine down and leaves a dead one alone.
LEMMA OrderlyStopInv ==
  ASSUME ServerInv, OrderlyStop
  PROVE  ServerInv'
<1> USE DEF ServerInv, OrderlyStop, channels, connection, record
<1>0. KernelTypeOK
  BY DEF ServerType
<1>1. CASE status = "Dead" \/ negotiated = None
  <2>1. ServerType' /\ WorkerControl' /\ SessionControl' /\ ShutdownPath'
    BY <1>0, <1>1, KernelUnchanged DEF ServerType, WorkerPcs, WorkerControl, SessionControl, ShutdownPath
  <2>2. InterruptPath' /\ Down'
    BY <1>0, <1>1, KernelUnchanged DEF InterruptPath, Down, OrderlyExit, WillStore
  <2>3. QED
    BY <2>1, <2>2
<1>2. CASE ~(status = "Dead" \/ negotiated = None)
  <2>0. DisconnectShutdown \in Request /\ DisconnectShutdown.kind = "shutdown" /\ Handle(DisconnectShutdown)
    BY <1>2, CommandFacts
  <2>1. ServerType'
    BY <1>0, <1>2, <2>0, HandleType DEF ServerType, WorkerPcs
  <2>2. WorkerControl' /\ SessionControl' /\ ShutdownPath'
    BY <1>0, <1>2, <2>0, HandleEffect DEF WorkerControl, SessionControl, ShutdownPath
  <2>3. InterruptPath' /\ Down'
    BY <1>0, <1>2, <2>0, HandleEffect DEF InterruptPath, Down, OrderlyExit, WillStore
  <2>4. QED
    BY <2>1, <2>2, <2>3
<1>3. QED
  BY <1>1, <1>2

\* try_send on the command channel appends the command or closes.
LEMMA TrySendEffect ==
  ASSUME queue \in Seq(Commands), NEW c \in Commands, TrySend(c)
  PROVE  /\ queue' \in Seq(Commands) /\ cpc' \in {"drain", "stop"}
         /\ \/ queue' = queue
            \/ /\ queue' # queue /\ Len(queue') = Len(queue) + 1 /\ queue'[Len(queue')] = c
               /\ \A i \in 1..Len(queue) : queue'[i] = queue[i]
BY DEF TrySend

\* A session is started, fails to start, or is lost.
LEMMA StartSessionInv ==
  ASSUME ServerInv, StartSession
  PROVE  ServerInv'
<1> USE DEF ServerInv
<1>0. KernelTypeOK /\ queue = <<>> /\ negotiated = None
  BY DEF ServerType, SessionControl, StartSession
<1>1. /\ queue' \in Seq(Commands) /\ cpc' \in {"drain", "stop", "done"}
      /\ session' # "active" => queue' = <<>> /\ cpc' = "done"
      /\ \A i \in 1..Len(queue') : queue'[i].kind # "shutdown"
  <2>1. CASE queue' = queue /\ cpc' = "done"
    BY <1>0, <2>1 DEF ServerType
  <2>2. CASE session' = "active" /\ TrySend(BootstrapCommand)
    <3>1. BootstrapCommand \in Commands /\ BootstrapCommand.kind # "shutdown"
      BY CommandFacts
    <3>2. queue \in Seq(Commands) /\ Len(queue) = 0
      BY <1>0 DEF ServerType
    <3>3. QED
      BY <2>2, <3>1, <3>2, TrySendEffect
  <2>3. QED
    BY <2>1, <2>2 DEF StartSession
<1>2. /\ session' \in {"none", "active", "lost"} /\ wpc' \in {wpc, "none", "recv"}
      /\ session' = "none" => wpc' = wpc
      /\ UNCHANGED <<kernelVars, stopping, cmd, shutdownQueued, sent>>
  BY DEF StartSession
<1>3. cpc = "read" /\ session = "none"
  BY DEF StartSession
<1>4. ServerType'
  BY <1>0, <1>1, <1>2, KernelUnchanged DEF ServerType, WorkerPcs, ConnectionPcs
<1>5. WorkerControl' /\ SessionControl'
  BY <1>0, <1>1, <1>2, <1>3, KernelUnchanged DEF WorkerControl, SessionControl
<1>6. ShutdownPath' /\ InterruptPath'
  BY <1>0, <1>1, <1>2, <1>3, KernelUnchanged DEF ShutdownPath, InterruptPath, WillStore, SessionControl
<1>7. Down'
  BY <1>0, <1>1, <1>2, <1>3, KernelUnchanged DEF Down, OrderlyExit, WillStore, SessionControl
<1>8. QED
  BY <1>4, <1>5, <1>6, <1>7

\* A request is queued; a shutdown raises shutdown_queued with it.
LEMMA ReadRequestInv ==
  ASSUME ServerInv, ReadRequest
  PROVE  ServerInv'
<1> USE DEF ServerInv
<1>0. KernelTypeOK
  BY DEF ServerType
<1>1. PICK k \in Kinds, e \in 0..MaxRevision :
        /\ TrySend([id |-> sent + 1, kind |-> k, expected |-> e])
        /\ sent' = IF queue' # queue THEN sent + 1 ELSE sent
        /\ shutdownQueued' = (queue' # queue /\ k = "shutdown")
  BY DEF ReadRequest
<1>2. /\ cpc = "read" /\ session = "active"
      /\ UNCHANGED <<kernelVars, stopping, wpc, cmd, session>>
  BY DEF ReadRequest, worker
<1> DEFINE c == [id |-> sent + 1, kind |-> k, expected |-> e]
<1>3. c \in Commands /\ c.kind = k
  BY CommandFacts DEF ServerType
<1> HIDE DEF c
<1>4. /\ queue' \in Seq(Commands) /\ cpc' \in {"drain", "stop"}
      /\ \/ queue' = queue
         \/ /\ queue' # queue /\ Len(queue') = Len(queue) + 1 /\ queue'[Len(queue')] = c
            /\ \A i \in 1..Len(queue) : queue'[i] = queue[i]
  BY <1>1, <1>3, TrySendEffect DEF ServerType, c
<1>5. ServerType'
  BY <1>0, <1>1, <1>2, <1>4, KernelUnchanged DEF ServerType, ConnectionPcs
<1>6. WorkerControl' /\ SessionControl' /\ InterruptPath' /\ Down'
  BY <1>0, <1>2, <1>4, KernelUnchanged
     DEF WorkerControl, SessionControl, InterruptPath, Down, OrderlyExit, WillStore
<1>7. ShutdownPath'
  <2>1. ~shutdownQueued /\ cpc' # "read" /\ cpc' # "interrupt"
    BY <1>2, <1>4 DEF ShutdownPath
  <2>2. \A i \in 1..Len(queue) : queue[i].kind # "shutdown"
    BY <2>1 DEF ShutdownPath
  <2>3. \A i \in 1..Len(queue') : queue'[i].kind = "shutdown" => shutdownQueued'
    <3>1. CASE queue' = queue
      BY <2>2, <3>1
    <3>2. CASE queue' # queue
      <4>1. Len(queue) \in Nat
        BY DEF ServerType
      <4>2. \A i \in 1..Len(queue') : i \in 1..Len(queue) \/ i = Len(queue')
        BY <1>4, <3>2, <4>1
      <4>3. QED
        BY <1>1, <1>3, <1>4, <2>2, <3>2, <4>2
    <3>3. QED
      BY <3>1, <3>2
  <2>4. QED
    BY <1>2, <2>1, <2>3 DEF ShutdownPath
<1>8. QED
  BY <1>5, <1>6, <1>7

\* The disconnect interrupt loads Busy only while the last request runs.
LEMMA StopInterruptInv ==
  ASSUME ServerInv, StopInterrupt
  PROVE  ServerInv'
<1> USE DEF ServerInv, StopInterrupt, channels, worker, record
<1>0. KernelTypeOK
  BY DEF ServerType
<1>1. ServerType'
  BY <1>0, InterruptType DEF ServerType, ConnectionPcs
<1>2. WorkerControl' /\ SessionControl' /\ ShutdownPath'
  BY InterruptLoadEffect, TakeInterruptEffect DEF WorkerControl, SessionControl, ShutdownPath
<1>3. InterruptPath'
  BY InterruptLoadEffect, TakeInterruptEffect DEF InterruptPath, WillStore, WorkerControl
<1>4. Down'
  BY InterruptLoadEffect, TakeInterruptEffect DEF Down, OrderlyExit, WillStore
<1>5. QED
  BY <1>1, <1>2, <1>3, <1>4

\* Every step keeps the invariant.
LEMMA ServerNextInv == ServerInv /\ [Next]_vars => ServerInv'
<1> SUFFICES ASSUME ServerInv, [Next]_vars PROVE ServerInv'
  OBVIOUS
<1>1. CASE Worker
  BY <1>1, ReceiveInv, HangUpInv, CheckStoppingInv, WorkerBootstrapInv, SendBootstrapInv, WorkerHandleInv,
     WorkerKernelStepInv, FinishRequestInv, FinishCheckStoppingInv, OrderlyStopInv, WorkerExitsInv DEF Worker
<1>2. CASE Connection
  BY <1>2, ConnectionMovesInv, ConnectionInterruptStepInv, WriteInterruptInv, StopInterruptInv, SendStopInv DEF Connection
<1>3. CASE ClientFrame
  BY <1>3, StartSessionInv, ReadBootstrapInv, ReadRequestInv, ReadInterruptInv, ConnectionMovesInv DEF ClientFrame
<1>4. CASE UNCHANGED vars
  <2>1. KernelTypeOK' /\ UNCHANGED <<status, negotiated, kpc, req, ipc, iseen, shutdowns>>
    BY <1>4, KernelUnchanged DEF ServerInv, ServerType, vars
  <2>2. QED
    BY <1>4, <2>1 DEF ServerInv, ServerType, WorkerControl, SessionControl, ShutdownPath, InterruptPath, Down,
       OrderlyExit, WillStore, vars, channels, worker, connection, record
<1>5. QED
  BY <1>1, <1>2, <1>3, <1>4 DEF Next, Finished

\* The invariant holds in every reachable state.
LEMMA ServerSpecInv == Spec => []ServerInv
BY ServerInitInv, ServerNextInv, PTL DEF Spec
----------------------------------------------------------------------------
\* The engine of a connection is shut down at most once and never entered
\* afterwards: no interrupt, disconnect or second shutdown request reaches it.
THEOREM ShutDownOnce == Spec => []EngineLifecycle
<1>1. ServerInv => EngineLifecycle
  BY DEF ServerInv, Down, WorkerControl, EngineLifecycle
<1>2. QED
  BY <1>1, ServerSpecInv, PTL

\* Every end of a worker that negotiated, other than on a bootstrap frame,
\* has shut the engine down.
THEOREM ExitIsOrderly == Spec => []OrderlyExit
<1>1. ServerInv => OrderlyExit
  BY DEF ServerInv, Down
<1>2. QED
  BY <1>1, ServerSpecInv, PTL
----------------------------------------------------------------------------
(* What the client is told of busy and idle.                               *)

\* The last signal in s is a; none if there is no signal.
LastIs(s, a) ==
  \/ a = "none" /\ \A i \in 1..Len(s) : ~Signal(s[i])
  \/ \E i \in 1..Len(s) :
       Signal(s[i]) /\ s[i].t = a /\ \A j \in (i + 1)..Len(s) : ~Signal(s[j])

\* The batches of a request: no signal at all, or one round from busy to idle.
Plain(f) == f # <<>> /\ \A i \in 1..Len(f) : ~Signal(f[i])
Begun(f) == f # <<>> /\ f[1].t = "busy" /\ \A i \in 2..Len(f) : ~Signal(f[i])
Round(f) ==
  /\ Len(f) > 1 /\ f[1].t = "busy" /\ f[Len(f)].t = "idle"
  /\ \A i \in 2..(Len(f) - 1) : ~Signal(f[i])

\* What each event carries.
EventShape(e) ==
  /\ e.type = "started" => ~e.execution /\ e.frames = <<Frame("busy", 0)>>
  /\ e.type = "bootstrap" =>
       /\ ~e.execution
       /\ e.frames = IF e.negotiated THEN <<Frame("bootstrap", 0), Frame("idle", 0)>>
                                     ELSE <<Frame("bootstrap", 0)>>
  /\ e.type = "messages" => Plain(e.frames) \/ Round(e.frames)
  /\ e.type = "failure" => e.frames = <<>>

\* The last signal before an event is delivered, and after it.
Before(e) ==
  CASE e.type = "bootstrap" -> "none"
    [] e.type = "messages" /\ e.execution /\ e.frames[1].t = "busy" -> "busy"
    [] OTHER -> "idle"
Afterwards(e) ==
  CASE e.type = "failure" -> "lost"
    [] e.type = "started" -> "busy"
    [] e.type = "bootstrap" /\ ~e.negotiated -> "none"
    [] OTHER -> "idle"

\* The worker may still send events.
Sending == wpc \in {"none", "recv", "check", "bootstrap", "bootstrapped", "handle", "kernel", "stopcheck"}

\* The execution in hand has been announced.
Announced ==
  /\ wpc = "kernel" /\ req.kind \in ExecutionKinds
  /\ kpc \in {"engine", "judge", "mark", "idle"} \/ (kpc = "answered" /\ Round(msgs))

\* The last signal of all events sent so far.
Said ==
  IF Announced THEN "busy"
  ELSE IF negotiated = None \/ wpc = "bootstrapped" THEN "none" ELSE "idle"

\* The types that ServerType leaves out.
ChannelType ==
  /\ Len(queue) <= Capacity /\ events \in Seq(WorkerEvents) /\ out \in Seq(Frames)
  /\ negotiatedHere \in BOOLEAN /\ registered \in BOOLEAN /\ boots \in Nat /\ ints \in Nat

\* The messages of the request in hand.
BatchInv ==
  /\ wpc = "kernel" => negotiated # None
  /\ wpc = "kernel" /\ kpc \in {"engine", "judge", "mark", "idle"} => Begun(msgs)
  /\ wpc = "kernel" /\ kpc \in {"judge", "mark"} => req.kind \in ExecutionKinds
  /\ wpc = "kernel" /\ kpc = "answered" => Plain(msgs) \/ Round(msgs)
  /\ wpc = "bootstrapped" =>
       msgs = IF negotiated # None THEN <<Frame("bootstrap", 0), Frame("idle", 0)>>
                                   ELSE <<Frame("bootstrap", 0)>>

\* The events in the channel follow on each other, and the last one on what
\* the worker does.
EventsInv ==
  /\ \A i \in 1..Len(events) : EventShape(events[i])
  /\ \A i \in 2..Len(events) :
       events[i].type # "failure" => Afterwards(events[i - 1]) = Before(events[i])
  /\ events # <<>> /\ Sending => Afterwards(events[Len(events)]) = Said
  /\ session = "none" => events = <<>>

\* What was written follows on each other too, and while the connection goes
\* on the first event in the channel follows on it.
WrittenInv ==
  /\ Alternates(out)
  /\ Open /\ events # <<>> => events[1].type = "failure" \/ LastIs(out, Before(events[1]))
  /\ Open /\ events = <<>> /\ Sending => LastIs(out, Said)

StreamInv == ChannelType /\ BatchInv /\ EventsInv /\ WrittenInv
----------------------------------------------------------------------------
\* Frames that are no signals change nothing of what the client knows.
LEMMA ConcatPlain ==
  ASSUME NEW s \in Seq(Frames), NEW d \in Seq(Frames), NEW r, r = s \o d, NEW a,
         Alternates(s), \A i \in 1..Len(d) : ~Signal(d[i])
  PROVE  r \in Seq(Frames) /\ Alternates(r) /\ (LastIs(s, a) => LastIs(r, a))
<1>1. /\ r \in Seq(Frames) /\ Len(s) \in Nat /\ Len(d) \in Nat /\ Len(r) = Len(s) + Len(d)
      /\ \A i \in 1..Len(s) : r[i] = s[i]
      /\ \A i \in 1..Len(d) : r[Len(s) + i] = d[i]
  OBVIOUS
<1>2. \A i \in 1..Len(r) : i \notin 1..Len(s) => i - Len(s) \in 1..Len(d) /\ r[i] = d[i - Len(s)]
  BY <1>1
<1>3. \A i \in 1..Len(r) : Signal(r[i]) => i \in 1..Len(s)
  BY <1>2
<1>4. ASSUME NEW i \in 1..Len(r), Signal(r[i])
      PROVE  /\ (\A j \in 1..(i - 1) : ~Signal(r[j])) => r[i].t = "idle"
             /\ \A j \in 1..(i - 1) :
                  Signal(r[j]) /\ (\A k \in (j + 1)..(i - 1) : ~Signal(r[k])) => r[j].t # r[i].t
  <2>1. i \in 1..Len(s) /\ r[i] = s[i] /\ \A j \in 1..(i - 1) : j \in 1..Len(s) /\ r[j] = s[j]
    BY <1>1, <1>3, <1>4
  <2>2. (\A j \in 1..(i - 1) : ~Signal(s[j])) => s[i].t = "idle"
    BY <1>4, <2>1 DEF Alternates
  <2>3. \A j \in 1..(i - 1) :
          Signal(s[j]) /\ (\A k \in (j + 1)..(i - 1) : ~Signal(s[k])) => s[j].t # s[i].t
    BY <1>4, <2>1 DEF Alternates
  <2>4. ASSUME NEW j \in 1..(i - 1), Signal(r[j]), \A k \in (j + 1)..(i - 1) : ~Signal(r[k])
        PROVE  r[j].t # r[i].t
    <3>1. \A k \in (j + 1)..(i - 1) : k \in 1..(i - 1)
      BY <1>1
    <3>2. \A k \in (j + 1)..(i - 1) : ~Signal(s[k])
      BY <2>1, <2>4, <3>1
    <3> QED
      BY <2>1, <2>3, <2>4, <3>2
  <2> QED
    BY <2>1, <2>2, <2>4
<1>5. Alternates(r)
  BY <1>4 DEF Alternates
<1>6. ASSUME LastIs(s, a) PROVE LastIs(r, a)
  <2>1. CASE a = "none" /\ \A i \in 1..Len(s) : ~Signal(s[i])
    BY <1>1, <1>3, <2>1 DEF LastIs
  <2>2. ASSUME NEW i \in 1..Len(s), Signal(s[i]), s[i].t = a, \A j \in (i + 1)..Len(s) : ~Signal(s[j])
        PROVE  LastIs(r, a)
    <3>1. i \in 1..Len(r) /\ Signal(r[i]) /\ r[i].t = a
      BY <1>1, <2>2
    <3>2. ASSUME NEW j \in (i + 1)..Len(r) PROVE ~Signal(r[j])
      <4>1. j \in 1..Len(r)
        BY <1>1
      <4>2. CASE j \in 1..Len(s)
        BY <1>1, <2>2, <4>2
      <4>3. CASE j \notin 1..Len(s)
        BY <1>3, <4>1, <4>3
      <4> QED
        BY <4>2, <4>3
    <3> QED
      BY <3>1, <3>2 DEF LastIs
  <2> QED
    BY <1>6, <2>1, <2>2 DEF LastIs
<1> QED
  BY <1>1, <1>5, <1>6

\* Frames whose one signal is the last: it must be the other one, or the
\* first idle.
LEMMA ConcatEnding ==
  ASSUME NEW s \in Seq(Frames), NEW d \in Seq(Frames), NEW r, r = s \o d, NEW a, NEW b,
         Alternates(s), LastIs(s, a), d # <<>>, d[Len(d)].t = b,
         \A i \in 1..(Len(d) - 1) : ~Signal(d[i]),
         b \in {"busy", "idle"}, a = "none" => b = "idle", a # b
  PROVE  r \in Seq(Frames) /\ Alternates(r) /\ LastIs(r, b)
<1>1. /\ r \in Seq(Frames) /\ Len(s) \in Nat /\ Len(d) \in Nat /\ Len(r) = Len(s) + Len(d)
      /\ Len(d) > 0
      /\ \A i \in 1..Len(s) : r[i] = s[i]
      /\ \A i \in 1..Len(d) : r[Len(s) + i] = d[i]
  OBVIOUS
<1>2. r[Len(r)].t = b /\ Signal(r[Len(r)]) /\ Len(r) \in 1..Len(r)
  BY <1>1 DEF Signal
<1>3. ASSUME NEW i \in 1..(Len(r) - 1), i \notin 1..Len(s) PROVE ~Signal(r[i])
  <2>1. i - Len(s) \in 1..(Len(d) - 1) /\ i - Len(s) \in 1..Len(d) /\ i = Len(s) + (i - Len(s))
    BY <1>1, <1>3
  <2>2. r[i] = d[i - Len(s)]
    BY <1>1, <2>1
  <2> QED
    BY <2>1, <2>2
<1>4. ASSUME NEW i \in 1..Len(r), Signal(r[i])
      PROVE  /\ (\A j \in 1..(i - 1) : ~Signal(r[j])) => r[i].t = "idle"
             /\ \A j \in 1..(i - 1) :
                  Signal(r[j]) /\ (\A k \in (j + 1)..(i - 1) : ~Signal(r[k])) => r[j].t # r[i].t
  <2>1. CASE i \in 1..Len(s)
    <3>1. r[i] = s[i] /\ \A j \in 1..(i - 1) : j \in 1..Len(s) /\ r[j] = s[j]
      BY <1>1, <2>1
    <3>2. (\A j \in 1..(i - 1) : ~Signal(s[j])) => s[i].t = "idle"
      BY <1>4, <2>1, <3>1 DEF Alternates
    <3>3. \A j \in 1..(i - 1) :
            Signal(s[j]) /\ (\A k \in (j + 1)..(i - 1) : ~Signal(s[k])) => s[j].t # s[i].t
      BY <1>4, <2>1, <3>1 DEF Alternates
    <3>4. ASSUME NEW j \in 1..(i - 1), Signal(r[j]), \A k \in (j + 1)..(i - 1) : ~Signal(r[k])
          PROVE  r[j].t # r[i].t
      <4>1. \A k \in (j + 1)..(i - 1) : k \in 1..(i - 1)
        BY <1>1
      <4>2. \A k \in (j + 1)..(i - 1) : ~Signal(s[k])
        BY <3>1, <3>4, <4>1
      <4> QED
        BY <3>1, <3>3, <3>4, <4>2
    <3> QED
      BY <3>1, <3>2, <3>4
  <2>2. CASE i \notin 1..Len(s)
    <3>0. i \notin 1..(Len(r) - 1)
      BY <1>3, <1>4, <2>2
    <3>1. i = Len(r)
      <4>1. i \in Nat /\ 1 <= i /\ i <= Len(r) /\ Len(r) \in Nat
        BY <1>1
      <4> QED
        BY <3>0, <4>1
    <3>2. ASSUME \A j \in 1..(i - 1) : ~Signal(r[j]) PROVE r[i].t = "idle"
      <4>0. \A j \in 1..Len(s) : j \in 1..(i - 1)
        BY <1>1, <3>1
      <4>1. \A j \in 1..Len(s) : ~Signal(s[j])
        BY <1>1, <3>2, <4>0
      <4>2. a = "none"
        BY <4>1 DEF LastIs
      <4> QED
        BY <1>2, <3>1, <4>2
    <3>3. ASSUME NEW j \in 1..(i - 1), Signal(r[j]), \A k \in (j + 1)..(i - 1) : ~Signal(r[k])
          PROVE  r[j].t # r[i].t
      <4>1. j \in 1..Len(s) /\ r[j] = s[j]
        BY <1>1, <1>3, <3>1, <3>3
      <4>2. ASSUME NEW k \in (j + 1)..Len(s) PROVE ~Signal(s[k])
        <5>1. k \in (j + 1)..(i - 1) /\ k \in 1..Len(s)
          BY <1>1, <3>1, <4>1
        <5> QED
          BY <1>1, <3>3, <5>1
      <4>3. PICK m \in 1..Len(s) : Signal(s[m]) /\ s[m].t = a /\ \A k \in (m + 1)..Len(s) : ~Signal(s[k])
        BY <3>3, <4>1 DEF LastIs
      <4>4. m = j
        BY <1>1, <3>3, <4>1, <4>2, <4>3
      <4> QED
        BY <1>2, <3>1, <4>1, <4>3, <4>4
    <3> QED
      BY <3>2, <3>3
  <2> QED
    BY <2>1, <2>2
<1>5. Alternates(r)
  BY <1>4 DEF Alternates
<1>6. \A j \in (Len(r) + 1)..Len(r) : ~Signal(r[j])
  BY <1>1
<1> QED
  BY <1>1, <1>2, <1>5, <1>6 DEF LastIs

\* A write that fails half way leaves a prefix, which alternates as well.
LEMMA PrefixAlternates ==
  ASSUME NEW s \in Seq(Frames), NEW d \in Seq(Frames), Alternates(s \o d),
         NEW n \in 0..(Len(d) - 1), NEW r, r = s \o SubSeq(d, 1, n)
  PROVE  r \in Seq(Frames) /\ Alternates(r)
<1>1. PICK q : q = s \o d
  OBVIOUS
<1>2. /\ q \in Seq(Frames) /\ r \in Seq(Frames) /\ Len(r) = Len(s) + n /\ Len(q) = Len(s) + Len(d)
      /\ Len(s) \in Nat /\ Len(d) \in Nat /\ n \in Nat
  BY <1>1
<1>3. \A i \in 1..Len(r) : i \in 1..Len(q) /\ r[i] = q[i]
  BY <1>1, <1>2
<1>4. ASSUME NEW i \in 1..Len(r), Signal(r[i])
      PROVE  /\ (\A j \in 1..(i - 1) : ~Signal(r[j])) => r[i].t = "idle"
             /\ \A j \in 1..(i - 1) :
                  Signal(r[j]) /\ (\A k \in (j + 1)..(i - 1) : ~Signal(r[k])) => r[j].t # r[i].t
  <2>1. \A j \in 1..(i - 1) : j \in 1..Len(r)
    BY <1>2
  <2>2. /\ i \in 1..Len(q) /\ r[i] = q[i] /\ \A j \in 1..(i - 1) : r[j] = q[j]
    BY <1>3, <2>1
  <2>3. /\ (\A j \in 1..(i - 1) : ~Signal(q[j])) => q[i].t = "idle"
        /\ \A j \in 1..(i - 1) :
             Signal(q[j]) /\ (\A k \in (j + 1)..(i - 1) : ~Signal(q[k])) => q[j].t # q[i].t
    BY <1>1, <1>4, <2>2 DEF Alternates
  <2>4. ASSUME NEW j \in 1..(i - 1), Signal(r[j]), \A k \in (j + 1)..(i - 1) : ~Signal(r[k])
        PROVE  r[j].t # r[i].t
    <3>1. \A k \in (j + 1)..(i - 1) : k \in 1..(i - 1)
      BY <1>2
    <3>2. \A k \in (j + 1)..(i - 1) : ~Signal(q[k])
      BY <2>2, <2>4, <3>1
    <3> QED
      BY <2>2, <2>3, <2>4, <3>2
  <2> QED
    BY <2>2, <2>3, <2>4
<1> QED
  BY <1>2, <1>4 DEF Alternates

\* A sequence is its first element and the rest.
LEMMA HeadTail ==
  ASSUME NEW S, NEW f \in Seq(S), Len(f) > 0, NEW h, h = <<f[1]>>, NEW g, g = Tail(f)
  PROVE  f = h \o g
<1>1. PICK r : r = h \o g
  OBVIOUS
<1>2. f \in [1..Len(f) -> S] /\ Len(f) \in Nat
  OBVIOUS
<1>3. h \in Seq(S) /\ Len(h) = 1 /\ h[1] = f[1] /\ g \in Seq(S) /\ Len(g) = Len(f) - 1
  BY <1>2
<1>4. r \in Seq(S) /\ Len(r) = Len(f)
  BY <1>1, <1>2, <1>3
<1>5. r \in [1..Len(f) -> S]
  BY <1>4
<1>6. ASSUME NEW i \in 1..Len(f) PROVE r[i] = f[i]
  <2>1. CASE i = 1
    BY <1>1, <1>3, <2>1
  <2>2. CASE i # 1
    <3>1. i - 1 \in 1..Len(g) /\ i - 1 + 1 = i /\ i = Len(h) + (i - 1)
      BY <1>2, <1>3, <2>2
    <3>2. r[Len(h) + (i - 1)] = g[i - 1]
      BY <1>1, <1>3, <3>1
    <3>3. g[i - 1] = f[i - 1 + 1]
      BY <3>1
    <3> QED
      BY <3>1, <3>2, <3>3
  <2> QED
    BY <2>1, <2>2
<1> QED
  BY <1>1, <1>2, <1>5, <1>6

\* An event that follows on what was written keeps the signals alternating.
LEMMA EventDelivered ==
  ASSUME NEW e \in WorkerEvents, EventShape(e), e.type # "failure",
         NEW s \in Seq(Frames), Alternates(s), LastIs(s, Before(e)), NEW r, r = s \o Delivered(e)
  PROVE  /\ Delivered(e) \in Seq(Frames) /\ r \in Seq(Frames)
         /\ Alternates(r) /\ LastIs(r, Afterwards(e))
<1>1. PICK f : f = e.frames
  OBVIOUS
<1>2. f \in Seq(Frames) /\ e.type \in {"started", "bootstrap", "messages"} /\ e.execution \in BOOLEAN
      /\ e.negotiated \in BOOLEAN
  BY <1>1 DEF WorkerEvents
<1>3. CASE e.type = "started"
  <2>1. f = <<Frame("busy", 0)>> /\ Delivered(e) = f
    BY <1>1, <1>3 DEF EventShape, Delivered
  <2>2. Before(e) = "idle" /\ Afterwards(e) = "busy"
    BY <1>3 DEF Before, Afterwards
  <2>3. f # <<>> /\ f[Len(f)].t = "busy" /\ \A i \in 1..(Len(f) - 1) : ~Signal(f[i])
    BY <2>1 DEF Frame
  <2> QED
    BY <1>2, <2>1, <2>2, <2>3, ConcatEnding
<1>4. CASE e.type = "bootstrap"
  <2>1. Delivered(e) = f /\ Before(e) = "none"
    BY <1>1, <1>4 DEF EventShape, Delivered, Before
  <2>2. CASE e.negotiated
    <3>1. f = <<Frame("bootstrap", 0), Frame("idle", 0)>> /\ Afterwards(e) = "idle"
      BY <1>1, <1>4, <2>2 DEF EventShape, Afterwards
    <3>2. f # <<>> /\ f[Len(f)].t = "idle" /\ \A i \in 1..(Len(f) - 1) : ~Signal(f[i])
      BY <3>1 DEF Frame, Signal
    <3> QED
      BY <1>2, <2>1, <3>1, <3>2, ConcatEnding
  <2>3. CASE ~e.negotiated
    <3>1. f = <<Frame("bootstrap", 0)>> /\ Afterwards(e) = "none"
      BY <1>1, <1>4, <2>3 DEF EventShape, Afterwards
    <3>2. \A i \in 1..Len(f) : ~Signal(f[i])
      BY <3>1 DEF Frame, Signal
    <3> QED
      <4>1. PICK a : a = "none"
        OBVIOUS
      <4>2. LastIs(s, a) /\ r = s \o f
        BY <2>1, <4>1
      <4>3. r \in Seq(Frames) /\ Alternates(r) /\ LastIs(r, a)
        BY <1>2, <3>2, <4>2, ConcatPlain
      <4> QED
        BY <1>2, <2>1, <3>1, <4>1, <4>3
  <2> QED
    BY <2>2, <2>3
<1>5. CASE e.type = "messages"
  <2>0. Afterwards(e) = "idle"
    BY <1>5 DEF Afterwards
  <2>1. CASE Plain(f)
    <3>1. f # <<>> /\ \A i \in 1..Len(f) : ~Signal(f[i])
      BY <2>1 DEF Plain
    <3>2. f[1].t # "busy" /\ Head(f) = f[1]
      BY <1>2, <3>1 DEF Signal
    <3>3. Delivered(e) = f /\ Before(e) = "idle"
      BY <1>1, <1>5, <3>2 DEF Delivered, Before
    <3> QED
      BY <1>2, <2>0, <3>1, <3>3, ConcatPlain
  <2>2. CASE Round(f)
    <3>1. /\ Len(f) > 1 /\ f[1].t = "busy" /\ f[Len(f)].t = "idle"
          /\ \A i \in 2..(Len(f) - 1) : ~Signal(f[i])
      BY <2>2 DEF Round
    <3>2. PICK g : g = Tail(f)
      OBVIOUS
    <3>3. /\ g \in Seq(Frames) /\ Len(g) = Len(f) - 1 /\ \A i \in 1..Len(g) : g[i] = f[i + 1]
          /\ Len(f) \in Nat
      BY <1>2, <3>1, <3>2
    <3>4. g # <<>> /\ g[Len(g)].t = "idle"
      BY <3>1, <3>3
    <3>5. \A i \in 1..(Len(g) - 1) : ~Signal(g[i])
      <4>1. TAKE i \in 1..(Len(g) - 1)
      <4>2. i + 1 \in 2..(Len(f) - 1) /\ i \in 1..Len(g)
        <5>1. Len(g) \in Nat /\ Len(f) = Len(g) + 1
          BY <3>3
        <5> QED
          BY <5>1
      <4>3. g[i] = f[i + 1]
        BY <3>3, <4>2
      <4> QED
        BY <3>1, <4>2, <4>3
    <3>6. CASE e.execution
      <4>1. Head(f) = f[1]
        BY <1>2, <3>1
      <4>2. Delivered(e) = g /\ Before(e) = "busy"
        BY <1>1, <1>5, <3>1, <3>2, <3>6, <4>1 DEF Delivered, Before
      <4> QED
        BY <2>0, <3>3, <3>4, <3>5, <4>2, ConcatEnding
    <3>7. CASE ~e.execution
      <4>1. Delivered(e) = f /\ Before(e) = "idle"
        BY <1>1, <1>5, <3>7 DEF Delivered, Before
      <4>2. PICK h : h = <<f[1]>>
        OBVIOUS
      <4>3. /\ h \in Seq(Frames) /\ h # <<>> /\ h[Len(h)].t = "busy"
            /\ \A i \in 1..(Len(h) - 1) : ~Signal(h[i])
        BY <1>2, <3>1, <4>2
      <4>4. PICK q : q = s \o h
        OBVIOUS
      <4>5. q \in Seq(Frames) /\ Alternates(q) /\ LastIs(q, "busy")
        BY <4>1, <4>3, <4>4, ConcatEnding
      <4>6. r = q \o g
        <5>1. f = h \o g
          BY <1>2, <3>1, <3>2, <3>3, <4>2, HeadTail
        <5>2. (s \o h) \o g = s \o (h \o g)
          BY <3>3, <4>3, ConcatAssociative
        <5>3. r = s \o f
          BY <4>1
        <5> QED
          BY <4>4, <5>1, <5>2, <5>3
      <4>7. r \in Seq(Frames) /\ Alternates(r) /\ LastIs(r, "idle")
        BY <3>3, <3>4, <3>5, <4>5, <4>6, ConcatEnding
      <4> QED
        BY <1>2, <2>0, <4>1, <4>7
    <3> QED
      BY <1>2, <3>6, <3>7
  <2> QED
    BY <1>1, <1>5, <2>1, <2>2 DEF EventShape
<1> QED
  BY <1>2, <1>3, <1>4, <1>5
----------------------------------------------------------------------------
\* A step that sends and delivers nothing, and after which the worker has the
\* same to say, keeps the stream.
LEMMA StreamStays ==
  ASSUME EventsInv, WrittenInv, UNCHANGED <<events, out>>, Open' => Open,
         Sending' => Sending /\ Said' = Said, session' = "none" => session = "none"
  PROVE  EventsInv' /\ WrittenInv'
<1>1. EventsInv'
  BY DEF EventsInv
<1>2. WrittenInv'
  BY DEF WrittenInv
<1> QED
  BY <1>1, <1>2

\* The worker sends an event that follows on what it said before.
LEMMA StreamGrows ==
  ASSUME EventsInv, WrittenInv, Sending, session # "none", events \in Seq(WorkerEvents),
         NEW e \in WorkerEvents, EventShape(e), e.type = "failure" \/ Before(e) = Said,
         events' = Append(events, e), UNCHANGED <<out, cpc, session>>,
         Sending' => Afterwards(e) = Said'
  PROVE  events' \in Seq(WorkerEvents) /\ EventsInv' /\ WrittenInv'
<1>1. /\ events' \in Seq(WorkerEvents) /\ Len(events') = Len(events) + 1 /\ Len(events) \in Nat
      /\ events'[Len(events')] = e /\ \A i \in 1..Len(events) : events'[i] = events[i]
      /\ events' # <<>>
  OBVIOUS
<1>2. \A i \in 1..Len(events') : i \in 1..Len(events) \/ i = Len(events')
  BY <1>1
<1>3. \A i \in 1..Len(events') : EventShape(events'[i])
  BY <1>1, <1>2 DEF EventsInv
<1>4. ASSUME NEW i \in 2..Len(events'), events'[i].type # "failure"
      PROVE  Afterwards(events'[i - 1]) = Before(events'[i])
  <2>1. CASE i \in 1..Len(events)
    <3>1. i \in 2..Len(events) /\ i - 1 \in 1..Len(events)
      BY <1>1, <2>1
    <3> QED
      BY <1>1, <1>4, <2>1, <3>1 DEF EventsInv
  <2>2. CASE i = Len(events')
    <3>1. i - 1 = Len(events) /\ Len(events) \in 1..Len(events) /\ events # <<>>
      BY <1>1, <2>2
    <3>2. Afterwards(events[Len(events)]) = Said
      BY <3>1 DEF EventsInv
    <3> QED
      BY <1>1, <1>4, <2>2, <3>1, <3>2
  <2> QED
    BY <1>1, <2>1, <2>2
<1>5. EventsInv'
  BY <1>1, <1>3, <1>4 DEF EventsInv
<1>6. ASSUME Open PROVE events'[1].type = "failure" \/ LastIs(out, Before(events'[1]))
  <2>1. CASE events = <<>>
    <3>1. events'[1] = e
      BY <1>1, <2>1
    <3> QED
      BY <1>6, <2>1, <3>1 DEF WrittenInv
  <2>2. CASE events # <<>>
    <3>1. events'[1] = events[1]
      BY <1>1, <2>2
    <3> QED
      BY <1>6, <2>2, <3>1 DEF WrittenInv
  <2> QED
    BY <2>1, <2>2
<1>7. Open' <=> Open
  BY DEF Open
<1>8. WrittenInv'
  BY <1>1, <1>6, <1>7 DEF WrittenInv
<1> QED
  BY <1>1, <1>5, <1>8

\* The events the worker can send are of the right type and shape.
LEMMA EventFacts ==
  /\ Started \in WorkerEvents /\ EventShape(Started) /\ Before(Started) = "idle" /\ Afterwards(Started) = "busy"
  /\ Failure \in WorkerEvents /\ EventShape(Failure) /\ Failure.type = "failure"
  /\ \A f \in Seq(Frames), x \in BOOLEAN, d \in BOOLEAN :
       /\ Messages(f, x, d) \in WorkerEvents /\ Messages(f, x, d).type = "messages"
       /\ Messages(f, x, d).frames = f /\ Messages(f, x, d).execution = x
  /\ \A f \in Seq(Frames), n \in BOOLEAN :
       /\ BootstrapEvent(f, n) \in WorkerEvents /\ BootstrapEvent(f, n).type = "bootstrap"
       /\ BootstrapEvent(f, n).frames = f /\ BootstrapEvent(f, n).negotiated = n
       /\ BootstrapEvent(f, n).execution = FALSE
<1>0. Frame("busy", 0) \in Frames
  BY DEF Frame, Frames, FrameTypes
<1>1. Started \in WorkerEvents
  BY <1>0 DEF Started, Event, WorkerEvents
<1>2. EventShape(Started) /\ Before(Started) = "idle" /\ Afterwards(Started) = "busy"
  BY DEF Started, Event, EventShape, Before, Afterwards
<1>3. Failure \in WorkerEvents
  BY DEF Failure, Event, WorkerEvents
<1>4. EventShape(Failure) /\ Failure.type = "failure"
  BY DEF Failure, Event, EventShape
<1>5. \A f \in Seq(Frames), x \in BOOLEAN, d \in BOOLEAN :
       /\ Messages(f, x, d) \in WorkerEvents /\ Messages(f, x, d).type = "messages"
       /\ Messages(f, x, d).frames = f /\ Messages(f, x, d).execution = x
  BY DEF Messages, Event, WorkerEvents
<1>6. \A f \in Seq(Frames), n \in BOOLEAN :
       /\ BootstrapEvent(f, n) \in WorkerEvents /\ BootstrapEvent(f, n).type = "bootstrap"
       /\ BootstrapEvent(f, n).frames = f /\ BootstrapEvent(f, n).negotiated = n
       /\ BootstrapEvent(f, n).execution = FALSE
  BY DEF BootstrapEvent, Event, WorkerEvents
<1> QED
  BY <1>1, <1>2, <1>3, <1>4, <1>5, <1>6
----------------------------------------------------------------------------
\* A worker that is not in a request says what the negotiation left.
LEMMA SaidOutside ==
  ASSUME wpc \notin {"kernel", "bootstrapped"}
  PROVE  Said = IF negotiated = None THEN "none" ELSE "idle"
BY DEF Said, Announced

\* The worker takes a command, checks the flag, or goes: it sends nothing.
LEMMA WorkerMovesStream ==
  ASSUME ServerInv, StreamInv,
         Receive \/ HangUp \/ CheckStopping \/ FinishCheckStopping \/ OrderlyStop \/ WorkerExits
  PROVE  StreamInv'
<1>1. /\ UNCHANGED <<events, session, cpc, negotiatedHere, registered, boots, ints, out>>
      /\ wpc' \notin {"kernel", "bootstrapped"}
      /\ Sending' => Sending /\ wpc \notin {"kernel", "bootstrapped"} /\ negotiated' = negotiated
  BY DEF Receive, HangUp, CheckStopping, FinishCheckStopping, OrderlyStop, WorkerExits, Sending,
         channels, connection, record, kernelVars
<1>2. Len(queue') <= Capacity
  <2>1. queue \in Seq(Commands) /\ Len(queue) \in Nat /\ Len(queue) <= Capacity
    BY DEF ServerInv, ServerType, StreamInv, ChannelType
  <2>2. queue' = queue \/ (queue # <<>> /\ queue' = Tail(queue))
    BY DEF Receive, HangUp, CheckStopping, FinishCheckStopping, OrderlyStop, WorkerExits, channels
  <2> QED
    BY <2>1, <2>2, CapacityAssumption
<1>3. ChannelType' /\ BatchInv'
  BY <1>1, <1>2 DEF StreamInv, ChannelType, BatchInv
<1>4. Said' = IF negotiated' = None THEN "none" ELSE "idle"
  BY <1>1 DEF Said, Announced
<1>5. Sending' => Said' = Said
  BY <1>1, <1>4, SaidOutside
<1>6. Open' => Open
  BY <1>1 DEF Open
<1>7. EventsInv' /\ WrittenInv'
  BY <1>1, <1>5, <1>6, StreamStays DEF StreamInv
<1> QED
  BY <1>3, <1>7 DEF StreamInv

\* A step that leaves the worker and its request alone.
LEMMA SaidStays ==
  ASSUME BatchInv, UNCHANGED <<wpc, kpc, req, msgs, negotiated>>
  PROVE  BatchInv' /\ Said' = Said /\ (Sending' <=> Sending)
BY DEF BatchInv, Said, Announced, Sending

\* The connection reads, interrupts, queues a command or stops: it writes
\* nothing and reads no more once it began to stop.
LEMMA ConnectionMovesStream ==
  ASSUME ServerInv, StreamInv,
         \/ DrainedAll \/ ReadNothing \/ ReadClose \/ ConnectionInterruptStep \/ StopCheck \/ StopFlag
         \/ StopInterrupt \/ SendStop \/ Join \/ ReadBootstrap \/ ReadRequest \/ ReadInterrupt
  PROVE  StreamInv'
<1>1. UNCHANGED <<events, session, wpc, negotiatedHere, out>>
  BY DEF DrainedAll, ReadNothing, ReadClose, ConnectionInterruptStep, StopCheck, StopFlag, StopInterrupt,
         SendStop, Join, ReadBootstrap, ReadRequest, ReadInterrupt, channels, worker, connection, record
<1>2. UNCHANGED <<kpc, req, msgs, negotiated>>
  BY DEF DrainedAll, ReadNothing, ReadClose, ConnectionInterruptStep, StopCheck, StopFlag, StopInterrupt,
         SendStop, Join, ReadBootstrap, ReadRequest, ReadInterrupt, kernelVars, local,
         InterruptLoad, InterruptStep, InterruptCancel, InterruptStore, TakeInterrupt
<1>3. registered' \in BOOLEAN
  BY DEF DrainedAll, ReadNothing, ReadClose, ConnectionInterruptStep, StopCheck, StopFlag, StopInterrupt,
         SendStop, Join, ReadBootstrap, ReadRequest, ReadInterrupt, connection, StreamInv, ChannelType
<1>4. boots' \in Nat /\ ints' \in Nat
  BY DEF DrainedAll, ReadNothing, ReadClose, ConnectionInterruptStep, StopCheck, StopFlag, StopInterrupt,
         SendStop, Join, ReadBootstrap, ReadRequest, ReadInterrupt, record, StreamInv, ChannelType
<1>5. Open' => Open
  BY DEF Open, DrainedAll, ReadNothing, ReadClose, Leave, ConnectionInterruptStep, StopCheck, StopFlag,
         StopInterrupt, SendStop, Join, ReadBootstrap, ReadRequest, ReadInterrupt, connection
<1>6. Len(queue') <= Capacity
  <2>1. queue \in Seq(Commands) /\ Len(queue) \in Nat /\ Len(queue) <= Capacity
    BY DEF ServerInv, ServerType, StreamInv, ChannelType
  <2>2. queue' = queue \/ (Len(queue) < Capacity /\ \E c : queue' = Append(queue, c))
    BY DEF DrainedAll, ReadNothing, ReadClose, ConnectionInterruptStep, StopCheck, StopFlag, StopInterrupt,
           SendStop, Join, ReadBootstrap, ReadRequest, ReadInterrupt, TrySend, channels
  <2> QED
    BY <2>1, <2>2, CapacityAssumption
<1>7. ChannelType'
  BY <1>1, <1>3, <1>4, <1>6 DEF StreamInv, ChannelType
<1>8. BatchInv' /\ Said' = Said /\ (Sending' <=> Sending)
  BY <1>1, <1>2, SaidStays DEF StreamInv
<1>9. EventsInv' /\ WrittenInv'
  BY <1>1, <1>5, <1>8, StreamStays DEF StreamInv
<1> QED
  BY <1>7, <1>8, <1>9 DEF StreamInv

\* A bootstrap is answered, or the worker goes with a failure.
LEMMA WorkerBootstrapStream ==
  ASSUME ServerInv, StreamInv, WorkerBootstrap
  PROVE  StreamInv'
<1>1. /\ UNCHANGED <<queue, session, cpc, negotiatedHere, registered, boots, ints, out>>
      /\ wpc = "bootstrap" /\ session # "none" /\ Sending
  BY DEF WorkerBootstrap, connection, record, Sending, ServerInv, SessionControl
<1>2. CASE wpc' = "bootstrapped" /\ UNCHANGED events /\ \E p \in Protocols \cup {None} : Bootstrap(p)
  <2>1. negotiated = None
    BY <1>2 DEF Bootstrap
  <2>2. Said = "none" /\ Said' = "none"
    BY <1>1, <1>2, <2>1 DEF Said, Announced
  <2>3. BatchInv'
    BY <1>2, <2>1 DEF BatchInv, Bootstrap
  <2>4. ChannelType'
    BY <1>1, <1>2 DEF StreamInv, ChannelType
  <2>5. Open' => Open
    BY <1>1 DEF Open
  <2>6. EventsInv' /\ WrittenInv'
    BY <1>1, <1>2, <2>2, <2>5, StreamStays DEF StreamInv
  <2> QED
    BY <2>3, <2>4, <2>6 DEF StreamInv
<1>3. CASE wpc' = "exited" /\ events' = Append(events, Failure)
  <2>1. ~Sending' /\ BatchInv'
    BY <1>3 DEF Sending, BatchInv
  <2>2. events' \in Seq(WorkerEvents) /\ EventsInv' /\ WrittenInv'
    BY <1>1, <1>3, <2>1, EventFacts, StreamGrows DEF StreamInv, ChannelType
  <2> QED
    BY <1>1, <2>1, <2>2 DEF StreamInv, ChannelType
<1> QED
  BY <1>2, <1>3 DEF WorkerBootstrap

\* The bootstrap's answer is sent: the first idle, if a protocol was chosen.
LEMMA SendBootstrapStream ==
  ASSUME ServerInv, StreamInv, SendBootstrap
  PROVE  StreamInv'
<1>1. /\ UNCHANGED <<queue, session, cpc, negotiatedHere, registered, boots, ints, out, negotiated>>
      /\ wpc = "bootstrapped" /\ wpc' = "recv" /\ session # "none" /\ Sending
  BY DEF SendBootstrap, TakeAnswer, connection, record, Sending, ServerInv, SessionControl
<1>2. PICK n \in BOOLEAN : n <=> negotiated # None
  OBVIOUS
<1>3. PICK e : e = BootstrapEvent(msgs, n)
  OBVIOUS
<1>4. msgs \in Seq(Frames)
  BY DEF ServerInv, ServerType, KernelTypeOK
<1>5. /\ e \in WorkerEvents /\ e.type = "bootstrap" /\ e.frames = msgs /\ e.negotiated = n
      /\ e.execution = FALSE
  BY <1>3, <1>4, EventFacts
<1>6. msgs = IF n THEN <<Frame("bootstrap", 0), Frame("idle", 0)>> ELSE <<Frame("bootstrap", 0)>>
  BY <1>1, <1>2 DEF StreamInv, BatchInv
<1>7. EventShape(e)
  BY <1>5, <1>6 DEF EventShape
<1>8. events' = Append(events, e)
  BY <1>2, <1>3 DEF SendBootstrap
<1>9. Before(e) = Said
  BY <1>1, <1>5 DEF Before, Said, Announced
<1>10. Afterwards(e) = Said'
  BY <1>1, <1>2, <1>5 DEF Afterwards, Said, Announced
<1>11. events' \in Seq(WorkerEvents) /\ EventsInv' /\ WrittenInv'
  BY <1>1, <1>5, <1>7, <1>8, <1>9, <1>10, StreamGrows DEF StreamInv, ChannelType
<1>12. BatchInv'
  BY <1>1 DEF BatchInv
<1> QED
  BY <1>1, <1>11, <1>12 DEF StreamInv, ChannelType

\* The answers without a signal: a refusal, and that of a shutdown.
LEMMA AnswerPlain ==
  ASSUME NEW i, NEW f, f = <<Frame("reply", i)>> \/ f = <<Frame("reply", i), Frame("dead", 0)>>
  PROVE  Plain(f) /\ ~Round(f)
<1>1. f # <<>> /\ f[1].t = "reply"
  BY DEF Frame
<1>2. \A k \in 1..Len(f) : ~Signal(f[k])
  BY DEF Frame, Signal
<1> QED
  BY <1>1, <1>2 DEF Plain, Round

\* A request is dispatched, refused at once, or does not decode.
LEMMA WorkerHandleStream ==
  ASSUME ServerInv, StreamInv, WorkerHandle
  PROVE  StreamInv'
<1>1. /\ UNCHANGED <<queue, session, cpc, negotiatedHere, registered, boots, ints, out>>
      /\ wpc = "handle" /\ session # "none" /\ Sending
  BY DEF WorkerHandle, connection, record, Sending, ServerInv, SessionControl
<1>2. CASE wpc' = "kernel" /\ UNCHANGED events /\ Handle(cmd)
  <2>1. /\ negotiated # None /\ negotiated' # None
        /\ kpc' \in {"reset", "busy", "shutdown", "answered"}
        /\ kpc' = "answered" => msgs' = <<Frame("reply", cmd.id)>>
    BY <1>2 DEF Handle, FirstStep
  <2>2. kpc' = "answered" => Plain(msgs') /\ ~Round(msgs')
    BY <2>1, AnswerPlain
  <2>3. Said = "idle" /\ Said' = "idle"
    BY <1>1, <1>2, <2>1, <2>2 DEF Said, Announced
  <2>4. BatchInv'
    BY <1>2, <2>1, <2>2 DEF BatchInv
  <2>5. ChannelType'
    BY <1>1, <1>2 DEF StreamInv, ChannelType
  <2>6. Open' => Open
    BY <1>1 DEF Open
  <2>7. EventsInv' /\ WrittenInv'
    BY <1>1, <1>2, <2>3, <2>6, StreamStays DEF StreamInv
  <2> QED
    BY <2>4, <2>5, <2>7 DEF StreamInv
<1>3. CASE wpc' = "orderly" /\ events' = Append(events, Failure)
  <2>1. ~Sending' /\ BatchInv'
    BY <1>3 DEF Sending, BatchInv
  <2>2. events' \in Seq(WorkerEvents) /\ EventsInv' /\ WrittenInv'
    BY <1>1, <1>3, <2>1, EventFacts, StreamGrows DEF StreamInv, ChannelType
  <2> QED
    BY <1>1, <2>1, <2>2 DEF StreamInv, ChannelType
<1> QED
  BY <1>2, <1>3 DEF WorkerHandle

\* The messages of a request that began with busy: an ordinary one keeps it
\* begun, the idle completes the round.
LEMMA BegunAppend ==
  ASSUME NEW f \in Seq(Frames), Begun(f), NEW x \in Frames, NEW r, r = Append(f, x)
  PROVE  /\ ~Signal(x) => Begun(r)
         /\ x.t = "idle" => Round(r)
<1>1. /\ Len(f) \in Nat /\ Len(f) > 0 /\ Len(r) = Len(f) + 1 /\ r[Len(r)] = x
      /\ r # <<>> /\ \A i \in 1..Len(f) : r[i] = f[i]
  BY DEF Begun
<1>2. r[1].t = "busy"
  BY <1>1 DEF Begun
<1>3. \A i \in 2..Len(f) : ~Signal(r[i])
  BY <1>1 DEF Begun
<1>4. \A i \in 2..Len(r) : i \in 2..Len(f) \/ i = Len(r)
  BY <1>1
<1>5. \A i \in 2..(Len(r) - 1) : i \in 2..Len(f)
  BY <1>1
<1>6. ~Signal(x) => Begun(r)
  BY <1>1, <1>2, <1>3, <1>4 DEF Begun
<1>7. x.t = "idle" => Round(r)
  BY <1>1, <1>2, <1>3, <1>5 DEF Round
<1> QED
  BY <1>6, <1>7

\* A request's messages are taken and sent, or do not encode.
LEMMA FinishRequestStream ==
  ASSUME ServerInv, StreamInv, FinishRequest
  PROVE  StreamInv'
<1>1. /\ UNCHANGED <<queue, session, cpc, negotiatedHere, registered, boots, ints, out, negotiated>>
      /\ wpc = "kernel" /\ kpc = "answered" /\ session # "none" /\ Sending
      /\ wpc' \in {"exited", "stopcheck", "orderly"}
  BY DEF FinishRequest, TakeAnswer, connection, record, Sending, ServerInv, SessionControl
<1>2. negotiated # None /\ (Plain(msgs) \/ Round(msgs)) /\ msgs \in Seq(Frames)
  BY <1>1 DEF StreamInv, BatchInv, ServerInv, ServerType, KernelTypeOK
<1>3. BatchInv'
  BY <1>1 DEF BatchInv
<1>4. CASE events' = Append(events, Messages(msgs, req.kind \in ExecutionKinds, status = "Dead"))
  <2>1. PICK x \in BOOLEAN : x <=> req.kind \in ExecutionKinds
    OBVIOUS
  <2>2. PICK d \in BOOLEAN : d <=> status = "Dead"
    OBVIOUS
  <2>3. PICK e : e = Messages(msgs, x, d)
    OBVIOUS
  <2>4. e \in WorkerEvents /\ e.type = "messages" /\ e.frames = msgs /\ e.execution = x
    BY <1>2, <2>3, EventFacts
  <2>5. EventShape(e)
    BY <1>2, <2>4 DEF EventShape
  <2>6. events' = Append(events, e)
    BY <1>4, <2>1, <2>2, <2>3
  <2>7. Round(msgs) <=> msgs[1].t = "busy"
    <3>1. Len(msgs) \in Nat /\ (msgs # <<>> => 1 \in 1..Len(msgs))
      BY <1>2
    <3> QED
      BY <1>2, <3>1 DEF Plain, Round, Signal
  <2>8. Before(e) = Said
    BY <1>1, <1>2, <2>1, <2>4, <2>7 DEF Before, Said, Announced
  <2>9. Afterwards(e) = Said'
    BY <1>1, <1>2, <2>4 DEF Afterwards, Said, Announced
  <2>10. events' \in Seq(WorkerEvents) /\ EventsInv' /\ WrittenInv'
    BY <1>1, <2>4, <2>5, <2>6, <2>8, <2>9, StreamGrows DEF StreamInv, ChannelType
  <2> QED
    BY <1>1, <1>3, <2>10 DEF StreamInv, ChannelType
<1>5. CASE wpc' = "orderly" /\ events' = Append(events, Failure)
  <2>1. ~Sending'
    BY <1>5 DEF Sending
  <2>2. events' \in Seq(WorkerEvents) /\ EventsInv' /\ WrittenInv'
    BY <1>1, <1>5, <2>1, EventFacts, StreamGrows DEF StreamInv, ChannelType
  <2> QED
    BY <1>1, <1>3, <2>2 DEF StreamInv, ChannelType
<1> QED
  BY <1>4, <1>5 DEF FinishRequest

\* What a step of the request in hand does to its messages.
LEMMA KernelStepBatch ==
  ASSUME KernelTypeOK, BatchInv, wpc = "kernel", UNCHANGED wpc, KernelStep
  PROVE  /\ BatchInv' /\ UNCHANGED <<negotiated, req>>
         /\ kpc = "busy" /\ req.kind \in ExecutionKinds => Announced'
         /\ ~(kpc = "busy" /\ req.kind \in ExecutionKinds) => (Announced' <=> Announced)
<1> USE DEF shared, control, history
<1>0. msgs \in Seq(Frames) /\ req.id \in Nat /\ negotiated # None
  BY DEF KernelTypeOK, Request, BatchInv
<1> DEFINE reply == Frame("reply", req.id)
           inter == Frame("interrupted", 0)
           idle == Frame("idle", 0)
<1>1. reply \in Frames /\ ~Signal(reply)
  BY <1>0 DEF Frame, Frames, FrameTypes, Signal
<1>2. inter \in Frames /\ ~Signal(inter)
  BY DEF Frame, Frames, FrameTypes, Signal
<1>3. idle \in Frames /\ idle.t = "idle"
  BY DEF Frame, Frames, FrameTypes
<1>4. CASE ResetCancellation
  BY <1>4 DEF ResetCancellation, BatchInv, Announced
<1>5. CASE SetBusy
  <2>1. /\ kpc = "busy" /\ kpc' = "engine" /\ msgs' = <<Frame("busy", 0)>>
        /\ UNCHANGED <<negotiated, req>>
    BY <1>5 DEF SetBusy
  <2>2. Begun(msgs')
    BY <2>1 DEF Begun, Frame
  <2> QED
    BY <1>0, <2>1, <2>2 DEF BatchInv, Announced
<1>6. CASE JudgeInterrupted
  BY <1>6 DEF JudgeInterrupted, BatchInv, Announced
<1>7. CASE MarkInterrupted
  <2>1. kpc = "mark" /\ kpc' = "idle" /\ UNCHANGED <<negotiated, req>>
    BY <1>7 DEF MarkInterrupted
  <2>2. Begun(msgs)
    BY <2>1 DEF BatchInv
  <2>3. CASE msgs' = Append(msgs, reply)
    BY <1>0, <1>1, <2>1, <2>2, <2>3, BegunAppend DEF BatchInv, Announced
  <2>4. CASE msgs' = msgs \o <<inter, reply>>
    <3>1. PICK m : m = Append(msgs, inter)
      OBVIOUS
    <3>2. m \in Seq(Frames) /\ Begun(m)
      <4>1. m \in Seq(Frames)
        BY <1>0, <1>2, <3>1
      <4> HIDE DEF inter
      <4>2. Begun(m)
        BY <1>0, <1>2, <2>2, <3>1, BegunAppend
      <4> QED
        BY <4>1, <4>2
    <3>3. msgs' = Append(m, reply)
      BY <1>0, <1>1, <1>2, <2>4, <3>1
    <3>4. Begun(msgs')
      BY <1>1, <3>2, <3>3, BegunAppend
    <3> QED
      BY <1>0, <2>1, <3>4 DEF BatchInv, Announced
  <2> QED
    BY <1>1, <1>2, <1>7, <2>3, <2>4 DEF MarkInterrupted
<1>8. CASE \E outcome \in {"done", "cancelled", "error"} : ExecuteReturns(outcome)
  <2>1. /\ kpc = "engine" /\ kpc' \in {"idle", "judge"} /\ UNCHANGED <<negotiated, req>>
        /\ req.kind \in ExecutionKinds
        /\ msgs' = msgs \/ msgs' = Append(msgs, reply)
    BY <1>1, <1>8 DEF ExecuteReturns
  <2>2. Begun(msgs')
    <3>1. Begun(msgs)
      BY <2>1 DEF BatchInv
    <3> QED
      BY <1>0, <1>1, <2>1, <3>1, BegunAppend
  <2> QED
    BY <1>0, <2>1, <2>2 DEF BatchInv, Announced
<1>9. CASE \E ok \in BOOLEAN : QueryReturns(ok) \/ EditReturns(ok)
  <2>1. /\ kpc = "engine" /\ kpc' = "idle" /\ UNCHANGED <<negotiated, req>>
        /\ msgs' = Append(msgs, reply)
    BY <1>1, <1>9 DEF QueryReturns, EditReturns
  <2>2. Begun(msgs')
    <3>1. Begun(msgs)
      BY <2>1 DEF BatchInv
    <3> QED
      BY <1>0, <1>1, <2>1, <3>1, BegunAppend
  <2> QED
    BY <1>0, <2>1, <2>2 DEF BatchInv, Announced
<1>10. CASE SetIdle
  <2>1. /\ kpc = "idle" /\ kpc' = "answered" /\ UNCHANGED <<negotiated, req>>
        /\ msgs' = Append(msgs, idle)
    BY <1>3, <1>10 DEF SetIdle
  <2>2. Round(msgs')
    <3>1. Begun(msgs)
      BY <2>1 DEF BatchInv
    <3> QED
      BY <1>0, <1>3, <2>1, <3>1, BegunAppend
  <2> QED
    BY <1>0, <2>1, <2>2 DEF BatchInv, Announced
<1>11. CASE Shutdown
  <2>1. /\ kpc = "shutdown" /\ kpc' = "answered" /\ UNCHANGED <<negotiated, req>>
        /\ msgs' = <<Frame("reply", req.id), Frame("dead", 0)>>
    BY <1>11 DEF Shutdown
  <2>2. Plain(msgs') /\ ~Round(msgs')
    BY <2>1, AnswerPlain
  <2> QED
    BY <1>0, <2>1, <2>2 DEF BatchInv, Announced
<1> QED
  BY <1>4, <1>5, <1>6, <1>7, <1>8, <1>9, <1>10, <1>11 DEF KernelStep

\* A step of a request announces an execution as it enters the engine.
LEMMA WorkerKernelStepStream ==
  ASSUME ServerInv, StreamInv, WorkerKernelStep
  PROVE  StreamInv'
<1>1. /\ UNCHANGED <<queue, wpc, session, cpc, negotiatedHere, registered, boots, ints, out>>
      /\ wpc \in {"kernel", "final"} /\ KernelStep /\ session # "none" /\ KernelTypeOK
      /\ events' = IF kpc = "busy" THEN Announce(req) ELSE events
  BY DEF WorkerKernelStep, worker, connection, record, ServerInv, ServerType, SessionControl
<1>2. Open' <=> Open
  BY <1>1 DEF Open
<1>3. CASE wpc = "final"
  <2>1. kpc # "busy" /\ UNCHANGED events
    BY <1>1, <1>3 DEF ServerInv, WorkerControl
  <2>2. ~Sending' /\ BatchInv'
    BY <1>1, <1>3 DEF Sending, BatchInv
  <2>3. EventsInv' /\ WrittenInv'
    BY <1>1, <1>2, <2>1, <2>2, StreamStays DEF StreamInv
  <2> QED
    BY <1>1, <2>1, <2>2, <2>3 DEF StreamInv, ChannelType
<1>4. CASE wpc = "kernel"
  <2>1. /\ BatchInv' /\ UNCHANGED <<negotiated, req>>
        /\ kpc = "busy" /\ req.kind \in ExecutionKinds => Announced'
        /\ ~(kpc = "busy" /\ req.kind \in ExecutionKinds) => (Announced' <=> Announced)
    BY <1>1, <1>4, KernelStepBatch DEF StreamInv
  <2>2. negotiated # None /\ Sending
    BY <1>4 DEF StreamInv, BatchInv, Sending
  <2>3. CASE kpc = "busy" /\ req.kind \in ExecutionKinds
    <3>1. events' = Append(events, Started)
      BY <1>1, <2>3 DEF Announce
    <3>2. Said = "idle" /\ Said' = "busy"
      BY <1>4, <2>1, <2>2, <2>3 DEF Said, Announced
    <3>3. events' \in Seq(WorkerEvents) /\ EventsInv' /\ WrittenInv'
      BY <1>1, <2>2, <3>1, <3>2, EventFacts, StreamGrows DEF StreamInv, ChannelType
    <3> QED
      BY <1>1, <2>1, <3>3 DEF StreamInv, ChannelType
  <2>4. CASE ~(kpc = "busy" /\ req.kind \in ExecutionKinds)
    <3>1. UNCHANGED events
      BY <1>1, <2>4 DEF Announce
    <3>2. Said' = Said
      BY <1>1, <2>1, <2>4 DEF Said
    <3>3. EventsInv' /\ WrittenInv'
      BY <1>1, <1>2, <2>2, <3>1, <3>2, StreamStays DEF StreamInv
    <3> QED
      BY <1>1, <2>1, <3>1, <3>3 DEF StreamInv, ChannelType
  <2> QED
    BY <2>3, <2>4
<1> QED
  BY <1>1, <1>3, <1>4

\* The first event leaves the channel; the others still follow on each other.
LEMMA ChannelTail ==
  ASSUME events \in Seq(WorkerEvents), EventsInv, events # <<>>, events' = Tail(events),
         UNCHANGED <<session, wpc, kpc, req, msgs, negotiated>>
  PROVE  /\ events' \in Seq(WorkerEvents) /\ EventsInv'
         /\ events' # <<>> => events'[1].type = "failure" \/ Before(events'[1]) = Afterwards(events[1])
         /\ events' = <<>> /\ Sending' => Said' = Afterwards(events[1])
<1>1. /\ events' \in Seq(WorkerEvents) /\ Len(events) \in Nat /\ Len(events) > 0
      /\ Len(events') = Len(events) - 1
  OBVIOUS
<1>2. \A i \in 1..Len(events') : events'[i] = events[i + 1] /\ i + 1 \in 1..Len(events)
  <2>1. \A i \in 1..Len(events') : i + 1 \in 1..Len(events)
    BY <1>1
  <2> QED
    BY <1>1, <2>1
<1>3. Said' = Said /\ (Sending' <=> Sending)
  BY DEF Said, Announced, Sending
<1>4. \A i \in 1..Len(events') : EventShape(events'[i])
  BY <1>2 DEF EventsInv
<1>5. ASSUME NEW i \in 2..Len(events'), events'[i].type # "failure"
      PROVE  Afterwards(events'[i - 1]) = Before(events'[i])
  <2>1. i \in 1..Len(events') /\ i - 1 \in 1..Len(events') /\ i + 1 \in 2..Len(events) /\ i \in 2..Len(events)
    BY <1>1
  <2>2. (i - 1) + 1 = i /\ (i + 1) - 1 = i
    OBVIOUS
  <2>3. events'[i] = events[i + 1] /\ events'[i - 1] = events[i]
    BY <1>2, <2>1, <2>2
  <2> QED
    BY <1>5, <2>1, <2>2, <2>3 DEF EventsInv
<1>6. ASSUME events' # <<>>, Sending' PROVE Afterwards(events'[Len(events')]) = Said'
  <2>1. Len(events') \in 1..Len(events') /\ Len(events') + 1 = Len(events)
    BY <1>1, <1>6
  <2>2. events'[Len(events')] = events[Len(events)]
    BY <1>2, <2>1
  <2> QED
    BY <1>3, <1>6, <2>2 DEF EventsInv
<1>7. session' # "none"
  BY DEF EventsInv
<1>8. EventsInv'
  BY <1>4, <1>5, <1>6, <1>7 DEF EventsInv
<1>9. ASSUME events' # <<>> PROVE events'[1].type = "failure" \/ Before(events'[1]) = Afterwards(events[1])
  <2>1. 1 \in 1..Len(events') /\ 2 \in 2..Len(events) /\ 1 + 1 = 2 /\ 2 - 1 = 1
    BY <1>1, <1>9
  <2>2. events'[1] = events[2]
    BY <1>2, <2>1
  <2> QED
    BY <2>1, <2>2 DEF EventsInv
<1>10. ASSUME events' = <<>>, Sending' PROVE Said' = Afterwards(events[1])
  <2>0. \A t : t = <<>> => Len(t) = 0
    OBVIOUS
  <2>1. Len(events') = 0
    BY <1>10, <2>0, Zenon
  <2>2. Len(events) = 1
    BY <1>1, <2>1
  <2> QED
    BY <1>3, <1>10, <2>2 DEF EventsInv
<1> QED
  BY <1>1, <1>8, <1>9, <1>10

\* An event is written, in full or until the socket fails.
LEMMA DrainEventStream ==
  ASSUME ServerInv, StreamInv, DrainEvent
  PROVE  StreamInv'
<1>1. PICK e : e = Head(events)
  OBVIOUS
<1>2. /\ cpc = "drain" /\ events # <<>> /\ events' = Tail(events)
      /\ UNCHANGED <<queue, session, wpc, kpc, req, msgs, negotiated, registered, boots, ints>>
      /\ \/ /\ e.type # "failure" /\ out' = out \o Delivered(e)
            /\ negotiatedHere' = IF e.type = "bootstrap" THEN e.negotiated ELSE negotiatedHere
         \/ /\ e.type # "failure" /\ \E f \in Cut(Delivered(e)) : out' = out \o f
            /\ cpc' = "stop" /\ UNCHANGED negotiatedHere
         \/ e.type = "failure" /\ cpc' = "stop" /\ UNCHANGED <<out, negotiatedHere>>
  BY <1>1 DEF DrainEvent, AfterWriteError, kernelVars, local, worker
<1>3. /\ events \in Seq(WorkerEvents) /\ out \in Seq(Frames) /\ negotiatedHere \in BOOLEAN
      /\ Alternates(out) /\ EventsInv
  BY DEF StreamInv, ChannelType, WrittenInv
<1>4. e \in WorkerEvents /\ e = events[1] /\ EventShape(e) /\ e.negotiated \in BOOLEAN
  <2>1. Len(events) \in Nat /\ Len(events) > 0 /\ e = events[1] /\ 1 \in 1..Len(events) /\ e \in WorkerEvents
    BY <1>1, <1>2, <1>3
  <2> QED
    BY <1>3, <2>1 DEF EventsInv, WorkerEvents
<1>5. e.type # "failure" => LastIs(out, Before(e))
  BY <1>2, <1>4 DEF StreamInv, WrittenInv, Open
<1>6. /\ events' \in Seq(WorkerEvents) /\ EventsInv'
      /\ events' # <<>> => events'[1].type = "failure" \/ Before(events'[1]) = Afterwards(e)
      /\ events' = <<>> /\ Sending' => Said' = Afterwards(e)
  BY <1>2, <1>3, <1>4, ChannelTail
<1>7. BatchInv'
  BY <1>2, SaidStays DEF StreamInv
<1>8. negotiatedHere' \in BOOLEAN
  BY <1>2, <1>3, <1>4
<1>9. CASE e.type # "failure" /\ out' = out \o Delivered(e)
  <2>1. out' \in Seq(Frames) /\ Alternates(out') /\ LastIs(out', Afterwards(e))
    BY <1>3, <1>4, <1>5, <1>9, EventDelivered
  <2>2. WrittenInv'
    BY <1>6, <2>1 DEF WrittenInv
  <2> QED
    BY <1>2, <1>6, <1>7, <1>8, <2>1, <2>2 DEF StreamInv, ChannelType
<1>10. CASE e.type # "failure" /\ cpc' = "stop" /\ \E f \in Cut(Delivered(e)) : out' = out \o f
  <2>1. PICK d : d = Delivered(e)
    OBVIOUS
  <2>2. PICK q : q = out \o d
    OBVIOUS
  <2>3. d \in Seq(Frames) /\ Alternates(q)
    BY <1>3, <1>4, <1>5, <1>10, <2>1, <2>2, EventDelivered
  <2>4. PICK n \in 0..(Len(d) - 1) : out' = out \o SubSeq(d, 1, n)
    BY <1>10, <2>1 DEF Cut
  <2>5. out' \in Seq(Frames) /\ Alternates(out')
    BY <1>3, <2>2, <2>3, <2>4, PrefixAlternates
  <2>6. ~Open'
    BY <1>10 DEF Open
  <2>7. WrittenInv'
    BY <2>5, <2>6 DEF WrittenInv
  <2> QED
    BY <1>2, <1>6, <1>7, <1>8, <2>5, <2>7 DEF StreamInv, ChannelType
<1>11. CASE e.type = "failure" /\ cpc' = "stop" /\ UNCHANGED out
  <2>1. ~Open' /\ out' \in Seq(Frames) /\ Alternates(out')
    BY <1>3, <1>11 DEF Open
  <2>2. WrittenInv'
    BY <2>1 DEF WrittenInv
  <2> QED
    BY <1>2, <1>6, <1>7, <1>8, <2>1, <2>2 DEF StreamInv, ChannelType
<1> QED
  BY <1>2, <1>9, <1>10, <1>11

\* An interrupt is answered in between: its frames are no signals.
LEMMA WriteInterruptStream ==
  ASSUME ServerInv, StreamInv, WriteInterrupt
  PROVE  StreamInv'
<1>1. /\ cpc = "interrupt" /\ UNCHANGED <<queue, events, session, wpc, kpc, req, msgs, negotiated>>
      /\ UNCHANGED <<negotiatedHere, registered, boots, ints>>
      /\ \/ out' = out \o InterruptFrames
         \/ cpc' = "stop" /\ \E f \in Cut(InterruptFrames) : out' = out \o f
  BY DEF WriteInterrupt, TakeInterrupt, AfterWriteError, local, channels, worker
<1>2. PICK d : d = InterruptFrames
  OBVIOUS
<1>3. d \in Seq(Frames) /\ \A i \in 1..Len(d) : ~Signal(d[i])
  <2>1. Frame("ack", 0) \in Frames /\ Frame("interrupted", 0) \in Frames
    BY DEF Frame, Frames, FrameTypes
  <2>2. ~Signal(Frame("ack", 0)) /\ ~Signal(Frame("interrupted", 0))
    BY DEF Frame, Signal
  <2> QED
    BY <1>2, <2>1, <2>2 DEF InterruptFrames
<1>4. PICK q : q = out \o d
  OBVIOUS
<1>5. out \in Seq(Frames) /\ Alternates(out)
  BY DEF StreamInv, ChannelType, WrittenInv
<1>6. q \in Seq(Frames) /\ Alternates(q) /\ \A a : LastIs(out, a) => LastIs(q, a)
  BY <1>3, <1>4, <1>5, ConcatPlain
<1>7. BatchInv' /\ Said' = Said /\ (Sending' <=> Sending)
  BY <1>1, SaidStays DEF StreamInv
<1>8. EventsInv'
  BY <1>1, <1>7 DEF EventsInv, StreamInv
<1>9. CASE out' = q
  <2>1. out' \in Seq(Frames) /\ Alternates(out') /\ Open
    BY <1>1, <1>6, <1>9 DEF Open
  <2>2. events' # <<>> => events'[1].type = "failure" \/ LastIs(out', Before(events'[1]))
    BY <1>1, <1>6, <1>9, <2>1 DEF StreamInv, WrittenInv
  <2>3. events' = <<>> /\ Sending' => LastIs(out', Said')
    BY <1>1, <1>6, <1>7, <1>9, <2>1 DEF StreamInv, WrittenInv
  <2>4. WrittenInv'
    BY <2>1, <2>2, <2>3 DEF WrittenInv
  <2> QED
    BY <1>1, <1>7, <1>8, <2>1, <2>4 DEF StreamInv, ChannelType
<1>10. CASE cpc' = "stop" /\ \E f \in Cut(d) : out' = out \o f
  <2>1. PICK n \in 0..(Len(d) - 1) : out' = out \o SubSeq(d, 1, n)
    BY <1>10 DEF Cut
  <2>2. out' \in Seq(Frames) /\ Alternates(out')
    BY <1>3, <1>4, <1>5, <1>6, <2>1, PrefixAlternates
  <2>3. ~Open'
    BY <1>10 DEF Open
  <2>4. WrittenInv'
    BY <2>2, <2>3 DEF WrittenInv
  <2> QED
    BY <1>1, <1>7, <1>8, <2>2, <2>4 DEF StreamInv, ChannelType
<1> QED
  BY <1>1, <1>2, <1>4, <1>9, <1>10

\* A session starts; nothing signals before its bootstrap is answered.
LEMMA StartSessionStream ==
  ASSUME ServerInv, StreamInv, StartSession
  PROVE  StreamInv'
<1>1. /\ session = "none" /\ wpc = "none" /\ negotiated = None /\ queue = <<>> /\ events = <<>>
  BY DEF StartSession, ServerInv, SessionControl, StreamInv, EventsInv
<1>2. UNCHANGED <<events, negotiated, negotiatedHere, boots, ints>>
  BY DEF StartSession, kernelVars
<1>3. wpc' \in {"none", "recv"} /\ registered' \in BOOLEAN
  BY <1>1 DEF StartSession, StreamInv, ChannelType
<1>4. Len(queue') <= Capacity
  <2>1. queue \in Seq(Commands) /\ Len(queue) = 0
    BY <1>1 DEF ServerInv, ServerType
  <2>2. queue' = queue \/ (Len(queue) < Capacity /\ queue' = Append(queue, BootstrapCommand))
    BY DEF StartSession, TrySend
  <2>3. Capacity \in Nat /\ Capacity >= 1
    BY CapacityAssumption
  <2>4. PICK n \in {0, 1} : Len(queue') = n
    BY <2>1, <2>2
  <2>5. n <= Capacity
    BY <2>3
  <2> QED
    BY <2>4, <2>5, Zenon
<1>5. /\ out' \in Seq(Frames) /\ Alternates(out')
      /\ Open' => LastIs(out', "none")
  <2>1. CASE out' = <<>>
    <3>1. out' \in Seq(Frames) /\ \A i \in 1..Len(out') : ~Signal(out'[i])
      BY <2>1
    <3> QED
      BY <3>1 DEF Alternates, LastIs
  <2>2. CASE out' = <<Frame("bootstrap", 0)>> \/ out' = <<Frame("starting", 0)>>
    <3>1. Frame("bootstrap", 0) \in Frames /\ Frame("starting", 0) \in Frames
      BY DEF Frame, Frames, FrameTypes
    <3>2. ~Signal(Frame("bootstrap", 0)) /\ ~Signal(Frame("starting", 0))
      BY DEF Frame, Signal
    <3>3. PICK x \in Frames : ~Signal(x) /\ out' = <<x>>
      BY <2>2, <3>1, <3>2
    <3>4. out' \in Seq(Frames) /\ \A i \in 1..Len(out') : ~Signal(out'[i])
      BY <3>3
    <3> QED
      BY <3>4 DEF Alternates, LastIs
  <2>3. CASE out' = out /\ cpc' = "done"
    BY <2>3 DEF StreamInv, ChannelType, WrittenInv, Open
  <2> QED
    BY <2>1, <2>2, <2>3 DEF StartSession
<1>6. Said' = "none"
  BY <1>1, <1>2, <1>3 DEF Said, Announced
<1>7. events' = <<>> /\ Len(events') = 0
  BY <1>1, <1>2
<1>8. EventsInv'
  BY <1>7 DEF EventsInv
<1>9. WrittenInv'
  BY <1>5, <1>6, <1>7 DEF WrittenInv
<1>10. BatchInv'
  BY <1>3 DEF BatchInv
<1>11. ChannelType'
  BY <1>2, <1>3, <1>4, <1>5 DEF StreamInv, ChannelType
<1> QED
  BY <1>8, <1>9, <1>10, <1>11 DEF StreamInv

\* Nothing was said or written at the start.
LEMMA StreamInitInv == Init => StreamInv
<1> SUFFICES ASSUME Init PROVE StreamInv
  OBVIOUS
<1>1. /\ queue = <<>> /\ events = <<>> /\ out = <<>> /\ Len(queue) = 0 /\ Len(events) = 0 /\ Len(out) = 0
      /\ wpc = "none" /\ negotiated = None /\ negotiatedHere = FALSE /\ registered = FALSE /\ boots = 0 /\ ints = 0
  BY DEF Init, KernelInit
<1>2. events \in Seq(WorkerEvents) /\ out \in Seq(Frames)
  BY <1>1, EmptyIsSeq
<1>3. ChannelType
  <2>1. Len(queue) <= Capacity
    BY <1>1, CapacityAssumption
  <2>2. negotiatedHere \in BOOLEAN /\ registered \in BOOLEAN
    BY <1>1
  <2> QED
    BY <1>1, <1>2, <2>1, <2>2 DEF ChannelType
<1>4. Said = "none"
  BY <1>1 DEF Said, Announced
<1>5. BatchInv /\ EventsInv
  BY <1>1 DEF BatchInv, EventsInv
<1>6. WrittenInv
  BY <1>1, <1>4 DEF WrittenInv, Alternates, LastIs
<1> QED
  BY <1>3, <1>5, <1>6 DEF StreamInv

\* Every step keeps the stream.
LEMMA StreamNextInv == ServerInv /\ StreamInv /\ [Next]_vars => StreamInv'
<1> SUFFICES ASSUME ServerInv, StreamInv, [Next]_vars PROVE StreamInv'
  OBVIOUS
<1>1. CASE Worker
  BY <1>1, WorkerMovesStream, WorkerBootstrapStream, SendBootstrapStream, WorkerHandleStream,
     WorkerKernelStepStream, FinishRequestStream DEF Worker
<1>2. CASE Connection
  BY <1>2, DrainEventStream, WriteInterruptStream, ConnectionMovesStream DEF Connection
<1>3. CASE ClientFrame
  BY <1>3, StartSessionStream, ConnectionMovesStream DEF ClientFrame
<1>4. CASE UNCHANGED vars
  <2>1. /\ UNCHANGED <<queue, events, session, wpc, cpc, negotiatedHere, registered, boots, ints, out>>
        /\ UNCHANGED <<kpc, req, msgs, negotiated>>
    BY <1>4 DEF vars, kernelVars, local, channels, worker, connection, record
  <2>2. BatchInv' /\ Said' = Said /\ (Sending' <=> Sending)
    BY <2>1, SaidStays DEF StreamInv
  <2>3. Open' <=> Open
    BY <2>1 DEF Open
  <2>4. EventsInv' /\ WrittenInv'
    BY <2>1, <2>2, <2>3, StreamStays DEF StreamInv
  <2> QED
    BY <2>1, <2>2, <2>4 DEF StreamInv, ChannelType
<1> QED
  BY <1>1, <1>2, <1>3, <1>4 DEF Next, Finished

\* The client of a connection sees busy and idle alternate, an idle first,
\* whatever interrupts, failures and write errors come in between; no batch
\* holds a second busy frame; and the command channel is never over-full.
THEOREM ServerIsConsistent == Spec => []ServerConsistent
<1>1. Init => ServerInv /\ StreamInv
  BY ServerInitInv, StreamInitInv
<1>2. ServerInv /\ StreamInv /\ [Next]_vars => (ServerInv /\ StreamInv)'
  BY ServerNextInv, StreamNextInv
<1>3. ASSUME ServerInv, StreamInv PROVE ServerConsistent
  <2>1. TypeOK
    BY <1>3 DEF ServerInv, ServerType, StreamInv, ChannelType, TypeOK
  <2>2. BusyIdleAlternate
    BY <1>3 DEF StreamInv, WrittenInv, BusyIdleAlternate
  <2>3. ASSUME NEW i \in 1..Len(events), NEW k \in 2..Len(events[i].frames)
        PROVE  events[i].frames[k].t # "busy"
    <3>1. PICK e : e = events[i]
      OBVIOUS
    <3>2. e \in WorkerEvents /\ EventShape(e)
      BY <1>3, <3>1 DEF StreamInv, ChannelType, EventsInv
    <3>3. PICK f : f = e.frames
      OBVIOUS
    <3>4. f \in Seq(Frames) /\ Len(f) \in Nat /\ k \in 2..Len(f) /\ k \in 1..Len(f)
      BY <3>1, <3>2, <3>3 DEF WorkerEvents
    <3> SUFFICES f[k].t # "busy"
      BY <3>1, <3>3
    <3>5. CASE e.type \in {"started", "bootstrap", "failure"}
      BY <3>2, <3>3, <3>4, <3>5 DEF EventShape, Frame
    <3>6. CASE e.type = "messages" /\ Plain(f)
      BY <3>4, <3>6 DEF Plain, Signal
    <3>7. CASE e.type = "messages" /\ Round(f)
      <4>1. k \in 2..(Len(f) - 1) \/ k = Len(f)
        BY <3>4
      <4> QED
        BY <3>7, <4>1 DEF Round, Signal
    <3> QED
      BY <3>2, <3>3, <3>5, <3>6, <3>7 DEF EventShape, WorkerEvents
  <2> QED
    BY <2>1, <2>2, <2>3 DEF ServerConsistent, BusyComesFirst
<1> QED
  BY <1>1, <1>2, <1>3, PTL DEF Spec
=============================================================================
