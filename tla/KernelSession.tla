--------------------------- MODULE KernelSession ---------------------------
(***************************************************************************)
(* One kernel session of OpenMat: the sequential request path of           *)
(* Kernel/KernelSession (crates/openmat-kernel) and the independent        *)
(* interrupt path of KernelControl, which share two atomics: the           *)
(* lifecycle status and the cancellation token.                            *)
(*                                                                         *)
(* The thread that owns the kernel (kpc) runs one request at a time; the   *)
(* thread that owns the control handle (ipc) runs one interrupt call at a  *)
(* time.  Every load and store of the two atomics that another thread can  *)
(* observe is a step of its own.  The engine is the ExecutionEngine trait: *)
(* a program either ends by itself ("execute") or only when it sees the    *)
(* cancellation token ("loop").                                            *)
(***************************************************************************)
EXTENDS Naturals, Sequences, FiniteSets

CONSTANTS
  MaxRevision,   \* MAX_SAFE_JSON_INTEGER: the revision counter saturates here
  Protocols,     \* the protocol versions bootstrap may select
  None           \* Option::None

ASSUME RevisionAssumption == MaxRevision \in Nat
Versions == {"V0", "V1", "V2", "V3"}
ASSUME ProtocolAssumption == Protocols \subseteq Versions /\ None \notin Versions

VARIABLES
  status,        \* KernelControl.state
  cancelled,     \* KernelControl.cancellation
  negotiated,    \* KernelSession.negotiated (sets Kernel.initialized with it)
  revision,      \* Kernel.workspace_revision
  kpc,           \* where the sequential thread is inside handle_request
  req,           \* the request it is handling
  interrupted,   \* the local `interrupted` of execute
  msgs,          \* the local `messages`
  ipc,           \* where the control thread is inside handle_interrupt
  iseen,         \* the status that call loaded
  version,       \* history: the contents of the engine's workspace
  seen,          \* history: <<revision, version>> pairs reported to the client
  shutdowns,     \* history: calls of engine.shutdown
  cause          \* history: how an interrupt call met the current execution

shared  == <<status, cancelled>>
local   == <<kpc, req, interrupted, msgs>>
control == <<ipc, iseen>>
history == <<version, seen, shutdowns, cause>>
kernelVars == <<shared, negotiated, revision, local, control, history>>

Statuses == {"Starting", "Idle", "Busy", "Interrupted", "Dead"}
ExecutionKinds == {"execute", "loop"}
QueryKinds == {"inspect", "listWorkspace"}
RequestKinds == ExecutionKinds \cup QueryKinds \cup {"set", "shutdown", "initialize"}
Request == [id : Nat, kind : RequestKinds, expected : 0..MaxRevision]

\* A message of the protocol: its type, and the request a response replies to.
FrameTypes == {"starting", "bootstrap", "idle", "busy", "interrupted", "reply", "dead", "ack"}
Frame(t, i) == [t |-> t, id |-> i]
Frames == [t : FrameTypes, id : Nat]

\* The request in hand is an execution that has not yet been judged.
Executing == kpc \in {"reset", "busy", "engine", "judge", "mark"} /\ req.kind \in ExecutionKinds
----------------------------------------------------------------------------
\* Kernel::new with KernelSession::new around it.
KernelInit ==
  /\ status = "Starting" /\ cancelled = FALSE
  /\ negotiated = None /\ revision = 0
  /\ kpc = "ready" /\ interrupted = FALSE /\ msgs = <<>>
  /\ req = [id |-> 0, kind |-> "initialize", expected |-> 0]
  /\ ipc = "none" /\ iseen = "Starting"
  /\ version = 0 /\ seen = {} /\ shutdowns = 0 /\ cause = "none"

\* handle_bootstrap: a refused negotiation leaves the session as it was.
Bootstrap(p) ==
  /\ kpc = "ready" /\ negotiated = None
  /\ \/ /\ p = None
        /\ msgs' = <<Frame("bootstrap", 0)>>
        /\ UNCHANGED <<status, negotiated>>
     \/ /\ p \in Protocols
        /\ msgs' = <<Frame("bootstrap", 0), Frame("idle", 0)>>
        /\ status' = "Idle" /\ negotiated' = p
  /\ kpc' = "answered"
  /\ UNCHANGED <<cancelled, revision, req, interrupted, control, history>>

EditRefusedNoCeiling(r) == r.expected # revision

\* set_variable_element_v3: the edit must name the current revision, and a
\* saturated counter refuses every edit.
EditRefused(r) == r.expected # revision \/ revision >= MaxRevision

\* handle_request answers with a failure and touches nothing.
Refused(r) ==
  \/ status = "Dead"
  \/ r.kind = "initialize"
  \/ r.kind = "set" /\ EditRefused(r)

FirstStepNoReset(r) == IF r.kind = "shutdown" THEN "shutdown" ELSE "busy"

\* Where each handler starts.
FirstStep(r) ==
  CASE r.kind \in ExecutionKinds -> "reset"
    [] r.kind = "shutdown" -> "shutdown"
    [] OTHER -> "busy"

\* handle_request, handle_v1_request, ...: load the status, dispatch.
Handle(r) ==
  /\ kpc = "ready" /\ negotiated # None
  /\ req' = r
  /\ interrupted' = FALSE
  /\ cause' = IF ipc \in {"cancel", "store"} THEN "overlap" ELSE "none"
  /\ IF Refused(r)
       THEN kpc' = "answered" /\ msgs' = <<Frame("reply", r.id)>>
       ELSE kpc' = FirstStep(r) /\ msgs' = <<>>
  /\ UNCHANGED <<shared, negotiated, revision, control, version, seen, shutdowns>>

\* CancellationToken::reset at the start of execute.
ResetCancellation ==
  /\ kpc = "reset"
  /\ cancelled' = FALSE
  /\ kpc' = "busy"
  /\ UNCHANGED <<status, negotiated, revision, req, interrupted, msgs, control, history>>

\* set_status(Busy) and the busy event; the engine is entered next.
SetBusy ==
  /\ kpc = "busy"
  /\ status' = "Busy"
  /\ msgs' = <<Frame("busy", 0)>>
  /\ kpc' = "engine"
  /\ UNCHANGED <<cancelled, negotiated, revision, req, interrupted, control, history>>

AdvancedPastCeiling == IF negotiated = "V3" THEN revision + 1 ELSE revision

\* advance_workspace_revision: saturating, and only v3 versions the workspace.
Advanced == IF negotiated = "V3" /\ revision < MaxRevision THEN revision + 1 ELSE revision

\* engine.execute returns: it ran to the end, it saw the token, or it failed
\* (a failed graphics publication turns either result into a failure).
\* The workspace may have changed in every case, so v3 always advances and
\* the history counts a new version.
ExecuteReturns(outcome) ==
  /\ kpc = "engine" /\ req.kind \in ExecutionKinds
  /\ req.kind = "loop" => outcome # "done"
  /\ req.kind = "loop" \/ outcome = "cancelled" => cancelled
  /\ version' = version + 1
  /\ revision' = Advanced
  /\ IF outcome = "error"
       THEN /\ kpc' = "idle"
            /\ msgs' = Append(msgs, Frame("reply", req.id))
            /\ UNCHANGED interrupted
       ELSE /\ kpc' = "judge"
            /\ interrupted' = (outcome = "cancelled" \/ cancelled)
            /\ UNCHANGED msgs
  /\ UNCHANGED <<shared, negotiated, req, control, seen, shutdowns, cause>>

\* execute combines the engine's result with the token and the status.
JudgeInterrupted ==
  /\ kpc = "judge"
  /\ interrupted' = (interrupted \/ cancelled \/ status = "Interrupted")
  /\ kpc' = "mark"
  /\ UNCHANGED <<shared, negotiated, revision, req, msgs, control, history>>

\* The interrupted event is sent here only if no interrupt call sent it.
MarkInterrupted ==
  /\ kpc = "mark"
  /\ IF interrupted /\ status # "Interrupted"
       THEN /\ status' = "Interrupted"
            /\ msgs' = msgs \o <<Frame("interrupted", 0), Frame("reply", req.id)>>
       ELSE /\ msgs' = Append(msgs, Frame("reply", req.id))
            /\ UNCHANGED status
  /\ kpc' = "idle"
  /\ UNCHANGED <<cancelled, negotiated, revision, req, interrupted, control, history>>

\* inspect / list_workspace: v3 answers carry the revision they were read at.
QueryReturns(ok) ==
  /\ kpc = "engine" /\ req.kind \in QueryKinds
  /\ seen' = IF ok /\ negotiated = "V3" THEN seen \cup {<<revision, version>>} ELSE seen
  /\ msgs' = Append(msgs, Frame("reply", req.id))
  /\ kpc' = "idle"
  /\ UNCHANGED <<shared, negotiated, revision, req, interrupted, control, version, shutdowns, cause>>

\* engine.set_variable_element: an error leaves the workspace alone.
EditReturns(ok) ==
  /\ kpc = "engine" /\ req.kind = "set"
  /\ version' = IF ok THEN version + 1 ELSE version
  /\ revision' = IF ok THEN Advanced ELSE revision
  /\ seen' = IF ok THEN seen \cup {<<revision', version'>>} ELSE seen
  /\ msgs' = Append(msgs, Frame("reply", req.id))
  /\ kpc' = "idle"
  /\ UNCHANGED <<shared, negotiated, req, interrupted, control, shutdowns, cause>>

\* set_status(Idle) and the idle event end every busy request.
SetIdle ==
  /\ kpc = "idle"
  /\ status' = "Idle"
  /\ msgs' = Append(msgs, Frame("idle", 0))
  /\ kpc' = "answered"
  /\ UNCHANGED <<cancelled, negotiated, revision, req, interrupted, control, history>>

\* shutdown: engine.shutdown, then set_status(Dead) whatever it returned.
Shutdown ==
  /\ kpc = "shutdown"
  /\ shutdowns' = shutdowns + 1
  /\ status' = "Dead"
  /\ msgs' = <<Frame("reply", req.id), Frame("dead", 0)>>
  /\ kpc' = "answered"
  /\ UNCHANGED <<cancelled, negotiated, revision, req, interrupted, control, version, seen, cause>>

\* One step of the sequential thread inside a request.
KernelStep ==
  \/ ResetCancellation \/ SetBusy \/ JudgeInterrupted \/ MarkInterrupted
  \/ \E outcome \in {"done", "cancelled", "error"} : ExecuteReturns(outcome)
  \/ \E ok \in BOOLEAN : QueryReturns(ok) \/ EditReturns(ok)
  \/ SetIdle \/ Shutdown
----------------------------------------------------------------------------
AcceptsOnlyBusy(s) == s = "Busy"

\* handle_interrupt accepts while a request is running.
Accepts(s) == s \in {"Busy", "Interrupted"}

\* handle_interrupt: load the status and decide.
InterruptLoad ==
  /\ ipc = "none" /\ negotiated # None
  /\ iseen' = status
  /\ ipc' = IF Accepts(status) THEN "cancel" ELSE "done"
  /\ cause' = IF Accepts(status) /\ Executing THEN "issued" ELSE cause
  /\ UNCHANGED <<shared, negotiated, revision, local, version, seen, shutdowns>>

InterruptCancelsOnlyBusy ==
  /\ ipc = "cancel"
  /\ cancelled' = (cancelled \/ iseen = "Busy")
  /\ ipc' = IF iseen = "Busy" THEN "store" ELSE "done"
  /\ UNCHANGED <<status, negotiated, revision, local, iseen, history>>

\* cancellation.cancel(), for a loaded Busy and a loaded Interrupted alike.
InterruptCancel ==
  /\ ipc = "cancel"
  /\ cancelled' = TRUE
  /\ ipc' = IF iseen = "Busy" THEN "store" ELSE "done"
  /\ UNCHANGED <<status, negotiated, revision, local, iseen, history>>

\* state.store(Interrupted), decided by the status loaded earlier.
InterruptStore ==
  /\ ipc = "store"
  /\ status' = "Interrupted"
  /\ ipc' = "done"
  /\ UNCHANGED <<cancelled, negotiated, revision, local, iseen, history>>

InterruptStep == InterruptCancel \/ InterruptStore

\* The messages handle_interrupt returns.
InterruptFrames ==
  IF iseen = "Busy" THEN <<Frame("ack", 0), Frame("interrupted", 0)>> ELSE <<Frame("ack", 0)>>
----------------------------------------------------------------------------
\* The session on its own, driven by a caller that sends any request when
\* the kernel is free and an interrupt at any time.
CONSTANTS
  Kinds,         \* the request kinds the caller uses
  MaxRequests    \* bound on the requests of a behaviour

ASSUME KindAssumption == Kinds \subseteq RequestKinds
ASSUME BoundAssumption == MaxRequests \in Nat

\* The caller takes the messages of an answered request.
TakeAnswer ==
  /\ kpc = "answered"
  /\ kpc' = "ready"
  /\ msgs' = <<>>
  /\ UNCHANGED <<shared, negotiated, revision, req, interrupted, control, history>>

\* The interrupt call returns.
TakeInterrupt ==
  /\ ipc = "done"
  /\ ipc' = "none"
  /\ UNCHANGED <<shared, negotiated, revision, local, iseen, history>>

\* The locked protocol decides which requests decode: only v3 has
\* setVariableElement, only v0 still has initialize after the bootstrap.
Decodes(k) == (k = "set" => negotiated = "V3") /\ (k = "initialize" => negotiated = "V0")

Submit ==
  \E k \in Kinds, e \in 0..MaxRevision :
    /\ req.id < MaxRequests
    /\ Decodes(k) /\ (k # "set" => e = 0)
    /\ Handle([id |-> req.id + 1, kind |-> k, expected |-> e])

KernelThread ==
  \/ \E p \in Protocols \cup {None} : Bootstrap(p)
  \/ KernelStep \/ TakeAnswer

KernelNext == KernelThread \/ Submit \/ InterruptLoad \/ InterruptStep \/ TakeInterrupt

KernelSpec == KernelInit /\ [][KernelNext]_kernelVars

KernelFairSpec ==
  /\ KernelSpec
  /\ WF_kernelVars(KernelStep) /\ WF_kernelVars(TakeAnswer)
  /\ WF_kernelVars(InterruptStep)
----------------------------------------------------------------------------
KernelPcs == {"ready", "reset", "busy", "engine", "judge", "mark", "idle", "shutdown", "answered"}
InterruptPcs == {"none", "cancel", "store", "done"}

\* The values every variable of the session keeps.
KernelTypeOK ==
  /\ status \in Statuses /\ cancelled \in BOOLEAN
  /\ negotiated \in Protocols \cup {None} /\ revision \in 0..MaxRevision
  /\ kpc \in KernelPcs /\ req \in Request /\ interrupted \in BOOLEAN
  /\ msgs \in Seq(Frames)
  /\ ipc \in InterruptPcs /\ iseen \in Statuses
  /\ version \in Nat /\ seen \subseteq (0..MaxRevision) \X Nat
  /\ shutdowns \in Nat /\ cause \in {"none", "overlap", "issued"}

\* An interrupt that had returned before an execution began never marks that
\* execution interrupted, although it left the token set and perhaps the
\* status Interrupted: execute resets both before the engine runs.
NoStaleInterrupt == kpc = "mark" /\ interrupted => cause # "none"

\* While the engine runs, an interrupt call is never turned away, whatever
\* earlier interrupt calls did to the status.
RunningIsInterruptible == kpc = "engine" => Accepts(status)

\* Optimistic concurrency of setVariableElement: an edit commits only on the
\* workspace contents that every answer carrying its expected revision
\* showed, so it never overwrites a change its author has not seen.
EditSeesCurrent ==
  [][ (kpc = "engine" /\ req.kind = "set" /\ version' # version)
        => \A s \in seen : s[1] = req.expected => s[2] = version ]_kernelVars

\* A program that never ends by itself is ended by an interrupt call that
\* reaches the token while the engine runs.
LoopInterruptible ==
  (kpc = "engine" /\ req.kind = "loop" /\ ipc = "cancel") ~> (kpc = "answered")
=============================================================================
