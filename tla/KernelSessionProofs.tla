------------------------ MODULE KernelSessionProofs ------------------------
(***************************************************************************)
(* Proofs about KernelSession, for every bound and set of protocols.  The  *)
(* lemmas are stated per action, so that KernelServerProofs can use them   *)
(* for the actions KernelServer shares.                                    *)
(***************************************************************************)
EXTENDS KernelSession, TLAPS

USE RevisionAssumption, ProtocolAssumption DEF Versions

\* A run of the control thread between its load and its last store.
Pending == ipc \in {"cancel", "store"}

\* Why a finished interrupt cannot reach a later execution: the token is
\* reset before the engine runs, the Busy store hides an old Interrupted, and
\* an interrupt call still in flight is recorded in cause.
InterruptTrace ==
  /\ kpc \in {"reset", "judge", "mark"} => req.kind \in ExecutionKinds
  /\ Executing /\ Pending => cause # "none"
  /\ Executing /\ kpc \in {"busy", "engine", "judge"} /\ cancelled => cause # "none"
  /\ Executing /\ kpc \in {"engine", "judge"} /\ status = "Interrupted" => cause # "none"
  /\ kpc \in {"judge", "mark"} /\ interrupted => cause # "none"

\* What the revision says about the workspace: below its ceiling, an answer
\* that carries the current revision shows the current contents; an accepted
\* edit keeps naming the current revision until it commits.
RevisionTrace ==
  /\ negotiated # "V3" => seen = {}
  /\ \A s \in seen : s[1] <= revision
  /\ \A s \in seen : s[1] = revision /\ revision < MaxRevision => s[2] = version
  /\ kpc \in {"busy", "engine"} /\ req.kind = "set" =>
       req.expected = revision /\ revision < MaxRevision /\ negotiated = "V3"

KernelInv == KernelTypeOK /\ RunningIsInterruptible /\ InterruptTrace /\ RevisionTrace
----------------------------------------------------------------------------
\* Messages are well formed.
LEMMA FramesType ==
  ASSUME NEW i \in Nat, NEW t \in FrameTypes
  PROVE  Frame(t, i) \in Frames
BY DEF Frame, Frames

\* Short tuples are sequences.
LEMMA ShortSeqs ==
  ASSUME NEW S, NEW a \in S, NEW b \in S
  PROVE  <<a>> \in Seq(S) /\ <<a, b>> \in Seq(S)
OBVIOUS

\* So is the empty one.
LEMMA EmptyIsSeq == ASSUME NEW S PROVE <<>> \in Seq(S)
OBVIOUS

\* advance_workspace_revision saturates at the ceiling and never goes back.
LEMMA AdvancedType ==
  ASSUME KernelTypeOK
  PROVE  Advanced \in 0..MaxRevision /\ Advanced >= revision
BY DEF KernelTypeOK, Advanced

\* A new session satisfies the invariant.
LEMMA KernelInitInv == KernelInit => KernelInv
<1> SUFFICES ASSUME KernelInit PROVE KernelInv
  OBVIOUS
<1>1. req \in Request
  BY DEF KernelInit, Request, RequestKinds
<1>2. KernelTypeOK
  <2>1. msgs \in Seq(Frames)
    BY EmptyIsSeq DEF KernelInit
  <2>2. seen \subseteq (0..MaxRevision) \X Nat
    BY DEF KernelInit
  <2>3. /\ status \in Statuses /\ cancelled \in BOOLEAN /\ negotiated \in Protocols \cup {None}
        /\ kpc \in KernelPcs /\ interrupted \in BOOLEAN
        /\ ipc \in InterruptPcs /\ iseen \in Statuses /\ cause \in {"none", "overlap", "issued"}
    BY Zenon DEF KernelInit, Statuses, KernelPcs, InterruptPcs
  <2>4. revision \in 0..MaxRevision /\ version \in Nat /\ shutdowns \in Nat
    BY DEF KernelInit
  <2>5. QED
    BY <1>1, <2>1, <2>2, <2>3, <2>4, Zenon DEF KernelTypeOK
<1>3. RunningIsInterruptible /\ InterruptTrace
  BY DEF KernelInit, RunningIsInterruptible, InterruptTrace, Pending, Executing
<1>4. RevisionTrace
  BY DEF KernelInit, RevisionTrace
<1>5. QED
  BY <1>2, <1>3, <1>4 DEF KernelInv

\* Every action of the sequential thread keeps the types.
LEMMA BootstrapType ==
  ASSUME KernelTypeOK, NEW p, Bootstrap(p)
  PROVE  KernelTypeOK'
<1>1. Frame("bootstrap", 0) \in Frames /\ Frame("idle", 0) \in Frames
  BY FramesType DEF FrameTypes
<1>2. msgs' \in Seq(Frames)
  BY <1>1, ShortSeqs DEF Bootstrap
<1>3. QED
  BY <1>2 DEF Bootstrap, KernelTypeOK, control, history, Statuses, KernelPcs

\* Dispatching a request keeps the types.
LEMMA HandleType ==
  ASSUME KernelTypeOK, NEW r \in Request, Handle(r)
  PROVE  KernelTypeOK'
<1>1. Frame("reply", r.id) \in Frames
  BY FramesType DEF FrameTypes, Request
<1>2. msgs' \in Seq(Frames)
  BY <1>1, ShortSeqs, EmptyIsSeq DEF Handle
<1>3. kpc' \in KernelPcs
  BY DEF Handle, FirstStep, KernelPcs
<1>4. QED
  BY <1>2, <1>3 DEF Handle, KernelTypeOK, shared, control

\* So does every step of a request.
LEMMA KernelStepType ==
  ASSUME KernelTypeOK, KernelStep
  PROVE  KernelTypeOK'
<1> USE DEF KernelTypeOK, shared, control, history
<1>0. /\ Frame("busy", 0) \in Frames /\ Frame("idle", 0) \in Frames
      /\ Frame("interrupted", 0) \in Frames /\ Frame("dead", 0) \in Frames
      /\ Frame("reply", req.id) \in Frames
  BY FramesType DEF FrameTypes, Request
<1>1. CASE ResetCancellation
  BY <1>1 DEF ResetCancellation, KernelPcs
<1>2. CASE SetBusy
  BY <1>2, <1>0 DEF SetBusy, KernelPcs, Statuses
<1>3. CASE JudgeInterrupted
  BY <1>3 DEF JudgeInterrupted, KernelPcs
<1>4. CASE MarkInterrupted
  <2>1. <<Frame("interrupted", 0), Frame("reply", req.id)>> \in Seq(Frames)
    BY <1>0, ShortSeqs
  <2>2. msgs \o <<Frame("interrupted", 0), Frame("reply", req.id)>> \in Seq(Frames)
    <3>1. \A t \in Seq(Frames) : msgs \o t \in Seq(Frames)
      OBVIOUS
    <3>2. QED
      BY <2>1, <3>1
  <2>3. Append(msgs, Frame("reply", req.id)) \in Seq(Frames)
    BY <1>0
  <2>4. msgs' \in Seq(Frames)
    BY <1>4, <2>2, <2>3, Zenon DEF MarkInterrupted
  <2>5. QED
    BY <1>4, <2>4 DEF MarkInterrupted, KernelPcs, Statuses
<1>5. ASSUME NEW outcome \in {"done", "cancelled", "error"}, ExecuteReturns(outcome)
      PROVE  KernelTypeOK'
  <2>1. version' \in Nat /\ revision' \in 0..MaxRevision
    BY <1>5, AdvancedType DEF ExecuteReturns
  <2>2. msgs' \in Seq(Frames) /\ kpc' \in KernelPcs /\ interrupted' \in BOOLEAN
    BY <1>5, <1>0 DEF ExecuteReturns, KernelPcs
  <2>3. QED
    BY <1>5, <2>1, <2>2 DEF ExecuteReturns
<1>6. ASSUME NEW ok \in BOOLEAN, QueryReturns(ok)
      PROVE  KernelTypeOK'
  <2>1. seen' \subseteq (0..MaxRevision) \X Nat
    BY <1>6 DEF QueryReturns
  <2>2. QED
    BY <1>6, <1>0, <2>1 DEF QueryReturns, KernelPcs
<1>7. ASSUME NEW ok \in BOOLEAN, EditReturns(ok)
      PROVE  KernelTypeOK'
  <2>1. version' \in Nat /\ revision' \in 0..MaxRevision
    BY <1>7, AdvancedType DEF EditReturns
  <2>2. seen' \subseteq (0..MaxRevision) \X Nat
    BY <1>7, <2>1 DEF EditReturns
  <2>3. QED
    BY <1>7, <1>0, <2>1, <2>2 DEF EditReturns, KernelPcs
<1>8. CASE SetIdle
  BY <1>8, <1>0 DEF SetIdle, KernelPcs, Statuses
<1>9. CASE Shutdown
  BY <1>9, <1>0 DEF Shutdown, KernelPcs, Statuses
<1>10. QED
  BY <1>1, <1>2, <1>3, <1>4, <1>5, <1>6, <1>7, <1>8, <1>9 DEF KernelStep

\* Taking an answer keeps the types.
LEMMA TakeAnswerType == KernelTypeOK /\ TakeAnswer => KernelTypeOK'
BY DEF KernelTypeOK, TakeAnswer, shared, control, history, KernelPcs

\* The control path keeps the types.
LEMMA InterruptType ==
  ASSUME KernelTypeOK, InterruptLoad \/ InterruptStep \/ TakeInterrupt
  PROVE  KernelTypeOK'
BY DEF KernelTypeOK, InterruptLoad, InterruptStep, InterruptCancel, InterruptStore, TakeInterrupt,
       shared, local, history, InterruptPcs, Statuses

\* A step of the session on its own keeps the types.
LEMMA KernelNextType ==
  ASSUME KernelTypeOK, [KernelNext]_kernelVars
  PROVE  KernelTypeOK'
<1>1. CASE KernelThread
  BY <1>1, BootstrapType, KernelStepType, TakeAnswerType DEF KernelThread
<1>2. CASE Submit
  <2>1. PICK k \in Kinds, e \in 0..MaxRevision : Handle([id |-> req.id + 1, kind |-> k, expected |-> e])
    BY <1>2 DEF Submit
  <2>2. [id |-> req.id + 1, kind |-> k, expected |-> e] \in Request
    BY KindAssumption DEF Request, KernelTypeOK
  <2>3. QED
    BY <2>1, <2>2, HandleType
<1>3. CASE InterruptLoad \/ InterruptStep \/ TakeInterrupt
  BY <1>3, InterruptType
<1>4. CASE UNCHANGED kernelVars
  BY <1>4 DEF kernelVars, shared, local, control, history, KernelTypeOK
<1>5. QED
  BY <1>1, <1>2, <1>3, <1>4 DEF KernelNext

\* Only the sequential thread leaves Busy or Interrupted while it is in the
\* engine, and it does so when it leaves the engine.
LEMMA RunningStep ==
  ASSUME KernelInv, [KernelNext]_kernelVars
  PROVE  RunningIsInterruptible'
<1> USE DEF KernelInv, RunningIsInterruptible, Accepts, shared, local, control, history
<1>1. ASSUME NEW p \in Protocols \cup {None}, Bootstrap(p)
      PROVE  RunningIsInterruptible'
  BY <1>1 DEF Bootstrap
<1>2. CASE KernelStep
  BY <1>2 DEF KernelStep, ResetCancellation, SetBusy, JudgeInterrupted, MarkInterrupted,
              ExecuteReturns, QueryReturns, EditReturns, SetIdle, Shutdown
<1>3. CASE TakeAnswer
  BY <1>3 DEF TakeAnswer
<1>4. CASE Submit
  BY <1>4 DEF Submit, Handle, FirstStep
<1>5. CASE InterruptLoad \/ InterruptStep \/ TakeInterrupt
  BY <1>5 DEF InterruptLoad, InterruptStep, InterruptCancel, InterruptStore, TakeInterrupt
<1>6. CASE UNCHANGED kernelVars
  BY <1>6 DEF kernelVars
<1>7. QED
  BY <1>1, <1>2, <1>3, <1>4, <1>5, <1>6 DEF KernelNext, KernelThread

\* Reset, Busy and the recorded cause together keep a finished interrupt from
\* marking a later execution.
LEMMA InterruptTraceStep ==
  ASSUME KernelInv, [KernelNext]_kernelVars
  PROVE  InterruptTrace'
<1> USE DEF KernelInv, InterruptTrace, Executing, Pending, shared, local, control, history
<1>1. ASSUME NEW p \in Protocols \cup {None}, Bootstrap(p)
      PROVE  InterruptTrace'
  BY <1>1 DEF Bootstrap
<1>2. CASE KernelStep
  <2>1. CASE ResetCancellation
    BY <2>1 DEF ResetCancellation
  <2>2. CASE SetBusy
    BY <2>2 DEF SetBusy
  <2>3. CASE JudgeInterrupted
    BY <2>3 DEF JudgeInterrupted
  <2>4. CASE MarkInterrupted
    BY <2>4 DEF MarkInterrupted
  <2>5. ASSUME NEW outcome \in {"done", "cancelled", "error"}, ExecuteReturns(outcome)
        PROVE  InterruptTrace'
    BY <2>5 DEF ExecuteReturns, ExecutionKinds
  <2>6. ASSUME NEW ok \in BOOLEAN, QueryReturns(ok) \/ EditReturns(ok)
        PROVE  InterruptTrace'
    BY <2>6 DEF QueryReturns, EditReturns
  <2>7. CASE SetIdle \/ Shutdown
    BY <2>7 DEF SetIdle, Shutdown
  <2>8. QED
    BY <1>2, <2>1, <2>2, <2>3, <2>4, <2>5, <2>6, <2>7 DEF KernelStep
<1>3. CASE TakeAnswer
  BY <1>3 DEF TakeAnswer
<1>4. CASE Submit
  BY <1>4 DEF Submit, Handle, FirstStep
<1>5. CASE InterruptLoad
  BY <1>5 DEF InterruptLoad
<1>6. CASE InterruptStep
  BY <1>6 DEF InterruptStep, InterruptCancel, InterruptStore
<1>7. CASE TakeInterrupt
  BY <1>7 DEF TakeInterrupt
<1>8. CASE UNCHANGED kernelVars
  BY <1>8 DEF kernelVars
<1>9. QED
  BY <1>1, <1>2, <1>3, <1>4, <1>5, <1>6, <1>7, <1>8 DEF KernelNext, KernelThread

\* Every change of the workspace below the ceiling leaves all reported
\* revisions behind.
LEMMA RevisionTraceStep ==
  ASSUME KernelInv, [KernelNext]_kernelVars
  PROVE  RevisionTrace'
<1> USE DEF KernelInv, RevisionTrace, shared, local, control, history
<1>1. ASSUME NEW p \in Protocols \cup {None}, Bootstrap(p)
      PROVE  RevisionTrace'
  BY <1>1 DEF Bootstrap
<1>2. CASE KernelStep
  <2>1. CASE ResetCancellation \/ SetBusy \/ JudgeInterrupted \/ MarkInterrupted \/ SetIdle \/ Shutdown
    <3>1. /\ UNCHANGED <<negotiated, revision, req, version, seen>>
          /\ kpc' \in {"busy", "engine"} => kpc \in {"reset", "busy"}
      BY <2>1 DEF ResetCancellation, SetBusy, JudgeInterrupted, MarkInterrupted, SetIdle, Shutdown
    <3>2. kpc = "reset" => req.kind # "set"
      BY DEF InterruptTrace, ExecutionKinds
    <3>3. QED
      BY <3>1, <3>2
  <2>2. ASSUME NEW outcome \in {"done", "cancelled", "error"}, ExecuteReturns(outcome)
        PROVE  RevisionTrace'
    BY <2>2 DEF ExecuteReturns, Advanced, KernelTypeOK
  <2>3. ASSUME NEW ok \in BOOLEAN, QueryReturns(ok)
        PROVE  RevisionTrace'
    BY <2>3 DEF QueryReturns, KernelTypeOK
  <2>4. ASSUME NEW ok \in BOOLEAN, EditReturns(ok)
        PROVE  RevisionTrace'
    BY <2>4 DEF EditReturns, Advanced, KernelTypeOK
  <2>5. QED
    BY <1>2, <2>1, <2>2, <2>3, <2>4 DEF KernelStep
<1>3. CASE TakeAnswer
  BY <1>3 DEF TakeAnswer
<1>4. CASE Submit
  BY <1>4 DEF Submit, Handle, FirstStep, Refused, EditRefused, Decodes, KernelTypeOK, Request, ExecutionKinds
<1>5. CASE InterruptLoad \/ InterruptStep \/ TakeInterrupt
  BY <1>5 DEF InterruptLoad, InterruptStep, InterruptCancel, InterruptStore, TakeInterrupt
<1>6. CASE UNCHANGED kernelVars
  BY <1>6 DEF kernelVars
<1>7. QED
  BY <1>1, <1>2, <1>3, <1>4, <1>5, <1>6 DEF KernelNext, KernelThread

\* Every step keeps the invariant.
LEMMA KernelNextInv == KernelInv /\ [KernelNext]_kernelVars => KernelInv'
BY KernelNextType, RunningStep, InterruptTraceStep, RevisionTraceStep DEF KernelInv

\* The invariant holds in every reachable state.
LEMMA KernelSpecInv == KernelSpec => []KernelInv
BY KernelInitInv, KernelNextInv, PTL DEF KernelSpec
----------------------------------------------------------------------------
\* Every variable of a kernel session keeps its type; in particular the
\* workspace revision never passes MAX_SAFE_JSON_INTEGER.
THEOREM TypeCorrect == KernelSpec => []KernelTypeOK
<1>1. KernelInv => KernelTypeOK
  BY DEF KernelInv
<1>2. QED
  BY <1>1, KernelSpecInv, PTL

\* An interrupt call that has returned never marks a later execution
\* interrupted: CancellationToken::reset and set_status(Busy) at the start of
\* execute hide everything it left behind.
THEOREM StaleInterruptsHarmless == KernelSpec => []NoStaleInterrupt
<1>1. KernelInv => NoStaleInterrupt
  BY DEF KernelInv, InterruptTrace, NoStaleInterrupt
<1>2. QED
  BY <1>1, KernelSpecInv, PTL

\* handle_interrupt never refuses while the engine runs.
THEOREM AlwaysInterruptible == KernelSpec => []RunningIsInterruptible
<1>1. KernelInv => RunningIsInterruptible
  BY DEF KernelInv
<1>2. QED
  BY <1>1, KernelSpecInv, PTL

\* set_variable_element_v3 commits an edit only on the workspace that every
\* answer with the edit's expected revision showed.
THEOREM EditsAreNotLost == KernelSpec => EditSeesCurrent
<1>1. KernelInv /\ [KernelNext]_kernelVars =>
        [(kpc = "engine" /\ req.kind = "set" /\ version' # version)
           => \A s \in seen : s[1] = req.expected => s[2] = version]_kernelVars
  BY DEF KernelInv, RevisionTrace
<1>2. QED
  BY <1>1, KernelSpecInv, PTL DEF KernelSpec, EditSeesCurrent
=============================================================================
