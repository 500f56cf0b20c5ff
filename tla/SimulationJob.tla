--------------------------- MODULE SimulationJob ---------------------------
(***************************************************************************)
(* One /simulation WebSocket connection of openmat-server                  *)
(* (simulation_websocket.rs): the connection thread (cpc), which reads     *)
(* requests, cancels and relays results, and the worker thread (wpc) that  *)
(* it starts for a run.  They share the cancel flag and a bounded channel  *)
(* the worker polls for room; the connection holds at most one job.        *)
(*                                                                         *)
(* A frame is the number of the sample it holds.  A run is described by    *)
(* how many samples it takes to its stop time (length) and how many values *)
(* a frame has (width); both are chosen when the run starts.               *)
(***************************************************************************)
EXTENDS Naturals, Sequences

CONSTANTS
  QueueCapacity,   \* sync_channel(8)
  DrainLimit,      \* events relayed per turn of the serve loop
  BatchFrames,     \* 64: a batch this long is sent
  BatchValues,     \* 8192: a batch of this many values is sent
  MaxSamples,      \* MAX_SAMPLES
  MaxValues,       \* MAX_VALUES
  Lengths, Widths, \* the models the client runs
  MaxRuns,         \* bound on the runs of a client
  MaxCancels       \* bound on the cancel requests of a client

ASSUME QueueAssumption == QueueCapacity \in Nat \ {0} /\ DrainLimit \in Nat \ {0}
ASSUME LimitAssumption == {BatchFrames, BatchValues, MaxSamples, MaxValues} \subseteq Nat \ {0}
ASSUME ModelAssumption == Lengths \subseteq Nat \ {0} /\ Widths \subseteq Nat
ASSUME SimClientAssumption == MaxRuns \in Nat /\ MaxCancels \in Nat

VARIABLES
  job,             \* the active run, 0 for None
  cancel,          \* Job.cancel
  queue,           \* the event channel
  receiver,        \* Job.events is Some
  terminal, acknowledged, sequence,   \* what Job.observe recorded
  cpc, drained, leaving,              \* the connection thread
  wpc, polled, held,                  \* the worker thread and its enqueue call
  wseq, samples, frames, error,       \* run_job: sequence, samples, frames, terminal_error
  length, width,                      \* the model of the run
  runs, cancels,   \* history: runs started, cancel requests accepted
  out,             \* history: what was sent to the client about each run
  verdict          \* history: how the worker of each run ended it

jobVars    == <<job, cancel, queue, receiver, terminal, acknowledged, sequence>>
connection == <<cpc, drained, leaving>>
enqueuing  == <<wpc, polled, held>>
running    == <<wseq, samples, frames, error, length, width>>
counted    == <<runs, cancels>>
vars == <<jobVars, connection, enqueuing, running, counted, out, verdict>>

Terminals == {"finished", "failed", "cancelled"}
Ends == Terminals \cup {"refused"}   \* after these a run is over
MessageKinds == {"accepted", "refused", "samples", "cancelling"} \cup Terminals
Message == [kind : MessageKinds, run : Nat, seq : Nat, frames : Seq(Nat)]
Msg(k, r, n, f) == [kind |-> k, run |-> r, seq |-> n, frames |-> f]

Init ==
  /\ job = 0 /\ cancel = FALSE /\ queue = <<>> /\ receiver = FALSE
  /\ terminal = FALSE /\ acknowledged = FALSE /\ sequence = 0
  /\ cpc = "read" /\ drained = 0 /\ leaving = FALSE
  /\ wpc = "none" /\ polled = FALSE /\ held = Msg("accepted", 0, 0, <<>>)
  /\ wseq = 0 /\ samples = 0 /\ frames = <<>> /\ error = FALSE
  /\ length = 1 /\ width = 0
  /\ runs = 0 /\ cancels = 0 /\ out = <<>> /\ verdict = [r \in 1..MaxRuns |-> "none"]
----------------------------------------------------------------------------
(* The worker thread: prepare_run, run_job and enqueue.                    *)

\* The calls of enqueue, and the ones that pass terminal = true: those do not
\* give up when the run is cancelled.
EnqueueSites == {"refuse", "respond", "first", "firstCancelled", "batch", "trail", "final"}
TerminalCall(site) == site \in {"refuse", "respond", "firstCancelled", "final"}

\* Where run_job goes on after enqueue returned.
Sent(site) ==
  CASE site = "respond" -> "begin"
    [] site \in {"first", "batch"} -> "loop"
    [] site = "trail" -> "name"
    [] OTHER -> "exited"
NotSent(site) ==
  CASE site = "first" -> "abort"
    [] site = "batch" -> "leave"
    [] site = "trail" -> "name"
    [] OTHER -> "exited"

\* enqueue loads the cancel flag before every attempt.
EnqueuePoll ==
  /\ wpc \in EnqueueSites /\ ~polled
  /\ IF cancel /\ ~TerminalCall(wpc)
       THEN wpc' = NotSent(wpc) /\ UNCHANGED polled
       ELSE polled' = TRUE /\ UNCHANGED wpc
  /\ UNCHANGED <<jobVars, connection, held, running, counted, out, verdict>>

\* One try_send: disconnected, sent, or full and tried again later.
EnqueueTry ==
  /\ wpc \in EnqueueSites /\ polled
  /\ polled' = FALSE
  /\ \/ ~receiver /\ wpc' = NotSent(wpc) /\ UNCHANGED <<queue, frames>>
     \/ /\ receiver /\ Len(queue) < QueueCapacity
        /\ queue' = Append(queue, held)
        /\ wpc' = Sent(wpc)
        /\ frames' = IF wpc \in {"first", "batch"} THEN <<>> ELSE frames
     \/ receiver /\ Len(queue) >= QueueCapacity /\ UNCHANGED <<wpc, queue, frames>>
  /\ UNCHANGED <<job, cancel, receiver, terminal, acknowledged, sequence, connection,
                 held, wseq, samples, error, length, width, counted, out, verdict>>

\* The event closure numbers an event when it is built, sent or not.
Offer(site, kind, f) ==
  /\ wpc' = site
  /\ wseq' = wseq + 1
  /\ held' = Msg(kind, job, wseq + 1, f)

\* A panic unwinds the worker thread; nothing more is sent.
Panic ==
  /\ wpc \in {"prepare", "advance"}
  /\ wpc' = "exited"
  /\ verdict' = [verdict EXCEPT ![job] = "panicked"]
  /\ UNCHANGED <<jobVars, connection, polled, held, running, counted, out>>

\* prepare_run: the model is refused, or the run is acknowledged.
Prepare ==
  /\ wpc = "prepare"
  /\ \/ /\ wpc' = "refuse" /\ held' = Msg("refused", job, 0, <<>>)
        /\ verdict' = [verdict EXCEPT ![job] = "refused"]
     \/ /\ wpc' = "respond" /\ held' = Msg("accepted", job, 0, <<>>)
        /\ UNCHANGED verdict
  /\ UNCHANGED <<jobVars, connection, polled, running, counted, out>>

\* The first frame, sent on its own when it fills a batch.
Begin ==
  /\ wpc = "begin"
  /\ samples' = 1 /\ frames' = <<1>>
  /\ IF width >= BatchValues
       THEN Offer("first", "samples", <<1>>)
       ELSE wpc' = "loop" /\ UNCHANGED <<wseq, held>>
  /\ UNCHANGED <<jobVars, connection, polled, error, length, width, counted, out, verdict>>

\* The first batch was not sent: the run ends cancelled.
Abort ==
  /\ wpc = "abort"
  /\ Offer("firstCancelled", "cancelled", <<>>)
  /\ verdict' = [verdict EXCEPT ![job] = "cancelled"]
  /\ UNCHANGED <<jobVars, connection, polled, samples, frames, error, length, width, counted, out>>

AtLimit == samples >= MaxSamples \/ samples * width + width > MaxValues

\* The head of the sampling loop.
Loop ==
  /\ wpc = "loop"
  /\ LET going == samples < length /\ ~cancel IN
     /\ wpc' = IF going /\ ~AtLimit THEN "advance" ELSE "leave"
     /\ error' = (going /\ AtLimit)
  /\ UNCHANGED <<jobVars, connection, polled, held, wseq, samples, frames, length, width, counted, out, verdict>>

\* advance_with_cancel: a frame, or an error (being cancelled is one).  A
\* full batch is sent, and any batch is once 30 ms have passed.
Advance ==
  /\ wpc = "advance"
  /\ \/ LET batch == Append(frames, samples + 1) IN
        /\ samples' = samples + 1 /\ frames' = batch
        /\ UNCHANGED error
        /\ \/ Offer("batch", "samples", batch)
           \/ /\ Len(batch) < BatchFrames /\ Len(batch) * width < BatchValues
              /\ wpc' = "loop" /\ UNCHANGED <<wseq, held>>
     \/ /\ error' = TRUE /\ wpc' = "leave"
        /\ UNCHANGED <<samples, frames, wseq, held>>
  /\ UNCHANGED <<jobVars, connection, polled, length, width, counted, out, verdict>>

\* The frames not sent yet follow, unless the run was cancelled.
Trail ==
  /\ wpc = "leave"
  /\ IF frames # <<>> /\ ~cancel
       THEN Offer("trail", "samples", frames)
       ELSE wpc' = "name" /\ UNCHANGED <<wseq, held>>
  /\ UNCHANGED <<jobVars, connection, polled, samples, frames, error, length, width, counted, out, verdict>>

FinalNameByProgress ==
  IF error THEN "failed" ELSE IF samples >= length THEN "finished" ELSE "cancelled"

\* The name of the terminal event: a cancel flag seen here wins.
FinalName == IF cancel THEN "cancelled" ELSE IF error THEN "failed" ELSE "finished"

Name ==
  /\ wpc = "name"
  /\ Offer("final", FinalName, <<>>)
  /\ verdict' = [verdict EXCEPT ![job] = FinalName]
  /\ UNCHANGED <<jobVars, connection, polled, samples, frames, error, length, width, counted, out>>

Worker ==
  \/ EnqueuePoll \/ EnqueueTry \/ Panic \/ Prepare \/ Begin \/ Abort
  \/ Loop \/ Advance \/ Trail \/ Name
----------------------------------------------------------------------------
(* The connection thread: serve, the run and cancel operations, Job::drop. *)

ObserveKeepsSequence(m) ==
  /\ acknowledged' = (acknowledged \/ m.kind = "accepted")
  /\ sequence' = sequence
  /\ terminal' = (terminal \/ m.kind \in Ends)

\* Job::observe; responses carry no sequence number.
Observe(m) ==
  /\ acknowledged' = (acknowledged \/ m.kind = "accepted")
  /\ sequence' = IF m.seq > 0 THEN m.seq ELSE sequence
  /\ terminal' = (terminal \/ m.kind \in Ends)

\* send(socket, ..)? returns from serve, which drops the job.
Send(m, next) ==
  \/ out' = Append(out, m) /\ cpc' = next /\ UNCHANGED leaving
  \/ cpc' = "dropCancel" /\ leaving' = TRUE /\ UNCHANGED out

\* try_recv in the drain loop, at most DrainLimit times.
Drain ==
  /\ cpc = "drain" /\ queue # <<>> /\ drained < DrainLimit
  /\ Observe(Head(queue)) /\ Send(Head(queue), "drain")
  /\ queue' = Tail(queue)
  /\ drained' = drained + 1
  /\ UNCHANGED <<job, cancel, receiver, enqueuing, running, counted, verdict>>

\* The drain loop ended.
Drained ==
  /\ cpc = "drain" /\ (queue = <<>> \/ drained = DrainLimit)
  /\ cpc' = "judge"
  /\ UNCHANGED <<jobVars, drained, leaving, enqueuing, running, counted, out, verdict>>

JudgeTerminalOnly ==
  /\ cpc = "judge"
  /\ cpc' = IF terminal THEN "dropCancel" ELSE "read"
  /\ UNCHANGED <<jobVars, drained, leaving, enqueuing, running, counted, out, verdict>>

\* A terminal message was relayed, or the worker thread is gone.
Judge ==
  /\ cpc = "judge"
  /\ cpc' = CASE terminal -> "dropCancel"
              [] ~terminal /\ wpc = "exited" -> "last"
              [] OTHER -> "read"
  /\ UNCHANGED <<jobVars, drained, leaving, enqueuing, running, counted, out, verdict>>

\* The failure the connection makes up for a worker that died.
Unexpected ==
  IF acknowledged THEN Msg("failed", job, sequence + 1, <<>>) ELSE Msg("refused", job, 0, <<>>)

LastUnread ==
  /\ cpc = "last"
  /\ Send(Unexpected, "dropCancel")
  /\ UNCHANGED <<jobVars, drained, enqueuing, running, counted, verdict>>

\* The worker is gone: what it left in the channel comes first.
Last ==
  /\ cpc = "last"
  /\ \/ /\ queue # <<>>
        /\ Observe(Head(queue))
        /\ Send(Head(queue), IF terminal' THEN "dropCancel" ELSE "read")
        /\ queue' = Tail(queue)
        /\ UNCHANGED <<job, cancel, receiver>>
     \/ /\ queue = <<>>
        /\ Send(Unexpected, "dropCancel")
        /\ UNCHANGED jobVars
  /\ UNCHANGED <<drained, enqueuing, running, counted, verdict>>

\* Job::drop: store the flag, disconnect the channel, join the worker.
DropCancel ==
  /\ cpc = "dropCancel"
  /\ cancel' = TRUE
  /\ cpc' = "dropReceiver"
  /\ UNCHANGED <<job, queue, receiver, terminal, acknowledged, sequence, drained, leaving,
                 enqueuing, running, counted, out, verdict>>

DropReceiverAfterJoin ==
  /\ cpc = "dropReceiver" /\ wpc = "exited"
  /\ receiver' = FALSE /\ queue' = <<>>
  /\ cpc' = "join"
  /\ UNCHANGED <<job, cancel, terminal, acknowledged, sequence, drained, leaving,
                 enqueuing, running, counted, out, verdict>>

DropReceiver ==
  /\ cpc = "dropReceiver"
  /\ receiver' = FALSE /\ queue' = <<>>
  /\ cpc' = "join"
  /\ UNCHANGED <<job, cancel, terminal, acknowledged, sequence, drained, leaving,
                 enqueuing, running, counted, out, verdict>>

Join ==
  /\ cpc = "join" /\ wpc = "exited"
  /\ job' = 0
  /\ cpc' = IF leaving THEN "left" ELSE "read"
  /\ UNCHANGED <<cancel, queue, receiver, terminal, acknowledged, sequence, drained, leaving,
                 enqueuing, running, counted, out, verdict>>

\* The top of the serve loop after a read.
Again == IF job # 0 THEN "drain" ELSE "read"

\* The read timed out, or brought a request that leaves the job alone: a
\* catalog, check, import or parameter request, a run while one is active, a
\* cancel of another run.  Only its reply, not modelled, can fail.
ReadNothing ==
  /\ cpc = "read" /\ job # 0
  /\ cpc' = Again /\ drained' = 0
  /\ UNCHANGED <<jobVars, leaving, enqueuing, running, counted, out, verdict>>

\* start_snapshot: a new flag, channel, worker and Job.
Start(r, n, w) ==
  /\ job' = r /\ cancel' = FALSE /\ queue' = <<>> /\ receiver' = TRUE
  /\ terminal' = FALSE /\ acknowledged' = FALSE /\ sequence' = 0
  /\ wpc' = "prepare" /\ polled' = FALSE
  /\ wseq' = 0 /\ samples' = 0 /\ frames' = <<>> /\ error' = FALSE
  /\ length' = n /\ width' = w
  /\ UNCHANGED held

\* A run request with no active job.
ReadRun ==
  /\ cpc = "read" /\ job = 0 /\ runs < MaxRuns
  /\ \E n \in Lengths, w \in Widths : Start(runs + 1, n, w)
  /\ runs' = runs + 1
  /\ cpc' = "drain" /\ drained' = 0
  /\ UNCHANGED <<leaving, cancels, out, verdict>>

\* A cancel request for the active run: store the flag, then reply.
ReadCancel ==
  /\ cpc = "read" /\ job # 0 /\ cancels < MaxCancels
  /\ cancel' = TRUE
  /\ cancels' = cancels + 1
  /\ Send(Msg("cancelling", job, 0, <<>>), Again)
  /\ drained' = 0
  /\ UNCHANGED <<job, queue, receiver, terminal, acknowledged, sequence, enqueuing, running, runs, verdict>>

\* The client closed, or the socket failed.
ReadClose ==
  /\ cpc = "read"
  /\ leaving' = TRUE
  /\ cpc' = IF job # 0 THEN "dropCancel" ELSE "left"
  /\ UNCHANGED <<jobVars, drained, enqueuing, running, counted, out, verdict>>

Connection ==
  \/ Drain \/ Drained \/ Judge \/ Last
  \/ DropCancel \/ DropReceiver \/ Join \/ ReadNothing

Client == ReadRun \/ ReadCancel \/ ReadClose

Left == cpc = "left" /\ UNCHANGED vars

Next == Worker \/ Connection \/ Client \/ Left

Spec == Init /\ [][Next]_vars

\* Both threads are scheduled and a simulation step returns; the client owes
\* nothing.
FairSpec == Spec /\ WF_vars(Worker) /\ WF_vars(Connection)
----------------------------------------------------------------------------
WorkerPcs == EnqueueSites \cup
  {"none", "prepare", "begin", "abort", "loop", "advance", "leave", "name", "exited"}
ConnectionPcs == {"read", "drain", "judge", "last", "dropCancel", "dropReceiver", "join", "left"}

\* The values every variable keeps; the channel never exceeds its capacity.
SimTypeOK ==
  /\ job \in 0..MaxRuns /\ cancel \in BOOLEAN /\ receiver \in BOOLEAN
  /\ queue \in Seq(Message) /\ Len(queue) <= QueueCapacity
  /\ terminal \in BOOLEAN /\ acknowledged \in BOOLEAN /\ sequence \in Nat
  /\ cpc \in ConnectionPcs /\ drained \in 0..DrainLimit /\ leaving \in BOOLEAN
  /\ wpc \in WorkerPcs /\ polled \in BOOLEAN /\ held \in Message
  /\ wseq \in Nat /\ samples \in Nat /\ frames \in Seq(Nat) /\ error \in BOOLEAN
  /\ length \in Nat /\ width \in Nat
  /\ runs \in 0..MaxRuns /\ cancels \in 0..MaxCancels /\ out \in Seq(Message)
  /\ verdict \in [1..MaxRuns -> Terminals \cup {"none", "refused", "panicked"}]

\* Message m tells the client something about run r.
Tells(m, r) == m.run = r /\ m.kind # "cancelling"

\* A run is answered first, then its events come with increasing sequence
\* numbers, and nothing follows the terminal one, also when the connection
\* has to make that one up for a worker that died.
RunProtocol ==
  \A i \in 1..Len(out) : Tells(out[i], out[i].run) =>
    LET earlier == {j \in 1..(i - 1) : Tells(out[j], out[i].run)} IN
    /\ (earlier = {}) = (out[i].kind \in {"accepted", "refused"})
    /\ \A j \in earlier : out[j].kind \notin Ends /\ out[j].seq < out[i].seq

\* The two, as one invariant.
SimulationConsistent == SimTypeOK /\ RunProtocol

\* "limits are explicit failures, not unnoticed truncation": a run reported
\* finished has delivered every sample up to its stop time once, in order,
\* although a cancel racing with the end may drop the last batch.
FinishedIsComplete ==
  \A i \in 1..Len(out) : out[i].kind = "finished" /\ out[i].run = job =>
    LET batches == {b \in 1..i : out[b].run = job /\ out[b].kind = "samples"}
        Final(b) == out[b].frames[Len(out[b].frames)]
    IN  /\ \A n \in 1..length : \E b \in batches : \E k \in 1..Len(out[b].frames) :
               out[b].frames[k] = n
        /\ \A b \in batches : \A k \in 2..Len(out[b].frames) :
               out[b].frames[k] = out[b].frames[k - 1] + 1
        /\ \A b, c \in batches : b < c /\ (\A a \in batches : a <= b \/ c <= a) =>
               out[c].frames[1] = Final(b) + 1

\* A run is reported cancelled only after a cancel request for that very run
\* was answered: neither an earlier run's flag nor the flag Job::drop stores
\* reaches the client.
CancelledOnRequest ==
  \A i \in 1..Len(out) : out[i].kind = "cancelled" =>
    \E j \in 1..(i - 1) : out[j].kind = "cancelling" /\ out[j].run = out[i].run

\* "Only an empty disconnected channel without a terminal message means the
\* worker failed": the client is told how the worker really ended the run, a
\* failure is made up only for a worker that panicked, and a cancellation is
\* never made up.
ReportsTruth ==
  /\ CancelledOnRequest
  /\ \A i \in 1..Len(out) : LET m == out[i] IN
       /\ m.kind \in {"finished", "cancelled"} => verdict[m.run] = m.kind
       /\ m.kind = "failed" => verdict[m.run] \in {"failed", "panicked"}
       /\ m.kind = "refused" => verdict[m.run] \in {"refused", "panicked"}

\* Every run that was started is brought to its end for the client, whatever
\* its worker does, or the connection ends.
RunEnds ==
  \A r \in 1..MaxRuns :
    (runs >= r) ~> (leaving \/ \E i \in 1..Len(out) : out[i].run = r /\ out[i].kind \in Ends)

\* "Disconnect before joining: a worker may be waiting on the bounded queue":
\* dropping a job always ends, even with the channel full.
DropCompletes == (cpc = "dropReceiver") ~> (job = 0)
=============================================================================
