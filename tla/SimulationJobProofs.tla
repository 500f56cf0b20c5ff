------------------------ MODULE SimulationJobProofs ------------------------
(***************************************************************************)
(* What the client of a simulation connection may rely on, proved for      *)
(* every queue capacity, batch size, limit, model and number of runs.      *)
(*                                                                         *)
(* What a run told the client (out) is a prefix of what its worker said:   *)
(* the rest is in the channel (queue) or in the enqueue call the worker is *)
(* in (held).  The invariant therefore describes the three as one stream,  *)
(* cut where the connection has read to (acknowledged, sequence and        *)
(* terminal sum up the part that is out), and only for as long as the      *)
(* connection relays: once it drops the job the stream may lose messages,  *)
(* but then nothing more is sent about the run either.                     *)
(***************************************************************************)
EXTENDS SimulationJob, TLAPS

\* The connection relays the events of an active job.
Relaying == cpc \in {"read", "drain", "judge", "last"}
Active == Relaying /\ job # 0

\* Where the two threads can be, together.
PhaseInv ==
  /\ job \in {0, runs}
  /\ job = 0 => wpc \in {"none", "exited"} /\ cpc \in {"read", "left"}
  /\ job # 0 => wpc # "none" /\ cpc # "left"
  /\ cpc = "last" => wpc = "exited" /\ ~terminal
  /\ cpc = "read" /\ job # 0 => ~terminal

\* Nothing is sent about a run before it starts, and no verdict on it before
\* its worker is done.
OutInv ==
  /\ \A i \in 1..Len(out) : out[i].run \in 1..runs
  /\ \A i \in 1..Len(out) : out[i].run = job /\ out[i].kind \in Ends => wpc = "exited"

\* What Job.observe recorded sums up what was sent about the active run.
SummaryInv ==
  /\ \A i \in 1..Len(out) : Tells(out[i], job) =>
       /\ acknowledged \/ terminal
       /\ out[i].seq <= sequence
       /\ out[i].kind \in Ends => terminal
  /\ acknowledged \/ terminal => \E i \in 1..Len(out) : Tells(out[i], job)

Answering == {"prepare", "respond", "refuse"}

\* The channel continues what was sent.
QueueInv ==
  /\ receiver
  /\ \A i \in 1..Len(queue) :
       /\ Tells(queue[i], job)
       /\ queue[i].kind \in {"accepted", "refused"} => i = 1 /\ ~acknowledged /\ queue[i].seq = 0
       /\ queue[i].kind \notin {"accepted", "refused"} =>
            (i > 1 \/ acknowledged) /\ queue[i].seq > sequence /\ queue[i].seq > 0
       /\ queue[i].kind \in Ends => i = Len(queue) /\ wpc = "exited" /\ queue[i].kind = verdict[job]
       /\ queue[i].seq <= wseq
  /\ \A i, j \in 1..Len(queue) : i < j => queue[i].seq < queue[j].seq
  /\ sequence <= wseq
  /\ terminal => queue = <<>> /\ wpc = "exited"
  /\ wpc \in Answering => queue = <<>> /\ ~acknowledged
  /\ wpc \notin Answering \cup {"exited"} => acknowledged \/ queue # <<>>
  /\ wpc = "exited" => \/ verdict[job] = "panicked"
                       \/ terminal
                       \/ queue # <<>> /\ queue[Len(queue)].kind \in Ends

\* The event the worker is trying to send continues the channel.
HeldInv ==
  /\ wpc \in EnqueueSites => held.run = job
  /\ wpc = "refuse" => held.kind = "refused" /\ held.seq = 0 /\ verdict[job] = "refused"
  /\ wpc = "respond" => held.kind = "accepted" /\ held.seq = 0
  /\ wpc \in {"first", "batch", "trail"} => held.kind = "samples" /\ held.frames = frames
  /\ wpc = "firstCancelled" => held.kind = "cancelled" /\ verdict[job] = "cancelled"
  /\ wpc = "final" => held.kind \in Terminals /\ held.kind = verdict[job]
  /\ wpc \in EnqueueSites \ {"refuse", "respond"} =>
       /\ held.seq = wseq /\ sequence < wseq
       /\ \A i \in 1..Len(queue) : queue[i].seq < wseq

\* A run is cancelled because its client asked.
CancelInv ==
  /\ wpc = "abort" => cancel
  /\ cancel \/ verdict[job] = "cancelled" =>
       \E j \in 1..Len(out) : out[j].kind = "cancelling" /\ out[j].run = job

\* The batches of run r in q hold the samples d+1 .. e once each, in order.
Batch(m, r) == m.run = r /\ m.kind = "samples"
Final(m) == m.frames[Len(m.frames)]
Chain(q, r, d, e) ==
  /\ d <= e
  /\ \A i \in 1..Len(q) : Batch(q[i], r) =>
       /\ Len(q[i].frames) > 0
       /\ \A k \in 1..Len(q[i].frames) : q[i].frames[k] = q[i].frames[1] + k - 1
       /\ d < q[i].frames[1] /\ Final(q[i]) <= e
       /\ \/ q[i].frames[1] = d + 1
          \/ \E j \in 1..Len(q) : j < i /\ Batch(q[j], r) /\ Final(q[j]) + 1 = q[i].frames[1]
  /\ \A i, j \in 1..Len(q) : i < j /\ Batch(q[i], r) /\ Batch(q[j], r) => Final(q[i]) < q[j].frames[1]
  /\ \A n \in (d + 1)..e : \E i \in 1..Len(q) :
       Batch(q[i], r) /\ q[i].frames[1] <= n /\ n <= Final(q[i])

\* With e samples handed over, what the worker still has to send.
Remaining(e) ==
  /\ wpc \in Answering \cup {"begin"} => e = 0 /\ samples = 0 /\ frames = <<>>
  /\ wpc \in {"first", "loop", "advance", "batch", "leave", "trail"} =>
       e + Len(frames) = samples /\ \A k \in 1..Len(frames) : frames[k] = e + k
  /\ wpc \in {"first", "batch", "trail"} => Len(frames) > 0
  /\ wpc = "name" /\ ~cancel => e = samples
  /\ wpc \in {"leave", "trail", "name"} => error \/ cancel \/ samples >= length
  /\ verdict[job] = "finished" => e = samples /\ samples >= length

\* The samples that are out and those in the channel are consecutive.
FramesInv ==
  \E d, e \in 0..samples : Chain(out, job, 0, d) /\ Chain(queue, job, d, e) /\ Remaining(e)

\* The worker has not named the end of the run yet.
VerdictInv ==
  wpc \in Answering \cup {"begin", "first", "abort", "loop", "advance", "batch", "leave", "trail", "name"} =>
    wpc = "refuse" \/ verdict[job] = "none"

StreamInv == SummaryInv /\ QueueInv /\ HeldInv /\ CancelInv /\ VerdictInv /\ FramesInv

\* A run that has not started has no verdict.
UnstartedInv == \A r \in 1..MaxRuns : r > runs => verdict[r] = "none"

SimInv ==
  /\ SimulationConsistent /\ ReportsTruth /\ FinishedIsComplete
  /\ PhaseInv /\ OutInv /\ UnstartedInv
  /\ Active => StreamInv
----------------------------------------------------------------------------
(* Messages put at the end of a sequence and taken from its head.          *)

\* Appending a message leaves the others where they are.
LEMMA AppendFacts ==
  ASSUME NEW q \in Seq(Message), NEW m \in Message, NEW r, r = Append(q, m)
  PROVE  /\ r \in Seq(Message)
         /\ Len(r) = Len(q) + 1 /\ Len(q) \in Nat
         /\ r[Len(q) + 1] = m
         /\ \A i \in 1..Len(q) : r[i] = q[i]
  OBVIOUS

\* Taking the head moves the others one place forward.
LEMMA TailFacts ==
  ASSUME NEW q \in Seq(Message), q # <<>>, NEW r, r = Tail(q)
  PROVE  /\ r \in Seq(Message)
         /\ Len(q) \in Nat /\ Len(q) > 0 /\ Len(r) = Len(q) - 1
         /\ Head(q) = q[1] /\ q[1] \in Message
         /\ \A i \in 1..Len(r) : r[i] = q[i + 1]
  OBVIOUS

\* The numbers in the messages of a sequence.
LEMMA MessageNumbers ==
  ASSUME NEW q \in Seq(Message), NEW i \in 1..Len(q)
  PROVE  q[i] \in Message /\ q[i].seq \in Nat /\ q[i].run \in Nat
PROOF
  <1>1. q[i] \in Message
    OBVIOUS
  <1> QED BY <1>1 DEF Message

\* The fields of a message that was built.
LEMMA MsgFacts ==
  ASSUME NEW k \in MessageKinds, NEW r \in Nat, NEW n \in Nat, NEW f \in Seq(Nat),
         NEW m, m = Msg(k, r, n, f)
  PROVE  m \in Message /\ m.kind = k /\ m.run = r /\ m.seq = n /\ m.frames = f
  BY DEF Msg, Message
----------------------------------------------------------------------------
(* Chains of batches: what delivering and relaying a batch do to them.     *)

\* The numbers a batch is about.
LEMMA BatchFacts ==
  ASSUME NEW m \in Message, Len(m.frames) > 0
  PROVE  /\ Len(m.frames) \in Nat /\ m.frames[1] \in Nat /\ Final(m) \in Nat
         /\ \A k \in 1..Len(m.frames) : m.frames[k] \in Nat
  BY DEF Message, Final

\* No batch, no samples.
LEMMA ChainEmpty ==
  ASSUME NEW r, NEW d \in Nat
  PROVE  Chain(<<>>, r, d, d)
  BY DEF Chain

\* A sequence without batches of the run delivers nothing.
LEMMA ChainNothing ==
  ASSUME NEW q \in Seq(Message), NEW r, NEW d \in Nat, NEW e \in Nat, Chain(q, r, d, e),
         \A i \in 1..Len(q) : ~Batch(q[i], r)
  PROVE  d = e
  BY DEF Chain

\* A sequence in which the run does not occur is a chain of no samples.
LEMMA ChainFresh ==
  ASSUME NEW q \in Seq(Message), NEW r, NEW d \in Nat, \A i \in 1..Len(q) : q[i].run # r
  PROVE  Chain(q, r, d, d)
  BY DEF Chain, Batch

\* A message that is no batch of the run adds nothing to the chain.
LEMMA ChainAppendOther ==
  ASSUME NEW q \in Seq(Message), NEW m \in Message, NEW r, NEW d \in Nat, NEW e \in Nat,
         Chain(q, r, d, e), ~Batch(m, r), NEW p, p = Append(q, m)
  PROVE  Chain(p, r, d, e)
PROOF
  <1>1. /\ Len(p) = Len(q) + 1 /\ Len(q) \in Nat /\ p[Len(q) + 1] = m
        /\ \A i \in 1..Len(q) : p[i] = q[i]
    BY AppendFacts
  <1>2. \A i \in 1..Len(p) : Batch(p[i], r) => i \in 1..Len(q) /\ p[i] = q[i]
    BY <1>1
  <1>3. \A i \in 1..Len(q) : i \in 1..Len(p) /\ p[i] = q[i]
    BY <1>1
  <1>4. ASSUME NEW i \in 1..Len(p), Batch(p[i], r)
        PROVE  /\ Len(p[i].frames) > 0
               /\ \A k \in 1..Len(p[i].frames) : p[i].frames[k] = p[i].frames[1] + k - 1
               /\ d < p[i].frames[1] /\ Final(p[i]) <= e
               /\ \/ p[i].frames[1] = d + 1
                  \/ \E j \in 1..Len(p) : j < i /\ Batch(p[j], r) /\ Final(p[j]) + 1 = p[i].frames[1]
    <2>1. /\ Len(q[i].frames) > 0
          /\ \A k \in 1..Len(q[i].frames) : q[i].frames[k] = q[i].frames[1] + k - 1
          /\ d < q[i].frames[1] /\ Final(q[i]) <= e
          /\ \/ q[i].frames[1] = d + 1
             \/ \E j \in 1..Len(q) : j < i /\ Batch(q[j], r) /\ Final(q[j]) + 1 = q[i].frames[1]
      BY <1>2, <1>4 DEF Chain
    <2> QED BY <2>1, <1>2, <1>3, <1>4
  <1>5. \A i, j \in 1..Len(p) : i < j /\ Batch(p[i], r) /\ Batch(p[j], r) => Final(p[i]) < p[j].frames[1]
    BY <1>2 DEF Chain
  <1>6. \A n \in (d + 1)..e : \E i \in 1..Len(p) :
          Batch(p[i], r) /\ p[i].frames[1] <= n /\ n <= Final(p[i])
    BY <1>3 DEF Chain
  <1>7. d <= e
    BY DEF Chain
  <1> QED BY <1>4, <1>5, <1>6, <1>7 DEF Chain

\* A batch that starts after the chain's end extends it.
LEMMA ChainAppendBatch ==
  ASSUME NEW q \in Seq(Message), NEW m \in Message, NEW r, NEW d \in Nat, NEW e \in Nat,
         Chain(q, r, d, e), Batch(m, r), Len(m.frames) > 0,
         \A k \in 1..Len(m.frames) : m.frames[k] = e + k,
         NEW p, p = Append(q, m)
  PROVE  Chain(p, r, d, e + Len(m.frames))
PROOF
  <1>1. /\ Len(p) = Len(q) + 1 /\ Len(q) \in Nat /\ p[Len(q) + 1] = m
        /\ \A i \in 1..Len(q) : p[i] = q[i]
    BY AppendFacts
  <1>2. /\ Len(m.frames) \in Nat /\ m.frames[1] = e + 1 /\ Final(m) = e + Len(m.frames)
        /\ \A k \in 1..Len(m.frames) : m.frames[k] = m.frames[1] + k - 1
    <2>1. Len(m.frames) \in Nat
      BY BatchFacts
    <2>2. 1 \in 1..Len(m.frames) /\ Len(m.frames) \in 1..Len(m.frames)
      BY <2>1
    <2>3. m.frames[1] = e + 1 /\ Final(m) = e + Len(m.frames)
      BY <2>2 DEF Final
    <2>4. \A k \in 1..Len(m.frames) : m.frames[k] = m.frames[1] + k - 1
      BY <2>1, <2>3
    <2> QED BY <2>1, <2>3, <2>4
  <1>3. \A i \in 1..Len(p) : (i \in 1..Len(q) /\ p[i] = q[i]) \/ (i = Len(q) + 1 /\ p[i] = m)
    BY <1>1
  <1>4. \A i \in 1..Len(q) : i \in 1..Len(p) /\ p[i] = q[i] /\ i < Len(q) + 1
    BY <1>1
  <1>5. \A i \in 1..Len(q) : Batch(q[i], r) =>
          /\ Len(q[i].frames) > 0 /\ Final(q[i]) \in Nat /\ q[i].frames[1] \in Nat
          /\ \A k \in 1..Len(q[i].frames) : q[i].frames[k] = q[i].frames[1] + k - 1
          /\ d < q[i].frames[1] /\ Final(q[i]) <= e
          /\ \/ q[i].frames[1] = d + 1
             \/ \E j \in 1..Len(q) : j < i /\ Batch(q[j], r) /\ Final(q[j]) + 1 = q[i].frames[1]
    BY BatchFacts DEF Chain
  <1>6. d <= e
    BY DEF Chain
  <1>7. m.frames[1] = d + 1 \/ \E j \in 1..Len(q) : Batch(q[j], r) /\ Final(q[j]) + 1 = m.frames[1]
    <2>1. CASE e = d
      BY <2>1, <1>2
    <2>2. CASE e # d
      <3>1. e \in (d + 1)..e
        BY <2>2, <1>6
      <3>2. PICK j \in 1..Len(q) : Batch(q[j], r) /\ q[j].frames[1] <= e /\ e <= Final(q[j])
        BY <3>1 DEF Chain
      <3>3. Final(q[j]) = e
        BY <3>2, <1>5
      <3> QED BY <3>2, <3>3, <1>2
    <2> QED BY <2>1, <2>2
  <1>8. ASSUME NEW i \in 1..Len(p), Batch(p[i], r)
        PROVE  /\ Len(p[i].frames) > 0
               /\ \A k \in 1..Len(p[i].frames) : p[i].frames[k] = p[i].frames[1] + k - 1
               /\ d < p[i].frames[1] /\ Final(p[i]) <= e + Len(m.frames)
               /\ \/ p[i].frames[1] = d + 1
                  \/ \E j \in 1..Len(p) : j < i /\ Batch(p[j], r) /\ Final(p[j]) + 1 = p[i].frames[1]
    <2>1. CASE i = Len(q) + 1 /\ p[i] = m
      <3>1. /\ Len(p[i].frames) > 0
            /\ \A k \in 1..Len(p[i].frames) : p[i].frames[k] = p[i].frames[1] + k - 1
            /\ d < p[i].frames[1] /\ Final(p[i]) <= e + Len(m.frames)
        BY <2>1, <1>2, <1>6
      <3> QED BY <3>1, <2>1, <1>4, <1>7
    <2>2. CASE i \in 1..Len(q) /\ p[i] = q[i]
      <3>1. /\ Len(p[i].frames) > 0
            /\ \A k \in 1..Len(p[i].frames) : p[i].frames[k] = p[i].frames[1] + k - 1
            /\ d < p[i].frames[1] /\ Final(p[i]) <= e + Len(m.frames)
        BY <2>2, <1>8, <1>5, <1>2
      <3>2. \/ q[i].frames[1] = d + 1
            \/ \E j \in 1..Len(q) : j < i /\ Batch(q[j], r) /\ Final(q[j]) + 1 = q[i].frames[1]
        BY <2>2, <1>8, <1>5
      <3> QED BY <3>1, <3>2, <2>2, <1>4
    <2> QED BY <2>1, <2>2, <1>3
  <1>9. \A i, j \in 1..Len(p) : i < j /\ Batch(p[i], r) /\ Batch(p[j], r) => Final(p[i]) < p[j].frames[1]
    <2> SUFFICES ASSUME NEW i \in 1..Len(p), NEW j \in 1..Len(p), i < j, Batch(p[i], r), Batch(p[j], r)
                 PROVE  Final(p[i]) < p[j].frames[1]
      OBVIOUS
    <2>1. i \in 1..Len(q) /\ p[i] = q[i]
      BY <1>1
    <2>2. CASE j = Len(q) + 1 /\ p[j] = m
      BY <2>1, <2>2, <1>5, <1>2
    <2>3. CASE j \in 1..Len(q) /\ p[j] = q[j]
      BY <2>1, <2>3 DEF Chain
    <2> QED BY <2>2, <2>3, <1>3
  <1>10. \A n \in (d + 1)..(e + Len(m.frames)) : \E i \in 1..Len(p) :
           Batch(p[i], r) /\ p[i].frames[1] <= n /\ n <= Final(p[i])
    <2> SUFFICES ASSUME NEW n \in (d + 1)..(e + Len(m.frames))
                 PROVE  \E i \in 1..Len(p) : Batch(p[i], r) /\ p[i].frames[1] <= n /\ n <= Final(p[i])
      OBVIOUS
    <2>1. CASE n <= e
      <3>1. \E i \in 1..Len(q) : Batch(q[i], r) /\ q[i].frames[1] <= n /\ n <= Final(q[i])
        BY <2>1, <1>2 DEF Chain
      <3> QED BY <3>1, <1>4
    <2>2. CASE n > e
      <3>1. Len(q) + 1 \in 1..Len(p) /\ e + 1 <= n
        BY <2>2, <1>1, <1>2
      <3> QED BY <3>1, <1>1, <1>2
    <2>3. n <= e \/ n > e
      BY <1>2
    <2> QED BY <2>1, <2>2, <2>3
  <1>11. d <= e + Len(m.frames)
    BY <1>2, <1>6
  <1> QED BY <1>8, <1>9, <1>10, <1>11 DEF Chain

\* Taking a message that is no batch leaves the chain as it is.
LEMMA ChainTailOther ==
  ASSUME NEW q \in Seq(Message), q # <<>>, NEW r, NEW d \in Nat, NEW e \in Nat,
         Chain(q, r, d, e), ~Batch(Head(q), r), NEW p, p = Tail(q)
  PROVE  Chain(p, r, d, e)
PROOF
  <1>1. /\ Len(q) \in Nat /\ Len(q) > 0 /\ Len(p) = Len(q) - 1 /\ Head(q) = q[1]
        /\ \A i \in 1..Len(p) : p[i] = q[i + 1]
    BY TailFacts
  <1>2. \A i \in 1..Len(q) : Batch(q[i], r) => i > 1 /\ i - 1 \in 1..Len(p) /\ q[i] = p[i - 1]
    BY <1>1
  <1>3. \A i \in 1..Len(p) : i + 1 \in 1..Len(q) /\ p[i] = q[i + 1]
    BY <1>1
  <1>4. ASSUME NEW i \in 1..Len(p), Batch(p[i], r)
        PROVE  /\ Len(p[i].frames) > 0
               /\ \A k \in 1..Len(p[i].frames) : p[i].frames[k] = p[i].frames[1] + k - 1
               /\ d < p[i].frames[1] /\ Final(p[i]) <= e
               /\ \/ p[i].frames[1] = d + 1
                  \/ \E j \in 1..Len(p) : j < i /\ Batch(p[j], r) /\ Final(p[j]) + 1 = p[i].frames[1]
    <2>1. /\ Len(q[i + 1].frames) > 0
          /\ \A k \in 1..Len(q[i + 1].frames) : q[i + 1].frames[k] = q[i + 1].frames[1] + k - 1
          /\ d < q[i + 1].frames[1] /\ Final(q[i + 1]) <= e
          /\ \/ q[i + 1].frames[1] = d + 1
             \/ \E j \in 1..Len(q) : j < i + 1 /\ Batch(q[j], r) /\ Final(q[j]) + 1 = q[i + 1].frames[1]
      BY <1>3, <1>4 DEF Chain
    <2>2. ASSUME NEW j \in 1..Len(q), j < i + 1, Batch(q[j], r)
          PROVE  j - 1 \in 1..Len(p) /\ j - 1 < i /\ q[j] = p[j - 1]
      BY <2>2, <1>2
    <2> QED BY <2>1, <2>2, <1>3
  <1>5. \A i, j \in 1..Len(p) : i < j /\ Batch(p[i], r) /\ Batch(p[j], r) => Final(p[i]) < p[j].frames[1]
    BY <1>3 DEF Chain
  <1>6. \A n \in (d + 1)..e : \E i \in 1..Len(p) :
          Batch(p[i], r) /\ p[i].frames[1] <= n /\ n <= Final(p[i])
    BY <1>2 DEF Chain
  <1>7. d <= e
    BY DEF Chain
  <1> QED BY <1>4, <1>5, <1>6, <1>7 DEF Chain

\* Taking a batch moves the chain's start behind it, and that batch is the
\* one that starts where the chain did.
LEMMA ChainTailBatch ==
  ASSUME NEW q \in Seq(Message), q # <<>>, NEW r, NEW d \in Nat, NEW e \in Nat,
         Chain(q, r, d, e), Batch(Head(q), r), NEW p, p = Tail(q)
  PROVE  /\ Len(Head(q).frames) > 0
         /\ \A k \in 1..Len(Head(q).frames) : Head(q).frames[k] = d + k
         /\ d + Len(Head(q).frames) <= e
         /\ Chain(p, r, d + Len(Head(q).frames), e)
PROOF
  <1>1. /\ Len(q) \in Nat /\ Len(q) > 0 /\ Len(p) = Len(q) - 1 /\ Head(q) = q[1] /\ q[1] \in Message
        /\ \A i \in 1..Len(p) : p[i] = q[i + 1]
    BY TailFacts
  <1> DEFINE m == Head(q)
             D == d + Len(m.frames)
  <1>2. m \in Message /\ 1 \in 1..Len(q) /\ q[1] = m /\ Batch(q[1], r)
    BY <1>1
  <1>3. /\ Len(m.frames) > 0
        /\ \A k \in 1..Len(m.frames) : m.frames[k] = m.frames[1] + k - 1
        /\ Final(m) <= e
        /\ \/ m.frames[1] = d + 1
           \/ \E j \in 1..Len(q) : j < 1
    BY <1>2 DEF Chain
  <1>4. m.frames[1] = d + 1
    BY <1>3
  <1>5. Len(m.frames) \in Nat /\ Final(m) = D /\ D \in Nat
    <2>1. Len(m.frames) \in Nat
      BY <1>2, <1>3, BatchFacts
    <2>2. Len(m.frames) \in 1..Len(m.frames)
      BY <2>1, <1>3
    <2>3. Final(m) = m.frames[1] + Len(m.frames) - 1
      BY <2>2, <1>3 DEF Final
    <2> QED BY <2>1, <2>3, <1>4
  <1>6. \A k \in 1..Len(m.frames) : m.frames[k] = d + k
    BY <1>3, <1>4, <1>5
  <1>7. \A i \in 1..Len(p) : i + 1 \in 1..Len(q) /\ p[i] = q[i + 1] /\ 1 < i + 1 /\ p[i] \in Message
    BY <1>1
  <1>8. \A i \in 1..Len(q) : i = 1 \/ (i - 1 \in 1..Len(p) /\ q[i] = p[i - 1])
    BY <1>1
  <1>9. ASSUME NEW i \in 1..Len(p), Batch(p[i], r)
        PROVE  D < p[i].frames[1]
    BY <1>9, <1>2, <1>5, <1>7 DEF Chain
  <1>10. ASSUME NEW i \in 1..Len(p), Batch(p[i], r)
        PROVE  /\ Len(p[i].frames) > 0
               /\ \A k \in 1..Len(p[i].frames) : p[i].frames[k] = p[i].frames[1] + k - 1
               /\ Final(p[i]) <= e
               /\ \/ p[i].frames[1] = D + 1
                  \/ \E j \in 1..Len(p) : j < i /\ Batch(p[j], r) /\ Final(p[j]) + 1 = p[i].frames[1]
    <2>1. /\ Len(q[i + 1].frames) > 0
          /\ \A k \in 1..Len(q[i + 1].frames) : q[i + 1].frames[k] = q[i + 1].frames[1] + k - 1
          /\ Final(q[i + 1]) <= e
          /\ \/ q[i + 1].frames[1] = d + 1
             \/ \E j \in 1..Len(q) : j < i + 1 /\ Batch(q[j], r) /\ Final(q[j]) + 1 = q[i + 1].frames[1]
      BY <1>7, <1>10 DEF Chain
    <2>2. q[i + 1].frames[1] # d + 1
      BY <1>9, <1>10, <1>5, <1>3, <1>7
    <2>3. PICK j \in 1..Len(q) : j < i + 1 /\ Batch(q[j], r) /\ Final(q[j]) + 1 = q[i + 1].frames[1]
      BY <2>1, <2>2
    <2>4. CASE j = 1
      BY <2>1, <2>3, <2>4, <1>2, <1>5, <1>7
    <2>5. CASE j # 1
      <3>1. j - 1 \in 1..Len(p) /\ q[j] = p[j - 1] /\ j - 1 < i
        BY <2>5, <2>3, <1>8
      <3> QED BY <2>1, <2>3, <3>1, <1>7
    <2> QED BY <2>4, <2>5
  <1>11. \A i, j \in 1..Len(p) : i < j /\ Batch(p[i], r) /\ Batch(p[j], r) => Final(p[i]) < p[j].frames[1]
    BY <1>7 DEF Chain
  <1>12. \A n \in (D + 1)..e : \E i \in 1..Len(p) :
          Batch(p[i], r) /\ p[i].frames[1] <= n /\ n <= Final(p[i])
    <2> SUFFICES ASSUME NEW n \in (D + 1)..e
                 PROVE  \E i \in 1..Len(p) : Batch(p[i], r) /\ p[i].frames[1] <= n /\ n <= Final(p[i])
      OBVIOUS
    <2>1. n \in (d + 1)..e
      BY <1>5
    <2>2. PICK i \in 1..Len(q) : Batch(q[i], r) /\ q[i].frames[1] <= n /\ n <= Final(q[i])
      BY <2>1 DEF Chain
    <2>3. i # 1
      BY <2>2, <1>2, <1>5
    <2> QED BY <2>2, <2>3, <1>8
  <1>13. D <= e
    BY <1>3, <1>5
  <1>14. Chain(p, r, D, e)
    BY <1>9, <1>10, <1>11, <1>12, <1>13 DEF Chain
  <1> QED BY <1>3, <1>6, <1>13, <1>14
----------------------------------------------------------------------------
(* The types.                                                              *)

USE DEF Terminals, Ends

\* The variables' types but the shapes of the messages: what the control of
\* the two threads needs.
ControlType ==
  /\ job \in 0..MaxRuns /\ cancel \in BOOLEAN /\ receiver \in BOOLEAN
  /\ terminal \in BOOLEAN /\ acknowledged \in BOOLEAN
  /\ cpc \in ConnectionPcs /\ drained \in 0..DrainLimit /\ leaving \in BOOLEAN
  /\ wpc \in WorkerPcs /\ polled \in BOOLEAN /\ error \in BOOLEAN
  /\ runs \in 0..MaxRuns /\ cancels \in 0..MaxCancels

\* The data: counters, messages and verdicts.
DataType ==
  /\ queue \in Seq(Message) /\ Len(queue) <= QueueCapacity
  /\ sequence \in Nat /\ held \in Message
  /\ wseq \in Nat /\ samples \in Nat /\ frames \in Seq(Nat)
  /\ length \in Nat /\ width \in Nat
  /\ out \in Seq(Message)
  /\ verdict \in [1..MaxRuns -> Terminals \cup {"none", "refused", "panicked"}]

\* The two parts make up the type invariant.
LEMMA TypeParts == SimTypeOK <=> ControlType /\ DataType
  BY DEF SimTypeOK, ControlType, DataType

\* Where the worker goes on after an enqueue call.
LEMMA EnqueueTargets ==
  ASSUME NEW site \in EnqueueSites
  PROVE  /\ Sent(site) \in {"begin", "loop", "name", "exited"}
         /\ NotSent(site) \in {"abort", "leave", "name", "exited"}
         /\ site = "first" => Sent(site) = "loop" /\ NotSent(site) = "abort"
         /\ site = "batch" => Sent(site) = "loop" /\ NotSent(site) = "leave"
         /\ site = "trail" => Sent(site) = "name" /\ NotSent(site) = "name"
         /\ site = "respond" => Sent(site) = "begin" /\ NotSent(site) = "exited"
         /\ site \in {"refuse", "firstCancelled", "final"} =>
              Sent(site) = "exited" /\ NotSent(site) = "exited"
  BY DEF EnqueueSites, Sent, NotSent

\* What Job.observe records stays of its type.
LEMMA ObserveTypes ==
  ASSUME NEW m \in Message, Observe(m), ControlType, sequence \in Nat
  PROVE  acknowledged' \in BOOLEAN /\ terminal' \in BOOLEAN /\ sequence' \in Nat
PROOF
  <1>1. acknowledged' \in BOOLEAN
    BY Zenon DEF Observe
  <1>2. terminal' \in BOOLEAN
    BY Zenon DEF Observe
  <1>3. sequence' \in Nat
    BY DEF Observe, Message
  <1> QED BY <1>1, <1>2, <1>3

\* Every step of the two threads keeps the control's types.
LEMMA ControlTypeStep ==
  ASSUME ControlType, PhaseInv, [Next]_vars
  PROVE  ControlType'
PROOF
  <1> USE QueueAssumption, SimClientAssumption DEF ControlType, ConnectionPcs, WorkerPcs, EnqueueSites
  <1> USE DEF jobVars, connection, enqueuing, running, counted
  <1>1. CASE EnqueuePoll
    <2>1. wpc \in EnqueueSites
      BY <1>1 DEF EnqueuePoll
    <2>2. wpc' \in WorkerPcs /\ polled' \in BOOLEAN
      BY <1>1, <2>1, EnqueueTargets DEF EnqueuePoll
    <2> QED BY <1>1, <2>2 DEF EnqueuePoll
  <1>2. CASE EnqueueTry
    <2>1. wpc \in EnqueueSites
      BY <1>2 DEF EnqueueTry
    <2>2. wpc' \in WorkerPcs
      BY <1>2, <2>1, EnqueueTargets DEF EnqueueTry
    <2> QED BY <1>2, <2>2 DEF EnqueueTry
  <1>3. CASE Panic
    BY <1>3 DEF Panic
  <1>4. CASE Prepare
    BY <1>4 DEF Prepare
  <1>5. CASE Begin
    BY <1>5 DEF Begin, Offer
  <1>6. CASE Abort
    BY <1>6 DEF Abort, Offer
  <1>7. CASE Loop
    <2>1. error' \in BOOLEAN
      BY <1>7, Zenon DEF Loop
    <2>2. wpc' \in WorkerPcs
      BY <1>7, Zenon DEF Loop
    <2> QED BY <1>7, <2>1, <2>2 DEF Loop
  <1>8. CASE Advance
    <2>1. wpc' \in WorkerPcs /\ error' \in BOOLEAN
      BY <1>8 DEF Advance, Offer
    <2> QED BY <1>8, <2>1 DEF Advance
  <1>9. CASE Trail
    BY <1>9 DEF Trail, Offer
  <1>10. CASE Name
    BY <1>10 DEF Name, Offer
  <1>11. CASE Drain
    <2>1. acknowledged' \in BOOLEAN /\ terminal' \in BOOLEAN
      BY <1>11, Zenon DEF Drain, Observe
    <2>2. cpc' \in ConnectionPcs /\ leaving' \in BOOLEAN
      BY <1>11 DEF Drain, Send
    <2>3. drained' \in 0..DrainLimit
      BY <1>11 DEF Drain
    <2> QED BY <1>11, <2>1, <2>2, <2>3 DEF Drain
  <1>12. CASE Drained
    BY <1>12 DEF Drained
  <1>13. CASE Judge
    BY <1>13 DEF Judge
  <1>14. CASE Last
    <2>1. acknowledged' \in BOOLEAN /\ terminal' \in BOOLEAN
      BY <1>14, Zenon DEF Last, Observe
    <2>2. cpc' \in ConnectionPcs /\ leaving' \in BOOLEAN
      BY <1>14 DEF Last, Send
    <2>3. UNCHANGED <<job, cancel, receiver, drained, enqueuing, running, counted>>
      BY <1>14 DEF Last
    <2> QED BY <2>1, <2>2, <2>3
  <1>15. CASE DropCancel
    BY <1>15 DEF DropCancel
  <1>16. CASE DropReceiver
    BY <1>16 DEF DropReceiver
  <1>17. CASE Join
    BY <1>17 DEF Join
  <1>18. CASE ReadNothing
    BY <1>18 DEF ReadNothing, Again
  <1>19. CASE ReadRun
    <2>1. /\ job' = runs + 1 /\ runs' = runs + 1 /\ runs < MaxRuns
          /\ cancel' = FALSE /\ receiver' = TRUE /\ terminal' = FALSE /\ acknowledged' = FALSE
          /\ wpc' = "prepare" /\ polled' = FALSE /\ error' = FALSE
          /\ cpc' = "drain" /\ drained' = 0 /\ UNCHANGED <<leaving, cancels>>
      BY <1>19 DEF ReadRun, Start
    <2>2. job' \in 0..MaxRuns /\ runs' \in 0..MaxRuns /\ drained' \in 0..DrainLimit
      BY <2>1
    <2> QED BY <2>1, <2>2
  <1>20. CASE ReadCancel
    <2>1. cpc' \in ConnectionPcs /\ leaving' \in BOOLEAN
      BY <1>20 DEF ReadCancel, Send, Again
    <2>2. drained' \in 0..DrainLimit /\ cancels' \in 0..MaxCancels
      BY <1>20 DEF ReadCancel
    <2> QED BY <1>20, <2>1, <2>2 DEF ReadCancel
  <1>21. CASE ReadClose
    BY <1>21 DEF ReadClose
  <1>22. CASE UNCHANGED vars
    BY <1>22 DEF vars
  <1> QED
    BY <1>1, <1>2, <1>3, <1>4, <1>5, <1>6, <1>7, <1>8, <1>9, <1>10, <1>11, <1>12, <1>13, <1>14,
       <1>15, <1>16, <1>17, <1>18, <1>19, <1>20, <1>21, <1>22
    DEF Next, Worker, Connection, Client, Left

\* The kinds of message both threads build.
LEMMA Kinds ==
  /\ "accepted" \in MessageKinds /\ "refused" \in MessageKinds /\ "samples" \in MessageKinds
  /\ "cancelling" \in MessageKinds /\ "finished" \in MessageKinds
  /\ "failed" \in MessageKinds /\ "cancelled" \in MessageKinds
  BY DEF MessageKinds

\* An event the worker offers is a message with the next number.
LEMMA OfferFacts ==
  ASSUME NEW site, NEW kind \in MessageKinds, NEW f \in Seq(Nat), Offer(site, kind, f),
         ControlType, wseq \in Nat
  PROVE  /\ wpc' = site /\ wseq' = wseq + 1
         /\ wseq' \in Nat
         /\ held' \in Message /\ held'.kind = kind /\ held'.run = job
         /\ held'.seq = wseq + 1 /\ held'.frames = f
PROOF
  <1>1. job \in Nat /\ wseq + 1 \in Nat
    BY SimClientAssumption DEF ControlType
  <1>2. held' = Msg(kind, job, wseq + 1, f) /\ wpc' = site /\ wseq' = wseq + 1
    BY DEF Offer
  <1> QED BY <1>1, <1>2, MsgFacts

\* The failure the connection makes up.
LEMMA UnexpectedFacts ==
  ASSUME ControlType, sequence \in Nat, NEW m, m = Unexpected
  PROVE  /\ m \in Message /\ m.run = job
         /\ acknowledged => m.kind = "failed" /\ m.seq = sequence + 1
         /\ ~acknowledged => m.kind = "refused"
PROOF
  <1>1. job \in Nat /\ sequence + 1 \in Nat /\ 0 \in Nat /\ <<>> \in Seq(Nat)
    BY SimClientAssumption DEF ControlType
  <1>2. CASE acknowledged
    <2>1. m = Msg("failed", job, sequence + 1, <<>>)
      BY <1>2 DEF Unexpected
    <2>2. m \in Message /\ m.run = job /\ m.kind = "failed" /\ m.seq = sequence + 1
      BY <1>1, <2>1, Kinds DEF Msg, Message
    <2> QED BY <1>2, <2>2
  <1>3. CASE ~acknowledged
    <2>1. m = Msg("refused", job, 0, <<>>)
      BY <1>3 DEF Unexpected
    <2>2. m \in Message /\ m.run = job /\ m.kind = "refused"
      BY <1>1, <2>1, Kinds DEF Msg, Message
    <2> QED BY <1>3, <2>2
  <1> QED BY <1>2, <1>3

\* What a send leaves behind: the message is out, or the job is being dropped.
LEMMA SendFacts ==
  ASSUME NEW m \in Message, NEW next, Send(m, next), out \in Seq(Message)
  PROVE  /\ out' \in Seq(Message)
         /\ out' = out \/ out' = Append(out, m)
  BY DEF Send

\* The end of a run is named by one of the terminal events.
LEMMA FinalNames == FinalName \in Terminals
  BY DEF FinalName

\* Every step keeps the data's types, the channel within its capacity.
LEMMA DataTypeStep ==
  ASSUME ControlType, DataType, [Next]_vars
  PROVE  DataType'
PROOF
  <1> USE DEF jobVars, connection, enqueuing, running, counted
  <1>0. job \in Nat /\ 0 \in Nat /\ wseq \in Nat /\ <<>> \in Seq(Nat) /\ frames \in Seq(Nat)
    BY SimClientAssumption DEF ControlType, DataType
  <1>1. CASE EnqueuePoll
    BY <1>1 DEF EnqueuePoll, DataType
  <1>2. CASE EnqueueTry
    <2>1. queue' \in Seq(Message) /\ Len(queue') <= QueueCapacity
      <3>1. CASE queue' = queue
        BY <3>1 DEF DataType
      <3>2. CASE queue' = Append(queue, held) /\ Len(queue) < QueueCapacity
        BY <3>2, AppendFacts, QueueAssumption DEF DataType
      <3> QED BY <1>2, <3>1, <3>2 DEF EnqueueTry
    <2>2. frames' \in Seq(Nat)
      BY <1>2, <1>0 DEF EnqueueTry
    <2> QED BY <1>2, <2>1, <2>2 DEF EnqueueTry, DataType
  <1>3. CASE Panic
    BY <1>3 DEF Panic, DataType
  <1>4. CASE Prepare
    <2>1. held' \in Message
      <3>1. CASE held' = Msg("refused", job, 0, <<>>)
        BY <3>1, <1>0, Kinds DEF Msg, Message
      <3>2. CASE held' = Msg("accepted", job, 0, <<>>)
        BY <3>2, <1>0, Kinds DEF Msg, Message
      <3> QED BY <1>4, <3>1, <3>2 DEF Prepare
    <2>2. verdict' \in [1..MaxRuns -> Terminals \cup {"none", "refused", "panicked"}]
      BY <1>4 DEF Prepare, DataType
    <2> QED BY <1>4, <2>1, <2>2 DEF Prepare, DataType
  <1>5. CASE Begin
    <2>1. <<1>> \in Seq(Nat)
      OBVIOUS
    <2>2. held' \in Message /\ wseq' \in Nat
      <3>1. CASE Offer("first", "samples", <<1>>)
        BY <3>1, <1>0, <2>1, Kinds, OfferFacts, Zenon
      <3>2. CASE UNCHANGED <<wseq, held>>
        BY <3>2, <1>0 DEF DataType
      <3> QED BY <1>5, <3>1, <3>2 DEF Begin
    <2>3. samples' = 1 /\ frames' = <<1>>
      BY <1>5 DEF Begin
    <2> QED BY <1>5, <2>1, <2>2, <2>3 DEF Begin, DataType
  <1>6. CASE Abort
    <2>1. held' \in Message /\ wseq' \in Nat
      <3>1. Offer("firstCancelled", "cancelled", <<>>)
        BY <1>6 DEF Abort
      <3> QED BY <3>1, <1>0, Kinds, OfferFacts, Zenon
    <2>2. verdict' \in [1..MaxRuns -> Terminals \cup {"none", "refused", "panicked"}]
      BY <1>6 DEF Abort, DataType
    <2> QED BY <1>6, <2>1, <2>2 DEF Abort, DataType
  <1>7. CASE Loop
    BY <1>7 DEF Loop, DataType
  <1>8. CASE Advance
    <2>1. Append(frames, samples + 1) \in Seq(Nat)
      BY <1>0 DEF DataType
    <2>2. held' \in Message /\ wseq' \in Nat
      <3>1. CASE Offer("batch", "samples", Append(frames, samples + 1))
        BY <3>1, <1>0, <2>1, Kinds, OfferFacts, Zenon
      <3>2. CASE UNCHANGED <<wseq, held>>
        BY <3>2, <1>0 DEF DataType
      <3> QED BY <1>8, <3>1, <3>2 DEF Advance
    <2>3. samples' \in Nat /\ frames' \in Seq(Nat)
      <3>1. \/ samples' = samples + 1 /\ frames' = Append(frames, samples + 1)
            \/ samples' = samples /\ frames' = frames
        BY <1>8 DEF Advance
      <3>2. samples + 1 \in Nat /\ samples \in Nat /\ frames \in Seq(Nat)
        BY DEF DataType
      <3> QED BY <3>1, <3>2, <2>1, Zenon
    <2> QED BY <1>8, <2>2, <2>3 DEF Advance, DataType
  <1>9. CASE Trail
    <2>1. held' \in Message /\ wseq' \in Nat
      <3>1. CASE Offer("trail", "samples", frames)
        BY <3>1, <1>0, Kinds, OfferFacts, Zenon
      <3>2. CASE UNCHANGED <<wseq, held>>
        BY <3>2, <1>0 DEF DataType
      <3> QED BY <1>9, <3>1, <3>2 DEF Trail
    <2> QED BY <1>9, <2>1 DEF Trail, DataType
  <1>10. CASE Name
    <2>1. held' \in Message /\ wseq' \in Nat
      <3>1. Offer("final", FinalName, <<>>) /\ FinalName \in MessageKinds
        BY <1>10, FinalNames, Kinds DEF Name
      <3> QED BY <3>1, <1>0, OfferFacts, Zenon
    <2>2. verdict' \in [1..MaxRuns -> Terminals \cup {"none", "refused", "panicked"}]
      BY <1>10, FinalNames DEF Name, DataType
    <2> QED BY <1>10, <2>1, <2>2 DEF Name, DataType
  <1>11. CASE Drain
    <2>1. queue # <<>> /\ queue' = Tail(queue) /\ queue \in Seq(Message) /\ sequence \in Nat
      BY <1>11 DEF Drain, DataType
    <2>2. queue' \in Seq(Message) /\ Len(queue') <= QueueCapacity /\ Head(queue) \in Message
      BY <2>1, TailFacts, QueueAssumption DEF DataType
    <2>3. sequence' \in Nat
      BY <1>11, <2>1, <2>2, ObserveTypes DEF Drain
    <2>4. out' \in Seq(Message)
      BY <1>11, <2>2, SendFacts DEF Drain, DataType
    <2> QED BY <1>11, <2>2, <2>3, <2>4 DEF Drain, DataType
  <1>12. CASE Drained
    BY <1>12 DEF Drained, DataType
  <1>13. CASE Judge
    BY <1>13 DEF Judge, DataType
  <1>14. CASE Last
    <2>1. UNCHANGED <<enqueuing, running, counted, verdict>>
      BY <1>14 DEF Last
    <2>2. CASE queue # <<>>
      <3>1. queue' = Tail(queue) /\ queue \in Seq(Message) /\ sequence \in Nat
        BY <1>14, <2>2 DEF Last, DataType
      <3>2. queue' \in Seq(Message) /\ Len(queue') <= QueueCapacity /\ Head(queue) \in Message
        BY <2>2, <3>1, TailFacts, QueueAssumption DEF DataType
      <3>3. sequence' \in Nat
        BY <1>14, <2>2, <3>1, <3>2, ObserveTypes DEF Last
      <3>4. out' \in Seq(Message)
        BY <1>14, <2>2, <3>2, SendFacts DEF Last, DataType
      <3> QED BY <2>1, <3>2, <3>3, <3>4 DEF DataType
    <2>3. CASE queue = <<>>
      <3>1. UNCHANGED jobVars /\ Send(Unexpected, "dropCancel")
        BY <1>14, <2>3 DEF Last
      <3>2. out' \in Seq(Message)
        BY <3>1, UnexpectedFacts, SendFacts DEF DataType
      <3> QED BY <2>1, <3>1, <3>2 DEF DataType
    <2> QED BY <2>2, <2>3
  <1>15. CASE DropCancel
    BY <1>15 DEF DropCancel, DataType
  <1>16. CASE DropReceiver
    <2>1. queue' = <<>> /\ Len(queue') = 0
      BY <1>16 DEF DropReceiver
    <2> QED BY <1>16, <2>1, QueueAssumption DEF DropReceiver, DataType
  <1>17. CASE Join
    BY <1>17 DEF Join, DataType
  <1>18. CASE ReadNothing
    BY <1>18 DEF ReadNothing, DataType
  <1>19. CASE ReadRun
    <2>1. /\ queue' = <<>> /\ sequence' = 0 /\ wseq' = 0 /\ samples' = 0 /\ frames' = <<>>
          /\ length' \in Lengths /\ width' \in Widths /\ UNCHANGED <<held, out, verdict>>
      BY <1>19 DEF ReadRun, Start
    <2>2. Len(queue') = 0
      BY <2>1
    <2> QED BY <2>1, <2>2, ModelAssumption, QueueAssumption DEF DataType
  <1>20. CASE ReadCancel
    <2>1. out' \in Seq(Message)
      <3>1. PICK m : m = Msg("cancelling", job, 0, <<>>)
        OBVIOUS
      <3>2. m \in Message
        BY <3>1, <1>0, Kinds DEF Msg, Message
      <3>3. Send(m, Again)
        BY <1>20, <3>1 DEF ReadCancel
      <3> QED BY <3>2, <3>3, SendFacts DEF DataType
    <2> QED BY <1>20, <2>1 DEF ReadCancel, DataType
  <1>21. CASE ReadClose
    BY <1>21 DEF ReadClose, DataType
  <1>22. CASE UNCHANGED vars
    BY <1>22 DEF vars, DataType
  <1> QED
    BY <1>1, <1>2, <1>3, <1>4, <1>5, <1>6, <1>7, <1>8, <1>9, <1>10, <1>11, <1>12, <1>13, <1>14,
       <1>15, <1>16, <1>17, <1>18, <1>19, <1>20, <1>21, <1>22
    DEF Next, Worker, Connection, Client, Left
----------------------------------------------------------------------------
(* The two threads.                                                        *)

\* Every step keeps the threads in phase: the worker runs only for a job, and
\* the connection calls a worker dead only when it is.
LEMMA PhaseStep ==
  ASSUME ControlType, PhaseInv, [Next]_vars
  PROVE  PhaseInv'
PROOF
  <1> USE DEF jobVars, connection, enqueuing, running, counted
  <1>0. job \in Nat /\ runs \in Nat
    BY SimClientAssumption DEF ControlType
  <1>1. CASE EnqueuePoll
    <2>1. wpc \in EnqueueSites /\ wpc \notin {"none", "exited"}
      BY <1>1 DEF EnqueuePoll, EnqueueSites
    <2>2. wpc' # "none"
      BY <1>1, <2>1, EnqueueTargets DEF EnqueuePoll
    <2> QED BY <1>1, <2>1, <2>2 DEF EnqueuePoll, PhaseInv
  <1>2. CASE EnqueueTry
    <2>1. wpc \in EnqueueSites /\ wpc \notin {"none", "exited"}
      BY <1>2 DEF EnqueueTry, EnqueueSites
    <2>2. wpc' # "none"
      BY <1>2, <2>1, EnqueueTargets DEF EnqueueTry
    <2> QED BY <1>2, <2>1, <2>2 DEF EnqueueTry, PhaseInv
  <1>3. CASE Panic
    BY <1>3 DEF Panic, PhaseInv
  <1>4. CASE Prepare
    BY <1>4 DEF Prepare, PhaseInv
  <1>5. CASE Begin
    BY <1>5 DEF Begin, Offer, PhaseInv
  <1>6. CASE Abort
    BY <1>6 DEF Abort, Offer, PhaseInv
  <1>7. CASE Loop
    <2>1. wpc = "loop" /\ wpc' \in {"advance", "leave"} /\ UNCHANGED <<jobVars, connection, counted>>
      BY <1>7, Zenon DEF Loop
    <2> QED BY <2>1 DEF PhaseInv
  <1>8. CASE Advance
    <2>1. wpc = "advance" /\ wpc' \in {"batch", "loop", "leave"} /\ UNCHANGED <<jobVars, connection, counted>>
      BY <1>8 DEF Advance, Offer
    <2> QED BY <2>1 DEF PhaseInv
  <1>9. CASE Trail
    BY <1>9 DEF Trail, Offer, PhaseInv
  <1>10. CASE Name
    BY <1>10 DEF Name, Offer, PhaseInv
  <1>11. CASE Drain
    <2>1. cpc = "drain" /\ cpc' \in {"drain", "dropCancel"} /\ UNCHANGED <<job, runs, wpc>>
      BY <1>11 DEF Drain, Send
    <2> QED BY <2>1 DEF PhaseInv
  <1>12. CASE Drained
    BY <1>12 DEF Drained, PhaseInv
  <1>13. CASE Judge
    BY <1>13 DEF Judge, PhaseInv
  <1>14. CASE Last
    <2>1. cpc = "last" /\ UNCHANGED <<job, runs, wpc>>
      BY <1>14 DEF Last
    <2>2. cpc' = "dropCancel" \/ (cpc' = "read" /\ ~terminal')
      BY <1>14 DEF Last, Send
    <2> QED BY <2>1, <2>2 DEF PhaseInv
  <1>15. CASE DropCancel
    BY <1>15 DEF DropCancel, PhaseInv
  <1>16. CASE DropReceiver
    BY <1>16 DEF DropReceiver, PhaseInv
  <1>17. CASE Join
    BY <1>17 DEF Join, PhaseInv
  <1>18. CASE ReadNothing
    BY <1>18 DEF ReadNothing, Again, PhaseInv
  <1>19. CASE ReadRun
    <2>1. job' = runs + 1 /\ runs' = runs + 1 /\ wpc' = "prepare" /\ cpc' = "drain"
      BY <1>19 DEF ReadRun, Start
    <2> QED BY <1>0, <2>1 DEF PhaseInv
  <1>20. CASE ReadCancel
    <2>1. cpc = "read" /\ job # 0 /\ cpc' \in {"drain", "dropCancel"} /\ UNCHANGED <<job, runs, wpc>>
      BY <1>20 DEF ReadCancel, Send, Again
    <2> QED BY <2>1 DEF PhaseInv
  <1>21. CASE ReadClose
    BY <1>21 DEF ReadClose, PhaseInv
  <1>22. CASE UNCHANGED vars
    BY <1>22 DEF vars, PhaseInv
  <1> QED
    BY <1>1, <1>2, <1>3, <1>4, <1>5, <1>6, <1>7, <1>8, <1>9, <1>10, <1>11, <1>12, <1>13, <1>14,
       <1>15, <1>16, <1>17, <1>18, <1>19, <1>20, <1>21, <1>22
    DEF Next, Worker, Connection, Client, Left
----------------------------------------------------------------------------
(* The stream of the active run: one lemma per step of the worker.         *)

\* Witnesses for the cut of the stream after a step.
LEMMA FramesNext ==
  ASSUME NEW d, NEW e, d \in 0..samples', e \in 0..samples',
         Chain(out', job', 0, d), Chain(queue', job', d, e), Remaining(e)'
  PROVE  FramesInv'
  BY DEF FramesInv

\* The variables a step of the worker leaves alone, unless it sends.
Local == UNCHANGED <<jobVars, connection, counted, out, length, width>>

\* What is in the channel was numbered before.
LEMMA QueueNumbers ==
  ASSUME QueueInv, DataType
  PROVE  \A i \in 1..Len(queue) :
           queue[i] \in Message /\ queue[i].seq \in Nat /\ queue[i].seq <= wseq
PROOF
  <1> TAKE i \in 1..Len(queue)
  <1>1. queue[i] \in Message
    BY DEF DataType
  <1>2. queue[i].seq \in Nat
    BY <1>1 DEF Message
  <1>3. queue[i].seq <= wseq
    BY DEF QueueInv
  <1> QED BY <1>1, <1>2, <1>3

\* Such a step keeps the summary.
LEMMA LocalSummary ==
  ASSUME SummaryInv, Local
  PROVE  SummaryInv'
  BY DEF SummaryInv, Local, jobVars

\* It keeps the channel's order as long as the worker goes forward.
LEMMA LocalQueue ==
  ASSUME QueueInv, ControlType, DataType, Local, wseq' \in Nat, wseq <= wseq', wpc # "exited",
         wpc' \in Answering => wpc \in Answering,
         wpc \in Answering => wpc' \in Answering \cup {"exited"},
         wpc' = "exited" => verdict'[job] = "panicked"
  PROVE  QueueInv'
PROOF
  <1>1. UNCHANGED <<job, queue, receiver, terminal, acknowledged, sequence>>
    BY DEF Local, jobVars
  <1>2. \A i \in 1..Len(queue) : queue[i].kind \notin Ends /\ queue[i].seq \in Nat /\ queue[i].seq <= wseq'
    <2>1. \A i \in 1..Len(queue) : queue[i].seq \in Nat /\ queue[i].seq <= wseq
      BY QueueNumbers
    <2>2. \A i \in 1..Len(queue) : queue[i].kind \notin Ends
      BY DEF QueueInv
    <2>3. wseq \in Nat
      BY DEF DataType
    <2> QED BY <2>1, <2>2, <2>3
  <1>3. ~terminal /\ sequence <= wseq'
    BY DEF QueueInv, DataType
  <1>4. wpc' \notin Answering \cup {"exited"} => wpc \notin Answering \cup {"exited"}
    OBVIOUS
  <1> QED BY <1>1, <1>2, <1>3, <1>4 DEF QueueInv

\* It keeps the samples consecutive if what remains to be sent follows.
LEMMA LocalFrames ==
  ASSUME FramesInv, Local, samples \in Nat, samples' \in Nat, samples <= samples',
         \A e \in 0..samples : Remaining(e) => Remaining(e)'
  PROVE  FramesInv'
PROOF
  <1>1. PICK d \in 0..samples, e \in 0..samples :
          Chain(out, job, 0, d) /\ Chain(queue, job, d, e) /\ Remaining(e)
    BY DEF FramesInv
  <1>2. out' = out /\ queue' = queue /\ job' = job
    BY DEF Local, jobVars
  <1>3. Chain(out', job', 0, d) /\ Chain(queue', job', d, e)
    BY <1>1, <1>2
  <1>4. d \in 0..samples' /\ e \in 0..samples'
    BY <1>1
  <1> QED BY <1>1, <1>3, <1>4, FramesNext

\* The facts every step of an active run's worker starts from.
WorkerPre == ControlType /\ DataType /\ PhaseInv /\ Active /\ StreamInv

\* The active job has a verdict, and its numbers are numbers.
LEMMA WorkerPreFacts ==
  ASSUME WorkerPre
  PROVE  /\ job \in 1..MaxRuns /\ wseq \in Nat /\ samples \in Nat /\ sequence \in Nat
         /\ frames \in Seq(Nat) /\ <<>> \in Seq(Nat) /\ 0 \in Nat /\ job \in Nat
         /\ verdict \in [1..MaxRuns -> Terminals \cup {"none", "refused", "panicked"}]
         /\ length \in Nat
  BY SimClientAssumption DEF WorkerPre, Active, ControlType, DataType

\* A panic ends the worker without a word.
LEMMA PanicStream ==
  ASSUME WorkerPre, Panic
  PROVE  StreamInv'
PROOF
  <1>0. SummaryInv /\ QueueInv /\ HeldInv /\ CancelInv /\ VerdictInv /\ FramesInv /\ ControlType /\ DataType
    BY DEF WorkerPre, StreamInv
  <1>1. /\ wpc \in {"prepare", "advance"} /\ wpc' = "exited" /\ Local
        /\ verdict' = [verdict EXCEPT ![job] = "panicked"]
        /\ UNCHANGED <<held, wseq, samples, frames, error>>
    BY DEF Panic, Local, running, jobVars, connection, counted
  <1>2. verdict'[job] = "panicked" /\ job' = job /\ cancel' = cancel /\ out' = out
    BY <1>1, WorkerPreFacts DEF Local, jobVars
  <1>3. SummaryInv'
    BY <1>0, <1>1, LocalSummary
  <1>4. QueueInv'
    BY <1>0, <1>1, <1>2, WorkerPreFacts, LocalQueue DEF Answering
  <1>5. HeldInv'
    BY <1>1 DEF HeldInv, EnqueueSites
  <1>6. CancelInv'
    BY <1>0, <1>1, <1>2 DEF CancelInv
  <1>7. VerdictInv'
    BY <1>1 DEF VerdictInv, Answering
  <1>8. FramesInv'
    <2>1. \A e \in 0..samples : Remaining(e) => Remaining(e)'
      BY <1>1, <1>2 DEF Remaining, Answering
    <2> QED BY <1>0, <1>1, <2>1, WorkerPreFacts, LocalFrames
  <1> QED BY <1>3, <1>4, <1>5, <1>6, <1>7, <1>8 DEF StreamInv

\* prepare_run: the answer to the run request is built.
LEMMA PrepareStream ==
  ASSUME WorkerPre, Prepare
  PROVE  StreamInv'
PROOF
  <1>0. SummaryInv /\ QueueInv /\ HeldInv /\ CancelInv /\ VerdictInv /\ FramesInv /\ ControlType /\ DataType
    BY DEF WorkerPre, StreamInv
  <1>1. /\ wpc = "prepare" /\ wpc' \in {"refuse", "respond"} /\ Local
        /\ UNCHANGED <<wseq, samples, frames, error>>
    BY DEF Prepare, Local, running, jobVars, connection, counted
  <1>2. job' = job /\ cancel' = cancel /\ out' = out
    BY <1>1 DEF Local, jobVars
  <1>3. /\ wpc' = "refuse" => held'.kind = "refused" /\ held'.run = job /\ held'.seq = 0 /\ verdict'[job] = "refused"
        /\ wpc' = "respond" => held'.kind = "accepted" /\ held'.run = job /\ held'.seq = 0 /\ verdict' = verdict
    <2>1. CASE /\ wpc' = "refuse" /\ held' = Msg("refused", job, 0, <<>>)
               /\ verdict' = [verdict EXCEPT ![job] = "refused"]
      <3>1. held'.kind = "refused" /\ held'.run = job /\ held'.seq = 0
        BY <2>1 DEF Msg
      <3>2. verdict'[job] = "refused"
        BY <2>1, WorkerPreFacts
      <3> QED BY <2>1, <3>1, <3>2
    <2>2. CASE wpc' = "respond" /\ held' = Msg("accepted", job, 0, <<>>) /\ UNCHANGED verdict
      <3>1. held'.kind = "accepted" /\ held'.run = job /\ held'.seq = 0
        BY <2>2 DEF Msg
      <3> QED BY <2>2, <3>1
    <2> QED BY <2>1, <2>2 DEF Prepare
  <1>4. SummaryInv'
    BY <1>0, <1>1, LocalSummary
  <1>5. QueueInv'
    BY <1>0, <1>1, WorkerPreFacts, LocalQueue DEF Answering
  <1>6. HeldInv'
    BY <1>1, <1>2, <1>3 DEF HeldInv, EnqueueSites
  <1>7. CancelInv'
    BY <1>0, <1>1, <1>2, <1>3 DEF CancelInv
  <1>8. VerdictInv'
    BY <1>0, <1>1, <1>2, <1>3 DEF VerdictInv, Answering
  <1>9. FramesInv'
    <2>1. \A e \in 0..samples : Remaining(e) => Remaining(e)'
      <3> SUFFICES ASSUME NEW e \in 0..samples, Remaining(e)
                   PROVE  Remaining(e)'
        OBVIOUS
      <3>1. e = 0 /\ samples = 0 /\ frames = <<>>
        BY <1>1 DEF Remaining, Answering
      <3>2. verdict'[job'] # "finished"
        BY <1>0, <1>1, <1>2, <1>3 DEF VerdictInv, Answering
      <3> QED BY <1>1, <3>1, <3>2 DEF Remaining, Answering
    <2> QED BY <1>0, <1>1, <2>1, WorkerPreFacts, LocalFrames
  <1> QED BY <1>4, <1>5, <1>6, <1>7, <1>8, <1>9 DEF StreamInv

\* The first frame is taken, and sent when it fills a batch.
LEMMA BeginStream ==
  ASSUME WorkerPre, Begin
  PROVE  StreamInv'
PROOF
  <1>0. SummaryInv /\ QueueInv /\ HeldInv /\ CancelInv /\ VerdictInv /\ FramesInv /\ ControlType /\ DataType
    BY DEF WorkerPre, StreamInv
  <1>1. /\ wpc = "begin" /\ wpc' \in {"first", "loop"} /\ Local
        /\ samples' = 1 /\ frames' = <<1>> /\ UNCHANGED <<error, verdict>>
    BY DEF Begin, Offer, Local, jobVars, connection, counted
  <1>2. job' = job /\ cancel' = cancel /\ out' = out /\ queue' = queue /\ sequence' = sequence
    BY <1>1 DEF Local, jobVars
  <1>3. /\ wpc' = "first" => /\ wseq' = wseq + 1 /\ held'.kind = "samples" /\ held'.run = job
                             /\ held'.seq = wseq' /\ held'.frames = frames'
        /\ wpc' = "loop" => wseq' = wseq
    BY DEF Begin, Offer, Msg
  <1>4. wseq' \in Nat /\ wseq <= wseq'
    BY <1>1, <1>3, WorkerPreFacts
  <1>5. SummaryInv'
    BY <1>0, <1>1, LocalSummary
  <1>6. QueueInv'
    BY <1>0, <1>1, <1>4, LocalQueue DEF Answering
  <1>7. HeldInv'
    <2>1. \A i \in 1..Len(queue) : queue[i].seq \in Nat /\ queue[i].seq <= wseq
      BY <1>0, QueueNumbers
    <2>2. sequence <= wseq
      BY <1>0 DEF QueueInv
    <2>3. CASE wpc' = "first"
      <3>1. \A i \in 1..Len(queue') : queue'[i].seq < wseq'
        BY <2>1, <2>3, <1>2, <1>3, WorkerPreFacts
      <3>2. sequence' < wseq'
        BY <2>2, <2>3, <1>2, <1>3, WorkerPreFacts
      <3> QED BY <2>3, <3>1, <3>2, <1>2, <1>3 DEF HeldInv
    <2>4. CASE wpc' = "loop"
      BY <2>4 DEF HeldInv, EnqueueSites
    <2> QED BY <1>1, <2>3, <2>4
  <1>8. CancelInv'
    BY <1>0, <1>1, <1>2 DEF CancelInv
  <1>9. VerdictInv'
    BY <1>0, <1>1, <1>2 DEF VerdictInv, Answering
  <1>10. FramesInv'
    <2>1. \A e \in 0..samples : Remaining(e) => Remaining(e)'
      <3> SUFFICES ASSUME NEW e \in 0..samples, Remaining(e)
                   PROVE  Remaining(e)'
        OBVIOUS
      <3>1. e = 0
        BY <1>1 DEF Remaining
      <3>2. verdict'[job'] # "finished"
        BY <1>0, <1>1, <1>2 DEF VerdictInv
      <3>3. Len(frames') = 1 /\ \A k \in 1..Len(frames') : frames'[k] = k
        BY <1>1
      <3> QED BY <1>1, <3>1, <3>2, <3>3 DEF Remaining, Answering
    <2>2. samples' \in Nat /\ samples <= samples'
      <3>1. samples = 0
        BY <1>0, <1>1 DEF FramesInv, Remaining
      <3> QED BY <1>1, <3>1
    <2> QED BY <1>0, <1>1, <2>1, <2>2, WorkerPreFacts, LocalFrames
  <1> QED BY <1>5, <1>6, <1>7, <1>8, <1>9, <1>10 DEF StreamInv

\* The head of the loop decides whether to go on.
LEMMA LoopStream ==
  ASSUME WorkerPre, Loop
  PROVE  StreamInv'
PROOF
  <1>0. SummaryInv /\ QueueInv /\ HeldInv /\ CancelInv /\ VerdictInv /\ FramesInv /\ ControlType /\ DataType
    BY DEF WorkerPre, StreamInv
  <1>1. /\ wpc = "loop" /\ wpc' \in {"advance", "leave"} /\ Local
        /\ UNCHANGED <<wseq, held, samples, frames, verdict>>
    BY Zenon DEF Loop, Local, jobVars, connection, counted
  <1>2. job' = job /\ cancel' = cancel /\ out' = out /\ length' = length
    BY <1>1 DEF Local, jobVars
  <1>3. wpc' = "leave" => error' \/ cancel \/ ~(samples < length)
    BY Zenon DEF Loop
  <1>4. SummaryInv'
    BY <1>0, <1>1, LocalSummary
  <1>5. QueueInv'
    BY <1>0, <1>1, WorkerPreFacts, LocalQueue DEF Answering
  <1>6. HeldInv'
    BY <1>1 DEF HeldInv, EnqueueSites
  <1>7. CancelInv'
    BY <1>0, <1>1, <1>2 DEF CancelInv
  <1>8. VerdictInv'
    BY <1>0, <1>1, <1>2 DEF VerdictInv, Answering
  <1>9. FramesInv'
    <2>1. \A e \in 0..samples : Remaining(e) => Remaining(e)'
      <3> SUFFICES ASSUME NEW e \in 0..samples, Remaining(e)
                   PROVE  Remaining(e)'
        OBVIOUS
      <3>1. e + Len(frames) = samples /\ \A k \in 1..Len(frames) : frames[k] = e + k
        BY <1>1 DEF Remaining
      <3>2. verdict'[job'] # "finished"
        BY <1>0, <1>1, <1>2 DEF VerdictInv
      <3>3. wpc' = "leave" => error' \/ cancel' \/ samples' >= length'
        BY <1>1, <1>2, <1>3, WorkerPreFacts
      <3> QED BY <1>1, <3>1, <3>2, <3>3 DEF Remaining, Answering
    <2> QED BY <1>0, <1>1, <2>1, WorkerPreFacts, LocalFrames
  <1> QED BY <1>4, <1>5, <1>6, <1>7, <1>8, <1>9 DEF StreamInv

\* What an offered event is: numbered next, and behind all that is queued.
LEMMA OfferStream ==
  ASSUME WorkerPre, Local, NEW site, NEW kind \in MessageKinds, NEW f \in Seq(Nat), Offer(site, kind, f)
  PROVE  /\ wpc' = site /\ wseq' \in Nat /\ wseq <= wseq' /\ sequence' < wseq'
         /\ held'.kind = kind /\ held'.run = job' /\ held'.seq = wseq' /\ held'.frames = f
         /\ \A i \in 1..Len(queue') : queue'[i].seq < wseq'
PROOF
  <1>0. QueueInv /\ ControlType /\ DataType
    BY DEF WorkerPre, StreamInv
  <1>1. wpc' = site /\ wseq' = wseq + 1 /\ held'.kind = kind /\ held'.run = job
        /\ held'.seq = wseq + 1 /\ held'.frames = f
    BY <1>0, WorkerPreFacts, OfferFacts
  <1>2. job' = job /\ queue' = queue /\ sequence' = sequence
    BY DEF Local, jobVars
  <1>3. sequence <= wseq
    BY <1>0 DEF QueueInv
  <1>4. \A i \in 1..Len(queue') : queue'[i].seq < wseq'
    BY <1>0, <1>1, <1>2, WorkerPreFacts, QueueNumbers
  <1> QED BY <1>1, <1>2, <1>3, <1>4, WorkerPreFacts

\* The first batch was not sent: the run is cancelled.
LEMMA AbortStream ==
  ASSUME WorkerPre, Abort
  PROVE  StreamInv'
PROOF
  <1>0. SummaryInv /\ QueueInv /\ HeldInv /\ CancelInv /\ VerdictInv /\ FramesInv /\ ControlType /\ DataType
    BY DEF WorkerPre, StreamInv
  <1>1. /\ wpc = "abort" /\ Local /\ Offer("firstCancelled", "cancelled", <<>>)
        /\ verdict' = [verdict EXCEPT ![job] = "cancelled"]
        /\ UNCHANGED <<samples, frames, error>>
    BY DEF Abort, Local, jobVars, connection, counted
  <1>2. job' = job /\ cancel' = cancel /\ out' = out /\ verdict'[job] = "cancelled"
    BY <1>1, WorkerPreFacts DEF Local, jobVars
  <1>3. /\ wpc' = "firstCancelled" /\ wseq' \in Nat /\ wseq <= wseq' /\ sequence' < wseq'
        /\ held'.kind = "cancelled" /\ held'.run = job' /\ held'.seq = wseq'
        /\ \A i \in 1..Len(queue') : queue'[i].seq < wseq'
    BY <1>1, WorkerPreFacts, Kinds, OfferStream, Zenon
  <1>4. SummaryInv'
    BY <1>0, <1>1, LocalSummary
  <1>5. QueueInv'
    BY <1>0, <1>1, <1>3, LocalQueue DEF Answering
  <1>6. HeldInv'
    BY <1>2, <1>3 DEF HeldInv
  <1>7. CancelInv'
    BY <1>0, <1>1, <1>2, <1>3 DEF CancelInv
  <1>8. VerdictInv'
    BY <1>3 DEF VerdictInv, Answering
  <1>9. FramesInv'
    <2>1. \A e \in 0..samples : Remaining(e) => Remaining(e)'
      BY <1>1, <1>2, <1>3 DEF Remaining, Answering
    <2> QED BY <1>0, <1>1, <2>1, WorkerPreFacts, LocalFrames
  <1> QED BY <1>4, <1>5, <1>6, <1>7, <1>8, <1>9 DEF StreamInv

\* A frame was computed: it ends the batch that remains to be sent.
LEMMA AdvanceStream ==
  ASSUME WorkerPre, Advance
  PROVE  StreamInv'
PROOF
  <1>0. SummaryInv /\ QueueInv /\ HeldInv /\ CancelInv /\ VerdictInv /\ FramesInv /\ ControlType /\ DataType
    BY DEF WorkerPre, StreamInv
  <1>1. wpc = "advance" /\ wpc' \in {"batch", "loop", "leave"} /\ Local /\ UNCHANGED verdict
    BY DEF Advance, Offer, Local, jobVars, connection, counted
  <1>2. job' = job /\ cancel' = cancel /\ out' = out /\ length' = length
    BY <1>1 DEF Local, jobVars
  <1>3. \/ /\ samples' = samples + 1 /\ frames' = Append(frames, samples + 1)
           /\ \/ Offer("batch", "samples", Append(frames, samples + 1))
              \/ wpc' = "loop" /\ UNCHANGED <<wseq, held>>
        \/ error' = TRUE /\ wpc' = "leave" /\ UNCHANGED <<samples, frames, wseq, held>>
    BY DEF Advance
  <1>4. PICK batch : batch = Append(frames, samples + 1)
    OBVIOUS
  <1>5. /\ batch \in Seq(Nat) /\ Len(batch) = Len(frames) + 1 /\ Len(frames) \in Nat
        /\ batch[Len(frames) + 1] = samples + 1 /\ \A k \in 1..Len(frames) : batch[k] = frames[k]
    BY <1>4, WorkerPreFacts
  <1>7. HeldInv' /\ wseq' \in Nat /\ wseq <= wseq'
    <2>1. CASE Offer("batch", "samples", batch) /\ frames' = batch
      <3>1. /\ wpc' = "batch" /\ wseq' \in Nat /\ wseq <= wseq' /\ sequence' < wseq'
            /\ held'.kind = "samples" /\ held'.run = job' /\ held'.seq = wseq' /\ held'.frames = batch
            /\ \A i \in 1..Len(queue') : queue'[i].seq < wseq'
        BY <1>1, <1>5, <2>1, Kinds, OfferStream, Zenon
      <3> QED BY <2>1, <3>1 DEF HeldInv
    <2>2. CASE wpc' \in {"loop", "leave"} /\ UNCHANGED <<wseq, held>>
      BY <2>2, WorkerPreFacts DEF HeldInv, EnqueueSites
    <2> QED BY <1>3, <1>4, <2>1, <2>2
  <1>8. SummaryInv'
    BY <1>0, <1>1, LocalSummary
  <1>9. QueueInv'
    BY <1>0, <1>1, <1>7, LocalQueue DEF Answering
  <1>10. CancelInv'
    BY <1>0, <1>1, <1>2 DEF CancelInv
  <1>11. VerdictInv'
    BY <1>0, <1>1, <1>2 DEF VerdictInv, Answering
  <1>12. FramesInv'
    <2>1. \A e \in 0..samples : Remaining(e) => Remaining(e)'
      <3> SUFFICES ASSUME NEW e \in 0..samples, Remaining(e)
                   PROVE  Remaining(e)'
        OBVIOUS
      <3>1. e + Len(frames) = samples /\ \A k \in 1..Len(frames) : frames[k] = e + k
        BY <1>1 DEF Remaining
      <3>2. verdict'[job'] # "finished"
        BY <1>0, <1>1, <1>2 DEF VerdictInv
      <3>3. CASE samples' = samples + 1 /\ frames' = batch /\ wpc' \in {"batch", "loop"}
        <4>1. e + Len(batch) = samples + 1 /\ Len(batch) > 0
          BY <1>5, <3>1, WorkerPreFacts
        <4>2. \A k \in 1..Len(batch) : batch[k] = e + k
          <5> TAKE k \in 1..Len(batch)
          <5>1. CASE k = Len(frames) + 1
            <6>1. samples + 1 = e + k
              BY <5>1, <1>5, <3>1, WorkerPreFacts
            <6> QED BY <5>1, <6>1, <1>5
          <5>2. CASE k \in 1..Len(frames)
            BY <5>2, <1>5, <3>1
          <5> QED BY <5>1, <5>2, <1>5
        <4> QED BY <3>2, <3>3, <4>1, <4>2 DEF Remaining, Answering
      <3>4. CASE error' = TRUE /\ wpc' = "leave" /\ UNCHANGED <<samples, frames>>
        BY <3>1, <3>2, <3>4 DEF Remaining, Answering
      <3> QED BY <1>3, <1>4, <3>3, <3>4 DEF Offer
    <2>2. samples' \in Nat /\ samples <= samples'
      BY <1>3, WorkerPreFacts
    <2> QED BY <1>0, <1>1, <2>1, <2>2, WorkerPreFacts, LocalFrames
  <1> QED BY <1>7, <1>8, <1>9, <1>10, <1>11, <1>12 DEF StreamInv

\* The frames not sent yet are offered, unless the run was cancelled.
LEMMA TrailStream ==
  ASSUME WorkerPre, Trail
  PROVE  StreamInv'
PROOF
  <1>0. SummaryInv /\ QueueInv /\ HeldInv /\ CancelInv /\ VerdictInv /\ FramesInv /\ ControlType /\ DataType
    BY DEF WorkerPre, StreamInv
  <1>1. /\ wpc = "leave" /\ wpc' \in {"trail", "name"} /\ Local
        /\ UNCHANGED <<samples, frames, error, verdict>>
    BY DEF Trail, Offer, Local, jobVars, connection, counted
  <1>2. job' = job /\ cancel' = cancel /\ out' = out /\ length' = length
    BY <1>1 DEF Local, jobVars
  <1>3. \/ frames # <<>> /\ Offer("trail", "samples", frames)
        \/ (frames = <<>> \/ cancel) /\ wpc' = "name" /\ UNCHANGED <<wseq, held>>
    BY DEF Trail
  <1>4. HeldInv' /\ wseq' \in Nat /\ wseq <= wseq'
    <2>1. CASE Offer("trail", "samples", frames)
      <3>1. /\ wpc' = "trail" /\ wseq' \in Nat /\ wseq <= wseq' /\ sequence' < wseq'
            /\ held'.kind = "samples" /\ held'.run = job' /\ held'.seq = wseq' /\ held'.frames = frames
            /\ \A i \in 1..Len(queue') : queue'[i].seq < wseq'
        BY <1>1, <2>1, WorkerPreFacts, Kinds, OfferStream, Zenon
      <3> QED BY <1>1, <3>1 DEF HeldInv
    <2>2. CASE wpc' = "name" /\ UNCHANGED <<wseq, held>>
      BY <2>2, WorkerPreFacts DEF HeldInv, EnqueueSites
    <2> QED BY <1>3, <2>1, <2>2
  <1>5. SummaryInv'
    BY <1>0, <1>1, LocalSummary
  <1>6. QueueInv'
    BY <1>0, <1>1, <1>4, LocalQueue DEF Answering
  <1>7. CancelInv'
    BY <1>0, <1>1, <1>2 DEF CancelInv
  <1>8. VerdictInv'
    BY <1>0, <1>1, <1>2 DEF VerdictInv, Answering
  <1>9. FramesInv'
    <2>1. \A e \in 0..samples : Remaining(e) => Remaining(e)'
      <3> SUFFICES ASSUME NEW e \in 0..samples, Remaining(e)
                   PROVE  Remaining(e)'
        OBVIOUS
      <3>1. /\ e + Len(frames) = samples /\ \A k \in 1..Len(frames) : frames[k] = e + k
            /\ error \/ cancel \/ samples >= length
        BY <1>1 DEF Remaining
      <3>2. verdict'[job'] # "finished"
        BY <1>0, <1>1, <1>2 DEF VerdictInv
      <3>3. CASE frames # <<>> /\ wpc' = "trail"
        <4>1. Len(frames) > 0
          BY <3>3, WorkerPreFacts
        <4> QED BY <1>1, <1>2, <3>1, <3>2, <3>3, <4>1 DEF Remaining, Answering
      <3>4. CASE (frames = <<>> \/ cancel) /\ wpc' = "name"
        <4>1. ~cancel => e = samples
          <5>1. ASSUME frames = <<>> PROVE Len(frames) = 0
            BY <5>1
          <5> QED BY <3>1, <3>4, <5>1, WorkerPreFacts
        <4> QED BY <1>1, <1>2, <3>1, <3>2, <3>4, <4>1 DEF Remaining, Answering
      <3> QED BY <1>3, <3>3, <3>4 DEF Offer
    <2> QED BY <1>0, <1>1, <2>1, WorkerPreFacts, LocalFrames
  <1> QED BY <1>4, <1>5, <1>6, <1>7, <1>8, <1>9 DEF StreamInv

\* The terminal event is named: finished only when every sample is on its way.
LEMMA NameStream ==
  ASSUME WorkerPre, Name
  PROVE  StreamInv'
PROOF
  <1>0. SummaryInv /\ QueueInv /\ HeldInv /\ CancelInv /\ VerdictInv /\ FramesInv /\ ControlType /\ DataType
    BY DEF WorkerPre, StreamInv
  <1>1. /\ wpc = "name" /\ Local /\ Offer("final", FinalName, <<>>)
        /\ verdict' = [verdict EXCEPT ![job] = FinalName]
        /\ UNCHANGED <<samples, frames, error>>
    BY DEF Name, Local, jobVars, connection, counted
  <1>2. PICK name : name = FinalName
    OBVIOUS
  <1>3. /\ name \in Terminals /\ name \in MessageKinds
        /\ name = "cancelled" => cancel
        /\ name = "finished" => ~cancel /\ ~error
    BY <1>2, Kinds DEF FinalName
  <1>4. job' = job /\ cancel' = cancel /\ out' = out /\ length' = length /\ verdict'[job] = name
    BY <1>1, <1>2, WorkerPreFacts DEF Local, jobVars
  <1>5. Offer("final", name, <<>>)
    BY <1>1, <1>2
  <1>6. /\ wpc' = "final" /\ wseq' \in Nat /\ wseq <= wseq' /\ sequence' < wseq'
        /\ held'.kind = name /\ held'.run = job' /\ held'.seq = wseq'
        /\ \A i \in 1..Len(queue') : queue'[i].seq < wseq'
    BY <1>1, <1>3, <1>5, WorkerPreFacts, OfferStream, Zenon
  <1>7. SummaryInv'
    BY <1>0, <1>1, LocalSummary
  <1>8. QueueInv'
    BY <1>0, <1>1, <1>6, LocalQueue DEF Answering
  <1>9. HeldInv'
    BY <1>3, <1>4, <1>6 DEF HeldInv
  <1>10. CancelInv'
    BY <1>0, <1>1, <1>3, <1>4, <1>6 DEF CancelInv
  <1>11. VerdictInv'
    BY <1>6 DEF VerdictInv, Answering
  <1>12. FramesInv'
    <2>1. \A e \in 0..samples : Remaining(e) => Remaining(e)'
      <3> SUFFICES ASSUME NEW e \in 0..samples, Remaining(e)
                   PROVE  Remaining(e)'
        OBVIOUS
      <3>1. (~cancel => e = samples) /\ (error \/ cancel \/ samples >= length)
        BY <1>1 DEF Remaining
      <3>2. name = "finished" => e = samples /\ samples >= length
        BY <1>3, <3>1
      <3> QED BY <1>1, <1>4, <1>6, <3>2 DEF Remaining, Answering
    <2> QED BY <1>0, <1>1, <2>1, WorkerPreFacts, LocalFrames
  <1> QED BY <1>7, <1>8, <1>9, <1>10, <1>11, <1>12 DEF StreamInv

\* enqueue gives up on an event of a cancelled run, never on a terminal one.
LEMMA EnqueuePollStream ==
  ASSUME WorkerPre, EnqueuePoll
  PROVE  StreamInv'
PROOF
  <1>0. SummaryInv /\ QueueInv /\ HeldInv /\ CancelInv /\ VerdictInv /\ FramesInv /\ ControlType /\ DataType
    BY DEF WorkerPre, StreamInv
  <1>1. /\ wpc \in EnqueueSites /\ Local
        /\ UNCHANGED <<held, wseq, samples, frames, error, verdict>>
    BY DEF EnqueuePoll, Local, jobVars, connection, counted, running
  <1>2. job' = job /\ cancel' = cancel /\ out' = out /\ length' = length /\ queue' = queue /\ sequence' = sequence
    BY <1>1 DEF Local, jobVars
  <1>3. \/ wpc' = wpc
        \/ cancel /\ wpc = "first" /\ wpc' = "abort"
        \/ cancel /\ wpc = "batch" /\ wpc' = "leave"
        \/ cancel /\ wpc = "trail" /\ wpc' = "name"
    BY <1>1, EnqueueTargets DEF EnqueuePoll, TerminalCall, EnqueueSites
  <1>4. SummaryInv'
    BY <1>0, <1>1, LocalSummary
  <1>5. QueueInv'
    BY <1>0, <1>1, <1>3, WorkerPreFacts, LocalQueue DEF Answering, EnqueueSites
  <1>6. HeldInv'
    <2>1. CASE wpc' = wpc
      BY <1>0, <1>1, <1>2, <2>1 DEF HeldInv
    <2>2. CASE wpc' \in {"abort", "leave", "name"}
      BY <2>2 DEF HeldInv, EnqueueSites
    <2> QED BY <1>3, <2>1, <2>2
  <1>7. CancelInv'
    BY <1>0, <1>1, <1>2, <1>3 DEF CancelInv
  <1>8. VerdictInv'
    BY <1>0, <1>1, <1>2, <1>3 DEF VerdictInv, Answering
  <1>9. FramesInv'
    <2>1. \A e \in 0..samples : Remaining(e) => Remaining(e)'
      <3> SUFFICES ASSUME NEW e \in 0..samples, Remaining(e)
                   PROVE  Remaining(e)'
        OBVIOUS
      <3>1. CASE wpc' = wpc
        BY <1>1, <1>2, <3>1 DEF Remaining
      <3>2. CASE cancel /\ wpc = "first" /\ wpc' = "abort"
        BY <1>1, <1>2, <3>2 DEF Remaining, Answering
      <3>3. CASE cancel /\ wpc = "batch" /\ wpc' = "leave"
        BY <1>1, <1>2, <3>3 DEF Remaining, Answering
      <3>4. CASE cancel /\ wpc = "trail" /\ wpc' = "name"
        BY <1>1, <1>2, <3>4 DEF Remaining, Answering
      <3> QED BY <1>3, <3>1, <3>2, <3>3, <3>4
    <2> QED BY <1>0, <1>1, <2>1, WorkerPreFacts, LocalFrames
  <1> QED BY <1>4, <1>5, <1>6, <1>7, <1>8, <1>9 DEF StreamInv

\* try_send found room: the event is the last of the channel.
LEMMA EnqueueSendQueue ==
  ASSUME WorkerPre, wpc \in EnqueueSites, queue' = Append(queue, held), wpc' = Sent(wpc),
         UNCHANGED <<job, receiver, terminal, acknowledged, sequence, wseq, verdict>>
  PROVE  QueueInv'
PROOF
  <1>0. QueueInv /\ HeldInv /\ ControlType /\ DataType
    BY DEF WorkerPre, StreamInv
  <1>1. queue \in Seq(Message) /\ held \in Message /\ held.seq \in Nat
    BY <1>0 DEF DataType, Message
  <1>2. /\ Len(queue') = Len(queue) + 1 /\ Len(queue) \in Nat /\ queue'[Len(queue) + 1] = held
        /\ \A i \in 1..Len(queue) : queue'[i] = queue[i]
    BY <1>1, AppendFacts
  <1>3. wpc # "exited" /\ ~terminal
    BY <1>0 DEF EnqueueSites, QueueInv
  <1>4. \A i \in 1..Len(queue) : queue[i].seq \in Nat /\ queue[i].seq <= wseq /\ queue[i].kind \notin Ends
    BY <1>0, <1>3, QueueNumbers DEF QueueInv
  <1>5. wpc \in Answering => Len(queue) = 0 /\ ~acknowledged
    BY <1>0 DEF QueueInv
  <1>6. wpc \notin Answering => acknowledged \/ Len(queue) > 0
    BY <1>0, <1>1, <1>3 DEF QueueInv
  <1>7. wpc' \notin Answering /\ (held.kind \in Ends => wpc' = "exited" /\ held.kind = verdict[job])
        /\ (wpc' = "exited" => held.kind \in Ends)
    BY <1>0, EnqueueTargets DEF HeldInv, Answering, EnqueueSites
  <1>8. /\ Tells(held, job) /\ held.seq <= wseq
        /\ held.kind \in {"accepted", "refused"} => wpc \in Answering /\ held.seq = 0
        /\ held.kind \notin {"accepted", "refused"} =>
             wpc \notin Answering /\ held.seq > sequence /\ held.seq > 0
    <2>1. CASE wpc \in {"refuse", "respond"}
      BY <1>0, <2>1, WorkerPreFacts DEF HeldInv, Answering, Tells, EnqueueSites
    <2>2. CASE wpc \in EnqueueSites \ {"refuse", "respond"}
      <3>1. held.kind \in Terminals \cup {"samples"} /\ held.run = job
        BY <1>0, <2>2 DEF HeldInv, EnqueueSites
      <3>2. wpc \notin Answering
        BY <2>2 DEF Answering, EnqueueSites
      <3>3. held.seq = wseq /\ sequence < wseq
        BY <1>0, <2>2 DEF HeldInv
      <3> QED BY <3>1, <3>2, <3>3, WorkerPreFacts DEF Tells
    <2> QED BY <2>1, <2>2
  <1>9. \A i \in 1..Len(queue) : queue[i].seq < held.seq
    <2>1. CASE wpc \in Answering
      BY <1>5, <2>1
    <2>2. CASE wpc \notin Answering
      BY <1>0, <2>2 DEF HeldInv, Answering
    <2> QED BY <2>1, <2>2
  <1>10. ASSUME NEW i \in 1..Len(queue')
         PROVE  /\ Tells(queue'[i], job)
                /\ queue'[i].kind \in {"accepted", "refused"} =>
                     i = 1 /\ ~acknowledged /\ queue'[i].seq = 0
                /\ queue'[i].kind \notin {"accepted", "refused"} =>
                     (i > 1 \/ acknowledged) /\ queue'[i].seq > sequence /\ queue'[i].seq > 0
                /\ queue'[i].kind \in Ends =>
                     i = Len(queue') /\ wpc' = "exited" /\ queue'[i].kind = verdict[job]
                /\ queue'[i].seq <= wseq
    <2>1. CASE i = Len(queue) + 1
      BY <2>1, <1>2, <1>5, <1>6, <1>7, <1>8
    <2>2. CASE i \in 1..Len(queue)
      <3>1. /\ Tells(queue[i], job)
            /\ queue[i].kind \in {"accepted", "refused"} =>
                 i = 1 /\ ~acknowledged /\ queue[i].seq = 0
            /\ queue[i].kind \notin {"accepted", "refused"} =>
                 (i > 1 \/ acknowledged) /\ queue[i].seq > sequence /\ queue[i].seq > 0
        BY <1>0, <2>2 DEF QueueInv
      <3> QED BY <2>2, <3>1, <1>2, <1>4
    <2> QED BY <2>1, <2>2, <1>2
  <1>11. \A i, j \in 1..Len(queue') : i < j => queue'[i].seq < queue'[j].seq
    <2> SUFFICES ASSUME NEW i \in 1..Len(queue'), NEW j \in 1..Len(queue'), i < j
                 PROVE  queue'[i].seq < queue'[j].seq
      OBVIOUS
    <2>1. i \in 1..Len(queue) /\ queue'[i] = queue[i]
      BY <1>2
    <2>2. CASE j = Len(queue) + 1
      BY <2>1, <2>2, <1>2, <1>9
    <2>3. CASE j \in 1..Len(queue)
      BY <2>1, <2>3, <1>0, <1>2 DEF QueueInv
    <2> QED BY <2>2, <2>3, <1>2
  <1>12. queue' # <<>> /\ queue'[Len(queue')] = held
    BY <1>1, <1>2
  <1>13. receiver /\ sequence <= wseq
    BY <1>0 DEF QueueInv
  <1>14. wpc' = "exited" => queue' # <<>> /\ queue'[Len(queue')].kind \in Ends
    BY <1>7, <1>12
  <1>15. /\ receiver' /\ sequence' <= wseq' /\ ~terminal'
    BY <1>3, <1>13
  <1> QED BY <1>7, <1>10, <1>11, <1>12, <1>14, <1>15 DEF QueueInv

\* The batch that was handed over extends the chain; other events do not.
LEMMA EnqueueSendFrames ==
  ASSUME WorkerPre, wpc \in EnqueueSites, queue' = Append(queue, held), wpc' = Sent(wpc),
         frames' = IF wpc \in {"first", "batch"} THEN <<>> ELSE frames,
         UNCHANGED <<job, cancel, samples, error, length, out, verdict>>
  PROVE  FramesInv'
PROOF
  <1>0. QueueInv /\ HeldInv /\ VerdictInv /\ FramesInv /\ ControlType /\ DataType
    BY DEF WorkerPre, StreamInv
  <1>1. queue \in Seq(Message) /\ held \in Message
    BY <1>0 DEF DataType
  <1>2. PICK d \in 0..samples, e \in 0..samples :
          Chain(out, job, 0, d) /\ Chain(queue, job, d, e) /\ Remaining(e)
    BY <1>0 DEF FramesInv
  <1>3. Chain(out', job', 0, d) /\ d \in 0..samples' /\ d \in Nat /\ e \in Nat
    BY <1>2, WorkerPreFacts
  <1>4. CASE wpc \in {"first", "batch", "trail"}
    <2>1. Batch(held, job) /\ held.frames = frames
      BY <1>0, <1>4 DEF HeldInv, Batch, EnqueueSites
    <2>2. /\ e + Len(frames) = samples /\ Len(frames) > 0
          /\ \A k \in 1..Len(frames) : frames[k] = e + k
      BY <1>2, <1>4 DEF Remaining
    <2>3. Chain(queue', job, d, e + Len(held.frames))
      BY <1>1, <1>2, <1>3, <2>1, <2>2, ChainAppendBatch
    <2>4. Chain(queue', job', d, samples) /\ samples \in 0..samples'
      BY <2>1, <2>2, <2>3, WorkerPreFacts
    <2>5. verdict'[job'] # "finished"
      BY <1>0, <1>4 DEF VerdictInv
    <2>6. CASE wpc \in {"first", "batch"}
      <3>1. wpc' = "loop" /\ frames' = <<>> /\ Len(frames') = 0
        BY <2>6, EnqueueTargets
      <3>2. Remaining(samples)'
        BY <2>5, <3>1, WorkerPreFacts DEF Remaining, Answering
      <3> QED BY <1>3, <2>4, <3>2, FramesNext
    <2>7. CASE wpc = "trail"
      <3>1. wpc' = "name" /\ (error \/ cancel \/ samples >= length)
        BY <2>7, <1>2, EnqueueTargets DEF Remaining
      <3>2. Remaining(samples)'
        BY <2>5, <3>1 DEF Remaining, Answering
      <3> QED BY <1>3, <2>4, <3>2, FramesNext
    <2> QED BY <1>4, <2>6, <2>7
  <1>5. CASE wpc \in {"refuse", "respond", "firstCancelled", "final"}
    <2>1. ~Batch(held, job)
      BY <1>0, <1>5 DEF HeldInv, Batch
    <2>2. Chain(queue', job', d, e) /\ e \in 0..samples'
      BY <1>1, <1>2, <1>3, <2>1, ChainAppendOther
    <2>3. wpc' \in {"begin", "exited"} /\ (wpc' = "begin" => wpc = "respond") /\ frames' = frames
      BY <1>5, EnqueueTargets
    <2>4. wpc = "respond" => e = 0 /\ samples = 0 /\ frames = <<>>
      BY <1>2 DEF Remaining, Answering
    <2>5. verdict[job] = "finished" => e = samples /\ samples >= length
      BY <1>2 DEF Remaining
    <2>6. Remaining(e)'
      BY <2>3, <2>4, <2>5 DEF Remaining, Answering
    <2> QED BY <1>3, <2>2, <2>6, FramesNext
  <1> QED BY <1>4, <1>5 DEF EnqueueSites

\* One try_send of an active run: sent, or full and tried again.
LEMMA EnqueueTryStream ==
  ASSUME WorkerPre, EnqueueTry
  PROVE  StreamInv'
PROOF
  <1>0. SummaryInv /\ QueueInv /\ HeldInv /\ CancelInv /\ VerdictInv /\ FramesInv /\ ControlType /\ DataType
    BY DEF WorkerPre, StreamInv
  <1>1. receiver
    BY <1>0 DEF QueueInv
  <1>2. /\ wpc \in EnqueueSites
        /\ UNCHANGED <<job, cancel, receiver, terminal, acknowledged, sequence, connection,
                       held, wseq, samples, error, length, width, counted, out, verdict>>
    BY DEF EnqueueTry
  <1>3. \/ /\ queue' = Append(queue, held) /\ wpc' = Sent(wpc)
           /\ frames' = IF wpc \in {"first", "batch"} THEN <<>> ELSE frames
        \/ UNCHANGED <<wpc, queue, frames>>
    BY <1>1 DEF EnqueueTry
  <1>4. SummaryInv'
    BY <1>0, <1>2 DEF SummaryInv
  <1>5. CASE UNCHANGED <<wpc, queue, frames>>
    <2>1. Local
      BY <1>2, <1>5 DEF Local, jobVars
    <2>2. QueueInv' /\ HeldInv' /\ CancelInv' /\ VerdictInv'
      <3>1. QueueInv'
        BY <1>0, <1>2, <1>5 DEF QueueInv
      <3>2. HeldInv'
        BY <1>0, <1>2, <1>5 DEF HeldInv
      <3>3. CancelInv' /\ VerdictInv'
        BY <1>0, <1>2, <1>5 DEF CancelInv, VerdictInv
      <3> QED BY <3>1, <3>2, <3>3
    <2>3. \A e \in 0..samples : Remaining(e) => Remaining(e)'
      BY <1>2, <1>5 DEF Remaining
    <2>4. FramesInv'
      BY <1>0, <1>2, <2>1, <2>3, WorkerPreFacts, LocalFrames
    <2> QED BY <1>4, <2>2, <2>4 DEF StreamInv
  <1>6. CASE /\ queue' = Append(queue, held) /\ wpc' = Sent(wpc)
             /\ frames' = IF wpc \in {"first", "batch"} THEN <<>> ELSE frames
    <2>1. QueueInv'
      BY <1>2, <1>6, EnqueueSendQueue
    <2>2. FramesInv'
      BY <1>2, <1>6, EnqueueSendFrames
    <2>3. wpc' \in {"begin", "loop", "name", "exited"}
          /\ (wpc' \in {"begin", "loop", "name"} => wpc \in {"respond", "first", "batch", "trail"})
      BY <1>2, <1>6, EnqueueTargets DEF EnqueueSites
    <2>4. HeldInv'
      BY <2>3 DEF HeldInv, EnqueueSites
    <2>5. CancelInv'
      BY <1>0, <1>2, <2>3 DEF CancelInv
    <2>6. VerdictInv'
      BY <1>0, <1>2, <2>3 DEF VerdictInv, Answering
    <2> QED BY <1>4, <2>1, <2>2, <2>4, <2>5, <2>6 DEF StreamInv
  <1> QED BY <1>3, <1>5, <1>6
----------------------------------------------------------------------------
(* What the client was told: the properties, message by message.           *)

\* RunProtocol for the message at position i of o.
ProtocolAt(o, i) ==
  Tells(o[i], o[i].run) =>
    /\ (\E j \in 1..(i - 1) : Tells(o[j], o[i].run)) => o[i].kind \notin {"accepted", "refused"}
    /\ o[i].kind \notin {"accepted", "refused"} => \E j \in 1..(i - 1) : Tells(o[j], o[i].run)
    /\ \A j \in 1..(i - 1) : Tells(o[j], o[i].run) => o[j].kind \notin Ends /\ o[j].seq < o[i].seq

\* FinishedIsComplete for a run r of n samples reported finished at position i.
CompleteAt(o, i, r, n) ==
  /\ \A k \in 1..n : \E b \in 1..i : Batch(o[b], r) /\ \E l \in 1..Len(o[b].frames) : o[b].frames[l] = k
  /\ \A b \in 1..i : Batch(o[b], r) =>
       \A k \in 2..Len(o[b].frames) : o[b].frames[k] = o[b].frames[k - 1] + 1
  /\ \A b, c \in 1..i :
       Batch(o[b], r) /\ Batch(o[c], r) /\ b < c /\ (\A a \in 1..i : Batch(o[a], r) => a <= b \/ c <= a)
         => o[c].frames[1] = Final(o[b]) + 1

\* ReportsTruth for the message at position i of o, given the verdicts v.
TruthAt(o, i, v) ==
  /\ o[i].kind = "cancelled" => \E j \in 1..(i - 1) : o[j].kind = "cancelling" /\ o[j].run = o[i].run
  /\ o[i].kind \in {"finished", "cancelled"} => v[o[i].run] = o[i].kind
  /\ o[i].kind = "failed" => v[o[i].run] \in {"failed", "panicked"}
  /\ o[i].kind = "refused" => v[o[i].run] \in {"refused", "panicked"}

\* The three properties are these facts about every message.
LEMMA PropertiesAt ==
  /\ RunProtocol <=> \A i \in 1..Len(out) : ProtocolAt(out, i)
  /\ FinishedIsComplete <=> \A i \in 1..Len(out) :
       out[i].kind = "finished" /\ out[i].run = job => CompleteAt(out, i, job, length)
  /\ ReportsTruth <=> \A i \in 1..Len(out) : TruthAt(out, i, verdict)
PROOF
  <1>1. RunProtocol <=> \A i \in 1..Len(out) : ProtocolAt(out, i)
    <2>1. ASSUME NEW i \in 1..Len(out)
          PROVE  ProtocolAt(out, i) <=>
                   (Tells(out[i], out[i].run) =>
                      LET earlier == {j \in 1..(i - 1) : Tells(out[j], out[i].run)} IN
                      /\ (earlier = {}) = (out[i].kind \in {"accepted", "refused"})
                      /\ \A j \in earlier : out[j].kind \notin Ends /\ out[j].seq < out[i].seq)
      <3> DEFINE earlier == {j \in 1..(i - 1) : Tells(out[j], out[i].run)}
      <3>1. (earlier = {}) <=> ~\E j \in 1..(i - 1) : Tells(out[j], out[i].run)
        OBVIOUS
      <3>2. (\A j \in earlier : out[j].kind \notin Ends /\ out[j].seq < out[i].seq) <=>
            \A j \in 1..(i - 1) : Tells(out[j], out[i].run) => out[j].kind \notin Ends /\ out[j].seq < out[i].seq
        OBVIOUS
      <3> HIDE DEF earlier
      <3>3. ProtocolAt(out, i) <=>
              (Tells(out[i], out[i].run) =>
                 /\ (earlier = {}) = (out[i].kind \in {"accepted", "refused"})
                 /\ \A j \in earlier : out[j].kind \notin Ends /\ out[j].seq < out[i].seq)
        BY <3>1, <3>2 DEF ProtocolAt
      <3> QED BY <3>3 DEF earlier
    <2> QED BY <2>1 DEF RunProtocol
  <1>2. FinishedIsComplete <=> \A i \in 1..Len(out) :
          out[i].kind = "finished" /\ out[i].run = job => CompleteAt(out, i, job, length)
    BY DEF FinishedIsComplete, CompleteAt, Batch, Final
  <1>3. ReportsTruth <=> \A i \in 1..Len(out) : TruthAt(out, i, verdict)
    BY DEF ReportsTruth, CancelledOnRequest, TruthAt
  <1> QED BY <1>1, <1>2, <1>3

\* So they are in the next state.
LEMMA PropertiesAtNext ==
  /\ RunProtocol' <=> \A i \in 1..Len(out') : ProtocolAt(out', i)
  /\ FinishedIsComplete' <=> \A i \in 1..Len(out') :
       out'[i].kind = "finished" /\ out'[i].run = job' => CompleteAt(out', i, job', length')
  /\ ReportsTruth' <=> \A i \in 1..Len(out') : TruthAt(out', i, verdict')
PROOF
  <1>1. ( /\ RunProtocol <=> \A i \in 1..Len(out) : ProtocolAt(out, i)
          /\ FinishedIsComplete <=> \A i \in 1..Len(out) :
               out[i].kind = "finished" /\ out[i].run = job => CompleteAt(out, i, job, length)
          /\ ReportsTruth <=> \A i \in 1..Len(out) : TruthAt(out, i, verdict) )'
    BY PropertiesAt, PTL
  <1> QED BY <1>1

\* A message told earlier is judged by what came before it.
LEMMA EarlierMessages ==
  ASSUME NEW q \in Seq(Message), NEW m \in Message, NEW p, p = Append(q, m), NEW i \in 1..Len(q)
  PROVE  /\ p[i] = q[i] /\ i \in 1..Len(p)
         /\ ProtocolAt(q, i) => ProtocolAt(p, i)
         /\ \A r, n : CompleteAt(q, i, r, n) => CompleteAt(p, i, r, n)
         /\ \A v : TruthAt(q, i, v) => TruthAt(p, i, v)
PROOF
  <1>1. Len(p) = Len(q) + 1 /\ Len(q) \in Nat /\ \A j \in 1..Len(q) : p[j] = q[j]
    BY AppendFacts
  <1>2. p[i] = q[i] /\ i \in 1..Len(p)
    BY <1>1
  <1>3. /\ \A j \in 1..i : j \in 1..Len(q) /\ p[j] = q[j]
        /\ \A j \in 1..(i - 1) : j \in 1..Len(q) /\ p[j] = q[j]
    BY <1>1
  <1>4. ProtocolAt(q, i) => ProtocolAt(p, i)
    BY <1>2, <1>3 DEF ProtocolAt
  <1>5. \A v : TruthAt(q, i, v) => TruthAt(p, i, v)
    BY <1>2, <1>3 DEF TruthAt
  <1>6. ASSUME NEW r, NEW n, CompleteAt(q, i, r, n)
        PROVE  CompleteAt(p, i, r, n)
    <2>1. \A k \in 1..n : \E b \in 1..i : Batch(p[b], r) /\ \E l \in 1..Len(p[b].frames) : p[b].frames[l] = k
      BY <1>3, <1>6 DEF CompleteAt
    <2>2. \A b \in 1..i : Batch(p[b], r) =>
            \A k \in 2..Len(p[b].frames) : p[b].frames[k] = p[b].frames[k - 1] + 1
      BY <1>3, <1>6 DEF CompleteAt
    <2>3. \A b, c \in 1..i :
            Batch(p[b], r) /\ Batch(p[c], r) /\ b < c /\ (\A a \in 1..i : Batch(p[a], r) => a <= b \/ c <= a)
              => p[c].frames[1] = Final(p[b]) + 1
      BY <1>3, <1>6 DEF CompleteAt
    <2> QED BY <2>1, <2>2, <2>3 DEF CompleteAt
  <1> QED BY <1>2, <1>4, <1>5, <1>6

\* A chain from 0 delivers all samples up to its end once, in order.
LEMMA ChainComplete ==
  ASSUME NEW p \in Seq(Message), NEW r, NEW d \in Nat, NEW n \in Nat, n <= d, Chain(p, r, 0, d)
  PROVE  CompleteAt(p, Len(p), r, n)
PROOF
  <1>0. Len(p) \in Nat /\ \A b \in 1..Len(p) : p[b] \in Message
    OBVIOUS
  <1>1. \A b \in 1..Len(p) : Batch(p[b], r) =>
          /\ Len(p[b].frames) > 0
          /\ \A k \in 1..Len(p[b].frames) : p[b].frames[k] = p[b].frames[1] + k - 1
          /\ 0 < p[b].frames[1]
    BY DEF Chain
  <1>2. \A b \in 1..Len(p) : Batch(p[b], r) =>
          /\ Len(p[b].frames) \in Nat /\ p[b].frames[1] \in Nat
          /\ Final(p[b]) = p[b].frames[1] + Len(p[b].frames) - 1
    <2> SUFFICES ASSUME NEW b \in 1..Len(p), Batch(p[b], r)
                 PROVE  /\ Len(p[b].frames) \in Nat /\ p[b].frames[1] \in Nat
                        /\ Final(p[b]) = p[b].frames[1] + Len(p[b].frames) - 1
      OBVIOUS
    <2>1. p[b] \in Message /\ Len(p[b].frames) > 0
      BY <1>0, <1>1
    <2>2. Len(p[b].frames) \in Nat /\ p[b].frames[1] \in Nat
      BY <2>1, BatchFacts
    <2>3. Len(p[b].frames) \in 1..Len(p[b].frames)
      BY <2>1, <2>2
    <2> QED BY <1>1, <2>2, <2>3 DEF Final
  <1>3. ASSUME NEW k \in 1..n
        PROVE  \E b \in 1..Len(p) : Batch(p[b], r) /\ \E l \in 1..Len(p[b].frames) : p[b].frames[l] = k
    <2>1. k \in (0 + 1)..d
      OBVIOUS
    <2>2. PICK b \in 1..Len(p) : Batch(p[b], r) /\ p[b].frames[1] <= k /\ k <= Final(p[b])
      BY <2>1 DEF Chain
    <2>2a. /\ Len(p[b].frames) \in Nat /\ p[b].frames[1] \in Nat
           /\ k <= p[b].frames[1] + Len(p[b].frames) - 1
      BY <1>2, <2>2
    <2>3. k - p[b].frames[1] + 1 \in 1..Len(p[b].frames)
      BY <2>2, <2>2a
    <2>4. p[b].frames[k - p[b].frames[1] + 1] = k
      BY <1>1, <1>2, <2>2, <2>3
    <2> QED BY <2>2, <2>3, <2>4
  <1>4. \A b \in 1..Len(p) : Batch(p[b], r) =>
          \A k \in 2..Len(p[b].frames) : p[b].frames[k] = p[b].frames[k - 1] + 1
    <2> SUFFICES ASSUME NEW b \in 1..Len(p), Batch(p[b], r), NEW k \in 2..Len(p[b].frames)
                 PROVE  p[b].frames[k] = p[b].frames[k - 1] + 1
      OBVIOUS
    <2>1. Len(p[b].frames) \in Nat /\ p[b].frames[1] \in Nat
      BY <1>2
    <2>2. k \in 1..Len(p[b].frames) /\ k - 1 \in 1..Len(p[b].frames)
      BY <2>1
    <2>3. p[b].frames[k] = p[b].frames[1] + k - 1 /\ p[b].frames[k - 1] = p[b].frames[1] + (k - 1) - 1
      BY <1>1, <2>2
    <2> QED BY <2>1, <2>3
  <1>5. ASSUME NEW b \in 1..Len(p), NEW c \in 1..Len(p), Batch(p[b], r), Batch(p[c], r), b < c,
               \A a \in 1..Len(p) : Batch(p[a], r) => a <= b \/ c <= a
        PROVE  p[c].frames[1] = Final(p[b]) + 1
    <2>1. Final(p[b]) < p[c].frames[1] /\ 0 < p[b].frames[1]
      BY <1>1, <1>5 DEF Chain
    <2>2. /\ Final(p[b]) \in Nat /\ p[b].frames[1] \in Nat /\ p[c].frames[1] \in Nat
          /\ p[b].frames[1] <= Final(p[b])
      BY <1>1, <1>2, <1>5
    <2>3. p[c].frames[1] # 0 + 1
      BY <2>1, <2>2
    <2>4. PICK j \in 1..Len(p) : j < c /\ Batch(p[j], r) /\ Final(p[j]) + 1 = p[c].frames[1]
      BY <1>5, <2>3 DEF Chain
    <2>5. j <= b
      BY <1>5, <2>4
    <2>6. CASE j = b
      BY <2>4, <2>6
    <2>7. CASE j < b
      <3>1. Final(p[j]) < p[b].frames[1] /\ Final(p[j]) \in Nat
        <4>1. Final(p[j]) < p[b].frames[1]
          BY <1>5, <2>4, <2>7 DEF Chain
        <4>2. Final(p[j]) \in Nat
          BY <1>0, <1>1, <2>4, BatchFacts
        <4> QED BY <4>1, <4>2
      <3> QED BY <2>1, <2>2, <2>4, <3>1
    <2> QED BY <2>5, <2>6, <2>7
  <1> QED BY <1>3, <1>4, <1>5 DEF CompleteAt
----------------------------------------------------------------------------
(* The connection relays the head of the channel.                          *)

\* What Drain and Last do when the channel has a message and it is sent.
Relay ==
  /\ queue # <<>> /\ Observe(Head(queue))
  /\ out' = Append(out, Head(queue)) /\ queue' = Tail(queue)
  /\ UNCHANGED <<job, cancel, receiver, enqueuing, running, verdict>>

\* The message that is relayed continues what was told of the run.
LEMMA RelayFacts ==
  ASSUME WorkerPre, Relay, NEW m, m = Head(queue)
  PROVE  /\ m \in Message /\ m = queue[1] /\ m.seq \in Nat /\ Len(queue) \in Nat /\ Len(queue) > 0
         /\ Tells(m, job) /\ ~terminal /\ wpc \notin Answering
         /\ m.kind \in {"accepted", "refused"} => ~acknowledged /\ m.seq = 0
         /\ m.kind \notin {"accepted", "refused"} => acknowledged /\ m.seq > sequence /\ m.seq > 0
         /\ m.kind \in Ends => Len(queue) = 1 /\ wpc = "exited" /\ m.kind = verdict[job]
         /\ acknowledged' <=> acknowledged \/ m.kind = "accepted"
         /\ terminal' <=> m.kind \in Ends
         /\ sequence' \in Nat /\ sequence' \in {sequence, m.seq}
         /\ sequence <= sequence' /\ m.seq <= sequence' /\ sequence' <= wseq
PROOF
  <1>0. QueueInv /\ DataType /\ queue \in Seq(Message) /\ queue # <<>>
    BY DEF WorkerPre, StreamInv, DataType, Relay
  <1>1. m \in Message /\ m = queue[1] /\ Len(queue) \in Nat /\ Len(queue) > 0 /\ m.seq \in Nat
    <2>1. m \in Message /\ m = queue[1] /\ Len(queue) \in Nat /\ Len(queue) > 0
      BY <1>0, TailFacts
    <2> QED BY <2>1 DEF Message
  <1>2. 1 \in 1..Len(queue)
    BY <1>1
  <1>3. /\ Tells(m, job)
        /\ m.kind \in {"accepted", "refused"} => ~acknowledged /\ m.seq = 0
        /\ m.kind \notin {"accepted", "refused"} => (1 > 1 \/ acknowledged) /\ m.seq > sequence /\ m.seq > 0
        /\ m.kind \in Ends => 1 = Len(queue) /\ wpc = "exited" /\ m.kind = verdict[job]
        /\ m.seq <= wseq
    BY <1>0, <1>1, <1>2 DEF QueueInv
  <1>4. ~terminal /\ wpc \notin Answering /\ sequence <= wseq
    BY <1>0 DEF QueueInv
  <1>5. Observe(m)
    BY DEF Relay
  <1>6. acknowledged' <=> acknowledged \/ m.kind = "accepted"
    BY <1>5, Zenon DEF Observe
  <1>7. terminal' <=> m.kind \in Ends
    <2>1. terminal' <=> terminal \/ m.kind \in Ends
      BY <1>5, Zenon DEF Observe
    <2> QED BY <1>4, <2>1
  <1>8. /\ sequence' \in Nat /\ sequence' \in {sequence, m.seq}
        /\ sequence <= sequence' /\ m.seq <= sequence' /\ sequence' <= wseq
    BY <1>1, <1>3, <1>4, <1>5, WorkerPreFacts DEF Observe
  <1> QED BY <1>1, <1>3, <1>4, <1>6, <1>7, <1>8

\* The summary covers the message that is out now.
LEMMA RelaySummary ==
  ASSUME WorkerPre, Relay
  PROVE  SummaryInv'
PROOF
  <1>0. SummaryInv /\ out \in Seq(Message) /\ queue \in Seq(Message)
    BY DEF WorkerPre, StreamInv, DataType
  <1>1. PICK m : m = Head(queue)
    OBVIOUS
  <1>2. /\ m \in Message /\ m.seq \in Nat /\ Tells(m, job) /\ ~terminal
        /\ m.kind \notin {"accepted", "refused"} => acknowledged
        /\ acknowledged' <=> acknowledged \/ m.kind = "accepted"
        /\ terminal' <=> m.kind \in Ends
        /\ sequence' \in Nat /\ sequence <= sequence' /\ m.seq <= sequence'
    BY <1>1, RelayFacts
  <1>3. out' = Append(out, m) /\ job' = job
    BY <1>1 DEF Relay
  <1>4. /\ Len(out') = Len(out) + 1 /\ Len(out) \in Nat /\ out'[Len(out) + 1] = m
        /\ \A i \in 1..Len(out) : out'[i] = out[i]
    BY <1>0, <1>2, <1>3, AppendFacts
  <1>5. acknowledged' \/ terminal'
    BY <1>2
  <1>6. ASSUME NEW i \in 1..Len(out'), Tells(out'[i], job)
        PROVE  out'[i].seq <= sequence' /\ (out'[i].kind \in Ends => terminal')
    <2>1. CASE i = Len(out) + 1
      BY <2>1, <1>2, <1>4
    <2>2. CASE i \in 1..Len(out)
      <3>1. Tells(out[i], job) /\ out'[i] = out[i]
        BY <1>4, <1>6, <2>2
      <3>2. out[i].seq <= sequence /\ out[i].kind \notin Ends
        BY <1>0, <1>2, <2>2, <3>1 DEF SummaryInv
      <3>3. out[i].seq \in Nat /\ sequence \in Nat
        BY <1>0, <2>2, WorkerPreFacts, MessageNumbers
      <3> QED BY <1>2, <3>1, <3>2, <3>3
    <2> QED BY <2>1, <2>2, <1>4
  <1>7. Tells(out'[Len(out) + 1], job) /\ Len(out) + 1 \in 1..Len(out')
    BY <1>2, <1>4
  <1> QED BY <1>3, <1>5, <1>6, <1>7 DEF SummaryInv

\* The rest of the channel continues it.
LEMMA RelayQueue ==
  ASSUME WorkerPre, Relay
  PROVE  QueueInv'
PROOF
  <1>0. QueueInv /\ DataType /\ queue \in Seq(Message) /\ queue # <<>>
    BY DEF WorkerPre, StreamInv, DataType, Relay
  <1>1. PICK m : m = Head(queue)
    OBVIOUS
  <1>2. /\ m \in Message /\ m = queue[1] /\ m.seq \in Nat /\ ~terminal /\ wpc \notin Answering
        /\ m.kind \in {"accepted", "refused"} => ~acknowledged
        /\ m.kind \notin {"accepted", "refused"} => acknowledged
        /\ m.kind \in Ends => Len(queue) = 1 /\ wpc = "exited"
        /\ acknowledged' <=> acknowledged \/ m.kind = "accepted"
        /\ terminal' <=> m.kind \in Ends
        /\ sequence' \in Nat /\ sequence' \in {sequence, m.seq} /\ sequence' <= wseq
    BY <1>1, RelayFacts
  <1>3. /\ queue' \in Seq(Message) /\ Len(queue) \in Nat /\ Len(queue) > 0 /\ Len(queue') = Len(queue) - 1
        /\ \A i \in 1..Len(queue') : queue'[i] = queue[i + 1]
    <2>1. queue' = Tail(queue)
      BY DEF Relay
    <2> QED BY <1>0, <2>1, TailFacts
  <1>4. job' = job /\ receiver' = receiver /\ wpc' = wpc /\ wseq' = wseq /\ verdict' = verdict
    BY DEF Relay, enqueuing, running
  <1>5. ~terminal' => acknowledged'
    BY <1>2
  <1>6. ASSUME NEW i \in 1..Len(queue')
        PROVE  /\ Tells(queue'[i], job)
               /\ queue'[i].kind \notin {"accepted", "refused"}
               /\ acknowledged' /\ queue'[i].seq > sequence' /\ queue'[i].seq > 0
               /\ queue'[i].kind \in Ends =>
                    i = Len(queue') /\ wpc = "exited" /\ queue'[i].kind = verdict[job]
               /\ queue'[i].seq <= wseq
    <2>1. i + 1 \in 1..Len(queue) /\ queue'[i] = queue[i + 1] /\ 1 \in 1..Len(queue) /\ 1 < i + 1 /\ Len(queue) # 1
      BY <1>3
    <2>2. /\ Tells(queue[i + 1], job)
          /\ queue[i + 1].kind \in {"accepted", "refused"} => i + 1 = 1
          /\ queue[i + 1].kind \notin {"accepted", "refused"} =>
               queue[i + 1].seq > sequence /\ queue[i + 1].seq > 0
          /\ queue[i + 1].kind \in Ends =>
               i + 1 = Len(queue) /\ wpc = "exited" /\ queue[i + 1].kind = verdict[job]
          /\ queue[i + 1].seq <= wseq
      BY <1>0, <2>1 DEF QueueInv
    <2>3. queue[1].seq < queue[i + 1].seq
      BY <1>0, <2>1 DEF QueueInv
    <2>4. queue[i + 1].kind \notin {"accepted", "refused"}
      BY <2>1, <2>2
    <2>5. acknowledged'
      BY <1>2, <1>5, <2>1
    <2>6. queue[i + 1].seq > sequence'
      BY <1>2, <2>2, <2>3, <2>4
    <2> QED BY <1>3, <2>1, <2>2, <2>4, <2>5, <2>6
  <1>7. \A i, j \in 1..Len(queue') : i < j => queue'[i].seq < queue'[j].seq
    <2> SUFFICES ASSUME NEW i \in 1..Len(queue'), NEW j \in 1..Len(queue'), i < j
                 PROVE  queue'[i].seq < queue'[j].seq
      OBVIOUS
    <2>1. /\ i + 1 \in 1..Len(queue) /\ j + 1 \in 1..Len(queue) /\ i + 1 < j + 1
          /\ queue'[i] = queue[i + 1] /\ queue'[j] = queue[j + 1]
      BY <1>3
    <2> QED BY <1>0, <2>1 DEF QueueInv
  <1>8. terminal' => queue' = <<>> /\ wpc = "exited"
    BY <1>2, <1>3
  <1>9. wpc = "exited" => \/ verdict[job] = "panicked" \/ terminal'
                          \/ queue' # <<>> /\ queue'[Len(queue')].kind \in Ends
    <2>1. SUFFICES ASSUME wpc = "exited", verdict[job] # "panicked", ~terminal'
                   PROVE  queue' # <<>> /\ queue'[Len(queue')].kind \in Ends
      OBVIOUS
    <2>2. queue[Len(queue)].kind \in Ends
      BY <1>0, <1>2, <2>1 DEF QueueInv
    <2>3. Len(queue) # 1
      BY <1>2, <2>1, <2>2
    <2>4. Len(queue') \in 1..Len(queue') /\ Len(queue') + 1 = Len(queue)
      BY <1>3, <2>3
    <2>5. queue'[Len(queue')] = queue[Len(queue)]
      BY <1>3, <2>4
    <2> QED BY <2>2, <2>4, <2>5
  <1>10. wpc # "exited" => acknowledged'
    BY <1>2, <1>5
  <1>11. receiver
    BY <1>0 DEF QueueInv
  <1> QED BY <1>2, <1>4, <1>6, <1>7, <1>8, <1>9, <1>10, <1>11 DEF QueueInv

\* The event being enqueued still follows.
LEMMA RelayHeld ==
  ASSUME WorkerPre, Relay
  PROVE  HeldInv'
PROOF
  <1>0. HeldInv /\ QueueInv /\ DataType /\ queue \in Seq(Message) /\ queue # <<>>
    BY DEF WorkerPre, StreamInv, DataType, Relay
  <1>1. PICK m : m = Head(queue)
    OBVIOUS
  <1>2. m = queue[1] /\ sequence' \in {sequence, m.seq} /\ Len(queue) > 0 /\ Len(queue) \in Nat
    BY <1>1, RelayFacts
  <1>3. /\ Len(queue') = Len(queue) - 1
        /\ \A i \in 1..Len(queue') : queue'[i] = queue[i + 1]
    <2>1. queue' = Tail(queue)
      BY DEF Relay
    <2> QED BY <1>0, <2>1, TailFacts
  <1>4. UNCHANGED <<job, wpc, held, verdict, frames, wseq>>
    BY DEF Relay, enqueuing, running
  <1>5. ASSUME wpc \in EnqueueSites \ {"refuse", "respond"}
        PROVE  sequence' < wseq /\ \A i \in 1..Len(queue') : queue'[i].seq < wseq
    <2>1. sequence < wseq /\ \A i \in 1..Len(queue) : queue[i].seq < wseq
      BY <1>0, <1>5 DEF HeldInv
    <2>2. 1 \in 1..Len(queue) /\ \A i \in 1..Len(queue') : i + 1 \in 1..Len(queue)
      BY <1>2, <1>3
    <2> QED BY <1>2, <1>3, <2>1, <2>2
  <1> QED BY <1>0, <1>4, <1>5 DEF HeldInv

\* Relaying a batch moves the cut of the stream behind it.
LEMMA RelayFrames ==
  ASSUME WorkerPre, Relay
  PROVE  FramesInv'
PROOF
  <1>0. FramesInv /\ out \in Seq(Message) /\ queue \in Seq(Message) /\ queue # <<>>
    BY DEF WorkerPre, StreamInv, DataType, Relay
  <1>1. PICK d \in 0..samples, e \in 0..samples :
          Chain(out, job, 0, d) /\ Chain(queue, job, d, e) /\ Remaining(e)
    BY <1>0 DEF FramesInv
  <1>2. PICK m : m = Head(queue)
    OBVIOUS
  <1>3. m \in Message /\ out' = Append(out, m) /\ queue' = Tail(queue) /\ d \in Nat /\ e \in Nat
    BY <1>2, RelayFacts, WorkerPreFacts DEF Relay
  <1>4. UNCHANGED <<job, cancel, samples, frames, wpc, error, length, verdict>>
    BY DEF Relay, enqueuing, running
  <1>5. Remaining(e)'
    BY <1>1, <1>4 DEF Remaining
  <1>6. CASE Batch(m, job)
    <2>1. /\ Len(m.frames) > 0 /\ \A k \in 1..Len(m.frames) : m.frames[k] = d + k
          /\ d + Len(m.frames) <= e /\ Chain(queue', job, d + Len(m.frames), e)
      BY <1>0, <1>1, <1>2, <1>3, <1>6, ChainTailBatch
    <2>2. Chain(out', job, 0, d + Len(m.frames))
      BY <1>0, <1>1, <1>3, <1>6, <2>1, ChainAppendBatch
    <2>3. Len(m.frames) \in Nat
      BY <1>3, <2>1, BatchFacts
    <2>4. d + Len(m.frames) \in 0..samples' /\ e \in 0..samples'
      BY <1>3, <1>4, <2>1, <2>3, WorkerPreFacts
    <2> QED BY <1>4, <1>5, <2>1, <2>2, <2>4, FramesNext
  <1>7. CASE ~Batch(m, job)
    <2>1. Chain(queue', job, d, e)
      BY <1>0, <1>1, <1>2, <1>3, <1>7, ChainTailOther
    <2>2. Chain(out', job, 0, d)
      BY <1>0, <1>1, <1>3, <1>7, ChainAppendOther
    <2> QED BY <1>1, <1>4, <1>5, <2>1, <2>2, FramesNext
  <1> QED BY <1>6, <1>7

\* Relaying keeps the stream.
LEMMA RelayStream ==
  ASSUME WorkerPre, Relay
  PROVE  StreamInv'
PROOF
  <1>1. CancelInv'
    <2>1. CancelInv /\ out \in Seq(Message)
      BY DEF WorkerPre, StreamInv, DataType
    <2>2. PICK m : m = Head(queue)
      OBVIOUS
    <2>3. m \in Message /\ out' = Append(out, m)
      BY <2>2, RelayFacts DEF Relay
    <2>4. \A i \in 1..Len(out) : i \in 1..Len(out') /\ out'[i] = out[i]
      BY <2>1, <2>3, AppendFacts
    <2>5. UNCHANGED <<job, cancel, wpc, verdict>>
      BY DEF Relay, enqueuing
    <2> QED BY <2>1, <2>4, <2>5 DEF CancelInv
  <1>2. VerdictInv'
    BY DEF WorkerPre, StreamInv, VerdictInv, Relay, enqueuing
  <1> QED BY <1>1, <1>2, RelaySummary, RelayQueue, RelayHeld, RelayFrames DEF StreamInv
----------------------------------------------------------------------------
(* What one more message does to the properties.                           *)

\* A message about the active run that continues the summary keeps the
\* protocol, and so does the answer to a cancel request.
LEMMA ProtocolAppend ==
  ASSUME DataType, SummaryInv, RunProtocol, NEW m \in Message, out' = Append(out, m), m.run = job,
         \/ m.kind = "cancelling"
         \/ /\ ~terminal
            /\ m.kind \in {"accepted", "refused"} => ~acknowledged
            /\ m.kind \notin {"accepted", "refused"} => acknowledged /\ m.seq > sequence
  PROVE  RunProtocol'
PROOF
  <1>0. out \in Seq(Message) /\ sequence \in Nat /\ m.seq \in Nat
    BY DEF DataType, Message
  <1>1. /\ Len(out') = Len(out) + 1 /\ Len(out) \in Nat /\ out'[Len(out) + 1] = m
        /\ \A i \in 1..Len(out) : out'[i] = out[i]
    BY <1>0, AppendFacts
  <1>2. \A i \in 1..Len(out) : ProtocolAt(out', i)
    BY <1>0, PropertiesAt, EarlierMessages
  <1>3. ProtocolAt(out', Len(out) + 1)
    <2>1. CASE m.kind = "cancelling"
      BY <1>1, <2>1 DEF ProtocolAt, Tells
    <2>2. CASE /\ ~terminal
               /\ m.kind \in {"accepted", "refused"} => ~acknowledged
               /\ m.kind \notin {"accepted", "refused"} => acknowledged /\ m.seq > sequence
      <3>1. \A j \in 1..((Len(out) + 1) - 1) : j \in 1..Len(out) /\ out'[j] = out[j]
        BY <1>1
      <3>2. \A j \in 1..Len(out) : Tells(out[j], job) =>
              acknowledged /\ out[j].seq <= sequence /\ out[j].kind \notin Ends
        BY <2>2 DEF SummaryInv
      <3>3. acknowledged => \E j \in 1..Len(out) : Tells(out[j], job)
        BY DEF SummaryInv
      <3>4. \A j \in 1..((Len(out) + 1) - 1) : Tells(out'[j], job) =>
              out'[j].kind \notin Ends /\ out'[j].seq < m.seq
        <4> SUFFICES ASSUME NEW j \in 1..((Len(out) + 1) - 1), Tells(out'[j], job)
                     PROVE  out'[j].kind \notin Ends /\ out'[j].seq < m.seq
          OBVIOUS
        <4>1. j \in 1..Len(out) /\ out'[j] = out[j] /\ Tells(out[j], job)
          BY <3>1
        <4>2. out[j].seq \in Nat
          BY <1>0, <4>1, MessageNumbers
        <4>3. acknowledged /\ out[j].seq <= sequence /\ out[j].kind \notin Ends
          BY <3>2, <4>1
        <4>4. m.seq > sequence
          BY <2>2, <4>3
        <4> QED BY <1>0, <4>1, <4>2, <4>3, <4>4
      <3>5. (\E j \in 1..((Len(out) + 1) - 1) : Tells(out'[j], job)) => acknowledged
        BY <3>1, <3>2
      <3>6. acknowledged => \E j \in 1..((Len(out) + 1) - 1) : Tells(out'[j], job)
        <4>1. \A j \in 1..Len(out) : j \in 1..((Len(out) + 1) - 1)
          BY <1>1
        <4> QED BY <3>1, <3>3, <4>1
      <3> QED BY <1>1, <2>2, <3>4, <3>5, <3>6 DEF ProtocolAt
    <2> QED BY <2>1, <2>2
  <1>4. \A i \in 1..Len(out') : i \in 1..Len(out) \/ i = Len(out) + 1
    BY <1>1
  <1> QED BY <1>2, <1>3, <1>4, PropertiesAtNext

\* A message that agrees with the verdict on the active run is true, and a
\* cancellation was asked for.
LEMMA TruthAppend ==
  ASSUME DataType, CancelInv, ReportsTruth, NEW m \in Message, out' = Append(out, m), m.run = job,
         verdict' = verdict,
         m.kind \in {"finished", "cancelled"} => verdict[job] = m.kind,
         m.kind = "failed" => verdict[job] \in {"failed", "panicked"},
         m.kind = "refused" => verdict[job] \in {"refused", "panicked"}
  PROVE  ReportsTruth'
PROOF
  <1>0. out \in Seq(Message)
    BY DEF DataType
  <1>1. /\ Len(out') = Len(out) + 1 /\ Len(out) \in Nat /\ out'[Len(out) + 1] = m
        /\ \A i \in 1..Len(out) : out'[i] = out[i]
    BY <1>0, AppendFacts
  <1>2. \A i \in 1..Len(out) : TruthAt(out', i, verdict)
    BY <1>0, PropertiesAt, EarlierMessages
  <1>3. m.kind = "cancelled" =>
          \E j \in 1..((Len(out) + 1) - 1) : out'[j].kind = "cancelling" /\ out'[j].run = job
    <2>1. SUFFICES ASSUME m.kind = "cancelled"
                   PROVE  \E j \in 1..((Len(out) + 1) - 1) : out'[j].kind = "cancelling" /\ out'[j].run = job
      OBVIOUS
    <2>2. PICK j \in 1..Len(out) : out[j].kind = "cancelling" /\ out[j].run = job
      BY <2>1 DEF CancelInv
    <2>3. j \in 1..((Len(out) + 1) - 1) /\ out'[j] = out[j]
      BY <1>1
    <2> QED BY <2>2, <2>3
  <1>4. TruthAt(out', Len(out) + 1, verdict)
    BY <1>1, <1>3 DEF TruthAt
  <1>5. \A i \in 1..Len(out') : i \in 1..Len(out) \/ i = Len(out) + 1
    BY <1>1
  <1> QED BY <1>2, <1>4, <1>5, PropertiesAtNext

\* A finished run whose samples are out up to its length is complete.
LEMMA CompleteAppend ==
  ASSUME DataType, FinishedIsComplete, NEW m \in Message, out' = Append(out, m),
         job' = job, length' = length,
         m.kind = "finished" /\ m.run = job => \E d \in Nat : length <= d /\ Chain(out', job, 0, d)
  PROVE  FinishedIsComplete'
PROOF
  <1>0. out \in Seq(Message) /\ length \in Nat
    BY DEF DataType
  <1>1. /\ Len(out') = Len(out) + 1 /\ Len(out) \in Nat /\ out'[Len(out) + 1] = m
        /\ \A i \in 1..Len(out) : out'[i] = out[i]
        /\ out' \in Seq(Message)
    BY <1>0, AppendFacts
  <1>2. ASSUME NEW i \in 1..Len(out), out'[i].kind = "finished", out'[i].run = job
        PROVE  CompleteAt(out', i, job, length)
    <2>1. CompleteAt(out, i, job, length)
      BY <1>1, <1>2, PropertiesAt
    <2> QED BY <1>0, <2>1, EarlierMessages
  <1>3. ASSUME m.kind = "finished", m.run = job
        PROVE  CompleteAt(out', Len(out) + 1, job, length)
    <2>1. PICK d \in Nat : length <= d /\ Chain(out', job, 0, d)
      BY <1>3
    <2>2. CompleteAt(out', Len(out'), job, length)
      BY <1>0, <1>1, <2>1, ChainComplete
    <2> QED BY <1>1, <2>2
  <1>4. \A i \in 1..Len(out') : i \in 1..Len(out) \/ i = Len(out) + 1
    BY <1>1
  <1> QED BY <1>1, <1>2, <1>3, <1>4, PropertiesAtNext

\* Where a message can come from, and whose end it can tell.
LEMMA OutAppend ==
  ASSUME DataType, OutInv, NEW m \in Message, out' = Append(out, m), m.run = job, job \in 1..runs,
         m.kind \in Ends => wpc = "exited", UNCHANGED <<job, runs, wpc>>
  PROVE  OutInv'
PROOF
  <1>0. out \in Seq(Message)
    BY DEF DataType
  <1>1. /\ Len(out') = Len(out) + 1 /\ Len(out) \in Nat /\ out'[Len(out) + 1] = m
        /\ \A i \in 1..Len(out) : out'[i] = out[i]
    BY <1>0, AppendFacts
  <1>2. \A i \in 1..Len(out') : (i \in 1..Len(out) /\ out'[i] = out[i]) \/ out'[i] = m
    BY <1>1
  <1> QED BY <1>2 DEF OutInv

\* The four, as one: what holds of everything the client was told.
Told == RunProtocol /\ ReportsTruth /\ FinishedIsComplete /\ OutInv

\* A step that tells the client nothing and ends no run that was told ended.
LEMMA ToldSame ==
  ASSUME Told, out' = out,
         \A i \in 1..Len(out) : out[i].kind \in Ends => verdict'[out[i].run] = verdict[out[i].run],
         \A i \in 1..Len(out) : out[i].run \in 1..runs',
         \A i \in 1..Len(out) : out[i].run = job' =>
           job' = job /\ length' = length /\ (out[i].kind \in Ends => wpc' = "exited")
  PROVE  Told'
PROOF
  <1>1. RunProtocol'
    BY PropertiesAt, PropertiesAtNext DEF Told
  <1>2. ReportsTruth'
    <2>1. ASSUME NEW i \in 1..Len(out)
          PROVE  TruthAt(out, i, verdict')
      <3>1. TruthAt(out, i, verdict)
        BY PropertiesAt DEF Told
      <3> QED BY <3>1 DEF TruthAt
    <2> QED BY <2>1, PropertiesAtNext
  <1>3. FinishedIsComplete'
    <2>1. ASSUME NEW i \in 1..Len(out), out[i].kind = "finished", out[i].run = job'
          PROVE  CompleteAt(out, i, job', length')
      BY <2>1, PropertiesAt DEF Told
    <2> QED BY <2>1, PropertiesAtNext
  <1>4. OutInv'
    BY DEF OutInv
  <1> QED BY <1>1, <1>2, <1>3, <1>4 DEF Told

\* Relaying tells the truth, in order, and nothing is missing at the end.
LEMMA RelayTold ==
  ASSUME WorkerPre, Told, Relay, UNCHANGED counted
  PROVE  Told'
PROOF
  <1>0. SummaryInv /\ CancelInv /\ DataType /\ RunProtocol /\ ReportsTruth /\ FinishedIsComplete /\ OutInv
    BY DEF WorkerPre, StreamInv, Told
  <1>1. PICK m : m = Head(queue)
    OBVIOUS
  <1>2. /\ m \in Message /\ Tells(m, job) /\ ~terminal
        /\ m.kind \in {"accepted", "refused"} => ~acknowledged
        /\ m.kind \notin {"accepted", "refused"} => acknowledged /\ m.seq > sequence
        /\ m.kind \in Ends => Len(queue) = 1 /\ wpc = "exited" /\ m.kind = verdict[job]
        /\ m = queue[1]
    BY <1>1, RelayFacts
  <1>3. out' = Append(out, m) /\ UNCHANGED <<job, runs, wpc, length, verdict>>
    BY <1>1 DEF Relay, enqueuing, running, counted
  <1>4. m.run = job
    BY <1>2 DEF Tells
  <1>5. RunProtocol'
    BY <1>0, <1>2, <1>3, <1>4, ProtocolAppend
  <1>6. ReportsTruth'
    <2>1. /\ m.kind \in {"finished", "cancelled"} => verdict[job] = m.kind
          /\ m.kind = "failed" => verdict[job] \in {"failed", "panicked"}
          /\ m.kind = "refused" => verdict[job] \in {"refused", "panicked"}
      BY <1>2
    <2> QED BY <1>0, <1>2, <1>3, <1>4, <2>1, TruthAppend
  <1>7. FinishedIsComplete'
    <2>1. ASSUME m.kind = "finished"
          PROVE  \E d \in Nat : length <= d /\ Chain(out', job, 0, d)
      <3>1. PICK d \in 0..samples, e \in 0..samples :
              Chain(out, job, 0, d) /\ Chain(queue, job, d, e) /\ Remaining(e)
        BY DEF WorkerPre, StreamInv, FramesInv
      <3>2. d \in Nat /\ e \in Nat /\ length \in Nat /\ out \in Seq(Message) /\ queue \in Seq(Message)
        BY <1>0, <3>1, WorkerPreFacts DEF DataType
      <3>3. ~Batch(m, job) /\ \A i \in 1..Len(queue) : ~Batch(queue[i], job)
        <4>1. ~Batch(m, job)
          BY <2>1 DEF Batch
        <4>2. Len(queue) = 1 /\ queue[1] = m
          BY <1>2, <2>1
        <4>3. \A i \in 1..Len(queue) : i = 1
          BY <4>2
        <4> QED BY <4>1, <4>2, <4>3
      <3>4. d = e
        BY <3>1, <3>2, <3>3, ChainNothing
      <3>5. e = samples /\ samples >= length
        BY <1>2, <2>1, <3>1 DEF Remaining
      <3>6. Chain(out', job, 0, d)
        BY <1>2, <1>3, <3>1, <3>2, <3>3, ChainAppendOther
      <3> QED BY <3>2, <3>4, <3>5, <3>6, WorkerPreFacts
    <2> QED BY <1>0, <1>2, <1>3, <2>1, CompleteAppend
  <1>8. job \in 1..runs
    BY WorkerPreFacts DEF WorkerPre, PhaseInv, Active
  <1>9. OutInv'
    BY <1>0, <1>2, <1>3, <1>4, <1>8, OutAppend
  <1> QED BY <1>5, <1>6, <1>7, <1>9 DEF Told
----------------------------------------------------------------------------
(* The connection's other steps.                                           *)

\* The failure made up for a dead worker is the last thing told of its run.
LEMMA UnexpectedTold ==
  ASSUME WorkerPre, Told, cpc = "last", queue = <<>>, out' = Append(out, Unexpected),
         UNCHANGED <<jobVars, enqueuing, running, counted, verdict>>
  PROVE  Told'
PROOF
  <1>0. /\ SummaryInv /\ CancelInv /\ QueueInv /\ ControlType /\ DataType /\ PhaseInv /\ Active
        /\ RunProtocol /\ ReportsTruth /\ FinishedIsComplete /\ OutInv
    BY DEF WorkerPre, StreamInv, Told
  <1>1. PICK m : m = Unexpected
    OBVIOUS
  <1>2. /\ m \in Message /\ m.run = job
        /\ acknowledged => m.kind = "failed" /\ m.seq = sequence + 1
        /\ ~acknowledged => m.kind = "refused"
    BY <1>0, <1>1, WorkerPreFacts, UnexpectedFacts
  <1>3. wpc = "exited" /\ ~terminal
    BY <1>0 DEF PhaseInv
  <1>4. verdict[job] = "panicked"
    BY <1>0, <1>3 DEF QueueInv
  <1>5. out' = Append(out, m) /\ UNCHANGED <<job, runs, wpc, length, verdict>>
    BY <1>1 DEF jobVars, enqueuing, running, counted
  <1>6. RunProtocol'
    <2>1. /\ m.kind \in {"accepted", "refused"} => ~acknowledged
          /\ m.kind \notin {"accepted", "refused"} => acknowledged /\ m.seq > sequence
      BY <1>2, WorkerPreFacts
    <2> QED BY <1>0, <1>2, <1>3, <1>5, <2>1, ProtocolAppend
  <1>7. ReportsTruth'
    <2>1. /\ m.kind \in {"finished", "cancelled"} => verdict[job] = m.kind
          /\ m.kind = "failed" => verdict[job] \in {"failed", "panicked"}
          /\ m.kind = "refused" => verdict[job] \in {"refused", "panicked"}
      BY <1>2, <1>4
    <2> QED BY <1>0, <1>2, <1>5, <2>1, TruthAppend
  <1>8. FinishedIsComplete'
    <2>1. m.kind # "finished"
      BY <1>2
    <2> QED BY <1>0, <1>2, <1>5, <2>1, CompleteAppend
  <1>9. job \in 1..runs
    BY <1>0, WorkerPreFacts DEF PhaseInv, Active
  <1>10. OutInv'
    BY <1>0, <1>2, <1>3, <1>5, <1>9, OutAppend
  <1> QED BY <1>6, <1>7, <1>8, <1>10 DEF Told

\* The answer to a cancel request goes between the run's events.
LEMMA CancelTold ==
  ASSUME WorkerPre, Told, NEW m \in Message, m.kind = "cancelling", m.run = job,
         out' = Append(out, m), UNCHANGED <<job, runs, wpc, length, verdict>>
  PROVE  Told'
PROOF
  <1>0. /\ SummaryInv /\ CancelInv /\ DataType /\ PhaseInv /\ Active
        /\ RunProtocol /\ ReportsTruth /\ FinishedIsComplete /\ OutInv
    BY DEF WorkerPre, StreamInv, Told
  <1>1. RunProtocol'
    BY <1>0, ProtocolAppend
  <1>2. ReportsTruth'
    BY <1>0, TruthAppend
  <1>3. FinishedIsComplete'
    BY <1>0, CompleteAppend
  <1>4. job \in 1..runs
    BY <1>0, WorkerPreFacts DEF PhaseInv, Active
  <1>5. OutInv'
    BY <1>0, <1>4, OutAppend
  <1> QED BY <1>1, <1>2, <1>3, <1>5 DEF Told

\* The stream of a run whose cancel request was answered.
LEMMA CancelStream ==
  ASSUME WorkerPre, NEW m \in Message, m.kind = "cancelling", m.run = job, out' = Append(out, m),
         cancel' = TRUE,
         UNCHANGED <<job, queue, receiver, terminal, acknowledged, sequence, enqueuing, running, verdict>>
  PROVE  StreamInv'
PROOF
  <1>0. SummaryInv /\ QueueInv /\ HeldInv /\ CancelInv /\ VerdictInv /\ FramesInv /\ DataType
    BY DEF WorkerPre, StreamInv
  <1>1. out \in Seq(Message)
    BY <1>0 DEF DataType
  <1>2. /\ Len(out') = Len(out) + 1 /\ Len(out) \in Nat /\ out'[Len(out) + 1] = m
        /\ \A i \in 1..Len(out) : out'[i] = out[i]
    BY <1>1, AppendFacts
  <1>3. UNCHANGED <<wpc, held, wseq, samples, frames, error, length>>
    BY DEF enqueuing, running
  <1>4. SummaryInv'
    <2>1. \A i \in 1..Len(out') : Tells(out'[i], job) => i \in 1..Len(out) /\ out'[i] = out[i]
      BY <1>2 DEF Tells
    <2>2. \A i \in 1..Len(out) : i \in 1..Len(out') /\ out'[i] = out[i]
      BY <1>2
    <2> QED BY <1>0, <2>1, <2>2 DEF SummaryInv
  <1>5. QueueInv'
    BY <1>0, <1>3 DEF QueueInv
  <1>6. HeldInv'
    BY <1>0, <1>3 DEF HeldInv
  <1>7. CancelInv'
    <2>1. Len(out) + 1 \in 1..Len(out') /\ out'[Len(out) + 1].kind = "cancelling" /\ out'[Len(out) + 1].run = job
      BY <1>2
    <2> QED BY <2>1 DEF CancelInv
  <1>8. VerdictInv'
    BY <1>0, <1>3 DEF VerdictInv
  <1>9. FramesInv'
    <2>1. PICK d \in 0..samples, e \in 0..samples :
            Chain(out, job, 0, d) /\ Chain(queue, job, d, e) /\ Remaining(e)
      BY <1>0 DEF FramesInv
    <2>2. ~Batch(m, job) /\ d \in Nat
      BY <2>1, WorkerPreFacts DEF Batch
    <2>3. Chain(out', job', 0, d) /\ Chain(queue', job', d, e)
      BY <1>1, <2>1, <2>2, ChainAppendOther
    <2>4. Remaining(e)'
      BY <1>3, <2>1 DEF Remaining
    <2> QED BY <1>3, <2>1, <2>3, <2>4, FramesNext
  <1> QED BY <1>4, <1>5, <1>6, <1>7, <1>8, <1>9 DEF StreamInv

\* A new run starts with nothing told, queued or offered.
LEMMA StartStream ==
  ASSUME ControlType, DataType, OutInv, ReadRun, verdict[job'] = "none"
  PROVE  StreamInv'
PROOF
  <1>1. /\ job' = runs + 1 /\ cancel' = FALSE /\ queue' = <<>> /\ receiver' = TRUE
        /\ terminal' = FALSE /\ acknowledged' = FALSE /\ sequence' = 0
        /\ wpc' = "prepare" /\ wseq' = 0 /\ samples' = 0 /\ frames' = <<>> /\ error' = FALSE
        /\ UNCHANGED <<out, verdict>>
    BY DEF ReadRun, Start
  <1>2. \A i \in 1..Len(out) : out[i].run # job'
    BY <1>1, SimClientAssumption DEF OutInv, ControlType
  <1>3. Len(queue') = 0
    BY <1>1
  <1>4. SummaryInv'
    BY <1>1, <1>2 DEF SummaryInv, Tells
  <1>5. QueueInv'
    BY <1>1, <1>3 DEF QueueInv, Answering
  <1>6. HeldInv'
    BY <1>1 DEF HeldInv, EnqueueSites
  <1>7. CancelInv'
    BY <1>1 DEF CancelInv
  <1>8. VerdictInv'
    BY <1>1 DEF VerdictInv
  <1>9. FramesInv'
    <2>1. Chain(out', job', 0, 0)
      BY <1>1, <1>2, ChainFresh DEF DataType
    <2>2. Chain(queue', job', 0, 0)
      BY <1>1, ChainEmpty
    <2>3. Remaining(0)'
      BY <1>1 DEF Remaining, Answering
    <2> QED BY <1>1, <2>1, <2>2, <2>3, FramesNext
  <1> QED BY <1>4, <1>5, <1>6, <1>7, <1>8, <1>9 DEF StreamInv

\* Verdicts are given on the active run only.
LEMMA VerdictChange ==
  ASSUME [Next]_vars
  PROVE  /\ UNCHANGED verdict \/ (wpc \notin {"none", "exited"} /\ \E v : verdict' = [verdict EXCEPT ![job] = v])
         /\ UNCHANGED runs \/ (ReadRun /\ runs' = runs + 1)
PROOF
  <1> USE DEF counted, jobVars, enqueuing, running, connection
  <1>1. CASE EnqueuePoll \/ EnqueueTry
    BY <1>1 DEF EnqueuePoll, EnqueueTry
  <1>2. CASE Panic
    BY <1>2 DEF Panic
  <1>3. CASE Prepare
    BY <1>3 DEF Prepare
  <1>4. CASE Abort
    BY <1>4 DEF Abort
  <1>5. CASE Name
    BY <1>5 DEF Name
  <1>6. CASE Begin \/ Loop \/ Advance \/ Trail
    BY <1>6, Zenon DEF Begin, Loop, Advance, Trail
  <1>7. CASE Connection
    BY <1>7 DEF Connection, Drain, Drained, Judge, Last, DropCancel, DropReceiver, Join, ReadNothing
  <1>8. CASE ReadRun
    BY <1>8 DEF ReadRun
  <1>9. CASE ReadCancel \/ ReadClose
    BY <1>9 DEF ReadCancel, ReadClose
  <1>10. CASE UNCHANGED vars
    BY <1>10 DEF vars
  <1> QED BY <1>1, <1>2, <1>3, <1>4, <1>5, <1>6, <1>7, <1>8, <1>9, <1>10 DEF Next, Worker, Client, Left

\* Runs that have not started keep having no verdict.
LEMMA UnstartedStep ==
  ASSUME ControlType, DataType, PhaseInv, UnstartedInv, [Next]_vars
  PROVE  UnstartedInv'
PROOF
  <1>0. runs \in Nat /\ job \in Nat
    BY SimClientAssumption DEF ControlType
  <1>1. runs' \in Nat /\ runs' >= runs
    BY <1>0, VerdictChange
  <1>2. ASSUME NEW r \in 1..MaxRuns, r > runs'
        PROVE  verdict'[r] = verdict[r]
    <2>1. CASE UNCHANGED verdict
      BY <2>1
    <2>2. CASE wpc \notin {"none", "exited"} /\ \E v : verdict' = [verdict EXCEPT ![job] = v]
      <3>1. job = runs
        BY <2>2 DEF PhaseInv
      <3>2. r # job
        BY <1>0, <1>1, <1>2, <3>1
      <3> QED BY <2>2, <3>2 DEF DataType
    <2> QED BY <2>1, <2>2, VerdictChange
  <1>3. \A r \in 1..MaxRuns : r > runs' => r > runs
    BY <1>0, <1>1
  <1> QED BY <1>2, <1>3 DEF UnstartedInv

\* A step of the worker tells the client nothing itself; the verdict it gives
\* is on a run whose end was not told.
LEMMA WorkerTold ==
  ASSUME ControlType, DataType, PhaseInv, Told, Worker, [Next]_vars
  PROVE  Told' /\ UNCHANGED <<job, cpc, out>>
PROOF
  <1> USE DEF counted, jobVars, enqueuing, running, connection
  <1>1. wpc \notin {"none", "exited"} /\ UNCHANGED <<job, cpc, runs, out, length>>
    <2>1. CASE EnqueuePoll \/ EnqueueTry
      BY <2>1 DEF EnqueuePoll, EnqueueTry, EnqueueSites
    <2>2. CASE Panic \/ Prepare \/ Abort \/ Name
      BY <2>2 DEF Panic, Prepare, Abort, Name
    <2>3. CASE Begin \/ Loop \/ Advance \/ Trail
      BY <2>3, Zenon DEF Begin, Loop, Advance, Trail
    <2> QED BY <2>1, <2>2, <2>3 DEF Worker
  <1>2. \A i \in 1..Len(out) : out[i].run \in 1..runs /\ ~(out[i].run = job /\ out[i].kind \in Ends)
    BY <1>1 DEF Told, OutInv
  <1>3. \A i \in 1..Len(out) : out[i].kind \in Ends => verdict'[out[i].run] = verdict[out[i].run]
    <2> SUFFICES ASSUME NEW i \in 1..Len(out), out[i].kind \in Ends
                 PROVE  verdict'[out[i].run] = verdict[out[i].run]
      OBVIOUS
    <2>1. out[i].run # job /\ out[i].run \in 1..MaxRuns
      BY <1>2, SimClientAssumption DEF ControlType
    <2> QED BY <2>1, VerdictChange DEF DataType
  <1>4. Told'
    BY <1>1, <1>2, <1>3, ToldSame
  <1> QED BY <1>1, <1>4

\* A step of the worker keeps the stream of the active run.
LEMMA WorkerStream ==
  ASSUME WorkerPre, Worker
  PROVE  StreamInv'
  BY PanicStream, PrepareStream, BeginStream, AbortStream, LoopStream, AdvanceStream, TrailStream,
     NameStream, EnqueuePollStream, EnqueueTryStream DEF Worker

\* Nothing the stream is made of changes.
LEMMA StillStream ==
  ASSUME StreamInv, UNCHANGED <<jobVars, enqueuing, running, out, verdict>>
  PROVE  StreamInv'
PROOF
  <1> USE DEF jobVars, enqueuing, running
  <1>1. SummaryInv' /\ CancelInv' /\ VerdictInv'
    BY DEF StreamInv, SummaryInv, CancelInv, VerdictInv
  <1>2. QueueInv'
    BY DEF StreamInv, QueueInv
  <1>3. HeldInv'
    BY DEF StreamInv, HeldInv
  <1>4. FramesInv'
    <2>1. PICK d \in 0..samples, e \in 0..samples :
            Chain(out, job, 0, d) /\ Chain(queue, job, d, e) /\ Remaining(e)
      BY DEF StreamInv, FramesInv
    <2>2. Remaining(e)'
      BY <2>1 DEF Remaining
    <2> QED BY <2>1, <2>2, FramesNext
  <1> QED BY <1>1, <1>2, <1>3, <1>4 DEF StreamInv

\* A step of the connection that sends nothing about a run, keeps the job and
\* goes nowhere it could not relay from.
LEMMA QuietTold ==
  ASSUME Told, UNCHANGED <<job, runs, wpc, length, out, verdict>>
  PROVE  Told'
PROOF
  <1>1. \A i \in 1..Len(out) : out[i].run \in 1..runs /\ (out[i].run = job /\ out[i].kind \in Ends => wpc = "exited")
    BY DEF Told, OutInv
  <1> QED BY <1>1, ToldSame

\* What a step has to keep, once the types, the phases and the verdicts of
\* runs to come are settled.
Core == ControlType /\ DataType /\ PhaseInv /\ UnstartedInv /\ Told /\ (Active => StreamInv)

\* The drain loop relays one message, or the socket fails.
LEMMA DrainStep ==
  ASSUME Core, Drain
  PROVE  Told' /\ (Active' => StreamInv')
PROOF
  <1>1. /\ cpc = "drain" /\ queue # <<>> /\ Observe(Head(queue)) /\ queue' = Tail(queue)
        /\ UNCHANGED <<job, cancel, receiver, enqueuing, running, counted, verdict>>
        /\ \/ out' = Append(out, Head(queue))
           \/ cpc' = "dropCancel" /\ out' = out
    BY DEF Drain, Send
  <1>2. WorkerPre /\ Told
    BY <1>1 DEF Core, WorkerPre, Active, Relaying, PhaseInv
  <1>3. CASE out' = Append(out, Head(queue))
    <2>1. Relay /\ UNCHANGED counted
      BY <1>1, <1>3 DEF Relay
    <2> QED BY <1>2, <2>1, RelayTold, RelayStream
  <1>4. CASE cpc' = "dropCancel" /\ out' = out
    <2>1. ~Active'
      BY <1>4 DEF Active, Relaying
    <2> QED BY <1>1, <1>2, <1>4, <2>1, QuietTold DEF enqueuing, running, counted
  <1> QED BY <1>1, <1>3, <1>4

\* A dead worker: a message it left is relayed, or the failure is made up.
LEMMA LastStep ==
  ASSUME Core, Last
  PROVE  Told' /\ (Active' => StreamInv')
PROOF
  <1>1. cpc = "last" /\ UNCHANGED <<enqueuing, running, counted, verdict>>
    BY DEF Last
  <1>2. WorkerPre /\ Told
    BY <1>1 DEF Core, WorkerPre, Active, Relaying, PhaseInv
  <1>3. CASE queue # <<>>
    <2>1. /\ Observe(Head(queue)) /\ queue' = Tail(queue) /\ UNCHANGED <<job, cancel, receiver>>
          /\ \/ out' = Append(out, Head(queue))
             \/ cpc' = "dropCancel" /\ out' = out
      BY <1>3 DEF Last, Send
    <2>2. CASE out' = Append(out, Head(queue))
      <3>1. Relay /\ UNCHANGED counted
        BY <1>1, <1>3, <2>1, <2>2 DEF Relay
      <3> QED BY <1>2, <3>1, RelayTold, RelayStream
    <2>3. CASE cpc' = "dropCancel" /\ out' = out
      <3>1. ~Active'
        BY <2>3 DEF Active, Relaying
      <3> QED BY <1>1, <1>2, <2>1, <2>3, <3>1, QuietTold DEF enqueuing, running, counted
    <2> QED BY <2>1, <2>2, <2>3
  <1>4. CASE queue = <<>>
    <2>1. /\ UNCHANGED jobVars /\ cpc' = "dropCancel"
          /\ out' = Append(out, Unexpected) \/ out' = out
      BY <1>4 DEF Last, Send
    <2>2. ~Active'
      BY <2>1 DEF Active, Relaying
    <2>3. CASE out' = Append(out, Unexpected)
      BY <1>1, <1>2, <1>4, <2>1, <2>2, <2>3, UnexpectedTold
    <2>4. CASE out' = out
      BY <1>1, <1>2, <2>1, <2>2, <2>4, QuietTold DEF jobVars, enqueuing, running, counted
    <2> QED BY <2>1, <2>3, <2>4
  <1> QED BY <1>3, <1>4

\* A cancel request: the flag is stored and the reply sent, or not.
LEMMA ReadCancelStep ==
  ASSUME Core, ReadCancel
  PROVE  Told' /\ (Active' => StreamInv')
PROOF
  <1>1. /\ cpc = "read" /\ job # 0 /\ cancel' = TRUE
        /\ Send(Msg("cancelling", job, 0, <<>>), Again)
        /\ UNCHANGED <<job, queue, receiver, terminal, acknowledged, sequence, enqueuing, running, runs, verdict>>
    BY DEF ReadCancel
  <1>2. WorkerPre /\ Told
    BY <1>1 DEF Core, WorkerPre, Active, Relaying
  <1>3. PICK m : m = Msg("cancelling", job, 0, <<>>)
    OBVIOUS
  <1>4. m \in Message /\ m.kind = "cancelling" /\ m.run = job
    BY <1>2, <1>3, WorkerPreFacts, Kinds DEF Msg, Message
  <1>5. out' = Append(out, m) \/ (cpc' = "dropCancel" /\ out' = out)
    BY <1>1, <1>3 DEF Send
  <1>6. UNCHANGED <<job, runs, wpc, length, verdict>>
    BY <1>1 DEF enqueuing, running
  <1>7. CASE out' = Append(out, m)
    <2>1. Told'
      BY <1>2, <1>4, <1>6, <1>7, CancelTold
    <2>2. StreamInv'
      BY <1>1, <1>2, <1>4, <1>7, CancelStream
    <2> QED BY <2>1, <2>2
  <1>8. CASE cpc' = "dropCancel" /\ out' = out
    <2>1. ~Active'
      BY <1>8 DEF Active, Relaying
    <2> QED BY <1>2, <1>6, <1>8, <2>1, QuietTold
  <1> QED BY <1>5, <1>7, <1>8

\* A run request: the run is new to the client.
LEMMA ReadRunStep ==
  ASSUME Core, ReadRun
  PROVE  Told' /\ (Active' => StreamInv')
PROOF
  <1>0. ControlType /\ DataType /\ UnstartedInv /\ Told /\ OutInv /\ runs \in Nat /\ MaxRuns \in Nat
    BY SimClientAssumption DEF Core, Told, ControlType
  <1>1. job' = runs + 1 /\ runs' = runs + 1 /\ runs < MaxRuns /\ UNCHANGED <<out, verdict>>
    BY DEF ReadRun, Start
  <1>2. job' \in 1..MaxRuns /\ job' > runs
    BY <1>0, <1>1
  <1>3. verdict[job'] = "none"
    BY <1>0, <1>2 DEF UnstartedInv
  <1>4. \A i \in 1..Len(out) : out[i].run \in 1..runs' /\ out[i].run # job'
    BY <1>0, <1>1 DEF OutInv
  <1>5. Told'
    BY <1>0, <1>1, <1>4, ToldSame
  <1> QED BY <1>0, <1>3, <1>5, StartStream

\* The steps of the connection that tell the client nothing of a run.
LEMMA QuietStep ==
  ASSUME Core, Drained \/ Judge \/ ReadNothing \/ DropCancel \/ DropReceiver \/ Join \/ ReadClose
  PROVE  Told' /\ (Active' => StreamInv')
PROOF
  <1> USE DEF jobVars, enqueuing, running, counted
  <1>1. CASE Drained \/ Judge \/ ReadNothing
    <2>1. /\ UNCHANGED <<jobVars, enqueuing, running, counted, out, verdict>>
          /\ cpc \in {"drain", "judge", "read"} /\ job' = job
      BY <1>1 DEF Drained, Judge, ReadNothing
    <2>2. Active' => Active
      BY <2>1 DEF Active, Relaying
    <2>3. Told'
      BY <2>1, QuietTold DEF Core
    <2>4. ASSUME Active' PROVE StreamInv'
      <3>1. StreamInv
        BY <2>2, <2>4 DEF Core
      <3> QED BY <2>1, <3>1, StillStream
    <2> QED BY <2>3, <2>4
  <1>2. CASE DropCancel \/ DropReceiver \/ ReadClose
    <2>1. UNCHANGED <<job, runs, wpc, length, out, verdict>>
      BY <1>2 DEF DropCancel, DropReceiver, ReadClose
    <2>2. ~Active'
      BY <1>2 DEF DropCancel, DropReceiver, ReadClose, Active, Relaying
    <2> QED BY <2>1, <2>2, QuietTold DEF Core
  <1>3. CASE Join
    <2>1. job' = 0 /\ UNCHANGED <<runs, wpc, length, out, verdict>>
      BY <1>3 DEF Join
    <2>2. ~Active'
      BY <2>1 DEF Active
    <2>3. \A i \in 1..Len(out) : out[i].run \in 1..runs /\ out[i].run # 0
      BY SimClientAssumption DEF Core, Told, OutInv, ControlType
    <2>4. Told'
      BY <2>1, <2>3, ToldSame DEF Core
    <2> QED BY <2>2, <2>4
  <1> QED BY <1>1, <1>2, <1>3

\* Every step keeps what was told true and the stream of the active run whole.
LEMMA CoreStep ==
  ASSUME Core, [Next]_vars
  PROVE  Core'
PROOF
  <1>1. ControlType' /\ DataType' /\ PhaseInv' /\ UnstartedInv'
    BY ControlTypeStep, DataTypeStep, PhaseStep, UnstartedStep DEF Core
  <1>2. Told' /\ (Active' => StreamInv')
    <2>1. CASE Worker
      <3>1. Told' /\ UNCHANGED <<job, cpc, out>>
        BY <2>1, WorkerTold DEF Core
      <3>2. Active' => Active
        BY <3>1 DEF Active, Relaying
      <3>3. Active => WorkerPre
        BY DEF Core, WorkerPre
      <3> QED BY <2>1, <3>1, <3>2, <3>3, WorkerStream
    <2>2. CASE Connection
      BY <2>2, DrainStep, LastStep, QuietStep DEF Connection
    <2>3. CASE Client
      BY <2>3, ReadRunStep, ReadCancelStep, QuietStep DEF Client
    <2>4. CASE UNCHANGED vars
      <3>1. /\ UNCHANGED <<jobVars, enqueuing, running, out, verdict>>
            /\ UNCHANGED <<job, runs, wpc, length, out, verdict, cpc>>
        BY <2>4 DEF vars, jobVars, enqueuing, running, counted, connection
      <3>2. Active' => Active
        BY <3>1 DEF Active, Relaying
      <3>3. Told'
        BY <3>1, QuietTold DEF Core
      <3> QED BY <3>1, <3>2, <3>3, StillStream DEF Core
    <2> QED BY <2>1, <2>2, <2>3, <2>4 DEF Next, Left
  <1> QED BY <1>1, <1>2 DEF Core

\* The connection starts with no job and nothing told.
LEMMA CoreInit == Init => Core
PROOF
  <1> SUFFICES ASSUME Init PROVE Core
    OBVIOUS
  <1>1. ControlType
    <2>1. /\ job = 0 /\ cancel = FALSE /\ receiver = FALSE /\ terminal = FALSE /\ acknowledged = FALSE
          /\ cpc = "read" /\ drained = 0 /\ leaving = FALSE /\ wpc = "none" /\ polled = FALSE /\ error = FALSE
          /\ runs = 0 /\ cancels = 0
      BY DEF Init
    <2>2. 0 \in 0..MaxRuns /\ 0 \in 0..DrainLimit /\ 0 \in 0..MaxCancels
      BY QueueAssumption, SimClientAssumption
    <2>3. cpc \in ConnectionPcs /\ wpc \in WorkerPcs
      BY <2>1 DEF ConnectionPcs, WorkerPcs
    <2> QED BY <2>1, <2>2, <2>3 DEF ControlType
  <1>2. DataType
    <2>1. held \in Message
      <3>1. held = Msg("accepted", 0, 0, <<>>)
        BY DEF Init
      <3> QED BY <3>1, Kinds DEF Msg, Message
    <2>2. queue \in Seq(Message) /\ Len(queue) <= QueueCapacity /\ out \in Seq(Message)
      BY QueueAssumption DEF Init
    <2>3. verdict \in [1..MaxRuns -> Terminals \cup {"none", "refused", "panicked"}]
      BY DEF Init
    <2>4. /\ sequence \in Nat /\ wseq \in Nat /\ samples \in Nat /\ frames \in Seq(Nat)
          /\ length \in Nat /\ width \in Nat
      BY DEF Init
    <2> QED BY <2>1, <2>2, <2>3, <2>4 DEF DataType
  <1>3. PhaseInv
    BY DEF Init, PhaseInv
  <1>4. UnstartedInv
    BY DEF Init, UnstartedInv
  <1>5. out = <<>> /\ Len(out) = 0
    BY DEF Init
  <1>6. Told
    BY <1>5, PropertiesAt DEF Told, OutInv
  <1>7. ~Active
    BY DEF Init, Active
  <1> QED BY <1>1, <1>2, <1>3, <1>4, <1>6, <1>7 DEF Core

\* The invariant, in the two ways it is put together.
LEMMA CoreIsSimInv == Core <=> SimInv
  BY TypeParts DEF Core, SimInv, Told, SimulationConsistent

\* The invariant of one simulation connection: every cancel, full channel,
\* panic and disconnect, in any interleaving of the two threads, leaves what
\* the client was told, the channel and the event being sent one stream.
THEOREM SimulationInvariant == Spec => []SimInv
PROOF
  <1>1. Init => SimInv
    BY CoreInit, CoreIsSimInv
  <1>2. SimInv /\ [Next]_vars => SimInv'
    <2>1. Core /\ [Next]_vars => Core'
      BY CoreStep
    <2>2. Core' <=> SimInv'
      BY CoreIsSimInv, PTL
    <2> QED BY <2>1, <2>2, CoreIsSimInv
  <1> QED BY <1>1, <1>2, PTL DEF Spec

\* The types, and the run protocol: answered first, numbered upward, nothing
\* after the terminal event, also when Job::observe's summary is all the
\* connection has to make one up.
THEOREM SimulationIsConsistent == Spec => []SimulationConsistent
PROOF
  <1>1. SimInv => SimulationConsistent
    BY DEF SimInv
  <1> QED BY <1>1, SimulationInvariant, PTL

\* The client is told how the worker really ended the run, and a run is
\* reported cancelled only after its own cancel request was answered.
THEOREM SimulationReportsTruth == Spec => []ReportsTruth
PROOF
  <1>1. SimInv => ReportsTruth
    BY DEF SimInv
  <1> QED BY <1>1, SimulationInvariant, PTL

\* A run reported finished has delivered all its samples once, in order.
THEOREM FinishedRunIsComplete == Spec => []FinishedIsComplete
PROOF
  <1>1. SimInv => FinishedIsComplete
    BY DEF SimInv
  <1> QED BY <1>1, SimulationInvariant, PTL
=============================================================================
