---------------------------- MODULE GraphicsFeed ----------------------------
(***************************************************************************)
(* How a Figure travels from the kernel to the window that shows it.       *)
(*                                                                         *)
(* The interpreter and the renderer's requests change one GraphicsSession  *)
(* (graphics-model session.rs), every transaction leaving a delta in       *)
(* pending_deltas.  An execution publishes what it drained to the hub's    *)
(* journal (graphics_runtime.rs); the graphics connection relays the       *)
(* journal and answers requests (graphics_websocket.rs); the web client    *)
(* keeps a mirror of each Figure (graphics-client.ts).  Discovery travels  *)
(* on the kernel socket, everything else on the graphics socket.           *)
(*                                                                         *)
(* The content of a Figure is its revision.  One client, attached to one   *)
(* session; who may attach is the subject of GraphicsRegistry.             *)
(***************************************************************************)
EXTENDS Naturals, Sequences, FiniteSets, SequencesExt

CONSTANTS
  Figures,
  KernelOps,        \* what executions do: a subset of {"create", "mutate", "close"}
  UserOps,          \* what the user does in a window: a subset of {"limits", "close"}
  MaxRevision,      \* bound on the revision of a Figure
  MaxTransactions,  \* bound on the transactions of the kernel
  MaxUser,          \* bound on the requests of the user
  MaxFailures,      \* bound on the deltas that cannot be converted
  MaxDrops          \* bound on the connections that are lost

ASSUME FeedFigures == IsFiniteSet(Figures)
ASSUME FeedOps == KernelOps \subseteq {"create", "mutate", "close"} /\ UserOps \subseteq {"limits", "close"}
ASSUME FeedBounds == {MaxRevision, MaxTransactions, MaxUser, MaxFailures, MaxDrops} \subseteq Nat

VARIABLES
  revision, open, pending,         \* GraphicsSession: figure_revisions, live Figures, pending_deltas
  xpc, batch, notices,             \* the kernel worker: deltas and discovery notices of an execution
  events,                          \* HubState.events; an event's sequence is its place
  attached, cursor, polled,        \* the graphics connection: attachment, event_cursor, place in the loop
  requests, wire, announced,       \* the two directions of the graphics socket, the kernel socket
  phase, shown, records,           \* the client: #phase, snapshot revision (0: null), #figures
  snapshotPending, resyncPending, closeRetry, discoveries,
  transactions, asked, failures, drops,      \* history: what the bounds count
  joined,                          \* history: the event_cursor the connection began with
  fault                            \* history: the connection failed one of its own checks

session == <<revision, open, pending>>
kernel  == <<xpc, batch, notices>>
server  == <<attached, cursor, polled, joined>>
mirror  == <<phase, shown, records, snapshotPending, resyncPending, closeRetry, discoveries>>
bounds  == <<transactions, asked, failures, drops>>
vars == <<session, kernel, events, server, requests, wire, announced, mirror, bounds, fault>>

\* A delta takes a Figure from base to base + 1; closing deletes it.
Delta == [fig : Figures, base : Nat, closing : BOOLEAN]
EventOf(d, kind) == [kind |-> kind, fig |-> d.fig, base |-> d.base, closing |-> d.closing]
Event == [kind : {"delta", "closed"}, fig : Figures, base : Nat, closing : BOOLEAN]

RequestTypes == {"initialize", "getSnapshot", "resyncFigure", "closeFigure", "setAxesLimits"}
Request == [type : RequestTypes, fig : Figures, expected : Nat, retry : BOOLEAN]
Req(type, f, n, retry) == [type |-> type, fig |-> f, expected |-> n, retry |-> retry]

\* Messages to the client: an event, a view of all Figures, or a response.
Response(kind, r, n) == [kind |-> kind, request |-> r, rev |-> n]
View(figs) == [kind |-> "view", figs |-> figs]
ResponseKinds == {"snapshot", "failed", "conflict", "committed", "closing"}
Responses == [kind : ResponseKinds, request : Request, rev : Nat]
Views == [kind : {"view"}, figs : SUBSET Figures]
Message == Event \cup Responses \cup Views

Committed(d) == [fig |-> d[1], base |-> d[2], closing |-> d[3]]

\* The places kept of a sequence, in their order: the set has one element.
InOrder(kept) ==
  {h \in [1..Cardinality(kept) -> kept] :
     \A i, j \in 1..Cardinality(kept) : i < j => h[i] < h[j]}

Init ==
  /\ revision = [f \in Figures |-> 0] /\ open = [f \in Figures |-> FALSE] /\ pending = <<>>
  /\ xpc = "idle" /\ batch = <<>> /\ notices = {}
  /\ events = <<>>
  /\ attached = FALSE /\ cursor = 0 /\ polled = FALSE /\ joined = 0
  /\ requests = <<>> /\ wire = <<>> /\ announced = {}
  /\ phase = "disconnected" /\ shown = [f \in Figures |-> 0] /\ records = {}
  /\ snapshotPending = {} /\ resyncPending = {} /\ closeRetry = {} /\ discoveries = {}
  /\ transactions = 0 /\ asked = 0 /\ failures = 0 /\ drops = 0
  /\ fault = FALSE
----------------------------------------------------------------------------
(* The kernel worker: built-ins, each one transaction under the session's  *)
(* lock, then the publication of what the execution left.                  *)

Transaction(op, f, closing) ==
  /\ op \in KernelOps /\ xpc \in {"idle", "run"}
  /\ transactions < MaxTransactions /\ revision[f] < MaxRevision
  /\ revision' = [revision EXCEPT ![f] = @ + 1]
  /\ open' = [open EXCEPT ![f] = ~closing]
  /\ pending' = Append(pending, Committed(<<f, revision[f], closing>>))
  /\ xpc' = "run"
  /\ transactions' = transactions + 1
  /\ UNCHANGED <<batch, events, server, requests, wire, announced, mirror, asked, failures,
                 drops, fault>>

\* The first transaction of a Figure carries the notice of its discovery.
Create(f) ==
  /\ revision[f] = 0
  /\ Transaction("create", f, FALSE)
  /\ notices' = notices \cup {f}
Mutate(f) == open[f] /\ Transaction("mutate", f, FALSE) /\ UNCHANGED notices
KernelClose(f) == open[f] /\ Transaction("close", f, TRUE) /\ UNCHANGED notices

TakeDeltasCopies ==
  /\ xpc = "run"
  /\ xpc' = "taken" /\ batch' = pending
  /\ UNCHANGED <<session, notices, events, server, requests, wire, announced, mirror, bounds,
                 fault>>

\* take_graphics_deltas, before publish takes the session's lock again.
TakeDeltas ==
  /\ xpc = "run"
  /\ xpc' = "taken" /\ batch' = pending /\ pending' = <<>>
  /\ UNCHANGED <<revision, open, notices, events, server, requests, wire, announced, mirror,
                 bounds, fault>>

\* The deltas of a batch that are not of a Figure created in it.
Kept(deltas) ==
  LET created == {d.fig : d \in {x \in Range(deltas) : x.base = 0}}
  IN  {i \in 1..Len(deltas) : deltas[i].fig \notin created}

PublishedAsDeltas(deltas) ==
  {[i \in DOMAIN h |-> EventOf(deltas[h[i]], "delta")] : h \in InOrder(Kept(deltas))}

\* publish: nothing of a Figure created in the batch, and figureClosed for
\* every delta of a Figure that no longer exists.
Published(deltas) ==
  {[i \in DOMAIN h |-> EventOf(deltas[h[i]], IF open[deltas[h[i]].fig] THEN "delta" ELSE "closed")] :
     h \in InOrder(Kept(deltas))}

Publish ==
  /\ xpc = "taken"
  /\ \E new \in Published(batch) : events' = events \o new
  /\ announced' = announced \cup notices
  /\ xpc' = "idle" /\ batch' = <<>> /\ notices' = {}
  /\ UNCHANGED <<session, server, requests, wire, mirror, bounds, fault>>

\* A delta cannot be converted: what precedes it is in the journal, the rest
\* and the discoveries of the execution are lost.
PublishFails ==
  /\ xpc = "taken" /\ failures < MaxFailures
  /\ \E new \in Published(batch) : \E n \in 0..Len(new) - 1 :
       events' = events \o SubSeq(new, 1, n)
  /\ failures' = failures + 1
  /\ xpc' = "idle" /\ batch' = <<>> /\ notices' = {}
  /\ UNCHANGED <<session, server, requests, wire, announced, mirror, transactions, asked, drops,
                 fault>>
----------------------------------------------------------------------------
(* The graphics connection.                                                *)

\* The journal after the cursor, in sequence order.
After(journal, n) == SubSeq(journal, n + 1, Len(journal))

\* poll_hub_events at the head of a turn of the loop.
Poll ==
  /\ attached /\ ~polled
  /\ wire' = wire \o After(events, cursor)
  /\ cursor' = Len(events)
  /\ polled' = TRUE
  /\ UNCHANGED <<session, kernel, events, attached, joined, requests, announced, mirror, bounds,
                 fault>>

\* The read timed out.
Idle ==
  /\ attached /\ polled /\ cursor < Len(events)
  /\ polled' = FALSE
  /\ UNCHANGED <<session, kernel, events, attached, cursor, joined, requests, wire, announced,
                 mirror, bounds, fault>>

\* The connection reads the next request; before initialize there is no poll.
Handling(type) ==
  /\ requests # <<>> /\ Head(requests).type = type
  /\ attached = (type # "initialize")
  /\ attached => polled
  /\ requests' = Tail(requests)
Reply(msgs) == wire' = wire \o msgs

HandleInitialize ==
  /\ Handling("initialize")
  /\ Reply(<<View({f \in Figures : open[f]})>>)
  /\ attached' = TRUE /\ cursor' = Len(events) /\ polled' = FALSE /\ joined' = Len(events)
  /\ UNCHANGED <<session, kernel, events, announced, mirror, bounds, fault>>

\* getSnapshot and resyncFigure are the same call of the hub.
HandleSnapshot ==
  LET r == Head(requests) IN
  /\ Handling("getSnapshot") \/ Handling("resyncFigure")
  /\ Reply(<<Response(IF open[r.fig] THEN "snapshot" ELSE "failed", r, revision[r.fig])>>)
  /\ polled' = FALSE
  /\ UNCHANGED <<session, kernel, events, attached, cursor, joined, announced, mirror, bounds,
                 fault>>

\* A mutation names an open Figure at its present revision, and one of limits
\* an Axes that has them.
Current(r) == open[r.fig] /\ revision[r.fig] = r.expected
Refusal(r) == IF open[r.fig] /\ ~Current(r) THEN "conflict" ELSE "failed"

RefuseMutation ==
  LET r == Head(requests) IN
  /\ (Handling("closeFigure") /\ ~Current(r)) \/ Handling("setAxesLimits")
  /\ Reply(<<Response(Refusal(r), r, 0)>>)
  /\ polled' = FALSE
  /\ UNCHANGED <<session, kernel, events, attached, cursor, joined, announced, mirror, bounds,
                 fault>>

\* The transaction of the request, and all deltas that are pending with it:
\* those of an execution that is running as well.
Commit(r, closing) ==
  /\ revision' = [revision EXCEPT ![r.fig] = @ + 1]
  /\ open' = [open EXCEPT ![r.fig] = ~closing]
  /\ pending' = <<>>
Drained(r, closing) == Append(pending, Committed(<<r.fig, revision[r.fig], closing>>))

\* What follows the creation of its Figure enters the journal.
Later(deltas) == {i \in 1..Len(deltas) : deltas[i].base > 0}
LimitsEvents(r) ==
  LET deltas == Drained(r, FALSE)
  IN  {[i \in DOMAIN h |-> EventOf(deltas[h[i]], "delta")] : h \in InOrder(Later(deltas))}

\* The own delta of a close becomes figureClosed.
CloseEvents(r) ==
  LET own == Committed(<<r.fig, revision[r.fig], TRUE>>)
      deltas == Drained(r, TRUE)
      kept == {i \in 1..Len(deltas) : deltas[i] = own \/ deltas[i].base > 0}
  IN  {[i \in DOMAIN h |-> EventOf(deltas[h[i]], IF deltas[h[i]] = own THEN "closed" ELSE "delta")] :
         h \in InOrder(kept)}

LimitsJournalFirst ==
  LET r == Head(requests) IN
  /\ Handling("setAxesLimits") /\ Current(r)
  /\ Commit(r, FALSE)
  /\ \E new \in LimitsEvents(r) : events' = events \o new
  /\ Reply(Append(After(events', cursor), Response("committed", r, revision[r.fig] + 1)))
  /\ cursor' = Len(events') /\ polled' = FALSE
  /\ UNCHANGED <<kernel, attached, joined, announced, mirror, bounds, fault>>

\* set_axes_limits and set_axes_camera: the committed delta is in the set
\* once, from the expected base, and moves the journal past the cursor.
\* The response precedes the journal.
HandleLimits ==
  LET r == Head(requests)
      deltas == Drained(r, FALSE)
      mine == {i \in 1..Len(deltas) : deltas[i].fig = r.fig /\ deltas[i].base = revision[r.fig]}
  IN
  /\ Handling("setAxesLimits") /\ Current(r)
  /\ Commit(r, FALSE)
  /\ \E new \in LimitsEvents(r) : events' = events \o new
  /\ Reply(<<Response("committed", r, revision[r.fig] + 1)>> \o After(events', cursor))
  /\ cursor' = Len(events') /\ polled' = FALSE
  /\ fault' = (fault \/ (\A i \in mine : deltas[i].base # r.expected)
                     \/ (\E i, j \in mine : i # j)
                     \/ Len(events') <= cursor)
  /\ UNCHANGED <<kernel, attached, joined, announced, mirror, bounds>>

\* close_figure; the connection announces the closed Figure itself and moves
\* its cursor to the end of the journal.
HandleClose ==
  LET r == Head(requests) IN
  /\ Handling("closeFigure") /\ Current(r)
  /\ Commit(r, TRUE)
  /\ \E new \in CloseEvents(r) : events' = events \o new
  /\ Reply(<<Response("closing", r, revision[r.fig] + 1),
             EventOf(Committed(<<r.fig, revision[r.fig], TRUE>>), "closed")>>)
  /\ cursor' = Len(events') /\ polled' = FALSE
  /\ UNCHANGED <<kernel, attached, joined, announced, mirror, bounds, fault>>

\* A drained delta cannot be converted: the transaction stays, what precedes
\* the delta is in the journal, the rest is lost and the request fails.  The
\* own delta of a close, the last one, is not converted.
MutationFails ==
  LET r == Head(requests) IN
  /\ failures < MaxFailures
  /\ \/ /\ Handling("setAxesLimits") /\ Current(r) /\ Commit(r, FALSE)
        /\ \E new \in LimitsEvents(r) : \E n \in 0..Len(new) - 1 :
             events' = events \o SubSeq(new, 1, n)
     \/ /\ Handling("closeFigure") /\ Current(r) /\ Commit(r, TRUE)
        /\ \E new \in CloseEvents(r) : \E n \in 0..Len(new) - 2 :
             events' = events \o SubSeq(new, 1, n)
  /\ Reply(<<Response("failed", r, 0)>>)
  /\ polled' = FALSE /\ failures' = failures + 1
  /\ UNCHANGED <<kernel, attached, cursor, joined, announced, mirror, transactions, asked, drops,
                 fault>>
----------------------------------------------------------------------------
(* The web client.                                                         *)

Send(msgs) == requests' = requests \o msgs
SnapshotRequests(figs) ==
  LET s == SetToSeq(figs) IN [i \in 1..Len(s) |-> Req("getSnapshot", s[i], 0, FALSE)]

\* #requestSnapshot for some Figures: records exist from here on; a request
\* is sent when attached and none is under way.
RequestSnapshots(figs, attachedNow) ==
  LET ask == IF attachedNow THEN figs \ snapshotPending ELSE {} IN
  /\ records' = records \cup figs
  /\ snapshotPending' = snapshotPending \cup ask
  /\ Send(SnapshotRequests(ask))

\* Everything of a lost connection is forgotten, on both sides.
Sever ==
  /\ requests' = <<>> /\ wire' = <<>> /\ attached' = FALSE /\ polled' = FALSE /\ cursor' = 0
  /\ joined' = 0
  /\ phase' = "disconnected"
  /\ snapshotPending' = {} /\ resyncPending' = {} /\ closeRetry' = {}
  /\ UNCHANGED <<shown, records, discoveries>>

Drop ==
  /\ phase # "disconnected" /\ drops < MaxDrops
  /\ drops' = drops + 1
  /\ Sever
  /\ UNCHANGED <<session, kernel, events, announced, transactions, asked, failures, fault>>

\* The client is made for a discovery, and connects again when it lost the channel.
Connect ==
  /\ phase = "disconnected" /\ discoveries # {}
  /\ phase' = "initializing"
  /\ \E f \in discoveries : Send(<<Req("initialize", f, 0, FALSE)>>)
  /\ UNCHANGED <<session, kernel, events, server, wire, announced, shown, records,
                 snapshotPending, resyncPending, closeRetry, discoveries, bounds, fault>>

\* setDiscoveries, from a display event of the kernel socket.
Discover(f) ==
  /\ f \in announced
  /\ announced' = announced \ {f}
  /\ discoveries' = discoveries \cup {f}
  /\ RequestSnapshots({f}, phase = "attached")
  /\ UNCHANGED <<session, kernel, events, server, wire, phase, shown, resyncPending, closeRetry,
                 bounds, fault>>

Receiving(kind) == wire # <<>> /\ Head(wire).kind = kind
Received == wire' = Tail(wire)
Elsewhere == <<session, kernel, events, server, announced, bounds, fault>>

\* #acceptInitialize
AcceptInitialize ==
  /\ Receiving("view") /\ Received
  /\ phase' = "attached"
  /\ RequestSnapshots(Head(wire).figs \cup discoveries, TRUE)
  /\ UNCHANGED <<Elsewhere, shown, resyncPending, closeRetry, discoveries>>

\* #acceptSnapshot; a close that met a conflict is tried once more.
AcceptSnapshot ==
  LET m == Head(wire)
      f == m.request.fig IN
  /\ Receiving("snapshot") /\ Received
  /\ records' = records \cup {f} /\ shown' = [shown EXCEPT ![f] = m.rev]
  /\ snapshotPending' = snapshotPending \ {f} /\ resyncPending' = resyncPending \ {f}
  /\ closeRetry' = closeRetry \ {f}
  /\ Send(IF f \in closeRetry THEN <<Req("closeFigure", f, m.rev, TRUE)>> ELSE <<>>)
  /\ UNCHANGED <<Elsewhere, phase, discoveries>>

\* A gap: one resyncFigure at a time.
Resync(f) ==
  /\ resyncPending' = resyncPending \cup {f}
  /\ Send(IF f \in resyncPending THEN <<>> ELSE <<Req("resyncFigure", f, shown[f], FALSE)>>)

\* A refused closeFigure at a stale revision is resynchronized and tried
\* again; every other failure takes the client out of the attached phase.
AcceptFailure ==
  LET m == Head(wire)
      r == m.request IN
  /\ Receiving("failed") \/ Receiving("conflict")
  /\ Received
  /\ IF r.type = "closeFigure" /\ m.kind = "conflict" /\ ~r.retry
          /\ r.fig \in records /\ shown[r.fig] > 0
       THEN closeRetry' = closeRetry \cup {r.fig} /\ Resync(r.fig) /\ UNCHANGED phase
       ELSE /\ phase' = "error"
            /\ closeRetry' = IF r.type \in {"closeFigure", "resyncFigure"}
                               THEN closeRetry \ {r.fig} ELSE closeRetry
            /\ resyncPending' = IF r.type = "resyncFigure"
                                  THEN resyncPending \ {r.fig} ELSE resyncPending
            /\ Send(<<>>)
  /\ UNCHANGED <<Elsewhere, shown, records, snapshotPending, discoveries>>

\* Acknowledgements do not move the mirror.
AcceptAcknowledgement ==
  /\ Receiving("committed") \/ Receiving("closing")
  /\ Received
  /\ UNCHANGED <<Elsewhere, requests, mirror>>

\* #acceptDelta: an unknown Figure is fetched, a gap is resynchronized.  A
\* delta that deletes the root, or in another way does not apply to what is
\* shown, is a protocol fault: the client closes the channel.
ContinuesUnchecked(f, d) == TRUE
Continues(f, d) == shown[f] = d.base
AcceptDelta ==
  LET d == Head(wire)
      f == d.fig
      known == f \in records /\ shown[f] > 0 IN
  /\ Receiving("delta")
  /\ \/ /\ ~known /\ Received
        /\ RequestSnapshots({f}, phase = "attached")
        /\ UNCHANGED <<Elsewhere, phase, shown, resyncPending, closeRetry, discoveries>>
     \/ /\ known /\ ~Continues(f, d) /\ Received
        /\ Resync(f)
        /\ UNCHANGED <<Elsewhere, phase, shown, records, snapshotPending, closeRetry, discoveries>>
     \/ /\ known /\ Continues(f, d) /\ ~d.closing /\ Received
        /\ shown' = [shown EXCEPT ![f] = d.base + 1]
        /\ UNCHANGED <<Elsewhere, requests, phase, records, snapshotPending, resyncPending,
                       closeRetry, discoveries>>
     \/ /\ known /\ Continues(f, d)
        /\ Sever
        /\ UNCHANGED <<session, kernel, events, announced, bounds, fault>>

IgnoreClosed ==
  /\ Receiving("closed") /\ Received
  /\ UNCHANGED <<Elsewhere, requests, mirror>>

AcceptClosed ==
  LET f == Head(wire).fig IN
  /\ Receiving("closed") /\ Received
  /\ records' = records \ {f} /\ shown' = [shown EXCEPT ![f] = 0]
  /\ snapshotPending' = snapshotPending \ {f} /\ resyncPending' = resyncPending \ {f}
  /\ closeRetry' = closeRetry \ {f}
  /\ UNCHANGED <<Elsewhere, requests, phase, discoveries>>

\* closeFigure and setAxesLimits of a window.
UserRequest(op, type, f) ==
  /\ op \in UserOps /\ asked < MaxUser
  /\ phase = "attached" /\ f \in records /\ shown[f] > 0
  /\ revision[f] < MaxRevision
  /\ Send(<<Req(type, f, shown[f], FALSE)>>)
  /\ asked' = asked + 1
  /\ UNCHANGED <<session, kernel, events, server, wire, announced, mirror, transactions,
                 failures, drops, fault>>
----------------------------------------------------------------------------
KernelNext ==
  \/ \E f \in Figures : Create(f) \/ Mutate(f) \/ KernelClose(f)
  \/ TakeDeltas \/ Publish \/ PublishFails
ServerNext ==
  \/ Poll \/ Idle \/ HandleInitialize \/ HandleSnapshot \/ RefuseMutation \/ HandleLimits
  \/ HandleClose \/ MutationFails
ClientNext ==
  \/ AcceptInitialize \/ AcceptSnapshot \/ AcceptFailure \/ AcceptAcknowledgement \/ AcceptDelta
  \/ AcceptClosed \/ Connect \/ Drop \/ \E f \in Figures : Discover(f)
UserNext ==
  \E f \in Figures :
    UserRequest("limits", "setAxesLimits", f) \/ UserRequest("close", "closeFigure", f)

Next == KernelNext \/ ServerNext \/ ClientNext \/ UserNext
Spec == Init /\ [][Next]_vars

\* An execution that ran publishes, the serve loop turns, the browser
\* delivers what arrived and reconnects.
Delivery ==
  \/ Connect \/ AcceptInitialize \/ AcceptSnapshot \/ AcceptFailure \/ AcceptAcknowledgement
  \/ AcceptDelta \/ AcceptClosed
Fairness ==
  /\ WF_vars(TakeDeltas) /\ WF_vars(Publish)
  /\ WF_vars(ServerNext) /\ WF_vars(Delivery)
  /\ \A f \in Figures : WF_vars(Discover(f))
FairSpec == Spec /\ Fairness
----------------------------------------------------------------------------
(* Properties                                                              *)

FeedTypeOK ==
  /\ revision \in [Figures -> Nat] /\ open \in [Figures -> BOOLEAN] /\ pending \in Seq(Delta)
  /\ xpc \in {"idle", "run", "taken"} /\ batch \in Seq(Delta) /\ notices \subseteq Figures
  /\ events \in Seq(Event)
  /\ attached \in BOOLEAN /\ cursor \in 0..Len(events) /\ polled \in BOOLEAN
  /\ requests \in Seq(Request)
  /\ wire \in Seq(Message)
  /\ announced \subseteq Figures
  /\ phase \in {"disconnected", "initializing", "attached", "error"}
  /\ shown \in [Figures -> Nat] /\ joined \in Nat
  /\ {records, snapshotPending, resyncPending, closeRetry, discoveries} \subseteq SUBSET Figures
  /\ {transactions, asked, failures, drops} \subseteq Nat /\ fault \in BOOLEAN

\* A window never goes back to an older revision of its Figure, although a
\* delta may be published after a later one, a snapshot cross the deltas it
\* contains and a lost connection start over.
MirrorNeverGoesBack ==
  [][\A f \in Figures : shown'[f] < shown[f] => f \notin records']_vars

\* Executions and renderer requests drain one queue of deltas: no revision of
\* a Figure is put into the journal twice.
JournaledOnce ==
  \A i, j \in 1..Len(events) :
    events[i].fig = events[j].fig /\ events[i].base = events[j].base => i = j

\* The checks of the hub and the connection on a committed mutation (one
\* delta from the expected base, a journal beyond the cursor) never fail,
\* although the drained deltas may hold those of a running execution.
CommittedIsValid == ~fault

\* The three, as one invariant.
FeedConsistent == FeedTypeOK /\ JournaledOnce /\ CommittedIsValid

\* The response to setAxesLimits reaches the client before its delta.
ResponseBeforeDelta ==
  \A j \in 1..Len(wire) : wire[j].kind = "committed" =>
    \A i \in 1..j - 1 :
      ~(wire[i].kind = "delta" /\ wire[i].fig = wire[j].request.fig
                               /\ wire[i].base = wire[j].request.expected)

\* Nothing is under way between the kernel and the window.
Quiet ==
  /\ xpc = "idle" /\ pending = <<>> /\ announced = {}
  /\ requests = <<>> /\ wire = <<>> /\ cursor = Len(events)
  /\ attached /\ phase \in {"attached", "error"}

Held(f) == f \in records /\ shown[f] > 0
InSync(f) == open[f] /\ shown[f] = revision[f]

\* The present revision of the Figure went through the journal.
Journaled(f) == \E i \in 1..Len(events) : events[i].fig = f /\ events[i].base + 1 = revision[f]

\* The Figure was closed, and that published, before the present connection
\* joined the journal: nothing on that connection tells of it.
EndedBefore(f) ==
  ~open[f] /\ \E i \in 1..joined : events[i].fig = f /\ events[i].base + 1 = revision[f]

\* What is shown, and had its last change published, is as it is.
Mirrored(f) == Held(f) /\ Journaled(f) => InSync(f) \/ EndedBefore(f)

\* When all is quiet a window shows no outdated Figure whose last change was
\* published, and no closed one but those that closed while the client was
\* away: deltas that are late, repeated by a snapshot, rejected by the client,
\* lost with the connection or missing because an earlier publication failed
\* are overcome.
PublishedIsMirrored == Quiet => \A f \in Figures : Mirrored(f)

\* The same, in the end, when the kernel comes to rest.
EventuallyMirrored == <>[](\A f \in Figures : Mirrored(f))

=============================================================================
