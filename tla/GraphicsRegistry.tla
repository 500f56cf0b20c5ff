-------------------------- MODULE GraphicsRegistry --------------------------
(***************************************************************************)
(* The graphics session registry of openmat-server (graphics.rs), the      *)
(* buffer leases of the hub behind each entry (graphics_runtime.rs) and    *)
(* the life of a graphics connection (graphics_websocket.rs).              *)
(*                                                                         *)
(* A kernel connection registers at most one entry, so an entry is named   *)
(* by its kernel connection.  Tokens are fresh random values: the token of *)
(* an entry is the entry with its token generation.  Every step is one     *)
(* critical section: the map lock, an entry's lock or a hub's lock.        *)
(***************************************************************************)
EXTENDS Naturals, FiniteSets

CONSTANTS
  Sessions,        \* session identifiers
  Kernels,         \* kernel connections, and the entries they register
  Renderers,       \* graphics connections of the clients
  Buffers,         \* graphics data resources of a session
  None,            \* no entry
  MaxGeneration,   \* bound on token rotations
  MaxOpened        \* bound on the connections a client opens in a row

ASSUME NoneAssumption == None \notin Kernels
ASSUME RegistryBounds == MaxGeneration \in Nat \ {0} /\ MaxOpened \in Nat

VARIABLES
  sessions,                       \* the map of the registry
  kpc, name,                      \* a kernel connection and its session identifier
  alive, generation, active, nextClient,     \* EntryState
  scene, born,                    \* resources the Figures use, resources ever created
  refs, leases, retained,         \* HubState.buffers
  known,                          \* tokens announced to clients
  cpc, entry, presented,          \* a graphics connection and its initialize request
  client, tokenGeneration, leased,           \* its GraphicsAttachment
  sending, newly,                 \* the getBuffer transfer in progress
  opened, stale                   \* history: connections opened, requests served while not live

lifecycle  == <<sessions, kpc, name>>
entryState == <<alive, generation, active, nextClient>>
model      == <<scene, born>>
hub        == <<refs, leases, retained>>
attachment == <<entry, presented, client, tokenGeneration>>
transfer   == <<sending, newly>>
history    == <<opened, stale>>
vars == <<lifecycle, entryState, model, hub, known, cpc, attachment, leased, transfer, history>>

Token == Kernels \X (1..MaxGeneration)
TokenOf(k) == <<k, generation[k]>>

KernelPhases   == {"new", "registered", "closing", "gone", "refused"}
RendererPhases == {"new", "found", "init", "poll", "read", "sending", "drop", "closed"}

\* The connection owns a GraphicsAttachment.
Attached(c) == cpc[c] \in {"init", "poll", "read", "sending", "drop"}

Init ==
  /\ sessions = [s \in Sessions |-> None]
  /\ kpc = [k \in Kernels |-> "new"] /\ name \in [Kernels -> Sessions]
  /\ alive = [k \in Kernels |-> FALSE] /\ generation = [k \in Kernels |-> 1]
  /\ active = [k \in Kernels |-> 0] /\ nextClient = [k \in Kernels |-> 1]
  /\ scene = [k \in Kernels |-> {}] /\ born = [k \in Kernels |-> {}]
  /\ refs = [k \in Kernels |-> {}] /\ retained = [k \in Kernels |-> {}]
  /\ leases = [k \in Kernels |-> [b \in Buffers |-> 0]]
  /\ known = {}
  /\ cpc = [c \in Renderers |-> "closed"]
  /\ entry = [c \in Renderers |-> None] /\ presented \in [Renderers -> {<<None, 0>>}]
  /\ client = [c \in Renderers |-> 0] /\ tokenGeneration = [c \in Renderers |-> 0]
  /\ leased = [c \in Renderers |-> {}]
  /\ sending = [c \in Renderers |-> {}] /\ newly = [c \in Renderers |-> FALSE]
  /\ opened = [c \in Renderers |-> 0] /\ stale = [c \in Renderers |-> 0]
----------------------------------------------------------------------------
(* The kernel side: register_session, discovery, rotate_token and          *)
(* unregister_session, and what an execution does to the session's data.   *)

RegisterOverwrites(k) ==
  /\ kpc[k] = "new"
  /\ sessions' = [sessions EXCEPT ![name[k]] = k]
  /\ kpc' = [kpc EXCEPT ![k] = "registered"]
  /\ alive' = [alive EXCEPT ![k] = TRUE]
  /\ UNCHANGED <<name, generation, active, nextClient, model, hub, known, cpc, attachment,
                 leased, transfer, history>>

\* register_session: a session identifier in the map is refused.
Register(k) ==
  /\ kpc[k] = "new"
  /\ IF sessions[name[k]] = None
       THEN /\ sessions' = [sessions EXCEPT ![name[k]] = k]
            /\ kpc' = [kpc EXCEPT ![k] = "registered"]
            /\ alive' = [alive EXCEPT ![k] = TRUE]
       ELSE /\ kpc' = [kpc EXCEPT ![k] = "refused"]
            /\ UNCHANGED <<sessions, alive>>
  /\ UNCHANGED <<name, generation, active, nextClient, model, hub, known, cpc, attachment,
                 leased, transfer, history>>

\* discovery: the token travels to the client in a display event.
Discovery(k) ==
  /\ kpc[k] \in {"registered", "closing"} /\ alive[k]
  /\ known' = known \cup {TokenOf(k)}
  /\ UNCHANGED <<lifecycle, entryState, model, hub, cpc, attachment, leased, transfer, history>>

RotateToken(k) ==
  /\ kpc[k] = "registered" /\ alive[k]
  /\ generation[k] < MaxGeneration
  /\ generation' = [generation EXCEPT ![k] = @ + 1]
  /\ UNCHANGED <<lifecycle, alive, active, nextClient, model, hub, known, cpc, attachment,
                 leased, transfer, history>>

\* unregister_session, under the entry's lock: the session is no longer alive.
MarkClosed(k) ==
  /\ kpc[k] = "registered"
  /\ alive' = [alive EXCEPT ![k] = FALSE]
  /\ kpc' = [kpc EXCEPT ![k] = "closing"]
  /\ UNCHANGED <<sessions, name, generation, active, nextClient, model, hub, known, cpc,
                 attachment, leased, transfer, history>>

\* unregister_session, under the map's lock: this very entry is removed.
RemoveEntry(k) ==
  /\ kpc[k] = "closing"
  /\ sessions' = IF sessions[name[k]] = k THEN [sessions EXCEPT ![name[k]] = None] ELSE sessions
  /\ kpc' = [kpc EXCEPT ![k] = "gone"]
  /\ UNCHANGED <<name, entryState, model, hub, known, cpc, attachment, leased, transfer, history>>

\* A resource identifier is used once: what no Figure uses is collected.
Reference(k, b) ==
  /\ kpc[k] = "registered" /\ b \notin born[k]
  /\ scene' = [scene EXCEPT ![k] = @ \cup {b}]
  /\ born' = [born EXCEPT ![k] = @ \cup {b}]
  /\ UNCHANGED <<lifecycle, entryState, hub, known, cpc, attachment, leased, transfer, history>>

Unreference(k, b) ==
  /\ kpc[k] = "registered" /\ b \in scene[k]
  /\ scene' = [scene EXCEPT ![k] = @ \ {b}]
  /\ UNCHANGED <<lifecycle, entryState, born, hub, known, cpc, attachment, leased, transfer,
                 history>>

SynchronizeDropsLeased(k) ==
  /\ refs' = [refs EXCEPT ![k] = scene[k]]
  /\ retained' = [retained EXCEPT ![k] = scene[k]]
  /\ UNCHANGED leases

\* synchronize_buffers: a buffer stays while a Figure uses it or a client leases it.
SynchronizeBuffers(k) ==
  /\ refs' = [refs EXCEPT ![k] = scene[k]]
  /\ retained' = [retained EXCEPT ![k] =
                    {b \in @ \cup scene[k] : b \in scene[k] \/ leases[k][b] > 0}]
  /\ UNCHANGED leases

Publish(k) ==
  /\ kpc[k] \in {"registered", "closing"}
  /\ SynchronizeBuffers(k)
  /\ UNCHANGED <<lifecycle, entryState, model, known, cpc, attachment, leased, transfer, history>>
----------------------------------------------------------------------------
(* A graphics connection: attach, the serve loop and Drop.                 *)

Live(c) ==
  LET k == entry[c] IN
    /\ alive[k]
    /\ generation[k] = tokenGeneration[c]
    /\ active[k] = client[c]

Goto(c, phase) == cpc' = [cpc EXCEPT ![c] = phase]

\* The connection is over; nothing of its attachment is left.
Forget(c) ==
  /\ Goto(c, "closed")
  /\ entry' = [entry EXCEPT ![c] = None] /\ presented' = [presented EXCEPT ![c] = <<None, 0>>]
  /\ client' = [client EXCEPT ![c] = 0] /\ tokenGeneration' = [tokenGeneration EXCEPT ![c] = 0]
  /\ stale' = [stale EXCEPT ![c] = 0] /\ UNCHANGED opened

Open(c) ==
  /\ cpc[c] = "closed" /\ opened[c] < MaxOpened
  /\ opened' = [opened EXCEPT ![c] = @ + 1]
  /\ Goto(c, "new")
  /\ UNCHANGED <<lifecycle, entryState, model, hub, known, attachment, leased, transfer, stale>>

\* attach, under the map's read lock; an unknown session is unauthorized.
Lookup(c) ==
  /\ cpc[c] = "new"
  /\ \E s \in Sessions, t \in known :
       IF sessions[s] = None
         THEN Forget(c)
         ELSE /\ entry' = [entry EXCEPT ![c] = sessions[s]]
              /\ presented' = [presented EXCEPT ![c] = t]
              /\ Goto(c, "found")
              /\ UNCHANGED <<client, tokenGeneration, history>>
  /\ UNCHANGED <<lifecycle, entryState, model, hub, known, leased, transfer>>

AdmissibleInUse(c) ==
  LET k == entry[c] IN alive[k] /\ presented[c] = TokenOf(k)

\* attach, under the entry's lock: closed, unauthorized, in use or attached.
Admissible(c) ==
  LET k == entry[c] IN alive[k] /\ presented[c] = TokenOf(k) /\ active[k] = 0

Admit(c) ==
  LET k == entry[c] IN
  /\ cpc[c] = "found"
  /\ IF Admissible(c)
       THEN /\ client' = [client EXCEPT ![c] = nextClient[k]]
            /\ nextClient' = [nextClient EXCEPT ![k] = @ + 1]
            /\ active' = [active EXCEPT ![k] = nextClient[k]]
            /\ tokenGeneration' = [tokenGeneration EXCEPT ![c] = generation[k]]
            /\ Goto(c, "init")
            /\ UNCHANGED <<entry, presented, history>>
       ELSE Forget(c) /\ UNCHANGED <<nextClient, active>>
  /\ UNCHANGED <<lifecycle, alive, generation, model, hub, known, leased, transfer>>

\* The rest of initialize: the hub's view is negotiated and sent, or the
\* handler returns and drops the attachment.
Initialize(c) ==
  /\ cpc[c] = "init"
  /\ SynchronizeBuffers(entry[c])
  /\ Goto(c, "poll") \/ Goto(c, "drop")
  /\ UNCHANGED <<lifecycle, entryState, model, known, attachment, leased, transfer, history>>

PollNothing(c) ==
  /\ cpc[c] = "poll"
  /\ Goto(c, "read")
  /\ UNCHANGED <<lifecycle, entryState, model, hub, known, attachment, leased, transfer, history>>

\* poll_hub_events at the head of every turn of the loop.
Poll(c) ==
  /\ cpc[c] = "poll"
  /\ Goto(c, IF Live(c) THEN "read" ELSE "drop")
  /\ UNCHANGED <<lifecycle, entryState, model, hub, known, attachment, leased, transfer, history>>

\* The read timed out: another turn.
Idle(c) ==
  /\ cpc[c] = "read"
  /\ Goto(c, "poll")
  /\ UNCHANGED <<lifecycle, entryState, model, hub, known, attachment, leased, transfer, history>>

\* Shutdown, a close frame, a protocol violation or a lost socket.
Disconnect(c) ==
  /\ cpc[c] = "read"
  /\ Goto(c, "drop")
  /\ UNCHANGED <<lifecycle, entryState, model, hub, known, attachment, leased, transfer, history>>

Serve(c) == stale' = [stale EXCEPT ![c] = IF Live(c) THEN @ ELSE @ + 1] /\ UNCHANGED opened

\* getSnapshot, resyncFigure and the mutations reconcile the buffers.
GetSnapshot(c) ==
  /\ cpc[c] = "read"
  /\ SynchronizeBuffers(entry[c])
  /\ Serve(c) /\ Goto(c, "poll")
  /\ UNCHANGED <<lifecycle, entryState, model, known, attachment, leased, transfer>>

GetBufferAlwaysLeases(c, b) ==
  LET k == entry[c] IN
  /\ cpc[c] = "read"
  /\ Serve(c)
  /\ IF b \notin retained[k]
       THEN Goto(c, "drop") /\ UNCHANGED <<leases, leased, transfer>>
       ELSE /\ leased' = [leased EXCEPT ![c] = @ \cup {b}]
            /\ leases' = [leases EXCEPT ![k][b] = @ + 1]
            /\ sending' = [sending EXCEPT ![c] = {b}]
            /\ newly' = [newly EXCEPT ![c] = b \notin leased[c]]
            /\ Goto(c, "sending")
  /\ UNCHANGED <<lifecycle, entryState, model, refs, retained, known, attachment>>

\* GraphicsAttachment::get_buffer; an unknown buffer ends the connection.
GetBuffer(c, b) ==
  LET k == entry[c] IN
  /\ cpc[c] = "read"
  /\ Serve(c)
  /\ IF b \notin retained[k]
       THEN Goto(c, "drop") /\ UNCHANGED <<leases, leased, transfer>>
       ELSE /\ leased' = [leased EXCEPT ![c] = @ \cup {b}]
            /\ leases' = IF b \in leased[c] THEN leases ELSE [leases EXCEPT ![k][b] = @ + 1]
            /\ sending' = [sending EXCEPT ![c] = {b}]
            /\ newly' = [newly EXCEPT ![c] = b \notin leased[c]]
            /\ Goto(c, "sending")
  /\ UNCHANGED <<lifecycle, entryState, model, refs, retained, known, attachment>>

\* release_buffer_lease of the hub: it fails when there is no lease, and the
\* last lease of a buffer no Figure uses reclaims it.
Releasable(k, b) == b \in retained[k] /\ leases[k][b] > 0
ReleaseLease(k, b) ==
  /\ leases' = IF Releasable(k, b) THEN [leases EXCEPT ![k][b] = @ - 1] ELSE leases
  /\ retained' = IF Releasable(k, b) /\ leases[k][b] = 1 /\ b \notin refs[k]
                   THEN [retained EXCEPT ![k] = @ \ {b}] ELSE retained
  /\ UNCHANGED refs

Transferred(c) ==
  /\ cpc[c] = "sending"
  /\ sending' = [sending EXCEPT ![c] = {}] /\ newly' = [newly EXCEPT ![c] = FALSE]
  /\ Goto(c, "poll")
  /\ UNCHANGED <<lifecycle, entryState, model, hub, known, attachment, leased, history>>

\* The transfer failed: cancel_new_lease undoes a lease this request took.
\* A payload over the limit is answered; a send error ends the connection.
CancelNewLease(c) ==
  /\ cpc[c] = "sending"
  /\ \E b \in sending[c] :
       IF newly[c]
         THEN leased' = [leased EXCEPT ![c] = @ \ {b}] /\ ReleaseLease(entry[c], b)
         ELSE UNCHANGED <<leased, hub>>
  /\ sending' = [sending EXCEPT ![c] = {}] /\ newly' = [newly EXCEPT ![c] = FALSE]
  /\ Goto(c, "poll") \/ Goto(c, "drop")
  /\ UNCHANGED <<lifecycle, entryState, model, known, attachment, history>>

\* GraphicsAttachment::release_buffer
ReleaseBuffer(c, b) ==
  /\ cpc[c] = "read"
  /\ Serve(c) /\ Goto(c, "poll")
  /\ IF b \in leased[c] /\ Releasable(entry[c], b)
       THEN leased' = [leased EXCEPT ![c] = @ \ {b}] /\ ReleaseLease(entry[c], b)
       ELSE UNCHANGED <<leased, hub>>
  /\ UNCHANGED <<lifecycle, entryState, model, known, attachment, transfer>>

\* Drop: every lease is released, then the entry is free for another client.
DropLease(c) ==
  /\ cpc[c] = "drop"
  /\ \E b \in leased[c] :
       leased' = [leased EXCEPT ![c] = @ \ {b}] /\ ReleaseLease(entry[c], b)
  /\ UNCHANGED <<lifecycle, entryState, model, known, cpc, attachment, transfer, history>>

DropClient(c) ==
  LET k == entry[c] IN
  /\ cpc[c] = "drop" /\ leased[c] = {}
  /\ active' = IF active[k] = client[c] THEN [active EXCEPT ![k] = 0] ELSE active
  /\ Forget(c)
  /\ UNCHANGED <<lifecycle, alive, generation, nextClient, model, hub, known, leased, transfer>>
----------------------------------------------------------------------------
KernelStep(k) ==
  \/ Register(k) \/ Discovery(k) \/ RotateToken(k) \/ MarkClosed(k) \/ RemoveEntry(k)
  \/ Publish(k)
  \/ \E b \in Buffers : Reference(k, b) \/ Unreference(k, b)

\* What the thread of a graphics connection does on its own.
ThreadStep(c) ==
  \/ Lookup(c) \/ Admit(c) \/ Initialize(c) \/ Poll(c) \/ Idle(c) \/ Transferred(c)
  \/ CancelNewLease(c) \/ DropLease(c) \/ DropClient(c)

\* What its client makes it do.
RequestStep(c) ==
  \/ Open(c) \/ Disconnect(c) \/ GetSnapshot(c)
  \/ \E b \in Buffers : GetBuffer(c, b) \/ ReleaseBuffer(c, b)

Next == (\E k \in Kernels : KernelStep(k)) \/ (\E c \in Renderers : ThreadStep(c) \/ RequestStep(c))

Spec == Init /\ [][Next]_vars

----------------------------------------------------------------------------
(* Properties                                                              *)

RegistryTypeOK ==
  /\ sessions \in [Sessions -> Kernels \cup {None}]
  /\ kpc \in [Kernels -> KernelPhases] /\ name \in [Kernels -> Sessions]
  /\ alive \in [Kernels -> BOOLEAN] /\ generation \in [Kernels -> 1..MaxGeneration]
  /\ active \in [Kernels -> Nat] /\ nextClient \in [Kernels -> Nat \ {0}]
  /\ scene \in [Kernels -> SUBSET Buffers] /\ born \in [Kernels -> SUBSET Buffers]
  /\ refs \in [Kernels -> SUBSET Buffers] /\ retained \in [Kernels -> SUBSET Buffers]
  /\ leases \in [Kernels -> [Buffers -> Nat]]
  /\ known \subseteq Token
  /\ cpc \in [Renderers -> RendererPhases]
  /\ entry \in [Renderers -> Kernels \cup {None}]
  /\ presented \in [Renderers -> Token \cup {<<None, 0>>}]
  /\ client \in [Renderers -> Nat] /\ tokenGeneration \in [Renderers -> Nat]
  /\ leased \in [Renderers -> SUBSET Buffers]
  /\ sending \in [Renderers -> SUBSET Buffers] /\ newly \in [Renderers -> BOOLEAN]
  /\ opened \in [Renderers -> Nat] /\ stale \in [Renderers -> Nat]

\* An entry has one renderer: the attachment that exists, also one that was
\* made stale by a rotation or an unregistration and not dropped yet, is the
\* active client, and no second connection is attached to the entry.
OneRenderer ==
  /\ \A c \in Renderers : Attached(c) => active[entry[c]] = client[c]
  /\ \A c, d \in Renderers : Attached(c) /\ Attached(d) /\ entry[c] = entry[d] => c = d

\* The hub counts a lease exactly while an attachment to the entry holds it,
\* through failed transfers, reconnections and a Drop that is half done.
LeaseAccounting ==
  \A k \in Kernels, b \in Buffers :
    leases[k][b] =
      IF \E c \in Renderers : Attached(c) /\ entry[c] = k /\ b \in leased[c] THEN 1 ELSE 0

\* A buffer a client leases stays in the hub, and nothing stays that neither
\* a Figure used at the last reconciliation nor a client leases.
RetainedExactly ==
  \A k \in Kernels : retained[k] = refs[k] \cup {b \in Buffers : leases[k][b] > 0}

\* A live session can be found under its identifier, and the map names only
\* sessions that are alive or whose unregistration is under way.
LiveIsFindable ==
  /\ \A k \in Kernels : alive[k] => sessions[name[k]] = k
  /\ \A s \in Sessions : sessions[s] # None =>
       name[sessions[s]] = s /\ (alive[sessions[s]] \/ kpc[sessions[s]] = "closing")

\* The map, the entries and the connections are what they should be.
RegistryConsistent == RegistryTypeOK /\ LiveIsFindable

\* Between a rotation or an unregistration and the end of the connection at
\* most the one request that the thread had begun to read is served.
AtMostOneStaleRequest == \A c \in Renderers : stale[c] <= 1

=============================================================================
