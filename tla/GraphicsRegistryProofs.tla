----------------------- MODULE GraphicsRegistryProofs -----------------------
(***************************************************************************)
(* Proofs about GraphicsRegistry, for every set of sessions, kernel        *)
(* connections, graphics connections and buffers.                          *)
(***************************************************************************)
EXTENDS GraphicsRegistry, TLAPS

USE NoneAssumption, RegistryBounds

\* An entry is alive from register_session to unregister_session, and the
\* map names it until the removal that ends the latter.
LifecycleInv ==
  /\ \A k \in Kernels : alive[k] => kpc[k] = "registered"
  /\ \A k \in Kernels : kpc[k] = "registered" => alive[k]
  /\ \A k \in Kernels : kpc[k] \in {"registered", "closing"} => sessions[name[k]] = k
  /\ \A s \in Sessions : sessions[s] # None =>
       name[sessions[s]] = s /\ kpc[sessions[s]] \in {"registered", "closing"}

\* An attachment is the active client of its entry, with a number no other
\* client ever gets, until its own Drop clears it.
AttachmentInv ==
  /\ \A c \in Renderers : Attached(c) \/ cpc[c] = "found" => entry[c] \in Kernels
  /\ \A c \in Renderers : Attached(c) =>
       /\ client[c] # 0 /\ active[entry[c]] = client[c]
       /\ tokenGeneration[c] <= generation[entry[c]]
  /\ \A c, d \in Renderers : Attached(c) /\ Attached(d) /\ entry[c] = entry[d] => c = d

\* Only a registered entry is found in the map.
EntryInv ==
  \A c \in Renderers : Attached(c) \/ cpc[c] = "found" => kpc[entry[c]] # "new"

\* Only an attachment holds leases, and a buffer being sent is one of them.
TransferInv ==
  /\ \A c \in Renderers : ~Attached(c) => leased[c] = {}
  /\ \A c \in Renderers : sending[c] \subseteq leased[c]
  /\ \A c \in Renderers : cpc[c] # "sending" => sending[c] = {}

\* A connection that served a request while it was not live looks at the hub
\* before it reads again, and what made it stale is never undone.
StaleInv ==
  \A c \in Renderers : stale[c] # 0 =>
    stale[c] = 1 /\ cpc[c] \in {"poll", "sending", "drop"} /\ ~Live(c)

RegistryInv ==
  /\ RegistryTypeOK /\ LifecycleInv /\ AttachmentInv /\ EntryInv /\ TransferInv
  /\ LeaseAccounting /\ RetainedExactly /\ StaleInv
----------------------------------------------------------------------------
(* Types                                                                   *)

\* A function updated at one argument keeps its type.
LEMMA UpdateType ==
  ASSUME NEW S, NEW T, NEW f \in [S -> T], NEW x, NEW v \in T
  PROVE  [f EXCEPT ![x] = v] \in [S -> T]
OBVIOUS

\* An update of one field of a table of tables.
LEMMA NestedUpdateType ==
  ASSUME NEW S, NEW T, NEW U, NEW f \in [S -> [T -> U]], NEW x \in S, NEW y, NEW v \in U
  PROVE  [f EXCEPT ![x][y] = v] \in [S -> [T -> U]]
OBVIOUS

\* A registry with no session is well typed.
LEMMA InitTypes == Init => RegistryTypeOK
BY DEF Init, RegistryTypeOK, KernelPhases, RendererPhases, Token

\* synchronize_buffers keeps the types of the buffer tables.
LEMMA SynchronizeTypes ==
  ASSUME RegistryTypeOK, NEW k \in Kernels, SynchronizeBuffers(k)
  PROVE  /\ refs' \in [Kernels -> SUBSET Buffers] /\ retained' \in [Kernels -> SUBSET Buffers]
         /\ leases' \in [Kernels -> [Buffers -> Nat]]
BY DEF RegistryTypeOK, SynchronizeBuffers

\* release_buffer_lease keeps them too: a lease that is released is
\* counted, so the count stays a natural number.
LEMMA ReleaseTypes ==
  ASSUME RegistryTypeOK, NEW k \in Kernels, NEW b \in Buffers, ReleaseLease(k, b)
  PROVE  /\ refs' \in [Kernels -> SUBSET Buffers] /\ retained' \in [Kernels -> SUBSET Buffers]
         /\ leases' \in [Kernels -> [Buffers -> Nat]]
BY DEF RegistryTypeOK, ReleaseLease, Releasable

\* Every step of a kernel keeps the types.
LEMMA KernelTypes ==
  ASSUME RegistryTypeOK, NEW k \in Kernels, KernelStep(k)
  PROVE  RegistryTypeOK'
<1> USE DEF RegistryTypeOK, lifecycle, entryState, model, hub, attachment, transfer, history
<1>1. CASE Register(k)
  <2>1. kpc' \in [Kernels -> KernelPhases]
    BY <1>1 DEF Register, KernelPhases
  <2>2. sessions' \in [Sessions -> Kernels \cup {None}]
    BY <1>1 DEF Register
  <2>3. alive' \in [Kernels -> BOOLEAN]
    BY <1>1, Zenon DEF Register
  <2> QED
    BY <1>1, <2>1, <2>2, <2>3 DEF Register
<1>2. CASE Discovery(k)
  BY <1>2 DEF Discovery, TokenOf, Token
<1>3. CASE RotateToken(k)
  BY <1>3 DEF RotateToken
<1>4. CASE MarkClosed(k)
  BY <1>4 DEF MarkClosed, KernelPhases
<1>5. CASE RemoveEntry(k)
  <2>1. kpc' \in [Kernels -> KernelPhases]
    BY <1>5 DEF RemoveEntry, KernelPhases
  <2>2. sessions' \in [Sessions -> Kernels \cup {None}]
    BY <1>5 DEF RemoveEntry
  <2> QED
    BY <1>5, <2>1, <2>2 DEF RemoveEntry
<1>6. CASE Publish(k)
  BY <1>6, SynchronizeTypes DEF Publish
<1>7. ASSUME NEW b \in Buffers, Reference(k, b) PROVE RegistryTypeOK'
  BY <1>7 DEF Reference
<1>8. ASSUME NEW b \in Buffers, Unreference(k, b) PROVE RegistryTypeOK'
  BY <1>8 DEF Unreference
<1> QED
  BY <1>1, <1>2, <1>3, <1>4, <1>5, <1>6, <1>7, <1>8 DEF KernelStep

\* A connection that gives up leaves all its fields empty.
LEMMA ForgetTypes ==
  ASSUME RegistryTypeOK, NEW c \in Renderers, Forget(c)
  PROVE  /\ cpc' \in [Renderers -> RendererPhases]
         /\ entry' \in [Renderers -> Kernels \cup {None}]
         /\ presented' \in [Renderers -> Token \cup {<<None, 0>>}]
         /\ client' \in [Renderers -> Nat] /\ tokenGeneration' \in [Renderers -> Nat]
         /\ opened' \in [Renderers -> Nat] /\ stale' \in [Renderers -> Nat]
BY DEF RegistryTypeOK, Forget, Goto, RendererPhases

\* A request that is served counts as at most one stale request more.
LEMMA ServeTypes ==
  ASSUME RegistryTypeOK, NEW c \in Renderers, Serve(c)
  PROVE  opened' \in [Renderers -> Nat] /\ stale' \in [Renderers -> Nat]
BY DEF RegistryTypeOK, Serve

\* A connection moves to another phase.
LEMMA GotoTypes ==
  ASSUME RegistryTypeOK, NEW c \in Renderers, NEW p \in RendererPhases, Goto(c, p)
  PROVE  cpc' \in [Renderers -> RendererPhases]
BY DEF RegistryTypeOK, Goto

\* The loop of a connection touches nothing but its place in it.
LEMMA LoopTypes ==
  ASSUME RegistryTypeOK, NEW c \in Renderers, Poll(c) \/ Idle(c) \/ Disconnect(c)
  PROVE  RegistryTypeOK'
<1>1. cpc' \in [Renderers -> RendererPhases]
  BY DEF RegistryTypeOK, Poll, Idle, Disconnect, Goto, RendererPhases
<1>2. UNCHANGED <<lifecycle, entryState, model, hub, known, attachment, leased, transfer, history>>
  BY DEF Poll, Idle, Disconnect
<1> QED
  BY <1>1, <1>2 DEF RegistryTypeOK, lifecycle, entryState, model, hub, attachment, transfer, history

\* Every step of a renderer's connection keeps the types.
LEMMA RendererTypes ==
  ASSUME RegistryTypeOK, AttachmentInv, NEW c \in Renderers, ThreadStep(c) \/ RequestStep(c)
  PROVE  RegistryTypeOK'
<1> USE DEF RegistryTypeOK, lifecycle, entryState, model, hub, attachment, transfer, history
<1>1. CASE Lookup(c)
  <2>1. CASE Forget(c)
    BY <1>1, <2>1, ForgetTypes DEF Lookup
  <2>2. CASE \E s \in Sessions, t \in known : 
              /\ sessions[s] # None
              /\ entry' = [entry EXCEPT ![c] = sessions[s]]
              /\ presented' = [presented EXCEPT ![c] = t]
              /\ Goto(c, "found")
              /\ UNCHANGED <<client, tokenGeneration, history>>
    <3>1. cpc' \in [Renderers -> RendererPhases]
      BY <2>2, GotoTypes DEF RendererPhases
    <3>2. entry' \in [Renderers -> Kernels \cup {None}]
      BY <2>2
    <3>3. presented' \in [Renderers -> Token \cup {<<None, 0>>}]
      BY <2>2
    <3> QED
      BY <1>1, <2>2, <3>1, <3>2, <3>3 DEF Lookup
  <2> QED
    BY <1>1, <2>1, <2>2 DEF Lookup
<1>2. CASE Admit(c)
  <2> entry[c] \in Kernels
    BY <1>2 DEF Admit, AttachmentInv
  <2>1. CASE Admissible(c)
    <3>1. cpc' \in [Renderers -> RendererPhases]
      BY <1>2, <2>1, GotoTypes DEF Admit, RendererPhases
    <3>2. /\ nextClient[entry[c]] \in Nat \ {0} /\ nextClient[entry[c]] + 1 \in Nat \ {0}
          /\ generation[entry[c]] \in Nat
      OBVIOUS
    <3>3. /\ client' = [client EXCEPT ![c] = nextClient[entry[c]]]
          /\ nextClient' = [nextClient EXCEPT ![entry[c]] = nextClient[entry[c]] + 1]
          /\ active' = [active EXCEPT ![entry[c]] = nextClient[entry[c]]]
          /\ tokenGeneration' = [tokenGeneration EXCEPT ![c] = generation[entry[c]]]
      BY <1>2, <2>1 DEF Admit
    <3>4. client' \in [Renderers -> Nat] /\ tokenGeneration' \in [Renderers -> Nat]
      BY <3>2, <3>3
    <3>5. nextClient' \in [Kernels -> Nat \ {0}] /\ active' \in [Kernels -> Nat]
      BY <3>2, <3>3
    <3> QED
      BY <1>2, <2>1, <3>1, <3>4, <3>5 DEF Admit
  <2>2. CASE ~Admissible(c)
    BY <1>2, <2>2, ForgetTypes DEF Admit
  <2> QED
    BY <2>1, <2>2
<1>3. CASE Initialize(c)
  <2>1. entry[c] \in Kernels
    BY <1>3 DEF Initialize, AttachmentInv, Attached
  <2>2. cpc' \in [Renderers -> RendererPhases]
    BY <1>3, GotoTypes DEF Initialize, RendererPhases
  <2> QED
    BY <1>3, <2>1, <2>2, SynchronizeTypes DEF Initialize
<1>4. CASE Poll(c) \/ Idle(c) \/ Disconnect(c)
  BY <1>4, LoopTypes
<1>5. CASE Transferred(c)
  <2>1. cpc' \in [Renderers -> RendererPhases]
    BY <1>5, GotoTypes DEF Transferred, RendererPhases
  <2>2. sending' \in [Renderers -> SUBSET Buffers]
    BY <1>5 DEF Transferred
  <2>3. newly' \in [Renderers -> BOOLEAN]
    BY <1>5 DEF Transferred
  <2> QED
    BY <1>5, <2>1, <2>2, <2>3 DEF Transferred
<1>6. CASE CancelNewLease(c)
  <2>1. entry[c] \in Kernels
    BY <1>6 DEF CancelNewLease, AttachmentInv, Attached
  <2>2. cpc' \in [Renderers -> RendererPhases]
    BY <1>6, GotoTypes DEF CancelNewLease, RendererPhases
  <2>3. PICK b \in sending[c] :
          IF newly[c]
            THEN leased' = [leased EXCEPT ![c] = @ \ {b}] /\ ReleaseLease(entry[c], b)
            ELSE UNCHANGED <<leased, hub>>
    BY <1>6 DEF CancelNewLease
  <2>4. /\ refs' \in [Kernels -> SUBSET Buffers] /\ retained' \in [Kernels -> SUBSET Buffers]
        /\ leases' \in [Kernels -> [Buffers -> Nat]]
    BY <2>1, <2>3, ReleaseTypes
  <2>5. leased' \in [Renderers -> SUBSET Buffers]
    <3>1. leased[c] \ {b} \in SUBSET Buffers
      OBVIOUS
    <3> QED
      BY <2>3, <3>1
  <2>6. sending' \in [Renderers -> SUBSET Buffers]
    BY <1>6 DEF CancelNewLease
  <2>7. newly' \in [Renderers -> BOOLEAN]
    BY <1>6 DEF CancelNewLease
  <2> QED
    BY <1>6, <2>2, <2>4, <2>5, <2>6, <2>7 DEF CancelNewLease
<1>7. CASE DropLease(c)
  <2>1. entry[c] \in Kernels
    BY <1>7 DEF DropLease, AttachmentInv, Attached
  <2>2. PICK b \in leased[c] :
          leased' = [leased EXCEPT ![c] = @ \ {b}] /\ ReleaseLease(entry[c], b)
    BY <1>7 DEF DropLease
  <2>3. leased' \in [Renderers -> SUBSET Buffers]
    BY <2>2
  <2> QED
    BY <1>7, <2>1, <2>2, <2>3, ReleaseTypes DEF DropLease
<1>8. CASE DropClient(c)
  <2>1. active' \in [Kernels -> Nat]
    BY <1>8 DEF DropClient
  <2> QED
    BY <1>8, <2>1, ForgetTypes DEF DropClient
<1>9. CASE Open(c)
  <2>1. cpc' \in [Renderers -> RendererPhases]
    BY <1>9, GotoTypes DEF Open, RendererPhases
  <2>2. opened' \in [Renderers -> Nat]
    BY <1>9 DEF Open
  <2> QED
    BY <1>9, <2>1, <2>2 DEF Open
<1>10. CASE GetSnapshot(c)
  <2>1. entry[c] \in Kernels
    BY <1>10 DEF GetSnapshot, AttachmentInv, Attached
  <2>2. cpc' \in [Renderers -> RendererPhases]
    BY <1>10, GotoTypes DEF GetSnapshot, RendererPhases
  <2> QED
    BY <1>10, <2>1, <2>2, SynchronizeTypes, ServeTypes DEF GetSnapshot
<1>11. ASSUME NEW b \in Buffers, GetBuffer(c, b) PROVE RegistryTypeOK'
  <2>1. entry[c] \in Kernels
    BY <1>11 DEF GetBuffer, AttachmentInv, Attached
  <2>2. cpc' \in [Renderers -> RendererPhases]
    BY <1>11, GotoTypes DEF GetBuffer, RendererPhases
  <2>3. leases' \in [Kernels -> [Buffers -> Nat]]
    <3>1. \/ leases' = leases
          \/ leases' = [leases EXCEPT ![entry[c]][b] = leases[entry[c]][b] + 1]
      BY <1>11 DEF GetBuffer
    <3>2. leases[entry[c]][b] + 1 \in Nat
      BY <2>1
    <3>3. leases \in [Kernels -> [Buffers -> Nat]]
      OBVIOUS
    <3> HIDE DEF RegistryTypeOK
    <3>4. [leases EXCEPT ![entry[c]][b] = leases[entry[c]][b] + 1] \in [Kernels -> [Buffers -> Nat]]
      BY <2>1, <3>2, <3>3, NestedUpdateType
    <3> QED
      BY <3>1, <3>3, <3>4
  <2>4. leased' \in [Renderers -> SUBSET Buffers] /\ sending' \in [Renderers -> SUBSET Buffers]
    <3>1. \/ UNCHANGED <<leased, sending>>
          \/ /\ leased' = [leased EXCEPT ![c] = @ \cup {b}]
             /\ sending' = [sending EXCEPT ![c] = {b}]
      BY <1>11, Zenon DEF GetBuffer
    <3>2. leased[c] \cup {b} \in SUBSET Buffers /\ {b} \in SUBSET Buffers
      OBVIOUS
    <3> QED
      BY <3>1, <3>2, UpdateType
  <2>5. newly' \in [Renderers -> BOOLEAN]
    BY <1>11 DEF GetBuffer
  <2> QED
    BY <1>11, <2>2, <2>3, <2>4, <2>5, ServeTypes DEF GetBuffer
<1>12. ASSUME NEW b \in Buffers, ReleaseBuffer(c, b) PROVE RegistryTypeOK'
  <2>1. entry[c] \in Kernels
    BY <1>12 DEF ReleaseBuffer, AttachmentInv, Attached
  <2>2. cpc' \in [Renderers -> RendererPhases]
    BY <1>12, GotoTypes DEF ReleaseBuffer, RendererPhases
  <2>3. /\ refs' \in [Kernels -> SUBSET Buffers] /\ retained' \in [Kernels -> SUBSET Buffers]
        /\ leases' \in [Kernels -> [Buffers -> Nat]]
    BY <1>12, <2>1, ReleaseTypes DEF ReleaseBuffer
  <2>4. leased' \in [Renderers -> SUBSET Buffers]
    BY <1>12 DEF ReleaseBuffer
  <2> QED
    BY <1>12, <2>2, <2>3, <2>4, ServeTypes DEF ReleaseBuffer
<1> QED
  BY <1>1, <1>2, <1>3, <1>4, <1>5, <1>6, <1>7, <1>8, <1>9, <1>10, <1>11, <1>12
     DEF ThreadStep, RequestStep
----------------------------------------------------------------------------
(* Who changes what                                                        *)

\* The kernel side leaves the connections and their leases alone.
LEMMA KernelFrame ==
  ASSUME NEW k \in Kernels, KernelStep(k)
  PROVE  /\ UNCHANGED <<active, nextClient, cpc, attachment, leased, transfer, history, leases>>
         /\ UNCHANGED <<refs, retained>> \/ SynchronizeBuffers(k)
BY DEF KernelStep, Register, Discovery, RotateToken, MarkClosed, RemoveEntry, Publish, Reference,
       Unreference, SynchronizeBuffers, lifecycle, entryState, model, hub, attachment, transfer, history

\* The connections leave the map and the life of the entries alone.
LEMMA RendererFrame ==
  ASSUME NEW c \in Renderers, ThreadStep(c) \/ RequestStep(c)
  PROVE  UNCHANGED <<sessions, kpc, name, alive, generation>>
BY DEF ThreadStep, RequestStep, Lookup, Admit, Initialize, Poll, Idle, Transferred, CancelNewLease,
       DropLease, DropClient, Open, Disconnect, GetSnapshot, GetBuffer, ReleaseBuffer,
       lifecycle, entryState

\* A step of an attached connection that keeps its attachment.
Stays(c) ==
  /\ Attached(c) /\ Attached(c)'
  /\ \A d \in Renderers : d # c => cpc'[d] = cpc[d]
  /\ UNCHANGED <<entry, client, tokenGeneration, active, nextClient>>

ServiceStep(c) ==
  \/ Initialize(c) \/ Poll(c) \/ Idle(c) \/ Transferred(c) \/ CancelNewLease(c) \/ DropLease(c)
  \/ Disconnect(c) \/ GetSnapshot(c)
  \/ \E b \in Buffers : GetBuffer(c, b) \/ ReleaseBuffer(c, b)

\* The service of an attached renderer does not move its attachment.
LEMMA ServiceStays ==
  ASSUME RegistryTypeOK, NEW c \in Renderers, ServiceStep(c)
  PROVE  Stays(c)
<1> USE DEF RegistryTypeOK, Stays, Attached, Goto, entryState, attachment
<1>1. CASE Initialize(c)
  BY <1>1 DEF Initialize
<1>2. CASE Poll(c)
  BY <1>2 DEF Poll
<1>3. CASE Idle(c) \/ Disconnect(c)
  BY <1>3 DEF Idle, Disconnect
<1>4. CASE Transferred(c)
  BY <1>4 DEF Transferred
<1>5. CASE CancelNewLease(c)
  BY <1>5 DEF CancelNewLease
<1>6. CASE DropLease(c)
  BY <1>6 DEF DropLease
<1>7. CASE GetSnapshot(c)
  BY <1>7 DEF GetSnapshot
<1>8. ASSUME NEW b \in Buffers, GetBuffer(c, b) PROVE Stays(c)
  BY <1>8 DEF GetBuffer
<1>9. ASSUME NEW b \in Buffers, ReleaseBuffer(c, b) PROVE Stays(c)
  BY <1>9 DEF ReleaseBuffer
<1> QED
  BY <1>1, <1>2, <1>3, <1>4, <1>5, <1>6, <1>7, <1>8, <1>9 DEF ServiceStep
----------------------------------------------------------------------------
(* The map and the life of the entries                                     *)

\* alive is a flag that one operation sets or clears.
LEMMA FlagUpdate ==
  ASSUME NEW S, NEW f \in [S -> BOOLEAN], NEW x \in S, NEW v \in BOOLEAN, NEW g, g = [f EXCEPT ![x] = v]
  PROVE  g[x] = v /\ \A y \in S : y # x => g[y] = f[y]
BY Zenon

\* register, discovery and the closing of a kernel keep the session table
\* and the live entries in step.
LEMMA LifecyclePreserved ==
  ASSUME RegistryTypeOK, LifecycleInv, NEW k \in Kernels, KernelStep(k)
  PROVE  LifecycleInv'
<1> USE DEF lifecycle, entryState
<1>0. alive \in [Kernels -> BOOLEAN] /\ TRUE \in BOOLEAN /\ FALSE \in BOOLEAN
  BY DEF RegistryTypeOK
<1>1. CASE Register(k)
  <2>1. CASE sessions[name[k]] = None
    <3>1. alive' = [alive EXCEPT ![k] = TRUE]
      BY <1>1, <2>1 DEF Register
    <3>2. alive'[k] = TRUE /\ \A j \in Kernels : j # k => alive'[j] = alive[j]
      BY <1>0, <3>1, FlagUpdate, Zenon
    <3>3. /\ \A s \in Sessions : sessions'[s] = IF s = name[k] THEN k ELSE sessions[s]
          /\ \A j \in Kernels : kpc'[j] = IF j = k THEN "registered" ELSE kpc[j]
          /\ UNCHANGED name
      BY <1>1, <2>1 DEF Register, RegistryTypeOK
    <3>4. \A j \in Kernels : name[j] = name[k] => kpc[j] \notin {"registered", "closing"}
      BY <2>1 DEF LifecycleInv
    <3>5. ASSUME NEW j \in Kernels PROVE alive'[j] => kpc'[j] = "registered"
      BY <3>2, <3>3 DEF LifecycleInv
    <3>6. ASSUME NEW j \in Kernels PROVE kpc'[j] = "registered" => alive'[j]
      BY <3>2, <3>3 DEF LifecycleInv
    <3>7. ASSUME NEW j \in Kernels, kpc'[j] \in {"registered", "closing"} PROVE sessions'[name'[j]] = j
      <4>1. name[j] \in Sessions
        BY DEF RegistryTypeOK
      <4>2. j # k => name[j] # name[k] /\ sessions[name[j]] = j
        BY <3>3, <3>4, <3>7 DEF LifecycleInv
      <4> QED
        BY <3>3, <4>1, <4>2
    <3>8. ASSUME NEW s \in Sessions, sessions'[s] # None
          PROVE  name'[sessions'[s]] = s /\ kpc'[sessions'[s]] \in {"registered", "closing"}
      BY <3>3, <3>8 DEF LifecycleInv, RegistryTypeOK
    <3> QED
      BY <3>5, <3>6, <3>7, <3>8 DEF LifecycleInv
  <2>2. CASE sessions[name[k]] # None
    <3>1. UNCHANGED <<sessions, alive, name>> /\ kpc[k] = "new"
      BY <1>1, <2>2 DEF Register
    <3>2. \A j \in Kernels : kpc'[j] = IF j = k THEN "refused" ELSE kpc[j]
      BY <1>1, <2>2 DEF Register, RegistryTypeOK
    <3>3. ASSUME NEW j \in Kernels PROVE (alive'[j] => kpc'[j] = "registered")
      BY <3>1, <3>2 DEF LifecycleInv
    <3>4. ASSUME NEW j \in Kernels PROVE (kpc'[j] = "registered" => alive'[j])
      BY <3>1, <3>2 DEF LifecycleInv
    <3>5. ASSUME NEW j \in Kernels, kpc'[j] \in {"registered", "closing"} PROVE sessions'[name'[j]] = j
      BY <3>1, <3>2, <3>5 DEF LifecycleInv
    <3>6. ASSUME NEW s \in Sessions, sessions'[s] # None
          PROVE  name'[sessions'[s]] = s /\ kpc'[sessions'[s]] \in {"registered", "closing"}
      <4>1. sessions[s] \in Kernels
        BY <3>1, <3>6 DEF RegistryTypeOK
      <4>2. name[sessions[s]] = s /\ kpc[sessions[s]] \in {"registered", "closing"}
        BY <3>1, <3>6 DEF LifecycleInv
      <4> QED
        BY <3>1, <3>2, <4>1, <4>2
    <3> QED
      BY <3>3, <3>4, <3>5, <3>6 DEF LifecycleInv
  <2> QED
    BY <2>1, <2>2
<1>2. CASE Discovery(k)
  BY <1>2 DEF Discovery, LifecycleInv
<1>3. CASE RotateToken(k)
  BY <1>3 DEF RotateToken, LifecycleInv
<1>4. CASE MarkClosed(k)
  <2>1. UNCHANGED <<sessions, name>> /\ kpc[k] = "registered" /\ alive' = [alive EXCEPT ![k] = FALSE]
    BY <1>4 DEF MarkClosed
  <2>2. \A j \in Kernels : kpc'[j] = IF j = k THEN "closing" ELSE kpc[j]
    BY <1>4 DEF MarkClosed, RegistryTypeOK
  <2>3. alive'[k] = FALSE /\ \A j \in Kernels : j # k => alive'[j] = alive[j]
    BY <1>0, <2>1, FlagUpdate, Zenon
  <2>4. ASSUME NEW j \in Kernels PROVE alive'[j] => kpc'[j] = "registered"
    BY <2>2, <2>3 DEF LifecycleInv
  <2>5. ASSUME NEW j \in Kernels PROVE kpc'[j] = "registered" => alive'[j]
    BY <2>2, <2>3 DEF LifecycleInv
  <2>6. ASSUME NEW j \in Kernels, kpc'[j] \in {"registered", "closing"} PROVE sessions'[name'[j]] = j
    BY <2>1, <2>2, <2>6 DEF LifecycleInv
  <2>7. ASSUME NEW s \in Sessions, sessions'[s] # None
        PROVE  name'[sessions'[s]] = s /\ kpc'[sessions'[s]] \in {"registered", "closing"}
    BY <2>1, <2>2, <2>7 DEF LifecycleInv, RegistryTypeOK
  <2> QED
    BY <2>4, <2>5, <2>6, <2>7 DEF LifecycleInv
<1>5. CASE RemoveEntry(k)
  BY <1>5 DEF RemoveEntry, LifecycleInv, RegistryTypeOK
<1>6. CASE Publish(k)
  BY <1>6 DEF Publish, LifecycleInv
<1>7. ASSUME NEW b \in Buffers, Reference(k, b) \/ Unreference(k, b) PROVE LifecycleInv'
  BY <1>7 DEF Reference, Unreference, LifecycleInv
<1> QED
  BY <1>1, <1>2, <1>3, <1>4, <1>5, <1>6, <1>7 DEF KernelStep

\* A session that is running is found under its name.
LEMMA LifecycleFindable == RegistryTypeOK /\ LifecycleInv => LiveIsFindable
BY DEF RegistryTypeOK, LifecycleInv, LiveIsFindable
----------------------------------------------------------------------------
(* Attachments                                                             *)

\* No kernel step takes a token's generation back.
LEMMA GenerationsGrow ==
  ASSUME RegistryTypeOK, NEW k \in Kernels, KernelStep(k), NEW j \in Kernels
  PROVE  generation'[j] >= generation[j]
BY DEF RegistryTypeOK, KernelStep, Register, Discovery, RotateToken, MarkClosed, RemoveEntry,
       Publish, Reference, Unreference, entryState

\* Kernel steps leave attachments alone; a rotated token only moves the
\* generation past theirs.
LEMMA AttachmentKernel ==
  ASSUME RegistryTypeOK, RegistryTypeOK', AttachmentInv, NEW k \in Kernels, KernelStep(k)
  PROVE  AttachmentInv'
<1>1. UNCHANGED <<active, cpc, entry, client, tokenGeneration>>
  BY KernelFrame DEF attachment
<1>2. ASSUME NEW c \in Renderers, Attached(c) PROVE tokenGeneration[c] <= generation'[entry[c]]
  <2>1. entry[c] \in Kernels /\ tokenGeneration[c] <= generation[entry[c]]
    BY <1>2 DEF AttachmentInv
  <2>2. generation'[entry[c]] >= generation[entry[c]]
    BY <2>1, GenerationsGrow
  <2> QED
    BY <2>1, <2>2 DEF RegistryTypeOK
<1> QED
  BY <1>1, <1>2 DEF AttachmentInv, Attached

\* The other connections are as they were.
Others(c) ==
  \A d \in Renderers : d # c =>
    /\ cpc'[d] = cpc[d] /\ entry'[d] = entry[d]
    /\ client'[d] = client[d] /\ tokenGeneration'[d] = tokenGeneration[d]

\* A step after which the connection is not attached.
LEMMA AttachmentApart ==
  ASSUME AttachmentInv, NEW c \in Renderers, Others(c), UNCHANGED generation,
         ~Attached(c)', cpc'[c] = "found" => entry'[c] \in Kernels,
         \A d \in Renderers : d # c /\ Attached(d) => active'[entry[d]] = active[entry[d]]
  PROVE  AttachmentInv'
<1>1. ASSUME NEW d \in Renderers, Attached(d)'
      PROVE  d # c /\ Attached(d) /\ entry'[d] = entry[d] /\ client'[d] = client[d]
             /\ tokenGeneration'[d] = tokenGeneration[d]
  BY <1>1 DEF Others, Attached
<1>2. ASSUME NEW d \in Renderers, cpc'[d] = "found" PROVE entry'[d] \in Kernels
  BY <1>2 DEF Others, AttachmentInv
<1>3. ASSUME NEW d \in Renderers, Attached(d)'
      PROVE  /\ entry'[d] \in Kernels
             /\ client'[d] # 0 /\ active'[entry'[d]] = client'[d]
             /\ tokenGeneration'[d] <= generation'[entry'[d]]
  BY <1>1, <1>3 DEF AttachmentInv
<1>4. ASSUME NEW d \in Renderers, NEW e \in Renderers, Attached(d)', Attached(e)',
             entry'[d] = entry'[e]
      PROVE  d = e
  BY <1>1, <1>4 DEF AttachmentInv
<1> QED
  BY <1>2, <1>3, <1>4 DEF AttachmentInv

\* Admission under the entry's lock: the slot was free, so the new renderer
\* is the only one.
LEMMA AttachmentAdmit ==
  ASSUME RegistryTypeOK, AttachmentInv, NEW c \in Renderers, Admit(c), Admissible(c)
  PROVE  AttachmentInv'
<1> DEFINE k == entry[c]
<1>1. k \in Kernels
  BY DEF Admit, AttachmentInv
<1>2. \A d \in Renderers : Attached(d) => entry[d] # k
  BY <1>1 DEF Admissible, AttachmentInv
<1>3. /\ cpc' = [cpc EXCEPT ![c] = "init"] /\ client' = [client EXCEPT ![c] = nextClient[k]]
      /\ active' = [active EXCEPT ![k] = nextClient[k]]
      /\ tokenGeneration' = [tokenGeneration EXCEPT ![c] = generation[k]]
      /\ UNCHANGED <<entry, generation>>
  BY DEF Admit, Goto
<1>4. /\ client'[c] = nextClient[k] /\ nextClient[k] # 0 /\ active'[k] = nextClient[k]
      /\ tokenGeneration'[c] = generation[k] /\ generation[k] \in Nat
  BY <1>1, <1>3 DEF RegistryTypeOK
<1>5. \A d \in Renderers : d # c =>
        cpc'[d] = cpc[d] /\ client'[d] = client[d] /\ tokenGeneration'[d] = tokenGeneration[d]
  BY <1>3 DEF RegistryTypeOK
<1>6. \A j \in Kernels : j # k => active'[j] = active[j]
  BY <1>3 DEF RegistryTypeOK
<1> HIDE DEF k
<1>7. ASSUME NEW d \in Renderers, Attached(d)', d # c PROVE Attached(d) /\ entry[d] # k
  BY <1>2, <1>5, <1>7 DEF Attached
<1>8. ASSUME NEW d \in Renderers, Attached(d)' \/ cpc'[d] = "found" PROVE entry'[d] \in Kernels
  <2>1. CASE d = c
    BY <1>1, <1>3, <2>1 DEF k
  <2>2. CASE d # c
    BY <1>3, <1>5, <1>8, <2>2 DEF Attached, AttachmentInv
  <2> QED
    BY <2>1, <2>2
<1>9. ASSUME NEW d \in Renderers, Attached(d)'
      PROVE  /\ client'[d] # 0 /\ active'[entry'[d]] = client'[d]
             /\ tokenGeneration'[d] <= generation'[entry'[d]]
  <2>1. CASE d = c
    BY <1>3, <1>4, <2>1 DEF k
  <2>2. CASE d # c
    BY <1>3, <1>5, <1>6, <1>7, <1>9, <2>2 DEF AttachmentInv
  <2> QED
    BY <2>1, <2>2
<1>10. ASSUME NEW d \in Renderers, NEW e \in Renderers, Attached(d)', Attached(e)',
              entry'[d] = entry'[e]
       PROVE  d = e
  <2>1. CASE d = c \/ e = c
    BY <1>3, <1>7, <1>10, <2>1 DEF k
  <2>2. CASE d # c /\ e # c
    BY <1>3, <1>7, <1>10, <2>2 DEF AttachmentInv
  <2> QED
    BY <2>1, <2>2
<1> QED
  BY <1>8, <1>9, <1>10 DEF AttachmentInv

\* Every step of a renderer's connection keeps the attachments exclusive.
LEMMA AttachmentRenderer ==
  ASSUME RegistryTypeOK, AttachmentInv, NEW c \in Renderers, ThreadStep(c) \/ RequestStep(c)
  PROVE  AttachmentInv'
<1>0. UNCHANGED generation
  BY RendererFrame
<1>1. CASE ServiceStep(c)
  <2>1. Stays(c) /\ UNCHANGED generation
    BY <1>1, ServiceStays, RendererFrame
  <2> QED
    BY <2>1 DEF RegistryTypeOK, Stays, AttachmentInv, Attached
<1>2. CASE Open(c)
  <2>1. Others(c) /\ ~Attached(c)' /\ cpc'[c] # "found" /\ UNCHANGED active
    BY <1>2 DEF RegistryTypeOK, Open, Goto, Others, Attached, entryState, attachment
  <2> QED
    BY <1>0, <2>1, AttachmentApart
<1>3. CASE Lookup(c)
  <2>1. Others(c)
    BY <1>3 DEF RegistryTypeOK, Lookup, Forget, Goto, Others
  <2>2. ~Attached(c)' /\ (cpc'[c] = "found" => entry'[c] \in Kernels)
    BY <1>3 DEF RegistryTypeOK, Lookup, Forget, Goto, Attached
  <2>3. UNCHANGED active
    BY <1>3 DEF Lookup, entryState
  <2> QED
    BY <1>0, <2>1, <2>2, <2>3, AttachmentApart
<1>4. CASE Admit(c)
  <2>1. CASE Admissible(c)
    BY <1>4, <2>1, AttachmentAdmit
  <2>2. CASE ~Admissible(c)
    <3>1. Forget(c) /\ UNCHANGED active
      BY <1>4, <2>2 DEF Admit
    <3>2. Others(c) /\ ~Attached(c)' /\ cpc'[c] # "found"
      BY <3>1 DEF RegistryTypeOK, Forget, Goto, Others, Attached
    <3> QED
      BY <1>0, <3>1, <3>2, AttachmentApart
  <2> QED
    BY <2>1, <2>2
<1>5. CASE DropClient(c)
  <2>1. Forget(c) /\ Attached(c)
    BY <1>5 DEF DropClient, Attached
  <2>2. Others(c) /\ ~Attached(c)' /\ cpc'[c] # "found"
    BY <2>1 DEF RegistryTypeOK, Forget, Goto, Others, Attached
  <2>3. active' = active \/ active' = [active EXCEPT ![entry[c]] = 0]
    BY <1>5 DEF DropClient
  <2>4. ASSUME NEW d \in Renderers, d # c, Attached(d) PROVE active'[entry[d]] = active[entry[d]]
    BY <2>1, <2>3, <2>4 DEF AttachmentInv, RegistryTypeOK
  <2> QED
    BY <1>0, <2>2, <2>4, AttachmentApart
<1> QED
  BY <1>1, <1>2, <1>3, <1>4, <1>5 DEF ThreadStep, RequestStep, ServiceStep
----------------------------------------------------------------------------
(* Leases                                                                  *)

\* A connection attached to entry k holds a lease of b.
HeldBy(c, k, b) == Attached(c) /\ entry[c] = k /\ b \in leased[c]

\* synchronize_buffers keeps what is used or leased, and nothing else.
LEMMA SynchronizeRetains ==
  ASSUME RegistryTypeOK, RetainedExactly, NEW k \in Kernels, SynchronizeBuffers(k)
  PROVE  RetainedExactly'
<1>1. UNCHANGED leases
  BY DEF SynchronizeBuffers
<1>2. ASSUME NEW j \in Kernels, j # k
      PROVE  retained'[j] = refs'[j] \cup {b \in Buffers : leases'[j][b] > 0}
  BY <1>1, <1>2 DEF SynchronizeBuffers, RetainedExactly, RegistryTypeOK
<1>3. retained'[k] = refs'[k] \cup {b \in Buffers : leases'[k][b] > 0}
  <2>1. /\ refs'[k] = scene[k]
        /\ retained'[k] = {b \in retained[k] \cup scene[k] : b \in scene[k] \/ leases[k][b] > 0}
    BY DEF SynchronizeBuffers, RegistryTypeOK
  <2>2. retained[k] = refs[k] \cup {b \in Buffers : leases[k][b] > 0}
    BY DEF RetainedExactly
  <2>3. scene[k] \subseteq Buffers /\ refs[k] \subseteq Buffers
    BY DEF RegistryTypeOK
  <2> QED
    BY <1>1, <2>1, <2>2, <2>3
<1> QED
  BY <1>2, <1>3 DEF RetainedExactly

\* The hub's counts are right while the holders and the counts stay.
LEMMA LeasesUnmoved ==
  ASSUME LeaseAccounting, UNCHANGED leases,
         \A c \in Renderers, k \in Kernels, b \in Buffers : HeldBy(c, k, b)' <=> HeldBy(c, k, b)
  PROVE  LeaseAccounting'
BY DEF LeaseAccounting, HeldBy

\* A step that leaves the buffer hub alone keeps what it retains.
LEMMA RetainedUnmoved == RetainedExactly /\ UNCHANGED hub => RetainedExactly'
BY DEF RetainedExactly, hub

\* release_buffer_lease for a lease that is held: the count goes to zero and
\* the buffer goes with it unless a Figure uses it.
LEMMA ReleaseExact ==
  ASSUME RegistryTypeOK, AttachmentInv, LeaseAccounting, RetainedExactly,
         NEW c \in Renderers, NEW b \in leased[c], Stays(c),
         leased' = [leased EXCEPT ![c] = @ \ {b}], ReleaseLease(entry[c], b)
  PROVE  LeaseAccounting' /\ RetainedExactly'
<1> DEFINE k == entry[c]
<1>1. k \in Kernels /\ b \in Buffers /\ Attached(c)
  BY DEF Stays, AttachmentInv, RegistryTypeOK
<1>2. leases[k][b] = 1
  BY <1>1 DEF LeaseAccounting
<1>3. b \in retained[k]
  BY <1>1, <1>2 DEF RetainedExactly
<1>4. /\ leases' = [leases EXCEPT ![k][b] = leases[k][b] - 1]
      /\ retained' = IF b \notin refs[k] THEN [retained EXCEPT ![k] = @ \ {b}] ELSE retained
      /\ UNCHANGED refs
  BY <1>2, <1>3 DEF ReleaseLease, Releasable
<1>5. leases'[k][b] = 0
  BY <1>1, <1>2, <1>4 DEF RegistryTypeOK
<1>6. ASSUME NEW j \in Kernels, NEW a \in Buffers, j # k \/ a # b PROVE leases'[j][a] = leases[j][a]
  BY <1>1, <1>4, <1>6 DEF RegistryTypeOK
<1>7. \A d \in Renderers, j \in Kernels, a \in Buffers :
        HeldBy(d, j, a)' <=> HeldBy(d, j, a) /\ ~(d = c /\ a = b)
  BY DEF HeldBy, Stays, Attached, RegistryTypeOK
<1>8. \A d \in Renderers : HeldBy(d, k, b) => d = c
  BY <1>1 DEF HeldBy, AttachmentInv
<1> HIDE DEF k
<1>9. LeaseAccounting'
  <2>1. SUFFICES ASSUME NEW j \in Kernels, NEW a \in Buffers
                 PROVE  leases'[j][a] = IF \E d \in Renderers : HeldBy(d, j, a)' THEN 1 ELSE 0
    BY DEF LeaseAccounting, HeldBy
  <2>2. leases[j][a] = IF \E d \in Renderers : HeldBy(d, j, a) THEN 1 ELSE 0
    BY DEF LeaseAccounting, HeldBy
  <2>3. CASE j = k /\ a = b
    BY <1>5, <1>7, <1>8, <2>3
  <2>4. CASE j # k \/ a # b
    <3>1. \A d \in Renderers : HeldBy(d, j, a)' <=> HeldBy(d, j, a)
      BY <1>7, <2>4 DEF HeldBy, k
    <3> QED
      BY <1>6, <2>2, <2>4, <3>1
  <2> QED
    BY <2>3, <2>4
<1>10. RetainedExactly'
  <2>1. ASSUME NEW j \in Kernels, j # k
        PROVE  retained'[j] = refs'[j] \cup {a \in Buffers : leases'[j][a] > 0}
    <3>1. retained'[j] = retained[j] /\ refs'[j] = refs[j]
      BY <1>4, <2>1 DEF RegistryTypeOK
    <3> QED
      BY <1>6, <2>1, <3>1 DEF RetainedExactly
  <2>2. retained'[k] = refs'[k] \cup {a \in Buffers : leases'[k][a] > 0}
    <3>1. {a \in Buffers : leases'[k][a] > 0} = {a \in Buffers : leases[k][a] > 0} \ {b}
      BY <1>1, <1>5, <1>6
    <3>2. retained[k] = refs[k] \cup {a \in Buffers : leases[k][a] > 0}
      BY <1>1 DEF RetainedExactly
    <3>3. retained'[k] = IF b \notin refs[k] THEN retained[k] \ {b} ELSE retained[k]
      BY <1>1, <1>4 DEF RegistryTypeOK
    <3> QED
      BY <1>3, <1>4, <3>1, <3>2, <3>3
  <2> QED
    BY <2>1, <2>2 DEF RetainedExactly
<1> QED
  BY <1>9, <1>10

\* get_buffer takes one lease per connection and buffer.
LEMMA GetBufferExact ==
  ASSUME RegistryTypeOK, AttachmentInv, LeaseAccounting, RetainedExactly,
         NEW c \in Renderers, NEW b \in Buffers, Stays(c), GetBuffer(c, b)
  PROVE  LeaseAccounting' /\ RetainedExactly'
<1> DEFINE k == entry[c]
<1>1. k \in Kernels /\ Attached(c)
  BY DEF Stays, AttachmentInv
<1>2. UNCHANGED <<refs, retained>>
  BY DEF GetBuffer
<1>3. CASE b \notin retained[k] \/ b \in leased[c]
  <2>1. UNCHANGED leases /\ leased' \in {leased, [leased EXCEPT ![c] = @ \cup {b}]}
    BY <1>3 DEF GetBuffer
  <2>2. b \notin retained[k] => leased' = leased
    BY DEF GetBuffer
  <2>3. b \in leased[c] => [leased EXCEPT ![c] = @ \cup {b}] = leased
    <3>1. b \in leased[c] => leased[c] \cup {b} = leased[c]
      OBVIOUS
    <3> QED
      BY <3>1 DEF RegistryTypeOK
  <2>4. \A d \in Renderers, j \in Kernels, a \in Buffers : HeldBy(d, j, a)' <=> HeldBy(d, j, a)
    BY <1>3, <2>1, <2>2, <2>3 DEF HeldBy, Stays, Attached
  <2> QED
    BY <1>2, <2>1, <2>4, LeasesUnmoved, RetainedUnmoved DEF hub
<1>4. CASE b \in retained[k] /\ b \notin leased[c]
  <2>1. /\ leased' = [leased EXCEPT ![c] = @ \cup {b}]
        /\ leases' = [leases EXCEPT ![k][b] = leases[k][b] + 1]
    BY <1>4 DEF GetBuffer
  <2>2. \A d \in Renderers : ~HeldBy(d, k, b)
    BY <1>1, <1>4 DEF HeldBy, AttachmentInv
  <2>3. leases[k][b] = 0
    BY <1>1, <2>2 DEF LeaseAccounting, HeldBy
  <2>4. leases'[k][b] = 1
    BY <1>1, <2>1, <2>3 DEF RegistryTypeOK
  <2>5. ASSUME NEW j \in Kernels, NEW a \in Buffers, j # k \/ a # b PROVE leases'[j][a] = leases[j][a]
    BY <1>1, <2>1, <2>5 DEF RegistryTypeOK
  <2>6. \A d \in Renderers, j \in Kernels, a \in Buffers :
          HeldBy(d, j, a)' <=> HeldBy(d, j, a) \/ (d = c /\ j = k /\ a = b)
    BY <1>1, <2>1 DEF HeldBy, Stays, Attached, RegistryTypeOK
  <2> HIDE DEF k
  <2>7. LeaseAccounting'
    <3>1. SUFFICES ASSUME NEW j \in Kernels, NEW a \in Buffers
                   PROVE  leases'[j][a] = IF \E d \in Renderers : HeldBy(d, j, a)' THEN 1 ELSE 0
      BY DEF LeaseAccounting, HeldBy
    <3>2. leases[j][a] = IF \E d \in Renderers : HeldBy(d, j, a) THEN 1 ELSE 0
      BY DEF LeaseAccounting, HeldBy
    <3>3. CASE j = k /\ a = b
      BY <2>4, <2>6, <3>3
    <3>4. CASE j # k \/ a # b
      BY <2>5, <2>6, <3>2, <3>4
    <3> QED
      BY <3>3, <3>4
  <2>8. RetainedExactly'
    <3>1. ASSUME NEW j \in Kernels, j # k
          PROVE  retained'[j] = refs'[j] \cup {a \in Buffers : leases'[j][a] > 0}
      BY <1>2, <2>5, <3>1 DEF RetainedExactly
    <3>2. retained'[k] = refs'[k] \cup {a \in Buffers : leases'[k][a] > 0}
      <4>1. {a \in Buffers : leases'[k][a] > 0} = {a \in Buffers : leases[k][a] > 0} \cup {b}
        BY <1>1, <2>4, <2>5
      <4>2. retained[k] = refs[k] \cup {a \in Buffers : leases[k][a] > 0} /\ b \in retained[k]
        BY <1>1, <1>4 DEF RetainedExactly, k
      <4> QED
        BY <1>2, <4>1, <4>2
    <3> QED
      BY <3>1, <3>2 DEF RetainedExactly
  <2> QED
    BY <2>7, <2>8
<1> QED
  BY <1>3, <1>4

\* Publishing, referencing and dropping a Figure keep the leases counted
\* and retain exactly what is in use.
LEMMA LeasesKernel ==
  ASSUME RegistryTypeOK, LeaseAccounting, RetainedExactly, NEW k \in Kernels, KernelStep(k)
  PROVE  LeaseAccounting' /\ RetainedExactly'
<1>1. UNCHANGED <<cpc, entry, leased, leases>> /\ (UNCHANGED <<refs, retained>> \/ SynchronizeBuffers(k))
  BY KernelFrame DEF attachment
<1>2. \A d \in Renderers, j \in Kernels, a \in Buffers : HeldBy(d, j, a)' <=> HeldBy(d, j, a)
  BY <1>1 DEF HeldBy, Attached
<1> QED
  BY <1>1, <1>2, LeasesUnmoved, RetainedUnmoved, SynchronizeRetains DEF hub

\* Leasing, sending and releasing a buffer, and detaching, do the same.
LEMMA LeasesRenderer ==
  ASSUME RegistryTypeOK, AttachmentInv, TransferInv, LeaseAccounting, RetainedExactly,
         NEW c \in Renderers, ThreadStep(c) \/ RequestStep(c)
  PROVE  LeaseAccounting' /\ RetainedExactly'
<1> DEFINE Kept == \A d \in Renderers, j \in Kernels, a \in Buffers :
                     HeldBy(d, j, a)' <=> HeldBy(d, j, a)
<1>1. ASSUME Stays(c), UNCHANGED leased PROVE Kept
  BY <1>1 DEF Stays, HeldBy, Attached
<1>2. CASE Initialize(c) \/ GetSnapshot(c)
  <2>1. Stays(c) /\ entry[c] \in Kernels
    BY <1>2, ServiceStays DEF ServiceStep, Stays, AttachmentInv
  <2>2. UNCHANGED leased /\ SynchronizeBuffers(entry[c])
    BY <1>2 DEF Initialize, GetSnapshot
  <2>3. UNCHANGED leases
    BY <2>2 DEF SynchronizeBuffers
  <2> QED
    BY <1>1, <2>1, <2>2, <2>3, LeasesUnmoved, SynchronizeRetains
<1>3. CASE Poll(c) \/ Idle(c) \/ Disconnect(c) \/ Transferred(c)
  <2>1. Stays(c)
    BY <1>3, ServiceStays DEF ServiceStep
  <2>2. UNCHANGED leased /\ UNCHANGED hub
    BY <1>3 DEF Poll, Idle, Disconnect, Transferred
  <2> QED
    BY <1>1, <2>1, <2>2, LeasesUnmoved, RetainedUnmoved DEF hub
<1>4. CASE CancelNewLease(c)
  <2>1. Stays(c)
    BY <1>4, ServiceStays DEF ServiceStep
  <2>2. PICK b \in sending[c] :
          IF newly[c]
            THEN leased' = [leased EXCEPT ![c] = @ \ {b}] /\ ReleaseLease(entry[c], b)
            ELSE UNCHANGED <<leased, hub>>
    BY <1>4 DEF CancelNewLease
  <2>3. b \in leased[c]
    BY DEF TransferInv
  <2>4. CASE newly[c]
    BY <2>1, <2>2, <2>3, <2>4, ReleaseExact
  <2>5. CASE ~newly[c]
    BY <1>1, <2>1, <2>2, <2>5, LeasesUnmoved, RetainedUnmoved DEF hub
  <2> QED
    BY <2>4, <2>5
<1>5. CASE DropLease(c)
  <2>1. Stays(c)
    BY <1>5, ServiceStays DEF ServiceStep
  <2>2. PICK b \in leased[c] :
          leased' = [leased EXCEPT ![c] = @ \ {b}] /\ ReleaseLease(entry[c], b)
    BY <1>5 DEF DropLease
  <2> QED
    BY <2>1, <2>2, ReleaseExact
<1>6. ASSUME NEW b \in Buffers, GetBuffer(c, b) PROVE LeaseAccounting' /\ RetainedExactly'
  BY <1>6, ServiceStays, GetBufferExact DEF ServiceStep
<1>7. ASSUME NEW b \in Buffers, ReleaseBuffer(c, b) PROVE LeaseAccounting' /\ RetainedExactly'
  <2>1. Stays(c)
    BY <1>7, ServiceStays DEF ServiceStep
  <2>2. CASE b \in leased[c] /\ Releasable(entry[c], b)
    <3>1. leased' = [leased EXCEPT ![c] = @ \ {b}] /\ ReleaseLease(entry[c], b)
      BY <1>7, <2>2 DEF ReleaseBuffer
    <3> QED
      BY <2>1, <2>2, <3>1, ReleaseExact
  <2>3. CASE ~(b \in leased[c] /\ Releasable(entry[c], b))
    <3>1. UNCHANGED leased /\ UNCHANGED hub
      BY <1>7, <2>3 DEF ReleaseBuffer
    <3> QED
      BY <1>1, <2>1, <3>1, LeasesUnmoved, RetainedUnmoved DEF hub
  <2> QED
    BY <2>2, <2>3
<1>8. CASE Open(c) \/ Lookup(c) \/ Admit(c) \/ DropClient(c)
  <2>1. leased[c] = {} /\ UNCHANGED leased /\ UNCHANGED hub
    BY <1>8 DEF Open, Lookup, Admit, DropClient, TransferInv, Attached
  <2>2. \A d \in Renderers : d # c => cpc'[d] = cpc[d] /\ entry'[d] = entry[d]
    <3>1. CASE Open(c)
      BY <3>1 DEF Open, Goto, attachment, RegistryTypeOK
    <3>2. CASE Lookup(c)
      BY <3>2 DEF Lookup, Forget, Goto, RegistryTypeOK
    <3>3. CASE Admit(c)
      BY <3>3 DEF Admit, Forget, Goto, RegistryTypeOK
    <3>4. CASE DropClient(c)
      BY <3>4 DEF DropClient, Forget, Goto, RegistryTypeOK
    <3> QED
      BY <1>8, <3>1, <3>2, <3>3, <3>4
  <2>3. Kept
    BY <2>1, <2>2 DEF HeldBy, Attached
  <2> QED
    BY <2>1, <2>3, LeasesUnmoved, RetainedUnmoved DEF hub
<1> QED
  BY <1>2, <1>3, <1>4, <1>5, <1>6, <1>7, <1>8 DEF ThreadStep, RequestStep
----------------------------------------------------------------------------
(* Transfers                                                               *)

\* Kernel steps leave transfers alone.
LEMMA TransferKernel ==
  ASSUME TransferInv, NEW k \in Kernels, KernelStep(k)
  PROVE  TransferInv'
<1>1. UNCHANGED <<cpc, leased, sending>>
  BY KernelFrame DEF transfer
<1> QED
  BY <1>1 DEF TransferInv, Attached

\* The others' leases and transfers are theirs.
LEMMA TransferOthers ==
  ASSUME RegistryTypeOK, NEW c \in Renderers, ThreadStep(c) \/ RequestStep(c)
  PROVE  \A d \in Renderers : d # c =>
           cpc'[d] = cpc[d] /\ leased'[d] = leased[d] /\ sending'[d] = sending[d]
<1> USE DEF Goto, Forget, transfer, RegistryTypeOK
<1>1. CASE Lookup(c)
  BY <1>1 DEF Lookup
<1>2. CASE Admit(c)
  BY <1>2 DEF Admit
<1>3. CASE Initialize(c) \/ Poll(c) \/ Idle(c) \/ Disconnect(c) \/ Open(c) \/ GetSnapshot(c)
  BY <1>3 DEF Initialize, Poll, Idle, Disconnect, Open, GetSnapshot
<1>4. CASE Transferred(c)
  BY <1>4 DEF Transferred
<1>5. CASE CancelNewLease(c)
  BY <1>5 DEF CancelNewLease
<1>6. CASE DropLease(c)
  BY <1>6 DEF DropLease
<1>7. CASE DropClient(c)
  BY <1>7 DEF DropClient
<1>8. ASSUME NEW b \in Buffers, GetBuffer(c, b)
      PROVE  \A d \in Renderers : d # c =>
               cpc'[d] = cpc[d] /\ leased'[d] = leased[d] /\ sending'[d] = sending[d]
  BY <1>8 DEF GetBuffer
<1>9. ASSUME NEW b \in Buffers, ReleaseBuffer(c, b)
      PROVE  \A d \in Renderers : d # c =>
               cpc'[d] = cpc[d] /\ leased'[d] = leased[d] /\ sending'[d] = sending[d]
  BY <1>9 DEF ReleaseBuffer
<1> QED
  BY <1>1, <1>2, <1>3, <1>4, <1>5, <1>6, <1>7, <1>8, <1>9 DEF ThreadStep, RequestStep

\* What a connection is sending it has leased, and a detached one holds
\* nothing.
LEMMA TransferRenderer ==
  ASSUME RegistryTypeOK, TransferInv, NEW c \in Renderers, ThreadStep(c) \/ RequestStep(c)
  PROVE  TransferInv'
<1> DEFINE Mine == /\ ~Attached(c)' => leased'[c] = {}
                   /\ sending'[c] \subseteq leased'[c]
                   /\ cpc'[c] # "sending" => sending'[c] = {}
<1>1. SUFFICES Mine
  <2>1. ASSUME NEW d \in Renderers, d # c
        PROVE  /\ ~Attached(d)' => leased'[d] = {}
               /\ sending'[d] \subseteq leased'[d]
               /\ cpc'[d] # "sending" => sending'[d] = {}
    BY <2>1, TransferOthers DEF TransferInv, Attached
  <2> QED
    BY <2>1 DEF TransferInv
<1> USE DEF Goto, Attached, transfer, RegistryTypeOK, TransferInv
<1>2. CASE Lookup(c)
  BY <1>2 DEF Lookup, Forget
<1>3. CASE Admit(c)
  BY <1>3 DEF Admit, Forget
<1>4. CASE Initialize(c)
  BY <1>4 DEF Initialize
<1>5. CASE Poll(c) \/ Idle(c) \/ Disconnect(c)
  BY <1>5 DEF Poll, Idle, Disconnect
<1>6. CASE Open(c)
  BY <1>6 DEF Open
<1>7. CASE GetSnapshot(c)
  BY <1>7 DEF GetSnapshot
<1>8. CASE Transferred(c)
  BY <1>8 DEF Transferred
<1>9. CASE CancelNewLease(c)
  BY <1>9 DEF CancelNewLease
<1>10. CASE DropLease(c)
  BY <1>10 DEF DropLease
<1>11. CASE DropClient(c)
  BY <1>11 DEF DropClient, Forget
<1>12. ASSUME NEW b \in Buffers, GetBuffer(c, b) PROVE Mine
  <2>1. CASE b \in retained[entry[c]]
    <3>1. cpc'[c] = "sending" /\ sending'[c] = {b} /\ leased'[c] = leased[c] \cup {b}
      BY <1>12, <2>1 DEF GetBuffer
    <3> QED
      BY <3>1
  <2>2. CASE b \notin retained[entry[c]]
    BY <1>12, <2>2 DEF GetBuffer
  <2> QED
    BY <2>1, <2>2
<1>13. ASSUME NEW b \in Buffers, ReleaseBuffer(c, b) PROVE Mine
  BY <1>13 DEF ReleaseBuffer
<1> QED
  BY <1>2, <1>3, <1>4, <1>5, <1>6, <1>7, <1>8, <1>9, <1>10, <1>11, <1>12, <1>13
     DEF ThreadStep, RequestStep
----------------------------------------------------------------------------
(* Stale requests                                                          *)

\* A kernel that was looked up has been registered.
LEMMA EntryKernel ==
  ASSUME RegistryTypeOK, AttachmentInv, EntryInv, NEW k \in Kernels, KernelStep(k)
  PROVE  EntryInv'
<1>1. UNCHANGED <<cpc, entry>>
  BY KernelFrame DEF attachment
<1>2. \A j \in Kernels : kpc[j] # "new" => kpc'[j] # "new"
  BY DEF KernelStep, Register, Discovery, RotateToken, MarkClosed, RemoveEntry, Publish, Reference,
         Unreference, lifecycle, RegistryTypeOK
<1> QED
  BY <1>1, <1>2 DEF EntryInv, AttachmentInv, Attached

\* Connections look up registered kernels only.
LEMMA EntryRenderer ==
  ASSUME RegistryTypeOK, LifecycleInv, EntryInv, NEW c \in Renderers, ThreadStep(c) \/ RequestStep(c)
  PROVE  EntryInv'
<1>1. UNCHANGED kpc
  BY RendererFrame
<1>2. CASE ServiceStep(c)
  BY <1>1, <1>2, ServiceStays DEF Stays, EntryInv, Attached
<1>3. CASE Open(c)
  BY <1>1, <1>3 DEF Open, Goto, attachment, EntryInv, Attached, RegistryTypeOK
<1>4. CASE Lookup(c)
  <2>1. ASSUME NEW d \in Renderers, d # c PROVE cpc'[d] = cpc[d] /\ entry'[d] = entry[d]
    BY <1>4, <2>1 DEF Lookup, Forget, Goto, RegistryTypeOK
  <2>2. cpc'[c] = "closed" \/ (cpc'[c] = "found" /\ \E s \in Sessions : entry'[c] = sessions[s] /\ sessions[s] # None)
    BY <1>4 DEF Lookup, Forget, Goto, RegistryTypeOK
  <2>3. \A s \in Sessions : sessions[s] # None => kpc[sessions[s]] # "new"
    BY DEF LifecycleInv
  <2> QED
    BY <1>1, <2>1, <2>2, <2>3 DEF EntryInv, Attached
<1>5. CASE Admit(c)
  <2>1. ASSUME NEW d \in Renderers, d # c PROVE cpc'[d] = cpc[d] /\ entry'[d] = entry[d]
    BY <1>5, <2>1 DEF Admit, Forget, Goto, RegistryTypeOK
  <2>2. cpc[c] = "found" /\ (cpc'[c] = "closed" \/ entry'[c] = entry[c])
    BY <1>5 DEF Admit, Forget, Goto, RegistryTypeOK
  <2> QED
    BY <1>1, <2>1, <2>2 DEF EntryInv, Attached
<1>6. CASE DropClient(c)
  BY <1>1, <1>6 DEF DropClient, Forget, Goto, EntryInv, Attached, RegistryTypeOK
<1> QED
  BY <1>2, <1>3, <1>4, <1>5, <1>6 DEF ThreadStep, RequestStep, ServiceStep

\* What is not live never becomes live again: neither by the kernel ...
LEMMA StaleStaysKernel ==
  ASSUME RegistryTypeOK, LifecycleInv, AttachmentInv, EntryInv, NEW k \in Kernels, KernelStep(k),
         NEW c \in Renderers, Attached(c), ~Live(c)
  PROVE  ~Live(c)'
<1>1. entry[c] \in Kernels /\ tokenGeneration[c] <= generation[entry[c]] /\ active[entry[c]] = client[c]
  BY DEF AttachmentInv
<1>2. UNCHANGED <<entry, client, tokenGeneration, active>>
  BY KernelFrame DEF attachment
<1>3. CASE generation[entry[c]] # tokenGeneration[c]
  <2>1. generation'[entry[c]] >= generation[entry[c]]
    BY <1>1, GenerationsGrow
  <2>2. generation \in [Kernels -> 1..MaxGeneration] /\ generation' \in [Kernels -> 1..MaxGeneration]
        /\ tokenGeneration[c] \in Nat
    BY KernelTypes DEF RegistryTypeOK
  <2>3. generation'[entry[c]] # tokenGeneration[c]
    BY <1>1, <1>3, <2>1, <2>2
  <2> QED
    BY <1>2, <2>3 DEF Live
<1>4. CASE ~alive[entry[c]]
  <2>1. kpc[entry[c]] # "registered" /\ kpc[entry[c]] # "new"
    BY <1>1, <1>4 DEF LifecycleInv, EntryInv
  <2>2. kpc'[entry[c]] # "registered"
    BY <1>1, <2>1 DEF KernelStep, Register, Discovery, RotateToken, MarkClosed, RemoveEntry, Publish,
                      Reference, Unreference, lifecycle, RegistryTypeOK
  <2>3. ~alive'[entry[c]]
    BY <1>1, <2>2, LifecyclePreserved DEF LifecycleInv
  <2> QED
    BY <1>2, <2>3 DEF Live
<1> QED
  BY <1>1, <1>3, <1>4 DEF Live

\* ... nor by another connection.
LEMMA StaleStaysRenderer ==
  ASSUME AttachmentInv, NEW c \in Renderers, Attached(c), ~Live(c),
         UNCHANGED <<alive, generation>>, entry'[c] = entry[c], tokenGeneration'[c] = tokenGeneration[c]
  PROVE  ~Live(c)'
BY DEF AttachmentInv, Live

\* A request read while live is not counted; one that is not is the first.
LEMMA ServeCounts ==
  ASSUME RegistryTypeOK, StaleInv, NEW c \in Renderers, cpc[c] = "read", Serve(c), stale'[c] # 0
  PROVE  stale'[c] = 1 /\ ~Live(c)
<1>1. stale[c] = 0
  BY DEF StaleInv
<1>2. CASE Live(c)
  <2>1. stale' = [stale EXCEPT ![c] = stale[c]]
    BY <1>2 DEF Serve
  <2> QED
    BY <1>1, <2>1 DEF RegistryTypeOK
<1>3. CASE ~Live(c)
  <2>1. stale' = [stale EXCEPT ![c] = stale[c] + 1]
    BY <1>3 DEF Serve
  <2> QED
    BY <1>1, <1>3, <2>1 DEF RegistryTypeOK
<1> QED
  BY <1>2, <1>3

\* A kernel step never makes a stale attachment live again.
LEMMA StaleKernel ==
  ASSUME RegistryTypeOK, LifecycleInv, AttachmentInv, EntryInv, StaleInv, NEW k \in Kernels, KernelStep(k)
  PROVE  StaleInv'
<1>1. UNCHANGED <<cpc, stale>>
  BY KernelFrame DEF history
<1>2. ASSUME NEW c \in Renderers, stale[c] # 0 PROVE ~Live(c)'
  BY <1>2, StaleStaysKernel DEF StaleInv, Attached
<1> QED
  BY <1>1, <1>2 DEF StaleInv

\* A request of a stale attachment is the last: the connection leaves the
\* loop.
LEMMA StaleRenderer ==
  ASSUME RegistryTypeOK, AttachmentInv, StaleInv, NEW c \in Renderers, ThreadStep(c) \/ RequestStep(c)
  PROVE  StaleInv'
<1>1. UNCHANGED <<alive, generation>>
  BY RendererFrame
<1>2. ASSUME NEW d \in Renderers, d # c
      PROVE  cpc'[d] = cpc[d] /\ entry'[d] = entry[d] /\ tokenGeneration'[d] = tokenGeneration[d]
             /\ stale'[d] = stale[d]
  <2>1. CASE ServiceStep(c)
    <3>1. stale'[d] = stale[d]
      BY <1>2, <2>1 DEF ServiceStep, Initialize, Poll, Idle, Transferred, CancelNewLease, DropLease,
                        Disconnect, GetSnapshot, GetBuffer, ReleaseBuffer, Serve, history, RegistryTypeOK
    <3> QED
      BY <1>2, <2>1, <3>1, ServiceStays DEF Stays
  <2>2. CASE Open(c)
    BY <1>2, <2>2 DEF Open, Goto, attachment, RegistryTypeOK
  <2>3. CASE Lookup(c)
    BY <1>2, <2>3 DEF Lookup, Forget, Goto, history, RegistryTypeOK
  <2>4. CASE Admit(c)
    BY <1>2, <2>4 DEF Admit, Forget, Goto, history, RegistryTypeOK
  <2>5. CASE DropClient(c)
    BY <1>2, <2>5 DEF DropClient, Forget, Goto, RegistryTypeOK
  <2> QED
    BY <2>1, <2>2, <2>3, <2>4, <2>5 DEF ThreadStep, RequestStep, ServiceStep
<1>3. ASSUME NEW d \in Renderers, d # c, stale'[d] # 0
      PROVE  stale'[d] = 1 /\ cpc'[d] \in {"poll", "sending", "drop"} /\ ~Live(d)'
  <2>1. stale[d] = 1 /\ cpc[d] \in {"poll", "sending", "drop"} /\ ~Live(d)
    BY <1>2, <1>3 DEF StaleInv
  <2> QED
    BY <1>1, <1>2, <1>3, <2>1, StaleStaysRenderer DEF Attached
<1>4. ASSUME stale'[c] # 0
      PROVE  stale'[c] = 1 /\ cpc'[c] \in {"poll", "sending", "drop"} /\ ~Live(c)'
  <2>1. ServiceStep(c)
    <3>1. cpc[c] \in {"new", "found", "closed"} => stale[c] = 0
      BY DEF StaleInv
    <3>2. CASE Open(c) \/ Lookup(c)
      BY <1>4, <3>1, <3>2 DEF Open, Lookup, Forget, history, RegistryTypeOK
    <3>3. CASE Admit(c) \/ DropClient(c)
      BY <1>4, <3>1, <3>3 DEF Admit, DropClient, Forget, history, RegistryTypeOK
    <3> QED
      BY <3>2, <3>3 DEF ThreadStep, RequestStep, ServiceStep
  <2>2. Stays(c)
    BY <2>1, ServiceStays
  <2>3. ~Live(c) => ~Live(c)'
    BY <1>1, <2>2, StaleStaysRenderer DEF Stays
  <2> SUFFICES stale'[c] = 1 /\ cpc'[c] \in {"poll", "sending", "drop"} /\ ~Live(c)
    BY <2>3
  <2> USE DEF RegistryTypeOK, StaleInv, Goto
  <2>4. CASE Initialize(c)
    BY <1>4, <2>4 DEF Initialize, history
  <2>5. CASE Poll(c)
    BY <1>4, <2>5 DEF Poll, history
  <2>6. CASE Idle(c) \/ Disconnect(c)
    BY <1>4, <2>6 DEF Idle, Disconnect, history
  <2>7. CASE Transferred(c)
    BY <1>4, <2>7 DEF Transferred, history
  <2>8. CASE CancelNewLease(c)
    BY <1>4, <2>8 DEF CancelNewLease, history
  <2>9. CASE DropLease(c)
    BY <1>4, <2>9 DEF DropLease, history
  <2>10. CASE GetSnapshot(c)
    BY <1>4, <2>10, ServeCounts DEF GetSnapshot
  <2>11. CASE \E b \in Buffers : GetBuffer(c, b)
    BY <1>4, <2>11, ServeCounts DEF GetBuffer
  <2>12. CASE \E b \in Buffers : ReleaseBuffer(c, b)
    BY <1>4, <2>12, ServeCounts DEF ReleaseBuffer
  <2> QED
    BY <2>1, <2>4, <2>5, <2>6, <2>7, <2>8, <2>9, <2>10, <2>11, <2>12 DEF ServiceStep
<1> QED
  BY <1>3, <1>4 DEF StaleInv
----------------------------------------------------------------------------
(* The theorems                                                            *)

\* The registry of a server that has just started.
LEMMA RegistryInitInv == Init => RegistryInv
<1> SUFFICES ASSUME Init PROVE RegistryInv
  OBVIOUS
<1>1. LifecycleInv /\ AttachmentInv /\ EntryInv
  BY DEF Init, LifecycleInv, AttachmentInv, EntryInv, Attached
<1>2. TransferInv /\ StaleInv
  BY DEF Init, TransferInv, StaleInv, Attached
<1>3. LeaseAccounting /\ RetainedExactly
  BY DEF Init, LeaseAccounting, RetainedExactly, Attached
<1> QED
  BY <1>1, <1>2, <1>3, InitTypes DEF RegistryInv

\* Every step of a kernel or a renderer keeps the inductive invariant.
LEMMA RegistryStepInv == RegistryInv /\ [Next]_vars => RegistryInv'
<1> SUFFICES ASSUME RegistryInv, [Next]_vars PROVE RegistryInv'
  OBVIOUS
<1>1. ASSUME NEW k \in Kernels, KernelStep(k) PROVE RegistryInv'
  <2>1. RegistryTypeOK'
    BY <1>1, KernelTypes DEF RegistryInv
  <2> QED
    BY <1>1, <2>1, LifecyclePreserved, AttachmentKernel, EntryKernel, TransferKernel, LeasesKernel,
       StaleKernel DEF RegistryInv
<1>2. ASSUME NEW c \in Renderers, ThreadStep(c) \/ RequestStep(c) PROVE RegistryInv'
  <2>1. LifecycleInv'
    BY <1>2, RendererFrame DEF RegistryInv, LifecycleInv
  <2> QED
    BY <1>2, <2>1, RendererTypes, AttachmentRenderer, EntryRenderer, TransferRenderer,
       LeasesRenderer, StaleRenderer DEF RegistryInv
<1>3. CASE UNCHANGED vars
  <2>1. /\ UNCHANGED <<sessions, kpc, name, alive, generation, active, nextClient, scene, born>>
        /\ UNCHANGED <<refs, leases, retained, known, cpc, entry, presented, client>>
        /\ UNCHANGED <<tokenGeneration, leased, sending, newly, opened, stale>>
    BY <1>3 DEF vars, lifecycle, entryState, model, hub, attachment, transfer, history
  <2>2. RegistryTypeOK'
    BY <2>1 DEF RegistryInv, RegistryTypeOK
  <2>3. LifecycleInv' /\ AttachmentInv' /\ EntryInv'
    BY <2>1 DEF RegistryInv, LifecycleInv, AttachmentInv, EntryInv, Attached
  <2>4. TransferInv' /\ StaleInv'
    BY <2>1 DEF RegistryInv, TransferInv, StaleInv, Attached, Live
  <2>5. LeaseAccounting' /\ RetainedExactly'
    BY <2>1 DEF RegistryInv, LeaseAccounting, RetainedExactly, Attached
  <2> QED
    BY <2>2, <2>3, <2>4, <2>5 DEF RegistryInv
<1> QED
  BY <1>1, <1>2, <1>3 DEF Next

\* The inductive invariant holds throughout.
THEOREM RegistryInvariant == Spec => []RegistryInv
BY RegistryInitInv, RegistryStepInv, PTL DEF Spec

\* Types, and the map: a live session can be found under its identifier and
\* the map names nothing else but sessions that are being unregistered.
THEOREM RegistryIsConsistent == Spec => []RegistryConsistent
<1>1. RegistryInv => RegistryConsistent
  BY LifecycleFindable DEF RegistryInv, RegistryConsistent
<1> QED
  BY <1>1, RegistryInvariant, PTL

\* attach admits one renderer per session, whatever is rotated, unregistered
\* and dropped meanwhile.
THEOREM RegistryOneRenderer == Spec => []OneRenderer
<1>1. RegistryInv => OneRenderer
  BY DEF RegistryInv, AttachmentInv, OneRenderer
<1> QED
  BY <1>1, RegistryInvariant, PTL

\* The hub's lease counts are those of the attachments, through failed
\* transfers, repeated requests and Drop.
THEOREM RegistryLeases == Spec => []LeaseAccounting
<1>1. RegistryInv => LeaseAccounting
  BY DEF RegistryInv
<1> QED
  BY <1>1, RegistryInvariant, PTL

\* synchronize_buffers and release_buffer_lease keep exactly the buffers that
\* are used or leased.
THEOREM RegistryRetains == Spec => []RetainedExactly
<1>1. RegistryInv => RetainedExactly
  BY DEF RegistryInv
<1> QED
  BY <1>1, RegistryInvariant, PTL

\* The serve loop looks at the hub between any two requests, so a connection
\* made stale serves at most one more.
THEOREM RegistryStaleRequests == Spec => []AtMostOneStaleRequest
<1>1. RegistryInv => AtMostOneStaleRequest
  <2> SUFFICES ASSUME RegistryInv, NEW c \in Renderers PROVE stale[c] <= 1
    BY DEF AtMostOneStaleRequest
  <2>1. stale[c] = 0 \/ stale[c] = 1
    BY Zenon DEF RegistryInv, StaleInv
  <2> QED
    BY <2>1
<1> QED
  BY <1>1, RegistryInvariant, PTL
=============================================================================
