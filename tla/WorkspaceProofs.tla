-------------------------- MODULE WorkspaceProofs --------------------------
(* Proofs about Workspace, for any number of connections, folders, names,   *)
(* contents and tickets: nothing half done is ever visible, a generation    *)
(* told to a client keeps its folder, a request stays in the folder it      *)
(* named, and the handlers implement the shared store.                      *)
EXTENDS Workspace, TLAPS

USE WorkspaceAssumption

(* The service knows the folder a past generation was.                      *)
Remembered(g) == g \in 1..cwd.gen /\ roots[g] = past[g] /\ past[g] \in Roots

(* The Current Folder is the newest generation, and every generation a      *)
(* client was told is remembered.                                           *)
RootInv ==
    /\ cwd \in [root : Roots, gen : Gens]
    /\ roots \in [Gens -> Roots \union {None}] /\ past \in [Gens -> Roots \union {None}]
    /\ past[cwd.gen] = cwd.root
    /\ told \subseteq Gens /\ \A g \in told : Remembered(g)
    /\ docs \subseteq [path : Paths, gen : Gens, from : Roots]

(* Nothing that anyone can name is partly written.                          *)
FilesInv == files \in [Place -> Contents \union {Absent, Folder}] /\ budget \in 0..MaxRequests

(* A ticket still granted has not been used.                                *)
Grant == [kind : {"upload", "download"}, gen : Gens, path : Paths, overwrite : BOOLEAN]
TicketInv ==
    /\ uses \in [Tickets -> {0, 1}]
    /\ grants \in [Tickets -> Grant \union {None}]
    /\ \A t \in Tickets : grants[t] # None => uses[t] = 0 /\ grants[t].gen \in told

(* What a handler can be in the middle of.                                  *)
MaybeGen == Gens \union {None}
ReadOps == [kind : {"read"}, pc : {"file"}, path : Paths, gen : Gens]
WriteOps == [kind : {"write"}, pc : {"check", "replace"}, gen : MaybeGen, rev : Contents,
             value : Contents, at : Place]
UploadOps == [kind : {"upload"}, pc : {"body", "check", "link"}, gen : Gens,
              overwrite : BOOLEAN, at : Place]
CreateOps == [kind : {"create"}, pc : {"make"}, gen : {None}, value : Contents \union {Folder},
              at : Place]
MoveTargetOps == [kind : {"move"}, pc : {"target"}, gen : MaybeGen, pin : Roots \union {None},
                  at : Place, name : Paths]
MoveRenameOps == [kind : {"move"}, pc : {"rename"}, gen : MaybeGen, at : Place, to : Place]
DeleteOps == [kind : {"delete"}, pc : {"remove"}, gen : {None}, folder : BOOLEAN, at : Place]

(* A request that named generation g works in folder r.                     *)
InFolder(g, r) == g = None \/ (Remembered(g) /\ r = past[g])

Temp(data) == [root : Roots, data : data]

(* A handler with operation o and temporary file t is where its code put    *)
(* it: in the folder of its generation, with a temporary file exactly while *)
(* it saves or uploads, complete from the moment it may be moved in place.  *)
HandlerOK(o, t) ==
    \/ o = Idle /\ t = None
    \/ o \in ReadOps /\ t = None /\ Remembered(o.gen)
    \/ /\ o \in WriteOps /\ InFolder(o.gen, o.at[1])
       /\ t \in Temp(IF o.pc = "check" THEN {Partial} ELSE {o.value})
    \/ /\ o \in UploadOps /\ InFolder(o.gen, o.at[1])
       /\ t \in Temp(IF o.pc = "body" THEN {Partial} ELSE Contents)
    \/ o \in CreateOps /\ t = None
    \/ /\ o \in MoveTargetOps /\ t = None /\ InFolder(o.gen, o.at[1])
       /\ IF o.gen = None THEN o.pin = None ELSE o.pin \in Roots /\ InFolder(o.gen, o.pin)
    \/ /\ o \in MoveRenameOps /\ t = None
       /\ InFolder(o.gen, o.at[1]) /\ InFolder(o.gen, o.to[1])
    \/ o \in DeleteOps /\ t = None

Operation == {Idle} \union ReadOps \union WriteOps \union UploadOps \union CreateOps
               \union MoveTargetOps \union MoveRenameOps \union DeleteOps
HandlerInv ==
    /\ op \in [Conns -> Operation]
    /\ temp \in [Conns -> Temp(Contents \union {Partial}) \union {None}]
    /\ \A c \in Conns : HandlerOK(op[c], temp[c])

(* A request that was not overtaken still finds what it looked for.         *)
RaceInv ==
    /\ raced \in [Conns -> BOOLEAN]
    /\ \A c \in Conns : raced[c] => Pending(c) # None
    /\ \A c \in Conns : Pending(c) # None /\ ~raced[c] => Store!Applies(Pending(c))

WorkspaceInv == RootInv /\ FilesInv /\ TicketInv /\ HandlerInv /\ RaceInv
-----------------------------------------------------------------------------
(* The Current Folder and the generations                                   *)

(* Nothing that is remembered is forgotten, and the past does not change.   *)
Keeps == \A g \in Gens : Remembered(g) => Remembered(g)' /\ past'[g] = past[g]

(* root_snapshot remembers the current generation and loses none.           *)
LEMMA SnapshotKeeps ==
    ASSUME RootInv, UNCHANGED <<cwd, past>>, roots' = RootSnapshot
    PROVE  /\ roots' \in [Gens -> Roots \union {None}]
           /\ Remembered(cwd.gen)' /\ Keeps
<1>1. cwd.gen \in Gens /\ cwd.root \in Roots
    BY DEF RootInv
<1>2. roots' = [roots EXCEPT ![cwd.gen] = cwd.root]
    BY DEF RootSnapshot
<1> QED
    BY <1>1, <1>2 DEF RootInv, Keeps, Remembered, Gens

(* A request that only looks at the Current Folder, or does not even that.  *)
LEMMA RootsUnmoved ==
    ASSUME RootInv, UNCHANGED <<cwd, past, told, docs>>, roots' \in {roots, RootSnapshot}
    PROVE  RootInv' /\ Keeps
<1>1. CASE roots' = roots
    BY <1>1 DEF RootInv, Keeps, Remembered
<1>2. CASE roots' = RootSnapshot
    BY <1>2, SnapshotKeeps DEF RootInv, Keeps
<1> QED
    BY <1>1, <1>2

(* The kernel's cd opens a new generation and forgets no remembered root.   *)
LEMMA KernelCdRoots ==
    ASSUME RootInv, NEW r \in Roots, KernelCd(r)
    PROVE  RootInv' /\ Keeps
<1>1. cwd.gen \in Nat /\ cwd.gen + 1 \in Gens /\ cwd.gen >= 1 /\ cwd.gen \in Gens
    BY DEF RootInv, KernelCd, Gens
<1>2. cwd' = [root |-> r, gen |-> cwd.gen + 1]
    BY DEF KernelCd, Changed
<1>3. past' = [past EXCEPT ![cwd.gen + 1] = r] /\ UNCHANGED <<roots, told, docs>>
    BY <1>2 DEF KernelCd
<1>4. Keeps
    BY <1>1, <1>2, <1>3 DEF Keeps, Remembered, RootInv, Gens
<1> QED
    BY <1>1, <1>2, <1>3, <1>4 DEF RootInv, Keeps

(* A changeDirectory request remembers both the folder it leaves and the    *)
(* one it enters.                                                           *)
LEMMA ChangeDirectoryRoots ==
    ASSUME RootInv, NEW c \in Conns, NEW r \in Roots, ChangeDirectory(c, r)
    PROVE  RootInv' /\ Keeps
<1>1. cwd.gen \in Nat /\ cwd.gen + 1 \in Gens /\ cwd.gen >= 1 /\ cwd.gen \in Gens /\ cwd.root \in Roots
    BY DEF RootInv, ChangeDirectory, Gens
<1>2. /\ cwd' = Changed(r) /\ past' = [past EXCEPT ![cwd'.gen] = r]
      /\ roots' = [[roots EXCEPT ![cwd.gen] = cwd.root] EXCEPT ![cwd'.gen] = r]
      /\ told' = told \union {cwd'.gen} /\ UNCHANGED docs
    BY DEF ChangeDirectory, RootSnapshot
<1>3. CASE r = cwd.root
    <2>1. UNCHANGED cwd
        BY <1>2, <1>3 DEF Changed
    <2>2. past' = past /\ roots' = [roots EXCEPT ![cwd.gen] = cwd.root]
        BY <1>1, <1>2, <1>3, <2>1 DEF RootInv
    <2>3. Remembered(cwd.gen)' /\ Keeps /\ roots' \in [Gens -> Roots \union {None}]
        BY <2>1, <2>2, SnapshotKeeps DEF RootSnapshot
    <2> QED
        BY <1>1, <1>2, <2>1, <2>2, <2>3 DEF RootInv, Keeps
<1>4. CASE r # cwd.root
    <2>1. cwd' = [root |-> r, gen |-> cwd.gen + 1]
        BY <1>2, <1>4 DEF Changed
    <2>2. /\ past' = [past EXCEPT ![cwd.gen + 1] = r]
          /\ roots' = [[roots EXCEPT ![cwd.gen] = cwd.root] EXCEPT ![cwd.gen + 1] = r]
        BY <1>2, <2>1
    <2>3. /\ roots' \in [Gens -> Roots \union {None}] /\ past' \in [Gens -> Roots \union {None}]
          /\ cwd'.gen = cwd.gen + 1 /\ cwd'.root = r /\ cwd' \in [root : Roots, gen : Gens]
        BY <1>1, <2>1, <2>2 DEF RootInv
    <2>4. past'[cwd.gen + 1] = r /\ roots'[cwd.gen + 1] = r
        BY <1>1, <2>2 DEF RootInv
    <2>5. Remembered(cwd.gen)'
        BY <1>1, <2>3, <2>4 DEF Remembered, Gens
    <2>6. Keeps
        <3> SUFFICES ASSUME NEW g \in Gens, Remembered(g)
                     PROVE  Remembered(g)' /\ past'[g] = past[g]
            BY DEF Keeps
        <3>1. g \in Nat /\ g <= cwd.gen /\ g # cwd.gen + 1
            BY <1>1 DEF Remembered
        <3>2. past'[g] = past[g] /\ roots'[g] = IF g = cwd.gen THEN cwd.root ELSE roots[g]
            BY <2>2, <3>1 DEF RootInv
        <3> QED
            BY <1>1, <2>3, <3>1, <3>2 DEF Remembered, RootInv
    <2> QED
        BY <1>1, <1>2, <2>3, <2>4, <2>5, <2>6 DEF RootInv, Keeps
<1> QED
    BY <1>3, <1>4

(* What a generation told to a client resolves to.                          *)
LEMMA ToldFolder ==
    ASSUME RootInv, NEW g, Remembered(g)
    PROVE  FolderOf(g) = past[g] /\ past[g] \in Roots /\ FolderOf(g) # None
BY DEF RootInv, Remembered, FolderOf
-----------------------------------------------------------------------------
(* Handlers                                                                 *)

(* The kind of an operation tells what else is known of its handler.        *)
LEMMA OperationKinds ==
    ASSUME NEW o, NEW t, HandlerOK(o, t)
    PROVE  /\ o = Idle => t = None
           /\ o # Idle => o.kind \in {"read", "write", "upload", "create", "move", "delete"}
           /\ o.kind = "read" => o \in ReadOps /\ t = None /\ Remembered(o.gen)
           /\ o.kind = "write" =>
                /\ o \in WriteOps /\ InFolder(o.gen, o.at[1])
                /\ t \in Temp(IF o.pc = "check" THEN {Partial} ELSE {o.value})
           /\ o.kind = "upload" =>
                /\ o \in UploadOps /\ InFolder(o.gen, o.at[1])
                /\ t \in Temp(IF o.pc = "body" THEN {Partial} ELSE Contents)
           /\ o.kind = "create" => o \in CreateOps /\ t = None
           /\ o.kind = "move" /\ o.pc = "target" =>
                /\ o \in MoveTargetOps /\ t = None /\ InFolder(o.gen, o.at[1])
                /\ IF o.gen = None THEN o.pin = None ELSE o.pin \in Roots /\ InFolder(o.gen, o.pin)
           /\ o.kind = "move" /\ o.pc = "rename" =>
                /\ o \in MoveRenameOps /\ t = None
                /\ InFolder(o.gen, o.at[1]) /\ InFolder(o.gen, o.to[1])
           /\ o.kind = "delete" => o \in DeleteOps /\ t = None
<1>1. CASE o = Idle /\ t = None
    BY <1>1 DEF Idle
<1>2. CASE o \in ReadOps /\ t = None /\ Remembered(o.gen)
    BY <1>2 DEF Idle, ReadOps
<1>3. CASE /\ o \in WriteOps /\ InFolder(o.gen, o.at[1])
           /\ t \in Temp(IF o.pc = "check" THEN {Partial} ELSE {o.value})
    BY <1>3 DEF Idle, WriteOps
<1>4. CASE /\ o \in UploadOps /\ InFolder(o.gen, o.at[1])
           /\ t \in Temp(IF o.pc = "body" THEN {Partial} ELSE Contents)
    BY <1>4 DEF Idle, UploadOps
<1>5. CASE o \in CreateOps /\ t = None
    BY <1>5 DEF Idle, CreateOps
<1>6. CASE /\ o \in MoveTargetOps /\ t = None /\ InFolder(o.gen, o.at[1])
           /\ IF o.gen = None THEN o.pin = None ELSE o.pin \in Roots /\ InFolder(o.gen, o.pin)
    BY <1>6 DEF Idle, MoveTargetOps
<1>7. CASE /\ o \in MoveRenameOps /\ t = None
           /\ InFolder(o.gen, o.at[1]) /\ InFolder(o.gen, o.to[1])
    BY <1>7 DEF Idle, MoveRenameOps
<1>8. CASE o \in DeleteOps /\ t = None
    BY <1>8 DEF Idle, DeleteOps
<1> QED
    BY <1>1, <1>2, <1>3, <1>4, <1>5, <1>6, <1>7, <1>8 DEF HandlerOK

(* What others do to the roots does not disturb a handler.                  *)
LEMMA HandlerUndisturbed ==
    ASSUME RootInv, Keeps, NEW d \in Conns, HandlerOK(op[d], temp[d]),
           op'[d] = op[d], temp'[d] = temp[d]
    PROVE  HandlerOK(op[d], temp[d])'
<1>1. \A g : Remembered(g) => Remembered(g)' /\ past'[g] = past[g]
    BY DEF RootInv, Keeps, Remembered, Gens
<1>2. \A g, r : InFolder(g, r) => InFolder(g, r)'
    BY <1>1 DEF InFolder, Remembered
<1>3. \A o, t : HandlerOK(o, t) => HandlerOK(o, t)'
    BY <1>1, <1>2 DEF HandlerOK, InFolder, Remembered
<1> QED
    BY <1>3 DEF HandlerOK, InFolder, Remembered

(* A handler takes a step: the others stay where they are.                  *)
LEMMA HandlerStep ==
    ASSUME RootInv, HandlerInv, Keeps, NEW c \in Conns,
           NEW o \in Operation, NEW t \in Temp(Contents \union {Partial}) \union {None},
           op' = [op EXCEPT ![c] = o], temp' = [temp EXCEPT ![c] = t],
           HandlerOK(op[c], temp[c])'
    PROVE  HandlerInv'
<1>1. op' \in [Conns -> Operation] /\ temp' \in [Conns -> Temp(Contents \union {Partial}) \union {None}]
    BY DEF HandlerInv
<1>2. ASSUME NEW d \in Conns PROVE HandlerOK(op[d], temp[d])'
    <2>1. CASE d = c
        BY <2>1
    <2>2. CASE d # c
        BY <2>2, HandlerUndisturbed DEF HandlerInv
    <2> QED
        BY <2>1, <2>2
<1> QED
    BY <1>1, <1>2 DEF HandlerInv

(* No handler takes a step.                                                 *)
LEMMA HandlersStay ==
    ASSUME RootInv, HandlerInv, Keeps, UNCHANGED <<op, temp>>
    PROVE  HandlerInv'
BY HandlerUndisturbed DEF HandlerInv

(* A handler that returns has removed its temporary file.                   *)
LEMMA HandlerReturns ==
    ASSUME RootInv, HandlerInv, Keeps, NEW c \in Conns,
           op' = [op EXCEPT ![c] = Idle], temp' = [temp EXCEPT ![c] = None]
    PROVE  HandlerInv'
<1>1. op'[c] = Idle /\ temp'[c] = None
    BY DEF HandlerInv
<1>2. HandlerOK(op[c], temp[c])'
    BY <1>1 DEF HandlerOK
<1> QED
    BY <1>2, HandlerStep DEF Operation

(* The tickets are as before and no generation told is forgotten.           *)
LEMMA TicketsStay ==
    ASSUME TicketInv, UNCHANGED <<grants, uses>>, told \subseteq told'
    PROVE  TicketInv'
BY DEF TicketInv

(* What is pending of an operation.                                         *)
LEMMA PendingOf ==
    ASSUME NEW c \in Conns, HandlerOK(op[c], temp[c])
    PROVE  /\ op[c] = Idle => Pending(c) = None
           /\ op[c].kind = "read" => Pending(c) = None
           /\ op[c].kind = "write" /\ op[c].pc = "check" => Pending(c) = None
           /\ op[c].kind = "write" /\ op[c].pc = "replace" =>
                Pending(c) = [kind |-> "write", at |-> op[c].at, rev |-> op[c].rev,
                              value |-> op[c].value]
           /\ op[c].kind = "upload" /\ op[c].pc \in {"body", "check"} => Pending(c) = None
           /\ op[c].kind = "upload" /\ op[c].pc = "link" =>
                Pending(c) = [kind |-> "upload", at |-> op[c].at, overwrite |-> op[c].overwrite,
                              value |-> temp[c].data]
           /\ op[c].kind = "create" =>
                Pending(c) = [kind |-> "create", at |-> op[c].at, value |-> op[c].value]
           /\ op[c].kind = "move" /\ op[c].pc = "target" => Pending(c) = None
           /\ op[c].kind = "move" /\ op[c].pc = "rename" =>
                Pending(c) = [kind |-> "move", at |-> op[c].at, to |-> op[c].to]
           /\ op[c].kind = "delete" =>
                Pending(c) = [kind |-> "delete", at |-> op[c].at, folder |-> op[c].folder]
<1>1. op[c].kind = "create" => op[c].pc = "make"
    BY OperationKinds DEF CreateOps
<1>2. op[c].kind = "delete" => op[c].pc = "remove"
    <2>1. op[c].kind = "delete" => op[c] \in DeleteOps
        BY OperationKinds
    <2> QED
        BY <2>1 DEF DeleteOps
<1> QED
    BY <1>1, <1>2 DEF Pending, Busy, Idle

(* A pending request is one of the store's.                                 *)
LEMMA PendingIsRequest ==
    ASSUME NEW c \in Conns, HandlerOK(op[c], temp[c])
    PROVE  Pending(c) \in Store!Requests \union {None}
<1>1. CASE op[c] = Idle \/ op[c].kind = "read"
    BY <1>1, PendingOf
<1>2. CASE op[c].kind = "write"
    <2>1. op[c] \in WriteOps
        BY <1>2, OperationKinds
    <2>2. CASE op[c].pc = "check"
        BY <1>2, <2>2, PendingOf
    <2>3. CASE op[c].pc = "replace"
        <3>1. Pending(c) = [kind |-> "write", at |-> op[c].at, rev |-> op[c].rev, value |-> op[c].value]
            BY <1>2, <2>3, PendingOf
        <3> QED
            BY <2>1, <3>1 DEF WriteOps, Store!Requests, Store!Place, Place
    <2> QED
        BY <2>1, <2>2, <2>3 DEF WriteOps
<1>3. CASE op[c].kind = "upload"
    <2>1. op[c] \in UploadOps /\ temp[c] \in Temp(IF op[c].pc = "body" THEN {Partial} ELSE Contents)
        BY <1>3, OperationKinds
    <2>2. op[c].pc \in {"body", "check", "link"}
        BY <2>1 DEF UploadOps
    <2>3. CASE op[c].pc \in {"body", "check"}
        BY <1>3, <2>3, PendingOf
    <2>4. CASE op[c].pc = "link"
        <3>1. Pending(c) = [kind |-> "upload", at |-> op[c].at, overwrite |-> op[c].overwrite,
                            value |-> temp[c].data]
            BY <1>3, <2>4, PendingOf
        <3>2. temp[c].data \in Contents
            BY <2>1, <2>4 DEF Temp
        <3> QED
            BY <2>1, <3>1, <3>2 DEF UploadOps, Store!Requests, Store!Place, Place
    <2> QED
        BY <2>2, <2>3, <2>4
<1>4. CASE op[c].kind = "create"
    <2>1. Pending(c) = [kind |-> "create", at |-> op[c].at, value |-> op[c].value]
        BY <1>4, PendingOf
    <2>2. op[c] \in CreateOps
        BY <1>4, OperationKinds
    <2> QED
        BY <2>1, <2>2 DEF CreateOps, Store!Requests, Store!Place, Place
<1>5. CASE op[c].kind = "move"
    <2>1. op[c].pc \in {"target", "rename"}
        BY <1>5 DEF HandlerOK, Idle, ReadOps, WriteOps, UploadOps, CreateOps, MoveTargetOps,
                    MoveRenameOps, DeleteOps
    <2>2. CASE op[c].pc = "target"
        BY <1>5, <2>2, PendingOf
    <2>3. CASE op[c].pc = "rename"
        <3>1. Pending(c) = [kind |-> "move", at |-> op[c].at, to |-> op[c].to]
            BY <1>5, <2>3, PendingOf
        <3>2. op[c] \in MoveRenameOps
            BY <1>5, <2>3, OperationKinds
        <3> QED
            BY <3>1, <3>2 DEF MoveRenameOps, Store!Requests, Store!Place, Place
    <2> QED
        BY <2>1, <2>2, <2>3
<1>6. CASE op[c].kind = "delete"
    <2>1. Pending(c) = [kind |-> "delete", at |-> op[c].at, folder |-> op[c].folder]
        BY <1>6, PendingOf
    <2>2. op[c] \in DeleteOps
        BY <1>6, OperationKinds
    <2> QED
        BY <2>1, <2>2 DEF DeleteOps, Store!Requests, Store!Place, Place
<1> QED
    BY <1>1, <1>2, <1>3, <1>4, <1>5, <1>6, OperationKinds

(* The same of all handlers, before and after a step.                       *)
PendingTypeOK == \A c \in Conns : Pending(c) \in Store!Requests \union {None}
(* What every handler has yet to do is a request of the abstract store.     *)
LEMMA PendingTypes == HandlerInv => PendingTypeOK
BY PendingIsRequest DEF HandlerInv, PendingTypeOK
(* The same after a step.                                                   *)
LEMMA PendingTypesNext == HandlerInv' => PendingTypeOK'
BY PendingTypes, PTL
-----------------------------------------------------------------------------
(* What a step of a handler does to the files                               *)

Elsewhere(c) == \A d \in Conns \ {c} : op'[d] = op[d] /\ temp'[d] = temp[d]

(* The handler sees its places as it needs them.                            *)
Looks(c) ==
    /\ Pending(c) = None /\ Pending(c)' # None
    /\ Store!Applies(Pending(c))' /\ UNCHANGED files

(* Its pending request takes effect.                                        *)
Performs(c) ==
    /\ Pending(c) # None /\ Pending(c)' = None
    /\ Store!Applies(Pending(c)) \/ Store!Overtakes(Pending(c))
    /\ files' = Store!Effect(Pending(c))

(* It returns, or has not come to its last look yet.                        *)
Passes(c) == Pending(c)' = None /\ UNCHANGED files

StoreStep(c) ==
    \/ UNCHANGED <<files, op, temp>>
    \/ Elsewhere(c) /\ (Looks(c) \/ Performs(c) \/ Passes(c))

Base == RootInv /\ FilesInv /\ TicketInv /\ HandlerInv
Preserved(c) == Base' /\ Keeps /\ StoreStep(c)

(* An idle handler has nothing pending.                                     *)
LEMMA IdleIsNotPending ==
    ASSUME NEW c \in Conns
    PROVE  /\ op[c] = Idle => Pending(c) = None
           /\ op'[c] = Idle => Pending(c)' = None
BY DEF Pending, Busy, Idle

(* An error return changes no file and leaves nothing behind.               *)
LEMMA AbandonStep ==
    ASSUME Base, RootInv', Keeps, TicketInv', NEW c \in Conns, Abandon(c), budget' = budget
    PROVE  Preserved(c)
<1>1. op' = [op EXCEPT ![c] = Idle] /\ temp' = [temp EXCEPT ![c] = None] /\ files' = files
    BY DEF Abandon
<1>2. HandlerInv'
    BY <1>1, HandlerReturns DEF Base
<1>3. op'[c] = Idle /\ Elsewhere(c)
    BY <1>1 DEF Base, HandlerInv, Elsewhere
<1>4. StoreStep(c)
    BY <1>1, <1>3, IdleIsNotPending DEF StoreStep, Passes
<1> QED
    BY <1>1, <1>2, <1>4 DEF Preserved, Base, FilesInv

(* Nothing of a handler or of a file changes.                               *)
LEMMA QuietStep ==
    ASSUME Base, RootInv', Keeps, TicketInv', NEW c, UNCHANGED <<files, op, temp>>,
           budget' \in 0..MaxRequests
    PROVE  Preserved(c)
BY HandlersStay DEF Preserved, Base, StoreStep, FilesInv

(* The kernel's cd touches no file and no handler.                          *)
LEMMA KernelCdStep ==
    ASSUME Base, NEW r \in Roots, KernelCd(r), NEW c
    PROVE  Preserved(c)
<1>1. RootInv' /\ Keeps
    BY KernelCdRoots DEF Base
<1>2. UNCHANGED <<files, told, grants, uses, op, temp, budget>>
    BY DEF KernelCd
<1>3. TicketInv'
    BY <1>2, TicketsStay DEF Base
<1> QED
    BY <1>1, <1>2, <1>3, QuietStep DEF Base, FilesInv

(* A transfer ticket expires.                                               *)
LEMMA ExpireStep ==
    ASSUME Base, NEW t \in Tickets, Expire(t), NEW c
    PROVE  Preserved(c)
<1>1. /\ UNCHANGED <<files, cwd, roots, past, told, docs, uses, op, temp, budget>>
      /\ grants' = [grants EXCEPT ![t] = None]
    BY DEF Expire
<1>2. RootInv' /\ Keeps
    BY <1>1, RootsUnmoved DEF Base
<1>3. TicketInv'
    BY <1>1 DEF Base, TicketInv
<1> QED
    BY <1>1, <1>2, <1>3, QuietStep DEF Base, FilesInv

(* A request is accepted within the bound.                                  *)
LEMMA AcceptBudget ==
    ASSUME FilesInv, NEW c, Accept(c)
    PROVE  budget' \in 0..MaxRequests
BY DEF FilesInv, Accept

(* changeDirectory touches no file.                                         *)
LEMMA ChangeDirectoryStep ==
    ASSUME Base, NEW c \in Conns, NEW r \in Roots, ChangeDirectory(c, r)
    PROVE  Preserved(c)
<1>1. RootInv' /\ Keeps
    BY ChangeDirectoryRoots DEF Base
<1>2. UNCHANGED <<files, grants, uses, op, temp>> /\ told \subseteq told' /\ Accept(c)
    BY DEF ChangeDirectory
<1>3. TicketInv'
    BY <1>2, TicketsStay DEF Base
<1> QED
    BY <1>1, <1>2, <1>3, QuietStep, AcceptBudget DEF Base

(* The workspace's location is told, and remembered in the same snapshot.   *)
LEMMA LocateStep ==
    ASSUME Base, NEW c \in Conns, Locate(c)
    PROVE  Preserved(c)
<1>1. /\ UNCHANGED <<files, cwd, past, docs, grants, uses, op, temp>> /\ Accept(c)
      /\ roots' = RootSnapshot /\ told' = told \union {cwd.gen}
    BY DEF Locate
<1>2. Remembered(cwd.gen)' /\ Keeps /\ roots' \in [Gens -> Roots \union {None}]
    BY <1>1, SnapshotKeeps DEF Base
<1>3. RootInv'
    BY <1>1, <1>2 DEF Base, RootInv, Keeps
<1>4. TicketInv'
    BY <1>1, TicketsStay DEF Base
<1> QED
    BY <1>1, <1>2, <1>3, <1>4, QuietStep, AcceptBudget DEF Base

(* A transfer ticket is granted for a generation the client was told.       *)
LEMMA PrepareStep ==
    ASSUME Base, NEW c \in Conns, NEW t \in Tickets, NEW kind \in {"upload", "download"},
           NEW p \in Paths, NEW g \in Gens, NEW o \in BOOLEAN, Prepare(c, t, kind, p, g, o)
    PROVE  Preserved(c)
<1> DEFINE grant == [kind |-> kind, gen |-> g, path |-> p, overwrite |-> o]
<1>1. /\ UNCHANGED <<files, cwd, past, told, docs, uses, op, temp>> /\ Accept(c)
      /\ roots' = RootSnapshot /\ g \in told /\ uses[t] = 0
      /\ \/ grants' = [grants EXCEPT ![t] = grant]
         \/ grants' = grants
    BY DEF Prepare
<1>2. RootInv' /\ Keeps
    BY <1>1, RootsUnmoved DEF Base
<1>3. TicketInv'
    <2>1. CASE grants' = grants
        BY <1>1, <2>1, TicketsStay DEF Base
    <2>2. CASE grants' = [grants EXCEPT ![t] = grant]
        <3>1. grant \in Grant /\ grant.gen = g
            BY DEF Grant
        <3> HIDE DEF grant
        <3>2. grants' \in [Tickets -> Grant \union {None}]
            BY <2>2, <3>1 DEF Base, TicketInv
        <3>3. ASSUME NEW u \in Tickets, grants'[u] # None
              PROVE  uses'[u] = 0 /\ grants'[u].gen \in told'
            <4>1. CASE u = t
                BY <1>1, <2>2, <3>1, <4>1 DEF Base, TicketInv
            <4>2. CASE u # t
                BY <1>1, <2>2, <3>3, <4>2 DEF Base, TicketInv
            <4> QED
                BY <4>1, <4>2
        <3> QED
            BY <1>1, <3>2, <3>3 DEF Base, TicketInv
    <2> QED
        BY <1>1, <2>1, <2>2
<1> QED
    BY <1>1, <1>2, <1>3, QuietStep, AcceptBudget DEF Base

(* A spent ticket is gone, and has been used at most this once.             *)
LEMMA SpendTicket ==
    ASSUME TicketInv, NEW t \in Tickets, grants[t] # None, Spend(t), UNCHANGED told,
           uses' \in {uses, [uses EXCEPT ![t] = @ + 1]}
    PROVE  TicketInv'
<1>1. grants' = [grants EXCEPT ![t] = None] /\ uses[t] = 0
    BY DEF Spend, TicketInv
<1>2. CASE uses' = uses
    BY <1>1, <1>2 DEF TicketInv
<1>3. CASE uses' = [uses EXCEPT ![t] = @ + 1]
    <2>1. uses' = [uses EXCEPT ![t] = 1]
        BY <1>1, <1>3 DEF TicketInv
    <2> QED
        BY <1>1, <2>1 DEF TicketInv
<1> QED
    BY <1>2, <1>3

(* A download spends its ticket.                                            *)
LEMMA ConsumeDownloadStep ==
    ASSUME Base, NEW c \in Conns, NEW t \in Tickets, ConsumeDownload(c, t)
    PROVE  Preserved(c)
<1>1. /\ UNCHANGED <<files, cwd, past, told, docs, op, temp, budget>>
      /\ roots' = RootSnapshot /\ Spend(t) /\ grants[t] # None
      /\ uses' \in {uses, [uses EXCEPT ![t] = @ + 1]}
    BY DEF ConsumeDownload, Granted
<1>2. RootInv' /\ Keeps
    BY <1>1, RootsUnmoved DEF Base
<1>3. TicketInv'
    BY <1>1, SpendTicket DEF Base
<1> QED
    BY <1>1, <1>2, <1>3, QuietStep DEF Base, FilesInv

(* A handler takes up a request, or goes on with one, and has not come to   *)
(* its last look yet.                                                       *)
LEMMA ProceedStep ==
    ASSUME Base, RootInv', Keeps, TicketInv', NEW c \in Conns, NEW o \in Operation,
           NEW t \in Temp(Contents \union {Partial}) \union {None},
           op' = [op EXCEPT ![c] = o], temp' = [temp EXCEPT ![c] = t], files' = files,
           budget' \in 0..MaxRequests,
           HandlerOK(op[c], temp[c])', Pending(c)' = None \/ Looks(c)
    PROVE  Preserved(c)
<1>1. HandlerInv'
    BY HandlerStep DEF Base
<1>2. Elsewhere(c)
    BY DEF Base, HandlerInv, Elsewhere
<1>3. StoreStep(c)
    BY <1>2 DEF StoreStep, Passes
<1> QED
    BY <1>1, <1>3 DEF Preserved, Base, FilesInv

(* read takes the generation of its reply in a first snapshot.              *)
LEMMA ReadBeginStep ==
    ASSUME Base, NEW c \in Conns, NEW p \in Paths, ReadBegin(c, p)
    PROVE  Preserved(c)
<1> DEFINE o == [kind |-> "read", pc |-> "file", path |-> p, gen |-> cwd.gen]
<1>1. /\ UNCHANGED <<files, cwd, past, told, docs, grants, uses, temp>> /\ Accept(c)
      /\ roots' = RootSnapshot /\ op' = [op EXCEPT ![c] = o]
    BY DEF ReadBegin
<1>2. RootInv' /\ Keeps /\ Remembered(cwd.gen)'
    BY <1>1, RootsUnmoved, SnapshotKeeps DEF Base
<1>3. TicketInv'
    BY <1>1, TicketsStay DEF Base
<1>4. o \in ReadOps /\ o \in Operation
    BY DEF ReadOps, Operation, Base, RootInv
<1>5. op'[c] = o /\ temp'[c] = temp[c] /\ temp[c] = None /\ temp' = [temp EXCEPT ![c] = None]
    <2>1. temp[c] = None
        BY <1>1, OperationKinds DEF Base, HandlerInv, Accept
    <2> QED
        BY <1>1, <2>1 DEF Base, HandlerInv
<1>6. o.gen = cwd.gen /\ o.kind = "read" /\ cwd' = cwd
    BY <1>1
<1> HIDE DEF o
<1>7. HandlerOK(op[c], temp[c])'
    BY <1>2, <1>4, <1>5, <1>6 DEF HandlerOK, Remembered
<1>8. Pending(c)' = None
    BY <1>5, <1>6 DEF Pending, Busy
<1> QED
    BY <1>1, <1>2, <1>3, <1>4, <1>5, <1>7, <1>8, ProceedStep, AcceptBudget DEF Base

(* read resolves the path in a second snapshot; the generation it tells was *)
(* remembered by the first.                                                 *)
LEMMA ReadFileStep ==
    ASSUME Base, NEW c \in Conns, ReadFile(c)
    PROVE  Preserved(c)
<1>1. /\ UNCHANGED <<files, cwd, past, grants, uses, temp, budget>>
      /\ roots' = RootSnapshot /\ op' = [op EXCEPT ![c] = Idle]
      /\ \/ /\ told' = told \union {op[c].gen}
            /\ docs' = docs \union {[path |-> op[c].path, gen |-> op[c].gen, from |-> cwd.root]}
         \/ UNCHANGED <<told, docs>>
    BY DEF ReadFile
<1>2. op[c] \in ReadOps /\ temp[c] = None /\ Remembered(op[c].gen)
    BY OperationKinds DEF Base, HandlerInv, ReadFile, Busy
<1>3. op[c].gen \in Gens /\ op[c].path \in Paths /\ cwd.root \in Roots
    BY <1>2 DEF ReadOps, Base, RootInv
<1>4. Keeps /\ roots' \in [Gens -> Roots \union {None}]
    BY <1>1, SnapshotKeeps DEF Base
<1>5. \A g \in told \union {op[c].gen} : g \in Gens /\ Remembered(g)'
    BY <1>2, <1>3, <1>4 DEF Keeps, Base, RootInv
<1>6. told \subseteq told' /\ told' \subseteq told \union {op[c].gen}
    BY <1>1
<1>7. docs' \subseteq [path : Paths, gen : Gens, from : Roots]
    BY <1>1, <1>3 DEF Base, RootInv
<1>8. RootInv'
    BY <1>1, <1>4, <1>5, <1>6, <1>7 DEF Base, RootInv
<1>9. TicketInv'
    BY <1>1, <1>6, TicketsStay DEF Base
<1>10. Abandon(c)
    BY <1>1, <1>2 DEF Abandon, Base, HandlerInv
<1> QED
    BY <1>1, <1>4, <1>8, <1>9, <1>10, AbandonStep
-----------------------------------------------------------------------------
(* Saving                                                                   *)

(* Where a request that names generation g is sent.                         *)
LEMMA NamedFolder ==
    ASSUME RootInv, NEW g \in Named
    PROVE  /\ g \in MaybeGen
           /\ ResolvedIn(PinnedTo(g)) \in Roots /\ InFolder(g, ResolvedIn(PinnedTo(g)))
           /\ IF g = None THEN PinnedTo(g) = None
                          ELSE PinnedTo(g) \in Roots /\ InFolder(g, PinnedTo(g))
<1>1. CASE g = None
    BY <1>1 DEF MaybeGen, ResolvedIn, PinnedTo, InFolder, RootInv
<1>2. CASE g # None
    <2>1. g \in Gens /\ Remembered(g)
        BY <1>2 DEF Named, RootInv
    <2>2. FolderOf(g) = past[g] /\ past[g] \in Roots /\ FolderOf(g) # None
        BY <2>1, ToldFolder
    <2> QED
        BY <1>2, <2>1, <2>2 DEF MaybeGen, ResolvedIn, PinnedTo, InFolder
<1> QED
    BY <1>1, <1>2

(* A folder a request was resolved in stays the one of its generation.      *)
LEMMA InFolderStays ==
    ASSUME RootInv, Keeps, NEW g, NEW r, InFolder(g, r)
    PROVE  InFolder(g, r)'
BY DEF InFolder, Keeps, Remembered, RootInv, Gens

(* write resolves its path in the folder of the generation it is pinned to. *)
LEMMA WriteBeginStep ==
    ASSUME Base, NEW c \in Conns, NEW p \in Paths, NEW g \in Gens \union {None},
           NEW rev \in Contents, NEW v \in Contents, WriteBegin(c, p, g, rev, v)
    PROVE  Preserved(c)
<1>0. PICK r : r = ResolvedIn(PinnedTo(g))
    OBVIOUS
<1> DEFINE o == [kind |-> "write", pc |-> "check", gen |-> g, rev |-> rev, value |-> v,
                 at |-> <<r, p>>]
           t == [root |-> r, data |-> Partial]
<1>1. /\ UNCHANGED <<files, cwd, past, told, docs, grants, uses>> /\ Accept(c)
      /\ roots' = RootSnapshot /\ g \in Named
      /\ \/ op' = [op EXCEPT ![c] = o] /\ temp' = [temp EXCEPT ![c] = t]
         \/ UNCHANGED <<op, temp>>
    BY <1>0 DEF WriteBegin
<1>2. RootInv' /\ Keeps
    BY <1>1, RootsUnmoved DEF Base
<1>3. TicketInv'
    BY <1>1, TicketsStay DEF Base
<1>4. CASE UNCHANGED <<op, temp>>
    BY <1>1, <1>2, <1>3, <1>4, QuietStep, AcceptBudget DEF Base
<1>5. CASE op' = [op EXCEPT ![c] = o] /\ temp' = [temp EXCEPT ![c] = t]
    <2>1. g \in MaybeGen /\ r \in Roots /\ InFolder(g, r)
        BY <1>0, <1>1, NamedFolder DEF Base
    <2>2. InFolder(g, r)'
        BY <1>2, <2>1, InFolderStays DEF Base
    <2>3. o \in WriteOps /\ o \in Operation
        BY <2>1 DEF WriteOps, Operation, Place
    <2>4. t \in Temp({Partial}) /\ t \in Temp(Contents \union {Partial})
        BY <2>1 DEF Temp
    <2>5. o.gen = g /\ o.at[1] = r /\ o.kind = "write" /\ o.pc = "check"
        OBVIOUS
    <2> HIDE DEF o, t
    <2>6. op'[c] = o /\ temp'[c] = t
        BY <1>5 DEF Base, HandlerInv
    <2>7. HandlerOK(op[c], temp[c])'
        BY <2>2, <2>3, <2>4, <2>5, <2>6 DEF HandlerOK, InFolder, Remembered
    <2>8. Pending(c)' = None
        BY <2>5, <2>6 DEF Pending, Busy
    <2> QED
        BY <1>1, <1>2, <1>3, <1>5, <2>3, <2>4, <2>7, <2>8, ProceedStep, AcceptBudget DEF Base
<1> QED
    BY <1>1, <1>4, <1>5

(* write has its bytes in a temporary file and compares the revision again.*)
LEMMA WriteCheckStep ==
    ASSUME Base, NEW c \in Conns, WriteCheck(c)
    PROVE  Preserved(c)
<1>1. /\ UNCHANGED <<cwd, roots, past, told, docs, grants, uses, budget>>
      /\ op[c].kind = "write" /\ op[c].pc = "check"
    BY DEF WriteCheck, Busy
<1>2. RootInv' /\ Keeps
    BY <1>1, RootsUnmoved DEF Base
<1>3. TicketInv'
    BY <1>1, TicketsStay DEF Base
<1>4. CASE Abandon(c)
    BY <1>1, <1>2, <1>3, <1>4, AbandonStep
<1>5. CASE /\ files[op[c].at] = op[c].rev
           /\ temp' = [temp EXCEPT ![c].data = op[c].value]
           /\ op' = [op EXCEPT ![c].pc = "replace"]
           /\ UNCHANGED files
    <2>1. HandlerOK(op[c], temp[c]) /\ op[c] \in Operation
        BY DEF Base, HandlerInv
    <2>2. op[c] \in WriteOps /\ InFolder(op[c].gen, op[c].at[1]) /\ temp[c] \in Temp({Partial})
        BY <1>1, <2>1, OperationKinds
    <2> PICK o : o = [op[c] EXCEPT !.pc = "replace"]
        OBVIOUS
    <2> PICK t : t = [temp[c] EXCEPT !.data = op[c].value]
        OBVIOUS
    <2>3. op' = [op EXCEPT ![c] = o] /\ temp' = [temp EXCEPT ![c] = t]
        BY <1>5
    <2>4. o \in WriteOps
        BY <2>2 DEF WriteOps
    <2>5. t \in Temp({o.value}) /\ o.value \in Contents
        BY <2>2 DEF WriteOps, Temp
    <2>6. /\ o.gen = op[c].gen /\ o.at = op[c].at /\ o.kind = "write" /\ o.pc = "replace"
          /\ o.rev = op[c].rev /\ o.value = op[c].value
        BY <2>2 DEF WriteOps
    <2>7. o \in Operation /\ t \in Temp(Contents \union {Partial})
        BY <2>4, <2>5 DEF Operation, Temp
    <2>8. op'[c] = o /\ temp'[c] = t
        BY <2>3 DEF Base, HandlerInv
    <2>9. InFolder(o.gen, o.at[1])'
        BY <1>2, <2>2, <2>6, InFolderStays DEF Base
    <2>10. HandlerOK(op[c], temp[c])'
        BY <2>4, <2>5, <2>6, <2>8, <2>9 DEF HandlerOK, InFolder, Remembered
    <2>11. Pending(c) = None
        BY <1>1, <2>1, PendingOf
    <2>12. Pending(c)' = [kind |-> "write", at |-> o.at, rev |-> o.rev, value |-> o.value]
        BY <2>6, <2>8 DEF Pending, Busy
    <2>13. Pending(c)' # None
        BY <2>4, <2>12, NoRequestAssumption DEF WriteOps, Store!Requests, Store!Place, Place
    <2>14. Store!Applies(Pending(c))'
        BY <1>5, <2>6, <2>12 DEF Store!Applies
    <2>15. Looks(c)
        BY <1>5, <2>11, <2>13, <2>14 DEF Looks
    <2> QED
        BY <1>1, <1>2, <1>3, <1>5, <2>3, <2>7, <2>10, <2>15, ProceedStep DEF Base, FilesInv
<1> QED
    BY <1>4, <1>5 DEF WriteCheck

(* A complete temporary file is moved in place.                             *)
LEMMA ReplaceStep ==
    ASSUME Base, RootInv', Keeps, TicketInv', NEW c \in Conns, budget' = budget,
           op[c].at \in Place, temp[c] \in Temp(Contents),
           op' = [op EXCEPT ![c] = Idle], temp' = [temp EXCEPT ![c] = None],
           files' = [files EXCEPT ![op[c].at] = temp[c].data],
           Pending(c) # None, Store!Applies(Pending(c)) \/ Store!Overtakes(Pending(c)),
           files' = Store!Effect(Pending(c))
    PROVE  Preserved(c)
<1>1. HandlerInv'
    BY HandlerReturns DEF Base
<1>2. op'[c] = Idle /\ Elsewhere(c)
    BY DEF Base, HandlerInv, Elsewhere
<1>3. StoreStep(c)
    BY <1>2, IdleIsNotPending DEF StoreStep, Performs
<1>4. temp[c].data \in Contents
    BY DEF Temp
<1>5. FilesInv'
    BY <1>4 DEF Base, FilesInv
<1> QED
    BY <1>1, <1>3, <1>5 DEF Preserved, Base

(* write replaces the file by its temporary one.                            *)
LEMMA WriteReplaceStep ==
    ASSUME Base, NEW c \in Conns, WriteReplace(c)
    PROVE  Preserved(c)
<1>1. /\ UNCHANGED <<cwd, roots, past, told, docs, grants, uses, budget>>
      /\ op[c].kind = "write" /\ op[c].pc = "replace"
    BY DEF WriteReplace, Busy
<1>2. RootInv' /\ Keeps
    BY <1>1, RootsUnmoved DEF Base
<1>3. TicketInv'
    BY <1>1, TicketsStay DEF Base
<1>4. CASE Abandon(c)
    BY <1>1, <1>2, <1>3, <1>4, AbandonStep
<1>5. CASE /\ files[op[c].at] # Folder
           /\ files' = [files EXCEPT ![op[c].at] = temp[c].data]
           /\ temp' = [temp EXCEPT ![c] = None]
           /\ op' = [op EXCEPT ![c] = Idle]
    <2>1. HandlerOK(op[c], temp[c])
        BY DEF Base, HandlerInv
    <2>2. op[c] \in WriteOps /\ temp[c] \in Temp({op[c].value})
        BY <1>1, <2>1, OperationKinds
    <2>3. op[c].at \in Place /\ op[c].value \in Contents /\ temp[c].data = op[c].value
        BY <2>2 DEF WriteOps, Temp
    <2>4. Pending(c) = [kind |-> "write", at |-> op[c].at, rev |-> op[c].rev, value |-> op[c].value]
        BY <1>1, <2>1, PendingOf
    <2>5. Pending(c) # None
        BY <2>2, <2>4, NoRequestAssumption DEF WriteOps, Store!Requests, Store!Place, Place
    <2>6. Store!Overtakes(Pending(c))
        BY <1>5, <2>4 DEF Store!Overtakes
    <2>7. files' = Store!Effect(Pending(c))
        BY <1>5, <2>3, <2>4 DEF Store!Effect
    <2>8. temp[c] \in Temp(Contents)
        BY <2>2, <2>3 DEF Temp
    <2> QED
        BY <1>1, <1>2, <1>3, <1>5, <2>3, <2>5, <2>6, <2>7, <2>8, ReplaceStep
<1> QED
    BY <1>4, <1>5 DEF WriteReplace, ReplaceFile
-----------------------------------------------------------------------------
(* Uploading                                                                *)

(* An upload spends its ticket and opens its temporary file.                *)
LEMMA ConsumeUploadStep ==
    ASSUME Base, NEW c \in Conns, NEW u \in Tickets, NEW l \in BOOLEAN, ConsumeUpload(c, u, l)
    PROVE  Preserved(c)
<1>0. PICK g : g = grants[u]
    OBVIOUS
<1>a. PICK r : r = FolderOf(g.gen)
    OBVIOUS
<1> DEFINE o == [kind |-> "upload", pc |-> "body", gen |-> g.gen, overwrite |-> g.overwrite,
                 at |-> <<r, g.path>>]
           t == [root |-> r, data |-> Partial]
<1>1. /\ UNCHANGED <<files, cwd, past, told, docs, budget>> /\ op[c] = Idle
      /\ roots' = RootSnapshot /\ Spend(u) /\ g # None
      /\ uses' \in {uses, [uses EXCEPT ![u] = @ + 1]}
      /\ \/ op' = [op EXCEPT ![c] = o] /\ temp' = [temp EXCEPT ![c] = t]
         \/ UNCHANGED <<op, temp>>
    BY <1>0, <1>a DEF ConsumeUpload, Granted
<1>2. RootInv' /\ Keeps
    BY <1>1, RootsUnmoved DEF Base
<1>3. TicketInv'
    BY <1>0, <1>1, SpendTicket DEF Base
<1>4. CASE UNCHANGED <<op, temp>>
    BY <1>1, <1>2, <1>3, <1>4, QuietStep DEF Base, FilesInv
<1>5. CASE op' = [op EXCEPT ![c] = o] /\ temp' = [temp EXCEPT ![c] = t]
    <2>1. g \in Grant /\ g.gen \in told /\ g.gen \in Gens
        BY <1>0, <1>1 DEF Base, TicketInv, RootInv
    <2>2. Remembered(g.gen)
        BY <2>1 DEF Base, RootInv
    <2>3. r = past[g.gen] /\ r \in Roots
        BY <1>a, <2>2, ToldFolder DEF Base
    <2>4. InFolder(g.gen, r)
        BY <2>2, <2>3 DEF InFolder
    <2>5. InFolder(g.gen, r)'
        BY <1>2, <2>4, InFolderStays DEF Base
    <2>6. o \in UploadOps /\ o \in Operation
        BY <2>1, <2>3 DEF UploadOps, Operation, Place, Grant
    <2>7. t \in Temp({Partial}) /\ t \in Temp(Contents \union {Partial})
        BY <2>3 DEF Temp
    <2>8. o.gen = g.gen /\ o.at[1] = r /\ o.kind = "upload" /\ o.pc = "body"
        OBVIOUS
    <2> HIDE DEF o, t
    <2>9. op'[c] = o /\ temp'[c] = t
        BY <1>5 DEF Base, HandlerInv
    <2>10. HandlerOK(op[c], temp[c])'
        BY <2>5, <2>6, <2>7, <2>8, <2>9 DEF HandlerOK, InFolder, Remembered
    <2>11. Pending(c)' = None
        BY <2>8, <2>9 DEF Pending, Busy
    <2> QED
        BY <1>1, <1>2, <1>3, <1>5, <2>6, <2>7, <2>10, <2>11, ProceedStep DEF Base, FilesInv
<1> QED
    BY <1>1, <1>4, <1>5

(* The body of an upload arrives, or breaks off.                            *)
LEMMA UploadBodyStep ==
    ASSUME Base, NEW c \in Conns, UploadBody(c)
    PROVE  Preserved(c)
<1>1. /\ UNCHANGED <<cwd, roots, past, told, docs, grants, uses, budget>>
      /\ op[c].kind = "upload" /\ op[c].pc = "body"
    BY DEF UploadBody, Busy
<1>2. RootInv' /\ Keeps
    BY <1>1, RootsUnmoved DEF Base
<1>3. TicketInv'
    BY <1>1, TicketsStay DEF Base
<1>4. CASE Abandon(c)
    BY <1>1, <1>2, <1>3, <1>4, AbandonStep
<1>5. CASE /\ \E v \in Contents : temp' = [temp EXCEPT ![c].data = v]
           /\ op' = [op EXCEPT ![c].pc = "check"]
           /\ UNCHANGED files
    <2>1. PICK v \in Contents : temp' = [temp EXCEPT ![c].data = v]
        BY <1>5
    <2>2. HandlerOK(op[c], temp[c])
        BY DEF Base, HandlerInv
    <2>3. op[c] \in UploadOps /\ InFolder(op[c].gen, op[c].at[1]) /\ temp[c] \in Temp({Partial})
        BY <1>1, <2>2, OperationKinds
    <2> PICK o : o = [op[c] EXCEPT !.pc = "check"]
        OBVIOUS
    <2> PICK t : t = [temp[c] EXCEPT !.data = v]
        OBVIOUS
    <2>4. op' = [op EXCEPT ![c] = o] /\ temp' = [temp EXCEPT ![c] = t]
        BY <1>5, <2>1
    <2>5. o \in UploadOps
        BY <2>3 DEF UploadOps
    <2>6. t \in Temp(Contents)
        BY <2>3 DEF Temp
    <2>7. o.gen = op[c].gen /\ o.at = op[c].at /\ o.kind = "upload" /\ o.pc = "check"
        BY <2>3 DEF UploadOps
    <2>8. o \in Operation /\ t \in Temp(Contents \union {Partial})
        BY <2>5, <2>6 DEF Operation, Temp
    <2>9. op'[c] = o /\ temp'[c] = t
        BY <2>4 DEF Base, HandlerInv
    <2>10. InFolder(o.gen, o.at[1])'
        BY <1>2, <2>3, <2>7, InFolderStays DEF Base
    <2>11. HandlerOK(op[c], temp[c])'
        BY <2>5, <2>6, <2>7, <2>9, <2>10 DEF HandlerOK, InFolder, Remembered
    <2>12. Pending(c)' = None
        BY <2>7, <2>9 DEF Pending, Busy
    <2> QED
        BY <1>1, <1>2, <1>3, <1>5, <2>4, <2>8, <2>11, <2>12, ProceedStep DEF Base, FilesInv
<1> QED
    BY <1>4, <1>5 DEF UploadBody

(* An upload checks its target once more before it puts the file in place. *)
LEMMA UploadCheckStep ==
    ASSUME Base, NEW c \in Conns, UploadCheck(c)
    PROVE  Preserved(c)
<1>1. /\ UNCHANGED <<cwd, roots, past, told, docs, grants, uses, budget>>
      /\ op[c].kind = "upload" /\ op[c].pc = "check"
    BY DEF UploadCheck, Busy
<1>2. RootInv' /\ Keeps
    BY <1>1, RootsUnmoved DEF Base
<1>3. TicketInv'
    BY <1>1, TicketsStay DEF Base
<1>4. CASE Abandon(c)
    BY <1>1, <1>2, <1>3, <1>4, AbandonStep
<1>5. CASE /\ UploadTarget(op[c].at, op[c].overwrite)
           /\ op' = [op EXCEPT ![c].pc = "link"] /\ UNCHANGED <<files, temp>>
    <2>1. HandlerOK(op[c], temp[c])
        BY DEF Base, HandlerInv
    <2>2. op[c] \in UploadOps /\ InFolder(op[c].gen, op[c].at[1]) /\ temp[c] \in Temp(Contents)
        BY <1>1, <2>1, OperationKinds
    <2> PICK o : o = [op[c] EXCEPT !.pc = "link"]
        OBVIOUS
    <2> PICK t : t = temp[c]
        OBVIOUS
    <2>3. op' = [op EXCEPT ![c] = o] /\ temp' = [temp EXCEPT ![c] = t]
        BY <1>5 DEF Base, HandlerInv
    <2>4. o \in UploadOps /\ t \in Temp(Contents)
        BY <2>2 DEF UploadOps
    <2>5. /\ o.gen = op[c].gen /\ o.at = op[c].at /\ o.kind = "upload" /\ o.pc = "link"
          /\ o.overwrite = op[c].overwrite
        BY <2>2 DEF UploadOps
    <2>6. o \in Operation /\ t \in Temp(Contents \union {Partial})
        BY <2>4 DEF Operation, Temp
    <2>7. op'[c] = o /\ temp'[c] = t
        BY <2>3 DEF Base, HandlerInv
    <2>8. InFolder(o.gen, o.at[1])'
        BY <1>2, <2>2, <2>5, InFolderStays DEF Base
    <2>9. HandlerOK(op[c], temp[c])'
        BY <2>4, <2>5, <2>7, <2>8 DEF HandlerOK, InFolder, Remembered
    <2>10. Pending(c) = None
        BY <1>1, <2>1, PendingOf
    <2>11. Pending(c)' = [kind |-> "upload", at |-> o.at, overwrite |-> o.overwrite,
                          value |-> t.data]
        BY <2>5, <2>7 DEF Pending, Busy
    <2>12. Pending(c)' # None
        <3>1. t.data \in Contents
            BY <2>4 DEF Temp
        <3> QED
            BY <2>4, <2>11, <3>1, NoRequestAssumption DEF UploadOps, Store!Requests, Store!Place, Place
    <2>13. files[o.at] = Absent \/ (o.overwrite /\ files[o.at] \in Contents)
        <3>1. o.at \in Place
            BY <2>4 DEF UploadOps
        <3> QED
            BY <1>5, <2>5, <3>1 DEF UploadTarget, IsFile, Base, FilesInv
    <2>14. Store!Applies(Pending(c))'
        BY <1>5, <2>11, <2>13 DEF Store!Applies
    <2>15. Looks(c)
        BY <1>5, <2>10, <2>12, <2>14 DEF Looks
    <2> QED
        BY <1>1, <1>2, <1>3, <1>5, <2>3, <2>6, <2>9, <2>15, ProceedStep DEF Base, FilesInv
<1> QED
    BY <1>4, <1>5 DEF UploadCheck

(* An upload puts its temporary file in place.                              *)
LEMMA UploadLinkStep ==
    ASSUME Base, NEW c \in Conns, UploadLink(c)
    PROVE  Preserved(c)
<1>1. /\ UNCHANGED <<cwd, roots, past, told, docs, grants, uses, budget>>
      /\ op[c].kind = "upload" /\ op[c].pc = "link"
    BY DEF UploadLink, Busy
<1>2. RootInv' /\ Keeps
    BY <1>1, RootsUnmoved DEF Base
<1>3. TicketInv'
    BY <1>1, TicketsStay DEF Base
<1>4. CASE Abandon(c)
    BY <1>1, <1>2, <1>3, <1>4, AbandonStep
<1>5. CASE /\ files[op[c].at] # Folder /\ (op[c].overwrite \/ files[op[c].at] = Absent)
           /\ files' = [files EXCEPT ![op[c].at] = temp[c].data]
           /\ temp' = [temp EXCEPT ![c] = None]
           /\ op' = [op EXCEPT ![c] = Idle]
    <2>1. HandlerOK(op[c], temp[c])
        BY DEF Base, HandlerInv
    <2>2. op[c] \in UploadOps /\ temp[c] \in Temp(Contents)
        BY <1>1, <2>1, OperationKinds
    <2>3. op[c].at \in Place /\ temp[c].data \in Contents
        BY <2>2 DEF UploadOps, Temp
    <2>4. Pending(c) = [kind |-> "upload", at |-> op[c].at, overwrite |-> op[c].overwrite,
                        value |-> temp[c].data]
        BY <1>1, <2>1, PendingOf
    <2>5. Pending(c) # None
        BY <2>2, <2>3, <2>4, NoRequestAssumption DEF UploadOps, Store!Requests, Store!Place, Place
    <2>6. files[op[c].at] = Absent \/ (op[c].overwrite /\ files[op[c].at] \in Contents)
        BY <1>5, <2>3 DEF Base, FilesInv
    <2>7. Store!Applies(Pending(c))
        BY <2>4, <2>6 DEF Store!Applies
    <2>8. files' = Store!Effect(Pending(c))
        BY <1>5, <2>4 DEF Store!Effect
    <2> QED
        BY <1>1, <1>2, <1>3, <1>5, <2>2, <2>3, <2>5, <2>7, <2>8, ReplaceStep
<1>6. CASE op[c].overwrite
    BY <1>4, <1>5, <1>6 DEF UploadLink, ReplaceFile
<1>7. CASE ~op[c].overwrite
    BY <1>4, <1>5, <1>7 DEF UploadLink, LinkNew, ReplaceFile
<1> QED
    BY <1>6, <1>7
-----------------------------------------------------------------------------
(* Creating, moving and deleting                                            *)

(* A handler without a temporary file returns: its request had no effect,   *)
(* or its full effect.                                                      *)
LEMMA FinishStep ==
    ASSUME Base, RootInv', Keeps, TicketInv', NEW c \in Conns, budget' = budget,
           temp[c] = None, op' = [op EXCEPT ![c] = Idle], UNCHANGED temp,
           files' \in [Place -> Contents \union {Absent, Folder}],
           \/ files' = files
           \/ /\ Pending(c) # None
              /\ Store!Applies(Pending(c)) \/ Store!Overtakes(Pending(c))
              /\ files' = Store!Effect(Pending(c))
    PROVE  Preserved(c)
<1>1. temp' = [temp EXCEPT ![c] = None]
    BY DEF Base, HandlerInv
<1>2. HandlerInv'
    BY <1>1, HandlerReturns DEF Base
<1>3. op'[c] = Idle /\ Elsewhere(c)
    BY DEF Base, HandlerInv, Elsewhere
<1>4. StoreStep(c)
    BY <1>3, IdleIsNotPending DEF StoreStep, Performs, Passes
<1> QED
    BY <1>2, <1>4 DEF Preserved, Base, FilesInv

(* A request that needs no temporary file is taken up.                      *)
LEMMA BeginStep ==
    ASSUME Base, RootInv', Keeps, TicketInv', NEW c \in Conns, NEW o \in Operation,
           temp[c] = None, op' = [op EXCEPT ![c] = o], UNCHANGED <<files, temp>>,
           budget' \in 0..MaxRequests,
           HandlerOK(o, None)', Pending(c)' = None \/ Looks(c)
    PROVE  Preserved(c)
<1>1. temp' = [temp EXCEPT ![c] = None]
    BY DEF Base, HandlerInv
<1>2. op'[c] = o /\ temp'[c] = None
    BY DEF Base, HandlerInv
<1>3. HandlerOK(op[c], temp[c])'
    BY <1>2 DEF HandlerOK, InFolder, Remembered
<1> QED
    BY <1>1, <1>3, ProceedStep

(* create resolves its path in the folder of the moment.                    *)
LEMMA CreateBeginStep ==
    ASSUME Base, NEW c \in Conns, NEW p \in Paths, NEW v \in {EmptyText, Folder},
           CreateBegin(c, p, v)
    PROVE  Preserved(c)
<1>0. PICK at : at = <<cwd.root, p>>
    OBVIOUS
<1> DEFINE o == [kind |-> "create", pc |-> "make", gen |-> None, value |-> v, at |-> at]
<1>1. /\ UNCHANGED <<files, cwd, past, told, docs, grants, uses, temp>> /\ Accept(c)
      /\ roots' = RootSnapshot
      /\ \/ op' = [op EXCEPT ![c] = o] /\ files[at] = Absent
         \/ UNCHANGED op
    BY <1>0 DEF CreateBegin, Begin
<1>2. RootInv' /\ Keeps
    BY <1>1, RootsUnmoved DEF Base
<1>3. TicketInv'
    BY <1>1, TicketsStay DEF Base
<1>4. CASE UNCHANGED op
    BY <1>1, <1>2, <1>3, <1>4, QuietStep, AcceptBudget DEF Base
<1>5. CASE op' = [op EXCEPT ![c] = o] /\ files[at] = Absent
    <2>1. HandlerOK(op[c], temp[c]) /\ op[c] = Idle
        BY <1>1 DEF Base, HandlerInv, Accept
    <2>2. temp[c] = None /\ Pending(c) = None
        BY <2>1, OperationKinds, IdleIsNotPending
    <2>3. at \in Place /\ v \in Contents \union {Folder}
        BY <1>0 DEF Place, Base, RootInv
    <2>4. o \in CreateOps /\ o \in Operation
        BY <2>3 DEF CreateOps, Operation
    <2>5. op'[c] = o
        BY <1>5 DEF Base, HandlerInv
    <2>6. Pending(c)' = [kind |-> "create", at |-> at, value |-> v]
        BY <2>5 DEF Pending, Busy
    <2> HIDE DEF o
    <2>7. HandlerOK(o, None)'
        BY <2>4 DEF HandlerOK
    <2>8. Pending(c)' # None
        BY <2>3, <2>6, NoRequestAssumption DEF Store!Requests, Store!Place, Place
    <2>9. Store!Applies(Pending(c))'
        BY <1>1, <1>5, <2>6 DEF Store!Applies
    <2>10. Looks(c)
        BY <1>1, <2>2, <2>8, <2>9 DEF Looks
    <2> QED
        BY <1>1, <1>2, <1>3, <1>5, <2>2, <2>4, <2>7, <2>10, BeginStep, AcceptBudget DEF Base
<1> QED
    BY <1>1, <1>4, <1>5

(* create makes the file or folder only where nothing is.                   *)
LEMMA CreateMakeStep ==
    ASSUME Base, NEW c \in Conns, CreateMake(c)
    PROVE  Preserved(c)
<1>1. /\ UNCHANGED <<cwd, roots, past, told, docs, grants, uses, budget, temp>>
      /\ op[c].kind = "create" /\ op' = [op EXCEPT ![c] = Idle]
      /\ files' = IF files[op[c].at] = Absent
                  THEN [files EXCEPT ![op[c].at] = op[c].value] ELSE files
    BY DEF CreateMake, Busy, Finish
<1>2. RootInv' /\ Keeps
    BY <1>1, RootsUnmoved DEF Base
<1>3. TicketInv'
    BY <1>1, TicketsStay DEF Base
<1>4. HandlerOK(op[c], temp[c])
    BY DEF Base, HandlerInv
<1>5. op[c] \in CreateOps /\ temp[c] = None
    BY <1>1, <1>4, OperationKinds
<1>6. op[c].at \in Place /\ op[c].value \in Contents \union {Folder}
    BY <1>5 DEF CreateOps
<1>7. Pending(c) = [kind |-> "create", at |-> op[c].at, value |-> op[c].value]
    BY <1>1, <1>4, PendingOf
<1>8. Pending(c) # None
    BY <1>6, <1>7, NoRequestAssumption DEF Store!Requests, Store!Place, Place
<1>9. CASE files[op[c].at] = Absent
    <2>1. files' = [files EXCEPT ![op[c].at] = op[c].value]
        BY <1>1, <1>9
    <2>2. files' \in [Place -> Contents \union {Absent, Folder}]
        BY <1>6, <2>1 DEF Base, FilesInv
    <2>3. files' = Store!Effect(Pending(c))
        BY <1>7, <2>1 DEF Store!Effect
    <2>4. Store!Applies(Pending(c))
        BY <1>7, <1>9 DEF Store!Applies
    <2> QED
        BY <1>1, <1>2, <1>3, <1>5, <1>8, <2>2, <2>3, <2>4, FinishStep
<1>10. CASE files[op[c].at] # Absent
    BY <1>1, <1>2, <1>3, <1>5, <1>10, FinishStep DEF Base, FilesInv
<1> QED
    BY <1>9, <1>10

(* delete resolves its path and looks whether it is a folder.               *)
LEMMA DeleteBeginStep ==
    ASSUME Base, NEW c \in Conns, NEW p \in Paths, DeleteBegin(c, p)
    PROVE  Preserved(c)
<1>0. PICK at : at = <<cwd.root, p>>
    OBVIOUS
<1>a. PICK folder \in BOOLEAN : folder = (files[at] = Folder)
    OBVIOUS
<1> DEFINE o == [kind |-> "delete", pc |-> "remove", gen |-> None, folder |-> folder, at |-> at]
<1>1. /\ UNCHANGED <<files, cwd, past, told, docs, grants, uses, temp>> /\ Accept(c)
      /\ roots' = RootSnapshot
      /\ \/ op' = [op EXCEPT ![c] = o] /\ files[at] # Absent
         \/ UNCHANGED op
    BY <1>0, <1>a DEF DeleteBegin, Begin
<1>2. RootInv' /\ Keeps
    BY <1>1, RootsUnmoved DEF Base
<1>3. TicketInv'
    BY <1>1, TicketsStay DEF Base
<1>4. CASE UNCHANGED op
    BY <1>1, <1>2, <1>3, <1>4, QuietStep, AcceptBudget DEF Base
<1>5. CASE op' = [op EXCEPT ![c] = o] /\ files[at] # Absent
    <2>1. HandlerOK(op[c], temp[c]) /\ op[c] = Idle
        BY <1>1 DEF Base, HandlerInv, Accept
    <2>2. temp[c] = None /\ Pending(c) = None
        BY <2>1, OperationKinds, IdleIsNotPending
    <2>3. at \in Place
        BY <1>0 DEF Place, Base, RootInv
    <2>4. o \in DeleteOps /\ o \in Operation
        BY <2>3 DEF DeleteOps, Operation
    <2>5. op'[c] = o
        BY <1>5 DEF Base, HandlerInv
    <2>6. Pending(c)' = [kind |-> "delete", at |-> at, folder |-> folder]
        BY <2>5 DEF Pending, Busy
    <2> HIDE DEF o
    <2>7. HandlerOK(o, None)'
        BY <2>4 DEF HandlerOK
    <2>8. Pending(c)' # None
        BY <2>3, <2>6, NoRequestAssumption DEF Store!Requests, Store!Place, Place
    <2>9. Store!Applies(Pending(c))'
        BY <1>a, <1>1, <1>5, <2>6 DEF Store!Applies
    <2>10. Looks(c)
        BY <1>1, <2>2, <2>8, <2>9 DEF Looks
    <2> QED
        BY <1>1, <1>2, <1>3, <1>5, <2>2, <2>4, <2>7, <2>10, BeginStep, AcceptBudget DEF Base
<1> QED
    BY <1>1, <1>4, <1>5

(* delete removes what is still of the kind it saw.                         *)
LEMMA DeleteRemoveStep ==
    ASSUME Base, NEW c \in Conns, DeleteRemove(c)
    PROVE  Preserved(c)
<1>1. /\ UNCHANGED <<cwd, roots, past, told, docs, grants, uses, budget, temp>>
      /\ op[c].kind = "delete" /\ op' = [op EXCEPT ![c] = Idle]
      /\ files' = IF op[c].folder = (files[op[c].at] = Folder)
                  THEN [files EXCEPT ![op[c].at] = Absent] ELSE files
    BY DEF DeleteRemove, Busy, Finish
<1>2. RootInv' /\ Keeps
    BY <1>1, RootsUnmoved DEF Base
<1>3. TicketInv'
    BY <1>1, TicketsStay DEF Base
<1>4. HandlerOK(op[c], temp[c])
    BY DEF Base, HandlerInv
<1>5. op[c] \in DeleteOps /\ temp[c] = None
    BY <1>1, <1>4, OperationKinds
<1>6. op[c].at \in Place /\ op[c].folder \in BOOLEAN
    BY <1>5 DEF DeleteOps
<1>7. Pending(c) = [kind |-> "delete", at |-> op[c].at, folder |-> op[c].folder]
    BY <1>1, <1>4, PendingOf
<1>8. Pending(c) # None
    BY <1>6, <1>7, NoRequestAssumption DEF Store!Requests, Store!Place, Place
<1>9. CASE files[op[c].at] # Absent /\ op[c].folder = (files[op[c].at] = Folder)
    <2>1. files' = [files EXCEPT ![op[c].at] = Absent]
        BY <1>1, <1>9
    <2>2. files' \in [Place -> Contents \union {Absent, Folder}]
        BY <1>6, <2>1 DEF Base, FilesInv
    <2>3. files' = Store!Effect(Pending(c))
        BY <1>7, <2>1 DEF Store!Effect
    <2>4. Store!Applies(Pending(c))
        BY <1>7, <1>9 DEF Store!Applies
    <2> QED
        BY <1>1, <1>2, <1>3, <1>5, <1>8, <2>2, <2>3, <2>4, FinishStep
<1>10. CASE ~(files[op[c].at] # Absent /\ op[c].folder = (files[op[c].at] = Folder))
    <2>1. files' = files
        <3>1. files' = files \/ (files[op[c].at] = Absent /\ files' = [files EXCEPT ![op[c].at] = Absent])
            BY <1>1, <1>10
        <3> QED
            BY <3>1 DEF Base, FilesInv
    <2> QED
        BY <1>1, <1>2, <1>3, <1>5, <2>1, FinishStep DEF Base, FilesInv
<1> QED
    BY <1>9, <1>10

(* move resolves its source.                                                *)
LEMMA MoveBeginStep ==
    ASSUME Base, NEW c \in Conns, NEW p \in Paths, NEW q \in Paths,
           NEW g \in Gens \union {None}, MoveBegin(c, p, q, g)
    PROVE  Preserved(c)
<1>0. PICK pin : pin = PinnedTo(g)
    OBVIOUS
<1>a. PICK r : r = ResolvedIn(PinnedTo(g))
    OBVIOUS
<1> DEFINE o == [kind |-> "move", pc |-> "target", gen |-> g, pin |-> pin,
                 at |-> <<r, p>>, name |-> q]
<1>1. /\ UNCHANGED <<files, cwd, past, told, docs, grants, uses, temp>> /\ Accept(c)
      /\ roots' = RootSnapshot /\ g \in Named
      /\ op' = [op EXCEPT ![c] = o] \/ UNCHANGED op
    BY <1>0, <1>a DEF MoveBegin, Begin
<1>2. RootInv' /\ Keeps
    BY <1>1, RootsUnmoved DEF Base
<1>3. TicketInv'
    BY <1>1, TicketsStay DEF Base
<1>4. CASE UNCHANGED op
    BY <1>1, <1>2, <1>3, <1>4, QuietStep, AcceptBudget DEF Base
<1>5. CASE op' = [op EXCEPT ![c] = o]
    <2>1. temp[c] = None
        BY <1>1, OperationKinds DEF Base, HandlerInv, Accept
    <2>2. /\ g \in MaybeGen /\ r \in Roots /\ InFolder(g, r)
          /\ IF g = None THEN pin = None ELSE pin \in Roots /\ InFolder(g, pin)
        BY <1>0, <1>a, <1>1, NamedFolder DEF Base
    <2>3. InFolder(g, r)' /\ (g # None => InFolder(g, pin)')
        BY <1>2, <2>2, InFolderStays DEF Base
    <2>4. o \in MoveTargetOps /\ o \in Operation
        BY <2>2 DEF MoveTargetOps, Operation, Place
    <2>5. o.gen = g /\ o.at[1] = r /\ o.pin = pin /\ o.kind = "move" /\ o.pc = "target"
        OBVIOUS
    <2> HIDE DEF o
    <2>6. HandlerOK(o, None)'
        BY <2>2, <2>3, <2>4, <2>5 DEF HandlerOK, InFolder, Remembered
    <2>7. op'[c] = o
        BY <1>5 DEF Base, HandlerInv
    <2>8. Pending(c)' = None
        BY <2>5, <2>7 DEF Pending, Busy
    <2> QED
        BY <1>1, <1>2, <1>3, <1>5, <2>1, <2>4, <2>6, <2>8, BeginStep, AcceptBudget DEF Base
<1> QED
    BY <1>1, <1>4, <1>5

(* move resolves its target in a second look.                               *)
LEMMA MoveTargetStep ==
    ASSUME Base, NEW c \in Conns, MoveTarget(c)
    PROVE  Preserved(c)
<1>0. PICK r : r = ResolvedIn(op[c].pin)
    OBVIOUS
<1>a. PICK old : old = op[c]
    OBVIOUS
<1> DEFINE to == <<r, old.name>>
           o == [kind |-> "move", pc |-> "rename", gen |-> old.gen, at |-> old.at, to |-> to]
<1>1. /\ UNCHANGED <<cwd, past, told, docs, grants, uses, budget>>
      /\ roots' = RootSnapshot /\ old.kind = "move" /\ old.pc = "target"
      /\ \/ files[to] = Absent /\ op' = [op EXCEPT ![c] = o] /\ UNCHANGED <<files, temp>>
         \/ Abandon(c)
    BY <1>0, <1>a DEF MoveTarget, Begin, Busy
<1>2. RootInv' /\ Keeps
    BY <1>1, RootsUnmoved DEF Base
<1>3. TicketInv'
    BY <1>1, TicketsStay DEF Base
<1>4. CASE Abandon(c)
    BY <1>1, <1>2, <1>3, <1>4, AbandonStep
<1>5. CASE files[to] = Absent /\ op' = [op EXCEPT ![c] = o] /\ UNCHANGED <<files, temp>>
    <2>1. HandlerOK(old, temp[c]) /\ HandlerOK(op[c], temp[c])
        BY <1>a DEF Base, HandlerInv
    <2>2. /\ old \in MoveTargetOps /\ temp[c] = None /\ InFolder(old.gen, old.at[1])
          /\ IF old.gen = None THEN old.pin = None ELSE old.pin \in Roots /\ InFolder(old.gen, old.pin)
        BY <1>1, <2>1, OperationKinds
    <2>3. r \in Roots /\ InFolder(old.gen, r)
        <3>1. CASE old.gen = None
            BY <1>0, <1>a, <2>2, <3>1 DEF ResolvedIn, InFolder, Base, RootInv
        <3>2. CASE old.gen # None
            BY <1>0, <1>a, <2>2, <3>2 DEF ResolvedIn
        <3> QED
            BY <3>1, <3>2
    <2>4. InFolder(old.gen, old.at[1])' /\ InFolder(old.gen, r)'
        BY <1>2, <2>2, <2>3, InFolderStays DEF Base
    <2>5. to \in Place /\ old.at \in Place /\ old.gen \in MaybeGen
        BY <2>2, <2>3 DEF MoveTargetOps, Place
    <2>6. o \in MoveRenameOps /\ o \in Operation
        BY <2>5 DEF MoveRenameOps, Operation
    <2>7. o.gen = old.gen /\ o.at = old.at /\ o.to = to /\ to[1] = r /\ o.kind = "move" /\ o.pc = "rename"
        OBVIOUS
    <2>8. op'[c] = o
        BY <1>5 DEF Base, HandlerInv
    <2> HIDE DEF o, to
    <2>9. HandlerOK(o, None)'
        BY <2>4, <2>6, <2>7 DEF HandlerOK, InFolder, Remembered
    <2>10. Pending(c) = None
        BY <1>a, <1>1, <2>1, PendingOf
    <2>11. Pending(c)' = [kind |-> "move", at |-> old.at, to |-> to]
        BY <2>7, <2>8 DEF Pending, Busy
    <2>12. Pending(c)' # None
        BY <2>5, <2>11, NoRequestAssumption DEF Store!Requests, Store!Place, Place
    <2>13. Store!Applies(Pending(c))'
        BY <1>5, <2>11 DEF Store!Applies
    <2>14. Looks(c)
        BY <1>5, <2>10, <2>12, <2>13 DEF Looks
    <2> QED
        BY <1>1, <1>2, <1>3, <1>5, <2>2, <2>6, <2>9, <2>14, BeginStep DEF Base, FilesInv
<1> QED
    BY <1>1, <1>4, <1>5

(* move renames.                                                            *)
LEMMA MoveRenameStep ==
    ASSUME Base, NEW c \in Conns, MoveRename(c)
    PROVE  Preserved(c)
<1>0. PICK at : at = op[c].at
    OBVIOUS
<1>a. PICK to : to = op[c].to
    OBVIOUS
<1>1. /\ UNCHANGED <<cwd, roots, past, told, docs, grants, uses, budget, temp>>
      /\ op[c].kind = "move" /\ op[c].pc = "rename" /\ op' = [op EXCEPT ![c] = Idle]
      /\ files' = IF files[at] = Absent THEN files ELSE Renamed(at, to)
    BY <1>0, <1>a DEF MoveRename, Busy, Finish
<1>2. RootInv' /\ Keeps
    BY <1>1, RootsUnmoved DEF Base
<1>3. TicketInv'
    BY <1>1, TicketsStay DEF Base
<1>4. HandlerOK(op[c], temp[c])
    BY DEF Base, HandlerInv
<1>5. op[c] \in MoveRenameOps /\ temp[c] = None
    BY <1>1, <1>4, OperationKinds
<1>6. at \in Place /\ to \in Place
    BY <1>0, <1>a, <1>5 DEF MoveRenameOps
<1>7. Pending(c) = [kind |-> "move", at |-> at, to |-> to]
    BY <1>0, <1>a, <1>1, <1>4, PendingOf
<1>8. Pending(c) # None
    BY <1>6, <1>7, NoRequestAssumption DEF Store!Requests, Store!Place, Place
<1>9. CASE files' = files
    BY <1>1, <1>2, <1>3, <1>5, <1>9, FinishStep DEF Base, FilesInv
<1>10. CASE /\ files[at] # Absent
            /\ files[to] = Absent \/ (files[at] = Folder) = (files[to] = Folder)
            /\ files' = [files EXCEPT ![to] = files[at], ![at] = Absent]
    <2>1. files[at] \in Contents \union {Absent, Folder}
        BY <1>6 DEF Base, FilesInv
    <2>2. files' \in [Place -> Contents \union {Absent, Folder}]
        BY <1>6, <1>10, <2>1 DEF Base, FilesInv
    <2>3. files' = Store!Effect(Pending(c))
        BY <1>7, <1>10 DEF Store!Effect
    <2>4. Store!Applies(Pending(c)) \/ Store!Overtakes(Pending(c))
        <3>1. CASE files[to] = Absent
            BY <1>7, <3>1 DEF Store!Applies
        <3>2. CASE files[to] # Absent
            BY <1>7, <1>10, <3>2 DEF Store!Overtakes
        <3> QED
            BY <3>1, <3>2
    <2> QED
        BY <1>1, <1>2, <1>3, <1>5, <1>8, <2>2, <2>3, <2>4, FinishStep
<1> QED
    BY <1>1, <1>9, <1>10 DEF Renamed
-----------------------------------------------------------------------------
(* Every step                                                               *)

(* Every step of a handler keeps the invariant, and does to the files what  *)
(* it was asked.                                                            *)
LEMMA HandlerPreserves ==
    ASSUME Base, NEW c \in Conns, Handler(c)
    PROVE  Preserved(c)
<1>1. CASE \/ \E r \in Roots : ChangeDirectory(c, r)
           \/ Locate(c)
           \/ \E p \in Paths : ReadBegin(c, p) \/ DeleteBegin(c, p)
           \/ ReadFile(c)
    BY <1>1, ChangeDirectoryStep, LocateStep, ReadBeginStep, DeleteBeginStep, ReadFileStep
<1>2. CASE \/ \E p \in Paths, g \in Gens \union {None}, rev, v \in Contents :
                WriteBegin(c, p, g, rev, v)
           \/ WriteCheck(c) \/ WriteReplace(c)
    BY <1>2, WriteBeginStep, WriteCheckStep, WriteReplaceStep
<1>3. CASE \E t \in Tickets, kind \in {"upload", "download"}, p \in Paths, g \in Gens, o \in BOOLEAN :
             Prepare(c, t, kind, p, g, o)
    BY <1>3, PrepareStep
<1>4. CASE \E t \in Tickets : ConsumeDownload(c, t) \/ \E l \in BOOLEAN : ConsumeUpload(c, t, l)
    BY <1>4, ConsumeDownloadStep, ConsumeUploadStep
<1>5. CASE UploadBody(c) \/ UploadCheck(c) \/ UploadLink(c)
    BY <1>5, UploadBodyStep, UploadCheckStep, UploadLinkStep
<1>6. CASE \/ \E p \in Paths, value \in {EmptyText, Folder} : CreateBegin(c, p, value)
           \/ CreateMake(c)
    BY <1>6, CreateBeginStep, CreateMakeStep
<1>7. CASE \/ \E p, q \in Paths, g \in Gens \union {None} : MoveBegin(c, p, q, g)
           \/ MoveTarget(c) \/ MoveRename(c)
    BY <1>7, MoveBeginStep, MoveTargetStep, MoveRenameStep
<1>8. CASE DeleteRemove(c)
    BY <1>8, DeleteRemoveStep
<1> QED
    BY <1>1, <1>2, <1>3, <1>4, <1>5, <1>6, <1>7, <1>8 DEF Handler
-----------------------------------------------------------------------------
(* Who was overtaken                                                        *)

(* Whether a request applies depends on the places it names only.           *)
LEMMA AppliesLocally ==
    ASSUME NEW q \in Store!Requests, Store!Applies(q),
           \A at \in Store!Touches(q) : files'[at] = files[at]
    PROVE  Store!Applies(q)'
<1>1. q.kind = "write" => Store!Applies(q)'
    BY DEF Store!Applies, Store!Touches
<1>2. q.kind = "upload" => Store!Applies(q)'
    BY DEF Store!Applies, Store!Touches
<1>3. q.kind = "create" => Store!Applies(q)'
    BY DEF Store!Applies, Store!Touches
<1>4. q.kind = "move" => Store!Applies(q)'
    BY DEF Store!Applies, Store!Touches
<1>5. q.kind = "delete" => Store!Applies(q)'
    BY DEF Store!Applies, Store!Touches
<1> QED
    BY <1>1, <1>2, <1>3, <1>4, <1>5 DEF Store!Requests

(* What the history variable records of one handler.                        *)
LEMMA RacedIs ==
    ASSUME NoteRaces, NEW d \in Conns
    PROVE  raced'[d] <=> /\ Pending(d) # None /\ Pending(d)' # None
                         /\ raced[d] \/ \E at \in Store!Touches(Pending(d)) : files'[at] # files[at]
BY DEF NoteRaces

(* A handler that does not move has the same request pending.               *)
LEMMA PendingStays ==
    ASSUME NEW d \in Conns, op'[d] = op[d], temp'[d] = temp[d]
    PROVE  Pending(d)' = Pending(d)
BY DEF Pending, Busy

(* Whether a request was overtaken is noted as it happens.                  *)
LEMMA RaceStep ==
    ASSUME Base, RaceInv, NoteRaces, NEW c, StoreStep(c)
    PROVE  RaceInv'
<1>1. raced' \in [Conns -> BOOLEAN]
    BY DEF NoteRaces
<1>2. ASSUME NEW d \in Conns
      PROVE  /\ raced'[d] => Pending(d)' # None
             /\ Pending(d)' # None /\ ~raced'[d] => Store!Applies(Pending(d))'
    <2>1. CASE Pending(d)' = None
        BY <2>1, RacedIs
    <2>2. CASE Pending(d)' = Pending(d) /\ Pending(d) # None
        <3>1. PICK q : q = Pending(d)
            OBVIOUS
        <3>2. q \in Store!Requests
            BY <2>2, <3>1, PendingIsRequest DEF Base, HandlerInv
        <3>3. ASSUME ~raced'[d] PROVE Store!Applies(q)'
            <4>1. ~raced[d] /\ \A at \in Store!Touches(q) : files'[at] = files[at]
                BY <2>2, <3>1, <3>3, RacedIs
            <4>2. Store!Applies(q)
                BY <2>2, <3>1, <4>1 DEF RaceInv
            <4> QED
                BY <3>2, <4>1, <4>2, AppliesLocally
        <3>4. q = Pending(d)'
            BY <2>2, <3>1
        <3> QED
            BY <2>2, <3>3, <3>4 DEF Store!Applies
    <2>3. CASE d = c /\ Looks(c)
        BY <2>3, RacedIs DEF Looks
    <2>4. CASE UNCHANGED <<files, op, temp>> \/ (Elsewhere(c) /\ d # c)
        BY <2>1, <2>2, <2>4, PendingStays DEF Elsewhere
    <2> QED
        BY <2>1, <2>3, <2>4 DEF StoreStep, Performs, Passes
<1> QED
    BY <1>1, <1>2 DEF RaceInv

(* A service that has just started, in its first folder.                    *)
LEMMA InitWorkspaceInv ==
    ASSUME Init
    PROVE  WorkspaceInv
<1>1. PICK r \in Roots : /\ cwd = [root |-> r, gen |-> 1]
                         /\ roots = [g \in Gens |-> IF g = 1 THEN r ELSE None]
                         /\ past = roots
    BY DEF Init
<1>2. RootInv
    BY <1>1 DEF Init, RootInv, Gens
<1>3. FilesInv /\ TicketInv
    BY DEF Init, FilesInv, TicketInv
<1>4. HandlerInv
    BY DEF Init, HandlerInv, HandlerOK, Operation
<1>5. \A c \in Conns : Pending(c) = None /\ op[c] = Idle
    BY IdleIsNotPending DEF Init
<1>6. \A c \in Conns : ~raced[c]
    BY DEF Init
<1>7. raced \in [Conns -> BOOLEAN]
    BY DEF Init
<1> QED
    BY <1>2, <1>3, <1>4, <1>5, <1>6, <1>7 DEF WorkspaceInv, RaceInv

(* Every step of the service, of whichever thread.                          *)
LEMMA NextStep ==
    ASSUME Base, Next
    PROVE  \E c : Preserved(c) /\ NoteRaces /\ (c \in Conns \/ UNCHANGED <<files, op, temp>>)
<1>1. CASE \E r \in Roots : KernelCd(r)
    BY <1>1, KernelCdStep DEF Next, KernelCd
<1>2. CASE \E t \in Tickets : Expire(t)
    BY <1>2, ExpireStep DEF Next, Expire
<1>3. CASE \E c \in Conns : Handler(c)
    BY <1>3, HandlerPreserves DEF Next
<1> QED
    BY <1>1, <1>2, <1>3 DEF Next

(* Every step of the service keeps the inductive invariant.                 *)
LEMMA WorkspaceInvStep ==
    ASSUME WorkspaceInv, [Next]_vars
    PROVE  WorkspaceInv'
<1>1. CASE Next
    <2>1. Base
        BY DEF WorkspaceInv, Base
    <2>2. PICK c : Preserved(c) /\ NoteRaces
        BY <1>1, <2>1, NextStep
    <2>3. RaceInv'
        BY <2>1, <2>2, RaceStep DEF WorkspaceInv, Preserved
    <2> QED
        BY <2>2, <2>3 DEF Preserved, Base, WorkspaceInv
<1>2. CASE UNCHANGED vars
    <2>1. RootInv' /\ FilesInv' /\ TicketInv' /\ Keeps
        BY <1>2, RootsUnmoved DEF vars, WorkspaceInv, FilesInv, TicketInv
    <2>2. HandlerInv'
        BY <1>2, <2>1, HandlersStay DEF vars, WorkspaceInv
    <2>3. \A d \in Conns : Pending(d)' = Pending(d)
        BY <1>2, PendingStays DEF vars
    <2>4. ASSUME NEW d \in Conns, Pending(d)' # None, ~raced'[d]
          PROVE  Store!Applies(Pending(d))'
        <3>1. PICK q : q = Pending(d)
            OBVIOUS
        <3>2. Store!Applies(q) /\ q \in Store!Requests /\ q = Pending(d)'
            BY <1>2, <2>3, <2>4, <3>1, PendingIsRequest DEF vars, WorkspaceInv, RaceInv, HandlerInv
        <3>3. Store!Applies(q)'
            BY <1>2, <3>2, AppliesLocally DEF vars
        <3> QED
            BY <3>2, <3>3 DEF Store!Applies
    <2>5. RaceInv'
        BY <1>2, <2>3, <2>4 DEF vars, WorkspaceInv, RaceInv
    <2> QED
        BY <2>1, <2>2, <2>5 DEF WorkspaceInv
<1> QED
    BY <1>1, <1>2

(* The inductive invariant of the workspace service.                        *)
THEOREM WorkspaceInvariant == Spec => []WorkspaceInv
<1>1. Init => WorkspaceInv
    BY InitWorkspaceInv
<1>2. WorkspaceInv /\ [Next]_vars => WorkspaceInv'
    BY WorkspaceInvStep
<1> QED
    BY <1>1, <1>2, PTL DEF Spec

(* Neither on disk nor in memory is there ever anything half done: no       *)
(* visible file is part of a save or an upload, a handler that returned     *)
(* left no temporary file, and a ticket starts at most one transfer.        *)
THEOREM WorkspaceIsConsistent == Spec => []WorkspaceConsistent
<1>1. ASSUME WorkspaceInv PROVE WorkspaceConsistent
    <2>1. ASSUME NEW c \in Conns
          PROVE  /\ op[c] # Idle /\ op[c].kind # "read" => op[c].at \in Place
                 /\ op[c] = Idle => temp[c] = None
        <3>1. HandlerOK(op[c], temp[c])
            BY <1>1 DEF WorkspaceInv, HandlerInv
        <3>2. op[c] = Idle => temp[c] = None
            BY <3>1, OperationKinds
        <3>3. op[c].kind = "write" => op[c].at \in Place
            BY <3>1, OperationKinds DEF WriteOps
        <3>4. op[c].kind = "upload" => op[c].at \in Place
            <4>1. op[c].kind = "upload" => op[c] \in UploadOps
                BY <3>1, OperationKinds
            <4> QED
                BY <4>1 DEF UploadOps
        <3>5. op[c].kind = "create" => op[c].at \in Place
            BY <3>1, OperationKinds DEF CreateOps
        <3>6. op[c].kind = "move" => op[c].at \in Place
            BY <3>1 DEF HandlerOK, Idle, ReadOps, WriteOps, UploadOps, CreateOps, MoveTargetOps,
                        MoveRenameOps, DeleteOps
        <3>7. op[c].kind = "delete" => op[c].at \in Place
            <4>1. op[c].kind = "delete" => op[c] \in DeleteOps
                BY <3>1, OperationKinds
            <4> QED
                BY <4>1 DEF DeleteOps
        <3> QED
            BY <3>1, <3>2, <3>3, <3>4, <3>5, <3>6, <3>7, OperationKinds
    <2>2. files \in [Place -> Entries] /\ WholeContents /\ budget \in 0..MaxRequests
        BY <1>1 DEF WorkspaceInv, FilesInv, Entries, WholeContents
    <2>3. TicketOnce /\ \A t \in Tickets : grants[t] # None => grants[t].gen \in told
        BY <1>1 DEF WorkspaceInv, TicketInv, TicketOnce
    <2>4. temp \in [Conns -> [root : Roots, data : Contents \union {Partial}] \union {None}]
        BY <1>1 DEF WorkspaceInv, HandlerInv, Temp
    <2>5. NoTempLeft
        BY <2>1 DEF NoTempLeft
    <2>6. WorkspaceTypeOK
        BY <1>1, <2>1, <2>2, <2>3, <2>4 DEF WorkspaceInv, RootInv, WorkspaceTypeOK
    <2> QED
        BY <2>2, <2>3, <2>5, <2>6 DEF WorkspaceConsistent
<1> QED
    BY <1>1, WorkspaceInvariant, PTL

(* Whatever `cd` does, a generation a reply has given out leads to the      *)
(* folder it was (service_for_generation, remember_root).                   *)
THEOREM ToldStaysResolvable == Spec => []ToldIsResolvable
<1>1. ASSUME WorkspaceInv PROVE ToldIsResolvable
    BY <1>1, ToldFolder DEF WorkspaceInv, RootInv, ToldIsResolvable
<1> QED
    BY <1>1, WorkspaceInvariant, PTL
-----------------------------------------------------------------------------
(* A request stays in the folder it named                                   *)

(* The effect of a request is confined to the places it names.              *)
LEMMA EffectLocally ==
    ASSUME FilesInv, NEW q \in Store!Requests, NEW at \in Place, at \notin Store!Touches(q)
    PROVE  Store!Effect(q)[at] = files[at]
<1>1. CASE q.kind = "move"
    BY <1>1 DEF Store!Effect, Store!Touches, FilesInv
<1>2. CASE q.kind = "delete"
    BY <1>2 DEF Store!Effect, Store!Touches, FilesInv
<1>3. CASE q.kind \in {"write", "upload", "create"}
    BY <1>3 DEF Store!Effect, Store!Touches, FilesInv
<1> QED
    BY <1>1, <1>2, <1>3 DEF Store!Requests

(* The places a pending request names are in the folder of its generation.  *)
LEMMA PendingInFolder ==
    ASSUME NEW c \in Conns, HandlerOK(op[c], temp[c]), Pending(c) # None, op[c].gen # None,
           NEW at \in Store!Touches(Pending(c))
    PROVE  at[1] = past[op[c].gen]
<1>1. CASE op[c] = Idle \/ op[c].kind = "read"
    BY <1>1, PendingOf
<1>2. CASE op[c].kind = "write"
    <2>1. op[c] \in WriteOps /\ InFolder(op[c].gen, op[c].at[1])
        BY <1>2, OperationKinds
    <2>2. op[c].pc \in {"check", "replace"}
        BY <2>1 DEF WriteOps
    <2>3. Pending(c) = [kind |-> "write", at |-> op[c].at, rev |-> op[c].rev, value |-> op[c].value]
        BY <1>2, <2>2, PendingOf
    <2>4. at = op[c].at
        BY <2>3 DEF Store!Touches
    <2> QED
        BY <2>1, <2>4 DEF InFolder
<1>3. CASE op[c].kind = "upload"
    <2>1. op[c] \in UploadOps /\ InFolder(op[c].gen, op[c].at[1])
        BY <1>3, OperationKinds
    <2>2. op[c].pc \in {"body", "check", "link"}
        BY <2>1 DEF UploadOps
    <2>3. Pending(c) = [kind |-> "upload", at |-> op[c].at, overwrite |-> op[c].overwrite,
                        value |-> temp[c].data]
        BY <1>3, <2>2, PendingOf
    <2>4. at = op[c].at
        BY <2>3 DEF Store!Touches
    <2> QED
        BY <2>1, <2>4 DEF InFolder
<1>4. CASE op[c].kind = "create"
    BY <1>4, OperationKinds DEF CreateOps
<1>5. CASE op[c].kind = "move"
    <2>1. op[c].pc \in {"target", "rename"}
        BY <1>5 DEF HandlerOK, Idle, ReadOps, WriteOps, UploadOps, CreateOps, MoveTargetOps,
                    MoveRenameOps, DeleteOps
    <2>2. op[c].pc = "rename"
        BY <1>5, <2>1, PendingOf
    <2>3. Pending(c) = [kind |-> "move", at |-> op[c].at, to |-> op[c].to]
        BY <1>5, <2>2, PendingOf
    <2>4. InFolder(op[c].gen, op[c].at[1]) /\ InFolder(op[c].gen, op[c].to[1])
        BY <1>5, <2>2, OperationKinds
    <2>5. at = op[c].at \/ at = op[c].to
        BY <2>3 DEF Store!Touches
    <2> QED
        BY <2>4, <2>5 DEF InFolder
<1>6. CASE op[c].kind = "delete"
    <2>1. op[c] \in DeleteOps
        BY <1>6, OperationKinds
    <2> QED
        BY <2>1 DEF DeleteOps
<1> QED
    BY <1>1, <1>2, <1>3, <1>4, <1>5, <1>6, OperationKinds

(* "An intervening directory change cannot redirect an in-flight save or    *)
(* rename to another root": a request that named a generation changes files *)
(* of that generation's folder only.                                        *)
THEOREM RequestsStayPinned == Spec => PinnedStaysPinned
<1> DEFINE Pinned(c) ==
        op[c] # Idle /\ op[c].gen # None /\ op'[c] # op[c]
          => \A at \in Place : files'[at] # files[at] => at[1] = past[op[c].gen]
<1>1. ASSUME WorkspaceInv, Next, NEW c \in Conns PROVE Pinned(c)
    <2> SUFFICES ASSUME op[c].gen # None, op'[c] # op[c],
                        NEW at \in Place, files'[at] # files[at]
                 PROVE  at[1] = past[op[c].gen]
        OBVIOUS
    <2>1. Base
        BY <1>1 DEF WorkspaceInv, Base
    <2>2. PICK b : Preserved(b) /\ NoteRaces
        BY <1>1, <2>1, NextStep
    <2>3. Elsewhere(b) /\ Performs(b)
        BY <2>2 DEF Preserved, StoreStep, Looks, Passes
    <2>4. b = c
        BY <2>3 DEF Elsewhere
    <2>5. PICK q : q = Pending(c)
        OBVIOUS
    <2>6. HandlerOK(op[c], temp[c])
        BY <2>1 DEF Base, HandlerInv
    <2>7. q # None /\ files' = Store!Effect(q)
        BY <2>3, <2>4, <2>5 DEF Performs
    <2>8. q \in Store!Requests
        BY <2>5, <2>6, <2>7, PendingIsRequest
    <2>9. at \in Store!Touches(q)
        BY <2>1, <2>7, <2>8, EffectLocally DEF Base
    <2> QED
        BY <2>5, <2>6, <2>7, <2>9, PendingInFolder
<1>2. ASSUME WorkspaceInv, [Next]_vars
      PROVE  [\A c \in Conns : Pinned(c)]_vars
    BY <1>1, <1>2
<1> QED
    BY <1>2, WorkspaceInvariant, PTL DEF Spec, PinnedStaysPinned
-----------------------------------------------------------------------------
(* The handlers implement the shared store                                  *)

requests == [c \in Conns |-> Pending(c)]

(* While nobody changes a file, nobody is overtaken; a handler that stops   *)
(* waiting is cleared.                                                      *)
LEMMA NotOvertaken ==
    ASSUME RaceInv, NoteRaces, UNCHANGED files, NEW d \in Conns
    PROVE  raced'[d] <=> Pending(d)' # None /\ raced[d]
BY RacedIs DEF RaceInv

(* Two Boolean functions of the connections that agree are equal.           *)
LEMMA FlagsAgree ==
    ASSUME NEW S, NEW f \in [S -> BOOLEAN], NEW g \in [S -> BOOLEAN], \A d \in S : f[d] <=> g[d]
    PROVE  f = g
<1>1. \A d \in S : f[d] \in BOOLEAN /\ g[d] \in BOOLEAN
    OBVIOUS
<1>2. \A d \in S : f[d] = g[d]
    BY <1>1
<1> QED
    BY <1>2

(* A step in which no request is taken up or given up.                      *)
LEMMA StutterStep ==
    ASSUME RaceInv, RaceInv', NoteRaces, UNCHANGED files,
           \A d \in Conns : Pending(d)' = Pending(d)
    PROVE  UNCHANGED <<files, requests, raced>>
<1>1. \A d \in Conns : raced'[d] <=> raced[d]
    BY NotOvertaken DEF RaceInv
<1>2. raced' = raced
    BY <1>1, FlagsAgree DEF RaceInv
<1>3. requests' = requests
    BY DEF requests
<1> QED
    BY <1>2, <1>3

(* A handler that has checked its request begins one of the abstract store. *)
LEMMA LookRefines ==
    ASSUME Base', RaceInv, RaceInv', NoteRaces, NEW c \in Conns, Elsewhere(c), Looks(c)
    PROVE  Store!Look(c)
<1>1. \A d \in Conns : d # c => Pending(d)' = Pending(d)
    BY PendingStays DEF Elsewhere
<1>2. ASSUME NEW d \in Conns PROVE raced'[d] <=> raced[d]
    <2>1. CASE d = c
        BY <2>1, RacedIs DEF Looks, RaceInv
    <2>2. CASE d # c
        BY <1>1, <2>2, NotOvertaken DEF Looks, RaceInv
    <2> QED
        BY <2>1, <2>2
<1>3. raced' = raced
    BY <1>2, FlagsAgree DEF RaceInv
<1>4. PICK q : q = Pending(c)'
    OBVIOUS
<1>5. q \in Store!Requests
    BY <1>4, PendingTypesNext DEF Looks, Base, PendingTypeOK
<1>6. Store!Applies(q)
    BY <1>4 DEF Looks, Store!Applies
<1>7. requests[c] = None /\ requests'[c] = q
    BY <1>4 DEF requests, Looks
<1>8. requests' = [requests EXCEPT ![c] = q]
    BY <1>1, <1>4 DEF requests
<1> QED
    BY <1>3, <1>5, <1>6, <1>7, <1>8 DEF Store!Look, requests, Looks

(* A handler that changes a file performs its request in one step.          *)
LEMMA PerformRefines ==
    ASSUME Base, RaceInv, NoteRaces, NEW c \in Conns, Elsewhere(c), Performs(c)
    PROVE  Store!Perform(c)
<1>1. \A d \in Conns : d # c => Pending(d)' = Pending(d)
    BY PendingStays DEF Elsewhere
<1>2. PICK q : q = Pending(c)
    OBVIOUS
<1>3. requests[c] = q /\ q # None
    BY <1>2 DEF requests, Performs
<1>4. Store!Applies(q) \/ (raced[c] /\ Store!Overtakes(q))
    BY <1>2 DEF Performs, RaceInv
<1>5. requests' = [requests EXCEPT ![c] = None]
    BY <1>1 DEF requests, Performs
<1>6. raced' = [d \in Conns |->
        /\ requests'[d] # None
        /\ raced[d] \/ \E at \in Store!Touches(requests[d]) : files'[at] # files[at]]
    <2> DEFINE F(d) == /\ requests'[d] # None
                       /\ raced[d] \/ \E at \in Store!Touches(requests[d]) : files'[at] # files[at]
    <2>1. ASSUME NEW d \in Conns PROVE raced'[d] <=> F(d)
        <3>1. requests[d] = Pending(d) /\ requests'[d] = Pending(d)'
            BY DEF requests
        <3>2. CASE d = c
            BY <3>1, <3>2, RacedIs DEF Performs
        <3>3. CASE d # c
            BY <1>1, <3>1, <3>3, RacedIs
        <3> QED
            BY <3>2, <3>3
    <2>2. \A d \in Conns : F(d) \in BOOLEAN
        OBVIOUS
    <2> HIDE DEF F
    <2>3. [d \in Conns |-> F(d)] \in [Conns -> BOOLEAN]
        BY <2>2
    <2>4. raced' \in [Conns -> BOOLEAN]
        BY DEF NoteRaces
    <2>5. raced' = [d \in Conns |-> F(d)]
        BY <2>1, <2>3, <2>4, FlagsAgree
    <2> QED
        BY <2>5 DEF F
<1> QED
    BY <1>2, <1>3, <1>4, <1>5, <1>6 DEF Store!Perform, requests, Performs

(* A handler that gives up fails its request and leaves the files alone.    *)
LEMMA FailRefines ==
    ASSUME RaceInv, RaceInv', NoteRaces, NEW c \in Conns, Elsewhere(c), Passes(c), Pending(c) # None
    PROVE  Store!Fail(c)
<1>1. \A d \in Conns : d # c => Pending(d)' = Pending(d)
    BY PendingStays DEF Elsewhere
<1>2. ASSUME NEW d \in Conns PROVE raced'[d] <=> [raced EXCEPT ![c] = FALSE][d]
    <2>1. CASE d = c
        BY <2>1, NotOvertaken DEF Passes, RaceInv
    <2>2. CASE d # c
        BY <1>1, <2>2, NotOvertaken DEF Passes, RaceInv
    <2> QED
        BY <2>1, <2>2
<1>3. [raced EXCEPT ![c] = FALSE] \in [Conns -> BOOLEAN]
    BY DEF RaceInv
<1>4. raced' = [raced EXCEPT ![c] = FALSE]
    BY <1>2, <1>3, FlagsAgree DEF RaceInv
<1>5. requests[c] # None /\ requests' = [requests EXCEPT ![c] = None]
    BY <1>1 DEF requests, Passes
<1> QED
    BY <1>4, <1>5 DEF Store!Fail, requests, Passes

(* Every step of the service is a step of the abstract store or none.       *)
LEMMA StepRefines ==
    ASSUME WorkspaceInv, WorkspaceInv', [Next]_vars
    PROVE  [Store!StoreNext]_<<files, requests, raced>>
<1>1. CASE UNCHANGED vars
    BY <1>1, PendingStays DEF vars, requests
<1>2. CASE Next
    <2>1. Base /\ Base' /\ RaceInv /\ RaceInv'
        BY DEF WorkspaceInv, Base
    <2>2. PICK c : Preserved(c) /\ NoteRaces /\ (c \in Conns \/ UNCHANGED <<files, op, temp>>)
        BY <1>2, <2>1, NextStep
    <2>3. CASE UNCHANGED <<files, op, temp>>
        BY <2>1, <2>2, <2>3, PendingStays, StutterStep
    <2>5. CASE c \in Conns /\ Elsewhere(c) /\ Looks(c)
        BY <2>1, <2>2, <2>5, LookRefines DEF Store!StoreNext
    <2>6. CASE c \in Conns /\ Elsewhere(c) /\ Performs(c)
        BY <2>1, <2>2, <2>6, PerformRefines DEF Store!StoreNext
    <2>7. CASE c \in Conns /\ Elsewhere(c) /\ Passes(c) /\ Pending(c) # None
        BY <2>1, <2>2, <2>7, FailRefines DEF Store!StoreNext
    <2>8. CASE c \in Conns /\ Elsewhere(c) /\ Passes(c) /\ Pending(c) = None
        BY <2>1, <2>2, <2>8, PendingStays, StutterStep DEF Elsewhere, Passes
    <2> QED
        BY <2>2, <2>3, <2>5, <2>6, <2>7, <2>8 DEF Preserved, StoreStep
<1> QED
    BY <1>1, <1>2

(* The handlers of all connections, cut at every system call and with `cd`  *)
(* in between, implement the shared store: each change of a file is one     *)
(* atomic request whose condition held at the handler's last look.          *)
THEOREM WorkspaceImplementsStore == Spec => ImplementsSharedStore
<1>1. Init => Store!StoreInit
    <2> SUFFICES ASSUME Init PROVE Store!StoreInit
        OBVIOUS
    <2>1. files \in [Place -> Contents \union {Absent, Folder}]
        BY DEF Init
    <2>2. \A c \in Conns : Pending(c) = None
        BY IdleIsNotPending DEF Init
    <2> QED
        BY <2>1, <2>2 DEF Init, Store!StoreInit, Store!Place, Place
<1>2. WorkspaceInv /\ WorkspaceInv' /\ [Next]_vars => [Store!StoreNext]_<<files, requests, raced>>
    BY StepRefines
<1> QED
    BY <1>1, <1>2, WorkspaceInvariant, PTL DEF Spec, ImplementsSharedStore, Store!StoreSpec, requests
=============================================================================
