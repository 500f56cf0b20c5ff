----------------------------- MODULE Workspace -----------------------------
(* The workspace service of openmat-server (workspace.rs): the files below  *)
(* the Current Folder, as the handlers of several connections and the      *)
(* kernel's `cd` see and change them.  A handler is cut where the code lets *)
(* another thread in between two system calls; each piece is one action.    *)
(*                                                                          *)
(* A place is a folder and a name in it; it is Absent, a Folder, or a file  *)
(* with one of the Contents.  A revision is a hash of the content           *)
(* (content_revision), so a content stands for its own revision.            *)
EXTENDS Naturals, FiniteSets

CONSTANTS
    Conns,        \* handler threads: workspace sockets and HTTP transfers
    Roots,        \* the folders `cd` may select
    Paths,        \* names inside a folder
    Contents,     \* file contents
    EmptyText,    \* the content of a file just created
    Tickets,      \* the transfer tickets the random source may draw
    MaxTickets,   \* MAX_UPLOAD_TICKETS and MAX_DOWNLOAD_TICKETS
    MaxGen,       \* bound: Current Folder generations
    MaxRequests,  \* bound: requests in a behaviour
    Absent, Folder, Partial, None

ASSUME WorkspaceAssumption ==
    /\ EmptyText \in Contents
    /\ {Absent, Folder, Partial, None} \intersect Contents = {}
    /\ Absent \notin {Folder, Partial} /\ Folder # Partial
    /\ None \notin Roots
    /\ MaxTickets \in Nat /\ MaxGen \in Nat \ {0} /\ MaxRequests \in Nat

VARIABLES
    files,     \* the file system: place -> entry
    cwd,       \* WorkingDirectoryState: the selected folder and its generation
    roots,     \* WorkspaceService.roots: generation -> folder, None if not remembered
    past,      \* history: the folder each generation really was
    told,      \* the generations replies have given to clients
    docs,      \* the documents clients opened: name, generation, folder read
    grants,    \* the unexpired tickets: ticket -> grant, None if not granted
    uses,      \* history: how many transfers a ticket has started
    op,        \* what each handler is in the middle of
    temp,      \* the temporary file each handler has on disk
    budget,    \* requests left
    raced      \* history: a place the handler's request names has changed since its last look

vars == <<files, cwd, roots, past, told, docs, grants, uses, op, temp, budget, raced>>

Place == Roots \X Paths
Gens == 1..MaxGen
Idle == [kind |-> "idle"]
Busy(c, kind, pc) == op[c].kind = kind /\ op[c].pc = pc
IsFile(e) == e \in Contents \union {Partial}

Init ==
    /\ files \in [Place -> {Absent, EmptyText}]
    /\ \E r \in Roots :
         /\ cwd = [root |-> r, gen |-> 1]
         /\ roots = [g \in Gens |-> IF g = 1 THEN r ELSE None]
         /\ past = roots
    /\ told = {} /\ docs = {}
    /\ grants = [t \in Tickets |-> None]
    /\ uses = [t \in Tickets |-> 0]
    /\ op = [c \in Conns |-> Idle]
    /\ temp = [c \in Conns |-> None]
    /\ budget = MaxRequests
    /\ raced = [c \in Conns |-> FALSE]

-----------------------------------------------------------------------------
(* The Current Folder.                                                      *)

(* WorkingDirectory::change: a new generation for a different folder.       *)
Changed(r) ==
    IF r = cwd.root THEN cwd ELSE [root |-> r, gen |-> cwd.gen + 1]

RootNotRemembered == roots

(* root_snapshot: every request that looks at the Current Folder also       *)
(* remembers its generation (remember_root).                                *)
RootSnapshot == [roots EXCEPT ![cwd.gen] = cwd.root]

(* The language's `cd`, on the kernel's thread: it shares the directory     *)
(* state and not the service's memory of it.                                *)
KernelCd(r) ==
    /\ r # cwd.root /\ cwd.gen < MaxGen
    /\ cwd' = Changed(r)
    /\ past' = [past EXCEPT ![cwd'.gen] = r]
    /\ UNCHANGED <<files, roots, told, docs, grants, uses, op, temp, budget>>

(* A request arrives at an idle handler.                                    *)
Accept(c) == op[c] = Idle /\ budget > 0 /\ budget' = budget - 1

(* change_directory                                                         *)
ChangeDirectory(c, r) ==
    /\ Accept(c) /\ cwd.gen < MaxGen
    /\ cwd' = Changed(r)
    /\ past' = [past EXCEPT ![cwd'.gen] = r]
    /\ roots' = [RootSnapshot EXCEPT ![cwd'.gen] = r]
    /\ told' = told \union {cwd'.gen}
    /\ UNCHANGED <<files, docs, grants, uses, op, temp>>

(* currentDirectory and list: the reply names the generation of the moment. *)
Locate(c) ==
    /\ Accept(c)
    /\ roots' = RootSnapshot
    /\ told' = told \union {cwd.gen}
    /\ UNCHANGED <<files, cwd, past, docs, grants, uses, op, temp>>

(* service_for_generation: a request that names a generation works in its   *)
(* folder from here on; None means the folder is not remembered.            *)
FolderOf(g) == IF g = cwd.gen THEN cwd.root ELSE roots[g]

(* A service that takes the dynamic root for the current generation.        *)
PinnedUnlessCurrent(g) == IF g = None \/ g = cwd.gen THEN None ELSE FolderOf(g)

(* The folder a request is pinned to: None for one that names no            *)
(* generation, which resolves each of its paths where the Current Folder    *)
(* then is.                                                                 *)
PinnedTo(g) == IF g = None THEN None ELSE FolderOf(g)

Available(g) == g = None \/ FolderOf(g) # None
ResolvedIn(pin) == IF pin = None THEN cwd.root ELSE pin

(* The generations a client can name: none, or one a reply gave it.         *)
Named == told \union {None}

-----------------------------------------------------------------------------
(* Reading.  The handler takes one snapshot for the reply's generation and  *)
(* read_file resolves the path with another.                                *)

ReadBegin(c, p) ==
    /\ Accept(c)
    /\ roots' = RootSnapshot
    /\ op' = [op EXCEPT ![c] = [kind |-> "read", pc |-> "file", path |-> p, gen |-> cwd.gen]]
    /\ UNCHANGED <<files, cwd, past, told, docs, grants, uses, temp>>

ReadFile(c) ==
    /\ Busy(c, "read", "file")
    /\ roots' = RootSnapshot
    /\ IF IsFile(files[<<cwd.root, op[c].path>>])
       THEN /\ docs' = docs \union
                 {[path |-> op[c].path, gen |-> op[c].gen, from |-> cwd.root]}
            /\ told' = told \union {op[c].gen}
       ELSE UNCHANGED <<docs, told>>
    /\ op' = [op EXCEPT ![c] = Idle]
    /\ UNCHANGED <<files, cwd, past, grants, uses, temp, budget>>

-----------------------------------------------------------------------------
(* Leaving a handler: an error return, which removes the temporary file     *)
(* (write_file, Drop for WorkspaceUploadFile), or a success.                *)
Abandon(c) ==
    /\ op' = [op EXCEPT ![c] = Idle]
    /\ temp' = [temp EXCEPT ![c] = None]
    /\ UNCHANGED files

(* platform::replace_file: a rename over whatever file is at the target; it *)
(* fails on a directory.                                                    *)
ReplaceFile(c) ==
    IF files[op[c].at] = Folder
    THEN Abandon(c)
    ELSE /\ files' = [files EXCEPT ![op[c].at] = temp[c].data]
         /\ temp' = [temp EXCEPT ![c] = None]
         /\ op' = [op EXCEPT ![c] = Idle]

(* write_file up to the temporary file: refused unless the file has the     *)
(* revision the client expects.                                             *)
WriteBegin(c, p, g, rev, v) ==
    /\ Accept(c) /\ g \in Named
    /\ roots' = RootSnapshot
    /\ IF Available(g) /\ files[<<ResolvedIn(PinnedTo(g)), p>>] = rev
       THEN /\ op' = [op EXCEPT ![c] =
                 [kind |-> "write", pc |-> "check", gen |-> g, rev |-> rev, value |-> v,
                  at |-> <<ResolvedIn(PinnedTo(g)), p>>]]
            /\ temp' = [temp EXCEPT ![c] = [root |-> ResolvedIn(PinnedTo(g)), data |-> Partial]]
       ELSE UNCHANGED <<op, temp>>
    /\ UNCHANGED <<files, cwd, past, told, docs, grants, uses>>

WriteCheckOnce(c) ==
    /\ Busy(c, "write", "check")
    /\ \/ /\ temp' = [temp EXCEPT ![c].data = op[c].value]
          /\ op' = [op EXCEPT ![c].pc = "replace"]
          /\ UNCHANGED files
       \/ Abandon(c)
    /\ UNCHANGED <<cwd, roots, past, told, docs, grants, uses, budget>>

(* The bytes are on disk; the target is read and checked a second time.     *)
WriteCheck(c) ==
    /\ Busy(c, "write", "check")
    /\ \/ /\ files[op[c].at] = op[c].rev
          /\ temp' = [temp EXCEPT ![c].data = op[c].value]
          /\ op' = [op EXCEPT ![c].pc = "replace"]
          /\ UNCHANGED files
       \/ Abandon(c)    \* a conflict, or an I/O error
    /\ UNCHANGED <<cwd, roots, past, told, docs, grants, uses, budget>>

WriteReplace(c) ==
    /\ Busy(c, "write", "replace")
    /\ ReplaceFile(c) \/ Abandon(c)
    /\ UNCHANGED <<cwd, roots, past, told, docs, grants, uses, budget>>

-----------------------------------------------------------------------------
(* Transfers by ticket.  A ticket expires at any moment; both maps drop     *)
(* their expired grants before every look at them.                          *)

Granted(kind) == {t \in Tickets : grants[t] # None /\ grants[t].kind = kind}

(* validate_upload_target                                                   *)
UploadTarget(at, overwrite) == files[at] = Absent \/ (overwrite /\ IsFile(files[at]))

(* prepare_upload and prepare_download: the file or target is validated in  *)
(* the folder of the generation, then a new ticket is granted.              *)
Prepare(c, t, kind, p, g, overwrite) ==
    /\ Accept(c) /\ g \in told
    /\ roots' = RootSnapshot
    /\ grants[t] = None /\ uses[t] = 0
    /\ kind = "download" => ~overwrite
    /\ IF /\ FolderOf(g) # None
          /\ IF kind = "upload" THEN UploadTarget(<<FolderOf(g), p>>, overwrite)
                                ELSE IsFile(files[<<FolderOf(g), p>>])
          /\ Cardinality(Granted(kind)) < MaxTickets
       THEN grants' = [grants EXCEPT ![t] =
              [kind |-> kind, gen |-> g, path |-> p, overwrite |-> overwrite]]
       ELSE UNCHANGED grants
    /\ UNCHANGED <<files, cwd, past, told, docs, uses, op, temp>>

Expire(t) ==
    /\ grants[t] # None
    /\ grants' = [grants EXCEPT ![t] = None]
    /\ UNCHANGED <<files, cwd, roots, past, told, docs, uses, op, temp, budget>>

(* The grant leaves the map before anything else is looked at.              *)
Spend(t) == grants' = [grants EXCEPT ![t] = None]

(* consume_download: the transfer streams the file it has opened.           *)
ConsumeDownload(c, t) ==
    /\ op[c] = Idle
    /\ t \in Granted("download")
    /\ Spend(t)
    /\ roots' = RootSnapshot
    /\ uses' = IF FolderOf(grants[t].gen) # None
                    /\ IsFile(files[<<FolderOf(grants[t].gen), grants[t].path>>])
               THEN [uses EXCEPT ![t] = @ + 1] ELSE uses
    /\ UNCHANGED <<files, cwd, past, told, docs, op, temp, budget>>

(* consume_upload: a wrong Content-Length, an unknown folder or a target    *)
(* that may not be replaced is refused, with the ticket already spent.      *)
ConsumeUpload(c, t, lengthMatches) ==
    /\ op[c] = Idle
    /\ t \in Granted("upload")
    /\ Spend(t)
    /\ roots' = RootSnapshot
    /\ LET g == grants[t]
           at == <<FolderOf(g.gen), g.path>>
       IN IF lengthMatches /\ FolderOf(g.gen) # None /\ UploadTarget(at, g.overwrite)
          THEN /\ uses' = [uses EXCEPT ![t] = @ + 1]
               /\ op' = [op EXCEPT ![c] = [kind |-> "upload", pc |-> "body", gen |-> g.gen,
                                           overwrite |-> g.overwrite, at |-> at]]
               /\ temp' = [temp EXCEPT ![c] = [root |-> at[1], data |-> Partial]]
          ELSE UNCHANGED <<uses, op, temp>>
    /\ UNCHANGED <<files, cwd, past, told, docs, budget>>

UploadBodyTruncated(c) ==
    /\ Busy(c, "upload", "body")
    /\ \E v \in Contents \union {Partial} : temp' = [temp EXCEPT ![c].data = v]
    /\ op' = [op EXCEPT ![c].pc = "check"]
    /\ UNCHANGED <<files, cwd, roots, past, told, docs, grants, uses, budget>>

(* serve_workspace_upload copies the body; a body that ends early is        *)
(* refused before commit.                                                   *)
UploadBody(c) ==
    /\ Busy(c, "upload", "body")
    /\ \/ /\ \E v \in Contents : temp' = [temp EXCEPT ![c].data = v]
          /\ op' = [op EXCEPT ![c].pc = "check"]
          /\ UNCHANGED files
       \/ Abandon(c)
    /\ UNCHANGED <<cwd, roots, past, told, docs, grants, uses, budget>>

(* commit looks at the target again, which may fail as every step may ...   *)
UploadCheck(c) ==
    /\ Busy(c, "upload", "check")
    /\ \/ /\ UploadTarget(op[c].at, op[c].overwrite)
          /\ op' = [op EXCEPT ![c].pc = "link"] /\ UNCHANGED <<files, temp>>
       \/ Abandon(c)
    /\ UNCHANGED <<cwd, roots, past, told, docs, grants, uses, budget>>

(* ... and then replaces it, or links the temporary file to a free name: a  *)
(* hard link never replaces.  When remove_file fails after hard_link, the   *)
(* file is there, the request is refused and Drop removes what is left.     *)
LinkNew(c) ==
    IF files[op[c].at] # Absent THEN Abandon(c) ELSE ReplaceFile(c)

UploadLink(c) ==
    /\ Busy(c, "upload", "link")
    /\ \/ IF op[c].overwrite THEN ReplaceFile(c) ELSE LinkNew(c)
       \/ Abandon(c)    \* an I/O error of rename or hard_link
    /\ UNCHANGED <<cwd, roots, past, told, docs, grants, uses, budget>>

-----------------------------------------------------------------------------
(* create, move or rename, and delete.                                      *)

Begin(c, req) ==
    /\ op' = [op EXCEPT ![c] = req]
    /\ UNCHANGED <<files, temp>>

Finish(c, changed) ==
    /\ files' = changed
    /\ op' = [op EXCEPT ![c] = Idle]
    /\ UNCHANGED temp

(* create_entry: the parent is resolved and the target seen free ...        *)
CreateBegin(c, p, value) ==
    /\ Accept(c) /\ roots' = RootSnapshot
    /\ IF files[<<cwd.root, p>>] = Absent
       THEN Begin(c, [kind |-> "create", pc |-> "make", gen |-> None, value |-> value,
                      at |-> <<cwd.root, p>>])
       ELSE UNCHANGED <<files, op, temp>>
    /\ UNCHANGED <<cwd, past, told, docs, grants, uses>>

(* ... then create_new or create_dir, which never replace.                  *)
CreateMake(c) ==
    /\ Busy(c, "create", "make")
    /\ Finish(c, IF files[op[c].at] = Absent
                 THEN [files EXCEPT ![op[c].at] = op[c].value] ELSE files)
    /\ UNCHANGED <<cwd, roots, past, told, docs, grants, uses, budget>>

(* move_entry resolves its source ...                                       *)
MoveBegin(c, p, q, g) ==
    /\ Accept(c) /\ p # q /\ g \in Named
    /\ roots' = RootSnapshot
    /\ IF Available(g) /\ files[<<ResolvedIn(PinnedTo(g)), p>>] # Absent
       THEN Begin(c, [kind |-> "move", pc |-> "target", gen |-> g, pin |-> PinnedTo(g),
                      at |-> <<ResolvedIn(PinnedTo(g)), p>>, name |-> q])
       ELSE UNCHANGED <<files, op, temp>>
    /\ UNCHANGED <<cwd, past, told, docs, grants, uses>>

(* ... then its target, which must be free ...                              *)
MoveTarget(c) ==
    /\ Busy(c, "move", "target")
    /\ roots' = RootSnapshot
    /\ LET to == <<ResolvedIn(op[c].pin), op[c].name>>
       IN IF files[to] = Absent
          THEN Begin(c, [kind |-> "move", pc |-> "rename", gen |-> op[c].gen,
                         at |-> op[c].at, to |-> to])
          ELSE Abandon(c)
    /\ UNCHANGED <<cwd, past, told, docs, grants, uses, budget>>

(* ... and renames: a file replaces a file, a folder an empty folder.       *)
Renamed(from, to) ==
    IF files[to] # Absent /\ (files[from] = Folder) # (files[to] = Folder)
    THEN files
    ELSE [files EXCEPT ![to] = files[from], ![from] = Absent]

MoveRename(c) ==
    /\ Busy(c, "move", "rename")
    /\ Finish(c, IF files[op[c].at] = Absent THEN files ELSE Renamed(op[c].at, op[c].to))
    /\ UNCHANGED <<cwd, roots, past, told, docs, grants, uses, budget>>

(* delete_entry: the kind seen decides between remove_file and remove_dir.  *)
DeleteBegin(c, p) ==
    /\ Accept(c) /\ roots' = RootSnapshot
    /\ LET seen == files[<<cwd.root, p>>]
       IN IF seen # Absent
          THEN Begin(c, [kind |-> "delete", pc |-> "remove", gen |-> None,
                         folder |-> (seen = Folder), at |-> <<cwd.root, p>>])
          ELSE UNCHANGED <<files, op, temp>>
    /\ UNCHANGED <<cwd, past, told, docs, grants, uses>>

DeleteRemove(c) ==
    /\ Busy(c, "delete", "remove")
    /\ Finish(c, IF op[c].folder = (files[op[c].at] = Folder)
                 THEN [files EXCEPT ![op[c].at] = Absent] ELSE files)
    /\ UNCHANGED <<cwd, roots, past, told, docs, grants, uses, budget>>

-----------------------------------------------------------------------------
Handler(c) ==
    \/ \E r \in Roots : ChangeDirectory(c, r)
    \/ Locate(c)
    \/ \E p \in Paths : ReadBegin(c, p) \/ DeleteBegin(c, p)
    \/ ReadFile(c)
    \/ \E p \in Paths, g \in Gens \union {None}, rev, v \in Contents : WriteBegin(c, p, g, rev, v)
    \/ WriteCheck(c) \/ WriteReplace(c)
    \/ \E t \in Tickets, kind \in {"upload", "download"}, p \in Paths, g \in Gens, o \in BOOLEAN :
         Prepare(c, t, kind, p, g, o)
    \/ \E t \in Tickets : ConsumeDownload(c, t) \/ \E l \in BOOLEAN : ConsumeUpload(c, t, l)
    \/ UploadBody(c) \/ UploadCheck(c) \/ UploadLink(c)
    \/ \E p \in Paths, value \in {EmptyText, Folder} : CreateBegin(c, p, value)
    \/ CreateMake(c)
    \/ \E p, q \in Paths, g \in Gens \union {None} : MoveBegin(c, p, q, g)
    \/ MoveTarget(c) \/ MoveRename(c)
    \/ DeleteRemove(c)

(* The request of a handler that has looked at its places for the last time *)
(* and has one system call left that changes them; None before and after.   *)
Pending(c) ==
    CASE Busy(c, "write", "replace") ->
           [kind |-> "write", at |-> op[c].at, rev |-> op[c].rev, value |-> op[c].value]
      [] Busy(c, "upload", "link") ->
           [kind |-> "upload", at |-> op[c].at, overwrite |-> op[c].overwrite,
            value |-> temp[c].data]
      [] Busy(c, "create", "make") -> [kind |-> "create", at |-> op[c].at, value |-> op[c].value]
      [] Busy(c, "move", "rename") -> [kind |-> "move", at |-> op[c].at, to |-> op[c].to]
      [] Busy(c, "delete", "remove") ->
           [kind |-> "delete", at |-> op[c].at, folder |-> op[c].folder]
      [] OTHER -> None

Store == INSTANCE SharedStore
           WITH store <- files, pending <- [c \in Conns |-> Pending(c)], NoRequest <- None

ASSUME NoRequestAssumption == None \notin Store!Requests

(* History: who was overtaken between looking and acting.                   *)
NoteRaces ==
    raced' = [c \in Conns |->
        /\ Pending(c) # None /\ Pending(c)' # None
        /\ raced[c] \/ \E at \in Store!Touches(Pending(c)) : files'[at] # files[at]]

Next ==
    /\ \/ \E r \in Roots : KernelCd(r)
       \/ \E t \in Tickets : Expire(t)
       \/ \E c \in Conns : Handler(c)
    /\ NoteRaces

Spec == Init /\ [][Next]_vars

-----------------------------------------------------------------------------
Entries == Contents \union {Absent, Folder, Partial}

WorkspaceTypeOK ==
    /\ files \in [Place -> Entries]
    /\ cwd \in [root : Roots, gen : Gens]
    /\ roots \in [Gens -> Roots \union {None}]
    /\ told \subseteq Gens
    /\ docs \subseteq [path : Paths, gen : Gens, from : Roots]
    /\ \A t \in Tickets : grants[t] # None => grants[t].gen \in told
    /\ \A c \in Conns : op[c] # Idle /\ op[c].kind # "read" => op[c].at \in Place
    /\ temp \in [Conns -> [root : Roots, data : Contents \union {Partial}] \union {None}]
    /\ budget \in 0..MaxRequests

(* No file anyone can name ever holds part of a save or of an upload: both  *)
(* are built under a temporary name and moved in place when complete, also  *)
(* when the transfer is cut short (serve_workspace_upload, write_file).     *)
WholeContents == \A at \in Place : files[at] # Partial

(* A handler that has returned has left no temporary file behind, whatever  *)
(* way it returned: conflict, I/O error, cut transfer, occupied target.     *)
NoTempLeft == \A c \in Conns : op[c] = Idle => temp[c] = None

(* "one-use ticket": a ticket starts at most one transfer, however often    *)
(* and from however many connections it is presented.                       *)
TicketOnce == \A t \in Tickets : uses[t] <= 1

(* Neither on disk nor in memory is there anything half done, or done twice.*)
WorkspaceConsistent == WorkspaceTypeOK /\ WholeContents /\ NoTempLeft /\ TicketOnce

(* Every generation a reply has given out still leads to the folder it was, *)
(* although the kernel changes the Current Folder behind the service's      *)
(* back: this is what keeps open documents and tickets attached.            *)
ToldIsResolvable == \A g \in told : FolderOf(g) = past[g]

(* "an intervening directory change cannot redirect an in-flight save or    *)
(* rename to another root": a request that named a generation changes files *)
(* of that generation's folder only.                                        *)
PinnedStaysPinned ==
    [][\A c \in Conns :
         op[c] # Idle /\ op[c].gen # None /\ op'[c] # op[c]
           => \A at \in Place : files'[at] # files[at] => at[1] = past[op[c].gen]]_vars

-----------------------------------------------------------------------------
(* The multi-step handlers of several connections implement the shared      *)
(* store: every change is one atomic request whose condition held when the  *)
(* handler last looked, and only a write or a move may act on a place that  *)
(* somebody changed since, whatever `cd` does meanwhile.                    *)
ImplementsSharedStore == Store!StoreSpec

=============================================================================
