---------------------------- MODULE SharedStore ----------------------------
(* What the workspace service promises about the files of a folder that     *)
(* several connections share.  A request looks at the places it names, may  *)
(* go on only when they are as it needs them, and takes effect at a single  *)
(* later instant or fails without a trace.  If nobody touches those places  *)
(* in between, that is an atomic request: a write replaces exactly the      *)
(* revision it names, and create, move and upload without `overwrite` fill  *)
(* an empty place.  If somebody does, the file system decides once more,    *)
(* except for write and move, which then overtake: this is all that sharing *)
(* costs.                                                                   *)
CONSTANTS Conns, Roots, Paths, Contents, Absent, Folder, NoRequest

VARIABLES
    store,     \* the files
    pending,   \* the request of each connection between its look and its effect
    raced      \* whether somebody changed a place it names since the look

Place == Roots \X Paths

(* The requests, with the places they name already resolved.                *)
Requests ==
    [kind : {"write"}, at : Place, rev : Contents, value : Contents]
      \union [kind : {"upload"}, at : Place, overwrite : BOOLEAN, value : Contents]
      \union [kind : {"create"}, at : Place, value : Contents \union {Folder}]
      \union [kind : {"move"}, at : Place, to : Place]
      \union [kind : {"delete"}, at : Place, folder : BOOLEAN]

Touches(q) == IF q.kind = "move" THEN {q.at, q.to} ELSE {q.at}

(* The condition a request looks for.                                       *)
Applies(q) ==
    CASE q.kind = "write"  -> store[q.at] = q.rev
      [] q.kind = "upload" -> \/ store[q.at] = Absent
                              \/ q.overwrite /\ store[q.at] \in Contents
      [] q.kind = "create" -> store[q.at] = Absent
      [] q.kind = "move"   -> store[q.to] = Absent
      [] q.kind = "delete" -> /\ store[q.at] # Absent
                              /\ q.folder = (store[q.at] = Folder)

(* What a write and a move do to a place that was changed since the look: a *)
(* rename replaces a file by a file and a folder by a folder.               *)
Overtakes(q) ==
    \/ q.kind = "write" /\ store[q.at] # Folder
    \/ /\ q.kind = "move"
       /\ store[q.at] # Absent /\ store[q.to] # Absent
       /\ (store[q.at] = Folder) = (store[q.to] = Folder)

Effect(q) ==
    CASE q.kind = "move"   -> [store EXCEPT ![q.to] = store[q.at], ![q.at] = Absent]
      [] q.kind = "delete" -> [store EXCEPT ![q.at] = Absent]
      [] OTHER             -> [store EXCEPT ![q.at] = q.value]

StoreInit ==
    /\ store \in [Place -> Contents \union {Absent, Folder}]
    /\ pending = [c \in Conns |-> NoRequest]
    /\ raced = [c \in Conns |-> FALSE]

Look(c) ==
    /\ pending[c] = NoRequest
    /\ pending'[c] \in Requests /\ Applies(pending'[c])
    /\ pending' = [pending EXCEPT ![c] = pending'[c]]
    /\ UNCHANGED <<store, raced>>

Perform(c) ==
    /\ pending[c] # NoRequest
    /\ Applies(pending[c]) \/ (raced[c] /\ Overtakes(pending[c]))
    /\ store' = Effect(pending[c])
    /\ pending' = [pending EXCEPT ![c] = NoRequest]
    /\ raced' = [d \in Conns |->
         /\ pending'[d] # NoRequest
         /\ raced[d] \/ \E at \in Touches(pending[d]) : store'[at] # store[at]]

Fail(c) ==
    /\ pending[c] # NoRequest
    /\ pending' = [pending EXCEPT ![c] = NoRequest]
    /\ raced' = [raced EXCEPT ![c] = FALSE]
    /\ UNCHANGED store

StoreNext == \E c \in Conns : Look(c) \/ Perform(c) \/ Fail(c)

StoreSpec == StoreInit /\ [][StoreNext]_<<store, pending, raced>>
=============================================================================
