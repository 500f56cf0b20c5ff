-------------------------- MODULE DocumentSession --------------------------
(* The web client's editor session: SessionWriter, which orders the saves,  *)
(* useDocumentSessionPersistence, which restores the previous session,      *)
(* autosaves, flushes on exit and re-verifies documents after a reconnect,  *)
(* and openWorkspaceFile of App.tsx, which races with it.                   *)
(*                                                                          *)
(* One document is followed: the previous session left an unsaved draft of  *)
(* it in the store.  `draft` says that a text still contains that draft and *)
(* `edits` counts the edits made since.  Only this window writes its file.  *)
EXTENDS Naturals, Sequences

CONSTANTS
    MaxEdits, MaxSaves, MaxGen, MaxFaults, MaxOpens,   \* bounds
    None

ASSUME SessionAssumption ==
    {MaxEdits, MaxSaves, MaxGen, MaxFaults, MaxOpens} \subseteq Nat /\ MaxGen > 0

VARIABLES
    load,       \* loadState
    restoring,  \* the restore effect's async function is running
    doc,        \* the document in the editor, or None
    disk,       \* the text of its file, the document's savedContent
    opening,    \* openWorkspaceFile awaiting its read: the `existing` it saw
    timer,      \* the 300 ms autosave timer is armed
    paused,     \* pausedRef
    queue,      \* SessionWriter: the chained saves, the first one in the store's hands
    saves,      \* saves requested so far
    stored,     \* what the store holds
    dropped,    \* the newest save failed: nothing will repeat it
    exit,       \* the save the exit waits for (0: none)
    closed,     \* the window is gone
    ready, gen, \* workspaceReady and the generation of connection and root
    keys,       \* revalidationKeys
    checking,   \* a revalidation is in flight and not disposed
    displaced,  \* history: a file read without a look at the draft took its place
    faults, opens

vars == <<load, restoring, doc, disk, opening, timer, paused, queue, saves, stored, dropped,
          exit, closed, ready, gen, keys, checking, displaced, faults, opens>>

editor == <<doc, disk, timer, checking>>
writer == <<queue, saves, stored, dropped>>
workspace == <<ready, gen>>

Init ==
    /\ load = "pending" /\ restoring = FALSE
    /\ doc = None /\ disk = [draft |-> FALSE, edits |-> 0] /\ opening = None
    /\ timer = FALSE /\ paused = FALSE
    /\ queue = <<>> /\ saves = 0 /\ stored = [seq |-> 0, draft |-> TRUE, edits |-> 0, discard |-> FALSE]
    /\ dropped = FALSE /\ exit = 0 /\ closed = FALSE
    /\ ready = TRUE /\ gen = 1 /\ keys = {} /\ checking = FALSE /\ displaced = FALSE
    /\ faults = MaxFaults /\ opens = MaxOpens

-----------------------------------------------------------------------------
(* What a save stores: the documents as they are, or, when the user chose   *)
(* not to save them at the exit, as they are on disk.                       *)
Snapshot(seq) ==
    [seq |-> seq, draft |-> doc # None /\ doc.draft,
     edits |-> IF doc = None THEN 0 ELSE doc.edits, discard |-> FALSE]

DiscardSnapshot(seq) == [seq |-> seq, draft |-> disk.draft, edits |-> disk.edits, discard |-> TRUE]

(* SessionWriter.save: the write starts when every earlier one has ended,   *)
(* well or badly.                                                           *)
Save(snapshot) ==
    /\ saves < MaxSaves
    /\ saves' = saves + 1
    /\ queue' = Append(queue, snapshot)

UnderWayAll == DOMAIN queue

(* The writes that may be under way: the head of the chain.                 *)
UnderWay == IF queue = <<>> THEN {} ELSE {1}

Without(i) == SubSeq(queue, 1, i - 1) \o SubSeq(queue, i + 1, Len(queue))

ResumeWithoutSave(rest) ==
    paused' = FALSE /\ queue' = rest /\ UNCHANGED saves

(* resume, when the exit failed and the window stays: what changed while    *)
(* the autosave was paused is saved.                                        *)
Resume(rest) ==
    /\ saves < MaxSaves
    /\ paused' = FALSE
    /\ saves' = saves + 1
    /\ queue' = Append(rest, Snapshot(saves + 1))

(* The store's transaction ends.  `finish` awaits the exit snapshot's.      *)
WriteEnds(i) ==
    /\ i \in UnderWay /\ ~closed
    /\ \/ /\ stored' = queue[i] /\ dropped' = FALSE
          /\ queue' = Without(i)
          /\ UNCHANGED <<saves, paused, exit, faults>>
       \/ /\ faults > 0 /\ faults' = faults - 1
          /\ dropped' = TRUE
          /\ IF exit = queue[i].seq
             THEN exit' = 0 /\ Resume(Without(i))
             ELSE queue' = Without(i) /\ UNCHANGED <<saves, paused, exit>>
          /\ UNCHANGED stored
    /\ UNCHANGED <<load, restoring, editor, opening, closed, ready, gen, keys,
                   displaced, opens>>

CloseUnawaited ==
    /\ exit # 0 /\ ~closed
    /\ closed' = TRUE
    /\ UNCHANGED <<load, restoring, editor, opening, paused, writer, exit, workspace, keys,
                   faults, displaced, opens>>

(* finish, after the exit snapshot is stored: the window closes, or refuses *)
(* to and the dialog resumes the session.                                   *)
Close ==
    /\ exit # 0 /\ ~closed
    /\ \A i \in DOMAIN queue : queue[i].seq # exit
    /\ \/ closed' = TRUE /\ UNCHANGED <<exit, faults, saves, queue, paused>>
       \/ /\ faults > 0 /\ faults' = faults - 1
          /\ exit' = 0 /\ Resume(queue)
          /\ UNCHANGED closed
    /\ UNCHANGED <<load, restoring, editor, opening, stored, dropped, workspace, keys, displaced, opens>>

-----------------------------------------------------------------------------
(* Every change of the documents re-runs two effects: the autosave effect   *)
(* restarts its timer, and the revalidation effect disposes the check in    *)
(* flight.                                                                  *)
DocumentsChange(new) ==
    /\ doc' = new
    /\ timer' = (load' = "ready" /\ ~paused)
    /\ checking' = FALSE

Edit ==
    /\ ~closed /\ doc # None /\ doc.edits < MaxEdits
    /\ UNCHANGED load
    /\ DocumentsChange([doc EXCEPT !.edits = @ + 1])
    /\ UNCHANGED <<disk, restoring, opening, paused, writer, exit, closed, workspace, keys, faults, displaced, opens>>

Autosave ==
    /\ timer /\ ~closed
    /\ timer' = FALSE
    /\ Save(Snapshot(saves + 1))
    /\ UNCHANGED <<load, restoring, doc, disk, opening, paused, stored, dropped, exit, closed,
                   workspace, keys, checking, faults, displaced, opens>>

(* pagehide                                                                 *)
PageHide ==
    /\ load = "ready" /\ ~paused /\ ~closed
    /\ Save(Snapshot(saves + 1))
    /\ UNCHANGED <<load, restoring, editor, opening, paused, stored, dropped, exit, closed,
                   workspace, keys, faults, displaced, opens>>

Dirty == doc # None /\ [draft |-> doc.draft, edits |-> doc.edits] # disk

(* saveDocument, by the user or by the exit dialog's Save All: refused      *)
(* while the file is not verified.  An edit made while the file is written  *)
(* is one made after it.                                                    *)
SaveDocument ==
    /\ ready /\ ~closed /\ Dirty /\ doc.status = "verified"
    /\ disk' = [draft |-> doc.draft, edits |-> doc.edits]
    /\ UNCHANGED load
    /\ DocumentsChange(doc)
    /\ UNCHANGED <<restoring, opening, paused, writer, exit, closed, workspace, keys, faults, displaced, opens>>

(* finish, on the way out of the desktop window, when nothing is left to    *)
(* save or the user chose Don't Save (discard).  Its flush saves nothing    *)
(* before the session is restored, and refuses when there are documents.    *)
Flush(discard) ==
    /\ ~closed /\ exit = 0
    /\ discard \/ ~Dirty
    /\ IF load = "ready"
       THEN /\ paused' = TRUE /\ timer' = FALSE
            /\ Save(IF discard THEN DiscardSnapshot(saves + 1) ELSE Snapshot(saves + 1))
            /\ exit' = saves + 1
            /\ UNCHANGED closed
       ELSE /\ doc = None /\ closed' = TRUE
            /\ UNCHANGED <<paused, timer, queue, saves, exit>>
    /\ UNCHANGED <<load, restoring, doc, disk, opening, stored, dropped, workspace, keys, checking,
                   faults, displaced, opens>>

-----------------------------------------------------------------------------
(* restoreDocument: verified against the disk file, or unavailable.  A      *)
(* draft survives either way; an unchanged text is replaced by the disk's.  *)
Verified(d) == [d EXCEPT !.status = "verified", !.gen = gen]
Unverified(d) == [d EXCEPT !.status = "unavailable"]
PriorDraft == [draft |-> TRUE, edits |-> 0, status |-> "unavailable", gen |-> 0]

RestoreBegin ==
    /\ load = "pending" /\ ready /\ ~restoring /\ ~closed
    /\ restoring' = TRUE
    /\ UNCHANGED <<load, editor, opening, paused, writer, exit, closed, workspace, keys, faults, displaced, opens>>

LoadFailsReady ==
    /\ restoring /\ ~closed /\ faults > 0
    /\ load' = "ready" /\ restoring' = FALSE /\ faults' = faults - 1
    /\ timer' = TRUE
    /\ UNCHANGED <<doc, disk, checking, opening, paused, writer, exit, closed, workspace, keys, displaced, opens>>

(* The store cannot be read: the session is never saved over.               *)
LoadFails ==
    /\ restoring /\ ~closed /\ faults > 0
    /\ load' = "failed" /\ restoring' = FALSE /\ faults' = faults - 1
    /\ UNCHANGED <<editor, opening, paused, writer, exit, closed, workspace, keys, displaced, opens>>

(* The drafts are merged into the documents: one that is open already wins. *)
RestoreEnds ==
    /\ restoring /\ ~closed
    /\ load' = "ready" /\ restoring' = FALSE
    /\ \/ DocumentsChange(IF doc # None THEN doc ELSE Verified(PriorDraft)) /\ UNCHANGED faults
       \/ /\ faults > 0 /\ faults' = faults - 1
          /\ DocumentsChange(IF doc # None THEN doc ELSE Unverified(PriorDraft))
    /\ UNCHANGED <<disk, opening, paused, writer, exit, closed, workspace, keys, displaced, opens>>

(* openWorkspaceFile: the file is read, and what comes back replaces the    *)
(* document of that name, with the draft it saw before the read merged in.  *)
OpenBegin ==
    /\ ready /\ ~closed /\ opening = None /\ opens > 0
    /\ doc # None => doc.status = "unavailable"
    /\ opening' = [existing |-> doc]
    /\ opens' = opens - 1
    /\ UNCHANGED <<load, restoring, editor, paused, writer, exit, closed, workspace, keys, faults, displaced>>

OpenEnds ==
    /\ opening # None /\ ready /\ ~closed
    /\ opening' = None
    /\ UNCHANGED load
    /\ DocumentsChange(IF opening.existing # None THEN Verified(opening.existing)
                       ELSE [draft |-> disk.draft, edits |-> disk.edits, status |-> "verified", gen |-> gen])
    /\ displaced' = (displaced \/ opening.existing = None)
    /\ UNCHANGED <<disk, restoring, paused, writer, exit, closed, workspace, keys, faults, opens>>

-----------------------------------------------------------------------------
(* The connection.  Losing it disposes the restore and the check in flight, *)
(* and fails a read that is waiting.                                        *)
WorkspaceLost ==
    /\ ready /\ ~closed /\ gen < MaxGen
    /\ ready' = FALSE /\ restoring' = FALSE /\ checking' = FALSE /\ opening' = None
    /\ UNCHANGED <<load, doc, disk, timer, paused, writer, exit, closed, gen, keys, faults, displaced, opens>>

WorkspaceBack ==
    /\ ~ready /\ ~closed
    /\ ready' = TRUE /\ gen' = gen + 1
    /\ UNCHANGED <<load, restoring, editor, opening, paused, writer, exit, closed, keys, faults, displaced, opens>>

Candidate == doc # None /\ (doc.gen # gen \/ doc.status = "unavailable")

(* The revalidation effect: one check per connection and root generation.   *)
RevalidateBegin ==
    /\ load = "ready" /\ ready /\ ~closed /\ Candidate /\ gen \notin keys
    /\ keys' = keys \union {gen}
    /\ checking' = TRUE
    /\ UNCHANGED <<load, restoring, doc, disk, timer, opening, paused, writer, exit, closed, workspace,
                   faults, displaced, opens>>

RevalidateEnds ==
    /\ checking /\ ~closed
    /\ UNCHANGED load
    /\ \/ DocumentsChange(Verified(doc)) /\ UNCHANGED faults
       \/ DocumentsChange(Unverified(doc)) /\ faults > 0 /\ faults' = faults - 1
    /\ UNCHANGED <<disk, restoring, opening, paused, writer, exit, closed, workspace, keys, displaced, opens>>

-----------------------------------------------------------------------------
Next ==
    \/ \E i \in DOMAIN queue : WriteEnds(i)
    \/ Edit \/ Autosave \/ PageHide \/ SaveDocument \/ Close
    \/ \E discard \in BOOLEAN : Flush(discard)
    \/ RestoreBegin \/ LoadFails \/ RestoreEnds \/ OpenBegin \/ OpenEnds
    \/ WorkspaceLost \/ WorkspaceBack \/ RevalidateBegin \/ RevalidateEnds

Spec == Init /\ [][Next]_vars

-----------------------------------------------------------------------------
Session == [seq : 0..MaxSaves, draft : BOOLEAN, edits : 0..MaxEdits, discard : BOOLEAN]
Document == [draft : BOOLEAN, edits : 0..MaxEdits, status : {"verified", "unavailable"},
             gen : 0..MaxGen]

ASSUME NoDocumentAssumption == None \notin Document

SessionTypeOK ==
    /\ load \in {"pending", "ready", "failed"}
    /\ doc \in Document \union {None} /\ disk \in [draft : BOOLEAN, edits : 0..MaxEdits]
    /\ opening # None => opening.existing \in Document \union {None}
    /\ queue \in Seq(Session) /\ stored \in Session
    /\ saves \in 0..MaxSaves /\ exit \in 0..saves
    /\ gen \in 0..MaxGen /\ keys \subseteq 0..MaxGen
    /\ checking => doc # None /\ gen \in keys
    /\ restoring => load = "pending"

(* "An older, slower autosave must not overwrite the final exit snapshot":  *)
(* the store only ever moves to a later save.                               *)
StoreNeverGoesBack == [][stored'.seq >= stored.seq]_stored

(* "Preserve the previous session if startup has not restored it yet": no   *)
(* save made before, during or after a failed or interrupted start removes  *)
(* the draft of the previous session from the store.  It is gone from a     *)
(* snapshot only if the user chose Don't Save for that very snapshot, or    *)
(* after a file whose read was asked for before the restore had put its     *)
(* draft in the editor was put there in its place: a read that fails or is  *)
(* lost, or one that saw the draft, takes nothing away.                     *)
StoreKeepsDraft == stored.draft \/ stored.discard \/ displaced

(* The two, as one invariant.                                               *)
SessionConsistent == SessionTypeOK /\ StoreKeepsDraft

(* "The final editor recovery transaction is awaited before destroying the  *)
(* window": a window that closed left its exit snapshot in the store.       *)
ClosedIsStored == closed /\ exit # 0 => stored.seq = exit

(* When the writer is quiet, the store holds the documents as they are:     *)
(* no edit falls between the timers, the pause and the resume.  The one     *)
(* exception is a newest save that failed, which nothing repeats.           *)
QuietIsStored ==
    load = "ready" /\ ~timer /\ ~paused /\ queue = <<>> /\ ~dropped /\ ~closed
      => stored.edits = doc.edits /\ stored.draft = doc.draft

=============================================================================
