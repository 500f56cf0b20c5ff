----------------------- MODULE DocumentSessionProofs -----------------------
(* Proofs about DocumentSession, for any number of edits, saves,            *)
(* reconnections and faults: the store never goes back, keeps the draft of  *)
(* the previous session, and holds the exit snapshot of a closed window.    *)
EXTENDS DocumentSession, TLAPS

USE SessionAssumption, NoDocumentAssumption

MaybeDocument == Document \union {None}
Text == [draft : BOOLEAN, edits : 0..MaxEdits]

TypeInv ==
    /\ load \in {"pending", "ready", "failed"}
    /\ restoring \in BOOLEAN /\ timer \in BOOLEAN /\ paused \in BOOLEAN /\ dropped \in BOOLEAN
    /\ closed \in BOOLEAN /\ ready \in BOOLEAN /\ checking \in BOOLEAN /\ displaced \in BOOLEAN
    /\ doc \in MaybeDocument /\ disk \in Text
    /\ opening \in [existing : MaybeDocument] \union {None}
    /\ queue \in Seq(Session) /\ stored \in Session
    /\ saves \in 0..MaxSaves /\ exit \in 0..saves
    /\ gen \in 0..MaxGen /\ keys \subseteq 0..MaxGen

(* The session is saved only after it was restored, when there is a         *)
(* document; a check in flight is one of this connection.                   *)
StartInv ==
    /\ restoring => load = "pending"
    /\ load = "ready" => doc # None
    /\ timer => load = "ready" /\ ~paused
    /\ checking => doc # None /\ gen \in keys
    /\ ~ready => ~checking /\ gen < MaxGen

(* The saves in queue q are newer than the one with number s in the store,  *)
(* and in order, up to number n.                                            *)
Ordered(q, s, n) ==
    /\ s <= n
    /\ \A i \in DOMAIN q : s < q[i].seq /\ q[i].seq <= n
    /\ \A i, j \in DOMAIN q : i < j => q[i].seq < q[j].seq
    /\ q # <<>> => q[Len(q)].seq = n

OrderInv == Ordered(queue, stored.seq, saves)

(* An exit waits for the newest save, and nothing is saved meanwhile.       *)
ExitInv ==
    exit # 0 => paused /\ load = "ready" /\ exit = saves /\ (queue = <<>> => stored.seq = exit)

(* Until a file takes the place of its draft, no text anywhere has lost the *)
(* draft but the snapshots from which the user discarded it.                *)
Kept(s) == s.draft \/ s.discard
DraftInv ==
    ~displaced => /\ Kept(stored)
                  /\ \A i \in DOMAIN queue : Kept(queue[i])
                  /\ doc # None => doc.draft
                  /\ opening # None /\ opening.existing # None => opening.existing.draft

(* Between the timers, the newest save is of the documents as they are.     *)
Matches(s) == s.edits = doc.edits /\ s.draft = doc.draft
FreshInv ==
    load = "ready" /\ ~timer /\ ~paused =>
      /\ queue # <<>> => Matches(queue[Len(queue)])
      /\ queue = <<>> => dropped \/ Matches(stored)

SessionInv ==
    TypeInv /\ StartInv /\ OrderInv /\ ExitInv /\ DraftInv /\ FreshInv /\ ClosedIsStored
-----------------------------------------------------------------------------
(* The queue of saves                                                       *)

(* The one write that may be under way is the oldest.                       *)
LEMMA UnderWayIsHead ==
    ASSUME NEW i \in UnderWay
    PROVE  i = 1 /\ queue # <<>>
BY DEF UnderWay

(* Dropping the write under way, the head of the chained queue, leaves its  *)
(* tail.                                                                    *)
LEMMA WithoutHead ==
    ASSUME queue \in Seq(Session), queue # <<>>
    PROVE  Without(1) = Tail(queue)
<1>1. Len(queue) \in Nat /\ Len(queue) > 0
    OBVIOUS
<1>2. SubSeq(queue, 1, 0) = <<>>
    OBVIOUS
<1>3. SubSeq(queue, 2, Len(queue)) = Tail(queue)
    OBVIOUS
<1>4. <<>> \o Tail(queue) = Tail(queue)
    OBVIOUS
<1> QED
    BY <1>2, <1>3, <1>4 DEF Without

(* Every save in the queue is a snapshot with its number.                   *)
LEMMA SavesAreNumbered ==
    ASSUME NEW q \in Seq(Session), NEW i \in DOMAIN q
    PROVE  q[i] \in Session /\ q[i].seq \in Nat
<1>1. q[i] \in Session
    OBVIOUS
<1> QED
    BY <1>1 DEF Session

(* The newest save goes to the end of the queue.                            *)
LEMMA OrderedAppend ==
    ASSUME NEW q \in Seq(Session), NEW s \in Nat, NEW n \in Nat, Ordered(q, s, n),
           NEW e \in Session, e.seq = n + 1, NEW r, r = Append(q, e)
    PROVE  /\ r \in Seq(Session) /\ r # <<>> /\ r[Len(r)] = e
           /\ Ordered(r, s, n + 1)
           /\ \A i \in DOMAIN r : r[i] = e \/ (i \in DOMAIN q /\ r[i] = q[i])
<1>1. r \in Seq(Session) /\ Len(r) = Len(q) + 1 /\ Len(q) \in Nat /\ r # <<>>
    OBVIOUS
<1>2. r[Len(q) + 1] = e /\ \A i \in 1..Len(q) : r[i] = q[i]
    OBVIOUS
<1>3. DOMAIN r = 1..(Len(q) + 1) /\ DOMAIN q = 1..Len(q)
    OBVIOUS
<1>4. \A i \in DOMAIN q : q[i].seq \in Nat
    BY SavesAreNumbered
<1>5. \A i \in DOMAIN r : r[i] = e \/ (i \in DOMAIN q /\ r[i] = q[i])
    BY <1>1, <1>2, <1>3
<1>6. \A i \in DOMAIN r : s < r[i].seq /\ r[i].seq <= n + 1
    BY <1>4, <1>5 DEF Ordered
<1>7. \A i, j \in DOMAIN r : i < j => r[i].seq < r[j].seq
    <2> SUFFICES ASSUME NEW i \in DOMAIN r, NEW j \in DOMAIN r, i < j
                 PROVE  r[i].seq < r[j].seq
        OBVIOUS
    <2>1. i \in 1..Len(q) /\ r[i] = q[i]
        BY <1>1, <1>2, <1>3
    <2>2. CASE j \in 1..Len(q)
        BY <1>2, <1>3, <2>1, <2>2 DEF Ordered
    <2>3. CASE j = Len(q) + 1
        BY <1>2, <1>3, <1>4, <2>1, <2>3 DEF Ordered
    <2> QED
        BY <1>1, <1>3, <2>2, <2>3
<1>8. Ordered(r, s, n + 1)
    BY <1>1, <1>2, <1>6, <1>7 DEF Ordered
<1>9. r[Len(r)] = e
    BY <1>1, <1>2
<1> QED
    BY <1>1, <1>5, <1>8, <1>9

(* The oldest save leaves the queue, stored or not.                         *)
LEMMA OrderedTail ==
    ASSUME NEW q \in Seq(Session), q # <<>>, NEW s \in Nat, NEW n \in Nat, Ordered(q, s, n),
           NEW r, r = Tail(q)
    PROVE  /\ r \in Seq(Session) /\ 1 \in DOMAIN q /\ q[1] \in Session /\ s < q[1].seq
           /\ Ordered(r, q[1].seq, n) /\ Ordered(r, s, n)
           /\ \A i \in DOMAIN r : i + 1 \in DOMAIN q /\ r[i] = q[i + 1]
           /\ r # <<>> => r[Len(r)] = q[Len(q)]
           /\ r = <<>> => q[Len(q)] = q[1]
<1>1. r \in Seq(Session) /\ Len(r) = Len(q) - 1 /\ Len(q) \in Nat /\ Len(q) >= 1 /\ Len(r) \in Nat
    OBVIOUS
<1>2. \A i \in 1..Len(r) : r[i] = q[i + 1]
    OBVIOUS
<1>3. DOMAIN r = 1..Len(r) /\ DOMAIN q = 1..Len(q)
    BY <1>1
<1>a. r = <<>> <=> Len(r) = 0
    <2>1. PICK x \in Seq(Session) : x = r
        BY <1>1
    <2>2. x = <<>> <=> Len(x) = 0
        OBVIOUS
    <2> QED
        BY <2>1, <2>2
<1>4. \A i \in DOMAIN q : q[i] \in Session /\ q[i].seq \in Nat
    BY SavesAreNumbered
<1>5. \A i \in DOMAIN r : i + 1 \in DOMAIN q /\ r[i] = q[i + 1]
    BY <1>1, <1>2, <1>3
<1>6. 1 \in DOMAIN q /\ s < q[1].seq /\ q[1].seq <= n
    BY <1>1, <1>3 DEF Ordered
<1>7. ASSUME NEW i \in DOMAIN r
      PROVE  q[1].seq < r[i].seq /\ s < r[i].seq /\ r[i].seq <= n
    <2>1. i + 1 \in DOMAIN q /\ r[i] = q[i + 1] /\ 1 < i + 1
        BY <1>1, <1>3, <1>5
    <2>2. q[1].seq < q[i + 1].seq /\ s < q[i + 1].seq /\ q[i + 1].seq <= n
        BY <1>6, <2>1 DEF Ordered
    <2> QED
        BY <2>1, <2>2
<1>8. ASSUME NEW i \in DOMAIN r, NEW j \in DOMAIN r, i < j
      PROVE  r[i].seq < r[j].seq
    <2>1. i + 1 \in DOMAIN q /\ j + 1 \in DOMAIN q /\ i + 1 < j + 1
        BY <1>1, <1>3, <1>5, <1>8
    <2>2. q[i + 1].seq < q[j + 1].seq
        BY <2>1 DEF Ordered
    <2> QED
        BY <1>5, <2>2
<1>9. r # <<>> => r[Len(r)] = q[Len(q)]
    BY <1>1, <1>2, <1>a
<1>b. r # <<>> => r[Len(r)].seq = n
    BY <1>9 DEF Ordered
<1>10. Ordered(r, q[1].seq, n) /\ Ordered(r, s, n)
    BY <1>6, <1>7, <1>8, <1>b DEF Ordered
<1>11. r = <<>> => q[Len(q)] = q[1]
    <2>1. r = <<>> => Len(q) = 1
        BY <1>1, <1>a
    <2> QED
        BY <2>1
<1> QED
    BY <1>1, <1>4, <1>5, <1>6, <1>9, <1>10, <1>11

(* A save taken with a document open is a copy of its text.                 *)
LEMMA SnapshotOf ==
    ASSUME doc \in Document, NEW n \in 0..MaxSaves
    PROVE  /\ Snapshot(n) \in Session /\ Snapshot(n).seq = n
           /\ Snapshot(n).edits = doc.edits /\ Snapshot(n).draft = doc.draft
           /\ disk \in Text => DiscardSnapshot(n) \in Session /\ DiscardSnapshot(n).seq = n
           /\ disk \in Text => DiscardSnapshot(n).discard = TRUE
<1>1. doc # None /\ doc.draft \in BOOLEAN /\ doc.edits \in 0..MaxEdits
    BY DEF Document
<1>2. (doc # None /\ doc.draft) = doc.draft
    BY <1>1
<1>3. Snapshot(n) = [seq |-> n, draft |-> doc.draft, edits |-> doc.edits, discard |-> FALSE]
    BY <1>1, <1>2 DEF Snapshot
<1>4. disk \in Text => DiscardSnapshot(n) \in Session /\ DiscardSnapshot(n).seq = n
    BY DEF DiscardSnapshot, Session, Text
<1>5. disk \in Text => DiscardSnapshot(n).discard = TRUE
    BY DEF DiscardSnapshot
<1> QED
    BY <1>1, <1>3, <1>4, <1>5 DEF Session
-----------------------------------------------------------------------------
(* Steps that leave the documents and the saves alone                       *)

(* A step that leaves the documents and the write queue alone keeps what is *)
(* said of them.                                                            *)
LEMMA WriterStays ==
    ASSUME SessionInv, UNCHANGED <<doc, timer, paused, queue, saves, stored, dropped, exit, closed>>,
           load' = "ready" <=> load = "ready"
    PROVE  OrderInv' /\ ExitInv' /\ FreshInv' /\ ClosedIsStored'
<1>1. OrderInv'
    BY DEF SessionInv, OrderInv
<1>2. ExitInv' /\ ClosedIsStored'
    BY DEF SessionInv, ExitInv, ClosedIsStored
<1>3. FreshInv'
    BY DEF SessionInv, FreshInv, Matches
<1> QED
    BY <1>1, <1>2, <1>3

(* The restore of the stored session is started.                            *)
LEMMA RestoreBeginStep ==
    ASSUME SessionInv, RestoreBegin
    PROVE  SessionInv'
<1> USE DEF RestoreBegin, editor, writer, workspace
<1>1. OrderInv' /\ ExitInv' /\ FreshInv' /\ ClosedIsStored'
    BY WriterStays
<1>2. TypeInv' /\ StartInv' /\ DraftInv'
    BY DEF SessionInv, TypeInv, StartInv, DraftInv
<1> QED
    BY <1>1, <1>2 DEF SessionInv

(* Reading the stored session fails: the page starts without it.            *)
LEMMA LoadFailsStep ==
    ASSUME SessionInv, LoadFails
    PROVE  SessionInv'
<1> USE DEF LoadFails, editor, writer, workspace
<1>1. OrderInv' /\ ExitInv' /\ FreshInv' /\ ClosedIsStored'
    BY WriterStays DEF SessionInv, StartInv
<1>2. TypeInv' /\ StartInv' /\ DraftInv'
    BY DEF SessionInv, TypeInv, StartInv, DraftInv
<1> QED
    BY <1>1, <1>2 DEF SessionInv

(* openWorkspaceFile remembers the open document before it awaits the read. *)
LEMMA OpenBeginStep ==
    ASSUME SessionInv, OpenBegin
    PROVE  SessionInv'
<1> USE DEF OpenBegin, editor, writer, workspace
<1>1. OrderInv' /\ ExitInv' /\ FreshInv' /\ ClosedIsStored'
    BY WriterStays
<1>2. opening' = [existing |-> doc]
    OBVIOUS
<1>3. TypeInv'
    BY <1>2 DEF SessionInv, TypeInv
<1>4. StartInv'
    BY DEF SessionInv, StartInv
<1>5. DraftInv'
    BY <1>2 DEF SessionInv, DraftInv, Kept
<1> QED
    BY <1>1, <1>3, <1>4, <1>5 DEF SessionInv

(* The workspace connection is lost.                                        *)
LEMMA WorkspaceLostStep ==
    ASSUME SessionInv, WorkspaceLost
    PROVE  SessionInv'
<1> USE DEF WorkspaceLost, writer
<1>1. OrderInv' /\ ExitInv' /\ FreshInv' /\ ClosedIsStored'
    BY WriterStays
<1>2. TypeInv' /\ StartInv' /\ DraftInv'
    BY DEF SessionInv, TypeInv, StartInv, DraftInv
<1> QED
    BY <1>1, <1>2 DEF SessionInv

(* The workspace connection is back, under a new generation.                *)
LEMMA WorkspaceBackStep ==
    ASSUME SessionInv, WorkspaceBack
    PROVE  SessionInv'
<1> USE DEF WorkspaceBack, editor, writer
<1>1. OrderInv' /\ ExitInv' /\ FreshInv' /\ ClosedIsStored'
    BY WriterStays
<1>2. gen' \in 0..MaxGen
    BY DEF SessionInv, TypeInv, StartInv
<1>3. TypeInv' /\ StartInv' /\ DraftInv'
    BY <1>2 DEF SessionInv, TypeInv, StartInv, DraftInv
<1> QED
    BY <1>1, <1>3 DEF SessionInv

(* The documents restored are compared with the files behind them.          *)
LEMMA RevalidateBeginStep ==
    ASSUME SessionInv, RevalidateBegin
    PROVE  SessionInv'
<1> USE DEF RevalidateBegin, writer, workspace
<1>1. OrderInv' /\ ExitInv' /\ FreshInv' /\ ClosedIsStored'
    BY WriterStays
<1>2. TypeInv' /\ StartInv' /\ DraftInv'
    BY DEF SessionInv, TypeInv, StartInv, DraftInv, Candidate
<1> QED
    BY <1>1, <1>2 DEF SessionInv
-----------------------------------------------------------------------------
(* Steps that change the documents                                          *)

(* A change of the documents arms the timer, unless an exit is under way,   *)
(* which saves once more if it fails.                                       *)
LEMMA DocumentStep ==
    ASSUME SessionInv, NEW new \in Document, DocumentsChange(new),
           UNCHANGED <<paused, queue, saves, stored, dropped, exit, closed, ready, gen, keys>>,
           disk' \in Text, displaced' \in BOOLEAN, displaced => displaced',
           \/ load' = load /\ restoring' = restoring
           \/ load' = "ready" /\ restoring' = FALSE,
           opening' \in {opening, None}, ~displaced' => new.draft
    PROVE  SessionInv'
<1>1. doc' = new /\ timer' = (load' = "ready" /\ ~paused) /\ checking' = FALSE /\ new # None
    BY DEF DocumentsChange
<1>2. TypeInv'
    BY <1>1 DEF SessionInv, TypeInv, MaybeDocument
<1>3. StartInv'
    <2>1. timer' => load' = "ready" /\ ~paused
        BY <1>1
    <2>2. restoring' => load' = "pending"
        BY DEF SessionInv, StartInv
    <2>3. ~checking' /\ doc' # None
        BY <1>1
    <2>4. ~ready' => gen' < MaxGen
        BY DEF SessionInv, StartInv
    <2> QED
        BY <2>1, <2>2, <2>3, <2>4 DEF StartInv
<1>4. OrderInv' /\ ExitInv' /\ ClosedIsStored'
    BY DEF SessionInv, OrderInv, ExitInv, ClosedIsStored
<1>5. DraftInv'
    BY <1>1 DEF SessionInv, DraftInv, Kept
<1>6. FreshInv'
    BY <1>1 DEF FreshInv
<1> QED
    BY <1>2, <1>3, <1>4, <1>5, <1>6 DEF SessionInv

(* What a revalidation answers changes a document's state and never its     *)
(* draft.                                                                   *)
LEMMA VerifiedDocument ==
    ASSUME TypeInv, NEW d \in Document
    PROVE  /\ Verified(d) \in Document /\ Verified(d).draft = d.draft
           /\ Unverified(d) \in Document /\ Unverified(d).draft = d.draft
BY DEF TypeInv, Document, Verified, Unverified

(* The stored session holds the draft of the run before.                    *)
LEMMA PriorDraftDocument == PriorDraft \in Document /\ PriorDraft.draft = TRUE
BY DEF PriorDraft, Document

(* The user types: the draft moves on and the autosave timer is set.        *)
LEMMA EditStep ==
    ASSUME SessionInv, Edit
    PROVE  SessionInv'
<1>1. doc \in Document /\ doc.edits \in Nat /\ doc.edits < MaxEdits
    BY DEF SessionInv, TypeInv, MaybeDocument, Edit, Document
<1>2. PICK new : new = [doc EXCEPT !.edits = @ + 1]
    OBVIOUS
<1>3. new \in Document /\ new.draft = doc.draft
    BY <1>1, <1>2 DEF Document
<1>4. ~displaced => new.draft
    BY <1>1, <1>3 DEF SessionInv, DraftInv
<1>5. DocumentsChange(new)
    BY <1>2 DEF Edit
<1> QED
    BY <1>3, <1>4, <1>5, DocumentStep DEF Edit, writer, workspace, SessionInv, TypeInv

(* The restored documents are put in place, unless one was opened           *)
(* meanwhile.                                                               *)
LEMMA RestoreEndsStep ==
    ASSUME SessionInv, RestoreEnds
    PROVE  SessionInv'
<1>1. TypeInv
    BY DEF SessionInv
<1>2. ASSUME NEW d \in Document, d.draft = TRUE, DocumentsChange(IF doc # None THEN doc ELSE d)
      PROVE  SessionInv'
    <2>1. PICK new : new = IF doc # None THEN doc ELSE d
        OBVIOUS
    <2>2. new \in Document
        BY <1>1, <2>1 DEF TypeInv, MaybeDocument
    <2>3. ~displaced => new.draft
        BY <1>2, <2>1 DEF SessionInv, DraftInv
    <2> QED
        BY <1>2, <2>1, <2>2, <2>3, DocumentStep DEF RestoreEnds, writer, workspace, SessionInv, TypeInv
<1>3. /\ Verified(PriorDraft) \in Document /\ Verified(PriorDraft).draft = TRUE
      /\ Unverified(PriorDraft) \in Document /\ Unverified(PriorDraft).draft = TRUE
    BY <1>1, VerifiedDocument, PriorDraftDocument
<1> QED
    BY <1>2, <1>3 DEF RestoreEnds

(* The read of openWorkspaceFile ends and the document remembered is put    *)
(* back.                                                                    *)
LEMMA OpenEndsStep ==
    ASSUME SessionInv, OpenEnds
    PROVE  SessionInv'
<1>1. TypeInv
    BY DEF SessionInv
<1>2. CASE opening.existing # None
    <2>1. opening.existing \in Document
        BY <1>1, <1>2 DEF TypeInv, MaybeDocument, OpenEnds
    <2>2. PICK new : new = Verified(opening.existing)
        OBVIOUS
    <2>3. new \in Document /\ new.draft = opening.existing.draft
        BY <1>1, <2>1, <2>2, VerifiedDocument
    <2>4. ~displaced => new.draft
        BY <1>2, <2>3 DEF SessionInv, DraftInv, OpenEnds
    <2>5. UNCHANGED <<disk, displaced>> /\ disk \in Text /\ displaced \in BOOLEAN
        <3>1. displaced' = (displaced \/ opening.existing = None)
            BY DEF OpenEnds
        <3>2. displaced \in BOOLEAN
            BY <1>1 DEF TypeInv
        <3>3. displaced' = displaced
            BY <1>2, <3>1, <3>2, Zenon
        <3> QED
            BY <1>1, <3>2, <3>3 DEF OpenEnds, TypeInv
    <2> QED
        BY <1>2, <2>2, <2>3, <2>4, <2>5, DocumentStep DEF OpenEnds, writer, workspace
<1>3. CASE opening.existing = None
    <2>1. displaced' = TRUE
        BY <1>3 DEF OpenEnds
    <2>2. PICK new : new = [draft |-> disk.draft, edits |-> disk.edits, status |-> "verified", gen |-> gen]
        OBVIOUS
    <2>3. new \in Document
        BY <1>1, <2>2 DEF TypeInv, Text, Document
    <2>4. DocumentsChange(new) /\ UNCHANGED disk /\ disk \in Text
        BY <1>1, <1>3, <2>2 DEF OpenEnds, TypeInv
    <2> QED
        BY <2>1, <2>3, <2>4, DocumentStep DEF OpenEnds, writer, workspace
<1> QED
    BY <1>2, <1>3

(* A document is written to its file: the documents change, their text does *)
(* not.                                                                     *)
LEMMA SaveDocumentStep ==
    ASSUME SessionInv, SaveDocument
    PROVE  SessionInv'
<1>1. doc \in Document /\ disk' = [draft |-> doc.draft, edits |-> doc.edits] /\ displaced \in BOOLEAN
    BY DEF SessionInv, TypeInv, MaybeDocument, SaveDocument, Dirty
<1>2. disk' \in Text
    BY <1>1 DEF Document, Text
<1>3. ~displaced => doc.draft
    BY <1>1 DEF SessionInv, DraftInv
<1>4. PICK new : new = doc
    OBVIOUS
<1>5. new \in Document /\ DocumentsChange(new) /\ (~displaced => new.draft)
    BY <1>1, <1>3, <1>4 DEF SaveDocument
<1> QED
    BY <1>1, <1>2, <1>5, DocumentStep DEF SaveDocument, writer, workspace

(* The answer of a revalidation is applied if the document is still the one *)
(* asked about.                                                             *)
LEMMA RevalidateEndsStep ==
    ASSUME SessionInv, RevalidateEnds
    PROVE  SessionInv'
<1>1. TypeInv /\ doc \in Document
    BY DEF SessionInv, StartInv, TypeInv, MaybeDocument, RevalidateEnds
<1>2. ASSUME NEW d \in Document, d.draft = doc.draft, DocumentsChange(d)
      PROVE  SessionInv'
    <2>1. ~displaced => d.draft
        BY <1>1, <1>2 DEF SessionInv, DraftInv
    <2> QED
        BY <1>2, <2>1, DocumentStep DEF RevalidateEnds, writer, workspace, SessionInv, TypeInv
<1>3. /\ Verified(doc) \in Document /\ Verified(doc).draft = doc.draft
      /\ Unverified(doc) \in Document /\ Unverified(doc).draft = doc.draft
    BY <1>1, VerifiedDocument
<1> QED
    BY <1>2, <1>3 DEF RevalidateEnds
-----------------------------------------------------------------------------
(* Steps that save                                                          *)

(* What the type invariant says of the saves, and of everything else.       *)
SavesType == queue \in Seq(Session) /\ saves \in 0..MaxSaves /\ exit \in 0..saves
OthersType ==
    /\ load \in {"pending", "ready", "failed"}
    /\ restoring \in BOOLEAN /\ timer \in BOOLEAN /\ paused \in BOOLEAN /\ dropped \in BOOLEAN
    /\ closed \in BOOLEAN /\ ready \in BOOLEAN /\ checking \in BOOLEAN /\ displaced \in BOOLEAN
    /\ doc \in MaybeDocument /\ disk \in Text
    /\ opening \in [existing : MaybeDocument] \union {None}
    /\ stored \in Session /\ gen \in 0..MaxGen /\ keys \subseteq 0..MaxGen
(* The types, split into those of the saves and the others.                 *)
LEMMA TypeInvParts == TypeInv <=> SavesType /\ OthersType
BY DEF TypeInv, SavesType, OthersType
(* The same split after a step.                                             *)
LEMMA TypeInvPartsNext == TypeInv' <=> SavesType' /\ OthersType'
BY TypeInvParts, PTL

(* A save joins the queue, or what is left of it after a write has ended.   *)
LEMMA EntryAppended ==
    ASSUME SessionInv, saves < MaxSaves, saves' = saves + 1,
           NEW rest \in Seq(Session), Ordered(rest, stored.seq, saves),
           ~displaced => \A i \in DOMAIN rest : Kept(rest[i]),
           NEW e \in Session, e.seq = saves + 1, ~displaced => Kept(e),
           queue' = Append(rest, e), UNCHANGED stored
    PROVE  /\ queue' \in Seq(Session) /\ queue' # <<>> /\ saves' \in 0..MaxSaves
           /\ OrderInv' /\ queue'[Len(queue')] = e
           /\ ~displaced => \A i \in DOMAIN queue' : Kept(queue'[i])
<1>1. saves \in Nat /\ saves + 1 \in 0..MaxSaves
    BY DEF SessionInv, TypeInv
<1>4. stored.seq \in Nat
    BY DEF SessionInv, TypeInv, Session
<1>5. /\ queue' \in Seq(Session) /\ queue' # <<>> /\ queue'[Len(queue')] = e
      /\ Ordered(queue', stored.seq, saves + 1)
      /\ \A i \in DOMAIN queue' : queue'[i] = e \/ (i \in DOMAIN rest /\ queue'[i] = rest[i])
    <2>1. PICK r : r = queue'
        OBVIOUS
    <2>2. PICK n \in Nat : n = saves
        BY <1>1
    <2>3. PICK m \in Nat : m = stored.seq
        BY <1>4
    <2>4. Ordered(rest, m, n) /\ e.seq = n + 1 /\ r = Append(rest, e)
        BY <2>1, <2>2, <2>3
    <2>5. r \in Seq(Session) /\ r # <<>> /\ r[Len(r)] = e
        BY <2>4, OrderedAppend
    <2>6. Ordered(r, m, n + 1)
        BY <2>4, OrderedAppend
    <2>7. \A i \in DOMAIN r : r[i] = e \/ (i \in DOMAIN rest /\ r[i] = rest[i])
        BY <2>4, OrderedAppend
    <2> QED
        BY <2>1, <2>2, <2>3, <2>5, <2>6, <2>7
<1>7. OrderInv'
    BY <1>5 DEF OrderInv, Ordered
<1>10. ASSUME ~displaced, NEW i \in DOMAIN queue' PROVE Kept(queue'[i])
    <2>1. CASE queue'[i] = e
        BY <1>10, <2>1
    <2>2. CASE i \in DOMAIN rest /\ queue'[i] = rest[i]
        BY <1>10, <2>2
    <2> QED
        BY <1>5, <2>1, <2>2
<1> QED
    BY <1>1, <1>5, <1>7, <1>10

(* A save of the documents as they are joins the queue.                     *)
LEMMA SaveAppended ==
    ASSUME SessionInv, load = "ready", saves < MaxSaves, saves' = saves + 1,
           NEW rest \in Seq(Session), Ordered(rest, stored.seq, saves),
           ~displaced => \A i \in DOMAIN rest : Kept(rest[i]),
           queue' = Append(rest, Snapshot(saves + 1)), UNCHANGED <<stored, doc>>
    PROVE  /\ queue' \in Seq(Session) /\ queue' # <<>> /\ saves' \in 0..MaxSaves
           /\ OrderInv' /\ Matches(queue[Len(queue)])'
           /\ ~displaced => \A i \in DOMAIN queue' : Kept(queue'[i])
<1>1. doc \in Document /\ saves \in Nat /\ saves + 1 \in 0..MaxSaves
    BY DEF SessionInv, TypeInv, StartInv, MaybeDocument
<1>2. PICK e : e = Snapshot(saves + 1)
    OBVIOUS
<1>3. e \in Session /\ e.seq = saves + 1 /\ e.edits = doc.edits /\ e.draft = doc.draft
    BY <1>1, <1>2, SnapshotOf
<1>4. ~displaced => Kept(e)
    BY <1>1, <1>3 DEF SessionInv, DraftInv, Kept
<1>5. /\ queue' \in Seq(Session) /\ queue' # <<>> /\ saves' \in 0..MaxSaves
      /\ OrderInv' /\ queue'[Len(queue')] = e
      /\ ~displaced => \A i \in DOMAIN queue' : Kept(queue'[i])
    BY <1>2, <1>3, <1>4, EntryAppended
<1>6. Matches(queue[Len(queue)])'
    BY <1>3, <1>5 DEF Matches
<1> QED
    BY <1>5, <1>6

(* The autosave timer fires and a save joins the queue.                     *)
LEMMA AutosaveStep ==
    ASSUME SessionInv, Autosave
    PROVE  SessionInv'
<1>1. load = "ready" /\ ~paused /\ exit = 0
    BY DEF SessionInv, TypeInv, StartInv, ExitInv, Autosave
<1>2. /\ queue \in Seq(Session) /\ Ordered(queue, stored.seq, saves)
      /\ ~displaced => \A i \in DOMAIN queue : Kept(queue[i])
    BY DEF SessionInv, TypeInv, OrderInv, DraftInv
<1>3. /\ queue' \in Seq(Session) /\ queue' # <<>> /\ saves' \in 0..MaxSaves
      /\ OrderInv' /\ Matches(queue[Len(queue)])'
      /\ ~displaced => \A i \in DOMAIN queue' : Kept(queue'[i])
    BY <1>1, <1>2, SaveAppended DEF Autosave, Save
<1>4. /\ timer' = FALSE
      /\ UNCHANGED <<load, restoring, doc, opening, paused, stored, dropped, exit, closed, ready,
                     gen, keys, checking, disk, displaced>>
    BY DEF Autosave, workspace
<1>5. TypeInv'
    <2>1. SavesType'
        BY <1>1, <1>3, <1>4 DEF SavesType
    <2>2. OthersType'
        BY <1>4, TypeInvParts DEF SessionInv, OthersType
    <2> QED
        BY <2>1, <2>2, TypeInvPartsNext
<1>6. StartInv' /\ ExitInv' /\ ClosedIsStored'
    BY <1>1, <1>4 DEF SessionInv, StartInv, ExitInv, ClosedIsStored
<1>7. DraftInv'
    BY <1>3, <1>4 DEF SessionInv, DraftInv
<1>8. FreshInv'
    BY <1>3 DEF FreshInv
<1> QED
    BY <1>3, <1>5, <1>6, <1>7, <1>8 DEF SessionInv

(* The page is hidden and saves at once.                                    *)
LEMMA PageHideStep ==
    ASSUME SessionInv, PageHide
    PROVE  SessionInv'
<1>1. load = "ready" /\ ~paused /\ exit = 0
    BY DEF SessionInv, TypeInv, StartInv, ExitInv, PageHide
<1>2. /\ queue \in Seq(Session) /\ Ordered(queue, stored.seq, saves)
      /\ ~displaced => \A i \in DOMAIN queue : Kept(queue[i])
    BY DEF SessionInv, TypeInv, OrderInv, DraftInv
<1>3. /\ queue' \in Seq(Session) /\ queue' # <<>> /\ saves' \in 0..MaxSaves
      /\ OrderInv' /\ Matches(queue[Len(queue)])'
      /\ ~displaced => \A i \in DOMAIN queue' : Kept(queue'[i])
    BY <1>1, <1>2, SaveAppended DEF PageHide, Save, editor
<1>4. UNCHANGED <<load, restoring, doc, timer, opening, paused, stored, dropped, exit, closed, ready,
                  gen, keys, checking, disk, displaced>>
    BY DEF PageHide, editor, workspace
<1>5. TypeInv'
    <2>1. SavesType'
        BY <1>1, <1>3, <1>4 DEF SavesType
    <2>2. OthersType'
        BY <1>4, TypeInvParts DEF SessionInv, OthersType
    <2> QED
        BY <2>1, <2>2, TypeInvPartsNext
<1>6. StartInv' /\ ExitInv' /\ ClosedIsStored'
    BY <1>1, <1>4 DEF SessionInv, StartInv, ExitInv, ClosedIsStored
<1>7. DraftInv'
    BY <1>3, <1>4 DEF SessionInv, DraftInv
<1>8. FreshInv'
    BY <1>3 DEF FreshInv
<1> QED
    BY <1>3, <1>5, <1>6, <1>7, <1>8 DEF SessionInv

(* The exit: the timer is paused and the last save joins the queue, of the  *)
(* documents as they are or as they are on disk.                            *)
LEMMA FlushStep ==
    ASSUME SessionInv, NEW discard \in BOOLEAN, Flush(discard)
    PROVE  SessionInv'
<1>1. /\ UNCHANGED <<load, restoring, doc, disk, opening, stored, dropped, ready, gen, keys, checking, displaced>>
      /\ exit = 0 /\ ~closed
    BY DEF Flush, workspace
<1>2. CASE load = "ready"
    <2>1. /\ queue \in Seq(Session) /\ Ordered(queue, stored.seq, saves)
          /\ ~displaced => \A i \in DOMAIN queue : Kept(queue[i])
          /\ doc \in Document /\ disk \in Text /\ saves \in Nat
        BY <1>2 DEF SessionInv, TypeInv, StartInv, OrderInv, DraftInv, MaybeDocument
    <2>a. PICK e : e = IF discard THEN DiscardSnapshot(saves + 1) ELSE Snapshot(saves + 1)
        OBVIOUS
    <2>b. saves < MaxSaves /\ saves' = saves + 1 /\ queue' = Append(queue, e)
        BY <1>2, <2>a DEF Flush, Save
    <2>c. saves + 1 \in 0..MaxSaves
        BY <2>1, <2>b
    <2>d. e \in Session /\ e.seq = saves + 1
        BY <2>1, <2>a, <2>c, SnapshotOf
    <2>e. ~displaced => Kept(e)
        <3>1. CASE discard
            BY <2>1, <2>a, <2>c, <3>1, SnapshotOf DEF Kept
        <3>2. CASE ~discard
            <4>1. e.draft = doc.draft
                BY <2>1, <2>a, <2>c, <3>2, SnapshotOf
            <4>2. ~displaced => doc.draft
                BY <2>1 DEF SessionInv, DraftInv
            <4> QED
                BY <4>1, <4>2 DEF Kept
        <3> QED
            BY <3>1, <3>2
    <2>2. /\ queue' \in Seq(Session) /\ queue' # <<>> /\ saves' \in 0..MaxSaves
          /\ OrderInv'
          /\ ~displaced => \A i \in DOMAIN queue' : Kept(queue'[i])
        BY <1>1, <2>1, <2>b, <2>d, <2>e, EntryAppended
    <2>3. paused' = TRUE /\ timer' = FALSE /\ exit' = saves' /\ closed' = closed
        BY <1>2 DEF Flush, Save
    <2>4. TypeInv'
        <3>1. SavesType'
            BY <2>2, <2>3 DEF SavesType
        <3>2. OthersType'
            BY <1>1, <2>3, TypeInvParts DEF SessionInv, OthersType
        <3> QED
            BY <3>1, <3>2, TypeInvPartsNext
    <2>5. StartInv' /\ ExitInv' /\ ClosedIsStored'
        BY <1>1, <1>2, <2>2, <2>3 DEF SessionInv, StartInv, ExitInv, ClosedIsStored
    <2>6. DraftInv'
        BY <1>1, <2>2 DEF SessionInv, DraftInv
    <2>7. FreshInv'
        BY <2>3 DEF FreshInv
    <2> QED
        BY <2>2, <2>4, <2>5, <2>6, <2>7 DEF SessionInv
<1>3. CASE load # "ready"
    <2>1. closed' = TRUE /\ UNCHANGED <<paused, timer, queue, saves, exit>>
        BY <1>3 DEF Flush
    <2>2. TypeInv' /\ StartInv' /\ OrderInv'
        BY <1>1, <2>1 DEF SessionInv, TypeInv, StartInv, OrderInv
    <2>3. ExitInv' /\ DraftInv' /\ FreshInv' /\ ClosedIsStored'
        BY <1>1, <1>3, <2>1 DEF SessionInv, ExitInv, DraftInv, FreshInv, ClosedIsStored
    <2> QED
        BY <2>2, <2>3 DEF SessionInv
<1> QED
    BY <1>2, <1>3

(* The exit fails, the window stays, and what changed meanwhile is saved.   *)
LEMMA ResumeStep ==
    ASSUME SessionInv, exit # 0, exit' = 0,
           NEW rest \in Seq(Session), Ordered(rest, stored.seq, saves),
           ~displaced => \A i \in DOMAIN rest : Kept(rest[i]), Resume(rest),
           UNCHANGED <<load, restoring, doc, timer, opening, stored, closed, ready, gen, keys,
                       checking, displaced, disk>>, dropped' \in BOOLEAN, ~closed
    PROVE  SessionInv'
<1>1. load = "ready"
    BY DEF SessionInv, ExitInv
<1>2. /\ queue' \in Seq(Session) /\ queue' # <<>> /\ saves' \in 0..MaxSaves
      /\ OrderInv' /\ Matches(queue[Len(queue)])'
      /\ ~displaced => \A i \in DOMAIN queue' : Kept(queue'[i])
    BY <1>1, SaveAppended DEF Resume
<1>3. paused' = FALSE
    BY DEF Resume
<1>4. TypeInv'
    <2>1. SavesType'
        BY <1>2 DEF SavesType
    <2>2. OthersType'
        BY <1>3, TypeInvParts DEF SessionInv, OthersType
    <2> QED
        BY <2>1, <2>2, TypeInvPartsNext
<1>5. StartInv' /\ ExitInv' /\ ClosedIsStored'
    BY <1>3 DEF SessionInv, StartInv, ExitInv, ClosedIsStored
<1>6. DraftInv'
    BY <1>2 DEF SessionInv, DraftInv
<1>7. FreshInv'
    BY <1>2 DEF FreshInv
<1> QED
    BY <1>2, <1>4, <1>5, <1>6, <1>7 DEF SessionInv

(* The window closes once the flush's save is no longer in the queue.       *)
LEMMA CloseStep ==
    ASSUME SessionInv, Close
    PROVE  SessionInv'
<1>1. /\ UNCHANGED <<load, restoring, doc, timer, checking, opening, stored, dropped, ready, gen, keys,
                     disk, displaced>>
      /\ exit # 0 /\ ~closed /\ \A i \in DOMAIN queue : queue[i].seq # exit
    BY DEF Close, editor, workspace
<1>2. /\ queue \in Seq(Session) /\ Ordered(queue, stored.seq, saves)
      /\ ~displaced => \A i \in DOMAIN queue : Kept(queue[i])
    BY DEF SessionInv, TypeInv, OrderInv, DraftInv
<1>3. CASE closed' = TRUE /\ UNCHANGED <<exit, faults, saves, queue, paused>>
    <2>1. queue = <<>>
        <3>1. queue # <<>> => Len(queue) \in DOMAIN queue /\ queue[Len(queue)].seq = exit
            BY <1>1, <1>2 DEF SessionInv, ExitInv, Ordered
        <3> QED
            BY <1>1, <3>1
    <2>2. stored.seq = exit
        BY <1>1, <2>1 DEF SessionInv, ExitInv
    <2>3. TypeInv' /\ StartInv' /\ OrderInv'
        BY <1>1, <1>3 DEF SessionInv, TypeInv, StartInv, OrderInv
    <2>4. ExitInv' /\ DraftInv' /\ ClosedIsStored'
        BY <1>1, <1>3, <2>2 DEF SessionInv, ExitInv, DraftInv, ClosedIsStored
    <2>5. FreshInv'
        BY <1>1, <1>3 DEF SessionInv, ExitInv, FreshInv
    <2> QED
        BY <2>3, <2>4, <2>5 DEF SessionInv
<1>4. CASE exit' = 0 /\ Resume(queue) /\ UNCHANGED closed
    BY <1>1, <1>2, <1>4, ResumeStep DEF SessionInv, TypeInv
<1> QED
    BY <1>3, <1>4 DEF Close

(* The write at the head of the queue ends, stored or failed, and the next  *)
(* one starts.                                                              *)
LEMMA WriteEndsStep ==
    ASSUME SessionInv, NEW i, WriteEnds(i)
    PROVE  SessionInv'
<1>1. i = 1 /\ queue # <<>> /\ queue \in Seq(Session) /\ ~closed
    BY UnderWayIsHead DEF WriteEnds, SessionInv, TypeInv
<1>2. PICK rest : rest = Tail(queue)
    OBVIOUS
<1>3. Without(i) = rest
    BY <1>1, <1>2, WithoutHead
<1>4. stored.seq \in Nat /\ saves \in Nat /\ Ordered(queue, stored.seq, saves)
    BY DEF SessionInv, TypeInv, OrderInv, Session
<1>5. /\ rest \in Seq(Session) /\ 1 \in DOMAIN queue /\ queue[1] \in Session
      /\ stored.seq < queue[1].seq
    BY <1>1, <1>2, <1>4, OrderedTail
<1>6. Ordered(rest, queue[1].seq, saves) /\ Ordered(rest, stored.seq, saves)
    BY <1>1, <1>2, <1>4, OrderedTail
<1>7. \A j \in DOMAIN rest : j + 1 \in DOMAIN queue /\ rest[j] = queue[j + 1]
    BY <1>1, <1>2, <1>4, OrderedTail
<1>8. /\ rest # <<>> => rest[Len(rest)] = queue[Len(queue)]
      /\ rest = <<>> => queue[Len(queue)] = queue[1]
    BY <1>1, <1>2, <1>4, OrderedTail
<1>9. queue[Len(queue)].seq = saves
    BY <1>1, <1>4 DEF Ordered
<1>10. ~displaced => Kept(queue[1]) /\ \A j \in DOMAIN rest : Kept(rest[j])
    BY <1>5, <1>7 DEF SessionInv, DraftInv
<1>11. UNCHANGED <<load, restoring, doc, opening, timer, closed, ready, gen, keys, checking, disk,
                   displaced>>
    BY DEF WriteEnds, editor, workspace
<1>12. CASE /\ stored' = queue[1] /\ dropped' = FALSE /\ queue' = rest
            /\ UNCHANGED <<saves, paused, exit>>
    <2>1. TypeInv'
        <3>1. SavesType'
            BY <1>5, <1>12, TypeInvParts DEF SessionInv, SavesType
        <3>2. OthersType'
            BY <1>5, <1>11, <1>12, TypeInvParts DEF SessionInv, OthersType
        <3> QED
            BY <3>1, <3>2, TypeInvPartsNext
    <2>2. StartInv'
        BY <1>11, <1>12 DEF SessionInv, StartInv
    <2>3. OrderInv'
        BY <1>6, <1>12 DEF OrderInv
    <2>4. ExitInv' /\ ClosedIsStored'
        BY <1>1, <1>8, <1>9, <1>11, <1>12 DEF SessionInv, ExitInv, ClosedIsStored
    <2>5. DraftInv'
        BY <1>10, <1>11, <1>12 DEF SessionInv, DraftInv
    <2>6. FreshInv'
        BY <1>1, <1>8, <1>11, <1>12 DEF SessionInv, FreshInv, Matches
    <2> QED
        BY <2>1, <2>2, <2>3, <2>4, <2>5, <2>6 DEF SessionInv
<1>13. CASE /\ dropped' = TRUE /\ queue' = rest /\ exit # queue[1].seq
            /\ UNCHANGED <<saves, paused, exit, stored>>
    <2>1. TypeInv'
        <3>1. SavesType'
            BY <1>5, <1>13, TypeInvParts DEF SessionInv, SavesType
        <3>2. OthersType'
            BY <1>11, <1>13, TypeInvParts DEF SessionInv, OthersType
        <3> QED
            BY <3>1, <3>2, TypeInvPartsNext
    <2>2. StartInv'
        BY <1>11, <1>13 DEF SessionInv, StartInv
    <2>3. OrderInv'
        BY <1>6, <1>13 DEF OrderInv
    <2>4. ExitInv' /\ ClosedIsStored'
        BY <1>1, <1>8, <1>9, <1>11, <1>13 DEF SessionInv, ExitInv, ClosedIsStored
    <2>5. DraftInv'
        BY <1>10, <1>11, <1>13 DEF SessionInv, DraftInv
    <2>6. FreshInv'
        BY <1>1, <1>8, <1>11, <1>13 DEF SessionInv, FreshInv, Matches
    <2> QED
        BY <2>1, <2>2, <2>3, <2>4, <2>5, <2>6 DEF SessionInv
<1>14. CASE dropped' = TRUE /\ exit = queue[1].seq /\ exit' = 0 /\ Resume(rest) /\ UNCHANGED stored
    <2>1. exit # 0
        BY <1>4, <1>5, <1>14
    <2> QED
        BY <1>1, <1>5, <1>6, <1>10, <1>11, <1>14, <2>1, ResumeStep
<1> QED
    BY <1>1, <1>3, <1>12, <1>13, <1>14 DEF WriteEnds
-----------------------------------------------------------------------------
(* A page just loaded, with what the run before it stored.                  *)
LEMMA InitSessionInv ==
    ASSUME Init
    PROVE  SessionInv
<1>1. TypeInv
    <2>1. stored \in Session /\ queue \in Seq(Session)
        BY DEF Init, Session
    <2>2. gen \in 0..MaxGen /\ saves \in 0..MaxSaves /\ exit \in 0..saves
        BY DEF Init
    <2>3. SavesType
        BY <2>1, <2>2 DEF SavesType
    <2>4. 0 \in 0..MaxEdits
        BY SessionAssumption
    <2>5. disk \in Text
        BY <2>4 DEF Init, Text
    <2>6. OthersType
        BY <2>1, <2>2, <2>5 DEF Init, OthersType, MaybeDocument
    <2> QED
        BY <2>3, <2>6, TypeInvParts
<1>2. StartInv
    BY DEF Init, StartInv
<1>3. OrderInv
    BY DEF Init, OrderInv, Ordered
<1>4. ExitInv /\ DraftInv /\ FreshInv /\ ClosedIsStored
    BY DEF Init, ExitInv, DraftInv, FreshInv, ClosedIsStored, Kept
<1> QED
    BY <1>1, <1>2, <1>3, <1>4 DEF SessionInv

(* Every step of the session keeps the inductive invariant.                 *)
LEMMA SessionInvStep ==
    ASSUME SessionInv, [Next]_vars
    PROVE  SessionInv'
<1>1. CASE Next
    BY <1>1, WriteEndsStep, EditStep, AutosaveStep, PageHideStep, FlushStep, CloseStep, SaveDocumentStep,
       RestoreBeginStep, LoadFailsStep, RestoreEndsStep, OpenBeginStep, OpenEndsStep,
       WorkspaceLostStep, WorkspaceBackStep, RevalidateBeginStep, RevalidateEndsStep DEF Next
<1>2. CASE UNCHANGED vars
    <2>1. OrderInv' /\ ExitInv' /\ FreshInv' /\ ClosedIsStored'
        BY <1>2, WriterStays DEF vars
    <2>2. TypeInv' /\ StartInv' /\ DraftInv'
        BY <1>2 DEF vars, SessionInv, TypeInv, StartInv, DraftInv
    <2> QED
        BY <2>1, <2>2 DEF SessionInv
<1> QED
    BY <1>1, <1>2

(* The inductive invariant of the editor session.                           *)
THEOREM SessionInvariant == Spec => []SessionInv
<1>1. Init => SessionInv
    BY InitSessionInv
<1>2. SessionInv /\ [Next]_vars => SessionInv'
    BY SessionInvStep
<1> QED
    BY <1>1, <1>2, PTL DEF Spec

(* "Preserve the previous session if startup has not restored it yet": no   *)
(* save removes the previous session's draft from the store but the exit    *)
(* snapshot of a user who chose Don't Save, and the saves after a file read *)
(* before the restore ended took the draft's place in the editor.           *)
THEOREM SessionIsConsistent == Spec => []SessionConsistent
<1>1. ASSUME SessionInv PROVE SessionConsistent
    <2>1. StoreKeepsDraft
        BY <1>1 DEF SessionInv, DraftInv, StoreKeepsDraft, Kept
    <2>2. opening # None => opening.existing \in Document \union {None}
        BY <1>1 DEF SessionInv, TypeInv, MaybeDocument
    <2>3. TypeInv /\ StartInv
        BY <1>1 DEF SessionInv
    <2>4. checking => doc # None /\ gen \in keys
        BY <2>3 DEF StartInv
    <2>5. restoring => load = "pending"
        BY <2>3 DEF StartInv
    <2>6. SessionTypeOK
        BY <2>2, <2>3, <2>4, <2>5 DEF TypeInv, MaybeDocument, SessionTypeOK, Text
    <2> QED
        BY <2>1, <2>6 DEF SessionConsistent
<1> QED
    BY <1>1, SessionInvariant, PTL

(* "The final editor recovery transaction is awaited before destroying the  *)
(* window": a window that closed left its exit snapshot in the store.       *)
THEOREM ClosedWindowIsStored == Spec => []ClosedIsStored
<1>1. SessionInv => ClosedIsStored
    BY DEF SessionInv
<1> QED
    BY <1>1, SessionInvariant, PTL

(* When the writer is quiet the store holds the documents as they are.      *)
THEOREM QuietSessionIsStored == Spec => []QuietIsStored
<1>1. SessionInv => QuietIsStored
    BY DEF SessionInv, FreshInv, Matches, QuietIsStored
<1> QED
    BY <1>1, SessionInvariant, PTL

(* "An older, slower autosave must not overwrite the final exit snapshot":  *)
(* the store only ever moves to a later save.                               *)
THEOREM StoreMovesForward == Spec => StoreNeverGoesBack
<1>1. ASSUME SessionInv, [Next]_vars
      PROVE  [stored'.seq >= stored.seq]_stored
    <2>1. stored.seq \in Nat
        BY <1>1 DEF SessionInv, TypeInv, Session
    <2>2. ASSUME NEW i, WriteEnds(i), stored' # stored PROVE stored'.seq >= stored.seq
        <3>1. i = 1 /\ queue # <<>> /\ queue \in Seq(Session) /\ stored' = queue[1]
            BY <1>1, <2>2, UnderWayIsHead DEF WriteEnds, SessionInv, TypeInv
        <3>2. 1 \in DOMAIN queue
            BY <3>1
        <3>3. queue[1].seq \in Nat /\ stored.seq < queue[1].seq
            BY <1>1, <3>1, <3>2, SavesAreNumbered DEF SessionInv, OrderInv, Ordered
        <3> QED
            BY <2>1, <3>1, <3>3
    <2>3. CASE stored' = stored
        BY <2>3
    <2>4. CASE stored' # stored
        <3>1. \E i \in DOMAIN queue : WriteEnds(i)
            BY <1>1, <2>4 DEF Next, vars, writer, Edit, SaveDocument, Autosave, PageHide, Flush, Close, RestoreBegin,
               LoadFails, RestoreEnds, OpenBegin, OpenEnds, WorkspaceLost, WorkspaceBack,
               RevalidateBegin, RevalidateEnds
        <3> QED
            BY <2>2, <2>4, <3>1
    <2> QED
        BY <2>3, <2>4
<1> QED
    BY <1>1, SessionInvariant, PTL DEF Spec, StoreNeverGoesBack
=============================================================================
