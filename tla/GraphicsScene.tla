--------------------------- MODULE GraphicsScene ---------------------------
(* The retained graphics hierarchy of one session, GraphicsSession of       *)
(* openmat-graphics-model (session.rs): a tree of objects in an arena of    *)
(* reusable slots, the current Figure, Axes and layout that requests        *)
(* without a handle act on, and the delta every transaction leaves for the  *)
(* mirrors.  A request runs on a private clone and is committed whole or    *)
(* not at all, so each operator below takes a staged scene and returns the  *)
(* next one; `ok` turns FALSE where the code returns an error, and such a   *)
(* clone is never committed.                                                *)
(*                                                                          *)
(* The data of an object is abstracted to what the tree depends on (hold,   *)
(* place, colorbar, title, Figure number, tiles) and to one `look` that     *)
(* stands for every other property.  A chart group has one primitive.       *)
EXTENDS Naturals, Sequences, FiniteSets, SequencesExt

CONSTANTS
    MaxObjects,     \* MAX_OBJECTS
    MaxGeneration,  \* u32::MAX, after which a slot is retired
    MaxId,          \* JSON_SAFE_INTEGER_MAX for next_public_id
    MaxRevision,    \* JSON_SAFE_INTEGER_MAX for revisions
    MaxNumber,      \* bound: the Figure numbers a user asks for
    MaxFigures,     \* bound: the Figures open at a time
    MaxTiles,       \* bound: the tiles of a layout, in one row
    Places, Whole,  \* positions of Axes in a Figure, and the default one
    None

ASSUME SceneAssumption ==
    /\ MaxObjects \in Nat /\ MaxGeneration \in Nat \ {0}
    /\ MaxId \in Nat /\ MaxRevision \in Nat
    /\ MaxNumber \in Nat /\ MaxFigures \in Nat /\ MaxTiles \in Nat
    /\ Whole \in Places

VARIABLES
    scene,    \* GraphicsSession
    owner,    \* history: the object each handle was issued for
    channel,  \* the graphics client's channel: "attached" or "fault"
    mirror    \* the client's snapshot of each Figure, None if it has none

vars == <<scene, owner, channel, mirror>>

Ids == 1..MaxId

-----------------------------------------------------------------------------
(* Handles and the arena.                                                   *)

(* GraphicsSession::node: slot, generation and class must all be right.     *)
Valid(s, h) ==
    /\ h # None
    /\ h.slot \in DOMAIN s.slots
    /\ LET slot == s.slots[h.slot]
       IN slot.gen = h.gen /\ slot.node # None /\ slot.node.class = h.class

Node(s, h) == s.slots[h.slot].node
Kids(s, h) == Node(s, h).kids

(* live_handles                                                             *)
HandleAt(s, i) == [slot |-> i, gen |-> s.slots[i].gen, class |-> s.slots[i].node.class]
Live(s) == {HandleAt(s, i) : i \in {j \in DOMAIN s.slots : s.slots[j].node # None}}

OfClass(s, classes) == {h \in Live(s) : h.class \in classes}
AxesClasses == {"axes", "polar"}

DefaultProps(class) ==
    CASE class \in AxesClasses -> [hold |-> FALSE, at |-> Whole, colorbar |-> FALSE,
                                   title |-> None, look |-> 0]
      [] OTHER -> [look |-> 0]

(* allocate_node: the slot freed last is reused first.                      *)
Allocate(s, parent, class, props) ==
    LET reuse == s.free # <<>>
        i     == IF reuse THEN Last(s.free) ELSE Len(s.slots) + 1
        g     == IF reuse THEN s.slots[i].gen ELSE 1
        h     == [slot |-> i, gen |-> g, class |-> class]
        slot  == [gen |-> g, retired |-> FALSE,
                  node |-> [class |-> class, id |-> s.next, rev |-> 0,
                            parent |-> parent, kids |-> <<>>, props |-> props]]
        placed == [s EXCEPT
                     !.ok    = @ /\ s.next <= MaxId /\ Cardinality(Live(s)) < MaxObjects,
                     !.free  = IF reuse THEN Front(@) ELSE @,
                     !.slots = IF reuse THEN [@ EXCEPT ![i] = slot] ELSE Append(@, slot),
                     !.next  = @ + 1]
    IN [s |-> IF parent = None THEN placed
              ELSE [placed EXCEPT !.slots[parent.slot].node.kids = Append(@, h)],
        handle |-> h]

(* Children before parents, and parents before children.                    *)
PostOrder(s, root) ==
    LET below[i \in DOMAIN s.slots] ==
          LET kids == s.slots[i].node.kids
          IN FlattenSeq([k \in DOMAIN kids |-> Append(below[kids[k].slot], kids[k])])
    IN Append(below[root.slot], root)

PreOrder(s, root) ==
    LET below[i \in DOMAIN s.slots] ==
          LET kids == s.slots[i].node.kids
          IN FlattenSeq([k \in DOMAIN kids |-> <<kids[k]>> \o below[kids[k].slot]])
    IN <<root>> \o below[root.slot]

(* A freed slot waits under the next generation; without one it is retired. *)
ClearedSameGeneration(h) == [gen |-> h.gen, retired |-> h.gen = MaxGeneration, node |-> None]

Cleared(h) ==
    LET last == h.gen = MaxGeneration
    IN [gen |-> IF last THEN h.gen ELSE h.gen + 1, retired |-> last, node |-> None]

(* delete_subtree over whole subtrees, given children first: every object   *)
(* is unlinked, its slot freed, and it is current no longer.                *)
DeleteNodes(s, order) ==
    LET gone      == ToSet(order)
        reusable  == SelectSeq(order, LAMBDA h : ~Cleared(h).retired)
        forget(h) == IF h \in gone THEN None ELSE h
        unlink(slot) ==
          IF slot.node = None THEN slot
          ELSE [slot EXCEPT !.node.kids = SelectSeq(@, LAMBDA k : k \notin gone)]
    IN [s EXCEPT
          !.slots  = [i \in DOMAIN @ |->
                        IF \E h \in gone : h.slot = i
                        THEN Cleared(CHOOSE h \in gone : h.slot = i) ELSE unlink(@[i])],
          !.free   = @ \o [i \in DOMAIN reusable |-> reusable[i].slot],
          !.figure = forget(@), !.axes = forget(@), !.layout = forget(@)]

(* The subtrees of several objects of the tree, one after the other.        *)
DeleteSubtrees(s, roots) ==
    DeleteNodes(s, FlattenSeq([i \in DOMAIN roots |-> PostOrder(s, roots[i])]))
DeleteSubtree(s, h) == DeleteNodes(s, PostOrder(s, h))
DeleteChildren(s, h) == DeleteSubtrees(s, Kids(s, h))

(* layout_for_figure                                                        *)
LayoutsOf(s, f) == {h \in OfClass(s, {"layout"}) : Node(s, h).props.figure = f}
LayoutFor(s, f) == IF LayoutsOf(s, f) = {} THEN None ELSE CHOOSE h \in LayoutsOf(s, f) : TRUE
DeleteLayouts(s, f) == DeleteNodes(s, SetToSeq(LayoutsOf(s, f)))

-----------------------------------------------------------------------------
(* Figures and Axes, current or new.                                        *)

Figures(s) == OfClass(s, {"figure"})
Number(s, f) == Node(s, f).props.number

(* smallest_available_figure_number                                         *)
SmallestNumber(s) ==
    CHOOSE n \in 1..(MaxObjects + 1) :
        /\ \A f \in Figures(s) : Number(s, f) # n
        /\ \A m \in 1..(n - 1) : \E f \in Figures(s) : Number(s, f) = m

FirstAxes(s, f) == IF Kids(s, f) = <<>> THEN None ELSE Head(Kids(s, f))

CreateFigure(s, number) ==
    LET a == Allocate(s, None, "figure", [number |-> number, look |-> 0])
    IN [s |-> [a.s EXCEPT !.ok = @ /\ Cardinality(Figures(s)) < MaxFigures,
                          !.figure = a.handle, !.axes = None, !.layout = None],
        figure |-> a.handle, created |-> TRUE]

(* ensure_current_figure                                                    *)
EnsureFigure(s) ==
    IF Valid(s, s.figure)
    THEN [s |-> s, figure |-> s.figure, created |-> FALSE]
    ELSE CreateFigure(s, SmallestNumber(s))

(* The Figure a request names, or the current one.                          *)
FigureFor(s, f) ==
    IF f = None THEN EnsureFigure(s) ELSE [s |-> s, figure |-> f, created |-> FALSE]

CreateAxes(s, f, class) ==
    LET a == Allocate(s, f, class, DefaultProps(class))
    IN [s |-> [a.s EXCEPT !.figure = f, !.axes = a.handle],
        figure |-> f, axes |-> a.handle, created |-> TRUE]

(* ensure_current_axes                                                      *)
EnsureCurrentAxes(s) ==
    IF Valid(s, s.axes)
    THEN [s |-> s, figure |-> Node(s, s.axes).parent, axes |-> s.axes, created |-> FALSE]
    ELSE LET e     == EnsureFigure(s)
             first == FirstAxes(e.s, e.figure)
         IN IF first # None
            THEN [s |-> [e.s EXCEPT !.axes = first], figure |-> e.figure, axes |-> first,
                  created |-> e.created]
            ELSE CreateAxes(e.s, e.figure, "axes")

(* ensure_any_axes: naming Axes makes them, and their Figure, current.      *)
EnsureAnyAxes(s, a) ==
    IF a = None THEN EnsureCurrentAxes(s)
    ELSE LET f == Node(s, a).parent
         IN [s |-> [s EXCEPT !.figure = f, !.axes = a],
             figure |-> f, axes |-> a, created |-> FALSE]

(* ensure_axes_for_coordinate_system: the current Axes make way for ones of *)
(* the coordinate system asked for.                                         *)
EnsureAxes(s, a, class) ==
    IF a # None
    THEN [s |-> [s EXCEPT !.ok = @ /\ a.class = class],
          figure |-> Node(s, a).parent, axes |-> a, created |-> FALSE]
    ELSE LET e         == EnsureFigure(s)
             candidate == IF Valid(e.s, e.s.axes) THEN e.s.axes ELSE FirstAxes(e.s, e.figure)
         IN IF candidate # None /\ candidate.class = class
            THEN [s |-> [e.s EXCEPT !.axes = candidate], figure |-> e.figure,
                  axes |-> candidate, created |-> e.created]
            ELSE CreateAxes(IF candidate = None THEN e.s ELSE DeleteSubtree(e.s, candidate),
                            e.figure, class)

(* set_hold and clear_axes take the Axes named, or the current ones, and    *)
(* leave what is current alone.                                             *)
HeldAxes(s, a) ==
    IF a = None THEN EnsureCurrentAxes(s)
    ELSE [s |-> s, figure |-> Node(s, a).parent, axes |-> a, created |-> FALSE]

(* advance_current_after_figure_deletion                                    *)
AdvanceCurrent(s) ==
    LET next == IF Figures(s) = {} THEN None
                ELSE CHOOSE f \in Figures(s) : \A g \in Figures(s) : Number(s, f) <= Number(s, g)
    IN [s EXCEPT !.figure = next,
                 !.axes   = IF next = None THEN None ELSE FirstAxes(s, next),
                 !.layout = IF next = None THEN None ELSE LayoutFor(s, next)]

-----------------------------------------------------------------------------
(* The requests: the staged scene, and the Figure whose change is           *)
(* finalized, None when the request reports no change.                      *)

Applied(s, f) == [s |-> s, change |-> f]
When(condition, f) == IF condition THEN f ELSE None

(* select_or_create_figure                                                  *)
SelectFigureOnly(s, number) ==
    LET named == {f \in Figures(s) : Number(s, f) = number}
    IN IF named # {} THEN Applied([s EXCEPT !.figure = CHOOSE f \in named : TRUE], None)
       ELSE LET c == CreateFigure(s, IF number = 0 THEN SmallestNumber(s) ELSE number)
            IN Applied(c.s, c.figure)

SelectOrCreateFigure(s, number) ==
    LET named == {f \in Figures(s) : Number(s, f) = number}
    IN IF named # {}
       THEN LET f == CHOOSE f \in named : TRUE
            IN Applied([s EXCEPT !.figure = f, !.axes = FirstAxes(s, f),
                                 !.layout = LayoutFor(s, f)], None)
       ELSE LET c == CreateFigure(s, IF number = 0 THEN SmallestNumber(s) ELSE number)
            IN Applied(c.s, c.figure)

(* current_or_create_figure                                                 *)
CurrentFigure(s) ==
    LET e == EnsureFigure(s) IN Applied(e.s, When(e.created, e.figure))

SelectAxes(s, a) ==
    Applied([s EXCEPT !.figure = Node(s, a).parent, !.axes = a], None)

NewAxes(e, class) == Applied(CreateAxes(e.s, e.figure, class).s, e.figure)

(* current_or_create_axes                                                   *)
CurrentAxes(s) ==
    LET e == EnsureCurrentAxes(s) IN Applied(e.s, When(e.created, e.figure))

(* axes_positions_overlap, for whole Figures and disjoint cells.            *)
Overlap(p, q) == p = q \/ Whole \in {p, q}

(* subplot: a layout goes, Axes at the same place are selected, Axes in the *)
(* way are deleted.                                                         *)
Subplot(e, place) ==
    LET bare  == IF LayoutFor(e.s, e.figure) = None THEN e.s
                 ELSE DeleteChildren(DeleteLayouts(e.s, e.figure), e.figure)
        plain == SelectSeq(Kids(bare, e.figure), LAMBDA a : a.class = "axes")
        at(a) == Node(bare, a).props.at
        same  == SelectSeq(plain, LAMBDA a : at(a) = place)
        inWay == SelectSeq(plain, LAMBDA a : Overlap(at(a), place))
        c     == CreateAxes(DeleteSubtrees(bare, inWay), e.figure, "axes")
    IN IF same # <<>>
       THEN Applied([bare EXCEPT !.figure = e.figure, !.axes = Head(same)], None)
       ELSE Applied([c.s EXCEPT !.slots[c.axes.slot].node.props.at = place], e.figure)

(* replace_with_tiled_layout                                                *)
ReplaceWithLayout(e, tiles) ==
    LET a == Allocate(DeleteChildren(DeleteLayouts(e.s, e.figure), e.figure), None, "layout",
                      [figure |-> e.figure, tiles |-> [t \in 1..tiles |-> None]])
    IN [s |-> [a.s EXCEPT !.figure = e.figure, !.axes = None, !.layout = a.handle],
        figure |-> e.figure, layout |-> a.handle]

CreateTiledLayout(e, tiles) ==
    LET r == ReplaceWithLayout(e, tiles) IN Applied(r.s, r.figure)

(* resolve_tile_selection: the tiles a selection stands for, {} if none is  *)
(* left; `first` 0 asks for the first run of `span` free tiles.             *)
ResolveTiles(tiles, first, span) ==
    LET run(t) == t..(t + span - 1)
        free   == {t \in DOMAIN tiles : run(t) \subseteq DOMAIN tiles
                                          /\ \A u \in run(t) : tiles[u] = None}
    IN IF first # 0 THEN {first} \intersect DOMAIN tiles
       ELSE IF free = {} THEN {}
       ELSE run(CHOOSE t \in free : \A u \in free : t <= u)

(* next_tile, in the layout named, the current one or a new one: dead Axes  *)
(* free their tiles; an occupied tile is selected.                          *)
TileLayout(s, l) ==
    LET known == IF l # None THEN l ELSE IF Valid(s, s.layout) THEN s.layout ELSE None
    IN IF known # None
       THEN [s |-> s, figure |-> Node(s, known).props.figure, layout |-> known]
       ELSE ReplaceWithLayout(EnsureFigure(s), 1)

NextTile(r, first, span) ==
    LET kept  == Node(r.s, r.layout).props.tiles
        tiles == [t \in DOMAIN kept |-> IF Valid(r.s, kept[t]) THEN kept[t] ELSE None]
        block == ResolveTiles(tiles, first, span)
        taken == {t \in block : tiles[t] # None}
        c     == CreateAxes(r.s, r.figure, "axes")
    IN IF block = {} THEN Applied([r.s EXCEPT !.ok = FALSE], None)
       ELSE IF taken # {}
       THEN Applied([r.s EXCEPT !.figure = r.figure, !.layout = r.layout,
                       !.axes = tiles[CHOOSE t \in taken : \A u \in taken : t <= u]], None)
       ELSE Applied([c.s EXCEPT !.layout = r.layout,
                       !.slots[r.layout.slot].node.props.tiles =
                          [t \in DOMAIN tiles |-> IF t \in block THEN c.axes ELSE tiles[t]]],
                    r.figure)

(* Unless the Axes are held (NextPlot::Replace), a plot removes what they   *)
(* have; their colorbar goes too, but stays announced as visible.           *)
Replaced(e) ==
    IF Node(e.s, e.axes).props.hold THEN e.s
    ELSE [DeleteChildren(e.s, e.axes) EXCEPT !.slots[e.axes.slot].node.props.title = None]

(* plot and polarplot; scatter, surface and patch differ in the data.       *)
Plot(e) ==
    Applied(Allocate(Replaced(e), e.axes, "line", DefaultProps("line")).s, e.figure)

(* chart_group: bar, stem, area and others, with their primitives.          *)
ChartGroup(e) ==
    LET group == Allocate(Replaced(e), e.axes, "chart", DefaultProps("chart"))
    IN Applied(Allocate(group.s, group.handle, "line", DefaultProps("line")).s, e.figure)

(* The requests that set a property of the Axes `e` has ensured.  Some      *)
(* always report a change, others only a real one.                          *)
SetAxesUnreported(e, look, always) ==
    Applied([e.s EXCEPT !.slots[e.axes.slot].node.props.look = look],
            When(always \/ e.created, e.figure))

SetAxes(e, look, always) ==
    LET changed == Node(e.s, e.axes).props.look # look
    IN Applied([e.s EXCEPT !.slots[e.axes.slot].node.props.look = look],
               When(always \/ e.created \/ changed, e.figure))

(* get_limits, get_axes_property, get_colormap                              *)
GetAxes(e) == Applied(e.s, When(e.created, e.figure))

SetHold(e, hold) ==
    Applied([e.s EXCEPT !.slots[e.axes.slot].node.props.hold = hold], e.figure)

(* figure_for_handle                                                        *)
FigureOf(s, h) ==
    CASE h.class = "figure" -> h
      [] h.class \in AxesClasses -> Node(s, h).parent
      [] OTHER -> Node(s, Node(s, h).parent).parent

(* set_properties of one object.  A chart group hands the update down to    *)
(* its primitives; a primitive itself has no Axes for its parent and is     *)
(* refused.                                                                 *)
SetProperties(s, h, look) ==
    LET f       == FigureOf(s, h)
        targets == <<h>> \o Kids(s, h)
        set(t, k) == [t EXCEPT !.slots[k.slot].node.props.look = look]
        changed == \E k \in ToSet(targets) : Node(s, k).props.look # look
    IN Applied([FoldLeft(set, s, IF h.class = "chart" THEN targets ELSE <<h>>) EXCEPT
                  !.ok = @ /\ f.class = "figure"],
               When(IF h.class = "chart" THEN changed ELSE Node(s, h).props.look # look, f))

(* set_text, for the title.                                                 *)
SetTitle(e, look) ==
    LET title == Node(e.s, e.axes).props.title
        t == Allocate(e.s, e.axes, "text", [look |-> look])
    IN IF Valid(e.s, title)
       THEN Applied([e.s EXCEPT !.slots[title.slot].node.props.look = look], e.figure)
       ELSE Applied([t.s EXCEPT !.slots[e.axes.slot].node.props.title = t.handle], e.figure)

(* colorbar                                                                 *)
Colorbar(e, visible) ==
    LET old  == SelectSeq(Kids(e.s, e.axes), LAMBDA k : k.class = "colorbar")
        set  == [DeleteSubtrees(e.s, old) EXCEPT
                   !.slots[e.axes.slot].node.props.colorbar = visible]
    IN Applied(IF visible THEN Allocate(set, e.axes, "colorbar", DefaultProps("colorbar")).s ELSE set,
               When(e.created \/ visible \/ old # <<>>, e.figure))

(* clear_axes keeps only `hold`.                                            *)
ClearAxes(e) ==
    Applied([DeleteChildren(e.s, e.axes) EXCEPT
               !.slots[e.axes.slot].node.props =
                  [DefaultProps(e.axes.class) EXCEPT !.hold = Node(e.s, e.axes).props.hold]],
            e.figure)

ClearFigure(e) ==
    Applied([DeleteChildren(DeleteLayouts(e.s, e.figure), e.figure) EXCEPT
               !.figure = e.figure, !.axes = None], e.figure)

(* close_figure and the closed branch of finalize_change                    *)
CloseFigure(s, f) ==
    LET id   == Node(s, f).id
        gone == DeleteSubtree(DeleteLayouts(s, f), f)
        next == IF s.figure = f THEN AdvanceCurrent(gone) ELSE gone
    IN [next EXCEPT !.ok = @ /\ s.rev[id] < MaxRevision, !.rev[id] = 0]

(* axes_for_figure, for the renderer's set_axes_limits and set_axes_camera. *)
RendererAxes(s, f, a) ==
    IF a # None THEN a
    ELSE IF Valid(s, s.axes) /\ Node(s, s.axes).parent = f THEN s.axes
    ELSE FirstAxes(s, f)

-----------------------------------------------------------------------------
(* Snapshots, and what a transaction adds to the revisions.                 *)

(* hir_object                                                               *)
Hir(s, h) ==
    LET node == Node(s, h)
    IN [id |-> node.id, gen |-> h.gen, rev |-> node.rev, class |-> h.class,
        parent |-> IF node.parent = None THEN 0 ELSE Node(s, node.parent).id,
        kids |-> [i \in DOMAIN node.kids |-> Node(s, node.kids[i]).id],
        props |-> node.props]

(* snapshot_subtree: parents first.                                         *)
Objects(s, f) ==
    LET order == PreOrder(s, f) IN [i \in DOMAIN order |-> Hir(s, order[i])]

(* update_object_revisions and the rest of finalize_change, without the     *)
(* delta.                                                                   *)
Finalize(before, s, f) ==
    LET previous == IF Valid(before, f) THEN ToSet(Objects(before, f)) ELSE {}
        subtree  == {h.slot : h \in ToSet(PreOrder(s, f))}
        revised(o) ==
          IF o \in previous THEN o.rev
          ELSE IF \E p \in previous : p.id = o.id THEN o.rev + 1 ELSE 1
        id   == Node(s, f).id
        base == before.rev[id]
    IN [s EXCEPT
          !.slots = [i \in DOMAIN @ |->
                       IF i \in subtree
                       THEN [@[i] EXCEPT !.node.rev = revised(Hir(s, HandleAt(s, i)))]
                       ELSE @[i]],
          !.ok = @ /\ base < MaxRevision, !.rev[id] = base + 1]

(* The operations of the delta: deletions in the order of the old snapshot, *)
(* then the objects that are new or changed.                                *)
DeltaOf(before, s, f) ==
    LET previous == Objects(before, f)
        known    == ToSet(previous)
        current  == Objects(s, f)
        ids      == {o.id : o \in ToSet(current)}
    IN [base |-> before.rev[Node(s, f).id], rev |-> s.rev[Node(s, f).id],
        deletes |-> SelectSeq(previous, LAMBDA o : o.id \notin ids),
        upserts |-> SelectSeq(current, LAMBDA o : o \notin known)]

Snapshot(s, f) ==
    LET objects == ToSet(Objects(s, f))
    IN [rev |-> s.rev[Node(s, f).id],
        objects |-> [i \in {o.id : o \in objects} |-> CHOOSE o \in objects : o.id = i]]

-----------------------------------------------------------------------------
(* The client's mirror (applyFigureDelta).                                  *)

Rejected == None

(* deleteObject removes an object with everything below it, and fails for   *)
(* an object the mirror does not have.                                      *)
RemoveObject(objects, o) ==
    IF objects = Rejected \/ o.id \notin DOMAIN objects \/ objects[o.id].gen # o.gen
    THEN Rejected
    ELSE LET below[i \in DOMAIN objects] ==
               {i} \union UNION {below[k] : k \in ToSet(objects[i].kids)}
         IN [i \in DOMAIN objects \ below[o.id] |-> objects[i]]

UpsertObject(objects, o) ==
    IF objects = Rejected THEN Rejected
    ELSE [i \in DOMAIN objects \union {o.id} |-> IF i = o.id THEN o ELSE objects[i]]

(* validateScene                                                            *)
ValidScene(objects) ==
    \A i \in DOMAIN objects :
        /\ \A k \in ToSet(objects[i].kids) : k \in DOMAIN objects /\ objects[k].parent = i
        /\ objects[i].parent # 0 =>
             /\ objects[i].parent \in DOMAIN objects
             /\ i \in ToSet(objects[objects[i].parent].kids)

ApplyDelta(m, d) ==
    LET objects == FoldLeft(UpsertObject, FoldLeft(RemoveObject, m.objects, d.deletes), d.upserts)
    IN IF objects = Rejected THEN Rejected
       ELSE IF ValidScene(objects) THEN [rev |-> d.rev, objects |-> objects] ELSE Rejected

(* What the channel brings to the client after a transaction: a discovery,  *)
(* upon which it fetches a snapshot, figureClosed, or a delta, which it     *)
(* applies, replaces by a snapshot when it continues another revision, or   *)
(* cannot apply; then it closes the channel (#protocolFault).               *)
Received(before, after, f) ==
    LET id == IF Valid(after, f) THEN Node(after, f).id ELSE Node(before, f).id
        d  == DeltaOf(before, after, f)
    IN IF ~Valid(after, f) THEN [mirror EXCEPT ![id] = None]
       ELSE IF before.rev[id] = 0 \/ mirror[id] = None \/ mirror[id].rev # d.base
       THEN [mirror EXCEPT ![id] = Snapshot(after, f)]
       ELSE [mirror EXCEPT ![id] = ApplyDelta(@, d)]

Deliver(before, after, f) ==
    IF channel = "fault" \/ f = None THEN UNCHANGED <<channel, mirror>>
    ELSE \E m \in {Received(before, after, f)} :
           LET fault == Valid(after, f) /\ m[Node(after, f).id] = Rejected
           IN /\ channel' = IF fault THEN "fault" ELSE "attached"
              /\ mirror' = IF fault THEN mirror ELSE m

(* The client connects again: initialize, and a snapshot of every Figure.   *)
Reconnect ==
    /\ channel = "fault" /\ channel' = "attached"
    /\ mirror' = [i \in Ids |->
         IF \E f \in Figures(scene) : Node(scene, f).id = i
         THEN Snapshot(scene, CHOOSE f \in Figures(scene) : Node(scene, f).id = i)
         ELSE mirror[i]]
    /\ UNCHANGED <<scene, owner>>

-----------------------------------------------------------------------------
(* execute                                                                  *)

Issued(after) ==
    [h \in DOMAIN owner \union Live(after) |->
        IF h \in DOMAIN owner THEN owner[h] ELSE Node(after, h).id]

(* One of the results a request may have is committed, if it is no error.   *)
Execute(results) ==
    \E r \in results :
        /\ r.s.ok
        /\ \E after \in {IF r.change = None THEN r.s ELSE Finalize(scene, r.s, r.change)} :
             /\ after.ok
             /\ scene' = after
             /\ owner' = Issued(after)
             /\ Deliver(scene, after, r.change)

(* The handles a program still holds that name an object of these classes;  *)
(* any other is refused by every request.                                   *)
Named(classes) == {h \in DOMAIN owner : h.class \in classes /\ Valid(scene, h)}
Optional(classes) == Named(classes) \union {None}

(* Bound: requests set one value, which differs from the default.           *)
Looks == {1}

(* The Figure or Axes a request acts on, named or current, of any           *)
(* coordinate system or of one.                                             *)
TargetFigures == {FigureFor(scene, f) : f \in Optional({"figure"})}
TargetLayouts == {TileLayout(scene, l) : l \in Optional({"layout"})}
Held == {HeldAxes(scene, a) : a \in Optional(AxesClasses)}
EnsuredAny == {EnsureAnyAxes(scene, a) : a \in Optional(AxesClasses)}
EnsuredOf(class) == {EnsureAxes(scene, a, class) : a \in Optional(AxesClasses)}
Ensured == EnsuredAny \union EnsuredOf("axes")

FigureRequest ==
    Execute({SelectOrCreateFigure(scene, n) : n \in 0..MaxNumber} \union {CurrentFigure(scene)})

AxesRequest ==
    Execute({SelectAxes(scene, a) : a \in Named({"axes"})} \union {CurrentAxes(scene)}
              \union {NewAxes(e, class) : e \in TargetFigures, class \in AxesClasses})

LayoutRequest ==
    Execute({Subplot(e, place) : e \in TargetFigures, place \in Places}
              \union {CreateTiledLayout(e, n) : e \in TargetFigures, n \in 1..MaxTiles}
              \union {NextTile(r, first, span) : r \in TargetLayouts,
                                                first \in 0..MaxTiles, span \in 1..MaxTiles})

PlotRequest ==
    Execute({Plot(e) : e \in UNION {EnsuredOf(class) : class \in AxesClasses}}
              \union {ChartGroup(e) : e \in EnsuredOf("axes")})

PropertyRequest ==
    Execute({SetAxes(e, look, always) : e \in Ensured, look \in Looks, always \in BOOLEAN}
              \union {GetAxes(e) : e \in Ensured}
              \union {SetHold(e, hold) : e \in Held, hold \in BOOLEAN}
              \union {SetTitle(e, look) : e \in EnsuredAny, look \in Looks}
              \union {Colorbar(e, visible) : e \in EnsuredAny, visible \in BOOLEAN}
              \union {SetProperties(scene, h, look) : look \in Looks, h \in
                         Named({"figure", "axes", "polar", "line", "chart", "text", "colorbar"})})

ClearRequest ==
    Execute({ClearAxes(e) : e \in Held} \union {ClearFigure(e) : e \in TargetFigures})

(* A set_axes_limits or set_axes_camera of the window.                      *)
RendererRequest ==
    \E f \in Named({"figure"}), a \in Optional({"axes"}) :
        LET axes == RendererAxes(scene, f, a)
        IN /\ axes # None /\ Node(scene, axes).parent = f
           /\ Execute({SetAxes([s |-> scene, figure |-> f, axes |-> axes, created |-> FALSE],
                               look, TRUE) : look \in Looks})

CloseRequest ==
    \E f \in Named({"figure"}) :
        /\ \E after \in {CloseFigure(scene, f)} :
             /\ after.ok
             /\ scene' = after
             /\ Deliver(scene, after, f)
        /\ UNCHANGED owner

(* execute_close_all_figures                                                *)
CloseAll ==
    LET order == SetToSortSeq(Figures(scene), LAMBDA f, g : Number(scene, f) < Number(scene, g))
        gone  == FoldLeft(CloseFigure, scene, order)
    IN /\ gone.ok
       /\ scene' = [gone EXCEPT !.figure = None, !.axes = None, !.layout = None]
       /\ mirror' = IF channel = "fault" THEN mirror
                    ELSE [i \in Ids |-> IF \E f \in Figures(scene) : Node(scene, f).id = i
                                        THEN None ELSE mirror[i]]
       /\ UNCHANGED <<owner, channel>>

Init ==
    /\ scene = [slots |-> <<>>, free |-> <<>>, figure |-> None, axes |-> None, layout |-> None,
                rev |-> [i \in Ids |-> 0], next |-> 1, ok |-> TRUE]
    /\ owner = <<>>
    /\ channel = "attached"
    /\ mirror = [i \in Ids |-> None]

Next ==
    \/ FigureRequest \/ AxesRequest \/ LayoutRequest \/ PlotRequest \/ PropertyRequest
    \/ ClearRequest \/ RendererRequest \/ CloseRequest \/ CloseAll
    \/ Reconnect

Spec == Init /\ [][Next]_vars

-----------------------------------------------------------------------------
SceneTypeOK ==
    /\ scene.ok /\ scene.next \in 1..(MaxId + 1)
    /\ scene.rev \in [Ids -> 0..MaxRevision]
    /\ \A i \in DOMAIN scene.slots : scene.slots[i].gen \in 1..MaxGeneration
    /\ Cardinality(Live(scene)) <= MaxObjects
    /\ channel \in {"attached", "fault"}

(* Parents and children agree, every object but Figures and layouts has a   *)
(* live parent, and a layout a live Figure, which has no other layout.      *)
TreeConsistent ==
    /\ \A h \in Live(scene) : \A i \in DOMAIN Kids(scene, h) :
         /\ Valid(scene, Kids(scene, h)[i]) /\ Node(scene, Kids(scene, h)[i]).parent = h
         /\ \A j \in DOMAIN Kids(scene, h) : i # j => Kids(scene, h)[i] # Kids(scene, h)[j]
    /\ \A h \in Live(scene) : LET up == Node(scene, h).parent IN
         IF h.class \in {"figure", "layout"} THEN up = None
         ELSE Valid(scene, up) /\ h \in ToSet(Kids(scene, up))
    /\ \A l \in OfClass(scene, {"layout"}) :
         LET f == Node(scene, l).props.figure IN Valid(scene, f) /\ LayoutsOf(scene, f) = {l}

(* Free slots are dead, distinct and not retired; a dead slot is one or     *)
(* the other.                                                               *)
ArenaConsistent ==
    /\ \A i \in DOMAIN scene.slots :
         (scene.slots[i].node = None) = (i \in ToSet(scene.free) \/ scene.slots[i].retired)
    /\ \A i, j \in DOMAIN scene.free : i # j => scene.free[i] # scene.free[j]
    /\ \A i \in ToSet(scene.free) : ~scene.slots[i].retired

(* What is current is live, and the current Axes are Axes of the current    *)
(* Figure: a request that replaces the current Axes relies on it to report  *)
(* the right Figure as changed.                                             *)
CurrentConsistent ==
    /\ \A h \in {scene.figure, scene.axes, scene.layout} : h # None => Valid(scene, h)
    /\ scene.axes # None => Node(scene, scene.axes).parent = scene.figure

(* Figure numbers are unique and exactly the live Figures have a revision.  *)
FiguresConsistent ==
    /\ \A f, g \in Figures(scene) : Number(scene, f) = Number(scene, g) => f = g
    /\ \A i \in Ids : (scene.rev[i] > 0) = (\E f \in Figures(scene) : Node(scene, f).id = i)

(* After any sequence of requests, failed ones included, the hierarchy, the *)
(* arena and the current objects fit together (GraphicsSession).            *)
SceneConsistent ==
    SceneTypeOK /\ TreeConsistent /\ ArenaConsistent /\ CurrentConsistent /\ FiguresConsistent

(* "Rejects stale, unknown, or class-mismatched handles": a handle resolves *)
(* to the object it was issued for or to nothing, however often its slot is *)
(* reused and although generations are finite (delete_subtree).             *)
HandlesStayDead ==
    \A h \in DOMAIN owner : Valid(scene, h) => Node(scene, h).id = owner[h]

(* A colorbar that is announced but not among the children of its Axes:     *)
(* `colorbar off` then reports no change.                                   *)
Shown(o, objects) ==
    IF o.class \notin AxesClasses THEN o
    ELSE [o EXCEPT !.props.colorbar =
            @ /\ \E k \in ToSet(o.kids) : objects[k].class = "colorbar"]

(* "A client applies a delta only when its current revision equals          *)
(* baseRevision": a client that has applied every delta sees the Figure a   *)
(* new snapshot would show, so one delta per transaction, for one Figure,   *)
(* is enough (finalize_change).  Only the visibility of a colorbar that a   *)
(* plot has already deleted may be out of date.                             *)
MirrorIsSnapshot ==
    channel = "attached" =>
        \A f \in Figures(scene) :
            LET snapshot == Snapshot(scene, f)
                m        == mirror[Node(scene, f).id]
            IN /\ m # None /\ m.rev = snapshot.rev
               /\ DOMAIN m.objects = DOMAIN snapshot.objects
               /\ \A i \in DOMAIN m.objects :
                    Shown(m.objects[i], m.objects) = Shown(snapshot.objects[i], snapshot.objects)

-----------------------------------------------------------------------------
(* "every mirror applies delta or uses resyncFigure on a gap": a delta that *)
(* continues the mirror's revision can be applied, so the channel never     *)
(* breaks over one.                                                         *)
DeltaApplies == channel = "attached"
=============================================================================
