------------------------- MODULE GraphicsFeedProofs -------------------------
(***************************************************************************)
(* Proofs about GraphicsFeed, for every set of Figures and every bound: no *)
(* revision is journaled twice, a window never goes back, the response to  *)
(* a mutation precedes its delta; and, where nobody but the kernel changes *)
(* Figures, a quiet window shows what is there, over any number of         *)
(* connections.                                                            *)
(***************************************************************************)
EXTENDS GraphicsFeed, TLAPS, FiniteSetTheorems, SequenceTheorems

\* No two places of s, or one of s and one of t, hold the same change.
Once(s) ==
  \A i, j \in 1..Len(s) : s[i].fig = s[j].fig /\ s[i].base = s[j].base => i = j
Apart(s, t) ==
  \A i \in 1..Len(s), j \in 1..Len(t) : ~(s[i].fig = t[j].fig /\ s[i].base = t[j].base)

\* What was committed lies behind the revision rev of its Figure.
Past(s, rev) == \A i \in 1..Len(s) : s[i].base < rev[s[i].fig]

\* A change is in one place only on its way to the journal.
Changing(rev, pend, bat, ev) ==
  /\ Past(pend, rev) /\ Past(bat, rev) /\ Past(ev, rev)
  /\ Once(pend) /\ Once(bat) /\ Once(ev)
  /\ Apart(pend, bat) /\ Apart(pend, ev) /\ Apart(bat, ev)

\* What is on the wire does not run ahead of the session, and a snapshot does
\* not fall behind what the client shows when it arrives.
Carried(w, sh, rev) ==
  /\ \A k \in 1..Len(w) : w[k].kind = "delta" => w[k].base < rev[w[k].fig]
  /\ \A k \in 1..Len(w) : w[k].kind = "snapshot" =>
       sh[w[k].request.fig] <= w[k].rev /\ w[k].rev <= rev[w[k].request.fig]
Ordered(w) ==
  \A j \in 1..Len(w), k \in 1..Len(w) : k < j /\ w[j].kind = "snapshot" =>
    /\ w[k].kind = "delta" /\ w[k].fig = w[j].request.fig => w[k].base < w[j].rev
    /\ w[k].kind = "snapshot" /\ w[k].request.fig = w[j].request.fig => w[k].rev <= w[j].rev
Acknowledged(w) ==
  \A j \in 1..Len(w), k \in 1..Len(w) : k < j /\ w[j].kind = "committed" =>
    ~(w[k].kind = "delta" /\ w[k].fig = w[j].request.fig /\ w[k].base = w[j].request.expected)

\* The types of FeedTypeOK, variable by variable.
DataTypes ==
  /\ revision \in [Figures -> Nat] /\ open \in [Figures -> BOOLEAN] /\ shown \in [Figures -> Nat]
  /\ pending \in Seq(Delta) /\ batch \in Seq(Delta) /\ events \in Seq(Event)
  /\ requests \in Seq(Request) /\ wire \in Seq(Message)
  /\ cursor \in Nat /\ cursor <= Len(events)
  /\ notices \subseteq Figures /\ announced \subseteq Figures /\ records \subseteq Figures
  /\ snapshotPending \subseteq Figures /\ resyncPending \subseteq Figures
  /\ closeRetry \subseteq Figures /\ discoveries \subseteq Figures
ControlTypes ==
  /\ xpc \in {"idle", "run", "taken"} /\ phase \in {"disconnected", "initializing", "attached", "error"}
  /\ attached \in BOOLEAN /\ polled \in BOOLEAN
  /\ transactions \in Nat /\ asked \in Nat /\ failures \in Nat /\ drops \in Nat

JournalInv == (\A f \in Figures : open[f] => revision[f] > 0) /\ Changing(revision, pending, batch, events)
WireInv ==
  /\ \A f \in Figures : shown[f] <= revision[f]
  /\ Carried(wire, shown, revision) /\ Ordered(wire) /\ Acknowledged(wire)

FeedInv == DataTypes /\ ControlTypes /\ JournalInv /\ WireInv /\ fault = FALSE
----------------------------------------------------------------------------
(* Sequences.                                                              *)

\* The places of a concatenation are those of its parts.
LEMMA JoinPlaces ==
  ASSUME NEW S, NEW s \in Seq(S), NEW t \in Seq(S), NEW r, r = s \o t
  PROVE  /\ r \in Seq(S) /\ Len(r) = Len(s) + Len(t)
         /\ \A i \in 1..Len(s) : i \in 1..Len(r) /\ r[i] = s[i]
         /\ \A i \in 1..Len(t) : Len(s) + i \in 1..Len(r) /\ r[Len(s) + i] = t[i]
         /\ \A i \in 1..Len(r) : \/ i \in 1..Len(s) /\ r[i] = s[i]
                                 \/ /\ i > Len(s) /\ i - Len(s) \in 1..Len(t)
                                    /\ r[i] = t[i - Len(s)]
<1>1. r \in Seq(S) /\ Len(r) = Len(s) + Len(t) /\ Len(s) \in Nat /\ Len(t) \in Nat
  OBVIOUS
<1>2. \A i \in 1..Len(s) + Len(t) : r[i] = IF i <= Len(s) THEN s[i] ELSE t[i - Len(s)]
  OBVIOUS
<1> QED
  BY <1>1, <1>2

\* A sequence loses its first place.
LEMMA TailPlaces ==
  ASSUME NEW S, NEW s \in Seq(S), s # <<>>, NEW r, r = Tail(s)
  PROVE  /\ r \in Seq(S) /\ Len(s) \in Nat /\ Len(s) > 0 /\ Len(r) = Len(s) - 1
         /\ Head(s) = s[1] /\ s[1] \in S
         /\ \A i \in 1..Len(r) : i + 1 \in 1..Len(s) /\ r[i] = s[i + 1]
         /\ \A i \in 1..Len(s) : i # 1 => i - 1 \in 1..Len(r) /\ r[i - 1] = s[i]
<1>1. r \in Seq(S) /\ Len(s) \in Nat /\ Len(s) > 0 /\ Len(r) = Len(s) - 1 /\ Head(s) = s[1]
  OBVIOUS
<1>2. \A i \in 1..Len(s) - 1 : r[i] = s[i + 1]
  OBVIOUS
<1>3. s[1] \in S
  BY <1>1
<1> QED
  BY <1>1, <1>2, <1>3

\* One more element.
LEMMA AppendPlaces ==
  ASSUME NEW S, NEW s \in Seq(S), NEW e \in S, NEW r, r = Append(s, e)
  PROVE  /\ r \in Seq(S) /\ Len(s) \in Nat /\ Len(r) = Len(s) + 1
         /\ \A i \in 1..Len(s) : i \in 1..Len(r) /\ r[i] = s[i]
         /\ Len(r) \in 1..Len(r) /\ r[Len(r)] = e
         /\ \A i \in 1..Len(r) : i \in 1..Len(s) \/ i = Len(r)
<1>1. r \in Seq(S) /\ Len(s) \in Nat /\ Len(r) = Len(s) + 1
  OBVIOUS
<1>2. \A i \in 1..Len(s) : r[i] = s[i]
  OBVIOUS
<1>3. r[Len(s) + 1] = e
  OBVIOUS
<1> QED
  BY <1>1, <1>2, <1>3

\* The journal after the cursor.
LEMMA AfterPlaces ==
  ASSUME NEW s \in Seq(Event), NEW n \in Nat, n <= Len(s), NEW r, r = After(s, n)
  PROVE  /\ r \in Seq(Event) /\ r \in Seq(Message) /\ Len(r) = Len(s) - n
         /\ \A i \in 1..Len(r) : n + i \in 1..Len(s) /\ r[i] = s[n + i] /\ r[i] \in Event
         /\ \A i \in 1..Len(s) : i > n => i - n \in 1..Len(r) /\ r[i - n] = s[i]
<1>1. Len(s) \in Nat
  OBVIOUS
<1>2. r = SubSeq(s, n + 1, Len(s))
  BY DEF After
<1>3. r \in Seq(Event) /\ Len(r) = Len(s) - n
  BY <1>1, <1>2
<1>4. \A i \in 1..Len(s) - n : r[i] = s[n + i]
  BY <1>1, <1>2
<1>5. \A i \in 1..Len(s) : s[i] \in Event
  OBVIOUS
<1>6. \A i \in 1..Len(r) : n + i \in 1..Len(s) /\ r[i] = s[n + i]
  BY <1>1, <1>3, <1>4
<1>7. \A i \in 1..Len(s) : i > n => i - n \in 1..Len(r) /\ r[i - n] = s[i]
  BY <1>1, <1>3, <1>4
<1>8. \A i \in 1..Len(r) : r[i] \in Event
  BY <1>5, <1>6
<1>9. r \in Seq(Message)
  <2>1. Event \subseteq Message
    BY DEF Message
  <2>2. \A i \in 1..Len(r) : r[i] \in Message
    BY <1>8, <2>1
  <2> QED
    BY <1>3, <2>2
<1> QED
  BY <1>3, <1>6, <1>7, <1>8, <1>9

\* A message is told by its kind.
LEMMA MessageKinds ==
  ASSUME NEW m \in Message
  PROVE  /\ m.kind \in {"delta", "closed"} => m \in Event
         /\ m.kind \in ResponseKinds => m \in Responses
         /\ m.kind = "view" => m \in Views
         /\ m.kind \in {"delta", "closed", "view"} \cup ResponseKinds
BY DEF Message, Event, Responses, Views, ResponseKinds
----------------------------------------------------------------------------
(* What enters the journal.                                                *)

\* new holds changes of ds, each at most once.
Drawn(new, ds) ==
  /\ new \in Seq(Event)
  /\ \E h \in [1..Len(new) -> 1..Len(ds)] :
       /\ \A i, j \in 1..Len(new) : i # j => h[i] # h[j]
       /\ \A i \in 1..Len(new) : /\ new[i].fig = ds[h[i]].fig /\ new[i].base = ds[h[i]].base
                                 /\ new[i].closing = ds[h[i]].closing

\* A set of places has a length, and lists of it are lists of that length.
LEMMA InOrderPlaces ==
  ASSUME NEW n \in Nat, NEW kept \in SUBSET (1..n), NEW h \in InOrder(kept)
  PROVE  \E c \in Nat : /\ DOMAIN h = 1..c /\ h \in [1..c -> 1..n]
                        /\ \A i \in 1..c : h[i] \in kept
                        /\ \A i, j \in 1..c : i # j => h[i] # h[j]
                        /\ kept # {} => c > 0
<1>1. IsFiniteSet(1..n)
  BY FS_Interval
<1>2. IsFiniteSet(kept)
  BY <1>1, FS_Subset
<1> DEFINE c == Cardinality(kept)
<1>3. c \in Nat
  BY <1>2, FS_CardinalityType
<1>4. kept # {} => c # 0
  BY <1>2, FS_EmptySet
<1>5. h \in [1..c -> kept] /\ \A i, j \in 1..c : i < j => h[i] < h[j]
  BY DEF InOrder
<1> HIDE DEF c
<1>6. \A i \in 1..c : h[i] \in kept /\ h[i] \in 1..n
  BY <1>5
<1>7. \A i, j \in 1..c : i # j => h[i] # h[j]
  <2> SUFFICES ASSUME NEW i \in 1..c, NEW j \in 1..c, i # j PROVE h[i] # h[j]
    OBVIOUS
  <2>1. h[i] \in Nat /\ h[j] \in Nat
    BY <1>6
  <2>2. i < j \/ j < i
    BY <1>3
  <2> QED
    BY <1>5, <2>1, <2>2
<1>8. h \in [1..c -> 1..n]
  BY <1>5
<1> QED
  BY <1>3, <1>4, <1>5, <1>6, <1>7, <1>8

\* The events made of the kept deltas, whatever their kinds, are drawn from them.
LEMMA EventsDrawn ==
  ASSUME NEW ds \in Seq(Delta), NEW kept \in SUBSET (1..Len(ds)), NEW h \in InOrder(kept),
         NEW k, \A i \in DOMAIN h : k[i] \in {"delta", "closed"},
         NEW new, new = [i \in DOMAIN h |-> EventOf(ds[h[i]], k[i])]
  PROVE  /\ Drawn(new, ds) /\ DOMAIN h = 1..Len(new) /\ (kept # {} => Len(new) > 0)
         /\ \A i \in 1..Len(new) : /\ h[i] \in kept /\ new[i].kind = k[i]
                                   /\ new[i].fig = ds[h[i]].fig /\ new[i].base = ds[h[i]].base
                                   /\ new[i].closing = ds[h[i]].closing
<1>1. Len(ds) \in Nat
  OBVIOUS
<1>2. PICK c \in Nat : /\ DOMAIN h = 1..c /\ h \in [1..c -> 1..Len(ds)]
                       /\ \A i \in 1..c : h[i] \in kept
                       /\ \A i, j \in 1..c : i # j => h[i] # h[j]
                       /\ kept # {} => c > 0
  BY <1>1, InOrderPlaces
<1>3. \A i \in 1..Len(ds) : ds[i] \in Delta
  OBVIOUS
<1>4. \A i \in 1..c : ds[h[i]] \in Delta
  BY <1>2, <1>3
<1>5. \A i \in 1..c : new[i] = EventOf(ds[h[i]], k[i])
  BY <1>2
<1>6. \A i \in 1..c : /\ new[i] \in Event
                      /\ new[i].fig = ds[h[i]].fig /\ new[i].base = ds[h[i]].base
                      /\ new[i].closing = ds[h[i]].closing /\ new[i].kind = k[i]
  BY <1>2, <1>4, <1>5 DEF EventOf, Event, Delta
<1>7. new \in [1..c -> Event]
  BY <1>2, <1>6
<1>8. new \in Seq(Event) /\ Len(new) = c
  BY <1>7
<1>9. Drawn(new, ds)
  <2>1. 1..Len(new) = 1..c
    BY <1>8
  <2>2. h \in [1..Len(new) -> 1..Len(ds)]
    BY <1>2, <2>1
  <2>3. /\ \A i, j \in 1..Len(new) : i # j => h[i] # h[j]
        /\ \A i \in 1..Len(new) : /\ new[i].fig = ds[h[i]].fig /\ new[i].base = ds[h[i]].base
                                  /\ new[i].closing = ds[h[i]].closing
    BY <1>2, <1>6, <2>1, Zenon
  <2> QED
    BY <1>8, <2>2, <2>3, Zenon DEF Drawn
<1> QED
  BY <1>2, <1>6, <1>8, <1>9

\* Part of what is drawn is drawn.
LEMMA PrefixDrawn ==
  ASSUME NEW ds \in Seq(Delta), NEW new, Drawn(new, ds), NEW n \in Nat, n <= Len(new),
         NEW r, r = SubSeq(new, 1, n)
  PROVE  Drawn(r, ds) /\ Len(r) = n /\ \A i \in 1..n : i \in 1..Len(new) /\ r[i] = new[i]
<1>1. new \in Seq(Event) /\ Len(new) \in Nat
  BY DEF Drawn
<1>2. r \in Seq(Event) /\ Len(r) = n
  BY <1>1
<1>3. \A i \in 1..n : r[i] = new[i]
  BY <1>1
<1>4. PICK h \in [1..Len(new) -> 1..Len(ds)] :
       /\ \A i, j \in 1..Len(new) : i # j => h[i] # h[j]
       /\ \A i \in 1..Len(new) : /\ new[i].fig = ds[h[i]].fig /\ new[i].base = ds[h[i]].base
                                 /\ new[i].closing = ds[h[i]].closing
  BY DEF Drawn
<1>5. \A i \in 1..n : i \in 1..Len(new)
  BY <1>1
<1> DEFINE g == [i \in 1..n |-> h[i]]
<1>6. g \in [1..n -> 1..Len(ds)]
  BY <1>4, <1>5
<1>7. \A i \in 1..n : g[i] = h[i]
  OBVIOUS
<1> HIDE DEF g
<1>8. /\ \A i, j \in 1..n : i # j => g[i] # g[j]
      /\ \A i \in 1..n : /\ r[i].fig = ds[g[i]].fig /\ r[i].base = ds[g[i]].base
                         /\ r[i].closing = ds[g[i]].closing
  BY <1>3, <1>4, <1>5, <1>7
<1>9. Drawn(r, ds)
  <2>1. 1..Len(r) = 1..n
    BY <1>2
  <2>2. g \in [1..Len(r) -> 1..Len(ds)]
    BY <1>6, <2>1
  <2>3. /\ \A i, j \in 1..Len(r) : i # j => g[i] # g[j]
        /\ \A i \in 1..Len(r) : /\ r[i].fig = ds[g[i]].fig /\ r[i].base = ds[g[i]].base
                                /\ r[i].closing = ds[g[i]].closing
    BY <1>8, <2>1, Zenon
  <2> QED
    BY <1>2, <2>2, <2>3, Zenon DEF Drawn
<1> QED
  BY <1>2, <1>3, <1>5, <1>9

\* A place of what is drawn is a place of where it is drawn from.
LEMMA DrawnFrom ==
  ASSUME NEW ds \in Seq(Delta), NEW new, Drawn(new, ds), NEW i \in 1..Len(new)
  PROVE  new[i] \in Event /\ \E j \in 1..Len(ds) :
           new[i].fig = ds[j].fig /\ new[i].base = ds[j].base /\ new[i].closing = ds[j].closing
<1>1. new[i] \in Event
  BY DEF Drawn
<1>2. PICK h \in [1..Len(new) -> 1..Len(ds)] :
       \A m \in 1..Len(new) : /\ new[m].fig = ds[h[m]].fig /\ new[m].base = ds[h[m]].base
                              /\ new[m].closing = ds[h[m]].closing
  BY DEF Drawn
<1>3. h[i] \in 1..Len(ds)
  BY <1>2
<1> QED
  BY <1>1, <1>2, <1>3

\* The journal grows by changes that it does not hold yet.
LEMMA JournalGrows ==
  ASSUME NEW ev \in Seq(Event), NEW ds \in Seq(Delta), NEW new, Drawn(new, ds),
         Once(ev), Once(ds), Apart(ds, ev), NEW r, r = ev \o new
  PROVE  r \in Seq(Event) /\ Len(r) = Len(ev) + Len(new) /\ Len(new) \in Nat /\ Once(r)
<1>1. new \in Seq(Event)
  BY DEF Drawn
<1>2. PICK h \in [1..Len(new) -> 1..Len(ds)] :
       /\ \A i, j \in 1..Len(new) : i # j => h[i] # h[j]
       /\ \A i \in 1..Len(new) : new[i].fig = ds[h[i]].fig /\ new[i].base = ds[h[i]].base
  BY DEF Drawn
<1>3. /\ r \in Seq(Event) /\ Len(r) = Len(ev) + Len(new)
      /\ \A i \in 1..Len(r) : \/ i \in 1..Len(ev) /\ r[i] = ev[i]
                              \/ /\ i > Len(ev) /\ i - Len(ev) \in 1..Len(new)
                                 /\ r[i] = new[i - Len(ev)]
  BY <1>1, JoinPlaces
<1>4. Len(new) \in Nat /\ Len(ev) \in Nat
  BY <1>1
<1>5. \A i \in 1..Len(new) : h[i] \in 1..Len(ds)
  BY <1>2
<1>6. \A i, j \in 1..Len(new) : new[i].fig = new[j].fig /\ new[i].base = new[j].base => i = j
  <2> SUFFICES ASSUME NEW i \in 1..Len(new), NEW j \in 1..Len(new), new[i].fig = new[j].fig,
                      new[i].base = new[j].base, i # j
               PROVE  FALSE
    OBVIOUS
  <2>1. h[i] \in 1..Len(ds) /\ h[j] \in 1..Len(ds) /\ h[i] # h[j]
    BY <1>2, <1>5
  <2>2. ds[h[i]].fig = ds[h[j]].fig /\ ds[h[i]].base = ds[h[j]].base
    BY <1>2
  <2> QED
    BY <2>1, <2>2, Zenon DEF Once
<1>7. \A i \in 1..Len(new), j \in 1..Len(ev) :
        ~(new[i].fig = ev[j].fig /\ new[i].base = ev[j].base)
  BY <1>2, <1>5 DEF Apart
<1>8. Once(r)
  <2> SUFFICES ASSUME NEW i \in 1..Len(r), NEW j \in 1..Len(r),
                      r[i].fig = r[j].fig, r[i].base = r[j].base
               PROVE  i = j
    BY DEF Once
  <2>1. CASE i \in 1..Len(ev) /\ j \in 1..Len(ev)
    BY <1>3, <1>4, <2>1 DEF Once
  <2>2. CASE i \in 1..Len(ev) /\ j \notin 1..Len(ev)
    <3>1. r[i] = ev[i] /\ j - Len(ev) \in 1..Len(new) /\ r[j] = new[j - Len(ev)]
      BY <1>3, <1>4, <2>2
    <3> QED
      BY <1>7, <2>2, <3>1
  <2>3. CASE i \notin 1..Len(ev) /\ j \in 1..Len(ev)
    <3>1. r[j] = ev[j] /\ i - Len(ev) \in 1..Len(new) /\ r[i] = new[i - Len(ev)]
      BY <1>3, <1>4, <2>3
    <3> QED
      BY <1>7, <2>3, <3>1
  <2>4. CASE i \notin 1..Len(ev) /\ j \notin 1..Len(ev)
    <3>1. i - Len(ev) \in 1..Len(new) /\ r[i] = new[i - Len(ev)]
      BY <1>3, <2>4
    <3>2. j - Len(ev) \in 1..Len(new) /\ r[j] = new[j - Len(ev)]
      BY <1>3, <2>4
    <3>3. i - Len(ev) = j - Len(ev)
      BY <1>6, <3>1, <3>2
    <3> QED
      BY <1>3, <1>4, <3>3
  <2> QED
    BY <2>1, <2>2, <2>3, <2>4
<1> QED
  BY <1>3, <1>4, <1>8

\* What shares no change with a journal and a batch shares none with the
\* journal of both.
LEMMA ApartGrows ==
  ASSUME NEW ev \in Seq(Event), NEW ds \in Seq(Delta), NEW new, Drawn(new, ds), NEW t \in Seq(Delta),
         Apart(t, ev), Apart(t, ds), NEW r, r = ev \o new
  PROVE  Apart(t, r)
<1>1. new \in Seq(Event)
  BY DEF Drawn
<1>2. \A i \in 1..Len(r) : \/ i \in 1..Len(ev) /\ r[i] = ev[i]
                           \/ i - Len(ev) \in 1..Len(new) /\ r[i] = new[i - Len(ev)]
  BY <1>1, JoinPlaces
<1>3. \A i \in 1..Len(new) : \E j \in 1..Len(ds) : new[i].fig = ds[j].fig /\ new[i].base = ds[j].base
  BY DrawnFrom
<1> SUFFICES ASSUME NEW i \in 1..Len(t), NEW j \in 1..Len(r)
             PROVE  ~(t[i].fig = r[j].fig /\ t[i].base = r[j].base)
  BY DEF Apart
<1>4. CASE j \in 1..Len(ev) /\ r[j] = ev[j]
  BY <1>4 DEF Apart
<1>5. CASE j - Len(ev) \in 1..Len(new) /\ r[j] = new[j - Len(ev)]
  <2>1. PICK d \in 1..Len(ds) : r[j].fig = ds[d].fig /\ r[j].base = ds[d].base
    BY <1>3, <1>5
  <2> QED
    BY <2>1 DEF Apart
<1> QED
  BY <1>2, <1>4, <1>5

\* What is committed stays committed.
LEMMA PastGrows ==
  ASSUME NEW ev \in Seq(Event), NEW ds \in Seq(Delta), NEW new, Drawn(new, ds),
         NEW rev, Past(ev, rev), Past(ds, rev), NEW r, r = ev \o new
  PROVE  Past(r, rev)
<1>1. new \in Seq(Event)
  BY DEF Drawn
<1>2. \A i \in 1..Len(r) : \/ i \in 1..Len(ev) /\ r[i] = ev[i]
                           \/ i - Len(ev) \in 1..Len(new) /\ r[i] = new[i - Len(ev)]
  BY <1>1, JoinPlaces
<1>3. \A i \in 1..Len(new) : \E j \in 1..Len(ds) : new[i].fig = ds[j].fig /\ new[i].base = ds[j].base
  BY DrawnFrom
<1>4. \A i \in 1..Len(new) : new[i].base < rev[new[i].fig]
  BY <1>3 DEF Past
<1>5. \A i \in 1..Len(ev) : ev[i].base < rev[ev[i].fig]
  BY DEF Past
<1>6. \A i \in 1..Len(r) : r[i].base < rev[r[i].fig]
  BY <1>2, <1>4, <1>5
<1> QED
  BY <1>6 DEF Past

\* Revisions that grow keep every change in the past.
LEMMA PastLater ==
  ASSUME NEW T, NEW s \in Seq(T), \A x \in T : x.fig \in Figures /\ x.base \in Nat,
         NEW rev \in [Figures -> Nat], NEW now \in [Figures -> Nat],
         \A f \in Figures : rev[f] <= now[f], Past(s, rev)
  PROVE  Past(s, now)
<1> SUFFICES ASSUME NEW i \in 1..Len(s) PROVE s[i].base < now[s[i].fig]
  BY DEF Past
<1>1. s[i] \in T
  OBVIOUS
<1>2. s[i].fig \in Figures /\ s[i].base \in Nat /\ s[i].base < rev[s[i].fig]
  BY <1>1 DEF Past
<1>3. rev[s[i].fig] \in Nat /\ now[s[i].fig] \in Nat /\ rev[s[i].fig] <= now[s[i].fig]
  BY <1>2
<1> QED
  BY <1>2, <1>3

\* A change on top of what there is is new to all that is past.
LEMMA CommitIsNew ==
  ASSUME NEW T, NEW s \in Seq(T), \A x \in T : x.fig \in Figures /\ x.base \in Nat,
         NEW rev \in [Figures -> Nat], Past(s, rev), NEW f \in Figures
  PROVE  \A i \in 1..Len(s) : ~(s[i].fig = f /\ s[i].base = rev[f])
<1> SUFFICES ASSUME NEW i \in 1..Len(s), s[i].fig = f, s[i].base = rev[f] PROVE FALSE
  OBVIOUS
<1>1. rev[f] \in Nat /\ rev[f] < rev[f]
  BY DEF Past
<1> QED
  BY <1>1

\* Drained: the change of a transaction joins those that are pending.
LEMMA CommitJoins ==
  ASSUME NEW pend \in Seq(Delta), NEW bat \in Seq(Delta), NEW ev \in Seq(Event),
         NEW rev \in [Figures -> Nat], Changing(rev, pend, bat, ev), NEW f \in Figures,
         NEW own \in Delta, own.fig = f, own.base = rev[f], NEW ds, ds = Append(pend, own),
         NEW now \in [Figures -> Nat], now[f] = rev[f] + 1,
         \A g \in Figures : g # f => now[g] = rev[g]
  PROVE  Changing(now, ds, bat, ev)
<1>2. \A g \in Figures : rev[g] <= now[g]
  <2>1. \A g \in Figures : rev[g] \in Nat
    OBVIOUS
  <2> QED
    BY <2>1
<1>1. own.fig = f /\ own.base = rev[f] /\ rev[f] \in Nat /\ now[f] = rev[f] + 1
  OBVIOUS
<1>d. \A x \in Delta : x.fig \in Figures /\ x.base \in Nat
  BY DEF Delta
<1>e. \A x \in Event : x.fig \in Figures /\ x.base \in Nat
  BY DEF Event
<1>3. /\ ds \in Seq(Delta) /\ Len(pend) \in Nat /\ Len(ds) = Len(pend) + 1
      /\ \A i \in 1..Len(pend) : i \in 1..Len(ds) /\ ds[i] = pend[i]
      /\ Len(ds) \in 1..Len(ds) /\ ds[Len(ds)] = own
      /\ \A i \in 1..Len(ds) : i \in 1..Len(pend) \/ i = Len(ds)
  BY AppendPlaces
<1>4. /\ Past(pend, rev) /\ Past(bat, rev) /\ Past(ev, rev)
      /\ Once(pend) /\ Once(bat) /\ Once(ev)
      /\ Apart(pend, bat) /\ Apart(pend, ev) /\ Apart(bat, ev)
  BY DEF Changing
<1>5. Past(pend, now) /\ Past(bat, now)
  BY <1>2, <1>4, <1>d, PastLater
<1>6. Past(ev, now)
  BY <1>2, <1>4, <1>e, PastLater
<1>7. /\ \A i \in 1..Len(pend) : ~(pend[i].fig = f /\ pend[i].base = rev[f])
      /\ \A i \in 1..Len(bat) : ~(bat[i].fig = f /\ bat[i].base = rev[f])
  BY <1>4, <1>d, CommitIsNew
<1>8. \A i \in 1..Len(ev) : ~(ev[i].fig = f /\ ev[i].base = rev[f])
  BY <1>4, <1>e, CommitIsNew
<1>9. Past(ds, now)
  <2> SUFFICES ASSUME NEW i \in 1..Len(ds) PROVE ds[i].base < now[ds[i].fig]
    BY DEF Past
  <2>1. CASE i \in 1..Len(pend)
    BY <1>3, <1>5, <2>1 DEF Past
  <2>2. CASE i = Len(ds)
    BY <1>1, <1>3, <2>2
  <2> QED
    BY <1>3, <2>1, <2>2
<1>10. Once(ds)
  <2> SUFFICES ASSUME NEW i \in 1..Len(ds), NEW j \in 1..Len(ds),
                      ds[i].fig = ds[j].fig, ds[i].base = ds[j].base
               PROVE  i = j
    BY DEF Once
  <2> QED
    BY <1>3, <1>4, <1>7 DEF Once
<1>11. Apart(ds, bat) /\ Apart(ds, ev)
  <2>1. ASSUME NEW i \in 1..Len(ds), NEW j \in 1..Len(bat)
        PROVE  ~(ds[i].fig = bat[j].fig /\ ds[i].base = bat[j].base)
    <3>1. CASE i \in 1..Len(pend)
      BY <1>3, <1>4, <3>1 DEF Apart
    <3>2. CASE i = Len(ds)
      BY <1>3, <1>7, <3>2
    <3> QED
      BY <1>3, <3>1, <3>2
  <2>2. ASSUME NEW i \in 1..Len(ds), NEW j \in 1..Len(ev)
        PROVE  ~(ds[i].fig = ev[j].fig /\ ds[i].base = ev[j].base)
    <3>1. CASE i \in 1..Len(pend)
      BY <1>3, <1>4, <3>1 DEF Apart
    <3>2. CASE i = Len(ds)
      BY <1>3, <1>8, <3>2
    <3> QED
      BY <1>3, <3>1, <3>2
  <2> QED
    BY <2>1, <2>2 DEF Apart
<1>12. Changing(now, ds, bat, ev)
  BY <1>4, <1>5, <1>6, <1>9, <1>10, <1>11 DEF Changing
<1> QED
  BY <1>12

\* What is drawn from the pending deltas or the batch moves to the journal.
LEMMA DrawnMoves ==
  ASSUME NEW ds \in Seq(Delta), NEW bat \in Seq(Delta), NEW ev \in Seq(Event),
         NEW rev, NEW new, Drawn(new, ds), NEW r, r = ev \o new, NEW e, e = <<>>
  PROVE  /\ r \in Seq(Event) /\ Len(r) = Len(ev) + Len(new) /\ Len(new) \in Nat
         /\ Changing(rev, ds, bat, ev) => Changing(rev, e, bat, r)
         /\ Changing(rev, bat, ds, ev) => Changing(rev, bat, e, r)
<1>1. new \in Seq(Event)
  BY DEF Drawn
<1>2. r \in Seq(Event) /\ Len(r) = Len(ev) + Len(new) /\ Len(new) \in Nat
  BY <1>1, JoinPlaces
<1>3. Past(e, rev) /\ Once(e) /\ Apart(e, bat) /\ Apart(bat, e) /\ Apart(e, r)
  BY DEF Past, Once, Apart
<1>4. ASSUME Changing(rev, ds, bat, ev) PROVE Changing(rev, e, bat, r)
  <2>1. Apart(bat, ds)
    BY <1>4 DEF Changing, Apart
  <2>2. Once(r) /\ Past(r, rev) /\ Apart(bat, r)
    BY <1>4, <2>1, JournalGrows, PastGrows, ApartGrows DEF Changing
  <2> QED
    BY <1>3, <1>4, <2>2 DEF Changing
<1>5. ASSUME Changing(rev, bat, ds, ev) PROVE Changing(rev, bat, e, r)
  <2>2. Once(r) /\ Past(r, rev) /\ Apart(bat, r)
    BY <1>5, JournalGrows, PastGrows, ApartGrows DEF Changing
  <2> QED
    BY <1>3, <1>5, <2>2 DEF Changing
<1> QED
  BY <1>2, <1>4, <1>5
----------------------------------------------------------------------------
(* What travels to the client.                                             *)

\* The fields of a message that matter here have their types.
LEMMA MessageFields ==
  ASSUME NEW w \in Seq(Message), NEW k \in 1..Len(w)
  PROVE  /\ w[k] \in Message
         /\ w[k].kind = "delta" => w[k].fig \in Figures /\ w[k].base \in Nat /\ w[k].closing \in BOOLEAN
         /\ w[k].kind = "closed" => w[k].fig \in Figures /\ w[k].base \in Nat
         /\ w[k].kind \in ResponseKinds => w[k].request \in Request /\ w[k].request.fig \in Figures
                                           /\ w[k].request.expected \in Nat /\ w[k].rev \in Nat
         /\ w[k].kind = "view" => w[k].figs \subseteq Figures
<1>1. w[k] \in Message
  OBVIOUS
<1>2. PICK m \in Message : m = w[k]
  BY <1>1
<1>3. m.kind \in {"delta", "closed"} => m.fig \in Figures /\ m.base \in Nat /\ m.closing \in BOOLEAN
  BY MessageKinds DEF Event
<1>4. m.kind \in ResponseKinds => m.request \in Request /\ m.rev \in Nat
  BY MessageKinds DEF Responses
<1>5. \A r \in Request : r.fig \in Figures /\ r.expected \in Nat
  BY DEF Request
<1>6. m.kind = "view" => m.figs \subseteq Figures
  BY MessageKinds DEF Views
<1> QED
  BY <1>1, <1>2, <1>3, <1>4, <1>5, <1>6

\* A message that was received leaves the others as they were.
LEMMA WireShrinks ==
  ASSUME NEW w \in Seq(Message), w # <<>>, NEW r, r = Tail(w), NEW sh, NEW rev
  PROVE  /\ Carried(w, sh, rev) => Carried(r, sh, rev)
         /\ Ordered(w) => Ordered(r)
         /\ Acknowledged(w) => Acknowledged(r)
<1>1. Len(w) \in Nat /\ Len(r) = Len(w) - 1 /\ \A i \in 1..Len(r) : i + 1 \in 1..Len(w) /\ r[i] = w[i + 1]
  BY TailPlaces
<1>2. \A i, j \in 1..Len(r) : i < j => i + 1 < j + 1
  BY <1>1
<1>3. Carried(w, sh, rev) => Carried(r, sh, rev)
  <2>1. ASSUME Carried(w, sh, rev), NEW k \in 1..Len(r)
        PROVE  /\ r[k].kind = "delta" => r[k].base < rev[r[k].fig]
               /\ r[k].kind = "snapshot" =>
                    sh[r[k].request.fig] <= r[k].rev /\ r[k].rev <= rev[r[k].request.fig]
    <3>1. k + 1 \in 1..Len(w) /\ r[k] = w[k + 1]
      BY <1>1
    <3> QED
      BY <2>1, <3>1 DEF Carried
  <2> QED
    BY <2>1 DEF Carried
<1>4. Ordered(w) => Ordered(r)
  <2>1. ASSUME Ordered(w), NEW j \in 1..Len(r), NEW k \in 1..Len(r), k < j, r[j].kind = "snapshot"
        PROVE  /\ r[k].kind = "delta" /\ r[k].fig = r[j].request.fig => r[k].base < r[j].rev
               /\ r[k].kind = "snapshot" /\ r[k].request.fig = r[j].request.fig => r[k].rev <= r[j].rev
    <3>1. k + 1 \in 1..Len(w) /\ r[k] = w[k + 1] /\ j + 1 \in 1..Len(w) /\ r[j] = w[j + 1] /\ k + 1 < j + 1
      BY <1>1, <1>2, <2>1
    <3> QED
      BY <2>1, <3>1 DEF Ordered
  <2> QED
    BY <2>1 DEF Ordered
<1>5. Acknowledged(w) => Acknowledged(r)
  <2>1. ASSUME Acknowledged(w), NEW j \in 1..Len(r), NEW k \in 1..Len(r), k < j, r[j].kind = "committed"
        PROVE  ~(r[k].kind = "delta" /\ r[k].fig = r[j].request.fig /\ r[k].base = r[j].request.expected)
    <3>1. k + 1 \in 1..Len(w) /\ r[k] = w[k + 1] /\ j + 1 \in 1..Len(w) /\ r[j] = w[j + 1] /\ k + 1 < j + 1
      BY <1>1, <1>2, <2>1
    <3> QED
      BY <2>1, <3>1 DEF Acknowledged
  <2> QED
    BY <2>1 DEF Acknowledged
<1> QED
  BY <1>3, <1>4, <1>5

\* An answer is given at the present revision, ahead of the journal.
Answering(t, rev, now) ==
  \A i \in 1..Len(t) :
    /\ t[i].kind = "delta" => t[i].base < now[t[i].fig]
    /\ t[i].kind = "snapshot" => i = 1 /\ t[i].rev = rev[t[i].request.fig]
    /\ t[i].kind = "committed" => i = 1 /\ t[i].request.expected = rev[t[i].request.fig]

\* Messages of that kind join those under way.
LEMMA WireGrows ==
  ASSUME NEW w \in Seq(Message), NEW t \in Seq(Message), NEW r, r = w \o t,
         NEW sh \in [Figures -> Nat], NEW rev \in [Figures -> Nat], NEW now \in [Figures -> Nat],
         \A f \in Figures : rev[f] <= now[f] /\ sh[f] <= rev[f],
         Carried(w, sh, rev), Answering(t, rev, now)
  PROVE  Carried(r, sh, now)
<1>1. /\ r \in Seq(Message) /\ Len(r) = Len(w) + Len(t)
      /\ \A i \in 1..Len(r) : \/ i \in 1..Len(w) /\ r[i] = w[i]
                              \/ /\ i > Len(w) /\ i - Len(w) \in 1..Len(t)
                                 /\ r[i] = t[i - Len(w)]
  BY JoinPlaces
<1>2. Len(w) \in Nat /\ Len(t) \in Nat
  OBVIOUS
<1>3. Carried(r, sh, now)
  <2>1. ASSUME NEW k \in 1..Len(r)
        PROVE  /\ r[k].kind = "delta" => r[k].base < now[r[k].fig]
               /\ r[k].kind = "snapshot" =>
                    sh[r[k].request.fig] <= r[k].rev /\ r[k].rev <= now[r[k].request.fig]
    <3>1. CASE k \in 1..Len(w) /\ r[k] = w[k]
      <4>1. w[k].kind = "delta" => w[k].base \in Nat /\ w[k].fig \in Figures /\ w[k].base < rev[w[k].fig]
        BY <3>1, MessageFields DEF Carried
      <4>2. w[k].kind = "snapshot" =>
              /\ w[k].request.fig \in Figures /\ w[k].rev \in Nat
              /\ sh[w[k].request.fig] <= w[k].rev /\ w[k].rev <= rev[w[k].request.fig]
        BY <3>1, MessageFields DEF Carried, ResponseKinds
      <4>3. \A f \in Figures : rev[f] \in Nat /\ now[f] \in Nat
        OBVIOUS
      <4> QED
        BY <3>1, <4>1, <4>2, <4>3
    <3>2. CASE k - Len(w) \in 1..Len(t) /\ r[k] = t[k - Len(w)]
      <4>1. r[k].kind = "delta" => r[k].base < now[r[k].fig]
        BY <3>2 DEF Answering
      <4>2. r[k].kind = "snapshot" => r[k].rev = rev[r[k].request.fig] /\ r[k].request.fig \in Figures
        BY <3>2, MessageFields DEF Answering, ResponseKinds
      <4> QED
        BY <4>1, <4>2
    <3> QED
      BY <1>1, <3>1, <3>2
  <2> QED
    BY <2>1 DEF Carried
<1> QED
  BY <1>3

\* They keep the order of messages.
LEMMA WireGrowsInOrder ==
  ASSUME NEW w \in Seq(Message), NEW t \in Seq(Message), NEW r, r = w \o t,
         NEW sh, NEW rev \in [Figures -> Nat], NEW now,
         Carried(w, sh, rev), Ordered(w), Acknowledged(w), Answering(t, rev, now)
  PROVE  Ordered(r) /\ Acknowledged(r)
<1>1. /\ r \in Seq(Message) /\ Len(r) = Len(w) + Len(t)
      /\ \A i \in 1..Len(r) : \/ i \in 1..Len(w) /\ r[i] = w[i]
                              \/ /\ i > Len(w) /\ i - Len(w) \in 1..Len(t)
                                 /\ r[i] = t[i - Len(w)]
  BY JoinPlaces
<1>2. Len(w) \in Nat /\ Len(t) \in Nat
  OBVIOUS
<1>4. ASSUME NEW j \in 1..Len(r), NEW k \in 1..Len(r), k < j,
             r[j].kind = "snapshot" \/ r[j].kind = "committed"
      PROVE  /\ k \in 1..Len(w) /\ r[k] = w[k]
             /\ \/ j \in 1..Len(w) /\ r[j] = w[j]
                \/ r[j].kind = "snapshot" /\ r[j].rev = rev[r[j].request.fig] /\ r[j].request.fig \in Figures
                \/ r[j].kind = "committed" /\ r[j].request.expected = rev[r[j].request.fig]
                                           /\ r[j].request.fig \in Figures
  <2>1. CASE j \in 1..Len(w) /\ r[j] = w[j]
    <3>1. k \in 1..Len(w)
      BY <1>2, <1>4, <2>1
    <3>2. k <= Len(w)
      BY <1>2, <3>1
    <3> QED
      BY <1>1, <2>1, <3>1, <3>2, <1>2
  <2>2. CASE j > Len(w) /\ j - Len(w) \in 1..Len(t) /\ r[j] = t[j - Len(w)]
    <3>1. r[j].kind = "snapshot" => j - Len(w) = 1 /\ r[j].rev = rev[r[j].request.fig] /\ r[j].request.fig \in Figures
      BY <2>2, MessageFields DEF Answering, ResponseKinds
    <3>2. r[j].kind = "committed" =>
            j - Len(w) = 1 /\ r[j].request.expected = rev[r[j].request.fig] /\ r[j].request.fig \in Figures
      BY <2>2, MessageFields DEF Answering, ResponseKinds
    <3>3. j - Len(w) = 1
      BY <1>4, <3>1, <3>2
    <3>4. k \in 1..Len(w) /\ ~(k > Len(w))
      BY <1>1, <1>2, <1>4, <3>3
    <3> QED
      BY <1>1, <1>4, <3>1, <3>2, <3>4
  <2> QED
    BY <1>1, <2>1, <2>2
<1>5. Ordered(r)
  <2>1. ASSUME NEW j \in 1..Len(r), NEW k \in 1..Len(r), k < j, r[j].kind = "snapshot"
        PROVE  /\ r[k].kind = "delta" /\ r[k].fig = r[j].request.fig => r[k].base < r[j].rev
               /\ r[k].kind = "snapshot" /\ r[k].request.fig = r[j].request.fig => r[k].rev <= r[j].rev
    <3>1. k \in 1..Len(w) /\ r[k] = w[k]
      BY <1>4, <2>1
    <3>2. CASE j \in 1..Len(w) /\ r[j] = w[j]
      BY <2>1, <3>1, <3>2 DEF Ordered
    <3>3. CASE r[j].rev = rev[r[j].request.fig]
      BY <3>1, <3>3 DEF Carried
    <3> QED
      BY <1>4, <2>1, <3>2, <3>3
  <2> QED
    BY <2>1 DEF Ordered
<1>6. Acknowledged(r)
  <2>1. ASSUME NEW j \in 1..Len(r), NEW k \in 1..Len(r), k < j, r[j].kind = "committed",
               r[k].kind = "delta", r[k].fig = r[j].request.fig, r[k].base = r[j].request.expected
        PROVE  FALSE
    <3>1. k \in 1..Len(w) /\ r[k] = w[k]
      BY <1>4, <2>1
    <3>2. CASE j \in 1..Len(w) /\ r[j] = w[j]
      BY <2>1, <3>1, <3>2 DEF Acknowledged
    <3>3. CASE r[j].request.expected = rev[r[j].request.fig] /\ r[j].request.fig \in Figures
      <4>1. w[k].base < rev[w[k].fig] /\ w[k].base = rev[w[k].fig] /\ rev[w[k].fig] \in Nat
        BY <2>1, <3>1, <3>3 DEF Carried
      <4> QED
        BY <4>1
    <3> QED
      BY <1>4, <2>1, <3>2, <3>3
  <2> QED
    BY <2>1 DEF Acknowledged
<1> QED
  BY <1>5, <1>6

\* The client moves to n, which no snapshot under way falls behind.
LEMMA ShownMoves ==
  ASSUME NEW w \in Seq(Message), NEW sh \in [Figures -> Nat], NEW rev \in [Figures -> Nat],
         Carried(w, sh, rev), NEW f \in Figures, NEW n \in Nat,
         \A k \in 1..Len(w) : w[k].kind = "snapshot" /\ w[k].request.fig = f => n <= w[k].rev,
         NEW now, now = [sh EXCEPT ![f] = n]
  PROVE  now \in [Figures -> Nat] /\ Carried(w, now, rev)
<1>1. now \in [Figures -> Nat] /\ now[f] = n /\ \A g \in Figures : g # f => now[g] = sh[g]
  OBVIOUS
<1>2. ASSUME NEW k \in 1..Len(w), w[k].kind = "snapshot" PROVE now[w[k].request.fig] <= w[k].rev
  <2>1. w[k].request.fig \in Figures
    BY <1>2, MessageFields DEF ResponseKinds
  <2>2. sh[w[k].request.fig] <= w[k].rev
    BY <1>2 DEF Carried
  <2> QED
    BY <1>1, <1>2, <2>1, <2>2
<1> QED
  BY <1>1, <1>2 DEF Carried

\* Later revisions keep what is under way behind them.
LEMMA CarriedLater ==
  ASSUME NEW w \in Seq(Message), NEW sh \in [Figures -> Nat], NEW rev \in [Figures -> Nat],
         NEW now \in [Figures -> Nat], \A f \in Figures : rev[f] <= now[f], Carried(w, sh, rev)
  PROVE  Carried(w, sh, now)
<1>1. ASSUME NEW k \in 1..Len(w)
      PROVE  /\ w[k].kind = "delta" => w[k].base < now[w[k].fig]
             /\ w[k].kind = "snapshot" =>
                  sh[w[k].request.fig] <= w[k].rev /\ w[k].rev <= now[w[k].request.fig]
  <2>1. w[k].kind = "delta" => w[k].base \in Nat /\ w[k].fig \in Figures /\ w[k].base < rev[w[k].fig]
    BY MessageFields DEF Carried
  <2>2. w[k].kind = "snapshot" =>
          /\ w[k].request.fig \in Figures /\ w[k].rev \in Nat
          /\ sh[w[k].request.fig] <= w[k].rev /\ w[k].rev <= rev[w[k].request.fig]
    BY MessageFields DEF Carried, ResponseKinds
  <2>3. \A f \in Figures : rev[f] \in Nat /\ now[f] \in Nat
    OBVIOUS
  <2> QED
    BY <2>1, <2>2, <2>3
<1> QED
  BY <1>1 DEF Carried

\* The requests for the snapshots of some Figures.
LEMMA SnapshotRequestsTyped ==
  ASSUME NEW figs \in SUBSET Figures
  PROVE  /\ SnapshotRequests(figs) \in Seq(Request)
         /\ \A i \in 1..Len(SnapshotRequests(figs)) :
              /\ SnapshotRequests(figs)[i].type = "getSnapshot"
              /\ SnapshotRequests(figs)[i].fig \in figs
<1>1. IsFiniteSet(figs)
  BY FeedFigures, FS_Subset
<1>2. Cardinality(figs) \in Nat /\ Bijection(1..Cardinality(figs), figs) # {}
  BY <1>1, FS_CardinalityType DEF ExistsBijection
<1>3. PICK f \in [1..Cardinality(figs) -> figs] : IsInjective(f)
  BY <1>2 DEF Bijection, Injection
<1>4. SetToSeq(figs) \in [1..Cardinality(figs) -> figs]
  BY <1>3 DEF SetToSeq
<1>5. PICK s : s = SetToSeq(figs)
  OBVIOUS
<1>6. s \in Seq(figs) /\ Len(s) \in Nat
  BY <1>2, <1>4, <1>5
<1>7. \A i \in 1..Len(s) : s[i] \in Figures /\ s[i] \in figs
  BY <1>6
<1>8. SnapshotRequests(figs) = [i \in 1..Len(s) |-> Req("getSnapshot", s[i], 0, FALSE)]
  BY <1>5, Zenon DEF SnapshotRequests
<1>9. \A i \in 1..Len(s) : /\ Req("getSnapshot", s[i], 0, FALSE) \in Request
                           /\ Req("getSnapshot", s[i], 0, FALSE).type = "getSnapshot"
                           /\ Req("getSnapshot", s[i], 0, FALSE).fig \in figs
  BY <1>7 DEF Req, Request, RequestTypes
<1>10. PICK t : t = SnapshotRequests(figs)
  OBVIOUS
<1>11. t \in [1..Len(s) -> Request] /\ \A i \in 1..Len(s) : t[i].type = "getSnapshot" /\ t[i].fig \in figs
  BY <1>8, <1>9, <1>10
<1>12. t \in Seq(Request) /\ Len(t) = Len(s)
  BY <1>6, <1>11
<1> QED
  BY <1>10, <1>11, <1>12

\* They leave out none of the Figures.
LEMMA SnapshotRequestsCover ==
  ASSUME NEW figs \in SUBSET Figures, NEW f \in figs
  PROVE  \E i \in 1..Len(SnapshotRequests(figs)) : SnapshotRequests(figs)[i].fig = f
<1>1. IsFiniteSet(figs)
  BY FeedFigures, FS_Subset
<1>2. PICK n \in Nat : n = Cardinality(figs) /\ Bijection(1..n, figs) # {}
  BY <1>1, FS_CardinalityType DEF ExistsBijection
<1>3. PICK h \in [1..n -> figs] : IsInjective(h)
  BY <1>2 DEF Bijection, Injection
<1>4. PICK s : s = SetToSeq(figs)
  OBVIOUS
<1>5. s \in [1..n -> figs] /\ IsInjective(s)
  BY <1>2, <1>3, <1>4 DEF SetToSeq
<1>6. s \in Injection(1..n, figs)
  BY <1>5 DEF Injection
<1>7. Cardinality(1..n) = n
  <2>1. Cardinality(1..n) = IF 1 > n THEN 0 ELSE n - 1 + 1
    BY FS_Interval
  <2> QED
    BY <2>1
<1>8. s \in Surjection(1..n, figs)
  BY <1>1, <1>2, <1>6, <1>7, FS_Injection
<1>9. PICK i \in 1..n : s[i] = f
  BY <1>8 DEF Surjection
<1>10. s \in Seq(figs) /\ Len(s) = n
  BY <1>5
<1>11. PICK t : t = SnapshotRequests(figs)
  OBVIOUS
<1>12. t = [j \in 1..n |-> Req("getSnapshot", s[j], 0, FALSE)]
  BY <1>4, <1>10, <1>11 DEF SnapshotRequests
<1>13. t[i].fig = f /\ Len(t) = n
  BY <1>9, <1>12 DEF Req
<1> QED
  BY <1>9, <1>11, <1>13
----------------------------------------------------------------------------
(* Every step keeps the invariant.                                         *)

\* What a step of the kernel leaves alone.
LEMMA KernelKeeps ==
  ASSUME FeedInv, UNCHANGED <<server, requests, wire, mirror, asked, drops, fault>>,
         revision' \in [Figures -> Nat], open' \in [Figures -> BOOLEAN],
         pending' \in Seq(Delta), batch' \in Seq(Delta), events' \in Seq(Event),
         Len(events) <= Len(events'), notices' \subseteq Figures, announced' \subseteq Figures,
         xpc' \in {"idle", "run", "taken"}, transactions' \in Nat, failures' \in Nat,
         \A f \in Figures : revision[f] <= revision'[f] /\ (open'[f] => revision'[f] > 0),
         Changing(revision', pending', batch', events')
  PROVE  FeedInv'
<1>1. DataTypes'
  BY DEF FeedInv, DataTypes, server, mirror
<1>2. ControlTypes'
  BY DEF FeedInv, ControlTypes, server, mirror
<1>3. JournalInv'
  BY DEF JournalInv
<1>4. Carried(wire, shown, revision')
  BY CarriedLater DEF FeedInv, DataTypes, WireInv
<1>5. \A f \in Figures : shown[f] <= revision'[f]
  <2> SUFFICES ASSUME NEW f \in Figures PROVE shown[f] <= revision'[f]
    OBVIOUS
  <2>1. shown[f] \in Nat /\ revision[f] \in Nat /\ revision'[f] \in Nat
    BY DEF FeedInv, DataTypes
  <2> QED
    BY <2>1 DEF FeedInv, WireInv
<1>6. WireInv'
  BY <1>4, <1>5 DEF FeedInv, WireInv, mirror
<1> QED
  BY <1>1, <1>2, <1>3, <1>6 DEF FeedInv

\* Create, Mutate and KernelClose commit one change.
LEMMA TransactionKeeps ==
  ASSUME FeedInv, NEW op, NEW f \in Figures, NEW closing \in BOOLEAN, Transaction(op, f, closing),
         notices' \subseteq Figures
  PROVE  FeedInv'
<1>1. /\ revision' = [revision EXCEPT ![f] = @ + 1]
      /\ open' = [open EXCEPT ![f] = ~closing]
      /\ pending' = Append(pending, Committed(<<f, revision[f], closing>>))
      /\ xpc' = "run" /\ transactions' = transactions + 1
      /\ UNCHANGED <<batch, events, server, requests, wire, announced, mirror, asked, failures,
                      drops, fault>>
  BY DEF Transaction
<1>2. /\ pending \in Seq(Delta) /\ batch \in Seq(Delta) /\ events \in Seq(Event)
      /\ revision \in [Figures -> Nat] /\ open \in [Figures -> BOOLEAN]
      /\ Changing(revision, pending, batch, events)
      /\ announced \subseteq Figures /\ transactions \in Nat /\ failures \in Nat
      /\ \A g \in Figures : open[g] => revision[g] > 0
  BY DEF FeedInv, DataTypes, ControlTypes, JournalInv
<1>3. /\ pending' \in Seq(Delta) /\ revision' \in [Figures -> Nat]
      /\ revision'[f] = revision[f] + 1
      /\ \A g \in Figures : revision[g] <= revision'[g] /\ (g # f => revision'[g] = revision[g])
      /\ Changing(revision', pending', batch, events)
  <2>a. PICK own : own = Committed(<<f, revision[f], closing>>)
    OBVIOUS
  <2>0. own \in Delta /\ own.fig = f /\ own.base = revision[f]
    BY <1>2, <2>a DEF Committed, Delta
  <2>1. PICK ds : ds = Append(pending, own)
    OBVIOUS
  <2>2. PICK now : now = [revision EXCEPT ![f] = @ + 1]
    OBVIOUS
  <2>3. /\ ds \in Seq(Delta) /\ now \in [Figures -> Nat] /\ now[f] = revision[f] + 1
        /\ \A g \in Figures : revision[g] <= now[g] /\ (g # f => now[g] = revision[g])
        /\ Changing(now, ds, batch, events)
    <3>1. /\ pending \in Seq(Delta) /\ batch \in Seq(Delta) /\ events \in Seq(Event)
          /\ revision \in [Figures -> Nat] /\ Changing(revision, pending, batch, events)
      BY <1>2
    <3>2. ds \in Seq(Delta)
      BY <2>0, <2>1, <3>1
    <3>3. /\ now \in [Figures -> Nat] /\ now[f] = revision[f] + 1
          /\ \A g \in Figures : revision[g] <= now[g] /\ (g # f => now[g] = revision[g])
      BY <2>2, <3>1
    <3>4. Changing(now, ds, batch, events)
      BY <2>0, <2>1, <3>1, <3>3, CommitJoins
    <3> QED
      BY <3>2, <3>3, <3>4
  <2>4. pending' = ds /\ revision' = now
    BY <1>1, <2>a, <2>1, <2>2
  <2> QED
    BY <2>3, <2>4
<1>4. \A g \in Figures : open'[g] => revision'[g] > 0
  <2> SUFFICES ASSUME NEW g \in Figures, open'[g] PROVE revision'[g] > 0
    OBVIOUS
  <2>1. CASE g = f
    BY <1>2, <1>3, <2>1
  <2>2. CASE g # f
    BY <1>1, <1>2, <1>3, <2>2
  <2> QED
    BY <2>1, <2>2
<1>5. open' \in [Figures -> BOOLEAN]
  BY <1>1, <1>2
<1>6. Len(events) <= Len(events') /\ events' \in Seq(Event) /\ batch' \in Seq(Delta)
  BY <1>1, <1>2
<1>7. Changing(revision', pending', batch', events')
  BY <1>1, <1>3
<1>8. transactions' \in Nat /\ failures' \in Nat /\ announced' \subseteq Figures /\ xpc' \in {"idle", "run", "taken"}
  BY <1>1, <1>2
<1> QED
  BY <1>1, <1>3, <1>4, <1>5, <1>6, <1>7, <1>8, KernelKeeps

\* The deltas of a batch that is published are drawn from it.
LEMMA PublishedDrawn ==
  ASSUME NEW ds \in Seq(Delta), NEW new \in Published(ds)
  PROVE  /\ Drawn(new, ds)
         /\ \A i \in 1..Len(new) : new[i].kind = IF open[new[i].fig] THEN "delta" ELSE "closed"
<1>1. PICK h \in InOrder(Kept(ds)) :
        new = [i \in DOMAIN h |-> EventOf(ds[h[i]], IF open[ds[h[i]].fig] THEN "delta" ELSE "closed")]
  BY DEF Published
<1>2. Kept(ds) \in SUBSET (1..Len(ds))
  BY DEF Kept
<1> DEFINE k == [i \in DOMAIN h |-> IF open[ds[h[i]].fig] THEN "delta" ELSE "closed"]
<1>3. \A i \in DOMAIN h : /\ k[i] = (IF open[ds[h[i]].fig] THEN "delta" ELSE "closed")
                           /\ k[i] \in {"delta", "closed"}
  OBVIOUS
<1>4. new = [i \in DOMAIN h |-> EventOf(ds[h[i]], k[i])]
  BY <1>1, <1>3
<1> HIDE DEF k
<1>5. /\ Drawn(new, ds) /\ DOMAIN h = 1..Len(new)
      /\ \A i \in 1..Len(new) : new[i].kind = k[i] /\ new[i].fig = ds[h[i]].fig
  BY <1>2, <1>3, <1>4, EventsDrawn
<1> QED
  BY <1>3, <1>5

\* TakeDeltas, Publish and PublishFails.
LEMMA PublicationKeeps ==
  ASSUME FeedInv, TakeDeltas \/ Publish \/ PublishFails
  PROVE  FeedInv'
<1>1. /\ pending \in Seq(Delta) /\ batch \in Seq(Delta) /\ events \in Seq(Event)
      /\ revision \in [Figures -> Nat] /\ open \in [Figures -> BOOLEAN]
      /\ Changing(revision, pending, batch, events)
      /\ announced \subseteq Figures /\ notices \subseteq Figures
      /\ transactions \in Nat /\ failures \in Nat
      /\ \A g \in Figures : revision[g] \in Nat /\ (open[g] => revision[g] > 0)
  BY DEF FeedInv, DataTypes, ControlTypes, JournalInv
<1>2. CASE TakeDeltas
  <2>1. Changing(revision, <<>>, pending, events)
    <3>1. Past(<<>>, revision) /\ Once(<<>>) /\ Apart(<<>>, pending) /\ Apart(<<>>, events)
      BY DEF Past, Once, Apart
    <3> QED
      BY <1>1, <3>1 DEF Changing
  <2>2. Changing(revision', pending', batch', events')
    BY <1>2, <2>1, Zenon DEF TakeDeltas
  <2>3. pending' \in Seq(Delta) /\ batch' \in Seq(Delta)
    BY <1>1, <1>2 DEF TakeDeltas
  <2> QED
    BY <1>1, <1>2, <2>2, <2>3, KernelKeeps DEF TakeDeltas, bounds
<1>3. ASSUME NEW new, Drawn(new, batch), events' = events \o new, pending' = pending, batch' = <<>>,
             revision' = revision
      PROVE  /\ events' \in Seq(Event) /\ Len(events) <= Len(events') /\ batch' \in Seq(Delta)
             /\ Changing(revision', pending', batch', events')
  <2>1. PICK r : r = events \o new
    OBVIOUS
  <2>e. PICK e : e = <<>>
    OBVIOUS
  <2>2. /\ r \in Seq(Event) /\ Len(r) = Len(events) + Len(new) /\ Len(new) \in Nat
        /\ Changing(revision, pending, e, r)
    <3>1. /\ pending \in Seq(Delta) /\ batch \in Seq(Delta) /\ events \in Seq(Event)
          /\ Changing(revision, pending, batch, events) /\ Drawn(new, batch)
      BY <1>1, <1>3
    <3>2. r \in Seq(Event) 
      BY <3>1, <2>1, <2>e, DrawnMoves
    <3>3. Changing(revision, pending, e, r)
      BY <3>1, <2>1, <2>e, DrawnMoves
    <3>4. Len(r) = Len(events) + Len(new) /\ Len(new) \in Nat
      BY <3>1, <2>1, <2>e, DrawnMoves
    <3> QED
      BY <3>2, <3>3, <3>4
  <2>3. Len(events) \in Nat
    BY <1>1
  <2>4. Changing(revision', pending', batch', events')
    BY <1>3, <2>1, <2>2, <2>e, Zenon
  <2> QED
    BY <1>3, <2>1, <2>2, <2>3, <2>4
<1>4. CASE Publish
  <2>1. PICK new \in Published(batch) : events' = events \o new
    BY <1>4 DEF Publish
  <2>2. Drawn(new, batch)
    BY <1>1, PublishedDrawn
  <2>3. /\ UNCHANGED <<revision, open, pending, server, requests, wire, mirror, bounds, fault>>
        /\ batch' = <<>> /\ notices' = {} /\ xpc' = "idle" /\ announced' = announced \cup notices
    BY <1>4 DEF Publish, session
  <2>4. /\ events' \in Seq(Event) /\ Len(events) <= Len(events') /\ batch' \in Seq(Delta)
        /\ Changing(revision', pending', batch', events')
    BY <1>3, <2>1, <2>2, <2>3
  <2> QED
    BY <1>1, <2>3, <2>4, KernelKeeps DEF bounds
<1>5. CASE PublishFails
  <2>0. PICK new \in Published(batch) : \E n \in 0..Len(new) - 1 : events' = events \o SubSeq(new, 1, n)
    BY <1>5 DEF PublishFails
  <2>1. PICK n \in 0..Len(new) - 1 : events' = events \o SubSeq(new, 1, n)
    BY <2>0
  <2>2. Drawn(new, batch)
    BY <1>1, PublishedDrawn
  <2>3. Len(new) \in Nat /\ n \in Nat /\ n <= Len(new)
    BY <2>1, <2>2 DEF Drawn
  <2>4. PICK part : part = SubSeq(new, 1, n)
    OBVIOUS
  <2>5. Drawn(part, batch) /\ events' = events \o part
    BY <1>1, <2>1, <2>2, <2>3, <2>4, PrefixDrawn
  <2>6. /\ UNCHANGED <<revision, open, pending, server, requests, wire, mirror, fault, announced,
                        transactions, asked, drops>>
        /\ batch' = <<>> /\ notices' = {} /\ xpc' = "idle" /\ failures' = failures + 1
    BY <1>5 DEF PublishFails, session
  <2>7. /\ events' \in Seq(Event) /\ Len(events) <= Len(events') /\ batch' \in Seq(Delta)
        /\ Changing(revision', pending', batch', events')
    BY <1>3, <2>5, <2>6
  <2>8. failures' \in Nat
    BY <1>1, <2>6
  <2> QED
    BY <1>1, <2>6, <2>7, <2>8, KernelKeeps
<1> QED
  BY <1>2, <1>4, <1>5

\* What a step of the graphics connection leaves alone.
LEMMA ServerStep ==
  ASSUME FeedInv, UNCHANGED <<kernel, announced, mirror, transactions, asked, drops>>, failures' \in Nat,
         revision' \in [Figures -> Nat], open' \in [Figures -> BOOLEAN],
         pending' \in Seq(Delta), events' \in Seq(Event), requests' \in Seq(Request),
         cursor' \in Nat, cursor' <= Len(events'), attached' \in BOOLEAN, polled' \in BOOLEAN,
         \A f \in Figures : revision[f] <= revision'[f] /\ (open'[f] => revision'[f] > 0),
         Changing(revision', pending', batch, events'),
         NEW t \in Seq(Message), wire' = wire \o t, Answering(t, revision, revision'), fault' = FALSE
  PROVE  FeedInv'
<1>1. /\ wire \in Seq(Message) /\ shown \in [Figures -> Nat] /\ revision \in [Figures -> Nat]
      /\ \A f \in Figures : shown[f] <= revision[f]
      /\ Carried(wire, shown, revision) /\ Ordered(wire) /\ Acknowledged(wire)
  BY DEF FeedInv, DataTypes, WireInv
<1>2. PICK r, now : r = wire \o t /\ now = revision'
  OBVIOUS
<1>3. r \in Seq(Message)
  BY <1>1, <1>2
<1>4. now \in [Figures -> Nat] /\ Answering(t, revision, now) /\ \A f \in Figures : revision[f] <= now[f] /\ shown[f] <= revision[f]
  BY <1>1, <1>2
<1>5. Carried(r, shown, now)
  BY <1>1, <1>2, <1>4, WireGrows
<1>6. Ordered(r)
  BY <1>1, <1>2, <1>4, WireGrowsInOrder
<1>7. Acknowledged(r)
  BY <1>1, <1>2, <1>4, WireGrowsInOrder
<1>8. \A f \in Figures : shown[f] <= now[f]
  <2> SUFFICES ASSUME NEW f \in Figures PROVE shown[f] <= now[f]
    OBVIOUS
  <2>1. shown[f] \in Nat /\ revision[f] \in Nat /\ now[f] \in Nat
    BY <1>1, <1>4
  <2> QED
    BY <1>4, <2>1
<1>9. wire' = r /\ revision' = now /\ shown' = shown /\ batch' = batch
  BY <1>2 DEF mirror, kernel
<1>10. WireInv'
  BY <1>5, <1>6, <1>7, <1>8, <1>9 DEF WireInv
<1>11. JournalInv'
  BY <1>9 DEF JournalInv
<1>12. DataTypes'
  BY <1>3, <1>9 DEF FeedInv, DataTypes, kernel, mirror
<1>13. ControlTypes'
  BY DEF FeedInv, ControlTypes, kernel, mirror
<1> QED
  BY <1>10, <1>11, <1>12, <1>13 DEF FeedInv

\* A step that counts no failure.
LEMMA ServerKeeps ==
  ASSUME FeedInv, UNCHANGED <<kernel, announced, mirror, bounds>>,
         revision' \in [Figures -> Nat], open' \in [Figures -> BOOLEAN],
         pending' \in Seq(Delta), events' \in Seq(Event), requests' \in Seq(Request),
         cursor' \in Nat, cursor' <= Len(events'), attached' \in BOOLEAN, polled' \in BOOLEAN,
         \A f \in Figures : revision[f] <= revision'[f] /\ (open'[f] => revision'[f] > 0),
         Changing(revision', pending', batch, events'),
         NEW t \in Seq(Message), wire' = wire \o t, Answering(t, revision, revision'), fault' = FALSE
  PROVE  FeedInv'
<1>1. UNCHANGED <<transactions, asked, drops>> /\ failures' \in Nat
  BY DEF FeedInv, ControlTypes, bounds
<1> QED
  BY <1>1, ServerStep

\* A step that answers without changing the session.
LEMMA AnswerKeeps ==
  ASSUME FeedInv, UNCHANGED <<session, kernel, events, announced, mirror, bounds, fault>>,
         requests' \in Seq(Request), cursor' \in Nat, cursor' <= Len(events),
         attached' \in BOOLEAN, polled' \in BOOLEAN,
         NEW t \in Seq(Message), wire' = wire \o t, Answering(t, revision, revision)
  PROVE  FeedInv'
<1>1. /\ revision \in [Figures -> Nat] /\ open \in [Figures -> BOOLEAN]
      /\ pending \in Seq(Delta) /\ events \in Seq(Event)
      /\ \A f \in Figures : revision[f] <= revision[f] /\ (open[f] => revision[f] > 0)
      /\ Changing(revision, pending, batch, events) /\ fault = FALSE
  BY DEF FeedInv, DataTypes, JournalInv
<1>2. UNCHANGED <<revision, open, pending, events, fault>>
  BY DEF session
<1> QED
  BY <1>1, <1>2, ServerKeeps

\* One message.
LEMMA OneMessage ==
  ASSUME NEW m \in Message, NEW t, t = <<m>>
  PROVE  t \in Seq(Message) /\ Len(t) = 1 /\ t[1] = m /\ \A i \in 1..Len(t) : i = 1 /\ t[i] = m
OBVIOUS

\* The next request.
LEMMA NextRequest ==
  ASSUME FeedInv, NEW type, Handling(type)
  PROVE  /\ requests # <<>> /\ Head(requests) \in Request /\ requests' = Tail(requests)
         /\ requests' \in Seq(Request) /\ Head(requests).type = type
         /\ Head(requests).fig \in Figures
<1>1. requests \in Seq(Request) /\ requests # <<>> /\ requests' = Tail(requests) /\ Head(requests).type = type
  BY DEF Handling, FeedInv, DataTypes
<1>2. Head(requests) \in Request /\ Tail(requests) \in Seq(Request)
  BY <1>1
<1>3. \A x \in Request : x.fig \in Figures
  BY DEF Request
<1> QED
  BY <1>1, <1>2, <1>3

\* Poll and Idle.
LEMMA PollKeeps ==
  ASSUME FeedInv, Poll \/ Idle
  PROVE  FeedInv'
<1>1. /\ events \in Seq(Event) /\ cursor \in Nat /\ cursor <= Len(events) /\ Len(events) \in Nat
      /\ requests \in Seq(Request) /\ wire \in Seq(Message) /\ attached \in BOOLEAN
      /\ Past(events, revision)
  BY DEF FeedInv, DataTypes, ControlTypes, JournalInv, Changing
<1>2. CASE Poll
  <2>1. PICK t : t = After(events, cursor)
    OBVIOUS
  <2>a. t \in Seq(Message)
    BY <1>1, <2>1, AfterPlaces
  <2>2. \A i \in 1..Len(t) : cursor + i \in 1..Len(events) /\ t[i] = events[cursor + i] /\ t[i] \in Event
    BY <1>1, <2>1, AfterPlaces
  <2>3. Answering(t, revision, revision)
    <3> SUFFICES ASSUME NEW i \in 1..Len(t)
                 PROVE  /\ t[i].kind = "delta" => t[i].base < revision[t[i].fig]
                        /\ t[i].kind # "snapshot" /\ t[i].kind # "committed"
      BY DEF Answering
    <3>1. t[i].base < revision[t[i].fig]
      BY <1>1, <2>2 DEF Past
    <3>2. t[i].kind \in {"delta", "closed"}
      BY <2>2 DEF Event
    <3> QED
      BY <3>1, <3>2
  <2>4. /\ wire' = wire \o t /\ cursor' = Len(events) /\ polled' = TRUE /\ attached' = attached
        /\ UNCHANGED <<session, kernel, events, announced, mirror, bounds, fault, requests>>
    BY <1>2, <2>1 DEF Poll
  <2>5. attached' \in BOOLEAN /\ polled' \in BOOLEAN
    BY <1>1, <2>4, Zenon
  <2>6. cursor' \in Nat /\ cursor' <= Len(events) /\ requests' \in Seq(Request)
    BY <1>1, <2>4
  <2> QED
    BY <2>a, <2>3, <2>4, <2>5, <2>6, AnswerKeeps
<1>3. CASE Idle
  <2>1. PICK t : t = <<>>
    OBVIOUS
  <2>2. t \in Seq(Message) /\ wire = wire \o t /\ Len(t) = 0
    BY <1>1, <2>1
  <2>3. Answering(t, revision, revision)
    BY <2>2 DEF Answering
  <2>4. /\ wire' = wire \o t /\ UNCHANGED <<cursor, attached, requests>> /\ polled' = FALSE
        /\ UNCHANGED <<session, kernel, events, announced, mirror, bounds, fault>>
    BY <1>3, <2>2 DEF Idle
  <2> QED
    BY <1>1, <2>2, <2>3, <2>4, AnswerKeeps
<1> QED
  BY <1>2, <1>3

\* HandleInitialize, HandleSnapshot and RefuseMutation.
LEMMA ReplyKeeps ==
  ASSUME FeedInv, HandleInitialize \/ HandleSnapshot \/ RefuseMutation
  PROVE  FeedInv'
<1>1. /\ events \in Seq(Event) /\ cursor \in Nat /\ cursor <= Len(events) /\ Len(events) \in Nat
      /\ attached \in BOOLEAN /\ revision \in [Figures -> Nat]
  BY DEF FeedInv, DataTypes, ControlTypes
<1>2. CASE HandleInitialize
  <2>1. PICK m : m = View({f \in Figures : open[f]})
    OBVIOUS
  <2>2. m \in Message /\ m.kind = "view"
    BY <2>1 DEF View, Views, Message
  <2>3. PICK t : t = <<m>>
    OBVIOUS
  <2>4. t \in Seq(Message) /\ Answering(t, revision, revision)
    BY <2>2, <2>3, OneMessage DEF Answering
  <2>5. Handling("initialize")
    BY <1>2 DEF HandleInitialize
  <2>6. requests' \in Seq(Request)
    BY <2>5, NextRequest
  <2>7. /\ wire' = wire \o t /\ attached' = TRUE /\ cursor' = Len(events) /\ polled' = FALSE
        /\ UNCHANGED <<session, kernel, events, announced, mirror, bounds, fault>>
    BY <1>2, <2>1, <2>3, Zenon DEF HandleInitialize, Reply
  <2>8. attached' \in BOOLEAN /\ polled' \in BOOLEAN
    BY <2>7, Zenon
  <2>9. cursor' \in Nat /\ cursor' <= Len(events)
    BY <1>1, <2>7
  <2> QED
    BY <2>4, <2>6, <2>7, <2>8, <2>9, AnswerKeeps
<1>3. ASSUME NEW r \in Request, r = Head(requests), NEW k \in ResponseKinds, NEW n \in Nat,
             wire' = wire \o <<Response(k, r, n)>>, requests' \in Seq(Request),
             k = "snapshot" => n = revision[r.fig], k # "committed",
             polled' = FALSE, UNCHANGED <<session, kernel, events, attached, cursor, announced, mirror, bounds, fault>>
      PROVE  FeedInv'
  <2>1. PICK m : m = Response(k, r, n)
    OBVIOUS
  <2>2. m \in Responses /\ m.kind = k /\ m.rev = n /\ m.request = r
    BY <2>1 DEF Response, Responses
  <2>3. m \in Message
    BY <2>2 DEF Message
  <2>4. PICK t : t = <<m>>
    OBVIOUS
  <2>5. t \in Seq(Message) /\ \A i \in 1..Len(t) : i = 1 /\ t[i] = m
    BY <2>3, <2>4, OneMessage
  <2>6. Answering(t, revision, revision)
    <3> SUFFICES ASSUME NEW i \in 1..Len(t)
                 PROVE  /\ t[i].kind # "delta" /\ t[i].kind # "committed"
                        /\ t[i].kind = "snapshot" => i = 1 /\ t[i].rev = revision[t[i].request.fig]
      BY DEF Answering
    <3> QED
      BY <1>3, <2>2, <2>5 DEF ResponseKinds
  <2>7. wire' = wire \o t
    BY <1>3, <2>1, <2>4
  <2> QED
    BY <1>1, <1>3, <2>5, <2>6, <2>7, AnswerKeeps
<1>4. CASE HandleSnapshot
  <2>1. PICK type \in {"getSnapshot", "resyncFigure"} : Handling(type)
    BY <1>4 DEF HandleSnapshot
  <2>2. PICK r : r = Head(requests)
    OBVIOUS
  <2>3. r \in Request /\ r.fig \in Figures /\ requests' \in Seq(Request)
    BY <2>1, <2>2, NextRequest
  <2>4. PICK k : k = IF open[r.fig] THEN "snapshot" ELSE "failed"
    OBVIOUS
  <2>5. k \in ResponseKinds /\ k # "committed"
    BY <2>4 DEF ResponseKinds
  <2>6. PICK n : n = revision[r.fig]
    OBVIOUS
  <2>7. n \in Nat
    BY <1>1, <2>3, <2>6
  <2>8. /\ wire' = wire \o <<Response(k, r, n)>> /\ polled' = FALSE
        /\ UNCHANGED <<session, kernel, events, attached, cursor, announced, mirror, bounds, fault>>
    BY <1>4, <2>2, <2>4, <2>6, Zenon DEF HandleSnapshot, Reply
  <2> QED
    BY <1>3, <2>2, <2>3, <2>5, <2>6, <2>7, <2>8
<1>5. CASE RefuseMutation
  <2>1. PICK type \in {"closeFigure", "setAxesLimits"} : Handling(type)
    BY <1>5, Zenon DEF RefuseMutation
  <2>2. PICK r : r = Head(requests)
    OBVIOUS
  <2>3. r \in Request /\ r.fig \in Figures /\ requests' \in Seq(Request)
    BY <2>1, <2>2, NextRequest
  <2>4. PICK k : k = Refusal(r)
    OBVIOUS
  <2>5. k \in ResponseKinds /\ k # "committed" /\ k # "snapshot"
    BY <2>4 DEF ResponseKinds, Refusal
  <2>8. /\ wire' = wire \o <<Response(k, r, 0)>> /\ polled' = FALSE
        /\ UNCHANGED <<session, kernel, events, attached, cursor, announced, mirror, bounds, fault>>
    BY <1>5, <2>2, <2>4, Zenon DEF RefuseMutation, Reply
  <2> QED
    BY <1>3, <2>2, <2>3, <2>5, <2>8
<1> QED
  BY <1>2, <1>4, <1>5

\* What Drained holds: the pending deltas, then the own one.
LEMMA DrainedPlaces ==
  ASSUME FeedInv, NEW r \in Request, NEW closing \in BOOLEAN,
         NEW own, own = Committed(<<r.fig, revision[r.fig], closing>>),
         NEW ds, ds = Drained(r, closing)
  PROVE  /\ own \in Delta /\ own.fig = r.fig /\ own.base = revision[r.fig] /\ own.closing = closing
         /\ ds \in Seq(Delta) /\ Len(pending) \in Nat /\ Len(ds) = Len(pending) + 1
         /\ \A i \in 1..Len(pending) : i \in 1..Len(ds) /\ ds[i] = pending[i]
         /\ Len(ds) \in 1..Len(ds) /\ ds[Len(ds)] = own
         /\ \A i \in 1..Len(ds) : i \in 1..Len(pending) \/ i = Len(ds)
         /\ \A i \in 1..Len(pending) : ~(pending[i].fig = r.fig /\ pending[i].base = revision[r.fig])
         /\ ds = Append(pending, own)
<1>1. /\ r.fig \in Figures /\ revision \in [Figures -> Nat] /\ pending \in Seq(Delta)
      /\ Past(pending, revision)
  BY DEF FeedInv, DataTypes, JournalInv, Changing, Request
<1>2. own \in Delta /\ own.fig = r.fig /\ own.base = revision[r.fig] /\ own.closing = closing
  BY <1>1 DEF Committed, Delta
<1>3. ds = Append(pending, own)
  BY Zenon DEF Drained
<1>4. /\ ds \in Seq(Delta) /\ Len(pending) \in Nat /\ Len(ds) = Len(pending) + 1
      /\ \A i \in 1..Len(pending) : i \in 1..Len(ds) /\ ds[i] = pending[i]
      /\ Len(ds) \in 1..Len(ds) /\ ds[Len(ds)] = own
      /\ \A i \in 1..Len(ds) : i \in 1..Len(pending) \/ i = Len(ds)
  BY <1>1, <1>2, <1>3, AppendPlaces
<1>5. \A x \in Delta : x.fig \in Figures /\ x.base \in Nat
  BY DEF Delta
<1>6. \A i \in 1..Len(pending) : ~(pending[i].fig = r.fig /\ pending[i].base = revision[r.fig])
  BY <1>1, <1>5, CommitIsNew
<1> QED
  BY <1>2, <1>3, <1>4, <1>6

\* The session and the journal after a mutation of the renderer.
LEMMA CommitFacts ==
  ASSUME FeedInv, NEW r \in Request, NEW closing \in BOOLEAN, Commit(r, closing),
         NEW ds, ds = Drained(r, closing), NEW new, Drawn(new, ds), events' = events \o new
  PROVE  /\ revision' \in [Figures -> Nat] /\ open' \in [Figures -> BOOLEAN]
         /\ pending' \in Seq(Delta) /\ events' \in Seq(Event)
         /\ Len(events') = Len(events) + Len(new) /\ Len(new) \in Nat
         /\ \A f \in Figures : revision[f] <= revision'[f] /\ (open'[f] => revision'[f] > 0)
         /\ Changing(revision', pending', batch, events')
<1>1. /\ pending \in Seq(Delta) /\ batch \in Seq(Delta) /\ events \in Seq(Event)
      /\ revision \in [Figures -> Nat] /\ open \in [Figures -> BOOLEAN]
      /\ Changing(revision, pending, batch, events) /\ r.fig \in Figures
      /\ \A g \in Figures : open[g] => revision[g] > 0
  BY DEF FeedInv, DataTypes, JournalInv, Request
<1>2. /\ revision' = [revision EXCEPT ![r.fig] = @ + 1]
      /\ open' = [open EXCEPT ![r.fig] = ~closing]
      /\ pending' = <<>>
  BY DEF Commit
<1>3. PICK f \in Figures : f = r.fig
  BY <1>1
<1>4. PICK own : own = Committed(<<r.fig, revision[r.fig], closing>>)
  OBVIOUS
<1>5. own \in Delta /\ own.fig = f /\ own.base = revision[f] /\ ds = Append(pending, own) /\ ds \in Seq(Delta)
  BY <1>3, <1>4, DrainedPlaces
<1>6. PICK now : now = revision'
  OBVIOUS
<1>7. /\ now \in [Figures -> Nat] /\ now[f] = revision[f] + 1 /\ now[f] > 0
      /\ \A g \in Figures : revision[g] <= now[g] /\ (g # f => now[g] = revision[g])
  BY <1>1, <1>2, <1>3, <1>6
<1>8. Changing(now, ds, batch, events)
  <2>1. /\ pending \in Seq(Delta) /\ batch \in Seq(Delta) /\ events \in Seq(Event)
        /\ revision \in [Figures -> Nat] /\ Changing(revision, pending, batch, events)
    BY <1>1
  <2>2. own \in Delta /\ own.fig = f /\ own.base = revision[f]
    BY <1>5
  <2>3. PICK d : d = Append(pending, own)
    OBVIOUS
  <2>4. /\ now \in [Figures -> Nat] /\ now[f] = revision[f] + 1
        /\ \A g \in Figures : g # f => now[g] = revision[g]
    BY <1>7
  <2>5. Changing(now, d, batch, events)
    BY <2>1, <2>2, <2>3, <2>4, CommitJoins
  <2> QED
    BY <1>5, <2>3, <2>5
<1>9. PICK e, j : e = <<>> /\ j = events \o new
  OBVIOUS
<1>10. j \in Seq(Event)
  BY <1>1, <1>5, <1>9, DrawnMoves
<1>11. Len(j) = Len(events) + Len(new) /\ Len(new) \in Nat
  BY <1>1, <1>5, <1>9, DrawnMoves
<1>12. Changing(now, e, batch, j)
  BY <1>1, <1>5, <1>8, <1>9, DrawnMoves
<1>13. pending' \in Seq(Delta) /\ pending' = e /\ events' = j
  BY <1>2, <1>9
<1>14. open' \in [Figures -> BOOLEAN]
  BY <1>1, <1>2
<1>15. ASSUME NEW g \in Figures, open'[g] PROVE now[g] > 0
  <2>1. CASE g = f
    BY <1>7, <2>1
  <2>2. CASE g # f
    BY <1>1, <1>2, <1>3, <1>7, <1>15, <2>2
  <2> QED
    BY <2>1, <2>2
<1> QED
  BY <1>6, <1>7, <1>10, <1>11, <1>12, <1>13, <1>14, <1>15

\* What follows the creation of its Figure, as deltas.
LEMMA LaterDrawn ==
  ASSUME NEW ds \in Seq(Delta),
         NEW new \in {[i \in DOMAIN h |-> EventOf(ds[h[i]], "delta")] : h \in InOrder(Later(ds))}
  PROVE  Drawn(new, ds) /\ (Later(ds) # {} => Len(new) > 0)
<1>1. PICK kept : kept = Later(ds)
  OBVIOUS
<1>2. PICK h \in InOrder(kept) : new = [i \in DOMAIN h |-> EventOf(ds[h[i]], "delta")]
  BY <1>1
<1>3. kept \in SUBSET (1..Len(ds))
  BY <1>1 DEF Later
<1> DEFINE k == [i \in DOMAIN h |-> "delta"]
<1>4. \A i \in DOMAIN h : k[i] = "delta"
  OBVIOUS
<1>5. new = [i \in DOMAIN h |-> EventOf(ds[h[i]], k[i])]
  BY <1>2, <1>4
<1> HIDE DEF k
<1>6. \A i \in DOMAIN h : k[i] \in {"delta", "closed"}
  BY <1>4
<1>7. Drawn(new, ds)
  BY <1>3, <1>5, <1>6, EventsDrawn
<1>8. kept # {} => Len(new) > 0
  BY <1>3, <1>5, <1>6, EventsDrawn
<1> QED
  BY <1>1, <1>7, <1>8

\* The own delta of a mutation is one of them.
LEMMA LaterFollows ==
  ASSUME FeedInv, NEW r \in Request, NEW no \in BOOLEAN, NEW own, own = Committed(<<r.fig, revision[r.fig], no>>),
         NEW ds, ds = Drained(r, no), revision[r.fig] > 0,
         NEW new \in {[i \in DOMAIN h |-> EventOf(ds[h[i]], "delta")] : h \in InOrder(Later(ds))}
  PROVE  Drawn(new, ds) /\ Len(new) > 0
<1>1. own.base = revision[r.fig]
  BY DrainedPlaces
<1>2. ds \in Seq(Delta)
  BY DrainedPlaces
<1>3. Len(ds) \in 1..Len(ds) /\ ds[Len(ds)] = own
  BY DrainedPlaces
<1>4. Len(ds) \in Later(ds)
  BY <1>1, <1>3 DEF Later
<1> QED
  BY <1>2, <1>4, LaterDrawn

\* What limits and camera changes enter into the journal: at least their own.
LEMMA LimitsDrawn ==
  ASSUME FeedInv, NEW r \in Request, Current(r), NEW ds, ds = Drained(r, FALSE), NEW new \in LimitsEvents(r)
  PROVE  Drawn(new, ds) /\ Len(new) > 0
<1>1. PICK own, no : own = Committed(<<r.fig, revision[r.fig], no>>) /\ no = FALSE
  OBVIOUS
<1>2. no \in BOOLEAN /\ own = Committed(<<r.fig, revision[r.fig], no>>) /\ ds = Drained(r, no)
  BY <1>1, Zenon
<1>3. new \in {[i \in DOMAIN h |-> EventOf(ds[h[i]], "delta")] : h \in InOrder(Later(ds))}
  BY Zenon DEF LimitsEvents
<1>4. r.fig \in Figures /\ revision[r.fig] \in Nat /\ revision[r.fig] > 0
  BY DEF FeedInv, DataTypes, JournalInv, Current, Request
<1> QED
  BY <1>2, <1>3, <1>4, LaterFollows

\* What a close enters into the journal.
LEMMA CloseDrawn ==
  ASSUME FeedInv, NEW r \in Request, NEW ds, ds = Drained(r, TRUE), NEW new \in CloseEvents(r)
  PROVE  Drawn(new, ds)
<1>1. PICK own, yes : own = Committed(<<r.fig, revision[r.fig], TRUE>>) /\ yes = TRUE
  OBVIOUS
<1>2. yes \in BOOLEAN /\ own = Committed(<<r.fig, revision[r.fig], yes>>) /\ ds = Drained(r, yes)
  BY <1>1, Zenon
<1>3. ds \in Seq(Delta)
  BY <1>2, DrainedPlaces
<1>4. PICK kept : kept = {i \in 1..Len(ds) : ds[i] = own \/ ds[i].base > 0}
  OBVIOUS
<1>5. PICK h \in InOrder(kept) :
        new = [i \in DOMAIN h |-> EventOf(ds[h[i]], IF ds[h[i]] = own THEN "closed" ELSE "delta")]
  BY <1>1, <1>4, Zenon DEF CloseEvents
<1>6. h \in InOrder(kept) /\ kept \in SUBSET (1..Len(ds)) /\ ds \in Seq(Delta)
  BY <1>3, <1>4, <1>5
<1> DEFINE k == [i \in DOMAIN h |-> IF ds[h[i]] = own THEN "closed" ELSE "delta"]
<1>7. \A i \in DOMAIN h : k[i] = (IF ds[h[i]] = own THEN "closed" ELSE "delta")
  OBVIOUS
<1>8. new = [i \in DOMAIN h |-> EventOf(ds[h[i]], k[i])]
  BY <1>5, <1>7
<1> HIDE DEF k
<1>9. \A i \in DOMAIN h : k[i] \in {"delta", "closed"}
  BY <1>7
<1> QED
  BY <1>6, <1>8, <1>9, EventsDrawn

\* HandleLimits; the delta is there, once, and the journal moves.
LEMMA LimitsKeeps ==
  ASSUME FeedInv, HandleLimits
  PROVE  FeedInv'
<1>1. PICK r : r = Head(requests)
  OBVIOUS
<1>2. Handling("setAxesLimits") /\ Current(r) /\ Commit(r, FALSE)
  BY <1>1 DEF HandleLimits
<1>3. r \in Request /\ requests' \in Seq(Request) /\ r.fig \in Figures
  BY <1>1, <1>2, NextRequest
<1>4. PICK ds : ds = Drained(r, FALSE)
  OBVIOUS
<1>5. PICK new \in LimitsEvents(r) : events' = events \o new
  BY <1>1 DEF HandleLimits
<1>6. PICK own : own = Committed(<<r.fig, revision[r.fig], FALSE>>)
  OBVIOUS
<1>7. /\ own.fig = r.fig /\ own.base = revision[r.fig] /\ ds \in Seq(Delta)
      /\ Len(pending) \in Nat /\ Len(ds) = Len(pending) + 1
      /\ \A i \in 1..Len(pending) : i \in 1..Len(ds) /\ ds[i] = pending[i]
      /\ Len(ds) \in 1..Len(ds) /\ ds[Len(ds)] = own
      /\ \A i \in 1..Len(ds) : i \in 1..Len(pending) \/ i = Len(ds)
      /\ \A i \in 1..Len(pending) : ~(pending[i].fig = r.fig /\ pending[i].base = revision[r.fig])
  <2>1. PICK no \in BOOLEAN : no = FALSE
    OBVIOUS
  <2>2. own = Committed(<<r.fig, revision[r.fig], no>>) /\ ds = Drained(r, no)
    BY <1>4, <1>6, <2>1, Zenon
  <2> QED
    BY <1>3, <2>2, DrainedPlaces, SMTT(30)
<1>8. /\ events \in Seq(Event) /\ cursor \in Nat /\ cursor <= Len(events) /\ Len(events) \in Nat
      /\ attached \in BOOLEAN /\ revision \in [Figures -> Nat] /\ fault = FALSE
      /\ open \in [Figures -> BOOLEAN] /\ \A f \in Figures : open[f] => revision[f] > 0
  BY DEF FeedInv, DataTypes, ControlTypes, JournalInv
<1>11. Drawn(new, ds) /\ Len(new) > 0
  BY <1>2, <1>3, <1>4, LimitsDrawn
<1>12. /\ revision' \in [Figures -> Nat] /\ open' \in [Figures -> BOOLEAN]
       /\ pending' \in Seq(Delta) /\ events' \in Seq(Event)
       /\ Len(events') = Len(events) + Len(new) /\ Len(new) \in Nat
       /\ \A f \in Figures : revision[f] <= revision'[f] /\ (open'[f] => revision'[f] > 0)
       /\ Changing(revision', pending', batch, events')
  <2>1. PICK no \in BOOLEAN : no = FALSE
    OBVIOUS
  <2>2. Commit(r, no) /\ ds = Drained(r, no)
    BY <1>2, <1>4, <2>1, Zenon
  <2> QED
    BY <1>3, <1>5, <1>11, <2>2, CommitFacts
<1>13. cursor' = Len(events') /\ cursor' \in Nat /\ cursor' <= Len(events') /\ ~(Len(events') <= cursor)
  <2>1. cursor' = Len(events')
    BY DEF HandleLimits
  <2> QED
    BY <1>8, <1>11, <1>12, <2>1
<1>14. fault' = FALSE
  <2> DEFINE q == Head(requests)
             dq == Drained(q, FALSE)
             mine == {i \in 1..Len(dq) : dq[i].fig = q.fig /\ dq[i].base = revision[q.fig]}
  <2>a. fault' = (fault \/ (\A i \in mine : dq[i].base # q.expected)
                       \/ (\E i, j \in mine : i # j) \/ Len(events') <= cursor)
    BY Zenon DEF HandleLimits
  <2>b. q = r /\ dq = ds
    BY <1>1, <1>4, Zenon
  <2> HIDE DEF q, dq
  <2>c. mine = {i \in 1..Len(ds) : ds[i].fig = r.fig /\ ds[i].base = revision[r.fig]}
    BY <2>b
  <2> HIDE DEF mine
  <2>1. fault' = (fault \/ (\A i \in mine : ds[i].base # r.expected)
                       \/ (\E i, j \in mine : i # j) \/ Len(events') <= cursor)
    BY <2>a, <2>b, Zenon
  <2>2. Len(ds) \in mine /\ ds[Len(ds)].base = r.expected
    BY <1>2, <1>7, <2>c DEF Current
  <2>3. \A i \in mine : i = Len(ds)
    BY <1>7, <2>c
  <2>4. ~(\A i \in mine : ds[i].base # r.expected) /\ ~(\E i, j \in mine : i # j)
    BY <2>2, <2>3
  <2> QED
    BY <1>8, <1>13, <2>1, <2>4, Zenon
<1>15. PICK m : m = Response("committed", r, revision[r.fig] + 1)
  OBVIOUS
<1>16. m \in Message /\ m.kind = "committed" /\ m.request = r
  <2>1. revision[r.fig] + 1 \in Nat
    BY <1>3, <1>8
  <2>2. m \in Responses /\ m.kind = "committed" /\ m.request = r
    BY <1>3, <1>15, <2>1 DEF Response, Responses, ResponseKinds
  <2> QED
    BY <2>2 DEF Message
<1>17. PICK ev, now, a, b, t : ev = events' /\ now = revision' /\ a = <<m>> /\ b = After(ev, cursor) /\ t = a \o b
  OBVIOUS
<1>18. ev \in Seq(Event) /\ cursor <= Len(ev) /\ Past(ev, now)
  BY <1>8, <1>12, <1>17 DEF Changing
<1>19. b \in Seq(Message)
  BY <1>8, <1>17, <1>18, AfterPlaces
<1>20. \A i \in 1..Len(b) : cursor + i \in 1..Len(ev) /\ b[i] = ev[cursor + i] /\ b[i] \in Event
  BY <1>8, <1>17, <1>18, AfterPlaces
<1>21. a \in Seq(Message) /\ Len(a) = 1 /\ a[1] = m
  BY <1>16, <1>17, OneMessage
<1>22. /\ t \in Seq(Message)
       /\ \A i \in 1..Len(t) : \/ i \in 1..Len(a) /\ t[i] = a[i]
                               \/ i - Len(a) \in 1..Len(b) /\ t[i] = b[i - Len(a)]
  BY <1>17, <1>19, <1>21, JoinPlaces
<1>23. Answering(t, revision, now)
  <2> SUFFICES ASSUME NEW i \in 1..Len(t)
               PROVE  /\ t[i].kind = "delta" => t[i].base < now[t[i].fig]
                      /\ t[i].kind # "snapshot"
                      /\ t[i].kind = "committed" => i = 1 /\ t[i].request.expected = revision[t[i].request.fig]
    BY DEF Answering
  <2>1. CASE i \in 1..Len(a) /\ t[i] = a[i]
    <3>1. i = 1 /\ t[i] = m
      BY <1>21, <2>1
    <3>2. r.expected = revision[r.fig]
      BY <1>2 DEF Current
    <3> QED
      BY <1>16, <3>1, <3>2
  <2>2. CASE i - Len(a) \in 1..Len(b) /\ t[i] = b[i - Len(a)]
    <3>1. t[i].base < now[t[i].fig]
      BY <1>18, <1>20, <2>2 DEF Past
    <3>2. t[i].kind \in {"delta", "closed"}
      BY <1>20, <2>2 DEF Event
    <3> QED
      BY <3>1, <3>2
  <2> QED
    BY <1>22, <2>1, <2>2
<1>24. /\ wire' = wire \o t /\ polled' = FALSE /\ attached' = attached
       /\ UNCHANGED <<kernel, announced, mirror, bounds>>
  BY <1>1, <1>15, <1>17, Zenon DEF HandleLimits, Reply
<1>25. polled' \in BOOLEAN /\ attached' \in BOOLEAN
  BY <1>8, <1>24, Zenon
<1>26. Answering(t, revision, revision')
  BY <1>17, <1>23
<1> QED
  BY <1>3, <1>12, <1>13, <1>14, <1>22, <1>24, <1>25, <1>26, ServerKeeps

\* HandleClose.
LEMMA CloseKeeps ==
  ASSUME FeedInv, HandleClose
  PROVE  FeedInv'
<1>1. PICK r : r = Head(requests)
  OBVIOUS
<1>2. Handling("closeFigure") /\ Commit(r, TRUE)
  BY <1>1 DEF HandleClose
<1>3. r \in Request /\ requests' \in Seq(Request) /\ r.fig \in Figures
  BY <1>1, <1>2, NextRequest
<1>4. PICK ds, own, yes : ds = Drained(r, TRUE) /\ own = Committed(<<r.fig, revision[r.fig], TRUE>>) /\ yes = TRUE
  OBVIOUS
<1>5. yes \in BOOLEAN /\ ds = Drained(r, yes) /\ own = Committed(<<r.fig, revision[r.fig], yes>>) /\ Commit(r, yes)
  BY <1>2, <1>4, Zenon
<1>6. own \in Delta /\ ds \in Seq(Delta)
  BY <1>3, <1>5, DrainedPlaces, SMTT(30)
<1>7. PICK new \in CloseEvents(r) : events' = events \o new
  BY <1>1 DEF HandleClose
<1>9. Drawn(new, ds)
  BY <1>3, <1>4, CloseDrawn
<1>10. /\ revision' \in [Figures -> Nat] /\ open' \in [Figures -> BOOLEAN]
       /\ pending' \in Seq(Delta) /\ events' \in Seq(Event)
       /\ Len(events') = Len(events) + Len(new) /\ Len(new) \in Nat
       /\ \A f \in Figures : revision[f] <= revision'[f] /\ (open'[f] => revision'[f] > 0)
       /\ Changing(revision', pending', batch, events')
  BY <1>3, <1>5, <1>7, <1>9, CommitFacts
<1>11. /\ events \in Seq(Event) /\ cursor \in Nat /\ Len(events) \in Nat
       /\ attached \in BOOLEAN /\ revision \in [Figures -> Nat] /\ fault = FALSE
  BY DEF FeedInv, DataTypes, ControlTypes
<1>12. PICK m1, m2, t : /\ m1 = Response("closing", r, revision[r.fig] + 1)
                        /\ m2 = EventOf(own, "closed") /\ t = <<m1, m2>>
  OBVIOUS
<1>13. m1 \in Message /\ m1.kind = "closing"
  <2>1. revision[r.fig] + 1 \in Nat
    BY <1>3, <1>11
  <2>2. m1 \in Responses /\ m1.kind = "closing"
    BY <1>3, <1>12, <2>1 DEF Response, Responses, ResponseKinds
  <2> QED
    BY <2>2 DEF Message
<1>14. m2 \in Message /\ m2.kind = "closed"
  <2>1. m2 \in Event /\ m2.kind = "closed"
    BY <1>6, <1>12 DEF EventOf, Event, Delta
  <2> QED
    BY <2>1 DEF Message
<1>15. t \in Seq(Message) /\ \A i \in 1..Len(t) : t[i] = m1 \/ t[i] = m2
  BY <1>12, <1>13, <1>14
<1>16. Answering(t, revision, revision')
  BY <1>13, <1>14, <1>15 DEF Answering
<1>17. /\ wire' = wire \o t /\ polled' = FALSE /\ attached' = attached /\ cursor' = Len(events')
       /\ UNCHANGED <<kernel, announced, mirror, bounds, fault>>
  BY <1>1, <1>4, <1>12, Zenon DEF HandleClose, Reply
<1>18. polled' \in BOOLEAN /\ attached' \in BOOLEAN /\ fault' = FALSE
  BY <1>11, <1>17, Zenon
<1>19. cursor' \in Nat /\ cursor' <= Len(events')
  BY <1>10, <1>11, <1>17
<1> QED
  BY <1>3, <1>10, <1>15, <1>16, <1>17, <1>18, <1>19, ServerKeeps

\* MutationFails: what was drained before the delta that fails is journaled.
LEMMA FailsKeeps ==
  ASSUME FeedInv, MutationFails
  PROVE  FeedInv'
<1>1. PICK r : r = Head(requests)
  OBVIOUS
<1>2. /\ Handling("setAxesLimits") \/ Handling("closeFigure")
      /\ wire' = wire \o <<Response("failed", r, 0)>> /\ polled' = FALSE /\ failures' = failures + 1
      /\ UNCHANGED <<kernel, announced, mirror, transactions, asked, drops, attached, cursor, fault>>
  BY <1>1 DEF MutationFails, Reply
<1>3. r \in Request /\ requests' \in Seq(Request)
  BY <1>1, <1>2, NextRequest
<1>4. /\ events \in Seq(Event) /\ cursor \in Nat /\ cursor <= Len(events) /\ Len(events) \in Nat
      /\ attached \in BOOLEAN /\ fault = FALSE /\ failures \in Nat
  BY DEF FeedInv, DataTypes, ControlTypes
<1>5. ASSUME NEW closing \in BOOLEAN, NEW ds, ds = Drained(r, closing), Commit(r, closing),
             NEW new, Drawn(new, ds), NEW n \in 0..Len(new), events' = events \o SubSeq(new, 1, n)
      PROVE  /\ revision' \in [Figures -> Nat] /\ open' \in [Figures -> BOOLEAN]
             /\ pending' \in Seq(Delta) /\ events' \in Seq(Event) /\ cursor <= Len(events')
             /\ \A f \in Figures : revision[f] <= revision'[f] /\ (open'[f] => revision'[f] > 0)
             /\ Changing(revision', pending', batch, events')
  <2>1. PICK part : part = SubSeq(new, 1, n)
    OBVIOUS
  <2>2. PICK own : own = Committed(<<r.fig, revision[r.fig], closing>>)
    OBVIOUS
  <2>3. ds \in Seq(Delta)
    BY <1>3, <1>5, <2>2, DrainedPlaces, SMTT(30)
  <2>4. Len(new) \in Nat /\ n \in Nat /\ n <= Len(new)
    BY <1>5 DEF Drawn
  <2>5. Drawn(part, ds)
    BY <1>5, <2>1, <2>3, <2>4, PrefixDrawn
  <2>6. events' = events \o part
    BY <1>5, <2>1
  <2>7. /\ revision' \in [Figures -> Nat] /\ open' \in [Figures -> BOOLEAN]
        /\ pending' \in Seq(Delta) /\ events' \in Seq(Event)
        /\ Len(events') = Len(events) + Len(part) /\ Len(part) \in Nat
        /\ \A f \in Figures : revision[f] <= revision'[f] /\ (open'[f] => revision'[f] > 0)
        /\ Changing(revision', pending', batch, events')
    BY <1>3, <1>5, <2>5, <2>6, CommitFacts
  <2> QED
    BY <1>4, <2>7
<1>6. /\ revision' \in [Figures -> Nat] /\ open' \in [Figures -> BOOLEAN]
      /\ pending' \in Seq(Delta) /\ events' \in Seq(Event) /\ cursor <= Len(events')
      /\ \A f \in Figures : revision[f] <= revision'[f] /\ (open'[f] => revision'[f] > 0)
      /\ Changing(revision', pending', batch, events')
  <2>1. CASE /\ Current(r) /\ Commit(r, FALSE)
             /\ \E new \in LimitsEvents(r) : \E n \in 0..Len(new) - 1 :
                  events' = events \o SubSeq(new, 1, n)
    <3>1. PICK new \in LimitsEvents(r) : \E n \in 0..Len(new) - 1 : events' = events \o SubSeq(new, 1, n)
      BY <2>1
    <3>2. PICK n \in 0..Len(new) - 1 : events' = events \o SubSeq(new, 1, n)
      BY <3>1
    <3>3. PICK ds, no : ds = Drained(r, FALSE) /\ no = FALSE
      OBVIOUS
    <3>4. no \in BOOLEAN /\ ds = Drained(r, no) /\ Commit(r, no)
      BY <2>1, <3>3, Zenon
    <3>5. Drawn(new, ds)
      BY <1>3, <2>1, <3>3, LimitsDrawn
    <3>6. n \in 0..Len(new)
      BY <3>2, <3>5 DEF Drawn
    <3> QED
      BY <1>5, <3>2, <3>4, <3>5, <3>6
  <2>2. CASE /\ Commit(r, TRUE)
             /\ \E new \in CloseEvents(r) : \E n \in 0..Len(new) - 2 :
                  events' = events \o SubSeq(new, 1, n)
    <3>1. PICK new \in CloseEvents(r) : \E n \in 0..Len(new) - 2 : events' = events \o SubSeq(new, 1, n)
      BY <2>2
    <3>2. PICK n \in 0..Len(new) - 2 : events' = events \o SubSeq(new, 1, n)
      BY <3>1
    <3>3. PICK ds, yes : ds = Drained(r, TRUE) /\ yes = TRUE
      OBVIOUS
    <3>4. yes \in BOOLEAN /\ ds = Drained(r, yes) /\ Commit(r, yes)
      BY <2>2, <3>3, Zenon
    <3>5. Drawn(new, ds)
      BY <1>3, <3>3, CloseDrawn
    <3>6. n \in 0..Len(new)
      BY <3>2, <3>5 DEF Drawn
    <3> QED
      BY <1>5, <3>2, <3>4, <3>5, <3>6
  <2> QED
    BY <1>1, <2>1, <2>2 DEF MutationFails
<1>7. PICK m : m = Response("failed", r, 0)
  OBVIOUS
<1>8. m \in Message /\ m.kind = "failed"
  <2>1. m \in Responses /\ m.kind = "failed"
    BY <1>3, <1>7 DEF Response, Responses, ResponseKinds
  <2> QED
    BY <2>1 DEF Message
<1>9. PICK t : t = <<m>>
  OBVIOUS
<1>10. t \in Seq(Message) /\ \A i \in 1..Len(t) : i = 1 /\ t[i] = m
  BY <1>8, <1>9, OneMessage
<1>11. wire' = wire \o t /\ t \in Seq(Message) /\ Answering(t, revision, revision')
  BY <1>2, <1>7, <1>8, <1>9, <1>10 DEF Answering
<1>12. polled' \in BOOLEAN /\ attached' \in BOOLEAN /\ fault' = FALSE
  BY <1>2, <1>4, Zenon
<1>13. failures' \in Nat /\ cursor' \in Nat /\ cursor' <= Len(events')
  BY <1>2, <1>4, <1>6
<1> QED
  BY <1>2, <1>3, <1>6, <1>11, <1>12, <1>13, ServerStep

\* What a step of the client leaves alone.
LEMMA ClientKeeps ==
  ASSUME FeedInv, UNCHANGED <<session, kernel, events, fault>>,
         requests' \in Seq(Request), wire' \in Seq(Message), announced' \subseteq Figures,
         cursor' \in Nat, cursor' <= Len(events), attached' \in BOOLEAN, polled' \in BOOLEAN,
         phase' \in {"disconnected", "initializing", "attached", "error"},
         records' \subseteq Figures, snapshotPending' \subseteq Figures, resyncPending' \subseteq Figures,
         closeRetry' \subseteq Figures, discoveries' \subseteq Figures,
         transactions' \in Nat, asked' \in Nat, failures' \in Nat, drops' \in Nat,
         shown' \in [Figures -> Nat], \A f \in Figures : shown'[f] <= revision[f],
         Carried(wire', shown', revision), Ordered(wire'), Acknowledged(wire')
  PROVE  FeedInv'
<1>1. DataTypes'
  BY DEF FeedInv, DataTypes, session, kernel
<1>2. ControlTypes'
  BY DEF FeedInv, ControlTypes, kernel
<1>3. JournalInv'
  BY DEF FeedInv, JournalInv, session, kernel
<1>4. WireInv'
  BY DEF WireInv, session
<1> QED
  BY <1>1, <1>2, <1>3, <1>4 DEF FeedInv

\* A message is received; the client may move to another revision.
LEMMA ReceiveKeeps ==
  ASSUME FeedInv, wire # <<>>, wire' = Tail(wire), UNCHANGED Elsewhere, requests' \in Seq(Request),
         phase' \in {"disconnected", "initializing", "attached", "error"},
         records' \subseteq Figures, snapshotPending' \subseteq Figures, resyncPending' \subseteq Figures,
         closeRetry' \subseteq Figures, discoveries' = discoveries,
         shown' \in [Figures -> Nat], \A f \in Figures : shown'[f] <= revision[f],
         Carried(wire', shown', revision)
  PROVE  FeedInv'
<1>1. /\ wire \in Seq(Message) /\ Ordered(wire) /\ Acknowledged(wire)
      /\ cursor \in Nat /\ cursor <= Len(events) /\ attached \in BOOLEAN /\ polled \in BOOLEAN
      /\ announced \subseteq Figures /\ discoveries \subseteq Figures
      /\ transactions \in Nat /\ asked \in Nat /\ failures \in Nat /\ drops \in Nat
  BY DEF FeedInv, DataTypes, ControlTypes, WireInv
<1>2. wire' \in Seq(Message)
  BY <1>1
<1>3. Ordered(wire')
  BY <1>1, WireShrinks
<1>4. Acknowledged(wire')
  BY <1>1, WireShrinks
<1>5. UNCHANGED <<session, kernel, events, fault, cursor, attached, polled, announced, transactions, asked,
                  failures, drops>>
  BY DEF Elsewhere, server, bounds
<1> QED
  BY <1>1, <1>2, <1>3, <1>4, <1>5, ClientKeeps

\* The first message, and what it leaves when the client shows what it did.
LEMMA Reception ==
  ASSUME FeedInv, wire # <<>>, NEW w, w = Tail(wire)
  PROVE  /\ Carried(w, shown, revision) /\ w \in Seq(Message)
         /\ Head(wire) = wire[1] /\ 1 \in 1..Len(wire) /\ wire \in Seq(Message)
         /\ shown \in [Figures -> Nat] /\ revision \in [Figures -> Nat]
         /\ \A f \in Figures : shown[f] <= revision[f]
         /\ \A i \in 1..Len(w) : i + 1 \in 1..Len(wire) /\ w[i] = wire[i + 1] /\ 1 < i + 1
<1>1. /\ wire \in Seq(Message) /\ Carried(wire, shown, revision)
      /\ shown \in [Figures -> Nat] /\ revision \in [Figures -> Nat]
      /\ \A f \in Figures : shown[f] <= revision[f]
  BY DEF FeedInv, DataTypes, WireInv
<1>2. Carried(w, shown, revision)
  BY <1>1, WireShrinks
<1>3. /\ w \in Seq(Message) /\ Len(wire) \in Nat /\ Len(wire) > 0 /\ Len(w) = Len(wire) - 1
      /\ Head(wire) = wire[1]
      /\ \A i \in 1..Len(w) : i + 1 \in 1..Len(wire) /\ w[i] = wire[i + 1]
  BY <1>1, TailPlaces
<1>4. 1 \in 1..Len(wire) /\ \A i \in 1..Len(w) : 1 < i + 1
  BY <1>3
<1> QED
  BY <1>1, <1>2, <1>3, <1>4

\* RequestSnapshots asks for Figures.
LEMMA RequestsTyped ==
  ASSUME FeedInv, NEW figs \in SUBSET Figures, NEW now, RequestSnapshots(figs, now)
  PROVE  requests' \in Seq(Request) /\ records' \subseteq Figures /\ snapshotPending' \subseteq Figures
<1>1. requests \in Seq(Request) /\ records \subseteq Figures /\ snapshotPending \subseteq Figures
  BY DEF FeedInv, DataTypes
<1>2. PICK ask : ask = IF now THEN figs \ snapshotPending ELSE {}
  OBVIOUS
<1>3. ask \in SUBSET Figures
  BY <1>2
<1>4. /\ records' = records \cup figs /\ snapshotPending' = snapshotPending \cup ask
      /\ requests' = requests \o SnapshotRequests(ask)
  BY <1>2, Zenon DEF RequestSnapshots, Send
<1>5. SnapshotRequests(ask) \in Seq(Request)
  BY <1>3, SnapshotRequestsTyped
<1> QED
  BY <1>1, <1>3, <1>4, <1>5

\* Sever leaves nothing under way.
LEMMA SeverKeeps ==
  ASSUME FeedInv, Sever, UNCHANGED <<session, kernel, events, announced, fault>>,
         transactions' \in Nat, asked' \in Nat, failures' \in Nat, drops' \in Nat
  PROVE  FeedInv'
<1>1. /\ announced \subseteq Figures /\ discoveries \subseteq Figures /\ records \subseteq Figures
      /\ shown \in [Figures -> Nat] /\ events \in Seq(Event)
      /\ \A f \in Figures : shown[f] <= revision[f]
  BY DEF FeedInv, DataTypes, WireInv
<1>2. /\ requests' = <<>> /\ wire' = <<>> /\ attached' = FALSE /\ polled' = FALSE /\ cursor' = 0
      /\ phase' = "disconnected" /\ snapshotPending' = {} /\ resyncPending' = {} /\ closeRetry' = {}
      /\ UNCHANGED <<shown, records, discoveries>>
  BY DEF Sever
<1>3. requests' \in Seq(Request) /\ wire' \in Seq(Message) /\ Len(wire') = 0
  BY <1>2
<1>4. Carried(wire', shown', revision) /\ Ordered(wire') /\ Acknowledged(wire')
  BY <1>3 DEF Carried, Ordered, Acknowledged
<1>5. cursor' \in Nat /\ cursor' <= Len(events)
  BY <1>1, <1>2
<1>6. attached' \in BOOLEAN /\ polled' \in BOOLEAN
  BY <1>2, Zenon
<1>7. /\ phase' \in {"disconnected", "initializing", "attached", "error"} /\ announced' \subseteq Figures
      /\ records' \subseteq Figures /\ snapshotPending' \subseteq Figures /\ resyncPending' \subseteq Figures
      /\ closeRetry' \subseteq Figures /\ discoveries' \subseteq Figures
      /\ shown' \in [Figures -> Nat] /\ \A f \in Figures : shown'[f] <= revision[f]
  BY <1>1, <1>2
<1> QED
  BY <1>3, <1>4, <1>5, <1>6, <1>7, ClientKeeps

\* One more request; or none.
LEMMA OneRequest ==
  ASSUME NEW s \in Seq(Request), NEW q \in Request
  PROVE  /\ s \o <<q>> \in Seq(Request) /\ Len(s \o <<q>>) = Len(s) + 1 /\ Len(s) \in Nat
         /\ \A i \in 1..Len(s) : i \in 1..Len(s \o <<q>>) /\ (s \o <<q>>)[i] = s[i]
         /\ (s \o <<q>>)[Len(s) + 1] = q
         /\ s \o <<>> = s
<1>1. PICK t : t = <<q>>
  OBVIOUS
<1>2. t \in Seq(Request) /\ Len(t) = 1 /\ t[1] = q
  BY <1>1
<1>3. PICK r : r = s \o t
  OBVIOUS
<1>4. Len(s) \in Nat
  OBVIOUS
<1>a. t \in Seq(Request)
  BY <1>2
<1>5. /\ r \in Seq(Request) /\ Len(r) = Len(s) + Len(t)
      /\ \A i \in 1..Len(s) : i \in 1..Len(r) /\ r[i] = s[i]
      /\ \A i \in 1..Len(t) : Len(s) + i \in 1..Len(r) /\ r[Len(s) + i] = t[i]
  BY <1>a, <1>3, JoinPlaces
<1>6. r[Len(s) + 1] = q /\ Len(r) = Len(s) + 1
  BY <1>2, <1>4, <1>5
<1>7. s \o <<>> = s
  OBVIOUS
<1> QED
  BY <1>1, <1>3, <1>4, <1>5, <1>6, <1>7, Zenon

\* Drop, Connect, Discover and UserRequest read nothing from the graphics socket.
LEMMA AskingKeeps ==
  ASSUME FeedInv,
         \/ Drop \/ Connect \/ \E f \in Figures : Discover(f)
         \/ \E f \in Figures : \E op : \E type \in RequestTypes : UserRequest(op, type, f)
  PROVE  FeedInv'
<1>1. /\ announced \subseteq Figures /\ discoveries \subseteq Figures /\ records \subseteq Figures
      /\ snapshotPending \subseteq Figures /\ resyncPending \subseteq Figures /\ closeRetry \subseteq Figures
      /\ shown \in [Figures -> Nat] /\ events \in Seq(Event) /\ wire \in Seq(Message)
      /\ requests \in Seq(Request) /\ cursor \in Nat /\ cursor <= Len(events)
      /\ attached \in BOOLEAN /\ polled \in BOOLEAN
      /\ phase \in {"disconnected", "initializing", "attached", "error"}
      /\ transactions \in Nat /\ asked \in Nat /\ failures \in Nat /\ drops \in Nat
      /\ \A f \in Figures : shown[f] <= revision[f]
      /\ Carried(wire, shown, revision) /\ Ordered(wire) /\ Acknowledged(wire)
  BY DEF FeedInv, DataTypes, ControlTypes, WireInv
<1>2. CASE Drop
  <2>1. /\ Sever /\ UNCHANGED <<session, kernel, events, announced, fault>>
        /\ transactions' \in Nat /\ asked' \in Nat /\ failures' \in Nat /\ drops' \in Nat
    BY <1>1, <1>2 DEF Drop
  <2> QED
    BY <2>1, SeverKeeps
<1>3. CASE Connect
  <2>1. PICK f \in discoveries : requests' = requests \o <<Req("initialize", f, 0, FALSE)>>
    BY <1>3 DEF Connect, Send
  <2>2. Req("initialize", f, 0, FALSE) \in Request
    BY <1>1, <2>1 DEF Req, Request, RequestTypes
  <2>a. PICK q : q = Req("initialize", f, 0, FALSE)
    OBVIOUS
  <2>3. requests' \in Seq(Request)
    BY <1>1, <2>1, <2>2, <2>a, OneRequest, Zenon
  <2>4. /\ phase' = "initializing"
        /\ UNCHANGED <<session, kernel, events, attached, cursor, polled, wire, announced, shown, records,
                 snapshotPending, resyncPending, closeRetry, discoveries, transactions, asked, failures,
                 drops, fault>>
    BY <1>3 DEF Connect, server, bounds
  <2> QED
    BY <1>1, <2>3, <2>4, ClientKeeps
<1>4. CASE \E f \in Figures : Discover(f)
  <2>1. PICK f \in Figures : Discover(f)
    BY <1>4
  <2>2. PICK figs, now : figs = {f} /\ now = (phase = "attached")
    OBVIOUS
  <2>3. RequestSnapshots(figs, now)
    BY <2>1, <2>2, Zenon DEF Discover
  <2>4. figs \in SUBSET Figures
    BY <2>1, <2>2
  <2>5. requests' \in Seq(Request) /\ records' \subseteq Figures /\ snapshotPending' \subseteq Figures
    BY <2>3, <2>4, RequestsTyped
  <2>6. /\ announced' \subseteq Figures /\ discoveries' \subseteq Figures
        /\ UNCHANGED <<session, kernel, events, attached, cursor, polled, wire, phase, shown,
                 resyncPending, closeRetry, transactions, asked, failures, drops, fault>>
    BY <1>1, <2>1 DEF Discover, server, bounds
  <2> QED
    BY <1>1, <2>5, <2>6, ClientKeeps
<1>5. CASE \E f \in Figures : \E op : \E type \in RequestTypes : UserRequest(op, type, f)
  <2>0. PICK f \in Figures : \E op : \E type \in RequestTypes : UserRequest(op, type, f)
    BY <1>5
  <2>a. PICK op : \E type \in RequestTypes : UserRequest(op, type, f)
    BY <2>0
  <2>1. PICK type \in RequestTypes : UserRequest(op, type, f)
    BY <2>a
  <2>2. requests' = requests \o <<Req(type, f, shown[f], FALSE)>>
    BY <2>1 DEF UserRequest, Send
  <2>3. Req(type, f, shown[f], FALSE) \in Request
    BY <1>1, <2>1 DEF Req, Request
  <2>b. PICK q : q = Req(type, f, shown[f], FALSE)
    OBVIOUS
  <2>4. requests' \in Seq(Request)
    BY <1>1, <2>2, <2>3, <2>b, OneRequest, Zenon
  <2>5. /\ asked' = asked + 1
        /\ UNCHANGED <<session, kernel, events, attached, cursor, polled, wire, announced, phase, shown, records,
                 snapshotPending, resyncPending, closeRetry, discoveries, transactions, failures,
                 drops, fault>>
    BY <2>1 DEF UserRequest, server, mirror
  <2>6. asked' \in Nat
    BY <1>1, <2>5
  <2> QED
    BY <1>1, <2>4, <2>5, <2>6, ClientKeeps
<1> QED
  BY <1>2, <1>3, <1>4, <1>5

\* Resync sends one request, or none when one is under way.
LEMMA ResyncTyped ==
  ASSUME FeedInv, NEW f \in Figures, Resync(f)
  PROVE  /\ requests' \in Seq(Request) /\ resyncPending' = resyncPending \cup {f}
         /\ resyncPending' \subseteq Figures
         /\ f \in resyncPending => requests' = requests
         /\ f \notin resyncPending => \E q \in Request :
              /\ q.type = "resyncFigure" /\ q.fig = f /\ requests' = requests \o <<q>>
<1>1. requests \in Seq(Request) /\ resyncPending \subseteq Figures /\ shown \in [Figures -> Nat]
  BY DEF FeedInv, DataTypes
<1>2. /\ resyncPending' = resyncPending \cup {f}
      /\ requests' = requests \o (IF f \in resyncPending THEN <<>>
                                   ELSE <<Req("resyncFigure", f, shown[f], FALSE)>>)
  BY Zenon DEF Resync, Send
<1>3. PICK q : q = Req("resyncFigure", f, shown[f], FALSE)
  OBVIOUS
<1>4. q \in Request /\ q.type = "resyncFigure" /\ q.fig = f
  BY <1>1, <1>3 DEF Req, Request, RequestTypes
<1>5. requests \o <<q>> \in Seq(Request) /\ requests \o <<>> = requests
  BY <1>1, <1>4, OneRequest
<1>6. CASE f \in resyncPending
  <2>1. requests' = requests
    BY <1>2, <1>5, <1>6, Zenon
  <2> QED
    BY <1>1, <1>2, <1>6, <2>1
<1>7. CASE f \notin resyncPending
  <2>1. requests' = requests \o <<q>>
    BY <1>2, <1>3, <1>7, Zenon
  <2>2. requests' \in Seq(Request)
    BY <1>5, <2>1, Zenon
  <2>3. resyncPending' \subseteq Figures
    BY <1>1, <1>2
  <2> QED
    BY <1>2, <1>4, <1>7, <2>1, <2>2, <2>3, Zenon
<1> QED
  BY <1>6, <1>7

\* AcceptInitialize, AcceptFailure, AcceptAcknowledgement: the mirror stays.
LEMMA AcceptKeeps ==
  ASSUME FeedInv, AcceptInitialize \/ AcceptFailure \/ AcceptAcknowledgement
  PROVE  FeedInv'
<1>1. /\ discoveries \subseteq Figures /\ records \subseteq Figures
      /\ snapshotPending \subseteq Figures /\ resyncPending \subseteq Figures /\ closeRetry \subseteq Figures
      /\ shown \in [Figures -> Nat] /\ requests \in Seq(Request)
      /\ phase \in {"disconnected", "initializing", "attached", "error"}
      /\ wire \in Seq(Message)
  BY DEF FeedInv, DataTypes, ControlTypes
<1>2. wire # <<>> /\ wire' = Tail(wire) /\ UNCHANGED <<shown, discoveries>> /\ UNCHANGED Elsewhere
  BY DEF AcceptInitialize, AcceptFailure, AcceptAcknowledgement, Receiving, Received, mirror
<1>3. PICK w : w = Tail(wire)
  OBVIOUS
<1>4. /\ Carried(w, shown, revision) /\ Head(wire) = wire[1] /\ 1 \in 1..Len(wire)
      /\ \A f \in Figures : shown[f] <= revision[f]
  BY <1>2, <1>3, Reception
<1>5. /\ shown' \in [Figures -> Nat] /\ (\A f \in Figures : shown'[f] <= revision[f])
      /\ Carried(wire', shown', revision)
  BY <1>1, <1>2, <1>3, <1>4
<1>6. CASE AcceptInitialize
  <2>1. PICK figs, yes : figs = Head(wire).figs \cup discoveries /\ yes = TRUE
    OBVIOUS
  <2>2. RequestSnapshots(figs, yes)
    BY <1>6, <2>1, Zenon DEF AcceptInitialize
  <2>3. wire[1].kind = "view"
    BY <1>4, <1>6 DEF AcceptInitialize, Receiving
  <2>4. wire[1].figs \subseteq Figures
    BY <1>1, <1>4, <2>3, MessageFields
  <2>5. figs \in SUBSET Figures
    BY <1>1, <1>4, <2>1, <2>4
  <2>6. requests' \in Seq(Request) /\ records' \subseteq Figures /\ snapshotPending' \subseteq Figures
    BY <2>2, <2>5, RequestsTyped
  <2>7. phase' = "attached" /\ UNCHANGED <<resyncPending, closeRetry>>
    BY <1>6 DEF AcceptInitialize
  <2> QED
    BY <1>1, <1>2, <1>5, <2>6, <2>7, ReceiveKeeps
<1>7. CASE AcceptFailure
  <2>1. PICK r : r = Head(wire).request
    OBVIOUS
  <2>2. wire[1].kind \in {"failed", "conflict"}
    BY <1>4, <1>7 DEF AcceptFailure, Receiving
  <2>3. wire[1].kind \in ResponseKinds
    BY <2>2 DEF ResponseKinds
  <2>4. r.fig \in Figures
    BY <1>1, <1>4, <2>1, <2>3, MessageFields
  <2>5. UNCHANGED <<records, snapshotPending>>
    BY <1>7 DEF AcceptFailure
  <2>6. CASE closeRetry' = closeRetry \cup {r.fig} /\ Resync(r.fig) /\ UNCHANGED phase
    <3>1. PICK f \in Figures : f = r.fig
      BY <2>4
    <3>2. Resync(f)
      BY <2>6, <3>1, Zenon
    <3>4. requests' \in Seq(Request) /\ resyncPending' \subseteq Figures
      BY <3>2, ResyncTyped
<3>5. closeRetry' \subseteq Figures /\ resyncPending' \subseteq Figures
      BY <1>1, <2>4, <2>6, <3>4
    <3>6. records' \subseteq Figures /\ snapshotPending' \subseteq Figures /\ discoveries' = discoveries
          /\ phase' \in {"disconnected", "initializing", "attached", "error"}
      BY <1>1, <1>2, <2>5, <2>6
    <3> QED
      BY <1>2, <1>5, <3>4, <3>5, <3>6, ReceiveKeeps
  <2>7. CASE /\ phase' = "error"
             /\ closeRetry' = IF r.type \in {"closeFigure", "resyncFigure"}
                               THEN closeRetry \ {r.fig} ELSE closeRetry
             /\ resyncPending' = IF r.type = "resyncFigure"
                                  THEN resyncPending \ {r.fig} ELSE resyncPending
             /\ Send(<<>>)
    <3>1. requests' = requests
      BY <1>1, <2>7 DEF Send
    <3>2. closeRetry' \subseteq Figures /\ resyncPending' \subseteq Figures
      BY <1>1, <2>7
    <3>3. /\ records' \subseteq Figures /\ snapshotPending' \subseteq Figures /\ discoveries' = discoveries
          /\ phase' \in {"disconnected", "initializing", "attached", "error"} /\ requests' \in Seq(Request)
      BY <1>1, <1>2, <2>5, <2>7, <3>1
    <3> QED
      BY <1>2, <1>5, <3>2, <3>3, ReceiveKeeps
  <2> QED
    BY <1>7, <2>1, <2>6, <2>7, Zenon DEF AcceptFailure
<1>8. CASE AcceptAcknowledgement
  <2>1. UNCHANGED <<requests, phase, records, snapshotPending, resyncPending, closeRetry>>
    BY <1>8 DEF AcceptAcknowledgement, mirror
  <2> QED
    BY <1>1, <1>2, <1>5, <2>1, ReceiveKeeps
<1> QED
  BY <1>6, <1>7, <1>8

\* AcceptSnapshot: no other snapshot under way is older.
LEMMA SnapshotKeeps ==
  ASSUME FeedInv, AcceptSnapshot
  PROVE  FeedInv' /\ \A g \in Figures : shown[g] <= shown'[g]
<1>1. /\ discoveries \subseteq Figures /\ records \subseteq Figures
      /\ snapshotPending \subseteq Figures /\ resyncPending \subseteq Figures /\ closeRetry \subseteq Figures
      /\ requests \in Seq(Request) /\ phase \in {"disconnected", "initializing", "attached", "error"}
      /\ Ordered(wire) /\ Carried(wire, shown, revision)
  BY DEF FeedInv, DataTypes, ControlTypes, WireInv
<1>2. wire # <<>> /\ Head(wire).kind = "snapshot" /\ wire' = Tail(wire)
  BY DEF AcceptSnapshot, Receiving, Received
<1>3. PICK w : w = Tail(wire)
  OBVIOUS
<1>4. /\ Carried(w, shown, revision) /\ Head(wire) = wire[1] /\ 1 \in 1..Len(wire)
      /\ w \in Seq(Message) /\ wire \in Seq(Message)
      /\ shown \in [Figures -> Nat] /\ revision \in [Figures -> Nat]
      /\ \A f \in Figures : shown[f] <= revision[f]
      /\ \A i \in 1..Len(w) : i + 1 \in 1..Len(wire) /\ w[i] = wire[i + 1] /\ 1 < i + 1
  BY <1>2, <1>3, Reception
<1>5. PICK m, f, n : m = wire[1] /\ f = m.request.fig /\ n = m.rev
  OBVIOUS
<1>6. f \in Figures /\ n \in Nat /\ wire[1].kind = "snapshot" /\ wire[1].kind \in ResponseKinds
  <2>1. wire[1].kind = "snapshot" /\ wire[1].kind \in ResponseKinds
    BY <1>2, <1>4 DEF ResponseKinds
  <2> QED
    BY <1>4, <1>5, <2>1, MessageFields
<1>7. shown[f] <= n /\ n <= revision[f]
  BY <1>1, <1>4, <1>5, <1>6 DEF Carried
<1>8. \A k \in 1..Len(w) : w[k].kind = "snapshot" /\ w[k].request.fig = f => n <= w[k].rev
  BY <1>1, <1>4, <1>5, <1>6 DEF Ordered
<1>9. PICK now : now = [shown EXCEPT ![f] = n]
  OBVIOUS
<1>10. now \in [Figures -> Nat] /\ Carried(w, now, revision)
  BY <1>4, <1>6, <1>8, <1>9, ShownMoves
<1>11. \A g \in Figures : now[g] <= revision[g] /\ shown[g] <= now[g]
  BY <1>4, <1>6, <1>7, <1>9
<1>12. /\ shown' = now /\ records' = records \cup {f} /\ snapshotPending' = snapshotPending \ {f}
       /\ resyncPending' = resyncPending \ {f} /\ closeRetry' = closeRetry \ {f}
       /\ phase' = phase /\ discoveries' = discoveries /\ UNCHANGED Elsewhere
  BY <1>4, <1>5, <1>9 DEF AcceptSnapshot
<1>13. requests' \in Seq(Request)
  <2>1. requests' = requests \o (IF f \in closeRetry THEN <<Req("closeFigure", f, n, TRUE)>> ELSE <<>>)
    BY <1>4, <1>5, Zenon DEF AcceptSnapshot, Send
  <2>2. PICK q : q = Req("closeFigure", f, n, TRUE)
    OBVIOUS
  <2>3. q \in Request
    BY <1>6, <2>2 DEF Req, Request, RequestTypes
  <2>4. requests \o <<q>> \in Seq(Request) /\ requests \o <<>> = requests
    BY <1>1, <2>3, OneRequest
  <2>5. CASE f \in closeRetry
    BY <2>1, <2>2, <2>4, <2>5, Zenon
  <2>6. CASE f \notin closeRetry
    BY <1>1, <2>1, <2>4, <2>6, Zenon
  <2> QED
    BY <2>5, <2>6
<1>14. /\ shown' \in [Figures -> Nat] /\ (\A g \in Figures : shown'[g] <= revision[g])
       /\ Carried(wire', shown', revision)
  BY <1>2, <1>3, <1>10, <1>11, <1>12
<1>15. /\ records' \subseteq Figures /\ snapshotPending' \subseteq Figures /\ resyncPending' \subseteq Figures
       /\ closeRetry' \subseteq Figures /\ phase' \in {"disconnected", "initializing", "attached", "error"}
  BY <1>1, <1>6, <1>12
<1> QED
  BY <1>2, <1>11, <1>12, <1>13, <1>14, <1>15, ReceiveKeeps

\* AcceptClosed: the Figure is forgotten.
LEMMA ClosedKeeps ==
  ASSUME FeedInv, AcceptClosed
  PROVE  FeedInv' /\ \A g \in Figures : shown'[g] < shown[g] => g \notin records'
<1>1. /\ discoveries \subseteq Figures /\ records \subseteq Figures
      /\ snapshotPending \subseteq Figures /\ resyncPending \subseteq Figures /\ closeRetry \subseteq Figures
      /\ requests \in Seq(Request) /\ phase \in {"disconnected", "initializing", "attached", "error"}
  BY DEF FeedInv, DataTypes, ControlTypes
<1>2. wire # <<>> /\ Head(wire).kind = "closed" /\ wire' = Tail(wire)
  BY DEF AcceptClosed, Receiving, Received
<1>3. PICK w : w = Tail(wire)
  OBVIOUS
<1>4. /\ Carried(w, shown, revision) /\ Head(wire) = wire[1] /\ 1 \in 1..Len(wire)
      /\ w \in Seq(Message) /\ wire \in Seq(Message)
      /\ shown \in [Figures -> Nat] /\ revision \in [Figures -> Nat]
      /\ \A f \in Figures : shown[f] <= revision[f]
  BY <1>2, <1>3, Reception
<1>5. PICK f : f = wire[1].fig
  OBVIOUS
<1>6. f \in Figures
  BY <1>2, <1>4, <1>5, MessageFields
<1>7. \A k \in 1..Len(w) : w[k].kind = "snapshot" => w[k].rev \in Nat
  BY <1>4, MessageFields DEF ResponseKinds
<1>8. \A k \in 1..Len(w) : w[k].kind = "snapshot" /\ w[k].request.fig = f => 0 <= w[k].rev
  BY <1>7
<1>a. PICK n \in Nat : n = 0
  OBVIOUS
<1>b. PICK now : now = [shown EXCEPT ![f] = n]
  OBVIOUS
<1>9. n = 0 /\ now = [shown EXCEPT ![f] = n]
  BY <1>a, <1>b
<1>10. now \in [Figures -> Nat] /\ Carried(w, now, revision)
  BY <1>4, <1>6, <1>8, <1>9, ShownMoves
<1>11. \A g \in Figures : now[g] <= revision[g] /\ (g # f => now[g] = shown[g])
  BY <1>4, <1>6, <1>9
<1>12. /\ shown' = now /\ records' = records \ {f} /\ snapshotPending' = snapshotPending \ {f}
       /\ resyncPending' = resyncPending \ {f} /\ closeRetry' = closeRetry \ {f}
       /\ phase' = phase /\ discoveries' = discoveries /\ UNCHANGED Elsewhere /\ requests' = requests
  BY <1>4, <1>5, <1>9 DEF AcceptClosed
<1>14. /\ shown' \in [Figures -> Nat] /\ (\A g \in Figures : shown'[g] <= revision[g])
       /\ Carried(wire', shown', revision)
  BY <1>2, <1>3, <1>10, <1>11, <1>12
<1>15. /\ records' \subseteq Figures /\ snapshotPending' \subseteq Figures /\ resyncPending' \subseteq Figures
       /\ closeRetry' \subseteq Figures /\ phase' \in {"disconnected", "initializing", "attached", "error"}
       /\ requests' \in Seq(Request)
  BY <1>1, <1>12
<1>16. FeedInv'
  BY <1>2, <1>12, <1>14, <1>15, ReceiveKeeps
<1>17. \A g \in Figures : shown'[g] < shown[g] => g \notin records'
  <2> SUFFICES ASSUME NEW g \in Figures, g # f PROVE ~(now[g] < shown[g])
    BY <1>12
  <2>1. now[g] = shown[g] /\ shown[g] \in Nat
    BY <1>4, <1>11
  <2> QED
    BY <2>1
<1> QED
  BY <1>16, <1>17

\* AcceptDelta.
LEMMA DeltaKeeps ==
  ASSUME FeedInv, AcceptDelta
  PROVE  FeedInv' /\ \A g \in Figures : shown[g] <= shown'[g]
<1>1. /\ discoveries \subseteq Figures /\ records \subseteq Figures
      /\ snapshotPending \subseteq Figures /\ resyncPending \subseteq Figures /\ closeRetry \subseteq Figures
      /\ requests \in Seq(Request) /\ phase \in {"disconnected", "initializing", "attached", "error"}
      /\ Ordered(wire) /\ Carried(wire, shown, revision)
      /\ transactions \in Nat /\ asked \in Nat /\ failures \in Nat /\ drops \in Nat
  BY DEF FeedInv, DataTypes, ControlTypes, WireInv
<1>2. wire # <<>> /\ Head(wire).kind = "delta"
  BY DEF AcceptDelta, Receiving
<1>3. PICK w : w = Tail(wire)
  OBVIOUS
<1>4. /\ Carried(w, shown, revision) /\ Head(wire) = wire[1] /\ 1 \in 1..Len(wire)
      /\ w \in Seq(Message) /\ wire \in Seq(Message)
      /\ shown \in [Figures -> Nat] /\ revision \in [Figures -> Nat]
      /\ \A f \in Figures : shown[f] <= revision[f]
      /\ \A i \in 1..Len(w) : i + 1 \in 1..Len(wire) /\ w[i] = wire[i + 1] /\ 1 < i + 1
  BY <1>2, <1>3, Reception
<1>5. PICK d, f : d = wire[1] /\ f = d.fig
  OBVIOUS
<1>6. f \in Figures /\ d.base \in Nat /\ d.kind = "delta" /\ d.base < revision[f]
  <2>1. wire[1].kind = "delta"
    BY <1>2, <1>4
  <2> QED
    BY <1>1, <1>4, <1>5, <2>1, MessageFields DEF Carried
<1>s. \A g \in Figures : shown[g] <= shown[g]
  BY <1>4
<1>7. CASE /\ wire' = Tail(wire) /\ RequestSnapshots({f}, phase = "attached")
           /\ UNCHANGED <<Elsewhere, phase, shown, resyncPending, closeRetry, discoveries>>
  <2>2. PICK figs, now : figs = {f} /\ now = (phase = "attached")
    OBVIOUS
  <2>3. RequestSnapshots(figs, now)
    BY <1>7, <2>2, Zenon
  <2>4. figs \in SUBSET Figures
    BY <1>6, <2>2
  <2>5. requests' \in Seq(Request) /\ records' \subseteq Figures /\ snapshotPending' \subseteq Figures
    BY <2>3, <2>4, RequestsTyped
  <2>6. Carried(wire', shown', revision)
    BY <1>3, <1>4, <1>7
  <2> QED
    BY <1>1, <1>2, <1>4, <1>7, <1>s, <2>5, <2>6, ReceiveKeeps
<1>8. CASE /\ wire' = Tail(wire) /\ Resync(f)
           /\ UNCHANGED <<Elsewhere, phase, shown, records, snapshotPending, closeRetry, discoveries>>
  <2>1. requests' \in Seq(Request) /\ resyncPending' \subseteq Figures
    BY <1>6, <1>8, ResyncTyped
  <2>2. Carried(wire', shown', revision)
    BY <1>3, <1>4, <1>8
  <2> QED
    BY <1>1, <1>2, <1>4, <1>8, <1>s, <2>1, <2>2, ReceiveKeeps
<1>9. CASE /\ shown[f] = d.base /\ wire' = Tail(wire)
           /\ shown' = [shown EXCEPT ![f] = d.base + 1]
           /\ UNCHANGED <<Elsewhere, requests, phase, records, snapshotPending, resyncPending,
                          closeRetry, discoveries>>
  <2>1. PICK now, n : n = d.base + 1 /\ now = [shown EXCEPT ![f] = n]
    OBVIOUS
  <2>2. n \in Nat /\ n <= revision[f] /\ shown[f] <= n
    BY <1>4, <1>6, <1>9, <2>1
  <2>3. \A k \in 1..Len(w) : w[k].kind = "snapshot" => w[k].rev \in Nat
    BY <1>4, MessageFields DEF ResponseKinds
  <2>4. ASSUME NEW k \in 1..Len(w), w[k].kind = "snapshot", w[k].request.fig = f PROVE n <= w[k].rev
    <3>1. d.base < w[k].rev
      BY <1>1, <1>4, <1>5, <1>6, <2>4 DEF Ordered
    <3> QED
      BY <1>6, <2>1, <2>3, <2>4, <3>1
  <2>5. now \in [Figures -> Nat] /\ Carried(w, now, revision)
    BY <1>4, <1>6, <2>1, <2>2, <2>4, ShownMoves
  <2>6. \A g \in Figures : now[g] <= revision[g] /\ shown[g] <= now[g]
    BY <1>4, <1>6, <2>1, <2>2
  <2>7. /\ shown' = now /\ shown' \in [Figures -> Nat] /\ (\A g \in Figures : shown'[g] <= revision[g])
        /\ Carried(wire', shown', revision)
    BY <1>3, <1>9, <2>1, <2>5, <2>6
  <2> QED
    BY <1>1, <1>2, <1>9, <2>6, <2>7, ReceiveKeeps
<1>10. CASE Sever /\ UNCHANGED <<session, kernel, events, announced, bounds, fault>>
  <2>1. shown' = shown
    BY <1>10 DEF Sever
  <2> QED
    BY <1>1, <1>10, <1>s, <2>1, SeverKeeps DEF bounds
<1> QED
  BY <1>4, <1>5, <1>7, <1>8, <1>9, <1>10, Zenon DEF AcceptDelta, Received, Continues

\* The initial state.
LEMMA FeedInit == Init => FeedInv
<1> SUFFICES ASSUME Init PROVE FeedInv
  OBVIOUS
<1>1. Len(pending) = 0 /\ Len(batch) = 0 /\ Len(events) = 0 /\ Len(wire) = 0
  BY DEF Init
<1>2. Changing(revision, pending, batch, events)
  BY <1>1 DEF Changing, Past, Once, Apart
<1>3. Carried(wire, shown, revision) /\ Ordered(wire) /\ Acknowledged(wire)
  BY <1>1 DEF Carried, Ordered, Acknowledged
<1>4. DataTypes
  BY DEF Init, DataTypes
<1>5. ControlTypes
  BY DEF Init, ControlTypes
<1>6. JournalInv
  BY <1>2 DEF Init, JournalInv
<1>7. WireInv
  BY <1>3 DEF Init, WireInv
<1>8. fault = FALSE
  BY DEF Init
<1> QED
  BY <1>4, <1>5, <1>6, <1>7, <1>8 DEF FeedInv

\* Every step keeps the invariant.
LEMMA FeedNext == FeedInv /\ [Next]_vars => FeedInv'
<1> SUFFICES ASSUME FeedInv, [Next]_vars PROVE FeedInv'
  OBVIOUS
<1>1. CASE KernelNext
  <2>1. CASE \E f \in Figures : Create(f) \/ Mutate(f) \/ KernelClose(f)
    <3>1. PICK f \in Figures : Create(f) \/ Mutate(f) \/ KernelClose(f)
      BY <2>1
    <3>2. notices \subseteq Figures
      BY DEF FeedInv, DataTypes
    <3>a. PICK op : \E closing \in BOOLEAN : Transaction(op, f, closing)
      BY <3>1, Zenon DEF Create, Mutate, KernelClose
    <3>3. PICK closing \in BOOLEAN : Transaction(op, f, closing)
      BY <3>a
    <3>4. notices' \subseteq Figures
      BY <3>1, <3>2 DEF Create, Mutate, KernelClose
    <3> QED
      BY <3>3, <3>4, TransactionKeeps
  <2> QED
    BY <1>1, <2>1, PublicationKeeps DEF KernelNext
<1>2. CASE ServerNext
  BY <1>2, PollKeeps, ReplyKeeps, LimitsKeeps, CloseKeeps, FailsKeeps DEF ServerNext
<1>3. CASE ClientNext
  BY <1>3, AcceptKeeps, SnapshotKeeps, DeltaKeeps, ClosedKeeps, AskingKeeps DEF ClientNext
<1>4. CASE UserNext
  <2>1. PICK f \in Figures : UserRequest("limits", "setAxesLimits", f) \/ UserRequest("close", "closeFigure", f)
    BY <1>4 DEF UserNext
  <2>2. \E op : \E type \in RequestTypes : UserRequest(op, type, f)
    BY <2>1, Zenon DEF RequestTypes
  <2> QED
    BY <2>2, AskingKeeps
<1>5. CASE UNCHANGED vars
  <2>1. UNCHANGED <<revision, open, pending, xpc, batch, notices, events, attached, cursor, polled, requests,
                    wire, announced, phase, shown, records, snapshotPending, resyncPending, closeRetry,
                    discoveries, transactions, asked, failures, drops, fault>>
    BY <1>5 DEF vars, session, kernel, server, mirror, bounds
  <2> QED
    BY <2>1 DEF FeedInv, DataTypes, ControlTypes, JournalInv, WireInv
<1> QED
  BY <1>1, <1>2, <1>3, <1>4, <1>5 DEF Next

\* The invariant holds throughout.
THEOREM FeedInvariant == Spec => []FeedInv
BY FeedInit, FeedNext, PTL DEF Spec

\* A connection joined the journal at a place.
LEMMA JoinedPlace == Spec => [](joined \in Nat)
<1>1. Init => joined \in Nat
  BY DEF Init
<1>2. FeedInv /\ joined \in Nat /\ [Next]_vars => (joined \in Nat)'
  <2> SUFFICES ASSUME FeedInv, joined \in Nat, [Next]_vars PROVE joined' \in Nat
    OBVIOUS
  <2>1. Len(events) \in Nat
    BY DEF FeedInv, DataTypes
  <2>2. CASE KernelNext \/ UserNext
    BY <2>2 DEF KernelNext, UserNext, UserRequest, Create, Mutate, KernelClose, Transaction, TakeDeltas, Publish,
                PublishFails, server
  <2>3. CASE ServerNext
    BY <2>1, <2>3 DEF ServerNext, Poll, Idle, HandleInitialize, HandleSnapshot, RefuseMutation, HandleLimits,
                HandleClose, MutationFails
  <2>4. CASE ClientNext
    <3>1. CASE Drop \/ AcceptDelta
      BY <3>1 DEF Drop, AcceptDelta, Sever, Elsewhere, server
    <3>2. CASE AcceptInitialize \/ AcceptSnapshot \/ AcceptFailure \/ AcceptAcknowledgement \/ AcceptClosed
      <4>1. UNCHANGED Elsewhere
        BY <3>2, Zenon DEF AcceptInitialize, AcceptSnapshot, AcceptFailure, AcceptAcknowledgement, AcceptClosed
      <4> QED
        BY <4>1 DEF Elsewhere, server
    <3>3. CASE Connect \/ \E f \in Figures : Discover(f)
      BY <3>3 DEF Connect, Discover, server
    <3> QED
      BY <2>4, <3>1, <3>2, <3>3 DEF ClientNext
  <2>5. CASE UNCHANGED vars
    BY <2>5 DEF vars, server
  <2> QED
    BY <2>2, <2>3, <2>4, <2>5 DEF Next
<1> QED
  BY <1>1, <1>2, FeedInvariant, PTL DEF Spec

\* Executions and renderer requests never journal a revision of a Figure twice,
\* and the connection's checks on a committed mutation never fail, with all
\* state of its type.
THEOREM FeedIsConsistent == Spec => []FeedConsistent
<1>1. FeedInv /\ joined \in Nat => FeedConsistent
  <2> SUFFICES ASSUME FeedInv, joined \in Nat PROVE FeedConsistent
    OBVIOUS
  <2>1. FeedTypeOK
    <3>1. events \in Seq(Event) /\ cursor \in 0..Len(events)
      BY DEF FeedInv, DataTypes
    <3>2. fault \in BOOLEAN
      BY Zenon DEF FeedInv
    <3> QED
      BY <3>1, <3>2 DEF FeedInv, DataTypes, ControlTypes, FeedTypeOK
  <2>2. JournaledOnce
    BY DEF FeedInv, JournalInv, Changing, Once, JournaledOnce
  <2>3. CommittedIsValid
    BY Zenon DEF FeedInv, CommittedIsValid
  <2> QED
    BY <2>1, <2>2, <2>3 DEF FeedConsistent
<1> QED
  BY <1>1, FeedInvariant, JoinedPlace, PTL

\* The client reads the response to setAxesLimits before the delta that the
\* mutation left in the journal.
THEOREM ResponseComesFirst == Spec => []ResponseBeforeDelta
<1>1. FeedInv => ResponseBeforeDelta
  <2> SUFFICES ASSUME FeedInv, NEW j \in 1..Len(wire), wire[j].kind = "committed", NEW i \in 1..j - 1
               PROVE  ~(wire[i].kind = "delta" /\ wire[i].fig = wire[j].request.fig
                                               /\ wire[i].base = wire[j].request.expected)
    BY DEF ResponseBeforeDelta
  <2>1. wire \in Seq(Message) /\ Acknowledged(wire)
    BY DEF FeedInv, DataTypes, WireInv
  <2>2. i \in 1..Len(wire) /\ i < j
    BY <2>1
  <2> QED
    BY <2>1, <2>2 DEF Acknowledged
<1> QED
  BY <1>1, FeedInvariant, PTL

\* A window that keeps its Figure never shows an older revision of it, whatever
\* deltas, snapshots and reconnections cross.
THEOREM WindowNeverGoesBack == Spec => MirrorNeverGoesBack
<1>1. ASSUME FeedInv, [Next]_vars
      PROVE  [\A f \in Figures : shown'[f] < shown[f] => f \notin records']_vars
  <2>0. shown \in [Figures -> Nat]
    BY <1>1 DEF FeedInv, DataTypes
  <2>a. ASSUME shown' = shown PROVE \A f \in Figures : shown'[f] < shown[f] => f \notin records'
    BY <2>0, <2>a
  <2>b. ASSUME \A f \in Figures : shown[f] <= shown'[f], FeedInv'
        PROVE  \A f \in Figures : shown'[f] < shown[f] => f \notin records'
    <3>1. shown' \in [Figures -> Nat]
      BY <2>b DEF FeedInv, DataTypes
    <3> QED
      BY <2>0, <2>b, <3>1
  <2>1. CASE KernelNext
    <3>1. shown' = shown
      BY <2>1 DEF KernelNext, Create, Mutate, KernelClose, Transaction, TakeDeltas, Publish, PublishFails, mirror
    <3> QED
      BY <2>a, <3>1
  <2>2. CASE ServerNext
    <3>1. shown' = shown
      BY <2>2 DEF ServerNext, Poll, Idle, HandleInitialize, HandleSnapshot, RefuseMutation, HandleLimits,
                  HandleClose, MutationFails, mirror
    <3> QED
      BY <2>a, <3>1
  <2>3. CASE ClientNext
    <3>1. CASE AcceptInitialize \/ AcceptFailure \/ AcceptAcknowledgement \/ Connect \/ Drop
               \/ \E f \in Figures : Discover(f)
      <4>1. shown' = shown
        BY <3>1 DEF AcceptInitialize, AcceptFailure, AcceptAcknowledgement, Connect, Drop, Sever, Discover, mirror
      <4> QED
        BY <2>a, <4>1
    <3>2. CASE AcceptSnapshot
      BY <1>1, <2>b, <3>2, SnapshotKeeps
    <3>3. CASE AcceptDelta
      BY <1>1, <2>b, <3>3, DeltaKeeps
    <3>4. CASE AcceptClosed
      BY <1>1, <3>4, ClosedKeeps
    <3> QED
      BY <2>3, <3>1, <3>2, <3>3, <3>4 DEF ClientNext
  <2>4. CASE UserNext
    <3>1. shown' = shown
      BY <2>4 DEF UserNext, UserRequest, mirror
    <3> QED
      BY <2>a, <3>1
  <2> QED
    BY <1>1, <2>1, <2>2, <2>3, <2>4 DEF Next
<1> QED
  BY <1>1, FeedInvariant, PTL DEF Spec, MirrorNeverGoesBack
----------------------------------------------------------------------------
(* What a viewer sees: the kernel alone changes Figures.  Connections may  *)
(* be lost, and are given up over a delta that does not apply.             *)

\* Nobody closes or changes a Figure in its window.
Viewing == UserOps = {}

IsSnapshot(m, f) == m.kind = "snapshot" /\ m.request.fig = f
IsClosing(m, f) == m.kind = "closed" /\ m.fig = f
IsChange(m, f, b) == m.kind = "delta" /\ m.fig = f /\ m.base = b
IsResync(x, f) == x.type = "resyncFigure" /\ x.fig = f
IsResynced(m, f) == m.kind \in {"snapshot", "failed"} /\ IsResync(m.request, f)

Asked(q, f) == \E i \in 1..Len(q) : q[i].type \in {"getSnapshot", "resyncFigure"} /\ q[i].fig = f
Resuming(q, w, f) ==
  \/ \E i \in 1..Len(q) : IsResync(q[i], f)
  \/ \E k \in 1..Len(w) : IsResynced(w[k], f)

\* The client is yet to ask for what the view of a new connection holds.
Promised(w, f) == \E k \in 1..Len(w) : w[k].kind = "view" /\ f \in w[k].figs

\* A Figure that closed stays closed, and its end is a figureClosed.
Ended(s, op) == \A i \in 1..Len(s) : s[i].closing => ~op[s[i].fig]
Marked(s, op, rev) ==
  \A i \in 1..Len(s) :
    /\ s[i].closing => s[i].kind = "closed"
    /\ s[i].kind = "closed" => ~op[s[i].fig]
    /\ ~op[s[i].fig] /\ s[i].base + 1 = rev[s[i].fig] => s[i].kind = "closed"

\* The client only asks, and hears no more than answers and the journal.
Asks(x, rev) ==
  /\ x.type \in {"initialize", "getSnapshot", "resyncFigure"}
  /\ x.type = "resyncFigure" => rev[x.fig] > 0
Says(m, op, rev) ==
  /\ m.kind \in {"delta", "closed", "view", "snapshot", "failed"}
  /\ m.kind = "delta" => ~m.closing
  /\ m.kind = "failed" /\ m.request.type = "resyncFigure" =>
       ~op[m.request.fig] /\ rev[m.request.fig] > 0

\* The client, showing n of Figure f, will hear of its end.
Ends(w, n, f) ==
  /\ n > 0 => \E c \in 1..Len(w) : IsClosing(w[c], f)
  /\ \A k \in 1..Len(w) : IsSnapshot(w[k], f) => \E c \in 1..Len(w) : k < c /\ IsClosing(w[c], f)

\* The change of f from b has reached the client, is on the wire, or will be
\* made up for by an answer.
Comes(w, q, n, f, b) ==
  /\ \A k \in 1..Len(w) : IsSnapshot(w[k], f) =>
       b < w[k].rev \/ \E c \in 1..Len(w) : k < c /\ IsChange(w[c], f, b)
  /\ n > 0 =>
       \/ b < n
       \/ \E c \in 1..Len(w) : IsChange(w[c], f, b)
       \/ Asked(q, f)
       \/ Promised(w, f)
       \/ \E k \in 1..Len(w) : IsSnapshot(w[k], f) /\ b < w[k].rev

EndInv == Ended(pending, open) /\ Ended(batch, open) /\ Marked(events, open, revision)
AskInv ==
  /\ closeRetry = {}
  /\ \A i \in 1..Len(requests) : Asks(requests[i], revision)
  /\ \A k \in 1..Len(wire) : Says(wire[k], open, revision)
  /\ ~attached => Len(wire) = 0
  /\ \A f \in Figures : f \notin records => shown[f] = 0
  /\ \A f \in resyncPending : Resuming(requests, wire, f)

\* What the connection has taken from the journal: of a Figure that closed
\* before it joined, the client hears nothing.
ReachInv ==
  \A i \in 1..cursor :
    /\ events[i].kind = "closed" /\ i \notin 1..joined =>
         Ends(wire, shown[events[i].fig], events[i].fig)
    /\ open[events[i].fig] => Comes(wire, requests, shown[events[i].fig], events[i].fig, events[i].base)

\* A connection begins with initialize, its answer is the first message, and
\* until that is read the client has asked for no snapshot.
JoinInv ==
  /\ phase = "disconnected" => ~attached /\ Len(requests) = 0 /\ snapshotPending = {}
  /\ \A i \in 1..Len(requests) : requests[i].type = "initialize" =>
       i = 1 /\ ~attached /\ phase = "initializing" /\ snapshotPending = {}
  /\ \A k \in 1..Len(wire) : wire[k].kind = "view" =>
       k = 1 /\ phase = "initializing" /\ snapshotPending = {}

ViewInv == EndInv /\ AskInv /\ ReachInv
----------------------------------------------------------------------------
\* The end still comes after the first message was read.
LEMMA EndsShrinks ==
  ASSUME NEW w \in Seq(Message), w # <<>>, NEW r, r = Tail(w), NEW f, NEW n, NEW now, Ends(w, n, f),
         \/ ~(now > 0)
         \/ ~IsClosing(w[1], f) /\ (n > 0 \/ IsSnapshot(w[1], f))
  PROVE  Ends(r, now, f)
<1>1. /\ Len(w) \in Nat /\ Len(w) > 0 /\ Len(r) = Len(w) - 1
      /\ \A i \in 1..Len(r) : i + 1 \in 1..Len(w) /\ r[i] = w[i + 1]
      /\ \A i \in 1..Len(w) : i # 1 => i - 1 \in 1..Len(r) /\ r[i - 1] = w[i]
  BY TailPlaces
<1>2. ASSUME NEW k \in 1..Len(r), IsSnapshot(r[k], f)
      PROVE  \E c \in 1..Len(r) : k < c /\ IsClosing(r[c], f)
  <2>1. k + 1 \in 1..Len(w) /\ IsSnapshot(w[k + 1], f)
    BY <1>1, <1>2
  <2>2. PICK c \in 1..Len(w) : k + 1 < c /\ IsClosing(w[c], f)
    BY <2>1 DEF Ends
  <2>3. c # 1 /\ k < c - 1
    BY <1>1, <2>1, <2>2
  <2>4. c - 1 \in 1..Len(r) /\ r[c - 1] = w[c]
    BY <1>1, <2>3
  <2> QED
    BY <2>2, <2>3, <2>4
<1>3. ASSUME now > 0 PROVE \E c \in 1..Len(r) : IsClosing(r[c], f)
  <2>0. 1 \in 1..Len(w)
    BY <1>1
  <2>1. PICK c \in 1..Len(w) : c # 1 /\ IsClosing(w[c], f)
    <3>1. CASE n > 0
      BY <1>3, <3>1 DEF Ends
    <3>2. CASE IsSnapshot(w[1], f)
      <4>1. PICK c \in 1..Len(w) : 1 < c /\ IsClosing(w[c], f)
        BY <2>0, <3>2 DEF Ends
      <4>2. c # 1
        BY <4>1
      <4> QED
        BY <4>1, <4>2
    <3> QED
      BY <1>3, <3>1, <3>2
  <2>2. c - 1 \in 1..Len(r) /\ r[c - 1] = w[c]
    BY <1>1, <2>1
  <2> QED
    BY <2>1, <2>2
<1> QED
  BY <1>2, <1>3 DEF Ends

\* More messages do not prevent it, when none is a snapshot of the Figure.
LEMMA EndsGrows ==
  ASSUME NEW w \in Seq(Message), NEW t \in Seq(Message), NEW r, r = w \o t, NEW f, NEW n, Ends(w, n, f),
         \A i \in 1..Len(t) : ~IsSnapshot(t[i], f)
  PROVE  Ends(r, n, f)
<1>1. /\ \A i \in 1..Len(w) : i \in 1..Len(r) /\ r[i] = w[i]
      /\ \A i \in 1..Len(r) : \/ i \in 1..Len(w) /\ r[i] = w[i]
                              \/ i - Len(w) \in 1..Len(t) /\ r[i] = t[i - Len(w)]
  BY JoinPlaces
<1>2. ASSUME NEW k \in 1..Len(r), IsSnapshot(r[k], f)
      PROVE  \E c \in 1..Len(r) : k < c /\ IsClosing(r[c], f)
  <2>1. k \in 1..Len(w) /\ r[k] = w[k]
    BY <1>1, <1>2
  <2>2. PICK c \in 1..Len(w) : k < c /\ IsClosing(w[c], f)
    BY <1>2, <2>1 DEF Ends
  <2> QED
    BY <1>1, <2>2
<1>3. n > 0 => \E c \in 1..Len(r) : IsClosing(r[c], f)
  BY <1>1 DEF Ends
<1> QED
  BY <1>2, <1>3 DEF Ends

\* A change still comes after the first message was read.
LEMMA ComesShrinks ==
  ASSUME NEW w \in Seq(Message), w # <<>>, NEW r, r = Tail(w), NEW f, NEW b, NEW n, NEW now,
         NEW q, NEW q2, Comes(w, q, n, f, b), Asked(q, f) => Asked(q2, f),
         Promised(w, f) => Asked(q2, f),
         \/ ~(now > 0)
         \/ IsSnapshot(w[1], f) /\ now = w[1].rev
         \/ /\ n > 0 /\ (b < n => b < now) /\ ~IsSnapshot(w[1], f)
            /\ IsChange(w[1], f, b) =>
                 b < now \/ Asked(q2, f) \/ \E k \in 1..Len(w) : k # 1 /\ IsSnapshot(w[k], f) /\ b < w[k].rev
  PROVE  Comes(r, q2, now, f, b)
<1>1. /\ Len(w) \in Nat /\ Len(w) > 0 /\ Len(r) = Len(w) - 1
      /\ \A i \in 1..Len(r) : i + 1 \in 1..Len(w) /\ r[i] = w[i + 1]
      /\ \A i \in 1..Len(w) : i # 1 => i - 1 \in 1..Len(r) /\ r[i - 1] = w[i]
  BY TailPlaces
<1>0. 1 \in 1..Len(w)
  BY <1>1
<1>2. ASSUME NEW k \in 1..Len(r), IsSnapshot(r[k], f), ~(b < r[k].rev)
      PROVE  \E c \in 1..Len(r) : k < c /\ IsChange(r[c], f, b)
  <2>1. k + 1 \in 1..Len(w) /\ IsSnapshot(w[k + 1], f) /\ ~(b < w[k + 1].rev)
    BY <1>1, <1>2
  <2>2. PICK c \in 1..Len(w) : k + 1 < c /\ IsChange(w[c], f, b)
    BY <2>1 DEF Comes
  <2>3. c # 1 /\ k < c - 1
    BY <1>1, <2>1, <2>2
  <2>4. c - 1 \in 1..Len(r) /\ r[c - 1] = w[c]
    BY <1>1, <2>3
  <2> QED
    BY <2>2, <2>3, <2>4
<1>3. ASSUME NEW c \in 1..Len(w), c # 1, IsChange(w[c], f, b)
      PROVE  \E k \in 1..Len(r) : IsChange(r[k], f, b)
  <2>1. c - 1 \in 1..Len(r) /\ r[c - 1] = w[c]
    BY <1>1, <1>3
  <2> QED
    BY <1>3, <2>1
<1>4. ASSUME NEW c \in 1..Len(w), c # 1, IsSnapshot(w[c], f), b < w[c].rev
      PROVE  \E k \in 1..Len(r) : IsSnapshot(r[k], f) /\ b < r[k].rev
  <2>1. c - 1 \in 1..Len(r) /\ r[c - 1] = w[c]
    BY <1>1, <1>4
  <2> QED
    BY <1>4, <2>1
<1>5. ASSUME now > 0
      PROVE  \/ b < now
             \/ \E c \in 1..Len(r) : IsChange(r[c], f, b)
             \/ Asked(q2, f)
             \/ Promised(r, f)
             \/ \E k \in 1..Len(r) : IsSnapshot(r[k], f) /\ b < r[k].rev
  <2>1. CASE IsSnapshot(w[1], f) /\ now = w[1].rev
    <3>1. CASE b < w[1].rev
      BY <2>1, <3>1
    <3>2. CASE ~(b < w[1].rev)
      <4>1. PICK c \in 1..Len(w) : 1 < c /\ IsChange(w[c], f, b)
        BY <1>0, <2>1, <3>2 DEF Comes
      <4>2. c # 1
        BY <4>1
      <4> QED
        BY <1>3, <4>1, <4>2
    <3> QED
      BY <3>1, <3>2
  <2>2. CASE /\ n > 0 /\ (b < n => b < now) /\ ~IsSnapshot(w[1], f)
             /\ IsChange(w[1], f, b) =>
                  b < now \/ Asked(q2, f) \/ \E k \in 1..Len(w) : k # 1 /\ IsSnapshot(w[k], f) /\ b < w[k].rev
    <3>1. CASE b < n \/ Asked(q, f) \/ Promised(w, f)
      BY <2>2, <3>1
    <3>2. CASE \E c \in 1..Len(w) : IsChange(w[c], f, b)
      <4>1. PICK c \in 1..Len(w) : IsChange(w[c], f, b)
        BY <3>2
      <4>2. CASE c = 1
        BY <1>4, <2>2, <4>1, <4>2
      <4>3. CASE c # 1
        BY <1>3, <4>1, <4>3
      <4> QED
        BY <4>2, <4>3
    <3>3. CASE \E k \in 1..Len(w) : IsSnapshot(w[k], f) /\ b < w[k].rev
      BY <1>4, <2>2, <3>3
    <3> QED
      BY <2>2, <3>1, <3>2, <3>3 DEF Comes
  <2> QED
    BY <1>5, <2>1, <2>2
<1> QED
  BY <1>2, <1>5 DEF Comes

\* More messages bring it no further away.
LEMMA ComesGrows ==
  ASSUME NEW w \in Seq(Message), NEW t \in Seq(Message), NEW r, r = w \o t, NEW f, NEW b, NEW n,
         NEW q, NEW q2, Comes(w, q, n, f, b),
         \A i \in 1..Len(t) : IsSnapshot(t[i], f) => b < t[i].rev,
         Asked(q, f) => Asked(q2, f) \/ \E i \in 1..Len(t) : IsSnapshot(t[i], f)
  PROVE  Comes(r, q2, n, f, b)
<1>1. /\ \A i \in 1..Len(w) : i \in 1..Len(r) /\ r[i] = w[i]
      /\ \A i \in 1..Len(t) : Len(w) + i \in 1..Len(r) /\ r[Len(w) + i] = t[i]
      /\ \A i \in 1..Len(r) : \/ i \in 1..Len(w) /\ r[i] = w[i]
                              \/ i - Len(w) \in 1..Len(t) /\ r[i] = t[i - Len(w)]
  BY JoinPlaces
<1>2. ASSUME NEW k \in 1..Len(r), IsSnapshot(r[k], f), ~(b < r[k].rev)
      PROVE  \E c \in 1..Len(r) : k < c /\ IsChange(r[c], f, b)
  <2>1. k \in 1..Len(w) /\ r[k] = w[k]
    BY <1>1, <1>2
  <2>2. PICK c \in 1..Len(w) : k < c /\ IsChange(w[c], f, b)
    BY <1>2, <2>1 DEF Comes
  <2> QED
    BY <1>1, <2>2
<1>3. ASSUME n > 0
      PROVE  \/ b < n
             \/ \E c \in 1..Len(r) : IsChange(r[c], f, b)
             \/ Asked(q2, f)
             \/ Promised(r, f)
             \/ \E k \in 1..Len(r) : IsSnapshot(r[k], f) /\ b < r[k].rev
  <2>1. CASE \E c \in 1..Len(w) : IsChange(w[c], f, b)
    BY <1>1, <2>1
  <2>2. CASE \E k \in 1..Len(w) : IsSnapshot(w[k], f) /\ b < w[k].rev
    BY <1>1, <2>2
  <2>3. CASE Asked(q, f)
    <3>1. CASE \E i \in 1..Len(t) : IsSnapshot(t[i], f)
      <4>1. PICK i \in 1..Len(t) : IsSnapshot(t[i], f)
        BY <3>1
      <4>2. Len(w) + i \in 1..Len(r) /\ r[Len(w) + i] = t[i] /\ b < t[i].rev
        BY <1>1, <4>1
      <4> QED
        BY <4>1, <4>2
    <3> QED
      BY <2>3, <3>1
  <2>4. CASE Promised(w, f)
    BY <1>1, <2>4 DEF Promised
  <2> QED
    BY <1>3, <2>1, <2>2, <2>3, <2>4 DEF Comes
<1> QED
  BY <1>2, <1>3 DEF Comes
----------------------------------------------------------------------------
\* Every Figure that exists stays, or closes for good.
Ages(rev, op, now, opNow) ==
  \A g \in Figures : rev[g] <= now[g] /\ (rev[g] > 0 /\ opNow[g] => op[g])

\* What the past holds of Figures that closed.
LEMMA EndedAges ==
  ASSUME NEW s \in Seq(Delta), NEW rev \in [Figures -> Nat], NEW op, NEW now, NEW opNow,
         Past(s, rev), Ages(rev, op, now, opNow), Ended(s, op)
  PROVE  Ended(s, opNow)
<1> SUFFICES ASSUME NEW i \in 1..Len(s), s[i].closing PROVE ~opNow[s[i].fig]
  BY DEF Ended
<1>1. s[i] \in Delta
  OBVIOUS
<1>2. s[i].fig \in Figures /\ s[i].base \in Nat
  BY <1>1 DEF Delta
<1>3. s[i].base < rev[s[i].fig] /\ ~op[s[i].fig]
  BY DEF Past, Ended
<1>4. rev[s[i].fig] > 0
  BY <1>2, <1>3
<1> QED
  BY <1>2, <1>3, <1>4 DEF Ages

\* Steps of the kernel leave the client and its connection alone.
LEMMA KernelView ==
  ASSUME FeedInv, ViewInv,
         UNCHANGED <<requests, wire, attached, cursor, joined, shown, records, resyncPending, closeRetry>>,
         Ages(revision, open, revision', open'),
         \A i \in 1..Len(events) : events'[i] = events[i],
         revision' \in [Figures -> Nat]
  PROVE  AskInv' /\ ReachInv'
<1>1. /\ requests \in Seq(Request) /\ wire \in Seq(Message) /\ events \in Seq(Event)
      /\ cursor \in Nat /\ cursor <= Len(events) /\ Len(events) \in Nat
      /\ revision \in [Figures -> Nat] /\ Past(events, revision)
  BY DEF FeedInv, DataTypes, JournalInv, Changing
<1>2. /\ closeRetry = {}
      /\ \A i \in 1..Len(requests) : Asks(requests[i], revision)
      /\ \A k \in 1..Len(wire) : Says(wire[k], open, revision)
      /\ ~attached => Len(wire) = 0
      /\ \A f \in Figures : f \notin records => shown[f] = 0
      /\ \A f \in resyncPending : Resuming(requests, wire, f)
  BY DEF ViewInv, AskInv
<1>3. \A g \in Figures : revision[g] > 0 => revision'[g] > 0 /\ (open'[g] => open[g])
  <2> SUFFICES ASSUME NEW g \in Figures, revision[g] > 0 PROVE revision'[g] > 0 /\ (open'[g] => open[g])
    OBVIOUS
  <2>1. revision[g] \in Nat /\ revision'[g] \in Nat
    BY <1>1
  <2> QED
    BY <2>1 DEF Ages
<1>4. ASSUME NEW i \in 1..Len(requests) PROVE Asks(requests[i], revision')
  <2>1. requests[i] \in Request
    BY <1>1
  <2>2. requests[i].fig \in Figures
    BY <2>1 DEF Request
  <2> QED
    BY <1>2, <1>3, <2>2 DEF Asks
<1>5. ASSUME NEW k \in 1..Len(wire) PROVE Says(wire[k], open', revision')
  <2>1. wire[k].kind = "failed" => wire[k].request.fig \in Figures
    BY <1>1, MessageFields DEF ResponseKinds
  <2>2. Says(wire[k], open, revision)
    BY <1>2
  <2> QED
    BY <1>3, <2>1, <2>2 DEF Says
<1>6. AskInv'
  BY <1>2, <1>4, <1>5 DEF AskInv
<1>7. ASSUME NEW i \in 1..cursor
      PROVE  /\ events'[i].kind = "closed" /\ i \notin 1..joined =>
                  Ends(wire, shown[events'[i].fig], events'[i].fig)
             /\ open'[events'[i].fig] =>
                  Comes(wire, requests, shown[events'[i].fig], events'[i].fig, events'[i].base)
  <2>1. i \in 1..Len(events)
    BY <1>1
  <2>2. events[i] \in Event /\ events'[i] = events[i]
    BY <1>1, <2>1
  <2>3. events[i].fig \in Figures /\ events[i].base \in Nat
    BY <2>2 DEF Event
  <2>4. revision[events[i].fig] > 0
    <3>1. events[i].base < revision[events[i].fig]
      BY <1>1, <2>1 DEF Past
    <3> QED
      BY <1>1, <2>3, <3>1
  <2>5. open'[events[i].fig] => open[events[i].fig]
    BY <1>3, <2>3, <2>4
  <2>6. /\ events[i].kind = "closed" /\ i \notin 1..joined =>
             Ends(wire, shown[events[i].fig], events[i].fig)
        /\ open[events[i].fig] => Comes(wire, requests, shown[events[i].fig], events[i].fig, events[i].base)
    BY DEF ViewInv, ReachInv
  <2> QED
    BY <2>2, <2>5, <2>6
<1>8. ReachInv'
  BY <1>7 DEF ReachInv
<1> QED
  BY <1>6, <1>8

\* Create, Mutate and KernelClose.
LEMMA TransactionView ==
  ASSUME FeedInv, ViewInv, NEW f \in Figures, Create(f) \/ Mutate(f) \/ KernelClose(f)
  PROVE  ViewInv'
<1>1. /\ revision \in [Figures -> Nat] /\ open \in [Figures -> BOOLEAN] /\ pending \in Seq(Delta)
      /\ batch \in Seq(Delta) /\ events \in Seq(Event)
      /\ Past(pending, revision) /\ Past(batch, revision) /\ Past(events, revision)
      /\ Ended(pending, open) /\ Ended(batch, open) /\ Marked(events, open, revision)
  BY DEF FeedInv, DataTypes, JournalInv, Changing, ViewInv, EndInv
<1>a. PICK op : \E closing \in BOOLEAN :
        Transaction(op, f, closing) /\ (open[f] \/ (revision[f] = 0 /\ closing = FALSE))
  BY Zenon DEF Create, Mutate, KernelClose
<1>2. PICK closing \in BOOLEAN :
        Transaction(op, f, closing) /\ (open[f] \/ (revision[f] = 0 /\ closing = FALSE))
  BY <1>a
<1>3. /\ revision' = [revision EXCEPT ![f] = @ + 1] /\ open' = [open EXCEPT ![f] = ~closing]
      /\ pending' = Append(pending, Committed(<<f, revision[f], closing>>))
      /\ UNCHANGED <<batch, events, requests, wire, attached, cursor, joined, shown, records,
                      resyncPending, closeRetry>>
  BY <1>2 DEF Transaction, server, mirror
<1>4. /\ revision' \in [Figures -> Nat] /\ revision'[f] = revision[f] + 1 /\ revision[f] \in Nat
      /\ \A g \in Figures : g # f => revision'[g] = revision[g] /\ revision[g] \in Nat /\ open'[g] = open[g]
      /\ open'[f] = ~closing
  BY <1>1, <1>3
<1>5. Ages(revision, open, revision', open')
  <2> SUFFICES ASSUME NEW g \in Figures
               PROVE  revision[g] <= revision'[g] /\ (revision[g] > 0 /\ open'[g] => open[g])
    BY DEF Ages
  <2>1. CASE g = f
    <3>1. revision[f] > 0 => open[f]
      BY <1>2, <1>4
    <3> QED
      BY <1>4, <2>1, <3>1
  <2>2. CASE g # f
    BY <1>4, <2>2
  <2> QED
    BY <2>1, <2>2
<1>6. AskInv' /\ ReachInv'
  BY <1>3, <1>4, <1>5, KernelView
<1>7. Ended(pending, open') /\ Ended(batch, open')
  BY <1>1, <1>5, EndedAges
<1>8. PICK own : own = Committed(<<f, revision[f], closing>>)
  OBVIOUS
<1>9. own \in Delta /\ own.fig = f /\ own.closing = closing
  BY <1>4, <1>8 DEF Committed, Delta
<1>10. PICK ds : ds = Append(pending, own)
  OBVIOUS
<1>11. /\ \A i \in 1..Len(pending) : ds[i] = pending[i]
       /\ ds[Len(ds)] = own /\ \A i \in 1..Len(ds) : i \in 1..Len(pending) \/ i = Len(ds)
  BY <1>1, <1>9, <1>10, AppendPlaces
<1>12. Ended(ds, open')
  <2> SUFFICES ASSUME NEW i \in 1..Len(ds), ds[i].closing PROVE ~open'[ds[i].fig]
    BY DEF Ended
  <2>1. CASE i \in 1..Len(pending)
    BY <1>7, <1>11, <2>1 DEF Ended
  <2>2. CASE i = Len(ds)
    BY <1>4, <1>9, <1>11, <2>2
  <2> QED
    BY <1>11, <2>1, <2>2
<1>13. Marked(events, open', revision')
  <2> SUFFICES ASSUME NEW i \in 1..Len(events)
               PROVE  /\ events[i].closing => events[i].kind = "closed"
                      /\ events[i].kind = "closed" => ~open'[events[i].fig]
                      /\ ~open'[events[i].fig] /\ events[i].base + 1 = revision'[events[i].fig] =>
                           events[i].kind = "closed"
    BY DEF Marked
  <2>1. events[i] \in Event
    BY <1>1
  <2>2. events[i].fig \in Figures /\ events[i].base \in Nat
    BY <2>1 DEF Event
  <2>3. events[i].base < revision[events[i].fig]
    BY <1>1 DEF Past
  <2>4. /\ events[i].closing => events[i].kind = "closed"
        /\ events[i].kind = "closed" => ~open[events[i].fig]
        /\ ~open[events[i].fig] /\ events[i].base + 1 = revision[events[i].fig] => events[i].kind = "closed"
    BY <1>1 DEF Marked
  <2>5. CASE events[i].fig # f
    BY <1>4, <2>2, <2>4, <2>5
  <2>6. CASE events[i].fig = f
    <3>1. revision[f] > 0 /\ events[i].base + 1 # revision'[f]
      BY <1>4, <2>2, <2>3, <2>6
    <3>2. open[f]
      BY <1>2, <3>1, <1>4
    <3> QED
      BY <2>4, <2>6, <3>1, <3>2
  <2> QED
    BY <2>5, <2>6
<1>14. EndInv'
  <2>1. pending' = ds /\ batch' = batch /\ events' = events
    BY <1>3, <1>8, <1>10
  <2> QED
    BY <1>7, <1>12, <1>13, <2>1 DEF EndInv
<1> QED
  BY <1>6, <1>14 DEF ViewInv

\* The journal that grows by what is published is marked.
LEMMA MarkedGrows ==
  ASSUME NEW ds \in Seq(Delta), NEW new, Drawn(new, ds), Ended(ds, open), open \in [Figures -> BOOLEAN],
         \A i \in 1..Len(new) : new[i].kind = IF open[new[i].fig] THEN "delta" ELSE "closed",
         NEW ev \in Seq(Event), NEW rev, Marked(ev, open, rev), NEW r, r = ev \o new
  PROVE  Marked(r, open, rev) /\ \A i \in 1..Len(ev) : r[i] = ev[i]
<1>1. new \in Seq(Event)
  BY DEF Drawn
<1>2. /\ \A i \in 1..Len(ev) : r[i] = ev[i]
      /\ \A i \in 1..Len(r) : \/ i \in 1..Len(ev) /\ r[i] = ev[i]
                              \/ i - Len(ev) \in 1..Len(new) /\ r[i] = new[i - Len(ev)]
  BY <1>1, JoinPlaces
<1>3. ASSUME NEW i \in 1..Len(new)
      PROVE  /\ new[i].closing => new[i].kind = "closed"
             /\ new[i].kind = "closed" => ~open[new[i].fig]
             /\ ~open[new[i].fig] => new[i].kind = "closed"
  <2>1. PICK j \in 1..Len(ds) : new[i].fig = ds[j].fig /\ new[i].closing = ds[j].closing
    BY DrawnFrom
  <2>2. ds[j].closing => ~open[ds[j].fig]
    BY DEF Ended
  <2>3. new[i].closing => ~open[new[i].fig]
    BY <2>1, <2>2, Zenon
  <2> QED
    BY <2>3
<1> QED
  BY <1>2, <1>3 DEF Marked

\* TakeDeltas, Publish and PublishFails.
LEMMA PublicationView ==
  ASSUME FeedInv, ViewInv, TakeDeltas \/ Publish \/ PublishFails
  PROVE  ViewInv'
<1>1. /\ revision \in [Figures -> Nat] /\ open \in [Figures -> BOOLEAN] /\ pending \in Seq(Delta)
      /\ batch \in Seq(Delta) /\ events \in Seq(Event)
      /\ Ended(pending, open) /\ Ended(batch, open) /\ Marked(events, open, revision)
  BY DEF FeedInv, DataTypes, ViewInv, EndInv
<1>2. /\ UNCHANGED <<requests, wire, attached, cursor, joined, shown, records, resyncPending, closeRetry,
                      revision, open>>
      /\ batch' = <<>> \/ batch' = pending
      /\ pending' = <<>> \/ pending' = pending
  BY DEF TakeDeltas, Publish, PublishFails, server, mirror, session, bounds
<1>3. Ages(revision, open, revision', open')
  BY <1>1, <1>2 DEF Ages
<1>4. \A e : Len(e) = 0 => Ended(e, open)
  BY DEF Ended
<1>5. Ended(batch', open') /\ Ended(pending', open')
  <2>1. \A e : e = <<>> => Len(e) = 0
    OBVIOUS
  <2> QED
    BY <1>1, <1>2, <1>4, <2>1, Zenon
<1>6. Marked(events', open, revision) /\ \A i \in 1..Len(events) : events'[i] = events[i]
  <2>1. CASE TakeDeltas
    BY <1>1, <2>1 DEF TakeDeltas
  <2>2. ASSUME NEW new, Drawn(new, batch), events' = events \o new,
               \A i \in 1..Len(new) : new[i].kind = IF open[new[i].fig] THEN "delta" ELSE "closed"
        PROVE  Marked(events', open, revision) /\ \A i \in 1..Len(events) : events'[i] = events[i]
    <3>1. PICK r : r = events \o new
      OBVIOUS
    <3>2. Marked(r, open, revision)
      BY <1>1, <2>2, <3>1, MarkedGrows
    <3>3. \A i \in 1..Len(events) : r[i] = events[i]
      BY <1>1, <2>2, <3>1, MarkedGrows
    <3> QED
      BY <2>2, <3>1, <3>2, <3>3
  <2>3. CASE Publish
    <3>1. PICK new \in Published(batch) : events' = events \o new
      BY <2>3 DEF Publish
    <3> QED
      BY <1>1, <2>2, <3>1, PublishedDrawn
  <2>4. CASE PublishFails
    <3>0. PICK new \in Published(batch) : \E n \in 0..Len(new) - 1 : events' = events \o SubSeq(new, 1, n)
      BY <2>4 DEF PublishFails
    <3>1. PICK n \in 0..Len(new) - 1 : events' = events \o SubSeq(new, 1, n)
      BY <3>0
    <3>2. /\ Drawn(new, batch)
          /\ \A i \in 1..Len(new) : new[i].kind = IF open[new[i].fig] THEN "delta" ELSE "closed"
      BY <1>1, PublishedDrawn
    <3>3. Len(new) \in Nat /\ n \in Nat /\ n <= Len(new)
      BY <3>1, <3>2 DEF Drawn
    <3>4. PICK part : part = SubSeq(new, 1, n)
      OBVIOUS
    <3>b. batch \in Seq(Delta) /\ Drawn(new, batch)
      BY <1>1, <3>2
    <3>c. Drawn(part, batch)
      BY <3>3, <3>4, <3>b, PrefixDrawn
    <3>d. Len(part) = n /\ \A i \in 1..n : i \in 1..Len(new) /\ part[i] = new[i]
      BY <3>3, <3>4, <3>b, PrefixDrawn
    <3>5. Drawn(part, batch) /\ Len(part) = n /\ \A i \in 1..n : i \in 1..Len(new) /\ part[i] = new[i]
      BY <3>c, <3>d
    <3>6. \A i \in 1..Len(part) : part[i].kind = IF open[part[i].fig] THEN "delta" ELSE "closed"
      BY <3>2, <3>5
    <3>7. events' = events \o part
      BY <3>1, <3>4
    <3> QED
      BY <2>2, <3>5, <3>6, <3>7
  <2> QED
    BY <2>1, <2>3, <2>4
<1>7. AskInv' /\ ReachInv'
  BY <1>1, <1>2, <1>3, <1>6, KernelView
<1>8. EndInv'
  BY <1>2, <1>5, <1>6 DEF EndInv
<1> QED
  BY <1>7, <1>8 DEF ViewInv

\* The session, the kernel and the journal decide what has ended.
LEMMA EndStays ==
  ASSUME ViewInv, UNCHANGED <<session, kernel, events>>
  PROVE  EndInv'
BY DEF ViewInv, EndInv, session, kernel

\* Messages and requests join others.
LEMMA SaysGrows ==
  ASSUME NEW w \in Seq(Message), NEW t \in Seq(Message), NEW r, r = w \o t, NEW op, NEW rev,
         \A k \in 1..Len(w) : Says(w[k], op, rev), \A k \in 1..Len(t) : Says(t[k], op, rev)
  PROVE  \A k \in 1..Len(r) : Says(r[k], op, rev)
<1>1. \A i \in 1..Len(r) : \/ i \in 1..Len(w) /\ r[i] = w[i]
                           \/ i - Len(w) \in 1..Len(t) /\ r[i] = t[i - Len(w)]
  BY JoinPlaces
<1> QED
  BY <1>1

\* The requests of a client that asks more.
LEMMA AsksGrow ==
  ASSUME NEW q \in Seq(Request), NEW t \in Seq(Request), NEW r, r = q \o t, NEW rev,
         \A k \in 1..Len(q) : Asks(q[k], rev), \A k \in 1..Len(t) : Asks(t[k], rev)
  PROVE  /\ \A k \in 1..Len(r) : Asks(r[k], rev)
         /\ \A f : Asked(q, f) => Asked(r, f)
         /\ \A f, w : Resuming(q, w, f) => Resuming(r, w, f)
<1>1. /\ \A i \in 1..Len(q) : i \in 1..Len(r) /\ r[i] = q[i]
      /\ \A i \in 1..Len(r) : \/ i \in 1..Len(q) /\ r[i] = q[i]
                              \/ i - Len(q) \in 1..Len(t) /\ r[i] = t[i - Len(q)]
  BY JoinPlaces
<1>2. \A k \in 1..Len(r) : Asks(r[k], rev)
  BY <1>1
<1>3. \A f : Asked(q, f) => Asked(r, f)
  BY <1>1 DEF Asked
<1>4. \A f, w : Resuming(q, w, f) => Resuming(r, w, f)
  BY <1>1 DEF Resuming
<1> QED
  BY <1>2, <1>3, <1>4

\* An answer under way stays under way.
LEMMA ResumingGrows ==
  ASSUME NEW w \in Seq(Message), NEW t \in Seq(Message), NEW r, r = w \o t, NEW q, NEW f, Resuming(q, w, f)
  PROVE  Resuming(q, r, f)
<1>1. \A i \in 1..Len(w) : i \in 1..Len(r) /\ r[i] = w[i]
  BY JoinPlaces
<1> QED
  BY <1>1 DEF Resuming

\* Poll and Idle.
LEMMA PollView ==
  ASSUME FeedInv, ViewInv, Poll \/ Idle
  PROVE  ViewInv'
<1>1. /\ events \in Seq(Event) /\ cursor \in Nat /\ cursor <= Len(events) /\ Len(events) \in Nat
      /\ wire \in Seq(Message) /\ requests \in Seq(Request) /\ open \in [Figures -> BOOLEAN]
      /\ Marked(events, open, revision)
  BY DEF FeedInv, DataTypes, ViewInv, EndInv
<1>2. /\ closeRetry = {}
      /\ \A i \in 1..Len(requests) : Asks(requests[i], revision)
      /\ \A k \in 1..Len(wire) : Says(wire[k], open, revision)
      /\ \A f \in Figures : f \notin records => shown[f] = 0
      /\ \A f \in resyncPending : Resuming(requests, wire, f)
  BY DEF ViewInv, AskInv
<1>3. EndInv'
  BY EndStays DEF Poll, Idle
<1>4. CASE Idle
  <2>1. UNCHANGED <<revision, open, closeRetry, requests, wire, attached, shown, records,
                    resyncPending, cursor, joined, events>>
    BY <1>4 DEF Idle, session, bounds, mirror
  <2>2. AskInv'
    BY <2>1 DEF ViewInv, AskInv
  <2>3. ReachInv'
    BY <2>1 DEF ViewInv, ReachInv
  <2> QED
    BY <1>3, <2>2, <2>3 DEF ViewInv
<1>5. CASE Poll
  <2>1. PICK t : t = After(events, cursor)
    OBVIOUS
  <2>2. t \in Seq(Message)
    BY <1>1, <2>1, AfterPlaces
  <2>3. \A i \in 1..Len(t) : cursor + i \in 1..Len(events) /\ t[i] = events[cursor + i] /\ t[i] \in Event
    BY <1>1, <2>1, AfterPlaces
  <2>4. \A i \in 1..Len(events) : i > cursor => i - cursor \in 1..Len(t) /\ t[i - cursor] = events[i]
    BY <1>1, <2>1, AfterPlaces
  <2>5. PICK w : w = wire \o t
    OBVIOUS
  <2>6. /\ wire' = w /\ cursor' = Len(events) /\ attached' /\ events' = events /\ requests' = requests
        /\ UNCHANGED <<revision, open, closeRetry, shown, records, resyncPending, joined>>
    BY <1>5, <2>1, <2>5 DEF Poll, session, bounds, mirror
  <2>7. ASSUME NEW i \in 1..Len(t)
        PROVE  Says(t[i], open, revision) /\ \A f : ~IsSnapshot(t[i], f)
    <3>1. t[i].kind \in {"delta", "closed"}
      BY <2>3 DEF Event
    <3>2. t[i].closing => t[i].kind = "closed"
      BY <1>1, <2>3 DEF Marked
    <3> QED
      BY <3>1, <3>2 DEF Says, IsSnapshot
  <2>8. \A k \in 1..Len(w) : Says(w[k], open, revision)
    BY <1>1, <1>2, <2>2, <2>5, <2>7, SaysGrows
  <2>9. \A f \in resyncPending : Resuming(requests, w, f)
    BY <1>1, <1>2, <2>2, <2>5, ResumingGrows
  <2>10. AskInv'
    BY <1>2, <2>6, <2>8, <2>9 DEF AskInv
  <2>11. ASSUME NEW i \in 1..Len(events)
         PROVE  /\ events[i].kind = "closed" /\ i \notin 1..joined =>
                     Ends(w, shown[events[i].fig], events[i].fig)
                /\ open[events[i].fig] => Comes(w, requests, shown[events[i].fig], events[i].fig, events[i].base)
    <3> DEFINE f == events[i].fig
               b == events[i].base
               n == shown[f]
    <3>1. CASE i \in 1..cursor
      <4>1. /\ events[i].kind = "closed" /\ i \notin 1..joined => Ends(wire, n, f)
            /\ open[f] => Comes(wire, requests, n, f, b)
        BY <3>1 DEF ViewInv, ReachInv
      <4> HIDE DEF f, b, n
      <4>2. /\ \A j \in 1..Len(t) : ~IsSnapshot(t[j], f)
            /\ \A j \in 1..Len(t) : IsSnapshot(t[j], f) => b < t[j].rev
        BY <2>7
      <4>3. Ends(wire, n, f) => Ends(w, n, f)
        BY <1>1, <2>2, <2>5, <4>2, EndsGrows
      <4>4. Comes(wire, requests, n, f, b) => Comes(w, requests, n, f, b)
        BY <1>1, <2>2, <2>5, <4>2, ComesGrows
      <4>5. /\ events[i].kind = "closed" /\ i \notin 1..joined => Ends(w, n, f)
            /\ open[f] => Comes(w, requests, n, f, b)
        BY <4>1, <4>3, <4>4
      <4> QED
        BY <4>5 DEF f, b, n
    <3>2. CASE i \notin 1..cursor
      <4>1. i > cursor
        BY <1>1, <3>2
      <4>2. PICK p : p = Len(wire) + (i - cursor)
        OBVIOUS
      <4>3. i - cursor \in 1..Len(t) /\ t[i - cursor] = events[i]
        BY <2>4, <4>1
      <4>4. /\ \A j \in 1..Len(t) : Len(wire) + j \in 1..Len(w) /\ w[Len(wire) + j] = t[j]
            /\ \A j \in 1..Len(w) : \/ j \in 1..Len(wire) /\ w[j] = wire[j]
                                    \/ /\ j > Len(wire) /\ j - Len(wire) \in 1..Len(t)
                                       /\ w[j] = t[j - Len(wire)]
        BY <1>1, <2>2, <2>5, JoinPlaces
      <4>5. p \in 1..Len(w) /\ w[p] = events[i]
        BY <4>2, <4>3, <4>4
      <4>6. Len(wire) \in Nat /\ \A j \in 1..Len(wire) : j < p
        BY <1>1, <4>1, <4>2
      <4>7. \A j \in 1..Len(w) : IsSnapshot(w[j], f) => j < p
        BY <2>7, <4>4, <4>6
      <4>8. events[i] \in Event
        BY <1>1
      <4>9. /\ events[i].kind \in {"delta", "closed"}
            /\ events[i].kind = "closed" => ~open[f]
        BY <1>1, <4>8 DEF Marked, Event
      <4>10. ASSUME events[i].kind = "closed" PROVE Ends(w, n, f)
        <5>1. IsClosing(w[p], f)
          BY <4>5, <4>10 DEF IsClosing
        <5> HIDE DEF f, b, n
        <5> QED
          BY <4>5, <4>7, <5>1 DEF Ends
      <4>11. ASSUME open[f] PROVE Comes(w, requests, n, f, b)
        <5>1. IsChange(w[p], f, b)
          BY <4>5, <4>9, <4>11 DEF IsChange
        <5> HIDE DEF f, b, n
        <5> QED
          BY <4>5, <4>7, <5>1 DEF Comes
      <4> QED
        BY <4>10, <4>11
    <3> QED
      BY <3>1, <3>2
  <2>12. ReachInv'
    BY <2>6, <2>11 DEF ReachInv
  <2> QED
    BY <1>3, <2>10, <2>12 DEF ViewInv
<1> QED
  BY <1>4, <1>5

\* HandleInitialize: the view promises every Figure that is open.
LEMMA InitializeView ==
  ASSUME FeedInv, ViewInv, HandleInitialize
  PROVE  ViewInv'
<1>1. /\ Handling("initialize") /\ attached' /\ wire' = wire \o <<View({f \in Figures : open[f]})>>
      /\ cursor' = Len(events) /\ joined' = Len(events)
      /\ UNCHANGED <<session, kernel, events, mirror, bounds>>
  BY DEF HandleInitialize, Reply
<1>2. requests # <<>> /\ requests' = Tail(requests) /\ ~attached
  <2>1. attached = ("initialize" # "initialize") /\ requests # <<>> /\ requests' = Tail(requests)
    BY <1>1, Zenon DEF Handling
  <2>2. ~attached
    BY <2>1, Zenon
  <2> QED
    BY <2>1, <2>2
<1>3. /\ wire \in Seq(Message) /\ requests \in Seq(Request) /\ events \in Seq(Event)
      /\ shown \in [Figures -> Nat]
  BY DEF FeedInv, DataTypes
<1>4. /\ closeRetry = {}
      /\ \A i \in 1..Len(requests) : Asks(requests[i], revision)
      /\ Len(wire) = 0 /\ \A f \in Figures : f \notin records => shown[f] = 0
      /\ \A f \in resyncPending : Resuming(requests, wire, f)
  BY <1>2 DEF ViewInv, AskInv
<1>5. PICK m : m = View({f \in Figures : open[f]})
  OBVIOUS
<1>6. m \in Message /\ m.kind = "view" /\ \A f \in Figures : open[f] => f \in m.figs
  BY <1>5 DEF View, Views, Message
<1>7. PICK t : t = <<m>>
  OBVIOUS
<1>8. t \in Seq(Message) /\ \A i \in 1..Len(t) : t[i] = m
  BY <1>6, <1>7, OneMessage
<1>9. wire' = wire \o t
  BY <1>1, <1>5, <1>7
<1>10. (\A k \in 1..Len(wire') : wire'[k] = m) /\ 1 \in 1..Len(wire') /\ wire'[1] = m
  <2>1. PICK w : w = wire \o t
    OBVIOUS
  <2>2. /\ \A i \in 1..Len(w) : \/ i \in 1..Len(wire) /\ w[i] = wire[i]
                                \/ i - Len(wire) \in 1..Len(t) /\ w[i] = t[i - Len(wire)]
        /\ \A i \in 1..Len(t) : Len(wire) + i \in 1..Len(w) /\ w[Len(wire) + i] = t[i]
    BY <1>3, <1>8, <2>1, JoinPlaces
  <2>3. 1 \in 1..Len(t)
    BY <1>6, <1>7, OneMessage
  <2>4. 1 \in 1..Len(w) /\ w[1] = m
    BY <1>4, <1>8, <2>2, <2>3
  <2>5. \A k \in 1..Len(w) : w[k] = m
    BY <1>4, <1>8, <2>2
  <2> QED
    BY <1>9, <2>1, <2>4, <2>5
<1>11. Says(m, open, revision) /\ \A f : ~IsSnapshot(m, f)
  BY <1>6 DEF Says, IsSnapshot
<1>12. /\ \A i \in 1..Len(requests') : i + 1 \in 1..Len(requests) /\ requests'[i] = requests[i + 1]
       /\ \A i \in 1..Len(requests) : i # 1 => i - 1 \in 1..Len(requests') /\ requests'[i - 1] = requests[i]
       /\ Head(requests) = requests[1]
  BY <1>2, <1>3, TailPlaces
<1>13. \A f \in resyncPending : Resuming(requests', wire', f)
  <2> SUFFICES ASSUME NEW f \in resyncPending PROVE \E i \in 1..Len(requests') : IsResync(requests'[i], f)
    BY DEF Resuming
  <2>1. PICK i \in 1..Len(requests) : IsResync(requests[i], f)
    BY <1>4 DEF Resuming
  <2>2. i # 1
    BY <1>1, <1>12, <2>1 DEF Handling, IsResync
  <2> QED
    BY <1>12, <2>1, <2>2
<1>14. AskInv'
  <2>1. UNCHANGED <<revision, open, shown, records, resyncPending, closeRetry>>
    BY <1>1 DEF session, mirror
  <2>2. \A i \in 1..Len(requests') : Asks(requests'[i], revision)
    BY <1>4, <1>12
  <2>3. \A k \in 1..Len(wire') : Says(wire'[k], open, revision)
    BY <1>10, <1>11
  <2> QED
    BY <1>1, <1>4, <1>13, <2>1, <2>2, <2>3 DEF AskInv
<1>15. ReachInv'
  <2>1. UNCHANGED <<open, shown, events>>
    BY <1>1 DEF session, mirror
  <2>2. \A i \in 1..Len(events) : events[i].fig \in Figures
    <3>1. \A i \in 1..Len(events) : events[i] \in Event
      BY <1>3
    <3> QED
      BY <3>1 DEF Event
  <2>3. \A k \in 1..Len(wire') : \A f : ~IsSnapshot(wire'[k], f)
    BY <1>10, <1>11
  <2>4. \A f \in Figures : open[f] => Promised(wire', f)
    BY <1>6, <1>10 DEF Promised
  <2>5. ASSUME NEW f \in Figures, NEW b, NEW n, open[f] PROVE Comes(wire', requests', n, f, b)
    BY <2>3, <2>4, <2>5 DEF Comes
  <2>6. ASSUME NEW i \in 1..Len(events)
        PROVE  open[events[i].fig] =>
                 Comes(wire', requests', shown[events[i].fig], events[i].fig, events[i].base)
    BY <2>2, <2>5
  <2> QED
    BY <1>1, <2>1, <2>6 DEF ReachInv
<1>16. EndInv'
  BY <1>1, EndStays
<1> QED
  BY <1>14, <1>15, <1>16 DEF ViewInv

\* The first request is one of those a viewer makes.
LEMMA HeadAsks ==
  ASSUME FeedInv, ViewInv, requests # <<>>
  PROVE  /\ requests \in Seq(Request) /\ Head(requests) \in Request /\ Head(requests).fig \in Figures
         /\ Asks(Head(requests), revision) /\ Head(requests) = requests[1] /\ 1 \in 1..Len(requests)
<1>1. requests \in Seq(Request)
  BY DEF FeedInv, DataTypes
<1>2. PICK r : r = Tail(requests)
  OBVIOUS
<1>3. Len(requests) \in Nat /\ Len(requests) > 0 /\ Head(requests) = requests[1] /\ requests[1] \in Request
  BY <1>1, <1>2, TailPlaces
<1>4. 1 \in 1..Len(requests)
  BY <1>3
<1>5. Asks(requests[1], revision)
  BY <1>4 DEF ViewInv, AskInv
<1>6. requests[1].fig \in Figures
  BY <1>3 DEF Request
<1> QED
  BY <1>1, <1>3, <1>4, <1>5, <1>6

\* A viewer mutates nothing.
LEMMA NoMutation ==
  ASSUME FeedInv, ViewInv
  PROVE  ~Handling("closeFigure") /\ ~Handling("setAxesLimits")
<1>1. ASSUME NEW type, Handling(type) PROVE type \in {"initialize", "getSnapshot", "resyncFigure"}
  <2>1. requests # <<>> /\ Head(requests).type = type
    BY <1>1 DEF Handling
  <2> QED
    BY <2>1, HeadAsks DEF Asks
<1> QED
  BY <1>1

\* HandleSnapshot: the answer is as new as all that was journaled.
LEMMA SnapshotView ==
  ASSUME FeedInv, ViewInv, HandleSnapshot
  PROVE  ViewInv'
<1>a. PICK r, k, n : r = Head(requests) /\ k = (IF open[r.fig] THEN "snapshot" ELSE "failed") /\ n = revision[r.fig]
  OBVIOUS
<1>b. PICK m : m = Response(k, r, n)
  OBVIOUS
<1>c. PICK t : t = <<m>>
  OBVIOUS
<1>1. /\ Handling("getSnapshot") \/ Handling("resyncFigure")
      /\ wire' = wire \o t
      /\ UNCHANGED <<session, kernel, events, attached, cursor, joined, announced, mirror, bounds, fault>>
  BY <1>a, <1>b, <1>c, Zenon DEF HandleSnapshot, Reply
<1>2. requests # <<>> /\ requests' = Tail(requests)
  BY <1>1 DEF Handling
<1>d. attached
  <2>1. attached = ("getSnapshot" # "initialize") \/ attached = ("resyncFigure" # "initialize")
    BY <1>1, Zenon DEF Handling
  <2>2. ("getSnapshot" # "initialize") = TRUE /\ ("resyncFigure" # "initialize") = TRUE
    OBVIOUS
  <2> QED
    BY <2>1, <2>2, Zenon
<1>3. /\ wire \in Seq(Message) /\ requests \in Seq(Request) /\ events \in Seq(Event)
      /\ shown \in [Figures -> Nat] /\ revision \in [Figures -> Nat] /\ open \in [Figures -> BOOLEAN]
      /\ cursor \in Nat /\ cursor <= Len(events) /\ Past(events, revision)
      /\ Marked(events, open, revision)
  BY DEF FeedInv, DataTypes, JournalInv, Changing, ViewInv, EndInv
<1>4. /\ closeRetry = {}
      /\ \A i \in 1..Len(requests) : Asks(requests[i], revision)
      /\ \A i \in 1..Len(wire) : Says(wire[i], open, revision)
      /\ \A f \in Figures : f \notin records => shown[f] = 0
      /\ \A f \in resyncPending : Resuming(requests, wire, f)
  BY DEF ViewInv, AskInv
<1>5. r \in Request /\ r.fig \in Figures /\ Asks(r, revision) /\ r = requests[1] /\ 1 \in 1..Len(requests)
  BY <1>2, <1>a, HeadAsks
<1>6. k \in {"snapshot", "failed"} /\ (k = "snapshot" <=> open[r.fig]) /\ n \in Nat /\ k \in ResponseKinds
  BY <1>3, <1>5, <1>a DEF ResponseKinds
<1>7. m \in Responses /\ m.kind = k /\ m.rev = n /\ m.request = r
  BY <1>5, <1>6, <1>b DEF Response, Responses
<1>8. m \in Message
  BY <1>7 DEF Message
<1>9. t \in Seq(Message) /\ Len(t) = 1 /\ t[1] = m /\ \A i \in 1..Len(t) : i = 1 /\ t[i] = m
  BY <1>8, <1>c, OneMessage
<1>10. Says(m, open, revision)
  BY <1>5, <1>6, <1>7 DEF Says, Asks
<1>11. PICK w, q : w = wire \o t /\ q = Tail(requests)
  OBVIOUS
<1>12. \A i \in 1..Len(w) : Says(w[i], open, revision)
  BY <1>3, <1>4, <1>9, <1>10, <1>11, SaysGrows
<1>13. /\ \A i \in 1..Len(q) : i + 1 \in 1..Len(requests) /\ q[i] = requests[i + 1]
       /\ \A i \in 1..Len(requests) : i # 1 => i - 1 \in 1..Len(q) /\ q[i - 1] = requests[i]
  BY <1>2, <1>3, <1>11, TailPlaces
<1>14. /\ \A j \in 1..Len(wire) : j \in 1..Len(w) /\ w[j] = wire[j]
       /\ \A j \in 1..Len(t) : Len(wire) + j \in 1..Len(w) /\ w[Len(wire) + j] = t[j]
  <2>1. wire \in Seq(Message) /\ t \in Seq(Message) /\ w = wire \o t
    BY <1>3, <1>9, <1>11
  <2> QED
    BY <2>1, JoinPlaces
<1>15. Len(wire) + 1 \in 1..Len(w) /\ w[Len(wire) + 1] = m
  BY <1>9, <1>14
<1>16. ASSUME NEW f \in resyncPending PROVE Resuming(q, w, f)
  <2>1. CASE \E i \in 1..Len(requests) : IsResync(requests[i], f)
    <3>1. PICK i \in 1..Len(requests) : IsResync(requests[i], f)
      BY <2>1
    <3>2. CASE i = 1
      <4>1. IsResynced(m, f)
        BY <1>5, <1>6, <1>7, <3>1, <3>2 DEF IsResynced
      <4> QED
        BY <1>15, <4>1 DEF Resuming
    <3>3. CASE i # 1
      BY <1>13, <3>1, <3>3 DEF Resuming
    <3> QED
      BY <3>2, <3>3
  <2>2. CASE \E j \in 1..Len(wire) : IsResynced(wire[j], f)
    BY <1>14, <2>2 DEF Resuming
  <2> QED
    BY <1>4, <2>1, <2>2 DEF Resuming
<1>17. \A f : Asked(requests, f) => f = r.fig \/ Asked(q, f)
  <2> SUFFICES ASSUME NEW f, Asked(requests, f), f # r.fig PROVE Asked(q, f)
    OBVIOUS
  <2>1. PICK i \in 1..Len(requests) : requests[i].type \in {"getSnapshot", "resyncFigure"} /\ requests[i].fig = f
    BY DEF Asked
  <2>2. i # 1
    BY <1>5, <2>1
  <2> QED
    BY <1>13, <2>1, <2>2 DEF Asked
<1>u. /\ wire' = w /\ requests' = q
      /\ UNCHANGED <<revision, open, shown, records, resyncPending, closeRetry, attached, events, cursor, joined>>
  BY <1>1, <1>2, <1>11 DEF session, mirror
<1>18. AskInv'
  <2>2. \A i \in 1..Len(q) : Asks(q[i], revision)
    BY <1>4, <1>13
  <2> QED
    BY <1>d, <1>4, <1>12, <1>16, <1>u, <2>2 DEF AskInv
<1>19. ASSUME NEW i \in 1..cursor
       PROVE  /\ events[i].kind = "closed" /\ i \notin 1..joined =>
                   Ends(w, shown[events[i].fig], events[i].fig)
              /\ open[events[i].fig] => Comes(w, q, shown[events[i].fig], events[i].fig, events[i].base)
  <2>0. i \in 1..Len(events)
    BY <1>3
  <2>1. PICK f, b, s : f = events[i].fig /\ b = events[i].base /\ s = shown[f]
    OBVIOUS
  <2>2. /\ events[i].kind = "closed" /\ i \notin 1..joined => Ends(wire, s, f)
        /\ open[f] => Comes(wire, requests, s, f, b)
    BY <2>1 DEF ViewInv, ReachInv
  <2>3. b < revision[f] /\ (events[i].kind = "closed" => ~open[f])
    BY <1>3, <2>0, <2>1 DEF Past, Marked
  <2>4. ASSUME events[i].kind = "closed", i \notin 1..joined PROVE Ends(w, s, f)
    <3>1. \A j \in 1..Len(t) : ~IsSnapshot(t[j], f)
      BY <1>6, <1>7, <1>9, <2>3, <2>4 DEF IsSnapshot
    <3> QED
      BY <1>3, <1>9, <1>11, <2>2, <2>4, <3>1, EndsGrows
  <2>5. ASSUME open[f] PROVE Comes(w, q, s, f, b)
    <3>1. \A j \in 1..Len(t) : IsSnapshot(t[j], f) => b < t[j].rev
      BY <1>a, <1>7, <1>9, <2>3 DEF IsSnapshot
    <3>2. 1 \in 1..Len(t) /\ (f = r.fig => IsSnapshot(t[1], f))
      BY <1>6, <1>7, <1>9, <2>5 DEF IsSnapshot
    <3>3. Asked(requests, f) => Asked(q, f) \/ \E j \in 1..Len(t) : IsSnapshot(t[j], f)
      BY <1>17, <3>2
    <3>4. Comes(wire, requests, s, f, b) /\ t \in Seq(Message)
      BY <1>9, <2>2, <2>5
    <3> QED
      BY <1>3, <1>11, <3>1, <3>3, <3>4, ComesGrows
  <2> QED
    BY <2>1, <2>4, <2>5
<1>20. ReachInv'
  BY <1>19, <1>u DEF ReachInv
<1>21. EndInv'
  BY <1>1, EndStays
<1> QED
  BY <1>18, <1>20, <1>21 DEF ViewInv

\* No other answer is given.
LEMMA ServerView ==
  ASSUME FeedInv, ViewInv, ServerNext
  PROVE  ViewInv'
<1>1. ~RefuseMutation /\ ~HandleLimits /\ ~HandleClose /\ ~MutationFails
  BY NoMutation DEF RefuseMutation, HandleLimits, HandleClose, MutationFails
<1> QED
  BY <1>1, PollView, InitializeView, SnapshotView DEF ServerNext
----------------------------------------------------------------------------
\* The client reads w[1] and shows now of f, not n any more: it is newer, or
\* a change it did not apply is made up for.
Reads(w, q, n, now, f, op) ==
  \/ ~(now > 0)
  \/ IsSnapshot(w[1], f) /\ now = w[1].rev
  \/ /\ n > 0 /\ n <= now /\ ~IsSnapshot(w[1], f) /\ ~IsClosing(w[1], f)
     /\ op => \A b : IsChange(w[1], f, b) =>
          \/ b < now \/ Asked(q, f)
          \/ \E k \in 1..Len(w) : k # 1 /\ IsSnapshot(w[k], f) /\ b < w[k].rev

\* A message about something else.
LEMMA ReadsOther ==
  ASSUME NEW w, NEW q, NEW n \in Nat, NEW f, NEW op,
         ~IsSnapshot(w[1], f), ~IsClosing(w[1], f), \A b : ~IsChange(w[1], f, b)
  PROVE  Reads(w, q, n, n, f, op)
BY DEF Reads

\* An answer that was not read yet is still under way.
LEMMA ResumingShrinks ==
  ASSUME NEW w \in Seq(Message), w # <<>>, NEW r, r = Tail(w), NEW q, NEW f, Resuming(q, w, f),
         ~IsResynced(w[1], f)
  PROVE  Resuming(q, r, f)
<1>1. \A i \in 1..Len(w) : i # 1 => i - 1 \in 1..Len(r) /\ r[i - 1] = w[i]
  BY TailPlaces
<1>2. CASE \E i \in 1..Len(q) : IsResync(q[i], f)
  BY <1>2 DEF Resuming
<1>3. CASE \E k \in 1..Len(w) : IsResynced(w[k], f)
  <2>1. PICK k \in 1..Len(w) : IsResynced(w[k], f)
    BY <1>3
  <2>2. k # 1
    BY <2>1
  <2> QED
    BY <1>1, <2>1, <2>2 DEF Resuming
<1> QED
  BY <1>2, <1>3 DEF Resuming

\* A message is read and some requests are sent.
LEMMA ReadView ==
  ASSUME FeedInv, ViewInv, wire # <<>>, wire' = Tail(wire), UNCHANGED Elsewhere, closeRetry' = {},
         NEW t \in Seq(Request), requests' = requests \o t, \A k \in 1..Len(t) : Asks(t[k], revision),
         \A f \in Figures : f \notin records' => shown'[f] = 0,
         \A f \in resyncPending' : \/ f \in resyncPending /\ ~IsResynced(wire[1], f)
                                   \/ \E i \in 1..Len(t) : IsResync(t[i], f),
         \A f \in Figures : Reads(wire, requests', shown[f], shown'[f], f, open[f]),
         \A f \in Figures : Promised(wire, f) => Asked(requests', f),
         shown' \in [Figures -> Nat]
  PROVE  ViewInv'
<1>1. /\ wire \in Seq(Message) /\ requests \in Seq(Request) /\ events \in Seq(Event)
      /\ shown \in [Figures -> Nat] /\ cursor \in Nat /\ cursor <= Len(events)
      /\ resyncPending \subseteq Figures
  BY DEF FeedInv, DataTypes
<1>2. /\ \A i \in 1..Len(requests) : Asks(requests[i], revision)
      /\ \A i \in 1..Len(wire) : Says(wire[i], open, revision)
      /\ ~attached => Len(wire) = 0
      /\ \A f \in resyncPending : Resuming(requests, wire, f)
  BY DEF ViewInv, AskInv
<1>3. PICK w, q : w = Tail(wire) /\ q = requests \o t
  OBVIOUS
<1>4. wire' = w /\ requests' = q /\ w = Tail(wire) /\ q = requests \o t
  BY <1>3
<1>5. /\ Len(wire) \in Nat /\ Len(wire) > 0
      /\ \A i \in 1..Len(w) : i + 1 \in 1..Len(wire) /\ w[i] = wire[i + 1]
  BY <1>1, <1>4, TailPlaces
<1>6. attached
  BY <1>2, <1>5
<1>7. \A k \in 1..Len(q) : Asks(q[k], revision)
  BY <1>1, <1>2, <1>4, AsksGrow
<1>8. \A f : Asked(requests, f) => Asked(q, f)
  BY <1>1, <1>2, <1>4, AsksGrow
<1>9. \A f : Resuming(requests, wire, f) => Resuming(q, wire, f)
  BY <1>1, <1>2, <1>4, AsksGrow
<1>10. \A i \in 1..Len(t) : Len(requests) + i \in 1..Len(q) /\ q[Len(requests) + i] = t[i]
  BY <1>1, <1>4, JoinPlaces
<1>11. \A k \in 1..Len(w) : Says(w[k], open, revision)
  BY <1>2, <1>5
<1>12. ASSUME NEW f \in resyncPending' PROVE Resuming(q, w, f)
  <2>1. CASE f \in resyncPending /\ ~IsResynced(wire[1], f)
    <3>1. Resuming(q, wire, f)
      BY <1>2, <1>9, <2>1
    <3> QED
      BY <1>1, <1>4, <2>1, <3>1, ResumingShrinks
  <2>2. CASE \E i \in 1..Len(t) : IsResync(t[i], f)
    BY <1>10, <2>2 DEF Resuming
  <2> QED
    BY <2>1, <2>2
<1>13. UNCHANGED <<revision, open, attached, cursor, joined, events>> /\ UNCHANGED <<session, kernel, events>>
  BY DEF Elsewhere, session, server
<1>14. AskInv'
  <2>1. attached'
    BY <1>6, <1>13
  <2> QED
    BY <1>2, <1>4, <1>7, <1>11, <1>12, <1>13, <2>1 DEF AskInv
<1>15. ASSUME NEW i \in 1..cursor
       PROVE  /\ events[i].kind = "closed" /\ i \notin 1..joined =>
                   Ends(w, shown'[events[i].fig], events[i].fig)
              /\ open[events[i].fig] => Comes(w, q, shown'[events[i].fig], events[i].fig, events[i].base)
  <2>0. events[i] \in Event
    BY <1>1
  <2>1. PICK f, b, n, now : f = events[i].fig /\ b = events[i].base /\ n = shown[f] /\ now = shown'[f]
    OBVIOUS
  <2>a. f \in Figures /\ b \in Nat
    BY <2>0, <2>1 DEF Event
  <2>b. n \in Nat /\ now \in Nat /\ Reads(wire, q, n, now, f, open[f])
    BY <1>1, <1>4, <2>1, <2>a
  <2>2. /\ events[i].kind = "closed" /\ i \notin 1..joined => Ends(wire, n, f)
        /\ open[f] => Comes(wire, requests, n, f, b)
    BY <2>1 DEF ViewInv, ReachInv
  <2>3. ASSUME events[i].kind = "closed", i \notin 1..joined PROVE Ends(w, now, f)
    <3>1. \/ ~(now > 0)
          \/ ~IsClosing(wire[1], f) /\ (n > 0 \/ IsSnapshot(wire[1], f))
      BY <2>b DEF Reads, IsSnapshot, IsClosing
    <3>2. Ends(wire, n, f)
      BY <2>2, <2>3
    <3> QED
      BY <1>1, <1>4, <3>1, <3>2, EndsShrinks
  <2>4. ASSUME open[f] PROVE Comes(w, q, now, f, b)
    <3>1. /\ Comes(wire, requests, n, f, b)
          /\ Asked(requests, f) => Asked(q, f)
          /\ Promised(wire, f) => Asked(q, f)
      BY <1>4, <1>8, <2>2, <2>4, <2>a
    <3>2. \/ ~(now > 0)
          \/ IsSnapshot(wire[1], f) /\ now = wire[1].rev
          \/ /\ n > 0 /\ (b < n => b < now) /\ ~IsSnapshot(wire[1], f)
             /\ IsChange(wire[1], f, b) =>
                  b < now \/ Asked(q, f) \/ \E k \in 1..Len(wire) : k # 1 /\ IsSnapshot(wire[k], f) /\ b < wire[k].rev
      BY <2>4, <2>a, <2>b DEF Reads
    <3> QED
      BY <1>1, <1>4, <3>1, <3>2, ComesShrinks
  <2> QED
    BY <2>1, <2>3, <2>4
<1>16. ReachInv'
  BY <1>4, <1>13, <1>15 DEF ReachInv
<1>17. EndInv'
  BY <1>13, EndStays
<1> QED
  BY <1>14, <1>16, <1>17 DEF ViewInv

\* Some requests are sent.
LEMMA AskView ==
  ASSUME FeedInv, ViewInv, UNCHANGED <<session, kernel, events, attached, cursor, joined, wire, shown>>,
         UNCHANGED <<resyncPending, closeRetry>>, records \subseteq records',
         NEW t \in Seq(Request), requests' = requests \o t, \A k \in 1..Len(t) : Asks(t[k], revision)
  PROVE  ViewInv'
<1>1. requests \in Seq(Request)
  BY DEF FeedInv, DataTypes
<1>2. PICK q : q = requests \o t
  OBVIOUS
<1>3. \A i \in 1..Len(requests) : Asks(requests[i], revision)
  BY DEF ViewInv, AskInv
<1>4. \A k \in 1..Len(q) : Asks(q[k], revision)
  BY <1>1, <1>2, <1>3, AsksGrow
<1>5. \A f : Asked(requests, f) => Asked(q, f)
  BY <1>1, <1>2, <1>3, AsksGrow
<1>6. \A f : Resuming(requests, wire, f) => Resuming(q, wire, f)
  BY <1>1, <1>2, <1>3, AsksGrow
<1>7. UNCHANGED <<revision, open>> /\ requests' = q
  BY <1>2 DEF session
<1>8. AskInv'
  BY <1>4, <1>6, <1>7 DEF ViewInv, AskInv
<1>9. \A w, n, f, b : Comes(w, requests, n, f, b) => Comes(w, q, n, f, b)
  BY <1>5 DEF Comes
<1>10. ReachInv'
  BY <1>7, <1>9 DEF ViewInv, ReachInv
<1>11. EndInv'
  BY EndStays
<1> QED
  BY <1>8, <1>10, <1>11 DEF ViewInv

\* RequestSnapshots only asks.
LEMMA RequestsAsk ==
  ASSUME FeedInv, NEW figs \in SUBSET Figures, NEW now, RequestSnapshots(figs, now)
  PROVE  /\ records' = records \cup figs
         /\ \E t \in Seq(Request) : /\ requests' = requests \o t
                                    /\ \A k \in 1..Len(t) : Asks(t[k], revision)
                                    /\ now /\ snapshotPending = {} => \A f \in figs : Asked(t, f)
<1>1. PICK ask : ask = IF now THEN figs \ snapshotPending ELSE {}
  OBVIOUS
<1>2. ask \in SUBSET Figures
  BY <1>1
<1>3. records' = records \cup figs /\ requests' = requests \o SnapshotRequests(ask)
  BY <1>1, Zenon DEF RequestSnapshots, Send
<1>4. PICK t : t = SnapshotRequests(ask)
  OBVIOUS
<1>5. t \in Seq(Request) /\ \A i \in 1..Len(t) : t[i].type = "getSnapshot"
  BY <1>2, <1>4, SnapshotRequestsTyped
<1>6. \A k \in 1..Len(t) : Asks(t[k], revision)
  BY <1>5 DEF Asks
<1>7. \A f \in ask : \E i \in 1..Len(t) : t[i].fig = f
  BY <1>2, <1>4, SnapshotRequestsCover
<1>8. now /\ snapshotPending = {} => \A f \in figs : Asked(t, f)
  <2>1. \A f \in ask : Asked(t, f)
    BY <1>5, <1>7 DEF Asked
  <2>2. now /\ snapshotPending = {} => ask = figs
    BY <1>1
  <2> QED
    BY <2>1, <2>2
<1>9. requests' = requests \o t
  BY <1>3, <1>4
<1> QED
  BY <1>3, <1>5, <1>6, <1>8, <1>9, Zenon

\* Connect and Discover read nothing from the graphics socket.
LEMMA AskingView ==
  ASSUME FeedInv, ViewInv, Connect \/ \E f \in Figures : Discover(f)
  PROVE  ViewInv'
<1>1. requests \in Seq(Request) /\ discoveries \subseteq Figures
  BY DEF FeedInv, DataTypes
<1>2. CASE Connect
  <2>1. PICK f \in discoveries : requests' = requests \o <<Req("initialize", f, 0, FALSE)>>
    BY <1>2 DEF Connect, Send
  <2>2. PICK q : q = Req("initialize", f, 0, FALSE)
    OBVIOUS
  <2>3. q \in Request /\ Asks(q, revision)
    BY <1>1, <2>1, <2>2 DEF Req, Request, RequestTypes, Asks
  <2>4. PICK t : t = <<q>>
    OBVIOUS
  <2>5. t \in Seq(Request) /\ \A k \in 1..Len(t) : t[k] = q
    BY <2>3, <2>4
  <2>6. requests' = requests \o t /\ \A k \in 1..Len(t) : Asks(t[k], revision)
    BY <2>1, <2>2, <2>3, <2>4, <2>5
  <2>7. /\ UNCHANGED <<session, kernel, events, attached, cursor, joined, wire, shown>>
        /\ UNCHANGED <<resyncPending, closeRetry>> /\ records \subseteq records'
    BY <1>2 DEF Connect, server
  <2> QED
    BY <2>5, <2>6, <2>7, AskView
<1>3. CASE \E f \in Figures : Discover(f)
  <2>1. PICK f \in Figures : Discover(f)
    BY <1>3
  <2>2. PICK figs, now : figs = {f} /\ now = (phase = "attached")
    OBVIOUS
  <2>3. RequestSnapshots(figs, now)
    BY <2>1, <2>2, Zenon DEF Discover
  <2>4. figs \in SUBSET Figures
    BY <2>1, <2>2
  <2>5. /\ records' = records \cup figs
        /\ \E t \in Seq(Request) : /\ requests' = requests \o t
                                   /\ \A k \in 1..Len(t) : Asks(t[k], revision)
    BY <2>3, <2>4, RequestsAsk, Zenon
  <2>6. PICK t \in Seq(Request) : /\ requests' = requests \o t
                                  /\ \A k \in 1..Len(t) : Asks(t[k], revision)
    BY <2>5
  <2>7. /\ UNCHANGED <<session, kernel, events, attached, cursor, joined, wire, shown>>
        /\ UNCHANGED <<resyncPending, closeRetry>> /\ records \subseteq records'
    BY <2>1, <2>5 DEF Discover, server
  <2> QED
    BY <2>6, <2>7, AskView
<1> QED
  BY <1>2, <1>3

\* The first message is one that a viewer is sent.
LEMMA HeadSays ==
  ASSUME FeedInv, ViewInv, wire # <<>>
  PROVE  /\ wire \in Seq(Message) /\ Head(wire) = wire[1] /\ 1 \in 1..Len(wire)
         /\ Says(wire[1], open, revision) /\ requests \in Seq(Request)
         /\ shown \in [Figures -> Nat] /\ closeRetry = {}
         /\ \A f \in Figures : f \notin records => shown[f] = 0
         /\ \A f \in resyncPending : f \in Figures
<1>1. PICK w : w = Tail(wire)
  OBVIOUS
<1>2. Head(wire) = wire[1] /\ 1 \in 1..Len(wire) /\ wire \in Seq(Message) /\ shown \in [Figures -> Nat]
  BY <1>1, Reception
<1>3. /\ Says(wire[1], open, revision) /\ closeRetry = {}
      /\ \A f \in Figures : f \notin records => shown[f] = 0
  BY <1>2 DEF ViewInv, AskInv
<1>4. requests \in Seq(Request) /\ resyncPending \subseteq Figures
  BY DEF FeedInv, DataTypes
<1> QED
  BY <1>2, <1>3, <1>4

\* Nothing is sent.
LEMMA SendsNothing ==
  ASSUME NEW q \in Seq(Request)
  PROVE  q = q \o <<>> /\ <<>> \in Seq(Request) /\ Len(<<>>) = 0
OBVIOUS

\* A message is read and nothing is asked.
LEMMA ReadSilently ==
  ASSUME FeedInv, ViewInv, wire # <<>>, wire' = Tail(wire), UNCHANGED Elsewhere, closeRetry' = {},
         requests' = requests,
         \A f \in Figures : f \notin records' => shown'[f] = 0,
         \A f \in resyncPending' : f \in resyncPending /\ ~IsResynced(wire[1], f),
         \A f \in Figures : Reads(wire, requests, shown[f], shown'[f], f, open[f]),
         \A f \in Figures : ~Promised(wire, f),
         shown' \in [Figures -> Nat]
  PROVE  ViewInv'
<1>1. requests \in Seq(Request)
  BY DEF FeedInv, DataTypes
<1>2. PICK t : t = <<>>
  OBVIOUS
<1>3. t \in Seq(Request) /\ Len(t) = 0 /\ requests = requests \o t
  BY <1>1, <1>2, SendsNothing
<1>4. requests' = requests \o t /\ \A k \in 1..Len(t) : Asks(t[k], revision)
  BY <1>3
<1>5. t \in Seq(Request)
  BY <1>3
<1>6. \A f \in Figures : Reads(wire, requests', shown[f], shown'[f], f, open[f])
  OBVIOUS
<1>7. \A f \in resyncPending' : \/ f \in resyncPending /\ ~IsResynced(wire[1], f)
                                \/ \E i \in 1..Len(t) : IsResync(t[i], f)
  OBVIOUS
<1>8. \A f \in Figures : Promised(wire, f) => Asked(requests', f)
  OBVIOUS
<1> QED
  BY <1>4, <1>5, <1>6, <1>7, <1>8, ReadView

\* A view is read before everything else.
LEMMA NoPromise ==
  ASSUME JoinInv, 1 \in 1..Len(wire), wire[1].kind # "view"
  PROVE  \A f \in Figures : ~Promised(wire, f)
BY DEF JoinInv, Promised

\* AcceptInitialize, AcceptFailure: the mirror stays.
LEMMA AcceptView ==
  ASSUME FeedInv, ViewInv, JoinInv, AcceptInitialize \/ AcceptFailure \/ AcceptAcknowledgement
  PROVE  ViewInv'
<1>1. wire # <<>> /\ wire' = Tail(wire) /\ UNCHANGED <<shown, discoveries>> /\ UNCHANGED Elsewhere
  BY DEF AcceptInitialize, AcceptFailure, AcceptAcknowledgement, Receiving, Received, mirror
<1>2. /\ wire \in Seq(Message) /\ Head(wire) = wire[1] /\ 1 \in 1..Len(wire)
      /\ Says(wire[1], open, revision) /\ requests \in Seq(Request)
      /\ shown \in [Figures -> Nat] /\ closeRetry = {}
      /\ \A f \in Figures : f \notin records => shown[f] = 0
  BY <1>1, HeadSays
<1>3. shown' \in [Figures -> Nat] /\ shown' = shown
  BY <1>1, <1>2
<1>4. wire[1].kind \in {"view", "failed"}
  BY <1>2 DEF AcceptInitialize, AcceptFailure, AcceptAcknowledgement, Receiving, Says
<1>5. ASSUME NEW q, NEW f \in Figures PROVE Reads(wire, q, shown[f], shown'[f], f, open[f])
  <2>1. ~IsSnapshot(wire[1], f) /\ ~IsClosing(wire[1], f) /\ \A b : ~IsChange(wire[1], f, b)
    BY <1>4 DEF IsSnapshot, IsClosing, IsChange
  <2>2. PICK n \in Nat : n = shown[f]
    BY <1>2
  <2>3. Reads(wire, q, n, n, f, open[f])
    BY <2>1, ReadsOther
  <2> QED
    BY <1>3, <2>2, <2>3
<1>6. CASE AcceptInitialize
  <2>1. PICK figs, yes : figs = Head(wire).figs \cup discoveries /\ yes = TRUE
    OBVIOUS
  <2>2. RequestSnapshots(figs, yes)
    BY <1>6, <2>1, Zenon DEF AcceptInitialize
  <2>3. wire[1].kind = "view"
    BY <1>2, <1>6 DEF AcceptInitialize, Receiving
  <2>4. wire[1].figs \subseteq Figures /\ discoveries \subseteq Figures
    <3>1. wire[1].figs \subseteq Figures
      BY <1>2, <2>3, MessageFields
    <3> QED
      BY <3>1 DEF FeedInv, DataTypes
  <2>5. figs \in SUBSET Figures
    BY <1>2, <2>1, <2>4
  <2>6. /\ records' = records \cup figs
        /\ \E t \in Seq(Request) : /\ requests' = requests \o t
                                   /\ \A k \in 1..Len(t) : Asks(t[k], revision)
                                   /\ yes /\ snapshotPending = {} => \A f \in figs : Asked(t, f)
    BY <2>2, <2>5, RequestsAsk
  <2>7. PICK t \in Seq(Request) : /\ requests' = requests \o t
                                  /\ \A k \in 1..Len(t) : Asks(t[k], revision)
                                  /\ yes /\ snapshotPending = {} => \A f \in figs : Asked(t, f)
    BY <2>6
  <2>8. UNCHANGED <<resyncPending, closeRetry>>
    BY <1>6 DEF AcceptInitialize
  <2>9. \A f \in resyncPending' : \/ f \in resyncPending /\ ~IsResynced(wire[1], f)
                                  \/ \E i \in 1..Len(t) : IsResync(t[i], f)
    BY <2>3, <2>8 DEF IsResynced
  <2>10. closeRetry' = {} /\ \A f \in Figures : f \notin records' => shown'[f] = 0
    BY <1>2, <1>3, <2>6, <2>8
  <2>11. \A f \in Figures : Reads(wire, requests', shown[f], shown'[f], f, open[f])
    BY <1>5
  <2>12. ASSUME NEW f \in Figures, Promised(wire, f) PROVE Asked(requests', f)
    <3>1. snapshotPending = {} /\ f \in wire[1].figs
      BY <1>2, <2>3, <2>12 DEF JoinInv, Promised
    <3>2. Asked(t, f)
      BY <1>2, <2>1, <2>7, <3>1
    <3>3. PICK q : q = requests \o t
      OBVIOUS
    <3>4. \A i \in 1..Len(t) : Len(requests) + i \in 1..Len(q) /\ q[Len(requests) + i] = t[i]
      BY <1>2, <2>7, <3>3, JoinPlaces
    <3>5. Asked(q, f)
      BY <3>2, <3>4 DEF Asked
    <3> QED
      BY <2>7, <3>3, <3>5
  <2>13. requests' = requests \o t /\ \A k \in 1..Len(t) : Asks(t[k], revision)
    BY <2>7
  <2> QED
    BY <1>1, <1>3, <2>9, <2>10, <2>11, <2>12, <2>13, ReadView
<1>7. CASE AcceptFailure
  <2>1. PICK r : r = Head(wire).request
    OBVIOUS
  <2>2. wire[1].kind = "failed" /\ Head(wire).kind # "conflict" /\ r = wire[1].request
    BY <1>2, <1>4, <1>7, <2>1 DEF AcceptFailure, Receiving
  <2>3. /\ closeRetry' = IF r.type \in {"closeFigure", "resyncFigure"}
                           THEN closeRetry \ {r.fig} ELSE closeRetry
        /\ resyncPending' = IF r.type = "resyncFigure"
                              THEN resyncPending \ {r.fig} ELSE resyncPending
        /\ Send(<<>>) /\ UNCHANGED <<records, snapshotPending>>
    BY <1>7, <2>1, <2>2, Zenon DEF AcceptFailure
  <2>4. requests' = requests
    BY <1>2, <2>3 DEF Send
  <2>5. closeRetry' = {} /\ \A f \in Figures : f \notin records' => shown'[f] = 0
    BY <1>2, <1>3, <2>3
  <2>6. \A f \in resyncPending' : f \in resyncPending /\ ~IsResynced(wire[1], f)
    BY <2>2, <2>3 DEF IsResynced, IsResync
  <2>7. \A f \in Figures : Reads(wire, requests, shown[f], shown'[f], f, open[f])
    BY <1>5
  <2>8. \A f \in Figures : ~Promised(wire, f)
    BY <1>2, <2>2, NoPromise
  <2> QED
    BY <1>1, <1>3, <2>4, <2>5, <2>6, <2>7, <2>8, ReadSilently
<1>8. ~AcceptAcknowledgement
  BY <1>2, <1>4 DEF AcceptAcknowledgement, Receiving
<1> QED
  BY <1>6, <1>7, <1>8

\* AcceptSnapshot: what it is older than follows it.
LEMMA AcceptSnapshotView ==
  ASSUME FeedInv, ViewInv, JoinInv, AcceptSnapshot
  PROVE  ViewInv'
<1>1. wire # <<>> /\ Head(wire).kind = "snapshot" /\ wire' = Tail(wire)
  BY DEF AcceptSnapshot, Receiving, Received
<1>2. /\ wire \in Seq(Message) /\ Head(wire) = wire[1] /\ 1 \in 1..Len(wire)
      /\ requests \in Seq(Request) /\ shown \in [Figures -> Nat] /\ closeRetry = {}
      /\ \A f \in Figures : f \notin records => shown[f] = 0
  BY <1>1, HeadSays
<1>3. PICK f, n : f = wire[1].request.fig /\ n = wire[1].rev
  OBVIOUS
<1>4. f \in Figures /\ n \in Nat /\ wire[1].kind = "snapshot"
  <2>1. wire[1].kind = "snapshot" /\ wire[1].kind \in ResponseKinds
    BY <1>1, <1>2 DEF ResponseKinds
  <2> QED
    BY <1>2, <1>3, <2>1, MessageFields
<1>5. /\ shown' = [shown EXCEPT ![f] = n] /\ records' = records \cup {f}
      /\ resyncPending' = resyncPending \ {f} /\ closeRetry' = closeRetry \ {f}
      /\ UNCHANGED Elsewhere
  BY <1>2, <1>3 DEF AcceptSnapshot
<1>6. requests' = requests
  <2>1. requests' = requests \o (IF f \in closeRetry THEN <<Req("closeFigure", f, n, TRUE)>> ELSE <<>>)
    BY <1>2, <1>3, Zenon DEF AcceptSnapshot, Send
  <2>2. f \notin closeRetry
    BY <1>2
  <2>3. requests' = requests \o <<>>
    BY <2>1, <2>2, Zenon
  <2> QED
    BY <1>2, <2>3
<1>7. /\ shown' \in [Figures -> Nat] /\ shown'[f] = n
      /\ \A g \in Figures : g # f => shown'[g] = shown[g]
  BY <1>2, <1>4, <1>5
<1>8. ASSUME NEW g \in Figures PROVE Reads(wire, requests, shown[g], shown'[g], g, open[g])
  <2>1. CASE g = f
    BY <1>3, <1>4, <1>7, <2>1 DEF Reads, IsSnapshot
  <2>2. CASE g # f
    <3>1. ~IsSnapshot(wire[1], g) /\ ~IsClosing(wire[1], g) /\ \A b : ~IsChange(wire[1], g, b)
      BY <1>3, <1>4, <2>2 DEF IsSnapshot, IsClosing, IsChange
    <3>2. PICK k \in Nat : k = shown[g]
      BY <1>2
    <3>3. Reads(wire, requests, k, k, g, open[g])
      BY <3>1, ReadsOther
    <3> QED
      BY <1>7, <2>2, <3>2, <3>3
  <2> QED
    BY <2>1, <2>2
<1>9. closeRetry' = {} /\ \A g \in Figures : g \notin records' => shown'[g] = 0
  BY <1>2, <1>5, <1>7
<1>10. \A g \in resyncPending' : g \in resyncPending /\ ~IsResynced(wire[1], g)
  BY <1>3, <1>5 DEF IsResynced, IsResync
<1>11. \A g \in Figures : ~Promised(wire, g)
  BY <1>2, <1>4, NoPromise
<1> QED
  BY <1>1, <1>5, <1>6, <1>7, <1>8, <1>9, <1>10, <1>11, ReadSilently

\* AcceptClosed: the Figure is not shown any more.
LEMMA AcceptClosedView ==
  ASSUME FeedInv, ViewInv, JoinInv, AcceptClosed
  PROVE  ViewInv'
<1>1. wire # <<>> /\ Head(wire).kind = "closed" /\ wire' = Tail(wire)
  BY DEF AcceptClosed, Receiving, Received
<1>2. /\ wire \in Seq(Message) /\ Head(wire) = wire[1] /\ 1 \in 1..Len(wire)
      /\ requests \in Seq(Request) /\ shown \in [Figures -> Nat] /\ closeRetry = {}
      /\ \A f \in Figures : f \notin records => shown[f] = 0
  BY <1>1, HeadSays
<1>3. PICK f : f = wire[1].fig
  OBVIOUS
<1>4. f \in Figures /\ wire[1].kind = "closed"
  BY <1>1, <1>2, <1>3, MessageFields
<1>5. /\ shown' = [shown EXCEPT ![f] = 0] /\ records' = records \ {f}
      /\ resyncPending' = resyncPending \ {f} /\ closeRetry' = closeRetry \ {f}
      /\ UNCHANGED Elsewhere /\ requests' = requests
  BY <1>2, <1>3 DEF AcceptClosed
<1>7. /\ shown' \in [Figures -> Nat] /\ shown'[f] = 0
      /\ \A g \in Figures : g # f => shown'[g] = shown[g]
  BY <1>2, <1>4, <1>5
<1>8. ASSUME NEW g \in Figures PROVE Reads(wire, requests, shown[g], shown'[g], g, open[g])
  <2>1. CASE g = f
    BY <1>7, <2>1 DEF Reads
  <2>2. CASE g # f
    <3>1. ~IsSnapshot(wire[1], g) /\ ~IsClosing(wire[1], g) /\ \A b : ~IsChange(wire[1], g, b)
      BY <1>3, <1>4, <2>2 DEF IsSnapshot, IsClosing, IsChange
    <3>2. PICK k \in Nat : k = shown[g]
      BY <1>2
    <3>3. Reads(wire, requests, k, k, g, open[g])
      BY <3>1, ReadsOther
    <3> QED
      BY <1>7, <2>2, <3>2, <3>3
  <2> QED
    BY <2>1, <2>2
<1>9. closeRetry' = {} /\ \A g \in Figures : g \notin records' => shown'[g] = 0
  BY <1>2, <1>5, <1>7
<1>10. \A g \in resyncPending' : g \in resyncPending /\ ~IsResynced(wire[1], g)
  BY <1>4, <1>5 DEF IsResynced
<1>11. \A g \in Figures : ~Promised(wire, g)
  BY <1>2, <1>4, NoPromise
<1> QED
  BY <1>1, <1>5, <1>7, <1>8, <1>9, <1>10, <1>11, ReadSilently

\* A delta whose base is not what is shown: the resynchronization that is
\* asked for, or under way, brings at least its revision.
LEMMA GapIsFilled ==
  ASSUME FeedInv, ViewInv, wire # <<>>, wire[1].kind = "delta", NEW f \in Figures, wire[1].fig = f,
         open[f], f \in resyncPending, NEW b, IsChange(wire[1], f, b)
  PROVE  \/ Asked(requests, f)
         \/ \E k \in 1..Len(wire) : k # 1 /\ IsSnapshot(wire[k], f) /\ b < wire[k].rev
<1>1. /\ 1 \in 1..Len(wire) /\ Resuming(requests, wire, f)
      /\ \A k \in 1..Len(wire) : Says(wire[k], open, revision)
  BY HeadSays DEF ViewInv, AskInv
<1>2. Ordered(wire) /\ wire \in Seq(Message) /\ Len(wire) \in Nat
  BY DEF FeedInv, WireInv, DataTypes
<1>3. CASE \E i \in 1..Len(requests) : IsResync(requests[i], f)
  BY <1>3 DEF Asked, IsResync
<1>4. CASE \E k \in 1..Len(wire) : IsResynced(wire[k], f)
  <2>1. PICK k \in 1..Len(wire) : IsResynced(wire[k], f)
    BY <1>4
  <2>2. wire[k].kind = "snapshot" /\ wire[k].request.fig = f /\ k # 1
    <3>1. wire[k].kind # "failed"
      BY <1>1, <2>1 DEF Says, IsResynced, IsResync
    <3> QED
      BY <2>1, <3>1 DEF IsResynced, IsResync
  <2>3. 1 < k
    BY <1>2, <2>1, <2>2
  <2>4. wire[1].base < wire[k].rev
    BY <1>1, <1>2, <2>2, <2>3 DEF Ordered
  <2> QED
    BY <2>2, <2>4 DEF IsSnapshot, IsChange
<1> QED
  BY <1>1, <1>3, <1>4 DEF Resuming

\* A connection that ends takes all it promised with it.
LEMMA SeverView ==
  ASSUME FeedInv, ViewInv, Sever, UNCHANGED <<session, kernel, events>>
  PROVE  ViewInv'
<1>1. /\ requests' = <<>> /\ wire' = <<>> /\ cursor' = 0 /\ resyncPending' = {} /\ closeRetry' = {}
      /\ UNCHANGED <<shown, records>>
  BY DEF Sever
<1>2. Len(requests') = 0 /\ Len(wire') = 0
  BY <1>1
<1>3. AskInv'
  BY <1>1, <1>2 DEF ViewInv, AskInv
<1>4. ReachInv'
  BY <1>1 DEF ReachInv
<1>5. EndInv'
  BY EndStays
<1> QED
  BY <1>3, <1>4, <1>5 DEF ViewInv

\* AcceptDelta: it is applied, or a request makes up for it, or the Figure is
\* not shown, or the connection is given up.
LEMMA AcceptDeltaView ==
  ASSUME FeedInv, ViewInv, JoinInv, AcceptDelta
  PROVE  ViewInv'
<1>1. wire # <<>> /\ Head(wire).kind = "delta"
  BY DEF AcceptDelta, Receiving
<1>2. /\ wire \in Seq(Message) /\ Head(wire) = wire[1] /\ 1 \in 1..Len(wire)
      /\ Says(wire[1], open, revision) /\ requests \in Seq(Request)
      /\ shown \in [Figures -> Nat] /\ closeRetry = {}
      /\ \A f \in Figures : f \notin records => shown[f] = 0
  BY <1>1, HeadSays
<1>a. \A f \in Figures : shown[f] <= revision[f] /\ revision[f] \in Nat
  BY DEF FeedInv, DataTypes, WireInv
<1>3. PICK d, f : d = wire[1] /\ f = d.fig
  OBVIOUS
<1>4. f \in Figures /\ d.base \in Nat /\ wire[1].kind = "delta" /\ d.kind = "delta" /\ ~d.closing
  <2>1. wire[1].kind = "delta"
    BY <1>1, <1>2
  <2>2. wire[1].fig \in Figures /\ wire[1].base \in Nat
    BY <1>2, <2>1, MessageFields
  <2>3. ~wire[1].closing
    BY <1>2, <2>1 DEF Says
  <2> QED
    BY <1>3, <2>1, <2>2, <2>3
<1>5. \A g : ~IsSnapshot(wire[1], g) /\ ~IsClosing(wire[1], g) /\ ~IsResynced(wire[1], g)
  BY <1>4 DEF IsSnapshot, IsClosing, IsResynced
<1>p. \A g \in Figures : ~Promised(wire, g)
  BY <1>2, <1>4, NoPromise
<1>6. \A g, b : IsChange(wire[1], g, b) => g = f /\ b = d.base
  BY <1>3 DEF IsChange
<1>7. ASSUME NEW q, NEW g \in Figures, g # f PROVE Reads(wire, q, shown[g], shown[g], g, open[g])
  <2>1. ~IsSnapshot(wire[1], g) /\ ~IsClosing(wire[1], g) /\ \A b : ~IsChange(wire[1], g, b)
    BY <1>5, <1>6, <1>7
  <2>2. PICK k \in Nat : k = shown[g]
    BY <1>2
  <2>3. Reads(wire, q, k, k, g, open[g])
    BY <2>1, ReadsOther
  <2> QED
    BY <2>2, <2>3
<1>8. CASE /\ ~(f \in records /\ shown[f] > 0) /\ wire' = Tail(wire)
           /\ RequestSnapshots({f}, phase = "attached")
           /\ UNCHANGED <<Elsewhere, phase, shown, resyncPending, closeRetry, discoveries>>
  <2>1. PICK figs, now : figs = {f} /\ now = (phase = "attached")
    OBVIOUS
  <2>2. RequestSnapshots(figs, now)
    BY <1>8, <2>1, Zenon
  <2>3. figs \in SUBSET Figures
    BY <1>4, <2>1
  <2>4. /\ records' = records \cup figs
        /\ \E t \in Seq(Request) : /\ requests' = requests \o t
                                   /\ \A k \in 1..Len(t) : Asks(t[k], revision)
    BY <2>2, <2>3, RequestsAsk, Zenon
  <2>5. PICK t \in Seq(Request) : /\ requests' = requests \o t
                                  /\ \A k \in 1..Len(t) : Asks(t[k], revision)
    BY <2>4
  <2>6. \A g \in resyncPending' : \/ g \in resyncPending /\ ~IsResynced(wire[1], g)
                                  \/ \E i \in 1..Len(t) : IsResync(t[i], g)
    BY <1>5, <1>8
  <2>7. closeRetry' = {} /\ \A g \in Figures : g \notin records' => shown'[g] = 0
    BY <1>2, <1>8, <2>4
  <2>8. ASSUME NEW g \in Figures PROVE Reads(wire, requests', shown[g], shown'[g], g, open[g])
    <3>1. CASE g = f
      <4>1. ~(shown'[g] > 0)
        BY <1>2, <1>4, <1>8, <3>1
      <4> QED
        BY <4>1 DEF Reads
    <3>2. CASE g # f
      BY <1>7, <1>8, <3>2
    <3> QED
      BY <3>1, <3>2
  <2>9. shown' \in [Figures -> Nat] /\ UNCHANGED Elsewhere /\ wire' = Tail(wire)
    BY <1>2, <1>8
  <2> QED
    BY <1>1, <1>p, <2>5, <2>6, <2>7, <2>8, <2>9, ReadView
<1>9. CASE /\ f \in records /\ shown[f] > 0 /\ wire' = Tail(wire) /\ Resync(f)
           /\ UNCHANGED <<Elsewhere, phase, shown, records, snapshotPending, closeRetry, discoveries>>
  <2>1. /\ resyncPending' = resyncPending \cup {f}
        /\ f \in resyncPending => requests' = requests
        /\ f \notin resyncPending => \E q \in Request :
             /\ q.type = "resyncFigure" /\ q.fig = f /\ requests' = requests \o <<q>>
    BY <1>4, <1>9, ResyncTyped
  <2>2. closeRetry' = {} /\ \A g \in Figures : g \notin records' => shown'[g] = 0
    BY <1>2, <1>9
  <2>3. shown' \in [Figures -> Nat] /\ UNCHANGED Elsewhere /\ wire' = Tail(wire) /\ shown' = shown
    BY <1>2, <1>9
  <2>4. CASE f \in resyncPending
    <3>1. requests' = requests /\ resyncPending' = resyncPending
      BY <2>1, <2>4
    <3>2. \A g \in resyncPending' : g \in resyncPending /\ ~IsResynced(wire[1], g)
      BY <1>5, <3>1
    <3>3. ASSUME NEW b, open[f], IsChange(wire[1], f, b)
          PROVE  \/ Asked(requests, f)
                 \/ \E k \in 1..Len(wire) : k # 1 /\ IsSnapshot(wire[k], f) /\ b < wire[k].rev
      BY <1>1, <1>3, <1>4, <2>4, <3>3, GapIsFilled
    <3>4. ASSUME NEW g \in Figures PROVE Reads(wire, requests, shown[g], shown'[g], g, open[g])
      <4>1. CASE g = f
        <5>1. shown[f] <= shown[f]
          BY <1>2, <1>4
        <5>2. Reads(wire, requests, shown[f], shown[f], f, open[f])
          BY <1>5, <1>9, <3>3, <5>1 DEF Reads
        <5> QED
          BY <2>3, <4>1, <5>2
      <4>2. CASE g # f
        BY <1>7, <2>3, <4>2
      <4> QED
        BY <4>1, <4>2
    <3> QED
      BY <1>1, <1>p, <2>2, <2>3, <3>1, <3>2, <3>4, ReadSilently
  <2>5. CASE f \notin resyncPending
    <3>1. PICK q \in Request : q.type = "resyncFigure" /\ q.fig = f /\ requests' = requests \o <<q>>
      BY <2>1, <2>5
    <3>2. PICK t : t = <<q>>
      OBVIOUS
    <3>3. t \in Seq(Request) /\ Len(t) = 1 /\ t[1] = q /\ \A k \in 1..Len(t) : t[k] = q
      BY <3>2
    <3>4. t \in Seq(Request) /\ requests' = requests \o t
      BY <3>1, <3>2, <3>3
    <3>5. Asks(q, revision)
      BY <1>2, <1>4, <1>9, <1>a, <3>1 DEF Asks
    <3>6. \A k \in 1..Len(t) : Asks(t[k], revision)
      BY <3>3, <3>5
    <3>7. Asked(requests', f)
      <4>1. PICK r : r = requests \o t
        OBVIOUS
      <4>2. \A i \in 1..Len(t) : Len(requests) + i \in 1..Len(r) /\ r[Len(requests) + i] = t[i]
        BY <1>2, <3>4, <4>1, JoinPlaces
      <4>3. Len(requests) + 1 \in 1..Len(r) /\ r[Len(requests) + 1] = q
        BY <3>3, <4>2
      <4>4. Asked(r, f)
        BY <3>1, <4>3 DEF Asked
      <4> QED
        BY <3>4, <4>1, <4>4
    <3>8. \A g \in resyncPending' : \/ g \in resyncPending /\ ~IsResynced(wire[1], g)
                                    \/ \E i \in 1..Len(t) : IsResync(t[i], g)
      <4>1. 1 \in 1..Len(t) /\ IsResync(t[1], f)
        BY <3>1, <3>3 DEF IsResync
      <4> QED
        BY <1>5, <2>1, <4>1
    <3>9. ASSUME NEW g \in Figures PROVE Reads(wire, requests', shown[g], shown'[g], g, open[g])
      <4>1. CASE g = f
        <5>1. shown[f] <= shown[f]
          BY <1>2, <1>4
        <5>2. Reads(wire, requests', shown[f], shown[f], f, open[f])
          BY <1>5, <1>9, <3>7, <5>1 DEF Reads
        <5> QED
          BY <2>3, <4>1, <5>2
      <4>2. CASE g # f
        BY <1>7, <2>3, <4>2
      <4> QED
        BY <4>1, <4>2
    <3> QED
      BY <1>1, <1>p, <2>2, <2>3, <3>4, <3>6, <3>8, <3>9, ReadView
  <2> QED
    BY <2>4, <2>5
<1>10. CASE /\ f \in records /\ shown[f] > 0 /\ shown[f] = d.base /\ wire' = Tail(wire)
            /\ shown' = [shown EXCEPT ![f] = d.base + 1]
            /\ UNCHANGED <<Elsewhere, requests, phase, records, snapshotPending, resyncPending,
                           closeRetry, discoveries>>
  <2>1. /\ shown' \in [Figures -> Nat] /\ shown'[f] = d.base + 1
        /\ \A g \in Figures : g # f => shown'[g] = shown[g]
    BY <1>2, <1>4, <1>10
  <2>2. closeRetry' = {} /\ \A g \in Figures : g \notin records' => shown'[g] = 0
    BY <1>2, <1>10, <2>1
  <2>3. \A g \in resyncPending' : g \in resyncPending /\ ~IsResynced(wire[1], g)
    BY <1>5, <1>10
  <2>4. ASSUME NEW g \in Figures PROVE Reads(wire, requests, shown[g], shown'[g], g, open[g])
    <3>1. CASE g = f
      <4>1. shown[f] <= shown'[f] /\ d.base < shown'[f]
        BY <1>4, <1>10, <2>1
      <4> QED
        BY <1>5, <1>6, <1>10, <3>1, <4>1 DEF Reads
    <3>2. CASE g # f
      BY <1>7, <2>1, <3>2
    <3> QED
      BY <3>1, <3>2
  <2>5. requests' = requests /\ wire' = Tail(wire) /\ UNCHANGED Elsewhere
    BY <1>10
  <2> QED
    BY <1>1, <1>p, <2>1, <2>2, <2>3, <2>4, <2>5, ReadSilently
<1>11. CASE Sever /\ UNCHANGED <<session, kernel, events, announced, bounds, fault>>
  BY <1>11, SeverView
<1> QED
  BY <1>2, <1>3, <1>4, <1>8, <1>9, <1>10, <1>11, Zenon DEF AcceptDelta, Received, Continues
----------------------------------------------------------------------------
\* Nothing was changed yet.
LEMMA ViewInit == Init => ViewInv /\ JoinInv
<1> SUFFICES ASSUME Init PROVE ViewInv /\ JoinInv
  OBVIOUS
<1>1. /\ Len(pending) = 0 /\ Len(batch) = 0 /\ Len(events) = 0 /\ Len(wire) = 0 /\ Len(requests) = 0
      /\ cursor = 0
  BY DEF Init
<1>2. EndInv
  BY <1>1 DEF EndInv, Ended, Marked
<1>3. AskInv
  BY <1>1 DEF Init, AskInv
<1>4. ReachInv
  BY <1>1 DEF ReachInv
<1>5. JoinInv
  BY <1>1 DEF Init, JoinInv
<1> QED
  BY <1>2, <1>3, <1>4, <1>5 DEF ViewInv

\* Every step of a feed that is only viewed keeps the invariant.
LEMMA ViewNext ==
  ASSUME Viewing, FeedInv, ViewInv, JoinInv, [Next]_vars
  PROVE  ViewInv'
<1>1. CASE KernelNext
  BY <1>1, TransactionView, PublicationView DEF KernelNext
<1>2. CASE ServerNext
  BY <1>2, ServerView
<1>3. CASE ClientNext
  <2>1. CASE Drop
    BY <2>1, SeverView DEF Drop
  <2> QED
    BY <1>3, <2>1, AcceptView, AcceptSnapshotView, AcceptDeltaView, AcceptClosedView, AskingView
       DEF ClientNext
<1>4. CASE UserNext
  BY <1>4 DEF UserNext, UserRequest, Viewing
<1>5. CASE UNCHANGED vars
  <2>1. UNCHANGED <<revision, open, pending, batch, events, attached, cursor, joined, requests, wire,
                    shown, records, resyncPending, closeRetry>>
    BY <1>5 DEF vars, session, kernel, server, mirror
  <2> QED
    BY <2>1 DEF ViewInv, EndInv, AskInv, ReachInv
<1> QED
  BY <1>1, <1>2, <1>3, <1>4, <1>5 DEF Next

\* The state that JoinInv is about.
joining == <<requests, wire, attached, phase, snapshotPending>>

\* HandleInitialize: the view is the first message.
LEMMA InitializeJoins ==
  ASSUME FeedInv, ViewInv, JoinInv, HandleInitialize
  PROVE  JoinInv'
<1>1. /\ Handling("initialize") /\ attached' /\ wire' = wire \o <<View({f \in Figures : open[f]})>>
      /\ UNCHANGED <<phase, snapshotPending>>
  BY DEF HandleInitialize, Reply, mirror
<1>2. attached = ("initialize" # "initialize") /\ requests # <<>> /\ requests' = Tail(requests)
  BY <1>1, Zenon DEF Handling
<1>3. ~attached
  BY <1>2, Zenon
<1>4. requests \in Seq(Request) /\ wire \in Seq(Message) /\ Len(wire) = 0
  BY <1>3 DEF FeedInv, DataTypes, ViewInv, AskInv
<1>5. /\ Len(requests) \in Nat /\ Len(requests) > 0 /\ Head(requests) = requests[1]
      /\ \A i \in 1..Len(requests') : i + 1 \in 1..Len(requests) /\ requests'[i] = requests[i + 1]
  BY <1>2, <1>4, TailPlaces
<1>6. 1 \in 1..Len(requests) /\ requests[1].type = "initialize"
  BY <1>1, <1>5 DEF Handling
<1>7. phase = "initializing" /\ snapshotPending = {}
  BY <1>6 DEF JoinInv
<1>8. \A i \in 1..Len(requests') : requests'[i].type # "initialize"
  <2> SUFFICES ASSUME NEW i \in 1..Len(requests'), requests'[i].type = "initialize" PROVE FALSE
    OBVIOUS
  <2>1. i + 1 \in 1..Len(requests) /\ requests[i + 1].type = "initialize" /\ i \in Nat /\ i > 0
    BY <1>5
  <2>2. i + 1 = 1
    BY <2>1 DEF JoinInv
  <2> QED
    BY <2>1, <2>2
<1>9. \A k \in 1..Len(wire') : k = 1
  <2>1. PICK m : m = View({f \in Figures : open[f]})
    OBVIOUS
  <2>2. m \in Message
    BY <2>1 DEF View, Views, Message
  <2>3. PICK t : t = <<m>>
    OBVIOUS
  <2>4. t \in Seq(Message) /\ \A i \in 1..Len(t) : i = 1
    BY <2>2, <2>3, OneMessage
  <2>5. PICK w : w = wire \o t
    OBVIOUS
  <2>6. \A i \in 1..Len(w) : i \in 1..Len(wire) \/ i - Len(wire) \in 1..Len(t)
    BY <1>4, <2>4, <2>5, JoinPlaces
  <2>7. wire' = w
    BY <1>1, <2>1, <2>3, <2>5
  <2> QED
    BY <1>4, <2>4, <2>6, <2>7
<1> QED
  BY <1>1, <1>7, <1>8, <1>9 DEF JoinInv

\* Poll and HandleSnapshot put messages after the view.
LEMMA AnswersJoin ==
  ASSUME FeedInv, JoinInv, attached, UNCHANGED <<attached, phase, snapshotPending>>,
         requests' = requests \/ (requests # <<>> /\ requests' = Tail(requests)),
         NEW t \in Seq(Message), wire' = wire \o t, \A k \in 1..Len(t) : t[k].kind # "view"
  PROVE  JoinInv'
<1>1. requests \in Seq(Request) /\ wire \in Seq(Message)
  BY DEF FeedInv, DataTypes
<1>2. \A i \in 1..Len(requests) : requests[i].type # "initialize"
  BY DEF JoinInv
<1>3. \A i \in 1..Len(requests') : requests'[i].type # "initialize"
  <2>1. CASE requests # <<>> /\ requests' = Tail(requests)
    <3>1. \A i \in 1..Len(requests') : i + 1 \in 1..Len(requests) /\ requests'[i] = requests[i + 1]
      BY <1>1, <2>1, TailPlaces
    <3> QED
      BY <1>2, <3>1
  <2> QED
    BY <1>2, <2>1
<1>4. PICK w : w = wire \o t
  OBVIOUS
<1>5. \A i \in 1..Len(w) : \/ i \in 1..Len(wire) /\ w[i] = wire[i]
                           \/ i - Len(wire) \in 1..Len(t) /\ w[i] = t[i - Len(wire)]
  BY <1>1, <1>4, JoinPlaces
<1>6. \A k \in 1..Len(w) : w[k].kind = "view" => k = 1 /\ phase = "initializing" /\ snapshotPending = {}
  BY <1>5 DEF JoinInv
<1>7. wire' = w /\ phase # "disconnected"
  BY <1>4 DEF JoinInv
<1> QED
  BY <1>3, <1>6, <1>7 DEF JoinInv

\* The first message was read: there is no view on the wire, and no initialize
\* on its way.
LEMMA ReadJoins ==
  ASSUME FeedInv, ViewInv, JoinInv, wire # <<>>, wire' = Tail(wire), attached' = attached,
         phase' \in {phase, "attached", "error"},
         \A i \in 1..Len(requests') : \/ i \in 1..Len(requests) /\ requests'[i] = requests[i]
                                      \/ requests'[i].type # "initialize"
  PROVE  JoinInv'
<1>1. wire \in Seq(Message)
  BY DEF FeedInv, DataTypes
<1>2. /\ Len(wire) \in Nat /\ Len(wire) > 0
      /\ \A i \in 1..Len(wire') : i + 1 \in 1..Len(wire) /\ wire'[i] = wire[i + 1]
  BY <1>1, TailPlaces
<1>3. attached
  BY <1>2 DEF ViewInv, AskInv
<1>4. phase' # "disconnected"
  BY <1>3 DEF JoinInv
<1>5. \A i \in 1..Len(requests') : requests'[i].type # "initialize"
  BY <1>3 DEF JoinInv
<1>6. \A k \in 1..Len(wire') : wire'[k].kind # "view"
  <2> SUFFICES ASSUME NEW k \in 1..Len(wire'), wire'[k].kind = "view" PROVE FALSE
    OBVIOUS
  <2>1. k + 1 \in 1..Len(wire) /\ wire[k + 1].kind = "view" /\ k \in Nat /\ k > 0
    BY <1>2
  <2>2. k + 1 = 1
    BY <2>1 DEF JoinInv
  <2> QED
    BY <2>1, <2>2
<1> QED
  BY <1>4, <1>5, <1>6 DEF JoinInv

\* RequestSnapshots sends no initialize.
LEMMA SnapshotsJoin ==
  ASSUME FeedInv, NEW figs \in SUBSET Figures, NEW now, RequestSnapshots(figs, now)
  PROVE  /\ \A i \in 1..Len(requests') : \/ i \in 1..Len(requests) /\ requests'[i] = requests[i]
                                         \/ requests'[i].type # "initialize"
         /\ ~now => UNCHANGED snapshotPending /\ Len(requests') = Len(requests)
<1>1. PICK ask : ask = IF now THEN figs \ snapshotPending ELSE {}
  OBVIOUS
<1>2. ask \in SUBSET Figures /\ requests \in Seq(Request)
  BY <1>1 DEF FeedInv, DataTypes
<1>3. requests' = requests \o SnapshotRequests(ask) /\ snapshotPending' = snapshotPending \cup ask
  BY <1>1, Zenon DEF RequestSnapshots, Send
<1>4. PICK t : t = SnapshotRequests(ask)
  OBVIOUS
<1>5. t \in Seq(Request) /\ \A i \in 1..Len(t) : t[i].type = "getSnapshot" /\ t[i].fig \in ask
  BY <1>2, <1>4, SnapshotRequestsTyped
<1>6. PICK q : q = requests \o t
  OBVIOUS
<1>7. \A i \in 1..Len(q) : \/ i \in 1..Len(requests) /\ q[i] = requests[i]
                           \/ i - Len(requests) \in 1..Len(t) /\ q[i] = t[i - Len(requests)]
  BY <1>2, <1>5, <1>6, JoinPlaces
<1>8. requests' = q
  BY <1>3, <1>4, <1>6
<1>9. \A i \in 1..Len(requests') : \/ i \in 1..Len(requests) /\ requests'[i] = requests[i]
                                   \/ requests'[i].type # "initialize"
  BY <1>5, <1>7, <1>8
<1>10. ~now => UNCHANGED snapshotPending /\ Len(requests') = Len(requests)
  <2> SUFFICES ASSUME ~now PROVE UNCHANGED snapshotPending /\ Len(requests') = Len(requests)
    OBVIOUS
  <2>1. ask = {}
    BY <1>1
  <2>2. Len(t) = 0
    <3>1. Len(t) \in Nat
      BY <1>5
    <3>2. ~(1 \in 1..Len(t))
      BY <1>5, <2>1
    <3> QED
      BY <3>1, <3>2
  <2>3. Len(q) = Len(requests)
    BY <1>2, <1>5, <1>6, <2>2
  <2> QED
    BY <1>3, <1>8, <2>1, <2>3
<1> QED
  BY <1>9, <1>10

\* Connect: initialize is the only request.
LEMMA ConnectJoins ==
  ASSUME FeedInv, ViewInv, JoinInv, Connect
  PROVE  JoinInv'
<1>1. PICK f \in discoveries : requests' = requests \o <<Req("initialize", f, 0, FALSE)>>
  BY DEF Connect, Send
<1>2. PICK q : q = Req("initialize", f, 0, FALSE)
  OBVIOUS
<1>3. requests \in Seq(Request) /\ discoveries \subseteq Figures
  BY DEF FeedInv, DataTypes
<1>4. q \in Request
  BY <1>1, <1>2, <1>3 DEF Req, Request, RequestTypes
<1>5. PICK t : t = <<q>>
  OBVIOUS
<1>6. t \in Seq(Request) /\ Len(t) = 1
  BY <1>4, <1>5
<1>7. /\ phase = "disconnected" /\ phase' = "initializing"
      /\ UNCHANGED <<attached, wire, snapshotPending>>
  BY DEF Connect, server
<1>8. ~attached /\ Len(requests) = 0 /\ snapshotPending = {}
  BY <1>7 DEF JoinInv
<1>9. Len(wire) = 0
  BY <1>8 DEF ViewInv, AskInv
<1>10. Len(requests') = 1
  <2>1. requests' = requests \o t
    BY <1>1, <1>2, <1>5
  <2> QED
    BY <1>3, <1>6, <1>8, <2>1
<1>11. \A i \in 1..Len(requests') : i = 1
  BY <1>10
<1> QED
  BY <1>7, <1>8, <1>9, <1>11 DEF JoinInv

\* Discover: outside the attached phase nothing is asked.
LEMMA DiscoverJoins ==
  ASSUME FeedInv, ViewInv, JoinInv, NEW f \in Figures, Discover(f)
  PROVE  JoinInv'
<1>1. PICK figs, now : figs = {f} /\ now = (phase = "attached")
  OBVIOUS
<1>2. RequestSnapshots(figs, now) /\ UNCHANGED <<attached, wire, phase>>
  BY <1>1, Zenon DEF Discover, server
<1>3. figs \in SUBSET Figures
  BY <1>1
<1>4. /\ \A i \in 1..Len(requests') : \/ i \in 1..Len(requests) /\ requests'[i] = requests[i]
                                      \/ requests'[i].type # "initialize"
      /\ ~now => UNCHANGED snapshotPending /\ Len(requests') = Len(requests)
  BY <1>2, <1>3, SnapshotsJoin
<1>5. phase # "attached" => UNCHANGED snapshotPending /\ Len(requests') = Len(requests)
  <2>1. phase # "attached" => ~now
    BY <1>1, Zenon
  <2> QED
    BY <1>4, <2>1
<1>6. CASE phase = "attached"
  BY <1>2, <1>4, <1>6 DEF JoinInv
<1>7. CASE phase # "attached"
  BY <1>2, <1>4, <1>5, <1>7 DEF JoinInv
<1> QED
  BY <1>6, <1>7

\* A connection that ends leaves nothing behind.
LEMMA SeverJoins ==
  ASSUME Sever
  PROVE  JoinInv'
<1>1. /\ requests' = <<>> /\ wire' = <<>> /\ attached' = FALSE /\ phase' = "disconnected"
      /\ snapshotPending' = {}
  BY DEF Sever
<1>2. Len(requests') = 0 /\ Len(wire') = 0
  BY <1>1
<1> QED
  BY <1>1, <1>2 DEF JoinInv

\* Poll, Idle and HandleSnapshot.
LEMMA ServerJoins ==
  ASSUME FeedInv, ViewInv, JoinInv, Poll \/ Idle \/ HandleSnapshot
  PROVE  JoinInv'
<1>1. requests \in Seq(Request) /\ wire \in Seq(Message) /\ events \in Seq(Event) /\ cursor \in 0..Len(events)
  BY DEF FeedInv, DataTypes
<1>2. CASE Idle
  <2>1. UNCHANGED joining
    BY <1>2 DEF Idle, joining, mirror
  <2> QED
    BY <2>1 DEF JoinInv, joining
<1>3. CASE Poll
  <2>1. PICK t : t = After(events, cursor)
    OBVIOUS
  <2>2. t \in Seq(Message)
    BY <1>1, <2>1, AfterPlaces
  <2>3. \A i \in 1..Len(t) : t[i] \in Event
    BY <1>1, <2>1, AfterPlaces
  <2>4. \A i \in 1..Len(t) : t[i].kind # "view"
    BY <2>3 DEF Event
  <2>5. attached /\ UNCHANGED <<attached, phase, snapshotPending>> /\ requests' = requests /\ wire' = wire \o t
    BY <1>3, <2>1 DEF Poll, mirror
  <2> QED
    BY <2>2, <2>4, <2>5, AnswersJoin
<1>4. CASE HandleSnapshot
  <2>1. PICK r, k, n : /\ r = Head(requests) /\ n = revision[r.fig]
                       /\ k = (IF open[r.fig] THEN "snapshot" ELSE "failed")
    OBVIOUS
  <2>2. PICK m : m = Response(k, r, n)
    OBVIOUS
  <2>3. PICK t : t = <<m>>
    OBVIOUS
  <2>4. /\ Handling("getSnapshot") \/ Handling("resyncFigure")
        /\ wire' = wire \o t /\ UNCHANGED <<attached, mirror>>
    BY <1>4, <2>1, <2>2, <2>3, Zenon DEF HandleSnapshot, Reply
  <2>5. requests # <<>> /\ requests' = Tail(requests)
    BY <2>4 DEF Handling
  <2>6. attached
    <3>1. attached = ("getSnapshot" # "initialize") \/ attached = ("resyncFigure" # "initialize")
      BY <2>4, Zenon DEF Handling
    <3>2. ("getSnapshot" # "initialize") = TRUE /\ ("resyncFigure" # "initialize") = TRUE
      OBVIOUS
    <3> QED
      BY <3>1, <3>2, Zenon
  <2>7. r \in Request /\ r.fig \in Figures
    BY <2>1, <2>5, HeadAsks
  <2>8. k \in {"snapshot", "failed"} /\ n \in Nat
    BY <2>1, <2>7 DEF FeedInv, DataTypes
  <2>9. m \in Responses /\ m.kind = k
    BY <2>2, <2>7, <2>8 DEF Response, Responses, ResponseKinds
  <2>10. m \in Message /\ m.kind # "view"
    BY <2>8, <2>9 DEF Message
  <2>11. t \in Seq(Message) /\ \A i \in 1..Len(t) : t[i] = m
    BY <2>3, <2>10, OneMessage
  <2>12. \A i \in 1..Len(t) : t[i].kind # "view"
    BY <2>10, <2>11
  <2>13. UNCHANGED <<attached, phase, snapshotPending>>
    BY <2>4 DEF mirror
  <2>14. t \in Seq(Message) /\ wire' = wire \o t
    BY <2>4, <2>11
  <2> QED
    BY <2>5, <2>6, <2>12, <2>13, <2>14, AnswersJoin
<1> QED
  BY <1>2, <1>3, <1>4

\* The messages that a viewer reads.
LEMMA AcceptJoins ==
  ASSUME FeedInv, ViewInv, JoinInv,
         AcceptInitialize \/ AcceptSnapshot \/ AcceptFailure \/ AcceptAcknowledgement \/ AcceptDelta \/ AcceptClosed
  PROVE  JoinInv'
<1>1. wire # <<>>
  BY DEF AcceptInitialize, AcceptSnapshot, AcceptFailure, AcceptAcknowledgement, AcceptDelta, AcceptClosed, Receiving
<1>2. /\ wire \in Seq(Message) /\ Head(wire) = wire[1] /\ 1 \in 1..Len(wire)
      /\ Says(wire[1], open, revision) /\ requests \in Seq(Request)
      /\ shown \in [Figures -> Nat] /\ closeRetry = {}
      /\ discoveries \subseteq Figures
  <2>1. discoveries \subseteq Figures
    BY DEF FeedInv, DataTypes
  <2> QED
    BY <1>1, <2>1, HeadSays
<1>3. ASSUME NEW t \in Seq(Request), requests' = requests \o t, \A i \in 1..Len(t) : t[i].type # "initialize"
      PROVE  \A i \in 1..Len(requests') : \/ i \in 1..Len(requests) /\ requests'[i] = requests[i]
                                          \/ requests'[i].type # "initialize"
  <2>1. PICK q : q = requests \o t
    OBVIOUS
  <2>2. \A i \in 1..Len(q) : \/ i \in 1..Len(requests) /\ q[i] = requests[i]
                             \/ i - Len(requests) \in 1..Len(t) /\ q[i] = t[i - Len(requests)]
    BY <1>2, <1>3, <2>1, JoinPlaces
  <2> QED
    BY <1>3, <2>1, <2>2
<1>4. ASSUME requests' = requests
      PROVE  \A i \in 1..Len(requests') : \/ i \in 1..Len(requests) /\ requests'[i] = requests[i]
                                          \/ requests'[i].type # "initialize"
  BY <1>4
<1>5. CASE AcceptInitialize
  <2>1. PICK figs, yes : figs = Head(wire).figs \cup discoveries /\ yes = TRUE
    OBVIOUS
  <2>2. RequestSnapshots(figs, yes) /\ wire' = Tail(wire) /\ attached' = attached /\ phase' = "attached"
    BY <1>5, <2>1, Zenon DEF AcceptInitialize, Received, Elsewhere, server
  <2>3. figs \in SUBSET Figures
    <3>1. wire[1].kind = "view"
      BY <1>2, <1>5 DEF AcceptInitialize, Receiving
    <3>2. wire[1].figs \subseteq Figures
      BY <1>2, <3>1, MessageFields
    <3> QED
      BY <1>2, <2>1, <3>2
  <2>4. \A i \in 1..Len(requests') : \/ i \in 1..Len(requests) /\ requests'[i] = requests[i]
                                     \/ requests'[i].type # "initialize"
    BY <2>2, <2>3, SnapshotsJoin
  <2> QED
    BY <1>1, <2>2, <2>4, ReadJoins
<1>6. CASE AcceptSnapshot
  <2>1. /\ wire' = Tail(wire) /\ attached' = attached /\ phase' = phase
        /\ requests' = requests \o (IF Head(wire).request.fig \in closeRetry
                                      THEN <<Req("closeFigure", Head(wire).request.fig, Head(wire).rev, TRUE)>>
                                      ELSE <<>>)
    BY <1>6, Zenon DEF AcceptSnapshot, Received, Elsewhere, server, Send
  <2>2. requests' = requests \o <<>>
    BY <1>2, <2>1, Zenon
  <2>3. requests' = requests
    BY <1>2, <2>2
  <2> QED
    BY <1>1, <1>4, <2>1, <2>3, ReadJoins
<1>7. CASE AcceptFailure
  <2>1. Head(wire).kind # "conflict"
    BY <1>2 DEF Says
  <2>2. wire' = Tail(wire) /\ attached' = attached /\ phase' = "error" /\ Send(<<>>)
    BY <1>7, <2>1, Zenon DEF AcceptFailure, Received, Elsewhere, server
  <2>3. requests' = requests
    BY <1>2, <2>2 DEF Send
  <2> QED
    BY <1>1, <1>4, <2>2, <2>3, ReadJoins
<1>8. CASE AcceptAcknowledgement
  BY <1>2, <1>8 DEF AcceptAcknowledgement, Receiving, Says
<1>9. CASE AcceptClosed
  <2>1. wire' = Tail(wire) /\ attached' = attached /\ phase' = phase /\ requests' = requests
    BY <1>9 DEF AcceptClosed, Received, Elsewhere, server
  <2> QED
    BY <1>1, <1>4, <2>1, ReadJoins
<1>10. CASE AcceptDelta
  <2>1. PICK d, f : d = wire[1] /\ f = d.fig
    OBVIOUS
  <2>2. f \in Figures
    BY <1>2, <1>10, <2>1, MessageFields DEF AcceptDelta, Receiving
  <2>3. CASE /\ RequestSnapshots({f}, phase = "attached") /\ wire' = Tail(wire)
             /\ UNCHANGED <<Elsewhere, phase, shown, resyncPending, closeRetry, discoveries>>
    <3>1. PICK figs, now : figs = {f} /\ now = (phase = "attached")
      OBVIOUS
    <3>2. RequestSnapshots(figs, now)
      BY <2>3, <3>1, Zenon
    <3>3. figs \in SUBSET Figures
      BY <2>2, <3>1
    <3>4. \A i \in 1..Len(requests') : \/ i \in 1..Len(requests) /\ requests'[i] = requests[i]
                                       \/ requests'[i].type # "initialize"
      BY <3>2, <3>3, SnapshotsJoin
    <3>5. wire' = Tail(wire) /\ attached' = attached /\ phase' = phase
      BY <2>3 DEF Elsewhere, server
    <3> QED
      BY <1>1, <3>4, <3>5, ReadJoins
  <2>4. CASE /\ Resync(f) /\ wire' = Tail(wire)
             /\ UNCHANGED <<Elsewhere, phase, shown, records, snapshotPending, closeRetry, discoveries>>
    <3>1. /\ f \in resyncPending => requests' = requests
          /\ f \notin resyncPending => \E q \in Request :
               /\ q.type = "resyncFigure" /\ q.fig = f /\ requests' = requests \o <<q>>
      BY <2>2, <2>4, ResyncTyped
    <3>2. wire' = Tail(wire) /\ attached' = attached /\ phase' = phase
      BY <2>4 DEF Elsewhere, server
    <3>3. \A i \in 1..Len(requests') : \/ i \in 1..Len(requests) /\ requests'[i] = requests[i]
                                       \/ requests'[i].type # "initialize"
      <4>1. CASE f \in resyncPending
        BY <1>4, <3>1, <4>1
      <4>2. CASE f \notin resyncPending
        <5>1. PICK q \in Request : q.type = "resyncFigure" /\ q.fig = f /\ requests' = requests \o <<q>>
          BY <3>1, <4>2
        <5>2. PICK t : t = <<q>>
          OBVIOUS
        <5>3. t \in Seq(Request) /\ \A i \in 1..Len(t) : t[i] = q
          BY <5>2
        <5>4. requests' = requests \o t /\ \A i \in 1..Len(t) : t[i].type # "initialize"
          BY <5>1, <5>2, <5>3
        <5> QED
          BY <1>3, <5>3, <5>4
      <4> QED
        BY <4>1, <4>2
    <3> QED
      BY <1>1, <3>2, <3>3, ReadJoins
  <2>5. CASE wire' = Tail(wire) /\ UNCHANGED <<Elsewhere, requests, phase>>
    <3>1. wire' = Tail(wire) /\ attached' = attached /\ phase' = phase /\ requests' = requests
      BY <2>5 DEF Elsewhere, server
    <3> QED
      BY <1>1, <1>4, <3>1, ReadJoins
  <2>6. CASE Sever
    BY <2>6, SeverJoins
  <2> QED
    BY <1>2, <1>10, <2>1, <2>3, <2>4, <2>5, <2>6, Zenon DEF AcceptDelta, Received
<1> QED
  BY <1>5, <1>6, <1>7, <1>8, <1>9, <1>10

\* Every step of a feed that is only viewed keeps the order of a connection's
\* beginning.
LEMMA JoinNext ==
  ASSUME Viewing, FeedInv, ViewInv, JoinInv, [Next]_vars
  PROVE  JoinInv'
<1>1. ASSUME UNCHANGED joining PROVE JoinInv'
  BY <1>1 DEF JoinInv, joining
<1>2. CASE KernelNext
  <2>1. UNCHANGED joining
    BY <1>2 DEF KernelNext, Create, Mutate, KernelClose, Transaction, TakeDeltas, Publish, PublishFails,
                joining, server, mirror
  <2> QED
    BY <1>1, <2>1
<1>3. CASE ServerNext
  <2>1. ~RefuseMutation /\ ~HandleLimits /\ ~HandleClose /\ ~MutationFails
    BY NoMutation DEF RefuseMutation, HandleLimits, HandleClose, MutationFails
  <2> QED
    BY <1>3, <2>1, InitializeJoins, ServerJoins DEF ServerNext
<1>4. CASE ClientNext
  <2>1. CASE Drop
    BY <2>1, SeverJoins DEF Drop
  <2> QED
    BY <1>4, <2>1, AcceptJoins, ConnectJoins, DiscoverJoins DEF ClientNext
<1>5. CASE UserNext
  BY <1>5 DEF UserNext, UserRequest, Viewing
<1>6. CASE UNCHANGED vars
  <2>1. UNCHANGED joining
    BY <1>6 DEF vars, joining, server, mirror
  <2> QED
    BY <1>1, <2>1
<1> QED
  BY <1>2, <1>3, <1>4, <1>5, <1>6 DEF Next

\* Where windows only view, a quiet feed shows every Figure whose last change
\* went through the journal as it is, and shows none whose closing did, but
\* those that closed before the present connection joined: whatever
\* publications failed, however snapshots and deltas crossed, and however often
\* the connection was lost or given up over a delta that did not apply.
THEOREM ViewerIsMirrored ==
  ASSUME Viewing
  PROVE  Spec => []PublishedIsMirrored
<1>1. Init => FeedInv /\ ViewInv /\ JoinInv
  BY FeedInit, ViewInit
<1>2. FeedInv /\ ViewInv /\ JoinInv /\ [Next]_vars => (FeedInv /\ ViewInv /\ JoinInv)'
  BY FeedNext, ViewNext, JoinNext
<1>3. FeedInv /\ ViewInv => PublishedIsMirrored
  <2> SUFFICES ASSUME FeedInv, ViewInv, Quiet, NEW f \in Figures, Held(f), Journaled(f), ~EndedBefore(f)
               PROVE  InSync(f)
    BY DEF PublishedIsMirrored, Mirrored
  <2>1. /\ shown[f] \in Nat /\ shown[f] <= revision[f] /\ revision[f] \in Nat /\ shown[f] > 0
        /\ events \in Seq(Event)
    BY DEF FeedInv, DataTypes, WireInv, Held
  <2>2. Len(wire) = 0 /\ Len(requests) = 0 /\ cursor = Len(events)
    BY DEF Quiet
  <2>3. PICK i \in 1..Len(events) : events[i].fig = f /\ events[i].base + 1 = revision[f]
    BY DEF Journaled
  <2>4. events[i] \in Event
    BY <2>1
  <2>5. events[i].base \in Nat
    BY <2>4 DEF Event
  <2>6. /\ events[i].kind = "closed" /\ i \notin 1..joined => Ends(wire, shown[f], f)
        /\ open[f] => Comes(wire, requests, shown[f], f, events[i].base)
    BY <2>2, <2>3 DEF ViewInv, ReachInv
  <2>7. open[f]
    <3>1. ~Ends(wire, shown[f], f)
      BY <2>1, <2>2 DEF Ends
    <3>2. ~open[f] => events[i].kind = "closed"
      BY <2>3 DEF ViewInv, EndInv, Marked
    <3>3. ~open[f] => i \notin 1..joined
      BY <2>3 DEF EndedBefore
    <3> QED
      BY <2>6, <3>1, <3>2, <3>3
  <2>8. events[i].base < shown[f]
    BY <2>1, <2>2, <2>6, <2>7 DEF Comes, Asked, Promised
  <2> QED
    BY <2>1, <2>3, <2>5, <2>7, <2>8 DEF InSync
<1> QED
  BY <1>1, <1>2, <1>3, PTL DEF Spec
=============================================================================
