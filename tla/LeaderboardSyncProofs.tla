----------------------- MODULE LeaderboardSyncProofs -----------------------
(***************************************************************************)
(* What the saved state of the ingestion may pass over.                    *)
(***************************************************************************)
EXTENDS LeaderboardSync, FiniteSetTheorems, WellFoundedInduction, TLAPS

(* The scores that are stored, that were bound to be left out, or that the RPC has forgotten. *)
Kept == EventsOf(stored) \cup left \cup {e \in Scores : e[1] < Oldest}

CoveredBelow(l, es) == \A e \in Scores : e[1] < l => e \in es
CoveredBefore(c, es) == \A e \in Scores : Reads(c, e) \/ e \in es

(* A state that is saved, or was loaded, passes over nothing that is not in es. *)
StateCovered(st, es) == CoveredBelow(st.highest, es) /\ CoveredBefore(st.cursor, es)

SyncCovered(r, es) ==
  /\ StateCovered(r.base, es)
  /\ r.at \in {"fetching", "fallback", "upserting"} =>
       /\ CoveredBefore(r.start, es \cup EventsOf(r.got))
       /\ CoveredBelow(r.top, es \cup EventsOf(r.got))

PagesFit == \A s \in Syncs : sync[s].at \in {"fetching", "fallback"} => sync[s].pages < MaxPages

IngestionInv ==
  /\ TypeOK
  /\ PagesFit
  /\ StateCovered(state, Kept)
  /\ \A s \in Syncs : SyncCovered(sync[s], Kept)
-----------------------------------------------------------------------------
LEMMA EventsAreLocated ==
  \A e \in Events : /\ e = <<e[1], e[2]>>
                    /\ e[1] \in Ledgers /\ e[2] \in 1 .. PerLedger
BY SyncAssumption DEF Events

LEMMA EventsAreFinite == IsFiniteSet(Events)
<1>1. PICK E \in SUBSET (Ledgers \X (1 .. PerLedger)) : FormOf \in [E -> Forms]
  BY SyncAssumption
<1>2. IsFiniteSet(Ledgers) /\ IsFiniteSet(1 .. PerLedger)
  BY FS_Interval, SyncAssumption DEF Ledgers, First
<1>3. IsFiniteSet(Ledgers \X (1 .. PerLedger))
  BY <1>2, FS_Product
<1> QED BY <1>1, <1>3, FS_Subset DEF Events

(* A set of naturals that are not beyond some n has a greatest one. *)
LEMMA GreatestExists ==
  ASSUME NEW n \in Nat, NEW T \in SUBSET (0 .. n), T # {}
  PROVE  \E m \in T : \A t \in T : t <= m
<1> DEFINE D == {n - t : t \in T}
<1>0. \A t \in T : n - t \in Nat
  OBVIOUS
<1>1. D \subseteq Nat /\ D # {}
  BY <1>0
<1>2. \E x \in D : \A y \in D : ~ (<<y, x>> \in OpToRel(<, Nat))
  BY <1>1, NatLessThanWellFounded, WFMin
<1>3. PICK x \in D : \A y \in D : ~ (y < x)
  BY <1>1, <1>2 DEF OpToRel
<1>4. PICK m \in T : x = n - m
  OBVIOUS
<1>5. ASSUME NEW t \in T PROVE t <= m
  <2>1. ~ (n - t < n - m)
    BY <1>3, <1>4
  <2> QED BY <2>1
<1> QED BY <1>5

LEMMA HighestOf ==
  ASSUME NEW es \in SUBSET Events, SyncAssumption
  PROVE  /\ Highest(es) \in {0} \cup Ledgers
         /\ es = {} => Highest(es) = 0
         /\ es # {} => \E e \in es : Highest(es) = e[1]
         /\ \A e \in es : e[1] <= Highest(es)
<1>1. CASE es = {}
  BY <1>1 DEF Highest
<1>2. CASE es # {}
  <2> DEFINE T == {e[1] : e \in es}
  <2>1. T \in SUBSET (0 .. MaxLedger) /\ T # {} /\ T \subseteq Ledgers
    BY <1>2, EventsAreLocated, SyncAssumption DEF Ledgers, First
  <2>2. \E m \in T : \A t \in T : t <= m
    BY <2>1, GreatestExists, SyncAssumption
  <2>3. \E l \in T : \A e \in es : e[1] <= l
    BY <2>2
  <2>4. Highest(es) \in T /\ \A e \in es : e[1] <= Highest(es)
    BY <1>2, <2>3 DEF Highest
  <2> QED BY <1>2, <2>1, <2>4
<1> QED BY <1>1, <1>2

LEMMA BehindIs ==
  ASSUME NEW l \in Nat, NEW n \in Nat
  PROVE  /\ Behind(l, n) \in Nat /\ Behind(l, n) >= First
         /\ Behind(l, n) <= l \/ Behind(l, n) = First
         /\ n # 0 => Behind(l + 1, n) <= l \/ Behind(l + 1, n) = First
         /\ Behind(l, n) <= Behind(l + 1, n)
BY DEF Behind, First

LEMMA PositionsAreCursors ==
  /\ \A l \in Nat : FromLedger(l) \in Cursors /\ UpTo(l) \in Cursors
  /\ NoCursor \in Cursors
BY SyncAssumption DEF FromLedger, UpTo, Cursors, NoCursor

LEMMA ReadsIs ==
  ASSUME NEW e, NEW l
  PROVE  /\ Reads(NoCursor, e)
         /\ Reads(FromLedger(l), e) <=> e[1] >= l
         /\ Reads(UpTo(l), e) <=> e[1] > l \/ (e[1] = l /\ e[2] > PerLedger)
BY DEF Reads, FromLedger, UpTo, NoCursor, IsAfter

LEMMA CursorCases ==
  ASSUME NEW c \in Cursors
  PROVE  /\ c.ledger \in Nat /\ c.index \in 0 .. PerLedger
         /\ c.kind \in {"none", "opaque", "ledger"}
         /\ c.kind = "none" => c = NoCursor
         /\ c.kind = "none" => c.ledger = 0
BY SyncAssumption DEF Cursors, NoCursor
-----------------------------------------------------------------------------
(* Two events are in the order of the chain. *)
LEMMA ChainOrder ==
  /\ \A a, b, c \in Events : IsBefore(a, b) /\ IsBefore(b, c) => IsBefore(a, c)
  /\ \A a, b \in Events : a = b \/ IsBefore(a, b) \/ IsBefore(b, a)
  /\ \A a \in Events : ~IsBefore(a, a)
BY EventsAreLocated, SyncAssumption DEF IsBefore, Ledgers, First

LEMMA LastExists ==
  ASSUME NEW es \in SUBSET Events, es # {}
  PROVE  \E e \in es : \A d \in es : ~IsBefore(e, d)
<1> DEFINE L == {e[1] : e \in es}
<1>1. L \in SUBSET (0 .. MaxLedger) /\ L # {}
  BY EventsAreLocated, SyncAssumption DEF Ledgers, First
<1>2. PICK l \in L : \A k \in L : k <= l
  BY <1>1, GreatestExists, SyncAssumption
<1> DEFINE I == {e[2] : e \in {d \in es : d[1] = l}}
<1>3. I \in SUBSET (0 .. PerLedger) /\ I # {}
  BY <1>2, EventsAreLocated, SyncAssumption
<1>4. PICK i \in I : \A k \in I : k <= i
  BY <1>3, GreatestExists, SyncAssumption
<1>5. PICK e \in es : e[1] = l /\ e[2] = i
  BY <1>4
<1>6. ASSUME NEW d \in es PROVE ~IsBefore(e, d)
  <2>1. d[1] <= l /\ d[1] \in Nat /\ l \in Nat /\ d[2] \in Nat /\ i \in Nat
    BY <1>1, <1>2, <1>3, <1>4, EventsAreLocated, SyncAssumption DEF Ledgers, First
  <2>2. d[1] = l => d[2] <= i
    BY <1>4
  <2> QED BY <1>5, <2>1, <2>2 DEF IsBefore
<1> QED BY <1>5, <1>6

LEMMA FirstExists ==
  ASSUME NEW es \in SUBSET Events, es # {}
  PROVE  \E e \in es : \A d \in es : ~IsBefore(d, e)
<1> DEFINE L == {e[1] : e \in es}
<1>1. ASSUME NEW T \in SUBSET Nat, T # {} PROVE \E l \in T : \A k \in T : ~(k < l)
  <2>1. \E l \in T : \A k \in T : ~ (<<k, l>> \in OpToRel(<, Nat))
    BY <1>1, NatLessThanWellFounded, WFMin
  <2> QED BY <2>1 DEF OpToRel
<1>2. L \in SUBSET Nat /\ L # {}
  BY EventsAreLocated, SyncAssumption DEF Ledgers, First
<1>3. PICK l \in L : \A k \in L : ~(k < l)
  BY <1>1, <1>2
<1> DEFINE I == {e[2] : e \in {d \in es : d[1] = l}}
<1>4. I \in SUBSET Nat /\ I # {}
  BY <1>3, EventsAreLocated, SyncAssumption
<1>5. PICK i \in I : \A k \in I : ~(k < i)
  BY <1>1, <1>4
<1>6. PICK e \in es : e[1] = l /\ e[2] = i
  BY <1>5
<1>7. ASSUME NEW d \in es PROVE ~IsBefore(d, e)
  <2>1. ~(d[1] < l)
    BY <1>3
  <2>2. d[1] = l => ~(d[2] < i)
    BY <1>5
  <2> QED BY <1>6, <2>1, <2>2 DEF IsBefore
<1> QED BY <1>6, <1>7

(* The first n events of a set are all of it if there are fewer, and otherwise a part from *)
(* its beginning that is not empty.                                                         *)
LEMMA FirstOfIs ==
  ASSUME NEW n \in Nat \ {0}, NEW es \in SUBSET Events
  PROVE  /\ FirstOf(n, es) \subseteq es
         /\ Cardinality(es) < n => FirstOf(n, es) = es
         /\ Cardinality(es) >= n => FirstOf(n, es) # {}
         /\ \A e \in FirstOf(n, es), d \in es : IsBefore(d, e) => d \in FirstOf(n, es)
<1> DEFINE Before(e) == {d \in es : IsBefore(d, e)}
<1>1. \A S \in SUBSET es : IsFiniteSet(S) /\ Cardinality(S) \in Nat
  BY EventsAreFinite, FS_Subset, FS_CardinalityType
<1>2. ASSUME NEW S \in SUBSET es, NEW R \in SUBSET S PROVE Cardinality(R) <= Cardinality(S)
  BY <1>1, FS_Subset
<1>3. ASSUME Cardinality(es) < n, NEW e \in es PROVE e \in FirstOf(n, es)
  <2>1. Cardinality(Before(e)) <= Cardinality(es) /\ Cardinality(Before(e)) \in Nat
    BY <1>1, <1>2
  <2>2. Cardinality(Before(e)) < n
    BY <1>1, <1>3, <2>1
  <2> QED BY <2>2 DEF FirstOf
<1>4. ASSUME NEW e \in FirstOf(n, es), NEW d \in es, IsBefore(d, e)
      PROVE  d \in FirstOf(n, es)
  <2>1. e \in es /\ Cardinality(Before(e)) < n
    BY DEF FirstOf
  <2>2. Before(d) \in SUBSET Before(e)
    BY <1>4, <2>1, ChainOrder
  <2>3. Cardinality(Before(d)) <= Cardinality(Before(e))
    BY <1>2, <2>2
  <2>4. Cardinality(Before(d)) < n
    BY <1>1, <2>1, <2>3
  <2> QED BY <2>4 DEF FirstOf
<1>5. ASSUME Cardinality(es) >= n PROVE FirstOf(n, es) # {}
  <2>1. es # {}
    BY <1>5, FS_EmptySet
  <2>2. PICK e \in es : \A d \in es : ~IsBefore(d, e)
    BY <2>1, FirstExists
  <2>3. Before(e) = {}
    BY <2>2
  <2>4. Cardinality(Before(e)) < n
    BY <2>3, FS_EmptySet
  <2> QED BY <2>4 DEF FirstOf
<1> QED BY <1>3, <1>4, <1>5 DEF FirstOf
-----------------------------------------------------------------------------
LEMMA RpcStartIs ==
  ASSUME TypeOK, NEW c \in Cursors
  PROVE  /\ RpcStart(c) \in Cursors /\ RpcStart(c).kind = "opaque"
         /\ \A e \in Events : ~Reads(RpcStart(c), e)
              => c.kind = "none" \/ ~Reads(c, e) \/ e[1] < Oldest
<1>1. latest \in Nat /\ latest >= 2 /\ Oldest \in Nat /\ Oldest >= 2
  BY BehindIs, SyncAssumption DEF TypeOK, Ledgers, First, Oldest
<1>2. CASE c.kind = "none"
  <2>0. FirstWindow \in Nat /\ latest + 1 \in Nat
    BY <1>1, SyncAssumption
  <2>1. Behind(latest + 1, FirstWindow) \in Nat
    BY <2>0, BehindIs
  <2> DEFINE l == Greater(Behind(latest + 1, FirstWindow), Oldest) - 1
  <2>2. l \in Nat
    BY <1>1, <2>1 DEF Greater
  <2>3. RpcStart(c) = UpTo(l)
    BY <1>2 DEF RpcStart
  <2> HIDE DEF l
  <2> QED BY <1>2, <2>2, <2>3, PositionsAreCursors DEF UpTo
<1>3. CASE c.kind = "ledger"
  <2> DEFINE l == Smaller(Greater(c.ledger, Oldest), latest) - 1
  <2>1. c.ledger \in Nat
    BY CursorCases
  <2>2. l \in Nat /\ (l < c.ledger \/ l < Oldest)
    BY <1>1, <2>1 DEF Greater, Smaller
  <2>3. RpcStart(c) = UpTo(l)
    BY <1>3 DEF RpcStart
  <2> HIDE DEF l
  <2>4. ASSUME NEW e \in Events, ~Reads(UpTo(l), e) PROVE e[1] < c.ledger \/ e[1] < Oldest
    BY <1>1, <2>1, <2>2, <2>4, ReadsIs, EventsAreLocated, SyncAssumption DEF Ledgers, First
  <2>5. \A e \in Events : Reads(c, e) => ~(e[1] < c.ledger)
    BY <1>3, <2>1, EventsAreLocated, SyncAssumption DEF Reads, Ledgers, First
  <2> QED BY <2>2, <2>3, <2>4, <2>5, PositionsAreCursors DEF UpTo
<1>4. CASE c.kind = "opaque"
  <2> DEFINE l == Oldest - 1
  <2>1. CASE c.ledger < Oldest
    <3>1. l \in Nat /\ l < Oldest
      BY <1>1
    <3>2. RpcStart(c) = UpTo(l)
      BY <1>4, <2>1 DEF RpcStart
    <3> HIDE DEF l
    <3>3. ASSUME NEW e \in Events, ~Reads(UpTo(l), e) PROVE e[1] < Oldest
      BY <1>1, <3>1, <3>3, ReadsIs, EventsAreLocated, SyncAssumption DEF Ledgers, First
    <3> QED BY <3>1, <3>2, <3>3, PositionsAreCursors DEF UpTo
  <2>2. CASE ~(c.ledger < Oldest)
    BY <1>4, <2>2 DEF RpcStart
  <2> QED BY <2>1, <2>2
<1> QED BY <1>2, <1>3, <1>4, CursorCases

(* What a page tells of its events, its rows and the position after it. *)
GoesOn(c, page) ==
  /\ page.events \subseteq Events /\ page.next \in Cursors
  /\ page.rows \subseteq Rows /\ EventsOf(page.rows) = page.events \cap Scores
  /\ \A p \in page.events, e \in Events : e[1] < p[1] => ~Reads(page.next, e)

LEMMA RowsAre ==
  ASSUME NEW es \in SUBSET Events, NEW source \in Sources
  PROVE  RowsOf(es, source) \subseteq Rows /\ EventsOf(RowsOf(es, source)) = es \cap Scores
<1>1. \A e \in Events : Decoded(e) \in SUBSET {"claimant", "scores"}
  BY DEF Decoded, Parsed
<1>2. \A e \in es : IsScoreEvent(e) <=> e \in Scores
  BY DEF Scores
<1>3. RowsOf(es, source) \subseteq Rows
  BY <1>1, <1>2 DEF RowsOf, Row, Rows
<1>4. EventsOf(RowsOf(es, source)) = es \cap Scores
  <2>1. ASSUME NEW e \in es \cap Scores PROVE e \in EventsOf(RowsOf(es, source))
    <3>1. Row(e, source) \in RowsOf(es, source) /\ Row(e, source).event = e
      BY <1>2 DEF RowsOf, Row
    <3> QED BY <3>1 DEF EventsOf
  <2>2. ASSUME NEW row \in RowsOf(es, source) PROVE row.event \in es \cap Scores
    BY <1>2 DEF RowsOf, Row
  <2> QED BY <2>1, <2>2 DEF EventsOf
<1> QED BY <1>3, <1>4

LEMMA RpcPageIs ==
  ASSUME TypeOK, NEW c \in Cursors, NEW to \in {0} \cup Ledgers
  PROVE  /\ GoesOn(c, RpcPage(c, to))
         /\ \A e \in Events : ~Reads(RpcPage(c, to).next, e) /\ Reads(RpcStart(c), e)
                             => e \in RpcPage(c, to).events
<1> DEFINE begin == RpcStart(c)
           reach == begin.ledger + ScanLimit
           last  == Smaller(latest, IF to # 0 /\ c.kind # "opaque" THEN Smaller(reach, to - 1)
                                    ELSE reach)
           ahead == {e \in Chain : e[1] <= last /\ IsAfter(e, begin)}
           page  == FirstOf(Limit, ahead)
           full  == Cardinality(ahead) >= Limit
           end   == CHOOSE e \in page : \A d \in page : ~IsBefore(e, d)
           next  == IF full THEN [kind |-> "opaque", ledger |-> end[1], index |-> end[2]]
                    ELSE IF begin.ledger > last THEN begin ELSE UpTo(last)
           P     == RpcPage(c, to)
<1>1. P.events = page /\ P.rows = RowsOf(page, "rpc") /\ P.next = next
  BY DEF RpcPage
<1>2. begin \in Cursors /\ begin.kind = "opaque" /\ begin.ledger \in Nat
      /\ begin.index \in 0 .. PerLedger
  BY RpcStartIs, CursorCases
<1>3. last \in Nat /\ last <= latest /\ latest \in Nat
  <2>1. latest \in Nat /\ latest >= 2 /\ ScanLimit \in Nat /\ to \in Nat /\ (to # 0 => to - 1 \in Nat)
    BY SyncAssumption DEF TypeOK, Ledgers, First
  <2> HIDE DEF begin
  <2> QED BY <1>2, <2>1 DEF Smaller
<1>4. ahead \in SUBSET Events
  BY DEF Chain
<1>5. Limit \in Nat \ {0} /\ Cardinality(ahead) \in Nat
  BY <1>4, EventsAreFinite, FS_Subset, FS_CardinalityType, SyncAssumption
<1> HIDE DEF begin, last, ahead
<1>6. /\ page \subseteq ahead
      /\ ~full => page = ahead
      /\ full => page # {}
      /\ \A e \in page, d \in ahead : IsBefore(d, e) => d \in page
  BY <1>4, <1>5, FirstOfIs
<1> HIDE DEF page
<1>7. page \subseteq Events /\ \A e \in page : e[1] <= last
  BY <1>4, <1>6 DEF ahead
<1>8. ASSUME full PROVE end \in page /\ \A d \in page : ~IsBefore(end, d)
  BY <1>6, <1>7, <1>8, LastExists
<1> HIDE DEF end
<1>9. next \in Cursors
  <2>1. CASE full
    <3>1. end[1] \in Nat /\ end[2] \in 0 .. PerLedger
      BY <1>7, <1>8, <2>1, EventsAreLocated, SyncAssumption DEF Ledgers, First
    <3> QED BY <2>1, <3>1 DEF Cursors
  <2>2. CASE ~full
    BY <1>2, <1>3, <2>2, PositionsAreCursors
  <2> QED BY <2>1, <2>2
<1>10. ASSUME NEW p \in page, NEW e \in Events, e[1] < p[1] PROVE ~Reads(next, e)
  <2>0. p[1] \in Nat /\ e[1] \in Nat /\ p[1] <= last /\ e[2] \in 1 .. PerLedger
    BY <1>7, EventsAreLocated, SyncAssumption DEF Ledgers, First
  <2>1. CASE full
    <3>1. end \in page /\ ~IsBefore(end, p) /\ end[1] \in Nat
      BY <1>7, <1>8, <2>1, EventsAreLocated, SyncAssumption DEF Ledgers, First
    <3>2. e[1] < end[1]
      BY <1>10, <2>0, <3>1 DEF IsBefore
    <3> QED BY <2>0, <2>1, <3>1, <3>2 DEF Reads, IsAfter
  <2>2. CASE ~full
    <3>1. ~(begin.ledger > last)
      <4>1. IsAfter(p, begin)
        BY <1>6 DEF ahead
      <4> QED BY <1>2, <1>3, <2>0, <4>1 DEF IsAfter
    <3> QED BY <1>3, <1>10, <2>0, <2>2, <3>1, ReadsIs
  <2> QED BY <2>1, <2>2
<1>11. ASSUME NEW e \in Events, ~Reads(next, e), Reads(begin, e) PROVE e \in page
  <2>0. e[1] \in Nat /\ e[2] \in 1 .. PerLedger /\ IsAfter(e, begin)
    BY <1>2, <1>11, EventsAreLocated, SyncAssumption DEF Ledgers, First, Reads
  <2>1. CASE full
    <3>1. end \in page /\ end \in ahead /\ end[1] \in Nat /\ end[2] \in Nat /\ end[1] <= last
      BY <1>6, <1>7, <1>8, <2>1, EventsAreLocated, SyncAssumption DEF Ledgers, First
    <3>2. e[1] < end[1] \/ (e[1] = end[1] /\ e[2] <= end[2])
      BY <1>11, <2>0, <2>1, <3>1 DEF Reads, IsAfter
    <3>3. e[1] <= last /\ e[1] <= latest
      BY <1>3, <2>0, <3>1, <3>2
    <3>4. e \in ahead
      BY <2>0, <3>3 DEF ahead, Chain
    <3>5. IsBefore(e, end) \/ e = end
      BY <1>7, <2>0, <3>1, <3>2, EventsAreLocated DEF IsBefore
    <3> QED BY <1>6, <3>1, <3>4, <3>5
  <2>2. CASE ~full
    <3>1. ~(begin.ledger > last)
      BY <1>11, <2>2
    <3>2. e[1] <= last
      BY <1>3, <1>11, <2>0, <2>2, <3>1, ReadsIs
    <3>3. e \in ahead
      BY <1>3, <2>0, <3>2 DEF ahead, Chain
    <3> QED BY <1>6, <2>2, <3>3
  <2> QED BY <2>1, <2>2
<1>12. P.rows \subseteq Rows /\ EventsOf(P.rows) = page \cap Scores
  BY <1>1, <1>7, RowsAre DEF Sources
<1> QED BY <1>1, <1>7, <1>9, <1>10, <1>11, <1>12 DEF GoesOn, begin

LEMMA FilesAre ==
  ASSUME NEW l \in Nat
  PROVE  FileOf(l) \in Nat /\ FileOf(l) <= l /\ l < FileOf(l) + PerFile
<1>1. PerFile \in Nat \ {0}
  BY SyncAssumption
<1>2. l % PerFile \in 0 .. (PerFile - 1)
  BY <1>1
<1>3. l % PerFile <= l
  BY <1>1
<1> QED BY <1>1, <1>2, <1>3 DEF FileOf

LEMMA LakePageIs ==
  ASSUME TypeOK, NEW c \in Cursors, NEW to \in {0} \cup Ledgers, NEW tip \in {latest, 0},
         NEW lost, NEW others
  PROVE  GoesOn(c, LakePage(c, to, tip, lost, others))
<1> DEFINE from == IF c.kind = "ledger" THEN Greater(First, c.ledger)
                   ELSE IF tip # 0 THEN Behind(tip + 1, FirstWindow) ELSE First
           last == IF to # 0 THEN Greater(from, to)
                   ELSE IF tip # 0 THEN Smaller(from + Limit - 1, tip) ELSE from + Limit - 1
           files == {f \in FileOf(from) .. last : FileOf(f) = f}
           missing == {f \in files : f + PerFile > latest + 1 \/ f \in lost}
           GivesUp(f) ==
             /\ to = 0 /\ f >= FileOf(from) + (MaxMissing - 1) * PerFile
             /\ {g \in files : g <= f /\ f < g + MaxMissing * PerFile} \subseteq missing
           tried == {f \in files : \A g \in files : g < f => ~GivesUp(g)}
           found == {e \in Chain : e[1] \in from .. last /\ FileOf(e[1]) \in tried \ missing}
           next == IF files = {} THEN from
                   ELSE PerFile + CHOOSE f \in tried : \A g \in tried : g <= f
           page == LakePage(c, to, tip, lost, others)
<1>1. /\ latest \in Nat /\ to \in Nat /\ tip \in Nat /\ c.ledger \in Nat
      /\ Limit \in Nat \ {0} /\ PerFile \in Nat \ {0} /\ FirstWindow \in Nat
  BY CursorCases, SyncAssumption DEF TypeOK, Ledgers, First
<1>2. from \in Nat
  <2>0. tip + 1 \in Nat
    BY <1>1
  <2>1. Behind(tip + 1, FirstWindow) \in Nat
    BY <1>1, <2>0, BehindIs
  <2> QED BY <1>1, <2>1 DEF Greater, First
<1>3. last \in Nat
  <2>1. from + Limit - 1 \in Nat
    BY <1>1, <1>2
  <2> HIDE DEF from
  <2> QED BY <1>1, <1>2, <2>1 DEF Greater, Smaller
<1>4. page.events = found /\ page.rows = RowsOf(found, "galexie")
      /\ page.next = FromLedger(next)
  BY DEF LakePage
<1> HIDE DEF page
<1> HIDE DEF from, last
<1>5. files \in SUBSET (0 .. last)
  BY <1>2, <1>3, FilesAre
<1> HIDE DEF GivesUp
<1>6. tried \in SUBSET (0 .. last)
  BY <1>5
<1>7. ASSUME files # {} PROVE tried # {}
  <2>1. \A T \in SUBSET Nat : T # {} => \E l \in T : \A k \in T : ~(k < l)
    <3>1. \A T \in SUBSET Nat : T # {} =>
             \E l \in T : \A k \in T : ~ (<<k, l>> \in OpToRel(<, Nat))
      BY NatLessThanWellFounded, WFMin
    <3> QED BY <3>1 DEF OpToRel
  <2>2. files \in SUBSET Nat
    BY <1>3, <1>5
  <2> HIDE DEF files
  <2>3. \E l \in files : \A k \in files : ~(k < l)
    BY <1>7, <2>1, <2>2
  <2> QED BY <2>3
<1> HIDE DEF tried, files
<1>8. ASSUME files # {}
      PROVE  /\ next \in Nat
             /\ \A f \in tried : f + PerFile <= next
  <2>1. \E m \in tried : \A g \in tried : g <= m
    BY <1>3, <1>6, <1>7, <1>8, GreatestExists
  <2> DEFINE m == CHOOSE f \in tried : \A g \in tried : g <= f
  <2>2. m \in tried /\ \A g \in tried : g <= m
    BY <2>1
  <2>3. next = PerFile + m
    BY <1>8
  <2> HIDE DEF m, next
  <2>4. tried \subseteq Nat
    BY <1>3, <1>6
  <2> QED BY <1>1, <2>2, <2>3, <2>4
<1>9. next \in Nat
  BY <1>2, <1>8
<1> HIDE DEF next
<1>10. page.next \in Cursors
  BY <1>4, <1>9, PositionsAreCursors
<1>11. page.events \subseteq Events
  BY <1>4 DEF Chain
<1>12. ASSUME NEW p \in page.events, NEW e \in Events, e[1] < p[1] PROVE ~Reads(page.next, e)
  <2>1. FileOf(p[1]) \in tried /\ p[1] \in Nat /\ e[1] \in Nat
    BY <1>4, <1>11, EventsAreLocated, SyncAssumption DEF Ledgers, First
  <2>2. files # {}
    BY <2>1 DEF tried
  <2>3. FileOf(p[1]) + PerFile <= next
    BY <1>8, <2>1, <2>2
  <2>4. p[1] < FileOf(p[1]) + PerFile /\ FileOf(p[1]) \in Nat
    BY <2>1, FilesAre
  <2>5. e[1] < next
    BY <1>1, <1>9, <1>12, <2>1, <2>3, <2>4
  <2> QED BY <1>4, <1>9, <2>1, <2>5, ReadsIs
<1>13. page.rows \subseteq Rows /\ EventsOf(page.rows) = page.events \cap Scores
  BY <1>4, <1>11, RowsAre DEF Sources
<1> QED BY <1>10, <1>11, <1>12, <1>13 DEF GoesOn, page
-----------------------------------------------------------------------------
(* Nothing that is kept is lost while the chain, the rows and what was left out grow. *)
LEMMA KeptGrows ==
  ASSUME TypeOK, latest' \in {latest, latest + 1},
         stored \subseteq stored', left \subseteq left'
  PROVE  Kept \subseteq Kept'
<1>1. latest \in Nat /\ latest + 1 \in Nat /\ Retention \in Nat
  BY SyncAssumption DEF TypeOK, Ledgers, First
<1>2. Oldest \in Nat /\ Oldest' \in Nat /\ Oldest <= Oldest'
  <2>1. CASE latest' = latest
    BY <1>1, <2>1, BehindIs DEF Oldest
  <2>2. CASE latest' = latest + 1
    <3>1. (latest + 1) + 1 \in Nat
      BY <1>1
    <3>2. /\ Behind(latest + 1, Retention) \in Nat /\ Behind((latest + 1) + 1, Retention) \in Nat
          /\ Behind(latest + 1, Retention) <= Behind((latest + 1) + 1, Retention)
      BY <1>1, <3>1, BehindIs
    <3> QED BY <2>2, <3>2 DEF Oldest
  <2> QED BY <2>1, <2>2
<1>3. EventsOf(stored) \subseteq EventsOf(stored)'
  BY DEF EventsOf
<1>4. ASSUME NEW e \in Scores, e[1] < Oldest PROVE e[1] < Oldest'
  <2>1. e[1] \in Nat
    BY EventsAreLocated, SyncAssumption DEF Scores, Ledgers, First
  <2> QED BY <1>2, <1>4, <2>1
<1> QED BY <1>3, <1>4 DEF Kept

LEMMA CoverGrows ==
  ASSUME NEW es, NEW fs, es \subseteq fs
  PROVE  /\ \A st : StateCovered(st, es) => StateCovered(st, fs)
         /\ \A r : SyncCovered(r, es) => SyncCovered(r, fs)
<1>1. \A st : StateCovered(st, es) => StateCovered(st, fs)
  BY DEF StateCovered, CoveredBelow, CoveredBefore
<1> QED BY <1>1 DEF SyncCovered, CoveredBelow, CoveredBefore

LEMMA EventsOfUnion ==
  \A A, B : EventsOf(A \cup B) = EventsOf(A) \cup EventsOf(B)
BY DEF EventsOf

(* Where a forward sync begins, it passes over nothing but what its state covers. *)
LEMMA ForwardIs ==
  ASSUME NEW st \in StateRecord, NEW es, StateCovered(st, es), LeftAtStart(st) \subseteq es
  PROVE  ForwardStart(st) \in Cursors /\ CoveredBefore(ForwardStart(st), es)
<1>1. st.highest \in Nat /\ st.cursor \in Cursors
  BY SyncAssumption DEF StateRecord, Ledgers, First
<1>2. st.cursor.ledger \in Nat /\ st.cursor.kind \in {"none", "opaque", "ledger"}
      /\ (st.cursor.kind = "none" => st.cursor.ledger = 0)
  BY <1>1, CursorCases
<1>3. \A e \in Scores : e \in Events /\ e[1] \in Nat /\ e[1] >= First
  BY EventsAreLocated, SyncAssumption DEF Scores, Ledgers, First
<1>4. CASE st.cursor.kind = "opaque"
  <2>1. CASE st.highest # 0 /\ st.cursor.ledger <= st.highest
    <3>1. ForwardStart(st) = FromLedger(st.highest + 1) /\ st.highest + 1 \in Nat
      BY <1>1, <1>4, <2>1 DEF ForwardStart
    <3>2. ASSUME NEW e \in Scores, ~(e[1] >= st.highest + 1) PROVE e \in es
      <4>1. CASE e[1] = st.highest
        BY <1>3, <1>4, <2>1, <4>1 DEF LeftAtStart
      <4>2. CASE e[1] < st.highest
        BY <4>2 DEF StateCovered, CoveredBelow
      <4> QED BY <1>1, <1>3, <3>2, <4>1, <4>2
    <3>3. \A e \in Scores : Reads(FromLedger(st.highest + 1), e) \/ e \in es
      BY <3>2, ReadsIs
    <3> QED BY <3>1, <3>3, PositionsAreCursors DEF CoveredBefore
  <2>2. CASE ~(st.highest # 0 /\ st.cursor.ledger <= st.highest)
    BY <1>1, <1>4, <2>2 DEF ForwardStart, StateCovered
  <2> QED BY <2>1, <2>2
<1>5. CASE st.cursor.kind # "opaque"
  <2> DEFINE anchor == IF st.highest # 0 THEN st.highest ELSE st.cursor.ledger
             l == Behind(anchor + 1, Window)
  <2>1. anchor \in Nat /\ anchor + 1 \in Nat /\ Window \in Nat \ {0}
    BY <1>1, <1>2, SyncAssumption
  <2>2. CASE anchor = 0
    <3>1. ForwardStart(st) = NoCursor
      BY <1>5, <2>2 DEF ForwardStart
    <3> QED BY <3>1, ReadsIs, PositionsAreCursors DEF CoveredBefore
  <2>3. CASE anchor # 0
    <3>1. ForwardStart(st) = FromLedger(l)
      BY <1>5, <2>3 DEF ForwardStart
    <3>2. ASSUME NEW e \in Scores, e[1] < anchor PROVE e \in es
      <4>1. CASE st.highest # 0
        BY <3>2, <4>1 DEF StateCovered, CoveredBelow
      <4>2. CASE st.highest = 0
        <5>1. st.cursor.kind = "ledger" /\ e[1] < st.cursor.ledger
          BY <1>2, <1>5, <2>3, <3>2, <4>2
        <5>2. ~Reads(st.cursor, e)
          BY <1>2, <1>3, <5>1 DEF Reads
        <5> QED BY <5>2 DEF StateCovered, CoveredBefore
      <4> QED BY <4>1, <4>2
    <3> HIDE DEF anchor
    <3>3. l \in Nat /\ (l <= anchor \/ l = First)
      BY <2>1, BehindIs
    <3> HIDE DEF l
    <3>4. ASSUME NEW e \in Scores, ~(e[1] >= l) PROVE e[1] < anchor
      BY <1>3, <2>1, <3>3, <3>4
    <3>5. \A e \in Scores : Reads(FromLedger(l), e) \/ e \in es
      BY <3>2, <3>4, ReadsIs
    <3> QED BY <3>1, <3>3, <3>5, PositionsAreCursors DEF CoveredBefore
  <2> QED BY <2>2, <2>3
<1> QED BY <1>4, <1>5

(* What a sync has of a page, and where it goes on. *)
LEMMA ReceivedKeeps ==
  ASSUME TypeOK, NEW r \in SyncRecord, r.at \in {"fetching", "fallback"}, r.pages < MaxPages,
         NEW page, GoesOn(r.start, page), NEW es, SyncCovered(r, es),
         \A e \in Scores : Reads(r.start, e) /\ ~Reads(page.next, e) => e \in page.events \cup es
  PROVE  /\ Received(r, page) \in SyncRecord
         /\ Received(r, page).at \in {"fetching", "fallback"} => Received(r, page).pages < MaxPages
         /\ SyncCovered(Received(r, page), es)
<1> DEFINE more == /\ r.pages + 1 < MaxPages
                   /\ page.full \/ (page.next.kind = "opaque" /\ page.next.ledger < latest)
           at == IF more THEN "fetching" ELSE "upserting"
           top == Greater(r.top, Highest(EventsOf(page.rows)))
           got == r.got \cup page.rows
           q == Received(r, page)
<1>0. at \in {"fetching", "upserting"} /\ (at = "fetching" => r.pages + 1 < MaxPages)
  OBVIOUS
<1> HIDE DEF at
<1>1. q = [r EXCEPT !.at = at, !.pages = r.pages + 1, !.start = page.next, !.got = got,
                    !.top = top]
  BY DEF Received, at
<1>2. page.rows \subseteq Rows /\ page.next \in Cursors /\ page.events \subseteq Events
      /\ EventsOf(page.rows) = page.events \cap Scores
  BY DEF GoesOn
<1>3. EventsOf(page.rows) \in SUBSET Events
  BY <1>2
<1> DEFINE high == Highest(EventsOf(page.rows))
<1>4. /\ high \in {0} \cup Ledgers
      /\ EventsOf(page.rows) = {} => high = 0
      /\ EventsOf(page.rows) # {} => \E e \in EventsOf(page.rows) : high = e[1]
  BY <1>3, HighestOf, SyncAssumption
<1> HIDE DEF high
<1>5. top \in {0} \cup Ledgers /\ top \in {r.top, high} /\ r.top \in Nat
  BY <1>4, SyncAssumption DEF SyncRecord, Greater, Ledgers, First, high
<1> HIDE DEF top
<1>6. r.pages + 1 \in 0 .. MaxPages
  BY SyncAssumption DEF SyncRecord
<1>7. got \subseteq Rows
  BY <1>2 DEF SyncRecord
<1> HIDE DEF got
<1>8. q \in SyncRecord
  BY <1>0, <1>1, <1>2, <1>5, <1>6, <1>7 DEF SyncRecord
<1>9. q.at = at /\ q.pages = r.pages + 1 /\ q.start = page.next /\ q.got = got /\ q.top = top
      /\ q.base = r.base
  BY <1>1 DEF SyncRecord
<1> HIDE DEF q
<1>10. EventsOf(got) = EventsOf(r.got) \cup (page.events \cap Scores)
  BY <1>2, EventsOfUnion DEF got
<1>11. CoveredBefore(r.start, es \cup EventsOf(r.got)) /\ CoveredBelow(r.top, es \cup EventsOf(r.got))
  BY DEF SyncCovered
<1>12. CoveredBefore(page.next, es \cup EventsOf(got))
  <2>1. ASSUME NEW e \in Scores, ~Reads(page.next, e) PROVE e \in es \cup EventsOf(got)
    <3>1. CASE Reads(r.start, e)
      BY <1>10, <2>1, <3>1
    <3>2. CASE ~Reads(r.start, e)
      BY <1>10, <1>11, <3>2 DEF CoveredBefore
    <3> QED BY <3>1, <3>2
  <2> QED BY <2>1 DEF CoveredBefore
<1>13. CoveredBelow(top, es \cup EventsOf(got))
  <2>1. CASE top = r.top
    BY <1>10, <1>11, <2>1 DEF CoveredBelow
  <2>2. CASE top = high
    <3>1. CASE EventsOf(page.rows) = {}
      <4>1. top = 0
        BY <1>4, <2>2, <3>1
      <4> QED BY <4>1, EventsAreLocated, SyncAssumption DEF CoveredBelow, Scores, Ledgers, First
    <3>2. CASE EventsOf(page.rows) # {}
      <4>1. PICK p \in page.events : high = p[1]
        BY <1>2, <1>4, <3>2
      <4>2. \A e \in Scores : e[1] < top => ~Reads(page.next, e)
        BY <2>2, <4>1 DEF GoesOn, Scores
      <4> QED BY <1>12, <4>2 DEF CoveredBelow, CoveredBefore
    <3> QED BY <3>1, <3>2
  <2> QED BY <1>5, <2>1, <2>2
<1>14. SyncCovered(q, es)
  BY <1>9, <1>12, <1>13 DEF SyncCovered
<1>15. q.at \in {"fetching", "fallback"} => q.pages < MaxPages
  BY <1>0, <1>9
<1> QED BY <1>8, <1>14, <1>15 DEF q
-----------------------------------------------------------------------------
LEMMA InitInv == Init => IngestionInv
<1> SUFFICES ASSUME Init PROVE IngestionInv
  OBVIOUS
<1>1. NoCursor \in Cursors
  BY PositionsAreCursors
<1>2. First \in Ledgers /\ 0 \in 0 .. MaxPages /\ 0 \in 0 .. MaxFaults /\ 0 \in 0 .. MaxOverlaps
  BY SyncAssumption DEF First, Ledgers
<1>3. NoState \in StateRecord
  BY <1>1 DEF NoState, StateRecord
<1>4. Idle \in SyncRecord
  BY <1>1, <1>2, <1>3 DEF Idle, SyncRecord
<1>5. TypeOK
  BY <1>2, <1>3, <1>4 DEF Init, TypeOK
<1>6. StateCovered(NoState, Kept)
  <2>1. CoveredBelow(0, Kept)
    BY EventsAreLocated, SyncAssumption DEF CoveredBelow, Scores, Ledgers, First
  <2> QED BY <2>1, ReadsIs DEF StateCovered, CoveredBefore, NoState
<1>7. SyncCovered(Idle, Kept)
  BY <1>6 DEF SyncCovered, Idle
<1> QED BY <1>5, <1>6, <1>7 DEF Init, IngestionInv, PagesFit, Idle

(* A step of one sync keeps the invariant if what it does to its own record does. *)
LEMMA StepKeepsInv ==
  ASSUME IngestionInv, NEW s \in Syncs, NEW q \in SyncRecord,
         Goto(s, q), q.at \in {"fetching", "fallback"} => q.pages < MaxPages,
         latest' = latest, stored \subseteq stored', stored' \subseteq Rows,
         left \subseteq left', left' \subseteq Events,
         faults' \in 0 .. MaxFaults, overlaps' \in 0 .. MaxOverlaps,
         state' \in StateRecord, StateCovered(state', Kept'), SyncCovered(q, Kept')
  PROVE  IngestionInv'
<1>1. TypeOK'
  BY DEF IngestionInv, TypeOK, Goto
<1>2. Kept \subseteq Kept'
  BY KeptGrows DEF IngestionInv
<1>3. \A t \in Syncs : sync'[t] = IF t = s THEN q ELSE sync[t]
  BY DEF Goto, IngestionInv, TypeOK
<1>4. PagesFit'
  BY <1>3 DEF PagesFit, IngestionInv
<1>5. ASSUME NEW t \in Syncs PROVE SyncCovered(sync'[t], Kept')
  <2>1. CASE t = s
    BY <1>3, <2>1
  <2>2. CASE t # s
    <3>1. sync'[t] = sync[t] /\ SyncCovered(sync[t], Kept)
      BY <1>3, <2>2 DEF IngestionInv
    <3> QED BY <1>2, <3>1, CoverGrows
  <2> QED BY <2>1, <2>2
<1> QED BY <1>1, <1>4, <1>5 DEF IngestionInv

(* A step of a sync that writes nothing to D1. *)
LEMMA QuietStepKeepsInv ==
  ASSUME IngestionInv, NEW s \in Syncs, NEW q \in SyncRecord,
         Goto(s, q), q.at \in {"fetching", "fallback"} => q.pages < MaxPages,
         UNCHANGED <<latest, stored, state>>, left \subseteq left', left' \subseteq Events,
         faults' \in 0 .. MaxFaults, overlaps' \in 0 .. MaxOverlaps,
         SyncCovered(q, Kept')
  PROVE  IngestionInv'
<1>1. Kept \subseteq Kept'
  BY KeptGrows DEF IngestionInv
<1>2. StateCovered(state', Kept')
  BY <1>1, CoverGrows DEF IngestionInv
<1> QED BY <1>2, StepKeepsInv DEF IngestionInv, TypeOK

(* A record that is idle, or on its way, without events. *)
LEMMA FreshRecord ==
  ASSUME NEW st \in StateRecord, NEW at \in {"idle", "saved", "tapes", "recording"}
  PROVE  /\ [Idle EXCEPT !.at = at, !.base = st] \in SyncRecord
         /\ [Idle EXCEPT !.at = at, !.base = st].at = at
         /\ \A es : StateCovered(st, es) => SyncCovered([Idle EXCEPT !.at = at, !.base = st], es)
<1>1. NoCursor \in Cursors /\ 0 \in 0 .. MaxPages
  BY PositionsAreCursors, SyncAssumption
<1> QED BY <1>1 DEF Idle, SyncRecord, SyncCovered

LEMMA IdleRecord ==
  /\ Idle \in SyncRecord /\ Idle.at = "idle"
  /\ \A es : SyncCovered(Idle, es)
<1>1. NoCursor \in Cursors /\ 0 \in 0 .. MaxPages
  BY PositionsAreCursors, SyncAssumption
<1>2. NoState \in StateRecord
  BY <1>1 DEF NoState, StateRecord
<1>3. \A es : StateCovered(NoState, es)
  BY ReadsIs, EventsAreLocated, SyncAssumption
  DEF StateCovered, CoveredBefore, CoveredBelow, NoState, Scores, Ledgers, First
<1> QED BY <1>1, <1>2, <1>3 DEF Idle, SyncRecord, SyncCovered

LEMMA FaultIs ==
  ASSUME TypeOK, Fault
  PROVE  faults' \in 0 .. MaxFaults
BY SyncAssumption DEF TypeOK, Fault

(* A sync that reads from a cursor on has lost nothing before it. *)
LEMMA FetchingRecord ==
  ASSUME NEW st \in StateRecord, NEW c \in Cursors, NEW to \in {0} \cup Ledgers,
         NEW mode \in {"forward", "backfill"}, NEW es, StateCovered(st, es), CoveredBefore(c, es),
         NEW q, q = Fetching(mode, st, c, to)
  PROVE  /\ q \in SyncRecord
         /\ q.at \in {"fetching", "fallback"} => q.pages < MaxPages
         /\ SyncCovered(q, es)
<1>1. NoCursor \in Cursors /\ 0 \in 0 .. MaxPages /\ 0 < MaxPages
  BY PositionsAreCursors, SyncAssumption
<1>2. q \in SyncRecord
  BY <1>1 DEF Fetching, Idle, SyncRecord
<1>3. q.at = "fetching" /\ q.base = st /\ q.start = c /\ q.got = {} /\ q.top = 0 /\ q.pages = 0
  BY DEF Fetching, Idle
<1>4. EventsOf({}) = {}
  BY DEF EventsOf
<1>5. CoveredBelow(0, es)
  BY EventsAreLocated, SyncAssumption DEF CoveredBelow, Scores, Ledgers, First
<1>6. es \cup EventsOf(q.got) = es
  BY <1>3, <1>4
<1>7. SyncCovered(q, es)
  BY <1>3, <1>5, <1>6 DEF SyncCovered
<1> QED BY <1>1, <1>2, <1>3, <1>7
-----------------------------------------------------------------------------
LEMMA NewLedgerInv == IngestionInv /\ NewLedger => IngestionInv'
<1> SUFFICES ASSUME IngestionInv, NewLedger PROVE IngestionInv'
  OBVIOUS
<1>1. TypeOK'
  <2>1. latest' \in Ledgers
    BY SyncAssumption DEF NewLedger, IngestionInv, TypeOK, Ledgers, First
  <2> QED BY <2>1 DEF NewLedger, IngestionInv, TypeOK
<1>2. Kept \subseteq Kept'
  BY KeptGrows DEF NewLedger, IngestionInv
<1>3. StateCovered(state', Kept')
  BY <1>2, CoverGrows DEF NewLedger, IngestionInv
<1>4. \A s \in Syncs : SyncCovered(sync'[s], Kept')
  BY <1>2, CoverGrows DEF NewLedger, IngestionInv
<1> QED BY <1>1, <1>3, <1>4 DEF NewLedger, IngestionInv, PagesFit

LEMMA BeginInv ==
  ASSUME IngestionInv, NEW s \in Syncs, Begin(s)
  PROVE  IngestionInv'
<1> DEFINE q == Fetching("forward", state, ForwardStart(state), 0)
<1>1. overlaps' \in 0 .. MaxOverlaps
  BY SyncAssumption DEF Begin, IngestionInv, TypeOK
<1>2. LeftAtStart(state) \subseteq Events
  BY DEF LeftAtStart
<1>3. left \subseteq left' /\ left' \subseteq Events /\ LeftAtStart(state) \subseteq left'
  BY <1>2 DEF Begin, IngestionInv, TypeOK
<1>4. Kept \subseteq Kept'
  BY <1>3, KeptGrows DEF Begin, IngestionInv
<1>5. StateCovered(state, Kept')
  BY <1>4, CoverGrows DEF IngestionInv
<1>6. LeftAtStart(state) \subseteq Kept'
  BY <1>3 DEF Kept
<1>7. ForwardStart(state) \in Cursors /\ CoveredBefore(ForwardStart(state), Kept')
  BY <1>5, <1>6, ForwardIs DEF IngestionInv, TypeOK
<1> HIDE DEF q
<1>9. q \in SyncRecord /\ (q.at \in {"fetching", "fallback"} => q.pages < MaxPages)
      /\ SyncCovered(q, Kept')
  BY <1>5, <1>7, FetchingRecord DEF IngestionInv, TypeOK, q
<1>10. Goto(s, q) /\ UNCHANGED <<latest, stored, state>> /\ faults' \in 0 .. MaxFaults
  BY DEF Begin, IngestionInv, TypeOK, q
<1> QED BY <1>1, <1>3, <1>9, <1>10, QuietStepKeepsInv

LEMMA RpcAnswersInv ==
  ASSUME IngestionInv, NEW s \in Syncs, RpcAnswers(s)
  PROVE  IngestionInv'
<1> DEFINE r == sync[s]
<1>1. r \in SyncRecord /\ r.start \in Cursors /\ r.to \in {0} \cup Ledgers
  BY DEF IngestionInv, TypeOK, SyncRecord
<1>2. r.at \in {"fetching", "fallback"} /\ r.pages < MaxPages
  BY DEF RpcAnswers, IngestionInv, PagesFit
<1>3. PICK to \in {r.to, 0} : Goto(s, Received(r, RpcPage(r.start, to)))
  BY DEF RpcAnswers
<1> DEFINE page == RpcPage(r.start, to)
<1>4. to \in {0} \cup Ledgers
  BY <1>1
<1>5. /\ left \subseteq left' /\ left' \subseteq Events
      /\ r.start.kind = "none" => {e \in Events : ~Reads(RpcStart(r.start), e)} \subseteq left'
      /\ UNCHANGED <<latest, stored, state>>
      /\ faults' \in 0 .. MaxFaults /\ overlaps' \in 0 .. MaxOverlaps
  BY DEF RpcAnswers, IngestionInv, TypeOK
<1>6. Kept \subseteq Kept'
  BY <1>5, KeptGrows DEF IngestionInv
<1>7. SyncCovered(r, Kept')
  BY <1>6, CoverGrows DEF IngestionInv
<1>8. /\ GoesOn(r.start, page)
      /\ \A e \in Events : ~Reads(page.next, e) /\ Reads(RpcStart(r.start), e) => e \in page.events
  BY <1>1, <1>4, RpcPageIs DEF IngestionInv
<1>9. \A e \in Events : ~Reads(RpcStart(r.start), e)
         => r.start.kind = "none" \/ ~Reads(r.start, e) \/ e[1] < Oldest
  BY <1>1, RpcStartIs DEF IngestionInv
<1> HIDE DEF page
<1>10. ASSUME NEW e \in Scores, Reads(r.start, e), ~Reads(page.next, e)
       PROVE  e \in page.events \cup Kept'
  <2>0. e \in Events
    BY DEF Scores
  <2>1. CASE Reads(RpcStart(r.start), e)
    BY <1>8, <1>10, <2>0, <2>1
  <2>2. CASE ~Reads(RpcStart(r.start), e)
    <3>1. CASE r.start.kind = "none"
      BY <1>5, <2>0, <2>2, <3>1 DEF Kept
    <3>2. CASE e[1] < Oldest
      BY <1>6, <3>2 DEF Kept
    <3> QED BY <1>9, <1>10, <2>0, <2>2, <3>1, <3>2
  <2> QED BY <2>1, <2>2
<1> DEFINE q == Received(r, page)
<1> HIDE DEF r
<1>11. q \in SyncRecord /\ (q.at \in {"fetching", "fallback"} => q.pages < MaxPages)
       /\ SyncCovered(q, Kept')
  BY <1>1, <1>2, <1>7, <1>8, <1>10, ReceivedKeeps DEF IngestionInv
<1>12. Goto(s, q)
  BY <1>3 DEF page
<1> HIDE DEF q
<1> QED BY <1>5, <1>11, <1>12, QuietStepKeepsInv

LEMMA LakeAnswersInv ==
  ASSUME IngestionInv, NEW s \in Syncs, LakeAnswers(s)
  PROVE  IngestionInv'
<1> DEFINE r == sync[s]
<1>1. r \in SyncRecord /\ r.start \in Cursors /\ r.to \in {0} \cup Ledgers
  BY DEF IngestionInv, TypeOK, SyncRecord
<1>2. r.at \in {"fetching", "fallback"} /\ r.pages < MaxPages
  BY DEF LakeAnswers, IngestionInv, PagesFit
<1>3. PICK tip \in {latest, 0}, lost \in SUBSET {FileOf(l) : l \in Ledgers}, others \in {0, Limit} :
         /\ IF tip # 0 /\ lost = {} THEN UNCHANGED faults ELSE Fault
         /\ Goto(s, Received(r, LakePage(r.start, r.to, tip, lost, others)))
         /\ left' = left \cup LeftOut(r.start, LakePage(r.start, r.to, tip, lost, others))
  BY DEF LakeAnswers
<1> DEFINE page == LakePage(r.start, r.to, tip, lost, others)
<1>4. GoesOn(r.start, page)
  BY <1>1, LakePageIs DEF IngestionInv
<1>5. Goto(s, Received(r, page)) /\ left' = left \cup LeftOut(r.start, page)
  BY <1>3
<1>6. faults' \in 0 .. MaxFaults
  BY <1>3, FaultIs DEF IngestionInv, TypeOK
<1> HIDE DEF page
<1>7. /\ UNCHANGED <<latest, stored, state>> /\ overlaps' \in 0 .. MaxOverlaps
      /\ left \subseteq left' /\ left' \subseteq Events
  BY <1>5 DEF LakeAnswers, IngestionInv, TypeOK, LeftOut
<1>8. Kept \subseteq Kept'
  BY <1>7, KeptGrows DEF IngestionInv
<1>9. SyncCovered(r, Kept')
  BY <1>8, CoverGrows DEF IngestionInv
<1>10. \A e \in Scores : Reads(r.start, e) /\ ~Reads(page.next, e) => e \in page.events \cup Kept'
  BY <1>5 DEF LeftOut, Scores, Kept
<1> DEFINE q == Received(r, page)
<1> HIDE DEF r
<1>11. q \in SyncRecord /\ (q.at \in {"fetching", "fallback"} => q.pages < MaxPages)
       /\ SyncCovered(q, Kept')
  BY <1>1, <1>2, <1>4, <1>9, <1>10, ReceivedKeeps DEF IngestionInv
<1>12. Goto(s, q)
  BY <1>5
<1> HIDE DEF q
<1> QED BY <1>6, <1>7, <1>11, <1>12, QuietStepKeepsInv
LEMMA FetchFailsInv ==
  ASSUME IngestionInv, NEW s \in Syncs, FetchFails(s)
  PROVE  IngestionInv'
<1> DEFINE r == sync[s]
           at == IF HasLake /\ r.at = "fetching" THEN "fallback"
                 ELSE IF r.pages = 0 THEN "failed" ELSE "upserting"
           q == [r EXCEPT !.at = at]
<1>1. r \in SyncRecord /\ SyncCovered(r, Kept) /\ r.at \in {"fetching", "fallback"}
      /\ r.pages < MaxPages
  BY DEF IngestionInv, TypeOK, PagesFit, FetchFails
<1>2. Goto(s, q) /\ UNCHANGED <<latest, stored, state, left, overlaps>>
  BY DEF FetchFails
<1>3. faults' \in 0 .. MaxFaults /\ overlaps' \in 0 .. MaxOverlaps
  BY FaultIs DEF FetchFails, IngestionInv, TypeOK
<1>4. at \in {"fallback", "failed", "upserting"}
  OBVIOUS
<1> HIDE DEF at, r
<1>5. q \in SyncRecord /\ q.at = at /\ q.pages = r.pages /\ q.base = r.base /\ q.start = r.start
      /\ q.got = r.got /\ q.top = r.top
  BY <1>1, <1>4 DEF SyncRecord
<1> HIDE DEF q
<1>6. Kept \subseteq Kept' /\ left \subseteq left' /\ left' \subseteq Events
  BY <1>2, KeptGrows DEF IngestionInv, TypeOK
<1>7. SyncCovered(q, Kept)
  BY <1>1, <1>5 DEF SyncCovered
<1>8. SyncCovered(q, Kept')
  BY <1>6, <1>7, CoverGrows
<1> QED BY <1>1, <1>2, <1>3, <1>5, <1>6, <1>8, QuietStepKeepsInv

LEMMA WriteChunkInv ==
  ASSUME IngestionInv, NEW s \in Syncs, WriteChunk(s)
  PROVE  IngestionInv'
<1> DEFINE r == sync[s]
<1>1. r \in SyncRecord /\ SyncCovered(r, Kept) /\ r.at = "upserting" /\ r.got \subseteq Rows
  BY DEF IngestionInv, TypeOK, WriteChunk, SyncRecord
<1>2. PICK n : /\ UNCHANGED faults \/ Fault
               /\ stored' = stored \cup FirstRows(n, r.got)
               /\ Goto(s, [r EXCEPT !.got = r.got \ FirstRows(n, r.got)])
  BY DEF WriteChunk
<1> DEFINE F == FirstRows(n, r.got)
           q == [r EXCEPT !.got = r.got \ F]
<1>3. Goto(s, q) /\ stored' = stored \cup F /\ UNCHANGED <<latest, state, left, overlaps>>
  BY <1>2 DEF WriteChunk
<1>4. faults' \in 0 .. MaxFaults /\ overlaps' \in 0 .. MaxOverlaps
  BY <1>2, FaultIs DEF WriteChunk, IngestionInv, TypeOK
<1>5. F \subseteq r.got
  BY DEF FirstRows
<1> HIDE DEF F, r
<1>6. q \in SyncRecord /\ q.at = r.at /\ q.base = r.base /\ q.start = r.start
      /\ q.got = r.got \ F /\ q.top = r.top
  BY <1>1, <1>5 DEF SyncRecord
<1> HIDE DEF q
<1>7. stored \subseteq stored' /\ stored' \subseteq Rows
  BY <1>1, <1>3, <1>5 DEF IngestionInv, TypeOK
<1>8. left \subseteq left' /\ left' \subseteq Events
  BY <1>3 DEF IngestionInv, TypeOK
<1>9. Kept \subseteq Kept'
  BY <1>3, <1>7, <1>8, KeptGrows DEF IngestionInv
<1>10. Kept \cup EventsOf(r.got) \subseteq Kept' \cup EventsOf(q.got)
  <2>1. EventsOf(F) \subseteq EventsOf(stored)'
    BY <1>3 DEF EventsOf
  <2>2. r.got = F \cup q.got
    BY <1>5, <1>6
  <2>3. EventsOf(r.got) = EventsOf(F) \cup EventsOf(q.got)
    BY <2>2, EventsOfUnion
  <2>4. EventsOf(F) \subseteq Kept'
    BY <2>1 DEF Kept
  <2> QED BY <1>9, <2>3, <2>4
<1>11. StateCovered(q.base, Kept') /\ StateCovered(state', Kept')
  BY <1>1, <1>3, <1>6, <1>9, CoverGrows DEF SyncCovered, IngestionInv
<1>12. /\ CoveredBefore(q.start, Kept' \cup EventsOf(q.got))
       /\ CoveredBelow(q.top, Kept' \cup EventsOf(q.got))
  BY <1>1, <1>6, <1>10 DEF SyncCovered, CoveredBefore, CoveredBelow
<1>13. SyncCovered(q, Kept')
  BY <1>11, <1>12 DEF SyncCovered
<1>14. q.at \notin {"fetching", "fallback"} /\ state' \in StateRecord
  BY <1>1, <1>3, <1>6 DEF IngestionInv, TypeOK
<1> QED BY <1>3, <1>4, <1>6, <1>7, <1>8, <1>11, <1>13, <1>14, StepKeepsInv

LEMMA WriteUnansweredInv ==
  ASSUME IngestionInv, NEW s \in Syncs, WriteUnanswered(s)
  PROVE  IngestionInv'
<1> DEFINE q == sync[s]
<1>1. q \in SyncRecord /\ SyncCovered(q, Kept) /\ q.at = "upserting" /\ q.got \subseteq Rows
  BY DEF IngestionInv, TypeOK, WriteUnanswered, SyncRecord
<1>2. /\ UNCHANGED <<latest, state, sync, left, overlaps>>
      /\ stored' = stored \cup FirstRows(ChunkSize, q.got)
      /\ faults' \in 0 .. MaxFaults
  BY FaultIs DEF WriteUnanswered, IngestionInv
<1>3. FirstRows(ChunkSize, q.got) \subseteq Rows
  BY <1>1 DEF FirstRows
<1>4. Goto(s, q)
  BY <1>2 DEF Goto, IngestionInv, TypeOK
<1>5. Kept \subseteq Kept'
  BY <1>2, KeptGrows DEF IngestionInv
<1> HIDE DEF q
<1>6. SyncCovered(q, Kept') /\ StateCovered(state', Kept')
  BY <1>1, <1>2, <1>5, CoverGrows DEF IngestionInv
<1>7. /\ stored \subseteq stored' /\ stored' \subseteq Rows
      /\ left \subseteq left' /\ left' \subseteq Events
      /\ overlaps' \in 0 .. MaxOverlaps /\ state' \in StateRecord
  BY <1>2, <1>3 DEF IngestionInv, TypeOK
<1> QED BY <1>1, <1>2, <1>4, <1>6, <1>7, StepKeepsInv

LEMMA WriteFailsInv ==
  ASSUME IngestionInv, NEW s \in Syncs, WriteFails(s)
  PROVE  IngestionInv'
<1> DEFINE r == sync[s]
           q == [r EXCEPT !.at = "failed"]
<1>1. r \in SyncRecord /\ SyncCovered(r, Kept)
  BY DEF IngestionInv, TypeOK
<1>2. Goto(s, q) /\ UNCHANGED <<latest, stored, state, left, overlaps>>
  BY DEF WriteFails
<1>3. faults' \in 0 .. MaxFaults /\ overlaps' \in 0 .. MaxOverlaps
  BY FaultIs DEF WriteFails, IngestionInv, TypeOK
<1> HIDE DEF r
<1>4. q \in SyncRecord /\ q.at = "failed" /\ q.base = r.base
  BY <1>1 DEF SyncRecord
<1> HIDE DEF q
<1>5. Kept \subseteq Kept' /\ left \subseteq left' /\ left' \subseteq Events
  BY <1>2, KeptGrows DEF IngestionInv, TypeOK
<1>6. SyncCovered(q, Kept')
  BY <1>1, <1>4, <1>5, CoverGrows DEF SyncCovered
<1> QED BY <1>2, <1>3, <1>4, <1>5, <1>6, QuietStepKeepsInv

LEMMA SaveInv ==
  ASSUME IngestionInv, NEW s \in Syncs, Save(s)
  PROVE  IngestionInv'
<1> DEFINE r == sync[s]
           at == IF r.mode = "forward" THEN "saved" ELSE "tapes"
           st == NextState(r)
           q == [Idle EXCEPT !.at = at, !.base = st]
<1>1. r \in SyncRecord /\ SyncCovered(r, Kept) /\ r.at = "upserting" /\ r.got = {}
  BY DEF IngestionInv, TypeOK, Save
<1>2. Goto(s, q) /\ state' = st /\ UNCHANGED <<latest, stored, left, faults, overlaps>>
  BY DEF Save
<1>3. at \in {"idle", "saved", "tapes", "recording"}
  OBVIOUS
<1>4. Kept \cup EventsOf(r.got) = Kept
  BY <1>1 DEF EventsOf
<1> HIDE DEF r
<1>5. /\ r.start \in Cursors /\ r.top \in {0} \cup Ledgers /\ r.base \in StateRecord
      /\ r.base.cursor \in Cursors /\ r.base.highest \in {0} \cup Ledgers
      /\ r.base.backfilled \in BOOLEAN
  BY <1>1 DEF SyncRecord, StateRecord
<1>6. Greater(r.base.highest, r.top) \in {r.base.highest, r.top}
  BY DEF Greater
<1>7. st \in StateRecord
  BY <1>5, <1>6 DEF NextState, StateRecord
<1>8. StateCovered(st, Kept)
  <2>1. CoveredBefore(st.cursor, Kept)
    BY <1>1, <1>4 DEF NextState, SyncCovered, StateCovered
  <2>2. CoveredBelow(st.highest, Kept)
    BY <1>1, <1>4, <1>6 DEF NextState, SyncCovered, StateCovered
  <2> QED BY <2>1, <2>2 DEF StateCovered
<1> HIDE DEF st, at
<1>9. Kept \subseteq Kept'
  BY <1>2, KeptGrows DEF IngestionInv
<1>10. StateCovered(st, Kept')
  BY <1>8, <1>9, CoverGrows
<1>11. q \in SyncRecord /\ q.at = at /\ SyncCovered(q, Kept')
  BY <1>3, <1>7, <1>10, FreshRecord
<1> HIDE DEF q
<1>12. /\ stored \subseteq stored' /\ stored' \subseteq Rows
       /\ left \subseteq left' /\ left' \subseteq Events
       /\ overlaps' \in 0 .. MaxOverlaps /\ faults' \in 0 .. MaxFaults
  BY <1>2 DEF IngestionInv, TypeOK
<1> QED BY <1>2, <1>3, <1>7, <1>10, <1>11, <1>12, StepKeepsInv

LEMMA CatchUpInv ==
  ASSUME IngestionInv, NEW s \in Syncs, CatchUp(s)
  PROVE  IngestionInv'
<1> DEFINE r == sync[s]
           l == Behind(r.base.highest, CatchupWindow)
           q == Fetching("backfill", state, FromLedger(l), r.base.highest)
<1>1. r \in SyncRecord /\ SyncCovered(r, Kept) /\ r.base.highest \in Ledgers
  BY DEF IngestionInv, TypeOK, CatchUp, SyncRecord, StateRecord
<1>2. Goto(s, q) /\ UNCHANGED <<latest, stored, state, left, faults, overlaps>>
  BY DEF CatchUp, CatchupStart
<1>3. Kept \subseteq Kept'
  BY <1>2, KeptGrows DEF IngestionInv
<1>4. StateCovered(r.base, Kept') /\ StateCovered(state, Kept')
  BY <1>1, <1>3, CoverGrows DEF SyncCovered, IngestionInv
<1> HIDE DEF r
<1>5. r.base.highest \in Nat /\ CatchupWindow \in Nat
  BY <1>1, SyncAssumption DEF Ledgers, First
<1>6. l \in Nat /\ (l <= r.base.highest \/ l = First)
  BY <1>5, BehindIs
<1> HIDE DEF l
<1>7. CoveredBefore(FromLedger(l), Kept')
  <2>1. ASSUME NEW e \in Scores, ~(e[1] >= l) PROVE e \in Kept'
    <3>1. e[1] \in Nat /\ e[1] >= First
      BY EventsAreLocated, SyncAssumption DEF Scores, Ledgers, First
    <3>2. e[1] < r.base.highest
      BY <1>5, <1>6, <2>1, <3>1
    <3> QED BY <1>4, <3>2 DEF StateCovered, CoveredBelow
  <2> QED BY <2>1, ReadsIs DEF CoveredBefore
<1>8. FromLedger(l) \in Cursors
  BY <1>6, PositionsAreCursors
<1>9. q \in SyncRecord /\ (q.at \in {"fetching", "fallback"} => q.pages < MaxPages)
      /\ SyncCovered(q, Kept')
  BY <1>1, <1>4, <1>7, <1>8, FetchingRecord DEF IngestionInv, TypeOK
<1> HIDE DEF q
<1>10. /\ left \subseteq left' /\ left' \subseteq Events
       /\ overlaps' \in 0 .. MaxOverlaps /\ faults' \in 0 .. MaxFaults
  BY <1>2 DEF IngestionInv, TypeOK
<1> QED BY <1>2, <1>9, <1>10, QuietStepKeepsInv
LEMMA NoCatchUpInv ==
  ASSUME IngestionInv, NEW s \in Syncs, NoCatchUp(s)
  PROVE  IngestionInv'
<1> DEFINE r == sync[s]
           q == [r EXCEPT !.at = "tapes"]
<1>1. r \in SyncRecord /\ SyncCovered(r, Kept)
  BY DEF IngestionInv, TypeOK
<1>2. Goto(s, q) /\ UNCHANGED <<latest, stored, state, left, faults, overlaps>>
  BY DEF NoCatchUp
<1> HIDE DEF r
<1>3. q \in SyncRecord /\ q.at = "tapes" /\ q.base = r.base
  BY <1>1 DEF SyncRecord
<1> HIDE DEF q
<1>4. Kept \subseteq Kept'
  BY <1>2, KeptGrows DEF IngestionInv
<1>5. SyncCovered(q, Kept')
  BY <1>1, <1>3, <1>4, CoverGrows DEF SyncCovered
<1>6. /\ left \subseteq left' /\ left' \subseteq Events
      /\ overlaps' \in 0 .. MaxOverlaps /\ faults' \in 0 .. MaxFaults
  BY <1>2 DEF IngestionInv, TypeOK
<1> QED BY <1>2, <1>3, <1>5, <1>6, QuietStepKeepsInv

LEMMA MaintainInv ==
  ASSUME IngestionInv, NEW s \in Syncs, Maintain(s)
  PROVE  IngestionInv'
<1> DEFINE r == sync[s]
           q == IF r.at = "tapes" THEN [r EXCEPT !.at = "prune"] ELSE Idle
<1>1. r \in SyncRecord /\ SyncCovered(r, Kept) /\ r.base \in StateRecord
  BY DEF IngestionInv, TypeOK, SyncRecord
<1>2. Goto(s, q) /\ state' \in {state, r.base}
      /\ UNCHANGED <<latest, stored, left, faults, overlaps>>
  BY DEF Maintain
<1> HIDE DEF r
<1>3. q \in SyncRecord /\ q.at \notin {"fetching", "fallback"} /\ SyncCovered(q, Kept)
  <2>1. CASE r.at = "tapes"
    <3>1. q \in SyncRecord /\ q.at = "prune" /\ q.base = r.base
      BY <1>1, <2>1 DEF SyncRecord
    <3> QED BY <1>1, <3>1 DEF SyncCovered
  <2>2. CASE r.at # "tapes"
    BY <2>2, IdleRecord
  <2> QED BY <2>1, <2>2
<1> HIDE DEF q
<1>4. Kept \subseteq Kept'
  BY <1>2, KeptGrows DEF IngestionInv
<1>5. SyncCovered(q, Kept') /\ StateCovered(r.base, Kept') /\ StateCovered(state, Kept')
  BY <1>1, <1>3, <1>4, CoverGrows DEF SyncCovered, IngestionInv
<1>6. StateCovered(state', Kept') /\ state' \in StateRecord
  BY <1>1, <1>2, <1>5 DEF IngestionInv, TypeOK
<1>7. /\ stored \subseteq stored' /\ stored' \subseteq Rows
      /\ left \subseteq left' /\ left' \subseteq Events
      /\ overlaps' \in 0 .. MaxOverlaps /\ faults' \in 0 .. MaxFaults
  BY <1>2 DEF IngestionInv, TypeOK
<1> QED BY <1>2, <1>3, <1>5, <1>6, <1>7, StepKeepsInv

LEMMA AbortInv ==
  ASSUME IngestionInv, NEW s \in Syncs, Abort(s)
  PROVE  IngestionInv'
<1>1. /\ UNCHANGED <<latest, stored, state, left, faults, overlaps>>
      /\ left \subseteq left' /\ left' \subseteq Events
      /\ overlaps' \in 0 .. MaxOverlaps /\ faults' \in 0 .. MaxFaults
  BY DEF Abort, IngestionInv, TypeOK
<1>2. Kept \subseteq Kept'
  BY <1>1, KeptGrows DEF IngestionInv
<1>3. StateCovered(state, Kept') /\ state \in StateRecord
  BY <1>2, CoverGrows DEF IngestionInv, TypeOK
<1>4. CASE Goto(s, Idle)
  BY <1>1, <1>4, IdleRecord, QuietStepKeepsInv
<1>5. CASE Goto(s, [Idle EXCEPT !.at = "recording", !.base = state])
  <2> DEFINE q == [Idle EXCEPT !.at = "recording", !.base = state]
  <2>1. q \in SyncRecord /\ q.at = "recording" /\ SyncCovered(q, Kept')
    BY <1>3, FreshRecord
  <2>2. Goto(s, q)
    BY <1>5
  <2> HIDE DEF q
  <2> QED BY <1>1, <2>1, <2>2, QuietStepKeepsInv
<1> QED BY <1>4, <1>5 DEF Abort

LEMMA RecordFailureInv ==
  ASSUME IngestionInv, NEW s \in Syncs, RecordFailure(s)
  PROVE  IngestionInv'
<1>1. /\ UNCHANGED <<latest, stored, left, faults, overlaps>>
      /\ stored \subseteq stored' /\ stored' \subseteq Rows
      /\ left \subseteq left' /\ left' \subseteq Events
      /\ overlaps' \in 0 .. MaxOverlaps /\ faults' \in 0 .. MaxFaults
  BY DEF RecordFailure, IngestionInv, TypeOK
<1>2. state' = sync[s].base /\ Goto(s, Idle)
  BY DEF RecordFailure
<1>3. Kept \subseteq Kept'
  BY <1>1, KeptGrows DEF IngestionInv
<1>4. sync[s].base \in StateRecord /\ StateCovered(sync[s].base, Kept)
  BY DEF IngestionInv, TypeOK, SyncRecord, SyncCovered
<1>5. state' \in StateRecord /\ StateCovered(state', Kept')
  BY <1>2, <1>3, <1>4, CoverGrows
<1> QED BY <1>1, <1>2, <1>5, IdleRecord, StepKeepsInv

LEMMA CrashInv ==
  ASSUME IngestionInv, NEW s \in Syncs, Crash(s)
  PROVE  IngestionInv'
<1>1. /\ UNCHANGED <<latest, stored, state>> /\ Goto(s, Idle)
      /\ left \subseteq left' /\ left' \subseteq Events
      /\ overlaps' \in 0 .. MaxOverlaps /\ faults' \in 0 .. MaxFaults
  BY FaultIs DEF Crash, IngestionInv, TypeOK
<1> QED BY <1>1, IdleRecord, QuietStepKeepsInv

LEMMA StutterInv == IngestionInv /\ UNCHANGED vars => IngestionInv'
<1> SUFFICES ASSUME IngestionInv, UNCHANGED vars PROVE IngestionInv'
  OBVIOUS
<1>1. Kept' = Kept
  BY DEF vars, Kept, Oldest, Behind
<1> QED BY <1>1 DEF IngestionInv, TypeOK, PagesFit, vars

LEMMA NextInv == IngestionInv /\ [Next]_vars => IngestionInv'
<1> SUFFICES ASSUME IngestionInv, [Next]_vars PROVE IngestionInv'
  OBVIOUS
<1>1. CASE NewLedger
  BY <1>1, NewLedgerInv
<1>2. ASSUME NEW s \in Syncs, Begin(s) PROVE IngestionInv'
  BY <1>2, BeginInv
<1>3. ASSUME NEW s \in Syncs, Answers(s) PROVE IngestionInv'
  BY <1>3, RpcAnswersInv, LakeAnswersInv DEF Answers
<1>4. ASSUME NEW s \in Syncs, Writes(s) PROVE IngestionInv'
  BY <1>4, WriteChunkInv, SaveInv DEF Writes
<1>5. ASSUME NEW s \in Syncs, Follows(s) PROVE IngestionInv'
  BY <1>5, CatchUpInv, NoCatchUpInv, MaintainInv, AbortInv, RecordFailureInv DEF Follows
<1>6. ASSUME NEW s \in Syncs, Fails(s) PROVE IngestionInv'
  BY <1>6, FetchFailsInv, WriteUnansweredInv, WriteFailsInv, CrashInv DEF Fails
<1>7. CASE UNCHANGED vars
  BY <1>7, StutterInv
<1> QED BY <1>1, <1>2, <1>3, <1>4, <1>5, <1>6, <1>7 DEF Next

LEMMA IngestionInvariant == Spec => []IngestionInv
BY InitInv, NextInv, PTL DEF Spec
-----------------------------------------------------------------------------
(* Every variable keeps its type: what a source answers to any cursor is a page whose   *)
(* next position is a cursor again, and a sync reads no more than MaxPages of them.     *)
THEOREM SyncTypeCorrect == Spec => []TypeOK
<1>1. IngestionInv => TypeOK
  BY DEF IngestionInv
<1> QED BY <1>1, IngestionInvariant, PTL

(* However many syncs run at the same time, whatever fails and whichever state is saved  *)
(* over another, for every size of a page, window and file: a score that the RPC still   *)
(* has is stored or still read, unless a source's window, a missing file or a            *)
(* discarded position leaves it to the catch-up.                                          *)
THEOREM ScoresAreNotSkipped == Spec => []NothingSkipped
<1>1. IngestionInv => NothingSkipped
  <2> SUFFICES ASSUME IngestionInv, NEW e \in Scores \cap Chain,
                      e \notin EventsOf(stored) \cup left \cup LeftAtStart(state),
                      ~(e[1] < Oldest)
               PROVE  Reads(ForwardStart(state), e)
    BY DEF NothingSkipped
  <2> DEFINE es == Kept \cup LeftAtStart(state)
  <2>1. StateCovered(state, es)
    BY CoverGrows DEF IngestionInv
  <2>2. LeftAtStart(state) \subseteq es
    OBVIOUS
  <2>3. e \notin es
    BY DEF Kept
  <2> HIDE DEF es
  <2>4. CoveredBefore(ForwardStart(state), es)
    BY <2>1, <2>2, ForwardIs DEF IngestionInv, TypeOK
  <2> QED BY <2>3, <2>4 DEF CoveredBefore
<1> QED BY <1>1, IngestionInvariant, PTL
=============================================================================
