-------------------------- MODULE RecordPages_proofs --------------------------
(***************************************************************************)
(* Lemmas about the pages of a record stream: the order of its records,    *)
(* what a page has, and what the next record to arrive changes.            *)
(***************************************************************************)
EXTENDS RecordPages, FiniteSetTheorems, WellFoundedInduction, TLAPS

\* A stream that a read may meet, and its records that have an instant.
Stream == {s \in Seq(Line) : Len(s) <= MaxEntries}

Dated(stream) == {i \in DOMAIN stream : stream[i].ts # Null}

LEMMA DatedTypes ==
    ASSUME NEW stream \in Stream
    PROVE  /\ DOMAIN stream \subseteq Positions
           /\ \A i \in Dated(stream) : stream[i].ts \in Nat /\ IdRank[i] \in Nat
           /\ IsFiniteSet(Dated(stream))
<1>1. /\ Len(stream) \in Nat /\ Len(stream) <= MaxEntries
      /\ DOMAIN stream = 1 .. Len(stream)
      /\ \A i \in DOMAIN stream : stream[i] \in Line
  BY DEF Stream
<1>2. DOMAIN stream \subseteq Positions
  BY <1>1, PagesAssumption DEF Positions
<1>3. IsFiniteSet(DOMAIN stream)
  BY <1>1, FS_Interval
<1>4. IsFiniteSet(Dated(stream))
  BY <1>3, FS_Subset DEF Dated
<1>5. \A i \in Dated(stream) : stream[i].ts \in Nat /\ IdRank[i] \in Nat
  BY <1>1, <1>2, PagesAssumption DEF Dated, Line
<1> QED
  BY <1>2, <1>4, <1>5

\* Records with an instant are in a strict total order.
LEMMA PrecedesOrder ==
    ASSUME NEW stream \in Stream, NEW i \in Dated(stream), NEW j \in Dated(stream),
           NEW k \in Dated(stream)
    PROVE  /\ ~Precedes(stream, i, i)
           /\ Precedes(stream, i, j) /\ Precedes(stream, j, k) => Precedes(stream, i, k)
           /\ i = j \/ Precedes(stream, i, j) \/ Precedes(stream, j, i)
<1>1. /\ stream[i].ts \in Nat /\ stream[j].ts \in Nat /\ stream[k].ts \in Nat
      /\ IdRank[i] \in Nat /\ IdRank[j] \in Nat /\ IdRank[k] \in Nat
  BY DatedTypes
<1>2. IdRank[i] = IdRank[j] => i = j
  BY DatedTypes, PagesAssumption DEF Dated
<1> QED
  BY <1>1, <1>2 DEF Precedes

\* A finite set ordered by a relation has a first element: the sets of what comes
\* before each are ordered by inclusion, which is well-founded.
LEMMA FirstExists ==
    ASSUME NEW S, IsFiniteSet(S), S # {}, NEW R,
           \A i \in S : <<i, i>> \notin R,
           \A i, j, k \in S : <<i, j>> \in R /\ <<j, k>> \in R => <<i, k>> \in R
    PROVE  \E i \in S : \A j \in S : <<j, i>> \notin R
<1> DEFINE Before(i) == {j \in S : <<j, i>> \in R}
           T == {Before(i) : i \in S}
<1>1. T \subseteq FiniteSubsetsOf(S) /\ T # {}
  <2>1. \A i \in S : Before(i) \in SUBSET S
    OBVIOUS
  <2>2. \A i \in S : Before(i) \in FiniteSubsetsOf(S)
    BY <2>1, FS_FiniteSubsetsOfFinite
  <2> HIDE DEF Before
  <2> QED
    BY <2>2
<1>2. PICK x \in T : \A y \in T : <<y, x>> \notin StrictSubsetOrdering(S)
  <2> HIDE DEF T
  <2> QED
    BY <1>1, FS_StrictSubsetOrderingWellFounded, WFMin
<1>3. PICK i \in S : x = Before(i)
  BY x \in T
<1>4. ASSUME NEW j \in S, <<j, i>> \in R  PROVE  FALSE
  <2>a. \A k \in S : <<k, j>> \in R => <<k, i>> \in R
    BY <1>4
  <2>1. Before(j) \subseteq Before(i) /\ j \in Before(i) /\ j \notin Before(j)
    BY <1>4, <2>a
  <2>b. Before(j) \in SUBSET S /\ Before(i) \in SUBSET S
    OBVIOUS
  <2>c. Before(j) \in T
    OBVIOUS
  <2>2. Before(j) \in T /\ Before(j) \in SUBSET S /\ x \in SUBSET S
    BY <1>3, <2>b, <2>c
  <2> HIDE DEF Before, T
  <2>3. <<Before(j), x>> \in StrictSubsetOrdering(S)
    BY <1>3, <2>1, <2>2 DEF StrictSubsetOrdering
  <2> QED
    BY <1>2, <2>2, <2>3
<1> QED
  BY <1>4

LEMMA FirstAndLast ==
    ASSUME NEW stream \in Stream, NEW S \in SUBSET Dated(stream), S # {}
    PROVE  /\ \E i \in S : \A j \in S : ~Precedes(stream, j, i)
           /\ \E i \in S : \A j \in S : j = i \/ Precedes(stream, j, i)
<1> DEFINE R == {r \in S \X S : Precedes(stream, r[1], r[2])}
           Q == {r \in S \X S : Precedes(stream, r[2], r[1])}
<1>1. IsFiniteSet(S)
  BY DatedTypes, FS_Subset
<1>2. \A i, j \in S : /\ <<i, j>> \in R <=> Precedes(stream, i, j)
                      /\ <<i, j>> \in Q <=> Precedes(stream, j, i)
  OBVIOUS
<1> HIDE DEF R, Q
<1>3. /\ \A i \in S : <<i, i>> \notin R /\ <<i, i>> \notin Q
      /\ \A i, j, k \in S : <<i, j>> \in R /\ <<j, k>> \in R => <<i, k>> \in R
      /\ \A i, j, k \in S : <<i, j>> \in Q /\ <<j, k>> \in Q => <<i, k>> \in Q
  BY <1>2, PrecedesOrder
<1>4. PICK i \in S : \A j \in S : <<j, i>> \notin R
  BY <1>1, <1>3, FirstExists
<1>5. PICK i2 \in S : \A j \in S : <<j, i2>> \notin Q
  BY <1>1, <1>3, FirstExists
<1>6. \A j \in S : j = i2 \/ Precedes(stream, j, i2)
  BY <1>2, <1>5, PrecedesOrder
<1> QED
  BY <1>2, <1>4, <1>6

\* What is left to serve matches, and a page is part of it.
LEMMA PageWithin ==
    ASSUME NEW stream \in Stream, NEW q, NEW cursor
    PROVE  /\ Page(stream, q, cursor) \subseteq Remaining(stream, q, cursor)
           /\ Remaining(stream, q, cursor) \subseteq Matching(stream, q)
           /\ Matching(stream, q) \subseteq Dated(stream)
           /\ Matching(stream, q) \subseteq Positions
           /\ cursor # Null => \A i \in Remaining(stream, q, cursor) :
                                 Precedes(stream, cursor, i) /\ cursor \in Matching(stream, q)
<1>1. Page(stream, q, cursor) \subseteq Remaining(stream, q, cursor)
  BY DEF Page
<1>2. /\ Remaining(stream, q, cursor) \subseteq Matching(stream, q)
      /\ cursor # Null => \A i \in Remaining(stream, q, cursor) :
                            Precedes(stream, cursor, i) /\ cursor \in Matching(stream, q)
  BY DEF Remaining
<1>3. Matching(stream, q) \subseteq Dated(stream)
  BY DEF Matching, Dated
<1>4. Matching(stream, q) \subseteq Positions
  BY <1>3, DatedTypes DEF Dated
<1> QED
  BY <1>1, <1>2, <1>3, <1>4

\* A last page has all that is left; another ends in a record that nothing of the
\* page follows and all that is left then does.
LEMMA PageSplits ==
    ASSUME NEW stream \in Stream, NEW q, NEW cursor
    PROVE  LET rest == Remaining(stream, q, cursor)
               page == Page(stream, q, cursor)
               last == NextCursor(stream, q, cursor)
           IN  /\ last = Null => page = rest
               /\ last # Null => /\ last \in page
                                 /\ \A i \in page : i = last \/ Precedes(stream, i, last)
                                 /\ \A i \in rest \ page : Precedes(stream, last, i)
<1> DEFINE rest == Remaining(stream, q, cursor)
           page == Page(stream, q, cursor)
           Before(i) == {j \in rest : Precedes(stream, j, i)}
<1>1. rest \subseteq Dated(stream) /\ IsFiniteSet(rest) /\ page \subseteq rest
      /\ rest \subseteq Positions
  <2>1. rest \subseteq Dated(stream) /\ page \subseteq rest /\ rest \subseteq Positions
    BY PageWithin
  <2> QED
    BY <2>1, DatedTypes, FS_Subset
<1>2. page = {i \in rest : Cardinality(Before(i)) < Limit}
  BY DEF Page
<1> HIDE DEF rest, page
<1>3. Limit \in Nat /\ Limit > 0
  BY PagesAssumption
<1>4. ASSUME NEW i \in rest
      PROVE  /\ IsFiniteSet(Before(i)) /\ Cardinality(Before(i)) \in Nat
             /\ Cardinality(Before(i)) < Cardinality(rest)
  <2>1. Before(i) \subseteq rest /\ i \notin Before(i)
    BY <1>1, PrecedesOrder
  <2>2. IsFiniteSet(Before(i)) /\ Cardinality(Before(i)) <= Cardinality(rest)
    BY <1>1, <2>1, FS_Subset
  <2>3. Cardinality(Before(i)) # Cardinality(rest)
    BY <1>1, <2>1, FS_Subset
  <2> QED
    BY <1>1, <2>2, <2>3, FS_CardinalityType
<1>5. CASE ~HasMore(stream, q, cursor)
  <2>1. Cardinality(rest) <= Limit
    BY <1>1, <1>3, <1>5, FS_CardinalityType DEF HasMore, rest
  <2>2. \A i \in rest : Cardinality(Before(i)) < Limit
    BY <1>1, <1>3, <1>4, <2>1, FS_CardinalityType
  <2>3. page = rest
    BY <1>2, <2>2
  <2>4. NextCursor(stream, q, cursor) = Null
    BY <1>5 DEF NextCursor
  <2> QED
    BY <2>3, <2>4 DEF page, rest
<1>6. CASE HasMore(stream, q, cursor)
  <2> DEFINE last == LastOf(stream, page)
  <2>1. rest # {}
    BY <1>3, <1>6, FS_EmptySet DEF HasMore, rest
  <2>2. page # {}
    <3>1. PICK i \in rest : \A j \in rest : ~Precedes(stream, j, i)
      BY <1>1, <2>1, FirstAndLast
    <3>2. Before(i) = {}
      BY <3>1
    <3> QED
      BY <1>2, <1>3, <3>2, FS_EmptySet
  <2>3. \E i \in page : \A j \in page : j = i \/ Precedes(stream, j, i)
    BY <1>1, <2>2, FirstAndLast
  <2>4. last \in page /\ \A j \in page : j = last \/ Precedes(stream, j, last)
    BY <2>3 DEF LastOf
  <2> HIDE DEF last
  <2>5. ASSUME NEW i \in rest \ page  PROVE  Precedes(stream, last, i)
    <3>1. i # last /\ i \in Dated(stream) /\ last \in Dated(stream) /\ last \in rest
      BY <1>1, <2>4, <2>5
    <3>2. CASE Precedes(stream, i, last)
      <4>1. Before(i) \subseteq Before(last)
        BY <1>1, <3>1, <3>2, PrecedesOrder
      <4>2. Cardinality(Before(i)) <= Cardinality(Before(last))
        BY <1>4, <3>1, <4>1, FS_Subset
      <4>3. Cardinality(Before(last)) < Limit
        BY <1>2, <2>4
      <4>4. Cardinality(Before(i)) \in Nat /\ Cardinality(Before(last)) \in Nat
        BY <1>4, <3>1
      <4>5. Cardinality(Before(i)) < Limit
        BY <1>3, <4>2, <4>3, <4>4
      <4> QED
        BY <1>2, <2>5, <4>5
    <3> QED
      BY <3>1, <3>2, PrecedesOrder
  <2>6. NextCursor(stream, q, cursor) = last
    BY <1>6 DEF NextCursor, last, page
  <2>7. last # Null
    BY <1>1, <2>4, PagesAssumption DEF Positions
  <2> QED
    BY <2>4, <2>5, <2>6, <2>7 DEF page, rest
<1> QED
  BY <1>5, <1>6

\* A record that arrives changes neither the order of those there are nor which of
\* them match.
LEMMA ArrivalKeeps ==
    ASSUME NEW stream \in Stream, NEW line, NEW i \in DOMAIN stream
    PROVE  LET longer == Append(stream, line)
           IN  /\ i \in DOMAIN longer /\ longer[i] = stream[i]
               /\ \A j \in DOMAIN stream : Precedes(longer, i, j) <=> Precedes(stream, i, j)
               /\ \A q : i \in Matching(longer, q) <=> i \in Matching(stream, q)
<1> DEFINE longer == Append(stream, line)
<1>1. DOMAIN stream = 1 .. Len(stream) /\ Len(stream) \in Nat /\ stream \in Seq(Line)
  BY DEF Stream
<1>2. DOMAIN longer = 1 .. Len(stream) + 1 /\ \A j \in DOMAIN stream : longer[j] = stream[j]
  BY <1>1
<1>3. i \in DOMAIN longer /\ longer[i] = stream[i]
  BY <1>1, <1>2
<1> HIDE DEF longer
<1>4. \A j \in DOMAIN stream : Precedes(longer, i, j) <=> Precedes(stream, i, j)
  BY <1>2 DEF Precedes
<1>5. \A q : i \in Matching(longer, q) <=> i \in Matching(stream, q)
  BY <1>3 DEF Matching, PostFilter
<1> QED
  BY <1>3, <1>4, <1>5 DEF longer

=============================================================================
