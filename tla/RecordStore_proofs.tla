-------------------------- MODULE RecordStore_proofs --------------------------
(***************************************************************************)
(* Proofs about RecordStore, for any number of lines, senders and exports, *)
(* any page size and any order of ids.                                     *)
(***************************************************************************)
EXTENDS RecordStore, RecordPages_proofs

(***************************************************************************)
(* The two writes of ingest().  What StreamsWithinList lacks to be         *)
(* inductive: a line listed and not yet added to its stream is in the list *)
(* once more than in the stream.  Counting the lines of a set, and not one *)
(* line, also bounds a stream's length by the list's.                      *)
(***************************************************************************)

Stored(seq, L) == {i \in DOMAIN seq : seq[i] \in L}

Awaiting(L) == {f \in Forwarders : conns[f].phase = "listed" /\ conns[f].line \in L}

OfKind(k) == {line \in Lines : line.kind = k}

Counted(k, L) ==
    /\ IsFiniteSet(Awaiting(L))
    /\ Cardinality(Stored(streams[k], L)) + Cardinality(Awaiting(L))
         <= Cardinality(Stored(list, L))

StoreInv ==
    /\ list \in Seq(Lines) /\ Len(list) <= MaxEntries
    /\ streams \in [QueryableKind -> Seq(Lines)]
    /\ conns \in [Forwarders -> Conn]
    /\ \A f \in Forwarders : conns[f].phase = "listed" =>
          conns[f].line \in Lines /\ conns[f].line.kind \in QueryableKind
    /\ \A k \in QueryableKind : \A i \in DOMAIN streams[k] : streams[k][i].kind = k
    /\ \A k \in QueryableKind : \A L \in SUBSET OfKind(k) : Counted(k, L)

LEMMA StoredFinite ==
    ASSUME NEW S, NEW seq \in Seq(S), NEW L
    PROVE  IsFiniteSet(Stored(seq, L)) /\ Cardinality(Stored(seq, L)) \in Nat
<1>1. DOMAIN seq = 1 .. Len(seq) /\ Len(seq) \in Nat
  OBVIOUS
<1>2. IsFiniteSet(DOMAIN seq)
  BY <1>1, FS_Interval
<1>3. Stored(seq, L) \in SUBSET DOMAIN seq
  BY DEF Stored
<1> QED
  BY <1>2, <1>3, FS_Subset, FS_CardinalityType

\* A line appended is counted once more, in the sets it is in.
LEMMA StoredAppend ==
    ASSUME NEW S, NEW seq \in Seq(S), NEW line \in S, NEW L
    PROVE  /\ line \in L => Cardinality(Stored(Append(seq, line), L))
                              = Cardinality(Stored(seq, L)) + 1
           /\ line \notin L => Stored(Append(seq, line), L) = Stored(seq, L)
<1> DEFINE longer == Append(seq, line)
<1>1. DOMAIN seq = 1 .. Len(seq) /\ Len(seq) \in Nat
  OBVIOUS
<1>2. /\ DOMAIN longer = 1 .. Len(seq) + 1
      /\ \A i \in 1 .. Len(seq) : longer[i] = seq[i]
      /\ longer[Len(seq) + 1] = line
  OBVIOUS
<1> HIDE DEF longer
<1>3. CASE line \in L
  <2>1. Stored(longer, L) = Stored(seq, L) \cup {Len(seq) + 1}
    BY <1>1, <1>2, <1>3 DEF Stored
  <2>2. Len(seq) + 1 \notin Stored(seq, L)
    BY <1>1 DEF Stored
  <2>3. Cardinality(Stored(longer, L)) = Cardinality(Stored(seq, L)) + 1
    BY <2>1, <2>2, StoredFinite, FS_AddElement
  <2> QED
    BY <1>3, <2>3 DEF longer
<1>4. CASE line \notin L
  <2>1. Stored(longer, L) = Stored(seq, L)
    BY <1>1, <1>2, <1>4 DEF Stored
  <2> QED
    BY <1>4, <2>1 DEF longer
<1> QED
  BY <1>3, <1>4

LEMMA StoreInit == Init => StoreInv
<1> SUFFICES ASSUME Init  PROVE  StoreInv
  OBVIOUS
<1>1. conns \in [Forwarders -> Conn] /\ \A f \in Forwarders : conns[f].phase = "closed"
  BY DEF Init, Closed, Conn
<1>2. \A k \in QueryableKind : \A L \in SUBSET OfKind(k) : Counted(k, L)
  <2> SUFFICES ASSUME NEW k \in QueryableKind, NEW L \in SUBSET OfKind(k)  PROVE  Counted(k, L)
    OBVIOUS
  <2>1. Awaiting(L) = {}
    BY <1>1 DEF Awaiting
  <2>2. Stored(<< >>, L) = {} /\ list = << >> /\ streams[k] = << >>
    BY DEF Stored, Init
  <2> QED
    BY <2>1, <2>2, FS_EmptySet DEF Counted
<1> QED
  BY <1>1, <1>2, PagesAssumption DEF Init, StoreInv

\* The connection of one sender moves on: who awaits changes by that sender at most.
LEMMA AwaitingChange ==
    ASSUME StoreInv, NEW f \in Forwarders, NEW c, conns' = [conns EXCEPT ![f] = c], NEW L,
           IsFiniteSet(Awaiting(L))
    PROVE  /\ IsFiniteSet(Awaiting(L)')
           /\ c.phase = "listed" /\ c.line \in L /\ conns[f].phase # "listed" =>
                Cardinality(Awaiting(L)') = Cardinality(Awaiting(L)) + 1
           /\ ~(c.phase = "listed" /\ c.line \in L) =>
                Cardinality(Awaiting(L)') <= Cardinality(Awaiting(L))
           /\ ~(c.phase = "listed" /\ c.line \in L) /\ f \in Awaiting(L) =>
                Cardinality(Awaiting(L)') = Cardinality(Awaiting(L)) - 1
           /\ Cardinality(Awaiting(L)) \in Nat /\ Cardinality(Awaiting(L)') \in Nat
<1>1. \A g \in Forwarders : conns'[g] = IF g = f THEN c ELSE conns[g]
  BY DEF StoreInv
<1>2. CASE c.phase = "listed" /\ c.line \in L
  <2>1. Awaiting(L)' = Awaiting(L) \cup {f}
    BY <1>1, <1>2 DEF Awaiting
  <2>2. conns[f].phase # "listed" => f \notin Awaiting(L)
    BY DEF Awaiting
  <2> QED
    BY <1>2, <2>1, <2>2, FS_AddElement, FS_CardinalityType
<1>3. CASE ~(c.phase = "listed" /\ c.line \in L)
  <2>1. Awaiting(L)' = Awaiting(L) \ {f}
    BY <1>1, <1>3 DEF Awaiting
  <2>2. /\ IsFiniteSet(Awaiting(L)')
        /\ Cardinality(Awaiting(L)') = IF f \in Awaiting(L) THEN Cardinality(Awaiting(L)) - 1
                                                            ELSE Cardinality(Awaiting(L))
    BY <2>1, FS_RemoveElement
  <2>3. Cardinality(Awaiting(L)) \in Nat /\ Cardinality(Awaiting(L)') \in Nat
    BY <2>2, FS_CardinalityType
  <2> QED
    BY <1>3, <2>2, <2>3
<1> QED
  BY <1>2, <1>3

\* A line pushed to the list is counted there, and its sender awaits from then on.
LEMMA PushStep ==
    ASSUME StoreInv, NEW f \in Forwarders, NEW line \in Lines, PushToList(f, line)
    PROVE  StoreInv'
<1> DEFINE c == IF line.kind \in QueryableKind THEN [phase |-> "listed", line |-> line] ELSE Open
<1>1. /\ conns[f].phase = "open" /\ Len(list) < MaxEntries
      /\ list' = Append(list, line) /\ streams' = streams
      /\ conns' = [conns EXCEPT ![f] = c]
      /\ list \in Seq(Lines)
  BY DEF PushToList, StoreInv
<1>2. c \in Conn
  BY DEF Conn, Open
<1>3. c.phase = "listed" => c.line = line /\ line.kind \in QueryableKind
  BY DEF Open
<1>a. line.kind \in QueryableKind => c.phase = "listed" /\ c.line = line
  OBVIOUS
<1> HIDE DEF c
<1>4. list' \in Seq(Lines) /\ Len(list') <= MaxEntries
  BY <1>1, PagesAssumption
<1>5. \A g \in Forwarders : conns'[g] = IF g = f THEN c ELSE conns[g]
  BY <1>1 DEF StoreInv
<1>6. conns' \in [Forwarders -> Conn]
  BY <1>1, <1>2 DEF StoreInv
<1>7. \A g \in Forwarders : conns'[g].phase = "listed" =>
          conns'[g].line \in Lines /\ conns'[g].line.kind \in QueryableKind
  BY <1>3, <1>5 DEF StoreInv
<1>8. ASSUME NEW k \in QueryableKind, NEW L \in SUBSET OfKind(k)  PROVE  Counted(k, L)'
  <2>1. Counted(k, L) /\ streams[k] \in Seq(Lines)
    BY DEF StoreInv
  <2>2. /\ Cardinality(Stored(streams[k], L)) \in Nat /\ Cardinality(Stored(list, L)) \in Nat
        /\ Cardinality(Stored(list', L)) \in Nat
    BY <1>1, <1>4, <2>1, StoredFinite
  <2>3. CASE line \in L
    <3>1. line.kind \in QueryableKind
      BY <2>3 DEF OfKind
    <3>2. Cardinality(Stored(list', L)) = Cardinality(Stored(list, L)) + 1
      BY <1>1, <2>3, StoredAppend
    <3>3. /\ IsFiniteSet(Awaiting(L)') /\ Cardinality(Awaiting(L)) \in Nat
          /\ Cardinality(Awaiting(L)') = Cardinality(Awaiting(L)) + 1
      BY <1>1, <1>a, <2>1, <2>3, <3>1, AwaitingChange DEF Counted
    <3> QED
      BY <1>1, <2>1, <2>2, <3>2, <3>3 DEF Counted
  <2>4. CASE line \notin L
    <3>1. Stored(list', L) = Stored(list, L)
      BY <1>1, <2>4, StoredAppend
    <3>2. /\ IsFiniteSet(Awaiting(L)')
          /\ Cardinality(Awaiting(L)) \in Nat /\ Cardinality(Awaiting(L)') \in Nat
          /\ Cardinality(Awaiting(L)') <= Cardinality(Awaiting(L))
      BY <1>1, <1>3, <2>1, <2>4, AwaitingChange DEF Counted
    <3> QED
      BY <1>1, <2>1, <2>2, <3>1, <3>2 DEF Counted
  <2> QED
    BY <2>3, <2>4
<1>9. \A k \in QueryableKind : \A i \in DOMAIN streams'[k] : streams'[k][i].kind = k
  BY <1>1 DEF StoreInv
<1> QED
  BY <1>1, <1>4, <1>6, <1>7, <1>8, <1>9 DEF StoreInv

\* A line added to its stream was awaited, and is so no more.
LEMMA AddStep ==
    ASSUME StoreInv, NEW f \in Forwarders, AddToStream(f)
    PROVE  /\ StoreInv'
           /\ conns[f].line \in Lines /\ conns[f].line.kind \in QueryableKind
           /\ \A k \in QueryableKind : streams'[k] =
                 IF k = conns[f].line.kind THEN Append(streams[k], conns[f].line) ELSE streams[k]
<1> DEFINE line == conns[f].line
<1>1. /\ conns[f].phase = "listed" /\ line \in Lines /\ line.kind \in QueryableKind
      /\ list' = list /\ conns' = [conns EXCEPT ![f] = Open]
      /\ streams' = [streams EXCEPT ![line.kind] = Append(@, line)]
      /\ list \in Seq(Lines)
  BY DEF AddToStream, StoreInv
<1> HIDE DEF line
<1>2. \A k \in QueryableKind : streams'[k] =
          IF k = line.kind THEN Append(streams[k], line) ELSE streams[k]
  BY <1>1 DEF StoreInv
<1>3. streams' \in [QueryableKind -> Seq(Lines)]
  BY <1>1 DEF StoreInv
<1>4. Open \in Conn /\ Open.phase = "open"
  BY DEF Open, Conn
<1>5. \A g \in Forwarders : conns'[g] = IF g = f THEN Open ELSE conns[g]
  BY <1>1 DEF StoreInv
<1>6. conns' \in [Forwarders -> Conn]
  BY <1>1, <1>4 DEF StoreInv
<1>7. \A g \in Forwarders : conns'[g].phase = "listed" =>
          conns'[g].line \in Lines /\ conns'[g].line.kind \in QueryableKind
  BY <1>4, <1>5 DEF StoreInv
<1>8. ASSUME NEW k \in QueryableKind, NEW i \in DOMAIN streams'[k]
      PROVE  streams'[k][i].kind = k
  <2>1. streams[k] \in Seq(Lines) /\ \A j \in DOMAIN streams[k] : streams[k][j].kind = k
    BY DEF StoreInv
  <2>2. CASE k = line.kind
    <3> DEFINE longer == Append(streams[k], line)
    <3>1. \A j \in DOMAIN longer :
              longer[j] = line \/ (j \in DOMAIN streams[k] /\ longer[j] = streams[k][j])
      BY <2>1
    <3>2. streams'[k] = longer
      BY <1>2, <2>2
    <3> HIDE DEF longer
    <3> QED
      BY <2>1, <2>2, <3>1, <3>2
  <2>3. CASE k # line.kind
    BY <1>2, <2>1, <2>3
  <2> QED
    BY <2>2, <2>3
<1>9. ASSUME NEW k \in QueryableKind, NEW L \in SUBSET OfKind(k)  PROVE  Counted(k, L)'
  <2>1. Counted(k, L) /\ streams[k] \in Seq(Lines) /\ streams'[k] \in Seq(Lines)
    BY <1>3 DEF StoreInv
  <2>2. /\ Cardinality(Stored(streams[k], L)) \in Nat /\ Cardinality(Stored(list, L)) \in Nat
        /\ Cardinality(Stored(streams'[k], L)) \in Nat
    BY <1>1, <2>1, StoredFinite
  <2>3. /\ IsFiniteSet(Awaiting(L)')
        /\ Cardinality(Awaiting(L)') <= Cardinality(Awaiting(L))
        /\ f \in Awaiting(L) => Cardinality(Awaiting(L)') = Cardinality(Awaiting(L)) - 1
        /\ Cardinality(Awaiting(L)) \in Nat /\ Cardinality(Awaiting(L)') \in Nat
    BY <1>1, <1>4, <2>1, AwaitingChange DEF Counted
  <2>4. CASE line \in L
    <3>1. f \in Awaiting(L) /\ k = line.kind
      BY <1>1, <2>4 DEF Awaiting, OfKind, line
    <3>2. Cardinality(Stored(streams'[k], L)) = Cardinality(Stored(streams[k], L)) + 1
      BY <1>1, <1>2, <2>1, <2>4, <3>1, StoredAppend
    <3> QED
      BY <1>1, <2>1, <2>2, <2>3, <3>1, <3>2 DEF Counted
  <2>5. CASE line \notin L
    <3>1. Stored(streams'[k], L) = Stored(streams[k], L)
      BY <1>1, <1>2, <2>1, <2>5, StoredAppend
    <3> QED
      BY <1>1, <2>1, <2>2, <2>3, <3>1 DEF Counted
  <2> QED
    BY <2>4, <2>5
<1>10. StoreInv'
  BY <1>1, <1>3, <1>6, <1>7, <1>8, <1>9 DEF StoreInv
<1> QED
  BY <1>1, <1>2, <1>10 DEF line

\* A connection that opens or closes leaves the Redis as it is.
LEMMA ConnStep ==
    ASSUME StoreInv, NEW f \in Forwarders, Connect(f) \/ CloseConnection(f)
    PROVE  StoreInv'
<1>1. PICK c \in {Open, Closed} : conns' = [conns EXCEPT ![f] = c] /\ UNCHANGED <<list, streams>>
  BY DEF Connect, CloseConnection
<1>2. c \in Conn /\ c.phase # "listed"
  BY DEF Conn, Open, Closed
<1>3. \A g \in Forwarders : conns'[g] = IF g = f THEN c ELSE conns[g]
  BY <1>1 DEF StoreInv
<1>4. conns' \in [Forwarders -> Conn]
  BY <1>1, <1>2 DEF StoreInv
<1>5. \A g \in Forwarders : conns'[g].phase = "listed" =>
          conns'[g].line \in Lines /\ conns'[g].line.kind \in QueryableKind
  BY <1>2, <1>3 DEF StoreInv
<1>6. ASSUME NEW k \in QueryableKind, NEW L \in SUBSET OfKind(k)  PROVE  Counted(k, L)'
  <2>1. Counted(k, L) /\ streams[k] \in Seq(Lines) /\ list \in Seq(Lines)
    BY DEF StoreInv
  <2>2. Cardinality(Stored(streams[k], L)) \in Nat /\ Cardinality(Stored(list, L)) \in Nat
    BY <2>1, StoredFinite
  <2>3. /\ IsFiniteSet(Awaiting(L)')
        /\ Cardinality(Awaiting(L)') <= Cardinality(Awaiting(L))
        /\ Cardinality(Awaiting(L)) \in Nat /\ Cardinality(Awaiting(L)') \in Nat
    BY <1>1, <1>2, <2>1, AwaitingChange DEF Counted
  <2> QED
    BY <1>1, <2>1, <2>2, <2>3 DEF Counted
<1>7. \A k \in QueryableKind : \A i \in DOMAIN streams'[k] : streams'[k][i].kind = k
  BY <1>1 DEF StoreInv
<1> QED
  BY <1>1, <1>4, <1>5, <1>6, <1>7 DEF StoreInv

\* A crash closes every connection, whatever its line had got to.
LEMMA CrashStep == ASSUME StoreInv, Crash PROVE StoreInv'
<1>1. /\ UNCHANGED <<list, streams>>
      /\ \A g \in Forwarders : conns'[g] = Closed
      /\ Closed \in Conn /\ Closed.phase = "closed" /\ conns' \in [Forwarders -> Conn]
  BY DEF Crash, Closed, Conn
<1>2. ASSUME NEW k \in QueryableKind, NEW L \in SUBSET OfKind(k)  PROVE  Counted(k, L)'
  <2>1. Counted(k, L) /\ streams[k] \in Seq(Lines) /\ list \in Seq(Lines)
    BY DEF StoreInv
  <2>2. Cardinality(Stored(streams[k], L)) \in Nat /\ Cardinality(Stored(list, L)) \in Nat
    BY <2>1, StoredFinite
  <2>3. Awaiting(L)' = {}
    BY <1>1 DEF Awaiting
  <2>4. Cardinality(Awaiting(L)) \in Nat
    BY <2>1, FS_CardinalityType DEF Counted
  <2> QED
    BY <1>1, <2>1, <2>2, <2>3, <2>4, FS_EmptySet DEF Counted
<1>3. \A k \in QueryableKind : \A i \in DOMAIN streams'[k] : streams'[k][i].kind = k
  BY <1>1 DEF StoreInv
<1>4. \A g \in Forwarders : conns'[g].phase # "listed"
  BY <1>1
<1> QED
  BY <1>1, <1>2, <1>3, <1>4 DEF StoreInv

LEMMA StoreStep == StoreInv /\ [Next]_vars => StoreInv'
<1> SUFFICES ASSUME StoreInv, [Next]_vars  PROVE  StoreInv'
  OBVIOUS
<1>1. ASSUME UNCHANGED <<list, streams, conns>>  PROVE  StoreInv'
  BY <1>1 DEF StoreInv, Counted, Awaiting
<1>2. ASSUME NEW f \in Forwarders, Connect(f) \/ (\E line \in Lines : PushToList(f, line))
                                     \/ AddToStream(f) \/ CloseConnection(f)
      PROVE  StoreInv'
  BY <1>2, PushStep, AddStep, ConnStep
<1>3. ASSUME NEW e \in Exports, (\E q \in Queries : BeginExport(e, q)) \/ ReadPage(e) \/ FailExport(e)
      PROVE  StoreInv'
  BY <1>1, <1>3 DEF BeginExport, ReadPage, FailExport
<1>4. CASE Crash
  BY <1>4, CrashStep
<1>5. CASE UNCHANGED vars
  BY <1>1, <1>5 DEF vars
<1> QED
  BY <1>2, <1>3, <1>4, <1>5 DEF Next

LEMMA StoreInvariance == Spec => []StoreInv
BY StoreInit, StoreStep, PTL DEF Spec

\* Whatever fails or dies between the two writes of ingest(), no stream has a record
\* more often than the list.
THEOREM NothingBesideTheList == Spec => []StreamsWithinList
<1>1. StoreInv => StreamsWithinList
  <2> SUFFICES ASSUME StoreInv, NEW k \in QueryableKind, NEW line \in Lines
               PROVE  Copies(streams[k], line) <= Copies(list, line)
    BY DEF StreamsWithinList
  <2>1. streams[k] \in Seq(Lines) /\ list \in Seq(Lines)
    BY DEF StoreInv
  <2>2. Copies(streams[k], line) = Cardinality(Stored(streams[k], {line}))
        /\ Copies(list, line) = Cardinality(Stored(list, {line}))
    <3>1. \A seq : {i \in DOMAIN seq : seq[i] = line} = Stored(seq, {line})
      BY DEF Stored
    <3> QED
      BY <3>1 DEF Copies
  <2>3. CASE line.kind = k
    <3>1. {line} \in SUBSET OfKind(k)
      BY <2>3 DEF OfKind
    <3>2. Counted(k, {line})
      BY <3>1 DEF StoreInv
    <3>3. /\ Cardinality(Stored(streams[k], {line})) \in Nat
          /\ Cardinality(Stored(list, {line})) \in Nat
          /\ Cardinality(Awaiting({line})) \in Nat
      BY <2>1, <3>2, StoredFinite, FS_CardinalityType DEF Counted
    <3> QED
      BY <2>2, <3>2, <3>3 DEF Counted
  <2>4. CASE line.kind # k
    <3>1. Stored(streams[k], {line}) = {}
      BY <2>4 DEF StoreInv, Stored
    <3>2. Cardinality(Stored(streams[k], {line})) = 0 /\ Cardinality(Stored(list, {line})) \in Nat
      BY <2>1, <3>1, StoredFinite, FS_EmptySet
    <3> QED
      BY <2>2, <3>2
  <2> QED
    BY <2>3, <2>4
<1> QED
  BY <1>1, StoreInvariance, PTL

\* A stream is no longer than the list: every read meets a stream of bounded length.
LEMMA StreamLength ==
    ASSUME StoreInv, NEW k \in QueryableKind
    PROVE  streams[k] \in Stream
<1> DEFINE L == OfKind(k)
<1>1. streams[k] \in Seq(Lines) /\ list \in Seq(Lines) /\ Len(list) <= MaxEntries
  BY DEF StoreInv
<1>2. Counted(k, L)
  BY DEF StoreInv
<1>3. Stored(streams[k], L) = 1 .. Len(streams[k])
  <2>1. \A i \in DOMAIN streams[k] : streams[k][i] \in L
    BY <1>1 DEF StoreInv, OfKind
  <2>2. DOMAIN streams[k] = 1 .. Len(streams[k])
    BY <1>1
  <2> QED
    BY <2>1, <2>2 DEF Stored
<1>4. Len(streams[k]) \in Nat /\ Len(list) \in Nat
  BY <1>1
<1>5. Cardinality(Stored(streams[k], L)) = Len(streams[k])
  BY <1>3, <1>4, FS_Interval
<1>6. Cardinality(Stored(list, L)) <= Len(list)
  <2>0. \A n \in Nat : IsFiniteSet(1 .. n) /\ Cardinality(1 .. n) = n
    BY FS_Interval
  <2>1. IsFiniteSet(1 .. Len(list))
    BY <1>4, <2>0
  <2>2. Cardinality(1 .. Len(list)) = Len(list)
    BY <1>4, <2>0
  <2>3. Stored(list, L) \in SUBSET (1 .. Len(list))
    BY <1>1 DEF Stored
  <2> QED
    BY <2>1, <2>2, <2>3, FS_Subset
<1>7. Cardinality(Awaiting(L)) \in Nat /\ Cardinality(Stored(list, L)) \in Nat
  BY <1>1, <1>2, StoredFinite, FS_CardinalityType DEF Counted
<1>8. Len(streams[k]) <= MaxEntries
  BY <1>1, <1>2, <1>4, <1>5, <1>6, <1>7, PagesAssumption DEF Counted
<1>9. streams[k] \in Seq(Line)
  BY <1>1, StoreAssumption
<1> QED
  BY <1>8, <1>9 DEF Stream

-----------------------------------------------------------------------------
(***************************************************************************)
(* Exports.  The invariant says where an export is in its listing: what it *)
(* has served is before its cursor, and what it still owes, of the records *)
(* there were when it was asked for, is after it.                          *)
(***************************************************************************)

Served(x) == UNION {x.pages[n] : n \in DOMAIN x.pages}

Ascending(x, stream) ==
    \A m, n \in DOMAIN x.pages :
        m < n => \A i \in x.pages[m], j \in x.pages[n] : Precedes(stream, i, j)

AtCursor(x, stream) ==
    /\ x.cursor = Null => x.pages = << >>
    /\ x.cursor # Null =>
         /\ x.cursor \in Matching(stream, x.query)
         /\ \A n \in DOMAIN x.pages : \A i \in x.pages[n] :
               i = x.cursor \/ Precedes(stream, i, x.cursor)

ExportOK(x, stream) ==
    /\ \A n \in DOMAIN x.pages : x.pages[n] \subseteq Matching(stream, x.query)
    /\ x.base \subseteq Matching(stream, x.query)
    /\ Ascending(x, stream)
    /\ x.status = "paging" =>
         /\ AtCursor(x, stream)
         /\ x.base \subseteq Served(x) \cup Remaining(stream, x.query, x.cursor)
    /\ x.status = "done" => x.base \subseteq Served(x)

ExportsInv ==
    /\ exports \in [Exports -> Export]
    /\ \A e \in Exports :
          \/ exports[e] = NoExport
          \/ /\ exports[e].status # "idle" /\ exports[e].query \in Queries
             /\ ExportOK(exports[e], streams[exports[e].query.kind])

\* A record that arrives between two pages changes nothing of that.
LEMMA ArrivalKeepsExport ==
    ASSUME NEW stream \in Stream, NEW line, NEW x, ExportOK(x, stream)
    PROVE  ExportOK(x, Append(stream, line))
<1> DEFINE longer == Append(stream, line)
           M == Matching(stream, x.query)
<1>1. M \subseteq DOMAIN stream
  BY DEF Matching
<1>2. /\ M \subseteq Matching(longer, x.query)
      /\ \A i, j \in M : Precedes(longer, i, j) <=> Precedes(stream, i, j)
  BY <1>1, ArrivalKeeps
<1> HIDE DEF longer, M
<1>3. /\ \A n \in DOMAIN x.pages : x.pages[n] \subseteq M
      /\ x.base \subseteq M
  BY DEF ExportOK, M
<1>4. Ascending(x, longer)
  BY <1>2, <1>3 DEF ExportOK, Ascending
<1>5. ASSUME x.status = "paging"
      PROVE  /\ AtCursor(x, longer)
             /\ x.base \subseteq Served(x) \cup Remaining(longer, x.query, x.cursor)
  <2>1. AtCursor(x, stream) /\ x.base \subseteq Served(x) \cup Remaining(stream, x.query, x.cursor)
    BY <1>5 DEF ExportOK
  <2>2. x.cursor # Null => x.cursor \in M
    BY <2>1 DEF AtCursor, M
  <2>3. AtCursor(x, longer)
    BY <1>2, <1>3, <2>1, <2>2 DEF AtCursor
  <2>4. Remaining(stream, x.query, x.cursor) \subseteq Remaining(longer, x.query, x.cursor)
    BY <1>2, <2>2 DEF Remaining, M
  <2> QED
    BY <2>1, <2>3, <2>4
<1>6. /\ \A n \in DOMAIN x.pages : x.pages[n] \subseteq Matching(longer, x.query)
      /\ x.base \subseteq Matching(longer, x.query)
  BY <1>2, <1>3
<1>7. x.status = "done" => x.base \subseteq Served(x)
  BY DEF ExportOK
<1>8. ExportOK(x, longer)
  BY <1>4, <1>5, <1>6, <1>7 DEF ExportOK
<1> QED
  BY <1>8 DEF longer

\* The next page is after all that was served, and leaves after its own last record
\* what is still owed.
LEMMA PageKeepsExport ==
    ASSUME NEW stream \in Stream, NEW x \in Export, x.status = "paging", ExportOK(x, stream),
           NEW y,
           LET next == NextCursor(stream, x.query, x.cursor)
           IN  y = [x EXCEPT !.pages = Append(@, Page(stream, x.query, x.cursor)),
                             !.cursor = next,
                             !.status = IF next = Null THEN "done" ELSE "paging"]
    PROVE  y \in Export /\ ExportOK(y, stream)
<1> DEFINE q == x.query
           rest == Remaining(stream, q, x.cursor)
           page == Page(stream, q, x.cursor)
           last == NextCursor(stream, q, x.cursor)
           M == Matching(stream, q)
<1>1. /\ page \subseteq rest /\ rest \subseteq M
      /\ M \subseteq Dated(stream) /\ M \subseteq Positions
      /\ x.cursor # Null => \A i \in rest : Precedes(stream, x.cursor, i)
  BY PageWithin
<1>2. /\ last = Null => page = rest
      /\ last # Null => /\ last \in page
                        /\ \A i \in page : i = last \/ Precedes(stream, i, last)
                        /\ \A i \in rest \ page : Precedes(stream, last, i)
  BY PageSplits
<1>3. /\ y.pages = Append(x.pages, page) /\ y.cursor = last /\ y.query = q /\ y.base = x.base
      /\ y.status = IF last = Null THEN "done" ELSE "paging"
      /\ y = [x EXCEPT !.pages = Append(x.pages, page), !.cursor = last,
                       !.status = IF last = Null THEN "done" ELSE "paging"]
  BY DEF Export
<1>4. x.pages \in Seq(SUBSET Positions)
  BY DEF Export
<1> HIDE DEF rest, page, last, M
<1>5. page \in SUBSET Positions /\ last \in Positions \cup {Null}
  BY <1>1, <1>2
<1>6. y \in Export
  <2>1. Append(x.pages, page) \in Seq(SUBSET Positions)
    BY <1>4, <1>5
  <2> QED
    BY <1>3, <1>5, <2>1 DEF Export
<1>7. /\ DOMAIN x.pages = 1 .. Len(x.pages) /\ Len(x.pages) \in Nat
      /\ DOMAIN y.pages = 1 .. Len(x.pages) + 1
      /\ \A n \in 1 .. Len(x.pages) : y.pages[n] = x.pages[n]
      /\ y.pages[Len(x.pages) + 1] = page
  <2>1. ASSUME NEW pages \in Seq(SUBSET Positions), NEW p \in SUBSET Positions
        PROVE  /\ DOMAIN pages = 1 .. Len(pages) /\ Len(pages) \in Nat
               /\ DOMAIN Append(pages, p) = 1 .. Len(pages) + 1
               /\ \A n \in 1 .. Len(pages) : Append(pages, p)[n] = pages[n]
               /\ Append(pages, p)[Len(pages) + 1] = p
    OBVIOUS
  <2> QED
    BY <1>3, <1>4, <1>5, <2>1
<1> DEFINE new == Len(x.pages) + 1
<1>8. \A n \in DOMAIN y.pages :
          \/ n = new /\ y.pages[n] = page
          \/ n < new /\ n \in DOMAIN x.pages /\ y.pages[n] = x.pages[n]
  <2>1. \A k \in Nat : \A n \in 1 .. k + 1 : n = k + 1 \/ (n < k + 1 /\ n \in 1 .. k)
    OBVIOUS
  <2>2. \A n \in 1 .. new : n = new \/ (n < new /\ n \in 1 .. Len(x.pages))
    BY <1>7, <2>1
  <2>3. DOMAIN y.pages = 1 .. new /\ y.pages[new] = page
    BY <1>7
  <2>4. \A n \in 1 .. Len(x.pages) : n \in DOMAIN x.pages /\ y.pages[n] = x.pages[n]
    BY <1>7
  <2> HIDE DEF new
  <2> QED
    BY <2>2, <2>3, <2>4
<1>9. new \in Nat /\ DOMAIN x.pages \subseteq DOMAIN y.pages /\ new \in DOMAIN y.pages
  BY <1>7
<1> HIDE DEF new
<1>10. /\ \A n \in DOMAIN x.pages : x.pages[n] \subseteq M
       /\ x.base \subseteq M /\ Ascending(x, stream) /\ AtCursor(x, stream)
       /\ x.base \subseteq Served(x) \cup rest
  BY DEF ExportOK, M, rest
\* What was served before is before the new page.
<1>11. ASSUME NEW n \in DOMAIN x.pages, NEW i \in x.pages[n], NEW j \in page
       PROVE  Precedes(stream, i, j)
  <2>1. x.cursor # Null /\ x.cursor \in M /\ (i = x.cursor \/ Precedes(stream, i, x.cursor))
    BY <1>7, <1>10, <1>11 DEF AtCursor, M
  <2>2. Precedes(stream, x.cursor, j) /\ i \in M /\ j \in M
    BY <1>1, <1>10, <2>1
  <2> QED
    BY <1>1, <2>1, <2>2, PrecedesOrder
<1>12. \A n \in DOMAIN y.pages : y.pages[n] \subseteq M
  BY <1>1, <1>8, <1>10
<1>13. Ascending(y, stream)
  <2> SUFFICES ASSUME NEW m \in DOMAIN y.pages, NEW n \in DOMAIN y.pages, m < n,
                      NEW i \in y.pages[m], NEW j \in y.pages[n]
               PROVE  Precedes(stream, i, j)
    BY DEF Ascending
  <2>1. m \in Nat /\ n \in Nat /\ n <= new
    BY <1>7, <1>8, <1>9 DEF new
  <2>2. m # new /\ m \in DOMAIN x.pages /\ y.pages[m] = x.pages[m]
    BY <1>8, <1>9, <2>1
  <2>3. CASE n = new
    BY <1>8, <1>11, <2>2, <2>3, <1>7 DEF new
  <2>4. CASE n # new
    BY <1>8, <1>10, <2>2, <2>4 DEF Ascending
  <2> QED
    BY <2>3, <2>4
<1>14. Served(y) = Served(x) \cup page
  <2>1. Served(y) \subseteq Served(x) \cup page
    BY <1>8 DEF Served
  <2>2. Served(x) \subseteq Served(y)
    BY <1>7, <1>9 DEF Served
  <2>3. page \subseteq Served(y)
    BY <1>7, <1>9 DEF Served, new
  <2> QED
    BY <2>1, <2>2, <2>3
<1>15. CASE last = Null
  <2>1. y.status = "done" /\ x.base \subseteq Served(y)
    BY <1>2, <1>3, <1>10, <1>14, <1>15
  <2> QED
    BY <1>3, <1>6, <1>10, <1>12, <1>13, <2>1 DEF ExportOK, M
<1>16. CASE last # Null
  <2>1. y.status = "paging" /\ last \in page /\ last \in M
    BY <1>1, <1>2, <1>3, <1>16
  <2>2. AtCursor(y, stream)
    <3>1. ASSUME NEW n \in DOMAIN y.pages, NEW i \in y.pages[n]
          PROVE  i = last \/ Precedes(stream, i, last)
      BY <1>2, <1>8, <1>11, <1>16, <2>1, <3>1
    <3> QED
      BY <1>3, <1>16, <2>1, <3>1 DEF AtCursor, M
  <2>3. x.base \subseteq Served(y) \cup Remaining(stream, q, last)
    <3>1. ASSUME NEW i \in rest \ page  PROVE  i \in Remaining(stream, q, last)
      BY <1>1, <1>2, <1>16, <2>1 DEF Remaining, M
    <3> QED
      BY <1>10, <1>14, <3>1
  <2> QED
    BY <1>3, <1>6, <1>10, <1>12, <1>13, <2>1, <2>2, <2>3 DEF ExportOK, M
<1> QED
  BY <1>15, <1>16

LEMMA ExportsInit == Init => ExportsInv
<1>1. NoExport \in Export
  BY DEF NoExport, Export
<1> QED
  BY <1>1 DEF Init, ExportsInv

\* The steps of exports themselves.
LEMMA ExportStep ==
    ASSUME StoreInv, ExportsInv, NEW e \in Exports,
           (\E q \in Queries : BeginExport(e, q)) \/ ReadPage(e) \/ FailExport(e)
    PROVE  ExportsInv'
<1> DEFINE x == exports[e]
           y == exports'[e]
<1>0. x \in Export /\ streams' = streams
  BY DEF ExportsInv, BeginExport, ReadPage, FailExport
\* It suffices that the export that steps is where it should be.
<1>a. ASSUME NEW z \in Export, exports' = [exports EXCEPT ![e] = z],
             z.status # "idle", z.query \in Queries, ExportOK(z, streams[z.query.kind])
      PROVE  ExportsInv'
  <2>1. \A d \in Exports : exports'[d] = IF d = e THEN z ELSE exports[d]
    BY <1>a DEF ExportsInv
  <2>2. exports' \in [Exports -> Export]
    BY <1>a DEF ExportsInv
  <2> QED
    BY <1>0, <1>a, <2>1, <2>2 DEF ExportsInv
<1>1. ASSUME NEW q \in Queries, BeginExport(e, q)  PROVE  ExportsInv'
  <2> DEFINE M == Matching(streams[q.kind], q)
             z == [NoExport EXCEPT !.status = "paging", !.query = q, !.base = M]
  <2>1. q.kind \in QueryableKind
    BY StoreAssumption DEF Query
  <2>2. M \subseteq Positions
    BY <2>1, StreamLength, PageWithin
  <2>3. /\ z.status = "paging" /\ z.query = q /\ z.cursor = Null /\ z.pages = << >>
        /\ z.base = M
    BY DEF NoExport
  <2>4. z \in Export
    <3>1. NoExport \in Export
      BY DEF NoExport, Export
    <3> HIDE DEF M
    <3> QED
      BY <2>2, <3>1 DEF Export
  <2>5. exports' = [exports EXCEPT ![e] = z]
    BY <1>1 DEF BeginExport
  <2>6. Remaining(streams[q.kind], q, Null) = M
    BY DEF Remaining
  <2> HIDE DEF z, M
  <2>7. ExportOK(z, streams[q.kind])
    BY <2>3, <2>6 DEF ExportOK, Ascending, AtCursor, M
  <2> QED
    BY <1>a, <2>3, <2>4, <2>5, <2>7
<1>2. ASSUME x \in Export, x.status = "paging"
      PROVE  x.query \in Queries /\ x.query.kind \in QueryableKind
             /\ ExportOK(x, streams[x.query.kind])
  <2>1. x # NoExport
    BY <1>2 DEF NoExport
  <2> QED
    BY <2>1, StoreAssumption DEF ExportsInv, Query
<1>3. CASE ReadPage(e)
  <2> DEFINE stream == streams[x.query.kind]
             next == NextCursor(stream, x.query, x.cursor)
             z == [x EXCEPT !.pages = Append(@, Page(stream, x.query, x.cursor)),
                            !.cursor = next,
                            !.status = IF next = Null THEN "done" ELSE "paging"]
  <2>1. exports' = [exports EXCEPT ![e] = z] /\ x.status = "paging"
    BY <1>3 DEF ReadPage, ExportsInv
  <2>2. stream \in Stream
    BY <1>0, <1>2, <2>1, StreamLength
  <2>3. z \in Export /\ ExportOK(z, stream)
    BY <1>0, <1>2, <2>1, <2>2, PageKeepsExport
  <2>4. z.status # "idle" /\ z.query = x.query
    BY <1>0 DEF Export
  <2> HIDE DEF z
  <2> QED
    BY <1>0, <1>2, <1>a, <2>1, <2>3, <2>4
<1>4. CASE FailExport(e)
  <2> DEFINE z == [x EXCEPT !.status = "failed"]
  <2>1. exports' = [exports EXCEPT ![e] = z] /\ x.status = "paging"
    BY <1>4 DEF FailExport, ExportsInv
  <2>2. /\ z.status = "failed" /\ z.query = x.query /\ z.pages = x.pages /\ z.base = x.base
        /\ z \in Export
    BY <1>0 DEF Export
  <2> HIDE DEF z
  <2>3. ExportOK(z, streams[z.query.kind])
    BY <1>0, <1>2, <2>1, <2>2 DEF ExportOK, Ascending
  <2> QED
    BY <1>0, <1>2, <1>a, <2>1, <2>2, <2>3
<1> QED
  BY <1>1, <1>3, <1>4

LEMMA ExportsStep == StoreInv /\ ExportsInv /\ [Next]_vars => ExportsInv'
<1> SUFFICES ASSUME StoreInv, ExportsInv, [Next]_vars  PROVE  ExportsInv'
  OBVIOUS
<1>1. ASSUME UNCHANGED <<streams, exports>>  PROVE  ExportsInv'
  BY <1>1 DEF ExportsInv
<1>2. ASSUME NEW f \in Forwarders, Connect(f) \/ (\E line \in Lines : PushToList(f, line))
                                     \/ CloseConnection(f)
      PROVE  ExportsInv'
  BY <1>1, <1>2 DEF Connect, PushToList, CloseConnection
<1>3. ASSUME NEW f \in Forwarders, AddToStream(f)  PROVE  ExportsInv'
  <2>1. \A k \in QueryableKind : \/ streams'[k] = streams[k]
                                 \/ \E line : streams'[k] = Append(streams[k], line)
    BY <1>3, AddStep
  <2>2. exports' = exports
    BY <1>3 DEF AddToStream
  <2>3. ASSUME NEW e \in Exports, exports[e].query \in Queries,
               ExportOK(exports[e], streams[exports[e].query.kind])
        PROVE  ExportOK(exports[e], streams'[exports[e].query.kind])
    <3>1. exports[e].query.kind \in QueryableKind
      BY <2>3, StoreAssumption DEF Query
    <3> QED
      BY <2>1, <2>3, <3>1, StreamLength, ArrivalKeepsExport
  <2> QED
    BY <2>2, <2>3 DEF ExportsInv
<1>4. ASSUME NEW e \in Exports, (\E q \in Queries : BeginExport(e, q)) \/ ReadPage(e) \/ FailExport(e)
      PROVE  ExportsInv'
  BY <1>4, ExportStep
<1>5. CASE Crash
  <2>1. /\ streams' = streams
        /\ \A e \in Exports : exports'[e] = IF exports[e].status = "paging"
                                            THEN [exports[e] EXCEPT !.status = "failed"]
                                            ELSE exports[e]
    BY <1>5 DEF Crash
  <2>2. ASSUME NEW x \in Export, x.status = "paging", x.query \in Queries,
               ExportOK(x, streams[x.query.kind]), NEW z, z = [x EXCEPT !.status = "failed"]
        PROVE  /\ z \in Export /\ z.status # "idle" /\ z.query \in Queries
               /\ ExportOK(z, streams[z.query.kind])
    <3>1. /\ z.status = "failed" /\ z.query = x.query /\ z.pages = x.pages /\ z.base = x.base
          /\ z \in Export
      BY <2>2 DEF Export
    <3> QED
      BY <2>2, <3>1 DEF ExportOK, Ascending
  <2>3. ASSUME NEW e \in Exports
        PROVE  /\ exports'[e] \in Export
               /\ \/ exports'[e] = NoExport
                  \/ /\ exports'[e].status # "idle" /\ exports'[e].query \in Queries
                     /\ ExportOK(exports'[e], streams[exports'[e].query.kind])
    <3>1. CASE exports[e].status = "paging"
      <4>1. exports[e] # NoExport /\ exports[e] \in Export
        BY <3>1 DEF NoExport, ExportsInv
      <4>2. exports[e].query \in Queries /\ ExportOK(exports[e], streams[exports[e].query.kind])
        BY <4>1 DEF ExportsInv
      <4> QED
        BY <2>1, <2>2, <3>1, <4>1, <4>2
    <3>2. CASE exports[e].status # "paging"
      BY <2>1, <3>2 DEF ExportsInv
    <3> QED
      BY <3>1, <3>2
  <2>4. exports' \in [Exports -> Export]
    <3>1. exports' = [e \in Exports |-> exports'[e]]
      BY <1>5 DEF Crash
    <3> QED
      BY <2>3, <3>1
  <2> QED
    BY <2>1, <2>3, <2>4 DEF ExportsInv
<1>6. CASE UNCHANGED vars
  BY <1>1, <1>6 DEF vars
<1> QED
  BY <1>2, <1>3, <1>4, <1>5, <1>6 DEF Next

LEMMA ExportsInvariance == Spec => []ExportsInv
BY StoreInit, StoreStep, ExportsInit, ExportsStep, PTL DEF Spec

\* The variables of the record store have their types in every state; that what an
\* export counted as matching are positions needs the bound of a stream's length.
THEOREM TypeCorrect == Spec => []TypeOK
<1>1. StoreInv /\ ExportsInv => TypeOK
  BY DEF StoreInv, ExportsInv, TypeOK
<1> QED
  BY <1>1, StoreInvariance, ExportsInvariance, PTL

\* The pages of one export follow one another in time and none repeats a record,
\* whatever was ingested before, between or after them (_fetch_kind, _fetch_all).
THEOREM PagesFollowOneAnother == Spec => []PagesAscend
<1>1. ExportsInv => PagesAscend
  <2> SUFFICES ASSUME ExportsInv, NEW e \in Exports
               PROVE  Ascending(exports[e], streams[exports[e].query.kind])
    BY DEF PagesAscend, Ascending
  <2>1. CASE exports[e] = NoExport
    <3>1. exports[e].pages = << >>
      BY <2>1 DEF NoExport
    <3> QED
      BY <3>1 DEF Ascending
  <2>2. CASE exports[e] # NoExport
    BY <2>2 DEF ExportsInv, ExportOK
  <2> QED
    BY <2>1, <2>2
<1> QED
  BY <1>1, ExportsInvariance, PTL

-----------------------------------------------------------------------------
(***************************************************************************)
(* The paged export implements the listing that knows nothing of pages.    *)
(***************************************************************************)

Matches == [q \in Queries |-> Matching(streams[q.kind], q)]

AsListing(x) == [status |-> x.status, query |-> x.query, base |-> x.base, result |-> Result(x)]

Listings == [e \in Exports |-> AsListing(exports[e])]

LEMMA ListingFields ==
    ASSUME NEW x
    PROVE  /\ AsListing(x).status = x.status
           /\ AsListing(x).query = x.query
           /\ AsListing(x).base = x.base
           /\ AsListing(x).result = Result(x)
<1> DEFINE s == x.status
           q == x.query
           b == x.base
           r == Result(x)
<1>1. AsListing(x) = [status |-> s, query |-> q, base |-> b, result |-> r]
  BY DEF AsListing
<1> HIDE DEF s, q, b, r
<1>2. /\ AsListing(x).status = s
      /\ AsListing(x).query = q
      /\ AsListing(x).base = b
      /\ AsListing(x).result = r
  BY <1>1
<1> QED
  BY <1>2 DEF s, q, b, r

LEMMA ListingVars ==
    /\ \A q \in Queries : Matches[q] = Matching(streams[q.kind], q)
    /\ \A e \in Exports : /\ Listings[e] = AsListing(exports[e])
                          /\ Listings[e].status = exports[e].status
                          /\ Listings[e].query = exports[e].query
                          /\ Listings[e].base = exports[e].base
<1>1. \A q \in Queries : Matches[q] = Matching(streams[q.kind], q)
  BY DEF Matches
<1>2. \A e \in Exports : Listings[e] = AsListing(exports[e])
  BY DEF Listings
<1> QED
  BY <1>1, <1>2, ListingFields

\* A record that arrives is one more that may match.
LEMMA ArrivalStores ==
    ASSUME StoreInv, NEW f \in Forwarders, AddToStream(f)
    PROVE  (\A q \in Queries : Matches[q] \subseteq Matches'[q]) /\ UNCHANGED Listings
<1>1. ASSUME NEW q \in Queries
      PROVE  Matching(streams[q.kind], q) \subseteq Matching(streams'[q.kind], q)
  <2>1. q.kind \in QueryableKind
    BY StoreAssumption DEF Query
  <2>2. streams[q.kind] \in Stream
    BY <2>1, StreamLength
  <2>3. \/ streams'[q.kind] = streams[q.kind]
        \/ \E line : streams'[q.kind] = Append(streams[q.kind], line)
    BY <2>1, AddStep
  <2>4. Matching(streams[q.kind], q) \subseteq DOMAIN streams[q.kind]
    BY DEF Matching
  <2> QED
    BY <2>2, <2>3, <2>4, ArrivalKeeps
<1>2. exports' = exports
  BY DEF AddToStream
<1> QED
  BY <1>1, <1>2 DEF Matches, Listings

\* A page that is not the last changes nothing of the listing; the last answers it.
LEMMA PageAnswers ==
    ASSUME StoreInv, ExportsInv, NEW e \in Exports, ReadPage(e)
    PROVE  /\ UNCHANGED Matches
           /\ \/ UNCHANGED Listings
              \/ /\ Listings[e].status = "paging"
                 /\ Listings' = [Listings EXCEPT ![e].status = "done",
                                                 ![e].result = Listings'[e].result]
                 /\ Listings[e].base \subseteq Listings'[e].result
                 /\ Listings'[e].result \subseteq Matches[Listings[e].query]
<1> DEFINE x == exports[e]
           stream == streams[x.query.kind]
           next == NextCursor(stream, x.query, x.cursor)
           z == [x EXCEPT !.pages = Append(@, Page(stream, x.query, x.cursor)),
                          !.cursor = next,
                          !.status = IF next = Null THEN "done" ELSE "paging"]
<1>1. exports' = [exports EXCEPT ![e] = z] /\ x.status = "paging" /\ streams' = streams
      /\ x \in Export
  BY DEF ReadPage, ExportsInv
<1>2. x.query \in Queries /\ x.query.kind \in QueryableKind /\ ExportOK(x, stream)
  <2>1. x # NoExport
    BY <1>1 DEF NoExport
  <2> QED
    BY <2>1, StoreAssumption DEF ExportsInv, Query
<1>3. z \in Export /\ ExportOK(z, stream)
  BY <1>1, <1>2, StreamLength, PageKeepsExport
<1>4. z.query = x.query /\ z.base = x.base /\ z.status \in {"done", "paging"}
  BY <1>1 DEF Export
<1> HIDE DEF z, stream, next
<1>5. \A d \in Exports : exports'[d] = IF d = e THEN z ELSE exports[d]
  BY <1>1 DEF ExportsInv
<1>6. \A d \in Exports : Listings'[d] = IF d = e THEN AsListing(z) ELSE Listings[d]
  BY <1>5 DEF Listings
<1>7. UNCHANGED Matches
  BY <1>1 DEF Matches
<1>8. CASE z.status = "paging"
  <2>1. AsListing(z) = AsListing(x)
    BY <1>1, <1>4, <1>8 DEF AsListing, Result
  <2>2. \A d \in Exports : Listings'[d] = Listings[d]
    BY <1>6, <2>1, ListingVars
  <2>3. Listings' = Listings
    BY <2>2 DEF Listings
  <2> QED
    BY <1>7, <2>3
<1>9. CASE z.status = "done"
  <2> DEFINE r == Result(z)
             a == Listings[e]
  <2>2. a = AsListing(x) /\ Listings'[e].result = r
    BY <1>6, ListingVars DEF AsListing
  <2> HIDE DEF r, a, x
  <2>1. AsListing(z) = [a EXCEPT !.status = "done", !.result = r]
    <3> DEFINE q == x.query
               b == x.base
               u == Result(x)
               t == x.status
    <3>1. a = [status |-> t, query |-> q, base |-> b, result |-> u]
      BY <2>2 DEF AsListing
    <3>2. AsListing(z) = [status |-> "done", query |-> q, base |-> b, result |-> r]
      BY <1>4, <1>9 DEF AsListing, r
    <3> HIDE DEF t, q, b, u
    <3> DEFINE c == [a EXCEPT !.status = "done"]
    <3>3. c = [status |-> "done", query |-> q, base |-> b, result |-> u]
      BY <3>1
    <3>4. [a EXCEPT !.status = "done", !.result = r] = [c EXCEPT !.result = r]
      OBVIOUS
    <3> HIDE DEF c
    <3>5. [c EXCEPT !.result = r] = [status |-> "done", query |-> q, base |-> b, result |-> r]
      BY <3>3
    <3> QED
      BY <3>2, <3>4, <3>5
  <2> USE DEF x
  <2>3. Listings' = [Listings EXCEPT ![e].status = "done", ![e].result = Listings'[e].result]
    <3>1. \A d \in Exports : Listings'[d] = IF d = e THEN [a EXCEPT !.status = "done", !.result = r]
                                                     ELSE Listings[d]
      BY <1>6, <2>1
    <3>2. Listings' = [d \in Exports |-> Listings'[d]] /\ Listings = [d \in Exports |-> Listings[d]]
      BY DEF Listings
    <3> QED
      BY <3>1, <3>2, <2>2 DEF a
  <2>4. r = Served(z)
    BY <1>9 DEF r, Result, Served
  <2>5. x.base \subseteq Served(z)
    BY <1>3, <1>4, <1>9 DEF ExportOK
  <2>6. Served(z) \subseteq Matching(stream, x.query)
    BY <1>3, <1>4 DEF ExportOK, Served
  <2>7. /\ Listings[e].status = "paging" /\ Listings[e].base = x.base
        /\ Listings[e].query = x.query /\ Matches[x.query] = Matching(stream, x.query)
    BY <1>1, <1>2, <2>2, ListingVars DEF AsListing, stream, a
  <2> QED
    BY <1>7, <2>2, <2>3, <2>4, <2>5, <2>6, <2>7
<1> QED
  BY <1>4, <1>8, <1>9

\* A failure fails exports that are under way, and has no answer.
LEMMA FailuresFail ==
    ASSUME ExportsInv, Crash \/ \E e \in Exports : FailExport(e)
    PROVE  /\ UNCHANGED Matches
           /\ \E S \in SUBSET {e \in Exports : Listings[e].status = "paging"} :
                Listings' = [e \in Exports |->
                  IF e \in S THEN [Listings[e] EXCEPT !.status = "failed"] ELSE Listings[e]]
<1>1. PICK S \in SUBSET {e \in Exports : exports[e].status = "paging"} :
           \A e \in Exports : exports'[e] = IF e \in S THEN [exports[e] EXCEPT !.status = "failed"]
                                                       ELSE exports[e]
  <2>1. ASSUME NEW e \in Exports, FailExport(e)
        PROVE  \E S \in SUBSET {d \in Exports : exports[d].status = "paging"} :
                  \A d \in Exports :
                     exports'[d] = IF d \in S THEN [exports[d] EXCEPT !.status = "failed"]
                                              ELSE exports[d]
    <3>1. {e} \in SUBSET {d \in Exports : exports[d].status = "paging"}
      BY <2>1 DEF FailExport
    <3>2. \A d \in Exports :
             exports'[d] = IF d \in {e} THEN [exports[d] EXCEPT !.status = "failed"]
                                        ELSE exports[d]
      BY <2>1 DEF FailExport, ExportsInv
    <3> QED
      BY <3>1, <3>2
  <2>2. CASE Crash
    <3> DEFINE S == {d \in Exports : exports[d].status = "paging"}
    <3>1. \A d \in Exports :
             exports'[d] = IF d \in S THEN [exports[d] EXCEPT !.status = "failed"]
                                      ELSE exports[d]
      BY <2>2 DEF Crash
    <3> QED
      BY <3>1
  <2> QED
    BY <2>1, <2>2
<1>2. UNCHANGED Matches
  BY DEF Crash, FailExport, Matches
<1>3. ASSUME NEW e \in S
      PROVE  AsListing([exports[e] EXCEPT !.status = "failed"])
               = [Listings[e] EXCEPT !.status = "failed"]
  <2>1. exports[e] \in Export /\ exports[e].status = "paging"
    BY <1>3 DEF ExportsInv
  <2> DEFINE x == exports[e]
             z == [exports[e] EXCEPT !.status = "failed"]
  <2>2. /\ z.status = "failed" /\ z.query = x.query /\ z.base = x.base
    BY <2>1 DEF Export
  <2>3. Result(z) = {} /\ Result(x) = {}
    BY <2>1, <2>2 DEF Result
  <2> DEFINE a == Listings[e]
  <2>4. a = AsListing(x)
    BY ListingVars
  <2> HIDE DEF z, a, x
  <2>5. AsListing(z) = [a EXCEPT !.status = "failed"]
    <3> DEFINE q == x.query
               b == x.base
               t == x.status
    <3>1. a = [status |-> t, query |-> q, base |-> b, result |-> {}]
      BY <2>3, <2>4 DEF AsListing
    <3>2. AsListing(z) = [status |-> "failed", query |-> q, base |-> b, result |-> {}]
      BY <2>2, <2>3 DEF AsListing
    <3> HIDE DEF t, q, b
    <3>3. [a EXCEPT !.status = "failed"]
            = [status |-> "failed", query |-> q, base |-> b, result |-> {}]
      BY <3>1
    <3> QED
      BY <3>2, <3>3
  <2> QED
    BY <2>5 DEF a, x, z
<1> DEFINE Failed(e) == IF e \in S THEN [Listings[e] EXCEPT !.status = "failed"] ELSE Listings[e]
<1>4. ASSUME NEW e \in Exports  PROVE  Listings'[e] = Failed(e)
  <2>1. Listings'[e] = AsListing(exports'[e]) /\ Listings[e] = AsListing(exports[e])
    BY DEF Listings, AsListing, Result
  <2>2. CASE e \in S
    BY <1>1, <1>3, <2>1, <2>2
  <2>3. CASE e \notin S
    BY <1>1, <2>1, <2>3
  <2> QED
    BY <2>2, <2>3
<1>5. Listings' = [e \in Exports |-> Listings'[e]]
  BY DEF Listings
<1>6. Listings' = [e \in Exports |-> Failed(e)]
  <2> HIDE DEF Failed
  <2> QED
    BY <1>4, <1>5
<1>7. S \in SUBSET {e \in Exports : Listings[e].status = "paging"}
  <2>1. \A e \in Exports : Listings[e].status = exports[e].status
    BY ListingVars DEF AsListing
  <2> QED
    BY <2>1
<1> QED
  BY <1>2, <1>6, <1>7

LEMMA ListingStep ==
    StoreInv /\ ExportsInv /\ [Next]_vars
      => [Listing!Next]_<<[q \in Queries |-> Matching(streams[q.kind], q)],
                          [e \in Exports |-> [status |-> exports[e].status,
                                              query  |-> exports[e].query,
                                              base   |-> exports[e].base,
                                              result |-> Result(exports[e])]]>>
<1> SUFFICES ASSUME StoreInv, ExportsInv, [Next]_vars
             PROVE  Listing!Next \/ UNCHANGED <<Matches, Listings>>
  BY DEF Matches, Listings, AsListing
<1>1. ASSUME UNCHANGED <<streams, exports>>  PROVE  UNCHANGED <<Matches, Listings>>
  BY <1>1 DEF Matches, Listings
<1>2. ASSUME NEW f \in Forwarders, Connect(f) \/ (\E line \in Lines : PushToList(f, line))
                                     \/ CloseConnection(f)
      PROVE  UNCHANGED <<Matches, Listings>>
  BY <1>1, <1>2 DEF Connect, PushToList, CloseConnection
<1>3. ASSUME NEW f \in Forwarders, AddToStream(f)  PROVE  Listing!Next
  BY <1>3, ArrivalStores DEF Listing!Next, Listing!Store, Matches, Listings, AsListing
<1>4. ASSUME NEW e \in Exports, NEW q \in Queries, BeginExport(e, q)  PROVE  Listing!Next
  <2> DEFINE z == [NoExport EXCEPT !.status = "paging", !.query = q,
                                   !.base = Matching(streams[q.kind], q)]
  <2>1. exports' = [exports EXCEPT ![e] = z] /\ streams' = streams /\ exports[e].status = "idle"
    BY <1>4 DEF BeginExport
  <2>2. /\ z.status = "paging" /\ z.query = q /\ z.base = Matching(streams[q.kind], q)
    BY DEF NoExport
  <2> HIDE DEF z
  <2>8. AsListing(z) = [status |-> "paging", query |-> q, base |-> Matches[q], result |-> {}]
    BY <2>2, ListingVars DEF AsListing, Result
  <2>3. \A d \in Exports : exports'[d] = IF d = e THEN z ELSE exports[d]
    BY <2>1 DEF ExportsInv
  <2>4. \A d \in Exports : Listings'[d] = IF d = e THEN AsListing(z) ELSE Listings[d]
    BY <2>3 DEF Listings
  <2>5. Listings' = [Listings EXCEPT ![e] = AsListing(z)]
    BY <2>4 DEF Listings
  <2>6. Listings[e].status = "idle" /\ UNCHANGED Matches
    BY <2>1, ListingVars DEF AsListing, Matches
  <2>7. Listing!Ask(e)
    BY <2>8, <2>5, <2>6 DEF Listing!Ask, Matches, Listings, AsListing
  <2> QED
    BY <2>7 DEF Listing!Next
<1>5. ASSUME NEW e \in Exports, ReadPage(e)  PROVE  Listing!Next \/ UNCHANGED <<Matches, Listings>>
  <2>1. CASE UNCHANGED Listings
    BY <1>5, <2>1, PageAnswers
  <2>2. CASE ~UNCHANGED Listings
    <3>1. Listing!Answer(e)
      BY <1>5, <2>2, PageAnswers DEF Listing!Answer, Matches, Listings, AsListing
    <3> QED
      BY <3>1 DEF Listing!Next
  <2> QED
    BY <2>1, <2>2
<1>6. CASE Crash \/ \E e \in Exports : FailExport(e)
  <2>1. Listing!Fail
    BY <1>6, FailuresFail DEF Listing!Fail, Matches, Listings, AsListing
  <2> QED
    BY <2>1 DEF Listing!Next
<1>7. CASE UNCHANGED vars
  BY <1>1, <1>7 DEF vars
<1> QED
  BY <1>2, <1>3, <1>4, <1>5, <1>6, <1>7 DEF Next

\* An export never has an answer that lacks a record stored before it was asked for,
\* or has one that does not match: the paged export implements RecordListing.
THEOREM PagedExportsList == Spec => ExportsList
<1>1. Init => Listing!Init
  <2> SUFFICES ASSUME Init  PROVE  Listing!Init
    OBVIOUS
  <2>1. \A q \in Queries : Matches[q] = {}
    <3>1. \A q \in Queries : q.kind \in QueryableKind
      BY StoreAssumption DEF Query
    <3> QED
      BY <3>1, ListingVars DEF Init, Matching
  <2>2. Listings = [e \in Exports |->
                      [status |-> "idle", query |-> Null, base |-> {}, result |-> {}]]
    <3>1. AsListing(NoExport) = [status |-> "idle", query |-> Null, base |-> {}, result |-> {}]
      BY DEF AsListing, NoExport, Result
    <3>2. \A e \in Exports : AsListing(exports[e]) = AsListing(NoExport)
      BY DEF Init
    <3> QED
      BY <3>1, <3>2 DEF Listings
  <2> QED
    BY <2>1, <2>2 DEF Listing!Init, Listing!NoListing, Matches, Listings, AsListing
<1> QED
  BY <1>1, ListingStep, StoreInvariance, ExportsInvariance, PTL
     DEF Spec, ExportsList, Listing!Spec

=============================================================================
