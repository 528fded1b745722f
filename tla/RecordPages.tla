----------------------------- MODULE RecordPages -----------------------------
(***************************************************************************)
(* What one read of a record stream returns: the body of _fetch_kind, on   *)
(* which GET /records, the exports and, at the other end, the relay stand. *)
(*                                                                         *)
(* A stream is the sequence of the lines added to it; an entry is named by *)
(* its position.  Redis gives entries growing ids, but the code compares   *)
(* those ids as strings ("5-10" comes before "5-9"), so the order among    *)
(* records of one instant is that of IdRank and not of the positions.      *)
(***************************************************************************)
EXTENDS Naturals, Sequences, FiniteSets

CONSTANTS
    Containers,   \* the containers records may be about
    Null,         \* an absent field, parameter or cursor
    Limit,        \* records of a page (DEFAULT_LIMIT, or the limit asked for)
    MaxEntries,   \* bound: entries of a stream
    IdRank        \* rank of the id of each position among ids as strings

Positions == 1 .. MaxEntries

QueryableKind == {"log", "metric"}

\* A line of input: "other" is a kind without a stream, "malformed" is a line
\* that is no JSON object or lacks kind or docker_host.
Line == [kind : QueryableKind \cup {"other", "malformed"},
         ts : Nat \cup {Null}, container : Containers]

\* What a request asks of one kind: an interval and, perhaps, a container.
Query == [kind : QueryableKind, from : Nat, to : Nat,
          container : Containers \cup {Null}]

ASSUME PagesAssumption ==
    /\ Limit \in Nat \ {0}
    /\ MaxEntries \in Nat
    /\ IdRank \in [Positions -> Nat]
    /\ \A i, j \in Positions : IdRank[i] = IdRank[j] => i = j
    /\ Null \notin Nat
    /\ Null \notin Containers

\* Every record of the stream is parsed before it is filtered: one without an
\* instant makes the whole read raise.
Readable(stream) == \A i \in DOMAIN stream : stream[i].ts # Null

PostFilter(line, q) == q.container = Null \/ line.container = q.container

Matching(stream, q) ==
    {i \in DOMAIN stream : /\ stream[i].ts # Null
                           /\ q.from <= stream[i].ts
                           /\ stream[i].ts <= q.to
                           /\ PostFilter(stream[i], q)}

Precedes(stream, i, j) ==
    \/ stream[i].ts < stream[j].ts
    \/ stream[i].ts = stream[j].ts /\ IdRank[i] < IdRank[j]

\* Fault: the page starts at the cursor's entry and not after it.
RestFromCursor(stream, q, cursor) ==
    IF cursor = Null THEN Matching(stream, q)
    ELSE {i \in Matching(stream, q) : /\ cursor \in Matching(stream, q)
                                      /\ i = cursor \/ Precedes(stream, cursor, i)}

\* What is left to serve after a cursor.  A cursor that names no matching
\* entry leaves nothing: its record may have left the interval.
Remaining(stream, q, cursor) ==
    IF cursor = Null THEN Matching(stream, q)
    ELSE {i \in Matching(stream, q) : /\ cursor \in Matching(stream, q)
                                      /\ Precedes(stream, cursor, i)}

Page(stream, q, cursor) ==
    LET rest == Remaining(stream, q, cursor)
    IN  {i \in rest : Cardinality({j \in rest : Precedes(stream, j, i)}) < Limit}

\* Fault: a last page of one record is forgotten.
MoreThanOneLeft(stream, q, cursor) ==
    Cardinality(Remaining(stream, q, cursor)) > Limit + 1

HasMore(stream, q, cursor) == Cardinality(Remaining(stream, q, cursor)) > Limit

LastOf(stream, page) ==
    CHOOSE i \in page : \A j \in page : j = i \/ Precedes(stream, j, i)

\* Fault: the end of a listing is given as a place and not as no cursor.
CursorOrZero(stream, q, cursor) ==
    IF HasMore(stream, q, cursor)
    THEN LastOf(stream, Page(stream, q, cursor)) ELSE 0

NextCursor(stream, q, cursor) ==
    IF HasMore(stream, q, cursor)
    THEN LastOf(stream, Page(stream, q, cursor)) ELSE Null
=============================================================================
