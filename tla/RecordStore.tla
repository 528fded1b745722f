----------------------------- MODULE RecordStore -----------------------------
(***************************************************************************)
(* A sump's record store: the connections that feed it and the exports     *)
(* that read it, over a Redis they share.                                  *)
(*                                                                         *)
(* The server is one event loop, and every Redis command is awaited: what  *)
(* a handler does between two commands is one action with the command that *)
(* follows.  An ingested record is pushed to the list of everything, then  *)
(* added to the stream of its kind.  An export reads its stream anew for   *)
(* each page, and records arrive between two pages.                        *)
(*                                                                         *)
(* One docker host: the streams of two hosts share nothing but the list.   *)
(* GET /query and GET /records read and change nothing.                    *)
(***************************************************************************)
EXTENDS RecordPages

CONSTANTS
    Lines,        \* the lines senders may send
    Forwarders,   \* senders, each with one connection (Fluent Bit, external)
    Exports,      \* export requests
    Queries       \* what an export may ask

ASSUME StoreAssumption ==
    /\ Lines \subseteq Line
    /\ Queries \subseteq Query
    /\ Null \notin Lines
    /\ Null \notin Queries

VARIABLES
    list,       \* logsump:ingest:v1
    streams,    \* logsump:stream:{docker_host}:{kind}, for each kind
    conns,      \* the state of each sender's connection
    exports     \* the state of each export request

vars == <<list, streams, conns, exports>>

Conn == [phase : {"open", "listed", "closed"}, line : Lines \cup {Null}]

\* base is a history variable: what matched when the export was asked for.
Export == [status : {"idle", "paging", "done", "failed"},
           query : Queries \cup {Null}, cursor : Positions \cup {Null},
           pages : Seq(SUBSET Positions), base : SUBSET Positions]

Closed == [phase |-> "closed", line |-> Null]
Open   == [phase |-> "open", line |-> Null]

NoExport == [status |-> "idle", query |-> Null, cursor |-> Null,
             pages |-> << >>, base |-> {}]

TypeOK ==
    /\ list \in Seq(Lines)
    /\ streams \in [QueryableKind -> Seq(Lines)]
    /\ conns \in [Forwarders -> Conn]
    /\ exports \in [Exports -> Export]

Init ==
    /\ list = << >>
    /\ streams = [k \in QueryableKind |-> << >>]
    /\ conns = [f \in Forwarders |-> Closed]
    /\ exports = [e \in Exports |-> NoExport]

-----------------------------------------------------------------------------
(* Ingest                                                                  *)

ParseRecord(line) == line.kind # "malformed"

Connect(f) ==
    /\ conns[f].phase = "closed"
    /\ conns' = [conns EXCEPT ![f] = Open]
    /\ UNCHANGED <<list, streams, exports>>

\* Fault: ingest() adds to the stream first; a failure then skips the list.
StreamBeforeList(f, line) ==
    /\ conns[f].phase = "open"
    /\ ParseRecord(line)
    /\ Len(list) < MaxEntries
    /\ line.kind \in QueryableKind
    /\ Len(streams[line.kind]) < MaxEntries
    /\ streams' = [streams EXCEPT ![line.kind] = Append(@, line)]
    /\ conns' = [conns EXCEPT ![f] = Open]
    /\ UNCHANGED <<list, exports>>

\* A line is read, parsed and, unless dropped, pushed to the list.  A kind
\* without a stream is done; another is yet to be added to its own.
PushToList(f, line) ==
    /\ conns[f].phase = "open"
    /\ ParseRecord(line)
    /\ Len(list) < MaxEntries
    /\ list' = Append(list, line)
    /\ conns' = [conns EXCEPT ![f] =
         IF line.kind \in QueryableKind THEN [phase |-> "listed", line |-> line]
                                        ELSE Open]
    /\ UNCHANGED <<streams, exports>>

AddToStream(f) ==
    /\ conns[f].phase = "listed"
    /\ streams' = [streams EXCEPT ![conns[f].line.kind] = Append(@, conns[f].line)]
    /\ conns' = [conns EXCEPT ![f] = Open]
    /\ UNCHANGED <<list, exports>>

\* The sender hangs up, or a command fails: the exception leaves the loop and
\* the connection is closed, wherever its line had got to.
CloseConnection(f) ==
    /\ conns[f].phase # "closed"
    /\ conns' = [conns EXCEPT ![f] = Closed]
    /\ UNCHANGED <<list, streams, exports>>

-----------------------------------------------------------------------------
(* Exports: _fetch_all loops over query_records until no cursor is left.    *)

BeginExport(e, q) ==
    /\ exports[e].status = "idle"
    /\ exports' = [exports EXCEPT ![e] =
         [NoExport EXCEPT !.status = "paging", !.query = q,
                          !.base = Matching(streams[q.kind], q)]]
    /\ UNCHANGED <<list, streams, conns>>

ReadPage(e) ==
    LET x      == exports[e]
        stream == streams[x.query.kind]
        next   == NextCursor(stream, x.query, x.cursor)
    IN  /\ x.status = "paging"
        /\ Readable(stream)
        /\ exports' = [exports EXCEPT
             ![e].pages  = Append(@, Page(stream, x.query, x.cursor)),
             ![e].cursor = next,
             ![e].status = IF next = Null THEN "done" ELSE "paging"]
        /\ UNCHANGED <<list, streams, conns>>

\* Fault: the exception of a read is swallowed and the loop stays where it is.
FailureSwallowed(e) ==
    /\ exports[e].status = "paging"
    /\ UNCHANGED vars

\* A record without an instant, or a Redis that fails, ends the request.
FailExport(e) ==
    /\ exports[e].status = "paging"
    /\ exports' = [exports EXCEPT ![e].status = "failed"]
    /\ UNCHANGED <<list, streams, conns>>

-----------------------------------------------------------------------------
\* The server process dies; Redis is a process of its own and keeps its data.
Crash ==
    /\ conns' = [f \in Forwarders |-> Closed]
    /\ exports' = [e \in Exports |->
         IF exports[e].status = "paging" THEN [exports[e] EXCEPT !.status = "failed"]
                                         ELSE exports[e]]
    /\ UNCHANGED <<list, streams>>

Next ==
    \/ \E f \in Forwarders : \/ Connect(f)
                             \/ \E line \in Lines : PushToList(f, line)
                             \/ AddToStream(f)
                             \/ CloseConnection(f)
    \/ \E e \in Exports : \/ \E q \in Queries : BeginExport(e, q)
                          \/ ReadPage(e)
                          \/ FailExport(e)
    \/ Crash

Spec == Init /\ [][Next]_vars

\* The event loop runs what is ready: a request that can read its next page,
\* or can only fail, goes on.
FairSpec == Spec /\ \A e \in Exports : WF_vars(ReadPage(e) \/ FailExport(e))

-----------------------------------------------------------------------------
(* Properties                                                              *)

Copies(seq, line) == Cardinality({i \in DOMAIN seq : seq[i] = line})

\* The list is the record of everything: whatever fails or dies between the
\* two writes of ingest(), no stream has a record more often than the list.
StreamsWithinList ==
    \A k \in QueryableKind : \A line \in Lines :
        Copies(streams[k], line) <= Copies(list, line)

\* The pages of one export follow one another in time and none repeats a
\* record, whatever was ingested before, between or after them: the cursor
\* names a record, not a place (_fetch_kind, _fetch_all).
PagesAscend ==
    \A e \in Exports : \A m, n \in DOMAIN exports[e].pages :
        m < n => \A i \in exports[e].pages[m], j \in exports[e].pages[n] :
                     Precedes(streams[exports[e].query.kind], i, j)

\* An export never has an answer that lacks a record stored before it was
\* asked for, or has one that does not match: the paged export implements
\* the listing that knows nothing of pages.
Result(x) == IF x.status = "done" THEN UNION {x.pages[n] : n \in DOMAIN x.pages} ELSE {}

Listing == INSTANCE RecordListing WITH
    matching <- [q \in Queries |-> Matching(streams[q.kind], q)],
    listings <- [e \in Exports |-> [status |-> exports[e].status,
                                    query  |-> exports[e].query,
                                    base   |-> exports[e].base,
                                    result |-> Result(exports[e])]]

ExportsList == Listing!Spec

\* An export that has begun ends: the next page is never empty while there is
\* a cursor, so the loop of _fetch_all runs out of records.
ExportsEnd ==
    \A e \in Exports : exports[e].status = "paging" ~> exports[e].status \in {"done", "failed"}

=============================================================================
