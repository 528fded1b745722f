-------------------------- MODULE SumpServer_proofs --------------------------
(***************************************************************************)
(* Proofs about SumpServer: the types of its state, that the relay is      *)
(* ended by nothing but the shutdown, and that one listing ingests no      *)
(* record twice and skips none that it owes.                               *)
(***************************************************************************)
EXTENDS SumpServer, RecordPages_proofs

\* Before the ingest server is up there are no tasks.
NoTaskBeforeServing ==
    phase \notin {"serving", "closing", "cancelling"} => \A t \in Tasks : tasks[t] = "none"

StreamsBounded == \A k \in QueryableKind : Len(source[k]) <= MaxEntries

\* No record is from the future.
SourceDated == \A k \in QueryableKind : \A i \in DOMAIN source[k] : source[k][i].ts \in 0 .. now

ServerInv == TypeOK /\ StreamsBounded /\ SourceDated /\ NoTaskBeforeServing

-----------------------------------------------------------------------------
(* Types                                                                   *)

LEMMA StreamTypes ==
    ASSUME TypeOK, StreamsBounded
    PROVE  \A k \in QueryableKind : source[k] \in Stream
BY DEF TypeOK, StreamsBounded, Stream

\* What a poll gets of a kind, and where it says to go on.
LEMMA PollTypes ==
    ASSUME TypeOK, StreamsBounded, NEW k \in QueryableKind
    PROVE  /\ Page(source[k], PollQuery(k), relay.cursors[k]) \subseteq Positions
           /\ NextCursors[k] \in Positions \cup {Null}
           /\ NextCursors[k] # Null
                => NextCursors[k] \in Page(source[k], PollQuery(k), relay.cursors[k])
<1> DEFINE str == source[k]
           q == PollQuery(k)
           cur == relay.cursors[k]
<1>1. str \in Stream
  BY StreamTypes
<1>2. NextCursors[k] = NextCursor(str, q, cur)
  BY DEF NextCursors
<1> HIDE DEF str, q, cur
<1>3. Page(str, q, cur) \subseteq Positions
  BY <1>1, PageWithin
<1>4. NextCursor(str, q, cur) # Null => NextCursor(str, q, cur) \in Page(str, q, cur)
  BY <1>1, PageSplits
<1> QED
  BY <1>2, <1>3, <1>4 DEF str, q, cur

LEMMA AsleepTypes ==
    ASSUME NEW c \in Cursors
    PROVE  Asleep(c) \in [at : {"sleeping", "ingesting", "listed"}, page : SUBSET Entry,
                          cursors : Cursors, next : Cursors]
BY DEF Asleep

\* The polled sump's streams.
LEMMA SourceGrows ==
    ASSUME TypeOK, StreamsBounded, NEW k \in QueryableKind, NEW ts, SourceAdds(k, ts)
    PROVE  /\ source' \in [QueryableKind -> Seq(Line)]
           /\ StreamsBounded'
           /\ \E c \in Containers :
                source' = [source EXCEPT ![k] =
                             Append(source[k], [kind |-> k, ts |-> ts, container |-> c])]
<1>1. PICK c \in Containers :
        source' = [source EXCEPT ![k] =
                     Append(source[k], [kind |-> k, ts |-> ts, container |-> c])]
  BY DEF SourceAdds
<1> DEFINE line == [kind |-> k, ts |-> ts, container |-> c]
<1>2. line \in Line
  BY DEF SourceAdds, Line
<1>3. source \in [QueryableKind -> Seq(Line)] /\ Len(source[k]) < MaxEntries
  BY DEF TypeOK, SourceAdds
<1> HIDE DEF line
<1>4. /\ Append(source[k], line) \in Seq(Line)
      /\ Len(Append(source[k], line)) = Len(source[k]) + 1
      /\ Len(source[k]) \in Nat
  BY <1>2, <1>3
<1>5. source' = [source EXCEPT ![k] = Append(source[k], line)]
  BY <1>1 DEF line
<1>6. \A j \in QueryableKind :
        source'[j] = IF j = k THEN Append(source[k], line) ELSE source[j]
  BY <1>3, <1>5
<1>7. StreamsBounded'
  <2> SUFFICES ASSUME NEW j \in QueryableKind  PROVE  Len(source'[j]) <= MaxEntries
    BY DEF StreamsBounded
  <2>1. CASE j = k
    <3> DEFINE n == Len(source[k])
    <3>1. Len(source'[j]) = n + 1
      BY <1>4, <1>6, <2>1
    <3>2. n \in Nat /\ n < MaxEntries /\ MaxEntries \in Nat
      BY <1>3, <1>4, PagesAssumption
    <3> HIDE DEF n
    <3> QED
      BY <3>1, <3>2
  <2>2. CASE j # k
    BY <1>6, <2>2 DEF StreamsBounded
  <2> QED
    BY <2>1, <2>2
<1>8. source' \in [QueryableKind -> Seq(Line)]
  BY <1>3, <1>4, <1>5
<1> QED
  BY <1>1, <1>7, <1>8

\* The process is gone: what it leaves has the types.
LEMMA EndTypes ==
    TypeOK /\ ProcessEnds /\ faults' \in 0 .. MaxFaults => TypeOK' /\ NoTaskBeforeServing'
<1> SUFFICES ASSUME TypeOK, ProcessEnds, faults' \in 0 .. MaxFaults
             PROVE  TypeOK' /\ NoTaskBeforeServing'
  OBVIOUS
<1>1. relay' \in [at : {"sleeping", "ingesting", "listed"}, page : SUBSET Entry,
                  cursors : Cursors, next : Cursors]
  BY AsleepTypes DEF ProcessEnds, NoCursors, Cursors
<1>2. /\ pass' \in [QueryableKind -> [Positions -> 0 .. 2]]
      /\ owed' \in [QueryableKind -> 0 .. MaxEntries]
  BY PagesAssumption DEF ProcessEnds, Unseen, NoneOwed
<1>3. /\ phase' \in Phase /\ loaded' \subseteq Plugins \ Disabled /\ factories' \subseteq Tasks
      /\ tasks' \in [Tasks -> {"none", "running", "ended"}] /\ conns' \subseteq Forwarders
      /\ target' \subseteq Entry /\ source' \in [QueryableKind -> Seq(Line)]
      /\ now' \in 0 .. MaxNow
  BY DEF ProcessEnds, TypeOK, Phase
<1>4. NoTaskBeforeServing'
  BY DEF ProcessEnds, NoTaskBeforeServing
<1> QED
  BY <1>1, <1>2, <1>3, <1>4 DEF TypeOK

\* Steps of the relay.
LEMMA FetchTypes == ServerInv /\ FetchPage => TypeOK'
<1> SUFFICES ASSUME TypeOK, StreamsBounded, FetchPage  PROVE  TypeOK'
  BY DEF ServerInv
<1> DEFINE page == PageOfBoth
           next == NextCursors
<1>1. page \subseteq Entry /\ next \in Cursors
  <2>1. \A k \in QueryableKind : next[k] \in Positions \cup {Null}
    BY PollTypes
  <2>2. next = [k \in QueryableKind |-> next[k]]
    BY DEF NextCursors
  <2> HIDE DEF next
  <2>3. next \in Cursors
    BY <2>1, <2>2 DEF Cursors
  <2> QED
    BY <2>3 DEF PageOfBoth
<1>2. relay' = IF page = {} THEN Asleep(next)
               ELSE [relay EXCEPT !.at = "ingesting", !.page = page, !.next = next]
  BY DEF FetchPage
<1> HIDE DEF page, next
<1>3. relay' \in [at : {"sleeping", "ingesting", "listed"}, page : SUBSET Entry,
                  cursors : Cursors, next : Cursors]
  BY <1>1, <1>2, AsleepTypes DEF TypeOK
<1>4. pass' \in [QueryableKind -> [Positions -> 0 .. 2]]
  BY DEF FetchPage, TypeOK, Unseen
<1>5. UNCHANGED <<server, tasks, target, source, now, faults>>
  BY DEF FetchPage
<1>6. owed' \in [QueryableKind -> 0 .. MaxEntries]
  <2>1. owed' = [k \in QueryableKind |-> owed'[k]]
    BY DEF FetchPage
  <2>2. ASSUME NEW k \in QueryableKind  PROVE  owed'[k] \in 0 .. MaxEntries
    <3> DEFINE n == Len(source[k])
    <3>1. n \in Nat /\ n <= MaxEntries /\ owed[k] \in 0 .. MaxEntries
      BY DEF TypeOK, StreamsBounded
    <3>2. owed'[k] \in {n, owed[k], 0}
      BY DEF FetchPage
    <3> HIDE DEF n
    <3> QED
      BY <3>1, <3>2, PagesAssumption
  <2> QED
    BY <2>1, <2>2
<1> QED
  BY <1>3, <1>4, <1>5, <1>6 DEF TypeOK, server

LEMMA AddTypes == TypeOK /\ AddRelayed => TypeOK'
<1> SUFFICES ASSUME TypeOK, AddRelayed  PROVE  TypeOK'
  OBVIOUS
<1>1. PICK e \in relay.page :
        /\ target' = target \cup {e}
        /\ relay' = IF relay.page = {e} THEN Asleep(relay.next)
                    ELSE [relay EXCEPT !.at = "ingesting", !.page = relay.page \ {e}]
        /\ pass' = [pass EXCEPT ![e[1]][e[2]] = IF @ < 2 THEN @ + 1 ELSE @]
  BY DEF AddRelayed
<1>2. e \in Entry /\ e[1] \in QueryableKind /\ e[2] \in Positions /\ relay.next \in Cursors
  BY DEF TypeOK, Entry
<1>3. relay' \in [at : {"sleeping", "ingesting", "listed"}, page : SUBSET Entry,
                  cursors : Cursors, next : Cursors]
  BY <1>1, <1>2, AsleepTypes DEF TypeOK
<1>4. pass' \in [QueryableKind -> [Positions -> 0 .. 2]]
  <2> DEFINE n == pass[e[1]][e[2]]
             m == IF n < 2 THEN n + 1 ELSE n
  <2>1. n \in 0 .. 2 /\ m \in 0 .. 2
    BY <1>2 DEF TypeOK
  <2>2. pass' = [pass EXCEPT ![e[1]][e[2]] = m]
    BY <1>1
  <2> HIDE DEF m, n
  <2> QED
    BY <1>2, <2>1, <2>2 DEF TypeOK
<1>5. UNCHANGED <<server, tasks, source, now, owed, faults>> /\ target' \subseteq Entry
  BY <1>1, <1>2 DEF AddRelayed, TypeOK
<1> QED
  BY <1>3, <1>4, <1>5 DEF TypeOK, server

LEMMA ServerInvInit == Init => ServerInv
<1> SUFFICES ASSUME Init  PROVE  ServerInv
  OBVIOUS
<1>1. relay \in [at : {"sleeping", "ingesting", "listed"}, page : SUBSET Entry,
                 cursors : Cursors, next : Cursors]
  BY AsleepTypes DEF Init, NoCursors, Cursors
<1>2. /\ pass \in [QueryableKind -> [Positions -> 0 .. 2]]
      /\ owed \in [QueryableKind -> 0 .. MaxEntries]
  BY PagesAssumption DEF Init, Unseen, NoneOwed
<1>3. now \in 0 .. MaxNow /\ faults \in 0 .. MaxFaults
  BY ServerAssumption DEF Init
<1>4. source \in [QueryableKind -> Seq(Line)] /\ \A k \in QueryableKind : source[k] = << >>
  BY DEF Init
<1>5. StreamsBounded /\ SourceDated
  BY <1>4, PagesAssumption DEF StreamsBounded, SourceDated
<1> QED
  BY <1>1, <1>2, <1>3, <1>4, <1>5 DEF Init, ServerInv, TypeOK, NoTaskBeforeServing, Phase

\* A record that arrives is of the present or older, and the present only moves on.
LEMMA DatedNext == ServerInv /\ [Next]_vars => SourceDated'
<1> SUFFICES ASSUME TypeOK, StreamsBounded, SourceDated, [Next]_vars  PROVE  SourceDated'
  BY DEF ServerInv
<1>1. now \in Nat /\ source \in [QueryableKind -> Seq(Line)]
  BY ServerAssumption DEF TypeOK
<1>2. ASSUME NEW k \in QueryableKind, NEW ts \in 0 .. MaxNow, SourceAdds(k, ts)
      PROVE  SourceDated'
  <2>1. PICK c \in Containers :
          source' = [source EXCEPT ![k] =
                       Append(source[k], [kind |-> k, ts |-> ts, container |-> c])]
    BY <1>2, SourceGrows
  <2> DEFINE line == [kind |-> k, ts |-> ts, container |-> c]
  <2>2. line.ts \in 0 .. now /\ now' = now
    BY <1>2, <1>1 DEF SourceAdds
  <2> HIDE DEF line
  <2>3. source' = [source EXCEPT ![k] = Append(source[k], line)]
    BY <2>1 DEF line
  <2> SUFFICES ASSUME NEW j \in QueryableKind, NEW i \in DOMAIN source'[j]
               PROVE  source'[j][i].ts \in 0 .. now
    BY <2>2 DEF SourceDated
  <2>4. CASE j # k
    BY <1>1, <2>3, <2>4 DEF SourceDated
  <2>5. CASE j = k
    <3>1. source'[j] = Append(source[k], line) /\ source[k] \in Seq(Line)
      BY <1>1, <2>3, <2>5
    <3>2. source'[j][i] = line \/ (i \in DOMAIN source[k] /\ source'[j][i] = source[k][i])
      BY <3>1
    <3> QED
      BY <2>2, <3>2 DEF SourceDated
  <2> QED
    BY <2>4, <2>5
<1>3. CASE Tick
  BY <1>1, <1>3 DEF Tick, SourceDated
<1>4. CASE UNCHANGED <<source, now>>
  BY <1>4 DEF SourceDated
<1>5. (\E k \in QueryableKind, ts \in 0 .. MaxNow : SourceAdds(k, ts)) \/ Tick
      \/ UNCHANGED <<source, now>>
  BY DEF Next, Startup, Start, LoadPlugin, FireHook, StartTasks, StartupFails, Crash, ProcessEnds,
     Connect, CloseConnection, CloseServer, Shutdown, CancelTasks, CancelLands, Stopped, TaskRaises,
     RelaySteps, FetchPage, PushRelayed, AddRelayed, PollFails, vars
<1> QED
  BY <1>2, <1>3, <1>4, <1>5

LEMMA ServerInvNext == ServerInv /\ [Next]_vars => ServerInv'
<1> SUFFICES ASSUME TypeOK, StreamsBounded, SourceDated, NoTaskBeforeServing, [Next]_vars
             PROVE  TypeOK' /\ StreamsBounded' /\ NoTaskBeforeServing'
  BY DatedNext DEF ServerInv
<1>1. CASE Startup
  <2>1. UNCHANGED <<source, now, faults, target, conns>> /\ StreamsBounded'
    BY <1>1 DEF Startup, Start, LoadPlugin, FireHook, StartTasks, StreamsBounded, relaying
  <2>2. /\ relay' \in [at : {"sleeping", "ingesting", "listed"}, page : SUBSET Entry,
                       cursors : Cursors, next : Cursors]
        /\ pass' \in [QueryableKind -> [Positions -> 0 .. 2]]
        /\ owed' \in [QueryableKind -> 0 .. MaxEntries]
    <3>1. CASE StartTasks
      BY <3>1, AsleepTypes, PagesAssumption DEF StartTasks, NoCursors, Cursors, Unseen, NoneOwed
    <3>2. CASE ~StartTasks
      BY <1>1, <3>2 DEF Startup, Start, LoadPlugin, FireHook, relaying, TypeOK
    <3> QED
      BY <3>1, <3>2
  <2>3. /\ phase' \in Phase /\ loaded' \subseteq Plugins \ Disabled
        /\ tasks' \in [Tasks -> {"none", "running", "ended"}] /\ factories' \subseteq Tasks
        /\ NoTaskBeforeServing'
    <3>1. CASE Start
      BY <3>1 DEF Start, TypeOK, Phase, NoTaskBeforeServing
    <3>2. ASSUME NEW p \in Plugins, LoadPlugin(p)
          PROVE  /\ phase' \in Phase /\ loaded' \subseteq Plugins \ Disabled
                 /\ tasks' \in [Tasks -> {"none", "running", "ended"}] /\ factories' \subseteq Tasks
                 /\ NoTaskBeforeServing'
      BY <3>2 DEF LoadPlugin, TypeOK, Phase, NoTaskBeforeServing
    <3>3. CASE FireHook
      <4>1. factories' \subseteq Tasks
        BY <3>3, ServerAssumption DEF FireHook, TypeOK
      <4> QED
        BY <3>3, <4>1 DEF FireHook, TypeOK, Phase, NoTaskBeforeServing
    <3>4. CASE StartTasks
      BY <3>4 DEF StartTasks, TypeOK, Phase, NoTaskBeforeServing
    <3> QED
      BY <1>1, <3>1, <3>2, <3>3, <3>4 DEF Startup
  <2> QED
    BY <2>1, <2>2, <2>3 DEF TypeOK
<1>2. CASE StartupFails \/ Crash \/ Stopped
  <2>1. ProcessEnds /\ faults' \in 0 .. MaxFaults
    BY <1>2, ServerAssumption DEF StartupFails, Crash, Stopped, Fault, TypeOK
  <2> QED
    BY <2>1, EndTypes DEF ProcessEnds, StreamsBounded
<1>3. CASE \E f \in Forwarders : Connect(f) \/ CloseConnection(f)
  BY <1>3 DEF Connect, CloseConnection, relaying, TypeOK, StreamsBounded, NoTaskBeforeServing
<1>4. CASE CloseServer \/ CancelTasks \/ \E t \in Tasks : CancelLands(t)
  BY <1>4 DEF CloseServer, CancelTasks, CancelLands, server, relaying, TypeOK, StreamsBounded,
     NoTaskBeforeServing, Phase
<1>5. CASE \E t \in OtherTasks : TaskRaises(t)
  BY <1>5, ServerAssumption DEF TaskRaises, Fault, server, relaying, TypeOK, StreamsBounded,
     NoTaskBeforeServing, Tasks
<1>6. CASE FetchPage
  BY <1>6, FetchTypes DEF ServerInv, FetchPage, server, StreamsBounded, NoTaskBeforeServing
<1>7. CASE PushRelayed
  BY <1>7 DEF PushRelayed, server, TypeOK, StreamsBounded, NoTaskBeforeServing
<1>8. CASE AddRelayed
  BY <1>8, AddTypes DEF AddRelayed, server, StreamsBounded, NoTaskBeforeServing
<1>9. CASE PollFails
  <2>1. /\ relay' \in [at : {"sleeping", "ingesting", "listed"}, page : SUBSET Entry,
                       cursors : Cursors, next : Cursors]
        /\ pass' \in [QueryableKind -> [Positions -> 0 .. 2]]
        /\ owed' \in [QueryableKind -> 0 .. MaxEntries]
    <3>1. relay.cursors \in Cursors
      BY DEF TypeOK
    <3>2. /\ pass' \in [QueryableKind -> [Positions -> 0 .. 2]]
          /\ owed' \in [QueryableKind -> 0 .. MaxEntries]
      BY <1>9, PagesAssumption DEF PollFails, TypeOK
    <3> QED
      BY <1>9, <3>1, <3>2, AsleepTypes DEF PollFails
  <2>2. faults' \in 0 .. MaxFaults
    BY <1>9, ServerAssumption DEF PollFails, Fault, TypeOK
  <2> QED
    BY <1>9, <2>1, <2>2 DEF PollFails, server, TypeOK, StreamsBounded, NoTaskBeforeServing
<1>10. ASSUME NEW k \in QueryableKind, NEW ts \in 0 .. MaxNow, SourceAdds(k, ts)
       PROVE  TypeOK' /\ StreamsBounded' /\ NoTaskBeforeServing'
  <2>1. source' \in [QueryableKind -> Seq(Line)] /\ StreamsBounded'
    BY <1>10, SourceGrows
  <2> QED
    BY <1>10, <2>1 DEF SourceAdds, server, relaying, TypeOK, NoTaskBeforeServing
<1>11. CASE Tick
  BY <1>11, ServerAssumption DEF Tick, server, relaying, TypeOK, StreamsBounded,
     NoTaskBeforeServing
<1>12. CASE UNCHANGED vars
  BY <1>12 DEF vars, TypeOK, StreamsBounded, NoTaskBeforeServing
<1> QED
  BY <1>1, <1>2, <1>3, <1>4, <1>5, <1>6, <1>7, <1>8, <1>9, <1>10, <1>11, <1>12
     DEF Next, Shutdown, RelaySteps

LEMMA ServerInvariance == Spec => []ServerInv
BY ServerInvInit, ServerInvNext, PTL DEF Spec

\* The variables have their types; above all a poll's answer is made of records the
\* polled sump has, and the cursors it comes with name records.
THEOREM TypeCorrect == Spec => []TypeOK
<1>1. ServerInv => TypeOK
  BY DEF ServerInv
<1> QED
  BY <1>1, ServerInvariance, PTL

-----------------------------------------------------------------------------
(* The relay's task                                                        *)

RelayKept == (tasks[Relay] = "running" /\ tasks'[Relay] # "running")
               => phase = "cancelling" \/ phase' = "down"

\* Once started, the relay ends only by a cancellation of the shutdown or with the
\* process: no failing poll and no other plugin's task ends it.
THEOREM RelayOutlivesFailures == Spec => RelayRunsUntilShutdown
<1>1. ServerInv /\ [Next]_vars => [RelayKept]_vars
  <2> SUFFICES ASSUME ServerInv, Next, tasks[Relay] = "running", tasks'[Relay] # "running",
                      phase # "cancelling", phase' # "down"
               PROVE  FALSE
    BY DEF RelayKept
  <2>1. /\ tasks \in [Tasks -> {"none", "running", "ended"}] /\ Relay \in Tasks
        /\ phase \in {"serving", "closing", "cancelling"}
    BY DEF ServerInv, TypeOK, NoTaskBeforeServing, Tasks
  <2>2. ~Startup
    BY <2>1 DEF Startup, Start, LoadPlugin, FireHook, StartTasks
  <2>3. ~StartupFails /\ ~Crash /\ ~Stopped
    BY DEF StartupFails, Crash, Stopped, ProcessEnds
  <2>4. ASSUME NEW t \in OtherTasks, TaskRaises(t)  PROVE  FALSE
    BY <2>1, <2>4, ServerAssumption DEF TaskRaises, Tasks
  <2>5. ~\E t \in Tasks : CancelLands(t)
    BY DEF CancelLands
  <2>6. tasks' # tasks
    OBVIOUS
  <2>7. CASE \E f \in Forwarders : Connect(f) \/ CloseConnection(f)
    BY <2>6, <2>7 DEF Connect, CloseConnection
  <2>8. CASE CloseServer \/ CancelTasks \/ Tick
    BY <2>6, <2>8 DEF CloseServer, CancelTasks, Tick
  <2>9. CASE RelaySteps \/ PollFails
    BY <2>6, <2>9 DEF RelaySteps, FetchPage, PushRelayed, AddRelayed, PollFails
  <2>10. CASE \E k \in QueryableKind, ts \in 0 .. MaxNow : SourceAdds(k, ts)
    BY <2>6, <2>10 DEF SourceAdds
  <2> QED
    BY <2>2, <2>3, <2>4, <2>5, <2>7, <2>8, <2>9, <2>10 DEF Next, Shutdown
<1>2. [RelayKept]_vars => [(tasks[Relay] = "running" /\ tasks'[Relay] # "running")
                             => phase = "cancelling" \/ phase' = "down"]_vars
  BY DEF RelayKept
<1> QED
  BY <1>1, <1>2, ServerInvariance, PTL DEF Spec, RelayRunsUntilShutdown

-----------------------------------------------------------------------------
(***************************************************************************)
(* One listing.  The counts alone are not inductive: one invariant, for    *)
(* no record twice, and a second, for none skipped, tie them to the        *)
(* cursors and to what is left of the page.                                *)
(***************************************************************************)

\* An entry is at or before another in the order of its kind's listing.
AtOrBefore(k, i, j) == i = j \/ (i \in Dated(source[k]) /\ Precedes(source[k], i, j))

\* What was ingested of a kind in this listing is at or before the place c.
Served(k, c) == \A i \in Positions : pass[k][i] > 0 => AtOrBefore(k, i, c)

CursorsDated == \A k \in QueryableKind :
    /\ relay.cursors[k] # Null => relay.cursors[k] \in Dated(source[k])
    /\ relay.next[k] # Null => relay.next[k] \in Dated(source[k])

ServedUpToCursor == relay.at = "sleeping" =>
    \A k \in QueryableKind : relay.cursors[k] # Null => Served(k, relay.cursors[k])

ServedUpToNext == relay.at # "sleeping" =>
    \A k \in QueryableKind : relay.next[k] # Null => Served(k, relay.next[k])

\* What is left of a page was not ingested in this listing, and the place the next
\* page begins after is not before it.
PageUnserved == relay.at # "sleeping" =>
    \A e \in relay.page :
        /\ e[2] \in Dated(source[e[1]])
        /\ pass[e[1]][e[2]] = 0
        /\ relay.next[e[1]] # Null => AtOrBefore(e[1], e[2], relay.next[e[1]])

NoneTwice == \A k \in QueryableKind : \A i \in Positions : pass[k][i] <= 1

ListingInv ==
    CursorsDated /\ ServedUpToCursor /\ ServedUpToNext /\ PageUnserved /\ NoneTwice

-----------------------------------------------------------------------------
(* No record twice                                                         *)

LEMMA DatedAll ==
    ASSUME ServerInv, NEW k \in QueryableKind
    PROVE  Dated(source[k]) = DOMAIN source[k]
BY PagesAssumption, ServerAssumption DEF ServerInv, SourceDated, TypeOK, Dated

\* A poll's page lies behind all that was ingested of its kind in this listing, and at
\* or before the place to go on from.
LEMMA PollServes ==
    ASSUME ServerInv, ListingInv, relay.at = "sleeping", NEW k \in QueryableKind
    PROVE  /\ \A i \in Page(source[k], PollQuery(k), relay.cursors[k]) :
                /\ i \in Dated(source[k]) /\ i \in Positions
                /\ relay.cursors[k] # Null => ~(pass[k][i] > 0)
                /\ NextCursors[k] # Null => AtOrBefore(k, i, NextCursors[k])
           /\ NextCursors[k] # Null =>
                /\ NextCursors[k] \in Page(source[k], PollQuery(k), relay.cursors[k])
                /\ relay.cursors[k] # Null => Served(k, NextCursors[k])
<1> DEFINE str == source[k]
           q == PollQuery(k)
           cur == relay.cursors[k]
           page == Page(str, q, cur)
           last == NextCursors[k]
<1>1. str \in Stream
  BY StreamTypes DEF ServerInv
<1>2. cur # Null => /\ cur \in Dated(str)
                    /\ \A i \in Positions : pass[k][i] > 0 =>
                         i = cur \/ (i \in Dated(str) /\ Precedes(str, i, cur))
  BY DEF ListingInv, CursorsDated, ServedUpToCursor, Served, AtOrBefore
<1>3. last = NextCursor(str, q, cur)
  BY DEF NextCursors
<1>4. /\ page \subseteq Dated(str) /\ page \subseteq Positions
      /\ cur # Null => \A i \in page : Precedes(str, cur, i)
  <2> HIDE DEF str, q, cur
  <2> QED
    BY <1>1, PageWithin
<1>5. last # Null => last \in page /\ \A i \in page : i = last \/ Precedes(str, i, last)
  <2> HIDE DEF str, q, cur, last
  <2> QED
    BY <1>1, <1>3, PageSplits
<1>6. ASSUME NEW i \in page, cur # Null  PROVE  ~(pass[k][i] > 0)
  <2> HIDE DEF str, q, cur, page
  <2>1. cur \in Dated(str) /\ i \in Dated(str) /\ Precedes(str, cur, i) /\ i \in Positions
    BY <1>2, <1>4, <1>6
  <2>2. ~Precedes(str, i, i) /\ ~Precedes(str, i, cur)
    BY <1>1, <2>1, PrecedesOrder
  <2> QED
    BY <1>2, <1>6, <2>1, <2>2
<1>7. ASSUME last # Null, cur # Null, NEW i \in Positions, pass[k][i] > 0
      PROVE  i = last \/ (i \in Dated(str) /\ Precedes(str, i, last))
  <2> HIDE DEF str, q, cur, page, last
  <2>1. last \in Dated(str) /\ cur \in Dated(str) /\ Precedes(str, cur, last)
    BY <1>2, <1>4, <1>5, <1>7
  <2>2. CASE i = cur
    BY <2>1, <2>2
  <2>3. CASE i \in Dated(str) /\ Precedes(str, i, cur)
    BY <1>1, <2>1, <2>3, PrecedesOrder
  <2> QED
    BY <1>2, <1>7, <2>2, <2>3
<1> QED
  BY <1>4, <1>5, <1>6, <1>7 DEF AtOrBefore, Served

\* With no cursor and nothing counted, or with the cursors a poll had and only what
\* they have passed counted, a listing is as one that has just begun.
LEMMA BeginsAnew ==
    ASSUME ServerInv, ListingInv, NEW c, c = NoCursors \/ c = relay.cursors, source' = source,
           relay' = Asleep(c),
           \A k \in QueryableKind : \A i \in Positions :
             pass'[k][i] = 0 \/ (/\ pass'[k][i] = pass[k][i]
                                /\ (c[k] # Null => AtOrBefore(k, i, c[k])))
    PROVE  ListingInv'
<1>1. /\ relay'.at = "sleeping" /\ relay'.cursors = c /\ relay'.next = c
  BY DEF Asleep
<1>2. \A k \in QueryableKind : c[k] # Null => c[k] \in Dated(source[k])
  BY DEF ListingInv, CursorsDated, NoCursors
<1>3. CursorsDated'
  BY <1>1, <1>2 DEF CursorsDated
<1>4. ServedUpToCursor'
  BY <1>1 DEF ServedUpToCursor, Served, AtOrBefore
<1>5. ServedUpToNext' /\ PageUnserved'
  BY <1>1 DEF ServedUpToNext, PageUnserved
<1>6. NoneTwice'
  BY DEF NoneTwice, ListingInv
<1> QED
  BY <1>3, <1>4, <1>5, <1>6 DEF ListingInv

LEMMA FailsBehind == ServerInv /\ ListingInv /\ PollFails => ListingInv'
<1> SUFFICES ASSUME ServerInv, ListingInv, PollFails  PROVE  ListingInv'
  OBVIOUS
<1>1. source' = source /\ relay' = Asleep(relay.cursors)
  BY DEF PollFails
<1>2. ASSUME NEW k \in QueryableKind, NEW i \in Positions
      PROVE  pass'[k][i] = 0 \/ (/\ pass'[k][i] = pass[k][i]
                                /\ (relay.cursors[k] # Null
                                      => AtOrBefore(k, i, relay.cursors[k])))
  <2>1. \/ pass'[k][i] = 0
        \/ /\ pass'[k][i] = pass[k][i]
           /\ relay.cursors[k] # Null /\ i \in Passed(k, relay.cursors[k])
    BY DEF PollFails
  <2>2. \A h \in DOMAIN source[k] : h \in Dated(source[k])
    BY DatedAll
  <2>3. i \in Passed(k, relay.cursors[k]) /\ relay.cursors[k] # Null
          => AtOrBefore(k, i, relay.cursors[k])
    BY <2>2 DEF Passed, AtOrBefore
  <2> QED
    BY <2>1, <2>3
<1> QED
  BY <1>1, <1>2, BeginsAnew

LEMMA FetchBehind == ServerInv /\ ListingInv /\ FetchPage => ListingInv'
<1> SUFFICES ASSUME ServerInv, ListingInv, FetchPage  PROVE  ListingInv'
  OBVIOUS
<1> DEFINE page == PageOfBoth
           next == NextCursors
<1>1. /\ relay.at = "sleeping" /\ source' = source
      /\ relay' = IF page = {} THEN Asleep(next)
                  ELSE [relay EXCEPT !.at = "ingesting", !.page = page, !.next = next]
  BY DEF FetchPage
<1>2. \A k \in QueryableKind : \A i \in Positions :
        /\ pass'[k][i] = IF relay.cursors[k] = Null THEN 0 ELSE pass[k][i]
        /\ pass[k][i] \in 0 .. 2
  BY DEF FetchPage, Unseen, ServerInv, TypeOK
<1>3. \A e \in page : /\ e[1] \in QueryableKind /\ e[2] \in Positions
                      /\ e[2] \in Page(source[e[1]], PollQuery(e[1]), relay.cursors[e[1]])
  BY DEF PageOfBoth, Entry
<1>4. ASSUME NEW k \in QueryableKind, NEW i \in Page(source[k], PollQuery(k), relay.cursors[k])
      PROVE  /\ <<k, i>> \in page
             /\ i \in Dated(source[k]) /\ i \in Positions
             /\ pass'[k][i] = 0
             /\ next[k] # Null => AtOrBefore(k, i, next[k])
  <2>1. /\ i \in Dated(source[k]) /\ i \in Positions
        /\ relay.cursors[k] # Null => ~(pass[k][i] > 0)
        /\ next[k] # Null => AtOrBefore(k, i, next[k])
    BY <1>1, PollServes
  <2>2. <<k, i>> \in page
    BY <2>1 DEF PageOfBoth, Entry
  <2>3. pass'[k][i] = 0
    BY <1>2, <2>1
  <2> QED
    BY <2>1, <2>2, <2>3
<1>5. ASSUME NEW k \in QueryableKind, next[k] # Null
      PROVE  /\ next[k] \in Page(source[k], PollQuery(k), relay.cursors[k])
             /\ \A i \in Positions : pass'[k][i] > 0 => AtOrBefore(k, i, next[k])
  <2>1. /\ next[k] \in Page(source[k], PollQuery(k), relay.cursors[k])
        /\ relay.cursors[k] # Null => Served(k, next[k])
    BY <1>1, <1>5, PollServes
  <2>2. CASE relay.cursors[k] = Null
    BY <1>2, <2>1, <2>2
  <2>3. CASE relay.cursors[k] # Null
    BY <1>2, <2>1, <2>3 DEF Served
  <2> QED
    BY <2>2, <2>3
<1>6. relay.cursors \in Cursors /\ relay \in [at : {"sleeping", "ingesting", "listed"},
         page : SUBSET Entry, cursors : Cursors, next : Cursors]
  BY DEF ServerInv, TypeOK
<1>7. NoneTwice'
  <2>1. \A k \in QueryableKind : \A i \in Positions : pass[k][i] <= 1
    BY DEF ListingInv, NoneTwice
  <2> QED
    BY <1>2, <2>1 DEF NoneTwice
<1>8. CASE page = {}
  <2>1. \A k \in QueryableKind : next[k] = Null
    BY <1>4, <1>5, <1>8
  <2>2. relay'.at = "sleeping" /\ relay'.cursors = next /\ relay'.next = next
    BY <1>1, <1>8 DEF Asleep
  <2> HIDE DEF next
  <2>3. CursorsDated' /\ ServedUpToCursor'
    BY <2>1, <2>2 DEF CursorsDated, ServedUpToCursor
  <2>4. ServedUpToNext' /\ PageUnserved'
    BY <2>2 DEF ServedUpToNext, PageUnserved
  <2> QED
    BY <1>7, <2>3, <2>4 DEF ListingInv
<1>9. CASE page # {}
  <2> HIDE DEF page, next
  <2>1. /\ relay'.at = "ingesting" /\ relay'.page = page
        /\ relay'.cursors = relay.cursors /\ relay'.next = next
    BY <1>1, <1>6, <1>9
  <2>2. \A k \in QueryableKind : next[k] # Null => next[k] \in Dated(source[k])
    BY <1>4, <1>5
  <2>3. CursorsDated'
    BY <1>1, <2>1, <2>2 DEF ListingInv, CursorsDated
  <2>4. ServedUpToCursor'
    BY <2>1 DEF ServedUpToCursor
  <2>5. ServedUpToNext'
    BY <1>1, <1>5, <2>1 DEF ServedUpToNext, Served, AtOrBefore
  <2>6. PageUnserved'
    <3> SUFFICES ASSUME NEW e \in page
                 PROVE  /\ e[2] \in Dated(source[e[1]])
                        /\ pass'[e[1]][e[2]] = 0
                        /\ next[e[1]] # Null => AtOrBefore(e[1], e[2], next[e[1]])
      BY <1>1, <2>1 DEF PageUnserved, AtOrBefore
    <3> QED
      BY <1>3, <1>4
  <2> QED
    BY <1>7, <2>3, <2>4, <2>5, <2>6 DEF ListingInv
<1> QED
  BY <1>8, <1>9

LEMMA AddBehind == ServerInv /\ ListingInv /\ AddRelayed => ListingInv'
<1> SUFFICES ASSUME ServerInv, ListingInv, AddRelayed  PROVE  ListingInv'
  OBVIOUS
<1>1. PICK e \in relay.page :
        /\ relay' = IF relay.page = {e} THEN Asleep(relay.next)
                    ELSE [relay EXCEPT !.at = "ingesting", !.page = relay.page \ {e}]
        /\ pass' = [pass EXCEPT ![e[1]][e[2]] = IF @ < 2 THEN @ + 1 ELSE @]
  BY DEF AddRelayed
<1>2. /\ relay \in [at : {"sleeping", "ingesting", "listed"}, page : SUBSET Entry,
                    cursors : Cursors, next : Cursors]
      /\ relay.at = "listed" /\ source' = source
      /\ pass \in [QueryableKind -> [Positions -> 0 .. 2]]
  BY DEF AddRelayed, ServerInv, TypeOK
<1>3. e[1] \in QueryableKind /\ e[2] \in Positions /\ \A d \in relay.page : d \in Entry
  BY <1>2 DEF Entry
<1>4. \A d \in relay.page :
        /\ d[2] \in Dated(source[d[1]])
        /\ pass[d[1]][d[2]] = 0
        /\ relay.next[d[1]] # Null => AtOrBefore(d[1], d[2], relay.next[d[1]])
  BY <1>2 DEF ListingInv, PageUnserved
<1>5. \A k \in QueryableKind : \A i \in Positions :
        pass'[k][i] = IF k = e[1] /\ i = e[2] THEN 1 ELSE pass[k][i]
  <2> DEFINE n == pass[e[1]][e[2]]
             m == IF n < 2 THEN n + 1 ELSE n
  <2>1. m = 1
    BY <1>4
  <2>2. pass' = [pass EXCEPT ![e[1]][e[2]] = m]
    BY <1>1
  <2> HIDE DEF m, n
  <2> QED
    BY <1>2, <1>3, <2>1, <2>2
<1>6. NoneTwice'
  <2>1. \A k \in QueryableKind : \A i \in Positions : pass[k][i] <= 1
    BY DEF ListingInv, NoneTwice
  <2> QED
    BY <1>5, <2>1 DEF NoneTwice
<1>7. ASSUME NEW k \in QueryableKind, relay.next[k] # Null, NEW i \in Positions,
             pass'[k][i] > 0
      PROVE  AtOrBefore(k, i, relay.next[k])
  <2>1. Served(k, relay.next[k])
    BY <1>2, <1>7 DEF ListingInv, ServedUpToNext
  <2>2. CASE k = e[1] /\ i = e[2]
    BY <1>4, <1>7, <2>2
  <2>3. CASE ~(k = e[1] /\ i = e[2])
    BY <1>5, <1>7, <2>1, <2>3 DEF Served
  <2> QED
    BY <2>2, <2>3
<1>8. CASE relay.page = {e}
  <2>1. relay'.at = "sleeping" /\ relay'.cursors = relay.next /\ relay'.next = relay.next
    BY <1>1, <1>8 DEF Asleep
  <2>2. CursorsDated'
    BY <1>2, <2>1 DEF ListingInv, CursorsDated
  <2>3. ServedUpToCursor'
    BY <1>2, <1>7, <2>1 DEF ServedUpToCursor, Served, AtOrBefore
  <2>4. ServedUpToNext' /\ PageUnserved'
    BY <2>1 DEF ServedUpToNext, PageUnserved
  <2> QED
    BY <1>6, <2>2, <2>3, <2>4 DEF ListingInv
<1>9. CASE relay.page # {e}
  <2>1. /\ relay'.at = "ingesting" /\ relay'.page = relay.page \ {e}
        /\ relay'.cursors = relay.cursors /\ relay'.next = relay.next
    BY <1>1, <1>2, <1>9
  <2>2. CursorsDated'
    BY <1>2, <2>1 DEF ListingInv, CursorsDated
  <2>3. ServedUpToCursor'
    BY <2>1 DEF ServedUpToCursor
  <2>4. ServedUpToNext'
    BY <1>2, <1>7, <2>1 DEF ServedUpToNext, Served, AtOrBefore
  <2>5. PageUnserved'
    <3> SUFFICES ASSUME NEW d \in relay.page, d # e
                 PROVE  /\ d[2] \in Dated(source[d[1]])
                        /\ pass'[d[1]][d[2]] = 0
                        /\ relay.next[d[1]] # Null => AtOrBefore(d[1], d[2], relay.next[d[1]])
      BY <1>2, <2>1 DEF PageUnserved, AtOrBefore
    <3>1. /\ d[1] \in QueryableKind /\ d[2] \in Positions
          /\ ~(d[1] = e[1] /\ d[2] = e[2])
      BY <1>3 DEF Entry
    <3> QED
      BY <1>4, <1>5, <3>1
  <2> QED
    BY <1>6, <2>2, <2>3, <2>4, <2>5 DEF ListingInv
<1> QED
  BY <1>8, <1>9

\* A record that arrives in the polled sump moves nothing that is there.
LEMMA ArrivalBehind ==
    ASSUME ServerInv, ListingInv, NEW k \in QueryableKind, NEW ts, SourceAdds(k, ts)
    PROVE  ListingInv'
<1>1. PICK c \in Containers :
        source' = [source EXCEPT ![k] =
                     Append(source[k], [kind |-> k, ts |-> ts, container |-> c])]
  BY SourceGrows DEF ServerInv
<1> DEFINE line == [kind |-> k, ts |-> ts, container |-> c]
<1>2. \A j \in QueryableKind :
        source'[j] = IF j = k THEN Append(source[k], line) ELSE source[j]
  BY <1>1 DEF ServerInv, TypeOK
<1>3. UNCHANGED <<relay, pass>>
  BY DEF SourceAdds, relaying
<1> HIDE DEF line
<1>4. ASSUME NEW j \in QueryableKind, NEW i \in Dated(source[j])
      PROVE  /\ i \in Dated(source'[j])
             /\ \A h \in Dated(source[j]) :
                  Precedes(source'[j], i, h) <=> Precedes(source[j], i, h)
  <2>1. CASE j # k
    BY <1>2, <2>1
  <2>2. CASE j = k
    <3> DEFINE str == source[k]
               longer == Append(str, line)
    <3>1. str \in Stream /\ i \in DOMAIN str /\ str[i].ts # Null
      BY <2>2, StreamTypes DEF ServerInv, Dated
    <3>2. source'[j] = longer /\ source[j] = str
      BY <1>2, <2>2
    <3> HIDE DEF str
    <3>3. /\ i \in DOMAIN longer /\ longer[i] = str[i]
          /\ \A h \in DOMAIN str : Precedes(longer, i, h) <=> Precedes(str, i, h)
      BY <3>1, ArrivalKeeps
    <3> HIDE DEF longer
    <3> QED
      BY <3>1, <3>2, <3>3 DEF Dated
  <2> QED
    BY <2>1, <2>2
<1>5. \A j \in QueryableKind : \A h \in Dated(source[j]) : \A i \in Positions :
        AtOrBefore(j, i, h) =>
          i = h \/ (i \in Dated(source'[j]) /\ Precedes(source'[j], i, h))
  BY <1>4 DEF AtOrBefore
<1>6. \A j \in QueryableKind :
        /\ relay.cursors[j] # Null => relay.cursors[j] \in Dated(source[j])
        /\ relay.next[j] # Null => relay.next[j] \in Dated(source[j])
  BY DEF ListingInv, CursorsDated
<1>7. CursorsDated'
  BY <1>3, <1>4, <1>6 DEF CursorsDated
<1>8. ServedUpToCursor'
  BY <1>3, <1>5, <1>6 DEF ListingInv, ServedUpToCursor, Served, AtOrBefore
<1>9. ServedUpToNext'
  BY <1>3, <1>5, <1>6 DEF ListingInv, ServedUpToNext, Served, AtOrBefore
<1>10. PageUnserved'
  <2> SUFFICES ASSUME relay.at # "sleeping", NEW e \in relay.page
               PROVE  /\ e[2] \in Dated(source'[e[1]])
                      /\ pass[e[1]][e[2]] = 0
                      /\ relay.next[e[1]] # Null =>
                           \/ e[2] = relay.next[e[1]]
                           \/ /\ e[2] \in Dated(source'[e[1]])
                              /\ Precedes(source'[e[1]], e[2], relay.next[e[1]])
    BY <1>3 DEF PageUnserved, AtOrBefore
  <2>1. e[1] \in QueryableKind /\ e[2] \in Positions
    BY DEF ServerInv, TypeOK, Entry
  <2>2. /\ e[2] \in Dated(source[e[1]])
        /\ pass[e[1]][e[2]] = 0
        /\ relay.next[e[1]] # Null => AtOrBefore(e[1], e[2], relay.next[e[1]])
    BY DEF ListingInv, PageUnserved
  <2> QED
    BY <1>4, <1>5, <1>6, <2>1, <2>2
<1>11. NoneTwice'
  BY <1>3 DEF ListingInv, NoneTwice
<1> QED
  BY <1>7, <1>8, <1>9, <1>10, <1>11 DEF ListingInv

LEMMA ListingInvInit == Init => ListingInv
<1> SUFFICES ASSUME Init  PROVE  ListingInv
  OBVIOUS
<1>1. /\ relay.at = "sleeping" /\ relay.cursors = NoCursors /\ relay.next = NoCursors
      /\ \A k \in QueryableKind : \A i \in Positions : pass[k][i] = 0
  BY DEF Init, Asleep, Unseen
<1> QED
  BY <1>1 DEF ListingInv, CursorsDated, ServedUpToCursor, ServedUpToNext, PageUnserved,
     NoneTwice, NoCursors

LEMMA ListingInvNext == ServerInv /\ ListingInv /\ [Next]_vars => ListingInv'
<1> SUFFICES ASSUME ServerInv, ListingInv, [Next]_vars  PROVE  ListingInv'
  OBVIOUS
<1>1. CASE UNCHANGED <<relay, pass, source>>
  BY <1>1 DEF ListingInv, CursorsDated, ServedUpToCursor, ServedUpToNext, PageUnserved,
     NoneTwice, Served, AtOrBefore
<1>2. CASE ProcessEnds \/ StartTasks
  <2>1. \A k \in QueryableKind : \A i \in Positions : pass'[k][i] = 0
    BY <1>2 DEF ProcessEnds, StartTasks, Unseen
  <2>2. source' = source /\ relay' = Asleep(NoCursors)
    BY <1>2 DEF ProcessEnds, StartTasks
  <2> QED
    BY <2>1, <2>2, BeginsAnew
<1>3. CASE PollFails
  BY <1>3, FailsBehind
<1>4. CASE FetchPage \/ AddRelayed
  BY <1>4, FetchBehind, AddBehind
<1>5. CASE PushRelayed
  <2>1. /\ relay.at = "ingesting" /\ relay'.at = "listed" /\ relay'.page = relay.page
        /\ relay'.cursors = relay.cursors /\ relay'.next = relay.next
        /\ UNCHANGED <<source, pass>>
    BY <1>5 DEF PushRelayed, ServerInv, TypeOK
  <2> QED
    BY <2>1 DEF ListingInv, CursorsDated, ServedUpToCursor, ServedUpToNext, PageUnserved,
       NoneTwice, Served, AtOrBefore
<1>6. CASE \E k \in QueryableKind, ts \in 0 .. MaxNow : SourceAdds(k, ts)
  BY <1>6, ArrivalBehind
<1>7. ProcessEnds \/ StartTasks \/ PollFails \/ FetchPage \/ AddRelayed \/ PushRelayed
      \/ (\E k \in QueryableKind, ts \in 0 .. MaxNow : SourceAdds(k, ts))
      \/ UNCHANGED <<relay, pass, source>>
  BY DEF Next, Startup, Start, LoadPlugin, FireHook, StartupFails, Crash, Connect,
     CloseConnection, CloseServer, Shutdown, CancelTasks, CancelLands, Stopped, TaskRaises,
     RelaySteps, Tick, relaying, vars
<1> QED
  BY <1>1, <1>2, <1>3, <1>4, <1>5, <1>6, <1>7

-----------------------------------------------------------------------------
(* No record skipped                                                       *)

\* What a listing owes of a kind.
Due(k) == {i \in InWindow(k) : i <= owed[k]}

RelayAsleep == relay.at = "sleeping" => relay = Asleep(relay.cursors)

\* A listing owes only what the stream had.
OwesPresent == \A k \in QueryableKind : owed[k] <= Len(source[k])

\* What a poll had passed was ingested.
DueBeforeCursor ==
    \A k \in QueryableKind :
        relay.cursors[k] # Null =>
            \A i \in Due(k) \cap Passed(k, relay.cursors[k]) : pass[k][i] = 1

\* What the next one will have passed was ingested or is in the page.
DueBeforeNext ==
    \A k \in QueryableKind :
        \A i \in Due(k) \cap Passed(k, relay.next[k]) : pass[k][i] = 1 \/ <<k, i>> \in relay.page

SkipInv == RelayAsleep /\ OwesPresent /\ DueBeforeCursor /\ DueBeforeNext

LEMMA SkipInvInit == Init => SkipInv
<1> SUFFICES ASSUME Init  PROVE  SkipInv
  OBVIOUS
<1>1. \A k \in QueryableKind : owed[k] = 0 /\ source[k] = << >>
  BY DEF Init, NoneOwed
<1>2. \A k \in QueryableKind : Due(k) = {} /\ owed[k] <= Len(source[k])
  BY <1>1 DEF Due, InWindow, Matching
<1>3. RelayAsleep
  BY DEF Init, RelayAsleep, Asleep
<1> QED
  BY <1>2, <1>3 DEF SkipInv, OwesPresent, DueBeforeCursor, DueBeforeNext

\* A listing that owes nothing, or as far as a cursor it had, is as one just begun.
LEMMA SkipsNoneAnew ==
    ASSUME ServerInv, SkipInv, NEW c, UNCHANGED <<source, now>>, relay' = Asleep(c),
           \A k \in QueryableKind :
             \/ owed'[k] = 0
             \/ /\ owed'[k] = owed[k] /\ c[k] = relay.cursors[k] /\ c[k] # Null
                /\ \A i \in Passed(k, c[k]) \cap Positions : pass'[k][i] = pass[k][i]
    PROVE  SkipInv'
<1>1. /\ relay'.at = "sleeping" /\ relay'.cursors = c /\ relay'.next = c /\ relay' = Asleep(c)
  BY DEF Asleep
<1>2. ASSUME NEW k \in QueryableKind
      PROVE  /\ source[k] \in Stream /\ Len(source[k]) \in Nat
             /\ \A i \in Due(k)' : i \in Positions /\ i \in 1 .. Len(source[k])
  <2>1. source[k] \in Stream
    BY StreamTypes DEF ServerInv
  <2> QED
    BY <2>1, DatedTypes DEF Due, InWindow, Matching, Stream
<1>3. OwesPresent'
  BY <1>2 DEF SkipInv, OwesPresent
<1>4. ASSUME NEW k \in QueryableKind, NEW i \in (Due(k) \cap Passed(k, relay.next[k]))'
      PROVE  pass'[k][i] = 1
  <2>1. i \in Positions /\ i \in Nat /\ i >= 1 /\ i <= owed'[k]
    BY <1>2, <1>4 DEF Due
  <2>2. /\ owed'[k] = owed[k] /\ c[k] = relay.cursors[k] /\ c[k] # Null
        /\ \A h \in Passed(k, c[k]) \cap Positions : pass'[k][h] = pass[k][h]
    BY <2>1
  <2>3. i \in Due(k) \cap Passed(k, c[k])
    BY <1>1, <1>4, <2>2 DEF Due, InWindow, PollQuery, Passed
  <2> QED
    BY <2>1, <2>2, <2>3 DEF SkipInv, DueBeforeCursor
<1>5. DueBeforeCursor' /\ DueBeforeNext'
  BY <1>1, <1>4 DEF DueBeforeCursor, DueBeforeNext
<1>6. RelayAsleep'
  BY <1>1 DEF RelayAsleep
<1> QED
  BY <1>3, <1>5, <1>6 DEF SkipInv

LEMMA DueWithin ==
    ASSUME ServerInv, NEW k \in QueryableKind
    PROVE  \A i \in Due(k) : i \in Positions /\ i \in DOMAIN source[k]
<1>1. source[k] \in Stream
  BY StreamTypes DEF ServerInv
<1> QED
  BY <1>1, DatedTypes DEF Due, InWindow, Matching, Stream

\* What is owed and not behind the place a poll will go on from is in its page, or
\* was passed before.
LEMMA PollOwes ==
    ASSUME ServerInv, ListingInv, NEW k \in QueryableKind,
           relay.cursors[k] = Null \/ relay.cursors[k] \in InWindow(k),
           NEW i \in InWindow(k) \cap Passed(k, NextCursors[k])
    PROVE  \/ relay.cursors[k] # Null /\ i \in Passed(k, relay.cursors[k])
           \/ <<k, i>> \in PageOfBoth
<1> DEFINE str == source[k]
           q == PollQuery(k)
           cur == relay.cursors[k]
           rest == Remaining(str, q, cur)
           page == Page(str, q, cur)
           last == NextCursors[k]
<1>1. str \in Stream /\ InWindow(k) = Matching(str, q) /\ last = NextCursor(str, q, cur)
  BY StreamTypes DEF ServerInv, InWindow, NextCursors
<1>2. Dated(str) = DOMAIN str
  BY DatedAll
<1>3. /\ page \subseteq rest /\ rest \subseteq Dated(str) /\ Matching(str, q) \subseteq Dated(str)
      /\ Matching(str, q) \subseteq Positions
  <2> HIDE DEF str, q, cur
  <2> QED
    BY <1>1, PageWithin
<1>4. /\ last = Null => page = rest
      /\ last # Null => last \in page /\ \A h \in rest \ page : Precedes(str, last, h)
  <2> HIDE DEF str, q, cur, last
  <2> QED
    BY <1>1, PageSplits
<1>5. i \in Matching(str, q) /\ (last # Null => i = last \/ Precedes(str, i, last))
  BY <1>1 DEF Passed
<1>6. i \in page => <<k, i>> \in PageOfBoth
  BY <1>3, <1>5 DEF PageOfBoth, Entry
<1>7. i \in rest => i \in page
  <2> HIDE DEF str, q, cur, rest, page, last
  <2> SUFFICES ASSUME i \in rest, i \notin page  PROVE  FALSE
    OBVIOUS
  <2>1. last \in page /\ Precedes(str, last, i)
    BY <1>4
  <2>2. last \in Dated(str) /\ i \in Dated(str)
    BY <1>3, <2>1
  <2>3. i # last => Precedes(str, i, last)
    BY <1>3, <1>4, <1>5
  <2>4. last # Null
    BY <1>4
  <2>5. ~Precedes(str, last, last)
    BY <1>1, <2>2, PrecedesOrder
  <2>6. i # last
    BY <2>1, <2>5
  <2>7. Precedes(str, last, last)
    BY <1>1, <2>1, <2>2, <2>3, <2>6, PrecedesOrder
  <2> QED
    BY <2>5, <2>7
<1>8. CASE cur = Null
  <2>1. i \in rest
    BY <1>5, <1>8 DEF Remaining
  <2> QED
    BY <1>6, <1>7, <2>1
<1>9. CASE cur # Null /\ cur \in Matching(str, q)
  <2>1. i = cur \/ Precedes(str, i, cur) \/ Precedes(str, cur, i)
    <3> HIDE DEF str, q, cur
    <3> QED
      BY <1>1, <1>3, <1>5, <1>9, PrecedesOrder
  <2>2. CASE Precedes(str, cur, i)
    <3>1. i \in rest
      BY <1>5, <1>9, <2>2 DEF Remaining
    <3> QED
      BY <1>6, <1>7, <3>1
  <2>3. CASE i = cur \/ Precedes(str, i, cur)
    BY <1>2, <1>3, <1>5, <1>9, <2>3 DEF Passed
  <2> QED
    BY <2>1, <2>2, <2>3
<1> QED
  BY <1>1, <1>8, <1>9

\* No cursor names no record.
LEMMA NullOutside ==
    ASSUME ServerInv, NEW k \in QueryableKind
    PROVE  Null \notin InWindow(k)
<1>1. source[k] \in Stream
  BY StreamTypes DEF ServerInv
<1>2. InWindow(k) \subseteq Nat
  BY <1>1, DatedTypes DEF InWindow, Matching, Stream
<1> QED
  BY <1>2, PagesAssumption

LEMMA FetchSkips == ServerInv /\ ListingInv /\ SkipInv /\ FetchPage => SkipInv'
<1> SUFFICES ASSUME ServerInv, ListingInv, SkipInv, FetchPage  PROVE  SkipInv'
  OBVIOUS
<1> DEFINE page == PageOfBoth
           next == NextCursors
<1>1. /\ relay.at = "sleeping" /\ source' = source /\ now' = now
      /\ relay' = IF page = {} THEN Asleep(next)
                  ELSE [relay EXCEPT !.at = "ingesting", !.page = page, !.next = next]
  BY DEF FetchPage
<1>2. relay \in [at : {"sleeping", "ingesting", "listed"}, page : SUBSET Entry,
                 cursors : Cursors, next : Cursors]
  BY DEF ServerInv, TypeOK
<1>3. ASSUME NEW k \in QueryableKind
      PROVE  /\ \A i \in Positions :
                  pass'[k][i] = IF relay.cursors[k] = Null THEN 0 ELSE pass[k][i]
             /\ relay.cursors[k] = Null => owed'[k] = Len(source[k])
             /\ relay.cursors[k] # Null => \/ owed'[k] = owed[k] /\ relay.cursors[k] \in InWindow(k)
                                          \/ owed'[k] = 0
             /\ next[k] # Null => <<k, next[k]>> \in page
  <2>1. next[k] # Null => next[k] \in Page(source[k], PollQuery(k), relay.cursors[k])
                          /\ next[k] \in Positions
    BY PollTypes DEF ServerInv
  <2>2. next[k] # Null => <<k, next[k]>> \in page
    BY <2>1 DEF PageOfBoth, Entry
  <2> HIDE DEF page, next
  <2>3. \A i \in Positions : pass'[k][i] = IF relay.cursors[k] = Null THEN 0 ELSE pass[k][i]
    BY DEF FetchPage, Unseen
  <2>4. /\ relay.cursors[k] = Null => owed'[k] = Len(source[k])
        /\ relay.cursors[k] # Null => \/ owed'[k] = owed[k] /\ relay.cursors[k] \in InWindow(k)
                                     \/ owed'[k] = 0
    <3> DEFINE there == relay.cursors[k] \in InWindow(k)
    <3>1. owed'[k] = CASE relay.cursors[k] = Null -> Len(source[k])
                       [] there -> owed[k]
                       [] OTHER -> 0
      BY DEF FetchPage
    <3> HIDE DEF there
    <3>2. CASE relay.cursors[k] = Null
      <4>1. ~there
        BY <3>2, NullOutside DEF there
      <4> QED
        BY <3>1, <3>2, <4>1
    <3>3. CASE relay.cursors[k] # Null
      BY <3>1, <3>3 DEF there
    <3> QED
      BY <3>2, <3>3
  <2> QED
    BY <2>2, <2>3, <2>4
<1>4. /\ relay'.page = page /\ relay'.next = next
      /\ relay'.cursors = IF page = {} THEN next ELSE relay.cursors
      /\ relay'.at = "sleeping" => relay' = Asleep(relay'.cursors)
  <2> HIDE DEF page, next
  <2> QED
    BY <1>1, <1>2 DEF Asleep
<1>5. RelayAsleep'
  BY <1>4 DEF RelayAsleep
<1>6. ASSUME NEW k \in QueryableKind
      PROVE  /\ Len(source[k]) \in Nat /\ owed'[k] <= Len(source[k])
             /\ \A i \in InWindow(k) : i \in Positions /\ i \in Nat /\ i >= 1
  <2>1. source[k] \in Stream
    BY StreamTypes DEF ServerInv
  <2>2. \A i \in InWindow(k) : i \in Positions /\ i \in Nat /\ i >= 1
    BY <2>1, DatedTypes DEF InWindow, Matching, Stream
  <2> DEFINE n == Len(source[k])
  <2>3. n \in Nat /\ owed[k] <= n
    BY <2>1 DEF Stream, SkipInv, OwesPresent
  <2>4. owed'[k] \in {n, owed[k], 0}
    BY <1>3
  <2> HIDE DEF n
  <2>5. owed'[k] <= n
    BY <2>3, <2>4
  <2> QED
    BY <2>2, <2>3, <2>5 DEF n
<1>7. OwesPresent'
  BY <1>1, <1>6 DEF OwesPresent
<1> HIDE DEF page, next
<1>8. ASSUME NEW k \in QueryableKind, NEW i \in InWindow(k), i <= owed'[k],
             relay.cursors[k] # Null
      PROVE  owed'[k] = owed[k] /\ relay.cursors[k] \in InWindow(k) /\ i \in Due(k)
  <2>1. owed'[k] # 0
    BY <1>6, <1>8
  <2> QED
    BY <1>3, <1>8, <2>1 DEF Due
<1>9. DueBeforeNext'
  <2> SUFFICES ASSUME NEW k \in QueryableKind, NEW i \in InWindow(k), i <= owed'[k],
                      i \in Passed(k, next[k])
               PROVE  pass'[k][i] = 1 \/ <<k, i>> \in page
    BY <1>1, <1>4 DEF DueBeforeNext, Due, InWindow, PollQuery, Passed
  <2>1. \/ relay.cursors[k] # Null /\ i \in Passed(k, relay.cursors[k])
        \/ <<k, i>> \in page
    BY <1>8, PollOwes DEF page, next
  <2>2. CASE relay.cursors[k] # Null /\ i \in Passed(k, relay.cursors[k])
    <3>1. i \in Due(k) \cap Passed(k, relay.cursors[k])
      BY <1>8, <2>2
    <3>2. pass[k][i] = 1 /\ i \in Positions
      BY <1>6, <2>2, <3>1 DEF SkipInv, DueBeforeCursor
    <3> QED
      BY <1>3, <2>2, <3>2
  <2> QED
    BY <2>1, <2>2
<1>10. DueBeforeCursor'
  <2> SUFFICES ASSUME NEW k \in QueryableKind, NEW i \in InWindow(k), i <= owed'[k],
                      relay'.cursors[k] # Null, i \in Passed(k, relay'.cursors[k])
               PROVE  pass'[k][i] = 1
    BY <1>1 DEF DueBeforeCursor, Due, InWindow, PollQuery, Passed
  <2>1. relay'.cursors = relay.cursors
    BY <1>3, <1>4
  <2>2. i \in Due(k) \cap Passed(k, relay.cursors[k]) /\ relay.cursors[k] # Null
    BY <1>8, <2>1
  <2>3. pass[k][i] = 1 /\ i \in Positions
    BY <1>6, <2>2 DEF SkipInv, DueBeforeCursor
  <2> QED
    BY <1>3, <2>2, <2>3
<1> QED
  BY <1>5, <1>7, <1>9, <1>10 DEF SkipInv

LEMMA AddSkips == ServerInv /\ ListingInv /\ SkipInv /\ AddRelayed => SkipInv'
<1> SUFFICES ASSUME ServerInv, ListingInv, SkipInv, AddRelayed  PROVE  SkipInv'
  OBVIOUS
<1>1. PICK e \in relay.page :
        /\ relay' = IF relay.page = {e} THEN Asleep(relay.next)
                    ELSE [relay EXCEPT !.at = "ingesting", !.page = relay.page \ {e}]
        /\ pass' = [pass EXCEPT ![e[1]][e[2]] = IF @ < 2 THEN @ + 1 ELSE @]
  BY DEF AddRelayed
<1>2. /\ relay \in [at : {"sleeping", "ingesting", "listed"}, page : SUBSET Entry,
                    cursors : Cursors, next : Cursors]
      /\ relay.at = "listed" /\ UNCHANGED <<source, now, owed>>
      /\ pass \in [QueryableKind -> [Positions -> 0 .. 2]]
  BY DEF AddRelayed, ServerInv, TypeOK
<1>3. e[1] \in QueryableKind /\ e[2] \in Positions
  BY <1>2 DEF Entry
<1>4. pass[e[1]][e[2]] = 0
  BY <1>2 DEF ListingInv, PageUnserved
<1>5. \A k \in QueryableKind : \A i \in Positions :
        pass'[k][i] = IF k = e[1] /\ i = e[2] THEN 1 ELSE pass[k][i]
  <2> DEFINE n == pass[e[1]][e[2]]
             m == IF n < 2 THEN n + 1 ELSE n
  <2>1. m = 1
    BY <1>4
  <2>2. pass' = [pass EXCEPT ![e[1]][e[2]] = m]
    BY <1>1
  <2> HIDE DEF m, n
  <2> QED
    BY <1>2, <1>3, <2>1, <2>2
<1>6. /\ relay'.page = relay.page \ {e} /\ relay'.next = relay.next
      /\ relay'.cursors \in {relay.cursors, relay.next}
      /\ relay'.cursors = relay.next => relay'.page = {} \/ relay.cursors = relay.next
      /\ relay'.at = "sleeping" => relay' = Asleep(relay'.cursors)
  BY <1>1, <1>2 DEF Asleep
<1>7. \A k \in QueryableKind : \A i \in Due(k) : i \in Positions
  BY DueWithin
<1>8. ASSUME NEW k \in QueryableKind, NEW i \in Due(k) \cap Passed(k, relay.next[k])
      PROVE  pass'[k][i] = 1 \/ <<k, i>> \in relay'.page
  <2>1. pass[k][i] = 1 \/ <<k, i>> \in relay.page
    BY DEF SkipInv, DueBeforeNext
  <2>2. i \in Positions
    BY <1>7
  <2>3. CASE <<k, i>> = e
    BY <1>5, <2>2, <2>3
  <2>4. CASE <<k, i>> # e
    BY <1>5, <1>6, <2>1, <2>2, <2>4
  <2> QED
    BY <2>3, <2>4
<1>9. ASSUME NEW k \in QueryableKind, relay.cursors[k] # Null,
             NEW i \in Due(k) \cap Passed(k, relay.cursors[k])
      PROVE  pass'[k][i] = 1
  BY <1>5, <1>7, <1>9 DEF SkipInv, DueBeforeCursor
<1>10. DueBeforeNext'
  BY <1>2, <1>6, <1>8 DEF DueBeforeNext, Due, InWindow, PollQuery, Passed
<1>11. DueBeforeCursor'
  <2>1. CASE relay'.cursors = relay.cursors
    BY <1>2, <1>9, <2>1 DEF DueBeforeCursor, Due, InWindow, PollQuery, Passed
  <2>2. CASE relay'.cursors = relay.next /\ relay'.page = {}
    BY <1>2, <1>8, <2>2 DEF DueBeforeCursor, Due, InWindow, PollQuery, Passed
  <2> QED
    BY <1>6, <2>1, <2>2
<1>12. RelayAsleep' /\ OwesPresent'
  BY <1>2, <1>6 DEF SkipInv, RelayAsleep, OwesPresent
<1> QED
  BY <1>10, <1>11, <1>12 DEF SkipInv

\* A record that arrives is none the listing owes, and moves none of those.
LEMMA ArrivalSkips ==
    ASSUME ServerInv, ListingInv, SkipInv, NEW k \in QueryableKind, NEW ts, SourceAdds(k, ts)
    PROVE  SkipInv'
<1>1. PICK c \in Containers :
        source' = [source EXCEPT ![k] =
                     Append(source[k], [kind |-> k, ts |-> ts, container |-> c])]
  BY SourceGrows DEF ServerInv
<1> DEFINE line == [kind |-> k, ts |-> ts, container |-> c]
<1>2. \A j \in QueryableKind :
        source'[j] = IF j = k THEN Append(source[k], line) ELSE source[j]
  BY <1>1 DEF ServerInv, TypeOK
<1>3. UNCHANGED <<relay, pass, owed, now>>
  BY DEF SourceAdds, relaying
<1> HIDE DEF line
<1>4. ASSUME NEW j \in QueryableKind
      PROVE  /\ Len(source[j]) \in Nat /\ Len(source'[j]) \in Nat
             /\ Len(source[j]) <= Len(source'[j])
             /\ DOMAIN source[j] = 1 .. Len(source[j]) /\ DOMAIN source'[j] = 1 .. Len(source'[j])
             /\ \A i \in DOMAIN source[j] : \A q :
                  i \in Matching(source'[j], q) <=> i \in Matching(source[j], q)
             /\ \A i, h \in DOMAIN source[j] :
                  Precedes(source'[j], i, h) <=> Precedes(source[j], i, h)
  <2> DEFINE str == source[j]
             longer == Append(str, line)
  <2>1. str \in Stream /\ Len(str) \in Nat /\ DOMAIN str = 1 .. Len(str)
    BY StreamTypes DEF ServerInv, Stream
  <2>2. CASE j # k
    BY <1>2, <2>1, <2>2
  <2>3. CASE j = k
    <3>1. source'[j] = longer
      BY <1>2, <2>3
    <3>2. Len(longer) = Len(str) + 1 /\ DOMAIN longer = 1 .. Len(longer)
      BY <2>1 DEF Stream
    <3> HIDE DEF str
    <3>3. \A i \in DOMAIN str :
            /\ \A h \in DOMAIN str : Precedes(longer, i, h) <=> Precedes(str, i, h)
            /\ \A q : i \in Matching(longer, q) <=> i \in Matching(str, q)
      BY <2>1, ArrivalKeeps
    <3> HIDE DEF longer
    <3> QED
      BY <2>1, <3>1, <3>2, <3>3 DEF str
  <2> QED
    BY <2>2, <2>3
<1>5. OwesPresent'
  <2> SUFFICES ASSUME NEW j \in QueryableKind  PROVE  owed[j] <= Len(source'[j])
    BY <1>3 DEF OwesPresent
  <2>1. owed[j] \in Nat /\ owed[j] <= Len(source[j])
    BY PagesAssumption DEF ServerInv, TypeOK, SkipInv, OwesPresent
  <2> QED
    BY <1>4, <2>1
<1>6. ASSUME NEW j \in QueryableKind, NEW i, i \in Due(j)'
      PROVE  i \in Due(j) /\ i \in DOMAIN source[j]
  <2>1. i \in Matching(source'[j], PollQuery(j)) /\ i <= owed[j]
    BY <1>3, <1>6 DEF Due, InWindow, PollQuery
  <2>2. owed[j] \in Nat /\ owed[j] <= Len(source[j])
    BY PagesAssumption DEF ServerInv, TypeOK, SkipInv, OwesPresent
  <2>3. i \in DOMAIN source'[j]
    BY <2>1 DEF Matching
  <2>4. i \in DOMAIN source[j]
    BY <1>4, <2>1, <2>2, <2>3
  <2> QED
    BY <1>4, <2>1, <2>4 DEF Due, InWindow
<1>7. ASSUME NEW j \in QueryableKind, NEW place \in {relay.cursors[j], relay.next[j]},
             NEW i \in DOMAIN source[j], i \in Passed(j, place)'
      PROVE  i \in Passed(j, place)
  <2>1. place # Null => place \in DOMAIN source[j]
    BY DEF ListingInv, CursorsDated, Dated
  <2>2. place # Null => i = place \/ Precedes(source'[j], i, place)
    BY <1>7 DEF Passed
  <2> QED
    BY <1>4, <2>1, <2>2 DEF Passed
<1>8. DueBeforeCursor'
  <2> SUFFICES ASSUME NEW j \in QueryableKind, relay.cursors[j] # Null,
                      NEW i, i \in Due(j)', i \in Passed(j, relay.cursors[j])'
               PROVE  pass[j][i] = 1
    BY <1>3 DEF DueBeforeCursor
  <2> QED
    BY <1>3, <1>6, <1>7 DEF SkipInv, DueBeforeCursor, Passed
<1>9. DueBeforeNext'
  <2> SUFFICES ASSUME NEW j \in QueryableKind, NEW i, i \in Due(j)', i \in Passed(j, relay.next[j])'
               PROVE  pass[j][i] = 1 \/ <<j, i>> \in relay.page
    BY <1>3 DEF DueBeforeNext
  <2> QED
    BY <1>3, <1>6, <1>7 DEF SkipInv, DueBeforeNext, Passed
<1>10. RelayAsleep'
  BY <1>3 DEF SkipInv, RelayAsleep
<1> QED
  BY <1>5, <1>8, <1>9, <1>10 DEF SkipInv

\* As the clock moves on, records only leave the window.
LEMMA TickSkips == ServerInv /\ SkipInv /\ Tick => SkipInv'
<1> SUFFICES ASSUME ServerInv, SkipInv, Tick  PROVE  SkipInv'
  OBVIOUS
<1>1. now \in Nat /\ now' = now + 1 /\ UNCHANGED <<relay, pass, owed, source>>
  BY ServerAssumption DEF Tick, relaying, ServerInv, TypeOK
<1>2. ASSUME NEW k \in QueryableKind, NEW i, i \in Due(k)'
      PROVE  i \in Due(k)
  <2> DEFINE t == source[k][i].ts
             low(n) == IF n < Window THEN 0 ELSE n - Window
  <2>1. i \in DOMAIN source[k] /\ low(now') <= t /\ PostFilter(source[k][i], PollQuery(k)')
        /\ t # Null /\ i <= owed[k]
    BY <1>1, <1>2 DEF Due, InWindow, Matching, PollQuery
  <2>2. t \in Nat /\ t <= now
    BY <1>1, <2>1 DEF ServerInv, SourceDated
  <2> HIDE DEF t
  <2>3. low(now) <= t
    BY <1>1, <2>1, <2>2, ServerAssumption
  <2> QED
    BY <2>1, <2>2, <2>3 DEF Due, InWindow, Matching, PollQuery, PostFilter, t
<1>3. DueBeforeCursor'
  <2> SUFFICES ASSUME NEW k \in QueryableKind, relay.cursors[k] # Null,
                      NEW i, i \in Due(k)', i \in Passed(k, relay.cursors[k])
               PROVE  pass[k][i] = 1
    BY <1>1 DEF DueBeforeCursor, Passed
  <2> QED
    BY <1>2 DEF SkipInv, DueBeforeCursor
<1>4. DueBeforeNext'
  <2> SUFFICES ASSUME NEW k \in QueryableKind, NEW i, i \in Due(k)', i \in Passed(k, relay.next[k])
               PROVE  pass[k][i] = 1 \/ <<k, i>> \in relay.page
    BY <1>1 DEF DueBeforeNext, Passed
  <2> QED
    BY <1>2 DEF SkipInv, DueBeforeNext
<1> QED
  BY <1>1, <1>3, <1>4 DEF SkipInv, RelayAsleep, OwesPresent

LEMMA SkipInvNext == ServerInv /\ ListingInv /\ SkipInv /\ [Next]_vars => SkipInv'
<1> SUFFICES ASSUME ServerInv, ListingInv, SkipInv, [Next]_vars  PROVE  SkipInv'
  OBVIOUS
<1>1. CASE UNCHANGED <<relay, pass, owed, source, now>>
  BY <1>1 DEF SkipInv, RelayAsleep, OwesPresent, DueBeforeCursor, DueBeforeNext, Due, InWindow,
     PollQuery, Passed
<1>2. CASE ProcessEnds \/ StartTasks
  BY <1>2, SkipsNoneAnew DEF ProcessEnds, StartTasks, NoneOwed
<1>3. CASE PollFails
  <2>1. ASSUME NEW k \in QueryableKind
        PROVE  \/ owed'[k] = 0
               \/ /\ owed'[k] = owed[k] /\ relay.cursors[k] # Null
                  /\ \A i \in Passed(k, relay.cursors[k]) \cap Positions : pass'[k][i] = pass[k][i]
    BY <1>3 DEF PollFails
  <2> QED
    BY <1>3, <2>1, SkipsNoneAnew DEF PollFails
<1>4. CASE FetchPage \/ AddRelayed
  BY <1>4, FetchSkips, AddSkips
<1>5. CASE PushRelayed
  <2>1. /\ relay'.at = "listed" /\ relay'.page = relay.page
        /\ relay'.cursors = relay.cursors /\ relay'.next = relay.next
        /\ UNCHANGED <<source, pass, owed, now>>
    BY <1>5 DEF PushRelayed, ServerInv, TypeOK
  <2> QED
    BY <2>1 DEF SkipInv, RelayAsleep, OwesPresent, DueBeforeCursor, DueBeforeNext, Due, InWindow,
       PollQuery, Passed
<1>6. CASE \E k \in QueryableKind, ts \in 0 .. MaxNow : SourceAdds(k, ts)
  BY <1>6, ArrivalSkips
<1>7. CASE Tick
  BY <1>7, TickSkips
<1>8. ProcessEnds \/ StartTasks \/ PollFails \/ FetchPage \/ AddRelayed \/ PushRelayed
      \/ (\E k \in QueryableKind, ts \in 0 .. MaxNow : SourceAdds(k, ts)) \/ Tick
      \/ UNCHANGED <<relay, pass, owed, source, now>>
  BY DEF Next, Startup, Start, LoadPlugin, FireHook, StartupFails, Crash, Connect,
     CloseConnection, CloseServer, Shutdown, CancelTasks, CancelLands, Stopped, TaskRaises,
     RelaySteps, relaying, vars
<1> QED
  BY <1>1, <1>2, <1>3, <1>4, <1>5, <1>6, <1>7, <1>8

\* Within one listing of a kind the relay ingests no record twice and, once it sleeps,
\* has skipped none it has passed that was there when the listing began and is still in
\* its window: however the window moves, late records come in, polls fail, and the two
\* kinds' cursors run apart.
THEOREM OnceEach == Spec => []OncePerListing
<1>1. ListingInv /\ SkipInv => OncePerListing
  <2> SUFFICES ASSUME ListingInv, SkipInv, NEW k \in QueryableKind, relay.at = "sleeping",
                      NEW i \in InWindow(k) \cap Passed(k, relay.cursors[k]), i <= owed[k]
               PROVE  pass[k][i] = 1
    BY DEF OncePerListing, ListingInv, NoneTwice
  <2>1. relay.next = relay.cursors /\ relay.page = {}
    BY DEF SkipInv, RelayAsleep, Asleep
  <2> QED
    BY <2>1 DEF SkipInv, DueBeforeNext, Due
<1> QED
  BY <1>1, ServerInvariance, ListingInvInit, ListingInvNext, SkipInvInit, SkipInvNext, PTL DEF Spec

=============================================================================
