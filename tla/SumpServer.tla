------------------------------ MODULE SumpServer ------------------------------
(***************************************************************************)
(* One sump server process from start to stop: plugins are discovered,     *)
(* their background tasks run beside the ingest server, and a shutdown     *)
(* drains the connections before it cancels the tasks.                     *)
(*                                                                         *)
(* One task is the relay of the logstream plugin, modelled to its awaits:  *)
(* it polls GET /records of another sump (external: an answer is a page of *)
(* each kind, as RecordPages has them) and ingests what it gets.  The      *)
(* others run until they are cancelled or raise.                           *)
(***************************************************************************)
EXTENDS RecordPages

CONSTANTS
    Plugins,      \* installed plugins (entry points of sump.plugins)
    Disabled,     \* those the manager is told not to load
    Relay,        \* the relay's background task
    OtherTasks,   \* background tasks of other plugins
    TasksOf,      \* the tasks each plugin may register
    Forwarders,   \* senders that may hold a connection to the ingest server
    Window,       \* how far back a poll looks (one hour in the code)
    MaxRecords,   \* bound: records of the polled sump
    MaxNow,       \* bound: instants of the clock
    MaxFaults     \* bound: failures of any kind

Tasks == OtherTasks \cup {Relay}

ASSUME ServerAssumption ==
    /\ Disabled \subseteq Plugins
    /\ Relay \notin OtherTasks
    /\ TasksOf \in [Plugins -> SUBSET Tasks]
    /\ Window \in Nat /\ MaxRecords \in Nat /\ MaxFaults \in Nat
    /\ MaxNow \in Nat /\ Window <= MaxNow

VARIABLES
    phase,      \* where the process is in its lifespan
    loaded,     \* loaded_plugin_names
    factories,  \* background_task_factories
    tasks,      \* the state of each asyncio task
    conns,      \* open connections of the ingest server
    relay,      \* the relay's place in its loop, its page and its cursors
    target,     \* the entries it has added to streams of its own sump
    source,     \* the streams of the sump it polls
    now,        \* the clock
    pass,       \* history: times each entry was added since its kind's listing
                \* was begun, what a failed poll has added not counted
    owed,       \* history: how many entries its listing owes, the first ones
    faults      \* failures so far

server == <<phase, loaded, factories, conns>>
relaying == <<relay, target, pass, owed>>
vars == <<phase, loaded, factories, tasks, conns, relay, target, source, now, pass, owed,
          faults>>

\* discover() runs through loading and the hooks, each phase named for the hook
\* fired last; closing waits for the open connections, cancelling for the tasks.
Phase == {"down", "loading", "register_transport", "register_data_source",
          "register_background_task", "serving", "closing", "cancelling"}

Starting == Phase \ {"down", "serving", "closing", "cancelling"}

Entry == QueryableKind \X Positions

Cursors == [QueryableKind -> Positions \cup {Null}]

NoCursors == [k \in QueryableKind |-> Null]

Asleep(cursors) == [at |-> "sleeping", page |-> {}, cursors |-> cursors, next |-> cursors]

Unseen == [k \in QueryableKind |-> [i \in Positions |-> 0]]

NoneOwed == [k \in QueryableKind |-> 0]

TypeOK ==
    /\ phase \in Phase
    /\ loaded \subseteq Plugins \ Disabled
    /\ factories \subseteq Tasks
    /\ tasks \in [Tasks -> {"none", "running", "ended"}]
    /\ conns \subseteq Forwarders
    /\ relay \in [at : {"sleeping", "ingesting", "listed"}, page : SUBSET Entry,
                  cursors : Cursors, next : Cursors]
    /\ target \subseteq Entry
    /\ source \in [QueryableKind -> Seq(Line)]
    /\ now \in 0 .. MaxNow
    /\ pass \in [QueryableKind -> [Positions -> 0 .. 2]]
    /\ owed \in [QueryableKind -> 0 .. MaxEntries]
    /\ faults \in 0 .. MaxFaults

Init ==
    /\ phase = "down"
    /\ loaded = {}
    /\ factories = {}
    /\ tasks = [t \in Tasks |-> "none"]
    /\ conns = {}
    /\ relay = Asleep(NoCursors)
    /\ target = {}
    /\ source = [k \in QueryableKind |-> << >>]
    /\ now = Window
    /\ pass = Unseen
    /\ owed = NoneOwed
    /\ faults = 0

\* A failure uses up one of the bounded number of them.
Fault == faults < MaxFaults /\ faults' = faults + 1

-----------------------------------------------------------------------------
(* Startup: PluginManager.discover, then the ingest server and the tasks.  *)

Start ==
    /\ phase = "down"
    /\ phase' = "loading"
    /\ UNCHANGED <<loaded, factories, tasks, conns, relaying, source, now, faults>>

LoadPlugin(p) ==
    /\ phase = "loading"
    /\ p \notin Disabled \cup loaded
    /\ loaded' = loaded \cup {p}
    /\ UNCHANGED <<phase, factories, tasks, conns, relaying, source, now, faults>>

\* Once all are loaded, one call of each hook in turn, its awaits included.  Transport
\* types and data sources go into tables nothing here reads; a plugin registers
\* no task if its environment does not configure one.
FireHook ==
    /\ \/ /\ phase = "loading"
          /\ loaded = Plugins \ Disabled
          /\ phase' = "register_transport"
          /\ UNCHANGED factories
       \/ /\ phase = "register_transport"
          /\ phase' = "register_data_source"
          /\ UNCHANGED factories
       \/ /\ phase = "register_data_source"
          /\ phase' = "register_background_task"
          /\ factories' \in SUBSET UNION {TasksOf[p] : p \in loaded}
    /\ UNCHANGED <<loaded, tasks, conns, relaying, source, now, faults>>

\* run_ingest_server, then one isolated task per factory.  The relay's cursors
\* are a local of its loop.
StartTasks ==
    /\ phase = "register_background_task"
    /\ phase' = "serving"
    /\ tasks' = [t \in Tasks |-> IF t \in factories THEN "running" ELSE "none"]
    /\ relay' = Asleep(NoCursors)
    /\ pass' = Unseen
    /\ owed' = NoneOwed
    /\ UNCHANGED <<loaded, factories, conns, target, source, now, faults>>

-----------------------------------------------------------------------------
\* The process is gone, and all it kept in memory; supervisord starts it again.
ProcessEnds ==
    /\ phase' = "down"
    /\ loaded' = {}
    /\ factories' = {}
    /\ tasks' = [t \in Tasks |-> "none"]
    /\ conns' = {}
    /\ relay' = Asleep(NoCursors)
    /\ pass' = Unseen
    /\ owed' = NoneOwed
    /\ UNCHANGED <<target, source, now>>

\* A plugin that does not load, a hook that raises, a port that is taken: the
\* exception leaves the lifespan and the process exits.
StartupFails ==
    /\ phase \in Starting
    /\ Fault
    /\ ProcessEnds

Crash ==
    /\ phase \in Phase \ ({"down"} \cup Starting)
    /\ Fault
    /\ ProcessEnds

-----------------------------------------------------------------------------
(* The ingest server's connections                                         *)

Connect(f) ==
    /\ phase = "serving"
    /\ f \notin conns
    /\ conns' = conns \cup {f}
    /\ UNCHANGED <<phase, loaded, factories, tasks, relaying, source, now, faults>>

CloseConnection(f) ==
    /\ f \in conns
    /\ conns' = conns \ {f}
    /\ UNCHANGED <<phase, loaded, factories, tasks, relaying, source, now, faults>>

-----------------------------------------------------------------------------
(* Shutdown: `async with server` ends, then the tasks are cancelled.        *)

CloseServer ==
    /\ phase = "serving"
    /\ phase' = "closing"
    /\ UNCHANGED <<loaded, factories, tasks, conns, relaying, source, now, faults>>

\* wait_closed returns once no connection is open; until then the tasks run on.
CancelTasks ==
    /\ phase = "closing"
    /\ conns = {}
    /\ phase' = "cancelling"
    /\ UNCHANGED <<loaded, factories, tasks, conns, relaying, source, now, faults>>

\* Fault: the relay's handler of failures takes the cancellation for one.
CancelSwallowed(t) ==
    /\ phase = "cancelling"
    /\ tasks[t] = "running"
    /\ tasks' = IF t = Relay THEN tasks ELSE [tasks EXCEPT ![t] = "ended"]
    /\ relay' = IF t = Relay THEN Asleep(relay.cursors) ELSE relay
    /\ UNCHANGED <<server, target, source, now, pass, owed, faults>>

\* A cancellation lands where the task awaits: the relay may be between the
\* two writes of one record.
CancelLands(t) ==
    /\ phase = "cancelling"
    /\ tasks[t] = "running"
    /\ tasks' = [tasks EXCEPT ![t] = "ended"]
    /\ UNCHANGED <<server, relaying, source, now, faults>>

\* Every task was awaited.
Stopped ==
    /\ phase = "cancelling"
    /\ \A t \in Tasks : tasks[t] # "running"
    /\ ProcessEnds
    /\ UNCHANGED faults

-----------------------------------------------------------------------------
(* Background tasks                                                        *)

\* Fault: the tasks are a group, which ends when one of them raises.
TaskEndsGroup(t) ==
    /\ tasks[t] = "running"
    /\ Fault
    /\ tasks' = [u \in Tasks |-> IF tasks[u] = "running" THEN "ended" ELSE tasks[u]]
    /\ UNCHANGED <<server, relaying, source, now>>

\* A task raises; its wrapper catches and logs what it raised.
TaskRaises(t) ==
    /\ tasks[t] = "running"
    /\ Fault
    /\ tasks' = [tasks EXCEPT ![t] = "ended"]
    /\ UNCHANGED <<server, relaying, source, now>>

\* What a poll asks of a kind: neither interval nor limit, so the last hour.
PollQuery(k) == [kind |-> k, from |-> IF now < Window THEN 0 ELSE now - Window,
                 to |-> now, container |-> Null]

InWindow(k) == Matching(source[k], PollQuery(k))

\* What a listing has passed when it is at the cursor: all when it has none.
Passed(k, cursor) ==
    {i \in DOMAIN source[k] : cursor # Null => i = cursor \/ Precedes(source[k], i, cursor)}

\* An answer: the page of each kind.
PageOfBoth ==
    {e \in Entry : e[2] \in Page(source[e[1]], PollQuery(e[1]), relay.cursors[e[1]])}

\* The answer's order: by instant; at the same instant logs first.
Before(a, b) ==
    LET s == source[a[1]][a[2]].ts
        t == source[b[1]][b[2]].ts
    IN  \/ a[1] = b[1] /\ Precedes(source[a[1]], a[2], b[2])
        \/ a[1] # b[1] /\ s < t
        \/ a[1] = "log" /\ b[1] = "metric" /\ s = t

\* Fault: at the end of a listing the relay goes on from the last record it got.
CursorsKept == [k \in QueryableKind |->
    LET page == Page(source[k], PollQuery(k), relay.cursors[k])
    IN  IF page = {} THEN relay.cursors[k] ELSE LastOf(source[k], page)]

NextCursors ==
    [k \in QueryableKind |-> NextCursor(source[k], PollQuery(k), relay.cursors[k])]

FetchPage ==
    /\ tasks[Relay] = "running"
    /\ phase # "cancelling"
    /\ relay.at = "sleeping"
    /\ \A k \in QueryableKind : Readable(source[k])
    /\ LET page == PageOfBoth
           next == NextCursors
       IN  relay' = IF page = {} THEN Asleep(next)
                    ELSE [relay EXCEPT !.at = "ingesting", !.page = page, !.next = next]
    /\ pass' = [k \in QueryableKind |->
         IF relay.cursors[k] = Null THEN Unseen[k] ELSE pass[k]]
    /\ owed' = [k \in QueryableKind |->
         CASE relay.cursors[k] = Null -> Len(source[k])
           [] relay.cursors[k] \in InWindow(k) -> owed[k]
           [] OTHER -> 0]
    /\ UNCHANGED <<server, tasks, target, source, now, faults>>

PushRelayed ==
    /\ tasks[Relay] = "running"
    /\ phase # "cancelling"
    /\ relay.at = "ingesting"
    /\ relay' = [relay EXCEPT !.at = "listed"]
    /\ UNCHANGED <<server, tasks, target, source, now, pass, owed, faults>>

\* The record is added to its stream.  After the last of the page, relay_once
\* returns the cursors the answer came with; a kind whose listing is over has
\* none, and the next poll begins it again.
AddRelayed ==
    /\ tasks[Relay] = "running"
    /\ phase # "cancelling"
    /\ relay.at = "listed"
    /\ \E e \in relay.page :
        /\ \A d \in relay.page \ {e} : Before(e, d)
        /\ target' = target \cup {e}
        /\ relay' = IF relay.page = {e} THEN Asleep(relay.next)
                    ELSE [relay EXCEPT !.at = "ingesting", !.page = @ \ {e}]
        /\ pass' = [pass EXCEPT ![e[1]][e[2]] = IF @ < 2 THEN @ + 1 ELSE @]
    /\ UNCHANGED <<server, tasks, source, now, owed, faults>>

\* The request fails, or ingest does in the middle of a page, perhaps between
\* its two writes: run_relay_loop logs it, sleeps and polls with the cursors it
\* had, so that what was ingested of the page is ingested again.  The counts go
\* back with it.
PollFails ==
    /\ tasks[Relay] = "running"
    /\ phase # "cancelling"
    /\ Fault
    /\ relay' = Asleep(relay.cursors)
    /\ pass' = [k \in QueryableKind |-> [i \in Positions |->
         IF relay.cursors[k] # Null /\ i \in Passed(k, relay.cursors[k])
         THEN pass[k][i] ELSE 0]]
    /\ owed' = [k \in QueryableKind |-> IF relay.cursors[k] = Null THEN 0 ELSE owed[k]]
    /\ UNCHANGED <<server, tasks, target, source, now>>

-----------------------------------------------------------------------------
(* The sump that is polled, and the clock                                  *)

\* A record arrives in time or late, never from the future.
SourceAdds(k, ts) ==
    /\ Len(source[k]) < MaxEntries
    /\ Len(source["log"]) + Len(source["metric"]) < MaxRecords
    /\ ts \in Nat /\ now <= ts + Window /\ ts <= now
    /\ \E c \in Containers :
         source' = [source EXCEPT ![k] = Append(@, [kind |-> k, ts |-> ts, container |-> c])]
    /\ UNCHANGED <<server, tasks, relaying, now, faults>>

Tick ==
    /\ now < MaxNow
    /\ now' = now + 1
    /\ UNCHANGED <<server, tasks, relaying, source, faults>>

RelaySteps == FetchPage \/ PushRelayed \/ AddRelayed

Startup == Start \/ (\E p \in Plugins : LoadPlugin(p)) \/ FireHook \/ StartTasks

Shutdown == CancelTasks \/ (\E t \in Tasks : CancelLands(t)) \/ Stopped

Next ==
    \/ Startup
    \/ StartupFails
    \/ Crash
    \/ \E f \in Forwarders : Connect(f) \/ CloseConnection(f)
    \/ CloseServer
    \/ Shutdown
    \/ \E t \in OtherTasks : TaskRaises(t)
    \/ RelaySteps
    \/ PollFails
    \/ \E k \in QueryableKind, ts \in 0 .. MaxNow : SourceAdds(k, ts)
    \/ Tick

Spec == Init /\ [][Next]_vars

\* The event loop runs what is ready, and a poll is answered.  Nobody is made to
\* connect, to hang up or to shut the server down, and nothing to fail.
FairSpec == Spec /\ WF_vars(Startup) /\ WF_vars(Shutdown) /\ WF_vars(RelaySteps)

-----------------------------------------------------------------------------
(* Properties                                                              *)

\* Within one listing of a kind the relay ingests no record twice and skips none
\* that was there when the listing began and is still in its window, however the
\* window moves, late records come in, polls fail, and the two kinds' cursors run
\* apart: what it ingests twice, it ingests because a listing ended or a poll
\* failed, and what it skips came late or stands behind a lost cursor.
OncePerListing ==
    \A k \in QueryableKind :
        /\ \A i \in Positions : pass[k][i] <= 1
        /\ relay.at = "sleeping" =>
             \A i \in InWindow(k) \cap Passed(k, relay.cursors[k]) :
                 i <= owed[k] => pass[k][i] = 1

\* Once started, the relay ends only by a cancellation of the shutdown or with
\* the process: no failing poll and no other plugin's task ends it
\* (cor-CORE.PLUGIN-002, run_relay_loop).
RelayRunsUntilShutdown ==
    [][(tasks[Relay] = "running" /\ tasks'[Relay] # "running")
         => phase = "cancelling" \/ phase' = "down"]_vars

\* A record that stays in the relay's window while the relay runs reaches the
\* stream it belongs to, although a listing may have passed its place before it
\* arrived and may lose its cursor to the moving window.
EventuallyRelayed ==
    (<>[](phase = "serving" /\ tasks[Relay] = "running")) =>
        []<>(\A k \in QueryableKind : \A i \in InWindow(k) : <<k, i>> \in target)

\* A shutdown ends once the senders have hung up: every task takes its
\* cancellation, wherever it was.
DrainEnds ==
    (<>[](conns = {})) => (phase = "closing" ~> phase = "down")

=============================================================================
