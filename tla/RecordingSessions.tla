-------------------------- MODULE RecordingSessions --------------------------
(***************************************************************************)
(* The live recording sessions of the Electron main process: the rows of   *)
(* the catalog's recording_sessions table, the IPC handlers and event      *)
(* rules that move them, the exports those handlers await, and the         *)
(* recovery that runs when the application boots after a crash.            *)
(*                                                                         *)
(* The main process is one JavaScript event loop.  A handler runs without  *)
(* interruption up to its first await of an export and, once the export    *)
(* has settled, from there to its end; between the two any other handler   *)
(* may run.  So a handler that exports is two actions: the first keeps a   *)
(* private copy of the row it read (calls[c].row), the second writes that  *)
(* copy back, every column of it.                                          *)
(***************************************************************************)
EXTENDS Naturals, Sequences

CONSTANTS
    Sumps,          \* the registered sumps (rows of the sumps table)
    SessionIds,     \* ids a new session may take (randomUUID)
    RecIds,         \* ids a new recording may take (randomUUID)
    Calls,          \* handler invocations that can await an export at a time
    Null,           \* SQL NULL, a missing row, a missing file, no call
    CatalogMayFail, \* whether a statement on the catalog may throw
    Ranges,         \* stretches of time the user may ask to download
    MaxTime,        \* bound: the last instant of the model's clock
    MaxSegments     \* bound: segments of one session

Window == [sump : Sumps, from : Nat, to : Nat]

Segment == [segmentNumber : Nat, startedAt : Nat, stoppedAt : Nat,
            recordingId : RecIds \cup {Null}]

Status == {"recording", "paused", "stopped"}

(***************************************************************************)
(* started_at and created_at are written once, by the same insert and with *)
(* the same instant; createdAt stands for both.  Status "idle" is declared *)
(* by the source and written by none of its code.                          *)
(***************************************************************************)
Row == [sump : Sumps, status : Status, createdAt : Nat,
        stoppedAt : Nat \cup {Null}, active : Nat \cup {Null},
        segments : Seq(Segment), interrupted : BOOLEAN]

Call == [kind : {"pause", "stop", "boot"}, id : SessionIds, row : Row, now : Nat]

ASSUME NullAssumption ==
    /\ Null \notin Nat
    /\ Null \notin RecIds
    /\ Null \notin SessionIds
    /\ Null \notin Window
    /\ Null \notin Row
    /\ Null \notin Call

ASSUME BoundsAssumption ==
    /\ MaxTime \in Nat
    /\ MaxSegments \in Nat \ {0}
    /\ CatalogMayFail \in BOOLEAN

ASSUME RangesAssumption == Ranges \subseteq Nat \X Nat

VARIABLES
    sessions,    \* table recording_sessions: a row or Null for each id
    archive,     \* .recording files: what the file of each id holds, or Null
    recordings,  \* ids with a row in table recordings
    references,  \* ids whose file the default project references
    calls,       \* handler invocations awaiting their export
    app,         \* the main process: "down", "booting" or "running"
    bootQueue,   \* sessions the boot recovery has listed and not yet closed
    clock,       \* the wall clock
    unread       \* history: sessions the recovery has marked interrupted and
                 \* the user has not dismissed since

disk == <<sessions, archive, recordings, references>>
vars == <<sessions, archive, recordings, references, calls, app, bootQueue, clock, unread>>

TypeOK ==
    /\ sessions \in [SessionIds -> Row \cup {Null}]
    /\ archive \in [RecIds -> Window \cup {Null}]
    /\ recordings \subseteq RecIds
    /\ references \subseteq RecIds
    /\ calls \in [Calls -> Call \cup {Null}]
    /\ app \in {"down", "booting", "running"}
    /\ bootQueue \subseteq SessionIds
    /\ clock \in Nat
    /\ unread \subseteq SessionIds

Init ==
    /\ sessions = [s \in SessionIds |-> Null]
    /\ archive = [r \in RecIds |-> Null]
    /\ recordings = {}
    /\ references = {}
    /\ calls = [c \in Calls |-> Null]
    /\ app = "down"
    /\ bootQueue = {}
    /\ clock = 0
    /\ unread = {}

-----------------------------------------------------------------------------
(***************************************************************************)
(* The catalog.                                                            *)
(***************************************************************************)

Has(s) == sessions[s] # Null

Recording(s) == Has(s) /\ sessions[s].status = "recording"

\* Fault: a paused session is not taken for an active one.
ActiveIgnoresPaused(sump) ==
    {s \in SessionIds : Recording(s) /\ sessions[s].sump = sump}

ActiveSessions(sump) ==
    {s \in SessionIds : /\ Has(s)
                        /\ sessions[s].sump = sump
                        /\ sessions[s].status \in {"recording", "paused"}}

\* ORDER BY created_at DESC LIMIT 1: rows of the same millisecond in any order.
IsActiveRecordingSession(s, sump) ==
    /\ s \in ActiveSessions(sump)
    /\ \A t \in ActiveSessions(sump) : sessions[t].createdAt <= sessions[s].createdAt

UpsertRecordingSession(s, row) == sessions' = [sessions EXCEPT ![s] = row]

-----------------------------------------------------------------------------
(***************************************************************************)
(* Closing a segment.                                                      *)
(***************************************************************************)

\* The row's open segment has to be exported before the row can be closed.
MustExport(row) == row.status = "recording" /\ row.active # Null

AppendSegment(row, now, rec) ==
    Append(row.segments,
           [segmentNumber |-> Len(row.segments) + 1, startedAt |-> row.active,
            stoppedAt |-> now, recordingId |-> rec])

\* Faults in closing a row: a status outside the declared ones; the open
\* segment's start not reset; the recovery not marking the session.
ClosedOddStatus(kind, row, now, segments) ==
    [row EXCEPT !.status = IF kind = "boot" THEN "interrupted" ELSE "paused",
                !.active = Null, !.segments = segments]

ClosedKeepsActive(kind, row, now, segments) ==
    [row EXCEPT !.status = IF kind = "stop" THEN "stopped" ELSE "paused",
                !.stoppedAt = IF kind = "stop" THEN now ELSE row.stoppedAt,
                !.segments = segments]

ClosedUnmarked(kind, row, now, segments) ==
    [row EXCEPT !.status = IF kind = "stop" THEN "stopped" ELSE "paused",
                !.stoppedAt = IF kind = "stop" THEN now ELSE row.stoppedAt,
                !.active = Null, !.segments = segments]

\* How each kind of call leaves the row it closes.
Closed(kind, row, now, segments) ==
    [row EXCEPT !.status = IF kind = "stop" THEN "stopped" ELSE "paused",
                !.stoppedAt = IF kind = "stop" THEN now ELSE row.stoppedAt,
                !.active = Null,
                !.segments = segments,
                !.interrupted = IF kind = "boot" THEN TRUE ELSE row.interrupted]

NoteMark(kind, s) == unread' = IF kind = "boot" THEN unread \cup {s} ELSE unread

BeginCall(kind, c, s) ==
    /\ calls[c] = Null
    /\ calls' = [calls EXCEPT ![c] =
                    [kind |-> kind, id |-> s, row |-> sessions[s], now |-> clock]]
    /\ UNCHANGED <<disk, unread>>

\* Fault: the recovery closes the row without exporting its open segment.
CloseRowUnexported(kind, s) ==
    IF MustExport(sessions[s]) /\ kind # "boot"
    THEN \E c \in Calls : BeginCall(kind, c, s)
    ELSE /\ UpsertRecordingSession(s, Closed(kind, sessions[s], clock, sessions[s].segments))
         /\ NoteMark(kind, s)
         /\ UNCHANGED <<archive, recordings, references, calls>>

\* Pause, stop and the boot loop up to their first await or, if there is no
\* open segment to export, to their end.
CloseRow(kind, s) ==
    IF MustExport(sessions[s])
    THEN \E c \in Calls : BeginCall(kind, c, s)
    ELSE /\ UpsertRecordingSession(s, Closed(kind, sessions[s], clock, sessions[s].segments))
         /\ NoteMark(kind, s)
         /\ UNCHANGED <<archive, recordings, references, calls>>

\* Faults in an export: the project references the file before the catalog
\* knows it; the window ends when the download does.
ReferenceFirst(window, n, r) ==
    /\ n > 0 => archive[r] = Null
    /\ archive' = IF n >= 1 THEN [archive EXCEPT ![r] = window] ELSE archive
    /\ references' = IF n >= 2 THEN references \cup {r} ELSE references
    /\ recordings' = IF n = 3 THEN recordings \cup {r} ELSE recordings

WindowToSettle(call) == [sump |-> call.row.sump, from |-> call.row.active, to |-> clock]

(***************************************************************************)
(* What an export leaves behind: the first n of its three writes (the      *)
(* file, the recordings row, the project's reference), which follow the    *)
(* download's last await without another.  n < 3 is an export that threw:  *)
(* 0 at the sump or the network, 1 at the catalog (a foreign key), 2 at    *)
(* the project file.                                                       *)
(***************************************************************************)
DownloadAndRegister(window, n, r) ==
    /\ n > 0 => archive[r] = Null
    /\ archive' = IF n >= 1 THEN [archive EXCEPT ![r] = window] ELSE archive
    /\ recordings' = IF n >= 2 THEN recordings \cup {r} ELSE recordings
    /\ references' = IF n = 3 THEN references \cup {r} ELSE references

ExportWindow(call) == [sump |-> call.row.sump, from |-> call.row.active, to |-> call.now]

EndCall(c) == calls' = [calls EXCEPT ![c] = Null]

-----------------------------------------------------------------------------
(***************************************************************************)
(* The IPC handlers.                                                       *)
(***************************************************************************)

\* An active session is returned as it is; otherwise a row is inserted.
StartRecordingSession(sump) ==
    /\ app = "running"
    /\ ActiveSessions(sump) = {}
    /\ \E s \in SessionIds :
        /\ sessions[s] = Null
        /\ UpsertRecordingSession(s,
            [sump |-> sump, status |-> "recording", createdAt |-> clock, stoppedAt |-> Null,
             active |-> clock, segments |-> <<>>, interrupted |-> FALSE])
    /\ UNCHANGED <<archive, recordings, references, calls, app, bootQueue, clock, unread>>

\* Fault: the pause handler does not look at the status.
PauseWhateverStatus(s) ==
    /\ app = "running"
    /\ Has(s)
    /\ CloseRow("pause", s)
    /\ UNCHANGED <<app, bootQueue, clock>>

PauseRecordingSession(s) ==
    /\ app = "running"
    /\ Recording(s)
    /\ CloseRow("pause", s)
    /\ UNCHANGED <<app, bootQueue, clock>>

\* Fault: the resumed segment starts where the session did.
ResumeFromStart(s) ==
    /\ app = "running"
    /\ Has(s)
    /\ sessions[s].status = "paused"
    /\ Len(sessions[s].segments) < MaxSegments
    /\ UpsertRecordingSession(s,
        [sessions[s] EXCEPT !.status = "recording", !.active = sessions[s].createdAt])
    /\ UNCHANGED <<archive, recordings, references, calls, app, bootQueue, clock, unread>>

ResumeRecordingSession(s) ==
    /\ app = "running"
    /\ Has(s)
    /\ sessions[s].status = "paused"
    /\ Len(sessions[s].segments) < MaxSegments
    /\ UpsertRecordingSession(s,
        [sessions[s] EXCEPT !.status = "recording", !.active = clock])
    /\ UNCHANGED <<archive, recordings, references, calls, app, bootQueue, clock, unread>>

StopRecordingSession(s) ==
    /\ app = "running"
    /\ Has(s)
    /\ sessions[s].status # "stopped"
    /\ CloseRow("stop", s)
    /\ UNCHANGED <<app, bootQueue, clock>>

\* A field update, unlike every other write of a session.
DismissInterruptedSession(s) ==
    /\ app = "running"
    /\ Has(s)
    /\ UpsertRecordingSession(s, [sessions[s] EXCEPT !.interrupted = FALSE])
    /\ unread' = unread \ {s}
    /\ UNCHANGED <<archive, recordings, references, calls, app, bootQueue, clock>>

\* One triggered rule of the sump.  An evaluation runs its rules one after
\* the other and awaits each stop, so it is a sequence of these steps.
EvaluateEventRule(sump) ==
    \/ StartRecordingSession(sump)
    \/ \E s \in SessionIds :
        /\ IsActiveRecordingSession(s, sump)
        /\ StopRecordingSession(s)

\* The second half of a call: the export settles, the segment is appended to
\* the copy of the row, and the copy replaces the row.
SettleExport(c) ==
    /\ calls[c] # Null
    /\ \E n \in 0..3, r \in RecIds :
        /\ DownloadAndRegister(ExportWindow(calls[c]), n, r)
        /\ UpsertRecordingSession(calls[c].id,
            LET call == calls[c]
            IN  Closed(call.kind, call.row, call.now,
                       AppendSegment(call.row, call.now, IF n = 3 THEN r ELSE Null)))
    /\ NoteMark(calls[c].kind, calls[c].id)
    /\ EndCall(c)
    /\ UNCHANGED <<app, bootQueue, clock>>

\* As above, but the last statement throws: a handler rejects, the boot
\* recovery is abandoned and the application starts without the rest of it.
SettleUnsaved(c) ==
    /\ CatalogMayFail
    /\ calls[c] # Null
    /\ \E n \in 0..3, r \in RecIds : DownloadAndRegister(ExportWindow(calls[c]), n, r)
    /\ EndCall(c)
    /\ IF app = "booting"
       THEN app' = "running" /\ bootQueue' = {}
       ELSE UNCHANGED <<app, bootQueue>>
    /\ UNCHANGED <<sessions, clock, unread>>

\* A download the user asks for, of one stretch of time or another, into the same store
\* and the default project.  It keeps nothing over its awaits, so it happens
\* when its bytes have come.
DownloadRecording(sump) ==
    /\ app = "running"
    /\ \E range \in Ranges, n \in 0..3, r \in RecIds :
        DownloadAndRegister([sump |-> sump, from |-> range[1], to |-> range[2]], n, r)
    /\ UNCHANGED <<sessions, calls, app, bootQueue, clock, unread>>

-----------------------------------------------------------------------------
(***************************************************************************)
(* The process: boot, recovery, crash.  The handlers are registered after  *)
(* the recovery has ended, and quitting is no different from a crash.      *)
(***************************************************************************)

Boot ==
    /\ app = "down"
    /\ app' = "booting"
    /\ bootQueue' = {s \in SessionIds : Recording(s)}
    /\ UNCHANGED <<sessions, archive, recordings, references, calls, clock, unread>>

\* One iteration of the recovery's loop: the previous one has ended.
CoerceInterruptedSession(s) ==
    /\ app = "booting"
    /\ s \in bootQueue
    /\ \A c \in Calls : calls[c] = Null
    /\ bootQueue' = bootQueue \ {s}
    /\ CloseRow("boot", s)
    /\ UNCHANGED <<app, clock>>

\* Fault: the recovery is started and not awaited.
RegisterWithoutAwait ==
    /\ app = "booting"
    /\ app' = "running"
    /\ UNCHANGED <<sessions, archive, recordings, references, calls, bootQueue, clock, unread>>

RegisterIpcHandlers ==
    /\ app = "booting"
    /\ bootQueue = {}
    /\ \A c \in Calls : calls[c] = Null
    /\ app' = "running"
    /\ UNCHANGED <<sessions, archive, recordings, references, calls, bootQueue, clock, unread>>

\* The process may die between any two writes of an export.
Crash ==
    /\ app # "down"
    /\ app' = "down"
    /\ bootQueue' = {}
    /\ calls' = [c \in Calls |-> Null]
    /\ \/ UNCHANGED <<archive, recordings, references>>
       \/ \E c \in Calls, n \in 1..3, r \in RecIds :
            /\ calls[c] # Null
            /\ DownloadAndRegister(ExportWindow(calls[c]), n, r)
    /\ UNCHANGED <<sessions, clock, unread>>

Tick ==
    /\ clock < MaxTime
    /\ clock' = clock + 1
    /\ UNCHANGED <<sessions, archive, recordings, references, calls, app, bootQueue, unread>>

Next ==
    \/ \E sump \in Sumps : \/ StartRecordingSession(sump)
                           \/ EvaluateEventRule(sump)
                           \/ DownloadRecording(sump)
    \/ \E s \in SessionIds : \/ PauseRecordingSession(s)
                             \/ ResumeRecordingSession(s)
                             \/ StopRecordingSession(s)
                             \/ DismissInterruptedSession(s)
                             \/ CoerceInterruptedSession(s)
    \/ \E c \in Calls : SettleExport(c) \/ SettleUnsaved(c)
    \/ Boot
    \/ RegisterIpcHandlers
    \/ Crash
    \/ Tick

Spec == Init /\ [][Next]_vars

(***************************************************************************)
(* Users, rules and crashes owe nothing.  The event loop runs what is      *)
(* ready, and an awaited export settles: the sump answers or its           *)
(* connection fails.                                                       *)
(***************************************************************************)
FairSpec ==
    /\ Spec
    /\ \A c \in Calls : WF_vars(SettleExport(c))
    /\ \A s \in SessionIds : WF_vars(CoerceInterruptedSession(s))
    /\ WF_vars(RegisterIpcHandlers)

-----------------------------------------------------------------------------
(***************************************************************************)
(* Properties that hold however the calls overlap.                         *)
(***************************************************************************)

Rows == {s \in SessionIds : Has(s)}

\* The status column and the two instants that depend on it agree in every
\* row, though three handlers write them from private copies: a segment is
\* open exactly in a recording session, and a session has a stop time
\* exactly when it is stopped (a pause that overwrites a stop also takes its
\* stop time back).
Coherent(row) ==
    /\ row.status = "recording" <=> row.active # Null
    /\ row.status = "stopped" <=> row.stoppedAt # Null

RowsCoherent == \A s \in Rows : Coherent(sessions[s])

\* Segments are numbered from 1 and follow one another in time without
\* overlap, from the session's start to the segment now open or the stop,
\* whichever copies of the row were written back in whichever order.
Chained(row, now) ==
    /\ \A i \in 1..Len(row.segments) :
        /\ row.segments[i].segmentNumber = i
        /\ row.createdAt <= row.segments[i].startedAt
        /\ row.segments[i].startedAt <= row.segments[i].stoppedAt
        /\ row.segments[i].stoppedAt <= now
        /\ row.active # Null => row.segments[i].stoppedAt <= row.active
        /\ row.stoppedAt # Null => row.segments[i].stoppedAt <= row.stoppedAt
        /\ \A j \in 1..Len(row.segments) :
            i < j => row.segments[i].stoppedAt <= row.segments[j].startedAt
    /\ row.createdAt <= now
    /\ row.active # Null => row.createdAt <= row.active /\ row.active <= now
    /\ row.stoppedAt # Null => row.createdAt <= row.stoppedAt /\ row.stoppedAt <= now

SegmentsChained == \A s \in Rows : Chained(sessions[s], clock)

\* A segment that names a recording names one the catalog lists, the default
\* project references and whose file holds exactly that segment of that sump.
Backed(seg, sump) ==
    seg.recordingId # Null =>
        /\ seg.recordingId \in recordings
        /\ seg.recordingId \in references
        /\ archive[seg.recordingId] =
            [sump |-> sump, from |-> seg.startedAt, to |-> seg.stoppedAt]

RowBacked(row) == \A i \in 1..Len(row.segments) : Backed(row.segments[i], row.sump)

SegmentsBacked == \A s \in Rows : RowBacked(sessions[s])

\* What the project references the catalog lists, and what the catalog lists
\* is on disk, at every instant a crash could choose: file, row, reference.
ReferencesResolve ==
    /\ references \subseteq recordings
    /\ \A r \in recordings : archive[r] # Null

\* The notice of an interrupted session stands until the user dismisses it: no
\* handler, rule or later recovery that writes its own copy of the row back takes
\* the mark away, whatever ran between its read and its write.  It is the awaited
\* recovery, before any handler is registered, that no copy is older than the mark.
NoticeStands == \A s \in unread : Has(s) /\ sessions[s].interrupted

-----------------------------------------------------------------------------
(***************************************************************************)
(* Properties that need the calls that export to come one at a time        *)
(* (a single element in Calls).                                            *)
(***************************************************************************)

\* Once stopped, a session stays as its stop left it.
StoppedIsFinal ==
    [][\A s \in Rows : sessions[s].status = "stopped" =>
            /\ Has(s)'
            /\ sessions'[s] = [sessions[s] EXCEPT !.interrupted = sessions'[s].interrupted]]_vars

\* The weaker half of it, which the tests state of a pause: a stopped session
\* does not leave the stopped status.
StoppedStaysStopped ==
    [][\A s \in Rows :
        sessions[s].status = "stopped" => Has(s)' /\ sessions'[s].status = "stopped"]_vars

\* A sump has at most one session that is recording or paused, so the
\* controls act on the session that runs.
OneActivePerSump ==
    \A sump \in Sumps : \A s, t \in ActiveSessions(sump) : s = t

\* A stretch of recording, once open, is closed only into a segment of its
\* own behind all the earlier ones: no pause, stop, crash or recovery drops
\* one.
NoCaptureDropped ==
    [][\A s \in Rows :
        /\ sessions[s].active # Null
        /\ sessions'[s].active # sessions[s].active
        => /\ Len(sessions'[s].segments) = Len(sessions[s].segments) + 1
           /\ SubSeq(sessions'[s].segments, 1, Len(sessions[s].segments)) = sessions[s].segments
           /\ sessions'[s].segments[Len(sessions'[s].segments)].startedAt
                = sessions[s].active]_vars

\* With a catalog that does not fail, no session is left in the recording
\* status by the time the handlers are registered: the first window never
\* shows a recording that nothing collects.
BootRecoversAll ==
    [][app = "booting" /\ app' = "running" => \A s \in Rows : sessions[s].status # "recording"]_vars

\* A session that a crash left recording is paused and marked interrupted
\* before the boot is over, unless the process dies again.
InterruptedIsMarked ==
    \A s \in SessionIds :
        (app = "booting" /\ Recording(s)) ~>
            \/ app = "down"
            \/ Has(s) /\ sessions[s].status = "paused" /\ sessions[s].interrupted

\* Seen from outside, a session is a list of stretches of time and every pause,
\* stop and recovery happens at once: the handlers split by an await, their
\* copies of rows, failed exports and crashes implement the plain recorder.
Recorder == INSTANCE SessionRecorder WITH
    recorders <- [s \in SessionIds |->
        IF ~Has(s) THEN [sump |-> Null, stage |-> "none", open |-> Null,
                         stretches |-> << >>]
        ELSE [sump      |-> sessions[s].sump,
              stage     |-> sessions[s].status,
              open      |-> sessions[s].active,
              stretches |-> [i \in 1..Len(sessions[s].segments) |->
                  [from |-> sessions[s].segments[i].startedAt,
                   to   |-> sessions[s].segments[i].stoppedAt,
                   kept |-> sessions[s].segments[i].recordingId # Null]]]]

RecordsLikeARecorder == Recorder!Spec

=============================================================================
