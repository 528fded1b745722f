----------------------- MODULE RecordingSessions_proofs -----------------------
(***************************************************************************)
(* Proofs about RecordingSessions for every value of its constants.        *)
(***************************************************************************)
EXTENDS RecordingSessions, SequenceTheorems, TLAPS

(***************************************************************************)
(* The operators.                                                          *)
(***************************************************************************)

\* Closing a row yields a row, changes only the columns it names, and leaves
\* no segment open.
LEMMA ClosedFields ==
    ASSUME NEW kind \in {"pause", "stop", "boot"}, NEW row \in Row, NEW now \in Nat,
           NEW list \in Seq(Segment)
    PROVE  LET closed == Closed(kind, row, now, list)
           IN  /\ closed \in Row
               /\ closed.sump = row.sump
               /\ closed.createdAt = row.createdAt
               /\ closed.segments = list
               /\ closed.active = Null
               /\ closed.status = IF kind = "stop" THEN "stopped" ELSE "paused"
               /\ closed.stoppedAt = IF kind = "stop" THEN now ELSE row.stoppedAt
BY DEF Closed, Row, Status

\* Appending a segment to a row whose segment is open keeps the others and
\* adds the one that runs from the open instant to now.
LEMMA AppendSegmentFields ==
    ASSUME NEW row \in Row, row.active # Null, NEW now \in Nat,
           NEW rec \in RecIds \cup {Null}
    PROVE  LET segs == AppendSegment(row, now, rec)
               n == Len(row.segments)
           IN  /\ segs \in Seq(Segment)
               /\ Len(segs) = n + 1
               /\ \A i \in 1..n : segs[i] = row.segments[i]
               /\ segs[n + 1] = [segmentNumber |-> n + 1, startedAt |-> row.active,
                                 stoppedAt |-> now, recordingId |-> rec]
<1> DEFINE seg == [segmentNumber |-> Len(row.segments) + 1, startedAt |-> row.active,
                   stoppedAt |-> now, recordingId |-> rec]
<1>1. row.segments \in Seq(Segment) /\ row.active \in Nat
  BY DEF Row
<1>2. seg \in Segment
  BY <1>1 DEF Segment
<1>3. AppendSegment(row, now, rec) = Append(row.segments, seg)
  BY DEF AppendSegment
<1> HIDE DEF seg
<1>4. /\ Append(row.segments, seg) \in Seq(Segment)
      /\ Len(Append(row.segments, seg)) = Len(row.segments) + 1
      /\ \A i \in 1..Len(row.segments) : Append(row.segments, seg)[i] = row.segments[i]
      /\ Append(row.segments, seg)[Len(row.segments) + 1] = seg
  BY <1>1, <1>2
<1> QED
  BY <1>3, <1>4 DEF seg
(***************************************************************************)
(* Type correctness.  TypeOK alone is not inductive: the file of an export *)
(* has a start only because a call awaits an export only for a row whose   *)
(* segment is open.                                                        *)
(***************************************************************************)
CallsExport == \A c \in Calls : calls[c] # Null => MustExport(calls[c].row)

BootListsRows == \A s \in bootQueue : Has(s)

TypeInv == TypeOK /\ CallsExport /\ BootListsRows

\* The window a pending call exports is one.
LEMMA ExportWindowType ==
    ASSUME TypeInv, NEW c \in Calls, calls[c] # Null
    PROVE  /\ calls[c] \in Call
           /\ calls[c].row.active \in Nat
           /\ ExportWindow(calls[c]) \in Window
<1>1. calls[c] \in Call /\ calls[c].row.active # Null
  BY DEF TypeInv, TypeOK, CallsExport, MustExport
<1>2. calls[c].row \in Row /\ calls[c].now \in Nat
  BY <1>1 DEF Call
<1>3. calls[c].row.active \in Nat /\ calls[c].row.sump \in Sumps
  BY <1>1, <1>2 DEF Row
<1> QED
  BY <1>1, <1>2, <1>3 DEF ExportWindow, Window

\* So is the window the user asks to download.
LEMMA DownloadedWindow ==
    ASSUME NEW sump \in Sumps, DownloadRecording(sump)
    PROVE  \E window \in Window, n \in 0..3, r \in RecIds : DownloadAndRegister(window, n, r)
<1>1. PICK range \in Ranges, n \in 0..3, r \in RecIds :
          DownloadAndRegister([sump |-> sump, from |-> range[1], to |-> range[2]], n, r)
  BY DEF DownloadRecording
<1>2. [sump |-> sump, from |-> range[1], to |-> range[2]] \in Window
  BY <1>1, RangesAssumption DEF Window
<1> QED
  BY <1>1, <1>2

\* The writes of an export, however many of them, keep the types.
LEMMA DownloadTypes ==
    ASSUME TypeInv, NEW window \in Window, NEW n \in 0..3, NEW r \in RecIds,
           DownloadAndRegister(window, n, r)
    PROVE  /\ archive' \in [RecIds -> Window \cup {Null}]
           /\ recordings' \subseteq RecIds
           /\ references' \subseteq RecIds
BY DEF TypeInv, TypeOK, DownloadAndRegister

\* So does closing a row, at once or through a call.
LEMMA CloseRowTypes ==
    ASSUME TypeInv, NEW kind \in {"pause", "stop", "boot"}, NEW s \in SessionIds, Has(s),
           CloseRow(kind, s)
    PROVE  /\ sessions' \in [SessionIds -> Row \cup {Null}]
           /\ calls' \in [Calls -> Call \cup {Null}]
           /\ CallsExport'
           /\ \A t \in SessionIds : Has(t) => Has(t)'
           /\ unread' \subseteq SessionIds
           /\ UNCHANGED <<archive, recordings, references>>
<1>1. sessions[s] \in Row /\ clock \in Nat
  BY DEF TypeInv, TypeOK, Has
<1>2. CASE MustExport(sessions[s])
  <2>1. PICK c \in Calls : BeginCall(kind, c, s)
    BY <1>2 DEF CloseRow
  <2> DEFINE call == [kind |-> kind, id |-> s, row |-> sessions[s], now |-> clock]
  <2>2. call \in Call /\ call.row = sessions[s]
    BY <1>1 DEF Call
  <2>3. calls' = [calls EXCEPT ![c] = call] /\ UNCHANGED <<disk, unread>>
    BY <2>1 DEF BeginCall
  <2> HIDE DEF call
  <2>4. calls' \in [Calls -> Call \cup {Null}]
    BY <2>2, <2>3 DEF TypeInv, TypeOK
  <2>5. \A d \in Calls : calls'[d] = IF d = c THEN call ELSE calls[d]
    BY <2>3 DEF TypeInv, TypeOK
  <2>6. CallsExport'
    BY <1>2, <2>2, <2>5 DEF TypeInv, CallsExport, MustExport
  <2> QED
    BY <2>3, <2>4, <2>6 DEF disk, TypeInv, TypeOK, Has
<1>3. CASE ~MustExport(sessions[s])
  <2> DEFINE row == Closed(kind, sessions[s], clock, sessions[s].segments)
  <2>1. sessions[s].segments \in Seq(Segment)
    BY <1>1 DEF Row
  <2>2. row \in Row
    BY <1>1, <2>1, ClosedFields
  <2>3. /\ sessions' = [sessions EXCEPT ![s] = row]
        /\ UNCHANGED <<archive, recordings, references, calls>>
        /\ unread' \subseteq SessionIds
    BY <1>3 DEF CloseRow, UpsertRecordingSession, NoteMark, TypeInv, TypeOK
  <2> HIDE DEF row
  <2> QED
    BY <2>2, <2>3, NullAssumption DEF TypeInv, TypeOK, CallsExport, Has
<1> QED
  BY <1>2, <1>3

\* A settled export writes a row.
LEMMA SettledRow ==
    ASSUME TypeInv, NEW c \in Calls, calls[c] # Null, NEW rec \in RecIds \cup {Null}
    PROVE  LET call == calls[c]
               segs == AppendSegment(call.row, call.now, rec)
           IN  segs \in Seq(Segment) /\ Closed(call.kind, call.row, call.now, segs) \in Row
<1>1. calls[c] \in Call /\ calls[c].row.active \in Nat
  BY ExportWindowType
<1>2. /\ calls[c].row \in Row /\ calls[c].now \in Nat
      /\ calls[c].kind \in {"pause", "stop", "boot"}
  BY <1>1 DEF Call
<1>3. AppendSegment(calls[c].row, calls[c].now, rec) \in Seq(Segment)
  BY <1>1, <1>2, NullAssumption, AppendSegmentFields
<1> QED
  BY <1>2, <1>3, ClosedFields

LEMMA TypeInvInit == Init => TypeInv
BY DEF Init, TypeInv, TypeOK, CallsExport, BootListsRows

LEMMA TypeInvNext == TypeInv /\ [Next]_vars => TypeInv'
<1> SUFFICES ASSUME TypeInv, [Next]_vars PROVE TypeInv'
  OBVIOUS
<1> USE DEF UpsertRecordingSession, Has, EndCall
<1>1. ASSUME NEW sump \in Sumps, StartRecordingSession(sump) PROVE TypeInv'
  <2>1. PICK s \in SessionIds : sessions' = [sessions EXCEPT ![s] =
            [sump |-> sump, status |-> "recording", createdAt |-> clock, stoppedAt |-> Null,
             active |-> clock, segments |-> <<>>, interrupted |-> FALSE]]
    BY <1>1 DEF StartRecordingSession
  <2>2. [sump |-> sump, status |-> "recording", createdAt |-> clock, stoppedAt |-> Null,
         active |-> clock, segments |-> <<>>, interrupted |-> FALSE] \in Row
    BY DEF Row, Status, TypeInv, TypeOK
  <2>3. /\ sessions' \in [SessionIds -> Row \cup {Null}]
        /\ \A t \in SessionIds : sessions[t] # Null => sessions'[t] # Null
    BY <2>1, <2>2, NullAssumption DEF TypeInv, TypeOK
  <2> QED
    BY <1>1, <2>3 DEF StartRecordingSession, TypeInv, TypeOK, CallsExport, BootListsRows
<1>2. ASSUME NEW s \in SessionIds, PauseRecordingSession(s) PROVE TypeInv'
  <2>1. Has(s) /\ CloseRow("pause", s) /\ UNCHANGED <<app, bootQueue, clock>>
    BY <1>2 DEF PauseRecordingSession, Recording
  <2> QED
    BY <2>1, CloseRowTypes DEF TypeInv, TypeOK, BootListsRows
<1>3. ASSUME NEW s \in SessionIds, ResumeRecordingSession(s) PROVE TypeInv'
  <2>1. [sessions[s] EXCEPT !.status = "recording", !.active = clock] \in Row
    BY <1>3 DEF ResumeRecordingSession, TypeInv, TypeOK, Row, Status
  <2>2. /\ sessions' \in [SessionIds -> Row \cup {Null}]
        /\ \A t \in SessionIds : sessions[t] # Null => sessions'[t] # Null
    BY <1>3, <2>1, NullAssumption DEF ResumeRecordingSession, TypeInv, TypeOK
  <2> QED
    BY <1>3, <2>2 DEF ResumeRecordingSession, TypeInv, TypeOK, CallsExport, BootListsRows
<1>4. ASSUME NEW s \in SessionIds, StopRecordingSession(s) PROVE TypeInv'
  <2>1. Has(s) /\ CloseRow("stop", s) /\ UNCHANGED <<app, bootQueue, clock>>
    BY <1>4 DEF StopRecordingSession
  <2> QED
    BY <2>1, CloseRowTypes DEF TypeInv, TypeOK, BootListsRows
<1>5. ASSUME NEW s \in SessionIds, DismissInterruptedSession(s) PROVE TypeInv'
  <2>1. [sessions[s] EXCEPT !.interrupted = FALSE] \in Row
    BY <1>5 DEF DismissInterruptedSession, TypeInv, TypeOK, Row
  <2>2. /\ sessions' \in [SessionIds -> Row \cup {Null}]
        /\ \A t \in SessionIds : sessions[t] # Null => sessions'[t] # Null
    BY <1>5, <2>1, NullAssumption DEF DismissInterruptedSession, TypeInv, TypeOK
  <2> QED
    BY <1>5, <2>2 DEF DismissInterruptedSession, TypeInv, TypeOK, CallsExport, BootListsRows
<1>6. ASSUME NEW sump \in Sumps, EvaluateEventRule(sump) PROVE TypeInv'
  BY <1>1, <1>4, <1>6 DEF EvaluateEventRule
<1>7. ASSUME NEW s \in SessionIds, CoerceInterruptedSession(s) PROVE TypeInv'
  <2>1. /\ Has(s) /\ CloseRow("boot", s)
        /\ bootQueue' = bootQueue \ {s} /\ UNCHANGED <<app, clock>>
    BY <1>7 DEF CoerceInterruptedSession, TypeInv, BootListsRows
  <2> QED
    BY <2>1, CloseRowTypes DEF TypeInv, TypeOK, BootListsRows
<1>8. ASSUME NEW c \in Calls, SettleExport(c) PROVE TypeInv'
  <2>1. PICK n \in 0..3, r \in RecIds :
            /\ DownloadAndRegister(ExportWindow(calls[c]), n, r)
            /\ sessions' = [sessions EXCEPT ![calls[c].id] =
                Closed(calls[c].kind, calls[c].row, calls[c].now,
                       AppendSegment(calls[c].row, calls[c].now, IF n = 3 THEN r ELSE Null))]
    BY <1>8 DEF SettleExport
  <2>2. /\ archive' \in [RecIds -> Window \cup {Null}]
        /\ recordings' \subseteq RecIds
        /\ references' \subseteq RecIds
    BY <1>8, <2>1, ExportWindowType, DownloadTypes DEF SettleExport
  <2>3. /\ sessions' \in [SessionIds -> Row \cup {Null}]
        /\ \A t \in SessionIds : sessions[t] # Null => sessions'[t] # Null
    <3>1. (IF n = 3 THEN r ELSE Null) \in RecIds \cup {Null}
      OBVIOUS
    <3>2. Closed(calls[c].kind, calls[c].row, calls[c].now,
                 AppendSegment(calls[c].row, calls[c].now, IF n = 3 THEN r ELSE Null)) \in Row
      BY <1>8, <3>1, SettledRow DEF SettleExport
    <3> QED
      BY <2>1, <3>2, NullAssumption DEF TypeInv, TypeOK
  <2>4. unread' \subseteq SessionIds
    BY <1>8, ExportWindowType DEF SettleExport, NoteMark, Call, TypeInv, TypeOK
  <2> QED
    BY <1>8, <2>2, <2>3, <2>4 DEF SettleExport, TypeInv, TypeOK, CallsExport, BootListsRows
<1>9. ASSUME NEW c \in Calls, SettleUnsaved(c) PROVE TypeInv'
  <2>1. PICK n \in 0..3, r \in RecIds : DownloadAndRegister(ExportWindow(calls[c]), n, r)
    BY <1>9 DEF SettleUnsaved
  <2>2. /\ archive' \in [RecIds -> Window \cup {Null}]
        /\ recordings' \subseteq RecIds
        /\ references' \subseteq RecIds
    BY <1>9, <2>1, ExportWindowType, DownloadTypes DEF SettleUnsaved
  <2>3. bootQueue' \subseteq SessionIds /\ app' \in {"down", "booting", "running"}
    BY <1>9 DEF SettleUnsaved, TypeInv, TypeOK
  <2> QED
    BY <1>9, <2>2, <2>3 DEF SettleUnsaved, TypeInv, TypeOK, CallsExport, BootListsRows
<1>10. CASE Boot
  BY <1>10 DEF Boot, Recording, TypeInv, TypeOK, CallsExport, BootListsRows
<1>11. CASE RegisterIpcHandlers
  BY <1>11 DEF RegisterIpcHandlers, TypeInv, TypeOK, CallsExport, BootListsRows
<1>12. CASE Crash
  <2>1. /\ archive' \in [RecIds -> Window \cup {Null}]
        /\ recordings' \subseteq RecIds
        /\ references' \subseteq RecIds
    <3>1. CASE UNCHANGED <<archive, recordings, references>>
      BY <3>1 DEF TypeInv, TypeOK
    <3>2. ASSUME NEW c \in Calls, NEW n \in 1..3, NEW r \in RecIds, calls[c] # Null,
                 DownloadAndRegister(ExportWindow(calls[c]), n, r)
          PROVE  /\ archive' \in [RecIds -> Window \cup {Null}]
                 /\ recordings' \subseteq RecIds
                 /\ references' \subseteq RecIds
      BY <3>2, n \in 0..3, ExportWindowType, DownloadTypes
    <3> QED
      BY <1>12, <3>1, <3>2 DEF Crash
  <2> QED
    BY <1>12, <2>1 DEF Crash, TypeInv, TypeOK, CallsExport, BootListsRows
<1>13. CASE Tick
  BY <1>13 DEF Tick, TypeInv, TypeOK, CallsExport, BootListsRows
<1>14. CASE UNCHANGED vars
  BY <1>14 DEF vars, TypeInv, TypeOK, CallsExport, BootListsRows
<1>15. ASSUME NEW sump \in Sumps, DownloadRecording(sump) PROVE TypeInv'
  <2>1. PICK window \in Window, n \in 0..3, r \in RecIds : DownloadAndRegister(window, n, r)
    BY <1>15, DownloadedWindow
  <2>2. /\ archive' \in [RecIds -> Window \cup {Null}]
        /\ recordings' \subseteq RecIds
        /\ references' \subseteq RecIds
    BY <2>1, DownloadTypes
  <2> QED
    BY <1>15, <2>2 DEF DownloadRecording, TypeInv, TypeOK, CallsExport, BootListsRows
<1> QED
  BY <1>1, <1>2, <1>3, <1>4, <1>5, <1>6, <1>7, <1>8, <1>9, <1>10, <1>11, <1>12, <1>13, <1>14,
     <1>15 DEF Next

\* Every variable keeps its type in every behaviour, and every call that
\* awaits an export has an open segment to export.
THEOREM TypeInvariance == Spec => []TypeInv
BY TypeInvInit, TypeInvNext, PTL DEF Spec

THEOREM TypeCorrect == Spec => []TypeOK
BY TypeInvariance, PTL DEF TypeInv
(***************************************************************************)
(* Rows and their segments.  A row is written back from a copy some call   *)
(* took of it earlier, so what holds of every row has to hold of every     *)
(* copy; and the copy's open segment began before the instant the call     *)
(* took for its end.  The recovery closes only rows in status recording:   *)
(* nothing else runs between its listing of a row and its closing of it.   *)
(***************************************************************************)
CallChained(call, now) ==
    /\ Coherent(call.row)
    /\ Chained(call.row, call.now)
    /\ call.row.status = "recording"
    /\ call.now <= now

CallsChained == \A c \in Calls : calls[c] # Null => CallChained(calls[c], clock)

BootAlone ==
    /\ app = "down" => \A c \in Calls : calls[c] = Null
    /\ app # "booting" => bootQueue = {}
    /\ \A s \in bootQueue : Recording(s)
    /\ \A c \in Calls : calls[c] # Null => calls[c].id \notin bootQueue

RowInv == TypeInv /\ RowsCoherent /\ SegmentsChained /\ CallsChained /\ BootAlone

LEMMA RowTypes ==
    ASSUME NEW row \in Row
    PROVE  /\ row.createdAt \in Nat
           /\ row.active \in Nat \cup {Null}
           /\ row.stoppedAt \in Nat \cup {Null}
           /\ row.segments \in Seq(Segment)
           /\ Len(row.segments) \in Nat
           /\ \A i \in 1..Len(row.segments) :
                /\ row.segments[i].startedAt \in Nat
                /\ row.segments[i].stoppedAt \in Nat
<1>1. row.segments \in Seq(Segment)
  BY DEF Row
<1>2. \A i \in 1..Len(row.segments) : row.segments[i] \in Segment
  BY <1>1
<1>3. \A i \in 1..Len(row.segments) :
        row.segments[i].startedAt \in Nat /\ row.segments[i].stoppedAt \in Nat
  BY <1>2 DEF Segment
<1>4. Len(row.segments) \in Nat
  BY <1>1
<1> QED
  BY <1>1, <1>3, <1>4 DEF Row

\* What is chained at an instant is chained at every later one.
LEMMA ChainedLater ==
    ASSUME NEW row \in Row, NEW now \in Nat, NEW later \in Nat, now <= later, Chained(row, now)
    PROVE  Chained(row, later)
BY RowTypes, NullAssumption DEF Chained

\* Closing the open segment of a coherent, chained row at an instant no
\* earlier than the segment's start gives a coherent, chained row.
LEMMA ClosedChained ==
    ASSUME NEW kind \in {"pause", "stop", "boot"}, NEW row \in Row, NEW now \in Nat,
           NEW rec \in RecIds \cup {Null},
           Coherent(row), row.status = "recording", Chained(row, now)
    PROVE  LET new == Closed(kind, row, now, AppendSegment(row, now, rec))
           IN  new \in Row /\ Coherent(new) /\ Chained(new, now)
<1> DEFINE segs == AppendSegment(row, now, rec)
           n == Len(row.segments)
           new == Closed(kind, row, now, segs)
<1>1. row.active \in Nat /\ row.active # Null /\ row.stoppedAt = Null
  BY NullAssumption DEF Coherent, Row
<1>2. /\ segs \in Seq(Segment)
      /\ Len(segs) = n + 1
      /\ \A i \in 1..n : segs[i] = row.segments[i]
      /\ segs[n + 1] = [segmentNumber |-> n + 1, startedAt |-> row.active,
                        stoppedAt |-> now, recordingId |-> rec]
  BY <1>1, AppendSegmentFields
<1>3. /\ new \in Row
      /\ new.createdAt = row.createdAt
      /\ new.segments = segs
      /\ new.active = Null
      /\ new.status = IF kind = "stop" THEN "stopped" ELSE "paused"
      /\ new.stoppedAt = IF kind = "stop" THEN now ELSE Null
  <2>1. segs \in Seq(Segment)
    BY <1>2
  <2> HIDE DEF segs
  <2>2. /\ new \in Row
        /\ new.createdAt = row.createdAt
        /\ new.segments = segs
        /\ new.active = Null
        /\ new.status = IF kind = "stop" THEN "stopped" ELSE "paused"
        /\ new.stoppedAt = IF kind = "stop" THEN now ELSE row.stoppedAt
    BY <2>1 DEF Closed, Row, Status
  <2> QED
    BY <1>1, <2>2
<1>4. /\ n \in Nat
      /\ row.createdAt \in Nat
      /\ \A i \in 1..n : row.segments[i].startedAt \in Nat /\ row.segments[i].stoppedAt \in Nat
  BY RowTypes
<1>5. Coherent(new)
  BY <1>3, NullAssumption DEF Coherent
<1> HIDE DEF segs, new, n
<1>6. ASSUME NEW i \in 1..(n + 1)
      PROVE  /\ segs[i].segmentNumber = i
             /\ row.createdAt <= segs[i].startedAt
             /\ segs[i].startedAt <= segs[i].stoppedAt
             /\ segs[i].stoppedAt <= now
             /\ \A j \in 1..(n + 1) : i < j => segs[i].stoppedAt <= segs[j].startedAt
  <2>1. CASE i \in 1..n
    <3>1. /\ row.segments[i].segmentNumber = i
          /\ row.createdAt <= row.segments[i].startedAt
          /\ row.segments[i].startedAt <= row.segments[i].stoppedAt
          /\ row.segments[i].stoppedAt <= now
          /\ row.segments[i].stoppedAt <= row.active
          /\ \A j \in 1..n : i < j => row.segments[i].stoppedAt <= row.segments[j].startedAt
      BY <1>1, <2>1 DEF Chained, n
    <3>2. segs[n + 1].startedAt = row.active
      BY <1>2
    <3>3. \A j \in 1..(n + 1) : j \in 1..n \/ j = n + 1
      BY <1>4
    <3> QED
      BY <1>2, <2>1, <3>1, <3>2, <3>3
  <2>2. CASE i = n + 1
    <3>1. row.createdAt <= row.active /\ row.active <= now
      BY <1>1 DEF Chained
    <3>2. ~ \E j \in 1..(n + 1) : i < j
      BY <1>4, <2>2
    <3> QED
      BY <1>2, <2>2, <3>1, <3>2
  <2> QED
    BY <1>4, <2>1, <2>2
<1>7. Len(new.segments) = n + 1 /\ row.createdAt <= now
  BY <1>2, <1>3 DEF Chained
<1>8. now <= now
  OBVIOUS
<1>9. Chained(new, now)
  BY <1>3, <1>6, <1>7, <1>8 DEF Chained
<1> QED
  BY <1>3, <1>5, <1>9 DEF new, segs
\* Stopping a paused row, which has no open segment, exports nothing.
LEMMA StoppedChained ==
    ASSUME NEW row \in Row, NEW now \in Nat,
           Coherent(row), row.status = "paused", Chained(row, now)
    PROVE  LET new == Closed("stop", row, now, row.segments)
           IN  new \in Row /\ Coherent(new) /\ Chained(new, now)
<1> DEFINE new == Closed("stop", row, now, row.segments)
<1>1. /\ new \in Row
      /\ new.createdAt = row.createdAt
      /\ new.segments = row.segments
      /\ new.active = Null
      /\ new.status = "stopped"
      /\ new.stoppedAt = now
  BY RowTypes DEF Closed, Row, Status
<1> HIDE DEF new
<1>2. Coherent(new)
  BY <1>1, NullAssumption DEF Coherent
<1>3. Chained(new, now)
  BY <1>1, RowTypes DEF Chained
<1> QED
  BY <1>1, <1>2, <1>3 DEF new

\* Writing a coherent, chained row keeps all of them so.
LEMMA StoredRow ==
    ASSUME RowInv, NEW s \in SessionIds, NEW row \in Row,
           Coherent(row), Chained(row, clock),
           sessions' = [sessions EXCEPT ![s] = row], clock' = clock
    PROVE  RowsCoherent' /\ SegmentsChained'
<1>1. \A t \in SessionIds : sessions'[t] = IF t = s THEN row ELSE sessions[t]
  BY DEF RowInv, TypeInv, TypeOK
<1> QED
  BY <1>1 DEF RowInv, RowsCoherent, SegmentsChained, Rows, Has

\* Calls that are neither begun nor changed keep their copies.
LEMMA CallsKept ==
    ASSUME RowInv, UNCHANGED clock,
           \A c \in Calls : calls'[c] = calls[c] \/ calls'[c] = Null
    PROVE  CallsChained'
BY DEF RowInv, CallsChained

LEMMA CloseRowInv ==
    ASSUME RowInv, NEW kind \in {"pause", "stop", "boot"}, NEW s \in SessionIds,
           Recording(s) \/ (kind = "stop" /\ Has(s) /\ sessions[s].status = "paused"),
           CloseRow(kind, s), UNCHANGED clock
    PROVE  /\ RowsCoherent' /\ SegmentsChained' /\ CallsChained'
           /\ \A c \in Calls : calls'[c] = calls[c] \/ calls'[c].id = s
           /\ \A t \in SessionIds : t # s => sessions'[t] = sessions[t]
<1>1. /\ sessions[s] \in Row /\ clock \in Nat
      /\ Coherent(sessions[s]) /\ Chained(sessions[s], clock)
  BY DEF RowInv, TypeInv, TypeOK, RowsCoherent, SegmentsChained, Rows, Has, Recording
<1>2. CASE MustExport(sessions[s])
  <2> DEFINE call == [kind |-> kind, id |-> s, row |-> sessions[s], now |-> clock]
  <2>1. PICK c \in Calls : calls' = [calls EXCEPT ![c] = call] /\ UNCHANGED disk
    BY <1>2 DEF CloseRow, BeginCall
  <2>2. call.id = s /\ CallChained(call, clock)
    BY <1>1, <1>2 DEF CallChained, MustExport
  <2> HIDE DEF call
  <2>3. \A d \in Calls : calls'[d] = IF d = c THEN call ELSE calls[d]
    BY <2>1 DEF RowInv, TypeInv, TypeOK
  <2>4. CallsChained'
    BY <2>2, <2>3 DEF RowInv, CallsChained
  <2>5. RowsCoherent' /\ SegmentsChained'
    BY <2>1 DEF RowInv, RowsCoherent, SegmentsChained, Rows, Has, disk
  <2> QED
    BY <2>1, <2>2, <2>3, <2>4, <2>5 DEF disk
<1>3. CASE ~MustExport(sessions[s])
  <2>1. kind = "stop" /\ sessions[s].status = "paused"
    BY <1>1, <1>3 DEF MustExport, Coherent, Recording
  <2> DEFINE row == Closed("stop", sessions[s], clock, sessions[s].segments)
  <2>2. row \in Row /\ Coherent(row) /\ Chained(row, clock)
    BY <1>1, <2>1, StoppedChained
  <2>3. /\ sessions' = [sessions EXCEPT ![s] = row]
        /\ calls' = calls
    BY <1>3, <2>1 DEF CloseRow, UpsertRecordingSession
  <2> HIDE DEF row
  <2>4. RowsCoherent' /\ SegmentsChained'
    BY <2>2, <2>3, StoredRow
  <2>5. CallsChained'
    BY <2>3, CallsKept
  <2> QED
    BY <2>3, <2>4, <2>5 DEF RowInv, TypeInv, TypeOK
<1> QED
  BY <1>2, <1>3

LEMMA RowInvInit == Init => RowInv
BY TypeInvInit
   DEF Init, RowInv, RowsCoherent, SegmentsChained, Rows, Has, CallsChained, BootAlone

LEMMA RowInvNext == RowInv /\ [Next]_vars => RowInv'
<1> SUFFICES ASSUME RowInv, [Next]_vars PROVE RowInv'
  OBVIOUS
<1>t. TypeInv'
  BY TypeInvNext DEF RowInv
<1>a. TypeOK /\ clock \in Nat
  BY DEF RowInv, TypeInv, TypeOK
<1>1. ASSUME NEW sump \in Sumps, StartRecordingSession(sump) PROVE RowInv'
  <2> DEFINE row == [sump |-> sump, status |-> "recording", createdAt |-> clock,
                     stoppedAt |-> Null, active |-> clock, segments |-> <<>>,
                     interrupted |-> FALSE]
  <2>1. PICK s \in SessionIds : sessions[s] = Null /\ sessions' = [sessions EXCEPT ![s] = row]
    BY <1>1 DEF StartRecordingSession, UpsertRecordingSession
  <2>2. row \in Row
    BY <1>a DEF Row, Status
  <2>3. Coherent(row)
    BY <1>a, NullAssumption DEF Coherent
  <2>4. Chained(row, clock)
    BY <1>a DEF Chained
  <2> HIDE DEF row
  <2>5. RowsCoherent' /\ SegmentsChained'
    BY <1>1, <2>1, <2>2, <2>3, <2>4, StoredRow DEF StartRecordingSession
  <2>6. CallsChained' /\ BootAlone'
    BY <1>1, <2>1, CallsKept DEF StartRecordingSession, RowInv, BootAlone
  <2> QED
    BY <1>t, <2>5, <2>6 DEF RowInv
<1>2. ASSUME NEW s \in SessionIds, PauseRecordingSession(s) PROVE RowInv'
  <2>1. /\ Recording(s) /\ CloseRow("pause", s)
        /\ app = "running" /\ UNCHANGED <<app, bootQueue, clock>>
    BY <1>2 DEF PauseRecordingSession
  <2>2. RowsCoherent' /\ SegmentsChained' /\ CallsChained'
    BY <2>1, CloseRowInv
  <2> QED
    BY <1>t, <2>1, <2>2 DEF RowInv, BootAlone
<1>3. ASSUME NEW s \in SessionIds, ResumeRecordingSession(s) PROVE RowInv'
  <2> DEFINE row == [sessions[s] EXCEPT !.status = "recording", !.active = clock]
  <2>1. /\ sessions[s] \in Row /\ sessions[s].status = "paused"
        /\ Coherent(sessions[s]) /\ Chained(sessions[s], clock)
    BY <1>a, <1>3
       DEF ResumeRecordingSession, RowInv, TypeOK, RowsCoherent, SegmentsChained, Rows, Has
  <2>2. /\ row \in Row
        /\ row.status = "recording" /\ row.active = clock
        /\ row.createdAt = sessions[s].createdAt
        /\ row.stoppedAt = sessions[s].stoppedAt
        /\ row.segments = sessions[s].segments
    BY <1>a, <2>1 DEF Row, Status
  <2>3. sessions' = [sessions EXCEPT ![s] = row]
    BY <1>3 DEF ResumeRecordingSession, UpsertRecordingSession
  <2> HIDE DEF row
  <2>4. Coherent(row)
    BY <1>a, <2>1, <2>2, NullAssumption DEF Coherent
  <2>5. Chained(row, clock)
    BY <1>a, <2>1, <2>2, RowTypes DEF Chained
  <2>6. RowsCoherent' /\ SegmentsChained'
    BY <1>3, <2>2, <2>3, <2>4, <2>5, StoredRow DEF ResumeRecordingSession
  <2>7. CallsChained' /\ BootAlone'
    BY <1>3, CallsKept DEF ResumeRecordingSession, RowInv, BootAlone
  <2> QED
    BY <1>t, <2>6, <2>7 DEF RowInv
<1>4. ASSUME NEW s \in SessionIds, StopRecordingSession(s) PROVE RowInv'
  <2>1. /\ Has(s) /\ sessions[s].status # "stopped" /\ CloseRow("stop", s)
        /\ app = "running" /\ UNCHANGED <<app, bootQueue, clock>>
    BY <1>4 DEF StopRecordingSession
  <2>2. sessions[s].status \in {"recording", "paused"}
    BY <1>a, <2>1 DEF TypeOK, Has, Row, Status
  <2>3. RowsCoherent' /\ SegmentsChained' /\ CallsChained'
    BY <2>1, <2>2, CloseRowInv DEF Recording
  <2> QED
    BY <1>t, <2>1, <2>3 DEF RowInv, BootAlone
<1>5. ASSUME NEW s \in SessionIds, DismissInterruptedSession(s) PROVE RowInv'
  <2> DEFINE row == [sessions[s] EXCEPT !.interrupted = FALSE]
  <2>1. /\ sessions[s] \in Row
        /\ Coherent(sessions[s]) /\ Chained(sessions[s], clock)
    BY <1>a, <1>5
       DEF DismissInterruptedSession, RowInv, TypeOK, RowsCoherent, SegmentsChained, Rows, Has
  <2>2. /\ row \in Row
        /\ row.status = sessions[s].status /\ row.active = sessions[s].active
        /\ row.createdAt = sessions[s].createdAt
        /\ row.stoppedAt = sessions[s].stoppedAt
        /\ row.segments = sessions[s].segments
    BY <2>1 DEF Row
  <2>3. sessions' = [sessions EXCEPT ![s] = row]
    BY <1>5 DEF DismissInterruptedSession, UpsertRecordingSession
  <2> HIDE DEF row
  <2>4. Coherent(row) /\ Chained(row, clock)
    BY <2>1, <2>2 DEF Coherent, Chained
  <2>5. RowsCoherent' /\ SegmentsChained'
    BY <1>5, <2>2, <2>3, <2>4, StoredRow DEF DismissInterruptedSession
  <2>6. CallsChained' /\ BootAlone'
    BY <1>5, CallsKept DEF DismissInterruptedSession, RowInv, BootAlone
  <2> QED
    BY <1>t, <2>5, <2>6 DEF RowInv
<1>6. ASSUME NEW sump \in Sumps, EvaluateEventRule(sump) PROVE RowInv'
  BY <1>1, <1>4, <1>6 DEF EvaluateEventRule
<1>7. ASSUME NEW s \in SessionIds, CoerceInterruptedSession(s) PROVE RowInv'
  <2>1. /\ app = "booting" /\ Recording(s) /\ CloseRow("boot", s)
        /\ bootQueue' = bootQueue \ {s} /\ UNCHANGED <<app, clock>>
        /\ \A c \in Calls : calls[c] = Null
    BY <1>7 DEF CoerceInterruptedSession, RowInv, BootAlone
  <2>2. /\ RowsCoherent' /\ SegmentsChained' /\ CallsChained'
        /\ \A c \in Calls : calls'[c] = calls[c] \/ calls'[c].id = s
        /\ \A t \in SessionIds : t # s => sessions'[t] = sessions[t]
    BY <2>1, CloseRowInv
  <2>3. BootAlone'
    BY <1>a, <2>1, <2>2 DEF RowInv, BootAlone, Recording, Has, TypeOK
  <2> QED
    BY <1>t, <2>2, <2>3 DEF RowInv
<1>8. ASSUME NEW c \in Calls, SettleExport(c) PROVE RowInv'
  <2>1. /\ calls[c] \in Call /\ calls[c] # Null /\ CallChained(calls[c], clock)
    BY <1>a, <1>8 DEF SettleExport, RowInv, CallsChained, TypeOK
  <2>2. /\ calls[c].row \in Row /\ calls[c].now \in Nat /\ calls[c].id \in SessionIds
        /\ calls[c].kind \in {"pause", "stop", "boot"}
    BY <2>1 DEF Call
  <2>3. PICK rec \in RecIds \cup {Null} :
            sessions' = [sessions EXCEPT ![calls[c].id] =
                Closed(calls[c].kind, calls[c].row, calls[c].now,
                       AppendSegment(calls[c].row, calls[c].now, rec))]
    BY <1>8 DEF SettleExport, UpsertRecordingSession
  <2> DEFINE row == Closed(calls[c].kind, calls[c].row, calls[c].now,
                           AppendSegment(calls[c].row, calls[c].now, rec))
  <2>4. row \in Row /\ Coherent(row) /\ Chained(row, calls[c].now)
    BY <2>1, <2>2, ClosedChained DEF CallChained
  <2>5. sessions' = [sessions EXCEPT ![calls[c].id] = row]
    BY <2>3
  <2> HIDE DEF row
  <2>6. Chained(row, clock)
    BY <1>a, <2>1, <2>2, <2>4, ChainedLater DEF CallChained
  <2>7. RowsCoherent' /\ SegmentsChained'
    BY <1>8, <2>2, <2>4, <2>5, <2>6, StoredRow DEF SettleExport
  <2>8. \A d \in Calls : calls'[d] = calls[d] \/ calls'[d] = Null
    BY <1>a, <1>8 DEF SettleExport, EndCall, TypeOK
  <2>9. CallsChained'
    BY <1>8, <2>8, CallsKept DEF SettleExport
  <2>10. calls[c].id \notin bootQueue
    BY <2>1 DEF RowInv, BootAlone
  <2>11. BootAlone'
    BY <1>a, <1>8, <2>1, <2>2, <2>5, <2>8, <2>10
       DEF SettleExport, RowInv, BootAlone, Recording, Has, TypeOK
  <2> QED
    BY <1>t, <2>7, <2>9, <2>11 DEF RowInv
<1>9. ASSUME NEW c \in Calls, SettleUnsaved(c) PROVE RowInv'
  <2>1. \A d \in Calls : calls'[d] = calls[d] \/ calls'[d] = Null
    BY <1>a, <1>9 DEF SettleUnsaved, EndCall, TypeOK
  <2>2. CallsChained'
    BY <1>9, <2>1, CallsKept DEF SettleUnsaved
  <2>3. RowsCoherent' /\ SegmentsChained'
    BY <1>9 DEF SettleUnsaved, RowInv, RowsCoherent, SegmentsChained, Rows, Has
  <2>4. BootAlone'
    BY <1>9, <2>1 DEF SettleUnsaved, RowInv, BootAlone, Recording, Has
  <2> QED
    BY <1>t, <2>2, <2>3, <2>4 DEF RowInv
<1>10. CASE Boot
  <2>1. RowsCoherent' /\ SegmentsChained' /\ CallsChained'
    BY <1>10, CallsKept DEF Boot, RowInv, RowsCoherent, SegmentsChained, Rows, Has
  <2>2. BootAlone'
    BY <1>10 DEF Boot, RowInv, BootAlone, Recording, Has
  <2> QED
    BY <1>t, <2>1, <2>2 DEF RowInv
<1>11. CASE RegisterIpcHandlers
  <2>1. RowsCoherent' /\ SegmentsChained' /\ CallsChained'
    BY <1>11, CallsKept DEF RegisterIpcHandlers, RowInv, RowsCoherent, SegmentsChained, Rows, Has
  <2>2. BootAlone'
    BY <1>11 DEF RegisterIpcHandlers, RowInv, BootAlone, Recording, Has
  <2> QED
    BY <1>t, <2>1, <2>2 DEF RowInv
<1>12. CASE Crash
  <2>1. \A d \in Calls : calls'[d] = Null
    BY <1>12 DEF Crash
  <2>2. CallsChained'
    BY <1>12, <2>1, CallsKept DEF Crash
  <2>3. RowsCoherent' /\ SegmentsChained'
    BY <1>12 DEF Crash, RowInv, RowsCoherent, SegmentsChained, Rows, Has
  <2>4. BootAlone'
    BY <1>12, <2>1 DEF Crash, RowInv, BootAlone
  <2> QED
    BY <1>t, <2>2, <2>3, <2>4 DEF RowInv
<1>13. CASE Tick
  <2>1. clock \in Nat /\ clock' \in Nat /\ clock <= clock'
    BY <1>a, <1>13 DEF Tick
  <2>2. SegmentsChained'
    BY <1>a, <1>13, <2>1, ChainedLater DEF Tick, TypeOK, RowInv, SegmentsChained, Rows, Has
  <2>3. \A c \in Calls : calls[c] # Null => calls[c].now \in Nat
    BY <1>a DEF TypeOK, Call
  <2>4. CallsChained'
    BY <1>13, <2>1, <2>3 DEF Tick, RowInv, CallsChained, CallChained
  <2>5. RowsCoherent' /\ BootAlone'
    BY <1>13 DEF Tick, RowInv, RowsCoherent, Rows, BootAlone, Recording, Has
  <2> QED
    BY <1>t, <2>2, <2>4, <2>5 DEF RowInv
<1>14. CASE UNCHANGED vars
  BY <1>t, <1>14
     DEF vars, RowInv, RowsCoherent, SegmentsChained, Rows, Has, CallsChained, BootAlone, Recording
<1>15. ASSUME NEW sump \in Sumps, DownloadRecording(sump) PROVE RowInv'
  <2>1. RowsCoherent' /\ SegmentsChained' /\ CallsChained'
    BY <1>15, CallsKept DEF DownloadRecording, RowInv, RowsCoherent, SegmentsChained, Rows, Has
  <2>2. BootAlone'
    BY <1>15 DEF DownloadRecording, RowInv, BootAlone, Recording, Has
  <2> QED
    BY <1>t, <2>1, <2>2 DEF RowInv
<1> QED
  BY <1>1, <1>2, <1>3, <1>4, <1>5, <1>6, <1>7, <1>8, <1>9, <1>10, <1>11, <1>12, <1>13, <1>14,
     <1>15 DEF Next

THEOREM RowInvariance == Spec => []RowInv
BY RowInvInit, RowInvNext, PTL DEF Spec

\* In every row, at every instant, status, open segment and stop time agree,
\* in whatever order overlapping calls write their copies back.
THEOREM RowsAreCoherent == Spec => []RowsCoherent
BY RowInvariance, PTL DEF RowInv

\* Segments are numbered from 1, disjoint and in order, in every row.
THEOREM SegmentsAreChained == Spec => []SegmentsChained
BY RowInvariance, PTL DEF RowInv
(***************************************************************************)
(* Files, catalog and project.  A file is only ever created, and the       *)
(* catalog and the project only ever gain entries, so what backs a segment *)
(* keeps backing it, in the rows and in the copies calls hold of them.     *)
(***************************************************************************)
CallsBacked == \A c \in Calls : calls[c] # Null => RowBacked(calls[c].row)

StoreInv == TypeInv /\ ReferencesResolve /\ SegmentsBacked /\ CallsBacked

\* The store before a step and after it.
StoreGrows ==
    /\ \A r \in RecIds : archive[r] # Null => archive'[r] = archive[r]
    /\ recordings \subseteq recordings'
    /\ references \subseteq references'

\* However many of its writes an export makes, it overwrites nothing, and
\* the project never references what the catalog does not list.
LEMMA DownloadGrows ==
    ASSUME StoreInv, NEW window \in Window, NEW n \in 0..3, NEW r \in RecIds,
           DownloadAndRegister(window, n, r)
    PROVE  /\ StoreGrows
           /\ ReferencesResolve'
           /\ n = 3 => r \in recordings' /\ r \in references' /\ archive'[r] = window
<1>1. window # Null
  BY NullAssumption
<1>2. archive \in [RecIds -> Window \cup {Null}] /\ recordings \subseteq RecIds
  BY DEF StoreInv, TypeInv, TypeOK
<1>3. \A q \in RecIds : archive'[q] = IF n >= 1 /\ q = r THEN window ELSE archive[q]
  BY <1>2 DEF DownloadAndRegister
<1>4. n > 0 <=> n >= 1
  OBVIOUS
<1>5. StoreGrows
  BY <1>3, <1>4 DEF DownloadAndRegister, StoreGrows
<1>6. references' \subseteq recordings'
  BY DEF DownloadAndRegister, StoreInv, ReferencesResolve
<1>7. \A q \in recordings' : archive'[q] # Null
  BY <1>1, <1>2, <1>3 DEF DownloadAndRegister, StoreInv, ReferencesResolve
<1>8. n = 3 => r \in recordings' /\ r \in references' /\ archive'[r] = window
  BY <1>3 DEF DownloadAndRegister
<1> QED
  BY <1>5, <1>6, <1>7, <1>8 DEF ReferencesResolve

\* What backs a row, of any store; RowBacked is this of the present one.
BackedIn(row, files, listed, referenced) ==
    \A i \in 1..Len(row.segments) :
        LET seg == row.segments[i]
        IN  seg.recordingId # Null =>
                /\ seg.recordingId \in listed
                /\ seg.recordingId \in referenced
                /\ files[seg.recordingId] =
                    [sump |-> row.sump, from |-> seg.startedAt, to |-> seg.stoppedAt]

\* A row the store backs stays backed while the store grows.
LEMMA StillBacked ==
    ASSUME NEW row, NEW files, NEW listed, NEW referenced,
           NEW files2, NEW listed2, NEW referenced2,
           BackedIn(row, files, listed, referenced),
           \A r \in listed : files2[r] = files[r],
           listed \subseteq listed2, referenced \subseteq referenced2
    PROVE  BackedIn(row, files2, listed2, referenced2)
BY DEF BackedIn

\* Closing a backed row with an export that succeeded, or that failed and
\* left the segment without a recording, gives a backed row.
LEMMA ClosedBacked ==
    ASSUME NEW kind \in {"pause", "stop", "boot"}, NEW row \in Row, NEW now \in Nat,
           NEW rec \in RecIds \cup {Null}, row.active # Null,
           NEW files, NEW listed, NEW referenced,
           BackedIn(row, files, listed, referenced),
           rec # Null => /\ rec \in listed /\ rec \in referenced
                         /\ files[rec] = [sump |-> row.sump, from |-> row.active, to |-> now]
    PROVE  BackedIn(Closed(kind, row, now, AppendSegment(row, now, rec)),
                    files, listed, referenced)
<1> DEFINE segs == AppendSegment(row, now, rec)
           new == Closed(kind, row, now, segs)
           n == Len(row.segments)
<1>1. /\ segs \in Seq(Segment)
      /\ Len(segs) = n + 1
      /\ \A i \in 1..n : segs[i] = row.segments[i]
      /\ segs[n + 1] = [segmentNumber |-> n + 1, startedAt |-> row.active,
                        stoppedAt |-> now, recordingId |-> rec]
  BY AppendSegmentFields
<1>2. new.segments = segs /\ new.sump = row.sump
  BY <1>1, RowTypes DEF Closed, Row
<1>3. n \in Nat
  BY RowTypes
<1> HIDE DEF segs, new
<1>4. \A i \in 1..Len(segs) : i \in 1..n \/ i = n + 1
  BY <1>1, <1>3
<1> HIDE DEF n
<1>5. BackedIn(new, files, listed, referenced)
  <2> SUFFICES ASSUME NEW i \in 1..Len(segs), segs[i].recordingId # Null
               PROVE  /\ segs[i].recordingId \in listed
                      /\ segs[i].recordingId \in referenced
                      /\ files[segs[i].recordingId] =
                          [sump |-> row.sump, from |-> segs[i].startedAt,
                           to |-> segs[i].stoppedAt]
    BY <1>2 DEF BackedIn
  <2>1. CASE i \in 1..n
    BY <1>1, <2>1 DEF BackedIn, n
  <2>2. CASE i = n + 1
    BY <1>1, <2>2
  <2> QED
    BY <1>4, <2>1, <2>2
<1> QED
  BY <1>5 DEF new, segs

\* A step that writes no row but that of s, and no copy but one of a row as
\* it stands, keeps everything backed if the store grows and s is backed.
LEMMA KeptBacked ==
    ASSUME StoreInv, StoreGrows,
           \A s \in SessionIds : sessions'[s] # Null =>
                \/ sessions[s] # Null /\ sessions'[s].segments = sessions[s].segments
                                      /\ sessions'[s].sump = sessions[s].sump
                \/ BackedIn(sessions'[s], archive', recordings', references'),
           \A c \in Calls : calls'[c] # Null =>
                \/ calls'[c] = calls[c]
                \/ \E s \in Rows : calls'[c].row = sessions[s]
    PROVE  SegmentsBacked' /\ CallsBacked'
<1>1. \A r \in recordings : archive'[r] = archive[r]
  BY DEF StoreInv, StoreGrows, ReferencesResolve, TypeInv, TypeOK
<1>2. ASSUME NEW row, BackedIn(row, archive, recordings, references)
      PROVE  BackedIn(row, archive', recordings', references')
  BY <1>1, <1>2, StillBacked DEF StoreGrows
<1>3. \A s \in Rows : BackedIn(sessions[s], archive, recordings, references)
  BY DEF StoreInv, SegmentsBacked, RowBacked, Backed, BackedIn
<1>4. \A c \in Calls : calls[c] # Null =>
        BackedIn(calls[c].row, archive, recordings, references)
  BY DEF StoreInv, CallsBacked, RowBacked, Backed, BackedIn
<1>5. ASSUME NEW s \in SessionIds, sessions'[s] # Null
      PROVE  BackedIn(sessions'[s], archive', recordings', references')
  <2>1. CASE sessions[s] # Null /\ sessions'[s].segments = sessions[s].segments
                                /\ sessions'[s].sump = sessions[s].sump
    <3>1. BackedIn(sessions[s], archive', recordings', references')
      BY <1>2, <1>3, <2>1 DEF Rows, Has
    <3> QED
      BY <2>1, <3>1 DEF BackedIn
  <2> QED
    BY <1>5, <2>1
<1>6. SegmentsBacked'
  BY <1>5 DEF SegmentsBacked, RowBacked, Backed, BackedIn, Rows, Has
<1>7. ASSUME NEW c \in Calls, calls'[c] # Null
      PROVE  BackedIn(calls'[c].row, archive', recordings', references')
  BY <1>2, <1>3, <1>4, <1>7
<1>8. CallsBacked'
  BY <1>7 DEF CallsBacked, RowBacked, Backed, BackedIn
<1> QED
  BY <1>6, <1>8
LEMMA StoreUnchanged ==
    ASSUME StoreInv, UNCHANGED <<archive, recordings, references>>
    PROVE  StoreGrows /\ ReferencesResolve'
BY DEF StoreInv, StoreGrows, ReferencesResolve

\* Closing a row at once keeps its segments; through a call, copies it.
LEMMA CloseRowStore ==
    ASSUME StoreInv, NEW kind \in {"pause", "stop", "boot"}, NEW s \in SessionIds, Has(s),
           CloseRow(kind, s)
    PROVE  /\ StoreGrows /\ ReferencesResolve'
           /\ SegmentsBacked' /\ CallsBacked'
<1>1. UNCHANGED <<archive, recordings, references>>
  BY CloseRowTypes DEF StoreInv
<1>2. StoreGrows /\ ReferencesResolve'
  BY <1>1, StoreUnchanged
<1>3. TypeOK /\ sessions[s] \in Row /\ clock \in Nat
  BY DEF StoreInv, TypeInv, TypeOK, Has
<1>4. CASE MustExport(sessions[s])
  <2>1. PICK c \in Calls :
            /\ calls' = [calls EXCEPT ![c] =
                [kind |-> kind, id |-> s, row |-> sessions[s], now |-> clock]]
            /\ sessions' = sessions
    BY <1>4 DEF CloseRow, BeginCall, disk
  <2>2. \A d \in Calls : calls'[d] # calls[d] => d = c /\ calls'[d].row = sessions[s]
    BY <1>3, <2>1 DEF TypeOK
  <2> QED
    BY <1>2, <2>1, <2>2, KeptBacked DEF Rows
<1>5. CASE ~MustExport(sessions[s])
  <2> DEFINE row == Closed(kind, sessions[s], clock, sessions[s].segments)
  <2>1. row.segments = sessions[s].segments /\ row.sump = sessions[s].sump
    BY <1>3, RowTypes DEF Closed, Row
  <2>2. sessions' = [sessions EXCEPT ![s] = row] /\ calls' = calls
    BY <1>5 DEF CloseRow, UpsertRecordingSession
  <2> HIDE DEF row
  <2>3. \A t \in SessionIds : sessions'[t] = IF t = s THEN row ELSE sessions[t]
    BY <1>3, <2>2 DEF TypeOK
  <2> QED
    BY <1>2, <2>1, <2>2, <2>3, KeptBacked DEF Has
<1> QED
  BY <1>4, <1>5

LEMMA StoreInvInit == Init => StoreInv
BY TypeInvInit
   DEF Init, StoreInv, ReferencesResolve, SegmentsBacked, CallsBacked, Rows, Has

LEMMA StoreInvNext == StoreInv /\ [Next]_vars => StoreInv' /\ StoreGrows
<1> SUFFICES ASSUME StoreInv, [Next]_vars PROVE StoreInv' /\ StoreGrows
  OBVIOUS
<1>t. TypeInv'
  BY TypeInvNext DEF StoreInv
<1>a. TypeInv /\ TypeOK
  BY DEF StoreInv, TypeInv
<1>1. ASSUME NEW sump \in Sumps, StartRecordingSession(sump) PROVE StoreInv' /\ StoreGrows
  <2>1. StoreGrows /\ ReferencesResolve' /\ calls' = calls
    BY <1>1, StoreUnchanged DEF StartRecordingSession
  <2>2. PICK s \in SessionIds : sessions' = [sessions EXCEPT ![s] =
            [sump |-> sump, status |-> "recording", createdAt |-> clock, stoppedAt |-> Null,
             active |-> clock, segments |-> <<>>, interrupted |-> FALSE]]
    BY <1>1 DEF StartRecordingSession, UpsertRecordingSession
  <2>3. /\ \A t \in SessionIds : t # s => sessions'[t] = sessions[t]
        /\ sessions'[s].segments = <<>>
    BY <1>a, <2>2 DEF TypeOK
  <2>4. BackedIn(sessions'[s], archive', recordings', references')
    BY <2>3 DEF BackedIn
  <2> QED
    BY <1>t, <2>1, <2>3, <2>4, KeptBacked DEF StoreInv
<1>2. ASSUME NEW s \in SessionIds, PauseRecordingSession(s) PROVE StoreInv' /\ StoreGrows
  <2>1. Has(s) /\ CloseRow("pause", s)
    BY <1>2 DEF PauseRecordingSession, Recording
  <2> QED
    BY <1>t, <2>1, CloseRowStore DEF StoreInv
<1>3. ASSUME NEW s \in SessionIds, ResumeRecordingSession(s) PROVE StoreInv' /\ StoreGrows
  <2>1. StoreGrows /\ ReferencesResolve' /\ calls' = calls /\ sessions[s] # Null
    BY <1>3, StoreUnchanged DEF ResumeRecordingSession, Has
  <2>2. sessions' = [sessions EXCEPT ![s] =
            [sessions[s] EXCEPT !.status = "recording", !.active = clock]]
    BY <1>3 DEF ResumeRecordingSession, UpsertRecordingSession
  <2>3. /\ \A t \in SessionIds : t # s => sessions'[t] = sessions[t]
        /\ sessions'[s].segments = sessions[s].segments
        /\ sessions'[s].sump = sessions[s].sump
    BY <1>a, <2>1, <2>2 DEF TypeOK, Row
  <2> QED
    BY <1>t, <2>1, <2>3, KeptBacked DEF StoreInv
<1>4. ASSUME NEW s \in SessionIds, StopRecordingSession(s) PROVE StoreInv' /\ StoreGrows
  <2>1. Has(s) /\ CloseRow("stop", s)
    BY <1>4 DEF StopRecordingSession
  <2> QED
    BY <1>t, <2>1, CloseRowStore DEF StoreInv
<1>5. ASSUME NEW s \in SessionIds, DismissInterruptedSession(s) PROVE StoreInv' /\ StoreGrows
  <2>1. StoreGrows /\ ReferencesResolve' /\ calls' = calls /\ sessions[s] # Null
    BY <1>5, StoreUnchanged DEF DismissInterruptedSession, Has
  <2>2. sessions' = [sessions EXCEPT ![s] = [sessions[s] EXCEPT !.interrupted = FALSE]]
    BY <1>5 DEF DismissInterruptedSession, UpsertRecordingSession
  <2>3. /\ \A t \in SessionIds : t # s => sessions'[t] = sessions[t]
        /\ sessions'[s].segments = sessions[s].segments
        /\ sessions'[s].sump = sessions[s].sump
    BY <1>a, <2>1, <2>2 DEF TypeOK, Row
  <2> QED
    BY <1>t, <2>1, <2>3, KeptBacked DEF StoreInv
<1>6. ASSUME NEW sump \in Sumps, EvaluateEventRule(sump) PROVE StoreInv' /\ StoreGrows
  BY <1>1, <1>4, <1>6 DEF EvaluateEventRule
<1>7. ASSUME NEW s \in SessionIds, CoerceInterruptedSession(s) PROVE StoreInv' /\ StoreGrows
  <2>1. Has(s) /\ CloseRow("boot", s)
    BY <1>a, <1>7 DEF CoerceInterruptedSession, TypeInv, BootListsRows
  <2> QED
    BY <1>t, <2>1, CloseRowStore DEF StoreInv
<1>8. ASSUME NEW c \in Calls, SettleExport(c) PROVE StoreInv' /\ StoreGrows
  <2>1. PICK n \in 0..3, r \in RecIds :
            /\ DownloadAndRegister(ExportWindow(calls[c]), n, r)
            /\ sessions' = [sessions EXCEPT ![calls[c].id] =
                Closed(calls[c].kind, calls[c].row, calls[c].now,
                       AppendSegment(calls[c].row, calls[c].now, IF n = 3 THEN r ELSE Null))]
    BY <1>8 DEF SettleExport, UpsertRecordingSession
  <2>2. /\ calls[c] \in Call /\ calls[c].row.active \in Nat
        /\ ExportWindow(calls[c]) \in Window
    BY <1>a, <1>8, ExportWindowType DEF SettleExport
  <2>3. /\ calls[c].row \in Row /\ calls[c].now \in Nat /\ calls[c].id \in SessionIds
        /\ calls[c].kind \in {"pause", "stop", "boot"}
    BY <2>2 DEF Call
  <2>4. /\ StoreGrows /\ ReferencesResolve'
        /\ n = 3 => /\ r \in recordings' /\ r \in references'
                    /\ archive'[r] = ExportWindow(calls[c])
    BY <2>1, <2>2, DownloadGrows
  <2> DEFINE rec == IF n = 3 THEN r ELSE Null
             row == Closed(calls[c].kind, calls[c].row, calls[c].now,
                           AppendSegment(calls[c].row, calls[c].now, rec))
  <2>5. BackedIn(calls[c].row, archive', recordings', references')
    <3>1. BackedIn(calls[c].row, archive, recordings, references)
      BY <1>8 DEF SettleExport, StoreInv, CallsBacked, RowBacked, Backed, BackedIn
    <3>2. \A q \in recordings : archive'[q] = archive[q]
      BY <1>a, <2>4 DEF StoreInv, StoreGrows, ReferencesResolve, TypeOK
    <3> QED
      BY <2>4, <3>1, <3>2, StillBacked DEF StoreGrows
  <2>6. BackedIn(row, archive', recordings', references')
    <3>1. rec \in RecIds \cup {Null}
      OBVIOUS
    <3>2. rec # Null => /\ rec \in recordings' /\ rec \in references'
                        /\ archive'[rec] = [sump |-> calls[c].row.sump,
                                            from |-> calls[c].row.active, to |-> calls[c].now]
      BY <2>4 DEF ExportWindow
    <3>3. calls[c].row.active # Null
      BY <2>2, NullAssumption
    <3> HIDE DEF rec
    <3> QED
      BY <2>3, <2>5, <3>1, <3>2, <3>3, ClosedBacked
  <2>7. sessions' = [sessions EXCEPT ![calls[c].id] = row]
    BY <2>1
  <2> HIDE DEF rec, row
  <2>8. /\ \A t \in SessionIds : sessions'[t] = IF t = calls[c].id THEN row ELSE sessions[t]
        /\ \A d \in Calls : calls'[d] = calls[d] \/ calls'[d] = Null
    BY <1>a, <1>8, <2>7 DEF SettleExport, EndCall, TypeOK
  <2>9. SegmentsBacked' /\ CallsBacked'
    BY <2>4, <2>6, <2>8, KeptBacked
  <2> QED
    BY <1>t, <2>4, <2>9 DEF StoreInv
<1>9. ASSUME NEW c \in Calls, SettleUnsaved(c) PROVE StoreInv' /\ StoreGrows
  <2>1. PICK n \in 0..3, r \in RecIds : DownloadAndRegister(ExportWindow(calls[c]), n, r)
    BY <1>9 DEF SettleUnsaved
  <2>2. ExportWindow(calls[c]) \in Window
    BY <1>a, <1>9, ExportWindowType DEF SettleUnsaved
  <2>3. StoreGrows /\ ReferencesResolve'
    BY <2>1, <2>2, DownloadGrows
  <2>4. /\ sessions' = sessions
        /\ \A d \in Calls : calls'[d] = calls[d] \/ calls'[d] = Null
    BY <1>a, <1>9 DEF SettleUnsaved, EndCall, TypeOK
  <2>5. SegmentsBacked' /\ CallsBacked'
    BY <2>3, <2>4, KeptBacked
  <2> QED
    BY <1>t, <2>3, <2>5 DEF StoreInv
<1>10. CASE Boot \/ RegisterIpcHandlers \/ Tick \/ UNCHANGED vars
  <2>1. UNCHANGED <<sessions, archive, recordings, references, calls>>
    BY <1>10 DEF Boot, RegisterIpcHandlers, Tick, vars
  <2>2. StoreGrows /\ ReferencesResolve'
    BY <2>1, StoreUnchanged
  <2>3. SegmentsBacked' /\ CallsBacked'
    BY <2>1, <2>2, KeptBacked
  <2> QED
    BY <1>t, <2>2, <2>3 DEF StoreInv
<1>11. CASE Crash
  <2>1. StoreGrows /\ ReferencesResolve'
    <3>1. CASE UNCHANGED <<archive, recordings, references>>
      BY <3>1, StoreUnchanged
    <3>2. ASSUME NEW c \in Calls, NEW n \in 1..3, NEW r \in RecIds, calls[c] # Null,
                 DownloadAndRegister(ExportWindow(calls[c]), n, r)
          PROVE  StoreGrows /\ ReferencesResolve'
      BY <1>a, <3>2, n \in 0..3, ExportWindowType, DownloadGrows
    <3> QED
      BY <1>11, <3>1, <3>2 DEF Crash
  <2>2. sessions' = sessions /\ \A d \in Calls : calls'[d] = Null
    BY <1>11 DEF Crash
  <2>3. SegmentsBacked' /\ CallsBacked'
    BY <2>1, <2>2, KeptBacked
  <2> QED
    BY <1>t, <2>1, <2>3 DEF StoreInv
<1>12. ASSUME NEW sump \in Sumps, DownloadRecording(sump) PROVE StoreInv' /\ StoreGrows
  <2>1. PICK window \in Window, n \in 0..3, r \in RecIds : DownloadAndRegister(window, n, r)
    BY <1>12, DownloadedWindow
  <2>2. StoreGrows /\ ReferencesResolve'
    BY <2>1, DownloadGrows
  <2>3. sessions' = sessions /\ calls' = calls
    BY <1>12 DEF DownloadRecording
  <2>4. SegmentsBacked' /\ CallsBacked'
    BY <2>2, <2>3, KeptBacked
  <2> QED
    BY <1>t, <2>2, <2>4 DEF StoreInv
<1> QED
  BY <1>1, <1>2, <1>3, <1>4, <1>5, <1>6, <1>7, <1>8, <1>9, <1>10, <1>11, <1>12 DEF Next

THEOREM StoreInvariance == Spec => []StoreInv
BY StoreInvInit, StoreInvNext, PTL DEF Spec

\* At every instant, and so at every instant a crash could choose, what the
\* project references the catalog lists and what the catalog lists is on disk.
THEOREM ReferencesAlwaysResolve == Spec => []ReferencesResolve
BY StoreInvariance, PTL DEF StoreInv

\* A segment that names a recording names one whose file is its own window.
THEOREM SegmentsAreBacked == Spec => []SegmentsBacked
BY StoreInvariance, PTL DEF StoreInv
-----------------------------------------------------------------------------
(***************************************************************************)
(* Notices.  A row's copy carries the mark it had when the copy was taken, *)
(* and the recovery's own copies do not carry it yet: the mark stands      *)
(* because every copy taken by another call is of the time after the mark. *)
(* So a copy that is not the recovery's shows the mark of a session still  *)
(* unread, and while the recovery holds a copy nobody else holds one.      *)
(***************************************************************************)
CopiesMarked ==
    \A c \in Calls :
        calls[c] # Null /\ calls[c].kind # "boot" /\ calls[c].id \in unread
            => calls[c].row.interrupted

BootCallAlone ==
    /\ \A c \in Calls : calls[c] # Null /\ calls[c].kind = "boot" => app = "booting"
    /\ app = "booting" => \A c, d \in Calls : calls[c] # Null /\ calls[d] # Null => c = d

NoticeInv == RowInv /\ NoticeStands /\ CopiesMarked /\ BootCallAlone

\* The recovery marks the row it closes; a pause or a stop keeps the mark.
LEMMA ClosedMark ==
    ASSUME NEW kind \in {"pause", "stop", "boot"}, NEW row \in Row, NEW now \in Nat,
           NEW list \in Seq(Segment), kind = "boot" \/ row.interrupted
    PROVE  Closed(kind, row, now, list).interrupted
BY DEF Closed, Row

\* Writing the row of one session keeps the notices of the others.
LEMMA StoredNotice ==
    ASSUME NoticeInv, NEW s \in SessionIds, NEW row \in Row,
           sessions' = [sessions EXCEPT ![s] = row],
           unread' \subseteq unread \cup {s},
           s \in unread' => row.interrupted
    PROVE  NoticeStands'
<1>1. \A t \in SessionIds : sessions'[t] = IF t = s THEN row ELSE sessions[t]
  BY DEF NoticeInv, RowInv, TypeInv, TypeOK
<1>2. unread \subseteq SessionIds /\ row # Null
  BY NullAssumption DEF NoticeInv, RowInv, TypeInv, TypeOK
<1> QED
  BY <1>1, <1>2 DEF NoticeInv, NoticeStands, Has

\* A call that ends takes its copy with it.
LEMMA EndedCall ==
    ASSUME NoticeInv, NEW c \in Calls, EndCall(c)
    PROVE  \A d \in Calls : calls'[d] = IF d = c THEN Null ELSE calls[d]
BY DEF EndCall, NoticeInv, RowInv, TypeInv, TypeOK

LEMMA CloseRowNotice ==
    ASSUME NoticeInv, NEW kind \in {"pause", "stop", "boot"}, NEW s \in SessionIds, Has(s),
           CloseRow(kind, s), UNCHANGED app,
           IF kind = "boot" THEN app = "booting" /\ \A c \in Calls : calls[c] = Null
                            ELSE app = "running"
    PROVE  NoticeStands' /\ CopiesMarked' /\ BootCallAlone'
<1>1. sessions[s] \in Row /\ clock \in Nat /\ unread \subseteq SessionIds
  BY DEF NoticeInv, RowInv, TypeInv, TypeOK, Has
<1>2. s \in unread => sessions[s].interrupted
  BY DEF NoticeInv, NoticeStands
<1>3. CASE MustExport(sessions[s])
  <2> DEFINE call == [kind |-> kind, id |-> s, row |-> sessions[s], now |-> clock]
  <2>1. PICK c \in Calls : /\ calls' = [calls EXCEPT ![c] = call]
                           /\ UNCHANGED <<disk, unread>>
    BY <1>3 DEF CloseRow, BeginCall
  <2>2. call.kind = kind /\ call.id = s /\ call.row = sessions[s]
    OBVIOUS
  <2> HIDE DEF call
  <2>3. \A d \in Calls : calls'[d] = IF d = c THEN call ELSE calls[d]
    BY <2>1 DEF NoticeInv, RowInv, TypeInv, TypeOK
  <2>4. NoticeStands'
    BY <2>1 DEF disk, NoticeInv, NoticeStands, Has
  <2>5. CopiesMarked'
    BY <1>2, <2>1, <2>2, <2>3 DEF NoticeInv, CopiesMarked
  <2>6. BootCallAlone'
    BY <2>2, <2>3 DEF NoticeInv, BootCallAlone
  <2> QED
    BY <2>4, <2>5, <2>6
<1>4. CASE ~MustExport(sessions[s])
  <2> DEFINE row == Closed(kind, sessions[s], clock, sessions[s].segments)
  <2>1. sessions[s].segments \in Seq(Segment)
    BY <1>1 DEF Row
  <2>2. row \in Row
    BY <1>1, <2>1, ClosedFields
  <2>3. /\ sessions' = [sessions EXCEPT ![s] = row]
        /\ calls' = calls
        /\ unread' = IF kind = "boot" THEN unread \cup {s} ELSE unread
    BY <1>4 DEF CloseRow, UpsertRecordingSession, NoteMark
  <2>4. s \in unread' => row.interrupted
    BY <1>1, <1>2, <2>1, <2>3, ClosedMark
  <2> HIDE DEF row
  <2>5. NoticeStands'
    BY <2>2, <2>3, <2>4, StoredNotice
  <2>6. CopiesMarked' /\ BootCallAlone'
    BY <2>3 DEF NoticeInv, CopiesMarked, BootCallAlone
  <2> QED
    BY <2>5, <2>6
<1> QED
  BY <1>3, <1>4

LEMMA NoticeInvInit == Init => NoticeInv
BY RowInvInit DEF Init, NoticeInv, NoticeStands, CopiesMarked, BootCallAlone

LEMMA NoticeInvNext == NoticeInv /\ [Next]_vars => NoticeInv'
<1> SUFFICES ASSUME NoticeInv, [Next]_vars PROVE NoticeInv'
  OBVIOUS
<1>r. RowInv'
  BY RowInvNext DEF NoticeInv
<1>a. TypeOK
  BY DEF NoticeInv, RowInv, TypeInv
<1>1. ASSUME NEW sump \in Sumps, StartRecordingSession(sump) PROVE NoticeInv'
  <2> DEFINE row == [sump |-> sump, status |-> "recording", createdAt |-> clock,
                     stoppedAt |-> Null, active |-> clock, segments |-> <<>>,
                     interrupted |-> FALSE]
  <2>1. PICK s \in SessionIds : sessions[s] = Null /\ sessions' = [sessions EXCEPT ![s] = row]
    BY <1>1 DEF StartRecordingSession, UpsertRecordingSession
  <2>2. row \in Row
    BY <1>a DEF Row, Status, TypeOK
  <2> HIDE DEF row
  <2>3. s \notin unread
    BY <2>1 DEF NoticeInv, NoticeStands, Has
  <2>4. NoticeStands'
    BY <1>1, <2>1, <2>2, <2>3, StoredNotice DEF StartRecordingSession
  <2> QED
    BY <1>1, <1>r, <2>4 DEF StartRecordingSession, NoticeInv, CopiesMarked, BootCallAlone
<1>2. ASSUME NEW s \in SessionIds, PauseRecordingSession(s) PROVE NoticeInv'
  <2>1. Has(s) /\ CloseRow("pause", s) /\ app = "running" /\ UNCHANGED app
    BY <1>2 DEF PauseRecordingSession, Recording
  <2> QED
    BY <1>r, <2>1, CloseRowNotice DEF NoticeInv
<1>3. ASSUME NEW s \in SessionIds, ResumeRecordingSession(s) PROVE NoticeInv'
  <2> DEFINE row == [sessions[s] EXCEPT !.status = "recording", !.active = clock]
  <2>1. sessions[s] \in Row
    BY <1>a, <1>3 DEF ResumeRecordingSession, TypeOK, Has
  <2>2. row \in Row /\ row.interrupted = sessions[s].interrupted
    BY <1>a, <2>1 DEF Row, Status, TypeOK
  <2>3. sessions' = [sessions EXCEPT ![s] = row]
    BY <1>3 DEF ResumeRecordingSession, UpsertRecordingSession
  <2> HIDE DEF row
  <2>4. s \in unread => sessions[s].interrupted
    BY DEF NoticeInv, NoticeStands
  <2>5. NoticeStands'
    BY <1>3, <2>2, <2>3, <2>4, StoredNotice DEF ResumeRecordingSession
  <2> QED
    BY <1>3, <1>r, <2>5 DEF ResumeRecordingSession, NoticeInv, CopiesMarked, BootCallAlone
<1>4. ASSUME NEW s \in SessionIds, StopRecordingSession(s) PROVE NoticeInv'
  <2>1. Has(s) /\ CloseRow("stop", s) /\ app = "running" /\ UNCHANGED app
    BY <1>4 DEF StopRecordingSession
  <2> QED
    BY <1>r, <2>1, CloseRowNotice DEF NoticeInv
<1>5. ASSUME NEW s \in SessionIds, DismissInterruptedSession(s) PROVE NoticeInv'
  <2> DEFINE row == [sessions[s] EXCEPT !.interrupted = FALSE]
  <2>1. sessions[s] \in Row
    BY <1>a, <1>5 DEF DismissInterruptedSession, TypeOK, Has
  <2>2. row \in Row
    BY <2>1 DEF Row
  <2>3. sessions' = [sessions EXCEPT ![s] = row] /\ unread' = unread \ {s}
    BY <1>5 DEF DismissInterruptedSession, UpsertRecordingSession
  <2> HIDE DEF row
  <2>4. NoticeStands'
    BY <2>2, <2>3, StoredNotice
  <2> QED
    BY <1>5, <1>r, <2>3, <2>4
       DEF DismissInterruptedSession, NoticeInv, CopiesMarked, BootCallAlone
<1>6. ASSUME NEW sump \in Sumps, EvaluateEventRule(sump) PROVE NoticeInv'
  BY <1>1, <1>4, <1>6 DEF EvaluateEventRule
<1>7. ASSUME NEW s \in SessionIds, CoerceInterruptedSession(s) PROVE NoticeInv'
  <2>1. /\ CloseRow("boot", s) /\ app = "booting" /\ UNCHANGED app
        /\ \A c \in Calls : calls[c] = Null
    BY <1>7 DEF CoerceInterruptedSession
  <2>2. Has(s)
    BY <1>7 DEF CoerceInterruptedSession, NoticeInv, RowInv, TypeInv, BootListsRows
  <2> QED
    BY <1>r, <2>1, <2>2, CloseRowNotice DEF NoticeInv
<1>8. ASSUME NEW c \in Calls, SettleExport(c) PROVE NoticeInv'
  <2>1. PICK rec \in RecIds \cup {Null} :
            sessions' = [sessions EXCEPT ![calls[c].id] =
                Closed(calls[c].kind, calls[c].row, calls[c].now,
                       AppendSegment(calls[c].row, calls[c].now, rec))]
    BY <1>8 DEF SettleExport, UpsertRecordingSession
  <2> DEFINE segs == AppendSegment(calls[c].row, calls[c].now, rec)
             row == Closed(calls[c].kind, calls[c].row, calls[c].now, segs)
  <2>2. /\ calls[c].row \in Row /\ calls[c].now \in Nat /\ calls[c].id \in SessionIds
        /\ calls[c].kind \in {"pause", "stop", "boot"}
    BY <1>8, ExportWindowType DEF SettleExport, NoticeInv, RowInv, Call
  <2>3. segs \in Seq(Segment)
    BY <1>8, SettledRow DEF SettleExport, NoticeInv, RowInv
  <2>4. sessions' = [sessions EXCEPT ![calls[c].id] = row]
    BY <2>1
  <2> HIDE DEF segs
  <2>5. row \in Row
    BY <2>2, <2>3, ClosedFields
  <2>6. /\ calls[c] # Null /\ UNCHANGED app
        /\ unread' = IF calls[c].kind = "boot" THEN unread \cup {calls[c].id} ELSE unread
        /\ \A d \in Calls : calls'[d] = IF d = c THEN Null ELSE calls[d]
    BY <1>8, EndedCall DEF SettleExport, NoteMark
  <2>7. calls[c].id \in unread' => row.interrupted
    <3>1. calls[c].id \in unread' => calls[c].kind = "boot" \/ calls[c].row.interrupted
      BY <2>6 DEF NoticeInv, CopiesMarked
    <3> QED
      BY <2>2, <2>3, <3>1, ClosedMark
  <2> HIDE DEF row
  <2>8. NoticeStands'
    BY <2>2, <2>4, <2>5, <2>6, <2>7, StoredNotice
  <2>9. CopiesMarked'
    <3>1. CASE calls[c].kind = "boot"
      <4>1. \A d \in Calls : calls'[d] = Null
        BY <2>6, <3>1 DEF NoticeInv, BootCallAlone
      <4> QED
        BY <4>1 DEF CopiesMarked
    <3>2. CASE calls[c].kind # "boot"
      BY <2>6, <3>2 DEF NoticeInv, CopiesMarked
    <3> QED
      BY <3>1, <3>2
  <2>10. BootCallAlone'
    BY <2>6 DEF NoticeInv, BootCallAlone
  <2> QED
    BY <1>r, <2>8, <2>9, <2>10 DEF NoticeInv
<1>9. ASSUME NEW c \in Calls, SettleUnsaved(c) PROVE NoticeInv'
  <2>1. /\ calls[c] # Null /\ UNCHANGED <<sessions, unread>>
        /\ app' = IF app = "booting" THEN "running" ELSE app
        /\ \A d \in Calls : calls'[d] = IF d = c THEN Null ELSE calls[d]
    BY <1>9, EndedCall DEF SettleUnsaved
  <2>2. NoticeStands' /\ CopiesMarked'
    BY <2>1 DEF NoticeInv, NoticeStands, CopiesMarked, Has
  <2>3. BootCallAlone'
    <3>1. CASE app = "booting"
      <4>1. \A d \in Calls : calls'[d] = Null
        BY <2>1, <3>1 DEF NoticeInv, BootCallAlone
      <4> QED
        BY <4>1 DEF BootCallAlone
    <3>2. CASE app # "booting"
      BY <2>1, <3>2 DEF NoticeInv, BootCallAlone
    <3> QED
      BY <3>1, <3>2
  <2> QED
    BY <1>r, <2>2, <2>3 DEF NoticeInv
<1>10. CASE Boot
  <2>1. \A c \in Calls : calls[c] = Null
    BY <1>10 DEF Boot, NoticeInv, RowInv, BootAlone
  <2> QED
    BY <1>10, <1>r, <2>1 DEF Boot, NoticeInv, NoticeStands, CopiesMarked, BootCallAlone, Has
<1>11. CASE RegisterIpcHandlers
  BY <1>11, <1>r
     DEF RegisterIpcHandlers, NoticeInv, NoticeStands, CopiesMarked, BootCallAlone, Has
<1>12. CASE Crash
  <2>1. (\A c \in Calls : calls'[c] = Null) /\ UNCHANGED <<sessions, unread>>
    BY <1>12 DEF Crash
  <2> QED
    BY <1>r, <2>1 DEF NoticeInv, NoticeStands, CopiesMarked, BootCallAlone, Has
<1>13. CASE Tick
  BY <1>13, <1>r DEF Tick, NoticeInv, NoticeStands, CopiesMarked, BootCallAlone, Has
<1>14. CASE UNCHANGED vars
  BY <1>14, <1>r DEF vars, NoticeInv, NoticeStands, CopiesMarked, BootCallAlone, Has
<1>15. ASSUME NEW sump \in Sumps, DownloadRecording(sump) PROVE NoticeInv'
  BY <1>15, <1>r
     DEF DownloadRecording, NoticeInv, NoticeStands, CopiesMarked, BootCallAlone, Has
<1> QED
  BY <1>1, <1>2, <1>3, <1>4, <1>5, <1>6, <1>7, <1>8, <1>9, <1>10, <1>11, <1>12, <1>13, <1>14,
     <1>15 DEF Next

\* The notice of an interrupted session stands until the user dismisses it,
\* whatever handlers overlap, whatever fails and wherever a crash comes: no copy
\* of a row that some call still holds is older than the recovery's mark.
THEOREM NoticesStand == Spec => []NoticeStands
<1>1. Spec => []NoticeInv
  BY NoticeInvInit, NoticeInvNext, PTL DEF Spec
<1> QED
  BY <1>1, PTL DEF NoticeInv
-----------------------------------------------------------------------------
(***************************************************************************)
(* The recovery collects: while the application boots, a session that is   *)
(* still recording is in the queue, or a call is closing it.               *)
(***************************************************************************)
BootCollects ==
    app = "booting" => \A s \in SessionIds : Recording(s) =>
        s \in bootQueue \/ \E c \in Calls : calls[c] # Null /\ calls[c].id = s

LEMMA CollectsStep ==
    ~CatalogMayFail /\ RowInv /\ BootCollects /\ [Next]_vars
        => /\ BootCollects'
           /\ [app = "booting" /\ app' = "running" =>
                  \A s \in Rows : sessions[s].status # "recording"]_vars
<1> SUFFICES ASSUME ~CatalogMayFail, RowInv, BootCollects, [Next]_vars
             PROVE  /\ BootCollects'
                    /\ app = "booting" /\ app' = "running" =>
                          \A s \in Rows : sessions[s].status # "recording"
  OBVIOUS
<1> USE DEF BootCollects
<1>1. ASSUME app = "running", app' = "running"
      PROVE  BootCollects'
  BY <1>1
<1>2. ASSUME NEW sump \in Sumps, StartRecordingSession(sump) \/ EvaluateEventRule(sump)
                                \/ DownloadRecording(sump)
      PROVE  app = "running" /\ app' = "running"
  BY <1>2 DEF StartRecordingSession, EvaluateEventRule, StopRecordingSession, DownloadRecording
<1>3. ASSUME NEW s \in SessionIds,
             \/ PauseRecordingSession(s) \/ ResumeRecordingSession(s)
             \/ StopRecordingSession(s) \/ DismissInterruptedSession(s)
      PROVE  app = "running" /\ app' = "running"
  BY <1>3 DEF PauseRecordingSession, ResumeRecordingSession, StopRecordingSession,
              DismissInterruptedSession
<1>4. ASSUME NEW s \in SessionIds, CoerceInterruptedSession(s)
      PROVE  BootCollects' /\ app' = app
  <2>1. /\ Recording(s) /\ sessions[s] \in Row /\ clock \in Nat
        /\ CloseRow("boot", s) /\ app' = app /\ bootQueue' = bootQueue \ {s}
        /\ \A c \in Calls : calls[c] = Null
    BY <1>4 DEF CoerceInterruptedSession, RowInv, BootAlone, TypeInv, TypeOK, Recording, Has
  <2>2. CASE MustExport(sessions[s])
    <3>1. PICK c \in Calls : BeginCall("boot", c, s)
      BY <2>1, <2>2 DEF CloseRow
    <3> DEFINE call == [kind |-> "boot", id |-> s, row |-> sessions[s], now |-> clock]
    <3>2. /\ sessions' = sessions /\ call.id = s
          /\ calls' = [calls EXCEPT ![c] = call]
      BY <3>1 DEF BeginCall, disk
    <3>3. call \in Call
      BY <2>1 DEF Call
    <3> HIDE DEF call
    <3>4. calls'[c] = call /\ call # Null
      BY <3>2, <3>3, NullAssumption DEF RowInv, TypeInv, TypeOK
    <3> QED
      BY <2>1, <3>2, <3>4 DEF Recording, Has
  <2>3. CASE ~MustExport(sessions[s])
    <3> DEFINE row == Closed("boot", sessions[s], clock, sessions[s].segments)
    <3>1. row.status = "paused"
      <4>1. sessions[s].segments \in Seq(Segment)
        BY <2>1 DEF Row
      <4> QED
        BY <2>1, <4>1, ClosedFields
    <3>2. sessions' = [sessions EXCEPT ![s] = row]
      BY <2>1, <2>3 DEF CloseRow, UpsertRecordingSession
    <3> HIDE DEF row
    <3>3. \A t \in SessionIds : sessions'[t] = IF t = s THEN row ELSE sessions[t]
      BY <3>2 DEF RowInv, TypeInv, TypeOK
    <3> QED
      BY <2>1, <3>1, <3>3 DEF Recording, Has
  <2> QED
    BY <2>2, <2>3, <2>1
<1>5. ASSUME NEW c \in Calls, SettleExport(c)
      PROVE  BootCollects' /\ app' = app
  <2>1. PICK rec \in RecIds \cup {Null} :
           sessions' = [sessions EXCEPT ![calls[c].id] =
             Closed(calls[c].kind, calls[c].row, calls[c].now,
                    AppendSegment(calls[c].row, calls[c].now, rec))]
    BY <1>5 DEF SettleExport, UpsertRecordingSession
  <2> DEFINE row == Closed(calls[c].kind, calls[c].row, calls[c].now,
                           AppendSegment(calls[c].row, calls[c].now, rec))
  <2>2. row.status # "recording"
    <3>1. calls[c] # Null
      BY <1>5 DEF SettleExport
    <3>2. calls[c] \in Call
      BY <3>1, ExportWindowType DEF RowInv
    <3>3. /\ calls[c].kind \in {"pause", "stop", "boot"} /\ calls[c].row \in Row
          /\ calls[c].now \in Nat
      BY <3>2 DEF Call
    <3>4. AppendSegment(calls[c].row, calls[c].now, rec) \in Seq(Segment)
      BY <3>1, SettledRow DEF RowInv
    <3> QED
      BY <3>3, <3>4, ClosedFields
  <2> HIDE DEF row
  <2>3. \A t \in SessionIds : sessions'[t] = IF t = calls[c].id THEN row ELSE sessions[t]
    BY <2>1 DEF row, RowInv, TypeInv, TypeOK
  <2>4. \A d \in Calls : d # c => calls'[d] = calls[d]
    BY <1>5 DEF SettleExport, EndCall, RowInv, TypeInv, TypeOK
  <2> QED
    BY <1>5, <2>2, <2>3, <2>4 DEF SettleExport, Recording, Has
<1>6. ASSUME NEW c \in Calls, SettleUnsaved(c)  PROVE  FALSE
  BY <1>6 DEF SettleUnsaved
<1>7. CASE Boot
  BY <1>7 DEF Boot, Recording, Has
<1>8. CASE RegisterIpcHandlers
  BY <1>8 DEF RegisterIpcHandlers, Rows, Recording, Has
<1>9. CASE Crash
  BY <1>9 DEF Crash
<1>10. CASE Tick \/ UNCHANGED vars
  BY <1>10 DEF Tick, vars, Recording, Has
<1> QED
  BY <1>1, <1>2, <1>3, <1>4, <1>5, <1>6, <1>7, <1>8, <1>9, <1>10 DEF Next

\* With a catalog that does not fail, no session is left in the recording status by
\* the time the handlers are registered, however often the boot itself was cut short.
THEOREM BootLeavesNoRecording == ~CatalogMayFail => (Spec => BootRecoversAll)
<1> SUFFICES ASSUME ~CatalogMayFail  PROVE  Spec => BootRecoversAll
  OBVIOUS
<1>1. Init => BootCollects
  BY DEF Init, BootCollects
<1>2. RowInv /\ BootCollects /\ [Next]_vars
        => /\ BootCollects'
           /\ [app = "booting" /\ app' = "running" =>
                  \A s \in Rows : sessions[s].status # "recording"]_vars
  BY CollectsStep
<1> QED
  BY <1>1, <1>2, RowInvariance, PTL DEF Spec, BootRecoversAll

-----------------------------------------------------------------------------
(***************************************************************************)
(* When the calls that export come one at a time, what a call copied of a  *)
(* row before its export is still what the row says when the export has    *)
(* settled, and each step moves at most one session, in one of five ways.  *)
(***************************************************************************)

SingleCall == \A c, d \in Calls : c = d

\* Two rows that differ at most in the notice of an interruption.
SameButNotice(x, y) ==
    /\ x.sump = y.sump
    /\ x.status = y.status
    /\ x.createdAt = y.createdAt
    /\ x.stoppedAt = y.stoppedAt
    /\ x.active = y.active
    /\ x.segments = y.segments

\* The copy a call holds is the row, but for a notice dismissed in the meantime.
CopiesFresh ==
    \A c \in Calls : calls[c] # Null =>
        Has(calls[c].id) /\ SameButNotice(sessions[calls[c].id], calls[c].row)

SerialInv == RowInv /\ CopiesFresh /\ OneActivePerSump

-----------------------------------------------------------------------------
(***************************************************************************)
(* The five ways a step may move a session.                                *)
(***************************************************************************)

FreshRow(sump) ==
    [sump |-> sump, status |-> "recording", createdAt |-> clock, stoppedAt |-> Null,
     active |-> clock, segments |-> <<>>, interrupted |-> FALSE]

Started(s) ==
    /\ ~Has(s)
    /\ \E sump \in Sumps : ActiveSessions(sump) = {} /\ sessions'[s] = FreshRow(sump)

Resumed(s) ==
    /\ Has(s) /\ sessions[s].status = "paused"
    /\ sessions'[s] = [sessions[s] EXCEPT !.status = "recording", !.active = clock]

Cut(s) ==
    /\ Has(s) /\ sessions[s].status = "recording"
    /\ sessions'[s] \in Row
    /\ sessions'[s].sump = sessions[s].sump
    /\ sessions'[s].status \in {"paused", "stopped"}
    /\ sessions'[s].active = Null
    /\ \E to \in sessions[s].active .. clock, rec \in RecIds \cup {Null} :
         sessions'[s].segments = AppendSegment(sessions[s], to, rec)

EndedPaused(s) ==
    /\ Has(s) /\ sessions[s].status = "paused"
    /\ sessions'[s] \in Row
    /\ sessions'[s].sump = sessions[s].sump
    /\ sessions'[s].status = "stopped"
    /\ sessions'[s].active = Null
    /\ sessions'[s].segments = sessions[s].segments

Dismissed(s) ==
    /\ Has(s)
    /\ sessions'[s] = [sessions[s] EXCEPT !.interrupted = FALSE]

OnlyMoves(s) == \A t \in SessionIds : t # s => sessions'[t] = sessions[t]

SessionMoves ==
    /\ clock' = clock
    /\ \E s \in SessionIds :
         /\ OnlyMoves(s)
         /\ Started(s) \/ Resumed(s) \/ Cut(s) \/ EndedPaused(s) \/ Dismissed(s)

LEMMA TypedRows ==
    ASSUME RowInv
    PROVE  /\ \A s \in SessionIds : Has(s) => sessions[s] \in Row /\ Coherent(sessions[s])
           /\ \A c \in Calls : calls[c] # Null =>
                /\ calls[c] \in Call /\ calls[c].kind \in {"pause", "stop", "boot"}
                /\ calls[c].id \in SessionIds
                /\ calls[c].row \in Row /\ calls[c].now \in Nat
           /\ clock \in Nat
           /\ Null \notin Row /\ Null \notin Nat /\ Null \notin Call
BY NullAssumption DEF RowInv, TypeInv, TypeOK, RowsCoherent, Rows, Has, Call

\* A row without an open segment is closed only by a stop of a paused session.
LEMMA CloseRowMoves ==
    ASSUME RowInv, NEW kind \in {"pause", "stop", "boot"}, NEW s \in SessionIds,
           Recording(s) \/ (kind = "stop" /\ Has(s) /\ sessions[s].status = "paused"),
           CloseRow(kind, s), UNCHANGED clock
    PROVE  \/ /\ UNCHANGED sessions
              /\ \E c \in Calls :
                   /\ calls'[c].id = s /\ calls'[c].row = sessions[s] /\ Has(s)
                   /\ \A d \in Calls : d # c => calls'[d] = calls[d]
           \/ OnlyMoves(s) /\ EndedPaused(s) /\ UNCHANGED calls
<1>1. sessions[s] \in Row /\ Coherent(sessions[s]) /\ Has(s) /\ clock \in Nat
  BY TypedRows DEF Recording
<1>2. CASE MustExport(sessions[s])
  <2>1. PICK c \in Calls : BeginCall(kind, c, s)
    BY <1>2 DEF CloseRow
  <2> DEFINE call == [kind |-> kind, id |-> s, row |-> sessions[s], now |-> clock]
  <2>2. /\ sessions' = sessions /\ call.id = s /\ call.row = sessions[s]
        /\ calls' = [calls EXCEPT ![c] = call]
    BY <2>1 DEF BeginCall, disk
  <2> HIDE DEF call
  <2>3. \A d \in Calls : calls'[d] = IF d = c THEN call ELSE calls[d]
    BY <2>2 DEF RowInv, TypeInv, TypeOK
  <2> QED
    BY <1>1, <2>2, <2>3
<1>3. CASE ~MustExport(sessions[s])
  <2>1. kind = "stop" /\ sessions[s].status = "paused"
    <3>1. ~Recording(s)
      BY <1>1, <1>3 DEF MustExport, Coherent, Recording
    <3> QED
      BY <3>1
  <2> DEFINE row == Closed("stop", sessions[s], clock, sessions[s].segments)
  <2>2. /\ sessions' = [sessions EXCEPT ![s] = row] /\ UNCHANGED calls
    BY <1>3, <2>1 DEF CloseRow, UpsertRecordingSession
  <2>3. sessions[s].segments \in Seq(Segment)
    BY <1>1 DEF Row
  <2>4. /\ row \in Row /\ row.sump = sessions[s].sump /\ row.status = "stopped"
        /\ row.active = Null /\ row.segments = sessions[s].segments
    BY <1>1, <2>3 DEF Closed, Row, Status
  <2> HIDE DEF row
  <2>5. \A t \in SessionIds : sessions'[t] = IF t = s THEN row ELSE sessions[t]
    BY <2>2 DEF RowInv, TypeInv, TypeOK
  <2> QED
    BY <1>1, <2>1, <2>2, <2>4, <2>5 DEF OnlyMoves, EndedPaused
<1> QED
  BY <1>2, <1>3

\* An export that settles cuts off the session it was begun for.
LEMMA SettleCuts ==
    ASSUME RowInv, CopiesFresh, NEW c \in Calls, SettleExport(c)
    PROVE  OnlyMoves(calls[c].id) /\ Cut(calls[c].id) /\ calls'[c] = Null
<1> DEFINE s == calls[c].id
           copy == calls[c].row
           now == calls[c].now
           kind == calls[c].kind
<1>1. PICK rec \in RecIds \cup {Null} :
         sessions' = [sessions EXCEPT ![s] = Closed(kind, copy, now, AppendSegment(copy, now, rec))]
  BY DEF SettleExport, UpsertRecordingSession
<1>2. /\ s \in SessionIds /\ copy \in Row /\ now \in Nat /\ clock \in Nat
      /\ kind \in {"pause", "stop", "boot"} /\ calls[c] # Null
  BY TypedRows DEF SettleExport
<1>3. Has(s) /\ SameButNotice(sessions[s], copy) /\ calls'[c] = Null
  BY <1>2 DEF CopiesFresh, SettleExport, EndCall, RowInv, TypeInv, TypeOK
<1>4. /\ copy.status = "recording" /\ copy.active # Null /\ copy.active \in Nat
      /\ copy.active <= now /\ now <= clock
  <2>1. CallChained(calls[c], clock)
    BY <1>2 DEF RowInv, CallsChained
  <2>2. copy.status = "recording" /\ copy.active # Null
    BY <2>1 DEF CallChained, Coherent
  <2>3. copy.active \in Nat
    BY <1>2, <2>2 DEF Row
  <2> QED
    BY <2>1, <2>2, <2>3 DEF CallChained, Chained
<1> DEFINE segs == AppendSegment(copy, now, rec)
           row == Closed(kind, copy, now, segs)
<1> HIDE DEF s, copy, now, kind
<1>5. segs \in Seq(Segment)
  BY <1>2, <1>4, AppendSegmentFields
<1>6. segs = AppendSegment(sessions[s], now, rec)
  BY <1>3 DEF SameButNotice, AppendSegment
<1> HIDE DEF segs
<1>7. /\ row \in Row /\ row.sump = copy.sump /\ row.segments = segs /\ row.active = Null
      /\ row.status \in {"paused", "stopped"}
  <2>1. /\ row \in Row /\ row.sump = copy.sump /\ row.segments = segs /\ row.active = Null
    BY <1>2, <1>5 DEF Closed, Row, Status
  <2>2. row.status = IF kind = "stop" THEN "stopped" ELSE "paused"
    BY <1>2, <1>5 DEF Closed, Row, Status
  <2> QED
    BY <2>1, <2>2
<1>8. \A t \in SessionIds : sessions'[t] = IF t = s THEN row ELSE sessions[t]
  BY <1>1, <1>2 DEF segs, RowInv, TypeInv, TypeOK
<1> HIDE DEF row
<1>9. OnlyMoves(s) /\ sessions'[s] = row
  BY <1>2, <1>8 DEF OnlyMoves
<1>10. now \in sessions[s].active .. clock
  BY <1>2, <1>3, <1>4 DEF SameButNotice
<1>11. Cut(s)
  BY <1>3, <1>4, <1>6, <1>7, <1>9, <1>10 DEF Cut, SameButNotice
<1> QED
  BY <1>3, <1>9, <1>11 DEF s

\* A copy stays fresh when no session moves, and one begun now is.
LEMMA FreshWhenStill ==
    ASSUME CopiesFresh, UNCHANGED sessions,
           \A c \in Calls : calls'[c] # Null =>
              \/ calls'[c] = calls[c]
              \/ Has(calls'[c].id) /\ calls'[c].row = sessions[calls'[c].id]
    PROVE  CopiesFresh'
BY DEF CopiesFresh, SameButNotice, Has

\* A session that a call is closing is recording, so of the others' moves it is
\* touched by a dismissal alone.
LEMMA FreshWhenOthersMove ==
    ASSUME RowInv, CopiesFresh, UNCHANGED calls, NEW s \in SessionIds, OnlyMoves(s),
           Started(s) \/ Resumed(s) \/ EndedPaused(s) \/ Dismissed(s)
    PROVE  CopiesFresh'
<1> SUFFICES ASSUME NEW c \in Calls, calls[c] # Null
             PROVE  /\ sessions'[calls[c].id] # Null
                    /\ SameButNotice(sessions'[calls[c].id], calls[c].row)
  BY DEF CopiesFresh, Has
<1> DEFINE t == calls[c].id
<1>1. /\ t \in SessionIds /\ Has(t) /\ SameButNotice(sessions[t], calls[c].row)
      /\ sessions[t] \in Row
  BY TypedRows DEF CopiesFresh
<1>2. sessions[t].status = "recording"
  BY <1>1 DEF SameButNotice, RowInv, CallsChained, CallChained
<1> HIDE DEF t
<1>3. CASE t # s
  BY <1>1, <1>3 DEF OnlyMoves, Has, t
<1>4. CASE t = s
  <2>1. Dismissed(s)
    BY <1>1, <1>2, <1>4 DEF Started, Resumed, EndedPaused
  <2>2. sessions'[t] = [sessions[t] EXCEPT !.interrupted = FALSE]
    BY <1>4, <2>1 DEF Dismissed
  <2>3. sessions'[t] \in Row /\ SameButNotice(sessions'[t], sessions[t])
    BY <1>1, <2>2 DEF Row, SameButNotice
  <2> QED
    BY <1>1, <2>3, TypedRows DEF SameButNotice, t
<1> QED
  BY <1>3, <1>4

\* Each step moves at most one session, in one of the five ways.
LEMMA SerialMoves ==
    ASSUME SingleCall, RowInv, CopiesFresh, Next
    PROVE  /\ UNCHANGED sessions \/ SessionMoves
           /\ CopiesFresh'
<1>a. sessions \in [SessionIds -> Row \cup {Null}] /\ calls \in [Calls -> Call \cup {Null}]
  BY DEF RowInv, TypeInv, TypeOK
<1>1. ASSUME NEW sump \in Sumps, StartRecordingSession(sump)
      PROVE  SessionMoves /\ CopiesFresh'
  <2>1. PICK s \in SessionIds : sessions[s] = Null /\ sessions' = [sessions EXCEPT ![s] = FreshRow(sump)]
    BY <1>1 DEF StartRecordingSession, UpsertRecordingSession, FreshRow
  <2>2. OnlyMoves(s) /\ Started(s) /\ UNCHANGED <<calls, clock>>
    BY <1>1, <1>a, <2>1 DEF StartRecordingSession, OnlyMoves, Started, Has
  <2> QED
    BY <2>2, FreshWhenOthersMove DEF SessionMoves
<1>2. ASSUME NEW kind \in {"pause", "stop", "boot"}, NEW s \in SessionIds,
             Recording(s) \/ (kind = "stop" /\ Has(s) /\ sessions[s].status = "paused"),
             CloseRow(kind, s), UNCHANGED clock
      PROVE  /\ UNCHANGED sessions \/ SessionMoves
             /\ CopiesFresh'
  <2>1. CASE OnlyMoves(s) /\ EndedPaused(s) /\ UNCHANGED calls
    BY <1>2, <2>1, FreshWhenOthersMove DEF SessionMoves
  <2>2. CASE /\ UNCHANGED sessions
             /\ \E c \in Calls :
                  /\ calls'[c].id = s /\ calls'[c].row = sessions[s] /\ Has(s)
                  /\ \A d \in Calls : d # c => calls'[d] = calls[d]
    BY <2>2, FreshWhenStill
  <2> QED
    BY <1>2, <2>1, <2>2, CloseRowMoves
<1>3. ASSUME NEW s \in SessionIds, PauseRecordingSession(s)
      PROVE  /\ UNCHANGED sessions \/ SessionMoves
             /\ CopiesFresh'
  BY <1>2, <1>3 DEF PauseRecordingSession
<1>4. ASSUME NEW s \in SessionIds, StopRecordingSession(s)
      PROVE  /\ UNCHANGED sessions \/ SessionMoves
             /\ CopiesFresh'
  <2>1. Recording(s) \/ (Has(s) /\ sessions[s].status = "paused")
    BY <1>4, TypedRows DEF StopRecordingSession, Recording, Row, Status
  <2> QED
    BY <1>2, <1>4, <2>1 DEF StopRecordingSession
<1>5. ASSUME NEW s \in SessionIds, ResumeRecordingSession(s)
      PROVE  SessionMoves /\ CopiesFresh'
  <2>1. OnlyMoves(s) /\ Resumed(s) /\ UNCHANGED <<calls, clock>>
    BY <1>5, <1>a DEF ResumeRecordingSession, UpsertRecordingSession, OnlyMoves, Resumed
  <2> QED
    BY <2>1, FreshWhenOthersMove DEF SessionMoves
<1>6. ASSUME NEW s \in SessionIds, DismissInterruptedSession(s)
      PROVE  SessionMoves /\ CopiesFresh'
  <2>1. OnlyMoves(s) /\ Dismissed(s) /\ UNCHANGED <<calls, clock>>
    BY <1>6, <1>a DEF DismissInterruptedSession, UpsertRecordingSession, OnlyMoves, Dismissed
  <2> QED
    BY <2>1, FreshWhenOthersMove DEF SessionMoves
<1>7. ASSUME NEW sump \in Sumps, EvaluateEventRule(sump)
      PROVE  /\ UNCHANGED sessions \/ SessionMoves
             /\ CopiesFresh'
  BY <1>1, <1>4, <1>7 DEF EvaluateEventRule
<1>8. ASSUME NEW s \in SessionIds, CoerceInterruptedSession(s)
      PROVE  /\ UNCHANGED sessions \/ SessionMoves
             /\ CopiesFresh'
  BY <1>2, <1>8 DEF CoerceInterruptedSession, RowInv, BootAlone
<1>9. ASSUME NEW c \in Calls, SettleExport(c)
      PROVE  SessionMoves /\ CopiesFresh'
  <2>1. OnlyMoves(calls[c].id) /\ Cut(calls[c].id) /\ calls'[c] = Null
    BY <1>9, SettleCuts
  <2>2. calls[c].id \in SessionIds /\ UNCHANGED clock
    BY <1>9, TypedRows DEF SettleExport
  <2>3. CopiesFresh'
    BY <2>1 DEF SingleCall, CopiesFresh
  <2> QED
    BY <2>1, <2>2, <2>3 DEF SessionMoves
<1>10. ASSUME NEW c \in Calls, SettleUnsaved(c)
       PROVE  UNCHANGED sessions /\ CopiesFresh'
  BY <1>10, <1>a, FreshWhenStill DEF SettleUnsaved, EndCall
<1>11. CASE Boot \/ RegisterIpcHandlers \/ Tick \/ \E sump \in Sumps : DownloadRecording(sump)
  BY <1>11, FreshWhenStill DEF Boot, RegisterIpcHandlers, Tick, DownloadRecording
<1>12. CASE Crash
  BY <1>12, FreshWhenStill DEF Crash
<1> QED
  BY <1>1, <1>3, <1>4, <1>5, <1>6, <1>7, <1>8, <1>9, <1>10, <1>11, <1>12 DEF Next

\* What a move leaves of the status and the sump of the session that moves.
LEMMA MoveStatus ==
    ASSUME RowInv, NEW s \in SessionIds,
           Resumed(s) \/ Cut(s) \/ EndedPaused(s) \/ Dismissed(s)
    PROVE  /\ Has(s) /\ sessions'[s] \in Row /\ sessions'[s] # Null
           /\ sessions'[s].sump = sessions[s].sump
           /\ sessions'[s].status \in {"recording", "paused"}
                 => sessions[s].status \in {"recording", "paused"}
<1>1. Has(s) /\ sessions[s] \in Row /\ clock \in Nat /\ Null \notin Row
  BY TypedRows DEF Resumed, Cut, EndedPaused, Dismissed
<1>2. CASE Resumed(s)
  <2> DEFINE x == sessions[s]
             y == [x EXCEPT !.status = "recording", !.active = clock]
  <2>1. sessions'[s] = y /\ x.status = "paused" /\ x \in Row
    BY <1>1, <1>2 DEF Resumed
  <2> HIDE DEF x
  <2>2. y \in Row /\ y.sump = x.sump
    BY <1>1, <2>1 DEF Row, Status
  <2> HIDE DEF y
  <2> QED
    BY <1>1, <2>1, <2>2 DEF x
<1>3. CASE Cut(s) \/ EndedPaused(s)
  BY <1>1, <1>3 DEF Cut, EndedPaused
<1>4. CASE Dismissed(s)
  BY <1>1, <1>4 DEF Dismissed, Row
<1> QED
  BY <1>2, <1>3, <1>4

LEMMA OneActiveStep ==
    ASSUME RowInv, OneActivePerSump, UNCHANGED sessions \/ SessionMoves
    PROVE  OneActivePerSump'
<1> DEFINE Active(u, sump) == /\ Has(u) /\ sessions[u].sump = sump
                              /\ sessions[u].status \in {"recording", "paused"}
<1>1. \A sump, u : u \in ActiveSessions(sump) <=> u \in SessionIds /\ Active(u, sump)
  BY DEF ActiveSessions
<1>2. \A sump, u : u \in ActiveSessions(sump)' <=> u \in SessionIds /\ Active(u, sump)'
  BY DEF ActiveSessions, Has
<1>3. CASE UNCHANGED sessions
  BY <1>3 DEF OneActivePerSump, ActiveSessions, Has
<1>4. CASE SessionMoves
  <2>1. PICK s \in SessionIds :
           /\ OnlyMoves(s)
           /\ Started(s) \/ Resumed(s) \/ Cut(s) \/ EndedPaused(s) \/ Dismissed(s)
    BY <1>4 DEF SessionMoves
  <2>2. \A sump, u : u # s /\ u \in ActiveSessions(sump)' => u \in ActiveSessions(sump)
    BY <1>1, <1>2, <2>1 DEF OnlyMoves, Has
  <2>3. CASE Started(s)
    <3>1. PICK new \in Sumps : ActiveSessions(new) = {} /\ sessions'[s].sump = new
      BY <2>3 DEF Started, FreshRow
    <3>2. \A sump : s \in ActiveSessions(sump)' => sump = new
      BY <1>2, <3>1
    <3> QED
      BY <2>2, <3>1, <3>2 DEF OneActivePerSump
  <2>4. CASE Resumed(s) \/ Cut(s) \/ EndedPaused(s) \/ Dismissed(s)
    <3>1. \A sump : s \in ActiveSessions(sump)' => s \in ActiveSessions(sump)
      BY <1>1, <1>2, <2>4, MoveStatus
    <3> QED
      BY <2>2, <3>1 DEF OneActivePerSump
  <2> QED
    BY <2>1, <2>3, <2>4
<1> QED
  BY <1>3, <1>4

LEMMA SerialInvInit == Init => SerialInv
BY RowInvInit DEF Init, SerialInv, CopiesFresh, OneActivePerSump, ActiveSessions, Has

LEMMA SerialInvNext ==
    SingleCall /\ SerialInv /\ [Next]_vars
        => SerialInv' /\ (UNCHANGED sessions \/ SessionMoves)
<1> SUFFICES ASSUME SingleCall, SerialInv, [Next]_vars
             PROVE  SerialInv' /\ (UNCHANGED sessions \/ SessionMoves)
  OBVIOUS
<1>1. RowInv'
  BY RowInvNext DEF SerialInv
<1>2. CASE Next
  BY <1>1, <1>2, SerialMoves, OneActiveStep DEF SerialInv
<1>3. CASE UNCHANGED vars
  <2>1. CopiesFresh'
    BY <1>3, FreshWhenStill DEF SerialInv, vars
  <2> QED
    BY <1>1, <1>3, <2>1, OneActiveStep DEF SerialInv, vars
<1> QED
  BY <1>2, <1>3

LEMMA SerialInvariance == SingleCall => (Spec => []SerialInv)
<1> SUFFICES ASSUME SingleCall  PROVE  Spec => []SerialInv
  OBVIOUS
<1>1. SerialInv /\ [Next]_vars => SerialInv'
  BY SerialInvNext
<1> QED
  BY <1>1, SerialInvInit, PTL DEF Spec

\* A sump has at most one session that is recording or paused (start, event rules).
THEOREM OneSessionRuns ==
    (\A c, d \in Calls : c = d) => (Spec => []OneActivePerSump)
<1>1. SerialInv => OneActivePerSump
  BY DEF SerialInv
<1> QED
  BY <1>1, SerialInvariance, PTL DEF SingleCall

-----------------------------------------------------------------------------
(***************************************************************************)
(* What no step does to a session.                                         *)
(***************************************************************************)

KeepsStopped ==
    \A s \in Rows : sessions[s].status = "stopped" =>
        /\ Has(s)'
        /\ sessions'[s] = [sessions[s] EXCEPT !.interrupted = sessions'[s].interrupted]

LEMMA StoppedStep ==
    ASSUME RowInv, UNCHANGED sessions \/ SessionMoves
    PROVE  KeepsStopped
<1> SUFFICES ASSUME NEW s \in SessionIds, Has(s), sessions[s].status = "stopped"
             PROVE  /\ sessions'[s] # Null
                    /\ sessions'[s] = [sessions[s] EXCEPT !.interrupted = sessions'[s].interrupted]
  BY DEF KeepsStopped, Rows, Has
<1> DEFINE x == sessions[s]
           y == sessions'[s]
<1>1. x \in Row /\ Null \notin Row
  BY TypedRows
<1>2. y = x \/ Dismissed(s)
  BY DEF SessionMoves, OnlyMoves, Started, Resumed, Cut, EndedPaused, Dismissed
<1>3. y = x \/ y = [x EXCEPT !.interrupted = FALSE]
  BY <1>2 DEF Dismissed
<1> HIDE DEF x, y
<1>4. y \in Row /\ y = [x EXCEPT !.interrupted = y.interrupted]
  <2>1. CASE y = x
    BY <1>1, <2>1 DEF Row
  <2>2. CASE y = [x EXCEPT !.interrupted = FALSE]
    <3>1. y \in Row /\ y.interrupted = FALSE
      BY <1>1, <2>2 DEF Row
    <3> QED
      BY <2>2, <3>1
  <2> QED
    BY <1>3, <2>1, <2>2
<1> QED
  BY <1>1, <1>4 DEF x, y

\* Once stopped, a session stays as its stop left it, but for its notice.
THEOREM StoppedForGood == (\A c, d \in Calls : c = d) => (Spec => StoppedIsFinal)
<1> SUFFICES ASSUME SingleCall  PROVE  Spec => [][KeepsStopped]_vars
  BY DEF SingleCall, StoppedIsFinal, KeepsStopped
<1>1. SerialInv /\ [Next]_vars => [KeepsStopped]_vars
  BY SerialInvNext, StoppedStep DEF SerialInv
<1> QED
  BY <1>1, SerialInvariance, PTL DEF Spec

KeepsCaptures ==
    \A s \in Rows :
        /\ sessions[s].active # Null
        /\ sessions'[s].active # sessions[s].active
        => /\ Len(sessions'[s].segments) = Len(sessions[s].segments) + 1
           /\ SubSeq(sessions'[s].segments, 1, Len(sessions[s].segments)) = sessions[s].segments
           /\ sessions'[s].segments[Len(sessions'[s].segments)].startedAt
                = sessions[s].active

LEMMA CaptureStep ==
    ASSUME RowInv, UNCHANGED sessions \/ SessionMoves
    PROVE  KeepsCaptures
<1> SUFFICES ASSUME NEW s \in SessionIds, Has(s), sessions[s].active # Null,
                    sessions'[s].active # sessions[s].active
             PROVE  /\ Len(sessions'[s].segments) = Len(sessions[s].segments) + 1
                    /\ SubSeq(sessions'[s].segments, 1, Len(sessions[s].segments))
                          = sessions[s].segments
                    /\ sessions'[s].segments[Len(sessions'[s].segments)].startedAt
                          = sessions[s].active
  BY DEF KeepsCaptures, Rows
<1> DEFINE x == sessions[s]
           segs == sessions'[s].segments
           n == Len(x.segments)
<1>1. x \in Row /\ Coherent(x) /\ x.status = "recording" /\ clock \in Nat
  BY TypedRows DEF Coherent
<1>2. Cut(s)
  <2>1. SessionMoves /\ (Started(s) \/ Resumed(s) \/ Cut(s) \/ EndedPaused(s) \/ Dismissed(s))
    BY DEF SessionMoves, OnlyMoves
  <2>2. Cut(s) \/ Dismissed(s)
    BY <1>1, <2>1 DEF Started, Resumed, EndedPaused
  <2>3. Dismissed(s) => sessions'[s].active = x.active
    BY <1>1 DEF Dismissed, Row
  <2> QED
    BY <2>2, <2>3
<1>3. PICK to \in x.active .. clock, rec \in RecIds \cup {Null} :
         segs = AppendSegment(x, to, rec)
  BY <1>2 DEF Cut
<1>4. x.active \in Nat /\ to \in Nat
  BY <1>1, <1>3 DEF Row
<1> HIDE DEF x, segs
<1>5. /\ segs \in Seq(Segment) /\ Len(segs) = n + 1 /\ n \in Nat
      /\ x.segments \in Seq(Segment)
      /\ \A i \in 1..n : segs[i] = x.segments[i]
      /\ segs[n + 1].startedAt = x.active
  <2>1. n \in Nat /\ x.segments \in Seq(Segment) /\ x.active # Null
    BY <1>1, <1>4, NullAssumption, RowTypes
  <2>2. /\ segs \in Seq(Segment)
        /\ Len(segs) = n + 1
        /\ \A i \in 1..n : segs[i] = x.segments[i]
        /\ segs[n + 1] = [segmentNumber |-> n + 1, startedAt |-> x.active,
                         stoppedAt |-> to, recordingId |-> rec]
    BY <1>1, <1>3, <1>4, <2>1, AppendSegmentFields
  <2> QED
    BY <2>1, <2>2
<1>6. SubSeq(segs, 1, n) = x.segments
  <2>1. /\ SubSeq(segs, 1, n) \in Seq(Segment)
        /\ Len(SubSeq(segs, 1, n)) = n
        /\ \A i \in 1..n : SubSeq(segs, 1, n)[i] = segs[i]
    BY <1>5, SubSeqProperties
  <2> QED
    BY <1>5, <2>1, SeqEqual
<1> QED
  BY <1>5, <1>6 DEF x, segs

\* A stretch of recording, once open, is closed only into a segment of its own behind
\* all the earlier ones: no pause, stop, crash or recovery drops one.
THEOREM CapturesAreKept == (\A c, d \in Calls : c = d) => (Spec => NoCaptureDropped)
<1> SUFFICES ASSUME SingleCall  PROVE  Spec => [][KeepsCaptures]_vars
  BY DEF SingleCall, NoCaptureDropped, KeepsCaptures
<1>1. SerialInv /\ [Next]_vars => [KeepsCaptures]_vars
  BY SerialInvNext, CaptureStep DEF SerialInv
<1> QED
  BY <1>1, SerialInvariance, PTL DEF Spec

-----------------------------------------------------------------------------
(***************************************************************************)
(* The sessions implement the plain recorder: a cut, a resume, a start and *)
(* a stop are its steps, and everything else leaves it as it is.           *)
(***************************************************************************)

Stretches(segs) ==
    [i \in 1..Len(segs) |-> [from |-> segs[i].startedAt, to |-> segs[i].stoppedAt,
                             kept |-> segs[i].recordingId # Null]]

NoRecorder == [sump |-> Null, stage |-> "none", open |-> Null, stretches |-> << >>]

AsRecorder(x) ==
    IF x = Null THEN NoRecorder
    ELSE [sump |-> x.sump, stage |-> x.status, open |-> x.active,
          stretches |-> Stretches(x.segments)]

\* What stands for the recorder's state, as the instance Recorder has it.
Recorders ==
    [s \in SessionIds |->
        IF ~Has(s) THEN [sump |-> Null, stage |-> "none", open |-> Null,
                         stretches |-> << >>]
        ELSE [sump      |-> sessions[s].sump,
              stage     |-> sessions[s].status,
              open      |-> sessions[s].active,
              stretches |-> [i \in 1..Len(sessions[s].segments) |->
                  [from |-> sessions[s].segments[i].startedAt,
                   to   |-> sessions[s].segments[i].stoppedAt,
                   kept |-> sessions[s].segments[i].recordingId # Null]]]]

LEMMA RecordersMapped ==
    /\ \A s \in SessionIds : /\ Recorders[s] = AsRecorder(sessions[s])
                             /\ Recorders'[s] = AsRecorder(sessions'[s])
    /\ Recorders = [s \in SessionIds |-> Recorders[s]]
    /\ Recorders' = [s \in SessionIds |-> Recorders'[s]]
BY DEF Recorders, AsRecorder, NoRecorder, Stretches, Has

LEMMA RecorderFields ==
    ASSUME NEW x, x # Null
    PROVE  /\ AsRecorder(x).sump = x.sump
           /\ AsRecorder(x).stage = x.status
           /\ AsRecorder(x).open = x.active
           /\ AsRecorder(x).stretches = Stretches(x.segments)
<1> DEFINE a == x.sump
           b == x.status
           c == x.active
           d == Stretches(x.segments)
<1>1. AsRecorder(x) = [sump |-> a, stage |-> b, open |-> c, stretches |-> d]
  BY DEF AsRecorder
<1> HIDE DEF a, b, c, d
<1>2. /\ AsRecorder(x).sump = a /\ AsRecorder(x).stage = b
      /\ AsRecorder(x).open = c /\ AsRecorder(x).stretches = d
  BY <1>1
<1> QED
  BY <1>2 DEF a, b, c, d

\* The stretch of the segment that is cut off goes behind the others.
LEMMA StretchesAppend ==
    ASSUME NEW row \in Row, row.active # Null, NEW now \in Nat, NEW rec \in RecIds \cup {Null}
    PROVE  Stretches(AppendSegment(row, now, rec))
             = Append(Stretches(row.segments),
                      [from |-> row.active, to |-> now, kept |-> rec # Null])
<1> DEFINE segs == AppendSegment(row, now, rec)
           old == row.segments
           n == Len(old)
           open == row.active
           e == [from |-> open, to |-> now, kept |-> rec # Null]
           S == Stretches(segs)
           T == Stretches(old)
<1>1. n \in Nat /\ old \in Seq(Segment)
  BY RowTypes
<1>2. /\ segs \in Seq(Segment)
      /\ Len(segs) = n + 1
      /\ \A i \in 1..n : segs[i] = old[i]
      /\ segs[n + 1] = [segmentNumber |-> n + 1, startedAt |-> open,
                       stoppedAt |-> now, recordingId |-> rec]
  BY <1>1, AppendSegmentFields
<1> HIDE DEF segs, old, open
<1>3. Stretches(segs)[n + 1] = e
  <2> DEFINE g == segs[n + 1]
  <2>1. g.startedAt = open /\ g.stoppedAt = now /\ g.recordingId = rec
    BY <1>2
  <2>2. n + 1 \in 1..Len(segs)
    BY <1>1, <1>2
  <2> HIDE DEF g
  <2>3. S[n + 1] = [from |-> g.startedAt, to |-> g.stoppedAt, kept |-> g.recordingId # Null]
    BY <2>2 DEF Stretches, g
  <2> QED
    BY <2>1, <2>3
<1>4. /\ S = [i \in 1..(n + 1) |-> S[i]]
      /\ T = [i \in 1..n |-> T[i]]
  BY <1>2 DEF Stretches
<1>5. \A i \in 1..n : S[i] = T[i]
  <2> SUFFICES ASSUME NEW i \in 1..n  PROVE  S[i] = T[i]
    OBVIOUS
  <2>1. segs[i] = old[i] /\ i \in 1..Len(segs)
    BY <1>1, <1>2
  <2> QED
    BY <2>1 DEF Stretches
<1> HIDE DEF S, T, e
<1> DEFINE U == {T[i] : i \in 1..n} \cup {e}
<1>6. T \in Seq(U) /\ Len(T) = n /\ e \in U
  BY <1>1, <1>4
<1> HIDE DEF U
<1>7. /\ Append(T, e) \in Seq(U)
      /\ Len(Append(T, e)) = n + 1
      /\ \A i \in 1..n : Append(T, e)[i] = T[i]
      /\ Append(T, e)[n + 1] = e
  BY <1>1, <1>6, AppendProperties
<1>8. S \in Seq(U) /\ Len(S) = n + 1
  <2>1. \A i \in 1..(n + 1) : S[i] \in U
    BY <1>1, <1>3, <1>5, <1>6 DEF S
  <2> QED
    BY <1>1, <1>4, <2>1
<1>9. S = Append(T, e)
  <2>1. \A i \in 1..(n + 1) : S[i] = Append(T, e)[i]
    BY <1>1, <1>3, <1>5, <1>7 DEF S
  <2> QED
    BY <1>7, <1>8, <2>1, SeqEqual
<1> QED
  BY <1>9 DEF S, T, e, segs, old, open

LEMMA ClockStep == [Next]_vars => clock' = clock \/ (clock' = clock + 1 /\ UNCHANGED sessions)
<1> SUFFICES ASSUME [Next]_vars
             PROVE  clock' = clock \/ (clock' = clock + 1 /\ UNCHANGED sessions)
  OBVIOUS
<1>1. CASE Tick
  BY <1>1 DEF Tick
<1>2. CASE UNCHANGED vars
  BY <1>2 DEF vars
<1>3. CASE Next /\ ~Tick
  BY <1>3 DEF Next, StartRecordingSession, EvaluateEventRule, DownloadRecording,
     PauseRecordingSession, ResumeRecordingSession, StopRecordingSession,
     DismissInterruptedSession, CoerceInterruptedSession, SettleExport, SettleUnsaved, Boot,
     RegisterIpcHandlers, Crash
<1> QED
  BY <1>1, <1>2, <1>3

\* Each of the five moves is a step of the recorder, or none.
LEMMA MoveRecords ==
    ASSUME RowInv, NEW s \in SessionIds, OnlyMoves(s), clock' = clock
    PROVE  /\ Started(s) => \E sump \in Sumps :
                /\ Recorders[s] = NoRecorder
                /\ {u \in SessionIds : /\ Recorders[u].sump = sump
                                       /\ Recorders[u].stage \in {"recording", "paused"}} = {}
                /\ Recorders' = [Recorders EXCEPT ![s] =
                     [sump |-> sump, stage |-> "recording", open |-> clock, stretches |-> << >>]]
           /\ Resumed(s) =>
                /\ Recorders[s].stage = "paused"
                /\ Recorders' = [Recorders EXCEPT ![s].stage = "recording", ![s].open = clock]
           /\ Cut(s) => \E stage \in {"paused", "stopped"} :
                /\ Recorders[s].stage = "recording"
                /\ \E to \in Recorders[s].open .. clock, kept \in BOOLEAN :
                     Recorders' = [Recorders EXCEPT
                       ![s].stage     = stage,
                       ![s].open      = Null,
                       ![s].stretches = Append(@, [from |-> Recorders[s].open, to |-> to,
                                                   kept |-> kept])]
           /\ EndedPaused(s) =>
                /\ Recorders[s].stage = "paused"
                /\ Recorders' = [Recorders EXCEPT ![s].stage = "stopped"]
           /\ Dismissed(s) => Recorders' = Recorders
<1> DEFINE x == sessions[s]
           y == sessions'[s]
           a == Recorders[s]
           b == AsRecorder(y)
<1>1. /\ \A t \in SessionIds : Recorders'[t] = IF t = s THEN b ELSE Recorders[t]
      /\ Recorders' = [t \in SessionIds |-> Recorders'[t]]
      /\ Recorders = [t \in SessionIds |-> Recorders[t]]
  BY RecordersMapped DEF OnlyMoves
<1>2. a = AsRecorder(x) /\ clock \in Nat /\ Null \notin Row
  BY TypedRows, RecordersMapped
<1>3. Has(s) => /\ x \in Row /\ Coherent(x)
                /\ a = [sump |-> x.sump, stage |-> x.status, open |-> x.active,
                        stretches |-> Stretches(x.segments)]
                /\ a.stage = x.status /\ a.open = x.active
  BY <1>2, TypedRows, RecorderFields DEF AsRecorder, Has
<1>4. y # Null => b = [sump |-> y.sump, stage |-> y.status, open |-> y.active,
                       stretches |-> Stretches(y.segments)]
  BY DEF AsRecorder
<1>5. CASE Started(s)
  <2>1. PICK sump \in Sumps : ActiveSessions(sump) = {} /\ y = FreshRow(sump)
    BY <1>5 DEF Started
  <2>2. a = NoRecorder
    BY <1>2, <1>5 DEF Started, Has, AsRecorder
  <2>3. {u \in SessionIds : /\ Recorders[u].sump = sump
                           /\ Recorders[u].stage \in {"recording", "paused"}} = {}
    <3> SUFFICES ASSUME NEW u \in SessionIds, Recorders[u].sump = sump,
                        Recorders[u].stage \in {"recording", "paused"}
                 PROVE  FALSE
      OBVIOUS
    <3>1. Has(u)
      BY RecordersMapped DEF AsRecorder, NoRecorder, Has
    <3>2. u \in ActiveSessions(sump)
      BY <3>1, RecordersMapped, RecorderFields DEF ActiveSessions, Has
    <3> QED
      BY <2>1, <3>2
  <2>4. b = [sump |-> sump, stage |-> "recording", open |-> clock, stretches |-> << >>]
    <3>1. FreshRow(sump) \in Row
      BY <1>2 DEF FreshRow, Row, Status
    <3>2. Stretches(<< >>) = << >>
      BY DEF Stretches
    <3>3. /\ FreshRow(sump).sump = sump /\ FreshRow(sump).status = "recording"
          /\ FreshRow(sump).active = clock /\ FreshRow(sump).segments = << >>
      BY DEF FreshRow
    <3>4. y # Null
      BY <1>2, <2>1, <3>1
    <3>5. y.sump = sump /\ y.status = "recording" /\ y.active = clock /\ y.segments = << >>
      BY <2>1, <3>3
    <3> HIDE DEF y, b
    <3> QED
      BY <1>4, <3>2, <3>4, <3>5
  <2> HIDE DEF a, b
  <2>5. Recorders' = [Recorders EXCEPT ![s] = b]
    BY <1>1
  <2> QED
    BY <1>5, <2>2, <2>3, <2>4, <2>5 DEF a, Started, Resumed, Cut, EndedPaused, Dismissed
<1>6. CASE Resumed(s)
  <2>1. /\ x \in Row /\ x.status = "paused" /\ Has(s)
        /\ y = [x EXCEPT !.status = "recording", !.active = clock]
    BY <1>3, <1>6 DEF Resumed
  <2> DEFINE d == Stretches(x.segments)
             m == x.sump
             o == x.active
  <2>2. a = [sump |-> m, stage |-> "paused", open |-> o, stretches |-> d]
    BY <1>3, <2>1
  <2>3. b = [sump |-> m, stage |-> "recording", open |-> clock, stretches |-> d]
    <3> HIDE DEF x, y
    <3>1. /\ y \in Row /\ y.sump = x.sump /\ y.status = "recording" /\ y.active = clock
          /\ y.segments = x.segments
      BY <1>2, <2>1 DEF Row, Status
    <3> QED
      BY <1>2, <1>4, <3>1
  <2> HIDE DEF d, m, o, x, y, a, b
  <2>4. b = [a EXCEPT !.stage = "recording", !.open = clock]
    <3> DEFINE c == [a EXCEPT !.stage = "recording"]
    <3>1. c = [sump |-> m, stage |-> "recording", open |-> o, stretches |-> d]
      BY <2>2
    <3>2. [a EXCEPT !.stage = "recording", !.open = clock] = [c EXCEPT !.open = clock]
      OBVIOUS
    <3> HIDE DEF c
    <3>3. [c EXCEPT !.open = clock] = [sump |-> m, stage |-> "recording", open |-> clock,
                                       stretches |-> d]
      BY <3>1
    <3> QED
      BY <2>3, <3>2, <3>3
  <2>5. \A t \in SessionIds :
          Recorders'[t] = IF t = s THEN [a EXCEPT !.stage = "recording", !.open = clock]
                                   ELSE Recorders[t]
    BY <1>1, <2>4
  <2>6. Recorders' = [Recorders EXCEPT ![s].stage = "recording", ![s].open = clock]
    BY <1>1, <2>5 DEF a
  <2>7. a.stage = "paused"
    BY <2>2
  <2>8. ~Started(s) /\ ~Cut(s)
    BY <2>1 DEF Started, Cut, x
  <2>9. ~EndedPaused(s) /\ ~Dismissed(s)
    <3>1. y.status = "recording" /\ y.active = clock
      BY <1>2, <2>1 DEF Row
    <3>2. ~EndedPaused(s)
      BY <3>1 DEF EndedPaused, y
    <3>3. Dismissed(s) => y.status = "paused"
      BY <2>1 DEF Dismissed, x, y, Row
    <3> QED
      BY <3>1, <3>2, <3>3
  <2> QED
    BY <2>6, <2>7, <2>8, <2>9 DEF a
<1>7. CASE EndedPaused(s)
  <2>1. /\ x \in Row /\ x.status = "paused" /\ Has(s) /\ Coherent(x)
        /\ y \in Row /\ y.sump = x.sump /\ y.status = "stopped" /\ y.active = Null
        /\ y.segments = x.segments
    BY <1>3, <1>7 DEF EndedPaused
  <2>2. x.active = Null
    BY <2>1 DEF Coherent
  <2> DEFINE d == Stretches(x.segments)
             m == x.sump
  <2>3. a = [sump |-> m, stage |-> "paused", open |-> Null, stretches |-> d]
    BY <1>3, <2>1, <2>2
  <2>4. b = [sump |-> m, stage |-> "stopped", open |-> Null, stretches |-> d]
    BY <1>2, <1>4, <2>1
  <2> HIDE DEF d, m, x, y, a, b
  <2>5. b = [a EXCEPT !.stage = "stopped"]
    BY <2>3, <2>4
  <2>6. \A t \in SessionIds :
          Recorders'[t] = IF t = s THEN [a EXCEPT !.stage = "stopped"] ELSE Recorders[t]
    BY <1>1, <2>5
  <2>7. Recorders' = [Recorders EXCEPT ![s].stage = "stopped"]
    BY <1>1, <2>6 DEF a
  <2>8. a.stage = "paused"
    BY <2>3
  <2>9. ~Started(s) /\ ~Cut(s)
    BY <2>1 DEF Started, Cut, x
  <2>10. ~Resumed(s) /\ ~Dismissed(s)
    BY <1>2, <2>1 DEF Resumed, Dismissed, x, y, Row
  <2> QED
    BY <2>7, <2>8, <2>9, <2>10 DEF a
<1>8. CASE Dismissed(s)
  <2>1. x \in Row /\ Has(s) /\ y = [x EXCEPT !.interrupted = FALSE]
    BY <1>3, <1>8 DEF Dismissed
  <2>2. /\ y \in Row /\ y.sump = x.sump /\ y.status = x.status /\ y.active = x.active
        /\ y.segments = x.segments
    BY <2>1 DEF Row
  <2>3. b = a
    BY <1>2, <1>3, <1>4, <2>1, <2>2
  <2> HIDE DEF a, b
  <2>4. Recorders' = Recorders
    BY <1>1, <2>3 DEF a
  <2>5. ~Started(s) /\ ~Cut(s)
    <3>1. ~Started(s)
      BY <2>1 DEF Started
    <3>2. Cut(s) => FALSE
      BY <2>1, <2>2 DEF Cut
    <3> QED
      BY <3>1, <3>2
  <2>6. ~Resumed(s) /\ ~EndedPaused(s)
    <3>1. ~EndedPaused(s)
      BY <2>1, <2>2 DEF EndedPaused
    <3>2. Resumed(s) => y.status = "recording" /\ x.status = "paused"
      BY <1>2, <2>1 DEF Resumed, Row
    <3> QED
      BY <2>2, <3>1, <3>2
  <2> QED
    BY <2>4, <2>5, <2>6
<1>9. CASE Cut(s)
  <2>1. /\ x \in Row /\ x.status = "recording" /\ Has(s) /\ Coherent(x)
        /\ y \in Row /\ y.sump = x.sump /\ y.active = Null
    BY <1>3, <1>9 DEF Cut
  <2>2. PICK to \in x.active .. clock, rec \in RecIds \cup {Null} :
           y.segments = AppendSegment(x, to, rec)
    BY <1>9 DEF Cut
  <2>3. PICK stage \in {"paused", "stopped"} : y.status = stage
    BY <1>9 DEF Cut
  <2>4. x.active # Null /\ x.active \in Nat /\ to \in Nat
    BY <2>1, <2>2 DEF Coherent, Row
  <2> DEFINE kept == rec # Null
             d == Stretches(x.segments)
             m == x.sump
             o == x.active
             e == [from |-> o, to |-> to, kept |-> kept]
             f == Append(d, e)
  <2>5. Stretches(y.segments) = f
    <3>1. x \in Row /\ x.active # Null /\ to \in Nat /\ rec \in RecIds \cup {Null}
      BY <2>1, <2>4
    <3> HIDE DEF x, y
    <3>2. Stretches(AppendSegment(x, to, rec))
            = Append(Stretches(x.segments), [from |-> x.active, to |-> to, kept |-> rec # Null])
      BY ONLY <3>1, StretchesAppend
    <3> QED
      BY <2>2, <3>2
  <2>6. a = [sump |-> m, stage |-> "recording", open |-> o, stretches |-> d]
    BY <1>3, <2>1
  <2>7. b = [sump |-> m, stage |-> stage, open |-> Null, stretches |-> f]
    BY <1>2, <1>4, <2>1, <2>3, <2>5
  <2>8. to \in o .. clock /\ kept \in BOOLEAN
    OBVIOUS
  <2>9. ~Started(s) /\ ~Resumed(s) /\ ~EndedPaused(s)
    BY <2>1 DEF Started, Resumed, EndedPaused
  <2>10. ~Dismissed(s)
    BY <2>1, <2>4 DEF Dismissed, Row
  <2> HIDE DEF d, m, o, x, y, a, b, kept, e, f
  <2>11. a.stage = "recording" /\ a.open = o /\ a.stretches = d
    BY <2>6
  <2>12. b = [a EXCEPT !.stage = stage, !.open = Null, !.stretches = f]
    <3> DEFINE c == [a EXCEPT !.stage = stage]
               g == [c EXCEPT !.open = Null]
    <3>1. c = [sump |-> m, stage |-> stage, open |-> o, stretches |-> d]
      BY <2>6
    <3>2. [a EXCEPT !.stage = stage, !.open = Null, !.stretches = f] = [g EXCEPT !.stretches = f]
      OBVIOUS
    <3> HIDE DEF c
    <3>3. g = [sump |-> m, stage |-> stage, open |-> Null, stretches |-> d]
      BY <3>1
    <3> HIDE DEF g
    <3>4. [g EXCEPT !.stretches = f] = [sump |-> m, stage |-> stage, open |-> Null,
                                        stretches |-> f]
      BY <3>3
    <3> QED
      BY <2>7, <3>2, <3>4
  <2>13. \A t \in SessionIds :
          Recorders'[t] = IF t = s THEN [a EXCEPT !.stage = stage, !.open = Null, !.stretches = f]
                                   ELSE Recorders[t]
    BY <1>1, <2>12
  <2>14. Recorders' = [Recorders EXCEPT ![s].stage = stage, ![s].open = Null, ![s].stretches = f]
    BY <1>1, <2>13 DEF a
  <2>15. f = Append(Recorders[s].stretches, [from |-> Recorders[s].open, to |-> to, kept |-> kept])
    BY <2>11 DEF a, e, f
  <2>16. Recorders' = [Recorders EXCEPT
                       ![s].stage     = stage,
                       ![s].open      = Null,
                       ![s].stretches = Append(@, [from |-> Recorders[s].open, to |-> to,
                                                   kept |-> kept])]
    BY <1>1, <2>14, <2>15
  <2> QED
    BY <2>8, <2>9, <2>10, <2>11, <2>16 DEF a
<1> QED
  BY <1>5, <1>6, <1>7, <1>8, <1>9

LEMMA RecorderStep ==
    SingleCall /\ SerialInv /\ [Next]_vars
      => [Recorder!Next]_<<[s \in SessionIds |->
            IF ~Has(s) THEN [sump |-> Null, stage |-> "none", open |-> Null,
                             stretches |-> << >>]
            ELSE [sump      |-> sessions[s].sump,
                  stage     |-> sessions[s].status,
                  open      |-> sessions[s].active,
                  stretches |-> [i \in 1..Len(sessions[s].segments) |->
                      [from |-> sessions[s].segments[i].startedAt,
                       to   |-> sessions[s].segments[i].stoppedAt,
                       kept |-> sessions[s].segments[i].recordingId # Null]]]], clock>>
<1> SUFFICES ASSUME SingleCall, SerialInv, [Next]_vars
             PROVE  Recorder!Next \/ UNCHANGED <<Recorders, clock>>
  BY DEF Recorders
<1>1. RowInv
  BY DEF SerialInv
<1>2. CASE UNCHANGED sessions
  <2>1. UNCHANGED Recorders
    BY <1>2, RecordersMapped
  <2>2. CASE clock' = clock
    BY <2>1, <2>2
  <2>3. CASE clock' = clock + 1
    <3>1. Recorder!Tick
      BY <2>1, <2>3 DEF Recorder!Tick, Recorders
    <3> QED
      BY <3>1 DEF Recorder!Next
  <2> QED
    BY <2>2, <2>3, ClockStep
<1>3. CASE SessionMoves
  <2>1. PICK s \in SessionIds :
          /\ OnlyMoves(s)
          /\ Started(s) \/ Resumed(s) \/ Cut(s) \/ EndedPaused(s) \/ Dismissed(s)
    BY <1>3 DEF SessionMoves
  <2>2. clock' = clock
    BY <1>3 DEF SessionMoves
  <2>3. CASE Started(s)
    <3>1. PICK sump \in Sumps :
            /\ Recorders[s] = NoRecorder
            /\ {u \in SessionIds : /\ Recorders[u].sump = sump
                                   /\ Recorders[u].stage \in {"recording", "paused"}} = {}
            /\ Recorders' = [Recorders EXCEPT ![s] =
                 [sump |-> sump, stage |-> "recording", open |-> clock, stretches |-> << >>]]
      BY <1>1, <2>1, <2>2, <2>3, MoveRecords
    <3>2. Recorder!Start(s, sump)
      BY <2>2, <3>1 DEF Recorder!Start, Recorder!Live, Recorder!NoSession, NoRecorder, Recorders
    <3> QED
      BY <3>2 DEF Recorder!Next
  <2>4. CASE Resumed(s)
    <3>1. /\ Recorders[s].stage = "paused"
          /\ Recorders' = [Recorders EXCEPT ![s].stage = "recording", ![s].open = clock]
      BY <1>1, <2>1, <2>2, <2>4, MoveRecords
    <3>2. Recorder!Resume(s)
      BY <2>2, <3>1 DEF Recorder!Resume, Recorders
    <3> QED
      BY <3>2 DEF Recorder!Next
  <2>5. CASE Cut(s)
    <3>1. PICK stage \in {"paused", "stopped"} :
            /\ Recorders[s].stage = "recording"
            /\ \E to \in Recorders[s].open .. clock, kept \in BOOLEAN :
                 Recorders' = [Recorders EXCEPT
                   ![s].stage     = stage,
                   ![s].open      = Null,
                   ![s].stretches = Append(@, [from |-> Recorders[s].open, to |-> to,
                                               kept |-> kept])]
      BY <1>1, <2>1, <2>2, <2>5, MoveRecords
    <3>2. Recorder!Cut(s, stage)
      BY <2>2, <3>1 DEF Recorder!Cut, Recorders
    <3>3. Recorder!Pause(s) \/ Recorder!Stop(s)
      BY <3>2 DEF Recorder!Pause, Recorder!Stop
    <3> QED
      BY <3>3 DEF Recorder!Next
  <2>6. CASE EndedPaused(s)
    <3>1. /\ Recorders[s].stage = "paused"
          /\ Recorders' = [Recorders EXCEPT ![s].stage = "stopped"]
      BY <1>1, <2>1, <2>2, <2>6, MoveRecords
    <3>2. Recorder!Stop(s)
      BY <2>2, <3>1 DEF Recorder!Stop, Recorders
    <3> QED
      BY <3>2 DEF Recorder!Next
  <2>7. CASE Dismissed(s)
    BY <1>1, <2>1, <2>2, <2>7, MoveRecords
  <2> QED
    BY <2>1, <2>3, <2>4, <2>5, <2>6, <2>7
<1>4. CASE Next
  BY <1>2, <1>3, <1>4, SerialMoves DEF SerialInv
<1>5. CASE UNCHANGED vars
  BY <1>2, <1>5 DEF vars
<1> QED
  BY <1>4, <1>5

\* Seen from outside, with one exporting call at a time, a session is a list of
\* stretches of time and every pause, stop and recovery happens at once: the handlers
\* split by an await, their copies of rows, failed exports and crashes implement
\* SessionRecorder.
THEOREM SessionsRecord == (\A c, d \in Calls : c = d) => (Spec => RecordsLikeARecorder)
<1> SUFFICES ASSUME SingleCall  PROVE  Spec => RecordsLikeARecorder
  BY DEF SingleCall
<1>1. Init => Recorder!Init
  BY DEF Init, Recorder!Init, Recorder!NoSession, Has
<1> QED
  BY <1>1, RecorderStep, SerialInvariance, PTL DEF Spec, RecordsLikeARecorder, Recorder!Spec

=============================================================================
