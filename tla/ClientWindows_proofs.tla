------------------------- MODULE ClientWindows_proofs -------------------------
(***************************************************************************)
(* Proofs about ClientWindows, for any number of panels and views.         *)
(***************************************************************************)
EXTENDS ClientWindows, TLAPS

(***************************************************************************)
(* Type correctness.                                                       *)
(***************************************************************************)

Sent == ViewMessage \cup OpenMessage
Received == ViewMessage \cup ClosedMessage

\* What a window begins with.
LEMMA BlankType ==
    ASSUME NEW status \in {"closed", "loading", "reloading", "blank", "mounted", "open"}
    PROVE  Blank(status) \in WindowState
<1>1. Default \in Views
  BY WindowsAssumption
<1> QED
  BY <1>1 DEF Blank, WindowState

\* A message's type tells what it carries.
LEMMA MessageKinds ==
    ASSUME NEW m \in Sent \cup Received
    PROVE  /\ m.type = "view" => m \in ViewMessage
           /\ m.type = "open" => m \in OpenMessage
           /\ m.type = "closed" => m \in ClosedMessage
BY DEF Sent, Received, ViewMessage, OpenMessage, ClosedMessage

\* The head of a queue is one of its messages, and the rest is a queue.
LEMMA QueueTypes ==
    ASSUME NEW S, NEW queue \in Seq(S), queue # << >>
    PROVE  Head(queue) \in S /\ Tail(queue) \in Seq(S)
OBVIOUS

\* The state of a window after it has run its effects.
LEMMA QueryRangeType ==
    ASSUME TypeOK, NEW w \in Windows
    PROVE  QueryRange(w) \in WindowState
<1> DEFINE s == win[w]
           asked == {[q EXCEPT !.cancelled = TRUE] : q \in s.queries}
                      \cup {[view |-> s.rendered, cancelled |-> FALSE]}
<1>1. s \in WindowState
  BY DEF TypeOK
<1>2. asked \in SUBSET RangeQuery
  <2>1. \A q \in s.queries : [q EXCEPT !.cancelled = TRUE] \in RangeQuery
    BY <1>1 DEF WindowState, RangeQuery
  <2>2. [view |-> s.rendered, cancelled |-> FALSE] \in RangeQuery
    BY <1>1 DEF WindowState, RangeQuery
  <2> QED
    BY <2>1, <2>2
<1>3. [s EXCEPT !.pending = FALSE, !.status = "open"] \in WindowState
  BY <1>1 DEF WindowState
<1>4. [s EXCEPT !.pending = FALSE, !.status = "open", !.failed = FALSE,
               !.queried = s.rendered, !.queries = asked] \in WindowState
  BY <1>1, <1>2 DEF WindowState
<1> QED
  BY <1>3, <1>4 DEF QueryRange

LEMMA InitTypes == Init => TypeOK
BY BlankType, WindowsAssumption DEF Init, TypeOK, Windows

\* One window's state and queues after a step of that window alone.
LEMMA ViewTypes ==
    ASSUME TypeOK, NEW w \in Windows,
           \/ \E v \in Views : Move(w, v)
           \/ Render(w)
           \/ RunEffects(w)
           \/ Relay(w)
           \/ ReceiveView(w)
           \/ \E q \in RangeQuery : Answer(w, q) \/ AnswerFails(w, q)
    PROVE  TypeOK'
<1> USE DEF bounds, panels
<1>0. /\ win[w] \in WindowState
      /\ outbox[w] \in Seq(Sent) /\ inbox[w] \in Seq(Received)
  BY DEF TypeOK, Sent, Received
<1>1. ASSUME NEW v \in Views, Move(w, v)  PROVE  TypeOK'
  <2>1. win' \in [Windows -> WindowState]
    BY <1>0, <1>1 DEF TypeOK, Move, WindowState
  <2>2. moves' \in 0 .. MaxMoves
    <3>1. moves \in 0 .. MaxMoves /\ moves < MaxMoves /\ moves' = moves + 1
      BY <1>1 DEF TypeOK, Move
    <3> QED
      BY <3>1, WindowsAssumption
  <2>3. calm' \in BOOLEAN
    BY <1>1 DEF Move
  <2> QED
    BY <1>1, <2>1, <2>2, <2>3 DEF TypeOK, Move
<1>2. CASE Render(w)
  <2>1. win' \in [Windows -> WindowState]
    BY <1>0, <1>2 DEF TypeOK, Render, WindowState
  <2> QED
    BY <1>2, <2>1 DEF TypeOK, Render
<1>3. CASE RunEffects(w)
  <2>1. win' \in [Windows -> WindowState]
    BY <1>3, QueryRangeType DEF TypeOK, RunEffects
  <2>2. [type |-> "view", view |-> win[w].rendered] \in Sent
    BY <1>0 DEF WindowState, Sent, ViewMessage
  <2>3. outbox' \in [Windows -> Seq(Sent)]
    BY <1>3, <2>2 DEF TypeOK, RunEffects, Sent
  <2> QED
    BY <1>3, <2>1, <2>3 DEF TypeOK, RunEffects, Sent
<1>4. CASE Relay(w)
  <2>1. Head(outbox[w]) \in Received /\ Tail(outbox[w]) \in Seq(Sent)
    BY <1>0, <1>4, QueueTypes, MessageKinds DEF Relay, Received
  <2>2. inbox' \in [Windows -> Seq(Received)]
    BY <1>4, <2>1 DEF TypeOK, Relay, Received
  <2>3. outbox' \in [Windows -> Seq(Sent)]
    BY <1>4, <2>1 DEF TypeOK, Relay, Sent
  <2> QED
    BY <1>4, <2>2, <2>3 DEF TypeOK, Relay, Sent, Received
<1>5. CASE ReceiveView(w)
  <2>1. Head(inbox[w]) \in ViewMessage /\ Tail(inbox[w]) \in Seq(Received)
    BY <1>0, <1>5, QueueTypes, MessageKinds DEF ReceiveView
  <2>2. win' \in [Windows -> WindowState]
    BY <1>0, <1>5, <2>1 DEF TypeOK, ReceiveView, WindowState, ViewMessage
  <2>3. inbox' \in [Windows -> Seq(Received)]
    BY <1>5, <2>1 DEF TypeOK, ReceiveView, Received
  <2> QED
    BY <1>5, <2>2, <2>3 DEF TypeOK, ReceiveView, Received
<1>6. ASSUME NEW q \in RangeQuery, Answer(w, q) \/ AnswerFails(w, q)  PROVE  TypeOK'
  <2>1. win' \in [Windows -> WindowState]
    <3>1. win[w].queries \ {q} \in SUBSET RangeQuery /\ q.view \in Views
      BY <1>0 DEF WindowState, RangeQuery
    <3>2. CASE Answer(w, q)
      <4>1. [win[w] EXCEPT !.queries = @ \ {q},
                           !.shown = IF q.cancelled THEN @ ELSE q.view] \in WindowState
        BY <1>0, <3>1 DEF WindowState
      <4> QED
        BY <3>2, <4>1 DEF TypeOK, Answer
    <3>3. CASE AnswerFails(w, q)
      <4>1. (win[w].failed \/ ~q.cancelled) \in BOOLEAN
        OBVIOUS
      <4>2. [win[w] EXCEPT !.queries = @ \ {q}, !.failed = @ \/ ~q.cancelled] \in WindowState
        BY <1>0, <3>1, <4>1 DEF WindowState
      <4> QED
        BY <3>3, <4>2 DEF TypeOK, AnswerFails
    <3> QED
      BY <1>6, <3>2, <3>3
  <2> QED
    BY <1>6, <2>1 DEF TypeOK, Answer, AnswerFails
<1> QED
  BY <1>1, <1>2, <1>3, <1>4, <1>5, <1>6

LEMMA PageTypes ==
    ASSUME TypeOK, NEW w \in Windows, LoadFile(w) \/ Reload(w)
    PROVE  TypeOK'
<1> USE DEF bounds, panels
<1>1. CASE LoadFile(w)
  <2>1. [Blank("mounted") EXCEPT !.pending = TRUE] \in WindowState
    BY BlankType DEF WindowState
  <2>2. win' \in [Windows -> WindowState]
    BY <1>1, <2>1, BlankType DEF TypeOK, LoadFile
  <2>3. calm' \in BOOLEAN
    BY <1>1 DEF TypeOK, LoadFile, Quiet
  <2> QED
    BY <1>1, <2>2, <2>3 DEF TypeOK, LoadFile
<1>2. CASE Reload(w)
  <2>1. moves' \in 0 .. MaxMoves /\ calm' \in BOOLEAN
    BY <1>2, WindowsAssumption DEF TypeOK, Reload
  <2>2. inbox' \in [Windows -> Seq(Received)]
    BY <1>2 DEF TypeOK, Reload, Received
  <2>3. win' \in [Windows -> WindowState]
    <3>1. \A u \in Windows : [win[u] EXCEPT !.status = "reloading"] \in WindowState
      BY DEF TypeOK, WindowState
    <3>2. CASE w # Main
      BY <1>2, <3>2, BlankType DEF TypeOK, Reload
    <3>3. CASE w = Main
      BY <1>2, <3>1, <3>3, BlankType DEF TypeOK, Reload
    <3> QED
      BY <3>2, <3>3
  <2>4. outbox' \in [Windows -> Seq(Sent)]
    <3>1. CASE w # Main
      BY <1>2, <3>1 DEF TypeOK, Reload, Sent
    <3>2. CASE w = Main
      <4> DEFINE forgotten == [i \in DOMAIN outbox[Main] |->
                    IF outbox[Main][i].type = "open"
                    THEN [outbox[Main][i] EXCEPT !.awaited = FALSE] ELSE outbox[Main][i]]
      <4>1. Main \in Windows /\ outbox[Main] \in Seq(Sent)
        BY DEF TypeOK, Windows, Sent
      <4>2. ASSUME NEW i \in 1 .. Len(outbox[Main])  PROVE  forgotten[i] \in Sent
        <5>1. outbox[Main][i] \in Sent
          BY <4>1
        <5>2. CASE outbox[Main][i].type = "open"
          <6>1. outbox[Main][i] \in OpenMessage
            BY <5>1, <5>2, MessageKinds
          <6>2. [outbox[Main][i] EXCEPT !.awaited = FALSE] \in OpenMessage
            BY <6>1 DEF OpenMessage
          <6> QED
            BY <5>2, <6>2, <4>1 DEF Sent
        <5> QED
          BY <5>1, <5>2, <4>1
      <4>3. forgotten \in Seq(Sent)
        <5>1. DOMAIN outbox[Main] = 1 .. Len(outbox[Main]) /\ Len(outbox[Main]) \in Nat
          BY <4>1
        <5>2. forgotten \in [1 .. Len(outbox[Main]) -> Sent]
          BY <4>2, <5>1
        <5> QED
          BY <5>1, <5>2
      <4>4. outbox' = [outbox EXCEPT ![Main] = forgotten]
        BY <1>2, <3>2 DEF Reload
      <4> QED
        BY <4>3, <4>4 DEF TypeOK, Sent
    <3> QED
      BY <3>1, <3>2
  <2>5. detached' \subseteq Panels /\ rejected' \in [Panels -> Nat]
    BY <1>2 DEF TypeOK, Reload
  <2> QED
    BY <1>2, <2>1, <2>2, <2>3, <2>4, <2>5 DEF TypeOK, Reload, Sent, Received
<1> QED
  BY <1>1, <1>2

LEMMA PanelTypes ==
    ASSUME TypeOK, NEW p \in Panels,
           HandleDetach(p) \/ Closed(p) \/ LoadFileFails(p) \/ DetachRejected(p)
    PROVE  TypeOK'
<1> USE DEF bounds
<1>0. p \in Windows /\ Main \in Windows
  BY DEF Windows
<1>1. CASE HandleDetach(p)
  <2>1. clicks' \in 0 .. MaxDetach
    BY <1>1, WindowsAssumption DEF TypeOK, HandleDetach
  <2>2. [type |-> "open", panel |-> p, awaited |-> TRUE] \in Sent
    BY DEF Sent, OpenMessage
  <2>3. outbox' \in [Windows -> Seq(Sent)]
    BY <1>0, <1>1, <2>2 DEF TypeOK, HandleDetach, Sent
  <2> QED
    BY <1>1, <2>1, <2>3 DEF TypeOK, HandleDetach, Sent
<1>2. CASE Closed(p)
  <2>1. WithClosed(inbox[Main], p) \in Seq(Received)
    <3>1. inbox[Main] \in Seq(Received)
      BY <1>0 DEF TypeOK, Received
    <3>2. [type |-> "closed", panel |-> p] \in Received
      BY DEF Received, ClosedMessage
    <3> QED
      BY <3>1, <3>2 DEF WithClosed
  <2>2. inbox' \in [Windows -> Seq(Received)]
    <3>1. Main # p
      BY WindowsAssumption
    <3>2. inbox \in [Windows -> Seq(Received)] /\ << >> \in Seq(Received)
      BY DEF TypeOK, Received
    <3>3. inbox' = [inbox EXCEPT ![p] = << >>, ![Main] = WithClosed(inbox[Main], p)]
      BY <1>0, <1>2, <3>1, <3>2 DEF Closed
    <3> QED
      BY <1>0, <2>1, <3>1, <3>2, <3>3
  <2>3. win' \in [Windows -> WindowState] /\ outbox' \in [Windows -> Seq(Sent)]
    <3>1. win' = [win EXCEPT ![p] = Blank("closed")] /\ outbox' = [outbox EXCEPT ![p] = << >>]
      BY <1>2 DEF Closed
    <3>2. Blank("closed") \in WindowState
      BY BlankType
    <3>3. << >> \in Seq(Sent)
      OBVIOUS
    <3>4. win' \in [Windows -> WindowState]
      BY <3>1, <3>2 DEF TypeOK
    <3>5. outbox' \in [Windows -> Seq(Sent)]
      BY <3>1, <3>3 DEF TypeOK, Sent
    <3> QED
      BY <3>4, <3>5
  <2>4. rejected' \in [Panels -> Nat] /\ calm' \in BOOLEAN /\ registry' \subseteq Panels
    BY <1>2 DEF TypeOK, Closed
  <2> QED
    BY <1>2, <2>2, <2>3, <2>4 DEF TypeOK, Closed, Sent, Received
<1>3. CASE LoadFileFails(p)
  <2>1. win' \in [Windows -> WindowState]
    <3>1. win' = [win EXCEPT ![p].status = "blank"] /\ win[p] \in WindowState
      BY <1>0, <1>3 DEF TypeOK, LoadFileFails
    <3>2. [win[p] EXCEPT !.status = "blank"] \in WindowState
      BY <3>1 DEF WindowState
    <3> QED
      BY <3>1, <3>2 DEF TypeOK
  <2>2. rejected' \in [Panels -> Nat]
    BY <1>3 DEF TypeOK, LoadFileFails
  <2> QED
    BY <1>3, <2>1, <2>2 DEF TypeOK, LoadFileFails
<1>4. CASE DetachRejected(p)
  <2>1. rejected' \in [Panels -> Nat]
    BY <1>4 DEF TypeOK, DetachRejected
  <2> QED
    BY <1>4, <2>1 DEF TypeOK, DetachRejected
<1> QED
  BY <1>1, <1>2, <1>3, <1>4

LEMMA MainTypes ==
    ASSUME TypeOK, OpenDetachedPanel \/ DetachedPanelClosed
    PROVE  TypeOK'
<1> USE DEF bounds
<1>0. /\ Main \in Windows /\ Panels \subseteq Windows
      /\ outbox[Main] \in Seq(Sent) /\ inbox[Main] \in Seq(Received)
  BY DEF TypeOK, Windows, Sent, Received
<1>1. CASE OpenDetachedPanel
  <2>1. Head(outbox[Main]) \in OpenMessage /\ Tail(outbox[Main]) \in Seq(Sent)
    BY <1>0, <1>1, QueueTypes, MessageKinds DEF OpenDetachedPanel
  <2>2. Head(outbox[Main]).panel \in Panels
    BY <2>1 DEF OpenMessage
  <2>3. win' \in [Windows -> WindowState]
    BY <1>0, <1>1, <2>2, BlankType DEF TypeOK, OpenDetachedPanel
  <2>4. outbox' \in [Windows -> Seq(Sent)]
    BY <1>1, <2>1 DEF TypeOK, OpenDetachedPanel, Sent
  <2> QED
    BY <1>1, <2>2, <2>3, <2>4 DEF TypeOK, OpenDetachedPanel, Sent
<1>2. CASE DetachedPanelClosed
  <2>1. Tail(inbox[Main]) \in Seq(Received)
    BY <1>0, <1>2, QueueTypes DEF DetachedPanelClosed
  <2>2. inbox' \in [Windows -> Seq(Received)]
    BY <1>2, <2>1 DEF TypeOK, DetachedPanelClosed, Received
  <2> QED
    BY <1>2, <2>2 DEF TypeOK, DetachedPanelClosed, Received
<1> QED
  BY <1>1, <1>2

\* Every variable keeps its type, through every step of windows and main process.
LEMMA TypeStep == TypeOK /\ [Next]_vars => TypeOK'
<1> SUFFICES ASSUME TypeOK, [Next]_vars  PROVE  TypeOK'
  OBVIOUS
<1>1. ASSUME NEW w \in Windows,
             \/ \E v \in Views : Move(w, v)
             \/ WindowStep(w) \/ Answers(w)
      PROVE  TypeOK'
  BY <1>1, ViewTypes DEF WindowStep, Answers
<1>2. ASSUME NEW w \in Windows, LoadFile(w) \/ Reload(w)  PROVE  TypeOK'
  BY <1>2, PageTypes
<1>3. ASSUME NEW p \in Panels, HandleDetach(p) \/ Closed(p) \/ PanelStep(p)  PROVE  TypeOK'
  BY <1>3, PanelTypes DEF PanelStep
<1>4. CASE OpenDetachedPanel \/ DetachedPanelClosed
  BY <1>4, MainTypes
<1>5. CASE UNCHANGED vars
  BY <1>5 DEF vars, TypeOK
<1> QED
  BY <1>1, <1>2, <1>3, <1>4, <1>5 DEF Next

\* The variables of the client's windows have their types in every state.
THEOREM TypeCorrect == Spec => []TypeOK
BY InitTypes, TypeStep, PTL DEF Spec

-----------------------------------------------------------------------------
(***************************************************************************)
(* A panel shows the records of the range it asked for last.  What the     *)
(* property lacks to be inductive: a query that was not cancelled asks for *)
(* that range.                                                             *)
(***************************************************************************)

Settling(s) ==
    /\ s.shown = s.queried \/ s.failed \/ \E q \in s.queries : ~q.cancelled
    /\ \A q \in s.queries : ~q.cancelled => q.view = s.queried

QueriesInv == \A w \in Panels : Settling(win[w])

LEMMA BlankSettles == \A status : Settling(Blank(status))
BY DEF Settling, Blank

\* A new query cancels those before it, and asks for what is queried from then on.
LEMMA QueryingSettles ==
    ASSUME TypeOK, NEW w \in Panels, Settling(win[w])
    PROVE  Settling(QueryRange(w))
<1> DEFINE s == win[w]
           old == {[q EXCEPT !.cancelled = TRUE] : q \in s.queries}
           new == [view |-> s.rendered, cancelled |-> FALSE]
<1>1. s \in WindowState /\ w # Main
  BY WindowsAssumption DEF TypeOK, Windows
<1>2. CASE s.queried = s.rendered
  <2>1. QueryRange(w) = [s EXCEPT !.pending = FALSE, !.status = "open"]
    BY <1>2 DEF QueryRange
  <2> QED
    BY <1>1, <2>1 DEF Settling, WindowState
<1>3. CASE s.queried # s.rendered
  <2>1. QueryRange(w) = [s EXCEPT !.pending = FALSE, !.status = "open", !.failed = FALSE,
                                  !.queried = s.rendered, !.queries = old \cup {new}]
    BY <1>1, <1>3 DEF QueryRange
  <2>2. /\ QueryRange(w).queries = old \cup {new}
        /\ QueryRange(w).queried = s.rendered
    BY <1>1, <2>1 DEF WindowState
  <2>3. \A q \in s.queries : [q EXCEPT !.cancelled = TRUE].cancelled
    BY <1>1 DEF WindowState, RangeQuery
  <2>4. \A q \in old : q.cancelled
    BY <2>3
  <2>5. ~new.cancelled /\ new.view = s.rendered
    OBVIOUS
  <2> HIDE DEF old, new
  <2> QED
    BY <2>2, <2>4, <2>5 DEF Settling
<1> QED
  BY <1>2, <1>3

\* An answer, or a failure, leaves another query to wait for or ends the last.
LEMMA AnswerSettles ==
    ASSUME TypeOK, QueriesInv, NEW w \in Windows, NEW q \in RangeQuery,
           Answer(w, q) \/ AnswerFails(w, q)
    PROVE  QueriesInv'
<1> SUFFICES ASSUME NEW p \in Panels  PROVE  Settling(win[p])'
  BY DEF QueriesInv
<1>1. Settling(win[p]) /\ win[p] \in WindowState /\ win[w] \in WindowState /\ p \in Windows
  BY DEF QueriesInv, TypeOK, Windows
<1>2. CASE p # w
  <2>1. win'[p] = win[p]
    BY <1>1, <1>2 DEF Answer, AnswerFails, TypeOK
  <2> QED
    BY <1>1, <2>1 DEF Settling
<1>3. CASE p = w
  <2> DEFINE s == win[w]
             t == win'[w]
  <2>1. q \in s.queries /\ t.queries = s.queries \ {q} /\ t.queried = s.queried
    BY <1>1 DEF Answer, AnswerFails, TypeOK, WindowState
  <2>2. CASE Answer(w, q)
    <3>1. t.shown = (IF q.cancelled THEN s.shown ELSE q.view) /\ t.failed = s.failed
      BY <1>1, <2>2 DEF Answer, TypeOK, WindowState
    <3> QED
      BY <1>1, <1>3, <2>1, <3>1 DEF Settling
  <2>3. CASE AnswerFails(w, q)
    <3>1. t.failed = (s.failed \/ ~q.cancelled) /\ t.shown = s.shown
      BY <1>1, <2>3 DEF AnswerFails, TypeOK, WindowState
    <3> QED
      BY <1>1, <1>3, <2>1, <3>1 DEF Settling
  <2> QED
    BY <2>2, <2>3
<1> QED
  BY <1>2, <1>3

\* No other step touches what a window has asked for and what it shows, unless
\* its page goes.
LEMMA QueriesStep == TypeOK /\ QueriesInv /\ [Next]_vars => QueriesInv'
<1> SUFFICES ASSUME TypeOK, QueriesInv, [Next]_vars  PROVE  QueriesInv'
  OBVIOUS
<1> DEFINE Same(s, t) == /\ t.shown = s.shown /\ t.queried = s.queried
                         /\ t.queries = s.queries /\ t.failed = s.failed
<1>0. /\ Panels \subseteq Windows
      /\ \A w \in Panels : win[w] \in WindowState /\ Settling(win[w])
  BY DEF TypeOK, Windows, QueriesInv
<1>a. ASSUME \A p \in Panels : Same(win[p], win'[p]) \/ \E status : win'[p] = Blank(status)
      PROVE  QueriesInv'
  BY <1>0, <1>a, BlankSettles DEF QueriesInv, Settling
<1>1. ASSUME NEW w \in Windows, NEW v \in Views, Move(w, v)  PROVE  QueriesInv'
  <2>1. \A p \in Panels : Same(win[p], win'[p])
    BY <1>0, <1>1 DEF Move, TypeOK, WindowState
  <2> QED
    BY <1>a, <2>1
<1>2. ASSUME NEW w \in Windows, Render(w)  PROVE  QueriesInv'
  <2>1. \A p \in Panels : Same(win[p], win'[p])
    BY <1>0, <1>2 DEF Render, TypeOK, WindowState
  <2> QED
    BY <1>a, <2>1
<1>3. ASSUME NEW w \in Windows, RunEffects(w)  PROVE  QueriesInv'
  <2> SUFFICES ASSUME NEW p \in Panels  PROVE  Settling(win[p])'
    BY DEF QueriesInv
  <2>1. win' = [win EXCEPT ![w] = QueryRange(w)]
    BY <1>3 DEF RunEffects
  <2>2. CASE p = w
    <3>1. win'[p] = QueryRange(p)
      BY <1>0, <2>1, <2>2 DEF TypeOK
    <3> QED
      BY <1>0, <3>1, QueryingSettles DEF Settling
  <2>3. CASE p # w
    <3>1. win'[p] = win[p]
      BY <1>0, <2>1, <2>3 DEF TypeOK
    <3> QED
      BY <1>0, <3>1 DEF Settling
  <2> QED
    BY <2>2, <2>3
<1>4. ASSUME NEW w \in Windows, Relay(w)  PROVE  QueriesInv'
  BY <1>a, <1>4 DEF Relay
<1>5. ASSUME NEW w \in Windows, ReceiveView(w)  PROVE  QueriesInv'
  <2>1. \A p \in Panels : Same(win[p], win'[p])
    BY <1>0, <1>5 DEF ReceiveView, TypeOK, WindowState
  <2> QED
    BY <1>a, <2>1
<1>6. ASSUME NEW w \in Windows, Answers(w)  PROVE  QueriesInv'
  BY <1>6, AnswerSettles DEF Answers
<1>7. ASSUME NEW w \in Windows, LoadFile(w)  PROVE  QueriesInv'
  <2>1. \A p \in Panels : \/ Same(win[p], win'[p])
                          \/ win'[p] = [Blank("mounted") EXCEPT !.pending = TRUE]
                          \/ win'[p] = Blank("open")
    BY <1>0, <1>7 DEF LoadFile, TypeOK
  <2> DEFINE t == [Blank("mounted") EXCEPT !.pending = TRUE]
  <2>2. Same(Blank("mounted"), t)
    BY DEF Blank
  <2>3. Settling(t)
    BY <2>2, BlankSettles DEF Settling
  <2> SUFFICES ASSUME NEW p \in Panels  PROVE  Settling(win[p])'
    BY DEF QueriesInv
  <2>4. CASE win'[p] = t
    BY <2>3, <2>4 DEF Settling
  <2>5. CASE win'[p] = Blank("open")
    BY <2>5, BlankSettles DEF Settling
  <2>6. CASE Same(win[p], win'[p])
    BY <1>0, <2>6 DEF Settling
  <2> QED
    BY <2>1, <2>4, <2>5, <2>6
<1>8. ASSUME NEW w \in Windows, Reload(w)  PROVE  QueriesInv'
  <2>1. \A p \in Panels : Same(win[p], win'[p]) \/ \E status : win'[p] = Blank(status)
    <3>1. CASE w # Main
      BY <1>0, <1>8, <3>1 DEF Reload, TypeOK
    <3>2. CASE w = Main
      BY <1>0, <1>8, <3>2 DEF Reload, TypeOK, WindowState
    <3> QED
      BY <3>1, <3>2
  <2> QED
    BY <1>a, <2>1
<1>9. ASSUME NEW p \in Panels, HandleDetach(p) \/ DetachRejected(p)  PROVE  QueriesInv'
  BY <1>a, <1>9 DEF HandleDetach, DetachRejected
<1>10. ASSUME NEW p \in Panels, Closed(p)  PROVE  QueriesInv'
  <2>1. win' = [win EXCEPT ![p] = Blank("closed")]
    BY <1>10 DEF Closed
  <2> QED
    BY <1>0, <1>a, <2>1 DEF TypeOK
<1>11. ASSUME NEW p \in Panels, LoadFileFails(p)  PROVE  QueriesInv'
  <2>1. \A u \in Panels : Same(win[u], win'[u])
    BY <1>0, <1>11 DEF LoadFileFails, TypeOK, WindowState
  <2> QED
    BY <1>a, <2>1
<1>12. CASE OpenDetachedPanel
  <2>1. \A p \in Panels : win'[p] = win[p] \/ \E status : win'[p] = Blank(status)
    BY <1>0, <1>12 DEF OpenDetachedPanel, TypeOK
  <2> QED
    BY <1>a, <2>1
<1>13. CASE DetachedPanelClosed
  BY <1>a, <1>13 DEF DetachedPanelClosed
<1>14. CASE UNCHANGED vars
  BY <1>a, <1>14 DEF vars
<1> QED
  BY <1>1, <1>2, <1>3, <1>4, <1>5, <1>6, <1>7, <1>8, <1>9, <1>10, <1>11, <1>12, <1>13, <1>14
     DEF Next, WindowStep, PanelStep

\* A panel that waits for no answer shows the records of the last range it asked
\* for, unless that query failed (useRangeQuery's cancelled flag).
THEOREM AnswersInOrder == Spec => []PanelShowsLastQuery
<1>1. Init => QueriesInv
  BY BlankSettles DEF Init, QueriesInv, Windows
<1>2. QueriesInv => PanelShowsLastQuery
  BY DEF QueriesInv, Settling, PanelShowsLastQuery
<1> QED
  BY <1>1, <1>2, QueriesStep, TypeCorrect, PTL DEF Spec

-----------------------------------------------------------------------------
(***************************************************************************)
(* No panel is lost.  What the property lacks to be inductive: while the   *)
(* main window's page is not there nothing is detached, so that the word   *)
(* of a closing may go to nobody.                                          *)
(***************************************************************************)

Messages(queue) == {queue[i] : i \in DOMAIN queue}

\* What puts a panel in a window of its own, or back in the main one.
Kept(p) ==
    \/ p \in registry
    \/ rejected[p] > 0
    \/ \E m \in Messages(outbox[Main]) : m.type = "open" /\ m.panel = p
    \/ \E m \in Messages(inbox[Main]) : m.type = "closed" /\ m.panel = p

DetachInv ==
    /\ \A p \in detached : Kept(p)
    /\ win[Main].status # "open" => detached = {}

\* What is sent is added to the messages of a queue, and what is received is the
\* only one to leave them.
LEMMA MessagesOf ==
    ASSUME NEW S, NEW queue \in Seq(S)
    PROVE  /\ \A m \in S : Messages(Append(queue, m)) = Messages(queue) \cup {m}
           /\ queue # << >> =>
                /\ Head(queue) \in Messages(queue)
                /\ Messages(Tail(queue)) \subseteq Messages(queue)
                /\ Messages(queue) \subseteq Messages(Tail(queue)) \cup {Head(queue)}
           /\ Messages(queue) \subseteq S
<1>1. Len(queue) \in Nat /\ DOMAIN queue = 1 .. Len(queue)
  OBVIOUS
<1>2. ASSUME NEW m \in S
      PROVE  Messages(Append(queue, m)) = Messages(queue) \cup {m}
  <2> DEFINE longer == Append(queue, m)
  <2>1. /\ DOMAIN longer = 1 .. Len(queue) + 1
        /\ \A i \in 1 .. Len(queue) : longer[i] = queue[i]
        /\ longer[Len(queue) + 1] = m
    OBVIOUS
  <2>2. 1 .. Len(queue) + 1 = 1 .. Len(queue) \cup {Len(queue) + 1}
    BY <1>1
  <2> HIDE DEF longer
  <2>3. Messages(longer) = {longer[i] : i \in 1 .. Len(queue)} \cup {longer[Len(queue) + 1]}
    BY <2>1, <2>2 DEF Messages
  <2>4. {longer[i] : i \in 1 .. Len(queue)} = {queue[i] : i \in 1 .. Len(queue)}
    BY <2>1
  <2> QED
    BY <1>1, <2>1, <2>3, <2>4 DEF Messages, longer
<1>3. ASSUME queue # << >>
      PROVE  /\ Head(queue) \in Messages(queue)
             /\ Messages(Tail(queue)) \subseteq Messages(queue)
             /\ Messages(queue) \subseteq Messages(Tail(queue)) \cup {Head(queue)}
  <2> DEFINE rest == Tail(queue)
  <2>1. /\ Len(queue) >= 1 /\ Head(queue) = queue[1]
        /\ DOMAIN rest = 1 .. Len(queue) - 1
        /\ \A i \in 1 .. Len(queue) - 1 : rest[i] = queue[i + 1]
    BY <1>1, <1>3
  <2> HIDE DEF rest
  <2>2. Head(queue) \in Messages(queue)
    BY <1>1, <2>1 DEF Messages
  <2>3. \A m \in Messages(rest) : m \in Messages(queue)
    BY <1>1, <2>1 DEF Messages
  <2>4. ASSUME NEW i \in 1 .. Len(queue)  PROVE  queue[i] \in Messages(rest) \cup {Head(queue)}
    <3>1. CASE i = 1
      BY <2>1, <3>1
    <3>2. CASE i # 1
      <4>1. i - 1 \in 1 .. Len(queue) - 1 /\ rest[i - 1] = queue[i]
        BY <1>1, <2>1, <3>2
      <4> QED
        BY <2>1, <4>1 DEF Messages
    <3> QED
      BY <3>1, <3>2
  <2> QED
    BY <1>1, <2>2, <2>3, <2>4 DEF Messages, rest
<1>4. Messages(queue) \subseteq S
  BY <1>1 DEF Messages
<1> QED
  BY <1>2, <1>3, <1>4

LEMMA Longer ==
    ASSUME NEW S, NEW queue \in Seq(S), NEW m \in S
    PROVE  Messages(Append(queue, m)) = Messages(queue) \cup {m}
BY MessagesOf

\* Of the main window's queues a step that is not about panels takes out nothing
\* but view messages.
LEMMA QueuesKept ==
    ASSUME TypeOK, NEW w \in Windows,
           RunEffects(w) \/ Relay(w) \/ ReceiveView(w)
    PROVE  /\ \A m \in Messages(outbox[Main]) : m.type = "open" => m \in Messages(outbox'[Main])
           /\ \A m \in Messages(inbox[Main]) : m.type = "closed" => m \in Messages(inbox'[Main])
<1>0. /\ Main \in Windows
      /\ outbox[Main] \in Seq(Sent) /\ inbox[Main] \in Seq(Received)
      /\ outbox[w] \in Seq(Sent) /\ inbox[w] \in Seq(Received) /\ win[w] \in WindowState
  BY DEF TypeOK, Windows, Sent, Received
<1>1. CASE RunEffects(w)
  <2> DEFINE m == [type |-> "view", view |-> win[w].rendered]
  <2>1. m \in Sent
    BY <1>0 DEF WindowState, Sent, ViewMessage
  <2>2. outbox'[Main] = outbox[Main] \/ outbox'[Main] = Append(outbox[Main], m)
    BY <1>0, <1>1 DEF RunEffects, TypeOK
  <2> HIDE DEF m
  <2>3. inbox'[Main] = inbox[Main]
    BY <1>1 DEF RunEffects
  <2>4. Messages(Append(outbox[Main], m)) = Messages(outbox[Main]) \cup {m}
    BY <1>0, <2>1, Longer
  <2>5. Messages(outbox[Main]) \subseteq Messages(outbox'[Main])
    BY <2>2, <2>4
  <2> QED
    BY <2>3, <2>5
<1>2. CASE Relay(w)
  <2>1. \/ outbox'[Main] = outbox[Main]
        \/ /\ outbox'[Main] = Tail(outbox[Main])
           /\ outbox[Main] # << >> /\ Head(outbox[Main]).type # "open"
    BY <1>0, <1>2 DEF Relay, TypeOK
  <2>2. Head(outbox[w]) \in Received
    BY <1>0, <1>2, QueueTypes, MessageKinds DEF Relay, Received
  <2>3. inbox'[Main] = inbox[Main] \/ inbox'[Main] = Append(inbox[Main], Head(outbox[w]))
    BY <1>0, <1>2 DEF Relay
  <2>4. \A m \in Messages(outbox[Main]) : m.type = "open" => m \in Messages(outbox'[Main])
    BY <1>0, <2>1, MessagesOf
  <2> DEFINE m == Head(outbox[w])
  <2> HIDE DEF m
  <2>5. Messages(Append(inbox[Main], m)) = Messages(inbox[Main]) \cup {m}
    BY <1>0, <2>2, Longer DEF m
  <2>6. Messages(inbox[Main]) \subseteq Messages(inbox'[Main])
    BY <2>3, <2>5 DEF m
  <2> QED
    BY <2>4, <2>6
<1>3. CASE ReceiveView(w)
  <2>1. \/ inbox'[Main] = inbox[Main]
        \/ /\ inbox'[Main] = Tail(inbox[Main])
           /\ inbox[Main] # << >> /\ Head(inbox[Main]).type # "closed"
    BY <1>0, <1>3 DEF ReceiveView, TypeOK
  <2>2. outbox'[Main] = outbox[Main]
    BY <1>3 DEF ReceiveView
  <2> QED
    BY <1>0, <2>1, <2>2, MessagesOf
<1> QED
  BY <1>1, <1>2, <1>3

LEMMA DetachStep == TypeOK /\ DetachInv /\ [Next]_vars => DetachInv'
<1> SUFFICES ASSUME TypeOK, DetachInv, [Next]_vars  PROVE  DetachInv'
  OBVIOUS
<1> USE DEF bounds, panels
<1>0. /\ Main \in Windows /\ Panels \subseteq Windows /\ Main \notin Panels
      /\ detached \subseteq Panels /\ win[Main] \in WindowState
      /\ outbox[Main] \in Seq(Sent) /\ inbox[Main] \in Seq(Received)
  BY WindowsAssumption DEF TypeOK, Windows, Sent, Received
\* A step that keeps the bookkeeping and the main window's messages.
<1>a. ASSUME UNCHANGED panels,
             \A m \in Messages(outbox[Main]) : m.type = "open" => m \in Messages(outbox'[Main]),
             \A m \in Messages(inbox[Main]) : m.type = "closed" => m \in Messages(inbox'[Main]),
             win[Main].status = "open" => win'[Main].status = "open"
      PROVE  DetachInv'
  <2>1. \A p \in detached : Kept(p) => Kept(p)'
    BY <1>a DEF Kept
  <2> QED
    BY <1>a, <2>1 DEF DetachInv
<1>1. ASSUME NEW w \in Windows, RunEffects(w) \/ Relay(w) \/ ReceiveView(w)  PROVE  DetachInv'
  <2>1. win[Main].status = "open" => win'[Main].status = "open"
    <3>1. QueryRange(w).status = "open"
      BY DEF QueryRange, TypeOK, WindowState
    <3> QED
      BY <1>0, <1>1, <3>1 DEF RunEffects, Relay, ReceiveView, TypeOK, WindowState
  <2>2. UNCHANGED panels
    BY <1>1 DEF RunEffects, Relay, ReceiveView
  <2> QED
    BY <1>1, <1>a, <2>1, <2>2, QueuesKept
<1>2. ASSUME NEW w \in Windows, (\E v \in Views : Move(w, v)) \/ Render(w)  PROVE  DetachInv'
  <2>1. win[Main].status = "open" => win'[Main].status = "open"
    <3>1. win[w] \in WindowState
      BY DEF TypeOK
    <3>2. ASSUME NEW v \in Views, Move(w, v)  PROVE  win'[Main].status = win[Main].status
      BY <1>0, <3>1, <3>2 DEF Move, TypeOK, WindowState
    <3>3. CASE Render(w)
      BY <1>0, <3>1, <3>3 DEF Render, TypeOK, WindowState
    <3> QED
      BY <1>2, <3>2, <3>3
  <2> QED
    BY <1>2, <1>a, <2>1 DEF Move, Render
<1>3. ASSUME NEW w \in Windows, NEW q \in RangeQuery, Answer(w, q) \/ AnswerFails(w, q)
      PROVE  DetachInv'
  <2>1. win[Main].status = "open" => win'[Main].status = "open"
    <3>1. win[w] \in WindowState
      BY DEF TypeOK
    <3>2. CASE Answer(w, q)
      BY <1>0, <3>1, <3>2 DEF Answer, TypeOK, WindowState
    <3>3. CASE AnswerFails(w, q)
      BY <1>0, <3>1, <3>3 DEF AnswerFails, TypeOK, WindowState
    <3> QED
      BY <1>3, <3>2, <3>3
  <2> QED
    BY <1>3, <1>a, <2>1 DEF Answer, AnswerFails
<1>4. ASSUME NEW w \in Windows, LoadFile(w)  PROVE  DetachInv'
  <2>1. win[Main].status = "open" => win'[Main].status = "open"
    BY <1>0, <1>4 DEF LoadFile, TypeOK
  <2> QED
    BY <1>4, <1>a, <2>1 DEF LoadFile
<1>5. ASSUME NEW w \in Windows, Reload(w)  PROVE  DetachInv'
  <2>1. CASE w = Main
    BY <1>5, <2>1 DEF Reload, DetachInv
  <2>2. CASE w # Main
    <3>1. UNCHANGED <<win[Main], outbox[Main], inbox[Main], panels>>
      BY <1>0, <1>5, <2>2 DEF Reload, TypeOK
    <3> QED
      BY <1>a, <3>1
  <2> QED
    BY <2>1, <2>2
<1>6. ASSUME NEW p \in Panels, HandleDetach(p)  PROVE  DetachInv'
  <2> DEFINE m == [type |-> "open", panel |-> p, awaited |-> TRUE]
  <2>1. m \in Sent
    BY DEF Sent, OpenMessage
  <2>a. m.type = "open" /\ m.panel = p
    OBVIOUS
  <2>b. outbox'[Main] = Append(outbox[Main], m)
    BY <1>0, <1>6 DEF HandleDetach, TypeOK
  <2> HIDE DEF m
  <2>2. Messages(outbox'[Main]) = Messages(outbox[Main]) \cup {m}
    BY <1>0, <2>1, <2>b, Longer
  <2>3. UNCHANGED <<registry, rejected, inbox, win>> /\ detached' = detached \cup {p}
        /\ win[Main].status = "open"
    BY <1>6 DEF HandleDetach
  <2>4. \A d \in detached : Kept(d)'
    BY <2>2, <2>3 DEF DetachInv, Kept
  <2>5. Kept(p)'
    BY <2>2, <2>a DEF Kept
  <2> QED
    BY <2>3, <2>4, <2>5 DEF DetachInv
<1>7. ASSUME NEW p \in Panels, Closed(p)  PROVE  DetachInv'
  <2>1. /\ UNCHANGED <<win[Main], outbox[Main], detached>>
        /\ registry' = registry \ {p}
        /\ inbox'[Main] = WithClosed(inbox[Main], p)
        /\ \A d \in Panels : rejected[d] > 0 => rejected'[d] > 0
    BY <1>0, <1>7 DEF Closed, TypeOK
  <2>2. CASE win[Main].status # "open"
    BY <2>1, <2>2 DEF DetachInv
  <2>3. CASE win[Main].status = "open"
    <3> DEFINE m == [type |-> "closed", panel |-> p]
    <3>1. m \in Received
      BY DEF Received, ClosedMessage
    <3>2. inbox'[Main] = Append(inbox[Main], m)
      BY <2>1, <2>3 DEF WithClosed, Mounted
    <3>a. m.type = "closed" /\ m.panel = p
      OBVIOUS
    <3> HIDE DEF m
    <3>3. Messages(inbox'[Main]) = Messages(inbox[Main]) \cup {m}
      BY <1>0, <3>1, <3>2, Longer
    <3>4. \A d \in detached : Kept(d)'
      BY <1>0, <2>1, <3>3, <3>a DEF DetachInv, Kept
    <3> QED
      BY <2>1, <2>3, <3>4 DEF DetachInv
  <2> QED
    BY <2>2, <2>3
<1>8. ASSUME NEW p \in Panels, LoadFileFails(p)  PROVE  DetachInv'
  <2>1. /\ UNCHANGED <<win[Main], outbox, inbox, registry, detached>>
        /\ \A d \in Panels : rejected[d] > 0 => rejected'[d] > 0
    BY <1>0, <1>8 DEF LoadFileFails, TypeOK
  <2> QED
    BY <1>0, <2>1 DEF DetachInv, Kept
<1>9. ASSUME NEW p \in Panels, DetachRejected(p)  PROVE  DetachInv'
  <2>1. /\ UNCHANGED <<win, outbox, inbox, registry>>
        /\ detached' = detached \ {p}
        /\ \A d \in Panels \ {p} : rejected'[d] = rejected[d]
    BY <1>9 DEF DetachRejected, TypeOK
  <2> QED
    BY <1>0, <2>1 DEF DetachInv, Kept
<1>10. CASE OpenDetachedPanel
  <2> DEFINE m == Head(outbox[Main])
  <2>1. m \in OpenMessage /\ outbox[Main] # << >>
    BY <1>0, <1>10, QueueTypes, MessageKinds DEF OpenDetachedPanel
  <2>2. /\ UNCHANGED <<win[Main], inbox, rejected, detached>>
        /\ registry' = registry \cup {m.panel}
        /\ outbox'[Main] = Tail(outbox[Main])
    BY <1>0, <1>10, <2>1 DEF OpenDetachedPanel, TypeOK, OpenMessage
  <2>3. Messages(outbox[Main]) \subseteq Messages(outbox'[Main]) \cup {m}
    BY <1>0, <2>1, <2>2, MessagesOf
  <2>4. \A d \in detached : Kept(d)'
    BY <2>2, <2>3 DEF DetachInv, Kept
  <2> QED
    BY <2>2, <2>4 DEF DetachInv
<1>11. CASE DetachedPanelClosed
  <2> DEFINE m == Head(inbox[Main])
  <2>1. /\ UNCHANGED <<win, outbox, registry, rejected>>
        /\ detached' = detached \ {m.panel}
        /\ inbox'[Main] = Tail(inbox[Main]) /\ inbox[Main] # << >>
    BY <1>0, <1>11 DEF DetachedPanelClosed, TypeOK
  <2>2. Messages(inbox[Main]) \subseteq Messages(inbox'[Main]) \cup {m}
    BY <1>0, <2>1, MessagesOf
  <2>3. \A d \in detached' : Kept(d)'
    BY <2>1, <2>2 DEF DetachInv, Kept
  <2> QED
    BY <2>1, <2>3 DEF DetachInv
<1>12. CASE UNCHANGED vars
  BY <1>12 DEF vars, DetachInv, Kept
<1> QED
  BY <1>1, <1>2, <1>3, <1>4, <1>5, <1>6, <1>7, <1>8, <1>9, <1>10, <1>11, <1>12
     DEF Next, WindowStep, PanelStep, Answers

\* A panel the main window leaves out has a window, or the word that brings it
\* back is on its way, however clicks, loads, failures, reloads and closings overlap.
THEOREM NoPanelLost == Spec => []HiddenPanelHasWindow
<1>1. Init => DetachInv
  BY DEF Init, DetachInv
<1>2. DetachInv => HiddenPanelHasWindow
  BY DEF DetachInv, Kept, Messages, HiddenPanelHasWindow
<1> QED
  BY <1>1, <1>2, DetachStep, TypeCorrect, PTL DEF Spec

-----------------------------------------------------------------------------
(***************************************************************************)
(* Windows fall in step after a calm move.  The invariant says how the     *)
(* view v of that move spreads: one window at most still has to tell it,   *)
(* and nothing else is then under way; after that v is the only view that  *)
(* is told, rendered or echoed, and a window that does not have it yet has *)
(* it on its way.                                                          *)
(***************************************************************************)

\* A page that is not there renders nothing, and one whose first effects have not
\* run has them to run; a panel without a registered window has none.
Sound(s) ==
    /\ s.status \notin {"mounted", "open"} => ~s.dirty /\ ~s.pending
    /\ s.status = "mounted" => s.pending

Structure ==
    /\ \A w \in Windows : Sound(win[w])
    /\ \A p \in Panels \ registry : win[p].status = "closed"

\* The views that the messages of a queue carry.
ViewsIn(queue) == {m.view : m \in {n \in Messages(queue) : n.type = "view"}}

\* A window that will send v: it has it to render or to tell, and was not told it.
Telling(w, v) == (win[w].dirty \/ win[w].pending) /\ win[w].last # v

OnlyThisView(v) ==
    \A w \in Windows :
        /\ ViewsIn(outbox[w]) \subseteq {v} /\ ViewsIn(inbox[w]) \subseteq {v}
        /\ win[w].dirty => win[w].view = v
        /\ win[w].pending => win[w].rendered = v /\ win[w].view = v

OneTeller(v) ==
    \A w \in Windows : Telling(w, v) =>
        /\ ~(win[w].dirty /\ win[w].pending)
        /\ \A u \in Windows : ViewsIn(outbox[u]) = {} /\ ViewsIn(inbox[u]) = {}
        /\ \A u \in Windows \ {w} : ~win[u].dirty /\ ~win[u].pending

Reached(u, v) ==
    \/ win[u].view = v
    \/ v \in ViewsIn(inbox[u])
    \/ \E w \in Windows \ {u} : v \in ViewsIn(outbox[w]) \/ Telling(w, v)

Spread(v) ==
    /\ OnlyThisView(v)
    /\ OneTeller(v)
    /\ \A u \in Synced \cup {Main} : Mounted(u) => Reached(u, v)

SpreadInv == calm => \E v \in Views : Spread(v)

LEMMA StructureStep == TypeOK /\ Structure /\ [Next]_vars => Structure'
<1> SUFFICES ASSUME TypeOK, Structure, [Next]_vars  PROVE  Structure'
  OBVIOUS
<1> USE DEF bounds, panels
<1>0. /\ Main \in Windows /\ Panels \subseteq Windows /\ Main \notin Panels
      /\ \A w \in Windows : win[w] \in WindowState /\ Sound(win[w])
  BY WindowsAssumption DEF TypeOK, Windows, Structure
<1>b. \A status \in {"closed", "loading", "reloading", "open"} : Sound(Blank(status))
  BY DEF Sound, Blank
\* A step that changes the state of one window, which is not closed, to a sound one.
<1>a. ASSUME NEW w \in Windows, NEW t, win' = [win EXCEPT ![w] = t], Sound(t),
             win[w].status # "closed", registry \subseteq registry'
      PROVE  Structure'
  <2>1. \A u \in Windows : win'[u] = IF u = w THEN t ELSE win[u]
    BY <1>a DEF TypeOK
  <2>2. \A u \in Windows : Sound(win'[u])
    BY <1>0, <1>a, <2>1
  <2>3. \A p \in Panels \ registry' : win'[p].status = "closed"
    BY <1>0, <1>a, <2>1 DEF Structure
  <2> QED
    BY <2>2, <2>3 DEF Structure, Sound
<1>c. ASSUME UNCHANGED <<win, registry>>  PROVE  Structure'
  BY <1>c DEF Structure, Sound
<1>1. ASSUME NEW w \in Windows, NEW v \in Views, Move(w, v)  PROVE  Structure'
  <2> DEFINE t == [win[w] EXCEPT !.view = v, !.dirty = TRUE]
  <2>1. win' = [win EXCEPT ![w] = t] /\ win[w].status = "open" /\ registry' = registry
    BY <1>0, <1>1 DEF Move
  <2>2. Sound(t)
    BY <1>0, <2>1 DEF Sound, WindowState
  <2> QED
    BY <1>a, <2>1, <2>2
<1>2. ASSUME NEW w \in Windows, Render(w)  PROVE  Structure'
  <2> DEFINE t == [win[w] EXCEPT !.dirty = FALSE, !.rendered = win[w].view, !.pending = TRUE]
  <2>1. win' = [win EXCEPT ![w] = t] /\ win[w].status # "closed" /\ registry' = registry
    BY <1>0, <1>2 DEF Render, Mounted
  <2>2. Sound(t)
    BY <1>0, <1>2 DEF Render, Mounted, Sound, WindowState
  <2> QED
    BY <1>a, <2>1, <2>2
<1>3. ASSUME NEW w \in Windows, RunEffects(w)  PROVE  Structure'
  <2>1. win' = [win EXCEPT ![w] = QueryRange(w)] /\ registry' = registry
    BY <1>3 DEF RunEffects
  <2>2. Sound(QueryRange(w))
    BY <1>0 DEF QueryRange, Sound, WindowState
  <2>3. win[w].status # "closed"
    BY <1>0, <1>3 DEF RunEffects, Sound
  <2> QED
    BY <1>a, <2>1, <2>2, <2>3
<1>4. ASSUME NEW w \in Windows, ReceiveView(w)  PROVE  Structure'
  <2> DEFINE t == [win[w] EXCEPT !.last = Head(inbox[w]).view, !.view = Head(inbox[w]).view,
                                 !.dirty = TRUE]
  <2>1. registry' = registry
    BY <1>4 DEF ReceiveView
  <2>2. win' = win \/ (win' = [win EXCEPT ![w] = t] /\ win[w].status = "open")
    BY <1>4 DEF ReceiveView
  <2>3. win[w].status = "open" => Sound(t)
    BY <1>0 DEF Sound, WindowState
  <2> QED
    BY <1>a, <1>c, <2>1, <2>2, <2>3
<1>5. ASSUME NEW w \in Windows, NEW q \in RangeQuery, Answer(w, q) \/ AnswerFails(w, q)
      PROVE  Structure'
  <2>1. registry' = registry
    BY <1>5 DEF Answer, AnswerFails
  <2>2. \A u \in Windows : UNCHANGED <<win[u].status, win[u].dirty, win[u].pending>>
    <3>1. CASE Answer(w, q)
      BY <1>0, <3>1 DEF Answer, TypeOK, WindowState
    <3>2. CASE AnswerFails(w, q)
      BY <1>0, <3>2 DEF AnswerFails, TypeOK, WindowState
    <3> QED
      BY <1>5, <3>1, <3>2
  <2> QED
    BY <1>0, <2>1, <2>2 DEF Structure, Sound
<1>6. ASSUME NEW w \in Windows, LoadFile(w)  PROVE  Structure'
  <2> DEFINE t == [Blank("mounted") EXCEPT !.pending = TRUE]
  <2>1. /\ win' = [win EXCEPT ![w] = t] \/ win' = [win EXCEPT ![w] = Blank("open")]
        /\ win[w].status # "closed" /\ registry' = registry
    BY <1>6 DEF LoadFile
  <2>2. Sound(t)
    BY DEF Sound, Blank
  <2> QED
    BY <1>a, <1>b, <2>1, <2>2
<1>7. ASSUME NEW w \in Windows, Reload(w)  PROVE  Structure'
  <2>1. registry' = registry /\ win[w].status # "closed"
    BY <1>7 DEF Reload
  <2>2. CASE w # Main
    BY <1>7, <1>a, <1>b, <2>1, <2>2 DEF Reload
  <2>3. CASE w = Main
    <3>1. \A u \in Windows : \/ win'[u] = win[u]
                             \/ u = Main /\ win'[u] = Blank("reloading")
                             \/ /\ win[u].status = "loading"
                                /\ win'[u] = [win[u] EXCEPT !.status = "reloading"]
      BY <1>7, <2>3 DEF Reload
    <3>a. ASSUME NEW u \in Windows, win[u].status = "loading"
          PROVE  Sound([win[u] EXCEPT !.status = "reloading"])
      BY <1>0, <3>a DEF Sound, WindowState
    <3>2. \A u \in Windows : Sound(win'[u])
      BY <1>0, <1>b, <3>1, <3>a
    <3>3. \A p \in Panels \ registry : win'[p].status = "closed"
      BY <1>0, <3>1 DEF Structure
    <3> QED
      BY <2>1, <3>2, <3>3 DEF Structure, Sound
  <2> QED
    BY <2>2, <2>3
<1>8. ASSUME NEW p \in Panels, Closed(p)  PROVE  Structure'
  <2>1. win' = [win EXCEPT ![p] = Blank("closed")] /\ registry' = registry \ {p}
    BY <1>8 DEF Closed
  <2>2. \A u \in Windows : win'[u] = IF u = p THEN Blank("closed") ELSE win[u]
    BY <2>1 DEF TypeOK
  <2>3. Blank("closed").status = "closed"
    BY DEF Blank
  <2>4. \A u \in Windows : Sound(win'[u])
    BY <1>0, <1>b, <2>2
  <2>5. \A u \in Panels \ registry' : win'[u].status = "closed"
    BY <1>0, <2>1, <2>2, <2>3 DEF Structure
  <2> QED
    BY <2>4, <2>5 DEF Structure, Sound
<1>9. ASSUME NEW p \in Panels, LoadFileFails(p)  PROVE  Structure'
  <2> DEFINE t == [win[p] EXCEPT !.status = "blank"]
  <2>1. /\ win' = [win EXCEPT ![p] = t] /\ registry' = registry
        /\ win[p].status \in {"loading", "reloading"}
    BY <1>9 DEF LoadFileFails
  <2>2. Sound(t)
    BY <1>0, <2>1 DEF Sound, WindowState
  <2> QED
    BY <1>0, <1>a, <2>1, <2>2
<1>10. ASSUME NEW p \in Panels, HandleDetach(p) \/ DetachRejected(p)  PROVE  Structure'
  BY <1>10, <1>c DEF HandleDetach, DetachRejected
<1>11. CASE OpenDetachedPanel
  <2> DEFINE p == Head(outbox[Main]).panel
  <2>1. PICK status \in {"loading", "reloading"} :
             /\ registry' = registry \cup {p}
             /\ win' = IF p \in registry THEN win ELSE [win EXCEPT ![p] = Blank(status)]
    BY <1>11 DEF OpenDetachedPanel
  <2> HIDE DEF p
  <2>2. \A u \in Windows : win'[u] = win[u] \/ (u = p /\ win'[u] = Blank(status))
    BY <2>1 DEF TypeOK
  <2>3. \A u \in Windows : Sound(win'[u])
    BY <1>0, <1>b, <2>2
  <2>4. \A u \in Panels \ registry' : win'[u].status = "closed"
    BY <1>0, <2>1, <2>2 DEF Structure
  <2> QED
    BY <2>3, <2>4 DEF Structure, Sound
<1>12. ASSUME NEW w \in Windows, Relay(w)  PROVE  Structure'
  BY <1>12, <1>c DEF Relay
<1>13. CASE DetachedPanelClosed \/ UNCHANGED vars
  BY <1>13, <1>c DEF DetachedPanelClosed, vars
<1> QED
  BY <1>1, <1>2, <1>3, <1>4, <1>5, <1>6, <1>7, <1>8, <1>9, <1>10, <1>11, <1>12, <1>13
     DEF Next, WindowStep, PanelStep, Answers

\* The views a queue carries, as messages are added to it and taken from it.
LEMMA ViewsOf ==
    ASSUME NEW S, NEW queue \in Seq(S)
    PROVE  /\ \A m \in S : /\ m.type = "view" =>
                                ViewsIn(Append(queue, m)) = ViewsIn(queue) \cup {m.view}
                           /\ m.type # "view" => ViewsIn(Append(queue, m)) = ViewsIn(queue)
           /\ queue # << >> /\ Head(queue).type = "view" =>
                /\ Head(queue).view \in ViewsIn(queue)
                /\ ViewsIn(Tail(queue)) \subseteq ViewsIn(queue)
           /\ queue # << >> /\ Head(queue).type # "view" =>
                ViewsIn(Tail(queue)) = ViewsIn(queue)
<1>1. ASSUME NEW m \in S
      PROVE  /\ m.type = "view" => ViewsIn(Append(queue, m)) = ViewsIn(queue) \cup {m.view}
             /\ m.type # "view" => ViewsIn(Append(queue, m)) = ViewsIn(queue)
  <2> DEFINE longer == Append(queue, m)
  <2>1. Messages(longer) = Messages(queue) \cup {m}
    BY Longer
  <2> HIDE DEF longer
  <2> QED
    BY <2>1 DEF ViewsIn, longer
<1>2. ASSUME queue # << >>
      PROVE  /\ Head(queue).type = "view" =>
                  /\ Head(queue).view \in ViewsIn(queue)
                  /\ ViewsIn(Tail(queue)) \subseteq ViewsIn(queue)
             /\ Head(queue).type # "view" => ViewsIn(Tail(queue)) = ViewsIn(queue)
  <2> DEFINE rest == Tail(queue)
             first == Head(queue)
  <2>1. /\ first \in Messages(queue) /\ Messages(rest) \subseteq Messages(queue)
        /\ Messages(queue) \subseteq Messages(rest) \cup {first}
    BY <1>2, MessagesOf
  <2> HIDE DEF rest, first
  <2>2. first.type = "view" => /\ first.view \in ViewsIn(queue)
                               /\ ViewsIn(rest) \subseteq ViewsIn(queue)
    BY <2>1 DEF ViewsIn
  <2>3. first.type # "view" => ViewsIn(rest) = ViewsIn(queue)
    BY <2>1 DEF ViewsIn
  <2> QED
    BY <2>2, <2>3 DEF rest, first
<1> QED
  BY <1>1, <1>2

LEMMA NoViews == ViewsIn(<< >>) = {}
BY DEF ViewsIn, Messages

\* When all is quiet, what has spread is everywhere.
LEMMA QuietSpread ==
    ASSUME TypeOK, Quiet, NEW v \in Views, Spread(v), NEW u \in Synced \cup {Main}, Mounted(u)
    PROVE  win[u].view = v
<1>1. u \in Windows
  BY WindowsAssumption DEF Windows
<1>2. \A w \in Windows : /\ ViewsIn(inbox[w]) = {} /\ ViewsIn(outbox[w]) = {}
                         /\ ~Telling(w, v)
  BY NoViews DEF Quiet, Telling
<1> QED
  BY <1>1, <1>2 DEF Spread, Reached

\* A state in which nothing is told and every page there has v.
LEMMA SettledSpread ==
    ASSUME NEW v \in Views,
           \A w \in Windows : /\ ViewsIn(outbox[w])' = {} /\ ViewsIn(inbox[w])' = {}
                              /\ ~win'[w].dirty /\ ~win'[w].pending,
           \A u \in Synced \cup {Main} : Mounted(u)' => win'[u].view = v
    PROVE  Spread(v)'
BY DEF Spread, OnlyThisView, OneTeller, Reached, Telling

\* A step that changes neither what windows have to tell nor what is told.
LEMMA NeutralStep ==
    ASSUME TypeOK, Structure, SpreadInv, calm' = calm,
           \A w \in Windows :
               /\ win'[w].dirty = win[w].dirty /\ win'[w].pending = win[w].pending
               /\ w \in Synced \cup {Main} /\ Mounted(w)' => Mounted(w)
               /\ Mounted(w) => UNCHANGED <<win[w].view, win[w].rendered, win[w].last>>
               /\ ViewsIn(outbox[w])' = ViewsIn(outbox[w])
               /\ ViewsIn(inbox[w])' = ViewsIn(inbox[w])
    PROVE  SpreadInv'
<1> SUFFICES ASSUME calm, NEW v \in Views, Spread(v)  PROVE  Spread(v)'
  BY DEF SpreadInv
<1>1. \A w \in Windows : win[w].dirty \/ win[w].pending => Mounted(w)
  BY DEF Structure, Sound, Mounted
<1>2. \A w \in Windows : Telling(w, v)' <=> Telling(w, v)
  BY <1>1 DEF Telling
<1>3. OnlyThisView(v)'
  BY <1>1 DEF Spread, OnlyThisView
<1>4. OneTeller(v)'
  BY <1>2 DEF Spread, OneTeller
<1>5. ASSUME NEW u \in Synced \cup {Main}, Mounted(u)'  PROVE  Reached(u, v)'
  <2>1. u \in Windows
    BY WindowsAssumption DEF Windows
  <2>2. Mounted(u) /\ Reached(u, v) /\ win'[u].view = win[u].view
    BY <1>5, <2>1 DEF Spread
  <2> QED
    BY <1>2, <2>1, <2>2 DEF Reached
<1> QED
  BY <1>3, <1>4, <1>5 DEF Spread

\* A calm move: its window is the one that has the view to tell.
LEMMA MoveSpreads ==
    ASSUME TypeOK, Structure, SpreadInv, NEW w \in Windows, NEW v \in Views, Move(w, v)
    PROVE  SpreadInv'
<1> SUFFICES ASSUME Quiet, v # win[w].last  PROVE  Spread(v)'
  BY DEF Move, SpreadInv
<1>1. /\ win' = [win EXCEPT ![w].view = v, ![w].dirty = TRUE]
      /\ UNCHANGED <<outbox, inbox>> /\ win[w] \in WindowState
  BY DEF Move, TypeOK
<1>2. /\ win'[w].view = v /\ win'[w].dirty /\ ~win'[w].pending /\ win'[w].last # v
      /\ \A u \in Windows \ {w} : win'[u] = win[u]
  BY <1>1 DEF Quiet, TypeOK, WindowState
<1>3. \A u \in Windows : ViewsIn(outbox[u])' = {} /\ ViewsIn(inbox[u])' = {}
  BY <1>1, NoViews DEF Quiet
<1>4. \A u \in Windows \ {w} : ~win'[u].dirty /\ ~win'[u].pending
  BY <1>2 DEF Quiet
<1>5. OnlyThisView(v)'
  BY <1>2, <1>3, <1>4 DEF OnlyThisView
<1>6. OneTeller(v)'
  BY <1>2, <1>3, <1>4 DEF OneTeller, Telling
<1>7. \A u \in Synced \cup {Main} : Reached(u, v)'
  BY <1>2 DEF Reached, Telling
<1> QED
  BY <1>5, <1>6, <1>7 DEF Spread

\* What a window renders, and tells, is the view that spreads.
LEMMA RenderSpreads ==
    ASSUME TypeOK, Structure, SpreadInv, NEW w \in Windows, Render(w)
    PROVE  SpreadInv'
<1> SUFFICES ASSUME calm, NEW v \in Views, Spread(v)  PROVE  Spread(v)'
  BY DEF Render, SpreadInv
<1>1. /\ win' = [win EXCEPT ![w].dirty = FALSE, ![w].rendered = win[w].view, ![w].pending = TRUE]
      /\ UNCHANGED <<outbox, inbox>> /\ win[w] \in WindowState /\ win[w].dirty /\ ~win[w].pending
  BY DEF Render, TypeOK
<1>2. /\ UNCHANGED <<win[w].view, win[w].last, win[w].status>>
      /\ ~win'[w].dirty /\ win'[w].pending /\ win'[w].rendered = win[w].view
      /\ \A u \in Windows \ {w} : win'[u] = win[u]
  BY <1>1 DEF TypeOK, WindowState
<1>3. \A u \in Windows : Telling(u, v)' <=> Telling(u, v)
  BY <1>1, <1>2 DEF Telling
<1>4. OnlyThisView(v)'
  BY <1>1, <1>2 DEF Spread, OnlyThisView
<1>5. OneTeller(v)'
  <2>1. ASSUME NEW u \in Windows, Telling(u, v)'
        PROVE  /\ ~(win'[u].dirty /\ win'[u].pending)
               /\ \A x \in Windows \ {u} : ~win'[x].dirty /\ ~win'[x].pending
    <3>1. Telling(u, v)
      BY <1>3, <2>1
    <3>2. u = w
      BY <1>1, <3>1 DEF Spread, OneTeller
    <3> QED
      BY <1>2, <3>1, <3>2 DEF Spread, OneTeller
  <2>2. ASSUME NEW u \in Windows, Telling(u, v)'
        PROVE  \A x \in Windows : ViewsIn(outbox[x])' = {} /\ ViewsIn(inbox[x])' = {}
    BY <1>1, <1>3, <2>2 DEF Spread, OneTeller
  <2> QED
    BY <2>1, <2>2 DEF OneTeller
<1>6. ASSUME NEW u \in Synced \cup {Main}, Mounted(u)'  PROVE  Reached(u, v)'
  <2>1. u \in Windows
    BY WindowsAssumption DEF Windows
  <2>2. Mounted(u) /\ win'[u].view = win[u].view
    BY <1>2, <1>6, <2>1 DEF Mounted
  <2> QED
    BY <1>1, <1>3, <2>1, <2>2 DEF Spread, Reached
<1> QED
  BY <1>4, <1>5, <1>6 DEF Spread

\* The effects of the window that has the view to tell send it to all others; those
\* of any other window send nothing.
LEMMA EffectsSpread ==
    ASSUME TypeOK, Structure, SpreadInv, NEW w \in Windows, RunEffects(w)
    PROVE  SpreadInv'
<1> SUFFICES ASSUME calm, NEW v \in Views, Spread(v)  PROVE  Spread(v)'
  BY DEF RunEffects, SpreadInv
<1> DEFINE told == [type |-> "view", view |-> win[w].rendered]
<1>0. win[w] \in WindowState /\ win[w].pending /\ outbox[w] \in Seq(Sent)
  BY DEF RunEffects, TypeOK, Sent
<1>1. /\ win' = [win EXCEPT ![w] = QueryRange(w)]
      /\ outbox' = IF IsEcho(w) THEN outbox ELSE [outbox EXCEPT ![w] = Append(@, told)]
      /\ inbox' = inbox
  BY DEF RunEffects
<1>2. /\ QueryRange(w).view = win[w].view /\ QueryRange(w).last = win[w].last
      /\ QueryRange(w).dirty = win[w].dirty /\ ~QueryRange(w).pending
  BY <1>0 DEF QueryRange, WindowState
<1>3. /\ UNCHANGED <<win[w].view, win[w].last, win[w].dirty>> /\ ~win'[w].pending
      /\ \A u \in Windows \ {w} : win'[u] = win[u]
  BY <1>1, <1>2 DEF TypeOK
<1>4. win[w].rendered = v /\ win[w].view = v
  BY <1>0 DEF Spread, OnlyThisView
<1>5. \A u \in Windows : u # w => ViewsIn(outbox[u])' = ViewsIn(outbox[u])
  BY <1>1 DEF TypeOK
<1>6. \A u \in Windows : Mounted(u)' => Mounted(u)
  <2>1. Mounted(w)
    BY <1>0 DEF Structure, Sound, Mounted
  <2> QED
    BY <1>3, <2>1 DEF Mounted
<1>7. CASE Telling(w, v)
  <2>1. \A u \in Windows : ~win'[u].dirty /\ ~win'[u].pending
    BY <1>0, <1>3, <1>7 DEF Spread, OneTeller
  <2>2. ViewsIn(outbox[w])' = {v}
    <3>1. told \in Sent /\ told.type = "view" /\ told.view = v
      BY <1>0, <1>4 DEF Sent, ViewMessage, WindowState
    <3>2. outbox'[w] = Append(outbox[w], told)
      BY <1>1, <1>4, <1>7 DEF IsEcho, Telling, TypeOK
    <3> HIDE DEF told
    <3>3. ViewsIn(Append(outbox[w], told)) = ViewsIn(outbox[w]) \cup {v}
      BY <1>0, <3>1, ViewsOf
    <3>4. ViewsIn(outbox[w]) = {}
      BY <1>7 DEF Spread, OneTeller
    <3> QED
      BY <3>2, <3>3, <3>4
  <2>3. \A u \in Windows : u # w => ViewsIn(outbox[u])' = {}
    BY <1>5, <1>7 DEF Spread, OneTeller
  <2>4. \A u \in Windows : ViewsIn(inbox[u])' = {}
    BY <1>1, <1>7 DEF Spread, OneTeller
  <2>5. OnlyThisView(v)'
    BY <2>1, <2>2, <2>3, <2>4 DEF OnlyThisView
  <2>6. OneTeller(v)'
    BY <2>1 DEF OneTeller, Telling
  <2>7. \A u \in Synced \cup {Main} : Reached(u, v)'
    BY <1>3, <1>4, <2>2 DEF Reached
  <2> QED
    BY <2>5, <2>6, <2>7 DEF Spread
<1>8. CASE ~Telling(w, v)
  <2>1. win[w].last = v /\ outbox' = outbox
    BY <1>0, <1>1, <1>4, <1>8 DEF Telling, IsEcho
  <2>2. \A u \in Windows : Telling(u, v)' => Telling(u, v)
    BY <1>3, <2>1 DEF Telling
  <2>3. \A u \in Windows \ {w} : Telling(u, v) => Telling(u, v)'
    BY <1>3 DEF Telling
  <2>4. OnlyThisView(v)'
    BY <1>1, <1>3, <2>1 DEF Spread, OnlyThisView
  <2>5. OneTeller(v)'
    BY <1>1, <1>3, <2>1, <2>2 DEF Spread, OneTeller
  <2>6. ASSUME NEW u \in Synced \cup {Main}, Mounted(u)'  PROVE  Reached(u, v)'
    <3>1. u \in Windows
      BY WindowsAssumption DEF Windows
    <3>2. CASE u = w
      BY <1>3, <1>4, <3>2 DEF Reached
    <3>3. CASE u # w
      <4>1. Reached(u, v) /\ win'[u] = win[u]
        BY <1>3, <1>6, <2>6, <3>1, <3>3 DEF Spread
      <4> QED
        BY <1>1, <1>8, <2>1, <2>3, <4>1 DEF Reached
    <3> QED
      BY <3>2, <3>3
  <2> QED
    BY <2>4, <2>5, <2>6 DEF Spread
<1> QED
  BY <1>7, <1>8

\* Every page that is there gets what is relayed.
LEMMA RelaySpreads ==
    ASSUME TypeOK, Structure, SpreadInv, NEW w \in Windows, Relay(w)
    PROVE  SpreadInv'
<1> SUFFICES ASSUME calm, NEW v \in Views, Spread(v)  PROVE  Spread(v)'
  BY DEF Relay, SpreadInv
<1> DEFINE first == Head(outbox[w])
           rest == Tail(outbox[w])
<1>0. /\ outbox[w] \in Seq(Sent) /\ \A u \in Windows : inbox[u] \in Seq(Received)
      /\ outbox[w] # << >> /\ first.type = "view"
  BY DEF Relay, TypeOK, Sent, Received
<1>1. /\ UNCHANGED win
      /\ \A u \in Windows : outbox'[u] = IF u = w THEN rest ELSE outbox[u]
      /\ \A u \in Windows : inbox'[u] = IF u # w /\ Mounted(u) THEN Append(inbox[u], first)
                                                               ELSE inbox[u]
  BY DEF Relay, TypeOK
<1>2. first \in Received
  BY <1>0, QueueTypes, MessageKinds DEF Received
<1>3. first.view \in ViewsIn(outbox[w]) /\ ViewsIn(rest) \subseteq ViewsIn(outbox[w])
  BY <1>0, ViewsOf
<1> HIDE DEF first, rest
<1>4. first.view = v
  BY <1>3 DEF Spread, OnlyThisView
<1>5. \A u \in Windows : ViewsIn(Append(inbox[u], first)) = ViewsIn(inbox[u]) \cup {v}
  BY <1>0, <1>2, <1>4, ViewsOf
<1>6. \A u \in Windows : ~Telling(u, v)
  BY <1>3 DEF Spread, OneTeller
<1>7. OnlyThisView(v)'
  <2>1. \A u \in Windows : ViewsIn(outbox[u])' \subseteq {v} /\ ViewsIn(inbox[u])' \subseteq {v}
    BY <1>1, <1>3, <1>5 DEF Spread, OnlyThisView
  <2> QED
    BY <1>1, <2>1 DEF Spread, OnlyThisView
<1>8. OneTeller(v)'
  BY <1>1, <1>6 DEF OneTeller, Telling
<1>9. ASSUME NEW u \in Synced \cup {Main}, Mounted(u)'  PROVE  Reached(u, v)'
  <2>1. u \in Windows
    BY WindowsAssumption DEF Windows
  <2>2. Mounted(u) /\ Reached(u, v)
    BY <1>1, <1>9 DEF Spread, Mounted
  <2>3. CASE u # w
    BY <1>1, <1>5, <2>1, <2>2, <2>3 DEF Reached
  <2>4. CASE u = w
    BY <1>1, <1>6, <2>1, <2>2, <2>4 DEF Reached
  <2> QED
    BY <2>3, <2>4
<1> QED
  BY <1>7, <1>8, <1>9 DEF Spread

\* A window takes over a view it will not send on.
LEMMA ReceiptSpreads ==
    ASSUME TypeOK, Structure, SpreadInv, NEW w \in Windows, ReceiveView(w)
    PROVE  SpreadInv'
<1> SUFFICES ASSUME calm, NEW v \in Views, Spread(v)  PROVE  Spread(v)'
  BY DEF ReceiveView, SpreadInv
<1> DEFINE first == Head(inbox[w])
           rest == Tail(inbox[w])
           takes == win[w].status = "open" /\ w \in Synced \cup {Main}
<1>0. /\ inbox[w] \in Seq(Received) /\ inbox[w] # << >> /\ first.type = "view"
      /\ win[w] \in WindowState
  BY DEF ReceiveView, TypeOK, Received
<1>1. /\ UNCHANGED outbox
      /\ \A u \in Windows : inbox'[u] = IF u = w THEN rest ELSE inbox[u]
      /\ win' = IF takes THEN [win EXCEPT ![w].last = first.view, ![w].view = first.view,
                                          ![w].dirty = TRUE]
                ELSE win
  BY DEF ReceiveView, TypeOK
<1>2. first.view \in ViewsIn(inbox[w]) /\ ViewsIn(rest) \subseteq ViewsIn(inbox[w])
  BY <1>0, ViewsOf
<1> HIDE DEF first, rest
<1>3. first.view = v
  BY <1>2 DEF Spread, OnlyThisView
<1>4. \A u \in Windows : ~Telling(u, v)
  BY <1>2 DEF Spread, OneTeller
<1>5. \A u \in Windows : u # w => win'[u] = win[u]
  BY <1>1 DEF TypeOK
<1>6. \/ ~takes /\ win'[w] = win[w]
      \/ /\ takes /\ win'[w].last = v /\ win'[w].view = v
         /\ UNCHANGED <<win[w].pending, win[w].rendered, win[w].status>>
  BY <1>0, <1>1, <1>3 DEF TypeOK, WindowState
<1>7. \A u \in Windows : ~Telling(u, v)'
  BY <1>4, <1>5, <1>6 DEF Telling
<1>8. OnlyThisView(v)'
  <2>1. \A u \in Windows : ViewsIn(outbox[u])' \subseteq {v} /\ ViewsIn(inbox[u])' \subseteq {v}
    BY <1>1, <1>2 DEF Spread, OnlyThisView
  <2>2. \A u \in Windows : /\ win'[u].dirty => win'[u].view = v
                           /\ win'[u].pending => win'[u].rendered = v /\ win'[u].view = v
    BY <1>5, <1>6 DEF Spread, OnlyThisView
  <2> QED
    BY <2>1, <2>2 DEF OnlyThisView
<1>9. OneTeller(v)'
  BY <1>7 DEF OneTeller
<1>10. ASSUME NEW u \in Synced \cup {Main}, Mounted(u)'  PROVE  Reached(u, v)'
  <2>1. u \in Windows
    BY WindowsAssumption DEF Windows
  <2>2. Mounted(u)
    BY <1>5, <1>6, <1>10, <2>1 DEF Mounted
  <2>3. CASE u # w
    BY <1>1, <1>4, <1>5, <2>1, <2>2, <2>3 DEF Spread, Reached
  <2>4. CASE u = w /\ takes
    BY <1>6, <2>4 DEF Reached
  <2>5. CASE u = w /\ ~takes
    <3>1. win[w].status = "mounted"
      BY <2>2, <2>5 DEF Mounted
    <3>2. win[w].view = v
      BY <3>1 DEF Structure, Sound, Spread, OnlyThisView
    <3> QED
      BY <1>6, <2>5, <3>2 DEF Reached
  <2> QED
    BY <2>3, <2>4, <2>5
<1> QED
  BY <1>8, <1>9, <1>10 DEF Spread

\* A page comes into a quiet client, and tells its default view; or it goes from one.
LEMMA PageSpreads ==
    ASSUME TypeOK, Structure, SpreadInv, NEW w \in Windows,
           LoadFile(w) \/ Reload(w) \/ (w \in Panels /\ Closed(w))
    PROVE  SpreadInv'
<1>0. /\ Main \in Windows /\ Panels \subseteq Windows /\ Main \notin Panels
      /\ Synced \cup {Main} \subseteq Windows
      /\ \A u \in Windows : win[u] \in WindowState
  BY WindowsAssumption DEF TypeOK, Windows
<1>1. CASE LoadFile(w) /\ w \in Synced \cup {Main}
  <2> SUFFICES ASSUME Quiet  PROVE  Spread(Default)'
    BY <1>1, WindowsAssumption DEF LoadFile, SpreadInv
  <2>1. /\ win' = [win EXCEPT ![w] = [Blank("mounted") EXCEPT !.pending = TRUE]]
        /\ UNCHANGED <<outbox, inbox>>
    BY <1>1 DEF LoadFile
  <2>2. /\ win'[w] = [Blank("mounted") EXCEPT !.pending = TRUE]
        /\ \A u \in Windows \ {w} : win'[u] = win[u]
    BY <2>1 DEF TypeOK
  <2>3. /\ win'[w].view = Default /\ win'[w].rendered = Default /\ win'[w].last = Null
        /\ ~win'[w].dirty /\ win'[w].pending
    BY <2>2 DEF Blank
  <2>4. \A u \in Windows : ViewsIn(outbox[u])' = {} /\ ViewsIn(inbox[u])' = {}
    BY <2>1, NoViews DEF Quiet
  <2>5. \A u \in Windows \ {w} : ~win'[u].dirty /\ ~win'[u].pending
    BY <2>2 DEF Quiet
  <2>6. OnlyThisView(Default)'
    BY <2>3, <2>4, <2>5 DEF OnlyThisView
  <2>7. OneTeller(Default)'
    BY <2>3, <2>4, <2>5 DEF OneTeller, Telling
  <2>8. \A u \in Synced \cup {Main} : Reached(u, Default)'
    BY <2>3, WindowsAssumption DEF Reached, Telling
  <2> QED
    BY <2>6, <2>7, <2>8 DEF Spread
<1>2. CASE LoadFile(w) /\ w \notin Synced \cup {Main}
  <2>1. /\ win' = [win EXCEPT ![w] = Blank("open")]
        /\ UNCHANGED <<outbox, inbox, calm>> /\ ~Mounted(w)
    BY <1>2 DEF LoadFile, Mounted
  <2>2. ~win[w].dirty /\ ~win[w].pending /\ win[w] \in WindowState
    BY <2>1 DEF Structure, Sound, Mounted, TypeOK
  <2>3. \A u \in Windows : win'[u] = IF u = w THEN Blank("open") ELSE win[u]
    BY <2>1 DEF TypeOK
  <2>4. Blank("open").dirty = FALSE /\ Blank("open").pending = FALSE
    BY DEF Blank
  <2>5. win[w].dirty = FALSE /\ win[w].pending = FALSE
    BY <2>2 DEF WindowState
  <2>6. \A u \in Windows :
               /\ win'[u].dirty = win[u].dirty /\ win'[u].pending = win[u].pending
               /\ u \in Synced \cup {Main} /\ Mounted(u)' => Mounted(u)
               /\ Mounted(u) => UNCHANGED <<win[u].view, win[u].rendered, win[u].last>>
    BY <1>2, <2>1, <2>3, <2>4, <2>5 DEF Mounted
  <2> QED
    BY <2>1, <2>6, NeutralStep
<1>3. CASE Reload(w) \/ (w \in Panels /\ Closed(w))
  <2> SUFFICES ASSUME calm, Quiet, NEW v \in Views, Spread(v)  PROVE  Spread(v)'
    BY <1>3 DEF Reload, Closed, SpreadInv
  <2>1. \A u \in Synced \cup {Main} : Mounted(u) => win[u].view = v
    BY QuietSpread
  <2>2. \A u \in Windows : \/ win'[u] = win[u]
                           \/ \E status \in {"closed", "reloading"} : win'[u] = Blank(status)
                           \/ /\ win[u].status = "loading"
                              /\ win'[u] = [win[u] EXCEPT !.status = "reloading"]
    <3>1. CASE w \in Panels /\ Closed(w)
      BY <3>1 DEF Closed, TypeOK
    <3>2. CASE Reload(w) /\ w # Main
      BY <3>2 DEF Reload, TypeOK
    <3>3. CASE Reload(w) /\ w = Main
      BY <3>3 DEF Reload
    <3> QED
      BY <1>3, <3>1, <3>2, <3>3
  <2>3. ASSUME NEW u \in Windows
        PROVE  /\ ~win'[u].dirty /\ ~win'[u].pending
               /\ Mounted(u)' => Mounted(u) /\ win'[u].view = win[u].view
    <3>1. ~win[u].dirty /\ ~win[u].pending
      BY DEF Quiet
    <3>2. CASE win'[u] = win[u]
      BY <3>1, <3>2 DEF Mounted
    <3>3. ASSUME NEW status \in {"closed", "reloading"}, win'[u] = Blank(status)
          PROVE  ~win'[u].dirty /\ ~win'[u].pending /\ ~Mounted(u)'
      BY <3>3 DEF Blank, Mounted
    <3>4. ASSUME win'[u] = [win[u] EXCEPT !.status = "reloading"]
          PROVE  ~win'[u].dirty /\ ~win'[u].pending /\ ~Mounted(u)'
      BY <1>0, <3>1, <3>4 DEF Mounted, WindowState
    <3> QED
      BY <2>2, <3>2, <3>3, <3>4
  <2>4. ASSUME NEW u \in Windows
        PROVE  ViewsIn(outbox[u])' = {} /\ ViewsIn(inbox[u])' = {}
    <3>0. outbox[u] = << >> /\ inbox[u] = << >>
      BY DEF Quiet
    <3>1. CASE w \in Panels /\ Closed(w)
      <4>1. outbox'[u] = << >>
        BY <3>0, <3>1 DEF Closed, TypeOK
      <4>2. inbox'[u] = << >> \/ inbox'[u] = WithClosed(<< >>, w)
        BY <1>0, <3>0, <3>1 DEF Closed, TypeOK
      <4>3. ViewsIn(WithClosed(<< >>, w)) = {}
        <5> DEFINE m == [type |-> "closed", panel |-> w]
        <5>1. m \in Received /\ m.type # "view"
          BY <3>1 DEF Received, ClosedMessage
        <5>2. << >> \in Seq(Received)
          OBVIOUS
        <5>3. WithClosed(<< >>, w) = << >> \/ WithClosed(<< >>, w) = Append(<< >>, m)
          BY DEF WithClosed
        <5> HIDE DEF m
        <5>4. ViewsIn(Append(<< >>, m)) = {}
          BY <5>1, <5>2, ViewsOf, NoViews
        <5> QED
          BY <5>3, <5>4, NoViews
      <4> QED
        BY <4>1, <4>2, <4>3, NoViews
    <3>2. CASE Reload(w)
      <4>1. inbox'[u] = << >>
        BY <3>0, <3>2 DEF Reload, TypeOK
      <4>2. DOMAIN outbox'[u] = {}
        BY <3>0, <3>2 DEF Reload, TypeOK
      <4> QED
        BY <4>1, <4>2, NoViews DEF ViewsIn, Messages
    <3> QED
      BY <1>3, <3>1, <3>2
  <2> QED
    BY <1>0, <2>1, <2>3, <2>4, SettledSpread
<1> QED
  BY <1>1, <1>2, <1>3

\* Answers, clicks, failures and the word of a closing have nothing to do with views.
LEMMA OtherStepsSpread ==
    ASSUME TypeOK, Structure, SpreadInv,
           \/ \E w \in Windows, q \in RangeQuery : Answer(w, q) \/ AnswerFails(w, q)
           \/ \E p \in Panels : HandleDetach(p) \/ LoadFileFails(p) \/ DetachRejected(p)
           \/ OpenDetachedPanel
           \/ DetachedPanelClosed
           \/ UNCHANGED vars
    PROVE  SpreadInv'
<1> USE DEF panels
<1>0. /\ Main \in Windows /\ Panels \subseteq Windows /\ Main \notin Panels
      /\ outbox[Main] \in Seq(Sent) /\ inbox[Main] \in Seq(Received)
      /\ \A u \in Windows : win[u] \in WindowState
  BY WindowsAssumption DEF TypeOK, Windows, Sent, Received
<1> DEFINE SameWindow(u) ==
               /\ win'[u].dirty = win[u].dirty /\ win'[u].pending = win[u].pending
               /\ Mounted(u)' => Mounted(u)
               /\ Mounted(u) => UNCHANGED <<win[u].view, win[u].rendered, win[u].last>>
           SameViews(u) == /\ ViewsIn(outbox[u])' = ViewsIn(outbox[u])
                           /\ ViewsIn(inbox[u])' = ViewsIn(inbox[u])
<1>a. ASSUME calm' = calm, \A u \in Windows : SameWindow(u), \A u \in Windows : SameViews(u)
      PROVE  SpreadInv'
  BY <1>a, NeutralStep
<1>b. ASSUME UNCHANGED win  PROVE  \A u \in Windows : SameWindow(u)
  BY <1>b DEF Mounted
<1>c. ASSUME UNCHANGED <<outbox, inbox>>  PROVE  \A u \in Windows : SameViews(u)
  BY <1>c
<1>1. ASSUME NEW w \in Windows, NEW q \in RangeQuery, Answer(w, q) \/ AnswerFails(w, q)
      PROVE  SpreadInv'
  <2>1. UNCHANGED <<outbox, inbox, calm>>
    BY <1>1 DEF Answer, AnswerFails
  <2>2. \A u \in Windows : SameWindow(u)
    <3>1. CASE Answer(w, q)
      BY <1>0, <3>1 DEF Answer, Mounted, TypeOK, WindowState
    <3>2. CASE AnswerFails(w, q)
      BY <1>0, <3>2 DEF AnswerFails, Mounted, TypeOK, WindowState
    <3> QED
      BY <1>1, <3>1, <3>2
  <2> QED
    BY <1>a, <1>c, <2>1, <2>2
<1>2. ASSUME NEW p \in Panels, HandleDetach(p)  PROVE  SpreadInv'
  <2> DEFINE m == [type |-> "open", panel |-> p, awaited |-> TRUE]
  <2>1. /\ UNCHANGED <<win, inbox, calm>> /\ m \in Sent /\ m.type # "view"
        /\ \A u \in Windows : outbox'[u] = IF u = Main THEN Append(outbox[u], m) ELSE outbox[u]
    BY <1>2 DEF HandleDetach, TypeOK, Sent, OpenMessage
  <2> HIDE DEF m
  <2>2. ViewsIn(Append(outbox[Main], m)) = ViewsIn(outbox[Main])
    BY <1>0, <2>1, ViewsOf
  <2>3. \A u \in Windows : SameViews(u)
    BY <2>1, <2>2
  <2> QED
    BY <1>a, <1>b, <2>1, <2>3
<1>3. ASSUME NEW p \in Panels, LoadFileFails(p)  PROVE  SpreadInv'
  <2>1. UNCHANGED <<outbox, inbox, calm>>
    BY <1>3 DEF LoadFileFails
  <2>2. \A u \in Windows : SameWindow(u)
    BY <1>0, <1>3 DEF LoadFileFails, Mounted, TypeOK, WindowState
  <2> QED
    BY <1>a, <1>c, <2>1, <2>2
<1>4. ASSUME NEW p \in Panels, DetachRejected(p)  PROVE  SpreadInv'
  BY <1>4, <1>a, <1>b, <1>c DEF DetachRejected
<1>5. CASE OpenDetachedPanel
  <2> DEFINE first == Head(outbox[Main])
             p == first.panel
  <2>1. /\ UNCHANGED <<inbox, calm>> /\ outbox[Main] # << >> /\ first.type = "open"
        /\ \A u \in Windows : outbox'[u] = IF u = Main THEN Tail(outbox[u]) ELSE outbox[u]
    BY <1>5 DEF OpenDetachedPanel, TypeOK
  <2>2. first \in Sent
    BY <1>0, <2>1, QueueTypes
  <2>3. p \in Panels
    BY <2>1, <2>2, MessageKinds DEF OpenMessage
  <2>4. PICK status \in {"loading", "reloading"} :
               win' = IF p \in registry THEN win ELSE [win EXCEPT ![p] = Blank(status)]
    BY <1>5 DEF OpenDetachedPanel
  <2>5. ViewsIn(Tail(outbox[Main])) = ViewsIn(outbox[Main])
    BY <1>0, <2>1, ViewsOf
  <2> HIDE DEF first, p
  <2>6. \A u \in Windows : SameViews(u)
    BY <2>1, <2>5
  <2>7. ASSUME NEW u \in Windows  PROVE  SameWindow(u)
    <3>1. CASE win'[u] = win[u]
      BY <3>1 DEF Mounted
    <3>2. CASE win'[u] # win[u]
      <4>1. u = p /\ p \notin registry /\ win'[u] = Blank(status)
        BY <2>4, <3>2 DEF TypeOK
      <4>2. win[u].status = "closed"
        BY <2>3, <4>1 DEF Structure
      <4>3. ~win[u].dirty /\ ~win[u].pending /\ ~Mounted(u)
        BY <4>2 DEF Structure, Sound, Mounted
      <4>4. win[u].dirty = FALSE /\ win[u].pending = FALSE
        BY <1>0, <4>3 DEF WindowState
      <4>5. win'[u].dirty = FALSE /\ win'[u].pending = FALSE /\ ~Mounted(u)'
        BY <4>1 DEF Blank, Mounted
      <4> QED
        BY <4>3, <4>4, <4>5
    <3> QED
      BY <3>1, <3>2
  <2> QED
    BY <1>a, <2>1, <2>6, <2>7
<1>6. CASE DetachedPanelClosed
  <2> DEFINE first == Head(inbox[Main])
  <2>1. /\ UNCHANGED <<win, outbox, calm>> /\ inbox[Main] # << >> /\ first.type # "view"
        /\ \A u \in Windows : inbox'[u] = IF u = Main THEN Tail(inbox[u]) ELSE inbox[u]
    BY <1>6 DEF DetachedPanelClosed, TypeOK
  <2>2. ViewsIn(Tail(inbox[Main])) = ViewsIn(inbox[Main])
    BY <1>0, <2>1, ViewsOf
  <2>3. \A u \in Windows : SameViews(u)
    BY <2>1, <2>2
  <2> QED
    BY <1>a, <1>b, <2>1, <2>3
<1>7. CASE UNCHANGED vars
  BY <1>7, <1>a, <1>b, <1>c DEF vars
<1> QED
  BY <1>1, <1>2, <1>3, <1>4, <1>5, <1>6, <1>7

LEMMA SpreadStep == TypeOK /\ Structure /\ SpreadInv /\ [Next]_vars => SpreadInv'
<1> SUFFICES ASSUME TypeOK, Structure, SpreadInv, [Next]_vars  PROVE  SpreadInv'
  OBVIOUS
<1>1. ASSUME NEW w \in Windows, (\E v \in Views : Move(w, v)) \/ WindowStep(w)  PROVE  SpreadInv'
  BY <1>1, MoveSpreads, RenderSpreads, EffectsSpread, RelaySpreads, ReceiptSpreads
     DEF WindowStep
<1>2. ASSUME NEW w \in Windows, LoadFile(w) \/ Reload(w)  PROVE  SpreadInv'
  BY <1>2, PageSpreads
<1>3. ASSUME NEW p \in Panels, Closed(p)  PROVE  SpreadInv'
  BY <1>3, PageSpreads DEF Windows
<1>4. ASSUME \/ \E w \in Windows : Answers(w)
             \/ \E p \in Panels : HandleDetach(p) \/ PanelStep(p)
             \/ OpenDetachedPanel \/ DetachedPanelClosed \/ UNCHANGED vars
      PROVE  SpreadInv'
  BY <1>4, OtherStepsSpread DEF Answers, PanelStep
<1> QED
  BY <1>1, <1>2, <1>3, <1>4 DEF Next

\* If the last move or mount came when all was quiet, the windows have one view once
\* they are quiet again (useSyncedView: an echo is not sent on).
THEOREM CalmMovesSpread == Spec => []InStepWhenCalm
<1>1. Init => TypeOK /\ Structure /\ SpreadInv
  <2> SUFFICES ASSUME Init  PROVE  TypeOK /\ Structure /\ SpreadInv
    OBVIOUS
  <2>1. \A w \in Windows : win[w] = Blank(IF w = Main THEN "open" ELSE "closed")
    BY DEF Init
  <2>a. ASSUME NEW status
        PROVE  /\ ~Blank(status).dirty /\ ~Blank(status).pending
               /\ Blank(status).view = Default /\ Blank(status).status = status
    BY DEF Blank
  <2>2. \A w \in Windows : /\ ~win[w].dirty /\ ~win[w].pending /\ win[w].view = Default
                           /\ win[w].status = IF w = Main THEN "open" ELSE "closed"
    BY <2>1, <2>a
  <2>3. Structure
    <3>1. \A p \in Panels : p \in Windows /\ p # Main
      BY WindowsAssumption DEF Windows
    <3> QED
      BY <2>2, <3>1 DEF Structure, Sound
  <2>4. Spread(Default)
    <3>1. \A w \in Windows : ViewsIn(outbox[w]) = {} /\ ViewsIn(inbox[w]) = {}
      BY NoViews DEF Init
    <3>2. Synced \cup {Main} \subseteq Windows
      BY WindowsAssumption DEF Windows
    <3> QED
      BY <2>2, <3>1, <3>2 DEF Spread, OnlyThisView, OneTeller, Reached, Telling
  <2> QED
    BY <2>3, <2>4, InitTypes, WindowsAssumption DEF SpreadInv
<1>2. TypeOK /\ SpreadInv => InStepWhenCalm
  <2> SUFFICES ASSUME TypeOK, Quiet, calm, NEW v \in Views, Spread(v)  PROVE  InStep
    BY DEF SpreadInv, InStepWhenCalm
  <2> QED
    BY QuietSpread DEF InStep, Mounted
<1> QED
  BY <1>1, <1>2, TypeStep, StructureStep, SpreadStep, PTL DEF Spec

=============================================================================
