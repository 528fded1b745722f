---------------------------- MODULE ClientWindows ----------------------------
(***************************************************************************)
(* The windows of one client: the main one and the panels detached from    *)
(* it, which tell each other the view they show.                           *)
(*                                                                         *)
(* A window is a process with an event loop; the main process is another,  *)
(* which opens windows and relays what one window sends to all others.     *)
(* In a window React separates three moments: an atom is set, the window   *)
(* renders what the atom holds, and the effects of that render run, with   *)
(* the values of that render; a message may be received between any two.   *)
(*                                                                         *)
(* The view stands for the cursor too, which is kept and sent the same     *)
(* way.  Moving is any call that sets it: recenterOn, on a click on a log  *)
(* line, or load in the main window, which goes to the last hour.          *)
(***************************************************************************)
EXTENDS Naturals, Sequences, FiniteSets

CONSTANTS
    Main,        \* the main window
    Panels,      \* DetachPanelKind
    Synced,      \* those whose window mounts useSyncedView (chart and log, not sidebar)
    Views,       \* values of viewAtom
    Default,     \* the one it begins with
    Null,
    MaxMoves,    \* bound: moves of the user, and uses of the menu's Reload
    MaxDetach    \* bound: uses of a detach button

Windows == Panels \cup {Main}

ASSUME WindowsAssumption ==
    /\ Main \notin Panels
    /\ Synced \subseteq Panels
    /\ Default \in Views
    /\ Null \notin Views
    /\ MaxMoves \in Nat /\ MaxDetach \in Nat

VARIABLES
    win,        \* the state of each window
    outbox,     \* what each window has sent and the main process not yet got
    inbox,      \* what the main process has sent and each window not yet got
    registry,   \* main process: detachedPanels
    detached,   \* main window: detachedKinds, the panels App does not render
    rejected,   \* rejections of open-detached-panel on their way to App
    moves, clicks,
    calm        \* history: nothing else was going on when the view was last moved

vars == <<win, outbox, inbox, registry, detached, rejected, moves, clicks, calm>>

ViewMessage == [type : {"view"}, view : Views]
\* awaited: the page that sent it is still there to hear how it ends.
OpenMessage == [type : {"open"}, panel : Panels, awaited : BOOLEAN]
ClosedMessage == [type : {"closed"}, panel : Panels]

RangeQuery == [view : Views, cancelled : BOOLEAN]

\* dirty: set and not rendered; pending: rendered and its effects not run.
\* A window that is loading has somebody awaiting it, one that is reloading has
\* not; mounted is one whose first effects have not run: it listens to nothing.
WindowState ==
    [status   : {"closed", "loading", "reloading", "blank", "mounted", "open"},
     view     : Views,
     dirty    : BOOLEAN,
     rendered : Views,
     pending  : BOOLEAN,
     last     : Views \cup {Null},       \* lastRemoteView
     queried  : Views \cup {Null},       \* the range of the last query
     queries  : SUBSET RangeQuery,       \* queries without an answer yet
     shown    : Views \cup {Null},       \* the range of the records it shows
     failed   : BOOLEAN]                 \* the last query has failed

TypeOK ==
    /\ win \in [Windows -> WindowState]
    /\ outbox \in [Windows -> Seq(ViewMessage \cup OpenMessage)]
    /\ inbox \in [Windows -> Seq(ViewMessage \cup ClosedMessage)]
    /\ registry \subseteq Panels
    /\ detached \subseteq Panels
    /\ rejected \in [Panels -> Nat]
    /\ moves \in 0 .. MaxMoves
    /\ clicks \in 0 .. MaxDetach
    /\ calm \in BOOLEAN

Blank(status) ==
    [status |-> status, view |-> Default, dirty |-> FALSE, rendered |-> Default,
     pending |-> FALSE, last |-> Null, queried |-> Null, queries |-> {},
     shown |-> Null, failed |-> FALSE]

Init ==
    /\ win = [w \in Windows |-> Blank(IF w = Main THEN "open" ELSE "closed")]
    /\ outbox = [w \in Windows |-> << >>]
    /\ inbox = [w \in Windows |-> << >>]
    /\ registry = {}
    /\ detached = {}
    /\ rejected = [p \in Panels |-> 0]
    /\ moves = 0
    /\ clicks = 0
    /\ calm = TRUE

Mounted(w) == win[w].status \in {"mounted", "open"}

\* Every window has rendered, told and been told all there was.
Quiet == \A w \in Windows : /\ outbox[w] = << >> /\ inbox[w] = << >>
                            /\ ~win[w].dirty /\ ~win[w].pending

bounds == <<moves, clicks>>
panels == <<registry, detached, rejected>>

-----------------------------------------------------------------------------
(* A window's view                                                         *)

Move(w, v) ==
    /\ moves < MaxMoves
    /\ win[w].status = "open"
    /\ w \in Synced \cup {Main}
    /\ win' = [win EXCEPT ![w].view = v, ![w].dirty = TRUE]
    /\ moves' = moves + 1
    /\ calm' = (Quiet /\ v # win[w].last)
    /\ UNCHANGED <<outbox, inbox, panels, clicks>>

\* React runs the effects of one render before the next.
Render(w) ==
    /\ Mounted(w)
    /\ win[w].dirty /\ ~win[w].pending
    /\ win' = [win EXCEPT ![w].dirty = FALSE, ![w].rendered = win[w].view,
                          ![w].pending = TRUE]
    /\ UNCHANGED <<outbox, inbox, panels, bounds, calm>>

\* What a window was told last is not sent on.
IsEcho(w) == win[w].rendered = win[w].last

\* The query effect: a query for another range cancels the one before.
QueryRange(w) ==
    LET s == win[w]
    IN  IF w = Main \/ s.queried = s.rendered
        THEN [s EXCEPT !.pending = FALSE, !.status = "open"]
        ELSE [s EXCEPT !.pending = FALSE, !.status = "open", !.failed = FALSE,
                       !.queried = s.rendered,
                       !.queries = {[q EXCEPT !.cancelled = TRUE] : q \in @}
                                     \cup {[view |-> s.rendered, cancelled |-> FALSE]}]

\* The effects of a render: the window listens from its first on, sends the view
\* it rendered unless that is an echo, and a panel queries the view's range.
RunEffects(w) ==
    /\ win[w].pending
    /\ win' = [win EXCEPT ![w] = QueryRange(w)]
    /\ outbox' = IF IsEcho(w) THEN outbox
                 ELSE [outbox EXCEPT ![w] = Append(@, [type |-> "view",
                                                       view |-> win[w].rendered])]
    /\ UNCHANGED <<inbox, panels, bounds, calm>>

\* Fault: the answer of a cancelled query is shown like any other.
AnswerShown(w, q) ==
    /\ q \in win[w].queries
    /\ win' = [win EXCEPT ![w].queries = @ \ {q}, ![w].shown = q.view]
    /\ UNCHANGED <<outbox, inbox, panels, bounds, calm>>

Answer(w, q) ==
    /\ q \in win[w].queries
    /\ win' = [win EXCEPT ![w].queries = @ \ {q},
                          ![w].shown = IF q.cancelled THEN @ ELSE q.view]
    /\ UNCHANGED <<outbox, inbox, panels, bounds, calm>>

\* A panel goes on showing what it has.
AnswerFails(w, q) ==
    /\ q \in win[w].queries
    /\ win' = [win EXCEPT ![w].queries = @ \ {q}, ![w].failed = @ \/ ~q.cancelled]
    /\ UNCHANGED <<outbox, inbox, panels, bounds, calm>>

-----------------------------------------------------------------------------
(* The relay                                                               *)

\* Fault: a message goes to the detached panels and not to the main window.
RelayToPanels(w) ==
    /\ outbox[w] # << >> /\ Head(outbox[w]).type = "view"
    /\ inbox' = [u \in Windows |-> IF u \in Panels \ {w} /\ Mounted(u)
                                   THEN Append(inbox[u], Head(outbox[w])) ELSE inbox[u]]
    /\ outbox' = [outbox EXCEPT ![w] = Tail(@)]
    /\ UNCHANGED <<win, panels, bounds, calm>>

\* sync-broadcast: to every other window; what is sent to a page that has not
\* loaded is lost.
Relay(w) ==
    /\ outbox[w] # << >> /\ Head(outbox[w]).type = "view"
    /\ inbox' = [u \in Windows |-> IF u # w /\ Mounted(u)
                                   THEN Append(inbox[u], Head(outbox[w])) ELSE inbox[u]]
    /\ outbox' = [outbox EXCEPT ![w] = Tail(@)]
    /\ UNCHANGED <<win, panels, bounds, calm>>

\* Fault: a window that is told a view does not remember that it was told.
ReceiveAsOwn(w) ==
    LET message == Head(inbox[w])
    IN  /\ inbox[w] # << >> /\ message.type = "view"
        /\ win' = IF win[w].status = "open" /\ w \in Synced \cup {Main}
                  THEN [win EXCEPT ![w].view = message.view, ![w].dirty = TRUE]
                  ELSE win
        /\ inbox' = [inbox EXCEPT ![w] = Tail(@)]
        /\ UNCHANGED <<outbox, panels, bounds, calm>>

\* Fault: the view is set from the remembered one, which is updated after.
ReceiveFormer(w) ==
    LET message == Head(inbox[w])
    IN  /\ inbox[w] # << >> /\ message.type = "view"
        /\ win' = IF win[w].status = "open" /\ w \in Synced \cup {Main}
                  THEN [win EXCEPT ![w].last = message.view, ![w].view = win[w].last,
                                   ![w].dirty = TRUE]
                  ELSE win
        /\ inbox' = [inbox EXCEPT ![w] = Tail(@)]
        /\ UNCHANGED <<outbox, panels, bounds, calm>>

\* A window that listens takes over the view it is told.
ReceiveView(w) ==
    LET message == Head(inbox[w])
    IN  /\ inbox[w] # << >> /\ message.type = "view"
        /\ win' = IF win[w].status = "open" /\ w \in Synced \cup {Main}
                  THEN [win EXCEPT ![w].last = message.view, ![w].view = message.view,
                                   ![w].dirty = TRUE]
                  ELSE win
        /\ inbox' = [inbox EXCEPT ![w] = Tail(@)]
        /\ UNCHANGED <<outbox, panels, bounds, calm>>

-----------------------------------------------------------------------------
(* Detaching                                                               *)

\* The buttons of chart and log stay in the main window while the panel is
\* detached; the sidebar's goes with it.  The view passed to the new window ends
\* in its URL, where nothing reads it.
HandleDetach(p) ==
    /\ clicks < MaxDetach
    /\ win[Main].status = "open"
    /\ p \in Synced \/ p \notin detached
    /\ clicks' = clicks + 1
    /\ detached' = detached \cup {p}
    /\ outbox' = [outbox EXCEPT ![Main] = Append(@, [type |-> "open", panel |-> p,
                                                    awaited |-> TRUE])]
    /\ UNCHANGED <<win, inbox, registry, rejected, moves, calm>>

\* One window per kind: the existing one is shown again, whatever its state.
OpenDetachedPanel ==
    LET p      == Head(outbox[Main]).panel
        status == IF Head(outbox[Main]).awaited THEN "loading" ELSE "reloading"
    IN  /\ outbox[Main] # << >> /\ Head(outbox[Main]).type = "open"
        /\ outbox' = [outbox EXCEPT ![Main] = Tail(@)]
        /\ registry' = registry \cup {p}
        /\ win' = IF p \in registry THEN win ELSE [win EXCEPT ![p] = Blank(status)]
        /\ UNCHANGED <<inbox, detached, rejected, bounds, calm>>

\* The page is loaded and rendered once, with the default view.
LoadFile(w) ==
    /\ win[w].status \in {"loading", "reloading"}
    /\ win' = [win EXCEPT ![w] = IF w \in Synced \cup {Main}
                 THEN [Blank("mounted") EXCEPT !.pending = TRUE] ELSE Blank("open")]
    /\ calm' = IF w \in Synced \cup {Main} THEN Quiet ELSE calm
    /\ UNCHANGED <<outbox, inbox, panels, bounds>>

\* loadFile rejects: the window stays, and stays registered.
LoadFileFails(p) ==
    /\ win[p].status \in {"loading", "reloading"}
    /\ win' = [win EXCEPT ![p].status = "blank"]
    /\ rejected' = IF win[p].status = "loading" THEN [rejected EXCEPT ![p] = @ + 1]
                                                ELSE rejected
    /\ UNCHANGED <<outbox, inbox, registry, detached, bounds, calm>>

\* Word to the main window, lost while its page is not there.
WithClosed(queue, p) ==
    IF Mounted(Main) THEN Append(queue, [type |-> "closed", panel |-> p]) ELSE queue

\* Fault: only a window that had loaded is reported to the main window.
ClosedWhenOpen(p) ==
    /\ p \in registry
    /\ registry' = registry \ {p}
    /\ inbox' = [inbox EXCEPT ![p] = << >>,
         ![Main] = IF win[p].status = "open"
                   THEN WithClosed(@, p) ELSE @]
    /\ outbox' = [outbox EXCEPT ![p] = << >>]
    /\ win' = [win EXCEPT ![p] = Blank("closed")]
    /\ calm' = (calm /\ Quiet)
    /\ UNCHANGED <<detached, rejected, bounds>>

\* A panel's window closes, by any means; while it loads, the load rejects.
Closed(p) ==
    /\ p \in registry
    /\ registry' = registry \ {p}
    /\ inbox' = [inbox EXCEPT ![p] = << >>, ![Main] = WithClosed(@, p)]
    /\ outbox' = [outbox EXCEPT ![p] = << >>]
    /\ win' = [win EXCEPT ![p] = Blank("closed")]
    /\ rejected' = IF win[p].status = "loading" THEN [rejected EXCEPT ![p] = @ + 1]
                                                ELSE rejected
    /\ calm' = (calm /\ Quiet)
    /\ UNCHANGED <<detached, bounds>>

DetachedPanelClosed ==
    LET message == Head(inbox[Main])
    IN  /\ inbox[Main] # << >> /\ message.type = "closed"
        /\ detached' = detached \ {message.panel}
        /\ inbox' = [inbox EXCEPT ![Main] = Tail(@)]
        /\ UNCHANGED <<win, outbox, registry, rejected, bounds, calm>>

DetachRejected(p) ==
    /\ rejected[p] > 0
    /\ rejected' = [rejected EXCEPT ![p] = @ - 1]
    /\ detached' = detached \ {p}
    /\ UNCHANGED <<win, outbox, inbox, registry, bounds, calm>>

-----------------------------------------------------------------------------
\* The menu's Reload, in a window that is shown.  The page and all its state go:
\* the main window forgets which panels are detached and what it awaits, while
\* their windows stay.
Reload(w) ==
    /\ moves < MaxMoves
    /\ win[w].status \in {"blank", "mounted", "open"}
    /\ moves' = moves + 1
    /\ inbox' = [inbox EXCEPT ![w] = << >>]
    /\ calm' = (calm /\ Quiet)
    /\ IF w # Main
       THEN /\ win' = [win EXCEPT ![w] = Blank("reloading")]
            /\ UNCHANGED <<outbox, detached, rejected>>
       ELSE /\ win' = [u \in Windows |->
                 IF u = Main THEN Blank("reloading")
                 ELSE IF win[u].status = "loading" THEN [win[u] EXCEPT !.status = "reloading"]
                 ELSE win[u]]
            /\ outbox' = [outbox EXCEPT ![Main] = [i \in DOMAIN @ |->
                 IF @[i].type = "open" THEN [@[i] EXCEPT !.awaited = FALSE] ELSE @[i]]]
            /\ detached' = {}
            /\ rejected' = [p \in Panels |-> 0]
    /\ UNCHANGED <<registry, clicks>>

-----------------------------------------------------------------------------
WindowStep(w) == Render(w) \/ RunEffects(w) \/ Relay(w) \/ ReceiveView(w)

Answers(w) == \E q \in RangeQuery : Answer(w, q) \/ AnswerFails(w, q)

PanelStep(p) == LoadFileFails(p) \/ DetachRejected(p)

Next ==
    \/ \E w \in Windows : \/ \E v \in Views : Move(w, v)
                          \/ WindowStep(w)
                          \/ Answers(w)
                          \/ LoadFile(w)
                          \/ Reload(w)
    \/ \E p \in Panels : HandleDetach(p) \/ Closed(p) \/ PanelStep(p)
    \/ OpenDetachedPanel
    \/ DetachedPanelClosed

Spec == Init /\ [][Next]_vars

\* Every process runs what it has to do; loads and queries end, one way or the
\* other.  Nobody is made to move, to detach, to reload or to close.
FairSpec ==
    /\ Spec
    /\ \A w \in Windows : WF_vars(WindowStep(w)) /\ WF_vars(Answers(w))
    /\ WF_vars(LoadFile(Main))
    /\ \A p \in Panels : WF_vars(LoadFile(p) \/ LoadFileFails(p)) /\ WF_vars(DetachRejected(p))
    /\ WF_vars(OpenDetachedPanel)
    /\ WF_vars(DetachedPanelClosed)

-----------------------------------------------------------------------------
(* Properties                                                              *)

\* A panel the main window leaves out is shown by a window of its own, or the
\* word that brings it back is on its way: however clicks, loads, failures and
\* closings overlap, no panel is lost (cor: "always reappears when its detached
\* window closes, by any means").
HiddenPanelHasWindow ==
    \A p \in detached :
        \/ p \in registry
        \/ rejected[p] > 0
        \/ \E m \in {outbox[Main][i] : i \in DOMAIN outbox[Main]} :
              m.type = "open" /\ m.panel = p
        \/ \E m \in {inbox[Main][i] : i \in DOMAIN inbox[Main]} :
              m.type = "closed" /\ m.panel = p

\* A panel that waits for no answer shows the records of the last range it
\* asked for, in whatever order the answers came, unless that query failed.
PanelShowsLastQuery ==
    \A w \in Panels :
        \/ win[w].shown = win[w].queried
        \/ win[w].failed
        \/ \E q \in win[w].queries : ~q.cancelled

InStep == \A u, w \in Synced \cup {Main} :
    win[u].status = "open" /\ win[w].status = "open" => win[u].view = win[w].view

\* If the last move or mount came when all was quiet, and did not return to the
\* view its window had been told last, then all windows have that view once they
\* are quiet again, also if they had been out of step before.
InStepWhenCalm == Quiet /\ calm => InStep

\* What the header of useSyncedView says, without those conditions.
InStepWhenQuiet == Quiet => InStep

\* If from some time on the windows have moved one at a time, they stop telling
\* each other: a view received is not sent back and forth (the comparison with
\* the last remote value).  Without that condition it is false: a message
\* received between a render and its effects makes the window send on the older
\* view it rendered, and two windows can do so to each other for ever.
EchoesDie == <>[]calm => <>[]Quiet

=============================================================================
