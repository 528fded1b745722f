---------------------------- MODULE CorrelatePage ----------------------------
(***************************************************************************)
(* The Correlate page: what it shows of a sump's records, recording session, *)
(* notices and event rules, and the calls it makes to the main process.    *)
(*                                                                         *)
(* Calls reach the main process in the order they were made.  A handler    *)
(* that awaits nothing answers before the next one starts; one that awaits *)
(* the sump (a query, an export) answers when it is done.  The page is one *)
(* component that stays while another sump is selected: its state stays    *)
(* too, and so do the calls on their way, each with the sump of the render *)
(* it was made by.                                                         *)
(***************************************************************************)
EXTENDS Naturals, Sequences, FiniteSets, SequencesExt

CONSTANTS
    Sumps,        \* sumps that can be correlated
    MaxSessions,  \* bound: recording sessions, numbered in the order of creation
    MaxRules,     \* bound: event rules, numbered likewise
    MaxActs,      \* bound: what the user does
    Null          \* nothing selected, shown or copied

SessionIds == 1 .. MaxSessions
RuleIds == 1 .. MaxRules

Row == [sump : Sumps, status : {"recording", "paused", "stopped"}, notice : BOOLEAN]

\* What the form of a new rule offers.
EventAction == {"start_recording", "stop_recording", "notify"}

Rule == [sump : Sumps, action : EventAction, state : {"enabled", "disabled", "deleted"}]

\* A call: the sump of the render that made it, its argument, and whether that
\* page is still there to hear the answer.
Call == [op : {"query", "evaluate", "session", "interrupted", "rules", "create", "enable",
               "disable", "delete", "start", "pause", "resume", "stop", "dismiss"},
         sump : Sumps, arg : SessionIds \cup RuleIds \cup {Null}, live : BOOLEAN]

\* A handler that awaits: the copy of the row it closes, and for an evaluation
\* the rules it has yet to obey and whether one was triggered.
Job == [call : Call, id : SessionIds \cup {Null}, row : Row \cup {Null},
        todo : SUBSET RuleIds, fired : BOOLEAN]

Summary == [id : SessionIds, sump : Sumps, status : {"recording", "paused", "stopped"}]

Page == [sump : Sumps, phase : {"loading", "ready", "error"}, records : Sumps \cup {Null},
         session : Summary \cup {Null}, notices : SUBSET SessionIds,
         rules : SUBSET (RuleIds \X {"enabled", "disabled"}), alerts : Sumps \cup {Null}]

ASSUME PageAssumption ==
    /\ MaxSessions \in Nat \ {0} /\ MaxRules \in Nat /\ MaxActs \in Nat
    /\ Null \notin Nat \cup Sumps \cup Row \cup Summary \cup Page

VARIABLES
    page,      \* what the page shows, Null when another view is open
    requests,  \* calls the main process has not read yet
    working,   \* handlers that await
    replies,   \* answers the page has not read yet
    sessions,  \* table recording_sessions, in the order of creation
    rules,     \* table event_rules
    acts,      \* what the user has done so far
    calm,      \* history: nothing was on its way when the sump was selected, and no
               \* session that another sump has left on the page was acted on
    ruled      \* history: since then a rule has started or stopped a session

catalog == <<sessions, rules>>
history == <<acts, calm, ruled>>
vars == <<page, requests, working, replies, sessions, rules, acts, calm, ruled>>

TypeOK ==
    /\ page \in Page \cup {Null}
    /\ requests \in Seq(Call)
    /\ working \in Seq(Job)
    /\ \A i \in DOMAIN replies : replies[i].call \in Call
    /\ sessions \in Seq(Row) /\ Len(sessions) <= MaxSessions
    /\ rules \in Seq(Rule) /\ Len(rules) <= MaxRules
    /\ acts \in 0 .. MaxActs
    /\ calm \in BOOLEAN /\ ruled \in BOOLEAN

\* The main process is up.  A crash before it may have left a session paused with
\* a notice, an earlier page a session recording.
Init ==
    /\ page = Null
    /\ requests = << >> /\ working = << >> /\ replies = << >>
    /\ \/ sessions = << >>
       \/ \E sump \in Sumps, row \in {<<"paused", TRUE>>, <<"recording", FALSE>>} :
            sessions = <<[sump |-> sump, status |-> row[1], notice |-> row[2]]>>
    /\ rules = << >>
    /\ acts = 0
    /\ calm = TRUE
    /\ ruled = FALSE

-----------------------------------------------------------------------------
(* The catalog.                                                            *)

Active(sump) == {s \in DOMAIN sessions : /\ sessions[s].sump = sump
                                         /\ sessions[s].status \in {"recording", "paused"}}

ActiveSession(sump) == IF Active(sump) = {} THEN Null ELSE Max(Active(sump))

SummaryOf(rows, s) ==
    IF s = Null THEN Null
    ELSE [id |-> s, sump |-> rows[s].sump, status |-> rows[s].status]

RulesOf(sump) == {r \in DOMAIN rules : rules[r].sump = sump /\ rules[r].state # "deleted"}

\* Fault: a deleted rule is listed.
ListedWithDeleted(sump) ==
    {<<r, rules[r].state>> : r \in {r \in DOMAIN rules : rules[r].sump = sump}}

ListEventRulesForSump(sump) == {<<r, rules[r].state>> : r \in RulesOf(sump)}

-----------------------------------------------------------------------------
(* The page.                                                               *)

Acts == acts < MaxActs /\ acts' = acts + 1

Still == requests = << >> /\ working = << >> /\ replies = << >>

\* Fault: the session is not loaded with the rest.
EffectWithoutSession(sump) ==
    /\ requests' = requests \o
         [i \in 1 .. 2 |-> [op |-> <<"query", "rules">>[i], sump |-> sump,
                            arg |-> Null, live |-> TRUE]]
    /\ calm' = Still
    /\ ruled' = FALSE

\* The effect of a first render, and of one with another sump: load, loadSession
\* and loadEventRules, each up to its first await.
Effect(sump) ==
    /\ requests' = requests \o
         [i \in 1 .. 3 |-> [op |-> <<"query", "session", "rules">>[i], sump |-> sump,
                            arg |-> Null, live |-> TRUE]]
    /\ calm' = Still
    /\ ruled' = FALSE

OpenPage(sump) ==
    /\ page = Null
    /\ Acts
    /\ page' = [sump |-> sump, phase |-> "loading", records |-> Null, session |-> Null,
                notices |-> {}, rules |-> {}, alerts |-> Null]
    /\ Effect(sump)
    /\ UNCHANGED <<working, replies, catalog>>

\* Another sump becomes the active one; nothing the page has is reset.
SelectSump(sump) ==
    /\ page # Null
    /\ sump # page.sump
    /\ Acts
    /\ page' = [page EXCEPT !.sump = sump, !.phase = "loading"]
    /\ Effect(sump)
    /\ UNCHANGED <<working, replies, catalog>>

\* Another view is shown: what is on its way finds no page to change.
LeavePage ==
    /\ page # Null
    /\ Acts
    /\ page' = Null
    /\ requests' = [i \in DOMAIN requests |-> [requests[i] EXCEPT !.live = FALSE]]
    /\ working' = [i \in DOMAIN working |-> [working[i] EXCEPT !.call.live = FALSE]]
    /\ replies' = [i \in DOMAIN replies |-> [replies[i] EXCEPT !.call.live = FALSE]]
    /\ UNCHANGED <<catalog, calm, ruled>>

\* A button and what its handler asks for.
Asked(op, arg) ==
    /\ Acts
    /\ requests' = Append(requests, [op |-> op, sump |-> page.sump, arg |-> arg, live |-> TRUE])
    /\ UNCHANGED <<working, replies, catalog, ruled>>

Clicked(op, arg) == Asked(op, arg) /\ UNCHANGED calm

\* A button that acts on the session shown, which may be that of the sump
\* selected before until the new one's is answered.
ClickedSession(op) ==
    /\ Asked(op, page.session.id)
    /\ calm' = (calm /\ page.session.sump = page.sump)
    /\ UNCHANGED page

Refresh ==
    /\ page # Null
    /\ page' = [page EXCEPT !.phase = "loading"]
    /\ Clicked("query", Null)

HandleStartSession ==
    /\ page # Null
    /\ page.session # Null => page.session.status = "stopped"
    /\ Clicked("start", Null)
    /\ UNCHANGED page

HandlePauseSession ==
    /\ page # Null /\ page.session # Null
    /\ page.session.status = "recording"
    /\ ClickedSession("pause")

HandleResumeSession ==
    /\ page # Null /\ page.session # Null
    /\ page.session.status = "paused"
    /\ ClickedSession("resume")

HandleStopSession ==
    /\ page # Null /\ page.session # Null
    /\ page.session.status # "stopped"
    /\ ClickedSession("stop")

HandleDismissInterrupted ==
    /\ page # Null
    /\ \E s \in page.notices : Clicked("dismiss", s)
    /\ UNCHANGED page

HandleCreateRule ==
    /\ page # Null
    /\ Clicked("create", Null)
    /\ UNCHANGED page

HandleToggleRule ==
    /\ page # Null
    /\ \E rule \in page.rules :
         Clicked(IF rule[2] = "enabled" THEN "disable" ELSE "enable", rule[1])
    /\ UNCHANGED page

HandleDeleteRule ==
    /\ page # Null
    /\ \E rule \in page.rules : Clicked("delete", rule[1])
    /\ UNCHANGED page

UserActs ==
    \/ \E sump \in Sumps : OpenPage(sump) \/ SelectSump(sump)
    \/ LeavePage \/ Refresh
    \/ HandleStartSession \/ HandlePauseSession \/ HandleResumeSession \/ HandleStopSession
    \/ HandleDismissInterrupted
    \/ HandleCreateRule \/ HandleToggleRule \/ HandleDeleteRule

\* What an answer changes on the page.
Shown(call, value) ==
    CASE call.op = "query" /\ value = "failed" -> [page EXCEPT !.phase = "error"]
      [] call.op = "query" /\ value # "failed" ->
           [page EXCEPT !.phase = "ready", !.records = call.sump]
      [] call.op = "evaluate" -> [page EXCEPT !.alerts = IF value THEN call.sump ELSE Null]
      [] call.op \in {"session", "start", "pause", "resume", "stop"} ->
           [page EXCEPT !.session = value]
      [] call.op = "interrupted" ->
           [page EXCEPT !.notices = {s \in value : sessions[s].sump = call.sump}]
      [] call.op = "rules" -> [page EXCEPT !.rules = value]
      [] call.op = "dismiss" -> [page EXCEPT !.notices = @ \ {call.arg}]
      [] OTHER -> page

\* Fault: a deleted rule is not followed by a new list.
FollowsButDelete(call, value) ==
    CASE call.op = "query" /\ value = "some" -> <<[call EXCEPT !.op = "evaluate"]>>
      [] call.op = "session" -> <<[call EXCEPT !.op = "interrupted"]>>
      [] call.op \in {"create", "enable", "disable"} ->
           <<[call EXCEPT !.op = "rules", !.arg = Null]>>
      [] OTHER -> << >>

\* What the handler asks for next, whether or not its page is still there.
Follows(call, value) ==
    CASE call.op = "query" /\ value = "some" -> <<[call EXCEPT !.op = "evaluate"]>>
      [] call.op = "session" -> <<[call EXCEPT !.op = "interrupted"]>>
      [] call.op \in {"create", "enable", "disable", "delete"} ->
           <<[call EXCEPT !.op = "rules", !.arg = Null]>>
      [] OTHER -> << >>

Receive ==
    /\ replies # << >>
    /\ LET call  == Head(replies).call
           value == Head(replies).value
       IN  /\ page' = IF call.live THEN Shown(call, value) ELSE page
           /\ requests' = requests \o Follows(call, value)
    /\ replies' = Tail(replies)
    /\ UNCHANGED <<working, catalog, history>>

-----------------------------------------------------------------------------
(* The main process.                                                       *)

\* A handler that awaits nothing: it reads its call and answers.
Reads(ops) == requests # << >> /\ Head(requests).op \in ops

Answers(value) ==
    /\ requests' = Tail(requests)
    /\ replies' = Append(replies, [call |-> Head(requests), value |-> value])
    /\ UNCHANGED <<page, working, history>>

Awaits(job) ==
    /\ requests' = Tail(requests)
    /\ working' = Append(working, job)
    /\ UNCHANGED <<page, replies, catalog, history>>

JobOf(call) == [call |-> call, id |-> Null, row |-> Null, todo |-> {}, fired |-> FALSE]

QueryRecords == Reads({"query"}) /\ Awaits(JobOf(Head(requests)))

GetRecordingSession ==
    /\ Reads({"session"})
    /\ Answers(SummaryOf(sessions, ActiveSession(Head(requests).sump)))
    /\ UNCHANGED catalog

GetInterruptedSessions ==
    /\ Reads({"interrupted"})
    /\ Answers({s \in DOMAIN sessions : sessions[s].notice})
    /\ UNCHANGED catalog

DismissInterruptedSession ==
    /\ Reads({"dismiss"})
    /\ sessions' = [sessions EXCEPT ![Head(requests).arg].notice = FALSE]
    /\ Answers(Null)
    /\ UNCHANGED rules

ListEventRules ==
    /\ Reads({"rules"})
    /\ Answers(ListEventRulesForSump(Head(requests).sump))
    /\ UNCHANGED catalog

UpsertEventRule(rule) == rules' = Append(rules, rule)

\* With the action the form was filled in with.
CreateEventRule ==
    /\ Reads({"create"})
    /\ Len(rules) < MaxRules
    /\ \E action \in EventAction :
         UpsertEventRule([sump |-> Head(requests).sump, action |-> action, state |-> "enabled"])
    /\ Answers(Null)
    /\ UNCHANGED sessions

\* Neither finds a rule that is deleted.
ChangeEventRule ==
    /\ Reads({"enable", "disable", "delete"})
    /\ LET call == Head(requests)
           to   == CASE call.op = "enable"  -> "enabled"
                     [] call.op = "disable" -> "disabled"
                     [] call.op = "delete"  -> "deleted"
       IN  rules' = [rules EXCEPT ![call.arg].state = IF @ = "deleted" THEN @ ELSE to]
    /\ Answers(Null)
    /\ UNCHANGED sessions

\* The active session of the sump, or a new one.
Begun(sump) ==
    IF Active(sump) # {} THEN sessions
    ELSE Append(sessions, [sump |-> sump, status |-> "recording", notice |-> FALSE])

StartRecordingSession ==
    /\ Reads({"start"})
    /\ LET sump == Head(requests).sump
       IN  /\ Active(sump) = {} => Len(sessions) < MaxSessions
           /\ sessions' = Begun(sump)
           /\ Answers(SummaryOf(sessions', IF Active(sump) = {} THEN Len(sessions)'
                                           ELSE ActiveSession(sump)))
    /\ UNCHANGED rules

ResumeRecordingSession ==
    /\ Reads({"resume"})
    /\ LET s == Head(requests).arg
       IN  /\ sessions' = [sessions EXCEPT ![s].status = IF @ = "paused" THEN "recording" ELSE @]
           /\ Answers(SummaryOf(sessions', s))
    /\ UNCHANGED rules

\* A pause of what is not recording, a stop of what is stopped and a stop of
\* what is paused export nothing.
CloseRecordingSession ==
    /\ Reads({"pause", "stop"})
    /\ LET call == Head(requests)
           s    == call.arg
       IN  IF sessions[s].status = "recording"
           THEN Awaits([JobOf(call) EXCEPT !.id = s, !.row = sessions[s]])
           ELSE /\ sessions' = [sessions EXCEPT ![s].status =
                                  IF call.op = "stop" THEN "stopped" ELSE @]
                /\ Answers(SummaryOf(sessions', s))
                /\ UNCHANGED rules

\* The rules of the sump that are enabled and that some sample matches.
EvaluateEventRules ==
    /\ Reads({"evaluate"})
    /\ \E fired \in SUBSET {r \in RulesOf(Head(requests).sump) : rules[r].state = "enabled"} :
         Awaits([JobOf(Head(requests)) EXCEPT !.todo = fired, !.fired = fired # {}])

Done(i, value) ==
    /\ working' = RemoveAt(working, i)
    /\ replies' = Append(replies, [call |-> working[i].call, value |-> value])

\* The sump has answered, with records or with none, or it has not.
SettleQuery(i) ==
    /\ working[i].call.op = "query"
    /\ \E value \in {"some", "none", "failed"} : Done(i, value)
    /\ UNCHANGED <<page, requests, catalog, history>>

\* The copy the handler took before its export is written back.
ClosedRow(job) ==
    [job.row EXCEPT !.status = IF job.call.op = "pause" THEN "paused" ELSE "stopped"]

SettleClose(i) ==
    /\ working[i].call.op \in {"pause", "stop"}
    /\ sessions' = [sessions EXCEPT ![working[i].id] = ClosedRow(working[i])]
    /\ Done(i, SummaryOf(sessions', working[i].id))
    /\ UNCHANGED <<page, requests, rules, history>>

\* One step of an evaluation: a stop it awaits settles, the next rule is obeyed,
\* newest first, or none is left.
EvaluationGoesOn(i) ==
    LET job  == working[i]
        rule == rules[Max(job.todo)]
        s    == ActiveSession(job.call.sump)
        rest == [working EXCEPT ![i].todo = @ \ {Max(@)}]
    IN  /\ job.call.op = "evaluate"
        /\ \/ /\ job.row # Null
              /\ sessions' = [sessions EXCEPT ![job.id] = ClosedRow(job)]
              /\ working' = [working EXCEPT ![i].id = Null, ![i].row = Null]
              /\ ruled' = TRUE
              /\ UNCHANGED replies
           \/ /\ job.row = Null /\ job.todo # {}
              /\ rule.action = "start_recording"
              /\ s = Null => Len(sessions) < MaxSessions
              /\ sessions' = Begun(job.call.sump)
              /\ ruled' = (ruled \/ s = Null)
              /\ working' = rest
              /\ UNCHANGED replies
           \/ /\ job.row = Null /\ job.todo # {}
              /\ rule.action = "stop_recording" /\ s # Null
              /\ IF sessions[s].status = "recording"
                 THEN /\ working' = [rest EXCEPT ![i].id = s, ![i].row = sessions[s]]
                      /\ UNCHANGED <<sessions, ruled>>
                 ELSE /\ working' = rest
                      /\ sessions' = [sessions EXCEPT ![s].status = "stopped"]
                      /\ ruled' = TRUE
              /\ UNCHANGED replies
           \/ /\ job.row = Null /\ job.todo # {}
              /\ rule.action = "notify" \/ (rule.action = "stop_recording" /\ s = Null)
              /\ working' = rest
              /\ UNCHANGED <<sessions, replies, ruled>>
           \/ /\ job.row = Null /\ job.todo = {}
              /\ Done(i, job.fired)
              /\ UNCHANGED <<sessions, ruled>>
        /\ UNCHANGED <<page, requests, rules, acts, calm>>

MainReads ==
    \/ QueryRecords \/ GetRecordingSession \/ GetInterruptedSessions
    \/ DismissInterruptedSession \/ ListEventRules \/ CreateEventRule \/ ChangeEventRule
    \/ StartRecordingSession \/ ResumeRecordingSession \/ CloseRecordingSession
    \/ EvaluateEventRules

MainSettles(i) == SettleQuery(i) \/ SettleClose(i) \/ EvaluationGoesOn(i)

Next ==
    \/ UserActs
    \/ Receive
    \/ MainReads
    \/ \E i \in DOMAIN working : MainSettles(i)

Spec == Init /\ [][Next]_vars

-----------------------------------------------------------------------------
(* Properties                                                              *)

AtRest == page # Null /\ Still /\ calm

\* When all calls are answered and the sump was selected while none was on its
\* way, the page shows this sump: its records unless the query failed, its
\* rules as they are stored, and notices that are up, of its own sessions.
RestShowsSelected ==
    AtRest =>
        /\ page.phase # "loading"
        /\ page.phase = "ready" => page.records = page.sump
        /\ page.rules = ListEventRulesForSump(page.sump)
        /\ \A s \in page.notices : sessions[s].sump = page.sump /\ sessions[s].notice

\* And the session it shows, which its buttons act on, is one of this sump with
\* the status it has, or there is none: whichever of a pause, a stop and a
\* start was answered last, unless a rule has moved a session since.
RestShowsSession ==
    AtRest /\ ~ruled =>
        IF page.session = Null THEN Active(page.sump) = {}
        ELSE /\ page.session.sump = page.sump
             /\ page.session.status = sessions[page.session.id].status
=============================================================================
