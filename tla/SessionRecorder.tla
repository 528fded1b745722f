--------------------------- MODULE SessionRecorder ---------------------------
(***************************************************************************)
(* What recording sessions promise, as if every pause, stop and recovery   *)
(* happened at once: a session is a list of stretches of time, each cut    *)
(* off once and kept or not, and perhaps one that is still open.           *)
(***************************************************************************)
EXTENDS Naturals, Sequences

CONSTANTS
    Sumps,
    SessionIds,
    Null        \* no sump, no open stretch

VARIABLES
    recorders,  \* for each id, the session it names
    clock       \* the wall clock

NoSession == [sump |-> Null, stage |-> "none", open |-> Null, stretches |-> << >>]

Init ==
    /\ recorders = [s \in SessionIds |-> NoSession]
    /\ clock = 0

Live(sump) == {s \in SessionIds : /\ recorders[s].sump = sump
                                  /\ recorders[s].stage \in {"recording", "paused"}}

Start(s, sump) ==
    /\ recorders[s] = NoSession
    /\ Live(sump) = {}
    /\ recorders' = [recorders EXCEPT ![s] =
         [sump |-> sump, stage |-> "recording", open |-> clock, stretches |-> << >>]]
    /\ UNCHANGED clock

\* The open stretch ends, at an instant that is not to come, behind all others.
Cut(s, stage) ==
    /\ recorders[s].stage = "recording"
    /\ \E to \in recorders[s].open .. clock, kept \in BOOLEAN :
         recorders' = [recorders EXCEPT
           ![s].stage     = stage,
           ![s].open      = Null,
           ![s].stretches = Append(@, [from |-> recorders[s].open, to |-> to,
                                       kept |-> kept])]
    /\ UNCHANGED clock

Pause(s) == Cut(s, "paused")

Stop(s) ==
    \/ Cut(s, "stopped")
    \/ /\ recorders[s].stage = "paused"
       /\ recorders' = [recorders EXCEPT ![s].stage = "stopped"]
       /\ UNCHANGED clock

Resume(s) ==
    /\ recorders[s].stage = "paused"
    /\ recorders' = [recorders EXCEPT ![s].stage = "recording", ![s].open = clock]
    /\ UNCHANGED clock

Tick == clock' = clock + 1 /\ UNCHANGED recorders

Next ==
    \/ \E s \in SessionIds : \/ \E sump \in Sumps : Start(s, sump)
                             \/ Pause(s) \/ Stop(s) \/ Resume(s)
    \/ Tick

Spec == Init /\ [][Next]_<<recorders, clock>>
=============================================================================
