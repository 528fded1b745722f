---------------------------- MODULE SumpLifecycle ----------------------------
(***************************************************************************)
(* The sumps the Electron application knows: the rows of the catalog's     *)
(* sumps table, the choice of the primary one, and the IPC handlers that   *)
(* install, connect, promote, discover, edit, select and uninstall them.   *)
(*                                                                         *)
(* The handlers share one event loop and interleave at their awaits: docker*)
(* and ssh commands, health checks, and the discovery request of           *)
(* list-sumps.  What a handler keeps across an await is in calls[c]; what  *)
(* it does between two awaits is one action.                               *)
(*                                                                         *)
(* Host and port of a row are copied and edited together with its token,   *)
(* so the token stands for the three.  Names and last-seen times are left  *)
(* out: nothing is decided on them.                                        *)
(***************************************************************************)
EXTENDS Naturals

CONSTANTS
    Local,       \* the fixed id of the sump installed on this machine
    FreshIds,    \* ids a remote, external or promoted sump may take (randomUUID)
    Hosts,       \* docker hosts a sump may report
    Tokens,      \* auth tokens
    Calls,       \* handler invocations that can be awaiting at a time
    Null,        \* SQL NULL, a missing row, no server, no call
    TypedTokens, \* tokens a user may type into the edit dialog
    Overlap,     \* whether a handler may start while another one awaits
    TornWrites   \* whether a crash may come between two writes of a handler

RootIds == {Local} \cup FreshIds

\* The id of a host's row is `${root.id}:${dockerHost}`.
LogicalIds == RootIds \X Hosts

SumpIds == RootIds \cup LogicalIds

Token == Tokens \cup {Null}

SumpState == {"provisioning", "active", "unreachable", "retired"}

\* A promoted sump is an "ssh" row without a recorded SSH target.
ConnectionType == {"local", "ssh", "promoted", "external", "logical"}

Row == [type : ConnectionType, status : SumpState, token : Token,
        parent : RootIds \cup {Null}]

Provisioning == [kind : {"detect", "pull", "health", "uninstall"}, id : RootIds, token : Token]

Listing == [kind : {"list"}, roots : SUBSET (RootIds \X Token)]

ASSUME ConstantsAssumption ==
    /\ Local \notin FreshIds
    /\ RootIds \cap LogicalIds = {}
    /\ Null \notin SumpIds \cup Tokens \cup Row \cup Provisioning \cup Listing
    /\ TypedTokens \subseteq Tokens
    /\ Overlap \in BOOLEAN
    /\ TornWrites \in BOOLEAN

VARIABLES
    sumps,     \* table sumps: a row or Null for each id
    primary,   \* app_settings: the id of the primary sump, or Null
    server,    \* the container that runs for a root: its token, or Null
    calls,     \* handler invocations awaiting
    app        \* the main process: "up" or "down"

vars == <<sumps, primary, server, calls, app>>

TypeOK ==
    /\ sumps \in [SumpIds -> Row \cup {Null}]
    /\ primary \in SumpIds \cup {Null}
    /\ server \in [RootIds -> Token]
    /\ calls \in [Calls -> Provisioning \cup Listing \cup {Null}]
    /\ app \in {"up", "down"}

Init ==
    /\ sumps = [s \in SumpIds |-> Null]
    /\ primary = Null
    /\ server = [r \in RootIds |-> Null]
    /\ calls = [c \in Calls |-> Null]
    /\ app = "up"

-----------------------------------------------------------------------------
(***************************************************************************)
(* The catalog.                                                            *)
(***************************************************************************)

Known(s) == sumps[s] # Null

Live == {s \in SumpIds : Known(s) /\ sumps[s].status # "retired"}

HasLiveSump == Live # {}

UpsertSump(s, row) == sumps' = [sumps EXCEPT ![s] = row]

SetSumpStatus(s, status) ==
    sumps' = [sumps EXCEPT ![s] = IF Known(s) THEN [@ EXCEPT !.status = status] ELSE @]

RootRow(type, status, token) ==
    [type |-> type, status |-> status, token |-> token, parent |-> Null]

LogicalRow(root, token) ==
    [type |-> "logical", status |-> "active", token |-> token, parent |-> root]

\* Fault: a discovered host is recorded as its own parent.
SyncOwnParent(root, token, hosts) ==
    sumps' = [s \in SumpIds |->
                IF ~Known(s) /\ s \in {root} \X hosts THEN LogicalRow(s, token) ELSE sumps[s]]

\* INSERT ... ON CONFLICT DO NOTHING: a row that exists is left as it is.
SyncLogicalSumps(root, token, hosts) ==
    sumps' = [s \in SumpIds |->
                IF ~Known(s) /\ s \in {root} \X hosts THEN LogicalRow(root, token) ELSE sumps[s]]

\* Fault: the children of an uninstalled sump are forgotten.
RetireWithoutChildren(s, n) ==
    /\ sumps' = [sumps EXCEPT ![s] = [@ EXCEPT
            !.token = IF n >= 1 /\ sumps[s].type # "logical" THEN Null ELSE @,
            !.status = IF n >= 2 THEN "retired" ELSE @]]
    /\ primary' = IF n = 4 /\ primary = s THEN Null ELSE primary

(***************************************************************************)
(* The first n of the four writes that end an uninstall: the token (which  *)
(* a logical row keeps), the status, the children, the primary sump.  The  *)
(* new status does not depend on the one in the table.                     *)
(***************************************************************************)
Retire(s, n) ==
    /\ sumps' = [u \in SumpIds |->
            IF ~Known(u) THEN Null ELSE
            [sumps[u] EXCEPT
                !.token = IF u = s /\ n >= 1 /\ sumps[u].type # "logical" THEN Null ELSE @,
                !.status = IF \/ u = s /\ n >= 2
                              \/ sumps[u].parent = s /\ n >= 3
                           THEN "retired" ELSE @]]
    /\ primary' = IF n = 4 /\ primary = s THEN Null ELSE primary

FreshTokens ==
    Tokens \ ({sumps[s].token : s \in {u \in SumpIds : Known(u)}}
                \cup {server[r] : r \in RootIds} \cup TypedTokens)

\* Fault: a new token whatever the row holds.
AlwaysNewToken(s) == FreshTokens

\* The tokens getOrCreateToken may return.
GetOrCreateToken(s) ==
    IF Known(s) /\ sumps[s].token # Null THEN {sumps[s].token} ELSE FreshTokens

-----------------------------------------------------------------------------
(***************************************************************************)
(* Calls in flight.                                                        *)
(***************************************************************************)

Ready == app = "up" /\ (Overlap \/ \A c \in Calls : calls[c] = Null)

Waits(c, kinds) == calls[c] # Null /\ calls[c].kind \in kinds

Await(c, kind, r, token) ==
    calls' = [calls EXCEPT ![c] = [kind |-> kind, id |-> r, token |-> token]]

EndCall(c) == calls' = [calls EXCEPT ![c] = Null]

-----------------------------------------------------------------------------
(***************************************************************************)
(* Installing.                                                             *)
(***************************************************************************)

\* Fault: a second local install is not refused.
InstallOverLive(c) ==
    /\ Ready
    /\ calls[c] = Null
    /\ Await(c, "detect", Local, Null)
    /\ UNCHANGED <<sumps, primary, server, app>>

\* The check for a live sump, then the wait for `docker info`.
InstallLocalSump(c) ==
    /\ Ready
    /\ calls[c] = Null
    /\ ~HasLiveSump
    /\ Await(c, "detect", Local, Null)
    /\ UNCHANGED <<sumps, primary, server, app>>

DockerDetected(c) ==
    /\ Waits(c, {"detect"})
    /\ \E token \in GetOrCreateToken(Local) :
        /\ UpsertSump(Local, RootRow("local", "provisioning", token))
        /\ Await(c, "pull", Local, token)
    /\ UNCHANGED <<primary, server, app>>

DockerMissing(c) ==
    /\ Waits(c, {"detect"})
    /\ EndCall(c)
    /\ UNCHANGED <<sumps, primary, server, app>>

InstallRemoteSump(c) ==
    /\ Ready
    /\ calls[c] = Null
    /\ \E r \in FreshIds :
        /\ ~Known(r)
        /\ \E token \in GetOrCreateToken(r) :
            /\ UpsertSump(r, RootRow("ssh", "provisioning", token))
            /\ Await(c, "pull", r, token)
    /\ UNCHANGED <<primary, server, app>>

\* `docker compose up -d` has started the container with the call's token.
ComposeUp(c) ==
    /\ Waits(c, {"pull"})
    /\ server' = [server EXCEPT ![calls[c].id] = calls[c].token]
    /\ Await(c, "health", calls[c].id, calls[c].token)
    /\ UNCHANGED <<sumps, primary, app>>

ProvisionSucceeds(c) ==
    /\ Waits(c, {"health"})
    /\ SetSumpStatus(calls[c].id, "active")
    /\ EndCall(c)
    /\ UNCHANGED <<primary, server, app>>

\* Any command may fail; a remote sump that does not answer is not a failure.
ProvisionFails(c) ==
    /\ \/ Waits(c, {"pull"})
       \/ Waits(c, {"health"}) /\ calls[c].id = Local
    /\ SetSumpStatus(calls[c].id, "retired")
    /\ EndCall(c)
    /\ UNCHANGED <<primary, server, app>>

\* The row is inserted once the existing sump has answered.
ConnectExistingSump ==
    /\ Ready
    /\ \E r \in FreshIds, token \in TypedTokens \cup {Null} :
        /\ ~Known(r)
        /\ UpsertSump(r, RootRow("external", "active", token))
    /\ UNCHANGED <<primary, server, calls, app>>

\* The row is inserted once the parent, whatever its status, has promoted.
PromoteDataStream(parent) ==
    /\ Ready
    /\ Known(parent)
    /\ \E r \in FreshIds :
        /\ ~Known(r)
        /\ UpsertSump(r, RootRow("promoted", "active", Null))
    /\ UNCHANGED <<primary, server, calls, app>>

-----------------------------------------------------------------------------
(***************************************************************************)
(* Uninstalling.                                                           *)
(***************************************************************************)

\* An external or a logical sump has nothing to tear down; a promoted one
\* has no recorded target and the handler throws.
UninstallSump(s) ==
    /\ Ready
    /\ Known(s)
    /\ \/ /\ sumps[s].type \in {"external", "logical"}
          /\ Retire(s, 4)
          /\ UNCHANGED calls
       \/ /\ sumps[s].type \in {"local", "ssh"}
          /\ \E c \in Calls : calls[c] = Null /\ Await(c, "uninstall", s, Null)
          /\ UNCHANGED <<sumps, primary>>
    /\ UNCHANGED <<server, app>>

\* The remote command line ends in a cleanup whose exit code hides that of
\* `docker compose down`: the container may still run.
UninstallSucceeds(c) ==
    /\ Waits(c, {"uninstall"})
    /\ \/ server' = [server EXCEPT ![calls[c].id] = Null]
       \/ sumps[calls[c].id].type = "ssh" /\ UNCHANGED server
    /\ Retire(calls[c].id, 4)
    /\ EndCall(c)
    /\ UNCHANGED app

\* The container may be gone all the same: its images could not be removed.
UninstallFails(c) ==
    /\ Waits(c, {"uninstall"})
    /\ server' \in {server, [server EXCEPT ![calls[c].id] = Null]}
    /\ EndCall(c)
    /\ UNCHANGED <<sumps, primary, app>>

-----------------------------------------------------------------------------
(***************************************************************************)
(* Discovery, on every list-sumps: the active roots are read once, and     *)
(* each is asked in turn for its docker hosts.                             *)
(***************************************************************************)

ActiveRoots == {r \in RootIds : Known(r) /\ sumps[r].status = "active"}

ListSumps(c) ==
    /\ Ready
    /\ calls[c] = Null
    /\ ActiveRoots # {}
    /\ calls' = [calls EXCEPT ![c] =
            [kind |-> "list", roots |-> {<<r, sumps[r].token>> : r \in ActiveRoots}]]
    /\ UNCHANGED <<sumps, primary, server, app>>

\* One root answers with these hosts, or with none: it may have failed.
RootAnswers(c, root, token, hosts) ==
    /\ Waits(c, {"list"})
    /\ <<root, token>> \in calls[c].roots
    /\ SyncLogicalSumps(root, token, hosts)
    /\ LET left == calls[c].roots \ {<<root, token>>}
       IN  calls' = [calls EXCEPT ![c] =
                        IF left = {} THEN Null ELSE [kind |-> "list", roots |-> left]]
    /\ UNCHANGED <<primary, server, app>>

-----------------------------------------------------------------------------
(***************************************************************************)
(* Choosing and editing; the process.                                      *)
(***************************************************************************)

SelectPrimarySump(s) ==
    /\ Ready
    /\ s \in Live
    /\ primary' = s
    /\ UNCHANGED <<sumps, server, calls, app>>

UpdateSumpConnection(s) ==
    /\ Ready
    /\ Known(s)
    /\ \E token \in TypedTokens : UpsertSump(s, [sumps[s] EXCEPT !.token = token])
    /\ UNCHANGED <<primary, server, calls, app>>

\* A command already started may still take effect after the process died.
Crash ==
    /\ app = "up"
    /\ app' = "down"
    /\ calls' = [c \in Calls |-> Null]
    /\ \/ UNCHANGED <<sumps, primary, server>>
       \/ \E c \in Calls :
            /\ Waits(c, {"pull"})
            /\ server' = [server EXCEPT ![calls[c].id] = calls[c].token]
            /\ UNCHANGED <<sumps, primary>>
       \/ \E c \in Calls, n \in 0..4 :
            /\ Waits(c, {"uninstall"})
            /\ n # 0 => TornWrites
            /\ server' = [server EXCEPT ![calls[c].id] = Null]
            /\ Retire(calls[c].id, n)

\* Nothing is recovered: a row left provisioning stays so.
Boot ==
    /\ app = "down"
    /\ app' = "up"
    /\ UNCHANGED <<sumps, primary, server, calls>>

EndProvision(c) == ComposeUp(c) \/ ProvisionSucceeds(c) \/ ProvisionFails(c)

Next ==
    \/ \E c \in Calls : \/ InstallLocalSump(c)
                        \/ DockerDetected(c)
                        \/ DockerMissing(c)
                        \/ InstallRemoteSump(c)
                        \/ EndProvision(c)
                        \/ UninstallSucceeds(c)
                        \/ UninstallFails(c)
                        \/ ListSumps(c)
                        \/ \E r \in RootIds, token \in Token, hosts \in SUBSET Hosts :
                                RootAnswers(c, r, token, hosts)
    \/ \E s \in SumpIds : \/ PromoteDataStream(s)
                          \/ UninstallSump(s)
                          \/ SelectPrimarySump(s)
                          \/ UpdateSumpConnection(s)
    \/ ConnectExistingSump
    \/ Crash
    \/ Boot

Spec == Init /\ [][Next]_vars

-----------------------------------------------------------------------------
(***************************************************************************)
(* What the renderer shows of the list.                                    *)
(***************************************************************************)

\* Fault: a root is hidden by any child, a retired one as well.
HiddenByAnyChild ==
    {s \in Live : \/ sumps[s].parent # Null
                  \/ ~\E t \in SumpIds : Known(t) /\ sumps[t].parent = s}

SelectableSumps ==
    {s \in Live : \/ sumps[s].parent # Null
                  \/ ~\E t \in Live : sumps[t].parent = s}

-----------------------------------------------------------------------------
(***************************************************************************)
(* Properties that hold with one call at a time.                           *)
(***************************************************************************)

\* A docker host is shown as live only while its root is: whatever retires
\* a root (an uninstall, an install that failed) leaves none of its hosts
\* behind.  With a second call in flight a late discovery answer breaks it.
NoDanglingChild == \A s \in LogicalIds : s \in Live => s[1] \in ActiveRoots

\* A container that runs for an installed sump accepts the token of its row,
\* through failed installs, reinstalls, failed uninstalls and crashes, unless
\* a user has typed another one; only an uninstall leaves the row without.
TokensMatchServers ==
    \A r \in RootIds :
        /\ Known(r)
        /\ sumps[r].type \in {"local", "ssh"}
        /\ server[r] # Null
        => \/ sumps[r].token \in {server[r]} \cup TypedTokens
           \/ sumps[r].token = Null /\ sumps[r].status = "retired"

\* As long as one sump is live the switcher has something to show: hosts that
\* were retired with an earlier install of their root do not hide the root.
LiveSumpIsShown == Live # {} => SelectableSumps # {}

TransitionTable ==
    {<<"provisioning", "active">>, <<"provisioning", "retired">>,
     <<"active", "unreachable">>, <<"active", "retired">>,
     <<"unreachable", "active">>, <<"unreachable", "retired">>}

\* The status of a row moves only along an edge of the transition table,
\* although the handlers write the status without looking at the one it
\* replaces; a new install of the local sump starts a new life.
StatusFollowsTable ==
    [][\A s \in SumpIds :
        Known(s) /\ sumps'[s] # Null /\ sumps'[s].status # sumps[s].status
        => \/ <<sumps[s].status, sumps'[s].status>> \in TransitionTable
           \/ s = Local /\ sumps[s].status = "retired" /\ sumps'[s].status = "provisioning"]_vars

=============================================================================
