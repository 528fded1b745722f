------------------------- MODULE SumpLifecycle_proofs -------------------------
(***************************************************************************)
(* What is proved of the sumps' lifecycle for every number of sumps, hosts *)
(* and tokens: type correctness however the handlers interleave, and, with *)
(* one call at a time and a catalog whose writes are not torn, that no     *)
(* docker host is shown live without its root, that a container accepts    *)
(* the token of its row and that a status moves along the table.           *)
(***************************************************************************)
EXTENDS SumpLifecycle, TLAPS

\* What the row of an id may be: a root has no parent and a host's row has its root.
Fits(s, row) ==
    /\ row \in Row
    /\ s \in RootIds => row.type # "logical" /\ row.parent = Null
    /\ s \in LogicalIds => row.type = "logical" /\ row.parent = s[1]

CatalogOK ==
    /\ sumps \in [SumpIds -> Row \cup {Null}]
    /\ \A s \in SumpIds : Known(s) => Fits(s, sumps[s])

RestOK ==
    /\ primary \in SumpIds \cup {Null}
    /\ server \in [RootIds -> Token]
    /\ calls \in [Calls -> Provisioning \cup Listing \cup {Null}]
    /\ app \in {"up", "down"}

LifecycleInv == CatalogOK /\ RestOK

-----------------------------------------------------------------------------
(***************************************************************************)
(* What the catalog's operators leave, row by row.                         *)
(***************************************************************************)

LEMMA Ids ==
    /\ Local \in RootIds
    /\ FreshIds \subseteq RootIds
    /\ RootIds \subseteq SumpIds
    /\ LogicalIds \subseteq SumpIds
    /\ \A s \in SumpIds : s \in RootIds \/ s \in LogicalIds
    /\ \A s \in LogicalIds : s \notin RootIds /\ s[1] \in RootIds
    /\ Null \notin SumpIds /\ Null \notin Row /\ Null \notin Tokens
    /\ Null \notin RootIds
BY ConstantsAssumption DEF SumpIds, RootIds, LogicalIds

LEMMA RowFields ==
    ASSUME NEW row \in Row
    PROVE  /\ row.type \in ConnectionType /\ row.status \in SumpState
           /\ row.token \in Token /\ row.parent \in RootIds \cup {Null}
BY DEF Row

LEMMA UpsertEffect ==
    ASSUME CatalogOK, NEW s \in SumpIds, NEW row, Fits(s, row), UpsertSump(s, row)
    PROVE  /\ CatalogOK'
           /\ \A u \in SumpIds : sumps'[u] = IF u = s THEN row ELSE sumps[u]
<1>1. \A u \in SumpIds : sumps'[u] = IF u = s THEN row ELSE sumps[u]
  BY DEF UpsertSump, CatalogOK
<1>2. sumps' \in [SumpIds -> Row \cup {Null}]
  BY DEF UpsertSump, CatalogOK, Fits
<1>3. \A u \in SumpIds : Known(u)' => Fits(u, sumps'[u])
  BY <1>1 DEF CatalogOK, Known
<1> QED
  BY <1>1, <1>2, <1>3 DEF CatalogOK, Fits

LEMMA StatusEffect ==
    ASSUME CatalogOK, NEW s \in SumpIds, NEW status \in SumpState, SetSumpStatus(s, status)
    PROVE  /\ CatalogOK'
           /\ \A u \in SumpIds : u # s => sumps'[u] = sumps[u]
           /\ ~Known(s) => sumps'[s] = Null
           /\ Known(s) => /\ sumps'[s] \in Row
                          /\ sumps'[s].status = status
                          /\ sumps'[s].token = sumps[s].token
                          /\ sumps'[s].type = sumps[s].type
                          /\ sumps'[s].parent = sumps[s].parent
<1> DEFINE row == IF Known(s) THEN [sumps[s] EXCEPT !.status = status] ELSE sumps[s]
<1>1. sumps' = [sumps EXCEPT ![s] = row]
  BY DEF SetSumpStatus
<1>2. Known(s) => sumps[s] \in Row /\ Fits(s, sumps[s])
  BY DEF CatalogOK, Fits
<1>3. Known(s) => /\ row \in Row
                  /\ row.status = status
                  /\ row.token = sumps[s].token
                  /\ row.type = sumps[s].type
                  /\ row.parent = sumps[s].parent
  BY <1>2 DEF Row
<1>4. ~Known(s) => row = Null
  BY DEF Known
<1> HIDE DEF row
<1>5. \A u \in SumpIds : sumps'[u] = IF u = s THEN row ELSE sumps[u]
  BY <1>1 DEF CatalogOK
<1>6. sumps' \in [SumpIds -> Row \cup {Null}]
  BY <1>1, <1>3, <1>4 DEF CatalogOK
<1>7. \A u \in SumpIds : Known(u)' => Fits(u, sumps'[u])
  BY <1>2, <1>3, <1>4, <1>5 DEF CatalogOK, Known, Fits
<1> QED
  BY <1>3, <1>4, <1>5, <1>6, <1>7 DEF CatalogOK, Fits

\* A retirement changes a row only in its token and, to retired, in its status.
LEMMA RetireEffect ==
    ASSUME CatalogOK, NEW s \in SumpIds, NEW n \in 0..4, Retire(s, n)
    PROVE  /\ CatalogOK'
           /\ \A u \in SumpIds : ~Known(u) => sumps'[u] = Null
           /\ \A u \in SumpIds : Known(u) =>
                /\ sumps'[u] \in Row
                /\ sumps'[u].type = sumps[u].type
                /\ sumps'[u].parent = sumps[u].parent
                /\ sumps'[u].token = IF u = s /\ n >= 1 /\ sumps[u].type # "logical"
                                     THEN Null ELSE sumps[u].token
                /\ sumps'[u].status = IF (u = s /\ n >= 2) \/ (sumps[u].parent = s /\ n >= 3)
                                      THEN "retired" ELSE sumps[u].status
           /\ primary' = primary \/ primary' = Null
<1>1. ASSUME NEW u \in SumpIds, ~Known(u)  PROVE  sumps'[u] = Null
  BY <1>1 DEF Retire
<1>2. ASSUME NEW u \in SumpIds, Known(u)
      PROVE  /\ sumps'[u] \in Row
             /\ sumps'[u].type = sumps[u].type
             /\ sumps'[u].parent = sumps[u].parent
             /\ sumps'[u].token = IF u = s /\ n >= 1 /\ sumps[u].type # "logical"
                                  THEN Null ELSE sumps[u].token
             /\ sumps'[u].status = IF (u = s /\ n >= 2) \/ (sumps[u].parent = s /\ n >= 3)
                                   THEN "retired" ELSE sumps[u].status
  <2> DEFINE row == sumps[u]
             token == IF u = s /\ n >= 1 /\ row.type # "logical" THEN Null ELSE row.token
             status == IF (u = s /\ n >= 2) \/ (row.parent = s /\ n >= 3)
                       THEN "retired" ELSE row.status
  <2>1. sumps'[u] = [row EXCEPT !.token = token, !.status = status]
    BY <1>2 DEF Retire
  <2>2. row \in Row
    BY <1>2 DEF CatalogOK, Fits
  <2>3. token \in Token /\ status \in SumpState
    <3>1. row.token \in Token /\ row.status \in SumpState
      BY <2>2, RowFields
    <3>2. Null \in Token /\ "retired" \in SumpState
      BY DEF Token, SumpState
    <3> HIDE DEF row
    <3> QED
      BY <3>1, <3>2
  <2> HIDE DEF token, status, row
  <2>4. /\ sumps'[u] \in Row
        /\ sumps'[u].type = row.type
        /\ sumps'[u].parent = row.parent
        /\ sumps'[u].token = token
        /\ sumps'[u].status = status
    BY <2>1, <2>2, <2>3 DEF Row
  <2> QED
    BY <2>4 DEF token, status, row
<1>3. sumps' = [u \in SumpIds |-> sumps'[u]]
  BY DEF Retire
<1>4. sumps' \in [SumpIds -> Row \cup {Null}]
  <2>1. \A u \in SumpIds : sumps'[u] \in Row \cup {Null}
    BY <1>1, <1>2
  <2> QED
    BY <1>3, <2>1
<1>5. ASSUME NEW u \in SumpIds, Known(u)'  PROVE  Fits(u, sumps'[u])
  <2>1. Known(u) /\ Fits(u, sumps[u])
    BY <1>1, <1>5 DEF Known, CatalogOK
  <2> QED
    BY <1>2, <2>1 DEF Fits
<1>6. primary' = primary \/ primary' = Null
  BY DEF Retire
<1> QED
  BY <1>1, <1>2, <1>4, <1>5, <1>6 DEF CatalogOK, Fits

\* A discovery only inserts rows of hosts of its root.
LEMMA SyncEffect ==
    ASSUME CatalogOK, NEW r \in RootIds, NEW token \in Token, NEW hosts \in SUBSET Hosts,
           SyncLogicalSumps(r, token, hosts)
    PROVE  /\ CatalogOK'
           /\ \A u \in SumpIds :
                \/ sumps'[u] = sumps[u]
                \/ /\ ~Known(u) /\ u \in LogicalIds /\ u[1] = r
                   /\ sumps'[u] = LogicalRow(r, token)
<1>1. \A u \in {r} \X hosts : u \in LogicalIds /\ u[1] = r
  BY DEF LogicalIds
<1>2. LogicalRow(r, token) \in Row
  BY DEF LogicalRow, Row, ConnectionType, SumpState
<1>3. \A u \in SumpIds :
        sumps'[u] = IF ~Known(u) /\ u \in {r} \X hosts THEN LogicalRow(r, token) ELSE sumps[u]
  BY DEF SyncLogicalSumps
<1>4. \A u \in SumpIds :
        \/ sumps'[u] = sumps[u]
        \/ ~Known(u) /\ u \in LogicalIds /\ u[1] = r /\ sumps'[u] = LogicalRow(r, token)
  BY <1>1, <1>3
<1>5. sumps' = [u \in SumpIds |-> sumps'[u]]
  BY DEF SyncLogicalSumps
<1>6. sumps' \in [SumpIds -> Row \cup {Null}]
  <2>1. \A u \in SumpIds : sumps'[u] \in Row \cup {Null}
    BY <1>2, <1>4 DEF CatalogOK
  <2> QED
    BY <1>5, <2>1
<1>7. \A u \in LogicalIds : u[1] = r => Fits(u, LogicalRow(r, token))
  BY <1>2, Ids DEF Fits, LogicalRow
<1>8. \A u \in SumpIds : Known(u)' => Fits(u, sumps'[u])
  BY <1>4, <1>7 DEF Known, CatalogOK
<1> QED
  BY <1>4, <1>6, <1>8 DEF CatalogOK, Fits

LEMMA RootRowFits ==
    ASSUME NEW r \in RootIds, NEW type \in ConnectionType \ {"logical"},
           NEW status \in SumpState, NEW token \in Token
    PROVE  /\ Fits(r, RootRow(type, status, token))
           /\ RootRow(type, status, token).type = type
           /\ RootRow(type, status, token).status = status
           /\ RootRow(type, status, token).token = token
BY Ids DEF Fits, RootRow, Row

LEMMA TokenGiven ==
    ASSUME CatalogOK, NEW s \in SumpIds, NEW token \in GetOrCreateToken(s)
    PROVE  token \in Tokens
<1>1. Known(s) => sumps[s].token \in Tokens \cup {Null}
  BY RowFields DEF CatalogOK, Fits, Token
<1> QED
  BY <1>1 DEF GetOrCreateToken, FreshTokens

-----------------------------------------------------------------------------
(***************************************************************************)
(* Types.                                                                  *)
(***************************************************************************)

LEMMA CallTypes ==
    /\ \A kind \in {"detect", "pull", "health", "uninstall"}, r \in RootIds, token \in Token :
         [kind |-> kind, id |-> r, token |-> token] \in Provisioning
    /\ \A S \in SUBSET (RootIds \X Token) : [kind |-> "list", roots |-> S] \in Listing
    /\ Null \notin Provisioning /\ Null \notin Listing
BY ConstantsAssumption DEF Provisioning, Listing

\* What the kind of a call says of its fields.
LEMMA CallFields ==
    ASSUME RestOK, NEW c \in Calls
    PROVE  /\ Waits(c, {"detect", "pull", "health", "uninstall"})
                => calls[c].id \in RootIds /\ calls[c].token \in Token
           /\ Waits(c, {"list"}) => calls[c].roots \in SUBSET (RootIds \X Token)
<1>1. calls[c] \in Provisioning => calls[c].id \in RootIds /\ calls[c].token \in Token
                                 /\ calls[c].kind # "list"
  BY DEF Provisioning
<1>2. calls[c] \in Listing => calls[c].roots \in SUBSET (RootIds \X Token) /\ calls[c].kind = "list"
  BY DEF Listing
<1> QED
  BY <1>1, <1>2 DEF RestOK, Waits

LEMMA LifecycleInit == Init => LifecycleInv
BY DEF Init, LifecycleInv, CatalogOK, RestOK, Known, Token

LEMMA LifecycleStep == LifecycleInv /\ [Next]_vars => LifecycleInv'
<1> SUFFICES ASSUME LifecycleInv, [Next]_vars  PROVE  LifecycleInv'
  OBVIOUS
<1> USE DEF LifecycleInv
<1>1. ASSUME UNCHANGED sumps  PROVE  CatalogOK'
  BY <1>1 DEF CatalogOK, Known, Fits
<1>2. ASSUME NEW c \in Calls, NEW kind \in {"detect", "pull", "health", "uninstall"},
             NEW r \in RootIds, NEW token \in Token, Await(c, kind, r, token)
      PROVE  calls' \in [Calls -> Provisioning \cup Listing \cup {Null}]
  BY <1>2, CallTypes DEF Await, RestOK
<1>3. ASSUME NEW c \in Calls, EndCall(c)
      PROVE  calls' \in [Calls -> Provisioning \cup Listing \cup {Null}]
  BY <1>3 DEF EndCall, RestOK
<1>4. Null \in Token /\ Tokens \subseteq Token /\ TypedTokens \subseteq Token
  BY ConstantsAssumption DEF Token
<1>5. ASSUME NEW c \in Calls, InstallLocalSump(c)  PROVE  LifecycleInv'
  <2>1. CatalogOK'
    BY <1>1, <1>5 DEF InstallLocalSump
  <2>2. calls' \in [Calls -> Provisioning \cup Listing \cup {Null}]
    BY <1>2, <1>4, <1>5, Ids DEF InstallLocalSump
  <2> QED
    BY <1>5, <2>1, <2>2 DEF InstallLocalSump, RestOK
<1>6. ASSUME NEW c \in Calls, DockerDetected(c)  PROVE  LifecycleInv'
  <2>1. PICK token \in GetOrCreateToken(Local) :
           UpsertSump(Local, RootRow("local", "provisioning", token)) /\ Await(c, "pull", Local, token)
    BY <1>6 DEF DockerDetected
  <2>2. Local \in SumpIds /\ Local \in RootIds /\ token \in Token
    BY <1>4, Ids, TokenGiven
  <2>3. Fits(Local, RootRow("local", "provisioning", token))
    BY <2>2, RootRowFits DEF ConnectionType, SumpState
  <2>4. CatalogOK'
    BY <2>1, <2>2, <2>3, UpsertEffect
  <2>5. calls' \in [Calls -> Provisioning \cup Listing \cup {Null}]
    BY <1>2, <2>1, <2>2
  <2> QED
    BY <1>6, <2>4, <2>5 DEF DockerDetected, RestOK
<1>7. ASSUME NEW c \in Calls, DockerMissing(c)  PROVE  LifecycleInv'
  <2>1. CatalogOK'
    BY <1>1, <1>7 DEF DockerMissing
  <2>2. calls' \in [Calls -> Provisioning \cup Listing \cup {Null}]
    BY <1>3, <1>7 DEF DockerMissing
  <2> QED
    BY <1>7, <2>1, <2>2 DEF DockerMissing, RestOK
<1>8. ASSUME NEW c \in Calls, InstallRemoteSump(c)  PROVE  LifecycleInv'
  <2>0. PICK r \in FreshIds : \E token \in GetOrCreateToken(r) :
           UpsertSump(r, RootRow("ssh", "provisioning", token)) /\ Await(c, "pull", r, token)
    BY <1>8 DEF InstallRemoteSump
  <2>1. PICK token \in GetOrCreateToken(r) :
           UpsertSump(r, RootRow("ssh", "provisioning", token)) /\ Await(c, "pull", r, token)
    BY <2>0
  <2>2. r \in SumpIds /\ r \in RootIds
    BY Ids
  <2>3. token \in Token
    BY <1>4, <2>2, TokenGiven
  <2>4. Fits(r, RootRow("ssh", "provisioning", token))
    BY <2>2, <2>3, RootRowFits DEF ConnectionType, SumpState
  <2>5. CatalogOK'
    BY <2>1, <2>2, <2>4, UpsertEffect
  <2>6. calls' \in [Calls -> Provisioning \cup Listing \cup {Null}]
    BY <1>2, <2>1, <2>2, <2>3
  <2> QED
    BY <1>8, <2>5, <2>6 DEF InstallRemoteSump, RestOK
<1>9. ASSUME NEW c \in Calls, ComposeUp(c)  PROVE  LifecycleInv'
  <2>1. calls[c].id \in RootIds /\ calls[c].token \in Token
    BY <1>9, CallFields DEF ComposeUp, Waits
  <2>2. server' \in [RootIds -> Token]
    BY <1>9, <2>1 DEF ComposeUp, RestOK
  <2>3. calls' \in [Calls -> Provisioning \cup Listing \cup {Null}]
    BY <1>2, <1>9, <2>1 DEF ComposeUp
  <2>4. CatalogOK'
    BY <1>1, <1>9 DEF ComposeUp
  <2> QED
    BY <1>9, <2>2, <2>3, <2>4 DEF ComposeUp, RestOK
<1>10. ASSUME NEW c \in Calls, ProvisionSucceeds(c) \/ ProvisionFails(c)  PROVE  LifecycleInv'
  <2>1. calls[c].id \in SumpIds
    BY <1>10, CallFields, Ids DEF ProvisionSucceeds, ProvisionFails, Waits
  <2>2. "active" \in SumpState /\ "retired" \in SumpState
    BY DEF SumpState
  <2>3. CatalogOK'
    BY <1>10, <2>1, <2>2, StatusEffect DEF ProvisionSucceeds, ProvisionFails
  <2>4. calls' \in [Calls -> Provisioning \cup Listing \cup {Null}]
    BY <1>3, <1>10 DEF ProvisionSucceeds, ProvisionFails
  <2> QED
    BY <1>10, <2>3, <2>4 DEF ProvisionSucceeds, ProvisionFails, RestOK
<1>11. ASSUME NEW c \in Calls, UninstallSucceeds(c)  PROVE  LifecycleInv'
  <2>1. calls[c].id \in RootIds
    BY <1>11, CallFields DEF UninstallSucceeds, Waits
  <2>2. CatalogOK' /\ (primary' = primary \/ primary' = Null)
    BY <1>11, <2>1, RetireEffect, Ids DEF UninstallSucceeds
  <2>3. server' \in [RootIds -> Token]
    BY <1>4, <1>11, <2>1 DEF UninstallSucceeds, RestOK
  <2>4. calls' \in [Calls -> Provisioning \cup Listing \cup {Null}]
    BY <1>3, <1>11 DEF UninstallSucceeds
  <2> QED
    BY <1>11, <2>2, <2>3, <2>4 DEF UninstallSucceeds, RestOK
<1>12. ASSUME NEW c \in Calls, UninstallFails(c)  PROVE  LifecycleInv'
  <2>1. CatalogOK'
    BY <1>1, <1>12 DEF UninstallFails
  <2>2. calls' \in [Calls -> Provisioning \cup Listing \cup {Null}]
    BY <1>3, <1>12 DEF UninstallFails
  <2>3. server' \in [RootIds -> Token]
    BY <1>4, <1>12 DEF UninstallFails, RestOK
  <2> QED
    BY <1>12, <2>1, <2>2, <2>3 DEF UninstallFails, RestOK
<1>13. ASSUME NEW c \in Calls, ListSumps(c)  PROVE  LifecycleInv'
  <2>1. {<<r, sumps[r].token>> : r \in ActiveRoots} \in SUBSET (RootIds \X Token)
    <3>1. \A r \in ActiveRoots : r \in RootIds /\ sumps[r].token \in Token
      BY Ids, RowFields DEF ActiveRoots, CatalogOK, Fits
    <3> QED
      BY <3>1
  <2>2. calls' \in [Calls -> Provisioning \cup Listing \cup {Null}]
    BY <1>13, <2>1, CallTypes DEF ListSumps, RestOK
  <2>3. CatalogOK'
    BY <1>1, <1>13 DEF ListSumps
  <2> QED
    BY <1>13, <2>2, <2>3 DEF ListSumps, RestOK
<1>14. ASSUME NEW c \in Calls, NEW r \in RootIds, NEW token \in Token, NEW hosts \in SUBSET Hosts,
              RootAnswers(c, r, token, hosts)
       PROVE  LifecycleInv'
  <2>1. CatalogOK'
    BY <1>14, SyncEffect DEF RootAnswers
  <2>2. calls[c].roots \ {<<r, token>>} \in SUBSET (RootIds \X Token)
    BY <1>14, CallFields DEF RootAnswers
  <2>4. calls' \in [Calls -> Provisioning \cup Listing \cup {Null}]
    BY <1>14, <2>2, CallTypes DEF RootAnswers, RestOK
  <2> QED
    BY <1>14, <2>1, <2>4 DEF RootAnswers, RestOK
<1>15. ASSUME NEW s \in SumpIds, PromoteDataStream(s)  PROVE  LifecycleInv'
  <2>1. PICK r \in FreshIds : UpsertSump(r, RootRow("promoted", "active", Null))
    BY <1>15 DEF PromoteDataStream
  <2>2. Fits(r, RootRow("promoted", "active", Null)) /\ r \in SumpIds
    BY <1>4, Ids, RootRowFits DEF ConnectionType, SumpState
  <2>3. CatalogOK'
    BY <2>1, <2>2, UpsertEffect
  <2> QED
    BY <1>15, <2>3 DEF PromoteDataStream, RestOK
<1>16. ASSUME NEW s \in SumpIds, UninstallSump(s)  PROVE  LifecycleInv'
  <2>1. CASE sumps[s].type \in {"external", "logical"} /\ Retire(s, 4) /\ UNCHANGED calls
    <3>1. CatalogOK' /\ (primary' = primary \/ primary' = Null)
      BY <2>1, RetireEffect
    <3> QED
      BY <1>16, <2>1, <3>1 DEF UninstallSump, RestOK
  <2>2. CASE /\ sumps[s].type \in {"local", "ssh"}
             /\ \E c \in Calls : calls[c] = Null /\ Await(c, "uninstall", s, Null)
             /\ UNCHANGED <<sumps, primary>>
    <3>1. s \in RootIds
      BY <1>16, <2>2, Ids DEF UninstallSump, CatalogOK, Fits
    <3>2. calls' \in [Calls -> Provisioning \cup Listing \cup {Null}]
      BY <1>2, <1>4, <2>2, <3>1
    <3>3. CatalogOK'
      BY <1>1, <2>2
    <3> QED
      BY <1>16, <2>2, <3>2, <3>3 DEF UninstallSump, RestOK
  <2> QED
    BY <1>16, <2>1, <2>2 DEF UninstallSump
<1>17. ASSUME NEW s \in SumpIds, SelectPrimarySump(s)  PROVE  LifecycleInv'
  BY <1>1, <1>17 DEF SelectPrimarySump, RestOK
<1>18. ASSUME NEW s \in SumpIds, UpdateSumpConnection(s)  PROVE  LifecycleInv'
  <2>1. PICK token \in TypedTokens : UpsertSump(s, [sumps[s] EXCEPT !.token = token])
    BY <1>18 DEF UpdateSumpConnection
  <2>2. Fits(s, sumps[s]) /\ sumps[s] \in Row /\ token \in Token
    BY <1>4, <1>18 DEF UpdateSumpConnection, CatalogOK, Fits
  <2> DEFINE row == [sumps[s] EXCEPT !.token = token]
  <2>5. row \in Row /\ row.type = sumps[s].type /\ row.parent = sumps[s].parent
    BY <2>2 DEF Row
  <2>3. Fits(s, row)
    BY <2>2, <2>5 DEF Fits
  <2>4. CatalogOK'
    BY <2>1, <2>3, UpsertEffect
  <2> QED
    BY <1>18, <2>4 DEF UpdateSumpConnection, RestOK
<1>19. CASE ConnectExistingSump
  <2>1. PICK r \in FreshIds, token \in TypedTokens \cup {Null} :
           UpsertSump(r, RootRow("external", "active", token))
    BY <1>19 DEF ConnectExistingSump
  <2>2. Fits(r, RootRow("external", "active", token)) /\ r \in SumpIds
    BY <1>4, Ids, RootRowFits DEF ConnectionType, SumpState
  <2>3. CatalogOK'
    BY <2>1, <2>2, UpsertEffect
  <2> QED
    BY <1>19, <2>3 DEF ConnectExistingSump, RestOK
<1>20. CASE Crash
  <2>1. calls' \in [Calls -> Provisioning \cup Listing \cup {Null}] /\ app' \in {"up", "down"}
    BY <1>20 DEF Crash
  <2>2. CASE UNCHANGED <<sumps, primary, server>>
    BY <1>1, <2>1, <2>2 DEF RestOK
  <2>3. ASSUME NEW c \in Calls, Waits(c, {"pull"}), UNCHANGED <<sumps, primary>>,
               server' = [server EXCEPT ![calls[c].id] = calls[c].token]
        PROVE  LifecycleInv'
    <3>1. calls[c].id \in RootIds /\ calls[c].token \in Token
      BY <2>3, CallFields DEF Waits
    <3> QED
      BY <1>1, <2>1, <2>3, <3>1 DEF RestOK
  <2>4. ASSUME NEW c \in Calls, NEW n \in 0..4, Waits(c, {"uninstall"}),
               server' = [server EXCEPT ![calls[c].id] = Null], Retire(calls[c].id, n)
        PROVE  LifecycleInv'
    <3>1. calls[c].id \in RootIds /\ calls[c].id \in SumpIds
      BY <2>4, CallFields, Ids DEF Waits
    <3>2. CatalogOK' /\ (primary' = primary \/ primary' = Null)
      BY <2>4, <3>1, RetireEffect
    <3> QED
      BY <1>4, <2>1, <2>4, <3>2 DEF RestOK
  <2> QED
    BY <1>20, <2>2, <2>3, <2>4 DEF Crash
<1>21. CASE Boot
  BY <1>1, <1>21 DEF Boot, RestOK
<1>22. CASE UNCHANGED vars
  BY <1>1, <1>22 DEF vars, RestOK
<1> QED
  BY <1>5, <1>6, <1>7, <1>8, <1>9, <1>10, <1>11, <1>12, <1>13, <1>14, <1>15, <1>16, <1>17,
     <1>18, <1>19, <1>20, <1>21, <1>22 DEF Next, EndProvision

LEMMA LifecycleInvariance == Spec => []LifecycleInv
BY LifecycleInit, LifecycleStep, PTL DEF Spec

\* The variables of the lifecycle have their types in every state, however the
\* handlers overlap: the row of a root has no parent, that of a host has its root.
THEOREM TypeCorrect == Spec => []TypeOK
<1>1. LifecycleInv => TypeOK
  BY DEF LifecycleInv, CatalogOK, RestOK, TypeOK
<1> QED
  BY <1>1, LifecycleInvariance, PTL

-----------------------------------------------------------------------------
(***************************************************************************)
(* One call at a time, and no torn writes.  What a call read before an     *)
(* await still holds after it, because nothing else runs in between.       *)
(***************************************************************************)

Serial == ~Overlap /\ ~TornWrites

OneCall == \A c, d \in Calls : calls[c] # Null /\ calls[d] # Null => c = d

\* What an awaiting handler may rely on.
CallHolds(c) ==
    /\ Waits(c, {"detect"}) => calls[c].id = Local /\ Live = {}
    /\ Waits(c, {"pull", "health"}) =>
        /\ Known(calls[c].id)
        /\ sumps[calls[c].id].type \in {"local", "ssh"}
        /\ sumps[calls[c].id].status = "provisioning"
        /\ sumps[calls[c].id].token = calls[c].token
    /\ Waits(c, {"uninstall"}) =>
        /\ Known(calls[c].id)
        /\ sumps[calls[c].id].type \in {"local", "ssh"}
    /\ Waits(c, {"list"}) => \A p \in calls[c].roots : p[1] \in ActiveRoots

CallsHold == \A c \in Calls : CallHolds(c)

\* A root that is not known has no container, and a local sump that has lost its
\* token has lost its container with it: a new token meets no old container.
RootServed(r) ==
    /\ ~Known(r) => server[r] = Null
    /\ r = Local /\ Known(r) =>
        /\ sumps[r].type = "local"
        /\ sumps[r].token = Null => server[r] = Null
    /\ Known(r) /\ sumps[r].type \in {"local", "ssh"} /\ server[r] # Null =>
        \/ sumps[r].token \in {server[r]} \cup TypedTokens
        \/ sumps[r].token = Null /\ sumps[r].status = "retired"

RootsServed == \A r \in RootIds : RootServed(r)

SerialInv == OneCall /\ CallsHold /\ RootsServed /\ NoDanglingChild

StatusMoves ==
    \A s \in SumpIds :
        Known(s) /\ sumps'[s] # Null /\ sumps'[s].status # sumps[s].status
        => \/ <<sumps[s].status, sumps'[s].status>> \in TransitionTable
           \/ s = Local /\ sumps[s].status = "retired" /\ sumps'[s].status = "provisioning"

LEMMA SerialInit == Init => SerialInv
<1> SUFFICES ASSUME Init  PROVE  SerialInv
  OBVIOUS
<1>1. \A s \in SumpIds : ~Known(s)
  BY DEF Init, Known
<1>2. \A c \in Calls : calls[c] = Null
  BY DEF Init
<1>3. \A r \in RootIds : server[r] = Null
  BY DEF Init
<1>4. NoDanglingChild
  BY <1>1 DEF NoDanglingChild, Live
<1> QED
  BY <1>1, <1>2, <1>3, <1>4, Ids DEF SerialInv, OneCall, CallsHold, CallHolds, Waits, RootsServed, RootServed

\* When no call is left there is nothing to rely on.
LEMMA NoCallLeft ==
    ASSUME \A d \in Calls : calls'[d] = Null
    PROVE  OneCall' /\ CallsHold'
BY DEF OneCall, CallsHold, CallHolds, Waits

\* When one call is, what it relies on is all there is to show.
LEMMA OneCallLeft ==
    ASSUME NEW c \in Calls, \A d \in Calls \ {c} : calls'[d] = Null, CallHolds(c)'
    PROVE  OneCall' /\ CallsHold'
BY DEF OneCall, CallsHold, CallHolds, Waits

LEMMA CallEffect ==
    ASSUME RestOK, NEW c \in Calls, \A d \in Calls \ {c} : calls[d] = Null
    PROVE  /\ \A d \in Calls \ {c} : EndCall(c) => calls'[d] = Null
           /\ EndCall(c) => calls'[c] = Null
           /\ \A kind, r, token : Await(c, kind, r, token) =>
                /\ \A d \in Calls \ {c} : calls'[d] = Null
                /\ calls'[c] = [kind |-> kind, id |-> r, token |-> token]
BY DEF RestOK, EndCall, Await

\* A row and a container that stay serve as they did.
LEMMA ServedAsBefore ==
    ASSUME NEW r \in RootIds, RootServed(r), sumps'[r] = sumps[r], server'[r] = server[r]
    PROVE  RootServed(r)'
BY DEF RootServed, Known

LEMMA Dangling ==
    NoDanglingChild <=>
        \A s \in LogicalIds : Known(s) /\ sumps[s].status # "retired" =>
            Known(s[1]) /\ sumps[s[1]].status = "active"
BY Ids DEF NoDanglingChild, Live, ActiveRoots

LEMMA DanglingNext ==
    (\A s \in LogicalIds : sumps'[s] # Null /\ sumps'[s].status # "retired" =>
            sumps'[s[1]] # Null /\ sumps'[s[1]].status = "active")
    => NoDanglingChild'
BY Ids DEF NoDanglingChild, Live, ActiveRoots, Known

\* A row inserted for a root that was not known, or is not live, leaves no host behind.
LEMMA InsertLeaves ==
    ASSUME SerialInv, NEW r \in RootIds, r \notin Live,
           \A u \in SumpIds : u # r => sumps'[u] = sumps[u]
    PROVE  NoDanglingChild'
<1>1. \A s \in LogicalIds : s \in SumpIds /\ s # r /\ s[1] \in SumpIds
  BY Ids
<1>2. ASSUME NEW s \in LogicalIds, sumps'[s] # Null, sumps'[s].status # "retired"
      PROVE  sumps'[s[1]] # Null /\ sumps'[s[1]].status = "active"
  <2>1. Known(s[1]) /\ sumps[s[1]].status = "active"
    BY <1>1, <1>2, Dangling DEF SerialInv, Known
  <2>2. s[1] # r
    BY <1>1, <2>1 DEF Live
  <2> QED
    BY <1>1, <2>1, <2>2 DEF Known
<1> QED
  BY <1>2, DanglingNext

\* A retirement of a root, an external sump or a host leaves no host behind.
LEMMA RetireLeaves ==
    ASSUME CatalogOK, SerialInv, NEW s \in SumpIds, Retire(s, 4)
    PROVE  /\ NoDanglingChild'
           /\ StatusMoves
           /\ \A r \in RootIds : r # s /\ Known(r) => /\ sumps'[r] # Null
                                                   /\ sumps'[r].type = sumps[r].type
                                                   /\ sumps'[r].token = sumps[r].token
                                                   /\ sumps'[r].status = sumps[r].status
<1>1. /\ \A u \in SumpIds : ~Known(u) => sumps'[u] = Null
      /\ \A u \in SumpIds : Known(u) =>
            /\ sumps'[u] \in Row
            /\ sumps'[u].type = sumps[u].type
            /\ sumps'[u].parent = sumps[u].parent
            /\ sumps'[u].token = IF u = s /\ sumps[u].type # "logical"
                                 THEN Null ELSE sumps[u].token
            /\ sumps'[u].status = IF u = s \/ sumps[u].parent = s
                                  THEN "retired" ELSE sumps[u].status
  BY RetireEffect
<1>2. \A r \in RootIds : Known(r) => r \in SumpIds /\ sumps[r].parent = Null /\ Null # s
  BY Ids DEF CatalogOK, Fits
<1>3. ASSUME NEW u \in LogicalIds, sumps'[u] # Null, sumps'[u].status # "retired"
      PROVE  sumps'[u[1]] # Null /\ sumps'[u[1]].status = "active"
  <2>1. u \in SumpIds /\ u[1] \in RootIds /\ u[1] \in SumpIds
    BY Ids
  <2>2. Known(u) /\ u # s /\ sumps[u].parent # s /\ sumps[u].status # "retired"
    BY <1>1, <1>3, <2>1
  <2>3. sumps[u].parent = u[1]
    BY <2>1, <2>2 DEF CatalogOK, Fits
  <2>4. Known(u[1]) /\ sumps[u[1]].status = "active"
    BY <2>2, Dangling DEF SerialInv
  <2> QED
    BY <1>1, <1>2, <2>1, <2>2, <2>3, <2>4, Ids
<1>4. StatusMoves
  <2> SUFFICES ASSUME NEW u \in SumpIds, Known(u), sumps'[u].status # sumps[u].status
               PROVE  <<sumps[u].status, sumps'[u].status>> \in TransitionTable
    BY DEF StatusMoves
  <2>1. sumps'[u].status = "retired" /\ sumps[u].status \in SumpState
    BY <1>1, RowFields DEF CatalogOK, Fits
  <2> QED
    BY <2>1 DEF SumpState, TransitionTable
<1> QED
  BY <1>1, <1>2, <1>3, <1>4, DanglingNext, Ids

\* A row inserted for a root that has no container.
LEMMA InsertServes ==
    ASSUME CatalogOK, SerialInv, NEW r \in RootIds, r \notin Live, NEW row \in Row,
           \A u \in SumpIds : sumps'[u] = IF u = r THEN row ELSE sumps[u],
           UNCHANGED server,
           ~Known(r) => server[r] = Null /\ (r = Local => row.type = "local"),
           ~Known(r) \/ r = Local,
           Known(r) => row.type = "local" /\ row.status = "provisioning" /\ row.token # Null
                       /\ (sumps[r].token # Null => row.token = sumps[r].token)
    PROVE  /\ NoDanglingChild' /\ RootsServed'
           /\ Known(r) => sumps[r].status = "retired"
<1>1. NoDanglingChild'
  BY InsertLeaves
<1>2. Known(r) => sumps[r].status = "retired"
  BY Ids DEF Live
<1>3. ASSUME NEW u \in RootIds  PROVE  RootServed(u)'
  <2>1. CASE u # r
    BY <1>3, <2>1, Ids, ServedAsBefore DEF SerialInv, RootsServed
  <2>2. CASE u = r
    <3>1. RootServed(r) /\ sumps'[r] = row /\ row # Null
      BY Ids DEF SerialInv, RootsServed
    <3>2. CASE ~Known(r)
      BY <2>2, <3>1, <3>2 DEF RootServed, Known
    <3>3. CASE Known(r)
      BY <2>2, <3>1, <3>3 DEF RootServed, Known
    <3> QED
      BY <3>2, <3>3
  <2> QED
    BY <2>1, <2>2
<1> QED
  BY <1>1, <1>2, <1>3 DEF RootsServed

LEMMA RowsAsBefore ==
    ASSUME SerialInv, UNCHANGED sumps
    PROVE  NoDanglingChild' /\ StatusMoves
BY DEF SerialInv, NoDanglingChild, Live, ActiveRoots, Known, StatusMoves

\* A handler starts only when no other is under way.
LEMMA ReadyAlone ==
    ASSUME Serial, Ready
    PROVE  \A d \in Calls : calls[d] = Null
BY DEF Serial, Ready

LEMMA WaitsAlone ==
    ASSUME SerialInv, NEW c \in Calls, calls[c] # Null
    PROVE  \A d \in Calls \ {c} : calls[d] = Null
BY DEF SerialInv, OneCall

\* Installing and connecting: the actions that insert a row or wait to.
LEMMA InstallStep ==
    ASSUME Serial, LifecycleInv, SerialInv,
           \/ \E c \in Calls : \/ InstallLocalSump(c)
                              \/ DockerDetected(c)
                              \/ DockerMissing(c)
                              \/ InstallRemoteSump(c)
           \/ ConnectExistingSump
           \/ \E s \in SumpIds : PromoteDataStream(s)
    PROVE  SerialInv' /\ StatusMoves
<1> USE DEF LifecycleInv
<1>1. ASSUME NEW c \in Calls, InstallLocalSump(c)  PROVE  SerialInv' /\ StatusMoves
  <2>1. \A d \in Calls : calls[d] = Null
    BY <1>1, ReadyAlone DEF InstallLocalSump
  <2>2. /\ \A d \in Calls \ {c} : calls'[d] = Null
        /\ calls'[c] = [kind |-> "detect", id |-> Local, token |-> Null]
    BY <1>1, <2>1, CallEffect DEF InstallLocalSump
  <2>3. CallHolds(c)'
    BY <1>1, <2>2 DEF InstallLocalSump, CallHolds, Waits, HasLiveSump, Live, Known
  <2>4. OneCall' /\ CallsHold'
    BY <2>2, <2>3, OneCallLeft
  <2>5. RootsServed'
    BY <1>1 DEF InstallLocalSump, SerialInv, RootsServed, RootServed, Known
  <2> QED
    BY <1>1, <2>4, <2>5, RowsAsBefore DEF InstallLocalSump, SerialInv
<1>2. ASSUME NEW c \in Calls, DockerDetected(c)  PROVE  SerialInv' /\ StatusMoves
  <2>1. PICK token \in GetOrCreateToken(Local) :
           UpsertSump(Local, RootRow("local", "provisioning", token)) /\ Await(c, "pull", Local, token)
    BY <1>2 DEF DockerDetected
  <2>2. Local \in SumpIds /\ Local \in RootIds /\ token \in Tokens /\ token # Null /\ token \in Token
    BY Ids, TokenGiven DEF Token
  <2> DEFINE row == RootRow("local", "provisioning", token)
  <2>3. Fits(Local, row) /\ row.type = "local" /\ row.status = "provisioning" /\ row.token = token
    BY <2>2, RootRowFits DEF ConnectionType, SumpState
  <2>4. row \in Row /\ row # Null
    BY <2>3, Ids DEF Fits
  <2> HIDE DEF row
  <2>5. \A u \in SumpIds : sumps'[u] = IF u = Local THEN row ELSE sumps[u]
    BY <2>1, <2>2, <2>3, UpsertEffect DEF row
  <2>6. Waits(c, {"detect"}) /\ Live = {} /\ calls[c] # Null
    BY <1>2 DEF DockerDetected, Waits, SerialInv, CallsHold, CallHolds
  <2>7. Known(Local) /\ sumps[Local].token # Null => token = sumps[Local].token
    BY DEF GetOrCreateToken
  <2>8. UNCHANGED server /\ (~Known(Local) => server[Local] = Null)
    BY <1>2, <2>2 DEF DockerDetected, SerialInv, RootsServed, RootServed
  <2>9. NoDanglingChild' /\ RootsServed' /\ (Known(Local) => sumps[Local].status = "retired")
    BY <2>2, <2>3, <2>4, <2>5, <2>6, <2>7, <2>8, InsertServes
  <2>10. /\ \A d \in Calls \ {c} : calls'[d] = Null
         /\ calls'[c] = [kind |-> "pull", id |-> Local, token |-> token]
    BY <2>1, <2>6, WaitsAlone, CallEffect
  <2>11. CallHolds(c)'
    BY <2>2, <2>3, <2>4, <2>5, <2>10 DEF CallHolds, Waits, Known
  <2>12. OneCall' /\ CallsHold'
    BY <2>10, <2>11, OneCallLeft
  <2>13. StatusMoves
    BY <2>3, <2>5, <2>9 DEF StatusMoves
  <2> QED
    BY <2>9, <2>12, <2>13 DEF SerialInv
<1>3. ASSUME NEW c \in Calls, DockerMissing(c)  PROVE  SerialInv' /\ StatusMoves
  <2>1. \A d \in Calls : calls'[d] = Null
    BY <1>3, WaitsAlone, CallEffect DEF DockerMissing, Waits
  <2>2. RootsServed'
    BY <1>3 DEF DockerMissing, SerialInv, RootsServed, RootServed, Known
  <2> QED
    BY <1>3, <2>1, <2>2, NoCallLeft, RowsAsBefore DEF DockerMissing, SerialInv
<1>4. ASSUME NEW c \in Calls, InstallRemoteSump(c)  PROVE  SerialInv' /\ StatusMoves
  <2>1. PICK r \in FreshIds : /\ ~Known(r)
                             /\ \E token \in GetOrCreateToken(r) :
                                   /\ UpsertSump(r, RootRow("ssh", "provisioning", token))
                                   /\ Await(c, "pull", r, token)
    BY <1>4 DEF InstallRemoteSump
  <2>2. PICK token \in GetOrCreateToken(r) :
           UpsertSump(r, RootRow("ssh", "provisioning", token)) /\ Await(c, "pull", r, token)
    BY <2>1
  <2>3. r \in SumpIds /\ r \in RootIds /\ r # Local
    BY Ids, ConstantsAssumption
  <2>4. token \in Token
    BY <2>3, TokenGiven DEF Token
  <2> DEFINE row == RootRow("ssh", "provisioning", token)
  <2>5. Fits(r, row) /\ row.type = "ssh" /\ row.status = "provisioning" /\ row.token = token
    BY <2>3, <2>4, RootRowFits DEF ConnectionType, SumpState
  <2>6. row \in Row /\ row # Null
    BY <2>5, Ids DEF Fits
  <2> HIDE DEF row
  <2>7. \A u \in SumpIds : sumps'[u] = IF u = r THEN row ELSE sumps[u]
    BY <2>2, <2>3, <2>5, UpsertEffect DEF row
  <2>8. UNCHANGED server /\ server[r] = Null /\ r \notin Live
    BY <1>4, <2>1, <2>3 DEF InstallRemoteSump, SerialInv, RootsServed, RootServed, Live
  <2>9. NoDanglingChild' /\ RootsServed'
    BY <2>1, <2>3, <2>6, <2>7, <2>8, InsertServes
  <2>10. /\ \A d \in Calls \ {c} : calls'[d] = Null
         /\ calls'[c] = [kind |-> "pull", id |-> r, token |-> token]
    BY <1>4, <2>2, ReadyAlone, CallEffect DEF InstallRemoteSump
  <2>11. CallHolds(c)'
    BY <2>3, <2>5, <2>6, <2>7, <2>10 DEF CallHolds, Waits, Known
  <2>12. OneCall' /\ CallsHold'
    BY <2>10, <2>11, OneCallLeft
  <2>13. StatusMoves
    BY <2>1, <2>7 DEF StatusMoves
  <2> QED
    BY <2>9, <2>12, <2>13 DEF SerialInv
<1>5. ASSUME NEW r \in FreshIds, ~Known(r), NEW type \in {"external", "promoted"},
             NEW token \in TypedTokens \cup {Null}, Ready,
             UpsertSump(r, RootRow(type, "active", token)), UNCHANGED <<server, calls>>
      PROVE  SerialInv' /\ StatusMoves
  <2>1. r \in SumpIds /\ r \in RootIds /\ r # Local /\ token \in Token
    BY Ids, ConstantsAssumption DEF Token
  <2> DEFINE row == RootRow(type, "active", token)
  <2>2. Fits(r, row) /\ row \in Row /\ row # Null
    <3>1. Fits(r, row)
      BY <2>1, RootRowFits DEF ConnectionType, SumpState
    <3> QED
      BY <3>1, Ids DEF Fits
  <2> HIDE DEF row
  <2>3. \A u \in SumpIds : sumps'[u] = IF u = r THEN row ELSE sumps[u]
    BY <1>5, <2>1, <2>2, UpsertEffect DEF row
  <2>4. UNCHANGED server /\ server[r] = Null /\ r \notin Live
    BY <1>5, <2>1 DEF SerialInv, RootsServed, RootServed, Live
  <2>5. NoDanglingChild' /\ RootsServed'
    BY <1>5, <2>1, <2>2, <2>3, <2>4, InsertServes
  <2>6. \A d \in Calls : calls'[d] = Null
    BY <1>5, ReadyAlone
  <2>7. StatusMoves
    BY <1>5, <2>3 DEF StatusMoves
  <2> QED
    BY <2>5, <2>6, <2>7, NoCallLeft DEF SerialInv
<1>6. CASE ConnectExistingSump
  BY <1>5, <1>6 DEF ConnectExistingSump
<1>7. ASSUME NEW s \in SumpIds, PromoteDataStream(s)  PROVE  SerialInv' /\ StatusMoves
  BY <1>5, <1>7 DEF PromoteDataStream
<1> QED
  BY <1>1, <1>2, <1>3, <1>4, <1>6, <1>7

\* The rest of an install: the row is found as it was left before the await.
LEMMA ProvisionStep ==
    ASSUME LifecycleInv, SerialInv, NEW c \in Calls, EndProvision(c)
    PROVE  SerialInv' /\ StatusMoves
<1> USE DEF LifecycleInv
<1> DEFINE r == calls[c].id
<1>1. calls[c] # Null /\ Waits(c, {"pull", "health"})
  BY DEF EndProvision, ComposeUp, ProvisionSucceeds, ProvisionFails, Waits
<1>2. r \in RootIds /\ r \in SumpIds /\ calls[c].token \in Token
  BY <1>1, CallFields, Ids DEF Waits
<1>3. /\ Known(r) /\ sumps[r].type \in {"local", "ssh"}
      /\ sumps[r].status = "provisioning" /\ sumps[r].token = calls[c].token
  BY <1>1 DEF SerialInv, CallsHold, CallHolds
<1>4. \A d \in Calls \ {c} : calls[d] = Null
  BY <1>1, WaitsAlone
<1> HIDE DEF r
<1>5. CASE ComposeUp(c)
  <2>1. /\ \A d \in Calls \ {c} : calls'[d] = Null
        /\ calls'[c] = [kind |-> "health", id |-> r, token |-> calls[c].token]
        /\ UNCHANGED sumps
    BY <1>4, <1>5, CallEffect DEF ComposeUp, r
  <2>2. CallHolds(c)'
    BY <1>3, <2>1 DEF CallHolds, Waits, Known
  <2>3. OneCall' /\ CallsHold'
    BY <2>1, <2>2, OneCallLeft
  <2>4. \A u \in RootIds : server'[u] = IF u = r THEN calls[c].token ELSE server[u]
    BY <1>5 DEF ComposeUp, RestOK, r
  <2>5. RootsServed'
    BY <1>2, <1>3, <2>1, <2>4 DEF SerialInv, RootsServed, RootServed, Known
  <2> QED
    BY <2>1, <2>3, <2>5, RowsAsBefore DEF SerialInv
<1>6. ASSUME NEW status \in {"active", "retired"}, SetSumpStatus(r, status), EndCall(c),
             UNCHANGED server
      PROVE  SerialInv' /\ StatusMoves
  <2>1. /\ \A u \in SumpIds : u # r => sumps'[u] = sumps[u]
        /\ sumps'[r] \in Row /\ sumps'[r].status = status
        /\ sumps'[r].token = sumps[r].token /\ sumps'[r].type = sumps[r].type
    BY <1>2, <1>3, <1>6, StatusEffect DEF SumpState
  <2>2. \A d \in Calls : calls'[d] = Null
    BY <1>4, <1>6, CallEffect
  <2>3. ASSUME NEW u \in RootIds  PROVE  RootServed(u)'
    <3>1. CASE u # r
      BY <1>6, <2>1, <3>1, ServedAsBefore, Ids DEF SerialInv, RootsServed
    <3>2. CASE u = r
      BY <1>2, <1>3, <1>6, <2>1, <3>2, Ids DEF SerialInv, RootsServed, RootServed, Known
    <3> QED
      BY <3>1, <3>2
  <2>4. ASSUME NEW s \in LogicalIds, sumps'[s] # Null, sumps'[s].status # "retired"
        PROVE  sumps'[s[1]] # Null /\ sumps'[s[1]].status = "active"
    <3>1. s \in SumpIds /\ s # r /\ s[1] \in SumpIds
      BY <1>2, Ids
    <3>2. Known(s[1]) /\ sumps[s[1]].status = "active"
      BY <2>1, <2>4, <3>1, Dangling DEF SerialInv, Known
    <3> QED
      BY <1>3, <2>1, <3>1, <3>2 DEF Known
  <2>5. StatusMoves
    BY <1>3, <1>6, <2>1 DEF StatusMoves, TransitionTable
  <2> QED
    BY <2>2, <2>3, <2>4, <2>5, NoCallLeft, DanglingNext DEF SerialInv, RootsServed
<1>7. CASE ProvisionSucceeds(c) \/ ProvisionFails(c)
  BY <1>6, <1>7 DEF ProvisionSucceeds, ProvisionFails, r
<1> QED
  BY <1>5, <1>7 DEF EndProvision

\* Uninstalling: only a local sump is sure to lose its container with its token.
LEMMA UninstallStep ==
    ASSUME Serial, LifecycleInv, SerialInv,
           \/ \E s \in SumpIds : UninstallSump(s)
           \/ \E c \in Calls : UninstallSucceeds(c) \/ UninstallFails(c)
    PROVE  SerialInv' /\ StatusMoves
<1> USE DEF LifecycleInv
<1>1. ASSUME NEW s \in SumpIds, UninstallSump(s)  PROVE  SerialInv' /\ StatusMoves
  <2>1. Known(s) /\ UNCHANGED server /\ \A d \in Calls : calls[d] = Null
    BY <1>1, ReadyAlone DEF UninstallSump
  <2>2. CASE sumps[s].type \in {"external", "logical"} /\ Retire(s, 4) /\ UNCHANGED calls
    <3>1. /\ NoDanglingChild' /\ StatusMoves
          /\ \A r \in RootIds : r # s /\ Known(r) => /\ sumps'[r] # Null
                                                  /\ sumps'[r].type = sumps[r].type
                                                  /\ sumps'[r].token = sumps[r].token
                                                  /\ sumps'[r].status = sumps[r].status
      BY <2>2, RetireLeaves
    <3>2. /\ \A u \in SumpIds : ~Known(u) => sumps'[u] = Null
          /\ sumps'[s] # Null /\ sumps'[s].type = sumps[s].type
      BY <2>1, <2>2, RetireEffect, Ids
    <3>3. ASSUME NEW r \in RootIds  PROVE  RootServed(r)'
      <4>1. RootServed(r) /\ r \in SumpIds
        BY Ids DEF SerialInv, RootsServed
      <4>2. CASE r = s
        <5>1. r # Local
          BY <2>1, <2>2, <4>1, <4>2 DEF RootServed
        <5> QED
          BY <2>1, <2>2, <3>2, <4>2, <5>1 DEF RootServed, Known
      <4>3. CASE r # s /\ Known(r)
        BY <2>1, <3>1, <4>1, <4>3 DEF RootServed, Known
      <4>4. CASE ~Known(r)
        BY <2>1, <3>2, <4>1, <4>4 DEF RootServed, Known
      <4> QED
        BY <4>2, <4>3, <4>4
    <3>4. \A d \in Calls : calls'[d] = Null
      BY <2>1, <2>2
    <3> QED
      BY <3>1, <3>3, <3>4, NoCallLeft DEF SerialInv, RootsServed
  <2>3. CASE /\ sumps[s].type \in {"local", "ssh"}
             /\ \E c \in Calls : calls[c] = Null /\ Await(c, "uninstall", s, Null)
             /\ UNCHANGED <<sumps, primary>>
    <3>1. PICK c \in Calls : Await(c, "uninstall", s, Null)
      BY <2>3
    <3>2. /\ \A d \in Calls \ {c} : calls'[d] = Null
          /\ calls'[c] = [kind |-> "uninstall", id |-> s, token |-> Null]
      BY <2>1, <3>1, CallEffect
    <3>3. CallHolds(c)'
      BY <2>1, <2>3, <3>2 DEF CallHolds, Waits, Known
    <3>4. RootsServed'
      BY <2>1, <2>3 DEF SerialInv, RootsServed, RootServed, Known
    <3> QED
      BY <2>3, <3>2, <3>3, <3>4, OneCallLeft, RowsAsBefore DEF SerialInv
  <2> QED
    BY <1>1, <2>2, <2>3 DEF UninstallSump
<1>2. ASSUME NEW c \in Calls, UninstallSucceeds(c)  PROVE  SerialInv' /\ StatusMoves
  <2> DEFINE s == calls[c].id
  <2>1. calls[c] # Null /\ s \in RootIds /\ s \in SumpIds
    BY <1>2, CallFields, Ids DEF UninstallSucceeds, Waits
  <2>2. Known(s) /\ sumps[s].type \in {"local", "ssh"}
    BY <1>2 DEF UninstallSucceeds, SerialInv, CallsHold, CallHolds
  <2>3. \A d \in Calls : calls'[d] = Null
    BY <1>2, <2>1, WaitsAlone, CallEffect DEF UninstallSucceeds
  <2>4. /\ Retire(s, 4)
        /\ \A r \in RootIds : r # s => server'[r] = server[r]
        /\ server'[s] = Null \/ (sumps[s].type = "ssh" /\ server'[s] = server[s])
    BY <1>2, <2>1 DEF UninstallSucceeds, RestOK
  <2> HIDE DEF s
  <2>5. /\ NoDanglingChild' /\ StatusMoves
        /\ \A r \in RootIds : r # s /\ Known(r) => /\ sumps'[r] # Null
                                                /\ sumps'[r].type = sumps[r].type
                                                /\ sumps'[r].token = sumps[r].token
                                                /\ sumps'[r].status = sumps[r].status
    BY <2>1, <2>4, RetireLeaves
  <2>6. /\ \A u \in SumpIds : ~Known(u) => sumps'[u] = Null
        /\ sumps'[s] # Null /\ sumps'[s].type = sumps[s].type
        /\ sumps'[s].token = Null /\ sumps'[s].status = "retired"
    BY <2>1, <2>2, <2>4, RetireEffect, Ids
  <2>7. ASSUME NEW r \in RootIds  PROVE  RootServed(r)'
    <3>1. RootServed(r) /\ r \in SumpIds
      BY Ids DEF SerialInv, RootsServed
    <3>2. CASE r = s
      <4>1. s = Local => sumps[s].type = "local"
        BY <2>2, <3>1, <3>2 DEF RootServed
      <4> QED
        BY <2>2, <2>4, <2>6, <3>2, <4>1 DEF RootServed, Known
    <3>3. CASE r # s /\ Known(r)
      BY <2>4, <2>5, <3>1, <3>3 DEF RootServed, Known
    <3>4. CASE r # s /\ ~Known(r)
      BY <2>4, <2>6, <3>1, <3>4 DEF RootServed, Known
    <3> QED
      BY <3>2, <3>3, <3>4
  <2> QED
    BY <2>3, <2>5, <2>7, NoCallLeft DEF SerialInv, RootsServed
<1>3. ASSUME NEW c \in Calls, UninstallFails(c)  PROVE  SerialInv' /\ StatusMoves
  <2>1. calls[c].id \in RootIds
    BY <1>3, CallFields DEF UninstallFails, Waits
  <2>2. \A d \in Calls : calls'[d] = Null
    BY <1>3, WaitsAlone, CallEffect DEF UninstallFails, Waits
  <2>3. \A r \in RootIds : server'[r] = server[r] \/ server'[r] = Null
    BY <1>3, <2>1 DEF UninstallFails, RestOK
  <2>4. RootsServed'
    BY <1>3, <2>3 DEF UninstallFails, SerialInv, RootsServed, RootServed, Known
  <2> QED
    BY <1>3, <2>2, <2>4, NoCallLeft, RowsAsBefore DEF UninstallFails, SerialInv
<1> QED
  BY <1>1, <1>2, <1>3

\* Discovery: the roots asked are still active when they answer.
LEMMA DiscoveryStep ==
    ASSUME Serial, LifecycleInv, SerialInv, NEW c \in Calls,
           \/ ListSumps(c)
           \/ \E r \in RootIds, token \in Token, hosts \in SUBSET Hosts :
                  RootAnswers(c, r, token, hosts)
    PROVE  SerialInv' /\ StatusMoves
<1> USE DEF LifecycleInv
<1>1. CASE ListSumps(c)
  <2> DEFINE roots == {<<r, sumps[r].token>> : r \in ActiveRoots}
  <2>1. /\ \A d \in Calls \ {c} : calls'[d] = Null
        /\ calls'[c] = [kind |-> "list", roots |-> roots]
    BY <1>1, ReadyAlone DEF ListSumps, RestOK
  <2>2. \A p \in roots : p[1] \in ActiveRoots
    OBVIOUS
  <2> HIDE DEF roots
  <2>3. CallHolds(c)'
    BY <1>1, <2>1, <2>2 DEF ListSumps, CallHolds, Waits, ActiveRoots, Known
  <2>4. RootsServed'
    BY <1>1 DEF ListSumps, SerialInv, RootsServed, RootServed, Known
  <2> QED
    BY <1>1, <2>1, <2>3, <2>4, OneCallLeft, RowsAsBefore DEF ListSumps, SerialInv
<1>2. ASSUME NEW r \in RootIds, NEW token \in Token, NEW hosts \in SUBSET Hosts,
             RootAnswers(c, r, token, hosts)
      PROVE  SerialInv' /\ StatusMoves
  <2>1. calls[c] # Null /\ Waits(c, {"list"}) /\ <<r, token>> \in calls[c].roots /\ UNCHANGED server
    BY <1>2 DEF RootAnswers, Waits
  <2>2. \A p \in calls[c].roots : p[1] \in ActiveRoots
    BY <2>1 DEF SerialInv, CallsHold, CallHolds
  <2>3. Known(r) /\ sumps[r].status = "active"
    BY <2>1, <2>2 DEF ActiveRoots
  <2>4. \A u \in SumpIds :
          \/ sumps'[u] = sumps[u]
          \/ ~Known(u) /\ u \in LogicalIds /\ u[1] = r /\ sumps'[u] = LogicalRow(r, token)
    BY <1>2, SyncEffect DEF RootAnswers
  <2>5. \A u \in RootIds : sumps'[u] = sumps[u]
    BY <2>4, Ids
  <2>6. ASSUME NEW s \in LogicalIds, sumps'[s] # Null, sumps'[s].status # "retired"
        PROVE  sumps'[s[1]] # Null /\ sumps'[s[1]].status = "active"
    <3>1. s \in SumpIds /\ s[1] \in RootIds
      BY Ids
    <3>2. CASE sumps'[s] = sumps[s]
      BY <2>5, <2>6, <3>1, <3>2, Dangling DEF SerialInv, Known
    <3>3. CASE s[1] = r
      BY <2>3, <2>5, <3>1, <3>3 DEF Known
    <3> QED
      BY <2>4, <3>1, <3>2, <3>3
  <2>7. RootsServed'
    BY <2>1, <2>5, ServedAsBefore DEF SerialInv, RootsServed
  <2>8. StatusMoves
    BY <2>4 DEF StatusMoves
  <2> DEFINE left == calls[c].roots \ {<<r, token>>}
  <2>9. \A d \in Calls : calls'[d] = IF d = c THEN IF left = {} THEN Null ELSE [kind |-> "list", roots |-> left]
                                              ELSE calls[d]
    BY <1>2 DEF RootAnswers, RestOK
  <2>10. \A p \in left : p[1] \in ActiveRoots
    BY <2>2
  <2> HIDE DEF left
  <2>11. \A u \in ActiveRoots : u \in (ActiveRoots)'
    BY <2>5 DEF ActiveRoots, Known
  <2>12. OneCall' /\ CallsHold'
    <3>1. \A d \in Calls \ {c} : calls'[d] = Null
      BY <2>1, <2>9, WaitsAlone
    <3>2. CallHolds(c)'
      BY <2>9, <2>10, <2>11 DEF CallHolds, Waits
    <3> QED
      BY <3>1, <3>2, OneCallLeft
  <2> QED
    BY <2>6, <2>7, <2>8, <2>12, DanglingNext DEF SerialInv
<1> QED
  BY <1>1, <1>2

\* Choosing, editing, the process: a command that outlives a crash does what the
\* call would have done.
LEMMA OtherStep ==
    ASSUME Serial, LifecycleInv, SerialInv,
           \/ \E s \in SumpIds : SelectPrimarySump(s) \/ UpdateSumpConnection(s)
           \/ Crash
           \/ Boot
    PROVE  SerialInv' /\ StatusMoves
<1> USE DEF LifecycleInv
<1>1. ASSUME NEW s \in SumpIds, SelectPrimarySump(s)  PROVE  SerialInv' /\ StatusMoves
  BY <1>1, RowsAsBefore DEF SelectPrimarySump, SerialInv, OneCall, CallsHold, CallHolds, Waits,
     RootsServed, RootServed, Known, Live, ActiveRoots
<1>2. ASSUME NEW s \in SumpIds, UpdateSumpConnection(s)  PROVE  SerialInv' /\ StatusMoves
  <2>1. PICK token \in TypedTokens : UpsertSump(s, [sumps[s] EXCEPT !.token = token])
    BY <1>2 DEF UpdateSumpConnection
  <2>2. /\ Known(s) /\ sumps[s] \in Row /\ Fits(s, sumps[s])
        /\ token \in Token /\ token # Null
    BY <1>2, Ids, ConstantsAssumption DEF UpdateSumpConnection, CatalogOK, Fits, Token
  <2> DEFINE row == [sumps[s] EXCEPT !.token = token]
  <2>3. /\ row \in Row /\ row.token = token /\ row.type = sumps[s].type
        /\ row.status = sumps[s].status /\ row.parent = sumps[s].parent
    BY <2>2 DEF Row
  <2> HIDE DEF row
  <2>4. Fits(s, row) /\ row # Null
    BY <2>2, <2>3, Ids DEF Fits
  <2>5. \A u \in SumpIds : sumps'[u] = IF u = s THEN row ELSE sumps[u]
    BY <2>1, <2>4, UpsertEffect DEF row
  <2>6. UNCHANGED server /\ \A d \in Calls : calls'[d] = Null
    BY <1>2, ReadyAlone DEF UpdateSumpConnection
  <2>7. ASSUME NEW r \in RootIds  PROVE  RootServed(r)'
    <3>1. RootServed(r) /\ r \in SumpIds
      BY Ids DEF SerialInv, RootsServed
    <3>2. CASE r # s
      BY <2>5, <2>6, <3>1, <3>2, ServedAsBefore
    <3>3. CASE r = s
      BY <2>2, <2>3, <2>4, <2>5, <2>6, <3>1, <3>3 DEF RootServed, Known
    <3> QED
      BY <3>2, <3>3
  <2>8. ASSUME NEW u \in LogicalIds, sumps'[u] # Null, sumps'[u].status # "retired"
        PROVE  sumps'[u[1]] # Null /\ sumps'[u[1]].status = "active"
    <3>1. u \in SumpIds /\ u[1] \in SumpIds
      BY Ids
    <3>2. Known(u) /\ sumps[u].status # "retired"
      BY <2>2, <2>3, <2>5, <2>8, <3>1 DEF Known
    <3>3. Known(u[1]) /\ sumps[u[1]].status = "active"
      BY <3>2, Dangling DEF SerialInv
    <3> QED
      BY <2>3, <2>4, <2>5, <3>1, <3>3 DEF Known
  <2>9. StatusMoves
    BY <2>3, <2>5 DEF StatusMoves
  <2> QED
    BY <2>6, <2>7, <2>8, <2>9, NoCallLeft, DanglingNext DEF SerialInv, RootsServed
<1>3. CASE Crash
  <2>1. \A d \in Calls : calls'[d] = Null
    BY <1>3 DEF Crash
  <2>2. CASE UNCHANGED <<sumps, primary, server>>
    <3>1. RootsServed'
      BY <2>2 DEF SerialInv, RootsServed, RootServed, Known
    <3> QED
      BY <2>1, <2>2, <3>1, NoCallLeft, RowsAsBefore DEF SerialInv
  <2>3. ASSUME NEW c \in Calls, Waits(c, {"pull"}), UNCHANGED <<sumps, primary>>,
               server' = [server EXCEPT ![calls[c].id] = calls[c].token]
        PROVE  SerialInv' /\ StatusMoves
    <3> DEFINE r == calls[c].id
    <3>1. r \in RootIds /\ Known(r) /\ sumps[r].token = calls[c].token
      BY <2>3, CallFields DEF Waits, SerialInv, CallsHold, CallHolds
    <3>2. \A u \in RootIds : server'[u] = IF u = r THEN calls[c].token ELSE server[u]
      BY <2>3 DEF RestOK
    <3> HIDE DEF r
    <3>3. RootsServed'
      BY <2>3, <3>1, <3>2 DEF SerialInv, RootsServed, RootServed, Known
    <3> QED
      BY <2>1, <2>3, <3>3, NoCallLeft, RowsAsBefore DEF SerialInv
  <2>4. ASSUME NEW c \in Calls, NEW n \in 0..4, Waits(c, {"uninstall"}), n # 0 => TornWrites,
               server' = [server EXCEPT ![calls[c].id] = Null], Retire(calls[c].id, n)
        PROVE  SerialInv' /\ StatusMoves
    <3> DEFINE s == calls[c].id
    <3>1. s \in RootIds /\ s \in SumpIds /\ n = 0
      BY <2>4, CallFields, Ids DEF Waits, Serial
    <3>2. \A u \in RootIds : server'[u] = IF u = s THEN Null ELSE server[u]
      BY <2>4 DEF RestOK
    <3>3. Retire(s, 0)
      BY <2>4, <3>1
    <3> HIDE DEF s
    <3>4. /\ \A u \in SumpIds : ~Known(u) => sumps'[u] = Null
          /\ \A u \in SumpIds : Known(u) =>
                sumps'[u] # Null /\ sumps'[u].type = sumps[u].type
                /\ sumps'[u].token = sumps[u].token /\ sumps'[u].status = sumps[u].status
      BY <3>1, <3>3, RetireEffect, Ids
    <3>5. RootsServed'
      BY <3>2, <3>4, Ids DEF SerialInv, RootsServed, RootServed, Known
    <3>6. ASSUME NEW u \in LogicalIds, sumps'[u] # Null, sumps'[u].status # "retired"
          PROVE  sumps'[u[1]] # Null /\ sumps'[u[1]].status = "active"
      <4>1. u \in SumpIds /\ u[1] \in SumpIds
        BY Ids
      <4>2. Known(u) /\ sumps[u].status # "retired"
        BY <3>4, <3>6, <4>1
      <4>3. Known(u[1]) /\ sumps[u[1]].status = "active"
        BY <4>2, Dangling DEF SerialInv
      <4> QED
        BY <3>4, <4>1, <4>3
    <3>7. StatusMoves
      BY <3>4 DEF StatusMoves
    <3> QED
      BY <2>1, <3>5, <3>6, <3>7, NoCallLeft, DanglingNext DEF SerialInv
  <2> QED
    BY <1>3, <2>2, <2>3, <2>4 DEF Crash
<1>4. CASE Boot
  BY <1>4, RowsAsBefore DEF Boot, SerialInv, OneCall, CallsHold, CallHolds, Waits,
     RootsServed, RootServed, Known, Live, ActiveRoots
<1> QED
  BY <1>1, <1>2, <1>3, <1>4

LEMMA SerialStep ==
    Serial /\ LifecycleInv /\ SerialInv /\ [Next]_vars => SerialInv' /\ [StatusMoves]_vars
<1> SUFFICES ASSUME Serial, LifecycleInv, SerialInv, [Next]_vars
             PROVE  SerialInv' /\ [StatusMoves]_vars
  OBVIOUS
<1>1. CASE UNCHANGED vars
  BY <1>1 DEF vars, SerialInv, OneCall, CallsHold, CallHolds, Waits, RootsServed, RootServed,
     NoDanglingChild, Live, ActiveRoots, Known
<1>2. CASE Next
  BY <1>2, InstallStep, ProvisionStep, UninstallStep, DiscoveryStep, OtherStep DEF Next
<1> QED
  BY <1>1, <1>2

-----------------------------------------------------------------------------
(***************************************************************************)
(* What holds with one call at a time, in a catalog that is not torn.      *)
(***************************************************************************)

LEMMA SerialInvariance == Serial => (Spec => []SerialInv)
<1> SUFFICES ASSUME Serial  PROVE  Spec => []SerialInv
  OBVIOUS
<1>1. LifecycleInv /\ SerialInv /\ [Next]_vars => SerialInv'
  BY SerialStep
<1> QED
  BY <1>1, SerialInit, LifecycleInvariance, PTL DEF Spec

\* A docker host is shown as live only while its root is: whatever retires a root
\* leaves none of its hosts behind (retireSump, failed installs, list-sumps).
THEOREM HostsGoWithTheirRoot == ~Overlap /\ ~TornWrites => (Spec => []NoDanglingChild)
<1>1. SerialInv => NoDanglingChild
  BY DEF SerialInv
<1> QED
  BY <1>1, SerialInvariance, PTL DEF Serial

\* A container that runs for an installed sump accepts the token of its row, unless
\* a user has typed another or an uninstall has left the row without (getOrCreateToken).
THEOREM ContainersAcceptTheirRow == ~Overlap /\ ~TornWrites => (Spec => []TokensMatchServers)
<1>1. SerialInv => TokensMatchServers
  BY DEF SerialInv, RootsServed, RootServed, TokensMatchServers
<1> QED
  BY <1>1, SerialInvariance, PTL DEF Serial

\* The status of a row moves along the transition table, which no handler consults.
THEOREM StatusMovesAlongTheTable == ~Overlap /\ ~TornWrites => (Spec => StatusFollowsTable)
<1> SUFFICES ASSUME Serial  PROVE  Spec => [][StatusMoves]_vars
  BY DEF Serial, StatusFollowsTable, StatusMoves
<1>1. LifecycleInv /\ SerialInv /\ [Next]_vars => [StatusMoves]_vars
  BY SerialStep
<1> QED
  BY <1>1, LifecycleInvariance, SerialInvariance, PTL DEF Spec

\* As long as one sump is live the switcher has one to show: a root is hidden only by
\* a live host, which is itself shown, so it takes no assumption on the calls.
THEOREM SwitcherShowsALiveSump == Spec => []LiveSumpIsShown
<1>1. LifecycleInv => LiveSumpIsShown
  <2> SUFFICES ASSUME LifecycleInv, NEW s \in Live  PROVE  SelectableSumps # {}
    BY DEF LiveSumpIsShown
  <2>1. CASE \E t \in Live : sumps[t].parent = s
    <3>1. PICK t \in Live : sumps[t].parent = s
      BY <2>1
    <3>2. sumps[t].parent # Null
      BY <3>1, Ids DEF Live
    <3> QED
      BY <3>2 DEF SelectableSumps
  <2>2. CASE ~\E t \in Live : sumps[t].parent = s
    BY <2>2 DEF SelectableSumps
  <2> QED
    BY <2>1, <2>2
<1> QED
  BY <1>1, LifecycleInvariance, PTL

=============================================================================
