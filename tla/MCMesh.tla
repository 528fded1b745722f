-------------------------------- MODULE MCMesh --------------------------------
(***************************************************************************)
(* Two requests at once on one sump.  The three groups of routes share no  *)
(* key of Redis and no handler uses two of them, so that a behaviour asks  *)
(* for one group only: what the groups do together is their interleaving.  *)
(***************************************************************************)
EXTENDS Mesh, TLC

VARIABLE route   \* the group of routes the clients of this behaviour use

Routes == {"rotate", "sync", "privacy"}

OneRoute ==
    /\ route' = route
    /\ \A c \in Calls : calls'[c].op \in {"none", route}
    /\ route # "rotate" => UNCHANGED <<owner, nonces>>

MCInit == Init /\ route \in Routes

MCSpec ==
    /\ MCInit
    /\ [][Next /\ OneRoute]_<<vars, route>>
=============================================================================
