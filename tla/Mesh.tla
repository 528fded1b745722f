-------------------------------- MODULE Mesh --------------------------------
(***************************************************************************)
(* What the clients of one sump share through it: its owner, the list of   *)
(* other sumps it knows of, and the privacy of its data sources.           *)
(*                                                                         *)
(* All of it is in Redis; a request is a handler of one event loop that    *)
(* awaits each Redis command, so that several are under way at once and    *)
(* only a command is atomic: SET NX for a claim, GETDEL for a nonce.  A    *)
(* peer list and a privacy record are read, changed and written back.      *)
(***************************************************************************)
EXTENDS Naturals

CONSTANTS
    Calls,      \* requests that may be under way at once
    Keys,       \* public keys of owners (an ownership record stands for its key)
    Nonces,     \* values secrets.token_hex may give
    Peers,      \* keys of peers, as the client of a synchronisation names them
    Users,      \* X-Correlator-User-Id of the clients
    Sources,    \* registered data sources
    Contacts,   \* times of a last contact; 0 is none
    Null

ASSUME MeshAssumption ==
    /\ Contacts \subseteq Nat
    /\ Null \notin Keys

VARIABLES
    owner,      \* sump:mesh:ownership
    nonces,     \* sump:mesh:nonce:*, and those no longer or not yet there
    peers,      \* sump:mesh:peers
    privacy,    \* sump:datasource:privacy:*, one of each data source
    calls,      \* the requests under way
    accepted,   \* history: requests each nonce was accepted for
    claimants   \* history: users who found a data source without an owner

vars == <<owner, nonces, peers, privacy, calls, accepted, claimants>>

Entry == [existence : {"existing", "absent", "unknown"}, contact : Contacts]

NoEntry == [existence |-> "none", contact |-> 0]

PeerList == [Peers -> Entry \cup {NoEntry}]

Privacy == [owner : Users, private : BOOLEAN]

NoPrivacy == [owner |-> Null, private |-> FALSE]

Idle == [op |-> "none"]

\* seen is the owner whose key the signature is checked against; a signer of
\* Null is a signature that verifies under no key.
Rotation == [op : {"rotate"}, at : {"read", "accepted", "verified"}, seen : Keys,
             nonce : Nonces, signer : Keys \cup {Null}, new : Keys \cup {Null}]

\* raced is a history variable: another list was saved since this one was loaded.
Sync == [op : {"sync"}, loaded : PeerList, incoming : PeerList, raced : BOOLEAN]

Setting == [op : {"privacy"}, source : Sources, record : Privacy,
            seen : Privacy \cup {NoPrivacy}]

TypeOK ==
    /\ owner \in Keys \cup {Null}
    /\ nonces \in [Nonces -> {"unused", "live", "gone"}]
    /\ peers \in PeerList
    /\ privacy \in [Sources -> Privacy \cup {NoPrivacy}]
    /\ calls \in [Calls -> {Idle} \cup Rotation \cup Sync \cup Setting]
    /\ accepted \in [Nonces -> 0 .. 2]
    /\ claimants \in [Sources -> SUBSET Users]

Init ==
    /\ owner = Null
    /\ nonces = [n \in Nonces |-> "unused"]
    /\ peers = [p \in Peers |-> NoEntry]
    /\ privacy = [s \in Sources |-> NoPrivacy]
    /\ calls = [c \in Calls |-> Idle]
    /\ accepted = [n \in Nonces |-> 0]
    /\ claimants = [s \in Sources |-> {}]

Begin(c, call) == calls[c] = Idle /\ calls' = [calls EXCEPT ![c] = call]

End(c) == calls' = [calls EXCEPT ![c] = Idle]

-----------------------------------------------------------------------------
(* Ownership                                                               *)

\* Fault: the claim is a SET without NX.
ClaimAnyway(k) ==
    /\ owner' = k
    /\ UNCHANGED <<nonces, peers, privacy, calls, accepted, claimants>>

\* SET NX is the whole request.
WriteOwnership(k) ==
    /\ owner = Null
    /\ owner' = k
    /\ UNCHANGED <<nonces, peers, privacy, calls, accepted, claimants>>

RememberNonce(n) ==
    /\ nonces[n] = "unused"
    /\ nonces' = [nonces EXCEPT ![n] = "live"]
    /\ UNCHANGED <<owner, peers, privacy, calls, accepted, claimants>>

\* Five minutes have passed; Redis forgets the key.
ExpireNonce(n) ==
    /\ nonces[n] = "live"
    /\ nonces' = [nonces EXCEPT ![n] = "gone"]
    /\ UNCHANGED <<owner, peers, privacy, calls, accepted, claimants>>

\* Fault: nobody asks whether there is an owner.
ReadUnclaimed(c, n, signer, new) ==
    /\ Begin(c, [op |-> "rotate", at |-> "read", seen |-> owner, nonce |-> n,
                 signer |-> signer, new |-> new])
    /\ UNCHANGED <<owner, nonces, peers, privacy, accepted, claimants>>

\* require_owner_signature reads the owner first: with none it refuses.
ReadOwnership(c, n, signer, new) ==
    /\ owner # Null
    /\ Begin(c, [op |-> "rotate", at |-> "read", seen |-> owner, nonce |-> n,
                 signer |-> signer, new |-> new])
    /\ UNCHANGED <<owner, nonces, peers, privacy, accepted, claimants>>

\* Fault: the nonce is looked up, and deleted by nobody.
LookUpNonce(c) ==
    LET n == calls[c].nonce
    IN  /\ calls[c].op = "rotate" /\ calls[c].at = "read"
        /\ \/ /\ nonces[n] = "live"
              /\ calls' = [calls EXCEPT ![c].at = "accepted"]
              /\ accepted' = [accepted EXCEPT ![n] = IF @ < 2 THEN @ + 1 ELSE @]
           \/ /\ nonces[n] # "live"
              /\ End(c)
              /\ UNCHANGED accepted
        /\ UNCHANGED <<owner, nonces, peers, privacy, claimants>>

\* GETDEL: gone for every other request, whether or not the signature verifies.
ConsumeNonce(c) ==
    LET n == calls[c].nonce
    IN  /\ calls[c].op = "rotate" /\ calls[c].at = "read"
        /\ \/ /\ nonces[n] = "live"
              /\ nonces' = [nonces EXCEPT ![n] = "gone"]
              /\ calls' = [calls EXCEPT ![c].at = "accepted"]
              /\ accepted' = [accepted EXCEPT ![n] = IF @ < 2 THEN @ + 1 ELSE @]
           \/ /\ nonces[n] # "live"
              /\ End(c)
              /\ UNCHANGED <<nonces, accepted>>
        /\ UNCHANGED <<owner, peers, privacy, claimants>>

\* ssh-keygen answers, is missing, or is killed after five seconds: a request
\* that does not verify, or names no new owner, is refused.
VerifyOwnerSignature(c) ==
    /\ calls[c].op = "rotate" /\ calls[c].at = "accepted"
    /\ \/ /\ calls[c].signer = calls[c].seen
          /\ calls[c].new # Null
          /\ calls' = [calls EXCEPT ![c].at = "verified"]
       \/ End(c)
    /\ UNCHANGED <<owner, nonces, peers, privacy, accepted, claimants>>

OverwriteOwnership(c) ==
    /\ calls[c].op = "rotate" /\ calls[c].at = "verified"
    /\ owner' = calls[c].new
    /\ End(c)
    /\ UNCHANGED <<nonces, peers, privacy, accepted, claimants>>

-----------------------------------------------------------------------------
(* Peers                                                                   *)

Verified(entry) == entry.existence \in {"existing", "absent"}

\* Fault: the more recent side wins before anything else is asked.
MergeByRecency(current, incoming) ==
    IF current = NoEntry THEN [incoming EXCEPT !.existence = "unknown"]
    ELSE IF \/ incoming.contact > current.contact
            \/ incoming.contact = current.contact /\ Verified(incoming) /\ ~Verified(current)
         THEN incoming
         ELSE current

MergePeerEntry(current, incoming) ==
    IF current = NoEntry THEN [incoming EXCEPT !.existence = "unknown"]
    ELSE IF \/ Verified(current) /\ ~Verified(incoming)
            \/ incoming.contact < current.contact
            \/ incoming.contact = current.contact /\ (Verified(current) \/ ~Verified(incoming))
         THEN current
         ELSE incoming

LoadPeerList(c, incoming) ==
    /\ Begin(c, [op |-> "sync", loaded |-> peers, incoming |-> incoming, raced |-> FALSE])
    /\ UNCHANGED <<owner, nonces, peers, privacy, accepted, claimants>>

\* Every incoming entry is merged into what was loaded, and all of it saved.
SavePeerList(c) ==
    /\ calls[c].op = "sync"
    /\ peers' = [p \in Peers |->
         IF calls[c].incoming[p] = NoEntry THEN calls[c].loaded[p]
         ELSE MergePeerEntry(calls[c].loaded[p], calls[c].incoming[p])]
    /\ calls' = [d \in Calls |->
         IF d = c THEN Idle
         ELSE IF calls[d].op = "sync" THEN [calls[d] EXCEPT !.raced = TRUE]
         ELSE calls[d]]
    /\ UNCHANGED <<owner, nonces, privacy, accepted, claimants>>

-----------------------------------------------------------------------------
(* Privacy                                                                 *)

GetPrivacy(c, s, record) ==
    /\ Begin(c, [op |-> "privacy", source |-> s, record |-> record, seen |-> privacy[s]])
    /\ claimants' = IF privacy[s] # NoPrivacy THEN claimants
                    ELSE [claimants EXCEPT ![s] = @ \cup {record.owner}]
    /\ UNCHANGED <<owner, nonces, peers, privacy, accepted>>

\* Fault: whoever asks last owns the source.
SetWhoeverAsks(c) ==
    /\ calls[c].op = "privacy"
    /\ privacy' = [privacy EXCEPT ![calls[c].source] = calls[c].record]
    /\ End(c)
    /\ UNCHANGED <<owner, nonces, peers, accepted, claimants>>

\* Refused if the record read names another user; written without a second look
\* otherwise.
SetPrivacy(c) ==
    /\ calls[c].op = "privacy"
    /\ IF calls[c].seen = NoPrivacy \/ calls[c].seen.owner = calls[c].record.owner
       THEN privacy' = [privacy EXCEPT ![calls[c].source] = calls[c].record]
       ELSE UNCHANGED privacy
    /\ End(c)
    /\ UNCHANGED <<owner, nonces, peers, accepted, claimants>>

-----------------------------------------------------------------------------
\* A command fails, or the client hangs up: the request ends where it is.
FailRequest(c) ==
    /\ calls[c] # Idle
    /\ End(c)
    /\ UNCHANGED <<owner, nonces, peers, privacy, accepted, claimants>>

\* The server dies; Redis is a process of its own.
Crash ==
    /\ calls' = [c \in Calls |-> Idle]
    /\ UNCHANGED <<owner, nonces, peers, privacy, accepted, claimants>>

Step(c) ==
    \/ ConsumeNonce(c)
    \/ VerifyOwnerSignature(c)
    \/ OverwriteOwnership(c)
    \/ SavePeerList(c)
    \/ SetPrivacy(c)

Next ==
    \/ \E k \in Keys : WriteOwnership(k)
    \/ \E n \in Nonces : RememberNonce(n) \/ ExpireNonce(n)
    \/ \E c \in Calls :
          \/ \E n \in Nonces, signer, new \in Keys \cup {Null} :
                ReadOwnership(c, n, signer, new)
          \/ \E incoming \in PeerList : LoadPeerList(c, incoming)
          \/ \E s \in Sources, record \in Privacy : GetPrivacy(c, s, record)
          \/ Step(c)
          \/ FailRequest(c)
    \/ Crash

Spec == Init /\ [][Next]_vars

-----------------------------------------------------------------------------
(* Properties                                                              *)

\* However many requests carry the same nonce at the same time, at most one is
\* accepted, and one that is then refused has used it up (consume_nonce).
NonceAcceptedOnce == \A n \in Nonces : accepted[n] <= 1

\* An owner, once there, gives way only to a rotation that verified: two claims
\* never race a rewrite (write_ownership), and the key that signed was the
\* owner's when that rotation began.
OwnerChangesHands ==
    [][owner # Null /\ owner' # owner =>
         \E c \in Calls : /\ calls[c].op = "rotate" /\ calls[c].at = "verified"
                          /\ owner' = calls[c].new
                          /\ calls[c].signer = calls[c].seen
                          /\ nonces[calls[c].nonce] = "gone"]_vars

\* A synchronisation that no other one overtook forgets no peer, takes no
\* verified existence back to unknown, and makes no contact older, whatever
\* the client sent (merge_peer_entry, mesh_peers_sync).
NoWorse(before, after) ==
    /\ before # NoEntry => after # NoEntry /\ after.contact >= before.contact
    /\ Verified(before) => Verified(after)

PeersKeptUnlessRaced ==
    [][\A c \in Calls :
         calls[c].op = "sync" /\ calls'[c] = Idle /\ ~calls[c].raced
           => \A p \in Peers : NoWorse(peers[p], peers'[p])]_vars

\* First claim wins, but for claims that overlap: whoever owns a data source is
\* a user whose request found it without an owner, whatever the users who came
\* later asked for, and in whatever order they were answered (set_privacy).
OwnedByFirstClaimant ==
    \A s \in Sources : privacy[s] # NoPrivacy => privacy[s].owner \in claimants[s]

=============================================================================
