------------------------------ MODULE Mesh_proofs ------------------------------
(***************************************************************************)
(* Proofs about Mesh, for any number of requests, keys, nonces and peers.  *)
(***************************************************************************)
EXTENDS Mesh, TLAPS

(***************************************************************************)
(* Type correctness.                                                       *)
(***************************************************************************)

Request == Rotation \cup Sync \cup Setting

\* What a request is about tells its kind.
LEMMA Kinds ==
    ASSUME TypeOK, NEW c \in Calls
    PROVE  /\ calls[c].op = "rotate" => calls[c] \in Rotation
           /\ calls[c].op = "sync" => calls[c] \in Sync
           /\ calls[c].op = "privacy" => calls[c] \in Setting
           /\ calls[c].op = "none" => calls[c] = Idle
<1>1. calls[c] \in {Idle} \cup Rotation \cup Sync \cup Setting
  BY DEF TypeOK
<1> QED
  BY <1>1 DEF Idle, Rotation, Sync, Setting

\* Beginning and ending a request, and moving it on, keep the types of all.
LEMMA CallTypes ==
    ASSUME TypeOK, NEW c \in Calls, NEW call \in Request
    PROVE  /\ Begin(c, call) => calls' \in [Calls -> {Idle} \cup Request]
           /\ End(c) => calls' \in [Calls -> {Idle} \cup Request]
           /\ calls' = [calls EXCEPT ![c] = call]
                => calls' \in [Calls -> {Idle} \cup Request]
BY DEF TypeOK, Request, Begin, End

\* No entry is told apart from the entries there are by its existence.
LEMMA NoEntryIsNone == NoEntry \notin Entry
<1>1. NoEntry.existence = "none"
  BY DEF NoEntry
<1> QED
  BY <1>1 DEF Entry

\* Merging an entry into another gives an entry that is no worse.
LEMMA MergedEntry ==
    ASSUME NEW current \in Entry \cup {NoEntry}, NEW incoming \in Entry
    PROVE  /\ MergePeerEntry(current, incoming) \in Entry
           /\ NoWorse(current, MergePeerEntry(current, incoming))
<1>1. incoming.contact \in Nat /\ incoming # NoEntry
  BY NoEntryIsNone, MeshAssumption DEF Entry
<1>2. CASE current = NoEntry
  <2>1. MergePeerEntry(current, incoming) = [incoming EXCEPT !.existence = "unknown"]
    BY <1>2 DEF MergePeerEntry
  <2>2. [incoming EXCEPT !.existence = "unknown"] \in Entry
    BY DEF Entry
  <2>3. ~Verified(current)
    BY <1>2 DEF NoEntry, Verified
  <2>4. \A after : NoWorse(current, after)
    BY <1>2, <2>3 DEF NoWorse
  <2> QED
    BY <2>1, <2>2, <2>4
<1>3. CASE current # NoEntry
  <2>1. current \in Entry /\ current.contact \in Nat
    BY <1>3, MeshAssumption DEF Entry
  <2>2. \/ /\ MergePeerEntry(current, incoming) = current
        \/ /\ MergePeerEntry(current, incoming) = incoming
           /\ incoming.contact >= current.contact
           /\ Verified(current) => Verified(incoming)
    BY <1>1, <1>3, <2>1 DEF MergePeerEntry
  <2> QED
    BY <1>1, <1>3, <2>1, <2>2 DEF NoWorse
<1> QED
  BY <1>2, <1>3

\* So is the list a synchronisation saves, compared with the one it loaded.
LEMMA MergedList ==
    ASSUME TypeOK, NEW c \in Calls, SavePeerList(c)
    PROVE  /\ peers' \in PeerList
           /\ \A p \in Peers : NoWorse(calls[c].loaded[p], peers'[p])
<1>1. calls[c].loaded \in PeerList /\ calls[c].incoming \in PeerList
  BY Kinds DEF SavePeerList, Sync
<1>2. ASSUME NEW p \in Peers
      PROVE  peers'[p] \in Entry \cup {NoEntry} /\ NoWorse(calls[c].loaded[p], peers'[p])
  <2> DEFINE loaded == calls[c].loaded[p]
             incoming == calls[c].incoming[p]
  <2>1. loaded \in Entry \cup {NoEntry} /\ incoming \in Entry \cup {NoEntry}
    BY <1>1 DEF PeerList
  <2>2. peers'[p] = IF incoming = NoEntry THEN loaded ELSE MergePeerEntry(loaded, incoming)
    BY DEF SavePeerList
  <2>3. CASE incoming = NoEntry
    <3>1. loaded # NoEntry => loaded.contact \in Nat
      BY <2>1, MeshAssumption DEF Entry
    <3> QED
      BY <2>1, <2>2, <2>3, <3>1 DEF NoWorse
  <2>4. CASE incoming # NoEntry
    BY <2>1, <2>2, <2>4, MergedEntry
  <2> QED
    BY <2>3, <2>4
<1>3. peers' = [p \in Peers |-> peers'[p]]
  BY DEF SavePeerList
<1> QED
  BY <1>2, <1>3 DEF PeerList

LEMMA TypeInit == Init => TypeOK
BY DEF Init, TypeOK, PeerList

LEMMA TypeStep == TypeOK /\ [Next]_vars => TypeOK'
<1> SUFFICES ASSUME TypeOK, [Next]_vars
             PROVE  TypeOK'
  OBVIOUS
<1>0. CASE UNCHANGED vars
  BY <1>0 DEF vars, TypeOK
<1>1. ASSUME NEW k \in Keys, WriteOwnership(k)
      PROVE  TypeOK'
  BY <1>1 DEF WriteOwnership, TypeOK
<1>2. ASSUME NEW n \in Nonces, RememberNonce(n) \/ ExpireNonce(n)
      PROVE  TypeOK'
  BY <1>2 DEF RememberNonce, ExpireNonce, TypeOK
<1>3. ASSUME NEW c \in Calls, NEW n \in Nonces, NEW signer \in Keys \cup {Null},
             NEW new \in Keys \cup {Null}, ReadOwnership(c, n, signer, new)
      PROVE  TypeOK'
  <2> DEFINE call == [op |-> "rotate", at |-> "read", seen |-> owner, nonce |-> n,
                      signer |-> signer, new |-> new]
  <2>1. call \in Request
    BY <1>3 DEF ReadOwnership, TypeOK, Rotation, Request
  <2>2. Begin(c, call)
    BY <1>3 DEF ReadOwnership
  <2> HIDE DEF call
  <2>3. calls' \in [Calls -> {Idle} \cup Request]
    BY <2>1, <2>2, CallTypes
  <2> QED
    BY <1>3, <2>3 DEF ReadOwnership, TypeOK, Request
<1>4. ASSUME NEW c \in Calls, NEW incoming \in PeerList, LoadPeerList(c, incoming)
      PROVE  TypeOK'
  <2> DEFINE call == [op |-> "sync", loaded |-> peers, incoming |-> incoming, raced |-> FALSE]
  <2>1. call \in Request
    BY DEF TypeOK, Sync, Request
  <2>2. Begin(c, call)
    BY <1>4 DEF LoadPeerList
  <2> HIDE DEF call
  <2>3. calls' \in [Calls -> {Idle} \cup Request]
    BY <2>1, <2>2, CallTypes
  <2> QED
    BY <1>4, <2>3 DEF LoadPeerList, TypeOK, Request
<1>5. ASSUME NEW c \in Calls, NEW s \in Sources, NEW record \in Privacy,
             GetPrivacy(c, s, record)
      PROVE  TypeOK'
  <2> DEFINE call == [op |-> "privacy", source |-> s, record |-> record, seen |-> privacy[s]]
  <2>1. call \in Request
    BY DEF TypeOK, Setting, Request
  <2>2. Begin(c, call)
    BY <1>5 DEF GetPrivacy
  <2> HIDE DEF call
  <2>3. calls' \in [Calls -> {Idle} \cup Request]
    BY <2>1, <2>2, CallTypes
  <2>4. claimants' \in [Sources -> SUBSET Users]
    BY <1>5 DEF GetPrivacy, TypeOK, Privacy
  <2> QED
    BY <1>5, <2>3, <2>4 DEF GetPrivacy, TypeOK, Request
<1>6. ASSUME NEW c \in Calls, ConsumeNonce(c)
      PROVE  TypeOK'
  <2>1. calls[c] \in Rotation
    BY <1>6, Kinds DEF ConsumeNonce
  <2> DEFINE call == [calls[c] EXCEPT !.at = "accepted"]
             n == calls[c].nonce
  <2>2. call \in Request /\ n \in Nonces
    BY <2>1 DEF Rotation, Request
  <2>3. calls' = [calls EXCEPT ![c] = call] \/ End(c)
    BY <1>6 DEF ConsumeNonce
  <2>4. /\ nonces' = [nonces EXCEPT ![n] = "gone"] \/ UNCHANGED nonces
        /\ \/ accepted' = [accepted EXCEPT ![n] = IF @ < 2 THEN @ + 1 ELSE @]
           \/ UNCHANGED accepted
        /\ UNCHANGED <<owner, peers, privacy, claimants>>
    BY <1>6 DEF ConsumeNonce
  <2> HIDE DEF call, n
  <2>5. calls' \in [Calls -> {Idle} \cup Request]
    BY <2>2, <2>3, CallTypes
  <2>6. nonces' \in [Nonces -> {"unused", "live", "gone"}]
    BY <2>4 DEF TypeOK
  <2>7. accepted' \in [Nonces -> 0 .. 2]
    BY <2>2, <2>4 DEF TypeOK
  <2> QED
    BY <2>4, <2>5, <2>6, <2>7 DEF TypeOK, Request
<1>7. ASSUME NEW c \in Calls, VerifyOwnerSignature(c)
      PROVE  TypeOK'
  <2>1. calls[c] \in Rotation
    BY <1>7, Kinds DEF VerifyOwnerSignature
  <2> DEFINE call == [calls[c] EXCEPT !.at = "verified"]
  <2>2. call \in Request
    BY <2>1 DEF Rotation, Request
  <2>3. calls' = [calls EXCEPT ![c] = call] \/ End(c)
    BY <1>7 DEF VerifyOwnerSignature
  <2> HIDE DEF call
  <2>4. calls' \in [Calls -> {Idle} \cup Request]
    BY <2>2, <2>3, CallTypes
  <2> QED
    BY <1>7, <2>4 DEF VerifyOwnerSignature, TypeOK, Request
<1>8. ASSUME NEW c \in Calls, OverwriteOwnership(c)
      PROVE  TypeOK'
  <2>1. calls[c].new \in Keys \cup {Null}
    BY <1>8, Kinds DEF OverwriteOwnership, Rotation
  <2>2. calls' \in [Calls -> {Idle} \cup Request]
    BY <1>8 DEF OverwriteOwnership, End, TypeOK, Request
  <2> QED
    BY <1>8, <2>1, <2>2 DEF OverwriteOwnership, TypeOK, Request
<1>9. ASSUME NEW c \in Calls, SavePeerList(c)
      PROVE  TypeOK'
  <2>1. peers' \in PeerList
    BY <1>9, MergedList
  <2>2. ASSUME NEW d \in Calls, calls[d].op = "sync"
        PROVE  [calls[d] EXCEPT !.raced = TRUE] \in Request
    BY <2>2, Kinds DEF Sync, Request
  <2>3. calls' \in [Calls -> {Idle} \cup Request]
    BY <1>9, <2>2 DEF SavePeerList, TypeOK, Request
  <2> QED
    BY <1>9, <2>1, <2>3 DEF SavePeerList, TypeOK, Request
<1>10. ASSUME NEW c \in Calls, SetPrivacy(c)
       PROVE  TypeOK'
  <2>1. calls[c].record \in Privacy
    BY <1>10, Kinds DEF SetPrivacy, Setting
  <2>2. calls' \in [Calls -> {Idle} \cup Request]
    BY <1>10 DEF SetPrivacy, End, TypeOK, Request
  <2>3. privacy' \in [Sources -> Privacy \cup {NoPrivacy}]
    BY <1>10, <2>1 DEF SetPrivacy, TypeOK
  <2> QED
    BY <1>10, <2>2, <2>3 DEF SetPrivacy, TypeOK, Request
<1>11. ASSUME NEW c \in Calls, FailRequest(c)
       PROVE  TypeOK'
  BY <1>11 DEF FailRequest, End, TypeOK
<1>12. CASE Crash
  BY <1>12 DEF Crash, TypeOK
<1> QED
  BY <1>0, <1>1, <1>2, <1>3, <1>4, <1>5, <1>6, <1>7, <1>8, <1>9, <1>10, <1>11, <1>12
     DEF Next, Step

\* Type correctness of the mesh model (mesh.py, federation.py).
THEOREM TypeCorrect == Spec => []TypeOK
BY TypeInit, TypeStep, PTL DEF Spec

(***************************************************************************)
(* Nonces and ownership.  A nonce once accepted is gone, and a rotation    *)
(* that has been accepted holds one that is.                               *)
(***************************************************************************)
AcceptedIsGone == \A n \in Nonces : accepted[n] # 0 => accepted[n] = 1 /\ nonces[n] = "gone"

RotationsVerified ==
    \A c \in Calls : calls[c].op = "rotate" =>
        /\ calls[c].at \in {"accepted", "verified"} => nonces[calls[c].nonce] = "gone"
        /\ calls[c].at = "verified" => calls[c].signer = calls[c].seen

RotationInv == TypeOK /\ AcceptedIsGone /\ RotationsVerified

\* A step leaves every nonce as it is, makes it live or makes it gone, and never
\* gives it back.
LEMMA GoneForEver ==
    ASSUME TypeOK, [Next]_vars, NEW n \in Nonces, nonces[n] = "gone"
    PROVE  nonces'[n] = "gone"
<1>1. UNCHANGED nonces \/ (\E m \in Nonces : RememberNonce(m) \/ ExpireNonce(m))
        \/ (\E c \in Calls : ConsumeNonce(c))
  BY DEF Next, Step, vars, WriteOwnership, ReadOwnership, LoadPeerList, GetPrivacy,
         VerifyOwnerSignature, OverwriteOwnership, SavePeerList, SetPrivacy, FailRequest, Crash
<1> QED
  BY <1>1 DEF TypeOK, RememberNonce, ExpireNonce, ConsumeNonce

\* What a step does to a request that is a rotation afterwards: it has just been
\* read, it is as it was, its nonce was accepted, or its signature verified.
RotationMoves(c) ==
    \/ calls'[c] = calls[c]
    \/ calls'[c].at = "read"
    \/ ConsumeNonce(c) /\ calls'[c] = [calls[c] EXCEPT !.at = "accepted"]
    \/ /\ VerifyOwnerSignature(c) /\ calls[c].signer = calls[c].seen
       /\ calls'[c] = [calls[c] EXCEPT !.at = "verified"]

LEMMA RotationStep ==
    ASSUME TypeOK, [Next]_vars, NEW c \in Calls, calls'[c].op = "rotate"
    PROVE  RotationMoves(c)
<1>0. CASE UNCHANGED vars
  BY <1>0 DEF vars, RotationMoves
<1>1. CASE UNCHANGED calls
  BY <1>1 DEF RotationMoves
<1>2. ASSUME NEW d \in Calls, NEW n \in Nonces, NEW signer \in Keys \cup {Null},
             NEW new \in Keys \cup {Null}, ReadOwnership(d, n, signer, new)
      PROVE  RotationMoves(c)
  BY <1>2 DEF ReadOwnership, Begin, TypeOK, RotationMoves
<1>3. ASSUME NEW d \in Calls,
             \/ \E incoming \in PeerList : LoadPeerList(d, incoming)
             \/ \E s \in Sources, record \in Privacy : GetPrivacy(d, s, record)
      PROVE  RotationMoves(c)
  BY <1>3 DEF LoadPeerList, GetPrivacy, Begin, TypeOK, RotationMoves
<1>4. ASSUME NEW d \in Calls, End(d)
      PROVE  RotationMoves(c)
  BY <1>4 DEF End, Idle, TypeOK, RotationMoves
<1>5. ASSUME NEW d \in Calls, ConsumeNonce(d)
      PROVE  RotationMoves(c)
  <2>1. CASE End(d)
    BY <1>4, <2>1
  <2>2. CASE ~End(d)
    <3>1. calls' = [calls EXCEPT ![d].at = "accepted"]
      BY <1>5, <2>2 DEF ConsumeNonce
    <3> QED
      BY <1>5, <3>1 DEF TypeOK, RotationMoves
  <2> QED
    BY <2>1, <2>2
<1>6. ASSUME NEW d \in Calls, VerifyOwnerSignature(d)
      PROVE  RotationMoves(c)
  <2>1. CASE End(d)
    BY <1>4, <2>1
  <2>2. CASE ~End(d)
    <3>1. calls' = [calls EXCEPT ![d].at = "verified"] /\ calls[d].signer = calls[d].seen
      BY <1>6, <2>2 DEF VerifyOwnerSignature
    <3> QED
      BY <1>6, <3>1 DEF TypeOK, RotationMoves
  <2> QED
    BY <2>1, <2>2
<1>7. ASSUME NEW d \in Calls, OverwriteOwnership(d) \/ SetPrivacy(d) \/ FailRequest(d)
      PROVE  RotationMoves(c)
  BY <1>4, <1>7 DEF OverwriteOwnership, SetPrivacy, FailRequest
<1>8. ASSUME NEW d \in Calls, SavePeerList(d)
      PROVE  RotationMoves(c)
  <2>1. calls'[c] = IF c = d THEN Idle
                    ELSE IF calls[c].op = "sync" THEN [calls[c] EXCEPT !.raced = TRUE]
                    ELSE calls[c]
    BY <1>8 DEF SavePeerList
  <2>2. calls[c].op = "sync" => [calls[c] EXCEPT !.raced = TRUE].op = "sync"
    BY Kinds DEF Sync
  <2> QED
    BY <2>1, <2>2 DEF Idle, RotationMoves
<1>9. CASE Crash
  BY <1>9 DEF Crash, Idle, TypeOK, RotationMoves
<1>10. ASSUME NEW k \in Keys, WriteOwnership(k)
       PROVE  RotationMoves(c)
  BY <1>1, <1>10 DEF WriteOwnership
<1>11. ASSUME NEW n \in Nonces, RememberNonce(n) \/ ExpireNonce(n)
       PROVE  RotationMoves(c)
  BY <1>1, <1>11 DEF RememberNonce, ExpireNonce
<1> QED
  BY <1>0, <1>2, <1>3, <1>5, <1>6, <1>7, <1>8, <1>9, <1>10, <1>11 DEF Next, Step

LEMMA RotationInit == Init => RotationInv
BY TypeInit DEF Init, RotationInv, AcceptedIsGone, RotationsVerified, Idle

LEMMA RotationInvStep == RotationInv /\ [Next]_vars => RotationInv'
<1> SUFFICES ASSUME RotationInv, [Next]_vars
             PROVE  RotationInv'
  OBVIOUS
<1>1. TypeOK /\ TypeOK'
  BY TypeStep DEF RotationInv
<1>2. AcceptedIsGone'
  <2> SUFFICES ASSUME NEW n \in Nonces, accepted'[n] # 0
               PROVE  accepted'[n] = 1 /\ nonces'[n] = "gone"
    BY DEF AcceptedIsGone
  <2>1. CASE accepted'[n] = accepted[n]
    BY <1>1, <2>1, GoneForEver DEF RotationInv, AcceptedIsGone
  <2>2. CASE accepted'[n] # accepted[n]
    <3>1. PICK c \in Calls : ConsumeNonce(c)
      BY <2>2 DEF Next, Step, vars, WriteOwnership, RememberNonce, ExpireNonce, ReadOwnership,
                  LoadPeerList, GetPrivacy, VerifyOwnerSignature, OverwriteOwnership,
                  SavePeerList, SetPrivacy, FailRequest, Crash
    <3>2. /\ nonces[n] = "live" /\ nonces' = [nonces EXCEPT ![n] = "gone"]
          /\ accepted' = [accepted EXCEPT ![n] = IF @ < 2 THEN @ + 1 ELSE @]
      BY <1>1, <2>2, <3>1 DEF ConsumeNonce, TypeOK
    <3>3. accepted[n] = 0
      BY <3>2 DEF RotationInv, AcceptedIsGone
    <3> QED
      BY <1>1, <3>2, <3>3 DEF TypeOK
  <2> QED
    BY <2>1, <2>2
<1>3. RotationsVerified'
  <2> SUFFICES ASSUME NEW c \in Calls, calls'[c].op = "rotate"
               PROVE  /\ calls'[c].at \in {"accepted", "verified"}
                           => nonces'[calls'[c].nonce] = "gone"
                      /\ calls'[c].at = "verified" => calls'[c].signer = calls'[c].seen
    BY DEF RotationsVerified
  <2>1. RotationMoves(c)
    BY <1>1, RotationStep
  <2>2. CASE calls'[c] = calls[c]
    <3>1. calls[c].nonce \in Nonces
      BY <1>1, <2>2, Kinds DEF Rotation
    <3> QED
      BY <1>1, <2>2, <3>1, GoneForEver DEF RotationInv, RotationsVerified
  <2>3. CASE calls'[c].at = "read"
    BY <2>3
  <2>4. CASE ConsumeNonce(c) /\ calls'[c] = [calls[c] EXCEPT !.at = "accepted"]
    <3>1. calls[c] \in Rotation
      BY <1>1, <2>4, Kinds DEF ConsumeNonce
    <3>2. calls'[c].at = "accepted" /\ calls'[c].nonce = calls[c].nonce
      BY <2>4, <3>1 DEF Rotation
    <3>3. calls'[c] # Idle
      BY DEF Idle
    <3>4. nonces[calls[c].nonce] = "live" /\ nonces' = [nonces EXCEPT ![calls[c].nonce] = "gone"]
      BY <1>1, <2>4, <3>3 DEF ConsumeNonce, End, TypeOK
    <3> QED
      BY <1>1, <3>1, <3>2, <3>4 DEF TypeOK, Rotation
  <2>5. CASE /\ VerifyOwnerSignature(c) /\ calls[c].signer = calls[c].seen
             /\ calls'[c] = [calls[c] EXCEPT !.at = "verified"]
    <3>1. calls[c] \in Rotation /\ calls[c].at = "accepted" /\ calls[c].op = "rotate"
      BY <1>1, <2>5, Kinds DEF VerifyOwnerSignature
    <3>2. /\ calls'[c].nonce = calls[c].nonce /\ calls'[c].signer = calls[c].signer
          /\ calls'[c].seen = calls[c].seen
      BY <2>5, <3>1 DEF Rotation
    <3>3. nonces[calls[c].nonce] = "gone" /\ calls[c].nonce \in Nonces
      BY <3>1 DEF RotationInv, RotationsVerified, Rotation
    <3> QED
      BY <1>1, <2>5, <3>2, <3>3, GoneForEver
  <2> QED
    BY <2>1, <2>2, <2>3, <2>4, <2>5 DEF RotationMoves
<1> QED
  BY <1>1, <1>2, <1>3 DEF RotationInv

LEMMA RotationInvariant == Spec => []RotationInv
BY RotationInit, RotationInvStep, PTL DEF Spec

\* However many requests carry a nonce, one at most is accepted with it
\* (consume_nonce).
THEOREM NonceUsedOnce == Spec => []NonceAcceptedOnce
<1>1. RotationInv => NonceAcceptedOnce
  BY DEF RotationInv, AcceptedIsGone, NonceAcceptedOnce, TypeOK
<1> QED
  BY <1>1, RotationInvariant, PTL

\* An owner gives way only to a rotation whose nonce is used and whose signature
\* verified under the key of the owner it read (rotate_ownership).
THEOREM OwnershipRotates == Spec => OwnerChangesHands
<1> DEFINE Change ==
      owner # Null /\ owner' # owner =>
         \E c \in Calls : /\ calls[c].op = "rotate" /\ calls[c].at = "verified"
                          /\ owner' = calls[c].new
                          /\ calls[c].signer = calls[c].seen
                          /\ nonces[calls[c].nonce] = "gone"
<1>1. RotationInv /\ [Next]_vars => [Change]_vars
  <2> SUFFICES ASSUME RotationInv, [Next]_vars, owner # Null, owner' # owner
               PROVE  Change
    OBVIOUS
  <2>1. PICK c \in Calls : OverwriteOwnership(c)
    BY DEF Next, Step, vars, WriteOwnership, RememberNonce, ExpireNonce, ReadOwnership,
           LoadPeerList, GetPrivacy, VerifyOwnerSignature, ConsumeNonce,
           SavePeerList, SetPrivacy, FailRequest, Crash
  <2> QED
    BY <2>1 DEF OverwriteOwnership, RotationInv, RotationsVerified
<1>2. [][Change]_vars <=> OwnerChangesHands
  BY DEF OwnerChangesHands
<1> HIDE DEF Change
<1> QED
  BY <1>1, <1>2, RotationInvariant, PTL DEF Spec

(***************************************************************************)
(* Peers.  A synchronisation that no other one has overtaken has loaded    *)
(* the list that is there.                                                 *)
(***************************************************************************)
UnracedIsFresh ==
    \A c \in Calls : calls[c].op = "sync" /\ ~calls[c].raced => calls[c].loaded = peers

LEMMA UnracedInit == Init => UnracedIsFresh
BY DEF Init, UnracedIsFresh, Idle

LEMMA UnracedStep == TypeOK /\ UnracedIsFresh /\ [Next]_vars => UnracedIsFresh'
<1> SUFFICES ASSUME TypeOK, UnracedIsFresh, [Next]_vars,
                    NEW c \in Calls, calls'[c].op = "sync", ~calls'[c].raced
             PROVE  calls'[c].loaded = peers'
  BY DEF UnracedIsFresh
<1>0. CASE UNCHANGED vars
  BY <1>0 DEF vars, UnracedIsFresh
<1>1. CASE UNCHANGED <<calls, peers>>
  BY <1>1 DEF UnracedIsFresh
<1>2. ASSUME NEW d \in Calls, NEW incoming \in PeerList, LoadPeerList(d, incoming)
      PROVE  calls'[c].loaded = peers'
  BY <1>2 DEF LoadPeerList, Begin, TypeOK, UnracedIsFresh
<1>3. ASSUME NEW d \in Calls, UNCHANGED peers,
             \/ End(d)
             \/ \E call : /\ call.op # "sync"
                          /\ Begin(d, call) \/ calls' = [calls EXCEPT ![d] = call]
      PROVE  calls'[c].loaded = peers'
  BY <1>3 DEF Begin, End, Idle, TypeOK, UnracedIsFresh
<1>4. ASSUME NEW d \in Calls,
             \/ \E n \in Nonces, signer, new \in Keys \cup {Null} :
                   ReadOwnership(d, n, signer, new)
             \/ \E s \in Sources, record \in Privacy : GetPrivacy(d, s, record)
      PROVE  calls'[c].loaded = peers'
  <2>1. CASE \E n \in Nonces, signer, new \in Keys \cup {Null} :
                ReadOwnership(d, n, signer, new)
    <3>1. PICK n \in Nonces, signer \in Keys \cup {Null}, new \in Keys \cup {Null} :
              ReadOwnership(d, n, signer, new)
      BY <2>1
    <3> DEFINE call == [op |-> "rotate", at |-> "read", seen |-> owner, nonce |-> n,
                        signer |-> signer, new |-> new]
    <3>2. call.op # "sync" /\ Begin(d, call) /\ UNCHANGED peers
      BY <3>1 DEF ReadOwnership
    <3> QED
      BY <1>3, <3>2
  <2>2. CASE \E s \in Sources, record \in Privacy : GetPrivacy(d, s, record)
    <3>1. PICK s \in Sources, record \in Privacy : GetPrivacy(d, s, record)
      BY <2>2
    <3> DEFINE call == [op |-> "privacy", source |-> s, record |-> record,
                        seen |-> privacy[s]]
    <3>2. call.op # "sync" /\ Begin(d, call) /\ UNCHANGED peers
      BY <3>1 DEF GetPrivacy
    <3> QED
      BY <1>3, <3>2
  <2> QED
    BY <1>4, <2>1, <2>2
<1>5. ASSUME NEW d \in Calls, ConsumeNonce(d) \/ VerifyOwnerSignature(d)
      PROVE  calls'[c].loaded = peers'
  <2>1. UNCHANGED peers /\ calls[d].op = "rotate"
    BY <1>5 DEF ConsumeNonce, VerifyOwnerSignature
  <2>2. calls[d] \in Rotation
    BY <2>1, Kinds
  <2>3. PICK at \in {"accepted", "verified"} :
            calls' = [calls EXCEPT ![d] = [calls[d] EXCEPT !.at = at]] \/ End(d)
    BY <1>5 DEF ConsumeNonce, VerifyOwnerSignature
  <2>4. [calls[d] EXCEPT !.at = at].op # "sync"
    BY <2>2 DEF Rotation
  <2> QED
    BY <1>3, <2>1, <2>3, <2>4
<1>6. ASSUME NEW d \in Calls, OverwriteOwnership(d) \/ SetPrivacy(d) \/ FailRequest(d)
      PROVE  calls'[c].loaded = peers'
  BY <1>3, <1>6 DEF OverwriteOwnership, SetPrivacy, FailRequest
<1>7. ASSUME NEW d \in Calls, SavePeerList(d)
      PROVE  FALSE
  <2>1. calls'[c] = IF c = d THEN Idle
                    ELSE IF calls[c].op = "sync" THEN [calls[c] EXCEPT !.raced = TRUE]
                    ELSE calls[c]
    BY <1>7 DEF SavePeerList
  <2>2. calls[c].op = "sync" => [calls[c] EXCEPT !.raced = TRUE].raced
    BY Kinds DEF Sync
  <2> QED
    BY <2>1, <2>2 DEF Idle
<1>8. CASE Crash
  BY <1>8 DEF Crash, Idle
<1>9. ASSUME NEW k \in Keys, WriteOwnership(k)
      PROVE  calls'[c].loaded = peers'
  BY <1>1, <1>9 DEF WriteOwnership
<1>10. ASSUME NEW n \in Nonces, RememberNonce(n) \/ ExpireNonce(n)
       PROVE  calls'[c].loaded = peers'
  BY <1>1, <1>10 DEF RememberNonce, ExpireNonce
<1> QED
  BY <1>0, <1>2, <1>4, <1>5, <1>6, <1>7, <1>8, <1>9, <1>10 DEF Next, Step

\* A synchronisation that no other one overtook forgets no peer, takes no
\* verified existence back, and makes no contact older (mesh_peers_sync).
THEOREM PeersAreKept == Spec => PeersKeptUnlessRaced
<1> DEFINE Kept == \A c \in Calls :
             calls[c].op = "sync" /\ calls'[c] = Idle /\ ~calls[c].raced
               => \A p \in Peers : NoWorse(peers[p], peers'[p])
<1>1. TypeOK /\ UnracedIsFresh /\ [Next]_vars => [Kept]_vars
  <2> SUFFICES ASSUME TypeOK, UnracedIsFresh, [Next]_vars,
                      NEW c \in Calls, calls[c].op = "sync", calls'[c] = Idle, ~calls[c].raced,
                      NEW p \in Peers
               PROVE  NoWorse(peers[p], peers'[p])
    OBVIOUS
  <2>1. CASE UNCHANGED peers
    <3>1. peers[p] # NoEntry => peers[p].contact \in Nat
      BY MeshAssumption DEF TypeOK, PeerList, Entry
    <3> QED
      BY <2>1, <3>1 DEF NoWorse
  <2>2. CASE ~UNCHANGED peers
    <3>1. PICK d \in Calls : SavePeerList(d)
      BY <2>2 DEF Next, Step, vars, WriteOwnership, RememberNonce, ExpireNonce, ReadOwnership,
                  LoadPeerList, GetPrivacy, VerifyOwnerSignature, ConsumeNonce,
                  OverwriteOwnership, SetPrivacy, FailRequest, Crash
    <3>2. c = d
      <4>1. c # d => calls'[c] = [calls[c] EXCEPT !.raced = TRUE]
        BY <3>1 DEF SavePeerList
      <4>2. [calls[c] EXCEPT !.raced = TRUE].op = "sync"
        BY Kinds DEF Sync
      <4> QED
        BY <4>1, <4>2 DEF Idle
    <3>3. calls[c].loaded = peers
      BY DEF UnracedIsFresh
    <3> QED
      BY <3>1, <3>2, <3>3, MergedList
  <2> QED
    BY <2>1, <2>2
<1>2. [][Kept]_vars <=> PeersKeptUnlessRaced
  BY DEF PeersKeptUnlessRaced
<1> HIDE DEF Kept
<1> QED
  BY <1>1, <1>2, TypeCorrect, TypeInit, UnracedInit, UnracedStep, PTL DEF Spec

(***************************************************************************)
(* Privacy.  Whoever is about to write a source's record is entitled to    *)
(* it: the record was missing when its request read it, or was its own.    *)
(***************************************************************************)
SettersEntitled ==
    \A c \in Calls : calls[c].op = "privacy" =>
        \/ calls[c].seen = NoPrivacy /\ calls[c].record.owner \in claimants[calls[c].source]
        \/ calls[c].seen # NoPrivacy /\ calls[c].seen.owner \in claimants[calls[c].source]

PrivacyInv == TypeOK /\ OwnedByFirstClaimant /\ SettersEntitled

LEMMA PrivacyInit == Init => PrivacyInv
BY TypeInit DEF Init, PrivacyInv, OwnedByFirstClaimant, SettersEntitled, Idle

\* Nobody is struck from the claimants.
LEMMA ClaimantsStay ==
    ASSUME TypeOK, [Next]_vars, NEW s \in Sources
    PROVE  claimants[s] \subseteq claimants'[s]
<1>1. UNCHANGED claimants
        \/ (\E c \in Calls, t \in Sources, record \in Privacy : GetPrivacy(c, t, record))
  BY DEF Next, Step, vars, WriteOwnership, RememberNonce, ExpireNonce, ReadOwnership,
         LoadPeerList, VerifyOwnerSignature, ConsumeNonce, SavePeerList,
         OverwriteOwnership, SetPrivacy, FailRequest, Crash
<1> QED
  BY <1>1 DEF TypeOK, GetPrivacy

\* A request to set privacy was either there or has just been read.
LEMMA SettingStep ==
    ASSUME TypeOK, [Next]_vars, NEW c \in Calls, calls'[c].op = "privacy"
    PROVE  \/ calls'[c] = calls[c]
           \/ \E s \in Sources, record \in Privacy : GetPrivacy(c, s, record)
<1> DEFINE Kept == calls'[c] = calls[c]
<1>0. CASE UNCHANGED calls
  BY <1>0
<1>1. ASSUME NEW d \in Calls,
             \/ End(d)
             \/ \E call : /\ call.op # "privacy"
                          /\ Begin(d, call) \/ calls' = [calls EXCEPT ![d] = call]
      PROVE  Kept
  BY <1>1 DEF Begin, End, Idle, TypeOK
<1>2. ASSUME NEW d \in Calls, NEW n \in Nonces, NEW signer \in Keys \cup {Null},
             NEW new \in Keys \cup {Null}, ReadOwnership(d, n, signer, new)
      PROVE  Kept
  <2> DEFINE call == [op |-> "rotate", at |-> "read", seen |-> owner, nonce |-> n,
                      signer |-> signer, new |-> new]
  <2>1. call.op # "privacy" /\ Begin(d, call)
    BY <1>2 DEF ReadOwnership
  <2> QED
    BY <1>1, <2>1
<1>3. ASSUME NEW d \in Calls, NEW incoming \in PeerList, LoadPeerList(d, incoming)
      PROVE  Kept
  <2> DEFINE call == [op |-> "sync", loaded |-> peers, incoming |-> incoming, raced |-> FALSE]
  <2>1. call.op # "privacy" /\ Begin(d, call)
    BY <1>3 DEF LoadPeerList
  <2> QED
    BY <1>1, <2>1
<1>4. ASSUME NEW d \in Calls, ConsumeNonce(d) \/ VerifyOwnerSignature(d)
      PROVE  Kept
  <2>1. calls[d] \in Rotation
    BY <1>4, Kinds DEF ConsumeNonce, VerifyOwnerSignature
  <2>2. PICK at \in {"accepted", "verified"} :
            calls' = [calls EXCEPT ![d] = [calls[d] EXCEPT !.at = at]] \/ End(d)
    BY <1>4 DEF ConsumeNonce, VerifyOwnerSignature
  <2>3. [calls[d] EXCEPT !.at = at].op # "privacy"
    BY <2>1 DEF Rotation
  <2> QED
    BY <1>1, <2>2, <2>3
<1>5. ASSUME NEW d \in Calls, OverwriteOwnership(d) \/ SetPrivacy(d) \/ FailRequest(d)
      PROVE  Kept
  BY <1>1, <1>5 DEF OverwriteOwnership, SetPrivacy, FailRequest
<1>6. ASSUME NEW d \in Calls, SavePeerList(d)
      PROVE  Kept
  <2>1. calls'[c] = IF c = d THEN Idle
                    ELSE IF calls[c].op = "sync" THEN [calls[c] EXCEPT !.raced = TRUE]
                    ELSE calls[c]
    BY <1>6 DEF SavePeerList
  <2>2. calls[c].op = "sync" => [calls[c] EXCEPT !.raced = TRUE].op = "sync"
    BY Kinds DEF Sync
  <2> QED
    BY <2>1, <2>2 DEF Idle
<1>7. CASE Crash
  BY <1>7 DEF Crash, Idle
<1>8. ASSUME NEW d \in Calls, NEW s \in Sources, NEW record \in Privacy,
             GetPrivacy(d, s, record)
      PROVE  Kept \/ GetPrivacy(c, s, record)
  BY <1>8 DEF GetPrivacy, Begin, TypeOK
<1> QED
  BY <1>0, <1>2, <1>3, <1>4, <1>5, <1>6, <1>7, <1>8
     DEF Next, Step, vars, WriteOwnership, RememberNonce, ExpireNonce

LEMMA PrivacyStep == PrivacyInv /\ [Next]_vars => PrivacyInv'
<1> SUFFICES ASSUME PrivacyInv, [Next]_vars
             PROVE  PrivacyInv'
  OBVIOUS
<1>1. TypeOK /\ TypeOK'
  BY TypeStep DEF PrivacyInv
<1>2. OwnedByFirstClaimant'
  <2> SUFFICES ASSUME NEW s \in Sources, privacy'[s] # NoPrivacy
               PROVE  privacy'[s].owner \in claimants'[s]
    BY DEF OwnedByFirstClaimant
  <2>1. claimants[s] \subseteq claimants'[s]
    BY <1>1, ClaimantsStay
  <2>2. CASE privacy'[s] = privacy[s]
    BY <2>1, <2>2 DEF PrivacyInv, OwnedByFirstClaimant
  <2>3. CASE privacy'[s] # privacy[s]
    <3>1. PICK c \in Calls : SetPrivacy(c)
      BY <2>3 DEF Next, Step, vars, WriteOwnership, RememberNonce, ExpireNonce, ReadOwnership,
                  LoadPeerList, VerifyOwnerSignature, ConsumeNonce, SavePeerList,
                  OverwriteOwnership, GetPrivacy, FailRequest, Crash
    <3>2. /\ calls[c].op = "privacy"
          /\ calls[c].seen = NoPrivacy \/ calls[c].seen.owner = calls[c].record.owner
          /\ privacy' = [privacy EXCEPT ![calls[c].source] = calls[c].record]
      BY <2>3, <3>1 DEF SetPrivacy
    <3>3. s = calls[c].source /\ privacy'[s] = calls[c].record
      BY <1>1, <2>3, <3>2 DEF TypeOK
    <3>4. calls[c].record.owner \in claimants[s]
      BY <3>2, <3>3 DEF PrivacyInv, SettersEntitled
    <3> QED
      BY <2>1, <3>3, <3>4
  <2> QED
    BY <2>2, <2>3
<1>3. SettersEntitled'
  <2> SUFFICES ASSUME NEW c \in Calls, calls'[c].op = "privacy"
               PROVE  LET call == calls'[c]
                      IN  \/ /\ call.seen = NoPrivacy
                             /\ call.record.owner \in claimants'[call.source]
                          \/ /\ call.seen # NoPrivacy
                             /\ call.seen.owner \in claimants'[call.source]
    BY DEF SettersEntitled
  <2>1. CASE calls'[c] = calls[c]
    <3>1. calls[c].source \in Sources
      BY <1>1, <2>1, Kinds DEF Setting
    <3>2. claimants[calls[c].source] \subseteq claimants'[calls[c].source]
      BY <1>1, <3>1, ClaimantsStay
    <3> QED
      BY <2>1, <3>2 DEF PrivacyInv, SettersEntitled
  <2>2. ASSUME NEW s \in Sources, NEW record \in Privacy, GetPrivacy(c, s, record)
        PROVE  LET call == calls'[c]
               IN  \/ /\ call.seen = NoPrivacy
                      /\ call.record.owner \in claimants'[call.source]
                   \/ /\ call.seen # NoPrivacy
                      /\ call.seen.owner \in claimants'[call.source]
    <3>1. calls'[c] = [op |-> "privacy", source |-> s, record |-> record, seen |-> privacy[s]]
      BY <1>1, <2>2 DEF GetPrivacy, Begin, TypeOK
    <3>2. CASE privacy[s] = NoPrivacy
      <4>1. record.owner \in claimants'[s]
        BY <1>1, <2>2, <3>2 DEF GetPrivacy, TypeOK
      <4> QED
        BY <3>1, <3>2, <4>1
    <3>3. CASE privacy[s] # NoPrivacy
      <4>1. privacy[s].owner \in claimants[s]
        BY <3>3 DEF PrivacyInv, OwnedByFirstClaimant
      <4>2. privacy[s].owner \in claimants'[s]
        BY <1>1, <4>1, ClaimantsStay
      <4> QED
        BY <3>1, <3>3, <4>2
    <3> QED
      BY <3>2, <3>3
  <2> QED
    BY <1>1, <2>1, <2>2, SettingStep
<1> QED
  BY <1>1, <1>2, <1>3 DEF PrivacyInv

\* Whoever owns a data source found it without an owner (set_privacy).
THEOREM FirstClaimantOwns == Spec => []OwnedByFirstClaimant
<1>1. PrivacyInv => OwnedByFirstClaimant
  BY DEF PrivacyInv
<1> QED
  BY <1>1, PrivacyInit, PrivacyStep, PTL DEF Spec
=============================================================================
