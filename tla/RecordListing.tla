---------------------------- MODULE RecordListing ----------------------------
(***************************************************************************)
(* What an export promises: its answer has every matching record that was  *)
(* stored when it was asked for, and none that is not stored and matching  *)
(* when it is given.  Nothing is said of pages.                            *)
(***************************************************************************)
CONSTANTS
    Exports,    \* requests that may be under way
    Queries,    \* what may be asked
    Null        \* no query yet

VARIABLES
    matching,   \* for each query, the stored records it matches
    listings    \* for each request, what was asked, and the answer

NoListing == [status |-> "idle", query |-> Null, base |-> {}, result |-> {}]

Init ==
    /\ \A q \in Queries : matching[q] = {}
    /\ listings = [e \in Exports |-> NoListing]

\* Records are added and never removed.
Store ==
    /\ \A q \in Queries : matching[q] \subseteq matching'[q]
    /\ UNCHANGED listings

Ask(e) ==
    /\ listings[e].status = "idle"
    /\ \E q \in Queries :
         listings' = [listings EXCEPT ![e] =
           [status |-> "paging", query |-> q, base |-> matching[q], result |-> {}]]
    /\ UNCHANGED matching

Answer(e) ==
    /\ listings[e].status = "paging"
    /\ listings' = [listings EXCEPT ![e].status = "done",
                                    ![e].result = listings'[e].result]
    /\ listings[e].base \subseteq listings'[e].result
    /\ listings'[e].result \subseteq matching[listings[e].query]
    /\ UNCHANGED matching

Fail ==
    /\ \E S \in SUBSET {e \in Exports : listings[e].status = "paging"} :
         listings' = [e \in Exports |->
           IF e \in S THEN [listings[e] EXCEPT !.status = "failed"] ELSE listings[e]]
    /\ UNCHANGED matching

Next == Store \/ Fail \/ \E e \in Exports : Ask(e) \/ Answer(e)

Spec == Init /\ [][Next]_<<matching, listings>>
=============================================================================
