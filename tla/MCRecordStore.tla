---------------------------- MODULE MCRecordStore ----------------------------
(***************************************************************************)
(* The record store on a small instance: three lines in all, logs of two  *)
(* instants so that one can arrive before, at and after a cursor; ids that *)
(* do not sort as they were given; pages of one record.                    *)
(***************************************************************************)
EXTENDS RecordStore

LineOf(kind, ts) == [kind |-> kind, ts |-> ts, container |-> "app"]

MCLines == {LineOf("log", 1), LineOf("log", 2), LineOf("metric", 1),
            LineOf("log", Null), LineOf("other", 1), LineOf("malformed", 1)}

MCQueries == {[kind |-> "log", from |-> 1, to |-> 2, container |-> Null],
              [kind |-> "metric", from |-> 1, to |-> 1, container |-> "app"]}

MCIdRank == [i \in Positions |-> CASE i = 1 -> 2 [] i = 2 -> 1 [] OTHER -> i]
=============================================================================
