-------------------------- MODULE MCLiftoffHistory --------------------------
(***************************************************************************)
(* The devices of MCLiftoff, with the history of the searches.             *)
(***************************************************************************)
EXTENDS MCLiftoff, LiftoffHistory

HistorySetUp ==
    /\ SetUp
    /\ searched = [o \in Outputs |-> NothingSearched]

HistorySpec == HistorySetUp /\ [][HNext]_hvars
=============================================================================
