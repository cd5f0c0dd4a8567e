------------------------------ MODULE MCStartup ------------------------------
(* Small instances of Startup: an empty database, and two that an app older *)
(* than the counters left behind, with a gap in their ids: one made by      *)
(* create_all(), one at revision 0001.                                      *)
EXTENDS Startup

Empty == [tables |-> FALSE, revision |-> "none", ids |-> {}]

EmptyDatabase == {Empty}

AnyDatabase == { Empty,
                 [tables |-> TRUE, revision |-> "none", ids |-> {1, 3}],
                 [tables |-> TRUE, revision |-> "0001", ids |-> {2}],
                 [tables |-> TRUE, revision |-> "0001", ids |-> {}] }
=============================================================================
