------------------------- MODULE MCCounterService -------------------------
(***************************************************************************)
(* The registrations of functions.c and hash functions for TLC.            *)
(***************************************************************************)
EXTENDS CounterService

FunctionMaps == << <<"/get_and_increment_counter", "get_and_increment_counter">>,
                   <<"/get_counter", "get_counter">>,
                   <<"/reset_counter", "reset_counter">> >>

\* djb2 of the URIs modulo 23 * 11, which is good for tables of 23 and 11 cells.
Djb2 == [u \in Uris |-> CASE u = "/get_and_increment_counter" -> 222
                           [] u = "/get_counter" -> 159
                           [] u = "/reset_counter" -> 55
                           [] u = "/" -> 14]

\* The real one; one with which a URI that is not registered collides; and the one
\* with which all do.
HashFunctions ==
  {Djb2, [Djb2 EXCEPT !["/"] = Djb2["/get_counter"]], [u \in Uris |-> 15]}

\* With these the last cell stays free.
ASSUME LastCellsFree == RoomAtTheEnd
=============================================================================
