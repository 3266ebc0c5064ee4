--------------------------- MODULE CounterObject ---------------------------
(***************************************************************************)
(* What the counter service promises its clients: one counter, on which    *)
(* each request takes effect at one instant between call and return.       *)
(***************************************************************************)
EXTENDS Integers

CONSTANTS
  Clients,
  NotFound   \* the answer to a request that is none of the three

VARIABLES
  value,   \* the counter
  call     \* call[c]: what client c is waiting for or has been answered

Ops == {"increment", "get", "reset", "other"}
Idle == [state |-> "idle"]
Called(op) == [state |-> "called", op |-> op]
Done(res) == [state |-> "done", res |-> res]

ObjInit == value = 1 /\ call = [c \in Clients |-> Idle]

Call(c) ==
  /\ call[c] = Idle
  /\ \E op \in Ops : call' = [call EXCEPT ![c] = Called(op)]
  /\ UNCHANGED value

\* The request takes effect.
Effect(c, op) ==
  /\ call[c] = Called(op)
  /\ value' = CASE op = "increment" -> value + 1
                [] op = "reset" -> 1
                [] OTHER -> value
  /\ call' = [call EXCEPT ![c] =
               Done(CASE op = "reset" -> 1
                      [] op = "other" -> NotFound
                      [] OTHER -> value)]

ReturnCall(c) ==
  /\ call[c].state = "done"
  /\ call' = [call EXCEPT ![c] = Idle]
  /\ UNCHANGED value

ObjNext ==
  \E c \in Clients : Call(c) \/ ReturnCall(c) \/ \E op \in Ops : Effect(c, op)

ObjSpec == ObjInit /\ [][ObjNext]_<<value, call>>
=============================================================================
