------------------------------ MODULE WebWrite ------------------------------
(***************************************************************************)
(* mg_write of the embedded server, civetweb.c, and the loops below it,    *)
(* push_all and push: the calls a worker makes on one connection, with and *)
(* without throttle, while sends are short or fail and the server may be   *)
(* stopped.  The requests of a connection may have different throttles;    *)
(* what was sent "this second" is remembered from one to the next.         *)
(***************************************************************************)
EXTENDS Integers, Sequences

CONSTANTS
  Lengths,    \* the lengths that are written
  Throttles,  \* of the requests of a connection; 0 is none
  MaxCalls,   \* bound: calls of mg_write
  MaxNow      \* bound: seconds

VARIABLES
  throttle, last_throttle_time, last_throttle_bytes,   \* of the connection
  now,          \* time(NULL)
  stop_flag,
  call,         \* the present call: pc, len, total, allowed, off, left, nwritten, n, asleep, ret
  calls,        \* how many there have been
  got,          \* history: which bytes of the call the client got, in order
  burst,        \* history: how many it got in this second, or from this request
  bad           \* history: a send failed, or a throttle was set below what is already sent

conn == <<throttle, last_throttle_time, last_throttle_bytes>>
vars == <<conn, now, stop_flag, call, calls, got, burst, bad>>

Smaller(a, b) == IF a < b THEN a ELSE b

Init ==
  /\ throttle \in Throttles
  /\ last_throttle_time = 0 /\ last_throttle_bytes = 0
  /\ now = 1 /\ stop_flag = FALSE
  /\ call = [pc |-> "returned", len |-> 0, total |-> 0, allowed |-> 0, off |-> 0, left |-> 0,
             nwritten |-> 0, n |-> 0, asleep |-> 0, ret |-> 0]
  /\ calls = 0 /\ got = <<>> /\ burst = 0 /\ bad = FALSE

\* push_all is called for the next bytes, count of them; phase is where mg_write goes on.
PushAll(c, count) == [c EXCEPT !.left = count, !.nwritten = 0, !.pc = "push"]

\* handle_request sets the throttle of its URI; the two other fields stay.
NextRequest ==
  /\ call.pc = "returned"
  /\ throttle' \in Throttles
  /\ burst' = 0
  /\ bad' = (bad \/ (throttle' > 0 /\ throttle' < last_throttle_bytes))
  /\ UNCHANGED <<last_throttle_time, last_throttle_bytes, now, stop_flag, call, calls, got>>

Tick ==
  /\ now < MaxNow
  /\ now' = now + 1 /\ burst' = 0
  /\ UNCHANGED <<conn, stop_flag, call, calls, got, bad>>

Stop == ~stop_flag /\ stop_flag' = TRUE /\ UNCHANGED <<conn, now, call, calls, got, burst, bad>>

\* mg_write is called: the whole length, or what is left of this second.
Write ==
  /\ call.pc = "returned" /\ calls < MaxCalls
  /\ calls' = calls + 1
  /\ got' = <<>>
  /\ \E len \in Lengths :
       LET fresh == throttle > 0 /\ now # last_throttle_time
           bytes == IF fresh THEN 0 ELSE last_throttle_bytes
           allowed == IF throttle = 0 THEN len ELSE Smaller(throttle - bytes, len)
       IN /\ last_throttle_time' = IF fresh THEN now ELSE last_throttle_time
          /\ last_throttle_bytes' = bytes
          /\ call' = PushAll([call EXCEPT !.len = len, !.total = -2, !.allowed = allowed, !.off = 0], allowed)
  /\ UNCHANGED <<throttle, now, stop_flag, burst, bad>>

\* send gives some bytes to the client, or fails.
Send ==
  /\ call.pc = "push" /\ call.left > 0 /\ ~stop_flag
  /\ \/ \E n \in 1..call.left :
          /\ call' = [call EXCEPT !.n = n, !.pc = "pushed"]
          /\ got' = got \o [i \in 1..n |-> call.off + call.nwritten + i]
          /\ burst' = burst + n
          /\ UNCHANGED bad
     \/ /\ call' = [call EXCEPT !.n = -1, !.pc = "pushed"]
        /\ bad' = TRUE
        /\ UNCHANGED <<got, burst>>
  /\ UNCHANGED <<conn, now, stop_flag, calls>>

\* push looks at stop_flag before it looks at what it has sent; push_all propagates an error
\* only when nothing was written before.
Pushed ==
  /\ call.pc = "pushed"
  /\ LET n == IF stop_flag THEN -1 ELSE call.n
     IN call' = IF n < 0
                THEN [call EXCEPT !.pc = "all", !.nwritten = IF @ = 0 THEN n ELSE @]
                ELSE [call EXCEPT !.pc = "push", !.nwritten = @ + n, !.left = @ - n]
  /\ UNCHANGED <<conn, now, stop_flag, calls, got, burst, bad>>

AllPushed ==
  /\ call.pc = "push" /\ (call.left <= 0 \/ stop_flag)
  /\ call' = [call EXCEPT !.pc = "all"]
  /\ UNCHANGED <<conn, now, stop_flag, calls, got, burst, bad>>

Return(c, ret) == [c EXCEPT !.pc = "returned", !.ret = ret]

\* The first push_all is over (total is not yet known): what it wrote counts for this second.
First ==
  /\ call.pc = "all" /\ call.total = -2
  /\ LET m == call.nwritten
         goes_on == throttle > 0 /\ m = call.allowed
     IN /\ call' = IF goes_on THEN [call EXCEPT !.total = m, !.off = m, !.pc = "more"]
                   ELSE Return(call, m)
        /\ last_throttle_bytes' = last_throttle_bytes + (IF goes_on THEN m ELSE 0)
  /\ UNCHANGED <<throttle, last_throttle_time, now, stop_flag, calls, got, burst, bad>>

\* A second's worth more, or the end.
More ==
  /\ call.pc = "more"
  /\ LET allowed == Smaller(throttle, call.len - call.total)
     IN call' = IF call.total < call.len /\ ~stop_flag
                THEN PushAll([call EXCEPT !.allowed = allowed], allowed)
                ELSE Return(call, call.total)
  /\ UNCHANGED <<conn, now, stop_flag, calls, got, burst, bad>>

\* When it was not written whole, the part that was is not counted.
Again ==
  /\ call.pc = "all" /\ call.total # -2
  /\ call' = IF call.nwritten # call.allowed THEN Return(call, call.total)
             ELSE [call EXCEPT !.pc = "sleep", !.asleep = now]
  /\ UNCHANGED <<conn, now, stop_flag, calls, got, burst, bad>>

\* Slip: the buffer is not moved on.
Awake_SameBytes ==
  /\ call.pc = "sleep" /\ now > call.asleep
  /\ last_throttle_bytes' = call.allowed /\ last_throttle_time' = now
  /\ call' = [call EXCEPT !.total = @ + call.nwritten, !.pc = "more"]
  /\ UNCHANGED <<throttle, now, stop_flag, calls, got, burst, bad>>

\* sleep(1) lasts a second at least.
Awake ==
  /\ call.pc = "sleep" /\ now > call.asleep
  /\ last_throttle_bytes' = call.allowed /\ last_throttle_time' = now
  /\ call' = [call EXCEPT !.off = @ + call.nwritten, !.total = @ + call.nwritten, !.pc = "more"]
  /\ UNCHANGED <<throttle, now, stop_flag, calls, got, burst, bad>>

Next ==
  \/ NextRequest \/ Tick \/ Stop
  \/ Write \/ Send \/ Pushed \/ AllPushed \/ First \/ More \/ Again \/ Awake

Spec == Init /\ [][Next]_vars

-----------------------------------------------------------------------------
\* However it is cut into sends, seconds and calls of push_all, the client gets the beginning of
\* what is written, every byte once and in order.
BytesInOrder == got = [i \in 1..Len(got) |-> i]

\* mg_write never says that it wrote more than it did; and it has written everything when it
\* is neither stopped nor fails, and no request came to a lower throttle within a second.
ReturnIsTrue ==
  call.pc = "returned" /\ calls > 0 =>
    /\ call.ret <= Len(got)
    /\ ~stop_flag /\ ~bad => call.ret = call.len /\ Len(got) = call.len

\* In no second does a request get more than three times its throttle: what was begun in the
\* second before, a second's worth, and the first piece that mg_write sends without sleeping.
RateIsBounded == throttle > 0 /\ ~bad => burst <= 3 * throttle

\* What mg_write is given arrives in order, whole unless it says less, and not much faster than
\* the throttle.
WritesAreWhole == BytesInOrder /\ ReturnIsTrue /\ RateIsBounded
=============================================================================
