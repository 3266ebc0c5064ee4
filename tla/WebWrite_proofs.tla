-------------------------- MODULE WebWrite_proofs --------------------------
(***************************************************************************)
(* What mg_write promises for every length, throttle and number of calls.  *)
(***************************************************************************)
EXTENDS WebWrite, SequenceTheorems, TLAPS

Pcs == {"returned", "push", "pushed", "all", "more", "sleep"}

Calls == [pc : Pcs, len : Nat, total : Int, allowed : Int, off : Nat, left : Int,
          nwritten : Int, n : Int, asleep : Int, ret : Int]

\* d is the call with these fields.
Is(d, pc, len, total, allowed, off, left, nwritten, n, asleep, ret) ==
  /\ d \in Calls
  /\ d.pc = pc /\ d.len = len /\ d.total = total /\ d.allowed = allowed /\ d.off = off
  /\ d.left = left /\ d.nwritten = nwritten /\ d.n = n /\ d.asleep = asleep /\ d.ret = ret

TypeInv ==
  /\ throttle \in Nat /\ last_throttle_time \in Int /\ last_throttle_bytes \in Int
  /\ now \in Int /\ stop_flag \in BOOLEAN /\ bad \in BOOLEAN /\ calls \in Nat
  /\ got \in Seq(Int)
  /\ call \in Calls

\* What was sent this second is within the throttle, and mg_write's allowance keeps it so.
Allowance ==
  /\ throttle > 0 /\ ~bad => last_throttle_bytes <= throttle
  /\ call.pc \in {"push", "pushed", "all"} =>
       /\ call.allowed <= call.len - call.off
       /\ ~bad => call.allowed >= 0
       /\ IF call.total = -2
          THEN /\ call.off = 0
               /\ IF throttle = 0 THEN call.allowed = call.len
                                  ELSE call.allowed + last_throttle_bytes <= throttle
          ELSE throttle > 0 /\ call.allowed <= throttle
  /\ call.pc \in {"more", "sleep"} => throttle > 0

\* How far the buffer, the totals and what the client got have come, at each place.
Progress ==
  /\ call.pc \in {"push", "pushed", "all", "sleep"} /\ call.total # -2 => call.total = call.off
  /\ call.pc = "push" =>
       /\ call.nwritten >= 0 /\ call.nwritten + call.left = call.allowed
       /\ call.left < 0 => call.nwritten = 0
       /\ Len(got) = call.off + call.nwritten
  /\ call.pc = "pushed" =>
       /\ call.nwritten >= 0 /\ call.nwritten + call.left = call.allowed /\ call.left > 0
       /\ \/ call.n = -1 /\ bad /\ Len(got) = call.off + call.nwritten
          \/ call.n \in 1..call.left /\ Len(got) = call.off + call.nwritten + call.n
  /\ call.pc = "all" =>
       /\ call.nwritten >= 0 \/ call.nwritten < call.allowed
       /\ call.off <= Len(got) /\ call.off + call.nwritten <= Len(got)
       /\ call.nwritten = call.allowed => Len(got) = call.off + call.nwritten
       /\ ~stop_flag /\ ~bad => call.nwritten = call.allowed
  /\ call.pc = "more" => call.total = call.off /\ call.off = Len(got) /\ call.off <= call.len
  /\ call.pc = "sleep" =>
       /\ call.total = call.off /\ call.nwritten = call.allowed /\ call.nwritten >= 0
       /\ Len(got) = call.off + call.nwritten
       /\ Len(got) <= call.len /\ call.allowed <= throttle

WriteInv == TypeInv /\ Allowance /\ Progress /\ BytesInOrder /\ ReturnIsTrue

\* What mg_write has counted for this second, and what the present push_all has sent.
Counted == IF last_throttle_time = now THEN last_throttle_bytes ELSE 0
Sent == call.nwritten + (IF call.pc = "pushed" THEN call.n ELSE 0)

\* What the client got in this second is within what was counted for it and one throttle more,
\* which is the piece that a call sends without sleeping; a first piece begun in an earlier second
\* has all of it.  After its later pieces mg_write sleeps into the next second.
Paced ==
  /\ call.pc \in {"returned", "more"} => burst <= throttle + Counted
  /\ call.pc \in {"push", "pushed", "all"} =>
       burst <= Sent + (IF call.total = -2 /\ last_throttle_time # now THEN 0
                        ELSE throttle + Counted)
  /\ call.pc = "sleep" => call.asleep = now \/ burst = 0

\* So it is until the server is stopped; then nothing is sent any more.
RateInv ==
  /\ burst \in Int
  /\ ~bad => last_throttle_bytes >= 0
  /\ throttle > 0 /\ ~bad => burst <= 3 * throttle /\ (~stop_flag => Paced)

-----------------------------------------------------------------------------
\* Bytes that follow in order are appended in order.
LEMMA AppendInOrder ==
  ASSUME NEW s \in Seq(Int), s = [i \in 1..Len(s) |-> i], NEW n \in Nat, NEW k, k = Len(s)
  PROVE  LET t == s \o [i \in 1..n |-> k + i]
         IN t \in Seq(Int) /\ Len(t) = k + n /\ t = [i \in 1..Len(t) |-> i]
<1> DEFINE r == [i \in 1..n |-> k + i]
           t == s \o r
<1>1. r \in Seq(Int) /\ Len(r) = n /\ \A i \in 1..n : r[i] = k + i
  OBVIOUS
<1>2. t \in Seq(Int) /\ Len(t) = k + n
  BY <1>1
<1>3. \A i \in 1..Len(t) : t[i] = i
  <2> TAKE i \in 1..Len(t)
  <2>1. CASE i <= k
    <3>1. t[i] = s[i]
      BY <1>1, <2>1
    <3>2. i \in 1..Len(s)
      BY <1>2, <2>1
    <3> QED
      BY <3>1, <3>2
  <2>2. CASE i > k
    <3>1. t[i] = r[i - k]
      BY <1>1, <1>2, <2>2
    <3> QED
      BY <3>1, <1>1, <1>2, <2>2
  <2> QED
    BY <2>1, <2>2, <1>2
<1>4. t = [i \in 1..Len(t) |-> t[i]]
  BY <1>2
<1> QED
  BY <1>2, <1>3, <1>4

\* What a record of a call is after some of its fields are set: one field after another, it
\* keeps its type.

\* A call whose pc is set.
LEMMA SetPc ==
  ASSUME NEW c \in Calls, NEW new_pc \in Pcs
  PROVE  Is([c EXCEPT !.pc = new_pc], new_pc, c.len, c.total, c.allowed, c.off, c.left,
         c.nwritten, c.n, c.asleep, c.ret)
<1> DEFINE d == [c EXCEPT !.pc = new_pc]
<1>1. /\ d.pc = new_pc /\ d.len = c.len /\ d.total = c.total /\ d.allowed = c.allowed /\ d.off = c.off
      /\ d.left = c.left /\ d.nwritten = c.nwritten /\ d.n = c.n /\ d.asleep = c.asleep /\ d.ret = c.ret
  BY DEF Calls, Pcs
<1>2. d \in Calls
  BY DEF Calls, Pcs
<1> QED
  BY <1>1, <1>2 DEF Is

\* A call whose pc, nwritten are set.
LEMMA SetPcNwritten ==
  ASSUME NEW c \in Calls, NEW new_pc \in Pcs, NEW new_nwritten \in Int
  PROVE  Is([c EXCEPT !.pc = new_pc, !.nwritten = new_nwritten], new_pc, c.len, c.total,
         c.allowed, c.off, c.left, new_nwritten, c.n, c.asleep, c.ret)
<1> DEFINE d == [c EXCEPT !.pc = new_pc, !.nwritten = new_nwritten]
<1>1. /\ d.pc = new_pc /\ d.len = c.len /\ d.total = c.total /\ d.allowed = c.allowed /\ d.off = c.off
      /\ d.left = c.left /\ d.nwritten = new_nwritten /\ d.n = c.n /\ d.asleep = c.asleep /\ d.ret = c.ret
  BY DEF Calls, Pcs
<1> DEFINE e1 == [c EXCEPT !.pc = new_pc]
           e2 == [e1 EXCEPT !.nwritten = new_nwritten]
<1>2. e1 \in Calls
  BY DEF Calls, Pcs
<1>3. e2 \in Calls
  BY <1>2 DEF Calls, Pcs
<1>4. d = e2
  OBVIOUS
<1> QED
  BY <1>1, <1>3, <1>4 DEF Is

\* A call whose pc, nwritten, left are set.
LEMMA SetPcNwrittenLeft ==
  ASSUME NEW c \in Calls, NEW new_pc \in Pcs, NEW new_nwritten \in Int, NEW new_left \in Int
  PROVE  Is([c EXCEPT !.pc = new_pc, !.nwritten = new_nwritten, !.left = new_left], new_pc, c.len,
         c.total, c.allowed, c.off, new_left, new_nwritten, c.n, c.asleep, c.ret)
<1> DEFINE d == [c EXCEPT !.pc = new_pc, !.nwritten = new_nwritten, !.left = new_left]
<1>1. /\ d.pc = new_pc /\ d.len = c.len /\ d.total = c.total /\ d.allowed = c.allowed /\ d.off = c.off
      /\ d.left = new_left /\ d.nwritten = new_nwritten /\ d.n = c.n /\ d.asleep = c.asleep /\ d.ret = c.ret
  BY DEF Calls, Pcs
<1> DEFINE e1 == [c EXCEPT !.pc = new_pc]
           e2 == [e1 EXCEPT !.nwritten = new_nwritten]
           e3 == [e2 EXCEPT !.left = new_left]
<1>2. e1 \in Calls
  BY DEF Calls, Pcs
<1>3. e2 \in Calls
  BY <1>2 DEF Calls, Pcs
<1>4. e3 \in Calls
  BY <1>3 DEF Calls, Pcs
<1>5. d = e3
  OBVIOUS
<1> QED
  BY <1>1, <1>4, <1>5 DEF Is

\* A call whose total, off, pc are set.
LEMMA SetTotalOffPc ==
  ASSUME NEW c \in Calls, NEW new_total \in Int, NEW new_off \in Nat, NEW new_pc \in Pcs
  PROVE  Is([c EXCEPT !.total = new_total, !.off = new_off, !.pc = new_pc], new_pc, c.len,
         new_total, c.allowed, new_off, c.left, c.nwritten, c.n, c.asleep, c.ret)
<1> DEFINE d == [c EXCEPT !.total = new_total, !.off = new_off, !.pc = new_pc]
<1>1. /\ d.pc = new_pc /\ d.len = c.len /\ d.total = new_total /\ d.allowed = c.allowed /\ d.off = new_off
      /\ d.left = c.left /\ d.nwritten = c.nwritten /\ d.n = c.n /\ d.asleep = c.asleep /\ d.ret = c.ret
  BY DEF Calls, Pcs
<1> DEFINE e1 == [c EXCEPT !.total = new_total]
           e2 == [e1 EXCEPT !.off = new_off]
           e3 == [e2 EXCEPT !.pc = new_pc]
<1>2. e1 \in Calls
  BY DEF Calls, Pcs
<1>3. e2 \in Calls
  BY <1>2 DEF Calls, Pcs
<1>4. e3 \in Calls
  BY <1>3 DEF Calls, Pcs
<1>5. d = e3
  OBVIOUS
<1> QED
  BY <1>1, <1>4, <1>5 DEF Is

\* A call whose pc, ret are set.
LEMMA SetPcRet ==
  ASSUME NEW c \in Calls, NEW new_pc \in Pcs, NEW new_ret \in Int
  PROVE  Is([c EXCEPT !.pc = new_pc, !.ret = new_ret], new_pc, c.len, c.total, c.allowed, c.off,
         c.left, c.nwritten, c.n, c.asleep, new_ret)
<1> DEFINE d == [c EXCEPT !.pc = new_pc, !.ret = new_ret]
<1>1. /\ d.pc = new_pc /\ d.len = c.len /\ d.total = c.total /\ d.allowed = c.allowed /\ d.off = c.off
      /\ d.left = c.left /\ d.nwritten = c.nwritten /\ d.n = c.n /\ d.asleep = c.asleep /\ d.ret = new_ret
  BY DEF Calls, Pcs
<1> DEFINE e1 == [c EXCEPT !.pc = new_pc]
           e2 == [e1 EXCEPT !.ret = new_ret]
<1>2. e1 \in Calls
  BY DEF Calls, Pcs
<1>3. e2 \in Calls
  BY <1>2 DEF Calls, Pcs
<1>4. d = e2
  OBVIOUS
<1> QED
  BY <1>1, <1>3, <1>4 DEF Is

\* A call whose left, nwritten, pc are set.
LEMMA SetLeftNwrittenPc ==
  ASSUME NEW c \in Calls, NEW new_left \in Int, NEW new_nwritten \in Int, NEW new_pc \in Pcs
  PROVE  Is([c EXCEPT !.left = new_left, !.nwritten = new_nwritten, !.pc = new_pc], new_pc, c.len,
         c.total, c.allowed, c.off, new_left, new_nwritten, c.n, c.asleep, c.ret)
<1> DEFINE d == [c EXCEPT !.left = new_left, !.nwritten = new_nwritten, !.pc = new_pc]
<1>1. /\ d.pc = new_pc /\ d.len = c.len /\ d.total = c.total /\ d.allowed = c.allowed /\ d.off = c.off
      /\ d.left = new_left /\ d.nwritten = new_nwritten /\ d.n = c.n /\ d.asleep = c.asleep /\ d.ret = c.ret
  BY DEF Calls, Pcs
<1> DEFINE e1 == [c EXCEPT !.left = new_left]
           e2 == [e1 EXCEPT !.nwritten = new_nwritten]
           e3 == [e2 EXCEPT !.pc = new_pc]
<1>2. e1 \in Calls
  BY DEF Calls, Pcs
<1>3. e2 \in Calls
  BY <1>2 DEF Calls, Pcs
<1>4. e3 \in Calls
  BY <1>3 DEF Calls, Pcs
<1>5. d = e3
  OBVIOUS
<1> QED
  BY <1>1, <1>4, <1>5 DEF Is

\* A call whose allowed is set.
LEMMA SetAllowed ==
  ASSUME NEW c \in Calls, NEW new_allowed \in Int
  PROVE  Is([c EXCEPT !.allowed = new_allowed], c.pc, c.len, c.total, new_allowed, c.off, c.left,
         c.nwritten, c.n, c.asleep, c.ret)
<1> DEFINE d == [c EXCEPT !.allowed = new_allowed]
<1>1. /\ d.pc = c.pc /\ d.len = c.len /\ d.total = c.total /\ d.allowed = new_allowed /\ d.off = c.off
      /\ d.left = c.left /\ d.nwritten = c.nwritten /\ d.n = c.n /\ d.asleep = c.asleep /\ d.ret = c.ret
  BY DEF Calls, Pcs
<1>2. d \in Calls
  BY DEF Calls, Pcs
<1> QED
  BY <1>1, <1>2 DEF Is

\* A call whose pc, asleep are set.
LEMMA SetPcAsleep ==
  ASSUME NEW c \in Calls, NEW new_pc \in Pcs, NEW new_asleep \in Int
  PROVE  Is([c EXCEPT !.pc = new_pc, !.asleep = new_asleep], new_pc, c.len, c.total, c.allowed,
         c.off, c.left, c.nwritten, c.n, new_asleep, c.ret)
<1> DEFINE d == [c EXCEPT !.pc = new_pc, !.asleep = new_asleep]
<1>1. /\ d.pc = new_pc /\ d.len = c.len /\ d.total = c.total /\ d.allowed = c.allowed /\ d.off = c.off
      /\ d.left = c.left /\ d.nwritten = c.nwritten /\ d.n = c.n /\ d.asleep = new_asleep /\ d.ret = c.ret
  BY DEF Calls, Pcs
<1> DEFINE e1 == [c EXCEPT !.pc = new_pc]
           e2 == [e1 EXCEPT !.asleep = new_asleep]
<1>2. e1 \in Calls
  BY DEF Calls, Pcs
<1>3. e2 \in Calls
  BY <1>2 DEF Calls, Pcs
<1>4. d = e2
  OBVIOUS
<1> QED
  BY <1>1, <1>3, <1>4 DEF Is

\* A call whose off, total, pc are set.
LEMMA SetOffTotalPc ==
  ASSUME NEW c \in Calls, NEW new_off \in Nat, NEW new_total \in Int, NEW new_pc \in Pcs
  PROVE  Is([c EXCEPT !.off = new_off, !.total = new_total, !.pc = new_pc], new_pc, c.len,
         new_total, c.allowed, new_off, c.left, c.nwritten, c.n, c.asleep, c.ret)
<1> DEFINE d == [c EXCEPT !.off = new_off, !.total = new_total, !.pc = new_pc]
<1>1. /\ d.pc = new_pc /\ d.len = c.len /\ d.total = new_total /\ d.allowed = c.allowed /\ d.off = new_off
      /\ d.left = c.left /\ d.nwritten = c.nwritten /\ d.n = c.n /\ d.asleep = c.asleep /\ d.ret = c.ret
  BY DEF Calls, Pcs
<1> DEFINE e1 == [c EXCEPT !.off = new_off]
           e2 == [e1 EXCEPT !.total = new_total]
           e3 == [e2 EXCEPT !.pc = new_pc]
<1>2. e1 \in Calls
  BY DEF Calls, Pcs
<1>3. e2 \in Calls
  BY <1>2 DEF Calls, Pcs
<1>4. e3 \in Calls
  BY <1>3 DEF Calls, Pcs
<1>5. d = e3
  OBVIOUS
<1> QED
  BY <1>1, <1>4, <1>5 DEF Is

\* A call whose n, pc are set.
LEMMA SetNPc ==
  ASSUME NEW c \in Calls, NEW new_n \in Int, NEW new_pc \in Pcs
  PROVE  Is([c EXCEPT !.n = new_n, !.pc = new_pc], new_pc, c.len, c.total, c.allowed, c.off,
         c.left, c.nwritten, new_n, c.asleep, c.ret)
<1> DEFINE d == [c EXCEPT !.n = new_n, !.pc = new_pc]
<1>1. /\ d.pc = new_pc /\ d.len = c.len /\ d.total = c.total /\ d.allowed = c.allowed /\ d.off = c.off
      /\ d.left = c.left /\ d.nwritten = c.nwritten /\ d.n = new_n /\ d.asleep = c.asleep /\ d.ret = c.ret
  BY DEF Calls, Pcs
<1> DEFINE e1 == [c EXCEPT !.n = new_n]
           e2 == [e1 EXCEPT !.pc = new_pc]
<1>2. e1 \in Calls
  BY DEF Calls, Pcs
<1>3. e2 \in Calls
  BY <1>2 DEF Calls, Pcs
<1>4. d = e2
  OBVIOUS
<1> QED
  BY <1>1, <1>3, <1>4 DEF Is

\* A call whose len, total, allowed, off are set.
LEMMA SetLenTotalAllowedOff ==
  ASSUME NEW c \in Calls, NEW new_len \in Nat, NEW new_total \in Int, NEW new_allowed \in Int,
         NEW new_off \in Nat
  PROVE  Is([c EXCEPT !.len = new_len, !.total = new_total, !.allowed = new_allowed,
         !.off = new_off], c.pc, new_len, new_total, new_allowed, new_off, c.left, c.nwritten,
               c.n, c.asleep, c.ret)
<1> DEFINE d == [c EXCEPT !.len = new_len, !.total = new_total, !.allowed = new_allowed,
         !.off = new_off]
<1>1. /\ d.pc = c.pc /\ d.len = new_len /\ d.total = new_total /\ d.allowed = new_allowed /\ d.off = new_off
      /\ d.left = c.left /\ d.nwritten = c.nwritten /\ d.n = c.n /\ d.asleep = c.asleep /\ d.ret = c.ret
  BY DEF Calls, Pcs
<1> DEFINE e1 == [c EXCEPT !.len = new_len]
           e2 == [e1 EXCEPT !.total = new_total]
           e3 == [e2 EXCEPT !.allowed = new_allowed]
           e4 == [e3 EXCEPT !.off = new_off]
<1>2. e1 \in Calls
  BY DEF Calls, Pcs
<1>3. e2 \in Calls
  BY <1>2 DEF Calls, Pcs
<1>4. e3 \in Calls
  BY <1>3 DEF Calls, Pcs
<1>5. e4 \in Calls
  BY <1>4 DEF Calls, Pcs
<1>6. d = e4
  OBVIOUS
<1> QED
  BY <1>1, <1>5, <1>6 DEF Is

\* Nothing was written before the first call.
LEMMA InitWrite ==
  ASSUME Throttles \subseteq Nat, Init
  PROVE  WriteInv
<1>1. call \in Calls
  BY DEF Init, Calls, Pcs
<1>2. got \in Seq(Int) /\ Len(got) = 0
  BY DEF Init
<1>a. throttle \in Nat /\ last_throttle_time = 0 /\ last_throttle_bytes = 0 /\ now = 1 /\ calls = 0
  BY DEF Init
<1>b. stop_flag \in BOOLEAN /\ bad \in BOOLEAN
  BY DEF Init
<1>3. TypeInv
  BY <1>1, <1>2, <1>a, <1>b DEF TypeInv
<1>4. Allowance
  BY DEF Init, Allowance
<1>5. Progress
  BY DEF Init, Progress
<1>6. BytesInOrder /\ ReturnIsTrue
  BY DEF Init, BytesInOrder, ReturnIsTrue
<1> QED
  BY <1>3, <1>4, <1>5, <1>6 DEF WriteInv

\* Between two calls the throttle may change; one that is used up already is noted.
LEMMA NextRequestKeeps ==
  ASSUME Throttles \subseteq Nat, WriteInv, NextRequest
  PROVE  WriteInv'
<1> USE DEF WriteInv
<1>1. /\ call.pc = "returned" /\ throttle' \in Nat
      /\ bad' = (bad \/ (throttle' > 0 /\ throttle' < last_throttle_bytes))
      /\ UNCHANGED <<last_throttle_time, last_throttle_bytes, now, stop_flag, call, calls, got>>
  BY DEF NextRequest
<1>2. bad' \in BOOLEAN /\ (bad => bad')
  BY <1>1, Zenon DEF TypeInv
<1>3. throttle' > 0 /\ ~bad' => last_throttle_bytes' <= throttle'
  <2> SUFFICES ASSUME throttle' > 0, ~bad' PROVE last_throttle_bytes <= throttle'
    BY <1>1
  <2>1. ~(throttle' < last_throttle_bytes)
    BY <1>1
  <2> QED
    BY <1>1, <2>1 DEF TypeInv
<1>4. TypeInv'
  BY <1>1, <1>2 DEF TypeInv
<1>5. Allowance'
  BY <1>1, <1>3 DEF Allowance
<1>6. Progress'
  BY <1>1 DEF Progress
<1>7. BytesInOrder' /\ ReturnIsTrue'
  BY <1>1, <1>2 DEF BytesInOrder, ReturnIsTrue
<1> QED
  BY <1>4, <1>5, <1>6, <1>7

\* Time goes on without the call.
LEMMA TickKeeps ==
  ASSUME Throttles \subseteq Nat, WriteInv, Tick
  PROVE  WriteInv'
<1> USE DEF WriteInv
<1>1. TypeInv'
  BY DEF Tick, TypeInv, conn
<1>2. Allowance'
  BY <1>1 DEF Tick, TypeInv, Allowance, conn
<1>3. Progress'
  BY <1>1 DEF Tick, TypeInv, Progress, conn
<1>4. BytesInOrder' /\ ReturnIsTrue'
  BY DEF Tick, TypeInv, BytesInOrder, ReturnIsTrue, conn
<1> QED
  BY <1>1, <1>2, <1>3, <1>4

\* Once the server is stopped, less is promised.
LEMMA StopKeeps ==
  ASSUME Throttles \subseteq Nat, WriteInv, Stop
  PROVE  WriteInv'
<1> USE DEF WriteInv
<1>1. TypeInv'
  BY DEF Stop, TypeInv, conn
<1>2. Allowance'
  BY <1>1 DEF Stop, TypeInv, Allowance, conn
<1>3. Progress'
  BY <1>1 DEF Stop, TypeInv, Progress, conn
<1>4. BytesInOrder' /\ ReturnIsTrue'
  BY DEF Stop, TypeInv, BytesInOrder, ReturnIsTrue, conn
<1> QED
  BY <1>1, <1>2, <1>3, <1>4

\* What push returned is added, or ends push_all.
LEMMA PushedKeeps ==
  ASSUME WriteInv, Pushed
  PROVE  WriteInv'
<1> USE DEF WriteInv
<1>1. CASE stop_flag \/ call.n < 0
  <2> DEFINE n == IF stop_flag THEN -1 ELSE call.n
  <2>0. n = -1 /\ n < 0
    BY <1>1 DEF Pushed, Progress, TypeInv, Calls
  <2>1. /\ call.pc = "pushed"
        /\ UNCHANGED <<throttle, last_throttle_time, last_throttle_bytes, now, stop_flag, calls,
              got, bad>>
    BY <1>1, <2>0, Zenon DEF Pushed, conn
  <2>2. call' = [call EXCEPT !.pc = "all", !.nwritten = IF @ = 0 THEN -1 ELSE @]
    BY <1>1, <2>0, Zenon DEF Pushed, conn
  <2>3. "all" \in Pcs /\ (IF call.nwritten = 0 THEN -1 ELSE call.nwritten) \in Int
    BY <1>1, <2>0, <2>1 DEF TypeInv, Calls, Pcs, Progress
  <2>c. call \in Calls
    BY DEF TypeInv
  <2>4. Is(call', "all", call.len, call.total, call.allowed, call.off, call.left,
         IF call.nwritten = 0 THEN -1 ELSE call.nwritten, call.n, call.asleep, call.ret)
    BY <2>2, <2>3, <2>c, SetPcNwritten
  <2>5. TypeInv'
    BY <2>1, <2>3, <2>4 DEF TypeInv, Is, Calls
  <2>6. Allowance'
    BY <1>1, <2>0, <2>1, <2>3, <2>4 DEF TypeInv, Is, Calls, Allowance, Progress
  <2>7. Progress'
    <3>1. /\ call.nwritten >= 0 /\ call.nwritten + call.left = call.allowed /\ call.left > 0
          /\ \/ call.n = -1 /\ bad /\ Len(got) = call.off + call.nwritten
             \/ call.n \in 1..call.left /\ Len(got) = call.off + call.nwritten + call.n
          /\ call.total # -2 => call.total = call.off
      BY <2>1 DEF Progress
    <3>2. /\ call.nwritten \in Int /\ call.left \in Int /\ call.allowed \in Int /\ call.n \in Int
          /\ call.off \in Nat
      BY DEF TypeInv, Calls
    <3> QED
      BY <1>1, <2>1, <2>4, <3>1, <3>2 DEF Is, Progress
  <2>8. BytesInOrder' /\ ReturnIsTrue'
    BY <1>1, <2>0, <2>1, <2>3, <2>4 DEF TypeInv, Is, Calls, Allowance, Progress, BytesInOrder,
          ReturnIsTrue
  <2> QED
    BY <2>5, <2>6, <2>7, <2>8
<1>2. CASE ~stop_flag /\ call.n > 0
  <2> DEFINE n == IF stop_flag THEN -1 ELSE call.n
  <2>0. n = call.n /\ ~(n < 0)
    BY <1>2 DEF TypeInv, Calls
  <2>1. /\ call.pc = "pushed"
        /\ UNCHANGED <<throttle, last_throttle_time, last_throttle_bytes, now, stop_flag, calls,
              got, bad>>
    BY <1>2, <2>0, Zenon DEF Pushed, conn
  <2>2. call' = [call EXCEPT !.pc = "push", !.nwritten = @ + call.n, !.left = @ - call.n]
    BY <1>2, <2>0, Zenon DEF Pushed, conn
  <2>c. call \in Calls
    BY DEF TypeInv
  <2>3. "push" \in Pcs /\ call.nwritten + call.n \in Int /\ call.left - call.n \in Int
    BY <2>c DEF Calls, Pcs
  <2>4. Is(call', "push", call.len, call.total, call.allowed, call.off, call.left - call.n,
         call.nwritten + call.n, call.n, call.asleep, call.ret)
    BY <2>2, <2>3, <2>c, SetPcNwrittenLeft
  <2>5. TypeInv'
    BY <2>1, <2>3, <2>4 DEF TypeInv, Is, Calls
  <2>6. Allowance'
    BY <1>2, <2>0, <2>1, <2>3, <2>4 DEF TypeInv, Is, Calls, Allowance, Progress
  <2>7. Progress'
    <3>1. /\ call.nwritten >= 0 /\ call.nwritten + call.left = call.allowed /\ call.left > 0
          /\ \/ call.n = -1 /\ bad /\ Len(got) = call.off + call.nwritten
             \/ call.n \in 1..call.left /\ Len(got) = call.off + call.nwritten + call.n
          /\ call.total # -2 => call.total = call.off
      BY <2>1 DEF Progress
    <3>2. /\ call.nwritten \in Int /\ call.left \in Int /\ call.allowed \in Int /\ call.n \in Int
          /\ call.off \in Nat
      BY DEF TypeInv, Calls
    <3> QED
      BY <1>2, <2>1, <2>4, <3>1, <3>2 DEF Is, Progress
  <2>8. BytesInOrder' /\ ReturnIsTrue'
    BY <1>2, <2>0, <2>1, <2>3, <2>4 DEF TypeInv, Is, Calls, Allowance, Progress, BytesInOrder,
          ReturnIsTrue
  <2> QED
    BY <2>5, <2>6, <2>7, <2>8
<1> QED
  BY <1>1, <1>2 DEF Pushed, TypeInv, Progress, Calls

\* push_all has written what it was given, or the server was stopped.
LEMMA AllPushedKeeps ==
  ASSUME WriteInv, AllPushed
  PROVE  WriteInv'
<1> USE DEF WriteInv
<1>1. WriteInv'
  <2>1. /\ call.pc = "push"
        /\ call.left <= 0 \/ stop_flag
        /\ UNCHANGED <<throttle, last_throttle_time, last_throttle_bytes, now, stop_flag, calls,
              got, bad>>
    BY Zenon DEF AllPushed, conn
  <2>2. call' = [call EXCEPT !.pc = "all"]
    BY Zenon DEF AllPushed, conn
  <2>3. "all" \in Pcs
    BY <2>1 DEF TypeInv, Calls, Pcs, Progress
  <2>c. call \in Calls
    BY DEF TypeInv
  <2>4. Is(call', "all", call.len, call.total, call.allowed, call.off, call.left, call.nwritten,
         call.n, call.asleep, call.ret)
    BY <2>2, <2>3, <2>c, SetPc
  <2>5. TypeInv'
    BY <2>1, <2>3, <2>4 DEF TypeInv, Is, Calls
  <2>6. Allowance'
    BY <2>1, <2>3, <2>4 DEF TypeInv, Is, Calls, Allowance, Progress
  <2>7. Progress'
    <3>1. /\ call.nwritten >= 0 /\ call.nwritten + call.left = call.allowed
          /\ call.left < 0 => call.nwritten = 0
          /\ Len(got) = call.off + call.nwritten
          /\ call.total # -2 => call.total = call.off
      BY <2>1 DEF Progress
    <3>2. /\ call.nwritten \in Int /\ call.left \in Int /\ call.allowed \in Int
          /\ call.off \in Nat
      BY <2>c DEF Calls
    <3>3. ~bad => call.allowed >= 0
      BY <2>1 DEF Allowance
    <3>4. got' = got /\ stop_flag' = stop_flag /\ bad' = bad
      BY <2>1
    <3>5. /\ call.nwritten = call.allowed => Len(got) = call.off + call.nwritten
          /\ ~stop_flag /\ ~bad => call.nwritten = call.allowed
      BY <2>1, <3>1, <3>2, <3>3
    <3> QED
      BY <2>4, <3>1, <3>2, <3>4, <3>5 DEF Is, Progress
  <2>8. BytesInOrder' /\ ReturnIsTrue'
    BY <2>1, <2>3, <2>4 DEF TypeInv, Is, Calls, Allowance, Progress, BytesInOrder, ReturnIsTrue
  <2> QED
    BY <2>5, <2>6, <2>7, <2>8
<1> QED
  BY <1>1

\* The first push_all of a call used up its allowance, or ends the call.
LEMMA FirstKeeps ==
  ASSUME WriteInv, First
  PROVE  WriteInv'
<1> USE DEF WriteInv
<1>1. CASE throttle > 0 /\ call.nwritten = call.allowed
  <2>1. /\ call.pc = "all" /\ call.total = -2
        /\ last_throttle_bytes' = last_throttle_bytes + call.nwritten
        /\ UNCHANGED <<throttle, last_throttle_time, now, stop_flag, calls, got, bad>>
    BY <1>1, Zenon DEF First, conn
  <2>2. call' = [call EXCEPT !.total = call.nwritten, !.off = call.nwritten, !.pc = "more"]
    BY <1>1, Zenon DEF First, conn
  <2>3. "more" \in Pcs /\ call.nwritten \in Nat /\ call.nwritten \in Int
    BY <1>1, <2>1 DEF TypeInv, Calls, Pcs, Progress
  <2>c. call \in Calls
    BY DEF TypeInv
  <2>4. Is(call', "more", call.len, call.nwritten, call.allowed, call.nwritten, call.left,
         call.nwritten, call.n, call.asleep, call.ret)
    BY <2>2, <2>3, <2>c, SetTotalOffPc
  <2>5. TypeInv'
    BY <2>1, <2>3, <2>4 DEF TypeInv, Is, Calls
  <2>6. Allowance'
    BY <1>1, <2>1, <2>3, <2>4 DEF TypeInv, Is, Calls, Allowance, Progress
  <2>7. Progress'
    BY <1>1, <2>1, <2>3, <2>4 DEF TypeInv, Is, Calls, Allowance, Progress
  <2>8. BytesInOrder' /\ ReturnIsTrue'
    BY <1>1, <2>1, <2>3, <2>4 DEF TypeInv, Is, Calls, Allowance, Progress, BytesInOrder,
          ReturnIsTrue
  <2> QED
    BY <2>5, <2>6, <2>7, <2>8
<1>2. CASE ~(throttle > 0 /\ call.nwritten = call.allowed)
  <2>1. /\ call.pc = "all" /\ call.total = -2
        /\ last_throttle_bytes' = last_throttle_bytes + 0
        /\ UNCHANGED <<throttle, last_throttle_time, now, stop_flag, calls, got, bad>>
    BY <1>2, Zenon DEF First, conn, Return
  <2>2. call' = [call EXCEPT !.pc = "returned", !.ret = call.nwritten]
    BY <1>2, Zenon DEF First, conn, Return
  <2>3. "returned" \in Pcs /\ call.nwritten \in Int
    BY <1>2, <2>1 DEF TypeInv, Calls, Pcs, Progress
  <2>c. call \in Calls
    BY DEF TypeInv
  <2>4. Is(call', "returned", call.len, call.total, call.allowed, call.off, call.left,
         call.nwritten, call.n, call.asleep, call.nwritten)
    BY <2>2, <2>3, <2>c, SetPcRet
  <2>5. TypeInv'
    BY <2>1, <2>3, <2>4 DEF TypeInv, Is, Calls
  <2>6. Allowance'
    BY <1>2, <2>1, <2>3, <2>4 DEF TypeInv, Is, Calls, Allowance, Progress
  <2>7. Progress'
    BY <1>2, <2>1, <2>3, <2>4 DEF TypeInv, Is, Calls, Allowance, Progress
  <2>8. BytesInOrder' /\ ReturnIsTrue'
    BY <1>2, <2>1, <2>3, <2>4 DEF TypeInv, Is, Calls, Allowance, Progress, BytesInOrder,
          ReturnIsTrue
  <2> QED
    BY <2>5, <2>6, <2>7, <2>8
<1> QED
  BY <1>1, <1>2

\* A later push_all was whole, or ends the call with what was counted before.
LEMMA AgainKeeps ==
  ASSUME WriteInv, Again
  PROVE  WriteInv'
<1> USE DEF WriteInv
<1>1. CASE call.nwritten # call.allowed
  <2>1. /\ call.pc = "all" /\ call.total # -2
        /\ UNCHANGED <<throttle, last_throttle_time, last_throttle_bytes, now, stop_flag, calls,
              got, bad>>
    BY <1>1, Zenon DEF Again, conn, Return
  <2>2. call' = [call EXCEPT !.pc = "returned", !.ret = call.total]
    BY <1>1, Zenon DEF Again, conn, Return
  <2>3. "returned" \in Pcs /\ call.total \in Int
    BY <1>1, <2>1 DEF TypeInv, Calls, Pcs, Progress
  <2>c. call \in Calls
    BY DEF TypeInv
  <2>4. Is(call', "returned", call.len, call.total, call.allowed, call.off, call.left,
         call.nwritten, call.n, call.asleep, call.total)
    BY <2>2, <2>3, <2>c, SetPcRet
  <2>5. TypeInv'
    BY <2>1, <2>3, <2>4 DEF TypeInv, Is, Calls
  <2>6. Allowance'
    BY <1>1, <2>1, <2>3, <2>4 DEF TypeInv, Is, Calls, Allowance, Progress
  <2>7. Progress'
    BY <1>1, <2>1, <2>3, <2>4 DEF TypeInv, Is, Calls, Allowance, Progress
  <2>8. BytesInOrder' /\ ReturnIsTrue'
    BY <1>1, <2>1, <2>3, <2>4 DEF TypeInv, Is, Calls, Allowance, Progress, BytesInOrder,
          ReturnIsTrue
  <2> QED
    BY <2>5, <2>6, <2>7, <2>8
<1>2. CASE call.nwritten = call.allowed
  <2>1. /\ call.pc = "all" /\ call.total # -2
        /\ UNCHANGED <<throttle, last_throttle_time, last_throttle_bytes, now, stop_flag, calls,
              got, bad>>
    BY <1>2, Zenon DEF Again, conn
  <2>2. call' = [call EXCEPT !.pc = "sleep", !.asleep = now]
    BY <1>2, Zenon DEF Again, conn
  <2>3. "sleep" \in Pcs /\ now \in Int
    BY <1>2, <2>1 DEF TypeInv, Calls, Pcs, Progress
  <2>c. call \in Calls
    BY DEF TypeInv
  <2>4. Is(call', "sleep", call.len, call.total, call.allowed, call.off, call.left, call.nwritten,
         call.n, now, call.ret)
    BY <2>2, <2>3, <2>c, SetPcAsleep
  <2>5. TypeInv'
    BY <2>1, <2>3, <2>4 DEF TypeInv, Is, Calls
  <2>6. Allowance'
    BY <1>2, <2>1, <2>3, <2>4 DEF TypeInv, Is, Calls, Allowance, Progress
  <2>7. Progress'
    BY <1>2, <2>1, <2>3, <2>4 DEF TypeInv, Is, Calls, Allowance, Progress
  <2>8. BytesInOrder' /\ ReturnIsTrue'
    BY <1>2, <2>1, <2>3, <2>4 DEF TypeInv, Is, Calls, Allowance, Progress, BytesInOrder,
          ReturnIsTrue
  <2> QED
    BY <2>5, <2>6, <2>7, <2>8
<1> QED
  BY <1>1, <1>2

\* Buffer and total move on together.
LEMMA AwakeKeeps ==
  ASSUME WriteInv, Awake
  PROVE  WriteInv'
<1> USE DEF WriteInv
<1>1. WriteInv'
  <2>1. /\ call.pc = "sleep"
        /\ last_throttle_bytes' = call.allowed /\ last_throttle_time' = now
        /\ UNCHANGED <<throttle, now, stop_flag, calls, got, bad>>
    BY Zenon DEF Awake, conn
  <2>2. call' = [call EXCEPT !.off = @ + call.nwritten, !.total = @ + call.nwritten, !.pc = "more"]
    BY Zenon DEF Awake, conn
  <2>3. "more" \in Pcs /\ call.off + call.nwritten \in Nat /\ call.total + call.nwritten \in Int
    BY <2>1 DEF TypeInv, Calls, Pcs, Progress
  <2>c. call \in Calls
    BY DEF TypeInv
  <2>4. Is(call', "more", call.len, call.total + call.nwritten, call.allowed,
         call.off + call.nwritten, call.left, call.nwritten, call.n, call.asleep, call.ret)
    BY <2>2, <2>3, <2>c, SetOffTotalPc
  <2>5. TypeInv'
    BY <2>1, <2>3, <2>4 DEF TypeInv, Is, Calls
  <2>6. Allowance'
    BY <2>1, <2>3, <2>4 DEF TypeInv, Is, Calls, Allowance, Progress
  <2>7. Progress'
    BY <2>1, <2>3, <2>4 DEF TypeInv, Is, Calls, Allowance, Progress
  <2>8. BytesInOrder' /\ ReturnIsTrue'
    BY <2>1, <2>3, <2>4 DEF TypeInv, Is, Calls, Allowance, Progress, BytesInOrder, ReturnIsTrue
  <2> QED
    BY <2>5, <2>6, <2>7, <2>8
<1> QED
  BY <1>1

\* Another second's worth begins where the last ended.
LEMMA MoreKeeps ==
  ASSUME WriteInv, More
  PROVE  WriteInv'
<1> USE DEF WriteInv
<1>a. call.pc = "more" /\ UNCHANGED <<throttle, last_throttle_time, last_throttle_bytes, now,
         stop_flag, calls, got, bad>>
  BY DEF More, conn
<1>1. CASE call.total < call.len /\ ~stop_flag
  <2> DEFINE size == Smaller(throttle, call.len - call.total)
             c == [call EXCEPT !.allowed = size]
  <2>1. size \in Nat /\ size <= throttle /\ size <= call.len - call.total
    BY <1>1, <1>a DEF TypeInv, Calls, Progress, Smaller
  <2>2. call' = [c EXCEPT !.left = size, !.nwritten = 0, !.pc = "push"]
    BY <1>1, Zenon DEF More, PushAll
  <2> HIDE DEF size
  <2>3. Is(c, call.pc, call.len, call.total, size, call.off, call.left, call.nwritten, call.n,
         call.asleep, call.ret)
    BY <2>1, SetAllowed DEF TypeInv
  <2>4. "push" \in Pcs /\ size \in Int /\ 0 \in Int
    BY <2>1 DEF Pcs
  <2>5. Is(call', "push", call.len, call.total, size, call.off, size, 0, call.n, call.asleep,
         call.ret)
    <3> HIDE DEF c
    <3>1. Is(call', "push", c.len, c.total, c.allowed, c.off, size, 0, c.n, c.asleep, c.ret)
      <4>1. c \in Calls
        BY <2>3 DEF Is
      <4> QED
        BY <2>2, <2>4, <4>1, SetLeftNwrittenPc
    <3> QED
      BY <2>3, <3>1 DEF Is
  <2> HIDE DEF c
  <2>6. TypeInv'
    BY <1>a, <2>5 DEF TypeInv, Is
  <2>7. Allowance'
    BY <1>a, <2>1, <2>5 DEF TypeInv, Is, Calls, Allowance, Progress
  <2>8. Progress'
    BY <1>1, <1>a, <2>1, <2>5 DEF TypeInv, Is, Calls, Progress
  <2>9. BytesInOrder' /\ ReturnIsTrue'
    BY <1>a, <2>5 DEF Is, BytesInOrder, ReturnIsTrue
  <2> QED
    BY <2>6, <2>7, <2>8, <2>9
<1>2. CASE ~(call.total < call.len /\ ~stop_flag)
  <2>1. call' = [call EXCEPT !.pc = "returned", !.ret = call.total]
    BY <1>2, Zenon DEF More, Return
  <2>2. "returned" \in Pcs /\ call.total \in Int
    BY DEF TypeInv, Calls, Pcs
  <2>3. Is(call', "returned", call.len, call.total, call.allowed, call.off, call.left,
         call.nwritten, call.n, call.asleep, call.total)
    BY <2>1, <2>2, SetPcRet DEF TypeInv
  <2>4. TypeInv'
    BY <1>a, <2>3 DEF TypeInv, Is
  <2>5. Allowance'
    BY <1>a, <2>3 DEF TypeInv, Is, Calls, Allowance
  <2>6. Progress'
    BY <1>a, <2>3 DEF TypeInv, Is, Calls, Progress
  <2>7. BytesInOrder' /\ ReturnIsTrue'
    BY <1>2, <1>a, <2>3 DEF TypeInv, Is, Calls, Progress, BytesInOrder, ReturnIsTrue
  <2> QED
    BY <2>4, <2>5, <2>6, <2>7
<1> QED
  BY <1>1, <1>2

\* What is sent follows what was sent; a send that fails is noted.
LEMMA SendKeeps ==
  ASSUME WriteInv, Send
  PROVE  WriteInv'
<1> USE DEF WriteInv
<1>a. /\ call.pc = "push" /\ call.left > 0 /\ ~stop_flag
      /\ UNCHANGED <<throttle, last_throttle_time, last_throttle_bytes, now, stop_flag, calls>>
  BY DEF Send, conn
<1>b. "pushed" \in Pcs /\ call \in Calls
  BY DEF Pcs, TypeInv
<1>1. ASSUME NEW n \in 1..call.left,
             call' = [call EXCEPT !.n = n, !.pc = "pushed"],
             got' = got \o [i \in 1..n |-> call.off + call.nwritten + i],
             UNCHANGED bad
      PROVE  WriteInv'
  <2>1. n \in Nat /\ n \in Int /\ n <= call.left /\ n > 0
    BY <1>b DEF Calls
  <2>2. Is(call', "pushed", call.len, call.total, call.allowed, call.off, call.left,
         call.nwritten, n, call.asleep, call.ret)
    BY <1>1, <1>b, <2>1, SetNPc
  <2>3. got' \in Seq(Int) /\ Len(got') = call.off + call.nwritten + n /\ BytesInOrder'
    <3> DEFINE k == call.off + call.nwritten
    <3>1. k = Len(got) /\ got \in Seq(Int) /\ got = [i \in 1..Len(got) |-> i]
      BY <1>a DEF Progress, TypeInv, BytesInOrder
    <3>2. got' = got \o [i \in 1..n |-> k + i]
      BY <1>1
    <3> HIDE DEF k
    <3>3. got' \in Seq(Int) /\ Len(got') = k + n /\ got' = [i \in 1..Len(got') |-> i]
      BY <2>1, <3>1, <3>2, AppendInOrder
    <3> QED
      BY <3>3 DEF BytesInOrder, k
  <2>4. TypeInv'
    BY <1>a, <1>1, <2>2, <2>3 DEF TypeInv, Is
  <2>5. Allowance'
    BY <1>a, <1>1, <2>2 DEF TypeInv, Calls, Is, Allowance
  <2>6. Progress'
    BY <1>a, <1>b, <2>1, <2>2, <2>3 DEF Calls, Is, Progress
  <2>7. ReturnIsTrue'
    BY <2>2 DEF Is, ReturnIsTrue
  <2> QED
    BY <2>3, <2>4, <2>5, <2>6, <2>7
<1>2. ASSUME call' = [call EXCEPT !.n = -1, !.pc = "pushed"], bad' = TRUE, UNCHANGED got
      PROVE  WriteInv'
  <2>1. -1 \in Int
    OBVIOUS
  <2>2. Is(call', "pushed", call.len, call.total, call.allowed, call.off, call.left,
         call.nwritten, -1, call.asleep, call.ret)
    BY <1>2, <1>b, <2>1, SetNPc
  <2>3. TypeInv'
    BY <1>a, <1>2, <2>2 DEF TypeInv, Is
  <2>4. Allowance'
    BY <1>a, <1>2, <2>2 DEF TypeInv, Calls, Is, Allowance
  <2>5. Progress'
    BY <1>a, <1>b, <1>2, <2>2 DEF Calls, Is, Progress
  <2>6. BytesInOrder' /\ ReturnIsTrue'
    BY <1>2, <2>2 DEF Is, BytesInOrder, ReturnIsTrue
  <2> QED
    BY <2>3, <2>4, <2>5, <2>6
<1>3. \/ \E n \in 1..call.left :
           /\ call' = [call EXCEPT !.n = n, !.pc = "pushed"]
           /\ got' = got \o [i \in 1..n |-> call.off + call.nwritten + i]
           /\ UNCHANGED bad
      \/ call' = [call EXCEPT !.n = -1, !.pc = "pushed"] /\ bad' = TRUE /\ UNCHANGED got
  BY Zenon DEF Send
<1> QED
  BY <1>1, <1>2, <1>3

\* A call begins with nothing sent, and an allowance that its throttle has left.
LEMMA WriteKeeps ==
  ASSUME Lengths \subseteq Nat, WriteInv, Write
  PROVE  WriteInv'
<1> USE DEF WriteInv
<1>1. /\ call.pc = "returned" /\ calls' = calls + 1 /\ got' = <<>>
      /\ UNCHANGED <<throttle, now, stop_flag, bad>>
  BY DEF Write
<1> DEFINE fresh == throttle > 0 /\ now # last_throttle_time
           bytes == IF fresh THEN 0 ELSE last_throttle_bytes
           allowance(len) == IF throttle = 0 THEN len ELSE Smaller(throttle - bytes, len)
<1>2. PICK len \in Lengths :
        /\ last_throttle_time' = IF fresh THEN now ELSE last_throttle_time
        /\ last_throttle_bytes' = bytes
        /\ call' = PushAll([call EXCEPT !.len = len, !.total = -2, !.allowed = allowance(len),
                                        !.off = 0], allowance(len))
  BY Zenon DEF Write
<1>3. bytes \in Int /\ (~bad /\ throttle > 0 => bytes <= throttle)
  BY DEF TypeInv, Allowance
<1>4. len \in Nat /\ last_throttle_time' \in Int
  BY <1>2 DEF TypeInv
<1> HIDE DEF bytes, fresh
<1> DEFINE allowed == allowance(len)
<1>5. /\ allowed \in Int /\ allowed <= len
      /\ IF throttle = 0 THEN allowed = len ELSE allowed + bytes <= throttle
      /\ ~bad => allowed >= 0
  BY <1>3, <1>4 DEF TypeInv, Smaller
<1> DEFINE c == [call EXCEPT !.len = len, !.total = -2, !.allowed = allowed, !.off = 0]
<1>6. call' = [c EXCEPT !.left = allowed, !.nwritten = 0, !.pc = "push"]
  BY <1>2, Zenon DEF PushAll
<1> HIDE DEF allowed
<1>7. Is(c, call.pc, len, -2, allowed, 0, call.left, call.nwritten, call.n, call.asleep, call.ret)
  <2>1. -2 \in Int /\ 0 \in Nat
    OBVIOUS
  <2> QED
    BY <1>4, <1>5, <2>1, SetLenTotalAllowedOff DEF TypeInv
<1> HIDE DEF c
<1>8. Is(call', "push", c.len, c.total, c.allowed, c.off, allowed, 0, c.n, c.asleep, c.ret)
  <2>1. c \in Calls /\ "push" \in Pcs /\ 0 \in Int
    BY <1>7 DEF Is, Pcs
  <2> QED
    BY <1>5, <1>6, <2>1, SetLeftNwrittenPc
<1>9. Is(call', "push", len, -2, allowed, 0, allowed, 0, call.n, call.asleep, call.ret)
  BY <1>7, <1>8 DEF Is
<1>10. got' \in Seq(Int) /\ Len(got') = 0 /\ BytesInOrder'
  BY <1>1 DEF BytesInOrder
<1>11. TypeInv'
  BY <1>1, <1>2, <1>3, <1>4, <1>9, <1>10 DEF TypeInv, Is
<1>12. Allowance'
  <2>1. last_throttle_bytes' = bytes /\ throttle' = throttle /\ bad' = bad
    BY <1>1, <1>2
  <2> QED
    BY <1>3, <1>4, <1>5, <1>9, <2>1 DEF TypeInv, Is, Allowance
<1>13. Progress'
  BY <1>4, <1>5, <1>9, <1>10 DEF Is, Progress
<1>14. ReturnIsTrue'
  BY <1>9 DEF Is, ReturnIsTrue
<1> QED
  BY <1>10, <1>11, <1>12, <1>13, <1>14

\* Together.
LEMMA StepKeeps ==
  ASSUME Lengths \subseteq Nat, Throttles \subseteq Nat, WriteInv, [Next]_vars
  PROVE  WriteInv'
<1>1. CASE UNCHANGED vars
  BY <1>1 DEF vars, conn, WriteInv, TypeInv, Allowance, Progress, BytesInOrder, ReturnIsTrue
<1>2. CASE Next
  BY <1>2, NextRequestKeeps, TickKeeps, StopKeeps, WriteKeeps, SendKeeps, PushedKeeps,
     AllPushedKeeps, FirstKeeps, MoreKeeps, AgainKeeps, AwakeKeeps DEF Next
<1> QED
  BY <1>1, <1>2

-----------------------------------------------------------------------------
\* Counted is never more than the throttle.
LEMMA CountedBound ==
  ASSUME TypeInv, Allowance, RateInv, throttle > 0, ~bad
  PROVE  Counted \in Int /\ 0 <= Counted /\ Counted <= throttle
BY DEF TypeInv, Allowance, RateInv, Counted

\* Nothing was sent at the start.
LEMMA RateStart ==
  ASSUME Throttles \subseteq Nat, Init
  PROVE  RateInv
BY DEF Init, RateInv, Paced, Counted

\* Nothing is within any allowance.
LEMMA NothingYet ==
  ASSUME NEW t \in Nat, NEW c \in Int, c >= 0
  PROVE  0 <= 3 * t /\ 0 <= t + c /\ t + c \in Int
OBVIOUS

\* A new request has got nothing yet.
LEMMA RateRequest ==
  ASSUME Throttles \subseteq Nat, WriteInv, RateInv, NextRequest
  PROVE  RateInv'
<1>1. /\ call.pc = "returned" /\ throttle' \in Nat /\ burst' = 0 /\ (bad => bad')
      /\ UNCHANGED <<last_throttle_time, last_throttle_bytes, now, stop_flag, call>>
  BY DEF NextRequest
<1>2. ~bad' => Counted' >= 0
  BY <1>1 DEF RateInv, Counted, WriteInv, TypeInv
<1>3. Counted' \in Int
  BY <1>1 DEF Counted, WriteInv, TypeInv
<1>4. ~bad' => last_throttle_bytes' >= 0
  BY <1>1 DEF RateInv, Paced
<1>5. CASE bad'
  BY <1>1, <1>5 DEF RateInv, Paced
<1>6. CASE ~bad'
  <2>1. 0 <= 3 * throttle' /\ 0 <= throttle' + Counted'
    <3>1. Counted' >= 0
      BY <1>2, <1>6
    <3>. QED BY <1>1, <1>3, <3>1, NothingYet
  <2>2. burst' <= 3 * throttle' /\ burst' <= throttle' + Counted'
    BY <1>1, <2>1
  <2>3. Paced'
    BY <1>1, <2>2 DEF Paced
  <2>4. burst' \in Int
    BY <1>1
  <2>. QED BY <1>4, <1>6, <2>2, <2>3, <2>4 DEF RateInv
<1>. QED BY <1>5, <1>6

\* Nor has anyone in a new second.
LEMMA RateTick ==
  ASSUME WriteInv, RateInv, Tick
  PROVE  RateInv'
<1>1. /\ now' = now + 1 /\ burst' = 0
      /\ UNCHANGED <<throttle, last_throttle_time, last_throttle_bytes, stop_flag, call, bad>>
  BY DEF Tick, conn
<1>2. /\ ~bad' => Counted' >= 0
      /\ Counted' \in Int /\ Sent' = Sent
  BY <1>1 DEF RateInv, Counted, Sent, WriteInv, TypeInv
<1>3. ~bad /\ call.pc \in {"push", "pushed"} => Sent \in Int /\ Sent >= 0
  <2>1. /\ call.nwritten \in Int /\ call.n \in Int
    BY DEF WriteInv, TypeInv, Calls
  <2>2. call.pc \in {"push", "pushed"} => call.nwritten >= 0
    BY DEF WriteInv, Progress
  <2>3. ~bad /\ call.pc = "pushed" => call.n >= 0
    <3>1. ~bad /\ call.pc = "pushed" => call.n \in 1 .. call.left
      BY DEF WriteInv, Progress
    <3>. QED BY <2>1, <3>1 DEF WriteInv, TypeInv, Calls
  <2>. QED BY <2>1, <2>2, <2>3 DEF Sent
<1>4. ~bad /\ ~stop_flag /\ call.pc = "all" => Sent \in Int /\ Sent >= 0
  BY DEF WriteInv, TypeInv, Calls, Progress, Allowance, Sent
<1>5. throttle \in Nat /\ 3 * throttle >= 0
  BY DEF WriteInv, TypeInv
<1>6. ~bad' => last_throttle_bytes' >= 0
  BY <1>1 DEF RateInv, Paced
<1>7. CASE bad
  BY <1>1, <1>6, <1>7 DEF RateInv, Paced
<1>8. CASE ~bad
  <2>1. burst' <= 3 * throttle' /\ burst' <= throttle' + Counted'
    BY <1>1, <1>2, <1>5, <1>8, NothingYet
  <2>2. call.pc \in {"push", "pushed"} \/ (~stop_flag /\ call.pc = "all")
        => burst' <= Sent' /\ burst' <= Sent' + (throttle' + Counted')
    <3>1. throttle' + Counted' \in Int /\ 0 <= throttle' + Counted'
      BY <1>1, <1>2, <1>5, <1>8, NothingYet
    <3>. QED BY <1>1, <1>2, <1>3, <1>4, <1>8, <3>1
  <2>3. ~stop_flag => Paced'
    <3>1. call'.pc \in {"push", "pushed", "all"} /\ ~stop_flag =>
             burst' <= Sent' + (IF call'.total = -2 /\ last_throttle_time' # now' THEN 0
                                ELSE throttle' + Counted')
      <4>1. call' = call
        BY <1>1
      <4>2. CASE call'.total = -2 /\ last_throttle_time' # now'
        <5>1. Sent' + 0 = Sent' \/ call.pc \notin {"push", "pushed", "all"} \/ stop_flag
          BY <1>2, <1>3, <1>4, <1>8
        <5>. QED BY <2>2, <4>1, <4>2, <5>1
      <4>. QED BY <2>2, <4>1, <4>2
    <3>. QED BY <1>1, <2>1, <3>1 DEF Paced
  <2>4. burst' \in Int
    BY <1>1
  <2>. QED BY <1>1, <1>6, <1>8, <2>1, <2>3, <2>4 DEF RateInv
<1>. QED BY <1>7, <1>8

\* Stopping sends nothing.
LEMMA RateStop ==
  ASSUME WriteInv, RateInv, Stop
  PROVE  RateInv'
BY DEF Stop, conn, RateInv, Counted

\* A call that begins in a new second counts from nothing.
LEMMA RateWrite ==
  ASSUME Lengths \subseteq Nat, WriteInv, RateInv, Write
  PROVE  RateInv'
<1>1. /\ call.pc = "returned" /\ UNCHANGED <<throttle, now, stop_flag, burst, bad>>
  BY DEF Write
<1>2. /\ call'.pc = "push" /\ call'.total = -2 /\ call'.nwritten = 0
  BY DEF Write, PushAll, WriteInv, TypeInv, Calls
<1>3. IF throttle > 0 /\ now # last_throttle_time
      THEN last_throttle_time' = now /\ last_throttle_bytes' = 0
      ELSE UNCHANGED <<last_throttle_time, last_throttle_bytes>>
  BY DEF Write
<1>4. Sent' = 0
  BY <1>2 DEF Sent
<1>5. ASSUME throttle > 0, ~bad
      PROVE  last_throttle_time' = now /\ Counted' = Counted /\ Counted \in Int
             /\ Counted' >= 0 /\ Counted <= throttle
  BY <1>1, <1>3, <1>5, CountedBound DEF Counted, WriteInv
<1>. QED BY <1>1, <1>2, <1>3, <1>4, <1>5 DEF RateInv, Paced, WriteInv, TypeInv

\* What is sent is sent by the present push_all, within its allowance.
LEMMA RateSend ==
  ASSUME WriteInv, RateInv, Send
  PROVE  RateInv'
<1>1. /\ call.pc = "push" /\ call.left > 0 /\ ~stop_flag
      /\ UNCHANGED <<throttle, last_throttle_time, last_throttle_bytes, now, stop_flag>>
  BY DEF Send, conn
<1>2. Counted' = Counted
  BY <1>1 DEF Counted
<1>a. burst' \in Int /\ (bad => bad')
  <2>1. ASSUME NEW n \in 1 .. call.left, burst' = burst + n
        PROVE  burst' \in Int
    BY <2>1 DEF RateInv, WriteInv, TypeInv, Calls
  <2>2. (\E n \in 1 .. call.left : burst' = burst + n) \/ burst' = burst
    BY Zenon DEF Send
  <2>3. bad' = bad \/ bad' = TRUE
    BY Zenon DEF Send
  <2>. QED BY <2>1, <2>2, <2>3 DEF RateInv, Paced
<1>b. ~bad' => last_throttle_bytes' >= 0
  BY <1>1, <1>a DEF RateInv, Paced
<1>3. CASE bad'
  BY <1>1, <1>3, <1>a DEF RateInv, Paced
<1>4. CASE ~bad'
  <2>1. PICK n \in 1 .. call.left :
          /\ call' = [call EXCEPT !.n = n, !.pc = "pushed"]
          /\ burst' = burst + n
    BY <1>4 DEF Send
  <2>a. ~bad
    BY <1>4, <1>a
  <2>2. /\ call'.pc = "pushed" /\ call'.n = n
        /\ call'.nwritten = call.nwritten /\ call'.total = call.total
    BY <2>1 DEF WriteInv, TypeInv, Calls
  <2>3. /\ Sent' = Sent + n /\ Sent = call.nwritten /\ Sent \in Int
        /\ n \in Int /\ Sent + n <= call.allowed
    BY <1>1, <2>2 DEF Sent, WriteInv, TypeInv, Calls, Progress
  <2>4. throttle > 0 => call.allowed <= throttle /\ call.allowed \in Int
    BY <1>1, <2>a DEF WriteInv, TypeInv, Calls, Allowance, RateInv
  <2>5. throttle > 0 => /\ Counted \in Int /\ 0 <= Counted /\ Counted <= throttle
    BY <2>a, CountedBound DEF WriteInv
  <2>6. throttle > 0 =>
          /\ burst' <= Sent' + (IF call'.total = -2 /\ last_throttle_time' # now' THEN 0
                               ELSE throttle' + Counted')
          /\ burst' <= 3 * throttle'
    <3>1. throttle > 0 =>
            burst <= Sent + (IF call.total = -2 /\ last_throttle_time # now THEN 0
                             ELSE throttle + Counted)
      BY <1>1, <2>a DEF RateInv, Paced
    <3>2. throttle \in Nat /\ burst \in Int
      BY DEF RateInv, Paced, WriteInv, TypeInv
    <3>. QED BY <1>1, <1>2, <2>1, <2>2, <2>3, <2>4, <2>5, <3>1, <3>2
  <2>. QED BY <1>1, <1>a, <1>b, <2>2, <2>6 DEF RateInv, Paced
<1>. QED BY <1>3, <1>4

\* It is what push_all has written then.
LEMMA RatePushed ==
  ASSUME WriteInv, RateInv, Pushed
  PROVE  RateInv'
<1>1. call.pc = "pushed"
      /\ UNCHANGED <<throttle, last_throttle_time, last_throttle_bytes, now, stop_flag, burst, bad>>
  BY DEF Pushed, conn
<1>2. CASE stop_flag \/ bad
  BY <1>1, <1>2 DEF RateInv, Paced
<1>3. CASE ~stop_flag /\ ~bad
  <2>1. call.n > 0 /\ call.n \in Int
    BY <1>1, <1>3 DEF WriteInv, TypeInv, Calls, Progress
  <2>2. call' = [call EXCEPT !.pc = "push", !.nwritten = @ + call.n, !.left = @ - call.n]
    BY <1>3, <2>1 DEF Pushed
  <2>3. call'.pc = "push" /\ call'.total = call.total /\ call'.nwritten = call.nwritten + call.n
    BY <2>2 DEF WriteInv, TypeInv, Calls
  <2>4. Sent' = Sent /\ Counted' = Counted
    BY <1>1, <2>3 DEF Sent, Counted, WriteInv, TypeInv, Calls
  <2>. QED BY <1>1, <2>3, <2>4 DEF RateInv, Paced
<1>. QED BY <1>2, <1>3

\* So it is at the end.
LEMMA RateAllPushed ==
  ASSUME WriteInv, RateInv, AllPushed
  PROVE  RateInv'
<1>1. /\ call.pc = "push"
      /\ UNCHANGED <<throttle, last_throttle_time, last_throttle_bytes, now, stop_flag, burst, bad>>
  BY DEF AllPushed, conn
<1>2. call'.pc = "all" /\ call'.total = call.total /\ call'.nwritten = call.nwritten
  BY DEF AllPushed, WriteInv, TypeInv, Calls
<1>3. Sent' = Sent /\ Counted' = Counted
  BY <1>1, <1>2 DEF Sent, Counted
<1>. QED BY <1>1, <1>2, <1>3 DEF RateInv, Paced

\* A first push_all is counted for the second in which the call began.
LEMMA RateFirst ==
  ASSUME WriteInv, RateInv, First
  PROVE  RateInv'
<1>1. /\ call.pc = "all" /\ call.total = -2
      /\ UNCHANGED <<throttle, last_throttle_time, now, stop_flag, burst, bad>>
  BY DEF First
<1>2. CASE bad \/ throttle = 0 \/ call.nwritten # call.allowed
  <2>1. ~bad => call.nwritten = call.allowed \/ stop_flag
    BY <1>1 DEF WriteInv, Progress
  <2>2. ~bad => last_throttle_bytes' = last_throttle_bytes
    BY <1>2 DEF First, RateInv, WriteInv, TypeInv
  <2>. QED BY <1>1, <1>2, <2>1, <2>2 DEF RateInv, Paced
<1>3. CASE ~bad /\ throttle > 0 /\ call.nwritten = call.allowed
  <2>1. /\ call' = [call EXCEPT !.total = call.nwritten, !.off = call.nwritten, !.pc = "more"]
        /\ last_throttle_bytes' = last_throttle_bytes + call.nwritten
    BY <1>3 DEF First
  <2>2. call'.pc = "more"
    BY <2>1 DEF WriteInv, TypeInv, Calls
  <2>3. call.nwritten \in Int /\ call.nwritten >= 0 /\ call.nwritten <= throttle
        /\ Sent = call.nwritten
    BY <1>1, <1>3 DEF WriteInv, TypeInv, Calls, Progress, Allowance, RateInv, Sent
  <2>4. Counted' = IF last_throttle_time = now THEN Counted + Sent ELSE 0
    BY <1>1, <2>1, <2>3 DEF Counted
  <2>5. Counted \in Int /\ last_throttle_bytes \in Int /\ throttle \in Nat
    BY DEF WriteInv, TypeInv, Counted
  <2>. QED BY <1>1, <1>3, <2>1, <2>2, <2>3, <2>4, <2>5 DEF RateInv, Paced
<1>. QED BY <1>2, <1>3 DEF WriteInv, TypeInv

\* A later one is not counted before the sleep.
LEMMA RateMore ==
  ASSUME WriteInv, RateInv, More
  PROVE  RateInv'
<1>1. /\ call.pc = "more"
      /\ UNCHANGED <<throttle, last_throttle_time, last_throttle_bytes, now, stop_flag, burst, bad>>
  BY DEF More, conn
<1>2. Counted' = Counted
  BY <1>1 DEF Counted
<1>3. \/ call'.pc = "returned"
      \/ call'.pc = "push" /\ call'.total = call.total /\ call'.nwritten = 0
  BY DEF More, Return, PushAll, WriteInv, TypeInv, Calls
<1>4. call.total # -2
  BY <1>1 DEF WriteInv, TypeInv, Calls, Progress
<1>5. call'.pc = "push" => Sent' = 0
  BY <1>3 DEF Sent
<1>6. Counted \in Int /\ throttle \in Nat
  BY DEF WriteInv, TypeInv, Counted
<1>. QED BY <1>1, <1>2, <1>3, <1>4, <1>5, <1>6 DEF RateInv, Paced

\* Then comes the sleep.
LEMMA RateAgain ==
  ASSUME WriteInv, RateInv, Again
  PROVE  RateInv'
<1>1. /\ call.pc = "all" /\ call.total # -2
      /\ UNCHANGED <<throttle, last_throttle_time, last_throttle_bytes, now, stop_flag, burst, bad>>
  BY DEF Again, conn
<1>2. ~bad /\ ~stop_flag => call.nwritten = call.allowed
  BY <1>1 DEF WriteInv, Progress
<1>3. call.nwritten = call.allowed => call'.pc = "sleep" /\ call'.asleep = now
  BY DEF Again, WriteInv, TypeInv, Calls
<1>. QED BY <1>1, <1>2, <1>3 DEF RateInv, Paced

\* It ends in a later second, to which what was sent before is counted.
LEMMA RateAwake ==
  ASSUME WriteInv, RateInv, Awake
  PROVE  RateInv'
<1>1. /\ call.pc = "sleep" /\ now > call.asleep
      /\ last_throttle_bytes' = call.allowed /\ last_throttle_time' = now
      /\ UNCHANGED <<throttle, now, stop_flag, burst, bad>>
  BY DEF Awake
<1>2. call'.pc = "more"
  BY DEF Awake, WriteInv, TypeInv, Calls
<1>3. call.allowed \in Int /\ call.allowed >= 0
  BY <1>1 DEF WriteInv, TypeInv, Calls, Progress
<1>4. Counted' = call.allowed
  BY <1>1 DEF Counted
<1>5. call.asleep # now
  BY <1>1 DEF WriteInv, TypeInv, Calls
<1>. QED BY <1>1, <1>2, <1>3, <1>4, <1>5 DEF RateInv, Paced, WriteInv, TypeInv

\* Every step keeps the pace.
LEMMA RateKeeps ==
  ASSUME Lengths \subseteq Nat, Throttles \subseteq Nat, WriteInv, RateInv, [Next]_vars
  PROVE  RateInv'
<1>1. CASE UNCHANGED vars
  BY <1>1 DEF vars, conn, RateInv, Paced, Counted, Sent
<1>2. CASE Next
  BY <1>2, RateRequest, RateTick, RateStop, RateWrite, RateSend, RatePushed, RateAllPushed,
     RateFirst, RateMore, RateAgain, RateAwake DEF Next
<1> QED
  BY <1>1, <1>2

-----------------------------------------------------------------------------
\* mg_write's bytes arrive once and in order, whatever the lengths and throttles, and however
\* sends are cut, fail and are stopped.
THEOREM OrderCorrect ==
  ASSUME Lengths \subseteq Nat, Throttles \subseteq Nat
  PROVE  Spec => []BytesInOrder
<1>1. Init => WriteInv
  BY InitWrite
<1>2. WriteInv /\ [Next]_vars => WriteInv'
  BY StepKeeps
<1>3. WriteInv => BytesInOrder
  BY DEF WriteInv
<1> QED
  BY <1>1, <1>2, <1>3, PTL DEF Spec

\* What mg_write returns is never more than was sent; and it is the whole length, which was sent,
\* when nothing failed, nothing was stopped, and no throttle came below what was used.
THEOREM ReturnCorrect ==
  ASSUME Lengths \subseteq Nat, Throttles \subseteq Nat
  PROVE  Spec => []ReturnIsTrue
<1>1. Init => WriteInv
  BY InitWrite
<1>2. WriteInv /\ [Next]_vars => WriteInv'
  BY StepKeeps
<1>3. WriteInv => ReturnIsTrue
  BY DEF WriteInv
<1> QED
  BY <1>1, <1>2, <1>3, PTL DEF Spec

\* What mg_write is given arrives in order, whole unless it says less; and in no second does a
\* request get more than three times its throttle: for all lengths and throttles.
THEOREM WritesCorrect ==
  ASSUME Lengths \subseteq Nat, Throttles \subseteq Nat
  PROVE  Spec => []WritesAreWhole
<1>1. Init => WriteInv /\ RateInv
  BY InitWrite, RateStart
<1>2. WriteInv /\ RateInv /\ [Next]_vars => WriteInv' /\ RateInv'
  BY StepKeeps, RateKeeps
<1>3. WriteInv /\ RateInv => WritesAreWhole
  BY DEF WriteInv, RateInv, WritesAreWhole, RateIsBounded
<1> QED
  BY <1>1, <1>2, <1>3, PTL DEF Spec
=============================================================================
