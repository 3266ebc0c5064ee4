------------------------------ MODULE WebForm ------------------------------
(***************************************************************************)
(* mg_handle_form_request of the embedded web server, handle_form.inl: the *)
(* fields of a form are found in a query string, or in a body that is read *)
(* through a buffer smaller than it, and handed to callbacks or stored in  *)
(* files while the reading goes on.                                        *)
(*                                                                         *)
(* The buffer is an array, and what was in it stays in it, at first what   *)
(* the stack held.  A character is a letter, "=", "&" or "+"; "%", "2" and *)
(* "2" together are an escape, of "D"; NUL ends a string.  In a multipart  *)
(* body "b" is two dashes and the boundary, "r" a line end, "e" two dashes *)
(* and a line end, and a header with its empty line is one character, the  *)
(* key of its field, or "bad".                                             *)
(***************************************************************************)
EXTENDS Integers, Sequences, SequencesExt

CONSTANTS
  Forms,   \* what clients send: [kind, fields]
  SIZE     \* of buf

VARIABLES
  form,
  body,        \* what mg_read has still to give, or what is left of the query string
  buf, buf_fill,
  pc,
  pos,         \* where in buf the value begins: val, or hend
  key, storage, value,   \* the present field, and what of its value was handed over
  flaw,        \* history: "none", "cut", "dropped" or "stale", see Deliver and Pair
  fp,          \* the file of the field is open
  file_size,
  out,         \* what the callbacks were told, field_get with the pieces put together
  left,        \* the files on disk: key and content
  field_count, returned

buffer == <<buf, buf_fill>>
field == <<key, storage, value, flaw, fp, file_size>>
vars == <<form, body, buffer, pc, pos, field, out, left, field_count, returned>>

NUL == "nul"
Index == 0..SIZE - 1
\* What an array may hold that was never written.
Stacks ==
  {[i \in Index |-> NUL], [i \in Index |-> "?"],
   [i \in Index |-> IF i % 3 = 1 THEN "=" ELSE IF i = SIZE - 1 THEN NUL ELSE "?"],
   [i \in Index |-> CASE i % 3 = 0 -> "&" [] i % 3 = 1 -> "=" [] OTHER -> "?"]}
Field(k, v) == [key |-> k, value |-> v]

\* A query string or url encoded body, and a multipart body.
Joined(fields) ==
  FoldLeft(LAMBDA s, f : s \o (IF s = <<>> THEN <<>> ELSE <<"&">>)
                           \o <<f.key, "=">> \o f.value, <<>>, fields)
Multipart(fields) ==
  FoldLeft(LAMBDA s, f : s \o <<"b", "r", f.key>> \o f.value \o <<"r">>, <<>>, fields)
    \o <<"b", "e">>
Encoded(f) == IF f.kind = "multi" THEN Multipart(f.fields) ELSE Joined(f.fields)

Longest == Max({Len(Encoded(f)) : f \in Forms})

\* The client sends the form up to a point only, or whole.
Init ==
  /\ \E f \in Forms, n \in 0..Longest :
       n <= Len(Encoded(f)) /\ form = [kind |-> f.kind, fields |-> f.fields, upto |-> n]
  /\ body = SubSeq(Encoded(form), 1, form.upto)
  /\ buf \in Stacks /\ buf_fill = 0
  /\ form.kind # "url" => buf = [i \in Index |-> NUL]
  /\ pc = "start" /\ pos = 0
  /\ key = NUL /\ storage = "SKIP" /\ value = <<>> /\ flaw = "none" /\ fp = FALSE /\ file_size = 0
  /\ out = <<>> /\ left = <<>> /\ field_count = 0 /\ returned = 0

Return(r) == pc' = "done" /\ returned' = r
Goto(next) == pc' = next /\ UNCHANGED returned

-----------------------------------------------------------------------------
(* The buffer.  A negative buf_fill is -1: its amount is not looked at.    *)

\* strchr from i, up to the end of the string; -1 is NULL.
TextEnd(b, i) == CHOOSE j \in i..SIZE : (j = SIZE \/ b[j] = NUL) /\ \A k \in i..j - 1 : b[k] # NUL
strchr(b, i, c) ==
  LET at == {j \in i..TextEnd(b, i) - 1 : b[j] = c}
  IN IF at = {} THEN -1 ELSE CHOOSE j \in at : \A k \in at : j <= k
Text(b, i, j) == [k \in 1..j - i |-> b[i + k - 1]]

\* memmove(buf, buf + used, sizeof(buf) - used).
Less(used) == IF used > buf_fill THEN -1 ELSE buf_fill - used
memmove(b, used) == [i \in Index |-> IF i + used \in Index THEN b[i + used] ELSE b[i]]

\* mg_read fills the buffer up, if the body is long enough.
Give(fill) == LET room == SIZE - 1 - fill IN IF room < Len(body) THEN room ELSE Len(body)
Filled(b, fill) ==
  [i \in Index |-> IF i >= fill /\ i < fill + Give(fill) THEN body[i - fill + 1]
                   ELSE IF i = fill + Give(fill) THEN NUL ELSE b[i]]
Rest(fill) == SubSeq(body, Give(fill) + 1, Len(body))

\* Line end and boundary, both within the first len characters.
search_boundary(b, from, len) ==
  LET at == {i \in from..len - 2 : b[i] = "r" /\ b[i + 1] = "b"}
  IN IF at = {} THEN -1 ELSE CHOOSE i \in at : \A j \in at : i <= j

-----------------------------------------------------------------------------
(* What is done with a field                                               *)

\* The callback field_found chooses; a file may not open.
url_encoded_field_found(k) ==
  /\ key' = k /\ value' = <<>> /\ flaw' = "none" /\ file_size' = 0
  /\ field_count' = field_count + 1
  /\ storage' \in {"SKIP", "GET", "STORE", "ABORT"}
  /\ fp' \in {FALSE, storage' = "STORE"}

\* The content of the file of the present field.
Leave(v) == IF fp THEN SelectSeq(left, LAMBDA f : f.key # key) \o <<Field(key, v)>> ELSE left
Without(f) == SelectSeq(left, LAMBDA g : g.key # f)

\* mg_url_decode.
Decoded(s) ==
  LET rest[i \in 1..Len(s) + 1] ==
        IF i > Len(s) THEN <<>>
        ELSE IF i + 2 <= Len(s) /\ SubSeq(s, i, i + 2) = <<"%", "2", "2">>
        THEN <<"D">> \o rest[i + 3]
        ELSE <<IF s[i] = "+" THEN " " ELSE s[i]>> \o rest[i + 1]
  IN rest[1]
CutsEscape(piece) ==
  \E n \in 1..2 : n <= Len(piece) /\ SubSeq(piece, Len(piece) - n + 1, Len(piece))
                                      = SubSeq(<<"%", "2">>, 1, n)

\* A piece of the value goes to the callback or the file, which is removed if that fails.
\* The callback is given each piece decoded, for itself, so that an escape of which two
\* pieces have a part is not; and nobody notices that there is no memory for that, and the
\* piece is dropped.  (A bound: one piece is kept of a field that was not sent.)
Deliver(piece, last) ==
  LET given == IF flaw = "stale" /\ value # <<>> THEN <<>>
               ELSE IF storage = "GET" THEN Decoded(piece) ELSE piece
  IN /\ \/ /\ value' = value \o given
           /\ flaw' = IF flaw = "none" /\ storage = "GET" /\ ~last /\ CutsEscape(piece)
                      THEN "cut" ELSE flaw
        \/ /\ storage = "GET" /\ UNCHANGED value
           /\ flaw' = IF flaw = "stale" THEN flaw ELSE "dropped"
     /\ file_size' = IF fp THEN file_size + Len(given) ELSE file_size
     /\ \/ left' = Leave(value') /\ UNCHANGED fp
        \/ fp /\ fp' = FALSE /\ left' = Without(key)
     /\ UNCHANGED <<key, storage>>

\* After the last piece; fclose may fail.
Told == [key |-> key, value |-> value, flaw |-> flaw]
url_encoded_field_get == out' = Append(out, Told)
field_stored(size) == out' = Append(out, [size |-> size] @@ Told)
CloseField ==
  /\ fp' = FALSE
  /\ \/ storage = "GET" /\ url_encoded_field_get /\ UNCHANGED left
     \/ fp /\ field_stored(file_size) /\ UNCHANGED left
     \/ fp /\ left' = Without(key) /\ UNCHANGED out
     \/ storage # "GET" /\ ~fp /\ UNCHANGED <<out, left>>
  /\ UNCHANGED <<key, storage, value, flaw, file_size>>

-----------------------------------------------------------------------------
(* mg_handle_form_request                                                  *)

\* Without a body it must be a GET with a query string; with one, a content type that is
\* known, and a boundary that leaves room in the buffer.
Start ==
  /\ pc = "start"
  /\ \/ Return(-1)
     \/ form.kind = "get" /\ Goto("query")
     \/ form.kind = "url" /\ Goto("read")
     \/ form.kind = "multi" /\ Goto("part")
  /\ UNCHANGED <<form, body, buffer, pos, field, out, left, field_count>>

First(c) == SelectInSeq(body, LAMBDA x : x = c)

\* The pair in front of the query string; its value is there as a whole.
QueryFound ==
  /\ pc = "query"
  /\ IF First("=") = 0
     THEN Return(field_count) /\ UNCHANGED <<body, field, field_count>>
     ELSE /\ url_encoded_field_found(SubSeq(body, 1, First("=") - 1)[1])
          /\ body' = SubSeq(body, First("=") + 1, Len(body))
          /\ Goto("query_value")
  /\ UNCHANGED <<form, buffer, pos, out, left>>

QueryValue ==
  /\ pc = "query_value"
  /\ Deliver(SubSeq(body, 1, IF First("&") = 0 THEN Len(body) ELSE First("&") - 1), TRUE)
  /\ body' = IF First("&") = 0 THEN <<>> ELSE SubSeq(body, First("&") + 1, Len(body))
  /\ Goto("query_end")
  /\ UNCHANGED <<form, buffer, pos, out, field_count>>

QueryEnd ==
  /\ pc = "query_end"
  /\ CloseField
  /\ IF storage = "ABORT" THEN Return(field_count) ELSE Goto("query")
  /\ UNCHANGED <<form, body, buffer, pos, field_count>>

\* An error of mg_read ends it all; the file of the present field stays as it is.
ReadFails ==
  /\ pc \in {"read", "value_read", "part", "part_read"} /\ buf_fill >= 0
  /\ Return(-1)
  /\ UNCHANGED <<form, body, buffer, pos, field, out, left, field_count>>

\* The buffer is filled up, except that a negative buf_fill looks like a large one.
Read ==
  /\ pc = "read"
  /\ IF buf_fill < 0 THEN Goto("pair") /\ UNCHANGED <<body, buffer>>
     ELSE /\ buf' = Filled(buf, buf_fill) /\ buf_fill' = buf_fill + Give(buf_fill)
          /\ body' = Rest(buf_fill)
          /\ IF buf_fill' < 1 THEN Return(field_count) ELSE Goto("pair")
  /\ UNCHANGED <<form, pos, field, out, left, field_count>>

\* With a negative buf_fill the next field is found in what the buffer held before, even if
\* that was never written; it may have no end, either.
StaleFound(k) ==
  /\ key' = k /\ value' = <<>> /\ flaw' = "stale" /\ file_size' = 0
  /\ IF flaw = "stale"      \* a bound: the second one, and those behind it, are skipped
     THEN UNCHANGED field_count /\ storage' = "SKIP" /\ fp' = FALSE
     ELSE /\ field_count' = field_count + 1
          /\ storage' \in {"SKIP", "GET", "STORE", "ABORT"}
          /\ fp' \in {FALSE, storage' = "STORE"}

Pair ==
  /\ pc = "pair"
  /\ LET eq == strchr(buf, 0, "=")
     IN IF eq = -1
        THEN /\ IF TextEnd(buf, 0) = SIZE THEN Goto("outside") ELSE Return(field_count)
             /\ UNCHANGED <<field, field_count, pos>>
        ELSE /\ IF buf_fill < 0 THEN StaleFound(IF eq = 0 THEN NUL ELSE buf[0])
                ELSE url_encoded_field_found(buf[0])
             /\ pos' = eq + 1
             /\ IF storage' = "ABORT" THEN Return(field_count') ELSE Goto("value")
  /\ UNCHANGED <<form, body, buffer, out, left>>

\* A piece of the value, up to its end or to that of the buffer.
Value ==
  /\ pc = "value"
  /\ LET amp == strchr(buf, pos, "&")
         next == IF amp = -1 THEN TextEnd(buf, pos) ELSE amp + 1
     IN IF amp = -1 /\ next = SIZE
        THEN Goto("outside") /\ UNCHANGED <<buffer, pos, field, left>>
        ELSE /\ Deliver(Text(buf, pos, IF amp = -1 THEN next ELSE amp), amp # -1)
             /\ IF amp = -1
                THEN /\ Goto("value_read") /\ buf' = memmove(buf, next) /\ buf_fill' = Less(next)
                     /\ pos' = IF buf_fill < 0 THEN pos ELSE next
                ELSE Goto("value_end") /\ pos' = next /\ UNCHANGED buffer
  /\ UNCHANGED <<form, body, out, field_count>>

\* Slip: the end of the body is not noticed.
ValueRead_GoesOn ==
  /\ pc = "value_read"
  /\ IF buf_fill < 0 THEN Goto("value") /\ UNCHANGED <<body, buffer, pos>>
     ELSE /\ buf' = Filled(buf, buf_fill) /\ buf_fill' = buf_fill + Give(buf_fill)
          /\ body' = Rest(buf_fill)
          /\ Goto("value") /\ pos' = 0
  /\ UNCHANGED <<form, field, out, left, field_count>>

\* More of it, unless there is nothing more; then next is still where it was.  With a
\* negative buf_fill nothing is read, and val is still where it was.
ValueRead ==
  /\ pc = "value_read"
  /\ IF buf_fill < 0 THEN Goto("value") /\ UNCHANGED <<body, buffer, pos>>
     ELSE /\ buf' = Filled(buf, buf_fill) /\ buf_fill' = buf_fill + Give(buf_fill)
          /\ body' = Rest(buf_fill)
          /\ IF buf_fill' < 1 THEN Goto("value_end") /\ UNCHANGED pos
             ELSE Goto("value") /\ pos' = 0
  /\ UNCHANGED <<form, field, out, left, field_count>>

ValueEnd ==
  /\ pc = "value_end"
  /\ CloseField
  /\ buf' = memmove(buf, pos) /\ buf_fill' = Less(pos)
  /\ Goto("read")
  /\ UNCHANGED <<form, body, pos, field_count>>

\* The head of a part, or the end of the form.
Headers == {f.key : f \in UNION {ToSet(g.fields) : g \in Forms}}
Part ==
  /\ pc = "part"
  /\ LET b == Filled(buf, buf_fill)
         fill == buf_fill + Give(buf_fill)
         next == search_boundary(b, 2, fill)
     IN /\ buf' = b /\ buf_fill' = fill /\ body' = Rest(buf_fill)
        /\ IF fill >= 1 /\ b[0] = "b" /\ b[1] = "r" /\ b[2] \in Headers \ {"bad"}
           THEN /\ url_encoded_field_found(b[2])
                /\ pos' = 3
                /\ Goto(IF next = -1 THEN "piece" ELSE "last")
           ELSE /\ Return(IF fill = 2 /\ b[0] = "b" /\ b[1] = "e" THEN field_count ELSE -1)
                /\ UNCHANGED <<field, field_count, pos>>
  /\ UNCHANGED <<form, out, left>>

\* Slip: one character of what may be a boundary is delivered, too.
Piece_OneMore ==
  /\ pc = "piece"
  /\ LET towrite == buf_fill - pos - 1
     IN IF towrite < 0
        THEN Goto("overrun") /\ UNCHANGED <<buffer, pos, field, left>>
        ELSE /\ Deliver(Text(buf, pos, pos + towrite), FALSE)
             /\ buf' = [i \in Index |-> IF i < 2 THEN buf[pos + towrite + i] ELSE buf[i]]
             /\ buf_fill' = 2 /\ pos' = 0
             /\ Goto("part_read")
  /\ UNCHANGED <<form, body, out, field_count>>

\* All in the buffer but for what may be the beginning of a boundary.  When there is less
\* than that the length is negative, and its conversion to size_t is large.
Piece ==
  /\ pc = "piece"
  /\ LET towrite == buf_fill - pos - 2
     IN IF towrite < 0
        THEN Goto("overrun") /\ UNCHANGED <<buffer, pos, field, left>>
        ELSE /\ Deliver(Text(buf, pos, pos + towrite), FALSE)
             /\ buf' = [i \in Index |-> IF i < 2 THEN buf[pos + towrite + i] ELSE buf[i]]
             /\ buf_fill' = 2 /\ pos' = 0
             /\ Goto("part_read")
  /\ UNCHANGED <<form, body, out, field_count>>

PartRead ==
  /\ pc = "part_read"
  /\ buf' = Filled(buf, buf_fill) /\ buf_fill' = buf_fill + Give(buf_fill)
  /\ body' = Rest(buf_fill)
  /\ Goto(IF search_boundary(buf', 0, buf_fill') = -1 THEN "piece" ELSE "last")
  /\ UNCHANGED <<form, pos, field, out, left, field_count>>

LastPiece ==
  /\ pc = "last"
  /\ Deliver(Text(buf, pos, search_boundary(buf, pos, buf_fill)), TRUE)
  /\ Goto("part_end")
  /\ UNCHANGED <<form, body, buffer, pos, out, field_count>>

PartEnd ==
  /\ pc = "part_end"
  /\ CloseField
  /\ IF storage = "ABORT" THEN Return(field_count) /\ UNCHANGED buffer
     ELSE LET used == search_boundary(buf, pos, buf_fill) + 1
          IN buf' = memmove(buf, used) /\ buf_fill' = buf_fill - used /\ Goto("part")
  /\ UNCHANGED <<form, body, pos, field_count>>

Step ==
  \/ Start \/ QueryFound \/ QueryValue \/ QueryEnd \/ Read \/ Pair \/ Value \/ ValueRead
  \/ ValueEnd \/ Part \/ Piece \/ PartRead \/ LastPiece \/ PartEnd

Next == Step \/ ReadFails

Spec == Init /\ [][Next]_vars
FairSpec == Spec /\ WF_vars(Step)

-----------------------------------------------------------------------------
Whole == form.upto = Len(Encoded(form))

\* Of the fields that were found, those that were sent.
SentCount == IF flaw = "stale" THEN field_count - 1 ELSE field_count

\* A value as the callback ought to get it (the values of a multipart form are decoded, too,
\* though nobody has encoded them), and as a file does.
ValueAsSent(o, sent) ==
  IF "size" \in DOMAIN o THEN o.value = sent /\ o.size = Len(sent)
  ELSE /\ o.flaw = "none" => o.value = Decoded(sent)
       /\ o.flaw = "cut" => Decoded(o.value) = Decoded(sent)

\* Field by field: what was handed over is what was sent, whichever pieces it came in, and
\* each stored file is whole and its size the one told; a form that came whole is handled
\* to its end, and the number returned is that of its fields.  Three things are excepted: an
\* escape that is cut between two pieces is handed over undecoded; a piece for which there is
\* no memory is missing; and behind the last field of an url encoded body, and nowhere else, a
\* field may be told of that was not sent.
FieldsAsSent ==
  /\ \A i \in DOMAIN out :
       IF out[i].flaw = "stale" THEN form.kind = "url" /\ (Whole => SentCount = Len(form.fields))
       ELSE \E j \in DOMAIN form.fields :
              /\ out[i].key = form.fields[j].key
              /\ Whole \/ j < SentCount => ValueAsSent(out[i], form.fields[j].value)
  /\ Whole /\ pc = "done" /\ returned >= 0 /\ storage # "ABORT" =>
       SentCount = Len(form.fields) /\ returned = field_count
  /\ Whole => pc # "overrun"

\* "either store the file completely and call this callback, or remove any partial
\* content": for every call that does not fail.
StoredOrRemoved ==
  pc = "done" /\ returned >= 0 =>
    /\ ~fp
    /\ \A i \in DOMAIN left :
         \E j \in DOMAIN out : "size" \in DOMAIN out[j] /\ out[j].key = left[i].key
                                /\ out[j].value = left[i].value

\* The same, of all calls.
NoPartialContent ==
  pc = "done" =>
    \A i \in DOMAIN left :
      \E j \in DOMAIN out : "size" \in DOMAIN out[j] /\ out[j].key = left[i].key

\* The function returns, except for a multipart form that breaks off within a part, and for
\* an url encoded one behind which the buffer happens to hold one more field, or no end.
FormEnds ==
  <>(pc \in {"done", "outside"} \/ flaw = "stale" \/ (form.kind = "multi" /\ ~Whole))
=============================================================================
