---------------------------- MODULE WebPasswords ----------------------------
(***************************************************************************)
(* Password files of the embedded web server, civetweb.c: how a file is    *)
(* changed, mg_modify_passwords_file, and what a worker thread makes of it *)
(* when a request has to be authorised, check_authorization and what it    *)
(* calls.  The change may end, or be killed, between any two steps; the    *)
(* server reads the file in between.                                       *)
(*                                                                         *)
(* A file is a sequence of lines [kind, user, domain, pass], or Absent.  A *)
(* "record" stands for user:domain:hash, where the hash of the three is    *)
(* written as the password; "meta" for a line that begins with a colon     *)
(* and is a comment, "include" for :include=, "junk" for one without a     *)
(* colon (one with a single colon, which the two readers take differently, *)
(* is left out).  "cut", behind the last line, stands for that this line   *)
(* does not end in a newline.  A record whose hash breaks off has the      *)
(* password None, which nobody can send.                                   *)
(***************************************************************************)
EXTENDS Integers, Sequences, SequencesExt

CONSTANTS
  Users, Domains, Passwords,
  BadNames,    \* names with a colon or a control character, or too long ones
  Files,       \* what the file may hold at first
  Included,    \* what the file holds that an include names, or Absent; no include itself
  DOMAIN_,     \* AUTHENTICATION_DOMAIN of the server
  MaxNonces,   \* bound: how many challenges the server sends
  MaxCalls     \* bound: how often the file is changed

VARIABLES
  pc,          \* the next step of mg_modify_passwords_file, or "idle"
  args,        \* its arguments [user, domain, pass]; pass may be None
  disk,        \* [file, tmp]
  fp,          \* what fp reads
  fp2,         \* what was printed to fp2 and not yet written
  returned,    \* what the last call returned, or -1
  old,         \* history: the file before the call
  lost,        \* history: the call has lost records, see Copy and Close
  calls,       \* how many calls there were
  nonce_count  \* of the server, which began at time start_time = 0

call == <<pc, args, fp, fp2, returned, old, lost, calls>>
vars == <<call, disk, nonce_count>>

None == "none"
Empty == ""
Line(kind, u, d, p) == [kind |-> kind, user |-> u, domain |-> d, pass |-> p]
Absent == <<Line("absent", None, None, None)>>
Record(u, d, p) == Line("record", u, d, p)
Cut == Line("cut", None, None, None)
NoArgs == [user |-> None, domain |-> None, pass |-> None]

Texts == STRING \cup {None}
Lines == [kind : {"record", "meta", "include", "junk", "cut", "absent"},
          user : Texts, domain : Texts, pass : Texts]

FileAssumption ==
  /\ Users \cup BadNames \cup Domains \cup Passwords \subseteq STRING /\ None \notin Users
  /\ Files \subseteq Seq(Lines) /\ Included \in Seq(Lines)
  /\ \A i \in DOMAIN Included : Included[i].kind # "include"
  /\ \A file \in Files \cup {Included} :
       file = Absent \/ \A i \in DOMAIN file : file[i].kind # "absent"
  /\ MaxCalls \in Nat /\ MaxNonces \in Nat

Init ==
  /\ pc = "idle" /\ args = NoArgs /\ fp = <<>> /\ fp2 = <<>> /\ returned = -1
  /\ disk \in [file : Files, tmp : {Absent}]
  /\ old = disk.file /\ lost = FALSE /\ calls = 0
  /\ nonce_count = 0

-----------------------------------------------------------------------------
(* mg_modify_passwords_file                                                *)

At(from, to) == pc = from /\ pc' = to
Returns(v) == pc' = "idle" /\ returned' = v /\ fp' = <<>> /\ fp2' = <<>>

\* An empty password is none: it removes the user.
Call(u, d, p) ==
  /\ pc = "idle" /\ calls < MaxCalls /\ calls' = calls + 1
  /\ args' = [user |-> u, domain |-> d, pass |-> IF p = Empty THEN None ELSE p]
  /\ old' = disk.file /\ lost' = FALSE
  /\ IF u \in BadNames \/ d \in BadNames
     THEN Returns(0)
     ELSE pc' = "create" /\ UNCHANGED <<returned, fp, fp2>>
  /\ UNCHANGED <<disk, nonce_count>>

\* fopen(fname, "a+") makes the file if it is not there, when it can.
Create ==
  /\ At("create", "open")
  /\ \/ disk' = [disk EXCEPT !.file = IF @ = Absent THEN <<>> ELSE @]
     \/ UNCHANGED disk
  /\ UNCHANGED <<args, fp, fp2, returned, old, lost, calls, nonce_count>>

OpenFile ==
  /\ pc = "open"
  /\ \/ disk.file # Absent /\ fp' = disk.file /\ pc' = "open_tmp" /\ UNCHANGED <<returned, fp2>>
     \/ Returns(0)
  /\ UNCHANGED <<args, old, lost, calls, disk, nonce_count>>

\* fopen(tmp, "w+"): an old one is emptied.
OpenTmp ==
  /\ pc = "open_tmp"
  /\ \/ disk' = [disk EXCEPT !.tmp = <<>>] /\ pc' = "copy"
        /\ UNCHANGED <<returned, fp, fp2>>
     \/ Returns(0) /\ UNCHANGED disk
  /\ UNCHANGED <<args, old, lost, calls, nonce_count>>

IsArgs(l) == l.user = args.user /\ l.domain = args.domain
NewLines == IF args.pass = None THEN <<>> ELSE <<Record(args.user, args.domain, args.pass)>>

\* Slip: the records of other users are not copied.
Copied_OnlyMine(l) ==
  IF l.kind # "record" THEN <<>> ELSE IF IsArgs(l) THEN NewLines ELSE <<>>

\* Lines that sscanf cannot take apart are dropped, those with a colon in front too.
Copied(l) ==
  IF l.kind # "record" THEN <<>> ELSE IF IsArgs(l) THEN NewLines ELSE <<l>>

Found == \E i \in DOMAIN fp : fp[i].kind = "record" /\ IsArgs(fp[i])

\* What the first n lines have become.
CopiedLines ==
  LET lines[n \in 0..Len(fp)] == IF n = 0 THEN <<>> ELSE lines[n - 1] \o Copied(fp[n])
  IN lines

\* The last line of the copy has no newline, because the one that it is a copy of has none.
EndsCut ==
  /\ Len(fp) > 1 /\ fp[Len(fp)].kind = "cut"
  /\ fp[Len(fp) - 1].kind = "record" /\ ~IsArgs(fp[Len(fp) - 1])

\* A new record is put behind the copy; behind a line without newline it becomes a part of
\* that line, whose hash is wrong then.
Copy ==
  /\ At("copy", "close")
  /\ LET copied == CopiedLines[Len(fp)]
         new == IF Found THEN <<>> ELSE NewLines
     IN \/ ~EndsCut /\ fp2' = copied \o new /\ UNCHANGED lost
        \/ EndsCut /\ new = <<>> /\ fp2' = Append(copied, Cut) /\ UNCHANGED lost
        \/ /\ EndsCut /\ new # <<>> /\ lost' = TRUE
           /\ fp2' = [copied EXCEPT ![Len(copied)].pass = None]
  /\ UNCHANGED <<args, fp, returned, old, calls, disk, nonce_count>>

\* What was printed is written now, in pieces if the process dies meanwhile.
Flush ==
  /\ pc = "close" /\ Len(disk.tmp) < Len(fp2)
  /\ disk' = [disk EXCEPT !.tmp = SubSeq(fp2, 1, Len(@) + 1)]
  /\ UNCHANGED <<call, nonce_count>>

\* What is left of a line that was written in part.
Pieces(l) ==
  {<<>>, <<Line("junk", None, None, None), Cut>>, <<[l EXCEPT !.pass = None], Cut>>, <<l, Cut>>}

\* Nobody asks whether all of it could be written: when the disk is full the file ends
\* anywhere.
Close ==
  /\ At("close", "remove")
  /\ \/ disk.tmp = fp2 /\ UNCHANGED <<disk, lost>>
     \/ /\ Len(disk.tmp) < Len(fp2) /\ fp2[Len(disk.tmp) + 1].kind = "record"
        /\ \E piece \in Pieces(fp2[Len(disk.tmp) + 1]) : disk' = [disk EXCEPT !.tmp = @ \o piece]
        /\ lost' = TRUE
  /\ UNCHANGED <<args, fp, fp2, returned, old, calls, nonce_count>>

RemoveOld ==
  /\ At("remove", "rename")
  /\ \/ disk' = [disk EXCEPT !.file = Absent]
     \/ UNCHANGED disk
  /\ UNCHANGED <<args, fp, fp2, returned, old, lost, calls, nonce_count>>

\* Whether it succeeds is not looked at.
Rename ==
  /\ pc = "rename" /\ Returns(1)
  /\ \/ disk' = [file |-> disk.tmp, tmp |-> Absent]
     \/ UNCHANGED disk
  /\ UNCHANGED <<args, old, lost, calls, nonce_count>>

\* The process that changes the file is killed.
Killed ==
  /\ pc # "idle" /\ Returns(-1)
  /\ UNCHANGED <<args, old, lost, calls, disk, nonce_count>>

-----------------------------------------------------------------------------
(* The server                                                              *)

\* send_authorization_request: a nonce that no other challenge has.
Challenge ==
  /\ nonce_count < MaxNonces
  /\ nonce_count' = nonce_count + 1
  /\ UNCHANGED <<call, disk>>

\* Slip: the nonce of the next challenge is accepted, too.
parse_auth_header_NextNonce(q) == q.nonce \in 0..nonce_count /\ q.user # None

\* parse_auth_header: the nonce is one that this server has sent, and there is a user.
parse_auth_header(q) == q.nonce \in 0..nonce_count - 1 /\ q.user # None

check_password(l, q) == q.pass # None /\ q.pass = l.pass

\* The loop over a file's lines: the first record of the user ends it; without one it is
\* the verdict of the last include, if there was any.
Loop(lines, q, of_include) ==
  LET i == SelectInSeq(lines, LAMBDA l : l.kind = "record" /\ l.user = q.user
                                         /\ l.domain = DOMAIN_)
  IN IF i # 0 THEN check_password(lines[i], q)
     ELSE of_include /\ \E k \in DOMAIN lines : lines[k].kind = "include"

read_auth_file(lines, q) == Loop(lines, q, Loop(Included, q, FALSE))

authorize(lines, q) == parse_auth_header(q) /\ read_auth_file(lines, q)

\* Where there is no password file everything is authorised for reading, and nothing for
\* PUT and DELETE.
check_authorization(file, q) == file = Absent \/ authorize(file, q)
is_authorized_for_put(file, q) == file # Absent /\ authorize(file, q)

Modify ==
  \/ \E u \in Users \cup BadNames, d \in Domains, p \in Passwords \cup {Empty} : Call(u, d, p)
  \/ Create \/ OpenFile \/ OpenTmp \/ Copy \/ Flush \/ Close \/ RemoveOld \/ Rename \/ Killed

Next == Modify \/ Challenge

-----------------------------------------------------------------------------
\* The password of u in d that a file holds.
Lookup(file, u, d) ==
  IF file # Absent /\ \E i \in DOMAIN file : file[i] = Record(u, d, file[i].pass)
  THEN file[SelectInSeq(file, LAMBDA l : l.kind = "record" /\ l.user = u /\ l.domain = d)].pass
  ELSE None

\* new is old but for the arguments; when records were lost, then some user's password may
\* be missing in it, and no other is wrong.
Updated(new) ==
  \A u \in Users, d \in Domains :
    \/ Lookup(new, u, d) = IF u = args.user /\ d = args.domain THEN args.pass
                           ELSE Lookup(old, u, d)
    \/ lost /\ Lookup(new, u, d) = None

\* What a call, however it ends, has made of the passwords: all as before, or all as
\* asked for; or there is no file, and the temporary one is complete and as asked for.
\* A call that returned 1 has not left them as before, unless rename failed.  Two things
\* lose records, and 1 is returned all the same: a disk that was full while the copy was
\* written, and a new record behind a line without newline.
PasswordsSurvive ==
  /\ \/ disk.file = old
     \/ old = Absent /\ disk.file = <<>>
     \/ disk.file # Absent /\ Updated(disk.file)
     \/ disk.file = Absent /\ disk.tmp # Absent /\ Updated(disk.tmp)
  /\ pc = "idle" /\ returned = 1 =>
       \/ disk.file # Absent /\ Updated(disk.file)
       \/ disk.tmp # Absent /\ Updated(disk.tmp)

\* What a worker thread would make of a request now: it is let in with the password of
\* its user's first record, when it answers a challenge that was sent, and with no other;
\* by an include only when there is no such record.  Without a file all may read and
\* nobody may write.
VerdictByRecord ==
  \A u \in Users, p \in Passwords \cup {None}, n \in 0..MaxNonces :
    LET q == [user |-> u, pass |-> p, nonce |-> n]
        here == Lookup(disk.file, u, DOMAIN_)
        there == Lookup(Included, u, DOMAIN_)
        answers == n < nonce_count /\ p # None
    IN /\ is_authorized_for_put(disk.file, q) =>
            check_authorization(disk.file, q) /\ answers /\ p \in {here, there}
       /\ disk.file # Absent =>
            /\ check_authorization(disk.file, q) => is_authorized_for_put(disk.file, q)
            /\ here # None =>
                 (check_authorization(disk.file, q) <=> answers /\ p = here)
=============================================================================
