------------------------------ MODULE WebText ------------------------------
(***************************************************************************)
(* The pure functions of the embedded server (civetweb.c): URL encoding,   *)
(* form variables, cookies, header lines, absolute URIs, patterns, comma   *)
(* separated options, base64, the cleaning of a path, the order of a       *)
(* directory, access and throttle lists and the list of ports.  A call is  *)
(* a behaviour of one step, from a sample to its answer; the invariants    *)
(* compare the answers with definitions that say what is wanted.           *)
(*                                                                         *)
(* A character is its code; a string ends where the sequence does.         *)
(***************************************************************************)
EXTENDS Integers, FiniteSets, SequencesExt

CONSTANTS
  Samples,      \* for each function, the arguments it is called with: a set of records
  BITS,         \* the bits of an address: 32
  MAX_HEADERS,  \* the header lines there is room for: 64
  PORT_LIMIT    \* what a port is below: 65535

VARIABLES sample, answer
vars == <<sample, answer>>

Pending == [ret |-> 0, dst |-> <<>>, pending |-> TRUE]
Answer(ret, dst) == [ret |-> ret, dst |-> dst, pending |-> FALSE]

TAB == 9
LF == 10
CR == 13
SPACE == 32
QUOTE == 34
DOLLAR == 36
PERCENT == 37
AMPERSAND == 38
STAR == 42
PLUS == 43
COMMA == 44
MINUS == 45
DOT == 46
SLASH == 47
COLON == 58
SEMICOLON == 59
EQUALS == 61
QUESTION == 63
BACKSLASH == 92
BAR == 124

Digits == 48..57
Upper == 65..90
Lower == 97..122
isalnum(c) == c \in Digits \cup Upper \cup Lower
isxdigit(c) == c \in Digits \cup 65..70 \cup 97..102
lowercase(c) == IF c \in Upper THEN c + 32 ELSE c

\* strchr: the place of the first c at or after from, or the end of the string.
Find(s, c, from) ==
  IF \E i \in from..Len(s) : s[i] = c THEN Min({i \in from..Len(s) : s[i] = c}) ELSE Len(s) + 1
From(s, i) == SubSeq(s, i, Len(s))

-----------------------------------------------------------------------------
(* URL encoding.                                                           *)

dont_escape == {46, 95, 45, 36, 44, 59, 126, 40, 41}   \* ._-$,;~()
Hex(n) == IF n < 10 THEN 48 + n ELSE 87 + n
HEXTOI(c) == IF c \in Digits THEN c - 48 ELSE lowercase(c) - 87

\* Character by character while there is room, the terminating zero reserved.
RECURSIVE Encode(_, _, _)
Encode(src, dst, end) ==
  IF src = <<>> \/ Len(dst) >= end THEN Answer(IF src = <<>> THEN Len(dst) ELSE -1, dst)
  ELSE LET c == Head(src) IN
    IF isalnum(c) \/ c \in dont_escape THEN Encode(Tail(src), Append(dst, c), end)
    ELSE IF Len(dst) + 2 < end
      THEN Encode(Tail(src), dst \o <<PERCENT, Hex(c \div 16), Hex(c % 16)>>, end)
    ELSE Answer(-1, dst)

mg_url_encode(src, dst_len) == Encode(src, <<>>, dst_len - 1)

RECURSIVE Decode(_, _, _, _)
Decode(src, dst, dst_len, form) ==
  IF src = <<>> \/ Len(dst) >= dst_len - 1 THEN Answer(IF src = <<>> THEN Len(dst) ELSE -1, dst)
  ELSE LET c == Head(src) IN
    IF Len(src) > 2 /\ c = PERCENT /\ isxdigit(src[2]) /\ isxdigit(src[3])
      THEN Decode(SubSeq(src, 4, Len(src)), Append(dst, HEXTOI(src[2]) * 16 + HEXTOI(src[3])),
                  dst_len, form)
    ELSE Decode(Tail(src), Append(dst, IF form /\ c = PLUS THEN SPACE ELSE c), dst_len, form)

mg_url_decode(src, dst_len, form) == Decode(src, <<>>, dst_len, form)

-----------------------------------------------------------------------------
(* Variables of a form, and lists of options.                              *)

mg_strncasecmp(s1, s2) == [i \in DOMAIN s1 |-> lowercase(s1[i])] = [i \in DOMAIN s2 |-> lowercase(s2[i])]

\* The places in data where the variable begins.
Variable(data, name) ==
  {p \in 1..(Len(data) - Len(name)) :
     /\ p = 1 \/ data[p - 1] = AMPERSAND
     /\ data[p + Len(name)] = EQUALS
     /\ mg_strncasecmp(name, SubSeq(data, p, p + Len(name) - 1))}

ValueEnd(data, p) ==
  IF \E s \in p..Len(data) : data[s] = AMPERSAND
  THEN Min({s \in p..Len(data) : data[s] = AMPERSAND}) - 1
  ELSE Len(data)

mg_get_var2(data, name, dst_len, occurrence) ==
  LET places == {p \in Variable(data, name) :
                   Cardinality({q \in Variable(data, name) : q < p}) = occurrence}
      value(p) == p + Len(name) + 1
  IN IF dst_len = 0 THEN Answer(-2, <<>>)
     ELSE IF data = <<>> \/ places = {} THEN Answer(-1, <<>>)
     ELSE LET p == value(CHOOSE q \in places : TRUE)
              d == mg_url_decode(SubSeq(data, p, ValueEnd(data, p)), dst_len, TRUE)
          IN IF d.ret = -1 THEN [d EXCEPT !.ret = -2] ELSE d

IsBlank(c) == c \in {SPACE, TAB}
RECURSIVE Trimmed(_)
Trimmed(s) == IF s = <<>> \/ ~IsBlank(Last(s)) THEN s ELSE Trimmed(Front(s))

\* The values next_option returns, one call after the other; empty ones are passed over.
RECURSIVE next_option(_)
next_option(list) ==
  LET leading == IF \E i \in DOMAIN list : ~IsBlank(list[i])
                 THEN Min({i \in DOMAIN list : ~IsBlank(list[i])}) - 1 ELSE Len(list)
      rest == SubSeq(list, leading + 1, Len(list))
      comma == IF Contains(rest, COMMA) THEN Min({i \in DOMAIN rest : rest[i] = COMMA})
               ELSE Len(rest) + 1
      value == Trimmed(SubSeq(rest, 1, comma - 1))
      after == SubSeq(rest, comma + 1, Len(rest))
      eq == IF Contains(value, EQUALS) THEN Min({i \in DOMAIN value : value[i] = EQUALS})
            ELSE Len(value) + 1
  IN IF list = <<>> THEN <<>>
     ELSE IF value = <<>> THEN next_option(after)
     ELSE <<[val |-> SubSeq(value, 1, eq - 1), eq |-> SubSeq(value, eq + 1, Len(value))]>>
            \o next_option(after)

-----------------------------------------------------------------------------
(* Base 64; a letter is its index, PAD is '='.                             *)
PAD == 64

RECURSIVE base64_encode(_)
base64_encode(src) ==
  LET a == src[1]
      b == IF Len(src) < 2 THEN 0 ELSE src[2]
      c == IF Len(src) < 3 THEN 0 ELSE src[3]
  IN IF src = <<>> THEN <<>>
     ELSE <<a \div 4, (a % 4) * 16 + b \div 16,
            IF Len(src) < 2 THEN PAD ELSE (b % 16) * 4 + c \div 64,
            IF Len(src) < 3 THEN PAD ELSE c % 64>>
          \o base64_encode(SubSeq(src, 4, Len(src)))

b64reverse(letter) == IF letter = PAD THEN 255 ELSE IF letter \in 0..63 THEN letter ELSE 254

\* The index of the first bad letter, counted from 0, or -1, and the bytes before it.
RECURSIVE Decode64(_, _, _)
Decode64(src, i, dst) ==
  LET letter(k) == b64reverse(IF Len(src) < k THEN 0 ELSE src[k])
      a == letter(1)  b == letter(2)  c == letter(3)  d == letter(4)
      bytes == <<(a * 4 + b \div 16) % 256>>
                 \o (IF c = 255 THEN <<>> ELSE <<(b * 16 + c \div 4) % 256>>
                      \o (IF d = 255 THEN <<>> ELSE <<(c * 64 + d) % 256>>))
  IN IF src = <<>> THEN Answer(-1, dst)
     ELSE IF a >= 254 THEN Answer(i, dst)
     ELSE IF b >= 254 THEN Answer(i + 1, dst)
     ELSE IF c = 254 THEN Answer(i + 2, dst)
     ELSE IF d = 254 THEN Answer(i + 3, dst)
     ELSE Decode64(SubSeq(src, 5, Len(src)), i + 4, dst \o bytes)

base64_decode(src) == Decode64(src, 0, <<>>)

-----------------------------------------------------------------------------
(* Cookies, header lines, URIs, patterns and directories.                  *)

mg_strcasestr(s, t, from) ==
  {p \in from..(Len(s) - Len(t) + 1) : mg_strncasecmp(SubSeq(s, p, p + Len(t) - 1), t)}

\* The cookie's value ends at a space; a semicolon before that and the quotes are taken off.
CookieValue(s, v) ==
  LET space == Find(s, SPACE, v) - 1
      end == IF s[space] = SEMICOLON THEN space - 1 ELSE space
  IN IF v < end /\ s[v] = QUOTE /\ s[end] = QUOTE THEN SubSeq(s, v + 1, end - 1)
     ELSE SubSeq(s, v, end)

RECURSIVE Cookie(_, _, _, _)
Cookie(s, name, dst_size, from) ==
  LET p == Min(mg_strcasestr(s, name, from))
      v == p + Len(name) + 1
  IN IF mg_strcasestr(s, name, from) = {} THEN Answer(-1, <<>>)
     ELSE IF v > Len(s) + 1 \/ s[v - 1] # EQUALS THEN Cookie(s, name, dst_size, v - 1)
     ELSE IF Len(CookieValue(s, v)) < dst_size
       THEN Answer(Len(CookieValue(s, v)), CookieValue(s, v))
     ELSE Answer(-3, <<>>)

mg_get_cookie(s, name, dst_size) ==
  IF dst_size = 0 THEN Answer(-2, <<>>) ELSE Cookie(s, name, dst_size, 1)

\* The header lines at the beginning of s, at most room of them; NONE is no value.
NONE == <<-1>>
RECURSIVE parse_http_headers(_, _)
parse_http_headers(s, room) ==
  LET dp == Min({Find(s, COLON, 1), Find(s, CR, 1)})
      bare == s[dp] = CR
      value == Min({i \in (dp + 1)..(Len(s) + 1) : i > Len(s) \/ s[i] # SPACE})
      ends == {i \in (IF bare THEN dp ELSE value)..(Len(s) - 1) : s[i] = CR /\ s[i + 1] = LF}
      header == [name |-> SubSeq(s, 1, dp - 1),
                 value |-> IF bare THEN NONE
                           ELSE SubSeq(s, value, IF ends = {} THEN Len(s) ELSE Min(ends) - 1)]
      rest == From(s, Min(ends) + 2)
  IN IF room = 0 \/ dp > Len(s) \/ (bare /\ dp \notin ends) THEN <<>>
     ELSE IF ends = {} \/ (rest # <<>> /\ rest[1] = CR) THEN <<header>>
     ELSE <<header>> \o parse_http_headers(rest, room - 1)

RECURSIVE strtoul(_)
strtoul(digits) ==
  IF digits = <<>> THEN 0 ELSE 10 * strtoul(Front(digits)) + Last(digits) - 48

is_valid_port(port) == port < PORT_LIMIT

\* The characters of s from one place up to another are a port, and nothing else.
IsPort(s, from, end) ==
  LET digits == SubSeq(s, from, end - 1)
  IN /\ \A i \in DOMAIN digits : digits[i] \in Digits
     /\ strtoul(digits) # 0 /\ is_valid_port(strtoul(digits))

\* A URI is the default port of its protocol, 0 when it has none, and what follows the protocol.
get_uri_type(uri) ==
  LET s == uri.rest
      hostend == Find(s, SLASH, 1)
      portbegin == Find(s, COLON, 1)
  IN IF uri.proto = 0
       THEN IF s = <<STAR>> THEN 1 ELSE IF s # <<>> /\ s[1] = SLASH THEN 2 ELSE 0
     ELSE IF hostend > Len(s) THEN 0
     ELSE IF portbegin > Len(s) THEN 3
     ELSE IF IsPort(s, portbegin + 1, hostend) THEN 4 ELSE 0

\* The path, or NONE when the server's domain or port is another.
get_rel_url_at_current_server(uri, domain, sin_port) ==
  LET s == uri.rest
      hostend == Find(s, SLASH, 1)
      portbegin == Find(s, COLON, 1)
      default == portbegin > hostend \/ portbegin > Len(s)
      port == IF default THEN uri.proto ELSE strtoul(SubSeq(s, portbegin + 1, hostend - 1))
      host == SubSeq(s, 1, (IF default THEN hostend ELSE portbegin) - 1)
  IN IF /\ domain # <<>> /\ uri.proto # 0 /\ hostend <= Len(s)
        /\ default \/ IsPort(s, portbegin + 1, hostend)
        /\ port = sin_port /\ host = domain
     THEN From(s, hostend) ELSE NONE

\* How long a prefix of str the pattern matches, or -1.  A star takes as much as it can, and
\* gives back until the rest of the pattern matches.
RECURSIVE match_prefix(_, _)
RECURSIVE GiveBack(_, _, _)
GiveBack(pattern, str, len) ==
  LET res == match_prefix(pattern, From(str, len + 1))
  IN IF res # -1 THEN res + len
     ELSE IF len = 0 THEN -1 ELSE GiveBack(pattern, str, len - 1)

match_prefix(pattern, str) ==
  LET bar == Find(pattern, BAR, 1)
      first == match_prefix(SubSeq(pattern, 1, bar - 1), str)
      c == Head(pattern)
      twice == Len(pattern) > 1 /\ pattern[2] = STAR
      rest == From(pattern, IF twice THEN 3 ELSE 2)
      len == IF twice THEN Len(str) ELSE Find(str, SLASH, 1) - 1
      after == match_prefix(Tail(pattern), Tail(str))
  IN IF bar <= Len(pattern)
       THEN IF first > 0 THEN first ELSE match_prefix(From(pattern, bar + 1), str)
     ELSE IF pattern = <<>> THEN 0
     ELSE IF c = DOLLAR THEN IF str = <<>> THEN 0 ELSE -1
     ELSE IF c = STAR THEN IF rest = <<>> THEN len ELSE GiveBack(rest, str, len)
     ELSE IF str = <<>> \/ (c # QUESTION /\ lowercase(c) # lowercase(str[1])) THEN -1
     ELSE IF after = -1 THEN -1 ELSE after + 1

Sign(n) == IF n > 0 THEN 1 ELSE IF n < 0 THEN -1 ELSE 0

\* The order of a directory's entries: by name, size or date, "d" downwards.
compare_dir_entries(a, b, query) ==
  LET cmp_result == IF query[1] \in {"name", "size", "date"} THEN Sign(a[query[1]] - b[query[1]]) ELSE 0
  IN IF a.is_directory /\ ~b.is_directory THEN -1
     ELSE IF ~a.is_directory /\ b.is_directory THEN 1
     ELSE IF query[2] = "d" THEN -cmp_result ELSE cmp_result

-----------------------------------------------------------------------------
(* Paths, addresses and ports.                                             *)

\* What follows a slash is skipped as long as it is a slash or "..".
RECURSIVE Skip(_)
Skip(s) ==
  IF s # <<>> /\ s[1] \in {SLASH, BACKSLASH} THEN Skip(Tail(s))
  ELSE IF Len(s) > 1 /\ s[1] = DOT /\ s[2] = DOT THEN Skip(SubSeq(s, 3, Len(s)))
  ELSE s

RECURSIVE remove_double_dots_and_double_slashes(_)
remove_double_dots_and_double_slashes(s) ==
  IF s = <<>> THEN <<>>
  ELSE <<s[1]>> \o remove_double_dots_and_double_slashes(
                     IF s[1] \in {SLASH, BACKSLASH} THEN Skip(Tail(s)) ELSE Tail(s))

\* parse_net: the bits of the mask are set; the host's bits of the net are left as they are.
Masked(address, bits) == (address \div (2 ^ (BITS - bits))) * (2 ^ (BITS - bits))

\* Slip: an entry that allows is not overridden by a later one.
check_acl_FirstEntry(acl, remote_ip) ==
  LET list == acl.list
      allowed == FoldLeft(LAMBDA flag, e : IF flag = MINUS /\ e.net = Masked(remote_ip, e.bits) THEN e.flag ELSE flag,
                          IF acl.set THEN MINUS ELSE PLUS, list)
  IN IF \E i \in DOMAIN list : list[i].flag \notin {PLUS, MINUS} \/ list[i].bits \notin 0..BITS
     THEN Answer(-1, <<>>) ELSE Answer(IF allowed = PLUS THEN 1 ELSE 0, <<>>)

\* 1 when the last entry that matches, or no list at all, allows the address; -1 at a bad entry.
check_acl(acl, remote_ip) ==
  LET list == acl.list
      allowed == FoldLeft(LAMBDA flag, e : IF e.net = Masked(remote_ip, e.bits) THEN e.flag ELSE flag,
                          IF acl.set THEN MINUS ELSE PLUS, list)
  IN IF \E i \in DOMAIN list : list[i].flag \notin {PLUS, MINUS} \/ list[i].bits \notin 0..BITS
     THEN Answer(-1, <<>>) ELSE Answer(IF allowed = PLUS THEN 1 ELSE 0, <<>>)

\* A throttle's value: a number, 0 or more, alone or with a letter that says how many.
Bytes(e) == e.v * (IF e.mult = "k" THEN 1024 ELSE IF e.mult = "m" THEN 1048576 ELSE 1)
IsThrottle(e) == e.v >= 0 /\ e.mult \in {",", "k", "m"}

\* The last entry that is one, and is for everybody, for the net or for the URI, decides.
set_throttle(spec, remote_ip, uri) ==
  FoldLeft(LAMBDA throttle, e :
             IF /\ IsThrottle(e)
                /\ CASE e.who = "*" -> TRUE
                     [] e.who = "net" -> e.net = Masked(remote_ip, e.bits)
                     [] e.who = "uri" -> match_prefix(e.pattern, uri) > 0
             THEN Bytes(e) ELSE throttle,
           0, spec)

\* One port: the sockets listening so far, and whether the table of sockets was freed under them.
\* An entry fails at some step, or not ("ok"), and after socket() closes what it had opened.
OpenPort(open, fate) ==
  CASE fate = "ok" -> [open EXCEPT !.sockets = @ + 1]
    [] fate \in {"parse", "ssl", "socket", "bind", "listen", "getsockname", "sockets"} -> open
    [] fate = "ports" -> [open EXCEPT !.freed = @ \/ open.sockets > 0]

\* The number of ports, when every entry could be opened; or else all of them are closed again.
set_ports_option(fates) ==
  LET open == FoldLeft(OpenPort, [sockets |-> 0, freed |-> FALSE], fates)
  IN IF open.sockets = Len(fates) THEN Answer(Len(fates), open)
     ELSE Answer(0, [open EXCEPT !.sockets = 0])

-----------------------------------------------------------------------------
Init == (\E f \in DOMAIN Samples : sample \in Samples[f]) /\ answer = Pending

Call(name, result) ==
  /\ answer = Pending /\ sample.call = name
  /\ answer' = result
  /\ UNCHANGED sample

Next ==
  \/ Call("mg_url_encode", mg_url_encode(sample.src, sample.dst_len))
  \/ Call("mg_url_decode", mg_url_decode(sample.src, sample.dst_len, sample.form))
  \/ Call("mg_get_var2", mg_get_var2(sample.data, sample.name, sample.dst_len, sample.occurrence))
  \/ Call("next_option", Answer(0, next_option(sample.list)))
  \/ Call("base64", base64_decode(base64_encode(sample.src)))
  \/ Call("remove_double_dots", Answer(0, remove_double_dots_and_double_slashes(sample.src)))
  \/ Call("check_acl", check_acl(sample.acl, sample.ip))
  \/ Call("mg_get_cookie", mg_get_cookie(sample.header, sample.name, sample.dst_size))
  \/ Call("parse_http_headers", Answer(0, parse_http_headers(sample.buf, MAX_HEADERS)))
  \/ Call("uri", Answer(get_uri_type(sample.uri),
                        get_rel_url_at_current_server(sample.uri, sample.domain, sample.port)))
  \/ Call("match_prefix", Answer(match_prefix(sample.pattern, sample.str), <<>>))
  \/ Call("compare_dir_entries", Answer(compare_dir_entries(sample.a, sample.b, sample.query), <<>>))
  \/ Call("set_throttle", Answer(set_throttle(sample.spec, sample.ip, <<97>>), <<>>))
  \/ Call("set_ports_option", set_ports_option(sample.fates))

Spec == Init /\ [][Next]_vars

-----------------------------------------------------------------------------
(* What is wanted.                                                         *)

Answered(name) == ~answer.pending /\ sample.call = name

\* An encoded string that fits its buffer decodes to the string, through a form or not (a plus is
\* encoded); one that does not fit says so; and neither call writes past its buffer.
EncodingIsInverse ==
  /\ Answered("mg_url_encode") =>
       /\ Len(answer.dst) < sample.dst_len
       /\ IF answer.ret = -1
            THEN sample.dst_len <= 3 * Len(sample.src)
            ELSE \A form \in BOOLEAN :
                   mg_url_decode(answer.dst, sample.dst_len, form) = Answer(Len(sample.src), sample.src)
  /\ Answered("mg_url_decode") =>
       /\ Len(answer.dst) < sample.dst_len
       /\ answer.ret \in {-1, Len(answer.dst)}
  /\ Answered("base64") => answer = Answer(-1, sample.src)

\* The pieces of a string between separators.
RECURSIVE Split(_, _)
Split(s, sep) ==
  IF ~Contains(s, sep) THEN <<s>>
  ELSE LET i == Min({j \in DOMAIN s : s[j] = sep})
       IN <<SubSeq(s, 1, i - 1)>> \o Split(SubSeq(s, i + 1, Len(s)), sep)

\* The values of a variable are those of the fields of that name, in their order, as they were
\* before they were encoded; a buffer that is too small is told from a variable that is not there.
VariableIsFound ==
  Answered("mg_get_var2") =>
    LET n == Len(sample.name)
        named(f) == /\ Len(f) > n /\ f[n + 1] = EQUALS
                    /\ mg_strncasecmp(SubSeq(f, 1, n), sample.name)
        fields == SelectSeq(Split(sample.data, AMPERSAND), named)
        value == LET f == fields[sample.occurrence + 1] IN SubSeq(f, n + 2, Len(f))
        whole == mg_url_decode(value, Len(value) + 1, TRUE)
    IN IF sample.dst_len = 0 THEN answer.ret = -2
       ELSE IF sample.occurrence >= Len(fields) THEN answer.ret = -1
       ELSE IF whole.ret < sample.dst_len THEN answer = whole
       ELSE answer.ret = -2

\* Every option of a list is met once, in order, without the blanks around it.
OptionsAreMet ==
  Answered("next_option") =>
    LET trim(s) == Trimmed(Reverse(Trimmed(Reverse(s))))
        pieces == SelectSeq([i \in DOMAIN Split(sample.list, COMMA) |-> trim(Split(sample.list, COMMA)[i])],
                            LAMBDA s : s # <<>>)
        glued(o) == o.val \o (IF o.eq = <<>> THEN <<>> ELSE <<EQUALS>> \o o.eq)
    IN /\ Len(answer.dst) = Len(pieces)
       /\ \A i \in DOMAIN pieces :
            \/ pieces[i] = glued(answer.dst[i])
            \/ pieces[i] = Append(glued(answer.dst[i]), EQUALS)

\* A cleaned path that begins with a slash climbs nowhere, and has no two slashes in a row.
PathStaysBelow ==
  Answered("remove_double_dots") =>
    \A i \in 1..(Len(answer.dst) - 1) :
      answer.dst[i] \in {SLASH, BACKSLASH} =>
        /\ answer.dst[i + 1] \notin {SLASH, BACKSLASH}
        /\ i + 2 <= Len(answer.dst) => ~(answer.dst[i + 1] = DOT /\ answer.dst[i + 2] = DOT)

\* A list denies what it does not name; of the entries that name an address the last decides.
LastEntryDecides ==
  Answered("check_acl") =>
    LET list == sample.acl.list
        names == {i \in DOMAIN list :
                    \A b \in 1..list[i].bits :
                      (sample.ip \div 2 ^ (BITS - b)) % 2 = (list[i].net \div 2 ^ (BITS - b)) % 2}
    IN answer.ret >= 0 =>
         (answer.ret = 1) <=> IF names # {} THEN list[Max(names)].flag = PLUS ELSE ~sample.acl.set

\* A cookie is found among well-formed ones with its value, if its name ends no other name and is
\* in no value (the search does not know where a name begins).
CookieIsFound ==
  Answered("mg_get_cookie") =>
    LET cookies == [i \in DOMAIN Split(sample.header, SPACE) |->
                      LET c == Split(sample.header, SPACE)[i]
                      IN IF c # <<>> /\ Last(c) = SEMICOLON THEN Front(c) ELSE c]
        begins(c) == Len(c) > Len(sample.name) /\ mg_strncasecmp(SubSeq(c, 1, Len(sample.name) + 1), Append(sample.name, EQUALS))
        found == SelectSeq(cookies, begins)
        value == From(found[1], Len(sample.name) + 2)
        whole == IF Len(value) > 1 /\ value[1] = QUOTE /\ Last(value) = QUOTE
                 THEN SubSeq(value, 2, Len(value) - 1) ELSE value
        plain == \A i \in DOMAIN cookies :
                   mg_strcasestr(cookies[i], Append(sample.name, EQUALS), 2) = {}
    IN plain /\ sample.dst_size > 0 =>
         IF found = <<>> THEN answer.ret = -1
         ELSE IF Len(whole) < sample.dst_size THEN answer = Answer(Len(whole), whole)
         ELSE answer.ret = -3

\* The lines of a head, each with its colon, are the headers in their order, as many as there is
\* room for; and whatever the text, no name holds a colon and no value an end of line.
HeadersAreLines ==
  Answered("parse_http_headers") =>
    LET eol(s, i) == s[i] = CR /\ s[i + 1] = LF
        lines == Split(Front(sample.buf), CR)
        wellformed ==
          /\ sample.buf # <<>> /\ Last(sample.buf) = CR /\ Len(lines) > 1
          /\ Last(lines) = <<LF>>
          /\ \A i \in 1..(Len(lines) - 1) :
               /\ i > 1 => lines[i] # <<>> /\ lines[i][1] = LF
               /\ Contains(lines[i], COLON)
        line(i) == IF i = 1 THEN lines[1] ELSE Tail(lines[i])
        n == Min({MAX_HEADERS, Len(lines) - 1})
    IN /\ \A i \in DOMAIN answer.dst :
            /\ ~Contains(answer.dst[i].name, COLON)
            /\ \A k \in 1..(Len(answer.dst[i].value) - 1) : ~eol(answer.dst[i].value, k)
       /\ wellformed =>
            /\ Len(answer.dst) = n
            /\ \A i \in 1..n :
                 \E k \in 0..Len(line(i)) :
                   line(i) = answer.dst[i].name \o <<COLON>> \o [j \in 1..k |-> SPACE]
                               \o answer.dst[i].value

\* An absolute URI without a colon in its path is accepted if its authority is a host with a port
\* or without; and its path is looked for here if that names this server.
UriIsSplit ==
  Answered("uri") /\ sample.uri.proto # 0 =>
    LET s == sample.uri.rest
        slash == Find(s, SLASH, 1)
        parts == Split(SubSeq(s, 1, slash - 1), COLON)
        port == IF Len(parts) = 1 THEN sample.uri.proto ELSE strtoul(parts[2])
        valid == /\ slash <= Len(s) /\ Len(parts) <= 2
                 /\ Len(parts) = 2 =>
                      /\ \A i \in DOMAIN parts[2] : parts[2][i] \in Digits
                      /\ port # 0 /\ port < PORT_LIMIT
        here == valid /\ parts[1] = sample.domain /\ port = sample.port
    IN ~Contains(From(s, slash), COLON) =>
         /\ answer.ret = IF ~valid THEN 0 ELSE IF Len(parts) = 1 THEN 3 ELSE 4
         /\ answer.dst = IF here THEN From(s, slash) ELSE NONE

\* The lengths of the prefixes that a pattern without alternatives stands for.
RECURSIVE Stands(_, _)
Stands(pattern, str) ==
  IF pattern = <<>> THEN {0}
  ELSE IF pattern[1] = DOLLAR THEN {0} \cap {Len(str)}
  ELSE LET skip == IF Len(pattern) > 1 /\ pattern[1] = STAR /\ pattern[2] = STAR THEN 2 ELSE 1
           taken == IF pattern[1] # STAR
                    THEN {1} \cap {k \in 1..Len(str) : pattern[1] \in {QUESTION, str[1]}}
                    ELSE {k \in 0..Len(str) : skip = 2 \/ \A i \in 1..k : str[i] # SLASH}
       IN UNION {{k + l : l \in Stands(From(pattern, skip + 1), From(str, k + 1))} : k \in taken}

\* A pattern matches if and only if one of its alternatives stands for a prefix that is not
\* empty, and then what it matches is such a prefix.
PatternsMatch ==
  Answered("match_prefix") =>
    LET alternatives == Split(sample.pattern, BAR)
        lengths == UNION {Stands(alternatives[i], sample.str) : i \in DOMAIN alternatives}
    IN IF lengths \subseteq {0} THEN answer.ret <= 0 ELSE answer.ret \in lengths \ {0}

\* qsort needs an order: turned round it is the opposite, and it is transitive.
EntriesAreOrdered ==
  Answered("compare_dir_entries") =>
    LET less(x, y) == compare_dir_entries(x, y, sample.query) <= 0
        a == sample.a  b == sample.b
    IN /\ compare_dir_entries(b, a, sample.query) = -answer.ret
       /\ \A c \in {[b EXCEPT !.is_directory = ~@], [a EXCEPT !.size = b.size], [b EXCEPT !.name = a.name]} :
            less(a, b) /\ less(b, c) => less(a, c)

\* Of the entries for a client and its URI the last one that can be read decides.
ThrottleOfLast ==
  Answered("set_throttle") =>
    LET spec == sample.spec
        forIt == {i \in DOMAIN spec :
                    /\ IsThrottle(spec[i])
                    /\ CASE spec[i].who = "*" -> TRUE
                         [] spec[i].who = "net" -> spec[i].net = Masked(sample.ip, spec[i].bits)
                         [] spec[i].who = "uri" -> Stands(spec[i].pattern, <<97>>) # {}}
    IN answer.ret = IF forIt = {} THEN 0 ELSE Bytes(spec[Max(forIt)])

\* The server listens on all of its ports or on none; unless the table of the sockets was freed.
AllPortsOrNone ==
  Answered("set_ports_option") /\ ~answer.dst.freed =>
    answer.dst.sockets = answer.ret /\ answer.ret \in {0, Len(sample.fates)}
=============================================================================
