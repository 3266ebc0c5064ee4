----------------------------- MODULE MCWebParts -----------------------------
(***************************************************************************)
(* The parts of WebParts for TLC, with the fairness of each, and the       *)
(* functions on text.                                                      *)
(***************************************************************************)
EXTENDS WebParts

CONSTANTS BITS, MAX_HEADERS, PORT_LIMIT      \* WebText

VARIABLES t_sample, t_answer

tVars == <<t_sample, t_answer>>
mcVars == <<partsVars, tVars>>

-----------------------------------------------------------------------------
(* What the functions on text are called with: all short strings over the  *)
(* characters that matter to each, by their codes.                         *)

Strings(set, n) == UNION {[1..k -> set] : k \in 0..n}
Rule(f, n, b) == [flag |-> f, net |-> n, bits |-> b]
Rules == {Rule(43, 4, 1), Rule(45, 6, 2), Rule(43, 0, 0), Rule(97, 0, 0)}
Fates == {"ok", "parse", "ssl", "socket", "bind", "listen", "getsockname", "sockets", "ports"}

Entries == [name : 1..2, size : 1..2, date : {1}, is_directory : BOOLEAN]
Limit(w, v, m) == [who |-> w, net |-> 4, bits |-> 1, pattern |-> <<97>>, v |-> v, mult |-> m]
Limits == {Limit("*", 1, "k"), Limit("*", -1, ","), Limit("net", 0, ","), Limit("uri", 3, "m"),
           Limit("uri", 2, "x"), [Limit("uri", 5, ",") EXCEPT !.pattern = <<98>>]}

Samples ==
  <<[call : {"mg_url_encode"}, src : Strings({97, 37, 43, 200}, 2), dst_len : 1..8],
    [call : {"mg_url_decode"}, src : Strings({37, 50, 97, 43}, 4), dst_len : {2, 6}, form : BOOLEAN],
    [call : {"mg_get_var2"}, data : Strings({97, 65, 61, 38}, 4), name : {<<97>>, <<65, 97>>},
     dst_len : {0, 2, 6}, occurrence : {0, 1}],
    [call : {"next_option"}, list : Strings({44, 32, 61, 97}, 5)],
    [call : {"base64"}, src : Strings({0, 1, 130, 255}, 4)],
    [call : {"remove_double_dots"}, src : {<<47>> \o s : s \in Strings({46, 47, 92, 97}, 5)}],
    [call : {"check_acl"}, acl : [set : {TRUE}, list : Strings(Rules, 2)], ip : 0..7],
    [call : {"check_acl"}, acl : {[set |-> FALSE, list |-> <<>>]}, ip : {3}],
    [call : {"mg_get_cookie"}, header : Strings({97, 65, 61, 59, 32, 34}, 4), name : {<<97>>},
     dst_size : {0, 2, 8}],
    [call : {"parse_http_headers"}, buf : Strings({97, 58, 32, 13, 10}, 5)],
    [call : {"parse_http_headers"},
     buf : {FoldLeft(LAMBDA s, l : s \o l \o <<13, 10>>, <<>>, ls) \o <<13>> :
              ls \in Strings({<<97, 58>>, <<97, 58, 32, 97>>, <<58, 58>>, <<97>>}, 3)}],
    [call : {"uri"}, uri : [proto : {0, 80}, rest : Strings({97, 58, 47, 56, 48}, 4)],
     domain : {<<97>>}, port : {8, 80}],
    [call : {"match_prefix"}, pattern : Strings({97, 42, 36, 63, 124, 47}, 3) \cup Strings({97, 42, 124}, 4),
     str : Strings({97, 47}, 3)],
    [call : {"compare_dir_entries"}, a : Entries, b : Entries,
     query : {"name", "size", "date", "other"} \X {"a", "d"}],
    [call : {"set_throttle"}, spec : Strings(Limits, 3), ip : {3, 4, 7}],
    [call : {"set_ports_option"}, fates : Strings(Fates, 3)]>>

T == INSTANCE WebText WITH sample <- t_sample, answer <- t_answer

-----------------------------------------------------------------------------
\* When the functions on text are not looked at, none is chosen.
MCInit ==
  /\ part = "text" \/ t_sample = [call |-> "next_option", list |-> <<>>]
  /\ PartsInit /\ T!Init

Texts == In("text", T!Next /\ UNCHANGED <<vars, fVars, sVars, cVars, wVars>>)

MCNext == (PartsNext /\ UNCHANGED tVars) \/ Texts

\* The fairness of the parts, as their modules state it.
MCSpec ==
  /\ MCInit /\ [][MCNext]_mcVars
  /\ WF_mcVars(Forms(F!Step) /\ UNCHANGED tVars)
  /\ WF_mcVars(Websockets(ServerThread) /\ UNCHANGED tVars)
  /\ WF_mcVars(Websockets(Reader("client") /\ ClientAwake) /\ UNCHANGED tVars)
  /\ \A w \in Writers : WF_mcVars(Websockets(Writer(w)) /\ UNCHANGED tVars)
  /\ WF_mcVars(Websockets(Closing) /\ UNCHANGED tVars)

-----------------------------------------------------------------------------
\* The functions on text agree with what is wanted of each: see WebText.
TextIsRight ==
  part = "text" =>
    /\ T!EncodingIsInverse /\ T!VariableIsFound /\ T!OptionsAreMet
    /\ T!PathStaysBelow /\ T!LastEntryDecides /\ T!AllPortsOrNone
    /\ T!CookieIsFound /\ T!HeadersAreLines /\ T!UriIsSplit /\ T!PatternsMatch
    /\ T!EntriesAreOrdered /\ T!ThrottleOfLast
=============================================================================
