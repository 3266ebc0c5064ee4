----------------------------- MODULE MCWebFiles -----------------------------
(***************************************************************************)
(* A small tree and a few requests for two workers.                        *)
(***************************************************************************)
EXTENDS WebFiles, TLC

CONSTANTS w1, w2

Symmetry == Permutations(Workers)

F == <<"f">>
D == <<"d">>
I == <<"d", "i">>
P == <<"d", ".htpasswd">>
G == <<"g">>
C == <<"c">>
S == <<"s">>
E == <<"e">>
X == <<"n", "x">>
N == <<"n">>
AllPaths == {F, D, I, P, G, <<"g.gz">>, C, Append(C, "x"), S, <<"e">>, N, X}

Entry(dir, data) == [dir |-> dir, data |-> data, mtime |-> 1, writable |-> TRUE]
Nothing == [dir |-> FALSE, data |-> <<>>, mtime |-> 0, writable |-> TRUE]

Tree ==
  LET there == <<F, D, I, P, <<"g.gz">>, C, S, <<"e">>>>
      first == <<Entry(FALSE, <<"a1", "a2">>), Entry(TRUE, <<>>), Entry(FALSE, <<"i1">>),
                 Entry(FALSE, <<"user">>), Entry(FALSE, <<"z1">>), Entry(FALSE, <<>>),
                 Entry(FALSE, <<"b1", "f", "s">>), [Entry(FALSE, <<"page">>) EXCEPT !.writable = FALSE]>>
  IN [fs |-> [p \in AllPaths |-> SelectInSeq(there, LAMBDA q : q = p)],
      inodes |-> [i \in 1..MaxInodes |-> IF i <= Len(first) THEN first[i] ELSE Nothing]]

Handler(type, uri, call) == [type |-> type, uri |-> uri, call |-> call]

Config ==
  [document_root |-> TRUE, listing |-> TRUE, ssl_redir |-> "off", begin_request |-> FALSE,
   index_files |-> <<"i">>, scripts |-> {"c"}, ssi |-> {"s"}, hidden |-> {".htpasswd"},
   gz |-> [n \in {"g"} |-> "g.gz"], put_users |-> {"user"}, pages |-> [s \in {404} |-> E],
   begins |-> [n \in {"f", "d", "g", "c", "s", "e", "n"} |-> {n}],
   handlers |-> <<>>, changes |-> {}]

NoRoot == [Config EXCEPT !.document_root = FALSE]
Closed == [Config EXCEPT !.listing = FALSE, !.index_files = <<>>, !.begin_request = TRUE,
                         !.pages = [s \in {} |-> <<>>],
                         !.handlers = <<Handler("request", N, "app"), Handler("auth", <<"g">>, "app")>>,
                         !.changes = {Handler("request", X, "app"), Handler("request", N, "NULL")}]
Redirects == [Config EXCEPT !.ssl_redir = "port"]
NoPort == [Config EXCEPT !.ssl_redir = "none"]

Q(method, path) ==
  [method |-> method, path |-> path, slash |-> FALSE, user |-> "user", gzip |-> FALSE,
   range |-> <<>>, again |-> FALSE, body |-> <<>>, length |-> "given", expect |-> "none"]

Body == <<"b1", "b2">>
Gets == {Q("GET", F), Q("HEAD", F), [Q("GET", F) EXCEPT !.range = <<1, 1>>], [Q("GET", F) EXCEPT !.again = TRUE],
         [Q("GET", D) EXCEPT !.slash = TRUE], Q("GET", P), [Q("GET", G) EXCEPT !.gzip = TRUE],
         [Q("GET", I) EXCEPT !.user = "nobody"], Q("GET", Append(C, "x")), Q("GET", S), Q("GET", X),
         Q("OPTIONS", F), [Q("PROPFIND", D) EXCEPT !.slash = TRUE], Q("POST", F), Q("GET", D), [Q("GET", F) EXCEPT !.range = <<1>>]}
Puts == {[Q("PUT", F) EXCEPT !.body = Body], [Q("PUT", X) EXCEPT !.body = <<"b1">>],
         [Q("PUT", N) EXCEPT !.slash = TRUE], [Q("PUT", F) EXCEPT !.user = "nobody", !.body = Body],
         [Q("PUT", F) EXCEPT !.range = <<1>>, !.body = <<"b1">>, !.expect = "continue"],
         [Q("PUT", F) EXCEPT !.length = "chunked", !.body = Body], [Q("PUT", F) EXCEPT !.length = "none"], [Q("PUT", F) EXCEPT !.expect = "other"], Q("PUT", E)}
Others == {Q("DELETE", F), Q("DELETE", D), Q("DELETE", E), Q("DELETE", X), Q("MKCOL", N), Q("MKCOL", X),
           [Q("MKCOL", N) EXCEPT !.body = Body], Q("PATCH", F)}
All == Gets \cup Puts \cup Others

World(c, requests, n) ==
  [config |-> c, fs |-> Tree.fs, inodes |-> Tree.inodes,
   clients |-> [requests |-> requests, left |-> n]]

Again == {Q("GET", F), [Q("GET", F) EXCEPT !.again = TRUE], [Q("PUT", F) EXCEPT !.body = <<"b1">>]}
Few == {Q("GET", F), Q("GET", N), Q("GET", G), Q("GET", X), Q("PUT", N), [Q("GET", D) EXCEPT !.slash = TRUE]}

Many == {World(Config, All, 2), World(Config, Again, 3), World(Closed, Few, 2), World(NoRoot, Few, 1),
         World(Redirects, Few, 1), World(NoPort, Few, 1)}
=============================================================================
