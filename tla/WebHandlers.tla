---------------------------- MODULE WebHandlers ----------------------------
(***************************************************************************)
(* The list of handlers that an application registers with the embedded    *)
(* server by URI, ctx->handlers of civetweb.c: how it is changed and how   *)
(* one is found.  Both are done under the lock of the context, so each is  *)
(* one step.  A handler is [type, uri, call]; a URI is a sequence of       *)
(* names.                                                                  *)
(***************************************************************************)
EXTENDS Naturals, Sequences, SequencesExt

\* mg_set_handler_type: replaces the handler of this type and URI where it stands, or
\* removes it when there is none to set; a new one goes to the end.
Same(h, type, uri) == h.type = type /\ h.uri = uri

mg_set_handler_type(handlers, type, uri, call) ==
  LET at == {i \in DOMAIN handlers : Same(handlers[i], type, uri)}
      i == CHOOSE n \in at : \A m \in at : n <= m
  IN IF at # {}
     THEN IF call = "NULL" THEN RemoveAt(handlers, i)
          ELSE [handlers EXCEPT ![i].call = call]
     ELSE IF call = "NULL" THEN handlers
          ELSE Append(handlers, [type |-> type, uri |-> uri, call |-> call])

\* match_prefix of a URI without wildcards: the last name may go on.  begins[n] are
\* the names that begin with n.
Matches(uri, path, begins) ==
  /\ Len(uri) \in 1..Len(path)
  /\ IsPrefix(Front(uri), path)
  /\ path[Len(uri)] \in begins[Last(uri)]

\* get_request_handler: an exact match, else the first whose URI is a parent, else the
\* first that match_prefix accepts.
get_request_handler(handlers, type, path, begins) ==
  LET first(test(_)) == SelectInSeq(handlers, LAMBDA h : h.type = type /\ test(h.uri))
      exact == first(LAMBDA u : u = path)
      above == first(LAMBDA u : IsStrictPrefix(u, path))
      like == first(LAMBDA u : Matches(u, path, begins))
      at == IF exact # 0 THEN exact ELSE IF above # 0 THEN above ELSE like
  IN IF at = 0 THEN "NULL" ELSE handlers[at].call
=============================================================================
