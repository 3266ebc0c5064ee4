----------------------------- MODULE MethodMap -----------------------------
(***************************************************************************)
(* What functions_map promises: a partial map from URIs to functions that  *)
(* grows by registration.                                                  *)
(***************************************************************************)

CONSTANTS Uris, Functs

VARIABLE methods   \* the registered URIs, each with its function

MapInit == methods = <<>>

\* The first registration of a URI counts.
Register(u, f) ==
  /\ u \notin DOMAIN methods
  /\ methods' = [v \in DOMAIN methods \cup {u} |->
                  IF v = u THEN f ELSE methods[v]]

MapNext == \E u \in Uris, f \in Functs : Register(u, f)

MapSpec == MapInit /\ [][MapNext]_methods
=============================================================================
