---------------------------- MODULE MCHttpServer ----------------------------
(* One listener, and either two short connections at the same time or longer *)
(* ones one after the other.                                                 *)
EXTENDS HttpServer

CONSTANTS l, s1, s2

MCListener == {l}
MCStream == {s1, s2}
MCWatcher == {l, s1, s2}
MCfdOf == (l :> 0) @@ (s1 :> 1) @@ (s2 :> 2)
MCLoads == {(s1 :> 6) @@ (s2 :> -1), (s1 :> 2) @@ (s2 :> 0)}
=============================================================================
