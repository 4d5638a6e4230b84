---------------------------- MODULE MCViewerCache ----------------------------
(* An instance of ViewerCache for TLC: a short-lived and a long-lived page. *)
EXTENDS ViewerCache, TLC

CONSTANTS enhanced, reports

MCKeys == {enhanced, reports}
MCTtl  == (enhanced :> 1) @@ (reports :> 2)
=============================================================================
