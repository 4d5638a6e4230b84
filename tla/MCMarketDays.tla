----------------------------- MODULE MCMarketDays -----------------------------
(* MarketDays with the anchor, two securities, and reports on a Friday (1), *)
(* a day without a session (2) and the Monday after it (3).                 *)
EXTENDS MarketDays, TLC

CONSTANTS sh, a, b, low, high, none, p, q, nojob

MCInstants == {[day |-> 3, minute |-> At(15, 5)], [day |-> 3, minute |-> At(15, 45)]}

Symmetry == Permutations(Proxies) \cup Permutations(Closes) \cup Permutations(Jobs)
=============================================================================
