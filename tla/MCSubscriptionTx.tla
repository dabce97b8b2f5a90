--------------------------- MODULE MCSubscriptionTx ---------------------------
(* Two callers contending for two subscription ids: the least that makes  *)
(* two transactions conflict on one row while a third row stays reachable.*)
(* Five versions are enough for the two rows and the two versions callers *)
(* hold, with one left for a commit.                                      *)
EXTENDS SubscriptionTx

CONSTANTS a1, a2, s1, s2

MCClients == {a1, a2}
MCSubIds == {s1, s2}
MCVers == 1..5
=============================================================================
