----------------------------- MODULE MCCrawlJob -----------------------------
(* Symmetry of the agents and of the slots for tasks, for runs that check  *)
(* no liveness property.                                                   *)
EXTENDS CrawlJob, TLC

Symmetry == Permutations(Agents) \cup Permutations(Runs) \cup Permutations(Starters)
=============================================================================
