------------------------------- MODULE MCDesk -------------------------------
(* Instances of Desk for TLC: two recipients of two domains. *)
EXTENDS Desk

OwnDomains == [r \in Recipients |-> r]
=============================================================================
