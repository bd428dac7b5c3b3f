-------------------------- MODULE MCResourceStream --------------------------
(* Instances of ResourceStream for TLC.                                    *)
EXTENDS ResourceStream

\* Domains with an object clock, which take a change by its doorbell or resync on it.
ObjectDomain == {[object |-> TRUE, complete |-> FALSE]}
CompleteDomains == {[object |-> TRUE, complete |-> b] : b \in BOOLEAN}
=============================================================================
