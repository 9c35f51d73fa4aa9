-------------------------- MODULE MCAdReplication --------------------------
(* Two domain controllers for TLC: a replica that follows a writable DC, and  *)
(* two masters that follow each other.                                        *)
EXTENDS AdReplication

Replica == <<{}, {1}>>
Mutual == <<{2}, {1}>>

SeedFirst == <<{1, 2}, {}>>
SeedOne == <<{1}, {}>>
SeedBoth == <<{1}, {1}>>

BothOnce == <<1, 1>>
ReplicaTwice == <<1, 2>>
=============================================================================
