----------------------------- MODULE MCTempFiles -----------------------------
(* Two instances at work in one process: one behind a bastion and with a      *)
(* wrapper of its own, one without ssh settings and with the embedded wrapper; *)
(* or two with an ssh configuration each.                                     *)
EXTENDS TempFiles, TLC

CONSTANTS a, b, n1, n2, n3, n4, n5

AnyName == {n1, n2, n3, n4, n5}

Symmetry == Permutations(AnyName)

BastionAndBare ==
    [i \in {a, b} |-> [bastion |-> i = a, config |-> FALSE, wrapper |-> i = b]]

TwoConfigured ==
    [i \in {a, b} |-> [bastion |-> FALSE, config |-> TRUE, wrapper |-> TRUE]]
=============================================================================
