----------------------------- MODULE MCBuildMemo -----------------------------
(* Three instances for TLC: a and b are the same machine twice (one key, one *)
(* input), c has a configuration of its own.  Sources move freely between    *)
(* three contents.                                                           *)
EXTENDS BuildMemo

CONSTANTS a, b, c, site, other, settings, r1, r2, r3

MCInputOf ==
    [i \in {a, b, c} |->
        [configuration |-> IF i = c THEN other ELSE site, arguments |-> settings]]

AnyEdit == {e \in {r1, r2, r3} \X {r1, r2, r3} : e[1] # e[2]}
=============================================================================
