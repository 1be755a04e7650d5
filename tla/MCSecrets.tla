------------------------------ MODULE MCSecrets ------------------------------
(* A small world of secrets for TLC.                                          *)
EXTENDS Secrets

CONSTANTS a, b, key, token, none, old, new, salt, pepper

FirstAnswers == [s \in {key, token} |-> IF s = key THEN old ELSE none]

OneWay == {<<old, new>>, <<none, old>>}

\* One secret, then two, the first one somewhere else and with other
\* permissions, then the first one back.
Entry(s, d, p) == [source |-> s, destination |-> d, permissions |-> p]
One    == <<Entry(key, "/k", 640)>>
Two    == <<Entry(key, "/s", 407), Entry(token, "/t", 1777)>>
Moved  == <<Entry(key, "/k", 407), Entry(token, "/t", 1777)>>
Blocks == {One, Two, Moved}
Growth == {<<One, Two>>, <<Two, Moved>>}

Drawn == {<<salt, 0>>, <<pepper, 64>>}
=============================================================================
