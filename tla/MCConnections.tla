---------------------------- MODULE MCConnections -----------------------------
(* What a user may write on both sides, with two values to tell them apart,    *)
(* and a few surroundings of the block that is resolved.  `host` stands for    *)
(* `port`, an attribute of the same kind.                                      *)
EXTENDS Connections

CONSTANTS v1, v2, s1, s2

TwoValues  == {v1, v2}
TwoSecrets == {s1, s2}
FewLists   == {<<>>, <<s1>>, <<s1, s2>>, <<s2, s1>>}

Tried ==
    [k \in {"user", "port", "host", "name", "arguments", "User", "proxycommand"} |->
        CASE k \in {"user", "name", "arguments"} -> {v1, v2}
          [] k = "port"                          -> {}
          [] k = "proxycommand"                  -> {v1}
          [] OTHER                               -> {v2}]

EveryBlock == {"ssh", "bastion", "command"}

AnySide == {"absent", "outer", "written"}

\* The settings of the other block: as by default, or with a proxyCommand, a port
\* and, for a bastion, a host.
Default == [user |-> Root, port |-> Nil, config |-> DefaultSshConfig]
Other   == [user |-> v2, port |-> v2, config |-> [NoEntries EXCEPT !["proxycommand"] = v2]]
At(h, s) == [k \in DOMAIN s \cup {"host"} |-> IF k = "host" THEN h ELSE s[k]]

\* The process's environment.
Clean == [v \in Variables |-> NoEntry]
Full  == [v \in Variables |-> v2]

Surroundings ==
    [b \in EveryBlock |->
        CASE b = "ssh" ->
                {[other |-> At(Nil, Default), mode |-> 256, environment |-> Clean],
                 [other |-> At(v1, Other),    mode |-> 0,   environment |-> Full]}
          [] b = "bastion" ->
                {[other |-> Default, mode |-> 0, environment |-> Full],
                 [other |-> Other,   mode |-> 1, environment |-> Clean]}
          [] b = "command" ->
                {[other |-> Default, mode |-> 0, environment |-> Clean],
                 [other |-> Default, mode |-> 1, environment |-> Full]}]
=============================================================================
