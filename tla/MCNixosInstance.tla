--------------------------- MODULE MCNixosInstance ---------------------------
(* Small worlds for TLC, shared by the configurations of this directory.     *)
EXTENDS NixosInstance

CONSTANTS a, b, site, other, settings, vm, r1, r2, s1, s2, h1, h2, out, doc

\* One instance; two with configurations of their own; two that share a
\* configuration file and differ in `settings`.
OneInput == [i \in {a} |-> [configuration |-> site, arguments |-> settings]]

OwnFiles ==
    [i \in {a, b} |->
        [configuration |-> IF i = a THEN site ELSE other, arguments |-> settings]]

SharedFile ==
    [i \in {a, b} |->
        [configuration |-> site, arguments |-> IF i = a THEN settings ELSE vm]]

\* Histories of the sources and of the secrets: nothing changes; a new content.
Frozen        == {}
OneEdit       == {<<r1, r2>>}
OneSecretEdit == {<<s1, s2>>}

\* What the user may write: one text for ever; two machines to choose from and
\* every kind of activation.
Switching(h) == {[address |-> h, activation |-> "switch"]}
FixedConfig  == [i \in {a} |-> Switching(h1)]
FixedConfigs == [i \in {a, b} |-> Switching(IF i = a THEN h1 ELSE h2)]
InstallOnly  ==
    [i \in {a, b} |-> {[address |-> IF i = a THEN h1 ELSE h2, activation |-> "none"]}]
MovingConfig ==
    [i \in {a} |-> {[address |-> h1, activation |-> "switch"],
                    [address |-> h2, activation |-> "none"],
                    [address |-> h1, activation |-> "unsupported"]}]
MovingAddress == [i \in {a} |-> Switching(h1) \cup Switching(h2)]
=============================================================================
