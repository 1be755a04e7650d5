-------------------------- MODULE MCAddressSelection --------------------------
(* Lists, filters and priorities over three addresses.                       *)
EXTENDS AddressSelection

CONSTANTS x, y, z

Networks == SUBSET {x, y, z} \ {{}}
Pairs    == {<<p>> : p \in {x, y, z}} \cup {<<p, q>> : p, q \in {x, y, z}}
Triples  == Pairs \cup {<<x, y, z>>}

NoFilter   == {<<>>}
OneNetwork == NoFilter \cup {<<m>> : m \in Networks}

\* Networks of which no two overlap, as in the default address_filter.
DisjointTwo == OneNetwork \cup
    {f \in {<<m, n>> : m, n \in Networks} : f[1] \cap f[2] = {}}

Weights == {{}} \cup
    {{<<m, v>>, <<n, w>>} : m, n \in Networks, v, w \in 0 .. 2}
=============================================================================
