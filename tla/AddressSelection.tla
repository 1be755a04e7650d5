-------------------------- MODULE AddressSelection --------------------------
(***************************************************************************)
(* Provider.Address (provider.go:27-41): which of an instance's addresses  *)
(* the commands connect to.  FilterIPAddress and SortIPAddress             *)
(* (net.go:42-87) run over the resource's list with the provider's         *)
(* address_filter and address_priority.                                    *)
(*                                                                         *)
(* A network is the set of the addresses it contains; weights are not      *)
(* negative.                                                               *)
(***************************************************************************)
EXTENDS Integers, Sequences, SequencesExt

CONSTANTS
    Addresses,    \* IP addresses
    AddressLists, \* lists a resource may have: sequences of addresses, as long
                  \* as sort.SliceStable is an insertion sort for them
    Filters,      \* values of address_filter: sequences of networks
    Priorities    \* values of address_priority: sets of <<network, weight>>

ASSUME NetworkAssumption ==
    /\ AddressLists \subseteq Seq(Addresses)
    /\ \A list \in AddressLists : Len(list) <= 20
    /\ \A nets \in Filters : nets \in Seq(SUBSET Addresses)
    /\ \A map \in Priorities : IsFiniteSet(map) /\ map \subseteq (SUBSET Addresses) \X Nat

VARIABLES
    filter, priority,  \* the provider's configuration, parsed by init
    addresses,         \* the resource's list
    addrs,             \* the local of Address and of the two functions
    outcome            \* "filter", "sort", "ok", "no match" or "panic"

vars == <<filter, priority, addresses, addrs, outcome>>

Init ==
    /\ filter \in Filters
    /\ priority \in Priorities
    /\ addresses \in AddressLists
    /\ addrs = <<>>
    /\ outcome = "filter"

\* Mutant: an address is kept when it is outside every network.
MatchesInverted(nets, in) ==
    SelectSeq(in, LAMBDA a : \A k \in DOMAIN nets : a \notin nets[k])

\* Every address once per network of the filter that contains it: the inner
\* loop goes on after a match.
Matches(nets, in) ==
    FlattenSeq([k \in DOMAIN in |->
        [n \in 1 .. Cardinality({m \in DOMAIN nets : in[k] \in nets[m]}) |-> in[k]]])

\* The result has room for len(in) addresses; an empty filter lets all pass.
FilterIPAddress ==
    /\ outcome = "filter"
    /\ addrs' = IF filter = <<>> THEN addresses ELSE Matches(filter, addresses)
    /\ outcome' = CASE Len(addrs') > Len(addresses) -> "panic"
                    [] Len(addrs') = 0              -> "no match"
                    [] OTHER                        -> "sort"
    /\ UNCHANGED <<filter, priority, addresses>>

\* Mutant: the lightest one.
LightestWeight(a) ==
    LET weights == {entry[2] : entry \in {e \in priority : a \in e[1]}}
    IN  IF weights = {} THEN 0 ELSE CHOOSE w \in weights : \A v \in weights : v >= w

\* The largest weight of a network around the address, 0 outside all of them.
Weight(a) ==
    LET weights == {0} \cup {entry[2] : entry \in {e \in priority : a \in e[1]}}
    IN  CHOOSE w \in weights : \A v \in weights : v <= w

\* Mutant: equal addresses count as out of order.
LessOrEqual(in, m, n) == Weight(in[m]) >= Weight(in[n])

\* `less` reads the ORIGINAL list at the indices it is called with ...
Less(in, m, n) == Weight(in[m]) > Weight(in[n])

\* ... while sort.SliceStable, an insertion sort for lists this short, moves
\* the element at position i down as long as `less` holds of the positions.
Landing(in, i) ==
    CHOOSE k \in 1 .. i :
        /\ \A m \in (k + 1) .. i : Less(in, m, m - 1)
        /\ k > 1 => ~Less(in, k, k - 1)

Insert(in, list, i) == InsertAt(RemoveAt(list, i), Landing(in, i), list[i])

\* The sort goes through the positions from the second on.
Sorted(in) ==
    LET pass[i \in 1 .. Len(in)] == IF i = 1 THEN in ELSE Insert(in, pass[i - 1], i)
    IN  pass[Len(in)]

SortIPAddress ==
    /\ outcome = "sort"
    /\ addrs' = Sorted(addrs)
    /\ outcome' = "ok"
    /\ UNCHANGED <<filter, priority, addresses>>

Next == FilterIPAddress \/ SortIPAddress

Spec == Init /\ [][Next]_vars

-----------------------------------------------------------------------------
(* Properties.                                                              *)

Admitted == {a \in ToSet(addresses) :
                filter = <<>> \/ \E k \in DOMAIN filter : a \in filter[k]}

\* The filter decides which addresses may be connected to, leaves no more of them
\* than the resource lists, and the selection never breaks down
\* (schema.go:366, net.go:68-87).
FiltersExactly ==
    /\ outcome # "panic"
    /\ outcome # "filter" => ToSet(addrs) = Admitted /\ Len(addrs) <= Len(addresses)
    /\ outcome = "no match" => Admitted = {}

\* The first address, the one commands connect to, has the greatest weight
\* (schema.go:373, net.go:42-66).
PicksHeaviest ==
    outcome = "ok" =>
        \A a \in Admitted : \A e \in priority :
            a \in e[1] /\ e[2] > 0 =>
                \E f \in priority : addrs[1] \in f[1] /\ f[2] >= e[2]

\* Among equals the order of the resource decides: the sort is a stable one.
KeepsOrderOfEquals ==
    outcome = "ok" =>
        \A m, n \in DOMAIN addrs :
            m < n /\ Weight(addrs[m]) = Weight(addrs[n]) /\ addrs[m] # addrs[n] =>
                \E p, q \in DOMAIN addresses :
                    p < q /\ addresses[p] = addrs[m] /\ addresses[q] = addrs[n]
=============================================================================
