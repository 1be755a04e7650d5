------------------------------- MODULE Settings -------------------------------
(***************************************************************************)
(* Where an operation's settings come from: the blocks `ssh`, `bastion`    *)
(* and `secrets { command }` may be written in the provider and again in   *)
(* the resource, and the schema has defaults (Provider.settings and merge, *)
(* provider.go:145-195; ResourceData.Get, resource.go; DefaultMapFrom-     *)
(* Schema, schema_defaults.go).  The list of secrets is put together from  *)
(* both as well (settingsSet, NewSecrets).                                 *)
(***************************************************************************)
EXTENDS Sequences

CONSTANTS
    Values,          \* what a user may write for an attribute or an entry
    Root,            \* DefaultUser
    Zero,            \* "", 0 or an empty list
    Nil,             \* Go's nil: a default the schema does not have
    Unset,           \* an attribute the user did not write
    NoBlock,         \* a block nobody wrote
    NoEntry,         \* a key a map does not have
    Offered,         \* of them, per attribute or entry, what is tried
    Blocks,          \* the blocks to resolve: names of SchemaOf
    ProviderBlocks,  \* what the provider's side may be: "absent", "outer", "written"
    Secrets,         \* secrets a user may describe
    Lists            \* of them, in the order a set of the SDK answers them

\* Keys of maps: the ssh option `user` in two spellings and another option.
Entries == {"user", "User", "proxycommand"}
Map     == [Entries -> Values \cup {Root, NoEntry}]

NoEntries == [e \in Entries |-> NoEntry]

ASSUME DistinctAssumption ==
    /\ Nil \notin {Root, Zero, Unset, NoBlock, NoEntry}
    /\ Zero \notin {Root, Unset, NoBlock, NoEntry}
    /\ Unset \notin {Root, NoBlock, NoEntry}
    /\ Root \notin {NoBlock, NoEntry}
    /\ NoBlock # NoEntry
    /\ Values \cap {Root, Zero, Nil, Unset, NoBlock, NoEntry} = {}
    /\ Map \cap {Zero, Nil, Unset} = {}
    /\ \A k \in DOMAIN Offered : Offered[k] \subseteq Values

DefaultSshConfig == [NoEntries EXCEPT !["user"] = Root]

Plain(default)  == [map |-> FALSE, required |-> FALSE, default |-> default]
MapOf(default)  == [map |-> TRUE,  required |-> FALSE, default |-> default]
Required        == [map |-> FALSE, required |-> TRUE,  default |-> Nil]

\* ProviderSchemaSshMap, ProviderSchemaBastionMap and the schema of `command`.
SchemaOf ==
    [ssh     |-> [user |-> Plain(Root), port |-> Plain(Nil),
                  config |-> MapOf(DefaultSshConfig)],
     bastion |-> [user |-> Plain(Root), port |-> Plain(Nil),
                  config |-> MapOf(DefaultSshConfig), host |-> Plain(Nil)],
     command |-> [name |-> Required, arguments |-> Plain(Nil),
                  environment |-> MapOf(Nil)]]

\* Blocks that are inside another one.
Nested == {"command"}

WrittenMaps ==
    {m \in [Entries -> Values \cup {NoEntry}] :
        \A e \in Entries : m[e] \in Offered[e] \cup {NoEntry}}

\* What a user can write in a block.
Written ==
    [b \in Blocks |->
        {w \in [DOMAIN SchemaOf[b] -> Values \cup WrittenMaps \cup {Unset}] :
            \A k \in DOMAIN SchemaOf[b] :
                \/ w[k] = Unset /\ ~SchemaOf[b][k].required
                \/ SchemaOf[b][k].map /\ w[k] \in WrittenMaps
                \/ ~SchemaOf[b][k].map /\ w[k] \in Offered[k]}]

\* Names of blocks and of sides, and values that are no blocks and no secrets.
ASSUME BlockAssumption ==
    /\ Blocks \subseteq DOMAIN SchemaOf
    /\ ProviderBlocks \subseteq {"absent", "outer", "written"}
    /\ \A b \in Blocks : Written[b] \cap {NoBlock, Nil} = {}
    /\ Nil \notin Secrets
    /\ Lists \subseteq Seq(Secrets)

VARIABLES
    block,                              \* the block that is resolved
    provider, resource,                 \* what is written of it on either side
    providerSecrets, resourceSecrets,   \* the secrets described on either side
    settings,                           \* the result of Provider.settings
    secrets,                            \* what NewSecrets collects
    outcome                             \* "resolve", "ok" or "panic"

vars == <<block, provider, resource, providerSecrets, resourceSecrets,
          settings, secrets, outcome>>

Schema == SchemaOf[block]
Keys   == DOMAIN Schema

Sides(side) ==
    CASE side = "absent"  -> {NoBlock}
      [] side = "outer"   -> IF block \in Nested THEN {Nil} ELSE {}
      [] side = "written" -> Written[block]

\* Nil: the provider's `secrets` is written, `command` inside it is not.  The list
\* of secrets varies where the provider has no block.
Init ==
    /\ block \in Blocks
    /\ provider \in UNION {Sides(side) : side \in ProviderBlocks}
    /\ resource \in Written[block] \cup {NoBlock}
    /\ providerSecrets \in IF provider = NoBlock THEN Lists ELSE {<<>>}
    /\ resourceSecrets \in IF provider = NoBlock THEN Lists ELSE {<<>>}
    /\ settings = NoBlock
    /\ secrets = <<>>
    /\ outcome = "resolve"

-----------------------------------------------------------------------------
(* The two levels.                                                          *)

\* A block somebody wrote, as the SDK answers it: attributes left out have the
\* schema's default or the zero value, maps are never defaulted.
Filled(written) ==
    [k \in Keys |->
        IF written[k] # Unset           THEN written[k]
        ELSE IF Schema[k].map           THEN NoEntries
        ELSE IF Schema[k].default = Nil THEN Zero
        ELSE Schema[k].default]

\* DefaultMapFromSchema: a default may be nil.
DefaultMap == [k \in Keys |-> Schema[k].default]

\* ResourceData.Get answers the default for a block the provider lacks; of a
\* block inside another that is there, there is nothing.
ProviderLevel ==
    CASE provider = NoBlock -> DefaultMap
      [] provider = Nil     -> [k \in {} |-> Nil]
      [] OTHER              -> Filled(provider)

\* Mutant: entries of the provider win.
ExtendMapBackwards(under, over) ==
    [e \in Entries |-> IF under[e] # NoEntry THEN under[e] ELSE over[e]]

\* merge on two maps of plain values.
ExtendMap(under, over) ==
    [e \in Entries |-> IF over[e] # NoEntry THEN over[e] ELSE under[e]]

\* Mutant: the assertion without looking whether the key is there.
MergePanicsOnMissing(under, over) ==
    \E k \in Keys : Schema[k].map /\ (k \notin DOMAIN under \/ under[k] = Nil)

\* merge's type assertion: a nil under a map is no map.
MergePanics(under, over) ==
    \E k \in DOMAIN under : Schema[k].map /\ under[k] = Nil

\* Mutant: a map is a value like any other.
MergeReplaces(under, over) == [k \in Keys |-> over[k]]

\* Mutant: a value of the provider's stays.
MergeKeeps(under, over) ==
    [k \in Keys |-> IF Schema[k].map /\ k \in DOMAIN under THEN ExtendMap(under[k], over[k])
                    ELSE IF k \in DOMAIN under /\ under[k] \notin {Nil, Zero} THEN under[k]
                    ELSE over[k]]

\* The resource's values over the provider's, maps entry by entry.
Merge(under, over) ==
    [k \in Keys |-> IF Schema[k].map /\ k \in DOMAIN under
                    THEN ExtendMap(under[k], over[k])
                    ELSE over[k]]

\* Mutant: a list has no default.
ProviderListBare == providerSecrets

\* The provider's `secret` blocks; the default stands for none, without a source.
ProviderList == IF providerSecrets = <<>> THEN <<Nil>> ELSE providerSecrets

\* NewSecrets skips what has no source: the default, which comes first if it is there.
WithSource(list) == IF Head(list) = Nil THEN Tail(list) ELSE list

\* Mutant: the resource's come first.
CollectBackwards ==
    IF ProviderList = <<>> THEN <<>> ELSE WithSource(resourceSecrets \o ProviderList)

\* settingsSet ends early for a provider without a list.
Collect == IF ProviderList = <<>> THEN <<>> ELSE WithSource(ProviderList \o resourceSecrets)

Resolve ==
    /\ outcome = "resolve"
    /\ IF resource = NoBlock
       THEN settings' = ProviderLevel /\ outcome' = "ok"
       ELSE IF MergePanics(ProviderLevel, Filled(resource))
       THEN outcome' = "panic" /\ UNCHANGED settings
       ELSE settings' = Merge(ProviderLevel, Filled(resource)) /\ outcome' = "ok"
    /\ secrets' = Collect
    /\ UNCHANGED <<block, provider, resource, providerSecrets, resourceSecrets>>

Next == Resolve

Spec == Init /\ [][Next]_vars

\* Options of an ssh configuration file.
Options == {"user", "port", "host", "proxycommand"}

Lower(entry) == IF entry = "User" THEN "user" ELSE entry

\* Nil and zero values set nothing.
Given(s, option) ==
    IF option \in DOMAIN s /\ s[option] \notin {Zero, Nil}
    THEN s[option] ELSE NoEntry

\* Mutant: an attribute wins over the entry of its name.
SshConfigMapOfAttributes(s, last) ==
    LET Named(option) == {e \in Entries : Lower(e) = option /\ s["config"][e] # NoEntry}
    IN  [option \in Options |->
            IF Given(s, option) # NoEntry \/ Named(option) = {} THEN Given(s, option)
            ELSE IF last \in Named(option)                      THEN s["config"][last]
            ELSE s["config"][CHOOSE e \in Named(option) : TRUE]]

\* Provider.SshConfigMap: the attributes, then the entries of `config` by their
\* lower-case keys in any order: of two spellings either may be the last.
SshConfigMap(s, last) ==
    LET Named(option) == {e \in Entries : Lower(e) = option /\ s["config"][e] # NoEntry}
    IN  [option \in Options |->
            CASE Named(option) = {}     -> Given(s, option)
              [] last \in Named(option) -> s["config"][last]
              [] OTHER -> s["config"][CHOOSE e \in Named(option) : TRUE]]

Spellings == {e \in Entries : Lower(e) = "user"}

SshConfigMaps(s) == {SshConfigMap(s, last) : last \in Spellings}

-----------------------------------------------------------------------------
(* Properties.                                                              *)

WrittenBy(side, k) == side \notin {NoBlock, Nil} /\ side[k] # Unset

\* What the resource writes is what counts, entry by entry in a map
\* (provider.go:188-192).
ResourceWins ==
    outcome = "ok" =>
        \A k \in Keys : WrittenBy(resource, k) =>
            IF Schema[k].map
            THEN \A e \in Entries : resource[k][e] # NoEntry => settings[k][e] = resource[k][e]
            ELSE settings[k] = resource[k]

\* Maps are extended: an entry of the provider's stays unless the resource has
\* one with its key (provider.go:158-168).
MapsAreExtended ==
    outcome = "ok" =>
        \A k \in Keys : Schema[k].map /\ WrittenBy(provider, k) =>
            \A e \in Entries :
                provider[k][e] # NoEntry =>
                    \/ settings[k][e] = provider[k][e]
                    \/ WrittenBy(resource, k) /\ resource[k][e] = settings[k][e]

\* "Describes secret which should be transfered to host" (schema.go:228): every
\* secret described on either side is collected, the resource's after the provider's,
\* so that of two with one destination it is the resource's that stays on the machine;
\* although settingsSet looks at the resource only when the provider has a list, and
\* the default that makes one is left out (provider.go:197-222, 375-397).
CollectsEverySecret ==
    outcome # "resolve" => secrets = providerSecrets \o resourceSecrets

\* Maps on both sides are put together without a break-down once the provider says
\* anything about the block or the one around it (provider.go:158-168).  When it
\* says nothing its side is the schema's default, nil for `environment`
\* (schema.go:174-179), and merge panics.
MergesWhatIsWritten == outcome = "panic" => provider = NoBlock

\* "SSH remote user name" (schema.go:98): the user that ssh is given is the one the
\* resource writes, unless a `config` of either side names another (provider.go:
\* 236-253), once the provider has that block.  When it has none the default
\* `config` of the schema names root.
SshUserIsTheWritten ==
    outcome = "ok" /\ block \in {"ssh", "bastion"} /\ provider # NoBlock /\ WrittenBy(resource, "user")
      /\ (\A side \in {provider, resource}, e \in Spellings :
              WrittenBy(side, "config") => side["config"][e] = NoEntry)
        => \A map \in SshConfigMaps(settings) : map["user"] = resource["user"]
=============================================================================
