-------------------------- MODULE ConnectionsProofs --------------------------
(***************************************************************************)
(* Proofs about Settings and Connections, for any values, blocks and       *)
(* secrets.  All of Settings is one step: what its properties need to know *)
(* is that the result is the merge of the two sides (Resolved); those of   *)
(* Connections, that every command is made of that result (Executed).      *)
(***************************************************************************)
EXTENDS Connections, TLAPS

Over == Filled(resource)

\* The sides are what a user can write, and the result is theirs.
Resolved ==
    /\ block \in Blocks
    /\ provider \in Written[block] \cup {NoBlock, Nil}
    /\ provider = Nil => block \in Nested
    /\ resource \in Written[block] \cup {NoBlock}
    /\ providerSecrets \in Seq(Secrets)
    /\ resourceSecrets \in Seq(Secrets)
    /\ outcome \in {"resolve", "ok", "panic"}
    /\ outcome = "ok" =>
          settings = IF resource = NoBlock THEN ProviderLevel ELSE Merge(ProviderLevel, Over)
    /\ outcome = "ok" => resource = NoBlock \/ ~MergePanics(ProviderLevel, Over)
    /\ outcome = "panic" => resource # NoBlock /\ MergePanics(ProviderLevel, Over)
    /\ outcome # "resolve" => secrets = Collect

LEMMA ResolvedInit == Init => Resolved
<1> SUFFICES ASSUME Init PROVE Resolved
  OBVIOUS
<1>1. /\ provider \in Written[block] \cup {NoBlock, Nil}
      /\ provider = Nil => block \in Nested
  <2>0. block \in Blocks /\ Nil # NoBlock /\ Nil \notin Written[block]
    BY BlockAssumption, DistinctAssumption DEF Init
  <2>1. PICK side \in ProviderBlocks : provider \in Sides(side)
    BY DEF Init
  <2>2. CASE side = "absent"
    BY <2>0, <2>1, <2>2 DEF Sides
  <2>3. CASE side = "outer"
    BY <2>1, <2>3 DEF Sides
  <2>4. CASE side = "written"
    BY <2>0, <2>1, <2>4 DEF Sides
  <2> QED BY <2>2, <2>3, <2>4, BlockAssumption
<1>2. /\ providerSecrets \in Seq(Secrets)
      /\ resourceSecrets \in Seq(Secrets)
  <2>1. Lists \subseteq Seq(Secrets) /\ <<>> \in Seq(Secrets)
    BY BlockAssumption
  <2>2. /\ providerSecrets \in Lists \cup {<<>>}
        /\ resourceSecrets \in Lists \cup {<<>>}
    BY DEF Init
  <2> QED BY <2>1, <2>2
<1> QED BY <1>1, <1>2 DEF Init, Resolved

LEMMA ResolvedKept == Resolved /\ [Next]_vars => Resolved'
<1> SUFFICES ASSUME Resolved, [Next]_vars PROVE Resolved'
  OBVIOUS
<1>1. UNCHANGED <<block, provider, resource, providerSecrets, resourceSecrets>>
  BY DEF Next, Resolve, vars
<1>2. /\ ProviderLevel' = ProviderLevel
      /\ Over' = Over
      /\ Collect' = Collect
  BY <1>1 DEF ProviderLevel, Over, Filled, DefaultMap, Collect, WithSource, ProviderList,
                                Keys, Schema
<1>3. /\ Merge(ProviderLevel, Over)' = Merge(ProviderLevel, Over)
      /\ MergePanics(ProviderLevel, Over)' = MergePanics(ProviderLevel, Over)
  BY <1>1, <1>2 DEF Merge, MergePanics, Keys, Schema
<1>4. CASE Resolve
  BY <1>1, <1>2, <1>3, <1>4 DEF Resolved, Resolve, Over
<1>5. CASE UNCHANGED vars
  BY <1>1, <1>2, <1>3, <1>5 DEF Resolved, vars
<1> QED BY <1>4, <1>5 DEF Next

LEMMA AlwaysResolved == Spec => []Resolved
<1> QED BY ResolvedInit, ResolvedKept, PTL DEF Spec

-----------------------------------------------------------------------------
(* What is written and what the SDK makes of it.                            *)

\* An attribute that is written is answered as it is; a map that is not, empty.
LEMMA FilledIsWritten ==
    ASSUME NEW b \in Blocks, NEW w \in Written[b], block = b,
           NEW k \in Keys
    PROVE  /\ DOMAIN Filled(w) = Keys
           /\ w[k] # Unset => Filled(w)[k] = w[k]
           /\ Schema[k].map => Filled(w)[k] \in Map /\ Filled(w)[k] # Nil
           /\ Schema[k].map /\ w[k] = Unset => Filled(w)[k] = NoEntries
<1>1. \/ w[k] = Unset
      \/ Schema[k].map /\ w[k] \in WrittenMaps
      \/ ~Schema[k].map /\ w[k] \in Offered[k]
  BY DEF Written, Schema, Keys
<1>2. WrittenMaps \subseteq Map
  BY DEF WrittenMaps, Map
<1>3. NoEntries \in Map
  BY DEF NoEntries, Map
<1>4. Nil \notin Map /\ Unset \notin Map
  BY DistinctAssumption
<1>5. /\ DOMAIN Filled(w) = Keys
      /\ w[k] # Unset => Filled(w)[k] = w[k]
      /\ Schema[k].map /\ w[k] = Unset => Filled(w)[k] = NoEntries
  BY DEF Filled
<1>6. CASE w[k] = Unset
  BY <1>3, <1>4, <1>5, <1>6
<1>7. CASE Schema[k].map /\ w[k] \in WrittenMaps
  BY <1>2, <1>4, <1>5, <1>7
<1>8. CASE ~Schema[k].map
  BY <1>5, <1>8
<1> QED BY <1>1, <1>6, <1>7, <1>8

-----------------------------------------------------------------------------
(* Settings.                                                                *)

\* The resource's values are the result's, and its entries those of the maps.
THEOREM ResourceCounts == Spec => []ResourceWins
<1>1. Resolved => ResourceWins
  <2> SUFFICES ASSUME Resolved, outcome = "ok", NEW k \in Keys, WrittenBy(resource, k)
               PROVE  IF Schema[k].map
                      THEN \A e \in Entries :
                              resource[k][e] # NoEntry => settings[k][e] = resource[k][e]
                      ELSE settings[k] = resource[k]
    BY DEF ResourceWins
  <2>1. resource \in Written[block] /\ resource[k] # Unset /\ block \in Blocks
    BY DEF WrittenBy, Resolved
  <2>2. Over[k] = resource[k]
    BY <2>1, FilledIsWritten DEF Over
  <2>3. settings[k] = IF Schema[k].map /\ k \in DOMAIN ProviderLevel
                      THEN ExtendMap(ProviderLevel[k], Over[k])
                      ELSE Over[k]
    BY DEF Resolved, Merge, WrittenBy
  <2> QED BY <2>2, <2>3 DEF ExtendMap
<1> QED BY <1>1, AlwaysResolved, PTL

\* A map of the provider's loses no entry but to one of the resource's.
THEOREM MapsExtend == Spec => []MapsAreExtended
<1>1. Resolved => MapsAreExtended
  <2> SUFFICES ASSUME Resolved, outcome = "ok", NEW k \in Keys, Schema[k].map,
                      WrittenBy(provider, k), NEW e \in Entries, provider[k][e] # NoEntry
               PROVE  \/ settings[k][e] = provider[k][e]
                      \/ WrittenBy(resource, k) /\ resource[k][e] = settings[k][e]
    BY DEF MapsAreExtended
  <2>1. provider \in Written[block] /\ provider[k] # Unset /\ block \in Blocks
    BY DEF WrittenBy, Resolved
  <2>2. ProviderLevel = Filled(provider)
    BY DEF ProviderLevel, WrittenBy
  <2>3. DOMAIN ProviderLevel = Keys /\ ProviderLevel[k] = provider[k]
    BY <2>1, <2>2, FilledIsWritten
  <2>4. CASE resource = NoBlock
    BY <2>3, <2>4 DEF Resolved
  <2>5. CASE resource # NoBlock
    <3>1. resource \in Written[block] /\ resource # Nil
      BY <2>5, BlockAssumption DEF Resolved
    <3>2. settings[k] = ExtendMap(provider[k], Over[k])
      BY <2>3, <2>5 DEF Resolved, Merge
    <3>3. CASE resource[k] = Unset
      <4>1. Over[k] = NoEntries
        BY <2>1, <3>1, <3>3, FilledIsWritten DEF Over
      <4> QED BY <3>2, <4>1 DEF ExtendMap, NoEntries
    <3>4. CASE resource[k] # Unset
      <4>1. Over[k] = resource[k] /\ WrittenBy(resource, k)
        BY <2>1, <2>5, <3>1, <3>4, FilledIsWritten DEF Over, WrittenBy
      <4> QED BY <3>2, <4>1 DEF ExtendMap
    <3> QED BY <3>3, <3>4
  <2> QED BY <2>4, <2>5
<1> QED BY <1>1, AlwaysResolved, PTL

\* Once the provider has the block, or the one around it, merge has maps to merge.
THEOREM MergesTwoSides == Spec => []MergesWhatIsWritten
<1>1. Resolved => MergesWhatIsWritten
  <2> SUFFICES ASSUME Resolved, outcome = "panic", provider # NoBlock PROVE FALSE
    BY DEF MergesWhatIsWritten
  <2>1. PICK k \in DOMAIN ProviderLevel : Schema[k].map /\ ProviderLevel[k] = Nil
    BY DEF Resolved, MergePanics
  <2>2. provider # Nil
    BY <2>1 DEF ProviderLevel
  <2>3. ProviderLevel = Filled(provider) /\ provider \in Written[block] /\ block \in Blocks
    BY <2>2 DEF ProviderLevel, Resolved
  <2>4. k \in Keys
    BY <2>1, <2>3 DEF Filled
  <2> QED BY <2>1, <2>3, <2>4, FilledIsWritten
<1> QED BY <1>1, AlwaysResolved, PTL

\* No secret is lost, none goes before the provider's, and the default one is left out.
THEOREM EverySecretCollected == Spec => []CollectsEverySecret
<1>1. Resolved => CollectsEverySecret
  <2> SUFFICES ASSUME Resolved, outcome # "resolve"
               PROVE  Collect = providerSecrets \o resourceSecrets
    BY DEF CollectsEverySecret, Resolved
  <2>1. providerSecrets \in Seq(Secrets) /\ resourceSecrets \in Seq(Secrets) /\ Nil \notin Secrets
    BY BlockAssumption DEF Resolved
  <2>2. CASE providerSecrets = <<>>
    <3>1. ProviderList = <<Nil>>
      BY <2>2 DEF ProviderList
    <3>2. Head(<<Nil>> \o resourceSecrets) = Nil /\ Tail(<<Nil>> \o resourceSecrets) = resourceSecrets
      BY <2>1
    <3>3. providerSecrets \o resourceSecrets = resourceSecrets
      BY <2>1, <2>2
    <3> QED BY <3>1, <3>2, <3>3 DEF Collect, WithSource
  <2>3. CASE providerSecrets # <<>>
    <3>1. ProviderList = providerSecrets
      BY <2>3 DEF ProviderList
    <3>2. Head(providerSecrets \o resourceSecrets) \in Secrets
      BY <2>1, <2>3
    <3> QED BY <2>1, <2>3, <3>1, <3>2 DEF Collect, WithSource
  <2> QED BY <2>2, <2>3
<1> QED BY <1>1, AlwaysResolved, PTL

\* The user of the resource's block is ssh's, without a `config` that names one.
THEOREM UserIsTheWritten == Spec => []SshUserIsTheWritten
<1>1. Resolved => SshUserIsTheWritten
  <2> SUFFICES ASSUME Resolved, outcome = "ok", block \in {"ssh", "bastion"},
                      provider # NoBlock, WrittenBy(resource, "user"),
                      \A side \in {provider, resource}, e \in Spellings :
                          WrittenBy(side, "config") => side["config"][e] = NoEntry,
                      NEW last \in Spellings
               PROVE  SshConfigMap(settings, last)["user"] = resource["user"]
    BY DEF SshUserIsTheWritten, SshConfigMaps
  <2>1. /\ Keys \in SUBSET {"user", "port", "config", "host"}
        /\ "user" \in Keys /\ "config" \in Keys
        /\ Schema["config"].map /\ ~Schema["user"].map
    BY DEF Keys, Schema, SchemaOf, Plain, MapOf
  <2>2. block \in Blocks /\ resource \in Written[block] /\ resource["user"] # Unset
    BY DEF Resolved, WrittenBy
  <2>3. provider \in Written[block] /\ provider \notin {NoBlock, Nil}
    BY DEF Resolved, Nested
  <2>4. settings = Merge(ProviderLevel, Over) /\ DOMAIN settings = Keys
    BY DEF Resolved, WrittenBy, Merge
  <2>5. resource["user"] \notin {Zero, Nil}
    <3>1. resource["user"] \in Values \cup WrittenMaps
      BY <2>1, <2>2 DEF Written, Schema, Keys
    <3>2. WrittenMaps \subseteq Map
      BY DEF WrittenMaps, Map
    <3> QED BY <3>1, <3>2, DistinctAssumption
  <2>6. Given(settings, "user") = resource["user"]
    BY <2>1, <2>2, <2>4, <2>5, FilledIsWritten DEF Given, Merge, Over
  <2>7. ASSUME NEW e \in Spellings PROVE settings["config"][e] = NoEntry
    <3>1. e \in Entries
      BY DEF Spellings
    <3>2. Over["config"][e] = NoEntry
      BY <2>1, <2>2, <3>1, FilledIsWritten DEF Over, WrittenBy, NoEntries
    <3>3. ProviderLevel = Filled(provider)
      BY <2>3 DEF ProviderLevel
    <3>4. DOMAIN ProviderLevel = Keys /\ ProviderLevel["config"][e] = NoEntry
      BY <2>1, <2>2, <2>3, <3>1, <3>3, FilledIsWritten DEF WrittenBy, NoEntries
    <3>5. settings["config"] = ExtendMap(ProviderLevel["config"], Over["config"])
      BY <2>1, <2>4, <3>4 DEF Merge
    <3> QED BY <3>1, <3>2, <3>4, <3>5 DEF ExtendMap
  <2>8. {e \in Entries : Lower(e) = "user" /\ settings["config"][e] # NoEntry} = {}
    BY <2>7 DEF Spellings
  <2>9. "user" \in Options
    BY DEF Options
  <2> QED BY <2>6, <2>8, <2>9 DEF SshConfigMap
<1> QED BY <1>1, AlwaysResolved, PTL

-----------------------------------------------------------------------------
(* Connections.                                                             *)

\* The commands leave the settings alone: what is proved of Settings may be used below.
LEMMA ConnectionsUseSettings == ConnectionsSpec => Spec
<1>1. ConnectionsInit => Init
  BY DEF ConnectionsInit
<1>2. [ConnectionsNext]_all => [Next]_vars
  BY DEF ConnectionsNext, all, vars, Next, ResolveFirst, Build, CopySecrets, Push, Install,
         Activate, Get, NewSecretsPanics, Then
<1> QED BY <1>1, <1>2, PTL DEF Spec, ConnectionsSpec

-----------------------------------------------------------------------------
(* The commands.                                                            *)

\* What the command of a secrets provider sets.
SetFor(s) == [v \in {e \in Entries : s["environment"][e] # NoEntry} |-> s["environment"][v]]

\* What is executed is made of the settings as they are, and what a step counts on
\* has been executed before.
Executed ==
    /\ outcome = "resolve" <=> step = "resolve"
    /\ outcome = "resolve" => executed = {}
    /\ outcome = "panic" => step = "panic" /\ executed = {}
    /\ step = "get" => block = "command"
    /\ step \notin {"resolve", "get", "panic", "end"} => block # "command"
    /\ step = "panic" => outcome = "panic" \/ ~Asserted
    /\ step = "end" /\ block = "command" => Asserted
    /\ step = "activate" => \E c \in executed : c.name = "install"
    /\ \A c \in executed :
          /\ c.name = "get" <=> block = "command"
          /\ c.name # "get" => c.file \in NewSshs
          /\ c.name = "get" => c.environment = Environment(SetFor(settings))
          /\ c.name \in {"build", "push"} => c.feature = Compat
          /\ c.name = "install" => c.program = IF Compat THEN "nix-env" ELSE "nix profile"

\* Where the settings stay, what is made of them does.
LEMMA SettingsStay ==
    ASSUME UNCHANGED <<vars, rest>>
    PROVE  UNCHANGED <<NewSshs, Compat, Asserted, Environment(SetFor(settings)), block, outcome>>
<1>1. /\ SshSettings' = SshSettings
      /\ BastionSettings' = BastionSettings
      /\ UNCHANGED <<settings, block, outcome, rest>>
  BY DEF SshSettings, BastionSettings, vars
<1>2. NewSshs' = NewSshs
  BY <1>1 DEF NewSshs, ThroughBastion
<1>3. Compat' = Compat /\ Asserted' = Asserted
  BY <1>1 DEF Compat, Asserted
<1>4. Environment(SetFor(settings))' = Environment(SetFor(settings))
  BY <1>1 DEF Environment, SetFor
<1> QED BY <1>1, <1>2, <1>3, <1>4

\* A command that finds its way by the variable finds the one it was given.
LEMMA OwnVariableCounts ==
    ASSUME NEW file
    PROVE  Environment(NixEnvironment(file))["NIX_SSHOPTS"] = file
BY DEF Environment, NixEnvironment, Variables

LEMMA ExecutedInit == ConnectionsInit => Executed
BY DEF ConnectionsInit, Init, Executed

\* A command of a Create that is made of the settings keeps Executed.
LEMMA CommandKeeps ==
    ASSUME Executed, UNCHANGED <<vars, rest>>,
           NEW name \in {"build", "secrets", "push", "install", "activate"},
           NEW program, NEW feature, NEW file \in NewSshs, NEW own,
           Execute(name, program, feature, file, own),
           name \in {"build", "push"} => feature = Compat,
           name = "install" => program = IF Compat THEN "nix-env" ELSE "nix profile",
           step \notin {"resolve", "get", "panic", "end"},
           step' \in {"secrets", "push", "install", "activate", "end"},
           step' = "activate" => name = "install"
    PROVE  Executed'
<1> DEFINE new == [name |-> name, program |-> program, feature |-> feature, file |-> file,
                   environment |-> Environment(own)]
<1>1. executed' = executed \cup {new}
  BY DEF Execute
<1>2. /\ new.name = name /\ new.program = program
      /\ new.feature = feature /\ new.file = file
  OBVIOUS
<1>3. UNCHANGED <<NewSshs, Compat, Asserted, Environment(SetFor(settings)), block, outcome>>
  BY SettingsStay
<1> HIDE DEF new
<1>4. outcome' # "resolve" /\ step' # "resolve"
  BY <1>3 DEF Executed
<1>5. step' = "activate" => \E c \in executed' : c.name = "install"
  BY <1>1, <1>2
<1>6. ASSUME NEW c \in executed'
      PROVE  /\ c.name = "get" <=> block = "command"
             /\ c.name # "get" => c.file \in NewSshs
             /\ c.name = "get" => c.environment = Environment(SetFor(settings))
             /\ c.name \in {"build", "push"} => c.feature = Compat
             /\ c.name = "install" => c.program = IF Compat THEN "nix-env" ELSE "nix profile"
  <2>1. CASE c \in executed
    BY <2>1 DEF Executed
  <2>2. CASE c = new
    BY <2>2, <1>2 DEF Executed
  <2> QED BY <2>1, <2>2, <1>1
<1> QED BY <1>3, <1>4, <1>5, <1>6 DEF Executed

LEMMA ExecutedKept == Executed /\ [ConnectionsNext]_all => Executed'
<1> SUFFICES ASSUME Executed, [ConnectionsNext]_all PROVE Executed'
  OBVIOUS
<1>1. CASE ResolveFirst
  <2>1. executed' = {} /\ outcome' \in {"ok", "panic"} /\ block' = block
    BY <1>1 DEF ResolveFirst, Resolve, Executed
  <2>2. step' = IF outcome' = "panic" THEN "panic"
                ELSE IF block = "command" THEN "get" ELSE "build"
    BY <1>1, <2>1 DEF ResolveFirst
  <2> QED BY <2>1, <2>2 DEF Executed
<1>2. CASE Build
  <2>1. PICK file \in NewSshs :
           Execute("build", "nix build", Compat, file, NixEnvironment(file))
    BY <1>2 DEF Build
  <2> QED BY <1>2, <2>1, CommandKeeps DEF Build, Then
<1>3. CASE CopySecrets
  <2>1. PICK file \in NewSshs : Execute("secrets", "tar", FALSE, file, NoVariables)
    BY <1>3 DEF CopySecrets
  <2> QED BY <1>3, <2>1, CommandKeeps DEF CopySecrets, Then
<1>4. CASE Push
  <2>1. PICK file \in NewSshs :
           Execute("push", "nix copy", Compat, file, NixEnvironment(file))
    BY <1>4, OwnVariableCounts DEF Push
  <2> QED BY <1>4, <2>1, CommandKeeps DEF Push, Then
<1>5. CASE Install
  <2>1. PICK file \in NewSshs :
           Execute("install", IF Compat THEN "nix-env" ELSE "nix profile", FALSE, file,
                   NixEnvironment(file))
    BY <1>5 DEF Install
  <2> QED BY <1>5, <2>1, CommandKeeps DEF Install, Then
<1>6. CASE Activate
  <2>1. FileOf("install") \in NewSshs
    <3>1. \E c \in executed : c.name = "install"
      BY <1>6 DEF Activate, Executed
    <3>2. (CHOOSE c \in executed : c.name = "install") \in executed
      BY <3>1
    <3>3. (CHOOSE c \in executed : c.name = "install").name = "install"
      BY <3>1
    <3> QED BY <3>2, <3>3 DEF FileOf, Executed
  <2>2. Execute("activate", "script", FALSE, FileOf("install"), NoVariables)
    BY <1>6 DEF Activate
  <2> QED BY <1>6, <2>1, <2>2, CommandKeeps DEF Activate, Then
<1>7. CASE Get
  <2>1. /\ \A c \in executed' : c \in executed \/ c.name = "get"
        /\ \A c \in executed' : c \in executed \/ c.environment = Environment(SetFor(settings))
    BY <1>7 DEF Get, Execute, SetFor
  <2>2. UNCHANGED <<NewSshs, Compat, Asserted, Environment(SetFor(settings)), block, outcome>>
    BY <1>7, SettingsStay DEF Get, Then
  <2>3. step = "get" /\ step' = "end" /\ Asserted
    BY <1>7 DEF Get, Then
  <2> QED BY <2>1, <2>2, <2>3 DEF Executed
<1>8. CASE NewSecretsPanics
  <2>1. UNCHANGED <<NewSshs, Compat, Asserted, Environment(SetFor(settings)), block, outcome>>
    BY <1>8, SettingsStay DEF NewSecretsPanics, Then
  <2> QED BY <1>8, <2>1 DEF NewSecretsPanics, Then, Executed
<1>9. CASE UNCHANGED all
  <2>1. UNCHANGED <<NewSshs, Compat, Asserted, Environment(SetFor(settings)), block, outcome>>
    BY <1>9, SettingsStay DEF all
  <2> QED BY <1>9, <2>1 DEF all, Executed
<1> QED BY <1>1, <1>2, <1>3, <1>4, <1>5, <1>6, <1>7, <1>8, <1>9 DEF ConnectionsNext

LEMMA AlwaysExecuted == ConnectionsSpec => []Executed
<1> QED BY ExecutedInit, ExecutedKept, PTL DEF ConnectionsSpec

\* The commands of one Create are of one mode, which is the user's below 256.
THEOREM ModeIsOne == ConnectionsSpec => []OneMode
<1>1. Executed => OneMode
  <2> SUFFICES ASSUME Executed, NEW here \in Reaching, NEW there \in Reaching,
                      here.name \in {"build", "push"}, there.name = "install"
               PROVE  /\ here.feature <=> there.program = "nix-env"
                      /\ rest.mode \in 0 .. 255 => (here.feature <=> rest.mode = 0)
    BY DEF OneMode
  <2>1. here.feature = Compat /\ there.program = IF Compat THEN "nix-env" ELSE "nix profile"
    BY DEF Executed, Reaching
  <2>2. rest.mode \in 0 .. 255 => (Compat <=> rest.mode = 0)
    BY DEF Compat
  <2>3. Compat \in BOOLEAN
    BY DEF Compat
  <2> QED BY <2>1, <2>2, <2>3
<1> QED BY <1>1, AlwaysExecuted, PTL

-----------------------------------------------------------------------------
(* The way through the bastion.                                             *)

\* The entries of `config` have no `host` (nor `port`) among them.
LEMMA AttributesStay ==
    ASSUME NEW s, NEW m \in SshConfigMaps(s), NEW o \in {"host", "port"}
    PROVE  m[o] = Given(s, o)
<1>1. PICK last \in Spellings : m = SshConfigMap(s, last)
  BY DEF SshConfigMaps
<1>2. {e \in Entries : Lower(e) = o /\ s["config"][e] # NoEntry} = {}
  BY DEF Entries, Lower
<1> QED BY <1>1, <1>2 DEF SshConfigMap, Options

LEMMA MapsHaveOptions ==
    ASSUME NEW s, NEW m \in SshConfigMaps(s)
    PROVE  DOMAIN m = Options /\ m = [o \in Options |-> m[o]]
BY DEF SshConfigMaps, SshConfigMap

\* Whichever spelling comes last, an option is set or it is not.
LEMMA AnOptionIsAlwaysSet ==
    ASSUME NEW s, NEW one \in SshConfigMaps(s), NEW other \in SshConfigMaps(s),
           NEW o \in Options, one[o] # NoEntry
    PROVE  other[o] # NoEntry
<1> DEFINE Named == {e \in Entries : Lower(e) = o /\ s["config"][e] # NoEntry}
<1>1. PICK l1 \in Spellings : one = SshConfigMap(s, l1)
  BY DEF SshConfigMaps
<1>2. PICK l2 \in Spellings : other = SshConfigMap(s, l2)
  BY DEF SshConfigMaps
<1>3. CASE Named = {}
  BY <1>1, <1>2, <1>3 DEF SshConfigMap
<1>4. CASE Named # {}
  <2>1. (CHOOSE e \in Named : TRUE) \in Named
    BY <1>4
  <2>2. other[o] \in {s["config"][e] : e \in Named}
    BY <1>2, <1>4, <2>1 DEF SshConfigMap
  <2> QED BY <2>2
<1> QED BY <1>3, <1>4

\* A file that leads through a bastion, in parts.
LEMMA WayThroughBastion ==
    ASSUME NEW file \in NewSshs, Given(BastionSettings, "host") # NoEntry
    PROVE  \E own \in SshConfigMaps(SshSettings), ext \in SshConfigMaps(BastionSettings) :
              /\ file["proxycommand"].host = Given(BastionSettings, "host")
              /\ \A o \in Options : file["proxycommand"].options[o] =
                                       IF ext[o] # NoEntry THEN ext[o] ELSE own[o]
              /\ \A o \in Options \ {"proxycommand"} : file[o] = own[o]
<1>1. PICK own \in SshConfigMaps(SshSettings), ext \in SshConfigMaps(BastionSettings) :
         file = ThroughBastion(own, ext)
  BY DEF NewSshs
<1>2. DOMAIN own = Options
  BY MapsHaveOptions
<1>3. /\ file["proxycommand"] = ProxyCommand(Extend(own, ext), Given(BastionSettings, "host"))
      /\ \A o \in Options \ {"proxycommand"} : file[o] = own[o]
  BY <1>1, <1>2 DEF ThroughBastion, Options
<1>4. \A o \in Options : Extend(own, ext)[o] = IF ext[o] # NoEntry THEN ext[o] ELSE own[o]
  BY DEF Extend
<1> QED BY <1>3, <1>4 DEF ProxyCommand

\* The bastion's own connection does not go through it.
THEOREM BastionFirst == ConnectionsSpec => []BastionIsReachedDirectly
<1>1. Executed => BastionIsReachedDirectly
  <2> SUFFICES ASSUME Executed, NEW c \in Reaching, Given(BastionSettings, "host") # NoEntry
               PROVE  /\ c.file["proxycommand"].host = Given(BastionSettings, "host")
                      /\ c.file["proxycommand"].options["host"] = c.file["proxycommand"].host
                      /\ c.file["proxycommand"].options["proxycommand"] \in
                             {m["proxycommand"] : m \in SshConfigMaps(SshSettings)
                                                           \cup SshConfigMaps(BastionSettings)}
    BY DEF BastionIsReachedDirectly
  <2>1. c.file \in NewSshs
    BY DEF Executed, Reaching
  <2>2. PICK own \in SshConfigMaps(SshSettings), ext \in SshConfigMaps(BastionSettings) :
           /\ c.file["proxycommand"].host = Given(BastionSettings, "host")
           /\ \A o \in Options : c.file["proxycommand"].options[o] =
                                    IF ext[o] # NoEntry THEN ext[o] ELSE own[o]
    BY <2>1, WayThroughBastion
  <2>3. ext["host"] = Given(BastionSettings, "host")
    BY AttributesStay
  <2> QED BY <2>2, <2>3 DEF Options
<1> QED BY <1>1, AlwaysExecuted, PTL

\* Nor with other options than the bastion's over the machine's.
THEOREM BastionOverSsh == ConnectionsSpec => []BastionExtendsSsh
<1>1. Executed => BastionExtendsSsh
  <2> SUFFICES ASSUME Executed, NEW c \in Reaching, Given(BastionSettings, "host") # NoEntry
               PROVE  LET options == c.file["proxycommand"].options
                          Has(o) == \E m \in SshConfigMaps(BastionSettings) : m[o] # NoEntry
                      IN  /\ \E m \in SshConfigMaps(BastionSettings) :
                                 \A o \in Options : Has(o) => options[o] = m[o]
                          /\ ~Has("port") => options["port"] = c.file["port"]
                          /\ ~Has("proxycommand") =>
                                 options["proxycommand"] \in
                                     {m["proxycommand"] : m \in SshConfigMaps(SshSettings)}
    BY DEF BastionExtendsSsh
  <2> DEFINE options == c.file["proxycommand"].options
             Has(o)  == \E m \in SshConfigMaps(BastionSettings) : m[o] # NoEntry
  <2>1. c.file \in NewSshs
    BY DEF Executed, Reaching
  <2>2. PICK own \in SshConfigMaps(SshSettings), ext \in SshConfigMaps(BastionSettings) :
           /\ \A o \in Options : options[o] = IF ext[o] # NoEntry THEN ext[o] ELSE own[o]
           /\ \A o \in Options \ {"proxycommand"} : c.file[o] = own[o]
    BY <2>1, WayThroughBastion
  <2>3. \A o \in Options : Has(o) => ext[o] # NoEntry
    BY AnOptionIsAlwaysSet
  <2>4. \A o \in Options : Has(o) => options[o] = ext[o]
    BY <2>2, <2>3
  <2>5. ~Has("port") => options["port"] = c.file["port"]
    BY <2>2 DEF Options
  <2>6. ~Has("proxycommand") => options["proxycommand"] = own["proxycommand"]
    BY <2>2 DEF Options
  <2> QED BY <2>4, <2>5, <2>6
<1> QED BY <1>1, AlwaysExecuted, PTL

-----------------------------------------------------------------------------
(* One way, and what is written on it.                                      *)

\* Without two spellings of one key, the entry of an option is the option.
LEMMA TheEntryCounts ==
    ASSUME NEW s, ~Ambiguous(s), NEW m \in SshConfigMaps(s),
           NEW e \in Entries, s["config"][e] # NoEntry
    PROVE  m[Lower(e)] = s["config"][e]
<1> DEFINE Named == {f \in Entries : Lower(f) = Lower(e) /\ s["config"][f] # NoEntry}
<1>1. PICK last \in Spellings : m = SshConfigMap(s, last)
  BY DEF SshConfigMaps
<1>2. e \in Named /\ Lower(e) \in Options
  BY DEF Lower, Options, Entries
<1>3. ASSUME NEW f \in Named PROVE f = e
  <2>1. CASE e \in Spellings
    BY <2>1 DEF Ambiguous, Spellings
  <2>2. CASE e \notin Spellings
    BY <2>2 DEF Spellings, Entries, Lower
  <2> QED BY <2>1, <2>2
<1>4. (CHOOSE f \in Named : TRUE) = e
  BY <1>2, <1>3
<1> QED BY <1>1, <1>2, <1>3, <1>4 DEF SshConfigMap

\* Then there is one map to make of the settings.
LEMMA OneMap ==
    ASSUME NEW s, ~Ambiguous(s), NEW one \in SshConfigMaps(s), NEW other \in SshConfigMaps(s)
    PROVE  one = other
<1>1. ASSUME NEW o \in Options PROVE one[o] = other[o]
  <2>1. CASE \E e \in Entries : Lower(e) = o /\ s["config"][e] # NoEntry
    BY <2>1, TheEntryCounts
  <2>2. CASE ~\E e \in Entries : Lower(e) = o /\ s["config"][e] # NoEntry
    <3>1. {e \in Entries : Lower(e) = o /\ s["config"][e] # NoEntry} = {}
      BY <2>2
    <3>2. \A l \in Spellings : SshConfigMap(s, l)[o] = Given(s, o)
      BY <3>1 DEF SshConfigMap
    <3> QED BY <3>2 DEF SshConfigMaps
  <2> QED BY <2>1, <2>2
<1>2. one = [o \in Options |-> one[o]] /\ other = [o \in Options |-> other[o]]
  BY MapsHaveOptions
<1> QED BY <1>1, <1>2

\* All commands of a Create go one way.
THEOREM OneWay == ConnectionsSpec => []OneWayToTheMachine
<1>1. Executed => OneWayToTheMachine
  <2> SUFFICES ASSUME Executed, ~Ambiguous(SshSettings), ~Ambiguous(BastionSettings),
                      NEW one \in Reaching, NEW another \in Reaching
               PROVE  one.file = another.file
    BY DEF OneWayToTheMachine
  <2>1. one.file \in NewSshs /\ another.file \in NewSshs
    BY DEF Executed, Reaching
  <2>2. CASE Given(BastionSettings, "host") = NoEntry
    BY <2>1, <2>2, OneMap DEF NewSshs
  <2>3. CASE Given(BastionSettings, "host") # NoEntry
    <3>1. PICK own1 \in SshConfigMaps(SshSettings), ext1 \in SshConfigMaps(BastionSettings) :
             one.file = ThroughBastion(own1, ext1)
      BY <2>1, <2>3 DEF NewSshs
    <3>2. PICK own2 \in SshConfigMaps(SshSettings), ext2 \in SshConfigMaps(BastionSettings) :
             another.file = ThroughBastion(own2, ext2)
      BY <2>1, <2>3 DEF NewSshs
    <3>3. own1 = own2 /\ ext1 = ext2
      BY OneMap
    <3> QED BY <3>1, <3>2, <3>3
  <2> QED BY <2>2, <2>3
<1> QED BY <1>1, AlwaysExecuted, PTL

\* The maps that the resource writes, in the settings.
LEMMA EntriesOfTheResource ==
    ASSUME Resolved, outcome = "ok", NEW k \in Keys, Schema[k].map,
           WrittenBy(resource, k), NEW e \in Entries, resource[k][e] # NoEntry
    PROVE  settings[k][e] = resource[k][e]
<1>1. resource \in Written[block] /\ resource[k] # Unset /\ block \in Blocks
  BY DEF WrittenBy, Resolved
<1>2. Over[k] = resource[k]
  BY <1>1, FilledIsWritten DEF Over
<1>3. settings[k] = IF k \in DOMAIN ProviderLevel
                    THEN ExtendMap(ProviderLevel[k], Over[k])
                    ELSE Over[k]
  BY DEF Resolved, Merge, WrittenBy
<1> QED BY <1>2, <1>3 DEF ExtendMap

\* From the resource's block to what is executed.
THEOREM WrittenIsExecuted == ConnectionsSpec => []WrittenReachesTheCommand
<1>1. Executed /\ Resolved => WrittenReachesTheCommand
  <2> SUFFICES ASSUME Executed, Resolved, NEW c \in executed, NEW e \in Entries
               PROVE  /\ block = "ssh" /\ WrittenBy(resource, "config") /\ ~Ambiguous(settings)
                           /\ resource["config"][e] # NoEntry
                           /\ (Lower(e) = "proxycommand" =>
                                   Given(BastionSettings, "host") = NoEntry)
                         => c.file[Lower(e)] = resource["config"][e]
                      /\ block = "bastion" /\ WrittenBy(resource, "config") /\ ~Ambiguous(settings)
                           /\ resource["config"][e] # NoEntry /\ Given(settings, "host") # NoEntry
                         => c.file["proxycommand"].options[Lower(e)] = resource["config"][e]
                      /\ block = "command" /\ WrittenBy(resource, "environment")
                           /\ resource["environment"][e] # NoEntry
                         => c.environment[e] = resource["environment"][e]
    BY DEF WrittenReachesTheCommand
  <2>1. outcome = "ok"
    BY DEF Executed, Resolved
  <2>2. Lower(e) \in Options
    BY DEF Lower, Entries, Options
  <2>3. ASSUME block = "ssh", WrittenBy(resource, "config"), ~Ambiguous(settings),
               resource["config"][e] # NoEntry,
               Lower(e) = "proxycommand" => Given(BastionSettings, "host") = NoEntry
        PROVE  c.file[Lower(e)] = resource["config"][e]
    <3>1. settings["config"][e] = resource["config"][e]
      BY <2>1, <2>3, EntriesOfTheResource DEF Keys, Schema, SchemaOf, MapOf, Plain
    <3>2. c.file \in NewSshs /\ SshSettings = settings
      BY <2>3 DEF Executed, SshSettings
    <3>3. CASE Given(BastionSettings, "host") = NoEntry
      BY <2>3, <3>1, <3>2, <3>3, TheEntryCounts DEF NewSshs
    <3>4. CASE Given(BastionSettings, "host") # NoEntry
      <4>1. PICK own \in SshConfigMaps(settings) :
               \A o \in Options \ {"proxycommand"} : c.file[o] = own[o]
        BY <3>2, <3>4, WayThroughBastion
      <4>2. Lower(e) # "proxycommand"
        BY <2>3, <3>4
      <4> QED BY <2>2, <2>3, <3>1, <4>1, <4>2, TheEntryCounts
    <3> QED BY <3>3, <3>4
  <2>4. ASSUME block = "bastion", WrittenBy(resource, "config"), ~Ambiguous(settings),
               resource["config"][e] # NoEntry, Given(settings, "host") # NoEntry
        PROVE  c.file["proxycommand"].options[Lower(e)] = resource["config"][e]
    <3>1. settings["config"][e] = resource["config"][e]
      BY <2>1, <2>4, EntriesOfTheResource DEF Keys, Schema, SchemaOf, MapOf, Plain
    <3>2. c.file \in NewSshs /\ BastionSettings = settings
      BY <2>4 DEF Executed, BastionSettings
    <3>3. PICK own \in SshConfigMaps(SshSettings), ext \in SshConfigMaps(settings) :
             \A o \in Options : c.file["proxycommand"].options[o] =
                                    IF ext[o] # NoEntry THEN ext[o] ELSE own[o]
      BY <2>4, <3>2, WayThroughBastion
    <3>4. ext[Lower(e)] = settings["config"][e]
      BY <2>4, <3>1, TheEntryCounts
    <3> QED BY <2>2, <2>4, <3>1, <3>3, <3>4
  <2>5. ASSUME block = "command", WrittenBy(resource, "environment"),
               resource["environment"][e] # NoEntry
        PROVE  c.environment[e] = resource["environment"][e]
    <3>1. settings["environment"][e] = resource["environment"][e]
      BY <2>1, <2>5, EntriesOfTheResource DEF Keys, Schema, SchemaOf, MapOf, Plain, Required
    <3>2. c.environment = Environment(SetFor(settings))
      BY <2>5 DEF Executed
    <3>3. e \in DOMAIN SetFor(settings) /\ SetFor(settings)[e] = settings["environment"][e]
      BY <2>5, <3>1 DEF SetFor
    <3> QED BY <3>1, <3>2, <3>3 DEF Environment, Variables
  <2> QED BY <2>3, <2>4, <2>5
<1> QED BY <1>1, AlwaysExecuted, AlwaysResolved, ConnectionsUseSettings, PTL

\* NewSecrets ends exactly where the provider's side has a map to merge with, and
\* panics otherwise: in its own assertions or in merge's.
THEOREM CommandIsFound == ConnectionsSpec => []NewSecretsFindsItsCommand
<1>1. Executed /\ Resolved => NewSecretsFindsItsCommand
  <2> DEFINE Found == provider # NoBlock /\ (provider = Nil => resource # NoBlock)
  <2> SUFFICES ASSUME Executed, Resolved, block = "command"
               PROVE  /\ step = "panic" => ~Found
                      /\ step = "end"   => Found
    BY DEF NewSecretsFindsItsCommand
  <2>1. /\ step = "panic" => outcome = "panic" \/ (outcome = "ok" /\ ~Asserted)
        /\ step = "end" => outcome = "ok" /\ Asserted
    <3>1. outcome \in {"resolve", "ok", "panic"}
      BY DEF Resolved
    <3>2. /\ outcome = "resolve" <=> step = "resolve"
          /\ outcome = "panic" => step = "panic"
          /\ step = "panic" => outcome = "panic" \/ ~Asserted
          /\ step = "end" => Asserted
      BY DEF Executed
    <3> QED BY <3>1, <3>2
  <2>2. Keys = {"name", "arguments", "environment"} /\ block \in Blocks
    BY DEF Keys, Schema, SchemaOf, Resolved
  <2>3. /\ Schema["environment"].map /\ Schema["environment"].default = Nil
        /\ ~Schema["name"].map /\ ~Schema["arguments"].map
        /\ Schema["name"].default = Nil /\ Schema["arguments"].default = Nil
    BY DEF Schema, SchemaOf, Plain, Required, MapOf
  <2>4. ASSUME NEW w \in Written[block], NEW k \in Keys
        PROVE  Filled(w)[k] # Nil /\ (Schema[k].map => Filled(w)[k] \in Map)
    <3>1. Schema[k].map => Filled(w)[k] \in Map /\ Filled(w)[k] # Nil
      BY <2>2, FilledIsWritten
    <3>2. CASE ~Schema[k].map
      <4>1. k \in {"name", "arguments"}
        BY <2>2, <2>3, <3>2
      <4>2. CASE w[k] = Unset
        BY <2>3, <3>2, <4>1, <4>2, DistinctAssumption DEF Filled
      <4>3. CASE w[k] # Unset
        <5>1. w[k] \in Values \cup WrittenMaps
          BY <4>3, <2>2 DEF Written, Schema, Keys
        <5>2. WrittenMaps \subseteq Map
          BY DEF WrittenMaps, Map
        <5>3. w[k] # Nil
          BY <5>1, <5>2, DistinctAssumption
        <5> QED BY <3>2, <4>3, <5>3 DEF Filled
      <4> QED BY <3>2, <4>2, <4>3
    <3> QED BY <3>1, <3>2
  <2>5. ASSUME Found PROVE outcome # "panic"
    <3>1. provider # NoBlock
      BY <2>5
    <3>2. CASE provider = Nil
      BY <3>2, BlockAssumption, DistinctAssumption DEF Resolved, MergePanics, ProviderLevel
    <3>3. CASE provider # Nil
      <4>1. ProviderLevel = Filled(provider) /\ provider \in Written[block]
        BY <3>1, <3>3 DEF ProviderLevel, Resolved
      <4>2. \A k \in Keys : ProviderLevel[k] # Nil
        BY <2>4, <4>1
      <4> QED BY <4>1, <4>2 DEF Resolved, MergePanics, Filled
    <3> QED BY <3>2, <3>3
  <2>6. ASSUME Found, outcome = "ok" PROVE Asserted
    <3>1. CASE resource = NoBlock
      <4>1. settings = Filled(provider) /\ provider \in Written[block]
        BY <2>6, <3>1 DEF Resolved, ProviderLevel
      <4> QED BY <2>2, <2>4, <4>1 DEF Asserted, Filled
    <3>2. CASE resource # NoBlock
      <4>1. settings = Merge(ProviderLevel, Over) /\ resource \in Written[block]
        BY <2>6, <3>2 DEF Resolved
      <4>2. ASSUME NEW k \in Keys PROVE settings[k] # Nil
        <5>1. CASE Schema[k].map /\ k \in DOMAIN ProviderLevel
          <6>1. provider # Nil
            BY <5>1 DEF ProviderLevel
          <6>2. ProviderLevel = Filled(provider) /\ provider \in Written[block]
            BY <2>6, <6>1 DEF ProviderLevel, Resolved
          <6>3. ProviderLevel[k] \in Map /\ Over[k] \in Map
            BY <2>4, <4>1, <5>1, <6>2 DEF Over
          <6>4. settings[k] \in Map
            BY <4>1, <5>1, <6>3 DEF Merge, ExtendMap, Map
          <6> QED BY <6>4, DistinctAssumption
        <5>2. CASE ~(Schema[k].map /\ k \in DOMAIN ProviderLevel)
          BY <2>4, <4>1, <5>2 DEF Merge, Over
        <5> QED BY <5>1, <5>2
      <4> QED BY <2>2, <4>1, <4>2 DEF Asserted, Merge
    <3> QED BY <3>1, <3>2
  <2>7. ASSUME ~Found, outcome = "ok" PROVE ~Asserted
    <3>1. CASE provider = NoBlock
      <4>1. ProviderLevel = DefaultMap
        BY <3>1, DistinctAssumption DEF ProviderLevel
      <4>2. "environment" \in DOMAIN ProviderLevel /\ ProviderLevel["environment"] = Nil
        BY <2>2, <2>3, <4>1 DEF DefaultMap
      <4>3. resource = NoBlock
        BY <2>3, <2>7, <4>2 DEF Resolved, MergePanics
      <4>4. settings = ProviderLevel
        BY <2>7, <4>3 DEF Resolved
      <4> QED BY <4>2, <4>4 DEF Asserted
    <3>2. CASE provider # NoBlock
      <4>1. provider = Nil /\ resource = NoBlock
        BY <2>7, <3>2
      <4>2. settings = [k \in {} |-> Nil]
        BY <2>7, <3>2, <4>1 DEF Resolved, ProviderLevel
      <4>3. DOMAIN settings = {}
        BY <4>2
      <4> QED BY <4>3 DEF Asserted
    <3> QED BY <3>1, <3>2
  <2> QED BY <2>1, <2>5, <2>6, <2>7
<1> QED BY <1>1, AlwaysExecuted, AlwaysResolved, ConnectionsUseSettings, PTL
=============================================================================
