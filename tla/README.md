# terraform-provider-nixos in TLA+

The provider has one resource, `nixos_instance`: a machine that should run the NixOS system a
Nix file describes. Planning builds the system and compares it, and the machine's secrets, with
what Terraform recorded. Applying builds it again, copies the secrets and the system to the
machine, points the system profile at it and activates it.

This directory holds a model of that, TLC's configurations for it, and proofs.

## The system

| part | state | operations | talks to |
|---|---|---|---|
| `provider/instance.go`, the resource | locals of one operation; the Terraform state | Diff, Create, Update, Read, Delete | the provider operations, the SDK |
| `provider/provider.go`, operations | provider configuration, address filter and priorities | Build, CopySecrets, Push, Switch, Address | nix, ssh, secrets, the memo |
| `provider/nix.go`, commands and memo | the memo: output by configuration path, one per process | NixBuildCommand.Execute, Memo.Get and Set, copy, profile install | nix, through `CommandExecute` |
| `provider/net.go`, addresses | none | FilterIPAddress, SortIPAddress | Provider.Address |
| `provider/provider.go:95-262`, `resource.go`, `schema_defaults.go`, settings | none | resolve, merge, defaults | every operation |
| `provider/secrets.go`, secrets | contents in locked memory, until Close | Data, Tar, Copy, Hash, Close | the secrets provider, ssh |
| `provider/ssh.go`, `os.go`, `nix_conf_wrapper.go` | temporary files, finalizers | With, Finalize, Close, NewNixWrapperFile | nix, ssh |
| `provider/command.go` | environment | CommandExecute, RemoteCommand | the operating system |
| `provider/schema.go` | declarations | New | the SDK |
| vendored SDK, Terraform core | the state, the plan, contexts | PlanResourceChange, ApplyResourceChange, Stop | the resource |

Terraform starts one provider process to plan, and another one to apply an approved plan. In a
process the operations of several instances run at once. They share the memo and nothing else.
The memo is what makes Diff and Create see the same build: the apply process plans a changed
instance once more and then creates it.

What is hard here:

* concurrency: `Memo.Get`, the build and `Memo.Set` are three steps;
* failure at any command, with part of its effect in place, and a retry that starts over;
* cancellation: a context that is done makes Build return neither a derivation nor an error,
  and makes Push return success;
* crashes between what is done to the machine and what is recorded;
* a record nobody compares with the machine, because Read does nothing;
* sources and secrets that change between two reads;
* locked memory, of which a process has little and which Diff does not give back;
* settings that are put together from three places and end in four connections and six commands.

What each part should guarantee:

* memo: a build is answered with a derivation of the caller's own input, as new as the process;
* resource: success means machine and record agree; what is deployed is what was planned;
  no change in the plan means nothing to do; repeated applies converge;
* address selection: exactly the addresses the filter admits, the heaviest one first;
* settings: what is written on either side takes effect, the resource's over the provider's;
* connections: all commands of a Create go one way to the machine, in one mode of nix, through a
  bastion that is itself reached directly;
* secrets: the fingerprint that is recorded is of what is on the machine, and a change is noticed
  exactly when there is one; nothing stays in locked memory that could be given back;
* temporary files: a command finds its files, one operation removes each of them, none stays.

## Modules

| module | what it is |
|---|---|
| `Derivations` | inputs, derivations, the premise `KeyDeterminesInput` |
| `BuildService` | abstract: a caller asks and is answered with a build of its own input, or refused |
| `BuildMemo` | `NixBuildCommand.Execute`, `Memo.Get`, `Memo.Set`, the result checks of `Provider.Build` |
| `BuildMemoProofs` | theorems about `BuildMemo` |
| `NixosInstance` | Diff, Create, Update, Read, Delete over `BuildMemo`; the state, the machines, Terraform around them |
| `NixosInstanceProofs` | theorems about `NixosInstance` |
| `PlansProofs` | theorems about `NixosInstance`: which derivation is deployed and recorded, why a plan without changes is right, and what stays in order |
| `Secrets` | `Secrets.Data`, `Tar`, `Hash`, `Close`, the fingerprint, its comparison, locked memory, Create around them |
| `SecretsProofs` | theorems about `Secrets` |
| `AddressSelection` | `Provider.Address`, `FilterIPAddress`, `SortIPAddress` |
| `AddressSelectionProofs` | theorems about `AddressSelection` |
| `Settings` | `Provider.settings`, `merge`, `settingsSet`, `ResourceData.Get`, `DefaultMapFromSchema`, `SshConfigMap` |
| `Connections` | over `Settings`: `NewSsh`, the bastion, the commands of a Create or of a secrets provider, their environment and mode |
| `ConnectionsProofs` | theorems about `Settings` and `Connections` |
| `TempFiles` | the files `NewSsh` and `NewNixWrapperFile` make, and who removes them |
| `TempFilesProofs` | theorems about `TempFiles` |
| `Induction` | least counterexamples, and the existence of functions defined by recursion: what the inductions over data in the proofs rest on |
| `MCBuildMemo`, `MCNixosInstance`, `MCAddressSelection`, `MCConnections`, `MCSecrets`, `MCTempFiles` | small instances for TLC |

`NixosInstance` extends `BuildMemo`: `Request` and `Return` are conjuncts of the actions that
call and return from `Provider.Build`, and the memo's own steps interleave with everything else.
`Secrets` takes apart what `NixosInstance` does in one step each (reading, shipping and comparing the
secrets) and does in one step what that one takes apart (builds, Push, Switch): the two together
would be out of TLC's reach, and the places where they meet are the content that is read once per
operation, the fingerprint that is compared, and the retry that starts with the copy. `Connections`
extends `Settings`: it goes on from the settings to the commands. `TempFiles` and `AddressSelection`
share no state with the others and stand alone.
`BuildMemo` refines `BuildService` through an `INSTANCE ... WITH` on the call's program counter.

### From code to model

* `call[i]` is the position of an instance's goroutine inside `Execute`; `output[i]` its local
  `r`; `memo` is `nixBuildCommandMemo.Store`. `EditSource` changes the Nix files at any time.
  `seen`, the contents since the process started, is a history variable only properties read.
* `pc[i]` is the position inside Diff or Create, one label per statement that reaches outside;
  `local[i]` holds the verdict on the fingerprint, `derivations`, `secretsData`, `retry`, and
  what Push's loop has still to copy. `ctxDone[i]` is the context of the operation.
* `tfstate[i]` is the resource in the Terraform state; `plan[i]` what Diff decided in this
  process; `diag[i]` the outcome of the last apply.
* `host[h]` is a machine: its store, its profile, what was activated, the secrets' files.
  A command that fails may have had part of its effect or all of it: `CopySecretsFail`, `PushFails`,
  `InstallFails`, `ActivateFails`.
* A fingerprint is the content it is the hash of: the salt and the iterations it was made with
  are recorded beside it and used again for the comparison, so that equality of sums is
  equality of contents (no collisions). Derivations are compared by `drvPath`, which determines
  the derivation.
* `boot`, `test` and `dry-activate` take the same path in Switch as `switch`. The model has
  `none`, `switch` and `unsupported`.
* `Fail`: the SDK writes the proposed attributes of a failed update into the state, and keeps
  the old values of the computed ones. A failed create has no id and leaves no record.
* `SwitchPanics`: `drvs[len(drvs)-1]` with no derivations ends the process. A failing address
  selection inside an operation is not repeated in `NixosInstance`: `Target` is the outcome of
  `AddressSelection`, one address per machine.
* `SortIPAddress` is the insertion sort `sort.SliceStable` uses on up to twenty elements, with
  `less` reading the list as it was.
* `Settings` has one step, `Resolve`; its initial states are everything a user may have written of a
  block on both sides (`Written`), as the SDK answers it (`Filled`): attributes left out have
  their default or a zero value, maps are empty. For a block the provider lacks `ResourceData.Get`
  answers the schema's defaults instead, where nil is possible (`DefaultMap`). A resource is not
  wrapped in `ResourceData`, and has nothing for a block it lacks. `outer` is a provider with a
  `secrets` block and no `command` in it. The lists of `secret` blocks are sequences: what
  `settingsSet` appends to what is part of the model, the order inside one side's set, which the
  SDK's hash decides, is any the bounds offer (`Lists`).
* `Settings.Entries` are the keys of maps: `user` in two spellings, because `SshConfigMap.Set` lowers
  keys and Go's order of the range decides which of two is the last (`SshConfigMaps`: the set of
  maps that may come out), and another option. `Offered` bounds what is tried per attribute.
* `Connections.step` is the command that comes next; `executed` holds each one with its program, the
  configuration file that leads to the machine, and its environment. A file is the record of the options in
  it, and a `proxyCommand` the file and host of the ssh it starts. `rest` holds what is not
  resolved: the settings of the other block of `ssh` and `bastion`, the mode and the environment
  of the process. `NIX_SSHOPTS` is what leads `nix copy` to the machine: its way is read back
  from the environment it is given.
* `Secrets`: `data[i]` are the buffers `Secrets.Data` has made so far in Diff or Create; `left[i]` the
  locked ones of operations that have returned, which only memguard's finalizer destroys
  (`Collect`) or the end of the process; `layout` the provider's `secret` blocks, which the user may edit
  between processes; `machine[i]` the files last extracted. A hash is the tuple of what goes into
  it. A buffer for an empty content locks nothing. `TotalLocked` beyond `Limit` is a panic.
* `TempFiles`: `file` is the temporary directory, with the maker of each file; `finalizers[i]` what
  the deferred calls of an operation will remove; `arguments[i]` the files its commands are
  given. There is one set of finalizers per instance and none for the copies `With` makes
  (ssh.go:158-187): of an `Ssh` and its copies only one is ever closed, so that two of them removing
  one file is not expressed. A name is free again once its file is removed, and `os.CreateTemp` may draw it again.
  Paths of the four operations that return before an `Ssh` is made touch no file and are left out.

### What the environment does

Terraform core is not part of the repository. The model takes from it: a process per plan and per
apply; an instance is planned at most once by each; only changed instances are applied, after
one approval; attributes in the configuration do not change between a plan and its apply (the
plan holds them), while Nix sources and secrets may; interrupts and timeouts end contexts;
processes may be killed. When a process dies during an apply, Terraform keeps the last record.
`Destroy` is a command of its own, taken as one step before a plan. Two instances never describe
the same machine (`OwnHostsAssumption`).

## Runs

| run | configuration | shows |
|---|---|---|
| `build_memo` | three instances, two keys, three contents, free edits | types, `MemoInvariant`, the refinement of `BuildService` with and without liveness |
| `instance_safety` | one instance, two machines and three activation actions, one output, one retry, an edit of the sources and one of the secrets | `TypeOK`, `InSync`, `DeployInvariant`, `RecordedWasDeployed`, `SwitchesWhenReady` |
| `instances_apart` | two instances, two files | `AppliesWhatWasPlanned`, `RecordsOwnBuild` under concurrency |
| `instance_liveness` | one instance, one edit of the sources and one of the secrets, to new contents, attributes fixed, two outputs, one retry | `NoopMeansInSync` (partial pushes included), `OperationsEnd`, `Converges` |
| `address_pairs` | all lists of up to two addresses, filters of disjoint networks, all priorities with two networks | the three properties of the selection |
| `temp_files` | two instances, five names: one behind a bastion, one with no ssh settings | `CommandsFindTheirFiles`, `LeavesOnlyKnownFiles`, `OneRemover`, `FilesInvariant` |
| `connections` | three blocks, two values, lists of up to two secrets in either order, the provider's block absent, without the inner one, or written; two surroundings each | the five properties of `Settings`, and `WrittenReachesTheCommand`, `OneWayToTheMachine`, `BastionIsReachedDirectly`, `BastionExtendsSsh`, `OneMode`, `NewSecretsFindsItsCommand` |
| `secrets` | one instance, up to two secrets, blocks that are edited from one to two to moved ones, 0 and 64 iterations, room for two buffers, one retry | `RecordedIsShipped`, `NoticesExactly`, `LeavesOnlyDiffs`, `SecretsInvariant`, `ModesAsWritten`, `NeverPanicsWithRoom`, `Converges` |
| `lost_update`, `shared_file`, `address_triples`, `temp_files_left` | see Findings | violations |

Bounds. `Retries` (the provider's `retry`) is 0 or 1: with 1 a retry happens, succeeds, fails and
runs out. Two outputs are needed for a partial push, two revisions and two contents for an edit
between two reads, three revisions for an edit during a build that started after an edit. Two
instances show sharing of the memo and of keys; the third of `build_memo` has another key at the
same time as the other two share one. No counter of the model grows: processes, plans and applies
follow one another without end, so that the runs cover any number of them.

An operation makes two files at most, so that five names leave room for two operations at
once and a file that stayed behind; with all names taken an operation waits in the model. Names are
interchangeable (nothing but equality is asked of them): symmetry is sound for what `temp_files`
and `temp_files_left` check. No other run uses it.

In `connections` the block that is resolved takes all it may be written as, and the other one a
few values: `Connections` reads the two apart, and extends one by the other option by option. `port` is
an attribute like `host`, which stands for it. In `secrets` two buffers of room are enough for one secret
and not for two, so that the processes that panic and those that may not both occur; two
secrets are the least of which one can be read before an edit and one after.

The machines keep what they had; the store only grows (garbage collection on the machine is not
modelled).

### Fairness

* `FairMemoSpec`: weak fairness of each call's steps. `Execute` waits for nothing but nix, and Go
  schedules its goroutine. Commands are taken to end.
* `FairSpec`: the same for every step of Diff and Create, failures included. The fairness is of
  their disjunction: nothing forces a command to succeed.
* `Operated`: besides, somebody keeps running Terraform. A command visits its instances and
  exits (weak fairness of `StartDiff`, `StartApply`, `ProcessExit`), and a plan with changes that
  is offered again and again is approved at some time (strong fairness of `Approve`: crashes and
  exits come between). `Converges` is conditional on failures, edits and crashes ending.
* `Secrets!Operated`: the same for one instance's secrets: its steps go on (weak fairness of progress or
  failure), a process visits it (`StartDiff`), changes are approved at some time (strong fairness of
  `StartCreate`), and processes end (`Exit`). Nothing makes the garbage collector run.

## Findings

1. `lost_update`. A failed update to another machine leaves the new address beside the old
   derivation and fingerprint in the state. Read refreshes nothing, so the next plan is empty
   although that machine never got anything.
2. `shared_file`. The memo's key is the path of the configuration. An instance with the same file
   and other `settings` or `system` is answered with the first one's build, and deploys it.
3. `address_triples`. `less` compares elements of `in` at indices of `addrs`. The two agree until
   something moves; with three addresses the heaviest one may not come first.
4. `temp_files_left`. `Switch` does not close its Nix, `NewSsh` not the bastion's Ssh, and
   `Provider.Close` does nothing: their configuration files outlive the process.

The passing runs are at the border of these: `instance_liveness` keeps the attributes and never returns
to an old content, `instances_apart` gives every instance its own file, `address_pairs` stays at
two addresses. Returning to an old content hides a difference in the same way as finding 1: sources
change, the update fails after the profile is set, the sources are reverted, and the plan is empty
while the machine has the reverted system.

Other borders are stated in the properties themselves:

* `FiltersExactly` is checked for networks that do not overlap (the default `::/0` and `0.0.0.0/0` do
  not). An address inside two networks of the filter is kept twice, and when every slot of the
  result is taken the write panics (net.go:80).
* `MergesWhatIsWritten` says when `merge` panics: for a provider that says nothing about secrets. Its side is
  then the schema's default, whose `environment` is nil, and `merge` asserts a map (provider.go:163): a
  resource's complete `secrets { provider = "command", command { ... } }` does not help there.
* `CollectsEverySecret` rests on the item `ResourceData.Get` puts in place of an unwritten list:
  `settingsSet` leaves the resource's secrets out when the provider's list is empty (provider.go:201).
* `SshUserIsTheWritten` asks for an `ssh` block in the provider. Without one the default `config`,
  `{ user = "root" }`, stays under the resource's `config`, and `SshConfigMap` prefers `config` to
  `user` (provider.go:247).
* `OneWayToTheMachine` and `WrittenReachesTheCommand` are for maps without one key in two spellings.
  With `User` and `user` in one `config`, the default's included, each of the four
  configurations of a Create has one of the two, and not all the same one (provider.go:248).
* `OneMode` says what mode it is below 256: 256 is cut to 0 and is compat (provider.go:274).
* `NewSecretsFindsItsCommand` says where NewSecrets finds the block of `provider = "command"`: in the
  provider, or in the resource when the provider has a `secrets` block around it. With the resource's
  alone `merge` panics (above), and with none the type assertions do (provider.go:348).
* `ModesAsWritten` is checked for digits up to 7. The schema takes 8 and 9, and `fromOctal` carries them.
* `NeverPanicsWithRoom`: a process has room for a limited number of locked buffers, and what Diff
  has locked is not given back before a collection. Twice the secrets of all instances is enough.
* `NoticesExactly` is about contents. Where a provider-level secret goes and who owns it is in no
  fingerprint: an edit of that alone changes nothing on the machine.

## Proofs

Nothing below bounds instances, keys, revisions, contents, machines, outputs or retries. The
assumptions are the `ASSUME`s of the modules, about the shape of the constants (that a derivation has finitely many
outputs among them).

* `MemoTypeCorrect`, `MemoIsOfThisProcess`: `MemoTypeOK /\ MemoInvariant` is inductive. The memo
  alone is not: `Publish` stores what `output` holds, so that the invariant must say of both
  where they come from.
* `MemoImplementsService`, `OwnInputs`: with `KeyDeterminesInput` the memo implements
  `BuildService`. The premise is the assumption nothing in the provider enforces; the run
  `shared_file` shows what happens without it. `NixosInstance` is composed of the memo's own actions, so
  that these results hold there (`InstanceUsesMemo`, a lemma and no result).
* `TypeCorrect`, `DeploysInOrder`, `SuccessIsInSync`, `SwitchedWhenReady`: `InSync` is not inductive,
  as it says nothing of a Create in progress. `DeployPhase` says for each label of Create which effects are
  in place, in terms of the local variables; `RecordPhase` says what the record and the outcome
  mean between operations. `IInv == TypeOK /\ DeployInvariant` is inductive: one lemma per group of
  actions, and one argument for all other instances, whose machines are others
  (`OwnHostsAssumption`). `InSync` and the action property follow.
* `RecordsWereDeployed`: stores only grow (`StoresGrow`), a derivation enters a record at the end of Create
  (`DerivationRecorded`), and there `DeployInvariant` has it in the store of the machine in hand. The
  attributes of a failed update enter the record without it, and take no derivation with them.

* `FilesAccounted`, `CommandsServed`, `OnlyKnownFilesStay`: `FilesInvariant` is inductive.
  `LeavesOnlyKnownFiles` and `OneRemover` need each other (a file that is removed is nobody else's),
  and `Bookkeeping`, which says that an operation begins with nothing, and that its files are there
  until it closes. `RemoversApart` is read off it.
* `RecordsAreOwn` (premise `KeyDeterminesInput`) follows a derivation from the call to the record: what
  `OwnInputs` says of a reply is kept in `local` and in `tfstate` (`OwnDerivations`), and `DeployInvariant`
  says that there is one when the record is made.
* `PlannedIsApplied` (premise `KeysApart`: no two instances name one file). `FilledOnce`: an instance alone with
  its key fills the memo with its first call of the process, and every later one is answered from it.
  `Bridged`: so the derivation of a plan and the one in Create's locals are the memo's, and an apply
  always has a plan. Sources may be edited at any moment in between.
* `SecretsInOrder`, `RecordIsOfTheMachine`, `DiffNotices`, `OnlyDiffsLeaveMemory`: `TypeOK` and `SecretsInvariant`
  are inductive together. `Stands` says for each position what has been read and shipped; the
  record is then made of the buffers the machine's files were made of. `DiffNotices` needs that
  hashes by one salt and one number of rounds are equal exactly for equal contents.
* `ResourceCounts` to `UserIsTheWritten`: `Resolved` says that the result is the merge of the two
  sides, whatever they are. The commands of `Connections` leave the settings alone, which carries it over (a lemma, `ConnectionsUseSettings`). `ModeIsOne`, `BastionFirst`,
  `BastionOverSsh`, `OneWay`, `WrittenIsExecuted`, `CommandIsFound` follow from `Executed`: every
  command is made of the settings as they are, with one of the configurations they may give, and
  without a key in two spellings there is one (`OneMap`). `CommandIsFound` says of every way
  through NewSecrets whether it ends or panics, `merge`'s panic included.

* `NoopsAreInSync` (premises `KeyDeterminesInput`; `AttributesStay`: no edit of a resource's attributes; `NeverBack`:
  the sources have an age and the secrets a stage that every edit raises). `NoopMeansInSync` is about a
  moment, its reason is a history: why would a machine that was left with another profile than the
  recorded one not be found in order later? `Histories` keeps that reason for each instance. No derivation in
  sight is of sources newer than the present ones, a record is no newer than what its process has seen, and a
  machine that has something else than its record got it in an attempt that was made for a later
  revision or a later content than the record's (`RecordOfThePast`). As time does not go back, the next Diff compares with
  something later than the record and finds a difference (`BeforeComparing`, `Verdict`, `PlanIsRight`). Both premises hold of
  the constants of `instance_liveness`; without the first one finding 1 is a counterexample, and without the second
  an edit that is taken back is one (Findings).
* `ModesArePreserved` (premise `OctalDigits`: no digit is an 8 or a 9): `fromOctal` is a recursion, and the invariant is
  that after each round the bits of the digits seen are in place. `NoPanicWithRoom`: the buffers of all
  instances are a sum over a finite set, each summand at most two readings, and that of an instance which is about to read
  at most one (`SecretsInvariant` says so): so the sum is below the limit before each lock.
* `FilterIsExact` (premise `NetworksApart`), `OrderOfEquals` (no premise), `HeaviestIsPicked` (premise `AtMostTwo`): the filter
  appends, for each address in turn, a copy per network that contains it. By induction on the addresses seen the
  result keeps what is admitted in the order it had (`Selects`). The sort inserts the positions one after the other; by
  induction on them the result is a permutation in which only elements of different weight changed places
  (`Comes`, `Complete`, `Stable`). That needs one more fact: no element is before the beginning of its run, the stretch
  of growing weights around it, so that an insertion passes elements of its own run only.

* `WaitsForItsCall`, `OperationsAreFinite`: what is behind `OperationsEnd`. `Rank` counts the steps an operation may
  still make: a round is a copy, a push of each output and an end, there are `Retries + 1` of them, and a call of Execute
  has at most three steps. Each step of the operation, a failure included, lowers the rank; no step of another instance,
  of the user or of Terraform raises it. With weak fairness of `Step(i)` an operation could then only stay for ever where it has no step to
  make; waiting for a call that nobody makes would be such a place, and `CallMatches` excludes it.
* `SettledStays`, `ApplySettles` (premise `KeyDeterminesInput`): what is behind `Converges`. `Settled` says that the record is
  what is wanted, the machine is as recorded, and the command has nothing against that in its hands. A successful apply leads
  there, unless something was edited under it, and only the user leads away. That failures end in a successful
  apply is the part that needs fairness, and stays with TLC.

* `CallsAreShort`: what is behind `AnswersEveryCall`. A call of Execute has at most three steps (`CallRank`), a failed
  one does not start again, and nothing another call does puts it back.
* `SecretsStay`, `ApplyDelivers`, `OperationsAreShort` (no premise): what is behind the `Converges` of `Secrets`. Here `Settled`
  says that a machine has the wanted contents, that its record says so, and that what an operation has read so far is
  what it would read now (`UpToDate`). The last part makes it hold step by step: an apply that only wants a new system ships
  the secrets again, and would take the machine back to contents it had read before an edit. Only an edit or a torn
  extraction leads out of it, a successful apply of up-to-date secrets leads in, and each operation ends after
  one step per secret and two per attempt.

`OwnPhaseStep`, the heart of `DeploysInOrder`, goes action by action through Create; `OwnHistory` does the same for
`NoopsAreInSync`.

Inductions over data are made without an induction theorem that takes an operator: the set of counterexamples,
if not empty, has one of least rank (`Induction`: `LeastNumber`, `LeastRank`), and the step below it is the contradiction.
A function defined by a recursion is handled in two steps: `Recursion` says that one with its equations exists,
and so the function that is chosen by them satisfies them.

The premises that are not assumptions of the modules are operators named in the theorem, because nothing in the provider
enforces them: `KeyDeterminesInput`, `KeysApart`, `AttributesStay`, `NeverBack`, `OctalDigits`, `NetworksApart`, `AtMostTwo`.
The constants of a passing run satisfy each of them; Findings says what happens without.

Only model-checked: `AnswersEveryCall`, `OperationsEnd`, both `Converges`. They are liveness properties, and the
prover knows neither fairness nor `ENABLED`. The safety parts of each of them are proved, as above; that the steps they
count are taken, and that failures end in a successful apply, is what remains. Every invariant and every action property of the passing runs is a theorem.

## Not modelled

* Of the block `nix`, the attributes besides `mode` and the activation: they go through the same `merge` and
  end in command-line arguments. The words of all command lines; `SshOptionHost`, which adds the
  machine's address to them.
* A `host` or `match` written inside `config`: in a configuration file it governs the lines after it,
  and the order of the lines is Go's order of a map.
* Sharing of Go slices between commands that append to one: each command is made of settings of its own.
* The filesystem and gopass providers beyond an answer or an error; who may read a file on the machine.
* Edits of the provider's address filter and priorities between two applies.
* Outputs a derivation does not have under the name `output_name`.
* The instants between the making of a temporary file and the registration of its finalizer: a
  process killed there leaves a file, as it does anywhere else.
* The branches of Diff for a user who sets `derivations` or `secret_fingerprint` in the
  configuration, and errors of `resource.Set` after Switch.
* Logging, tar's arguments, unmarshalers, `main.go`: formatting and I/O.
* Machines that change by themselves, and rollbacks of the profile by their administrators.

## Plan

Done: the memo, the resource over it, address selection, settings and connections, secrets, temporary
files; every invariant and action property of the passing runs proved.

What is left:

1. A run of `NixosInstance` with two instances on one file and the same settings, to state what does
   hold of plan and apply when two builds of one key overlap (`AppliesWhatWasPlanned` does not).
2. The block `nix` in `Settings`, once an attribute of it is followed to more than an argument.
3. Provider-level edits between applies (address filter, priorities) in `NixosInstance`.

## Running

    tlc -workers 2 -config InstanceSafety.cfg MCNixosInstance
    tlapm NixosInstanceProofs.tla

`PROJECT.json` lists runs, properties, the mutants each property must catch, the source lines of
each definition, hazards, findings and theorems.
