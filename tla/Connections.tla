----------------------------- MODULE Connections -----------------------------
(***************************************************************************)
(* What the settings become: the configurations of ssh (Provider.NewSsh,   *)
(* provider.go:295-332), and the programs that Build, CopySecrets, Push    *)
(* and Switch run with them, or the secrets provider with its own          *)
(* (command.go, nix.go, ssh.go, tar.go, secrets.go:156-195).               *)
(*                                                                         *)
(* Settings resolves one block; the other one of `ssh` and `bastion`, the  *)
(* mode of nix and the environment of the process are one of Rests.        *)
(***************************************************************************)
EXTENDS Settings, Integers

CONSTANT
    Rests   \* per block: records of the other block's settings, of the mode
            \* and of the process's environment

VARIABLES
    rest,      \* what is not resolved here
    step,      \* the next command of a Create, or of the secrets provider
    executed   \* the commands executed so far

all == <<vars, rest, step, executed>>

ConnectionsInit ==
    /\ Init
    /\ rest \in Rests[block]
    /\ step = "resolve"
    /\ executed = {}

\* A panic of merge is one of the caller: of NewSecrets or NewSsh.
ResolveFirst ==
    /\ Resolve
    /\ step' = CASE outcome' = "panic" -> "panic"
                 [] outcome' # "panic" /\ block = "command" -> "get"
                 [] OTHER -> "build"
    /\ UNCHANGED <<rest, executed>>

-----------------------------------------------------------------------------
(* Provider.NewSsh.                                                         *)

SshSettings     == IF block = "ssh" THEN settings ELSE rest.other
BastionSettings == IF block = "bastion" THEN settings ELSE rest.other

\* Mutant: the bastion's settings stand alone.
ExtendReplaces(under, over) == [option \in Options |-> over[option]]

\* SshConfigMap.Extend, on a copy.
Extend(under, over) ==
    [option \in Options |-> IF over[option] # NoEntry THEN over[option] ELSE under[option]]

\* `ssh -F <options> -N -W %h:%p <host>`.
ProxyCommand(options, host) == [options |-> options, host |-> host]

\* Mutant: the bastion's options are a copy of the ones that name the bastion.
ThroughBastionLate(own, extension) ==
    LET host == Given(BastionSettings, "host")
        first == [own EXCEPT !["proxycommand"] = ProxyCommand(own, host)]
    IN  [own EXCEPT !["proxycommand"] = ProxyCommand(Extend(first, extension), host)]

\* The bastion's options are the ones of `ssh`, extended; then those of `ssh` get a
\* proxyCommand.
ThroughBastion(own, extension) ==
    LET host == Given(BastionSettings, "host")
    IN  [own EXCEPT !["proxycommand"] = ProxyCommand(Extend(own, extension), host)]

\* The configuration files that NewSsh may write.
NewSshs ==
    IF Given(BastionSettings, "host") = NoEntry
    THEN SshConfigMaps(SshSettings)
    ELSE {ThroughBastion(own, extension) :
            own \in SshConfigMaps(SshSettings),
            extension \in SshConfigMaps(BastionSettings)}

-----------------------------------------------------------------------------
(* CommandExecute.                                                          *)

Variables == Entries \cup {"NIX_SSHOPTS"}

\* What a command sets of its own: a function on some of the variables.
NoVariables == [v \in {} |-> NoEntry]

\* Mutant: the process's variables win.
EnvironmentOfProcess(own) ==
    [v \in Variables |-> IF rest.environment[v] = NoEntry /\ v \in DOMAIN own
                         THEN own[v] ELSE rest.environment[v]]

\* The command's own variables, and the ones of the process it does not have.
Environment(own) ==
    [v \in Variables |-> IF v \in DOMAIN own THEN own[v] ELSE rest.environment[v]]

\* NixOptionSsh: what follows `ssh` on its command line.
NixEnvironment(file) == [v \in {"NIX_SSHOPTS"} |-> file]

\* NixMode is a uint8.
Compat == rest.mode % 256 = 0

\* `file` is the configuration that leads to the machine, `feature` that
\* --extra-experimental-features is there.
Execute(name, program, feature, file, own) ==
    executed' = executed \cup
        {[name |-> name, program |-> program, feature |-> feature, file |-> file,
          environment |-> Environment(own)]}

\* Switch's two commands go through one Ssh.
FileOf(name) == (CHOOSE c \in executed : c.name = name).file

Then(next) == step' = next /\ UNCHANGED <<vars, rest>>

Build ==
    /\ step = "build"
    /\ \E file \in NewSshs : Execute("build", "nix build", Compat, file, NixEnvironment(file))
    /\ Then("secrets")

CopySecrets ==
    /\ step = "secrets"
    /\ \E file \in NewSshs : Execute("secrets", "tar", FALSE, file, NoVariables)
    /\ Then("push")

\* `nix copy` finds its way by the variable it is given.
Push ==
    /\ step = "push"
    /\ \E file \in NewSshs :
          Execute("push", "nix copy", Compat, Environment(NixEnvironment(file))["NIX_SSHOPTS"],
                  NixEnvironment(file))
    /\ Then("install")

\* Mutant: the program does not follow the mode.
InstallNewStyle ==
    /\ step = "install"
    /\ \E file \in NewSshs :
          Execute("install", "nix profile", Compat, file, NixEnvironment(file))
    /\ Then("activate")

\* The variables stay here, ssh does not pass them on.
Install ==
    /\ step = "install"
    /\ \E file \in NewSshs :
          Execute("install", IF Compat THEN "nix-env" ELSE "nix profile", FALSE, file,
                  NixEnvironment(file))
    /\ Then("activate")

Activate ==
    /\ step = "activate"
    /\ Execute("activate", "script", FALSE, FileOf("install"), NoVariables)
    /\ Then("end")

\* NewSecrets asserts types that the values of no block do not have.
Asserted == \A k \in {"name", "arguments", "environment"} :
                k \in DOMAIN settings /\ settings[k] # Nil

\* SecretsProviderCommand.Get; maps and lists left out are empty ones.
Get ==
    /\ step = "get"
    /\ Asserted
    /\ Execute("get", settings["name"], FALSE, NoEntry,
               [v \in {e \in Entries : settings["environment"][e] # NoEntry} |->
                    settings["environment"][v]])
    /\ Then("end")

\* Mutant: an empty list does not assert either.
NewSecretsPanicsOnEmpty ==
    /\ step = "get"
    /\ Asserted => settings["arguments"] = Zero
    /\ executed' = executed
    /\ Then("panic")

NewSecretsPanics ==
    /\ step = "get"
    /\ ~Asserted
    /\ executed' = executed
    /\ Then("panic")

ConnectionsNext ==
    \/ ResolveFirst
    \/ Build \/ CopySecrets \/ Push \/ Install \/ Activate
    \/ Get \/ NewSecretsPanics

ConnectionsSpec == ConnectionsInit /\ [][ConnectionsNext]_all

-----------------------------------------------------------------------------
(* Properties.                                                              *)

\* The commands of a Create, which lead to the machine.
Reaching == {c \in executed : c.name # "get"}

\* One key is there in two spellings.
Ambiguous(s) ==
    \E e, f \in Spellings :
        e # f /\ s["config"][e] # NoEntry /\ s["config"][f] # NoEntry

\* Every command of a Create takes one way to the machine, although each of Build,
\* CopySecrets, Push and Switch makes a configuration of its own out of maps that
\* Go ranges over in any order (provider.go:248), unless `config` has one key in
\* two spellings, the default's included; and whatever NIX_SSHOPTS the process has
\* (command.go:166-173).
OneWayToTheMachine ==
    Reaching # {} /\ ~Ambiguous(SshSettings) /\ ~Ambiguous(BastionSettings)
        => \A one, another \in Reaching : one.file = another.file

\* The bastion itself is reached without that bastion: its options have no other
\* proxyCommand than one the settings name (provider.go:307-321).
BastionIsReachedDirectly ==
    \A c \in Reaching :
        Given(BastionSettings, "host") # NoEntry =>
            /\ c.file["proxycommand"].host = Given(BastionSettings, "host")
            /\ c.file["proxycommand"].options["host"] = c.file["proxycommand"].host
            /\ c.file["proxycommand"].options["proxycommand"] \in
                   {m["proxycommand"] : m \in SshConfigMaps(SshSettings)
                                                 \cup SshConfigMaps(BastionSettings)}

\* "base ssh configuration (ssh {}) extended with bastion ssh configuration"
\* (provider.go:307): on the way to the bastion an option is the bastion's where it
\* has one and the machine's otherwise.
BastionExtendsSsh ==
    \A c \in Reaching :
        Given(BastionSettings, "host") # NoEntry =>
            LET options == c.file["proxycommand"].options
                Has(o) == \E m \in SshConfigMaps(BastionSettings) : m[o] # NoEntry
            IN  /\ \E m \in SshConfigMaps(BastionSettings) :
                       \A o \in Options : Has(o) => options[o] = m[o]
                /\ ~Has("port") => options["port"] = c.file["port"]
                /\ ~Has("proxycommand") =>
                       options["proxycommand"] \in
                           {m["proxycommand"] : m \in SshConfigMaps(SshSettings)}

\* What the resource writes in a map ends at the commands: an entry of `config` in
\* the file that ssh or the bastion's ssh reads, a variable of `environment` in the
\* environment, over the provider's and the process's (provider.go:158-168, 236-252,
\* command.go:125-173).
WrittenReachesTheCommand ==
    \A c \in executed, e \in Entries :
        /\ block = "ssh" /\ WrittenBy(resource, "config") /\ ~Ambiguous(settings)
             /\ resource["config"][e] # NoEntry
             /\ (Lower(e) = "proxycommand" => Given(BastionSettings, "host") = NoEntry)
           => c.file[Lower(e)] = resource["config"][e]
        /\ block = "bastion" /\ WrittenBy(resource, "config") /\ ~Ambiguous(settings)
             /\ resource["config"][e] # NoEntry /\ Given(settings, "host") # NoEntry
           => c.file["proxycommand"].options[Lower(e)] = resource["config"][e]
        /\ block = "command" /\ WrittenBy(resource, "environment")
             /\ resource["environment"][e] # NoEntry
           => c.environment[e] = resource["environment"][e]

\* "Nix mode (0 - compat, 1 - default)" (schema.go:295): the commands of a Create
\* are all of one mode, the local ones by the feature that compat needs and the
\* remote one by its program.  Modes from 256 on are cut to eight bits, and 256 is
\* compat.
OneMode ==
    \A here \in Reaching, there \in Reaching :
        here.name \in {"build", "push"} /\ there.name = "install" =>
            /\ here.feature <=> there.program = "nix-env"
            /\ rest.mode \in 0 .. 255 => (here.feature <=> rest.mode = 0)

\* NewSecrets finds a secrets provider of the user's in the provider's block, and in
\* the resource's when the provider has a `secrets` around it; otherwise it panics, in
\* an assertion of its own (provider.go:348-354) or, with the block in the resource
\* and nothing of secrets in the provider, in merge's (provider.go:163).
NewSecretsFindsItsCommand ==
    LET Found == provider # NoBlock /\ (provider = Nil => resource # NoBlock)
    IN  block = "command" => /\ step = "panic" => ~Found
                             /\ step = "end"   => Found
=============================================================================
