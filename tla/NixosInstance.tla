---------------------------- MODULE NixosInstance ----------------------------
(***************************************************************************)
(* The nixos_instance resource: Instance.Diff, Create, Update, Read and    *)
(* Delete (instance.go:120-265), the provider operations they are made of  *)
(* (Build, CopySecrets, Push, Switch: provider.go:403-576), the state      *)
(* Terraform keeps of each instance, and the hosts.  Builds go through     *)
(* BuildMemo, whose steps interleave with everything here.                 *)
(*                                                                         *)
(* Terraform core runs a provider process for each walk of its graph: one  *)
(* that plans every instance and, if the user approves, another one that   *)
(* plans each changed instance again and then applies it.                  *)
(***************************************************************************)
EXTENDS BuildMemo, Integers, FiniteSets

CONSTANTS
    Hosts,           \* machines
    Contents,        \* contents the secrets can have
    FirstContent,    \* the one at the start
    SecretEdits,     \* pairs <<old, new>>: the edits the user may make
    ConfigsOf,       \* [Instances -> sets of Config]: the attributes a user may write
    OutputNames,     \* names of a derivation's outputs
    MainOutput,      \* nix.output_name: the output Switch installs
    Retries,         \* the provider's `retry`
    NoState, NoPlan, NoDerivation, NoContent, Torn

\* Switch accepts "" (none), "switch" and three more that differ only in what
\* the script does; any other word it refuses.
Activations == {"none", "switch", "unsupported"}

Config == [address : Hosts, activation : Activations]

ASSUME ContentAssumption ==
    /\ FirstContent \in Contents
    /\ SecretEdits \subseteq Contents \X Contents
    /\ NoContent \notin Contents
    /\ Torn \notin Contents

ASSUME ConfigAssumption ==
    /\ ConfigsOf \in [Instances -> SUBSET Config]
    /\ \A i \in Instances : ConfigsOf[i] # {}

\* Two instances never describe the same machine.
ASSUME OwnHostsAssumption ==
    \A i, j \in Instances :
        \A c \in ConfigsOf[i], d \in ConfigsOf[j] : c.address = d.address => i = j

ASSUME DeployAssumption ==
    /\ MainOutput \in OutputNames
    /\ IsFiniteSet(OutputNames)
    /\ Retries \in Nat
    /\ NoDerivation \notin Derivation

\* A resource in the Terraform state; Terraform's decision on an instance.
Record == [config : Config, derivation : Derivation, fingerprint : Contents]
Plan   == [change : BOOLEAN, built : Derivation \cup {NoDerivation}]

ASSUME AbsenceAssumption == NoState \notin Record /\ NoPlan \notin Plan

VARIABLES
    content,  \* what the secrets provider answers now
    wanted,   \* per instance: the attributes in the Terraform configuration
    command,  \* what the provider process was started for: "plan" or "apply"
    due,      \* instances the command has not visited yet
    tfstate,  \* per instance: the recorded resource
    plan,     \* per instance: what Diff decided in this process
    diag,     \* per instance: outcome of the last apply
    pc,       \* per instance: where its Diff or Create stands
    ctxDone,  \* per instance: the operation's context is done
    local,    \* per instance: the operation's local variables
    host      \* per machine: what the provider's commands left there

given == <<content, wanted, command, due>>
instVars == <<given, tfstate, plan, diag, pc, ctxDone, local, host>>
vars == <<memoVars, instVars>>

Diffing   == {"diffSecrets", "diffBuild", "diffWait"}
Deploying == {"secrets", "copy", "push", "install", "activate", "record"}
Applying  == {"build", "wait"} \cup Deploying

\* Locals: changed is Diff's verdict on the fingerprint; derivation is nil when
\* Build returned (nil, nil); todo is what Push has not copied yet.
Locals ==
    [changed    : BOOLEAN,
     derivation : Derivation \cup {NoDerivation},
     data       : Contents \cup {NoContent},
     retry      : 0 .. Retries,
     todo       : SUBSET OutputNames]

NoLocals ==
    [changed |-> FALSE, derivation |-> NoDerivation, data |-> NoContent,
     retry |-> 0, todo |-> {}]

Host ==
    [store     : SUBSET (Derivation \X OutputNames),
     profile   : Derivation \cup {NoDerivation},
     activated : Derivation \cup {NoDerivation},
     files     : Contents \cup {NoContent, Torn}]

NewHost ==
    [store |-> {}, profile |-> NoDerivation, activated |-> NoDerivation,
     files |-> NoContent]

InstTypeOK ==
    /\ content \in Contents
    /\ wanted \in [Instances -> Config]
    /\ \A i \in Instances : wanted[i] \in ConfigsOf[i]
    /\ command \in {"plan", "apply"}
    /\ due \in SUBSET Instances
    /\ tfstate \in [Instances -> Record \cup {NoState}]
    /\ plan \in [Instances -> Plan \cup {NoPlan}]
    /\ diag \in [Instances -> {"none", "ok", "error"}]
    /\ pc \in [Instances -> {"idle"} \cup Diffing \cup Applying]
    /\ ctxDone \in [Instances -> BOOLEAN]
    /\ local \in [Instances -> Locals]
    /\ host \in [Hosts -> Host]

TypeOK == MemoTypeOK /\ InstTypeOK

Init ==
    /\ MemoInit
    /\ content = FirstContent
    /\ wanted \in [Instances -> Config]
    /\ \A i \in Instances : wanted[i] \in ConfigsOf[i]
    /\ command = "plan"
    /\ due = Instances
    /\ tfstate = [i \in Instances |-> NoState]
    /\ plan = [i \in Instances |-> NoPlan]
    /\ diag = [i \in Instances |-> "none"]
    /\ pc = [i \in Instances |-> "idle"]
    /\ ctxDone = [i \in Instances |-> FALSE]
    /\ local = [i \in Instances |-> NoLocals]
    /\ host = [h \in Hosts |-> NewHost]

-----------------------------------------------------------------------------
(* Control.                                                                 *)

At(i, here) == pc[i] = here

Goto(i, there) == pc' = [pc EXCEPT ![i] = there]

\* The operation returns: its context and its locals are gone.
Finish(i) ==
    /\ pc' = [pc EXCEPT ![i] = "idle"]
    /\ ctxDone' = [ctxDone EXCEPT ![i] = FALSE]
    /\ local' = [local EXCEPT ![i] = NoLocals]

\* Mutant: the machine of the record, when there is one.
TargetOfRecord(i) ==
    IF tfstate[i] = NoState THEN wanted[i].address ELSE tfstate[i].config.address

\* The machine Address selects for the instance.
Target(i) == wanted[i].address

-----------------------------------------------------------------------------
(* Instance.Diff (instance.go:120-173).                                     *)

StartDiff(i) ==
    /\ At(i, "idle")
    /\ i \in due
    /\ due' = due \ {i}
    /\ Goto(i, "diffSecrets")
    /\ UNCHANGED <<memoVars, content, wanted, command, tfstate, plan, diag,
                   ctxDone, local, host>>

\* The secrets are read and hashed with the recorded salt.  A resource without
\* a fingerprint always differs.
DiffSecrets(i) ==
    /\ At(i, "diffSecrets")
    /\ local' = [local EXCEPT ![i].changed =
                    tfstate[i] = NoState \/ tfstate[i].fingerprint # content]
    /\ Goto(i, "diffBuild")
    /\ UNCHANGED <<memoVars, given, tfstate, plan, diag, ctxDone, host>>

\* Diff returns an error: there is no plan for the instance.
DropDiff(i) ==
    /\ Finish(i)
    /\ UNCHANGED <<given, tfstate, plan, diag, host>>

DiffSecretsFail(i) ==
    /\ At(i, "diffSecrets")
    /\ DropDiff(i)
    /\ UNCHANGED memoVars

DiffBuild(i) ==
    /\ At(i, "diffBuild")
    /\ ~ctxDone[i]
    /\ Request(i)
    /\ Goto(i, "diffWait")
    /\ UNCHANGED <<given, tfstate, plan, diag, ctxDone, local, host>>

\* Build finds the context done and returns (nil, nil): Diff compares what is
\* recorded with no derivation at all, which always differs.
DiffBuildCancelled(i) ==
    /\ At(i, "diffBuild")
    /\ ctxDone[i]
    /\ plan' = [plan EXCEPT ![i] = [change |-> TRUE, built |-> NoDerivation]]
    /\ Finish(i)
    /\ UNCHANGED <<memoVars, given, tfstate, diag, host>>

DiffBuildFails(i) ==
    /\ At(i, "diffWait")
    /\ Reply(i) = Failed
    /\ Return(i)
    /\ DropDiff(i)

\* The hashes of the derivations are compared, and the SDK compares the other
\* attributes.
DiffCompare(i) ==
    /\ At(i, "diffWait")
    /\ Reply(i) # Failed
    /\ Return(i)
    /\ plan' = [plan EXCEPT ![i] =
                   [change |-> \/ local[i].changed
                               \/ tfstate[i] = NoState
                               \/ tfstate[i].config # wanted[i]
                               \/ tfstate[i].derivation # Reply(i),
                    built  |-> Reply(i)]]
    /\ Finish(i)
    /\ UNCHANGED <<given, tfstate, diag, host>>

-----------------------------------------------------------------------------
(* Instance.Create and Update (instance.go:175-260).                        *)

StartApply(i) ==
    /\ At(i, "idle")
    /\ command = "apply"
    /\ plan[i] # NoPlan
    /\ plan[i].change
    /\ diag' = [diag EXCEPT ![i] = "none"]
    /\ Goto(i, "build")
    /\ UNCHANGED <<memoVars, given, tfstate, plan, ctxDone, local, host>>

\* Mutant: a failed update records what it tried.
FailRecordsAttempt(i) ==
    /\ tfstate' = [tfstate EXCEPT ![i] =
                      IF @ = NoState \/ local[i].derivation = NoDerivation THEN @
                      ELSE [@ EXCEPT !.config = wanted[i],
                                     !.derivation = local[i].derivation]]
    /\ diag' = [diag EXCEPT ![i] = "error"]
    /\ plan' = [plan EXCEPT ![i] = NoPlan]
    /\ Finish(i)
    /\ UNCHANGED given

\* Create returns an error.  Without an id nothing is recorded; an update that
\* fails records the new attributes, and the SDK keeps the old values of the
\* attributes the provider computes.
Fail(i) ==
    /\ tfstate' = [tfstate EXCEPT ![i] =
                      IF @ = NoState THEN @ ELSE [@ EXCEPT !.config = wanted[i]]]
    /\ diag' = [diag EXCEPT ![i] = "error"]
    /\ plan' = [plan EXCEPT ![i] = NoPlan]
    /\ Finish(i)
    /\ UNCHANGED given

Build(i) ==
    /\ At(i, "build")
    /\ ~ctxDone[i]
    /\ Request(i)
    /\ Goto(i, "wait")
    /\ UNCHANGED <<given, tfstate, plan, diag, ctxDone, local, host>>

\* Build returns (nil, nil) and Create goes on with no derivation.
BuildCancelled(i) ==
    /\ At(i, "build")
    /\ ctxDone[i]
    /\ Goto(i, "secrets")
    /\ UNCHANGED <<memoVars, given, tfstate, plan, diag, ctxDone, local, host>>

BuildFails(i) ==
    /\ At(i, "wait")
    /\ Reply(i) = Failed
    /\ Return(i)
    /\ Fail(i)
    /\ UNCHANGED host

BuildReturns(i) ==
    /\ At(i, "wait")
    /\ Reply(i) # Failed
    /\ Return(i)
    /\ local' = [local EXCEPT ![i].derivation = Reply(i)]
    /\ Goto(i, "secrets")
    /\ UNCHANGED <<given, tfstate, plan, diag, ctxDone, host>>

\* Secrets.Data: read once, kept for the copies and for the fingerprint.
ReadSecrets(i) ==
    /\ At(i, "secrets")
    /\ local' = [local EXCEPT ![i].data = content, ![i].retry = Retries]
    /\ Goto(i, "copy")
    /\ UNCHANGED <<memoVars, given, tfstate, plan, diag, ctxDone, host>>

ReadSecretsFail(i) ==
    /\ At(i, "secrets")
    /\ Fail(i)
    /\ UNCHANGED <<memoVars, host>>

\* Mutants: the bound is not checked; the count is not decremented; the retry
\* resumes after the copy.
RetryUnbounded(i) ==
    /\ local' = [local EXCEPT ![i].retry = @ - 1]
    /\ Goto(i, "copy")
    /\ UNCHANGED <<given, tfstate, plan, diag, ctxDone>>

RetryForever(i) ==
    /\ Goto(i, "copy")
    /\ UNCHANGED <<given, tfstate, plan, diag, ctxDone, local>>

RetryAtPush(i) ==
    /\ local[i].retry > 0
    /\ local' = [local EXCEPT ![i].retry = @ - 1]
    /\ Goto(i, "push")
    /\ UNCHANGED <<given, tfstate, plan, diag, ctxDone>>

\* The label `retry:` of Create: start over from CopySecrets, or give up.
RetryOrFail(i) ==
    \/ /\ local[i].retry > 0
       /\ local' = [local EXCEPT ![i].retry = @ - 1]
       /\ Goto(i, "copy")
       /\ UNCHANGED <<given, tfstate, plan, diag, ctxDone>>
    \/ /\ local[i].retry = 0
       /\ Fail(i)

\* A tar stream over ssh, extracted on the machine.
CopySecrets(i) ==
    /\ At(i, "copy")
    /\ host' = [host EXCEPT ![Target(i)].files = local[i].data]
    /\ local' = [local EXCEPT ![i].todo =
                    IF local[i].derivation = NoDerivation THEN {} ELSE OutputNames]
    /\ Goto(i, "push")
    /\ UNCHANGED <<memoVars, given, tfstate, plan, diag, ctxDone>>

\* It may fail before, amid and after the extraction.
CopySecretsFail(i) ==
    /\ At(i, "copy")
    /\ \E left \in {host[Target(i)].files, Torn, local[i].data} :
          host' = [host EXCEPT ![Target(i)].files = left]
    /\ RetryOrFail(i)
    /\ UNCHANGED memoVars

\* Push: nix copy, one output at a time, in Go's map order.
PushOutput(i) ==
    /\ At(i, "push")
    /\ ~ctxDone[i]
    /\ \E name \in local[i].todo :
          /\ host' = [host EXCEPT ![Target(i)].store = @ \cup {<<local[i].derivation, name>>}]
          /\ local' = [local EXCEPT ![i].todo = @ \ {name}]
    /\ UNCHANGED <<memoVars, given, tfstate, plan, diag, pc, ctxDone>>

\* It may fail after the output has arrived.
PushFails(i) ==
    /\ At(i, "push")
    /\ ~ctxDone[i]
    /\ \E name \in local[i].todo :
          \/ UNCHANGED host
          \/ host' = [host EXCEPT ![Target(i)].store = @ \cup {<<local[i].derivation, name>>}]
    /\ RetryOrFail(i)
    /\ UNCHANGED memoVars

\* Mutant: Push returns at the first output.
PushReturnsEarly(i) ==
    /\ At(i, "push")
    /\ Goto(i, "install")
    /\ UNCHANGED <<memoVars, given, tfstate, plan, diag, ctxDone, local, host>>

\* Everything is copied, or the context is done: Push returns nil either way.
PushReturns(i) ==
    /\ At(i, "push")
    /\ local[i].todo = {} \/ ctxDone[i]
    /\ Goto(i, "install")
    /\ UNCHANGED <<memoVars, given, tfstate, plan, diag, ctxDone, local, host>>

\* The remote nix sets the profile to a path its store has.
Installable(i) == <<local[i].derivation, MainOutput>> \in host[Target(i)].store

\* Switch, up to the profile.
Install(i) ==
    /\ At(i, "install")
    /\ local[i].derivation # NoDerivation
    /\ wanted[i].activation # "unsupported"
    /\ Installable(i)
    /\ host' = [host EXCEPT ![Target(i)].profile = local[i].derivation]
    /\ Goto(i, IF wanted[i].activation = "none" THEN "record" ELSE "activate")
    /\ UNCHANGED <<memoVars, given, tfstate, plan, diag, ctxDone, local>>

\* The command or the connection fails, before or after the profile is set.
InstallFails(i) ==
    /\ At(i, "install")
    /\ local[i].derivation # NoDerivation
    /\ wanted[i].activation # "unsupported"
    /\ \/ UNCHANGED host
       \/ /\ Installable(i)
          /\ host' = [host EXCEPT ![Target(i)].profile = local[i].derivation]
    /\ Fail(i)
    /\ UNCHANGED memoVars

\* An unknown activation action is refused before anything is installed.
SwitchRefuses(i) ==
    /\ At(i, "install")
    /\ local[i].derivation # NoDerivation
    /\ wanted[i].activation = "unsupported"
    /\ Fail(i)
    /\ UNCHANGED <<memoVars, host>>

\* The activation script of the profile runs.
Activate(i) ==
    /\ At(i, "activate")
    /\ host' = [host EXCEPT ![Target(i)].activated = host[Target(i)].profile]
    /\ Goto(i, "record")
    /\ UNCHANGED <<memoVars, given, tfstate, plan, diag, ctxDone, local>>

\* Mutant: Switch drops the error of the activation.
ActivateFailsSilently(i) ==
    /\ At(i, "activate")
    /\ Goto(i, "record")
    /\ UNCHANGED <<memoVars, given, tfstate, plan, diag, ctxDone, local, host>>

ActivateFails(i) ==
    /\ At(i, "activate")
    /\ \/ UNCHANGED host
       \/ host' = [host EXCEPT ![Target(i)].activated = host[Target(i)].profile]
    /\ Fail(i)
    /\ UNCHANGED memoVars

\* SetId, the fingerprint of the data copied and the derivations built; then
\* the answer reaches Terraform.
RecordApply(i) ==
    /\ At(i, "record")
    /\ tfstate' = [tfstate EXCEPT ![i] =
                      [config      |-> wanted[i],
                       derivation  |-> local[i].derivation,
                       fingerprint |-> local[i].data]]
    /\ diag' = [diag EXCEPT ![i] = "ok"]
    /\ plan' = [plan EXCEPT ![i] = NoPlan]
    /\ Finish(i)
    /\ UNCHANGED <<memoVars, given, host>>

\* Instance.Delete: the record goes, the machine stays as it is.  A command of
\* its own, taken here as a step before the next plan.
Destroy(i) ==
    /\ At(i, "idle")
    /\ command = "plan" /\ i \in due
    /\ tfstate[i] # NoState
    /\ tfstate' = [tfstate EXCEPT ![i] = NoState]
    /\ diag' = [diag EXCEPT ![i] = "none"]
    /\ UNCHANGED <<memoVars, given, plan, pc, ctxDone, local, host>>

-----------------------------------------------------------------------------
(* The environment.                                                         *)

\* The goroutine of the build makes a step.
MemoStep(i) == CallStep(i) /\ UNCHANGED instVars

\* The user interrupts an apply, or the SDK's timeout for the operation ends.
\* (An interrupted `plan` is thrown away as a whole: Crash.)
CtxDone(i) ==
    /\ ~At(i, "idle")
    /\ command = "apply"
    /\ ~ctxDone[i]
    /\ ctxDone' = [ctxDone EXCEPT ![i] = TRUE]
    /\ UNCHANGED <<memoVars, given, tfstate, plan, diag, pc, local, host>>

\* What is left when a provider process is gone.  An apply in flight fails and
\* Terraform keeps the record it had.
NewProcess ==
    /\ MemoRestart
    /\ pc' = [i \in Instances |-> "idle"]
    /\ ctxDone' = [i \in Instances |-> FALSE]
    /\ local' = [i \in Instances |-> NoLocals]
    /\ plan' = [i \in Instances |-> NoPlan]
    /\ diag' = [i \in Instances |-> IF pc[i] \in Applying THEN "error" ELSE diag[i]]
    /\ UNCHANGED <<content, wanted, tfstate, host>>

NewPlan == NewProcess /\ command' = "plan" /\ due' = Instances

Changes == {i \in Instances : plan[i] # NoPlan /\ plan[i].change}

\* The command has done all it was started for.
CommandOver ==
    /\ due = {}
    /\ \A i \in Instances : At(i, "idle")
    /\ command = "apply" => Changes = {}

\* Every instance is planned, some have changes and the user says yes.
Approve ==
    /\ CommandOver
    /\ command = "plan"
    /\ \A i \in Instances : plan[i] # NoPlan
    /\ Changes # {}
    /\ NewProcess
    /\ command' = "apply"
    /\ due' = Changes

\* The command is over; the user runs Terraform again.
ProcessExit == CommandOver /\ NewPlan

\* The process is killed, or the command interrupted, before it is over.
Crash == ~CommandOver /\ NewPlan

\* Switch indexes an empty slice of derivations: the panic ends the process.
SwitchPanics(i) ==
    /\ At(i, "install")
    /\ local[i].derivation = NoDerivation
    /\ NewPlan

EditNix == EditSource /\ UNCHANGED instVars

EditSecret ==
    /\ \E new \in Contents : <<content, new>> \in SecretEdits /\ content' = new
    /\ UNCHANGED <<memoVars, wanted, command, due, tfstate, plan, diag, pc, ctxDone,
                   local, host>>

\* The user edits the attributes before a plan: plan and apply use the same.
EditConfig(i) ==
    /\ At(i, "idle")
    /\ command = "plan" /\ i \in due
    /\ \E c \in ConfigsOf[i] \ {wanted[i]} : wanted' = [wanted EXCEPT ![i] = c]
    /\ UNCHANGED <<memoVars, content, command, due, tfstate, plan, diag, pc, ctxDone,
                   local, host>>

-----------------------------------------------------------------------------
(* The specification.                                                       *)

\* Steps an operation in flight makes by itself when nothing goes wrong ...
Progress(i) ==
    \/ DiffSecrets(i) \/ DiffBuild(i) \/ DiffBuildCancelled(i)
    \/ DiffBuildFails(i) \/ DiffCompare(i)
    \/ Build(i) \/ BuildCancelled(i) \/ BuildFails(i) \/ BuildReturns(i)
    \/ ReadSecrets(i) \/ CopySecrets(i) \/ PushOutput(i) \/ PushReturns(i)
    \/ Install(i) \/ SwitchRefuses(i) \/ SwitchPanics(i)
    \/ Activate(i) \/ RecordApply(i)

\* ... and when a secrets provider, a connection or a remote command fails.
Failure(i) ==
    \/ DiffSecretsFail(i) \/ ReadSecretsFail(i) \/ CopySecretsFail(i)
    \/ PushFails(i) \/ InstallFails(i) \/ ActivateFails(i)

Step(i) == Progress(i) \/ Failure(i) \/ MemoStep(i)

User(i) == StartDiff(i) \/ StartApply(i) \/ Destroy(i) \/ EditConfig(i)

Next ==
    \/ \E i \in Instances : Step(i) \/ User(i) \/ CtxDone(i)
    \/ EditNix
    \/ EditSecret
    \/ Approve
    \/ ProcessExit
    \/ Crash

Spec == Init /\ [][Next]_vars

\* Go runs every operation that is not waiting, and every command ends.
FairSpec == Spec /\ \A i \in Instances : WF_vars(Step(i))

\* Besides, the user runs Terraform again and again: a command visits all its
\* instances and ends, and changes are not refused for ever.
Operated ==
    /\ FairSpec
    /\ \A i \in Instances : WF_vars(StartDiff(i)) /\ WF_vars(StartApply(i))
    /\ WF_vars(ProcessExit)
    /\ SF_vars(Approve)

-----------------------------------------------------------------------------
(* Properties.                                                              *)

\* What machine and record should agree on once an apply has succeeded.
HostMatches(i) ==
    LET record == tfstate[i]
        machine == host[record.config.address]
    IN  /\ machine.profile = record.derivation
        /\ <<record.derivation, MainOutput>> \in machine.store
        /\ machine.files = record.fingerprint
        /\ record.config.activation = "switch" => machine.activated = record.derivation

\* After an apply that Terraform reports as successful, and until the next one
\* starts, the machine has the recorded profile, activated if that was asked
\* for, and exactly the secrets whose fingerprint is recorded: whatever was
\* retried, cancelled, torn or restarted on the way (Instance.Create's order
\* of effects and error paths, instance.go:175-252).
InSync == \A i \in Instances : diag[i] = "ok" => HostMatches(i)

\* Where a deployment stands decides what the machine already has.
DeployPhase(i) ==
    LET here == local[i]
        machine == host[Target(i)]
    IN  /\ pc[i] \in {"copy", "push", "install", "activate", "record"} =>
              here.data \in Contents
        /\ pc[i] \in {"push", "install", "activate", "record"} => machine.files = here.data
        /\ pc[i] = "push" /\ here.derivation # NoDerivation =>
              {here.derivation} \X (OutputNames \ here.todo) \subseteq machine.store
        /\ pc[i] = "push" /\ here.derivation = NoDerivation => here.todo = {}
        /\ pc[i] = "install" /\ here.derivation # NoDerivation /\ ~ctxDone[i] =>
              {here.derivation} \X OutputNames \subseteq machine.store
        /\ pc[i] \in {"activate", "record"} =>
              /\ here.derivation # NoDerivation
              /\ machine.profile = here.derivation
              /\ <<here.derivation, MainOutput>> \in machine.store
        /\ pc[i] = "record" /\ wanted[i].activation = "switch" =>
              machine.activated = here.derivation

\* What the record and the outcome say of the machine.
RecordPhase(i) ==
    /\ tfstate[i] # NoState => tfstate[i].config \in ConfigsOf[i]
    /\ pc[i] \in Applying => diag[i] = "none"
    /\ diag[i] = "ok" => tfstate[i] # NoState /\ HostMatches(i)

\* No record names a build that never reached one of the instance's machines: an apply
\* that fails, is cancelled or dies with its process, at any statement and on any retry,
\* leaves the derivation of the last one that succeeded in the record, or none, while
\* the other attributes may already be those of the attempt (instance.go:111-116, 175-252).
RecordedWasDeployed ==
    \A i \in Instances : tfstate[i] # NoState =>
        \E c \in ConfigsOf[i] : <<tfstate[i].derivation, MainOutput>> \in host[c.address].store

\* The same at every moment of Create (instance.go:175-252): which effects are
\* in place after each of its statements, under any retry, cancellation and
\* failure.  With TypeOK it is inductive, and implies InSync.
DeployInvariant == \A i \in Instances : DeployPhase(i) /\ RecordPhase(i)

\* A plan without changes is right: the machine is as the record says.  Read is
\* a no-op (instance.go:254), so the record is all Diff compares with.
NoopMeansInSync ==
    \A i \in Instances :
        plan[i] = NoPlan \/ plan[i].change \/ HostMatches(i)

\* The derivation that is deployed is the one the plan was made with, although
\* Create builds again and the sources may have changed: the memo bridges the
\* two builds (provider.go:434).  It does when no other instance shares the key.
AppliesWhatWasPlanned ==
    \A i \in Instances :
        At(i, "copy") /\ local[i].derivation # NoDerivation =>
            plan[i].built \in {local[i].derivation, NoDerivation}

\* A record holds a derivation built from the instance's own configuration,
\* system and settings (schema.go:407, 413).
RecordsOwnBuild ==
    \A i \in Instances :
        tfstate[i] # NoState => \E rev \in Revisions : tfstate[i].derivation = Built(i, rev)

\* The profile of a machine only ever goes to a derivation whose secrets are in
\* place and, unless the operation was cancelled, whose outputs are all there:
\* Push before Switch, CopySecrets before both, on every retry.
SwitchesWhenReady ==
    [][ \A i \in Instances :
          At(i, "install") /\ host'[Target(i)].profile # host[Target(i)].profile =>
              /\ host[Target(i)].files = local[i].data
              /\ ~ctxDone[i] =>
                    {local[i].derivation} \X OutputNames \subseteq host[Target(i)].store
      ]_vars

\* Every plan and every apply ends: retries run out, no step waits for another
\* instance.
OperationsEnd == \A i \in Instances : ~At(i, "idle") ~> At(i, "idle")

\* What may keep Terraform from making the machines match.
Disturbance ==
    \/ \E i \in Instances :
          Failure(i) \/ CtxDone(i) \/ ExecuteMalformed(i) \/ ExecuteFails(i)
          \/ Destroy(i) \/ EditConfig(i)
    \/ EditNix
    \/ EditSecret
    \/ Crash

Converged ==
    \A i \in Instances :
        /\ tfstate[i] # NoState
        /\ tfstate[i].config = wanted[i]
        /\ tfstate[i].derivation = Built(i, revision)
        /\ tfstate[i].fingerprint = content
        /\ HostMatches(i)

\* When the user keeps running Terraform and from some moment nothing fails or
\* changes any more, every machine gets the wanted system and secrets and keeps
\* them: no failure of the past leaves a record that hides work to be done.
Converges == <>[][~Disturbance]_vars => <>[]Converged
=============================================================================
