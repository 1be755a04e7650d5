------------------------------ MODULE PlansProofs ------------------------------
(***************************************************************************)
(* What a plan is worth: which derivation the apply after it deploys and   *)
(* records, and why a plan without changes is right.  The proofs follow a  *)
(* derivation from the memo through the call, Diff's plan and Create's     *)
(* locals into the record, and a record through the edits, failures and    *)
(* crashes after it.  Each theorem has a premise that nothing in the       *)
(* provider enforces: about the memo's keys (provider.go:434), and about   *)
(* what the user edits.                                                    *)
(***************************************************************************)
EXTENDS NixosInstanceProofs

\* No two instances name the same configuration file.
KeysApart == \A i, j \in Instances : KeyOf(i) = KeyOf(j) => i = j

-----------------------------------------------------------------------------
(* What a step does to plan, locals and record of the instance it is about. *)

\* Three steps hand a derivation on; in all others nothing new appears.
LEMMA NothingNew ==
    ASSUME TypeOK, NEW i \in Instances, Own(i),
           ~DiffCompare(i), ~BuildReturns(i), ~RecordApply(i)
    PROVE  /\ plan'[i] = plan[i] \/ plan'[i] = NoPlan \/ plan'[i].built = NoDerivation
           /\ local'[i].derivation \in {local[i].derivation, NoDerivation}
           /\ tfstate'[i] # NoState =>
                 tfstate[i] # NoState /\ tfstate'[i].derivation = tfstate[i].derivation
  <1> USE DEF TypeOK, InstTypeOK
  <1>l. local[i] \in Locals /\ NoLocals.derivation = NoDerivation
    BY DEF NoLocals
  <1>r. tfstate[i] \in Record \cup {NoState}
    OBVIOUS
  <1>f. ASSUME Fail(i)
        PROVE  /\ plan'[i] = NoPlan
               /\ local'[i].derivation = NoDerivation
               /\ tfstate'[i] # NoState =>
                     tfstate[i] # NoState /\ tfstate'[i].derivation = tfstate[i].derivation
    BY <1>f, <1>l, <1>r DEF Fail, Finish, Record
  <1>y. ASSUME RetryOrFail(i), ~Fail(i)
        PROVE  /\ UNCHANGED <<plan, tfstate>>
               /\ local'[i].derivation = local[i].derivation
    BY <1>y, <1>l DEF RetryOrFail, Locals
  <1>1. CASE StartDiff(i) \/ DiffBuild(i) \/ StartApply(i) \/ Build(i) \/ BuildCancelled(i)
             \/ PushReturns(i) \/ Install(i) \/ Activate(i) \/ CtxDone(i) \/ MemoStep(i)
             \/ EditConfig(i)
    BY <1>1 DEF StartDiff, DiffBuild, StartApply, Build, BuildCancelled, PushReturns, Install,
                Activate, CtxDone, MemoStep, EditConfig, instVars
  <1>2. CASE DiffSecrets(i) \/ ReadSecrets(i) \/ CopySecrets(i) \/ PushOutput(i)
    BY <1>2, <1>l DEF DiffSecrets, ReadSecrets, CopySecrets, PushOutput, Locals
  <1>3. CASE DiffSecretsFail(i) \/ DiffBuildFails(i)
    BY <1>3, <1>l DEF DiffSecretsFail, DiffBuildFails, DropDiff, Finish
  <1>4. CASE DiffBuildCancelled(i)
    BY <1>4, <1>l DEF DiffBuildCancelled, Finish
  <1>5. CASE BuildFails(i) \/ ReadSecretsFail(i) \/ InstallFails(i) \/ SwitchRefuses(i)
             \/ ActivateFails(i)
    BY <1>5, <1>f DEF BuildFails, ReadSecretsFail, InstallFails, SwitchRefuses, ActivateFails
  <1>6. CASE CopySecretsFail(i) \/ PushFails(i)
    BY <1>6, <1>f, <1>y DEF CopySecretsFail, PushFails
  <1>7. CASE Destroy(i)
    BY <1>7 DEF Destroy
  <1> QED
    BY <1>1, <1>2, <1>3, <1>4, <1>5, <1>6, <1>7 DEF Own

\* A new process has no plans and no locals, and the records it is given.
LEMMA NewProcessBuilds ==
    ASSUME NewProcess, NEW i \in Instances
    PROVE  /\ plan'[i] = NoPlan /\ local'[i] = NoLocals /\ pc'[i] = "idle"
           /\ tfstate'[i] = tfstate[i]
  BY DEF NewProcess

-----------------------------------------------------------------------------
(* The record.                                                              *)

\* A derivation is somebody's own build wherever an operation keeps it.
OfOwnInput(i, drv) == \E rev \in Revisions : drv = Built(i, rev)

OwnDerivations(i) ==
    /\ local[i].derivation # NoDerivation => OfOwnInput(i, local[i].derivation)
    /\ tfstate[i] # NoState => OfOwnInput(i, tfstate[i].derivation)

\* Replies of the instance's own input keep plan, locals and record of it.
LEMMA OwnDerivationsStep ==
    ASSUME IInv, RepliesOwnInput, NEW i \in Instances, Own(i), OwnDerivations(i)
    PROVE  OwnDerivations(i)'
  <1> USE DEF IInv, TypeOK, InstTypeOK
  <1>1. CASE DiffCompare(i)
    BY <1>1 DEF DiffCompare, Finish, NoLocals, OwnDerivations, OfOwnInput
  <1>2. CASE BuildReturns(i)
    <2>1. OfOwnInput(i, Reply(i))
      BY <1>2, ReplyType DEF BuildReturns, Return, RepliesOwnInput, OfOwnInput, Reply
    <2>2. local'[i].derivation = Reply(i) /\ tfstate' = tfstate
      BY <1>2 DEF BuildReturns, Locals
    <2> QED
      BY <2>1, <2>2 DEF OwnDerivations, OfOwnInput
  <1>3. CASE RecordApply(i)
    <2>1. local[i].derivation # NoDerivation
      BY <1>3 DEF RecordApply, At, DeployInvariant, DeployPhase
    <2>2. local'[i] = NoLocals /\ tfstate'[i].derivation = local[i].derivation
      BY <1>3 DEF RecordApply, Finish
    <2> QED
      BY <2>1, <2>2 DEF OwnDerivations, OfOwnInput, NoLocals
  <1>4. CASE ~DiffCompare(i) /\ ~BuildReturns(i) /\ ~RecordApply(i)
    BY <1>4, NothingNew DEF OwnDerivations, OfOwnInput
  <1> QED
    BY <1>1, <1>2, <1>3, <1>4

\* The steps of Next, by what they leave alone.
LEMMA StepKinds ==
    ASSUME [Next]_vars
    PROVE  \/ \E i \in Instances : Own(i)
           \/ NewProcess
           \/ UNCHANGED <<tfstate, plan, pc, local>> /\ (EditSource \/ UNCHANGED memoVars)
  <1>1. ASSUME NEW i \in Instances, Step(i) \/ User(i) \/ CtxDone(i)
        PROVE  Own(i) \/ NewProcess
    BY <1>1 DEF Step, Progress, Failure, User, Own, SwitchPanics, NewPlan
  <1>2. CASE Approve \/ ProcessExit \/ Crash
    BY <1>2 DEF Approve, ProcessExit, Crash, NewPlan
  <1>3. CASE EditNix \/ EditSecret \/ UNCHANGED vars
    BY <1>3 DEF EditNix, EditSecret, vars, instVars
  <1> QED
    BY <1>1, <1>2, <1>3 DEF Next

\* With keys that determine inputs a record holds a build of the instance's own
\* system and settings (schema.go:407, 413; provider.go:434).
THEOREM RecordsAreOwn ==
    ASSUME KeyDeterminesInput
    PROVE  Spec => []RecordsOwnBuild
  <1> DEFINE All == \A i \in Instances : OwnDerivations(i)
  <1>1. Init => All
    <2> SUFFICES ASSUME Init, NEW i \in Instances PROVE OwnDerivations(i)
      OBVIOUS
    <2>1. local[i].derivation = NoDerivation /\ tfstate[i] = NoState
      BY DEF Init, NoLocals
    <2> QED
      BY <2>1 DEF OwnDerivations
  <1>2. IInv /\ MemoIInv /\ All /\ [Next]_vars => All'
    <2> SUFFICES ASSUME IInv, MemoIInv, All, [Next]_vars, NEW i \in Instances
                 PROVE  OwnDerivations(i)'
      OBVIOUS
    <2>1. RepliesOwnInput
      BY OwnReply
    <2>2. ASSUME NEW j \in Instances, Own(j) PROVE OwnDerivations(i)'
      <3>1. CASE j = i
        BY <2>1, <2>2, <3>1, OwnDerivationsStep
      <3>2. CASE j # i
        <4>1. local'[i] = local[i] /\ tfstate'[i] = tfstate[i]
          BY <2>2, <3>2, OwnFrame DEF IInv, OnlyMine
        <4> QED
          BY <4>1 DEF OwnDerivations, OfOwnInput
      <3> QED
        BY <3>1, <3>2
    <2>3. CASE NewProcess
      BY <2>3, NewProcessBuilds DEF OwnDerivations, OfOwnInput, NoLocals
    <2>4. CASE UNCHANGED <<tfstate, plan, pc, local>>
      BY <2>4 DEF OwnDerivations, OfOwnInput
    <2> QED
      BY <2>2, <2>3, <2>4, StepKinds
  <1>3. All => RecordsOwnBuild
    BY DEF OwnDerivations, OfOwnInput, RecordsOwnBuild
  <1>4. Spec => []MemoIInv
    BY InstanceUsesMemo, MemoInductive, PTL
  <1> QED
    BY <1>1, <1>2, <1>3, <1>4, Inductive, PTL DEF Spec

-----------------------------------------------------------------------------
(* From plan to apply.                                                      *)

\* An instance alone with its key: the memo is filled once, by its first call
\* in the process, and answers every other one.
FilledOnce(i) ==
    /\ call[i] \in {"idle", "lookup", "execute"} => output[i] = NoOutput
    /\ memo[KeyOf(i)] # NoOutput => call[i] \notin {"execute", "publish"}
    /\ call[i] = "returned" /\ output[i] # NoOutput => memo[KeyOf(i)] = output[i]

\* What the process has planned or built is what the memo has.
Bridged(i) ==
    /\ plan[i] # NoPlan /\ plan[i].built # NoDerivation => memo[KeyOf(i)] = plan[i].built
    /\ local[i].derivation # NoDerivation => memo[KeyOf(i)] = local[i].derivation
    /\ pc[i] \in Applying => plan[i] # NoPlan

BuildsBridged == \A i \in Instances : FilledOnce(i) /\ Bridged(i)

\* A step of some call, or of none.
Calls == UNCHANGED memoVars \/ \E j \in Instances : Request(j) \/ CallStep(j) \/ Return(j)

\* Every step of an instance is one of the memo's or leaves the memo alone.
LEMMA OwnCalls ==
    ASSUME NEW i \in Instances, Own(i)
    PROVE  Calls
  <1>1. CASE DiffBuild(i) \/ Build(i)
    BY <1>1 DEF DiffBuild, Build, Calls
  <1>2. CASE DiffBuildFails(i) \/ DiffCompare(i) \/ BuildFails(i) \/ BuildReturns(i)
    BY <1>2 DEF DiffBuildFails, DiffCompare, BuildFails, BuildReturns, Calls
  <1>3. CASE MemoStep(i)
    BY <1>3 DEF MemoStep, Calls
  <1>4. CASE ~(DiffBuild(i) \/ Build(i) \/ DiffBuildFails(i) \/ DiffCompare(i) \/ BuildFails(i)
               \/ BuildReturns(i) \/ MemoStep(i))
    <2>1. UNCHANGED memoVars
      BY <1>4 DEF Own, StartDiff, DiffSecrets, DiffSecretsFail, DiffBuildCancelled, StartApply,
                  BuildCancelled, ReadSecrets, ReadSecretsFail, CopySecrets, CopySecretsFail,
                  PushOutput, PushFails, PushReturns, Install, InstallFails, SwitchRefuses,
                  Activate, ActivateFails, RecordApply, Destroy, CtxDone, EditConfig
    <2> QED
      BY <2>1 DEF Calls
  <1> QED
    BY <1>1, <1>2, <1>3, <1>4

\* Nobody else fills the entry of an instance with a key of its own.
LEMMA FilledOnceStep ==
    ASSUME KeysApart, MemoTypeOK, NEW i \in Instances, FilledOnce(i), Calls
    PROVE  /\ FilledOnce(i)'
           /\ memo[KeyOf(i)] # NoOutput => memo'[KeyOf(i)] = memo[KeyOf(i)]
  <1> USE DEF FilledOnce, MemoTypeOK
  <1>k. KeyOf(i) \in Configurations
    BY InputFacts
  <1>1. CASE UNCHANGED memoVars
    BY <1>1 DEF memoVars
  <1>2. ASSUME NEW j \in Instances, j # i, Request(j) \/ CallStep(j) \/ Return(j)
        PROVE  /\ call'[i] = call[i] /\ output'[i] = output[i]
               /\ memo'[KeyOf(i)] = memo[KeyOf(i)]
    <2>1. KeyOf(j) # KeyOf(i)
      BY <1>2 DEF KeysApart
    <2> QED
      BY <1>2, <1>k, <2>1 DEF Request, CallStep, Return, LookupHit, LookupMiss, Execute,
                              ExecuteMalformed, ExecuteFails, Publish
  <1>3. CASE Request(i) \/ Return(i)
    BY <1>3 DEF Request, Return
  <1>4. CASE LookupHit(i)
    BY <1>4 DEF LookupHit
  <1>5. CASE LookupMiss(i) \/ ExecuteFails(i)
    BY <1>5 DEF LookupMiss, ExecuteFails
  <1>6. CASE Execute(i) \/ ExecuteMalformed(i)
    BY <1>6 DEF Execute, ExecuteMalformed
  <1>7. CASE Publish(i)
    BY <1>7, <1>k DEF Publish
  <1> QED
    BY <1>1, <1>2, <1>3, <1>4, <1>5, <1>6, <1>7 DEF Calls, CallStep

\* An apply is of a plan, from its start to its end.
LEMMA ApplyHasPlan ==
    ASSUME TypeOK, NEW i \in Instances, Own(i), pc[i] \in Applying => plan[i] # NoPlan
    PROVE  pc'[i] \in Applying => plan'[i] # NoPlan
  <1> SUFFICES ASSUME pc'[i] \in Applying PROVE plan'[i] # NoPlan
    OBVIOUS
  <1> USE DEF TypeOK, InstTypeOK, Diffing, Applying, Deploying, At, Goto
  <1>f. ~Fail(i) /\ ~Finish(i)
    BY DEF Fail, Finish
  <1>1. CASE StartApply(i)
    BY <1>1 DEF StartApply
  <1>2. CASE StartDiff(i) \/ DiffSecrets(i) \/ DiffBuild(i)
    BY <1>2 DEF StartDiff, DiffSecrets, DiffBuild
  <1>3. CASE DiffSecretsFail(i) \/ DiffBuildFails(i) \/ DiffBuildCancelled(i) \/ DiffCompare(i)
             \/ RecordApply(i) \/ BuildFails(i) \/ ReadSecretsFail(i) \/ InstallFails(i)
             \/ SwitchRefuses(i) \/ ActivateFails(i)
    BY <1>3, <1>f DEF DiffSecretsFail, DiffBuildFails, DiffBuildCancelled, DiffCompare, DropDiff,
                RecordApply, BuildFails, ReadSecretsFail, InstallFails, SwitchRefuses,
                ActivateFails
  <1>4. CASE Build(i) \/ BuildCancelled(i) \/ BuildReturns(i) \/ ReadSecrets(i) \/ CopySecrets(i)
             \/ PushOutput(i) \/ PushReturns(i) \/ Install(i) \/ Activate(i)
    BY <1>4 DEF Build, BuildCancelled, BuildReturns, ReadSecrets, CopySecrets, PushOutput,
                PushReturns, Install, Activate
  <1>5. CASE CopySecretsFail(i) \/ PushFails(i)
    BY <1>5, <1>f DEF CopySecretsFail, PushFails, RetryOrFail
  <1>6. CASE Destroy(i) \/ CtxDone(i) \/ MemoStep(i) \/ EditConfig(i)
    BY <1>6 DEF Destroy, CtxDone, MemoStep, EditConfig, instVars
  <1> QED
    BY <1>1, <1>2, <1>3, <1>4, <1>5, <1>6 DEF Own

\* A derivation that is handed on stays the one in the memo.
LEMMA BridgedStep ==
    ASSUME TypeOK, NEW i \in Instances, FilledOnce(i), Bridged(i), Own(i),
           memo[KeyOf(i)] # NoOutput => memo'[KeyOf(i)] = memo[KeyOf(i)]
    PROVE  Bridged(i)'
  <1> USE DEF TypeOK, InstTypeOK
  <1>0. pc'[i] \in Applying => plan'[i] # NoPlan
    BY ApplyHasPlan DEF Bridged
  <1>m. ASSUME NEW drv \in Derivation, memo[KeyOf(i)] = drv PROVE memo'[KeyOf(i)] = drv
    BY <1>m, OutputAssumption
  <1>p. /\ plan[i] # NoPlan => plan[i].built \in Derivation \cup {NoDerivation}
        /\ local[i].derivation \in Derivation \cup {NoDerivation}
    BY DEF Plan, Locals
  <1>r. ASSUME call[i] = "returned", Reply(i) # Failed
        PROVE  Reply(i) \in Derivation /\ memo'[KeyOf(i)] = Reply(i)
    <2>1. output[i] \in Derivation /\ Reply(i) = output[i]
      BY <1>r DEF Reply
    <2>2. memo[KeyOf(i)] = output[i]
      BY <1>r, <2>1, OutputAssumption DEF FilledOnce
    <2> QED
      BY <2>1, <2>2, <1>m
  <1>1. CASE DiffCompare(i)
    <2>1. plan'[i].built = Reply(i) /\ local'[i] = NoLocals
      BY <1>1 DEF DiffCompare, Finish
    <2>2. memo'[KeyOf(i)] = Reply(i)
      BY <1>1, <1>r DEF DiffCompare, Return
    <2> QED
      BY <1>0, <2>1, <2>2 DEF Bridged, NoLocals
  <1>2. CASE BuildReturns(i)
    <2>1. plan' = plan /\ local'[i].derivation = Reply(i)
      BY <1>2 DEF BuildReturns, Locals
    <2>2. memo'[KeyOf(i)] = Reply(i)
      BY <1>2, <1>r DEF BuildReturns, Return
    <2> QED
      BY <1>0, <1>m, <1>p, <2>1, <2>2 DEF Bridged
  <1>3. CASE RecordApply(i)
    BY <1>0, <1>3 DEF RecordApply, Finish, NoLocals, Bridged
  <1>4. CASE ~DiffCompare(i) /\ ~BuildReturns(i) /\ ~RecordApply(i)
    <2>1. /\ plan'[i] = plan[i] \/ plan'[i] = NoPlan \/ plan'[i].built = NoDerivation
          /\ local'[i].derivation \in {local[i].derivation, NoDerivation}
      BY <1>4, NothingNew
    <2> QED
      BY <1>0, <1>m, <1>p, <2>1 DEF Bridged
  <1> QED
    BY <1>1, <1>2, <1>3, <1>4

\* Both hold through the steps of all instances and of Terraform.
LEMMA BuildsBridgedStep ==
    ASSUME KeysApart, TypeOK, BuildsBridged, [Next]_vars
    PROVE  BuildsBridged'
  <1> SUFFICES ASSUME NEW i \in Instances PROVE FilledOnce(i)' /\ Bridged(i)'
    BY DEF BuildsBridged
  <1>0. FilledOnce(i) /\ Bridged(i)
    BY DEF BuildsBridged
  <1>k. KeyOf(i) \in Configurations
    BY InputFacts
  <1>1. ASSUME NEW j \in Instances, Own(j) PROVE FilledOnce(i)' /\ Bridged(i)'
    <2>1. /\ FilledOnce(i)'
          /\ memo[KeyOf(i)] # NoOutput => memo'[KeyOf(i)] = memo[KeyOf(i)]
      BY <1>0, <1>1, OwnCalls, FilledOnceStep DEF TypeOK
    <2>2. CASE j = i
      BY <1>0, <1>1, <2>1, <2>2, BridgedStep
    <2>3. CASE j # i
      <3>1. UNCHANGED <<plan[i], local[i], pc[i]>>
        BY <1>1, <2>3, OwnFrame DEF OnlyMine
      <3>2. plan[i] # NoPlan => plan[i].built \in Derivation \cup {NoDerivation}
        BY DEF TypeOK, InstTypeOK, Plan
      <3>3. local[i].derivation \in Derivation \cup {NoDerivation}
        BY DEF TypeOK, InstTypeOK, Locals
      <3> QED
        BY <1>0, <2>1, <3>1, <3>2, <3>3, OutputAssumption DEF Bridged
    <2> QED
      BY <2>2, <2>3
  <1>2. CASE NewProcess
    <2>1. FilledOnce(i)'
      BY <1>2, <1>k DEF NewProcess, MemoRestart, FilledOnce
    <2> QED
      BY <1>2, <2>1, NewProcessBuilds DEF Bridged, NoLocals, Applying, Deploying
  <1>3. CASE UNCHANGED <<tfstate, plan, pc, local>> /\ (EditSource \/ UNCHANGED memoVars)
    BY <1>0, <1>3 DEF EditSource, memoVars, FilledOnce, Bridged
  <1> QED
    BY <1>1, <1>2, <1>3, StepKinds

\* An instance that is alone with its configuration file deploys the derivation
\* that was planned, whatever the sources have become since (provider.go:434).
THEOREM PlannedIsApplied ==
    ASSUME KeysApart
    PROVE  Spec => []AppliesWhatWasPlanned
  <1>1. Init => BuildsBridged
    <2> SUFFICES ASSUME Init, NEW i \in Instances PROVE FilledOnce(i) /\ Bridged(i)
      BY DEF BuildsBridged
    <2>1. KeyOf(i) \in Configurations
      BY InputFacts
    <2> QED
      BY <2>1 DEF Init, MemoInit, FilledOnce, Bridged, NoLocals, Applying, Deploying
  <1>2. TypeOK /\ BuildsBridged /\ [Next]_vars => BuildsBridged'
    BY BuildsBridgedStep
  <1>3. BuildsBridged => AppliesWhatWasPlanned
    <2> SUFFICES ASSUME BuildsBridged, NEW i \in Instances,
                        At(i, "copy"), local[i].derivation # NoDerivation
                 PROVE  plan[i].built \in {local[i].derivation, NoDerivation}
      BY DEF AppliesWhatWasPlanned
    <2>1. plan[i] # NoPlan
      BY DEF BuildsBridged, Bridged, At, Applying, Deploying
    <2> QED
      BY <2>1 DEF BuildsBridged, Bridged
  <1> QED
    BY <1>1, <1>2, <1>3, TypeCorrect, PTL DEF Spec

-----------------------------------------------------------------------------
(* Plans without changes.                                                   *)

\* The attributes of an instance are never edited.
AttributesStay == \A i \in Instances : \A c, d \in ConfigsOf[i] : c = d

\* Edits go forward: a clock can be read off every content, so that none comes
\* back once it was edited away.
GoesForward(clock, edits) == \A edit \in edits : clock[edit[1]] < clock[edit[2]]

NeverBack ==
    /\ \E clock \in [Revisions -> Nat] : GoesForward(clock, Edits)
    /\ \E clock \in [Contents -> Nat] : GoesForward(clock, SecretEdits)

Age   == CHOOSE clock \in [Revisions -> Nat] : GoesForward(clock, Edits)
Stage == CHOOSE clock \in [Contents -> Nat] : GoesForward(clock, SecretEdits)

NoOlder(clock, new, old) == new = old \/ clock[old] < clock[new]

\* The revision the recorded derivation was built from.
Source(i) == tfstate[i].derivation.revision

\* Secrets, or sources, are newer than what is recorded: the sources as any
\* build of this process may have found them, and as they are now.
NewerSecrets(i) == Stage[tfstate[i].fingerprint] < Stage[content]
NewerBuilds(i)  == \A rev \in seen : Age[Source(i)] < Age[rev]
NewerSources(i) == Age[Source(i)] < Age[revision]

\* The process has not compared the instance yet.
ToCompare(i) == i \in due \/ pc[i] \in Diffing

\* How a command goes through the instances.
Visit(i) ==
    /\ command = "plan" => ~ctxDone[i] /\ pc[i] \notin Applying
    /\ i \in due => pc[i] = "idle"
    /\ ToCompare(i) => plan[i] = NoPlan
    /\ pc[i] \in Applying => plan[i] # NoPlan /\ plan[i].change

\* What a Create has at hand is of this process, and no newer than the world.
OfThisProcess(i) ==
    /\ local[i].derivation # NoDerivation =>
          \E rev \in seen : local[i].derivation = Built(i, rev)
    /\ pc[i] \in Deploying \ {"secrets"} => NoOlder(Stage, content, local[i].data)

\* A record is of the past, and a machine that is not as recorded was left so
\* by an apply of something newer than the record.
RecordOfThePast(i) ==
    /\ Source(i) \in Revisions /\ tfstate[i].derivation = Built(i, Source(i))
    /\ NoOlder(Age, revision, Source(i))
    /\ NoOlder(Stage, content, tfstate[i].fingerprint)
    /\ HostMatches(i) \/ NewerSources(i) \/ NewerSecrets(i)

\* The same as a process finds it that is going to compare.
BeforeComparing(i) ==
    /\ \A rev \in seen : NoOlder(Age, rev, Source(i))
    /\ HostMatches(i) \/ NewerBuilds(i) \/ NewerSecrets(i)
    /\ command = "apply" => NewerSources(i) \/ NewerSecrets(i)

\* Diff's verdict on the secrets leaves the builds to tell what it has not.
Verdict(i) ==
    IF local[i].changed THEN NewerSecrets(i) ELSE HostMatches(i) \/ NewerBuilds(i)

PlanIsRight(i) ==
    /\ ~plan[i].change => tfstate[i] # NoState /\ HostMatches(i)
    /\ plan[i].change /\ tfstate[i] # NoState => NewerSources(i) \/ NewerSecrets(i)

History(i) ==
    /\ Visit(i)
    /\ OfThisProcess(i)
    /\ tfstate[i] # NoState =>
          /\ RecordOfThePast(i)
          /\ ToCompare(i) => BeforeComparing(i)
          /\ pc[i] \in {"diffBuild", "diffWait"} => Verdict(i)
    /\ plan[i] # NoPlan => PlanIsRight(i)

Histories == (\A rev \in seen : NoOlder(Age, revision, rev)) /\ \A i \in Instances : History(i)

Premises == KeyDeterminesInput /\ AttributesStay /\ NeverBack

\* The invariants of the parts and the histories' own.
HistoryIInv == IInv /\ MemoIInv /\ Histories

\* Where edits never go back, time passes in sources and secrets.
LEMMA Clocks ==
    ASSUME NeverBack
    PROVE  /\ Age \in [Revisions -> Nat] /\ Stage \in [Contents -> Nat]
           /\ GoesForward(Age, Edits) /\ GoesForward(Stage, SecretEdits)
  BY DEF NeverBack, Age, Stage

\* Attributes that stay keep a record on the machine the instance is wanted on.
LEMMA StaysOnMachine ==
    ASSUME IInv, AttributesStay, NEW i \in Instances, tfstate[i] # NoState
    PROVE  tfstate[i].config = wanted[i]
  BY DEF IInv, TypeOK, InstTypeOK, DeployInvariant, RecordPhase, AttributesStay

\* The world does not change in a step of an instance.
LEMMA OwnWorld ==
    ASSUME NEW i \in Instances, Own(i)
    PROVE  UNCHANGED <<revision, seen, content, command>>
  <1>1. UNCHANGED <<revision, seen>>
    BY OwnCalls DEF Calls, memoVars, Request, CallStep, Return, LookupHit, LookupMiss,
                    Execute, ExecuteMalformed, ExecuteFails, Publish
  <1>f. Fail(i) \/ RetryOrFail(i) => UNCHANGED <<content, command>>
    BY DEF Fail, RetryOrFail, given
  <1>2. UNCHANGED <<content, command>>
    BY <1>f DEF Own, StartDiff, DiffSecrets, DiffSecretsFail, DiffBuild, DiffBuildCancelled,
           DiffBuildFails, DiffCompare, DropDiff, StartApply, Build, BuildCancelled,
           BuildFails, BuildReturns, ReadSecrets, ReadSecretsFail, CopySecrets,
           CopySecretsFail, PushOutput, PushFails, PushReturns, Install, InstallFails,
           SwitchRefuses, Activate, ActivateFails, RecordApply, Destroy, CtxDone, MemoStep,
           EditConfig, given, instVars
  <1> QED
    BY <1>1, <1>2

\* An instance is visited once by a command.
LEMMA DueStep ==
    ASSUME NEW i \in Instances, Own(i)
    PROVE  due' = IF StartDiff(i) THEN due \ {i} ELSE due
  <1>f. Fail(i) \/ RetryOrFail(i) => due' = due
    BY DEF Fail, RetryOrFail, given
  <1>1. CASE StartDiff(i)
    BY <1>1 DEF StartDiff
  <1>2. CASE ~StartDiff(i)
    BY <1>2, <1>f DEF Own, DiffSecrets, DiffSecretsFail, DiffBuild, DiffBuildCancelled,
           DiffBuildFails, DiffCompare, DropDiff, StartApply, Build, BuildCancelled,
           BuildFails, BuildReturns, ReadSecrets, ReadSecretsFail, CopySecrets,
           CopySecretsFail, PushOutput, PushFails, PushReturns, Install, InstallFails,
           SwitchRefuses, Activate, ActivateFails, RecordApply, Destroy, CtxDone, MemoStep,
           EditConfig, given, instVars
  <1> QED
    BY <1>1, <1>2

\* A history is one of an instance's own: a step of another one leaves it.
LEMMA OthersHistory ==
    ASSUME IInv, AttributesStay, NEW j \in Instances, Own(j), NEW i \in Instances \ {j}, History(i)
    PROVE  History(i)'
  <1>1. /\ UNCHANGED <<tfstate[i], plan[i], pc[i], ctxDone[i], local[i]>>
        /\ \A h \in Hosts \ {Target(j)} : host'[h] = host[h]
    BY OwnFrame DEF IInv, OnlyMine
  <1>2. UNCHANGED <<revision, seen, content, command>>
    BY OwnWorld
  <1>3. i \in due' <=> i \in due
    BY DueStep
  <1>4. tfstate[i] # NoState => tfstate[i].config.address \in Hosts \ {Target(j)}
    BY ApartHosts DEF IInv, TypeOK, InstTypeOK, Record, Config
  <1>5. tfstate[i] # NoState => (HostMatches(i)' <=> HostMatches(i))
    BY <1>1, <1>4 DEF HostMatches
  <1> USE <1>1, <1>2, <1>3, <1>5
  <1>6. Visit(i)' /\ OfThisProcess(i)'
    BY DEF History, Visit, OfThisProcess, ToCompare, NoOlder
  <1>7. ASSUME tfstate[i] # NoState
        PROVE  /\ RecordOfThePast(i)'
               /\ ToCompare(i)' => BeforeComparing(i)'
               /\ pc'[i] \in {"diffBuild", "diffWait"} => Verdict(i)'
    BY <1>7 DEF History, RecordOfThePast, BeforeComparing, Verdict, ToCompare, Source, NoOlder,
                NewerSources, NewerBuilds, NewerSecrets
  <1>8. ASSUME plan[i] # NoPlan PROVE PlanIsRight(i)'
    BY <1>8 DEF History, PlanIsRight, NewerSources, NewerSecrets, Source
  <1> QED
    BY <1>6, <1>7, <1>8 DEF History

\* What is said of a record depends on nothing but the record, the machine and
\* the world.
LEMMA RecordUntouched ==
    ASSUME IInv, AttributesStay, NEW i \in Instances, Own(i), History(i),
           tfstate'[i] = tfstate[i], tfstate[i] # NoState,
           host'[Target(i)] = host[Target(i)]
    PROVE  /\ RecordOfThePast(i)'
           /\ HostMatches(i)' <=> HostMatches(i)
           /\ NewerSources(i)' <=> NewerSources(i)
           /\ NewerSecrets(i)' <=> NewerSecrets(i)
           /\ NewerBuilds(i)' <=> NewerBuilds(i)
           /\ BeforeComparing(i) => BeforeComparing(i)'
  <1>1. UNCHANGED <<revision, seen, content, command>>
    BY OwnWorld
  <1>2. tfstate[i].config.address = Target(i)
    BY StaysOnMachine DEF Target
  <1>3. HostMatches(i)' <=> HostMatches(i)
    BY <1>2 DEF HostMatches
  <1> QED
    BY <1>1, <1>3 DEF History, RecordOfThePast, BeforeComparing, Source, NoOlder, NewerSources,
                      NewerSecrets, NewerBuilds

\* Diff, statement by statement.
LEMMA HistoryInDiff ==
    ASSUME HistoryIInv, Premises, NEW i \in Instances,
           \/ StartDiff(i) \/ DiffSecrets(i) \/ DiffSecretsFail(i) \/ DiffBuild(i)
           \/ DiffBuildCancelled(i) \/ DiffBuildFails(i) \/ DiffCompare(i)
    PROVE  History(i)'
  <1> USE DEF HistoryIInv, Premises
  <1>0. IInv /\ AttributesStay /\ Own(i) /\ History(i)
    BY DEF Own, Histories
  <1>1. /\ tfstate' = tfstate /\ host' = host
        /\ UNCHANGED <<revision, seen, content, command>>
    BY <1>0, OwnWorld DEF StartDiff, DiffSecrets, DiffSecretsFail, DiffBuild,
       DiffBuildCancelled, DiffBuildFails, DiffCompare, DropDiff
  <1>2. tfstate[i] # NoState =>
           /\ RecordOfThePast(i)'
           /\ HostMatches(i)' <=> HostMatches(i)
           /\ NewerSources(i)' <=> NewerSources(i)
           /\ NewerSecrets(i)' <=> NewerSecrets(i)
           /\ NewerBuilds(i)' <=> NewerBuilds(i)
           /\ BeforeComparing(i) => BeforeComparing(i)'
    BY <1>0, <1>1, RecordUntouched
  <1>t. /\ pc \in [Instances -> {"idle"} \cup Diffing \cup Applying]
        /\ plan \in [Instances -> Plan \cup {NoPlan}]
        /\ ctxDone \in [Instances -> BOOLEAN]
        /\ local \in [Instances -> Locals] /\ local[i] \in Locals
        /\ tfstate[i] \in Record \cup {NoState}
        /\ content \in Contents /\ seen \subseteq Revisions
    BY DEF IInv, TypeOK, InstTypeOK, MemoTypeOK
  <1>n. NoLocals.derivation = NoDerivation
    BY DEF NoLocals
  <1>d. i \in due' => i \in due
    BY <1>0, DueStep
  <1>p. pc[i] \in {"idle"} \cup Diffing
    BY DEF StartDiff, DiffSecrets, DiffSecretsFail, DiffBuild,
       DiffBuildCancelled, DiffBuildFails, DiffCompare, At, Diffing
  <1>3. CASE StartDiff(i)
    <2>1. /\ pc'[i] = "diffSecrets" /\ i \in due /\ i \notin due'
          /\ UNCHANGED <<plan, ctxDone, local>>
      BY <1>3, <1>t DEF StartDiff, Goto
    <2>2. ToCompare(i) /\ ToCompare(i)' /\ plan[i] = NoPlan
      BY <1>0, <2>1 DEF ToCompare, Diffing, History, Visit
    <2>3. Visit(i)' /\ OfThisProcess(i)'
      BY <1>0, <1>1, <2>1, <2>2 DEF History, Visit, OfThisProcess, Applying, Deploying, Diffing
    <2>4. tfstate[i] # NoState => BeforeComparing(i)'
      BY <1>0, <1>2, <2>2 DEF History
    <2> QED
      BY <1>1, <1>2, <2>1, <2>2, <2>3, <2>4 DEF History
  <1>4. CASE DiffSecrets(i)
    <2>1. /\ pc[i] = "diffSecrets" /\ pc'[i] = "diffBuild" /\ due' = due
          /\ UNCHANGED <<plan, ctxDone>>
          /\ local'[i].derivation = local[i].derivation
          /\ local'[i].changed = (tfstate[i] = NoState \/ tfstate[i].fingerprint # content)
      BY <1>4, <1>t DEF DiffSecrets, Goto, At, Locals, given
    <2>2. ToCompare(i) /\ ToCompare(i)' /\ plan[i] = NoPlan
      BY <1>0, <2>1 DEF ToCompare, Diffing, History, Visit
    <2>3. ASSUME tfstate[i] # NoState PROVE Verdict(i)'
      <3>1. local'[i].changed => NewerSecrets(i)
        BY <1>0, <2>1, <2>3 DEF History, RecordOfThePast, NoOlder, NewerSecrets
      <3>2. ~local'[i].changed => ~NewerSecrets(i)
        <4>1. Stage[content] \in Nat
          BY <1>t, Clocks
        <4>2. ASSUME ~local'[i].changed PROVE tfstate[i].fingerprint = content
          BY <2>1, <2>3, <4>2
        <4>3. ~(Stage[content] < Stage[content])
          BY <4>1
        <4> QED
          BY <4>2, <4>3 DEF NewerSecrets
      <3>3. HostMatches(i) \/ NewerBuilds(i) \/ NewerSecrets(i)
        BY <1>0, <2>2, <2>3 DEF History, BeforeComparing
      <3> QED
        BY <1>2, <2>3, <3>1, <3>2, <3>3 DEF Verdict
    <2>4. Visit(i)' /\ OfThisProcess(i)'
      BY <1>0, <1>1, <2>1, <2>2 DEF History, Visit, OfThisProcess, Applying, Deploying, Diffing
    <2> QED
      BY <1>0, <1>1, <1>2, <2>1, <2>2, <2>3, <2>4 DEF History
  <1>5. CASE DiffBuild(i)
    <2>1. /\ pc[i] = "diffBuild" /\ pc'[i] = "diffWait" /\ due' = due
          /\ UNCHANGED <<plan, ctxDone, local>>
      BY <1>5, <1>t DEF DiffBuild, Goto, At, given
    <2>2. ToCompare(i) /\ ToCompare(i)' /\ plan[i] = NoPlan
      BY <1>0, <2>1 DEF ToCompare, Diffing, History, Visit
    <2>3. tfstate[i] # NoState => Verdict(i)'
      BY <1>0, <1>2, <2>1 DEF History, Verdict
    <2>4. Visit(i)' /\ OfThisProcess(i)'
      BY <1>0, <1>1, <2>1, <2>2 DEF History, Visit, OfThisProcess, Applying, Deploying, Diffing
    <2> QED
      BY <1>0, <1>1, <1>2, <2>1, <2>2, <2>3, <2>4 DEF History
  <1>6. CASE DiffSecretsFail(i) \/ DiffBuildFails(i)
    <2>1. /\ pc[i] \in Diffing /\ pc'[i] = "idle" /\ due' = due
          /\ UNCHANGED plan /\ ~ctxDone'[i] /\ local'[i] = NoLocals
      BY <1>6, <1>t DEF DiffSecretsFail, DiffBuildFails, DropDiff, Finish, At, Diffing, given
    <2>2. plan[i] = NoPlan /\ i \notin due
      BY <1>0, <2>1 DEF ToCompare, Diffing, History, Visit
    <2>4. Visit(i)' /\ OfThisProcess(i)'
      BY <1>0, <1>1, <1>n, <2>1, <2>2
      DEF Visit, OfThisProcess, Applying, Deploying, Diffing, ToCompare
    <2> QED
      BY <1>0, <1>1, <1>2, <2>1, <2>2, <2>4 DEF History, ToCompare, Diffing
  <1>7. CASE DiffBuildCancelled(i)
    <2>1. /\ pc[i] = "diffBuild" /\ pc'[i] = "idle" /\ due' = due /\ ctxDone[i]
          /\ ~ctxDone'[i] /\ local'[i] = NoLocals
          /\ plan'[i] = [change |-> TRUE, built |-> NoDerivation]
      BY <1>7, <1>t DEF DiffBuildCancelled, Finish, At, Diffing, given
    <2>2. i \notin due /\ command # "plan"
      BY <1>0, <2>1 DEF ToCompare, Diffing, History, Visit
    <2>3. command = "apply"
      BY <2>2 DEF IInv, TypeOK, InstTypeOK
    <2>4. Visit(i)' /\ OfThisProcess(i)'
      BY <1>0, <1>1, <1>n, <2>1, <2>2
      DEF Visit, OfThisProcess, Applying, Deploying, Diffing, ToCompare
    <2>5. tfstate[i] # NoState => NewerSources(i) \/ NewerSecrets(i)
      BY <1>0, <2>1, <2>3 DEF History, ToCompare, Diffing, BeforeComparing
    <2>6. PlanIsRight(i)'
      BY <1>1, <1>2, <2>1, <2>5 DEF PlanIsRight
    <2> QED
      BY <1>0, <1>1, <1>2, <2>1, <2>2, <2>4, <2>6 DEF History, ToCompare, Diffing
  <1>8. CASE DiffCompare(i)
    <2>1. /\ pc[i] = "diffWait" /\ pc'[i] = "idle" /\ due' = due
          /\ ~ctxDone'[i] /\ local'[i] = NoLocals
          /\ plan'[i].change = (\/ local[i].changed
                               \/ tfstate[i] = NoState
                               \/ tfstate[i].config # wanted[i]
                               \/ tfstate[i].derivation # Reply(i))
      BY <1>8, <1>t DEF DiffCompare, Finish, At, given
    <2>2. i \notin due /\ plan[i] = NoPlan
      BY <1>0, <2>1 DEF ToCompare, Diffing, History, Visit
    <2>3. PICK rev \in seen : Reply(i) = Built(i, rev)
      BY <1>8, ReplyType, OwnBuild DEF DiffCompare, Reply
    <2>4. Visit(i)' /\ OfThisProcess(i)'
      BY <1>0, <1>1, <1>n, <2>1, <2>2
      DEF Visit, OfThisProcess, Applying, Deploying, Diffing, ToCompare
    <2>5. ASSUME tfstate[i] # NoState
          PROVE  /\ BeforeComparing(i) /\ RecordOfThePast(i) /\ Verdict(i)
                 /\ tfstate[i].config = wanted[i]
      BY <1>0, <2>1, <2>5, StaysOnMachine DEF History, ToCompare, Diffing
    <2>6. /\ Age[rev] \in Nat /\ Age[revision] \in Nat
          /\ tfstate[i] # NoState => Age[Source(i)] \in Nat
          /\ NoOlder(Age, revision, rev)
      BY <1>t, <2>3, <2>5, Clocks DEF IInv, TypeOK, MemoTypeOK, RecordOfThePast, Histories
    <2>7. ASSUME ~plan'[i].change PROVE tfstate[i] # NoState /\ HostMatches(i)
      <3>1. tfstate[i] # NoState /\ ~local[i].changed /\ tfstate[i].derivation = Reply(i)
        BY <2>1, <2>7
      <3>2. Source(i) = rev
        BY <2>3, <3>1 DEF Source, Built
      <3>3. ~NewerBuilds(i)
        BY <2>3, <2>6, <3>2 DEF NewerBuilds
      <3> QED
        BY <2>5, <3>1, <3>3 DEF Verdict
    <2>8. ASSUME plan'[i].change, tfstate[i] # NoState
          PROVE  NewerSources(i) \/ NewerSecrets(i)
      <3>1. CASE local[i].changed
        BY <2>5, <2>8, <3>1 DEF Verdict
      <3>2. CASE tfstate[i].derivation # Reply(i)
        <4>1. Source(i) # rev
          BY <2>3, <2>5, <2>8, <3>2 DEF RecordOfThePast
        <4>2. Age[Source(i)] < Age[rev]
          BY <2>3, <2>5, <2>8, <4>1 DEF BeforeComparing, NoOlder
        <4> QED
          BY <2>6, <2>8, <4>2 DEF NoOlder, NewerSources
      <3> QED
        BY <2>1, <2>5, <2>8, <3>1, <3>2
    <2>9. PlanIsRight(i)'
      BY <1>1, <1>2, <2>7, <2>8 DEF PlanIsRight
    <2> QED
      BY <1>0, <1>1, <1>2, <2>1, <2>2, <2>4, <2>9 DEF History, ToCompare, Diffing
  <1> QED
    BY <1>3, <1>4, <1>5, <1>6, <1>7, <1>8

\* An apply that has not succeeded leaves the recorded derivation and secrets.
LEMMA ApplyStep ==
    ASSUME IInv, NEW i \in Instances, Own(i), pc[i] \in Applying, ~RecordApply(i)
    PROVE  /\ \/ pc'[i] \in Applying /\ plan'[i] = plan[i]
              \/ pc'[i] = "idle" /\ plan'[i] = NoPlan
           /\ tfstate'[i] # NoState =>
                 /\ tfstate[i] # NoState
                 /\ tfstate'[i].derivation = tfstate[i].derivation
                 /\ tfstate'[i].fingerprint = tfstate[i].fingerprint
  <1> USE DEF IInv, TypeOK, InstTypeOK, At, Goto, Applying, Deploying
  <1>r. tfstate[i] \in Record \cup {NoState}
    OBVIOUS
  <1>f. ASSUME Fail(i)
        PROVE  /\ pc'[i] = "idle" /\ plan'[i] = NoPlan
               /\ tfstate'[i] # NoState =>
                     /\ tfstate[i] # NoState
                     /\ tfstate'[i].derivation = tfstate[i].derivation
                     /\ tfstate'[i].fingerprint = tfstate[i].fingerprint
    BY <1>f, <1>r DEF Fail, Finish, Record
  <1>y. ASSUME RetryOrFail(i), ~Fail(i)
        PROVE  pc'[i] = "copy" /\ UNCHANGED <<plan, tfstate>>
    BY <1>y DEF RetryOrFail
  <1>1. CASE Build(i) \/ BuildCancelled(i) \/ BuildReturns(i) \/ ReadSecrets(i) \/ CopySecrets(i)
             \/ PushOutput(i) \/ PushReturns(i) \/ Install(i) \/ Activate(i)
    BY <1>1 DEF Build, BuildCancelled, BuildReturns, ReadSecrets, CopySecrets, PushOutput,
                PushReturns, Install, Activate
  <1>2. CASE BuildFails(i) \/ ReadSecretsFail(i) \/ InstallFails(i) \/ SwitchRefuses(i)
             \/ ActivateFails(i)
    BY <1>2, <1>f DEF BuildFails, ReadSecretsFail, InstallFails, SwitchRefuses, ActivateFails
  <1>3. CASE CopySecretsFail(i) \/ PushFails(i)
    BY <1>3, <1>f, <1>y DEF CopySecretsFail, PushFails
  <1>4. CASE CtxDone(i) \/ MemoStep(i)
    BY <1>4 DEF CtxDone, MemoStep, instVars
  <1>5. CASE StartDiff(i) \/ DiffSecrets(i) \/ DiffSecretsFail(i) \/ DiffBuild(i)
             \/ DiffBuildCancelled(i) \/ DiffBuildFails(i) \/ DiffCompare(i) \/ StartApply(i)
             \/ Destroy(i) \/ EditConfig(i)
    BY <1>5 DEF StartDiff, DiffSecrets, DiffSecretsFail, DiffBuild, DiffBuildCancelled,
           DiffBuildFails, DiffCompare, StartApply, Destroy, EditConfig
  <1> QED
    BY <1>1, <1>2, <1>3, <1>4, <1>5 DEF Own

\* What Create works with keeps its origin.
LEMMA OfThisProcessStep ==
    ASSUME HistoryIInv, Premises, NEW i \in Instances, Own(i)
    PROVE  OfThisProcess(i)'
  <1> USE DEF HistoryIInv, Premises
  <1>0. OfThisProcess(i) /\ UNCHANGED <<seen, content>>
    BY OwnWorld DEF Histories, History
  <1> USE DEF IInv, TypeOK, InstTypeOK
  <1>l. local[i] \in Locals /\ NoLocals.derivation = NoDerivation
    BY DEF NoLocals
  <1>1. local'[i].derivation # NoDerivation =>
           \E rev \in seen : local'[i].derivation = Built(i, rev)
    <2>1. CASE BuildReturns(i)
      <3>1. local'[i].derivation = Reply(i) /\ output[i] \in Derivation /\ Reply(i) = output[i]
        BY <2>1, ReplyType DEF BuildReturns, Locals, Reply
      <3> QED
        BY <3>1, OwnBuild
    <2>2. CASE DiffCompare(i) \/ RecordApply(i)
      BY <1>l, <2>2 DEF DiffCompare, RecordApply, Finish
    <2>3. CASE ~BuildReturns(i) /\ ~DiffCompare(i) /\ ~RecordApply(i)
      <3>1. local'[i].derivation \in {local[i].derivation, NoDerivation}
        BY <2>3, NothingNew
      <3> QED
        BY <1>0, <3>1 DEF OfThisProcess
    <2> QED
      BY <2>1, <2>2, <2>3
  <1>2. pc'[i] \in Deploying \ {"secrets"} => NoOlder(Stage, content, local'[i].data)
    <2> SUFFICES ASSUME pc'[i] \in Deploying \ {"secrets"}
                 PROVE  NoOlder(Stage, content, local'[i].data)
      OBVIOUS
    <2> USE DEF At, Goto, Deploying, Diffing, Applying
    <2>f. ~Fail(i) /\ ~Finish(i)
      BY DEF Fail, Finish
    <2>1. CASE ReadSecrets(i)
      BY <1>l, <2>1 DEF ReadSecrets, Locals, NoOlder
    <2>2. CASE BuildReturns(i) \/ Build(i) \/ BuildCancelled(i) \/ StartApply(i)
               \/ StartDiff(i) \/ DiffSecrets(i) \/ DiffBuild(i) \/ DiffSecretsFail(i)
               \/ DiffBuildFails(i) \/ DiffBuildCancelled(i) \/ DiffCompare(i)
      BY <2>2, <2>f DEF BuildReturns, Build, BuildCancelled, StartApply, StartDiff, DiffSecrets,
            DiffBuild, DiffSecretsFail, DiffBuildFails, DiffBuildCancelled, DiffCompare, DropDiff
    <2>3. CASE BuildFails(i) \/ ReadSecretsFail(i) \/ InstallFails(i) \/ SwitchRefuses(i)
               \/ ActivateFails(i) \/ RecordApply(i)
      BY <2>3, <2>f DEF BuildFails, ReadSecretsFail, InstallFails, SwitchRefuses, ActivateFails,
                        RecordApply
    <2>4. ASSUME CopySecrets(i) \/ CopySecretsFail(i) \/ PushOutput(i) \/ PushFails(i)
                 \/ PushReturns(i) \/ Install(i) \/ Activate(i)
          PROVE  pc[i] \in Deploying \ {"secrets"} /\ local'[i].data = local[i].data
      BY <1>l, <2>4, <2>f DEF CopySecrets, CopySecretsFail, PushOutput, PushFails, PushReturns,
                        Install, Activate, RetryOrFail, Locals
    <2>5. ASSUME Destroy(i) \/ CtxDone(i) \/ MemoStep(i) \/ EditConfig(i)
          PROVE  pc[i] \in Deploying \ {"secrets"} /\ local'[i].data = local[i].data
      BY <2>5 DEF Destroy, CtxDone, MemoStep, EditConfig, instVars
    <2> QED
      BY <1>0, <2>1, <2>2, <2>3, <2>4, <2>5 DEF Own, OfThisProcess
  <1> QED
    BY <1>0, <1>1, <1>2 DEF OfThisProcess

\* Create up to its record: it goes on, or it fails and leaves a machine that
\* may not be as recorded, and sources or secrets that are newer than the record.
LEMMA HistoryInCreate ==
    ASSUME HistoryIInv, IInv', Premises, NEW i \in Instances, Own(i), pc[i] \in Applying,
           ~RecordApply(i)
    PROVE  History(i)'
  <1> USE DEF HistoryIInv, Premises
  <1>0. IInv /\ History(i)
    BY DEF Histories
  <1>1. UNCHANGED <<revision, seen, content, command>>
    BY OwnWorld
  <1>2. /\ \/ pc'[i] \in Applying /\ plan'[i] = plan[i]
           \/ pc'[i] = "idle" /\ plan'[i] = NoPlan
        /\ tfstate'[i] # NoState =>
              /\ tfstate[i] # NoState
              /\ tfstate'[i].derivation = tfstate[i].derivation
              /\ tfstate'[i].fingerprint = tfstate[i].fingerprint
    BY ApplyStep
  <1>3. command = "apply" /\ i \notin due
    BY <1>0 DEF History, Visit, IInv, TypeOK, InstTypeOK, Applying, Deploying
  <1>4. i \notin due'
    BY <1>3, DueStep
  <1>5. plan[i] # NoPlan /\ plan[i].change
    BY <1>0 DEF History, Visit
  <1>6. tfstate[i] # NoState => NewerSources(i) \/ NewerSecrets(i)
    BY <1>0, <1>5 DEF History, PlanIsRight
  <1>7. pc'[i] \notin Diffing
    BY <1>2 DEF Diffing, Applying, Deploying
  <1>8. Visit(i)'
    BY <1>1, <1>2, <1>3, <1>4, <1>5, <1>7 DEF Visit, ToCompare, Applying, Deploying
  <1>9. OfThisProcess(i)'
    BY OfThisProcessStep
  <1>10. ASSUME tfstate'[i] # NoState
         PROVE  RecordOfThePast(i)' /\ (NewerSources(i)' \/ NewerSecrets(i)')
    BY <1>0, <1>1, <1>2, <1>6, <1>10
       DEF History, RecordOfThePast, Source, NoOlder, NewerSources, NewerSecrets
  <1>11. plan'[i] # NoPlan => PlanIsRight(i)'
    BY <1>2, <1>5, <1>10 DEF PlanIsRight
  <1> QED
    BY <1>4, <1>7, <1>8, <1>9, <1>10, <1>11 DEF History, ToCompare, Diffing

\* The record of a successful apply is of what this process has built and read.
LEMMA HistoryInRecord ==
    ASSUME HistoryIInv, IInv', Premises, NEW i \in Instances, RecordApply(i)
    PROVE  History(i)'
  <1> USE DEF HistoryIInv, Premises
  <1>0. IInv /\ History(i) /\ Own(i)
    BY DEF Histories, Own
  <1>1. UNCHANGED <<revision, seen, content, command>>
    BY <1>0, OwnWorld
  <1>2. /\ pc[i] = "record" /\ pc'[i] = "idle" /\ plan'[i] = NoPlan /\ diag'[i] = "ok"
        /\ due' = due
        /\ tfstate'[i].derivation = local[i].derivation
        /\ tfstate'[i].fingerprint = local[i].data
    BY DEF RecordApply, At, Finish, given, IInv, TypeOK, InstTypeOK
  <1>3. command = "apply" /\ i \notin due
    BY <1>0, <1>2 DEF History, Visit, IInv, TypeOK, InstTypeOK, Applying, Deploying
  <1>4. Visit(i)' /\ OfThisProcess(i)'
    BY <1>0, <1>1, <1>2, <1>3, OfThisProcessStep DEF Visit, ToCompare, Applying, Deploying, Diffing
  <1>5. HostMatches(i)'
    BY <1>2 DEF IInv, DeployInvariant, RecordPhase
  <1>6. local[i].derivation # NoDerivation
    BY <1>2 DEF IInv, DeployInvariant, DeployPhase
  <1>7. PICK rev \in seen : local[i].derivation = Built(i, rev)
    BY <1>0, <1>6 DEF History, OfThisProcess
  <1>8. Source(i)' = rev /\ rev \in Revisions /\ NoOlder(Age, revision, rev)
    BY <1>2, <1>7 DEF Source, Built, IInv, TypeOK, MemoTypeOK, Histories
  <1>9. NoOlder(Stage, content, local[i].data)
    BY <1>0, <1>2 DEF History, OfThisProcess, Deploying
  <1>10. RecordOfThePast(i)'
    BY <1>1, <1>2, <1>5, <1>7, <1>8, <1>9 DEF RecordOfThePast, NoOlder
  <1> QED
    BY <1>2, <1>3, <1>4, <1>10 DEF History, ToCompare, Diffing

\* The remaining steps of an instance: between Diff and Create, the user's, the
\* build's and the end of a context.
LEMMA HistoryBetween ==
    ASSUME HistoryIInv, Premises, NEW i \in Instances, pc[i] \notin Applying,
           StartApply(i) \/ Destroy(i) \/ CtxDone(i) \/ MemoStep(i) \/ EditConfig(i)
    PROVE  History(i)'
  <1> USE DEF HistoryIInv, Premises
  <1>0. IInv /\ History(i) /\ Own(i)
    BY DEF Histories, Own
  <1>1. UNCHANGED <<revision, seen, content, command, plan, local, host>>
    BY <1>0, OwnWorld DEF StartApply, Destroy, CtxDone, MemoStep, EditConfig, instVars
  <1>2. due' = due
    BY <1>0, DueStep DEF StartApply, Destroy, CtxDone, MemoStep, EditConfig, instVars, given
  <1>3. OfThisProcess(i)'
    BY <1>0, OfThisProcessStep
  <1>4. ~EditConfig(i)
    BY ConfigAssumption DEF EditConfig, IInv, TypeOK, InstTypeOK, AttributesStay
  <1>5. CASE StartApply(i)
    <2>1. /\ pc[i] = "idle" /\ pc'[i] = "build" /\ command = "apply" /\ ctxDone' = ctxDone
          /\ plan[i] # NoPlan /\ plan[i].change /\ tfstate' = tfstate
      BY <1>5 DEF StartApply, At, Goto, IInv, TypeOK, InstTypeOK
    <2>2. i \notin due
      BY <1>0, <2>1 DEF History, Visit, ToCompare
    <2>3. Visit(i)'
      BY <1>0, <1>1, <1>2, <2>1, <2>2 DEF Visit, ToCompare, Diffing
    <2>4. tfstate[i] # NoState =>
             /\ RecordOfThePast(i)'
             /\ NewerSources(i)' <=> NewerSources(i)
             /\ NewerSecrets(i)' <=> NewerSecrets(i)
      BY <1>0, <1>1, <2>1, RecordUntouched
    <2>5. PlanIsRight(i)'
      BY <1>0, <1>1, <2>1, <2>4 DEF History, PlanIsRight
    <2> QED
      BY <1>1, <1>2, <1>3, <2>1, <2>2, <2>3, <2>4, <2>5 DEF History, ToCompare, Diffing
  <1>6. CASE Destroy(i)
    <2>1. /\ pc' = pc /\ ctxDone' = ctxDone /\ i \in due /\ tfstate'[i] = NoState
      BY <1>6 DEF Destroy, IInv, TypeOK, InstTypeOK
    <2>2. plan[i] = NoPlan
      BY <1>0, <2>1 DEF History, Visit, ToCompare
    <2>3. Visit(i)'
      BY <1>0, <1>1, <1>2, <2>1 DEF History, Visit, ToCompare
    <2> QED
      BY <1>1, <1>3, <2>1, <2>2, <2>3 DEF History
  <1>7. CASE CtxDone(i) \/ MemoStep(i)
    <2>1. /\ pc' = pc /\ tfstate' = tfstate
          /\ command = "plan" => ctxDone' = ctxDone
      BY <1>7 DEF CtxDone, MemoStep, instVars
    <2>2. Visit(i)'
      BY <1>0, <1>1, <1>2, <2>1 DEF History, Visit, ToCompare
    <2>3. tfstate[i] # NoState =>
             /\ RecordOfThePast(i)'
             /\ HostMatches(i)' <=> HostMatches(i)
             /\ NewerSources(i)' <=> NewerSources(i)
             /\ NewerSecrets(i)' <=> NewerSecrets(i)
             /\ NewerBuilds(i)' <=> NewerBuilds(i)
             /\ BeforeComparing(i) => BeforeComparing(i)'
      BY <1>0, <1>1, <2>1, RecordUntouched
    <2>4. ASSUME tfstate[i] # NoState
          PROVE  /\ ToCompare(i)' => BeforeComparing(i)'
                 /\ pc'[i] \in {"diffBuild", "diffWait"} => Verdict(i)'
      BY <1>0, <1>1, <1>2, <2>1, <2>3, <2>4 DEF History, ToCompare, Verdict
    <2>5. plan[i] # NoPlan => PlanIsRight(i)'
      BY <1>0, <1>1, <2>1, <2>3 DEF History, PlanIsRight
    <2> QED
      BY <1>1, <1>3, <2>1, <2>2, <2>3, <2>4, <2>5 DEF History
  <1> QED
    BY <1>4, <1>5, <1>6, <1>7

\* A step of the instance itself ...
LEMMA OwnHistory ==
    ASSUME HistoryIInv, IInv', Premises, NEW i \in Instances, Own(i)
    PROVE  History(i)'
  <1>1. CASE pc[i] \in Applying /\ ~RecordApply(i)
    BY <1>1, HistoryInCreate
  <1>2. CASE RecordApply(i)
    BY <1>2, HistoryInRecord
  <1>3. CASE pc[i] \notin Applying /\ ~RecordApply(i)
    <2>1. \/ StartDiff(i) \/ DiffSecrets(i) \/ DiffSecretsFail(i) \/ DiffBuild(i)
          \/ DiffBuildCancelled(i) \/ DiffBuildFails(i) \/ DiffCompare(i)
          \/ StartApply(i) \/ Destroy(i) \/ CtxDone(i) \/ MemoStep(i) \/ EditConfig(i)
      BY <1>3 DEF Own, Build, BuildCancelled, BuildFails, BuildReturns, ReadSecrets,
         ReadSecretsFail, CopySecrets, CopySecretsFail, PushOutput, PushFails, PushReturns,
         Install, InstallFails, SwitchRefuses, Activate, ActivateFails, At, Applying, Deploying
    <2> QED
      BY <1>3, <2>1, HistoryInDiff, HistoryBetween
  <1> QED
    BY <1>1, <1>2, <1>3

\* A new process finds the machines as the records say, or sources or secrets
\* that are newer; and an apply is for instances whose plan said so.
LEMMA HistoryInNewProcess ==
    ASSUME HistoryIInv, Premises, NEW i \in Instances, NewPlan \/ Approve
    PROVE  History(i)'
  <1> USE DEF HistoryIInv, Premises
  <1>0. IInv /\ History(i)
    BY DEF Histories
  <1>1. /\ NewProcess /\ UNCHANGED <<revision, content>> /\ seen' = {revision}
        /\ tfstate' = tfstate /\ host' = host /\ ctxDone'[i] = FALSE
    BY DEF NewPlan, Approve, NewProcess, MemoRestart
  <1>2. plan'[i] = NoPlan /\ local'[i] = NoLocals /\ pc'[i] = "idle"
    BY <1>1, NewProcessBuilds
  <1>3. \/ command' = "plan"
        \/ command' = "apply" /\ due' = Changes
    BY DEF NewPlan, Approve
  <1>4. Visit(i)' /\ OfThisProcess(i)'
    BY <1>1, <1>2 DEF Visit, OfThisProcess, NoLocals, Applying, Deploying
  <1>5. ASSUME tfstate[i] # NoState
        PROVE  RecordOfThePast(i)' /\ (i \in due' => BeforeComparing(i)')
    <2>1. RecordOfThePast(i)
      BY <1>0, <1>5 DEF History
    <2>2. /\ HostMatches(i)' <=> HostMatches(i)
          /\ NewerSources(i)' <=> NewerSources(i)
          /\ NewerSecrets(i)' <=> NewerSecrets(i)
          /\ NewerBuilds(i)' <=> NewerSources(i)
      BY <1>1 DEF HostMatches, NewerSources, NewerSecrets, NewerBuilds, Source
    <2>3. RecordOfThePast(i)' /\ \A rev \in seen' : NoOlder(Age, rev, Source(i)')
      BY <1>1, <2>1, <2>2 DEF RecordOfThePast, NoOlder, Source
    <2>4. command' = "apply" /\ i \in due' => NewerSources(i) \/ NewerSecrets(i)
      BY <1>0, <1>3, <1>5 DEF Changes, History, PlanIsRight
    <2>5. HostMatches(i)' \/ NewerBuilds(i)' \/ NewerSecrets(i)'
      BY <2>1, <2>2 DEF RecordOfThePast
    <2>6. command' = "apply" /\ i \in due' => NewerSources(i)' \/ NewerSecrets(i)'
      BY <2>2, <2>4
    <2> QED
      BY <2>3, <2>5, <2>6 DEF BeforeComparing
  <1> QED
    BY <1>1, <1>2, <1>4, <1>5 DEF History, ToCompare, Diffing

\* Time passes: no edit makes anything older than it was.
LEMMA HistoryInEdit ==
    ASSUME HistoryIInv, Premises, NEW i \in Instances, EditNix \/ EditSecret
    PROVE  History(i)'
  <1> USE DEF HistoryIInv, Premises
  <1>0. IInv /\ History(i)
    BY DEF Histories
  <1>1. UNCHANGED <<command, due, tfstate, plan, diag, pc, ctxDone, local, host>>
    BY DEF EditNix, EditSecret, instVars, given
  <1>c. /\ Age \in [Revisions -> Nat] /\ Stage \in [Contents -> Nat]
        /\ revision \in Revisions /\ seen \subseteq Revisions /\ content \in Contents
        /\ revision' \in Revisions /\ content' \in Contents
        /\ tfstate[i] # NoState => tfstate[i].fingerprint \in Contents
        /\ pc[i] \in Deploying \ {"secrets"} => local[i].data \in Contents
    BY <1>0, Clocks DEF IInv, TypeOK, InstTypeOK, MemoTypeOK, Record, EditNix, EditSource,
       EditSecret, memoVars, instVars, given, DeployInvariant, DeployPhase, Deploying
  <1>2. \/ revision' = revision /\ seen' = seen
        \/ Age[revision] < Age[revision'] /\ seen' = seen \cup {revision'}
    <2>1. CASE EditNix
      <3>1. PICK new \in Revisions : /\ <<revision, new>> \in Edits
                                    /\ revision' = new /\ seen' = seen \cup {new}
        BY <2>1 DEF EditNix, EditSource
      <3>2. Age[revision] < Age[new]
        BY <3>1, Clocks DEF GoesForward
      <3> QED
        BY <3>1, <3>2
    <2>2. CASE EditSecret
      BY <2>2 DEF EditSecret, memoVars
    <2> QED
      BY <2>1, <2>2
  <1>3. content' = content \/ Stage[content] < Stage[content']
    BY Clocks DEF EditNix, EditSecret, instVars, given, GoesForward
  <1>4. Visit(i)'
    BY <1>0, <1>1 DEF History, Visit, ToCompare
  <1>5. OfThisProcess(i)'
    BY <1>0, <1>1, <1>2, <1>3, <1>c DEF History, OfThisProcess, NoOlder
  <1>6. ASSUME tfstate[i] # NoState, Source(i) \in Revisions
        PROVE  /\ NewerSources(i) => NewerSources(i)'
               /\ NewerSecrets(i) => NewerSecrets(i)'
               /\ NoOlder(Age, revision, Source(i)) => NoOlder(Age, revision', Source(i))
               /\ NoOlder(Stage, content, tfstate[i].fingerprint) =>
                     NoOlder(Stage, content', tfstate[i].fingerprint)
    BY <1>1, <1>2, <1>3, <1>6, <1>c DEF NewerSources, NewerSecrets, NoOlder, Source
  <1>7. ASSUME tfstate[i] # NoState, Source(i) \in Revisions, NoOlder(Age, revision, Source(i))
        PROVE  /\ NewerBuilds(i) => NewerBuilds(i)'
               /\ (\A rev \in seen : NoOlder(Age, rev, Source(i))) =>
                     \A rev \in seen' : NoOlder(Age, rev, Source(i))
    <2>1. NoOlder(Age, revision', Source(i)) /\ Age[Source(i)] \in Nat /\ Age[revision] \in Nat
      BY <1>6, <1>7, <1>c
    <2>2. /\ seen \subseteq seen'
          /\ \A rev \in seen' \ seen : rev = revision' /\ Age[Source(i)] < Age[rev]
      <3>1. CASE revision' = revision /\ seen' = seen
        BY <3>1
      <3>2. CASE Age[revision] < Age[revision'] /\ seen' = seen \cup {revision'}
        <4>1. Source(i) = revision \/ Age[Source(i)] < Age[revision]
          BY <1>7 DEF NoOlder
        <4>2. Age[revision'] \in Nat
          BY <1>c
        <4>3. Age[Source(i)] < Age[revision']
          BY <2>1, <3>2, <4>1, <4>2
        <4> QED BY <3>2, <4>3
      <3> QED BY <1>2, <3>1, <3>2
    <2>3. NewerBuilds(i) => NewerBuilds(i)'
      BY <1>1, <2>2 DEF NewerBuilds, Source
    <2>4. (\A rev \in seen : NoOlder(Age, rev, Source(i))) =>
             \A rev \in seen' : NoOlder(Age, rev, Source(i))
      BY <2>1, <2>2
    <2> QED
      BY <2>3, <2>4
  <1>8. tfstate[i] # NoState => (HostMatches(i)' <=> HostMatches(i)) /\ Source(i)' = Source(i)
    BY <1>1 DEF HostMatches, Source
  <1>9. ASSUME tfstate[i] # NoState
        PROVE  /\ RecordOfThePast(i)'
               /\ ToCompare(i)' => BeforeComparing(i)'
               /\ pc'[i] \in {"diffBuild", "diffWait"} => Verdict(i)'
    <2>1. RecordOfThePast(i)
      BY <1>0, <1>9 DEF History
    <2>2. RecordOfThePast(i)'
      BY <1>1, <1>6, <1>8, <1>9, <2>1 DEF RecordOfThePast
    <2>3. BeforeComparing(i) => BeforeComparing(i)'
      BY <1>1, <1>6, <1>7, <1>8, <1>9, <2>1 DEF BeforeComparing, RecordOfThePast
    <2>4. Verdict(i) => Verdict(i)'
      BY <1>1, <1>6, <1>7, <1>8, <1>9, <2>1 DEF Verdict, RecordOfThePast
    <2> QED
      BY <1>0, <1>1, <1>9, <2>2, <2>3, <2>4 DEF History, ToCompare
  <1>10. ASSUME plan[i] # NoPlan PROVE PlanIsRight(i)'
    <2>1. tfstate[i] # NoState => Source(i) \in Revisions
      BY <1>0 DEF History, RecordOfThePast
    <2> QED
      BY <1>0, <1>1, <1>6, <1>8, <1>10, <2>1 DEF History, PlanIsRight
  <1> QED
    BY <1>1, <1>4, <1>5, <1>9, <1>10 DEF History

\* What the process has seen is no newer than what there is.
LEMMA SeenIsPast ==
    ASSUME MemoTypeOK, NeverBack, [MemoNext]_memoVars,
           \A rev \in seen : NoOlder(Age, revision, rev)
    PROVE  (\A rev \in seen : NoOlder(Age, revision, rev))'
  <1>1. CASE EditSource
    <2>1. PICK new \in Revisions : /\ <<revision, new>> \in Edits /\ revision' = new
                                   /\ seen' = seen \cup {new}
      BY <1>1 DEF EditSource
    <2>2. Age[revision] < Age[new]
      BY <2>1, Clocks DEF GoesForward
    <2>3. Age \in [Revisions -> Nat] /\ revision \in Revisions /\ seen \subseteq Revisions
      BY Clocks DEF MemoTypeOK
    <2> QED
      BY <2>1, <2>2, <2>3 DEF NoOlder
  <1>2. CASE MemoRestart
    BY <1>2 DEF MemoRestart, NoOlder
  <1>3. CASE \E i \in Instances : Request(i) \/ CallStep(i) \/ Return(i)
    <2>1. UNCHANGED <<revision, seen>>
      BY <1>3 DEF Request, CallStep, Return, LookupHit, LookupMiss, Execute, ExecuteMalformed,
                  ExecuteFails, Publish
    <2> QED
      BY <2>1 DEF NoOlder
  <1>4. CASE UNCHANGED memoVars
    BY <1>4 DEF memoVars, NoOlder
  <1> QED
    BY <1>1, <1>2, <1>3, <1>4 DEF MemoNext

\* ... and every other one keeps the histories.
LEMMA HistoriesStep ==
    ASSUME HistoryIInv, IInv', Premises, [Next]_vars
    PROVE  Histories'
  <1>0. (\A rev \in seen : NoOlder(Age, revision, rev))'
    BY StepUsesMemo, SeenIsPast DEF HistoryIInv, Premises, Histories, IInv, TypeOK
  <1> SUFFICES ASSUME NEW i \in Instances PROVE History(i)'
    BY <1>0 DEF Histories
  <1>1. ASSUME NEW j \in Instances, Own(j) PROVE History(i)'
    <2>1. CASE j = i
      BY <1>1, <2>1, OwnHistory
    <2>2. CASE j # i
      BY <1>1, <2>2, OthersHistory DEF HistoryIInv, Premises, Histories
    <2> QED
      BY <2>1, <2>2
  <1>2. CASE NewPlan \/ Approve
    BY <1>2, HistoryInNewProcess
  <1>3. CASE EditNix \/ EditSecret
    BY <1>3, HistoryInEdit
  <1>4. CASE UNCHANGED vars
    <2>1. UNCHANGED <<revision, seen, content, command, due, tfstate, plan, pc, ctxDone,
                      local, host>>
      BY <1>4 DEF vars, memoVars, instVars, given
    <2> QED
      BY <2>1 DEF HistoryIInv, Histories, History, Visit, OfThisProcess, RecordOfThePast,
         BeforeComparing, Verdict, PlanIsRight, ToCompare, HostMatches, Source, NoOlder,
         NewerSources, NewerSecrets, NewerBuilds
  <1>5. ASSUME NEW j \in Instances, Step(j) \/ User(j) \/ CtxDone(j)
        PROVE  Own(j) \/ NewPlan
    BY <1>5 DEF Step, Progress, Failure, User, Own, SwitchPanics
  <1> QED
    BY <1>1, <1>2, <1>3, <1>4, <1>5 DEF Next, ProcessExit, Crash

\* A plan without changes is right, as long as attributes stay and edits never
\* go back: whatever failed, was cancelled, interrupted or torn, the record
\* does not hide from Diff that the machine differs (instance.go:120-173, 254).
THEOREM NoopsAreInSync ==
    ASSUME KeyDeterminesInput, AttributesStay, NeverBack
    PROVE  Spec => []NoopMeansInSync
  <1> USE DEF Premises
  <1>1. Init => Histories
    <2> SUFFICES ASSUME Init PROVE Histories
      OBVIOUS
    <2>1. ASSUME NEW i \in Instances PROVE History(i)
      BY <2>1 DEF Init, History, Visit, OfThisProcess, ToCompare, NoLocals, Diffing,
                  Applying, Deploying
    <2> QED
      BY <2>1 DEF Init, MemoInit, Histories, NoOlder
  <1>2. IInv /\ IInv' /\ MemoIInv /\ Histories /\ [Next]_vars => Histories'
    BY HistoriesStep DEF HistoryIInv
  <1>3. Histories => NoopMeansInSync
    BY DEF Histories, History, PlanIsRight, NoopMeansInSync
  <1>4. Spec => []MemoIInv
    BY InstanceUsesMemo, MemoInductive, PTL
  <1> QED
    BY <1>1, <1>2, <1>3, <1>4, Inductive, PTL DEF Spec
-----------------------------------------------------------------------------
(* What stays in order: what is behind Converges.                           *)

\* The instance is recorded as it is wanted now, its machine is as recorded,
\* and the process neither works on it nor is going to.
Settled(i) ==
    /\ seen = {revision}
    /\ tfstate[i] = [config      |-> wanted[i],
                     derivation  |-> Built(i, revision),
                     fingerprint |-> content]
    /\ HostMatches(i)
    /\ plan[i] = NoPlan \/ ~plan[i].change
    /\ pc[i] \in {"idle"} \cup Diffing
    /\ pc[i] \in {"diffBuild", "diffWait"} => ~local[i].changed
    /\ ~ctxDone[i]
    /\ command = "apply" => pc[i] = "idle" /\ i \notin due

\* What the user does on purpose.
Edited(i) == EditNix \/ EditSecret \/ EditConfig(i) \/ Destroy(i)

StaysSettled ==
    [][ \A i \in Instances : Settled(i) /\ ~Edited(i) => Settled(i)' ]_vars

Settles ==
    [][ \A i \in Instances :
            RecordApply(i) /\ seen = {revision} /\ local[i].data = content => Settled(i)' ]_vars

\* An instance the command has not visited is untouched; what an apply has
\* built it built in this process.
Fresh(i) ==
    /\ i \in due => pc[i] = "idle" /\ plan[i] = NoPlan
    /\ local[i].derivation # NoDerivation =>
          \E rev \in seen : local[i].derivation = Built(i, rev)

AllFresh == \A i \in Instances : Fresh(i)

\* A step of the instance's own keeps it fresh ...
LEMMA OwnFresh ==
    ASSUME KeyDeterminesInput, IInv, MemoIInv, NEW i \in Instances, Own(i), Fresh(i)
    PROVE  Fresh(i)'
  <1> USE DEF IInv, TypeOK, InstTypeOK
  <1>0. UNCHANGED <<revision, seen, content, command>>
    BY OwnWorld
  <1>1. i \in due' => pc'[i] = "idle" /\ plan'[i] = NoPlan
    <2> SUFFICES ASSUME i \in due' PROVE pc'[i] = "idle" /\ plan'[i] = NoPlan
      OBVIOUS
    <2>1. i \in due /\ ~StartDiff(i)
      BY DueStep
    <2>2. pc[i] = "idle" /\ plan[i] = NoPlan
      BY <2>1 DEF Fresh
    <2>3. \/ Destroy(i) \/ EditConfig(i) \/ MemoStep(i)
      BY <2>1, <2>2
         DEF At, Own, DiffSecrets, DiffSecretsFail, DiffBuild, DiffBuildCancelled,
             DiffBuildFails, DiffCompare, StartApply, Build, BuildCancelled, BuildFails,
             BuildReturns, ReadSecrets, ReadSecretsFail, CopySecrets, CopySecretsFail,
             PushOutput, PushFails, PushReturns, Install, InstallFails, SwitchRefuses,
             Activate, ActivateFails, RecordApply, CtxDone
    <2> QED
      BY <2>2, <2>3 DEF Destroy, EditConfig, MemoStep, instVars
  <1>l. local[i] \in Locals /\ NoLocals.derivation = NoDerivation
    BY DEF NoLocals
  <1>2. local'[i].derivation # NoDerivation =>
           \E rev \in seen : local'[i].derivation = Built(i, rev)
    <2>1. CASE BuildReturns(i)
      <3>1. local'[i].derivation = Reply(i) /\ output[i] \in Derivation /\ Reply(i) = output[i]
        BY <2>1, ReplyType DEF BuildReturns, Locals, Reply
      <3> QED
        BY <3>1, OwnBuild
    <2>2. CASE DiffCompare(i) \/ RecordApply(i)
      BY <1>l, <2>2 DEF DiffCompare, RecordApply, Finish
    <2>3. CASE ~BuildReturns(i) /\ ~DiffCompare(i) /\ ~RecordApply(i)
      <3>1. local'[i].derivation \in {local[i].derivation, NoDerivation}
        BY <2>3, NothingNew
      <3> QED
        BY <3>1 DEF Fresh
    <2> QED
      BY <2>1, <2>2, <2>3
  <1> QED
    BY <1>0, <1>1, <1>2 DEF Fresh

\* ... and so does every other one.
LEMMA AlwaysFresh ==
    ASSUME KeyDeterminesInput
    PROVE  Spec => []AllFresh
  <1>1. Init => AllFresh
    <2> SUFFICES ASSUME Init, NEW i \in Instances PROVE Fresh(i)
      BY DEF AllFresh
    <2> QED
      BY DEF Init, Fresh, NoLocals
  <1>2. IInv /\ MemoIInv /\ AllFresh /\ [Next]_vars => AllFresh'
    <2> SUFFICES ASSUME IInv, MemoIInv, AllFresh, [Next]_vars, NEW i \in Instances
                 PROVE  Fresh(i)'
      BY DEF AllFresh
    <2>0. Fresh(i)
      BY DEF AllFresh
    <2>1. ASSUME NEW j \in Instances, Own(j) PROVE Fresh(i)'
      <3>1. CASE j = i
        BY <2>0, <2>1, <3>1, OwnFresh
      <3>2. CASE j # i
        <4>1. UNCHANGED <<pc[i], plan[i], local[i]>>
          BY <2>1, <3>2, OwnFrame DEF IInv, OnlyMine
        <4>2. seen' = seen /\ (i \in due' => i \in due)
          BY <2>1, OwnWorld, DueStep
        <4> QED
          BY <2>0, <4>1, <4>2 DEF Fresh
      <3> QED
        BY <3>1, <3>2
    <2>2. CASE NewProcess
      BY <2>2 DEF NewProcess, Fresh, NoLocals
    <2>3. CASE EditNix \/ EditSecret \/ UNCHANGED vars
      <3>1. UNCHANGED <<due, pc, plan, local>> /\ seen \subseteq seen'
        BY <2>3 DEF EditNix, EditSource, EditSecret, vars, memoVars, instVars, given
      <3> QED
        BY <2>0, <3>1 DEF Fresh
    <2>4. ASSUME NEW j \in Instances, Step(j) \/ User(j) \/ CtxDone(j)
          PROVE  Own(j) \/ NewProcess
      BY <2>4 DEF Step, Progress, Failure, User, Own, SwitchPanics, NewPlan
    <2> QED
      BY <2>1, <2>2, <2>3, <2>4 DEF Next, Approve, ProcessExit, Crash, NewPlan
  <1>3. Spec => []MemoIInv
    BY InstanceUsesMemo, MemoInductive, PTL
  <1> QED
    BY <1>1, <1>2, <1>3, Inductive, PTL DEF Spec

LEMMA SettledRecord ==
    ASSUME IInv, NEW i \in Instances, Settled(i)
    PROVE  tfstate[i] # NoState
  <1>1. /\ wanted[i] \in Config /\ content \in Contents
        /\ Built(i, revision) \in Derivation
    BY InputFacts DEF IInv, TypeOK, InstTypeOK, MemoTypeOK
  <1>2. tfstate[i] \in Record
    BY <1>1 DEF Settled, Record
  <1> QED
    BY <1>2, AbsenceAssumption

\* The next Diff of a settled instance finds nothing to do.
LEMMA SettledDiff ==
    ASSUME KeyDeterminesInput, IInv, MemoIInv, NEW i \in Instances, Settled(i),
           \/ StartDiff(i) \/ DiffSecrets(i) \/ DiffSecretsFail(i) \/ DiffBuild(i)
           \/ DiffBuildCancelled(i) \/ DiffBuildFails(i) \/ DiffCompare(i)
    PROVE  Settled(i)'
  <1> USE DEF IInv, TypeOK, InstTypeOK, At, Goto
  <1>0. UNCHANGED <<revision, seen, content, command, wanted, tfstate, host>>
    <2>1. UNCHANGED <<revision, seen, content, command>>
      BY OwnWorld DEF Own
    <2>2. UNCHANGED <<wanted, tfstate, host>>
      BY DEF StartDiff, DiffSecrets, DiffSecretsFail, DiffBuild, DiffBuildCancelled,
             DiffBuildFails, DiffCompare, DropDiff, given
    <2> QED
      BY <2>1, <2>2
  <1>r. tfstate[i] # NoState
    BY SettledRecord
  <1>s. /\ tfstate[i].config = wanted[i]
        /\ tfstate[i].derivation = Built(i, revision)
        /\ tfstate[i].fingerprint = content
    BY DEF Settled
  <1>h. HostMatches(i)'
    BY <1>0 DEF Settled, HostMatches
  <1>k. local[i] \in Locals
    OBVIOUS
  <1>1. CASE StartDiff(i)
    <2>1. /\ pc'[i] = "diffSecrets" /\ plan' = plan /\ ctxDone' = ctxDone
          /\ command = "plan"
      BY <1>1 DEF StartDiff, Settled
    <2> QED
      BY <1>0, <1>h, <2>1 DEF Settled, Diffing
  <1>2. CASE DiffSecrets(i)
    <2>1. /\ pc[i] = "diffSecrets" /\ pc'[i] = "diffBuild"
          /\ plan' = plan /\ ctxDone' = ctxDone /\ ~local'[i].changed
      BY <1>2, <1>k, <1>r, <1>s DEF DiffSecrets, Locals
    <2>2. command # "apply"
      BY <2>1 DEF Settled
    <2> QED
      BY <1>0, <1>h, <2>1, <2>2 DEF Settled, Diffing
  <1>3. CASE DiffBuild(i)
    <2>1. /\ pc[i] = "diffBuild" /\ pc'[i] = "diffWait"
          /\ plan' = plan /\ ctxDone' = ctxDone /\ local' = local
      BY <1>3 DEF DiffBuild
    <2>2. command # "apply" /\ ~local[i].changed
      BY <2>1 DEF Settled
    <2> QED
      BY <1>0, <1>h, <2>1, <2>2 DEF Settled, Diffing
  <1>4. CASE DiffBuildCancelled(i)
    BY <1>4 DEF DiffBuildCancelled, Settled
  <1>5. CASE DiffSecretsFail(i) \/ DiffBuildFails(i)
    <2>1. /\ pc[i] # "idle" /\ pc'[i] = "idle" /\ plan' = plan /\ ~ctxDone'[i]
      BY <1>5 DEF DiffSecretsFail, DiffBuildFails, DropDiff, Finish
    <2>2. command # "apply"
      BY <2>1 DEF Settled
    <2> QED
      BY <1>0, <1>h, <2>1, <2>2 DEF Settled
  <1>6. CASE DiffCompare(i)
    <2>1. /\ pc[i] = "diffWait" /\ pc'[i] = "idle" /\ ~ctxDone'[i]
      BY <1>6 DEF DiffCompare, Finish
    <2>2. command # "apply" /\ ~local[i].changed
      BY <2>1 DEF Settled
    <2>3. Reply(i) = output[i] /\ output[i] \in Derivation
      BY <1>6 DEF DiffCompare, Reply
    <2>4. Reply(i) = Built(i, revision)
      BY <2>3, OwnBuild DEF Settled
    <2>5. plan'[i] = [change |-> \/ local[i].changed
                                 \/ tfstate[i] = NoState
                                 \/ tfstate[i].config # wanted[i]
                                 \/ tfstate[i].derivation # Reply(i),
                      built  |-> Reply(i)]
      BY <1>6 DEF DiffCompare
    <2>6. ~plan'[i].change
      BY <1>r, <1>s, <2>2, <2>4, <2>5
    <2> QED
      BY <1>0, <1>h, <2>1, <2>2, <2>6 DEF Settled
  <1> QED
    BY <1>1, <1>2, <1>3, <1>4, <1>5, <1>6

\* Nothing else an instance does begins while it is settled.
LEMMA SettledOwn ==
    ASSUME KeyDeterminesInput, IInv, MemoIInv, NEW i \in Instances, Settled(i), Own(i),
           ~EditConfig(i), ~Destroy(i)
    PROVE  Settled(i)'
  <1>1. CASE \/ StartDiff(i) \/ DiffSecrets(i) \/ DiffSecretsFail(i) \/ DiffBuild(i)
             \/ DiffBuildCancelled(i) \/ DiffBuildFails(i) \/ DiffCompare(i)
    BY <1>1, SettledDiff
  <1>2. CASE MemoStep(i)
    <2>1. UNCHANGED <<revision, seen>>
      BY OwnWorld
    <2> QED
      BY <1>2, <2>1 DEF MemoStep, instVars, given, Settled, HostMatches
  <1>3. ASSUME StartApply(i) \/ CtxDone(i) PROVE FALSE
    BY <1>3 DEF StartApply, CtxDone, Settled, At
  <1>4. ASSUME \/ Build(i) \/ BuildCancelled(i) \/ BuildFails(i) \/ BuildReturns(i)
               \/ ReadSecrets(i) \/ ReadSecretsFail(i) \/ CopySecrets(i)
               \/ CopySecretsFail(i) \/ PushOutput(i) \/ PushFails(i) \/ PushReturns(i)
               \/ Install(i) \/ InstallFails(i) \/ SwitchRefuses(i) \/ Activate(i)
               \/ ActivateFails(i) \/ RecordApply(i)
        PROVE  FALSE
    <2>1. pc[i] \in {"idle", "diffSecrets", "diffBuild", "diffWait"}
      BY DEF Settled, Diffing
    <2> QED
      BY <1>4, <2>1
         DEF At, Build, BuildCancelled, BuildFails, BuildReturns, ReadSecrets,
             ReadSecretsFail, CopySecrets, CopySecretsFail, PushOutput, PushFails, PushReturns,
             Install, InstallFails, SwitchRefuses, Activate, ActivateFails, RecordApply
  <1> QED
    BY <1>1, <1>2, <1>3, <1>4 DEF Own

\* Neither a failure nor a crash, neither an interrupted nor a completed
\* command, nor any step of another instance takes a machine out of order: the
\* next Diff finds no difference, and what is not in the plan is not applied
\* (instance.go:120-173).
THEOREM SettledStays ==
    ASSUME KeyDeterminesInput
    PROVE  Spec => StaysSettled
  <1>1. ASSUME IInv, MemoIInv, [Next]_vars, NEW i \in Instances, Settled(i), ~Edited(i)
        PROVE  Settled(i)'
    <2> USE <1>1
    <2>r. tfstate[i] # NoState
      BY SettledRecord
    <2>1. ASSUME NEW j \in Instances, Own(j) PROVE Settled(i)'
      <3>1. CASE j = i
        BY <2>1, <3>1, SettledOwn DEF Edited
      <3>2. CASE j # i
        <4>1. /\ UNCHANGED <<wanted[i], tfstate[i], plan[i], pc[i], ctxDone[i], local[i]>>
              /\ \A h \in Hosts \ {Target(j)} : host'[h] = host[h]
          BY <2>1, <3>2, OwnFrame DEF IInv, OnlyMine
        <4>2. UNCHANGED <<revision, seen, content, command>>
          BY <2>1, OwnWorld
        <4>3. i \in due' => i \in due
          BY <2>1, DueStep
        <4>4. tfstate[i].config.address \in Hosts \ {Target(j)}
          BY <2>r, <3>2, ApartHosts DEF IInv, TypeOK, InstTypeOK, Record, Config
        <4>5. HostMatches(i)'
          BY <4>1, <4>4 DEF Settled, HostMatches
        <4> QED
          BY <4>1, <4>2, <4>3, <4>5 DEF Settled
      <3> QED
        BY <3>1, <3>2
    <2>2. CASE NewPlan \/ Approve
      <3>1. /\ seen' = {revision} /\ UNCHANGED <<revision, content, wanted, tfstate, host>>
            /\ plan'[i] = NoPlan /\ pc'[i] = "idle" /\ ~ctxDone'[i]
        BY <2>2 DEF NewPlan, Approve, NewProcess, MemoRestart
      <3>2. command' = "apply" => i \notin due'
        BY <2>2 DEF NewPlan, Approve, Changes, Settled
      <3>3. HostMatches(i)'
        BY <3>1 DEF Settled, HostMatches
      <3> QED
        BY <3>1, <3>2, <3>3 DEF Settled
    <2>3. CASE UNCHANGED vars
      BY <2>3 DEF vars, memoVars, instVars, given, Settled, HostMatches
    <2>4. ASSUME NEW j \in Instances, Step(j) \/ User(j) \/ CtxDone(j)
          PROVE  Own(j) \/ NewPlan
      BY <2>4 DEF Step, Progress, Failure, User, Own, SwitchPanics
    <2> QED
      BY <2>1, <2>2, <2>3, <2>4 DEF Next, ProcessExit, Crash, Edited
  <1>2. IInv /\ MemoIInv /\ [Next]_vars =>
          [ \A i \in Instances : Settled(i) /\ ~Edited(i) => Settled(i)' ]_vars
    BY <1>1
  <1>3. Spec => []MemoIInv
    BY InstanceUsesMemo, MemoInductive, PTL
  <1> QED
    BY <1>2, <1>3, Inductive, PTL DEF Spec, StaysSettled

\* An apply that succeeds settles its instance, unless the sources were edited
\* since the process started or the secrets since they were read
\* (instance.go:175-252).
THEOREM ApplySettles ==
    ASSUME KeyDeterminesInput
    PROVE  Spec => Settles
  <1>1. ASSUME IInv, IInv', AllFresh, NEW i \in Instances, RecordApply(i),
               seen = {revision}, local[i].data = content
        PROVE  Settled(i)'
    <2> USE <1>1
    <2>1. /\ pc[i] = "record" /\ pc'[i] = "idle" /\ ~ctxDone'[i] /\ plan'[i] = NoPlan
          /\ tfstate'[i] = [config      |-> wanted[i],
                            derivation  |-> local[i].derivation,
                            fingerprint |-> local[i].data]
          /\ diag'[i] = "ok"
      BY DEF IInv, TypeOK, InstTypeOK, RecordApply, Finish, At
    <2>2. UNCHANGED <<revision, seen, content, wanted, command, due>>
      BY DEF RecordApply, memoVars, given
    <2>3. local[i].derivation # NoDerivation
      BY <2>1 DEF IInv, DeployInvariant, DeployPhase
    <2>4. local[i].derivation = Built(i, revision) /\ i \notin due
      BY <2>1, <2>3 DEF AllFresh, Fresh
    <2>5. HostMatches(i)'
      BY <2>1 DEF IInv, DeployInvariant, RecordPhase
    <2>6. /\ tfstate'[i] = [config      |-> wanted'[i],
                            derivation  |-> Built(i, revision)',
                            fingerprint |-> content']
      BY <2>1, <2>2, <2>4 DEF Built
    <2> QED
      BY <2>1, <2>2, <2>4, <2>5, <2>6 DEF Settled
  <1>2. IInv /\ IInv' /\ AllFresh /\ [Next]_vars =>
          [ \A i \in Instances :
              RecordApply(i) /\ seen = {revision} /\ local[i].data = content =>
                  Settled(i)' ]_vars
    BY <1>1
  <1> QED
    BY <1>2, AlwaysFresh, Inductive, PTL DEF Spec, Settles
================================================================================
