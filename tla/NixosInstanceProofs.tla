------------------------- MODULE NixosInstanceProofs -------------------------
(***************************************************************************)
(* Proofs about the nixos_instance resource, for any number of instances,  *)
(* machines, outputs, contents and retries.                                *)
(***************************************************************************)
EXTENDS NixosInstance, BuildMemoProofs, FiniteSetTheorems

-----------------------------------------------------------------------------
(* The build inside the instance is the build of BuildMemo.                 *)

LEMMA StepUsesMemo ==
    ASSUME [Next]_vars
    PROVE  [MemoNext]_memoVars
  <1>1. ASSUME NEW i \in Instances, Step(i) \/ User(i) \/ CtxDone(i)
        PROVE  [MemoNext]_memoVars
    <2>1. CASE DiffBuild(i) \/ Build(i)
      BY <2>1 DEF DiffBuild, Build, MemoNext
    <2>2. CASE DiffBuildFails(i) \/ DiffCompare(i) \/ BuildFails(i) \/ BuildReturns(i)
      BY <2>2 DEF DiffBuildFails, DiffCompare, BuildFails, BuildReturns, MemoNext
    <2>3. CASE MemoStep(i)
      BY <2>3 DEF MemoStep, MemoNext
    <2>4. CASE SwitchPanics(i)
      BY <2>4 DEF SwitchPanics, NewPlan, NewProcess, MemoNext
    <2>5. CASE User(i) \/ CtxDone(i)
      BY <2>5 DEF User, StartDiff, StartApply, Destroy, EditConfig, CtxDone
    <2>6. CASE Failure(i)
      BY <2>6 DEF Failure, DiffSecretsFail, ReadSecretsFail, CopySecretsFail, PushFails,
                  InstallFails, ActivateFails
    <2>7. CASE DiffSecrets(i) \/ DiffBuildCancelled(i) \/ BuildCancelled(i) \/ ReadSecrets(i)
      BY <2>7 DEF DiffSecrets, DiffBuildCancelled, BuildCancelled, ReadSecrets
    <2>8. CASE \/ CopySecrets(i) \/ PushOutput(i) \/ PushReturns(i) \/ Install(i)
               \/ SwitchRefuses(i) \/ Activate(i) \/ RecordApply(i)
      BY <2>8 DEF CopySecrets, PushOutput, PushReturns, Install, SwitchRefuses, Activate,
                  RecordApply
    <2> QED
      BY <1>1, <2>1, <2>2, <2>3, <2>4, <2>5, <2>6, <2>7, <2>8 DEF Step, Progress
  <1>2. CASE EditNix
    BY <1>2 DEF EditNix, MemoNext
  <1>3. CASE EditSecret
    BY <1>3 DEF EditSecret
  <1>4. CASE Approve \/ ProcessExit \/ Crash
    BY <1>4 DEF Approve, ProcessExit, Crash, NewPlan, NewProcess, MemoNext
  <1>5. CASE UNCHANGED vars
    BY <1>5 DEF vars, memoVars
  <1> QED
    BY <1>1, <1>2, <1>3, <1>4, <1>5 DEF Next

\* What is proved of the memo may be used here: its callers are the operations.
LEMMA InstanceUsesMemo == Spec => MemoSpec
  <1>1. Init => MemoInit
    BY DEF Init
  <1>2. [Next]_vars => [MemoNext]_memoVars
    BY StepUsesMemo
  <1> QED
    BY <1>1, <1>2, PTL DEF Spec, MemoSpec

-----------------------------------------------------------------------------
(* Types, the frame of a step, and the phases of a deployment.               *)

IInv == TypeOK /\ DeployInvariant

\* All a step of instance i may change besides the memo: what belongs to i, and
\* the machine it is wanted on.
OnlyMine(i) ==
    /\ content' = content
    /\ \A j \in Instances \ {i} :
          /\ wanted'[j] = wanted[j]
          /\ tfstate'[j] = tfstate[j]
          /\ plan'[j] = plan[j]
          /\ diag'[j] = diag[j]
          /\ pc'[j] = pc[j]
          /\ ctxDone'[j] = ctxDone[j]
          /\ local'[j] = local[j]
    /\ \A h \in Hosts \ {Target(i)} : host'[h] = host[h]

\* A step of one instance, a new process apart.
Own(i) ==
    \/ StartDiff(i) \/ DiffSecrets(i) \/ DiffSecretsFail(i) \/ DiffBuild(i)
    \/ DiffBuildCancelled(i) \/ DiffBuildFails(i) \/ DiffCompare(i) \/ StartApply(i)
    \/ Build(i) \/ BuildCancelled(i) \/ BuildFails(i) \/ BuildReturns(i)
    \/ ReadSecrets(i) \/ ReadSecretsFail(i) \/ CopySecrets(i) \/ CopySecretsFail(i)
    \/ PushOutput(i) \/ PushFails(i) \/ PushReturns(i) \/ Install(i)
    \/ InstallFails(i) \/ SwitchRefuses(i) \/ Activate(i) \/ ActivateFails(i)
    \/ RecordApply(i) \/ Destroy(i) \/ CtxDone(i) \/ MemoStep(i)
    \/ EditConfig(i)

LEMMA TargetType ==
    ASSUME TypeOK, NEW i \in Instances
    PROVE  Target(i) \in Hosts /\ wanted[i] \in Config
  BY DEF TypeOK, InstTypeOK, Target, Config

\* A reply that is no failure is a derivation.
LEMMA ReplyType ==
    ASSUME NEW i \in Instances, Reply(i) # Failed
    PROVE  Reply(i) \in Derivation
  BY DEF Reply


\* A failed operation leaves well-typed records and locals.
LEMMA FailType ==
    ASSUME TypeOK, NEW i \in Instances, Fail(i), host' \in [Hosts -> Host]
    PROVE  InstTypeOK'
  <1>1. NoLocals \in Locals
    BY DeployAssumption DEF NoLocals, Locals
  <1>2. wanted[i] \in Config
    BY TargetType
  <1>3. tfstate' \in [Instances -> Record \cup {NoState}]
    BY <1>2 DEF TypeOK, InstTypeOK, Fail, Record
  <1> QED
    BY <1>1, <1>3 DEF TypeOK, InstTypeOK, Fail, Finish, given, Applying, Diffing, Deploying

\* So does a retried one: the count stays within its bound.
LEMMA RetryType ==
    ASSUME TypeOK, NEW i \in Instances, RetryOrFail(i), host' \in [Hosts -> Host]
    PROVE  InstTypeOK'
  <1>1. CASE Fail(i)
    BY <1>1, FailType
  <1>2. CASE /\ local[i].retry > 0
             /\ local' = [local EXCEPT ![i].retry = @ - 1]
             /\ Goto(i, "copy")
             /\ UNCHANGED <<given, tfstate, plan, diag, ctxDone>>
    <2>1. local[i] \in Locals
      BY DEF TypeOK, InstTypeOK
    <2>2. local[i].retry \in 0 .. Retries /\ local[i].retry - 1 \in 0 .. Retries
      BY <1>2, <2>1, DeployAssumption DEF Locals
    <2>3. local' \in [Instances -> Locals]
      BY <1>2, <2>1, <2>2 DEF TypeOK, InstTypeOK, Locals
    <2> QED
      BY <1>2, <2>3 DEF TypeOK, InstTypeOK, Goto, given, Applying, Diffing, Deploying
  <1> QED
    BY <1>1, <1>2 DEF RetryOrFail

\* The types of Instance's own variables survive every step of an instance.
LEMMA OwnTypeStep ==
    ASSUME IInv, NEW i \in Instances, Own(i)
    PROVE  InstTypeOK'
  <1> USE DEF IInv, TypeOK, InstTypeOK, Diffing, Applying, Deploying, given, instVars
  <1>t. Target(i) \in Hosts /\ wanted[i] \in Config
    BY TargetType
  <1>l. local[i] \in Locals /\ NoLocals \in Locals
    BY DeployAssumption DEF NoLocals, Locals
  <1>h. host[Target(i)] \in Host
    BY <1>t
  <1>1. CASE StartDiff(i)
    BY <1>1, <1>t, <1>l, <1>h DEF StartDiff, Goto
  <1>2. CASE DiffSecrets(i)
    BY <1>2, <1>t, <1>l, <1>h DEF DiffSecrets, Goto, Locals
  <1>3. CASE DiffSecretsFail(i)
    BY <1>3, <1>t, <1>l, <1>h DEF DiffSecretsFail, DropDiff, Finish
  <1>4. CASE DiffBuild(i)
    BY <1>4, <1>t, <1>l, <1>h DEF DiffBuild, Goto
  <1>5. CASE DiffBuildCancelled(i)
    BY <1>5, <1>t, <1>l, <1>h DEF DiffBuildCancelled, Finish, Plan
  <1>6. CASE DiffBuildFails(i)
    BY <1>6, <1>t, <1>l, <1>h DEF DiffBuildFails, DropDiff, Finish
  <1>7. CASE DiffCompare(i)
    BY <1>7, <1>t, <1>l, <1>h DEF DiffCompare, Finish, Reply, Plan
  <1>8. CASE StartApply(i)
    BY <1>8, <1>t, <1>l, <1>h DEF StartApply, Goto
  <1>9. CASE Build(i)
    BY <1>9, <1>t, <1>l, <1>h DEF Build, Goto
  <1>10. CASE BuildCancelled(i)
    BY <1>10, <1>t, <1>l, <1>h DEF BuildCancelled, Goto
  <1>11. CASE BuildFails(i)
    BY <1>11, <1>t, <1>l, <1>h DEF BuildFails, Fail, Finish, Record
  <1>12. CASE BuildReturns(i)
    BY <1>12, <1>t, <1>l, <1>h DEF BuildReturns, Goto, Reply, Locals
  <1>13. CASE ReadSecrets(i)
    <2>1. Retries \in 0 .. Retries
      BY DeployAssumption
    <2>2. [local[i] EXCEPT !.data = content, !.retry = Retries] \in Locals
      BY <1>l, <2>1 DEF Locals
    <2>3. local' = [local EXCEPT ![i] = [local[i] EXCEPT !.data = content, !.retry = Retries]]
      BY <1>13 DEF ReadSecrets
    <2> QED
      BY <1>13, <2>2, <2>3 DEF ReadSecrets, Goto
  <1>14. CASE ReadSecretsFail(i)
    BY <1>14, <1>t, <1>l, <1>h DEF ReadSecretsFail, Fail, Finish, Record
  <1>15. CASE CopySecrets(i)
    BY <1>15, <1>t, <1>l, <1>h DEF CopySecrets, Goto, Locals, Host
  <1>16. CASE CopySecretsFail(i)
    <2>1. local[i].data \in Contents
      BY <1>16 DEF CopySecretsFail, At, DeployInvariant, DeployPhase
    <2>2. PICK left \in {host[Target(i)].files, Torn, local[i].data} :
              host' = [host EXCEPT ![Target(i)].files = left]
      BY <1>16 DEF CopySecretsFail
    <2>3. host' \in [Hosts -> Host]
      BY <1>t, <1>h, <2>1, <2>2 DEF Host
    <2> QED
      BY <1>16, <2>3, RetryType DEF CopySecretsFail
  <1>17. CASE PushOutput(i)
    <2>1. PICK name \in local[i].todo :
              /\ host' = [host EXCEPT ![Target(i)].store = @ \cup {<<local[i].derivation, name>>}]
              /\ local' = [local EXCEPT ![i].todo = @ \ {name}]
      BY <1>17 DEF PushOutput
    <2>2. name \in OutputNames /\ local[i].derivation \in Derivation
      BY <1>17, <1>l, <2>1 DEF PushOutput, At, Locals, DeployInvariant, DeployPhase
    <2>3. host' \in [Hosts -> Host]
      BY <1>t, <1>h, <2>1, <2>2 DEF Host
    <2>4. local' \in [Instances -> Locals]
      BY <1>l, <2>1 DEF Locals
    <2> QED
      BY <1>17, <2>3, <2>4 DEF PushOutput
  <1>18. CASE PushFails(i)
    <2>1. PICK name \in local[i].todo :
             \/ UNCHANGED host
             \/ host' = [host EXCEPT ![Target(i)].store = @ \cup {<<local[i].derivation, name>>}]
      BY <1>18 DEF PushFails
    <2>2. name \in OutputNames /\ local[i].derivation \in Derivation
      BY <1>18, <1>l, <2>1 DEF PushFails, At, Locals, DeployInvariant, DeployPhase
    <2>3. host' \in [Hosts -> Host]
      BY <1>t, <1>h, <2>1, <2>2 DEF Host
    <2> QED
      BY <1>18, <2>3, RetryType DEF PushFails
  <1>19. CASE PushReturns(i)
    BY <1>19, <1>t, <1>l, <1>h DEF PushReturns, Goto
  <1>20. CASE Install(i)
    <2>1. host' \in [Hosts -> Host]
      BY <1>20, <1>t, <1>h, <1>l DEF Install, Host, Locals
    <2> QED
      BY <1>20, <2>1 DEF Install, Goto
  <1>21. CASE InstallFails(i)
    <2>1. host' \in [Hosts -> Host]
      <3>1. CASE UNCHANGED host
        BY <3>1
      <3>2. CASE host' = [host EXCEPT ![Target(i)].profile = local[i].derivation]
        BY <1>t, <1>h, <1>l, <3>2 DEF Host, Locals
      <3> QED
        BY <1>21, <3>1, <3>2 DEF InstallFails
    <2> QED
      BY <1>21, <2>1, FailType DEF InstallFails
  <1>22. CASE SwitchRefuses(i)
    BY <1>22, <1>t, <1>l, <1>h DEF SwitchRefuses, Fail, Finish, Record
  <1>23. CASE Activate(i)
    BY <1>23, <1>t, <1>l, <1>h DEF Activate, Goto, Host
  <1>24. CASE ActivateFails(i)
    <2>1. host[Target(i)].profile \in Derivation \cup {NoDerivation}
      BY <1>h DEF Host
    <2>2. [host[Target(i)] EXCEPT !.activated = host[Target(i)].profile] \in Host
      BY <1>h, <2>1 DEF Host
    <2>3. host' \in [Hosts -> Host]
      BY <1>24, <1>t, <2>2 DEF ActivateFails
    <2> QED
      BY <1>24, <2>3, FailType DEF ActivateFails
  <1>25. CASE RecordApply(i)
    <2>1. local[i].derivation \in Derivation /\ local[i].data \in Contents
      BY <1>25, <1>l DEF RecordApply, At, DeployInvariant, DeployPhase, Locals
    <2> QED
      BY <1>25, <1>l, <2>1 DEF RecordApply, Finish, Record
  <1>26. CASE Destroy(i)
    BY <1>26, <1>t, <1>l, <1>h DEF Destroy
  <1>27. CASE CtxDone(i)
    BY <1>27, <1>t, <1>l, <1>h DEF CtxDone
  <1>28. CASE MemoStep(i)
    BY <1>28, <1>t, <1>l, <1>h DEF MemoStep
  <1>29. CASE EditConfig(i)
    <2>1. PICK c \in ConfigsOf[i] : wanted' = [wanted EXCEPT ![i] = c]
      BY <1>29 DEF EditConfig
    <2>2. c \in Config
      BY ConfigAssumption
    <2> QED
      BY <1>29, <2>1, <2>2 DEF EditConfig
  <1> QED
    BY <1>1, <1>2, <1>3, <1>4, <1>5, <1>6, <1>7, <1>8, <1>9, <1>10, <1>11, <1>12, <1>13, <1>14, <1>15, <1>16, <1>17, <1>18, <1>19, <1>20, <1>21, <1>22, <1>23, <1>24, <1>25, <1>26, <1>27, <1>28, <1>29 DEF Own

\* Every step of an instance keeps to what is its own: nothing in Create or
\* Diff reads or writes another resource, and no two share a machine.
LEMMA OwnFrame ==
    ASSUME TypeOK, NEW i \in Instances, Own(i)
    PROVE  OnlyMine(i)
  <1> USE DEF OnlyMine, TypeOK, InstTypeOK, given, instVars
  <1>t. Target(i) \in Hosts
    BY TargetType
  <1>1. CASE StartDiff(i)
    BY <1>1, <1>t DEF StartDiff, Goto
  <1>2. CASE DiffSecrets(i)
    BY <1>2, <1>t DEF DiffSecrets, Goto
  <1>3. CASE DiffSecretsFail(i)
    BY <1>3, <1>t DEF DiffSecretsFail, DropDiff, Finish
  <1>4. CASE DiffBuild(i)
    BY <1>4, <1>t DEF DiffBuild, Goto
  <1>5. CASE DiffBuildCancelled(i)
    BY <1>5, <1>t DEF DiffBuildCancelled, Finish
  <1>6. CASE DiffBuildFails(i)
    BY <1>6, <1>t DEF DiffBuildFails, DropDiff, Finish
  <1>7. CASE DiffCompare(i)
    BY <1>7, <1>t DEF DiffCompare, Finish, Reply
  <1>8. CASE StartApply(i)
    BY <1>8, <1>t DEF StartApply, Goto
  <1>9. CASE Build(i)
    BY <1>9, <1>t DEF Build, Goto
  <1>10. CASE BuildCancelled(i)
    BY <1>10, <1>t DEF BuildCancelled, Goto
  <1>11. CASE BuildFails(i)
    BY <1>11, <1>t DEF BuildFails, Fail, Finish
  <1>12. CASE BuildReturns(i)
    BY <1>12, <1>t DEF BuildReturns, Goto, Reply
  <1>13. CASE ReadSecrets(i)
    BY <1>13, <1>t DEF ReadSecrets, Goto
  <1>14. CASE ReadSecretsFail(i)
    BY <1>14, <1>t DEF ReadSecretsFail, Fail, Finish
  <1>15. CASE CopySecrets(i)
    BY <1>15, <1>t DEF CopySecrets, Goto
  <1>16. CASE CopySecretsFail(i)
    BY <1>16, <1>t DEF CopySecretsFail, RetryOrFail, Fail, Finish, Goto
  <1>17. CASE PushOutput(i)
    BY <1>17, <1>t DEF PushOutput
  <1>18. CASE PushFails(i)
    BY <1>18, <1>t DEF PushFails, RetryOrFail, Fail, Finish, Goto
  <1>19. CASE PushReturns(i)
    BY <1>19, <1>t DEF PushReturns, Goto
  <1>20. CASE Install(i)
    BY <1>20, <1>t DEF Install, Goto
  <1>21. CASE InstallFails(i)
    BY <1>21, <1>t DEF InstallFails, Fail, Finish
  <1>22. CASE SwitchRefuses(i)
    BY <1>22, <1>t DEF SwitchRefuses, Fail, Finish
  <1>23. CASE Activate(i)
    BY <1>23, <1>t DEF Activate, Goto
  <1>24. CASE ActivateFails(i)
    BY <1>24, <1>t DEF ActivateFails, Fail, Finish
  <1>25. CASE RecordApply(i)
    BY <1>25, <1>t DEF RecordApply, Finish
  <1>26. CASE Destroy(i)
    BY <1>26, <1>t DEF Destroy
  <1>27. CASE CtxDone(i)
    BY <1>27, <1>t DEF CtxDone
  <1>28. CASE MemoStep(i)
    BY <1>28, <1>t DEF MemoStep
  <1>29. CASE EditConfig(i)
    BY <1>29, <1>t DEF EditConfig
  <1> QED
    BY <1>1, <1>2, <1>3, <1>4, <1>5, <1>6, <1>7, <1>8, <1>9, <1>10, <1>11, <1>12, <1>13, <1>14, <1>15, <1>16, <1>17, <1>18, <1>19, <1>20, <1>21, <1>22, <1>23, <1>24, <1>25, <1>26, <1>27, <1>28, <1>29 DEF Own

\* Instances have machines of their own: wherever j is wanted or recorded, i's
\* machine is another one.
LEMMA ApartHosts ==
    ASSUME IInv, NEW i \in Instances, NEW j \in Instances \ {i}
    PROVE  /\ Target(j) # Target(i)
           /\ tfstate[j] # NoState => tfstate[j].config.address # Target(i)
  BY OwnHostsAssumption
     DEF IInv, TypeOK, InstTypeOK, Target, DeployInvariant, RecordPhase

\* So the phases of the others stay as they were.
LEMMA OthersKept ==
    ASSUME IInv, NEW i \in Instances, OnlyMine(i), NEW j \in Instances \ {i}
    PROVE  DeployPhase(j)' /\ RecordPhase(j)'
  <1>1. /\ Target(j) \in Hosts \ {Target(i)}
        /\ tfstate[j] # NoState => tfstate[j].config.address \in Hosts \ {Target(i)}
    BY ApartHosts, TargetType DEF IInv, TypeOK, InstTypeOK, Record, Config
  <1>2. /\ UNCHANGED <<pc[j], local[j], ctxDone[j], wanted[j], tfstate[j], diag[j]>>
        /\ \A h \in Hosts \ {Target(i)} : host'[h] = host[h]
    BY DEF OnlyMine
  <1>3. Target(j)' = Target(j) /\ host'[Target(j)] = host[Target(j)]
    BY <1>1, <1>2 DEF Target
  <1>4. DeployPhase(j) /\ RecordPhase(j)
    BY DEF IInv, DeployInvariant
  <1>5. DeployPhase(j)'
    BY <1>2, <1>3, <1>4 DEF DeployPhase
  <1>6. tfstate[j] # NoState => HostMatches(j)' = HostMatches(j)
    BY <1>1, <1>2 DEF HostMatches
  <1>7. RecordPhase(j)'
    BY <1>2, <1>4, <1>6 DEF RecordPhase
  <1> QED
    BY <1>5, <1>7

\* A retry goes back to the copy, with the secrets read at first.
LEMMA RetryAgain ==
    ASSUME TypeOK, NEW i \in Instances, RetryOrFail(i), ~Fail(i)
    PROVE  /\ pc'[i] = "copy"
           /\ local'[i].data = local[i].data
           /\ UNCHANGED <<wanted, tfstate, diag>>
  <1>1. /\ local' = [local EXCEPT ![i].retry = @ - 1]
        /\ Goto(i, "copy")
        /\ UNCHANGED <<given, tfstate, plan, diag, ctxDone>>
    BY DEF RetryOrFail
  <1>2. local[i] \in Locals
    BY DEF TypeOK, InstTypeOK
  <1>3. local'[i] = [local[i] EXCEPT !.retry = @ - 1]
    BY <1>1 DEF TypeOK, InstTypeOK
  <1>4. local'[i].data = local[i].data
    BY <1>2, <1>3 DEF Locals
  <1> QED
    BY <1>1, <1>4 DEF TypeOK, InstTypeOK, Goto, given

\* An operation that is not past its secrets promises nothing of a machine.
LEMMA QuietPhase ==
    ASSUME NEW i \in Instances, pc'[i] \notin Deploying \ {"secrets"}
    PROVE  DeployPhase(i)'
  BY DEF DeployPhase, Deploying

\* The record and the outcome keep their meaning while neither changes, and the
\* machine only in an operation that has taken the outcome back.
LEMMA RecordKept ==
    ASSUME IInv, NEW i \in Instances,
           tfstate'[i] = tfstate[i], diag'[i] = diag[i],
           pc'[i] \in Applying => pc[i] \in Applying,
           pc[i] \in Applying \/ UNCHANGED host
    PROVE  RecordPhase(i)'
  <1>1. RecordPhase(i)
    BY DEF IInv, DeployInvariant
  <1>2. diag[i] = "ok" => pc[i] \notin Applying /\ UNCHANGED host
    BY <1>1 DEF RecordPhase
  <1>3. diag[i] = "ok" => HostMatches(i)' = HostMatches(i)
    BY <1>2 DEF HostMatches
  <1> QED
    BY <1>1, <1>2, <1>3 DEF RecordPhase

\* A failed operation leaves no outcome to be held to.
LEMMA PhasesAfterFail ==
    ASSUME IInv, NEW i \in Instances, Fail(i)
    PROVE  DeployPhase(i)' /\ RecordPhase(i)'
  <1>1. pc'[i] = "idle" /\ diag'[i] = "error"
    BY DEF Fail, Finish, IInv, TypeOK, InstTypeOK
  <1>2. pc'[i] \notin Applying /\ pc'[i] \notin Deploying
    BY <1>1 DEF Applying, Deploying
  <1>3. wanted[i] \in ConfigsOf[i] /\ tfstate[i] \in Record \cup {NoState}
    BY DEF IInv, TypeOK, InstTypeOK
  <1>4. tfstate'[i] = IF tfstate[i] = NoState THEN NoState
                      ELSE [tfstate[i] EXCEPT !.config = wanted[i]]
    BY DEF Fail, IInv, TypeOK, InstTypeOK
  <1>5. tfstate'[i] # NoState => tfstate'[i].config \in ConfigsOf[i]
    BY <1>3, <1>4 DEF Record
  <1>6. RecordPhase(i)'
    BY <1>1, <1>2, <1>5 DEF RecordPhase
  <1> QED
    BY <1>2, <1>6, QuietPhase

\* A retry has the secrets of the first attempt and promises no more.
LEMMA PhasesAfterRetry ==
    ASSUME IInv, NEW i \in Instances, RetryOrFail(i), pc[i] \in {"copy", "push"}
    PROVE  DeployPhase(i)' /\ RecordPhase(i)'
  <1>1. CASE Fail(i)
    BY <1>1, PhasesAfterFail
  <1>2. CASE ~Fail(i)
    <2>1. /\ pc'[i] = "copy"
          /\ local'[i].data = local[i].data
          /\ UNCHANGED <<wanted, tfstate, diag>>
      BY <1>2, RetryAgain DEF IInv
    <2>2. pc[i] \in Applying
      BY DEF Applying, Deploying
    <2>3. RecordPhase(i)'
      BY <2>1, <2>2, RecordKept
    <2>4. local[i].data \in Contents
      BY DEF IInv, DeployInvariant, DeployPhase
    <2>5. DeployPhase(i)'
      BY <2>1, <2>4 DEF DeployPhase
    <2> QED
      BY <2>3, <2>5
  <1> QED
    BY <1>1, <1>2

\* What an operation does before it has read the secrets, its failures apart.
LEMMA PhasesBeforeSecrets ==
    ASSUME IInv, NEW i \in Instances,
           \/ StartDiff(i) \/ DiffSecrets(i) \/ DiffSecretsFail(i) \/ DiffBuild(i)
           \/ DiffBuildCancelled(i) \/ DiffBuildFails(i) \/ DiffCompare(i)
           \/ Build(i) \/ BuildCancelled(i) \/ BuildReturns(i)
    PROVE  DeployPhase(i)' /\ RecordPhase(i)'
  <1> USE DEF IInv, TypeOK, InstTypeOK, At
  <1>1. UNCHANGED <<tfstate, diag, host>>
    BY DEF StartDiff, DiffSecrets, DiffSecretsFail, DiffBuild, DiffBuildCancelled,
           DiffBuildFails, DiffCompare, Build, BuildCancelled, BuildReturns, DropDiff
  <1>2. CASE Build(i) \/ BuildCancelled(i) \/ BuildReturns(i)
    <2>1. pc[i] \in {"build", "wait"}
      BY <1>2 DEF Build, BuildCancelled, BuildReturns
    <2>2. pc'[i] \in {"wait", "secrets"}
      BY <1>2 DEF Build, BuildCancelled, BuildReturns, Goto
    <2>3. pc[i] \in Applying /\ pc'[i] \notin Deploying \ {"secrets"}
      BY <2>1, <2>2 DEF Applying, Deploying
    <2> QED
      BY <1>1, <2>3, QuietPhase, RecordKept
  <1>3. CASE ~(Build(i) \/ BuildCancelled(i) \/ BuildReturns(i))
    <2>1. ASSUME StartDiff(i) \/ DiffSecrets(i) \/ DiffBuild(i)
          PROVE  pc'[i] \in {"diffSecrets", "diffBuild", "diffWait"}
      BY <2>1 DEF StartDiff, DiffSecrets, DiffBuild, Goto
    <2>2. ASSUME \/ DiffSecretsFail(i) \/ DiffBuildCancelled(i) \/ DiffBuildFails(i)
                 \/ DiffCompare(i)
          PROVE  pc'[i] = "idle"
      <3>1. Finish(i)
        BY <2>2 DEF DiffSecretsFail, DiffBuildCancelled, DiffBuildFails, DiffCompare, DropDiff
      <3> QED
        BY <3>1 DEF Finish
    <2>3. pc'[i] \in {"idle", "diffSecrets", "diffBuild", "diffWait"}
      BY <1>3, <2>1, <2>2
    <2>4. pc'[i] \notin Applying /\ pc'[i] \notin Deploying
      BY <2>3 DEF Applying, Deploying
    <2> QED
      BY <1>1, <2>4, QuietPhase, RecordKept
  <1> QED
    BY <1>2, <1>3

\* The step itself leads from phase to phase: Create's order of effects.
LEMMA OwnPhaseStep ==
    ASSUME IInv, NEW i \in Instances, Own(i)
    PROVE  DeployPhase(i)' /\ RecordPhase(i)'
  <1> DEFINE machine == Target(i)
  <1> USE DEF At
  <1>t. /\ machine \in Hosts
        /\ host \in [Hosts -> Host] /\ host[machine] \in Host
        /\ pc \in [Instances -> {"idle"} \cup Diffing \cup Applying]
        /\ local \in [Instances -> Locals] /\ local[i] \in Locals
        /\ diag \in [Instances -> {"none", "ok", "error"}]
        /\ tfstate \in [Instances -> Record \cup {NoState}]
        /\ wanted[i] \in ConfigsOf[i] /\ wanted[i] \in Config
    BY TargetType DEF IInv, TypeOK, InstTypeOK
  <1>p. DeployPhase(i) /\ RecordPhase(i)
    BY DEF IInv, DeployInvariant
  <1>a. pc[i] \in Deploying => pc[i] \in Applying
    BY DEF Applying
  <1>1. CASE \/ StartDiff(i) \/ DiffSecrets(i) \/ DiffSecretsFail(i) \/ DiffBuild(i)
             \/ DiffBuildCancelled(i) \/ DiffBuildFails(i) \/ DiffCompare(i)
             \/ Build(i) \/ BuildCancelled(i) \/ BuildReturns(i)
    BY <1>1, PhasesBeforeSecrets
  <1>2. CASE BuildFails(i) \/ ReadSecretsFail(i) \/ InstallFails(i) \/ SwitchRefuses(i)
             \/ ActivateFails(i)
    <2>1. Fail(i)
      BY <1>2 DEF BuildFails, ReadSecretsFail, InstallFails, SwitchRefuses, ActivateFails
    <2> QED
      BY <2>1, PhasesAfterFail
  <1>3. CASE CopySecretsFail(i) \/ PushFails(i)
    <2>1. RetryOrFail(i) /\ pc[i] \in {"copy", "push"}
      BY <1>3 DEF CopySecretsFail, PushFails
    <2> QED
      BY <2>1, PhasesAfterRetry
  <1>4. CASE StartApply(i)
    <2>1. pc'[i] = "build" /\ diag'[i] = "none" /\ tfstate'[i] = tfstate[i]
      BY <1>4, <1>t DEF StartApply, Goto
    <2>2. pc'[i] \notin Deploying
      BY <2>1 DEF Deploying
    <2>3. RecordPhase(i)'
      BY <1>p, <2>1 DEF RecordPhase
    <2> QED
      BY <2>2, <2>3, QuietPhase
  <1>5. CASE ReadSecrets(i)
    <2>1. /\ pc[i] \in Deploying
          /\ pc'[i] = "copy"
          /\ UNCHANGED <<tfstate, diag, host>>
          /\ local'[i] = [local[i] EXCEPT !.data = content, !.retry = Retries]
      BY <1>5, <1>t DEF ReadSecrets, Goto, Deploying
    <2>2. local'[i].data = content
      BY <1>t, <2>1 DEF Locals
    <2>3. content \in Contents
      BY DEF IInv, TypeOK, InstTypeOK
    <2>4. DeployPhase(i)'
      BY <2>1, <2>2, <2>3, <1>5 DEF DeployPhase, ReadSecrets
    <2> QED
      BY <1>a, <2>1, <2>4, RecordKept
  <1>6. CASE CopySecrets(i)
    <2>1. /\ pc[i] = "copy" /\ pc'[i] = "push"
          /\ UNCHANGED <<tfstate, diag, wanted>>
          /\ local'[i] = [local[i] EXCEPT !.todo =
                IF local[i].derivation = NoDerivation THEN {} ELSE OutputNames]
          /\ host'[machine] = [host[machine] EXCEPT !.files = local[i].data]
      BY <1>6, <1>t DEF CopySecrets, Goto, given
    <2>2. /\ local'[i].data = local[i].data
          /\ local'[i].derivation = local[i].derivation
          /\ local'[i].todo = IF local[i].derivation = NoDerivation THEN {} ELSE OutputNames
      BY <1>t, <2>1 DEF Locals
    <2>3. host'[machine].files = local[i].data
      BY <1>t, <2>1 DEF Host
    <2>4. local[i].data \in Contents
      BY <1>p, <2>1 DEF DeployPhase
    <2>5. Target(i)' = machine
      BY <2>1 DEF Target
    <2>6. DeployPhase(i)'
      BY <2>1, <2>2, <2>3, <2>4, <2>5 DEF DeployPhase
    <2>7. pc[i] \in Deploying
      BY <2>1 DEF Deploying
    <2> QED
      BY <1>a, <2>1, <2>6, <2>7, RecordKept
  <1>7. CASE PushOutput(i)
    <2>1. PICK name \in local[i].todo :
              /\ host' = [host EXCEPT ![machine].store = @ \cup {<<local[i].derivation, name>>}]
              /\ local' = [local EXCEPT ![i].todo = @ \ {name}]
      BY <1>7 DEF PushOutput
    <2>2. /\ pc[i] = "push" /\ pc'[i] = pc[i]
          /\ UNCHANGED <<tfstate, diag, wanted>>
          /\ local'[i] = [local[i] EXCEPT !.todo = @ \ {name}]
          /\ host'[machine] =
                 [host[machine] EXCEPT !.store = @ \cup {<<local[i].derivation, name>>}]
      BY <1>7, <1>t, <2>1 DEF PushOutput, given
    <2>3. /\ local'[i].derivation = local[i].derivation
          /\ local'[i].data = local[i].data
          /\ local'[i].todo = local[i].todo \ {name}
      BY <1>t, <2>2 DEF Locals
    <2>4. /\ host'[machine].files = host[machine].files
          /\ host'[machine].store = host[machine].store \cup {<<local[i].derivation, name>>}
      BY <1>t, <2>2 DEF Host
    <2>5. local[i].derivation # NoDerivation
      BY <1>p, <2>1, <2>2 DEF DeployPhase
    <2>6. {local[i].derivation} \X (OutputNames \ local'[i].todo) \subseteq host'[machine].store
      <3> SUFFICES ASSUME NEW o \in OutputNames, o \notin local'[i].todo
                   PROVE  <<local[i].derivation, o>> \in host'[machine].store
        OBVIOUS
      <3>1. o = name \/ o \in OutputNames \ local[i].todo
        BY <2>3
      <3>2. {local[i].derivation} \X (OutputNames \ local[i].todo) \subseteq host[machine].store
        BY <1>p, <2>2, <2>5 DEF DeployPhase
      <3> QED
        BY <2>4, <3>1, <3>2
    <2>7. Target(i)' = machine
      BY <2>2 DEF Target
    <2>8. local[i].data \in Contents /\ host[machine].files = local[i].data
      BY <1>p, <2>2 DEF DeployPhase
    <2>9. DeployPhase(i)'
      BY <2>2, <2>3, <2>4, <2>5, <2>6, <2>7, <2>8 DEF DeployPhase
    <2>10. pc[i] \in Deploying
      BY <2>2 DEF Deploying
    <2> QED
      BY <1>a, <2>2, <2>9, <2>10, RecordKept
  <1>8. CASE PushReturns(i)
    <2>1. /\ pc[i] = "push" /\ pc'[i] = "install"
          /\ local[i].todo = {} \/ ctxDone[i]
          /\ UNCHANGED <<tfstate, diag, host, wanted, local, ctxDone>>
      BY <1>8, <1>t DEF PushReturns, Goto, given
    <2>2. Target(i)' = machine
      BY <2>1 DEF Target
    <2>3. ~ctxDone[i] => OutputNames \ local[i].todo = OutputNames
      BY <2>1
    <2>4. local[i].derivation # NoDerivation /\ ~ctxDone[i] =>
              {local[i].derivation} \X OutputNames \subseteq host[machine].store
      BY <1>p, <2>1, <2>3 DEF DeployPhase
    <2>5. local[i].data \in Contents /\ host[machine].files = local[i].data
      BY <1>p, <2>1 DEF DeployPhase
    <2>6. DeployPhase(i)'
      BY <2>1, <2>2, <2>4, <2>5 DEF DeployPhase
    <2>7. pc[i] \in Deploying
      BY <2>1 DEF Deploying
    <2> QED
      BY <1>a, <2>1, <2>6, <2>7, RecordKept
  <1>9. CASE Install(i)
    <2>1. /\ pc[i] = "install"
          /\ pc'[i] = IF wanted[i].activation = "none" THEN "record" ELSE "activate"
          /\ local[i].derivation # NoDerivation
          /\ <<local[i].derivation, MainOutput>> \in host[machine].store
          /\ host'[machine] = [host[machine] EXCEPT !.profile = local[i].derivation]
          /\ UNCHANGED <<wanted, tfstate, diag, local>>
      BY <1>9, <1>t DEF Install, Installable, Goto, given
    <2>2. /\ host'[machine].files = host[machine].files
          /\ host'[machine].store = host[machine].store
          /\ host'[machine].profile = local[i].derivation
      BY <1>t, <2>1 DEF Host
    <2>3. Target(i)' = machine
      BY <2>1 DEF Target
    <2>4. local[i].data \in Contents /\ host[machine].files = local[i].data
      BY <1>p, <2>1 DEF DeployPhase
    <2>5. DeployPhase(i)'
      BY <2>1, <2>2, <2>3, <2>4 DEF DeployPhase
    <2>6. pc[i] \in Deploying
      BY <2>1 DEF Deploying
    <2> QED
      BY <1>a, <2>1, <2>5, <2>6, RecordKept
  <1>10. CASE Activate(i)
    <2>1. /\ pc[i] = "activate" /\ pc'[i] = "record"
          /\ host'[machine] = [host[machine] EXCEPT !.activated = host[machine].profile]
          /\ UNCHANGED <<wanted, tfstate, diag, local>>
      BY <1>10, <1>t DEF Activate, Goto, given
    <2>2. /\ host'[machine].files = host[machine].files
          /\ host'[machine].store = host[machine].store
          /\ host'[machine].profile = host[machine].profile
          /\ host'[machine].activated = host[machine].profile
      BY <1>t, <2>1 DEF Host
    <2>3. Target(i)' = machine
      BY <2>1 DEF Target
    <2>4. /\ local[i].data \in Contents /\ host[machine].files = local[i].data
          /\ local[i].derivation # NoDerivation
          /\ host[machine].profile = local[i].derivation
          /\ <<local[i].derivation, MainOutput>> \in host[machine].store
      BY <1>p, <2>1 DEF DeployPhase
    <2>5. DeployPhase(i)'
      BY <2>1, <2>2, <2>3, <2>4 DEF DeployPhase
    <2>6. pc[i] \in Deploying
      BY <2>1 DEF Deploying
    <2> QED
      BY <1>a, <2>1, <2>5, <2>6, RecordKept
  <1>11. CASE RecordApply(i)
    <2>1. /\ pc[i] = "record" /\ pc'[i] = "idle"
          /\ tfstate'[i] = [config      |-> wanted[i],
                            derivation  |-> local[i].derivation,
                            fingerprint |-> local[i].data]
          /\ diag'[i] = "ok"
          /\ UNCHANGED <<wanted, host>>
      BY <1>11, <1>t DEF RecordApply, Finish, given
    <2>2. /\ local[i].data \in Contents /\ host[machine].files = local[i].data
          /\ local[i].derivation # NoDerivation
          /\ host[machine].profile = local[i].derivation
          /\ <<local[i].derivation, MainOutput>> \in host[machine].store
          /\ wanted[i].activation = "switch" => host[machine].activated = local[i].derivation
      BY <1>p, <2>1 DEF DeployPhase
    <2>3. local[i].derivation \in Derivation
      BY <1>t, <2>2 DEF Locals
    <2>4. tfstate'[i] \in Record
      BY <1>t, <2>1, <2>2, <2>3 DEF Record
    <2>5. tfstate'[i].config = wanted[i] /\ tfstate'[i].config.address = machine
      BY <2>1 DEF Target
    <2>6. HostMatches(i)'
      BY <2>1, <2>2, <2>5 DEF HostMatches
    <2>7. pc'[i] \notin Deploying /\ pc'[i] \notin Applying
      BY <2>1 DEF Deploying, Applying
    <2>8. tfstate'[i] # NoState
      BY <2>4, AbsenceAssumption
    <2>9. RecordPhase(i)'
      BY <1>t, <2>1, <2>5, <2>6, <2>7, <2>8 DEF RecordPhase
    <2> QED
      BY <2>7, <2>9, QuietPhase
  <1>12. CASE Destroy(i)
    <2>1. pc'[i] = "idle" /\ diag'[i] = "none" /\ tfstate'[i] = NoState
      BY <1>12, <1>t DEF Destroy
    <2>2. pc'[i] \notin Deploying /\ pc'[i] \notin Applying
      BY <2>1 DEF Deploying, Applying
    <2>3. RecordPhase(i)'
      BY <2>1, <2>2 DEF RecordPhase
    <2> QED
      BY <2>2, <2>3, QuietPhase
  <1>13. CASE CtxDone(i)
    <2>1. /\ ctxDone'[i] = TRUE
          /\ UNCHANGED <<tfstate, diag, pc, host, wanted, local>>
      BY <1>13 DEF CtxDone, given, IInv, TypeOK, InstTypeOK
    <2>2. DeployPhase(i)'
      BY <1>p, <2>1 DEF DeployPhase, Target
    <2> QED
      BY <2>1, <2>2, RecordKept
  <1>14. CASE MemoStep(i)
    <2>1. UNCHANGED <<tfstate, diag, pc, host, wanted, local, ctxDone>>
      BY <1>14 DEF MemoStep, instVars, given
    <2>2. DeployPhase(i)'
      BY <1>p, <2>1 DEF DeployPhase, Target
    <2> QED
      BY <2>1, <2>2, RecordKept
  <1>15. CASE EditConfig(i)
    <2>1. pc[i] = "idle" /\ UNCHANGED <<tfstate, diag, pc, host>>
      BY <1>15 DEF EditConfig
    <2>2. pc'[i] \notin Deploying
      BY <2>1 DEF Deploying
    <2> QED
      BY <2>1, <2>2, QuietPhase, RecordKept
  <1> QED
    BY <1>1, <1>2, <1>3, <1>4, <1>5, <1>6, <1>7, <1>8, <1>9, <1>10, <1>11, <1>12, <1>13,
       <1>14, <1>15 DEF Own

-----------------------------------------------------------------------------
(* The invariant and what follows from it.                                  *)

\* Killing the process is safe at any moment: nothing is recorded, and what was
\* in flight is reported as failed.
LEMMA NewProcessStep ==
    ASSUME IInv, NewProcess, command' \in {"plan", "apply"}, due' \in SUBSET Instances
    PROVE  InstTypeOK' /\ DeployInvariant'
  <1> USE DEF IInv, TypeOK, InstTypeOK, NewProcess
  <1>1. NoLocals \in Locals
    BY DeployAssumption DEF NoLocals, Locals
  <1>2. InstTypeOK'
    BY <1>1
  <1>3. ASSUME NEW i \in Instances PROVE DeployPhase(i)' /\ RecordPhase(i)'
    <2>1. pc'[i] = "idle" /\ diag'[i] = IF pc[i] \in Applying THEN "error" ELSE diag[i]
      OBVIOUS
    <2>2. UNCHANGED <<wanted, tfstate, host>>
      OBVIOUS
    <2>3. DeployPhase(i)'
      BY <2>1 DEF DeployPhase
    <2>4. diag'[i] = "ok" => diag[i] = "ok"
      BY <2>1
    <2>5. pc'[i] \notin Applying
      BY <2>1 DEF Applying, Deploying
    <2>6. HostMatches(i)' = HostMatches(i)
      BY <2>2 DEF HostMatches
    <2>7. RecordPhase(i)
      BY DEF DeployInvariant
    <2>8. RecordPhase(i)'
      BY <2>2, <2>4, <2>5, <2>6, <2>7 DEF RecordPhase
    <2> QED
      BY <2>3, <2>8
  <1> QED
    BY <1>2, <1>3 DEF DeployInvariant

LEMMA InductiveStep ==
    ASSUME IInv, [Next]_vars
    PROVE  IInv'
  <1>0. MemoTypeOK'
    BY StepUsesMemo, MemoTypeStep DEF IInv, TypeOK
  <1>1. ASSUME NEW i \in Instances, Own(i) PROVE InstTypeOK' /\ DeployInvariant'
    <2>1. InstTypeOK'
      BY <1>1, OwnTypeStep
    <2>2. OnlyMine(i)
      BY <1>1, OwnFrame DEF IInv
    <2>3. \A j \in Instances \ {i} : DeployPhase(j)' /\ RecordPhase(j)'
      BY <2>2, OthersKept
    <2>4. DeployPhase(i)' /\ RecordPhase(i)'
      BY <1>1, OwnPhaseStep
    <2> QED
      BY <2>1, <2>3, <2>4 DEF DeployInvariant
  <1>2. CASE NewPlan \/ Approve
    <2>1. NewProcess /\ command' \in {"plan", "apply"} /\ due' \in SUBSET Instances
      BY <1>2 DEF NewPlan, Approve, Changes
    <2> QED
      BY <1>0, <2>1, NewProcessStep DEF IInv, TypeOK
  <1>3. CASE EditNix \/ UNCHANGED vars
    <2>1. UNCHANGED instVars
      BY <1>3 DEF EditNix, vars
    <2>2. InstTypeOK'
      BY <2>1 DEF IInv, TypeOK, InstTypeOK, instVars, given
    <2>3. DeployInvariant'
      BY <2>1 DEF IInv, DeployInvariant, DeployPhase, RecordPhase, HostMatches, Target,
                  instVars, given
    <2> QED
      BY <1>0, <2>2, <2>3 DEF IInv, TypeOK
  <1>4. CASE EditSecret
    <2>1. InstTypeOK'
      BY <1>4 DEF IInv, TypeOK, InstTypeOK, EditSecret
    <2>2. DeployInvariant'
      BY <1>4 DEF IInv, DeployInvariant, DeployPhase, RecordPhase, HostMatches, Target, EditSecret
    <2> QED
      BY <1>0, <2>1, <2>2 DEF IInv, TypeOK
  <1>5. ASSUME NEW i \in Instances, Step(i) \/ User(i) \/ CtxDone(i)
        PROVE  Own(i) \/ NewPlan
    BY <1>5 DEF Step, Progress, Failure, User, Own, SwitchPanics
  <1> QED
    BY <1>0, <1>1, <1>2, <1>3, <1>4, <1>5 DEF Next, ProcessExit, Crash, IInv, TypeOK

LEMMA Inductive == Spec => []IInv
  <1>1. Init => IInv
    <2> SUFFICES ASSUME Init PROVE IInv
      OBVIOUS
    <2>1. MemoTypeOK
      BY RevisionAssumption DEF Init, MemoInit, MemoTypeOK, Output
    <2>2. NoLocals \in Locals /\ NewHost \in Host
      BY DeployAssumption DEF NoLocals, Locals, NewHost, Host
    <2>3. InstTypeOK
      BY <2>2, ContentAssumption DEF Init, InstTypeOK
    <2>4. DeployInvariant
      BY DEF Init, DeployInvariant, DeployPhase, RecordPhase, Applying, Deploying
    <2> QED
      BY <2>1, <2>3, <2>4 DEF IInv, TypeOK
  <1>2. IInv /\ [Next]_vars => IInv'
    BY InductiveStep
  <1> QED
    BY <1>1, <1>2, PTL DEF Spec

\* Type correctness, the bound of the retries included (instance.go:197-218).
THEOREM TypeCorrect == Spec => []TypeOK
  <1>1. IInv => TypeOK
    BY DEF IInv
  <1> QED
    BY <1>1, Inductive, PTL

\* After each statement of Create the machine is where the code assumes it is
\* (instance.go:175-252).
THEOREM DeploysInOrder == Spec => []DeployInvariant
  <1>1. IInv => DeployInvariant
    BY DEF IInv
  <1> QED
    BY <1>1, Inductive, PTL

\* A successful apply means what it says: profile, activation and secrets of the
\* machine are the recorded ones (instance.go:175-252, provider.go:465-576).
THEOREM SuccessIsInSync == Spec => []InSync
  <1>1. IInv => InSync
    BY DEF IInv, DeployInvariant, RecordPhase, InSync
  <1> QED
    BY <1>1, Inductive, PTL

\* Without a derivation Switch panics before it touches the machine.
LEMMA NothingToInstall ==
    ASSUME IInv, [Next]_vars, NEW i \in Instances, At(i, "install"),
           local[i].derivation = NoDerivation
    PROVE  host'[Target(i)] = host[Target(i)]
  <1>1. ASSUME Own(i) PROVE UNCHANGED host
    <2>1. CASE InstallFails(i) \/ Install(i) \/ SwitchRefuses(i)
      BY <2>1 DEF InstallFails, Install, SwitchRefuses
    <2>2. CASE CtxDone(i) \/ MemoStep(i)
      BY <2>2 DEF CtxDone, MemoStep, instVars
    <2>3. ASSUME ~(InstallFails(i) \/ Install(i) \/ SwitchRefuses(i)),
                 ~(CtxDone(i) \/ MemoStep(i))
          PROVE  FALSE
      BY <1>1, <2>3
         DEF At, Own, StartDiff, DiffSecrets, DiffSecretsFail, DiffBuild, DiffBuildCancelled,
             DiffBuildFails, DiffCompare, StartApply, Build, BuildCancelled,
             BuildFails, BuildReturns, ReadSecrets, ReadSecretsFail, CopySecrets,
             CopySecretsFail, PushOutput, PushFails, PushReturns, Activate,
             ActivateFails, RecordApply, Destroy, EditConfig
    <2> QED
      BY <2>1, <2>2, <2>3
  <1>2. ASSUME NEW j \in Instances \ {i}, Own(j) PROVE host'[Target(i)] = host[Target(i)]
    BY <1>2, OwnFrame, ApartHosts, TargetType DEF IInv, OnlyMine
  <1>3. ASSUME NewProcess \/ EditNix \/ EditSecret \/ UNCHANGED vars PROVE UNCHANGED host
    BY <1>3 DEF NewProcess, EditNix, EditSecret, vars, instVars
  <1>4. ASSUME NEW j \in Instances, Step(j) \/ User(j) \/ CtxDone(j)
        PROVE  Own(j) \/ NewProcess
    BY <1>4 DEF Step, Progress, Failure, User, Own, SwitchPanics, NewPlan
  <1> QED
    BY <1>1, <1>2, <1>3, <1>4 DEF Next, Approve, ProcessExit, Crash, NewPlan

\* No machine is switched to a system before its secrets and, cancellation
\* apart, all outputs are there (instance.go:199-222).
THEOREM SwitchedWhenReady == Spec => SwitchesWhenReady
  <1>1. IInv /\ [Next]_vars =>
          [ \A i \in Instances :
              At(i, "install") /\ host'[Target(i)].profile # host[Target(i)].profile =>
                  /\ host[Target(i)].files = local[i].data
                  /\ ~ctxDone[i] =>
                        {local[i].derivation} \X OutputNames \subseteq host[Target(i)].store
          ]_vars
    BY NothingToInstall DEF IInv, DeployInvariant, DeployPhase, At
  <1> QED
    BY <1>1, Inductive, PTL DEF Spec, SwitchesWhenReady

-----------------------------------------------------------------------------
(* What a record is worth: RecordedWasDeployed.                             *)

\* Machines lose nothing of what was pushed.
LEMMA StoresGrow ==
    ASSUME IInv, [Next]_vars, NEW h \in Hosts
    PROVE  host[h].store \subseteq host'[h].store
  <1>t. host \in [Hosts -> Host]
    BY DEF IInv, TypeOK, InstTypeOK
  <1>1. ASSUME NEW i \in Instances, Step(i) \/ User(i) \/ CtxDone(i)
        PROVE  host[h].store \subseteq host'[h].store
    <2>t. Target(i) \in Hosts
      BY TargetType DEF IInv
    <2>1. CASE CopySecrets(i)
      BY <1>t, <2>t, <2>1 DEF CopySecrets, Host
    <2>2. CASE CopySecretsFail(i)
      <3>1. PICK left : host' = [host EXCEPT ![Target(i)].files = left]
        BY <2>2 DEF CopySecretsFail
      <3> QED
        BY <1>t, <2>t, <3>1 DEF Host
    <2>3. CASE PushOutput(i) \/ PushFails(i)
      <3>1. \/ UNCHANGED host
            \/ \E pushed : host' = [host EXCEPT ![Target(i)].store = @ \cup {pushed}]
        BY <2>3 DEF PushOutput, PushFails
      <3> QED
        BY <1>t, <2>t, <3>1 DEF Host
    <2>4. CASE Install(i) \/ InstallFails(i)
      <3>1. \/ UNCHANGED host
            \/ host' = [host EXCEPT ![Target(i)].profile = local[i].derivation]
        BY <2>4 DEF Install, InstallFails
      <3> QED
        BY <1>t, <2>t, <3>1 DEF Host
    <2>5. CASE Activate(i) \/ ActivateFails(i)
      <3>1. \/ UNCHANGED host
            \/ host' = [host EXCEPT ![Target(i)].activated = host[Target(i)].profile]
        BY <2>5 DEF Activate, ActivateFails
      <3> QED
        BY <1>t, <2>t, <3>1 DEF Host
    <2>6. CASE \/ DiffSecrets(i) \/ DiffSecretsFail(i) \/ DiffBuild(i) \/ DiffBuildCancelled(i)
               \/ DiffBuildFails(i) \/ DiffCompare(i) \/ Build(i) \/ BuildCancelled(i)
               \/ BuildFails(i) \/ BuildReturns(i) \/ ReadSecrets(i) \/ ReadSecretsFail(i)
      BY <2>6 DEF DiffSecrets, DiffSecretsFail, DiffBuild, DiffBuildCancelled, DiffBuildFails,
                  DiffCompare, Build, BuildCancelled, BuildFails, BuildReturns, ReadSecrets,
                  ReadSecretsFail, DropDiff
    <2>7. CASE \/ PushReturns(i) \/ SwitchRefuses(i) \/ SwitchPanics(i) \/ RecordApply(i)
               \/ MemoStep(i) \/ User(i) \/ CtxDone(i)
      BY <2>7 DEF PushReturns, SwitchRefuses, SwitchPanics, NewPlan, NewProcess, RecordApply,
                  MemoStep, instVars, User, StartDiff, StartApply, Destroy, EditConfig, CtxDone
    <2> QED
      BY <1>1, <2>1, <2>2, <2>3, <2>4, <2>5, <2>6, <2>7 DEF Step, Progress, Failure
  <1>2. CASE EditNix \/ EditSecret \/ Approve \/ ProcessExit \/ Crash \/ UNCHANGED vars
    BY <1>2 DEF EditNix, EditSecret, Approve, ProcessExit, Crash, NewPlan, NewProcess, vars,
                instVars
  <1> QED
    BY <1>1, <1>2 DEF Next

\* A derivation gets into a record by RecordApply alone: failures keep the old one.
LEMMA DerivationRecorded ==
    ASSUME IInv, [Next]_vars, NEW i \in Instances, tfstate'[i] # NoState
    PROVE  \/ tfstate[i] # NoState /\ tfstate'[i].derivation = tfstate[i].derivation
           \/ pc[i] = "record" /\ tfstate'[i].derivation = local[i].derivation
  <1>t. /\ tfstate \in [Instances -> Record \cup {NoState}]
        /\ tfstate[i] # NoState => tfstate[i] \in Record
    BY DEF IInv, TypeOK, InstTypeOK
  <1>1. ASSUME UNCHANGED tfstate[i]
        PROVE  tfstate[i] # NoState /\ tfstate'[i].derivation = tfstate[i].derivation
    BY <1>1
  <1>2. ASSUME Fail(i)
        PROVE  tfstate[i] # NoState /\ tfstate'[i].derivation = tfstate[i].derivation
    <2>1. tfstate'[i] = IF tfstate[i] = NoState THEN tfstate[i]
                        ELSE [tfstate[i] EXCEPT !.config = wanted[i]]
      BY <1>2, <1>t DEF Fail
    <2> QED
      BY <1>t, <2>1 DEF Record
  <1>3. ASSUME Own(i)
        PROVE  \/ tfstate[i] # NoState /\ tfstate'[i].derivation = tfstate[i].derivation
               \/ pc[i] = "record" /\ tfstate'[i].derivation = local[i].derivation
    <2>1. CASE RecordApply(i)
      BY <1>t, <2>1 DEF RecordApply, At
    <2>2. CASE Destroy(i)
      BY <1>t, <2>2 DEF Destroy
    <2>3. CASE \/ BuildFails(i) \/ ReadSecretsFail(i) \/ CopySecretsFail(i) \/ PushFails(i)
               \/ InstallFails(i) \/ SwitchRefuses(i) \/ ActivateFails(i)
      <3>1. Fail(i) \/ UNCHANGED tfstate
        BY <2>3 DEF BuildFails, ReadSecretsFail, CopySecretsFail, PushFails, InstallFails,
                    SwitchRefuses, ActivateFails, RetryOrFail
      <3> QED
        BY <1>1, <1>2, <3>1
    <2>4. CASE \/ StartDiff(i) \/ DiffSecrets(i) \/ DiffSecretsFail(i) \/ DiffBuild(i)
               \/ DiffBuildCancelled(i) \/ DiffBuildFails(i) \/ DiffCompare(i) \/ StartApply(i)
      BY <1>1, <2>4 DEF StartDiff, DiffSecrets, DiffSecretsFail, DiffBuild, DiffBuildCancelled,
                        DiffBuildFails, DiffCompare, StartApply, DropDiff
    <2>5. CASE \/ Build(i) \/ BuildCancelled(i) \/ BuildReturns(i) \/ ReadSecrets(i)
               \/ CopySecrets(i) \/ PushOutput(i) \/ PushReturns(i) \/ Install(i)
               \/ Activate(i) \/ CtxDone(i) \/ MemoStep(i) \/ EditConfig(i)
      BY <1>1, <2>5 DEF Build, BuildCancelled, BuildReturns, ReadSecrets, CopySecrets,
                        PushOutput, PushReturns, Install, Activate, CtxDone, MemoStep,
                        EditConfig, instVars
    <2> QED
      BY <1>3, <2>1, <2>2, <2>3, <2>4, <2>5 DEF Own
  <1>4. ASSUME NEW j \in Instances \ {i}, Own(j) PROVE UNCHANGED tfstate[i]
    BY <1>4, OwnFrame DEF IInv, OnlyMine
  <1>5. ASSUME NewProcess \/ EditNix \/ EditSecret \/ UNCHANGED vars PROVE UNCHANGED tfstate[i]
    BY <1>5 DEF NewProcess, EditNix, EditSecret, vars, instVars
  <1>6. ASSUME NEW j \in Instances, Step(j) \/ User(j) \/ CtxDone(j)
        PROVE  Own(j) \/ NewProcess
    BY <1>6 DEF Step, Progress, Failure, User, Own, SwitchPanics, NewPlan
  <1> QED
    BY <1>1, <1>3, <1>4, <1>5, <1>6 DEF Next, Approve, ProcessExit, Crash, NewPlan

\* Whatever failed, was cancelled or crashed, a record's derivation was pushed to one of
\* the instance's machines (instance.go:229-252 comes after Push and Switch, and what
\* returns an error before it leaves the derivation of the last success).
THEOREM RecordsWereDeployed == Spec => []RecordedWasDeployed
  <1>1. Init => RecordedWasDeployed
    BY DEF Init, RecordedWasDeployed
  <1>2. RecordedWasDeployed /\ IInv /\ [Next]_vars => RecordedWasDeployed'
    <2> SUFFICES ASSUME RecordedWasDeployed, IInv, [Next]_vars, NEW i \in Instances,
                        tfstate'[i] # NoState
                 PROVE  \E c \in ConfigsOf[i] :
                           <<tfstate'[i].derivation, MainOutput>> \in host'[c.address].store
      BY DEF RecordedWasDeployed
    <2>1. PICK c \in ConfigsOf[i] :
             <<tfstate'[i].derivation, MainOutput>> \in host[c.address].store
      <3>1. CASE tfstate[i] # NoState /\ tfstate'[i].derivation = tfstate[i].derivation
        BY <3>1 DEF RecordedWasDeployed
      <3>2. CASE pc[i] = "record" /\ tfstate'[i].derivation = local[i].derivation
        <4>1. <<local[i].derivation, MainOutput>> \in host[wanted[i].address].store
          BY <3>2 DEF IInv, DeployInvariant, DeployPhase, Target
        <4>2. wanted[i] \in ConfigsOf[i]
          BY DEF IInv, TypeOK, InstTypeOK
        <4> QED
          BY <3>2, <4>1, <4>2
      <3> QED
        BY <3>1, <3>2, DerivationRecorded
    <2>2. c.address \in Hosts
      BY ConfigAssumption DEF Config
    <2> QED
      BY <2>1, <2>2, StoresGrow
  <1> QED
    BY <1>1, <1>2, Inductive, PTL DEF Spec

-----------------------------------------------------------------------------
(* How long an operation may take: what is behind OperationsEnd.            *)

\* The steps from one copy of the secrets to the next, and those of all rounds.
Round  == Cardinality(OutputNames) + 6
Rounds == (Retries + 1) * Round

\* The steps an operation may still make.
Rank(i) ==
    CASE pc[i] = "diffSecrets" -> 6
      [] pc[i] = "diffBuild"   -> 5
      [] pc[i] = "diffWait"    -> 1 + CallRank(i)
      [] pc[i] = "build"       -> Rounds + 6
      [] pc[i] = "wait"        -> Rounds + 1 + CallRank(i)
      [] pc[i] = "secrets"     -> Rounds
      [] pc[i] = "copy"        -> local[i].retry * Round + Round - 1
      [] pc[i] = "push"        -> local[i].retry * Round + Cardinality(local[i].todo) + 4
      [] pc[i] = "install"     -> 3
      [] pc[i] = "activate"    -> 2
      [] pc[i] = "record"      -> 1
      [] OTHER                 -> 0

\* An operation waits for a call of Execute exactly while that call is made: it
\* never waits for an answer nobody will give, and leaves no call behind.
CallMatches ==
    \A i \in Instances : pc[i] \in {"diffWait", "wait"} <=> call[i] # "idle"

\* Where an operation may be.
LEMMA Positions ==
    ASSUME TypeOK, NEW i \in Instances
    PROVE  pc[i] \in {"idle", "diffSecrets", "diffBuild", "diffWait", "build", "wait",
                      "secrets", "copy", "push", "install", "activate", "record"}
  BY DEF TypeOK, InstTypeOK, Diffing, Applying, Deploying

LEMMA Products ==
    ASSUME NEW q \in Nat, NEW m \in Nat, NEW r \in 0 .. m
    PROVE  /\ r * q \in Nat
           /\ r * q <= m * q
           /\ (m + 1) * q = m * q + q
           /\ r > 0 => (r - 1) * q = r * q - q
  <1>1. r * q \in Nat /\ m * q \in Nat /\ (m - r) * q \in Nat
    OBVIOUS
  <1>2. (m - r) * q = m * q - r * q
    OBVIOUS
  <1> QED
    BY <1>1, <1>2

\* The numbers a rank is made of.
LEMMA RankNumbers ==
    ASSUME TypeOK, NEW i \in Instances
    PROVE  /\ Round \in Nat /\ Round >= 7
           /\ Cardinality(OutputNames) = Round - 6
           /\ IsFiniteSet(local[i].todo)
           /\ Cardinality(local[i].todo) \in 0 .. Round - 6
           /\ local[i].retry \in 0 .. Retries
           /\ CallRank(i) \in 0 .. 3
  <1>1. IsFiniteSet(OutputNames) /\ Cardinality(OutputNames) \in Nat
    BY DeployAssumption, FS_CardinalityType
  <1>2. Cardinality(OutputNames) # 0
    BY <1>1, DeployAssumption, FS_EmptySet
  <1>3. local[i].todo \subseteq OutputNames /\ local[i].retry \in 0 .. Retries
    BY DEF TypeOK, InstTypeOK, Locals
  <1>4. IsFiniteSet(local[i].todo) /\ Cardinality(local[i].todo) <= Cardinality(OutputNames)
    BY <1>1, <1>3, FS_Subset
  <1>5. Cardinality(local[i].todo) \in Nat
    BY <1>4, FS_CardinalityType
  <1>6. CallRank(i) \in 0 .. 3
    BY DEF CallRank
  <1> QED
    BY <1>1, <1>2, <1>3, <1>4, <1>5, <1>6 DEF Round

\* A rank is a number, and 0 between operations only.
LEMMA RankType ==
    ASSUME TypeOK, NEW i \in Instances
    PROVE  /\ Rank(i) \in 0 .. Rounds + 6
           /\ Rank(i) = 0 <=> At(i, "idle")
  <1> DEFINE r == local[i].retry * Round
             m == Retries * Round
             t == Cardinality(local[i].todo)
  <1>1. /\ Round \in Nat /\ Round >= 7
        /\ t \in 0 .. Round - 6
        /\ CallRank(i) \in 0 .. 3
    BY RankNumbers
  <1>2. r \in Nat /\ m \in Nat /\ r <= m /\ Rounds = m + Round
    BY RankNumbers, Products, DeployAssumption DEF Rounds
  <1> HIDE DEF r, m, t
  <1>3. Rank(i) = CASE pc[i] = "diffSecrets" -> 6
                    [] pc[i] = "diffBuild"   -> 5
                    [] pc[i] = "diffWait"    -> 1 + CallRank(i)
                    [] pc[i] = "build"       -> Rounds + 6
                    [] pc[i] = "wait"        -> Rounds + 1 + CallRank(i)
                    [] pc[i] = "secrets"     -> Rounds
                    [] pc[i] = "copy"        -> r + Round - 1
                    [] pc[i] = "push"        -> r + t + 4
                    [] pc[i] = "install"     -> 3
                    [] pc[i] = "activate"    -> 2
                    [] pc[i] = "record"      -> 1
                    [] OTHER                 -> 0
    BY DEF Rank, r, t
  <1> QED
    BY <1>1, <1>2, <1>3, Positions DEF At

\* The calls of the others are their own.
LEMMA OwnCallOnly ==
    ASSUME TypeOK, NEW i \in Instances, Own(i), NEW j \in Instances \ {i}
    PROVE  call'[j] = call[j]
  <1> USE DEF TypeOK, MemoTypeOK
  <1>1. CASE DiffBuild(i) \/ Build(i)
    BY <1>1 DEF DiffBuild, Build, Request
  <1>2. CASE DiffBuildFails(i) \/ DiffCompare(i) \/ BuildFails(i) \/ BuildReturns(i)
    BY <1>2 DEF DiffBuildFails, DiffCompare, BuildFails, BuildReturns, Return
  <1>3. CASE MemoStep(i)
    BY <1>3 DEF MemoStep, CallStep, LookupHit, LookupMiss, Execute, ExecuteMalformed,
                ExecuteFails, Publish
  <1>4. CASE ~(DiffBuild(i) \/ Build(i) \/ DiffBuildFails(i) \/ DiffCompare(i) \/ BuildFails(i)
               \/ BuildReturns(i) \/ MemoStep(i))
    BY <1>4 DEF Own, StartDiff, DiffSecrets, DiffSecretsFail, DiffBuildCancelled, StartApply,
                BuildCancelled, ReadSecrets, ReadSecretsFail, CopySecrets, CopySecretsFail,
                PushOutput, PushFails, PushReturns, Install, InstallFails, SwitchRefuses,
                Activate, ActivateFails, RecordApply, Destroy, CtxDone, EditConfig, memoVars
  <1> QED
    BY <1>1, <1>2, <1>3, <1>4

\* A call begins when the operation begins to wait, and ends when it goes on.
LEMMA OwnCallMatches ==
    ASSUME TypeOK, NEW i \in Instances, Own(i),
           pc[i] \in {"diffWait", "wait"} <=> call[i] # "idle"
    PROVE  pc'[i] \in {"diffWait", "wait"} <=> call'[i] # "idle"
  <1> USE DEF At, Goto, Finish
  <1>t. /\ call \in [Instances -> {"idle", "lookup", "execute", "publish", "returned"}]
        /\ pc \in [Instances -> {"idle"} \cup Diffing \cup Applying]
    BY DEF TypeOK, MemoTypeOK, InstTypeOK
  <1>1. CASE DiffBuild(i) \/ Build(i)
    BY <1>1, <1>t DEF DiffBuild, Build, Request
  <1>2. CASE DiffBuildFails(i) \/ DiffCompare(i) \/ BuildFails(i) \/ BuildReturns(i)
    <2>1. call'[i] = "idle"
      BY <1>2, <1>t DEF DiffBuildFails, DiffCompare, BuildFails, BuildReturns, Return
    <2>2. pc'[i] \in {"idle", "secrets"}
      BY <1>2, <1>t DEF DiffBuildFails, DiffCompare, BuildFails, BuildReturns, DropDiff, Fail
    <2> QED
      BY <2>1, <2>2
  <1>3. CASE MemoStep(i)
    <2>1. pc' = pc /\ call[i] # "idle"
      BY <1>3 DEF MemoStep, instVars, CallStep, LookupHit, LookupMiss, Execute,
                  ExecuteMalformed, ExecuteFails, Publish
    <2>2. call'[i] # "idle"
      BY <1>3, <1>t DEF MemoStep, CallStep, LookupHit, LookupMiss, Execute, ExecuteMalformed,
                        ExecuteFails, Publish
    <2> QED
      BY <2>1, <2>2
  <1>4. CASE \/ StartDiff(i) \/ DiffSecrets(i) \/ DiffSecretsFail(i) \/ DiffBuildCancelled(i)
             \/ StartApply(i) \/ BuildCancelled(i) \/ ReadSecrets(i) \/ ReadSecretsFail(i)
    <2>1. call' = call /\ pc[i] \notin {"diffWait", "wait"}
      BY <1>4 DEF StartDiff, DiffSecrets, DiffSecretsFail, DiffBuildCancelled, StartApply,
                  BuildCancelled, ReadSecrets, ReadSecretsFail, memoVars
    <2>2. pc'[i] \notin {"diffWait", "wait"}
      BY <1>4, <1>t DEF StartDiff, DiffSecrets, DiffSecretsFail, DiffBuildCancelled, StartApply,
                        BuildCancelled, ReadSecrets, ReadSecretsFail, DropDiff, Fail
    <2> QED
      BY <2>1, <2>2
  <1>5. CASE \/ CopySecrets(i) \/ CopySecretsFail(i) \/ PushOutput(i) \/ PushFails(i)
             \/ PushReturns(i)
    <2>1. call' = call /\ pc[i] \notin {"diffWait", "wait"}
      BY <1>5 DEF CopySecrets, CopySecretsFail, PushOutput, PushFails, PushReturns, memoVars
    <2>2. pc'[i] \notin {"diffWait", "wait"}
      BY <1>5, <1>t DEF CopySecrets, CopySecretsFail, PushOutput, PushFails, PushReturns,
                        RetryOrFail, Fail
    <2> QED
      BY <2>1, <2>2
  <1>6. CASE \/ Install(i) \/ InstallFails(i) \/ SwitchRefuses(i) \/ Activate(i)
             \/ ActivateFails(i) \/ RecordApply(i)
    <2>1. call' = call /\ pc[i] \notin {"diffWait", "wait"}
      BY <1>6 DEF Install, InstallFails, SwitchRefuses, Activate, ActivateFails, RecordApply,
                  memoVars
    <2>2. pc'[i] \notin {"diffWait", "wait"}
      BY <1>6, <1>t DEF Install, InstallFails, SwitchRefuses, Activate, ActivateFails,
                        RecordApply, Fail
    <2> QED
      BY <2>1, <2>2
  <1>7. CASE Destroy(i) \/ CtxDone(i) \/ EditConfig(i)
    BY <1>7 DEF Destroy, CtxDone, EditConfig, memoVars
  <1> QED
    BY <1>1, <1>2, <1>3, <1>4, <1>5, <1>6, <1>7 DEF Own

\* Both after a step.
LEMMA RankAlways ==
    TypeOK => \A i \in Instances :
                 /\ Cardinality(local[i].todo) \in 0 .. Round - 6
                 /\ CallRank(i) \in 0 .. 3
                 /\ Rank(i) \in 0 .. Rounds + 6
                 /\ Rank(i) = 0 <=> At(i, "idle")
  <1> SUFFICES ASSUME TypeOK, NEW i \in Instances
               PROVE  /\ Cardinality(local[i].todo) \in 0 .. Round - 6
                      /\ CallRank(i) \in 0 .. 3
                      /\ Rank(i) \in 0 .. Rounds + 6
                      /\ Rank(i) = 0 <=> At(i, "idle")
    OBVIOUS
  <1> QED
    BY RankNumbers, RankType

LEMMA RankAfter ==
    (TypeOK => \A i \in Instances :
                 /\ Cardinality(local[i].todo) \in 0 .. Round - 6
                 /\ CallRank(i) \in 0 .. 3
                 /\ Rank(i) \in 0 .. Rounds + 6
                 /\ Rank(i) = 0 <=> At(i, "idle"))'
  BY RankAlways, PTL

\* What an operation does before it has read the secrets shortens it.
LEMMA ShrinksBeforeSecrets ==
    ASSUME TypeOK, TypeOK', NEW i \in Instances,
           pc[i] \in {"diffWait", "wait"} <=> call[i] # "idle",
           \/ DiffSecrets(i) \/ DiffBuild(i) \/ Build(i) \/ BuildCancelled(i)
           \/ BuildReturns(i) \/ ReadSecrets(i) \/ MemoStep(i)
    PROVE  Rank(i)' < Rank(i)
  <1> USE DEF At, Goto
  <1>t. /\ call \in [Instances -> {"idle", "lookup", "execute", "publish", "returned"}]
        /\ pc \in [Instances -> {"idle"} \cup Diffing \cup Applying]
        /\ local \in [Instances -> Locals]
    BY DEF TypeOK, MemoTypeOK, InstTypeOK
  <1>r. /\ CallRank(i) \in 0 .. 3 /\ CallRank(i)' \in 0 .. 3
        /\ Rounds \in Nat /\ Rounds' = Rounds
        /\ Rounds = Retries * Round + Round
        /\ Round \in Nat /\ Retries * Round \in Nat
    <2>1. Retries \in Nat /\ Retries \in 0 .. Retries
      BY DeployAssumption
    <2>2. Round \in Nat /\ CallRank(i) \in 0 .. 3 /\ CallRank(i)' \in 0 .. 3
      BY RankNumbers, RankAfter
    <2>3. Retries * Round \in Nat /\ (Retries + 1) * Round = Retries * Round + Round
      BY <2>1, <2>2, Products
    <2> QED
      BY <2>2, <2>3 DEF Rounds
  <1>1. CASE DiffSecrets(i)
    <2>1. pc[i] = "diffSecrets" /\ pc'[i] = "diffBuild"
      BY <1>1, <1>t DEF DiffSecrets
    <2> QED
      BY <2>1 DEF Rank
  <1>2. CASE DiffBuild(i)
    <2>1. pc[i] = "diffBuild" /\ pc'[i] = "diffWait" /\ call'[i] = "lookup"
      BY <1>2, <1>t DEF DiffBuild, Request
    <2> QED
      BY <2>1 DEF Rank, CallRank
  <1>3. CASE Build(i)
    <2>1. pc[i] = "build" /\ pc'[i] = "wait" /\ call'[i] = "lookup"
      BY <1>3, <1>t DEF Build, Request
    <2>2. Rank(i) = Rounds + 6 /\ Rank(i)' = Rounds + 1 + 3
      BY <2>1, <1>r DEF Rank, CallRank
    <2> QED
      BY <2>2, <1>r
  <1>4. CASE BuildCancelled(i)
    <2>1. pc[i] = "build" /\ pc'[i] = "secrets"
      BY <1>4, <1>t DEF BuildCancelled
    <2>2. Rank(i) = Rounds + 6 /\ Rank(i)' = Rounds
      BY <2>1, <1>r DEF Rank
    <2> QED
      BY <2>2, <1>r
  <1>5. CASE BuildReturns(i)
    <2>1. pc[i] = "wait" /\ pc'[i] = "secrets"
      BY <1>5, <1>t DEF BuildReturns
    <2>2. Rank(i) = Rounds + 1 + CallRank(i) /\ Rank(i)' = Rounds
      BY <2>1, <1>r DEF Rank
    <2> QED
      BY <2>2, <1>r
  <1>6. CASE ReadSecrets(i)
    <2>1. pc[i] = "secrets" /\ pc'[i] = "copy" /\ local'[i].retry = Retries
      BY <1>6, <1>t DEF ReadSecrets, Locals
    <2>2. Rank(i) = Rounds /\ Rank(i)' = Retries * Round + Round - 1
      BY <2>1 DEF Rank
    <2> QED
      BY <2>2, <1>r
  <1>7. CASE MemoStep(i)
    <2>1. pc' = pc /\ call[i] # "idle"
      BY <1>7 DEF MemoStep, instVars, CallStep, LookupHit, LookupMiss, Execute,
                  ExecuteMalformed, ExecuteFails, Publish
    <2>2. CallRank(i)' < CallRank(i)
      BY <1>7, <1>t DEF CallRank, MemoStep, CallStep, LookupHit, LookupMiss, Execute,
                        ExecuteMalformed, ExecuteFails, Publish
    <2>3. CASE pc[i] = "diffWait"
      <3>1. Rank(i) = 1 + CallRank(i) /\ Rank(i)' = 1 + CallRank(i)'
        BY <2>1, <2>3 DEF Rank
      <3> QED
        BY <2>2, <3>1, <1>r
    <2>4. CASE pc[i] = "wait"
      <3>1. Rank(i) = Rounds + 1 + CallRank(i) /\ Rank(i)' = Rounds + 1 + CallRank(i)'
        BY <2>1, <2>4, <1>r DEF Rank
      <3> QED
        BY <2>2, <3>1, <1>r
    <2> QED
      BY <2>1, <2>3, <2>4
  <1> QED
    BY <1>1, <1>2, <1>3, <1>4, <1>5, <1>6, <1>7

\* So does what it does to the machine: an output less to push, or a retry less.
LEMMA ShrinksInDeployment ==
    ASSUME TypeOK, TypeOK', NEW i \in Instances,
           \/ CopySecrets(i) \/ PushOutput(i) \/ PushReturns(i) \/ Install(i) \/ Activate(i)
           \/ (CopySecretsFail(i) \/ PushFails(i)) /\ ~Fail(i)
    PROVE  Rank(i)' < Rank(i)
  <1> DEFINE r == local[i].retry * Round
             t == Cardinality(local[i].todo)
             u == Cardinality(local'[i].todo)
  <1> USE DEF At, Goto
  <1>t. /\ pc \in [Instances -> {"idle"} \cup Diffing \cup Applying]
        /\ local \in [Instances -> Locals] /\ local[i] \in Locals
    BY DEF TypeOK, InstTypeOK
  <1>r. /\ r \in Nat /\ Round \in Nat /\ Round >= 7
        /\ t \in 0 .. Round - 6 /\ u \in 0 .. Round - 6
        /\ local[i].retry > 0 => (local[i].retry - 1) * Round = r - Round
    BY RankNumbers, RankAfter, Products, DeployAssumption
  <1>1. CASE CopySecrets(i)
    <2>1. pc[i] = "copy" /\ pc'[i] = "push" /\ local'[i].retry = local[i].retry
      BY <1>1, <1>t DEF CopySecrets, Locals
    <2>2. Rank(i) = r + Round - 1 /\ Rank(i)' = r + u + 4
      BY <2>1 DEF Rank
    <2> HIDE DEF r, u
    <2> QED
      BY <2>2, <1>r
  <1>2. CASE PushOutput(i)
    <2>1. PICK name \in local[i].todo : local' = [local EXCEPT ![i].todo = @ \ {name}]
      BY <1>2 DEF PushOutput
    <2>2. pc[i] = "push" /\ pc'[i] = "push"
      BY <1>2, <1>t DEF PushOutput
    <2>3. local'[i].retry = local[i].retry /\ local'[i].todo = local[i].todo \ {name}
      BY <2>1, <1>t DEF Locals
    <2>4. u = t - 1
      BY <2>1, <2>3, RankNumbers, FS_RemoveElement
    <2>5. Rank(i) = r + t + 4 /\ Rank(i)' = r + u + 4
      BY <2>2, <2>3 DEF Rank
    <2> HIDE DEF r, t, u
    <2> QED
      BY <2>4, <2>5, <1>r
  <1>3. CASE PushReturns(i)
    <2>1. pc[i] = "push" /\ pc'[i] = "install"
      BY <1>3, <1>t DEF PushReturns
    <2>2. Rank(i) = r + t + 4 /\ Rank(i)' = 3
      BY <2>1 DEF Rank
    <2> HIDE DEF r, t
    <2> QED
      BY <2>2, <1>r
  <1>4. CASE Install(i)
    <2>1. pc[i] = "install" /\ pc'[i] \in {"record", "activate"}
      BY <1>4, <1>t DEF Install
    <2> QED
      BY <2>1 DEF Rank
  <1>5. CASE Activate(i)
    <2>1. pc[i] = "activate" /\ pc'[i] = "record"
      BY <1>5, <1>t DEF Activate
    <2> QED
      BY <2>1 DEF Rank
  <1>6. CASE (CopySecretsFail(i) \/ PushFails(i)) /\ ~Fail(i)
    <2>1. /\ local[i].retry > 0
          /\ local' = [local EXCEPT ![i].retry = @ - 1]
          /\ pc' = [pc EXCEPT ![i] = "copy"]
      BY <1>6 DEF CopySecretsFail, PushFails, RetryOrFail
    <2>2. pc[i] \in {"copy", "push"} /\ pc'[i] = "copy"
      BY <1>6, <2>1, <1>t DEF CopySecretsFail, PushFails
    <2>3. local'[i].retry = local[i].retry - 1
      BY <2>1, <1>t DEF Locals
    <2>4. Rank(i)' = (local[i].retry - 1) * Round + Round - 1
      BY <2>2, <2>3 DEF Rank
    <2>5. Rank(i)' = r - Round + Round - 1
      BY <2>1, <2>4, <1>r
    <2>6. Rank(i) = r + Round - 1 \/ Rank(i) = r + t + 4
      BY <2>2 DEF Rank
    <2> HIDE DEF r, t
    <2> QED
      BY <2>5, <2>6, <1>r
  <1> QED
    BY <1>1, <1>2, <1>3, <1>4, <1>5, <1>6

\* Every step of an operation brings its end nearer, and no other step moves it
\* away.
LEMMA ShrinksStep ==
    ASSUME IInv, IInv', CallMatches, [Next]_vars, NEW i \in Instances, ~At(i, "idle")
    PROVE  /\ Rank(i)' <= Rank(i)
           /\ Step(i) => Rank(i)' < Rank(i)
  <1>t. TypeOK /\ TypeOK'
    BY DEF IInv
  <1>r. /\ Rank(i) \in Nat /\ Rank(i)' \in Nat /\ Rank(i) > 0
        /\ pc'[i] = "idle" => Rank(i)' = 0
    BY <1>t, RankType, RankAfter DEF At
  <1>m. pc[i] \in {"diffWait", "wait"} <=> call[i] # "idle"
    BY DEF CallMatches
  <1>1. ASSUME UNCHANGED <<pc[i], local[i], call[i]>> PROVE Rank(i)' <= Rank(i)
    <2>1. CallRank(i)' = CallRank(i)
      BY <1>1 DEF CallRank
    <2>2. Rank(i)' = Rank(i)
      BY <1>1, <2>1 DEF Rank
    <2> QED
      BY <1>r, <2>2
  <1>2. ASSUME Step(i) PROVE Rank(i)' < Rank(i)
    <2>1. ASSUME pc'[i] = "idle" PROVE Rank(i)' < Rank(i)
      BY <1>r, <2>1
    <2>2. ASSUME Finish(i) \/ NewProcess PROVE pc'[i] = "idle"
      BY <1>t, <2>2 DEF Finish, NewProcess, TypeOK, InstTypeOK
    <2>3. ASSUME Finish(i) \/ NewProcess PROVE Rank(i)' < Rank(i)
      BY <2>1, <2>2, <2>3
    <2>4. CASE \/ DiffSecrets(i) \/ DiffBuild(i) \/ Build(i) \/ BuildCancelled(i)
               \/ BuildReturns(i) \/ ReadSecrets(i) \/ MemoStep(i)
      BY <1>t, <1>m, <2>4, ShrinksBeforeSecrets
    <2>5. CASE \/ CopySecrets(i) \/ PushOutput(i) \/ PushReturns(i) \/ Install(i) \/ Activate(i)
               \/ (CopySecretsFail(i) \/ PushFails(i)) /\ ~Fail(i)
      BY <1>t, <2>5, ShrinksInDeployment
    <2>6. CASE \/ DiffBuildCancelled(i) \/ DiffBuildFails(i) \/ DiffCompare(i) \/ BuildFails(i)
               \/ SwitchRefuses(i) \/ RecordApply(i) \/ SwitchPanics(i) \/ DiffSecretsFail(i)
               \/ ReadSecretsFail(i) \/ InstallFails(i) \/ ActivateFails(i) \/ Fail(i)
      <3>1. Finish(i) \/ NewProcess
        BY <2>6 DEF DiffBuildCancelled, DiffBuildFails, DiffCompare, BuildFails,
                    SwitchRefuses, RecordApply, SwitchPanics, DiffSecretsFail,
                    ReadSecretsFail, InstallFails, ActivateFails, Fail, DropDiff, NewPlan
      <3> QED
        BY <2>3, <3>1
    <2> QED
      BY <1>2, <2>4, <2>5, <2>6 DEF Step, Progress, Failure
  <1>3. ASSUME ~Step(i) PROVE Rank(i)' <= Rank(i)
    <2>1. ASSUME User(i) PROVE FALSE
      BY <2>1 DEF User, StartDiff, StartApply, Destroy, EditConfig, At
    <2>2. CASE CtxDone(i) \/ EditNix \/ EditSecret \/ UNCHANGED vars
      <3>1. UNCHANGED <<pc, local, call>>
        BY <2>2 DEF CtxDone, EditNix, EditSource, EditSecret, vars, instVars, memoVars
      <3> QED
        BY <1>1, <3>1
    <2>3. ASSUME NewProcess PROVE Rank(i)' <= Rank(i)
      <3>1. pc'[i] = "idle"
        BY <2>3 DEF NewProcess
      <3> QED
        BY <1>r, <3>1
    <2>4. ASSUME NEW j \in Instances \ {i}, Own(j)
          PROVE  UNCHANGED <<pc[i], local[i], call[i]>>
      BY <1>t, <2>4, OwnFrame, OwnCallOnly DEF OnlyMine
    <2>5. ASSUME NEW j \in Instances, Step(j) \/ User(j) \/ CtxDone(j)
          PROVE  Own(j) \/ NewProcess
      BY <2>5 DEF Step, Progress, Failure, User, Own, SwitchPanics, NewPlan
    <2> QED
      BY <1>1, <1>3, <2>1, <2>2, <2>3, <2>4, <2>5 DEF Next, Approve, ProcessExit, Crash, NewPlan
  <1> QED
    BY <1>r, <1>2, <1>3

\* An operation that waits waits for its own call of Execute, and no call
\* outlives the operation it is made for: nobody waits for an answer that never
\* comes (instance.go:161, 178; provider.go:444).
THEOREM WaitsForItsCall == Spec => []CallMatches
  <1>1. Init => CallMatches
    <2> SUFFICES ASSUME Init, NEW i \in Instances
                 PROVE  pc[i] \in {"diffWait", "wait"} <=> call[i] # "idle"
      BY DEF CallMatches
    <2> QED
      BY DEF Init, MemoInit
  <1>2. IInv /\ CallMatches /\ [Next]_vars => CallMatches'
    <2> SUFFICES ASSUME IInv, CallMatches, [Next]_vars, NEW i \in Instances
                 PROVE  pc'[i] \in {"diffWait", "wait"} <=> call'[i] # "idle"
      BY DEF CallMatches
    <2>1. ASSUME NEW j \in Instances, Own(j)
          PROVE  pc'[i] \in {"diffWait", "wait"} <=> call'[i] # "idle"
      <3>1. CASE j = i
        BY <2>1, <3>1, OwnCallMatches DEF IInv, CallMatches
      <3>2. CASE j # i
        <4>1. pc'[i] = pc[i] /\ call'[i] = call[i]
          BY <2>1, <3>2, OwnFrame, OwnCallOnly DEF IInv, OnlyMine
        <4> QED
          BY <4>1 DEF CallMatches
      <3> QED
        BY <3>1, <3>2
    <2>2. CASE NewProcess
      BY <2>2 DEF NewProcess, MemoRestart
    <2>3. CASE EditNix \/ EditSecret \/ UNCHANGED vars
      <3>1. UNCHANGED <<pc, call>>
        BY <2>3 DEF EditNix, EditSource, EditSecret, vars, instVars, memoVars
      <3> QED
        BY <3>1 DEF CallMatches
    <2>4. ASSUME NEW j \in Instances, Step(j) \/ User(j) \/ CtxDone(j)
          PROVE  Own(j) \/ NewProcess
      BY <2>4 DEF Step, Progress, Failure, User, Own, SwitchPanics, NewPlan
    <2> QED
      BY <2>1, <2>2, <2>3, <2>4 DEF Next, Approve, ProcessExit, Crash, NewPlan
  <1> QED
    BY <1>1, <1>2, Inductive, PTL DEF Spec

\* From its start an operation makes at most Rounds + 6 steps: each brings its
\* rank down, and no step of another instance, of the user or of Terraform puts
\* it up again (the label `retry:` is passed Retries times, instance.go:197-218).
THEOREM OperationsAreFinite ==
    Spec => /\ [](\A i \in Instances : Rank(i) \in 0 .. Rounds + 6)
            /\ [][ \A i \in Instances : ~At(i, "idle") =>
                       /\ Rank(i)' <= Rank(i)
                       /\ Step(i) => Rank(i)' < Rank(i) ]_vars
  <1>1. IInv => \A i \in Instances : Rank(i) \in 0 .. Rounds + 6
    <2> SUFFICES ASSUME TypeOK, NEW i \in Instances PROVE Rank(i) \in 0 .. Rounds + 6
      BY DEF IInv
    <2> QED
      BY RankType
  <1>2. IInv /\ IInv' /\ CallMatches /\ [Next]_vars =>
          [ \A i \in Instances : ~At(i, "idle") =>
                /\ Rank(i)' <= Rank(i)
                /\ Step(i) => Rank(i)' < Rank(i) ]_vars
    BY ShrinksStep
  <1> QED
    BY <1>1, <1>2, Inductive, WaitsForItsCall, PTL DEF Spec
=============================================================================
