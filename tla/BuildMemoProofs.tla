--------------------------- MODULE BuildMemoProofs ---------------------------
(***************************************************************************)
(* Proofs about the memoized build.  The types and the origin of every     *)
(* output hold for any instances, keys and edits; that the memo is         *)
(* invisible to its callers needs KeyDeterminesInput.                      *)
(***************************************************************************)
EXTENDS BuildMemo, Integers, TLAPS

-----------------------------------------------------------------------------
(* Types.                                                                   *)

\* What the constants promise, in the form the proofs use.
LEMMA InputFacts ==
    ASSUME NEW i \in Instances
    PROVE  /\ KeyOf(i) \in Configurations
           /\ InputOf[i].arguments \in Arguments
           /\ \A rev \in Revisions : Built(i, rev) \in Derivation
  <1>1. InputOf[i] \in Input
    BY InputAssumption
  <1> QED
    BY <1>1 DEF Input, KeyOf, Built, Derivation

\* The variables of the memo keep their types (nix.go:210-244, 482-493).
LEMMA MemoTypeStep ==
    ASSUME MemoTypeOK, [MemoNext]_memoVars
    PROVE  MemoTypeOK'
  <1> USE DEF MemoTypeOK, Output
  <1>1. CASE \E i \in Instances : Request(i) \/ CallStep(i) \/ Return(i)
    <2>1. PICK i \in Instances : Request(i) \/ CallStep(i) \/ Return(i)
      BY <1>1
    <2>2. KeyOf(i) \in Configurations /\ Built(i, revision) \in Derivation
      BY InputFacts
    <2>3. CASE Request(i)
      BY <2>3 DEF Request
    <2>4. CASE LookupHit(i)
      BY <2>2, <2>4 DEF LookupHit
    <2>5. CASE LookupMiss(i)
      BY <2>5 DEF LookupMiss
    <2>6. CASE Execute(i)
      BY <2>2, <2>6 DEF Execute
    <2>7. CASE ExecuteMalformed(i)
      BY <2>7 DEF ExecuteMalformed
    <2>8. CASE ExecuteFails(i)
      BY <2>8 DEF ExecuteFails
    <2>9. CASE Publish(i)
      BY <2>2, <2>9 DEF Publish
    <2>10. CASE Return(i)
      BY <2>10 DEF Return
    <2> QED
      BY <2>1, <2>3, <2>4, <2>5, <2>6, <2>7, <2>8, <2>9, <2>10 DEF CallStep
  <1>2. CASE EditSource
    BY <1>2 DEF EditSource
  <1>3. CASE MemoRestart
    BY <1>3 DEF MemoRestart
  <1>4. CASE UNCHANGED memoVars
    BY <1>4 DEF memoVars
  <1> QED
    BY <1>1, <1>2, <1>3, <1>4 DEF MemoNext

\* Type correctness of the memo and of the calls.
THEOREM MemoTypeCorrect == MemoSpec => []MemoTypeOK
  <1>1. MemoInit => MemoTypeOK
    BY RevisionAssumption DEF MemoInit, MemoTypeOK, Output
  <1>2. MemoTypeOK /\ [MemoNext]_memoVars => MemoTypeOK'
    BY MemoTypeStep
  <1> QED
    BY <1>1, <1>2, PTL DEF MemoSpec

-----------------------------------------------------------------------------
(* Where outputs come from.                                                 *)

\* The current content of the sources counts as seen by the process.
CurrentSeen == revision \in seen

MemoIInv == MemoTypeOK /\ CurrentSeen /\ MemoInvariant

\* One step keeps every memo entry and every output a build of its own key by
\* the present process: Memo.Set writes under the caller's key only, and a new
\* process starts with an empty map (nix.go:110-114, 229).
LEMMA MemoInvariantStep ==
    ASSUME MemoIInv, [MemoNext]_memoVars
    PROVE  MemoIInv'
  <1> USE DEF MemoIInv, MemoInvariant
  <1>0. MemoTypeOK'
    BY MemoTypeStep
  <1>1. CASE \E i \in Instances : Request(i) \/ CallStep(i) \/ Return(i)
    <2>1. PICK i \in Instances : Request(i) \/ CallStep(i) \/ Return(i)
      BY <1>1
    <2>2. KeyOf(i) \in Configurations
      BY InputFacts
    <2>3. CASE Request(i)
      BY <1>0, <2>3 DEF Request, CurrentSeen, MemoHoldsBuilds, OutputsAreBuilds
    <2>4. CASE LookupHit(i)
      <3>1. CurrentSeen' /\ MemoHoldsBuilds'
        BY <2>4 DEF LookupHit, CurrentSeen, MemoHoldsBuilds
      <3>2. ASSUME NEW k \in Instances, output'[k] \in Derivation
            PROVE  \E j \in Instances, rev \in seen' :
                       KeyOf(j) = KeyOf(k) /\ output'[k] = Built(j, rev)
        <4>1. CASE k = i
          BY <2>2, <2>4, <3>2, <4>1 DEF LookupHit, MemoHoldsBuilds, MemoTypeOK
        <4>2. CASE k # i
          BY <2>4, <3>2, <4>2 DEF LookupHit, OutputsAreBuilds, MemoTypeOK
        <4> QED
          BY <4>1, <4>2
      <3> QED
        BY <1>0, <3>1, <3>2 DEF OutputsAreBuilds
    <2>5. CASE LookupMiss(i)
      BY <1>0, <2>5 DEF LookupMiss, CurrentSeen, MemoHoldsBuilds, OutputsAreBuilds
    <2>6. CASE Execute(i)
      <3>1. CurrentSeen' /\ MemoHoldsBuilds'
        BY <2>6 DEF Execute, CurrentSeen, MemoHoldsBuilds
      <3>2. ASSUME NEW k \in Instances, output'[k] \in Derivation
            PROVE  \E j \in Instances, rev \in seen' :
                       KeyOf(j) = KeyOf(k) /\ output'[k] = Built(j, rev)
        <4>1. CASE k = i
          BY <2>6, <4>1 DEF Execute, CurrentSeen, MemoTypeOK
        <4>2. CASE k # i
          BY <2>6, <3>2, <4>2 DEF Execute, OutputsAreBuilds, MemoTypeOK
        <4> QED
          BY <4>1, <4>2
      <3> QED
        BY <1>0, <3>1, <3>2 DEF OutputsAreBuilds
    <2>7. CASE ExecuteMalformed(i)
      <3>1. CurrentSeen' /\ MemoHoldsBuilds'
        BY <2>7 DEF ExecuteMalformed, CurrentSeen, MemoHoldsBuilds
      <3>2. OutputsAreBuilds'
        BY <2>7, MalformedAssumption DEF ExecuteMalformed, OutputsAreBuilds, MemoTypeOK
      <3> QED
        BY <1>0, <3>1, <3>2
    <2>8. CASE ExecuteFails(i)
      BY <1>0, <2>8 DEF ExecuteFails, CurrentSeen, MemoHoldsBuilds, OutputsAreBuilds
    <2>9. CASE Publish(i)
      <3>1. CurrentSeen' /\ OutputsAreBuilds'
        BY <2>9 DEF Publish, CurrentSeen, OutputsAreBuilds
      <3>2. ASSUME NEW key \in Configurations, memo'[key] \in Derivation
            PROVE  \E j \in Instances, rev \in seen' :
                       KeyOf(j) = key /\ memo'[key] = Built(j, rev)
        <4>1. CASE key = KeyOf(i)
          BY <2>9, <3>2, <4>1 DEF Publish, OutputsAreBuilds, MemoTypeOK
        <4>2. CASE key # KeyOf(i)
          BY <2>9, <3>2, <4>2 DEF Publish, MemoHoldsBuilds, MemoTypeOK
        <4> QED
          BY <4>1, <4>2
      <3> QED
        BY <1>0, <3>1, <3>2 DEF MemoHoldsBuilds
    <2>10. CASE Return(i)
      <3>1. CurrentSeen' /\ MemoHoldsBuilds'
        BY <2>10 DEF Return, CurrentSeen, MemoHoldsBuilds
      <3>2. OutputsAreBuilds'
        BY <2>10, OutputAssumption DEF Return, OutputsAreBuilds, MemoTypeOK
      <3> QED
        BY <1>0, <3>1, <3>2
    <2> QED
      BY <2>1, <2>3, <2>4, <2>5, <2>6, <2>7, <2>8, <2>9, <2>10 DEF CallStep
  <1>2. CASE EditSource
    BY <1>0, <1>2 DEF EditSource, CurrentSeen, MemoHoldsBuilds, OutputsAreBuilds
  <1>3. CASE MemoRestart
    BY <1>0, <1>3, OutputAssumption
       DEF MemoRestart, CurrentSeen, MemoHoldsBuilds, OutputsAreBuilds
  <1>4. CASE UNCHANGED memoVars
    BY <1>0, <1>4 DEF memoVars, CurrentSeen, MemoHoldsBuilds, OutputsAreBuilds
  <1> QED
    BY <1>1, <1>2, <1>3, <1>4 DEF MemoNext

LEMMA MemoInductive == MemoSpec => []MemoIInv
  <1>1. MemoInit => MemoIInv
    <2> SUFFICES ASSUME MemoInit PROVE MemoIInv
      OBVIOUS
    <2>1. MemoTypeOK
      BY RevisionAssumption DEF MemoInit, MemoTypeOK, Output
    <2>2. CurrentSeen /\ MemoInvariant
      BY OutputAssumption
         DEF MemoInit, CurrentSeen, MemoInvariant, MemoHoldsBuilds, OutputsAreBuilds
    <2> QED
      BY <2>1, <2>2 DEF MemoIInv
  <1>2. MemoIInv /\ [MemoNext]_memoVars => MemoIInv'
    BY MemoInvariantStep
  <1> QED
    BY <1>1, <1>2, PTL DEF MemoSpec

\* Whatever instances share, the memo and the calls hold builds of the right
\* configuration by this very process (nix.go:210-244).
THEOREM MemoIsOfThisProcess == MemoSpec => []MemoInvariant
  <1>1. MemoIInv => MemoInvariant
    BY DEF MemoIInv
  <1> QED
    BY <1>1, MemoInductive, PTL

-----------------------------------------------------------------------------
(* The memo is invisible when its key determines the input.                 *)

\* A derivation found under the caller's key is one the caller could have built.
LEMMA OwnBuild ==
    ASSUME KeyDeterminesInput, MemoIInv, NEW i \in Instances, output[i] \in Derivation
    PROVE  \E rev \in seen : output[i] = Built(i, rev)
  <1>1. PICK j \in Instances, rev \in seen :
            KeyOf(j) = KeyOf(i) /\ output[i] = Built(j, rev)
    BY DEF MemoIInv, MemoInvariant, OutputsAreBuilds
  <1>2. InputOf[j] = InputOf[i]
    BY <1>1 DEF KeyDeterminesInput, KeyOf
  <1> QED
    BY <1>1, <1>2 DEF Built

\* What an instance is given was built with its own settings and system.
LEMMA OwnReply ==
    ASSUME KeyDeterminesInput, MemoIInv
    PROVE  RepliesOwnInput
  <1> SUFFICES ASSUME NEW i \in Instances, output[i] \in Derivation
               PROVE  \E rev \in Revisions : output[i] = Built(i, rev)
    BY DEF RepliesOwnInput
  <1>1. seen \subseteq Revisions
    BY DEF MemoIInv, MemoTypeOK
  <1> QED
    BY <1>1, OwnBuild

\* A returned call, and only that, is answered in the abstract service.
LEMMA RefinementStep ==
    ASSUME KeyDeterminesInput, MemoIInv, MemoIInv', [MemoNext]_memoVars
    PROVE  [Service!Next]_(Service!vars)
  <1> DEFINE phaseOf == [i \in Instances |->
                           CASE call[i] = "idle"     -> "idle"
                             [] call[i] = "returned" -> "replied"
                             [] OTHER                -> "pending"]
             replyOf == [i \in Instances |->
                           IF call[i] = "returned" THEN Reply(i) ELSE NoOutput]
  <1>0. MemoTypeOK /\ MemoTypeOK'
    BY DEF MemoIInv
  <1>1. CASE \E i \in Instances : Request(i) \/ CallStep(i) \/ Return(i)
    <2>1. PICK i \in Instances : Request(i) \/ CallStep(i) \/ Return(i)
      BY <1>1
    <2>2. ASSUME Request(i) PROVE Service!Ask(i)
      BY <1>0, <2>2 DEF Request, Service!Ask, MemoTypeOK, Reply
    <2>3. ASSUME LookupMiss(i) \/ Execute(i) \/ ExecuteMalformed(i)
          PROVE  UNCHANGED Service!vars
      <3>1. UNCHANGED <<revision, seen>>
        BY <2>3 DEF LookupMiss, Execute, ExecuteMalformed
      <3>2. phaseOf' = phaseOf
        BY <1>0, <2>3 DEF LookupMiss, Execute, ExecuteMalformed, MemoTypeOK
      <3>3. replyOf' = replyOf
        BY <1>0, <2>3 DEF LookupMiss, Execute, ExecuteMalformed, MemoTypeOK, Reply
      <3> QED
        BY <3>1, <3>2, <3>3 DEF Service!vars
    <2>4. ASSUME LookupHit(i) \/ ExecuteFails(i) \/ Publish(i)
          PROVE  Service!Answer(i) \/ Service!Refuse(i)
      <3>1. UNCHANGED <<revision, seen>> /\ phaseOf[i] = "pending"
        BY <2>4 DEF LookupHit, ExecuteFails, Publish
      <3>2. phaseOf' = [phaseOf EXCEPT ![i] = "replied"]
        BY <1>0, <2>4 DEF LookupHit, ExecuteFails, Publish, MemoTypeOK
      <3>3. replyOf' = [replyOf EXCEPT ![i] = Reply(i)']
        BY <1>0, <2>4 DEF LookupHit, ExecuteFails, Publish, MemoTypeOK, Reply
      <3>4. CASE output'[i] \in Derivation
        <4>1. PICK rev \in seen' : output'[i] = Built(i, rev)
          <5>1. \E j \in Instances, rev \in seen' :
                   KeyOf(j) = KeyOf(i) /\ output'[i] = Built(j, rev)
            BY <3>4 DEF MemoIInv, MemoInvariant, OutputsAreBuilds
          <5> QED
            BY <5>1 DEF KeyDeterminesInput, KeyOf, Built
        <4>2. replyOf' = [replyOf EXCEPT ![i] = Built(i, rev)]
          BY <3>3, <3>4, <4>1 DEF Reply
        <4> QED
          BY <3>1, <3>2, <4>1, <4>2 DEF Service!Answer, Service!Built, Built
      <3>5. CASE output'[i] \notin Derivation
        <4>1. replyOf' = [replyOf EXCEPT ![i] = Failed]
          BY <3>3, <3>5 DEF Reply
        <4> QED
          BY <3>1, <3>2, <4>1 DEF Service!Refuse
      <3> QED
        BY <3>4, <3>5
    <2>5. ASSUME Return(i) PROVE Service!Take(i)
      <3>1. UNCHANGED <<revision, seen>> /\ phaseOf[i] = "replied"
        BY <2>5 DEF Return
      <3>2. phaseOf' = [phaseOf EXCEPT ![i] = "idle"]
        BY <1>0, <2>5 DEF Return, MemoTypeOK
      <3>3. replyOf' = [replyOf EXCEPT ![i] = NoOutput]
        BY <1>0, <2>5 DEF Return, MemoTypeOK, Reply
      <3> QED
        BY <3>1, <3>2, <3>3 DEF Service!Take
    <2> QED
      BY <2>1, <2>2, <2>3, <2>4, <2>5 DEF CallStep, Service!Next
  <1>2. CASE EditSource
    <2>1. phaseOf' = phaseOf /\ replyOf' = replyOf
      BY <1>2 DEF EditSource, Reply
    <2> QED
      BY <1>2, <2>1 DEF EditSource, Service!Next, Service!Edit
  <1>3. CASE MemoRestart
    <2>1. phaseOf' = [i \in Instances |-> "idle"]
      BY <1>3 DEF MemoRestart
    <2>2. replyOf' = [i \in Instances |-> NoOutput]
      BY <1>3 DEF MemoRestart
    <2> QED
      BY <1>3, <2>1, <2>2 DEF MemoRestart, Service!Next, Service!Restart
  <1>4. CASE UNCHANGED memoVars
    BY <1>4 DEF memoVars, Service!vars, Reply
  <1> QED
    BY <1>1, <1>2, <1>3, <1>4 DEF MemoNext

\* With keys that determine inputs, concurrent builds through the memo are
\* builds of a service that has neither memo nor concurrency (nix.go:210-244,
\* provider.go:434, 444-462).
THEOREM MemoImplementsService ==
    ASSUME KeyDeterminesInput
    PROVE  MemoSpec => ImplementsService
  <1>1. MemoInit => Service!Init
    BY DEF MemoInit, Service!Init
  <1>2. MemoIInv /\ MemoIInv' /\ [MemoNext]_memoVars => [Service!Next]_(Service!vars)
    BY RefinementStep
  <1> QED
    BY <1>1, <1>2, MemoInductive, PTL DEF MemoSpec, ImplementsService, Service!Spec

\* Every instance is given builds of its own settings and system (schema.go:407, 413).
THEOREM OwnInputs ==
    ASSUME KeyDeterminesInput
    PROVE  MemoSpec => []RepliesOwnInput
  <1>1. MemoIInv => RepliesOwnInput
    BY OwnReply
  <1> QED
    BY <1>1, MemoInductive, PTL
-----------------------------------------------------------------------------
(* How long a call may take: what is behind AnswersEveryCall.               *)

\* What is left of a call of Execute.
CallRank(i) ==
    CASE call[i] = "lookup"  -> 3
      [] call[i] = "execute" -> 2
      [] call[i] = "publish" -> 1
      [] OTHER               -> 0

\* A call of Execute has at most three steps of its own, whatever the other
\* calls, the user and Terraform do in the meantime: it never starts again
\* (nix.go:210-244).
THEOREM CallsAreShort ==
    MemoSpec => [][ \A i \in Instances :
                        /\ CallStep(i) => CallRank(i)' < CallRank(i)
                        /\ CallRank(i)' > CallRank(i) => Request(i) ]_memoVars
  <1>1. ASSUME MemoTypeOK, [MemoNext]_memoVars, NEW i \in Instances
        PROVE  /\ CallStep(i) => CallRank(i)' < CallRank(i)
               /\ CallRank(i)' > CallRank(i) => Request(i)
    <2> USE <1>1 DEF MemoTypeOK, CallRank
    <2>1. ASSUME NEW j \in Instances, CallStep(j)
          PROVE  /\ j = i => CallRank(i)' < CallRank(i)
                 /\ j # i => call'[i] = call[i]
      <3>1. CASE LookupHit(j) \/ LookupMiss(j)
        BY <3>1 DEF LookupHit, LookupMiss
      <3>2. CASE Execute(j) \/ ExecuteMalformed(j) \/ ExecuteFails(j)
        BY <3>2 DEF Execute, ExecuteMalformed, ExecuteFails
      <3>3. CASE Publish(j)
        BY <3>3 DEF Publish
      <3> QED
        BY <2>1, <3>1, <3>2, <3>3 DEF CallStep
    <2>2. ASSUME NEW j \in Instances, Request(j), j # i
          PROVE  call'[i] = call[i]
      BY <2>2 DEF Request
    <2>3. ASSUME NEW j \in Instances, Return(j)
          PROVE  call'[i] \in {call[i], "idle"}
      BY <2>3 DEF Return
    <2>4. ASSUME MemoRestart PROVE call'[i] = "idle"
      BY <2>4 DEF MemoRestart
    <2>5. ASSUME EditSource \/ UNCHANGED memoVars PROVE call'[i] = call[i]
      BY <2>5 DEF EditSource, memoVars
    <2>6. CallRank(i) \in 0 .. 3 /\ CallRank(i)' \in 0 .. 3
      OBVIOUS
    <2>7. ASSUME call'[i] \in {call[i], "idle"} PROVE CallRank(i)' <= CallRank(i)
      BY <2>7
    <2>8. ASSUME ~Request(i) PROVE CallRank(i)' <= CallRank(i)
      <3> HIDE DEF CallRank, MemoTypeOK
      <3>1. ASSUME NEW j \in Instances, CallStep(j) PROVE CallRank(i)' <= CallRank(i)
        BY <2>1, <2>6, <2>7, <3>1
      <3> QED
        BY <2>2, <2>3, <2>4, <2>5, <2>7, <2>8, <3>1 DEF MemoNext
    <2> HIDE DEF CallRank, MemoTypeOK
    <2> QED
      BY <2>1, <2>6, <2>8
  <1>2. MemoTypeOK /\ [MemoNext]_memoVars =>
          [ \A i \in Instances :
                /\ CallStep(i) => CallRank(i)' < CallRank(i)
                /\ CallRank(i)' > CallRank(i) => Request(i) ]_memoVars
    BY <1>1
  <1> QED
    BY <1>2, MemoTypeCorrect, PTL DEF MemoSpec
=============================================================================
