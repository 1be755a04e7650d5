------------------------------ MODULE BuildMemo ------------------------------
(***************************************************************************)
(* `nix build` behind the process-wide memo: NixBuildCommand.Execute       *)
(* (nix.go:210-244), Memo.Get and Memo.Set (nix.go:482-493) and the result *)
(* checks of Provider.Build (provider.go:444-462).  Terraform runs several *)
(* instances at once in one provider process, and Get, the build and Set   *)
(* are separate steps: the memo's lock covers one map access each.         *)
(***************************************************************************)
EXTENDS Derivations

CONSTANTS
    NoOutput,  \* nothing: an empty memo entry, a result not produced
    Failed     \* Execute or Build returned an error

ASSUME OutputAssumption ==
    /\ NoOutput \notin Derivation \cup {Malformed}
    /\ Failed \notin Derivation

VARIABLES
    revision,  \* content of the Nix sources
    seen,      \* contents they have had since the process started
    memo,      \* nixBuildCommandMemo.Store: output by configuration path
    call,      \* per instance: where its call of Execute stands
    output     \* per instance: the local `r` of that call

memoVars == <<revision, seen, memo, call, output>>

Output == Derivation \cup {Malformed, NoOutput}

KeyOf(i) == InputOf[i].configuration

MemoTypeOK ==
    /\ revision \in Revisions
    /\ seen \in SUBSET Revisions
    /\ memo \in [Configurations -> Output]
    /\ call \in [Instances -> {"idle", "lookup", "execute", "publish", "returned"}]
    /\ output \in [Instances -> Output]

MemoInit ==
    /\ revision = FirstRevision
    /\ seen = {FirstRevision}
    /\ memo = [key \in Configurations |-> NoOutput]
    /\ call = [i \in Instances |-> "idle"]
    /\ output = [i \in Instances |-> NoOutput]

-----------------------------------------------------------------------------
(* The steps of one call.                                                   *)

\* Provider.Build calls command.Execute.
Request(i) ==
    /\ call[i] = "idle"
    /\ call' = [call EXCEPT ![i] = "lookup"]
    /\ UNCHANGED <<revision, seen, memo, output>>

\* Mutant: a memo that is asked for any entry rather than for the key's.
LookupHitAnyKey(i) ==
    /\ call[i] = "lookup"
    /\ \E key \in Configurations :
          memo[key] # NoOutput /\ output' = [output EXCEPT ![i] = memo[key]]
    /\ call' = [call EXCEPT ![i] = "returned"]
    /\ UNCHANGED <<revision, seen, memo>>

\* Memo.Get; a hit goes straight to `unmarshal`.
LookupHit(i) ==
    /\ call[i] = "lookup"
    /\ memo[KeyOf(i)] # NoOutput
    /\ output' = [output EXCEPT ![i] = memo[KeyOf(i)]]
    /\ call' = [call EXCEPT ![i] = "returned"]
    /\ UNCHANGED <<revision, seen, memo>>

\* Mutant: the memo is not consulted.
LookupMissAlways(i) ==
    /\ call[i] = "lookup"
    /\ call' = [call EXCEPT ![i] = "execute"]
    /\ UNCHANGED <<revision, seen, memo, output>>

LookupMiss(i) ==
    /\ call[i] = "lookup"
    /\ memo[KeyOf(i)] = NoOutput
    /\ call' = [call EXCEPT ![i] = "execute"]
    /\ UNCHANGED <<revision, seen, memo, output>>

\* CommandExecute: nix evaluates the sources as they are now.
Execute(i) ==
    /\ call[i] = "execute"
    /\ output' = [output EXCEPT ![i] = Built(i, revision)]
    /\ call' = [call EXCEPT ![i] = "publish"]
    /\ UNCHANGED <<revision, seen, memo>>

\* nix exits with 0 and prints no, several or unreadable derivations.
ExecuteMalformed(i) ==
    /\ call[i] = "execute"
    /\ output' = [output EXCEPT ![i] = Malformed]
    /\ call' = [call EXCEPT ![i] = "publish"]
    /\ UNCHANGED <<revision, seen, memo>>

\* Mutant: the error is kept as if it were the output.
ExecuteFailsKept(i) ==
    /\ call[i] = "execute"
    /\ output' = [output EXCEPT ![i] = Failed]
    /\ call' = [call EXCEPT ![i] = "publish"]
    /\ UNCHANGED <<revision, seen, memo>>

\* Mutant: a failed build is tried again until it succeeds.
ExecuteFailsAgain(i) ==
    /\ call[i] = "execute"
    /\ call' = [call EXCEPT ![i] = "lookup"]
    /\ UNCHANGED <<revision, seen, memo, output>>

\* nix fails: the error is returned and nothing is stored.
ExecuteFails(i) ==
    /\ call[i] = "execute"
    /\ call' = [call EXCEPT ![i] = "returned"]
    /\ UNCHANGED <<revision, seen, memo, output>>

\* Memo.Set, before the output is unmarshalled: a malformed one is kept too.
Publish(i) ==
    /\ call[i] = "publish"
    /\ memo' = [memo EXCEPT ![KeyOf(i)] = output[i]]
    /\ call' = [call EXCEPT ![i] = "returned"]
    /\ UNCHANGED <<revision, seen, output>>

\* The caller takes the result: Unmarshal, then exactly one derivation.
Return(i) ==
    /\ call[i] = "returned"
    /\ call' = [call EXCEPT ![i] = "idle"]
    /\ output' = [output EXCEPT ![i] = NoOutput]
    /\ UNCHANGED <<revision, seen, memo>>

\* What Provider.Build gives its caller for the output of a returned call.
Reply(i) == IF output[i] \in Derivation THEN output[i] ELSE Failed

-----------------------------------------------------------------------------
(* The environment.                                                         *)

EditSource ==
    /\ \E rev \in Revisions :
          /\ <<revision, rev>> \in Edits
          /\ revision' = rev
          /\ seen' = seen \cup {rev}
    /\ UNCHANGED <<memo, call, output>>

\* Mutant: a memo that outlives the process (a cache on disk).
MemoRestartKeepsMemo ==
    /\ seen' = {revision}
    /\ call' = [i \in Instances |-> "idle"]
    /\ output' = [i \in Instances |-> NoOutput]
    /\ UNCHANGED <<revision, memo>>

\* The provider process ends, or crashes, and another one starts: the memo is
\* a package variable and starts empty.
MemoRestart ==
    /\ seen' = {revision}
    /\ memo' = [key \in Configurations |-> NoOutput]
    /\ call' = [i \in Instances |-> "idle"]
    /\ output' = [i \in Instances |-> NoOutput]
    /\ UNCHANGED revision

\* What the goroutine of a call does by itself.
CallStep(i) ==
    \/ LookupHit(i)
    \/ LookupMiss(i)
    \/ Execute(i)
    \/ ExecuteMalformed(i)
    \/ ExecuteFails(i)
    \/ Publish(i)

MemoNext ==
    \/ \E i \in Instances : Request(i) \/ CallStep(i) \/ Return(i)
    \/ EditSource
    \/ MemoRestart

MemoSpec == MemoInit /\ [][MemoNext]_memoVars

\* A goroutine inside Execute keeps running: Go's scheduler.
FairMemoSpec == MemoSpec /\ \A i \in Instances : WF_memoVars(CallStep(i))

-----------------------------------------------------------------------------
(* Properties.                                                              *)

\* The builder seen from outside: a call that stores its output before
\* returning has not answered yet.
Service ==
    INSTANCE BuildService WITH
        NoReply <- NoOutput,
        phase <- [i \in Instances |->
                    CASE call[i] = "idle"     -> "idle"
                      [] call[i] = "returned" -> "replied"
                      [] OTHER                -> "pending"],
        reply <- [i \in Instances |->
                    IF call[i] = "returned" THEN Reply(i) ELSE NoOutput]

\* Under concurrent calls, shared keys, edits and restarts, every build is
\* answered with a derivation of the caller's own input that is no older than
\* the process (Provider.Build's contract with Instance.Diff and Create).
ImplementsService == Service!Spec

\* ... and every call of Execute comes back (nix.go:210-244 has no wait).
AnswersEveryCall == Service!FairSpec

\* Where an entry of the memo may come from: a build of some instance with
\* that very key, at a revision seen since the process started.
MemoHoldsBuilds ==
    \A key \in Configurations :
        memo[key] \in Derivation =>
            \E i \in Instances, rev \in seen : KeyOf(i) = key /\ memo[key] = Built(i, rev)

\* The same of an output inside a call, for the caller's key.
OutputsAreBuilds ==
    \A i \in Instances :
        output[i] \in Derivation =>
            \E j \in Instances, rev \in seen : KeyOf(j) = KeyOf(i) /\ output[i] = Built(j, rev)

\* Whatever the keys share, the memo and the calls hold builds of the right key
\* and of this process: Memo.Set under an own key, and a map that dies with the
\* process (nix.go:110-114).  Inductive together with MemoTypeOK.
MemoInvariant == MemoHoldsBuilds /\ OutputsAreBuilds

\* Settings and system are passed "into Nix configuration derivation"
\* (schema.go:407, 413): what a build returns was built with the caller's own.
RepliesOwnInput ==
    \A i \in Instances :
        call[i] = "returned" /\ output[i] \in Derivation =>
            \E rev \in Revisions : output[i] = Built(i, rev)
=============================================================================
