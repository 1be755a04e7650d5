---------------------------- MODULE BuildService ----------------------------
(***************************************************************************)
(* What the provider's builder promises its callers, without a memo and    *)
(* without concurrency inside a request: an instance asks, and is answered *)
(* with a derivation of ITS OWN input, at a revision the sources have had  *)
(* since this provider process started, or is refused.                     *)
(***************************************************************************)
EXTENDS Derivations

CONSTANTS NoReply, Failed

VARIABLES
    revision,  \* content of the Nix sources
    seen,      \* contents they have had since the process started
    phase,     \* per instance: "idle", "pending" or "replied"
    reply      \* per instance: the answer, while phase is "replied"

vars == <<revision, seen, phase, reply>>

Init ==
    /\ revision = FirstRevision
    /\ seen = {FirstRevision}
    /\ phase = [i \in Instances |-> "idle"]
    /\ reply = [i \in Instances |-> NoReply]

Ask(i) ==
    /\ phase[i] = "idle"
    /\ phase' = [phase EXCEPT ![i] = "pending"]
    /\ UNCHANGED <<revision, seen, reply>>

Answer(i) ==
    /\ phase[i] = "pending"
    /\ \E rev \in seen : reply' = [reply EXCEPT ![i] = Built(i, rev)]
    /\ phase' = [phase EXCEPT ![i] = "replied"]
    /\ UNCHANGED <<revision, seen>>

Refuse(i) ==
    /\ phase[i] = "pending"
    /\ reply' = [reply EXCEPT ![i] = Failed]
    /\ phase' = [phase EXCEPT ![i] = "replied"]
    /\ UNCHANGED <<revision, seen>>

Take(i) ==
    /\ phase[i] = "replied"
    /\ phase' = [phase EXCEPT ![i] = "idle"]
    /\ reply' = [reply EXCEPT ![i] = NoReply]
    /\ UNCHANGED <<revision, seen>>

Edit ==
    /\ \E rev \in Revisions :
          /\ <<revision, rev>> \in Edits
          /\ revision' = rev
          /\ seen' = seen \cup {rev}
    /\ UNCHANGED <<phase, reply>>

\* A new process: requests of the old one die unanswered.
Restart ==
    /\ seen' = {revision}
    /\ phase' = [i \in Instances |-> "idle"]
    /\ reply' = [i \in Instances |-> NoReply]
    /\ UNCHANGED revision

Next ==
    \/ \E i \in Instances : Ask(i) \/ Answer(i) \/ Refuse(i) \/ Take(i)
    \/ Edit
    \/ Restart

Spec == Init /\ [][Next]_vars

\* Every request is answered or refused.
FairSpec == Spec /\ \A i \in Instances : WF_vars(Answer(i) \/ Refuse(i))
=============================================================================
