------------------------------ MODULE Secrets --------------------------------
(***************************************************************************)
(* The secrets of an instance (secrets.go, instance.go:44-101): read one   *)
(* by one into locked memory, shipped as a tar stream, hashed into the     *)
(* fingerprint that Terraform records, and compared with it by the next    *)
(* Diff.  What NixosInstance does in one step each is taken apart here;    *)
(* Push, Switch and the builds are one step that succeeds or fails.        *)
(*                                                                         *)
(* A provider process visits each instance once: Diff and, if something    *)
(* changed and the user approves, Create.                                  *)
(***************************************************************************)
EXTENDS Integers, Sequences, FiniteSetsExt

CONSTANTS
    Instances,
    Sources,    \* what a secrets provider can be asked for
    Values,     \* contents it may answer
    Empty,      \* the content of an empty file
    FirstValue, \* [Sources -> Values]: the answers at the start
    Edits,      \* pairs <<old, new>>: the edits of a secret the user may make
    Layouts,    \* what the provider's `secret` blocks may describe, in the
                \* order of the schema's set
    LayoutEdits, \* pairs <<old, new>>: the edits of the blocks the user may make
    Salts,
    Draws,      \* pairs <<salt, iterations>> a fingerprint may be made with
    Limit,      \* locked buffers a process can have
    Retries,    \* the provider's `retry`
    NoFingerprint, NoPlan, Torn, Missing

\* owner and group go into the stream as they are written, like destination.
Description == [source : Sources, destination : STRING, permissions : Nat]

ASSUME InstanceAssumption == IsFiniteSet(Instances)

ASSUME ValueAssumption ==
    /\ Empty \in Values
    /\ FirstValue \in [Sources -> Values]
    /\ Edits \subseteq Values \X Values

ASSUME LayoutAssumption ==
    /\ Layouts # {}
    /\ Layouts \subseteq Seq(Description)
    /\ LayoutEdits \subseteq Layouts \X Layouts

\* mathRand.Intn(65): 64 is the largest, and 0 the smallest.
ASSUME DrawAssumption == Draws # {} /\ Draws \subseteq Salts \X (0 .. 64)

ASSUME BoundAssumption == Retries \in Nat /\ Limit \in Nat

\* A buffer of memguard: one for an empty content has no memory of its own.
Buffer == [content : Values, locked : BOOLEAN]

\* A destroyed buffer yields no bytes.
Destroyed == [content |-> Empty, locked |-> FALSE]

\* SecretData.Hash: collisions are left out.
Hash == Values \X Salts \X Nat

Fingerprint == [sum : Seq(Hash), salt : Salts, iterations : Nat]

\* fromOctal: the decimal digits of n taken as octal ones.
FromOctal[n \in Nat] == IF n = 0 THEN 0 ELSE (n % 10) + 8 * FromOctal[n \div 10]

\* Mutant: the number goes into the stream as it is written.
DecimalMode(permissions) == permissions

Mode(permissions) == FromOctal[permissions]

Modes == UNION {{Mode(blocks[n].permissions) : n \in DOMAIN blocks} : blocks \in Layouts}

\* An entry of the tar stream, and the file it becomes.
File == [destination : STRING, content : Values, mode : Modes]

Plan == [differs : BOOLEAN, change : BOOLEAN, contents : Seq(Values)]

ASSUME AbsenceAssumption ==
    /\ NoFingerprint \notin Fingerprint
    /\ NoPlan \notin Plan
    /\ Torn \notin Seq(File)
    /\ Missing \notin Seq(File)

VARIABLES
    value,    \* per source: what the secrets provider answers now
    layout,   \* the `secret` blocks as the process got them
    other,    \* per instance: its derivation is a new one, too
    turn,     \* per instance: what the process has done for it
    plan,     \* per instance: Diff's verdict, and the contents it read
    pc,       \* per instance: where its Diff or Create stands
    data,     \* per instance: the buffers Secrets.Data has made so far
    left,     \* per instance: locked buffers of operations that returned
    retry,    \* per instance: Create's retries left
    recorded, \* per instance: secret_fingerprint in the Terraform state
    diag,     \* per instance: outcome of the last apply
    machine   \* per instance: the files that were last extracted there

user == <<value, layout, other>>
vars == <<user, turn, plan, pc, data, left, retry, recorded, diag, machine>>

Applying == {"read", "ship", "rest", "record"}

TypeOK ==
    /\ value \in [Sources -> Values]
    /\ layout \in Layouts
    /\ other \in [Instances -> BOOLEAN]
    /\ turn \in [Instances -> {"due", "unread", "failed", "planned", "applied"}]
    /\ plan \in [Instances -> Plan \cup {NoPlan}]
    /\ pc \in [Instances -> {"idle", "diffRead"} \cup Applying]
    /\ data \in [Instances -> Seq(Buffer)]
    /\ \A i \in Instances : Len(data[i]) <= Len(layout)
    /\ left \in [Instances -> Nat]
    /\ retry \in [Instances -> 0 .. Retries]
    /\ recorded \in [Instances -> Fingerprint \cup {NoFingerprint}]
    /\ diag \in [Instances -> {"none", "ok", "error"}]
    /\ machine \in [Instances -> Seq(File) \cup {Torn, Missing}]

Init ==
    /\ value = FirstValue
    /\ layout \in Layouts
    /\ other = [i \in Instances |-> FALSE]
    /\ turn = [i \in Instances |-> "due"]
    /\ plan = [i \in Instances |-> NoPlan]
    /\ pc = [i \in Instances |-> "idle"]
    /\ data = [i \in Instances |-> <<>>]
    /\ left = [i \in Instances |-> 0]
    /\ retry = [i \in Instances |-> 0]
    /\ recorded = [i \in Instances |-> NoFingerprint]
    /\ diag = [i \in Instances |-> "none"]
    /\ machine = [i \in Instances |-> Missing]

-----------------------------------------------------------------------------
(* Fingerprints, streams and memory.                                        *)

Contents(entries) == [n \in DOMAIN entries |-> entries[n].content]

\* pbkdf2.Key always makes the first round.
Rounds(iterations) == IF iterations = 0 THEN 1 ELSE iterations

\* SecretsData.Hash: one hash for each secret, in order.
Hashed(buffers, salt, iterations) ==
    [n \in DOMAIN buffers |-> <<buffers[n].content, salt, Rounds(iterations)>>]

\* Mutant: the iterations that are recorded are not the ones used.
FingerprintWithMinimum(buffers, draw) ==
    [sum        |-> Hashed(buffers, draw[1], draw[2]),
     salt       |-> draw[1],
     iterations |-> draw[2] + 32]

\* secretsFingerprintToSchema.
FingerprintOf(buffers, draw) ==
    [sum        |-> Hashed(buffers, draw[1], draw[2]),
     salt       |-> draw[1],
     iterations |-> draw[2]]

\* Mutant: only the last secret makes it into the sum.
DiffersInLast(buffers, fingerprint) ==
    \/ fingerprint = NoFingerprint
    \/ Len(buffers) # Len(fingerprint.sum)
    \/ buffers # <<>>
       /\ Hashed(buffers, fingerprint.salt, fingerprint.iterations)[Len(buffers)]
             # fingerprint.sum[Len(buffers)]

\* Diff compares the sum with a hash by the recorded salt and iterations; a
\* fingerprint that is not there has no sum and differs.
Differs(buffers, fingerprint) ==
    \/ fingerprint = NoFingerprint
    \/ Hashed(buffers, fingerprint.salt, fingerprint.iterations) # fingerprint.sum

\* Secrets.Tar.
Stream(buffers) ==
    [n \in DOMAIN buffers |->
        [destination |-> layout[n].destination,
         content     |-> buffers[n].content,
         mode        |-> Mode(layout[n].permissions)]]

Destroy(buffers) == [n \in DOMAIN buffers |-> Destroyed]

LockedIn(buffers) == Cardinality({n \in DOMAIN buffers : buffers[n].locked})

TotalLocked == MapThenSumSet(LAMBDA i : left[i] + LockedIn(data[i]), Instances)

At(i, here) == pc[i] = here

Goto(i, there) == pc' = [pc EXCEPT ![i] = there]

-----------------------------------------------------------------------------
(* Secrets.Data, for Diff and for Create.                                   *)

Reading(i) ==
    /\ pc[i] \in {"diffRead", "read"}
    /\ Len(data[i]) < Len(layout)

Answer(i) == value[layout[Len(data[i]) + 1].source]

\* One secret is read and locked.
ReadSecret(i) ==
    /\ Reading(i)
    /\ Answer(i) # Empty => TotalLocked < Limit
    /\ data' = [data EXCEPT ![i] =
                   Append(@, [content |-> Answer(i), locked |-> Answer(i) # Empty])]
    /\ UNCHANGED <<user, turn, plan, pc, left, retry, recorded, diag, machine>>

\* Mutant: the buffers made so far stay locked.
ReadFailsLocked(i) ==
    /\ Reading(i)
    /\ data' = [data EXCEPT ![i] = <<>>]
    /\ left' = [left EXCEPT ![i] = @ + LockedIn(data[i])]
    /\ diag' = [diag EXCEPT ![i] = IF At(i, "read") THEN "error" ELSE @]
    /\ turn' = [turn EXCEPT ![i] = IF At(i, "read") THEN "applied" ELSE "unread"]
    /\ Goto(i, "idle")
    /\ UNCHANGED <<user, plan, retry, recorded, machine>>

\* A secret that cannot be read: the ones before it are destroyed, and Diff or
\* Create returns the error.
ReadFails(i) ==
    /\ Reading(i)
    /\ data' = [data EXCEPT ![i] = <<>>]
    /\ diag' = [diag EXCEPT ![i] = IF At(i, "read") THEN "error" ELSE @]
    /\ turn' = [turn EXCEPT ![i] = IF At(i, "read") THEN "applied" ELSE "unread"]
    /\ Goto(i, "idle")
    /\ UNCHANGED <<user, plan, left, retry, recorded, machine>>

-----------------------------------------------------------------------------
(* Instance.Diff (instance.go:120-173).                                     *)

StartDiff(i) ==
    /\ At(i, "idle")
    /\ turn[i] = "due"
    /\ Goto(i, "diffRead")
    /\ UNCHANGED <<user, turn, plan, data, left, retry, recorded, diag, machine>>

\* The verdict; a new derivation calls for an apply as well.  Nobody closes
\* these Secrets.
DiffCompares(i) ==
    /\ At(i, "diffRead")
    /\ Len(data[i]) = Len(layout)
    /\ plan' = [plan EXCEPT ![i] =
                   [differs  |-> Differs(data[i], recorded[i]),
                    change   |-> Differs(data[i], recorded[i]) \/ other[i],
                    contents |-> Contents(data[i])]]
    /\ turn' = [turn EXCEPT ![i] = "planned"]
    /\ left' = [left EXCEPT ![i] = @ + LockedIn(data[i])]
    /\ data' = [data EXCEPT ![i] = <<>>]
    /\ Goto(i, "idle")
    /\ UNCHANGED <<user, retry, recorded, diag, machine>>

\* The secrets are compared, and then the build fails: Diff returns the error.
DiffBuildFails(i) ==
    /\ At(i, "diffRead")
    /\ Len(data[i]) = Len(layout)
    /\ turn' = [turn EXCEPT ![i] = "failed"]
    /\ left' = [left EXCEPT ![i] = @ + LockedIn(data[i])]
    /\ data' = [data EXCEPT ![i] = <<>>]
    /\ Goto(i, "idle")
    /\ UNCHANGED <<user, plan, retry, recorded, diag, machine>>

\* The finalizer of a buffer that nobody refers to any more.
Collect(i) ==
    /\ left[i] > 0
    /\ left' = [left EXCEPT ![i] = @ - 1]
    /\ UNCHANGED <<user, turn, plan, pc, data, retry, recorded, diag, machine>>

-----------------------------------------------------------------------------
(* Instance.Create and Update (instance.go:175-260).                        *)

StartCreate(i) ==
    /\ At(i, "idle")
    /\ turn[i] = "planned"
    /\ plan[i].change
    /\ diag' = [diag EXCEPT ![i] = "none"]
    /\ Goto(i, "read")
    /\ UNCHANGED <<user, turn, plan, data, left, retry, recorded, machine>>

\* Mutant: every use of the secrets reads them again.
StartShippingAgain(i) ==
    /\ At(i, "read")
    /\ Len(data[i]) = Len(layout)
    /\ \/ /\ retry' = [retry EXCEPT ![i] = Retries]
          /\ Goto(i, "ship")
          /\ UNCHANGED <<data, left>>
       \/ /\ data' = [data EXCEPT ![i] = <<>>]
          /\ left' = [left EXCEPT ![i] = @ + LockedIn(data[i])]
          /\ UNCHANGED <<pc, retry>>
    /\ UNCHANGED <<user, turn, plan, recorded, diag, machine>>

\* Data has all of them; Create goes on.
StartShipping(i) ==
    /\ At(i, "read")
    /\ Len(data[i]) = Len(layout)
    /\ retry' = [retry EXCEPT ![i] = Retries]
    /\ Goto(i, "ship")
    /\ UNCHANGED <<user, turn, plan, data, left, recorded, diag, machine>>

\* Mutant: nobody closes Create's secrets either.
ReturnUnclosed(i) ==
    /\ data' = [data EXCEPT ![i] = <<>>]
    /\ left' = [left EXCEPT ![i] = @ + LockedIn(data[i])]
    /\ turn' = [turn EXCEPT ![i] = "applied"]
    /\ Goto(i, "idle")
    /\ UNCHANGED <<value, layout, plan>>

\* The deferred Close destroys every buffer.
Return(i) ==
    /\ data' = [data EXCEPT ![i] = <<>>]
    /\ turn' = [turn EXCEPT ![i] = "applied"]
    /\ Goto(i, "idle")
    /\ UNCHANGED <<value, layout, plan, left>>

\* Mutant: the count goes down without a bound.
RetryUnbounded(i) ==
    /\ retry' = [retry EXCEPT ![i] = @ - 1]
    /\ Goto(i, "ship")
    /\ UNCHANGED <<user, turn, plan, data, left, recorded, diag>>

\* The label `retry:`.  Data keeps what it has read, for every stream.
RetryOrFail(i) ==
    \/ /\ retry[i] > 0
       /\ retry' = [retry EXCEPT ![i] = @ - 1]
       /\ Goto(i, "ship")
       /\ UNCHANGED <<user, turn, plan, data, left, recorded, diag>>
    \/ /\ retry[i] = 0
       /\ diag' = [diag EXCEPT ![i] = "error"]
       /\ Return(i)
       /\ UNCHANGED <<other, retry, recorded>>

\* SecretsCopy: the stream is extracted on the machine.
Ship(i) ==
    /\ At(i, "ship")
    /\ machine' = [machine EXCEPT ![i] = Stream(data[i])]
    /\ Goto(i, "rest")
    /\ UNCHANGED <<user, turn, plan, data, left, retry, recorded, diag>>

\* It fails before, amid or after the extraction.
ShipFails(i) ==
    /\ At(i, "ship")
    /\ \E outcome \in {machine[i], Torn, Stream(data[i])} :
          machine' = [machine EXCEPT ![i] = outcome]
    /\ RetryOrFail(i)

\* Push and Switch.
Deploy(i) ==
    /\ At(i, "rest")
    /\ Goto(i, "record")
    /\ UNCHANGED <<user, turn, plan, data, left, retry, recorded, diag, machine>>

PushFails(i) ==
    /\ At(i, "rest")
    /\ RetryOrFail(i)
    /\ UNCHANGED machine

SwitchFails(i) ==
    /\ At(i, "rest")
    /\ diag' = [diag EXCEPT ![i] = "error"]
    /\ Return(i)
    /\ UNCHANGED <<other, retry, recorded, machine>>

\* Mutant: the secrets are closed before they are hashed.
RecordClosed(i) ==
    /\ At(i, "record")
    /\ \E draw \in Draws :
          recorded' = [recorded EXCEPT ![i] = FingerprintOf(Destroy(data[i]), draw)]
    /\ diag' = [diag EXCEPT ![i] = "ok"]
    /\ other' \in {other, [other EXCEPT ![i] = FALSE]}
    /\ Return(i)
    /\ UNCHANGED <<retry, machine>>

\* The fingerprint, with a salt and iterations of its own, then Close.  The
\* derivation is recorded as well; there may be a newer one by now.
Record(i) ==
    /\ At(i, "record")
    /\ \E draw \in Draws :
          recorded' = [recorded EXCEPT ![i] = FingerprintOf(data[i], draw)]
    /\ diag' = [diag EXCEPT ![i] = "ok"]
    /\ other' \in {other, [other EXCEPT ![i] = FALSE]}
    /\ Return(i)
    /\ UNCHANGED <<retry, machine>>

-----------------------------------------------------------------------------
(* Processes and the user.                                                  *)

\* The process and its memory are gone; an apply in flight has failed.  The
\* user may have edited the `secret` blocks before the next one.
NewProcess ==
    /\ layout' \in {layout} \cup {new \in Layouts : <<layout, new>> \in LayoutEdits}
    /\ turn' = [i \in Instances |-> "due"]
    /\ plan' = [i \in Instances |-> NoPlan]
    /\ pc' = [i \in Instances |-> "idle"]
    /\ data' = [i \in Instances |-> <<>>]
    /\ left' = [i \in Instances |-> 0]
    /\ diag' = [i \in Instances |-> IF pc[i] \in Applying THEN "error" ELSE diag[i]]
    /\ UNCHANGED <<value, other, retry, recorded, machine>>

\* Everything that was due is done, as far as the user approved.
Over == \A i \in Instances : At(i, "idle") /\ turn[i] # "due"

Exit == Over /\ NewProcess

Crash == ~Over /\ NewProcess

\* memguard panics when the process may not lock more memory.
LockPanics(i) ==
    /\ Reading(i)
    /\ Answer(i) # Empty
    /\ TotalLocked >= Limit
    /\ NewProcess

EditSecret ==
    /\ \E s \in Sources, new \in Values :
          /\ <<value[s], new>> \in Edits
          /\ value' = [value EXCEPT ![s] = new]
    /\ UNCHANGED <<layout, other, turn, plan, pc, data, left, retry, recorded, diag,
                   machine>>

\* The configuration of the system is edited.
EditSystem(i) ==
    /\ ~other[i]
    /\ other' = [other EXCEPT ![i] = TRUE]
    /\ UNCHANGED <<value, layout, turn, plan, pc, data, left, retry, recorded, diag,
                   machine>>

Progress(i) ==
    \/ ReadSecret(i) \/ LockPanics(i) \/ DiffCompares(i) \/ StartShipping(i)
    \/ Ship(i) \/ Deploy(i) \/ Record(i)

Failure(i) ==
    \/ ReadFails(i) \/ DiffBuildFails(i)
    \/ ShipFails(i) \/ PushFails(i) \/ SwitchFails(i)

Next ==
    \/ \E i \in Instances :
          Progress(i) \/ Failure(i) \/ StartDiff(i) \/ StartCreate(i)
          \/ Collect(i) \/ EditSystem(i)
    \/ Exit
    \/ Crash
    \/ EditSecret

Spec == Init /\ [][Next]_vars

\* Operations in flight go on, and the user runs Terraform again and again,
\* visits every instance and does not refuse changes for ever.
Operated ==
    /\ Spec
    /\ \A i \in Instances :
          /\ WF_vars(Progress(i) \/ Failure(i))
          /\ WF_vars(StartDiff(i))
          /\ SF_vars(StartCreate(i))
    /\ WF_vars(Exit)

-----------------------------------------------------------------------------
(* Properties.                                                              *)

\* What is recorded of an instance is the fingerprint of exactly the contents
\* that were last extracted on its machine, whatever was edited between the
\* reading of two secrets, retried, torn or closed on the way
\* (instance.go:189-233, secrets.go:214-310).
RecordedIsShipped ==
    \A i \in Instances :
        diag[i] = "ok" =>
            /\ machine[i] \notin {Torn, Missing}
            /\ recorded[i] # NoFingerprint
            /\ recorded[i].sum = Hashed(machine[i], recorded[i].salt, recorded[i].iterations)

\* Diff sees a change exactly when the contents it has read are not the ones
\* on the machine: no change is missed, and the salt and iterations that were
\* drawn for the record, 0 included, never make one up (instance.go:56, 144).
NoticesExactly ==
    \A i \in Instances :
        diag[i] = "ok" /\ turn[i] = "planned" =>
            (plan[i].differs <=> plan[i].contents # Contents(machine[i]))

\* The buffers that nobody will destroy are those of one finished Diff: what
\* failed on the way, and Create on any of its ways out, leaves none
\* (instance.go:139, 189, secrets.go:255).
LeavesOnlyDiffs ==
    \A i \in Instances :
        left[i] <= (IF turn[i] \in {"due", "unread"} THEN 0 ELSE Len(layout))

\* Where an operation stands decides what it has read, shipped and said.
Stands(i) ==
    /\ At(i, "idle") => data[i] = <<>>
    /\ At(i, "diffRead") => turn[i] = "due"
    /\ pc[i] \in Applying => turn[i] = "planned" /\ diag[i] = "none"
    /\ pc[i] \in {"ship", "rest", "record"} => Len(data[i]) = Len(layout)
    /\ pc[i] \in {"rest", "record"} => machine[i] = Stream(data[i])
    /\ turn[i] = "planned" => plan[i] # NoPlan

\* The three above and what they rest on, at every statement of Diff and Create
\* (instance.go:120-252): with TypeOK it is inductive.
SecretsInvariant ==
    /\ RecordedIsShipped
    /\ NoticesExactly
    /\ LeavesOnlyDiffs
    /\ \A i \in Instances : Stands(i)

\* With room for two buffers per secret and instance no operation panics, even
\* when nothing is ever collected (enclave.go:12, instance.go:139).
NeverPanicsWithRoom ==
    [][ 2 * Cardinality(Instances) * Len(layout) <= Limit =>
            \A i \in Instances : ~LockPanics(i) ]_vars

\* The last five digits of a mode, and of a number that stands for one.
Places == {<<1, 1>>, <<8, 10>>, <<64, 100>>, <<512, 1000>>, <<4096, 10000>>}

\* A mode on the machine has the octal digits the user wrote as decimal ones
\* (secrets.go:199); it holds for digits up to 7, and the schema takes any.
ModesAsWritten ==
    \A i \in Instances :
        At(i, "rest") =>
            \A n \in DOMAIN machine[i] :
                \A place \in Places :
                    (machine[i][n].mode \div place[1]) % 8
                        = (layout[n].permissions \div place[2]) % 10

\* Steps that may keep the machines from having the secrets.
Disturbance ==
    \/ \E i \in Instances : Failure(i) \/ LockPanics(i)
    \/ Crash
    \/ EditSecret

Wanted == [n \in DOMAIN layout |-> value[layout[n].source]]

Deployed ==
    \A i \in Instances :
        /\ machine[i] \notin {Torn, Missing}
        /\ Contents(machine[i]) = Wanted
        /\ recorded[i] # NoFingerprint
        /\ ~Differs(machine[i], recorded[i])

\* When nothing fails or is edited any more, the user gets the contents onto
\* every machine and keeps them there, layouts of one order being exchanged or
\* not (instance.go:125-148, 175-252).
Converges == <>[][~Disturbance]_vars => <>[]Deployed
=============================================================================
