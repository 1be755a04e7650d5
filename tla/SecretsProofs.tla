---------------------------- MODULE SecretsProofs ----------------------------
(***************************************************************************)
(* SecretsInvariant holds for any number of instances, secrets, contents,  *)
(* retries and draws, whatever room there is for locked memory; how much   *)
(* room is enough; and which modes the files get.                          *)
(***************************************************************************)
EXTENDS Secrets, Induction, SequenceTheorems

IInv == TypeOK /\ SecretsInvariant

\* The invariant, for one instance.
Good(i) ==
    /\ Stands(i)
    /\ diag[i] = "ok" =>
          /\ machine[i] \notin {Torn, Missing}
          /\ recorded[i] # NoFingerprint
          /\ recorded[i].sum = Hashed(machine[i], recorded[i].salt, recorded[i].iterations)
    /\ diag[i] = "ok" /\ turn[i] = "planned" =>
          (plan[i].differs <=> plan[i].contents # Contents(machine[i]))
    /\ left[i] <= (IF turn[i] \in {"due", "unread"} THEN 0 ELSE Len(layout))

LEMMA InvariantIsGood == SecretsInvariant <=> \A i \in Instances : Good(i)
BY DEF SecretsInvariant, RecordedIsShipped, NoticesExactly, LeavesOnlyDiffs, Good

-----------------------------------------------------------------------------
(* What the helpers return.                                                 *)

LEMMA DrawsAreTyped ==
    ASSUME NEW draw \in Draws
    PROVE  draw[1] \in Salts /\ draw[2] \in Nat
BY DrawAssumption

LEMMA LayoutsAreTyped ==
    ASSUME NEW blocks \in Layouts
    PROVE  /\ Len(blocks) \in Nat
           /\ DOMAIN blocks = 1 .. Len(blocks)
           /\ \A n \in 1 .. Len(blocks) : blocks[n] \in Description
<1>1. blocks \in Seq(Description)
  BY LayoutAssumption
<1> QED BY <1>1, LenProperties, ElementOfSeq

LEMMA BuffersAreTyped ==
    ASSUME NEW buffers \in Seq(Buffer)
    PROVE  /\ Len(buffers) \in Nat
           /\ DOMAIN buffers = 1 .. Len(buffers)
           /\ \A n \in 1 .. Len(buffers) :
                 buffers[n].content \in Values /\ buffers[n].locked \in BOOLEAN
<1>1. \A n \in 1 .. Len(buffers) : buffers[n] \in Buffer
  BY ElementOfSeq
<1> QED BY <1>1, LenProperties DEF Buffer

\* The rounds of the key derivation are a number.
LEMMA HashedIsTyped ==
    ASSUME NEW buffers \in Seq(Buffer), NEW salt \in Salts, NEW iterations \in Nat
    PROVE  Hashed(buffers, salt, iterations) \in Seq(Hash)
<1>1. Rounds(iterations) \in Nat
  BY DEF Rounds
<1>2. \A n \in 1 .. Len(buffers) : <<buffers[n].content, salt, Rounds(iterations)>> \in Hash
  BY <1>1, BuffersAreTyped DEF Hash
<1> DEFINE hash(n) == <<buffers[n].content, salt, Rounds(iterations)>>
<1>3. [n \in 1 .. Len(buffers) |-> hash(n)] \in Seq(Hash)
  <2>1. \A n \in 1 .. Len(buffers) : hash(n) \in Hash
    BY <1>2
  <2>2. Len(buffers) \in Nat
    BY BuffersAreTyped
  <2> HIDE DEF hash
  <2> QED BY <2>1, <2>2, IsASeq
<1> QED BY <1>3, BuffersAreTyped DEF Hashed

LEMMA ContentsAreTyped ==
    ASSUME NEW buffers \in Seq(Buffer)
    PROVE  Contents(buffers) \in Seq(Values)
<1> DEFINE content(n) == buffers[n].content
<1>1. [n \in 1 .. Len(buffers) |-> content(n)] \in Seq(Values)
  <2>1. \A n \in 1 .. Len(buffers) : content(n) \in Values
    BY BuffersAreTyped
  <2>2. Len(buffers) \in Nat
    BY BuffersAreTyped
  <2> HIDE DEF content
  <2> QED BY <2>1, <2>2, IsASeq
<1> QED BY <1>1, BuffersAreTyped DEF Contents

\* The stream of the buffers is a list of files with the buffers' contents.
LEMMA StreamOfBuffers ==
    ASSUME layout \in Layouts, NEW buffers \in Seq(Buffer), Len(buffers) <= Len(layout)
    PROVE  /\ Stream(buffers) \in Seq(File)
           /\ Contents(Stream(buffers)) = Contents(buffers)
           /\ \A salt, iterations :
                 Hashed(Stream(buffers), salt, iterations) = Hashed(buffers, salt, iterations)
<1> DEFINE entry(n) == [destination |-> layout[n].destination,
                        content     |-> buffers[n].content,
                        mode        |-> Mode(layout[n].permissions)]
<1>1. /\ Len(buffers) \in Nat
      /\ DOMAIN buffers = 1 .. Len(buffers)
      /\ 1 .. Len(buffers) \subseteq DOMAIN layout
      /\ 1 .. Len(buffers) \subseteq 1 .. Len(layout)
  BY BuffersAreTyped, LayoutsAreTyped
<1>2. ASSUME NEW n \in 1 .. Len(buffers) PROVE entry(n) \in File
  <2>1. layout[n].destination \in STRING
    BY <1>1, LayoutsAreTyped DEF Description
  <2>2. Mode(layout[n].permissions) \in Modes
    BY <1>1 DEF Modes
  <2>3. buffers[n].content \in Values
    BY BuffersAreTyped
  <2> QED BY <2>1, <2>2, <2>3 DEF File
<1>3. Stream(buffers) = [n \in 1 .. Len(buffers) |-> entry(n)]
  BY <1>1 DEF Stream
<1>4. Stream(buffers) \in Seq(File)
  <2> HIDE DEF entry
  <2> QED BY <1>1, <1>2, <1>3, IsASeq
<1>5. /\ DOMAIN Stream(buffers) = DOMAIN buffers
      /\ \A n \in DOMAIN buffers : Stream(buffers)[n].content = buffers[n].content
  BY DEF Stream
<1> QED BY <1>4, <1>5 DEF Contents, Hashed

\* With one salt and one number of iterations, sums differ when contents do.
LEMMA SumsTellContentsApart ==
    ASSUME NEW entries, NEW others, NEW salt, NEW iterations
    PROVE  Hashed(entries, salt, iterations) # Hashed(others, salt, iterations)
              <=> Contents(entries) # Contents(others)
<1> DEFINE hash(s) == Hashed(s, salt, iterations)
<1>1. ASSUME Contents(entries) = Contents(others) PROVE hash(entries) = hash(others)
  <2>1. DOMAIN entries = DOMAIN others
    BY <1>1 DEF Contents
  <2>2. \A n \in DOMAIN entries : entries[n].content = others[n].content
    BY <1>1, <2>1 DEF Contents
  <2> QED BY <2>1, <2>2 DEF Hashed
<1>2. ASSUME hash(entries) = hash(others) PROVE Contents(entries) = Contents(others)
  <2>1. DOMAIN entries = DOMAIN others
    BY <1>2 DEF Hashed
  <2>2. \A n \in DOMAIN entries : entries[n].content = others[n].content
    <3> TAKE n \in DOMAIN entries
    <3>1. /\ hash(entries)[n] = <<entries[n].content, salt, Rounds(iterations)>>
          /\ hash(others)[n] = <<others[n].content, salt, Rounds(iterations)>>
      BY <2>1 DEF Hashed
    <3> QED BY <3>1, <1>2
  <2> QED BY <2>1, <2>2 DEF Contents
<1> QED BY <1>1, <1>2

\* A list of buffers locks no more of them than it has.
LEMMA LockedIsBounded ==
    ASSUME NEW buffers \in Seq(Buffer)
    PROVE  LockedIn(buffers) \in Nat /\ LockedIn(buffers) <= Len(buffers)
<1> DEFINE locked == {n \in DOMAIN buffers : buffers[n].locked}
<1>1. Len(buffers) \in Nat /\ DOMAIN buffers = 1 .. Len(buffers)
  BY BuffersAreTyped
<1>2. /\ IsFiniteSet(1 .. Len(buffers))
      /\ Cardinality(1 .. Len(buffers)) = Len(buffers)
  <2>1. /\ IsFiniteSet(1 .. Len(buffers))
        /\ Cardinality(1 .. Len(buffers)) =
              IF 1 > Len(buffers) THEN 0 ELSE Len(buffers) - 1 + 1
    <3>1. 1 \in Int /\ Len(buffers) \in Int
      BY <1>1
    <3> QED BY <3>1, FS_Interval, Zenon
  <2> QED BY <1>1, <2>1
<1>3. locked \in SUBSET (1 .. Len(buffers))
  BY <1>1
<1>4. IsFiniteSet(locked) /\ Cardinality(locked) <= Cardinality(1 .. Len(buffers))
  BY <1>2, <1>3, FS_Subset
<1>5. Cardinality(locked) \in Nat
  BY <1>4, FS_CardinalityType, Zenon
<1>6. LockedIn(buffers) = Cardinality(locked)
  BY DEF LockedIn
<1> HIDE DEF locked
<1> QED BY <1>1, <1>2, <1>4, <1>5, <1>6

-----------------------------------------------------------------------------
(* Steps.                                                                   *)

\* A step of instance i leaves the others as they are.
OnlyMine(i) ==
    /\ layout' = layout
    /\ \A j \in Instances \ {i} :
          /\ turn'[j] = turn[j] /\ plan'[j] = plan[j] /\ pc'[j] = pc[j]
          /\ data'[j] = data[j] /\ left'[j] = left[j] /\ recorded'[j] = recorded[j]
          /\ diag'[j] = diag[j] /\ machine'[j] = machine[j]

\* What such a step has to show.
LEMMA OwnStepSuffices ==
    ASSUME IInv, NEW i \in Instances, OnlyMine(i), TypeOK', Good(i)'
    PROVE  IInv'
<1>1. ASSUME NEW j \in Instances PROVE Good(j)'
  <2>1. CASE j = i
    BY <2>1
  <2>2. CASE j # i
    <3>1. Good(j)
      BY InvariantIsGood DEF IInv
    <3>2. /\ layout' = layout /\ turn'[j] = turn[j] /\ plan'[j] = plan[j]
          /\ pc'[j] = pc[j] /\ data'[j] = data[j] /\ left'[j] = left[j]
          /\ recorded'[j] = recorded[j] /\ diag'[j] = diag[j] /\ machine'[j] = machine[j]
      BY <2>2 DEF OnlyMine
    <3>3. Stands(j)'
      BY <3>1, <3>2 DEF Good, Stands, At, Stream
    <3> QED BY <3>1, <3>2, <3>3 DEF Good, Contents, Hashed
  <2> QED BY <2>1, <2>2
<1>2. SecretsInvariant'
  BY <1>1 DEF SecretsInvariant, RecordedIsShipped, NoticesExactly, LeavesOnlyDiffs, Good
<1> QED BY <1>2 DEF IInv

\* What is known of the instance that makes a step.
LEMMA BeforeStep ==
    ASSUME IInv, NEW i \in Instances
    PROVE  /\ TypeOK
           /\ Good(i)
           /\ layout \in Layouts
           /\ Len(layout) \in Nat
           /\ data[i] \in Seq(Buffer)
           /\ Len(data[i]) \in Nat
           /\ Len(data[i]) <= Len(layout)
           /\ left[i] \in Nat
           /\ LockedIn(data[i]) \in Nat
           /\ LockedIn(data[i]) <= Len(data[i])
<1>1. data[i] \in Seq(Buffer) /\ layout \in Layouts /\ Len(data[i]) <= Len(layout)
      /\ left[i] \in Nat
  BY DEF IInv, TypeOK
<1> QED BY <1>1, InvariantIsGood, LayoutsAreTyped, BuffersAreTyped, LockedIsBounded DEF IInv

LEMMA ReadSecretKeeps ==
    ASSUME IInv, NEW i \in Instances, ReadSecret(i)
    PROVE  IInv'
<1> DEFINE buffer == [content |-> Answer(i), locked |-> Answer(i) # Empty]
<1>1. /\ pc[i] \in {"diffRead", "read"} /\ Len(data[i]) < Len(layout)
      /\ data' = [data EXCEPT ![i] = Append(@, buffer)]
  BY DEF ReadSecret, Reading
<1>2. buffer \in Buffer
  <2>1. Len(data[i]) + 1 \in 1 .. Len(layout)
    BY <1>1, BeforeStep
  <2>2. layout[Len(data[i]) + 1].source \in Sources
    BY <2>1, BeforeStep, LayoutsAreTyped DEF Description
  <2>3. value \in [Sources -> Values]
    BY BeforeStep DEF TypeOK
  <2> QED BY <2>2, <2>3 DEF Answer, Buffer
<1> HIDE DEF buffer
<1>3. /\ Append(data[i], buffer) \in Seq(Buffer)
      /\ Len(Append(data[i], buffer)) = Len(data[i]) + 1
  BY <1>2, BeforeStep, AppendProperties
<1>4. TypeOK'
  BY <1>1, <1>3, BeforeStep DEF TypeOK, ReadSecret, user
<1>5. OnlyMine(i)
  BY <1>1, BeforeStep DEF TypeOK, ReadSecret, user, OnlyMine
<1>6. Good(i)'
  BY <1>1, BeforeStep DEF ReadSecret, user, Good, Stands, At, Applying, Contents, Hashed
<1> QED BY <1>4, <1>5, <1>6, OwnStepSuffices

LEMMA ReadFailsKeeps ==
    ASSUME IInv, NEW i \in Instances, ReadFails(i)
    PROVE  IInv'
<1>1. TypeOK'
  BY BeforeStep, EmptySeq DEF TypeOK, ReadFails, Reading, Goto, user
<1>2. OnlyMine(i)
  BY BeforeStep DEF TypeOK, ReadFails, Goto, user, OnlyMine
<1>3. /\ pc'[i] = "idle" /\ data'[i] = <<>> /\ left'[i] = left[i] /\ layout' = layout
      /\ plan'[i] = plan[i] /\ recorded'[i] = recorded[i] /\ machine'[i] = machine[i]
      /\ turn'[i] = IF At(i, "read") THEN "applied" ELSE "unread"
      /\ diag'[i] = IF At(i, "read") THEN "error" ELSE diag[i]
      /\ pc[i] \in {"diffRead", "read"}
  BY BeforeStep DEF TypeOK, ReadFails, Reading, Goto, user
<1>4. Good(i)'
  <2>1. CASE At(i, "read")
    BY <2>1, <1>3, BeforeStep DEF Good, Stands, At, Applying
  <2>2. CASE ~At(i, "read")
    BY <2>2, <1>3, BeforeStep DEF Good, Stands, At, Applying, Hashed
  <2> QED BY <2>1, <2>2
<1> QED BY <1>1, <1>2, <1>4, OwnStepSuffices

LEMMA StartsKeep ==
    ASSUME IInv, NEW i \in Instances, StartDiff(i) \/ StartCreate(i) \/ StartShipping(i)
    PROVE  IInv'
<1> USE DEF Goto, user
<1>1. OnlyMine(i)
  BY BeforeStep DEF TypeOK, StartDiff, StartCreate, StartShipping, OnlyMine
<1>2. CASE StartDiff(i)
  <2>1. TypeOK'
    BY <1>2, BeforeStep DEF TypeOK, StartDiff
  <2>2. Good(i)'
    BY <1>2, BeforeStep
       DEF TypeOK, StartDiff, Good, Stands, At, Applying, Contents, Hashed
  <2> QED BY <2>1, <2>2, <1>1, OwnStepSuffices
<1>3. CASE StartCreate(i)
  <2>1. TypeOK'
    BY <1>3, BeforeStep DEF TypeOK, StartCreate, Applying
  <2>2. Good(i)'
    BY <1>3, BeforeStep DEF TypeOK, StartCreate, Good, Stands, At, Applying
  <2> QED BY <2>1, <2>2, <1>1, OwnStepSuffices
<1>4. CASE StartShipping(i)
  <2>1. TypeOK'
    BY <1>4, BeforeStep, BoundAssumption DEF TypeOK, StartShipping, Applying
  <2>2. Good(i)'
    BY <1>4, BeforeStep DEF TypeOK, StartShipping, Good, Stands, At, Applying
  <2> QED BY <2>1, <2>2, <1>1, OwnStepSuffices
<1> QED BY <1>2, <1>3, <1>4

\* The heart of NoticesExactly: what is recorded is the sum of the contents on
\* the machine, by the salt and the iterations that Diff hashes with.
LEMMA ComparesWithMachine ==
    ASSUME IInv, NEW i \in Instances, diag[i] = "ok"
    PROVE  Differs(data[i], recorded[i]) <=> Contents(data[i]) # Contents(machine[i])
<1>1. /\ recorded[i] # NoFingerprint
      /\ recorded[i].sum = Hashed(machine[i], recorded[i].salt, recorded[i].iterations)
  BY BeforeStep DEF Good
<1>2. Hashed(data[i], recorded[i].salt, recorded[i].iterations)
         # Hashed(machine[i], recorded[i].salt, recorded[i].iterations)
            <=> Contents(data[i]) # Contents(machine[i])
  BY SumsTellContentsApart
<1> QED BY <1>1, <1>2 DEF Differs

LEMMA DiffComparesKeeps ==
    ASSUME IInv, NEW i \in Instances, DiffCompares(i)
    PROVE  IInv'
<1> DEFINE verdict == [differs  |-> Differs(data[i], recorded[i]),
                       change   |-> Differs(data[i], recorded[i]) \/ other[i],
                       contents |-> Contents(data[i])]
<1>1. verdict \in Plan
  <2>1. Differs(data[i], recorded[i]) \in BOOLEAN /\ other[i] \in BOOLEAN
    BY BeforeStep DEF Differs, TypeOK
  <2>2. Contents(data[i]) \in Seq(Values)
    BY BeforeStep, ContentsAreTyped
  <2> QED BY <2>1, <2>2 DEF Plan
<1>2. /\ plan' = [plan EXCEPT ![i] = verdict]
      /\ pc[i] = "diffRead" /\ Len(data[i]) = Len(layout)
  BY DEF DiffCompares, At
<1>3. /\ verdict.differs = Differs(data[i], recorded[i])
      /\ verdict.contents = Contents(data[i])
  OBVIOUS
<1> HIDE DEF verdict
<1>4. TypeOK'
  BY <1>1, <1>2, BeforeStep, EmptySeq DEF TypeOK, DiffCompares, Goto, user
<1>5. OnlyMine(i)
  BY <1>2, BeforeStep DEF TypeOK, DiffCompares, Goto, user, OnlyMine
<1>6. /\ pc'[i] = "idle" /\ data'[i] = <<>> /\ left'[i] = left[i] + LockedIn(data[i])
      /\ layout' = layout /\ plan'[i] = verdict /\ recorded'[i] = recorded[i]
      /\ machine'[i] = machine[i] /\ turn'[i] = "planned" /\ diag'[i] = diag[i]
  BY <1>2, BeforeStep DEF TypeOK, DiffCompares, Goto, user
<1>7. Good(i)'
  <2>1. Stands(i)'
    BY <1>1, <1>6, AbsenceAssumption DEF Stands, At, Applying
  <2>2. left'[i] <= Len(layout)
    <3>1. left[i] <= 0
      BY <1>2, BeforeStep DEF Good, Stands, At
    <3> QED BY <3>1, <1>6, BeforeStep
  <2>3. diag[i] = "ok" => (plan'[i].differs <=> plan'[i].contents # Contents(machine[i]))
    BY <1>3, <1>6, ComparesWithMachine
  <2>4. diag[i] = "ok" =>
          /\ machine[i] \notin {Torn, Missing}
          /\ recorded[i] # NoFingerprint
          /\ recorded[i].sum = Hashed(machine[i], recorded[i].salt, recorded[i].iterations)
    BY BeforeStep DEF Good
  <2> QED BY <1>6, <2>1, <2>2, <2>3, <2>4 DEF Good, Contents, Hashed
<1> QED BY <1>4, <1>5, <1>7, OwnStepSuffices

LEMMA DiffBuildFailsKeeps ==
    ASSUME IInv, NEW i \in Instances, DiffBuildFails(i)
    PROVE  IInv'
<1> USE DEF Goto, user
<1>1. TypeOK'
  BY BeforeStep, EmptySeq DEF TypeOK, DiffBuildFails
<1>2. OnlyMine(i)
  BY BeforeStep DEF TypeOK, DiffBuildFails, OnlyMine
<1>3. /\ pc'[i] = "idle" /\ data'[i] = <<>> /\ left'[i] = left[i] + LockedIn(data[i])
      /\ layout' = layout /\ recorded'[i] = recorded[i] /\ machine'[i] = machine[i]
      /\ turn'[i] = "failed" /\ diag'[i] = diag[i] /\ pc[i] = "diffRead"
  BY BeforeStep DEF TypeOK, DiffBuildFails, At
<1>4. left[i] <= 0
  BY <1>3, BeforeStep DEF Good, Stands, At
<1>5. left'[i] <= Len(layout)
  BY <1>3, <1>4, BeforeStep
<1>6. Stands(i)'
  BY <1>3 DEF Stands, At, Applying
<1>7. diag[i] = "ok" =>
        /\ machine[i] \notin {Torn, Missing}
        /\ recorded[i] # NoFingerprint
        /\ recorded[i].sum = Hashed(machine[i], recorded[i].salt, recorded[i].iterations)
  BY BeforeStep DEF Good
<1>8. Good(i)'
  BY <1>3, <1>5, <1>6, <1>7 DEF Good, Hashed
<1> QED BY <1>1, <1>2, <1>8, OwnStepSuffices

LEMMA CollectKeeps ==
    ASSUME IInv, NEW i \in Instances, Collect(i)
    PROVE  IInv'
<1>1. TypeOK'
  BY BeforeStep DEF TypeOK, Collect, user
<1>2. OnlyMine(i)
  BY BeforeStep DEF TypeOK, Collect, user, OnlyMine
<1>3. /\ left'[i] = left[i] - 1
      /\ UNCHANGED <<layout, turn, plan, pc, data, recorded, diag, machine>>
  BY BeforeStep DEF TypeOK, Collect, user
<1>4. Stands(i)'
  BY <1>3, BeforeStep DEF Good, Stands, At, Stream
<1>5. left'[i] <= (IF turn[i] \in {"due", "unread"} THEN 0 ELSE Len(layout))
  BY <1>3, BeforeStep DEF Good
<1>6. diag[i] = "ok" /\ turn[i] = "planned" =>
        (plan[i].differs <=> plan[i].contents # Contents(machine[i]))
  BY BeforeStep DEF Good
<1>7. diag[i] = "ok" =>
        /\ machine[i] \notin {Torn, Missing}
        /\ recorded[i] # NoFingerprint
        /\ recorded[i].sum = Hashed(machine[i], recorded[i].salt, recorded[i].iterations)
  BY BeforeStep DEF Good
<1>8. Good(i)'
  BY <1>3, <1>4, <1>5, <1>6, <1>7 DEF Good, Contents, Hashed
<1> QED BY <1>1, <1>2, <1>8, OwnStepSuffices

\* Create's ways out: what it says of the record has to hold when it says "ok".
LEMMA ReturnKeeps ==
    ASSUME IInv, NEW i \in Instances, pc[i] \in Applying, Return(i),
           TypeOK', OnlyMine(i),
           diag'[i] \in {"ok", "error"},
           diag'[i] = "ok" =>
              /\ machine'[i] \notin {Torn, Missing}
              /\ recorded'[i] # NoFingerprint
              /\ recorded'[i].sum =
                    Hashed(machine'[i], recorded'[i].salt, recorded'[i].iterations)
    PROVE  IInv'
<1>1. /\ pc'[i] = "idle" /\ turn'[i] = "applied" /\ data'[i] = <<>>
      /\ left'[i] = left[i] /\ layout' = layout
  BY BeforeStep DEF TypeOK, Return, Goto
<1>2. left[i] <= Len(layout)
  BY BeforeStep DEF Good
<1>3. Stands(i)'
  BY <1>1 DEF Stands, At, Applying
<1>4. Good(i)'
  BY <1>1, <1>2, <1>3 DEF Good, Hashed
<1> QED BY <1>4, OwnStepSuffices

\* Retry or give up, from the secrets' copy or from Push, the machine having
\* got whatever it got.
LEMMA RetryKeeps ==
    ASSUME IInv, NEW i \in Instances, pc[i] \in {"ship", "rest"}, RetryOrFail(i),
           machine' \in [Instances -> Seq(File) \cup {Torn, Missing}],
           \A j \in Instances \ {i} : machine'[j] = machine[j]
    PROVE  IInv'
<1> USE DEF Goto, user
<1>1. CASE retry[i] > 0
  <2>1. /\ retry' = [retry EXCEPT ![i] = @ - 1]
        /\ pc' = [pc EXCEPT ![i] = "ship"]
        /\ UNCHANGED <<user, turn, plan, data, left, recorded, diag>>
    BY <1>1, BeforeStep, BoundAssumption DEF RetryOrFail, TypeOK
  <2>2. TypeOK'
    BY <1>1, <2>1, BeforeStep, BoundAssumption DEF TypeOK, Applying
  <2>3. OnlyMine(i)
    BY <2>1, BeforeStep DEF TypeOK, OnlyMine
  <2>4. pc[i] \in Applying /\ Len(data[i]) = Len(layout)
    BY BeforeStep DEF Good, Stands, Applying
  <2>5. turn[i] = "planned" /\ diag[i] = "none" /\ plan[i] # NoPlan
    BY <2>4, BeforeStep DEF Good, Stands
  <2>6. pc'[i] = "ship"
    BY <2>1, BeforeStep DEF TypeOK
  <2>7. Stands(i)'
    BY <2>1, <2>4, <2>5, <2>6 DEF Stands, At, Applying
  <2>8. left[i] <= Len(layout)
    BY BeforeStep DEF Good
  <2>9. Good(i)'
    BY <2>1, <2>5, <2>7, <2>8 DEF Good
  <2> QED BY <2>2, <2>3, <2>9, OwnStepSuffices
<1>2. CASE ~(retry[i] > 0)
  <2>1. /\ diag' = [diag EXCEPT ![i] = "error"]
        /\ Return(i)
        /\ UNCHANGED <<other, retry, recorded>>
    BY <1>2 DEF RetryOrFail
  <2>2. TypeOK'
    BY <2>1, BeforeStep, EmptySeq DEF TypeOK, Return
  <2>3. OnlyMine(i)
    BY <2>1, BeforeStep DEF TypeOK, OnlyMine, Return
  <2>4. diag'[i] = "error" /\ pc[i] \in Applying
    BY <2>1, BeforeStep DEF TypeOK, Applying
  <2> QED BY <2>1, <2>2, <2>3, <2>4, ReturnKeeps
<1> QED BY <1>1, <1>2

LEMMA ShipKeeps ==
    ASSUME IInv, NEW i \in Instances, Ship(i) \/ ShipFails(i)
    PROVE  IInv'
<1>1. At(i, "ship") /\ Len(data[i]) = Len(layout)
  BY BeforeStep DEF Ship, ShipFails, Good, Stands, At
<1>2. Stream(data[i]) \in Seq(File)
  BY BeforeStep, StreamOfBuffers
<1>3. CASE Ship(i)
  <2>1. TypeOK'
    BY <1>2, <1>3, BeforeStep DEF TypeOK, Ship, Goto, user, Applying
  <2>2. OnlyMine(i)
    BY <1>3, BeforeStep DEF TypeOK, OnlyMine, Ship, Goto, user
  <2>3. /\ turn[i] = "planned" /\ diag[i] = "none" /\ plan[i] # NoPlan
    BY <1>1, BeforeStep DEF Good, Stands, At, Applying
  <2>4. /\ pc'[i] = "rest" /\ machine'[i] = Stream(data[i])
        /\ UNCHANGED <<layout, turn, plan, data, left, recorded, diag>>
    BY <1>3, BeforeStep DEF TypeOK, Ship, Goto, user
  <2>5. Stands(i)'
    BY <1>1, <2>3, <2>4 DEF Stands, At, Applying, Stream
  <2>6. left[i] <= Len(layout)
    BY BeforeStep DEF Good
  <2>7. Good(i)'
    BY <2>3, <2>4, <2>5, <2>6 DEF Good
  <2> QED BY <2>1, <2>2, <2>7, OwnStepSuffices
<1>4. CASE ShipFails(i)
  <2>1. /\ machine' \in [Instances -> Seq(File) \cup {Torn, Missing}]
        /\ \A j \in Instances \ {i} : machine'[j] = machine[j]
    BY <1>2, <1>4, BeforeStep DEF TypeOK, ShipFails
  <2> QED BY <1>1, <1>4, <2>1, RetryKeeps DEF ShipFails, At
<1> QED BY <1>3, <1>4

LEMMA RestKeeps ==
    ASSUME IInv, NEW i \in Instances, Deploy(i) \/ PushFails(i) \/ SwitchFails(i)
    PROVE  IInv'
<1>1. At(i, "rest")
  BY DEF Deploy, PushFails, SwitchFails
<1>2. CASE Deploy(i)
  <2>1. TypeOK'
    BY <1>2, BeforeStep DEF TypeOK, Deploy, Goto, user, Applying
  <2>2. OnlyMine(i)
    BY <1>2, BeforeStep DEF TypeOK, OnlyMine, Deploy, Goto, user
  <2>3. /\ turn[i] = "planned" /\ diag[i] = "none" /\ plan[i] # NoPlan
        /\ Len(data[i]) = Len(layout) /\ machine[i] = Stream(data[i])
    BY <1>1, BeforeStep DEF Good, Stands, At, Applying
  <2>4. /\ pc'[i] = "record"
        /\ UNCHANGED <<layout, turn, plan, data, left, recorded, diag, machine>>
    BY <1>2, BeforeStep DEF TypeOK, Deploy, Goto, user
  <2>5. Stands(i)'
    BY <2>3, <2>4 DEF Stands, At, Applying, Stream
  <2>6. left[i] <= Len(layout)
    BY BeforeStep DEF Good
  <2>7. Good(i)'
    BY <2>3, <2>4, <2>5, <2>6 DEF Good
  <2> QED BY <2>1, <2>2, <2>7, OwnStepSuffices
<1>3. CASE PushFails(i)
  BY <1>1, <1>3, BeforeStep, RetryKeeps DEF PushFails, At, TypeOK
<1>4. CASE SwitchFails(i)
  <2>1. TypeOK'
    BY <1>4, BeforeStep, EmptySeq DEF TypeOK, SwitchFails, Return, Goto
  <2>2. OnlyMine(i)
    BY <1>4, BeforeStep DEF TypeOK, OnlyMine, SwitchFails, Return, Goto
  <2>3. diag'[i] = "error" /\ pc[i] \in Applying /\ Return(i)
    BY <1>1, <1>4, BeforeStep DEF TypeOK, SwitchFails, At, Applying
  <2> QED BY <2>1, <2>2, <2>3, ReturnKeeps
<1> QED BY <1>2, <1>3, <1>4

\* The record is made of the buffers the stream was made of.
LEMMA RecordKeeps ==
    ASSUME IInv, NEW i \in Instances, Record(i)
    PROVE  IInv'
<1>1. PICK draw \in Draws :
          recorded' = [recorded EXCEPT ![i] = FingerprintOf(data[i], draw)]
  BY DEF Record
<1>2. /\ draw[1] \in Salts /\ draw[2] \in Nat
      /\ Hashed(data[i], draw[1], draw[2]) \in Seq(Hash)
  BY BeforeStep, DrawsAreTyped, HashedIsTyped
<1>3. FingerprintOf(data[i], draw) \in Fingerprint
  BY <1>2 DEF FingerprintOf, Fingerprint
<1>4. At(i, "record") /\ machine[i] = Stream(data[i]) /\ Len(data[i]) = Len(layout)
  BY BeforeStep DEF Record, Good, Stands, At
<1>5. /\ machine[i] \in Seq(File)
      /\ Hashed(machine[i], draw[1], draw[2]) = Hashed(data[i], draw[1], draw[2])
  BY <1>4, BeforeStep, StreamOfBuffers
<1>6. TypeOK'
  <2>1. recorded' \in [Instances -> Fingerprint \cup {NoFingerprint}]
    BY <1>1, <1>3, BeforeStep DEF TypeOK
  <2>2. /\ other' \in [Instances -> BOOLEAN]
        /\ diag' \in [Instances -> {"none", "ok", "error"}]
    BY BeforeStep DEF TypeOK, Record
  <2>3. /\ data' \in [Instances -> Seq(Buffer)]
        /\ \A j \in Instances : Len(data'[j]) <= Len(layout')
    BY BeforeStep, EmptySeq DEF TypeOK, Record, Return
  <2>4. /\ turn' \in [Instances -> {"due", "unread", "failed", "planned", "applied"}]
        /\ pc' \in [Instances -> {"idle", "diffRead"} \cup Applying]
        /\ UNCHANGED <<value, layout, plan, left, retry, machine>>
    BY BeforeStep DEF TypeOK, Record, Return, Goto
  <2> QED BY <2>1, <2>2, <2>3, <2>4, BeforeStep DEF TypeOK
<1>7. OnlyMine(i)
  BY <1>1, BeforeStep DEF TypeOK, OnlyMine, Record, Return, Goto
<1>8. /\ diag'[i] = "ok" /\ pc[i] \in Applying /\ Return(i) /\ machine' = machine
      /\ recorded'[i] = FingerprintOf(data[i], draw)
  BY <1>1, <1>4, BeforeStep DEF TypeOK, Record, At, Applying
<1>9. /\ recorded'[i].sum = Hashed(machine[i], recorded'[i].salt, recorded'[i].iterations)
      /\ recorded'[i] # NoFingerprint
      /\ machine[i] \notin {Torn, Missing}
  BY <1>3, <1>5, <1>8, AbsenceAssumption DEF FingerprintOf
<1> QED BY <1>6, <1>7, <1>8, <1>9, ReturnKeeps

LEMMA NewProcessKeeps ==
    ASSUME IInv, NewProcess
    PROVE  IInv'
<1>1. TypeOK'
  <2>1. layout' \in Layouts /\ Len(layout') \in Nat
    BY LayoutsAreTyped DEF NewProcess, IInv, TypeOK
  <2> QED BY <2>1, EmptySeq DEF NewProcess, IInv, TypeOK
<1>2. ASSUME NEW i \in Instances PROVE Good(i)'
  <2>1. /\ pc'[i] = "idle" /\ turn'[i] = "due" /\ data'[i] = <<>> /\ left'[i] = 0
        /\ recorded'[i] = recorded[i] /\ machine'[i] = machine[i]
        /\ diag'[i] = "ok" => diag[i] = "ok"
    BY DEF NewProcess
  <2>2. diag[i] = "ok" =>
          /\ machine[i] \notin {Torn, Missing}
          /\ recorded[i] # NoFingerprint
          /\ recorded[i].sum = Hashed(machine[i], recorded[i].salt, recorded[i].iterations)
    BY BeforeStep DEF Good
  <2>3. Stands(i)'
    BY <2>1 DEF Stands, At, Applying
  <2> QED BY <2>1, <2>2, <2>3 DEF Good, Hashed
<1>3. SecretsInvariant'
  BY <1>2 DEF SecretsInvariant, RecordedIsShipped, NoticesExactly, LeavesOnlyDiffs, Good
<1> QED BY <1>1, <1>3 DEF IInv

\* What the user edits of secrets and system concerns no instance's invariant.
LEMMA EditsKeep ==
    ASSUME IInv,
           TypeOK',
           UNCHANGED <<layout, turn, plan, pc, data, left, recorded, diag, machine>>
    PROVE  IInv'
BY DEF IInv, SecretsInvariant, RecordedIsShipped, NoticesExactly, LeavesOnlyDiffs, Stands,
       At, Stream, Hashed, Contents

LEMMA Invariance == IInv /\ [Next]_vars => IInv'
<1> SUFFICES ASSUME IInv, [Next]_vars PROVE IInv'
  OBVIOUS
<1>1. ASSUME NEW i \in Instances, Progress(i) PROVE IInv'
  BY <1>1, ReadSecretKeeps, DiffComparesKeeps, StartsKeep, ShipKeeps, RestKeeps, RecordKeeps,
     NewProcessKeeps
     DEF Progress, LockPanics
<1>2. ASSUME NEW i \in Instances, Failure(i) PROVE IInv'
  BY <1>2, ReadFailsKeeps, DiffBuildFailsKeeps, ShipKeeps, RestKeeps DEF Failure
<1>3. ASSUME NEW i \in Instances, StartDiff(i) \/ StartCreate(i) \/ Collect(i) PROVE IInv'
  BY <1>3, StartsKeep, CollectKeeps
<1>4. ASSUME NEW i \in Instances, EditSystem(i) PROVE IInv'
  <2>1. TypeOK'
    BY <1>4 DEF EditSystem, IInv, TypeOK
  <2> QED BY <1>4, <2>1, EditsKeep DEF EditSystem
<1>5. ASSUME EditSecret PROVE IInv'
  <2>1. TypeOK'
    BY <1>5, ValueAssumption DEF EditSecret, IInv, TypeOK
  <2> QED BY <1>5, <2>1, EditsKeep DEF EditSecret
<1>6. ASSUME Exit \/ Crash PROVE IInv'
  BY <1>6, NewProcessKeeps DEF Exit, Crash
<1>7. ASSUME UNCHANGED vars PROVE IInv'
  <2>1. TypeOK'
    BY <1>7 DEF vars, user, IInv, TypeOK
  <2> QED BY <1>7, <2>1, EditsKeep DEF vars, user
<1> QED BY <1>1, <1>2, <1>3, <1>4, <1>5, <1>6, <1>7 DEF Next

LEMMA Initially == Init => IInv
<1> SUFFICES ASSUME Init PROVE IInv
  OBVIOUS
<1>1. Len(layout) \in Nat
  BY LayoutsAreTyped DEF Init
<1>2. TypeOK
  BY <1>1, ValueAssumption, BoundAssumption, EmptySeq DEF Init, TypeOK
<1>3. ASSUME NEW i \in Instances PROVE Good(i)
  BY <1>1 DEF Init, Good, Stands, At, Applying
<1> QED BY <1>2, <1>3, InvariantIsGood DEF IInv

LEMMA Inductive == Spec => []IInv
BY Initially, Invariance, PTL DEF Spec

-----------------------------------------------------------------------------
(* Theorems.                                                                *)

\* Types, with the retries' bound and no more buffers than secrets
\* (secrets.go:246, instance.go:197).
THEOREM TypeCorrect == Spec => []TypeOK
<1>1. IInv => TypeOK
  BY DEF IInv
<1> QED BY <1>1, Inductive, PTL

\* Each statement of Diff and Create finds what the ones before it left
\* (instance.go:120-252).
THEOREM SecretsInOrder == Spec => []SecretsInvariant
<1>1. IInv => SecretsInvariant
  BY DEF IInv
<1> QED BY <1>1, Inductive, PTL

\* After a successful apply the fingerprint is the one of the files on the
\* machine (instance.go:189-233).
THEOREM RecordIsOfTheMachine == Spec => []RecordedIsShipped
<1>1. IInv => RecordedIsShipped
  BY DEF IInv, SecretsInvariant
<1> QED BY <1>1, Inductive, PTL

\* Diff misses no change of contents and makes none up (instance.go:144).
THEOREM DiffNotices == Spec => []NoticesExactly
<1>1. IInv => NoticesExactly
  BY DEF IInv, SecretsInvariant
<1> QED BY <1>1, Inductive, PTL

\* Locked memory outlives an operation only when it was a Diff's
\* (instance.go:139, 189; secrets.go:255).
THEOREM OnlyDiffsLeaveMemory == Spec => []LeavesOnlyDiffs
<1>1. IInv => LeavesOnlyDiffs
  BY DEF IInv, SecretsInvariant
<1> QED BY <1>1, Inductive, PTL

-----------------------------------------------------------------------------
(* Room for locked memory.                                                 *)

\* The buffers of one instance.
LockedOf(i) == left[i] + LockedIn(data[i])

Any(s) == CHOOSE i \in s : TRUE

\* TotalLocked adds them up, one instance after the other.
LEMMA TotalIsASum ==
    ASSUME \A i \in Instances : LockedOf(i) \in Nat
    PROVE  \E sum \in [SUBSET Instances -> Nat] :
              /\ \A s \in SUBSET Instances :
                    sum[s] = IF s = {} THEN 0 ELSE LockedOf(Any(s)) + sum[s \ {Any(s)}]
              /\ TotalLocked = sum[Instances]
<1> DEFINE X == SUBSET Instances
           rank  == [s \in X |-> Cardinality(s)]
           below == [s \in X |-> s \ {Any(s)}]
           base  == [s \in X |-> 0]
           step  == [p \in X \X Nat |-> IF p[1] = {} THEN 0 ELSE LockedOf(Any(p[1])) + p[2]]
           Sums(f) == f = [s \in X |-> IF s = {} THEN 0
                                        ELSE LockedOf(Any(s)) + f[s \ {Any(s)}]]
<1>1. \A s \in X : s # {} => Any(s) \in s
  BY DEF Any
<1>2. ASSUME NEW s \in X
      PROVE  /\ IsFiniteSet(s) /\ Cardinality(s) \in Nat
             /\ Cardinality(s) = 0 <=> s = {}
             /\ s # {} => Cardinality(s \ {Any(s)}) = Cardinality(s) - 1
  <2>1. IsFiniteSet(s)
    BY FS_Subset, InstanceAssumption
  <2>2. Cardinality(s) \in Nat /\ (Cardinality(s) = 0 <=> s = {})
    BY <2>1, FS_CardinalityType, FS_EmptySet
  <2>3. s # {} => Cardinality(s \ {Any(s)}) = Cardinality(s) - 1
    BY <1>1, <2>1, FS_RemoveElement
  <2> QED BY <2>1, <2>2, <2>3
<1>3. Recursive(X, Nat, rank, below, base, step)
  <2>1. rank \in [X -> Nat] /\ below \in [X -> X] /\ base \in [X -> Nat]
    BY <1>2
  <2>2. step \in [X \X Nat -> Nat]
    <3>1. ASSUME NEW p \in X \X Nat
          PROVE  (IF p[1] = {} THEN 0 ELSE LockedOf(Any(p[1])) + p[2]) \in Nat
      <4>1. p[1] \in X /\ p[2] \in Nat
        OBVIOUS
      <4>2. p[1] # {} => LockedOf(Any(p[1])) \in Nat
        BY <1>1, <4>1
      <4> QED BY <4>1, <4>2
    <3> QED BY <3>1
  <2>3. \A s \in X : rank[s] # 0 => rank[below[s]] < rank[s]
    BY <1>2
  <2> HIDE DEF rank, below, base, step
  <2> QED BY <2>1, <2>2, <2>3 DEF Recursive
<1>4. PICK f \in [X -> Nat] : Solves(f, X, rank, below, base, step)
  <2> HIDE DEF rank, below, base, step, X
  <2> QED BY <1>3, Recursion
<1>5. \E g : Sums(g)
  <2>1. ASSUME NEW s \in X
        PROVE  f[s] = IF s = {} THEN 0 ELSE LockedOf(Any(s)) + f[s \ {Any(s)}]
    <3>1. \A y \in Nat : step[<<s, y>>] = IF s = {} THEN 0 ELSE LockedOf(Any(s)) + y
      OBVIOUS
    <3>2. f[s] = IF rank[s] = 0 THEN base[s] ELSE step[<<s, f[below[s]]>>]
      BY <1>4 DEF Solves
    <3>3. below[s] = s \ {Any(s)} /\ below[s] \in X /\ base[s] = 0 /\ (rank[s] = 0 <=> s = {})
      BY <1>2
    <3> HIDE DEF rank, below, base, step
    <3> QED BY <3>1, <3>2, <3>3
  <2> QED BY <2>1
<1> DEFINE sum == CHOOSE g : Sums(g)
<1>6. Sums(sum)
  <2> HIDE DEF Sums
  <2> QED BY <1>5
<1>7. TotalLocked = sum[Instances]
  BY DEF TotalLocked, MapThenSumSet, MapThenFoldSet, LockedOf, Any
<1> HIDE DEF sum
<1>8. \A s \in X : sum[s] = IF s = {} THEN 0 ELSE LockedOf(Any(s)) + sum[s \ {Any(s)}]
  BY <1>6
<1>9. ASSUME NEW s \in X PROVE sum[s] \in Nat
  <2> DEFINE T == {r \in X : sum[r] \notin Nat}
  <2>1. SUFFICES ASSUME T # {} PROVE FALSE
    OBVIOUS
  <2>2. PICK r \in T : \A t \in T : rank[r] <= rank[t]
    <3>1. T \subseteq X /\ rank \in [X -> Nat]
      BY <1>2
    <3> HIDE DEF T, rank, X
    <3> QED BY <2>1, <3>1, LeastRank
  <2>3. r # {} /\ r \in X
    <3>1. r \in X /\ sum[r] \notin Nat
      BY <2>2
    <3>2. r = {} => sum[r] = 0
      BY <1>8, <3>1
    <3> QED BY <3>1, <3>2
  <2>4. r \ {Any(r)} \in X /\ rank[r \ {Any(r)}] < rank[r]
    BY <1>2, <2>3
  <2>5. sum[r \ {Any(r)}] \in Nat
    <3>1. ~(rank[r] <= rank[r \ {Any(r)}])
      BY <1>2, <2>3, <2>4
    <3> QED BY <2>2, <2>4, <3>1
  <2> QED BY <1>1, <1>8, <2>2, <2>3, <2>5
<1>10. sum \in [X -> Nat]
  BY <1>6, <1>9
<1> QED BY <1>7, <1>8, <1>10

\* When none has more than a bound, and one has less, there are less than the
\* bound for each.
LEMMA TotalIsBelow ==
    ASSUME \A i \in Instances : LockedOf(i) \in Nat,
           NEW bound \in Nat, \A i \in Instances : LockedOf(i) <= bound,
           NEW j \in Instances, LockedOf(j) < bound
    PROVE  TotalLocked < bound * Cardinality(Instances)
<1> DEFINE X == SUBSET Instances
           rank == [s \in X |-> Cardinality(s)]
<1>1. PICK sum \in [X -> Nat] :
         /\ \A s \in X : sum[s] = IF s = {} THEN 0 ELSE LockedOf(Any(s)) + sum[s \ {Any(s)}]
         /\ TotalLocked = sum[Instances]
  BY TotalIsASum
<1> DEFINE Below(s) == /\ sum[s] <= bound * Cardinality(s)
                       /\ j \in s => sum[s] < bound * Cardinality(s)
<1>2. ASSUME NEW s \in X
      PROVE  /\ IsFiniteSet(s) /\ Cardinality(s) \in Nat
             /\ s = {} => Cardinality(s) = 0
             /\ s # {} => Any(s) \in s /\ Cardinality(s \ {Any(s)}) = Cardinality(s) - 1
  <2>1. IsFiniteSet(s)
    BY FS_Subset, InstanceAssumption
  <2>2. s # {} => Any(s) \in s
    BY DEF Any
  <2> QED BY <2>1, <2>2, FS_CardinalityType, FS_EmptySet, FS_RemoveElement
<1>3. ASSUME NEW s \in X PROVE Below(s)
  <2> DEFINE T == {r \in X : ~Below(r)}
  <2>1. SUFFICES ASSUME T # {} PROVE FALSE
    OBVIOUS
  <2>2. PICK r \in T : \A t \in T : rank[r] <= rank[t]
    <3>1. T \subseteq X /\ rank \in [X -> Nat]
      BY <1>2
    <3> HIDE DEF T, rank, X
    <3> QED BY <2>1, <3>1, LeastRank
  <2>3. r \in X /\ ~Below(r) /\ Cardinality(r) \in Nat /\ sum[r] \in Nat
    BY <1>2, <2>2
  <2>4. r # {}
    <3>1. r = {} => sum[r] = 0 /\ Cardinality(r) = 0 /\ j \notin r
      BY <1>1, <1>2, <2>3
    <3>2. bound * 0 = 0
      OBVIOUS
    <3> QED BY <2>3, <3>1, <3>2
  <2> DEFINE rest == r \ {Any(r)}
  <2>5. /\ rest \in X /\ Any(r) \in r /\ Any(r) \in Instances
        /\ Cardinality(rest) \in Nat /\ Cardinality(r) = Cardinality(rest) + 1
        /\ sum[rest] \in Nat
        /\ sum[r] = LockedOf(Any(r)) + sum[rest]
    <3>1. rest \in X /\ Any(r) \in r /\ Any(r) \in Instances
      BY <1>2, <2>3, <2>4
    <3>2. Cardinality(rest) = Cardinality(r) - 1 /\ Cardinality(rest) \in Nat
      <4>1. Cardinality(rest) = Cardinality(r) - 1
        BY <1>2, <2>3, <2>4
      <4>2. Cardinality(rest) \in Nat
        BY <1>2, <3>1
      <4> QED BY <4>1, <4>2
    <3>3. Cardinality(r) = Cardinality(rest) + 1
      BY <2>3, <3>2
    <3> QED BY <1>1, <2>3, <2>4, <3>1, <3>2, <3>3
  <2>6. Below(rest)
    <3>1. ~(rank[r] <= rank[rest])
      BY <2>3, <2>5
    <3> QED BY <2>2, <2>5, <3>1
  <2>7. bound * Cardinality(r) = bound * Cardinality(rest) + bound
        /\ bound * Cardinality(rest) \in Nat
    BY <2>5
  <2>8. LockedOf(Any(r)) \in Nat /\ LockedOf(Any(r)) <= bound
        /\ (Any(r) = j => LockedOf(Any(r)) < bound)
    BY <2>5
  <2>9. j \in r => j \in rest \/ Any(r) = j
    OBVIOUS
  <2> HIDE DEF rest
  <2> QED BY <2>3, <2>5, <2>6, <2>7, <2>8, <2>9
<1>4. Below(Instances)
  BY <1>3
<1> QED BY <1>1, <1>4

\* With room for two buffers per secret and instance nothing panics: an instance
\* that is about to read has at most what its Diff left, and less than all.
THEOREM NoPanicWithRoom == Spec => NeverPanicsWithRoom
<1>1. ASSUME IInv, 2 * Cardinality(Instances) * Len(layout) <= Limit, NEW i \in Instances,
             LockPanics(i)
      PROVE  FALSE
  <2>1. ASSUME NEW k \in Instances
        PROVE  LockedOf(k) \in Nat /\ LockedOf(k) <= 2 * Len(layout)
    <3>1. left[k] <= Len(layout)
      BY <1>1, BeforeStep DEF Good
    <3> QED BY <1>1, <3>1, BeforeStep DEF LockedOf
  <2>2. LockedOf(i) < 2 * Len(layout)
    <3>1. left[i] <= Len(layout) /\ Len(data[i]) < Len(layout)
      BY <1>1, BeforeStep DEF Good, LockPanics, Reading
    <3> QED BY <1>1, <3>1, BeforeStep DEF LockedOf
  <2>3. Len(layout) \in Nat /\ Cardinality(Instances) \in Nat
    BY <1>1, BeforeStep, InstanceAssumption, FS_CardinalityType
  <2>4. TotalLocked < (2 * Len(layout)) * Cardinality(Instances)
    <3>1. 2 * Len(layout) \in Nat
      BY <2>3
    <3> QED BY <2>1, <2>2, <3>1, TotalIsBelow
  <2>5. TotalLocked >= Limit
    BY <1>1 DEF LockPanics
  <2>6. TotalLocked \in Nat
    BY <2>1, TotalIsASum
  <2>7. (2 * Len(layout)) * Cardinality(Instances) = 2 * Cardinality(Instances) * Len(layout)
    BY <2>3
  <2>8. 2 * Cardinality(Instances) * Len(layout) \in Nat
    BY <2>3
  <2> QED BY <1>1, <2>4, <2>5, <2>6, <2>7, <2>8, BoundAssumption
<1>2. IInv => (2 * Cardinality(Instances) * Len(layout) <= Limit =>
                  \A i \in Instances : ~LockPanics(i))
  BY <1>1
<1> QED BY <1>2, Inductive, PTL DEF NeverPanicsWithRoom

-----------------------------------------------------------------------------
(* The modes of the files.                                                  *)

\* fromOctal, one digit at a time (secrets.go:199).
LEMMA FromOctalStep ==
    /\ FromOctal \in [Nat -> Nat]
    /\ \A n \in Nat : FromOctal[n] = IF n = 0 THEN 0 ELSE (n % 10) + 8 * FromOctal[n \div 10]
<1> DEFINE rank  == [n \in Nat |-> n]
           below == [n \in Nat |-> n \div 10]
           base  == [n \in Nat |-> 0]
           step  == [s \in Nat \X Nat |-> (s[1] % 10) + 8 * s[2]]
           Octal(f) == f = [n \in Nat |-> IF n = 0 THEN 0 ELSE (n % 10) + 8 * f[n \div 10]]
<1>1. \A n \in Nat : n \div 10 \in Nat /\ (n # 0 => n \div 10 < n)
  OBVIOUS
<1>2. \E f \in [Nat -> Nat] : Octal(f)
  <2>1. ASSUME NEW s \in Nat \X Nat PROVE (s[1] % 10) + 8 * s[2] \in Nat
    <3>1. s[1] \in Nat /\ s[2] \in Nat
      OBVIOUS
    <3> QED BY <3>1
  <2>2. Recursive(Nat, Nat, rank, below, base, step)
    BY <1>1, <2>1 DEF Recursive
  <2>3. PICK f \in [Nat -> Nat] : Solves(f, Nat, rank, below, base, step)
    <3> HIDE DEF rank, below, base, step
    <3> QED BY <2>2, Recursion
  <2>4. \A n \in Nat : f[n] = IF n = 0 THEN 0 ELSE (n % 10) + 8 * f[n \div 10]
    <3> TAKE n \in Nat
    <3>1. f[n] = IF n = 0 THEN 0 ELSE step[<<n, f[n \div 10]>>]
      BY <2>3 DEF Solves
    <3>2. \A y \in Nat : step[<<n, y>>] = (n % 10) + 8 * y
      OBVIOUS
    <3>3. f[n \div 10] \in Nat
      BY <1>1
    <3> HIDE DEF step
    <3> QED BY <3>1, <3>2, <3>3
  <2> QED BY <2>4
<1>3. Octal(FromOctal)
  <2>1. FromOctal = CHOOSE f : Octal(f)
    BY DEF FromOctal
  <2> HIDE DEF Octal
  <2> QED BY <1>2, <2>1
<1>4. ASSUME NEW n \in Nat PROVE FromOctal[n] \in Nat
  <2> DEFINE T == {m \in Nat : FromOctal[m] \notin Nat}
  <2>1. SUFFICES ASSUME T # {} PROVE FALSE
    OBVIOUS
  <2>2. PICK m \in T : \A k \in T : m <= k
    <3>1. T \subseteq Nat
      OBVIOUS
    <3> HIDE DEF T
    <3> QED BY <2>1, <3>1, LeastNumber
  <2>3. m \in Nat /\ FromOctal[m] = IF m = 0 THEN 0 ELSE (m % 10) + 8 * FromOctal[m \div 10]
    BY <1>3
  <2>4. m # 0 /\ FromOctal[m \div 10] \in Nat
    BY <1>1, <2>2, <2>3
  <2> QED BY <2>3, <2>4
<1> QED BY <1>3, <1>4

\* Octal digits come out as they went in, place by place.
LEMMA DigitsKept ==
    ASSUME NEW n \in Nat, \A place \in Places : (n \div place[2]) % 10 <= 7
    PROVE  \A place \in Places : (Mode(n) \div place[1]) % 8 = (n \div place[2]) % 10
<1> DEFINE tail(m) == m \div 10
<1>1. ASSUME NEW m \in Nat, m % 10 <= 7
      PROVE  /\ FromOctal[m] \in Nat
             /\ FromOctal[m] % 8 = m % 10
             /\ FromOctal[m] \div 8 = FromOctal[m \div 10]
  <2>1. m \div 10 \in Nat /\ m % 10 \in Nat /\ (m = 0 => m % 10 = 0 /\ m \div 10 = 0)
    OBVIOUS
  <2>2. FromOctal[m] \in Nat /\ FromOctal[m \div 10] \in Nat
    BY <2>1, FromOctalStep
  <2>3. FromOctal[m] = (m % 10) + 8 * FromOctal[m \div 10]
    <3>1. CASE m = 0
      <4>1. m % 10 = 0 /\ m \div 10 = 0 /\ FromOctal[m] = 0
        BY <2>1, <3>1, FromOctalStep
      <4> QED BY <4>1, <3>1
    <3>2. CASE m # 0
      BY <3>2, FromOctalStep
    <3> QED BY <3>1, <3>2
  <2>4. \A d \in 0 .. 7, k \in Nat : (d + 8 * k) % 8 = d /\ (d + 8 * k) \div 8 = k
    OBVIOUS
  <2>5. m % 10 \in 0 .. 7
    BY <1>1, <2>1
  <2> QED BY <2>2, <2>3, <2>4, <2>5
<1>2. /\ n \div 1 = n /\ (n \div 10) \div 10 = n \div 100
      /\ (n \div 100) \div 10 = n \div 1000 /\ (n \div 1000) \div 10 = n \div 10000
      /\ n \div 10 \in Nat /\ n \div 100 \in Nat /\ n \div 1000 \in Nat /\ n \div 10000 \in Nat
  OBVIOUS
<1>3. /\ n % 10 <= 7 /\ (n \div 10) % 10 <= 7 /\ (n \div 100) % 10 <= 7
      /\ (n \div 1000) % 10 <= 7 /\ (n \div 10000) % 10 <= 7
  BY <1>2 DEF Places
<1>4. \A k \in Nat : /\ k \div 1 = k /\ (k \div 8) \div 8 = k \div 64
                     /\ (k \div 64) \div 8 = k \div 512 /\ (k \div 512) \div 8 = k \div 4096
  OBVIOUS
<1>5. FromOctal[n] % 8 = n % 10 /\ FromOctal[n] \div 8 = FromOctal[n \div 10]
      /\ FromOctal[n] \in Nat
  BY <1>1, <1>3
<1>6. FromOctal[n \div 10] % 8 = (n \div 10) % 10
      /\ FromOctal[n \div 10] \div 8 = FromOctal[n \div 100]
  BY <1>1, <1>2, <1>3
<1>7. FromOctal[n \div 100] % 8 = (n \div 100) % 10
      /\ FromOctal[n \div 100] \div 8 = FromOctal[n \div 1000]
  BY <1>1, <1>2, <1>3
<1>8. FromOctal[n \div 1000] % 8 = (n \div 1000) % 10
      /\ FromOctal[n \div 1000] \div 8 = FromOctal[n \div 10000]
  BY <1>1, <1>2, <1>3
<1>9. FromOctal[n \div 10000] % 8 = (n \div 10000) % 10
  BY <1>1, <1>2, <1>3
<1>10. /\ Mode(n) \div 1 = FromOctal[n] /\ Mode(n) \div 8 = FromOctal[n \div 10]
       /\ Mode(n) \div 64 = FromOctal[n \div 100] /\ Mode(n) \div 512 = FromOctal[n \div 1000]
       /\ Mode(n) \div 4096 = FromOctal[n \div 10000]
  BY <1>4, <1>5, <1>6, <1>7, <1>8 DEF Mode
<1>11. ASSUME NEW place \in Places
       PROVE  (Mode(n) \div place[1]) % 8 = (n \div place[2]) % 10
  <2>1. \/ place[1] = 1 /\ place[2] = 1
        \/ place[1] = 8 /\ place[2] = 10
        \/ place[1] = 64 /\ place[2] = 100
        \/ place[1] = 512 /\ place[2] = 1000
        \/ place[1] = 4096 /\ place[2] = 10000
    BY DEF Places
  <2> QED BY <1>2, <1>5, <1>6, <1>7, <1>8, <1>9, <1>10, <2>1
<1> QED BY <1>11

\* The user writes octal digits.
OctalDigits ==
    \A blocks \in Layouts : \A n \in DOMAIN blocks : \A place \in Places :
        (blocks[n].permissions \div place[2]) % 10 <= 7

\* Then the files get the modes that were written (secrets.go:199).
THEOREM ModesArePreserved ==
    ASSUME OctalDigits
    PROVE  Spec => []ModesAsWritten
<1>1. IInv => ModesAsWritten
  <2> SUFFICES ASSUME IInv, NEW i \in Instances, At(i, "rest"), NEW n \in DOMAIN machine[i]
               PROVE  \A place \in Places :
                         (machine[i][n].mode \div place[1]) % 8
                             = (layout[n].permissions \div place[2]) % 10
    BY DEF ModesAsWritten
  <2>1. machine[i] = Stream(data[i]) /\ DOMAIN data[i] = DOMAIN layout
    <3>1. machine[i] = Stream(data[i]) /\ Len(data[i]) = Len(layout)
      BY BeforeStep DEF Good, Stands, At
    <3> QED BY <3>1, BeforeStep, BuffersAreTyped, LayoutsAreTyped
  <2>2. n \in DOMAIN layout /\ machine[i][n].mode = Mode(layout[n].permissions)
    BY <2>1 DEF Stream
  <2>3. layout[n].permissions \in Nat
    BY <2>2, BeforeStep, LayoutsAreTyped DEF Description
  <2>4. \A place \in Places : (layout[n].permissions \div place[2]) % 10 <= 7
    BY <2>2, BeforeStep DEF OctalDigits
  <2> QED BY <2>2, <2>3, <2>4, DigitsKept
<1> QED BY <1>1, Inductive, PTL
-----------------------------------------------------------------------------
(* What stays deployed.                                                     *)

\* Instance i has the contents that are wanted, and its record says so.
DeployedAt(i) ==
    /\ machine[i] \notin {Torn, Missing}
    /\ Contents(machine[i]) = Wanted
    /\ recorded[i] # NoFingerprint
    /\ ~Differs(machine[i], recorded[i])

\* What its operation has read is what would be read now.
UpToDate(i) == \A n \in DOMAIN data[i] : data[i][n].content = Wanted[n]

Settled(i) == DeployedAt(i) /\ UpToDate(i)

\* Buffers come from a secret that is read, and go with their operation.
LEMMA DataStep ==
    ASSUME IInv, [Next]_vars, NEW i \in Instances
    PROVE  ReadSecret(i) \/ data'[i] = data[i] \/ data'[i] = <<>>
<1> USE BeforeStep DEF TypeOK
<1>1. ASSUME NEW j \in Instances, ReadSecret(j) PROVE ReadSecret(i) \/ data'[i] = data[i]
  BY <1>1 DEF ReadSecret
<1>2. ASSUME NEW j \in Instances,
             \/ DiffCompares(j) \/ Record(j) \/ ReadFails(j) \/ DiffBuildFails(j)
             \/ ShipFails(j) \/ PushFails(j) \/ SwitchFails(j)
      PROVE  data'[i] = data[i] \/ data'[i] = <<>>
  BY <1>2 DEF DiffCompares, Record, ReadFails, DiffBuildFails, ShipFails, PushFails,
              SwitchFails, RetryOrFail, Return
<1>3. ASSUME NEW j \in Instances,
             \/ StartShipping(j) \/ Ship(j) \/ Deploy(j) \/ StartDiff(j) \/ StartCreate(j)
             \/ Collect(j) \/ EditSystem(j)
      PROVE  data' = data
  BY <1>3 DEF StartShipping, Ship, Deploy, StartDiff, StartCreate, Collect, EditSystem
<1>4. ASSUME NewProcess PROVE data'[i] = <<>>
  BY <1>4 DEF NewProcess
<1>5. ASSUME EditSecret \/ UNCHANGED vars PROVE data' = data
  BY <1>5 DEF EditSecret, vars
<1> QED BY <1>1, <1>2, <1>3, <1>4, <1>5 DEF Next, Progress, Failure, LockPanics, Exit, Crash

\* Machines change when a stream is extracted, records when Create ends.
LEMMA MachineStep ==
    ASSUME IInv, [Next]_vars, NEW i \in Instances
    PROVE  \/ Ship(i) \/ ShipFails(i) \/ Record(i)
           \/ machine'[i] = machine[i] /\ recorded'[i] = recorded[i]
<1> USE BeforeStep DEF TypeOK
<1>1. ASSUME NEW j \in Instances, Ship(j) \/ ShipFails(j), j # i
      PROVE  machine'[i] = machine[i] /\ recorded'[i] = recorded[i]
  BY <1>1 DEF Ship, ShipFails, RetryOrFail
<1>2. ASSUME NEW j \in Instances, Record(j), j # i
      PROVE  machine'[i] = machine[i] /\ recorded'[i] = recorded[i]
  BY <1>2 DEF Record
<1>3. ASSUME NEW j \in Instances,
             \/ ReadSecret(j) \/ DiffCompares(j) \/ StartShipping(j) \/ Deploy(j)
             \/ ReadFails(j) \/ DiffBuildFails(j) \/ PushFails(j) \/ SwitchFails(j)
             \/ StartDiff(j) \/ StartCreate(j) \/ Collect(j) \/ EditSystem(j)
      PROVE  UNCHANGED <<machine, recorded>>
  BY <1>3 DEF ReadSecret, DiffCompares, StartShipping, Deploy, ReadFails, DiffBuildFails,
              PushFails, SwitchFails, RetryOrFail, StartDiff, StartCreate, Collect, EditSystem
<1>4. ASSUME NewProcess \/ EditSecret \/ UNCHANGED vars PROVE UNCHANGED <<machine, recorded>>
  BY <1>4 DEF NewProcess, EditSecret, vars
<1> QED BY <1>1, <1>2, <1>3, <1>4 DEF Next, Progress, Failure, LockPanics, Exit, Crash

\* A secret that is read now is what is wanted now.
LEMMA StaysUpToDate ==
    ASSUME IInv, [Next]_vars, NEW i \in Instances, UpToDate(i), Wanted' = Wanted
    PROVE  UpToDate(i)'
<1>1. CASE data'[i] = data[i]
  BY <1>1 DEF UpToDate
<1>2. CASE data'[i] = <<>>
  BY <1>2 DEF UpToDate
<1>3. CASE ReadSecret(i)
  <2> DEFINE buffer == [content |-> Answer(i), locked |-> Answer(i) # Empty]
             m == Len(data[i]) + 1
  <2>1. data'[i] = Append(data[i], buffer) /\ m \in DOMAIN layout /\ m \in Nat
    BY <1>3, BeforeStep, LayoutsAreTyped DEF ReadSecret, Reading, TypeOK
  <2>2. buffer \in Buffer
    BY <2>1, BeforeStep, LayoutsAreTyped DEF Answer, Buffer, TypeOK, Description
  <2>3. buffer.content = Wanted[m]
    BY <2>1 DEF Answer, Wanted
  <2> HIDE DEF buffer
  <2>4. /\ DOMAIN data'[i] = 1 .. m
        /\ \A n \in 1 .. Len(data[i]) : data'[i][n] = data[i][n]
        /\ data'[i][m] = buffer
    <3>1. /\ Append(data[i], buffer) \in Seq(Buffer)
          /\ Len(Append(data[i], buffer)) = m
          /\ \A n \in 1 .. Len(data[i]) : Append(data[i], buffer)[n] = data[i][n]
          /\ Append(data[i], buffer)[m] = buffer
      BY <2>2, BeforeStep, AppendProperties
    <3> QED BY <2>1, <3>1, BuffersAreTyped
  <2>5. DOMAIN data[i] = 1 .. Len(data[i]) /\ Len(data[i]) \in Nat
    BY BeforeStep, BuffersAreTyped
  <2>6. ASSUME NEW n \in 1 .. m PROVE data'[i][n].content = Wanted[n]
    <3>1. CASE n = m
      BY <2>3, <2>4, <3>1
    <3>2. CASE n # m
      <4>1. n \in 1 .. Len(data[i])
        BY <2>5, <3>2
      <4> QED BY <2>4, <2>5, <4>1 DEF UpToDate
    <3> QED BY <3>1, <3>2
  <2> HIDE DEF m
  <2> QED BY <2>4, <2>6 DEF UpToDate
<1> QED BY <1>1, <1>2, <1>3, DataStep

\* What is extracted of such buffers is what is wanted.
LEMMA ShipsWanted ==
    ASSUME IInv, NEW i \in Instances, UpToDate(i), Len(data[i]) = Len(layout)
    PROVE  /\ Stream(data[i]) \notin {Torn, Missing}
           /\ Contents(Stream(data[i])) = Wanted
<1>1. DOMAIN data[i] = DOMAIN layout
  BY BeforeStep, BuffersAreTyped, LayoutsAreTyped
<1>2. Contents(data[i]) = Wanted
  <2>1. \A n \in DOMAIN layout : data[i][n].content = value[layout[n].source]
    BY <1>1 DEF UpToDate, Wanted
  <2> QED BY <1>1, <2>1 DEF Contents, Wanted
<1>3. /\ Stream(data[i]) \in Seq(File)
      /\ Contents(Stream(data[i])) = Contents(data[i])
  BY BeforeStep, StreamOfBuffers
<1> QED BY <1>2, <1>3, AbsenceAssumption

\* Once a machine has the wanted secrets and its record says so, only an edit or
\* an extraction that fails can change that: no other failure, no crash, no
\* panic, no step of another instance, and no apply of anything else.  Until
\* then no Diff finds a difference (instance.go:144, 175-252).
THEOREM SecretsStay ==
    Spec => [][ \A i \in Instances :
                    Settled(i) /\ Wanted' = Wanted /\ ~ShipFails(i) =>
                        /\ Settled(i)'
                        /\ DiffCompares(i) => ~plan'[i].differs ]_vars
<1>1. ASSUME IInv, IInv', [Next]_vars, NEW i \in Instances, Settled(i), Wanted' = Wanted,
             ~ShipFails(i)
      PROVE  DeployedAt(i)'
  <2> USE <1>1
  <2>1. CASE machine'[i] = machine[i] /\ recorded'[i] = recorded[i]
    BY <2>1 DEF Settled, DeployedAt, Differs, Hashed, Contents
  <2>2. CASE Ship(i)
    <3>1. /\ machine'[i] = Stream(data[i]) /\ recorded'[i] = recorded[i]
          /\ Len(data[i]) = Len(layout)
      BY <2>2, BeforeStep DEF TypeOK, Ship, Good, Stands, At
    <3>2. Stream(data[i]) \notin {Torn, Missing} /\ Contents(Stream(data[i])) = Wanted
      BY <3>1, ShipsWanted DEF Settled
    <3>3. Hashed(Stream(data[i]), recorded[i].salt, recorded[i].iterations)
             = Hashed(machine[i], recorded[i].salt, recorded[i].iterations)
      BY <3>2, SumsTellContentsApart DEF Settled, DeployedAt
    <3>4. ~Differs(Stream(data[i]), recorded[i])
      BY <3>3 DEF Settled, DeployedAt, Differs
    <3> QED BY <3>1, <3>2, <3>4 DEF Settled, DeployedAt, Differs, Hashed, Contents
  <2>3. CASE Record(i)
    <3>1. machine'[i] = machine[i] /\ diag'[i] = "ok"
      BY <2>3, BeforeStep DEF TypeOK, Record
    <3>2. RecordedIsShipped'
      BY DEF IInv, SecretsInvariant
    <3> QED BY <3>1, <3>2 DEF Settled, DeployedAt, Differs, RecordedIsShipped, Contents
  <2> QED BY <2>1, <2>2, <2>3, MachineStep
<1>2. ASSUME IInv, NEW i \in Instances, Settled(i), DiffCompares(i)
      PROVE  ~plan'[i].differs
  <2> USE <1>2
  <2>1. /\ plan'[i].differs = Differs(data[i], recorded[i])
        /\ Len(data[i]) = Len(layout)
    BY BeforeStep DEF TypeOK, DiffCompares
  <2>2. Contents(data[i]) = Contents(machine[i])
    <3>1. Contents(Stream(data[i])) = Wanted
      BY <2>1, ShipsWanted DEF Settled
    <3> QED BY <3>1, BeforeStep, StreamOfBuffers DEF Settled, DeployedAt
  <2>3. Hashed(data[i], recorded[i].salt, recorded[i].iterations)
           = Hashed(machine[i], recorded[i].salt, recorded[i].iterations)
    BY <2>2, SumsTellContentsApart
  <2> QED BY <2>1, <2>3 DEF Settled, DeployedAt, Differs
<1>3. IInv /\ IInv' /\ [Next]_vars =>
        [ \A i \in Instances :
              Settled(i) /\ Wanted' = Wanted /\ ~ShipFails(i) =>
                  /\ Settled(i)'
                  /\ DiffCompares(i) => ~plan'[i].differs ]_vars
  BY <1>1, <1>2, StaysUpToDate DEF Settled
<1> QED BY <1>3, Inductive, PTL DEF Spec

\* What is read stays up to date unless secrets or blocks are edited, and an apply
\* that succeeds with it leads there (instance.go:189-233).
THEOREM ApplyDelivers ==
    Spec => [][ \A i \in Instances :
                    UpToDate(i) =>
                        /\ Wanted' = Wanted => UpToDate(i)'
                        /\ Record(i) => Settled(i)' ]_vars
<1>1. ASSUME IInv, IInv', NEW i \in Instances, UpToDate(i), Record(i)
      PROVE  Settled(i)'
  <2> USE <1>1
  <2>1. /\ machine' = machine /\ diag'[i] = "ok" /\ data'[i] = <<>>
        /\ UNCHANGED <<value, layout>>
    BY BeforeStep DEF TypeOK, Record, Return
  <2>2. machine[i] = Stream(data[i]) /\ Len(data[i]) = Len(layout)
    BY BeforeStep DEF Record, Good, Stands, At
  <2>3. Contents(machine[i]) = Wanted
    BY <2>2, ShipsWanted
  <2>4. RecordedIsShipped'
    BY DEF IInv, SecretsInvariant
  <2>5. DeployedAt(i)'
    BY <2>1, <2>3, <2>4 DEF DeployedAt, RecordedIsShipped, Differs, Contents, Wanted
  <2> QED BY <2>1, <2>5 DEF Settled, UpToDate
<1>2. IInv /\ IInv' /\ [Next]_vars =>
        [ \A i \in Instances :
              UpToDate(i) =>
                  /\ Wanted' = Wanted => UpToDate(i)'
                  /\ Record(i) => Settled(i)' ]_vars
  BY <1>1, StaysUpToDate
<1> QED BY <1>2, Inductive, PTL DEF Spec
-----------------------------------------------------------------------------
(* How long an operation may take.                                          *)

\* The steps a Diff or a Create may still make: one per secret that is not read
\* yet, and two per attempt, the copy and what follows it.
Rank(i) ==
    CASE pc[i] = "diffRead" -> Len(layout) - Len(data[i]) + 1
      [] pc[i] = "read"     -> Len(layout) - Len(data[i]) + 2 * Retries + 4
      [] pc[i] = "ship"     -> 2 * retry[i] + 3
      [] pc[i] = "rest"     -> 2 * retry[i] + 2
      [] pc[i] = "record"   -> 1
      [] OTHER              -> 0

LEMMA RankIsANumber ==
    ASSUME IInv, NEW i \in Instances
    PROVE  Rank(i) \in Nat /\ (Rank(i) = 0 <=> At(i, "idle"))
<1>1. /\ retry[i] \in Nat /\ pc[i] \in {"idle", "diffRead"} \cup Applying
      /\ Retries \in Nat
  BY BeforeStep, BoundAssumption DEF TypeOK
<1>2. Len(layout) - Len(data[i]) \in Nat
  BY BeforeStep
<1> DEFINE unread == Len(layout) - Len(data[i])
<1>3. Rank(i) = CASE pc[i] = "diffRead" -> unread + 1
                  [] pc[i] = "read"     -> unread + 2 * Retries + 4
                  [] pc[i] = "ship"     -> 2 * retry[i] + 3
                  [] pc[i] = "rest"     -> 2 * retry[i] + 2
                  [] pc[i] = "record"   -> 1
                  [] OTHER              -> 0
  BY DEF Rank
<1>4. unread \in Nat
  BY <1>2
<1> HIDE DEF unread
<1> QED BY <1>1, <1>3, <1>4 DEF At, Applying

LEMMA RankAfter == (\A i \in Instances : IInv => Rank(i) \in Nat /\ (Rank(i) = 0 <=> At(i, "idle")))'
<1>1. \A i \in Instances : IInv => Rank(i) \in Nat /\ (Rank(i) = 0 <=> At(i, "idle"))
  BY RankIsANumber
<1> QED BY <1>1, PTL

\* A step of the operation brings its end nearer.
LEMMA OwnStepShrinks ==
    ASSUME IInv, IInv', NEW i \in Instances, Progress(i) \/ Failure(i)
    PROVE  Rank(i)' < Rank(i)
<1>r. Rank(i) \in Nat /\ Rank(i)' \in Nat
  BY RankIsANumber, RankAfter
<1>b. /\ Len(layout) \in Nat /\ Len(data[i]) \in Nat /\ Len(data[i]) <= Len(layout)
      /\ retry[i] \in Nat /\ retry[i] <= Retries /\ Retries \in Nat
      /\ pc \in [Instances -> {"idle", "diffRead"} \cup Applying]
      /\ retry \in [Instances -> 0 .. Retries]
      /\ data \in [Instances -> Seq(Buffer)]
  BY BeforeStep, BoundAssumption DEF TypeOK
<1>i. ASSUME pc'[i] = "idle", pc[i] # "idle" PROVE Rank(i)' < Rank(i)
  <2>1. Rank(i)' = 0 /\ Rank(i) # 0
    BY <1>i, RankIsANumber, RankAfter DEF At
  <2> QED BY <1>r, <2>1
<1>1. CASE ReadSecret(i)
  <2>1. /\ pc[i] \in {"diffRead", "read"} /\ pc' = pc /\ layout' = layout
        /\ data'[i] = Append(data[i], [content |-> Answer(i), locked |-> Answer(i) # Empty])
    BY <1>1, <1>b DEF ReadSecret, Reading, user
  <2>2. Len(data'[i]) = Len(data[i]) + 1
    BY <2>1, <1>b, LenProperties
  <2>3. CASE pc[i] = "diffRead"
    <3>1. /\ Rank(i) = Len(layout) - Len(data[i]) + 1
          /\ Rank(i)' = Len(layout) - Len(data'[i]) + 1
      BY <2>1, <2>3 DEF Rank
    <3> QED BY <2>2, <3>1, <1>b
  <2>4. CASE pc[i] = "read"
    <3>1. /\ Rank(i) = Len(layout) - Len(data[i]) + 2 * Retries + 4
          /\ Rank(i)' = Len(layout) - Len(data'[i]) + 2 * Retries + 4
      BY <2>1, <2>4 DEF Rank
    <3> QED BY <2>2, <3>1, <1>b
  <2> QED BY <2>1, <2>3, <2>4
<1>2. CASE StartShipping(i)
  <2>1. /\ pc[i] = "read" /\ Len(data[i]) = Len(layout)
        /\ pc'[i] = "ship" /\ retry'[i] = Retries
    BY <1>2, <1>b DEF StartShipping, At, Goto
  <2>2. Rank(i) = Len(layout) - Len(data[i]) + 2 * Retries + 4 /\ Rank(i)' = 2 * retry'[i] + 3
    BY <2>1 DEF Rank
  <2> QED BY <2>1, <2>2, <1>b
<1>3. CASE Ship(i)
  <2>1. pc[i] = "ship" /\ pc'[i] = "rest" /\ retry'[i] = retry[i]
    BY <1>3, <1>b DEF Ship, At, Goto
  <2>2. Rank(i) = 2 * retry[i] + 3 /\ Rank(i)' = 2 * retry'[i] + 2
    BY <2>1 DEF Rank
  <2> QED BY <2>1, <2>2, <1>b
<1>4. CASE Deploy(i)
  <2>1. pc[i] = "rest" /\ pc'[i] = "record"
    BY <1>4, <1>b DEF Deploy, At, Goto
  <2>2. Rank(i) = 2 * retry[i] + 2 /\ Rank(i)' = 1
    BY <2>1 DEF Rank
  <2> QED BY <2>2, <1>b
<1>5. CASE ShipFails(i) \/ PushFails(i)
  <2>1. pc[i] \in {"ship", "rest"} /\ RetryOrFail(i)
    BY <1>5 DEF ShipFails, PushFails, At
  <2>2. CASE retry[i] > 0 /\ retry' = [retry EXCEPT ![i] = @ - 1] /\ Goto(i, "ship")
    <3>1. pc'[i] = "ship" /\ retry'[i] = retry[i] - 1
      BY <2>2, <1>b DEF Goto
    <3>2. Rank(i)' = 2 * (retry[i] - 1) + 3
      BY <3>1 DEF Rank
    <3>3. Rank(i) = 2 * retry[i] + 3 \/ Rank(i) = 2 * retry[i] + 2
      BY <2>1 DEF Rank
    <3> QED BY <3>2, <3>3, <1>b
  <2>3. CASE Return(i)
    <3>1. pc'[i] = "idle" /\ pc[i] # "idle"
      BY <2>1, <2>3, <1>b DEF Return, Goto
    <3> QED BY <3>1, <1>i
  <2> QED BY <2>1, <2>2, <2>3 DEF RetryOrFail
<1>6. CASE \/ DiffCompares(i) \/ Record(i) \/ ReadFails(i) \/ DiffBuildFails(i)
           \/ SwitchFails(i)
  <2>1. pc'[i] = "idle" /\ pc[i] # "idle"
    BY <1>6, <1>b DEF DiffCompares, Record, ReadFails, DiffBuildFails, SwitchFails, Reading,
                      Return, Goto, At
  <2> QED BY <2>1, <1>i
<1>7. CASE LockPanics(i)
  <2>1. pc'[i] = "idle" /\ pc[i] # "idle"
    BY <1>7 DEF LockPanics, Reading, NewProcess
  <2> QED BY <2>1, <1>i
<1> QED BY <1>1, <1>2, <1>3, <1>4, <1>5, <1>6, <1>7 DEF Progress, Failure

\* A Diff makes at most one step per secret and one more; a Create a few more
\* per retry. What others do, edit or break in the meantime prolongs neither
\* (secrets.go:246, instance.go:197-218).
THEOREM OperationsAreShort ==
    Spec => [][ \A i \in Instances :
                    ~At(i, "idle") =>
                        /\ Rank(i)' <= Rank(i)
                        /\ Progress(i) \/ Failure(i) => Rank(i)' < Rank(i) ]_vars
<1>1. ASSUME IInv, IInv', [Next]_vars, NEW i \in Instances, ~At(i, "idle")
      PROVE  Rank(i)' <= Rank(i)
  <2> USE <1>1
  <2>r. Rank(i) \in Nat /\ Rank(i)' \in Nat /\ (pc'[i] = "idle" => Rank(i)' = 0)
    BY RankIsANumber, RankAfter DEF At
  <2>1. ASSUME Progress(i) \/ Failure(i) PROVE Rank(i)' <= Rank(i)
    BY <2>1, <2>r, OwnStepShrinks
  <2>2. ASSUME NewProcess PROVE Rank(i)' <= Rank(i)
    <3>1. pc'[i] = "idle"
      BY <2>2 DEF NewProcess
    <3> QED BY <2>r, <3>1
  <2>3. ASSUME UNCHANGED <<layout, pc[i], data[i], retry[i]>> PROVE Rank(i)' <= Rank(i)
    <3>1. Rank(i)' = Rank(i)
      BY <2>3 DEF Rank
    <3> QED BY <2>r, <3>1
  <2>t. /\ pc \in [Instances -> {"idle", "diffRead"} \cup Applying]
        /\ retry \in [Instances -> 0 .. Retries]
        /\ data \in [Instances -> Seq(Buffer)]
    BY BeforeStep DEF TypeOK
  <2>4. ASSUME NEW j \in Instances, Progress(j) \/ Failure(j), ~LockPanics(j), j # i
        PROVE  UNCHANGED <<layout, pc[i], data[i], retry[i]>>
    <3>1. CASE ReadSecret(j) \/ DiffCompares(j) \/ StartShipping(j)
      BY <2>4, <3>1, <2>t DEF ReadSecret, DiffCompares, StartShipping, Goto, user
    <3>2. CASE Ship(j) \/ Deploy(j) \/ Record(j)
      BY <2>4, <3>2, <2>t DEF Ship, Deploy, Record, Return, Goto, user
    <3>3. CASE ReadFails(j) \/ DiffBuildFails(j) \/ SwitchFails(j)
      BY <2>4, <3>3, <2>t DEF ReadFails, DiffBuildFails, SwitchFails, Return, Goto, user
    <3>4. CASE ShipFails(j) \/ PushFails(j)
      <4>1. RetryOrFail(j)
        BY <3>4 DEF ShipFails, PushFails
      <4> QED BY <2>4, <4>1, <2>t DEF RetryOrFail, Return, Goto, user
    <3> QED BY <2>4, <3>1, <3>2, <3>3, <3>4 DEF Progress, Failure
  <2>5. ASSUME NEW j \in Instances,
               StartDiff(j) \/ StartCreate(j) \/ Collect(j) \/ EditSystem(j)
        PROVE  UNCHANGED <<layout, pc[i], data[i], retry[i]>>
    <3>1. CASE StartDiff(j) \/ StartCreate(j)
      <4>1. j # i
        BY <1>1, <3>1 DEF StartDiff, StartCreate
      <4> QED BY <3>1, <4>1, <2>t DEF StartDiff, StartCreate, Goto, user
    <3>2. CASE Collect(j) \/ EditSystem(j)
      BY <3>2 DEF Collect, EditSystem, user
    <3> QED BY <2>5, <3>1, <3>2
  <2>6. ASSUME EditSecret \/ UNCHANGED vars
        PROVE  UNCHANGED <<layout, pc[i], data[i], retry[i]>>
    BY <2>6 DEF EditSecret, vars, user
  <2>7. ASSUME NEW j \in Instances, LockPanics(j) PROVE NewProcess
    BY <2>7 DEF LockPanics
  <2> QED BY <2>1, <2>2, <2>3, <2>4, <2>5, <2>6, <2>7 DEF Next, Exit, Crash
<1>2. IInv /\ IInv' /\ [Next]_vars =>
        [ \A i \in Instances :
              ~At(i, "idle") =>
                  /\ Rank(i)' <= Rank(i)
                  /\ Progress(i) \/ Failure(i) => Rank(i)' < Rank(i) ]_vars
  BY <1>1, OwnStepShrinks
<1> QED BY <1>2, Inductive, PTL DEF Spec
=============================================================================
