--------------------------- MODULE TempFilesProofs ---------------------------
(***************************************************************************)
(* FilesInvariant holds for any number of instances, names and settings,   *)
(* and with it the three properties a reader cares for.                    *)
(***************************************************************************)
EXTENDS TempFiles, TLAPS

\* A file made for an operation in progress keeps the invariant: its name was
\* free, so no other operation's bookkeeping mentions it.
LEMMA CreateKeeps ==
    ASSUME FilesInvariant, NEW i \in Instances, NEW f \in Names,
           NEW kind \in {"bastion", "config", "wrapper"},
           NEW there \in {"config", "wrapper", "run"},
           NEW more \in SUBSET {f},
           ~At(i, "idle"), ~At(i, "close"), Create(i, f, kind), Goto(i, there),
           finalizers' = [finalizers EXCEPT ![i] = @ \cup more],
           kind # "bastion" /\ op[i] # "switch" => more = {f},
           there = "config" => more = {} /\ finalizers[i] = {},
           UNCHANGED <<op, unclean>>
    PROVE  FilesInvariant'
<1> DEFINE made == [by |-> i, op |-> op[i], kind |-> kind]
<1> USE DEF FilesInvariant, At
<1>1. /\ op[i] \in Operations
      /\ made \in Owner
      /\ file[f] = NoFile
      /\ NoFile \notin Owner
  BY OwnerAssumption DEF TypeOK, Bookkeeping, Operations, Owner, Create
<1>2. TypeOK'
  BY <1>1 DEF TypeOK, Create, Goto
<1>3. \A g \in Names : file'[g] = IF g = f THEN made ELSE file[g]
  BY DEF TypeOK, Create
<1>4. \A j \in Instances : finalizers'[j] = IF j = i THEN finalizers[i] \cup more ELSE finalizers[j]
  BY DEF TypeOK
<1>5. \A j \in Instances : f \notin finalizers[j]
  BY <1>1 DEF OneRemover
<1>6. LeavesOnlyKnownFiles'
  <2> SUFFICES ASSUME NEW g \in Names,
                      file'[g] \in Owner, file'[g].kind # "bastion", file'[g].op # "switch"
               PROVE  op[file'[g].by] = file'[g].op /\ g \in finalizers'[file'[g].by]
    BY DEF LeavesOnlyKnownFiles
  <2>1. CASE g = f
    BY <2>1, <1>3, <1>4
  <2>2. CASE g # f
    <3>1. file'[g] = file[g] /\ file[g].by \in Instances
      BY <2>2, <1>3 DEF Owner
    <3> QED BY <3>1, <1>4 DEF LeavesOnlyKnownFiles
  <2> QED BY <2>1, <2>2
<1>7. OneRemover'
  <2> SUFFICES ASSUME NEW j \in Instances, NEW g \in finalizers'[j]
               PROVE  /\ file'[g] \in Owner
                      /\ file'[g].by = j
                      /\ \A k \in Instances : g \in finalizers'[k] => j = k
    BY DEF OneRemover
  <2>1. g \in Names
    BY <1>2 DEF TypeOK
  <2>2. CASE g = f
    <3>1. j = i
      BY <2>2, <1>4, <1>5
    <3> QED BY <3>1, <2>2, <1>1, <1>3, <1>4, <1>5
  <2>3. CASE g # f
    <3>1. \A k \in Instances : g \in finalizers'[k] => g \in finalizers[k]
      BY <2>3, <1>4
    <3> QED BY <3>1, <2>1, <2>3, <1>3 DEF OneRemover
  <2> QED BY <2>2, <2>3
<1>8. ASSUME NEW j \in Instances PROVE Bookkeeping(j)'
  <2>1. CASE j = i
    <3>1. /\ pc'[i] = there
          /\ arguments'[i] = arguments[i] \cup {f}
      BY DEF TypeOK, Goto, Create
    <3>2. \A g \in arguments'[i] :
              file'[g] \in Owner /\ file'[g].by = i /\ file'[g].op = op[i]
      <4> TAKE g \in arguments'[i]
      <4>1. CASE g = f
        BY <4>1, <1>1, <1>3
      <4>2. CASE g # f
        <5>1. g \in arguments[i] /\ g \in Names
          BY <4>2, <3>1 DEF TypeOK
        <5> QED BY <5>1, <4>2, <1>3 DEF Bookkeeping
      <4> QED BY <4>1, <4>2
    <3> QED BY <2>1, <3>1, <3>2, <1>1, <1>4 DEF Bookkeeping, Operations
  <2>2. CASE j # i
    <3>1. /\ pc'[j] = pc[j] /\ arguments'[j] = arguments[j] /\ finalizers'[j] = finalizers[j]
      BY <2>2, <1>4 DEF TypeOK, Goto, Create
    <3>2. \A g \in arguments[j] : ~At(j, "close") => g \in Names /\ g # f
      BY <1>1 DEF TypeOK, Bookkeeping
    <3> QED BY <3>1, <3>2, <1>3 DEF Bookkeeping
  <2> QED BY <2>1, <2>2
<1> QED BY <1>2, <1>6, <1>7, <1>8

\* Steps that make no file and remove none.
LEMMA MoveKeeps ==
    ASSUME FilesInvariant, NEW i \in Instances,
           \/ Begin(i) \/ SkipConfig(i) \/ OpenWrapper(i) \/ WrapperFails(i) \/ Return(i)
    PROVE  FilesInvariant'
<1> USE DEF FilesInvariant, At
<1>1. TypeOK'
  BY DEF TypeOK, Goto, AfterSsh, Begin, SkipConfig, OpenWrapper, WrapperFails, Return
<1>2. /\ UNCHANGED <<file, arguments, finalizers>>
      /\ \A j \in Instances \ {i} : pc'[j] = pc[j] /\ op'[j] = op[j]
  BY DEF TypeOK, Goto, Begin, SkipConfig, OpenWrapper, WrapperFails, Return
<1>3. \/ op' = op
      \/ op[i] = "none" /\ op'[i] \in Operations
  BY DEF TypeOK, Begin, Bookkeeping, SkipConfig, OpenWrapper, WrapperFails, Return
<1>4. LeavesOnlyKnownFiles'
  <2> SUFFICES ASSUME NEW f \in Names,
                      file[f] \in Owner, file[f].kind # "bastion", file[f].op # "switch"
               PROVE  op'[file[f].by] = file[f].op /\ f \in finalizers[file[f].by]
    BY <1>2 DEF LeavesOnlyKnownFiles
  <2>1. file[f].by \in Instances /\ file[f].op \in Operations /\ "none" \notin Operations
    BY DEF Owner, Operations
  <2> QED BY <2>1, <1>2, <1>3 DEF LeavesOnlyKnownFiles
<1>5. OneRemover'
  BY <1>2 DEF OneRemover
<1>6. ASSUME NEW j \in Instances PROVE Bookkeeping(j)'
  <2>1. CASE j # i
    BY <2>1, <1>2 DEF Bookkeeping
  <2>2. CASE j = i
    <3>1. CASE Begin(i)
      BY <2>2, <3>1, <1>2, <1>3 DEF Begin, Goto, Bookkeeping, TypeOK, Operations
    <3>2. CASE SkipConfig(i) \/ OpenWrapper(i) \/ WrapperFails(i) \/ Return(i)
      <4>1. /\ op' = op
            /\ pc[i] \notin {"idle", "close", "bastion"}
            /\ pc'[i] \in {"wrapper", "run", "close"}
        BY <3>2 DEF TypeOK, Goto, AfterSsh, SkipConfig, OpenWrapper, WrapperFails, Return
      <4> QED BY <2>2, <4>1, <1>2 DEF Bookkeeping
    <3> QED BY <3>1, <3>2
  <2> QED BY <2>1, <2>2
<1> QED BY <1>1, <1>4, <1>5, <1>6

\* A deferred Close removes a file of its own operation and of no other.
LEMMA RemoveKeeps ==
    ASSUME FilesInvariant, NEW i \in Instances, Remove(i)
    PROVE  FilesInvariant'
<1> USE DEF FilesInvariant, At
<1>1. PICK f \in finalizers[i] :
          /\ file' = [file EXCEPT ![f] = NoFile]
          /\ finalizers' = [finalizers EXCEPT ![i] = @ \ {f}]
  BY DEF Remove
<1>2. /\ f \in Names
      /\ file[f] \in Owner /\ file[f].by = i
      /\ NoFile \notin Owner
      /\ UNCHANGED <<op, pc, arguments, unclean>>
      /\ pc[i] = "close"
  BY OwnerAssumption DEF TypeOK, OneRemover, Remove
<1>3. TypeOK'
  BY <1>1, <1>2 DEF TypeOK
<1>4. /\ \A g \in Names : file'[g] = IF g = f THEN NoFile ELSE file[g]
      /\ \A j \in Instances :
            finalizers'[j] = IF j = i THEN finalizers[i] \ {f} ELSE finalizers[j]
  BY <1>1, <1>2 DEF TypeOK
<1>5. LeavesOnlyKnownFiles'
  <2> SUFFICES ASSUME NEW g \in Names,
                      file'[g] \in Owner, file'[g].kind # "bastion", file'[g].op # "switch"
               PROVE  op'[file'[g].by] = file'[g].op /\ g \in finalizers'[file'[g].by]
    BY DEF LeavesOnlyKnownFiles
  <2>1. g # f /\ file'[g] = file[g] /\ file[g].by \in Instances
    BY <1>2, <1>4 DEF Owner
  <2> QED BY <2>1, <1>2, <1>4 DEF LeavesOnlyKnownFiles
<1>6. OneRemover'
  <2> SUFFICES ASSUME NEW j \in Instances, NEW g \in finalizers'[j]
               PROVE  /\ file'[g] \in Owner
                      /\ file'[g].by = j
                      /\ \A k \in Instances : g \in finalizers'[k] => j = k
    BY DEF OneRemover
  <2>1. /\ g \in Names
        /\ g \in finalizers[j]
        /\ \A k \in Instances : g \in finalizers'[k] => g \in finalizers[k]
    BY <1>3, <1>4 DEF TypeOK
  <2>2. g # f
    BY <2>1, <1>4, <1>1 DEF OneRemover
  <2> QED BY <2>1, <2>2, <1>4 DEF OneRemover
<1>7. ASSUME NEW j \in Instances PROVE Bookkeeping(j)'
  <2>1. CASE j = i
    BY <2>1, <1>2, <1>4 DEF Bookkeeping
  <2>2. CASE j # i
    <3>1. ~At(j, "close") => \A g \in arguments[j] : g \in Names /\ g # f
      BY <2>2, <1>2 DEF TypeOK, Bookkeeping
    <3> QED BY <2>2, <3>1, <1>2, <1>4 DEF Bookkeeping
  <2> QED BY <2>1, <2>2
<1> QED BY <1>3, <1>5, <1>6, <1>7

\* An operation that is done has nothing to remove any more.
LEMMA DoneKeeps ==
    ASSUME FilesInvariant, NEW i \in Instances, Done(i)
    PROVE  FilesInvariant'
<1> USE DEF FilesInvariant, At
<1>1. TypeOK'
  BY DEF TypeOK, Done, Goto
<1>2. /\ UNCHANGED <<file, finalizers>>
      /\ finalizers[i] = {}
      /\ pc'[i] = "idle" /\ op'[i] = "none" /\ arguments'[i] = {}
      /\ \A j \in Instances \ {i} :
            pc'[j] = pc[j] /\ op'[j] = op[j] /\ arguments'[j] = arguments[j]
  BY DEF TypeOK, Done, Goto
<1>3. LeavesOnlyKnownFiles'
  <2> SUFFICES ASSUME NEW f \in Names,
                      file[f] \in Owner, file[f].kind # "bastion", file[f].op # "switch"
               PROVE  op'[file[f].by] = file[f].op /\ f \in finalizers[file[f].by]
    BY <1>2 DEF LeavesOnlyKnownFiles
  <2>1. file[f].by \in Instances
    BY DEF Owner
  <2> QED BY <2>1, <1>2 DEF LeavesOnlyKnownFiles
<1>4. OneRemover'
  BY <1>2 DEF OneRemover
<1>5. ASSUME NEW j \in Instances PROVE Bookkeeping(j)'
  BY <1>2 DEF Bookkeeping
<1> QED BY <1>1, <1>3, <1>4, <1>5

\* A process that is gone has no operations, and its files no owner.
LEMMA ProcessKeeps ==
    ASSUME FilesInvariant,
           NewProcess, NEW made \in SUBSET Names, file' = Abandoned(made), unclean' \in BOOLEAN
    PROVE  FilesInvariant'
<1>1. TypeOK'
  BY DEF TypeOK, NewProcess, Abandoned
<1>2. \A f \in Names : file'[f] \notin Owner
  BY OwnerAssumption DEF Abandoned
<1>3. \A i \in Instances : pc'[i] = "idle" /\ op'[i] = "none" /\ arguments'[i] = {}
                           /\ finalizers'[i] = {}
  BY DEF NewProcess
<1>4. LeavesOnlyKnownFiles'
  BY <1>2 DEF LeavesOnlyKnownFiles
<1>5. OneRemover'
  BY <1>3 DEF OneRemover
<1>6. ASSUME NEW i \in Instances PROVE Bookkeeping(i)'
  BY <1>3 DEF Bookkeeping, At
<1> QED BY <1>1, <1>4, <1>5, <1>6 DEF FilesInvariant

LEMMA FilesInductive == FilesInvariant /\ [Next]_vars => FilesInvariant'
<1> SUFFICES ASSUME FilesInvariant, [Next]_vars PROVE FilesInvariant'
  OBVIOUS
<1>1. ASSUME NEW i \in Instances, MakeBastion(i) PROVE FilesInvariant'
  <2>1. PICK f \in Names : Create(i, f, "bastion")
    BY <1>1 DEF MakeBastion
  <2>2. /\ ~At(i, "idle") /\ ~At(i, "close") /\ Goto(i, "config")
        /\ finalizers[i] = {}
        /\ finalizers' = [finalizers EXCEPT ![i] = @ \cup {}]
        /\ UNCHANGED <<op, unclean>>
    BY <1>1 DEF MakeBastion, At, FilesInvariant, Bookkeeping, TypeOK
  <2>3. {} \in SUBSET {f}
    OBVIOUS
  <2> QED BY <2>1, <2>2, <2>3, CreateKeeps
<1>2. ASSUME NEW i \in Instances, MakeConfig(i) PROVE FilesInvariant'
  <2>1. PICK f \in Names :
            /\ Create(i, f, "config")
            /\ finalizers' = [finalizers EXCEPT ![i] = IF op[i] = "switch" THEN {} ELSE {f}]
    BY <1>2 DEF MakeConfig
  <2> DEFINE more == IF op[i] = "switch" THEN {} ELSE {f}
  <2>2. /\ ~At(i, "idle") /\ ~At(i, "close") /\ Goto(i, AfterSsh(i))
        /\ finalizers[i] = {}
        /\ finalizers' = [finalizers EXCEPT ![i] = @ \cup more]
        /\ UNCHANGED <<op, unclean>>
    <3>1. /\ ~At(i, "idle") /\ ~At(i, "close") /\ Goto(i, AfterSsh(i))
          /\ UNCHANGED <<op, unclean>>
      BY <1>2 DEF MakeConfig, At
    <3>2. finalizers[i] = {}
      BY <1>2 DEF MakeConfig, At, FilesInvariant, Bookkeeping
    <3>3. finalizers' = [finalizers EXCEPT ![i] = @ \cup more]
      BY <2>1, <3>2
    <3> QED BY <3>1, <3>2, <3>3
  <2>3. more \in SUBSET {f} /\ AfterSsh(i) \in {"config", "wrapper", "run"} /\ AfterSsh(i) # "config"
    BY DEF AfterSsh
  <2>4. op[i] # "switch" => more = {f}
    OBVIOUS
  <2> QED
    <3> HIDE DEF more
    <3> QED BY <2>1, <2>2, <2>3, <2>4, CreateKeeps
<1>3. ASSUME NEW i \in Instances, MakeWrapper(i) PROVE FilesInvariant'
  <2>1. PICK f \in Names :
            /\ Create(i, f, "wrapper")
            /\ finalizers' = [finalizers EXCEPT ![i] = @ \cup {f}]
    BY <1>3 DEF MakeWrapper
  <2>2. /\ ~At(i, "idle") /\ ~At(i, "close") /\ Goto(i, "run")
        /\ UNCHANGED <<op, unclean>>
    BY <1>3 DEF MakeWrapper, At
  <2> QED BY <2>1, <2>2, CreateKeeps
<1>4. ASSUME NEW i \in Instances,
             Begin(i) \/ SkipConfig(i) \/ OpenWrapper(i) \/ WrapperFails(i) \/ Return(i)
      PROVE  FilesInvariant'
  BY <1>4, MoveKeeps
<1>5. ASSUME NEW i \in Instances, ConfigPanics(i) PROVE FilesInvariant'
  <2>1. PICK made \in SUBSET Names : file' = Abandoned(made)
    BY <1>5 DEF ConfigPanics
  <2> QED BY <2>1, <1>5, ProcessKeeps DEF ConfigPanics
<1>6. ASSUME Kill \/ Exit PROVE FilesInvariant'
  <2>1. NewProcess /\ file' = Abandoned({}) /\ unclean' \in BOOLEAN
    BY <1>6 DEF Kill, Exit, FilesInvariant, TypeOK
  <2> QED BY <2>1, ProcessKeeps
<1>7. CASE UNCHANGED vars
  BY <1>7 DEF vars, FilesInvariant, TypeOK, LeavesOnlyKnownFiles, OneRemover, Bookkeeping, At
<1> QED
  BY <1>1, <1>2, <1>3, <1>4, <1>5, <1>6, <1>7, RemoveKeeps, DoneKeeps DEF Next, Step

\* Whatever the instances, their settings and the room for files, and through
\* panics and restarts, the bookkeeping of temporary files is right
\* (provider.go:265-332, 403-576; ssh.go:105-192; os.go:19-30).
THEOREM FilesAccounted == Spec => []FilesInvariant
<1>1. Init => FilesInvariant
  BY OwnerAssumption
  DEF Init, FilesInvariant, TypeOK, LeavesOnlyKnownFiles, OneRemover, Bookkeeping, At
<1> QED BY <1>1, FilesInductive, PTL DEF Spec

\* A command never runs with a configuration or a wrapper that is gone.
THEOREM CommandsServed == Spec => []CommandsFindTheirFiles
<1>1. FilesInvariant => CommandsFindTheirFiles
  BY DEF FilesInvariant, Bookkeeping, CommandsFindTheirFiles, At
<1> QED BY <1>1, FilesAccounted, PTL

\* Between operations nothing is left but bastion configurations and Switch's.
THEOREM OnlyKnownFilesStay == Spec => []LeavesOnlyKnownFiles
<1>1. FilesInvariant => LeavesOnlyKnownFiles
  BY DEF FilesInvariant
<1> QED BY <1>1, FilesAccounted, PTL

\* A file is removed by the operation that made it, and by no other.
THEOREM RemoversApart == Spec => []OneRemover
<1>1. FilesInvariant => OneRemover
  BY DEF FilesInvariant
<1> QED BY <1>1, FilesAccounted, PTL
=============================================================================
