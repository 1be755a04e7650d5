------------------------------ MODULE TempFiles ------------------------------
(***************************************************************************)
(* The temporary files of the provider: ssh configurations (Provider.NewSsh *)
(* and SshOptionConfigMap), the Nix wrapper (NewNixWrapperFile), and who   *)
(* removes them (Ssh.With, Finalize and Close, Nix.Close, the deferred     *)
(* calls of Build, CopySecrets, Push and Switch).  Instances work at the   *)
(* same time in one provider process; each runs one of the four operations *)
(* at a time.                                                              *)
(***************************************************************************)
EXTENDS Naturals

CONSTANTS
    Instances,
    Names,      \* names os.CreateTemp may draw: as many files as there is room for
    SettingOf,  \* [Instances -> Setting]
    NoFile,     \* the name is free
    Left        \* a file whose provider process has ended

Operations == {"build", "copySecrets", "push", "switch"}

\* bastion: bastion.host is set; config: the ssh settings are not all empty;
\* wrapper: nix.build_wrapper is not set, so that the embedded one is written.
Setting == [bastion : BOOLEAN, config : BOOLEAN, wrapper : BOOLEAN]

Owner == [by : Instances, op : Operations, kind : {"bastion", "config", "wrapper"}]

ASSUME SettingAssumption == SettingOf \in [Instances -> Setting]

ASSUME OwnerAssumption == NoFile \notin Owner /\ Left \notin Owner /\ NoFile # Left

VARIABLES
    file,        \* per name: who made the file that has it
    op,          \* per instance: the operation it runs, or "none"
    pc,          \* per instance: where that operation stands
    arguments,   \* per instance: the files its commands are given
    finalizers,  \* per instance: the files its deferred calls remove
    unclean      \* some provider process has panicked or was killed

vars == <<file, op, pc, arguments, finalizers, unclean>>

TypeOK ==
    /\ file \in [Names -> Owner \cup {NoFile, Left}]
    /\ op \in [Instances -> Operations \cup {"none"}]
    /\ pc \in [Instances -> {"idle", "bastion", "config", "wrapper", "run", "close"}]
    /\ arguments \in [Instances -> SUBSET Names]
    /\ finalizers \in [Instances -> SUBSET Names]
    /\ unclean \in BOOLEAN

Init ==
    /\ file = [f \in Names |-> NoFile]
    /\ op = [i \in Instances |-> "none"]
    /\ pc = [i \in Instances |-> "idle"]
    /\ arguments = [i \in Instances |-> {}]
    /\ finalizers = [i \in Instances |-> {}]
    /\ unclean = FALSE

At(i, here) == pc[i] = here

Goto(i, there) == pc' = [pc EXCEPT ![i] = there]

\* os.CreateTemp gives a name that is not in use.
Create(i, f, kind) ==
    /\ file[f] = NoFile
    /\ file' = [file EXCEPT ![f] = [by |-> i, op |-> op[i], kind |-> kind]]
    /\ arguments' = [arguments EXCEPT ![i] = @ \cup {f}]

-----------------------------------------------------------------------------
(* One operation.                                                           *)

\* Every operation makes an Ssh, Build and Push and Switch inside a Nix.
Begin(i) ==
    /\ At(i, "idle")
    /\ \E o \in Operations : op' = [op EXCEPT ![i] = o]
    /\ Goto(i, IF SettingOf[i].bastion THEN "bastion" ELSE "config")
    /\ UNCHANGED <<file, arguments, finalizers, unclean>>

\* Mutant: the bastion's Ssh is closed when NewSsh returns.
MakeBastionClosed(i) ==
    /\ At(i, "bastion")
    /\ \E f \in Names :
          /\ file[f] = NoFile
          /\ arguments' = [arguments EXCEPT ![i] = @ \cup {f}]
    /\ Goto(i, "config")
    /\ UNCHANGED <<file, op, finalizers, unclean>>

\* The configuration of the bastion's Ssh, which the ProxyCommand of the
\* other configuration names.  That Ssh is never closed.
MakeBastion(i) ==
    /\ At(i, "bastion")
    /\ \E f \in Names : Create(i, f, "bastion")
    /\ Goto(i, "config")
    /\ UNCHANGED <<op, finalizers, unclean>>

AfterSsh(i) == IF op[i] = "build" THEN "wrapper" ELSE "run"

\* The configuration of the Ssh itself.  Its finalizers, copied by With, run
\* when the operation closes the Ssh or its Nix: Switch never does.
MakeConfig(i) ==
    /\ At(i, "config")
    /\ SettingOf[i].config \/ SettingOf[i].bastion
    /\ \E f \in Names :
          /\ Create(i, f, "config")
          /\ finalizers' = [finalizers EXCEPT ![i] = IF op[i] = "switch" THEN {} ELSE {f}]
    /\ Goto(i, AfterSsh(i))
    /\ UNCHANGED <<op, unclean>>

\* Empty settings and no bastion: ssh runs with the user's own configuration.
SkipConfig(i) ==
    /\ At(i, "config")
    /\ ~SettingOf[i].config /\ ~SettingOf[i].bastion
    /\ Goto(i, AfterSsh(i))
    /\ UNCHANGED <<file, op, arguments, finalizers, unclean>>

MakeWrapper(i) ==
    /\ At(i, "wrapper")
    /\ SettingOf[i].wrapper
    /\ \E f \in Names :
          /\ Create(i, f, "wrapper")
          /\ finalizers' = [finalizers EXCEPT ![i] = @ \cup {f}]
    /\ Goto(i, "run")
    /\ UNCHANGED <<op, unclean>>

\* The user's wrapper is opened, and closed but not removed.
OpenWrapper(i) ==
    /\ At(i, "wrapper")
    /\ ~SettingOf[i].wrapper
    /\ Goto(i, "run")
    /\ UNCHANGED <<file, op, arguments, finalizers, unclean>>

\* Mutant: the error is returned before the Nix is to be closed.
WrapperFailsUnclosed(i) ==
    /\ At(i, "wrapper")
    /\ op' = [op EXCEPT ![i] = "none"]
    /\ arguments' = [arguments EXCEPT ![i] = {}]
    /\ finalizers' = [finalizers EXCEPT ![i] = {}]
    /\ Goto(i, "idle")
    /\ UNCHANGED <<file, unclean>>

\* It cannot be made, written or opened: Build returns the error.
WrapperFails(i) ==
    /\ At(i, "wrapper")
    /\ Goto(i, "close")
    /\ UNCHANGED <<file, op, arguments, finalizers, unclean>>

\* Commands have run, successfully or not, or none had to.
Return(i) ==
    /\ At(i, "run")
    /\ Goto(i, "close")
    /\ UNCHANGED <<file, op, arguments, finalizers, unclean>>

\* Mutant: Finalize does not forget what it has removed.
RemoveKeepsFinalizer(i) ==
    /\ At(i, "close")
    /\ \E f \in finalizers[i] : file' = [file EXCEPT ![f] = NoFile]
    /\ UNCHANGED <<op, pc, arguments, finalizers, unclean>>

\* A deferred Close: TempFile.Close removes the file.
Remove(i) ==
    /\ At(i, "close")
    /\ \E f \in finalizers[i] :
          /\ file' = [file EXCEPT ![f] = NoFile]
          /\ finalizers' = [finalizers EXCEPT ![i] = @ \ {f}]
    /\ UNCHANGED <<op, pc, arguments, unclean>>

\* Mutant: the arguments stay with the Ssh the next operation is given.
DoneKeepsArguments(i) ==
    /\ At(i, "close")
    /\ finalizers[i] = {}
    /\ op' = [op EXCEPT ![i] = "none"]
    /\ Goto(i, "idle")
    /\ UNCHANGED <<file, arguments, finalizers, unclean>>

Done(i) ==
    /\ At(i, "close")
    /\ finalizers[i] = {}
    /\ op' = [op EXCEPT ![i] = "none"]
    /\ arguments' = [arguments EXCEPT ![i] = {}]
    /\ Goto(i, "idle")
    /\ UNCHANGED <<file, finalizers, unclean>>

-----------------------------------------------------------------------------
(* The process.                                                             *)

\* Another provider process starts: what is still there stays there.
Abandoned(names) ==
    [f \in Names |-> IF file[f] = NoFile /\ f \notin names THEN NoFile ELSE Left]

NewProcess ==
    /\ op' = [i \in Instances |-> "none"]
    /\ pc' = [i \in Instances |-> "idle"]
    /\ arguments' = [i \in Instances |-> {}]
    /\ finalizers' = [i \in Instances |-> {}]

\* SshOptionConfigMap panics when it cannot make its file, or cannot write the
\* file it has just made.
ConfigPanics(i) ==
    /\ \/ At(i, "bastion")
       \/ At(i, "config") /\ (SettingOf[i].config \/ SettingOf[i].bastion)
    /\ \E made \in {{}} \cup {{f} : f \in Names} : file' = Abandoned(made)
    /\ NewProcess
    /\ unclean' = TRUE

Kill ==
    /\ \E i \in Instances : ~At(i, "idle")
    /\ file' = Abandoned({})
    /\ NewProcess
    /\ unclean' = TRUE

\* The command is over, the context of the provider's configuration is done
\* and Provider.Close is called: it does nothing.
Exit ==
    /\ \A i \in Instances : At(i, "idle")
    /\ file' = Abandoned({})
    /\ NewProcess
    /\ UNCHANGED unclean

Step(i) ==
    \/ Begin(i) \/ MakeBastion(i) \/ MakeConfig(i) \/ SkipConfig(i)
    \/ MakeWrapper(i) \/ OpenWrapper(i) \/ WrapperFails(i)
    \/ Return(i) \/ Remove(i) \/ Done(i)

Next ==
    \/ \E i \in Instances : Step(i) \/ ConfigPanics(i)
    \/ Kill
    \/ Exit

Spec == Init /\ [][Next]_vars

-----------------------------------------------------------------------------
(* Properties.                                                              *)

\* While an operation may run commands, every file they are given exists and is
\* the operation's own, the bastion's configuration behind the ProxyCommand
\* included, whatever other instances create and remove meanwhile
\* (provider.go:295-332 and the deferred calls of 403-576).
CommandsFindTheirFiles ==
    \A i \in Instances : At(i, "run") =>
        \A f \in arguments[i] : file[f] \in Owner /\ file[f].by = i /\ file[f].op = op[i]

\* What an operation leaves behind in a running process: bastion configurations
\* and Switch's, nothing else, and on no path out of it (the deferred Close
\* calls of provider.go:405, 415, 471 and 489).
LeavesOnlyKnownFiles ==
    \A f \in Names :
        file[f] \in Owner /\ file[f].kind # "bastion" /\ file[f].op # "switch" =>
            LET i == file[f].by
            IN  op[i] = file[f].op /\ f \in finalizers[i]

\* No two operations remove the same file, and a name to be removed is the name
\* of a file the operation made: os.CreateTemp may draw a removed name again,
\* so that a second removal could hit another operation's file (ssh.go:158-187).
OneRemover ==
    \A i \in Instances : \A f \in finalizers[i] :
        /\ file[f] \in Owner
        /\ file[f].by = i
        /\ \A j \in Instances : f \in finalizers[j] => i = j

\* An operation's bookkeeping: nothing before it begins, no finalizer before the
\* first configuration file, and its files are there until it closes them.
Bookkeeping(i) ==
    /\ At(i, "idle") <=> op[i] = "none"
    /\ At(i, "idle") => finalizers[i] = {} /\ arguments[i] = {}
    /\ At(i, "bastion") \/ At(i, "config") => finalizers[i] = {}
    /\ ~At(i, "close") =>
          \A f \in arguments[i] : file[f] \in Owner /\ file[f].by = i /\ file[f].op = op[i]

\* The properties above at every step of every operation, in every interleaving
\* and across panics (provider.go:265-332, 403-576; ssh.go:105-192): inductive.
FilesInvariant ==
    /\ TypeOK
    /\ LeavesOnlyKnownFiles
    /\ OneRemover
    /\ \A i \in Instances : Bookkeeping(i)

\* "how should people deallocate resources (tmp files, etc) which was allocated
\* by the provider? ... looks like this is working (for everything but not for
\* panics!)" (schema.go:482-487): once a process has ended without a panic and
\* without being killed, none of its files is left.
NothingLeft == unclean \/ \A f \in Names : file[f] # Left
=============================================================================
