---------------------------- MODULE Derivations ----------------------------
(***************************************************************************)
(* What `nix build` is asked for and what it answers.  An instance names a *)
(* configuration file and the arguments it is evaluated with (system,      *)
(* settings, build wrapper: Provider.Build, provider.go:403-435).  The     *)
(* file's content changes over time: a revision.  The derivation is a      *)
(* function of the three and nothing else, which is what Nix promises.     *)
(***************************************************************************)
CONSTANTS
    Instances,       \* nixos_instance resources of the Terraform configuration
    Configurations,  \* absolute paths of configuration files: the memo's keys
    Arguments,       \* values of (system, settings, build_wrapper)
    InputOf,         \* [Instances -> [configuration, arguments]]
    Revisions,       \* contents the Nix sources can have
    FirstRevision,   \* the content they have at the start
    Edits,           \* pairs <<old, new>>: the edits the user may make
    Malformed        \* output that is not JSON, or not exactly one derivation

Input == [configuration : Configurations, arguments : Arguments]

Derivation ==
    [configuration : Configurations, arguments : Arguments, revision : Revisions]

ASSUME InputAssumption == InputOf \in [Instances -> Input]

ASSUME RevisionAssumption ==
    /\ FirstRevision \in Revisions
    /\ Edits \subseteq Revisions \X Revisions

ASSUME MalformedAssumption == Malformed \notin Derivation

\* What building instance i gives while the sources are at revision rev.
Built(i, rev) ==
    [configuration |-> InputOf[i].configuration,
     arguments     |-> InputOf[i].arguments,
     revision      |-> rev]

\* The premise the memo relies on and nothing in the provider enforces: its
\* key, the configuration's path, determines everything the build depends on.
KeyDeterminesInput ==
    \A i, j \in Instances :
        InputOf[i].configuration = InputOf[j].configuration => InputOf[i] = InputOf[j]
=============================================================================
