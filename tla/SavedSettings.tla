----------------------------- MODULE SavedSettings -----------------------------
(***************************************************************************)
(* What LightDNS promises about its settings, without handlers, locks,     *)
(* downloads or steps: settings are saved one after the other, each over   *)
(* those its author was shown; queries are served with the options of      *)
(* settings that are saved; settings are shown only once their options are *)
(* served; what waits for a restart comes with the restart.                *)
(*                                                                         *)
(* SettingsControl implements it (RefinesSaved).                           *)
(***************************************************************************)
EXTENDS Integers

CONSTANTS
    Config,  \* settings, of which .options are served and .startup wait
    First    \* those the process starts with

VARIABLES
    saved,    \* the settings that a restart would read, and their revision
    shown,    \* the settings, and their revision, that authors are shown
    options,  \* what queries are served with
    startup   \* what the process was started with

vars == <<saved, shown, options, startup>>

InEffect == options = saved.config.options

Init ==
    /\ saved = [config |-> First, revision |-> 1]
    /\ shown = saved
    /\ options = First.options
    /\ startup = First.startup

\* Settings are saved over those that are shown and in effect.
Save(c) ==
    /\ shown = saved
    /\ InEffect
    /\ saved' = [config |-> c, revision |-> saved.revision + 1]
    /\ UNCHANGED <<shown, options, startup>>

\* Queries are served with the saved options.
Apply ==
    /\ options' = saved.config.options
    /\ UNCHANGED <<saved, shown, startup>>

\* The author is told, and the next ones are shown, what is in effect.
Show ==
    /\ InEffect
    /\ shown' = saved
    /\ UNCHANGED <<saved, options, startup>>

\* The process starts again with what is saved.
Restart ==
    /\ shown' = saved
    /\ options' = saved.config.options
    /\ startup' = saved.config.startup
    /\ UNCHANGED saved

Next == (\E c \in Config : Save(c)) \/ Apply \/ Show \/ Restart

Safety == Init /\ [][Next]_vars
================================================================================
