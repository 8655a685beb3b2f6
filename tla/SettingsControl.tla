---------------------------- MODULE SettingsControl ----------------------------
(***************************************************************************)
(* The resolver settings of LightDNS: how PUT /api/settings saves them and *)
(* puts them into effect (Controller.applyRevision), how the ticker of     *)
(* main.refreshBlocklists and administrators reload the blocklists         *)
(* meanwhile (Controller.ReloadBlocklists), and how a restart reads them   *)
(* back (main).                                                            *)
(*                                                                         *)
(* A save holds Controller.mu from its revision check to its last          *)
(* assignment; between, it may download lists and it writes the database.  *)
(* A reload holds mu only while it copies the configuration.               *)
(*                                                                         *)
(* Definitions marked "fault" are plausible mistakes.  Nothing uses them;  *)
(* each takes the place of the definition after it to show that a property *)
(* notices.                                                                *)
(***************************************************************************)
EXTENDS Integers

CONSTANTS
    Lists,        \* values of what decides the blocklists: files, URLs, roots,
                  \* denylist, allowlist, download limit
    Options,      \* values of what a save puts into effect at once: upstreams,
                  \* cache, records, block mode, ...
    Startups,     \* values of what only a restart puts into effect: listeners,
                  \* TLS, rates
    First,        \* the settings the database starts with
    Savers,       \* goroutines serving PUT /api/settings
    Reloaders,    \* goroutines running ReloadBlocklists
    Ticker,       \* the one of main.refreshBlocklists
    MaxRevision,  \* bound: revisions of the settings
    MaxContents,  \* bound: how often the listed files and URLs change
    None          \* no goroutine

Workers == Savers \union Reloaders

Config == [lists : Lists, options : Options, startup : Startups]

ASSUME SettingsAssumption ==
    /\ First \in Config
    /\ Savers \intersect Reloaders = {}
    /\ Ticker \in Reloaders
    /\ None \notin Workers
    /\ MaxRevision \in Nat \ {0}
    /\ MaxContents \in Nat

VARIABLES
    stored,    \* the row of table settings
    contents,  \* history: how often the listed files and URLs have changed
    up,        \* the process is running
    pc,        \* where each goroutine is
    req,       \* what each save was asked
    mu,        \* the save that holds Controller.mu, or None
    config,    \* Controller.config
    revision,  \* Controller.revision
    built,     \* the lists each goroutine has chosen or loaded
    current,   \* Resolver.current: the options queries are served with
    blocks,    \* blocklist.Store: the matcher queries are filtered with
    running,   \* the startup settings this process started with
    notice     \* history: what the last save since the start was answered

controller == <<config, revision>>
served     == <<current, blocks, running>>
vars == <<stored, contents, up, pc, req, mu, config, revision, built, current,
          blocks, running, notice>>

Matcher   == [lists : Lists, contents : Nat]
NoMatcher == [lists |-> None]
NoRequest == [expected |-> 0]

\* What Loader.Load builds from a configuration at this moment.
Loaded(lists) == [lists |-> lists, contents |-> contents]

Init ==
    /\ stored = [config |-> First, revision |-> 1]
    /\ config = First
    /\ current = First.options
    /\ blocks = [lists |-> First.lists, contents |-> 0]
    /\ running = First.startup
    /\ revision = 1
    /\ contents = 0
    /\ up = TRUE
    /\ pc = [w \in Workers |-> "idle"]
    /\ req = [s \in Savers |-> NoRequest]
    /\ mu = None
    /\ built = [w \in Workers |-> NoMatcher]
    /\ notice = "none"

--------------------------------------------------------------------------------
(* A save: Server.putConfig and Controller.applyRevision.                      *)

\* The author edits the settings as of some revision they were shown.
Submit(s) ==
    /\ up
    /\ pc[s] = "idle"
    /\ \E c \in Config, e \in 1..revision :
           req' = [req EXCEPT ![s] = [config |-> c, expected |-> e]]
    /\ pc' = [pc EXCEPT ![s] = "submitted"]
    /\ UNCHANGED <<stored, contents, up, mu, controller, built, served, notice>>

\* The save ends; mu is free again if it was held.
Finish(s) ==
    /\ pc' = [pc EXCEPT ![s] = "idle"]
    /\ req' = [req EXCEPT ![s] = NoRequest]
    /\ built' = [built EXCEPT ![s] = NoMatcher]
    /\ mu' = None

AtAnyRevision(q) == TRUE                                           \* fault
AtRevision(q) == q.expected = revision

Lock(s) ==
    /\ pc[s] = "submitted"
    /\ mu = None
    /\ IF AtRevision(req[s])
       THEN /\ mu' = s
            /\ pc' = [pc EXCEPT ![s] = "locked"]
            /\ UNCHANGED <<req, built>>
       ELSE Finish(s)
    /\ UNCHANGED <<stored, contents, up, controller, served, notice>>

PreparePublishing(s) ==                                            \* fault
    /\ pc[s] = "locked"
    /\ built' = [built EXCEPT ![s] = IF req[s].config.lists # config.lists
                                     THEN Loaded(req[s].config.lists) ELSE NoMatcher]
    /\ current' = req[s].config.options
    /\ pc' = [pc EXCEPT ![s] = "prepared"]
    /\ UNCHANGED <<stored, contents, up, req, mu, controller, blocks, running, notice>>

PrepareOptionsOnly(s) ==                                           \* fault
    /\ pc[s] = "locked"
    /\ built' = [built EXCEPT ![s] = NoMatcher]
    /\ pc' = [pc EXCEPT ![s] = "prepared"]
    /\ UNCHANGED <<stored, contents, up, req, mu, controller, served, notice>>

\* The lists are loaded if their part of the settings changes, and the options
\* are turned into a resolver state.
Prepare(s) ==
    /\ pc[s] = "locked"
    /\ built' = [built EXCEPT ![s] = IF req[s].config.lists # config.lists
                                     THEN Loaded(req[s].config.lists) ELSE NoMatcher]
    /\ pc' = [pc EXCEPT ![s] = "prepared"]
    /\ UNCHANGED <<stored, contents, up, req, mu, controller, served, notice>>

\* Store.SaveConfigAudited: a conditional update of the row.
Persist(s) ==
    /\ pc[s] = "prepared"
    /\ stored.revision = revision
    /\ stored.revision < MaxRevision
    /\ stored' = [config |-> req[s].config, revision |-> revision + 1]
    /\ pc' = [pc EXCEPT ![s] = "persisted"]
    /\ UNCHANGED <<contents, up, req, mu, controller, built, served, notice>>

FailWithoutUnlock(s) ==                                            \* fault
    /\ pc[s] \in {"locked", "prepared"}
    /\ pc' = [pc EXCEPT ![s] = "idle"]
    /\ req' = [req EXCEPT ![s] = NoRequest]
    /\ built' = [built EXCEPT ![s] = NoMatcher]
    /\ UNCHANGED <<stored, contents, up, mu, controller, served, notice>>

\* The settings are invalid, a list cannot be loaded, or the database refuses.
Fail(s) ==
    /\ pc[s] \in {"locked", "prepared"}
    /\ Finish(s)
    /\ UNCHANGED <<stored, contents, up, controller, served, notice>>

PublishOldOptions(s) ==                                            \* fault
    /\ pc[s] = "persisted"
    /\ current' = config.options
    /\ pc' = [pc EXCEPT ![s] = "published"]
    /\ UNCHANGED <<stored, contents, up, req, mu, controller, built, blocks, running,
                   notice>>

\* Resolver.Publish.
PublishOptions(s) ==
    /\ pc[s] = "persisted"
    /\ current' = req[s].config.options
    /\ pc' = [pc EXCEPT ![s] = "published"]
    /\ UNCHANGED <<stored, contents, up, req, mu, controller, built, blocks, running,
                   notice>>

\* restartRequired compares with the previous settings.
RestartRequired(next) == next.startup # config.startup

\* The new lists replace the old ones, the controller takes over the settings,
\* and the author is told whether they are in effect.
PublishLists(s) ==
    LET next == req[s].config IN
    /\ pc[s] = "published"
    /\ blocks' = IF built[s] = NoMatcher THEN blocks ELSE built[s]
    /\ config' = next
    /\ revision' = revision + 1
    /\ notice' = IF RestartRequired(next) THEN "restart" ELSE "live"
    /\ Finish(s)
    /\ UNCHANGED <<stored, contents, up, current, running>>

--------------------------------------------------------------------------------
(* Controller.ReloadBlocklists.                                                *)

\* The configuration is copied under a read lock.
BeginReload(w) ==
    /\ up
    /\ pc[w] = "idle"
    /\ mu = None
    /\ built' = [built EXCEPT ![w] = [lists |-> config.lists]]
    /\ pc' = [pc EXCEPT ![w] = "loading"]
    /\ UNCHANGED <<stored, contents, up, req, mu, controller, served, notice>>

LoadLists(w) ==
    /\ pc[w] = "loading"
    /\ built' = [built EXCEPT ![w] = Loaded(@.lists)]
    /\ pc' = [pc EXCEPT ![w] = "loaded"]
    /\ UNCHANGED <<stored, contents, up, req, mu, controller, served, notice>>

LoadFailsForGood(w) ==                                             \* fault
    /\ pc[w] = "loading"
    /\ built' = [built EXCEPT ![w] = NoMatcher]
    /\ pc' = [pc EXCEPT ![w] = "returned"]
    /\ UNCHANGED <<stored, contents, up, req, mu, controller, served, notice>>

\* "blocklist refresh failed; keeping previous list" (main.go).
LoadFails(w) ==
    /\ pc[w] = "loading"
    /\ built' = [built EXCEPT ![w] = NoMatcher]
    /\ pc' = [pc EXCEPT ![w] = "idle"]
    /\ UNCHANGED <<stored, contents, up, req, mu, controller, served, notice>>

ReplaceLists(w) ==
    /\ pc[w] = "loaded"
    /\ blocks' = built[w]
    /\ built' = [built EXCEPT ![w] = NoMatcher]
    /\ pc' = [pc EXCEPT ![w] = "idle"]
    /\ UNCHANGED <<stored, contents, up, req, mu, controller, current, running, notice>>

--------------------------------------------------------------------------------
(* The surroundings: the listed files and URLs, and the process.               *)

ContentsChange ==
    /\ contents < MaxContents
    /\ contents' = contents + 1
    /\ UNCHANGED <<stored, up, pc, req, mu, controller, built, served, notice>>

Crash ==
    /\ up
    /\ up' = FALSE
    /\ pc' = [w \in Workers |-> "idle"]
    /\ req' = [s \in Savers |-> NoRequest]
    /\ built' = [w \in Workers |-> NoMatcher]
    /\ mu' = None
    /\ UNCHANGED <<stored, contents, controller, served, notice>>

StartWithoutLists ==                                               \* fault
    /\ ~up
    /\ up' = TRUE
    /\ config' = stored.config
    /\ revision' = stored.revision
    /\ current' = stored.config.options
    /\ blocks' = NoMatcher
    /\ running' = stored.config.startup
    /\ notice' = "none"
    /\ UNCHANGED <<stored, contents, pc, req, mu, built>>

\* initializeRuntime loads the stored settings; main loads the lists, or exits
\* again, before it serves anything.
Start ==
    /\ ~up
    /\ up' = TRUE
    /\ config' = stored.config
    /\ revision' = stored.revision
    /\ current' = stored.config.options
    /\ blocks' = Loaded(stored.config.lists)
    /\ running' = stored.config.startup
    /\ notice' = "none"
    /\ UNCHANGED <<stored, contents, pc, req, mu, built>>

Save(s) ==
    \/ Lock(s)
    \/ Prepare(s)
    \/ Persist(s)
    \/ Fail(s)
    \/ PublishOptions(s)
    \/ PublishLists(s)

Load(w) == LoadLists(w) \/ LoadFails(w)

Next ==
    \/ \E s \in Savers : Submit(s) \/ Save(s)
    \/ \E w \in Reloaders : BeginReload(w) \/ Load(w) \/ ReplaceLists(w)
    \/ ContentsChange
    \/ Crash
    \/ Start

Spec == Init /\ [][Next]_vars

\* Goroutines go on (downloads time out), mu is fair to those who wait, the
\* ticker ticks and its loads do not fail forever, a stopped process is started
\* again.
Fairness ==
    /\ \A s \in Savers : SF_vars(Lock(s)) /\ WF_vars(Save(s))
    /\ \A w \in Reloaders : WF_vars(Load(w)) /\ WF_vars(ReplaceLists(w))
    /\ SF_vars(BeginReload(Ticker))
    /\ SF_vars(LoadLists(Ticker))
    /\ WF_vars(Start)

FairSpec == Spec /\ Fairness

--------------------------------------------------------------------------------
(* Properties. *)

TypeOK ==
    /\ stored \in [config : Config, revision : 1..MaxRevision]
    /\ contents \in Nat
    /\ up \in BOOLEAN
    /\ pc \in [Workers -> {"idle", "submitted", "locked", "prepared", "persisted",
                           "published", "loading", "loaded"}]
    /\ req \in [Savers -> [config : Config, expected : Nat] \union {NoRequest}]
    /\ mu \in Savers \union {None}
    /\ config \in Config
    /\ revision \in 1..MaxRevision
    /\ built \in [Workers -> Matcher \union [lists : Lists] \union {NoMatcher}]
    /\ current \in Options
    /\ blocks \in Matcher
    /\ running \in Startups
    /\ notice \in {"none", "live", "restart"}

\* While no save is under way, the process runs with exactly the settings that a
\* restart would read back, whichever saves failed at whichever point before
\* (applyRevision publishes only after SaveConfigAudited has committed).
SettingsDurable ==
    up /\ mu = None =>
        /\ stored = [config |-> config, revision |-> revision]
        /\ current = config.options

\* No save overwrites settings its author has not seen: a new revision is
\* written by a save that names the one it replaces (the If-Match header of
\* PUT /api/settings), however many saves wait for each other.
StaleSavesRejected ==
    [][stored' # stored =>
           \E s \in Savers :
               /\ pc'[s] # pc[s]
               /\ req[s].expected = stored.revision
               /\ stored'.revision = stored.revision + 1
               /\ stored'.config = req[s].config]_vars

\* Saved settings are what is served, shown and saved over: saves neither overtake
\* each other nor stay half in effect, whatever fails, and whenever the process is
\* stopped between the row and the resolver.
Promise == INSTANCE SavedSettings WITH
    saved <- stored, shown <- [config |-> config, revision |-> revision],
    options <- current, startup <- running
RefinesSaved == Promise!Safety

\* The lists in force are those of the settings in force, until a reload that
\* copied the settings before a save replaces the lists after it: nothing else
\* brings back lists of replaced settings (neither a save that fails or finds its
\* lists unchanged nor a restart does).
Settled == blocks.lists = config.lists

OnlyLateReloadsUnsettle ==
    [][Settled /\ ~Settled' =>
           \E w \in Reloaders :
               /\ pc[w] = "loaded"
               /\ built[w].lists # config.lists
               /\ blocks' = built[w]]_vars

\* Settings whose author was told "Configuration saved and applied live." (app.js)
\* decide the lists queries are filtered with, once nobody is working on them.
\* ReloadBlocklists does not respect this: it may store a matcher built from
\* settings that a save has replaced meanwhile.
LiveLists ==
    up /\ notice = "live" /\ (\A w \in Workers : pc[w] = "idle") =>
        blocks.lists = config.lists

\* Settings whose author was told "Configuration saved and applied live." leave
\* nothing to a restart.  applyRevision compares with the settings saved before
\* instead of those the process started with, and does not have this property.
LiveStartup == up /\ notice = "live" => running = config.startup

\* Neither lists from replaced settings nor lists that have changed at their
\* source stay: with a refresh interval set, the lists of the settings in force, as
\* they are at their source, are served again and again.
ListsRepaired == []<>(up /\ blocks = Loaded(config.lists))

\* Every save is answered, or ends with the process: mu is never kept.
SavesFinish == \A s \in Savers : pc[s] # "idle" ~> pc[s] = "idle"
================================================================================
