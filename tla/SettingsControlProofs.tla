------------------------- MODULE SettingsControlProofs -------------------------
(***************************************************************************)
(* Proofs about SettingsControl.                                           *)
(*                                                                         *)
(* SettingsInv follows a save through applyRevision: only the holder of mu *)
(* is past its revision check, and what of the new settings is in the      *)
(* database and in the resolver is told by how far it has come.            *)
(***************************************************************************)
EXTENDS SettingsControl, TLAPS

Request == [config : Config, expected : Nat]

\* Past the revision check.
Saving(at) == at \in {"locked", "prepared", "persisted", "published"}

\* What each goroutine carries.
Carried ==
    /\ \A s \in Savers : /\ pc[s] \in {"idle", "submitted"} \/ Saving(pc[s])
                         /\ pc[s] # "idle" => req[s] \in Request
                         /\ built[s] \in Matcher \union {NoMatcher}
    /\ \A w \in Reloaders : /\ pc[w] \in {"idle", "loading", "loaded"}
                            /\ pc[w] = "loading" => built[w] \in [lists : Lists]
                            /\ pc[w] = "loaded" => built[w] \in Matcher

\* The holder of mu is the one save past its revision check.
Exclusive == \A s \in Savers : Saving(pc[s]) <=> mu = s

\* How far a save has come, at "at", with request "q".
Progress(at, q, row, conf, rev, opts) ==
    /\ at \in {"locked", "prepared"} =>
           row = [config |-> conf, revision |-> rev] /\ opts = conf.options
    /\ at \in {"persisted", "published"} =>
           row = [config |-> q.config, revision |-> rev + 1]
    /\ at = "published" => opts = q.config.options
    /\ Saving(at) => q.expected = rev

SettingsInv ==
    /\ TypeOK
    /\ Carried
    /\ Exclusive
    /\ \A s \in Savers : Progress(pc[s], req[s], stored, config, revision, current)
    /\ SettingsDurable
    /\ ~up => \A w \in Workers : pc[w] = "idle"

--------------------------------------------------------------------------------

\* A process that has just started serves what is stored.
LEMMA SettingsInit == Init => SettingsInv
  <1> SUFFICES ASSUME Init PROVE SettingsInv
    OBVIOUS
  <1> USE SettingsAssumption
  <1>1. TypeOK
    BY DEF Init, TypeOK, Config, Matcher
  <1>2. Carried
    BY DEF Init, Carried, Workers, Saving
  <1>3. Exclusive
    BY DEF Init, Exclusive, Workers, Saving
  <1>4. \A s \in Savers : Progress(pc[s], req[s], stored, config, revision, current)
    BY DEF Init, Progress, Workers, Saving
  <1>5. SettingsDurable
    BY DEF Init, SettingsDurable
  <1> QED
    BY <1>1, <1>2, <1>3, <1>4, <1>5 DEF SettingsInv, Init

\* A save is asked for.
LEMMA SubmitStep ==
    ASSUME SettingsInv, NEW s \in Savers, Submit(s)
    PROVE  SettingsInv'
  <1> USE SettingsAssumption
  <1>1. TypeOK'
    <2>1. PICK c \in Config, e \in 1..revision :
              req' = [req EXCEPT ![s] = [config |-> c, expected |-> e]]
      BY DEF Submit
    <2>2. e \in Nat
      BY DEF SettingsInv, TypeOK
    <2>3. [config |-> c, expected |-> e] \in [config : Config, expected : Nat]
      BY <2>2
    <2>4. req' \in [Savers -> [config : Config, expected : Nat] \union {NoRequest}]
      BY <2>1, <2>3 DEF SettingsInv, TypeOK
    <2> QED
      BY <2>4 DEF Submit, controller, served, SettingsInv, TypeOK
  <1>2. Carried'
    BY DEF Submit, controller, served, Request, Config, Matcher, NoMatcher,
           SettingsInv, TypeOK, Carried, Workers, Saving
  <1>3. Exclusive'
    BY DEF Submit, controller, served, Request, Config, Matcher, NoMatcher,
           SettingsInv, TypeOK, Exclusive, Carried, Workers, Saving
  <1>4. \A x \in Savers : Progress(pc'[x], req'[x], stored', config', revision', current')
    BY DEF Submit, controller, served, Request, Config, Matcher, NoMatcher,
           SettingsInv, TypeOK, Exclusive, Carried, Progress, Workers, Saving
  <1>5. SettingsDurable'
    BY DEF Submit, controller, served, Request, Config, Matcher, NoMatcher,
           SettingsInv, TypeOK, SettingsDurable, Exclusive, Workers, Saving
  <1>6. ~up' => \A x \in Workers : pc'[x] = "idle"
    BY DEF Submit, controller, served, Request, Config, Matcher, NoMatcher,
           SettingsInv, TypeOK, Workers, Saving
  <1> QED
    BY <1>1, <1>2, <1>3, <1>4, <1>5, <1>6 DEF SettingsInv

\* Only a save as of the current revision gets past its check.
LEMMA LockStep ==
    ASSUME SettingsInv, NEW s \in Savers, Lock(s)
    PROVE  SettingsInv'
  <1> USE SettingsAssumption
  <1>1. TypeOK'
    BY DEF Lock, Finish, AtRevision, controller, served, Request, Matcher, NoMatcher,
           NoRequest, SettingsInv, TypeOK
  <1>2. Carried'
    BY DEF Lock, Finish, AtRevision, controller, served, Request, Matcher, NoMatcher,
           NoRequest, SettingsInv, TypeOK, Carried, Workers, Saving
  <1>3. Exclusive'
    BY DEF Lock, Finish, AtRevision, controller, served, Request, Matcher, NoMatcher,
           NoRequest, SettingsInv, TypeOK, Exclusive, Carried, Workers, Saving
  <1>4. \A x \in Savers : Progress(pc'[x], req'[x], stored', config', revision', current')
    BY DEF Lock, Finish, AtRevision, controller, served, Request, Matcher, NoMatcher,
           NoRequest, SettingsInv, TypeOK, Exclusive, Carried, Progress, Workers, Saving,
           SettingsDurable
  <1>5. SettingsDurable'
    BY DEF Lock, Finish, AtRevision, controller, served, Request, Matcher, NoMatcher,
           NoRequest, SettingsInv, TypeOK, SettingsDurable, Exclusive, Workers, Saving
  <1>6. ~up' => \A x \in Workers : pc'[x] = "idle"
    BY DEF Lock, Finish, AtRevision, controller, served, Request, Matcher, NoMatcher,
           NoRequest, SettingsInv, TypeOK, Workers, Saving
  <1> QED
    BY <1>1, <1>2, <1>3, <1>4, <1>5, <1>6 DEF SettingsInv

\* The lists are loaded.
LEMMA PrepareStep ==
    ASSUME SettingsInv, NEW s \in Savers, Prepare(s)
    PROVE  SettingsInv'
  <1> USE SettingsAssumption
  <1>1. TypeOK'
    BY DEF Prepare, Loaded, controller, served, Request, Config, Matcher, NoMatcher,
           SettingsInv, TypeOK, Carried, Saving, Progress
  <1>2. Carried'
    BY DEF Prepare, Loaded, controller, served, Request, Config, Matcher, NoMatcher,
           SettingsInv, TypeOK, Carried, Workers, Saving
  <1>3. Exclusive'
    BY DEF Prepare, Loaded, controller, served, Request, Config, Matcher, NoMatcher,
           SettingsInv, TypeOK, Exclusive, Carried, Workers, Saving
  <1>4. \A x \in Savers : Progress(pc'[x], req'[x], stored', config', revision', current')
    BY DEF Prepare, Loaded, controller, served, Request, Config, Matcher, NoMatcher,
           SettingsInv, TypeOK, Exclusive, Carried, Progress, Workers, Saving
  <1>5. SettingsDurable'
    BY DEF Prepare, Loaded, controller, served, Request, Config, Matcher, NoMatcher,
           SettingsInv, TypeOK, SettingsDurable, Exclusive, Workers, Saving
  <1>6. ~up' => \A x \in Workers : pc'[x] = "idle"
    BY DEF Prepare, Loaded, controller, served, Request, Config, Matcher, NoMatcher,
           SettingsInv, TypeOK, Workers, Saving
  <1> QED
    BY <1>1, <1>2, <1>3, <1>4, <1>5, <1>6 DEF SettingsInv

\* The row changes; nothing of it is in force yet.
LEMMA PersistStep ==
    ASSUME SettingsInv, NEW s \in Savers, Persist(s)
    PROVE  SettingsInv'
  <1> USE SettingsAssumption
  <1>1. TypeOK'
    <2>1. req[s] \in Request
      BY DEF Persist, SettingsInv, Carried
    <2>2. revision \in 1..MaxRevision /\ revision < MaxRevision
      BY DEF Persist, SettingsInv, TypeOK
    <2>3. revision + 1 \in 1..MaxRevision
      BY <2>2
    <2>4. stored' \in [config : Config, revision : 1..MaxRevision]
      BY <2>1, <2>3 DEF Persist, Request
    <2> QED
      BY <2>4 DEF Persist, controller, served, SettingsInv, TypeOK
  <1>2. Carried'
    BY DEF Persist, controller, served, Request, Config, Matcher, NoMatcher,
           SettingsInv, TypeOK, Carried, Workers, Saving
  <1>3. Exclusive'
    BY DEF Persist, controller, served, Request, Config, Matcher, NoMatcher,
           SettingsInv, TypeOK, Exclusive, Carried, Workers, Saving
  <1>4. \A x \in Savers : Progress(pc'[x], req'[x], stored', config', revision', current')
    BY DEF Persist, controller, served, Request, Config, Matcher, NoMatcher,
           SettingsInv, TypeOK, Exclusive, Carried, Progress, Workers, Saving
  <1>5. SettingsDurable'
    BY DEF Persist, controller, served, Request, Config, Matcher, NoMatcher,
           SettingsInv, TypeOK, SettingsDurable, Exclusive, Workers, Saving
  <1>6. ~up' => \A x \in Workers : pc'[x] = "idle"
    BY DEF Persist, controller, served, Request, Config, Matcher, NoMatcher,
           SettingsInv, TypeOK, Workers, Saving
  <1> QED
    BY <1>1, <1>2, <1>3, <1>4, <1>5, <1>6 DEF SettingsInv

\* A save that fails has changed nothing.
LEMMA FailStep ==
    ASSUME SettingsInv, NEW s \in Savers, Fail(s)
    PROVE  SettingsInv'
  <1> USE SettingsAssumption
  <1>1. TypeOK'
    BY DEF Fail, Finish, controller, served, Request, Matcher, NoMatcher, NoRequest,
           SettingsInv, TypeOK
  <1>2. Carried'
    BY DEF Fail, Finish, controller, served, Request, Matcher, NoMatcher, NoRequest,
           SettingsInv, TypeOK, Carried, Workers, Saving
  <1>3. Exclusive'
    BY DEF Fail, Finish, controller, served, Request, Matcher, NoMatcher, NoRequest,
           SettingsInv, TypeOK, Exclusive, Carried, Workers, Saving
  <1>4. \A x \in Savers : Progress(pc'[x], req'[x], stored', config', revision', current')
    BY DEF Fail, Finish, controller, served, Request, Matcher, NoMatcher, NoRequest,
           SettingsInv, TypeOK, Exclusive, Carried, Progress, Workers, Saving
  <1>5. SettingsDurable'
    BY DEF Fail, Finish, controller, served, Request, Matcher, NoMatcher, NoRequest,
           SettingsInv, TypeOK, SettingsDurable, Exclusive, Workers, Saving, Progress,
           Carried
  <1>6. ~up' => \A x \in Workers : pc'[x] = "idle"
    BY DEF Fail, Finish, controller, served, Request, Matcher, NoMatcher, NoRequest,
           SettingsInv, TypeOK, Workers, Saving
  <1> QED
    BY <1>1, <1>2, <1>3, <1>4, <1>5, <1>6 DEF SettingsInv

\* The options are in force.
LEMMA PublishOptionsStep ==
    ASSUME SettingsInv, NEW s \in Savers, PublishOptions(s)
    PROVE  SettingsInv'
  <1> USE SettingsAssumption
  <1>1. TypeOK'
    BY DEF PublishOptions, controller, served, Request, Config, Matcher, NoMatcher,
           SettingsInv, TypeOK, Carried, Saving, Progress
  <1>2. Carried'
    BY DEF PublishOptions, controller, served, Request, Config, Matcher, NoMatcher,
           SettingsInv, TypeOK, Carried, Workers, Saving
  <1>3. Exclusive'
    BY DEF PublishOptions, controller, served, Request, Config, Matcher, NoMatcher,
           SettingsInv, TypeOK, Exclusive, Carried, Workers, Saving
  <1>4. \A x \in Savers : Progress(pc'[x], req'[x], stored', config', revision', current')
    BY DEF PublishOptions, controller, served, Request, Config, Matcher, NoMatcher,
           SettingsInv, TypeOK, Exclusive, Carried, Progress, Workers, Saving
  <1>5. SettingsDurable'
    BY DEF PublishOptions, controller, served, Request, Config, Matcher, NoMatcher,
           SettingsInv, TypeOK, SettingsDurable, Exclusive, Workers, Saving, Progress,
           Carried
  <1>6. ~up' => \A x \in Workers : pc'[x] = "idle"
    BY DEF PublishOptions, controller, served, Request, Config, Matcher, NoMatcher,
           SettingsInv, TypeOK, Workers, Saving
  <1> QED
    BY <1>1, <1>2, <1>3, <1>4, <1>5, <1>6 DEF SettingsInv

\* The save is complete.
LEMMA PublishListsStep ==
    ASSUME SettingsInv, NEW s \in Savers, PublishLists(s)
    PROVE  SettingsInv'
  <1> USE SettingsAssumption
  <1>1. TypeOK'
    <2>1. req[s] \in Request /\ built[s] \in Matcher \union {NoMatcher}
      BY DEF PublishLists, SettingsInv, Carried
    <2>2. stored.revision = revision + 1
      BY DEF PublishLists, SettingsInv, Progress
    <2>3. revision' \in 1..MaxRevision
      BY <2>2 DEF PublishLists, SettingsInv, TypeOK
    <2>4. config' \in Config
      BY <2>1 DEF PublishLists, Request
    <2>5. blocks' \in Matcher
      BY <2>1 DEF PublishLists, SettingsInv, TypeOK
    <2>6. req' \in [Savers -> [config : Config, expected : Nat] \union {NoRequest}]
      BY DEF PublishLists, Finish, SettingsInv, TypeOK
    <2>7. built' \in [Workers -> Matcher \union [lists : Lists] \union {NoMatcher}]
      BY DEF PublishLists, Finish, SettingsInv, TypeOK
    <2>8. pc' \in [Workers -> {"idle", "submitted", "locked", "prepared", "persisted",
                              "published", "loading", "loaded"}]
      BY DEF PublishLists, Finish, SettingsInv, TypeOK
    <2> QED
      BY <2>3, <2>4, <2>5, <2>6, <2>7, <2>8
      DEF PublishLists, Finish, SettingsInv, TypeOK
  <1>2. Carried'
    BY DEF PublishLists, Finish, Request, Config, Matcher, NoMatcher, NoRequest,
           SettingsInv, TypeOK, Carried, Workers, Saving
  <1>3. Exclusive'
    BY DEF PublishLists, Finish, Request, Config, Matcher, NoMatcher, NoRequest,
           SettingsInv, TypeOK, Exclusive, Carried, Workers, Saving
  <1>4. \A x \in Savers : Progress(pc'[x], req'[x], stored', config', revision', current')
    BY DEF PublishLists, Finish, Request, Config, Matcher, NoMatcher, NoRequest,
           SettingsInv, TypeOK, Exclusive, Carried, Progress, Workers, Saving
  <1>5. SettingsDurable'
    BY DEF PublishLists, Finish, Request, Config, Matcher, NoMatcher, NoRequest,
           SettingsInv, TypeOK, SettingsDurable, Exclusive, Workers, Saving, Progress,
           Carried
  <1>6. ~up' => \A x \in Workers : pc'[x] = "idle"
    BY DEF PublishLists, Finish, Request, Config, Matcher, NoMatcher, NoRequest,
           SettingsInv, TypeOK, Workers, Saving
  <1> QED
    BY <1>1, <1>2, <1>3, <1>4, <1>5, <1>6 DEF SettingsInv

\* A reload copies the configuration.
LEMMA BeginReloadStep ==
    ASSUME SettingsInv, NEW w \in Reloaders, BeginReload(w)
    PROVE  SettingsInv'
  <1> USE SettingsAssumption
  <1>1. TypeOK'
    BY DEF BeginReload, controller, served, Config, Matcher, NoMatcher, SettingsInv,
           TypeOK
  <1>2. Carried'
    BY DEF BeginReload, controller, served, Config, Matcher, NoMatcher, SettingsInv,
           TypeOK, Carried, Workers, Saving
  <1>3. Exclusive'
    BY DEF BeginReload, controller, served, Config, Matcher, NoMatcher, SettingsInv,
           TypeOK, Exclusive, Carried, Workers, Saving
  <1>4. \A x \in Savers : Progress(pc'[x], req'[x], stored', config', revision', current')
    BY DEF BeginReload, controller, served, Config, Matcher, NoMatcher, SettingsInv,
           TypeOK, Exclusive, Carried, Progress, Workers, Saving
  <1>5. SettingsDurable'
    BY DEF BeginReload, controller, served, Config, Matcher, NoMatcher, SettingsInv,
           TypeOK, SettingsDurable, Exclusive, Workers, Saving
  <1>6. ~up' => \A x \in Workers : pc'[x] = "idle"
    BY DEF BeginReload, controller, served, Config, Matcher, NoMatcher, SettingsInv,
           TypeOK, Workers, Saving
  <1> QED
    BY <1>1, <1>2, <1>3, <1>4, <1>5, <1>6 DEF SettingsInv

\* A reload loads the lists it has chosen.
LEMMA LoadListsStep ==
    ASSUME SettingsInv, NEW w \in Reloaders, LoadLists(w)
    PROVE  SettingsInv'
  <1> USE SettingsAssumption
  <1>1. TypeOK'
    BY DEF LoadLists, Loaded, controller, served, Config, Matcher, NoMatcher,
           SettingsInv, TypeOK, Carried, Saving, Request, Progress
  <1>2. Carried'
    BY DEF LoadLists, Loaded, controller, served, Config, Matcher, NoMatcher,
           SettingsInv, TypeOK, Carried, Workers, Saving
  <1>3. Exclusive'
    BY DEF LoadLists, Loaded, controller, served, Config, Matcher, NoMatcher,
           SettingsInv, TypeOK, Exclusive, Carried, Workers, Saving
  <1>4. \A x \in Savers : Progress(pc'[x], req'[x], stored', config', revision', current')
    BY DEF LoadLists, Loaded, controller, served, Config, Matcher, NoMatcher,
           SettingsInv, TypeOK, Exclusive, Carried, Progress, Workers, Saving
  <1>5. SettingsDurable'
    BY DEF LoadLists, Loaded, controller, served, Config, Matcher, NoMatcher,
           SettingsInv, TypeOK, SettingsDurable, Exclusive, Workers, Saving
  <1>6. ~up' => \A x \in Workers : pc'[x] = "idle"
    BY DEF LoadLists, Loaded, controller, served, Config, Matcher, NoMatcher,
           SettingsInv, TypeOK, Workers, Saving
  <1> QED
    BY <1>1, <1>2, <1>3, <1>4, <1>5, <1>6 DEF SettingsInv

\* A reload gives up.
LEMMA LoadFailsStep ==
    ASSUME SettingsInv, NEW w \in Reloaders, LoadFails(w)
    PROVE  SettingsInv'
  <1> USE SettingsAssumption
  <1>1. TypeOK'
    BY DEF LoadFails, controller, served, Config, Matcher, NoMatcher, SettingsInv,
           TypeOK
  <1>2. Carried'
    BY DEF LoadFails, controller, served, Config, Matcher, NoMatcher, SettingsInv,
           TypeOK, Carried, Workers, Saving
  <1>3. Exclusive'
    BY DEF LoadFails, controller, served, Config, Matcher, NoMatcher, SettingsInv,
           TypeOK, Exclusive, Carried, Workers, Saving
  <1>4. \A x \in Savers : Progress(pc'[x], req'[x], stored', config', revision', current')
    BY DEF LoadFails, controller, served, Config, Matcher, NoMatcher, SettingsInv,
           TypeOK, Exclusive, Carried, Progress, Workers, Saving
  <1>5. SettingsDurable'
    BY DEF LoadFails, controller, served, Config, Matcher, NoMatcher, SettingsInv,
           TypeOK, SettingsDurable, Exclusive, Workers, Saving
  <1>6. ~up' => \A x \in Workers : pc'[x] = "idle"
    BY DEF LoadFails, controller, served, Config, Matcher, NoMatcher, SettingsInv,
           TypeOK, Workers, Saving
  <1> QED
    BY <1>1, <1>2, <1>3, <1>4, <1>5, <1>6 DEF SettingsInv

\* A reload replaces the matcher.
LEMMA ReplaceListsStep ==
    ASSUME SettingsInv, NEW w \in Reloaders, ReplaceLists(w)
    PROVE  SettingsInv'
  <1> USE SettingsAssumption
  <1>1. TypeOK'
    BY DEF ReplaceLists, controller, served, Config, Matcher, NoMatcher, SettingsInv,
           TypeOK, Carried, Saving, Request, Progress
  <1>2. Carried'
    BY DEF ReplaceLists, controller, served, Config, Matcher, NoMatcher, SettingsInv,
           TypeOK, Carried, Workers, Saving
  <1>3. Exclusive'
    BY DEF ReplaceLists, controller, served, Config, Matcher, NoMatcher, SettingsInv,
           TypeOK, Exclusive, Carried, Workers, Saving
  <1>4. \A x \in Savers : Progress(pc'[x], req'[x], stored', config', revision', current')
    BY DEF ReplaceLists, controller, served, Config, Matcher, NoMatcher, SettingsInv,
           TypeOK, Exclusive, Carried, Progress, Workers, Saving
  <1>5. SettingsDurable'
    BY DEF ReplaceLists, controller, served, Config, Matcher, NoMatcher, SettingsInv,
           TypeOK, SettingsDurable, Exclusive, Workers, Saving
  <1>6. ~up' => \A x \in Workers : pc'[x] = "idle"
    BY DEF ReplaceLists, controller, served, Config, Matcher, NoMatcher, SettingsInv,
           TypeOK, Workers, Saving
  <1> QED
    BY <1>1, <1>2, <1>3, <1>4, <1>5, <1>6 DEF SettingsInv

\* The lists change at their source.
LEMMA ContentsStep ==
    ASSUME SettingsInv, ContentsChange
    PROVE  SettingsInv'
  <1> USE SettingsAssumption
  <1>1. TypeOK'
    BY DEF ContentsChange, controller, served, Config, Matcher, NoMatcher,
           SettingsInv, TypeOK
  <1>2. Carried'
    BY DEF ContentsChange, controller, served, Config, Matcher, NoMatcher,
           SettingsInv, TypeOK, Carried, Workers, Saving
  <1>3. Exclusive'
    BY DEF ContentsChange, controller, served, Config, Matcher, NoMatcher,
           SettingsInv, TypeOK, Exclusive, Carried, Workers, Saving
  <1>4. \A x \in Savers : Progress(pc'[x], req'[x], stored', config', revision', current')
    BY DEF ContentsChange, controller, served, Config, Matcher, NoMatcher,
           SettingsInv, TypeOK, Exclusive, Carried, Progress, Workers, Saving
  <1>5. SettingsDurable'
    BY DEF ContentsChange, controller, served, Config, Matcher, NoMatcher,
           SettingsInv, TypeOK, SettingsDurable, Exclusive, Workers, Saving
  <1>6. ~up' => \A x \in Workers : pc'[x] = "idle"
    BY DEF ContentsChange, controller, served, Config, Matcher, NoMatcher,
           SettingsInv, TypeOK, Workers, Saving
  <1> QED
    BY <1>1, <1>2, <1>3, <1>4, <1>5, <1>6 DEF SettingsInv

\* A crash keeps the row.
LEMMA CrashStep ==
    ASSUME SettingsInv, Crash
    PROVE  SettingsInv'
  <1> USE SettingsAssumption
  <1>1. TypeOK'
    BY DEF Crash, controller, served, Config, Matcher, NoMatcher, NoRequest,
           SettingsInv, TypeOK
  <1>2. Carried'
    BY DEF Crash, controller, served, Config, Matcher, NoMatcher, NoRequest,
           SettingsInv, TypeOK, Carried, Workers, Saving
  <1>3. Exclusive'
    BY DEF Crash, controller, served, Config, Matcher, NoMatcher, NoRequest,
           SettingsInv, TypeOK, Exclusive, Carried, Workers, Saving
  <1>4. \A x \in Savers : Progress(pc'[x], req'[x], stored', config', revision', current')
    BY DEF Crash, controller, served, Config, Matcher, NoMatcher, NoRequest,
           SettingsInv, TypeOK, Exclusive, Carried, Progress, Workers, Saving
  <1>5. SettingsDurable'
    BY DEF Crash, controller, served, Config, Matcher, NoMatcher, NoRequest,
           SettingsInv, TypeOK, SettingsDurable, Exclusive, Workers, Saving
  <1>6. ~up' => \A x \in Workers : pc'[x] = "idle"
    BY DEF Crash, controller, served, Config, Matcher, NoMatcher, NoRequest,
           SettingsInv, TypeOK, Workers, Saving
  <1> QED
    BY <1>1, <1>2, <1>3, <1>4, <1>5, <1>6 DEF SettingsInv

\* A start takes over the row.
LEMMA StartStep ==
    ASSUME SettingsInv, Start
    PROVE  SettingsInv'
  <1> USE SettingsAssumption
  <1>1. TypeOK'
    BY DEF Start, Loaded, controller, served, Config, Matcher, NoMatcher,
           SettingsInv, TypeOK
  <1>2. Carried'
    BY DEF Start, Loaded, controller, served, Config, Matcher, NoMatcher,
           SettingsInv, TypeOK, Carried, Workers, Saving
  <1>3. Exclusive'
    BY DEF Start, Loaded, controller, served, Config, Matcher, NoMatcher,
           SettingsInv, TypeOK, Exclusive, Carried, Workers, Saving
  <1>4. \A x \in Savers : Progress(pc'[x], req'[x], stored', config', revision', current')
    BY DEF Start, Loaded, controller, served, Config, Matcher, NoMatcher,
           SettingsInv, TypeOK, Exclusive, Carried, Progress, Workers, Saving
  <1>5. SettingsDurable'
    BY DEF Start, Loaded, controller, served, Config, Matcher, NoMatcher,
           SettingsInv, TypeOK, SettingsDurable, Exclusive, Workers, Saving
  <1>6. ~up' => \A x \in Workers : pc'[x] = "idle"
    BY DEF Start, Loaded, controller, served, Config, Matcher, NoMatcher,
           SettingsInv, TypeOK, Workers, Saving
  <1> QED
    BY <1>1, <1>2, <1>3, <1>4, <1>5, <1>6 DEF SettingsInv

--------------------------------------------------------------------------------

\* Every step keeps the inductive invariant.
LEMMA SettingsStep == SettingsInv /\ [Next]_vars => SettingsInv'
  <1> SUFFICES ASSUME SettingsInv, [Next]_vars PROVE SettingsInv'
    OBVIOUS
  <1>1. ASSUME NEW s \in Savers, Submit(s) PROVE SettingsInv'
    BY <1>1, SubmitStep
  <1>2. ASSUME NEW s \in Savers, Save(s) PROVE SettingsInv'
    BY <1>2, LockStep, PrepareStep, PersistStep, FailStep, PublishOptionsStep,
       PublishListsStep DEF Save
  <1>3. ASSUME NEW w \in Reloaders, BeginReload(w) \/ Load(w) \/ ReplaceLists(w)
        PROVE  SettingsInv'
    BY <1>3, BeginReloadStep, LoadListsStep, LoadFailsStep, ReplaceListsStep DEF Load
  <1>4. CASE ContentsChange
    BY <1>4, ContentsStep
  <1>5. CASE Crash
    BY <1>5, CrashStep
  <1>6. CASE Start
    BY <1>6, StartStep
  <1>7. CASE UNCHANGED vars
    BY <1>7 DEF vars, controller, served, SettingsInv, TypeOK, Carried, Exclusive,
                Progress, SettingsDurable, Config
  <1> QED
    BY <1>1, <1>2, <1>3, <1>4, <1>5, <1>6, <1>7 DEF Next

\* The inductive invariant holds throughout.
LEMMA SettingsInvariant == Spec => []SettingsInv
  BY SettingsInit, SettingsStep, PTL DEF Spec

\* Every variable keeps its type: a save in flight carries a request, and the
\* matcher in force is always one that was really loaded.
THEOREM TypeCorrect == Spec => []TypeOK
  <1>1. SettingsInv => TypeOK
    BY DEF SettingsInv
  <1> QED
    BY <1>1, SettingsInvariant, PTL

\* While no save holds mu, the process runs with the stored settings, whatever
\* failed before and whenever the process was stopped.
THEOREM SettingsAreDurable == Spec => []SettingsDurable
  <1>1. SettingsInv => SettingsDurable
    BY DEF SettingsInv
  <1> QED
    BY <1>1, SettingsInvariant, PTL

\* The row changes by one save only, which knew the revision it replaces.
THEOREM StaleSavesAreRejected == Spec => StaleSavesRejected
  <1> DEFINE Known == stored' # stored =>
           \E s \in Savers :
               /\ pc'[s] # pc[s]
               /\ req[s].expected = stored.revision
               /\ stored'.revision = stored.revision + 1
               /\ stored'.config = req[s].config
  <1>1. SettingsInv /\ [Next]_vars => [Known]_vars
    <2> SUFFICES ASSUME SettingsInv, Next, stored' # stored
                 PROVE  \E s \in Savers :
                            /\ pc'[s] # pc[s]
                            /\ req[s].expected = stored.revision
                            /\ stored'.revision = stored.revision + 1
                            /\ stored'.config = req[s].config
      BY DEF vars
    <2>1. PICK s \in Savers : Persist(s)
      BY DEF Next, Submit, Save, Lock, Prepare, Fail, PublishOptions, PublishLists,
             BeginReload, Load, LoadLists, LoadFails, ReplaceLists, ContentsChange,
             Crash, Start
    <2>2. pc'[s] # pc[s]
      BY <2>1 DEF Persist, SettingsInv, TypeOK, Workers
    <2>3. req[s].expected = revision /\ stored.revision = revision
      BY <2>1 DEF Persist, SettingsInv, Progress, Saving
    <2> QED
      BY <2>1, <2>2, <2>3 DEF Persist
  <1> QED
    BY <1>1, SettingsInvariant, PTL DEF Spec, StaleSavesRejected

--------------------------------------------------------------------------------
(* What SettingsControl promises: SavedSettings.                               *)

\* A save that is done, or is over, leaves the promise as it is.
LEMMA SaveKeepsPromise ==
    ASSUME SettingsInv, NEW s \in Savers, Save(s)
    PROVE  [Promise!Next]_(Promise!vars)
  <1> USE DEF controller, served, Promise!vars
  <1>1. CASE Lock(s) \/ Prepare(s) \/ Fail(s)
    BY <1>1 DEF Lock, Prepare, Fail
  <1>2. CASE Persist(s)
    <2>1. stored = [config |-> config, revision |-> revision] /\ current = config.options
      BY <1>2 DEF Persist, SettingsInv, Progress
    <2>2. req[s].config \in Config
      BY <1>2 DEF Persist, SettingsInv, Carried, Request
    <2>3. Promise!Save(req[s].config)
      BY <1>2, <2>1 DEF Persist, Promise!Save, Promise!InEffect
    <2> QED
      BY <2>2, <2>3 DEF Promise!Next
  <1>3. CASE PublishOptions(s)
    <2>1. stored.config = req[s].config
      BY <1>3 DEF PublishOptions, SettingsInv, Progress
    <2>2. Promise!Apply
      BY <1>3, <2>1 DEF PublishOptions, Promise!Apply
    <2> QED
      BY <2>2 DEF Promise!Next
  <1>4. CASE PublishLists(s)
    <2>1. /\ stored = [config |-> req[s].config, revision |-> revision + 1]
          /\ current = stored.config.options
      BY <1>4 DEF PublishLists, SettingsInv, Progress
    <2>2. Promise!Show
      BY <1>4, <2>1 DEF PublishLists, Promise!Show, Promise!InEffect
    <2> QED
      BY <2>2 DEF Promise!Next
  <1> QED
    BY <1>1, <1>2, <1>3, <1>4 DEF Save

\* Every step keeps the promise or does not touch what it is about.
LEMMA StepKeepsPromise ==
    SettingsInv /\ [Next]_vars => [Promise!Next]_(Promise!vars)
  <1> SUFFICES ASSUME SettingsInv, [Next]_vars
               PROVE  [Promise!Next]_(Promise!vars)
    OBVIOUS
  <1>1. ASSUME NEW s \in Savers, Submit(s) PROVE UNCHANGED Promise!vars
    BY <1>1 DEF Submit, controller, served, Promise!vars
  <1>2. ASSUME NEW s \in Savers, Save(s) PROVE [Promise!Next]_(Promise!vars)
    BY <1>2, SaveKeepsPromise
  <1>3. ASSUME NEW w \in Reloaders, BeginReload(w) \/ Load(w) \/ ReplaceLists(w)
        PROVE  UNCHANGED Promise!vars
    BY <1>3 DEF BeginReload, Load, LoadLists, LoadFails, ReplaceLists, controller, served,
                Promise!vars
  <1>4. CASE ContentsChange \/ Crash \/ UNCHANGED vars
    BY <1>4 DEF ContentsChange, Crash, vars, controller, served, Promise!vars
  <1>5. CASE Start
    <2>1. stored = [config |-> stored.config, revision |-> stored.revision]
      BY DEF SettingsInv, TypeOK
    <2>2. Promise!Restart
      BY <1>5, <2>1 DEF Start, Promise!Restart
    <2> QED
      BY <2>2 DEF Promise!Next
  <1> QED
    BY <1>1, <1>2, <1>3, <1>4, <1>5 DEF Next

\* Saves follow each other, each over what its author was shown and what is in
\* effect; a restart takes over all that was saved.
THEOREM SavedIsRefined == Spec => RefinesSaved
  <1>1. Init => Promise!Init
    BY DEF Init, Promise!Init
  <1> QED
    BY <1>1, StepKeepsPromise, SettingsInvariant, PTL DEF Spec, RefinesSaved, Promise!Safety

--------------------------------------------------------------------------------
(* Which lists are in force.                                                   *)

\* What a save that is past its preparation does about the lists.
Chosen(s) ==
    pc[s] \in {"prepared", "persisted", "published"} =>
        /\ built[s] = NoMatcher => req[s].config.lists = config.lists
        /\ built[s] # NoMatcher => built[s].lists = req[s].config.lists
ListsInv == SettingsInv /\ \A s \in Savers : Chosen(s)

\* Lists that were loaded are not "no lists".
LEMMA LoadedIsMatcher ==
    ASSUME NEW lists
    PROVE  Loaded(lists) # NoMatcher
  <1>1. DOMAIN Loaded(lists) = {"lists", "contents"}
    BY DEF Loaded
  <1>2. DOMAIN NoMatcher = {"lists"}
    BY DEF NoMatcher
  <1> QED
    BY <1>1, <1>2

LEMMA ListsStep == ListsInv /\ [Next]_vars => ListsInv'
  <1> SUFFICES ASSUME ListsInv, [Next]_vars, NEW x \in Savers
               PROVE  Chosen(x)'
    BY SettingsStep DEF ListsInv
  <1> USE SettingsAssumption DEF ListsInv, Chosen, controller, served
  <1>0. /\ DOMAIN pc = Workers /\ DOMAIN built = Workers /\ DOMAIN req = Savers
        /\ x \in Workers
    BY DEF SettingsInv, TypeOK, Workers
  <1>1. ASSUME NEW s \in Savers, Submit(s) PROVE Chosen(x)'
    BY <1>0, <1>1 DEF Submit, SettingsInv, TypeOK, Workers
  <1>2. ASSUME NEW s \in Savers, Lock(s) \/ Persist(s) \/ Fail(s) \/ PublishOptions(s)
        PROVE  Chosen(x)'
    BY <1>0, <1>2 DEF Lock, Persist, Fail, Finish, PublishOptions, SettingsInv, TypeOK, Workers
  <1>3. ASSUME NEW s \in Savers, Prepare(s) PROVE Chosen(x)'
    <2>1. CASE x = s
      <3>1. /\ built'[s] = IF req[s].config.lists # config.lists
                           THEN Loaded(req[s].config.lists) ELSE NoMatcher
            /\ req' = req /\ config' = config
        BY <1>0, <1>3 DEF Prepare, SettingsInv, TypeOK, Workers
      <3>2. Loaded(req[s].config.lists).lists = req[s].config.lists
        BY DEF Loaded
      <3> QED
        BY <2>1, <3>1, <3>2, LoadedIsMatcher
    <2>2. CASE x # s
      BY <1>0, <1>3, <2>2 DEF Prepare, SettingsInv, TypeOK, Workers
    <2> QED
      BY <2>1, <2>2
  <1>4. ASSUME NEW s \in Savers, PublishLists(s) PROVE Chosen(x)'
    <2>1. CASE x = s
      BY <1>0, <1>4, <2>1 DEF PublishLists, Finish, SettingsInv, TypeOK, Workers
    <2>2. CASE x # s
      <3>1. mu = s
        BY <1>4 DEF PublishLists, SettingsInv, Exclusive, Saving
      <3>2. ~Saving(pc[x]) /\ pc'[x] = pc[x]
        BY <1>0, <1>4, <2>2, <3>1 DEF PublishLists, Finish, SettingsInv, TypeOK, Exclusive, Workers
      <3> QED
        BY <3>2 DEF Saving
    <2> QED
      BY <2>1, <2>2
  <1>5. ASSUME NEW w \in Reloaders, BeginReload(w) \/ Load(w) \/ ReplaceLists(w)
        PROVE  Chosen(x)'
    <2>1. x # w
      BY <1>5
    <2> QED
      BY <1>0, <1>5, <2>1 DEF BeginReload, Load, LoadLists, LoadFails, ReplaceLists, SettingsInv, TypeOK, Workers
  <1>6. CASE ContentsChange \/ UNCHANGED vars
    BY <1>6 DEF ContentsChange, vars
  <1>7. CASE Crash
    BY <1>0, <1>7 DEF Crash
  <1>8. CASE Start
    <2>1. pc[x] = "idle"
      BY <1>0, <1>8 DEF Start, SettingsInv
    <2> QED
      BY <2>1, <1>8 DEF Start
  <1> QED
    BY <1>1, <1>2, <1>3, <1>4, <1>5, <1>6, <1>7, <1>8 DEF Next, Save

LEMMA ListsInvariant == Spec => []ListsInv
  <1>1. Init => ListsInv
    BY SettingsInit DEF Init, ListsInv, Chosen, Workers
  <1> QED
    BY <1>1, ListsStep, PTL DEF Spec

\* Only a reload that began before a save puts the lists of replaced settings in
\* force; where it compared its copy with the settings again, nothing would.
THEOREM OnlyLateReloads == Spec => OnlyLateReloadsUnsettle
  <1> DEFINE ByReload == Settled /\ ~Settled' =>
           \E w \in Reloaders :
               /\ pc[w] = "loaded"
               /\ built[w].lists # config.lists
               /\ blocks' = built[w]
  <1>1. ListsInv /\ [Next]_vars => [ByReload]_vars
    <2> SUFFICES ASSUME ListsInv, Next, Settled, ~Settled'
                 PROVE  \E w \in Reloaders :
                            /\ pc[w] = "loaded"
                            /\ built[w].lists # config.lists
                            /\ blocks' = built[w]
      OBVIOUS
    <2> USE DEF Settled, controller, served
    <2>1. ASSUME NEW s \in Savers, PublishLists(s) PROVE Settled'
      <3>1. CASE built[s] = NoMatcher
        BY <2>1, <3>1 DEF PublishLists, ListsInv, Chosen
      <3>2. CASE built[s] # NoMatcher
        BY <2>1, <3>2 DEF PublishLists, ListsInv, Chosen
      <3> QED
        BY <3>1, <3>2
    <2>2. ASSUME Start PROVE Settled'
      BY <2>2 DEF Start, Loaded
    <2>3. PICK w \in Reloaders : ReplaceLists(w)
      BY <2>1, <2>2 DEF Next, Submit, Save, Lock, Prepare, Persist, Fail, PublishOptions,
         BeginReload, Load, LoadLists, LoadFails, ContentsChange, Crash
    <2> QED
      BY <2>3 DEF ReplaceLists
  <1> QED
    BY <1>1, ListsInvariant, PTL DEF Spec, OnlyLateReloadsUnsettle
================================================================================
