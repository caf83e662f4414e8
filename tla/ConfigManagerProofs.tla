------------------------- MODULE ConfigManagerProofs -------------------------
(***************************************************************************)
(* Theorems about ConfigManager.tla and ConfigWatch.tla, for any number of *)
(* clients, files, presets, binaries and texts, and every capacity of the  *)
(* command channel.                                                        *)
(***************************************************************************)
EXTENDS ConfigWatch, TLAPS

LEMMA PathMembers ==
  /\ \A f \in UserFile : User(f) \in Path
  /\ SafeFile \in Path
  /\ \A p \in Preset \cup {None} : Backup(p) \in Path
BY DEF Path

LEMMA IdleJobType == IdleJob \in Job
BY PathMembers DEF IdleJob, Job, Request

(* A request moves its own client, to a job of the right type.             *)
LEMMA ClientMoves ==
  ASSUME ConfigTypeOK, NEW c \in Client, NEW job \in Job,
         client' = [client EXCEPT ![c] = job]
  PROVE  client' \in [Client -> Job]
BY DEF ConfigTypeOK

LEMMA GoesType ==
  ASSUME ConfigTypeOK, NEW c \in Client,
         NEW place \in {"Idle", "Checking", "BackingUp", "Activating", "Pointing",
                        "Sending"},
         Goes(c, place)
  PROVE  client' \in [Client -> Job]
<1>1. [client[c] EXCEPT !.at = place] \in Job
  BY DEF ConfigTypeOK, Job
<1>2. QED
  BY <1>1, ClientMoves DEF Goes

LEMMA EndsType ==
  ASSUME ConfigTypeOK, NEW c \in Client, Ends(c)
  PROVE  client' \in [Client -> Job]
BY IdleJobType, ClientMoves DEF Ends

LEMMA ValidateType ==
  ASSUME ConfigTypeOK, NEW c \in Client, NEW what \in Request, NEW path \in Path,
         NEW preset \in Preset \cup {None}, NEW bin \in Binary \cup {NoBinary, None},
         NEW args \in Arguments \cup {None},
         Validate(c, what, path, preset, bin, args)
  PROVE  client' \in [Client -> Job]
<1>1. [at |-> "Checking", what |-> what, path |-> path, preset |-> preset,
       bin |-> bin, args |-> args] \in Job
  BY DEF Job
<1>2. QED
  BY <1>1, ClientMoves DEF Validate

LEMMA SafeConfigType ==
  ASSUME ConfigTypeOK, NEW c \in Client, ValidateSafeConfig(c)
  PROVE  text' \in [Path -> Text \cup {None}] /\ client' \in [Client -> Job]
<1>1. text' \in [Path -> Text \cup {None}]
  BY ConfigAssumption DEF ValidateSafeConfig, ConfigTypeOK
<1>2. client' \in [Client -> Job]
  BY PathMembers, ValidateType, EndsType DEF ValidateSafeConfig, Request
<1>3. QED
  BY <1>1, <1>2

LEMMA SetTargetType ==
  ASSUME NEW target \in Target, NEW job \in Job
  PROVE  SetTarget(target, job) \in Target
BY DEF SetTarget, Target, Job

LEMMA StopChildType ==
  ASSUME ConfigTypeOK, StopChild, restarts' \in 0..RestartCap
  PROVE  ConfigTypeOK'
BY DEF ConfigTypeOK, StopChild

LEMMA InitType == ConfigInit => ConfigTypeOK
<1> SUFFICES ASSUME ConfigInit PROVE ConfigTypeOK
  OBVIOUS
<1> DEFINE target == [cfg |-> SafeFile, bin |-> DefaultBinary,
                      args |-> NoArguments, vetted |-> FALSE]
<1>1. target \in Target
  BY PathMembers, ConfigAssumption DEF Target
<1>2. text \in [Path -> Text \cup {None}]
  <2>1. PICK t \in [UserFile -> Text \ {Truncated}] :
          text = [path \in Path |->
                    IF \E f \in UserFile : path = User(f)
                    THEN t[CHOOSE f \in UserFile : path = User(f)]
                    ELSE IF path = SafeFile THEN SafeText ELSE None]
    BY DEF ConfigInit
  <2>2. ASSUME NEW path \in Path, \E f \in UserFile : path = User(f)
        PROVE  t[CHOOSE f \in UserFile : path = User(f)] \in Text
    BY <2>2
  <2>3. QED
    BY <2>1, <2>2, ConfigAssumption
<1>3. active \in Active
  BY <1>1 DEF ConfigInit, Active
<1>4. client \in [Client -> Job]
  BY IdleJobType DEF ConfigInit
<1>5. spawner \in [at : {"Idle", "Stopping", "Spawning"}, target : Target]
  BY <1>1 DEF ConfigInit
<1>6. restarts \in 0..RestartCap
  BY ConfigAssumption DEF ConfigInit
<1>7. QED
  BY <1>1, <1>2, <1>3, <1>4, <1>5, <1>6 DEF ConfigInit, ConfigTypeOK

LEMMA ServeType ==
  ASSUME ConfigTypeOK, NEW c \in Client, Serve(c)
  PROVE  ConfigTypeOK'
<1>1. client[c] \in Job
  BY DEF ConfigTypeOK
<1>2. CASE ApplyPath(c)
  <2>1. PICK f \in UserFile : Validate(c, "Apply", User(f), None, None, None)
    BY <1>2 DEF ApplyPath
  <2>2. client' \in [Client -> Job]
    BY <2>1, PathMembers, ValidateType DEF Request
  <2>3. QED
    BY <1>2, <2>2 DEF ApplyPath, ConfigTypeOK
<1>3. CASE SwitchPreset(c)
  <2>1. PICK p \in Preset :
          Validate(c, "Switch", User(Definition[p].config), p, Definition[p].bin,
                   Definition[p].args)
    BY <1>3 DEF SwitchPreset
  <2>2. /\ User(Definition[p].config) \in Path
        /\ Definition[p].bin \in Binary \cup {NoBinary, None}
        /\ Definition[p].args \in Arguments
    BY ConfigAssumption, PathMembers
  <2>3. client' \in [Client -> Job]
    BY <2>1, <2>2, ValidateType DEF Request
  <2>4. QED
    BY <1>3, <2>3 DEF SwitchPreset, ConfigTypeOK
<1>4. CASE ApplySafeConfig(c)
  BY <1>4, SafeConfigType DEF ApplySafeConfig, ConfigTypeOK
<1>5. CASE RollbackToBackup(c)
  <2>1. active.backup \in Path
    BY <1>5 DEF RollbackToBackup, BackupFit, ConfigTypeOK, Active
  <2>2. client' \in [Client -> Job]
    BY <1>5, <2>1, ValidateType DEF RollbackToBackup, Request
  <2>3. QED
    BY <1>5, <2>2 DEF RollbackToBackup, ConfigTypeOK
<1>6. CASE RollbackToSafe(c)
  BY <1>6, SafeConfigType DEF RollbackToSafe, ConfigTypeOK
<1>7. CASE CheckPasses(c)
  BY <1>7, GoesType DEF CheckPasses, ConfigTypeOK
<1>8. CASE CheckFails(c)
  <2>1. text' \in [Path -> Text \cup {None}] /\ client' \in [Client -> Job]
    BY <1>8, SafeConfigType, EndsType DEF CheckFails, ConfigTypeOK
  <2>2. QED
    BY <1>8, <2>1 DEF CheckFails, ConfigTypeOK
<1>9. CASE BackUp(c)
  <2>1. Copied(client[c].path, Backup(client[c].preset)) \in Text \cup {None}
    BY <1>1, ConfigAssumption DEF Copied, ConfigTypeOK, Job
  <2>2. text' \in [Path -> Text \cup {None}]
    BY <1>9, <2>1 DEF BackUp, ConfigTypeOK
  <2>3. QED
    BY <1>9, <2>2, GoesType DEF BackUp, ConfigTypeOK
<1>10. CASE BackUpFails(c)
  <2>1. Backup(client[c].preset) \in Path
    BY <1>1, PathMembers DEF Job
  <2>2. text' \in [Path -> Text \cup {None}]
    BY <1>10, <2>1, ConfigAssumption DEF BackUpFails, ConfigTypeOK
  <2>3. QED
    BY <1>10, <2>2, EndsType DEF BackUpFails, ConfigTypeOK
<1>11. CASE Activate(c)
  <2>1. active' = [active EXCEPT !.target = SetTarget(active.target, client[c]),
                                 !.preset = client[c].preset]
    BY <1>11 DEF Activate, ConfigTypeOK, Active
  <2>2. active' \in Active
    BY <1>1, <2>1, SetTargetType DEF ConfigTypeOK, Active, Job
  <2>3. QED
    BY <1>11, <2>2, GoesType DEF Activate, ConfigTypeOK
<1>12. CASE Point(c)
  <2>1. Backup(client[c].preset) \in Path
    BY <1>1, PathMembers DEF Job
  <2>2. active' \in Active
    BY <1>12, <2>1 DEF Point, ConfigTypeOK, Active
  <2>3. QED
    BY <1>12, <2>2, GoesType DEF Point, ConfigTypeOK
<1>13. CASE SendRestart(c)
  <2>1. restarts' \in 0..RestartCap
    BY <1>13, ConfigAssumption DEF SendRestart, ConfigTypeOK
  <2>2. QED
    BY <1>13, <2>1, EndsType DEF SendRestart, ConfigTypeOK
<1>14. QED
  BY <1>2, <1>3, <1>4, <1>5, <1>6, <1>7, <1>8, <1>9, <1>10, <1>11, <1>12, <1>13
     DEF Serve

LEMMA ConfigTypeStep ==
  ASSUME ConfigTypeOK, [ConfigNext]_config
  PROVE  ConfigTypeOK'
<1>1. CASE HandleRestart
  <2>1. restarts' \in 0..RestartCap
    BY <1>1, ConfigAssumption DEF HandleRestart, ConfigTypeOK
  <2>2. QED
    BY <1>1, <2>1, StopChildType DEF HandleRestart
<1>2. CASE Respawn
  BY <1>2, StopChildType DEF Respawn, ConfigTypeOK
<1>3. CASE ReadTarget
  BY <1>3 DEF ReadTarget, ConfigTypeOK, Active
<1>4. CASE Spawn
  BY <1>4 DEF Spawn, ConfigTypeOK
<1>5. CASE Edit
  <2>1. text' \in [Path -> Text \cup {None}]
    BY <1>5, ConfigAssumption DEF Edit, ConfigTypeOK
  <2>2. raced' \in BOOLEAN
    BY <1>5 DEF Edit, InFlight, UnderWay, ConfigTypeOK
  <2>3. QED
    BY <1>5, <2>1, <2>2 DEF Edit, ConfigTypeOK
<1>6. CASE Chmod
  <2>1. loose' \in SUBSET Path
    BY <1>6, PathMembers DEF Chmod, ConfigTypeOK
  <2>2. raced' \in BOOLEAN
    BY <1>6 DEF Chmod, InFlight, UnderWay, ConfigTypeOK
  <2>3. QED
    BY <1>6, <2>1, <2>2 DEF Chmod, ConfigTypeOK
<1>7. CASE UNCHANGED config
  BY <1>7 DEF config, ConfigTypeOK
<1>8. QED
  BY <1>1, <1>2, <1>3, <1>4, <1>5, <1>6, <1>7, ServeType DEF ConfigNext

(* Files, requests, the active config and the target spawned are of their  *)
(* types, and the command channel is never over its capacity.              *)
THEOREM ConfigTypeCorrect == ConfigSpec => []ConfigTypeOK
BY ConfigTypeStep, InitType, PTL DEF ConfigSpec

-----------------------------------------------------------------------------
(* A restart is on its way: queued, or about to be sent by a request that  *)
(* has changed the target.                                                 *)
Pending ==
  \/ restarts > 0
  \/ \E c \in Client : client[c].at \in {"Pointing", "Sending"}

(* Whatever is spawned is the active target, unless a restart is on its    *)
(* way; a spawn that has read its target is covered by a later restart.    *)
Following ==
  \/ Pending
  \/ /\ running \in {active.target, None}
     /\ spawner.at = "Spawning" => spawner.target = active.target

(* The steps of a request that change neither the target nor the kanata    *)
(* that runs, and do not move a client from Pointing or Sending.           *)
LEMMA KeepsFollowing ==
  ASSUME ConfigTypeOK, Following, NEW c \in Client, NEW job,
         client' = [client EXCEPT ![c] = job],
         client[c].at \notin {"Pointing", "Sending"},
         UNCHANGED <<active, restarts, spawner, running>>
  PROVE  Following'
BY DEF Following, Pending, ConfigTypeOK

LEMMA ServeFollows ==
  ASSUME ConfigTypeOK, Following, NEW c \in Client, Serve(c)
  PROVE  Following'
<1>1. CASE \/ ApplyPath(c) \/ SwitchPreset(c) \/ ApplySafeConfig(c)
           \/ RollbackToBackup(c) \/ RollbackToSafe(c)
  <2>1. /\ client[c].at = "Idle"
        /\ \E job : client' = [client EXCEPT ![c] = job]
        /\ UNCHANGED <<active, restarts, spawner, running>>
    BY <1>1 DEF ApplyPath, SwitchPreset, ApplySafeConfig, RollbackToBackup,
                RollbackToSafe, Starts, ValidateSafeConfig, Validate, Ends
  <2>2. QED
    BY <2>1, KeepsFollowing
<1>2. CASE CheckPasses(c) \/ CheckFails(c) \/ BackUp(c) \/ BackUpFails(c)
  <2>1. /\ client[c].at \in {"Checking", "BackingUp"}
        /\ \E job : client' = [client EXCEPT ![c] = job]
        /\ UNCHANGED <<active, restarts, spawner, running>>
    BY <1>2 DEF CheckPasses, CheckFails, BackUp, BackUpFails, At, Goes, Ends,
                ValidateSafeConfig, Validate
  <2>2. QED
    BY <2>1, KeepsFollowing
<1>3. CASE Activate(c)
  <2>1. client'[c].at = "Pointing"
    BY <1>3 DEF Activate, Goes, ConfigTypeOK, Job
  <2>2. QED
    BY <2>1 DEF Following, Pending
<1>4. CASE Point(c)
  <2>1. client'[c].at = "Sending"
    BY <1>4 DEF Point, Goes, ConfigTypeOK, Job
  <2>2. QED
    BY <2>1 DEF Following, Pending
<1>5. CASE SendRestart(c)
  <2>1. restarts' > 0
    BY <1>5 DEF SendRestart, ConfigTypeOK
  <2>2. QED
    BY <2>1 DEF Following, Pending
<1>6. QED
  BY <1>1, <1>2, <1>3, <1>4, <1>5 DEF Serve

LEMMA FollowingStep ==
  ASSUME ConfigTypeOK, Following, [ConfigNext]_config
  PROVE  Following'
<1>1. CASE HandleRestart \/ Respawn
  <2>1. running' = None /\ spawner'.at = "Stopping"
    BY <1>1 DEF HandleRestart, Respawn, StopChild, ConfigTypeOK
  <2>2. QED
    BY <2>1 DEF Following
<1>2. CASE ReadTarget
  BY <1>2 DEF ReadTarget, Following, Pending
<1>3. CASE Spawn
  <2>1. spawner'.at = "Idle" /\ UNCHANGED <<active, client, restarts>>
    BY <1>3 DEF Spawn, ConfigTypeOK
  <2>2. running' \in {spawner.target, None} /\ spawner.at = "Spawning"
    BY <1>3 DEF Spawn
  <2>3. QED
    BY <2>1, <2>2 DEF Following, Pending
<1>4. CASE Edit \/ Chmod \/ UNCHANGED config
  <2>1. UNCHANGED <<active, client, restarts, spawner, running>>
    BY <1>4 DEF Edit, Chmod, config
  <2>2. QED
    BY <2>1 DEF Following, Pending
<1>5. QED
  BY <1>1, <1>2, <1>3, <1>4, ServeFollows DEF ConfigNext

(* Whoever else was switching, kanata ends up with the file, binary and    *)
(* arguments that count as active, or does not run.                        *)
THEOREM RunsWhatIsActiveHolds == ConfigSpec => []RunsWhatIsActive
<1>1. ConfigInit => Following
  BY DEF ConfigInit, Following
<1>2. ConfigTypeOK /\ Following => RunsWhatIsActive
  BY DEF Following, Pending, RunsWhatIsActive, Settled, UnderWay, ConfigTypeOK
<1>3. QED
  BY <1>1, <1>2, FollowingStep, ConfigTypeCorrect, PTL DEF ConfigSpec

-----------------------------------------------------------------------------
(* BackupOfActive needs requests that come one after the other: with two   *)
(* clients the two locks of commit() can cross.                            *)
OneClient == \A c, d \in Client : c = d

(* Between the two locks the request on its way says which backup is to    *)
(* come; at all other times the backup is of the active preset.            *)
BackupInv ==
  \/ active.backup \in {None, Backup(active.preset)}
  \/ \E c \in Client : At(c, "Pointing") /\ client[c].preset = active.preset

Pointed == \A c \in Client : At(c, "Pointing") => client[c].preset = active.preset

LEMMA BackupServe ==
  ASSUME OneClient, ConfigTypeOK, BackupInv, Pointed, NEW c \in Client, Serve(c)
  PROVE  BackupInv' /\ Pointed'
<1>1. \A d \in Client : d = c
  BY DEF OneClient
<1>2. CASE \/ ApplyPath(c) \/ SwitchPreset(c) \/ ApplySafeConfig(c)
           \/ RollbackToBackup(c) \/ RollbackToSafe(c)
           \/ CheckPasses(c) \/ CheckFails(c) \/ BackUp(c) \/ BackUpFails(c)
           \/ SendRestart(c)
  <2>1. active' = active /\ ~At(c, "Pointing")
    BY <1>2 DEF ApplyPath, SwitchPreset, ApplySafeConfig, RollbackToBackup,
                RollbackToSafe, Starts, CheckPasses, CheckFails, BackUp,
                BackUpFails, SendRestart, At
  <2>2. \E job : job.at # "Pointing" /\ client' = [client EXCEPT ![c] = job]
    BY <1>2 DEF ApplyPath, SwitchPreset, ApplySafeConfig, RollbackToBackup,
                RollbackToSafe, CheckPasses, CheckFails, BackUp, BackUpFails,
                SendRestart, ValidateSafeConfig, Validate, Goes, Ends, IdleJob,
                ConfigTypeOK, Job
  <2>3. ~At(c, "Pointing")'
    BY <2>2 DEF At, ConfigTypeOK
  <2>4. QED
    BY <1>1, <2>1, <2>3 DEF BackupInv, Pointed
<1>3. CASE Activate(c)
  <2>1. At(c, "Pointing")' /\ client'[c].preset = client[c].preset
    BY <1>3 DEF Activate, Goes, At, ConfigTypeOK, Job
  <2>2. active'.preset = client[c].preset
    BY <1>3 DEF Activate, ConfigTypeOK, Active
  <2>3. QED
    BY <1>1, <2>1, <2>2 DEF BackupInv, Pointed
<1>4. CASE Point(c)
  <2>1. ~At(c, "Pointing")'
    BY <1>4 DEF Point, Goes, At, ConfigTypeOK, Job
  <2>2. active'.backup = Backup(active'.preset)
    BY <1>4 DEF Point, Pointed, ConfigTypeOK, Active
  <2>3. QED
    BY <1>1, <2>1, <2>2 DEF BackupInv, Pointed
<1>5. QED
  BY <1>2, <1>3, <1>4 DEF Serve

LEMMA BackupStarts == ConfigInit => BackupInv /\ Pointed
BY DEF ConfigInit, BackupInv, Pointed, At, IdleJob

LEMMA BackupStep ==
  ASSUME OneClient, ConfigTypeOK, BackupInv, Pointed, [ConfigNext]_config
  PROVE  BackupInv' /\ Pointed'
<1>1. CASE \/ HandleRestart \/ Respawn \/ ReadTarget \/ Spawn
           \/ Edit \/ Chmod \/ UNCHANGED config
  <2>1. UNCHANGED <<active, client>>
    BY <1>1 DEF HandleRestart, Respawn, StopChild, ReadTarget, Spawn, Edit, Chmod,
                config
  <2>2. QED
    BY <2>1 DEF BackupInv, Pointed, At
<1>2. QED
  BY <1>1, BackupServe DEF ConfigNext

LEMMA BackupIsActive == BackupInv => BackupOfActive
BY DEF BackupInv, BackupOfActive, Settled, UnderWay, At

(* A rollback goes back to a backup of the preset that is active, as long  *)
(* as one request is carried out at a time.                                *)
THEOREM BackupOfActiveHolds == OneClient => (ConfigSpec => []BackupOfActive)
<1> SUFFICES ASSUME OneClient PROVE ConfigSpec => []BackupOfActive
  OBVIOUS
<1>1. ConfigTypeOK /\ BackupInv /\ Pointed /\ [ConfigNext]_config => BackupInv' /\ Pointed'
  BY BackupStep
<1>2. QED
  BY <1>1, BackupStarts, BackupIsActive, ConfigTypeCorrect, PTL DEF ConfigSpec

-----------------------------------------------------------------------------
(* The watcher.  Where the files have several directories it misses edits  *)
(* (finding 3); in one directory it reports every one.                     *)
SharedDirectory == \A p, q \in Path : Directory[p] = Directory[q]

(* Kanata runs what the active config holds, or it would be refused.       *)
Loads ==
  \/ loaded = text[active.target.cfg]
  \/ ~Fit(active.target)
  \/ ~Passes(active.target)

(* Or a restart is on its way, or the watcher has yet to look.             *)
Reloads ==
  \/ Pending
  \/ WatcherAt("Sending") \/ WatcherAt("Debouncing")
  \/ WatcherAt("Checking") /\ watcher.target = active.target
  \/ active.target.cfg \in changes

WatchInv ==
  /\ WatchTypeOK
  /\ Following
  /\ running # None => spawner.at = "Idle"
  /\ running # None => Loads \/ Reloads

LEMMA WatchStarts == WatchInit => WatchInv
<1> SUFFICES ASSUME WatchInit PROVE WatchInv
  OBVIOUS
<1>1. ConfigTypeOK
  BY InitType DEF WatchInit
<1>2. text[SafeFile] = SafeText
  BY PathMembers DEF WatchInit, ConfigInit, SafeFile, User
<1>3. Loads /\ Following /\ spawner.at = "Idle"
  BY <1>2 DEF WatchInit, ConfigInit, Loads, Following
<1>4. WatchTypeOK
  BY <1>1, ConfigAssumption DEF WatchInit, WatchTypeOK, ConfigTypeOK, Active, Target
<1>5. QED
  BY <1>3, <1>4 DEF WatchInv

(* Where a kanata is spawned, and what it reads.                           *)
LEMMA SpawnLoads ==
  ASSUME ConfigTypeOK, Spawn, running' # None
  PROVE  /\ running' = spawner.target /\ spawner.at = "Spawning"
         /\ text[spawner.target.cfg] \in Text
BY ConfigAssumption DEF Spawn, Checked

LEMMA OthersDoNotSpawn ==
  ASSUME ConfigTypeOK, [ConfigNext]_config, ~Spawn
  PROVE  ~(spawner.at = "Spawning" /\ spawner'.at = "Idle")
<1>1. ASSUME NEW c \in Client, Serve(c) PROVE spawner' = spawner
  BY <1>1 DEF Serve, ApplyPath, SwitchPreset, ApplySafeConfig, RollbackToBackup,
     RollbackToSafe, CheckPasses, CheckFails, BackUp, BackUpFails, Activate, Point,
     SendRestart
<1>2. CASE HandleRestart \/ Respawn
  BY <1>2 DEF HandleRestart, Respawn
<1>3. CASE ReadTarget
  BY <1>3 DEF ReadTarget
<1>4. CASE Edit \/ Chmod \/ UNCHANGED config
  BY <1>4 DEF Edit, Chmod, config
<1>5. QED
  BY <1>1, <1>2, <1>3, <1>4 DEF ConfigNext

LEMMA WatchTypeStep ==
  ASSUME WatchTypeOK, [WatchNext]_watching
  PROVE  WatchTypeOK'
<1>1. ConfigTypeOK
  BY DEF WatchTypeOK
<1>2. active.target \in Target /\ Directory[active.target.cfg] \in {Directory[path] : path \in Path}
  BY <1>1 DEF ConfigTypeOK, Active, Target
<1>3. CASE ManagerStep
  <2>1. ConfigTypeOK'
    BY <1>1, <1>3, ConfigTypeStep DEF ManagerStep
  <2>2. changes' \in SUBSET Path
    BY <1>3 DEF ManagerStep, Reported, WatchTypeOK
  <2>3. loaded' \in Text
    <3>1. CASE Spawn
      BY <1>1, <1>3, <3>1, SpawnLoads DEF ManagerStep, WatchTypeOK
    <3>2. CASE ~Spawn
      BY <1>1, <1>3, <3>2, OthersDoNotSpawn DEF ManagerStep, WatchTypeOK
    <3>3. QED
      BY <3>1, <3>2
  <2>4. QED
    BY <1>3, <2>1, <2>2, <2>3 DEF ManagerStep, WatchTypeOK
<1>4. ASSUME UNCHANGED config PROVE ConfigTypeOK'
  BY <1>1, <1>4, ConfigTypeStep
<1>5. CASE IgnoreChange \/ NoticeChange \/ SwallowChanges
  <2>1. ConfigTypeOK'
    BY <1>4, <1>5 DEF IgnoreChange, NoticeChange, SwallowChanges
  <2>2. QED
    BY <1>5, <2>1
    DEF IgnoreChange, NoticeChange, SwallowChanges, WatcherGoes, WatchTypeOK
<1>6. CASE ReloadBegins
  <2>1. ConfigTypeOK'
    BY <1>4, <1>6 DEF ReloadBegins
  <2>2. QED
    BY <1>2, <1>6, <2>1 DEF ReloadBegins, WatcherGoes, Rearm, WatchTypeOK
<1>7. CASE ReloadPasses \/ ReloadRefused
  <2>1. ConfigTypeOK'
    BY <1>4, <1>7 DEF ReloadPasses, ReloadRefused
  <2>2. QED
    BY <1>7, <2>1 DEF ReloadPasses, ReloadRefused, WatcherGoes, WatchTypeOK
<1>8. CASE ReloadEnds
  <2>1. ConfigTypeOK' /\ active' = active
    BY <1>4, <1>8 DEF ReloadEnds, config
  <2>2. QED
    BY <1>2, <1>8, <2>1 DEF ReloadEnds, WatcherGoes, Rearm, WatchTypeOK
<1>9. CASE ReloadSends
  <2>1. restarts' \in 0..RestartCap
    BY <1>1, <1>9, ConfigAssumption DEF ReloadSends, ConfigTypeOK
  <2>2. ConfigTypeOK'
    BY <1>1, <1>9, <2>1 DEF ReloadSends, ConfigTypeOK
  <2>3. QED
    BY <1>2, <1>9, <2>2 DEF ReloadSends, WatcherGoes, Rearm, WatchTypeOK
<1>10. CASE UNCHANGED watching
  BY <1>1, <1>4, <1>10 DEF watching, watch, WatchTypeOK
<1>11. QED
  BY <1>3, <1>5, <1>6, <1>7, <1>8, <1>9, <1>10 DEF WatchNext

(* A request that changes what counts as active sends a restart, and no    *)
(* request withdraws one.                                                  *)
LEMMA RequestsRestart ==
  ASSUME ConfigTypeOK, NEW c \in Client, Serve(c),
         Pending \/ active' # active
  PROVE  Pending'
<1>1. CASE \/ ApplyPath(c) \/ SwitchPreset(c) \/ ApplySafeConfig(c)
           \/ RollbackToBackup(c) \/ RollbackToSafe(c)
           \/ CheckPasses(c) \/ CheckFails(c) \/ BackUp(c) \/ BackUpFails(c)
  <2>1. /\ client[c].at \notin {"Pointing", "Sending"}
        /\ \E job : client' = [client EXCEPT ![c] = job]
        /\ UNCHANGED <<active, restarts>>
    BY <1>1 DEF ApplyPath, SwitchPreset, ApplySafeConfig, RollbackToBackup,
       RollbackToSafe, Starts, CheckPasses, CheckFails, BackUp, BackUpFails, At,
       Goes, Ends, ValidateSafeConfig, Validate
  <2>2. QED
    BY <2>1 DEF Pending, ConfigTypeOK
<1>2. CASE Activate(c)
  <2>1. client'[c].at = "Pointing"
    BY <1>2 DEF Activate, Goes, ConfigTypeOK, Job
  <2>2. QED
    BY <2>1 DEF Pending
<1>3. CASE Point(c)
  <2>1. client'[c].at = "Sending"
    BY <1>3 DEF Point, Goes, ConfigTypeOK, Job
  <2>2. QED
    BY <2>1 DEF Pending
<1>4. CASE SendRestart(c)
  <2>1. restarts' > 0
    BY <1>4 DEF SendRestart, ConfigTypeOK
  <2>2. QED
    BY <2>1 DEF Pending
<1>5. QED
  BY <1>1, <1>2, <1>3, <1>4 DEF Serve

(* What reaches a file of the shared directory reaches the watcher.        *)
LEMMA EditsAreReported ==
  ASSUME SharedDirectory, WatchTypeOK, ManagerStep, NEW path \in Path,
         path \notin changes'
  PROVE  text'[path] = text[path] /\ (path \in loose' <=> path \in loose)
<1>1. Directory[path] = watched
  BY DEF SharedDirectory, WatchTypeOK
<1>2. ~Touched(path)
  BY <1>1 DEF ManagerStep, Reported
<1>3. QED
  BY <1>2 DEF Touched

LEMMA ManagerLoads ==
  ASSUME SharedDirectory, WatchInv, ManagerStep, running' # None
  PROVE  spawner'.at = "Idle" /\ (Loads' \/ Reloads')
<1>1. ConfigTypeOK /\ active.target.cfg \in Path
  BY DEF WatchInv, WatchTypeOK, ConfigTypeOK, Active, Target
<1>2. ConfigNext /\ watcher' = watcher /\ changes \subseteq changes'
  BY DEF ManagerStep
<1>3. CASE Spawn
  <2>1. running' = spawner.target /\ spawner.at = "Spawning"
    BY <1>1, <1>3, SpawnLoads
  <2>2. spawner'.at = "Idle" /\ UNCHANGED <<text, loose, active, client, restarts>>
    BY <1>1, <1>3 DEF Spawn, ConfigTypeOK
  <2>3. loaded' = text[spawner.target.cfg]
    BY <2>1, <2>2 DEF ManagerStep
  <2>4. Following'
    BY <1>1, <1>2, FollowingStep DEF WatchInv
  <2>5. CASE Pending'
    BY <2>2, <2>5 DEF Reloads
  <2>6. CASE running' = active'.target
    BY <2>1, <2>2, <2>3, <2>6 DEF Loads
  <2>7. QED
    BY <2>4, <2>5, <2>6 DEF Following
<1>4. CASE ~Spawn
  <2>1. loaded' = loaded
    BY <1>1, <1>2, <1>4, OthersDoNotSpawn DEF ManagerStep
  <2>2. ~HandleRestart /\ ~Respawn
    BY DEF HandleRestart, Respawn, StopChild
  <2>3. ~ReadTarget
    BY DEF ReadTarget, WatchInv
  <2>4. /\ UNCHANGED <<running, spawner>>
        /\ Pending \/ active' # active => Pending'
    <3>1. ASSUME NEW c \in Client, Serve(c) PROVE UNCHANGED <<running, spawner>>
      BY <3>1 DEF Serve, ApplyPath, SwitchPreset, ApplySafeConfig,
         RollbackToBackup, RollbackToSafe, CheckPasses, CheckFails, BackUp,
         BackUpFails, Activate, Point, SendRestart
    <3>2. CASE \E c \in Client : Serve(c)
      BY <1>1, <3>1, <3>2, RequestsRestart
    <3>3. CASE Edit \/ Chmod
      BY <3>3 DEF Edit, Chmod, Pending
    <3>4. QED
      BY <1>2, <1>4, <2>2, <2>3, <3>2, <3>3 DEF ConfigNext
  <2>5. spawner'.at = "Idle" /\ (Loads \/ Reloads)
    BY <2>4 DEF WatchInv
  <2>6. CASE Pending'
    BY <2>5, <2>6 DEF Reloads
  <2>7. CASE ~Pending'
    <3>1. active' = active /\ ~Pending
      BY <2>4, <2>7
    <3>2. CASE Reloads
      BY <1>2, <2>5, <3>1, <3>2 DEF Reloads, WatcherAt
    <3>3. CASE active.target.cfg \in changes'
      BY <2>5, <3>1, <3>3 DEF Reloads
    <3>4. CASE Loads /\ active.target.cfg \notin changes'
      <4>1. /\ text'[active.target.cfg] = text[active.target.cfg]
            /\ active.target.cfg \in loose' <=> active.target.cfg \in loose
        BY <1>1, <3>4, EditsAreReported DEF WatchInv
      <4>2. Loads'
        BY <2>1, <3>1, <3>4, <4>1 DEF Loads, Fit, Passes, Vetted, Checked
      <4>3. QED
        BY <2>5, <4>2
    <3>5. QED
      BY <2>5, <3>2, <3>3, <3>4
  <2>8. QED
    BY <2>6, <2>7
<1>5. QED
  BY <1>3, <1>4

(* The watcher looks at what it was told of, and restarts or leaves alone  *)
(* what would be refused.                                                  *)
LEMMA WatcherLoads ==
  ASSUME WatchInv, UNCHANGED config,
         \/ IgnoreChange \/ NoticeChange \/ SwallowChanges
         \/ ReloadBegins \/ ReloadPasses \/ ReloadRefused \/ ReloadEnds
  PROVE  running # None => Loads' \/ Reloads'
<1> SUFFICES ASSUME running # None PROVE Loads' \/ Reloads'
  OBVIOUS
<1> USE DEF Reloads, WatcherAt
<1>1. /\ UNCHANGED <<text, loose, active, client, restarts, loaded>>
      /\ Loads \/ Reloads
  BY DEF config, WatchInv, IgnoreChange, NoticeChange, SwallowChanges, ReloadBegins,
     ReloadPasses, ReloadRefused, ReloadEnds
<1>2. (Loads => Loads') /\ (Pending => Pending')
  BY <1>1 DEF Loads, Fit, Passes, Vetted, Checked, Pending
<1>3. \A place : WatcherGoes(place) => watcher'.at = place /\ watcher'.target = watcher.target
  BY DEF WatcherGoes, WatchInv, WatchTypeOK
<1>4. CASE IgnoreChange \/ SwallowChanges
  BY <1>1, <1>2, <1>4 DEF IgnoreChange, SwallowChanges
<1>5. CASE NoticeChange
  BY <1>3, <1>5 DEF NoticeChange
<1>6. CASE ReloadBegins
  BY <1>1, <1>2, <1>6 DEF ReloadBegins, Loads
<1>7. CASE ReloadPasses
  BY <1>3, <1>7 DEF ReloadPasses
<1>8. CASE ReloadRefused
  BY <1>1, <1>2, <1>3, <1>8 DEF ReloadRefused, Loads
<1>9. CASE ReloadEnds
  BY <1>1, <1>2, <1>9 DEF ReloadEnds
<1>10. QED
  BY <1>4, <1>5, <1>6, <1>7, <1>8, <1>9

LEMMA WatchStep ==
  ASSUME SharedDirectory, WatchInv, [WatchNext]_watching
  PROVE  WatchInv'
<1>1. WatchTypeOK'
  BY WatchTypeStep DEF WatchInv
<1>2. CASE ManagerStep
  <2>1. Following'
    BY <1>2, FollowingStep DEF ManagerStep, WatchInv, WatchTypeOK
  <2>2. QED
    BY <1>1, <1>2, <2>1, ManagerLoads DEF WatchInv
<1>3. ASSUME UNCHANGED config PROVE Following' /\ UNCHANGED <<running, spawner>>
  BY <1>3, FollowingStep DEF WatchInv, WatchTypeOK, config
<1>4. CASE \/ IgnoreChange \/ NoticeChange \/ SwallowChanges
           \/ ReloadBegins \/ ReloadPasses \/ ReloadRefused \/ ReloadEnds
  <2>1. UNCHANGED config
    BY <1>4 DEF IgnoreChange, NoticeChange, SwallowChanges, ReloadBegins,
       ReloadPasses, ReloadRefused, ReloadEnds
  <2>2. QED
    BY <1>1, <1>3, <1>4, <2>1, WatcherLoads DEF WatchInv
<1>5. CASE ReloadSends
  <2>1. restarts' > 0 /\ UNCHANGED <<running, spawner>>
    BY <1>5 DEF ReloadSends, WatchInv, WatchTypeOK, ConfigTypeOK
  <2>2. QED
    BY <1>1, <2>1 DEF WatchInv, Following, Reloads, Pending
<1>6. CASE UNCHANGED watching
  <2>1. UNCHANGED <<config, changes, watcher, loaded>>
    BY <1>6 DEF watching, watch
  <2>2. (Loads \/ Reloads) => (Loads' \/ Reloads')
    BY <2>1 DEF Loads, Reloads, Fit, Passes, Vetted, Checked, Pending, WatcherAt,
       config
  <2>3. QED
    BY <1>1, <1>3, <2>1, <2>2 DEF WatchInv
<1>7. QED
  BY <1>2, <1>4, <1>5, <1>6 DEF WatchNext

(* Types of the watcher, of its channel and of what kanata has loaded.     *)
THEOREM WatchTypeCorrect == WatchSpec => []WatchTypeOK
<1>1. WatchInit => WatchTypeOK
  BY WatchStarts DEF WatchInv
<1>2. QED
  BY <1>1, WatchTypeStep, PTL DEF WatchSpec

(* No edit of a file in a shared directory is missed, whatever requests,   *)
(* edits and checks cross it.                                              *)
THEOREM EditsAreLoadedHolds == SharedDirectory => (WatchSpec => []EditsAreLoaded)
<1> SUFFICES ASSUME SharedDirectory PROVE WatchSpec => []EditsAreLoaded
  OBVIOUS
<1>1. WatchInv => EditsAreLoaded
  BY DEF WatchInv, WatchTypeOK, ConfigTypeOK, EditsAreLoaded, Loads, Reloads,
     Pending, Settled, UnderWay, WatcherAt
<1>2. QED
  BY <1>1, WatchStarts, WatchStep, PTL DEF WatchSpec

-----------------------------------------------------------------------------
(* The watcher beside the requests: all it does to what they share is to   *)
(* queue a restart (configmgr.rs:405-437).                                 *)
LEMMA WatcherOnlyRestarts ==
  ASSUME [WatchNext]_watching
  PROVE  \/ [ConfigNext]_config
         \/ restarts' = restarts + 1
            /\ UNCHANGED <<text, loose, active, client, spawner, running, raced>>
<1>1. CASE ManagerStep
  BY <1>1 DEF ManagerStep
<1>2. CASE ReloadSends
  BY <1>2 DEF ReloadSends
<1>3. CASE UNCHANGED watching
  BY <1>3 DEF watching
<1>4. QED
  BY <1>1, <1>2, <1>3 DEF WatchNext, IgnoreChange, NoticeChange, SwallowChanges,
     ReloadBegins, ReloadPasses, ReloadRefused, ReloadEnds

(* However its reloads cross the requests, kanata runs what is active.     *)
THEOREM WatchedRunsWhatIsActive == WatchSpec => []RunsWhatIsActive
<1>1. WatchInit => Following
  BY DEF WatchInit, ConfigInit, Following
<1>2. WatchTypeOK /\ Following /\ [WatchNext]_watching => Following'
  <2> SUFFICES ASSUME ConfigTypeOK, Following, [WatchNext]_watching PROVE Following'
    BY DEF WatchTypeOK
  <2>1. CASE restarts' = restarts + 1
    BY <2>1 DEF Following, Pending, ConfigTypeOK
  <2>2. QED
    BY <2>1, WatcherOnlyRestarts, FollowingStep
<1>3. WatchTypeOK /\ Following => RunsWhatIsActive
  BY DEF WatchTypeOK, Following, Pending, RunsWhatIsActive, Settled, UnderWay, ConfigTypeOK
<1>4. QED
  BY <1>1, <1>2, <1>3, WatchTypeCorrect, PTL DEF WatchSpec

(* And none of them takes the backup of another preset for the active one. *)
THEOREM WatchedBackupOfActive == OneClient => (WatchSpec => []BackupOfActive)
<1> SUFFICES ASSUME OneClient PROVE WatchSpec => []BackupOfActive
  OBVIOUS
<1>1. WatchInit => BackupInv /\ Pointed
  BY BackupStarts DEF WatchInit
<1>2. WatchTypeOK /\ BackupInv /\ Pointed /\ [WatchNext]_watching => BackupInv' /\ Pointed'
  <2> SUFFICES ASSUME ConfigTypeOK, BackupInv, Pointed, [WatchNext]_watching
               PROVE  BackupInv' /\ Pointed'
    BY DEF WatchTypeOK
  <2>1. CASE UNCHANGED <<active, client>>
    BY <2>1 DEF BackupInv, Pointed, At
  <2>2. QED
    BY <2>1, WatcherOnlyRestarts, BackupStep
<1>3. QED
  BY <1>1, <1>2, BackupIsActive, WatchTypeCorrect, PTL DEF WatchSpec

-----------------------------------------------------------------------------
(* Where only presets are switched, each names its binary, and kanata is   *)
(* restarted for no other reason (without which findings 2, 6 and 7 apply).*)
SwitchesOnly ==
  /\ Requests = {"Switch"}
  /\ ~Respawns
  /\ \A p \in Preset : Definition[p].bin \in Binary /\ Definition[p].args = NoArguments

(* What a switch carries, from its first step to its last.                 *)
Switching(c) ==
  /\ client[c].what = "Switch"
  /\ \E f \in UserFile : client[c].path = User(f)
  /\ client[c].preset \in Preset
  /\ client[c].bin \in Binary
  /\ client[c].args = NoArguments

(* A target that the spawn will not refuse, and no backup overwrites.      *)
Spawnable(target) ==
  /\ \E f \in UserFile : target.cfg = User(f)
  /\ target.vetted => Vetted(target.cfg)
  /\ Checked(target.bin, target.args, target.cfg)

Accepted(c) ==
  /\ Vetted(client[c].path)
  /\ At(c, "Checking") \/ Checked(client[c].bin, NoArguments, client[c].path)

(* The restart that is queued, about to be sent or carried out.            *)
Restarting == Pending \/ spawner.at # "Idle"

Promised ==
  /\ \A c \in Client :
       client[c].at \in {"Checking", "BackingUp", "Activating"} => Accepted(c)
  /\ Restarting => Spawnable(active.target)
  /\ spawner.at = "Spawning" => Spawnable(spawner.target)
  /\ running # None \/ spawner.at # "Idle"

UpInv ==
  /\ \A c \in Client : ~At(c, "Idle") => Switching(c)
  /\ raced \/ Promised

(* What the requests and the spawner read stays as it is, unless the race  *)
(* is noticed.                                                             *)
LEMMA KeepsPromise ==
  ASSUME UpInv, ConfigTypeOK, UNCHANGED <<active, client, restarts, spawner, running>>,
         raced' \/ \A path \in Path :
           InFlight(path) => text'[path] = text[path] /\ (path \in loose' <=> path \in loose),
         raced => raced'
  PROVE  UpInv'
<1>1. (\A c \in Client : ~At(c, "Idle") => Switching(c))'
  BY DEF UpInv, At, Switching
<1>2. ASSUME ~raced' PROVE Promised'
  <2>1. Promised /\ \A path \in Path :
          InFlight(path) => text'[path] = text[path] /\ (path \in loose' <=> path \in loose)
    BY <1>2 DEF UpInv
  <2>2. ASSUME NEW c \in Client, client[c].at \in {"Checking", "BackingUp", "Activating"}
        PROVE  Accepted(c)'
    <3>1. InFlight(client[c].path) /\ client[c].path \in Path
      BY <2>2 DEF InFlight, UnderWay, ConfigTypeOK, Job
    <3>2. QED
      BY <2>1, <2>2, <3>1 DEF Promised, Accepted, Vetted, Checked, At
  <2>3. ASSUME Restarting PROVE Spawnable(active.target)'
    <3>1. InFlight(active.target.cfg) /\ active.target.cfg \in Path
      BY <2>3 DEF Restarting, Pending, InFlight, UnderWay, ConfigTypeOK, Active, Target
    <3>2. QED
      BY <2>1, <2>3, <3>1 DEF Promised, Spawnable, Vetted, Checked
  <2>4. ASSUME spawner.at = "Spawning" PROVE Spawnable(spawner.target)'
    <3>1. InFlight(spawner.target.cfg) /\ spawner.target.cfg \in Path
      BY <2>4 DEF InFlight, UnderWay, ConfigTypeOK, Target
    <3>2. QED
      BY <2>1, <2>4, <3>1 DEF Promised, Spawnable, Vetted, Checked
  <2>5. QED
    BY <2>1, <2>2, <2>3, <2>4 DEF Promised, Restarting, Pending
<1>3. QED
  BY <1>1, <1>2 DEF UpInv

LEMMA SwitchServe ==
  ASSUME SwitchesOnly, UpInv, ConfigTypeOK, NEW c \in Client, Serve(c)
  PROVE  UpInv'
<1>1. ~ApplyPath(c) /\ ~ApplySafeConfig(c) /\ ~RollbackToBackup(c) /\ ~RollbackToSafe(c)
  BY DEF SwitchesOnly, ApplyPath, ApplySafeConfig, RollbackToBackup, RollbackToSafe, Starts
<1>2. UNCHANGED <<loose, spawner, running, raced>>
  BY <1>1 DEF Serve, SwitchPreset, CheckPasses, CheckFails, BackUp, BackUpFails,
     Activate, Point, SendRestart
<1>3. ~At(c, "Idle") => Switching(c)
  BY DEF UpInv
<1>4. \A d \in Client \ {c} : client'[d] = client[d]
  BY <1>1, <1>3 DEF Serve, SwitchPreset, CheckPasses, CheckFails, BackUp, BackUpFails,
     Activate, Point, SendRestart, Validate, Goes, Ends, ConfigTypeOK, At, Switching
<1>5. \A f \in UserFile : text'[User(f)] = text[User(f)]
  <2>1. CASE BackUp(c) \/ BackUpFails(c)
    BY <2>1, PathMembers DEF BackUp, BackUpFails, User, Backup, ConfigTypeOK
  <2>2. CASE ~BackUp(c) /\ ~BackUpFails(c)
    BY <1>1, <1>3, <2>2 DEF Serve, SwitchPreset, CheckPasses, CheckFails, Activate,
       Point, SendRestart, At, Switching
  <2>3. QED
    BY <2>1, <2>2
<1>6. \A d \in Client \ {c} : (~At(d, "Idle"))' => Switching(d)'
  BY <1>4 DEF UpInv, At, Switching
<1>7. \A d \in Client \ {c} : Switching(d) /\ Accepted(d) => Accepted(d)'
  BY <1>2, <1>4, <1>5, PathMembers, ConfigAssumption
  DEF Switching, Accepted, Vetted, Checked, At
<1>8. \A target : Spawnable(target) => Spawnable(target)'
  BY <1>2, <1>5 DEF Spawnable, Vetted, Checked
<1>9. ASSUME Promised,
             Switching(c)' \/ At(c, "Idle")',
             (client[c].at \in {"Checking", "BackingUp", "Activating"})' => Accepted(c)',
             Restarting' => Spawnable(active.target)'
      PROVE  UpInv'
  <2>1. \A d \in Client \ {c} :
          (client[d].at \in {"Checking", "BackingUp", "Activating"})' => Accepted(d)'
    BY <1>4, <1>7, <1>9 DEF Promised, UpInv, At
  <2>2. Promised'
    BY <1>2, <1>8, <1>9, <2>1 DEF Promised
  <2>3. QED
    BY <1>6, <1>9, <2>2 DEF UpInv
<1>10. ASSUME Switching(c)' \/ At(c, "Idle")', raced
       PROVE  UpInv'
  BY <1>2, <1>6, <1>10 DEF UpInv
<1>11. CASE SwitchPreset(c)
  <2> PICK p \in Preset :
        /\ Vetted(User(Definition[p].config))
        /\ Validate(c, "Switch", User(Definition[p].config), p, Definition[p].bin,
                    Definition[p].args)
    BY <1>11 DEF SwitchPreset
  <2>1. /\ client'[c] = [at |-> "Checking", what |-> "Switch",
                         path |-> User(Definition[p].config), preset |-> p,
                         bin |-> Definition[p].bin, args |-> Definition[p].args]
        /\ UNCHANGED <<text, active, restarts>>
    BY <1>11 DEF SwitchPreset, Validate, ConfigTypeOK
  <2>2. Switching(c)'
    BY <2>1, ConfigAssumption DEF Switching, SwitchesOnly
  <2>3. Accepted(c)'
    BY <1>2, <2>1 DEF Accepted, Vetted, At
  <2>4. Restarting' => Restarting
    BY <1>2, <1>4, <2>1 DEF Restarting, Pending
  <2>5. Promised => (Restarting' => Spawnable(active.target)')
    BY <1>8, <2>1, <2>4 DEF Promised
  <2>6. QED
    BY <1>9, <1>10, <2>2, <2>3, <2>5 DEF UpInv
<1>12. CASE CheckPasses(c)
  <2>1. /\ client'[c] = [client[c] EXCEPT !.at = "BackingUp"]
        /\ At(c, "Checking") /\ UNCHANGED <<text, active, restarts>>
        /\ Checked(ResolveBin(client[c].bin), NoArguments, client[c].path)
    BY <1>12 DEF CheckPasses, Goes, ConfigTypeOK
  <2>2. Switching(c) /\ ResolveBin(client[c].bin) = client[c].bin
    BY <1>3, <2>1, ConfigAssumption DEF At, Switching, ResolveBin
  <2>3. Switching(c)' /\ (Promised => Accepted(c)')
    BY <1>2, <2>1, <2>2 DEF Switching, Accepted, Promised, At, Vetted, Checked, ConfigTypeOK, Job
  <2>4. Restarting' => Restarting
    BY <1>2, <1>4, <2>1 DEF Restarting, Pending, ConfigTypeOK, Job
  <2>5. Promised => (Restarting' => Spawnable(active.target)')
    BY <1>8, <2>1, <2>4 DEF Promised
  <2>6. QED
    BY <1>9, <1>10, <2>3, <2>5 DEF UpInv
<1>13. CASE CheckFails(c) \/ BackUpFails(c)
  <2>1. client'[c] = IdleJob /\ UNCHANGED <<active, restarts>>
    BY <1>3, <1>13 DEF CheckFails, BackUpFails, Ends, At, Switching, ConfigTypeOK
  <2>2. client'[c].at = "Idle"
    BY <2>1 DEF IdleJob
  <2>3. Restarting' => Restarting
    BY <1>2, <1>4, <2>1, <2>2 DEF Restarting, Pending
  <2>4. Promised => (Restarting' => Spawnable(active.target)')
    BY <1>8, <2>1, <2>3 DEF Promised
  <2>5. QED
    BY <1>9, <1>10, <2>2, <2>4 DEF UpInv, At
<1>14. CASE BackUp(c)
  <2>1. /\ client'[c] = [client[c] EXCEPT !.at = "Activating"]
        /\ At(c, "BackingUp") /\ UNCHANGED <<active, restarts>>
    BY <1>14 DEF BackUp, Goes, ConfigTypeOK
  <2>2. Switching(c)
    BY <1>3, <2>1 DEF At
  <2>3. Switching(c)' /\ (Promised => Accepted(c)')
    BY <1>2, <1>5, <2>1, <2>2 DEF Switching, Accepted, Promised, At, Vetted, Checked, ConfigTypeOK, Job
  <2>4. Restarting' => Restarting
    BY <1>2, <1>4, <2>1 DEF Restarting, Pending, ConfigTypeOK, Job
  <2>5. Promised => (Restarting' => Spawnable(active.target)')
    BY <1>8, <2>1, <2>4 DEF Promised
  <2>6. QED
    BY <1>9, <1>10, <2>3, <2>5 DEF UpInv
<1>15. CASE Activate(c)
  <2>1. /\ client'[c] = [client[c] EXCEPT !.at = "Pointing"]
        /\ At(c, "Activating") /\ UNCHANGED <<text, restarts>>
        /\ active'.target = SetTarget(active.target, client[c])
    BY <1>15 DEF Activate, Goes, ConfigTypeOK, Active
  <2>2. Switching(c) /\ client[c].bin # None /\ client[c].args # None
    BY <1>3, <2>1, ConfigAssumption DEF At, Switching
  <2>3. Switching(c)' /\ client'[c].at = "Pointing"
    BY <2>1, <2>2 DEF Switching, ConfigTypeOK, Job
  <2>4. /\ active'.target.cfg = client[c].path
        /\ active'.target.bin = client[c].bin
        /\ active'.target.args = NoArguments
    BY <2>1, <2>2 DEF SetTarget, Switching, ConfigTypeOK, Active, Target
  <2>5. Promised => Spawnable(active.target)'
    BY <1>2, <2>1, <2>2, <2>4
    DEF Promised, Accepted, Spawnable, Switching, Vetted, Checked, At
  <2>6. QED
    BY <1>9, <1>10, <2>3, <2>5 DEF UpInv
<1>16. CASE Point(c)
  <2>1. /\ client'[c] = [client[c] EXCEPT !.at = "Sending"]
        /\ At(c, "Pointing") /\ UNCHANGED <<text, restarts>>
        /\ active'.target = active.target
    BY <1>16 DEF Point, Goes, ConfigTypeOK, Active
  <2>2. Switching(c)' /\ client'[c].at = "Sending"
    BY <1>3, <2>1 DEF Switching, At, ConfigTypeOK, Job
  <2>3. Restarting
    BY <2>1 DEF Restarting, Pending, At
  <2>4. Promised => Spawnable(active.target)'
    BY <1>8, <2>1, <2>3 DEF Promised
  <2>5. QED
    BY <1>9, <1>10, <2>2, <2>4 DEF UpInv
<1>17. CASE SendRestart(c)
  <2>1. client'[c] = IdleJob /\ At(c, "Sending") /\ UNCHANGED <<text, active>>
    BY <1>17 DEF SendRestart, Ends, ConfigTypeOK
  <2>2. client'[c].at = "Idle"
    BY <2>1 DEF IdleJob
  <2>3. Restarting
    BY <2>1 DEF Restarting, Pending, At
  <2>4. Promised => Spawnable(active.target)'
    BY <1>8, <2>1, <2>3 DEF Promised
  <2>5. QED
    BY <1>9, <1>10, <2>2, <2>4 DEF UpInv, At
<1>18. QED
  BY <1>1, <1>11, <1>12, <1>13, <1>14, <1>15, <1>16, <1>17 DEF Serve

LEMMA SwitchSpawner ==
  ASSUME UpInv, ConfigTypeOK, HandleRestart \/ ReadTarget \/ Spawn
  PROVE  UpInv'
<1>1. UNCHANGED <<text, loose, active, client, raced>>
  BY DEF HandleRestart, StopChild, ReadTarget, Spawn
<1>2. (\A c \in Client : ~At(c, "Idle") => Switching(c))'
  BY <1>1 DEF UpInv, At, Switching
<1>3. \A target : Spawnable(target) => Spawnable(target)'
  BY <1>1 DEF Spawnable, Vetted, Checked
<1>4. \A c \in Client : Accepted(c) => Accepted(c)'
  BY <1>1 DEF Accepted, Vetted, Checked, At
<1>5. ASSUME Promised PROVE Promised'
  <2>1. CASE HandleRestart
    <3>1. spawner'.at = "Stopping" /\ Restarting
      BY <2>1 DEF HandleRestart, StopChild, Restarting, Pending, ConfigTypeOK
    <3>2. QED
      BY <1>1, <1>3, <1>4, <1>5, <3>1 DEF Promised
  <2>2. CASE ReadTarget
    <3>1. spawner'.at = "Spawning" /\ spawner'.target = active.target /\ Restarting
      BY <2>2 DEF ReadTarget, Restarting
    <3>2. QED
      BY <1>1, <1>3, <1>4, <1>5, <3>1 DEF Promised
  <2>3. CASE Spawn
    <3>1. spawner.at = "Spawning" /\ spawner'.at = "Idle" /\ restarts' = restarts
      BY <2>3 DEF Spawn, ConfigTypeOK
    <3>2. spawner.target \in Target /\ Spawnable(spawner.target)
      BY <1>5, <3>1 DEF Promised, ConfigTypeOK
    <3>3. running' # None
      BY <2>3, <3>2, TargetAssumption DEF Spawn, Spawnable
    <3>4. Restarting
      BY <3>1 DEF Restarting
    <3>5. QED
      BY <1>1, <1>3, <1>4, <1>5, <3>1, <3>3, <3>4 DEF Promised
  <2>4. QED
    BY <2>1, <2>2, <2>3
<1>6. QED
  BY <1>1, <1>2, <1>5 DEF UpInv

(* "A bad config can never take the keyboard down", where nothing but the  *)
(* requests respawns kanata, all of them switch presets, and every preset  *)
(* names its binary and adds no arguments (SwitchesOnly): kanata runs when *)
(* all is settled, unless an edit of a file crossed its check.             *)
THEOREM KeyboardStaysUpHolds == SwitchesOnly => (ConfigSpec => []KeyboardStaysUp)
<1> SUFFICES ASSUME SwitchesOnly PROVE ConfigSpec => []KeyboardStaysUp
  OBVIOUS
<1>1. ConfigInit => UpInv
  <2> SUFFICES ASSUME ConfigInit PROVE UpInv
    OBVIOUS
  <2>1. running # None
    BY InitType, TargetAssumption DEF ConfigInit, ConfigTypeOK, Active
  <2>2. QED
    BY <2>1 DEF ConfigInit, UpInv, Promised, Restarting, Pending, At, IdleJob
<1>2. ASSUME UpInv, ConfigTypeOK, [ConfigNext]_config
      PROVE  UpInv'
  <2>1. CASE Edit \/ Chmod
    <3>1. PICK f \in UserFile :
            /\ UNCHANGED <<active, client, restarts, spawner, running>>
            /\ raced' = (raced \/ InFlight(User(f)))
            /\ \A path \in Path \ {User(f)} :
                 text'[path] = text[path] /\ (path \in loose' <=> path \in loose)
      <4>1. CASE Edit
        BY <2>1, <4>1 DEF Edit, ConfigTypeOK
      <4>2. CASE Chmod
        BY <2>1, <4>2 DEF Chmod, ConfigTypeOK
      <4>3. QED
        BY <2>1, <4>1, <4>2
    <3>2. (raced => raced') /\ (InFlight(User(f)) => raced')
      BY <3>1
    <3>3. raced' \/ \A path \in Path : InFlight(path) =>
            text'[path] = text[path] /\ (path \in loose' <=> path \in loose)
      BY <3>1, <3>2
    <3>4. QED
      BY <1>2, <3>1, <3>2, <3>3, KeepsPromise
  <2>2. CASE UNCHANGED config
    BY <1>2, <2>2, KeepsPromise DEF config
  <2>3. ~Respawn
    BY DEF Respawn, SwitchesOnly
  <2>4. QED
    BY <1>2, <2>1, <2>2, <2>3, SwitchServe, SwitchSpawner DEF ConfigNext
<1>3. UpInv => KeyboardStaysUp
  BY DEF UpInv, Promised, KeyboardStaysUp, Settled, UnderWay
<1>4. QED
  BY <1>1, <1>2, <1>3, ConfigTypeCorrect, PTL DEF ConfigSpec
=============================================================================
