---------------------------- MODULE ControlPlane ----------------------------
(***************************************************************************)
(* What administrators start from the dashboard: the admin agent's server  *)
(* update and its edits of .env, handled by one thread per request, and    *)
(* the dashboard's own validation action.  Each keeps the state of its     *)
(* last action in memory, under a lock.  Threads are taken to start.       *)
(***************************************************************************)
EXTENDS Integers, FiniteSets

CONSTANTS
    Admins,       \* administrators; each has at most one request in progress
    EnvKeys,      \* MANAGED_ENV_KEYS
    EnvValues,
    Overlap,      \* may a setting be edited while another action is in progress?
    MaxRestarts   \* bound on restarts of the agent and of the dashboard

ASSUME ControlPlaneAssumption ==
    /\ Overlap \in BOOLEAN /\ MaxRestarts \in Nat
    /\ EnvValues # {}

VARIABLES
    envFile,     \* .env: the value of each key
    backups,     \* the copies under local-backups
    promised,    \* what the latest acknowledged edit of each key said
    lastAction,  \* AdminAgentState.last_action["state"]
    updates,     \* administrators whose update.sh the agent waits for
    edit,        \* each administrator's edit in progress
    validation,  \* action_status["accelerated_validation"]["state"]
    validators,  \* each administrator's validation request and thread
    restarts     \* restarts so far

agentMemory == <<lastAction, updates, edit>>
files == <<envFile, backups, promised>>
dashboardMemory == <<validation, validators>>
planeVars == <<files, agentMemory, dashboardMemory, restarts>>

Lost == "lost"          \* a key an unfinished write has dropped
File == [EnvKeys -> EnvValues \cup {Lost}]
Emptied == [k \in EnvKeys |-> Lost]
NoEdit == [pc |-> "none", key |-> Lost, value |-> Lost, original |-> Emptied]
Edits == [pc : {"none", "read", "backed", "emptied", "written"}, key : EnvKeys \cup {Lost},
          value : EnvValues \cup {Lost}, original : File]

\* As good as any other: edits only compare values.
FirstValue == CHOOSE v \in EnvValues : TRUE

PlaneTypeOK ==
    /\ envFile \in File /\ backups \subseteq File /\ promised \in [EnvKeys -> EnvValues]
    /\ lastAction \in {"idle", "running", "completed", "failed"}
    /\ updates \subseteq Admins
    /\ edit \in [Admins -> Edits]
    /\ validation \in {"idle", "running", "completed", "failed"}
    /\ validators \in [Admins -> {"none", "starting", "running"}]
    /\ restarts \in 0..MaxRestarts

PlaneInit ==
    /\ envFile = [k \in EnvKeys |-> FirstValue] /\ promised = envFile
    /\ backups = {}
    /\ lastAction = "idle" /\ updates = {}
    /\ edit = [a \in Admins |-> NoEdit]
    /\ validation = "idle" /\ validators = [a \in Admins |-> "none"]
    /\ restarts = 0

-----------------------------------------------------------------------------
(* AdminAgentState.update_setting: nothing holds the lock until the end.   *)
NoActionInProgress == updates = {} /\ \A a \in Admins : edit[a].pc = "none"

BeginEdit(a, key, value) ==
    /\ edit[a].pc = "none"
    /\ Overlap \/ NoActionInProgress
    /\ edit' = [edit EXCEPT ![a] = [pc |-> "read", key |-> key, value |-> value,
                                    original |-> envFile]]
    /\ UNCHANGED <<files, lastAction, updates, dashboardMemory, restarts>>

\* Mutant of BackUp: no copy is made.
BackUpNothing(a) ==
    /\ edit[a].pc = "read"
    /\ edit' = [edit EXCEPT ![a].pc = "backed"]
    /\ UNCHANGED <<files, lastAction, updates, dashboardMemory, restarts>>

\* A backup is named by the second it was made in; edits are further apart.
BackUp(a) ==
    /\ edit[a].pc = "read"
    /\ backups' = backups \cup {edit[a].original}
    /\ edit' = [edit EXCEPT ![a].pc = "backed"]
    /\ UNCHANGED <<envFile, promised, lastAction, updates, dashboardMemory, restarts>>

\* write_text opens the file for writing, which empties it,
EmptyEnvFile(a) ==
    /\ edit[a].pc = "backed"
    /\ envFile' = Emptied
    /\ edit' = [edit EXCEPT ![a].pc = "emptied"]
    /\ UNCHANGED <<backups, promised, lastAction, updates, dashboardMemory, restarts>>

\* and then writes the lines read before with the new one in its place.
WriteEnvFile(a) ==
    /\ edit[a].pc = "emptied"
    /\ envFile' = [edit[a].original EXCEPT ![edit[a].key] = edit[a].value]
    /\ edit' = [edit EXCEPT ![a].pc = "written"]
    /\ UNCHANGED <<backups, promised, lastAction, updates, dashboardMemory, restarts>>

CompleteEdit(a) ==
    /\ edit[a].pc = "written"
    /\ lastAction' = "completed"
    /\ promised' = [promised EXCEPT ![edit[a].key] = edit[a].value]
    /\ edit' = [edit EXCEPT ![a] = NoEdit]
    /\ UNCHANGED <<envFile, backups, updates, dashboardMemory, restarts>>

-----------------------------------------------------------------------------
\* Mutant of Startable: no action is ever taken for running.
AlwaysStartable == TRUE

Startable == lastAction # "running"

\* start_update, all under the lock.
StartUpdate(a) ==
    /\ a \notin updates
    /\ Overlap \/ \A b \in Admins : edit[b].pc = "none"
    /\ Startable
    /\ lastAction' = "running"
    /\ updates' = updates \cup {a}
    /\ UNCHANGED <<files, edit, dashboardMemory, restarts>>

\* _run_update: update.sh ends, cannot be started, or is given up after 900 seconds.
\* Then bash is killed, but not what it had started.
FinishUpdate(a) ==
    /\ a \in updates
    /\ updates' = updates \ {a}
    /\ lastAction' \in {"completed", "failed"}
    /\ UNCHANGED <<files, edit, dashboardMemory, restarts>>

RestartAgent ==
    /\ restarts < MaxRestarts
    /\ restarts' = restarts + 1
    /\ lastAction' = "idle" /\ updates' = {}
    /\ edit' = [a \in Admins |-> NoEdit]
    /\ UNCHANGED <<files, dashboardMemory>>

-----------------------------------------------------------------------------
(* The dashboard: request_accelerated_validation.                          *)
RequestValidation(a) ==
    /\ validators[a] = "none" /\ validation # "running"
    /\ validation' = "running"
    /\ validators' = [validators EXCEPT ![a] = "starting"]
    /\ UNCHANGED <<files, agentMemory, restarts>>

\* record_event, and the start of the thread.
StartValidation(a) ==
    /\ validators[a] = "starting"
    /\ validators' = [validators EXCEPT ![a] = "running"]
    /\ UNCHANGED <<files, agentMemory, validation, restarts>>

\* record_event raises (the database is locked or full), outside action_lock and
\* before there is a thread: the request ends, and nothing takes "running" back.
EventRaises(a) ==
    /\ validators[a] = "starting"
    /\ validators' = [validators EXCEPT ![a] = "none"]
    /\ UNCHANGED <<files, agentMemory, validation, restarts>>

\* Mutant of FinishValidation: an exception of the runner ends the thread.
FinishValidationRaises(a) ==
    /\ validators[a] = "running"
    /\ validators' = [validators EXCEPT ![a] = "none"]
    /\ validation' \in {validation, "completed", "failed"}
    /\ UNCHANGED <<files, agentMemory, restarts>>

FinishValidation(a) ==
    /\ validators[a] = "running"
    /\ validators' = [validators EXCEPT ![a] = "none"]
    /\ validation' \in {"completed", "failed"}
    /\ UNCHANGED <<files, agentMemory, restarts>>

\* A deployment recreates the dashboard; its threads are daemons.
RecreateDashboard ==
    /\ restarts < MaxRestarts
    /\ restarts' = restarts + 1
    /\ validation' = "idle" /\ validators' = [a \in Admins |-> "none"]
    /\ UNCHANGED <<files, agentMemory>>

EditStep(a) == BackUp(a) \/ EmptyEnvFile(a) \/ WriteEnvFile(a) \/ CompleteEdit(a)
ActionStep(a) ==
    FinishUpdate(a) \/ StartValidation(a) \/ EventRaises(a) \/ FinishValidation(a)

PlaneNext ==
    \/ \E a \in Admins :
          \/ \E k \in EnvKeys, v \in EnvValues : BeginEdit(a, k, v)
          \/ EditStep(a) \/ StartUpdate(a) \/ RequestValidation(a) \/ ActionStep(a)
    \/ RestartAgent \/ RecreateDashboard

PlaneSpec == PlaneInit /\ [][PlaneNext]_planeVars

-----------------------------------------------------------------------------
\* "admin_action_already_running" (src/src/multitrade/admin_agent.py): a second server
\* update is turned down while one runs.
OneUpdateAtATime == Cardinality(updates) <= 1

\* Neither a second server update nor a second validation starts while the agent waits
\* for one or its thread runs, also when administrators ask at once and the containers
\* restart.
ActionsExclusive ==
    OneUpdateAtATime /\ Cardinality({a \in Admins : validators[a] = "running"}) <= 1

\* Whatever was acknowledged for a key can still be read in .env or in a backup, even if
\* the agent died while it rewrote the file.
NoSettingLost ==
    \A k \in EnvKeys : \E file \in backups \cup {envFile} : file[k] = promised[k]

\* An action is shown as running, which keeps the next one out, and nobody works on it.
RunningInVain ==
    \/ lastAction = "running" /\ updates = {}
    \/ validation = "running" /\ \A a \in Admins : validators[a] = "none"

\* Whatever administrators, threads and restarts do to one another, a status is left at
\* "running" without work in one way only, by a validation whose start cannot be
\* recorded; and from then on "accelerated_validation_already_running" is the answer to
\* everyone until the dashboard is recreated (dashboard.py request_accelerated_validation).
StuckByFailedEvent ==
    [][ /\ ~ RunningInVain /\ RunningInVain' => \E a \in Admins : EventRaises(a)
        /\ RunningInVain /\ ~ RunningInVain' => RecreateDashboard ]_planeVars
=============================================================================
