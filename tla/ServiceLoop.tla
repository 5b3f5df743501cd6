---------------------------- MODULE ServiceLoop ----------------------------
(***************************************************************************)
(* The loop of a worker container: one cycle per account, in order, with   *)
(* failures isolated, and a health file another container checks.  Three   *)
(* kinds of loop differ in what a failed write of the audit event does,    *)
(* and in whether an account's own cycle writes the health file.           *)
(***************************************************************************)
EXTENDS Integers, Sequences

CONSTANTS
    LoopAccounts,   \* sequence of the enabled accounts, in loop order
    LoopKinds,      \* subset of {"heartbeat", "evidence", "automation", "research"}
    MaxHealthAge    \* *_health_max_age_seconds, in ticks

ASSUME LoopAssumption ==
    /\ LoopAccounts \in Seq(STRING)
    /\ LoopKinds \subseteq {"heartbeat", "evidence", "automation", "research"}
    /\ MaxHealthAge \in Nat \ {0}

VARIABLES
    loopKind,    \* which worker this is
    loopPc,      \* where the worker is
    loopNext,    \* the account whose cycle runs next
    loopOk,      \* accounts that succeeded in this cycle
    loopFailed,  \* accounts that failed in this cycle
    health,      \* status in the health file
    healthAge,   \* ticks since it was written, no more than MaxHealthAge + 1
    broken,      \* accounts whose cycles raise (broker down, wrong identity, bad data)
    databaseUp   \* does record_event succeed?

loopControl == <<loopPc, loopNext, loopOk, loopFailed>>
healthFile == <<health, healthAge>>
environment == <<broken, databaseUp>>
loopVars == <<loopKind, loopControl, healthFile, environment>>

HealthStatuses == {"ok", "degraded", "error"}
AccountIndices == DOMAIN LoopAccounts

LoopTypeOK ==
    /\ loopKind \in LoopKinds
    /\ loopPc \in {"sleep", "account", "failure", "aggregate", "complete", "raised", "dead"}
    /\ loopNext \in 1..(Len(LoopAccounts) + 1)
    /\ loopOk \subseteq AccountIndices /\ loopFailed \subseteq AccountIndices
    /\ health \in HealthStatuses \cup {"missing"} /\ healthAge \in 0..(MaxHealthAge + 1)
    /\ broken \subseteq AccountIndices /\ databaseUp \in BOOLEAN

\* Automation, research, lab and universe write "ok" at the end of an account's cycle.
AccountWritesHealth == loopKind \in {"automation", "research"}

\* The heartbeat has no handler around its loop.
Guarded == loopKind # "heartbeat"

LoopInit ==
    /\ loopKind \in LoopKinds
    /\ loopPc = "sleep" /\ loopNext = 1 /\ loopOk = {} /\ loopFailed = {}
    /\ health = "missing" /\ healthAge = 0
    /\ broken = {} /\ databaseUp \in BOOLEAN

LoopGoto(step) == loopPc' = step
WriteHealth(status) == health' = status /\ healthAge' = 0

-----------------------------------------------------------------------------
(* Time, brokers and the database.                                         *)
AgeHealth ==
    /\ healthAge <= MaxHealthAge /\ health # "missing"
    /\ healthAge' = healthAge + 1
    /\ UNCHANGED <<loopKind, loopControl, health, environment>>

ChangeAccount(a) ==
    /\ broken' = IF a \in broken THEN broken \ {a} ELSE broken \cup {a}
    /\ UNCHANGED <<loopKind, loopControl, healthFile, databaseUp>>

ChangeDatabase ==
    /\ databaseUp' = ~ databaseUp
    /\ UNCHANGED <<loopKind, loopControl, healthFile, broken>>

-----------------------------------------------------------------------------
\* stop_event.wait has timed out.
BeginLoop ==
    /\ loopPc = "sleep"
    /\ LoopGoto("account")
    /\ loopNext' = 1 /\ loopOk' = {} /\ loopFailed' = {}
    /\ UNCHANGED <<loopKind, healthFile, environment>>

\* service.run_cycle returns; the automation writes its health before its last event.
AccountSucceeds ==
    /\ loopPc = "account" /\ loopNext \in AccountIndices \ broken /\ databaseUp
    /\ loopOk' = loopOk \cup {loopNext}
    /\ loopNext' = loopNext + 1
    /\ IF AccountWritesHealth THEN WriteHealth("ok") ELSE UNCHANGED healthFile
    /\ UNCHANGED <<loopKind, loopPc, loopFailed, environment>>

AccountRaises ==
    /\ loopPc = "account" /\ loopNext \in AccountIndices
    /\ \/ loopNext \in broken \/ ~ databaseUp
    /\ loopFailed' = loopFailed \cup {loopNext}
    /\ LoopGoto("failure")
    /\ IF loopKind = "automation" /\ loopNext \notin broken
       THEN WriteHealth("ok") \/ UNCHANGED healthFile
       ELSE UNCHANGED healthFile
    /\ UNCHANGED <<loopKind, loopNext, loopOk, environment>>

\* Mutant of RecordFailure: the first failure ends the cycle.
FailureEndsCycle ==
    /\ loopPc = "failure"
    /\ loopNext' = Len(LoopAccounts) + 1
    /\ LoopGoto("account")
    /\ UNCHANGED <<loopKind, loopOk, loopFailed, healthFile, environment>>

\* The except branch's record_event, which may raise itself.
RecordFailure ==
    /\ loopPc = "failure"
    /\ IF databaseUp
       THEN loopNext' = loopNext + 1 /\ LoopGoto("account")
       ELSE UNCHANGED loopNext /\ LoopGoto(IF Guarded THEN "raised" ELSE "dead")
    /\ UNCHANGED <<loopKind, loopOk, loopFailed, healthFile, environment>>

\* Mutant of Aggregate: whoever succeeded makes the status ok.
AggregateOfSuccesses == IF loopOk # {} THEN "ok" ELSE "error"

Aggregate == IF loopFailed = {} THEN "ok" ELSE IF loopOk # {} THEN "degraded" ELSE "error"

WriteAggregate ==
    /\ loopPc = "account" /\ loopNext > Len(LoopAccounts)
    /\ WriteHealth(Aggregate)
    /\ LoopGoto(IF loopKind = "automation" THEN "complete" ELSE "sleep")
    /\ UNCHANGED <<loopKind, loopNext, loopOk, loopFailed, environment>>

\* strategy_portfolio_cycle_completed.
RecordComplete ==
    /\ loopPc = "complete"
    /\ LoopGoto(IF databaseUp THEN "sleep" ELSE "raised")
    /\ UNCHANGED <<loopKind, loopNext, loopOk, loopFailed, healthFile, environment>>

\* The outer except branch of _automate, _research, _strategy_lab, ...
HandleRaised ==
    /\ loopPc = "raised"
    /\ WriteHealth("error")
    /\ LoopGoto("sleep")
    /\ UNCHANGED <<loopKind, loopNext, loopOk, loopFailed, environment>>

\* restart: unless-stopped; the container and its health file stay.
RestartWorker ==
    /\ loopPc = "dead"
    /\ LoopGoto("sleep")
    /\ loopNext' = 1 /\ loopOk' = {} /\ loopFailed' = {}
    /\ UNCHANGED <<loopKind, healthFile, environment>>

LoopStep ==
    \/ BeginLoop \/ AccountSucceeds \/ AccountRaises \/ RecordFailure
    \/ WriteAggregate \/ RecordComplete \/ HandleRaised \/ RestartWorker

LoopNext ==
    \/ LoopStep
    \/ AgeHealth
    \/ \E a \in AccountIndices : ChangeAccount(a)
    \/ ChangeDatabase

LoopSpec == LoopInit /\ [][LoopNext]_loopVars

\* The loop never ends, and its calls have timeouts; Docker restarts what exits, and
\* time passes.
LoopFairness == WF_loopVars(LoopStep) /\ WF_loopVars(AgeHealth)

-----------------------------------------------------------------------------
\* check_health, for a clock that does not run backwards.
Healthy == health = "ok" /\ healthAge <= MaxHealthAge

\* "Remaining accounts still run" (src/docs/MULTI_ACCOUNT_OPERATIONS.md): once the
\* database accepts events, an account that works is served again and again, whatever
\* the others do.
WorkingAccountsServed ==
    \A a \in AccountIndices :
        <>[](a \notin broken /\ databaseUp) => []<>(a \in loopOk)

\* An account that stays broken is reported again and again; and where no account's own
\* cycle writes the file, the worker never looks healthy again.
BrokenAccountReported ==
    \A a \in AccountIndices :
        /\ <>[](a \in broken) => []<>(~ Healthy)
        /\ <>[](a \in broken /\ ~ AccountWritesHealth) => <>[](~ Healthy)
=============================================================================
