--------------------------- MODULE LocalValidation ---------------------------
(***************************************************************************)
(* npm run validate:local.  The driver takes the scenarios of Plan one      *)
(* after the other, and a scenario's steps one after the other, while the   *)
(* stack works; every step of the driver is one request, one message, one   *)
(* command, one read or one poll that has come to its end.                  *)
(*                                                                         *)
(* A poll's deadline is longer than what the stack needs by itself: it      *)
(* passes when the stack has nothing left to do, or as a disturbance.  A    *)
(* command's own timeout kills the child and not what the child started, so *)
(* that a command may also never come to an end, and then the run has none. *)
(***************************************************************************)
EXTENDS ValidatedStack, ValidationScenarios

CONSTANTS
  Leftover,      \* programs of earlier runs
  DisturbedIn,   \* bound: keys of the scenarios during which something may go wrong,
  CrashIn        \* and of those during which that may be a crash

ASSUME ValidationAssumption ==
  /\ Leftover \subseteq Programs \cap Keys /\ IsFiniteSet(Leftover)
  /\ CrashIn \subseteq DisturbedIn
  /\ DisturbedIn \subseteq {Plan[n].key : n \in DOMAIN Plan}

\* The names a step uses are those of the instance.
KnownRequest(q) ==
  /\ q.kind = "register" => q.user \in Users
  /\ q.kind \in {"program", "reserve"} => q.program \in Programs
  /\ q.kind \in {"invoice", "reserve", "release"} => q.invoice \in Invoices
  /\ q.kind = "invoice" => q.usd \in Nat
KnownNames(s) ==
  /\ s.op = "ask" => KnownRequest(s.request)
  /\ s.op = "race" => \A n \in DOMAIN s.requests : KnownRequest(s.requests[n])

\* A body's finally is behind its try, and a scenario needs earlier ones only.
ASSUME PlanAssumption ==
  \A n \in DOMAIN Plan :
    LET body == Plan[n].body IN
    /\ Plan[n].needs \subseteq {Plan[m].key : m \in 1..(n-1)}
    /\ body.steps \in Seq(Range(body.steps))
    /\ body.finally \in 1..(Len(body.steps) + 1)
    /\ \A k \in DOMAIN body.steps : KnownNames(body.steps[k])

VARIABLES
  at,         \* the scenario in hand, an index of Plan
  line,       \* its next step, 0 before it starts
  failing,    \* an exception is on its way to ScenarioRunner.run
  startedIn,  \* history: how the stack was when the scenario started
  answers,    \* statuses of the requests a later check looks at
  seen,       \* seen[p]: the treasuryVersion the driver read last
  results,    \* status of each scenario
  tracked,    \* ctx.trackedPrograms
  baseline,   \* ctx.baseline
  remembered, \* capacities read before the restart
  final       \* exit code: PASS 0, FAIL 1, ABORTED 2; HUNG: there will be none

place == <<at, line, failing, startedIn, results, final>>
memory == <<answers, seen, tracked, baseline, remembered>>
vars == <<stackVars, place, memory>>

ProgramRow(p) == <<total[p], version[p]>>
Seen(p) == <<total[p], version[p], Reserved(p)>>
RowCounts == <<Cardinality(users), Cardinality({p \in Programs : programState[p] = "LIVE"}),
               Cardinality({i \in Invoices : invoice[i] # "ABSENT"}),
               Cardinality({r \in ReservationIds : reservation[r] # NoReservation}),
               Cardinality(releases), Cardinality(reconciliations),
               Cardinality(inbox), Cardinality(outbox)>>

\* Treasury entries on p that no handler has seen yet.
Undelivered(p) ==
  \E part \in Partitions : \E n \in DOMAIN topic[part] :
    \E k \in DOMAIN topic[part][n].entries :
      /\ topic[part][n].entries[k].program = p
      /\ n = 1 => k > reached[part]

\* An earlier run that was aborted may have left a message behind, which counts
\* as a disturbance, and the containers in any state.
Init ==
  /\ programState = [p \in Programs |-> IF p \in Leftover THEN "LIVE" ELSE "ABSENT"]
  /\ total = [p \in Programs |-> IF p \in Leftover THEN 1000 ELSE 0]
  /\ version = [p \in Programs |-> 0]
  /\ invoice = [i \in Invoices |-> "ABSENT"]
  /\ reservation = [r \in ReservationIds |-> NoReservation]
  /\ releases = {} /\ reconciliations = {} /\ inbox = {} /\ outbox = {}
  /\ users = {}
  /\ tokens = [u \in Users |-> <<>>]
  /\ price = [i \in Invoices |-> 0]
  /\ published = {}
  /\ kafka \in {"up", "down"}
  /\ app \in {"up", "starting", "down"}
  /\ fx \in {"original", "override"}
  /\ schema \in {"behind", "latest"}
  /\ app = "up" => kafka = "up" /\ schema = "latest"
  /\ \E late \in SUBSET Leftover :
       /\ disturbances = Cardinality(late)
       /\ disturbances <= MaxDisturbances
       /\ topic = [part \in Partitions |->
                  IF \E p \in late : PartitionOf[p] = part
                    THEN <<[entries |-> <<[batch |-> "aborted", version |-> 1, total |-> 1200,
                            program |-> CHOOSE p \in late : PartitionOf[p] = part]>>]>>
                    ELSE <<>>]
  /\ inHand = [part \in Partitions |-> 0]
  /\ reached = [part \in Partitions |-> 0]
  /\ at = 1 /\ line = 0 /\ failing = FALSE
  /\ startedIn = [disturbances |-> 0, healthy |-> FALSE]
  /\ answers = <<>>
  /\ seen = [p \in Programs |-> 0]
  /\ results = [n \in DOMAIN Plan |-> "NONE"]
  /\ tracked = {}
  /\ baseline = [rows |-> <<>>, programs |-> <<>>, backlog |-> FALSE]
  /\ remembered = <<>>
  /\ final = "RUNNING"

-----------------------------------------------------------------------------
(* What the driver's checks find *)

AuditOf(p, status) == {x \in reconciliations : x.program = p /\ x.status = status}
AppliedEvents(p) ==
  {o \in outbox : o.topic = "reconciliations.events" /\ o.key = p}

\* expectCapacity and expectStatusField, and the counts of rows.
HoldsInTables(f) ==
  \/ f.is = "capacity" /\ total[f.program] = f.total /\ Reserved(f.program) = f.reserved
  \/ f.is = "treasury" /\ total[f.program] = f.total
                       /\ version[f.program] = seen[f.program] + f.ahead
  \/ f.is = "version" /\ version[f.program] = seen[f.program] + f.ahead
  \/ f.is = "at-least" /\ version[f.program] >= seen[f.program]
  \/ f.is = "invoice" /\ invoice[f.invoice] = f.status
  \/ f.is = "unknown" /\ invoice[f.invoice] = "ABSENT"
  \/ f.is = "reservation" /\ \E r \in RowsOf(f.invoice) : reservation[r].status = f.status
  \/ f.is = "same-money" /\ \A r \in RowsOf(f.invoice) : reservation[r].usd = price[f.invoice]
                         /\ \A x \in releases : x.invoice = f.invoice
                                                  => x.usd = price[f.invoice]
  \/ f.is = "released" /\ Cardinality({x \in releases : x.invoice = f.invoice}) = 1
  \/ f.is = "financed" /\ Cardinality(RowsOf(f.invoice)) = 1 /\ HasActive(f.invoice)
  \/ f.is = "active" /\ f.count = Cardinality({r \in ReservationIds :
       reservation[r].status = "ACTIVE" /\ reservation[r].program = f.program})
  \/ f.is = "audit" /\ Cardinality(AuditOf(f.program, "APPLIED")) = f.applied
                    /\ Cardinality(AuditOf(f.program, "IGNORED_STALE")) = f.stale

\* outboxRowsFor: the outbox rows of one event.
OutboxRows(e) ==
  {o \in outbox : /\ o.topic = e.topic
                  /\ IF e.topic = "reconciliations.events"
                       THEN o.key = e.program /\ o.ref = seen[e.program] + e.ahead
                       ELSE o.ref \in RowsOf(e.invoice)}

HoldsInOutbox(f) ==
  \/ f.is = "emitted" /\ Cardinality(AppliedEvents(f.program)) = f.count
  \/ f.is = "applied-once" /\
       LET id == <<f.batch, f.program, seen[f.program] + f.ahead>> IN
       /\ {x.status : x \in {y \in reconciliations : y.id = id}} = {"APPLIED"}
       /\ id \in inbox
       /\ \E o \in AppliedEvents(f.program) : o.ref = id[3]
  \/ f.is \in {"published", "on-topic"}
       /\ Cardinality(OutboxRows(f.event)) = 1 /\ OutboxRows(f.event) \subseteq published
  \/ f.is = "unpublished"
       /\ Cardinality(OutboxRows(f.event)) = 1 /\ OutboxRows(f.event) \cap published = {}
  \/ f.is = "outbox-drained" /\ outbox = published

HoldsInStack(f) ==
  \/ f.is = "services-healthy" /\ kafka = "up" /\ app = "up"
  \/ f.is = "app-healthy" /\ app = "up"
  \/ f.is = "kafka-healthy" /\ kafka = "up"
  \/ f.is = "kafka-stopped" /\ kafka = "down"
  \/ f.is = "schema-latest" /\ schema = "latest"
  \/ f.is \in {"app-ready", "reachable", "exit-0"}

\* runTrackedProgramsCheck, expectBaselinePreserved and the restart's own check.
TrackedHold ==
  \A t \in tracked : Seen(t.program) = <<t.total, t.version, 0>>
BaselineHolds ==
  /\ \A k \in DOMAIN baseline.rows : RowCounts[k] >= baseline.rows[k]
  /\ \A p \in DOMAIN baseline.programs : ProgramRow(p) = baseline.programs[p]
HoldsForRun(f) ==
  \/ f.is = "tracked" /\ tracked # {} /\ TrackedHold
  \/ f.is = "baseline" /\ BaselineHolds
  \/ f.is = "as-remembered" /\ \A p \in DOMAIN remembered : Seen(p) = remembered[p]

Got == {answers[n] : n \in DOMAIN answers}
HoldsOfAnswers(f) ==
  \/ f.is = "one-201-and-one-409" /\ Got = {201, 409}
  \/ f.is = "both-201" /\ Got = {201}
  \/ f.is = "a-201-and-no-5xx" /\ 201 \in Got /\ \A status \in Got : 0 < status /\ status < 500
  \/ f.is = "loser-open" /\ \A n \in DOMAIN answers :
       answers[n] = 409 => invoice[f.invoices[n]] = "OPEN"

Available(via) == (via = "api" => app = "up") /\ (via = "kafka" => kafka = "up")
Holds(f) ==
  /\ Available(f.via)
  /\ HoldsInTables(f) \/ HoldsInOutbox(f) \/ HoldsInStack(f)
       \/ HoldsForRun(f) \/ HoldsOfAnswers(f)

-----------------------------------------------------------------------------
(* Steps of a scenario *)

Step == Plan[at].body.steps[line]
End == Len(Plan[at].body.steps) + 1
Doing(op) == /\ final = "RUNNING"
             /\ line > 0 /\ line < End
             /\ Step.op = op

\* An await that returns, and one that throws.
Advance ==
  /\ line' = IF line + 1 = Plan[at].body.after /\ failing THEN End ELSE line + 1
  /\ UNCHANGED <<at, failing, startedIn, results, final>>
Throw ==
  /\ line' = IF Plan[at].body.try <= line /\ line < Plan[at].body.finally
               THEN Plan[at].body.finally ELSE End
  /\ failing' = TRUE
  /\ UNCHANGED <<at, startedIn, results, final>>
AdvanceIf(ok) == IF ok THEN Advance ELSE Throw

\* What a step looks at cannot be reached, or too late.
StepFails ==
  /\ \/ Doing("await") \/ Doing("read") \/ Doing("baseline") \/ Doing("remember")
     \/ Doing("check") /\ Step.fact.via # "memory"
  /\ Disturb
  /\ Throw
  /\ UNCHANGED <<rows, published, containers, treasury, memory>>

AskStep ==
  /\ Doing("ask")
  /\ \E status \in Statuses \cup {NoAnswer} :
       Request(Step.request, status) /\ AdvanceIf(status = Step.expect)
  /\ answers' = <<>>
  /\ UNCHANGED <<seen, tracked, baseline, remembered>>

\* The requests of a Promise.all differ at most in the name of the invoice, which
\* nothing behind them tells apart: the first is the one that is answered first.
RaceStep ==
  /\ Doing("race")
  /\ \E n \in DOMAIN Step.requests \ DOMAIN answers :
     \E status \in Statuses \cup {NoAnswer} :
       /\ \A k \in DOMAIN Step.requests : k < n => k \in DOMAIN answers
       /\ Request(Step.requests[n], status)
       /\ answers' = answers @@ (n :> status)
       /\ IF DOMAIN Step.requests \subseteq DOMAIN answers' THEN Advance
          ELSE UNCHANGED place
  /\ UNCHANGED <<seen, tracked, baseline, remembered>>

\* Mutant: a poll has no deadline.
AwaitWithoutDeadline ==
  /\ Doing("await")
  /\ Holds(Step.fact)
  /\ Advance
  /\ UNCHANGED <<stackVars, memory>>

AwaitStep ==
  /\ Doing("await")
  /\ \/ Holds(Step.fact) /\ Advance
     \/ ~ Holds(Step.fact) /\ Quiet /\ Throw
  /\ UNCHANGED <<stackVars, memory>>

CheckStep ==
  /\ Doing("check")
  /\ AdvanceIf(Holds(Step.fact))
  /\ UNCHANGED <<stackVars, memory>>

\* Without an answer of the container there is no override in the output.
PrintenvStep ==
  /\ Doing("printenv")
  /\ \/ AdvanceIf(fx = "original" \/ app # "up") /\ UNCHANGED disturbances
     \/ Advance /\ Disturb
  /\ UNCHANGED <<rows, published, containers, treasury, memory>>

ReadStep ==
  /\ Doing("read")
  /\ AdvanceIf(app = "up")
  /\ seen' = IF app = "up" THEN [seen EXCEPT ![Step.program] = version[Step.program]]
                           ELSE seen
  /\ UNCHANGED <<stackVars, answers, tracked, baseline, remembered>>

EntryOf(batch, e) ==
  [batch |-> batch, program |-> e.program, version |-> seen[e.program] + e.ahead,
   total |-> e.total]

PublishStep ==
  /\ Doing("publish")
  /\ \E sent \in BOOLEAN :
       /\ Publish(Step.key,
            [entries |-> [k \in DOMAIN Step.entries |->
                            EntryOf(Step.batch, Step.entries[k])]], sent)
       /\ AdvanceIf(sent)
  /\ UNCHANGED memory

\* Mutant: the sentinel's message has the version the last one had.
FlushOfLastVersion ==
  LET last == seen[Step.program] IN
  /\ Doing("flush")
  /\ \E sent \in BOOLEAN :
       /\ Publish(Step.key,
            [entries |-> <<[batch |-> "sentinel", program |-> Step.program,
                            version |-> last, total |-> last]>>], sent)
       /\ AdvanceIf(sent)
  /\ UNCHANGED memory

\* flush takes its version before it publishes, and keeps it if that fails.
FlushStep ==
  LET next == seen[Step.program] + 1 IN
  /\ Doing("flush")
  /\ \E sent \in BOOLEAN :
       /\ Publish(Step.key,
            [entries |-> <<[batch |-> "sentinel", program |-> Step.program,
                            version |-> next, total |-> next]>>], sent)
       /\ AdvanceIf(sent)
  /\ seen' = [seen EXCEPT ![Step.program] = next]
  /\ UNCHANGED <<answers, tracked, baseline, remembered>>

ComposeStep ==
  /\ Doing("compose")
  /\ \E ok \in BOOLEAN :
       Compose(Step.command, ok) /\ AdvanceIf(ok \/ ~ Step.strict)
  /\ UNCHANGED memory

MigrateStep ==
  /\ Doing("migrate")
  /\ \E ok \in BOOLEAN : MigrateUp(ok) /\ AdvanceIf(ok)
  /\ UNCHANGED memory

TrackStep ==
  /\ Doing("track")
  /\ tracked' = tracked \cup
       {[program |-> Step.program, total |-> Step.total,
         version |-> seen[Step.program] + Step.ahead]}
  /\ Advance
  /\ UNCHANGED <<stackVars, answers, seen, baseline, remembered>>

\* ORDER BY created_at LIMIT 10; the model does not tell who is older.
SnapshotLimit == 10
Oldest(live) ==
  {kept \in SUBSET live :
     Cardinality(kept) = IF Cardinality(live) < SnapshotLimit THEN Cardinality(live)
                                                             ELSE SnapshotLimit}

BaselineStep ==
  /\ Doing("baseline")
  /\ \E kept \in Oldest({p \in Programs : programState[p] = "LIVE"}) :
       baseline' = [rows |-> RowCounts, programs |-> [p \in kept |-> ProgramRow(p)],
                    backlog |-> \E p \in kept : Undelivered(p)]
  /\ Advance
  /\ UNCHANGED <<stackVars, answers, seen, tracked, remembered>>

RememberStep ==
  /\ Doing("remember")
  /\ AdvanceIf(app = "up")
  /\ remembered' = [p \in {t.program : t \in tracked} |-> Seen(p)]
  /\ UNCHANGED <<stackVars, answers, seen, tracked, baseline>>

ScenarioStep ==
  \/ AskStep \/ RaceStep \/ AwaitStep \/ CheckStep \/ PrintenvStep \/ ReadStep
  \/ PublishStep \/ FlushStep \/ ComposeStep \/ MigrateStep
  \/ TrackStep \/ BaselineStep \/ RememberStep \/ StepFails

-----------------------------------------------------------------------------
(* ScenarioRunner, and main *)

StatusOf(key) == results[CHOOSE n \in DOMAIN Plan : Plan[n].key = key]

\* Main is taken up only after health-readiness and baseline-snapshot.
MainStart == Len(Infrastructure) + 1
MainEnd == Len(Infrastructure) + Len(Main)
GateOpen == /\ StatusOf(HealthReadiness.key) = "PASS"
            /\ StatusOf(BaselineSnapshot.key) = "PASS"

Record(status) ==
  /\ results' = [results EXCEPT ![at] = status]
  /\ at' = at + 1

\* Mutant: the dependencies of a scenario are not looked at.
StartScenarioUnasked ==
  /\ final = "RUNNING" /\ line = 0 /\ at \in DOMAIN Plan
  /\ at = MainStart => GateOpen
  /\ line' = 1
  /\ startedIn' = [disturbances |-> disturbances, healthy |-> Connected]
  /\ UNCHANGED <<at, results, failing, final, stackVars, memory>>

StartScenario ==
  /\ final = "RUNNING" /\ line = 0 /\ at \in DOMAIN Plan
  /\ at = MainStart => GateOpen
  /\ IF \A key \in Plan[at].needs : StatusOf(key) = "PASS"
       THEN /\ line' = 1
            /\ startedIn' = [disturbances |-> disturbances, healthy |-> Connected]
            /\ UNCHANGED <<at, results>>
       ELSE Record("SKIPPED") /\ UNCHANGED <<line, startedIn>>
  /\ UNCHANGED <<failing, final, stackVars, memory>>

\* markRemainingNotExecuted.
BlockMain ==
  /\ final = "RUNNING" /\ line = 0 /\ at = MainStart
  /\ ~ GateOpen
  /\ results' = [n \in DOMAIN Plan |->
       IF n \in MainStart..MainEnd THEN "NOT_EXECUTED" ELSE results[n]]
  /\ at' = MainEnd + 1
  /\ UNCHANGED <<line, failing, startedIn, final, stackVars, memory>>

EndScenario ==
  /\ final = "RUNNING" /\ at \in DOMAIN Plan /\ line = End
  /\ Record(IF failing THEN "FAIL" ELSE "PASS")
  /\ line' = 0
  /\ failing' = FALSE
  /\ UNCHANGED <<startedIn, final, stackVars, memory>>

\* Mutant: the result counts the mandatory scenarios only.
VerdictOfMandatory ==
  IF \A n \in DOMAIN Plan : Plan[n].mandatory => results[n] = "PASS"
    THEN "PASS" ELSE "FAIL"

\* summarize and finalResult.
Verdict ==
  IF \A n \in DOMAIN Plan : /\ Plan[n].mandatory => results[n] = "PASS"
                            /\ results[n] # "FAIL"
    THEN "PASS" ELSE "FAIL"

\* The state of the volumes is read once more before the report is written.
Finish ==
  /\ final = "RUNNING" /\ at = Len(Plan) + 1
  /\ \/ final' = Verdict /\ UNCHANGED disturbances
     \/ final' = "ABORTED" /\ Disturb
  /\ UNCHANGED <<at, line, failing, startedIn, results, memory, rows, published,
                 containers, treasury>>

Driver == StartScenario \/ BlockMain \/ ScenarioStep \/ EndScenario \/ Finish

\* What the driver runs a child process for: docker compose, psql in a container,
\* npm and jest, the log excerpt of a scenario that failed, the scan of the logs,
\* and the state of the volumes at the end.
InCommand ==
  IF at \notin DOMAIN Plan THEN TRUE
  ELSE IF line \in 1..(End - 1)
    THEN \/ Step.op \in {"compose", "migrate", "printenv", "baseline"}
         \/ Step.op \in {"await", "check"} /\ Step.fact.via \in {"sql", "compose", "shell"}
    ELSE line = End /\ (failing \/ Plan[at] = LogSecretScan)

\* runCommand resolves when the pipes of its child are closed.  At the timeout it
\* kills the child; a process the child started (docker's plugin, the shell and
\* the tests behind npm) may live on and hold them.  Nothing of the driver runs
\* any more, its deadlines included: they are looked at between two commands.
CommandHangs ==
  /\ final = "RUNNING"
  /\ InCommand
  /\ Disturb
  /\ final' = "HUNG"
  /\ UNCHANGED <<at, line, failing, startedIn, results, memory, rows, published,
                 containers, treasury>>

\* What happens after the run is not followed.
Stack == final = "RUNNING" /\ StackWorks /\ UNCHANGED <<place, memory>>
During(keys) == at \in DOMAIN Plan => Plan[at].key \in keys
Outside ==
  /\ final = "RUNNING"
  /\ \/ AppCrash /\ During(CrashIn)
     \/ \E part \in Partitions : DeadLetter(part)
  /\ UNCHANGED <<place, memory>>

Next == /\ Driver \/ CommandHangs \/ Stack \/ Outside
        /\ UNCHANGED disturbances \/ During(DisturbedIn)

Spec == Init /\ [][Next]_vars
\* While anything can happen that is no disturbance, something does: the stack's
\* timers and restarts do their work, of which each driver's step leaves little.
FairSpec == Spec /\ WF_vars(Driver \/ Stack)

-----------------------------------------------------------------------------
(* Properties *)

\* The state of the stack and of the driver is what the code's types allow.
ValidationTypeOK ==
  /\ programState \in [Programs -> {"ABSENT", "LIVE"}]
  /\ invoice \in [Invoices -> {"ABSENT", "OPEN", "RESERVED", "REPAID"}]
  /\ reservation \in [ReservationIds -> ReservationRow \cup {NoReservation}]
  /\ users \subseteq Users
  /\ \A u \in Users : tokens[u] # <<>> <=> u \in users
  /\ published \subseteq outbox
  /\ kafka \in {"up", "down"} /\ app \in {"up", "starting", "down"}
  /\ fx \in {"original", "override"} /\ schema \in {"behind", "latest"}
  /\ \A part \in Partitions : inHand[part] <= reached[part]
  /\ at \in 1..(Len(Plan) + 1)
  /\ line > 0 => at \in DOMAIN Plan /\ line \in 1..End
  /\ \A n \in DOMAIN Plan : results[n] = "NONE" <=> n >= at
  /\ final \in {"RUNNING", "PASS", "FAIL", "ABORTED", "HUNG"}

CheckedPrograms ==
  IF "program" \in DOMAIN Step.fact THEN {Step.fact.program}
  ELSE IF Step.fact.is = "tracked" THEN {t.program : t \in tracked} ELSE {}

\* When a scenario compares a program with what a treasury message was to do, or
\* not to do, no message on that program is still under way: a check that finds
\* nothing changed has not looked too early (ReconciliationFlusher, the marker
\* behind a redelivery, and the poll before each of the other checks).
ChecksSeeDelivered ==
  Doing("check") => \A p \in CheckedPrograms : ~ Undelivered(p)

\* No scenario fails by itself: something went wrong while it ran or the broker
\* or the application was not up when it began, no program was tracked for the
\* scenario that looks at them, or a message of an earlier run was still under
\* way when the baseline was taken.
FailureHasCause ==
  [][\A n \in DOMAIN Plan :
       results'[n] = "FAIL" /\ results[n] # "FAIL" =>
         \/ disturbances > startedIn.disturbances
         \/ ~ startedIn.healthy
         \/ \E k \in 1..(End - 1) :
              \/ Plan[n].body.steps[k] = Check(Fact("tracked", "api")) /\ tracked = {}
              \/ Plan[n].body.steps[k] = BaselinePreserved /\ baseline.backlog]_vars

\* A run that ends with PASS leaves the broker running and the provider's own
\* address configured, what it tracked unchanged, the rows of earlier runs
\* unchanged unless a message of theirs was under way, every event published and
\* none of its own messages unhandled.
PassMeansHealthy ==
  final = "PASS" =>
    /\ kafka = "up" /\ fx = "original"
    /\ tracked # {} /\ TrackedHold
    /\ baseline.backlog \/ BaselineHolds
    /\ outbox = published
    /\ \A p \in Programs \ Leftover : ~ Undelivered(p)

\* A run ends with an exit code, whatever fails on its way, or it hangs in a
\* command: every poll whose probes come back has its deadline, and a scenario
\* that fails lets the next one begin.  Broken by a poll without a deadline, or
\* by two parts of the stack that wait for one another.
RunEndsOrHangs == <>(final \in {"PASS", "FAIL", "ABORTED"} \/ final = "HUNG")
=============================================================================
