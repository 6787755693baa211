------------------------ MODULE ValidationScenarios ------------------------
(***************************************************************************)
(* The scenarios of scripts/local-validation, in the order the driver runs  *)
(* them, as data.  A scenario's steps are what its body awaits: requests,   *)
(* treasury messages, commands, reads it keeps for later, polls (Await) and *)
(* assertions (Check).  Amounts are whole USD; versions are relative to the *)
(* treasuryVersion the scenario read before.                               *)
(*                                                                         *)
(* A run has one user and one set of names per suffix of its runId, and     *)
(* programs and invoices are named after the scenario that creates them.    *)
(***************************************************************************)
EXTENDS Naturals, SequencesExt

CONSTANTS
  Iterations,      \* names of the happy-path iterations, in order
  Rounds,          \* programs of the oversubscription rounds
  RepoChecks       \* --repo-checks

ASSUME ScenariosAssumption ==
  /\ Iterations \in Seq(STRING)
  /\ Rounds \in Seq(STRING)
  /\ RepoChecks \in BOOLEAN

-----------------------------------------------------------------------------
(* Steps *)

Ask(q, expect) == [op |-> "ask", request |-> q, expect |-> expect]
\* Requests whose answers a later Check looks at.
Collect(n, q) == [op |-> "race", requests |-> n :> q]
Race(q1, q2) == [op |-> "race", requests |-> <<q1, q2>>]
Await(fact) == [op |-> "await", fact |-> fact]
Check(fact) == [op |-> "check", fact |-> fact]
Do(kind) == [op |-> kind]
Track(p, usd, ahead) ==
  [op |-> "track", program |-> p, total |-> usd, ahead |-> ahead]
Run(command, strict) == [op |-> "compose", command |-> command, strict |-> strict]
ReadVersion(p) == [op |-> "read", program |-> p]

\* A request without a valid access token.
Nobody == "nobody"

RegisterAs(u) == [kind |-> "register", user |-> u]
LogIn(u) == [kind |-> "login", user |-> u]
RefreshWith(u, n) == [kind |-> "refresh", user |-> u, n |-> n]
GetAs(u) == [kind |-> "get", user |-> u]
Reserve(u, p, i) ==
  [kind |-> "reserve", user |-> u, program |-> p, invoice |-> i]
Release(u, i) == [kind |-> "release", user |-> u, invoice |-> i]

SignIn(u) == <<Ask(RegisterAs(u), 201), Ask(LogIn(u), 200)>>
NewProgram(u, p, usd) ==
  Ask([kind |-> "program", user |-> u, program |-> p, total |-> usd], 201)
\* usd is what the amount converts to when the invoice is created.
Invoice(u, i, usd, foreign) ==
  [kind |-> "invoice", user |-> u, invoice |-> i, usd |-> usd, foreign |-> foreign]
NewInvoice(u, i, usd) == Ask(Invoice(u, i, usd, FALSE), 201)

Entry(p, ahead, usd) == [program |-> p, ahead |-> ahead, total |-> usd]
PublishTo(key, batch, entries) ==
  [op |-> "publish", key |-> key, batch |-> batch, entries |-> entries]
Snapshot(batch, p, ahead, usd) == PublishTo(p, batch, <<Entry(p, ahead, usd)>>)

-----------------------------------------------------------------------------
(* Facts, with where the driver looks them up *)

Capacity(p, usd, reserved) ==
  [is |-> "capacity", via |-> "api", program |-> p, total |-> usd,
   reserved |-> reserved]
Treasury(p, usd, ahead) ==
  [is |-> "treasury", via |-> "api", program |-> p, total |-> usd, ahead |-> ahead]
Version(p, ahead) ==
  [is |-> "version", via |-> "api", program |-> p, ahead |-> ahead]
InvoiceIs(i, status) ==
  [is |-> "invoice", via |-> "api", invoice |-> i, status |-> status]
ReservationIs(i, status) ==
  [is |-> "reservation", via |-> "api", invoice |-> i, status |-> status]
SameMoney(i) == [is |-> "same-money", via |-> "api", invoice |-> i]
Released(i) == [is |-> "released", via |-> "sql", invoice |-> i]
Financed(i) == [is |-> "financed", via |-> "sql", invoice |-> i]
Unknown(i) == [is |-> "unknown", via |-> "sql", invoice |-> i]
Active(p, n) == [is |-> "active", via |-> "sql", program |-> p, count |-> n]
Audit(p, applied, stale) ==
  [is |-> "audit", via |-> "sql", program |-> p, applied |-> applied,
   stale |-> stale]
Emitted(p, n) == [is |-> "emitted", via |-> "sql", program |-> p, count |-> n]
AppliedOnce(p, batch, ahead) ==
  [is |-> "applied-once", via |-> "sql", program |-> p, batch |-> batch,
   ahead |-> ahead]
ReservationEvent(i) == [topic |-> "reservations.events", invoice |-> i]
ReleaseEvent(i) == [topic |-> "releases.events", invoice |-> i]
AppliedEvent(p, ahead) ==
  [topic |-> "reconciliations.events", program |-> p, ahead |-> ahead]
Published(event) == [is |-> "published", via |-> "sql", event |-> event]
Unpublished(event) == [is |-> "unpublished", via |-> "sql", event |-> event]
OnTopic(event) == [is |-> "on-topic", via |-> "kafka", event |-> event]
Fact(what, via) == [is |-> what, via |-> via]

Answered(how) == [is |-> how, via |-> "memory"]
LoserOpen(i1, i2) == [is |-> "loser-open", via |-> "api", invoices |-> <<i1, i2>>]

\* waitHealthy, waitStopped and waitForAppReady.
Healthy(what) == Await(Fact(what, "compose"))
AppIsReady == Await(Fact("app-ready", "api"))

\* ReconciliationFlusher.flush: the sentinel's next version behind the messages.
Sentinel == "recon-sentinel"

Flush(key) ==
  <<[op |-> "flush", key |-> key, program |-> Sentinel],
    Await([is |-> "at-least", via |-> "api", program |-> Sentinel])>>

-----------------------------------------------------------------------------
(* Scenarios *)

\* A body whose steps behind `before` and `try` run even if `try` fails.
TryFinally(before, try, finally, after) ==
  [steps |-> before \o try \o finally \o after,
   try |-> Len(before) + 1,
   finally |-> Len(before) + Len(try) + 1,
   after |-> Len(before) + Len(try) + Len(finally) + 1]

Body(steps) == TryFinally(steps, <<>>, <<>>, <<>>)

\* A loop over s: Part(x) for one x after the other, n elements each.
ForEach(s, Part(_), n) ==
  [k \in 1..(n * Len(s)) |-> Part(s[1 + ((k-1) \div n)])[1 + ((k-1) % n)]]

Scenario(run, id, needs, mandatory, body) ==
  [key |-> <<run, id>>, needs |-> needs, mandatory |-> mandatory, body |-> body]

Mandatory(run, id, needs, steps) ==
  Scenario(run, id, {<<run, n>> : n \in needs}, TRUE, Body(steps))

(* infrastructure.ts *)

\* compose up has the answer of compose's own wait for the dependencies.
ComposeStartup ==
  Mandatory("infra", "compose-startup", {},
    <<Run("up", TRUE), Healthy("services-healthy")>>)
PostgresReachable ==
  Mandatory("infra", "postgres-reachable", {"compose-startup"},
    <<Check(Fact("reachable", "sql"))>>)
KafkaReachable ==
  Mandatory("infra", "kafka-reachable", {"compose-startup"},
    <<Check(Fact("reachable", "kafka"))>>)
HealthReadiness ==
  Mandatory("infra", "health-readiness", {"compose-startup"}, <<AppIsReady>>)
BaselineSnapshot ==
  Mandatory("infra", "baseline-snapshot", {"postgres-reachable"},
    <<Check(Fact("schema-latest", "sql")), Do("baseline")>>)

BaselinePreserved == Check(Fact("baseline", "sql"))

\* The re-run applies nothing; the first run may find the schema behind.
Migrations(id, rerun) ==
  <<Mandatory("infra", id, {"baseline-snapshot"},
      (IF rerun THEN <<Check(Fact("schema-latest", "sql"))>> ELSE <<>>)
        \o <<Do("migrate"), Check(Fact("schema-latest", "sql"))>>),
    Mandatory("infra", id \o "-safety", {id}, <<BaselinePreserved>>)>>

(* happy-path.ts, one user, program and invoice per iteration r *)

RegisterUser(r) == Mandatory(r, "register", {}, <<Ask(RegisterAs(r), 201)>>)
LoginUser(r) ==
  Mandatory(r, "login", {"register"}, <<Ask(LogIn(r), 200), Ask(GetAs(r), 200)>>)
CreateAProgram(r) ==
  Mandatory(r, "create-program", {"login"},
    <<NewProgram(r, r, 1000), Check(Capacity(r, 1000, 0))>>)
CreateAnInvoice(r) ==
  Mandatory(r, "create-invoice", {"create-program"},
    <<NewInvoice(r, r, 300), Check(InvoiceIs(r, "OPEN"))>>)
ReserveInvoice(r) ==
  Mandatory(r, "reserve", {"create-invoice"},
    <<Ask(Reserve(r, r, r), 201),
      Check(ReservationIs(r, "ACTIVE")), Check(InvoiceIs(r, "RESERVED")),
      Check(Capacity(r, 1000, 300)), Await(Published(ReservationEvent(r)))>>)
ReleaseReservation(r) ==
  Mandatory(r, "release", {"reserve"},
    <<Ask(Release(r, r), 201),
      Check(ReservationIs(r, "RELEASED")), Check(InvoiceIs(r, "REPAID")),
      Check(Capacity(r, 1000, 0)), Check(SameMoney(r)), Check(Released(r)),
      Await(Published(ReleaseEvent(r)))>>)
ReconcileProgram(r) ==
  Mandatory(r, "reconcile", {"release"},
    <<ReadVersion(r), Snapshot("batch-01", r, 1, 1200), Await(Version(r, 1)),
      Check(Treasury(r, 1200, 1)), Check(Capacity(r, 1200, 0)),
      Check(ReservationIs(r, "RELEASED")), Check(InvoiceIs(r, "REPAID")),
      Check(AppliedOnce(r, "batch-01", 1)), Await(Published(AppliedEvent(r, 1))),
      Track(r, 1200, 1)>>)

HappyPath(r) ==
  <<RegisterUser(r), LoginUser(r), CreateAProgram(r), CreateAnInvoice(r),
    ReserveInvoice(r), ReleaseReservation(r), ReconcileProgram(r)>>

(* final-checks.ts *)

TrackedPrograms(run, id) ==
  Mandatory(run, id, {},
    SignIn(run) \o <<Check(Fact("tracked", "api")), BaselinePreserved>>)
OutboxDrained ==
  Mandatory("final", "outbox-drained", {}, <<Await(Fact("outbox-drained", "sql"))>>)
\* The scan does not look at the exit code of the command it reads the logs with.
LogSecretScan == Mandatory("final", "log-secret-scan", {}, <<>>)

(* authentication.ts: a user's tokens are 1 from the registration, 2 from the *)
(* login and 3 from the first refresh.                                        *)

RefreshRotation ==
  Mandatory("auth", "refresh-rotation", {},
    SignIn("auth")
      \o <<Ask(RefreshWith("auth", 2), 200), Ask(GetAs("auth"), 200),
           Ask(RefreshWith("auth", 2), 401), Collect(1, RefreshWith("auth", 3))>>)
RefreshTokenIsNoAccess ==
  Mandatory("auth", "refresh-token-not-access", {"refresh-rotation"},
    SignIn("auth-b") \o <<Ask(GetAs(Nobody), 401)>>)
AccessTokenIsNoRefresh ==
  Mandatory("auth", "access-token-not-refresh", {"refresh-rotation"},
    SignIn("auth-c") \o <<Ask(RefreshWith("auth-c", 0), 401)>>)
DomainNeedsToken ==
  Mandatory("auth", "domain-requires-jwt", {},
    <<Ask(GetAs(Nobody), 401), Ask(RefreshWith(Nobody, 0), 401),
      Check(Fact("app-ready", "api"))>>)

(* concurrency.ts and release-idempotency.ts *)

FixtureUser(run) == Mandatory(run, run \o "-session", {}, SignIn(run))

\* Two invoices of usd each against one program of 100.
TwoInvoices(p, usd) ==
  <<NewProgram("concurrency", p, 100),
    NewInvoice("concurrency", p \o "-a", usd),
    NewInvoice("concurrency", p \o "-b", usd),
    Race(Reserve("concurrency", p, p \o "-a"), Reserve("concurrency", p, p \o "-b"))>>

OversubscriptionRound(p) ==
  TwoInvoices(p, 80)
    \o <<Check(Answered("one-201-and-one-409")), Check(Capacity(p, 100, 80)),
         Check(Active(p, 1)), Check(LoserOpen(p \o "-a", p \o "-b"))>>
Oversubscription ==
  Mandatory("concurrency", "concurrent-oversubscription", {"concurrency-session"},
    ForEach(Rounds, OversubscriptionRound, 8))
ValidReservations(p) ==
  Mandatory("concurrency", "concurrent-valid-reservations", {"concurrency-session"},
    TwoInvoices(p, 40)
      \o <<Check(Answered("both-201")), Check(Capacity(p, 100, 80)),
           Check(Active(p, 2))>>)
SameInvoice(p) ==
  Mandatory("concurrency", "same-invoice-duplicate", {"concurrency-session"},
    <<NewProgram("concurrency", p, 1000), NewInvoice("concurrency", p, 50),
      Race(Reserve("concurrency", p, p), Reserve("concurrency", p, p)),
      Check(Answered("one-201-and-one-409")), Check(Financed(p)),
      Check(InvoiceIs(p, "RESERVED")), Check(Capacity(p, 1000, 50))>>)

ActiveReservation(p) ==
  <<NewProgram("release", p, 1000), NewInvoice("release", p, 70),
    Ask(Reserve("release", p, p), 201), Check(Capacity(p, 1000, 70))>>
SingleReleaseEffect(p) ==
  <<Check(Answered("a-201-and-no-5xx")), Check(Released(p)),
    Check(ReservationIs(p, "RELEASED")), Check(InvoiceIs(p, "REPAID")),
    Check(Capacity(p, 1000, 0)), Await(Published(ReleaseEvent(p)))>>
SequentialReleases(p) ==
  Mandatory("release", "duplicate-release-sequential", {"release-session"},
    ActiveReservation(p)
      \o <<Collect(1, Release("release", p)), Collect(2, Release("release", p))>>
      \o SingleReleaseEffect(p))
ConcurrentReleases(p) ==
  Mandatory("release", "duplicate-release-concurrent", {"release-session"},
    ActiveReservation(p)
      \o <<Race(Release("release", p), Release("release", p))>>
      \o SingleReleaseEffect(p))

(* reconciliation.ts; all of it has the fixture's user and sentinel *)

ApplyAndWait(batch, p, ahead, usd) ==
  <<Snapshot(batch, p, ahead, usd), Await(Version(p, ahead))>>

ReconciliationFixture ==
  Mandatory("recon", "reconciliation-fixture", {},
    SignIn("recon")
      \o <<NewProgram("recon", Sentinel, 1), ReadVersion(Sentinel)>>
      \o Flush(Sentinel))
Duplicate(p) ==
  Mandatory("recon", "reconciliation-duplicate", {"reconciliation-fixture"},
    <<NewProgram("recon", p, 1000), ReadVersion(p)>>
      \o ApplyAndWait("dup-batch-01", p, 1, 1500)
      \o <<Snapshot("dup-batch-01", p, 1, 1500)>> \o Flush(p)
      \o <<Check(Treasury(p, 1500, 1)), Check(AppliedOnce(p, "dup-batch-01", 1)),
           Check(Emitted(p, 1)), Track(p, 1500, 1)>>)
Stale(p) ==
  Mandatory("recon", "reconciliation-stale", {"reconciliation-fixture"},
    <<NewProgram("recon", p, 1000), ReadVersion(p)>>
      \o ApplyAndWait("stale-batch-01", p, 2, 1800)
      \o <<Snapshot("stale-batch-02", p, 1, 999),
           Snapshot("stale-batch-03", p, 2, 777)>> \o Flush(p)
      \o <<Check(Treasury(p, 1800, 2)), Check(Audit(p, 1, 2)),
           Check(Emitted(p, 1)), Track(p, 1800, 2)>>)
Gap(p) ==
  Mandatory("recon", "reconciliation-gap", {"reconciliation-fixture"},
    <<NewProgram("recon", p, 1000), ReadVersion(p)>>
      \o ApplyAndWait("gap-batch-01", p, 1, 1100)
      \o ApplyAndWait("gap-batch-02", p, 4, 1400)
      \o <<Snapshot("gap-batch-03", p, 2, 1200),
           Snapshot("gap-batch-04", p, 3, 1300)>> \o Flush(p)
      \o <<Check(Treasury(p, 1400, 4)), Check(Audit(p, 2, 2)),
           Track(p, 1400, 4)>>)
Bulk(A, B) ==
  Scenario("recon", "reconciliation-bulk",
    {<<"recon", "reconciliation-fixture">>}, FALSE,
    Body(<<NewProgram("recon", A, 500), NewProgram("recon", B, 500),
           ReadVersion(A), ReadVersion(B)>>
      \o ApplyAndWait("bulk-batch-00", B, 1, 650)
      \o <<PublishTo(A, "bulk-batch-01", <<Entry(A, 1, 900), Entry(B, 1, 1)>>)>>
      \o Flush(A)
      \o <<Check(Treasury(A, 900, 1)), Check(Treasury(B, 650, 1)),
           Check(Audit(B, 1, 1))>>))

(* recovery.ts *)

\* ensureKafkaRunning.  To start what runs already changes nothing.
EnsureKafkaRunning == <<Run("start-kafka", FALSE), Healthy("kafka-healthy")>>

KafkaOutage(r) ==
  Scenario(r, "kafka-unavailable-outbox-recovery", {}, TRUE, TryFinally(
    SignIn(r) \o <<NewProgram(r, r, 1000), NewInvoice(r, r, 125)>>,
    <<Run("stop-kafka", TRUE), Healthy("kafka-stopped"),
      Ask(Reserve(r, r, r), 201), Ask(Release(r, r), 201),
      Check(Unpublished(ReservationEvent(r))), Check(Unpublished(ReleaseEvent(r))),
      Run("start-kafka", TRUE), Healthy("kafka-healthy"),
      Await(Published(ReservationEvent(r))), Await(Published(ReleaseEvent(r))),
      Check(OnTopic(ReservationEvent(r))), Check(OnTopic(ReleaseEvent(r))),
      ReadVersion(r), Snapshot("batch-01", r, 1, 1300), Await(Version(r, 1)),
      Check(Capacity(r, 1300, 0))>>,
    EnsureKafkaRunning, <<>>))

AppRestart(r) ==
  Mandatory(r, "app-restart", {},
    SignIn(r) \o <<NewProgram(r, r, 1000), ReadVersion(r)>>
      \o ApplyAndWait("batch-01", r, 1, 2222)
      \o <<Do("remember"), Run("restart-app", TRUE), Healthy("app-healthy"),
           AppIsReady, Check(Fact("as-remembered", "api")),
           Check(Treasury(r, 2222, 1)), BaselinePreserved>>)
ConsumerReconnect(p) ==
  Mandatory("restart", "consumer-reconnect", {"app-restart"},
    <<NewProgram("restart", p, 10), ReadVersion(p)>>
      \o ApplyAndWait("reconnect-batch-01", p, 1, 20))
\* The fixture's event again, and a marker behind it.
Redelivery(p) ==
  Mandatory("restart", "reconciliation-redelivery-after-restart",
    {"consumer-reconnect"},
    <<Snapshot("batch-01", p, 1, 2222), ReadVersion(p),
      Snapshot("marker-batch", p, 1, 2222), Await(Version(p, 1)),
      Check(AppliedOnce(p, "batch-01", 0)), Check(Treasury(p, 2222, 1))>>)
OutboxResumes(p) ==
  Mandatory("restart", "outbox-resumes-after-restart", {"app-restart"},
    <<NewProgram("restart", p, 100), NewInvoice("restart", p, 10),
      Ask(Reserve("restart", p, p), 201), Await(Published(ReservationEvent(p)))>>)

(* fx.ts *)

FrankfurterSmoke(r) ==
  Scenario(r, "frankfurter-eur-smoke", {}, FALSE, Body(
    SignIn(r)
      \o <<NewProgram(r, r, 1000), Ask(Invoice(r, r, 110, TRUE), 201),
           Ask(Reserve(r, r, r), 201), Check(SameMoney(r)),
           Ask(Release(r, r), 201), Check(SameMoney(r)),
           Check(Capacity(r, 1000, 0))>>))

\* The override is taken back whatever happens; that command's exit code is not
\* looked at, the environment of the container is (printenv).
FrankfurterUnavailable(r) ==
  Scenario(r, "frankfurter-unavailable", {}, FALSE, TryFinally(
    SignIn(r),
    <<Run("override-fx", TRUE), Healthy("app-healthy"), AppIsReady,
      Ask(Invoice(r, "fx-failure-eur", 110, TRUE), 502),
      Check(Unknown("fx-failure-eur")), NewInvoice(r, "fx-failure-usd", 5)>>,
    <<Run("restore-fx", FALSE), Healthy("app-healthy"), AppIsReady>>,
    <<Do("printenv"), Ask(GetAs(r), 200)>>))

(* repository-checks.ts *)

CheckNames ==
  <<"rollback-integration-tests", "format-check", "lint", "typecheck",
    "test-unit", "test-integration", "test-e2e", "build">>
RepositoryChecks ==
  [n \in DOMAIN CheckNames |->
     Mandatory("repo-checks", CheckNames[n], {}, <<Check(Fact("exit-0", "shell"))>>)]

-----------------------------------------------------------------------------
(* The plan of a run *)

Infrastructure ==
  <<ComposeStartup, PostgresReachable, KafkaReachable, HealthReadiness,
    BaselineSnapshot>>

Main ==
  Migrations("migrations-initial", FALSE)
    \o ForEach(Iterations, HappyPath, 7)
    \o <<TrackedPrograms("iterations-p", "iterations-persist"),
         RefreshRotation, RefreshTokenIsNoAccess, AccessTokenIsNoRefresh,
         DomainNeedsToken,
         FixtureUser("concurrency"), Oversubscription,
         ValidReservations("concurrency-valid"), SameInvoice("concurrency-same"),
         FixtureUser("release"), SequentialReleases("release-seq"),
         ConcurrentReleases("release-concurrent"),
         ReconciliationFixture, Duplicate("recon-duplicate"), Stale("recon-stale"),
         Gap("recon-gap"), Bulk("recon-bulk-a", "recon-bulk-b"),
         KafkaOutage("kafka-outage"), FrankfurterSmoke("fx-live"),
         FrankfurterUnavailable("fx-failure"), AppRestart("restart"),
         ConsumerReconnect("restart-reconnect"), Redelivery("restart"),
         OutboxResumes("restart-outbox")>>
    \o HappyPath("post-restart")
    \o Migrations("migrations-rerun", TRUE)
    \o <<TrackedPrograms("final-p", "persistence-final"), OutboxDrained,
         LogSecretScan>>

Plan ==
  Infrastructure \o Main \o (IF RepoChecks THEN RepositoryChecks ELSE <<>>)
=============================================================================
