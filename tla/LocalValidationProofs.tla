------------------------ MODULE LocalValidationProofs ------------------------
(***************************************************************************)
(* Proofs about LocalValidation for any plan of well-formed scenarios, any  *)
(* names and any number of disturbances: the stack and the driver keep      *)
(* their types, a recorded result stands, and a scenario only runs and      *)
(* passes when all it depends on has passed.  For a plan that keeps to      *)
(* PlanDiscipline, the driver never looks at a program too early, and what  *)
(* a run that ends with PASS has seen is still so at its end.               *)
(***************************************************************************)
EXTENDS PlanDiscipline, SequenceTheorems, FiniteSetTheorems, TLAPS

-----------------------------------------------------------------------------
(* The plan is a sequence *)

\* A function on 1..n is a sequence, whatever its values.
LEMMA FunctionIsSequence ==
  ASSUME NEW n \in Nat, NEW s, s = [k \in 1..n |-> s[k]]
  PROVE  s \in Seq({s[k] : k \in 1..n}) /\ Len(s) = n /\ DOMAIN s = 1..n
<1> DEFINE S == {s[k] : k \in 1..n}
<1>1. \A k \in 1..n : s[k] \in S
  OBVIOUS
<1>2. s \in [1..n -> S]
  BY <1>1
<1> HIDE DEF S
<1>3. s \in Seq(S) /\ Len(s) = n /\ DOMAIN s = 1..n
  BY <1>2
<1> QED
  BY <1>3 DEF S

\* So is the concatenation of two sequences of whatever elements.
LEMMA Concatenation ==
  ASSUME NEW S, NEW T, NEW s \in Seq(S), NEW t \in Seq(T)
  PROVE  s \o t \in Seq(S \cup T) /\ Len(s \o t) = Len(s) + Len(t)
<1>1. s \in Seq(S \cup T) /\ t \in Seq(S \cup T)
  BY SeqMonotonic
<1> QED
  BY <1>1, ConcatProperties

\* A loop over the iterations gives a sequence of scenarios.
LEMMA IterationsAreSequence ==
  \E S : ForEach(Iterations, HappyPath, 7) \in Seq(S)
<1> DEFINE f == ForEach(Iterations, HappyPath, 7)
           n == 7 * Len(Iterations)
<1>1. n \in Nat
  BY ScenariosAssumption
<1>2. f = [k \in 1..n |-> f[k]]
  BY DEF ForEach
<1> HIDE DEF f, n
<1>3. f \in Seq({f[k] : k \in 1..n})
  BY <1>1, <1>2, FunctionIsSequence
<1> QED
  BY <1>3 DEF f

\* The main phase is a concatenation of loops and single scenarios.
LEMMA MainIsSequence == \E S : Main \in Seq(S)
<1> DEFINE fixed ==
      <<TrackedPrograms("iterations-p", "iterations-persist"),
        RefreshRotation, RefreshTokenIsNoAccess, AccessTokenIsNoRefresh,
        DomainNeedsToken,
        FixtureUser("concurrency"), Oversubscription,
        ValidReservations("concurrency-valid"), SameInvoice("concurrency-same"),
        FixtureUser("release"), SequentialReleases("release-seq"),
        ConcurrentReleases("release-concurrent"),
        ReconciliationFixture, Duplicate("recon-duplicate"), Stale("recon-stale"),
        Gap("recon-gap"), Bulk("recon-bulk-a", "recon-bulk-b"),
        KafkaOutage("kafka-outage"), FrankfurterSmoke("fx-live"),
        FrankfurterUnavailable("fx-failure"), AppRestart("restart"),
        ConsumerReconnect("restart-reconnect"), Redelivery("restart"),
        OutboxResumes("restart-outbox")>>
      checks == <<TrackedPrograms("final-p", "persistence-final"), OutboxDrained,
                  LogSecretScan>>
      first == Migrations("migrations-initial", FALSE)
      again == Migrations("migrations-rerun", TRUE)
      path == HappyPath("post-restart")
<1>1. fixed = [k \in 1..24 |-> fixed[k]]
  OBVIOUS
<1>2. checks = [k \in 1..3 |-> checks[k]]
  OBVIOUS
<1>3. first = [k \in 1..2 |-> first[k]] /\ again = [k \in 1..2 |-> again[k]]
  BY DEF Migrations
<1>4. path = [k \in 1..7 |-> path[k]]
  BY DEF HappyPath
<1>5. Main = first \o ForEach(Iterations, HappyPath, 7) \o fixed \o path \o again \o checks
  BY DEF Main
<1> HIDE DEF fixed, checks, first, again, path
<1>6. /\ \E S : fixed \in Seq(S)
      /\ \E S : checks \in Seq(S)
      /\ \E S : first \in Seq(S)
      /\ \E S : again \in Seq(S)
      /\ \E S : path \in Seq(S)
  BY <1>1, <1>2, <1>3, <1>4, FunctionIsSequence
<1>7. \A s, t : (\E S : s \in Seq(S)) /\ (\E T : t \in Seq(T)) => \E U : s \o t \in Seq(U)
  BY Concatenation
<1> QED
  BY <1>5, <1>6, <1>7, IterationsAreSequence

\* The plan is a sequence, and Main an interval of it behind Infrastructure.
LEMMA PlanIsSequence ==
  /\ Len(Plan) \in Nat
  /\ DOMAIN Plan = 1..Len(Plan)
  /\ MainStart \in Nat \ {0} /\ MainEnd \in Nat
  /\ MainStart <= MainEnd + 1 /\ MainEnd <= Len(Plan)
<1> DEFINE rest == IF RepoChecks THEN RepositoryChecks ELSE <<>>
<1>1. Infrastructure = [k \in 1..5 |-> Infrastructure[k]]
  BY DEF Infrastructure
<1>2. \E S : Infrastructure \in Seq(S)
  BY <1>1, FunctionIsSequence
<1>3. RepositoryChecks = [k \in 1..8 |-> RepositoryChecks[k]]
  BY DEF RepositoryChecks, CheckNames
<1>4. \E S : rest \in Seq(S)
  <2>1. \E S : RepositoryChecks \in Seq(S)
    BY <1>3, FunctionIsSequence
  <2>2. <<>> \in Seq({})
    OBVIOUS
  <2> QED
    BY <2>1, <2>2
<1>5. Plan = Infrastructure \o Main \o rest
  BY DEF Plan
<1> HIDE DEF rest
<1>6. PICK S, T, U : Infrastructure \in Seq(S) /\ Main \in Seq(T) /\ rest \in Seq(U)
  BY <1>2, <1>4, MainIsSequence
<1>7. /\ Infrastructure \o Main \in Seq(S \cup T)
      /\ Len(Infrastructure \o Main) = Len(Infrastructure) + Len(Main)
  BY <1>6, Concatenation
<1>8. /\ Plan \in Seq((S \cup T) \cup U)
      /\ Len(Plan) = Len(Infrastructure) + Len(Main) + Len(rest)
  BY <1>5, <1>6, <1>7, Concatenation
<1>9. Len(Infrastructure) \in Nat /\ Len(Main) \in Nat /\ Len(rest) \in Nat
  BY <1>6
<1>10. Len(Plan) \in Nat /\ DOMAIN Plan = 1..Len(Plan)
  BY <1>8
<1> QED
  BY <1>8, <1>9, <1>10 DEF MainStart, MainEnd

\* What PlanAssumption says of one scenario.
LEMMA BodyIsWellFormed ==
  ASSUME NEW n \in DOMAIN Plan
  PROVE  /\ Plan[n].needs \subseteq {Plan[m].key : m \in 1..(n-1)}
         /\ Len(Plan[n].body.steps) \in Nat
         /\ DOMAIN Plan[n].body.steps = 1..Len(Plan[n].body.steps)
         /\ Plan[n].body.finally \in 1..(Len(Plan[n].body.steps) + 1)
         /\ \A k \in DOMAIN Plan[n].body.steps : KnownNames(Plan[n].body.steps[k])
<1>1. /\ Plan[n].needs \subseteq {Plan[m].key : m \in 1..(n-1)}
      /\ Plan[n].body.steps \in Seq(Range(Plan[n].body.steps))
      /\ Plan[n].body.finally \in 1..(Len(Plan[n].body.steps) + 1)
      /\ \A k \in DOMAIN Plan[n].body.steps : KnownNames(Plan[n].body.steps[k])
  BY PlanAssumption
<1> DEFINE S == Range(Plan[n].body.steps)  steps == Plan[n].body.steps
<1>2. steps \in Seq(S)
  BY <1>1
<1> HIDE DEF S, steps
<1>3. Len(steps) \in Nat /\ DOMAIN steps = 1..Len(steps)
  BY <1>2
<1> QED
  BY <1>1, <1>3 DEF steps

-----------------------------------------------------------------------------
(* The driver *)

\* Only a scenario whose dependencies have passed is taken up or passes.
DependenciesPassed ==
  \A n \in DOMAIN Plan : \A key \in Plan[n].needs :
    results[n] = "PASS" \/ (at = n /\ line > 0) => StatusOf(key) = "PASS"

PlaceOK ==
  /\ at \in 1..(Len(Plan) + 1)
  /\ line \in Nat
  /\ line > 0 => at \in DOMAIN Plan /\ line \in 1..End
  /\ DOMAIN results = DOMAIN Plan
  /\ \A n \in DOMAIN Plan : results[n] = "NONE" <=> n >= at
  /\ final \in {"RUNNING", "PASS", "FAIL", "ABORTED", "HUNG"}
  /\ DependenciesPassed

\* The driver at a step of the scenario in hand.
InScenario == line > 0 /\ line < End
Moves == Advance \/ Throw \/ UNCHANGED place

\* A step of a scenario goes on, throws, or waits for more answers.
LEMMA StepsMove ==
  ASSUME ScenarioStep
  PROVE  InScenario /\ Moves
<1> USE DEF InScenario, Moves, Doing, AdvanceIf
<1>1. CASE AskStep BY <1>1 DEF AskStep
<1>2. CASE RaceStep BY <1>2 DEF RaceStep
<1>3. CASE AwaitStep \/ CheckStep \/ PrintenvStep \/ ReadStep
  BY <1>3 DEF AwaitStep, CheckStep, PrintenvStep, ReadStep
<1>4. CASE PublishStep \/ FlushStep \/ ComposeStep \/ MigrateStep
  BY <1>4 DEF PublishStep, FlushStep, ComposeStep, MigrateStep
<1>5. CASE TrackStep \/ BaselineStep \/ RememberStep \/ StepFails
  BY <1>5 DEF TrackStep, BaselineStep, RememberStep, StepFails
<1> QED
  BY <1>1, <1>2, <1>3, <1>4, <1>5 DEF ScenarioStep

\* A dependency is a scenario of the plan.
LEMMA DependencyInPlan ==
  ASSUME NEW n \in DOMAIN Plan, NEW key \in Plan[n].needs
  PROVE  (CHOOSE m \in DOMAIN Plan : Plan[m].key = key) \in DOMAIN Plan
<1>1. PICK m \in 1..(n-1) : Plan[m].key = key
  BY BodyIsWellFormed
<1>2. m \in DOMAIN Plan
  BY <1>1, PlanIsSequence
<1> QED
  BY <1>1, <1>2

\* A result that was recorded stands.
LEMMA ResultStands ==
  ASSUME PlaceOK, Next, NEW n \in DOMAIN Plan, results[n] # "NONE"
  PROVE  results'[n] = results[n]
<1>1. n < at /\ n \in 1..Len(Plan) /\ at \in Int
  BY PlanIsSequence DEF PlaceOK
<1>2. CASE StartScenario
  BY <1>1, <1>2 DEF StartScenario, Record, PlaceOK
<1>3. CASE BlockMain
  <2>1. /\ at = MainStart
        /\ results' = [k \in DOMAIN Plan |->
             IF k \in MainStart..MainEnd THEN "NOT_EXECUTED" ELSE results[k]]
    BY <1>3 DEF BlockMain
  <2>2. n \notin MainStart..MainEnd
    BY <1>1, <2>1, PlanIsSequence
  <2> QED
    BY <2>1, <2>2
<1>4. CASE ScenarioStep
  BY <1>4, StepsMove DEF Moves, Advance, Throw, place
<1>5. CASE EndScenario
  BY <1>1, <1>5 DEF EndScenario, Record, PlaceOK
<1>6. CASE Finish \/ CommandHangs \/ Stack \/ Outside
  BY <1>6 DEF Finish, CommandHangs, Stack, Outside, place
<1> QED
  BY <1>2, <1>3, <1>4, <1>5, <1>6 DEF Next, Driver

\* So does a dependency that has passed.
LEMMA DependencyStands ==
  ASSUME PlaceOK, Next, NEW n \in DOMAIN Plan, NEW key \in Plan[n].needs,
         StatusOf(key) = "PASS"
  PROVE  StatusOf(key)' = "PASS"
<1> DEFINE m == CHOOSE k \in DOMAIN Plan : Plan[k].key = key
<1>1. m \in DOMAIN Plan
  BY DependencyInPlan
<1>2. StatusOf(key) = results[m] /\ StatusOf(key)' = results'[m]
  BY DEF StatusOf
<1> HIDE DEF m
<1> QED
  BY <1>1, <1>2, ResultStands

\* What the next step leaves of the driver's place.
LEMMA PlaceNext ==
  ASSUME PlaceOK, Next
  PROVE  PlaceOK'
<1> USE DEF PlaceOK
<1>0. Len(Plan) \in Nat /\ DOMAIN Plan = 1..Len(Plan)
  BY PlanIsSequence
<1>1. ASSUME NEW n \in DOMAIN Plan, NEW key \in Plan[n].needs,
             results[n] = "PASS" \/ (at = n /\ line > 0)
      PROVE  StatusOf(key)' = "PASS"
  BY <1>1, DependencyStands DEF DependenciesPassed
<1>2. CASE StartScenario
  <2>1. CASE \A key \in Plan[at].needs : StatusOf(key) = "PASS"
    <3>1. line' = 1 /\ UNCHANGED <<at, results, final>> /\ at \in DOMAIN Plan
      BY <1>2, <2>1 DEF StartScenario
    <3>2. End \in Nat /\ 1 \in 1..End /\ End' = End
      BY <3>1, BodyIsWellFormed DEF End
    <3>3. DependenciesPassed'
      BY <1>1, <2>1, <3>1, DependencyStands DEF DependenciesPassed
    <3> QED
      BY <3>1, <3>2, <3>3
  <2>2. CASE ~ \A key \in Plan[at].needs : StatusOf(key) = "PASS"
    <3>1. /\ at \in DOMAIN Plan /\ line' = 0 /\ at' = at + 1 /\ final' = final
          /\ results' = [results EXCEPT ![at] = "SKIPPED"]
      BY <1>2, <2>2 DEF StartScenario, Record
    <3>2. DependenciesPassed'
      BY <1>1, <3>1 DEF DependenciesPassed
    <3>3. \A n \in DOMAIN Plan : results'[n] = "NONE" <=> n >= at'
      BY <1>0, <3>1
    <3> QED
      BY <1>0, <3>1, <3>2, <3>3
  <2> QED
    BY <2>1, <2>2
<1>3. CASE BlockMain
  <2>1. /\ line' = 0 /\ at = MainStart /\ at' = MainEnd + 1 /\ final' = final
        /\ results' = [n \in DOMAIN Plan |->
             IF n \in MainStart..MainEnd THEN "NOT_EXECUTED" ELSE results[n]]
    BY <1>3 DEF BlockMain
  <2>2. DependenciesPassed'
    <3>1. \A n \in DOMAIN Plan : results'[n] = "PASS" => results[n] = "PASS"
      BY <2>1
    <3> QED
      BY <1>1, <2>1, <3>1 DEF DependenciesPassed
  <2>3. \A n \in DOMAIN Plan : results'[n] = "NONE" <=> n >= at'
    BY <1>0, <2>1, PlanIsSequence
  <2>4. at' \in 1..(Len(Plan) + 1) /\ DOMAIN results' = DOMAIN Plan
    BY <1>0, <2>1, PlanIsSequence
  <2> QED
    BY <2>1, <2>2, <2>3, <2>4
<1>4. ASSUME UNCHANGED <<at, results, final>>, line > 0 \/ line' = 0,
             line' \in Nat, line' > 0 => line' \in 1..End
      PROVE  PlaceOK'
  <2>1. End' = End
    BY <1>4 DEF End
  <2>2. line' > 0 => line > 0
    BY <1>4
  <2>3. DependenciesPassed'
    BY <1>1, <1>4, <2>2 DEF DependenciesPassed
  <2> QED
    BY <1>4, <2>1, <2>2, <2>3
<1>5. CASE ScenarioStep
  <2>1. /\ InScenario /\ Moves /\ at \in DOMAIN Plan /\ line \in Nat
    BY <1>5, StepsMove DEF InScenario
  <2>2. End \in Nat /\ Plan[at].body.finally \in 1..End
    BY <2>1, BodyIsWellFormed DEF End
  <2>3. line' \in 1..End
    BY <2>1, <2>2 DEF Moves, InScenario, Advance, Throw, place
  <2>4. UNCHANGED <<at, results, final>>
    BY <2>1 DEF Moves, Advance, Throw, place
  <2> QED
    BY <1>4, <2>1, <2>2, <2>3, <2>4 DEF InScenario
<1>6. CASE EndScenario
  <2>1. /\ at \in DOMAIN Plan /\ line = End /\ line' = 0 /\ at' = at + 1 /\ final' = final
        /\ \E status \in {"FAIL", "PASS"} : results' = [results EXCEPT ![at] = status]
    BY <1>6 DEF EndScenario, Record
  <2>2. line > 0
    BY <2>1, BodyIsWellFormed DEF End
  <2>3. DependenciesPassed'
    BY <1>1, <2>1, <2>2 DEF DependenciesPassed
  <2>4. \A n \in DOMAIN Plan : results'[n] = "NONE" <=> n >= at'
    BY <1>0, <2>1
  <2> QED
    BY <1>0, <2>1, <2>3, <2>4
<1>7. CASE Finish \/ CommandHangs
  <2>1. UNCHANGED <<at, line, results>> /\ final' \in {"PASS", "FAIL", "ABORTED", "HUNG"}
    BY <1>7 DEF Finish, CommandHangs, Verdict
  <2>2. End' = End
    BY <2>1 DEF End
  <2>3. DependenciesPassed'
    BY <1>1, <2>1 DEF DependenciesPassed
  <2> QED
    BY <2>1, <2>2, <2>3
<1>8. CASE Stack \/ Outside
  <2>1. UNCHANGED place
    BY <1>8 DEF Stack, Outside
  <2> QED
    BY <1>4, <2>1 DEF place
<1> QED
  BY <1>2, <1>3, <1>5, <1>6, <1>7, <1>8 DEF Next, Driver

-----------------------------------------------------------------------------
(* The stack *)

RowsOK ==
  /\ programState \in [Programs -> {"ABSENT", "LIVE"}]
  /\ invoice \in [Invoices -> {"ABSENT", "OPEN", "RESERVED", "REPAID"}]
  /\ reservation \in [ReservationIds -> ReservationRow \cup {NoReservation}]
  /\ price \in [Invoices -> Nat]
  /\ users \subseteq Users
  /\ tokens \in [Users -> Seq(BOOLEAN)]
  /\ \A u \in Users : tokens[u] # <<>> <=> u \in users

ContainersOK ==
  /\ kafka \in {"up", "down"} /\ app \in {"up", "starting", "down"}
  /\ fx \in {"original", "override"} /\ schema \in {"behind", "latest"}

\* What a crash makes a message start again from is no more than it had reached.
TreasuryOK ==
  /\ inHand \in [Partitions -> Nat]
  /\ reached \in [Partitions -> Nat]
  /\ \A part \in Partitions : inHand[part] <= reached[part]

StackOK == RowsOK /\ ContainersOK /\ TreasuryOK /\ published \subseteq outbox

\* An account keeps a token for as long as it is there.
LEMMA AccountsRequest ==
  ASSUME RowsOK, NEW q, NEW status, KnownRequest(q),
         Register(q, status) \/ Login(q, status) \/ Refresh(q, status)
  PROVE  RowsOK' /\ outbox' = outbox
<1> USE DEF RowsOK
<1>1. ASSUME NEW s \in Seq(BOOLEAN), NEW b \in BOOLEAN
      PROVE  Append(s, b) \in Seq(BOOLEAN) /\ Append(s, b) # <<>>
  BY AppendProperties, EmptySeq
<1>2. CASE Register(q, status)
  <2>1. /\ q.user \in Users /\ users' = users \cup {q.user}
        /\ tokens' = [tokens EXCEPT ![q.user] = <<TRUE>>]
        /\ UNCHANGED <<tables, price>>
    BY <1>2 DEF Register, KnownRequest
  <2>2. <<TRUE>> \in Seq(BOOLEAN) /\ <<TRUE>> # <<>>
    OBVIOUS
  <2> QED
    BY <2>1, <2>2 DEF tables, programVars
<1>3. ASSUME NEW s \in Seq(BOOLEAN), s # <<>>, q.user \in users,
             tokens' = [tokens EXCEPT ![q.user] = s], UNCHANGED <<tables, users, price>>
      PROVE  RowsOK' /\ outbox' = outbox
  BY <1>3 DEF tables, programVars
<1>4. CASE Login(q, status)
  <2>1. q.user \in users /\ tokens[q.user] \in Seq(BOOLEAN)
    BY <1>4 DEF Login
  <2> QED
    BY <1>1, <1>3, <1>4, <2>1 DEF Login
<1>5. CASE Refresh(q, status)
  <2>1. CASE UNCHANGED tokens
    BY <1>5, <2>1 DEF Refresh, tables, programVars
  <2>2. CASE ~ UNCHANGED tokens
    <3>1. /\ q.user \in users /\ q.n \in DOMAIN tokens[q.user]
          /\ tokens' = [tokens EXCEPT ![q.user] = Append([@ EXCEPT ![q.n] = FALSE], TRUE)]
          /\ UNCHANGED <<tables, users, price>>
      BY <1>5, <2>2 DEF Refresh
    <3>2. tokens[q.user] \in Seq(BOOLEAN)
      BY <3>1
    <3>3. [tokens[q.user] EXCEPT ![q.n] = FALSE] \in Seq(BOOLEAN)
      BY <3>1, <3>2
    <3> QED
      BY <1>1, <1>3, <3>1, <3>3
  <2> QED
    BY <2>1, <2>2
<1> QED
  BY <1>2, <1>4, <1>5

\* A reservation's row names a program and an invoice, and has its amount.
LEMMA ReservationRequest ==
  ASSUME RowsOK, NEW q, NEW status, NEW usd \in Nat, q.kind = "reserve",
         KnownRequest(q), PostReservation(q, usd, status)
  PROVE  RowsOK' /\ outbox \subseteq outbox'
<1>1. q.program \in Programs /\ q.invoice \in Invoices
  BY DEF KnownRequest
<1>2. CASE UNCHANGED tables
  BY <1>2 DEF PostReservation, RowsOK, tables, programVars
<1>3. ASSUME NEW r \in ReservationIds, CommitReservation(r, q.program, q.invoice, usd)
      PROVE  RowsOK' /\ outbox \subseteq outbox'
  BY <1>1, <1>3 DEF CommitReservation, PostReservation, RowsOK, ReservationRow,
     programVars
<1> QED
  BY <1>2, <1>3 DEF PostReservation, IsNextRow

\* The requests that leave users, tokens and the reservations' inserts alone.
LEMMA OtherRequest ==
  ASSUME RowsOK, NEW q, NEW status, KnownRequest(q),
         \/ Get(q, status) \/ Unauthorized(q, status) \/ PostProgram(q, status)
         \/ PostInvoice(q, status) \/ PostRelease(q, status)
  PROVE  RowsOK' /\ outbox \subseteq outbox'
<1> USE DEF RowsOK, tables, programVars
<1>1. CASE Get(q, status) \/ Unauthorized(q, status)
  BY <1>1 DEF Get, Unauthorized, rows
<1>2. CASE PostProgram(q, status)
  BY <1>2 DEF PostProgram, CommitProgram
<1>3. CASE PostInvoice(q, status)
  <2>1. CASE UNCHANGED <<tables, price>>
    BY <1>3, <2>1 DEF PostInvoice
  <2>2. CASE ~ UNCHANGED <<tables, price>>
    <3>1. /\ CommitInvoice(q.invoice)
          /\ price' = [price EXCEPT ![q.invoice] = q.usd]
          /\ UNCHANGED <<users, tokens>>
          /\ q.kind = "invoice"
      BY <1>3, <2>2 DEF PostInvoice
    <3>2. q.invoice \in Invoices /\ q.usd \in Nat
      BY <3>1 DEF KnownRequest
    <3> QED
      BY <3>1, <3>2 DEF CommitInvoice
  <2> QED
    BY <2>1, <2>2
<1>4. CASE PostRelease(q, status)
  <2>1. PICK r \in RowsOf(q.invoice) :
          IF reservation[r].status = "ACTIVE"
            THEN CommitRelease(r, reservation[r]) ELSE UNCHANGED tables
    BY <1>4 DEF PostRelease
  <2>2. UNCHANGED <<users, tokens, price>>
    BY <1>4 DEF PostRelease
  <2>3. r \in ReservationIds /\ reservation[r] \in ReservationRow
    BY <2>1 DEF RowsOf
  <2>4. CASE UNCHANGED tables
    BY <2>2, <2>4
  <2>5. CASE CommitRelease(r, reservation[r])
    BY <2>2, <2>3, <2>5 DEF CommitRelease, ReservationRow
  <2> QED
    BY <2>1, <2>4, <2>5
<1> QED
  BY <1>1, <1>2, <1>3, <1>4

\* A request leaves the rows as the columns allow them, and events are added only.
LEMMA RequestKeepsStack ==
  ASSUME StackOK, NEW q, NEW status, KnownRequest(q), Request(q, status)
  PROVE  StackOK'
<1>1. ASSUME NEW s, Handle(q, s)
      PROVE  RowsOK' /\ outbox \subseteq outbox'
  <2>1. CASE q.kind = "reserve" /\ PostReservation(q, price[q.invoice], s)
    <3>1. price[q.invoice] \in Nat
      BY <2>1 DEF StackOK, RowsOK, KnownRequest
    <3> QED
      BY <2>1, <3>1, ReservationRequest DEF StackOK
  <2> QED
    BY <1>1, <2>1, AccountsRequest, OtherRequest DEF Handle, StackOK
<1>2. ASSUME NEW usd \in Quotes[q.invoice], q.kind = "reserve",
             PostReservation(q, usd, status)
      PROVE  RowsOK' /\ outbox \subseteq outbox'
  <2>1. usd \in Nat
    BY <1>2, TablesAssumption DEF KnownRequest
  <2> QED
    BY <1>2, <2>1, ReservationRequest DEF StackOK
<1>3. RowsOK' /\ outbox \subseteq outbox'
  <2>1. UNCHANGED rows => RowsOK' /\ outbox' = outbox
    BY DEF StackOK, RowsOK, rows, tables, programVars
  <2> QED
    BY <1>1, <1>2, <2>1 DEF Request
<1>4. UNCHANGED <<published, containers, treasury>>
  BY DEF Request
<1> QED
  BY <1>3, <1>4 DEF StackOK, ContainersOK, TreasuryOK, containers, treasury

\* A step that touches neither rows nor containers, and the messages not at all.
LEMMA UntouchedStack ==
  ASSUME StackOK, UNCHANGED <<rows, published, containers, inHand, reached>>
  PROVE  StackOK'
BY DEF StackOK, RowsOK, ContainersOK, TreasuryOK, rows, tables, programVars, containers

\* What the stack does by itself, and a message that is given up.
LEMMA StackKeepsStack ==
  ASSUME StackOK,
         \/ StackWorks
         \/ AppCrash
         \/ \E part \in Partitions : DeadLetter(part)
  PROVE  StackOK'
<1> USE DEF StackOK
<1>0. UNCHANGED rows => RowsOK' /\ outbox' = outbox
  BY DEF RowsOK, rows, tables, programVars
<1>1. ASSUME NEW part \in Partitions, ConsumeEntry(part)
      PROVE  StackOK'
  <2> DEFINE done == inHand[part] + 1
  <2>1. /\ inHand' = [inHand EXCEPT ![part] = done]
        /\ reached' = [reached EXCEPT ![part] = IF @ < done THEN done ELSE @]
        /\ UNCHANGED <<users, tokens, price, published, containers>>
    BY <1>1 DEF ConsumeEntry
  <2>2. /\ UNCHANGED <<programState, invoice, reservation>>
        /\ outbox \subseteq outbox'
    BY <1>1 DEF ConsumeEntry, CommitReconciliation, tables, programVars
  <2>3. TreasuryOK'
    BY <2>1 DEF TreasuryOK
  <2> QED
    BY <2>1, <2>2, <2>3 DEF RowsOK, ContainersOK, containers
<1>2. ASSUME NEW part \in Partitions, CommitOffset(part) \/ DeadLetter(part)
      PROVE  StackOK'
  <2>1. /\ inHand' = [inHand EXCEPT ![part] = 0]
        /\ reached' = [reached EXCEPT ![part] = 0]
        /\ UNCHANGED <<rows, published, containers>>
    BY <1>2 DEF CommitOffset, DeadLetter, Pass
  <2>2. TreasuryOK'
    BY <2>1 DEF TreasuryOK
  <2> QED
    BY <1>0, <2>1, <2>2 DEF ContainersOK, containers
<1>3. CASE PublishOutbox
  BY <1>0, <1>3 DEF PublishOutbox, ContainersOK, TreasuryOK, containers, treasury
<1>4. CASE AppReady
  BY <1>0, <1>4 DEF AppReady, ContainersOK, TreasuryOK, treasury
<1>5. CASE AppCrash
  BY <1>0, <1>5 DEF AppCrash, NewProcess, ContainersOK, TreasuryOK
<1> QED
  BY <1>1, <1>2, <1>3, <1>4, <1>5 DEF StackWorks

\* The driver's commands.
LEMMA CommandKeepsStack ==
  ASSUME StackOK, NEW command, NEW ok, Compose(command, ok) \/ MigrateUp(ok)
  PROVE  StackOK'
<1> USE DEF StackOK
<1>0. UNCHANGED rows => RowsOK' /\ outbox' = outbox
  BY DEF RowsOK, rows, tables, programVars
<1>1. CASE MigrateUp(ok)
  BY <1>0, <1>1 DEF MigrateUp, ContainersOK, TreasuryOK, treasury
<1>2. CASE Compose(command, ok)
  <2>1. UNCHANGED <<rows, published, reached>>
    BY <1>2 DEF Compose
  <2>2. CASE ComposeEffect(command)
    <3>1. /\ kafka' \in {"up", "down"} /\ fx' \in {"original", "override"}
          /\ UNCHANGED schema
          /\ NewProcess \/ KeepApp
      BY <2>2 DEF ComposeEffect, ContainersOK
    <3>2. TreasuryOK' /\ app' \in {"up", "starting", "down"}
      BY <2>1, <3>1 DEF NewProcess, KeepApp, TreasuryOK, ContainersOK
    <3> QED
      BY <1>0, <2>1, <3>1, <3>2 DEF ContainersOK
  <2>3. CASE UNCHANGED <<containers, inHand>>
    BY <2>1, <2>3, UntouchedStack
  <2> QED
    BY <1>2, <2>2, <2>3 DEF Compose
<1> QED
  BY <1>1, <1>2

-----------------------------------------------------------------------------
(* Driver and stack together *)

\* The names in the step at hand are known.
LEMMA StepKnown ==
  ASSUME PlaceOK, NEW op, Doing(op)
  PROVE  KnownNames(Step) /\ Step.op = op
<1>1. at \in DOMAIN Plan /\ line \in 1..Len(Plan[at].body.steps)
  BY BodyIsWellFormed DEF PlaceOK, Doing, End
<1> QED
  BY <1>1, BodyIsWellFormed DEF Step, Doing

\* Whatever a step asks of the stack leaves it well-typed.
LEMMA StepKeepsStack ==
  ASSUME StackOK, PlaceOK, ScenarioStep
  PROVE  StackOK'
<1>1. CASE AskStep
  <2>1. PICK status : Request(Step.request, status)
    BY <1>1 DEF AskStep
  <2>2. KnownRequest(Step.request)
    BY <1>1, StepKnown DEF AskStep, KnownNames
  <2> QED
    BY <2>1, <2>2, RequestKeepsStack
<1>2. CASE RaceStep
  <2>1. PICK n \in DOMAIN Step.requests :
          \E status \in Statuses \cup {NoAnswer} : Request(Step.requests[n], status)
    BY <1>2 DEF RaceStep
  <2>2. KnownRequest(Step.requests[n])
    BY <1>2, StepKnown DEF RaceStep, KnownNames
  <2> QED
    BY <2>1, <2>2, RequestKeepsStack
<1>3. CASE ComposeStep \/ MigrateStep
  BY <1>3, CommandKeepsStack DEF ComposeStep, MigrateStep
<1>4. CASE PublishStep \/ FlushStep
  BY <1>4, UntouchedStack DEF PublishStep, FlushStep, Publish
<1>5. CASE \/ AwaitStep \/ CheckStep \/ ReadStep \/ TrackStep \/ BaselineStep
           \/ RememberStep
  BY <1>5, UntouchedStack DEF AwaitStep, CheckStep, ReadStep, TrackStep,
     BaselineStep, RememberStep, stackVars, treasury
<1>6. CASE PrintenvStep \/ StepFails
  BY <1>6, UntouchedStack DEF PrintenvStep, StepFails, treasury
<1> QED
  BY <1>1, <1>2, <1>3, <1>4, <1>5, <1>6 DEF ScenarioStep

\* The inductive invariant.
ValidationInv == StackOK /\ PlaceOK

\* What an earlier run left behind is of the invariant's types.
LEMMA ValidationInit == Init => ValidationInv
<1> SUFFICES ASSUME Init PROVE ValidationInv
  OBVIOUS
<1>1. RowsOK
  BY DEF Init, RowsOK, ReservationRow
<1>2. ContainersOK /\ TreasuryOK /\ published \subseteq outbox
  BY DEF Init, ContainersOK, TreasuryOK
<1>3. PlaceOK
  <2>1. \A n \in DOMAIN Plan : results[n] = "NONE" /\ n >= at
    BY PlanIsSequence DEF Init
  <2>2. DependenciesPassed
    BY <2>1 DEF Init, DependenciesPassed
  <2> QED
    BY <2>1, <2>2, PlanIsSequence DEF Init, PlaceOK
<1> QED
  BY <1>1, <1>2, <1>3 DEF ValidationInv, StackOK

\* The driver's place and the stack are kept by every step.
LEMMA ValidationNext ==
  ASSUME ValidationInv, [Next]_vars
  PROVE  ValidationInv'
<1> USE DEF ValidationInv
<1>1. CASE Next
  <2>0. PlaceOK'
    BY <1>1, PlaceNext
  <2>1. CASE ScenarioStep
    BY <2>0, <2>1, StepKeepsStack
  <2>2. CASE Stack \/ Outside
    BY <2>0, <2>2, StackKeepsStack DEF Stack, Outside
  <2>3. CASE StartScenario \/ BlockMain \/ EndScenario \/ Finish \/ CommandHangs
    BY <2>0, <2>3, UntouchedStack DEF StartScenario, BlockMain, EndScenario, Finish, CommandHangs,
       stackVars, treasury
  <2> QED
    BY <1>1, <2>1, <2>2, <2>3 DEF Next, Driver
<1>2. CASE UNCHANGED vars
  <2>1. StackOK'
    BY <1>2, UntouchedStack DEF vars, stackVars, treasury
  <2>2. UNCHANGED <<at, line, results, final>>
    BY <1>2 DEF vars, place
  <2>3. End' = End
    BY <2>2 DEF End
  <2>4. DependenciesPassed'
    <3>1. DependenciesPassed
      BY DEF PlaceOK
    <3> QED
      BY <2>2, <3>1 DEF DependenciesPassed, StatusOf
  <2> QED
    BY <2>1, <2>2, <2>3, <2>4 DEF PlaceOK
<1> QED
  BY <1>1, <1>2

-----------------------------------------------------------------------------
(* Theorems *)

\* The inductive invariant holds in every behaviour.
THEOREM ValidationInvariant == Spec => []ValidationInv
  BY ValidationInit, ValidationNext, PTL DEF Spec

\* The stack and the driver keep their types: the driver stays within its plan,
\* and the scenarios before the one in hand, and no others, have a result.
THEOREM ValidationTypes == Spec => []ValidationTypeOK
<1>1. ValidationInv => ValidationTypeOK
  BY DEF ValidationInv, StackOK, RowsOK, ContainersOK, TreasuryOK, PlaceOK,
     ValidationTypeOK
<1>2. QED
  BY <1>1, ValidationInvariant, PTL

\* ScenarioRunner never takes up a scenario, and never reports one as PASS, of
\* whose dependencies one has not passed.
THEOREM DependenciesCome == Spec => []DependenciesPassed
<1>1. ValidationInv => DependenciesPassed
  BY DEF ValidationInv, PlaceOK
<1>2. QED
  BY <1>1, ValidationInvariant, PTL

\* A result in the report is the one its scenario ended with: none is written
\* over by a later scenario or by the block of the main phase.
ResultsStand ==
  [][\A n \in DOMAIN Plan : results[n] # "NONE" => results'[n] = results[n]]_vars

\* The report of a run is never written over.
THEOREM ResultsKept == Spec => ResultsStand
<1>1. ValidationInv /\ [Next]_vars =>
        [\A n \in DOMAIN Plan : results[n] # "NONE" => results'[n] = results[n]]_vars
  BY ResultStands DEF ValidationInv
<1>2. QED
  BY <1>1, ValidationInvariant, PTL DEF Spec, ResultsStand

-----------------------------------------------------------------------------
(* Messages under way *)

Batches ==
  {"aborted", "sentinel"}
    \cup UNION {{StepAt(n, k).batch : k \in DOMAIN StepsOf(n)} : n \in DOMAIN Plan}
EntryType == [batch: Batches, program: Programs, version: Nat, total: Nat]
MessageType == [entries: Seq(EntryType)]

QueuesOK ==
  /\ topic \in [Partitions -> Seq(MessageType)]
  /\ version \in [Programs -> Nat]
  /\ TreasuryOK

\* Entry k of the n-th message of a partition.
EntryAt(part, n, k) == topic[part][n].entries[k]

\* Entry e is one of a message on the topic.
UnderWay(e) ==
  \E part \in Partitions : \E n \in DOMAIN topic[part] :
    \E k \in DOMAIN topic[part][n].entries : EntryAt(part, n, k) = e

\* Undelivered, in one partition.
Owed(p, part) ==
  \E n \in DOMAIN topic[part] : \E k \in DOMAIN topic[part][n].entries :
    /\ EntryAt(part, n, k).program = p
    /\ n = 1 => k > reached[part]
Delivered(part) == \A p \in Programs : ~ Owed(p, part)

\* The last message of a partition has one entry, on p, and no entry on p has
\* its version or a later one, nor has p itself.
Pending(part, p, v) ==
  LET last == Len(topic[part]) IN
  /\ last > 0
  /\ \A k \in DOMAIN topic[part][last].entries :
       /\ k = 1
       /\ EntryAt(part, last, k).program = p
  /\ version[p] < v
  /\ \A q \in Partitions : \A n \in DOMAIN topic[q] :
       \A k \in DOMAIN topic[q][n].entries :
         EntryAt(q, n, k).program = p /\ ~ (q = part /\ n = last)
           => EntryAt(q, n, k).version < v

\* What the stack does with messages: nothing, handle an entry, pass one by.
Rests == UNCHANGED <<topic, reached, version>>
Handles(part) ==
  LET e == EntryAt(part, 1, inHand[part] + 1) IN
  /\ topic[part] # <<>>
  /\ inHand[part] + 1 \in DOMAIN topic[part][1].entries
  /\ UNCHANGED topic
  /\ \/ UNCHANGED version
     \/ e.version > version[e.program]
        /\ version' = [version EXCEPT ![e.program] = e.version]
  /\ reached' = [reached EXCEPT ![part] =
       IF @ < inHand[part] + 1 THEN inHand[part] + 1 ELSE @]
Passes(part) ==
  /\ topic[part] # <<>>
  /\ topic' = [topic EXCEPT ![part] = Tail(@)]
  /\ reached' = [reached EXCEPT ![part] = 0]
  /\ UNCHANGED version
Stirs == Rests \/ \E part \in Partitions : Handles(part) \/ Passes(part)
Accepts(key, message) ==
  /\ topic' = [topic EXCEPT ![PartitionOf[key]] = Append(@, message)]
  /\ UNCHANGED <<reached, version>>

\* Every message and every entry has its type.
LEMMA EntryTypes ==
  ASSUME QueuesOK, NEW part \in Partitions, NEW n \in DOMAIN topic[part]
  PROVE  /\ Len(topic[part]) \in Nat /\ DOMAIN topic[part] = 1..Len(topic[part])
         /\ topic[part][n] \in MessageType
         /\ Len(topic[part][n].entries) \in Nat
         /\ DOMAIN topic[part][n].entries = 1..Len(topic[part][n].entries)
         /\ \A k \in DOMAIN topic[part][n].entries : EntryAt(part, n, k) \in EntryType
<1>1. topic[part] \in Seq(MessageType)
  BY DEF QueuesOK
<1>2. Len(topic[part]) \in Nat /\ DOMAIN topic[part] = 1..Len(topic[part])
  BY <1>1
<1>3. topic[part][n] \in MessageType
  BY <1>1, <1>2
<1>4. topic[part][n].entries \in Seq(EntryType)
  BY <1>3 DEF MessageType
<1> QED
  BY <1>2, <1>3, <1>4 DEF EntryAt

\* A message that is passed by takes the others' places by one.
LEMMA PassingShifts ==
  ASSUME QueuesOK, NEW part \in Partitions, Passes(part)
  PROVE  /\ topic' \in [Partitions -> Seq(MessageType)]
         /\ DOMAIN topic'[part] = 1..(Len(topic[part]) - 1)
         /\ Len(topic'[part]) = Len(topic[part]) - 1
         /\ \A n \in DOMAIN topic'[part] :
              n + 1 \in DOMAIN topic[part] /\ topic'[part][n] = topic[part][n+1]
         /\ \A q \in Partitions \ {part} : topic'[q] = topic[q]
         /\ reached'[part] = 0
         /\ \A q \in Partitions \ {part} : reached'[q] = reached[q]
<1>1. topic[part] \in Seq(MessageType) /\ topic[part] # <<>>
  BY DEF QueuesOK, Passes
<1>2. /\ Tail(topic[part]) \in Seq(MessageType)
      /\ Len(topic[part]) \in Nat
      /\ Len(Tail(topic[part])) = Len(topic[part]) - 1
      /\ DOMAIN topic[part] = 1..Len(topic[part])
      /\ DOMAIN Tail(topic[part]) = 1..(Len(topic[part]) - 1)
      /\ \A n \in 1..(Len(topic[part]) - 1) : Tail(topic[part])[n] = topic[part][n+1]
  BY <1>1, HeadTailProperties, LenProperties
<1>3. /\ topic'[part] = Tail(topic[part])
      /\ \A q \in Partitions \ {part} : topic'[q] = topic[q]
      /\ topic' \in [Partitions -> Seq(MessageType)]
  BY <1>2 DEF Passes, QueuesOK
<1>4. /\ reached'[part] = 0
      /\ \A q \in Partitions \ {part} : reached'[q] = reached[q]
  BY DEF Passes, QueuesOK, TreasuryOK
<1> QED
  BY <1>2, <1>3, <1>4

\* What the stack does leaves messages where they were, or one place further.
LEMMA StirringKeepsEntries ==
  ASSUME QueuesOK, Stirs, NEW part \in Partitions,
         NEW n \in DOMAIN topic'[part], NEW k \in DOMAIN topic'[part][n].entries
  PROVE  \E m \in DOMAIN topic[part] :
           /\ topic'[part][n] = topic[part][m]
           /\ m # n => m = n + 1
           /\ m = 1 => reached[part] <= reached'[part]
           /\ Len(topic'[part]) - n = Len(topic[part]) - m
<1>1. CASE Rests
  BY <1>1, EntryTypes DEF Rests, QueuesOK, TreasuryOK
<1>2. ASSUME NEW q \in Partitions, Handles(q)
      PROVE  \E m \in DOMAIN topic[part] :
               /\ topic'[part][n] = topic[part][m]
               /\ m # n => m = n + 1
               /\ m = 1 => reached[part] <= reached'[part]
               /\ Len(topic'[part]) - n = Len(topic[part]) - m
  <2>1. reached[part] <= reached'[part]
    BY <1>2 DEF Handles, QueuesOK, TreasuryOK
  <2> QED
    BY <1>2, <2>1, EntryTypes DEF Handles
<1>3. ASSUME NEW q \in Partitions, Passes(q)
      PROVE  \E m \in DOMAIN topic[part] :
               /\ topic'[part][n] = topic[part][m]
               /\ m # n => m = n + 1
               /\ m = 1 => reached[part] <= reached'[part]
               /\ Len(topic'[part]) - n = Len(topic[part]) - m
  <2>1. CASE q = part
    <3>1. /\ n + 1 \in DOMAIN topic[part] /\ topic'[part][n] = topic[part][n+1]
          /\ Len(topic'[part]) = Len(topic[part]) - 1
          /\ n \in 1..(Len(topic[part]) - 1)
      BY <1>3, <2>1, PassingShifts
    <3>2. Len(topic[part]) \in Nat /\ n + 1 # 1
      BY <3>1, EntryTypes
    <3> QED
      BY <3>1, <3>2
  <2>2. CASE q # part
    <3>1. topic'[part] = topic[part] /\ reached'[part] = reached[part]
      BY <1>3, <2>2, PassingShifts
    <3>2. reached[part] \in Nat
      BY DEF QueuesOK, TreasuryOK
    <3> QED
      BY <3>1, <3>2, EntryTypes
  <2> QED
    BY <2>1, <2>2
<1> QED
  BY <1>1, <1>2, <1>3 DEF Stirs

\* No entry appears, none becomes undelivered again, and a treasury version is
\* the one before or the newer one of an entry.
LEMMA StirringDelivers ==
  ASSUME QueuesOK, Stirs
  PROVE  /\ topic' \in [Partitions -> Seq(MessageType)]
         /\ version' \in [Programs -> Nat]
         /\ \A e : UnderWay(e)' => UnderWay(e)
         /\ \A p, part : part \in Partitions /\ Owed(p, part)' => Owed(p, part)
         /\ \A p \in Programs :
              \/ version'[p] = version[p]
              \/ /\ version'[p] > version[p]
                 /\ \E e : UnderWay(e) /\ e.program = p /\ e.version = version'[p]
<1>1. topic' \in [Partitions -> Seq(MessageType)]
  BY PassingShifts DEF Stirs, Rests, Handles, QueuesOK
<1>2. ASSUME NEW e, UnderWay(e)'
      PROVE  UnderWay(e)
  <2>0. PICK part \in Partitions : \E n \in DOMAIN topic'[part] :
          \E k \in DOMAIN topic'[part][n].entries : topic'[part][n].entries[k] = e
    BY <1>2 DEF UnderWay, EntryAt
  <2>1. PICK n \in DOMAIN topic'[part] :
          \E k \in DOMAIN topic'[part][n].entries : topic'[part][n].entries[k] = e
    BY <2>0
  <2>2. PICK k \in DOMAIN topic'[part][n].entries : topic'[part][n].entries[k] = e
    BY <2>1
  <2>3. PICK m \in DOMAIN topic[part] : topic'[part][n] = topic[part][m]
    BY <2>1, <2>2, StirringKeepsEntries
  <2> QED
    BY <2>2, <2>3 DEF UnderWay, EntryAt
<1>3. ASSUME NEW p, NEW part \in Partitions, Owed(p, part)'
      PROVE  Owed(p, part)
  <2>1. PICK n \in DOMAIN topic'[part] : \E k \in DOMAIN topic'[part][n].entries :
          /\ topic'[part][n].entries[k].program = p
          /\ n = 1 => k > reached'[part]
    BY <1>3 DEF Owed, EntryAt
  <2>2. PICK k \in DOMAIN topic'[part][n].entries :
          /\ topic'[part][n].entries[k].program = p
          /\ n = 1 => k > reached'[part]
    BY <2>1
  <2>3. PICK m \in DOMAIN topic[part] :
          /\ topic'[part][n] = topic[part][m]
          /\ m # n => m = n + 1
          /\ m = 1 => reached[part] <= reached'[part]
    BY <2>1, <2>2, StirringKeepsEntries
  <2>4. n \in Nat \ {0}
    BY <1>1
  <2>5. k \in Nat
    BY <2>2, <2>3, EntryTypes
  <2>6. m = 1 => k > reached[part]
    <3>1. reached[part] \in Nat /\ reached'[part] \in Nat
      BY DEF QueuesOK, TreasuryOK, Stirs, Rests, Handles, Passes
    <3> QED
      BY <2>2, <2>3, <2>4, <2>5, <3>1
  <2> QED
    BY <2>2, <2>3, <2>6 DEF Owed, EntryAt
<1>4. /\ version' \in [Programs -> Nat]
      /\ \A p \in Programs :
           \/ version'[p] = version[p]
           \/ /\ version'[p] > version[p]
              /\ \E e : UnderWay(e) /\ e.program = p /\ e.version = version'[p]
  <2>1. CASE UNCHANGED version
    BY <2>1 DEF QueuesOK
  <2>2. CASE ~ UNCHANGED version
    <3>1. PICK part \in Partitions : Handles(part)
      BY <2>2 DEF Stirs, Rests, Passes
    <3> DEFINE e == EntryAt(part, 1, inHand[part] + 1)
    <3>2. /\ topic[part] # <<>> /\ inHand[part] + 1 \in DOMAIN topic[part][1].entries
          /\ e.version > version[e.program]
          /\ version' = [version EXCEPT ![e.program] = e.version]
      BY <2>2, <3>1 DEF Handles
    <3>3. 1 \in DOMAIN topic[part]
      BY <3>2, EmptySeq DEF QueuesOK
    <3>4. e \in EntryType /\ UnderWay(e)
      BY <3>2, <3>3, EntryTypes DEF UnderWay
    <3> HIDE DEF e
    <3> QED
      BY <3>2, <3>4 DEF EntryType, QueuesOK
  <2> QED
    BY <2>1, <2>2
<1> QED
  BY <1>1, <1>2, <1>3, <1>4

\* A marker is handled last of all: while it waits it is the newest and the last.
LEMMA StirringKeepsMarker ==
  ASSUME QueuesOK, Stirs, NEW part \in Partitions, NEW p \in Programs, NEW v \in Nat,
         Pending(part, p, v)
  PROVE  Delivered(part)' \/ Pending(part, p, v)'
<1> DEFINE last == Len(topic[part])
<1>0. /\ Len(topic'[part]) \in Nat /\ Len(topic[part]) \in Nat
      /\ \A q \in Partitions : DOMAIN topic'[q] = 1..Len(topic'[q])
      /\ \A q \in Partitions : DOMAIN topic[q] = 1..Len(topic[q]) /\ Len(topic[q]) \in Nat
  BY StirringDelivers DEF QueuesOK
<1>1. ASSUME NEW q \in Partitions, NEW n \in DOMAIN topic'[q],
             NEW k \in DOMAIN topic'[q][n].entries,
             topic'[q][n].entries[k].program = p, ~ (q = part /\ n = Len(topic'[part]))
      PROVE  topic'[q][n].entries[k].version < v
  <2>1. PICK m \in DOMAIN topic[q] : /\ topic'[q][n] = topic[q][m]
                                     /\ Len(topic'[q]) - n = Len(topic[q]) - m
    BY <1>1, StirringKeepsEntries
  <2>2. ~ (q = part /\ m = Len(topic[part]))
    BY <1>0, <1>1, <2>1
  <2> QED
    BY <1>1, <2>1, <2>2 DEF Pending, EntryAt
<1>2. ASSUME topic'[part] # <<>>
      PROVE  /\ Len(topic'[part]) > 0
             /\ topic'[part][Len(topic'[part])] = topic[part][last]
  <2>1. Len(topic'[part]) > 0 /\ Len(topic'[part]) \in DOMAIN topic'[part]
    BY <1>0, <1>2, StirringDelivers, EmptySeq
  <2>2. last > 0
    BY DEF Pending
  <2>3. CASE topic'[part] = topic[part]
    BY <2>1, <2>3
  <2>4. CASE topic'[part] # topic[part]
    <3>1. Passes(part)
      <4>1. PICK q \in Partitions : Passes(q)
        BY <2>4 DEF Stirs, Rests, Handles
      <4> QED
        BY <2>4, <4>1, PassingShifts
    <3>2. /\ Len(topic'[part]) = last - 1
          /\ topic'[part][last - 1] = topic[part][last]
      BY <1>0, <2>1, <3>1, PassingShifts
    <3> QED
      BY <2>1, <3>2
  <2> QED
    BY <2>3, <2>4
<1>3. CASE topic'[part] = <<>>
  BY <1>3 DEF Delivered, Owed
<1>4. CASE topic'[part] # <<>> /\ version'[p] < v
  <2>1. \A k \in DOMAIN topic'[part][Len(topic'[part])].entries :
          k = 1 /\ topic'[part][Len(topic'[part])].entries[k].program = p
    BY <1>2, <1>4 DEF Pending, EntryAt
  <2> QED
    BY <1>1, <1>2, <1>4, <2>1 DEF Pending, EntryAt
<1>5. CASE topic'[part] # <<>> /\ ~ version'[p] < v
  <2>1. version[p] < v /\ version[p] \in Nat
    BY DEF Pending, QueuesOK
  <2>2. PICK q \in Partitions : Handles(q)
    BY <1>5, <2>1 DEF Stirs, Rests, Passes
  <2> DEFINE e == EntryAt(q, 1, inHand[q] + 1)
  <2>3. /\ topic[q] # <<>> /\ inHand[q] + 1 \in DOMAIN topic[q][1].entries
        /\ UNCHANGED topic
        /\ version' = [version EXCEPT ![e.program] = e.version]
    BY <1>5, <2>1, <2>2 DEF Handles
  <2>4. 1 \in DOMAIN topic[q]
    BY <2>3, EmptySeq DEF QueuesOK
  <2>5. e \in EntryType
    BY <2>3, <2>4, EntryTypes
  <2>6. e.program = p /\ ~ e.version < v
    BY <1>5, <2>1, <2>3, <2>5 DEF QueuesOK, EntryType
  <2>7. q = part /\ last = 1
    BY <1>0, <2>3, <2>4, <2>6 DEF Pending
  <2>8. /\ inHand[part] + 1 = 1
        /\ \A k \in DOMAIN topic[part][1].entries : k = 1
    BY <2>3, <2>7 DEF Pending
  <2>9. reached'[part] >= 1
    <3>1. reached[part] \in Nat /\ inHand[part] \in Nat
      BY DEF QueuesOK, TreasuryOK
    <3> QED
      BY <2>2, <2>7, <2>8, <3>1 DEF Handles, QueuesOK, TreasuryOK
  <2>10. \A n \in DOMAIN topic'[part] : \A k \in DOMAIN topic'[part][n].entries :
           n = 1 /\ ~ k > reached'[part]
    <3>1. reached'[part] \in Nat
      BY <2>2 DEF Handles, QueuesOK, TreasuryOK
    <3> QED
      BY <1>0, <2>3, <2>7, <2>8, <2>9, <3>1
  <2> QED
    BY <2>10 DEF Delivered, Owed
<1> QED
  BY <1>3, <1>4, <1>5

\* What is delivered stays so until the next message.
LEMMA StirringStaysDelivered ==
  ASSUME QueuesOK, Stirs, NEW part \in Partitions, Delivered(part)
  PROVE  Delivered(part)'
BY StirringDelivers DEF Delivered

-----------------------------------------------------------------------------
(* What the actions do with messages *)

\* Handling an entry, committing an offset and giving a message up; a crash
\* forgets how far the process was, and nothing else.
LEMMA StackStirs ==
  ASSUME QueuesOK,
         \/ StackWorks
         \/ AppCrash
         \/ \E part \in Partitions : DeadLetter(part)
  PROVE  Stirs
<1>1. ASSUME NEW part \in Partitions, ConsumeEntry(part)
      PROVE  Stirs
  <2> DEFINE e == Head(topic[part]).entries[inHand[part] + 1]
  <2>1. /\ topic[part] # <<>> /\ inHand[part] < Len(Head(topic[part]).entries)
        /\ UNCHANGED topic
        /\ reached' = [reached EXCEPT ![part] =
             IF @ < inHand[part] + 1 THEN inHand[part] + 1 ELSE @]
    BY <1>1 DEF ConsumeEntry
  <2>2. Head(topic[part]) = topic[part][1] /\ 1 \in DOMAIN topic[part]
    BY <2>1, HeadTailProperties, EmptySeq DEF QueuesOK
  <2>3. inHand[part] + 1 \in DOMAIN topic[part][1].entries
    <3>1. inHand[part] \in Nat
      BY DEF QueuesOK, TreasuryOK
    <3> QED
      BY <2>1, <2>2, <3>1, EntryTypes
  <2>4. \/ UNCHANGED version
        \/ e.version > version[e.program]
           /\ version' = [version EXCEPT ![e.program] = e.version]
    BY <1>1 DEF ConsumeEntry, CommitReconciliation, tables, programVars
  <2> QED
    BY <2>1, <2>2, <2>3, <2>4 DEF Stirs, Handles, EntryAt
<1>2. ASSUME NEW part \in Partitions, CommitOffset(part) \/ DeadLetter(part)
      PROVE  Stirs
  BY <1>2 DEF CommitOffset, DeadLetter, Pass, Stirs, Passes, rows, tables, programVars
<1>3. CASE PublishOutbox \/ AppReady \/ AppCrash
  BY <1>3 DEF PublishOutbox, AppReady, AppCrash, NewProcess, Stirs, Rests, rows, tables,
     programVars, treasury
<1> QED
  BY <1>1, <1>2, <1>3 DEF StackWorks

\* No request has to do with messages.
LEMMA RequestRests ==
  ASSUME NEW q, NEW status, Request(q, status)
  PROVE  Rests
<1>1. UNCHANGED version
  <2>1. \A s : Handle(q, s) => UNCHANGED version
    BY DEF Handle, Register, Login, Refresh, Get, Unauthorized, PostProgram, PostInvoice,
       PostReservation, PostRelease, CommitProgram, CommitInvoice, CommitReservation,
       CommitRelease, rows, tables, programVars
  <2>2. \A usd : PostReservation(q, usd, status) => UNCHANGED version
    BY DEF PostReservation, CommitReservation, tables, programVars
  <2> QED
    BY <2>1, <2>2 DEF Request, rows, tables, programVars
<1> QED
  BY <1>1 DEF Request, Rests, treasury

\* Only publish and flush send messages.
LEMMA StepRests ==
  ASSUME ScenarioStep
  PROVE  Rests \/ PublishStep \/ FlushStep
<1> USE DEF Rests
<1>1. CASE AskStep \/ RaceStep
  BY <1>1, RequestRests DEF AskStep, RaceStep
<1>2. CASE AwaitStep \/ CheckStep \/ ReadStep \/ TrackStep \/ BaselineStep \/ RememberStep
  BY <1>2 DEF AwaitStep, CheckStep, ReadStep, TrackStep, BaselineStep, RememberStep,
     stackVars, rows, tables, programVars, treasury
<1>3. CASE PrintenvStep \/ StepFails
  BY <1>3 DEF PrintenvStep, StepFails, rows, tables, programVars, treasury
<1>4. CASE ComposeStep \/ MigrateStep
  BY <1>4 DEF ComposeStep, MigrateStep, Compose, MigrateUp, rows, tables, programVars,
     treasury
<1> QED
  BY <1>1, <1>2, <1>3, <1>4 DEF ScenarioStep

\* A message that is sent is the last of its partition.
LEMMA SendingAdds ==
  ASSUME QueuesOK, NEW key \in Keys, NEW message \in MessageType, Accepts(key, message)
  PROVE  /\ topic' \in [Partitions -> Seq(MessageType)]
         /\ \A e : UnderWay(e)' =>
              UnderWay(e) \/ \E k \in DOMAIN message.entries : message.entries[k] = e
         /\ \A p, part : part \in Partitions /\ Owed(p, part)' =>
              \/ Owed(p, part)
              \/ /\ part = PartitionOf[key]
                 /\ \E k \in DOMAIN message.entries : message.entries[k].program = p
         /\ \A p, v :
              /\ \A k \in DOMAIN message.entries :
                   k = 1 /\ message.entries[k].program = p
              /\ version[p] < v
              /\ \A e : UnderWay(e) /\ e.program = p => e.version < v
              => Pending(PartitionOf[key], p, v)'
<1> DEFINE home == PartitionOf[key]
           last == Len(topic[home]) + 1
<1>1. home \in Partitions /\ topic[home] \in Seq(MessageType)
  BY DEF Partitions, QueuesOK
<1>2. topic'[home] = Append(topic[home], message) /\ topic' \in [Partitions -> Seq(MessageType)]
      /\ \A q \in Partitions \ {home} : topic'[q] = topic[q]
  BY <1>1, AppendProperties DEF Accepts, QueuesOK
<1>3. /\ Len(topic[home]) \in Nat /\ DOMAIN topic[home] = 1..Len(topic[home])
      /\ Len(topic'[home]) = last /\ DOMAIN topic'[home] = 1..last
      /\ topic'[home][last] = message
      /\ \A n \in DOMAIN topic[home] : topic'[home][n] = topic[home][n]
  BY <1>1, <1>2, AppendProperties, LenProperties
<1> HIDE DEF home, last
<1>4. ASSUME NEW q \in Partitions, NEW n \in DOMAIN topic'[q]
      PROVE  \/ n \in DOMAIN topic[q] /\ topic'[q][n] = topic[q][n]
             \/ q = home /\ n = last /\ topic'[q][n] = message
  <2>1. CASE q = home
    <3>1. n \in 1..last
      BY <1>3, <2>1
    <3>2. n \in 1..Len(topic[home]) \/ n = last
      BY <1>3, <3>1 DEF last
    <3> QED
      BY <1>3, <2>1, <3>2
  <2> QED
    BY <1>2, <2>1
<1>5. ASSUME NEW e, UnderWay(e)'
      PROVE  UnderWay(e) \/ \E k \in DOMAIN message.entries : message.entries[k] = e
  BY <1>4, <1>5 DEF UnderWay, EntryAt
<1>6. ASSUME NEW p, NEW part \in Partitions, Owed(p, part)'
      PROVE  \/ Owed(p, part)
             \/ /\ part = home
                /\ \E k \in DOMAIN message.entries : message.entries[k].program = p
  BY <1>4, <1>6 DEF Owed, EntryAt, Accepts
<1>7. ASSUME NEW p, NEW v, version[p] < v,
             \A k \in DOMAIN message.entries : k = 1 /\ message.entries[k].program = p,
             \A e : UnderWay(e) /\ e.program = p => e.version < v
      PROVE  Pending(home, p, v)'
  <2>1. last > 0
    BY <1>3 DEF last
  <2>2. \A q \in Partitions : \A n \in DOMAIN topic'[q] :
          \A k \in DOMAIN topic'[q][n].entries :
            topic'[q][n].entries[k].program = p /\ ~ (q = home /\ n = last)
              => topic'[q][n].entries[k].version < v
    BY <1>4, <1>7 DEF UnderWay, EntryAt
  <2> QED
    BY <1>3, <1>7, <2>1, <2>2 DEF Pending, EntryAt, Accepts
<1> QED
  BY <1>2, <1>5, <1>6, <1>7 DEF home

-----------------------------------------------------------------------------
(* How the driver moves through its plan *)

SeenOK == seen \in [Programs -> Nat]
FailsOK ==
  /\ failing \in BOOLEAN
  /\ failing => line > 0 /\ line >= Plan[at].body.finally

\* The driver is past step j of scenario m.
Past(m, j) == Before(m, j, at, line)
\* Scenario m went well, as far as it went.
WentWell(m) == IF m < at THEN results[m] = "PASS" ELSE ~ failing
\* Scenario m was taken up.
Played(m) == m = at \/ results[m] \in {"PASS", "FAIL"}
\* All that has to do with p was done.
Followed(p) ==
  /\ \A m \in 1..(at-1) : TouchedIn(m, p) => results[m] = "PASS"
  /\ at \in DOMAIN Plan /\ TouchedIn(at, p) => ~ failing

\* The driver's step at hand is one of the plan.
LEMMA StepInPlan ==
  ASSUME PlaceOK, InScenario
  PROVE  /\ at \in DOMAIN Plan /\ at \in Nat \ {0}
         /\ line \in DOMAIN StepsOf(at) /\ line \in Nat \ {0}
         /\ DOMAIN StepsOf(at) = 1..Len(StepsOf(at)) /\ Len(StepsOf(at)) \in Nat
         /\ End = Len(StepsOf(at)) + 1
         /\ Step = StepAt(at, line)
         /\ Disciplined(at, line)
<1>1. at \in DOMAIN Plan /\ line \in 1..End
  BY DEF PlaceOK, InScenario
<1>2. /\ Len(StepsOf(at)) \in Nat /\ DOMAIN StepsOf(at) = 1..Len(StepsOf(at))
      /\ End = Len(StepsOf(at)) + 1
  BY <1>1, BodyIsWellFormed DEF StepsOf, End
<1>3. line \in DOMAIN StepsOf(at)
  BY <1>1, <1>2 DEF InScenario
<1>4. at \in Nat \ {0}
  BY <1>1, PlanIsSequence
<1> QED
  BY <1>1, <1>2, <1>3, <1>4, DisciplineAssumption DEF StepAt, StepsOf, Step

\* What a step of a scenario does to the driver's place.
LEMMA StepMoves ==
  ASSUME PlaceOK, FailsOK, ScenarioStep
  PROVE  /\ InScenario /\ UNCHANGED <<at, results, final>>
         /\ \/ UNCHANGED place
            \/ ~ failing /\ ~ failing' /\ line' = line + 1
            \/ failing' /\ line' > line /\ line' >= Plan[at].body.finally
<1>1. InScenario /\ Moves
  BY StepsMove
<1>2. /\ at \in DOMAIN Plan /\ line \in Nat /\ line < End /\ End \in Nat
      /\ Plan[at].body.finally \in 1..End
  BY <1>1, StepInPlan, BodyIsWellFormed DEF InScenario, StepsOf
<1>3. CASE Advance /\ ~ failing
  BY <1>1, <1>3 DEF Advance
<1>4. CASE Advance /\ failing
  BY <1>1, <1>2, <1>4 DEF Advance, FailsOK
<1>5. CASE Throw
  BY <1>1, <1>2, <1>5 DEF Throw
<1>6. CASE UNCHANGED place
  BY <1>1, <1>6 DEF place
<1> QED
  BY <1>1, <1>3, <1>4, <1>5, <1>6 DEF Moves, FailsOK

\* What any other step does to it.
OutOfStep ==
  \/ UNCHANGED <<at, line, failing, results>>
  \/ line = 0 /\ line' = 1 /\ UNCHANGED <<at, failing, results>>
  \/ /\ line = 0 /\ line' = 0 /\ failing' = failing
     /\ at' >= at /\ at' \in Nat
     /\ DOMAIN results' = DOMAIN results
     /\ \A n \in DOMAIN Plan : n < at => results'[n] = results[n]
     /\ \A n \in DOMAIN Plan : n >= at /\ n < at' => results'[n] # "PASS"
  \/ /\ at \in DOMAIN Plan /\ line = End /\ line' = 0 /\ ~ failing' /\ at' = at + 1
     /\ results' = [results EXCEPT ![at] = IF failing THEN "FAIL" ELSE "PASS"]

\* The driver moves only so outside of a scenario's steps.
LEMMA OtherMoves ==
  ASSUME PlaceOK, StartScenario \/ BlockMain \/ EndScenario \/ Finish \/ CommandHangs \/ Stack \/ Outside
  PROVE  OutOfStep
<1>0. at \in Nat /\ Len(Plan) \in Nat /\ DOMAIN Plan = 1..Len(Plan)
  BY PlanIsSequence DEF PlaceOK
<1>1. CASE StartScenario
  <2>1. CASE line' = 1
    BY <1>1, <2>1 DEF StartScenario, OutOfStep, Record
  <2>2. CASE line' # 1
    <3>1. /\ line = 0 /\ line' = 0 /\ failing' = failing /\ at' = at + 1
          /\ results' = [results EXCEPT ![at] = "SKIPPED"]
      BY <1>1, <2>2 DEF StartScenario, Record
    <3> QED
      BY <1>0, <3>1 DEF OutOfStep, PlaceOK
  <2> QED
    BY <2>1, <2>2
<1>2. CASE BlockMain
  <2>1. /\ line = 0 /\ line' = 0 /\ failing' = failing
        /\ at = MainStart /\ at' = MainEnd + 1
        /\ results' = [n \in DOMAIN Plan |->
             IF n \in MainStart..MainEnd THEN "NOT_EXECUTED" ELSE results[n]]
    BY <1>2 DEF BlockMain
  <2>2. at' >= at /\ at' \in Nat /\ MainStart \in Nat /\ MainEnd \in Nat
    BY <2>1, PlanIsSequence
  <2>3. \A n \in DOMAIN Plan : n < at => results'[n] = results[n]
    BY <1>0, <2>1, <2>2
  <2>4. \A n \in DOMAIN Plan : n >= at /\ n < at' => results'[n] # "PASS"
    BY <1>0, <2>1, <2>2
  <2>5. DOMAIN results' = DOMAIN results
    BY <2>1 DEF PlaceOK
  <2> QED
    BY <2>1, <2>2, <2>3, <2>4, <2>5 DEF OutOfStep
<1>3. CASE EndScenario
  BY <1>3 DEF EndScenario, Record, OutOfStep
<1>4. CASE Finish \/ CommandHangs \/ Stack \/ Outside
  BY <1>4 DEF Finish, CommandHangs, Stack, Outside, place, OutOfStep
<1> QED
  BY <1>1, <1>2, <1>3, <1>4

\* A step of the scenario in hand that went well.
Completes ==
  ScenarioStep /\ ~ failing /\ ~ failing' /\ at' = at /\ line' = line + 1

\* What the driver is past it stays past.
LEMMA PastGrows ==
  ASSUME PlaceOK, FailsOK, Next, NEW m \in DOMAIN Plan, NEW j \in DOMAIN StepsOf(m),
         Past(m, j)
  PROVE  Past(m, j)'
<1>0. m \in Nat /\ j \in Nat \ {0} /\ at \in Nat /\ line \in Nat
  BY PlanIsSequence, BodyIsWellFormed DEF PlaceOK, StepsOf
<1>1. CASE ScenarioStep
  <2>1. at' = at /\ line' \in Int /\ line' >= line
    BY <1>0, <1>1, StepMoves, PlaceNext DEF place, PlaceOK
  <2> QED
    BY <1>0, <2>1 DEF Past, Before
<1>2. CASE StartScenario \/ BlockMain \/ EndScenario \/ Finish \/ CommandHangs \/ Stack \/ Outside
  <2>1. OutOfStep
    BY <1>2, OtherMoves
  <2> QED
    BY <1>0, <2>1 DEF OutOfStep, Past, Before
<1> QED
  BY <1>1, <1>2 DEF Next, Driver

\* While all that has to do with p goes well, the driver only gets past a step
\* that has to do with p when that step went well.
LEMMA FollowedMoves ==
  ASSUME PlaceOK, FailsOK, Next, NEW p, Followed(p)'
  PROVE  /\ Followed(p)
         /\ \A m \in DOMAIN Plan : \A j \in DOMAIN StepsOf(m) :
              Touches(StepAt(m, j), p) /\ Past(m, j)' =>
                Past(m, j) \/ (Completes /\ m = at /\ j = line)
<1>0. /\ at \in Nat \ {0} /\ line \in Nat /\ Len(Plan) \in Nat /\ DOMAIN Plan = 1..Len(Plan)
      /\ \A m \in DOMAIN Plan : /\ Len(StepsOf(m)) \in Nat
                                /\ DOMAIN StepsOf(m) = 1..Len(StepsOf(m))
  BY PlanIsSequence, BodyIsWellFormed DEF PlaceOK, StepsOf
<1>1. ASSUME NEW m \in DOMAIN Plan, NEW j \in DOMAIN StepsOf(m),
             Touches(StepAt(m, j), p), Past(m, j)'
      PROVE  Past(m, j) \/ (Completes /\ m = at /\ j = line)
  <2>0. m \in Nat \ {0} /\ j \in Nat \ {0} /\ TouchedIn(m, p)
    BY <1>0, <1>1 DEF TouchedIn
  <2>1. CASE ScenarioStep
    <3>1. CASE UNCHANGED place
      BY <1>1, <3>1 DEF place, Past, Before
    <3>2. CASE ~ failing /\ ~ failing' /\ line' = line + 1
      BY <1>0, <1>1, <2>0, <2>1, <3>2, StepMoves DEF Past, Before, Completes
    <3>3. CASE failing'
      <4>1. at' = at
        BY <2>1, StepMoves
      <4>2. m # at
        BY <2>0, <3>3, <4>1 DEF Followed
      <4> QED
        BY <1>1, <4>1, <4>2 DEF Past, Before
    <3> QED
      BY <2>1, <3>1, <3>2, <3>3, StepMoves
  <2>2. CASE OutOfStep
    <3>1. CASE line = 0 /\ line' = 0 /\ at' >= at /\ at' \in Nat
                 /\ \A n \in DOMAIN Plan : n >= at /\ n < at' => results'[n] # "PASS"
      <4>1. m < at'
        BY <1>1, <2>0, <3>1 DEF Past, Before
      <4>2. m \in 1..(at'-1)
        BY <2>0, <3>1, <4>1
      <4>3. results'[m] = "PASS"
        BY <2>0, <4>2 DEF Followed
      <4>4. m < at
        BY <1>0, <2>0, <3>1, <4>1, <4>3
      <4> QED
        BY <4>4 DEF Past, Before
    <3>2. CASE at \in DOMAIN Plan /\ line = End /\ line' = 0 /\ at' = at + 1
      BY <1>0, <1>1, <2>0, <3>2 DEF Past, Before, End, StepsOf
    <3>3. CASE UNCHANGED <<at, line>> \/ (line = 0 /\ line' = 1 /\ UNCHANGED at)
      BY <1>0, <1>1, <2>0, <3>3 DEF Past, Before
    <3> QED
      BY <2>2, <3>1, <3>2, <3>3 DEF OutOfStep
  <2> QED
    BY <2>1, <2>2, OtherMoves DEF Next, Driver
<1>2. Followed(p)
  <2>1. CASE ScenarioStep
    <3>1. at' = at /\ results' = results
      BY <2>1, StepMoves
    <3>2. failing => failing'
      BY <2>1, StepMoves DEF place
    <3> QED
      BY <3>1, <3>2 DEF Followed
  <2>2. CASE OutOfStep
    <3>1. CASE line = 0 /\ line' = 0 /\ at' >= at /\ at' \in Nat
                 /\ \A n \in DOMAIN Plan : n < at => results'[n] = results[n]
      <4>1. ~ failing
        BY <3>1 DEF FailsOK
      <4>2. ASSUME NEW m \in 1..(at-1)
            PROVE  m \in DOMAIN Plan /\ m \in 1..(at'-1) /\ results'[m] = results[m]
        <5>1. m \in DOMAIN Plan /\ m < at
          BY <1>0 DEF PlaceOK
        <5>2. m \in 1..(at'-1)
          BY <1>0, <3>1, <5>1
        <5> QED
          BY <3>1, <5>1, <5>2
      <4> QED
        BY <4>1, <4>2 DEF Followed
    <3>2. CASE /\ at \in DOMAIN Plan /\ line = End /\ line' = 0 /\ at' = at + 1
               /\ results' = [results EXCEPT ![at] = IF failing THEN "FAIL" ELSE "PASS"]
      <4>1. \A m \in 1..(at-1) : m \in 1..(at'-1) /\ results'[m] = results[m]
        BY <1>0, <3>2 DEF PlaceOK
      <4>2. at \in 1..(at'-1) /\ results'[at] = IF failing THEN "FAIL" ELSE "PASS"
        BY <1>0, <3>2 DEF PlaceOK
      <4> QED
        BY <4>1, <4>2 DEF Followed
    <3>3. CASE UNCHANGED <<at, failing, results>>
      BY <3>3 DEF Followed
    <3> QED
      BY <2>2, <3>1, <3>2, <3>3 DEF OutOfStep
  <2> QED
    BY <2>1, <2>2, OtherMoves DEF Next, Driver
<1> QED
  BY <1>1, <1>2

\* No read of p's treasuryVersion since step j of scenario m.
Since(m, j, p) == SameBase(m, j, at, line, p)

\* Without a new read the base of what was sent stays.
LEMMA BaseStays ==
  ASSUME PlaceOK, FailsOK, Next, NEW p, Followed(p)', ~ (Completes /\ Reads(Step, p)),
         NEW m \in DOMAIN Plan, NEW j \in DOMAIN StepsOf(m), Since(m, j, p)
  PROVE  Since(m, j, p)'
<1>1. Past(m, j)'
  BY PastGrows DEF Since, SameBase, Past
<1>2. ASSUME NEW i \in DOMAIN Plan, NEW l \in DOMAIN StepsOf(i), Before(m, j, i, l),
             Past(i, l)', Reads(StepAt(i, l), p)
      PROVE  FALSE
  <2>1. Past(i, l) \/ (Completes /\ i = at /\ l = line)
    BY <1>2, FollowedMoves DEF Touches
  <2>2. ~ Past(i, l)
    BY <1>2 DEF Since, SameBase, Past
  <2> QED
    BY <1>2, <2>1, <2>2, StepInPlan, StepMoves DEF Completes
<1> QED
  BY <1>1, <1>2 DEF Since, SameBase, Past

\* What counts from the present base did so before, or is the step that was done.
LEMMA BaseWas ==
  ASSUME PlaceOK, FailsOK, Next, NEW p, Followed(p)',
         NEW m \in DOMAIN Plan, NEW j \in DOMAIN StepsOf(m), Since(m, j, p)',
         Touches(StepAt(m, j), p)
  PROVE  \/ Completes /\ m = at /\ j = line
         \/ Since(m, j, p) /\ ~ (Completes /\ Reads(Step, p))
<1>1. Past(m, j) \/ (Completes /\ m = at /\ j = line)
  BY FollowedMoves DEF Since, SameBase, Past
<1>2. CASE Past(m, j)
  <2>1. Since(m, j, p)
    <3>1. \A i \in DOMAIN Plan : \A l \in DOMAIN StepsOf(i) : Past(i, l) => Past(i, l)'
      BY PastGrows
    <3> QED
      BY <1>2, <3>1 DEF Since, SameBase, Past
  <2>2. ~ (Completes /\ Reads(Step, p))
    <3> SUFFICES ASSUME Completes, Reads(Step, p) PROVE FALSE
      OBVIOUS
    <3>1. /\ at \in DOMAIN Plan /\ line \in DOMAIN StepsOf(at) /\ Step = StepAt(at, line)
          /\ line \in Nat
      BY StepInPlan, StepMoves DEF Completes
    <3>2. Before(at, line, at', line') /\ Before(m, j, at, line)
      BY <1>2, <3>1 DEF Completes, Past, Before
    <3> QED
      BY <3>1, <3>2 DEF Since, SameBase
  <2> QED
    BY <2>1, <2>2
<1> QED
  BY <1>1, <1>2

-----------------------------------------------------------------------------
(* What a step does with messages and with the versions the driver keeps *)

\* The message of a publish or a flush step is on the topic, on time or not.
SendsOut(message) ==
  /\ PublishStep \/ FlushStep
  /\ message \in MessageType
  /\ Accepts(Step.key, message)
  /\ \A k \in DOMAIN message.entries :
       LET e == message.entries[k] IN
       /\ Sends(Step, e.program)
       /\ IF Step.op = "flush" THEN k = 1 /\ e.version = seen[e.program] + 1
          ELSE /\ k \in DOMAIN Step.entries
               /\ e.program = Step.entries[k].program
               /\ e.version = seen[e.program] + Step.entries[k].ahead

\* A publish step sends its entries, or throws without having sent them.
LEMMA PublishSends ==
  ASSUME PlaceOK, SeenOK, PublishStep
  PROVE  (Rests /\ failing') \/ \E message : SendsOut(message)
<1> DEFINE message == [entries |-> [k \in DOMAIN Step.entries |->
                                     EntryOf(Step.batch, Step.entries[k])]]
<1>1. Step.op = "publish" /\ InScenario
  BY DEF PublishStep, Doing, InScenario
<1>2. /\ Step.batch \in Batches
      /\ Step.entries \in Seq([program: Programs, ahead: Nat, total: Nat])
  <2>1. Step.batch \in Batches
    BY <1>1, StepInPlan DEF Batches
  <2> QED
    BY <1>1, <2>1, StepInPlan DEF Disciplined, KnownTreasury
<1>3. \A k \in DOMAIN Step.entries :
        /\ EntryOf(Step.batch, Step.entries[k]) \in EntryType
        /\ EntryOf(Step.batch, Step.entries[k]).program = Step.entries[k].program
        /\ EntryOf(Step.batch, Step.entries[k]).version
             = seen[Step.entries[k].program] + Step.entries[k].ahead
  <2> SUFFICES ASSUME NEW k \in DOMAIN Step.entries
               PROVE  /\ EntryOf(Step.batch, Step.entries[k]) \in EntryType
                      /\ EntryOf(Step.batch, Step.entries[k]).program
                           = Step.entries[k].program
                      /\ EntryOf(Step.batch, Step.entries[k]).version
                           = seen[Step.entries[k].program] + Step.entries[k].ahead
    OBVIOUS
  <2> DEFINE x == Step.entries[k]
  <2>1. x \in [program: Programs, ahead: Nat, total: Nat]
    <3> DEFINE R == [program: Programs, ahead: Nat, total: Nat]
    <3>1. Step.entries \in Seq(R)
      BY <1>2
    <3> HIDE DEF R
    <3>2. x \in R
      BY <3>1
    <3> QED
      BY <3>2 DEF R
  <2> HIDE DEF x
  <2>2. x.program \in Programs /\ x.ahead \in Nat /\ x.total \in Nat
        /\ seen[x.program] + x.ahead \in Nat
    BY <2>1 DEF SeenOK
  <2>3. /\ EntryOf(Step.batch, x) \in EntryType
        /\ EntryOf(Step.batch, x).program = x.program
        /\ EntryOf(Step.batch, x).version = seen[x.program] + x.ahead
    BY <1>2, <2>2 DEF EntryOf, EntryType
  <2> QED
    BY <2>3 DEF x
<1>4. message.entries \in Seq(EntryType)
  BY <1>2, <1>3
<1>5. DOMAIN message.entries = DOMAIN Step.entries
      /\ \A k \in DOMAIN Step.entries :
           message.entries[k] = EntryOf(Step.batch, Step.entries[k])
  OBVIOUS
<1>6. message \in MessageType
  BY <1>4 DEF MessageType
<1>7. /\ UNCHANGED <<rows, reached>>
      /\ (UNCHANGED topic /\ failing') \/ Send(Step.key, message)
  BY DEF PublishStep, Publish, AdvanceIf, Throw
<1> HIDE DEF message
<1>8. CASE UNCHANGED topic /\ failing'
  BY <1>7, <1>8 DEF Rests, rows, tables, programVars
<1>9. CASE Send(Step.key, message)
  <2>1. Accepts(Step.key, message)
    BY <1>7, <1>9 DEF Accepts, Send, rows, tables, programVars
  <2>2. SendsOut(message)
    BY <1>1, <1>3, <1>5, <1>6, <2>1 DEF SendsOut, Sends
  <2> QED
    BY <2>2
<1> QED
  BY <1>7, <1>8, <1>9

\* So does a flush, with the sentinel's next version.
LEMMA FlushSends ==
  ASSUME PlaceOK, SeenOK, FlushStep
  PROVE  (Rests /\ failing') \/ \E message : SendsOut(message)
<1> DEFINE next == seen[Step.program] + 1
           e == [batch |-> "sentinel", program |-> Step.program, version |-> next,
                 total |-> next]
           message == [entries |-> <<e>>]
<1>1. Step.op = "flush" /\ InScenario
  BY DEF FlushStep, Doing, InScenario
<1>2. Step.program \in Programs
  BY <1>1, StepInPlan DEF Disciplined, KnownTreasury
<1>3. e \in EntryType /\ e.program = Step.program /\ e.version = seen[e.program] + 1
  <2>1. next \in Nat
    BY <1>2 DEF SeenOK
  <2>3. "sentinel" \in Batches
    BY DEF Batches
  <2> HIDE DEF next
  <2>2. e \in EntryType /\ e.program = Step.program /\ e.version = next
    BY <1>2, <2>1, <2>3 DEF EntryType
  <2> QED
    BY <2>2 DEF next
<1>4. /\ UNCHANGED <<rows, reached>>
      /\ (UNCHANGED topic /\ failing') \/ Send(Step.key, message)
  BY DEF FlushStep, Publish, AdvanceIf, Throw
<1> HIDE DEF e
<1>5. /\ message \in MessageType
      /\ DOMAIN message.entries = {1} /\ message.entries[1] = e
  BY <1>3 DEF MessageType
<1> HIDE DEF message
<1>6. CASE UNCHANGED topic /\ failing'
  BY <1>4, <1>6 DEF Rests, rows, tables, programVars
<1>7. CASE Send(Step.key, message)
  <2>1. Accepts(Step.key, message)
    BY <1>4, <1>7 DEF Accepts, Send, rows, tables, programVars
  <2>2. SendsOut(message)
    BY <1>1, <1>3, <1>5, <2>1 DEF SendsOut, Sends
  <2> QED
    BY <2>2
<1> QED
  BY <1>4, <1>6, <1>7

\* Every step of the system stirs the messages or sends one.
LEMMA NextStirsOrSends ==
  ASSUME PlaceOK, QueuesOK, SeenOK, Next
  PROVE  Stirs \/ \E message : SendsOut(message)
<1>1. CASE ScenarioStep
  BY <1>1, StepRests, PublishSends, FlushSends DEF Stirs
<1>2. CASE StartScenario \/ BlockMain \/ EndScenario \/ Finish \/ CommandHangs
  BY <1>2 DEF StartScenario, BlockMain, EndScenario, Finish, CommandHangs, stackVars, rows, tables,
     programVars, treasury, Stirs, Rests
<1>3. CASE Stack \/ Outside
  BY <1>3, StackStirs DEF Stack, Outside
<1> QED
  BY <1>1, <1>2, <1>3 DEF Next, Driver

\* A program's version is read, or counted on by a flush, or stays in memory.
SeenStays(p) == seen'[p] = seen[p]
SeenRead(p) ==
  /\ ReadStep /\ Reads(Step, p)
  /\ seen'[p] = version[p] /\ UNCHANGED <<topic, version>>
SeenCounted(p) == FlushStep /\ Sends(Step, p) /\ seen'[p] = seen[p] + 1

\* Nothing else touches the versions the driver has read.
LEMMA SeenMoves ==
  ASSUME QueuesOK, SeenOK, PlaceOK, Next
  PROVE  /\ SeenOK'
         /\ \A p \in Programs : SeenStays(p) \/ SeenRead(p) \/ SeenCounted(p)
<1> USE DEF SeenStays
<1>1. CASE UNCHANGED seen
  BY <1>1 DEF SeenOK
<1>2. CASE ReadStep
  <2>1. Step.program \in Programs /\ Step.op = "read"
    BY <1>2, StepInPlan DEF ReadStep, Doing, InScenario, Disciplined, KnownTreasury
  <2>2. /\ seen' = seen \/ seen' = [seen EXCEPT ![Step.program] = version[Step.program]]
        /\ UNCHANGED <<topic, version>>
    BY <1>2 DEF ReadStep, stackVars, rows, tables, programVars, treasury
  <2> QED
    BY <1>2, <2>1, <2>2 DEF SeenOK, QueuesOK, SeenRead, Reads, ScenarioStep
<1>3. CASE FlushStep
  <2>1. Step.program \in Programs /\ Step.op = "flush"
    BY <1>3, StepInPlan DEF FlushStep, Doing, InScenario, Disciplined, KnownTreasury
  <2>2. seen' = [seen EXCEPT ![Step.program] = seen[Step.program] + 1]
    BY <1>3 DEF FlushStep
  <2> QED
    BY <1>3, <2>1, <2>2 DEF SeenOK, SeenCounted, Sends
<1>4. CASE ScenarioStep /\ ~ ReadStep /\ ~ FlushStep
  <2>1. UNCHANGED seen
    BY <1>4 DEF ScenarioStep, AskStep, RaceStep, AwaitStep, CheckStep, PrintenvStep,
       PublishStep, ComposeStep, MigrateStep, TrackStep, BaselineStep, RememberStep,
       StepFails, memory
  <2> QED
    BY <1>1, <2>1
<1>5. CASE StartScenario \/ BlockMain \/ EndScenario \/ Finish \/ CommandHangs \/ Stack \/ Outside
  BY <1>1, <1>5 DEF StartScenario, BlockMain, EndScenario, Finish, CommandHangs, Stack, Outside, memory
<1> QED
  BY <1>2, <1>3, <1>4, <1>5 DEF Next, Driver

\* A step that has to do with a program everything has gone well with, goes well.
LEMMA TouchingCompletes ==
  ASSUME PlaceOK, FailsOK, ScenarioStep, NEW p, Touches(Step, p), Followed(p)',
         place' # place
  PROVE  Completes
<1>1. TouchedIn(at, p) /\ at \in DOMAIN Plan
  BY StepInPlan, StepMoves DEF TouchedIn
<1>2. at' = at
  BY StepMoves
<1>3. ~ failing'
  BY <1>1, <1>2 DEF Followed
<1> QED
  BY <1>2, <1>3, StepMoves DEF Completes

\* These steps are never taken twice: the driver goes on behind them.
LEMMA ActsMove ==
  ASSUME PlaceOK, FailsOK,
         ReadStep \/ PublishStep \/ FlushStep \/ AwaitStep \/ TrackStep \/ ComposeStep
  PROVE  ScenarioStep /\ place' # place /\ line' > line /\ at' = at
<1>1. InScenario /\ ScenarioStep
  BY StepsMove DEF ScenarioStep
<1>2. /\ at \in DOMAIN Plan /\ line \in Nat /\ line < End /\ End \in Nat
      /\ Plan[at].body.finally \in 1..End
  BY <1>1, StepInPlan, BodyIsWellFormed DEF InScenario, StepsOf
<1>3. Advance \/ Throw
  BY DEF ReadStep, PublishStep, FlushStep, AwaitStep, TrackStep, ComposeStep, AdvanceIf
<1>4. line' > line /\ at' = at
  BY <1>2, <1>3 DEF Advance, Throw
<1> QED
  BY <1>1, <1>2, <1>4 DEF place

\* An exception is on its way only behind the steps that may catch it.
LEMMA FailsNext ==
  ASSUME PlaceOK, FailsOK, Next
  PROVE  FailsOK'
<1>1. CASE ScenarioStep
  <2>1. CASE UNCHANGED place
    BY <2>1 DEF place, FailsOK
  <2>2. CASE ~ failing'
    <3>1. failing' \in BOOLEAN
      BY <1>1, StepsMove DEF Moves, Advance, Throw, place, FailsOK
    <3> QED
      BY <2>2, <3>1 DEF FailsOK
  <2>3. CASE failing' /\ line' > line /\ line' >= Plan[at].body.finally
    <3>1. failing' \in BOOLEAN /\ at' = at /\ line \in Nat
      BY <1>1, StepsMove DEF Moves, Advance, Throw, place, FailsOK, PlaceOK
    <3>2. line' \in Nat
      BY PlaceNext DEF PlaceOK
    <3> QED
      BY <2>3, <3>1, <3>2 DEF FailsOK
  <2> QED
    BY <1>1, <2>1, <2>2, <2>3, StepMoves
<1>2. CASE StartScenario \/ BlockMain \/ Finish \/ CommandHangs \/ Stack \/ Outside
  BY <1>2 DEF StartScenario, BlockMain, Finish, CommandHangs, Stack, Outside, Record, place, FailsOK
<1>3. CASE EndScenario
  BY <1>3 DEF EndScenario, FailsOK
<1> QED
  BY <1>1, <1>2, <1>3 DEF Next, Driver

\* Who sends on a program: the flusher on its own, publish steps on the others.
LEMMA WhoSends ==
  ASSUME PlaceOK, FailsOK, NEW message, SendsOut(message)
  PROVE  /\ ScenarioStep /\ InScenario /\ at' = at /\ line' > line
         /\ Step.key \in Keys
         /\ \A p : Sends(Step, p) =>
              \/ FlushStep /\ Step.op = "flush" /\ Flushed(p) /\ Step.program = p
              \/ PublishStep /\ Step.op = "publish" /\ ~ Flushed(p)
         /\ \A k \in DOMAIN message.entries :
              Sends(Step, message.entries[k].program)
<1>1. /\ PublishStep => Step.op = "publish" /\ InScenario
      /\ FlushStep => Step.op = "flush" /\ InScenario
  BY DEF PublishStep, FlushStep, Doing, InScenario
<1>2. PublishStep \/ FlushStep
  BY DEF SendsOut
<1>3. ASSUME NEW p, Sends(Step, p)
      PROVE  \/ FlushStep /\ Step.op = "flush" /\ Flushed(p) /\ Step.program = p
             \/ PublishStep /\ Step.op = "publish" /\ ~ Flushed(p)
  <2>1. CASE PublishStep
    BY <1>1, <1>3, <2>1, StepInPlan DEF Sends, Disciplined
  <2>2. CASE FlushStep
    BY <1>1, <1>3, <2>2, StepInPlan DEF Sends, Flushed
  <2> QED
    BY <1>2, <2>1, <2>2
<1>4. Step.key \in Keys
  BY <1>1, <1>2, StepInPlan DEF Disciplined, KnownTreasury
<1>5. \A k \in DOMAIN message.entries : Sends(Step, message.entries[k].program)
  BY DEF SendsOut
<1> QED
  BY <1>1, <1>2, <1>3, <1>4, <1>5, ActsMove

-----------------------------------------------------------------------------
(* Versions *)

\* What the driver counts on from has been applied.
SeenBelow == \A p \in Programs : ~ Flushed(p) => seen[p] <= version[p]

\* The treasury version of p, or one of a message on the topic.
Sent(p, w) ==
  \/ w = version[p]
  \/ \E e : UnderWay(e) /\ e.program = p /\ e.version = w

\* A version that was sent since the driver read p's last.
Within(p, w) ==
  \/ w <= seen[p]
  \/ \E m \in DOMAIN Plan : \E j \in DOMAIN StepsOf(m) :
       /\ Sends(StepAt(m, j), p) /\ Since(m, j, p)
       /\ \E a \in AheadOf(StepAt(m, j), p) : w <= seen[p] + a
VersionsWithin ==
  \A p \in Programs \ Leftover : ~ Flushed(p) /\ Followed(p) =>
    \A w : Sent(p, w) => Within(p, w)

\* A version the driver has waited for since then has been reached.
VersionsReached ==
  \A p \in Programs : ~ Flushed(p) /\ Followed(p) =>
    \A m \in DOMAIN Plan : \A j \in DOMAIN StepsOf(m) :
      AwaitsVersion(StepAt(m, j), p) /\ Since(m, j, p) =>
        seen[p] + StepAt(m, j).fact.ahead <= version[p]

\* The flusher's own number is the highest.
VersionsFlushed ==
  \A p \in Programs : Flushed(p) => \A w : Sent(p, w) => w <= seen[p]

\* A message that is no leftover is one of a step the driver is past.
MessagesSent ==
  \A e : UnderWay(e) /\ e.program \notin Leftover =>
    \E m \in DOMAIN Plan : \E j \in DOMAIN StepsOf(m) :
      Sends(StepAt(m, j), e.program) /\ Past(m, j)

PlanOK == PlaceOK /\ FailsOK /\ QueuesOK /\ SeenOK

\* treasury_version never decreases.
LEMMA VersionGrows ==
  ASSUME PlanOK, Next, NEW p \in Programs
  PROVE  version'[p] \in Nat /\ version'[p] >= version[p]
<1>1. CASE Stirs
  BY <1>1, StirringDelivers DEF PlanOK, QueuesOK
<1>2. CASE \E message : SendsOut(message)
  BY <1>2 DEF SendsOut, Accepts, PlanOK, QueuesOK
<1> QED
  BY <1>1, <1>2, NextStirsOrSends DEF PlanOK

\* A version that was read has been applied.
LEMMA SeenBelowNext ==
  ASSUME PlanOK, SeenBelow, Next
  PROVE  SeenBelow'
<1> SUFFICES ASSUME NEW p \in Programs, ~ Flushed(p) PROVE seen'[p] <= version'[p]
  BY DEF SeenBelow
<1>1. version'[p] \in Nat /\ version'[p] >= version[p] /\ version[p] \in Nat /\ seen[p] \in Nat
  BY VersionGrows DEF PlanOK, QueuesOK, SeenOK
<1>2. ~ SeenCounted(p)
  <2> SUFFICES ASSUME SeenCounted(p) PROVE FALSE
    OBVIOUS
  <2>1. InScenario /\ Step.op = "flush"
    BY DEF SeenCounted, FlushStep, Doing, InScenario
  <2> QED
    BY <2>1, StepInPlan DEF SeenCounted, PlanOK, Sends, Flushed
<1>3. SeenStays(p) \/ SeenRead(p)
  BY <1>2, SeenMoves DEF PlanOK
<1> QED
  BY <1>1, <1>3 DEF SeenStays, SeenRead, SeenBelow

\* While all goes well with p, only a read takes a new base.
LEMMA BaseMoves ==
  ASSUME PlanOK, Next, NEW p \in Programs, ~ Flushed(p), Followed(p)'
  PROVE  \/ /\ Completes /\ Reads(Step, p)
            /\ seen'[p] = version[p] /\ UNCHANGED <<topic, version>>
         \/ ~ (Completes /\ Reads(Step, p)) /\ seen'[p] = seen[p]
<1>1. SeenStays(p) \/ SeenRead(p)
  <2>1. ~ SeenCounted(p)
    <3> SUFFICES ASSUME SeenCounted(p) PROVE FALSE
      OBVIOUS
    <3>1. InScenario /\ Step.op = "flush"
      BY DEF SeenCounted, FlushStep, Doing, InScenario
    <3> QED
      BY <3>1, StepInPlan DEF SeenCounted, PlanOK, Sends, Flushed
  <2> QED
    BY <2>1, SeenMoves DEF PlanOK
<1>2. CASE SeenRead(p)
  <2>1. Touches(Step, p) /\ ScenarioStep /\ place' # place
    BY <1>2, ActsMove DEF SeenRead, Touches, PlanOK
  <2> QED
    BY <1>2, <2>1, TouchingCompletes DEF SeenRead, PlanOK
<1>3. CASE Completes /\ Reads(Step, p)
  <2>1. Step.op = "read" /\ Step.program = p
    BY <1>3 DEF Reads
  <2>2. ReadStep
    <3>1. ~ StepFails
      BY <1>3, StepInPlan, StepMoves DEF Completes, StepFails, Throw
    <3> QED
      BY <1>3, <2>1, <3>1 DEF Completes, ScenarioStep, AskStep, RaceStep, AwaitStep, CheckStep,
         PrintenvStep, PublishStep, FlushStep, ComposeStep, MigrateStep, TrackStep,
         BaselineStep, RememberStep, Doing
  <2>3. app = "up"
    BY <1>3, <2>2 DEF Completes, ReadStep, AdvanceIf, Throw
  <2>4. seen' = [seen EXCEPT ![p] = version[p]] /\ UNCHANGED <<topic, version>>
    BY <2>1, <2>2, <2>3 DEF ReadStep, stackVars, rows, tables, programVars, treasury
  <2> QED
    BY <1>3, <2>4 DEF PlanOK, SeenOK
<1> QED
  BY <1>1, <1>2, <1>3 DEF SeenStays

\* A step of the plan is ahead of the treasury version by a number.
LEMMA AheadIsNat ==
  ASSUME NEW m \in DOMAIN Plan, NEW j \in DOMAIN StepsOf(m), NEW p, ~ Flushed(p),
         Sends(StepAt(m, j), p), NEW a \in AheadOf(StepAt(m, j), p)
  PROVE  a \in Nat
<1> DEFINE R == [program: Programs, ahead: Nat, total: Nat]
           s == StepAt(m, j).entries
<1>1. PICK d \in DOMAIN s : a = s[d].ahead
  BY DEF AheadOf
<1>2. StepAt(m, j).op = "publish"
  BY DEF Sends, Flushed
<1>3. s \in Seq(R)
  BY <1>2, DisciplineAssumption DEF Disciplined, KnownTreasury
<1> HIDE DEF R, s
<1>4. s[d] \in R
  BY <1>1, <1>3
<1> QED
  BY <1>1, <1>4 DEF R

\* The read comes when no version under way is newer than the program's own.
LEMMA ReadIsNewest ==
  ASSUME PlanOK, SeenBelow, VersionsReached, InScenario,
         NEW p \in Programs \ Leftover, ~ Flushed(p), Followed(p), Reads(Step, p),
         NEW w \in Nat, Within(p, w)
  PROVE  w <= version[p]
<1>0. version[p] \in Nat /\ seen[p] \in Nat
  BY DEF PlanOK, QueuesOK, SeenOK
<1>1. CASE w <= seen[p]
  BY <1>0, <1>1 DEF SeenBelow
<1>2. CASE ~ w <= seen[p]
  <2>1. PICK m \in DOMAIN Plan : \E j \in DOMAIN StepsOf(m) :
          /\ Sends(StepAt(m, j), p) /\ Since(m, j, p)
          /\ \E a \in AheadOf(StepAt(m, j), p) : w <= seen[p] + a
    BY <1>2 DEF Within
  <2>2. PICK j \in DOMAIN StepsOf(m) :
          /\ Sends(StepAt(m, j), p) /\ Since(m, j, p)
          /\ \E a \in AheadOf(StepAt(m, j), p) : w <= seen[p] + a
    BY <2>1
  <2>3. PICK a \in AheadOf(StepAt(m, j), p) : w <= seen[p] + a
    BY <2>2
  <2>4. ReadInTime(at, line, p)
    BY StepInPlan DEF PlanOK, Disciplined, Reads
  <2>5. PICK i \in DOMAIN Plan : \E l \in DOMAIN StepsOf(i) :
          /\ AwaitsVersion(StepAt(i, l), p)
          /\ SameBase(i, l, at, line, p)
          /\ a <= StepAt(i, l).fact.ahead
    BY <2>2, <2>3, <2>4 DEF ReadInTime, Since
  <2>6. PICK l \in DOMAIN StepsOf(i) :
          /\ AwaitsVersion(StepAt(i, l), p)
          /\ SameBase(i, l, at, line, p)
          /\ a <= StepAt(i, l).fact.ahead
    BY <2>5
  <2>7. seen[p] + StepAt(i, l).fact.ahead <= version[p]
    BY <2>6 DEF VersionsReached, Since
  <2>8. StepAt(i, l).fact.ahead \in Nat
    BY <2>6, DisciplineAssumption DEF Disciplined, KnownTreasury, AwaitsVersion
  <2>9. a \in Nat
    BY <2>2, <2>3, AheadIsNat
  <2> QED
    BY <1>0, <2>3, <2>6, <2>7, <2>8, <2>9
<1> QED
  BY <1>1, <1>2

\* Until the next read, what was within the versions sent stays so.
LEMMA WithinStays ==
  ASSUME PlanOK, Next, NEW p \in Programs, ~ Flushed(p), Followed(p)',
         ~ (Completes /\ Reads(Step, p)), NEW w, Within(p, w)
  PROVE  Within(p, w)'
<1>1. seen'[p] = seen[p]
  BY BaseMoves
<1>2. \A m \in DOMAIN Plan : \A j \in DOMAIN StepsOf(m) : Since(m, j, p) => Since(m, j, p)'
  BY BaseStays DEF PlanOK
<1> QED
  BY <1>1, <1>2 DEF Within

\* The step that is done counts from the present base.
LEMMA BaseOfStep ==
  ASSUME PlanOK, Completes, NEW p
  PROVE  SameBase(at, line, at', line', p)
<1>1. at \in Nat /\ line \in Nat /\ at' = at /\ line' = line + 1
  BY StepMoves, StepInPlan DEF Completes, PlanOK
<1>2. \A i \in DOMAIN Plan : \A l \in DOMAIN StepsOf(i) :
        ~ (Before(at, line, i, l) /\ Before(i, l, at', line'))
  <2>1. \A i \in DOMAIN Plan : i \in Nat /\ \A l \in DOMAIN StepsOf(i) : l \in Nat
    BY PlanIsSequence, BodyIsWellFormed DEF StepsOf
  <2> QED
    BY <1>1, <2>1 DEF Before
<1> QED
  BY <1>1, <1>2 DEF SameBase, Before

\* An entry has its type.
LEMMA UnderWayType ==
  ASSUME QueuesOK, NEW e, UnderWay(e)
  PROVE  e \in EntryType /\ e.version \in Nat
<1>1. PICK part \in Partitions : \E n \in DOMAIN topic[part] :
        \E k \in DOMAIN topic[part][n].entries : EntryAt(part, n, k) = e
  BY DEF UnderWay
<1>2. e \in EntryType
  BY <1>1, EntryTypes
<1> QED
  BY <1>2 DEF EntryType

\* An entry of a message that is sent has its type too.
LEMMA MessageEntry ==
  ASSUME NEW message \in MessageType, NEW k \in DOMAIN message.entries
  PROVE  message.entries[k] \in EntryType /\ message.entries[k].version \in Nat
<1>1. message.entries \in Seq(EntryType)
  BY DEF MessageType
<1>2. message.entries[k] \in EntryType
  BY <1>1
<1> QED
  BY <1>2 DEF EntryType

\* A version comes with a message.
LEMMA SentMoves ==
  ASSUME PlanOK, Next, NEW p \in Programs, NEW w, Sent(p, w)'
  PROVE  /\ w \in Nat
         /\ \/ Sent(p, w)
            \/ \E message : /\ SendsOut(message)
                            /\ \E k \in DOMAIN message.entries :
                                 /\ message.entries[k].program = p
                                 /\ message.entries[k].version = w
<1>1. CASE Stirs
  <2>1. Sent(p, w)
    <3>1. CASE w = version'[p]
      <4>1. version'[p] = version[p]
              \/ \E e : UnderWay(e) /\ e.program = p /\ e.version = version'[p]
        BY <1>1, StirringDelivers DEF PlanOK
      <4> QED
        BY <3>1, <4>1 DEF Sent
    <3>2. ASSUME NEW e, UnderWay(e)', e.program = p, e.version = w
          PROVE  Sent(p, w)
      BY <1>1, <3>2, StirringDelivers DEF Sent, PlanOK
    <3> QED
      BY <3>1, <3>2 DEF Sent
  <2>2. w \in Nat
    BY <2>1, UnderWayType DEF Sent, PlanOK, QueuesOK
  <2> QED
    BY <2>1, <2>2
<1>2. ASSUME NEW message, SendsOut(message)
      PROVE  /\ w \in Nat
             /\ \/ Sent(p, w)
                \/ \E k \in DOMAIN message.entries :
                     message.entries[k].program = p /\ message.entries[k].version = w
  <2>1. /\ message \in MessageType /\ Accepts(Step.key, message) /\ Step.key \in Keys
        /\ version' = version
    BY <1>2, WhoSends DEF SendsOut, Accepts, PlanOK
  <2>2. \/ Sent(p, w)
        \/ \E k \in DOMAIN message.entries :
             message.entries[k].program = p /\ message.entries[k].version = w
    <3>1. CASE w = version'[p]
      BY <2>1, <3>1 DEF Sent
    <3>2. ASSUME NEW e, UnderWay(e)', e.program = p, e.version = w
          PROVE  \/ Sent(p, w)
                 \/ \E k \in DOMAIN message.entries :
                      message.entries[k].program = p /\ message.entries[k].version = w
      <4>1. UnderWay(e) \/ \E k \in DOMAIN message.entries : message.entries[k] = e
        BY <2>1, <3>2, SendingAdds DEF PlanOK
      <4> QED
        BY <3>2, <4>1 DEF Sent
    <3> QED
      BY <3>1, <3>2 DEF Sent
  <2>3. w \in Nat
    BY <2>1, <2>2, MessageEntry, UnderWayType DEF Sent, PlanOK, QueuesOK
  <2> QED
    BY <2>2, <2>3
<1> QED
  BY <1>1, <1>2, NextStirsOrSends DEF PlanOK

\* Every version under way was sent on the base the driver has now: a message
\* sends such a one, and a read takes a base no version is beyond.
LEMMA VersionsWithinNext ==
  ASSUME PlanOK, SeenBelow, VersionsWithin, VersionsReached, Next
  PROVE  VersionsWithin'
<1> SUFFICES ASSUME NEW p \in Programs \ Leftover, ~ Flushed(p), Followed(p)',
                    NEW w, Sent(p, w)'
             PROVE  Within(p, w)'
  BY DEF VersionsWithin
<1>1. Followed(p)
  BY FollowedMoves DEF PlanOK
<1>2. w \in Nat
  BY SentMoves
<1>3. CASE Completes /\ Reads(Step, p)
  <2>1. seen'[p] = version[p] /\ UNCHANGED <<topic, version>>
    BY <1>3, BaseMoves
  <2>2. Sent(p, w)
    BY <2>1 DEF Sent, UnderWay, EntryAt
  <2>3. Within(p, w)
    BY <1>1, <2>2 DEF VersionsWithin
  <2>4. w <= version[p]
    BY <1>1, <1>2, <1>3, <2>3, ReadIsNewest, StepMoves DEF Completes, PlanOK
  <2> QED
    BY <2>1, <2>4 DEF Within
<1>4. CASE ~ (Completes /\ Reads(Step, p))
  <2>1. CASE Sent(p, w)
    BY <1>1, <1>4, <2>1, WithinStays DEF VersionsWithin
  <2>2. ASSUME NEW message, SendsOut(message), NEW k \in DOMAIN message.entries,
               message.entries[k].program = p, message.entries[k].version = w
        PROVE  Within(p, w)'
    <3>1. /\ Sends(Step, p) /\ PublishStep /\ Step.op = "publish"
          /\ ScenarioStep /\ InScenario
      BY <2>2, WhoSends DEF PlanOK
    <3>2. /\ k \in DOMAIN Step.entries
          /\ Step.entries[k].program = p
          /\ w = seen[p] + Step.entries[k].ahead
      BY <2>2, <3>1 DEF SendsOut
    <3>3. Completes
      BY <3>1, TouchingCompletes, ActsMove DEF Touches, PlanOK
    <3>4. /\ at \in DOMAIN Plan /\ line \in DOMAIN StepsOf(at) /\ Step = StepAt(at, line)
      BY <3>1, StepInPlan DEF PlanOK
    <3>5. Step.entries[k].ahead \in AheadOf(StepAt(at, line), p)
      BY <3>2, <3>4 DEF AheadOf
    <3>6. SameBase(at, line, at', line', p)
      BY <3>3, BaseOfStep
    <3>7. w <= seen'[p] + Step.entries[k].ahead
      BY <1>2, <1>4, <3>2, BaseMoves
    <3> QED
      BY <3>1, <3>4, <3>5, <3>6, <3>7 DEF Within, Since
  <2> QED
    BY <2>1, <2>2, SentMoves
<1> QED
  BY <1>3, <1>4

\* A poll that returns has found its fact, and changed nothing.
LEMMA AwaitHolds ==
  ASSUME PlanOK, Completes, Step.op = "await"
  PROVE  /\ Holds(Step.fact)
         /\ UNCHANGED <<topic, reached, version, seen, tracked>>
<1>1. ~ StepFails
  BY StepInPlan, StepMoves DEF Completes, StepFails, Throw
<1>2. AwaitStep
  BY <1>1 DEF Completes, ScenarioStep, AskStep, RaceStep, CheckStep, ReadStep,
     PrintenvStep, PublishStep, FlushStep, ComposeStep, MigrateStep, TrackStep,
     BaselineStep, RememberStep, Doing
<1>3. Holds(Step.fact)
  BY <1>2 DEF Completes, AwaitStep, Throw
<1>4. UNCHANGED <<topic, reached, version, seen, tracked>>
  BY <1>2 DEF AwaitStep, stackVars, rows, tables, programVars, treasury, memory
<1> QED
  BY <1>3, <1>4

\* What a poll for a version finds.
LEMMA VersionHolds ==
  ASSUME NEW f, Holds(f)
  PROVE  /\ f.is = "version" => version[f.program] = seen[f.program] + f.ahead
         /\ f.is = "at-least" => version[f.program] >= seen[f.program]
<1> USE DEF Holds, HoldsInTables, HoldsInOutbox, HoldsInStack, HoldsForRun, HoldsOfAnswers
<1>1. CASE f.is = "version"
  BY <1>1
<1>2. CASE f.is = "at-least"
  BY <1>2
<1> QED
  BY <1>1, <1>2

\* A poll that returned has seen its version, which is not lost again.
LEMMA VersionsReachedNext ==
  ASSUME PlanOK, VersionsReached, Next
  PROVE  VersionsReached'
<1> SUFFICES ASSUME NEW p \in Programs, ~ Flushed(p), Followed(p)',
                    NEW m \in DOMAIN Plan, NEW j \in DOMAIN StepsOf(m),
                    AwaitsVersion(StepAt(m, j), p), Since(m, j, p)'
             PROVE  seen'[p] + StepAt(m, j).fact.ahead <= version'[p]
  BY DEF VersionsReached
<1>0. /\ StepAt(m, j).fact.ahead \in Nat
      /\ version[p] \in Nat /\ version'[p] \in Nat /\ seen[p] \in Nat
      /\ version'[p] >= version[p]
  BY VersionGrows, DisciplineAssumption DEF Disciplined, KnownTreasury, AwaitsVersion,
     PlanOK, QueuesOK, SeenOK
<1>1. CASE Completes /\ m = at /\ j = line
  <2>1. Step = StepAt(m, j)
    BY <1>1, StepInPlan, StepMoves DEF Completes, PlanOK
  <2>2. /\ Step.op = "await" /\ Step.fact.is = "version" /\ Step.fact.program = p
    BY <2>1 DEF AwaitsVersion
  <2>3. /\ version[p] = seen[p] + Step.fact.ahead
        /\ UNCHANGED <<version, seen>>
    BY <1>1, <2>2, AwaitHolds, VersionHolds
  <2> QED
    BY <1>0, <2>1, <2>3
<1>2. CASE Since(m, j, p) /\ ~ (Completes /\ Reads(Step, p))
  <2>1. Followed(p)
    BY FollowedMoves DEF PlanOK
  <2>2. seen[p] + StepAt(m, j).fact.ahead <= version[p]
    BY <1>2, <2>1 DEF VersionsReached
  <2>3. seen'[p] = seen[p]
    BY <1>2, BaseMoves
  <2> QED
    BY <1>0, <2>2, <2>3
<1> QED
  BY <1>1, <1>2, BaseWas DEF PlanOK, Touches

\* The driver is behind the step a message came from.
LEMMA MessagesSentNext ==
  ASSUME PlanOK, MessagesSent, Next
  PROVE  MessagesSent'
<1> SUFFICES ASSUME NEW e, UnderWay(e)', e.program \notin Leftover
             PROVE  \E m \in DOMAIN Plan : \E j \in DOMAIN StepsOf(m) :
                      Sends(StepAt(m, j), e.program) /\ Past(m, j)'
  BY DEF MessagesSent
<1>1. CASE UnderWay(e)
  <2>1. PICK m \in DOMAIN Plan : \E j \in DOMAIN StepsOf(m) :
          Sends(StepAt(m, j), e.program) /\ Past(m, j)
    BY <1>1 DEF MessagesSent
  <2> QED
    BY <2>1, PastGrows DEF PlanOK
<1>2. ASSUME NEW message, SendsOut(message), ~ UnderWay(e)
      PROVE  \E m \in DOMAIN Plan : \E j \in DOMAIN StepsOf(m) :
               Sends(StepAt(m, j), e.program) /\ Past(m, j)'
  <2>1. PICK k \in DOMAIN message.entries : message.entries[k] = e
    BY <1>2, SendingAdds, WhoSends DEF SendsOut, PlanOK
  <2>2. Sends(Step, e.program) /\ InScenario /\ at' = at /\ line' > line
    BY <1>2, <2>1, WhoSends DEF PlanOK
  <2>3. at \in DOMAIN Plan /\ line \in DOMAIN StepsOf(at) /\ Step = StepAt(at, line)
    BY <2>2, StepInPlan DEF PlanOK
  <2>4. Before(at, line, at', line')
    BY <2>2 DEF Before
  <2> QED
    BY <2>2, <2>3, <2>4 DEF Past
<1>3. Stirs => UnderWay(e)
  BY StirringDelivers DEF PlanOK
<1> QED
  BY <1>1, <1>2, <1>3, NextStirsOrSends DEF PlanOK

\* The flusher's program is one of this run.
LEMMA FlushedIsOwn ==
  ASSUME NEW p, Flushed(p)
  PROVE  p \notin Leftover
<1>1. PICK n \in DOMAIN Plan : \E k \in DOMAIN StepsOf(n) :
        StepAt(n, k).op = "flush" /\ StepAt(n, k).program = p
  BY DEF Flushed
<1> QED
  BY <1>1, DisciplineAssumption DEF Disciplined, Sends

\* The flusher counts on before it sends.
LEMMA VersionsFlushedNext ==
  ASSUME PlanOK, VersionsFlushed, MessagesSent, Next
  PROVE  VersionsFlushed'
<1> SUFFICES ASSUME NEW p \in Programs, Flushed(p), NEW w, Sent(p, w)'
             PROVE  w <= seen'[p]
  BY DEF VersionsFlushed
<1>0. w \in Nat /\ seen[p] \in Nat /\ version[p] \in Nat /\ p \notin Leftover
  BY SentMoves, FlushedIsOwn DEF PlanOK, SeenOK, QueuesOK
<1>1. ASSUME NEW message, SendsOut(message), NEW k \in DOMAIN message.entries,
             message.entries[k].program = p, message.entries[k].version = w
      PROVE  w <= seen'[p]
  <2>1. FlushStep /\ Step.op = "flush" /\ Step.program = p
    BY <1>1, WhoSends DEF PlanOK
  <2>2. w = seen[p] + 1
    BY <1>1, <2>1 DEF SendsOut
  <2>3. seen'[p] = seen[p] + 1
    BY <2>1 DEF FlushStep, PlanOK, SeenOK
  <2> QED
    BY <1>0, <2>2, <2>3
<1>2. CASE Sent(p, w)
  <2>1. w <= seen[p]
    BY <1>2 DEF VersionsFlushed
  <2>2. CASE SeenStays(p) \/ SeenCounted(p)
    BY <1>0, <2>1, <2>2 DEF SeenStays, SeenCounted
  <2>3. CASE SeenRead(p)
    <3>1. InScenario /\ Reads(Step, p) /\ seen'[p] = version[p] /\ UNCHANGED <<topic, version>>
      BY <2>3 DEF SeenRead, ReadStep, Doing, InScenario
    <3>2. ReadInTime(at, line, p)
      BY <3>1, StepInPlan DEF PlanOK, Disciplined, Reads
    <3>3. \A m \in DOMAIN Plan : \A j \in DOMAIN StepsOf(m) :
            Sends(StepAt(m, j), p) => ~ Past(m, j)
      BY <1>0, <3>2 DEF ReadInTime, Past
    <3>4. \A e : UnderWay(e) => e.program # p
      BY <1>0, <3>3 DEF MessagesSent
    <3>5. w = version[p]
      BY <1>2, <3>4 DEF Sent
    <3> QED
      BY <1>0, <3>1, <3>5
  <2> QED
    BY <2>2, <2>3, SeenMoves DEF PlanOK
<1> QED
  BY <1>1, <1>2, SentMoves

\* What a scenario needs has passed, and what that needs too.
LEMMA NeededPassed ==
  ASSUME PlaceOK, at \in DOMAIN Plan, line > 0, NEW m \in Needed(at)
  PROVE  results[m] = "PASS"
<1>1. \A n \in DOMAIN Plan : \A key \in Plan[n].needs :
        Index(key) \in DOMAIN Plan /\ StatusOf(key) = results[Index(key)]
  BY DependencyInPlan DEF Index, StatusOf
<1>2. \A k \in Direct(at) : k \in DOMAIN Plan /\ results[k] = "PASS"
  BY <1>1 DEF Direct, PlaceOK, DependenciesPassed
<1>3. \A n \in Direct(at) : \A k \in Direct(n) : results[k] = "PASS"
  BY <1>1, <1>2 DEF Direct, PlaceOK, DependenciesPassed
<1> QED
  BY <1>2, <1>3 DEF Needed

-----------------------------------------------------------------------------
(* The marker the driver waits for *)

MarkerPartition(n, k) == PartitionOf[StepAt(n, k-1).key]
MarkerProgram(n, k) == StepAt(n, k).fact.program
MarkerVersion(n, k) ==
  LET f == StepAt(n, k).fact IN
  seen[f.program] + IF f.is = "version" THEN f.ahead ELSE 0

\* While a scenario waits for its marker, the partition has been emptied or the
\* marker is the last message in it and the newest on its program.
MarkerOK ==
  \A n \in DOMAIN Plan : \A k \in DOMAIN StepsOf(n) :
    n = at /\ k = line /\ ~ failing /\ Marked(n, k) =>
      \A v : v = MarkerVersion(n, k) =>
        \/ Delivered(MarkerPartition(n, k))
        \/ Pending(MarkerPartition(n, k), MarkerProgram(n, k), v)

\* A marker is sent on a program of the instance.
LEMMA MarkerTypes ==
  ASSUME SeenOK, NEW n \in DOMAIN Plan, NEW k \in DOMAIN StepsOf(n), Marked(n, k)
  PROVE  /\ k \in Nat /\ k - 1 \in DOMAIN StepsOf(n)
         /\ StepAt(n, k).op = "await"
         /\ MarkerProgram(n, k) \in Programs
         /\ MarkerPartition(n, k) \in Partitions
         /\ MarkerVersion(n, k) \in Nat
<1>1. k \in Nat /\ k - 1 \in DOMAIN StepsOf(n)
  BY BodyIsWellFormed DEF Marked, StepsOf
<1>2. Disciplined(n, k) /\ Disciplined(n, k-1)
  BY <1>1, DisciplineAssumption
<1> DEFINE s == StepAt(n, k-1)
           f == StepAt(n, k).fact
<1>3. StepAt(n, k).op = "await" /\ s.op \in {"flush", "publish"}
  BY DEF Marked
<1>4. s.key \in Keys
  BY <1>2, <1>3 DEF Disciplined, KnownTreasury
<1>5. f.program \in Programs
  <2>1. CASE s.op = "flush"
    BY <1>2, <2>1 DEF Marked, Disciplined, KnownTreasury
  <2>2. CASE s.op = "publish"
    <3> DEFINE R == [program: Programs, ahead: Nat, total: Nat]
               es == s.entries
    <3>1. es \in Seq(R) /\ es = <<es[1]>> /\ es[1].program = f.program
      BY <1>2, <2>2 DEF Marked, Disciplined, KnownTreasury
    <3> HIDE DEF R, es
    <3>2. DOMAIN es = {1}
      BY <3>1
    <3>5. es \in Seq(R)
      BY <3>1
    <3>3. es[1] \in R
      BY <3>2, <3>5
    <3>4. es[1].program \in Programs
      BY <3>3 DEF R
    <3> QED
      BY <3>1, <3>4
  <2> QED
    BY <1>3, <2>1, <2>2
<1>6. f.is = "version" => f.ahead \in Nat
  BY <1>2, <1>3 DEF Disciplined, KnownTreasury
<1> QED
  BY <1>1, <1>3, <1>4, <1>5, <1>6
     DEF MarkerProgram, MarkerPartition, MarkerVersion, Partitions, SeenOK

\* A step that goes nowhere neither sends nor reads.
LEMMA StandingStirs ==
  ASSUME PlanOK, Next, UNCHANGED <<at, line>>
  PROVE  Stirs /\ \A p \in Programs : seen'[p] = seen[p]
<1>0. line \in Nat
  BY DEF PlanOK, PlaceOK
<1>1. \A message : ~ SendsOut(message)
  BY <1>0, WhoSends DEF PlanOK
<1>2. ~ ReadStep /\ ~ FlushStep
  BY <1>0, ActsMove DEF PlanOK
<1> QED
  BY <1>1, <1>2, NextStirsOrSends, SeenMoves DEF PlanOK, SeenStays, SeenRead, SeenCounted

\* The driver comes to a marker only by sending it.
LEMMA MarkerIsSent ==
  ASSUME PlanOK, VersionsWithin, VersionsFlushed, Next, Completes,
         NEW n \in DOMAIN Plan, NEW k \in DOMAIN StepsOf(n), Marked(n, k),
         n = at, k = line + 1, NEW v, v = MarkerVersion(n, k)'
  PROVE  Pending(MarkerPartition(n, k), MarkerProgram(n, k), v)'
<1> DEFINE s == StepAt(n, k-1)
           f == StepAt(n, k).fact
           p == f.program
<1>0. /\ line \in Nat /\ k - 1 = line /\ line \in DOMAIN StepsOf(at) /\ at \in DOMAIN Plan
      /\ Step = s /\ InScenario /\ Disciplined(at, line)
      /\ p \in Programs
  BY StepInPlan, StepMoves, MarkerTypes DEF Completes, PlanOK, MarkerProgram
<1>1. Step.op \in {"flush", "publish"}
  BY <1>0 DEF Marked
<1>2. PublishStep \/ FlushStep
  BY <1>1 DEF Completes, ScenarioStep, AskStep, RaceStep, CheckStep, ReadStep, AwaitStep,
     PrintenvStep, ComposeStep, MigrateStep, TrackStep, BaselineStep, RememberStep,
     StepFails, Doing
<1>3. PICK message : SendsOut(message)
  BY <1>2, PublishSends, FlushSends DEF Completes, PlanOK
<1>4. /\ message \in MessageType /\ Accepts(Step.key, message) /\ Step.key \in Keys
  BY <1>3, WhoSends DEF SendsOut, PlanOK
<1>5. /\ \A d \in DOMAIN message.entries : d = 1 /\ message.entries[d].program = p
      /\ \A w : Sent(p, w) => w < v
  <2>1. CASE Step.op = "flush"
    <3>1. FlushStep /\ Step.program = p /\ f.is = "at-least"
      BY <1>0, <1>2, <2>1 DEF Marked, PublishStep, Doing
    <3>2. \A d \in DOMAIN message.entries : d = 1 /\ message.entries[d].program = p
      BY <1>3, <2>1, <3>1 DEF SendsOut, Sends
    <3>3. v = seen[p] + 1 /\ seen[p] \in Nat
      <4>1. v = seen'[p] + 0
        BY <3>1 DEF MarkerVersion
      <4>2. seen'[p] = seen[p] + 1 /\ seen[p] \in Nat
        BY <1>0, <3>1 DEF FlushStep, PlanOK, SeenOK
      <4> QED
        BY <4>1, <4>2
    <3>4. Flushed(p)
      BY <1>0, <2>1, <3>1 DEF Flushed
    <3>5. \A w : Sent(p, w) => w <= seen[p] /\ w \in Nat
      BY <1>0, <3>4, UnderWayType DEF VersionsFlushed, Sent, PlanOK, QueuesOK
    <3> QED
      BY <3>2, <3>3, <3>5
  <2>2. CASE Step.op = "publish"
    <3>1. /\ PublishStep /\ f.is = "version"
          /\ Step.entries = <<Step.entries[1]>>
          /\ Step.entries[1].program = p /\ Step.entries[1].ahead = f.ahead
          /\ Newest(at, line, p, f.ahead)
      BY <1>0, <1>2, <2>2 DEF Marked, FlushStep, Doing
    <3>2. \A d \in DOMAIN message.entries : d = 1 /\ message.entries[d].program = p
      <4>1. DOMAIN Step.entries = {1}
        BY <3>1
      <4>2. \A d \in DOMAIN message.entries :
              d \in DOMAIN Step.entries
                /\ message.entries[d].program = Step.entries[d].program
        BY <1>3, <2>2 DEF SendsOut
      <4> QED
        BY <3>1, <4>1, <4>2
    <3>3. v = seen[p] + f.ahead /\ seen[p] \in Nat
      BY <1>0, <3>1 DEF MarkerVersion, PublishStep, memory, PlanOK, SeenOK
    <3>4. f.ahead \in Nat
      BY <1>0, <3>1, DisciplineAssumption DEF Marked, Disciplined, KnownTreasury
    <3>5. Followed(p)
      <4>1. \A m \in 1..(at-1) : TouchedIn(m, p) => results[m] = "PASS"
        BY <1>0, <3>1, NeededPassed DEF Newest, PlanOK, InScenario
      <4> QED
        BY <4>1 DEF Followed, Completes
    <3>6. ASSUME NEW w, Sent(p, w)
          PROVE  w < v
      <4>1. w \in Nat
        BY <1>0, <3>6, UnderWayType DEF Sent, PlanOK, QueuesOK
      <4>2. Within(p, w)
        BY <1>0, <3>1, <3>5, <3>6 DEF VersionsWithin, Newest
      <4>3. CASE w <= seen[p]
        BY <3>1, <3>3, <3>4, <4>1, <4>3 DEF Newest
      <4>4. ASSUME NEW m \in DOMAIN Plan, NEW j \in DOMAIN StepsOf(m),
                   Sends(StepAt(m, j), p), Since(m, j, p),
                   NEW a \in AheadOf(StepAt(m, j), p), w <= seen[p] + a
            PROVE  w < v
        <5>1. a \in Nat
          BY <3>1, <4>4, AheadIsNat DEF Newest
        <5>2. a < f.ahead
          BY <3>1, <4>4 DEF Newest, Since
        <5> QED
          BY <3>3, <3>4, <4>1, <4>4, <5>1, <5>2
      <4> QED
        BY <4>2, <4>3, <4>4 DEF Within
    <3> QED
      BY <3>2, <3>6
  <2> QED
    BY <1>1, <2>1, <2>2
<1>6. version[p] < v /\ \A e : UnderWay(e) /\ e.program = p => e.version < v
  BY <1>5 DEF Sent
<1>7. s.key \in Keys /\ Accepts(s.key, message)
  BY <1>0, <1>4
<1>8. Pending(PartitionOf[s.key], p, v)'
  BY <1>4, <1>5, <1>6, <1>7, SendingAdds DEF PlanOK
<1> QED
  BY <1>8 DEF MarkerPartition, MarkerProgram

\* How the driver's place changes while nothing fails.
LEMMA PlaceMoves ==
  ASSUME PlanOK, Next, line' > 1, ~ failing'
  PROVE  UNCHANGED <<at, line, failing>> \/ Completes
<1>0. line \in Nat
  BY DEF PlanOK, PlaceOK
<1>1. CASE ScenarioStep
  <2>1. at' = at
    BY <1>1, StepMoves DEF PlanOK
  <2> QED
    BY <1>1, <2>1, StepMoves DEF PlanOK, Completes, place
<1>2. CASE OutOfStep
  BY <1>0, <1>2 DEF OutOfStep
<1> QED
  BY <1>1, <1>2, OtherMoves DEF Next, Driver, PlanOK

\* The marker stays the last and newest message until it has been handled.
LEMMA MarkerNext ==
  ASSUME PlanOK, VersionsWithin, VersionsFlushed, MarkerOK, Next
  PROVE  MarkerOK'
<1> SUFFICES ASSUME NEW n \in DOMAIN Plan, NEW k \in DOMAIN StepsOf(n),
                    n = at', k = line', ~ failing', Marked(n, k),
                    NEW v, v = MarkerVersion(n, k)'
             PROVE  \/ Delivered(MarkerPartition(n, k))'
                    \/ Pending(MarkerPartition(n, k), MarkerProgram(n, k), v)'
  BY DEF MarkerOK
<1>0. line' > 1
  BY DEF Marked
<1>1. /\ MarkerProgram(n, k) \in Programs /\ MarkerPartition(n, k) \in Partitions
      /\ MarkerVersion(n, k) \in Nat
  BY MarkerTypes DEF PlanOK
<1>2. CASE UNCHANGED <<at, line, failing>>
  <2>1. Stirs /\ \A p \in Programs : seen'[p] = seen[p]
    BY <1>2, StandingStirs
  <2>2. v = MarkerVersion(n, k)
    BY <1>1, <2>1 DEF MarkerVersion, MarkerProgram
  <2>3. \/ Delivered(MarkerPartition(n, k))
        \/ Pending(MarkerPartition(n, k), MarkerProgram(n, k), v)
    BY <1>2, <2>2 DEF MarkerOK
  <2> QED
    BY <1>1, <2>1, <2>2, <2>3, StirringKeepsMarker, StirringStaysDelivered DEF PlanOK
<1>3. CASE Completes
  BY <1>3, MarkerIsSent DEF Completes
<1> QED
  BY <1>0, <1>2, <1>3, PlaceMoves

\* Once the driver has seen the marker, its partition has been emptied.
LEMMA MarkerSeen ==
  ASSUME PlanOK, MarkerOK, Completes, NEW n \in DOMAIN Plan, NEW k \in DOMAIN StepsOf(n),
         n = at, k = line, Marked(n, k)
  PROVE  Delivered(MarkerPartition(n, k)) /\ UNCHANGED <<topic, reached>>
<1> DEFINE p == MarkerProgram(n, k)
           v == MarkerVersion(n, k)
<1>1. p \in Programs /\ v \in Nat /\ StepAt(n, k).op = "await"
  BY MarkerTypes DEF PlanOK
<1>2. Step = StepAt(n, k)
  BY StepInPlan, StepMoves DEF Completes, PlanOK
<1>3. Holds(Step.fact) /\ UNCHANGED <<topic, reached>>
  BY <1>1, <1>2, AwaitHolds
<1>4. version[p] >= v
  <2>1. Step.fact.is \in {"version", "at-least"}
    BY <1>2 DEF Marked
  <2>2. version[p] \in Nat /\ seen[p] \in Nat
    BY <1>1 DEF PlanOK, QueuesOK, SeenOK
  <2>3. CASE Step.fact.is = "version"
    <3>1. version[p] = v
      BY <1>2, <1>3, <2>3, VersionHolds DEF MarkerProgram, MarkerVersion
    <3> QED
      BY <2>2, <3>1
  <2>4. CASE Step.fact.is = "at-least"
    <3>1. version[p] >= seen[p] /\ v = seen[p] + 0
      BY <1>2, <1>3, <2>4, VersionHolds DEF MarkerProgram, MarkerVersion
    <3> QED
      BY <2>2, <3>1
  <2> QED
    BY <2>1, <2>3, <2>4
<1>5. ~ version[p] < v
  BY <1>1, <1>4 DEF PlanOK, QueuesOK
<1>6. \/ Delivered(MarkerPartition(n, k))
      \/ Pending(MarkerPartition(n, k), p, v)
  BY DEF MarkerOK, Completes
<1> QED
  BY <1>3, <1>5, <1>6 DEF Pending

-----------------------------------------------------------------------------
(* What is owed was not waited for *)

\* Of the messages on p that the driver has sent to a partition, there is one
\* that it saw no marker behind, or after which the scenario failed.
Unwaited(p, part) ==
  \E m \in DOMAIN Plan : \E j \in DOMAIN StepsOf(m) :
    /\ Past(m, j) /\ Played(m)
    /\ Sends(StepAt(m, j), p) /\ PartitionOf[StepAt(m, j).key] = part
    /\ WentWell(m) =>
         \A i \in DOMAIN StepsOf(m) : i > j /\ Past(m, i) => ~ Drains(m, i, part)

OwedOK ==
  \A p \in Programs \ Leftover : \A part \in Partitions :
    Owed(p, part) => Unwaited(p, part)

\* What the run tracks is as it should be, and nothing else is sent on it.
AllSent(p) ==
  \A m \in DOMAIN Plan : \A j \in DOMAIN StepsOf(m) :
    Sends(StepAt(m, j), p) => Past(m, j)
TrackedOK == \A t \in tracked : ~ Undelivered(t.program) /\ AllSent(t.program)

\* A scenario that goes well after a step of it went well before, step by step.
LEMMA WentWellMoves ==
  ASSUME PlanOK, Next, NEW m \in DOMAIN Plan, NEW j \in DOMAIN StepsOf(m), Past(m, j),
         WentWell(m)'
  PROVE  /\ WentWell(m)
         /\ \A i \in DOMAIN StepsOf(m) :
              Past(m, i)' => Past(m, i) \/ (Completes /\ m = at /\ i = line)
<1>0. /\ m \in Nat /\ at \in Nat /\ line \in Nat
      /\ DOMAIN StepsOf(m) = 1..Len(StepsOf(m)) /\ Len(StepsOf(m)) \in Nat
  BY PlanIsSequence, BodyIsWellFormed DEF PlanOK, PlaceOK, StepsOf
<1>1. CASE m < at
  <2>1. results[m] # "NONE"
    BY <1>0, <1>1 DEF PlanOK, PlaceOK
  <2>2. results'[m] = results[m]
    BY <2>1, ResultStands DEF PlanOK
  <2>3. m < at'
    <3>1. Past(m, j)'
      BY PastGrows DEF PlanOK
    <3>2. CASE ScenarioStep
      BY <1>1, <3>2, StepMoves DEF PlanOK
    <3>3. CASE OutOfStep
      BY <1>0, <1>1, <3>3 DEF OutOfStep
    <3> QED
      BY <3>2, <3>3, OtherMoves DEF Next, Driver, PlanOK
  <2> QED
    BY <1>1, <2>2, <2>3 DEF WentWell, Past, Before
<1>2. CASE ~ m < at
  <2>1. m = at /\ j < line
    BY <1>2 DEF Past, Before
  <2>2. line > 0
    BY <1>0, <2>1
  <2>3. CASE ScenarioStep
    <3>1. at' = at
      BY <2>3, StepMoves DEF PlanOK
    <3>2. ~ failing'
      BY <1>0, <2>1, <3>1 DEF WentWell
    <3>3. CASE UNCHANGED place
      BY <2>1, <3>3 DEF place, WentWell, Past, Before
    <3>4. CASE ~ failing /\ line' = line + 1
      <4>1. Completes
        BY <2>3, <3>1, <3>2, <3>4 DEF Completes
      <4> QED
        BY <1>0, <2>1, <3>1, <3>4, <4>1 DEF WentWell, Past, Before
    <3> QED
      BY <2>3, <3>2, <3>3, <3>4, StepMoves DEF PlanOK
  <2>4. CASE OutOfStep
    <3>1. CASE UNCHANGED <<at, line, failing, results>>
      BY <3>1 DEF WentWell, Past, Before
    <3>2. CASE /\ line = End /\ line' = 0 /\ at' = at + 1
               /\ results' = [results EXCEPT ![at] = IF failing THEN "FAIL" ELSE "PASS"]
      <4>1. results'[m] = "PASS"
        BY <1>0, <2>1, <3>2 DEF WentWell
      <4>2. ~ failing
        BY <2>1, <3>2, <4>1 DEF PlanOK, PlaceOK
      <4> QED
        BY <1>0, <2>1, <3>2, <4>2 DEF WentWell, Past, Before, End, StepsOf
    <3> QED
      BY <2>2, <2>4, <3>1, <3>2 DEF OutOfStep
  <2> QED
    BY <2>3, <2>4, OtherMoves DEF Next, Driver, PlanOK
<1> QED
  BY <1>1, <1>2

\* A scenario that was begun ends with PASS or FAIL.
LEMMA PlayedStays ==
  ASSUME PlanOK, Next, NEW m \in DOMAIN Plan, NEW j \in DOMAIN StepsOf(m), Past(m, j),
         Played(m)
  PROVE  Played(m)'
<1>0. m \in Nat /\ at \in Nat /\ line \in Nat /\ j \in Nat \ {0}
  BY PlanIsSequence, BodyIsWellFormed DEF PlanOK, PlaceOK, StepsOf
<1>1. CASE m # at
  <2>1. results[m] # "NONE"
    BY <1>1 DEF Played
  <2>2. results'[m] = results[m]
    BY <2>1, ResultStands DEF PlanOK
  <2> QED
    BY <1>1, <2>2 DEF Played
<1>2. CASE m = at
  <2>1. line > 0
    BY <1>0, <1>2 DEF Past, Before
  <2>2. CASE ScenarioStep
    BY <1>2, <2>2, StepMoves DEF Played, PlanOK
  <2>3. CASE OutOfStep
    BY <1>0, <1>2, <2>1, <2>3 DEF OutOfStep, Played, PlanOK, PlaceOK
  <2> QED
    BY <2>2, <2>3, OtherMoves DEF Next, Driver, PlanOK
<1> QED
  BY <1>1, <1>2

\* A message becomes owed only by the step that sends it.
LEMMA OwedMoves ==
  ASSUME PlanOK, Next, NEW p, NEW part \in Partitions, Owed(p, part)'
  PROVE  \/ Owed(p, part)
         \/ /\ ScenarioStep /\ InScenario /\ at' = at /\ line' > line
            /\ Sends(Step, p) /\ PartitionOf[Step.key] = part
<1>1. CASE Stirs
  BY <1>1, StirringDelivers DEF PlanOK
<1>2. ASSUME NEW message, SendsOut(message), ~ Owed(p, part)
      PROVE  /\ ScenarioStep /\ InScenario /\ at' = at /\ line' > line
             /\ Sends(Step, p) /\ PartitionOf[Step.key] = part
  BY <1>2, WhoSends, SendingAdds DEF SendsOut, PlanOK
<1> QED
  BY <1>1, <1>2, NextStirsOrSends DEF PlanOK

\* A message that is handled before the driver looks is not owed; one that is
\* still owed has no marker behind it which the driver has seen.
LEMMA OwedNext ==
  ASSUME PlanOK, MarkerOK, OwedOK, Next
  PROVE  OwedOK'
<1> SUFFICES ASSUME NEW p \in Programs \ Leftover, NEW part \in Partitions, Owed(p, part)'
             PROVE  Unwaited(p, part)'
  BY DEF OwedOK
<1>1. CASE Owed(p, part)
  <2>1. PICK m \in DOMAIN Plan : \E j \in DOMAIN StepsOf(m) :
          /\ Past(m, j) /\ Played(m)
          /\ Sends(StepAt(m, j), p) /\ PartitionOf[StepAt(m, j).key] = part
          /\ WentWell(m) =>
               \A i \in DOMAIN StepsOf(m) : i > j /\ Past(m, i) => ~ Drains(m, i, part)
    BY <1>1 DEF OwedOK, Unwaited
  <2>2. PICK j \in DOMAIN StepsOf(m) :
          /\ Past(m, j) /\ Played(m)
          /\ Sends(StepAt(m, j), p) /\ PartitionOf[StepAt(m, j).key] = part
          /\ WentWell(m) =>
               \A i \in DOMAIN StepsOf(m) : i > j /\ Past(m, i) => ~ Drains(m, i, part)
    BY <2>1
  <2>3. Past(m, j)' /\ Played(m)'
    BY <2>2, PastGrows, PlayedStays DEF PlanOK
  <2>4. ASSUME WentWell(m)', NEW i \in DOMAIN StepsOf(m), i > j, Past(m, i)',
               Drains(m, i, part)
        PROVE  FALSE
    <3>1. Completes /\ m = at /\ i = line
      BY <2>2, <2>4, WentWellMoves
    <3>2. Marked(m, i) /\ MarkerPartition(m, i) = part
      BY <2>4 DEF Drains, MarkerPartition
    <3>3. Delivered(part)
      BY <3>1, <3>2, MarkerSeen
    <3> QED
      BY <1>1, <3>3 DEF Delivered
  <2> QED
    BY <2>2, <2>3, <2>4 DEF Unwaited
<1>2. CASE /\ ScenarioStep /\ InScenario /\ at' = at /\ line' > line
           /\ Sends(Step, p) /\ PartitionOf[Step.key] = part
  <2>1. /\ at \in DOMAIN Plan /\ line \in DOMAIN StepsOf(at) /\ Step = StepAt(at, line)
        /\ line \in Nat /\ at \in Nat
    BY <1>2, StepInPlan DEF PlanOK
  <2>2. PICK m \in DOMAIN Plan : m = at
    BY <2>1
  <2>3. PICK j \in DOMAIN StepsOf(m) : j = line
    BY <2>1, <2>2
  <2>4. Past(m, j)' /\ Played(m)'
    BY <1>2, <2>2, <2>3 DEF Past, Before, Played
  <2>5. ASSUME WentWell(m)', NEW i \in DOMAIN StepsOf(m), i > j, Past(m, i)'
        PROVE  FALSE
    <3>1. ~ failing'
      BY <1>2, <2>1, <2>2, <2>5 DEF WentWell
    <3>2. line' = line + 1
      BY <1>2, <2>1, <3>1, StepMoves DEF PlanOK, place
    <3>3. i \in Nat
      BY BodyIsWellFormed DEF StepsOf
    <3> QED
      BY <1>2, <2>1, <2>2, <2>3, <2>5, <3>2, <3>3 DEF Past, Before
  <2> QED
    BY <1>2, <2>1, <2>2, <2>3, <2>4, <2>5 DEF Unwaited
<1> QED
  BY <1>1, <1>2, OwedMoves

\* Undelivered is owed by some partition.
LEMMA UndeliveredIsOwed ==
  ASSUME QueuesOK, NEW p, Undelivered(p)
  PROVE  p \in Programs /\ \E part \in Partitions : Owed(p, part)
<1>1. PICK part \in Partitions : \E n \in DOMAIN topic[part] :
        \E k \in DOMAIN topic[part][n].entries :
          EntryAt(part, n, k).program = p /\ (n = 1 => k > reached[part])
  BY DEF Undelivered, EntryAt
<1>2. p \in Programs
  BY <1>1, EntryTypes DEF EntryType
<1> QED
  BY <1>1, <1>2 DEF Owed

\* Where the plan waited for all that was sent, nothing is under way.
LEMMA SettledIsDelivered ==
  ASSUME PlanOK, OwedOK, InScenario, NEW p, SeesDelivered(at, line, p)
  PROVE  ~ Undelivered(p)
<1> SUFFICES ASSUME Undelivered(p) PROVE FALSE
  OBVIOUS
<1>1. PICK part \in Partitions : Owed(p, part)
  BY UndeliveredIsOwed DEF PlanOK
<1>2. p \in Programs \ Leftover
  BY UndeliveredIsOwed DEF PlanOK, SeesDelivered
<1>3. PICK m \in DOMAIN Plan : \E j \in DOMAIN StepsOf(m) :
        /\ Past(m, j) /\ Played(m)
        /\ Sends(StepAt(m, j), p) /\ PartitionOf[StepAt(m, j).key] = part
        /\ WentWell(m) =>
             \A i \in DOMAIN StepsOf(m) : i > j /\ Past(m, i) => ~ Drains(m, i, part)
  BY <1>1, <1>2 DEF OwedOK, Unwaited
<1>4. PICK j \in DOMAIN StepsOf(m) :
        /\ Past(m, j) /\ Played(m)
        /\ Sends(StepAt(m, j), p) /\ PartitionOf[StepAt(m, j).key] = part
        /\ WentWell(m) =>
             \A i \in DOMAIN StepsOf(m) : i > j /\ Past(m, i) => ~ Drains(m, i, part)
  BY <1>3
<1>5. /\ at \in DOMAIN Plan /\ at \in Nat /\ line \in Nat /\ m \in Nat \ {0}
      /\ Len(StepsOf(m)) \in Nat /\ DOMAIN StepsOf(m) = 1..Len(StepsOf(m))
      /\ j \in Nat \ {0}
  <2>1. at \in DOMAIN Plan /\ at \in Nat /\ line \in Nat
    BY StepInPlan DEF PlanOK
  <2>2. m \in Nat \ {0}
    BY PlanIsSequence
  <2>3. Len(StepsOf(m)) \in Nat /\ DOMAIN StepsOf(m) = 1..Len(StepsOf(m))
    BY BodyIsWellFormed DEF StepsOf
  <2> QED
    BY <2>1, <2>2, <2>3
<1>6. CASE m < at
  <2>1. m \in 1..(at-1)
    BY <1>5, <1>6
  <2>2. SentIn(m, p)
    BY <1>4 DEF SentIn
  <2>3. m \in Needed(at) /\ Settled(m, Len(StepsOf(m)) + 1, p)
    BY <2>1, <2>2 DEF SeesDelivered
  <2>4. WentWell(m)
    BY <1>5, <1>6, <2>3, NeededPassed DEF WentWell, PlanOK, InScenario
  <2>5. j \in 1..((Len(StepsOf(m)) + 1) - 1)
    BY <1>5
  <2>6. PICK i \in (j+1)..((Len(StepsOf(m)) + 1) - 1) : Drains(m, i, part)
    BY <1>4, <2>3, <2>5 DEF Settled
  <2>7. i \in DOMAIN StepsOf(m) /\ i > j
    BY <1>5, <2>6
  <2> QED
    BY <1>4, <1>6, <2>4, <2>6, <2>7 DEF Past, Before
<1>7. CASE m = at /\ j < line
  <2>1. ~ failing
    <3>1. Plan[at].body.finally \in Nat
      BY <1>5, BodyIsWellFormed
    <3> QED
      BY <1>5, <3>1 DEF SeesDelivered, PlanOK, FailsOK
  <2>2. WentWell(m)
    BY <1>5, <1>7, <2>1 DEF WentWell
  <2>3. j \in 1..(line-1)
    BY <1>5, <1>7
  <2>4. PICK i \in (j+1)..(line-1) : Drains(m, i, part)
    BY <1>4, <1>7, <2>3 DEF SeesDelivered, Settled
  <2>5. i \in DOMAIN StepsOf(m) /\ i > j /\ i < line
    <3>1. line \in DOMAIN StepsOf(at)
      BY StepInPlan DEF PlanOK
    <3> QED
      BY <1>5, <1>7, <2>4, <3>1
  <2> QED
    BY <1>4, <1>7, <2>2, <2>4, <2>5 DEF Past, Before
<1> QED
  BY <1>4, <1>6, <1>7 DEF Past, Before

\* A program is tracked when all that was to be sent on it has been delivered.
LEMMA TrackedNext ==
  ASSUME PlanOK, OwedOK, TrackedOK, Next
  PROVE  TrackedOK'
<1> SUFFICES ASSUME NEW t \in tracked'
             PROVE  ~ Undelivered(t.program)' /\ AllSent(t.program)'
  BY DEF TrackedOK
<1>1. CASE t \in tracked
  <2> DEFINE p == t.program
  <2>0. ~ Undelivered(p) /\ AllSent(p)
    BY <1>1 DEF TrackedOK
  <2>1. AllSent(p)'
    BY <2>0, PastGrows DEF AllSent, PlanOK
  <2>2. ASSUME Undelivered(p)'
        PROVE  FALSE
    <3>1. PICK part \in Partitions : Owed(p, part)'
      BY <2>2 DEF Undelivered, Owed, EntryAt
    <3>2. ~ Owed(p, part)
      BY <2>0 DEF Undelivered, Owed, EntryAt
    <3>3. InScenario /\ Sends(Step, p)
      BY <3>1, <3>2, OwedMoves
    <3>4. Past(at, line) /\ at \in Nat /\ line \in Nat
      BY <2>0, <3>3, StepInPlan DEF AllSent, PlanOK
    <3> QED
      BY <3>4 DEF Past, Before
  <2> QED
    BY <2>1, <2>2
<1>2. CASE t \notin tracked
  <2>1. TrackStep
    BY <1>2 DEF Next, Driver, ScenarioStep, AskStep, RaceStep, AwaitStep, CheckStep, ReadStep,
       PrintenvStep, PublishStep, FlushStep, ComposeStep, MigrateStep, BaselineStep,
       RememberStep, StepFails, StartScenario, BlockMain, EndScenario, Finish, CommandHangs, Stack,
       Outside, memory
  <2>2. /\ InScenario /\ Step.op = "track"
        /\ tracked' = tracked \cup
             {[program |-> Step.program, total |-> Step.total,
               version |-> seen[Step.program] + Step.ahead]}
        /\ UNCHANGED <<topic, reached>>
    BY <2>1 DEF TrackStep, Doing, InScenario, stackVars, treasury
  <2>3. t.program = Step.program
    BY <1>2, <2>2
  <2>4. SeesDelivered(at, line, t.program) /\ SentBefore(at, line, t.program)
    BY <2>2, <2>3, StepInPlan DEF Disciplined, PlanOK
  <2>5. ~ Undelivered(t.program)
    BY <2>2, <2>4, SettledIsDelivered
  <2>6. AllSent(t.program)
    BY <2>4 DEF SentBefore, AllSent, Past
  <2>7. AllSent(t.program)'
    BY <2>6, PastGrows DEF AllSent, PlanOK
  <2> QED
    BY <2>2, <2>5, <2>7 DEF Undelivered
<1> QED
  BY <1>1, <1>2

-----------------------------------------------------------------------------
(* The inductive invariant of the messages *)

DeliveryInv ==
  /\ ValidationInv
  /\ PlanOK
  /\ SeenBelow
  /\ VersionsWithin /\ VersionsReached /\ VersionsFlushed
  /\ MessagesSent
  /\ MarkerOK
  /\ OwedOK /\ TrackedOK

\* Only messages of earlier runs are there when the driver begins.
LEMMA DeliveryInit == Init => DeliveryInv
<1> SUFFICES ASSUME Init PROVE DeliveryInv
  OBVIOUS
<1>1. ValidationInv
  BY ValidationInit
<1>2. PICK late \in SUBSET Leftover :
        topic = [part \in Partitions |->
                  IF \E p \in late : PartitionOf[p] = part
                    THEN <<[entries |-> <<[batch |-> "aborted", version |-> 1, total |-> 1200,
                            program |-> CHOOSE p \in late : PartitionOf[p] = part]>>]>>
                    ELSE <<>>]
  BY DEF Init
<1>3. ASSUME NEW part \in Partitions
      PROVE  /\ topic[part] \in Seq(MessageType)
             /\ \A n \in DOMAIN topic[part] : \A k \in DOMAIN topic[part][n].entries :
                  topic[part][n].entries[k].program \in Leftover
  <2>1. CASE topic[part] = <<>>
    BY <2>1
  <2>2. CASE \E p \in late : PartitionOf[p] = part
    <3> DEFINE p == CHOOSE q \in late : PartitionOf[q] = part
               e == [batch |-> "aborted", version |-> 1, total |-> 1200, program |-> p]
               message == [entries |-> <<e>>]
    <3>1. p \in Leftover /\ p \in Programs
      BY <2>2, ValidationAssumption
    <3>2. topic[part] = <<message>>
      BY <1>2, <2>2
    <3> HIDE DEF p
    <3>3. "aborted" \in Batches
      BY DEF Batches
    <3>4. e \in EntryType /\ e.program \in Leftover
      BY <3>1, <3>3 DEF EntryType
    <3> HIDE DEF e
    <3>5. message \in MessageType /\ message.entries = <<e>>
      BY <3>4 DEF MessageType
    <3> HIDE DEF message
    <3>6. topic[part] \in Seq(MessageType)
      BY <3>2, <3>5
    <3>7. \A n \in DOMAIN topic[part] : topic[part][n] = message
      BY <3>2
    <3>8. \A k \in DOMAIN message.entries : message.entries[k] = e
      BY <3>5
    <3> QED
      BY <3>4, <3>6, <3>7, <3>8
  <2> QED
    BY <1>2, <2>1, <2>2
<1>4. QueuesOK
  <2>1. topic \in [Partitions -> Seq(MessageType)]
    BY <1>2, <1>3
  <2>2. version \in [Programs -> Nat]
    BY DEF Init
  <2> QED
    BY <1>1, <2>1, <2>2 DEF QueuesOK, ValidationInv, StackOK
<1>5. /\ SeenOK /\ FailsOK /\ seen = [p \in Programs |-> 0] /\ version = [p \in Programs |-> 0]
      /\ at = 1 /\ line = 0 /\ tracked = {}
  BY DEF Init, SeenOK, FailsOK
<1>6. PlanOK
  BY <1>1, <1>4, <1>5 DEF PlanOK, ValidationInv
<1>7. SeenBelow /\ TrackedOK
  BY <1>5 DEF SeenBelow, TrackedOK
<1>8. \A e : UnderWay(e) => e.program \in Leftover
  BY <1>3 DEF UnderWay, EntryAt
<1>9. \A p \in Programs : p \notin Leftover => \A w : Sent(p, w) => w <= seen[p]
  BY <1>5, <1>8 DEF Sent
<1>10. VersionsWithin /\ VersionsFlushed /\ MessagesSent
  BY <1>8, <1>9, FlushedIsOwn DEF VersionsWithin, VersionsFlushed, MessagesSent, Within
<1>11. \A m \in DOMAIN Plan : \A j \in DOMAIN StepsOf(m) : ~ Past(m, j)
  BY <1>5, PlanIsSequence, BodyIsWellFormed DEF Past, Before, StepsOf
<1>12. VersionsReached
  BY <1>11 DEF VersionsReached, Since, SameBase, Past
<1>13. MarkerOK
  BY <1>5 DEF MarkerOK, Marked
<1>14. OwedOK
  BY <1>3 DEF OwedOK, Owed, EntryAt
<1> QED
  BY <1>1, <1>6, <1>7, <1>10, <1>12, <1>13, <1>14 DEF DeliveryInv

\* A stuttering step changes nothing that matters.
LEMMA DeliveryStutters ==
  ASSUME DeliveryInv, UNCHANGED vars
  PROVE  DeliveryInv'
<1>1. UNCHANGED <<topic, inHand, reached, version, at, line, failing, results, seen, tracked>>
  BY DEF vars, stackVars, rows, tables, programVars, treasury, place, memory
<1>2. ValidationInv'
  BY ValidationNext DEF DeliveryInv
<1>3. QueuesOK' /\ SeenOK' /\ FailsOK' /\ PlaceOK'
  BY <1>1, <1>2 DEF DeliveryInv, PlanOK, QueuesOK, SeenOK, FailsOK, TreasuryOK, ValidationInv
<1>4. /\ \A e : UnderWay(e)' <=> UnderWay(e)
      /\ \A p, w : Sent(p, w)' <=> Sent(p, w)
      /\ \A m, j : Past(m, j)' <=> Past(m, j)
      /\ \A m, j, p : Since(m, j, p)' <=> Since(m, j, p)
      /\ \A m : WentWell(m)' <=> WentWell(m)
      /\ \A m : Played(m)' <=> Played(m)
      /\ \A p : Followed(p)' <=> Followed(p)
  BY <1>1 DEF UnderWay, EntryAt, Sent, Past, Since, WentWell, Played, Followed
<1>5. SeenBelow' /\ VersionsReached' /\ VersionsFlushed' /\ MessagesSent'
  BY <1>1, <1>4 DEF DeliveryInv, SeenBelow, VersionsReached, VersionsFlushed, MessagesSent
<1>6. VersionsWithin'
  <2>1. \A p, w : Within(p, w)' <=> Within(p, w)
    BY <1>1, <1>4 DEF Within
  <2> QED
    BY <1>4, <2>1 DEF DeliveryInv, VersionsWithin
<1>7. MarkerOK'
  BY <1>1 DEF DeliveryInv, MarkerOK, MarkerVersion, Delivered, Owed, Pending, EntryAt
<1>8. OwedOK'
  <2>1. \A p, part : /\ Owed(p, part)' <=> Owed(p, part)
                     /\ Unwaited(p, part)' <=> Unwaited(p, part)
    BY <1>1, <1>4 DEF Owed, EntryAt, Unwaited
  <2> QED
    BY <2>1 DEF DeliveryInv, OwedOK
<1>9. TrackedOK'
  <2>1. \A p : /\ Undelivered(p)' <=> Undelivered(p)
               /\ AllSent(p)' <=> AllSent(p)
    BY <1>1, <1>4 DEF Undelivered, AllSent
  <2> QED
    BY <1>1, <2>1 DEF DeliveryInv, TrackedOK
<1> QED
  BY <1>2, <1>3, <1>5, <1>6, <1>7, <1>8, <1>9 DEF DeliveryInv, PlanOK

\* Messages keep their type, on the topic and off it.
LEMMA QueuesNext ==
  ASSUME PlanOK, Next, TreasuryOK'
  PROVE  QueuesOK'
<1>1. CASE Stirs
  BY <1>1, StirringDelivers DEF PlanOK, QueuesOK
<1>2. ASSUME NEW message, SendsOut(message)
      PROVE  QueuesOK'
  BY <1>2, WhoSends, SendingAdds DEF SendsOut, Accepts, PlanOK, QueuesOK
<1> QED
  BY <1>1, <1>2, NextStirsOrSends DEF PlanOK

\* Every step keeps the invariant.
LEMMA DeliveryNext ==
  ASSUME DeliveryInv, [Next]_vars
  PROVE  DeliveryInv'
<1>1. CASE Next
  <2>1. ValidationInv'
    BY <1>1, ValidationNext DEF DeliveryInv
  <2>2. PlanOK'
    BY <1>1, <2>1, QueuesNext, SeenMoves, FailsNext
       DEF DeliveryInv, PlanOK, ValidationInv, StackOK
  <2> QED
    BY <1>1, <2>1, <2>2, SeenBelowNext, VersionsWithinNext, VersionsReachedNext,
       VersionsFlushedNext, MessagesSentNext, MarkerNext, OwedNext, TrackedNext
       DEF DeliveryInv
<1>2. CASE UNCHANGED vars
  BY <1>2, DeliveryStutters
<1> QED
  BY <1>1, <1>2

\* The inductive invariant of the messages holds in every behaviour.
THEOREM DeliveryInvariant == Spec => []DeliveryInv
  BY DeliveryInit, DeliveryNext, PTL DEF Spec

\* When a scenario compares a program with what a treasury message was to do, or
\* not to do, no message on that program is still under way: the poll or the
\* flusher's marker before the check was long enough.
THEOREM ChecksAreNotEarly == Spec => []ChecksSeeDelivered
<1>1. DeliveryInv => ChecksSeeDelivered
  <2> SUFFICES ASSUME DeliveryInv, Doing("check"), NEW p \in CheckedPrograms
               PROVE  ~ Undelivered(p)
    BY DEF ChecksSeeDelivered
  <2>1. InScenario /\ Step.op = "check"
    BY DEF Doing, InScenario
  <2>2. CASE "program" \in DOMAIN Step.fact
    <3>1. p = Step.fact.program
      BY <2>2 DEF CheckedPrograms
    <3>2. SeesDelivered(at, line, p)
      BY <2>1, <2>2, <3>1, StepInPlan DEF Disciplined, DeliveryInv, PlanOK
    <3> QED
      BY <2>1, <3>2, SettledIsDelivered DEF DeliveryInv
  <2>3. CASE "program" \notin DOMAIN Step.fact
    <3>1. \E t \in tracked : p = t.program
      BY <2>3 DEF CheckedPrograms
    <3> QED
      BY <3>1 DEF DeliveryInv, TrackedOK
  <2> QED
    BY <2>2, <2>3
<1>2. QED
  BY <1>1, DeliveryInvariant, PTL

-----------------------------------------------------------------------------
(* What a run that goes well has seen *)

\* Nothing has failed so far, and no mandatory scenario was left out.
AllWell ==
  /\ ~ failing
  /\ \A m \in DOMAIN Plan : m < at =>
       results[m] # "FAIL" /\ (Plan[m].mandatory => results[m] = "PASS")

\* The driver has come past step k of scenario n, and all is well.
Came(n, k) == AllWell /\ Past(n, k) /\ (n < at => results[n] = "PASS")

\* What is well had been well before.
LEMMA AllWellBefore ==
  ASSUME PlanOK, Next, AllWell'
  PROVE  AllWell
<1>0. at \in Nat
  BY DEF PlanOK, PlaceOK
<1>1. CASE ScenarioStep
  <2>1. at' = at /\ results' = results
    BY <1>1, StepMoves DEF PlanOK
  <2>2. failing => failing'
    BY <1>1, StepMoves DEF place, PlanOK
  <2> QED
    BY <2>1, <2>2 DEF AllWell
<1>2. CASE OutOfStep
  <2>1. CASE UNCHANGED <<at, failing, results>>
    BY <2>1 DEF AllWell
  <2>2. CASE /\ failing' = failing /\ at' >= at /\ at' \in Nat
             /\ \A n \in DOMAIN Plan : n < at => results'[n] = results[n]
    <3>1. ASSUME NEW m \in DOMAIN Plan, m < at
          PROVE  m < at' /\ results'[m] = results[m]
      BY <1>0, <2>2, <3>1, PlanIsSequence
    <3> QED
      BY <2>2, <3>1 DEF AllWell
  <2>3. CASE /\ at \in DOMAIN Plan /\ ~ failing' /\ at' = at + 1
             /\ results' = [results EXCEPT ![at] = IF failing THEN "FAIL" ELSE "PASS"]
    <3>1. ASSUME NEW m \in DOMAIN Plan, m < at
          PROVE  m < at' /\ results'[m] = results[m]
      BY <1>0, <2>3, <3>1, PlanIsSequence DEF PlanOK, PlaceOK
    <3>2. ~ failing
      <4>1. at < at' /\ results'[at] = IF failing THEN "FAIL" ELSE "PASS"
        BY <1>0, <2>3 DEF PlanOK, PlaceOK
      <4>2. results'[at] # "FAIL"
        BY <2>3, <4>1 DEF AllWell
      <4> QED
        BY <4>1, <4>2
    <3> QED
      BY <3>1, <3>2 DEF AllWell
  <2> QED
    BY <1>2, <2>1, <2>2, <2>3 DEF OutOfStep
<1> QED
  BY <1>1, <1>2, OtherMoves DEF Next, Driver, PlanOK

\* While all is well the driver comes past its steps one by one.
LEMMA CameMoves ==
  ASSUME PlanOK, Next, NEW n \in DOMAIN Plan, NEW k \in DOMAIN StepsOf(n), Came(n, k)'
  PROVE  Came(n, k) \/ (Completes /\ n = at /\ k = line /\ AllWell)
<1>0. /\ n \in Nat /\ at \in Nat /\ line \in Nat /\ k \in Nat \ {0}
      /\ DOMAIN StepsOf(n) = 1..Len(StepsOf(n)) /\ Len(StepsOf(n)) \in Nat
  BY PlanIsSequence, BodyIsWellFormed DEF PlanOK, PlaceOK, StepsOf
<1>1. AllWell
  BY AllWellBefore DEF Came
<1>2. ~ failing' /\ Past(n, k)' /\ (n < at' => results'[n] = "PASS")
  BY DEF Came, AllWell
<1>3. CASE Past(n, k)
  <2>1. ASSUME n < at
        PROVE  results[n] = "PASS"
    <3>1. results'[n] = results[n]
      BY <1>0, <2>1, ResultStands DEF PlanOK, PlaceOK
    <3>2. n < at'
      <4>1. CASE ScenarioStep
        BY <2>1, <4>1, StepMoves DEF PlanOK
      <4>2. CASE OutOfStep
        BY <1>0, <2>1, <4>2 DEF OutOfStep
      <4> QED
        BY <4>1, <4>2, OtherMoves DEF Next, Driver, PlanOK
    <3> QED
      BY <1>2, <3>1, <3>2
  <2> QED
    BY <1>1, <1>3, <2>1 DEF Came
<1>4. CASE ~ Past(n, k)
  <2>1. CASE ScenarioStep
    <3>1. at' = at
      BY <2>1, StepMoves DEF PlanOK
    <3>2. line' = line + 1 /\ ~ failing
      BY <1>2, <1>4, <2>1, <3>1, StepMoves DEF place, Past, Before, PlanOK
    <3> QED
      BY <1>0, <1>1, <1>2, <1>4, <2>1, <3>1, <3>2 DEF Past, Before, Completes
  <2>2. CASE OutOfStep
    <3>1. CASE UNCHANGED <<at, line>> \/ (line = 0 /\ line' = 1 /\ UNCHANGED at)
      BY <1>0, <1>2, <1>4, <3>1 DEF Past, Before
    <3>2. CASE /\ line = 0 /\ line' = 0 /\ at' >= at /\ at' \in Nat
               /\ \A m \in DOMAIN Plan : m >= at /\ m < at' => results'[m] # "PASS"
      BY <1>0, <1>2, <1>4, <3>2 DEF Past, Before
    <3>3. CASE line = End /\ line' = 0 /\ at' = at + 1
      BY <1>0, <1>2, <1>4, <3>3 DEF Past, Before, End, StepsOf
    <3> QED
      BY <2>2, <3>1, <3>2, <3>3 DEF OutOfStep
  <2> QED
    BY <2>1, <2>2, OtherMoves DEF Next, Driver, PlanOK
<1> QED
  BY <1>3, <1>4

\* The driver does not come back to what is behind it.
LEMMA StepIsBehind ==
  ASSUME PlanOK, InScenario, NEW n \in DOMAIN Plan, NEW k \in DOMAIN StepsOf(n), Past(n, k)
  PROVE  /\ \A ops : NoneBehind(n, k, ops) => Step.op \notin ops
         /\ \A command : LastOf(n, k, command) => ~ Commands(Step, command)
<1>1. /\ at \in DOMAIN Plan /\ line \in DOMAIN StepsOf(at) /\ Step = StepAt(at, line)
      /\ at \in Nat /\ line \in Nat
  BY StepInPlan DEF PlanOK
<1>2. n \in Nat /\ k \in Nat
  BY PlanIsSequence, BodyIsWellFormed DEF StepsOf
<1>3. ~ Before(at, line, n, k)
  BY <1>1, <1>2 DEF Past, Before
<1>4. ASSUME NEW ops, NoneBehind(n, k, ops), Step.op \in ops
      PROVE  FALSE
  BY <1>1, <1>3, <1>4 DEF NoneBehind
<1>5. ASSUME NEW command, LastOf(n, k, command), Commands(Step, command)
      PROVE  FALSE
  BY <1>1, <1>3, <1>5 DEF LastOf, Commands
<1> QED
  BY <1>4, <1>5

-----------------------------------------------------------------------------
(* Containers *)

DisturbancesOK == disturbances \in Nat /\ disturbances <= MaxDisturbances

\* What goes wrong is counted.
LEMMA DisturbancesGrow ==
  ASSUME DisturbancesOK, Next
  PROVE  /\ disturbances' = disturbances \/ disturbances' = disturbances + 1
         /\ DisturbancesOK'
<1> SUFFICES UNCHANGED disturbances \/ Disturb
  BY StackAssumption DEF DisturbancesOK, Disturb
<1>1. CASE AskStep \/ RaceStep
  BY <1>1 DEF AskStep, RaceStep, Request
<1>2. CASE AwaitStep \/ CheckStep \/ ReadStep \/ TrackStep \/ BaselineStep \/ RememberStep
  BY <1>2 DEF AwaitStep, CheckStep, ReadStep, TrackStep, BaselineStep, RememberStep,
     stackVars
<1>3. CASE PrintenvStep \/ StepFails
  BY <1>3 DEF PrintenvStep, StepFails
<1>4. CASE PublishStep \/ FlushStep \/ ComposeStep \/ MigrateStep
  BY <1>4 DEF PublishStep, FlushStep, Publish, ComposeStep, MigrateStep, Compose, MigrateUp
<1>5. CASE StartScenario \/ BlockMain \/ EndScenario \/ Finish \/ CommandHangs
  BY <1>5 DEF StartScenario, BlockMain, EndScenario, Finish, CommandHangs, stackVars
<1>6. CASE Stack \/ Outside
  BY <1>6 DEF Stack, Outside, StackWorks, ConsumeEntry, CommitOffset, PublishOutbox,
     AppReady, AppCrash, DeadLetter
<1> QED
  BY <1>1, <1>2, <1>3, <1>4, <1>5, <1>6 DEF Next, Driver, ScenarioStep

\* A command has its effect, or something went wrong, which a strict step tells.
LEMMA CommandsDone ==
  ASSUME ComposeStep
  PROVE  /\ Doing("compose")
         /\ \/ ComposeEffect(Step.command)
            \/ disturbances' = disturbances + 1 /\ (ComposeEffect(Step.command) \/ UNCHANGED containers)
         /\ Completes /\ Step.strict => ComposeEffect(Step.command)
<1>1. PICK ok \in BOOLEAN : Compose(Step.command, ok) /\ AdvanceIf(ok \/ ~ Step.strict)
  BY DEF ComposeStep
<1>2. Completes /\ Step.strict => ok
  BY <1>1 DEF AdvanceIf, Throw, Completes
<1> QED
  BY <1>1, <1>2 DEF Compose, Disturb, ComposeStep

\* Only the driver's commands and a crash stop something.
LEMMA ContainersMove ==
  ASSUME DisturbancesOK, Next
  PROVE  \/ /\ UNCHANGED <<kafka, fx>>
            /\ app' = app \/ app' = "up" \/ disturbances' = disturbances + 1
         \/ ComposeStep /\ ComposeEffect(Step.command)
<1> USE DEF containers
<1>1. CASE AskStep \/ RaceStep
  BY <1>1 DEF AskStep, RaceStep, Request
<1>2. CASE AwaitStep \/ CheckStep \/ ReadStep \/ TrackStep \/ BaselineStep \/ RememberStep
  BY <1>2 DEF AwaitStep, CheckStep, ReadStep, TrackStep, BaselineStep, RememberStep,
     stackVars
<1>3. CASE PrintenvStep \/ StepFails
  BY <1>3 DEF PrintenvStep, StepFails
<1>4. CASE PublishStep \/ FlushStep \/ MigrateStep
  BY <1>4 DEF PublishStep, FlushStep, Publish, MigrateStep, MigrateUp
<1>5. CASE ComposeStep
  BY <1>5, CommandsDone
<1>6. CASE StartScenario \/ BlockMain \/ EndScenario \/ Finish \/ CommandHangs
  BY <1>6 DEF StartScenario, BlockMain, EndScenario, Finish, CommandHangs, stackVars
<1>7. CASE Stack \/ Outside
  BY <1>7 DEF Stack, Outside, StackWorks, ConsumeEntry, CommitOffset, PublishOutbox,
     AppReady, AppCrash, NewProcess, Disturb, DeadLetter, Pass
<1> QED
  BY <1>1, <1>2, <1>3, <1>4, <1>5, <1>6, <1>7 DEF Next, Driver, ScenarioStep

\* What a look at the stack, the outbox or the tracked programs finds.
LEMMA FactHolds ==
  ASSUME NEW f, Holds(f)
  PROVE  /\ f.is = "kafka-healthy" => kafka = "up"
         /\ f.is = "app-healthy" => app = "up"
         /\ f.is = "outbox-drained" => outbox = published
         /\ f.is = "tracked" => tracked # {} /\ TrackedHold
<1> USE DEF Holds, HoldsInTables, HoldsInOutbox, HoldsInStack, HoldsForRun, HoldsOfAnswers
<1>1. CASE f.is = "kafka-healthy"
  BY <1>1
<1>2. CASE f.is = "app-healthy"
  BY <1>2
<1>3. CASE f.is = "outbox-drained"
  BY <1>3
<1>4. CASE f.is = "tracked"
  BY <1>4
<1> QED
  BY <1>1, <1>2, <1>3, <1>4

\* A look that went well found its fact and left everything as it was.
LEMMA LookHolds ==
  ASSUME PlanOK, Completes, Step.op \in {"await", "check"}
  PROVE  Holds(Step.fact) /\ UNCHANGED <<stackVars, memory>>
<1>1. ~ StepFails
  BY StepInPlan, StepMoves DEF Completes, StepFails, Throw
<1>2. AwaitStep \/ CheckStep
  BY <1>1 DEF Completes, ScenarioStep, AskStep, RaceStep, ReadStep,
     PrintenvStep, PublishStep, FlushStep, ComposeStep, MigrateStep, TrackStep,
     BaselineStep, RememberStep, Doing
<1> QED
  BY <1>2 DEF Completes, AwaitStep, CheckStep, AdvanceIf, Throw

\* The operation says which step it is.
LEMMA StepOfOp ==
  ASSUME ScenarioStep
  PROVE  /\ Step.op = "compose" => ComposeStep
         /\ Step.op = "printenv" => PrintenvStep
BY DEF ScenarioStep, AskStep, RaceStep, AwaitStep, CheckStep, ReadStep, PrintenvStep,
   PublishStep, FlushStep, ComposeStep, MigrateStep, TrackStep, BaselineStep,
   RememberStep, StepFails, Doing

\* The broker runs from the last scenario on that waited for it.
BrokerOK ==
  \A n \in DOMAIN Plan : \A k \in DOMAIN StepsOf(n) :
    FindsBroker(n, k) /\ Came(n, k) => kafka = "up"

\* Nothing stops the broker behind that wait.
LEMMA BrokerNext ==
  ASSUME PlanOK, DisturbancesOK, BrokerOK, Next
  PROVE  BrokerOK'
<1> SUFFICES ASSUME NEW n \in DOMAIN Plan, NEW k \in DOMAIN StepsOf(n),
                    FindsBroker(n, k), Came(n, k)'
             PROVE  kafka' = "up"
  BY DEF BrokerOK
<1>1. CASE Came(n, k)
  <2>1. kafka = "up"
    BY <1>1 DEF BrokerOK
  <2>2. CASE UNCHANGED kafka
    BY <2>1, <2>2
  <2>3. CASE ComposeStep /\ ComposeEffect(Step.command)
    <3>1. Doing("compose") /\ InScenario /\ Step.op = "compose"
      BY <2>3, CommandsDone DEF Doing, InScenario
    <3>2. Step.command # "stop-kafka"
      BY <1>1, <3>1, StepIsBehind DEF Came, FindsBroker, Commands
    <3> QED
      BY <2>1, <2>3, <3>2 DEF ComposeEffect
  <2> QED
    BY <2>2, <2>3, ContainersMove
<1>2. CASE Completes /\ n = at /\ k = line
  <2>1. Step = StepAt(n, k)
    BY <1>2, StepInPlan, StepMoves DEF Completes, PlanOK
  <2>2. Holds(Step.fact) /\ UNCHANGED stackVars /\ Step.fact.is = "kafka-healthy"
    BY <1>2, <2>1, LookHolds DEF FindsBroker, Finds
  <2> QED
    BY <2>2, FactHolds DEF stackVars, containers
<1> QED
  BY <1>1, <1>2, CameMoves

-----------------------------------------------------------------------------
(* The provider's address *)

Overridden ==
  \E m \in DOMAIN Plan : \E j \in DOMAIN StepsOf(m) :
    Commands(StepAt(m, j), "override-fx") /\ Past(m, j) /\ Played(m)

\* Once the stack is up, the provider's address is another one only if a scenario
\* changed it.  The command that takes it back may fail; from there on it takes
\* one more thing gone wrong to keep that from the driver.
FxOK ==
  \A n \in DOMAIN Plan : \A k \in DOMAIN StepsOf(n) : fx = "override" =>
    /\ Commands(StepAt(n, k), "up") /\ Came(n, k) => Overridden
    /\ \A l \in DOMAIN StepsOf(n) : TakesBack(n, k, l) =>
         /\ Came(n, k) => disturbances > 0
         /\ Came(n, k + 1) /\ ~ Past(n, l) => disturbances > 1 \/ app = "up"
         /\ Came(n, l) => disturbances > 1

\* The address is overridden by one command only.
LEMMA FxMoves ==
  ASSUME PlanOK, DisturbancesOK, ContainersOK, Next, fx' = "override"
  PROVE  fx = "override" \/ (ComposeStep /\ InScenario /\ Commands(Step, "override-fx"))
<1>1. CASE UNCHANGED fx
  BY <1>1
<1>2. CASE ComposeStep /\ ComposeEffect(Step.command)
  <2>1. Step.op = "compose" /\ InScenario
    BY <1>2, CommandsDone DEF Doing, InScenario
  <2> QED
    BY <1>2, <2>1 DEF ComposeEffect, Commands
<1> QED
  BY <1>1, <1>2, ContainersMove

\* What was overridden is so for good.
LEMMA OverriddenStays ==
  ASSUME PlanOK, Next, Overridden
  PROVE  Overridden'
<1>1. PICK m \in DOMAIN Plan : \E j \in DOMAIN StepsOf(m) :
        Commands(StepAt(m, j), "override-fx") /\ Past(m, j) /\ Played(m)
  BY DEF Overridden
<1>2. PICK j \in DOMAIN StepsOf(m) :
        Commands(StepAt(m, j), "override-fx") /\ Past(m, j) /\ Played(m)
  BY <1>1
<1>3. Past(m, j)' /\ Played(m)'
  BY <1>2, PastGrows, PlayedStays DEF PlanOK
<1> QED
  BY <1>2, <1>3 DEF Overridden

\* The address of a stack that was started is the original one, or overridden.
LEMMA FxOfStack ==
  ASSUME PlanOK, DisturbancesOK, ContainersOK, FxOK, Next,
         NEW n \in DOMAIN Plan, NEW k \in DOMAIN StepsOf(n),
         Commands(StepAt(n, k), "up"), Came(n, k)', fx' = "override"
  PROVE  Overridden'
<1>1. CASE ComposeStep /\ InScenario /\ Commands(Step, "override-fx")
  <2>1. /\ at' = at /\ line' > line /\ at \in DOMAIN Plan /\ line \in DOMAIN StepsOf(at)
        /\ Step = StepAt(at, line)
    BY <1>1, ActsMove, StepInPlan DEF PlanOK
  <2>2. PICK m \in DOMAIN Plan : m = at
    BY <2>1
  <2>3. PICK j \in DOMAIN StepsOf(m) : j = line
    BY <2>1, <2>2
  <2>4. Past(m, j)' /\ Played(m)'
    BY <2>1, <2>2, <2>3 DEF Past, Before, Played
  <2> QED
    BY <1>1, <2>1, <2>2, <2>3, <2>4 DEF Overridden
<1>2. CASE fx = "override" /\ Came(n, k)
  BY <1>2, OverriddenStays DEF FxOK
<1>3. CASE Completes /\ n = at /\ k = line
  <2>1. Step = StepAt(n, k) /\ ScenarioStep
    BY <1>3, StepInPlan, StepMoves DEF Completes, PlanOK
  <2>2. Step.op = "compose" /\ Step.command = "up" /\ Step.strict
    BY <2>1, EndAssumption DEF Commands
  <2>3. ComposeStep
    BY <2>1, <2>2, StepOfOp
  <2>4. ComposeEffect("up")
    BY <1>3, <2>2, <2>3, CommandsDone
  <2> QED
    BY <2>4 DEF ComposeEffect
<1> QED
  BY <1>1, <1>2, <1>3, FxMoves, CameMoves

\* What the driver knows of the address once it has taken the override back.
LEMMA FxTakenBack ==
  ASSUME PlanOK, DisturbancesOK, ContainersOK, FxOK, Next,
         NEW n \in DOMAIN Plan, NEW k \in DOMAIN StepsOf(n), NEW l \in DOMAIN StepsOf(n),
         TakesBack(n, k, l), fx' = "override"
  PROVE  /\ Came(n, k)' => disturbances' > 0
         /\ Came(n, k + 1)' /\ ~ Past(n, l)' => disturbances' > 1 \/ app' = "up"
         /\ Came(n, l)' => disturbances' > 1
<1>0. /\ n \in Nat /\ k \in Nat /\ l \in Nat /\ k + 1 < l /\ k + 1 \in DOMAIN StepsOf(n)
      /\ at \in Nat /\ line \in Nat
      /\ disturbances \in Nat
      /\ disturbances' = disturbances \/ disturbances' = disturbances + 1
  <2>1. /\ DOMAIN StepsOf(n) = 1..Len(StepsOf(n)) /\ Len(StepsOf(n)) \in Nat
        /\ k + 1 < l
    BY BodyIsWellFormed DEF StepsOf, TakesBack
  <2>2. n \in Nat /\ at \in Nat /\ line \in Nat
    BY PlanIsSequence DEF PlanOK, PlaceOK
  <2> QED
    BY <2>1, <2>2, DisturbancesGrow DEF DisturbancesOK
<1>1. ASSUME Past(n, k)
      PROVE  fx = "override"
  <2>1. InScenario => ~ Commands(Step, "override-fx")
    BY <1>1, StepIsBehind DEF TakesBack
  <2> QED
    BY <2>1, FxMoves
<1>2. ASSUME NEW i \in DOMAIN StepsOf(n), k <= i, Came(n, i)
      PROVE  Past(n, k) /\ Came(n, k)
  <2>1. i \in Nat
    BY BodyIsWellFormed DEF StepsOf
  <2> QED
    BY <1>0, <1>2, <2>1 DEF Came, Past, Before
<1>3. ASSUME Came(n, k)'
      PROVE  disturbances' > 0
  <2>1. CASE Came(n, k)
    <3>1. fx = "override"
      BY <1>1, <2>1 DEF Came
    <3>2. disturbances > 0
      BY <2>1, <3>1 DEF FxOK
    <3> QED
      BY <1>0, <3>2
  <2>2. CASE Completes /\ n = at /\ k = line
    <3>1. Step = StepAt(n, k) /\ ScenarioStep
      BY <2>2, StepInPlan, StepMoves DEF Completes, PlanOK
    <3>2. Step.op = "compose" /\ Step.command = "restore-fx"
      BY <3>1 DEF TakesBack, Commands
    <3>3. ComposeStep
      BY <3>1, <3>2, StepOfOp
    <3>4. ~ ComposeEffect("restore-fx")
      BY DEF ComposeEffect
    <3>5. disturbances' = disturbances + 1
      BY <3>2, <3>3, <3>4, CommandsDone
    <3> QED
      BY <1>0, <3>5
  <2> QED
    BY <1>3, <2>1, <2>2, CameMoves
<1>4. ASSUME Came(n, k + 1)', ~ Past(n, l)'
      PROVE  disturbances' > 1 \/ app' = "up"
  <2>1. CASE Came(n, k + 1)
    <3>1. Past(n, k) /\ Came(n, k)
      BY <1>0, <1>2, <2>1
    <3>2. fx = "override"
      BY <1>1, <3>1
    <3>3. disturbances > 0
      BY <3>1, <3>2 DEF FxOK
    <3>4. ~ Past(n, l)
      BY <1>4, PastGrows DEF PlanOK
    <3>5. disturbances > 1 \/ app = "up"
      BY <2>1, <3>2, <3>4 DEF FxOK
    <3>6. ~ ComposeStep
      <4>1. SUFFICES ASSUME ComposeStep PROVE FALSE
        OBVIOUS
      <4>2. Step.op = "compose" /\ InScenario
        BY <4>1, CommandsDone DEF Doing, InScenario
      <4>3. Step = StepAt(at, line) /\ line \in DOMAIN StepsOf(at)
        BY <4>2, StepInPlan DEF PlanOK
      <4>4. n = at /\ k + 1 < line /\ ~ l < line
        BY <1>0, <2>1, <3>4 DEF Came, Past, Before
      <4>5. line # l
        BY <4>2, <4>3, <4>4 DEF TakesBack
      <4>6. line < l
        BY <1>0, <4>4, <4>5
      <4> QED
        BY <4>2, <4>3, <4>4, <4>6 DEF TakesBack
    <3> QED
      BY <1>0, <3>3, <3>5, <3>6, ContainersMove
  <2>2. CASE Completes /\ n = at /\ k + 1 = line
    <3>1. Step = StepAt(n, k + 1)
      BY <2>2, StepInPlan, StepMoves DEF Completes, PlanOK
    <3>2. Step.op = "await" /\ Step.fact.is = "app-healthy"
      BY <3>1 DEF TakesBack, Finds
    <3>3. app = "up" /\ UNCHANGED stackVars
      BY <2>2, <3>2, LookHolds, FactHolds
    <3> QED
      BY <3>3 DEF stackVars, containers
  <2> QED
    BY <1>0, <1>4, <2>1, <2>2, CameMoves
<1>5. ASSUME Came(n, l)'
      PROVE  disturbances' > 1
  <2>1. CASE Came(n, l)
    <3>1. fx = "override"
      BY <1>0, <1>1, <1>2, <2>1
    <3>2. disturbances > 1
      BY <2>1, <3>1 DEF FxOK
    <3> QED
      BY <1>0, <3>2
  <2>2. CASE Completes /\ n = at /\ l = line /\ AllWell
    <3>1. Step = StepAt(n, l) /\ ScenarioStep
      BY <2>2, StepInPlan, StepMoves DEF Completes, PlanOK
    <3>2. PrintenvStep
      BY <3>1, StepOfOp DEF TakesBack
    <3>3. Came(n, k) /\ Came(n, k + 1) /\ ~ Past(n, l) /\ Past(n, k)
      BY <1>0, <2>2 DEF Came, Past, Before
    <3>4. fx = "override"
      BY <1>1, <3>3
    <3>5. disturbances > 0 /\ (disturbances > 1 \/ app = "up")
      BY <3>3, <3>4 DEF FxOK
    <3>6. \/ fx = "original" \/ app # "up"
          \/ disturbances' = disturbances + 1
      BY <2>2, <3>2 DEF PrintenvStep, AdvanceIf, Throw, Completes, Disturb
    <3> QED
      BY <1>0, <3>4, <3>5, <3>6
  <2> QED
    BY <1>5, <2>1, <2>2, CameMoves
<1> QED
  BY <1>3, <1>4, <1>5

\* Every step keeps what is known of the address.
LEMMA FxNext ==
  ASSUME PlanOK, DisturbancesOK, ContainersOK, FxOK, Next
  PROVE  FxOK'
BY FxOfStack, FxTakenBack DEF FxOK

-----------------------------------------------------------------------------
(* Rows *)

LivePrograms == {p \in Programs : programState[p] = "LIVE"}
KnownInvoices == {i \in Invoices : invoice[i] # "ABSENT"}
TakenRows == {r \in ReservationIds : reservation[r] # NoReservation}

\* The rows that are counted can be counted.
CountsOK ==
  /\ DOMAIN total = Programs
  /\ IsFiniteSet(users) /\ IsFiniteSet(LivePrograms) /\ IsFiniteSet(KnownInvoices)
  /\ IsFiniteSet(TakenRows) /\ IsFiniteSet(releases) /\ IsFiniteSet(reconciliations)
  /\ IsFiniteSet(inbox) /\ IsFiniteSet(outbox)

\* Rows are added, one at a time.
Grows(A, B) == A \subseteq B /\ \E x : B \subseteq A \cup {x}
RowsGrow ==
  /\ Grows(users, users') /\ Grows(LivePrograms, LivePrograms')
  /\ Grows(KnownInvoices, KnownInvoices') /\ Grows(TakenRows, TakenRows')
  /\ Grows(releases, releases') /\ Grows(reconciliations, reconciliations')
  /\ Grows(inbox, inbox') /\ Grows(outbox, outbox')

\* What a request may do to rows, and what one entry may.
Requested ==
  /\ RowsGrow
  /\ UNCHANGED <<version, reconciliations, inbox>>
  /\ DOMAIN total' = DOMAIN total
  /\ \A p \in LivePrograms : total'[p] = total[p]
Reconciled(p) ==
  /\ RowsGrow
  /\ UNCHANGED <<users, programState, reservation>>
  /\ DOMAIN total' = DOMAIN total
  /\ \A q \in Programs \ {p} : total'[q] = total[q] /\ version'[q] = version[q]
  /\ \A o \in outbox' \ outbox : o.topic = "reconciliations.events" /\ o.key = p

\* A set that grows by one element stays finite, and is no smaller.
LEMMA GrowingCounts ==
  ASSUME NEW A, NEW B, IsFiniteSet(A), Grows(A, B)
  PROVE  /\ IsFiniteSet(B)
         /\ Cardinality(A) \in Nat /\ Cardinality(B) \in Nat
         /\ Cardinality(B) >= Cardinality(A)
<1>1. PICK x : B \subseteq A \cup {x}
  BY DEF Grows
<1>2. IsFiniteSet(A \cup {x})
  BY FS_AddElement
<1>3. IsFiniteSet(B)
  BY <1>1, <1>2, FS_Subset
<1>4. Cardinality(A) <= Cardinality(B)
  BY <1>3, FS_Subset DEF Grows
<1> QED
  BY <1>3, <1>4, FS_CardinalityType

\* Nothing is added when nothing changes.
LEMMA SameRows ==
  ASSUME UNCHANGED <<tables, users>>
  PROVE  RowsGrow
BY DEF RowsGrow, Grows, tables, programVars, LivePrograms, KnownInvoices, TakenRows

\* The rows of a reservation request.
LEMMA ReservationRows ==
  ASSUME RowsOK, NEW q, NEW status, NEW usd, PostReservation(q, usd, status)
  PROVE  Requested
<1>1. CASE UNCHANGED tables
  <2>1. UNCHANGED users
    BY DEF PostReservation
  <2> QED
    BY <1>1, <2>1, SameRows DEF Requested, tables, programVars
<1>2. CASE ~ UNCHANGED tables
  <2>1. PICK r \in ReservationIds : CommitReservation(r, q.program, q.invoice, usd)
    BY <1>2 DEF PostReservation
  <2>2. UNCHANGED users /\ invoice[q.invoice] = "OPEN"
    BY <1>2 DEF PostReservation
  <2>3. /\ UNCHANGED <<programState, total, version, releases, reconciliations, inbox, users>>
        /\ reservation' = [reservation EXCEPT ![r] =
             [status |-> "ACTIVE", program |-> q.program, invoice |-> q.invoice, usd |-> usd]]
        /\ invoice' = [invoice EXCEPT ![q.invoice] = "RESERVED"]
        /\ outbox' = outbox \cup {ReservationCreated(r, q.program)}
    BY <2>1, <2>2 DEF CommitReservation, programVars
  <2>4. Grows(KnownInvoices, KnownInvoices')
    BY <2>3 DEF Grows, KnownInvoices, RowsOK
  <2>5. Grows(TakenRows, TakenRows')
    BY <2>3 DEF Grows, TakenRows, RowsOK, NoReservation
  <2>6. Grows(outbox, outbox')
    BY <2>3 DEF Grows
  <2>7. UNCHANGED LivePrograms
    BY <2>3 DEF LivePrograms
  <2> QED
    BY <2>3, <2>4, <2>5, <2>6, <2>7 DEF Requested, RowsGrow, Grows
<1> QED
  BY <1>1, <1>2

\* The rows of every other request.
LEMMA HandledRows ==
  ASSUME RowsOK, CountsOK, NEW q, NEW status, KnownRequest(q), Handle(q, status)
  PROVE  Requested
<1>1. CASE Register(q, status) \/ Login(q, status) \/ Refresh(q, status)
           \/ Get(q, status) \/ Unauthorized(q, status)
  <2>1. UNCHANGED tables /\ Grows(users, users')
    <3>1. UNCHANGED tables /\ (users' = users \/ users' = users \cup {q.user})
      BY <1>1 DEF Register, Login, Refresh, Get, Unauthorized, rows
    <3> QED
      BY <3>1 DEF Grows
  <2>2. UNCHANGED <<LivePrograms, KnownInvoices, TakenRows>>
    BY <2>1 DEF LivePrograms, KnownInvoices, TakenRows, tables, programVars
  <2> QED
    BY <2>1, <2>2 DEF Requested, RowsGrow, Grows, tables, programVars
<1>2. CASE PostProgram(q, status)
  <2>1. /\ programState' = [programState EXCEPT ![q.program] = "LIVE"]
        /\ total' = [total EXCEPT ![q.program] = q.total]
        /\ programState[q.program] = "ABSENT" /\ q.program \in Programs
        /\ UNCHANGED <<version, invoice, reservation, releases, reconciliations, inbox,
                       outbox, users>>
    BY <1>2 DEF PostProgram, CommitProgram, KnownRequest
  <2>2. /\ Grows(LivePrograms, LivePrograms')
        /\ \A p \in LivePrograms : total'[p] = total[p]
    BY <2>1 DEF Grows, LivePrograms, RowsOK, CountsOK
  <2>3. UNCHANGED <<KnownInvoices, TakenRows>>
    BY <2>1 DEF KnownInvoices, TakenRows
  <2> QED
    BY <2>1, <2>2, <2>3 DEF Requested, RowsGrow, Grows
<1>3. CASE PostInvoice(q, status)
  <2>1. UNCHANGED users
    BY <1>3 DEF PostInvoice
  <2>2. CASE UNCHANGED tables
    BY <2>1, <2>2, SameRows DEF Requested, tables, programVars
  <2>3. CASE ~ UNCHANGED tables
    <3>1. /\ invoice' = [invoice EXCEPT ![q.invoice] = "OPEN"]
          /\ UNCHANGED <<programState, total, version, reservation, releases, reconciliations,
                         inbox, outbox, users>>
      BY <1>3, <2>1, <2>3 DEF PostInvoice, CommitInvoice, programVars
    <3>2. Grows(KnownInvoices, KnownInvoices')
      BY <3>1 DEF Grows, KnownInvoices, RowsOK
    <3>3. UNCHANGED <<LivePrograms, TakenRows>>
      BY <3>1 DEF LivePrograms, TakenRows
    <3> QED
      BY <3>1, <3>2, <3>3 DEF Requested, RowsGrow, Grows
  <2> QED
    BY <2>2, <2>3
<1>4. CASE q.kind = "reserve" /\ PostReservation(q, price[q.invoice], status)
  BY <1>4, ReservationRows
<1>5. CASE PostRelease(q, status)
  <2>1. PICK r \in RowsOf(q.invoice) :
          IF reservation[r].status = "ACTIVE"
            THEN CommitRelease(r, reservation[r]) ELSE UNCHANGED tables
    BY <1>5 DEF PostRelease
  <2>2. UNCHANGED users
    BY <1>5 DEF PostRelease
  <2>3. CASE UNCHANGED tables
    BY <2>2, <2>3, SameRows DEF Requested, tables, programVars
  <2>4. CASE ~ UNCHANGED tables
    <3>1. r \in ReservationIds /\ reservation[r] \in ReservationRow
      BY <2>1 DEF RowsOf, RowsOK
    <3>2. /\ UNCHANGED <<programState, total, version, reconciliations, inbox, users>>
          /\ releases' = releases \cup {ReleaseRow(r, reservation[r])}
          /\ reservation' = [reservation EXCEPT ![r].status = "RELEASED"]
          /\ invoice' = [invoice EXCEPT ![reservation[r].invoice] = "REPAID"]
          /\ outbox' = outbox \cup {ReleaseCreated(r, reservation[r])}
      BY <2>1, <2>2, <2>4 DEF CommitRelease, programVars
    <3>3. Grows(KnownInvoices, KnownInvoices')
      BY <3>2 DEF Grows, KnownInvoices, RowsOK
    <3>4. reservation'[r].status = "RELEASED" /\ \A s \in ReservationIds \ {r} : reservation'[s] = reservation[s]
      BY <3>1, <3>2 DEF RowsOK, ReservationRow
    <3>5. reservation'[r] # NoReservation
      BY <3>4 DEF NoReservation
    <3>6. UNCHANGED TakenRows
      BY <3>1, <3>4, <3>5 DEF TakenRows, ReservationRow, NoReservation
    <3>7. UNCHANGED LivePrograms
      BY <3>2 DEF LivePrograms
    <3> QED
      BY <3>2, <3>3, <3>6, <3>7 DEF Requested, RowsGrow, Grows
  <2> QED
    BY <2>3, <2>4
<1> QED
  BY <1>1, <1>2, <1>3, <1>4, <1>5 DEF Handle

\* The rows of a request and of the answers that are lost.
LEMMA RequestRows ==
  ASSUME RowsOK, CountsOK, NEW q, NEW status, KnownRequest(q), Request(q, status)
  PROVE  Requested
<1>1. CASE UNCHANGED rows
  BY <1>1, SameRows DEF Requested, rows, tables, programVars
<1> QED
  BY <1>1, HandledRows, ReservationRows DEF Request

\* What was reached in a message is in the inbox.
HandledOK ==
  \A part \in Partitions :
    /\ topic[part] = <<>> => reached[part] = 0
    /\ \A k \in 1..reached[part] : ExternalEventId(EntryAt(part, 1, k)) \in inbox

\* An entry is handled: it changes rows only if it was never reached before.
LEMMA ConsumeRows ==
  ASSUME QueuesOK, RowsOK, CountsOK, HandledOK,
         NEW part \in Partitions, ConsumeEntry(part)
  PROVE  /\ UNCHANGED <<users, published, topic>>
         /\ topic[part] # <<>>
         /\ \A q \in Partitions \ {part} : reached'[q] = reached[q]
         /\ inbox \subseteq inbox'
         /\ \A k \in 1..reached'[part] : ExternalEventId(EntryAt(part, 1, k)) \in inbox'
         /\ \/ UNCHANGED tables
            \/ \E p \in Programs : Owed(p, part) /\ Reconciled(p)
<1> DEFINE done == inHand[part] + 1
           e == EntryAt(part, 1, done)
<1>1. /\ topic[part] # <<>> /\ inHand[part] < Len(Head(topic[part]).entries)
      /\ UNCHANGED <<users, published, topic>>
      /\ reached' = [reached EXCEPT ![part] = IF @ < done THEN done ELSE @]
  BY DEF ConsumeEntry
<1>2. Head(topic[part]) = topic[part][1] /\ 1 \in DOMAIN topic[part]
  BY <1>1, HeadTailProperties, EmptySeq DEF QueuesOK
<1>3. inHand[part] \in Nat /\ reached[part] \in Nat /\ inHand[part] <= reached[part]
  BY DEF QueuesOK, TreasuryOK
<1>4. done \in DOMAIN topic[part][1].entries /\ e \in EntryType
  BY <1>1, <1>2, <1>3, EntryTypes
<1>5. \/ ExternalEventId(e) \in inbox /\ UNCHANGED tables
      \/ /\ ExternalEventId(e) \notin inbox
         /\ \E status : CommitReconciliation(e, status)
  BY <1>1, <1>2 DEF ConsumeEntry, EntryAt
<1>6. inbox \subseteq inbox' /\ ExternalEventId(e) \in inbox'
  BY <1>5 DEF CommitReconciliation, tables
<1>7. \A q \in Partitions : reached'[q] = IF q = part /\ reached[q] < done THEN done ELSE reached[q]
  BY <1>1 DEF QueuesOK, TreasuryOK
<1>8. \A k \in 1..reached'[part] : ExternalEventId(EntryAt(part, 1, k)) \in inbox'
  <2> SUFFICES ASSUME NEW k \in 1..reached'[part], k # done
               PROVE  ExternalEventId(EntryAt(part, 1, k)) \in inbox'
    BY <1>6
  <2>1. k \in 1..reached[part]
    BY <1>3, <1>7
  <2> QED
    BY <1>6, <2>1 DEF HandledOK
<1>9. CASE ~ UNCHANGED tables
  <2>1. PICK status : CommitReconciliation(e, status)
    BY <1>5, <1>9
  <2>2. ~ done <= reached[part]
    <3>1. done \notin 1..reached[part]
      BY <1>5, <1>9 DEF HandledOK
    <3> QED
      BY <1>3, <3>1
  <2>3. e.program \in Programs /\ Owed(e.program, part)
    BY <1>2, <1>3, <1>4, <2>2 DEF Owed, EntryType
  <2> HIDE DEF e
  <2>4. /\ UNCHANGED <<programState, invoice, reservation, releases, users>>
        /\ reconciliations' = reconciliations \cup {ReconciliationRow(e, status)}
        /\ inbox' = inbox \cup {ExternalEventId(e)}
        /\ \/ UNCHANGED <<total, version, outbox>>
           \/ /\ total' = [total EXCEPT ![e.program] = e.total]
              /\ version' = [version EXCEPT ![e.program] = e.version]
              /\ outbox' = outbox \cup {ReconciliationApplied(e)}
    BY <1>1, <2>1 DEF CommitReconciliation
  <2>5. UNCHANGED <<LivePrograms, KnownInvoices, TakenRows>>
    BY <2>4 DEF LivePrograms, KnownInvoices, TakenRows
  <2>6. RowsGrow
    BY <2>4, <2>5 DEF RowsGrow, Grows
  <2>7. \A o \in outbox' \ outbox : o.topic = "reconciliations.events" /\ o.key = e.program
    BY <2>4 DEF ReconciliationApplied, OutboxRow
  <2>8. /\ DOMAIN total' = DOMAIN total
        /\ \A q \in Programs \ {e.program} : total'[q] = total[q] /\ version'[q] = version[q]
    BY <2>4 DEF CountsOK, QueuesOK
  <2>9. Reconciled(e.program)
    BY <2>4, <2>6, <2>7, <2>8 DEF Reconciled
  <2> QED
    BY <1>1, <1>6, <1>7, <1>8, <2>3, <2>9
<1> QED
  BY <1>1, <1>6, <1>7, <1>8, <1>9

Untouched == UNCHANGED <<tables, users>>

\* What a step may do to rows and messages.
LEMMA RowsMove ==
  ASSUME PlanOK, RowsOK, CountsOK, Next
  PROVE  \/ Untouched /\ UNCHANGED <<topic, reached>>
         \/ /\ InScenario /\ Step.op \in {"ask", "race"}
            /\ Requested /\ UNCHANGED <<topic, reached, published>>
         \/ \E part \in Partitions : ConsumeEntry(part)
         \/ Untouched /\ \E part \in Partitions : Passes(part)
         \/ Untouched /\ \E message : SendsOut(message)
<1> USE DEF Untouched
<1>1. CASE AskStep
  <2>1. PICK status : Request(Step.request, status)
    BY <1>1 DEF AskStep
  <2>2. KnownRequest(Step.request) /\ Step.op = "ask" /\ InScenario
    BY <1>1, StepKnown DEF AskStep, KnownNames, PlanOK, Doing, InScenario
  <2> QED
    BY <2>1, <2>2, RequestRows DEF Request, treasury
<1>2. CASE RaceStep
  <2>1. PICK n \in DOMAIN Step.requests :
          \E status \in Statuses \cup {NoAnswer} : Request(Step.requests[n], status)
    BY <1>2 DEF RaceStep
  <2>2. KnownRequest(Step.requests[n]) /\ Step.op = "race" /\ InScenario
    BY <1>2, StepKnown DEF RaceStep, KnownNames, PlanOK, Doing, InScenario
  <2> QED
    BY <2>1, <2>2, RequestRows DEF Request, treasury
<1>3. CASE AwaitStep \/ CheckStep \/ ReadStep \/ TrackStep \/ BaselineStep \/ RememberStep
  BY <1>3 DEF AwaitStep, CheckStep, ReadStep, TrackStep, BaselineStep, RememberStep,
     stackVars, rows, treasury
<1>4. CASE PrintenvStep \/ StepFails \/ ComposeStep \/ MigrateStep
  BY <1>4 DEF PrintenvStep, StepFails, ComposeStep, MigrateStep, Compose, MigrateUp, rows,
     treasury
<1>5. CASE PublishStep \/ FlushStep
  <2>1. Untouched
    BY <1>5 DEF PublishStep, FlushStep, Publish, rows
  <2>2. Rests \/ \E message : SendsOut(message)
    BY <1>5, PublishSends, FlushSends DEF PlanOK
  <2> QED
    BY <2>1, <2>2 DEF Rests
<1>6. CASE StartScenario \/ BlockMain \/ EndScenario \/ Finish \/ CommandHangs
  BY <1>6 DEF StartScenario, BlockMain, EndScenario, Finish, CommandHangs, stackVars, rows, treasury
<1>7. CASE Stack \/ Outside
  <2>1. ASSUME NEW part \in Partitions, CommitOffset(part) \/ DeadLetter(part)
        PROVE  Untouched /\ Passes(part)
    BY <2>1 DEF CommitOffset, DeadLetter, Pass, Passes, rows, tables, programVars
  <2>2. CASE PublishOutbox \/ AppReady \/ AppCrash
    BY <2>2 DEF PublishOutbox, AppReady, AppCrash, NewProcess, rows, treasury
  <2> QED
    BY <1>7, <2>1, <2>2 DEF Stack, Outside, StackWorks
<1> QED
  BY <1>1, <1>2, <1>3, <1>4, <1>5, <1>6, <1>7 DEF Next, Driver, ScenarioStep

\* Rows change by requests, and by entries that no handler has seen.
LEMMA TablesMove ==
  ASSUME PlanOK, RowsOK, CountsOK, HandledOK, Next
  PROVE  \/ Untouched
         \/ InScenario /\ Step.op \in {"ask", "race"} /\ Requested
         \/ \E p \in Programs : Undelivered(p) /\ Reconciled(p)
<1>1. ASSUME NEW part \in Partitions, ConsumeEntry(part)
      PROVE  Untouched \/ \E p \in Programs : Undelivered(p) /\ Reconciled(p)
  <2>1. UNCHANGED users
    BY <1>1, ConsumeRows DEF PlanOK
  <2>2. \A p : Owed(p, part) => Undelivered(p)
    BY DEF Owed, Undelivered, EntryAt
  <2> QED
    BY <1>1, <2>1, <2>2, ConsumeRows DEF PlanOK, Untouched
<1> QED
  BY <1>1, RowsMove

\* Rows are never taken away.
LEMMA CountsNext ==
  ASSUME PlanOK, RowsOK, CountsOK, HandledOK, Next
  PROVE  RowsGrow /\ CountsOK'
<1>1. RowsGrow
  BY TablesMove, SameRows DEF Untouched, Requested, Reconciled
<1>2. DOMAIN total' = DOMAIN total
  BY TablesMove DEF Untouched, Requested, Reconciled, tables, programVars
<1> QED
  BY <1>1, <1>2, GrowingCounts DEF CountsOK, RowsGrow

\* What was reached stays in the inbox until its message is passed by.
LEMMA HandledNext ==
  ASSUME PlanOK, RowsOK, CountsOK, HandledOK, Next
  PROVE  HandledOK'
<1> SUFFICES ASSUME NEW part \in Partitions
             PROVE  /\ topic'[part] = <<>> => reached'[part] = 0
                    /\ \A k \in 1..reached'[part] :
                         ExternalEventId(topic'[part][1].entries[k]) \in inbox'
  BY DEF HandledOK, EntryAt
<1>0. /\ topic[part] = <<>> => reached[part] = 0
      /\ \A k \in 1..reached[part] : ExternalEventId(topic[part][1].entries[k]) \in inbox
  BY DEF HandledOK, EntryAt
<1>1. inbox \subseteq inbox'
  BY CountsNext DEF RowsGrow, Grows
<1>2. CASE UNCHANGED <<topic, reached>>
  BY <1>0, <1>1, <1>2
<1>3. ASSUME NEW q \in Partitions, ConsumeEntry(q)
      PROVE  /\ topic'[part] = <<>> => reached'[part] = 0
             /\ \A k \in 1..reached'[part] :
                  ExternalEventId(topic'[part][1].entries[k]) \in inbox'
  <2>1. CASE q = part
    BY <1>3, <2>1, ConsumeRows DEF PlanOK, EntryAt
  <2>2. CASE q # part
    BY <1>0, <1>1, <1>3, <2>2, ConsumeRows DEF PlanOK
  <2> QED
    BY <2>1, <2>2
<1>4. ASSUME NEW q \in Partitions, Passes(q)
      PROVE  /\ topic'[part] = <<>> => reached'[part] = 0
             /\ \A k \in 1..reached'[part] :
                  ExternalEventId(topic'[part][1].entries[k]) \in inbox'
  <2>1. CASE q = part
    BY <1>4, <2>1, PassingShifts DEF PlanOK
  <2>2. CASE q # part
    BY <1>0, <1>1, <1>4, <2>2, PassingShifts DEF PlanOK
  <2> QED
    BY <2>1, <2>2
<1>5. ASSUME NEW message, SendsOut(message)
      PROVE  /\ topic'[part] = <<>> => reached'[part] = 0
             /\ \A k \in 1..reached'[part] :
                  ExternalEventId(topic'[part][1].entries[k]) \in inbox'
  <2>1. /\ topic' = [topic EXCEPT ![PartitionOf[Step.key]] = Append(@, message)]
        /\ UNCHANGED reached /\ message \in MessageType
    BY <1>5 DEF SendsOut, Accepts
  <2>2. CASE PartitionOf[Step.key] # part
    BY <1>0, <1>1, <2>1, <2>2 DEF PlanOK, QueuesOK
  <2>3. CASE PartitionOf[Step.key] = part /\ topic[part] = <<>>
    <3>1. reached'[part] = 0
      BY <1>0, <2>1, <2>3
    <3> QED
      BY <3>1
  <2>4. CASE PartitionOf[Step.key] = part /\ topic[part] # <<>>
    <3>1. topic[part] \in Seq(MessageType)
      BY DEF PlanOK, QueuesOK
    <3>2. topic'[part] = Append(topic[part], message)
      BY <2>1, <2>4 DEF PlanOK, QueuesOK
    <3>3. topic'[part][1] = topic[part][1] /\ topic'[part] # <<>>
      BY <2>1, <2>4, <3>1, <3>2, AppendProperties, EmptySeq
    <3> QED
      BY <1>0, <1>1, <2>1, <3>3
  <2> QED
    BY <2>2, <2>3, <2>4
<1> QED
  BY <1>2, <1>3, <1>4, <1>5, RowsMove

-----------------------------------------------------------------------------
(* The verdict *)

\* PASS is the end of a run in which all went well.
FinalOK == final = "PASS" => at = Len(Plan) + 1 /\ line = 0 /\ AllWell

\* The verdict counts every scenario.
LEMMA FinalNext ==
  ASSUME PlanOK, FinalOK, Next
  PROVE  FinalOK'
<1>0. at \in 1..(Len(Plan) + 1) /\ Len(Plan) \in Nat /\ DOMAIN Plan = 1..Len(Plan)
  BY PlanIsSequence DEF PlanOK, PlaceOK
<1>1. CASE Finish
  <2> SUFFICES ASSUME final' = "PASS"
               PROVE  at' = Len(Plan) + 1 /\ line' = 0 /\ AllWell'
    BY DEF FinalOK
  <2>1. at = Len(Plan) + 1 /\ Verdict = "PASS" /\ UNCHANGED <<at, line, failing, results>>
    BY <1>1 DEF Finish
  <2>2. at \notin DOMAIN Plan
    BY <1>0, <2>1
  <2>3. ~ line > 0 /\ line \in Nat
    BY <2>2 DEF PlanOK, PlaceOK
  <2>4. ~ failing
    BY <2>3 DEF PlanOK, FailsOK
  <2>5. \A n \in DOMAIN Plan :
          (Plan[n].mandatory => results[n] = "PASS") /\ results[n] # "FAIL"
    BY <2>1 DEF Verdict
  <2> QED
    BY <2>1, <2>3, <2>4, <2>5 DEF AllWell
<1>2. CASE CommandHangs
  BY <1>2 DEF CommandHangs, FinalOK
<1>3. CASE ~ Finish /\ ~ CommandHangs
  <2>1. final = "RUNNING" /\ final' = final
    <3>1. CASE ScenarioStep
      <4>1. final = "RUNNING"
        BY <3>1 DEF ScenarioStep, AskStep, RaceStep, AwaitStep, CheckStep, ReadStep,
           PrintenvStep, PublishStep, FlushStep, ComposeStep, MigrateStep, TrackStep,
           BaselineStep, RememberStep, StepFails, Doing
      <4> QED
        BY <3>1, <4>1, StepMoves DEF PlanOK
    <3>2. CASE StartScenario \/ BlockMain \/ EndScenario \/ Stack \/ Outside
      BY <3>2 DEF StartScenario, BlockMain, EndScenario, Stack, Outside, place
    <3> QED
      BY <1>3, <3>1, <3>2 DEF Next, Driver
  <2> QED
    BY <2>1 DEF FinalOK
<1> QED
  BY <1>1, <1>2, <1>3

-----------------------------------------------------------------------------
(* The baseline *)

\* What the run creates it creates at a step that it has come to.
BornOK ==
  \A p \in Programs \ Leftover : programState[p] = "LIVE" =>
    \E m \in DOMAIN Plan : \E j \in DOMAIN StepsOf(m) :
      StepAt(m, j).op \in {"ask", "race"} /\ ~ Before(at, line, m, j)

\* The driver only goes on.
LEMMA PlaceGrows ==
  ASSUME PlanOK, Next, NEW m \in DOMAIN Plan, NEW j \in DOMAIN StepsOf(m),
         ~ Before(at, line, m, j)
  PROVE  ~ Before(at', line', m, j)
<1>0. m \in Nat /\ j \in Nat \ {0} /\ at \in Nat /\ line \in Nat
  BY PlanIsSequence, BodyIsWellFormed DEF PlanOK, PlaceOK, StepsOf
<1>1. CASE ScenarioStep
  <2>1. at' = at /\ line' \in Int /\ line' >= line
    BY <1>0, <1>1, StepMoves, PlaceNext DEF place, PlaceOK, PlanOK
  <2> QED
    BY <1>0, <2>1 DEF Before
<1>2. CASE StartScenario \/ BlockMain \/ EndScenario \/ Finish \/ CommandHangs \/ Stack \/ Outside
  <2>1. OutOfStep
    BY <1>2, OtherMoves DEF PlanOK
  <2> QED
    BY <1>0, <2>1 DEF OutOfStep, Before
<1> QED
  BY <1>1, <1>2 DEF Next, Driver

\* A program is born by a request.
LEMMA BornNext ==
  ASSUME PlanOK, RowsOK, CountsOK, HandledOK, BornOK, Next
  PROVE  BornOK'
<1> SUFFICES ASSUME NEW p \in Programs \ Leftover, programState'[p] = "LIVE"
             PROVE  \E m \in DOMAIN Plan : \E j \in DOMAIN StepsOf(m) :
                      StepAt(m, j).op \in {"ask", "race"} /\ ~ Before(at', line', m, j)
  BY DEF BornOK
<1>1. CASE programState[p] = "LIVE"
  <2>1. PICK m \in DOMAIN Plan : \E j \in DOMAIN StepsOf(m) :
          StepAt(m, j).op \in {"ask", "race"} /\ ~ Before(at, line, m, j)
    BY <1>1 DEF BornOK
  <2>2. PICK j \in DOMAIN StepsOf(m) :
          StepAt(m, j).op \in {"ask", "race"} /\ ~ Before(at, line, m, j)
    BY <2>1
  <2> QED
    BY <2>2, PlaceGrows
<1>2. CASE programState[p] # "LIVE"
  <2>1. InScenario /\ Step.op \in {"ask", "race"}
    BY <1>2, TablesMove DEF Untouched, Reconciled, tables, programVars
  <2>2. /\ at \in DOMAIN Plan /\ line \in DOMAIN StepsOf(at) /\ Step = StepAt(at, line)
        /\ at \in Nat /\ line \in Nat
    BY <2>1, StepInPlan DEF PlanOK
  <2>3. PICK m \in DOMAIN Plan : m = at
    BY <2>2
  <2>4. PICK j \in DOMAIN StepsOf(m) : j = line
    BY <2>2, <2>3
  <2>5. ~ Before(at', line', m, j)
    BY <2>2, <2>3, <2>4, PlaceGrows DEF Before
  <2> QED
    BY <2>1, <2>2, <2>3, <2>4, <2>5
<1> QED
  BY <1>1, <1>2

\* When the baseline is taken there are programs of earlier runs only.
LEMMA BaselineIsOld ==
  ASSUME PlanOK, BornOK, BaselineStep
  PROVE  LivePrograms \subseteq Leftover
<1>1. InScenario /\ Step.op = "baseline"
  BY DEF BaselineStep, Doing, InScenario
<1>2. at \in DOMAIN Plan /\ line \in DOMAIN StepsOf(at) /\ Step = StepAt(at, line)
  BY <1>1, StepInPlan DEF PlanOK
<1>3. \A m \in DOMAIN Plan : \A j \in DOMAIN StepsOf(m) :
        StepAt(m, j).op \in {"ask", "race"} => Before(at, line, m, j)
  BY <1>1, <1>2, EndAssumption
<1> QED
  BY <1>3 DEF BornOK, LivePrograms

\* Rows are never fewer than at the baseline, and the programs of earlier runs
\* are as they were, unless a message of theirs was under way.
BaselineRows ==
  \A k \in DOMAIN baseline.rows :
    k \in 1..8 /\ baseline.rows[k] \in Nat /\ RowCounts[k] >= baseline.rows[k]
BaselinePrograms ==
  \A p \in DOMAIN baseline.programs :
    /\ p \in Leftover /\ programState[p] = "LIVE"
    /\ baseline.backlog
         \/ (~ Undelivered(p) /\ ProgramRow(p) = baseline.programs[p])
BaselineOK == BaselineRows /\ BaselinePrograms

\* The counts of rows that can be counted do not go down.
LEMMA CountsGrow ==
  ASSUME CountsOK, RowsGrow
  PROVE  \A k \in 1..8 : RowCounts[k] \in Nat /\ RowCounts'[k] \in Nat
                         /\ RowCounts'[k] >= RowCounts[k]
<1> DEFINE Up(A, B) == /\ Cardinality(A) \in Nat /\ Cardinality(B) \in Nat
                       /\ Cardinality(B) >= Cardinality(A)
<1>1. /\ Up(users, users') /\ Up(LivePrograms, LivePrograms')
      /\ Up(KnownInvoices, KnownInvoices') /\ Up(TakenRows, TakenRows')
      /\ Up(releases, releases') /\ Up(reconciliations, reconciliations')
      /\ Up(inbox, inbox') /\ Up(outbox, outbox')
  BY GrowingCounts DEF CountsOK, RowsGrow
<1>2. RowCounts = <<Cardinality(users), Cardinality(LivePrograms),
                    Cardinality(KnownInvoices), Cardinality(TakenRows),
                    Cardinality(releases), Cardinality(reconciliations),
                    Cardinality(inbox), Cardinality(outbox)>>
  BY DEF RowCounts, LivePrograms, KnownInvoices, TakenRows
<1>3. RowCounts' = <<Cardinality(users'), Cardinality(LivePrograms'),
                     Cardinality(KnownInvoices'), Cardinality(TakenRows'),
                     Cardinality(releases'), Cardinality(reconciliations'),
                     Cardinality(inbox'), Cardinality(outbox')>>
  BY DEF RowCounts, LivePrograms, KnownInvoices, TakenRows
<1> QED
  BY <1>1, <1>2, <1>3

\* The driver takes the baseline in one step, and tracks programs in another.
LEMMA MemoryMoves ==
  ASSUME Next
  PROVE  /\ BaselineStep \/ UNCHANGED baseline
         /\ TrackStep \/ UNCHANGED tracked
BY DEF Next, Driver, ScenarioStep, AskStep, RaceStep, AwaitStep, CheckStep, ReadStep,
   PrintenvStep, PublishStep, FlushStep, ComposeStep, MigrateStep, BaselineStep, TrackStep,
   RememberStep, StepFails, StartScenario, BlockMain, EndScenario, Finish, CommandHangs, Stack,
   Outside, memory

\* Nobody sends on a program of an earlier run.
LEMMA LeftoverUnsent ==
  ASSUME PlanOK, Next, NEW p \in Leftover, NEW part \in Partitions, Owed(p, part)'
  PROVE  Owed(p, part)
<1>1. InScenario => ~ Sends(Step, p)
  BY StepInPlan DEF Disciplined, PlanOK
<1> QED
  BY <1>1, OwedMoves

\* What was delivered to it stays so.
LEMMA LeftoverDelivered ==
  ASSUME PlanOK, Next, NEW p \in Leftover, ~ Undelivered(p)
  PROVE  ~ Undelivered(p)'
<1> SUFFICES ASSUME Undelivered(p)' PROVE FALSE
  OBVIOUS
<1>1. PICK part \in Partitions : Owed(p, part)'
  BY DEF Undelivered, Owed, EntryAt
<1>2. Owed(p, part)
  BY <1>1, LeftoverUnsent
<1> QED
  BY <1>2 DEF Undelivered, Owed, EntryAt

\* A program without messages under way keeps its capacity and its version.
LEMMA DeliveredStays ==
  ASSUME PlanOK, RowsOK, CountsOK, HandledOK, Next, NEW p \in Programs, ~ Undelivered(p),
         programState[p] = "LIVE"
  PROVE  total'[p] = total[p] /\ version'[p] = version[p] /\ programState'[p] = "LIVE"
<1>1. CASE Untouched
  BY <1>1 DEF Untouched, tables, programVars
<1>2. CASE Requested
  <2>1. p \in LivePrograms
    BY DEF LivePrograms
  <2> QED
    BY <1>2, <2>1 DEF Requested, RowsGrow, Grows, LivePrograms
<1>3. ASSUME NEW q \in Programs, Undelivered(q), Reconciled(q)
      PROVE  total'[p] = total[p] /\ version'[p] = version[p] /\ programState'[p] = "LIVE"
  BY <1>3 DEF Reconciled
<1> QED
  BY <1>1, <1>2, <1>3, TablesMove

\* Every step keeps what the baseline promises.
LEMMA BaselineNext ==
  ASSUME PlanOK, RowsOK, CountsOK, HandledOK, BornOK, BaselineOK, Next
  PROVE  BaselineOK'
<1>1. \A k \in 1..8 : RowCounts[k] \in Nat /\ RowCounts'[k] \in Nat
                      /\ RowCounts'[k] >= RowCounts[k]
  BY CountsNext, CountsGrow
<1>2. CASE BaselineStep
  <2>1. PICK kept \in SUBSET LivePrograms :
          /\ baseline' = [rows |-> RowCounts, programs |-> [p \in kept |-> ProgramRow(p)],
                          backlog |-> \E p \in kept : Undelivered(p)]
          /\ UNCHANGED <<tables, topic, reached>>
    BY <1>2 DEF BaselineStep, Oldest, LivePrograms, stackVars, rows, treasury
  <2>2. LivePrograms \subseteq Leftover
    BY <1>2, BaselineIsOld
  <2>3. BaselineRows'
    <3>1. DOMAIN RowCounts = 1..8
      BY DEF RowCounts
    <3>2. baseline'.rows = RowCounts
      BY <2>1
    <3> QED
      BY <1>1, <3>1, <3>2 DEF BaselineRows
  <2>4. BaselinePrograms'
    <3> SUFFICES ASSUME NEW p \in DOMAIN baseline'.programs
                 PROVE  /\ p \in Leftover /\ programState'[p] = "LIVE"
                        /\ baseline'.backlog
                             \/ (~ Undelivered(p)' /\ ProgramRow(p)' = baseline'.programs[p])
      BY DEF BaselinePrograms
    <3>1. /\ p \in kept /\ p \in LivePrograms
          /\ baseline'.programs[p] = ProgramRow(p)
      BY <2>1
    <3>2. Undelivered(p)' <=> Undelivered(p)
      BY <2>1 DEF Undelivered
    <3>3. ProgramRow(p)' = ProgramRow(p) /\ programState'[p] = programState[p]
      BY <2>1 DEF ProgramRow, tables, programVars
    <3>4. baseline'.backlog = \E q \in kept : Undelivered(q)
      BY <2>1
    <3> QED
      BY <2>2, <3>1, <3>2, <3>3, <3>4 DEF LivePrograms
  <2> QED
    BY <2>3, <2>4 DEF BaselineOK
<1>3. CASE UNCHANGED baseline
  <2>1. BaselineRows'
    BY <1>1, <1>3 DEF BaselineOK, BaselineRows
  <2>2. BaselinePrograms'
    <3> SUFFICES ASSUME NEW p \in DOMAIN baseline.programs
                 PROVE  /\ p \in Leftover /\ programState'[p] = "LIVE"
                        /\ baseline.backlog
                             \/ (~ Undelivered(p)' /\ ProgramRow(p)' = baseline.programs[p])
      BY <1>3 DEF BaselinePrograms
    <3>1. /\ p \in Leftover /\ programState[p] = "LIVE"
          /\ baseline.backlog
               \/ (~ Undelivered(p) /\ ProgramRow(p) = baseline.programs[p])
      BY DEF BaselineOK, BaselinePrograms
    <3>2. p \in Programs
      BY <3>1, ValidationAssumption
    <3>3. programState'[p] = "LIVE"
      <4>1. p \in LivePrograms'
        BY <3>1, <3>2, CountsNext DEF RowsGrow, Grows, LivePrograms
      <4> QED
        BY <4>1 DEF LivePrograms
    <3>4. CASE ~ Undelivered(p) /\ ProgramRow(p) = baseline.programs[p]
      BY <3>1, <3>2, <3>3, <3>4, LeftoverDelivered, DeliveredStays DEF ProgramRow
    <3> QED
      BY <3>1, <3>3, <3>4
  <2> QED
    BY <2>1, <2>2 DEF BaselineOK
<1> QED
  BY <1>2, <1>3, MemoryMoves

-----------------------------------------------------------------------------
(* Messages of earlier runs *)

\* They are in their program's partition, and handled once a marker was seen there.
LeftoverOK ==
  \A p \in Leftover :
    /\ \A part \in Partitions : Owed(p, part) => part = PartitionOf[p]
    /\ \A n \in DOMAIN Plan : \A k \in DOMAIN StepsOf(n) :
         Drains(n, k, PartitionOf[p]) /\ Came(n, k) => ~ Undelivered(p)

\* No such message is sent any more.
LEMMA LeftoverNext ==
  ASSUME PlanOK, MarkerOK, LeftoverOK, Next
  PROVE  LeftoverOK'
<1>1. ASSUME NEW p \in Leftover, NEW part \in Partitions, Owed(p, part)'
      PROVE  part = PartitionOf[p]
  BY <1>1, LeftoverUnsent DEF LeftoverOK
<1>2. ASSUME NEW p \in Leftover, NEW n \in DOMAIN Plan, NEW k \in DOMAIN StepsOf(n),
             Drains(n, k, PartitionOf[p]), Came(n, k)'
      PROVE  ~ Undelivered(p)'
  <2>1. CASE Came(n, k)
    BY <1>2, <2>1, LeftoverDelivered DEF LeftoverOK
  <2>2. CASE Completes /\ n = at /\ k = line
    <3>1. Marked(n, k) /\ MarkerPartition(n, k) = PartitionOf[p]
      BY <1>2 DEF Drains, MarkerPartition
    <3>2. Delivered(PartitionOf[p])
      BY <2>2, <3>1, MarkerSeen
    <3>3. ~ Undelivered(p)
      BY <3>2, UndeliveredIsOwed DEF LeftoverOK, Delivered, PlanOK
    <3> QED
      BY <3>3, LeftoverDelivered
  <2> QED
    BY <1>2, <2>1, <2>2, CameMoves
<1> QED
  BY <1>1, <1>2 DEF LeftoverOK

-----------------------------------------------------------------------------
(* The outbox *)

\* Programs of earlier runs whose partition no scenario before the last look at
\* the outbox waits for.
Unseen ==
  {p \in Leftover :
     ~ \E m \in DOMAIN Plan : \E j \in DOMAIN StepsOf(m) :
         /\ Plan[m].mandatory /\ Drains(m, j, PartitionOf[p])
         /\ \A n \in DOMAIN Plan : \A k \in DOMAIN StepsOf(n) : FindsDrained(n, k) => m < n}

\* Behind that look, only a message of theirs makes a row that is not published.
OutboxOK ==
  \A n \in DOMAIN Plan : \A k \in DOMAIN StepsOf(n) :
    FindsDrained(n, k) /\ Came(n, k) =>
      \A o \in outbox \ published : o.topic = "reconciliations.events" /\ o.key \in Unseen

\* The publisher marks all the rows it finds.
LEMMA PublishedMoves ==
  ASSUME Next
  PROVE  UNCHANGED published \/ (published' = outbox /\ UNCHANGED outbox)
<1>1. CASE AskStep \/ RaceStep
  BY <1>1 DEF AskStep, RaceStep, Request
<1>2. CASE AwaitStep \/ CheckStep \/ ReadStep \/ TrackStep \/ BaselineStep \/ RememberStep
  BY <1>2 DEF AwaitStep, CheckStep, ReadStep, TrackStep, BaselineStep, RememberStep,
     stackVars
<1>3. CASE PrintenvStep \/ StepFails
  BY <1>3 DEF PrintenvStep, StepFails
<1>4. CASE PublishStep \/ FlushStep \/ ComposeStep \/ MigrateStep
  <2>1. CASE PublishStep \/ FlushStep
    BY <2>1 DEF PublishStep, FlushStep, Publish
  <2>2. CASE ComposeStep
    BY <2>2 DEF ComposeStep, Compose
  <2>3. CASE MigrateStep
    BY <2>3 DEF MigrateStep, MigrateUp
  <2> QED
    BY <1>4, <2>1, <2>2, <2>3
<1>5. CASE StartScenario \/ BlockMain \/ EndScenario \/ Finish \/ CommandHangs
  BY <1>5 DEF StartScenario, BlockMain, EndScenario, Finish, CommandHangs, stackVars
<1>6. CASE Stack \/ Outside
  <2>1. CASE PublishOutbox
    BY <2>1 DEF PublishOutbox, rows, tables
  <2>2. ASSUME NEW part \in Partitions,
               ConsumeEntry(part) \/ CommitOffset(part) \/ DeadLetter(part)
        PROVE  UNCHANGED published
    BY <2>2 DEF ConsumeEntry, CommitOffset, DeadLetter, Pass
  <2>3. CASE AppReady \/ AppCrash
    BY <2>3 DEF AppReady, AppCrash
  <2> QED
    BY <1>6, <2>1, <2>2, <2>3 DEF Stack, Outside, StackWorks
<1> QED
  BY <1>1, <1>2, <1>3, <1>4, <1>5, <1>6 DEF Next, Driver, ScenarioStep

\* A message of this run that scenarios behind the driver have sent is handled.
LEMMA OwnDelivered ==
  ASSUME PlanOK, OwedOK, AllWell, NEW p \in Programs \ Leftover,
         \A m \in DOMAIN Plan : \A j \in DOMAIN StepsOf(m) :
           Sends(StepAt(m, j), p) /\ Past(m, j) => m < at
  PROVE  ~ Undelivered(p)
<1> SUFFICES ASSUME Undelivered(p) PROVE FALSE
  OBVIOUS
<1>1. PICK part \in Partitions : Owed(p, part)
  BY UndeliveredIsOwed DEF PlanOK
<1>2. PICK m \in DOMAIN Plan : \E j \in DOMAIN StepsOf(m) :
        /\ Past(m, j) /\ Played(m)
        /\ Sends(StepAt(m, j), p) /\ PartitionOf[StepAt(m, j).key] = part
        /\ WentWell(m) =>
             \A i \in DOMAIN StepsOf(m) : i > j /\ Past(m, i) => ~ Drains(m, i, part)
  BY <1>1 DEF OwedOK, Unwaited
<1>3. PICK j \in DOMAIN StepsOf(m) :
        /\ Past(m, j) /\ Played(m)
        /\ Sends(StepAt(m, j), p) /\ PartitionOf[StepAt(m, j).key] = part
        /\ WentWell(m) =>
             \A i \in DOMAIN StepsOf(m) : i > j /\ Past(m, i) => ~ Drains(m, i, part)
  BY <1>2
<1>4. /\ m < at /\ m \in Nat /\ at \in Nat
      /\ Len(StepsOf(m)) \in Nat /\ DOMAIN StepsOf(m) = 1..Len(StepsOf(m))
  BY <1>3, PlanIsSequence, BodyIsWellFormed DEF StepsOf, PlanOK, PlaceOK
<1>5. WentWell(m)
  BY <1>3, <1>4 DEF AllWell, Played, WentWell
<1>6. PICK i \in (j+1)..((Len(StepsOf(m)) + 1) - 1) : Drains(m, i, part)
  <2>1. Settled(m, Len(StepsOf(m)) + 1, p)
    BY EndAssumption
  <2>2. j \in 1..((Len(StepsOf(m)) + 1) - 1)
    BY <1>4
  <2> QED
    BY <1>3, <2>1, <2>2 DEF Settled
<1>7. i \in DOMAIN StepsOf(m) /\ i > j
  BY <1>4, <1>6
<1> QED
  BY <1>3, <1>4, <1>5, <1>6, <1>7 DEF Past, Before

\* So is a message of an earlier run that a mandatory scenario waited behind.
LEMMA SeenDelivered ==
  ASSUME PlanOK, LeftoverOK, AllWell, NEW p \in Leftover, p \notin Unseen,
         \E n \in DOMAIN Plan : n <= at /\ \E k \in DOMAIN StepsOf(n) : FindsDrained(n, k)
  PROVE  ~ Undelivered(p)
<1>1. PICK m \in DOMAIN Plan : \E j \in DOMAIN StepsOf(m) :
        /\ Plan[m].mandatory /\ Drains(m, j, PartitionOf[p])
        /\ \A n \in DOMAIN Plan : \A k \in DOMAIN StepsOf(n) : FindsDrained(n, k) => m < n
  BY DEF Unseen
<1>2. PICK j \in DOMAIN StepsOf(m) :
        /\ Plan[m].mandatory /\ Drains(m, j, PartitionOf[p])
        /\ \A n \in DOMAIN Plan : \A k \in DOMAIN StepsOf(n) : FindsDrained(n, k) => m < n
  BY <1>1
<1>3. m < at
  <2>1. PICK n \in DOMAIN Plan : n <= at /\ m < n
    BY <1>2
  <2> QED
    BY <2>1, PlanIsSequence DEF PlanOK, PlaceOK
<1>4. Came(m, j)
  BY <1>2, <1>3 DEF Came, AllWell, Past, Before
<1> QED
  BY <1>2, <1>4 DEF LeftoverOK

\* Nothing that the run sent is handled only behind the look.
LEMMA OutboxNext ==
  ASSUME PlanOK, RowsOK, CountsOK, HandledOK, OwedOK, LeftoverOK, OutboxOK, Next,
         published \subseteq outbox
  PROVE  OutboxOK'
<1> SUFFICES ASSUME NEW n \in DOMAIN Plan, NEW k \in DOMAIN StepsOf(n),
                    FindsDrained(n, k), Came(n, k)', NEW o \in outbox' \ published'
             PROVE  o.topic = "reconciliations.events" /\ o.key \in Unseen
  BY DEF OutboxOK, Unseen
<1>0. n \in Nat /\ at \in Nat /\ line \in Nat
  BY PlanIsSequence DEF PlanOK, PlaceOK
<1>1. CASE Came(n, k)
  <2>1. CASE o \in outbox
    BY <1>1, <2>1, PublishedMoves DEF OutboxOK
  <2>2. CASE o \notin outbox
    <3>1. AllWell /\ n <= at
      BY <1>0, <1>1 DEF Came, Past, Before
    <3>2. ~ Untouched
      BY <2>2 DEF Untouched, tables
    <3>3. ~ (InScenario /\ Step.op \in {"ask", "race"})
      <4>1. SUFFICES ASSUME InScenario, Step.op \in {"ask", "race"} PROVE FALSE
        OBVIOUS
      <4>2. at \in DOMAIN Plan /\ line \in DOMAIN StepsOf(at) /\ Step = StepAt(at, line)
        BY <4>1, StepInPlan DEF PlanOK
      <4>3. at < n
        BY <4>1, <4>2 DEF FindsDrained
      <4> QED
        BY <1>0, <3>1, <4>3
    <3>4. PICK q \in Programs : Undelivered(q) /\ Reconciled(q)
      BY <3>2, <3>3, TablesMove
    <3>5. o.topic = "reconciliations.events" /\ o.key = q
      BY <2>2, <3>4 DEF Reconciled
    <3>6. q \in Leftover
      <4>1. SUFFICES ASSUME q \notin Leftover PROVE FALSE
        OBVIOUS
      <4>2. ASSUME NEW m \in DOMAIN Plan, NEW j \in DOMAIN StepsOf(m), Sends(StepAt(m, j), q)
            PROVE  m < at
        <5>1. StepAt(m, j).op \in {"publish", "flush"}
          BY <4>2 DEF Sends
        <5>2. m < n
          BY <5>1 DEF FindsDrained
        <5> QED
          BY <1>0, <3>1, <5>2, PlanIsSequence
      <4> QED
        BY <3>1, <3>4, <4>1, <4>2, OwnDelivered
    <3>7. q \in Unseen
      BY <3>1, <3>4, <3>6, SeenDelivered
    <3> QED
      BY <3>5, <3>7
  <2> QED
    BY <2>1, <2>2
<1>2. CASE Completes /\ n = at /\ k = line
  <2>1. Step = StepAt(n, k)
    BY <1>2, StepInPlan, StepMoves DEF Completes, PlanOK
  <2>2. Holds(Step.fact) /\ UNCHANGED stackVars /\ Step.fact.is = "outbox-drained"
    BY <1>2, <2>1, LookHolds DEF FindsDrained, Finds, PlanOK
  <2>3. outbox = published /\ outbox' = outbox /\ published' = published
    BY <2>2, FactHolds DEF stackVars, rows, tables
  <2> QED
    BY <2>3
<1> QED
  BY <1>1, <1>2, CameMoves

-----------------------------------------------------------------------------
(* The tracked programs *)

\* Behind the last look at them they stay as they were found.
TrackedKept ==
  /\ \A t \in tracked : t.program \in Programs
  /\ \A n \in DOMAIN Plan : \A k \in DOMAIN StepsOf(n) :
       LooksAtTracked(n, k) /\ Came(n, k) => tracked # {} /\ TrackedHold

\* Nothing is asked for behind that look, and no message on them is under way.
LEMMA TrackedKeptNext ==
  ASSUME PlanOK, RowsOK, CountsOK, HandledOK, TrackedOK, TrackedKept, Next
  PROVE  TrackedKept'
<1>1. ASSUME NEW t \in tracked'
      PROVE  t.program \in Programs
  <2>1. CASE UNCHANGED tracked
    BY <1>1, <2>1 DEF TrackedKept
  <2>2. CASE TrackStep
    <3>1. InScenario /\ Step.op = "track"
      BY <2>2 DEF TrackStep, Doing, InScenario
    <3>2. Step.program \in Programs
      BY <3>1, StepInPlan DEF Disciplined, KnownTreasury, PlanOK
    <3>3. tracked' = tracked \cup
            {[program |-> Step.program, total |-> Step.total,
              version |-> seen[Step.program] + Step.ahead]}
      BY <2>2 DEF TrackStep
    <3> QED
      BY <1>1, <3>2, <3>3 DEF TrackedKept
  <2> QED
    BY <2>1, <2>2, MemoryMoves
<1>2. ASSUME NEW n \in DOMAIN Plan, NEW k \in DOMAIN StepsOf(n),
             LooksAtTracked(n, k), Came(n, k)'
      PROVE  tracked' # {} /\ TrackedHold'
  <2>1. CASE Came(n, k)
    <3>1. InScenario => Step.op \notin {"ask", "race", "track"}
      BY <1>2, <2>1, StepIsBehind DEF Came, LooksAtTracked
    <3>2. tracked' = tracked
      <4>1. TrackStep => InScenario /\ Step.op = "track"
        BY DEF TrackStep, Doing, InScenario
      <4> QED
        BY <3>1, <4>1, MemoryMoves
    <3>3. tracked # {} /\ TrackedHold
      BY <1>2, <2>1 DEF TrackedKept
    <3>4. ASSUME NEW t \in tracked
          PROVE  Seen(t.program)' = Seen(t.program)
      <4> DEFINE p == t.program
      <4>1. p \in Programs /\ ~ Undelivered(p)
        BY <3>4 DEF TrackedKept, TrackedOK
      <4>2. \/ UNCHANGED <<total, version, reservation>>
            \/ \E q \in Programs : Undelivered(q) /\ Reconciled(q)
        BY <3>1, TablesMove DEF Untouched, tables, programVars
      <4>3. total'[p] = total[p] /\ version'[p] = version[p] /\ reservation' = reservation
        BY <4>1, <4>2 DEF Reconciled
      <4> QED
        BY <4>3 DEF Seen, Reserved, ActiveUsd
    <3> QED
      BY <3>2, <3>3, <3>4 DEF TrackedHold
  <2>2. CASE Completes /\ n = at /\ k = line
    <3>1. Step = StepAt(n, k)
      BY <2>2, StepInPlan, StepMoves DEF Completes, PlanOK
    <3>2. Holds(Step.fact) /\ UNCHANGED <<stackVars, memory>> /\ Step.fact.is = "tracked"
      BY <1>2, <2>2, <3>1, LookHolds DEF LooksAtTracked, Finds, PlanOK
    <3>3. tracked # {} /\ TrackedHold
      BY <3>2, FactHolds
    <3>4. UNCHANGED <<tracked, total, version, reservation>>
      BY <3>2 DEF stackVars, rows, tables, programVars, memory
    <3> QED
      BY <3>3, <3>4 DEF TrackedHold, Seen, Reserved, ActiveUsd
  <2> QED
    BY <1>2, <2>1, <2>2, CameMoves
<1> QED
  BY <1>1, <1>2 DEF TrackedKept

-----------------------------------------------------------------------------
(* The inductive invariant of a run that goes well *)

PassInv ==
  /\ DeliveryInv
  /\ DisturbancesOK /\ CountsOK /\ HandledOK
  /\ FinalOK /\ BrokerOK /\ FxOK
  /\ BornOK /\ BaselineOK
  /\ LeftoverOK /\ OutboxOK /\ TrackedKept

\* An earlier run has left programs, and at most one message in each partition.
LEMMA PassInit == Init => PassInv
<1> SUFFICES ASSUME Init PROVE PassInv
  OBVIOUS
<1>1. DeliveryInv
  BY DeliveryInit
<1>2. PICK late \in SUBSET Leftover :
        /\ disturbances = Cardinality(late)
        /\ disturbances <= MaxDisturbances
        /\ topic = [part \in Partitions |->
             IF \E p \in late : PartitionOf[p] = part
               THEN <<[entries |-> <<[batch |-> "aborted", version |-> 1, total |-> 1200,
                       program |-> CHOOSE p \in late : PartitionOf[p] = part]>>]>>
               ELSE <<>>]
  BY DEF Init
<1>3. DisturbancesOK
  <2>1. IsFiniteSet(late)
    BY ValidationAssumption, FS_Subset
  <2> QED
    BY <1>2, <2>1, FS_CardinalityType DEF DisturbancesOK
<1>4. CountsOK
  <2>1. users = {} /\ KnownInvoices = {} /\ TakenRows = {} /\ LivePrograms = Leftover
    BY ValidationAssumption DEF Init, KnownInvoices, TakenRows, LivePrograms
  <2>2. /\ releases = {} /\ reconciliations = {} /\ inbox = {} /\ outbox = {}
        /\ DOMAIN total = Programs
    BY DEF Init
  <2> QED
    BY <2>1, <2>2, FS_EmptySet, ValidationAssumption DEF CountsOK
<1>5. HandledOK
  BY DEF Init, HandledOK
<1>6. \A n \in DOMAIN Plan : \A k \in DOMAIN StepsOf(n) : ~ Past(n, k)
  <2>1. at = 1 /\ line = 0
    BY DEF Init
  <2> QED
    BY <2>1, PlanIsSequence, BodyIsWellFormed DEF Past, Before, StepsOf
<1>7. FinalOK /\ BrokerOK
  BY <1>6 DEF Init, FinalOK, BrokerOK, Came
<1>8. FxOK
  <2> SUFFICES ASSUME NEW n \in DOMAIN Plan, NEW k \in DOMAIN StepsOf(n)
               PROVE  /\ ~ Came(n, k)
                      /\ \A l \in DOMAIN StepsOf(n) : TakesBack(n, k, l) =>
                           ~ Came(n, k + 1) /\ ~ Came(n, l)
    BY DEF FxOK
  <2>1. ASSUME NEW l \in DOMAIN StepsOf(n), TakesBack(n, k, l)
        PROVE  k + 1 \in DOMAIN StepsOf(n)
    <3>1. DOMAIN StepsOf(n) = 1..Len(StepsOf(n)) /\ Len(StepsOf(n)) \in Nat
      BY BodyIsWellFormed DEF StepsOf
    <3> QED
      BY <2>1, <3>1 DEF TakesBack
  <2> QED
    BY <1>6, <2>1 DEF Came
<1>9. BornOK
  BY DEF Init, BornOK
<1>10. BaselineOK
  BY DEF Init, BaselineOK, BaselineRows, BaselinePrograms
<1>11. LeftoverOK
  <2>1. ASSUME NEW p \in Leftover, NEW part \in Partitions, Owed(p, part)
        PROVE  part = PartitionOf[p]
    <3>1. PICK n \in DOMAIN topic[part] : \E k \in DOMAIN topic[part][n].entries :
            topic[part][n].entries[k].program = p
      BY <2>1 DEF Owed, EntryAt
    <3>2. \E q \in late : PartitionOf[q] = part
      BY <1>2, <3>1
    <3> DEFINE q == CHOOSE r \in late : PartitionOf[r] = part
    <3>3. PartitionOf[q] = part
      BY <3>2
    <3>4. topic[part] = <<[entries |-> <<[batch |-> "aborted", version |-> 1,
                            total |-> 1200, program |-> q]>>]>>
      BY <1>2, <3>2
    <3> HIDE DEF q
    <3>5. p = q
      BY <3>1, <3>4
    <3> QED
      BY <3>3, <3>5
  <2> QED
    BY <1>6, <2>1 DEF LeftoverOK, Came
<1>12. OutboxOK /\ TrackedKept
  BY <1>6 DEF Init, OutboxOK, TrackedKept, Came
<1> QED
  BY <1>1, <1>3, <1>4, <1>5, <1>7, <1>8, <1>9, <1>10, <1>11, <1>12 DEF PassInv

\* A stuttering step changes nothing of it.
LEMMA PassStutters ==
  ASSUME PassInv, UNCHANGED vars
  PROVE  PassInv'
<1> USE DEF PassInv
<1>1. /\ UNCHANGED <<tables, users, published, topic, reached, disturbances>>
      /\ UNCHANGED <<kafka, app, fx, at, line, failing, results, final, tracked, baseline>>
  BY DEF vars, stackVars, rows, containers, treasury, place, memory
<1>2. /\ UNCHANGED <<programState, total, version, invoice, reservation>>
      /\ UNCHANGED <<releases, reconciliations, inbox, outbox>>
  BY <1>1 DEF tables, programVars
<1>3. DeliveryInv'
  BY DeliveryNext
<1>4. /\ AllWell' <=> AllWell
      /\ \A n, k : Past(n, k)' <=> Past(n, k)
      /\ \A n, k : Came(n, k)' <=> Came(n, k)
      /\ Overridden' <=> Overridden
  BY <1>1 DEF AllWell, Past, Came, Overridden, Played
<1>5. DisturbancesOK' /\ FinalOK' /\ BrokerOK' /\ FxOK'
  BY <1>1, <1>4 DEF DisturbancesOK, FinalOK, BrokerOK, FxOK
<1>6. CountsOK' /\ HandledOK'
  BY <1>1, <1>2 DEF CountsOK, LivePrograms, KnownInvoices, TakenRows, HandledOK, EntryAt
<1>7. BornOK'
  BY <1>1, <1>2 DEF BornOK
<1>8. \A p, part : (Undelivered(p)' <=> Undelivered(p)) /\ (Owed(p, part)' <=> Owed(p, part))
  BY <1>1 DEF Undelivered, Owed, EntryAt
<1>9. BaselineOK'
  <2>1. RowCounts' = RowCounts /\ \A p : ProgramRow(p)' = ProgramRow(p)
    BY <1>1, <1>2 DEF RowCounts, ProgramRow
  <2> QED
    BY <1>1, <1>2, <1>8, <2>1 DEF BaselineOK, BaselineRows, BaselinePrograms
<1>10. LeftoverOK'
  BY <1>4, <1>8 DEF LeftoverOK
<1>11. OutboxOK'
  BY <1>1, <1>2, <1>4 DEF OutboxOK
<1>12. TrackedKept'
  <2>1. TrackedHold' <=> TrackedHold
    BY <1>1, <1>2 DEF TrackedHold, Seen, Reserved, ActiveUsd
  <2> QED
    BY <1>1, <1>4, <2>1 DEF TrackedKept
<1> QED
  BY <1>3, <1>5, <1>6, <1>7, <1>9, <1>10, <1>11, <1>12

\* Every step keeps it.
LEMMA PassNext ==
  ASSUME PassInv, [Next]_vars
  PROVE  PassInv'
<1>1. CASE Next
  <2>1. /\ PlanOK /\ RowsOK /\ ContainersOK /\ MarkerOK /\ OwedOK /\ TrackedOK
        /\ published \subseteq outbox
    BY DEF PassInv, DeliveryInv, ValidationInv, StackOK
  <2>2. DeliveryInv'
    BY <1>1, DeliveryNext DEF PassInv
  <2>3. DisturbancesOK' /\ FinalOK' /\ BrokerOK' /\ FxOK'
    BY <1>1, <2>1, DisturbancesGrow, FinalNext, BrokerNext, FxNext DEF PassInv
  <2>4. CountsOK' /\ HandledOK' /\ BornOK' /\ BaselineOK'
    BY <1>1, <2>1, CountsNext, HandledNext, BornNext, BaselineNext DEF PassInv
  <2>5. LeftoverOK' /\ OutboxOK' /\ TrackedKept'
    BY <1>1, <2>1, LeftoverNext, OutboxNext, TrackedKeptNext DEF PassInv
  <2> QED
    BY <2>2, <2>3, <2>4, <2>5 DEF PassInv
<1>2. CASE UNCHANGED vars
  BY <1>2, PassStutters
<1> QED
  BY <1>1, <1>2

\* The invariant holds in every behaviour.
THEOREM PassInvariant == Spec => []PassInv
  BY PassInit, PassNext, PTL DEF Spec

\* What a run that ends with PASS leaves, whatever went wrong on its way.
PassMeansKept ==
  final = "PASS" =>
    /\ kafka = "up" /\ (fx = "original" \/ disturbances > 1)
    /\ tracked # {} /\ TrackedHold
    /\ baseline.backlog \/ BaselineHolds
    /\ \A o \in outbox \ published : o.topic = "reconciliations.events" /\ o.key \in Unseen
    /\ \A p \in Programs \ Leftover : ~ Undelivered(p)

\* The scenarios of a run that ends with PASS saw what they had to, and nothing
\* behind them undid it.
LEMMA PassIsEarned == PassInv => PassMeansKept
<1> SUFFICES ASSUME PassInv, final = "PASS" PROVE PassMeansKept
  BY DEF PassMeansKept
<1> USE DEF PassInv
<1>1. /\ at = Len(Plan) + 1 /\ AllWell /\ PlanOK /\ OwedOK
      /\ Len(Plan) \in Nat /\ DOMAIN Plan = 1..Len(Plan)
  BY PlanIsSequence DEF FinalOK, DeliveryInv
<1>2. ASSUME NEW n \in DOMAIN Plan, NEW k \in DOMAIN StepsOf(n), results[n] = "PASS"
      PROVE  Came(n, k)
  BY <1>1, <1>2 DEF Came, Past, Before
<1>3. \A n \in DOMAIN Plan : Plan[n].mandatory => results[n] = "PASS"
  BY <1>1 DEF AllWell
<1>4. PICK n, m, i, d \in {s \in DOMAIN Plan : Plan[s].mandatory} :
        /\ \E k \in DOMAIN StepsOf(n) : Commands(StepAt(n, k), "up")
        /\ \E k \in DOMAIN StepsOf(m) : LooksAtTracked(m, k)
        /\ \E k \in DOMAIN StepsOf(i) : FindsBroker(i, k)
        /\ \E k \in DOMAIN StepsOf(d) : FindsDrained(d, k)
  BY EndAssumption
<1>5. kafka = "up"
  BY <1>2, <1>3, <1>4 DEF BrokerOK
<1>6. ASSUME fx = "override"
      PROVE  disturbances > 1
  <2>1. Overridden
    BY <1>2, <1>3, <1>4, <1>6 DEF FxOK
  <2>2. PICK s \in DOMAIN Plan : \E j \in DOMAIN StepsOf(s) :
          Commands(StepAt(s, j), "override-fx") /\ Played(s)
    BY <2>1 DEF Overridden
  <2>3. results[s] = "PASS"
    BY <1>1, <2>2 DEF Played, AllWell
  <2>4. PICK j, l \in DOMAIN StepsOf(s) : TakesBack(s, j, l)
    BY <2>2, EndAssumption
  <2> QED
    BY <1>2, <1>6, <2>3, <2>4 DEF FxOK
<1>7. fx \in {"original", "override"}
  BY DEF DeliveryInv, ValidationInv, StackOK, ContainersOK
<1>8. tracked # {} /\ TrackedHold
  BY <1>2, <1>3, <1>4 DEF TrackedKept
<1>9. baseline.backlog \/ BaselineHolds
  BY DEF BaselineOK, BaselineRows, BaselinePrograms, BaselineHolds
<1>10. \A o \in outbox \ published : o.topic = "reconciliations.events" /\ o.key \in Unseen
  BY <1>2, <1>3, <1>4 DEF OutboxOK
<1>11. \A p \in Programs \ Leftover : ~ Undelivered(p)
  BY <1>1, OwnDelivered
<1> QED
  BY <1>5, <1>6, <1>7, <1>8, <1>9, <1>10, <1>11 DEF PassMeansKept

\* A run that ends with PASS leaves the broker running, the provider's own address
\* configured unless two things went wrong, what it tracked unchanged, the rows of
\* earlier runs unchanged unless a message of theirs was under way at the baseline,
\* none of its own messages unhandled, and every event published but those of an
\* earlier run's message for which no scenario waits.
THEOREM PassIsKept == Spec => []PassMeansKept
  BY PassInvariant, PassIsEarned, PTL

\* Where at most one thing goes wrong, and every message of an earlier run has a
\* marker behind it, a run that ends with PASS leaves the stack as its report says.
THEOREM PassIsHealthy ==
  ASSUME MaxDisturbances <= 1, Unseen = {}
  PROVE  Spec => []PassMeansHealthy
<1>1. PassInv => PassMeansHealthy
  <2> SUFFICES ASSUME PassInv, final = "PASS" PROVE PassMeansHealthy
    BY DEF PassMeansHealthy
  <2>1. PassMeansKept
    BY PassIsEarned
  <2>2. ~ disturbances > 1
    BY StackAssumption DEF PassInv, DisturbancesOK
  <2>3. published \subseteq outbox
    BY DEF PassInv, DeliveryInv, ValidationInv, StackOK
  <2> QED
    BY <2>1, <2>2, <2>3 DEF PassMeansKept, PassMeansHealthy
<1>2. QED
  BY <1>1, PassInvariant, PTL
=============================================================================
