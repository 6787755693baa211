--------------------------- MODULE CapacityService --------------------------
(***************************************************************************)
(* The capacity API as it runs: Node.js request handlers and the Kafka     *)
(* consumer interleave at every database statement, under PostgreSQL READ  *)
(* COMMITTED with SELECT ... FOR UPDATE row locks.                         *)
(*                                                                         *)
(* pc[w] names the statement worker w executes next.  One action is one    *)
(* statement with the code up to the next one: what a throw does (ROLLBACK, *)
(* which frees the locks, then the error reply) belongs to the action that *)
(* throws.  A transaction's writes follow its last read without waiting on *)
(* another row, so they and the COMMIT are the transaction's last action.  *)
(***************************************************************************)
EXTENDS CapacityTables

CONSTANTS
  Workers,     \* request handlers, each with a pool connection when in use
  NoWorker     \* holder of a free row lock

ASSUME WorkersAssumption == NoWorker \notin Workers

VARIABLES
  pc,               \* the statement a worker executes next
  request,          \* the command a worker serves
  local,            \* what the handler has read so far
  reply,            \* the outcome, while pc is "replied"
  programLock,      \* holder of each row's FOR UPDATE lock
  reservationLock,
  invoiceLock

locks == <<programLock, reservationLock, invoiceLock>>
vars == <<tables, pc, request, local, reply, locks>>

ReserveRequests == [op: {"reserve"}, program: Programs, invoice: Invoices]
ReleaseRequests == [op: {"release"}, reservation: ReservationIds]
ReconcileRequests == [op: {"reconcile"}, entry: Entries]
SummaryRequests == [op: {"summary"}, program: Programs]
Requests == ReserveRequests \cup ReleaseRequests \cup ReconcileRequests
              \cup SummaryRequests
NoRequest == [op |-> "none"]
NoReply == "none"

\* total and version: the program row as read; row: the reservation row as
\* locked; usd: the converted amount to reserve.
NoLocal == [total |-> 0, version |-> 0, usd |-> 0, row |-> NoReservation]

FirstStatement(op) ==
  CASE op = "reserve"   -> "findInvoice"
    [] op = "release"   -> "findReservation"
    [] op = "reconcile" -> "findInboxEvent"
    [] op = "summary"   -> "findProgram"
AfterProgramLock(op) ==
  CASE op = "reserve"   -> "lockInvoice"
    [] op = "release"   -> "lockReservation"
    [] op = "reconcile" -> "applyEntry"
Statements == {"idle", "findInvoice", "convertToUsd", "findReservation",
  "findInboxEvent", "findProgram", "lockProgram", "lockReservation",
  "lockInvoice", "sumActive", "insertReservation", "insertRelease",
  "applyEntry", "findExisting", "sumForSummary", "replied"}

Op(w) == request[w].op

-----------------------------------------------------------------------------
(* The program a command works on: an argument of three of the commands, and *)
(* for a release the pre-read reservation's (its program_id never changes). *)

ProgramOf(w) ==
  CASE Op(w) = "release" -> local[w].row.program
    [] Op(w) = "reconcile" -> request[w].entry.program
    [] OTHER -> request[w].program

InvoiceOf(w) ==
  IF Op(w) = "release" THEN local[w].row.invoice ELSE request[w].invoice

Free(lock, w) == [x \in DOMAIN lock |-> IF lock[x] = w THEN NoWorker ELSE lock[x]]

\* COMMIT or ROLLBACK.
ReleaseLocks(w) ==
  /\ programLock' = Free(programLock, w)
  /\ reservationLock' = Free(reservationLock, w)
  /\ invoiceLock' = Free(invoiceLock, w)

Goto(w, statement) ==
  /\ pc' = [pc EXCEPT ![w] = statement]
  /\ UNCHANGED <<request, reply>>

\* The command ends with an outcome; its transaction, if any, is over.
Finish(w, answer) ==
  /\ pc' = [pc EXCEPT ![w] = "replied"]
  /\ reply' = [reply EXCEPT ![w] = answer]
  /\ local' = [local EXCEPT ![w] = NoLocal]
  /\ ReleaseLocks(w)
  /\ UNCHANGED request

\* The command ends, by a throw or a return, having written nothing.
Answer(w, answer) == Finish(w, answer) /\ UNCHANGED tables

\* The COMMIT was applied.  Its answer may be lost with the connection: then
\* the transaction throws and the caller sees an error, with the rows written.
Commit(w, answer) == Finish(w, answer) \/ Finish(w, "Aborted")

Init ==
  /\ TablesInit
  /\ pc = [w \in Workers |-> "idle"]
  /\ request = [w \in Workers |-> NoRequest]
  /\ local = [w \in Workers |-> NoLocal]
  /\ reply = [w \in Workers |-> NoReply]
  /\ programLock = [p \in Programs |-> NoWorker]
  /\ reservationLock = [r \in ReservationIds |-> NoWorker]
  /\ invoiceLock = [i \in Invoices |-> NoWorker]

\* MaxReservations bounds the model: a reservation is only requested while
\* the table has a row left for it.
RoomFor(q) ==
  q.op = "reserve" =>
    Cardinality({w \in Workers : Op(w) = "reserve"})
      < Cardinality({r \in ReservationIds : reservation[r] = NoReservation})

Start(w, q) ==
  /\ pc[w] = "idle"
  /\ RoomFor(q)
  /\ request' = [request EXCEPT ![w] = q]
  /\ pc' = [pc EXCEPT ![w] = FirstStatement(q.op)]
  /\ UNCHANGED <<tables, local, reply, locks>>

-----------------------------------------------------------------------------
(* SELECT ... FOR UPDATE, waiting while another transaction holds the row *)

\* Mutant: a plain SELECT, which waits for nobody.
LockProgramWithoutWaiting(w) ==
  LET p == ProgramOf(w) IN
  /\ pc[w] = "lockProgram"
  /\ IF programState[p] = "LIVE"
       THEN /\ programLock' = [programLock EXCEPT ![p] = w]
            /\ local' = [local EXCEPT ![w].total = total[p],
                                      ![w].version = version[p]]
            /\ Goto(w, AfterProgramLock(Op(w)))
            /\ UNCHANGED <<tables, reservationLock, invoiceLock>>
       ELSE Answer(w, "ProgramNotFound")

LockProgram(w) ==
  LET p == ProgramOf(w) IN
  /\ pc[w] = "lockProgram"
  /\ programLock[p] = NoWorker
  /\ IF programState[p] = "LIVE"
       THEN /\ programLock' = [programLock EXCEPT ![p] = w]
            /\ local' = [local EXCEPT ![w].total = total[p],
                                      ![w].version = version[p]]
            /\ Goto(w, AfterProgramLock(Op(w)))
            /\ UNCHANGED <<tables, reservationLock, invoiceLock>>
       ELSE Answer(w, "ProgramNotFound")

LockReservation(w) ==
  LET r == request[w].reservation IN
  /\ pc[w] = "lockReservation"
  /\ reservationLock[r] = NoWorker
  /\ CASE reservation[r].status = "ACTIVE" ->
            /\ reservationLock' = [reservationLock EXCEPT ![r] = w]
            /\ local' = [local EXCEPT ![w].row = reservation[r]]
            /\ Goto(w, "lockInvoice")
            /\ UNCHANGED <<tables, programLock, invoiceLock>>
       [] OTHER ->
            Answer(w, IF \E x \in releases : x.reservation = r
                       THEN "AlreadyReleased" ELSE "ReservationNotActive")

\* Mutant: the next read of the program is sent without the transaction, on
\* another connection, and waits for the row this one has locked.
LockInvoiceThenProgram(w) ==
  LET i == InvoiceOf(w) IN
  /\ pc[w] = "lockInvoice"
  /\ invoiceLock[i] = NoWorker
  /\ invoiceLock' = [invoiceLock EXCEPT ![i] = w]
  /\ Goto(w, "lockProgram")
  /\ UNCHANGED <<tables, local, programLock, reservationLock>>

\* Mutant: the invoice's status is trusted as it was before the transaction.
LockInvoiceUnchecked(w) ==
  LET i == InvoiceOf(w) IN
  /\ pc[w] = "lockInvoice"
  /\ invoiceLock[i] = NoWorker
  /\ invoiceLock' = [invoiceLock EXCEPT ![i] = w]
  /\ Goto(w, IF Op(w) = "reserve" THEN "sumActive" ELSE "insertRelease")
  /\ UNCHANGED <<tables, local, programLock, reservationLock>>

LockInvoice(w) ==
  LET i == InvoiceOf(w) IN
  /\ pc[w] = "lockInvoice"
  /\ invoiceLock[i] = NoWorker
  /\ IF invoice[i] = (IF Op(w) = "reserve" THEN "OPEN" ELSE "RESERVED")
       THEN /\ invoiceLock' = [invoiceLock EXCEPT ![i] = w]
            /\ Goto(w, IF Op(w) = "reserve" THEN "sumActive" ELSE "insertRelease")
            /\ UNCHANGED <<tables, local, programLock, reservationLock>>
       ELSE Answer(w, IF Op(w) = "reserve" THEN "InvoiceNotReservable"
                                          ELSE "InvoiceNotReleasable")

-----------------------------------------------------------------------------
(* ReservationsService.create *)

FindInvoice(w) ==
  LET i == request[w].invoice IN
  /\ pc[w] = "findInvoice"
  /\ CASE invoice[i] = "OPEN" ->
            Goto(w, "convertToUsd") /\ UNCHANGED <<tables, local, locks>>
       [] invoice[i] = "ABSENT" -> Answer(w, "InvoiceNotFound")
       [] OTHER -> Answer(w, "InvoiceNotReservable")

ConvertToUsd(w) ==
  /\ pc[w] = "convertToUsd"
  /\ \/ \E usd \in Quotes[request[w].invoice] :
          /\ local' = [local EXCEPT ![w].usd = usd]
          /\ Goto(w, "lockProgram")
          /\ UNCHANGED <<tables, locks>>
     \/ Answer(w, "FxUnavailable")

\* Mutant: an amount that fits exactly is refused.
SumActiveStrict(w) ==
  LET reserved == Reserved(ProgramOf(w)) IN
  /\ pc[w] = "sumActive"
  /\ CASE reserved > local[w].total -> Answer(w, "CapacityUnderflow")
       [] /\ reserved <= local[w].total
          /\ local[w].usd >= local[w].total - reserved -> Answer(w, "InsufficientCapacity")
       [] OTHER ->
            Goto(w, "insertReservation") /\ UNCHANGED <<tables, local, locks>>

\* The sum and the comparison; a negative difference is a RangeError.
SumActive(w) ==
  LET reserved == Reserved(ProgramOf(w)) IN
  /\ pc[w] = "sumActive"
  /\ CASE reserved > local[w].total -> Answer(w, "CapacityUnderflow")
       [] /\ reserved <= local[w].total
          /\ local[w].usd > local[w].total - reserved -> Answer(w, "InsufficientCapacity")
       [] OTHER ->
            Goto(w, "insertReservation") /\ UNCHANGED <<tables, local, locks>>

InsertReservation(w) ==
  LET i == request[w].invoice IN
  /\ pc[w] = "insertReservation"
  /\ IF HasActive(i)
       THEN Answer(w, "AlreadyExists")
       ELSE IF invoice[i] # "OPEN"
         THEN Answer(w, "InvoiceNotReservable")
         ELSE \E r \in ReservationIds :
                /\ IsNextRow(r)
                /\ CommitReservation(r, request[w].program, i, local[w].usd)
                /\ Commit(w, "Created")

-----------------------------------------------------------------------------
(* ReleasesService.release *)

FindReservation(w) ==
  LET r == request[w].reservation IN
  /\ pc[w] = "findReservation"
  /\ IF reservation[r] # NoReservation
       THEN /\ local' = [local EXCEPT ![w].row = reservation[r]]
            /\ Goto(w, "lockProgram")
            /\ UNCHANGED <<tables, locks>>
       ELSE Answer(w, "ReservationNotFound")

\* Mutant: a transaction whose answer is lost is sent again, and its INSERT
\* tells nobody that the release is there already.
InsertReleaseRetried(w) ==
  LET r == request[w].reservation
      row == local[w].row
  IN
  /\ pc[w] = "insertRelease"
  /\ CommitRelease(r, row)
  /\ \/ Finish(w, "Released")
     \/ /\ ReleaseLocks(w)
        /\ UNCHANGED <<pc, request, local, reply>>

\* The release copies the row read under the reservation's lock.
InsertRelease(w) ==
  LET r == request[w].reservation
      row == local[w].row
  IN
  /\ pc[w] = "insertRelease"
  /\ CASE \E x \in releases : x.reservation = r -> Answer(w, "AlreadyExists")
       [] reservation[r].status # "ACTIVE" -> Answer(w, "ReservationNotActive")
       [] invoice[row.invoice] # "RESERVED" -> Answer(w, "InvoiceNotReleasable")
       [] OTHER -> CommitRelease(r, row) /\ Commit(w, "Released")

-----------------------------------------------------------------------------
(* ReconciliationsService.reconcileProgramEntry *)

Recorded(e) == \E x \in reconciliations : x.id = ExternalEventId(e)

\* Mutant: a second delivery of an applied entry emits its event again.
FindInboxEventEmitsAgain(w) ==
  LET e == request[w].entry IN
  /\ pc[w] = "findInboxEvent"
  /\ IF ReconciliationRow(e, "APPLIED") \in reconciliations
       THEN /\ outbox' = outbox \cup {ReconciliationApplied(e)}
            /\ Finish(w, "Duplicate")
            /\ UNCHANGED <<programVars, invoice, reservation, releases,
                           reconciliations, inbox>>
       ELSE Goto(w, "lockProgram") /\ UNCHANGED <<tables, local, locks>>

FindInboxEvent(w) ==
  LET e == request[w].entry IN
  /\ pc[w] = "findInboxEvent"
  /\ IF ExternalEventId(e) \in inbox
       THEN Answer(w, IF Recorded(e) THEN "Duplicate" ELSE "InboxWithoutAudit")
       ELSE Goto(w, "lockProgram") /\ UNCHANGED <<tables, local, locks>>

\* Mutant: no unique key, so an entry is recorded once per delivery.
ApplyEntryWithoutKey(w) ==
  LET e == request[w].entry
      stale == e.version <= local[w].version
  IN
  /\ pc[w] = "applyEntry"
  /\ CommitReconciliation(e, IF stale THEN "IGNORED_STALE" ELSE "APPLIED")
  /\ Commit(w, IF stale THEN "IgnoredStale" ELSE "Applied")

\* Mutant: only an entry that repeats the version is stale.
ApplyEntryUnlessEqual(w) ==
  LET e == request[w].entry
      stale == e.version = local[w].version
  IN
  /\ pc[w] = "applyEntry"
  /\ ~ Recorded(e)
  /\ CommitReconciliation(e, IF stale THEN "IGNORED_STALE" ELSE "APPLIED")
  /\ Commit(w, IF stale THEN "IgnoredStale" ELSE "Applied")

\* Mutant: an entry that repeats the version is applied.
ApplyEntrySameVersion(w) ==
  LET e == request[w].entry
      stale == e.version < local[w].version
  IN
  /\ pc[w] = "applyEntry"
  /\ ~ Recorded(e)
  /\ CommitReconciliation(e, IF stale THEN "IGNORED_STALE" ELSE "APPLIED")
  /\ Commit(w, IF stale THEN "IgnoredStale" ELSE "Applied")

\* The version decision on the locked row, the guarded UPDATE, and the audit
\* row, whose unique key rolls the transaction back when another worker has
\* committed the same entry since FindInboxEvent.
ApplyEntry(w) ==
  LET e == request[w].entry
      stale == e.version <= local[w].version
  IN
  /\ pc[w] = "applyEntry"
  /\ IF ~ stale /\ version[e.program] # local[w].version
       THEN Answer(w, "VersionChanged")
       ELSE IF Recorded(e) \/ ExternalEventId(e) \in inbox
         THEN /\ Goto(w, "findExisting")
              /\ ReleaseLocks(w)
              /\ UNCHANGED <<tables, local>>
         ELSE /\ CommitReconciliation(e, IF stale THEN "IGNORED_STALE" ELSE "APPLIED")
              /\ Commit(w, IF stale THEN "IgnoredStale" ELSE "Applied")

FindExisting(w) ==
  /\ pc[w] = "findExisting"
  /\ Answer(w, IF Recorded(request[w].entry) THEN "Duplicate" ELSE "UniqueViolation")

-----------------------------------------------------------------------------
(* GET /programs/:id *)

FindProgram(w) ==
  LET p == request[w].program IN
  /\ pc[w] = "findProgram"
  /\ IF programState[p] = "LIVE"
       THEN /\ local' = [local EXCEPT ![w].total = total[p]]
            /\ Goto(w, "sumForSummary")
            /\ UNCHANGED <<tables, locks>>
       ELSE Answer(w, "ProgramNotFound")

SumForSummary(w) ==
  /\ pc[w] = "sumForSummary"
  /\ Answer(w, IF Reserved(request[w].program) > local[w].total
                THEN "CapacityUnderflow" ELSE "CapacityRead")

-----------------------------------------------------------------------------
(* Failures, replies, and the single-statement operations *)

\* The connection, the database or the process is lost before the COMMIT, or a
\* statement fails: PostgreSQL rolls back and frees the locks, the caller sees
\* an error.  (An error after the COMMIT is the second case of Commit.)
Abort(w) ==
  /\ pc[w] \notin {"idle", "replied"}
  /\ Answer(w, "Aborted")

Return(w) ==
  /\ pc[w] = "replied"
  /\ pc' = [pc EXCEPT ![w] = "idle"]
  /\ request' = [request EXCEPT ![w] = NoRequest]
  /\ reply' = [reply EXCEPT ![w] = NoReply]
  /\ UNCHANGED <<tables, local, locks>>

CreateProgram(p, t) ==
  /\ programState[p] = "ABSENT"
  /\ CommitProgram(p, t)
  /\ UNCHANGED <<pc, request, local, reply, locks>>

\* DELETE takes the row's lock and is refused by a restricting foreign key.
DeleteProgram(p) ==
  /\ programState[p] = "LIVE"
  /\ programLock[p] = NoWorker
  /\ ~ Referenced(p)
  /\ CommitDelete(p)
  /\ UNCHANGED <<pc, request, local, reply, locks>>

CreateInvoice(i) ==
  /\ invoice[i] = "ABSENT"
  /\ CommitInvoice(i)
  /\ UNCHANGED <<pc, request, local, reply, locks>>

-----------------------------------------------------------------------------
LockStep(w) == LockProgram(w) \/ LockReservation(w) \/ LockInvoice(w)

PlainStep(w) ==
  \/ FindInvoice(w)
  \/ ConvertToUsd(w)
  \/ SumActive(w)
  \/ InsertReservation(w)
  \/ FindReservation(w)
  \/ InsertRelease(w)
  \/ FindInboxEvent(w)
  \/ ApplyEntry(w)
  \/ FindExisting(w)
  \/ FindProgram(w)
  \/ SumForSummary(w)
  \/ Return(w)

Next ==
  \/ \E w \in Workers :
       \/ \E q \in Requests : Start(w, q)
       \/ LockStep(w)
       \/ PlainStep(w)
       \/ Abort(w)
  \/ \E p \in Programs : DeleteProgram(p) \/ \E t \in Totals : CreateProgram(p, t)
  \/ \E i \in Invoices : CreateInvoice(i)

Spec == Init /\ [][Next]_vars

\* Handlers keep running, and a row lock's queue serves every waiter in turn.
Fairness ==
  \A w \in Workers : WF_vars(PlainStep(w)) /\ SF_vars(LockStep(w))

FairSpec == Spec /\ Fairness

-----------------------------------------------------------------------------
(* Properties *)

TypeOK ==
  /\ TablesTypeOK
  /\ pc \in [Workers -> Statements]
  /\ request \in [Workers -> Requests \cup {NoRequest}]
  /\ local \in [Workers -> [total: Nat, version: Nat, usd: Nat,
                           row: ReservationRow \cup {NoReservation}]]
  /\ programLock \in [Programs -> Workers \cup {NoWorker}]
  /\ reservationLock \in [ReservationIds -> Workers \cup {NoWorker}]
  /\ invoiceLock \in [Invoices -> Workers \cup {NoWorker}]

\* Statements executed with the program's row locked, and those with the
\* invoice's and the reservation's row locked too.
UnderProgramLock == {"lockReservation", "lockInvoice", "sumActive",
                     "insertReservation", "insertRelease", "applyEntry"}
UnderInvoiceLock == {"sumActive", "insertReservation", "insertRelease"}

\* What a transaction read under its locks is still what the tables hold
\* when it acts on it, whatever the other workers did in between: the
\* program's total and version, the invoice's status, the reservation to
\* release, and the capacity the sum left.
LockedReadsCurrent ==
  \A w \in Workers :
    LET p == ProgramOf(w)
        i == InvoiceOf(w)
        r == request[w].reservation
    IN
    /\ pc[w] \in UnderProgramLock =>
         /\ programState[p] = "LIVE"
         /\ local[w].total = total[p]
         /\ local[w].version = version[p]
    /\ pc[w] \in UnderInvoiceLock =>
         invoice[i] = IF Op(w) = "reserve" THEN "OPEN" ELSE "RESERVED"
    /\ pc[w] \in UnderProgramLock \ {"lockReservation"} /\ Op(w) = "release" =>
         reservation[r] = local[w].row /\ local[w].row.status = "ACTIVE"
    /\ pc[w] = "insertReservation" => Reserved(p) + local[w].usd <= total[p]

\* v holds the row w's next statement waits for.
Blocks(v, w) ==
  \/ pc[w] = "lockProgram" /\ programLock[ProgramOf(w)] = v
  \/ pc[w] = "lockReservation" /\ reservationLock[request[w].reservation] = v
  \/ pc[w] = "lockInvoice" /\ invoiceLock[InvoiceOf(w)] = v

\* No deadlock: no group of workers in which each waits for another's row.
NoLockCycle ==
  ~ \E group \in SUBSET Workers :
      group # {} /\ \A w \in group : \E v \in group : Blocks(v, w)

\* Every command is answered, whatever locks the others are waiting for.
CommandsAnswered ==
  \A w \in Workers : pc[w] # "idle" ~> pc[w] = "replied"

\* decimal-math.ts: a negative difference "means the oversubscription
\* invariant was already violated elsewhere", for the capacity summary.
UnderflowMeansOversubscribed ==
  [][\A w \in Workers :
       pc[w] = "sumForSummary" /\ reply'[w] = "CapacityUnderflow" =>
         Reserved(request[w].program) > total[request[w].program]]_vars

\* The workers implement the serial ledger: each command takes effect, or is
\* refused for a reason that holds, in one step between Start and its reply.
Ledger == INSTANCE CapacityLedger WITH
  phase <- [w \in Workers |-> CASE pc[w] = "idle" -> "idle"
                               [] pc[w] = "replied" -> "replied"
                               [] OTHER -> "pending"]
ImplementsLedger == Ledger!LedgerSpec
=============================================================================
