--------------------------- MODULE CapacityTables ---------------------------
(***************************************************************************)
(* The PostgreSQL tables behind capacity: programs, invoices, reservations, *)
(* releases, reconciliations with their inbox, and the transactional       *)
(* outbox.  Every variable holds COMMITTED rows; a transaction's writes    *)
(* become visible in one step, its COMMIT.  The operators below are the    *)
(* sets of writes one COMMIT makes visible, and the derived reserved       *)
(* capacity.  Amounts are integers in units of NUMERIC(19,4)'s last digit. *)
(***************************************************************************)
EXTENDS RowSum, FiniteSets

CONSTANTS
  Programs,         \* program ids
  Invoices,         \* invoice ids
  Totals,           \* total capacities a program may be created with
  Quotes,           \* Quotes[i]: USD amounts invoice i may convert to
  Entries,          \* program entries of the treasury's reconciliation batches
  MaxReservations   \* bound: rows the reservations table may hold

ASSUME TablesAssumption ==
  /\ Totals \subseteq Nat
  /\ Quotes \in [Invoices -> SUBSET Nat]
  /\ \A e \in Entries : /\ e.program \in Programs
                        /\ e.version \in Nat
                        /\ e.total \in Nat
  /\ MaxReservations \in Nat

VARIABLES
  programState,     \* "ABSENT" before the INSERT, "DELETED" after the DELETE
  total,            \* programs.total_capacity_usd_amount
  version,          \* programs.treasury_version
  invoice,          \* invoices.status, "ABSENT" before the INSERT
  reservation,      \* reservations, in the order of their COMMITs
  releases,         \* releases
  reconciliations,  \* reconciliations, the audit rows
  inbox,            \* reconciliation_events, by external_event_id
  outbox            \* outbox_events

programVars == <<programState, total, version>>
tables == <<programVars, invoice, reservation, releases, reconciliations,
            inbox, outbox>>

ReservationIds == 1..MaxReservations
NoReservation == [status |-> "NONE"]
ReservationRow == [status: {"ACTIVE", "RELEASED"}, program: Programs,
                   invoice: Invoices, usd: Nat]

\* The unique key of one entry of one batch, batchId:programId:sourceVersion.
ExternalEventId(e) == <<e.batch, e.program, e.version>>

-----------------------------------------------------------------------------
(* Derived capacity *)

ActiveUsd(p) ==
  [r \in ReservationIds |->
     IF reservation[r].status = "ACTIVE" /\ reservation[r].program = p
       THEN reservation[r].usd ELSE 0]

\* sumActiveByProgram: SUM(converted_amount_usd) over p's ACTIVE reservations.
Reserved(p) == SumRows(ActiveUsd(p), MaxReservations)

HasActive(i) ==
  \E r \in ReservationIds : /\ reservation[r].status = "ACTIVE"
                            /\ reservation[r].invoice = i

\* A row the ON DELETE RESTRICT foreign keys protect program p with.
Referenced(p) ==
  \/ \E r \in ReservationIds : /\ reservation[r] # NoReservation
                               /\ reservation[r].program = p
  \/ \E x \in releases : x.program = p
  \/ \E x \in reconciliations : x.program = p

\* The row the next INSERT INTO reservations fills.
IsNextRow(r) ==
  /\ r \in ReservationIds
  /\ reservation[r] = NoReservation
  /\ \A q \in 1..(r-1) : reservation[q] # NoReservation

-----------------------------------------------------------------------------
(* What a COMMIT makes visible *)

\* A row's own id (randomUUID).  Of ids only the difference matters: a row is
\* numbered among those of its table that say the same, so that inserting
\* one twice makes two rows.
NextId(same) == Cardinality(same) + 1

ReleasesOf(r) == {x \in releases : x.reservation = r}

ReleaseRow(r, row) ==
  [id |-> NextId(ReleasesOf(r)), reservation |-> r, program |-> row.program,
   invoice |-> row.invoice, usd |-> row.usd]

ReconciliationRow(e, status) ==
  [id |-> ExternalEventId(e), program |-> e.program, version |-> e.version,
   total |-> e.total, status |-> status]

\* The outbox row of each domain event, with its Kafka topic and message key.
EventsOf(topic, p, ref) ==
  {x \in outbox : x.topic = topic /\ x.key = p /\ x.ref = ref}
OutboxRow(topic, p, ref) ==
  [id |-> NextId(EventsOf(topic, p, ref)), topic |-> topic, key |-> p, ref |-> ref]

ReservationCreated(r, p) == OutboxRow("reservations.events", p, r)
ReleaseCreated(r, row) == OutboxRow("releases.events", row.program, r)
ReconciliationApplied(e) == OutboxRow("reconciliations.events", e.program, e.version)

TablesInit ==
  /\ programState = [p \in Programs |-> "ABSENT"]
  /\ total = [p \in Programs |-> 0]
  /\ version = [p \in Programs |-> 0]
  /\ invoice = [i \in Invoices |-> "ABSENT"]
  /\ reservation = [r \in ReservationIds |-> NoReservation]
  /\ releases = {}
  /\ reconciliations = {}
  /\ inbox = {}
  /\ outbox = {}

CommitProgram(p, t) ==
  /\ programState' = [programState EXCEPT ![p] = "LIVE"]
  /\ total' = [total EXCEPT ![p] = t]
  /\ UNCHANGED <<version, invoice, reservation, releases, reconciliations,
                 inbox, outbox>>

CommitDelete(p) ==
  /\ programState' = [programState EXCEPT ![p] = "DELETED"]
  /\ total' = [total EXCEPT ![p] = 0]
  /\ version' = [version EXCEPT ![p] = 0]
  /\ UNCHANGED <<invoice, reservation, releases, reconciliations, inbox, outbox>>

CommitInvoice(i) ==
  /\ invoice' = [invoice EXCEPT ![i] = "OPEN"]
  /\ UNCHANGED <<programVars, reservation, releases, reconciliations, inbox,
                 outbox>>

\* The foreign keys of a new row: without its program the INSERT fails.
CommitReservation(r, p, i, usd) ==
  /\ programState[p] = "LIVE"
  /\ reservation' = [reservation EXCEPT ![r] =
       [status |-> "ACTIVE", program |-> p, invoice |-> i, usd |-> usd]]
  /\ invoice' = [invoice EXCEPT ![i] = "RESERVED"]
  /\ outbox' = outbox \cup {ReservationCreated(r, p)}
  /\ UNCHANGED <<programVars, releases, reconciliations, inbox>>

\* Mutant: the invoice gets the reservation's closing status, not its own.
CommitReleaseWrongStatus(r, row) ==
  /\ releases' = releases \cup {ReleaseRow(r, row)}
  /\ reservation' = [reservation EXCEPT ![r].status = "RELEASED"]
  /\ invoice' = [invoice EXCEPT ![row.invoice] = "RELEASED"]
  /\ outbox' = outbox \cup {ReleaseCreated(r, row)}
  /\ UNCHANGED <<programVars, reconciliations, inbox>>

\* row is the reservation as the transaction read it under its lock.
CommitRelease(r, row) ==
  /\ programState[row.program] = "LIVE"
  /\ releases' = releases \cup {ReleaseRow(r, row)}
  /\ reservation' = [reservation EXCEPT ![r].status = "RELEASED"]
  /\ invoice' = [invoice EXCEPT ![row.invoice] = "REPAID"]
  /\ outbox' = outbox \cup {ReleaseCreated(r, row)}
  /\ UNCHANGED <<programVars, reconciliations, inbox>>

\* The audit and inbox rows of entry e; only an APPLIED entry replaces the
\* program's treasury-owned capacity and emits an event.
CommitReconciliation(e, status) ==
  LET p == e.program IN
  /\ programState[p] = "LIVE"
  /\ reconciliations' = reconciliations \cup {ReconciliationRow(e, status)}
  /\ inbox' = inbox \cup {ExternalEventId(e)}
  /\ IF status = "APPLIED"
       THEN /\ total' = [total EXCEPT ![p] = e.total]
            /\ version' = [version EXCEPT ![p] = e.version]
            /\ outbox' = outbox \cup {ReconciliationApplied(e)}
       ELSE UNCHANGED <<total, version, outbox>>
  /\ UNCHANGED <<programState, invoice, reservation, releases>>

-----------------------------------------------------------------------------
(* Properties of the tables *)

TablesTypeOK ==
  /\ programState \in [Programs -> {"ABSENT", "LIVE", "DELETED"}]
  /\ total \in [Programs -> Nat]
  /\ version \in [Programs -> Nat]
  /\ invoice \in [Invoices -> {"ABSENT", "OPEN", "RESERVED", "REPAID"}]
  /\ reservation \in [ReservationIds -> ReservationRow \cup {NoReservation}]
  /\ releases \subseteq [id: Nat, reservation: ReservationIds, program: Programs,
                         invoice: Invoices, usd: Nat]
  /\ IsFiniteSet(releases)
  /\ reconciliations \subseteq
       [id: {ExternalEventId(e) : e \in Entries}, program: Programs,
        version: Nat, total: Nat, status: {"APPLIED", "IGNORED_STALE"}]
  /\ inbox \subseteq {ExternalEventId(e) : e \in Entries}
  /\ outbox \subseteq [id: Nat,
                       topic: {"reservations.events", "releases.events",
                               "reconciliations.events"},
                       key: Programs, ref: Nat]
  /\ IsFiniteSet(outbox)

\* An invoice is financed at most once, ever: no two reservations name it,
\* and its status says exactly how far that one reservation got (RESERVED:
\* active, REPAID: released).  Broken by a double reservation through two
\* programs, or by a release and a reservation that interleave.
LifecycleConsistent ==
  /\ \A r, q \in ReservationIds :
       /\ reservation[r] # NoReservation
       /\ reservation[q] # NoReservation
       /\ reservation[r].invoice = reservation[q].invoice
       => r = q
  /\ \A r \in ReservationIds : reservation[r] # NoReservation =>
       invoice[reservation[r].invoice] =
         IF reservation[r].status = "ACTIVE" THEN "RESERVED" ELSE "REPAID"
  /\ \A i \in Invoices : invoice[i] \in {"RESERVED", "REPAID"} =>
       \E r \in ReservationIds : /\ reservation[r] # NoReservation
                                 /\ reservation[r].invoice = i

\* Every release returns exactly what its reservation took, once: a RELEASED
\* reservation has exactly one release row, any other has none, and the row
\* copies the reservation's program, invoice and USD amount.  Broken by a
\* release that is retried after its answer was lost, or that runs twice at
\* once, and inserts a second row.
ReleasedExactlyOnce ==
  /\ \A r \in ReservationIds :
       reservation[r].status = "RELEASED" <=> \E x \in releases : x.reservation = r
  /\ \A x \in releases :
       LET row == reservation[x.reservation] IN
       /\ x.program = row.program
       /\ x.invoice = row.invoice
       /\ x.usd = row.usd
  /\ \A x, y \in releases : x.reservation = y.reservation => x = y

\* The program's capacity is the newest treasury snapshot that was recorded:
\* no recorded version is higher than the program's, a program that has left
\* version 0 has an APPLIED snapshot of its version, and that snapshot's
\* total is its total.
TreasuryFollowsNewestSnapshot ==
  /\ \A x \in reconciliations :
       /\ x.version <= version[x.program]
       /\ x.status = "APPLIED" /\ x.version = version[x.program]
          => x.total = total[x.program]
  /\ \A p \in Programs : version[p] > 0 =>
       \E x \in reconciliations : /\ x.program = p
                                  /\ x.status = "APPLIED"
                                  /\ x.version = version[p]

\* Inbox and audit rows exist together, one per external event.
InboxMatchesAudit ==
  /\ inbox = {x.id : x \in reconciliations}
  /\ \A x, y \in reconciliations : x.id = y.id => x = y

\* The outbox holds an event for every committed reservation, release and
\* APPLIED snapshot, keyed by its program, and for nothing else, and it holds
\* each of them once: none for a stale snapshot, none missing for a committed
\* change, and no second one for a retry or a second delivery, whose row
\* would have an id of its own.
OutboxMatchesTables ==
  /\ {<<x.topic, x.key, x.ref>> : x \in outbox} =
       {<<"reservations.events", reservation[r].program, r>> :
          r \in {q \in ReservationIds : reservation[q] # NoReservation}}
       \cup
       {<<"releases.events", x.program, x.reservation>> : x \in releases}
       \cup
       {<<"reconciliations.events", x.program, x.version>> :
          x \in {y \in reconciliations : y.status = "APPLIED"}}
  /\ \A x, y \in outbox :
       x.topic = y.topic /\ x.key = y.key /\ x.ref = y.ref => x = y

\* A step that raises a program's reserved capacity leaves it within the
\* total that is current after the step.
ReserveNeverOversubscribes ==
  [][\A p \in Programs : Reserved(p)' > Reserved(p) => Reserved(p)' <= total'[p]]_tables

\* While a program exists, its capacity changes only together with a strictly
\* newer treasury version, and no treasury step changes what is reserved.
CapacityChangesOnlyForward ==
  [][\A p \in Programs :
       /\ programState[p] = "LIVE" /\ programState'[p] = "LIVE" =>
            /\ version'[p] >= version[p]
            /\ total'[p] # total[p] => version'[p] > version[p]
       /\ version'[p] # version[p] => Reserved(p)' = Reserved(p)]_tables
=============================================================================
