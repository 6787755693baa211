------------------------ MODULE CapacityServiceProofs -----------------------
(***************************************************************************)
(* What the row locks of CapacityService guarantee and what they are for,  *)
(* for any programs, invoices, entries, amounts and any number of workers: *)
(* a transaction acts on current rows, reserving never oversubscribes a    *)
(* program, and no workers deadlock; then what the committed tables say to *)
(* each other, and that the interleaved workers implement the serial       *)
(* ledger.                                                                 *)
(***************************************************************************)
EXTENDS CapacityService, RowSumProofs, FiniteSetTheorems

\* Which command a worker serves at each statement, and what it knows of the
\* reservation to release.
CommandOK(w) ==
  /\ pc[w] = "idle" => request[w] = NoRequest
  /\ pc[w] # "idle" => request[w] \in Requests
  /\ pc[w] \in {"findInvoice", "convertToUsd", "sumActive", "insertReservation"}
       => request[w].op = "reserve"
  /\ pc[w] \in {"findReservation", "lockReservation", "insertRelease"}
       => request[w].op = "release"
  /\ pc[w] \in {"findInboxEvent", "applyEntry", "findExisting"}
       => request[w].op = "reconcile"
  /\ pc[w] \in {"findProgram", "sumForSummary"} => request[w].op = "summary"
  /\ pc[w] = "lockProgram" => request[w].op \in {"reserve", "release", "reconcile"}
  /\ pc[w] = "lockInvoice" => request[w].op \in {"reserve", "release"}
  /\ /\ request[w].op = "release"
     /\ pc[w] \in {"lockProgram", "lockReservation", "lockInvoice", "insertRelease"}
     => /\ local[w].row \in ReservationRow
        /\ reservation[request[w].reservation] \in ReservationRow
        /\ reservation[request[w].reservation].program = local[w].row.program

TypeInv == TypeOK /\ \A w \in Workers : CommandOK(w)

\* The four kinds of request are told apart by their op.
LEMMA RequestKinds ==
  ASSUME NEW q \in Requests
  PROVE  /\ q.op \in {"reserve", "release", "reconcile", "summary"}
         /\ q.op = "reserve" => q.program \in Programs /\ q.invoice \in Invoices
         /\ q.op = "release" => q.reservation \in ReservationIds
         /\ q.op = "reconcile" => q.entry \in Entries
         /\ q.op = "summary" => q.program \in Programs
BY DEF Requests, ReserveRequests, ReleaseRequests, ReconcileRequests, SummaryRequests

\* The type invariant holds initially.
LEMMA TypeInit == Init => TypeInv
BY TablesAssumption, FS_EmptySet DEF Init, TablesInit, TypeInv, TypeOK, TablesTypeOK, CommandOK,
   Statements, NoRequest, NoLocal, NoReservation

\* A finished command leaves a well-typed worker and frees its locks.
LEMMA FinishType ==
  ASSUME TypeInv, NEW w \in Workers, NEW answer, pc[w] # "idle", Finish(w, answer)
  PROVE  /\ pc' \in [Workers -> Statements]
         /\ request' = request
         /\ request' \in [Workers -> Requests \cup {NoRequest}]
         /\ local' \in [Workers -> [total: Nat, version: Nat, usd: Nat,
                           row: ReservationRow \cup {NoReservation}]]
         /\ programLock' \in [Programs -> Workers \cup {NoWorker}]
         /\ reservationLock' \in [ReservationIds -> Workers \cup {NoWorker}]
         /\ invoiceLock' \in [Invoices -> Workers \cup {NoWorker}]
         /\ pc'[w] = "replied"
         /\ \A v \in Workers : v # w => pc'[v] = pc[v] /\ local'[v] = local[v]
BY DEF TypeInv, TypeOK, Finish, ReleaseLocks, Free, Statements, NoLocal, CommandOK

\* Ending a command without writes preserves the type invariant.
LEMMA AnswerType ==
  ASSUME TypeInv, NEW w \in Workers, NEW answer, pc[w] # "idle", Answer(w, answer)
  PROVE  TypeInv'
<1>1. Finish(w, answer) /\ UNCHANGED tables
  BY DEF Answer
<1>2. TypeOK'
  BY <1>1, FinishType DEF TypeInv, TypeOK, TablesTypeOK, tables, programVars
<1>3. ASSUME NEW v \in Workers PROVE CommandOK(v)'
  BY <1>1, FinishType DEF TypeInv, CommandOK, tables
<1> QED
  BY <1>2, <1>3 DEF TypeInv

\* Going on to the next statement, the tables unchanged.
LEMMA GotoType ==
  ASSUME TypeInv, NEW w \in Workers, NEW statement, pc[w] # "idle",
         Goto(w, statement), UNCHANGED tables,
         statement \in Statements, statement # "idle",
         local' \in [Workers -> [total: Nat, version: Nat, usd: Nat,
                           row: ReservationRow \cup {NoReservation}]],
         \A v \in Workers : v # w => local'[v] = local[v],
         programLock' \in [Programs -> Workers \cup {NoWorker}],
         reservationLock' \in [ReservationIds -> Workers \cup {NoWorker}],
         invoiceLock' \in [Invoices -> Workers \cup {NoWorker}],
         CommandOK(w)'
  PROVE  TypeInv'
<1>1. TypeOK'
  BY DEF TypeInv, TypeOK, TablesTypeOK, tables, programVars, Goto
<1>2. ASSUME NEW v \in Workers, v # w PROVE CommandOK(v)'
  BY <1>2 DEF TypeInv, TypeOK, CommandOK, tables, Goto
<1> QED
  BY <1>1, <1>2 DEF TypeInv

\* Workers' own variables, when only the tables change and no reservation
\* loses its row or moves to another program.
LEMMA OthersType ==
  ASSUME TypeInv, NEW v \in Workers, CommandOK(v),
         pc'[v] = pc[v], request'[v] = request[v], local'[v] = local[v],
         \A r \in ReservationIds : reservation[r] \in ReservationRow =>
           /\ reservation'[r] \in ReservationRow
           /\ reservation'[r].program = reservation[r].program
  PROVE  CommandOK(v)'
BY RequestKinds DEF CommandOK

\* What LockProgram, LockReservation and LockInvoice do to the types.
LEMMA LockType ==
  ASSUME TypeInv, NEW w \in Workers, LockStep(w)
  PROVE  TypeInv'
<1> USE DEF locks
<1>1. CASE LockProgram(w)
  <2> DEFINE p == ProgramOf(w)
  <2>1. pc[w] = "lockProgram" /\ request[w] \in Requests
        /\ request[w].op \in {"reserve", "release", "reconcile"}
    BY <1>1 DEF LockProgram, TypeInv, CommandOK
  <2>2. p \in Programs
    BY <2>1, RequestKinds, TablesAssumption DEF ProgramOf, Op, TypeInv, CommandOK, ReservationRow
  <2> HIDE DEF p
  <2>3. CASE programState[p] = "LIVE"
    <3>1. /\ programLock' = [programLock EXCEPT ![p] = w]
          /\ local' = [local EXCEPT ![w].total = total[p], ![w].version = version[p]]
          /\ Goto(w, AfterProgramLock(Op(w)))
          /\ UNCHANGED <<tables, reservationLock, invoiceLock>>
      BY <1>1, <2>3 DEF LockProgram, p
    <3>2. AfterProgramLock(Op(w)) \in {"lockInvoice", "lockReservation", "applyEntry"}
      BY <2>1 DEF AfterProgramLock, Op
    <3>3. local'[w].row = local[w].row /\ \A v \in Workers : v # w => local'[v] = local[v]
      BY <3>1 DEF TypeInv, TypeOK
    <3>4. local' \in [Workers -> [total: Nat, version: Nat, usd: Nat,
                           row: ReservationRow \cup {NoReservation}]]
      <4>1. total[p] \in Nat /\ version[p] \in Nat
        BY <2>2 DEF TypeInv, TypeOK, TablesTypeOK
      <4>2. local \in [Workers -> [total: Nat, version: Nat, usd: Nat,
                           row: ReservationRow \cup {NoReservation}]]
        BY DEF TypeInv, TypeOK
      <4>3. local' = [local EXCEPT ![w] =
                       [local[w] EXCEPT !.total = total[p], !.version = version[p]]]
        BY <3>1, <4>2
      <4>4. [local[w] EXCEPT !.total = total[p], !.version = version[p]]
              \in [total: Nat, version: Nat, usd: Nat,
                  row: ReservationRow \cup {NoReservation}]
        BY <4>1, <4>2
      <4> QED
        BY ONLY <4>2, <4>3, <4>4, w \in Workers
    <3>5. CommandOK(w)'
      BY <2>1, <3>1, <3>2, <3>3 DEF TypeInv, TypeOK, CommandOK, Goto, tables,
         AfterProgramLock, Op
    <3> QED
      BY <2>1, <2>2, <3>1, <3>2, <3>3, <3>4, <3>5, GotoType
         DEF TypeInv, TypeOK, Statements
  <2>4. CASE programState[p] # "LIVE"
    BY <1>1, <2>1, <2>4, AnswerType DEF LockProgram, p
  <2> QED
    BY <2>3, <2>4
<1>2. CASE LockReservation(w)
  <2> DEFINE r == request[w].reservation
  <2>1. /\ pc[w] = "lockReservation" /\ request[w] \in Requests
        /\ request[w].op = "release" /\ r \in ReservationIds
        /\ reservation[r] \in ReservationRow
        /\ reservation[r].program = local[w].row.program
    BY <1>2, RequestKinds DEF LockReservation, TypeInv, CommandOK
  <2>2. CASE reservation[r].status = "ACTIVE"
    <3>1. /\ reservationLock' = [reservationLock EXCEPT ![r] = w]
          /\ local' = [local EXCEPT ![w].row = reservation[r]]
          /\ Goto(w, "lockInvoice")
          /\ UNCHANGED <<tables, programLock, invoiceLock>>
      BY <1>2, <2>2 DEF LockReservation
    <3>2. /\ local'[w].row = reservation[r]
          /\ \A v \in Workers : v # w => local'[v] = local[v]
          /\ local' \in [Workers -> [total: Nat, version: Nat, usd: Nat,
                           row: ReservationRow \cup {NoReservation}]]
      BY <2>1, <3>1 DEF TypeInv, TypeOK
    <3>3. CommandOK(w)'
      BY <2>1, <3>1, <3>2 DEF TypeInv, TypeOK, CommandOK, Goto, tables
    <3> QED
      BY <2>1, <3>1, <3>2, <3>3, GotoType DEF TypeInv, TypeOK, Statements
  <2>3. CASE reservation[r].status # "ACTIVE"
    <3>1. Answer(w, IF \E x \in releases : x.reservation = r
                      THEN "AlreadyReleased" ELSE "ReservationNotActive")
      BY <1>2, <2>3 DEF LockReservation
    <3> QED
      BY <2>1, <3>1, AnswerType
  <2> QED
    BY <2>2, <2>3
<1>3. CASE LockInvoice(w)
  <2> DEFINE i == InvoiceOf(w)
             required == IF Op(w) = "reserve" THEN "OPEN" ELSE "RESERVED"
             next == IF Op(w) = "reserve" THEN "sumActive" ELSE "insertRelease"
  <2>1. /\ pc[w] = "lockInvoice" /\ request[w] \in Requests
        /\ request[w].op \in {"reserve", "release"}
    BY <1>3 DEF LockInvoice, TypeInv, CommandOK
  <2>2. CASE invoice[i] = required
    <3>1. /\ invoiceLock' = [invoiceLock EXCEPT ![i] = w]
          /\ Goto(w, next)
          /\ UNCHANGED <<tables, local, programLock, reservationLock>>
      BY <1>3, <2>2 DEF LockInvoice
    <3>2. CommandOK(w)'
      BY <2>1, <3>1 DEF TypeInv, TypeOK, CommandOK, Goto, tables, Op
    <3> QED
      BY <2>1, <3>1, <3>2, GotoType DEF TypeInv, TypeOK, Statements
  <2>3. CASE invoice[i] # required
    <3>1. Answer(w, IF Op(w) = "reserve" THEN "InvoiceNotReservable"
                                         ELSE "InvoiceNotReleasable")
      BY <1>3, <2>3 DEF LockInvoice
    <3> QED
      BY <2>1, <3>1, AnswerType
  <2> QED
    BY <2>2, <2>3
<1> QED
  BY <1>1, <1>2, <1>3 DEF LockStep

\* The id of a new row is a number, and a table that gets a row stays finite.
LEMMA NewRows ==
  ASSUME TablesTypeOK
  PROVE  /\ \A r : NextId(ReleasesOf(r)) \in Nat
         /\ \A p \in Programs, ref \in Nat,
               topic \in {"reservations.events", "releases.events", "reconciliations.events"} :
              OutboxRow(topic, p, ref) \in
                [id: Nat, topic: {"reservations.events", "releases.events",
                                  "reconciliations.events"}, key: Programs, ref: Nat]
         /\ \A x : IsFiniteSet(releases \cup {x}) /\ IsFiniteSet(outbox \cup {x})
<1>1. IsFiniteSet(releases) /\ IsFiniteSet(outbox)
  BY DEF TablesTypeOK
<1>2. ASSUME NEW r PROVE NextId(ReleasesOf(r)) \in Nat
  <2>1. IsFiniteSet(ReleasesOf(r))
    BY <1>1, FS_Subset DEF ReleasesOf
  <2> QED
    BY <2>1, FS_CardinalityType DEF NextId
<1>3. ASSUME NEW topic, NEW p, NEW ref PROVE NextId(EventsOf(topic, p, ref)) \in Nat
  <2>1. IsFiniteSet(EventsOf(topic, p, ref))
    BY <1>1, FS_Subset DEF EventsOf
  <2> QED
    BY <2>1, FS_CardinalityType DEF NextId
<1>4. ASSUME NEW x PROVE IsFiniteSet(releases \cup {x}) /\ IsFiniteSet(outbox \cup {x})
  BY <1>1, FS_AddElement
<1> QED
  BY <1>2, <1>3, <1>4 DEF OutboxRow

\* A COMMIT of well-typed rows leaves well-typed tables in which no
\* reservation has lost its row or moved to another program.
LEMMA CommitReservationType ==
  ASSUME TablesTypeOK, NEW r \in ReservationIds, NEW p \in Programs,
         NEW i \in Invoices, NEW usd \in Nat, reservation[r] = NoReservation,
         CommitReservation(r, p, i, usd)
  PROVE  /\ TablesTypeOK'
         /\ \A q \in ReservationIds : reservation[q] \in ReservationRow =>
              /\ reservation'[q] \in ReservationRow
              /\ reservation'[q].program = reservation[q].program
<1>1. NoReservation \notin ReservationRow
  BY DEF NoReservation, ReservationRow
<1>2. [status |-> "ACTIVE", program |-> p, invoice |-> i, usd |-> usd] \in ReservationRow
  BY DEF ReservationRow
<1>3. r \in Nat
  BY TablesAssumption DEF ReservationIds
<1>4. /\ ReservationCreated(r, p) \in
           [id: Nat, topic: {"reservations.events", "releases.events",
                             "reconciliations.events"}, key: Programs, ref: Nat]
      /\ IsFiniteSet(outbox \cup {ReservationCreated(r, p)})
  BY <1>3, NewRows DEF ReservationCreated
<1> HIDE DEF ReservationCreated
<1>5. TablesTypeOK'
  BY <1>2, <1>4 DEF TablesTypeOK, CommitReservation, programVars
<1> QED
  BY <1>1, <1>5 DEF TablesTypeOK, CommitReservation

LEMMA CommitReleaseType ==
  ASSUME TablesTypeOK, NEW r \in ReservationIds, NEW row \in ReservationRow,
         reservation[r] \in ReservationRow, CommitRelease(r, row)
  PROVE  /\ TablesTypeOK'
         /\ \A q \in ReservationIds : reservation[q] \in ReservationRow =>
              /\ reservation'[q] \in ReservationRow
              /\ reservation'[q].program = reservation[q].program
<1>1. r \in Nat
  BY TablesAssumption DEF ReservationIds
<1>2. /\ row.program \in Programs /\ row.invoice \in Invoices /\ row.usd \in Nat
      /\ [reservation[r] EXCEPT !.status = "RELEASED"] \in ReservationRow
      /\ [reservation[r] EXCEPT !.status = "RELEASED"].program = reservation[r].program
  BY DEF ReservationRow
<1>3. reservation' = [reservation EXCEPT ![r] = [reservation[r] EXCEPT !.status = "RELEASED"]]
  BY DEF CommitRelease, TablesTypeOK
<1>4. reservation' \in [ReservationIds -> ReservationRow \cup {NoReservation}]
  BY <1>2, <1>3 DEF TablesTypeOK
<1>5. /\ ReleaseCreated(r, row) \in
           [id: Nat, topic: {"reservations.events", "releases.events",
                             "reconciliations.events"}, key: Programs, ref: Nat]
      /\ IsFiniteSet(outbox \cup {ReleaseCreated(r, row)})
  BY <1>1, <1>2, NewRows DEF ReleaseCreated
<1>6. /\ ReleaseRow(r, row) \in [id: Nat, reservation: ReservationIds, program: Programs,
                                invoice: Invoices, usd: Nat]
      /\ IsFiniteSet(releases \cup {ReleaseRow(r, row)})
  BY <1>2, NewRows DEF ReleaseRow
<1> HIDE DEF ReleaseCreated, ReleaseRow
<1>7. TablesTypeOK'
  BY <1>2, <1>4, <1>5, <1>6 DEF TablesTypeOK, CommitRelease, programVars
<1> QED
  BY <1>2, <1>3, <1>7 DEF TablesTypeOK

LEMMA CommitReconciliationType ==
  ASSUME TablesTypeOK, NEW e \in Entries, NEW status \in {"APPLIED", "IGNORED_STALE"},
         CommitReconciliation(e, status)
  PROVE  TablesTypeOK' /\ reservation' = reservation
<1>1. /\ e.program \in Programs /\ e.version \in Nat /\ e.total \in Nat
      /\ ExternalEventId(e) \in {ExternalEventId(x) : x \in Entries}
  BY TablesAssumption
<1> HIDE DEF ExternalEventId
<1>2. CASE status = "APPLIED"
  <2>1. /\ ReconciliationApplied(e) \in
             [id: Nat, topic: {"reservations.events", "releases.events",
                               "reconciliations.events"}, key: Programs, ref: Nat]
        /\ IsFiniteSet(outbox \cup {ReconciliationApplied(e)})
    BY <1>1, NewRows DEF ReconciliationApplied
  <2> HIDE DEF ReconciliationApplied
  <2>2. ReconciliationRow(e, status) \in
          [id: {ExternalEventId(x) : x \in Entries}, program: Programs, version: Nat,
           total: Nat, status: {"APPLIED", "IGNORED_STALE"}]
    BY <1>1 DEF ReconciliationRow
  <2> HIDE DEF ReconciliationRow
  <2> QED
    BY <1>1, <1>2, <2>1, <2>2 DEF TablesTypeOK, CommitReconciliation
<1>3. CASE status # "APPLIED"
  BY <1>1, <1>3 DEF TablesTypeOK, CommitReconciliation, ReconciliationRow
<1> QED
  BY <1>2, <1>3

\* A command that commits and finishes preserves the type invariant.
LEMMA CommitFinishType ==
  ASSUME TypeInv, NEW w \in Workers, NEW answer, pc[w] # "idle",
         TablesTypeOK', Finish(w, answer),
         \A q \in ReservationIds : reservation[q] \in ReservationRow =>
           /\ reservation'[q] \in ReservationRow
           /\ reservation'[q].program = reservation[q].program
  PROVE  TypeInv'
<1>1. TypeOK'
  BY FinishType DEF TypeOK
<1>2. CommandOK(w)'
  BY FinishType DEF TypeInv, CommandOK
<1>3. ASSUME NEW v \in Workers, v # w PROVE CommandOK(v)'
  BY <1>3, FinishType, OthersType DEF TypeInv
<1> QED
  BY <1>1, <1>2, <1>3 DEF TypeInv

\* What the statements without a lock do to the types.
LEMMA PlainType ==
  ASSUME TypeInv, NEW w \in Workers, PlainStep(w)
  PROVE  TypeInv'
<1> USE DEF locks
<1>0. /\ TablesTypeOK
      /\ pc[w] # "idle" => request[w] \in Requests
      /\ local[w].usd \in Nat
  BY DEF TypeInv, TypeOK, CommandOK
<1>1. CASE FindInvoice(w)
  <2>1. pc[w] = "findInvoice"
    BY <1>1 DEF FindInvoice
  <2>2. CASE Goto(w, "convertToUsd") /\ UNCHANGED <<tables, local, locks>>
    BY <2>1, <2>2, GotoType DEF TypeInv, TypeOK, CommandOK, Goto, Statements, tables
  <2> QED
    BY <1>1, <2>1, <2>2, AnswerType DEF FindInvoice
<1>2. CASE ConvertToUsd(w)
  <2>1. pc[w] = "convertToUsd" /\ request[w].op = "reserve"
        /\ Quotes[request[w].invoice] \subseteq Nat
    BY <1>0, <1>2, RequestKinds, TablesAssumption DEF ConvertToUsd, TypeInv, CommandOK
  <2>2. ASSUME NEW usd \in Quotes[request[w].invoice],
               local' = [local EXCEPT ![w].usd = usd],
               Goto(w, "lockProgram"), UNCHANGED <<tables, locks>>
        PROVE  TypeInv'
    <3>1. /\ local' \in [Workers -> [total: Nat, version: Nat, usd: Nat,
                           row: ReservationRow \cup {NoReservation}]]
          /\ \A v \in Workers : v # w => local'[v] = local[v]
      BY <2>1, <2>2 DEF TypeInv, TypeOK
    <3>2. CommandOK(w)'
      BY <2>1, <2>2 DEF TypeInv, TypeOK, CommandOK, Goto, tables
    <3> QED
      BY <2>1, <2>2, <3>1, <3>2, GotoType DEF TypeInv, TypeOK, Statements
  <2> QED
    BY <1>2, <2>1, <2>2, AnswerType DEF ConvertToUsd
<1>3. CASE SumActive(w)
  <2>1. pc[w] = "sumActive"
    BY <1>3 DEF SumActive
  <2>2. CASE Goto(w, "insertReservation") /\ UNCHANGED <<tables, local, locks>>
    BY <2>1, <2>2, GotoType DEF TypeInv, TypeOK, CommandOK, Goto, Statements, tables
  <2> QED
    BY <1>3, <2>1, <2>2, AnswerType DEF SumActive
<1>4. CASE InsertReservation(w)
  <2> DEFINE i == request[w].invoice
  <2>1. pc[w] = "insertReservation" /\ request[w].op = "reserve"
        /\ request[w].program \in Programs /\ i \in Invoices
    BY <1>0, <1>4, RequestKinds DEF InsertReservation, TypeInv, CommandOK
  <2>2. ASSUME NEW r \in ReservationIds, IsNextRow(r), NEW answer,
               CommitReservation(r, request[w].program, i, local[w].usd),
               Finish(w, answer)
        PROVE  TypeInv'
    <3>1. reservation[r] = NoReservation
      BY <2>2 DEF IsNextRow
    <3>2. TablesTypeOK' /\ \A q \in ReservationIds : reservation[q] \in ReservationRow =>
              /\ reservation'[q] \in ReservationRow
              /\ reservation'[q].program = reservation[q].program
      BY <1>0, <2>1, <2>2, <3>1, CommitReservationType
    <3> QED
      BY <2>1, <2>2, <3>2, CommitFinishType
  <2> QED
    BY <1>4, <2>1, <2>2, AnswerType DEF InsertReservation, Commit
<1>5. CASE FindReservation(w)
  <2>1. pc[w] = "findReservation" /\ request[w].op = "release"
        /\ request[w].reservation \in ReservationIds
    BY <1>0, <1>5, RequestKinds DEF FindReservation, TypeInv, CommandOK
  <2>2. ASSUME reservation[request[w].reservation] # NoReservation,
               local' = [local EXCEPT ![w].row = reservation[request[w].reservation]],
               Goto(w, "lockProgram"), UNCHANGED <<tables, locks>>
        PROVE  TypeInv'
    <3>1. reservation[request[w].reservation] \in ReservationRow
      BY <1>0, <2>1, <2>2 DEF TablesTypeOK
    <3>2. /\ local'[w].row = reservation[request[w].reservation]
          /\ local' \in [Workers -> [total: Nat, version: Nat, usd: Nat,
                           row: ReservationRow \cup {NoReservation}]]
          /\ \A v \in Workers : v # w => local'[v] = local[v]
      BY <2>2, <3>1 DEF TypeInv, TypeOK
    <3>3. CommandOK(w)'
      BY <2>1, <2>2, <3>1, <3>2 DEF TypeInv, TypeOK, CommandOK, Goto, tables
    <3> QED
      BY <2>1, <2>2, <3>2, <3>3, GotoType DEF TypeInv, TypeOK, Statements
  <2> QED
    BY <1>5, <2>1, <2>2, AnswerType DEF FindReservation
<1>6. CASE InsertRelease(w)
  <2> DEFINE r == request[w].reservation
             row == local[w].row
  <2>1. /\ pc[w] = "insertRelease" /\ request[w].op = "release"
        /\ r \in ReservationIds /\ row \in ReservationRow
        /\ reservation[r] \in ReservationRow
    BY <1>0, <1>6, RequestKinds DEF InsertRelease, TypeInv, CommandOK
  <2>2. ASSUME NEW answer, CommitRelease(r, row), Finish(w, answer)
        PROVE  TypeInv'
    <3>1. TablesTypeOK' /\ \A q \in ReservationIds : reservation[q] \in ReservationRow =>
              /\ reservation'[q] \in ReservationRow
              /\ reservation'[q].program = reservation[q].program
      BY <1>0, <2>1, <2>2, CommitReleaseType
    <3> QED
      BY <2>1, <2>2, <3>1, CommitFinishType
  <2> QED
    BY <1>6, <2>1, <2>2, AnswerType DEF InsertRelease, Commit
<1>7. CASE FindInboxEvent(w)
  <2>1. pc[w] = "findInboxEvent" /\ request[w].op = "reconcile"
    BY <1>7 DEF FindInboxEvent, TypeInv, CommandOK
  <2>2. CASE Goto(w, "lockProgram") /\ UNCHANGED <<tables, local, locks>>
    BY <2>1, <2>2, GotoType DEF TypeInv, TypeOK, CommandOK, Goto, Statements, tables
  <2> QED
    BY <1>7, <2>1, <2>2, AnswerType DEF FindInboxEvent
<1>8. CASE ApplyEntry(w)
  <2> DEFINE e == request[w].entry
             stale == e.version <= local[w].version
  <2>1. pc[w] = "applyEntry" /\ request[w].op = "reconcile" /\ e \in Entries
    BY <1>0, <1>8, RequestKinds DEF ApplyEntry, TypeInv, CommandOK
  <2>2. CASE Goto(w, "findExisting") /\ ReleaseLocks(w) /\ UNCHANGED <<tables, local>>
    <3>1. CommandOK(w)'
      BY <2>1, <2>2 DEF TypeInv, TypeOK, CommandOK, Goto, tables
    <3> QED
      BY <2>1, <2>2, <3>1, GotoType DEF TypeInv, TypeOK, Statements, ReleaseLocks, Free
  <2>3. ASSUME NEW status \in {"APPLIED", "IGNORED_STALE"}, NEW answer,
               CommitReconciliation(e, status), Finish(w, answer)
        PROVE  TypeInv'
    <3>1. TablesTypeOK' /\ reservation' = reservation
      BY <1>0, <2>1, <2>3, CommitReconciliationType
    <3> QED
      BY <2>1, <2>3, <3>1, CommitFinishType
  <2>4. \/ Answer(w, "VersionChanged")
        \/ Goto(w, "findExisting") /\ ReleaseLocks(w) /\ UNCHANGED <<tables, local>>
        \/ /\ CommitReconciliation(e, IF stale THEN "IGNORED_STALE" ELSE "APPLIED")
           /\ \E answer : Finish(w, answer)
    BY <1>8 DEF ApplyEntry, Commit
  <2> QED
    BY <2>1, <2>2, <2>3, <2>4, AnswerType
<1>9. CASE FindExisting(w)
  BY <1>9, AnswerType DEF FindExisting
<1>10. CASE FindProgram(w)
  <2> DEFINE p == request[w].program
  <2>1. pc[w] = "findProgram" /\ request[w].op = "summary" /\ p \in Programs
    BY <1>0, <1>10, RequestKinds DEF FindProgram, TypeInv, CommandOK
  <2>2. ASSUME local' = [local EXCEPT ![w].total = total[p]],
               Goto(w, "sumForSummary"), UNCHANGED <<tables, locks>>
        PROVE  TypeInv'
    <3>1. total[p] \in Nat
      BY <1>0, <2>1 DEF TablesTypeOK
    <3>2. CommandOK(w)'
      BY <2>1, <2>2 DEF TypeInv, TypeOK, CommandOK, Goto, tables
    <3> QED
      BY <2>1, <2>2, <3>1, <3>2, GotoType DEF TypeInv, TypeOK, Statements
  <2> QED
    BY <1>10, <2>1, <2>2, AnswerType DEF FindProgram
<1>11. CASE SumForSummary(w)
  BY <1>11, AnswerType DEF SumForSummary
<1>12. CASE Return(w)
  BY <1>12 DEF Return, TypeInv, TypeOK, TablesTypeOK, CommandOK, tables, programVars,
     Statements, NoRequest
<1> QED
  BY <1>1, <1>2, <1>3, <1>4, <1>5, <1>6, <1>7, <1>8, <1>9, <1>10, <1>11, <1>12
     DEF PlainStep

\* The single-statement operations preserve the types.
LEMMA TableStepType ==
  ASSUME TypeInv,
         \/ \E p \in Programs : DeleteProgram(p) \/ \E t \in Totals : CreateProgram(p, t)
         \/ \E i \in Invoices : CreateInvoice(i)
  PROVE  TypeInv'
<1>1. /\ TablesTypeOK'
      /\ reservation' = reservation
      /\ UNCHANGED <<pc, request, local, reply, locks>>
  <2> USE DEF TypeInv, TypeOK, TablesTypeOK, programVars
  <2>1. ASSUME NEW p \in Programs, DeleteProgram(p) PROVE <1>1
    BY <2>1 DEF DeleteProgram, CommitDelete
  <2>2. ASSUME NEW p \in Programs, NEW t \in Totals, CreateProgram(p, t) PROVE <1>1
    <3>1. t \in Nat
      BY TablesAssumption
    <3> QED
      BY <2>2, <3>1 DEF CreateProgram, CommitProgram
  <2>3. ASSUME NEW i \in Invoices, CreateInvoice(i) PROVE <1>1
    BY <2>3 DEF CreateInvoice, CommitInvoice
  <2> QED
    BY <2>1, <2>2, <2>3
<1>2. TypeOK'
  BY <1>1 DEF TypeInv, TypeOK, locks
<1>3. ASSUME NEW v \in Workers PROVE CommandOK(v)'
  BY <1>1 DEF TypeInv, CommandOK
<1> QED
  BY <1>2, <1>3 DEF TypeInv

\* A new command starts with a well-formed request.
LEMMA StartType ==
  ASSUME TypeInv, NEW w \in Workers, NEW q \in Requests, Start(w, q)
  PROVE  TypeInv'
<1>1. FirstStatement(q.op) \in {"findInvoice", "findReservation", "findInboxEvent",
                                "findProgram"}
  BY RequestKinds DEF FirstStatement
<1>2. TypeOK'
  BY <1>1 DEF TypeInv, TypeOK, TablesTypeOK, Start, tables, programVars, locks, Statements
<1>3. CommandOK(w)'
  BY <1>1, RequestKinds DEF TypeInv, TypeOK, CommandOK, Start, FirstStatement
<1>4. ASSUME NEW v \in Workers, v # w PROVE CommandOK(v)'
  BY <1>4 DEF TypeInv, TypeOK, CommandOK, Start, tables
<1> QED
  BY <1>2, <1>3, <1>4 DEF TypeInv

\* Every step preserves the type invariant.
LEMMA TypeNext == TypeInv /\ [Next]_vars => TypeInv'
<1> SUFFICES ASSUME TypeInv, [Next]_vars PROVE TypeInv'
  OBVIOUS
<1>1. ASSUME NEW w \in Workers, Abort(w) PROVE TypeInv'
  BY <1>1, AnswerType DEF Abort
<1>2. CASE UNCHANGED vars
  BY <1>2 DEF vars, tables, programVars, locks, TypeInv, TypeOK, TablesTypeOK, CommandOK
<1> QED
  BY <1>1, <1>2, StartType, LockType, PlainType, TableStepType DEF Next

\* Type correctness of the service: rows, statements, requests, local reads
\* and lock holders keep their types in every reachable state.
THEOREM TypeCorrect == Spec => []TypeOK
<1>1. TypeInv => TypeOK
  BY DEF TypeInv
<1> QED
  BY <1>1, TypeInit, TypeNext, PTL DEF Spec

-----------------------------------------------------------------------------
(* Row locks: who holds which *)

\* w holds exactly the row locks its statement says it holds.
LockOK(w) ==
  /\ \A p \in Programs :
       programLock[p] = w <=> pc[w] \in UnderProgramLock /\ ProgramOf(w) = p
  /\ \A r \in ReservationIds :
       reservationLock[r] = w <=>
         /\ pc[w] \in {"lockInvoice", "insertRelease"}
         /\ Op(w) = "release"
         /\ request[w].reservation = r
  /\ \A i \in Invoices :
       invoiceLock[i] = w <=> pc[w] \in UnderInvoiceLock /\ InvoiceOf(w) = i

LocksOK == \A w \in Workers : LockOK(w)

\* The program, invoice and reservation a worker's statement names exist in
\* the model.
LEMMA ArgumentTypes ==
  ASSUME TypeInv, NEW w \in Workers
  PROVE  /\ pc[w] \in UnderProgramLock \cup {"lockProgram"} => ProgramOf(w) \in Programs
         /\ pc[w] \in UnderInvoiceLock \cup {"lockInvoice"} => InvoiceOf(w) \in Invoices
<1>1. pc[w] # "idle" => request[w] \in Requests
  BY DEF TypeInv, CommandOK
<1>2. request[w].op = "release" /\ pc[w] \in {"lockProgram", "lockReservation",
        "lockInvoice", "insertRelease"} =>
        local[w].row.program \in Programs /\ local[w].row.invoice \in Invoices
  BY DEF TypeInv, CommandOK, ReservationRow
<1> QED
  BY <1>1, <1>2, RequestKinds, TablesAssumption
     DEF TypeInv, CommandOK, ProgramOf, InvoiceOf, Op, UnderProgramLock, UnderInvoiceLock

\* A worker whose own variables and locks do not change keeps LockOK.
LEMMA OtherLocks ==
  ASSUME NEW v \in Workers, LockOK(v),
         pc'[v] = pc[v], request'[v] = request[v], local'[v] = local[v],
         \A p \in Programs : programLock'[p] = v <=> programLock[p] = v,
         \A r \in ReservationIds : reservationLock'[r] = v <=> reservationLock[r] = v,
         \A i \in Invoices : invoiceLock'[i] = v <=> invoiceLock[i] = v
  PROVE  LockOK(v)'
BY DEF LockOK, ProgramOf, InvoiceOf, Op

\* Finishing a command frees the worker's locks and nobody else's.
LEMMA FinishLocks ==
  ASSUME TypeInv, LocksOK, NEW w \in Workers, NEW answer, pc[w] # "idle",
         Finish(w, answer)
  PROVE  LocksOK'
<1>1. /\ \A p \in Programs : programLock'[p] =
           IF programLock[p] = w THEN NoWorker ELSE programLock[p]
      /\ \A r \in ReservationIds : reservationLock'[r] =
           IF reservationLock[r] = w THEN NoWorker ELSE reservationLock[r]
      /\ \A i \in Invoices : invoiceLock'[i] =
           IF invoiceLock[i] = w THEN NoWorker ELSE invoiceLock[i]
  BY DEF Finish, ReleaseLocks, Free, TypeInv, TypeOK
<1>2. pc'[w] = "replied" /\ request' = request
      /\ \A v \in Workers : v # w => pc'[v] = pc[v] /\ local'[v] = local[v]
  BY FinishType
<1>3. LockOK(w)'
  BY <1>1, <1>2, WorkersAssumption DEF LockOK, UnderProgramLock, UnderInvoiceLock
<1>4. ASSUME NEW v \in Workers, v # w PROVE LockOK(v)'
  BY <1>1, <1>2, <1>4, WorkersAssumption, OtherLocks DEF LocksOK
<1> QED
  BY <1>3, <1>4 DEF LocksOK

\* A statement that takes and frees no lock.
LEMMA GotoLocks ==
  ASSUME TypeInv, LocksOK, NEW w \in Workers, NEW statement,
         Goto(w, statement), UNCHANGED locks,
         local' \in [Workers -> [total: Nat, version: Nat, usd: Nat,
                           row: ReservationRow \cup {NoReservation}]],
         \A v \in Workers : v # w => local'[v] = local[v],
         \/ /\ pc[w] \notin UnderProgramLock /\ statement \notin UnderProgramLock
         \/ /\ pc[w] = "sumActive" /\ statement = "insertReservation"
            /\ local'[w] = local[w]
  PROVE  LocksOK'
<1>1. pc'[w] = statement /\ request' = request /\ \A v \in Workers : v # w => pc'[v] = pc[v]
  BY DEF Goto, TypeInv, TypeOK
<1>2. LockOK(w)'
  BY <1>1 DEF LocksOK, LockOK, UnderProgramLock, UnderInvoiceLock, locks, ProgramOf,
     InvoiceOf, Op, TypeInv, CommandOK
<1>3. ASSUME NEW v \in Workers, v # w PROVE LockOK(v)'
  BY <1>1, <1>3, OtherLocks DEF LocksOK, locks
<1> QED
  BY <1>2, <1>3 DEF LocksOK

\* Taking a row lock.
LEMMA LockLocks ==
  ASSUME TypeInv, LocksOK, NEW w \in Workers, LockStep(w)
  PROVE  LocksOK'
<1>1. CASE LockProgram(w)
  <2> DEFINE p == ProgramOf(w)
  <2>1. /\ pc[w] = "lockProgram" /\ p \in Programs /\ programLock[p] = NoWorker
        /\ request[w].op \in {"reserve", "release", "reconcile"}
    BY <1>1, ArgumentTypes DEF LockProgram, TypeInv, CommandOK
  <2>2. CASE programState[p] = "LIVE"
    <3>1. /\ programLock' = [programLock EXCEPT ![p] = w]
          /\ local' = [local EXCEPT ![w].total = total[p], ![w].version = version[p]]
          /\ Goto(w, AfterProgramLock(Op(w)))
          /\ UNCHANGED <<tables, reservationLock, invoiceLock>>
      BY <1>1, <2>2 DEF LockProgram
    <3>2. /\ pc'[w] = AfterProgramLock(Op(w)) /\ request' = request
          /\ local'[w].row = local[w].row
          /\ \A v \in Workers : v # w => pc'[v] = pc[v] /\ local'[v] = local[v]
          /\ \A q \in Programs : programLock'[q] = IF q = p THEN w ELSE programLock[q]
      BY <2>1, <3>1 DEF Goto, TypeInv, TypeOK
    <3>3. AfterProgramLock(Op(w)) =
            CASE Op(w) = "reserve" -> "lockInvoice"
              [] Op(w) = "release" -> "lockReservation"
              [] Op(w) = "reconcile" -> "applyEntry"
      BY DEF AfterProgramLock
    <3>4. ProgramOf(w)' = p
      BY <3>2 DEF ProgramOf, Op
    <3> HIDE DEF p
    <3>5. LockOK(w)'
      BY <2>1, <3>1, <3>2, <3>3, <3>4 DEF LocksOK, LockOK, UnderProgramLock,
         UnderInvoiceLock, Op
    <3>6. ASSUME NEW v \in Workers, v # w PROVE LockOK(v)'
      <4>1. \A q \in Programs : programLock'[q] = v <=> programLock[q] = v
        BY <2>1, <3>2, <3>6, WorkersAssumption
      <4>2. /\ pc'[v] = pc[v] /\ request'[v] = request[v] /\ local'[v] = local[v]
            /\ reservationLock' = reservationLock /\ invoiceLock' = invoiceLock
            /\ LockOK(v)
        BY <3>1, <3>2, <3>6 DEF LocksOK
      <4> QED
        BY <4>1, <4>2, OtherLocks
    <3> QED
      BY <3>5, <3>6 DEF LocksOK
  <2>3. CASE programState[p] # "LIVE"
    BY <1>1, <2>1, <2>3, FinishLocks DEF LockProgram, Answer
  <2> QED
    BY <2>2, <2>3
<1>2. CASE LockReservation(w)
  <2> DEFINE r == request[w].reservation
  <2>1. /\ pc[w] = "lockReservation" /\ reservationLock[r] = NoWorker
        /\ request[w] \in Requests /\ request[w].op = "release"
        /\ reservation[r].program = local[w].row.program
    BY <1>2 DEF LockReservation, TypeInv, CommandOK
  <2>2. r \in ReservationIds
    BY <2>1, RequestKinds
  <2>3. CASE reservation[r].status = "ACTIVE"
    <3>1. /\ reservationLock' = [reservationLock EXCEPT ![r] = w]
          /\ local' = [local EXCEPT ![w].row = reservation[r]]
          /\ Goto(w, "lockInvoice")
          /\ UNCHANGED <<tables, programLock, invoiceLock>>
      BY <1>2, <2>3 DEF LockReservation
    <3>2. /\ pc'[w] = "lockInvoice" /\ request' = request
          /\ local'[w].row = reservation[r]
          /\ \A v \in Workers : v # w => pc'[v] = pc[v] /\ local'[v] = local[v]
          /\ \A q \in ReservationIds :
               reservationLock'[q] = IF q = r THEN w ELSE reservationLock[q]
      BY <2>2, <3>1 DEF Goto, TypeInv, TypeOK
    <3>3. ProgramOf(w)' = ProgramOf(w)
      BY <2>1, <3>2 DEF ProgramOf, Op
    <3>4. LockOK(w)'
      BY <2>1, <3>1, <3>2, <3>3 DEF LocksOK, LockOK, UnderProgramLock, UnderInvoiceLock, Op
    <3>5. ASSUME NEW v \in Workers, v # w PROVE LockOK(v)'
      <4>1. \A q \in ReservationIds : reservationLock'[q] = v <=> reservationLock[q] = v
        BY <2>1, <3>2, <3>5, WorkersAssumption
      <4>2. /\ pc'[v] = pc[v] /\ request'[v] = request[v] /\ local'[v] = local[v]
            /\ programLock' = programLock /\ invoiceLock' = invoiceLock
            /\ LockOK(v)
        BY <3>1, <3>2, <3>5 DEF LocksOK
      <4> QED
        BY <4>1, <4>2, OtherLocks
    <3> QED
      BY <3>4, <3>5 DEF LocksOK
  <2>4. CASE reservation[r].status # "ACTIVE"
    BY <1>2, <2>1, <2>4, FinishLocks DEF LockReservation, Answer
  <2> QED
    BY <2>3, <2>4
<1>3. CASE LockInvoice(w)
  <2> DEFINE i == InvoiceOf(w)
             required == IF Op(w) = "reserve" THEN "OPEN" ELSE "RESERVED"
             next == IF Op(w) = "reserve" THEN "sumActive" ELSE "insertRelease"
  <2>1. /\ pc[w] = "lockInvoice" /\ i \in Invoices /\ invoiceLock[i] = NoWorker
        /\ request[w].op \in {"reserve", "release"}
    BY <1>3, ArgumentTypes DEF LockInvoice, TypeInv, CommandOK
  <2>2. CASE invoice[i] = required
    <3>1. /\ invoiceLock' = [invoiceLock EXCEPT ![i] = w]
          /\ Goto(w, next)
          /\ UNCHANGED <<tables, local, programLock, reservationLock>>
      BY <1>3, <2>2 DEF LockInvoice
    <3>2. /\ pc'[w] = next /\ request' = request /\ local' = local
          /\ \A v \in Workers : v # w => pc'[v] = pc[v]
          /\ \A j \in Invoices : invoiceLock'[j] = IF j = i THEN w ELSE invoiceLock[j]
      BY <2>1, <3>1 DEF Goto, TypeInv, TypeOK
    <3>3. ProgramOf(w)' = ProgramOf(w) /\ InvoiceOf(w)' = i
      BY <3>2 DEF ProgramOf, InvoiceOf, Op
    <3> HIDE DEF i
    <3>4. LockOK(w)'
      BY <2>1, <3>1, <3>2, <3>3 DEF LocksOK, LockOK, UnderProgramLock, UnderInvoiceLock, Op
    <3>5. ASSUME NEW v \in Workers, v # w PROVE LockOK(v)'
      BY <2>1, <3>1, <3>2, <3>5, WorkersAssumption, OtherLocks DEF LocksOK
    <3> QED
      BY <3>4, <3>5 DEF LocksOK
  <2>3. CASE invoice[i] # required
    <3>1. Answer(w, IF Op(w) = "reserve" THEN "InvoiceNotReservable"
                                         ELSE "InvoiceNotReleasable")
      BY <1>3, <2>3 DEF LockInvoice
    <3> QED
      BY <2>1, <3>1, FinishLocks DEF Answer
  <2> QED
    BY <2>2, <2>3
<1> QED
  BY <1>1, <1>2, <1>3 DEF LockStep

\* A statement that takes no lock: it reads, writes and commits, or throws.
LEMMA PlainLocks ==
  ASSUME TypeInv, LocksOK, NEW w \in Workers, PlainStep(w)
  PROVE  LocksOK'
<1>1. CASE \/ FindInvoice(w) \/ ConvertToUsd(w) \/ FindReservation(w)
          \/ FindInboxEvent(w) \/ FindProgram(w)
  <2>1. pc[w] \in {"findInvoice", "convertToUsd", "findReservation", "findInboxEvent",
                  "findProgram"}
    BY <1>1 DEF FindInvoice, ConvertToUsd, FindReservation, FindInboxEvent, FindProgram
  <2>2. \/ \E answer : Finish(w, answer)
        \/ \E statement \in {"convertToUsd", "lockProgram", "sumForSummary"} :
             /\ Goto(w, statement)
             /\ UNCHANGED locks
             /\ \A v \in Workers : v # w => local'[v] = local[v]
    BY <1>1 DEF FindInvoice, ConvertToUsd, FindReservation, FindInboxEvent, FindProgram,
       Answer, TypeInv, TypeOK
  <2>3. TypeInv'
    BY PlainType
  <2>4. local' \in [Workers -> [total: Nat, version: Nat, usd: Nat,
                                row: ReservationRow \cup {NoReservation}]]
    BY <2>3 DEF TypeInv, TypeOK
  <2> QED
    BY <2>1, <2>2, <2>4, FinishLocks, GotoLocks DEF UnderProgramLock
<1>2. CASE SumActive(w)
  <2>1. pc[w] = "sumActive"
    BY <1>2 DEF SumActive
  <2>2. \/ \E answer : Finish(w, answer)
        \/ Goto(w, "insertReservation") /\ UNCHANGED <<local, locks>>
    BY <1>2 DEF SumActive, Answer
  <2>3. local' = local => local' \in [Workers -> [total: Nat, version: Nat, usd: Nat,
                                row: ReservationRow \cup {NoReservation}]]
    BY DEF TypeInv, TypeOK
  <2> QED
    BY <2>1, <2>2, <2>3, FinishLocks, GotoLocks
<1>3. CASE InsertReservation(w) \/ InsertRelease(w) \/ FindExisting(w) \/ SumForSummary(w)
  BY <1>3, FinishLocks DEF InsertReservation, InsertRelease, FindExisting, SumForSummary,
     Answer, Commit
<1>4. CASE ApplyEntry(w)
  <2>1. pc[w] = "applyEntry"
    BY <1>4 DEF ApplyEntry
  <2>2. \/ \E answer : Finish(w, answer)
        \/ Goto(w, "findExisting") /\ ReleaseLocks(w) /\ local' = local
    BY <1>4 DEF ApplyEntry, Answer, Commit
  <2>3. CASE Goto(w, "findExisting") /\ ReleaseLocks(w) /\ local' = local
    <3>1. /\ \A p \in Programs : programLock'[p] =
               IF programLock[p] = w THEN NoWorker ELSE programLock[p]
          /\ \A r \in ReservationIds : reservationLock'[r] =
               IF reservationLock[r] = w THEN NoWorker ELSE reservationLock[r]
          /\ \A i \in Invoices : invoiceLock'[i] =
               IF invoiceLock[i] = w THEN NoWorker ELSE invoiceLock[i]
      BY <2>3 DEF ReleaseLocks, Free, TypeInv, TypeOK
    <3>2. pc'[w] = "findExisting" /\ request' = request
          /\ \A v \in Workers : v # w => pc'[v] = pc[v]
      BY <2>3 DEF Goto, TypeInv, TypeOK
    <3>3. LockOK(w)'
      BY <3>1, <3>2, WorkersAssumption DEF LockOK, UnderProgramLock, UnderInvoiceLock
    <3>4. ASSUME NEW v \in Workers, v # w PROVE LockOK(v)'
      BY <2>3, <3>1, <3>2, <3>4, WorkersAssumption, OtherLocks DEF LocksOK
    <3> QED
      BY <3>3, <3>4 DEF LocksOK
  <2> QED
    BY <2>1, <2>2, <2>3, FinishLocks
<1>5. CASE Return(w)
  <2>1. /\ pc[w] = "replied" /\ pc'[w] = "idle" /\ UNCHANGED <<local, locks>>
        /\ \A v \in Workers : v # w => pc'[v] = pc[v] /\ request'[v] = request[v]
    BY <1>5 DEF Return, TypeInv, TypeOK
  <2>2. LockOK(w)'
    BY <2>1 DEF LocksOK, LockOK, locks, UnderProgramLock, UnderInvoiceLock
  <2>3. ASSUME NEW v \in Workers, v # w PROVE LockOK(v)'
    BY <2>1, <2>3, OtherLocks DEF LocksOK, locks
  <2> QED
    BY <2>2, <2>3 DEF LocksOK
<1> QED
  BY <1>1, <1>2, <1>3, <1>4, <1>5 DEF PlainStep

\* A new command holds no lock.
LEMMA StartLocks ==
  ASSUME TypeInv, LocksOK, NEW w \in Workers, NEW q \in Requests, Start(w, q)
  PROVE  LocksOK'
<1>1. FirstStatement(q.op) \in {"findInvoice", "findReservation", "findInboxEvent",
                                "findProgram"}
  BY RequestKinds DEF FirstStatement
<1>2. /\ pc[w] = "idle" /\ pc'[w] = FirstStatement(q.op) /\ UNCHANGED <<local, locks>>
      /\ \A v \in Workers : v # w => pc'[v] = pc[v] /\ request'[v] = request[v]
  BY DEF Start, TypeInv, TypeOK
<1>3. LockOK(w)'
  BY <1>1, <1>2 DEF LocksOK, LockOK, locks, UnderProgramLock, UnderInvoiceLock
<1>4. ASSUME NEW v \in Workers, v # w PROVE LockOK(v)'
  BY <1>2, <1>4, OtherLocks DEF LocksOK, locks
<1> QED
  BY <1>3, <1>4 DEF LocksOK

\* No worker holds a lock initially.
LEMMA LocksInit == Init => LocksOK
BY WorkersAssumption DEF Init, LocksOK, LockOK, UnderProgramLock, UnderInvoiceLock

\* Every step keeps the locks with the statements that hold them.
LEMMA LocksNext == TypeInv /\ LocksOK /\ [Next]_vars => LocksOK'
<1> SUFFICES ASSUME TypeInv, LocksOK, [Next]_vars PROVE LocksOK'
  OBVIOUS
<1>1. ASSUME NEW w \in Workers, Abort(w) PROVE LocksOK'
  BY <1>1, FinishLocks DEF Abort, Answer
<1>2. ASSUME UNCHANGED <<pc, request, local, reply, locks>> PROVE LocksOK'
  BY <1>2, OtherLocks DEF LocksOK, locks
<1>3. ASSUME \/ \E p \in Programs : DeleteProgram(p) \/ \E t \in Totals : CreateProgram(p, t)
             \/ \E i \in Invoices : CreateInvoice(i)
      PROVE LocksOK'
  BY <1>2, <1>3 DEF DeleteProgram, CreateProgram, CreateInvoice
<1>4. CASE UNCHANGED vars
  BY <1>2, <1>4 DEF vars
<1> QED
  BY <1>1, <1>3, <1>4, StartLocks, LockLocks, PlainLocks DEF Next

-----------------------------------------------------------------------------
(* What each transaction has read *)

\* LockedReadsCurrent for one worker.
ReadsOK(w) ==
  LET p == ProgramOf(w)
      i == InvoiceOf(w)
      r == request[w].reservation
  IN
  /\ pc[w] \in UnderProgramLock =>
       /\ programState[p] = "LIVE"
       /\ local[w].total = total[p]
       /\ local[w].version = version[p]
  /\ pc[w] \in UnderInvoiceLock =>
       invoice[i] = IF Op(w) = "reserve" THEN "OPEN" ELSE "RESERVED"
  /\ pc[w] \in UnderProgramLock \ {"lockReservation"} /\ Op(w) = "release" =>
       reservation[r] = local[w].row /\ local[w].row.status = "ACTIVE"
  /\ pc[w] = "insertReservation" => Reserved(p) + local[w].usd <= total[p]

\* The inductive invariant.
ServiceInv == TypeInv /\ LocksOK /\ \A w \in Workers : ReadsOK(w)

-----------------------------------------------------------------------------
(* Reserved capacity and the reservations table *)

\* Active amounts are naturals, and so is their sum.
LEMMA ReservedType ==
  ASSUME TypeInv, NEW p \in Programs
  PROVE  /\ ActiveUsd(p) \in [1..MaxReservations -> Nat]
         /\ Reserved(p) \in Nat
<1>1. ActiveUsd(p) \in [1..MaxReservations -> Nat]
  BY DEF ActiveUsd, TypeInv, TypeOK, TablesTypeOK, ReservationIds, ReservationRow,
     NoReservation
<1> QED
  BY <1>1, SumRowsType, TablesAssumption DEF Reserved

\* Writing one reservation row moves reserved capacity by that row's change.
LEMMA ReservedOneRow ==
  ASSUME TypeInv, TypeInv', NEW p \in Programs, NEW r \in ReservationIds,
         \A q \in ReservationIds : q # r => reservation'[q] = reservation[q]
  PROVE  Reserved(p)' = (Reserved(p) - ActiveUsd(p)[r]) + ActiveUsd(p)'[r]
<1>1. ActiveUsd(p) \in [1..MaxReservations -> Nat]
  BY ReservedType
<1>2. ActiveUsd(p)' \in [1..MaxReservations -> Nat]
  BY DEF ActiveUsd, TypeInv, TypeOK, TablesTypeOK, ReservationIds, ReservationRow,
     NoReservation
<1>3. \A q \in 1..MaxReservations : q # r => ActiveUsd(p)'[q] = ActiveUsd(p)[q]
  BY DEF ActiveUsd, ReservationIds
<1>4. r \in 1..MaxReservations
  BY DEF ReservationIds
<1> QED
  BY <1>1, <1>2, <1>3, <1>4, SumRowsUpdate, TablesAssumption DEF Reserved

\* Reserved capacity is a function of the reservations table.
LEMMA ReservedUnchanged ==
  ASSUME NEW p, reservation' = reservation
  PROVE  Reserved(p)' = Reserved(p)
BY DEF Reserved, ActiveUsd

\* Inserting a reservation raises its own program's reserved capacity by its
\* amount, and no other program's.
LEMMA ReservedInsert ==
  ASSUME TypeInv, TypeInv', NEW p \in Programs, NEW i \in Invoices, NEW usd \in Nat,
         NEW r \in ReservationIds, IsNextRow(r), CommitReservation(r, p, i, usd)
  PROVE  /\ Reserved(p)' = Reserved(p) + usd
         /\ \A o \in Programs : o # p => Reserved(o)' = Reserved(o)
<1>1. /\ \A q \in ReservationIds : q # r => reservation'[q] = reservation[q]
      /\ reservation'[r] = [status |-> "ACTIVE", program |-> p, invoice |-> i,
                            usd |-> usd]
      /\ reservation[r].status = "NONE"
  BY DEF CommitReservation, IsNextRow, NoReservation, TypeInv, TypeOK, TablesTypeOK
<1>2. ASSUME NEW o \in Programs
      PROVE  /\ Reserved(o) \in Nat
             /\ Reserved(o)' = Reserved(o) + (IF o = p THEN usd ELSE 0)
  <2>1. ActiveUsd(o)[r] = 0 /\ ActiveUsd(o)'[r] = IF o = p THEN usd ELSE 0
    BY <1>1 DEF ActiveUsd
  <2> QED
    BY <1>1, <2>1, ReservedOneRow, ReservedType
<1> QED
  BY <1>2

\* Releasing a reservation never raises a program's reserved capacity, and
\* leaves every other program's alone.
LEMMA ReservedRelease ==
  ASSUME TypeInv, TypeInv', NEW r \in ReservationIds,
         reservation[r] \in ReservationRow, CommitRelease(r, reservation[r])
  PROVE  \A o \in Programs :
           /\ Reserved(o)' \in Int
           /\ Reserved(o)' <= Reserved(o)
           /\ o # reservation[r].program => Reserved(o)' = Reserved(o)
<1>1. /\ \A q \in ReservationIds : q # r => reservation'[q] = reservation[q]
      /\ reservation'[r].status = "RELEASED"
  BY DEF CommitRelease, TypeInv, TypeOK, TablesTypeOK, ReservationRow
<1>2. ASSUME NEW o \in Programs
      PROVE  /\ Reserved(o)' \in Int
             /\ Reserved(o)' <= Reserved(o)
             /\ o # reservation[r].program => Reserved(o)' = Reserved(o)
  <2>1. /\ ActiveUsd(o)[r] \in Nat /\ ActiveUsd(o)'[r] = 0
        /\ o # reservation[r].program => ActiveUsd(o)[r] = 0
    BY <1>1 DEF ActiveUsd, ReservationRow
  <2>2. Reserved(o) \in Nat /\ Reserved(o)' = (Reserved(o) - ActiveUsd(o)[r]) + ActiveUsd(o)'[r]
    BY <1>1, ReservedOneRow, ReservedType
  <2> QED
    BY <2>1, <2>2
<1> QED
  BY <1>2

-----------------------------------------------------------------------------
(* What a transaction read stays current *)

\* A worker that does not move keeps its reads current when its locked rows
\* do not change.
LEMMA OtherReads ==
  ASSUME TypeInv, NEW v \in Workers, ReadsOK(v),
         pc'[v] = pc[v], request'[v] = request[v], local'[v] = local[v],
         pc[v] \in UnderProgramLock =>
           /\ programState'[ProgramOf(v)] = programState[ProgramOf(v)]
           /\ total'[ProgramOf(v)] = total[ProgramOf(v)]
           /\ version'[ProgramOf(v)] = version[ProgramOf(v)]
           /\ pc[v] = "insertReservation" => Reserved(ProgramOf(v))' = Reserved(ProgramOf(v)),
         pc[v] \in UnderInvoiceLock => invoice'[InvoiceOf(v)] = invoice[InvoiceOf(v)],
         pc[v] \in {"lockInvoice", "insertRelease"} /\ Op(v) = "release" =>
           reservation'[request[v].reservation] = reservation[request[v].reservation]
  PROVE  ReadsOK(v)'
<1>1. ProgramOf(v)' = ProgramOf(v) /\ InvoiceOf(v)' = InvoiceOf(v) /\ Op(v)' = Op(v)
  BY DEF ProgramOf, InvoiceOf, Op
<1>2. pc[v] = "insertReservation" => pc[v] \in UnderProgramLock
  BY DEF UnderProgramLock
<1>3. pc[v] = "insertReservation" => (Reserved(ProgramOf(v)))' = Reserved(ProgramOf(v))
  BY <1>2
<1>4. pc[v] \in UnderProgramLock \ {"lockReservation"} /\ Op(v) = "release" =>
        pc[v] \in {"lockInvoice", "insertRelease"}
  BY DEF UnderProgramLock, TypeInv, CommandOK, Op
<1> QED
  BY <1>1, <1>2, <1>3, <1>4 DEF ReadsOK

\* A worker that changes no table leaves everyone else's reads current.
LEMMA QuietReads ==
  ASSUME ServiceInv, NEW v \in Workers,
         pc'[v] = pc[v], request'[v] = request[v], local'[v] = local[v],
         UNCHANGED tables
  PROVE  ReadsOK(v)'
<1>1. pc[v] = "insertReservation" => (Reserved(ProgramOf(v)))' = Reserved(ProgramOf(v))
  BY DEF ProgramOf, Op, tables, Reserved, ActiveUsd
<1> QED
  BY <1>1, OtherReads DEF ServiceInv, tables, programVars

\* An answered command has no reads to keep current.
LEMMA AnsweredReads ==
  ASSUME TypeInv, NEW w \in Workers, NEW answer, pc[w] # "idle", Finish(w, answer)
  PROVE  /\ ReadsOK(w)'
         /\ \A v \in Workers : v # w =>
              pc'[v] = pc[v] /\ request'[v] = request[v] /\ local'[v] = local[v]
BY FinishType DEF ReadsOK, UnderProgramLock, UnderInvoiceLock

\* A command that ends without writing.
LEMMA AnswerReads ==
  ASSUME ServiceInv, NEW w \in Workers, NEW answer, pc[w] # "idle", Answer(w, answer)
  PROVE  \A v \in Workers : ReadsOK(v)'
BY AnsweredReads, QuietReads DEF Answer, ServiceInv

\* Each row lock has one holder, so workers under locks work on different
\* programs, and on different invoices.
LEMMA LocksExclusive ==
  ASSUME ServiceInv, NEW v \in Workers, NEW w \in Workers, v # w
  PROVE  /\ pc[v] \in UnderProgramLock /\ pc[w] \in UnderProgramLock =>
              ProgramOf(v) # ProgramOf(w)
         /\ pc[v] \in UnderInvoiceLock /\ pc[w] \in UnderInvoiceLock =>
              InvoiceOf(v) # InvoiceOf(w)
         /\ /\ pc[v] \in {"lockInvoice", "insertRelease"} /\ Op(v) = "release"
            /\ pc[w] \in {"lockInvoice", "insertRelease"} /\ Op(w) = "release"
            => request[v].reservation # request[w].reservation
<1>1. TypeInv /\ LockOK(v) /\ LockOK(w)
  BY DEF ServiceInv, LocksOK
<1>2. pc[v] # "idle" => request[v] \in Requests
  BY <1>1 DEF TypeInv, CommandOK
<1> QED
  BY <1>1, <1>2, ArgumentTypes, RequestKinds DEF LockOK, Op

-----------------------------------------------------------------------------
(* One lemma per kind of step *)

\* A row lock taken reads the row it locks, and keeps the rows locked before.
LEMMA LockReads ==
  ASSUME ServiceInv, NEW w \in Workers, LockStep(w)
  PROVE  \A v \in Workers : ReadsOK(v)'
<1> USE DEF ServiceInv
<1>1. CASE LockProgram(w)
  <2>1. /\ pc[w] = "lockProgram" /\ ProgramOf(w) \in Programs
        /\ Op(w) \in {"reserve", "release", "reconcile"}
    BY <1>1, ArgumentTypes DEF LockProgram, TypeInv, CommandOK, Op
  <2>2. CASE programState[ProgramOf(w)] = "LIVE"
    <3>1. /\ local' = [local EXCEPT ![w].total = total[ProgramOf(w)],
                                    ![w].version = version[ProgramOf(w)]]
          /\ Goto(w, AfterProgramLock(Op(w)))
          /\ UNCHANGED tables
      BY <1>1, <2>2 DEF LockProgram
    <3>2. /\ local'[w].row = local[w].row
          /\ local'[w].total = total[ProgramOf(w)]
          /\ local'[w].version = version[ProgramOf(w)]
          /\ request' = request
          /\ pc'[w] = AfterProgramLock(Op(w))
          /\ \A v \in Workers : v # w => pc'[v] = pc[v] /\ local'[v] = local[v]
      BY <3>1 DEF Goto, TypeInv, TypeOK
    <3>3. ProgramOf(w)' = ProgramOf(w) /\ Op(w)' = Op(w)
      BY <3>2 DEF ProgramOf, Op
    <3>4. /\ pc'[w] \notin UnderInvoiceLock
          /\ pc'[w] # "insertReservation"
          /\ Op(w) = "release" => pc'[w] = "lockReservation"
      BY <2>1, <3>2 DEF AfterProgramLock, UnderInvoiceLock
    <3>5. ReadsOK(w)'
      BY <2>2, <3>1, <3>2, <3>3, <3>4 DEF ReadsOK, tables, programVars
    <3> QED
      BY <3>1, <3>2, <3>5, QuietReads
  <2>3. CASE programState[ProgramOf(w)] # "LIVE"
    BY <1>1, <2>1, <2>3, AnswerReads DEF LockProgram
  <2> QED
    BY <2>2, <2>3
<1>2. CASE LockReservation(w)
  <2>1. /\ pc[w] = "lockReservation"
        /\ request[w] \in Requests /\ request[w].op = "release"
        /\ reservation[request[w].reservation].program = local[w].row.program
    BY <1>2 DEF LockReservation, TypeInv, CommandOK
  <2>2. CASE reservation[request[w].reservation].status = "ACTIVE"
    <3>1. /\ local' = [local EXCEPT ![w].row = reservation[request[w].reservation]]
          /\ Goto(w, "lockInvoice")
          /\ UNCHANGED tables
      BY <1>2, <2>2 DEF LockReservation
    <3>2. /\ local'[w].row = reservation[request[w].reservation]
          /\ local'[w].total = local[w].total /\ local'[w].version = local[w].version
          /\ request' = request
          /\ pc'[w] = "lockInvoice"
          /\ \A v \in Workers : v # w => pc'[v] = pc[v] /\ local'[v] = local[v]
      BY <3>1 DEF Goto, TypeInv, TypeOK
    <3>3. ProgramOf(w)' = ProgramOf(w)
      BY <2>1, <3>2 DEF ProgramOf, Op
    <3>4. ReadsOK(w)'
      BY <2>1, <2>2, <3>1, <3>2, <3>3 DEF ReadsOK, UnderProgramLock, UnderInvoiceLock,
         tables, programVars
    <3> QED
      BY <3>1, <3>2, <3>4, QuietReads
  <2>3. CASE reservation[request[w].reservation].status # "ACTIVE"
    BY <1>2, <2>1, <2>3, AnswerReads DEF LockReservation
  <2> QED
    BY <2>2, <2>3
<1>3. CASE LockInvoice(w)
  <2> DEFINE required == IF Op(w) = "reserve" THEN "OPEN" ELSE "RESERVED"
             next == IF Op(w) = "reserve" THEN "sumActive" ELSE "insertRelease"
  <2>1. /\ pc[w] = "lockInvoice"
        /\ Op(w) \in {"reserve", "release"}
    BY <1>3 DEF LockInvoice, TypeInv, CommandOK, Op
  <2>2. CASE invoice[InvoiceOf(w)] = required
    <3>1. Goto(w, next) /\ UNCHANGED <<tables, local>>
      BY <1>3, <2>2 DEF LockInvoice
    <3>2. /\ request' = request /\ local' = local
          /\ pc'[w] = next
          /\ \A v \in Workers : v # w => pc'[v] = pc[v]
      BY <3>1 DEF Goto, TypeInv, TypeOK
    <3>3. ProgramOf(w)' = ProgramOf(w) /\ InvoiceOf(w)' = InvoiceOf(w) /\ Op(w)' = Op(w)
      BY <3>2 DEF ProgramOf, InvoiceOf, Op
    <3>4. ReadsOK(w)'
      BY <2>1, <2>2, <3>1, <3>2, <3>3 DEF ReadsOK, UnderProgramLock, UnderInvoiceLock,
         tables, programVars
    <3> QED
      BY <3>1, <3>2, <3>4, QuietReads
  <2>3. CASE invoice[InvoiceOf(w)] # required
    BY <1>3, <2>1, <2>3, AnswerReads DEF LockInvoice
  <2> QED
    BY <2>2, <2>3
<1> QED
  BY <1>1, <1>2, <1>3 DEF LockStep

\* A statement that writes nothing.
LEMMA ReadingReads ==
  ASSUME ServiceInv, NEW w \in Workers,
         \/ FindInvoice(w) \/ ConvertToUsd(w) \/ FindReservation(w)
         \/ FindInboxEvent(w) \/ FindExisting(w) \/ FindProgram(w)
         \/ SumForSummary(w) \/ Return(w)
  PROVE  \A v \in Workers : ReadsOK(v)'
<1> USE DEF ServiceInv
<1>1. CASE \/ FindInvoice(w) \/ ConvertToUsd(w) \/ FindReservation(w)
          \/ FindInboxEvent(w) \/ FindExisting(w) \/ FindProgram(w)
          \/ SumForSummary(w)
  <2>1. /\ pc[w] # "idle"
        /\ \/ \E answer : Answer(w, answer)
           \/ \E statement \in {"convertToUsd", "lockProgram", "sumForSummary"} :
                /\ Goto(w, statement)
                /\ UNCHANGED tables
                /\ \A v \in Workers : v # w => local'[v] = local[v]
    BY <1>1 DEF FindInvoice, ConvertToUsd, FindReservation, FindInboxEvent, FindExisting,
       FindProgram, SumForSummary, TypeInv, TypeOK
  <2>2. ASSUME NEW statement \in {"convertToUsd", "lockProgram", "sumForSummary"},
               Goto(w, statement), UNCHANGED tables,
               \A v \in Workers : v # w => local'[v] = local[v]
        PROVE  \A v \in Workers : ReadsOK(v)'
    <3>1. /\ pc'[w] = statement /\ request' = request
          /\ \A v \in Workers : v # w => pc'[v] = pc[v]
      BY <2>2 DEF Goto, TypeInv, TypeOK
    <3>2. ReadsOK(w)'
      BY <3>1 DEF ReadsOK, UnderProgramLock, UnderInvoiceLock
    <3> QED
      BY <2>2, <3>1, <3>2, QuietReads
  <2> QED
    BY <2>1, <2>2, AnswerReads
<1>2. CASE Return(w)
  <2>1. /\ pc'[w] = "idle" /\ local' = local /\ UNCHANGED tables
        /\ \A v \in Workers : v # w => pc'[v] = pc[v] /\ request'[v] = request[v]
    BY <1>2 DEF Return, TypeInv, TypeOK
  <2>2. ReadsOK(w)'
    BY <2>1 DEF ReadsOK, UnderProgramLock, UnderInvoiceLock
  <2> QED
    BY <2>1, <2>2, QuietReads
<1> QED
  BY <1>1, <1>2

\* The sum leaves room for the amount about to be reserved.
LEMMA SumReads ==
  ASSUME ServiceInv, NEW w \in Workers, SumActive(w)
  PROVE  \A v \in Workers : ReadsOK(v)'
<1> DEFINE p == ProgramOf(w)
<1>1. /\ pc[w] = "sumActive" /\ p \in Programs
      /\ local[w].total \in Nat /\ local[w].usd \in Nat /\ Reserved(p) \in Nat
      /\ local[w].total = total[p]
  BY ReservedType, ArgumentTypes DEF SumActive, ServiceInv, TypeInv, TypeOK, UnderProgramLock,
     ReadsOK
<1> HIDE DEF p
<1>2. CASE \E answer : Answer(w, answer)
  BY <1>1, <1>2, AnswerReads
<1>3. CASE /\ ~ (Reserved(p) > local[w].total)
           /\ ~ (/\ Reserved(p) <= local[w].total
                 /\ local[w].usd > local[w].total - Reserved(p))
           /\ Goto(w, "insertReservation") /\ UNCHANGED <<tables, local, locks>>
  <2>1. /\ pc'[w] = "insertReservation" /\ request' = request /\ local' = local
        /\ \A v \in Workers : v # w => pc'[v] = pc[v]
        /\ UNCHANGED tables
    BY <1>3 DEF Goto, ServiceInv, TypeInv, TypeOK
  <2>2. Reserved(p) + local[w].usd <= total[p]
    BY <1>1, <1>3
  <2>3. ProgramOf(w)' = p /\ InvoiceOf(w)' = InvoiceOf(w) /\ Op(w)' = Op(w)
    BY <2>1 DEF p, ProgramOf, InvoiceOf, Op
  <2>4. ReadsOK(w) /\ Op(w) = "reserve" /\ p = ProgramOf(w)
    BY <1>1 DEF ServiceInv, TypeInv, CommandOK, Op, p
  <2>5. Reserved(ProgramOf(w))' = Reserved(p)
    BY <2>1, <2>3 DEF tables, Reserved, ActiveUsd
  <2>6. ReadsOK(w)'
    BY <1>1, <2>1, <2>2, <2>3, <2>4, <2>5 DEF ReadsOK, UnderProgramLock, UnderInvoiceLock,
       tables, programVars
  <2> QED
    BY <2>1, <2>6, QuietReads
<1> QED
  BY <1>2, <1>3 DEF SumActive, p

\* A reservation is inserted for a program, an invoice and a row that no
\* other transaction has locked.
LEMMA InsertReservationReads ==
  ASSUME ServiceInv, TypeInv', NEW w \in Workers, InsertReservation(w)
  PROVE  \A v \in Workers : ReadsOK(v)'
<1> DEFINE p == request[w].program
           i == request[w].invoice
<1>1. /\ pc[w] = "insertReservation" /\ Op(w) = "reserve"
      /\ ProgramOf(w) = p /\ InvoiceOf(w) = i
      /\ p \in Programs /\ i \in Invoices /\ local[w].usd \in Nat
  BY RequestKinds DEF InsertReservation, ServiceInv, TypeInv, TypeOK, CommandOK, Op,
     ProgramOf, InvoiceOf
<1> HIDE DEF p, i
<1>2. CASE \E answer : Answer(w, answer)
  BY <1>1, <1>2, AnswerReads
<1>3. ASSUME NEW r \in ReservationIds, IsNextRow(r), NEW answer,
             CommitReservation(r, p, i, local[w].usd), Finish(w, answer)
      PROVE  \A v \in Workers : ReadsOK(v)'
  <2>1. /\ UNCHANGED programVars
        /\ \A j \in Invoices : j # i => invoice'[j] = invoice[j]
        /\ \A q \in ReservationIds : q # r => reservation'[q] = reservation[q]
        /\ reservation[r] = NoReservation
    BY <1>1, <1>3 DEF CommitReservation, IsNextRow, ServiceInv, TypeInv, TypeOK, TablesTypeOK
  <2>2. \A o \in Programs : o # p => Reserved(o)' = Reserved(o)
    BY <1>1, <1>3, ReservedInsert DEF ServiceInv
  <2>3. ReadsOK(w)' /\ \A v \in Workers : v # w =>
          pc'[v] = pc[v] /\ request'[v] = request[v] /\ local'[v] = local[v]
    BY <1>1, <1>3, AnsweredReads DEF ServiceInv
  <2>4. ASSUME NEW v \in Workers, v # w PROVE ReadsOK(v)'
    <3>1. /\ TypeInv /\ ReadsOK(v)
          /\ pc'[v] = pc[v] /\ request'[v] = request[v] /\ local'[v] = local[v]
      BY <2>3, <2>4 DEF ServiceInv
    <3>2. ProgramOf(v)' = ProgramOf(v)
      BY <3>1 DEF ProgramOf, Op
    <3>3. pc[v] = "insertReservation" => Reserved(ProgramOf(v))' = Reserved(ProgramOf(v))
      <4> SUFFICES ASSUME pc[v] = "insertReservation"
                   PROVE  Reserved(ProgramOf(v))' = Reserved(ProgramOf(v))
        OBVIOUS
      <4>1. ProgramOf(v) # p /\ ProgramOf(v) \in Programs
        BY <1>1, <2>4, <3>1, LocksExclusive, ArgumentTypes DEF UnderProgramLock
      <4> QED
        BY <2>2, <3>2, <4>1 DEF Reserved, ActiveUsd
    <3>4. pc[v] \in UnderInvoiceLock => invoice'[InvoiceOf(v)] = invoice[InvoiceOf(v)]
      BY <1>1, <2>1, <2>4, <3>1, LocksExclusive, ArgumentTypes DEF UnderInvoiceLock
    <3>5. pc[v] \in {"lockInvoice", "insertRelease"} /\ Op(v) = "release" =>
            reservation'[request[v].reservation] = reservation[request[v].reservation]
      <4>1. NoReservation.status # "ACTIVE"
        BY DEF NoReservation
      <4>2. pc[v] # "idle" => request[v] \in Requests
        BY <3>1 DEF TypeInv, CommandOK
      <4> QED
        BY <2>1, <3>1, <4>1, <4>2, RequestKinds DEF ReadsOK, UnderProgramLock, Op
    <3> QED
      BY <2>1, <3>1, <3>3, <3>4, <3>5, OtherReads DEF programVars
  <2> QED
    BY <2>3, <2>4
<1> QED
  BY <1>2, <1>3 DEF InsertReservation, Commit, p, i

\* A release closes a reservation and an invoice that no other transaction
\* has locked, in a program that no other transaction has locked.
LEMMA InsertReleaseReads ==
  ASSUME ServiceInv, TypeInv', NEW w \in Workers, InsertRelease(w)
  PROVE  \A v \in Workers : ReadsOK(v)'
<1> DEFINE r == request[w].reservation
           row == local[w].row
<1>1. /\ pc[w] = "insertRelease" /\ Op(w) = "release"
      /\ r \in ReservationIds /\ row \in ReservationRow /\ row = reservation[r]
      /\ ProgramOf(w) = row.program /\ InvoiceOf(w) = row.invoice
  BY RequestKinds DEF InsertRelease, ServiceInv, TypeInv, CommandOK, Op, ProgramOf,
     InvoiceOf, ReadsOK, UnderProgramLock
<1>2. \/ \E answer : Answer(w, answer)
      \/ CommitRelease(r, row) /\ \E answer : Finish(w, answer)
  BY DEF InsertRelease, Commit
<1>4. CASE \E answer : Answer(w, answer)
  BY <1>1, <1>4, AnswerReads
<1>5. CASE CommitRelease(r, row) /\ \E answer : Finish(w, answer)
  <2>1. /\ UNCHANGED programVars
        /\ \A j \in Invoices : j # row.invoice => invoice'[j] = invoice[j]
        /\ \A q \in ReservationIds : q # r => reservation'[q] = reservation[q]
    BY <1>1, <1>5 DEF CommitRelease, ServiceInv, TypeInv, TypeOK, TablesTypeOK
  <2>2. \A o \in Programs : o # row.program => Reserved(o)' = Reserved(o)
    BY <1>1, <1>5, ReservedRelease DEF ServiceInv
  <2>3. ReadsOK(w)' /\ \A v \in Workers : v # w =>
          pc'[v] = pc[v] /\ request'[v] = request[v] /\ local'[v] = local[v]
    BY <1>1, <1>5, AnsweredReads DEF ServiceInv
  <2>4. ASSUME NEW v \in Workers, v # w PROVE ReadsOK(v)'
    <3>1. /\ TypeInv /\ ReadsOK(v)
          /\ pc'[v] = pc[v] /\ request'[v] = request[v] /\ local'[v] = local[v]
      BY <2>3, <2>4 DEF ServiceInv
    <3>2. ProgramOf(v)' = ProgramOf(v)
      BY <3>1 DEF ProgramOf, Op
    <3>3. pc[v] = "insertReservation" => Reserved(ProgramOf(v))' = Reserved(ProgramOf(v))
      <4> SUFFICES ASSUME pc[v] = "insertReservation"
                   PROVE  Reserved(ProgramOf(v))' = Reserved(ProgramOf(v))
        OBVIOUS
      <4>1. ProgramOf(v) # row.program /\ ProgramOf(v) \in Programs
        BY <1>1, <2>4, <3>1, LocksExclusive, ArgumentTypes DEF UnderProgramLock
      <4> QED
        BY <2>2, <3>2, <4>1 DEF Reserved, ActiveUsd
    <3>4. pc[v] \in UnderInvoiceLock => invoice'[InvoiceOf(v)] = invoice[InvoiceOf(v)]
      BY <1>1, <2>1, <2>4, <3>1, LocksExclusive, ArgumentTypes DEF UnderInvoiceLock
    <3>5. pc[v] \in {"lockInvoice", "insertRelease"} /\ Op(v) = "release" =>
            reservation'[request[v].reservation] = reservation[request[v].reservation]
      <4>1. pc[v] # "idle" => request[v] \in Requests
        BY <3>1 DEF TypeInv, CommandOK
      <4> QED
        BY <1>1, <2>1, <2>4, <4>1, RequestKinds, LocksExclusive DEF Op
    <3> QED
      BY <2>1, <3>1, <3>3, <3>4, <3>5, OtherReads DEF programVars
  <2> QED
    BY <2>3, <2>4
<1> QED
  BY <1>2, <1>4, <1>5

\* A treasury snapshot is written to a program no other transaction has
\* locked.
LEMMA ApplyEntryReads ==
  ASSUME ServiceInv, NEW w \in Workers, ApplyEntry(w)
  PROVE  \A v \in Workers : ReadsOK(v)'
<1> DEFINE e == request[w].entry
<1>1. /\ pc[w] = "applyEntry" /\ Op(w) = "reconcile"
      /\ ProgramOf(w) = e.program /\ e.program \in Programs
  BY RequestKinds, TablesAssumption DEF ApplyEntry, ServiceInv, TypeInv, CommandOK, Op,
     ProgramOf
<1> HIDE DEF e
<1>2. CASE \E answer : Answer(w, answer)
  BY <1>1, <1>2, AnswerReads
<1>3. CASE Goto(w, "findExisting") /\ UNCHANGED <<tables, local>>
  <2>1. /\ pc'[w] = "findExisting" /\ request' = request
        /\ \A v \in Workers : v # w => pc'[v] = pc[v]
    BY <1>3 DEF Goto, ServiceInv, TypeInv, TypeOK
  <2>2. ReadsOK(w)'
    BY <2>1 DEF ReadsOK, UnderProgramLock, UnderInvoiceLock
  <2> QED
    BY <1>3, <2>1, <2>2, QuietReads
<1>4. ASSUME NEW status, NEW answer, CommitReconciliation(e, status), Finish(w, answer)
      PROVE  \A v \in Workers : ReadsOK(v)'
  <2>1. /\ UNCHANGED <<programState, invoice, reservation>>
        /\ \A p \in Programs : p # e.program => total'[p] = total[p] /\ version'[p] = version[p]
    BY <1>4 DEF CommitReconciliation, ServiceInv, TypeInv, TypeOK, TablesTypeOK
  <2>2. ReadsOK(w)' /\ \A v \in Workers : v # w =>
          pc'[v] = pc[v] /\ request'[v] = request[v] /\ local'[v] = local[v]
    BY <1>1, <1>4, AnsweredReads DEF ServiceInv
  <2>3. ASSUME NEW v \in Workers, v # w PROVE ReadsOK(v)'
    <3>1. /\ TypeInv /\ ReadsOK(v)
          /\ pc'[v] = pc[v] /\ request'[v] = request[v] /\ local'[v] = local[v]
      BY <2>2, <2>3 DEF ServiceInv
    <3>2. Reserved(ProgramOf(v))' = Reserved(ProgramOf(v))
      BY <2>1, <3>1 DEF ProgramOf, Op, Reserved, ActiveUsd
    <3>3. pc[v] \in UnderProgramLock =>
            ProgramOf(v) \in Programs /\ ProgramOf(v) # e.program
      BY <1>1, <2>3, <3>1, LocksExclusive, ArgumentTypes DEF UnderProgramLock
    <3> QED
      BY <2>1, <3>1, <3>2, <3>3, OtherReads
  <2> QED
    BY <2>2, <2>3
<1> QED
  BY <1>2, <1>3, <1>4 DEF ApplyEntry, Commit, e

\* Programs and invoices are created, and programs deleted, where no
\* transaction has locked them.
LEMMA TableStepReads ==
  ASSUME ServiceInv,
         \/ \E p \in Programs : DeleteProgram(p) \/ \E t \in Totals : CreateProgram(p, t)
         \/ \E i \in Invoices : CreateInvoice(i)
  PROVE  \A v \in Workers : ReadsOK(v)'
<1> SUFFICES ASSUME NEW v \in Workers PROVE ReadsOK(v)'
  OBVIOUS
<1>1. /\ TypeInv /\ ReadsOK(v) /\ LockOK(v)
      /\ UNCHANGED <<pc, request, local, reservation>>
  BY DEF ServiceInv, LocksOK, DeleteProgram, CommitDelete, CreateProgram, CommitProgram,
     CreateInvoice, CommitInvoice
<1>2. Reserved(ProgramOf(v))' = Reserved(ProgramOf(v))
  BY <1>1 DEF ProgramOf, Op, Reserved, ActiveUsd
<1>3. /\ pc[v] \in UnderProgramLock => /\ ProgramOf(v) \in Programs
                                       /\ programLock[ProgramOf(v)] = v
                                       /\ programState[ProgramOf(v)] = "LIVE"
      /\ pc[v] \in UnderInvoiceLock => /\ InvoiceOf(v) \in Invoices
                                       /\ invoice[InvoiceOf(v)] # "ABSENT"
  BY <1>1, ArgumentTypes DEF ReadsOK, LockOK
<1>4. ASSUME NEW p \in Programs, DeleteProgram(p) \/ \E t \in Totals : CreateProgram(p, t)
      PROVE  ReadsOK(v)'
  <2>1. /\ invoice' = invoice
        /\ \A q \in Programs : q # p =>
             programState'[q] = programState[q] /\ total'[q] = total[q] /\ version'[q] = version[q]
        /\ programLock[p] = NoWorker \/ programState[p] = "ABSENT"
    BY <1>1, <1>4 DEF DeleteProgram, CommitDelete, CreateProgram, CommitProgram, TypeInv,
       TypeOK, TablesTypeOK
  <2>2. pc[v] \in UnderProgramLock => ProgramOf(v) # p
    BY <1>3, <2>1, WorkersAssumption
  <2> QED
    BY <1>1, <1>2, <1>3, <2>1, <2>2, OtherReads
<1>5. ASSUME NEW i \in Invoices, CreateInvoice(i) PROVE ReadsOK(v)'
  <2>1. /\ UNCHANGED programVars /\ invoice[i] = "ABSENT"
        /\ \A j \in Invoices : j # i => invoice'[j] = invoice[j]
    BY <1>1, <1>5 DEF CreateInvoice, CommitInvoice, TypeInv, TypeOK, TablesTypeOK
  <2> QED
    BY <1>1, <1>2, <1>3, <2>1, OtherReads DEF programVars
<1> QED
  BY <1>4, <1>5

\* A new command has read nothing under a lock.
LEMMA StartReads ==
  ASSUME ServiceInv, NEW w \in Workers, NEW q \in Requests, Start(w, q)
  PROVE  \A v \in Workers : ReadsOK(v)'
<1>1. FirstStatement(q.op) \notin UnderProgramLock \cup UnderInvoiceLock
  BY RequestKinds DEF FirstStatement, UnderProgramLock, UnderInvoiceLock
<1>2. /\ pc'[w] = FirstStatement(q.op) /\ local' = local /\ UNCHANGED tables
      /\ \A v \in Workers : v # w => pc'[v] = pc[v] /\ request'[v] = request[v]
  BY DEF Start, ServiceInv, TypeInv, TypeOK
<1>3. ReadsOK(w)'
  BY <1>1, <1>2 DEF ReadsOK, UnderProgramLock, UnderInvoiceLock
<1> QED
  BY <1>2, <1>3, QuietReads

-----------------------------------------------------------------------------
(* The inductive invariant and the theorems *)

LEMMA ServiceInit == Init => ServiceInv
<1>1. Init => \A w \in Workers : ReadsOK(w)
  BY DEF Init, ReadsOK, UnderProgramLock, UnderInvoiceLock
<1> QED
  BY <1>1, TypeInit, LocksInit DEF ServiceInv

LEMMA ServiceNext == ServiceInv /\ [Next]_vars => ServiceInv'
<1> SUFFICES ASSUME ServiceInv, [Next]_vars PROVE ServiceInv'
  OBVIOUS
<1>1. TypeInv' /\ LocksOK'
  BY TypeNext, LocksNext DEF ServiceInv
<1>2. ASSUME NEW w \in Workers, Abort(w) PROVE \A v \in Workers : ReadsOK(v)'
  BY <1>2, AnswerReads DEF Abort
<1>3. ASSUME NEW w \in Workers, PlainStep(w) PROVE \A v \in Workers : ReadsOK(v)'
  BY <1>1, <1>3, ReadingReads, SumReads, InsertReservationReads, InsertReleaseReads,
     ApplyEntryReads DEF PlainStep
<1>4. ASSUME UNCHANGED vars PROVE \A v \in Workers : ReadsOK(v)'
  BY <1>4, QuietReads DEF vars
<1>5. ASSUME \/ \E p \in Programs : DeleteProgram(p) \/ \E t \in Totals : CreateProgram(p, t)
             \/ \E i \in Invoices : CreateInvoice(i)
      PROVE \A v \in Workers : ReadsOK(v)'
  BY <1>5, TableStepReads
<1>6. \A v \in Workers : ReadsOK(v)'
  BY <1>2, <1>3, <1>4, <1>5, StartReads, LockReads DEF Next
<1> QED
  BY <1>1, <1>6 DEF ServiceInv

\* The inductive invariant holds in every reachable state.
THEOREM ServiceInvariant == Spec => []ServiceInv
BY ServiceInit, ServiceNext, PTL DEF Spec

\* No stale read under locks: whatever other handlers commit, a transaction
\* writes on rows that still say what it read.
THEOREM NoStaleReads == Spec => []LockedReadsCurrent
<1>1. ServiceInv => LockedReadsCurrent
  BY DEF ServiceInv, ReadsOK, LockedReadsCurrent
<1> QED
  BY <1>1, ServiceInvariant, PTL

\* No deadlock on row locks: a transaction that waits for an invoice holds
\* nothing another transaction waits for while it holds an invoice, and so
\* down the order program, reservation, invoice.
THEOREM NoDeadlock == Spec => []NoLockCycle
<1>1. ServiceInv => NoLockCycle
  <2> SUFFICES ASSUME ServiceInv, NEW group \in SUBSET Workers, NEW w \in group,
                      \A u \in group : \E v \in group : Blocks(v, u)
               PROVE  FALSE
    BY DEF NoLockCycle
  <2>1. ASSUME NEW u \in group, NEW v \in group, Blocks(v, u)
        PROVE  /\ pc[u] \in {"lockProgram", "lockReservation", "lockInvoice"}
               /\ pc[u] = "lockProgram" => pc[v] \in UnderProgramLock
               /\ pc[u] = "lockReservation" => pc[v] \in {"lockInvoice", "insertRelease"}
               /\ pc[u] = "lockInvoice" => pc[v] \in UnderInvoiceLock
    <3>1. TypeInv /\ LockOK(v)
      BY DEF ServiceInv, LocksOK
    <3>2. pc[u] = "lockReservation" => request[u].reservation \in ReservationIds
      BY <3>1, RequestKinds DEF TypeInv, CommandOK
    <3> QED
      BY <2>1, <3>1, <3>2, ArgumentTypes DEF Blocks, LockOK
  <2>2. \A u \in group : pc[u] # "lockInvoice"
    BY <2>1 DEF UnderInvoiceLock
  <2>3. \A u \in group : pc[u] # "lockReservation"
    BY <2>1, <2>2
  <2>4. \A u \in group : pc[u] # "lockProgram"
    BY <2>1, <2>2, <2>3 DEF UnderProgramLock
  <2> QED
    BY <2>1, <2>2, <2>3, <2>4
<1> QED
  BY <1>1, ServiceInvariant, PTL

\* One step raises reserved capacity only within the current total.
LEMMA ReserveStep ==
  ASSUME ServiceInv, [Next]_vars, NEW p \in Programs, Reserved(p)' > Reserved(p)
  PROVE  Reserved(p)' <= total'[p]
<1>1. TypeInv /\ TypeInv' /\ Reserved(p) \in Nat
  BY TypeNext, ReservedType DEF ServiceInv
<1>2. reservation' # reservation
  BY <1>1, ReservedUnchanged
<1>3. PICK w \in Workers : InsertReservation(w) \/ InsertRelease(w)
  <2>1. ASSUME NEW w \in Workers, NEW answer, Answer(w, answer) PROVE reservation' = reservation
    BY <2>1 DEF Answer, tables
  <2>2. ASSUME NEW w \in Workers, LockStep(w) PROVE reservation' = reservation
    BY <2>1, <2>2 DEF LockStep, LockProgram, LockReservation, LockInvoice, tables
  <2>3. ASSUME NEW w \in Workers, PlainStep(w), ~ InsertReservation(w), ~ InsertRelease(w)
        PROVE  reservation' = reservation
    BY <2>1, <2>3 DEF PlainStep, FindInvoice, ConvertToUsd, SumActive, FindReservation,
       FindInboxEvent, ApplyEntry, CommitReconciliation, FindExisting, FindProgram,
       SumForSummary, Return, tables
  <2>4. ASSUME NEW w \in Workers, Abort(w) \/ \E q \in Requests : Start(w, q)
        PROVE  reservation' = reservation
    BY <2>1, <2>4 DEF Abort, Start, tables
  <2>5. ASSUME \/ \E o \in Programs : DeleteProgram(o) \/ \E t \in Totals : CreateProgram(o, t)
               \/ \E i \in Invoices : CreateInvoice(i)
        PROVE  reservation' = reservation
    BY <2>5 DEF DeleteProgram, CommitDelete, CreateProgram, CommitProgram, CreateInvoice,
       CommitInvoice
  <2>6. UNCHANGED vars => reservation' = reservation
    BY DEF vars, tables
  <2> QED
    BY <1>2, <2>2, <2>3, <2>4, <2>5, <2>6 DEF Next
<1>4. CASE InsertReservation(w)
  <2>1. /\ request[w] \in Requests /\ Op(w) = "reserve" /\ pc[w] = "insertReservation"
        /\ ProgramOf(w) = request[w].program
        /\ request[w].program \in Programs /\ request[w].invoice \in Invoices
        /\ local[w].usd \in Nat
    BY <1>1, <1>4, RequestKinds DEF InsertReservation, TypeInv, TypeOK, CommandOK, Op, ProgramOf
  <2>2. PICK o \in Programs, i \in Invoices, usd \in Nat :
          o = request[w].program /\ i = request[w].invoice /\ usd = local[w].usd
    BY <2>1
  <2>3. PICK r \in ReservationIds : IsNextRow(r) /\ CommitReservation(r, o, i, usd)
    BY <1>2, <1>4, <2>2 DEF InsertReservation, Answer, tables
  <2>4. total' = total
    BY <2>3 DEF CommitReservation, programVars
  <2>5. Reserved(o) + usd <= total[o]
    BY <2>1, <2>2 DEF ServiceInv, ReadsOK
  <2>6. /\ Reserved(o)' = Reserved(o) + usd
        /\ p # o => Reserved(p)' = Reserved(p)
    BY <1>1, <2>3, ReservedInsert
  <2> QED
    BY <1>1, <2>4, <2>5, <2>6
<1>5. CASE InsertRelease(w)
  <2>1. /\ pc[w] = "insertRelease" /\ request[w].reservation \in ReservationIds
        /\ local[w].row \in ReservationRow
        /\ local[w].row = reservation[request[w].reservation]
    BY <1>1, <1>5, RequestKinds DEF InsertRelease, TypeInv, CommandOK, Op, ServiceInv,
       ReadsOK, UnderProgramLock
  <2>2. PICK r \in ReservationIds : r = request[w].reservation
    BY <2>1
  <2>3. CommitRelease(r, reservation[r]) /\ reservation[r] \in ReservationRow
    BY <1>2, <1>5, <2>1, <2>2 DEF InsertRelease, Answer, tables
  <2>4. Reserved(p)' \in Int /\ Reserved(p)' <= Reserved(p)
    BY <1>1, <2>3, ReservedRelease
  <2> QED
    BY <1>1, <2>4
<1> QED
  BY <1>3, <1>4, <1>5

\* The capacity rule: no interleaving of reservations, releases, treasury
\* snapshots and failures lets a reservation take more than the program's
\* total leaves.
THEOREM NeverOversubscribes == Spec => ReserveNeverOversubscribes
<1>1. ServiceInv /\ [Next]_vars =>
        [\A p \in Programs : Reserved(p)' > Reserved(p) => Reserved(p)' <= total'[p]]_tables
  BY ReserveStep
<1> QED
  BY <1>1, ServiceInvariant, PTL DEF Spec, ReserveNeverOversubscribes

-----------------------------------------------------------------------------
(* What the committed tables say to each other *)

\* No program is gone that a row refers to.
ReferencedProgramsLive ==
  \A p \in Programs : Referenced(p) => programState[p] = "LIVE"

\* The table properties hold each other up: no foreign key dangles, so a
\* deleted program has no snapshots; an invoice's status tells whether it has
\* a reservation, so an OPEN one gets its first.
TablesInv ==
  /\ LifecycleConsistent
  /\ ReleasedExactlyOnce
  /\ ReferencedProgramsLive
  /\ InboxMatchesAudit
  /\ OutboxMatchesTables
  /\ TreasuryFollowsNewestSnapshot

-----------------------------------------------------------------------------
(* The writes of each COMMIT *)

\* What an outbox row is about, and what the tables have to tell of.
Subject(x) == <<x.topic, x.key, x.ref>>
Changes ==
  {<<"reservations.events", reservation[r].program, r>> :
     r \in {q \in ReservationIds : reservation[q] # NoReservation}}
  \cup
  {<<"releases.events", x.program, x.reservation>> : x \in releases}
  \cup
  {<<"reconciliations.events", x.program, x.version>> :
     x \in {y \in reconciliations : y.status = "APPLIED"}}

\* A change that is new to the tables and whose event is put into the outbox
\* in the same COMMIT.
LEMMA NewEvent ==
  ASSUME OutboxMatchesTables, NEW new, outbox' = outbox \cup {new},
         Subject(new) \notin Changes, Changes' = Changes \cup {Subject(new)}
  PROVE  OutboxMatchesTables'
<1>1. {Subject(x) : x \in outbox} = Changes
  BY DEF OutboxMatchesTables, Subject, Changes
<1>2. \A x \in outbox : Subject(x) # Subject(new)
  BY <1>1
<1>3. {Subject(x) : x \in outbox'} = Changes'
  BY <1>1
<1>4. \A x, y \in outbox' :
        x.topic = y.topic /\ x.key = y.key /\ x.ref = y.ref => x = y
  BY <1>2 DEF OutboxMatchesTables, Subject
<1> QED
  BY <1>3, <1>4 DEF OutboxMatchesTables, Subject, Changes

\* The row a reservation fills was empty, and so were its releases.
LEMMA ReservationTables ==
  ASSUME TablesTypeOK, TablesInv, NEW r \in ReservationIds, NEW p \in Programs,
         NEW i \in Invoices, NEW usd \in Nat, reservation[r] = NoReservation,
         programState[p] = "LIVE", invoice[i] = "OPEN",
         CommitReservation(r, p, i, usd)
  PROVE  TablesInv'
<1> DEFINE row == [status |-> "ACTIVE", program |-> p, invoice |-> i, usd |-> usd]
<1>1. /\ reservation'[r] = row
      /\ \A q \in ReservationIds : q # r => reservation'[q] = reservation[q]
      /\ invoice'[i] = "RESERVED"
      /\ \A j \in Invoices : j # i => invoice'[j] = invoice[j]
      /\ outbox' = outbox \cup {ReservationCreated(r, p)}
      /\ UNCHANGED <<programState, total, version, releases, reconciliations, inbox>>
  BY DEF CommitReservation, TablesTypeOK, programVars
<1>2. /\ row # NoReservation /\ NoReservation.status = "NONE"
      /\ row.status = "ACTIVE" /\ row.program = p /\ row.invoice = i
  BY DEF NoReservation
<1>3. \A q \in ReservationIds : reservation[q] # NoReservation =>
        reservation[q].invoice \in Invoices /\ reservation[q].status \in {"ACTIVE", "RELEASED"}
  BY DEF TablesTypeOK, ReservationRow
<1>4. \A x \in releases : x.reservation # r
  BY <1>2 DEF TablesInv, ReleasedExactlyOnce
<1>5. \A q \in ReservationIds : reservation[q] # NoReservation => reservation[q].invoice # i
  BY <1>3 DEF TablesInv, LifecycleConsistent
<1> HIDE DEF row
<1>6. LifecycleConsistent'
  <2>1. ASSUME NEW q \in ReservationIds, NEW s \in ReservationIds,
               reservation'[q] # NoReservation, reservation'[s] # NoReservation,
               reservation'[q].invoice = reservation'[s].invoice
        PROVE  q = s
    BY <1>1, <1>2, <1>5, <2>1 DEF TablesInv, LifecycleConsistent
  <2>2. ASSUME NEW q \in ReservationIds, reservation'[q] # NoReservation
        PROVE  invoice'[reservation'[q].invoice] =
                 IF reservation'[q].status = "ACTIVE" THEN "RESERVED" ELSE "REPAID"
    BY <1>1, <1>2, <1>3, <1>5, <2>2 DEF TablesInv, LifecycleConsistent
  <2>3. ASSUME NEW j \in Invoices, invoice'[j] \in {"RESERVED", "REPAID"}
        PROVE  \E q \in ReservationIds : /\ reservation'[q] # NoReservation
                                         /\ reservation'[q].invoice = j
    BY <1>1, <1>2, <2>3 DEF TablesInv, LifecycleConsistent
  <2> QED
    BY <2>1, <2>2, <2>3 DEF LifecycleConsistent
<1>7. ReleasedExactlyOnce'
  <2>1. \A x \in releases : x.reservation \in ReservationIds
    BY DEF TablesTypeOK
  <2> QED
    BY <1>1, <1>2, <1>4, <2>1 DEF TablesInv, ReleasedExactlyOnce
<1>8. ReferencedProgramsLive'
  BY <1>1, <1>2 DEF TablesInv, ReferencedProgramsLive, Referenced
<1>9. OutboxMatchesTables'
  <2>1. Subject(ReservationCreated(r, p)) = <<"reservations.events", p, r>>
    BY DEF ReservationCreated, OutboxRow, Subject
  <2> HIDE DEF ReservationCreated
  <2>2. <<"reservations.events", p, r>> \notin Changes
    BY DEF Changes
  <2>3. Changes' = Changes \cup {<<"reservations.events", p, r>>}
    BY <1>1, <1>2 DEF Changes
  <2> QED
    BY <1>1, <2>1, <2>2, <2>3, NewEvent DEF TablesInv
<1> QED
  BY <1>1, <1>6, <1>7, <1>8, <1>9 DEF TablesInv, InboxMatchesAudit,
     TreasuryFollowsNewestSnapshot

\* The reservation was ACTIVE, so it had no release, and its invoice no other
\* reservation.
LEMMA ReleaseTables ==
  ASSUME TablesTypeOK, TablesInv, NEW r \in ReservationIds,
         reservation[r] \in ReservationRow, reservation[r].status = "ACTIVE",
         CommitRelease(r, reservation[r])
  PROVE  TablesInv'
<1> DEFINE row == reservation[r]
           new == ReleaseRow(r, row)
<1>1. /\ reservation'[r].status = "RELEASED"
      /\ reservation'[r].program = row.program
      /\ reservation'[r].invoice = row.invoice
      /\ reservation'[r].usd = row.usd
      /\ \A q \in ReservationIds : q # r => reservation'[q] = reservation[q]
      /\ invoice'[row.invoice] = "REPAID"
      /\ \A j \in Invoices : j # row.invoice => invoice'[j] = invoice[j]
      /\ releases' = releases \cup {new}
      /\ outbox' = outbox \cup {ReleaseCreated(r, row)}
      /\ UNCHANGED <<programState, total, version, reconciliations, inbox>>
  BY DEF CommitRelease, TablesTypeOK, ReservationRow, programVars
<1>2. /\ NoReservation.status = "NONE" /\ row # NoReservation
      /\ reservation'[r] # NoReservation
      /\ row.program \in Programs /\ row.invoice \in Invoices
      /\ new.reservation = r /\ new.program = row.program
      /\ new.invoice = row.invoice /\ new.usd = row.usd
  BY <1>1 DEF NoReservation, ReservationRow, ReleaseRow
<1>3. \A q \in ReservationIds : reservation[q] # NoReservation =>
        reservation[q].invoice \in Invoices /\ reservation[q].status \in {"ACTIVE", "RELEASED"}
  BY DEF TablesTypeOK, ReservationRow
<1>4. \A x \in releases : x.reservation \in ReservationIds /\ x.reservation # r
  BY DEF TablesInv, ReleasedExactlyOnce, TablesTypeOK
<1>5. \A q \in ReservationIds : q # r /\ reservation[q] # NoReservation =>
        reservation[q].invoice # row.invoice
  BY <1>2 DEF TablesInv, LifecycleConsistent
<1>6. reservation[r] = row
  OBVIOUS
<1> HIDE DEF row, new
<1>7. LifecycleConsistent'
  <2>1. ASSUME NEW q \in ReservationIds, NEW s \in ReservationIds,
               reservation'[q] # NoReservation, reservation'[s] # NoReservation,
               reservation'[q].invoice = reservation'[s].invoice
        PROVE  q = s
    BY <1>1, <1>2, <1>5, <2>1 DEF TablesInv, LifecycleConsistent
  <2>2. ASSUME NEW q \in ReservationIds, reservation'[q] # NoReservation
        PROVE  invoice'[reservation'[q].invoice] =
                 IF reservation'[q].status = "ACTIVE" THEN "RESERVED" ELSE "REPAID"
    BY <1>1, <1>2, <1>3, <1>5, <2>2 DEF TablesInv, LifecycleConsistent
  <2>3. ASSUME NEW j \in Invoices, invoice'[j] \in {"RESERVED", "REPAID"}
        PROVE  \E q \in ReservationIds : /\ reservation'[q] # NoReservation
                                         /\ reservation'[q].invoice = j
    BY <1>1, <1>2, <1>6, <2>3 DEF TablesInv, LifecycleConsistent
  <2> QED
    BY <2>1, <2>2, <2>3 DEF LifecycleConsistent
<1>8. ReleasedExactlyOnce'
  BY <1>1, <1>2, <1>4 DEF TablesInv, ReleasedExactlyOnce
<1>9. ReferencedProgramsLive'
  <2>1. programState[row.program] = "LIVE"
    BY <1>2, <1>6 DEF TablesInv, ReferencedProgramsLive, Referenced
  <2> QED
    BY <1>1, <1>2, <2>1 DEF TablesInv, ReferencedProgramsLive, Referenced
<1>10. OutboxMatchesTables'
  <2>1. Subject(ReleaseCreated(r, row)) = <<"releases.events", row.program, r>>
    BY DEF ReleaseCreated, OutboxRow, Subject
  <2> HIDE DEF ReleaseCreated
  <2>2. <<"releases.events", row.program, r>> \notin Changes
    BY <1>4 DEF Changes
  <2>3. Changes' = Changes \cup {<<"releases.events", row.program, r>>}
    <3>1. {<<"reservations.events", reservation'[q].program, q>> :
             q \in {s \in ReservationIds : reservation'[s] # NoReservation}} =
          {<<"reservations.events", reservation[q].program, q>> :
             q \in {s \in ReservationIds : reservation[s] # NoReservation}}
      BY <1>1, <1>2, <1>6
    <3>2. {<<"releases.events", x.program, x.reservation>> : x \in releases'} =
          {<<"releases.events", x.program, x.reservation>> : x \in releases}
            \cup {<<"releases.events", row.program, r>>}
      BY <1>1, <1>2
    <3> QED
      BY <1>1, <3>1, <3>2 DEF Changes
  <2> QED
    BY <1>1, <2>1, <2>2, <2>3, NewEvent DEF TablesInv
<1> QED
  BY <1>1, <1>7, <1>8, <1>9, <1>10 DEF TablesInv, InboxMatchesAudit,
     TreasuryFollowsNewestSnapshot

\* The entry has no audit row yet, and is APPLIED only if it is newer than
\* what the program has.
LEMMA ReconciliationTables ==
  ASSUME TablesTypeOK, TablesInv, NEW e \in Entries,
         programState[e.program] = "LIVE", ~ Recorded(e),
         NEW status \in {"APPLIED", "IGNORED_STALE"},
         status = "APPLIED" <=> e.version > version[e.program],
         CommitReconciliation(e, status)
  PROVE  TablesInv'
<1> DEFINE new == ReconciliationRow(e, status)
<1>1. e.program \in Programs /\ e.version \in Nat /\ e.total \in Nat
  BY TablesAssumption
<1>2. /\ reconciliations' = reconciliations \cup {new}
      /\ inbox' = inbox \cup {ExternalEventId(e)}
      /\ version'[e.program] = IF status = "APPLIED" THEN e.version ELSE version[e.program]
      /\ total'[e.program] = IF status = "APPLIED" THEN e.total ELSE total[e.program]
      /\ \A p \in Programs : p # e.program => version'[p] = version[p] /\ total'[p] = total[p]
      /\ outbox' = IF status = "APPLIED" THEN outbox \cup {ReconciliationApplied(e)} ELSE outbox
      /\ UNCHANGED <<programState, invoice, reservation, releases>>
  BY <1>1 DEF CommitReconciliation, TablesTypeOK
<1>3. /\ new.id = ExternalEventId(e) /\ new.program = e.program
      /\ new.version = e.version /\ new.total = e.total /\ new.status = status
  BY DEF ReconciliationRow
<1>4. \A x \in reconciliations : x.program \in Programs /\ x.version \in Nat
  BY DEF TablesTypeOK
<1>5. \A p \in Programs : version[p] \in Nat
  BY DEF TablesTypeOK
<1> HIDE DEF new, ExternalEventId
<1>6. InboxMatchesAudit'
  BY <1>2, <1>3 DEF TablesInv, InboxMatchesAudit, Recorded
<1>7. TreasuryFollowsNewestSnapshot'
  <2>1. ASSUME NEW x \in reconciliations
        PROVE  /\ x.version <= version'[x.program]
               /\ x.status = "APPLIED" /\ x.version = version'[x.program]
                    => x.total = total'[x.program]
    BY <1>1, <1>2, <1>4, <1>5 DEF TablesInv, TreasuryFollowsNewestSnapshot
  <2>2. /\ new.version <= version'[new.program]
        /\ new.status = "APPLIED" => new.total = total'[new.program]
    BY <1>1, <1>2, <1>3, <1>5
  <2>3. ASSUME NEW p \in Programs, version'[p] > 0
        PROVE  \E x \in reconciliations' : /\ x.program = p
                                           /\ x.status = "APPLIED"
                                           /\ x.version = version'[p]
    <3>1. CASE p = e.program /\ status = "APPLIED"
      BY <1>2, <1>3, <3>1
    <3>2. CASE ~ (p = e.program /\ status = "APPLIED")
      BY <1>2, <2>3, <3>2 DEF TablesInv, TreasuryFollowsNewestSnapshot
    <3> QED
      BY <3>1, <3>2
  <2> QED
    BY <1>2, <2>1, <2>2, <2>3 DEF TreasuryFollowsNewestSnapshot
<1>8. ReferencedProgramsLive'
  BY <1>1, <1>2, <1>3 DEF TablesInv, ReferencedProgramsLive, Referenced
<1>9. OutboxMatchesTables'
  <2>1. CASE status = "APPLIED"
    <3>1. Subject(ReconciliationApplied(e)) =
            <<"reconciliations.events", e.program, e.version>>
      BY DEF ReconciliationApplied, OutboxRow, Subject
    <3> HIDE DEF ReconciliationApplied
    <3>2. \A x \in reconciliations : x.program = e.program => x.version # e.version
      BY <1>1, <1>4, <1>5, <2>1 DEF TablesInv, TreasuryFollowsNewestSnapshot
    <3>3. <<"reconciliations.events", e.program, e.version>> \notin Changes
      BY <3>2 DEF Changes
    <3>4. Changes' = Changes \cup {<<"reconciliations.events", e.program, e.version>>}
      BY <1>2, <1>3, <2>1 DEF Changes
    <3> QED
      BY <1>2, <2>1, <3>1, <3>3, <3>4, NewEvent DEF TablesInv
  <2>2. CASE status # "APPLIED"
    BY <1>2, <1>3, <2>2 DEF TablesInv, OutboxMatchesTables
  <2> QED
    BY <2>1, <2>2
<1> QED
  BY <1>2, <1>6, <1>7, <1>8, <1>9 DEF TablesInv, LifecycleConsistent, ReleasedExactlyOnce

\* Programs and invoices that appear, and a program that nothing refers to.
LEMMA RowTables ==
  ASSUME TablesTypeOK, TablesInv,
         \/ \E p \in Programs : DeleteProgram(p) \/ \E t \in Totals : CreateProgram(p, t)
         \/ \E i \in Invoices : CreateInvoice(i)
  PROVE  TablesInv'
<1>1. ASSUME NEW p \in Programs, DeleteProgram(p) \/ \E t \in Totals : CreateProgram(p, t)
      PROVE  TablesInv'
  <2>1. /\ UNCHANGED <<invoice, reservation, releases, reconciliations, inbox, outbox>>
        /\ \A q \in Programs : q # p =>
             /\ programState'[q] = programState[q]
             /\ total'[q] = total[q] /\ version'[q] = version[q]
        /\ ~ Referenced(p)
        /\ version'[p] \in {0, version[p]}
    BY <1>1 DEF DeleteProgram, CommitDelete, CreateProgram, CommitProgram, TablesTypeOK,
       TablesInv, ReferencedProgramsLive
  <2>2. \A x \in reconciliations : x.program \in Programs /\ x.program # p
    BY <2>1 DEF Referenced, TablesTypeOK
  <2>3. ReferencedProgramsLive'
    BY <2>1 DEF TablesInv, ReferencedProgramsLive, Referenced
  <2>4. TreasuryFollowsNewestSnapshot'
    BY <2>1, <2>2 DEF TablesInv, TreasuryFollowsNewestSnapshot
  <2> QED
    BY <2>1, <2>3, <2>4 DEF TablesInv, LifecycleConsistent, ReleasedExactlyOnce,
       InboxMatchesAudit, OutboxMatchesTables
<1>2. ASSUME NEW i \in Invoices, CreateInvoice(i)
      PROVE  TablesInv'
  <2>1. /\ UNCHANGED <<programVars, reservation, releases, reconciliations, inbox, outbox>>
        /\ invoice[i] = "ABSENT" /\ invoice'[i] = "OPEN"
        /\ \A j \in Invoices : j # i => invoice'[j] = invoice[j]
    BY <1>2 DEF CreateInvoice, CommitInvoice, TablesTypeOK
  <2>2. \A q \in ReservationIds : reservation[q] # NoReservation =>
          reservation[q].invoice \in Invoices /\ reservation[q].invoice # i
    BY <2>1 DEF TablesTypeOK, ReservationRow, TablesInv, LifecycleConsistent
  <2>3. LifecycleConsistent'
    BY <2>1, <2>2 DEF TablesInv, LifecycleConsistent
  <2> QED
    BY <2>1, <2>3 DEF TablesInv, ReleasedExactlyOnce, ReferencedProgramsLive, Referenced,
       InboxMatchesAudit, OutboxMatchesTables, TreasuryFollowsNewestSnapshot, programVars
<1> QED
  BY <1>1, <1>2

-----------------------------------------------------------------------------
(* The steps of the workers *)

\* A step changes the tables only by one of the COMMITs, made in a state in
\* which the ledger makes it too.
LEMMA StepCommits ==
  ASSUME ServiceInv, TablesInv, NEW w \in Workers, LockStep(w) \/ PlainStep(w) \/ Abort(w)
  PROVE  \/ UNCHANGED tables
         \/ /\ InsertReservation(w)
            /\ programState[request[w].program] = "LIVE"
            /\ invoice[request[w].invoice] = "OPEN"
            /\ request[w] \in ReserveRequests
            /\ Reserved(request[w].program) + local[w].usd <= total[request[w].program]
            /\ \E r \in ReservationIds :
                 /\ IsNextRow(r)
                 /\ CommitReservation(r, request[w].program, request[w].invoice, local[w].usd)
                 /\ Commit(w, "Created")
         \/ /\ InsertRelease(w)
            /\ request[w] \in ReleaseRequests
            /\ reservation[request[w].reservation] \in ReservationRow
            /\ reservation[request[w].reservation].status = "ACTIVE"
            /\ CommitRelease(request[w].reservation, reservation[request[w].reservation])
            /\ Commit(w, "Released")
         \/ /\ ApplyEntry(w)
            /\ request[w] \in ReconcileRequests
            /\ programState[request[w].entry.program] = "LIVE"
            /\ ~ Recorded(request[w].entry)
            /\ IF request[w].entry.version > version[request[w].entry.program]
                 THEN /\ CommitReconciliation(request[w].entry, "APPLIED")
                      /\ Commit(w, "Applied")
                 ELSE /\ CommitReconciliation(request[w].entry, "IGNORED_STALE")
                      /\ Commit(w, "IgnoredStale")
<1>1. /\ TypeInv /\ ReadsOK(w)
      /\ pc[w] # "idle" => request[w] \in Requests
      /\ local[w].version \in Nat
  BY DEF ServiceInv, TypeInv, TypeOK, CommandOK
<1>2. ASSUME NEW answer, Answer(w, answer) PROVE UNCHANGED tables
  BY <1>2 DEF Answer
<1>3. CASE LockStep(w)
  BY <1>2, <1>3 DEF LockStep, LockProgram, LockReservation, LockInvoice
<1>4. CASE InsertReservation(w)
  <2>1. /\ pc[w] = "insertReservation" /\ Op(w) = "reserve"
        /\ request[w] \in ReserveRequests /\ ProgramOf(w) = request[w].program
    BY <1>1, <1>4 DEF InsertReservation, TypeInv, CommandOK, Op, ProgramOf, Requests,
       ReserveRequests, ReleaseRequests, ReconcileRequests, SummaryRequests
  <2>2. /\ programState[request[w].program] = "LIVE"
        /\ invoice[InvoiceOf(w)] = "OPEN" /\ InvoiceOf(w) = request[w].invoice
        /\ Reserved(ProgramOf(w)) + local[w].usd <= total[ProgramOf(w)]
    BY <1>1, <2>1 DEF ReadsOK, UnderProgramLock, UnderInvoiceLock, InvoiceOf
  <2> QED
    BY <1>2, <1>4, <2>1, <2>2 DEF InsertReservation
<1>5. CASE InsertRelease(w)
  <2>1. /\ pc[w] = "insertRelease" /\ Op(w) = "release"
        /\ request[w] \in ReleaseRequests
        /\ local[w].row \in ReservationRow
    BY <1>1, <1>5 DEF InsertRelease, TypeInv, CommandOK, Op, Requests,
       ReserveRequests, ReleaseRequests, ReconcileRequests, SummaryRequests
  <2>2. /\ reservation[request[w].reservation] = local[w].row
        /\ local[w].row.status = "ACTIVE"
    BY <1>1, <2>1 DEF ReadsOK, UnderProgramLock
  <2> QED
    BY <1>2, <1>5, <2>1, <2>2 DEF InsertRelease
<1>6. CASE ApplyEntry(w)
  <2> DEFINE e == request[w].entry
  <2>1. /\ pc[w] = "applyEntry" /\ Op(w) = "reconcile"
        /\ request[w] \in ReconcileRequests /\ ProgramOf(w) = e.program
        /\ e \in Entries /\ e.version \in Nat
    BY <1>1, <1>6, TablesAssumption DEF ApplyEntry, TypeInv, CommandOK, Op, ProgramOf,
       Requests, ReserveRequests, ReleaseRequests, ReconcileRequests, SummaryRequests
  <2>2. programState[e.program] = "LIVE" /\ local[w].version = version[e.program]
    BY <1>1, <2>1 DEF ReadsOK, UnderProgramLock
  <2>3. (e.version <= local[w].version) <=> ~ (e.version > version[e.program])
    BY <1>1, <2>1, <2>2
  <2> HIDE DEF e
  <2> QED
    BY <1>2, <1>6, <2>1, <2>2, <2>3 DEF ApplyEntry, e
<1>7. CASE /\ PlainStep(w) \/ Abort(w)
           /\ ~ InsertReservation(w) /\ ~ InsertRelease(w) /\ ~ ApplyEntry(w)
  BY <1>2, <1>7 DEF PlainStep, Abort, FindInvoice, ConvertToUsd, SumActive,
     FindReservation, FindInboxEvent, FindExisting, FindProgram, SumForSummary, Return
<1> QED
  BY <1>3, <1>4, <1>5, <1>6, <1>7

\* Every step keeps the table properties.
LEMMA TablesNext == ServiceInv /\ TablesInv /\ [Next]_vars => TablesInv'
<1> SUFFICES ASSUME ServiceInv, TablesInv, [Next]_vars PROVE TablesInv'
  OBVIOUS
<1>1. /\ TypeInv /\ TablesTypeOK
      /\ \A w \in Workers : local[w].usd \in Nat
  BY DEF ServiceInv, TypeInv, TypeOK
<1>2. ASSUME UNCHANGED tables PROVE TablesInv'
  BY <1>2 DEF TablesInv, tables, programVars, LifecycleConsistent, ReleasedExactlyOnce,
     ReferencedProgramsLive, Referenced, InboxMatchesAudit, OutboxMatchesTables,
     TreasuryFollowsNewestSnapshot
<1>3. ASSUME NEW w \in Workers, LockStep(w) \/ PlainStep(w) \/ Abort(w)
      PROVE  TablesInv'
  <2>1. ASSUME NEW r \in ReservationIds, IsNextRow(r), request[w] \in ReserveRequests,
               programState[request[w].program] = "LIVE",
               invoice[request[w].invoice] = "OPEN",
               CommitReservation(r, request[w].program, request[w].invoice, local[w].usd)
        PROVE  TablesInv'
    <3>1. request[w].program \in Programs /\ request[w].invoice \in Invoices
      BY <2>1 DEF ReserveRequests
    <3> QED
      BY <1>1, <2>1, <3>1, ReservationTables DEF IsNextRow
  <2>2. ASSUME request[w] \in ReleaseRequests,
               reservation[request[w].reservation] \in ReservationRow,
               reservation[request[w].reservation].status = "ACTIVE",
               CommitRelease(request[w].reservation, reservation[request[w].reservation])
        PROVE  TablesInv'
    <3>1. request[w].reservation \in ReservationIds
      BY <2>2 DEF ReleaseRequests
    <3> QED
      BY <1>1, <2>2, <3>1, ReleaseTables
  <2>3. ASSUME NEW status \in {"APPLIED", "IGNORED_STALE"},
               request[w] \in ReconcileRequests,
               programState[request[w].entry.program] = "LIVE",
               ~ Recorded(request[w].entry),
               status = "APPLIED" <=>
                 request[w].entry.version > version[request[w].entry.program],
               CommitReconciliation(request[w].entry, status)
        PROVE  TablesInv'
    <3>1. request[w].entry \in Entries
      BY <2>3 DEF ReconcileRequests
    <3> QED
      BY <1>1, <2>3, <3>1, ReconciliationTables
  <2> QED
    BY <1>2, <1>3, <2>1, <2>2, <2>3, StepCommits
<1>4. ASSUME NEW w \in Workers, NEW q \in Requests, Start(w, q) PROVE TablesInv'
  BY <1>2, <1>4 DEF Start
<1>5. UNCHANGED vars => UNCHANGED tables
  BY DEF vars
<1> QED
  BY <1>1, <1>2, <1>3, <1>4, <1>5, RowTables DEF Next

\* Empty tables agree.
LEMMA TablesInvInit == Init => TablesInv
BY DEF Init, TablesInit, TablesInv, LifecycleConsistent, ReleasedExactlyOnce,
   ReferencedProgramsLive, Referenced, InboxMatchesAudit, OutboxMatchesTables,
   TreasuryFollowsNewestSnapshot, NoReservation

\* The table properties in every reachable state, from the inductive
\* invariant of the service and their own.
THEOREM TablesInvariant == Spec => []TablesInv
<1> QED
  BY TablesInvInit, TablesNext, ServiceInvariant, PTL DEF Spec

\* An invoice is financed at most once, through whichever programs it is
\* requested, and its status follows its reservation.
THEOREM FinancedOnce == Spec => []LifecycleConsistent
<1>1. TablesInv => LifecycleConsistent
  BY DEF TablesInv
<1> QED
  BY <1>1, TablesInvariant, PTL

\* A reservation is released at most once, however often and by whomever its
\* release is requested, and the release returns what it took.
THEOREM ReleasedOnce == Spec => []ReleasedExactlyOnce
<1>1. TablesInv => ReleasedExactlyOnce
  BY DEF TablesInv
<1> QED
  BY <1>1, TablesInvariant, PTL

\* Each treasury entry is recorded once, in the inbox and in the audit table,
\* whoever handles it and how often it is delivered.
THEOREM RecordedOnce == Spec => []InboxMatchesAudit
<1>1. TablesInv => InboxMatchesAudit
  BY DEF TablesInv
<1> QED
  BY <1>1, TablesInvariant, PTL

\* Every committed change has its event, and there is no event without one.
THEOREM OneEventPerChange == Spec => []OutboxMatchesTables
<1>1. TablesInv => OutboxMatchesTables
  BY DEF TablesInv
<1> QED
  BY <1>1, TablesInvariant, PTL

\* Capacity is that of the newest snapshot, in whatever order they came.
THEOREM NewestSnapshotWins == Spec => []TreasuryFollowsNewestSnapshot
<1>1. TablesInv => TreasuryFollowsNewestSnapshot
  BY DEF TablesInv
<1> QED
  BY <1>1, TablesInvariant, PTL

\* A living program's capacity changes only with a newer version, and what is
\* reserved does not change with it.
THEOREM CapacityMovesForward == Spec => CapacityChangesOnlyForward
<1>1. ASSUME ServiceInv, TablesInv, [Next]_vars, NEW p \in Programs
      PROVE  /\ programState[p] = "LIVE" /\ programState'[p] = "LIVE" =>
                  /\ version'[p] >= version[p]
                  /\ total'[p] # total[p] => version'[p] > version[p]
             /\ version'[p] # version[p] => Reserved(p)' = Reserved(p)
  <2>1. TablesTypeOK /\ version[p] \in Nat
    BY <1>1 DEF ServiceInv, TypeInv, TypeOK, TablesTypeOK
  <2>2. CASE UNCHANGED <<total, version>>
    BY <2>1, <2>2
  <2>3. ASSUME NEW e \in Entries, NEW status,
               status = "APPLIED" => e.version > version[e.program],
               CommitReconciliation(e, status)
        PROVE  /\ version'[p] >= version[p]
               /\ total'[p] # total[p] => version'[p] > version[p]
               /\ Reserved(p)' = Reserved(p)
    <3>1. Reserved(p)' = Reserved(p)
      BY <2>3, ReservedUnchanged DEF CommitReconciliation
    <3>2. e.version \in Nat /\ e.program \in Programs
      BY TablesAssumption
    <3> QED
      BY <2>1, <2>3, <3>1, <3>2 DEF CommitReconciliation, TablesTypeOK
  <2>4. ASSUME NEW w \in Workers, LockStep(w) \/ PlainStep(w) \/ Abort(w),
               ~ UNCHANGED <<total, version>>
        PROVE  \E e \in Entries, status \in {"APPLIED", "IGNORED_STALE"} :
                 /\ status = "APPLIED" => e.version > version[e.program]
                 /\ CommitReconciliation(e, status)
    BY <1>1, <2>4, StepCommits DEF CommitReservation, CommitRelease, tables, programVars,
       ReconcileRequests
  <2>5. ASSUME NEW o \in Programs, DeleteProgram(o) \/ \E t \in Totals : CreateProgram(o, t)
        PROVE  /\ p # o => version'[p] = version[p] /\ total'[p] = total[p]
               /\ p = o => programState[p] # "LIVE" \/ programState'[p] # "LIVE"
               /\ Reserved(p)' = Reserved(p)
    <3>1. reservation' = reservation
      BY <2>5 DEF DeleteProgram, CommitDelete, CreateProgram, CommitProgram
    <3> QED
      BY <2>1, <2>5, <3>1, ReservedUnchanged DEF DeleteProgram, CommitDelete, CreateProgram,
         CommitProgram, TablesTypeOK
  <2>6. (\E i \in Invoices : CreateInvoice(i))
          \/ (\E w \in Workers, q \in Requests : Start(w, q)) \/ UNCHANGED vars
        => UNCHANGED <<total, version>>
    BY DEF CreateInvoice, CommitInvoice, Start, vars, tables, programVars
  <2> QED
    BY <1>1, <2>1, <2>2, <2>3, <2>4, <2>5, <2>6 DEF Next
<1>2. ServiceInv /\ TablesInv /\ [Next]_vars =>
        [\A p \in Programs :
           /\ programState[p] = "LIVE" /\ programState'[p] = "LIVE" =>
                /\ version'[p] >= version[p]
                /\ total'[p] # total[p] => version'[p] > version[p]
           /\ version'[p] # version[p] => Reserved(p)' = Reserved(p)]_tables
  BY <1>1
<1> QED
  BY <1>2, ServiceInvariant, TablesInvariant, PTL DEF Spec, CapacityChangesOnlyForward

-----------------------------------------------------------------------------
(* What a worker knows of rows it has not locked *)

\* An entry found recorded stays recorded, an invoice found stays there, and
\* the amount to reserve is one the invoice converts to.
PastOK(w) ==
  /\ pc[w] = "findExisting" => Recorded(request[w].entry)
  /\ /\ Op(w) = "reserve"
     /\ pc[w] \in {"convertToUsd", "lockProgram", "lockInvoice", "sumActive",
                   "insertReservation"}
     => invoice[request[w].invoice] # "ABSENT"
  /\ /\ Op(w) = "reserve"
     /\ pc[w] \in {"lockProgram", "lockInvoice", "sumActive", "insertReservation"}
     => local[w].usd \in Quotes[request[w].invoice]

\* Audit rows and invoices are never deleted.
LEMMA TablesGrow ==
  ASSUME ServiceInv, TablesInv, [Next]_vars
  PROVE  /\ reconciliations \subseteq reconciliations'
         /\ \A i \in Invoices : invoice[i] # "ABSENT" => invoice'[i] # "ABSENT"
<1>1. TablesTypeOK
  BY DEF ServiceInv, TypeInv, TypeOK
<1>2. CASE UNCHANGED tables
  BY <1>2 DEF tables
<1>3. ASSUME NEW w \in Workers, LockStep(w) \/ PlainStep(w) \/ Abort(w),
             ~ UNCHANGED tables
      PROVE  /\ reconciliations \subseteq reconciliations'
             /\ \A i \in Invoices : invoice[i] # "ABSENT" => invoice'[i] # "ABSENT"
  BY <1>1, <1>3, StepCommits DEF CommitReservation, CommitRelease, CommitReconciliation,
     TablesTypeOK
<1>4. ASSUME \/ \E p \in Programs : DeleteProgram(p) \/ \E t \in Totals : CreateProgram(p, t)
             \/ \E i \in Invoices : CreateInvoice(i)
      PROVE  /\ reconciliations \subseteq reconciliations'
             /\ \A i \in Invoices : invoice[i] # "ABSENT" => invoice'[i] # "ABSENT"
  BY <1>1, <1>4 DEF DeleteProgram, CommitDelete, CreateProgram, CommitProgram,
     CreateInvoice, CommitInvoice, TablesTypeOK
<1>5. ASSUME NEW w \in Workers, NEW q \in Requests, Start(w, q) PROVE UNCHANGED tables
  BY <1>5 DEF Start
<1>6. UNCHANGED vars => UNCHANGED tables
  BY DEF vars
<1> QED
  BY <1>2, <1>3, <1>4, <1>5, <1>6 DEF Next

\* A step of one worker is no step of another.
LEMMA OneMoves ==
  ASSUME TypeInv, NEW w \in Workers, NEW v \in Workers, v # w,
         LockStep(w) \/ PlainStep(w) \/ Abort(w) \/ \E q \in Requests : Start(w, q)
  PROVE  pc'[v] = pc[v] /\ request'[v] = request[v] /\ local'[v] = local[v]
<1>1. ASSUME NEW answer, Finish(w, answer)
      PROVE  pc'[v] = pc[v] /\ request'[v] = request[v] /\ local'[v] = local[v]
  BY <1>1 DEF Finish, TypeInv, TypeOK
<1>2. ASSUME NEW statement, Goto(w, statement)
      PROVE  pc'[v] = pc[v] /\ request'[v] = request[v]
  BY <1>2 DEF Goto, TypeInv, TypeOK
<1>3. CASE LockStep(w)
  BY <1>1, <1>2, <1>3 DEF LockStep, LockProgram, LockReservation, LockInvoice, Answer,
     TypeInv, TypeOK
<1>4. CASE PlainStep(w)
  BY <1>1, <1>2, <1>4 DEF PlainStep, FindInvoice, ConvertToUsd, SumActive,
     InsertReservation, FindReservation, InsertRelease, FindInboxEvent, ApplyEntry,
     FindExisting, FindProgram, SumForSummary, Return, Answer, Commit, TypeInv, TypeOK
<1>5. CASE Abort(w)
  BY <1>1, <1>5 DEF Abort, Answer
<1>6. CASE \E q \in Requests : Start(w, q)
  BY <1>6 DEF Start, TypeInv, TypeOK
<1> QED
  BY <1>3, <1>4, <1>5, <1>6

\* What a worker's own step does to PastOK.
LEMMA OwnPast ==
  ASSUME ServiceInv, TablesInv, NEW w \in Workers, PastOK(w),
         LockStep(w) \/ PlainStep(w) \/ Abort(w) \/ \E q \in Requests : Start(w, q)
  PROVE  PastOK(w)'
<1>1. /\ TypeInv /\ TypeOK /\ CommandOK(w)
      /\ pc[w] # "idle" => request[w] \in Requests
  BY DEF ServiceInv, TypeInv, CommandOK
<1>2. ASSUME NEW answer, Finish(w, answer) PROVE PastOK(w)'
  BY <1>1, <1>2 DEF Finish, PastOK, TypeOK
<1>3. ASSUME NEW statement, Goto(w, statement),
             statement \notin {"findExisting", "convertToUsd", "lockProgram", "lockInvoice",
                               "sumActive", "insertReservation"}
      PROVE PastOK(w)'
  BY <1>1, <1>3 DEF Goto, PastOK, TypeOK
<1>4. CASE LockProgram(w)
  BY <1>1, <1>2, <1>3, <1>4 DEF LockProgram, Answer, AfterProgramLock, Goto, PastOK, Op, TypeOK, tables, CommandOK
<1>5. CASE LockReservation(w)
  BY <1>1, <1>2, <1>5 DEF LockReservation, Answer, Goto, PastOK, Op, TypeOK, CommandOK
<1>6. CASE LockInvoice(w)
  BY <1>1, <1>2, <1>6 DEF LockInvoice, Answer, Goto, PastOK, Op, TypeOK, CommandOK, tables
<1>7. CASE FindInvoice(w)
  BY <1>1, <1>2, <1>7 DEF FindInvoice, Answer, Goto, PastOK, Op, TypeOK, CommandOK, tables
<1>8. CASE ConvertToUsd(w)
  BY <1>1, <1>2, <1>8 DEF ConvertToUsd, Answer, Goto, PastOK, Op, TypeOK, CommandOK, tables
<1>9. CASE SumActive(w)
  BY <1>1, <1>2, <1>9 DEF SumActive, Answer, Goto, PastOK, Op, TypeOK, CommandOK, tables
<1>10. CASE InsertReservation(w)
  BY <1>2, <1>10 DEF InsertReservation, Answer, Commit
<1>11. CASE FindReservation(w)
  BY <1>1, <1>2, <1>11 DEF FindReservation, Answer, Goto, PastOK, Op, TypeOK, CommandOK, tables
<1>12. CASE InsertRelease(w)
  BY <1>2, <1>12 DEF InsertRelease, Answer, Commit
<1>13. CASE FindInboxEvent(w)
  BY <1>1, <1>2, <1>13 DEF FindInboxEvent, Answer, Goto, PastOK, Op, TypeOK, CommandOK, tables
<1>14. CASE ApplyEntry(w)
  <2>1. CASE Goto(w, "findExisting") /\ UNCHANGED <<tables, local>>
    <3>1. Recorded(request[w].entry)
      <4>1. \A answer : ~ Finish(w, answer)
        BY <1>1, <2>1 DEF Finish, Goto, TypeOK
      <4> QED
        BY <1>14, <4>1 DEF ApplyEntry, Answer, Commit, TablesInv, InboxMatchesAudit, Recorded
    <3> QED
      BY <1>1, <1>14, <2>1, <3>1 DEF ApplyEntry, Goto, PastOK, Op, TypeOK, CommandOK, tables, Recorded
  <2> QED
    BY <1>2, <1>14, <2>1 DEF ApplyEntry, Answer, Commit
<1>15. CASE FindProgram(w)
  BY <1>1, <1>2, <1>3, <1>15 DEF FindProgram, Answer
<1>16. CASE FindExisting(w) \/ SumForSummary(w) \/ Abort(w)
  BY <1>2, <1>16 DEF FindExisting, SumForSummary, Abort, Answer
<1>17. CASE Return(w)
  BY <1>1, <1>17 DEF Return, PastOK, TypeOK
<1>18. ASSUME NEW q \in Requests, Start(w, q) PROVE PastOK(w)'
  BY <1>1, <1>18, RequestKinds DEF Start, FirstStatement, PastOK, TypeOK
<1> QED
  BY <1>4, <1>5, <1>6, <1>7, <1>8, <1>9, <1>10, <1>11, <1>12, <1>13, <1>14, <1>15, <1>16,
     <1>17, <1>18 DEF LockStep, PlainStep

\* The inductive invariant of the refinement.
LedgerInv == ServiceInv /\ TablesInv /\ \A w \in Workers : PastOK(w)

\* Every step keeps it.
LEMMA LedgerInvNext == LedgerInv /\ [Next]_vars => LedgerInv'
<1> SUFFICES ASSUME LedgerInv, [Next]_vars PROVE LedgerInv'
  OBVIOUS
<1>1. ServiceInv' /\ TablesInv' /\ TypeInv
  BY ServiceNext, TablesNext DEF LedgerInv, ServiceInv
<1>2. ASSUME NEW v \in Workers, pc'[v] = pc[v], request'[v] = request[v], local'[v] = local[v]
      PROVE  PastOK(v)'
  <2>1. /\ PastOK(v) /\ (pc[v] # "idle" => request[v] \in Requests)
        /\ reconciliations \subseteq reconciliations'
        /\ \A i \in Invoices : invoice[i] # "ABSENT" => invoice'[i] # "ABSENT"
    BY <1>1, TablesGrow DEF LedgerInv, TypeInv, CommandOK
  <2> QED
    BY <1>2, <2>1, RequestKinds DEF PastOK, Op, Recorded
<1>3. ASSUME NEW w \in Workers,
             LockStep(w) \/ PlainStep(w) \/ Abort(w) \/ \E q \in Requests : Start(w, q)
      PROVE  \A v \in Workers : PastOK(v)'
  <2>1. PastOK(w)'
    BY <1>3, OwnPast DEF LedgerInv
  <2> QED
    BY <1>1, <1>2, <1>3, <2>1, OneMoves
<1>4. ASSUME UNCHANGED <<pc, request, local>> PROVE \A v \in Workers : PastOK(v)'
  BY <1>2, <1>4
<1>5. \/ \E p \in Programs : DeleteProgram(p) \/ \E t \in Totals : CreateProgram(p, t)
      \/ \E i \in Invoices : CreateInvoice(i)
      \/ UNCHANGED vars
      => UNCHANGED <<pc, request, local>>
  BY DEF DeleteProgram, CreateProgram, CreateInvoice, vars
<1>6. \A v \in Workers : PastOK(v)'
  BY <1>3, <1>4, <1>5 DEF Next
<1> QED
  BY <1>1, <1>6 DEF LedgerInv

-----------------------------------------------------------------------------
(* The refinement: what the ledger's operators are on the service's state *)

\* Operators on tables are the same in the ledger.
LEMMA SameReads ==
  /\ \A p : Ledger!Reserved(p) = Reserved(p)
  /\ \A p : Ledger!Referenced(p) = Referenced(p)
  /\ \A r : Ledger!IsNextRow(r) = IsNextRow(r)
  /\ \A e : Ledger!ExternalEventId(e) = ExternalEventId(e)
  /\ Ledger!Requests = Requests
  /\ Ledger!ReservationIds = ReservationIds
  /\ Ledger!tables = tables
BY DEF Ledger!Reserved, Reserved, Ledger!SumRows, SumRows, Ledger!RunningTotal,
   RunningTotal, Ledger!ActiveUsd, ActiveUsd, Ledger!ReservationIds, ReservationIds,
   Ledger!Referenced, Referenced, Ledger!IsNextRow, IsNextRow, Ledger!NoReservation,
   NoReservation, Ledger!ExternalEventId, ExternalEventId, Ledger!Requests, Requests,
   Ledger!ReserveRequests, ReserveRequests, Ledger!ReleaseRequests, ReleaseRequests,
   Ledger!ReconcileRequests, ReconcileRequests, Ledger!SummaryRequests, SummaryRequests,
   Ledger!tables, tables, Ledger!programVars, programVars

\* So are the writes of a COMMIT.
LEMMA SameCommits ==
  /\ \A r, p, i, usd : CommitReservation(r, p, i, usd) => Ledger!CommitReservation(r, p, i, usd)
  /\ \A r, row : CommitRelease(r, row) => Ledger!CommitRelease(r, row)
  /\ \A e, status : CommitReconciliation(e, status) => Ledger!CommitReconciliation(e, status)
BY DEF Ledger!CommitReservation, CommitReservation, Ledger!CommitRelease, CommitRelease,
   Ledger!CommitReconciliation, CommitReconciliation, Ledger!ReservationCreated,
   ReservationCreated, Ledger!ReleaseCreated, ReleaseCreated, Ledger!ReleaseRow, ReleaseRow,
   Ledger!ReconciliationRow, ReconciliationRow, Ledger!ReconciliationApplied,
   ReconciliationApplied, Ledger!OutboxRow, OutboxRow, Ledger!EventsOf, EventsOf,
   Ledger!ReleasesOf, ReleasesOf, Ledger!NextId, NextId, Ledger!Cardinality, Cardinality,
   Ledger!ExternalEventId, ExternalEventId, Ledger!programVars, programVars

\* A command that finishes is decided.
LEMMA FinishDecides ==
  ASSUME TypeInv, NEW w \in Workers, NEW answer, pc[w] \notin {"idle", "replied"},
         Finish(w, answer)
  PROVE  Ledger!Decide(w, answer)
BY DEF Finish, Ledger!Decide, TypeInv, TypeOK

\* A command whose COMMIT was applied is performed, answered or not.
LEMMA CommitPerforms ==
  ASSUME TypeInv, NEW w \in Workers, NEW answer, pc[w] \notin {"idle", "replied"},
         Commit(w, answer)
  PROVE  Ledger!Perform(w, answer)
BY FinishDecides DEF Commit, Ledger!Perform

\* A statement that is not the last is a stutter.
LEMMA GotoStutters ==
  ASSUME TypeInv, NEW w \in Workers, NEW statement, pc[w] \notin {"idle", "replied"},
         statement \notin {"idle", "replied"}, Goto(w, statement), UNCHANGED tables
  PROVE  UNCHANGED Ledger!ledgerVars
<1>1. \A v \in Workers : /\ (pc'[v] = "idle") <=> (pc[v] = "idle")
                         /\ (pc'[v] = "replied") <=> (pc[v] = "replied")
  BY DEF Goto, TypeInv, TypeOK
<1>2. [v \in Workers |-> CASE pc[v] = "idle" -> "idle" [] pc[v] = "replied" -> "replied"
                           [] OTHER -> "pending"]' =
      [v \in Workers |-> CASE pc[v] = "idle" -> "idle" [] pc[v] = "replied" -> "replied"
                           [] OTHER -> "pending"]
  BY <1>1
<1> QED
  BY <1>2, SameReads DEF Goto, Ledger!ledgerVars, Ledger!tables, tables, Ledger!programVars, programVars

\* An answer is a refusal: the tables stay.
LEMMA AnswerRefuses ==
  ASSUME TypeInv, NEW w \in Workers, NEW answer, pc[w] \notin {"idle", "replied"},
         Answer(w, answer)
  PROVE  Ledger!Refuse(w, answer)
BY FinishDecides DEF Answer, Ledger!Refuse, Ledger!tables, tables, Ledger!programVars,
   programVars

\* What the ledger does, or does not do, in a step of worker w.
Serves(w) ==
  \/ Ledger!Reserve(w) \/ Ledger!Release(w) \/ Ledger!Reconcile(w) \/ Ledger!Summary(w)
  \/ Ledger!Fail(w) \/ Ledger!Return(w)
  \/ UNCHANGED Ledger!ledgerVars

\* The statements of a reservation: its refusals give a reason that is true
\* when they are made.
LEMMA ReserveServes ==
  ASSUME LedgerInv, NEW w \in Workers, Op(w) = "reserve",
         \/ FindInvoice(w) \/ ConvertToUsd(w) \/ LockProgram(w) \/ LockInvoice(w)
         \/ SumActive(w) \/ InsertReservation(w)
  PROVE  Serves(w)
<1> DEFINE p == request[w].program
           i == request[w].invoice
<1>1. /\ TypeInv /\ ReadsOK(w) /\ PastOK(w) /\ TablesInv
      /\ pc[w] \notin {"idle", "replied"}
      /\ ProgramOf(w) = p /\ InvoiceOf(w) = i
  BY DEF LedgerInv, ServiceInv, FindInvoice, ConvertToUsd, LockProgram, LockInvoice,
     SumActive, InsertReservation, ProgramOf, InvoiceOf, Op
<1>2. p \in Programs /\ i \in Invoices
  BY <1>1, RequestKinds DEF TypeInv, CommandOK, Op
<1>3. /\ invoice[i] \in {"ABSENT", "OPEN", "RESERVED", "REPAID"}
      /\ local[w].usd \in Nat /\ total[p] \in Nat /\ Reserved(p) \in Nat
  BY <1>1, <1>2, ReservedType DEF TypeInv, TypeOK, TablesTypeOK
<1>4. ASSUME NEW answer, Answer(w, answer) PROVE Ledger!Refuse(w, answer)
  BY <1>1, <1>4, AnswerRefuses
<1>5. request[w].op = "reserve"
  BY DEF Op
<1> HIDE DEF p, i
<1>6. CASE FindInvoice(w)
  <2>1. CASE Goto(w, "convertToUsd") /\ UNCHANGED tables
    BY <1>1, <2>1, GotoStutters DEF Serves
  <2> QED
    BY <1>3, <1>4, <1>5, <1>6, <2>1 DEF FindInvoice, Serves, Ledger!Reserve, i
<1>7. CASE ConvertToUsd(w)
  <2>1. CASE Goto(w, "lockProgram") /\ UNCHANGED tables
    BY <1>1, <2>1, GotoStutters DEF Serves
  <2> QED
    BY <1>4, <1>5, <1>7, <2>1 DEF ConvertToUsd, Serves, Ledger!Reserve
<1>8. CASE LockProgram(w)
  <2>1. CASE Goto(w, "lockInvoice") /\ UNCHANGED tables
    BY <1>1, <2>1, GotoStutters DEF Serves
  <2> QED
    BY <1>1, <1>4, <1>5, <1>8, <2>1 DEF LockProgram, AfterProgramLock, Op, Serves,
       Ledger!Reserve, p
<1>9. CASE LockInvoice(w)
  <2>1. CASE Goto(w, "sumActive") /\ UNCHANGED tables
    BY <1>1, <2>1, GotoStutters DEF Serves
  <2>2. invoice[i] # "ABSENT"
    BY <1>1, <1>9 DEF LockInvoice, PastOK, i
  <2> QED
    BY <1>1, <1>3, <1>4, <1>5, <1>9, <2>1, <2>2 DEF LockInvoice, Op, Serves,
       Ledger!Reserve, i
<1>10. CASE SumActive(w)
  <2>1. CASE Goto(w, "insertReservation") /\ UNCHANGED tables
    BY <1>1, <2>1, GotoStutters DEF Serves
  <2>2. local[w].total = total[p] /\ local[w].usd \in Quotes[i]
    BY <1>1, <1>10 DEF SumActive, ReadsOK, UnderProgramLock, PastOK, i
  <2>3. CASE Reserved(p) > total[p] /\ Answer(w, "CapacityUnderflow")
    BY <1>4, <1>5, <2>3, SameReads DEF Serves, Ledger!Reserve, p
  <2>4. CASE /\ Reserved(p) <= total[p] /\ local[w].usd > total[p] - Reserved(p)
             /\ Answer(w, "InsufficientCapacity")
    <3>1. Reserved(p) + local[w].usd > total[p]
      BY <1>3, <2>4
    <3> QED
      BY <1>4, <1>5, <2>2, <2>4, <3>1, SameReads DEF Serves, Ledger!Reserve, p, i
  <2> QED
    BY <1>1, <1>10, <2>1, <2>2, <2>3, <2>4 DEF SumActive
<1>11. CASE InsertReservation(w)
  <2>1. /\ programState[p] = "LIVE" /\ invoice[i] = "OPEN"
        /\ Reserved(p) + local[w].usd <= total[p] /\ local[w].usd \in Quotes[i]
    BY <1>1, <1>11 DEF InsertReservation, ReadsOK, UnderProgramLock, UnderInvoiceLock,
       PastOK, i, Op
  <2>2. ~ HasActive(i)
    <3>1. NoReservation.status # "ACTIVE"
      BY DEF NoReservation
    <3> QED
      BY <1>1, <2>1, <3>1 DEF TablesInv, LifecycleConsistent, HasActive
  <2>3. PICK r \in ReservationIds : /\ IsNextRow(r)
                                    /\ CommitReservation(r, p, i, local[w].usd)
                                    /\ Commit(w, "Created")
    BY <1>11, <2>1, <2>2 DEF InsertReservation, p, i
  <2>4. /\ Ledger!Perform(w, "Created") /\ Ledger!IsNextRow(r)
        /\ Ledger!CommitReservation(r, p, i, local[w].usd)
        /\ r \in Ledger!ReservationIds
        /\ Ledger!Reserved(p) + local[w].usd <= total[p]
    BY <1>1, <2>1, <2>3, CommitPerforms, SameReads, SameCommits
  <2> QED
    BY <1>5, <2>1, <2>4 DEF Serves, Ledger!Reserve, p, i
<1> QED
  BY <1>6, <1>7, <1>8, <1>9, <1>10, <1>11

\* The statements of a release: the program and the invoice of a reservation
\* are there, and one that is not ACTIVE has been released.
LEMMA ReleaseServes ==
  ASSUME LedgerInv, NEW w \in Workers, Op(w) = "release",
         \/ FindReservation(w) \/ LockProgram(w) \/ LockReservation(w) \/ LockInvoice(w)
         \/ InsertRelease(w)
  PROVE  Serves(w)
<1> DEFINE r == request[w].reservation
           row == local[w].row
<1>1. /\ TypeInv /\ ReadsOK(w) /\ TablesInv
      /\ pc[w] \notin {"idle", "replied"}
      /\ ProgramOf(w) = row.program /\ InvoiceOf(w) = row.invoice
  BY DEF LedgerInv, ServiceInv, FindReservation, LockProgram, LockReservation,
     LockInvoice, InsertRelease, ProgramOf, InvoiceOf, Op
<1>2. r \in ReservationIds /\ reservation[r] \in ReservationRow \cup {NoReservation}
  BY <1>1, RequestKinds DEF TypeInv, CommandOK, Op, TypeOK, TablesTypeOK
<1>3. pc[w] # "findReservation" =>
        /\ pc[w] \in {"lockProgram", "lockReservation", "lockInvoice", "insertRelease"}
        /\ row \in ReservationRow /\ reservation[r] \in ReservationRow
        /\ reservation[r].program = row.program
  BY <1>1 DEF LockProgram, LockReservation, LockInvoice, InsertRelease, FindReservation,
     TypeInv, CommandOK, Op
<1>4. ASSUME NEW answer, Answer(w, answer) PROVE Ledger!Refuse(w, answer)
  BY <1>1, <1>4, AnswerRefuses
<1>5. request[w].op = "release"
  BY DEF Op
<1>6. /\ NoReservation.status = "NONE" /\ NoReservation \notin ReservationRow
      /\ Ledger!NoReservation = NoReservation
  BY DEF NoReservation, ReservationRow, Ledger!NoReservation
<1>7. pc[w] \in {"lockInvoice", "insertRelease"} =>
        /\ reservation[r] = row /\ row.status = "ACTIVE"
        /\ invoice[row.invoice] = "RESERVED"
        /\ ~ \E x \in releases : x.reservation = r
  <2> SUFFICES ASSUME pc[w] \in {"lockInvoice", "insertRelease"}
               PROVE  /\ reservation[r] = row /\ row.status = "ACTIVE"
                      /\ invoice[row.invoice] = "RESERVED"
                      /\ ~ \E x \in releases : x.reservation = r
    OBVIOUS
  <2>1. reservation[r] = row /\ row.status = "ACTIVE"
    BY <1>1 DEF ReadsOK, UnderProgramLock
  <2> QED
    BY <1>1, <1>2, <1>6, <2>1 DEF TablesInv, LifecycleConsistent, ReleasedExactlyOnce
<1> HIDE DEF r, row
<1>8. CASE FindReservation(w)
  <2>1. CASE Goto(w, "lockProgram") /\ UNCHANGED tables
    BY <1>1, <2>1, GotoStutters DEF Serves
  <2> QED
    BY <1>4, <1>5, <1>6, <1>8, <2>1 DEF FindReservation, Serves, Ledger!Release, r
<1>9. CASE LockProgram(w)
  <2>1. CASE Goto(w, "lockReservation") /\ UNCHANGED tables
    BY <1>1, <2>1, GotoStutters DEF Serves
  <2>2. pc[w] # "findReservation" /\ row.program \in Programs
    BY <1>3, <1>9 DEF LockProgram, ReservationRow
  <2>3. programState[row.program] = "LIVE"
    BY <1>1, <1>2, <1>3, <1>6, <2>2 DEF TablesInv, ReferencedProgramsLive, Referenced
  <2> QED
    BY <1>1, <1>9, <2>1, <2>3 DEF LockProgram, AfterProgramLock, Op
<1>10. CASE LockReservation(w)
  <2>1. CASE Goto(w, "lockInvoice") /\ UNCHANGED tables
    BY <1>1, <2>1, GotoStutters DEF Serves
  <2>2. reservation[r] \in ReservationRow
    BY <1>3, <1>10 DEF LockReservation
  <2>3. CASE reservation[r].status # "ACTIVE"
    <3>1. reservation[r].status = "RELEASED" /\ \E x \in releases : x.reservation = r
      BY <1>1, <1>2, <2>2, <2>3 DEF ReservationRow, TablesInv, ReleasedExactlyOnce
    <3> QED
      BY <1>4, <1>5, <1>10, <3>1 DEF LockReservation, Serves, Ledger!Release, r
  <2> QED
    BY <1>10, <2>1, <2>3 DEF LockReservation, r
<1>11. CASE LockInvoice(w)
  <2>1. CASE Goto(w, "insertRelease") /\ UNCHANGED tables
    BY <1>1, <2>1, GotoStutters DEF Serves
  <2> QED
    BY <1>1, <1>7, <1>11, <2>1 DEF LockInvoice, Op
<1>12. CASE InsertRelease(w)
  <2>1. CommitRelease(r, row) /\ Commit(w, "Released") /\ row = reservation[r]
        /\ row.status = "ACTIVE"
    BY <1>7, <1>12 DEF InsertRelease, r, row
  <2>2. Ledger!CommitRelease(r, reservation[r]) /\ Ledger!Perform(w, "Released")
    BY <1>1, <2>1, CommitPerforms, SameCommits
  <2> QED
    BY <1>5, <2>1, <2>2 DEF Serves, Ledger!Release, r
<1> QED
  BY <1>8, <1>9, <1>10, <1>11, <1>12

\* The statements of a treasury entry: one that is recorded is a duplicate,
\* before the transaction or after its rollback.
LEMMA ReconcileServes ==
  ASSUME LedgerInv, NEW w \in Workers, Op(w) = "reconcile",
         FindInboxEvent(w) \/ LockProgram(w) \/ ApplyEntry(w) \/ FindExisting(w)
  PROVE  Serves(w)
<1> DEFINE e == request[w].entry
<1>1. /\ TypeInv /\ ReadsOK(w) /\ PastOK(w) /\ TablesInv
      /\ pc[w] \notin {"idle", "replied"} /\ ProgramOf(w) = e.program
  BY DEF LedgerInv, ServiceInv, FindInboxEvent, LockProgram, ApplyEntry, FindExisting,
     ProgramOf, Op
<1>2. e \in Entries /\ e.version \in Nat /\ local[w].version \in Nat
  BY <1>1, RequestKinds, TablesAssumption DEF TypeInv, CommandOK, Op, TypeOK
<1>3. request[w].op = "reconcile"
  BY DEF Op
<1>4. ASSUME NEW answer, Answer(w, answer) PROVE Ledger!Refuse(w, answer)
  BY <1>1, <1>4, AnswerRefuses
<1>5. ExternalEventId(e) \in inbox <=> Recorded(e)
  BY <1>1 DEF TablesInv, InboxMatchesAudit, Recorded
<1> HIDE DEF e
<1>6. ASSUME ExternalEventId(e) \in inbox, Answer(w, "Duplicate") PROVE Serves(w)
  BY <1>3, <1>4, <1>6, SameReads DEF Serves, Ledger!Reconcile, e
<1>7. CASE FindInboxEvent(w)
  <2>1. CASE Goto(w, "lockProgram") /\ UNCHANGED tables
    BY <1>1, <2>1, GotoStutters DEF Serves
  <2> QED
    BY <1>5, <1>6, <1>7, <2>1 DEF FindInboxEvent, e
<1>8. CASE LockProgram(w)
  <2>1. CASE Goto(w, "applyEntry") /\ UNCHANGED tables
    BY <1>1, <2>1, GotoStutters DEF Serves
  <2>2. CASE programState[e.program] # "LIVE" /\ Answer(w, "ProgramNotFound")
    BY <1>3, <1>4, <2>2 DEF Serves, Ledger!Reconcile, e
  <2> QED
    BY <1>1, <1>8, <2>1, <2>2 DEF LockProgram, AfterProgramLock, Op
<1>9. CASE ApplyEntry(w)
  <2>1. CASE Goto(w, "findExisting") /\ UNCHANGED tables
    BY <1>1, <2>1, GotoStutters DEF Serves
  <2>2. programState[e.program] = "LIVE" /\ version[e.program] = local[w].version
    BY <1>1, <1>9 DEF ApplyEntry, ReadsOK, UnderProgramLock
  <2>3. CASE /\ ~ Recorded(e) /\ e.version > version[e.program]
             /\ CommitReconciliation(e, "APPLIED") /\ Commit(w, "Applied")
    BY <1>1, <1>3, <1>5, <2>2, <2>3, CommitPerforms, SameReads, SameCommits
       DEF Serves, Ledger!Reconcile, e
  <2>4. CASE /\ ~ Recorded(e) /\ ~ (e.version > version[e.program])
             /\ CommitReconciliation(e, "IGNORED_STALE") /\ Commit(w, "IgnoredStale")
    BY <1>1, <1>3, <1>5, <2>2, <2>4, CommitPerforms, SameReads, SameCommits
       DEF Serves, Ledger!Reconcile, e
  <2>5. (e.version <= local[w].version) <=> ~ (e.version > version[e.program])
    BY <1>2, <2>2
  <2> QED
    BY <1>5, <1>9, <2>1, <2>2, <2>3, <2>4, <2>5 DEF ApplyEntry, e
<1>10. CASE FindExisting(w)
  BY <1>1, <1>5, <1>6, <1>10 DEF FindExisting, PastOK, e
<1> QED
  BY <1>7, <1>8, <1>9, <1>10

\* The two reads of a capacity summary promise no common instant.
LEMMA SummaryServes ==
  ASSUME LedgerInv, NEW w \in Workers, Op(w) = "summary",
         FindProgram(w) \/ SumForSummary(w)
  PROVE  Serves(w)
<1>1. TypeInv /\ pc[w] \notin {"idle", "replied"} /\ request[w].op = "summary"
  BY DEF LedgerInv, ServiceInv, FindProgram, SumForSummary, Op
<1>2. ASSUME NEW answer, Answer(w, answer) PROVE Ledger!Refuse(w, answer)
  BY <1>1, <1>2, AnswerRefuses
<1>3. CASE Goto(w, "sumForSummary") /\ UNCHANGED tables
  BY <1>1, <1>3, GotoStutters DEF Serves
<1> QED
  BY <1>1, <1>2, <1>3 DEF FindProgram, SumForSummary, Serves, Ledger!Summary

\* Every step of a worker is one of the ledger, or none.
LEMMA StepServes ==
  ASSUME LedgerInv, NEW w \in Workers, LockStep(w) \/ PlainStep(w) \/ Abort(w)
  PROVE  Serves(w)
<1>1. TypeInv /\ CommandOK(w)
  BY DEF LedgerInv, ServiceInv, TypeInv
<1>2. CASE Abort(w)
  BY <1>1, <1>2, AnswerRefuses DEF Abort, Serves, Ledger!Fail
<1>3. CASE Return(w)
  BY <1>1, <1>3 DEF Return, Serves, Ledger!Return, TypeInv, TypeOK, Ledger!NoRequest,
     NoRequest, Ledger!NoReply, NoReply, Ledger!tables, tables, Ledger!programVars,
     programVars
<1>4. CASE LockStep(w)
  BY <1>1, <1>4, ReserveServes, ReleaseServes, ReconcileServes DEF LockStep, CommandOK,
     LockProgram, LockReservation, LockInvoice, Op
<1>5. CASE PlainStep(w) /\ ~ Return(w)
  BY <1>1, <1>5, ReserveServes, ReleaseServes, ReconcileServes, SummaryServes
     DEF PlainStep, CommandOK, FindInvoice, ConvertToUsd, SumActive, InsertReservation,
     FindReservation, InsertRelease, FindInboxEvent, ApplyEntry, FindExisting, FindProgram,
     SumForSummary, Op
<1> QED
  BY <1>2, <1>3, <1>4, <1>5

\* A request begins a command, under the same bound.
LEMMA StartBegins ==
  ASSUME LedgerInv, NEW w \in Workers, NEW q \in Requests, Start(w, q)
  PROVE  Ledger!Begin(w, q)
<1>1. FirstStatement(q.op) \notin {"idle", "replied"}
  BY RequestKinds DEF FirstStatement
<1>2. TypeOK
  BY DEF LedgerInv, ServiceInv, TypeInv
<1>3. \A S : Ledger!Cardinality(S) = Cardinality(S)
  BY DEF Ledger!Cardinality, Cardinality
<1>4. Ledger!RoomFor(q, request)
  BY <1>3 DEF Start, RoomFor, Ledger!RoomFor, Op, Ledger!ReservationIds, ReservationIds,
     Ledger!NoReservation, NoReservation
<1> QED
  BY <1>1, <1>2, <1>4 DEF Start, Ledger!Begin, TypeOK, Ledger!tables, tables,
     Ledger!programVars, programVars

\* Every step of the service is a step of the ledger, or none.
LEMMA LedgerStep ==
  ASSUME LedgerInv, [Next]_vars
  PROVE  [Ledger!LedgerNext]_(Ledger!ledgerVars)
<1>1. ASSUME NEW w \in Workers, LockStep(w) \/ PlainStep(w) \/ Abort(w)
      PROVE  [Ledger!LedgerNext]_(Ledger!ledgerVars)
  BY <1>1, StepServes DEF Serves, Ledger!LedgerNext
<1>2. ASSUME NEW w \in Workers, NEW q \in Requests, Start(w, q)
      PROVE  [Ledger!LedgerNext]_(Ledger!ledgerVars)
  BY <1>2, StartBegins, SameReads DEF Ledger!LedgerNext
<1>3. ASSUME NEW p \in Programs, DeleteProgram(p) \/ \E t \in Totals : CreateProgram(p, t)
      PROVE  [Ledger!LedgerNext]_(Ledger!ledgerVars)
  <2>1. Ledger!DeleteProgram(p) \/ \E t \in Totals : Ledger!CreateProgram(p, t)
    BY <1>3, SameReads DEF DeleteProgram, CommitDelete, CreateProgram, CommitProgram,
       Ledger!DeleteProgram, Ledger!CommitDelete, Ledger!CreateProgram, Ledger!CommitProgram
  <2> QED
    BY <2>1 DEF Ledger!LedgerNext
<1>4. ASSUME NEW i \in Invoices, CreateInvoice(i)
      PROVE  [Ledger!LedgerNext]_(Ledger!ledgerVars)
  <2>1. Ledger!CreateInvoice(i)
    BY <1>4 DEF CreateInvoice, CommitInvoice, Ledger!CreateInvoice, Ledger!CommitInvoice,
       Ledger!programVars, programVars
  <2> QED
    BY <2>1 DEF Ledger!LedgerNext
<1>5. UNCHANGED vars => UNCHANGED Ledger!ledgerVars
  BY DEF vars, tables, programVars, Ledger!ledgerVars, Ledger!tables, Ledger!programVars
<1> QED
  BY <1>1, <1>2, <1>3, <1>4, <1>5 DEF Next

\* Empty tables and idle workers are the ledger's beginning.
LEMMA LedgerStart == Init => LedgerInv /\ Ledger!LedgerInit
<1> SUFFICES ASSUME Init PROVE LedgerInv /\ Ledger!LedgerInit
  OBVIOUS
<1>1. \A w \in Workers : PastOK(w)
  BY DEF Init, PastOK
<1>2. Ledger!LedgerInit
  BY DEF Init, TablesInit, Ledger!LedgerInit, Ledger!TablesInit, Ledger!NoRequest, NoRequest,
     Ledger!NoReply, NoReply, Ledger!ReservationIds, ReservationIds, Ledger!NoReservation,
     NoReservation
<1> QED
  BY <1>1, <1>2, ServiceInit, TablesInvInit DEF LedgerInv

\* The interleaved statements, with their locks, aborts and reads outside of
\* transactions, implement the serial ledger: every command is answered as if
\* it had run alone, in one step.
THEOREM ImplementsTheLedger == Spec => ImplementsLedger
<1>1. Init => LedgerInv /\ Ledger!LedgerInit
  BY LedgerStart
<1>2. LedgerInv /\ [Next]_vars => LedgerInv'
  BY LedgerInvNext
<1>3. LedgerInv /\ [Next]_vars => [Ledger!LedgerNext]_(Ledger!ledgerVars)
  BY LedgerStep
<1> QED
  BY <1>1, <1>2, <1>3, PTL DEF Spec, ImplementsLedger, Ledger!LedgerSpec

=============================================================================
