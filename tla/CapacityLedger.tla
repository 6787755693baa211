--------------------------- MODULE CapacityLedger ---------------------------
(***************************************************************************)
(* What the capacity API promises its callers: every command is answered as *)
(* if it had run alone, in one step, between its request and its reply.     *)
(* A worker is one request handler (an HTTP request, or the Kafka consumer *)
(* working on one treasury entry).                                         *)
(*                                                                         *)
(* An error leaves one thing open: the command took effect as a whole, or  *)
(* not at all.  Its caller cannot tell which, and may send it again.       *)
(*                                                                         *)
(* The replies that are not here are the promise: no command is answered   *)
(* with a unique-constraint violation, with "reservation not active" or    *)
(* with "invoice not releasable", and none is refused for a reason that    *)
(* does not hold when the answer is decided.                               *)
(***************************************************************************)
EXTENDS CapacityTables

CONSTANT Workers

VARIABLES
  phase,     \* "idle", "pending" or "replied"
  request,   \* the command a worker serves
  reply      \* its outcome, while phase is "replied"

ledgerVars == <<tables, phase, request, reply>>

ReserveRequests == [op: {"reserve"}, program: Programs, invoice: Invoices]
ReleaseRequests == [op: {"release"}, reservation: ReservationIds]
ReconcileRequests == [op: {"reconcile"}, entry: Entries]
SummaryRequests == [op: {"summary"}, program: Programs]
Requests == ReserveRequests \cup ReleaseRequests \cup ReconcileRequests
              \cup SummaryRequests
NoRequest == [op |-> "none"]
NoReply == "none"

\* MaxReservations bounds the model: a reservation is only requested while
\* the table has a row left for it.
RoomFor(q, served) ==
  q.op = "reserve" =>
    Cardinality({w \in Workers : served[w].op = "reserve"})
      < Cardinality({r \in ReservationIds : reservation[r] = NoReservation})

LedgerInit ==
  /\ TablesInit
  /\ phase = [w \in Workers |-> "idle"]
  /\ request = [w \in Workers |-> NoRequest]
  /\ reply = [w \in Workers |-> NoReply]

Begin(w, q) ==
  /\ phase[w] = "idle"
  /\ RoomFor(q, request)
  /\ phase' = [phase EXCEPT ![w] = "pending"]
  /\ request' = [request EXCEPT ![w] = q]
  /\ UNCHANGED <<tables, reply>>

\* Worker w's command gets the outcome answer.
Decide(w, answer) ==
  /\ phase[w] = "pending"
  /\ phase' = [phase EXCEPT ![w] = "replied"]
  /\ reply' = [reply EXCEPT ![w] = answer]
  /\ UNCHANGED request

Refuse(w, answer) == Decide(w, answer) /\ UNCHANGED tables

\* The command has taken effect; its answer may still be lost on the way from
\* the database, and the caller is told of an error.
Perform(w, answer) == Decide(w, answer) \/ Decide(w, "Aborted")

Reserve(w) ==
  LET p == request[w].program
      i == request[w].invoice
  IN
  /\ request[w].op = "reserve"
  /\ \/ \E r \in ReservationIds, usd \in Quotes[i] :
          /\ programState[p] = "LIVE"
          /\ invoice[i] = "OPEN"
          /\ Reserved(p) + usd <= total[p]
          /\ IsNextRow(r)
          /\ CommitReservation(r, p, i, usd)
          /\ Perform(w, "Created")
     \/ invoice[i] = "ABSENT" /\ Refuse(w, "InvoiceNotFound")
     \/ invoice[i] \in {"RESERVED", "REPAID"} /\ Refuse(w, "InvoiceNotReservable")
     \/ programState[p] # "LIVE" /\ Refuse(w, "ProgramNotFound")
     \/ Reserved(p) > total[p] /\ Refuse(w, "CapacityUnderflow")
     \/ /\ \E usd \in Quotes[i] : Reserved(p) + usd > total[p]
        /\ Reserved(p) <= total[p]
        /\ Refuse(w, "InsufficientCapacity")
     \/ Refuse(w, "FxUnavailable")

Release(w) ==
  LET r == request[w].reservation IN
  /\ request[w].op = "release"
  /\ \/ /\ reservation[r].status = "ACTIVE"
        /\ CommitRelease(r, reservation[r])
        /\ Perform(w, "Released")
     \/ reservation[r].status = "RELEASED" /\ Refuse(w, "AlreadyReleased")
     \/ reservation[r] = NoReservation /\ Refuse(w, "ReservationNotFound")

Reconcile(w) ==
  LET e == request[w].entry
      p == e.program
  IN
  /\ request[w].op = "reconcile"
  /\ \/ /\ programState[p] = "LIVE"
        /\ ExternalEventId(e) \notin inbox
        /\ IF e.version > version[p]
             THEN CommitReconciliation(e, "APPLIED") /\ Perform(w, "Applied")
             ELSE CommitReconciliation(e, "IGNORED_STALE") /\ Perform(w, "IgnoredStale")
     \/ ExternalEventId(e) \in inbox /\ Refuse(w, "Duplicate")
     \/ programState[p] # "LIVE" /\ Refuse(w, "ProgramNotFound")

\* The summary promises no instant: the program row and the sum are two reads.
Summary(w) ==
  /\ request[w].op = "summary"
  /\ \/ Refuse(w, "CapacityRead")
     \/ Refuse(w, "CapacityUnderflow")
     \/ programState[request[w].program] # "LIVE" /\ Refuse(w, "ProgramNotFound")

\* A lost connection or a failed statement ends any command before its COMMIT.
Fail(w) == Refuse(w, "Aborted")

Return(w) ==
  /\ phase[w] = "replied"
  /\ phase' = [phase EXCEPT ![w] = "idle"]
  /\ request' = [request EXCEPT ![w] = NoRequest]
  /\ reply' = [reply EXCEPT ![w] = NoReply]
  /\ UNCHANGED tables

CreateProgram(p, t) ==
  /\ programState[p] = "ABSENT"
  /\ CommitProgram(p, t)
  /\ UNCHANGED <<phase, request, reply>>

DeleteProgram(p) ==
  /\ programState[p] = "LIVE"
  /\ ~ Referenced(p)
  /\ CommitDelete(p)
  /\ UNCHANGED <<phase, request, reply>>

CreateInvoice(i) ==
  /\ invoice[i] = "ABSENT"
  /\ CommitInvoice(i)
  /\ UNCHANGED <<phase, request, reply>>

LedgerNext ==
  \/ \E w \in Workers :
       \/ \E q \in Requests : Begin(w, q)
       \/ Reserve(w)
       \/ Release(w)
       \/ Reconcile(w)
       \/ Summary(w)
       \/ Fail(w)
       \/ Return(w)
  \/ \E p \in Programs : DeleteProgram(p) \/ \E t \in Totals : CreateProgram(p, t)
  \/ \E i \in Invoices : CreateInvoice(i)

LedgerSpec == LedgerInit /\ [][LedgerNext]_ledgerVars
=============================================================================
