--------------------------- MODULE ValidatedStack ---------------------------
(***************************************************************************)
(* The Docker Compose stack as scripts/local-validation sees it: the        *)
(* application's tables with the users and their refresh tokens, the        *)
(* containers, the treasury topic with the consumer's place in it, and the  *)
(* outbox publisher.  An HTTP request and a treasury entry are one step     *)
(* each, as CapacityLedger promises.                                        *)
(*                                                                         *)
(* What goes wrong outside of the driver is a disturbance, of which a       *)
(* behaviour has MaxDisturbances: a request refused or its answer lost, a   *)
(* command that fails, a message that ends in the dead letter topic, a      *)
(* crash of the application, an FX rate that moves.                         *)
(***************************************************************************)
EXTENDS CapacityTables, Sequences

CONSTANTS
  Users,            \* users the driver registers
  Keys,             \* Kafka message keys
  PartitionOf,      \* PartitionOf[k]: the treasury topic's partition of key k
  MaxDisturbances   \* bound on what goes wrong

ASSUME StackAssumption ==
  /\ DOMAIN PartitionOf = Keys
  /\ MaxDisturbances \in Nat

VARIABLES
  users,        \* rows of users
  tokens,       \* tokens[u]: for each refresh token issued, is it active
  price,        \* invoices.converted_amount_usd
  published,    \* outbox rows with published_at set
  kafka,        \* the broker is "up" or "down"
  app,          \* "up" once it listens, "starting" until then, "down"
  fx,           \* FRANKFURTER_BASE_URL: "original" or "override"
  schema,       \* migrations: "behind" or "latest"
  topic,        \* per partition, treasury messages from the committed offset on
  inHand,       \* per partition, entries of the first one that are handled
  reached,      \* history: the most that inHand was for this message
  disturbances  \* things that went wrong so far

rows == <<tables, users, tokens, price>>
containers == <<kafka, app, fx, schema>>
treasury == <<topic, inHand, reached>>
stackVars == <<rows, published, containers, treasury, disturbances>>

Partitions == {PartitionOf[k] : k \in Keys}
NoAnswer == 0
Statuses == {200, 201, 401, 409, 502}

Disturb ==
  /\ disturbances < MaxDisturbances
  /\ disturbances' = disturbances + 1

-----------------------------------------------------------------------------
(* HTTP requests.  q.user is no user's name without a valid access token. *)

\* Every address is registered once, it has the run's time stamp in it.
Register(q, status) ==
  /\ q.kind = "register"
  /\ q.user \notin users
  /\ status = 201
  /\ users' = users \cup {q.user}
  /\ tokens' = [tokens EXCEPT ![q.user] = <<TRUE>>]
  /\ UNCHANGED <<tables, price>>

Login(q, status) ==
  /\ q.kind = "login"
  /\ q.user \in users
  /\ status = 200
  /\ tokens' = [tokens EXCEPT ![q.user] = Append(@, TRUE)]
  /\ UNCHANGED <<tables, users, price>>

\* The driver presents a user's n-th token, or no refresh token at all (n = 0).
Refresh(q, status) ==
  /\ q.kind = "refresh"
  /\ IF q.user \in users /\ q.n \in DOMAIN tokens[q.user] /\ tokens[q.user][q.n]
       THEN /\ status = 200
            /\ tokens' = [tokens EXCEPT
                 ![q.user] = Append([@ EXCEPT ![q.n] = FALSE], TRUE)]
       ELSE status = 401 /\ UNCHANGED tokens
  /\ UNCHANGED <<tables, users, price>>

\* Any request that changes nothing.
Get(q, status) ==
  /\ q.kind = "get"
  /\ q.user \in users
  /\ status = 200
  /\ UNCHANGED rows

\* JwtAccessGuard, and a login nobody registered for.
Unauthorized(q, status) ==
  /\ q.kind \notin {"register", "refresh"}
  /\ q.user \notin users
  /\ status = 401
  /\ UNCHANGED rows

PostProgram(q, status) ==
  /\ q.kind = "program"
  /\ q.user \in users
  /\ programState[q.program] = "ABSENT"
  /\ status = 201
  /\ CommitProgram(q.program, q.total)
  /\ UNCHANGED <<users, tokens, price>>

\* A USD amount needs no rate; any other asks the provider fx points to.
PostInvoice(q, status) ==
  /\ q.kind = "invoice"
  /\ q.user \in users
  /\ IF q.foreign /\ fx = "override"
       THEN status = 502 /\ UNCHANGED <<tables, price>>
       ELSE /\ invoice[q.invoice] = "ABSENT"
            /\ status = 201
            /\ CommitInvoice(q.invoice)
            /\ price' = [price EXCEPT ![q.invoice] = q.usd]
  /\ UNCHANGED <<users, tokens>>

\* The reservation converts the invoice's amount again.
PostReservation(q, usd, status) ==
  LET p == q.program
      i == q.invoice IN
  /\ q.kind = "reserve"
  /\ q.user \in users
  /\ IF invoice[i] = "OPEN" /\ Reserved(p) + usd <= total[p]
       THEN /\ status = 201
            /\ \E r \in ReservationIds :
                 IsNextRow(r) /\ CommitReservation(r, p, i, usd)
       ELSE status = 409 /\ UNCHANGED tables
  /\ UNCHANGED <<users, tokens, price>>

\* The driver knows a reservation by its answer; the model by its invoice.
RowsOf(i) == {r \in ReservationIds : /\ reservation[r] # NoReservation
                                     /\ reservation[r].invoice = i}

PostRelease(q, status) ==
  /\ q.kind = "release"
  /\ q.user \in users
  /\ status = 201
  /\ \E r \in RowsOf(q.invoice) :
       IF reservation[r].status = "ACTIVE"
         THEN CommitRelease(r, reservation[r]) ELSE UNCHANGED tables
  /\ UNCHANGED <<users, tokens, price>>

Handle(q, status) ==
  \/ Register(q, status)
  \/ Login(q, status)
  \/ Refresh(q, status)
  \/ Get(q, status)
  \/ Unauthorized(q, status)
  \/ PostProgram(q, status)
  \/ PostInvoice(q, status)
  \/ q.kind = "reserve" /\ PostReservation(q, price[q.invoice], status)
  \/ PostRelease(q, status)

\* ApiClient.request: a network error is an answer with status 0.
Request(q, status) ==
  /\ \/ app = "up" /\ Handle(q, status) /\ UNCHANGED disturbances
     \/ app # "up" /\ status = NoAnswer /\ UNCHANGED <<rows, disturbances>>
     \/ /\ app = "up" /\ Disturb
        /\ status = NoAnswer
        /\ UNCHANGED rows \/ \E lost \in Statuses : Handle(q, lost)
     \/ /\ app = "up" /\ q.kind = "reserve" /\ Disturb   \* the rate has moved
        /\ \E usd \in Quotes[q.invoice] \ {price[q.invoice]} :
             PostReservation(q, usd, status)
  /\ UNCHANGED <<published, containers, treasury>>

-----------------------------------------------------------------------------
(* Treasury messages and the outbox *)

Send(key, message) ==
  topic' = [topic EXCEPT ![PartitionOf[key]] = Append(@, message)]

\* kafka-probe's publish; sent says what the caller is told.  Its producer is not
\* idempotent: when the broker's answer is lost it sends the message again.  The
\* second copy is left out, ConsumeEntry would find its entries in the inbox.
Publish(key, message, sent) ==
  /\ \/ kafka = "up" /\ Send(key, message) /\ sent /\ UNCHANGED disturbances
     \/ kafka = "down" /\ ~ sent /\ UNCHANGED <<topic, disturbances>>
     \/ /\ kafka = "up" /\ Disturb /\ ~ sent
        /\ Send(key, message) \/ UNCHANGED topic
  /\ UNCHANGED <<rows, published, containers, inHand, reached>>

Connected == app = "up" /\ kafka = "up"

ConsumeEntry(part) ==
  LET e == Head(topic[part]).entries[inHand[part] + 1]
      done == inHand[part] + 1
  IN
  /\ Connected
  /\ topic[part] # <<>>
  /\ inHand[part] < Len(Head(topic[part]).entries)
  /\ IF ExternalEventId(e) \in inbox THEN UNCHANGED tables
     ELSE CommitReconciliation(e, IF e.version > version[e.program]
                                    THEN "APPLIED" ELSE "IGNORED_STALE")
  /\ inHand' = [inHand EXCEPT ![part] = done]
  /\ reached' = [reached EXCEPT ![part] = IF @ < done THEN done ELSE @]
  /\ UNCHANGED <<users, tokens, price, published, containers, topic, disturbances>>

\* Mutant: the next message's entries are counted on from the last one's.
PassCountingOn(part) ==
  /\ topic' = [topic EXCEPT ![part] = Tail(@)]
  /\ reached' = [reached EXCEPT ![part] = 0]
  /\ UNCHANGED <<rows, published, containers, inHand>>

Pass(part) ==
  /\ topic' = [topic EXCEPT ![part] = Tail(@)]
  /\ inHand' = [inHand EXCEPT ![part] = 0]
  /\ reached' = [reached EXCEPT ![part] = 0]
  /\ UNCHANGED <<rows, published, containers>>

CommitOffset(part) ==
  /\ Connected
  /\ topic[part] # <<>>
  /\ inHand[part] = Len(Head(topic[part]).entries)
  /\ Pass(part)
  /\ UNCHANGED disturbances

\* The attempts at a message are used up.
DeadLetter(part) ==
  /\ Connected
  /\ topic[part] # <<>>
  /\ inHand[part] < Len(Head(topic[part]).entries)
  /\ Disturb
  /\ Pass(part)

PublishOutbox ==
  /\ Connected
  /\ published # outbox
  /\ published' = outbox
  /\ UNCHANGED <<rows, containers, treasury, disturbances>>

-----------------------------------------------------------------------------
(* Containers *)

\* A new process of the application starts its messages from the offset.
NewProcess ==
  /\ app' = "starting"
  /\ inHand' = [part \in Partitions |-> 0]

\* migrate.js runs before main.js, and onModuleInit needs the broker: without
\* it the process exits and Docker starts it again.
AppReady ==
  /\ app = "starting"
  /\ kafka = "up"
  /\ app' = "up"
  /\ schema' = "latest"
  /\ UNCHANGED <<rows, published, kafka, fx, treasury, disturbances>>

AppCrash ==
  /\ app = "up"
  /\ Disturb
  /\ NewProcess
  /\ UNCHANGED <<rows, published, kafka, fx, schema, topic, reached>>

KeepApp == UNCHANGED <<app, inHand>>

\* What a command of docker compose does; a changed configuration, or an image
\* built anew, recreates the application's container.
ComposeEffect(command) ==
  /\ \/ /\ command = "up"
        /\ kafka' = "up" /\ fx' = "original"
        /\ NewProcess \/ (app # "down" /\ fx = "original" /\ KeepApp)
     \/ command = "stop-kafka" /\ kafka' = "down" /\ KeepApp /\ UNCHANGED fx
     \/ command = "start-kafka" /\ kafka' = "up" /\ KeepApp /\ UNCHANGED fx
     \/ command = "restart-app" /\ NewProcess /\ UNCHANGED <<kafka, fx>>
     \/ command = "override-fx" /\ NewProcess /\ fx' = "override" /\ UNCHANGED kafka
     \/ /\ command = "restore-fx"
        /\ IF fx = "override" THEN NewProcess ELSE KeepApp
        /\ fx' = "original" /\ UNCHANGED kafka
  /\ UNCHANGED schema

\* ok: the command's exit code is 0.
Compose(command, ok) ==
  /\ \/ ComposeEffect(command) /\ ok /\ UNCHANGED disturbances
     \/ /\ Disturb /\ ~ ok
        /\ ComposeEffect(command) \/ UNCHANGED <<containers, inHand>>
  /\ UNCHANGED <<rows, published, topic, reached>>

\* migrate.js up, run in the application's container.
MigrateUp(ok) ==
  /\ \/ app = "up" /\ ok /\ schema' = "latest" /\ UNCHANGED disturbances
     \/ app # "up" /\ ~ ok /\ UNCHANGED <<schema, disturbances>>
     \/ app = "up" /\ Disturb /\ ~ ok /\ UNCHANGED schema
  /\ UNCHANGED <<rows, published, kafka, app, fx, treasury>>

\* What the stack does by itself.
StackWorks ==
  \/ \E part \in Partitions : ConsumeEntry(part) \/ CommitOffset(part)
  \/ PublishOutbox
  \/ AppReady

\* Nothing changes any more unless the driver does something.
Quiet ==
  /\ app = "starting" => kafka = "down"
  /\ Connected => /\ \A part \in Partitions : topic[part] = <<>>
                  /\ published = outbox
=============================================================================
