---------------------------- MODULE UserAccounts ----------------------------
(***************************************************************************)
(* UsersService and AuthService on the users and refresh_tokens tables:     *)
(* accounts are registered, renamed and deleted, logins issue refresh       *)
(* tokens and a refresh replaces one.  Handlers interleave at every          *)
(* statement; only a rotation has a transaction of its own.                *)
(*                                                                         *)
(* A JWT stands for its row in refresh_tokens: signatures, claims, bcrypt    *)
(* and sha256 are external.                                                *)
(***************************************************************************)
EXTENDS Integers, Sequences

CONSTANTS
  Workers,    \* concurrent request handlers
  Emails,     \* e-mail addresses
  Typed,      \* those that clients send, as they type them
  Normal,     \* Normal[e]: e.trim().toLowerCase()
  MaxUsers,   \* bound: rows ever inserted into users
  MaxTokens   \* bound: rows ever inserted into refresh_tokens

NoEmail == "no email"   \* UpdateUserDto.email is optional

ASSUME AccountsAssumption ==
  /\ NoEmail \notin Emails
  /\ Typed \subseteq Emails
  /\ Normal \in [Emails -> Emails]
  /\ \A e \in Emails : Normal[Normal[e]] = Normal[e]
  /\ MaxUsers \in Nat
  /\ MaxTokens \in Nat

VARIABLES
  users,       \* email of each row of users, by id; ids are drawn once
  created,     \* ids drawn so far
  token,       \* the rows of refresh_tokens, in the order of insertion
  referenced,  \* users that invoices, reservations or releases refer to
  pc,          \* the statement a handler executes next
  request,     \* what it was asked
  owner,       \* the user id its variables hold
  reply,       \* what it answers
  taken        \* history: during the request another account had the address

tables == <<users, created, token, referenced>>
vars == <<tables, pc, request, owner, reply, taken>>

Ids == 1..MaxUsers
Live == DOMAIN users
TokenIds == 1..MaxTokens
HoldersOf(email) == {u \in Live : users[u] = email}
normalizeEmail(email) == Normal[email]

NoRequest == [op |-> "none"]
Requests ==
  [op: {"register"}, email: Typed]
    \cup [op: {"login"}, email: Typed]
    \cup [op: {"refresh"}, token: TokenIds]
    \cup [op: {"update"}, user: Ids, email: Typed \cup {NoEmail}]
    \cup [op: {"delete"}, user: Ids]

Replies == {"none", "ok", "emailTaken", "notFound", "unauthorized", "serverError"}
Statements == {"idle", "findByEmail", "insertUser", "findIdentity", "insertToken",
               "findActiveToken", "findOwner", "rotate", "updateUser",
               "deleteUser", "replied"}

FirstStatement(r) ==
  CASE r.op = "register" -> "findByEmail"
    [] r.op = "login"    -> "findIdentity"
    [] r.op = "refresh"  -> "findActiveToken"
    [] r.op = "update"   -> IF r.email = NoEmail THEN "updateUser" ELSE "findByEmail"
    [] r.op = "delete"   -> "deleteUser"

Init ==
  /\ users = [u \in {} |-> NoEmail]
  /\ created = 0
  /\ token = <<>>
  /\ referenced = {}
  /\ pc = [w \in Workers |-> "idle"]
  /\ request = [w \in Workers |-> NoRequest]
  /\ owner = [w \in Workers |-> 0]
  /\ reply = [w \in Workers |-> "none"]
  /\ taken = [w \in Workers |-> FALSE]

-----------------------------------------------------------------------------
(* Steps *)

\* An account other than the one w works on has the address w asks for.
OthersHold(w) ==
  LET r == request[w]
      own == IF r.op = "update" THEN r.user ELSE owner[w]
  IN /\ r.op \in {"register", "update"}
     /\ r.email # NoEmail
     /\ HoldersOf(normalizeEmail(r.email)) \ {own} # {}

Remember ==
  taken' = [w \in Workers |->
              taken[w] \/ (pc[w] # "replied" /\ OthersHold(w)')]

Goto(w, statement) == pc' = [pc EXCEPT ![w] = statement]
Hold(w, u) == owner' = [owner EXCEPT ![w] = u]
Continue(w, statement) == Goto(w, statement) /\ UNCHANGED <<owner, reply>>
ContinueWith(w, statement, u) ==
  Goto(w, statement) /\ Hold(w, u) /\ UNCHANGED reply
Answer(w, what) ==
  /\ Goto(w, "replied")
  /\ Hold(w, 0)
  /\ reply' = [reply EXCEPT ![w] = what]

\* A write is told to the client, or was applied and its answer got lost, of the
\* statement or of the transaction's COMMIT: then the client gets a 500.
Done(w) == Answer(w, "ok") \/ Answer(w, "serverError")

\* A row is asked for by the id or the token a client got from an answer.
Start(w, r) ==
  /\ pc[w] = "idle"
  /\ r.op = "refresh" => r.token \in DOMAIN token
  /\ r.op \in {"update", "delete"} => r.user <= created
  /\ request' = [request EXCEPT ![w] = r]
  /\ Continue(w, FirstStatement(r))
  /\ UNCHANGED tables
  /\ taken' = [taken EXCEPT ![w] = OthersHold(w)']

Return(w) ==
  /\ pc[w] = "replied"
  /\ Goto(w, "idle")
  /\ request' = [request EXCEPT ![w] = NoRequest]
  /\ reply' = [reply EXCEPT ![w] = "none"]
  /\ taken' = [taken EXCEPT ![w] = FALSE]
  /\ UNCHANGED <<tables, owner>>

\* A statement fails without effect or the process dies before it; what was
\* committed stays.
Abort(w) ==
  /\ pc[w] \notin {"idle", "replied"}
  /\ Answer(w, "serverError")
  /\ UNCHANGED <<tables, request, taken>>

At(w, statement) == pc[w] = statement /\ UNCHANGED request
Email(w) == normalizeEmail(request[w].email)

\* The unique index users_email_key lets the row have the address.
Unique(u, email) == HoldersOf(email) \subseteq {u}

-----------------------------------------------------------------------------
(* Register and login *)

\* Mutant: a user's own address counts as taken.
FindByEmailOwnToo(w) ==
  /\ At(w, "findByEmail")
  /\ IF HoldersOf(Email(w)) # {} THEN Answer(w, "emailTaken")
       ELSE Continue(w, IF request[w].op = "register" THEN "insertUser"
                                                      ELSE "updateUser")
  /\ UNCHANGED <<tables, taken>>

\* The check before the write, of create and of update.
FindByEmail(w) ==
  LET own == IF request[w].op = "update" THEN {request[w].user} ELSE {} IN
  /\ At(w, "findByEmail")
  /\ IF HoldersOf(Email(w)) \ own # {} THEN Answer(w, "emailTaken")
       ELSE Continue(w, IF request[w].op = "register" THEN "insertUser"
                                                      ELSE "updateUser")
  /\ UNCHANGED <<tables, taken>>

InsertUser(w) ==
  LET id == created + 1 IN
  /\ At(w, "insertUser")
  /\ created < MaxUsers
  /\ IF Unique(id, Email(w))
       THEN /\ users' = [u \in Live \cup {id} |->
                           IF u = id THEN Email(w) ELSE users[u]]
            /\ created' = id
            /\ ContinueWith(w, "insertToken", id) \/ Answer(w, "serverError")
       ELSE /\ Answer(w, "emailTaken")
            /\ UNCHANGED <<users, created>>
  /\ Remember
  /\ UNCHANGED <<token, referenced>>

\* bcrypt.compare says no, or the address is unknown.
FindIdentity(w) ==
  /\ At(w, "findIdentity")
  /\ \/ Answer(w, "unauthorized")
     \/ \E u \in HoldersOf(Email(w)) : ContinueWith(w, "insertToken", u)
  /\ UNCHANGED <<tables, taken>>

\* issueTokenPair; the foreign key refuses a user deleted in the meantime.
InsertToken(w) ==
  /\ At(w, "insertToken")
  /\ Len(token) < MaxTokens
  /\ IF owner[w] \in Live
       THEN /\ token' = Append(token, [user |-> owner[w], status |-> "active"])
            /\ Done(w)
       ELSE Answer(w, "serverError") /\ UNCHANGED token
  /\ UNCHANGED <<users, created, referenced, taken>>

-----------------------------------------------------------------------------
(* Refresh *)

FindActiveToken(w) ==
  LET row == token[request[w].token] IN
  /\ At(w, "findActiveToken")
  /\ IF row.status = "active"
       THEN ContinueWith(w, "findOwner", row.user)
       ELSE Answer(w, "unauthorized")
  /\ UNCHANGED <<tables, taken>>

FindOwner(w) ==
  /\ At(w, "findOwner")
  /\ IF owner[w] \in Live THEN Continue(w, "rotate") ELSE Answer(w, "unauthorized")
  /\ UNCHANGED <<tables, taken>>

\* revoke finds no row when it was deleted with its user.
Revoked(t) ==
  IF token[t].status = "deleted" THEN token
  ELSE [token EXCEPT ![t].status = "revoked"]

\* Mutant: create does not get the transaction.
RotateInTwoStatements(w) ==
  /\ At(w, "rotate")
  /\ token' = Revoked(request[w].token)
  /\ Continue(w, "insertToken")
  /\ UNCHANGED <<users, created, referenced, taken>>

\* Both statements or, if the user is gone, none.
Rotate(w) ==
  /\ At(w, "rotate")
  /\ Len(token) < MaxTokens
  /\ IF owner[w] \in Live
       THEN /\ token' = Append(Revoked(request[w].token),
                               [user |-> owner[w], status |-> "active"])
            /\ Done(w)
       ELSE Answer(w, "serverError") /\ UNCHANGED token
  /\ UNCHANGED <<users, created, referenced, taken>>

-----------------------------------------------------------------------------
(* Update and delete *)

\* Mutant: the address is stored as it was typed.
UpdateUserAsTyped(w) ==
  LET u == request[w].user
      email == request[w].email IN
  /\ At(w, "updateUser")
  /\ \/ /\ u \notin Live
        /\ Answer(w, "notFound") /\ UNCHANGED users
     \/ /\ u \in Live /\ email = NoEmail
        /\ Answer(w, "ok") /\ UNCHANGED users
     \/ /\ u \in Live /\ email # NoEmail
        /\ IF Unique(u, email)
             THEN users' = [users EXCEPT ![u] = email] /\ Done(w)
             ELSE Answer(w, "emailTaken") /\ UNCHANGED users
  /\ Remember
  /\ UNCHANGED <<created, token, referenced>>

UpdateUser(w) ==
  LET u == request[w].user IN
  /\ At(w, "updateUser")
  /\ \/ /\ u \notin Live
        /\ Answer(w, "notFound") /\ UNCHANGED users
     \/ /\ u \in Live /\ request[w].email = NoEmail
        /\ Answer(w, "ok") /\ UNCHANGED users
     \/ /\ u \in Live /\ request[w].email # NoEmail
        /\ IF Unique(u, Email(w))
             THEN users' = [users EXCEPT ![u] = Email(w)] /\ Done(w)
             ELSE Answer(w, "emailTaken") /\ UNCHANGED users
  /\ Remember
  /\ UNCHANGED <<created, token, referenced>>

WithoutTokensOf(u) ==
  [t \in DOMAIN token |->
     IF token[t].user = u THEN [token[t] EXCEPT !.status = "deleted"] ELSE token[t]]

\* Mutant: the tokens do not cascade.
DeleteUserOnly(w) ==
  LET u == request[w].user IN
  /\ At(w, "deleteUser")
  /\ u \in Live \ referenced
  /\ users' = [v \in Live \ {u} |-> users[v]]
  /\ Done(w)
  /\ UNCHANGED <<created, token, referenced, taken>>

\* ON DELETE RESTRICT of the documents, ON DELETE CASCADE of the tokens.
DeleteUser(w) ==
  LET u == request[w].user IN
  /\ At(w, "deleteUser")
  /\ \/ /\ u \notin Live
        /\ Answer(w, "notFound") /\ UNCHANGED <<users, token>>
     \/ /\ u \in Live \cap referenced
        /\ Answer(w, "serverError") /\ UNCHANGED <<users, token>>
     \/ /\ u \in Live \ referenced
        /\ users' = [v \in Live \ {u} |-> users[v]]
        /\ token' = WithoutTokensOf(u)
        /\ Done(w)
  /\ UNCHANGED <<created, referenced, taken>>

-----------------------------------------------------------------------------
(* Around the handlers *)

\* The user creates an invoice, a reservation or a release.
CreateDocument(u) ==
  /\ u \in Live \ referenced
  /\ referenced' = referenced \cup {u}
  /\ UNCHANGED <<users, created, token, pc, request, owner, reply, taken>>

\* expires_at passes.
Expire(t) ==
  /\ token[t].status = "active"
  /\ token' = [token EXCEPT ![t].status = "expired"]
  /\ UNCHANGED <<users, created, referenced, pc, request, owner, reply, taken>>

-----------------------------------------------------------------------------
Step(w) ==
  \/ \E r \in Requests : Start(w, r)
  \/ FindByEmail(w)
  \/ InsertUser(w)
  \/ FindIdentity(w)
  \/ InsertToken(w)
  \/ FindActiveToken(w)
  \/ FindOwner(w)
  \/ Rotate(w)
  \/ UpdateUser(w)
  \/ DeleteUser(w)
  \/ Abort(w)
  \/ Return(w)

Next ==
  \/ \E w \in Workers : Step(w)
  \/ \E u \in Ids : CreateDocument(u)
  \/ \E t \in DOMAIN token : Expire(t)

Spec == Init /\ [][Next]_vars

-----------------------------------------------------------------------------
(* Properties *)

\* Types, with the references that foreign keys keep.
AccountsTypeOK ==
  /\ created \in 0..MaxUsers
  /\ Live \subseteq 1..created
  /\ \A u \in Live : users[u] \in Emails
  /\ token \in Seq([user: Ids, status: {"active", "expired", "revoked", "deleted"}])
  /\ Len(token) <= MaxTokens
  /\ \A t \in DOMAIN token : token[t].status # "deleted" => token[t].user \in Live
  /\ referenced \subseteq Live
  /\ pc \in [Workers -> Statements]
  /\ request \in [Workers -> Requests \cup {NoRequest}]
  /\ owner \in [Workers -> Ids \cup {0}]
  /\ reply \in [Workers -> Replies]
  /\ taken \in [Workers -> BOOLEAN]

\* However an address is typed, and whoever registers or renames at the same
\* time, it belongs to one account: a login finds that one.
EmailNamesOneUser ==
  \A u, v \in Live : Normal[users[u]] = Normal[users[v]] => u = v

\* A request is only refused for a reason that was true while it ran: another
\* account had the address, the account is gone, the token is no longer active.
RefusalsJustified ==
  \A w \in Workers :
    LET r == request[w] IN
    /\ reply[w] = "emailTaken" => taken[w]
    /\ reply[w] = "notFound" => r.user \notin Live
    /\ reply[w] = "unauthorized" /\ r.op = "refresh" =>
         token[r.token].status # "active"

\* A refresh is never done by half: a token is revoked only in the step that gives
\* its user a new one.  Broken by a failure between the two statements, or by
\* another refresh or a deletion between them.  (A client that never hears of
\* the step holds the revoked token only, and has to log in again.)
RotationAtomic ==
  [][\A t \in DOMAIN token :
       token[t].status # "revoked" /\ token'[t].status = "revoked" =>
         /\ Len(token') = Len(token) + 1
         /\ token'[Len(token')] = [user |-> token[t].user, status |-> "active"]]_vars
=============================================================================
