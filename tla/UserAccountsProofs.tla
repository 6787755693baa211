------------------------- MODULE UserAccountsProofs -------------------------
(***************************************************************************)
(* Proofs about UserAccounts, for any handlers, addresses and way of        *)
(* normalizing them: types and foreign keys, one account per address,       *)
(* justified refusals, and the atomic rotation of refresh tokens.           *)
(***************************************************************************)
EXTENDS UserAccounts, SequenceTheorems, TLAPS

-----------------------------------------------------------------------------
(* The inductive invariant *)

\* Addresses are stored as normalizeEmail returns them, and are unique.
StoredOK ==
  /\ \A u \in Live : Normal[users[u]] = users[u]
  /\ \A u, v \in Live : users[u] = users[v] => u = v

\* A handler executes a statement of what it was asked for, about rows that
\* have been inserted.
StatementOK(w) ==
  LET r == request[w] IN
  /\ pc[w] \in {"findByEmail", "insertUser"} => owner[w] = 0 /\ r.email # NoEmail
  /\ pc[w] \in {"idle", "replied"} => owner[w] = 0
  /\ pc[w] = "findByEmail" => r.op \in {"register", "update"}
  /\ pc[w] = "insertUser" => r.op = "register"
  /\ pc[w] = "findIdentity" => r.op = "login"
  /\ pc[w] \in {"findActiveToken", "findOwner", "rotate"} => r.op = "refresh"
  /\ pc[w] \in {"findOwner", "rotate"} => owner[w] = token[r.token].user
  /\ pc[w] = "updateUser" => r.op = "update"
  /\ pc[w] = "deleteUser" => r.op = "delete"
  /\ r.op = "refresh" => r.token \in DOMAIN token
  /\ r.op \in {"update", "delete"} => r.user <= created

\* The history is right while a request runs, and refusals rest on it.
AnswerOK(w) ==
  LET r == request[w] IN
  /\ pc[w] \notin {"idle", "replied"} /\ OthersHold(w) => taken[w]
  /\ pc[w] # "replied" => reply[w] = "none"
  /\ reply[w] = "emailTaken" => taken[w]
  /\ reply[w] = "notFound" => r.op \in {"update", "delete"} /\ r.user \notin Live
  /\ reply[w] = "unauthorized" /\ r.op = "refresh" => token[r.token].status # "active"

AccountsInv ==
  /\ AccountsTypeOK
  /\ StoredOK
  /\ \A w \in Workers : StatementOK(w) /\ AnswerOK(w)

-----------------------------------------------------------------------------
(* Types *)

TokenRows == [user: Ids, status: {"active", "expired", "revoked", "deleted"}]

\* The fields of a request.
LEMMA RequestFields ==
  ASSUME NEW r \in Requests
  PROVE  /\ r # NoRequest
         /\ r.op \in {"register", "login", "refresh", "update", "delete"}
         /\ r.op \in {"register", "login"} => r.email \in Typed
         /\ r.op = "refresh" => r.token \in TokenIds
         /\ r.op = "update" => r.user \in Ids /\ r.email \in Typed \cup {NoEmail}
         /\ r.op = "delete" => r.user \in Ids
         /\ FirstStatement(r) \in Statements
<1>1. r.op = "none" => FALSE
  BY DEF Requests
<1>2. QED
  BY <1>1 DEF Requests, NoRequest, FirstStatement, Statements

\* The table of refresh tokens is a sequence of rows.
LEMMA TokenSeq ==
  ASSUME NEW s \in Seq(TokenRows)
  PROVE  /\ Len(s) \in Nat /\ DOMAIN s = 1..Len(s)
         /\ \A t \in DOMAIN s : s[t] \in TokenRows
  BY LenProperties, ElementOfSeq

\* A row that is appended leaves the others as they are.
LEMMA TokenAppended ==
  ASSUME NEW s \in Seq(TokenRows), NEW row \in TokenRows
  PROVE  /\ Append(s, row) \in Seq(TokenRows)
         /\ Len(Append(s, row)) = Len(s) + 1
         /\ DOMAIN Append(s, row) = 1..(Len(s) + 1)
         /\ \A t \in DOMAIN s : Append(s, row)[t] = s[t]
         /\ Append(s, row)[Len(s) + 1] = row
  BY TokenSeq

\* A row whose status changes leaves the others as they are.
LEMMA TokenChanged ==
  ASSUME NEW s \in Seq(TokenRows), NEW t \in DOMAIN s,
         NEW what \in {"active", "expired", "revoked", "deleted"},
         NEW c, c = [s EXCEPT ![t].status = what]
  PROVE  /\ c \in Seq(TokenRows) /\ Len(c) = Len(s) /\ DOMAIN c = DOMAIN s
         /\ \A x \in DOMAIN s : c[x].user = s[x].user /\ (x # t => c[x] = s[x])
         /\ c[t].status = what
<1>1. s[t] \in TokenRows /\ t \in 1..Len(s) /\ DOMAIN s = 1..Len(s)
  BY TokenSeq
<1> DEFINE row == [s[t] EXCEPT !.status = what]
<1>2. row \in TokenRows /\ row.user = s[t].user /\ row.status = what
  BY <1>1 DEF TokenRows
<1>3. c = [s EXCEPT ![t] = row]
  BY <1>1
<1> HIDE DEF row
<1>4. /\ [s EXCEPT ![t] = row] \in Seq(TokenRows)
      /\ Len([s EXCEPT ![t] = row]) = Len(s)
      /\ \A x \in 1..Len(s) : [s EXCEPT ![t] = row][x] = IF x = t THEN row ELSE s[x]
  BY <1>1, <1>2, ExceptSeq
<1>5. QED
  BY <1>1, <1>2, <1>3, <1>4

\* Deleting the tokens of a user changes the status of those only.
LEMMA TokensDeleted ==
  ASSUME token \in Seq(TokenRows), NEW u
  PROVE  /\ WithoutTokensOf(u) \in Seq(TokenRows)
         /\ Len(WithoutTokensOf(u)) = Len(token)
         /\ DOMAIN WithoutTokensOf(u) = DOMAIN token
         /\ \A t \in DOMAIN token :
              /\ WithoutTokensOf(u)[t].user = token[t].user
              /\ token[t].user # u => WithoutTokensOf(u)[t] = token[t]
              /\ token[t].user = u => WithoutTokensOf(u)[t].status = "deleted"
<1>1. /\ Len(token) \in Nat /\ DOMAIN token = 1..Len(token)
      /\ \A t \in DOMAIN token : token[t] \in TokenRows
  BY TokenSeq
<1>2. \A t \in DOMAIN token :
        /\ WithoutTokensOf(u)[t] \in TokenRows
        /\ WithoutTokensOf(u)[t].user = token[t].user
        /\ token[t].user # u => WithoutTokensOf(u)[t] = token[t]
        /\ token[t].user = u => WithoutTokensOf(u)[t].status = "deleted"
  BY <1>1 DEF WithoutTokensOf, TokenRows
<1>3. WithoutTokensOf(u) = [t \in 1..Len(token) |-> WithoutTokensOf(u)[t]]
  BY <1>1 DEF WithoutTokensOf
<1>4. WithoutTokensOf(u) \in [1..Len(token) -> TokenRows]
  BY <1>1, <1>2, <1>3
<1>5. QED
  BY <1>1, <1>2, <1>4

-----------------------------------------------------------------------------
(* What every step does to the tables *)

\* Ids are drawn once, a token keeps its user, and one that is no longer active
\* stays so.
TablesGrow ==
  /\ created <= created'
  /\ \A t \in DOMAIN token : /\ t \in DOMAIN token'
                             /\ token'[t].user = token[t].user
                             /\ token[t].status # "active" => token'[t].status # "active"
  /\ \A u \in Live' : u \in Live \/ u > created

TablesTypeOK ==
  /\ created \in 0..MaxUsers
  /\ Live \subseteq 1..created
  /\ \A u \in Live : users[u] \in Emails
  /\ token \in Seq(TokenRows)
  /\ Len(token) <= MaxTokens
  /\ \A t \in DOMAIN token : token[t].status # "deleted" => token[t].user \in Live
  /\ referenced \subseteq Live

\* What a step owes to the tables.
TablesKept == TablesTypeOK' /\ StoredOK' /\ TablesGrow

\* A step that changes no table.
LEMMA NoTableChanged ==
  ASSUME TablesTypeOK, StoredOK, UNCHANGED tables
  PROVE  TablesKept
  BY DEF tables, TablesKept, TablesTypeOK, StoredOK, TablesGrow, Live

\* A row is added to users, with an address that the unique index lets in.
LEMMA UserInserted ==
  ASSUME TablesTypeOK, StoredOK, NEW email \in Emails, Normal[email] = email,
         created < MaxUsers, Unique(created + 1, email),
         users' = [u \in Live \cup {created + 1} |-> IF u = created + 1 THEN email ELSE users[u]],
         created' = created + 1, UNCHANGED <<token, referenced>>
  PROVE  TablesKept
<1>1. created \in Nat /\ MaxUsers \in Nat /\ created + 1 \notin Live
  BY AccountsAssumption DEF TablesTypeOK
<1>2. Live' = Live \cup {created + 1}
  BY DEF Live
<1>3. users'[created + 1] = email /\ \A u \in Live : users'[u] = users[u]
  BY <1>1
<1>4. \A u \in Live : users[u] # email
  BY <1>1 DEF Unique, HoldersOf
<1>5. TablesTypeOK'
  BY <1>1, <1>2, <1>3 DEF TablesTypeOK
<1>6. StoredOK'
  BY <1>2, <1>3, <1>4 DEF StoredOK
<1>7. TablesGrow
  BY <1>1, <1>2 DEF TablesGrow
<1>8. QED
  BY <1>5, <1>6, <1>7 DEF TablesKept

\* A row of users gets an address that the unique index lets in.
LEMMA UserRenamed ==
  ASSUME TablesTypeOK, StoredOK, NEW email \in Emails, Normal[email] = email,
         NEW u \in Live, Unique(u, email),
         users' = [users EXCEPT ![u] = email], UNCHANGED <<created, token, referenced>>
  PROVE  TablesKept
<1>1. Live' = Live
  BY DEF Live
<1>2. users'[u] = email /\ \A v \in Live : v # u => users'[v] = users[v] /\ users[v] # email
  BY DEF Live, Unique, HoldersOf
<1>3. TablesTypeOK'
  BY <1>1, <1>2 DEF TablesTypeOK
<1>4. StoredOK'
  BY <1>1, <1>2 DEF StoredOK
<1>5. TablesGrow
  BY <1>1 DEF TablesGrow, TablesTypeOK
<1>6. QED
  BY <1>3, <1>4, <1>5 DEF TablesKept

\* A user no document refers to is deleted, with its tokens.
LEMMA UserDeleted ==
  ASSUME TablesTypeOK, StoredOK, NEW u \in Live \ referenced,
         users' = [v \in Live \ {u} |-> users[v]], token' = WithoutTokensOf(u),
         UNCHANGED <<created, referenced>>
  PROVE  TablesKept
<1>1. Live' = Live \ {u} /\ \A v \in Live' : users'[v] = users[v]
  BY DEF Live
<1>2. /\ token' \in Seq(TokenRows) /\ Len(token') = Len(token) /\ DOMAIN token' = DOMAIN token
      /\ \A t \in DOMAIN token :
           /\ token'[t].user = token[t].user
           /\ token[t].user # u => token'[t] = token[t]
           /\ token[t].user = u => token'[t].status = "deleted"
  BY TokensDeleted DEF TablesTypeOK
<1>3. TablesTypeOK'
  BY <1>1, <1>2 DEF TablesTypeOK
<1>4. StoredOK'
  BY <1>1 DEF StoredOK
<1>5. \A t \in DOMAIN token : token[t].status # "active" => token'[t].status # "active"
  BY <1>2
<1>6. TablesGrow
  BY <1>1, <1>2, <1>5 DEF TablesGrow, TablesTypeOK
<1>7. QED
  BY <1>3, <1>4, <1>6 DEF TablesKept

\* An active token of a live user is inserted.
LEMMA TokenInserted ==
  ASSUME TablesTypeOK, StoredOK, NEW u \in Live, Len(token) < MaxTokens,
         token' = Append(token, [user |-> u, status |-> "active"]),
         UNCHANGED <<users, created, referenced>>
  PROVE  TablesKept
<1> DEFINE row == [user |-> u, status |-> "active"]
<1>1. row \in TokenRows /\ row.user = u
  BY AccountsAssumption DEF TablesTypeOK, TokenRows, Ids
<1> HIDE DEF row
<1>2. /\ token \in Seq(TokenRows) /\ Len(token) \in Nat /\ DOMAIN token = 1..Len(token)
      /\ MaxTokens \in Nat /\ created \in Nat
  BY TokenSeq, AccountsAssumption DEF TablesTypeOK
<1>3. /\ token' \in Seq(TokenRows) /\ Len(token') = Len(token) + 1
      /\ DOMAIN token' = 1..(Len(token) + 1)
      /\ \A t \in DOMAIN token : token'[t] = token[t]
      /\ token'[Len(token) + 1] = row
  BY <1>1, <1>2, TokenAppended DEF row
<1>4. Live' = Live
  BY DEF Live
<1>5. \A t \in DOMAIN token' : token'[t].status # "deleted" => token'[t].user \in Live
  <2>1. ASSUME NEW t \in DOMAIN token'
        PROVE  t \in DOMAIN token \/ t = Len(token) + 1
    BY <1>2, <1>3
  <2>2. QED
    BY <1>1, <1>3, <2>1 DEF TablesTypeOK
<1>6. TablesTypeOK'
  BY <1>2, <1>3, <1>4, <1>5 DEF TablesTypeOK
<1>7. StoredOK'
  BY <1>4 DEF StoredOK
<1>8. TablesGrow
  BY <1>2, <1>3, <1>4 DEF TablesGrow
<1>9. QED
  BY <1>6, <1>7, <1>8 DEF TablesKept

\* A token stops being active; its user lives on.
LEMMA TokenEnded ==
  ASSUME TablesTypeOK, StoredOK, NEW t \in DOMAIN token, token[t].status # "deleted",
         NEW what \in {"expired", "revoked"},
         token' = [token EXCEPT ![t].status = what],
         UNCHANGED <<users, created, referenced>>
  PROVE  TablesKept
<1>1. /\ token' \in Seq(TokenRows) /\ Len(token') = Len(token) /\ DOMAIN token' = DOMAIN token
      /\ \A x \in DOMAIN token : token'[x].user = token[x].user /\ (x # t => token'[x] = token[x])
      /\ token'[t].status = what
  <2>1. token \in Seq(TokenRows) /\ what \in {"active", "expired", "revoked", "deleted"}
    BY DEF TablesTypeOK
  <2>2. QED
    BY <2>1, TokenChanged, SMTT(30)
<1>2. Live' = Live
  BY DEF Live
<1>3. TablesTypeOK'
  BY <1>1, <1>2 DEF TablesTypeOK
<1>4. StoredOK'
  BY <1>2 DEF StoredOK
<1>5. TablesGrow
  BY <1>1, <1>2 DEF TablesGrow, TablesTypeOK
<1>6. QED
  BY <1>3, <1>4, <1>5 DEF TablesKept

-----------------------------------------------------------------------------
(* What every step does to the handlers *)

HandlersTypeOK ==
  /\ pc \in [Workers -> Statements]
  /\ request \in [Workers -> Requests \cup {NoRequest}]
  /\ owner \in [Workers -> Ids \cup {0}]
  /\ reply \in [Workers -> Replies]
  /\ taken \in [Workers -> BOOLEAN]

\* The types are those of the tables and those of the handlers.
LEMMA TypesSplit == AccountsTypeOK <=> TablesTypeOK /\ HandlersTypeOK
  BY DEF AccountsTypeOK, TablesTypeOK, HandlersTypeOK, TokenRows

\* A handler that does not step sees no new holder but its history says so.
Undisturbed(v) ==
  /\ pc'[v] = pc[v] /\ request'[v] = request[v]
  /\ owner'[v] = owner[v] /\ reply'[v] = reply[v]
  /\ taken[v] => taken'[v]
  /\ pc[v] \notin {"idle", "replied"} /\ OthersHold(v)' => taken'[v]

\* Then all that the invariant says of it still holds.
LEMMA UndisturbedKept ==
  ASSUME AccountsInv, TablesKept, NEW v \in Workers, Undisturbed(v)
  PROVE  StatementOK(v)' /\ AnswerOK(v)'
<1>1. /\ StatementOK(v) /\ AnswerOK(v) /\ TablesTypeOK
      /\ created \in Int /\ created' \in Int /\ TablesGrow
      /\ \A u \in Live' : u \in Int
  BY TypesSplit DEF AccountsInv, TablesKept, TablesTypeOK
<1>2. /\ request[v].op \in {"update", "delete"} => request[v].user \in Int
      /\ request[v] \in Requests \cup {NoRequest}
  BY RequestFields DEF AccountsInv, AccountsTypeOK, Ids, NoRequest
<1>3. StatementOK(v)'
  BY <1>1, <1>2 DEF StatementOK, Undisturbed, TablesGrow
<1>4. reply[v] = "notFound" =>
        request[v].op \in {"update", "delete"} /\ request[v].user \notin Live'
  BY <1>1, <1>2 DEF StatementOK, AnswerOK, TablesGrow
<1>5. reply[v] = "unauthorized" /\ request[v].op = "refresh" =>
        token'[request[v].token].status # "active"
  BY <1>1 DEF StatementOK, AnswerOK, TablesGrow
<1>6. AnswerOK(v)'
  BY <1>1, <1>4, <1>5 DEF AnswerOK, Undisturbed
<1>7. QED
  BY <1>3, <1>6

\* Without a new holder, and with the history kept, nobody is disturbed.
LEMMA NobodyDisturbed ==
  ASSUME AccountsInv, NEW v \in Workers,
         \A u \in Live' : u \in Live /\ users'[u] = users[u],
         pc'[v] = pc[v], request'[v] = request[v], owner'[v] = owner[v],
         reply'[v] = reply[v], taken'[v] = taken[v]
  PROVE  Undisturbed(v)
<1>1. OthersHold(v)' => OthersHold(v)
  BY DEF OthersHold, HoldersOf, Live, normalizeEmail
<1>2. pc[v] \notin {"idle", "replied"} /\ OthersHold(v) => taken[v]
  BY DEF AccountsInv, AnswerOK
<1>3. QED
  BY <1>1, <1>2 DEF Undisturbed

\* What a step of handler w owes to the handlers.
HandlersKept(w) ==
  /\ HandlersTypeOK'
  /\ StatementOK(w)' /\ AnswerOK(w)'
  /\ \A v \in Workers \ {w} : Undisturbed(v)

\* A step of w that pays both debts keeps the invariant.
LEMMA DebtsPaid ==
  ASSUME AccountsInv, NEW w \in Workers, TablesKept, HandlersKept(w)
  PROVE  AccountsInv'
<1>1. AccountsTypeOK' /\ StoredOK'
  BY TypesSplit DEF TablesKept, HandlersKept, AccountsTypeOK, TablesTypeOK, HandlersTypeOK,
     TokenRows
<1>2. ASSUME NEW v \in Workers
      PROVE  StatementOK(v)' /\ AnswerOK(v)'
  BY UndisturbedKept DEF HandlersKept
<1>3. QED
  BY <1>1, <1>2 DEF AccountsInv

\* The statement, the variable and the reply of w are set, and of w only.
Sets(w, statement, u, what) ==
  /\ HandlersTypeOK'
  /\ pc'[w] = statement /\ owner'[w] = u /\ reply'[w] = what
  /\ request'[w] = request[w]
  /\ \A v \in Workers \ {w} : /\ pc'[v] = pc[v] /\ request'[v] = request[v]
                              /\ owner'[v] = owner[v] /\ reply'[v] = reply[v]

\* The steps do so.
LEMMA StepsSet ==
  ASSUME HandlersTypeOK, NEW w \in Workers, UNCHANGED request,
         taken' \in [Workers -> BOOLEAN]
  PROVE  /\ \A what \in Replies : Answer(w, what) => Sets(w, "replied", 0, what)
         /\ \A s \in Statements, u \in Ids \cup {0} :
              ContinueWith(w, s, u) => Sets(w, s, u, reply[w])
         /\ \A s \in Statements : Continue(w, s) => Sets(w, s, owner[w], reply[w])
<1>1. ASSUME NEW s \in Statements, NEW u \in Ids \cup {0}, NEW what \in Replies,
             pc' = [pc EXCEPT ![w] = s], owner' = [owner EXCEPT ![w] = u],
             reply' = [reply EXCEPT ![w] = what]
      PROVE  Sets(w, s, u, what)
  BY <1>1 DEF HandlersTypeOK, Sets
<1>2. /\ owner[w] \in Ids \cup {0} /\ reply[w] \in Replies
      /\ owner = [owner EXCEPT ![w] = owner[w]]
      /\ reply = [reply EXCEPT ![w] = reply[w]]
      /\ "replied" \in Statements
  BY DEF HandlersTypeOK, Statements
<1>3. ASSUME NEW what \in Replies, Answer(w, what)
      PROVE  Sets(w, "replied", 0, what)
  BY <1>1, <1>2, <1>3 DEF Answer, Goto, Hold
<1>4. ASSUME NEW s \in Statements, NEW u \in Ids \cup {0}, ContinueWith(w, s, u)
      PROVE  Sets(w, s, u, reply[w])
  BY <1>1, <1>2, <1>4 DEF ContinueWith, Goto, Hold
<1>5. ASSUME NEW s \in Statements, Continue(w, s)
      PROVE  Sets(w, s, owner[w], reply[w])
  BY <1>1, <1>2, <1>5 DEF Continue, Goto
<1>6. QED
  BY <1>3, <1>4, <1>5

\* While the history is kept and no address finds a new holder, the others are
\* undisturbed; Remember sees to it when one may.
LEMMA OthersUndisturbed ==
  ASSUME AccountsInv, NEW w \in Workers, NEW statement, NEW u, NEW what,
         Sets(w, statement, u, what),
         \/ /\ UNCHANGED taken
            /\ \A x \in Live' : x \in Live /\ users'[x] = users[x]
         \/ Remember
  PROVE  \A v \in Workers \ {w} : Undisturbed(v)
<1>1. CASE /\ UNCHANGED taken
           /\ \A x \in Live' : x \in Live /\ users'[x] = users[x]
  BY <1>1, NobodyDisturbed DEF Sets
<1>2. CASE Remember
  BY <1>2 DEF Remember, Undisturbed, Sets
<1>3. QED
  BY <1>1, <1>2

\* Remember keeps the type of the history, and adds to it what w sees.
LEMMA Remembered ==
  ASSUME HandlersTypeOK, NEW w \in Workers, Remember
  PROVE  /\ taken' \in [Workers -> BOOLEAN]
         /\ taken[w] => taken'[w]
         /\ pc[w] # "replied" /\ OthersHold(w)' => taken'[w]
<1>1. \A v \in Workers : (taken[v] \/ (pc[v] # "replied" /\ OthersHold(v)')) \in BOOLEAN
  OBVIOUS
<1>2. QED
  BY <1>1 DEF Remember, HandlersTypeOK

-----------------------------------------------------------------------------
(* The steps of a handler *)

\* A step has paid what it owes.
Paid(w) == TablesKept /\ HandlersKept(w)

\* What the invariant says of a handler at a statement.
LEMMA AtStatement ==
  ASSUME AccountsInv, NEW w \in Workers
  PROVE  /\ TablesTypeOK /\ HandlersTypeOK /\ StoredOK /\ StatementOK(w) /\ AnswerOK(w)
         /\ request[w].op \in {"register", "login"} => request[w].email \in Typed
         /\ request[w].op = "refresh" => request[w].token \in TokenIds
         /\ request[w].op = "update" =>
              request[w].user \in Ids /\ request[w].email \in Typed \cup {NoEmail}
         /\ request[w].op = "delete" => request[w].user \in Ids
         /\ owner[w] \in Ids \cup {0} /\ 0 \notin Live
         /\ taken \in [Workers -> BOOLEAN] /\ reply[w] \in Replies
<1>1. request[w] \in Requests \cup {NoRequest}
  BY DEF AccountsInv, AccountsTypeOK
<1>2. NoRequest.op = "none"
  BY DEF NoRequest
<1>3. TablesTypeOK /\ HandlersTypeOK /\ StoredOK /\ StatementOK(w) /\ AnswerOK(w)
  BY TypesSplit DEF AccountsInv
<1>4. 0 \notin Live
  BY <1>3 DEF TablesTypeOK
<1>5. owner[w] \in Ids \cup {0} /\ taken \in [Workers -> BOOLEAN] /\ reply[w] \in Replies
  BY <1>3 DEF HandlersTypeOK
<1>6. QED
  BY <1>1, <1>2, <1>3, <1>4, <1>5, RequestFields

\* The normalized form of a typed address.
LEMMA Normalized ==
  ASSUME NEW w \in Workers, request[w].email \in Typed
  PROVE  Email(w) \in Emails /\ Normal[Email(w)] = Email(w) /\ request[w].email # NoEmail
  BY AccountsAssumption DEF Email, normalizeEmail

\* findByEmail refuses an address that another account has.
LEMMA FindByEmailPays ==
  ASSUME AccountsInv, NEW w \in Workers, FindByEmail(w)
  PROVE  Paid(w)
<1> DEFINE own == IF request[w].op = "update" THEN {request[w].user} ELSE {}
<1>1. /\ pc[w] = "findByEmail" /\ UNCHANGED <<request, taken>> /\ UNCHANGED tables
      /\ \/ Answer(w, "emailTaken") /\ HoldersOf(Email(w)) \ own # {}
         \/ Continue(w, "insertUser") /\ request[w].op = "register"
         \/ Continue(w, "updateUser") /\ request[w].op # "register"
  BY DEF FindByEmail, At
<1>2. TablesKept /\ Live' = Live /\ users' = users /\ token' = token /\ created' = created
  BY <1>1, AtStatement, NoTableChanged DEF tables, Live
<1>3. /\ owner[w] = 0 /\ reply[w] = "none" /\ request[w].email # NoEmail
      /\ request[w].op \in {"register", "update"}
      /\ OthersHold(w) => taken[w]
  BY <1>1, AtStatement DEF StatementOK, AnswerOK
<1>4. HoldersOf(Email(w)) \ own # {} => OthersHold(w)
  BY <1>3, AtStatement DEF OthersHold, HoldersOf, Email
<1>5. taken' \in [Workers -> BOOLEAN]
  BY <1>1, AtStatement
<1>6. CASE Answer(w, "emailTaken") /\ HoldersOf(Email(w)) \ own # {}
  <2>1. Sets(w, "replied", 0, "emailTaken")
    BY <1>1, <1>5, <1>6, AtStatement, StepsSet DEF Replies
  <2>2. StatementOK(w)' /\ AnswerOK(w)'
    BY <1>1, <1>2, <1>3, <1>4, <1>6, <2>1, AtStatement DEF Sets, StatementOK, AnswerOK
  <2>3. QED
    BY <1>1, <1>2, <2>1, <2>2, OthersUndisturbed DEF Paid, HandlersKept, Sets
<1>7. ASSUME NEW s \in {"insertUser", "updateUser"}, Continue(w, s),
             s = "insertUser" <=> request[w].op = "register"
      PROVE  Paid(w)
  <2>1. Sets(w, s, 0, "none")
    BY <1>1, <1>3, <1>5, <1>7, AtStatement, StepsSet DEF Statements
  <2>2. OthersHold(w)' => OthersHold(w)
    BY <1>1, <1>2, <1>3, <2>1 DEF OthersHold, HoldersOf, Sets, normalizeEmail
  <2>3. StatementOK(w)' /\ AnswerOK(w)'
    BY <1>1, <1>2, <1>3, <1>7, <2>1, <2>2, AtStatement DEF Sets, StatementOK, AnswerOK
  <2>4. QED
    BY <1>1, <1>2, <2>1, <2>3, OthersUndisturbed DEF Paid, HandlersKept, Sets
<1>8. QED
  BY <1>1, <1>3, <1>6, <1>7

\* create inserts the user, unless another one got the address meanwhile.
LEMMA InsertUserPays ==
  ASSUME AccountsInv, NEW w \in Workers, InsertUser(w)
  PROVE  Paid(w)
<1> DEFINE id == created + 1
<1>1. /\ pc[w] = "insertUser" /\ UNCHANGED <<request, token, referenced>> /\ Remember
      /\ created < MaxUsers
  BY DEF InsertUser, At
<1>2. /\ request[w].op = "register" /\ request[w].email \in Typed /\ reply[w] = "none"
      /\ Email(w) \in Emails /\ Normal[Email(w)] = Email(w)
      /\ request[w].email # NoEmail
  BY <1>1, AtStatement, Normalized DEF StatementOK, AnswerOK
<1>3. /\ taken' \in [Workers -> BOOLEAN]
      /\ taken[w] => taken'[w]
      /\ OthersHold(w)' => taken'[w]
  BY <1>1, AtStatement, Remembered
<1>4. id \in Ids
  BY <1>1, AtStatement, AccountsAssumption DEF TablesTypeOK, Ids
<1>5. CASE Unique(id, Email(w))
  <2>1. /\ users' = [u \in Live \cup {id} |-> IF u = id THEN Email(w) ELSE users[u]]
        /\ created' = id
        /\ ContinueWith(w, "insertToken", id) \/ Answer(w, "serverError")
    BY <1>5 DEF InsertUser
  <2>2. TablesKept
    BY <1>1, <1>2, <1>5, <2>1, AtStatement, UserInserted
  <2>3. CASE ContinueWith(w, "insertToken", id)
    <3>1. Sets(w, "insertToken", id, "none")
      BY <1>1, <1>2, <1>3, <1>4, <2>3, AtStatement, StepsSet DEF Statements
    <3>2. StatementOK(w)' /\ AnswerOK(w)'
      BY <1>2, <1>3, <3>1 DEF Sets, StatementOK, AnswerOK
    <3>3. QED
      BY <1>1, <2>2, <3>1, <3>2, OthersUndisturbed DEF Paid, HandlersKept, Sets
  <2>4. CASE Answer(w, "serverError")
    <3>1. Sets(w, "replied", 0, "serverError")
      BY <1>1, <1>3, <2>4, AtStatement, StepsSet DEF Replies
    <3>2. StatementOK(w)' /\ AnswerOK(w)'
      BY <1>2, <1>3, <3>1 DEF Sets, StatementOK, AnswerOK
    <3>3. QED
      BY <1>1, <2>2, <3>1, <3>2, OthersUndisturbed DEF Paid, HandlersKept, Sets
  <2>5. QED
    BY <2>1, <2>3, <2>4
<1>6. CASE ~ Unique(id, Email(w))
  <2>1. Answer(w, "emailTaken") /\ UNCHANGED <<users, created>>
    BY <1>6 DEF InsertUser
  <2>2. TablesKept
    BY <1>1, <2>1, AtStatement, NoTableChanged DEF tables
  <2>3. Sets(w, "replied", 0, "emailTaken")
    BY <1>1, <1>3, <2>1, AtStatement, StepsSet DEF Replies
  <2>4. OthersHold(w)'
    <3>1. PICK u \in HoldersOf(Email(w)) : u # id
      BY <1>6 DEF Unique
    <3>2. u \in Live' /\ users'[u] = Normal[request'[w].email] /\ u # 0
      BY <2>1, <2>3, <3>1, AtStatement DEF HoldersOf, Live, Email, Sets, normalizeEmail
    <3>3. request'[w].op = "register" /\ request'[w].email # NoEmail /\ owner'[w] = 0
      BY <1>2, <2>3 DEF Sets
    <3>4. QED
      BY <3>2, <3>3 DEF OthersHold, HoldersOf, Live, normalizeEmail
  <2>5. StatementOK(w)' /\ AnswerOK(w)'
    BY <1>2, <1>3, <2>3, <2>4 DEF Sets, StatementOK, AnswerOK
  <2>6. QED
    BY <1>1, <2>2, <2>3, <2>5, OthersUndisturbed DEF Paid, HandlersKept, Sets
<1>7. QED
  BY <1>5, <1>6

\* update renames the user, unless another one got the address meanwhile.
LEMMA UpdateUserPays ==
  ASSUME AccountsInv, NEW w \in Workers, UpdateUser(w)
  PROVE  Paid(w)
<1> DEFINE user == request[w].user
<1>1. /\ pc[w] = "updateUser" /\ UNCHANGED <<request, created, token, referenced>> /\ Remember
  BY DEF UpdateUser, At
<1>2. /\ request[w].op = "update" /\ user \in Ids /\ user <= created /\ reply[w] = "none"
      /\ request[w].email # NoEmail => request[w].email \in Typed
  BY <1>1, AtStatement DEF StatementOK, AnswerOK
<1>3. /\ taken' \in [Workers -> BOOLEAN]
      /\ taken[w] => taken'[w]
      /\ OthersHold(w)' => taken'[w]
  BY <1>1, AtStatement, Remembered
<1>4. \A what \in {"ok", "notFound", "emailTaken", "serverError"} :
        Answer(w, what) => Sets(w, "replied", 0, what)
  BY <1>1, <1>3, AtStatement, StepsSet DEF Replies
<1>5. UNCHANGED users => TablesKept
  BY <1>1, AtStatement, NoTableChanged DEF tables
<1>6. ASSUME NEW what \in {"ok", "notFound", "emailTaken", "serverError"}, Answer(w, what), TablesKept,
             what = "notFound" => user \notin Live',
             what = "emailTaken" => OthersHold(w)'
      PROVE  Paid(w)
  <2>1. Sets(w, "replied", 0, what)
    BY <1>4, <1>6
  <2>2. StatementOK(w)' /\ AnswerOK(w)'
    BY <1>1, <1>2, <1>3, <1>6, <2>1 DEF Sets, StatementOK, AnswerOK
  <2>3. QED
    BY <1>1, <1>6, <2>1, <2>2, OthersUndisturbed DEF Paid, HandlersKept, Sets
<1>7. CASE user \notin Live /\ Answer(w, "notFound") /\ UNCHANGED users
  BY <1>5, <1>6, <1>7 DEF Live
<1>8. CASE Answer(w, "ok") /\ UNCHANGED users
  BY <1>5, <1>6, <1>8
<1>9. CASE /\ user \in Live /\ request[w].email # NoEmail
           /\ Unique(user, Email(w))
           /\ users' = [users EXCEPT ![user] = Email(w)] /\ Done(w)
  <2>1. Email(w) \in Emails /\ Normal[Email(w)] = Email(w)
    BY <1>2, <1>9, Normalized
  <2>2. TablesKept
    BY <1>1, <1>9, <2>1, AtStatement, UserRenamed
  <2>3. QED
    BY <1>6, <1>9, <2>2 DEF Done
<1>10. CASE /\ user \in Live /\ request[w].email # NoEmail
            /\ ~ Unique(user, Email(w))
            /\ Answer(w, "emailTaken") /\ UNCHANGED users
  <2>1. PICK u \in HoldersOf(Email(w)) : u # user
    BY <1>10 DEF Unique
  <2>2. OthersHold(w)'
    BY <1>1, <1>2, <1>10, <2>1 DEF OthersHold, HoldersOf, Live, Email, normalizeEmail
  <2>3. QED
    BY <1>5, <1>6, <1>10, <2>2
<1>11. QED
  BY <1>7, <1>8, <1>9, <1>10 DEF UpdateUser

\* login finds the user of the address, or not.
LEMMA FindIdentityPays ==
  ASSUME AccountsInv, NEW w \in Workers, FindIdentity(w)
  PROVE  Paid(w)
<1>1. /\ pc[w] = "findIdentity" /\ UNCHANGED <<request, taken>> /\ UNCHANGED tables
      /\ request[w].op = "login" /\ reply[w] = "none"
  BY AtStatement DEF FindIdentity, At, StatementOK, AnswerOK
<1>2. TablesKept /\ Live' = Live /\ users' = users
  BY <1>1, AtStatement, NoTableChanged DEF tables, Live
<1>3. taken' \in [Workers -> BOOLEAN]
  BY <1>1, AtStatement
<1>4. ~ OthersHold(w)' \/ request'[w].op # "login"
  BY DEF OthersHold
<1>5. ASSUME NEW s, NEW u, NEW what, Sets(w, s, u, what),
             \/ s = "replied" /\ u = 0 /\ what = "unauthorized"
             \/ s = "insertToken" /\ what = "none"
      PROVE  Paid(w)
  <2>1. StatementOK(w)' /\ AnswerOK(w)'
    BY <1>1, <1>4, <1>5 DEF Sets, StatementOK, AnswerOK
  <2>2. QED
    BY <1>1, <1>2, <1>5, <2>1, OthersUndisturbed DEF Paid, HandlersKept, Sets
<1>6. CASE Answer(w, "unauthorized")
  <2>1. Sets(w, "replied", 0, "unauthorized")
    BY <1>1, <1>3, <1>6, AtStatement, StepsSet DEF Replies
  <2>2. QED
    BY <1>5, <2>1
<1>7. ASSUME NEW u \in HoldersOf(Email(w)), ContinueWith(w, "insertToken", u)
      PROVE  Paid(w)
  <2>1. u \in Ids
    BY AtStatement, AccountsAssumption DEF HoldersOf, TablesTypeOK, Ids
  <2>2. Sets(w, "insertToken", u, "none")
    BY <1>1, <1>3, <1>7, <2>1, AtStatement, StepsSet DEF Statements
  <2>3. QED
    BY <1>5, <2>2
<1>8. QED
  BY <1>6, <1>7 DEF FindIdentity

\* An answer "ok" or "serverError" needs no reason, if no address found a new
\* holder.
LEMMA PlainAnswerPays ==
  ASSUME AccountsInv, NEW w \in Workers, TablesKept, UNCHANGED <<request, taken>>,
         \A u \in Live' : u \in Live /\ users'[u] = users[u],
         NEW what \in {"ok", "serverError"}, Answer(w, what)
  PROVE  Paid(w)
<1>1. Sets(w, "replied", 0, what)
  BY AtStatement, StepsSet DEF Replies
<1>2. /\ request[w].op = "refresh" => request[w].token \in DOMAIN token'
      /\ request[w].op \in {"update", "delete"} => request[w].user <= created'
  <2>1. /\ request[w].op = "refresh" => request[w].token \in DOMAIN token
        /\ request[w].op \in {"update", "delete"} =>
             request[w].user <= created /\ request[w].user \in Int
        /\ created \in Int /\ created' \in Int
    BY AtStatement DEF StatementOK, TablesTypeOK, TablesKept, Ids
  <2>2. QED
    BY <2>1 DEF TablesKept, TablesGrow
<1>3. StatementOK(w)' /\ AnswerOK(w)'
  BY <1>1, <1>2 DEF Sets, StatementOK, AnswerOK
<1>4. QED
  BY <1>1, <1>3, OthersUndisturbed DEF Paid, HandlersKept, Sets

\* issueTokenPair inserts a token of a user that is still there.
LEMMA InsertTokenPays ==
  ASSUME AccountsInv, NEW w \in Workers, InsertToken(w)
  PROVE  Paid(w)
<1>1. /\ UNCHANGED <<request, taken, users, created, referenced>> /\ Len(token) < MaxTokens
      /\ Live' = Live
  BY DEF InsertToken, At, Live
<1>2. CASE owner[w] \in Live
  <2>1. TablesKept
    BY <1>1, <1>2, AtStatement, TokenInserted DEF InsertToken
  <2>2. QED
    BY <1>1, <1>2, <2>1, PlainAnswerPays DEF InsertToken, Done
<1>3. CASE owner[w] \notin Live
  <2>1. TablesKept
    BY <1>1, <1>3, AtStatement, NoTableChanged DEF InsertToken, tables
  <2>2. QED
    BY <1>1, <1>3, <2>1, PlainAnswerPays DEF InsertToken
<1>4. QED
  BY <1>2, <1>3

\* refresh finds an active token and its user, or refuses a token that is not
\* active any more.
LEMMA FindTokenPays ==
  ASSUME AccountsInv, NEW w \in Workers, FindActiveToken(w) \/ FindOwner(w)
  PROVE  Paid(w)
<1> DEFINE row == token[request[w].token]
<1>1. /\ UNCHANGED <<request, taken>> /\ UNCHANGED tables
      /\ pc[w] \in {"findActiveToken", "findOwner"}
  BY DEF FindActiveToken, FindOwner, At
<1>2. /\ request[w].op = "refresh" /\ request[w].token \in DOMAIN token /\ reply[w] = "none"
      /\ pc[w] = "findOwner" => owner[w] = row.user
  BY <1>1, AtStatement DEF StatementOK, AnswerOK
<1>3. row.user \in Ids /\ (row.status # "deleted" => row.user \in Live)
  BY <1>2, AtStatement, TokenSeq DEF TablesTypeOK, TokenRows
<1>4. TablesKept /\ Live' = Live /\ users' = users /\ token' = token
  BY <1>1, AtStatement, NoTableChanged DEF tables, Live
<1>5. taken' \in [Workers -> BOOLEAN]
  BY <1>1, AtStatement
<1>6. ~ OthersHold(w)' \/ request'[w].op # "refresh"
  BY DEF OthersHold
<1>7. ASSUME NEW s, NEW u, NEW what, Sets(w, s, u, what),
             \/ s = "replied" /\ u = 0 /\ what = "unauthorized" /\ row.status # "active"
             \/ s \in {"findOwner", "rotate"} /\ u = row.user /\ what = "none"
      PROVE  Paid(w)
  <2>1. StatementOK(w)' /\ AnswerOK(w)'
    BY <1>1, <1>2, <1>4, <1>6, <1>7 DEF Sets, StatementOK, AnswerOK
  <2>2. QED
    BY <1>1, <1>4, <1>7, <2>1, OthersUndisturbed DEF Paid, HandlersKept, Sets
<1>8. CASE Answer(w, "unauthorized") /\ row.status # "active"
  <2>1. Sets(w, "replied", 0, "unauthorized")
    BY <1>1, <1>5, <1>8, AtStatement, StepsSet DEF Replies
  <2>2. QED
    BY <1>7, <1>8, <2>1
<1>9. CASE ContinueWith(w, "findOwner", row.user)
  <2>1. Sets(w, "findOwner", row.user, "none")
    BY <1>1, <1>2, <1>3, <1>5, <1>9, AtStatement, StepsSet DEF Statements
  <2>2. QED
    BY <1>7, <2>1
<1>10. CASE Continue(w, "rotate") /\ pc[w] = "findOwner"
  <2>1. Sets(w, "rotate", row.user, "none")
    BY <1>1, <1>2, <1>5, <1>10, AtStatement, StepsSet DEF Statements
  <2>2. QED
    BY <1>7, <2>1
<1>11. QED
  <2>1. CASE FindActiveToken(w)
    BY <1>8, <1>9, <2>1 DEF FindActiveToken
  <2>2. CASE FindOwner(w)
    <3>1. pc[w] = "findOwner"
      BY <2>2 DEF FindOwner, At
    <3>2. owner[w] \notin Live => row.status # "active"
      BY <1>2, <1>3, <3>1
    <3>3. QED
      BY <1>8, <1>10, <2>2, <3>1, <3>2 DEF FindOwner
  <2>3. QED
    BY <2>1, <2>2

\* A refresh revokes the token and inserts a new one for its user.
LEMMA RotatePays ==
  ASSUME AccountsInv, NEW w \in Workers, Rotate(w)
  PROVE  Paid(w)
<1> DEFINE t == request[w].token
           revoked == Revoked(t)
           row == [user |-> owner[w], status |-> "active"]
<1>1. /\ pc[w] = "rotate" /\ UNCHANGED <<request, taken, users, created, referenced>>
      /\ Len(token) < MaxTokens /\ Live' = Live
  BY DEF Rotate, At, Live
<1>2. /\ request[w].op = "refresh" /\ t \in DOMAIN token /\ owner[w] = token[t].user
  BY <1>1, AtStatement DEF StatementOK
<1>3. CASE owner[w] \in Live
  <2>1. token' = Append(revoked, row) /\ Done(w)
    BY <1>3 DEF Rotate
  <2>2. /\ revoked \in Seq(TokenRows) /\ Len(revoked) = Len(token)
        /\ DOMAIN revoked = DOMAIN token
        /\ \A x \in DOMAIN token :
             /\ revoked[x].user = token[x].user
             /\ revoked[x].status = "active" => token[x].status = "active"
             /\ revoked[x].status # "deleted" => token[x].status # "deleted"
    <3>1. CASE token[t].status = "deleted"
      BY <3>1, AtStatement DEF Revoked, TablesTypeOK
    <3>2. CASE token[t].status # "deleted"
      <4>1. revoked = [token EXCEPT ![t].status = "revoked"] /\ token \in Seq(TokenRows)
        BY <3>2, AtStatement DEF Revoked, TablesTypeOK
      <4> HIDE DEF revoked
      <4>2. /\ revoked \in Seq(TokenRows) /\ Len(revoked) = Len(token)
            /\ DOMAIN revoked = DOMAIN token
            /\ \A x \in DOMAIN token :
                 revoked[x].user = token[x].user /\ (x # t => revoked[x] = token[x])
            /\ revoked[t].status = "revoked"
        BY <1>2, <4>1, TokenChanged
      <4>3. QED
        BY <3>2, <4>2
    <3>3. QED
      BY <3>1, <3>2
  <2> HIDE DEF revoked
  <2>3. row \in TokenRows /\ row.user \in Live
    BY <1>3, AtStatement, AccountsAssumption DEF TokenRows, TablesTypeOK, Ids
  <2> HIDE DEF row
  <2>4. /\ token' \in Seq(TokenRows) /\ Len(token') = Len(token) + 1
        /\ DOMAIN token' = 1..(Len(token) + 1)
        /\ \A x \in DOMAIN token : token'[x] = revoked[x]
        /\ token'[Len(token) + 1] = row
    BY <2>1, <2>2, <2>3, TokenAppended
  <2>5. /\ Len(token) \in Nat /\ DOMAIN token = 1..Len(token) /\ MaxTokens \in Nat
        /\ created \in Nat
    BY AtStatement, TokenSeq, AccountsAssumption DEF TablesTypeOK
  <2>6. \A x \in DOMAIN token' : token'[x].status # "deleted" => token'[x].user \in Live
    <3>1. \A x \in DOMAIN token' : x \in DOMAIN token \/ x = Len(token) + 1
      BY <2>4, <2>5
    <3>2. \A x \in DOMAIN token : token[x].status # "deleted" => token[x].user \in Live
      BY AtStatement DEF TablesTypeOK
    <3>3. QED
      BY <2>2, <2>3, <2>4, <3>1, <3>2
  <2>7. TablesTypeOK'
    BY <1>1, <2>4, <2>5, <2>6, AtStatement DEF TablesTypeOK
  <2>8. StoredOK'
    BY <1>1, AtStatement DEF StoredOK
  <2>9. TablesGrow
    BY <1>1, <2>2, <2>4, <2>5 DEF TablesGrow
  <2>10. QED
    BY <1>1, <2>1, <2>7, <2>8, <2>9, PlainAnswerPays DEF TablesKept, Done
<1>4. CASE owner[w] \notin Live
  <2>1. Answer(w, "serverError") /\ UNCHANGED token
    BY <1>4 DEF Rotate
  <2>2. TablesKept
    BY <1>1, <2>1, AtStatement, NoTableChanged DEF tables
  <2>3. QED
    BY <1>1, <2>1, <2>2, PlainAnswerPays
<1>5. QED
  BY <1>3, <1>4

\* delete removes a user that no document refers to, with its tokens.
LEMMA DeleteUserPays ==
  ASSUME AccountsInv, NEW w \in Workers, DeleteUser(w)
  PROVE  Paid(w)
<1> DEFINE user == request[w].user
<1>1. /\ pc[w] = "deleteUser" /\ UNCHANGED <<request, created, referenced, taken>>
  BY DEF DeleteUser, At
<1>2. request[w].op = "delete" /\ reply[w] = "none" /\ user \in Ids /\ user <= created
  BY <1>1, AtStatement DEF StatementOK, AnswerOK
<1>3. CASE user \notin Live /\ Answer(w, "notFound") /\ UNCHANGED <<users, token>>
  <2>1. TablesKept /\ Live' = Live
    BY <1>1, <1>3, AtStatement, NoTableChanged DEF tables, Live
  <2>2. Sets(w, "replied", 0, "notFound")
    BY <1>1, <1>3, AtStatement, StepsSet DEF Replies
  <2>3. StatementOK(w)' /\ AnswerOK(w)'
    BY <1>1, <1>2, <1>3, <2>1, <2>2 DEF Sets, StatementOK, AnswerOK
  <2>4. QED
    BY <1>1, <1>3, <2>1, <2>2, <2>3, OthersUndisturbed DEF Paid, HandlersKept, Sets
<1>4. CASE Answer(w, "serverError") /\ UNCHANGED <<users, token>>
  <2>1. TablesKept /\ Live' = Live
    BY <1>1, <1>4, AtStatement, NoTableChanged DEF tables, Live
  <2>2. QED
    BY <1>1, <1>4, <2>1, PlainAnswerPays
<1>5. CASE /\ user \in Live \ referenced
           /\ users' = [v \in Live \ {user} |-> users[v]]
           /\ token' = WithoutTokensOf(user)
           /\ Done(w)
  <2>1. TablesKept
    BY <1>1, <1>5, AtStatement, UserDeleted
  <2>2. \A u \in Live' : u \in Live /\ users'[u] = users[u]
    BY <1>5 DEF Live
  <2>3. QED
    BY <1>1, <1>5, <2>1, <2>2, PlainAnswerPays DEF Done
<1>6. QED
  BY <1>3, <1>4, <1>5 DEF DeleteUser

\* A request starts, is cut short or is answered without touching a table.
LEMMA AroundPays ==
  ASSUME AccountsInv, NEW w \in Workers,
         (\E r \in Requests : Start(w, r)) \/ Abort(w) \/ Return(w)
  PROVE  Paid(w)
<1>1. UNCHANGED tables
  BY DEF Start, Abort, Return
<1>2. TablesKept /\ Live' = Live /\ UNCHANGED <<users, created, token>>
  BY <1>1, AtStatement, NoTableChanged DEF tables, Live
<1>3. ASSUME NEW r \in Requests, Start(w, r)
      PROVE  Paid(w)
  <2>1. /\ pc[w] = "idle" /\ owner[w] = 0 /\ reply[w] = "none"
        /\ r.op = "refresh" => r.token \in DOMAIN token
        /\ r.op \in {"update", "delete"} => r.user <= created
        /\ request' = [request EXCEPT ![w] = r]
        /\ pc' = [pc EXCEPT ![w] = FirstStatement(r)]
        /\ UNCHANGED <<owner, reply>>
        /\ taken' = [taken EXCEPT ![w] = OthersHold(w)']
    BY <1>3, AtStatement DEF Start, Continue, Goto, StatementOK, AnswerOK
  <2>2. FirstStatement(r) \in Statements
    BY RequestFields
  <2>3. OthersHold(w)' \in BOOLEAN
    BY DEF OthersHold
  <2>4. taken' \in [Workers -> BOOLEAN] /\ taken'[w] = OthersHold(w)'
    BY <2>1, <2>3, AtStatement
  <2>5. HandlersTypeOK'
    BY <2>1, <2>2, <2>4, AtStatement DEF HandlersTypeOK
  <2>6. pc'[w] = FirstStatement(r) /\ request'[w] = r
    BY <2>1, AtStatement DEF HandlersTypeOK
  <2>7. /\ r.op \in {"register", "login", "refresh", "update", "delete"}
        /\ r.op = "register" => r.email \in Typed /\ r.email # NoEmail
    BY RequestFields, AccountsAssumption
  <2>8. StatementOK(w)'
    BY <1>2, <2>1, <2>6, <2>7 DEF StatementOK, FirstStatement
  <2>9. AnswerOK(w)'
    BY <2>1, <2>4 DEF AnswerOK
  <2>10. \A v \in Workers \ {w} : Undisturbed(v)
    BY <1>2, <2>1, AtStatement, NobodyDisturbed DEF HandlersTypeOK
  <2>11. QED
    BY <1>2, <2>5, <2>8, <2>9, <2>10 DEF Paid, HandlersKept
<1>4. CASE Abort(w)
  BY <1>2, <1>4, PlainAnswerPays DEF Abort
<1>5. CASE Return(w)
  <2>1. /\ pc' = [pc EXCEPT ![w] = "idle"] /\ request' = [request EXCEPT ![w] = NoRequest]
        /\ reply' = [reply EXCEPT ![w] = "none"] /\ taken' = [taken EXCEPT ![w] = FALSE]
        /\ UNCHANGED owner /\ pc[w] = "replied" /\ owner[w] = 0
    BY <1>5, AtStatement DEF Return, Goto, StatementOK
  <2>2. "idle" \in Statements /\ "none" \in Replies
    BY DEF Statements, Replies
  <2>3. taken' \in [Workers -> BOOLEAN]
    BY <2>1, AtStatement
  <2>4. HandlersTypeOK'
    BY <2>1, <2>2, <2>3, AtStatement DEF HandlersTypeOK
  <2>5. /\ pc'[w] = "idle" /\ request'[w] = NoRequest /\ reply'[w] = "none"
        /\ owner'[w] = 0 /\ NoRequest.op = "none"
    BY <2>1, AtStatement DEF HandlersTypeOK, NoRequest
  <2>6. StatementOK(w)' /\ AnswerOK(w)'
    BY <2>5 DEF StatementOK, AnswerOK
  <2>7. \A v \in Workers \ {w} : Undisturbed(v)
    BY <1>2, <2>1, AtStatement, NobodyDisturbed DEF HandlersTypeOK
  <2>8. QED
    BY <1>2, <2>4, <2>6, <2>7 DEF Paid, HandlersKept
<1>6. QED
  BY <1>3, <1>4, <1>5

\* A document is created, a token expires, or nothing happens.
LEMMA SurroundingsKeep ==
  ASSUME AccountsInv,
         \/ \E u \in Ids : CreateDocument(u)
         \/ \E t \in DOMAIN token : Expire(t)
         \/ UNCHANGED vars
  PROVE  AccountsInv'
<1>1. /\ UNCHANGED <<users, created, pc, request, owner, reply, taken>>
      /\ TablesTypeOK /\ StoredOK /\ HandlersTypeOK
  BY TypesSplit DEF CreateDocument, Expire, vars, tables, AccountsInv
<1>2. TablesKept
  <2>1. ASSUME NEW u \in Ids, CreateDocument(u)
        PROVE  TablesKept
    BY <1>1, <2>1 DEF CreateDocument, TablesKept, TablesTypeOK, StoredOK, TablesGrow, Live
  <2>2. ASSUME NEW t \in DOMAIN token, Expire(t)
        PROVE  TablesKept
    BY <1>1, <2>2, TokenEnded DEF Expire
  <2>3. CASE UNCHANGED vars
    BY <1>1, <2>3, NoTableChanged DEF vars
  <2>4. QED
    BY <2>1, <2>2, <2>3
<1>3. HandlersTypeOK'
  BY <1>1 DEF HandlersTypeOK
<1>4. ASSUME NEW v \in Workers
      PROVE  StatementOK(v)' /\ AnswerOK(v)'
  <2>1. Undisturbed(v)
    BY <1>1, NobodyDisturbed DEF Live
  <2>2. QED
    BY <1>2, <2>1, UndisturbedKept
<1>5. AccountsTypeOK' /\ StoredOK'
  BY <1>2, <1>3, TypesSplit DEF TablesKept, AccountsTypeOK, TablesTypeOK, HandlersTypeOK,
     TokenRows
<1>6. QED
  BY <1>4, <1>5 DEF AccountsInv

\* Every step keeps the invariant.
LEMMA AccountsNext ==
  ASSUME AccountsInv, [Next]_vars
  PROVE  AccountsInv'
<1>1. ASSUME NEW w \in Workers, Step(w)
      PROVE  AccountsInv'
  <2>1. Paid(w)
    BY <1>1, FindByEmailPays, InsertUserPays, UpdateUserPays, FindIdentityPays,
       InsertTokenPays, FindTokenPays, RotatePays, DeleteUserPays, AroundPays DEF Step
  <2>2. QED
    BY <2>1, DebtsPaid DEF Paid
<1>2. QED
  BY <1>1, SurroundingsKeep DEF Next

-----------------------------------------------------------------------------
(* Theorems *)

\* The inductive invariant holds in every behaviour.
THEOREM AccountsInvariant == Spec => []AccountsInv
<1>1. Init => AccountsInv
  <2> SUFFICES ASSUME Init
               PROVE  AccountsInv
    OBVIOUS
  <2>1. Live = {} /\ token = <<>> /\ created = 0 /\ referenced = {}
    BY DEF Init, Live
  <2>2. token \in Seq(TokenRows) /\ Len(token) = 0 /\ DOMAIN token = {}
    BY <2>1
  <2>3. TablesTypeOK
    BY <2>1, <2>2, AccountsAssumption DEF TablesTypeOK
  <2>4. StoredOK
    BY <2>1 DEF StoredOK
  <2>5. "idle" \in Statements /\ "none" \in Replies /\ NoRequest.op = "none"
    BY DEF Statements, Replies, NoRequest
  <2>6. HandlersTypeOK
    BY <2>5 DEF Init, HandlersTypeOK
  <2>7. ASSUME NEW w \in Workers
        PROVE  StatementOK(w) /\ AnswerOK(w)
    <3>1. /\ pc[w] = "idle" /\ request[w] = NoRequest /\ owner[w] = 0
          /\ reply[w] = "none"
      BY DEF Init
    <3>2. QED
      BY <2>5, <3>1 DEF StatementOK, AnswerOK
  <2>8. QED
    BY <2>3, <2>4, <2>6, <2>7, TypesSplit DEF AccountsInv
<1>2. AccountsInv /\ [Next]_vars => AccountsInv'
  BY AccountsNext
<1>3. QED
  BY <1>1, <1>2, PTL DEF Spec

\* The types, and the foreign keys of refresh_tokens and of the documents: an
\* active token's user and a document's creator are rows of users.
THEOREM AccountTypes == Spec => []AccountsTypeOK
<1>1. AccountsInv => AccountsTypeOK
  BY DEF AccountsInv
<1>2. QED
  BY <1>1, AccountsInvariant, PTL

\* However it is typed, and whatever registrations and updates race, an address
\* names one account: what is stored is normalized, and unique.
THEOREM OneAccountPerAddress == Spec => []EmailNamesOneUser
<1>1. AccountsInv => EmailNamesOneUser
  BY DEF AccountsInv, StoredOK, EmailNamesOneUser
<1>2. QED
  BY <1>1, AccountsInvariant, PTL

\* UsersService and AuthService refuse a request only for a reason that was true
\* while it ran, whatever the other handlers did between its statements.
THEOREM RefusalsHaveReasons == Spec => []RefusalsJustified
<1>1. AccountsInv => RefusalsJustified
  BY DEF AccountsInv, AnswerOK, RefusalsJustified
<1>2. QED
  BY <1>1, AccountsInvariant, PTL

\* A refresh that revokes a token gives its user a new one in the same step.
THEOREM RotatedAtOnce == Spec => RotationAtomic
<1> DEFINE Atomic(t) ==
      token[t].status # "revoked" /\ token'[t].status = "revoked" =>
        /\ Len(token') = Len(token) + 1
        /\ token'[Len(token')] = [user |-> token[t].user, status |-> "active"]
<1>1. ASSUME AccountsInv, [Next]_vars, NEW t \in DOMAIN token
      PROVE  Atomic(t)
  <2>1. token \in Seq(TokenRows) /\ Len(token) \in Nat /\ DOMAIN token = 1..Len(token)
    BY <1>1, TypesSplit, TokenSeq DEF AccountsInv, TablesTypeOK
  <2>2. ASSUME NEW w \in Workers, Rotate(w)
        PROVE  Atomic(t)
    <3> DEFINE r == request[w].token
               revoked == Revoked(r)
               row == [user |-> owner[w], status |-> "active"]
    <3>1. r \in DOMAIN token /\ owner[w] = token[r].user
      BY <1>1, <2>2, AtStatement DEF Rotate, At, StatementOK
    <3>2. CASE owner[w] \in Live
      <4>1. token' = Append(revoked, row)
        BY <2>2, <3>2 DEF Rotate
      <4>2. row \in TokenRows
        BY <1>1, <3>2, AtStatement, AccountsAssumption DEF TokenRows, TablesTypeOK, Ids
      <4>3. CASE token[r].status = "deleted"
        <5>1. revoked = token
          BY <4>3 DEF Revoked
        <5>2. QED
          BY <2>1, <4>1, <4>2, <5>1, TokenAppended
      <4>4. CASE token[r].status # "deleted"
        <5>1. revoked = [token EXCEPT ![r].status = "revoked"] /\ token \in Seq(TokenRows)
          BY <2>1, <4>4 DEF Revoked
        <5> HIDE DEF revoked
        <5>2. /\ revoked \in Seq(TokenRows) /\ Len(revoked) = Len(token)
              /\ DOMAIN revoked = DOMAIN token
              /\ \A x \in DOMAIN token :
                   revoked[x].user = token[x].user /\ (x # r => revoked[x] = token[x])
              /\ revoked[r].status = "revoked"
          BY <3>1, <5>1, TokenChanged
        <5>3. /\ Len(token') = Len(token) + 1
              /\ token'[Len(token) + 1] = row
              /\ \A x \in DOMAIN token : token'[x] = revoked[x]
          <6>1. /\ Len(token') = Len(revoked) + 1
                /\ token'[Len(revoked) + 1] = row
                /\ \A x \in DOMAIN revoked : token'[x] = revoked[x]
            BY <4>1, <4>2, <5>2, TokenAppended
          <6>2. QED
            BY <5>2, <6>1
        <5>4. t # r => token'[t] = token[t]
          BY <1>1, <5>2, <5>3
        <5>5. QED
          BY <3>1, <5>3, <5>4
      <4>5. QED
        BY <4>3, <4>4
    <3>3. CASE owner[w] \notin Live
      BY <2>2, <3>3 DEF Rotate
    <3>4. QED
      BY <3>2, <3>3
  <2>3. ASSUME NEW w \in Workers, InsertToken(w)
        PROVE  token'[t] = token[t]
    <3>1. CASE owner[w] \in Live
      <4>1. token' = Append(token, [user |-> owner[w], status |-> "active"])
        BY <2>3, <3>1 DEF InsertToken
      <4>2. [user |-> owner[w], status |-> "active"] \in TokenRows
        BY <1>1, <3>1, AtStatement, AccountsAssumption DEF TokenRows, TablesTypeOK, Ids
      <4>3. QED
        BY <2>1, <4>1, <4>2, TokenAppended
    <3>2. CASE owner[w] \notin Live
      BY <2>3, <3>2 DEF InsertToken
    <3>3. QED
      BY <3>1, <3>2
  <2>4. ASSUME NEW w \in Workers, DeleteUser(w)
        PROVE  token'[t] = token[t] \/ token'[t].status = "deleted"
    BY <2>1, <2>4, TokensDeleted DEF DeleteUser
  <2>5. ASSUME NEW x \in DOMAIN token, Expire(x)
        PROVE  token'[t] = token[t] \/ token'[t].status = "expired"
    BY <2>1, <2>5, TokenChanged DEF Expire
  <2>6. ASSUME UNCHANGED token
        PROVE  Atomic(t)
    BY <2>6
  <2>7. ASSUME NEW w \in Workers, Step(w)
        PROVE  Rotate(w) \/ InsertToken(w) \/ DeleteUser(w) \/ UNCHANGED token
    BY <2>7 DEF Step, Start, FindByEmail, InsertUser, FindIdentity, FindActiveToken, FindOwner,
       UpdateUser, Abort, Return, tables
  <2>8. QED
    BY <1>1, <2>2, <2>3, <2>4, <2>5, <2>6, <2>7 DEF Next, CreateDocument, vars, tables
<1>2. AccountsInv /\ [Next]_vars =>
        [\A t \in DOMAIN token : Atomic(t)]_vars
  BY <1>1
<1>3. QED
  BY <1>2, AccountsInvariant, PTL DEF Spec, RotationAtomic
=============================================================================
