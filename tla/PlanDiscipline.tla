--------------------------- MODULE PlanDiscipline ---------------------------
(***************************************************************************)
(* What the authors of the scenarios keep to: a scenario asserts something  *)
(* of a program only behind a poll that waits for a marker, a message       *)
(* behind all those that matter, in their partition.  Everything here is    *)
(* read off Plan; that the driver then never looks too early is a theorem   *)
(* of LocalValidationProofs.                                                *)
(***************************************************************************)
EXTENDS LocalValidation

StepsOf(n) == Plan[n].body.steps
StepAt(n, k) == StepsOf(n)[k]

\* The driver comes to step k of scenario n later than to step j of scenario m.
Before(m, j, n, k) == m < n \/ (m = n /\ j < k)

\* Steps that send a treasury entry on program p, that keep its treasuryVersion,
\* and that wait for one.
Sends(s, p) ==
  \/ s.op = "publish" /\ \E e \in DOMAIN s.entries : s.entries[e].program = p
  \/ s.op = "flush" /\ s.program = p
Reads(s, p) == s.op = "read" /\ s.program = p
AwaitsVersion(s, p) == s.op = "await" /\ s.fact.is = "version" /\ s.fact.program = p
Touches(s, p) == Sends(s, p) \/ Reads(s, p) \/ AwaitsVersion(s, p)

SentIn(n, p) == \E k \in DOMAIN StepsOf(n) : Sends(StepAt(n, k), p)
TouchedIn(n, p) == \E k \in DOMAIN StepsOf(n) : Touches(StepAt(n, k), p)
SentBefore(n, k, p) ==
  \A m \in DOMAIN Plan : \A j \in DOMAIN StepsOf(m) :
    Sends(StepAt(m, j), p) => Before(m, j, n, k)

\* A program with messages that ReconciliationFlusher numbers.
Flushed(p) ==
  \E n \in DOMAIN Plan : \E k \in DOMAIN StepsOf(n) :
    StepAt(n, k).op = "flush" /\ StepAt(n, k).program = p

\* The scenarios that have passed when scenario n runs.
Index(key) == CHOOSE n \in DOMAIN Plan : Plan[n].key = key
Direct(n) == {Index(key) : key \in Plan[n].needs}
Needed(n) == Direct(n) \cup UNION {Direct(m) : m \in Direct(n)}

-----------------------------------------------------------------------------
(* Markers *)

\* Step k of scenario n counts from the same treasuryVersion of p as step j of
\* scenario m did.
SameBase(m, j, n, k, p) ==
  /\ Before(m, j, n, k)
  /\ \A i \in DOMAIN Plan : \A l \in DOMAIN StepsOf(i) :
       Before(m, j, i, l) /\ Before(i, l, n, k) => ~ Reads(StepAt(i, l), p)

AheadOf(s, p) == {s.entries[e].ahead : e \in {d \in DOMAIN s.entries :
                                                s.entries[d].program = p}}

\* No message on p that was sent before has ahead's version or a later one.
Newest(n, k, p, ahead) ==
  /\ p \notin Leftover /\ ~ Flushed(p)
  /\ ahead > 0
  /\ \A m \in 1..(n-1) : TouchedIn(m, p) => m \in Needed(n)
  /\ \A m \in DOMAIN Plan : \A j \in DOMAIN StepsOf(m) :
       Sends(StepAt(m, j), p) /\ SameBase(m, j, n, k, p) =>
         \A a \in AheadOf(StepAt(m, j), p) : a < ahead

\* Step k waits for the message of the step before it, which is the newest one
\* on its program: a flush, or one snapshot and expectation of its version.
Marked(n, k) ==
  LET s == StepAt(n, k - 1)
      w == StepAt(n, k)
  IN
  /\ k > 1
  /\ w.op = "await"
  /\ \/ s.op = "flush" /\ w.fact.is = "at-least" /\ w.fact.program = s.program
     \/ /\ s.op = "publish" /\ w.fact.is = "version"
        /\ s.entries = <<s.entries[1]>>
        /\ s.entries[1].program = w.fact.program
        /\ s.entries[1].ahead = w.fact.ahead
        /\ Newest(n, k - 1, w.fact.program, w.fact.ahead)
Drains(n, k, part) == Marked(n, k) /\ PartitionOf[StepAt(n, k - 1).key] = part

\* Behind each message on p of scenario n there is a marker before step k.
Settled(n, k, p) ==
  \A j \in 1..(k-1) : Sends(StepAt(n, j), p) =>
    \E i \in (j+1)..(k-1) : Drains(n, i, PartitionOf[StepAt(n, j).key])

\* At step k of scenario n all that was sent on p was waited for.
SeesDelivered(n, k, p) ==
  /\ p \notin Leftover
  /\ k < Plan[n].body.finally
  /\ Settled(n, k, p)
  /\ \A m \in 1..(n-1) : SentIn(m, p) =>
       m \in Needed(n) /\ Settled(m, Len(StepsOf(m)) + 1, p)

-----------------------------------------------------------------------------
(* The discipline *)

KnownTreasury(s) ==
  /\ s.op \in {"publish", "flush"} => s.key \in Keys
  /\ s.op \in {"read", "flush", "track"} => s.program \in Programs
  /\ s.op = "publish" =>
       s.entries \in Seq([program: Programs, ahead: Nat, total: Nat])
  /\ s.op = "await" /\ s.fact.is = "version" => s.fact.ahead \in Nat

\* The treasuryVersion is read again when the newest version sent has been seen.
ReadInTime(n, k, p) ==
  \/ p \in Leftover
  \/ /\ Flushed(p)
     /\ \A m \in DOMAIN Plan : \A j \in DOMAIN StepsOf(m) :
          Sends(StepAt(m, j), p) => ~ Before(m, j, n, k)
  \/ /\ ~ Flushed(p)
     /\ \A m \in DOMAIN Plan : \A j \in DOMAIN StepsOf(m) :
          Sends(StepAt(m, j), p) /\ SameBase(m, j, n, k, p) =>
            \A a \in AheadOf(StepAt(m, j), p) :
              \E i \in DOMAIN Plan : \E l \in DOMAIN StepsOf(i) :
                /\ AwaitsVersion(StepAt(i, l), p)
                /\ SameBase(i, l, n, k, p)
                /\ a <= StepAt(i, l).fact.ahead

Disciplined(n, k) ==
  LET s == StepAt(n, k) IN
  /\ KnownTreasury(s)
  /\ s.op = "read" => ReadInTime(n, k, s.program)
  /\ s.op = "publish" => \A e \in DOMAIN s.entries : ~ Flushed(s.entries[e].program)
  /\ \A p \in Leftover : ~ Sends(s, p)
  /\ s.op = "check" /\ "program" \in DOMAIN s.fact => SeesDelivered(n, k, s.fact.program)
  /\ s.op = "track" => SeesDelivered(n, k, s.program) /\ SentBefore(n, k, s.program)

ASSUME DisciplineAssumption ==
  \A n \in DOMAIN Plan : \A k \in DOMAIN StepsOf(n) : Disciplined(n, k)

-----------------------------------------------------------------------------
(* How a run ends *)

\* No step of these operations comes after step k of scenario n.
NoneBehind(n, k, ops) ==
  \A m \in DOMAIN Plan : \A j \in DOMAIN StepsOf(m) :
    StepAt(m, j).op \in ops => Before(m, j, n, k)

\* No command of that name does.
LastOf(n, k, command) ==
  \A m \in DOMAIN Plan : \A j \in DOMAIN StepsOf(m) :
    StepAt(m, j).op = "compose" /\ StepAt(m, j).command = command => Before(m, j, n, k)

Finds(s, op, what) == s.op = op /\ s.fact.is = what
Commands(s, command) == s.op = "compose" /\ s.command = command

\* The last looks at the tracked programs, the broker and the outbox.
LooksAtTracked(n, k) ==
  Finds(StepAt(n, k), "check", "tracked") /\ NoneBehind(n, k, {"ask", "race", "track"})
FindsBroker(n, k) ==
  Finds(StepAt(n, k), "await", "kafka-healthy") /\ LastOf(n, k, "stop-kafka")
FindsDrained(n, k) ==
  /\ Finds(StepAt(n, k), "await", "outbox-drained")
  /\ \A m \in DOMAIN Plan : \A j \in DOMAIN StepsOf(m) :
       StepAt(m, j).op \in {"ask", "race", "publish", "flush"} => m < n

\* The override of the provider's address is taken back for good, the application
\* is waited for and, with no other command in between, its environment read.
TakesBack(n, k, l) ==
  /\ Commands(StepAt(n, k), "restore-fx") /\ LastOf(n, k, "override-fx")
  /\ k + 1 < l /\ Finds(StepAt(n, k + 1), "await", "app-healthy")
  /\ StepAt(n, l).op = "printenv"
  /\ \A i \in DOMAIN StepsOf(n) : k + 1 < i /\ i < l => StepAt(n, i).op # "compose"

\* A mandatory scenario starts the stack, and others look at how it is at the end;
\* every message of the run has its marker; the baseline is taken before anything
\* is created.
ASSUME EndAssumption ==
  /\ \E n, m, i, d \in {s \in DOMAIN Plan : Plan[s].mandatory} :
       /\ \E k \in DOMAIN StepsOf(n) : Commands(StepAt(n, k), "up")
       /\ \E k \in DOMAIN StepsOf(m) : LooksAtTracked(m, k)
       /\ \E k \in DOMAIN StepsOf(i) : FindsBroker(i, k)
       /\ \E k \in DOMAIN StepsOf(d) : FindsDrained(d, k)
  /\ \A n \in DOMAIN Plan : \A k \in DOMAIN StepsOf(n) :
       /\ Commands(StepAt(n, k), "up") => StepAt(n, k).strict
       /\ Commands(StepAt(n, k), "override-fx") =>
            \E i, l \in DOMAIN StepsOf(n) : TakesBack(n, i, l)
       /\ StepAt(n, k).op = "baseline" =>
            \A m \in DOMAIN Plan : \A j \in DOMAIN StepsOf(m) :
              StepAt(m, j).op \in {"ask", "race"} => Before(n, k, m, j)
  /\ \A n \in DOMAIN Plan : \A p \in Programs \ Leftover :
       Settled(n, Len(StepsOf(n)) + 1, p)
=============================================================================
