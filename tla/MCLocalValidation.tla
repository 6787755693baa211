-------------------------- MODULE MCLocalValidation --------------------------
(* One iteration, one round, and a program of an earlier run.  The names are *)
(* those of the plan.                                                        *)
EXTENDS PlanDiscipline

MCIterations == <<"01">>
MCRounds == <<"concurrency-R1">>

MCUsers ==
  {"01", "iterations-p", "auth", "auth-b", "auth-c", "concurrency", "release",
   "recon", "kafka-outage", "fx-live", "fx-failure", "restart", "post-restart",
   "final-p"}

MCPrograms ==
  {"old", "01", "concurrency-R1", "concurrency-valid", "concurrency-same",
   "release-seq", "release-concurrent", "recon-sentinel", "recon-duplicate",
   "recon-stale", "recon-gap", "recon-bulk-a", "recon-bulk-b", "kafka-outage",
   "fx-live", "restart", "restart-reconnect", "restart-outbox", "post-restart"}

MCInvoices ==
  {"01", "concurrency-R1-a", "concurrency-R1-b", "concurrency-valid-a",
   "concurrency-valid-b", "concurrency-same", "release-seq",
   "release-concurrent", "kafka-outage", "fx-live", "fx-failure-eur",
   "fx-failure-usd", "restart-outbox", "post-restart"}

\* The rate of an amount in euros may move.
MCQuotes ==
  [i \in MCInvoices |-> IF i \in {"fx-live", "fx-failure-eur"} THEN {110, 111}
                        ELSE {5, 10, 40, 50, 70, 80, 125, 300}]

\* The sentinel's own key is in another partition than all others.
MCPartitionOf == [k \in MCPrograms |-> IF k = "recon-sentinel" THEN 2 ELSE 1]

MCCrashIn ==
  {<<"infra", "compose-startup">>, <<"infra", "baseline-snapshot">>,
   <<"restart", "app-restart">>}

MCDisturbedIn ==
  MCCrashIn \cup
    {<<"recon", "reconciliation-stale">>,
     <<"kafka-outage", "kafka-unavailable-outbox-recovery">>,
     <<"fx-failure", "frankfurter-unavailable">>}

=============================================================================
