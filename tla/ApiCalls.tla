------------------------------ MODULE ApiCalls ------------------------------
(***************************************************************************)
(* Recreating the source's scheduled tasks and backup schedules on the     *)
(* target (api/client.py, api/schedules.py, domain/schedules.py): one POST *)
(* for each row, some of its answers retried, and a count of what the      *)
(* target holds afterwards.                                                *)
(*                                                                         *)
(* A call is what the instance does with its attempts, one after the       *)
(* other: [answer, committed], where an answer can be lost on its way      *)
(* after the row was committed.                                            *)
(***************************************************************************)
EXTENDS Naturals, FiniteSetsExt

CONSTANT MaxRetries         \* CoolifyClient's max_retries

Attempts ==
  {[answer |-> "created", committed |-> TRUE],
   [answer |-> "throttled", committed |-> FALSE],
   [answer |-> "refused", committed |-> FALSE]}
    \cup [answer : {"proxy_error", "timeout"}, committed : BOOLEAN]

Calls == [1..(MaxRetries + 1) -> Attempts]

\* _RETRY_STATUS and _THROTTLED
RetryStatus == {"throttled", "proxy_error"}
Throttled == {"throttled"}

(***************************************************************************)
(* _raw, for a POST: a timeout is never retried.                           *)
(***************************************************************************)
LastAttempt(call, retried) ==
  Min({i \in DOMAIN call : call[i].answer \notin retried \/ i = MaxRetries + 1})

CommittedBy(call, retried) ==
  {i \in 1..LastAttempt(call, retried) : call[i].committed}

Answered(call, retried) == call[LastAttempt(call, retried)].answer = "created"

\* Mutant: a proxy error is retried for a backup schedule as well.
RetriedFor_Same(table) == RetryStatus

\* create_scheduled_task takes the default, create_backup a 429 only.
RetriedFor(table) == IF table = "backups" THEN Throttled ELSE RetryStatus

(***************************************************************************)
(* copy_scheduled_tasks and copy_backup_schedules.  The first call that    *)
(* fails is the last one made.                                             *)
(***************************************************************************)
Made(table, calls) ==
  {n \in DOMAIN calls : \A m \in 1..(n - 1) : Answered(calls[m], RetriedFor(table))}

Present(table, calls) ==
  UNION {{<<n, i>> : i \in CommittedBy(calls[n], RetriedFor(table))} : n \in Made(table, calls)}

Created(table, calls) ==
  {<<n, LastAttempt(calls[n], RetriedFor(table))>> : n \in Made(table, calls)}

CopyCountMismatches(created, present) == created # present

Copied(table, calls) ==
  /\ \A n \in DOMAIN calls : Answered(calls[n], RetriedFor(table))
  /\ ~CopyCountMismatches(Created(table, calls), Present(table, calls))

RowsFor(table, calls, n) == {row \in Present(table, calls) : row[1] = n}

=============================================================================
