------------------------------- MODULE Stores -------------------------------
(***************************************************************************)
(* The two implementations of the EnvelopeStore port: the in-memory store  *)
(* (store.ts, createMemoryEnvelopeStore) and the Knex store over Postgres  *)
(* (knex/store.ts, with the tables of knex/migrations.ts).                 *)
(*                                                                         *)
(* Each task is one call of the envelope service that writes: a creation   *)
(* (row and first entry, in a transaction), a verdict (status and entry,   *)
(* in a transaction) or a restart (an entry on its own).  Every write of a *)
(* transaction's callback is awaited, so the steps of two tasks            *)
(* interleave; a callback may throw between any two of them.               *)
(*                                                                         *)
(* kind says which store a behaviour runs on.  In memory the callback      *)
(* writes straight into the shared map and array, and a throw puts back    *)
(* the copies taken when the transaction began.  Postgres keeps a          *)
(* transaction's writes to itself until it commits, locks the row an       *)
(* update touches, and dates every entry with the transaction's start.     *)
(***************************************************************************)
EXTENDS Naturals, Sequences

CONSTANTS Tasks,      \* calls of the service that write
          Envelopes,  \* envelope ids
          MaxTime     \* bound: how far the database's clock runs

ASSUME TimeAssumption == MaxTime \in Nat

VARIABLES kind,       \* "memory" or "knex": the store behind the port
          rows,       \* the Envelope rows everyone sees: a status, or "none"
          trail,      \* the AuditLog entries everyone sees, in insertion order
          task,       \* what each task does and how far it is
          clock,      \* the time entries are dated with
          committed,  \* ghost: the tasks whose writes took effect, in order
          overlapped  \* ghost: a task began while another was under way

vars == <<kind, rows, trail, task, clock, committed, overlapped>>

Jobs == {"create", "verdict", "restart"}

(***************************************************************************)
(* What a job writes: its row's new status (or none) and then its entry.   *)
(* Applied to the contents <<rows, trail>>, one write at a time.           *)
(***************************************************************************)
WritesRow(job) == job \in {"create", "verdict"}

RowAfter(job) == IF job = "create" THEN "sent" ELSE "completed"

PutRow(r, j) == [r EXCEPT ![j.envelope] = RowAfter(j.job)]

PutEntry(tr, t, j) ==
  Append(tr, [envelope |-> j.envelope, by |-> t, at |-> j.at])

Idle == [job |-> "none", envelope |-> CHOOSE e \in Envelopes : TRUE,
         step |-> "idle", at |-> 0, after |-> 0,
         rowsBefore |-> [e \in Envelopes |-> "none"], trailBefore |-> <<>>]

Init ==
  /\ kind \in {"memory", "knex"}
  /\ rows = [e \in Envelopes |-> "none"]
  /\ trail = <<>>
  /\ task = [t \in Tasks |-> Idle]
  /\ clock = 0
  /\ committed = <<>>
  /\ overlapped = FALSE

\* What a task does next: "row" and "entry" are its two writes
Open == {t \in Tasks : task[t].step \in {"row", "entry", "commit"}}

Tick == /\ clock < MaxTime
        /\ clock' = clock + 1
        /\ UNCHANGED <<kind, rows, trail, task, committed, overlapped>>

(***************************************************************************)
(* transaction(fn).  Memory: copies of the map and of the array are taken. *)
(* Knex: BEGIN, which fixes the time now() answers.  A creation uses an id *)
(* of its own (newId).  A verdict or a restart is for a row its caller     *)
(* read before; a restart opens no transaction.                            *)
(***************************************************************************)
Begin(t, job, e) ==
  /\ task[t].step = "idle"
  /\ IF job = "create"
     THEN ~\E u \in Tasks : task[u].job = "create" /\ task[u].envelope = e
     ELSE rows[e] = "sent"
  /\ task' = [task EXCEPT ![t] =
                [job |-> job, envelope |-> e,
                 step |-> IF WritesRow(job) THEN "row" ELSE "entry",
                 at |-> clock, after |-> Len(committed),
                 rowsBefore |-> rows, trailBefore |-> trail]]
  /\ overlapped' = (overlapped \/ Open # {})
  /\ UNCHANGED <<kind, rows, trail, clock, committed>>

(***************************************************************************)
(* createEnvelope / updateEnvelopeStatus.  Postgres makes an update wait   *)
(* for another transaction's pending update of the row.  In memory the row *)
(* may be gone by now, which makes updateEnvelopeStatus throw: Fail.       *)
(***************************************************************************)
WriteRow(t) ==
  LET j == task[t] IN
  /\ j.step = "row"
  /\ j.job = "verdict" => rows[j.envelope] # "none"
  /\ IF kind = "memory"
     THEN rows' = PutRow(rows, j)
     ELSE /\ ~\E u \in Open : /\ task[u].envelope = j.envelope
                              /\ WritesRow(task[u].job)
                              /\ task[u].step # "row"
          /\ UNCHANGED rows
  /\ task' = [task EXCEPT ![t].step = "entry"]
  /\ UNCHANGED <<kind, trail, clock, committed, overlapped>>

(***************************************************************************)
(* appendAuditEntry.  In memory an entry is dated when it is pushed; in    *)
(* Postgres by its transaction, a restart's by its own statement.          *)
(***************************************************************************)
WriteEntry(t) ==
  LET alone == ~WritesRow(task[t].job)
      j     == IF kind = "memory" \/ alone THEN [task[t] EXCEPT !.at = clock]
                                           ELSE task[t]
  IN
  /\ j.step = "entry"
  /\ trail' = IF kind = "memory" \/ alone THEN PutEntry(trail, t, j) ELSE trail
  /\ task' = [task EXCEPT ![t] =
                [j EXCEPT !.step = IF alone THEN "done" ELSE "commit"]]
  /\ committed' = IF alone THEN Append(committed, t) ELSE committed
  /\ UNCHANGED <<kind, rows, clock, overlapped>>

\* The callback resolved: in Postgres its writes become everyone's
Commit(t) ==
  LET j == task[t] IN
  /\ j.step = "commit"
  /\ rows' = IF kind = "knex" THEN PutRow(rows, j) ELSE rows
  /\ trail' = IF kind = "knex" THEN PutEntry(trail, t, j) ELSE trail
  /\ task' = [task EXCEPT ![t].step = "done"]
  /\ committed' = Append(committed, t)
  /\ UNCHANGED <<kind, clock, overlapped>>

\* Mutant, rolled back: the copy of the map is put back, the array is left as it is
RollbackRowsOnly(t) ==
  LET j == task[t] IN
  /\ t \in Open
  /\ rows' = IF kind = "memory" /\ WritesRow(j.job) THEN j.rowsBefore ELSE rows
  /\ task' = [task EXCEPT ![t].step = "failed"]
  /\ UNCHANGED <<kind, trail, clock, committed, overlapped>>

(***************************************************************************)
(* The callback threw, after any number of its writes: in memory the       *)
(* copies are put back, whatever was written since; Postgres drops the     *)
(* writes nobody saw.  A restart that fails has written nothing.           *)
(***************************************************************************)
Fail(t) ==
  LET j       == task[t]
      restore == kind = "memory" /\ WritesRow(j.job)
  IN
  /\ t \in Open
  /\ rows' = IF restore THEN j.rowsBefore ELSE rows
  /\ trail' = IF restore THEN j.trailBefore ELSE trail
  /\ task' = [task EXCEPT ![t].step = "failed"]
  /\ UNCHANGED <<kind, clock, committed, overlapped>>

Next ==
  \/ Tick
  \/ \E t \in Tasks :
       \/ \E job \in Jobs, e \in Envelopes : Begin(t, job, e)
       \/ WriteRow(t) \/ WriteEntry(t) \/ Commit(t) \/ Fail(t)

Spec == Init /\ [][Next]_vars

-----------------------------------------------------------------------------
(***************************************************************************)
(* What the port promises.                                                 *)
(***************************************************************************)

\* The entry a task wrote, and the committed tasks that wrote a row
EntryOf(t) == [envelope |-> task[t].envelope, by |-> t, at |-> task[t].at]

Writers(e) == {i \in DOMAIN committed : /\ WritesRow(task[committed[i]].job)
                                        /\ task[committed[i]].envelope = e}

\* The contents the committed tasks, and they alone, make in their order: of
\* each its entry, and in a row what the last to write it wrote
CommittedMake(r, tr) ==
  /\ tr = [i \in DOMAIN committed |-> EntryOf(committed[i])]
  /\ \A e \in Envelopes :
       \/ Writers(e) = {} /\ r[e] = "none"
       \/ \E i \in Writers(e) : /\ \A k \in Writers(e) : k <= i
                               /\ r[e] = RowAfter(task[committed[i]].job)

\* Task t had committed when task u began
CommittedBefore(t, u) == \E x \in 1..task[u].after : committed[x] = t

\* Mutant: the list is in insertion order, oldest first
OldestFirst(i, k) == IF kind = "knex" THEN trail[i].at <= trail[k].at ELSE i < k

\* listAuditEntries: Postgres sorts by timestamp, descending; the in-memory
\* store reverses what it pushed.  Whether entry i can be listed above entry k.
ListedAbove(i, k) ==
  IF kind = "knex" THEN trail[i].at >= trail[k].at ELSE i > k

\* A transaction's writes take effect together or not at all, and nobody
\* else's are lost with them: what everyone sees is what the committed tasks
\* wrote.  On Postgres at every moment; in memory between transactions, as
\* long as no task began while another was under way (store.ts:71-83 takes
\* copies of everything and puts them back).
AllOrNothing == kind = "knex" \/ (Open = {} /\ ~overlapped) => CommittedMake(rows, trail)

\* The log lists the newest first: an entry of a task that began after another
\* had committed is never dated before the other's, and the memory store has it
\* above.  Tasks that overlapped may be listed against their commit order on
\* Postgres, where the date is the transaction's start, and so may entries of
\* one date (knex/store.ts:84-88, store.ts:129-134).
NewestFirst ==
  \A i, k \in DOMAIN trail :
     /\ trail[i].envelope = trail[k].envelope
     /\ CommittedBefore(trail[i].by, trail[k].by)
     => ListedAbove(k, i)

=============================================================================
