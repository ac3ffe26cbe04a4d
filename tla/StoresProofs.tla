---------------------------- MODULE StoresProofs ----------------------------
(***************************************************************************)
(* Theorems about both stores behind the EnvelopeStore port, for any       *)
(* number of tasks and envelopes: a transaction takes effect as a whole or *)
(* not at all, and the log lists a later task's entry above an earlier's.  *)
(***************************************************************************)
EXTENDS Stores, SequenceTheorems, TLAPS

USE TimeAssumption

-----------------------------------------------------------------------------
(* The inductive invariant *)

Statuses == {"none", "sent", "completed"}
Steps == {"idle", "row", "entry", "commit", "done", "failed"}
Entry == [envelope : Envelopes, by : Tasks, at : Nat]

Task == [job : Jobs \cup {"none"}, envelope : Envelopes \cup {Idle.envelope},
         step : Steps, at : Nat, after : Nat,
         rowsBefore : [Envelopes -> Statuses], trailBefore : Seq(Entry)]

Typed ==
  /\ kind \in {"memory", "knex"}
  /\ rows \in [Envelopes -> Statuses]
  /\ trail \in Seq(Entry)
  /\ task \in [Tasks -> Task]
  /\ clock \in Nat
  /\ committed \in Seq(Tasks)
  /\ overlapped \in BOOLEAN

\* A task that has begun has a job; only a transaction has a row to write or a
\* commit to come; it began before now, and committed after it began
TasksAreSound ==
  /\ \A t \in Tasks :
       /\ task[t].step # "idle" => task[t].job \in Jobs /\ task[t].envelope \in Envelopes
       /\ task[t].step \in {"row", "commit"} => WritesRow(task[t].job)
       /\ task[t].after <= Len(committed) /\ task[t].at <= clock
  /\ \A i \in DOMAIN committed : /\ task[committed[i]].step = "done"
                                 /\ task[committed[i]].after < i

\* The trails there are: the store's, and the copies tasks may put back
Trails == {trail} \cup {task[t].trailBefore : t \in Tasks}

\* In none of them an entry stands above one that was committed when it began
TrailsAreOrdered ==
  \A tr \in Trails :
    /\ \A i \in DOMAIN tr : task[tr[i].by].step \in {"commit", "done", "failed"}
    /\ \A i, k \in DOMAIN tr : CommittedBefore(tr[i].by, tr[k].by) => i < k

\* Postgres dates an entry as its task's, after the tasks it began after
DatesAreOrdered ==
  kind = "knex" => \A i \in DOMAIN trail :
    /\ trail[i].at <= clock
    /\ task[trail[i].by].step = "done" /\ trail[i].at = task[trail[i].by].at
    /\ \A t \in Tasks : CommittedBefore(trail[i].by, t) => trail[i].at <= task[t].at

\* Postgres shows what was committed, and nothing else
KnexShowsCommitted == kind = "knex" => CommittedMake(rows, trail)

\* In memory the one task under way has put its writes on top of it, and holds
\* copies of what was there
MemoryShowsOneTask ==
  kind = "memory" /\ ~overlapped =>
    /\ Open = {} => CommittedMake(rows, trail)
    /\ \A t \in Open :
         /\ \A u \in Open : u = t
         /\ CommittedMake(task[t].rowsBefore, task[t].trailBefore)
         /\ rows = IF task[t].step = "row" \/ ~WritesRow(task[t].job)
                   THEN task[t].rowsBefore ELSE PutRow(task[t].rowsBefore, task[t])
         /\ trail = IF task[t].step = "commit"
                    THEN PutEntry(task[t].trailBefore, t, task[t]) ELSE task[t].trailBefore

Inv ==
  /\ Typed
  /\ TasksAreSound
  /\ TrailsAreOrdered
  /\ DatesAreOrdered
  /\ KnexShowsCommitted
  /\ MemoryShowsOneTask

-----------------------------------------------------------------------------
(* The steps of a task *)

\* What every step of a task under way does, whatever it writes
Moved(t) ==
  /\ t \in Open
  /\ task' \in [Tasks -> Task] /\ committed' \in Seq(Tasks)
  /\ \A u \in Tasks \ {t} : task'[u] = task[u]
  /\ task'[t].job = task[t].job /\ task'[t].envelope = task[t].envelope
  /\ task'[t].after = task[t].after
  /\ task'[t].rowsBefore = task[t].rowsBefore /\ task'[t].trailBefore = task[t].trailBefore
  /\ task'[t].at \in {task[t].at, clock}
  /\ task'[t].step \in {"entry", "commit", "done", "failed"}
  /\ task'[t].step = "commit" => WritesRow(task[t].job)
  /\ task[t].step = "commit" => task'[t].step \in {"done", "failed"}
  /\ committed' = IF task'[t].step = "done" THEN Append(committed, t) ELSE committed
  /\ UNCHANGED <<kind, clock, overlapped>>

LEMMA StepsMove ==
  ASSUME Inv, NEW t \in Tasks, WriteRow(t) \/ WriteEntry(t) \/ Commit(t) \/ Fail(t)
  PROVE  Moved(t)
<1>1. /\ task \in [Tasks -> Task] /\ committed \in Seq(Tasks) /\ clock \in Nat
      /\ task[t] \in Task
  BY DEF Inv, Typed
<1>2. CASE WriteRow(t)
  <2>1. /\ task' = [task EXCEPT ![t].step = "entry"] /\ task[t].step = "row"
        /\ UNCHANGED <<kind, clock, committed, overlapped>>
    BY <1>2 DEF WriteRow
  <2>2. task' \in [Tasks -> Task]
    BY <1>1, <2>1 DEF Task, Steps
  <2>3. QED
    BY <1>1, <2>1, <2>2 DEF Moved, Open, Task
<1>3. CASE WriteEntry(t)
  <2> DEFINE alone == ~WritesRow(task[t].job)
             at == IF kind = "memory" \/ alone THEN clock ELSE task[t].at
             r == [task[t] EXCEPT !.at = at, !.step = IF alone THEN "done" ELSE "commit"]
  <2>1. /\ task' = [task EXCEPT ![t] = r] /\ task[t].step = "entry"
        /\ committed' = IF alone THEN Append(committed, t) ELSE committed
        /\ UNCHANGED <<kind, clock, overlapped>>
    BY <1>1, <1>3 DEF WriteEntry, Task
  <2>2. r \in Task /\ r.at = at /\ r.step = (IF alone THEN "done" ELSE "commit")
        /\ r.job = task[t].job /\ r.envelope = task[t].envelope /\ r.after = task[t].after
        /\ r.rowsBefore = task[t].rowsBefore /\ r.trailBefore = task[t].trailBefore
        /\ at \in {task[t].at, clock}
    BY <1>1 DEF Task, Steps
  <2> HIDE DEF r, at
  <2>3. task'[t] = r /\ \A u \in Tasks \ {t} : task'[u] = task[u]
    BY <1>1, <2>1
  <2>4. task' \in [Tasks -> Task]
    BY <1>1, <2>1, <2>2
  <2>5. committed' \in Seq(Tasks)
    BY <1>1, <2>1
  <2>6. QED
    BY <2>1, <2>2, <2>3, <2>4, <2>5 DEF Moved, Open
<1>4. CASE Commit(t)
  <2>1. /\ task' = [task EXCEPT ![t].step = "done"] /\ task[t].step = "commit"
        /\ committed' = Append(committed, t)
        /\ UNCHANGED <<kind, clock, overlapped>>
    BY <1>4 DEF Commit
  <2>2. task' \in [Tasks -> Task]
    BY <1>1, <2>1 DEF Task, Steps
  <2>3. committed' \in Seq(Tasks)
    BY <1>1, <2>1
  <2>4. QED
    BY <1>1, <2>1, <2>2, <2>3 DEF Moved, Open, Task
<1>5. CASE Fail(t)
  <2>1. /\ task' = [task EXCEPT ![t].step = "failed"] /\ t \in Open
        /\ UNCHANGED <<kind, clock, committed, overlapped>>
    BY <1>5 DEF Fail
  <2>2. task' \in [Tasks -> Task]
    BY <1>1, <2>1 DEF Task, Steps
  <2>3. QED
    BY <1>1, <2>1, <2>2 DEF Moved, Task
<1>6. QED
  BY <1>2, <1>3, <1>4, <1>5

\* What a beginning does
Began(t) ==
  /\ task[t].step = "idle"
  /\ task' \in [Tasks -> Task]
  /\ \A u \in Tasks \ {t} : task'[u] = task[u]
  /\ task'[t].job \in Jobs /\ task'[t].envelope \in Envelopes
  /\ task'[t].step = IF WritesRow(task'[t].job) THEN "row" ELSE "entry"
  /\ task'[t].at = clock /\ task'[t].after = Len(committed)
  /\ task'[t].rowsBefore = rows /\ task'[t].trailBefore = trail
  /\ overlapped' = (overlapped \/ Open # {})
  /\ UNCHANGED <<kind, rows, trail, clock, committed>>

LEMMA BeginningsBegin ==
  ASSUME Inv, NEW t \in Tasks, NEW job \in Jobs, NEW e \in Envelopes, Begin(t, job, e)
  PROVE  Began(t)
<1> DEFINE r == [job |-> job, envelope |-> e,
                 step |-> IF WritesRow(job) THEN "row" ELSE "entry",
                 at |-> clock, after |-> Len(committed),
                 rowsBefore |-> rows, trailBefore |-> trail]
<1>1. /\ task \in [Tasks -> Task] /\ committed \in Seq(Tasks) /\ clock \in Nat
      /\ rows \in [Envelopes -> Statuses] /\ trail \in Seq(Entry)
  BY DEF Inv, Typed
<1>2. r \in Task
  BY <1>1 DEF Task, Steps
<1>3. /\ task' = [task EXCEPT ![t] = r] /\ task[t].step = "idle"
      /\ overlapped' = (overlapped \/ Open # {})
      /\ UNCHANGED <<kind, rows, trail, clock, committed>>
  BY DEF Begin
<1>4. task'[t] = r /\ \A u \in Tasks \ {t} : task'[u] = task[u]
  BY <1>1, <1>3
<1>5. QED
  BY <1>1, <1>2, <1>3, <1>4 DEF Began

\* A task that is not done is not among the committed ones.
LEMMA OnlyDoneAreCommitted ==
  ASSUME Inv, NEW t \in Tasks, task[t].step # "done"
  PROVE  /\ \A i \in DOMAIN committed : committed[i] # t
         /\ \A u \in Tasks : ~CommittedBefore(t, u)
<1>1. \A i \in DOMAIN committed : committed[i] # t
  BY DEF Inv, TasksAreSound
<1>2. ASSUME NEW u \in Tasks, NEW x \in 1..task[u].after
      PROVE  x \in DOMAIN committed
  BY DEF Inv, TasksAreSound, Typed, Task
<1>3. QED
  BY <1>1, <1>2 DEF CommittedBefore

\* Who had committed when a task began stays as it was.
LEMMA BeforeStays ==
  ASSUME Inv, NEW u \in Tasks, task'[u].after = task[u].after, NEW t \in Tasks,
         committed' = committed \/ committed' = Append(committed, t)
  PROVE  \A v : CommittedBefore(v, u)' <=> CommittedBefore(v, u)
<1>1. ASSUME NEW x \in 1..task[u].after
      PROVE  committed'[x] = committed[x]
  <2>1. x \in 1..Len(committed) /\ committed \in Seq(Tasks)
    BY DEF Inv, TasksAreSound, Typed, Task
  <2>2. QED
    BY <2>1
<1>2. QED
  BY <1>1 DEF CommittedBefore

-----------------------------------------------------------------------------
(* Types and tasks *)

LEMMA EntriesAreTyped ==
  ASSUME NEW tr \in Seq(Entry), NEW t \in Tasks, NEW r \in Task, r.envelope \in Envelopes
  PROVE  PutEntry(tr, t, r) \in Seq(Entry)
BY DEF PutEntry, Entry, Task

LEMMA TypesStay ==
  ASSUME Inv, [Next]_vars
  PROVE  Typed'
<1>1. /\ rows \in [Envelopes -> Statuses] /\ trail \in Seq(Entry)
      /\ task \in [Tasks -> Task] /\ \A t \in Tasks : task[t] \in Task
      /\ kind \in {"memory", "knex"} /\ clock \in Nat
      /\ committed \in Seq(Tasks) /\ overlapped \in BOOLEAN
  BY DEF Inv, Typed
<1>2. ASSUME NEW t \in Tasks, Moved(t),
             rows' \in [Envelopes -> Statuses], trail' \in Seq(Entry)
      PROVE  Typed'
  BY <1>1, <1>2 DEF Moved, Typed
<1>3. ASSUME NEW r \in Task PROVE PutRow(rows, r) \in [Envelopes -> Statuses]
  BY <1>1 DEF PutRow, RowAfter, Statuses
<1>4. ASSUME NEW t \in Tasks, t \in Open PROVE task[t].envelope \in Envelopes
  BY <1>4 DEF Inv, TasksAreSound, Open
<1>5. CASE Tick
  BY <1>1, <1>5 DEF Tick, Typed
<1>6. ASSUME NEW t \in Tasks, NEW job \in Jobs, NEW e \in Envelopes, Begin(t, job, e)
      PROVE  Typed'
  <2>1. overlapped' \in BOOLEAN
    BY <1>1, <1>6, Zenon DEF Begin
  <2>2. QED
    BY <1>1, <1>6, <2>1, BeginningsBegin DEF Began, Typed
<1>7. ASSUME NEW t \in Tasks, WriteRow(t) PROVE Typed'
  BY <1>1, <1>2, <1>3, <1>7, StepsMove DEF WriteRow
<1>8. ASSUME NEW t \in Tasks, WriteEntry(t) PROVE Typed'
  <2> DEFINE r == [task[t] EXCEPT !.at = clock]
  <2>1. r \in Task /\ r.envelope = task[t].envelope
    BY <1>1 DEF Task
  <2>2. task[t].envelope \in Envelopes
    BY <1>4, <1>8, StepsMove DEF Moved
  <2>3. PutEntry(trail, t, r) \in Seq(Entry)
    BY <1>1, <2>1, <2>2, EntriesAreTyped
  <2>4. UNCHANGED rows /\ trail' \in {trail, PutEntry(trail, t, r)}
    BY <1>8 DEF WriteEntry
  <2>5. QED
    BY <1>1, <1>2, <1>8, <2>3, <2>4, StepsMove
<1>9. ASSUME NEW t \in Tasks, Commit(t) PROVE Typed'
  <2>1. PutEntry(trail, t, task[t]) \in Seq(Entry)
    BY <1>1, <1>4, <1>9, StepsMove, EntriesAreTyped DEF Moved
  <2>2. QED
    BY <1>1, <1>2, <1>3, <1>9, <2>1, StepsMove DEF Commit
<1>10. ASSUME NEW t \in Tasks, Fail(t) PROVE Typed'
  <2>1. rows' \in {rows, task[t].rowsBefore} /\ trail' \in {trail, task[t].trailBefore}
    BY <1>10 DEF Fail
  <2>2. task[t].rowsBefore \in [Envelopes -> Statuses] /\ task[t].trailBefore \in Seq(Entry)
    BY <1>1 DEF Task
  <2>3. QED
    BY <1>1, <1>2, <1>10, <2>1, <2>2, StepsMove
<1>11. CASE UNCHANGED vars
  BY <1>1, <1>11 DEF vars, Typed
<1>12. QED
  BY <1>5, <1>6, <1>7, <1>8, <1>9, <1>10, <1>11 DEF Next

\* A step is a tick, a beginning, a task's own step, or nothing.
LEMMA StepsAreKnown ==
  ASSUME Inv, [Next]_vars
  PROVE  \/ Tick \/ UNCHANGED vars
         \/ \E t \in Tasks : Began(t) \/ Moved(t)
BY BeginningsBegin, StepsMove DEF Next

LEMMA TasksStaySound ==
  ASSUME Inv, [Next]_vars
  PROVE  TasksAreSound'
<1>1. /\ committed \in Seq(Tasks) /\ Len(committed) \in Nat /\ clock \in Nat
      /\ task \in [Tasks -> Task]
      /\ \A t \in Tasks : task[t].at \in Nat /\ task[t].after \in Nat
  BY DEF Inv, Typed, Task
<1>2. TasksAreSound
  BY DEF Inv
<1>3. CASE Tick \/ UNCHANGED vars
  BY <1>1, <1>2, <1>3 DEF Tick, vars, TasksAreSound
<1>4. ASSUME NEW t \in Tasks, Began(t) PROVE TasksAreSound'
  <2>1. \A i \in DOMAIN committed : committed[i] # t /\ committed[i] \in Tasks
    BY <1>1, <1>4, OnlyDoneAreCommitted DEF Began
  <2>2. QED
    BY <1>1, <1>2, <1>4, <2>1 DEF Began, TasksAreSound
<1>5. ASSUME NEW t \in Tasks, Moved(t) PROVE TasksAreSound'
  <2>1. \A i \in DOMAIN committed : committed[i] # t /\ committed[i] \in Tasks
    BY <1>1, <1>5, OnlyDoneAreCommitted DEF Moved, Open
  <2>2. \A u \in Tasks :
          /\ task'[u].step # "idle" => task'[u].job \in Jobs /\ task'[u].envelope \in Envelopes
          /\ task'[u].step \in {"row", "commit"} => WritesRow(task'[u].job)
    BY <1>2, <1>5 DEF Moved, TasksAreSound, Open
  <2>3. Len(committed) <= Len(committed')
    BY <1>1, <1>5 DEF Moved
  <2>4. \A u \in Tasks : task'[u].after <= Len(committed') /\ task'[u].at <= clock'
    BY <1>1, <1>2, <1>5, <2>3 DEF Moved, TasksAreSound
  <2>5. ASSUME NEW i \in DOMAIN committed'
        PROVE  task'[committed'[i]].step = "done" /\ task'[committed'[i]].after < i
    <3>1. CASE i \in DOMAIN committed
      <4>1. committed'[i] = committed[i]
        BY <1>1, <1>5, <3>1 DEF Moved
      <4>2. QED
        BY <1>2, <1>5, <2>1, <3>1, <4>1 DEF Moved, TasksAreSound
    <3>2. CASE i \notin DOMAIN committed
      <4>1. task'[t].step = "done" /\ i = Len(committed) + 1 /\ committed'[i] = t
        BY <1>1, <1>5, <2>5, <3>2 DEF Moved
      <4>2. task[t].after < i
        BY <1>1, <1>2, <4>1 DEF TasksAreSound
      <4>3. QED
        BY <1>5, <4>1, <4>2 DEF Moved
    <3>3. QED
      BY <3>1, <3>2
  <2>6. QED
    BY <2>2, <2>4, <2>5 DEF TasksAreSound
<1>6. QED
  BY <1>3, <1>4, <1>5, StepsAreKnown

-----------------------------------------------------------------------------
(* The order of the trails *)

\* A trail in order stays so when a task that is not done puts its entry on top.
Ordered(tr) ==
  /\ \A i \in DOMAIN tr : task[tr[i].by].step \in {"commit", "done", "failed"}
  /\ \A i, k \in DOMAIN tr : CommittedBefore(tr[i].by, tr[k].by) => i < k

LEMMA OrderStays ==
  ASSUME Inv, NEW t \in Tasks, Moved(t) \/ Began(t), NEW tr \in Trails
  PROVE  Ordered(tr)'
<1>1. /\ tr \in Seq(Entry) /\ Ordered(tr)
      /\ \A i \in DOMAIN tr : tr[i] \in Entry /\ tr[i].by \in Tasks
  <2>1. tr \in Seq(Entry)
    BY DEF Inv, Typed, Task, Trails
  <2>2. \A i \in DOMAIN tr : tr[i] \in Entry
    BY <2>1
  <2>3. QED
    BY <2>1, <2>2 DEF Inv, TrailsAreOrdered, Ordered, Entry
<1>2. \A i \in DOMAIN tr :
        /\ task'[tr[i].by].step \in {"commit", "done", "failed"}
        /\ task'[tr[i].by].after = task[tr[i].by].after
  <2>1. CASE Began(t)
    <3>1. \A i \in DOMAIN tr : tr[i].by # t
      BY <1>1, <2>1 DEF Ordered, Began
    <3>2. QED
      BY <1>1, <2>1, <3>1 DEF Ordered, Began
  <2>2. CASE Moved(t)
    <3>1. \A i \in DOMAIN tr : tr[i].by = t => task[t].step = "commit"
      BY <1>1, <2>2 DEF Ordered, Moved, Open
    <3>2. task[t].step = "commit" => task'[t].step \in {"commit", "done", "failed"}
      BY <2>2 DEF Moved
    <3>3. QED
      BY <1>1, <2>2, <3>1, <3>2 DEF Ordered, Moved
  <2>3. QED
    BY <2>1, <2>2
<1>3. committed' = committed \/ committed' = Append(committed, t)
  BY DEF Moved, Began
<1>4. ASSUME NEW i \in DOMAIN tr, NEW k \in DOMAIN tr
      PROVE  CommittedBefore(tr[i].by, tr[k].by)' => CommittedBefore(tr[i].by, tr[k].by)
  BY <1>1, <1>2, <1>3, BeforeStays
<1>5. QED
  BY <1>1, <1>2, <1>4 DEF Ordered

LEMMA OrderOnTop ==
  ASSUME Inv, NEW t \in Tasks, Moved(t), task'[t].step \in {"commit", "done"},
         NEW tr \in Trails, NEW new \in Entry, new.by = t
  PROVE  Ordered(Append(tr, new))'
<1> DEFINE nt == Append(tr, new)
<1>1. /\ tr \in Seq(Entry) /\ Ordered(tr)'
      /\ \A i \in DOMAIN tr : tr[i].by \in Tasks
  <2>1. tr \in Seq(Entry)
    BY DEF Inv, Typed, Task, Trails
  <2>2. \A i \in DOMAIN tr : tr[i] \in Entry
    BY <2>1
  <2>3. QED
    BY <2>1, <2>2, OrderStays DEF Entry
<1>2. /\ DOMAIN nt = 1..(Len(tr) + 1) /\ nt[Len(tr) + 1] = new /\ Len(tr) \in Nat
      /\ DOMAIN tr = 1..Len(tr)
      /\ \A i \in DOMAIN tr : nt[i] = tr[i]
  BY <1>1
<1> HIDE DEF nt
<1>3. \A u \in Tasks : ~CommittedBefore(t, u)'
  <2>1. \A u \in Tasks : task'[u].after = task[u].after
    BY DEF Moved
  <2>2. committed' = committed \/ committed' = Append(committed, t)
    BY DEF Moved
  <2>3. \A u \in Tasks : ~CommittedBefore(t, u)
    BY OnlyDoneAreCommitted DEF Moved, Open
  <2>4. QED
    BY <2>1, <2>2, <2>3, BeforeStays
<1>4. ASSUME NEW i \in DOMAIN nt
      PROVE  task'[nt[i].by].step \in {"commit", "done", "failed"}
  BY <1>1, <1>2 DEF Ordered
<1>5. ASSUME NEW i \in DOMAIN nt, NEW k \in DOMAIN nt,
             CommittedBefore(nt[i].by, nt[k].by)'
      PROVE  i < k
  <2>1. i \in DOMAIN tr
    BY <1>1, <1>2, <1>3, <1>5
  <2>2. CASE k \in DOMAIN tr
    BY <1>1, <1>2, <1>5, <2>1, <2>2 DEF Ordered
  <2>3. CASE k \notin DOMAIN tr
    BY <1>2, <2>1, <2>3
  <2>4. QED
    BY <2>2, <2>3
<1>6. QED
  BY <1>4, <1>5 DEF Ordered, nt

\* What a task's own step makes of the trail: nothing, its copy of it, or its
\* entry on top, which in Postgres has the task's date and is committed
LEMMA TrailMoves ==
  ASSUME Inv, NEW t \in Tasks, WriteRow(t) \/ WriteEntry(t) \/ Commit(t) \/ Fail(t)
  PROVE  \/ UNCHANGED trail
         \/ kind = "memory" /\ trail' = task[t].trailBefore
         \/ \E new \in Entry :
              /\ trail' = Append(trail, new) /\ new.by = t
              /\ task'[t].step \in {"commit", "done"}
              /\ kind = "knex" => task'[t].step = "done" /\ new.at = task'[t].at
<1>1. Moved(t)
  BY StepsMove
<1>2. /\ task \in [Tasks -> Task] /\ task[t] \in Task /\ task[t].envelope \in Envelopes
      /\ task[t].at \in Nat /\ clock \in Nat
  BY <1>1 DEF Inv, Typed, TasksAreSound, Moved, Open, Task
<1>3. CASE WriteEntry(t)
  <2> DEFINE alone == ~WritesRow(task[t].job)
             at == IF kind = "memory" \/ alone THEN clock ELSE task[t].at
             new == [envelope |-> task[t].envelope, by |-> t, at |-> at]
             r == [task[t] EXCEPT !.at = at, !.step = IF alone THEN "done" ELSE "commit"]
  <2>1. new \in Entry /\ new.by = t /\ new.at = at
    BY <1>2 DEF Entry
  <2>2. task' = [task EXCEPT ![t] = r]
    BY <1>2, <1>3 DEF WriteEntry, Task
  <2>3. task'[t].step = (IF alone THEN "done" ELSE "commit") /\ task'[t].at = at
    BY <1>2, <2>2 DEF Task
  <2>4. trail' = IF kind = "memory" \/ alone THEN Append(trail, new) ELSE trail
    BY <1>2, <1>3 DEF WriteEntry, PutEntry, Task
  <2> HIDE DEF new, at
  <2>5. QED
    BY <2>1, <2>3, <2>4
<1>4. CASE Commit(t)
  <2> DEFINE new == [envelope |-> task[t].envelope, by |-> t, at |-> task[t].at]
  <2>1. new \in Entry /\ new.by = t /\ new.at = task[t].at
    BY <1>2 DEF Entry
  <2>2. task'[t].step = "done" /\ task'[t].at = task[t].at
    BY <1>2, <1>4 DEF Commit, Task
  <2>3. trail' = IF kind = "knex" THEN Append(trail, new) ELSE trail
    BY <1>4 DEF Commit, PutEntry
  <2> HIDE DEF new
  <2>4. QED
    BY <2>1, <2>2, <2>3
<1>5. CASE WriteRow(t) \/ Fail(t)
  BY <1>5 DEF WriteRow, Fail
<1>6. QED
  BY <1>3, <1>4, <1>5

LEMMA TrailsStayOrdered ==
  ASSUME Inv, [Next]_vars
  PROVE  TrailsAreOrdered'
<1>1. CASE Tick \/ UNCHANGED vars
  BY <1>1 DEF Inv, TrailsAreOrdered, Trails, CommittedBefore, Tick, vars
<1>2. ASSUME NEW t \in Tasks, Began(t) PROVE TrailsAreOrdered'
  <2>1. \A tr \in Trails' : tr \in Trails
    BY <1>2 DEF Began, Trails
  <2>2. QED
    BY <1>2, <2>1, OrderStays DEF TrailsAreOrdered, Ordered
<1>3. ASSUME NEW t \in Tasks, WriteRow(t) \/ WriteEntry(t) \/ Commit(t) \/ Fail(t)
      PROVE  TrailsAreOrdered'
  <2>1. Moved(t)
    BY <1>3, StepsMove
  <2>2. \A u \in Tasks : task'[u].trailBefore = task[u].trailBefore
    BY <2>1 DEF Moved
  <2>3. ASSUME NEW tr, tr = trail' PROVE Ordered(tr)'
    <3>1. trail \in Trails /\ task[t].trailBefore \in Trails
      BY DEF Trails
    <3>2. QED
      BY <1>3, <2>1, <2>3, <3>1, TrailMoves, OrderStays, OrderOnTop
  <2>4. \A tr \in Trails' : tr = trail' \/ tr \in Trails
    BY <2>2 DEF Trails
  <2>5. QED
    BY <2>1, <2>3, <2>4, OrderStays DEF TrailsAreOrdered, Ordered
<1>4. QED
  BY <1>1, <1>2, <1>3, BeginningsBegin DEF Next

-----------------------------------------------------------------------------
(* The dates of Postgres *)

LEMMA DatesStayOrdered ==
  ASSUME Inv, [Next]_vars
  PROVE  DatesAreOrdered'
<1>1. /\ trail \in Seq(Entry) /\ clock \in Nat /\ task \in [Tasks -> Task]
      /\ \A t \in Tasks : task[t].at \in Nat /\ task[t].at <= clock
      /\ \A i \in DOMAIN trail : trail[i].by \in Tasks /\ trail[i].at \in Nat
      /\ DatesAreOrdered
  <2>1. trail \in Seq(Entry)
    BY DEF Inv, Typed
  <2>2. \A i \in DOMAIN trail : trail[i] \in Entry
    BY <2>1
  <2>3. QED
    BY <2>1, <2>2 DEF Inv, Typed, Task, TasksAreSound, Entry
<1> SUFFICES ASSUME kind' = "knex"
             PROVE  DatesAreOrdered'
  BY DEF DatesAreOrdered
<1>2. CASE Tick \/ UNCHANGED vars
  <2>1. /\ UNCHANGED <<kind, trail, task, committed>> /\ clock <= clock' /\ clock' \in Nat
    BY <1>1, <1>2 DEF Tick, vars
  <2>2. QED
    BY <1>1, <2>1 DEF DatesAreOrdered, CommittedBefore
<1>3. ASSUME NEW t \in Tasks, Began(t) PROVE DatesAreOrdered'
  <2>1. /\ kind = "knex" /\ UNCHANGED <<kind, trail, clock, committed>>
        /\ \A u \in Tasks \ {t} : task'[u] = task[u]
        /\ task[t].step = "idle" /\ task'[t].at = clock
    BY <1>3 DEF Began
  <2>2. \A i \in DOMAIN trail :
          /\ task[trail[i].by].step = "done" /\ trail[i].by # t /\ trail[i].at <= clock
          /\ trail[i].at = task[trail[i].by].at
    BY <1>1, <2>1 DEF DatesAreOrdered
  <2>3. ASSUME NEW i \in DOMAIN trail, NEW u \in Tasks, CommittedBefore(trail[i].by, u)'
        PROVE  trail[i].at <= task'[u].at
    <3>1. CASE u = t
      BY <2>1, <2>2, <3>1
    <3>2. CASE u # t
      <4>1. CommittedBefore(trail[i].by, u)
        BY <2>1, <2>3, <3>2 DEF CommittedBefore
      <4>2. QED
        BY <1>1, <2>1, <3>2, <4>1 DEF DatesAreOrdered
    <3>3. QED
      BY <3>1, <3>2
  <2>4. QED
    BY <1>1, <2>1, <2>2, <2>3 DEF DatesAreOrdered
<1>4. ASSUME NEW t \in Tasks, WriteRow(t) \/ WriteEntry(t) \/ Commit(t) \/ Fail(t)
      PROVE  DatesAreOrdered'
  <2>1. Moved(t)
    BY <1>4, StepsMove
  <2>2. /\ kind = "knex" /\ UNCHANGED clock
        /\ \A u \in Tasks \ {t} : task'[u] = task[u]
        /\ task[t].step # "done" /\ task'[t].at \in {task[t].at, clock}
        /\ \A u \in Tasks : task'[u].after = task[u].after
        /\ committed' = committed \/ committed' = Append(committed, t)
    BY <2>1 DEF Moved, Open
  <2>3. \A v, u \in Tasks : CommittedBefore(v, u)' <=> CommittedBefore(v, u)
    BY <2>2, BeforeStays
  <2>4. ASSUME NEW i \in DOMAIN trail, NEW e, e = trail[i]
        PROVE  /\ e.at <= clock' /\ task'[e.by].step = "done" /\ e.at = task'[e.by].at
               /\ \A u \in Tasks : CommittedBefore(e.by, u)' => e.at <= task'[u].at
    <3>1. /\ e.at <= clock /\ task[e.by].step = "done" /\ e.at = task[e.by].at
          /\ \A u \in Tasks : CommittedBefore(e.by, u) => e.at <= task[u].at
          /\ e.by \in Tasks /\ e.at \in Nat
      BY <1>1, <2>2, <2>4 DEF DatesAreOrdered
    <3>2. ASSUME NEW u \in Tasks, CommittedBefore(e.by, u)'
          PROVE  e.at <= task'[u].at
      <4>1. e.at <= task[u].at
        BY <2>3, <3>1, <3>2
      <4>2. CASE u = t
        BY <1>1, <2>2, <3>1, <4>1, <4>2
      <4>3. CASE u # t
        BY <2>2, <4>1, <4>3
      <4>4. QED
        BY <4>2, <4>3
    <3>3. e.by # t
      BY <2>2, <3>1
    <3>4. QED
      BY <2>2, <3>1, <3>2, <3>3
  <2>5. CASE UNCHANGED trail
    BY <2>4, <2>5 DEF DatesAreOrdered
  <2>6. ASSUME NEW new \in Entry, trail' = Append(trail, new), new.by = t,
               task'[t].step = "done", new.at = task'[t].at
        PROVE  DatesAreOrdered'
    <3>1. \A u \in Tasks : ~CommittedBefore(t, u)'
      BY <2>2, <2>3, OnlyDoneAreCommitted
    <3>2. new.at <= clock'
      BY <1>1, <2>2, <2>6
    <3>3. \A i \in DOMAIN trail' : (i \in DOMAIN trail /\ trail'[i] = trail[i]) \/ trail'[i] = new
      BY <1>1, <2>6
    <3>4. QED
      BY <2>4, <2>6, <3>1, <3>2, <3>3 DEF DatesAreOrdered
  <2>7. QED
    BY <1>4, <2>2, <2>5, <2>6, TrailMoves
<1>5. QED
  BY <1>2, <1>3, <1>4, BeginningsBegin DEF Next

-----------------------------------------------------------------------------
(* The contents the committed tasks make *)

\* They are the same until another task commits,
LEMMA ContentsStay ==
  ASSUME Inv, NEW t \in Tasks, Moved(t) \/ Began(t), committed' = committed,
         NEW r, NEW tr, CommittedMake(r, tr)
  PROVE  CommittedMake(r, tr)'
<1>1. \A i \in DOMAIN committed : committed[i] \in Tasks \ {t}
  BY OnlyDoneAreCommitted DEF Inv, Typed, Moved, Began, Open
<1>2. \A i \in DOMAIN committed : task'[committed[i]] = task[committed[i]]
  BY <1>1 DEF Moved, Began
<1>3. [i \in DOMAIN committed |-> EntryOf(committed[i])]'
        = [i \in DOMAIN committed |-> EntryOf(committed[i])]
  BY <1>2 DEF EntryOf
<1>4. \A e \in Envelopes : Writers(e)' = Writers(e)
  BY <1>2 DEF Writers
<1>5. QED
  BY <1>2, <1>3, <1>4 DEF CommittedMake, Writers

\* and then what it wrote is on top.
LEMMA ContentsGrow ==
  ASSUME Inv, NEW t \in Tasks, Moved(t), task'[t].step = "done",
         NEW r \in [Envelopes -> Statuses], NEW tr \in Seq(Entry), CommittedMake(r, tr),
         NEW s, s = IF WritesRow(task[t].job) THEN PutRow(r, task[t]) ELSE r,
         NEW ts, ts = PutEntry(tr, t, task'[t])
  PROVE  CommittedMake(s, ts)'
<1> DEFINE n == Len(committed) + 1
<1>1. /\ committed \in Seq(Tasks) /\ committed' = Append(committed, t)
      /\ task[t].envelope \in Envelopes
  BY DEF Inv, Typed, Moved, TasksAreSound, Open
<1>2. /\ DOMAIN committed = 1..Len(committed) /\ Len(committed) \in Nat
      /\ DOMAIN committed' = 1..n /\ committed'[n] = t
      /\ \A i \in DOMAIN committed : /\ committed'[i] = committed[i]
                                     /\ committed[i] \in Tasks \ {t}
  BY <1>1, OnlyDoneAreCommitted DEF Moved, Open
<1>3. \A i \in DOMAIN committed : task'[committed[i]] = task[committed[i]]
  BY <1>2 DEF Moved
<1>4. ts = [i \in DOMAIN committed |-> EntryOf(committed[i])]'
  <2> DEFINE new == EntryOf(t)'
  <2>1. /\ tr = [i \in DOMAIN committed |-> EntryOf(committed[i])] /\ Len(tr) = Len(committed)
        /\ new \in Entry /\ ts = Append(tr, new)
    <3>1. tr = [i \in DOMAIN committed |-> EntryOf(committed[i])]
      BY DEF CommittedMake
    <3>2. new \in Entry
      BY <1>1 DEF EntryOf, Entry, Moved, Task
    <3>3. ts = Append(tr, new)
      BY DEF PutEntry, EntryOf
    <3>4. DOMAIN tr = 1..Len(committed)
      BY <1>2, <3>1
    <3>5. QED
      BY <1>2, <3>1, <3>2, <3>3, <3>4
  <2> HIDE DEF new
  <2>2. ts = [i \in 1..n |-> IF i = n THEN new ELSE tr[i]]
    <3>1. ts \in Seq(Entry) /\ Len(ts) = n
      BY <2>1
    <3>2. ts = [i \in 1..n |-> ts[i]]
      BY <3>1, LenProperties
    <3>3. \A i \in 1..n : ts[i] = IF i = n THEN new ELSE tr[i]
      BY <1>2, <2>1
    <3>4. QED
      BY <3>2, <3>3
  <2>3. \A i \in 1..n : EntryOf(committed[i])' = IF i = n THEN new ELSE tr[i]
    BY <1>2, <1>3, <2>1 DEF EntryOf, new
  <2>4. QED
    BY <1>2, <2>2, <2>3
<1>5. ASSUME NEW e \in Envelopes
      PROVE  \/ Writers(e)' = {} /\ s[e] = "none"
             \/ \E i \in Writers(e)' : /\ \A k \in Writers(e)' : k <= i
                                       /\ s[e] = RowAfter(task'[committed'[i]].job)
  <2>1. \/ Writers(e) = {} /\ r[e] = "none"
        \/ \E i \in Writers(e) : /\ \A k \in Writers(e) : k <= i
                                 /\ r[e] = RowAfter(task[committed[i]].job)
    BY DEF CommittedMake
  <2>2. CASE WritesRow(task[t].job) /\ task[t].envelope = e
    <3>1. n \in Writers(e)'
      BY <1>2, <2>2 DEF Writers, Moved
    <3>2. \A k \in Writers(e)' : k <= n
      BY <1>2 DEF Writers
    <3>3. s[e] = RowAfter(task'[committed'[n]].job)
      BY <1>2, <2>2 DEF PutRow, Moved
    <3>4. QED
      BY <3>1, <3>2, <3>3
  <2>3. CASE ~(WritesRow(task[t].job) /\ task[t].envelope = e)
    <3>1. s[e] = r[e]
      BY <1>1, <2>3 DEF PutRow
    <3>2. Writers(e)' = Writers(e)
      BY <1>2, <1>3, <2>3 DEF Writers, Moved
    <3>3. \A i \in Writers(e) : task'[committed'[i]].job = task[committed[i]].job
      BY <1>2, <1>3 DEF Writers
    <3>4. QED
      BY <2>1, <3>1, <3>2, <3>3
  <2>4. QED
    BY <2>2, <2>3
<1>6. QED
  BY <1>4, <1>5 DEF CommittedMake

LEMMA KnexKeepsShowing ==
  ASSUME Inv, [Next]_vars
  PROVE  KnexShowsCommitted'
<1> SUFFICES ASSUME kind = "knex"
             PROVE  CommittedMake(rows, trail)'
  BY DEF KnexShowsCommitted, Next, vars, Tick, Begin, WriteRow, WriteEntry, Commit, Fail
<1>1. /\ CommittedMake(rows, trail)
      /\ rows \in [Envelopes -> Statuses] /\ trail \in Seq(Entry)
      /\ \A t \in Tasks : task[t] \in Task
  BY DEF Inv, Typed, KnexShowsCommitted
<1>2. CASE Tick \/ UNCHANGED vars
  <2>1. UNCHANGED <<rows, trail, task, committed>>
    BY <1>2 DEF Tick, vars
  <2>2. QED
    BY <1>1, <2>1 DEF CommittedMake, EntryOf, Writers
<1>3. ASSUME NEW t \in Tasks, Began(t) PROVE CommittedMake(rows, trail)'
  <2>1. UNCHANGED <<rows, trail, committed>>
    BY <1>3 DEF Began
  <2>2. QED
    BY <1>1, <1>3, <2>1, ContentsStay DEF CommittedMake
<1>4. ASSUME NEW t \in Tasks, WriteRow(t) \/ WriteEntry(t) \/ Commit(t) \/ Fail(t)
      PROVE  CommittedMake(rows, trail)'
  <2>1. Moved(t)
    BY <1>4, StepsMove
  <2>2. CASE task'[t].step # "done"
    <3>1. UNCHANGED <<rows, trail, committed>>
      BY <1>1, <1>4, <2>1, <2>2 DEF Moved, WriteRow, WriteEntry, Commit, Fail, Task, Inv, Typed
    <3>2. QED
      BY <1>1, <2>1, <3>1, ContentsStay DEF CommittedMake
  <2>3. CASE task'[t].step = "done"
    <3>1. /\ rows' = IF WritesRow(task[t].job) THEN PutRow(rows, task[t]) ELSE rows
          /\ trail' = PutEntry(trail, t, task'[t])
      <4>1. CASE WriteEntry(t)
        <5>1. ~WritesRow(task[t].job) /\ task'[t].at = clock /\ UNCHANGED rows
          BY <1>1, <2>3, <4>1 DEF WriteEntry, Task, Inv, Typed
        <5>2. trail' = Append(trail, [envelope |-> task[t].envelope, by |-> t, at |-> clock])
          BY <1>1, <4>1, <5>1 DEF WriteEntry, PutEntry, Task
        <5>3. QED
          BY <2>1, <5>1, <5>2 DEF PutEntry, Moved
      <4>2. CASE Commit(t)
        <5>1. WritesRow(task[t].job) /\ task'[t].at = task[t].at
          BY <1>1, <4>2 DEF Commit, Task, Inv, Typed, TasksAreSound
        <5>2. QED
          BY <2>1, <4>2, <5>1 DEF Commit, PutEntry, Moved
      <4>3. ~WriteRow(t) /\ ~Fail(t)
        BY <1>1, <2>3 DEF WriteRow, Fail, Inv, Typed, Task
      <4>4. QED
        BY <1>4, <4>1, <4>2, <4>3
    <3>2. ASSUME NEW s, s = rows', NEW ts, ts = trail'
          PROVE  CommittedMake(s, ts)'
      BY <1>1, <2>1, <2>3, <3>1, <3>2, ContentsGrow
    <3>3. QED
      BY <3>2 DEF CommittedMake
  <2>4. QED
    BY <2>2, <2>3
<1>5. QED
  BY <1>2, <1>3, <1>4, BeginningsBegin DEF Next

LEMMA MemoryKeepsShowing ==
  ASSUME Inv, [Next]_vars
  PROVE  MemoryShowsOneTask'
<1>0. UNCHANGED kind
  BY DEF Next, vars, Tick, Begin, WriteRow, WriteEntry, Commit, Fail
<1> SUFFICES ASSUME kind = "memory", ~overlapped'
             PROVE  MemoryShowsOneTask'
  BY <1>0 DEF MemoryShowsOneTask
<1>1. ~overlapped
  BY Zenon DEF Next, vars, Tick, Begin, WriteRow, WriteEntry, Commit, Fail
<1>2. /\ rows \in [Envelopes -> Statuses] /\ trail \in Seq(Entry)
      /\ \A t \in Tasks : task[t] \in Task
      /\ Open = {} => CommittedMake(rows, trail)
      /\ \A t \in Open :
           /\ \A u \in Open : u = t
           /\ CommittedMake(task[t].rowsBefore, task[t].trailBefore)
           /\ rows = IF task[t].step = "row" \/ ~WritesRow(task[t].job)
                     THEN task[t].rowsBefore ELSE PutRow(task[t].rowsBefore, task[t])
           /\ trail = IF task[t].step = "commit"
                      THEN PutEntry(task[t].trailBefore, t, task[t]) ELSE task[t].trailBefore
  BY <1>1 DEF Inv, Typed, MemoryShowsOneTask
<1>3. CASE Tick \/ UNCHANGED vars
  <2>1. UNCHANGED <<rows, trail, task, committed>>
    BY <1>3 DEF Tick, vars
  <2>2. QED
    BY <1>2, <2>1 DEF MemoryShowsOneTask, CommittedMake, EntryOf, Writers, Open
<1>4. ASSUME NEW t \in Tasks, Began(t)
      PROVE  MemoryShowsOneTask'
  <2>1. /\ Open = {} /\ UNCHANGED <<rows, trail, committed>>
        /\ task'[t].rowsBefore = rows /\ task'[t].trailBefore = trail
        /\ task'[t].step = IF WritesRow(task'[t].job) THEN "row" ELSE "entry"
    BY <1>4 DEF Began
  <2>2. Open' = {t}
    BY <1>4, <2>1 DEF Open, Began
  <2>3. CommittedMake(rows, trail)'
    BY <1>2, <1>4, <2>1, ContentsStay DEF CommittedMake
  <2>4. CommittedMake(task[t].rowsBefore, task[t].trailBefore)'
    BY <2>1, <2>3 DEF CommittedMake
  <2>5. QED
    BY <2>1, <2>2, <2>4 DEF MemoryShowsOneTask
<1>5. ASSUME NEW t \in Tasks, WriteRow(t) \/ WriteEntry(t) \/ Commit(t) \/ Fail(t)
      PROVE  MemoryShowsOneTask'
  <2> DEFINE r == task[t].rowsBefore
             tr == task[t].trailBefore
  <2>1. Moved(t) /\ t \in Open
    BY <1>5, StepsMove DEF Moved
  <2>2. /\ Open = {t} /\ CommittedMake(r, tr)
        /\ rows = (IF task[t].step = "row" \/ ~WritesRow(task[t].job)
                   THEN r ELSE PutRow(r, task[t]))
        /\ trail = (IF task[t].step = "commit" THEN PutEntry(tr, t, task[t]) ELSE tr)
        /\ task[t] \in Task /\ r \in [Envelopes -> Statuses] /\ tr \in Seq(Entry)
    BY <1>2, <2>1 DEF Task, Open
  <2>3. /\ Open' = IF task'[t].step \in {"entry", "commit"} THEN {t} ELSE {}
        /\ task'[t].rowsBefore = r /\ task'[t].trailBefore = tr
    BY <2>1, <2>2 DEF Moved, Open
  <2>4. CASE task'[t].step # "done"
    <3>1. committed' = committed
      BY <2>1, <2>4 DEF Moved
    <3>2. CommittedMake(r, tr)'
      <4>1. ASSUME NEW s, s = r, NEW ts, ts = tr PROVE CommittedMake(s, ts)'
        BY <2>1, <2>2, <3>1, <4>1, ContentsStay
      <4>2. QED
        BY <2>3, <4>1 DEF CommittedMake
    <3>3. CASE WriteRow(t)
      <4>1. /\ rows' = PutRow(r, task[t]) /\ trail' = tr /\ task'[t].step = "entry"
            /\ WritesRow(task'[t].job) /\ task'[t].job = task[t].job
            /\ task'[t].envelope = task[t].envelope
        BY <1>2, <2>1, <2>2, <3>3 DEF WriteRow, Moved, Inv, Typed, TasksAreSound
      <4>2. rows' = PutRow(task'[t].rowsBefore, task'[t])
        BY <2>3, <4>1 DEF PutRow
      <4>3. QED
        BY <2>3, <3>2, <4>1, <4>2 DEF MemoryShowsOneTask
    <3>4. CASE WriteEntry(t)
      <4> DEFINE new == [envelope |-> task[t].envelope, by |-> t, at |-> clock]
      <4>1. /\ task[t].step = "entry" /\ WritesRow(task[t].job) /\ UNCHANGED rows
            /\ task'[t].step = "commit" /\ task'[t].at = clock
            /\ trail' = Append(trail, new)
        BY <1>2, <2>4, <3>4 DEF WriteEntry, PutEntry, Task, Inv, Typed
      <4>2. /\ trail' = PutEntry(tr, t, task'[t])
            /\ task'[t].job = task[t].job
            /\ rows' = PutRow(r, task'[t])
        BY <2>1, <2>2, <4>1 DEF PutEntry, PutRow, Moved
      <4>3. QED
        BY <2>3, <3>2, <4>1, <4>2 DEF MemoryShowsOneTask
    <3>5. CASE Fail(t)
      <4>1. task'[t].step = "failed" /\ rows' = r /\ trail' = tr
        BY <1>2, <2>1, <2>2, <3>5 DEF Fail, Inv, Typed, TasksAreSound, Task
      <4>2. CommittedMake(rows, trail)'
        BY <2>3, <3>2, <4>1 DEF CommittedMake
      <4>3. QED
        BY <2>3, <4>1, <4>2 DEF MemoryShowsOneTask
    <3>6. ~Commit(t)
      BY <2>4 DEF Commit, Inv, Typed, Task
    <3>7. QED
      BY <1>5, <3>3, <3>4, <3>5, <3>6
  <2>5. CASE task'[t].step = "done"
    <3>1. /\ rows' = IF WritesRow(task[t].job) THEN PutRow(r, task[t]) ELSE r
          /\ trail' = PutEntry(tr, t, task'[t])
      <4>1. CASE WriteEntry(t)
        <5>1. /\ ~WritesRow(task[t].job) /\ task'[t].at = clock /\ UNCHANGED rows
              /\ task[t].step = "entry"
          BY <1>2, <2>5, <4>1 DEF WriteEntry, Task, Inv, Typed
        <5>2. trail' = Append(trail, [envelope |-> task[t].envelope, by |-> t, at |-> clock])
          BY <1>2, <4>1, <5>1 DEF WriteEntry, PutEntry, Task
        <5>3. QED
          BY <2>1, <2>2, <5>1, <5>2 DEF PutEntry, Moved
      <4>2. CASE Commit(t)
        <5>1. /\ WritesRow(task[t].job) /\ task'[t].at = task[t].at
              /\ task[t].step = "commit" /\ UNCHANGED <<rows, trail>>
          BY <1>2, <4>2 DEF Commit, Task, Inv, Typed, TasksAreSound
        <5>2. QED
          BY <2>1, <2>2, <5>1 DEF PutEntry, Moved
      <4>3. ~WriteRow(t) /\ ~Fail(t)
        BY <1>2, <2>5 DEF WriteRow, Fail, Inv, Typed, Task
      <4>4. QED
        BY <1>5, <4>1, <4>2, <4>3
    <3>2. ASSUME NEW s, s = rows', NEW ts, ts = trail'
          PROVE  CommittedMake(s, ts)'
      BY <2>1, <2>2, <2>5, <3>1, <3>2, ContentsGrow
    <3>3. CommittedMake(rows, trail)'
      BY <3>2 DEF CommittedMake
    <3>4. QED
      BY <2>3, <2>5, <3>3 DEF MemoryShowsOneTask
  <2>6. QED
    BY <2>4, <2>5
<1>6. QED
  BY <1>3, <1>4, <1>5, BeginningsBegin DEF Next

-----------------------------------------------------------------------------
(* What the port promises *)

LEMMA InitEstablishesInv == Init => Inv
<1> SUFFICES ASSUME Init
             PROVE  Inv
  OBVIOUS
<1>1. Idle \in Task
  BY EmptySeq DEF Idle, Task, Steps, Statuses
<1>2. Typed
  BY <1>1, EmptySeq, Zenon DEF Init, Typed, Statuses
<1>3. /\ DOMAIN committed = {} /\ DOMAIN trail = {} /\ Len(committed) = 0
      /\ \A t \in Tasks : /\ task[t] = Idle /\ task[t].step = "idle" /\ task[t].after = 0
                          /\ task[t].at = 0 /\ task[t].trailBefore = <<>>
      /\ trail = <<>> /\ clock = 0
  BY DEF Init, Idle
<1>4. TasksAreSound
  BY <1>3 DEF TasksAreSound
<1>5. TrailsAreOrdered
  BY <1>3 DEF TrailsAreOrdered, Trails
<1>6. DatesAreOrdered
  BY <1>3 DEF DatesAreOrdered
<1>7. CommittedMake(rows, trail)
  <2>1. trail = [i \in DOMAIN committed |-> EntryOf(committed[i])]
    BY <1>3
  <2>2. \A e \in Envelopes : Writers(e) = {} /\ rows[e] = "none"
    BY <1>3 DEF Writers, Init
  <2>3. QED
    BY <2>1, <2>2 DEF CommittedMake
<1>8. Open = {}
  BY <1>3 DEF Open
<1>9. QED
  BY <1>2, <1>4, <1>5, <1>6, <1>7, <1>8 DEF Inv, KnexShowsCommitted, MemoryShowsOneTask

LEMMA Invariance == Spec => []Inv
<1>1. Inv /\ [Next]_vars => Inv'
  BY TypesStay, TasksStaySound, TrailsStayOrdered, DatesStayOrdered, KnexKeepsShowing,
     MemoryKeepsShowing DEF Inv
<1>2. QED
  BY <1>1, InitEstablishesInv, PTL DEF Spec

\* A transaction's writes take effect together or not at all: on Postgres at
\* every moment, however many tasks overlap; in memory between transactions,
\* until two of them do.
THEOREM TransactionsAreWhole == Spec => []AllOrNothing
<1>1. Inv => AllOrNothing
  BY DEF Inv, Typed, KnexShowsCommitted, MemoryShowsOneTask, AllOrNothing
<1>2. QED
  BY <1>1, Invariance, PTL

\* An entry is never listed below one whose task had committed before its own
\* began, whichever store it is and whatever was rolled back in between.
THEOREM LogsListNewestFirst == Spec => []NewestFirst
<1>1. Inv => NewestFirst
  <2> SUFFICES ASSUME Inv, NEW i \in DOMAIN trail, NEW k \in DOMAIN trail,
                      CommittedBefore(trail[i].by, trail[k].by)
               PROVE  ListedAbove(k, i)
    BY DEF NewestFirst
  <2>1. trail \in Seq(Entry) /\ trail \in Trails
    BY DEF Inv, Typed, Trails
  <2>2. /\ trail[i] \in Entry /\ trail[k] \in Entry /\ i \in Nat /\ k \in Nat
    BY <2>1
  <2>3. i < k
    BY <2>1 DEF Inv, TrailsAreOrdered
  <2>4. kind = "knex" => trail[i].at <= trail[k].at
    BY <2>2 DEF Inv, DatesAreOrdered, Entry
  <2>5. QED
    BY <2>2, <2>3, <2>4 DEF ListedAbove, Entry
<1>2. QED
  BY <1>1, Invariance, PTL

=============================================================================
