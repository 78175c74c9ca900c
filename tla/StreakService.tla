--------------------------- MODULE StreakService ----------------------------
(***************************************************************************)
(* Several processes that run the engine on one database: host threads     *)
(* that record activities under idempotency keys, and schedulers that      *)
(* tick.  Each streak belongs to a subject of its own and all subjects are *)
(* in one zone, so that the clock is the number of the day.                *)
(*                                                                         *)
(* A transaction takes the lock of the streak's row, reads, computes and   *)
(* inserts its events in one step (Execute, SettleOne, RemindOne), and     *)
(* commits in another, or does not.  In between, nothing it does can be    *)
(* seen, except that the events have drawn their ids: a sequence does not  *)
(* wait for a commit and does not go back.                                 *)
(*                                                                         *)
(* Not here: zones, grace, undo and repair (StreakEngine, StreakTx),       *)
(* reports without a key, and the handler that inTx calls after a commit.  *)
(***************************************************************************)
EXTENDS StreakDue

CONSTANTS
  Procs,      \* the threads and processes that run the engine
  Streaks,    \* the streaks, each of another subject
  Keys,       \* RecordReq.IdempotencyKey
  Calls,      \* inputs: the pairs of a key and a streak that hosts report
  None,       \* no row, no answer, no holder
  MinAmount,  \* cfg.MinAmountPerPeriod, normalized
  Days,       \* bound: the days on which anything happens
  MaxCalls,   \* bound: how many reports are sent, retries included
  MaxFaults   \* bound: how many errors, crashes and lost connections there are

\* The view a report is answered with.
Answer == [streak : Streaks, period : Period, count : Nat]

ASSUME ServiceAssumption ==
  /\ IsFiniteSet(Keys) /\ Calls \subseteq Keys \X Streaks
  /\ None \notin Procs /\ None \notin Answer
  /\ MinAmount \in Nat \ {0}
  /\ Days \subseteq 2..LastPeriod /\ Days # {}
  /\ MaxCalls \in Nat /\ MaxFaults \in Nat

VARIABLES
  day,       \* the clock of every process
  row,       \* streaks: the state of each streak
  marks,     \* period_marks
  memo,      \* idempotency_keys: the answer saved under each key
  outbox,    \* events
  sequence,  \* the last id drawn from the sequence of events
  claims,    \* reminder_claims
  lock,      \* the holder of the scheduler's advisory lock
  proc,      \* what each process is doing
  answers,   \* auxiliary: the answers hosts were given, by key
  calls,     \* bound: the reports sent so far
  faults     \* bound: the failures so far

FirstDay == CHOOSE d \in Days : \A e \in Days : d <= e

tables == <<row, marks, memo, outbox, claims>>
history == <<answers, calls, faults>>
svars == <<day, tables, sequence, lock, proc, history>>

\* An outbox row.
Row == [id : Nat, streak : Streaks, type : EventType, period : Period, count : Nat]

\* op and stage say where a process is; at is the clock it read, todo the
\* candidates of its tick; save and insert are its uncommitted writes.
Proc == [op : {"none", "record", "settle", "remind"},
         stage : {"idle", "called", "ticking", "written", "answering"},
         at : Period, key : Keys \cup {None}, streak : Streaks \cup {None},
         todo : SUBSET Streaks, save : State, insert : SUBSET Row,
         answer : Answer \cup {None}]

Resting == [op |-> "none", stage |-> "idle", at |-> FirstDay, key |-> None,
            streak |-> None, todo |-> {}, save |-> NewState, insert |-> {},
            answer |-> None]

\* Every table holds what its columns allow and every process is somewhere.
ServiceTypeOK ==
  /\ day \in Days
  /\ row \in [Streaks -> State]
  /\ marks \in [Streaks -> [Period -> Nat]]
  /\ memo \in [Keys -> Answer \cup {None}]
  /\ outbox \subseteq Row
  /\ sequence \in Nat
  /\ claims \in [Streaks -> SUBSET Period]
  /\ lock \in Procs \cup {None}
  /\ proc \in [Procs -> Proc]
  /\ answers \in [Keys -> SUBSET Answer]
  /\ calls \in 0..MaxCalls /\ faults \in 0..MaxFaults

ServiceInit ==
  /\ day = FirstDay
  /\ row = [s \in Streaks |-> NewState]
  /\ marks = [s \in Streaks |-> [p \in Period |-> 0]]
  /\ memo = [k \in Keys |-> None]
  /\ outbox = {}
  /\ sequence = 0
  /\ claims = [s \in Streaks |-> {}]
  /\ lock = None
  /\ proc = [p \in Procs |-> Resting]
  /\ answers = [k \in Keys |-> {}]
  /\ calls = 0 /\ faults = 0

\* The next of the days; between two of them nobody reports and nothing ticks.
NextDay ==
  /\ \E d \in Days : day < d /\ day' = d /\ ~\E e \in Days : day < e /\ e < d
  /\ UNCHANGED <<tables, sequence, lock, proc, history>>

-----------------------------------------------------------------------------
(***************************************************************************)
(* Transactions                                                            *)
(***************************************************************************)

\* Mutant of RowFree: the row is read without FOR UPDATE.
RowNeverLocked(s) == TRUE

\* Nobody has the row of streak s locked.
RowFree(s) == ~\E q \in Procs : proc[q].stage = "written" /\ proc[q].streak = s

\* Mutant of Before: what elapsed is inserted after what was earned.
BeforeReversed(e, f) == f.period < e.period

\* The order in which an operation inserts its events: elapsed periods first,
\* and in one period the order of Apply.
Before(e, f) ==
  LET order == [t \in EventType |->
                  CASE t = "freeze_earned" -> 1 [] t = "milestone" -> 2
                    [] t = "completed" -> 3 [] OTHER -> 0]
  IN  e.period < f.period \/ (e.period = f.period /\ order[e.type] < order[f.type])

\* InsertEvent for each event: a row with the next id of the sequence.
Inserted(s, evs) ==
  {[id |-> sequence + 1 + Cardinality({f \in evs : Before(f, e)}),
    streak |-> s, type |-> e.type, period |-> e.period, count |-> e.count] :
     e \in evs}

\* Process p has the row of streak s locked and its writes are under way.
Write(p, s, state, evs, answer) ==
  /\ proc' = [proc EXCEPT ![p] = [@ EXCEPT
                !.stage = "written", !.streak = s, !.save = state,
                !.insert = Inserted(s, evs), !.answer = answer]]
  /\ sequence' = sequence + Cardinality(evs)
  /\ UNCHANGED <<day, tables, lock, history>>

\* The writes of p to the row and to the outbox become visible together, and
\* p goes on as `next'.
Commit(p, next) ==
  /\ proc[p].stage = "written"
  /\ row' = [row EXCEPT ![proc[p].streak] = proc[p].save]
  /\ outbox' = outbox \cup proc[p].insert
  /\ proc' = [proc EXCEPT ![p] = next]
  /\ UNCHANGED <<day, sequence, lock, history>>

-----------------------------------------------------------------------------
(***************************************************************************)
(* Record                                                                  *)
(***************************************************************************)

\* A host reports, for the first time or again; the engine reads the clock.
Call(p, k, s) ==
  /\ proc[p].stage = "idle" /\ calls < MaxCalls
  /\ calls' = calls + 1
  /\ proc' = [proc EXCEPT ![p] = [Resting EXCEPT
                !.op = "record", !.stage = "called",
                !.at = day, !.key = k, !.streak = s]]
  /\ UNCHANGED <<day, tables, sequence, lock, answers, faults>>

\* The transaction is over and its answer on the way to the host.
Answering(p, answer) ==
  [Resting EXCEPT !.op = "record", !.stage = "answering", !.key = proc[p].key,
                  !.streak = proc[p].streak, !.answer = answer]

\* Mutant of Replayed: the answer is the streak of the moment, not the memo.
ReplayedAnew(k, s, at) ==
  [streak |-> s, period |-> at, count |-> Derive(row[s], at).count]

\* What a report is answered with when its key has a memo, whatever it reports.
Replayed(k, s, at) == memo[k]

\* The key has been answered: nothing is recorded.
AnswerAgain(p) ==
  LET me == proc[p]
  IN  /\ me.stage = "called" /\ RowFree(me.streak)
      /\ memo[me.key] # None
      /\ proc' = [proc EXCEPT ![p] =
                    Answering(p, Replayed(me.key, me.streak, me.at))]
      /\ UNCHANGED <<day, tables, sequence, lock, history>>

\* The key is new: settle, add the mark, earn, insert the events.
Execute(p) ==
  LET me      == proc[p]
      s       == me.streak
      settled == Settle(row[s], me.at)
      earns   == marks[s][me.at] + 1 >= MinAmount
      after   == IF earns THEN Apply(settled, me.at) ELSE settled
  IN  /\ me.stage = "called" /\ RowFree(s)
      /\ memo[me.key] = None
      /\ Write(p, s, after,
               SettleEvents(row[s], me.at) \cup
                 (IF earns THEN ApplyEvents(settled, me.at) ELSE {}),
               [streak |-> s, period |-> me.at, count |-> Derive(after, me.at).count])

\* Mutant of CommitRecord: a key that is taken is no error.
CommitRecordAnyway(p) ==
  LET me == proc[p]
  IN  /\ me.op = "record" /\ Commit(p, Answering(p, me.answer))
      /\ marks' = [marks EXCEPT ![me.streak][me.at] = @ + 1]
      /\ memo' = [memo EXCEPT ![me.key] = IF @ = None THEN me.answer ELSE @]
      /\ UNCHANGED claims

\* SaveIdempotency is the last write before the commit.
CommitRecord(p) ==
  LET me == proc[p]
  IN  /\ me.op = "record" /\ memo[me.key] = None
      /\ Commit(p, Answering(p, me.answer))
      /\ marks' = [marks EXCEPT ![me.streak][me.at] = @ + 1]
      /\ memo' = [memo EXCEPT ![me.key] = me.answer]
      /\ UNCHANGED claims

\* Another streak's report committed under the key: the primary key of the
\* memos refuses this one, and the host gets an error.
KeyConflict(p) ==
  /\ proc[p].op = "record" /\ proc[p].stage = "written"
  /\ memo[proc[p].key] # None
  /\ proc' = [proc EXCEPT ![p] = Resting]
  /\ UNCHANGED <<day, tables, sequence, lock, history>>

\* The host has its answer.
Answered(p) ==
  LET me == proc[p]
  IN  /\ me.stage = "answering"
      /\ answers' = [answers EXCEPT ![me.key] = @ \cup {me.answer}]
      /\ proc' = [proc EXCEPT ![p] = Resting]
      /\ UNCHANGED <<day, tables, sequence, lock, calls, faults>>

-----------------------------------------------------------------------------
(***************************************************************************)
(* Tick                                                                    *)
(***************************************************************************)

\* The advisory lock is free: the tick takes it, reads the clock and finds the
\* streaks that are due.
TickStart(p) ==
  /\ proc[p].stage = "idle" /\ lock = None
  /\ lock' = p
  /\ proc' = [proc EXCEPT ![p] = [Resting EXCEPT
                !.op = "settle", !.stage = "ticking", !.at = day,
                !.todo = {s \in Streaks : SettleIsDue(row[s], day)}]]
  /\ UNCHANGED <<day, tables, sequence, history>>

\* Streak s is done with; the tick goes on with the others.
Ticking(p, s) ==
  [Resting EXCEPT !.op = proc[p].op, !.stage = "ticking", !.at = proc[p].at,
                  !.todo = proc[p].todo \ {s}]

\* Nothing to write for streak s.
Skip(p, s) ==
  /\ proc' = [proc EXCEPT ![p] = Ticking(p, s)]
  /\ UNCHANGED <<day, tables, sequence, lock, history>>

\* settleOne, in the order the query returned the candidates, which is any.
SettleOne(p, s) ==
  LET me    == proc[p]
      after == Settle(row[s], me.at)
      evs   == SettleEvents(row[s], me.at)
  IN  /\ me.op = "settle" /\ me.stage = "ticking"
      /\ s \in me.todo /\ RowFree(s)
      /\ IF evs = {} /\ after = row[s] THEN Skip(p, s)
         ELSE Write(p, s, after, evs, None)

CommitSettle(p) ==
  /\ proc[p].op = "settle" /\ Commit(p, Ticking(p, proc[p].streak))
  /\ UNCHANGED <<marks, memo, claims>>

\* Everything due is settled: the second half of the tick.
RemindStart(p) ==
  /\ proc[p].op = "settle" /\ proc[p].stage = "ticking" /\ proc[p].todo = {}
  /\ proc' = [proc EXCEPT ![p] = [@ EXCEPT
                !.op = "remind", !.at = day,
                !.todo = {s \in Streaks : row[s].currentCount > 0}]]
  /\ UNCHANGED <<day, tables, sequence, lock, history>>

\* remindOne, with a reminder at the start of the day.
RemindOne(p, s) ==
  LET me   == proc[p]
      view == Derive(row[s], me.at)
  IN  /\ me.op = "remind" /\ me.stage = "ticking"
      /\ s \in me.todo /\ RowFree(s)
      /\ IF AtRisk(view) /\ me.at \notin claims[s]
         THEN Write(p, s, row[s], {Ev("at_risk", me.at, view.count)}, None)
         ELSE Skip(p, s)

\* Mutant of CommitRemind: the claim of the day is not stored.
CommitRemindUnclaimed(p) ==
  /\ proc[p].op = "remind" /\ Commit(p, Ticking(p, proc[p].streak))
  /\ UNCHANGED <<marks, memo, claims>>

CommitRemind(p) ==
  /\ proc[p].op = "remind" /\ Commit(p, Ticking(p, proc[p].streak))
  /\ claims' = [claims EXCEPT ![proc[p].streak] = @ \cup {proc[p].at}]
  /\ UNCHANGED <<marks, memo>>

\* Mutant of LockWithout: a tick that fails keeps the lock.
LockKept(p) == lock

\* The advisory lock when p has returned from its tick, or its connection died.
LockWithout(p) == IF lock = p THEN None ELSE lock

TickEnd(p) ==
  /\ proc[p].op = "remind" /\ proc[p].stage = "ticking" /\ proc[p].todo = {}
  /\ lock' = LockWithout(p)
  /\ proc' = [proc EXCEPT ![p] = Resting]
  /\ UNCHANGED <<day, tables, sequence, history>>

-----------------------------------------------------------------------------
(***************************************************************************)
(* Failures                                                                *)
(***************************************************************************)

Fault == faults < MaxFaults /\ faults' = faults + 1

\* A statement fails or the process dies: what was not committed is gone, one
\* streak's error ends the whole tick, and after a commit the answer is lost.
Fail(p) ==
  /\ proc[p].stage # "idle"
  /\ Fault
  /\ lock' = LockWithout(p)
  /\ proc' = [proc EXCEPT ![p] = Resting]
  /\ UNCHANGED <<day, tables, sequence, answers, calls>>

\* The connection that holds the advisory lock dies; the tick, whose
\* transactions have other connections, does not notice.
LoseLock(p) ==
  /\ lock = p
  /\ Fault
  /\ lock' = None
  /\ UNCHANGED <<day, tables, sequence, proc, answers, calls>>

-----------------------------------------------------------------------------
\* What process p does by itself once it has begun; ticks begin by the timer.
Progress(p) ==
  \/ AnswerAgain(p) \/ Execute(p) \/ CommitRecord(p) \/ KeyConflict(p) \/ Answered(p)
  \/ TickStart(p) \/ RemindStart(p) \/ TickEnd(p)
  \/ \E s \in Streaks : SettleOne(p, s) \/ RemindOne(p, s)
  \/ CommitSettle(p) \/ CommitRemind(p)

ServiceNext ==
  \/ NextDay
  \/ \E p \in Procs : \/ \E c \in Calls : Call(p, c[1], c[2])
                      \/ Progress(p)
                      \/ Fail(p) \/ LoseLock(p)

ServiceSpec == ServiceInit /\ [][ServiceNext]_svars

\* Some process that can run does run; their schedulers tick for ever.
FairServiceSpec == ServiceSpec /\ WF_svars(\E p \in Procs : Progress(p))

-----------------------------------------------------------------------------
\* A key records once (PLAN.md:135-136), however often and from wherever it is
\* reported, and whatever fails in between: the ledger counts, for every streak
\* and period, the reports that were memoized there.
RecordedOnce ==
  \A s \in Streaks, d \in Period :
    marks[s][d] = Cardinality({k \in Keys : /\ memo[k] # None
                                            /\ memo[k].streak = s
                                            /\ memo[k].period = d})

\* Whoever got an answer got the answer that was saved with the report
\* (record.go:27-28): it is durable and a retry hears the same.
AnswersAgree == \A k \in Keys : answers[k] \subseteq {memo[k]}

\* A report is answered with a view of the streak it names (PLAN.md:135-136:
\* "key reuse across streaks rejected").
AnswersOwn ==
  \A p \in Procs : proc[p].stage = "answering" => proc[p].answer.streak = proc[p].streak

\* No event is told twice: not after a crash, not with two ticks at once, not
\* by a retry (scheduler.go:39-41, PLAN.md:138-139).
EventsOnce ==
  \A r, q \in outbox :
    r.streak = q.streak /\ r.type = q.type /\ r.period = q.period => r = q

\* Who reads the events of a streak by id knows its count (record.go:79-110,
\* 00001_init.sql:65): state and events commit together and in one order.
LogTellsCount ==
  \A s \in Streaks :
    LET told == {r \in outbox : r.streak = s /\ r.type \in {"extended", "broken"}}
        last == CHOOSE r \in told : \A q \in told : q.id <= r.id
    IN  row[s].currentCount =
          IF told = {} \/ last.type = "broken" THEN 0 ELSE last.count

\* Within one streak ids are drawn in the order of the commits, so that a
\* reader by id who has one event of it has all before it.
CommitOrder ==
  [][\A r \in outbox' \ outbox, q \in outbox :
        q.streak = r.streak => q.id < r.id]_svars

\* Some streak has a charge that is pending.
Owing == \E s \in Streaks : SettleEvents(row[s], day) # {}

\* A charge that is owed is charged in the end, though every failure ends a
\* tick with the streaks behind it unsettled (scheduler.go:140-142).
CatchUp == Owing ~> ~Owing
=============================================================================
