------------------------ MODULE StreakServiceProofs -------------------------
(***************************************************************************)
(* Theorems about StreakService, for any number of processes, streaks,     *)
(* keys, reports and failures, and whatever days follow on one another.    *)
(***************************************************************************)
EXTENDS StreakService, StreakCoreProofs

-----------------------------------------------------------------------------
(***************************************************************************)
(* The events of a transaction                                             *)
(***************************************************************************)

\* The days are periods of the calendar.
LEMMA DaysArePeriods == Days \subseteq Period /\ FirstDay \in Days
<1>1. Days \subseteq Nat /\ Days # {}
  BY ServiceAssumption
<1>2. \E d \in Days : \A e \in Days : d <= e
  <2>1. PICK d \in Days : \A e \in Days : ~(e < d)
    BY <1>1, LeastNatural
  <2> QED BY <1>1, <2>1
<1>3. FirstDay \in Days
  BY <1>2 DEF FirstDay
<1>4. Days \subseteq Period
  BY ServiceAssumption, CalendarAssumption DEF Period
<1> QED BY <1>3, <1>4

\* An earn has at most four events.
LEMMA ApplyEventsFinite ==
  ASSUME NEW s, NEW p
  PROVE  IsFiniteSet(ApplyEvents(s, p))
<1> DEFINE n == s.currentCount + 1
           all == {Ev("extended", p, n)} \cup {Ev("freeze_earned", p, n)}
                  \cup {Ev("milestone", p, n)} \cup {Ev("completed", p, n)}
<1>1. IsFiniteSet(all)
  BY FS_Singleton, FS_Union
<1>2. ApplyEvents(s, p) \subseteq all
  BY DEF ApplyEvents
<1> QED BY <1>1, <1>2, FS_Subset

\* What an operation inserts are rows of the outbox with ids that were not
\* drawn before, up to the number of its events.
LEMMA InsertedType ==
  ASSUME NEW s \in Streaks, NEW evs, evs \subseteq Event, IsFiniteSet(evs),
         sequence \in Nat
  PROVE  /\ Inserted(s, evs) \subseteq Row
         /\ Cardinality(evs) \in Nat
         /\ \A e \in Inserted(s, evs) :
              /\ e.streak = s
              /\ sequence < e.id /\ e.id <= sequence + Cardinality(evs)
<1>1. Cardinality(evs) \in Nat
  BY FS_CardinalityType
<1>2. ASSUME NEW e \in Inserted(s, evs)
      PROVE  e \in Row /\ e.streak = s /\ sequence < e.id
             /\ e.id <= sequence + Cardinality(evs)
  <2>1. PICK v \in evs :
          e = [id |-> sequence + 1 + Cardinality({f \in evs : Before(f, v)}),
               streak |-> s, type |-> v.type, period |-> v.period, count |-> v.count]
    BY DEF Inserted
  <2> DEFINE earlier == {f \in evs : Before(f, v)}
  <2>2. v \in Event
    OBVIOUS
  <2>3. v \notin earlier
    <3>1. ~Before(v, v)
      BY <2>2 DEF Before, Event, EventType, Period
    <3> QED BY <3>1
  <2>4. earlier \in SUBSET evs /\ earlier # evs
    BY <2>3
  <2>5. Cardinality(earlier) \in Nat /\ Cardinality(earlier) < Cardinality(evs)
    <3>1. IsFiniteSet(earlier) /\ Cardinality(earlier) <= Cardinality(evs)
          /\ Cardinality(earlier) # Cardinality(evs)
      <4> HIDE DEF earlier
      <4> QED BY <2>4, FS_Subset
    <3>2. Cardinality(earlier) \in Nat
      BY <3>1, FS_CardinalityType
    <3> QED BY <1>1, <3>1, <3>2
  <2>6. e.id = sequence + 1 + Cardinality(earlier) /\ e.streak = s
    BY <2>1
  <2>7. e \in Row
    <3>1. sequence + 1 + Cardinality(earlier) \in Nat
      BY <2>5
    <3> HIDE DEF earlier
    <3> QED BY <2>1, <2>2, <3>1 DEF Row, Event, earlier
  <2> QED BY <1>1, <2>5, <2>6, <2>7
<1> QED BY <1>1, <1>2

-----------------------------------------------------------------------------
(***************************************************************************)
(* The type invariant, strengthened with what a process knows at each      *)
(* stage, and with what is known of the answers.                           *)
(***************************************************************************)

\* What process record `me' holds at its stage.
Working(me) ==
  /\ me.stage \in {"called", "written", "answering"} => me.streak \in Streaks
  /\ me.stage \in {"called", "answering"} => me.op = "record"
  /\ me.op = "record" /\ me.stage \in {"called", "written", "answering"} =>
       me.key \in Keys
  /\ me.op = "record" /\ me.stage = "written" =>
       /\ me.answer \in Answer
       /\ me.answer.streak = me.streak /\ me.answer.period = me.at

\* The answers on their way and those that arrived are the saved ones.
Told ==
  /\ \A p \in Procs :
       proc[p].stage = "answering" =>
         proc[p].answer = memo[proc[p].key] /\ proc[p].answer \in Answer
  /\ \A k \in Keys : \A a \in answers[k] : a = memo[k]

ServiceInv ==
  /\ ServiceTypeOK
  /\ \A p \in Procs : Working(proc[p])
  /\ Told

\* A process at rest is a process.
LEMMA RestingType == Resting \in Proc /\ Working(Resting)
<1>1. FirstDay \in Period
  BY DaysArePeriods
<1> QED BY <1>1, NewStateType, Zenon DEF Resting, Proc, Working

\* One process goes on as `me': the others are where they were.
LEMMA ProcStep ==
  ASSUME ServiceInv, NEW p \in Procs, NEW me \in Proc, Working(me),
         proc' = [proc EXCEPT ![p] = me]
  PROVE  /\ proc' \in [Procs -> Proc]
         /\ \A q \in Procs : Working(proc'[q])
         /\ \A q \in Procs : proc'[q] = IF q = p THEN me ELSE proc[q]
<1>1. proc \in [Procs -> Proc] /\ \A q \in Procs : Working(proc[q])
  BY DEF ServiceInv, ServiceTypeOK
<1>2. \A q \in Procs : proc'[q] = IF q = p THEN me ELSE proc[q]
  BY <1>1
<1>3. proc' \in [Procs -> Proc]
  BY <1>1
<1> QED BY <1>1, <1>2, <1>3, Zenon

\* A step of one process that writes nothing that others can see.
LEMMA QuietStep ==
  ASSUME ServiceInv, NEW p \in Procs, NEW me \in Proc, Working(me),
         me.stage = "answering" => me.answer = memo[me.key] /\ me.answer \in Answer,
         proc' = [proc EXCEPT ![p] = me],
         UNCHANGED <<day, tables, answers>>,
         sequence' \in Nat, lock' \in Procs \cup {None},
         calls' \in 0..MaxCalls, faults' \in 0..MaxFaults
  PROVE  ServiceInv'
<1>1. proc' \in [Procs -> Proc] /\ \A q \in Procs : Working(proc'[q])
  BY ProcStep
<1>2. ServiceTypeOK'
  BY <1>1 DEF ServiceInv, ServiceTypeOK, tables
<1>3. Told'
  <2>1. memo' = memo /\ answers' = answers
    BY DEF tables
  <2>2. ASSUME NEW q \in Procs, proc'[q].stage = "answering"
        PROVE  proc'[q].answer = memo[proc'[q].key] /\ proc'[q].answer \in Answer
    <3>1. proc'[q] = IF q = p THEN me ELSE proc[q]
      BY ProcStep
    <3> QED BY <2>2, <3>1 DEF ServiceInv, Told
  <2> QED BY <2>1, <2>2 DEF ServiceInv, Told
<1> QED BY <1>1, <1>2, <1>3, Zenon DEF ServiceInv

\* A locked row with some writes to it is a transaction under way.
LEMMA WriteStep ==
  ASSUME ServiceInv, NEW p \in Procs, NEW s \in Streaks, NEW state \in State,
         NEW evs, evs \subseteq Event, IsFiniteSet(evs), NEW answer,
         proc[p].op # "record" => answer = None,
         proc[p].op = "record" =>
           /\ proc[p].key \in Keys
           /\ answer \in Answer
           /\ answer.streak = s /\ answer.period = proc[p].at,
         Write(p, s, state, evs, answer)
  PROVE  ServiceInv'
<1> DEFINE me == [proc[p] EXCEPT !.stage = "written", !.streak = s, !.save = state,
                    !.insert = Inserted(s, evs), !.answer = answer]
<1>1. proc[p] \in Proc /\ sequence \in Nat
  BY DEF ServiceInv, ServiceTypeOK
<1>2. Inserted(s, evs) \in SUBSET Row /\ Cardinality(evs) \in Nat
  BY <1>1, InsertedType
<1>3. answer \in Answer \cup {None}
  OBVIOUS
<1>4. me \in Proc
  BY <1>1, <1>2, <1>3 DEF Proc
<1>5. Working(me)
  BY <1>1 DEF Working, Proc
<1>6. me.stage = "written" /\ proc' = [proc EXCEPT ![p] = me]
      /\ sequence' = sequence + Cardinality(evs)
  BY <1>1 DEF Write, Proc
<1>7. UNCHANGED <<day, tables, lock, answers, calls, faults>>
  BY DEF Write, history
<1>8. sequence' \in Nat /\ lock' \in Procs \cup {None}
      /\ calls' \in 0..MaxCalls /\ faults' \in 0..MaxFaults
  BY <1>1, <1>2, <1>6, <1>7 DEF ServiceInv, ServiceTypeOK
<1> HIDE DEF me
<1> QED BY <1>4, <1>5, <1>6, <1>7, <1>8, QuietStep

\* What a process that does not have a transaction under way does next.
LEMMA CallsKeepInv ==
  ASSUME ServiceInv, NEW p \in Procs,
         \/ \E c \in Calls : Call(p, c[1], c[2])
         \/ AnswerAgain(p) \/ KeyConflict(p)
         \/ TickStart(p) \/ RemindStart(p) \/ TickEnd(p) \/ Fail(p)
         \/ \E s \in Streaks : Skip(p, s)
  PROVE  ServiceInv'
<1> DEFINE Quiet(me) ==
      /\ me \in Proc /\ Working(me)
      /\ me.stage = "answering" => me.answer = memo[me.key] /\ me.answer \in Answer
      /\ proc' = [proc EXCEPT ![p] = me]
<1>1. proc[p] \in Proc /\ Working(proc[p]) /\ day \in Days /\ day \in Period
  BY DaysArePeriods DEF ServiceInv, ServiceTypeOK
<1>2. /\ sequence \in Nat /\ lock \in Procs \cup {None}
      /\ calls \in 0..MaxCalls /\ faults \in 0..MaxFaults
      /\ memo \in [Keys -> Answer \cup {None}]
  BY DEF ServiceInv, ServiceTypeOK
<1>3. Resting \in Proc /\ Working(Resting) /\ Resting.stage = "idle"
  BY RestingType DEF Resting
<1>4. ASSUME NEW me, Quiet(me), UNCHANGED <<day, tables, answers, sequence>>,
             lock' \in Procs \cup {None},
             calls' \in 0..MaxCalls, faults' \in 0..MaxFaults
      PROVE  ServiceInv'
  <2>1. sequence' \in Nat
    BY <1>2, <1>4
  <2> QED BY <1>4, <2>1, QuietStep
<1>5. ASSUME NEW c \in Calls, Call(p, c[1], c[2]) PROVE ServiceInv'
  <2> DEFINE me == [Resting EXCEPT !.op = "record", !.stage = "called",
                      !.at = day, !.key = c[1], !.streak = c[2]]
  <2>1. c[1] \in Keys /\ c[2] \in Streaks
    BY ServiceAssumption
  <2>2. me \in Proc /\ Working(me) /\ me.stage = "called"
    BY <1>1, <1>3, <2>1 DEF Proc, Working
  <2>3. calls' \in 0..MaxCalls /\ faults' \in 0..MaxFaults
    <3>1. calls < MaxCalls /\ calls' = calls + 1 /\ faults' = faults
      BY <1>5 DEF Call
    <3>2. MaxCalls \in Nat
      BY ServiceAssumption
    <3> QED BY <1>2, <3>1, <3>2
  <2>4. proc' = [proc EXCEPT ![p] = me]
        /\ UNCHANGED <<day, tables, answers, sequence>> /\ lock' = lock
    BY <1>5 DEF Call
  <2> HIDE DEF me
  <2> QED BY <1>2, <1>4, <2>2, <2>3, <2>4
<1>6. ASSUME AnswerAgain(p) PROVE ServiceInv'
  <2> DEFINE answer == memo[proc[p].key]
             me == Answering(p, answer)
  <2>1. proc[p].stage = "called" /\ answer # None
        /\ proc' = [proc EXCEPT ![p] = me]
        /\ UNCHANGED <<day, tables, answers, sequence, lock, calls, faults>>
    BY <1>6 DEF AnswerAgain, Replayed, history
  <2>2. proc[p].key \in Keys /\ proc[p].streak \in Streaks
    BY <1>1, <2>1 DEF Working
  <2>3. answer \in Answer
    BY <1>2, <2>1, <2>2
  <2> HIDE DEF answer
  <2>4. me \in Proc /\ Working(me) /\ me.answer = answer /\ me.key = proc[p].key
    BY <1>3, <2>2, <2>3 DEF Proc, Working, Answering
  <2>5. Quiet(me)
    BY <2>1, <2>3, <2>4 DEF answer
  <2> HIDE DEF me, Quiet
  <2> QED BY <1>2, <1>4, <2>1, <2>5
<1>7. ASSUME proc' = [proc EXCEPT ![p] = Resting],
             UNCHANGED <<day, tables, answers, sequence>>,
             lock' \in Procs \cup {None},
             calls' \in 0..MaxCalls, faults' \in 0..MaxFaults
      PROVE  ServiceInv'
  BY <1>3, <1>4, <1>7
<1>8. lock \in Procs \cup {None} => LockWithout(p) \in Procs \cup {None}
  BY DEF LockWithout
<1>9. CASE KeyConflict(p)
  BY <1>2, <1>7, <1>9 DEF KeyConflict, history
<1>10. CASE TickEnd(p)
  BY <1>2, <1>7, <1>8, <1>10 DEF TickEnd, history
<1>11. CASE Fail(p)
  <2>1. faults' \in 0..MaxFaults
    BY <1>2, <1>11, ServiceAssumption DEF Fail, Fault
  <2> QED BY <1>2, <1>7, <1>8, <1>11, <2>1 DEF Fail
<1>12. ASSUME TickStart(p) PROVE ServiceInv'
  <2> DEFINE me == [Resting EXCEPT !.op = "settle", !.stage = "ticking", !.at = day,
                      !.todo = {s \in Streaks : SettleIsDue(row[s], day)}]
  <2>1. me \in Proc /\ Working(me) /\ me.stage = "ticking"
    BY <1>1, <1>3 DEF Proc, Working
  <2>2. /\ proc' = [proc EXCEPT ![p] = me] /\ lock' = p
        /\ UNCHANGED <<day, tables, answers, sequence, calls, faults>>
    BY <1>12 DEF TickStart, history
  <2> HIDE DEF me
  <2> QED BY <1>2, <1>4, <2>1, <2>2
<1>13. ASSUME RemindStart(p) PROVE ServiceInv'
  <2> DEFINE me == [proc[p] EXCEPT !.op = "remind", !.at = day,
                      !.todo = {s \in Streaks : row[s].currentCount > 0}]
  <2>1. proc[p].stage = "ticking"
    BY <1>13 DEF RemindStart
  <2>2. me \in Proc /\ Working(me) /\ me.stage = "ticking"
    BY <1>1, <2>1 DEF Proc, Working
  <2>3. /\ proc' = [proc EXCEPT ![p] = me]
        /\ UNCHANGED <<day, tables, answers, sequence, lock, calls, faults>>
    BY <1>13 DEF RemindStart, history
  <2> HIDE DEF me
  <2> QED BY <1>2, <1>4, <2>2, <2>3
<1>14. ASSUME NEW s \in Streaks, Skip(p, s) PROVE ServiceInv'
  <2> DEFINE me == Ticking(p, s)
  <2>1. me \in Proc /\ Working(me) /\ me.stage = "ticking"
    BY <1>1, <1>3 DEF Proc, Working, Ticking
  <2>2. /\ proc' = [proc EXCEPT ![p] = me]
        /\ UNCHANGED <<day, tables, answers, sequence, lock, calls, faults>>
    BY <1>14 DEF Skip, history
  <2> HIDE DEF me
  <2> QED BY <1>2, <1>4, <2>1, <2>2
<1> QED BY <1>5, <1>6, <1>9, <1>10, <1>11, <1>12, <1>13, <1>14

-----------------------------------------------------------------------------
(***************************************************************************)
(* Every event leaves a trace in the row or in the claims, by which the    *)
(* same event is not due again.                                            *)
(***************************************************************************)

ChargeType == {"freeze_consumed", "broken"}
EarnType == {"extended", "freeze_earned", "milestone", "completed"}

\* Event or outbox row e is past for a streak in `state' with these claims.
Past(e, state, claimed) ==
  /\ e.type \in ChargeType => state.lastEarned # NoDate /\ e.period <= state.settledThrough
  /\ e.type \in EarnType => e.period <= state.lastEarned
  /\ e.type = "at_risk" => e.period \in claimed
  /\ e.type # "repaired"

\* Event e is not past for it.
Due(e, state, claimed) ==
  /\ e.type \in ChargeType => state.settledThrough < e.period
  /\ e.type \in EarnType => state.lastEarned < e.period
  /\ e.type = "at_risk" => e.period \notin claimed

\* What is past in state x is past in state y.
Advances(x, y) ==
  /\ x.lastEarned <= y.lastEarned
  /\ x.lastEarned # NoDate => x.settledThrough <= y.settledThrough

Distinct(evs) ==
  \A e, f \in evs : e.type = f.type /\ e.period = f.period => e = f

\* The events that say what a count has become, and what they say.
CountType == {"extended", "broken"}
CountOf(e) == IF e.type = "broken" THEN 0 ELSE e.count

\* The events evs, in the order in which they are inserted, take a count from m
\* to n: the last that speaks of it says so, or none does.
Tells(evs, m, n) ==
  LET told == {e \in evs : e.type \in CountType}
  IN  \/ told = {} /\ n = m
      \/ \E e \in told : n = CountOf(e) /\ \A f \in told : f # e => Before(f, e)

\* The claims a process commits.
Claiming(me) == IF me.op = "remind" THEN {me.at} ELSE {}

\* Process p writes `state' and evs for streak s: new events, which are past
\* once they are committed and tell what the count has become.
Fresh(p, s, state, evs) ==
  /\ Advances(row[s], state)
  /\ \A e \in evs : /\ Past(e, state, claims[s] \cup Claiming(proc[p]))
                    /\ Due(e, row[s], claims[s])
  /\ Distinct(evs)
  /\ Tells(evs, row[s].currentCount, state.currentCount)

LEMMA PastAdvances ==
  ASSUME NEW x \in State, NEW y \in State, Advances(x, y), NEW e, e.period \in Int,
         NEW c, NEW d, c \subseteq d, Past(e, x, c)
  PROVE  Past(e, y, d)
<1>1. /\ x.lastEarned \in Nat /\ y.lastEarned \in Nat
      /\ x.settledThrough \in Nat /\ y.settledThrough \in Nat
  BY CalendarAssumption DEF State, Date, Period, NoDate
<1> QED BY <1>1 DEF Past, Advances, NoDate

LEMMA PastNotDue ==
  ASSUME NEW x \in State, NEW e, NEW f, NEW c, Past(e, x, c), Due(f, x, c),
         e.type = f.type, e.period = f.period, e.type \in EventType, e.period \in Int
  PROVE  FALSE
<1>1. x.lastEarned \in Nat /\ x.settledThrough \in Nat
  BY CalendarAssumption DEF State, Date, Period, NoDate
<1> QED BY <1>1 DEF Past, Due, EventType, ChargeType, EarnType

LEMMA SettleFresh ==
  ASSUME NEW s \in State, NEW cur \in Period
  PROVE  /\ Advances(s, Settle(s, cur))
         /\ Settle(s, cur).lastEarned = s.lastEarned
         /\ Distinct(SettleEvents(s, cur))
         /\ \A e \in SettleEvents(s, cur) :
              /\ e.type \in ChargeType
              /\ \A c : Past(e, Settle(s, cur), c) /\ Due(e, s, c)
<1> DEFINE t == Settle(s, cur)
<1>1. s.lastEarned \in Nat /\ s.settledThrough \in Nat /\ cur \in Nat
  BY CalendarAssumption DEF State, Date, Period, NoDate
<1>2. /\ t.lastEarned = s.lastEarned
      /\ s.lastEarned # NoDate => t.settledThrough = Later(s.settledThrough, cur - 1)
  BY DEF Settle, State, PrevPeriod
<1> HIDE DEF t
<1>3. Advances(s, t)
  BY <1>1, <1>2 DEF Advances, Later
<1>4. ASSUME NEW e \in SettleEvents(s, cur)
      PROVE  /\ e.type \in ChargeType /\ e.count = s.currentCount
             /\ e = Ev(e.type, e.period, s.currentCount)
             /\ \A c : Past(e, t, c) /\ Due(e, s, c)
  <2>1. PICK q \in Charged(s, cur) : \/ e = Ev("freeze_consumed", q, s.currentCount)
                                     \/ e = Ev("broken", q, s.currentCount)
    BY <1>4, Zenon DEF SettleEvents
  <2>2. s.lastEarned # NoDate /\ q \in Missed(s, cur)
    BY DEF Charged
  <2>3. q \in Nat /\ s.settledThrough < q /\ q <= cur - 1
    <3>1. q \in (Later(s.lastEarned, s.settledThrough) + 1)..(cur - 1)
      BY <2>2 DEF Missed
    <3> QED BY <1>1, <3>1 DEF Later
  <2>4. e.period = q /\ e.type \in ChargeType /\ e.count = s.currentCount
        /\ e = Ev(e.type, e.period, s.currentCount)
    BY <2>1 DEF Ev, ChargeType
  <2>5. q <= t.settledThrough
    BY <1>1, <1>2, <2>2, <2>3 DEF Later
  <2> QED BY <1>2, <2>2, <2>3, <2>4, <2>5 DEF Past, Due, ChargeType, EarnType
<1>5. Distinct(SettleEvents(s, cur))
  <2> SUFFICES ASSUME NEW e \in SettleEvents(s, cur), NEW f \in SettleEvents(s, cur),
                      e.type = f.type, e.period = f.period
               PROVE  e = f
    BY DEF Distinct
  <2>1. e = Ev(e.type, e.period, s.currentCount) /\ f = Ev(f.type, f.period, s.currentCount)
    BY <1>4
  <2> QED BY <2>1
<1> QED BY <1>2, <1>3, <1>4, <1>5 DEF t

LEMMA ApplyFresh ==
  ASSUME NEW s \in State, NEW p \in Period
  PROVE  /\ Advances(s, Apply(s, p))
         /\ Distinct(ApplyEvents(s, p))
         /\ \A e \in ApplyEvents(s, p) :
              /\ e.type \in EarnType
              /\ \A c : Past(e, Apply(s, p), c) /\ Due(e, s, c)
<1>1. s.lastEarned \in Nat /\ s.settledThrough \in Nat /\ p \in Nat
  BY CalendarAssumption DEF State, Date, Period, NoDate
<1>2. CASE ~Earns(s, p)
  BY <1>1, <1>2 DEF Apply, ApplyEvents, Advances, Distinct
<1>3. CASE Earns(s, p)
  <2>1. Apply(s, p).lastEarned = p /\ Apply(s, p).settledThrough = s.settledThrough
        /\ s.lastEarned < p
    BY <1>3 DEF Apply, State, Earns
  <2>2. \A e \in ApplyEvents(s, p) :
          e.type \in EarnType /\ e = Ev(e.type, p, s.currentCount + 1) /\ e.period = p
    BY DEF ApplyEvents, Ev, EarnType
  <2>3. Distinct(ApplyEvents(s, p))
    BY <2>2 DEF Distinct
  <2>4. Advances(s, Apply(s, p))
    BY <1>1, <2>1 DEF Advances
  <2>5. \A e \in ApplyEvents(s, p) : \A c : Past(e, Apply(s, p), c) /\ Due(e, s, c)
    BY <1>1, <2>1, <2>2 DEF Past, Due, ChargeType, EarnType
  <2> QED BY <2>2, <2>3, <2>4, <2>5
<1> QED BY <1>2, <1>3

-----------------------------------------------------------------------------
(***************************************************************************)
(* The steps that write                                                    *)
(***************************************************************************)

\* A settlement tells of its break, and of nothing else that is a count.
LEMMA SettleTells ==
  ASSUME NEW s \in State, NEW cur \in Period
  PROVE  Tells(SettleEvents(s, cur), s.currentCount, Settle(s, cur).currentCount)
<1> DEFINE evs  == SettleEvents(s, cur)
           told == {e \in evs : e.type \in CountType}
<1>1. Settle(s, cur).currentCount = IF Breaks(s, cur) THEN 0 ELSE s.currentCount
  BY DEF Settle, State
<1>2. /\ Breaks(s, cur) <=> \E e \in evs : e.type = "broken"
      /\ \A e \in evs : e.type \in {"freeze_consumed", "broken"}
  BY SettleTold
<1>3. CASE ~Breaks(s, cur)
  BY <1>1, <1>2, <1>3 DEF Tells, CountType
<1>4. CASE Breaks(s, cur)
  <2>1. PICK e \in evs : e.type = "broken"
    BY <1>2, <1>4
  <2>2. \A f \in told : f = e
    BY <1>2, <2>1, OneBreak DEF CountType
  <2>3. e \in told /\ CountOf(e) = 0
    BY <2>1 DEF CountType, CountOf
  <2> HIDE DEF evs
  <2> QED BY <1>1, <1>4, <2>2, <2>3 DEF Tells, evs
<1> QED BY <1>3, <1>4

\* What a report tells: the break of what elapsed, then the period it earned.
LEMMA EarnTells ==
  ASSUME NEW s \in State, NEW cur \in Period
  PROVE  LET settled == Settle(s, cur)
         IN  Tells(SettleEvents(s, cur) \cup ApplyEvents(settled, cur),
                   s.currentCount, Apply(settled, cur).currentCount)
<1> DEFINE settled == Settle(s, cur)
           paid    == SettleEvents(s, cur)
           earned  == ApplyEvents(settled, cur)
           e       == Ev("extended", cur, settled.currentCount + 1)
<1>1. settled \in State /\ Tells(paid, s.currentCount, settled.currentCount)
  BY SettleType, SettleTells
<1>2. CASE ~Earns(settled, cur)
  <2>1. earned = {} /\ Apply(settled, cur) = settled
    BY <1>2 DEF ApplyEvents, Apply
  <2>2. paid \cup earned = paid
    BY <2>1
  <2> QED BY <1>1, <2>1, <2>2
<1>3. CASE Earns(settled, cur)
  <2>1. Apply(settled, cur).currentCount = settled.currentCount + 1
    <3> HIDE DEF settled
    <3> QED BY <1>1, <1>3, ApplyFields
  <2>2. e \in earned /\ \A f \in earned : f.type \in CountType => f = e
    <3> HIDE DEF settled
    <3> QED BY <1>3 DEF ApplyEvents, CountType, Ev
  <2>3. \A f \in paid : f.period < e.period
    <3>1. \A f \in paid : f.period \in Charged(s, cur)
      BY SettleTold
    <3>2. \A q \in Charged(s, cur) : q < cur
      <4>1. s.lastEarned \in Nat /\ s.settledThrough \in Nat /\ cur \in Nat
        BY CalendarAssumption DEF State, Date, Period, NoDate
      <4> QED BY <4>1 DEF Charged, Missed, Later
    <3>3. e.period = cur
      BY DEF Ev
    <3> HIDE DEF paid, e
    <3> QED BY <3>1, <3>2, <3>3
  <2>4. \A f \in paid : Before(f, e)
    BY <2>3, Zenon DEF Before
  <2>5. e.type = "extended" /\ e.count = settled.currentCount + 1
    BY DEF Ev
  <2> HIDE DEF paid, earned, settled, e
  <2>6. e \in {f \in paid \cup earned : f.type \in CountType}
    BY <2>2, <2>5 DEF CountType
  <2>7. \A f \in {f \in paid \cup earned : f.type \in CountType} : f # e => Before(f, e)
    BY <2>2, <2>4
  <2>8. Apply(settled, cur).currentCount = CountOf(e)
    BY <2>1, <2>5 DEF CountOf
  <2>9. Tells(paid \cup earned, s.currentCount, Apply(settled, cur).currentCount)
    BY <2>6, <2>7, <2>8 DEF Tells
  <2> QED BY <2>9 DEF paid, earned, settled
<1> QED BY <1>2, <1>3

\* What a report that is recorded writes.
LEMMA ExecuteWrites ==
  ASSUME ServiceInv, NEW p \in Procs, Execute(p)
  PROVE  /\ proc[p].op = "record" /\ proc[p].key \in Keys /\ proc[p].streak \in Streaks
         /\ RowFree(proc[p].streak)
         /\ \E state \in State, evs \in SUBSET Event, answer \in Answer :
              /\ IsFiniteSet(evs)
              /\ answer.streak = proc[p].streak /\ answer.period = proc[p].at
              /\ Fresh(p, proc[p].streak, state, evs)
              /\ Write(p, proc[p].streak, state, evs, answer)
<1> DEFINE s       == proc[p].streak
           at      == proc[p].at
           settled == Settle(row[s], at)
           earns   == marks[s][at] + 1 >= MinAmount
           after   == IF earns THEN Apply(settled, at) ELSE settled
           evs     == SettleEvents(row[s], at) \cup
                        (IF earns THEN ApplyEvents(settled, at) ELSE {})
           answer  == [streak |-> s, period |-> at, count |-> Derive(after, at).count]
<1>1. proc[p] \in Proc /\ Working(proc[p]) /\ proc[p].stage = "called" /\ RowFree(s)
  BY DEF ServiceInv, ServiceTypeOK, Execute
<1>2. s \in Streaks /\ at \in Period /\ proc[p].key \in Keys /\ proc[p].op = "record"
  BY <1>1 DEF Working, Proc
<1>3. row[s] \in State
  BY <1>2 DEF ServiceInv, ServiceTypeOK
<1>4. settled \in State
  BY <1>2, <1>3, SettleType
<1>5. after \in State
  <2> HIDE DEF settled
  <2> QED BY <1>2, <1>4, ApplyType
<1>6. evs \subseteq Event /\ IsFiniteSet(evs)
  <2>1. SettleEvents(row[s], at) \subseteq Event /\ IsFiniteSet(SettleEvents(row[s], at))
    BY <1>2, <1>3, SettleEventsType, SettleEventsFinite
  <2>2. ApplyEvents(settled, at) \subseteq Event /\ IsFiniteSet(ApplyEvents(settled, at))
    <3> HIDE DEF settled, s, at
    <3> QED BY <1>2, <1>4, ApplyEventsType, ApplyEventsFinite
  <2> HIDE DEF settled, s, at, earns
  <2> QED BY <2>1, <2>2, FS_Union, FS_EmptySet
<1>7. Derive(after, at).count \in Nat
  <2> HIDE DEF after
  <2> QED BY <1>2, <1>5, DeriveFields DEF State
<1>8. answer \in Answer /\ answer.streak = s /\ answer.period = at
  <2> HIDE DEF after
  <2> QED BY <1>2, <1>7 DEF Answer
<1>9. Write(p, s, after, evs, answer)
  BY DEF Execute
<1>10. Fresh(p, s, after, evs)
  <2> DEFINE paid   == SettleEvents(row[s], at)
             earned == ApplyEvents(settled, at)
             claimed == claims[s] \cup Claiming(proc[p])
  <2>1. /\ Advances(row[s], settled) /\ settled.lastEarned = row[s].lastEarned
        /\ Distinct(paid)
        /\ \A e \in paid : /\ e.type \in ChargeType
                           /\ \A c : Past(e, settled, c) /\ Due(e, row[s], c)
    BY <1>2, <1>3, SettleFresh
  <2>2. paid \subseteq Event /\ earned \subseteq Event
    <3> HIDE DEF settled, s, at
    <3> QED BY <1>2, <1>3, <1>4, SettleEventsType, ApplyEventsType
  <2>3. /\ Advances(settled, Apply(settled, at))
        /\ Distinct(earned)
        /\ \A e \in earned : /\ e.type \in EarnType
                             /\ \A c : Past(e, Apply(settled, at), c) /\ Due(e, settled, c)
    <3> HIDE DEF settled, s, at
    <3> QED BY <1>2, <1>4, ApplyFresh
  <2> HIDE DEF settled, paid, earned, s, at, earns
  <2>4. CASE ~earns
    <3>1. after = settled /\ evs = paid
      BY <2>4 DEF after, evs, paid
    <3>2. Tells(evs, row[s].currentCount, after.currentCount)
      BY <1>2, <1>3, <3>1, SettleTells DEF paid, settled
    <3> QED BY <2>1, <3>1, <3>2 DEF Fresh
  <2>5. CASE earns
    <3>1. after = Apply(settled, at) /\ evs = paid \cup earned
      BY <2>5 DEF after, evs, paid, earned
    <3>2. Advances(row[s], after)
      <4>1. /\ row[s].lastEarned \in Nat /\ settled.lastEarned \in Nat
            /\ row[s].settledThrough \in Nat /\ settled.settledThrough \in Nat
            /\ after.lastEarned \in Nat /\ after.settledThrough \in Nat
        BY <1>3, <1>4, <1>5, CalendarAssumption DEF State, Date, Period, NoDate
      <4> QED BY <2>1, <2>3, <3>1, <4>1 DEF Advances
    <3>3. ASSUME NEW e \in paid
          PROVE  Past(e, after, claimed) /\ Due(e, row[s], claims[s])
      <4>1. e.period \in Int
        BY <2>2, CalendarAssumption DEF Event, Period
      <4> QED BY <1>4, <1>5, <2>1, <2>3, <3>1, <4>1, PastAdvances
    <3>4. ASSUME NEW e \in earned
          PROVE  Past(e, after, claimed) /\ Due(e, row[s], claims[s])
      BY <2>1, <2>3, <3>1 DEF Due, EarnType, ChargeType
    <3>5. Distinct(evs)
      <4>1. \A e \in paid, f \in earned : e.type # f.type
        BY <2>1, <2>3 DEF EarnType, ChargeType
      <4> QED BY <2>1, <2>3, <3>1, <4>1 DEF Distinct
    <3>6. Tells(evs, row[s].currentCount, after.currentCount)
      BY <1>2, <1>3, <3>1, EarnTells DEF paid, earned, settled
    <3> QED BY <3>1, <3>2, <3>3, <3>4, <3>5, <3>6 DEF Fresh
  <2> QED BY <2>4, <2>5
<1> HIDE DEF after, evs, answer
<1> QED BY <1>1, <1>2, <1>5, <1>6, <1>8, <1>9, <1>10

LEMMA ExecuteKeepsInv ==
  ASSUME ServiceInv, NEW p \in Procs, Execute(p)
  PROVE  ServiceInv'
<1>1. PICK state \in State, evs \in SUBSET Event, answer \in Answer :
        /\ IsFiniteSet(evs)
        /\ answer.streak = proc[p].streak /\ answer.period = proc[p].at
        /\ Write(p, proc[p].streak, state, evs, answer)
  BY ExecuteWrites
<1>2. proc[p].op = "record" /\ proc[p].key \in Keys /\ proc[p].streak \in Streaks
  BY ExecuteWrites
<1> QED BY <1>1, <1>2, WriteStep

\* What a tick writes for one streak, when it does.
LEMMA TickWrites ==
  ASSUME ServiceInv, NEW p \in Procs, NEW s \in Streaks,
         SettleOne(p, s) \/ RemindOne(p, s), ~Skip(p, s)
  PROVE  /\ proc[p].op # "record" /\ RowFree(s)
         /\ \E state \in State, evs \in SUBSET Event :
              /\ IsFiniteSet(evs) /\ Fresh(p, s, state, evs)
              /\ Write(p, s, state, evs, None)
<1> DEFINE at == proc[p].at
<1>1. proc[p] \in Proc /\ at \in Period /\ row[s] \in State
  BY DEF ServiceInv, ServiceTypeOK, Proc
<1>2. CASE SettleOne(p, s)
  <2> DEFINE after == Settle(row[s], at)
             evs   == SettleEvents(row[s], at)
  <2>1. after \in State /\ evs \subseteq Event /\ IsFiniteSet(evs)
    BY <1>1, SettleType, SettleEventsType, SettleEventsFinite
  <2>2. proc[p].op = "settle" /\ RowFree(s) /\ Write(p, s, after, evs, None)
    BY <1>2 DEF SettleOne
  <2>3. Fresh(p, s, after, evs)
    BY <1>1, SettleFresh, SettleTells DEF Fresh
  <2> HIDE DEF after, evs
  <2> QED BY <2>1, <2>2, <2>3
<1>3. CASE RemindOne(p, s)
  <2> DEFINE evs == {Ev("at_risk", at, Derive(row[s], at).count)}
  <2>1. Derive(row[s], at).count \in Nat
    BY <1>1, DeriveFields DEF State
  <2>2. evs \subseteq Event /\ IsFiniteSet(evs)
    <3>1. Ev("at_risk", at, Derive(row[s], at).count) \in Event
      BY <1>1, <2>1 DEF Event, EventType, Ev
    <3> QED BY <3>1, FS_Singleton
  <2>3. proc[p].op = "remind" /\ RowFree(s) /\ Write(p, s, row[s], evs, None)
    BY <1>3 DEF RemindOne
  <2>4. Fresh(p, s, row[s], evs)
    <3>1. at \notin claims[s]
      BY <1>3 DEF RemindOne
    <3>2. \A e \in evs : e.type = "at_risk" /\ e.period = at
      BY DEF Ev
    <3>3. Advances(row[s], row[s])
      BY <1>1, CalendarAssumption DEF Advances, State, Date, Period, NoDate
    <3>4. Distinct(evs)
      BY DEF Distinct
    <3>5. at \in Claiming(proc[p])
      BY <2>3 DEF Claiming
    <3>6. Tells(evs, row[s].currentCount, row[s].currentCount)
      BY <3>2 DEF Tells, CountType
    <3> HIDE DEF evs
    <3> QED BY <3>1, <3>2, <3>3, <3>4, <3>5, <3>6 DEF Fresh, Past, Due, ChargeType, EarnType
  <2> HIDE DEF evs
  <2> QED BY <1>1, <2>2, <2>3, <2>4
<1> QED BY <1>2, <1>3

LEMMA TickKeepsInv ==
  ASSUME ServiceInv, NEW p \in Procs, NEW s \in Streaks,
         SettleOne(p, s) \/ RemindOne(p, s)
  PROVE  ServiceInv'
<1>1. CASE Skip(p, s)
  BY <1>1, CallsKeepInv
<1>2. CASE ~Skip(p, s)
  <2>1. proc[p].op # "record"
    BY <1>2, TickWrites
  <2>2. PICK state \in State, evs \in SUBSET Event :
          IsFiniteSet(evs) /\ Write(p, s, state, evs, None)
    BY <1>2, TickWrites
  <2> QED BY <2>1, <2>2, WriteStep
<1> QED BY <1>1, <1>2

\* A commit of a tick: the answers are not touched.
LEMMA TickCommitKeepsInv ==
  ASSUME ServiceInv, NEW p \in Procs, CommitSettle(p) \/ CommitRemind(p)
  PROVE  ServiceInv'
<1> DEFINE me == Ticking(p, proc[p].streak)
<1>1. proc[p] \in Proc /\ Working(proc[p]) /\ proc[p].stage = "written"
  BY DEF ServiceInv, ServiceTypeOK, CommitSettle, CommitRemind, Commit
<1>2. Resting \in Proc
  BY RestingType
<1>3. me \in Proc /\ Working(me) /\ me.stage = "ticking"
  BY <1>1, <1>2 DEF Proc, Working, Ticking
<1>4. /\ proc' = [proc EXCEPT ![p] = me]
      /\ row' = [row EXCEPT ![proc[p].streak] = proc[p].save]
      /\ outbox' = outbox \cup proc[p].insert
      /\ UNCHANGED <<day, marks, memo, sequence, lock, answers, calls, faults>>
      /\ claims' = claims \/ claims' = [claims EXCEPT ![proc[p].streak] = @ \cup {proc[p].at}]
  BY DEF CommitSettle, CommitRemind, Commit, history
<1> HIDE DEF me
<1>5. proc' \in [Procs -> Proc] /\ \A q \in Procs : Working(proc'[q])
  BY <1>3, <1>4, ProcStep
<1>6. ServiceTypeOK'
  <2>1. proc[p].streak \in Streaks /\ proc[p].save \in State
        /\ proc[p].insert \subseteq Row /\ proc[p].at \in Period
    BY <1>1 DEF Working, Proc
  <2>2. row' \in [Streaks -> State] /\ outbox' \subseteq Row
    BY <1>4, <2>1 DEF ServiceInv, ServiceTypeOK
  <2>3. claims' \in [Streaks -> SUBSET Period]
    BY <1>4, <2>1 DEF ServiceInv, ServiceTypeOK
  <2> QED BY <1>4, <1>5, <2>2, <2>3 DEF ServiceInv, ServiceTypeOK
<1>7. Told'
  <2>1. \A q \in Procs : proc'[q] = IF q = p THEN me ELSE proc[q]
    BY <1>3, <1>4, ProcStep
  <2> QED BY <1>3, <1>4, <2>1 DEF ServiceInv, Told
<1> QED BY <1>5, <1>6, <1>7, Zenon DEF ServiceInv

\* What the commit of a report writes.
LEMMA RecordFields ==
  ASSUME ServiceInv, NEW p \in Procs, CommitRecord(p)
  PROVE  /\ proc[p].streak \in Streaks /\ proc[p].at \in Period /\ proc[p].key \in Keys
         /\ proc[p].save \in State /\ proc[p].insert \subseteq Row
         /\ proc[p].answer \in Answer /\ proc[p].answer.streak = proc[p].streak
         /\ proc[p].answer.period = proc[p].at
         /\ memo[proc[p].key] = None
         /\ memo' = [memo EXCEPT ![proc[p].key] = proc[p].answer]
         /\ marks' = [marks EXCEPT ![proc[p].streak][proc[p].at] = @ + 1]
<1>1. proc[p] \in Proc /\ Working(proc[p]) /\ proc[p].stage = "written"
      /\ proc[p].op = "record"
  BY DEF ServiceInv, ServiceTypeOK, CommitRecord, Commit
<1> QED BY <1>1 DEF Working, Proc, CommitRecord

\* A commit of a report: its answer is saved, and no other is overwritten.
LEMMA RecordCommitKeepsInv ==
  ASSUME ServiceInv, NEW p \in Procs, CommitRecord(p)
  PROVE  ServiceInv'
<1> DEFINE s == proc[p].streak
           k == proc[p].key
           answer == proc[p].answer
           me == Answering(p, answer)
<1>1. Resting \in Proc /\ proc[p].stage = "written"
  BY RestingType DEF CommitRecord, Commit
<1>2. /\ s \in Streaks /\ k \in Keys /\ answer \in Answer /\ memo[k] = None
      /\ memo' = [memo EXCEPT ![k] = answer]
  BY RecordFields
<1>3. me \in Proc /\ Working(me) /\ me.key = k /\ me.answer = answer
  <2> HIDE DEF s, k, answer
  <2> QED BY <1>1, <1>2 DEF Proc, Working, Answering, s, k
<1>4. /\ proc' = [proc EXCEPT ![p] = me]
      /\ row' = [row EXCEPT ![s] = proc[p].save]
      /\ outbox' = outbox \cup proc[p].insert
      /\ marks' = [marks EXCEPT ![s][proc[p].at] = @ + 1]
      /\ UNCHANGED <<day, claims, sequence, lock, answers, calls, faults>>
  BY DEF CommitRecord, Commit, history
<1> HIDE DEF me
<1>5. proc' \in [Procs -> Proc] /\ \A q \in Procs : Working(proc'[q])
  BY <1>3, <1>4, ProcStep
<1>6. memo \in [Keys -> Answer \cup {None}] /\ None \notin Answer
  BY ServiceAssumption DEF ServiceInv, ServiceTypeOK
<1>7. \A j \in Keys : memo'[j] = IF j = k THEN answer ELSE memo[j]
  BY <1>2, <1>6
<1>8. ServiceTypeOK'
  <2>1. row' \in [Streaks -> State] /\ outbox' \subseteq Row
    BY <1>2, <1>4, RecordFields DEF ServiceInv, ServiceTypeOK
  <2>2. marks' \in [Streaks -> [Period -> Nat]]
    <3>1. marks \in [Streaks -> [Period -> Nat]] /\ proc[p].at \in Period
      BY RecordFields DEF ServiceInv, ServiceTypeOK
    <3> HIDE DEF s
    <3> QED BY <1>2, <1>4, <3>1
  <2>3. memo' \in [Keys -> Answer \cup {None}]
    BY <1>2, <1>6
  <2> QED BY <1>4, <1>5, <2>1, <2>2, <2>3 DEF ServiceInv, ServiceTypeOK
<1>9. Told'
  <2>1. ASSUME NEW q \in Procs, proc'[q].stage = "answering"
        PROVE  proc'[q].answer = memo'[proc'[q].key] /\ proc'[q].answer \in Answer
    <3>1. proc'[q] = IF q = p THEN me ELSE proc[q]
      BY <1>3, <1>4, ProcStep
    <3>2. CASE q = p
      BY <1>2, <1>3, <1>7, <3>1, <3>2
    <3>3. CASE q # p
      <4>1. proc[q].stage = "answering" /\ proc[q].key \in Keys
        BY <2>1, <3>1, <3>3, <1>5 DEF Working
      <4>2. proc[q].answer = memo[proc[q].key] /\ proc[q].answer \in Answer
        BY <4>1 DEF ServiceInv, Told
      <4> HIDE DEF k, answer
      <4> QED BY <1>2, <1>6, <1>7, <3>1, <3>3, <4>1, <4>2
    <3> QED BY <3>2, <3>3
  <2>2. ASSUME NEW j \in Keys, NEW a \in answers'[j] PROVE a = memo'[j]
    <3>1. a \in answers[j] /\ a = memo[j] /\ a \in Answer
      BY <1>4, <2>2 DEF ServiceInv, ServiceTypeOK, Told
    <3> HIDE DEF k, answer
    <3> QED BY <1>2, <1>6, <1>7, <3>1
  <2> QED BY <2>1, <2>2 DEF Told
<1> QED BY <1>5, <1>8, <1>9, Zenon DEF ServiceInv

LEMMA InvInit == ServiceInit => ServiceInv
<1> SUFFICES ASSUME ServiceInit PROVE ServiceInv
  OBVIOUS
<1>1. FirstDay \in Days /\ NewState \in State /\ Resting \in Proc /\ Working(Resting)
  BY DaysArePeriods, NewStateType, RestingType
<1>2. ServiceTypeOK
  <2>1. calls \in 0..MaxCalls /\ faults \in 0..MaxFaults
    BY ServiceAssumption DEF ServiceInit
  <2>2. row \in [Streaks -> State] /\ marks \in [Streaks -> [Period -> Nat]]
        /\ proc \in [Procs -> Proc]
    BY <1>1 DEF ServiceInit
  <2> QED BY <1>1, <2>1, <2>2 DEF ServiceInit, ServiceTypeOK
<1>3. \A p \in Procs : proc[p] = Resting /\ proc[p].stage = "idle"
  BY DEF ServiceInit, Resting
<1>4. Told
  BY <1>3 DEF ServiceInit, Told
<1> QED BY <1>1, <1>2, <1>3, <1>4 DEF ServiceInv

LEMMA InvStep == ServiceInv /\ [ServiceNext]_svars => ServiceInv'
<1> SUFFICES ASSUME ServiceInv, [ServiceNext]_svars PROVE ServiceInv'
  OBVIOUS
<1>1. CASE NextDay
  <2>1. day' \in Days /\ UNCHANGED <<tables, sequence, lock, proc, history>>
    BY <1>1 DEF NextDay
  <2> QED BY <2>1 DEF ServiceInv, ServiceTypeOK, Told, tables, history
<1>2. ASSUME NEW p \in Procs, NEW c \in Calls, Call(p, c[1], c[2]) PROVE ServiceInv'
  BY <1>2, CallsKeepInv
<1>3. ASSUME NEW p \in Procs, Answered(p) PROVE ServiceInv'
  <2> DEFINE k == proc[p].key
  <2>1. /\ k \in Keys /\ proc[p].answer \in Answer /\ proc[p].answer = memo[k]
        /\ answers \in [Keys -> SUBSET Answer]
    BY <1>3 DEF Answered, ServiceInv, ServiceTypeOK, Working, Told
  <2>2. /\ answers' = [answers EXCEPT ![k] = @ \cup {proc[p].answer}]
        /\ proc' = [proc EXCEPT ![p] = Resting]
        /\ UNCHANGED <<day, tables, sequence, lock, calls, faults>>
    BY <1>3 DEF Answered
  <2>3. proc' \in [Procs -> Proc] /\ \A q \in Procs : Working(proc'[q])
        /\ proc'[q] = IF q = p THEN Resting ELSE proc[q]
    BY <2>2, ProcStep, RestingType
  <2>4. answers' \in [Keys -> SUBSET Answer]
    BY <2>1, <2>2
  <2>5. ServiceTypeOK'
    BY <2>2, <2>3, <2>4 DEF ServiceInv, ServiceTypeOK, tables
  <2>6. Told'
    <3>1. \A j \in Keys : \A a \in answers'[j] : a = memo'[j]
      BY <2>1, <2>2 DEF ServiceInv, Told, tables
    <3> QED BY <2>2, <2>3, <3>1 DEF ServiceInv, Told, tables, Resting
  <2> QED BY <2>3, <2>5, <2>6, Zenon DEF ServiceInv
<1>4. ASSUME NEW p \in Procs, Progress(p) PROVE ServiceInv'
  BY <1>3, <1>4, CallsKeepInv, ExecuteKeepsInv, TickKeepsInv, TickCommitKeepsInv,
     RecordCommitKeepsInv DEF Progress
<1>5. ASSUME NEW p \in Procs, Fail(p) PROVE ServiceInv'
  BY <1>5, CallsKeepInv
<1>6. ASSUME NEW p \in Procs, LoseLock(p) PROVE ServiceInv'
  <2>1. faults' \in 0..MaxFaults
    BY <1>6, ServiceAssumption DEF LoseLock, Fault, ServiceInv, ServiceTypeOK
  <2> QED BY <1>6, <2>1 DEF LoseLock, ServiceInv, ServiceTypeOK, Told, tables
<1>7. CASE UNCHANGED svars
  BY <1>7 DEF svars, tables, history, ServiceInv, ServiceTypeOK, Told
<1> QED BY <1>1, <1>2, <1>4, <1>5, <1>6, <1>7 DEF ServiceNext

LEMMA InvAlways == ServiceSpec => []ServiceInv
BY InvInit, InvStep, PTL DEF ServiceSpec

\* Whatever fails and whatever is reported, the tables hold what their columns
\* allow: in particular every inventory and every count is a natural number.
THEOREM ServiceTypeCorrect == ServiceSpec => []ServiceTypeOK
<1>1. ServiceInv => ServiceTypeOK
  BY DEF ServiceInv
<1> QED BY <1>1, InvAlways, PTL

\* An answer once given is the saved one for ever: a retry hears it again,
\* however many processes and failures there are.
THEOREM AnswersAgreeCorrect == ServiceSpec => []AnswersAgree
<1>1. ServiceInv => AnswersAgree
  BY DEF ServiceInv, Told, AnswersAgree
<1> QED BY <1>1, InvAlways, PTL

-----------------------------------------------------------------------------
(***************************************************************************)
(* The ledger counts the memos.                                            *)
(***************************************************************************)

\* Only the commit of a report touches the ledger or the memos.
LEMMA LedgerFrame ==
  ASSUME [ServiceNext]_svars, ~\E p \in Procs : CommitRecord(p)
  PROVE  marks' = marks /\ memo' = memo
<1>1. ASSUME UNCHANGED tables PROVE marks' = marks /\ memo' = memo
  BY <1>1 DEF tables
<1>2. CASE NextDay \/ UNCHANGED svars
  BY <1>1, <1>2 DEF NextDay, svars
<1>3. ASSUME NEW p \in Procs,
             (\E c \in Calls : Call(p, c[1], c[2])) \/ Fail(p) \/ LoseLock(p)
      PROVE  UNCHANGED tables
  BY <1>3 DEF Call, Fail, LoseLock
<1>4. ASSUME NEW p \in Procs, Progress(p) PROVE marks' = marks /\ memo' = memo
  <2>1. CASE CommitSettle(p) \/ CommitRemind(p)
    BY <2>1 DEF CommitSettle, CommitRemind
  <2>2. CASE AnswerAgain(p) \/ KeyConflict(p) \/ Answered(p)
             \/ TickStart(p) \/ RemindStart(p) \/ TickEnd(p)
    BY <1>1, <2>2 DEF AnswerAgain, KeyConflict, Answered, TickStart, RemindStart, TickEnd
  <2>3. CASE Execute(p)
    BY <1>1, <2>3 DEF Execute, Write
  <2>4. ASSUME NEW s \in Streaks, SettleOne(p, s) \/ RemindOne(p, s)
        PROVE  marks' = marks /\ memo' = memo
    BY <1>1, <2>4 DEF SettleOne, RemindOne, Write, Skip
  <2> QED BY <1>4, <2>1, <2>2, <2>3, <2>4 DEF Progress
<1> QED BY <1>1, <1>2, <1>3, <1>4 DEF ServiceNext

LEMMA RecordedOnceStep ==
  ASSUME ServiceInv, RecordedOnce, [ServiceNext]_svars
  PROVE  RecordedOnce'
<1> DEFINE Saved(m, s, d) ==
      {k \in Keys : m[k] # None /\ m[k].streak = s /\ m[k].period = d}
<1>1. CASE ~\E p \in Procs : CommitRecord(p)
  BY <1>1, LedgerFrame DEF RecordedOnce
<1>2. ASSUME NEW p \in Procs, CommitRecord(p), NEW s \in Streaks, NEW d \in Period
      PROVE  marks'[s][d] = Cardinality(Saved(memo', s, d))
  <2> DEFINE k == proc[p].key
             answer == proc[p].answer
             old == Saved(memo, s, d)
  <2>1. /\ proc[p].streak \in Streaks /\ proc[p].at \in Period /\ k \in Keys
        /\ answer \in Answer /\ answer.streak = proc[p].streak
        /\ answer.period = proc[p].at /\ memo[k] = None
        /\ memo' = [memo EXCEPT ![k] = answer]
        /\ marks' = [marks EXCEPT ![proc[p].streak][proc[p].at] = @ + 1]
    BY <1>2, RecordFields
  <2>2. /\ memo \in [Keys -> Answer \cup {None}] /\ answer # None
        /\ marks \in [Streaks -> [Period -> Nat]]
    BY <2>1, ServiceAssumption DEF ServiceInv, ServiceTypeOK
  <2> HIDE DEF k, answer
  <2>3. IsFiniteSet(old) /\ k \notin old
    <3>1. old \in SUBSET Keys /\ k \notin old
      BY <2>1
    <3> HIDE DEF old
    <3> QED BY <3>1, ServiceAssumption, FS_Subset
  <2>4. marks[s][d] = Cardinality(old)
    BY DEF RecordedOnce
  <2>5. \A j \in Keys : memo'[j] = IF j = k THEN answer ELSE memo[j]
    BY <2>1, <2>2
  <2>6. CASE s = proc[p].streak /\ d = proc[p].at
    <3>1. Saved(memo', s, d) = old \cup {k}
      BY <2>1, <2>2, <2>5, <2>6
    <3>2. marks'[s][d] = marks[s][d] + 1
      BY <2>1, <2>2, <2>6
    <3> HIDE DEF Saved, old
    <3> QED BY <2>3, <2>4, <3>1, <3>2, FS_AddElement
  <2>7. CASE ~(s = proc[p].streak /\ d = proc[p].at)
    <3>1. Saved(memo', s, d) = old
      BY <2>1, <2>2, <2>5, <2>7
    <3>2. marks'[s][d] = marks[s][d]
      BY <2>1, <2>2, <2>7
    <3> HIDE DEF Saved, old
    <3> QED BY <2>4, <3>1, <3>2
  <2> QED BY <2>6, <2>7
<1> QED BY <1>1, <1>2 DEF RecordedOnce

\* A key records once, for every number of processes, reports, retries and
\* failures: the ledger counts exactly the memoized reports.
THEOREM RecordedOnceCorrect == ServiceSpec => []RecordedOnce
<1>1. ServiceInit => RecordedOnce
  <2> SUFFICES ASSUME ServiceInit, NEW s \in Streaks, NEW d \in Period
               PROVE  marks[s][d] = Cardinality({k \in Keys :
                        memo[k] # None /\ memo[k].streak = s /\ memo[k].period = d})
    BY DEF RecordedOnce
  <2>1. {k \in Keys : memo[k] # None /\ memo[k].streak = s /\ memo[k].period = d} = {}
    BY DEF ServiceInit
  <2> QED BY <2>1, FS_EmptySet DEF ServiceInit
<1>2. ServiceInv /\ RecordedOnce /\ [ServiceNext]_svars => RecordedOnce'
  BY RecordedOnceStep
<1> QED BY <1>1, <1>2, InvAlways, PTL DEF ServiceSpec

-----------------------------------------------------------------------------
(***************************************************************************)
(* The ids of a streak's events follow its commits.                        *)
(***************************************************************************)

Writing(p) == proc[p].stage = "written"

\* Two transactions never have the same row; no id is beyond the sequence; and
\* the ids of a transaction under way are above those committed for its streak.
Ordered ==
  /\ \A p, q \in Procs :
       Writing(p) /\ Writing(q) /\ proc[p].streak = proc[q].streak => p = q
  /\ \A r \in outbox : r.id <= sequence
  /\ \A p \in Procs : Writing(p) =>
       \A e \in proc[p].insert :
         /\ e.streak = proc[p].streak /\ e.id <= sequence
         /\ \A r \in outbox : r.streak = e.streak => r.id < e.id

\* A process that is not in a transaction, before or after, disturbs nothing.
LEMMA OrderedFrame ==
  ASSUME ServiceInv, Ordered, NEW p \in Procs, NEW me,
         me.stage # "written", proc' = [proc EXCEPT ![p] = me],
         outbox' = outbox, sequence' = sequence
  PROVE  Ordered'
<1>1. \A q \in Procs : proc'[q] = IF q = p THEN me ELSE proc[q]
  BY DEF ServiceInv, ServiceTypeOK
<1>2. \A q \in Procs : Writing(q)' => Writing(q) /\ proc'[q] = proc[q]
  BY <1>1 DEF Writing
<1> QED BY <1>2 DEF Ordered

LEMMA OrderedWrite ==
  ASSUME ServiceInv, ServiceInv', Ordered, NEW p \in Procs, NEW s \in Streaks,
         NEW state, NEW evs, evs \subseteq Event, IsFiniteSet(evs), NEW answer,
         RowFree(s), Write(p, s, state, evs, answer)
  PROVE  Ordered'
<1>1. proc \in [Procs -> Proc] /\ sequence \in Nat /\ outbox \subseteq Row
      /\ Cardinality(evs) \in Nat
  BY FS_CardinalityType DEF ServiceInv, ServiceTypeOK
<1>2. /\ sequence' = sequence + Cardinality(evs) /\ outbox' = outbox
      /\ \A q \in Procs \ {p} : proc'[q] = proc[q]
      /\ proc'[p].streak = s /\ proc'[p].insert = Inserted(s, evs)
  BY <1>1 DEF Write, tables, Proc
<1>3. \A e \in Inserted(s, evs) :
        e.streak = s /\ sequence < e.id /\ e.id <= sequence' /\ e \in Row
  BY <1>1, <1>2, InsertedType
<1>4. \A r \in outbox : r.id \in Nat /\ r.id <= sequence
  BY <1>1 DEF Ordered, Row
<1>5. \A q \in Procs : Writing(q) => proc[q].streak # s
  BY DEF RowFree, Writing
<1>6. \A q \in Procs \ {p} : Writing(q)' => Writing(q)
  BY <1>2 DEF Writing
<1>7. \A q1, q2 \in Procs :
        Writing(q1)' /\ Writing(q2)' /\ proc'[q1].streak = proc'[q2].streak => q1 = q2
  BY <1>2, <1>5, <1>6 DEF Ordered
<1>8. \A r \in outbox' : r.id <= sequence'
  BY <1>1, <1>2, <1>4
<1>9. ASSUME NEW q \in Procs, Writing(q)', NEW e \in proc'[q].insert
      PROVE  /\ e.streak = proc'[q].streak /\ e.id <= sequence'
             /\ \A r \in outbox' : r.streak = e.streak => r.id < e.id
  <2>1. CASE q = p
    <3>1. e \in Inserted(s, evs) /\ e.id \in Nat
      BY <1>2, <1>3, <1>9, <2>1 DEF Row
    <3> QED BY <1>1, <1>2, <1>3, <1>4, <2>1, <3>1
  <2>2. CASE q # p
    <3>1. Writing(q) /\ e \in proc[q].insert /\ e \in Row
      BY <1>1, <1>2, <1>6, <1>9, <2>2 DEF Proc
    <3>2. e.id \in Nat /\ e.id <= sequence
      BY <3>1 DEF Ordered, Row
    <3> QED BY <1>1, <1>2, <2>2, <3>1, <3>2 DEF Ordered
  <2> QED BY <2>1, <2>2
<1> QED BY <1>7, <1>8, <1>9 DEF Ordered

LEMMA OrderedCommit ==
  ASSUME ServiceInv, Ordered, NEW p \in Procs, NEW next, next.stage # "written",
         Commit(p, next)
  PROVE  /\ Ordered'
         /\ \A r \in outbox' \ outbox, q \in outbox :
              q.streak = r.streak => q.id < r.id
<1> DEFINE new == proc[p].insert
<1>1. /\ Writing(p) /\ outbox' = outbox \cup new /\ sequence' = sequence
      /\ \A q \in Procs : proc'[q] = IF q = p THEN next ELSE proc[q]
  BY DEF Commit, Writing, ServiceInv, ServiceTypeOK
<1>2. \A q \in Procs : Writing(q)' => q # p /\ Writing(q) /\ proc'[q] = proc[q]
  BY <1>1 DEF Writing
<1>3. \A e \in new : /\ e.streak = proc[p].streak /\ e.id <= sequence
                     /\ \A r \in outbox : r.streak = e.streak => r.id < e.id
  BY <1>1 DEF Ordered
<1>4. ASSUME NEW q \in Procs, Writing(q)', NEW e \in proc'[q].insert,
             NEW r \in outbox', r.streak = e.streak
      PROVE  r.id < e.id
  <2>1. e.streak = proc[q].streak /\ e \in proc[q].insert /\ Writing(q) /\ q # p
    BY <1>2, <1>4 DEF Ordered
  <2>2. proc[q].streak # proc[p].streak
    BY <1>1, <2>1 DEF Ordered
  <2>3. r \in outbox
    BY <1>1, <1>3, <1>4, <2>1, <2>2
  <2> QED BY <1>4, <2>1, <2>3 DEF Ordered
<1> HIDE DEF new
<1>5. \A q1, q2 \in Procs :
        Writing(q1)' /\ Writing(q2)' /\ proc'[q1].streak = proc'[q2].streak => q1 = q2
  BY <1>2 DEF Ordered
<1>6. \A r \in outbox' : r.id <= sequence'
  BY <1>1, <1>3 DEF Ordered
<1>7. ASSUME NEW q \in Procs, Writing(q)', NEW e \in proc'[q].insert
      PROVE  e.streak = proc'[q].streak /\ e.id <= sequence'
  BY <1>1, <1>2, <1>7 DEF Ordered
<1> QED BY <1>1, <1>3, <1>4, <1>5, <1>6, <1>7 DEF Ordered

-----------------------------------------------------------------------------
(***************************************************************************)
(* No event is told twice.                                                 *)
(***************************************************************************)

\* What is committed is past, and will be past when a transaction under way
\* commits, whose own events are new.
Once ==
  /\ EventsOnce
  /\ \A r \in outbox : Past(r, row[r.streak], claims[r.streak])
  /\ \A p \in Procs : Writing(p) =>
       LET s == proc[p].streak
       IN  /\ Advances(row[s], proc[p].save)
           /\ Distinct(proc[p].insert)
           /\ \A e \in proc[p].insert :
                /\ Past(e, proc[p].save, claims[s] \cup Claiming(proc[p]))
                /\ Due(e, row[s], claims[s])

\* A process that is not in a transaction, before or after, disturbs nothing.
LEMMA OnceFrame ==
  ASSUME ServiceInv, Once, NEW p \in Procs, NEW me,
         me.stage # "written", proc' = [proc EXCEPT ![p] = me],
         outbox' = outbox, row' = row, claims' = claims
  PROVE  Once'
<1>1. \A q \in Procs : proc'[q] = IF q = p THEN me ELSE proc[q]
  BY DEF ServiceInv, ServiceTypeOK
<1>2. \A q \in Procs : Writing(q)' => Writing(q) /\ proc'[q] = proc[q]
  BY <1>1 DEF Writing
<1>3. EventsOnce'
  BY DEF Once, EventsOnce
<1>4. \A r \in outbox' : Past(r, row'[r.streak], claims'[r.streak])
  BY DEF Once
<1> QED BY <1>2, <1>3, <1>4 DEF Once

\* Rows inserted from distinct events are distinct, and as past and as due.
LEMMA InsertedFresh ==
  ASSUME NEW s \in Streaks, NEW evs, Distinct(evs)
  PROVE  /\ Distinct(Inserted(s, evs))
         /\ \A e \in Inserted(s, evs) : \E v \in evs :
              e.type = v.type /\ e.period = v.period
<1> DEFINE Made(v) == [id |-> sequence + 1 + Cardinality({f \in evs : Before(f, v)}),
                       streak |-> s, type |-> v.type, period |-> v.period, count |-> v.count]
<1>1. \A e \in Inserted(s, evs) : \E v \in evs : e = Made(v)
  BY DEF Inserted
<1>2. \A v : Made(v).type = v.type /\ Made(v).period = v.period
  OBVIOUS
<1> HIDE DEF Made
<1>3. Distinct(Inserted(s, evs))
  <2> SUFFICES ASSUME NEW e \in Inserted(s, evs), NEW f \in Inserted(s, evs),
                      e.type = f.type, e.period = f.period
               PROVE  e = f
    BY DEF Distinct
  <2>1. PICK v \in evs, w \in evs : e = Made(v) /\ f = Made(w)
    BY <1>1
  <2>2. v = w
    BY <1>2, <2>1 DEF Distinct
  <2> QED BY <2>1, <2>2
<1> QED BY <1>1, <1>2, <1>3

LEMMA OnceWrite ==
  ASSUME ServiceInv, Once, NEW p \in Procs, NEW s \in Streaks,
         NEW state, NEW evs, NEW answer, Fresh(p, s, state, evs),
         Write(p, s, state, evs, answer)
  PROVE  Once'
<1>1. /\ outbox' = outbox /\ row' = row /\ claims' = claims
      /\ \A q \in Procs \ {p} : proc'[q] = proc[q]
      /\ proc'[p].streak = s /\ proc'[p].insert = Inserted(s, evs)
      /\ proc'[p].save = state /\ Claiming(proc'[p]) = Claiming(proc[p])
  BY DEF Write, tables, Claiming, ServiceInv, ServiceTypeOK, Proc
<1>2. ASSUME NEW e \in Inserted(s, evs)
      PROVE  /\ Past(e, state, claims[s] \cup Claiming(proc[p]))
             /\ Due(e, row[s], claims[s])
  <2>1. PICK v \in evs : e.type = v.type /\ e.period = v.period
    BY <1>2, InsertedFresh DEF Fresh
  <2>2. /\ Past(v, state, claims[s] \cup Claiming(proc[p]))
        /\ Due(v, row[s], claims[s])
    BY DEF Fresh
  <2> QED BY <2>1, <2>2 DEF Past, Due
<1>3. Advances(row[s], state) /\ Distinct(Inserted(s, evs))
  BY InsertedFresh DEF Fresh
<1>4. ASSUME NEW q \in Procs, Writing(q)'
      PROVE  LET z == proc'[q].streak
             IN  /\ Advances(row'[z], proc'[q].save)
                 /\ Distinct(proc'[q].insert)
                 /\ \A e \in proc'[q].insert :
                      /\ Past(e, proc'[q].save, claims'[z] \cup Claiming(proc'[q]))
                      /\ Due(e, row'[z], claims'[z])
  <2>1. CASE q = p
    BY <1>1, <1>2, <1>3, <2>1
  <2>2. CASE q # p
    BY <1>1, <1>4, <2>2 DEF Once, Writing
  <2> QED BY <2>1, <2>2
<1>5. EventsOnce'
  BY <1>1 DEF Once, EventsOnce
<1>6. \A r \in outbox' : Past(r, row'[r.streak], claims'[r.streak])
  BY <1>1 DEF Once
<1> QED BY <1>4, <1>5, <1>6 DEF Once

LEMMA OnceCommit ==
  ASSUME ServiceInv, Ordered, Once, NEW p \in Procs, NEW next,
         next.stage # "written", Commit(p, next),
         claims' = [claims EXCEPT ![proc[p].streak] = @ \cup Claiming(proc[p])]
  PROVE  Once'
<1> DEFINE s   == proc[p].streak
           new == proc[p].insert
<1>1. proc[p] \in Proc /\ Working(proc[p]) /\ Writing(p)
  BY DEF ServiceInv, ServiceTypeOK, Commit, Writing
<1>2. s \in Streaks /\ proc[p].save \in State /\ new \subseteq Row
  BY <1>1 DEF Working, Writing, Proc
<1>3. /\ outbox' = outbox \cup new
      /\ \A z \in Streaks : row'[z] = IF z = s THEN proc[p].save ELSE row[z]
      /\ \A z \in Streaks : claims'[z] = IF z = s THEN claims[z] \cup Claiming(proc[p])
                                         ELSE claims[z]
      /\ \A q \in Procs : proc'[q] = IF q = p THEN next ELSE proc[q]
  BY DEF Commit, ServiceInv, ServiceTypeOK
<1>4. /\ Advances(row[s], proc[p].save) /\ Distinct(new)
      /\ \A e \in new : /\ Past(e, proc[p].save, claims[s] \cup Claiming(proc[p]))
                        /\ Due(e, row[s], claims[s])
      /\ \A e \in new : e.streak = s
  BY <1>1 DEF Once, Ordered
<1>5. \A r \in outbox : r \in Row /\ r.streak \in Streaks /\ r.type \in EventType
                        /\ r.period \in Int
  BY CalendarAssumption DEF ServiceInv, ServiceTypeOK, Row, Period
<1>6. row[s] \in State
  BY <1>2 DEF ServiceInv, ServiceTypeOK
<1> HIDE DEF s, new
<1>7. ASSUME NEW r \in outbox' PROVE Past(r, row'[r.streak], claims'[r.streak])
  <2>1. CASE r \in new
    BY <1>2, <1>3, <1>4, <2>1
  <2>2. CASE r \in outbox /\ r.streak = s
    <3>1. Past(r, row[s], claims[s])
      BY <2>2 DEF Once
    <3> QED BY <1>2, <1>3, <1>4, <1>5, <1>6, <2>2, <3>1, PastAdvances
  <2>3. CASE r \in outbox /\ r.streak # s
    BY <1>3, <1>5, <2>3 DEF Once
  <2> QED BY <1>3, <1>7, <2>1, <2>2, <2>3
<1>8. ASSUME NEW r \in outbox', NEW q \in outbox',
             r.streak = q.streak, r.type = q.type, r.period = q.period
      PROVE  r = q
  <2>1. ASSUME NEW a \in outbox, NEW b \in new, a.streak = b.streak,
               a.type = b.type, a.period = b.period
        PROVE  FALSE
    <3>1. Past(a, row[s], claims[s])
      BY <1>4, <2>1 DEF Once
    <3> QED BY <1>4, <1>5, <1>6, <2>1, <3>1, PastNotDue
  <2>2. CASE r \in outbox /\ q \in outbox
    BY <1>8, <2>2 DEF Once, EventsOnce
  <2>3. CASE r \in new /\ q \in new
    BY <1>4, <1>8, <2>3 DEF Distinct
  <2> QED BY <1>3, <1>8, <2>1, <2>2, <2>3
<1>9. ASSUME NEW q \in Procs, Writing(q)'
      PROVE  LET z == proc'[q].streak
             IN  /\ Advances(row'[z], proc'[q].save)
                 /\ Distinct(proc'[q].insert)
                 /\ \A e \in proc'[q].insert :
                      /\ Past(e, proc'[q].save, claims'[z] \cup Claiming(proc'[q]))
                      /\ Due(e, row'[z], claims'[z])
  <2>1. q # p /\ Writing(q) /\ proc'[q] = proc[q]
    BY <1>3, <1>9 DEF Writing
  <2>2. proc[q].streak # s
    BY <1>1, <2>1 DEF Ordered, s
  <2>3. proc[q].streak \in Streaks
    BY <2>1 DEF ServiceInv, Working, Writing
  <2> QED BY <1>3, <2>1, <2>2, <2>3 DEF Once
<1> QED BY <1>7, <1>8, <1>9 DEF Once, EventsOnce

-----------------------------------------------------------------------------
(***************************************************************************)
(* The log tells the counts.                                               *)
(***************************************************************************)

\* The outbox rows `rows', read by id, take a count from m to n.
RowsTell(rows, m, n) ==
  LET told == {r \in rows : r.type \in CountType}
  IN  \/ told = {} /\ n = m
      \/ \E r \in told : n = CountOf(r) /\ \A q \in told : q # r => q.id < r.id

\* What is committed tells the count of each row, and what a transaction under
\* way has inserted tells what it will have become.
Logged ==
  /\ \A s \in Streaks :
       RowsTell({r \in outbox : r.streak = s}, 0, row[s].currentCount)
  /\ \A p \in Procs : Writing(p) =>
       RowsTell(proc[p].insert, row[proc[p].streak].currentCount, proc[p].save.currentCount)

\* A process that is not in a transaction, before or after, disturbs nothing.
LEMMA LoggedFrame ==
  ASSUME ServiceInv, Logged, NEW p \in Procs, NEW me,
         me.stage # "written", proc' = [proc EXCEPT ![p] = me],
         outbox' = outbox, row' = row
  PROVE  Logged'
<1>1. \A q \in Procs : proc'[q] = IF q = p THEN me ELSE proc[q]
  BY DEF ServiceInv, ServiceTypeOK
<1>2. \A q \in Procs : Writing(q)' => Writing(q) /\ proc'[q] = proc[q]
  BY <1>1 DEF Writing
<1> QED BY <1>2 DEF Logged

\* Ids are drawn in the order in which events are inserted.
LEMMA InsertedInOrder ==
  ASSUME NEW s \in Streaks, NEW evs, evs \subseteq Event, IsFiniteSet(evs),
         sequence \in Nat, NEW e \in evs, NEW f \in evs, Before(f, e)
  PROVE  LET rank(v) == Cardinality({g \in evs : Before(g, v)})
         IN  sequence + 1 + rank(f) < sequence + 1 + rank(e)
<1> DEFINE earlier(v) == {g \in evs : Before(g, v)}
<1>1. \A a, b, c \in evs : Before(a, b) /\ Before(b, c) => Before(a, c)
  <2>1. \A a, b, c \in Event : Before(a, b) /\ Before(b, c) => Before(a, c)
    BY CalendarAssumption DEF Before, Event, EventType, Period
  <2> QED BY <2>1
<1>2. \A a \in evs : ~Before(a, a)
  <2>1. \A a \in Event : ~Before(a, a)
    BY CalendarAssumption DEF Before, Event, EventType, Period
  <2> QED BY <2>1
<1>3. earlier(f) \subseteq earlier(e) /\ f \in earlier(e) /\ f \notin earlier(f)
  BY <1>1, <1>2
<1>4. earlier(e) \in SUBSET evs /\ earlier(f) # earlier(e)
  BY <1>3
<1> HIDE DEF earlier
<1>5. IsFiniteSet(earlier(e)) /\ Cardinality(earlier(e)) \in Nat
  BY <1>4, FS_Subset, FS_CardinalityType
<1>6. /\ Cardinality(earlier(f)) <= Cardinality(earlier(e))
      /\ Cardinality(earlier(f)) # Cardinality(earlier(e))
      /\ Cardinality(earlier(f)) \in Nat
  BY <1>3, <1>4, <1>5, FS_Subset, FS_CardinalityType
<1> QED BY <1>5, <1>6 DEF earlier

\* The rows inserted from events tell what the events tell.
LEMMA InsertedTell ==
  ASSUME NEW s \in Streaks, NEW evs, evs \subseteq Event, IsFiniteSet(evs),
         sequence \in Nat, NEW m, NEW n, Tells(evs, m, n)
  PROVE  RowsTell(Inserted(s, evs), m, n)
<1> DEFINE Made(v) == [id |-> sequence + 1 + Cardinality({f \in evs : Before(f, v)}),
                       streak |-> s, type |-> v.type, period |-> v.period, count |-> v.count]
           told == {e \in evs : e.type \in CountType}
           rows == {r \in Inserted(s, evs) : r.type \in CountType}
<1>1. Inserted(s, evs) = {Made(v) : v \in evs}
  BY DEF Inserted
<1>2. \A v : Made(v).type = v.type /\ CountOf(Made(v)) = CountOf(v)
  BY DEF CountOf
<1>3. \A v, w \in evs : Before(w, v) => Made(w).id < Made(v).id
  BY InsertedInOrder
<1> HIDE DEF Made
<1>4. rows = {Made(v) : v \in told}
  BY <1>1, <1>2
<1>5. CASE told = {} /\ n = m
  BY <1>4, <1>5 DEF RowsTell
<1>6. ASSUME NEW e \in told, n = CountOf(e), \A f \in told : f # e => Before(f, e)
      PROVE  RowsTell(Inserted(s, evs), m, n)
  <2>1. Made(e) \in rows /\ n = CountOf(Made(e))
    BY <1>2, <1>4, <1>6
  <2>2. \A q \in rows : q # Made(e) => q.id < Made(e).id
    BY <1>3, <1>4, <1>6
  <2> HIDE DEF told
  <2> QED BY <2>1, <2>2 DEF RowsTell
<1> QED BY <1>5, <1>6 DEF Tells

LEMMA LoggedWrite ==
  ASSUME ServiceInv, Logged, NEW p \in Procs, NEW s \in Streaks,
         NEW state, NEW evs, evs \subseteq Event, IsFiniteSet(evs), NEW answer,
         Fresh(p, s, state, evs), Write(p, s, state, evs, answer)
  PROVE  Logged'
<1>1. /\ outbox' = outbox /\ row' = row
      /\ \A q \in Procs \ {p} : proc'[q] = proc[q]
      /\ proc'[p].streak = s /\ proc'[p].insert = Inserted(s, evs)
      /\ proc'[p].save = state
  BY DEF Write, tables, ServiceInv, ServiceTypeOK, Proc
<1>2. RowsTell(Inserted(s, evs), row[s].currentCount, state.currentCount)
  BY InsertedTell DEF Fresh, ServiceInv, ServiceTypeOK
<1>3. ASSUME NEW q \in Procs, Writing(q)'
      PROVE  RowsTell(proc'[q].insert, row'[proc'[q].streak].currentCount,
                      proc'[q].save.currentCount)
  <2>1. CASE q = p
    BY <1>1, <1>2, <2>1
  <2>2. CASE q # p
    BY <1>1, <1>3, <2>2 DEF Logged, Writing
  <2> QED BY <2>1, <2>2
<1> QED BY <1>1, <1>3 DEF Logged

\* Rows with ids above all others go on telling the count.
LEMMA RowsContinue ==
  ASSUME NEW old, NEW new, \A q \in old, r \in new : q.id < r.id,
         NEW k, NEW m, NEW n, RowsTell(old, k, m), RowsTell(new, m, n)
  PROVE  RowsTell(old \cup new, k, n)
<1> DEFINE Speak(rows) == {r \in rows : r.type \in CountType}
<1>1. Speak(old \cup new) = Speak(old) \cup Speak(new)
  OBVIOUS
<1>2. \A q \in Speak(old), r \in Speak(new) : q.id < r.id
  OBVIOUS
<1>3. /\ RowsTell(old \cup new, k, n) <=>
           \/ Speak(old \cup new) = {} /\ n = k
           \/ \E r \in Speak(old \cup new) :
                n = CountOf(r) /\ \A q \in Speak(old \cup new) : q # r => q.id < r.id
      /\ \/ Speak(old) = {} /\ m = k
         \/ \E r \in Speak(old) : m = CountOf(r) /\ \A q \in Speak(old) : q # r => q.id < r.id
      /\ \/ Speak(new) = {} /\ n = m
         \/ \E r \in Speak(new) : n = CountOf(r) /\ \A q \in Speak(new) : q # r => q.id < r.id
  BY DEF RowsTell
<1> HIDE DEF Speak
<1>4. CASE Speak(new) = {} /\ n = m
  <2>1. Speak(old \cup new) = Speak(old)
    BY <1>1, <1>4
  <2> QED BY <1>3, <1>4, <2>1
<1>5. ASSUME NEW r \in Speak(new), n = CountOf(r),
             \A q \in Speak(new) : q # r => q.id < r.id
      PROVE  RowsTell(old \cup new, k, n)
  <2>1. r \in Speak(old \cup new) /\ \A q \in Speak(old \cup new) : q # r => q.id < r.id
    BY <1>1, <1>2, <1>5
  <2> QED BY <1>3, <1>5, <2>1
<1> QED BY <1>3, <1>4, <1>5

LEMMA LoggedCommit ==
  ASSUME ServiceInv, Ordered, Logged, NEW p \in Procs, NEW next,
         next.stage # "written", Commit(p, next)
  PROVE  Logged'
<1> DEFINE s   == proc[p].streak
           new == proc[p].insert
           Of(rows, z) == {r \in rows : r.streak = z}
<1>1. proc[p] \in Proc /\ Working(proc[p]) /\ Writing(p)
  BY DEF ServiceInv, ServiceTypeOK, Commit, Writing
<1>2. s \in Streaks
  BY <1>1 DEF Working, Writing
<1>3. /\ outbox' = outbox \cup new
      /\ \A z \in Streaks : row'[z] = IF z = s THEN proc[p].save ELSE row[z]
      /\ \A q \in Procs : proc'[q] = IF q = p THEN next ELSE proc[q]
  BY DEF Commit, ServiceInv, ServiceTypeOK
<1>4. /\ \A e \in new : e.streak = s
      /\ \A r \in Of(outbox, s), e \in new : r.id < e.id
  BY <1>1 DEF Ordered
<1>5. RowsTell(new, row[s].currentCount, proc[p].save.currentCount)
  BY <1>1 DEF Logged
<1> HIDE DEF s, new
<1>6. ASSUME NEW z \in Streaks
      PROVE  RowsTell(Of(outbox', z), 0, row'[z].currentCount)
  <2>1. RowsTell(Of(outbox, z), 0, row[z].currentCount)
    BY DEF Logged
  <2>2. CASE z = s
    <3>1. Of(outbox', z) = Of(outbox, s) \cup new
      BY <1>3, <1>4, <2>2
    <3> HIDE DEF Of
    <3>2. RowsTell(Of(outbox, s) \cup new, 0, proc[p].save.currentCount)
      BY <1>4, <1>5, <2>1, <2>2, RowsContinue
    <3> QED BY <1>3, <2>2, <3>1, <3>2
  <2>3. CASE z # s
    <3>1. Of(outbox', z) = Of(outbox, z)
      BY <1>3, <1>4, <2>3
    <3> QED BY <1>3, <2>1, <2>3, <3>1
  <2> QED BY <2>2, <2>3
<1>7. ASSUME NEW q \in Procs, Writing(q)'
      PROVE  RowsTell(proc'[q].insert, row'[proc'[q].streak].currentCount,
                      proc'[q].save.currentCount)
  <2>1. q # p /\ Writing(q) /\ proc'[q] = proc[q]
    BY <1>3, <1>7 DEF Writing
  <2>2. proc[q].streak # s
    BY <1>1, <2>1 DEF Ordered, s
  <2>3. proc[q].streak \in Streaks
    BY <2>1 DEF ServiceInv, Working, Writing
  <2> QED BY <1>3, <2>1, <2>2, <2>3 DEF Logged
<1> QED BY <1>6, <1>7 DEF Logged

-----------------------------------------------------------------------------
\* Every step keeps all three, and commits only ids above the committed ones.
LEMMA OutboxStep ==
  ASSUME ServiceInv, ServiceInv', Ordered, Once, Logged, [ServiceNext]_svars
  PROVE  /\ Ordered' /\ Once' /\ Logged'
         /\ \A r \in outbox' \ outbox, q \in outbox :
              q.streak = r.streak => q.id < r.id
<1> DEFINE Goal == /\ Ordered' /\ Once' /\ Logged'
                   /\ \A r \in outbox' \ outbox, q \in outbox :
                        q.streak = r.streak => q.id < r.id
<1> SUFFICES Goal
  OBVIOUS
<1>1. ASSUME UNCHANGED <<proc, outbox, sequence, row, claims>> PROVE Goal
  BY <1>1 DEF Ordered, Once, EventsOnce, Logged, Writing
<1>2. ASSUME NEW p \in Procs, NEW me, me.stage # "written",
             proc' = [proc EXCEPT ![p] = me], outbox' = outbox, sequence' = sequence,
             row' = row, claims' = claims
      PROVE  Goal
  BY <1>2, OrderedFrame, OnceFrame, LoggedFrame
<1>3. ASSUME NEW p \in Procs, NEW s \in Streaks, NEW state, NEW evs, NEW answer,
             evs \subseteq Event, IsFiniteSet(evs), RowFree(s),
             Fresh(p, s, state, evs), Write(p, s, state, evs, answer)
      PROVE  Goal
  <2>1. outbox' = outbox
    BY <1>3 DEF Write, tables
  <2> QED BY <1>3, <2>1, OrderedWrite, OnceWrite, LoggedWrite
<1>4. ASSUME NEW p \in Procs, NEW next, next.stage # "written", Commit(p, next),
             claims' = [claims EXCEPT ![proc[p].streak] = @ \cup Claiming(proc[p])]
      PROVE  Goal
  BY <1>4, OrderedCommit, OnceCommit, LoggedCommit
<1>5. CASE NextDay \/ UNCHANGED svars
  BY <1>1, <1>5 DEF NextDay, svars, tables
<1>6. ASSUME NEW p \in Procs, LoseLock(p) PROVE Goal
  BY <1>1, <1>6 DEF LoseLock, tables
<1>7. ASSUME NEW p \in Procs,
             \/ \E c \in Calls : Call(p, c[1], c[2])
             \/ Fail(p) \/ AnswerAgain(p) \/ KeyConflict(p) \/ Answered(p)
             \/ TickStart(p) \/ TickEnd(p) \/ RemindStart(p)
             \/ \E s \in Streaks : Skip(p, s)
      PROVE  Goal
  <2>1. UNCHANGED <<outbox, sequence, row, claims>>
    BY <1>7 DEF Call, Fail, AnswerAgain, KeyConflict, Answered, TickStart, TickEnd,
       RemindStart, Skip, tables
  <2>2. \E me : me.stage # "written" /\ proc' = [proc EXCEPT ![p] = me]
    <3>1. CASE Fail(p) \/ KeyConflict(p) \/ Answered(p) \/ TickEnd(p)
      BY <3>1 DEF Fail, KeyConflict, Answered, TickEnd, Resting
    <3>2. CASE AnswerAgain(p)
      BY <3>2 DEF AnswerAgain, Answering, Resting
    <3>3. CASE \E s \in Streaks : Skip(p, s)
      BY <3>3 DEF Skip, Ticking, Resting
    <3>4. CASE TickStart(p)
      BY <3>4 DEF TickStart, Resting
    <3>5. CASE RemindStart(p)
      <4>1. proc[p] \in Proc /\ proc[p].stage = "ticking"
        BY <3>5 DEF RemindStart, ServiceInv, ServiceTypeOK
      <4> QED BY <3>5, <4>1 DEF RemindStart, Proc
    <3>6. CASE \E c \in Calls : Call(p, c[1], c[2])
      BY <3>6 DEF Call, Resting
    <3> QED BY <1>7, <3>1, <3>2, <3>3, <3>4, <3>5, <3>6
  <2> HIDE DEF Goal
  <2> QED BY <1>2, <2>1, <2>2
<1>8. ASSUME NEW p \in Procs, Execute(p) PROVE Goal
  <2>1. PICK state, evs, answer : evs \subseteq Event /\ IsFiniteSet(evs)
          /\ RowFree(proc[p].streak) /\ Fresh(p, proc[p].streak, state, evs)
          /\ Write(p, proc[p].streak, state, evs, answer)
    BY <1>8, ExecuteWrites
  <2>2. proc[p].streak \in Streaks
    BY <1>8 DEF Execute, ServiceInv, Working
  <2> HIDE DEF Goal
  <2> QED BY <1>3, <2>1, <2>2
<1>9. ASSUME NEW p \in Procs, NEW s \in Streaks, SettleOne(p, s) \/ RemindOne(p, s)
      PROVE  Goal
  <2>1. CASE Skip(p, s)
    BY <1>7, <2>1
  <2>2. CASE ~Skip(p, s)
    <3>1. PICK state, evs : evs \subseteq Event /\ IsFiniteSet(evs)
            /\ RowFree(s) /\ Fresh(p, s, state, evs) /\ Write(p, s, state, evs, None)
      BY <1>9, <2>2, TickWrites
    <3> HIDE DEF Goal
    <3> QED BY <1>3, <3>1
  <2> QED BY <2>1, <2>2
<1>10. ASSUME NEW p \in Procs, CommitRecord(p) \/ CommitSettle(p) \/ CommitRemind(p)
       PROVE  Goal
  <2>1. \E next : next.stage # "written" /\ Commit(p, next)
    BY <1>10 DEF CommitRecord, CommitSettle, CommitRemind, Answering, Ticking, Resting
  <2>2. claims' = [claims EXCEPT ![proc[p].streak] = @ \cup Claiming(proc[p])]
    <3>1. CASE CommitRemind(p)
      BY <3>1 DEF CommitRemind, Claiming
    <3>2. CASE CommitRecord(p) \/ CommitSettle(p)
      <4>1. claims' = claims /\ Claiming(proc[p]) = {}
        BY <3>2 DEF CommitRecord, CommitSettle, Claiming
      <4> QED BY <4>1 DEF ServiceInv, ServiceTypeOK
    <3> QED BY <1>10, <3>1, <3>2
  <2> HIDE DEF Goal
  <2> QED BY <1>4, <2>1, <2>2
<1> HIDE DEF Goal
<1> QED BY <1>5, <1>6, <1>7, <1>8, <1>9, <1>10 DEF ServiceNext, Progress

LEMMA OutboxInit ==
  ServiceInit => Ordered /\ Once /\ Logged
<1>1. ServiceInit => Ordered /\ Once
  BY DEF ServiceInit, Ordered, Once, EventsOnce, Writing, Resting
<1>2. ServiceInit => Logged
  BY DEF ServiceInit, Logged, RowsTell, Writing, Resting, NewState
<1> QED BY <1>1, <1>2

\* The outbox can be read streak by streak: whatever transactions run at once,
\* a commit adds only ids above those that are committed for its streak.
THEOREM CommitOrderCorrect == ServiceSpec => CommitOrder
<1> DEFINE Above == \A r \in outbox' \ outbox, q \in outbox :
                      q.streak = r.streak => q.id < r.id
           Inv == Ordered /\ Once /\ Logged
<1>1. ServiceInit => Inv
  BY OutboxInit
<1>2. ServiceInv /\ ServiceInv' /\ Inv /\ [ServiceNext]_svars => Inv' /\ [Above]_svars
  BY OutboxStep
<1> QED BY <1>1, <1>2, InvAlways, PTL DEF ServiceSpec, CommitOrder

\* No event is told twice, whichever processes tick at once, lose the lock, die
\* between the write and the commit, or repeat a report.
THEOREM EventsOnceCorrect == ServiceSpec => []EventsOnce
<1> DEFINE Inv == Ordered /\ Once /\ Logged
<1>1. ServiceInit => Inv
  BY OutboxInit
<1>2. ServiceInv /\ ServiceInv' /\ Inv /\ [ServiceNext]_svars => Inv'
  BY OutboxStep
<1>3. Inv => EventsOnce
  BY DEF Once
<1> QED BY <1>1, <1>2, <1>3, InvAlways, PTL DEF ServiceSpec

\* Who reads the events of a streak by id knows its count, whatever fails or
\* runs at once: the last break or extension that is committed tells it.
THEOREM LogTellsCountCorrect == ServiceSpec => []LogTellsCount
<1> DEFINE Inv == Ordered /\ Once /\ Logged
<1>1. ServiceInit => Inv
  BY OutboxInit
<1>2. ServiceInv /\ ServiceInv' /\ Inv /\ [ServiceNext]_svars => Inv'
  BY OutboxStep
<1>3. ServiceInv /\ Inv => LogTellsCount
  <2> SUFFICES ASSUME ServiceInv, Logged, NEW s \in Streaks
               PROVE  LET told == {r \in outbox : r.streak = s /\ r.type \in {"extended", "broken"}}
                          last == CHOOSE r \in told : \A q \in told : q.id <= r.id
                      IN  row[s].currentCount =
                            IF told = {} \/ last.type = "broken" THEN 0 ELSE last.count
    BY DEF LogTellsCount
  <2> DEFINE told == {r \in outbox : r.streak = s /\ r.type \in {"extended", "broken"}}
             last == CHOOSE r \in told : \A q \in told : q.id <= r.id
             of   == {r \in outbox : r.streak = s}
  <2>1. told = {r \in of : r.type \in CountType}
    BY DEF CountType
  <2>2. RowsTell(of, 0, row[s].currentCount)
    BY DEF Logged
  <2>3. \A r \in told : r.id \in Nat
    BY DEF ServiceInv, ServiceTypeOK, Row
  <2> HIDE DEF told, of
  <2>4. ASSUME told = {} PROVE row[s].currentCount = 0
    BY <2>1, <2>2, <2>4 DEF RowsTell
  <2>5. ASSUME NEW r \in told, row[s].currentCount = CountOf(r),
               \A q \in told : q # r => q.id < r.id
        PROVE  row[s].currentCount = IF told = {} \/ last.type = "broken" THEN 0 ELSE last.count
    <3>1. \A q \in told : q.id <= r.id
      BY <2>3, <2>5
    <3>2. last \in told /\ \A q \in told : q.id <= last.id
      BY <3>1
    <3>3. last = r
      <4> HIDE DEF last
      <4>1. r.id <= last.id /\ r.id \in Nat /\ last.id \in Nat
        BY <2>3, <2>5, <3>2
      <4>2. last # r => last.id < r.id
        BY <2>5, <3>2
      <4> QED BY <4>1, <4>2
    <3> HIDE DEF last
    <3> QED BY <2>5, <3>3 DEF CountOf
  <2>6. row[s].currentCount = IF told = {} \/ last.type = "broken" THEN 0 ELSE last.count
    <3> HIDE DEF last
    <3> QED BY <2>1, <2>2, <2>4, <2>5 DEF RowsTell
  <2> QED BY <2>6 DEF told
<1> QED BY <1>1, <1>2, <1>3, InvAlways, PTL DEF ServiceSpec
=============================================================================
