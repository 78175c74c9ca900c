---------------------------- MODULE StreakReads ----------------------------
(***************************************************************************)
(* A read of streakd (Get in internal/engine/read.go; List is the same for *)
(* each of its rows) beside the operations of StreakEngine.  A read takes  *)
(* no lock and no transaction: it is one query after another, and any      *)
(* operation may commit, and any time pass, between two of them.           *)
(*                                                                         *)
(* The amount of the present period is queried last and shown beside the   *)
(* derived view; nothing is derived from it and it is left out.            *)
(***************************************************************************)
EXTENDS StreakProperties

CONSTANT OpsDuring  \* bound: the operations that may commit during a read

ASSUME ReadsAssumption == OpsDuring \subseteq Ops

VARIABLES
  call,  \* the read that is under way: the clock and the zone it has read
  seen   \* auxiliary: the counts that were true at some moment of the read

readVars == <<call, seen>>

NoCall == [stage |-> "none", at |-> 0, zone |-> DefaultTZ]

\* The count of a view; it is 0 when the chain is broken.
ViewCount(s, cur) == Derive(s, cur).count

ReadsInit == Init /\ call = NoCall /\ seen = {}

\* The read takes the time from the engine clock.
BeginGet ==
  /\ call.stage = "none"
  /\ call' = [NoCall EXCEPT !.stage = "clock", !.at = now]

\* Mutant of GetSubject: the zone is one cached since the subject was created.
GetSubjectCached ==
  /\ call.stage = "clock"
  /\ call' = [call EXCEPT !.stage = "subject", !.zone = DefaultTZ]

GetSubject ==
  /\ call.stage = "clock"
  /\ call' = [call EXCEPT !.stage = "subject", !.zone = tz]

\* The row is read, and the view built for the clock and the zone of before.
GetStreak ==
  /\ call.stage = "subject" /\ exists
  /\ call' = NoCall

\* The streak is not there, or the caller gave up.
AbandonGet ==
  /\ call.stage # "none"
  /\ call' = NoCall

Get == (BeginGet \/ GetSubject \/ GetStreak \/ AbandonGet) /\ UNCHANGED vars

\* The engine while a read is under way.
During == INSTANCE StreakEngine WITH Ops <- OpsDuring, Delays <- {}

ReadsNext ==
  /\ \/ Get
     \/ /\ IF call.stage = "none" THEN Next ELSE During!Next
        /\ UNCHANGED call
  /\ seen' = IF call'.stage = "none" THEN {} ELSE seen \cup {ViewCount(st, Cur)'}

ReadsSpec == ReadsInit /\ [][ReadsNext]_<<vars, readVars>>

-----------------------------------------------------------------------------
\* A read is honest (read.go:10-11): though its clock, its zone and its row are
\* of three different moments, the count it shows is one the subject had at some
\* moment of the read; no chain is shown lost, or alive, that never was.
ReadHonest ==
  [][call.stage = "subject" /\ GetStreak /\ UNCHANGED vars =>
       ViewCount(st, PeriodKey(call.at, call.zone)) \in seen]_<<vars, readVars>>
=============================================================================
