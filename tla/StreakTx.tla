------------------------------ MODULE StreakTx ------------------------------
(***************************************************************************)
(* The operations of StreakEngine as the transactions that run them.  A    *)
(* transaction reads the engine clock, then the subject with its zone,     *)
(* then locks the streak's row and commits; it goes on with the instant    *)
(* and the zone it read, whatever others commit in between.                *)
(*                                                                         *)
(* From the row lock to the commit a transaction is one step: the row, its *)
(* ledger and its outbox are written under that lock only.  The lock on    *)
(* the subject, which an upsert takes and a plain read does not, is held   *)
(* from the read to the commit.                                            *)
(***************************************************************************)
EXTENDS StreakProperties

CONSTANTS
  Hosts,      \* the host's threads that call the engine
  Ticker,     \* the scheduler that has the advisory lock
  HostOps,    \* the operations the hosts call
  Straddlers  \* bound: the operations that may be under way when a slot ends

ASSUME TxAssumption ==
  /\ Ticker \notin Hosts
  /\ HostOps \subseteq {"record", "settimezone", "repair"} \cap Ops
  /\ Straddlers \subseteq HostOps \cup {"settle"}

VARIABLE tx   \* the transaction each process is running

Procs == Hosts \cup {Ticker}

Tx == [stage : {"idle", "begun", "read"}, op : HostOps \cup {"none", "settle"},
       at : Time, zone : Zones]

Idle == [stage |-> "idle", op |-> "none", at |-> 0, zone |-> DefaultTZ]

TxTypeOK == TypeOK /\ tx \in [Procs -> Tx]

TxInit == Init /\ tx = [p \in Procs |-> Idle]

\* UpsertSubject locks the subject; GetSubject and the candidate query do not.
LocksSubject(op) == op \in {"record", "settimezone"}

HoldsSubject(p) == tx[p].stage = "read" /\ LocksSubject(tx[p].op)

\* The operation reads the engine clock.
Begin(p, op) ==
  /\ tx[p].stage = "idle"
  /\ tx' = [tx EXCEPT ![p] = [Idle EXCEPT !.stage = "begun", !.op = op, !.at = now]]
  /\ UNCHANGED vars

\* Its transaction reads the subject, after any holder of the subject's lock.
ReadSubject(p) ==
  /\ tx[p].stage = "begun" /\ p # Ticker
  /\ LocksSubject(tx[p].op) => ~\E q \in Procs : HoldsSubject(q)
  /\ tx' = [tx EXCEPT ![p].stage = "read", ![p].zone = tz]
  /\ UNCHANGED vars

\* loadCandidates: the tick finds, or does not find, the streak due.
LoadCandidate ==
  LET due == exists /\ SettleIsDue(st, PeriodKey(tx[Ticker].at, tz))
  IN  /\ tx[Ticker].stage = "begun"
      /\ tx' = [tx EXCEPT ![Ticker] =
                  IF due THEN [@ EXCEPT !.stage = "read", !.zone = tz] ELSE Idle]
      /\ UNCHANGED vars

\* The engine at the instant t and in the zone z that a transaction has read.
At(t, z) == INSTANCE StreakEngine WITH now <- t, tz <- z

\* What the transaction does to the tables under the lock of the row.
Body(op, t, z) ==
  \/ /\ op = "record"
     /\ \E a \in Amounts :
          \/ At(t, z)!RecordCurrent(a)
          \/ \E d \in Delays : At(t, z)!RecordGrace(d, a)
     /\ UNCHANGED tz
  \/ /\ op = "repair"
     /\ At(t, z)!Repair
     /\ UNCHANGED tz
  \/ /\ op = "settle"
     /\ At(t, z)!SettleOne
     /\ UNCHANGED tz
  \/ /\ op = "settimezone"
     /\ \E to \in Zones \ {z} : At(t, z)!Rezone(to) /\ tz' = to

Commit(p) ==
  /\ tx[p].stage = "read"
  /\ \E t \in {tx[p].at}, z \in {tx[p].zone} : Body(tx[p].op, t, z)
  /\ tx' = [tx EXCEPT ![p] = Idle]
  /\ UNCHANGED now

\* The operation returns an error, or its process or connection dies: nothing
\* of it remains.
Rollback(p) ==
  /\ tx[p].stage # "idle"
  /\ tx' = [tx EXCEPT ![p] = Idle]
  /\ UNCHANGED vars

TxAdvance ==
  /\ \A p \in Procs : tx[p].stage = "idle" \/ tx[p].op \in Straddlers
  /\ Advance
  /\ UNCHANGED tx

TxNext ==
  \/ TxAdvance
  \/ \E p \in Hosts, op \in HostOps : Begin(p, op)
  \/ Begin(Ticker, "settle")
  \/ LoadCandidate
  \/ \E p \in Procs : ReadSubject(p) \/ Commit(p) \/ Rollback(p)

TxSpec == TxInit /\ [][TxNext]_<<vars, tx>>

-----------------------------------------------------------------------------
\* The tick commits what it found due.
TickCommits == tx[Ticker].stage = "read" /\ tx'[Ticker] = Idle

\* A tick that comes late, with the clock and the zone of its candidate query,
\* still changes nothing a reader can see (scheduler.go:18-20, 119-145): what
\* it charges was lost before, for the subject in the zone it has by now.
TickInvisible ==
  [][TickCommits => Reads(st', Cur) = Reads(st, Cur)]_<<vars, tx>>
=============================================================================
