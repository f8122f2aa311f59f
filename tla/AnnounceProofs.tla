----------------------------- MODULE AnnounceProofs -----------------------------
(***************************************************************************)
(* Of the calls that race to finish a job exactly one wins.  The argument: *)
(* a call that has won the compare-and-set and not yet settled names the   *)
(* status the row now has; a terminal status never changes; so there is    *)
(* one such call at most, and nothing has been published before it.        *)
(*                                                                         *)
(* Of the calls that append notes to one job all but the last may lose     *)
(* theirs, since each writes back what it has read (run notes_kept).  That *)
(* is all that can lose one: LoneAppenderKeepsNotes.                       *)
(***************************************************************************)
EXTENDS BrokerProofs

\* a has won the race for its job and has not yet announced it.
Winner(a) == /\ calls[a].pc = "write"
             /\ calls[a].op \in FinishOp
             /\ calls[a].done

WinnerNamesStatus ==
    \A a \in Actor : Winner(a) => /\ Status(calls[a].job) = Target[calls[a].op]
                                  /\ announced[calls[a].job] = << >>

OneWinner ==
    \A a, b \in Actor : Winner(a) /\ Winner(b) /\ calls[a].job = calls[b].job => a = b

AnnounceInv == WinnerNamesStatus /\ OneWinner /\ TerminalAnnouncedOnce

NoneFinishes ==
    \A j \in Job : Status(j)' \in TerminalStatus => Status(j)' = Status(j)

-----------------------------------------------------------------------------
LEMMA TerminalStays ==
    ASSUME LifecycleMove, NEW j \in Job, Status(j) \in TerminalStatus
    PROVE  Status(j)' = Status(j)
  BY DEF LifecycleMove, Moved, ActiveStatus, TerminalStatus

LEMMA WinnerJob ==
    ASSUME Inv, NEW a \in Actor, Winner(a)
    PROVE  calls[a].job \in Job /\ Target[calls[a].op] \in TerminalStatus
  BY WriteType, TargetType DEF Winner, Inv, ServiceInv

(* A step by which nobody wins and nobody announces.                         *)
LEMMA IdleStep ==
    ASSUME Inv, AnnounceInv, LifecycleMove, NoneFinishes, UNCHANGED <<announced, crashes>>,
           \A a \in Actor : \/ calls'[a] = calls[a]
                            \/ ~Winner(a) /\ ~Winner(a)'
    PROVE  AnnounceInv'
  <1>1. ASSUME NEW a \in Actor, Winner(a)'
        PROVE  calls'[a] = calls[a] /\ Winner(a)
    BY <1>1 DEF Winner
  <1>2. WinnerNamesStatus'
    <2> SUFFICES ASSUME NEW a \in Actor, Winner(a)'
                 PROVE  /\ Status(calls[a].job)' = Target[calls'[a].op]
                        /\ announced'[calls'[a].job] = << >>
      BY DEF WinnerNamesStatus
    <2>1. /\ calls'[a] = calls[a] /\ Winner(a)
          /\ calls[a].job \in Job /\ Target[calls[a].op] \in TerminalStatus
      BY <1>1, WinnerJob
    <2>2. /\ Status(calls[a].job) = Target[calls[a].op]
          /\ announced[calls[a].job] = << >>
      BY <2>1 DEF AnnounceInv, WinnerNamesStatus
    <2>3. \A j \in Job : Status(j) \in TerminalStatus => Status(j)' = Status(j)
      BY TerminalStays
    <2> QED
      BY <2>1, <2>2, <2>3 DEF Status
  <1>3. OneWinner'
    BY <1>1 DEF AnnounceInv, OneWinner
  <1>4. ASSUME NEW j \in Job
        PROVE  \/ announced'[j] = <<Status(j)'>>
               \/ /\ announced'[j] = << >>
                  /\ Status(j)' \in TerminalStatus => Settling(j)' \/ crashes' > 0
    <2>1. CASE announced[j] = <<Status(j)>>
      <3>1. announced[j] \in Seq(TerminalStatus)
        BY DEF Inv, ServiceInv, ServiceTypeOK
      <3>2. Status(j) \in TerminalStatus
        BY <2>1, <3>1
      <3> QED
        BY <2>1, <3>2, TerminalStays
    <2>2. CASE announced[j] = << >> /\ ~(Status(j)' \in TerminalStatus)
      BY <2>2
    <2>3. CASE announced[j] = << >> /\ Status(j)' \in TerminalStatus
      <3>1. Status(j) \in TerminalStatus
        BY <2>3 DEF NoneFinishes
      <3>2. Settling(j) \/ crashes > 0
        <4>1. announced[j] # <<Status(j)>>
          BY <2>3
        <4> QED
          BY <3>1, <4>1 DEF AnnounceInv, TerminalAnnouncedOnce
      <3>3. ASSUME Settling(j) PROVE Settling(j)'
        <4>1. PICK a \in Actor : Winner(a) /\ calls[a].job = j
          BY <3>3 DEF Settling, Winner
        <4>2. calls'[a] = calls[a]
          BY <4>1
        <4> QED
          BY <4>1, <4>2 DEF Settling, Winner
      <3> QED
        BY <2>3, <3>2, <3>3
    <2> QED
      BY <2>1, <2>2, <2>3 DEF AnnounceInv, TerminalAnnouncedOnce
  <1> QED
    BY <1>2, <1>3, <1>4 DEF AnnounceInv, TerminalAnnouncedOnce

-----------------------------------------------------------------------------
(* The compare-and-set that wins.                                            *)
LEMMA WinStep ==
    ASSUME Inv, AnnounceInv, LifecycleMove, NEW a \in Actor, calls[a].pc = "get",
           calls[a].op \in FinishOp, calls[a].seen \notin TerminalStatus,
           NEW j, j = calls[a].job,
           Status(j) = calls[a].seen, Status(j)' = Target[calls[a].op],
           \A k \in Job \ {j} : Status(k)' = Status(k),
           Writes(a, TRUE), UNCHANGED <<announced, crashes>>
    PROVE  AnnounceInv'
  <1>1. /\ j \in Job /\ Target[calls[a].op] \in TerminalStatus
        /\ calls \in [Actor -> CallState]
        /\ announced[j] \in Seq(TerminalStatus)
    BY GetType, TargetType DEF Inv, ServiceInv, ServiceTypeOK
  <1>2. announced[j] = << >>
    <2>1. announced[j] = <<Status(j)>> => Status(j) \in TerminalStatus
      BY <1>1
    <2> QED
      BY <1>1, <2>1 DEF AnnounceInv, TerminalAnnouncedOnce
  <1>3. \A b \in Actor \ {a} : Winner(b) => calls[b].job # j
    BY WinnerJob DEF AnnounceInv, WinnerNamesStatus
  <1>4. /\ calls'[a] = [pc |-> "write", op |-> calls[a].op, job |-> j,
                        add |-> calls[a].add, done |-> TRUE]
        /\ \A b \in Actor \ {a} : calls'[b] = calls[b]
    BY <1>1 DEF Writes, Becomes
  <1>5. Winner(a)' /\ \A b \in Actor \ {a} : Winner(b)' <=> Winner(b)
    BY <1>4 DEF Winner
  <1>6. WinnerNamesStatus'
    <2> SUFFICES ASSUME NEW b \in Actor, Winner(b)'
                 PROVE  /\ Status(calls[b].job)' = Target[calls'[b].op]
                        /\ announced'[calls'[b].job] = << >>
      BY DEF WinnerNamesStatus
    <2>1. CASE b = a
      BY <1>2, <1>4, <2>1 DEF Status
    <2>2. CASE b # a
      <3>1. Winner(b) /\ calls'[b] = calls[b] /\ calls[b].job \in Job \ {j}
        BY <1>3, <1>4, <1>5, <2>2, WinnerJob
      <3>2. /\ Status(calls[b].job) = Target[calls[b].op]
            /\ announced[calls[b].job] = << >>
        BY <3>1 DEF AnnounceInv, WinnerNamesStatus
      <3> QED
        BY <3>1, <3>2 DEF Status
    <2> QED
      BY <2>1, <2>2
  <1>7. OneWinner'
    BY <1>3, <1>4, <1>5 DEF AnnounceInv, OneWinner
  <1>8. ASSUME NEW k \in Job
        PROVE  \/ announced'[k] = <<Status(k)'>>
               \/ /\ announced'[k] = << >>
                  /\ Status(k)' \in TerminalStatus => Settling(k)' \/ crashes' > 0
    <2>1. CASE k = j
      BY <1>2, <1>4, <2>1 DEF Settling
    <2>2. CASE k # j
      <3>1. Settling(k) => Settling(k)'
        BY <1>4, <2>2 DEF Settling
      <3> QED
        BY <2>2, <3>1 DEF AnnounceInv, TerminalAnnouncedOnce
    <2> QED
      BY <2>1, <2>2
  <1> QED
    BY <1>6, <1>7, <1>8 DEF AnnounceInv, TerminalAnnouncedOnce

(* The winner announces.                                                     *)
LEMMA AnnounceStep ==
    ASSUME Inv, AnnounceInv, NEW a \in Actor, Settle(a), SettleFinish(a), UNCHANGED crashes
    PROVE  AnnounceInv'
  <1> DEFINE j == calls[a].job
  <1>1. /\ Winner(a) /\ j \in Job /\ UNCHANGED jobs
        /\ calls \in [Actor -> CallState] /\ announced \in [Job -> Seq(TerminalStatus)]
    BY WinnerJob DEF Settle, SettleFinish, Winner, Inv, ServiceInv, ServiceTypeOK
  <1>2. \A k : Status(k)' = Status(k)
    BY <1>1 DEF Status
  <1>3. Status(j) = Target[calls[a].op] /\ announced[j] = << >>
    BY <1>1 DEF AnnounceInv, WinnerNamesStatus
  <1>4. /\ announced'[j] = Append(announced[j], Target[calls[a].op])
        /\ \A k \in Job \ {j} : announced'[k] = announced[k]
    BY <1>1 DEF SettleFinish
  <1>5. announced'[j] = <<Status(j)>>
    BY <1>3, <1>4
  <1>6. calls'[a] = Idle /\ \A b \in Actor \ {a} : calls'[b] = calls[b]
    BY <1>1 DEF Settle, Ends, Becomes
  <1>7. ~Winner(a)' /\ \A b \in Actor \ {a} : Winner(b)' <=> Winner(b)
    BY <1>6 DEF Winner, Idle
  <1>8. \A b \in Actor \ {a} : Winner(b) => calls[b].job \in Job \ {j}
    BY <1>1, WinnerJob DEF AnnounceInv, OneWinner
  <1>9. WinnerNamesStatus'
    <2> SUFFICES ASSUME NEW b \in Actor, Winner(b)'
                 PROVE  /\ Status(calls[b].job)' = Target[calls'[b].op]
                        /\ announced'[calls'[b].job] = << >>
      BY DEF WinnerNamesStatus
    <2>1. b # a /\ Winner(b) /\ calls'[b] = calls[b] /\ calls[b].job \in Job \ {j}
      BY <1>6, <1>7, <1>8
    <2>2. /\ Status(calls[b].job) = Target[calls[b].op]
          /\ announced[calls[b].job] = << >>
      BY <2>1 DEF AnnounceInv, WinnerNamesStatus
    <2> QED
      BY <1>1, <1>4, <2>1, <2>2 DEF Status
  <1>10. OneWinner'
    BY <1>6, <1>7 DEF AnnounceInv, OneWinner
  <1>11. ASSUME NEW k \in Job
         PROVE  \/ announced'[k] = <<Status(k)'>>
                \/ /\ announced'[k] = << >>
                   /\ Status(k)' \in TerminalStatus => Settling(k)' \/ crashes' > 0
    <2>1. CASE k = j
      BY <1>2, <1>5, <2>1
    <2>2. CASE k # j
      <3>1. Settling(k) => Settling(k)'
        BY <1>6, <2>2 DEF Settling
      <3> QED
        BY <1>2, <1>4, <2>2, <3>1 DEF AnnounceInv, TerminalAnnouncedOnce
    <2> QED
      BY <2>1, <2>2
  <1> QED
    BY <1>9, <1>10, <1>11 DEF AnnounceInv, TerminalAnnouncedOnce

-----------------------------------------------------------------------------
(* The steps of Broker.                                                      *)

LEMMA TransitionFinishesNone ==
    ASSUME StoreTypeOK, NEW j \in Job, NEW from \in JobStatuses,
           NEW to \in JobStatuses \ TerminalStatus, to # "pending", NEW notes,
           Expected(j, from) => notes \in SUBSET Note,
           TransitionStatus(j, from, to, notes)
    PROVE  NoneFinishes
  BY TransitionRow DEF NoneFinishes

LEMMA ClaimFinishesNone ==
    ASSUME Inv, NEW s \in Session, Claim(s)
    PROVE  NoneFinishes
  <1>1. CASE UNCHANGED jobs
    BY <1>1 DEF NoneFinishes, Status
  <1>2. ASSUME NEW j \in Pick(s, drain[s].found),
               TransitionStatus(j, "pending", "dispatched", jobs[j].notes)
        PROVE  NoneFinishes
    <2>1. j \in Job
      BY FindingType DEF Pick, Dispatchable, Claim, Inv, ServiceInv, DispatcherInv
    <2>2. Expected(j, "pending") => jobs[j].notes \in SUBSET Note
      BY SeenNotesTyped DEF Inv, ServiceInv, JobStatuses, ActiveStatus
    <2>3. /\ "pending" \in JobStatuses
          /\ "dispatched" \in JobStatuses \ TerminalStatus
      BY DEF JobStatuses, ActiveStatus, TerminalStatus
    <2> QED
      BY <1>2, <2>1, <2>2, <2>3, TransitionFinishesNone DEF Inv, ServiceInv
  <1> QED
    BY <1>1, <1>2 DEF Claim

LEMMA SubmitFinishesNone ==
    ASSUME Inv, NEW a, NEW j \in Job, NEW s \in Session, NEW kind \in Kind,
           Submit(a, j, s, kind)
    PROVE  NoneFinishes
  BY InsertRow DEF Submit, Inv, ServiceInv, NoneFinishes, TerminalStatus

(* One step of a call: it wins, it announces, or it does neither.            *)
LEMMA DecideAnnounces ==
    ASSUME Inv, AnnounceInv, NEW a \in Actor, Decide(a), UNCHANGED crashes
    PROVE  AnnounceInv'
  <1> DEFINE c == calls[a]
  <1>1. /\ c.pc = "get" /\ c.op \in GetOp /\ c.job \in Job /\ c.seen \in JobStatuses
        /\ c.notes \cup c.add \in SUBSET Note
        /\ UNCHANGED announced
        /\ calls \in [Actor -> CallState]
    BY GetType DEF Decide, Inv, ServiceInv, ServiceTypeOK
  <1>2. LifecycleMove
    BY DecideStep DEF Inv, TableStep
  <1>3. ~Winner(a)
    BY <1>1 DEF Winner
  <1>4. ASSUME NoneFinishes, NEW call, Becomes(a, call),
               ~(call.pc = "write" /\ call.op \in FinishOp /\ call.done)
        PROVE  AnnounceInv'
    <2>1. calls'[a] = call /\ \A b \in Actor \ {a} : calls'[b] = calls[b]
      BY <1>1, <1>4 DEF Becomes
    <2>2. ~Winner(a)'
      BY <1>4, <2>1 DEF Winner
    <2> QED
      BY <1>1, <1>2, <1>3, <1>4, <2>1, <2>2, IdleStep
  <1>5. UNCHANGED jobs => NoneFinishes
    BY DEF NoneFinishes, Status
  <1>6. ASSUME NEW notes \in SUBSET Note, Patch(c.job, notes)
        PROVE  NoneFinishes
    BY <1>6, PatchRow DEF NoneFinishes, Inv, ServiceInv
  <1>7. CASE Ends(a) /\ UNCHANGED jobs
    BY <1>4, <1>5, <1>7 DEF Ends, Idle
  <1>8. CASE DecideFinish(a) /\ ~(Ends(a) /\ UNCHANGED jobs)
    <2>1. /\ c.op \in FinishOp /\ c.seen \notin TerminalStatus
          /\ TransitionStatus(c.job, c.seen, Target[c.op], jobs[c.job].notes)
          /\ Writes(a, Expected(c.job, c.seen))
      BY <1>8 DEF DecideFinish
    <2>2. CASE Expected(c.job, c.seen)
      <3>1. /\ Target[c.op] \in JobStatuses /\ Target[c.op] # "pending"
            /\ jobs[c.job].notes \in SUBSET Note
        BY <1>1, <2>1, <2>2, TargetType, SeenNotesTyped
           DEF Inv, ServiceInv, JobStatuses, TerminalStatus
      <3>2. c.job \in DOMAIN jobs /\ WriteStatus(c.job, Target[c.op], jobs[c.job].notes)
        BY <1>1, <2>1, <2>2, StatusOfRow
           DEF Expected, TransitionStatus, JobStatuses, ActiveStatus, TerminalStatus, Inv,
               ServiceInv
      <3>9. PICK row : row = c.job
        OBVIOUS
      <3>3. Status(row)' = Target[c.op] /\ \A k \in Job \ {row} : Status(k)' = Status(k)
        BY <3>9, <3>1, <3>2, WriteRow DEF Inv, ServiceInv
      <3>4. Writes(a, TRUE)
        BY <2>1, <2>2 DEF Writes
      <3> QED
        BY <1>1, <1>2, <2>1, <2>2, <3>9, <3>3, <3>4, WinStep DEF Expected
    <2>3. CASE ~Expected(c.job, c.seen)
      BY <1>4, <1>5, <2>1, <2>3 DEF TransitionStatus, Writes
    <2> QED
      BY <2>2, <2>3
  <1>9. CASE DecideNote(a) /\ ~(Ends(a) /\ UNCHANGED jobs)
    <2>1. c.op = "note" /\ c.op \notin FinishOp
      BY <1>9 DEF DecideNote, FinishOp
    <2>2. NoneFinishes
      <3>1. CASE /\ TransitionStatus(c.job, c.seen, "in_progress", c.notes \cup c.add)
                 /\ c.seen = "dispatched"
        BY <1>1, <3>1, TransitionFinishesNone
           DEF Inv, ServiceInv, JobStatuses, ActiveStatus, TerminalStatus
      <3>2. CASE Patch(c.job, c.notes \cup c.add)
        BY <1>1, <1>6, <3>2
      <3> QED
        BY <1>9, <3>1, <3>2 DEF DecideNote
    <2>3. \/ \E done : Writes(a, done)
          \/ Becomes(a, [c EXCEPT !.pc = "lost"])
      BY <1>9 DEF DecideNote
    <2>4. [c EXCEPT !.pc = "lost"].pc = "lost"
      BY <1>1, GetType DEF ReadCall, Inv, ServiceInv
    <2> QED
      BY <1>4, <2>1, <2>2, <2>3, <2>4 DEF Writes
  <1>10. CASE (DecideAck(a) \/ DecideComment(a)) /\ ~(Ends(a) /\ UNCHANGED jobs)
    <2>1. c.op \notin FinishOp /\ \E done : Writes(a, done)
      BY <1>10 DEF DecideAck, DecideComment, FinishOp
    <2>2. NoneFinishes
      <3>1. CASE /\ TransitionStatus(c.job, c.seen, "in_progress", jobs[c.job].notes)
                 /\ c.seen = "dispatched"
        <4>1. Expected(c.job, c.seen) => jobs[c.job].notes \in SUBSET Note
          BY <1>1, SeenNotesTyped DEF Inv, ServiceInv
        <4> QED
          BY <1>1, <3>1, <4>1, TransitionFinishesNone
             DEF Inv, ServiceInv, JobStatuses, ActiveStatus, TerminalStatus
      <3>2. CASE Patch(c.job, c.notes \cup c.add)
        BY <1>1, <1>6, <3>2
      <3> QED
        BY <1>10, <3>1, <3>2 DEF DecideAck, DecideComment
    <2> QED
      BY <1>4, <2>1, <2>2 DEF Writes
  <1> QED
    BY <1>7, <1>8, <1>9, <1>10 DEF Decide

LEMMA WorkAnnounces ==
    ASSUME Inv, AnnounceInv, NEW a \in Actor, CallStep(a), UNCHANGED crashes
    PROVE  AnnounceInv'
  <1>1. LifecycleMove
    BY CallTableStep DEF Inv, TableStep
  <1>2. calls \in [Actor -> CallState]
    BY DEF Inv, ServiceInv, ServiceTypeOK
  <1>3. UNCHANGED jobs => NoneFinishes
    BY DEF NoneFinishes, Status
  <1>4. CASE Submitted(a)
    <2>1. calls'[a] = Idle /\ \A b \in Actor \ {a} : calls'[b] = calls[b]
      BY <1>2, <1>4 DEF Submitted, Ends, Becomes
    <2>2. ~Winner(a) /\ ~Winner(a)'
      BY <1>4, <2>1 DEF Submitted, Winner, Idle
    <2> QED
      BY <1>1, <1>3, <1>4, <2>1, <2>2, IdleStep DEF Submitted
  <1>5. CASE Decide(a)
    BY <1>5, DecideAnnounces
  <1>6. CASE PatchLost(a)
    <2>1. NoneFinishes
      BY <1>6, GetType, PatchRow DEF PatchLost, NoneFinishes, Inv, ServiceInv
    <2>2. calls[a].pc = "lost" /\ calls[a].op \notin FinishOp
      BY <1>6, GetType DEF PatchLost, FinishOp, Inv, ServiceInv
    <2>3. /\ calls'[a].op = calls[a].op
          /\ \A b \in Actor \ {a} : calls'[b] = calls[b]
      BY <1>2, <1>6 DEF PatchLost, Writes, Becomes
    <2>4. ~Winner(a) /\ ~Winner(a)'
      BY <2>2, <2>3 DEF Winner
    <2> QED
      BY <1>1, <1>6, <2>1, <2>3, <2>4, IdleStep DEF PatchLost
  <1>7. CASE Settle(a) /\ SettleFinish(a)
    BY <1>7, AnnounceStep
  <1>8. CASE Settle(a) /\ (SettleOther(a) \/ SettleLost(a))
    <2>1. calls'[a] = Idle /\ \A b \in Actor \ {a} : calls'[b] = calls[b]
      BY <1>2, <1>8 DEF Settle, Ends, Becomes
    <2>2. ~Winner(a) /\ ~Winner(a)'
      BY <1>8, <2>1 DEF SettleOther, SettleLost, Winner, Idle
    <2> QED
      BY <1>1, <1>3, <1>8, <2>1, <2>2, IdleStep DEF Settle, SettleOther, SettleLost
  <1> QED
    BY <1>4, <1>5, <1>6, <1>7, <1>8 DEF CallStep, Settle

LEMMA BeginAnnounces ==
    ASSUME Inv, AnnounceInv, NEW a \in Actor, NEW op, NEW j, NEW add,
           Begin(a, op, j, add), UNCHANGED crashes
    PROVE  AnnounceInv'
  <1>1. UNCHANGED <<jobs, announced>> /\ calls[a] = Idle
    BY DEF Begin, Free
  <1>2. calls'[a].pc = "get" /\ \A b \in Actor \ {a} : calls'[b] = calls[b]
    BY DEF Begin, Becomes, Inv, ServiceInv, ServiceTypeOK
  <1>3. ~Winner(a) /\ ~Winner(a)'
    BY <1>1, <1>2 DEF Winner, Idle
  <1>4. LifecycleMove /\ NoneFinishes
    BY <1>1, TableUnchanged DEF TableStep, NoneFinishes, Status
  <1> QED
    BY <1>1, <1>2, <1>3, <1>4, IdleStep

LEMMA SubmitAnnounces ==
    ASSUME Inv, AnnounceInv, NEW a \in Actor, NEW j \in Job, NEW s \in Session,
           NEW kind \in Kind, Submit(a, j, s, kind), UNCHANGED crashes
    PROVE  AnnounceInv'
  <1>1. UNCHANGED announced /\ calls[a] = Idle
    BY DEF Submit, Free
  <1>2. calls'[a].pc = "insert" /\ \A b \in Actor \ {a} : calls'[b] = calls[b]
    BY DEF Submit, Becomes, Inv, ServiceInv, ServiceTypeOK
  <1>3. ~Winner(a) /\ ~Winner(a)'
    BY <1>1, <1>2 DEF Winner, Idle
  <1>4. LifecycleMove /\ NoneFinishes
    BY SubmitStep, SubmitFinishesNone DEF Inv, TableStep
  <1> QED
    BY <1>1, <1>2, <1>3, <1>4, IdleStep

LEMMA CrashAnnounces ==
    ASSUME Inv, AnnounceInv, Crash
    PROVE  AnnounceInv'
  <1>1. /\ UNCHANGED <<jobs, announced>> /\ calls' = [a \in Actor |-> Idle]
        /\ crashes' = crashes + 1 /\ crashes \in Nat
    BY DEF Crash, Inv, EventTypeOK
  <1>2. \A a \in Actor : ~Winner(a)'
    BY <1>1 DEF Winner, Idle
  <1>3. TerminalAnnouncedOnce'
    BY <1>1 DEF AnnounceInv, TerminalAnnouncedOnce, Status
  <1> QED
    BY <1>2, <1>3 DEF AnnounceInv, WinnerNamesStatus, OneWinner

LEMMA NextAnnounces ==
    ASSUME Inv, AnnounceInv, [Next]_vars
    PROVE  AnnounceInv'
  <1>1. LifecycleMove
    BY NextInv DEF TableStep
  <1>2. ASSUME UNCHANGED <<jobs, serviceVars, crashes>>
        PROVE  AnnounceInv'
    <2>1. NoneFinishes
      BY <1>2 DEF NoneFinishes, Status
    <2> QED
      BY <1>1, <1>2, <2>1, IdleStep DEF serviceVars
  <1>3. CASE UNCHANGED vars
    BY <1>2, <1>3 DEF vars
  <1>4. ASSUME NEW a \in Caller, Request(a)
        PROVE  AnnounceInv'
    BY <1>4, ActorAssumption, SubmitAnnounces DEF Request
  <1>5. ASSUME NEW a \in Caller, NEW op, ToolCall(a, op) \/ HttpCall(a, op)
        PROVE  AnnounceInv'
    BY <1>5, ActorAssumption, BeginAnnounces DEF ToolCall, HttpCall
  <1>6. ASSUME NEW a \in Actor, Work(a)
        PROVE  AnnounceInv'
    BY <1>6, WorkAnnounces DEF Work
  <1>7. ASSUME NEW s \in Session, Attach(s) \/ Disconnect(s)
        PROVE  AnnounceInv'
    BY <1>2, <1>7 DEF Attach, Disconnect
  <1>8. ASSUME NEW s \in Session, Drain(s)
        PROVE  AnnounceInv'
    <2>1. NoneFinishes
      BY <1>8, ClaimFinishesNone
         DEF Drain, DrainStep, StartDrain, Send, AfterSend, NoneFinishes, Status
    <2> QED
      BY <1>1, <1>8, <2>1, IdleStep DEF Drain, serviceVars
  <1>9. ASSUME NEW j \in Job, TimePasses(j)
        PROVE  AnnounceInv'
    BY <1>2, <1>9 DEF TimePasses
  <1>10. ASSUME NEW t \in Ticks, SweepStep(t)
         PROVE  AnnounceInv'
    BY <1>2, <1>10, ActorAssumption, BeginAnnounces
       DEF SweepStep, TickStart, ExpireNext, ListJobsInFlight, OrphanNext, TickEnd
  <1>11. CASE Crash \/ Restart
    BY <1>2, <1>11, CrashAnnounces DEF Restart
  <1> QED
    BY <1>3, <1>4, <1>5, <1>6, <1>7, <1>8, <1>9, <1>10, <1>11 DEF Next

(* Exactly one of the racing finishers wins: the terminal event of a job is  *)
(* published once at most, names the status the row keeps, and is missing    *)
(* only while the winner has not settled or after a crash.                   *)
THEOREM AnnouncedOnce == Spec => []TerminalAnnouncedOnce
  <1>1. Init => AnnounceInv
    BY DEF Init, ServiceInit, NoCalls, Idle, AnnounceInv, WinnerNamesStatus, OneWinner, Winner,
           TerminalAnnouncedOnce, Status, TerminalStatus
  <1>2. Inv /\ AnnounceInv /\ [Next]_vars => Inv' /\ AnnounceInv'
    BY NextInv, NextAnnounces
  <1>3. AnnounceInv => TerminalAnnouncedOnce
    BY DEF AnnounceInv
  <1> QED
    BY InitInv, <1>1, <1>2, <1>3, PTL DEF Spec

-----------------------------------------------------------------------------
(* The notes of a job.  An appender writes back the notes it has read, with   *)
(* its own.  As long as it is the only one, what it has read is what is       *)
(* there, so no row ever loses a note, and what has been written stays.       *)
NotesOf(j) == IF j \in DOMAIN jobs THEN jobs[j].notes ELSE {}

AckedThere == \A j \in Job : acked[j] \subseteq NotesOf(j)

AppenderUpToDate ==
    \A a \in Actor : \A j \in DOMAIN jobs :
      Appending(a, j) => jobs[j].notes \subseteq calls[a].notes

WrittenThere ==
    \A a \in Actor : calls[a].pc = "write" /\ calls[a].op \notin FinishOp =>
      calls[a].add \subseteq NotesOf(calls[a].job)

OthersAddNothing ==
    \A a \in Actor : calls[a].pc \in {"get", "lost", "write"} /\ calls[a].op \notin AppendOp =>
      calls[a].add = {}

NotesInv == AckedThere /\ AppenderUpToDate /\ WrittenThere /\ OthersAddNothing

\* a's call began with this step: it has read the row as it is.
Reads(a) ==
    \E op, add : \E j \in DOMAIN jobs :
      /\ UNCHANGED jobs
      /\ op \notin AppendOp => add = {}
      /\ calls'[a] = [pc |-> "get", op |-> op, job |-> j, seen |-> jobs[j].status,
                      notes |-> jobs[j].notes, add |-> add]

Appends(a, j) == /\ Appending(a, j)
                 /\ calls'[a].pc = "write"
                 /\ jobs'[j].notes = calls[a].notes \cup calls[a].add

\* a's write is over: if it is an append, the row has its notes.
WritesBack(a) ==
    /\ calls[a].pc \in {"get", "lost"} /\ calls'[a].pc = "write"
    /\ calls'[a].op = calls[a].op /\ calls'[a].job = calls[a].job
    /\ calls'[a].add = calls[a].add
    /\ calls[a].op \in AppendOp => Appends(a, calls[a].job)

LosesRace(a) == /\ UNCHANGED jobs
                 /\ calls[a].pc = "get" /\ calls[a].op = "note"
                 /\ calls'[a] = [calls[a] EXCEPT !.pc = "lost"]

LEMMA TransitionNotes ==
    ASSUME StoreTypeOK, NEW k, NEW from, from # "absent", NEW to, NEW notes,
           TransitionStatus(k, from, to, notes), NEW j \in DOMAIN jobs
    PROVE  /\ j # k => jobs'[j].notes = jobs[j].notes
           /\ Expected(k, from) => k \in DOMAIN jobs /\ jobs'[k].notes = notes
           /\ ~Expected(k, from) => UNCHANGED jobs
  <1>1. CASE ~Expected(k, from)
    BY <1>1 DEF TransitionStatus
  <1>2. CASE Expected(k, from)
    <2>1. k \in DOMAIN jobs
      BY <1>2 DEF Expected, Status
    <2>2. /\ \A i \in DOMAIN jobs : i # k => jobs'[i] = jobs[i]
          /\ jobs'[k] = [jobs[k] EXCEPT !.status = to, !.notes = notes]
      BY <1>2, <2>1 DEF TransitionStatus, WriteStatus
    <2>3. jobs[k] \in Row
      BY <2>1 DEF StoreTypeOK
    <2>4. jobs'[k].notes = notes
      BY <2>2, <2>3 DEF Row
    <2> QED
      BY <1>2, <2>1, <2>2, <2>4
  <1> QED
    BY <1>1, <1>2

LEMMA PatchNotes ==
    ASSUME StoreTypeOK, NEW k, NEW notes, Patch(k, notes), NEW j \in DOMAIN jobs
    PROVE  jobs'[j].notes = IF j = k THEN notes ELSE jobs[j].notes
  <1>1. jobs[j] \in Row
    BY DEF StoreTypeOK
  <1>2. jobs'[j] = IF j = k THEN [jobs[j] EXCEPT !.notes = notes] ELSE jobs[j]
    BY DEF Patch
  <1> QED
    BY <1>1, <1>2 DEF Row

\* What deciding does to the notes and to the call.
LEMMA DecideNotes ==
    ASSUME Inv, NEW a \in Actor, Decide(a) \/ PatchLost(a)
    PROVE  /\ \/ calls'[a] = Idle /\ UNCHANGED jobs
              \/ LosesRace(a)
              \/ WritesBack(a)
           /\ \A j \in DOMAIN jobs : jobs'[j].notes = jobs[j].notes \/ Appends(a, j)
  <1> DEFINE c == calls[a]
             Goal == /\ \/ calls'[a] = Idle /\ UNCHANGED jobs
                        \/ LosesRace(a)
                        \/ WritesBack(a)
                     /\ \A j \in DOMAIN jobs : jobs'[j].notes = jobs[j].notes \/ Appends(a, j)
  <1>1. /\ c.op \in GetOp /\ c.job \in DOMAIN jobs /\ c.pc \in {"get", "lost"}
        /\ c.seen # "absent" /\ StoreTypeOK /\ calls[a] \in ReadCall({"get", "lost"}, GetOp)
    BY GetType DEF Decide, PatchLost, Inv, ServiceInv, CalledRowThere, JobStatuses,
       ActiveStatus, TerminalStatus
  <1>2. \A call : Becomes(a, call) => calls'[a] = call
    BY OthersKeepCalls
  <1>4. ASSUME Ends(a), UNCHANGED jobs
        PROVE  Goal
    BY <1>2, <1>4 DEF Ends
  <1>5. ASSUME NEW done, Writes(a, done), c.op \notin AppendOp,
               \A j \in DOMAIN jobs : jobs'[j].notes = jobs[j].notes
        PROVE  Goal
    <2>1. WritesBack(a)
      BY <1>1, <1>2, <1>5 DEF Writes, WritesBack
    <2> QED
      BY <1>5, <2>1
  <1>6. ASSUME NEW done, Writes(a, done), c.op \in AppendOp,
               jobs'[c.job].notes = c.notes \cup c.add,
               \A j \in DOMAIN jobs : j # c.job => jobs'[j].notes = jobs[j].notes
        PROVE  Goal
    <2>1. calls'[a] = [pc |-> "write", op |-> c.op, job |-> c.job, add |-> c.add,
                       done |-> done]
      BY <1>2, <1>6 DEF Writes
    <2>2. Appends(a, c.job)
      BY <1>1, <1>6, <2>1 DEF Appends, Appending
    <2>3. WritesBack(a)
      BY <1>1, <2>1, <2>2 DEF WritesBack
    <2> QED
      BY <1>6, <2>2, <2>3
  <1>7. ASSUME NEW to, TransitionStatus(c.job, c.seen, to, jobs[c.job].notes)
        PROVE  \A j \in DOMAIN jobs : jobs'[j].notes = jobs[j].notes
    BY <1>1, <1>7, TransitionNotes
  <1>8. ASSUME Patch(c.job, c.notes \cup c.add)
        PROVE  /\ jobs'[c.job].notes = c.notes \cup c.add
               /\ \A j \in DOMAIN jobs : j # c.job => jobs'[j].notes = jobs[j].notes
    BY <1>1, <1>8, PatchNotes
  <1>9. CASE Decide(a) /\ DecideFinish(a)
    <2>1. c.op \notin AppendOp
      BY <1>9 DEF DecideFinish, FinishOp, AppendOp
    <2> QED
      BY <1>4, <1>5, <1>7, <1>9, <2>1 DEF DecideFinish
  <1>10. CASE Decide(a) /\ DecideAck(a)
    <2>1. c.op \notin AppendOp
      BY <1>10 DEF DecideAck, AppendOp
    <2> QED
      BY <1>4, <1>5, <1>7, <1>10, <2>1 DEF DecideAck
  <1>11. CASE Decide(a) /\ DecideComment(a)
    <2>1. c.op \in AppendOp
      BY <1>11 DEF DecideComment, AppendOp
    <2> QED
      BY <1>4, <1>6, <1>8, <1>11, <2>1 DEF DecideComment
  <1>12. CASE PatchLost(a)
    <2>1. c.op \in AppendOp
      BY <1>12, GetType DEF PatchLost, AppendOp, Inv, ServiceInv
    <2> QED
      BY <1>6, <1>8, <1>12, <2>1 DEF PatchLost
  <1>13. CASE Decide(a) /\ DecideNote(a)
    <2>1. c.op = "note" /\ c.op \in AppendOp /\ c.pc = "get"
      BY <1>13 DEF DecideNote, AppendOp, Decide
    <2>2. CASE /\ TransitionStatus(c.job, c.seen, "in_progress", c.notes \cup c.add)
               /\ IF Expected(c.job, c.seen)
                  THEN Writes(a, TRUE)
                  ELSE Becomes(a, [c EXCEPT !.pc = "lost"])
      <3>1. CASE Expected(c.job, c.seen)
        <4>1. /\ jobs'[c.job].notes = c.notes \cup c.add
              /\ \A j \in DOMAIN jobs : j # c.job => jobs'[j].notes = jobs[j].notes
          BY <1>1, <2>2, <3>1, TransitionNotes
        <4> QED
          BY <1>6, <2>1, <2>2, <3>1, <4>1
      <3>2. CASE ~Expected(c.job, c.seen)
        <4>1. UNCHANGED jobs
          BY <2>2, <3>2 DEF TransitionStatus
        <4>2. LosesRace(a)
          BY <1>2, <2>1, <2>2, <3>2, <4>1 DEF LosesRace
        <4> QED
          BY <4>1, <4>2
      <3> QED
        BY <3>1, <3>2
    <2>3. CASE UNCHANGED jobs /\ Ends(a)
      BY <1>4, <2>3
    <2>4. CASE Patch(c.job, c.notes \cup c.add) /\ Writes(a, TRUE)
      BY <1>6, <1>8, <2>1, <2>4
    <2> QED
      BY <1>13, <2>2, <2>3, <2>4 DEF DecideNote
  <1> QED
    BY <1>9, <1>10, <1>11, <1>12, <1>13 DEF Decide

\* What a step may make of a call.
LEMMA CallMoves ==
    ASSUME Inv, [Next]_vars, NEW a \in Actor
    PROVE  \/ calls'[a] = calls[a] \/ calls'[a].pc \in {"idle", "insert"}
           \/ Reads(a) \/ LosesRace(a) \/ WritesBack(a)
  <1>1. \A b \in Actor : \A call : b # a /\ Becomes(b, call) => calls'[a] = calls[a]
    BY OthersKeepCalls
  <1>2. \A call : Becomes(a, call) => calls'[a] = call
    BY OthersKeepCalls
  <1>3. CASE UNCHANGED calls
    BY <1>3
  <1>4. CASE Crash
    BY <1>4 DEF Crash, Idle
  <1>5. ASSUME NEW b \in Caller, Request(b)
        PROVE  calls'[a] = calls[a] \/ calls'[a].pc = "insert"
    <2>1. PICK j \in Job : Becomes(b, [pc |-> "insert", job |-> j])
      BY <1>5 DEF Request, Submit
    <2> QED
      BY <1>1, <1>2, <2>1, ActorAssumption
  <1>6. ASSUME NEW b \in Actor, NEW op, NEW j, NEW add, Begin(b, op, j, add),
               op \notin AppendOp => add = {}
        PROVE  calls'[a] = calls[a] \/ Reads(a)
    BY <1>1, <1>2, <1>6 DEF Begin, Reads
  <1>7. ASSUME NEW b \in Caller, NEW op, ToolCall(b, op) \/ HttpCall(b, op)
        PROVE  calls'[a] = calls[a] \/ Reads(a)
    BY <1>6, <1>7, ActorAssumption DEF ToolCall, HttpCall, Appended
  <1>8. ASSUME NEW t \in Ticks, SweepStep(t)
        PROVE  calls'[a] = calls[a] \/ Reads(a)
    BY <1>3, <1>6, <1>8, ActorAssumption
       DEF SweepStep, TickStart, ExpireNext, ListJobsInFlight, OrphanNext, TickEnd, serviceVars
  <1>9. ASSUME NEW b \in Actor, CallStep(b)
        PROVE  \/ calls'[a] = calls[a] \/ calls'[a].pc \in {"idle", "insert"}
               \/ LosesRace(a) \/ WritesBack(a)
    <2>1. CASE b = a /\ (Decide(a) \/ PatchLost(a))
      BY <2>1, DecideNotes DEF Idle
    <2>2. CASE b = a /\ (Submitted(a) \/ Settle(a))
      BY <1>2, <2>2 DEF Submitted, Settle, Ends, Idle
    <2>3. CASE b # a
      <3>1. PICK call : Becomes(b, call)
        BY <1>9 DEF CallStep, Submitted, Decide, DecideFinish, DecideNote, DecideAck,
           DecideComment, PatchLost, Settle, Ends, Writes
      <3> QED
        BY <1>1, <2>3, <3>1
    <2> QED
      BY <1>9, <2>1, <2>2, <2>3 DEF CallStep
  <1> QED
    BY <1>3, <1>4, <1>5, <1>7, <1>8, <1>9
       DEF Next, vars, Work, Attach, Disconnect, Drain, TimePasses, Restart, serviceVars

\* Only an append changes the notes of a row.
LEMMA NotesMove ==
    ASSUME Inv, [Next]_vars, NEW j \in DOMAIN jobs
    PROVE  jobs'[j].notes = jobs[j].notes \/ \E a \in Actor : Appends(a, j)
  <1>1. CASE UNCHANGED jobs
    BY <1>1
  <1>2. ASSUME NEW b \in Caller, Request(b)
        PROVE  jobs'[j].notes = jobs[j].notes
    BY <1>2 DEF Request, Submit, NewJob, Insert
  <1>3. ASSUME NEW b \in Actor, CallStep(b)
        PROVE  jobs'[j].notes = jobs[j].notes \/ Appends(b, j)
    BY <1>3, DecideNotes DEF CallStep, Submitted, Settle
  <1>4. ASSUME NEW s \in Session, DrainStep(s)
        PROVE  jobs'[j].notes = jobs[j].notes
    <2>1. ASSUME NEW k, TransitionStatus(k, "pending", "dispatched", jobs[k].notes)
          PROVE  jobs'[j].notes = jobs[j].notes
      BY <2>1, TransitionNotes DEF Inv, ServiceInv
    <2> QED
      BY <1>4, <2>1 DEF DrainStep, StartDrain, Claim, Send, AfterSend
  <1> QED
    BY <1>1, <1>2, <1>3, <1>4
       DEF Next, vars, ToolCall, HttpCall, Begin, Work, Attach, Disconnect, Drain, TimePasses,
           SweepStep, TickStart, ExpireNext, ListJobsInFlight, OrphanNext, TickEnd, Crash, Restart

\* A caller is told its note is in when its call settles.
LEMMA AckedMoves ==
    ASSUME Inv, [Next]_vars, NEW j \in Job
    PROVE  \/ acked'[j] = acked[j]
           \/ \E a \in Actor : /\ calls[a].pc = "write" /\ calls[a].op \notin FinishOp
                               /\ calls[a].job = j /\ UNCHANGED jobs
                               /\ acked'[j] = acked[j] \cup calls[a].add
  <1>1. CASE UNCHANGED acked
    BY <1>1
  <1>2. ASSUME NEW b \in Actor, Settle(b), SettleOther(b)
        PROVE  \/ acked'[j] = acked[j]
               \/ /\ calls[b].pc = "write" /\ calls[b].op \notin FinishOp
                  /\ calls[b].job = j /\ UNCHANGED jobs
                  /\ acked'[j] = acked[j] \cup calls[b].add
    BY <1>2 DEF Settle, SettleOther, Inv, ServiceInv, ServiceTypeOK
  <1>3. ASSUME NEW b \in Actor, Work(b)
        PROVE  UNCHANGED acked \/ (Settle(b) /\ SettleOther(b))
    BY <1>3 DEF Work, CallStep, Submitted, Decide, PatchLost, Settle, SettleFinish, SettleLost
  <1> QED
    BY <1>1, <1>2, <1>3
       DEF Next, vars, Request, Submit, ToolCall, HttpCall, Begin, Attach, Disconnect, Drain,
           TimePasses, SweepStep, TickStart, ExpireNext, ListJobsInFlight, OrphanNext, TickEnd,
           Crash, Restart, serviceVars

\* With one appender no row loses a note.
LEMMA NotesGrow ==
    ASSUME Inv, NotesInv, OneAppender, [Next]_vars, NEW j \in Job
    PROVE  NotesOf(j) \subseteq NotesOf(j)'
  <1>1. CASE j \notin DOMAIN jobs
    BY <1>1 DEF NotesOf
  <1>2. CASE j \in DOMAIN jobs
    <2>1. j \in DOMAIN jobs'
      BY <1>2, NextInv DEF TableStep, RowsKept
    <2>2. jobs[j].notes \subseteq jobs'[j].notes
      BY <1>2, NotesMove DEF NotesInv, AppenderUpToDate, Appends
    <2> QED
      BY <1>2, <2>1, <2>2 DEF NotesOf
  <1> QED
    BY <1>1, <1>2

LEMMA NotesStay ==
    ASSUME Inv, NotesInv, OneAppender, [Next]_vars
    PROVE  NotesInv'
  <1>1. \A j \in Job : NotesOf(j) \subseteq NotesOf(j)'
    BY NotesGrow
  <1>2. \A a \in Actor : calls[a].pc # "idle" => calls[a].job \in Job /\ calls[a].job \in DOMAIN jobs
    BY DEF Inv, CalledRowThere, ServiceInv, StoreTypeOK
  <1>3. AckedThere'
    <2> SUFFICES ASSUME NEW j \in Job PROVE acked'[j] \subseteq NotesOf(j)'
      BY DEF AckedThere
    <2>1. \A a \in Actor : calls[a].pc = "write" /\ calls[a].op \notin FinishOp
                             /\ calls[a].job = j => calls[a].add \subseteq NotesOf(j)
      BY DEF NotesInv, WrittenThere
    <2>2. acked[j] \subseteq NotesOf(j)
      BY DEF NotesInv, AckedThere
    <2> QED
      BY <1>1, <2>1, <2>2, AckedMoves
  <1>4. AppenderUpToDate'
    <2> SUFFICES ASSUME NEW a \in Actor, NEW j \in DOMAIN jobs', Appending(a, j)'
                 PROVE  jobs'[j].notes \subseteq calls'[a].notes
      BY DEF AppenderUpToDate
    <2>1. calls'[a].pc \in {"get", "lost"} /\ calls'[a].job = j /\ calls'[a].op \in AppendOp
      BY DEF Appending
    <2>2. CASE calls'[a] = calls[a]
      <3>1. Appending(a, j) /\ j \in DOMAIN jobs /\ j \in Job
        BY <1>2, <2>1, <2>2 DEF Appending
      <3>2. jobs[j].notes \subseteq calls[a].notes
        BY <3>1 DEF NotesInv, AppenderUpToDate
      <3>3. ~\E b \in Actor : Appends(b, j)
        BY <2>1, <3>1 DEF Appends, OneAppender
      <3>4. jobs'[j].notes = jobs[j].notes
        BY <3>1, <3>3, NotesMove
      <3> QED
        BY <2>2, <3>2, <3>4
    <2>3. CASE Reads(a)
      BY <2>1, <2>3 DEF Reads
    <2>4. CASE LosesRace(a)
      <3>1. /\ calls[a].pc = "get" /\ calls[a] \in ReadCall({"get", "lost"}, GetOp)
            /\ calls'[a] = [calls[a] EXCEPT !.pc = "lost"] /\ UNCHANGED jobs
        BY <2>4, GetType DEF LosesRace, Inv, ServiceInv
      <3>2. /\ calls'[a].job = calls[a].job /\ calls'[a].notes = calls[a].notes
            /\ calls'[a].op = calls[a].op
        BY <3>1 DEF ReadCall
      <3>3. Appending(a, j)
        BY <2>1, <3>1, <3>2 DEF Appending
      <3> QED
        BY <3>1, <3>2, <3>3 DEF NotesInv, AppenderUpToDate
    <2> QED
      BY <2>1, <2>2, <2>3, <2>4, CallMoves DEF WritesBack
  <1>5. WrittenThere'
    <2> SUFFICES ASSUME NEW a \in Actor, calls'[a].pc = "write", calls'[a].op \notin FinishOp
                 PROVE  (calls[a].add \subseteq NotesOf(calls[a].job))'
      BY DEF WrittenThere, NotesOf
    <2>1. CASE calls'[a] = calls[a]
      <3>1. calls[a].add \subseteq NotesOf(calls[a].job) /\ calls[a].job \in Job
        BY <1>2, <2>1 DEF NotesInv, WrittenThere
      <3>2. PICK j \in Job : j = calls[a].job
        BY <3>1
      <3>3. NotesOf(j) \subseteq NotesOf(j)' /\ calls[a].add \subseteq NotesOf(j)
        BY <1>1, <3>1, <3>2
      <3> QED
        BY <2>1, <3>2, <3>3 DEF NotesOf
    <2>2. CASE WritesBack(a)
      <3>1. PICK j \in Job : j = calls[a].job /\ j \in DOMAIN jobs
        BY <1>2, <2>2 DEF WritesBack
      <3>2. j \in DOMAIN jobs' /\ calls'[a].job = j /\ calls'[a].add = calls[a].add
        BY <2>2, <3>1, NextInv DEF WritesBack, TableStep, RowsKept
      <3>3. CASE calls[a].op \in AppendOp
        BY <2>2, <3>1, <3>2, <3>3 DEF WritesBack, Appends, NotesOf
      <3>4. CASE calls[a].op \notin AppendOp
        BY <2>2, <3>2, <3>4 DEF WritesBack, NotesInv, OthersAddNothing
      <3> QED
        BY <3>3, <3>4
    <2>3. ~Reads(a) /\ ~LosesRace(a)
      <3>1. ASSUME Reads(a) PROVE FALSE
        <4>1. calls'[a].pc = "get"
          BY <3>1 DEF Reads
        <4> QED
          BY <4>1
      <3>2. ASSUME LosesRace(a) PROVE FALSE
        <4>1. calls[a] \in ReadCall({"get", "lost"}, GetOp)
          BY <3>2, GetType DEF LosesRace, Inv, ServiceInv
        <4>2. calls'[a].pc = "lost"
          BY <3>2, <4>1 DEF LosesRace, ReadCall
        <4> QED
          BY <4>2
      <3> QED
        BY <3>1, <3>2
    <2> QED
      BY <2>1, <2>2, <2>3, CallMoves
  <1>6. OthersAddNothing'
    <2> SUFFICES ASSUME NEW a \in Actor, calls'[a].pc \in {"get", "lost", "write"},
                        calls'[a].op \notin AppendOp
                 PROVE  calls'[a].add = {}
      BY DEF OthersAddNothing
    <2>1. CASE calls'[a] = calls[a]
      BY <2>1 DEF NotesInv, OthersAddNothing
    <2>2. CASE Reads(a)
      BY <2>2 DEF Reads
    <2>3. CASE WritesBack(a)
      BY <2>3 DEF WritesBack, NotesInv, OthersAddNothing
    <2>4. CASE LosesRace(a)
      <3>1. calls[a] \in ReadCall({"get", "lost"}, GetOp)
        BY <2>4, GetType DEF LosesRace, Inv, ServiceInv
      <3>2. calls'[a].op = "note"
        BY <2>4, <3>1 DEF LosesRace, ReadCall
      <3> QED
        BY <3>2 DEF AppendOp
    <2> QED
      BY <2>1, <2>2, <2>3, <2>4, CallMoves
  <1> QED
    BY <1>3, <1>4, <1>5, <1>6 DEF NotesInv

LEMMA InitNotes == Init => NotesInv
  BY DEF Init, ServiceInit, NoCalls, Idle, NotesInv, AckedThere, AppenderUpToDate, Appending,
     WrittenThere, OthersAddNothing, NotesOf

(* The note of a note_progress or comment call that was told it is in stays   *)
(* in, as long as no two calls append to one job side by side; what finishes, *)
(* acks, sweeps or restarts meanwhile takes nothing away.                     *)
THEOREM LoneAppenderKeepsNotes == Spec /\ []OneAppender => []NotesKept
  <1>1. Inv /\ NotesInv /\ OneAppender /\ [Next]_vars => Inv' /\ NotesInv'
    BY NextInv, NotesStay
  <1>2. Inv /\ NotesInv => NotesKept
    BY DEF NotesInv, AckedThere, NotesKept, NotesOf, Inv, ServiceInv, StoreTypeOK
  <1> QED
    BY InitInv, InitNotes, <1>1, <1>2, PTL DEF Spec
=============================================================================
