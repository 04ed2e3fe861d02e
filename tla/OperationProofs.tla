--------------------------- MODULE OperationProofs ---------------------------
(***************************************************************************)
(* Theorems about what an operation leaves in the books, and what becomes  *)
(* of the books.                                                           *)
(*                                                                         *)
(* About TunnelOperation, for any number of attempts, any timeouts and     *)
(* both protocols on either side: an attempt is recorded once, its lease   *)
(* is given back, its client is answered once.                             *)
(*                                                                         *)
(* About UsageAccounting, for any number of overlapping tasks, any traffic *)
(* and any totals: an abnormal variance is not lost.                       *)
(***************************************************************************)
EXTENDS TunnelOperation, UsageAccounting, TLAPS

----------------------------------------------------------------------------
(* Types: what the parts shared by several actions leave, then every action. *)

\* An accepted connection has its type.
LEMMA TypeInit == Init => TypeOK
<1> SUFFICES ASSUME Init PROVE TypeOK
  OBVIOUS
<1>1. pc \in {"greeting", "authenticating"}
  BY DEF Init
<1>2. attempt \in Attempts
  BY TunnelConstants DEF Init, Attempts
<1>3. QED
  BY <1>1, <1>2 DEF Init, TypeOK, Before, Reading, Reasons

\* A reply keeps the type of the replies.
LEMMA ReplyType ==
    ASSUME TypeOK, NEW r \in {"established", "refused"}, Reply(r)
    PROVE  replies' \in Seq({"established", "refused"})
BY DEF TypeOK, Reply

\* end() leaves a client socket.
LEMMA EndClientType ==
    ASSUME TypeOK, EndClient
    PROVE  client' \in {"open", "half", "ended", "erring", "gone", "dropped"}
BY DEF TypeOK, EndClient

\* removeActiveTunnel and its rejection keep the leases' type.
LEMMA RemoveLeaseType ==
    ASSUME TypeOK, RemoveLease
    PROVE  lease' \in [Attempts -> BOOLEAN] /\ lost' \subseteq Attempts
<1>1. CASE lease' = [lease EXCEPT ![attempt] = FALSE] /\ UNCHANGED lost
  BY <1>1 DEF TypeOK
<1>2. CASE lost' = lost \cup {attempt} /\ UNCHANGED lease
  BY <1>2 DEF TypeOK
<1>3. QED
  BY <1>1, <1>2 DEF RemoveLease

\* recordUsage keeps the records' type.
LEMMA RecordType == ASSUME TypeOK, Record PROVE records' \in [Attempts -> Nat]
BY DEF TypeOK, Record

\* finishTunnel keeps the type of the books.
LEMMA FinishType ==
    ASSUME TypeOK, Finish
    PROVE  /\ lease' \in [Attempts -> BOOLEAN] /\ lost' \subseteq Attempts
           /\ records' \in [Attempts -> Nat] /\ finished' \in BOOLEAN
BY RemoveLeaseType, RecordType DEF TypeOK, Finish, books

\* The catch block of an attempt keeps the types.
LEMMA FailType ==
    ASSUME TypeOK, NEW reason \in Reasons, NEW left \in {"none", "connecting", "open", "closed"},
           Fail(reason, left), UNCHANGED books
    PROVE  TypeOK'
BY DEF TypeOK, Fail, books, clock, Before, Establishing, Reading

\* The catch block of a handler keeps the types.
LEMMA RefuseType ==
    ASSUME TypeOK, NEW label \in {"refused", "over"}, Refuse(label)
    PROVE  /\ pc' = label /\ UNCHANGED <<attempt, err>>
           /\ replies' \in Seq({"established", "refused"})
           /\ client' \in {"open", "half", "ended", "erring", "gone", "dropped"}
BY ReplyType, EndClientType DEF Refuse, Goto

\* The end of the pipe keeps the types.
LEMMA PipeType ==
    ASSUME TypeOK, PipeEnds
    PROVE  /\ client' \in {"open", "half", "ended", "erring", "gone", "dropped"}
           /\ lease' \in [Attempts -> BOOLEAN] /\ lost' \subseteq Attempts
           /\ records' \in [Attempts -> Nat] /\ finished' \in BOOLEAN
BY EndClientType, FinishType DEF TypeOK, PipeEnds, books

\* The end of the task keeps the types.
LEMMA DiesType == ASSUME TypeOK, TaskDies PROVE TypeOK'
BY DEF TypeOK, TaskDies, clock

\* A close event of the client socket keeps the types.
LEMMA ClosesType ==
    ASSUME TypeOK, NEW state \in {"gone", "dropped"}, Closes(state)
    PROVE  TypeOK'
<1>1. lease' \in [Attempts -> BOOLEAN] /\ lost' \subseteq Attempts /\ records' \in [Attempts -> Nat]
      /\ finished' \in BOOLEAN
  BY FinishType DEF Closes, Heard, TypeOK, books
<1>2. /\ signal' \in {"none", "running", "timeout", "caller", "finished"}
      /\ up' \in [Attempts -> {"none", "connecting", "open", "closed"}]
  BY DEF Closes, Abort, TypeOK
<1>3. QED
  BY <1>1, <1>2 DEF Closes, TypeOK, handler, clock

\* Every action keeps the types.
LEMMA TypeStep == TypeOK /\ [Next]_vars => TypeOK'
<1> SUFFICES ASSUME TypeOK, [Next]_vars PROVE TypeOK'
  OBVIOUS
<1> USE DEF handler, clock, books
<1>1. CASE Authenticated
  BY <1>1, RefuseType DEF Authenticated, Goto, Activity, BeginBudget, TypeOK, Before, Reading,
     Establishing
<1>2. CASE HandshakeEnds
  BY <1>2 DEF HandshakeEnds, Goto, TypeOK, Before, Reading, Establishing
<1>3. CASE Validated
  BY <1>3 DEF Validated, Goto, TypeOK, Before, Reading, Establishing
<1>4. CASE ValidationFails
  BY <1>4, RefuseType DEF ValidationFails, TypeOK, Before, Reading, Establishing
<1>5. CASE ResolveOk
  BY <1>5 DEF ResolveOk, Goto, TypeOK, Before, Reading, Establishing
<1>6. CASE AbortObserved
  <2>1. CASE /\ pc = "validating" /\ Refuse("refused") /\ signal' = "finished"
             /\ UNCHANGED <<kind, clock, up, finished>> /\ UNCHANGED books
    BY <2>1, RefuseType DEF TypeOK, Before, Reading, Establishing
  <2>2. CASE Fail(IF signal = "timeout" THEN "retryable" ELSE "fatal",
                  IF pc = "resolving" THEN "none" ELSE "closed") /\ UNCHANGED books
    BY <2>2, FailType DEF Reasons
  <2>3. QED
    BY <1>6, <2>1, <2>2 DEF AbortObserved
<1>7. CASE SuccessRecorded
  BY <1>7, FailType DEF SuccessRecorded, Goto, Reasons, TypeOK, Before, Reading, Establishing
<1>8. CASE Admitted
  BY <1>8 DEF Admitted, Goto, TypeOK, Before, Reading, Establishing
<1>9. CASE Commit
  BY <1>9, ReplyType, PipeType DEF Commit, Goto, TypeOK, Before, Reading, Establishing
<1>10. CASE Settle
  <2>1. lease' \in [Attempts -> BOOLEAN] /\ lost' \subseteq Attempts
    BY <1>10, RemoveLeaseType DEF Settle, Release, TypeOK
  <2>2. records' \in [Attempts -> Nat]
    BY <1>10, RecordType DEF Settle
  <2>3. CASE Retry /\ ~DeadlinePassed
    <3>1. attempt + 1 \in Attempts
      BY <2>3, TunnelConstants DEF TypeOK, Attempts, Retry
    <3>2. QED
      BY <1>10, <2>1, <2>2, <2>3, <3>1 DEF Settle, BeginBudget, TypeOK, Before, Establishing
  <2>4. CASE ~(Retry /\ ~DeadlinePassed)
    BY <1>10, <2>1, <2>2, <2>4, RefuseType DEF Settle, TypeOK
  <2>5. QED
    BY <2>3, <2>4
<1>11. CASE HandshakeRefused
  BY <1>11, ReplyType, EndClientType DEF HandshakeRefused, Goto, TypeOK, Before, Reading,
     Establishing
<1>12. CASE \E reason \in Reasons, left \in BOOLEAN : ResolveFails(reason, left)
  BY <1>12 DEF ResolveFails, Fail, TypeOK, Before, Reading, Establishing
<1>13. CASE \E reason \in Reasons : OpenFails(reason)
  BY <1>13, FailType DEF OpenFails, TypeOK, Before, Reading, Establishing
<1>14. CASE \E reason \in Reasons : AdmissionFails(reason)
  BY <1>14, FailType DEF AdmissionFails, TypeOK, Before, Reading, Establishing
<1>15. CASE \E reason \in Reasons : StoreFails(reason)
  BY <1>15, FailType DEF StoreFails, TypeOK, Before, Reading, Establishing
<1>16. CASE ConnectOk
  BY <1>16 DEF ConnectOk, Goto, TypeOK, Before, Reading, Establishing
<1>17. CASE NegotiateOk
  BY <1>17 DEF NegotiateOk, Goto, TypeOK, Before, Reading, Establishing
<1>18. CASE ProviderEnds
  BY <1>18, PipeType DEF ProviderEnds, TypeOK, Before, Reading, Establishing
<1>19. CASE \E a \in Attempts : UpstreamErrors(a)
  BY <1>19, FinishType, DiesType DEF UpstreamErrors, TypeOK, Before, Reading, Establishing
<1>20. CASE Greeted
  BY <1>20 DEF Greeted, Goto, Activity, TypeOK, Before, Reading, Establishing
<1>21. CASE RequestRead
  BY <1>21, RefuseType DEF RequestRead, Goto, BeginBudget, TypeOK, Before, Reading, Establishing
<1>22. CASE ClientLeaves
  BY <1>22, ClosesType DEF ClientLeaves, TypeOK, Before, Reading, Establishing
<1>23. CASE ClientResets
  BY <1>23, FinishType, DiesType DEF ClientResets, Heard, TypeOK, Before, Reading, Establishing
<1>24. CASE ClientCloses
  BY <1>24, ClosesType DEF ClientCloses, TypeOK, Before, Reading, Establishing
<1>25. CASE Terminated
  BY <1>25, FinishType DEF Terminated, TypeOK, Before, Reading, Establishing
<1>26. CASE BudgetExpires
  BY <1>26 DEF BudgetExpires, Abort, TypeOK, Before, Reading, Establishing
<1>27. CASE ConnectTimeout
  BY <1>27, FailType DEF ConnectTimeout, OpenFails, Reasons, TypeOK, Before, Reading, Establishing
<1>28. CASE ClientTimeout
  BY <1>28, ClosesType DEF ClientTimeout, TypeOK, Before, Reading, Establishing
<1>29. CASE Tick
  BY <1>29 DEF Tick, TypeOK, Before, Reading, Establishing
<1>30. CASE UNCHANGED vars
  BY <1>30 DEF vars, TypeOK, Before, Reading, Establishing
<1>31. QED
  BY <1>1, <1>2, <1>3, <1>4, <1>5, <1>6, <1>7, <1>8, <1>9, <1>10, <1>11, <1>12, <1>13,
     <1>14, <1>15, <1>16, <1>17, <1>18, <1>19, <1>20, <1>21, <1>22, <1>23, <1>24, <1>25,
     <1>26, <1>27, <1>28, <1>29, <1>30 DEF Next, Handler, Provider, Client, Timers

\* The handler, its timers, the sockets and the books of establishTunnel keep their
\* shapes: in particular no attempt is begun beyond maxAttempts.
THEOREM TunnelTypes == Spec => []TypeOK
BY TypeInit, TypeStep, PTL DEF Spec

----------------------------------------------------------------------------
(* Accounting and commitment.                                                *)

\* A tunnel is finished only after its commitment.
FinishedLate == finished => pc \in {"committed", "crashed"}

\* Before the end of an operation nothing final was said.
SilentBefore == pc \in Before => replies = <<>>

\* Attempts that were not made hold no lease, neither does one that is not
\* resolved; one that failed without a candidate left its lease to the TTL or
\* never had one.
LeasesKnown ==
    /\ \A a \in Attempts : a > attempt => ~lease[a]
    /\ pc \in Reading \cup {"authenticating", "validating", "resolving"} => ~lease[attempt]
    /\ pc \in {"connecting", "negotiating"} \cup Opened => up[attempt] # "none"
    /\ pc = "failing" /\ up[attempt] = "none" /\ lease[attempt] => attempt \in lost

TunnelInv ==
    /\ TypeOK /\ FinishedLate /\ SilentBefore /\ LeasesKnown
    /\ ExactlyOneRecord /\ CommitIsFinal /\ LeasesSettled

\* A refusal is the first and only reply.
LEMMA RefusesOnce ==
    ASSUME replies = <<>>, NEW label, Refuse(label)
    PROVE  /\ pc' = label /\ UNCHANGED <<attempt, err>>
           /\ Len(replies') <= 1 /\ replies' # <<"established">>
<1>1. replies' = <<>> \/ replies' = <<"refused">>
  BY DEF Refuse, Reply
<1>2. CASE replies' = <<>>
  BY <1>2 DEF Refuse, Goto
<1>3. CASE replies' = <<"refused">>
  <2>1. Len(replies') = 1 /\ replies'[1] # "established"
    BY <1>3
  <2>2. QED
    BY <2>1 DEF Refuse, Goto
<1>4. QED
  BY <1>1, <1>2, <1>3

\* The invariant holds of an accepted connection.
LEMMA TunnelInvInit == Init => TunnelInv
BY TypeInit, TunnelConstants DEF Init, TunnelInv, FinishedLate, SilentBefore, LeasesKnown,
   ExactlyOneRecord, CommitIsFinal, LeasesSettled, Attempts, Reading, Opened

\* Every action keeps the invariant.
LEMMA TunnelInvStep == TunnelInv /\ [Next]_vars => TunnelInv'
<1> SUFFICES ASSUME TunnelInv, [Next]_vars PROVE (FinishedLate /\ SilentBefore /\ LeasesKnown
    /\ ExactlyOneRecord /\ CommitIsFinal /\ LeasesSettled)'
  BY TypeStep DEF TunnelInv
<1>0. TypeOK' /\ Attempts \subseteq Nat
  BY TypeStep, TunnelConstants DEF TunnelInv, Attempts
<1> USE <1>0 DEF handler, clock, books, TunnelInv, FinishedLate, SilentBefore, LeasesKnown,
     ExactlyOneRecord, CommitIsFinal, LeasesSettled, TypeOK, Before, Reading, Establishing,
     Opened, Live
<1>1. CASE Authenticated
  <2>1. CASE kind.client = "socks5"
    BY <1>1, <2>1 DEF Authenticated, Goto
  <2>2. CASE kind.client # "socks5" /\ DeadlinePassed
    BY <1>1, <2>2, RefusesOnce DEF Authenticated
  <2>3. CASE kind.client # "socks5" /\ ~DeadlinePassed
    BY <1>1, <2>3 DEF Authenticated, Goto
  <2>4. QED
    BY <2>1, <2>2, <2>3
<1>2. CASE HandshakeEnds
  BY <1>2 DEF HandshakeEnds, Goto
<1>3. CASE Validated
  BY <1>3 DEF Validated, Goto
<1>4. CASE ValidationFails
  BY <1>4 DEF ValidationFails, Refuse, Goto, Reply
<1>5. CASE ResolveOk
  BY <1>5 DEF ResolveOk, Goto
<1>6. CASE AbortObserved
  BY <1>6 DEF AbortObserved, AbortStops, Refuse, Goto, Reply, Fail
<1>7. CASE SuccessRecorded
  <2>1. CASE Fail("fatal", "closed") /\ UNCHANGED books
    BY <1>7, <2>1 DEF SuccessRecorded, Fail
  <2>2. CASE Goto("admitting") /\ UNCHANGED <<kind, clock, signal, client, up, finished, replies>>
                /\ UNCHANGED books
    BY <1>7, <2>2 DEF SuccessRecorded, Goto
  <2>3. QED
    BY <1>7, <2>1, <2>2 DEF SuccessRecorded
<1>8. CASE Admitted
  BY <1>8 DEF Admitted, Goto
<1>9. CASE Commit
  BY <1>9 DEF Commit, Goto, Reply, PipeEnds, Finish, RemoveLease, Record
<1>10. CASE Settle
  <2>1. CASE Retry /\ ~DeadlinePassed
    BY <1>10, <2>1 DEF Settle, Release, RemoveLease, Record
  <2>2. CASE ~(Retry /\ ~DeadlinePassed)
    BY <1>10, <2>2, RefusesOnce DEF Settle, Release, RemoveLease, Record
  <2>3. QED
    BY <2>1, <2>2
<1>11. CASE HandshakeRefused
  BY <1>11 DEF HandshakeRefused, Goto, Reply
<1>12. CASE \E reason \in Reasons, left \in BOOLEAN : ResolveFails(reason, left)
  BY <1>12 DEF ResolveFails, Fail
<1>13. CASE \E reason \in Reasons : OpenFails(reason)
  BY <1>13 DEF OpenFails, Fail
<1>14. CASE \E reason \in Reasons : AdmissionFails(reason)
  BY <1>14 DEF AdmissionFails, Fail
<1>15. CASE \E reason \in Reasons : StoreFails(reason)
  BY <1>15 DEF StoreFails, Fail
<1>16. CASE ConnectOk
  BY <1>16 DEF ConnectOk, Goto
<1>17. CASE NegotiateOk
  BY <1>17 DEF NegotiateOk, Goto
<1>18. CASE ProviderEnds
  BY <1>18 DEF ProviderEnds, PipeEnds, Finish, RemoveLease, Record
<1>19. CASE \E a \in Attempts : UpstreamErrors(a)
  BY <1>19 DEF UpstreamErrors, Finish, RemoveLease, Record, TaskDies
<1>20. CASE Greeted
  BY <1>20 DEF Greeted, Goto
<1>21. CASE RequestRead
  <2>1. CASE DeadlinePassed
    BY <1>21, <2>1, RefusesOnce DEF RequestRead
  <2>2. CASE ~DeadlinePassed
    BY <1>21, <2>2 DEF RequestRead, Goto
  <2>3. QED
    BY <2>1, <2>2
<1>22. CASE ClientLeaves
  BY <1>22 DEF ClientLeaves, Closes, Abort, Heard, Finish, RemoveLease, Record
<1>23. CASE ClientResets
  BY <1>23 DEF ClientResets, Heard, TaskDies, Finish, RemoveLease, Record
<1>24. CASE ClientCloses
  BY <1>24 DEF ClientCloses, Closes, Abort, Heard, Finish, RemoveLease, Record
<1>25. CASE Terminated
  BY <1>25 DEF Terminated, Finish, RemoveLease, Record
<1>26. CASE BudgetExpires
  BY <1>26 DEF BudgetExpires, Abort
<1>27. CASE ConnectTimeout
  BY <1>27 DEF ConnectTimeout, OpenFails, Fail
<1>28. CASE ClientTimeout
  BY <1>28 DEF ClientTimeout, Closes, Abort, Heard, Finish, RemoveLease, Record
<1>29. CASE Tick
  BY <1>29 DEF Tick
<1>30. CASE UNCHANGED vars
  BY <1>30 DEF vars
<1>31. QED
  BY <1>1, <1>2, <1>3, <1>4, <1>5, <1>6, <1>7, <1>8, <1>9, <1>10, <1>11, <1>12, <1>13,
     <1>14, <1>15, <1>16, <1>17, <1>18, <1>19, <1>20, <1>21, <1>22, <1>23, <1>24, <1>25,
     <1>26, <1>27, <1>28, <1>29, <1>30 DEF Next, Handler, Provider, Client, Timers

\* The invariant holds in every behaviour.
LEMMA AlwaysTunnelInv == Spec => []TunnelInv
BY TunnelInvInit, TunnelInvStep, PTL DEF Spec

\* The usage of every attempt is recorded exactly once, whatever the sockets, the
\* timers, the store and the tracker do and in whatever order: finishTunnel and the
\* catch block of establishTunnel never both run for an attempt, nor one of them twice.
THEOREM AttemptsRecordedOnce == Spec => []ExactlyOneRecord
<1>1. TunnelInv => ExactlyOneRecord
  BY DEF TunnelInv
<1>2. QED
  BY <1>1, AlwaysTunnelInv, PTL

\* The client of an operation gets at most one final reply, and once that was the
\* acknowledgement of its tunnel, establishTunnel neither retries nor refuses.
THEOREM CommitmentIsFinal == Spec => []CommitIsFinal
<1>1. TunnelInv => CommitIsFinal
  BY DEF TunnelInv
<1>2. QED
  BY <1>1, AlwaysTunnelInv, PTL

\* An operation has one outcome, for the books and for its client.
THEOREM TunnelOneOutcome == Spec => []OneOutcome
BY AttemptsRecordedOnce, CommitmentIsFinal, PTL DEF OneOutcome

\* Every lease that establishTunnel holds for an attempt is given back by
\* releaseCandidate or by the stop callback of the tracker, unless the removal is
\* rejected, resolve() left it behind or the task died.
THEOREM NoLeaseForgotten == Spec => []LeasesSettled
<1>1. TunnelInv => LeasesSettled
  BY DEF TunnelInv
<1>2. QED
  BY <1>1, AlwaysTunnelInv, PTL

----------------------------------------------------------------------------
(* UsageAccounting: abnormal variances.                                      *)

\* A run is a record with the fields of an idle one.
IsRun(t) ==
    t \in [pc : {t.pc}, alone : {t.alone}, totals : {t.totals}, from : {t.from}, to : {t.to},
           snapshot : {t.snapshot}, reconciled : {t.reconciled}, writes : {t.writes}]
RunsTyped ==
    /\ task = [k \in Tasks |-> task[k]]
    /\ \A k \in Tasks : IsRun(task[k])

VarianceInv == RunsTyped /\ NoSilentVariance

\* A task without a run.
LEMMA IdleIsRun ==
    IsRun(Idle) /\ Idle.pc = "idle"
    /\ IsRun([Idle EXCEPT !.pc = "stopped"]) /\ [Idle EXCEPT !.pc = "stopped"].pc = "stopped"
    /\ IsRun([Idle EXCEPT !.pc = "retired"]) /\ [Idle EXCEPT !.pc = "retired"].pc = "retired"
BY DEF IsRun, Idle

\* What changes of a run leaves it one.
LEMMA RunsChange ==
    ASSUME NEW t, IsRun(t), NEW phase, NEW writes, NEW alone
    PROVE  /\ IsRun([t EXCEPT !.pc = phase]) /\ [t EXCEPT !.pc = phase].pc = phase /\ [t EXCEPT !.pc = phase].writes = t.writes
           /\ IsRun([t EXCEPT !.alone = alone]) /\ [t EXCEPT !.alone = alone].pc = t.pc
           /\ [t EXCEPT !.alone = alone].writes = t.writes
           /\ IsRun([t EXCEPT !.writes = writes]) /\ [t EXCEPT !.writes = writes].pc = t.pc
BY DEF IsRun

\* After a write the task owes no alert.
LEMMA WrittenOwesNothing ==
    ASSUME NEW k \in Tasks, RunsTyped
    PROVE  IsRun(Written(k)) /\ Written(k).pc # "alerting"
<1>1. IsRun(task[k])
  BY DEF RunsTyped
<1>2. CASE Len(task[k].writes) = 1
  BY <1>2, IdleIsRun DEF Written, Ended
<1>3. CASE Len(task[k].writes) # 1
  <2>1. PICK t, rest : t = task[k] /\ rest = Tail(task[k].writes)
    OBVIOUS
  <2>2. Written(k) = [t EXCEPT !.pc = "writing", !.writes = rest]
    BY <1>3, <2>1 DEF Written
  <2>3. IsRun(Written(k)) /\ Written(k).pc = "writing"
    BY <1>1, <2>1, <2>2 DEF IsRun
  <2>. QED
    BY <2>3
<1>. QED
  BY <1>2, <1>3

\* A step that writes no reconciliation keeps the property if each alert that was owed still
\* is, or is stored or known to be missing now.
LEMMA StillTold ==
    ASSUME NoSilentVariance, reconciliations' = reconciliations,
           DOMAIN alerts \subseteq DOMAIN alerts', unreported \subseteq unreported',
           \A k \in Tasks : \A id \in Owed(k) :
              id \in Owed(k)' \/ <<"reconciliation", id>> \in DOMAIN alerts' \/ id \in unreported'
    PROVE  NoSilentVariance'
BY DEF NoSilentVariance

\* A variance is told from its adjustment on, whoever goes next.
LEMMA VarianceStep == VarianceInv /\ UsageNext => VarianceInv'
<1>. SUFFICES ASSUME VarianceInv, UsageNext PROVE VarianceInv'
  OBVIOUS
<1>. USE DEF VarianceInv
<1>1. CASE NextInstant
  BY <1>1 DEF NextInstant, store, RunsTyped, NoSilentVariance, Owed
<1>2. ASSUME NEW r \in Traffic, RecordAttempt(r) PROVE VarianceInv'
  BY <1>2 DEF RecordAttempt, RunsTyped, NoSilentVariance, Owed
<1>3. CASE Publish
  BY <1>3 DEF Publish, store, RunsTyped, NoSilentVariance, Owed
<1>4. ASSUME NEW k \in Tasks, Fetch(k) PROVE VarianceInv'
  <2>1. PICK first : first = [Idle EXCEPT !.pc = "capacity", !.totals = published, !.writes = InSequence(SlotPeriods),
                                          !.alone = \A other \in Tasks : ~Running(other)]
    OBVIOUS
  <2>2. IsRun(first) /\ first.pc = "capacity"
    BY <2>1 DEF IsRun, Idle
  <2>3. \A j \in Tasks : task'[j] = IF j = k THEN first ELSE [task[j] EXCEPT !.alone = @ /\ ~Running(j)]
    BY <1>4, <2>1 DEF Fetch
  <2>4. ASSUME NEW j \in Tasks, j # k
        PROVE  IsRun(task'[j]) /\ task'[j].pc = task[j].pc /\ task'[j].writes = task[j].writes
    <3>1. PICK alone : task'[j] = [task[j] EXCEPT !.alone = alone]
      BY <2>3, <2>4
    <3>2. PICK t : t = task[j] /\ IsRun(t)
      BY DEF RunsTyped
    <3>3. PICK u : u = [t EXCEPT !.alone = alone]
      OBVIOUS
    <3>4. IsRun(u) /\ u.pc = t.pc /\ u.writes = t.writes
      BY <3>2, <3>3 DEF IsRun
    <3>5. task'[j] = u
      BY <3>1, <3>2, <3>3
    <3>. QED
      BY <3>2, <3>4, <3>5
  <2>5. RunsTyped'
    BY <1>4, <2>2, <2>3, <2>4 DEF RunsTyped, Fetch
  <2>6. \A j \in Tasks : Owed(j) \subseteq Owed(j)'
    BY <1>4, <2>4 DEF Owed, Fetch
  <2>. QED
    BY <1>4, <2>5, <2>6, StillTold DEF Fetch, store
\* One task moves to what becomes of its record.
<1>5. ASSUME NEW k \in Tasks, NEW t, task' = [task EXCEPT ![k] = t], IsRun(t)
      PROVE  RunsTyped' /\ task'[k] = t /\ \A j \in Tasks \ {k} : Owed(j)' = Owed(j)
  BY <1>5 DEF RunsTyped, Owed
\* What does not start from an alert that is owed changes nothing else.
<1>6. ASSUME NEW k \in Tasks, NEW t, task' = [task EXCEPT ![k] = t], IsRun(t), task[k].pc # "alerting",
             reconciliations' = reconciliations, unreported' = unreported, DOMAIN alerts \subseteq DOMAIN alerts'
      PROVE  VarianceInv'
  <2>1. Owed(k) = {}
    BY <1>6 DEF Owed
  <2>. QED
    BY <1>5, <1>6, <2>1, StillTold
<1>7. ASSUME NEW k \in Tasks, RecordCapacity(k) PROVE VarianceInv'
  <2>1. PICK t : t = [task[k] EXCEPT !.writes = Tail(task[k].writes)]
    OBVIOUS
  <2>2. IsRun(t) /\ task' = [task EXCEPT ![k] = t]
    BY <1>7, <2>1, RunsChange DEF RecordCapacity, RunsTyped
  <2>. QED
    BY <1>6, <1>7, <2>2 DEF RecordCapacity
<1>8. ASSUME NEW k \in Tasks, ListRecords(k) PROVE VarianceInv'
  <2>1. PICK t : t = [task[k] EXCEPT !.pc = "history", !.from = now - Window, !.to = now, !.snapshot = Listed(now - Window, now)]
    OBVIOUS
  <2>2. IsRun(t)
    BY <2>1 DEF IsRun, RunsTyped
  <2>3. task' = [task EXCEPT ![k] = t]
    BY <1>8, <2>1 DEF ListRecords
  <2>. QED
    BY <1>6, <1>8, <2>2, <2>3 DEF ListRecords, store
<1>9. ASSUME NEW k \in Tasks, ListHistory(k) PROVE VarianceInv'
  <2>1. PICK reconciled : task' = [task EXCEPT ![k] = Plan(task[k], reconciled)]
    BY <1>9 DEF ListHistory
  <2>2. PICK writes : Plan(task[k], reconciled) = [task[k] EXCEPT !.pc = "planned", !.reconciled = reconciled, !.writes = writes]
    BY DEF Plan
  <2>3. IsRun(Plan(task[k], reconciled))
    BY <2>2 DEF IsRun, RunsTyped
  <2>. QED
    BY <1>6, <1>9, <2>1, <2>3 DEF ListHistory, store
<1>10. ASSUME NEW k \in Tasks, SaveReconciliation(k) PROVE VarianceInv'
  <2>1. PICK h : h = Head(task[k].writes).value
    OBVIOUS
  <2>2. PICK t : t = IF Alerts(h) THEN [task[k] EXCEPT !.pc = "alerting"] ELSE Written(k)
    OBVIOUS
  <2>3. task[k].pc # "alerting" /\ reconciliations' = PutIfAbsent(reconciliations, h.id, h) /\ task' = [task EXCEPT ![k] = t]
        /\ UNCHANGED <<alerts, unreported>>
    BY <1>10, <2>1, <2>2 DEF SaveReconciliation, Writing
  <2>4. IsRun(t)
    BY <2>2, RunsChange, WrittenOwesNothing DEF RunsTyped
  <2>5. RunsTyped' /\ task'[k] = t /\ \A j \in Tasks : Owed(j) \subseteq Owed(j)'
    BY <1>5, <2>3, <2>4 DEF Owed
  <2>6. /\ DOMAIN reconciliations' = DOMAIN reconciliations \cup {h.id}
        /\ \A id \in DOMAIN reconciliations : reconciliations'[id] = reconciliations[id]
        /\ h.id \notin DOMAIN reconciliations => reconciliations'[h.id] = h
    BY <2>3 DEF PutIfAbsent
  <2>7. CASE Alerts(h)
    <3>1. t = [task[k] EXCEPT !.pc = "alerting"] /\ IsRun(task[k])
      BY <2>2, <2>7 DEF RunsTyped
    <3>2. t.pc = "alerting" /\ t.writes = task[k].writes
      BY <3>1, RunsChange
    <3>3. h.id \in Owed(k)'
      BY <2>1, <2>5, <3>2 DEF Owed
    <3>. QED
      BY <2>3, <2>5, <2>6, <3>3 DEF NoSilentVariance
  <2>8. CASE ~Alerts(h)
    BY <2>3, <2>5, <2>6, <2>8 DEF NoSilentVariance, Alerts
  <2>. QED
    BY <2>7, <2>8
<1>11. ASSUME NEW k \in Tasks, SaveVarianceAlert(k) PROVE VarianceInv'
  <2>1. PICK id : id = Head(task[k].writes).value.id
    OBVIOUS
  <2>2. Owed(k) \subseteq {id}
    BY <2>1 DEF Owed
  <2>3. DOMAIN alerts' = DOMAIN alerts \cup {<<"reconciliation", id>>}
    BY <1>11, <2>1 DEF SaveVarianceAlert, PutIfAbsent
  <2>4. RunsTyped' /\ \A j \in Tasks \ {k} : Owed(j)' = Owed(j)
    BY <1>5, <1>11, WrittenOwesNothing DEF SaveVarianceAlert
  <2>. QED
    BY <1>11, <2>2, <2>3, <2>4, StillTold DEF SaveVarianceAlert
<1>12. ASSUME NEW k \in Tasks, SaveRollups(k) PROVE VarianceInv'
  BY <1>6, <1>12, WrittenOwesNothing DEF SaveRollups, Writing
<1>13. ASSUME NEW k \in Tasks, SaveEvidence(k) PROVE VarianceInv'
  <2>1. PICK t : t = [task[k] EXCEPT !.pc = "recommending"]
    OBVIOUS
  <2>2. IsRun(t) /\ task' = [task EXCEPT ![k] = t]
    BY <1>13, <2>1, RunsChange DEF SaveEvidence, RunsTyped
  <2>. QED
    BY <1>6, <1>13, <2>2 DEF SaveEvidence, Writing
<1>14. ASSUME NEW k \in Tasks, SaveRecommendation(k) PROVE VarianceInv'
  <2>1. DOMAIN alerts \subseteq DOMAIN alerts'
    BY <1>14 DEF SaveRecommendation, PutIfAbsent
  <2>. QED
    BY <1>6, <1>14, <2>1, WrittenOwesNothing DEF SaveRecommendation
\* The alert that the task owed is known to be missing.
<1>15. ASSUME NEW k \in Tasks, Interrupt(k) PROVE VarianceInv'
  <2>1. RunsTyped' /\ \A j \in Tasks \ {k} : Owed(j)' = Owed(j)
    BY <1>5, <1>15, IdleIsRun DEF Interrupt
  <2>. QED
    BY <1>15, <2>1, StillTold DEF Interrupt, store
<1>. QED
  BY <1>1, <1>2, <1>3, <1>4, <1>7, <1>8, <1>9, <1>10, <1>11, <1>12, <1>13, <1>14, <1>15 DEF UsageNext, RunStep

\* No abnormal variance is lost between its adjustment and its event (usage-accounting-worker.ts,
\* run): the event is stored, about to be, or its task is known to have failed in between.
THEOREM VariancesAreTold == UsageSpec => []NoSilentVariance
<1>1. UsageInit => VarianceInv
  BY IdleIsRun DEF UsageInit, VarianceInv, RunsTyped, NoSilentVariance, NoValues
<1>2. VarianceInv /\ UNCHANGED usageVars => VarianceInv'
  BY DEF usageVars, store, VarianceInv, RunsTyped, NoSilentVariance, Owed
<1>3. VarianceInv => NoSilentVariance
  BY DEF VarianceInv
<1>. QED
  BY <1>1, <1>2, <1>3, VarianceStep, PTL DEF UsageSpec

=============================================================================
