-------------------------- MODULE RendezvousProofs --------------------------
(***************************************************************************)
(* Proofs about the two places where processes find each other:            *)
(* DaemonElection, for any sets of adapters and daemons, and               *)
(* ApprovalBroker, for any calls, apps and tool definitions.               *)
(***************************************************************************)
EXTENDS ApprovalBroker, DaemonElection, TLAPS

-----------------------------------------------------------------------------
(* The host daemon.                                                        *)


\* Every step keeps the variables in their types, whatever the environment.
LEMMA ElectionTypeStep == ElectionTypeOK /\ [ElectionNext]_electionVars => ElectionTypeOK'
<1> SUFFICES ASSUME ElectionTypeOK, [ElectionNext]_electionVars PROVE ElectionTypeOK'
  OBVIOUS
<1> USE NilAssumption DEF ElectionTypeOK, dvars, Phases, LockedPhases, DaemonStates, LoopStates, MaxRounds
<1>1. ASSUME NEW a \in Adapters, EnsureStep(a) PROVE ElectionTypeOK'
  <2> USE DEF Return
  <2>1. CASE Observe(a) BY <2>1 DEF Observe
  <2>2. CASE ProbeRead(a) BY <2>2 DEF ProbeRead, ConcludeGone, MoreRounds
  <2>3. CASE ProbeLive(a) BY <2>3 DEF ProbeLive
  <2>4. CASE ProbeGone(a) BY <2>4 DEF ProbeGone, ConcludeGone, MoreRounds
  <2>5. CASE ProbeSilent(a) BY <2>5 DEF ProbeSilent
  <2>6. CASE Elect(a) BY <2>6 DEF Elect
  <2>7. CASE Recheck(a) BY <2>7 DEF Recheck
  <2>8. CASE ClearPointer(a) BY <2>8 DEF ClearPointer
  <2>9. CASE Spawn(a) BY <2>9 DEF Spawn
  <2>10. CASE GiveUp(a) BY <2>10 DEF GiveUp
  <2>11. CASE ReadyTimeout(a) BY <2>11 DEF ReadyTimeout
  <2> QED BY <1>1, <2>1, <2>2, <2>3, <2>4, <2>5, <2>6, <2>7, <2>8, <2>9, <2>10, <2>11
          DEF EnsureStep
<1>2. ASSUME NEW a \in Adapters,
             Launch(a) \/ Leave(a) \/ BeginWork(a) \/ EndWork(a) \/ Recover(a)
      PROVE  ElectionTypeOK'
  <2>1. CASE Launch(a) BY <2>1 DEF Launch
  <2>2. CASE Leave(a) BY <2>2 DEF Leave, Return
  <2>3. CASE BeginWork(a) BY <2>3 DEF BeginWork
  <2>4. CASE EndWork(a) BY <2>4 DEF EndWork
  <2>5. CASE Recover(a) BY <2>5 DEF Recover
  <2> QED BY <1>2, <2>1, <2>2, <2>3, <2>4, <2>5
<1>3. ASSUME NEW d \in Daemons, DaemonStep(d) PROVE ElectionTypeOK'
  BY <1>3 DEF DaemonStep, ClearDead, Publish, Die, WithdrawPointer, Readvertise, ExitIdle,
              ServeLoopEnds, ClearAtEnd, ClearDescriptor, Exit, avars
<1>4. CASE UNCHANGED electionVars BY <1>4 DEF electionVars, avars, dvars
<1> QED BY <1>1, <1>2, <1>3, <1>4 DEF ElectionNext, AdapterStep

\* The type invariant of the rendezvous.
THEOREM ElectionTypeCorrect == ElectionSpec => []ElectionTypeOK
<1>1. ElectionInit => ElectionTypeOK
  <2>1. ElectionInit => strained \in BOOLEAN BY Zenon DEF ElectionInit
  <2> QED BY <2>1, NilAssumption DEF ElectionInit, ElectionTypeOK, Phases, DaemonStates, LoopStates, MaxRounds
<1> QED BY <1>1, ElectionTypeStep, PTL DEF ElectionSpec

-----------------------------------------------------------------------------
\* The lock is held by the adapter inside the election, whatever the environment does.
LEMMA LockStep == ElectionTypeOK /\ LockHeld /\ [ElectionNext]_electionVars => LockHeld'
<1> SUFFICES ASSUME ElectionTypeOK, LockHeld, [ElectionNext]_electionVars PROVE LockHeld'
  OBVIOUS
<1> USE NilAssumption DEF ElectionTypeOK, LockHeld, Phases, LockedPhases, ProbingPhases
<1>1. ASSUME NEW a \in Adapters, EnsureStep(a) PROVE LockHeld'
  <2> USE DEF Return
  <2>1. CASE Observe(a) BY <2>1 DEF Observe
  <2>2. CASE ProbeRead(a) BY <2>2 DEF ProbeRead, ConcludeGone
  <2>3. CASE ProbeLive(a) BY <2>3 DEF ProbeLive
  <2>4. CASE ProbeGone(a) BY <2>4 DEF ProbeGone, ConcludeGone
  <2>5. CASE ProbeSilent(a) BY <2>5 DEF ProbeSilent
  <2>6. CASE Elect(a) BY <2>6 DEF Elect
  <2>7. CASE Recheck(a) BY <2>7 DEF Recheck
  <2>8. CASE ClearPointer(a) BY <2>8 DEF ClearPointer
  <2>9. CASE Spawn(a) BY <2>9 DEF Spawn
  <2>10. CASE GiveUp(a) BY <2>10 DEF GiveUp
  <2>11. CASE ReadyTimeout(a) BY <2>11 DEF ReadyTimeout
  <2> QED BY <1>1, <2>1, <2>2, <2>3, <2>4, <2>5, <2>6, <2>7, <2>8, <2>9, <2>10, <2>11
          DEF EnsureStep
<1>2. ASSUME NEW a \in Adapters,
             Launch(a) \/ Leave(a) \/ BeginWork(a) \/ EndWork(a) \/ Recover(a)
      PROVE  LockHeld'
  BY <1>2 DEF Launch, Leave, Return, BeginWork, EndWork, Recover
<1>3. ASSUME NEW d \in Daemons, DaemonStep(d) PROVE LockHeld'
  BY <1>3 DEF DaemonStep, ClearDead, Publish, Die, WithdrawPointer, Readvertise, ExitIdle,
              ServeLoopEnds, ClearAtEnd, ClearDescriptor, Exit, avars
<1>4. CASE UNCHANGED electionVars BY <1>4 DEF electionVars, avars, dvars
<1> QED BY <1>1, <1>2, <1>3, <1>4 DEF ElectionNext, AdapterStep

\* Whatever starts slowly, is killed or arrives late, the election lock admits one winner.
THEOREM OneWinnerAlways == ElectionSpec => []OneWinner
<1>1. ElectionInit => LockHeld
  BY NilAssumption DEF ElectionInit, LockHeld, LockedPhases
<1>2. ElectionTypeOK /\ LockHeld => OneWinner
  BY DEF ElectionTypeOK, LockHeld, OneWinner
<1> QED BY <1>1, <1>2, LockStep, ElectionTypeCorrect, PTL DEF ElectionSpec

-----------------------------------------------------------------------------
\* Only one adapter is inside the election, and it alone can have a daemon on
\* the way: what the lock buys, as the other proofs use it.
LEMMA LockExcludes ==
  ASSUME ElectionTypeOK, LockHeld, Sound, NEW a \in Adapters, phase[a] \in LockedPhases
  PROVE  /\ \A b \in Adapters : phase[b] \in LockedPhases => b = a
         /\ phase[a] # "ready" => \A d \in Daemons : dstate[d] \notin {"starting", "publishing"}
<1>1. \A b \in Adapters : phase[b] \in LockedPhases => b = a
  BY DEF LockHeld
<1> QED BY <1>1 DEF Sound, StarterWaits, LockedPhases

\* A probe that finds nothing keeps soundness, provided that the
\* one under the lock is right: nothing serves, and the pointer is stale.
LEMMA GoneKeepsSound ==
  ASSUME ElectionTypeOK, LockHeld, Sound, NEW a \in Adapters,
         ConcludeGone(a), UNCHANGED <<desc, busy, dvars>>,
         phase[a] = "under" => /\ \A d \in Daemons : ~DaemonServing(d)
                               /\ desc = Nil \/ Gone(desc)
  PROVE  Sound'
<1> USE NilAssumption DEF ElectionTypeOK, Sound, LockHeld, LocalsMatchPhase, PointersPublished,
                 StarterWaits,
                 WinnerKnows, PointerUnderLock, ServingIsAdvertised, Active, DaemonServing, Gone, dvars, LoopStates, Phases,
                 LockedPhases, ProbingPhases, DaemonStates
<1>1. CASE phase[a] = "under"
  <2>1. /\ phase' = [phase EXCEPT ![a] = "clear"]
        /\ target' = [target EXCEPT ![a] = Nil]
        /\ UNCHANGED <<election, round, seen, result>>
    BY <1>1 DEF ConcludeGone
  <2>2. \A d \in Daemons : ~Active(d) BY <1>1, LockExcludes
  <2> QED BY <1>1, <2>1, <2>2
<1>2. CASE phase[a] \in {"fast", "ready"} BY <1>2 DEF ConcludeGone
<1>3. CASE phase[a] = "after" BY <1>3 DEF ConcludeGone, Return, MoreRounds
<1> QED BY <1>1, <1>2, <1>3 DEF ConcludeGone

\* An adapter's step that loses no race keeps the election sound.
LEMMA AdapterKeepsSound ==
  ASSUME ~strained', ElectionTypeOK, LockHeld, Sound,
         NEW a \in Adapters, AdapterStep(a)
  PROVE  Sound'
<1> USE NilAssumption DEF ElectionTypeOK, Sound, LockHeld, LocalsMatchPhase, PointersPublished,
                 StarterWaits,
                 WinnerKnows, PointerUnderLock, ServingIsAdvertised, Active, DaemonServing, Gone, dvars, LoopStates, Phases, LockedPhases,
                 ProbingPhases, DaemonStates
<1>1. CASE Observe(a) BY <1>1 DEF Observe
<1>2. CASE ProbeRead(a)
  <2>1. CASE desc # Nil BY <1>2, <2>1, LockExcludes DEF ProbeRead
  <2>2. CASE desc = Nil
    <3>1. \A d \in Daemons : ~DaemonServing(d) BY <2>2
    <3>2. ConcludeGone(a) /\ UNCHANGED <<desc, busy, dvars>> BY <1>2, <2>2 DEF ProbeRead
    <3> QED BY <2>2, <3>1, <3>2, GoneKeepsSound
  <2> QED BY <2>1, <2>2
<1>3. CASE ProbeLive(a) BY <1>3 DEF ProbeLive, Return, DaemonListening
<1>4. CASE ProbeGone(a)
  <2>1. target[a] # Nil /\ ~DaemonServing(target[a]) /\ Gone(target[a])
    BY <1>4 DEF ProbeGone, CountsAsGone, DaemonListening
  <2>2. ConcludeGone(a) /\ UNCHANGED <<desc, busy, dvars>> BY <1>4 DEF ProbeGone
  <2>3. phase[a] = "under" => \A d \in Daemons : ~DaemonServing(d) BY <2>1
  <2>4. phase[a] = "under" => desc = Nil \/ Gone(desc)
    BY <2>1
  <2> QED BY <2>2, <2>3, <2>4, GoneKeepsSound
<1>5. CASE ProbeSilent(a) BY <1>5 DEF ProbeSilent, Return
<1>6. CASE Elect(a) BY <1>6 DEF Elect
<1>7. CASE Recheck(a) BY <1>7 DEF Recheck
<1>8. CASE ClearPointer(a) BY <1>8 DEF ClearPointer
<1>9. CASE Spawn(a) BY <1>9, LockExcludes DEF Spawn
<1>10. CASE GiveUp(a) BY <1>10 DEF GiveUp, Return
<1>11. CASE ReadyTimeout(a)
  <2>1. ~Pending(a) BY <1>11, Zenon DEF ReadyTimeout
  <2>2. phase[a] = "ready" /\ Return(a, "failed", Nil) /\ UNCHANGED <<desc, busy, dvars>>
    BY <1>11, Zenon DEF ReadyTimeout
  <2> QED BY <2>1, <2>2 DEF Pending, Return
<1>12. CASE Launch(a) BY <1>12 DEF Launch
<1>13. CASE Leave(a)
  <2>1. ~Pending(a) BY <1>13, Zenon DEF Leave
  <2>2. /\ Return(a, "idle", Nil)
        /\ busy' = [busy EXCEPT ![a] = FALSE] /\ UNCHANGED <<desc, dvars>>
    BY <1>13, Zenon DEF Leave
  <2> QED BY <2>1, <2>2 DEF Pending, Return
<1>14. CASE BeginWork(a)
  <2>1. dstate[result[a]] # "withdrawn" BY <1>14, Zenon DEF BeginWork
  <2>2. /\ phase[a] = "done" /\ busy' = [busy EXCEPT ![a] = TRUE]
        /\ UNCHANGED <<desc, election, phase, round, seen, target, result, dvars>>
    BY <1>14, Zenon DEF BeginWork
  <2> QED BY <2>1, <2>2
<1>15. CASE EndWork(a) BY <1>15 DEF EndWork
<1>16. CASE Recover(a) BY <1>16 DEF Recover
<1> QED BY <1>1, <1>2, <1>3, <1>4, <1>5, <1>6, <1>7, <1>8, <1>9, <1>10, <1>11, <1>12,
           <1>13, <1>14, <1>15, <1>16 DEF AdapterStep, EnsureStep

\* ... and every step of a daemon.
LEMMA DaemonKeepsSound ==
  ASSUME ~strained', ElectionTypeOK, LockHeld, Sound,
         NEW d \in Daemons, DaemonStep(d)
  PROVE  Sound'
<1> USE NilAssumption DEF ElectionTypeOK, Sound, LockHeld, LocalsMatchPhase, PointersPublished,
                 StarterWaits,
                 WinnerKnows, PointerUnderLock, ServingIsAdvertised, Active, DaemonServing, Gone, dvars, LoopStates, Phases, LockedPhases,
                 ProbingPhases, DaemonStates, avars
<1>1. CASE ClearDead(d) BY <1>1 DEF ClearDead
<1>2. CASE Publish(d) BY <1>2, LockExcludes DEF Publish
<1>3. CASE Die(d) BY <1>3 DEF Die, Exit
<1>4. CASE WithdrawPointer(d)
  <2>1. desc' \in {Nil, desc} /\ (desc' # desc /\ desc \in Daemons \ {d} => ~DaemonServing(desc))
    BY <1>4 DEF WithdrawPointer, ClearDescriptor
  <2>2. /\ dstate[d] = "serving" /\ ~HasWork(d)
        /\ dstate' = [dstate EXCEPT ![d] = "withdrawn"] /\ UNCHANGED <<avars, loop>>
    BY <1>4, Zenon DEF WithdrawPointer
  <2> QED BY <2>1, <2>2 DEF HasWork
<1>5. CASE Readvertise(d) BY <1>5 DEF Readvertise, HasWork
<1>6. CASE ExitIdle(d) BY <1>6 DEF ExitIdle, Exit, HasWork
<1>7. CASE ServeLoopEnds(d) BY <1>7 DEF ServeLoopEnds, DaemonListening
<1>8. CASE ClearAtEnd(d)
  <2>1. desc' \in {Nil, desc} /\ (desc' # desc /\ desc \in Daemons \ {d} => ~DaemonServing(desc))
    BY <1>8 DEF ClearAtEnd, ClearDescriptor
  <2>2. /\ dstate[d] \in {"serving", "withdrawn"} /\ loop[d] = "ended"
        /\ Exit(d) /\ UNCHANGED avars
    BY <1>8, Zenon DEF ClearAtEnd
  <2> QED BY <2>1, <2>2 DEF Exit
<1> QED BY <1>1, <1>2, <1>3, <1>4, <1>5, <1>6, <1>7, <1>8 DEF DaemonStep

\* A sound election is why two active daemons are one: a starting daemon has
\* the lock holder waiting for it, which knows of no other, and two serving
\* ones are both named by the one descriptor.
LEMMA SoundGivesOneActive == ElectionTypeOK /\ ElectionInv => OneActiveDaemon
  BY DEF ElectionTypeOK, ElectionInv, Sound, OneActiveDaemon, StarterWaits, WinnerKnows,
         ServingIsAdvertised, Active, DaemonServing, Gone

\* The election is sound until one of the three races is lost.
THEOREM ElectionInvariant == ElectionSpec => []ElectionInv
<1>1. ElectionInit => ElectionInv
  BY NilAssumption DEF ElectionInit, ElectionInv, Sound, LockHeld, LocalsMatchPhase, PointersPublished,
     StarterWaits, WinnerKnows, PointerUnderLock, ServingIsAdvertised, Active, DaemonServing, Gone, dvars, LoopStates, LockedPhases
<1>2. ElectionTypeOK /\ ElectionTypeOK' /\ ElectionInv /\ [ElectionNext]_electionVars => ElectionInv'
  <2> SUFFICES ASSUME ElectionTypeOK, ElectionTypeOK', ElectionInv, [ElectionNext]_electionVars PROVE ElectionInv'
    OBVIOUS
  <2>1. LockHeld' BY LockStep DEF ElectionInv
  <2>2. strained => strained'
    BY DEF ElectionTypeOK, ElectionNext, AdapterStep, EnsureStep, DaemonStep, Observe, ProbeRead, ProbeLive,
           ProbeGone, ProbeSilent, Elect, Recheck, ClearPointer, Spawn, GiveUp, ReadyTimeout,
           Launch, Leave, BeginWork, EndWork, Recover, ClearDead, Publish, Die, WithdrawPointer,
           ClearDescriptor, Readvertise, ExitIdle, ServeLoopEnds, ClearAtEnd, electionVars
  <2>3. ASSUME ~strained' PROVE Sound'
    <3>1. Sound BY <2>2, <2>3 DEF ElectionInv
    <3>2. CASE UNCHANGED electionVars
      BY <3>1, <3>2 DEF electionVars, avars, dvars, Sound, LocalsMatchPhase, PointersPublished, StarterWaits,
         WinnerKnows, PointerUnderLock, ServingIsAdvertised, Active, DaemonServing, Gone
    <3> QED BY <2>3, <3>1, <3>2, AdapterKeepsSound, DaemonKeepsSound DEF ElectionNext, ElectionInv
  <2> QED BY <2>1, <2>3 DEF ElectionInv
<1> QED BY <1>1, <1>2, ElectionTypeCorrect, PTL DEF ElectionSpec

\* For any number of adapters and daemons: two daemons are starting or serving
\* at once only after an adapter stopped waiting for one on its way, a request
\* reached one between its withdrawal and its exit, or one whose serve loop had
\* ended took its successor's pointer.
THEOREM OneDaemon == ElectionSpec => []OneActiveDaemon
  BY ElectionInvariant, ElectionTypeCorrect, SoundGivesOneActive, PTL

\* Until one of these three races is lost no step takes the pointer away from
\* a daemon that goes on serving.
THEOREM PointersSafe == ElectionSpec => OnlyStalePointersGo
<1>1. ElectionInv' /\ [ElectionNext]_electionVars
        => [\A d \in Daemons : desc = d /\ desc' # d /\ ~strained' => ~DaemonServing(d)']_electionVars
  BY DEF ElectionInv, Sound, ServingIsAdvertised
<1> QED BY <1>1, ElectionInvariant, PTL DEF ElectionSpec, OnlyStalePointersGo

-----------------------------------------------------------------------------
(* The approval broker.  The inductive invariant is built up in layers:    *)
(* types and IdleIsClean, then the consent behind an approval, then who    *)
(* owns the lock, then what the broker's side of a connection can look     *)
(* like, and last how often a person has been asked.  Each layer has one   *)
(* step per action.                                                        *)


\* Every step keeps the variables in their types; what an approval is about
\* is a real definition because the gate captured it (IdleIsClean).
LEMMA TypeStep ==
  ASSUME TypeOK, IdleIsClean, [Next]_vars PROVE TypeOK'
<1> USE NoneAssumption DEF TypeOK, IdleIsClean, MaxAttempts, Answers, appVars, allowVars, gateVars, brokerVars, toolVars, histVars
<1>1. ASSUME NEW i \in Apps, AppStep(i) PROVE TypeOK'
  <2>1. CASE AppCheck(i) BY <2>1 DEF AppCheck, Listening
  <2>2. CASE AppLock(i) BY <2>2 DEF AppLock, OwnerFree
  <2>3. CASE AppPublish(i) BY <2>3 DEF AppPublish
  <2>4. CASE AppClear(i) BY <2>4 DEF AppClear, OwnsEndpoint
  <2>5. CASE AppEnd(i) BY <2>5 DEF AppEnd, Serving, Listening
  <2> QED BY <1>1, <2>1, <2>2, <2>3, <2>4, <2>5 DEF AppStep
<1>2. ASSUME NEW c \in Calls, CallStep(c) PROVE TypeOK'
  <2>1. CASE Gate(c) BY <2>1 DEF Gate
  <2>2. CASE Dial(c) BY <2>2 DEF Dial
  <2>3. CASE DialFails(c) BY <2>3 DEF DialFails, Unreachable, CanRetry, Refuse
  <2>4. CASE Send(c) BY <2>4 DEF Send
  <2>5. CASE SendFails(c) BY <2>5 DEF SendFails, Unreachable, CanRetry, Refuse
  <2>6. CASE ReadReply(c) BY <2>6 DEF ReadReply, Refuse
  <2>7. CASE ReadEnds(c) BY <2>7 DEF ReadEnds, Unreachable, CanRetry, Refuse
  <2>8. CASE GatewayTimeout(c) BY <2>8 DEF GatewayTimeout, Refuse
  <2>9. CASE Cancel(c) BY <2>9 DEF Cancel
  <2>10. CASE Withdraw(c) BY <2>10 DEF Withdraw, Refuse
  <2>11. CASE Revalidate(c) BY <2>11 DEF Revalidate, Refuse, StillApproved
  <2>12. CASE AutoApprove(c) BY <2>12 DEF AutoApprove, Write
  <2>13. CASE DenyAtOnce(c) BY <2>13 DEF DenyAtOnce, NeedsPerson, Write
  <2>14. CASE Park(c) BY <2>14 DEF Park, NeedsPerson
  <2>15. CASE Hangup(c) BY <2>15 DEF Hangup
  <2>16. CASE Deliver(c) BY <2>16 DEF Deliver
  <2>17. CASE Wake(c) BY <2>17 DEF Wake, OnDeadline
  <2>18. CASE Answer(c) BY <2>18 DEF Answer, Write
  <2>19. CASE WatcherStep(c) BY <2>19 DEF WatcherStep, WatcherEnds, GatewayGone
  <2>20. CASE \E d \in {"approved", "denied"} : Decide(c, d) BY <2>20 DEF Decide
  <2> QED BY <1>2, <2>1, <2>2, <2>3, <2>4, <2>5, <2>6, <2>7, <2>8, <2>9, <2>10, <2>11, <2>12, <2>13, <2>14, <2>15, <2>16, <2>17, <2>18, <2>19, <2>20 DEF CallStep, GatewayStep, HandlerStep, PersonStep
<1>3. CASE \E d \in Defs : Revoke(d) BY <1>3 DEF Revoke
<1>4. CASE ToolChanges BY <1>4 DEF ToolChanges
<1>5. CASE UNCHANGED vars BY <1>5 DEF vars
<1> QED BY <1>1, <1>2, <1>3, <1>4, <1>5 DEF Next

\* Nothing happens to a call before its gate.
LEMMA IdleStep ==
  ASSUME TypeOK, IdleIsClean, [Next]_vars PROVE IdleIsClean'
<1> USE NoneAssumption DEF TypeOK, IdleIsClean, Answers, appVars, allowVars, gateVars, brokerVars, toolVars, histVars
<1>1. ASSUME NEW i \in Apps, AppStep(i) PROVE IdleIsClean'
  <2>1. CASE AppCheck(i) BY <2>1 DEF AppCheck, Listening
  <2>2. CASE AppLock(i) BY <2>2 DEF AppLock, OwnerFree
  <2>3. CASE AppPublish(i) BY <2>3 DEF AppPublish
  <2>4. CASE AppClear(i) BY <2>4 DEF AppClear, OwnsEndpoint
  <2>5. CASE AppEnd(i) BY <2>5 DEF AppEnd, Serving, Listening
  <2> QED BY <1>1, <2>1, <2>2, <2>3, <2>4, <2>5 DEF AppStep
<1>2. ASSUME NEW c \in Calls, CallStep(c) PROVE IdleIsClean'
  <2>1. CASE Gate(c) BY <2>1 DEF Gate
  <2>2. CASE Dial(c) BY <2>2 DEF Dial
  <2>3. CASE DialFails(c) BY <2>3 DEF DialFails, Unreachable, CanRetry, Refuse
  <2>4. CASE Send(c) BY <2>4 DEF Send
  <2>5. CASE SendFails(c) BY <2>5 DEF SendFails, Unreachable, CanRetry, Refuse
  <2>6. CASE ReadReply(c) BY <2>6 DEF ReadReply, Refuse
  <2>7. CASE ReadEnds(c) BY <2>7 DEF ReadEnds, Unreachable, CanRetry, Refuse
  <2>8. CASE GatewayTimeout(c) BY <2>8 DEF GatewayTimeout, Refuse
  <2>9. CASE Cancel(c) BY <2>9 DEF Cancel
  <2>10. CASE Withdraw(c) BY <2>10 DEF Withdraw, Refuse
  <2>11. CASE Revalidate(c) BY <2>11 DEF Revalidate, Refuse, StillApproved
  <2>12. CASE AutoApprove(c) BY <2>12 DEF AutoApprove, Write
  <2>13. CASE DenyAtOnce(c) BY <2>13 DEF DenyAtOnce, NeedsPerson, Write
  <2>14. CASE Park(c) BY <2>14 DEF Park, NeedsPerson
  <2>15. CASE Hangup(c) BY <2>15 DEF Hangup
  <2>16. CASE Deliver(c) BY <2>16 DEF Deliver
  <2>17. CASE Wake(c) BY <2>17 DEF Wake, OnDeadline
  <2>18. CASE Answer(c) BY <2>18 DEF Answer, Write
  <2>19. CASE WatcherStep(c) BY <2>19 DEF WatcherStep, WatcherEnds, GatewayGone
  <2>20. CASE \E d \in {"approved", "denied"} : Decide(c, d) BY <2>20 DEF Decide
  <2> QED BY <1>2, <2>1, <2>2, <2>3, <2>4, <2>5, <2>6, <2>7, <2>8, <2>9, <2>10, <2>11, <2>12, <2>13, <2>14, <2>15, <2>16, <2>17, <2>18, <2>19, <2>20 DEF CallStep, GatewayStep, HandlerStep, PersonStep
<1>3. CASE \E d \in Defs : Revoke(d) BY <1>3 DEF Revoke
<1>4. CASE ToolChanges BY <1>4 DEF ToolChanges
<1>5. CASE UNCHANGED vars BY <1>5 DEF vars
<1> QED BY <1>1, <1>2, <1>3, <1>4, <1>5 DEF Next

\* No step puts an approval anywhere without its consent.
LEMMA ConsentStep ==
  ASSUME TypeOK, IdleIsClean, ConsentInv, [Next]_vars PROVE ConsentInv'
<1> USE NoneAssumption DEF TypeOK, IdleIsClean, ConsentInv, Answers, appVars, allowVars, gateVars, brokerVars, toolVars, histVars
<1>1. ASSUME NEW i \in Apps, AppStep(i) PROVE ConsentInv'
  <2>1. CASE AppCheck(i) BY <2>1 DEF AppCheck, Listening
  <2>2. CASE AppLock(i) BY <2>2 DEF AppLock, OwnerFree
  <2>3. CASE AppPublish(i) BY <2>3 DEF AppPublish
  <2>4. CASE AppClear(i) BY <2>4 DEF AppClear, OwnsEndpoint
  <2>5. CASE AppEnd(i) BY <2>5 DEF AppEnd, Serving, Listening
  <2> QED BY <1>1, <2>1, <2>2, <2>3, <2>4, <2>5 DEF AppStep
<1>2. ASSUME NEW c \in Calls, CallStep(c) PROVE ConsentInv'
  <2>1. CASE Gate(c) BY <2>1 DEF Gate
  <2>2. CASE Dial(c) BY <2>2 DEF Dial
  <2>3. CASE DialFails(c) BY <2>3 DEF DialFails, Unreachable, CanRetry, Refuse
  <2>4. CASE Send(c) BY <2>4 DEF Send
  <2>5. CASE SendFails(c) BY <2>5 DEF SendFails, Unreachable, CanRetry, Refuse
  <2>6. CASE ReadReply(c) BY <2>6 DEF ReadReply, Refuse
  <2>7. CASE ReadEnds(c) BY <2>7 DEF ReadEnds, Unreachable, CanRetry, Refuse
  <2>8. CASE GatewayTimeout(c) BY <2>8 DEF GatewayTimeout, Refuse
  <2>9. CASE Cancel(c) BY <2>9 DEF Cancel
  <2>10. CASE Withdraw(c) BY <2>10 DEF Withdraw, Refuse
  <2>11. CASE Revalidate(c) BY <2>11 DEF Revalidate, Refuse, StillApproved
  <2>12. CASE AutoApprove(c) BY <2>12 DEF AutoApprove, Write
  <2>13. CASE DenyAtOnce(c) BY <2>13 DEF DenyAtOnce, NeedsPerson, Write
  <2>14. CASE Park(c) BY <2>14 DEF Park, NeedsPerson
  <2>15. CASE Hangup(c) BY <2>15 DEF Hangup
  <2>16. CASE Deliver(c) BY <2>16 DEF Deliver
  <2>17. CASE Wake(c) BY <2>17 DEF Wake, OnDeadline
  <2>18. CASE Answer(c) BY <2>18 DEF Answer, Write
  <2>19. CASE WatcherStep(c) BY <2>19 DEF WatcherStep, WatcherEnds, GatewayGone
  <2>20. CASE \E d \in {"approved", "denied"} : Decide(c, d) BY <2>20 DEF Decide
  <2> QED BY <1>2, <2>1, <2>2, <2>3, <2>4, <2>5, <2>6, <2>7, <2>8, <2>9, <2>10, <2>11, <2>12, <2>13, <2>14, <2>15, <2>16, <2>17, <2>18, <2>19, <2>20 DEF CallStep, GatewayStep, HandlerStep, PersonStep
<1>3. CASE \E d \in Defs : Revoke(d) BY <1>3 DEF Revoke
<1>4. CASE ToolChanges BY <1>4 DEF ToolChanges
<1>5. CASE UNCHANGED vars BY <1>5 DEF vars
<1> QED BY <1>1, <1>2, <1>3, <1>4, <1>5 DEF Next


\* Only the apps' own steps touch the lock, the descriptor and the apps.
LEMMA CallsLeaveApps ==
  ASSUME NEW c \in Calls, CallStep(c) PROVE UNCHANGED <<app, owner, endpoint>>
  BY DEF CallStep, GatewayStep, HandlerStep, WatcherStep, PersonStep, appVars, Gate, Dial, DialFails, Send,
     SendFails, ReadReply, ReadEnds, GatewayTimeout, Cancel, Withdraw, Revalidate, AutoApprove, DenyAtOnce,
     Park, Hangup, Deliver, Wake, Answer, WatcherEnds, Decide

\* The owner lock is taken before an app listens and held until it ends.
LEMMA OwnerStep ==
  ASSUME TypeOK, OwnerInv, [Next]_vars PROVE OwnerInv'
<1> USE NoneAssumption DEF TypeOK, OwnerInv
<1>1. ASSUME NEW i \in Apps, AppStep(i) PROVE OwnerInv'
  <2>1. CASE AppCheck(i) BY <2>1 DEF AppCheck, Listening
  <2>2. CASE AppLock(i) BY <2>2 DEF AppLock, OwnerFree
  <2>3. CASE AppPublish(i) BY <2>3 DEF AppPublish
  <2>4. CASE AppClear(i) BY <2>4 DEF AppClear, OwnsEndpoint
  <2>5. CASE AppEnd(i) BY <2>5 DEF AppEnd
  <2> QED BY <1>1, <2>1, <2>2, <2>3, <2>4, <2>5 DEF AppStep
<1>2. CASE \E c \in Calls : CallStep(c) BY <1>2, CallsLeaveApps
<1>3. CASE \E d \in Defs : Revoke(d) BY <1>3 DEF Revoke, appVars
<1>4. CASE ToolChanges BY <1>4 DEF ToolChanges, appVars
<1>5. CASE UNCHANGED vars BY <1>5 DEF vars, appVars
<1> QED BY <1>1, <1>2, <1>3, <1>4, <1>5 DEF Next

\* A live owner's descriptor is left alone: a second app is stopped by the
\* lock before it publishes, and on its way out by the ownership check.
LEMMA EndpointStep ==
  ASSUME TypeOK, OwnerInv, [Next]_vars,
         NEW j \in Apps, endpoint = j, app[j] = "live", app'[j] = "live"
  PROVE  endpoint' = j
<1> USE NoneAssumption DEF TypeOK, OwnerInv
<1>1. ASSUME NEW i \in Apps, AppStep(i) PROVE endpoint' = j
  <2>1. CASE AppCheck(i) BY <2>1 DEF AppCheck
  <2>2. CASE AppLock(i) BY <2>2 DEF AppLock
  <2>3. CASE AppPublish(i) BY <2>3 DEF AppPublish
  <2>4. CASE AppClear(i) BY <2>4 DEF AppClear, OwnsEndpoint
  <2>5. CASE AppEnd(i) BY <2>5 DEF AppEnd
  <2> QED BY <1>1, <2>1, <2>2, <2>3, <2>4, <2>5 DEF AppStep
<1>2. CASE \E c \in Calls : CallStep(c) BY <1>2, CallsLeaveApps
<1>3. CASE \E d \in Defs : Revoke(d) BY <1>3 DEF Revoke, appVars
<1>4. CASE ToolChanges BY <1>4 DEF ToolChanges, appVars
<1>5. CASE UNCHANGED vars BY <1>5 DEF vars, appVars
<1> QED BY <1>1, <1>2, <1>3, <1>4, <1>5 DEF Next

\* The broker's side of a connection.
LEMMA HandlerStepInv ==
  ASSUME TypeOK, IdleIsClean, OwnerInv, HandlerInv, [Next]_vars PROVE HandlerInv'
<1> USE NoneAssumption DEF TypeOK, IdleIsClean, OwnerInv, HandlerInv, Answers, Busy, Listening, appVars, allowVars, gateVars, brokerVars, toolVars, histVars
<1>1. ASSUME NEW i \in Apps, AppStep(i) PROVE HandlerInv'
  <2>1. CASE AppCheck(i) BY <2>1 DEF AppCheck, Listening
  <2>2. CASE AppLock(i) BY <2>2 DEF AppLock, OwnerFree
  <2>3. CASE AppPublish(i) BY <2>3 DEF AppPublish
  <2>4. CASE AppClear(i) BY <2>4 DEF AppClear, OwnsEndpoint
  <2>5. CASE AppEnd(i) BY <2>5 DEF AppEnd, Serving, Listening
  <2> QED BY <1>1, <2>1, <2>2, <2>3, <2>4, <2>5 DEF AppStep
<1>2. ASSUME NEW c \in Calls, CallStep(c) PROVE HandlerInv'
  <2>1. CASE Gate(c) BY <2>1 DEF Gate
  <2>2. CASE Dial(c) BY <2>2 DEF Dial
  <2>3. CASE DialFails(c) BY <2>3 DEF DialFails, Unreachable, CanRetry, Refuse
  <2>4. CASE Send(c) BY <2>4 DEF Send
  <2>5. CASE SendFails(c) BY <2>5 DEF SendFails, Unreachable, CanRetry, Refuse
  <2>6. CASE ReadReply(c) BY <2>6 DEF ReadReply, Refuse
  <2>7. CASE ReadEnds(c) BY <2>7 DEF ReadEnds, Unreachable, CanRetry, Refuse
  <2>8. CASE GatewayTimeout(c) BY <2>8 DEF GatewayTimeout, Refuse
  <2>9. CASE Cancel(c) BY <2>9 DEF Cancel
  <2>10. CASE Withdraw(c) BY <2>10 DEF Withdraw, Refuse
  <2>11. CASE Revalidate(c) BY <2>11 DEF Revalidate, Refuse, StillApproved
  <2>12. CASE AutoApprove(c) BY <2>12 DEF AutoApprove, Write
  <2>13. CASE DenyAtOnce(c) BY <2>13 DEF DenyAtOnce, NeedsPerson, Write
  <2>14. CASE Park(c) BY <2>14 DEF Park, NeedsPerson
  <2>15. CASE Hangup(c) BY <2>15 DEF Hangup
  <2>16. CASE Deliver(c) BY <2>16 DEF Deliver
  <2>17. CASE Wake(c) BY <2>17 DEF Wake, OnDeadline
  <2>18. CASE Answer(c) BY <2>18 DEF Answer, Write
  <2>19. CASE WatcherStep(c) BY <2>19 DEF WatcherStep, WatcherEnds, GatewayGone
  <2>20. CASE \E d \in {"approved", "denied"} : Decide(c, d) BY <2>20 DEF Decide
  <2> QED BY <1>2, <2>1, <2>2, <2>3, <2>4, <2>5, <2>6, <2>7, <2>8, <2>9, <2>10, <2>11, <2>12, <2>13, <2>14, <2>15, <2>16, <2>17, <2>18, <2>19, <2>20 DEF CallStep, GatewayStep, HandlerStep, PersonStep
<1>3. CASE \E d \in Defs : Revoke(d) BY <1>3 DEF Revoke
<1>4. CASE ToolChanges BY <1>4 DEF ToolChanges
<1>5. CASE UNCHANGED vars BY <1>5 DEF vars
<1> QED BY <1>1, <1>2, <1>3, <1>4, <1>5 DEF Next

\* Nobody is asked twice: a gateway that may dial again has asked nobody.
LEMMA AskStep ==
  ASSUME EndsWhileAsking = FALSE, TypeOK, IdleIsClean, HandlerInv, AskInv, [Next]_vars PROVE AskInv'
<1> USE NoneAssumption DEF TypeOK, IdleIsClean, HandlerInv, AskInv, Answers, Busy, appVars, allowVars, gateVars, brokerVars, toolVars, histVars
<1>1. ASSUME NEW i \in Apps, AppStep(i) PROVE AskInv'
  <2>1. CASE AppCheck(i) BY <2>1 DEF AppCheck, Listening
  <2>2. CASE AppLock(i) BY <2>2 DEF AppLock, OwnerFree
  <2>3. CASE AppPublish(i) BY <2>3 DEF AppPublish
  <2>4. CASE AppClear(i) BY <2>4 DEF AppClear, OwnsEndpoint
  <2>5. CASE AppEnd(i) BY <2>5 DEF AppEnd, Serving, Listening
  <2> QED BY <1>1, <2>1, <2>2, <2>3, <2>4, <2>5 DEF AppStep
<1>2. ASSUME NEW c \in Calls, CallStep(c) PROVE AskInv'
  <2>1. CASE Gate(c) BY <2>1 DEF Gate
  <2>2. CASE Dial(c) BY <2>2 DEF Dial
  <2>3. CASE DialFails(c) BY <2>3 DEF DialFails, Unreachable, CanRetry, Refuse
  <2>4. CASE Send(c) BY <2>4 DEF Send
  <2>5. CASE SendFails(c) BY <2>5 DEF SendFails, Unreachable, CanRetry, Refuse
  <2>6. CASE ReadReply(c) BY <2>6 DEF ReadReply, Refuse
  <2>7. CASE ReadEnds(c) BY <2>7 DEF ReadEnds, Unreachable, CanRetry, Refuse
  <2>8. CASE GatewayTimeout(c) BY <2>8 DEF GatewayTimeout, Refuse
  <2>9. CASE Cancel(c) BY <2>9 DEF Cancel
  <2>10. CASE Withdraw(c) BY <2>10 DEF Withdraw, Refuse
  <2>11. CASE Revalidate(c) BY <2>11 DEF Revalidate, Refuse, StillApproved
  <2>12. CASE AutoApprove(c) BY <2>12 DEF AutoApprove, Write
  <2>13. CASE DenyAtOnce(c) BY <2>13 DEF DenyAtOnce, NeedsPerson, Write
  <2>14. CASE Park(c) BY <2>14 DEF Park, NeedsPerson
  <2>15. CASE Hangup(c) BY <2>15 DEF Hangup
  <2>16. CASE Deliver(c) BY <2>16 DEF Deliver
  <2>17. CASE Wake(c) BY <2>17 DEF Wake, OnDeadline
  <2>18. CASE Answer(c) BY <2>18 DEF Answer, Write
  <2>19. CASE WatcherStep(c) BY <2>19 DEF WatcherStep, WatcherEnds, GatewayGone
  <2>20. CASE \E d \in {"approved", "denied"} : Decide(c, d) BY <2>20 DEF Decide
  <2> QED BY <1>2, <2>1, <2>2, <2>3, <2>4, <2>5, <2>6, <2>7, <2>8, <2>9, <2>10, <2>11, <2>12, <2>13, <2>14, <2>15, <2>16, <2>17, <2>18, <2>19, <2>20 DEF CallStep, GatewayStep, HandlerStep, PersonStep
<1>3. CASE \E d \in Defs : Revoke(d) BY <1>3 DEF Revoke
<1>4. CASE ToolChanges BY <1>4 DEF ToolChanges
<1>5. CASE UNCHANGED vars BY <1>5 DEF vars
<1> QED BY <1>1, <1>2, <1>3, <1>4, <1>5 DEF Next


\* The layers that hold whatever the apps do.
Layers == TypeOK /\ IdleIsClean /\ ConsentInv /\ OwnerInv /\ HandlerInv

LEMMA LayersInvariant == Spec => []Layers
<1>1. Init => Layers
  <2> SUFFICES ASSUME Init PROVE Layers OBVIOUS
  <2> USE NoneAssumption DEF Init, Answers
  <2>1. cancelled \in [Calls -> BOOLEAN] /\ blocked \in BOOLEAN BY Zenon
  <2>2. said \in [Calls -> SUBSET {"approved", "denied"}] /\ consented \in [Calls -> SUBSET Defs] BY Zenon
  <2>3. attempt \in [Calls -> 1..MaxAttempts] BY SMT DEF MaxAttempts
  <2>4. TypeOK BY <2>1, <2>2, <2>3, SMT DEF TypeOK
  <2>5. IdleIsClean /\ ConsentInv /\ OwnerInv BY DEF IdleIsClean, ConsentInv, OwnerInv
  <2>6. HandlerInv BY DEF HandlerInv, Busy
  <2> QED BY <2>4, <2>5, <2>6 DEF Layers
<1>2. Layers /\ [Next]_vars => Layers'
  BY TypeStep, IdleStep, ConsentStep, OwnerStep, HandlerStepInv DEF Layers
<1> QED BY <1>1, <1>2, PTL DEF Spec

\* The model of the approval path is well typed.
THEOREM TypeCorrect == Spec => []TypeOK
<1>1. Layers => TypeOK BY DEF Layers
<1> QED BY <1>1, LayersInvariant, PTL

\* The broker and the gateway never make up an approval.
THEOREM ApprovalsReal == Spec => []ApprovalsAreReal
<1>1. Layers => ApprovalsAreReal BY DEF Layers, ConsentInv, ApprovalsAreReal
<1> QED BY <1>1, LayersInvariant, PTL

\* What runs is what was approved, however the tool changes under the call.
THEOREM RunsApproved == Spec => []RunsWhatWasApproved
<1>1. Layers => RunsWhatWasApproved BY DEF Layers, ConsentInv, RunsWhatWasApproved
<1> QED BY <1>1, LayersInvariant, PTL

\* One broker at a time.
THEOREM BrokerUnique == Spec => []OneBroker
<1>1. Layers => OneBroker BY DEF Layers, OwnerInv, OneBroker, Listening
<1> QED BY <1>1, LayersInvariant, PTL

\* The descriptor of a serving broker survives its neighbours.
THEOREM EndpointSafe == Spec => EndpointKept
<1> DEFINE Kept == \A i \in Apps : endpoint = i /\ app[i] = "live" /\ app'[i] = "live" => endpoint' = i
<1>1. Layers /\ [Next]_vars => [Kept]_vars BY EndpointStep DEF Layers
<1> QED BY <1>1, LayersInvariant, PTL DEF Spec, EndpointKept

\* A card on the screen is served by a running app.
THEOREM CardsLive == Spec => []CardsAreLive
<1>1. Layers => CardsAreLive BY DEF Layers, TypeOK, HandlerInv, CardsAreLive, Busy
<1> QED BY <1>1, LayersInvariant, PTL

\* While no app ends under a prompt, nobody is asked twice and a denial holds.
THEOREM AskedAtMostOnce ==
  ASSUME EndsWhileAsking = FALSE PROVE Spec => []OneAnswer
<1>1. Init => AskInv BY NoneAssumption DEF Init, AskInv, Answers
<1>2. Layers /\ AskInv /\ [Next]_vars => AskInv' BY AskStep DEF Layers
<1>3. AskInv => OneAnswer BY DEF AskInv, OneAnswer, AskedOnce, DeniedNeverRuns
<1> QED BY <1>1, <1>2, <1>3, LayersInvariant, PTL DEF Spec

-----------------------------------------------------------------------------
(* The approval broker implements the abstract gate.                       *)

\* Consent comes after the last dial.
LEMMA VerdictStep ==
  ASSUME EndsWhileAsking = FALSE, TypeOK, IdleIsClean, HandlerInv, AskInv, VerdictInv, [Next]_vars PROVE VerdictInv'
<1> USE NoneAssumption DEF TypeOK, IdleIsClean, HandlerInv, AskInv, VerdictInv, Answers, Busy, appVars, allowVars, gateVars, brokerVars, toolVars, histVars
<1>1. ASSUME NEW i \in Apps, AppStep(i) PROVE VerdictInv'
  <2>1. CASE AppCheck(i) BY <2>1 DEF AppCheck, Listening
  <2>2. CASE AppLock(i) BY <2>2 DEF AppLock, OwnerFree
  <2>3. CASE AppPublish(i) BY <2>3 DEF AppPublish
  <2>4. CASE AppClear(i) BY <2>4 DEF AppClear, OwnsEndpoint
  <2>5. CASE AppEnd(i) BY <2>5 DEF AppEnd, Serving, Listening
  <2> QED BY <1>1, <2>1, <2>2, <2>3, <2>4, <2>5 DEF AppStep
<1>2. ASSUME NEW c \in Calls, CallStep(c) PROVE VerdictInv'
  <2>1. CASE Gate(c) BY <2>1 DEF Gate
  <2>2. CASE Dial(c) BY <2>2 DEF Dial
  <2>3. CASE DialFails(c) BY <2>3 DEF DialFails, Unreachable, CanRetry, Refuse
  <2>4. CASE Send(c) BY <2>4 DEF Send
  <2>5. CASE SendFails(c) BY <2>5 DEF SendFails, Unreachable, CanRetry, Refuse
  <2>6. CASE ReadReply(c) BY <2>6 DEF ReadReply, Refuse
  <2>7. CASE ReadEnds(c) BY <2>7 DEF ReadEnds, Unreachable, CanRetry, Refuse
  <2>8. CASE GatewayTimeout(c) BY <2>8 DEF GatewayTimeout, Refuse
  <2>9. CASE Cancel(c) BY <2>9 DEF Cancel
  <2>10. CASE Withdraw(c) BY <2>10 DEF Withdraw, Refuse
  <2>11. CASE Revalidate(c) BY <2>11 DEF Revalidate, Refuse, StillApproved
  <2>12. CASE AutoApprove(c) BY <2>12 DEF AutoApprove, Write
  <2>13. CASE DenyAtOnce(c) BY <2>13 DEF DenyAtOnce, NeedsPerson, Write
  <2>14. CASE Park(c) BY <2>14 DEF Park, NeedsPerson
  <2>15. CASE Hangup(c) BY <2>15 DEF Hangup
  <2>16. CASE Deliver(c) BY <2>16 DEF Deliver
  <2>17. CASE Wake(c) BY <2>17 DEF Wake, OnDeadline
  <2>18. CASE Answer(c) BY <2>18 DEF Answer, Write
  <2>19. CASE WatcherStep(c) BY <2>19 DEF WatcherStep, WatcherEnds, GatewayGone
  <2>20. CASE \E d \in {"approved", "denied"} : Decide(c, d) BY <2>20 DEF Decide
  <2> QED BY <1>2, <2>1, <2>2, <2>3, <2>4, <2>5, <2>6, <2>7, <2>8, <2>9, <2>10, <2>11, <2>12, <2>13, <2>14, <2>15, <2>16, <2>17, <2>18, <2>19, <2>20 DEF CallStep, GatewayStep, HandlerStep, PersonStep
<1>3. CASE \E d \in Defs : Revoke(d) BY <1>3 DEF Revoke
<1>4. CASE ToolChanges BY <1>4 DEF ToolChanges
<1>5. CASE UNCHANGED vars BY <1>5 DEF vars
<1> QED BY <1>1, <1>2, <1>3, <1>4, <1>5 DEF Next

\* A step that leaves the verdicts, what was captured and what ran alone is none of the gate's.
LEMMA HeldQuiet ==
  ASSUME UNCHANGED <<said, consented, gateDef, ranDef>>,
         \A c \in Calls : (pc'[c] = "idle" <=> pc[c] = "idle") /\ (pc'[c] = "ran" <=> pc[c] = "ran")
  PROVE  UNCHANGED Held!vars
<1>1. Verdict' = Verdict BY DEF Verdict
<1>2. Executed' = Executed BY DEF Executed
<1> QED BY <1>1, <1>2 DEF Held!vars

\* Each step of the path is a step of the gate, or none of its business.
LEMMA HeldStep ==
  ASSUME EndsWhileAsking = FALSE, Layers, AskInv, VerdictInv, [Next]_vars
  PROVE  [Held!Next]_(Held!vars)
<1> USE DEF appVars, allowVars, gateVars, brokerVars, toolVars, histVars
<1>1. pc \in [Calls -> {"idle", "dial", "send", "wait", "approved", "ran", "refused"}]
  BY DEF Layers, TypeOK
<1>2. ASSUME NEW c \in Calls, Gate(c) PROVE Held!Next
  <2>1. pc[c] = "idle" /\ pc' = [pc EXCEPT ![c] = "dial"] /\ gateDef' = [gateDef EXCEPT ![c] = def]
        /\ UNCHANGED <<said, consented, ranDef>> /\ def \in Defs
    BY <1>2 DEF Gate, Layers, TypeOK
  <2>2. said[c] = {} /\ consented[c] = {}
    BY <2>1 DEF AskInv, VerdictInv
  <2>3. Verdict[c] = "unasked"
    BY <2>1, <2>2 DEF Verdict
  <2>4. Verdict' = [q \in Calls |-> IF q = c THEN "asked" ELSE IF q \in {} THEN "lapsed" ELSE Verdict[q]]
    BY <1>1, <2>1, <2>2 DEF Verdict
  <2>5. Executed' = Executed
    BY <1>1, <2>1 DEF Executed
  <2>6. Held!Ask(c, {})
    BY <2>1, <2>3, <2>4, <2>5 DEF Held!Ask
  <2> QED BY <2>6 DEF Held!Next
<1>3. ASSUME NEW c \in Calls, NEW v \in {"yes", "no"}, Verdict[c] = "asked",
             Verdict' = [Verdict EXCEPT ![c] = v], UNCHANGED <<gateDef, pc, ranDef>>
      PROVE  Held!Next
  <2>1. Executed' = Executed
    BY <1>3 DEF Executed
  <2>2. Held!Answer(c)
    BY <1>3, <2>1 DEF Held!Answer
  <2> QED BY <2>2 DEF Held!Next
<1>4. ASSUME NEW c \in Calls, AutoApprove(c) PROVE [Held!Next]_(Held!vars)
  <2>1. /\ handler[c] = "sent" /\ consented' = [consented EXCEPT ![c] = @ \cup {gateDef[c]}]
        /\ UNCHANGED <<pc, gateDef, said, ranDef>> /\ consented \in [Calls -> SUBSET Defs]
    BY <1>4 DEF AutoApprove, Layers, TypeOK
  <2>2. said[c] = {} /\ consented[c] = {} /\ pc[c] # "idle"
    BY <2>1 DEF AskInv, VerdictInv, Layers, IdleIsClean
  <2>3. Verdict[c] = "asked"
    BY <2>2 DEF Verdict
  <2>4. consented'[c] # {} /\ \A q \in Calls : q # c => consented'[q] = consented[q]
    BY <2>1
  <2>5. Verdict' = [Verdict EXCEPT ![c] = "yes"]
    BY <2>1, <2>2, <2>4 DEF Verdict
  <2> QED BY <1>3, <2>1, <2>3, <2>5
<1>5. ASSUME NEW c \in Calls, NEW d \in {"approved", "denied"}, Decide(c, d)
      PROVE  [Held!Next]_(Held!vars)
  <2>1. /\ c \in pending /\ said' = [said EXCEPT ![c] = @ \cup {d}]
        /\ UNCHANGED <<pc, gateDef, consented, ranDef>>
        /\ said \in [Calls -> SUBSET {"approved", "denied"}]
    BY <1>5 DEF Decide, Layers, TypeOK
  <2>2. said[c] = {} /\ consented[c] = {} /\ pc[c] # "idle"
    BY <2>1 DEF AskInv, VerdictInv, Layers, IdleIsClean
  <2>3. Verdict[c] = "asked"
    BY <2>2 DEF Verdict
  <2>4. said'[c] = {d} /\ \A q \in Calls : q # c => said'[q] = said[q]
    BY <2>1, <2>2
  <2>5. Verdict' = [Verdict EXCEPT ![c] = IF d = "approved" THEN "yes" ELSE "no"]
    BY <2>1, <2>2, <2>4 DEF Verdict
  <2> QED BY <1>3, <2>1, <2>3, <2>5
<1>6. ASSUME NEW c \in Calls, Deliver(c) PROVE UNCHANGED Held!vars
  <2>1. /\ UNCHANGED <<pc, gateDef, said, ranDef>> /\ consented \in [Calls -> SUBSET Defs]
        /\ consented' = IF deciding[c] = "approved"
                        THEN [consented EXCEPT ![c] = @ \cup {gateDef[c]}] ELSE consented
    BY <1>6 DEF Deliver, Layers, TypeOK
  <2>2. deciding[c] = "approved" => said[c] # {}
    BY DEF VerdictInv
  <2>3. \A q \in Calls : said[q] # {} \/ consented'[q] = consented[q]
    BY <2>1, <2>2
  <2>4. Verdict' = Verdict
    BY <2>1, <2>3 DEF Verdict
  <2>5. Executed' = Executed
    BY <2>1 DEF Executed
  <2> QED BY <2>1, <2>4, <2>5 DEF Held!vars
<1>7. ASSUME NEW c \in Calls, Revalidate(c) PROVE [Held!Next]_(Held!vars)
  <2>1. CASE Refuse(c) /\ UNCHANGED ranDef
    BY <1>1, <1>7, <2>1, HeldQuiet DEF Revalidate, Refuse
  <2>2. CASE pc' = [pc EXCEPT ![c] = "ran"] /\ ranDef' = [ranDef EXCEPT ![c] = def] /\ StillApproved(c)
    <3>1. /\ pc[c] = "approved" /\ UNCHANGED <<said, consented, gateDef>> /\ def = gateDef[c]
          /\ ranDef \in [Calls -> Defs \cup {None}]
      BY <1>7, <2>2 DEF Revalidate, StillApproved, Layers, TypeOK
    <3>2. gateDef[c] \in consented[c] /\ "denied" \notin said[c]
      BY <3>1 DEF Layers, ConsentInv, AskInv
    <3>3. Verdict[c] = "yes" /\ Verdict' = Verdict
      BY <1>1, <2>2, <3>1, <3>2 DEF Verdict
    <3>4. Executed' = Executed \cup {<<c, gateDef[c]>>}
      <4>1. {x \in Calls : pc'[x] = "ran"} = {x \in Calls : pc[x] = "ran"} \cup {c}
        BY <1>1, <2>2
      <4>2. ranDef'[c] = gateDef[c] /\ \A x \in Calls : pc[x] = "ran" => ranDef'[x] = ranDef[x]
        BY <2>2, <3>1
      <4> QED BY <4>1, <4>2 DEF Executed
    <3>5. Held!Execute(c)
      BY <3>1, <3>3, <3>4 DEF Held!Execute
    <3> QED BY <3>5 DEF Held!Next
  <2> QED BY <1>7, <2>1, <2>2 DEF Revalidate
<1>8. ASSUME NEW c \in Calls,
             \/ Dial(c) \/ DialFails(c) \/ Send(c) \/ SendFails(c)
             \/ ReadReply(c) \/ ReadEnds(c) \/ GatewayTimeout(c) \/ Withdraw(c)
      PROVE  UNCHANGED Held!vars
  <2>1. UNCHANGED <<said, consented, gateDef, ranDef>>
    BY <1>8 DEF Dial, DialFails, Send, SendFails, ReadReply, ReadEnds, GatewayTimeout, Withdraw
  <2>2. pc[c] \in {"dial", "send", "wait"}
    BY <1>8 DEF Dial, DialFails, Send, SendFails, ReadReply, ReadEnds, GatewayTimeout, Withdraw
  <2>3. \E x \in {"dial", "send", "wait", "approved", "refused"} : pc' = [pc EXCEPT ![c] = x]
    BY <1>8 DEF Dial, DialFails, Send, SendFails, ReadReply, ReadEnds, GatewayTimeout, Withdraw,
                Unreachable, Refuse
  <2> QED BY <1>1, <2>1, <2>2, <2>3, HeldQuiet
<1>9. ASSUME UNCHANGED <<said, consented, gateDef, ranDef, pc>> PROVE UNCHANGED Held!vars
  BY <1>9, HeldQuiet
<1>10. ASSUME NEW c \in Calls,
              \/ Cancel(c) \/ DenyAtOnce(c) \/ Park(c) \/ Hangup(c) \/ Wake(c) \/ Answer(c)
              \/ WatcherStep(c)
       PROVE  UNCHANGED <<said, consented, gateDef, ranDef, pc>>
  BY <1>10 DEF Cancel, DenyAtOnce, Park, Hangup, Wake, Answer, WatcherStep, WatcherEnds
<1>11. ASSUME NEW i \in Apps, AppStep(i) PROVE UNCHANGED <<said, consented, gateDef, ranDef, pc>>
  BY <1>11 DEF AppStep, AppCheck, AppLock, AppPublish, AppClear, AppEnd
<1>12. ASSUME (\E d \in Defs : Revoke(d)) \/ ToolChanges \/ UNCHANGED vars
       PROVE  UNCHANGED <<said, consented, gateDef, ranDef, pc>>
  BY <1>12 DEF Revoke, ToolChanges, vars
<1>13. ASSUME NEW c \in Calls, CallStep(c) PROVE [Held!Next]_(Held!vars)
  BY <1>2, <1>4, <1>5, <1>6, <1>7, <1>8, <1>9, <1>10, <1>13
  DEF CallStep, GatewayStep, HandlerStep, PersonStep
<1> QED BY <1>9, <1>11, <1>12, <1>13 DEF Next

\* While no app ends under a prompt, the approval path implements the abstract gate: for any
\* number of calls, apps and definitions, a call gets one verdict, which stays whatever the
\* deadlines, the watcher, a retry or a late delivery do, and only a yes lets it run, against
\* the definition the gate captured.
THEOREM BrokerImplementsGate ==
  ASSUME EndsWhileAsking = FALSE PROVE Spec => BrokerImplementsHeldCall
<1>1. Init => AskInv /\ VerdictInv
  BY NoneAssumption DEF Init, AskInv, VerdictInv, Answers
<1>2. Layers /\ AskInv /\ VerdictInv /\ [Next]_vars => AskInv' /\ VerdictInv'
  BY AskStep, VerdictStep DEF Layers
<1>3. Init => Held!Init
  <2> SUFFICES ASSUME Init PROVE Held!Init
    OBVIOUS
  <2>1. \A c \in Calls : said[c] = {} /\ consented[c] = {} /\ pc[c] = "idle"
    BY DEF Init
  <2>2. Verdict = [c \in Calls |-> "unasked"] /\ Executed = {}
    BY <2>1 DEF Verdict, Executed
  <2>3. gateDef = [c \in Calls |-> None]
    BY DEF Init
  <2> QED BY <2>2, <2>3 DEF Held!Init
<1>4. Layers /\ AskInv /\ VerdictInv /\ [Next]_vars => [Held!Next]_(Held!vars)
  BY HeldStep
<1> QED BY <1>1, <1>2, <1>3, <1>4, LayersInvariant, PTL DEF Spec, BrokerImplementsHeldCall, Held!Spec
=============================================================================
