--------------------------- MODULE DaemonElection ---------------------------
(***************************************************************************)
(* The host-daemon rendezvous of daemon.rs: stdio adapters that want a     *)
(* gateway daemon (Rendezvous::ensure), the daemons they spawn             *)
(* (serve_daemon and its idle watchdog) and the one descriptor file that   *)
(* advertises a daemon to the adapters of one compatibility domain.        *)
(*                                                                         *)
(* An adapter reads the descriptor, probes the endpoint it names, takes    *)
(* the election lock when nothing is there, looks again, and only then     *)
(* clears the pointer, spawns and waits for readiness with the lock held.  *)
(* Reading the pointer and hearing from the endpoint are two steps: the    *)
(* daemon may withdraw, exit or be replaced between them.                  *)
(*                                                                         *)
(* A daemon has two threads that touch the descriptor: the watchdog, whose *)
(* progress is dstate, and the main thread, whose progress is loop.        *)
(*                                                                         *)
(* Deadlines are abstracted to "may expire".  The code loses three races,  *)
(* and the history variable strained records that it lost one:             *)
(*  - an adapter stopped waiting (READY_TIMEOUT, or its own end) for a     *)
(*    daemon that had not yet published or died;                           *)
(*  - a request reached a daemon after it withdrew its pointer and before  *)
(*    it exited;                                                           *)
(*  - a daemon whose serve loop had ended took the pointer that a          *)
(*    successor had published meanwhile: clear_descriptor removes the file *)
(*    whatever it names.                                                   *)
(***************************************************************************)
EXTENDS Naturals

CONSTANTS Adapters,     \* processes that run Rendezvous::ensure
          Daemons,      \* the daemon processes that can ever be spawned
          Nil          \* no daemon, no lock holder, no descriptor

ASSUME NilAssumption == Nil \notin Adapters /\ Nil \notin Daemons

VARIABLES desc,      \* the descriptor file: the daemon it names, or Nil
          election,  \* the adapter that holds the election lock, or Nil
          phase,     \* where each adapter is in ensure_known_inner
          round,     \* the iteration of its `for _ in 0..2`
          seen,      \* observed_before_lock
          target,    \* the descriptor its probe in flight was sent to
          result,    \* the daemon it uses, or the one it has spawned
          busy,      \* whether it has a request in flight at its daemon
          dstate,    \* the life of each daemon process, and its watchdog
          loop,      \* its main thread: whether the serve loop has returned
          strained   \* history: one of the three races was lost

avars == <<election, phase, round, seen, target, result, busy>>
dvars == <<dstate, loop>>
electionVars == <<desc, avars, dvars, strained>>

\* `for _ in 0..2`
MaxRounds == 2

\* The phases that look at the endpoint, and the ones inside the lock.
ProbingPhases == {"fast", "under", "after", "ready"}
LockedPhases == {"recheck", "under", "clear", "spawn", "ready"}
Phases == {"idle", "failed", "observe", "fast", "elect", "after", "done"} \cup LockedPhases

\* unborn -> starting -> publishing -> serving <-> withdrawn -> exited
DaemonStates == {"unborn", "starting", "publishing", "serving", "withdrawn", "exited"}

\* The serve loop of the main thread.
LoopStates == {"running", "ended"}

ElectionInit ==
  /\ desc = Nil
  /\ election = Nil
  /\ phase = [a \in Adapters |-> "idle"]
  /\ round = [a \in Adapters |-> 1]
  /\ seen = [a \in Adapters |-> Nil]
  /\ target = [a \in Adapters |-> Nil]
  /\ result = [a \in Adapters |-> Nil]
  /\ busy = [a \in Adapters |-> FALSE]
  /\ dstate = [d \in Daemons |-> "unborn"]
  /\ loop = [d \in Daemons |-> "running"]
  /\ strained = FALSE

-----------------------------------------------------------------------------
(* Adapters: Rendezvous::ensure_known_inner.                               *)

\* ensure returns: its locals are dropped and with them the election lock.
Return(a, p, d) ==
  /\ phase' = [phase EXCEPT ![a] = p]
  /\ result' = [result EXCEPT ![a] = d]
  /\ round' = [round EXCEPT ![a] = 1]
  /\ seen' = [seen EXCEPT ![a] = Nil]
  /\ target' = [target EXCEPT ![a] = Nil]
  /\ election' = IF election = a THEN Nil ELSE election

\* A host starts an adapter, or starts again one that gave up.
Launch(a) ==
  /\ phase[a] \in {"idle", "failed"}
  /\ phase' = [phase EXCEPT ![a] = "observe"]
  /\ UNCHANGED <<desc, election, round, seen, target, result, busy, dvars, strained>>

\* The head of the loop: observed_before_lock.
Observe(a) ==
  /\ phase[a] = "observe"
  /\ seen' = [seen EXCEPT ![a] = desc]
  /\ phase' = [phase EXCEPT ![a] = "fast"]
  /\ UNCHANGED <<desc, election, round, target, result, busy, dvars, strained>>

\* `for _ in 0..2` has a round left.
MoreRounds(a) == round[a] < MaxRounds

\* What a probe that found nothing leads to: the fast path goes on to elect,
\* the probe under the lock has won, the readiness poll looks again, and the
\* probe after dropping the lock takes the next round or gives up.
ConcludeGone(a) ==
  \/ /\ phase[a] \in {"fast", "under", "ready"}
     /\ phase' = [phase EXCEPT ![a] = CASE @ = "fast"  -> "elect"
                                        [] @ = "under" -> "clear"
                                        [] OTHER       -> "ready"]
     /\ target' = [target EXCEPT ![a] = Nil]
     /\ UNCHANGED <<election, round, seen, result>>
  \/ /\ phase[a] = "after" /\ MoreRounds(a)
     /\ phase' = [phase EXCEPT ![a] = "observe"]
     /\ round' = [round EXCEPT ![a] = @ + 1]
     /\ target' = [target EXCEPT ![a] = Nil]
     /\ UNCHANGED <<election, seen, result>>
  \/ /\ phase[a] = "after" /\ ~MoreRounds(a)
     /\ Return(a, "failed", Nil)

\* probe_with_budget reads the descriptor; without one the answer is Gone.
ProbeRead(a) ==
  /\ phase[a] \in ProbingPhases
  /\ target[a] = Nil
  /\ \/ desc = Nil /\ ConcludeGone(a)
     \/ /\ desc # Nil
        /\ target' = [target EXCEPT ![a] = desc]
        /\ UNCHANGED <<election, phase, round, seen, result>>
  /\ UNCHANGED <<desc, busy, dvars, strained>>

\* Something still answers, or could answer, on the daemon's endpoint; it is
\* closed when the serve loop returns.
DaemonListening(d) == dstate[d] \in {"serving", "withdrawn"} /\ loop[d] = "running"

\* The authenticated handshake succeeded: reuse this daemon.
ProbeLive(a) ==
  /\ target[a] # Nil /\ DaemonListening(target[a])
  /\ Return(a, "done", target[a])
  /\ UNCHANGED <<desc, busy, dvars, strained>>

\* Refused twice, or answered by something that is not this daemon.  (The
\* mutated form takes silence for absence.)
CountsAsGoneWhenSilent(d) == TRUE
CountsAsGone(d) == ~DaemonListening(d)

ProbeGone(a) ==
  /\ target[a] # Nil /\ CountsAsGone(target[a])
  /\ ConcludeGone(a)
  /\ UNCHANGED <<desc, busy, dvars, strained>>

\* No answer within the budget: a wedged daemon, or a stranger on the port.
\* The patient probes give up with Unresponsive, the one under the lock drops
\* the lock to be patient outside it, and the readiness poll looks again.
ProbeSilent(a) ==
  /\ target[a] # Nil
  /\ \/ phase[a] \in {"fast", "after"} /\ Return(a, "failed", Nil)
     \/ /\ phase[a] \in {"under", "ready"}
        /\ phase' = [phase EXCEPT ![a] = IF @ = "under" THEN "after" ELSE @]
        /\ election' = IF phase[a] = "under" THEN Nil ELSE election
        /\ target' = [target EXCEPT ![a] = Nil]
        /\ UNCHANGED <<round, seen, result>>
  /\ UNCHANGED <<desc, busy, dvars, strained>>

\* registry::lock_at_for on the election lock.
Elect(a) ==
  /\ phase[a] = "elect"
  /\ election = Nil
  /\ election' = a
  /\ phase' = [phase EXCEPT ![a] = "recheck"]
  /\ UNCHANGED <<desc, round, seen, target, result, busy, dvars, strained>>

\* A pointer published while we waited is probed outside the lock.  (What was
\* observed before the lock is not looked at again.)
Recheck(a) ==
  /\ phase[a] = "recheck"
  /\ LET changed == desc # Nil /\ desc # seen[a]
     IN  /\ phase' = [phase EXCEPT ![a] = IF changed THEN "after" ELSE "under"]
         /\ election' = IF changed THEN Nil ELSE election
  /\ seen' = [seen EXCEPT ![a] = Nil]
  /\ UNCHANGED <<desc, round, target, result, busy, dvars, strained>>

\* The winner clears the pointer, whatever it names by now; without the
\* descriptor lock it goes on with the pointer in place.
ClearPointer(a) ==
  /\ phase[a] = "clear"
  /\ phase' = [phase EXCEPT ![a] = "spawn"]
  /\ desc' \in {Nil, desc}
  /\ UNCHANGED <<election, round, seen, target, result, busy, dvars, strained>>

Spawn(a) ==
  /\ phase[a] = "spawn"
  /\ \E d \in Daemons :
       /\ dstate[d] = "unborn"
       /\ dstate' = [dstate EXCEPT ![d] = "starting"]
       /\ result' = [result EXCEPT ![a] = d]
  /\ phase' = [phase EXCEPT ![a] = "ready"]
  /\ UNCHANGED <<desc, election, round, seen, target, busy, loop, strained>>

\* Every exit of ensure with EnsureError::Failed before the daemon runs: the
\* election lock timed out, a recovery budget ran out or was cancelled, the
\* descriptor lock was not to be had, the spawn failed.
GiveUp(a) ==
  /\ phase[a] \in {"fast", "elect", "under", "after", "clear", "spawn"}
  /\ Return(a, "failed", Nil)
  /\ UNCHANGED <<desc, busy, dvars, strained>>

\* The daemon an adapter waits for has not published or died yet.
Pending(a) == phase[a] = "ready" /\ dstate[result[a]] \in {"starting", "publishing"}

\* READY_TIMEOUT passes in wait_until_ready.  (Mutated: it polls for ever.)
ReadyTimeoutNever(a) == phase[a] = "ready" /\ FALSE /\ UNCHANGED electionVars

ReadyTimeout(a) ==
  /\ phase[a] = "ready"
  /\ Return(a, "failed", Nil)
  /\ strained' = (strained \/ Pending(a))
  /\ UNCHANGED <<desc, busy, dvars>>

\* The adapter process ends, or a recovery is cancelled because it is closing;
\* the operating system releases its locks.
Leave(a) ==
  /\ phase[a] \notin {"idle", "failed"}
  /\ Return(a, "idle", Nil)
  /\ busy' = [busy EXCEPT ![a] = FALSE]
  /\ strained' = (strained \/ Pending(a))
  /\ UNCHANGED <<desc, dvars>>

\* A request of a settled adapter reaches its daemon, and is answered.
BeginWork(a) ==
  /\ phase[a] = "done" /\ ~busy[a]
  /\ DaemonListening(result[a])
  /\ busy' = [busy EXCEPT ![a] = TRUE]
  /\ strained' = (strained \/ dstate[result[a]] = "withdrawn")
  /\ UNCHANGED <<desc, election, phase, round, seen, target, result, dvars>>

EndWork(a) ==
  /\ busy[a]
  /\ busy' = [busy EXCEPT ![a] = FALSE]
  /\ UNCHANGED <<desc, election, phase, round, seen, target, result, dvars, strained>>

\* The daemon it used is gone, or no longer accepts a request: the adapter
\* runs ensure again.
Recover(a) ==
  /\ phase[a] = "done"
  /\ dstate[result[a]] = "exited" \/ (~busy[a] /\ ~DaemonListening(result[a]))
  /\ phase' = [phase EXCEPT ![a] = "observe"]
  /\ result' = [result EXCEPT ![a] = Nil]
  /\ busy' = [busy EXCEPT ![a] = FALSE]
  /\ UNCHANGED <<desc, election, round, seen, target, dvars, strained>>

-----------------------------------------------------------------------------
(* Daemons: serve_daemon and spawn_daemon_idle_watchdog.                   *)

\* Some adapter has a request in flight here (or holds the service lease).
HasWork(d) == \E a \in Adapters : busy[a] /\ result[a] = d

\* It has the descriptor of this domain to itself, or should have.
DaemonServing(d) == dstate[d] = "serving" /\ loop[d] = "running"

\* clear_dead_descriptors: a pointer whose process is gone is removed, with
\* the file compared again under the descriptor lock, or skipped without it.
ClearDead(d) ==
  /\ dstate[d] = "starting"
  /\ desc' = desc \/ (desc # Nil /\ dstate[desc] = "exited" /\ desc' = Nil)
  /\ dstate' = [dstate EXCEPT ![d] = "publishing"]
  /\ UNCHANGED <<avars, loop, strained>>

\* write_descriptor: from here on adapters can find this daemon.  A failure
\* to write ends the process (Die).
Publish(d) ==
  /\ dstate[d] = "publishing"
  /\ desc' = d
  /\ dstate' = [dstate EXCEPT ![d] = "serving"]
  /\ UNCHANGED <<avars, loop, strained>>

\* The process ends, and its threads with it.
Exit(d) ==
  /\ dstate' = [dstate EXCEPT ![d] = "exited"]
  /\ loop' = [loop EXCEPT ![d] = "ended"]

\* The endpoint or the descriptor failed, or the process was killed.
Die(d) ==
  /\ dstate[d] \notin {"unborn", "exited"}
  /\ Exit(d)
  /\ UNCHANGED <<desc, avars, strained>>

\* clear_descriptor removes the file whatever it names, unless its lock is
\* not to be had.  A daemon that no longer serves may take a successor's.
ClearDescriptor(d) ==
  /\ desc' \in {Nil, desc}
  /\ strained' = \/ strained
                 \/ /\ loop[d] # "running" /\ desc' # desc
                    /\ desc \in Daemons \ {d} /\ DaemonServing(desc)

\* The watchdog found no request in flight and no lease, and the grace has
\* passed or an update asked for it: it stops advertising the daemon.
WithdrawPointer(d) ==
  /\ dstate[d] = "serving" /\ ~HasWork(d)
  /\ ClearDescriptor(d)
  /\ dstate' = [dstate EXCEPT ![d] = "withdrawn"]
  /\ UNCHANGED <<avars, loop>>

\* Work arrived after all: advertise again and keep serving.  The outcome of
\* write_descriptor is ignored.
Readvertise(d) ==
  /\ dstate[d] = "withdrawn" /\ HasWork(d)
  /\ desc' \in {d, desc}
  /\ dstate' = [dstate EXCEPT ![d] = "serving"]
  /\ UNCHANGED <<avars, loop, strained>>

\* Still nothing to do: the process ends.
ExitIdle(d) ==
  /\ dstate[d] = "withdrawn" /\ ~HasWork(d)
  /\ Exit(d)
  /\ UNCHANGED <<desc, avars, strained>>

\* serve_http_loop_with_inflight returns on the main thread, wherever the
\* watchdog is: the endpoint is closed, the pointer still there.
ServeLoopEnds(d) ==
  /\ DaemonListening(d)
  /\ loop' = [loop EXCEPT ![d] = "ended"]
  /\ UNCHANGED <<desc, avars, dstate, strained>>

\* The main thread clears the pointer and ends the process.  (A clear by the
\* watchdog between the two has the effect of a later one by the main thread.)
ClearAtEnd(d) ==
  /\ dstate[d] \in {"serving", "withdrawn"} /\ loop[d] = "ended"
  /\ ClearDescriptor(d)
  /\ Exit(d)
  /\ UNCHANGED avars

-----------------------------------------------------------------------------
EnsureStep(a) ==
  \/ Observe(a) \/ ProbeRead(a) \/ ProbeLive(a) \/ ProbeGone(a) \/ ProbeSilent(a)
  \/ Elect(a) \/ Recheck(a)
  \/ ClearPointer(a) \/ Spawn(a) \/ GiveUp(a) \/ ReadyTimeout(a)

AdapterStep(a) ==
  EnsureStep(a) \/ Launch(a) \/ Leave(a) \/ BeginWork(a) \/ EndWork(a) \/ Recover(a)

DaemonStep(d) ==
  \/ ClearDead(d) \/ Publish(d) \/ Die(d)
  \/ WithdrawPointer(d) \/ Readvertise(d) \/ ExitIdle(d)
  \/ ServeLoopEnds(d) \/ ClearAtEnd(d)

ElectionNext == \/ \E a \in Adapters : AdapterStep(a)
        \/ \E d \in Daemons : DaemonStep(d)

ElectionSpec == ElectionInit /\ [][ElectionNext]_electionVars

\* Every wait of ensure has a deadline, so an adapter that runs it keeps
\* moving; READY_TIMEOUT bounds the poll however often it looks in vain.  The
\* daemons owe nothing: one may stay silent, or never publish.
ElectionFairness ==
  \A a \in Adapters : WF_electionVars(EnsureStep(a)) /\ WF_electionVars(ReadyTimeout(a))

ElectionFairSpec == ElectionSpec /\ ElectionFairness

-----------------------------------------------------------------------------
(* Properties.                                                             *)

\* Every variable has its type.
ElectionTypeOK ==
  /\ desc \in Daemons \cup {Nil}
  /\ election \in Adapters \cup {Nil}
  /\ phase \in [Adapters -> Phases]
  /\ round \in [Adapters -> 1..MaxRounds]
  /\ seen \in [Adapters -> Daemons \cup {Nil}]
  /\ target \in [Adapters -> Daemons \cup {Nil}]
  /\ result \in [Adapters -> Daemons \cup {Nil}]
  /\ busy \in [Adapters -> BOOLEAN]
  /\ dstate \in [Daemons -> DaemonStates]
  /\ loop \in [Daemons -> LoopStates]
  /\ strained \in BOOLEAN

\* A daemon on its way to be, or being, the one that serves the domain.
Active(d) == dstate[d] \in {"starting", "publishing"} \/ DaemonServing(d)

\* daemon.rs: "exactly one compatible daemon runs per data directory and
\* gateway build".  The code does not keep that promise in the three races of
\* strained; this says that it keeps it as long as none of them was lost: never
\* two daemons starting or serving at once.  (One that has withdrawn, or whose
\* serve loop has ended, may overlap with its successor.)
OneActiveDaemon == strained \/ \A d, e \in Daemons : Active(d) /\ Active(e) => d = e

\* A serving daemon can be found: the descriptor names it, so nobody elects
\* a second one beside it.
ServingIsAdvertised == \A d \in Daemons : DaemonServing(d) => desc = d

\* The election lock admits one winner: between its last look at the pointer
\* and the end of its readiness wait no other adapter is there.
OneWinner ==
  \A a, b \in Adapters : phase[a] \in LockedPhases /\ phase[b] \in LockedPhases => a = b

\* "Only a proven-stale pointer is cleared": until one of the three races is
\* lost, whatever step removes or replaces a pointer (an adapter's clear on what
\* it read and probed before, a starting daemon's clean-up or publication, a
\* withdrawal), the daemon it named is not serving afterwards.
OnlyStalePointersGo ==
  [][\A d \in Daemons : desc = d /\ desc' # d /\ ~strained' => ~DaemonServing(d)']_electionVars

\* The lock is held exactly by the adapter inside the election.
LockHeld == \A a \in Adapters : phase[a] \in LockedPhases <=> election = a

\* Its process is gone, or about to end without serving again.
Gone(d) == loop[d] = "ended"

\* A probe is in flight only where ensure probes, and work only at the daemon
\* of a settled adapter, which has not withdrawn.
LocalsMatchPhase ==
  /\ \A d \in Daemons : dstate[d] = "exited" => loop[d] = "ended"
  /\ \A a \in Adapters :
    /\ target[a] # Nil => phase[a] \in ProbingPhases
    /\ phase[a] \in {"done", "ready"} => result[a] # Nil
    /\ busy[a] => phase[a] = "done" /\ dstate[result[a]] # "withdrawn"

\* The descriptor, and a probe, name only daemons that have published, and
\* only those have had a serve loop to end.
PointersPublished ==
  \A d \in Daemons :
    \/ desc = d
    \/ \E a \in Adapters : target[a] = d
    \/ loop[d] = "ended"
    => dstate[d] \in {"serving", "withdrawn", "exited"}

\* A daemon that starts has its adapter waiting for it, lock in hand.
StarterWaits ==
  \A d \in Daemons : dstate[d] \in {"starting", "publishing"} =>
    \E a \in Adapters : phase[a] = "ready" /\ result[a] = d

\* What the lock holder knows of the daemons: before it spawns there is none,
\* while it waits there is at most its own.
WinnerKnows ==
  \A a \in Adapters : \A d \in Daemons :
    /\ phase[a] \in {"clear", "spawn"} => ~Active(d)
    /\ phase[a] = "ready" /\ Active(d) => d = result[a]

\* What the lock holder knows of the pointer: it can only disappear while the
\* probe is in flight; from then on it names a daemon that is gone, until the
\* winner's own daemon publishes.
PointerUnderLock ==
  \A a \in Adapters :
    /\ phase[a] = "under" /\ target[a] # Nil => desc \in {Nil, target[a]}
    /\ phase[a] \in {"clear", "spawn"} => desc = Nil \/ Gone(desc)
    /\ phase[a] = "ready" => \A d \in {desc, target[a]} : d \in {Nil, result[a]} \/ Gone(d)

\* The inductive invariant behind OneActiveDaemon.
Sound ==
  /\ LocalsMatchPhase /\ PointersPublished /\ StarterWaits
  /\ WinnerKnows /\ PointerUnderLock /\ ServingIsAdvertised
ElectionInv == LockHeld /\ (strained \/ Sound)

\* An adapter that starts ensure gets an answer: a daemon, an error, or the
\* end of its own process.  No chain of lock waits and probes hangs.
EnsureReturns ==
  \A a \in Adapters :
    phase[a] = "observe" ~> phase[a] \in {"done", "failed", "idle"}
=============================================================================
