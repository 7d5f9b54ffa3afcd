-------------------------- MODULE ServerSupervisor --------------------------
(***************************************************************************)
(* The life of one downstream server behind the gateway: the supervised    *)
(* ServerSlot of router.rs (start on demand, publish after the integrity   *)
(* gate, stop when idle, replace when dead), the calls that run on it      *)
(* (call_with_retry_typed, attempt, Breaker), and the two threads that     *)
(* replace the router it sits in (the registry watcher and a request that  *)
(* reports a new project root).                                            *)
(*                                                                         *)
(* A slot's connection lives in `inner`; a fresh one waits in `ready` until *)
(* the watcher adopts and publishes it.  A call takes the lifecycle lock   *)
(* and the slot lock one after the other and reads generation, successes   *)
(* and responses before it runs, so what it learned can be old when it     *)
(* acts on it: `since` says what happened to its slot in between.  Times   *)
(* (idle, backoff, cooldown, deadlines) are abstracted to "may have run    *)
(* out".  Slots are dropped and reused once nothing refers to them.        *)
(***************************************************************************)
EXTENDS Naturals, FiniteSets

CONSTANTS Calls,    \* callers; each makes one call after another
          Slots,    \* supervisors that can exist at a time
          Roots,    \* project roots, the part of the launch spec that changes
          Moves,    \* the changes of root that happen, as pairs
          CallersAt, \* the callers that are active at each root
          None,
          BREAKER_FAILURE_THRESHOLD

ASSUME NoneAssumption == None \notin Slots \cup Roots
ASSUME SlotsAssumption == Slots # {}
ASSUME ThresholdAssumption == BREAKER_FAILURE_THRESHOLD \in Nat \ {0}

VARIABLES slot,        \* the Supervisor of each slot, its launch spec and `retired`
          inner,       \* the connection in the slot
          connecting,  \* how many startup threads of the slot are connecting
          breaker,     \* the slot's circuit breaker
          call,        \* where each call is
          live,        \* the slot of the published router
          root,        \* the client's current project root
          thread,      \* the two threads that publish routers
          undone,      \* history: a publication overtook a newer one
          revived      \* history: slots made Ready by a success of an ended connection

vars == <<slot, inner, connecting, breaker, call, live, root, thread, undone, revived>>

Threads == {"watcher", "request"}
Closed == {"closed", "reset"}       \* connection_closed() == Some(true)
ResetReason == {"reset", "stale"}   \* connection_reset_reason() is some

NewSlot(r) ==
  [state |-> "Stopped", everReady |-> FALSE, publishing |-> FALSE, ready |-> FALSE,
   endpoint |-> FALSE, retired |-> FALSE, spec |-> r]
NewBreaker == [failures |-> 0, open |-> FALSE]
NoCall ==
  [pc |-> "idle", slot |-> None, locked |-> FALSE, probe |-> FALSE, since |-> {},
   kind |-> "none", cut |-> FALSE]
NoWork == [pc |-> "idle", root |-> None, from |-> None, next |-> None]

Init ==
  /\ root \in Roots /\ live = CHOOSE s \in Slots : TRUE
  /\ slot = [s \in Slots |-> NewSlot(root)]
  /\ inner = [s \in Slots |-> "stopped"] /\ connecting = [s \in Slots |-> 0]
  /\ breaker = [s \in Slots |-> NewBreaker]
  /\ call = [c \in Calls |-> NoCall]
  /\ thread = [t \in Threads |-> NoWork]
  /\ undone = FALSE /\ revived = {}

-----------------------------------------------------------------------------
(* Calls on a slot.                                                        *)

CallsOn(s) == {c \in Calls : call[c].slot = s}

\* handle_calls: admitted, and not yet dropped.
HandleCalls(s) == {c \in CallsOn(s) : call[c].pc \in {"fetch", "run"}}

\* A call that runs under the slot lock.
InnerHeld(s) == \E c \in CallsOn(s) : call[c].pc = "run" /\ call[c].locked

\* What a call still compares with what it read: another generation settles the
\* rest; a failure matters to a call that began before it, on a handle.
Heeds(k) ==
  CASE k.pc \in {"admit", "fetch"} -> {"generation", "success", "response"}
    [] k.pc = "run" -> {"generation", "success", "response"}
                         \cup (IF k.locked THEN {} ELSE {"failure"})
    [] k.pc = "ended" -> {"generation"}
                           \cup (IF k.probe \/ k.kind = "auth" THEN {"success"} ELSE {})
                           \cup (IF k.kind = "timeout" THEN {"response"} ELSE {})
                           \cup (IF k.locked \/ k.kind \in {"ok", "auth"} THEN {}
                                 ELSE {"failure"})
    [] k.pc = "record" -> {"failure"}
    [] OTHER -> {}

Settled(k) ==
  LET since == k.since \cap Heeds(k) IN
  [k EXCEPT !.since = IF "generation" \in since THEN since \ {"success", "response"}
                      ELSE since]

\* What the calls that have read the counters of a slot will find changed.
Note(calls, s, what) ==
  [c \in Calls |-> IF calls[c].slot = s
                   THEN Settled([calls[c] EXCEPT !.since = @ \cup what]) ELSE calls[c]]

Forget(calls, s, what) ==
  [c \in Calls |-> IF calls[c].slot = s
                   THEN [calls[c] EXCEPT !.since = @ \ what] ELSE calls[c]]

\* DownstreamServer::stop: calls on a handle of that connection end with it.
Cut(calls, s) ==
  [c \in Calls |-> IF calls[c].slot = s /\ calls[c].pc = "run"
                   THEN [calls[c] EXCEPT !.cut = TRUE] ELSE calls[c]]

\* A slot that dispatches: Ready, or in need of a sign-in after it was.
Serving(s) ==
  \/ slot[s].state = "Ready"
  \/ slot[s].state = "NeedsAuth" /\ slot[s].everReady

-----------------------------------------------------------------------------
(* Starting a connection: start_at and its thread.                         *)

\* (Mutated: only a call retries a slot in backoff.)
MayStartOnDemand(s, demand) ==
  /\ ~slot[s].publishing /\ demand
  /\ \/ slot[s].state \in {"Stopped", "Backoff"}
     \/ slot[s].state = "NeedsAuth" /\ slot[s].endpoint /\ ~slot[s].everReady

\* A stopped slot starts on demand, one in backoff by itself, and so does one that
\* never served and was refused by its endpoint.
MayStart(s, demand) ==
  /\ ~slot[s].publishing
  /\ \/ demand /\ slot[s].state = "Stopped"
     \/ slot[s].state = "Backoff"
     \/ slot[s].state = "NeedsAuth" /\ slot[s].endpoint /\ ~slot[s].everReady

StartConnecting(s) ==
  /\ slot' = [slot EXCEPT ![s].state = "Starting", ![s].endpoint = FALSE]
  /\ connecting' = [connecting EXCEPT ![s] = @ + 1]

Connected(s) ==
  /\ connecting[s] > 0
  /\ connecting' = [connecting EXCEPT ![s] = @ - 1]
  /\ \/ /\ slot[s].retired
        /\ slot' = [slot EXCEPT ![s].state = "Stopped"]
     \/ /\ ~slot[s].retired
        /\ slot' = [slot EXCEPT ![s].ready = TRUE]
     \/ /\ ~slot[s].retired
        /\ slot' = [slot EXCEPT ![s].state = "Backoff", ![s].endpoint = FALSE]
     \/ /\ ~slot[s].retired
        /\ \E target \in BOOLEAN :
             slot' = [slot EXCEPT ![s].state = "NeedsAuth", ![s].endpoint = target]
  /\ UNCHANGED <<inner, breaker, call, live, root, thread, undone, revived>>

-----------------------------------------------------------------------------
(* The circuit breaker.                                                    *)

RecordSuccess(s) == breaker' = [breaker EXCEPT ![s] = NewBreaker]

RecordFailure(s) ==
  LET n == IF breaker[s].failures < BREAKER_FAILURE_THRESHOLD
           THEN breaker[s].failures + 1 ELSE breaker[s].failures
  IN breaker' = [breaker EXCEPT ![s] =
                   [failures |-> n, open |-> @.open \/ n >= BREAKER_FAILURE_THRESHOLD]]

-----------------------------------------------------------------------------
(* One call, from the router it looked up to its answer.                   *)

Return(c) == call' = [call EXCEPT ![c] = NoCall]
Goto(c, pc) == call' = [call EXCEPT ![c].pc = pc]

\* The call takes the live router's slot; start_at looks at `retired` first,
\* outside the lifecycle lock.
Demand(c) ==
  /\ call[c].pc = "idle" /\ c \in CallersAt[root]
  /\ call' = [call EXCEPT ![c] =
                [NoCall EXCEPT !.slot = live,
                               !.pc = IF slot[live].retired THEN "wait" ELSE "start"]]
  /\ UNCHANGED <<slot, inner, connecting, breaker, live, root, thread, undone, revived>>

\* A stopped server starts; a retry may not be due yet.
Start(c) ==
  LET s == call[c].slot IN
  /\ call[c].pc = "start" /\ Goto(c, "wait")
  /\ \/ MayStart(s, TRUE) /\ StartConnecting(s)
     \/ slot[s].state # "Stopped" /\ UNCHANGED <<slot, connecting>>
  /\ UNCHANGED <<inner, breaker, live, root, thread, undone, revived>>

\* One poll of wait_for_start that ends the wait: served, retired, not starting,
\* past the deadline or cancelled.
Wait(c) ==
  LET s == call[c].slot IN
  /\ call[c].pc = "wait"
  /\ \/ Serving(s) /\ Goto(c, "breaker")
     \/ Return(c)
  /\ UNCHANGED <<slot, inner, connecting, breaker, live, root, thread, undone, revived>>

\* open_remaining: fail fast, or pass, as the probe once the streak is long enough.
PassBreaker(c) ==
  LET s == call[c].slot IN
  /\ call[c].pc = "breaker"
  /\ \/ breaker[s].open /\ Return(c) /\ UNCHANGED breaker
     \/ /\ call' = [call EXCEPT
                      ![c].pc = "look",
                      ![c].probe = breaker[s].failures >= BREAKER_FAILURE_THRESHOLD]
        /\ breaker' = [breaker EXCEPT ![s].open = FALSE]
  /\ UNCHANGED <<slot, inner, connecting, live, root, thread, undone, revived>>

\* The look at the connection under the slot lock, and the counters read there.
\* A supervised slot has no reconnect factory, so a rejected connection is a failure.
Look(c) ==
  LET s == call[c].slot IN
  /\ call[c].pc = "look" /\ ~InnerHeld(s)
  /\ \/ /\ inner[s] \in ResetReason
        /\ call' = Note([call EXCEPT ![c] = NoCall], s, {"failure"})
        /\ RecordFailure(s)
     \/ /\ inner[s] \notin ResetReason
        /\ call' = [call EXCEPT ![c].pc = "admit", ![c].since = {}]
        /\ UNCHANGED breaker
  /\ UNCHANGED <<slot, inner, connecting, live, root, thread, undone, revived>>

\* attempt, under the lifecycle lock: refused unless the slot serves, else counted.
Admit(c) ==
  LET s == call[c].slot IN
  /\ call[c].pc = "admit"
  /\ \/ Serving(s) /\ Goto(c, "fetch")
     \/ Return(c)      \* not serving, or cancelled before the attempt
  /\ UNCHANGED <<slot, inner, connecting, breaker, live, root, thread, undone, revived>>

\* attempt, under the slot lock: a handle, refused when the server is at its limit
\* of calls in flight, or without one (a state change, a stopped server) the call
\* keeps the lock while it runs.
Fetch(c) ==
  LET s == call[c].slot IN
  /\ call[c].pc = "fetch" /\ ~InnerHeld(s)
  /\ \/ \E locked \in BOOLEAN :
          /\ inner[s] = "stopped" => locked
          /\ call' = [call EXCEPT ![c].pc = "run", ![c].locked = locked]
     \/ inner[s] # "stopped" /\ Return(c)
  /\ UNCHANGED <<slot, inner, connecting, breaker, live, root, thread, undone, revived>>

\* What a call on a connection in this condition can end with: an answer, an error
\* response, an Endpoint sign-in failure, a timeout, an unusable transport, a
\* rejected frame, or an error that says nothing about health (cancelled, fatal).
Outcomes(c) ==
  LET s == call[c].slot IN
  IF call[c].cut \/ inner[s] \in {"stopped", "closed"} THEN {"down"}
  ELSE IF inner[s] = "reset" THEN {"rejected", "down"}
  ELSE IF inner[s] = "wedged" THEN {"timeout", "fatal"}
  ELSE {"ok", "rpc", "auth", "timeout", "down", "fatal"}

\* The attempt is over: HandleCall drops, the slot lock is released.
Ended(k, kind) ==
  Settled([k EXCEPT !.pc = "ended", !.kind = kind, !.cut = FALSE,
                    !.probe = k.probe /\ kind \in {"timeout", "down"},
                    !.locked = k.locked /\ kind \notin {"ok", "auth"}])

End(c) ==
  /\ call[c].pc = "run"
  /\ \E kind \in Outcomes(c) :
       call' = IF kind \in {"rpc", "fatal"}
               THEN Note([call EXCEPT ![c] = NoCall], call[c].slot,
                         IF kind = "rpc" THEN {"response"} ELSE {})
               ELSE [call EXCEPT ![c] = Ended(@, kind)]
  /\ UNCHANGED <<slot, inner, connecting, breaker, live, root, thread, undone, revived>>

-----------------------------------------------------------------------------
(* What the call does with its result.                                     *)

SettleOk(c) ==
  LET s == call[c].slot
      signedIn == slot[s].state = "NeedsAuth" /\ "generation" \notin call[c].since
  IN
  /\ call[c].pc = "ended" /\ call[c].kind = "ok"
  /\ slot' = IF signedIn THEN [slot EXCEPT ![s].state = "Ready", ![s].endpoint = FALSE]
             ELSE slot
  /\ revived' = IF signedIn /\ inner[s] = "stopped" THEN revived \cup {s} ELSE revived
  /\ RecordSuccess(s)
  /\ call' = Forget(Note([call EXCEPT ![c] = NoCall], s, {"response", "success"}),
                    s, {"failure"})
  /\ UNCHANGED <<inner, connecting, live, root, thread, undone>>

SettleAuth(c) ==
  LET s == call[c].slot
      current == call[c].since \cap {"generation", "success"} = {}
  IN
  /\ call[c].pc = "ended" /\ call[c].kind = "auth" /\ Return(c)
  /\ slot' = IF current /\ slot[s].state \in {"Ready", "NeedsAuth"}
             THEN [slot EXCEPT ![s].state = "NeedsAuth", ![s].endpoint = TRUE]
             ELSE slot
  /\ UNCHANGED <<inner, connecting, breaker, live, root, thread, undone, revived>>

\* timeout_health: a timeout counts only while the slot is free and nothing else
\* answered on the same connection.
TimeoutHealth(c) ==
  /\ ~InnerHeld(call[c].slot)
  /\ call[c].since \cap {"generation", "response"} = {}

\* (Mutated: the slot may be starting again already.)
MayDegradeAnyState(c) ==
  LET s == call[c].slot IN
  /\ "generation" \notin call[c].since
  /\ ~InnerHeld(s)
  /\ \/ inner[s] \in Closed
     \/ call[c].probe /\ "success" \notin call[c].since /\ HandleCalls(s) = {}

\* degrade's condition: this slot still serves the connection the call saw, and that
\* connection closed, or the call is a probe and nothing shows it still works.
MayDegrade(c) ==
  LET s == call[c].slot IN
  /\ slot[s].state \in {"Ready", "NeedsAuth"} /\ "generation" \notin call[c].since
  /\ ~InnerHeld(s)
  /\ \/ inner[s] \in Closed
     \/ call[c].probe /\ "success" \notin call[c].since /\ HandleCalls(s) = {}

\* The connection is stopped and the slot goes to state `to`.
StopConnection(s, to) ==
  /\ slot' = [slot EXCEPT ![s].state = to]
  /\ inner' = [inner EXCEPT ![s] = "stopped"]
  /\ revived' = revived \ {s}

\* What is left to do is to count the failure.
Failed(c) ==
  [call EXCEPT ![c] = Settled([@ EXCEPT !.pc = "record", !.kind = "none",
                                        !.probe = FALSE, !.cut = FALSE])]

\* The watcher asks this server for its lists, under the slot lock.
Refreshing(s) == thread["watcher"].pc = "refresh" /\ thread["watcher"].next = s

\* A health failure: degrade the slot where it may, then count the failure.  The
\* try_lock fails while the lists of an open connection are being refreshed.
SettleFailure(c) ==
  LET s == call[c].slot IN
  /\ call[c].pc = "ended" /\ call[c].kind \in {"timeout", "down", "rejected"}
  /\ \/ /\ call[c].kind = "timeout"
        /\ ~TimeoutHealth(c) \/ Refreshing(s)
        /\ Return(c) /\ UNCHANGED <<slot, inner, revived>>
     \/ /\ call[c].kind = "timeout" => TimeoutHealth(c)
        /\ \/ /\ call[c].kind # "rejected" /\ MayDegrade(c)
              /\ StopConnection(s, "Backoff")
              /\ call' = Cut(Failed(c), s)
           \/ /\ \/ call[c].kind = "rejected" \/ ~MayDegrade(c)
                 \/ Refreshing(s) /\ inner[s] \notin Closed
              /\ call' = Failed(c) /\ UNCHANGED <<slot, inner, revived>>
  /\ UNCHANGED <<connecting, breaker, live, root, thread, undone>>

\* record_concurrent_failure: calls that were in flight together fail once.
Record(c) ==
  LET s == call[c].slot
      together == ~call[c].locked /\ "failure" \in call[c].since
  IN
  /\ call[c].pc = "record"
  /\ IF together THEN UNCHANGED breaker ELSE RecordFailure(s)
  /\ call' = Note([call EXCEPT ![c] = NoCall], s, IF together THEN {} ELSE {"failure"})
  /\ UNCHANGED <<slot, inner, connecting, live, root, thread, undone, revived>>

CallStep(c) ==
  \/ Start(c) \/ Wait(c) \/ PassBreaker(c) \/ Look(c) \/ Admit(c) \/ Fetch(c)
  \/ End(c) \/ SettleOk(c) \/ SettleAuth(c) \/ SettleFailure(c) \/ Record(c)

-----------------------------------------------------------------------------
(* The watcher's tick on the live slot: maintain.                          *)

WatcherFree == thread["watcher"].pc = "idle"

\* (Mutated: admitted calls do not count.)
IdleUnusedAlways(s) == TRUE

\* Calls admitted to the slot keep it; so may a subscription.
IdleUnused(s) == HandleCalls(s) = {}

StopClosed(s) ==
  /\ WatcherFree /\ s = live
  /\ slot[s].state = "Ready" /\ ~InnerHeld(s) /\ inner[s] \in Closed
  /\ StopConnection(s, "Backoff") /\ call' = Cut(call, s)
  /\ UNCHANGED <<connecting, breaker, live, root, thread, undone>>

StopIdle(s) ==
  /\ WatcherFree /\ s = live
  /\ slot[s].state = "Ready" /\ ~InnerHeld(s) /\ inner[s] \notin Closed
  /\ IdleUnused(s)
  /\ StopConnection(s, "Stopped") /\ call' = Cut(call, s)
  /\ UNCHANGED <<connecting, breaker, live, root, thread, undone>>

Retry(s) ==
  /\ WatcherFree /\ s = live
  /\ ~slot[s].retired /\ MayStart(s, FALSE) /\ StartConnecting(s)
  /\ UNCHANGED <<inner, breaker, call, live, root, thread, undone, revived>>

-----------------------------------------------------------------------------
(* Replacing the router: adoption, rebuilds and list refreshes.            *)

\* rebuild_lock, which a list refresh does not take.
RebuildHeld == \E t \in Threads : thread[t].pc = "publish"

\* (Mutated: the slot is in service before the gate has seen its catalogue.)
AdoptReady(s) ==
  /\ WatcherFree /\ ~RebuildHeld /\ s = live
  /\ slot[s].ready /\ ~InnerHeld(s)
  /\ slot' = [slot EXCEPT ![s].ready = FALSE, ![s].publishing = TRUE, ![s].state = "Ready",
                          ![s].everReady = TRUE]
  /\ inner' = [inner EXCEPT ![s] = "open"]
  /\ revived' = revived \ {s}
  /\ RecordSuccess(s)
  /\ call' = Forget(Note(call, s, {"generation"}), s, {"failure"})
  /\ thread' = [thread EXCEPT !["watcher"] =
                  [NoWork EXCEPT !.pc = "publish", !.from = live, !.next = live]]
  /\ UNCHANGED <<connecting, live, root, undone>>

\* adopt_reconnected_servers up to the gate: the fresh connection moves into the slot,
\* which stays out of service until its catalogue is published.
Adopt(s) ==
  /\ WatcherFree /\ ~RebuildHeld /\ s = live
  /\ slot[s].ready /\ ~InnerHeld(s)
  /\ slot' = [slot EXCEPT ![s].ready = FALSE, ![s].publishing = TRUE]
  /\ \E condition \in {"open", "closed"} : inner' = [inner EXCEPT ![s] = condition]
  /\ revived' = revived \ {s}
  /\ RecordSuccess(s)
  /\ call' = Forget(Note(call, s, {"generation"}), s, {"failure"})
  /\ thread' = [thread EXCEPT !["watcher"] =
                  [NoWork EXCEPT !.pc = "publish", !.from = live, !.next = live]]
  /\ UNCHANGED <<connecting, live, root, undone>>

\* Roots at which the registry and the lists of the server change too.
Reconfigured == \E move \in Moves : root \in {move[1], move[2]}

\* The client reports another root, on the thread that then rebuilds.
SetRoot(r) ==
  /\ thread["request"].pc = "idle" /\ <<root, r>> \in Moves
  /\ root' = r
  /\ thread' = [thread EXCEPT !["request"].pc = "lock"]
  /\ UNCHANGED <<slot, inner, connecting, breaker, call, live, undone, revived>>

\* The watcher reloads the registry, and reads the root before it waits for the lock.
Reload ==
  /\ WatcherFree /\ Reconfigured
  /\ thread' = [thread EXCEPT !["watcher"].pc = "lock", !["watcher"].root = root]
  /\ UNCHANGED <<slot, inner, connecting, breaker, call, live, root, undone, revived>>

\* A slot the router dropped, with no call and no thread that refers to it.
Dropped(s) ==
  /\ s # live /\ CallsOn(s) = {}
  /\ \A t \in Threads : s \notin {thread[t].from, thread[t].next}

Empty(s) ==
  /\ slot[s] = NewSlot(slot[s].spec) /\ slot[s].spec = slot[live].spec
  /\ inner[s] = "stopped" /\ connecting[s] = 0 /\ breaker[s] = NewBreaker /\ s \notin revived

\* The last reference to a slot goes: its connection and its starts go with it.
Drop(s) ==
  /\ Dropped(s) /\ ~Empty(s)
  /\ slot' = [slot EXCEPT ![s] = NewSlot(slot[live].spec)]
  /\ inner' = [inner EXCEPT ![s] = "stopped"]
  /\ connecting' = [connecting EXCEPT ![s] = 0]
  /\ breaker' = [breaker EXCEPT ![s] = NewBreaker]
  /\ revived' = revived \ {s}
  /\ UNCHANGED <<call, live, root, thread, undone>>

\* build_router_incremental under the lock: reuse the supervisor with the same launch
\* spec, else make a new one.
Build(t) ==
  LET r == IF t = "request" THEN root ELSE thread[t].root IN
  /\ thread[t].pc = "lock" /\ ~RebuildHeld
  /\ \E s \in Slots :
       /\ thread' = [thread EXCEPT ![t] =
                       [pc |-> "publish", root |-> r, from |-> live, next |-> s]]
       /\ \/ /\ slot[live].spec = r /\ s = live
             /\ UNCHANGED <<slot, inner, connecting, breaker, revived>>
          \/ /\ slot[live].spec # r /\ Dropped(s)
             /\ slot' = [slot EXCEPT ![s] = NewSlot(r)]
             /\ UNCHANGED <<inner, connecting, breaker, revived>>
  /\ UNCHANGED <<call, live, root, undone>>

\* A server announced a list change: the watcher works on a copy of the live router,
\* without the rebuild lock.
RefreshLists ==
  /\ WatcherFree /\ Reconfigured
  /\ thread' = [thread EXCEPT !["watcher"] =
                  [NoWork EXCEPT !.pc = "refresh", !.from = live, !.next = live]]
  /\ UNCHANGED <<slot, inner, connecting, breaker, call, live, root, undone, revived>>

\* (Mutated: a reused slot is retired too.)
RetireReused(slots, s, next) == [slots EXCEPT ![s].retired = TRUE]

\* retire_replaced_supervisors and activate_supervisors.
Retire(slots, s, next) == IF s = next THEN slots ELSE [slots EXCEPT ![s].retired = TRUE]

Activate(slots, s) ==
  IF slots[s].publishing
  THEN [slots EXCEPT ![s].publishing = FALSE, ![s].state = "Ready",
                     ![s].everReady = TRUE, ![s].endpoint = FALSE]
  ELSE slots

\* publish_built_router, once the gate has run.
Publish(t) ==
  LET next == thread[t].next
      overtaken == \/ live # thread[t].from
                   \/ thread[t].root # None /\ thread[t].root # root
  IN
  /\ thread[t].pc \in {"publish", "refresh"}
  /\ slot' = Activate(Retire(slot, live, next), next)
  /\ live' = next
  /\ IF slot[next].publishing
     THEN RecordSuccess(next) /\ call' = Forget(call, next, {"failure"})
     ELSE UNCHANGED <<breaker, call>>
  /\ thread' = [thread EXCEPT ![t] = NoWork]
  /\ undone' = (overtaken \/ (undone /\ next = live))
  /\ UNCHANGED <<inner, connecting, root, revived>>

-----------------------------------------------------------------------------
(* The downstream server.                                                  *)

\* The server hangs, comes back, goes away, breaks the protocol, or has its event
\* stream's credential refused.
Condition(s) ==
  /\ \/ inner[s] = "open" /\ \E x \in {"wedged", "closed", "reset", "stale"} :
                               inner' = [inner EXCEPT ![s] = x]
     \/ inner[s] = "wedged" /\ \E x \in {"open", "closed"} :
                                 inner' = [inner EXCEPT ![s] = x]
  /\ UNCHANGED <<slot, connecting, breaker, call, live, root, thread, undone, revived>>

\* A slot goes with its last reference, before anything else happens.
Next ==
  \/ \E s \in Slots : Drop(s)
  \/ /\ \A s \in Slots : (Dropped(s) => Empty(s))
     /\ \/ \E c \in Calls : Demand(c) \/ CallStep(c)
        \/ \E s \in Slots : \/ Connected(s) \/ Condition(s) \/ Adopt(s)
                            \/ StopClosed(s) \/ StopIdle(s) \/ Retry(s)
        \/ \E r \in Roots : SetRoot(r)
        \/ \E t \in Threads : Build(t) \/ Publish(t)
        \/ Reload \/ RefreshLists

Spec == Init /\ [][Next]_vars

\* Every thread runs on, a mutex is handed to whoever waits for it, a connection
\* attempt and a call have time limits, and the watcher ticks every second.
Tick == \E s \in Slots : Adopt(s) \/ StopClosed(s) \/ Retry(s)

Fairness ==
  /\ \A c \in Calls : WF_vars(CallStep(c)) /\ SF_vars(Look(c) \/ Fetch(c))
  /\ \A s \in Slots : WF_vars(Connected(s))
  /\ \A t \in Threads : SF_vars(Build(t) \/ Publish(t))
  /\ SF_vars(Tick)
  /\ WF_vars(\E s \in Slots : Drop(s))

FairSpec == Spec /\ Fairness

-----------------------------------------------------------------------------
(* Properties.                                                             *)

TypeOK ==
  /\ slot \in [Slots -> [state: {"Stopped", "Starting", "Ready", "Backoff", "NeedsAuth"},
                         everReady: BOOLEAN, publishing: BOOLEAN, ready: BOOLEAN,
                         endpoint: BOOLEAN, retired: BOOLEAN, spec: Roots]]
  /\ inner \in [Slots -> {"stopped", "open", "wedged", "closed", "reset", "stale"}]
  /\ connecting \in [Slots -> Nat]
  /\ breaker \in [Slots -> [failures: 0..BREAKER_FAILURE_THRESHOLD, open: BOOLEAN]]
  /\ call \in [Calls -> [pc: {"idle", "start", "wait", "breaker", "look", "admit",
                              "fetch", "run", "ended", "record"},
                         slot: Slots \cup {None}, locked: BOOLEAN, probe: BOOLEAN,
                         since: SUBSET {"generation", "success", "response", "failure"},
                         kind: {"none", "ok", "rpc", "auth", "timeout", "down",
                                "rejected", "fatal"},
                         cut: BOOLEAN]]
  /\ live \in Slots /\ root \in Roots
  /\ thread \in [Threads -> [pc: {"idle", "lock", "publish", "refresh"},
                             root: Roots \cup {None}, from: Slots \cup {None},
                             next: Slots \cup {None}]]
  /\ undone \in BOOLEAN /\ revived \subseteq Slots

\* A slot owns at most one connection, counting the one being made and the one that
\* waits to be published, however starts, failures and stops interleave: a second
\* child of the same server is never spawned beside a first (start_at, degrade,
\* maintain).
OneConnection ==
  \A s \in Slots :
    connecting[s] + (IF slot[s].ready THEN 1 ELSE 0)
                  + (IF inner[s] # "stopped" THEN 1 ELSE 0) <= 1

\* No call is admitted to a connection whose catalogue has not passed the gate: of the calls
\* that run between adoption and publication, on any thread, each is on a connection that was
\* stopped or was admitted while the connection before this one served.  Such a call can fetch
\* the adopted one: attempt lets go of the lifecycle lock before it takes the slot lock, and
\* does not compare generations (adopt_ready_reconnects, activate_supervisors, attempt).
NoneAdmittedUngated ==
  \A s \in Slots : slot[s].publishing =>
    \A c \in CallsOn(s) : call[c].pc = "run" => call[c].cut \/ "generation" \in call[c].since

\* A slot that says Ready has a connection (never the stopped transport), except
\* where a call that succeeded on a connection already ended makes it Ready again.
ReadyHasConnection ==
  \A s \in Slots : slot[s].state = "Ready" => inner[s] # "stopped" \/ s \in revived

\* A slot's state and its connections fit together, however late a call's outcome is
\* handled (degrade, record_success, start_at).
SlotsOK == TypeOK /\ OneConnection /\ ReadyHasConnection

\* Once no root change is under way, the published slot is for the client's root and
\* not retired, unless a watcher publication that began earlier put an old one back.
LiveIsCurrent ==
  thread["request"].pc = "idle" /\ ~undone => ~slot[live].retired /\ slot[live].spec = root

\* Stopping a slot that looks idle or wedged never ends a call that is running on it:
\* only a connection that closed by itself takes calls with it (HandleCall, degrade,
\* maintain).
RunningCallsKept ==
  [][\A c \in Calls : (~call[c].cut /\ call'[c].cut) => inner[call[c].slot] \in Closed]_vars

\* The live slot is never left down: a connection that went away is noticed, a retry
\* comes, and a connection that was made is adopted and published, without anybody
\* calling the server (maintain, adopt_reconnected_servers, activate_supervisors).
LeftDown ==
  /\ ~slot[live].retired
  /\ \/ slot[live].state = "Ready" /\ inner[live] \in Closed
     \/ slot[live].state = "Backoff" \/ slot[live].ready \/ slot[live].publishing
LiveRecovers == LeftDown ~> ~LeftDown
=============================================================================
