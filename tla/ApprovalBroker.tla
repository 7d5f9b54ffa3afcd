--------------------------- MODULE ApprovalBroker ---------------------------
(***************************************************************************)
(* Human approval of a gated tool call, end to end: the gateway's gate and *)
(* broker client (toolport-gateway.rs, approval.rs), the broker in the     *)
(* desktop app (approval_broker.rs), the person at the app, and the live   *)
(* tool definition that can change while the call is held.                 *)
(*                                                                         *)
(* A call dials the broker the endpoint file names, at most twice with the *)
(* same correlation id, and runs only on an explicit approval that is      *)
(* still about the tool as it is now.  On the broker's side the waiter is  *)
(* in `pending` while its connection handler blocks on a channel; the      *)
(* person, a disconnect watcher and a deadline race to take it out.        *)
(* Deadlines are abstracted to "may expire".                               *)
(***************************************************************************)
EXTENDS Naturals, FiniteSets

CONSTANTS Calls,            \* gated calls, one correlation id each
          Apps,             \* desktop app processes, each started once
          Defs,             \* fingerprints the tool's definition can have
          None,
          MaxPending,       \* MAX_PENDING
          MaxWorkers,       \* MAX_CONNECTION_WORKERS
          EndsWhileAsking   \* an app can end with a prompt on its screen

Answers == {"approved", "denied", "timeout"}

ASSUME NoneAssumption == None \notin Apps \cup Defs \cup Answers
ASSUME CapAssumption == MaxPending \in Nat /\ MaxWorkers \in Nat
ASSUME EndsAssumption == EndsWhileAsking \in BOOLEAN

VARIABLES app,        \* the life of each app process
          owner,      \* who holds broker/owner.lock
          endpoint,   \* the app the endpoint descriptor names
          pending,    \* calls with a waiter in the broker's map
          session,    \* session_allow, as the fingerprints it is bound to
          always,     \* human_approval_allow in the registry, likewise
          pc,         \* where the gateway is with each call
          attempt,    \* the first or the second dial
          cancelled,  \* the client withdrew the call
          gateDef,    \* the fingerprint the gate captured
          conn,       \* the app the call's connection goes to
          handler,    \* the broker's thread for that connection
          deciding,   \* decide() has the waiter and has not sent yet
          chan,       \* what was sent to the handler
          reply,      \* what the handler wrote to the gateway
          def,        \* the live definition of the tool
          blocked,    \* the live router blocks the tool
          asked,      \* how often a person was shown this call
          said,       \* the answers decide() acknowledged for this call
          consented,  \* the fingerprints those approvals, or an allow, were about
          ranDef      \* the definition the call ran against

appVars == <<app, owner, endpoint>>
allowVars == <<session, always>>
gateVars == <<pc, attempt, gateDef>>
brokerVars == <<pending, handler, deciding, chan, reply>>
toolVars == <<def, blocked>>
histVars == <<asked, said, consented, ranDef>>
vars == <<appVars, allowVars, gateVars, brokerVars, cancelled, conn, toolVars, histVars>>

MaxAttempts == 2

Init ==
  /\ app = [i \in Apps |-> "off"] /\ owner = None /\ endpoint = None
  /\ pending = {} /\ session = {} /\ always = {}
  /\ pc = [c \in Calls |-> "idle"] /\ attempt = [c \in Calls |-> 1]
  /\ cancelled = [c \in Calls |-> FALSE]
  /\ gateDef = [c \in Calls |-> None] /\ conn = [c \in Calls |-> None]
  /\ handler = [c \in Calls |-> "none"]
  /\ deciding = [c \in Calls |-> None] /\ chan = [c \in Calls |-> None]
  /\ reply = [c \in Calls |-> None]
  /\ def \in Defs /\ blocked = FALSE
  /\ asked = [c \in Calls |-> 0] /\ said = [c \in Calls |-> {}]
  /\ consented = [c \in Calls |-> {}] /\ ranDef = [c \in Calls |-> None]

-----------------------------------------------------------------------------
(* The desktop app: start_with_host, clear_endpoint, the end of a process. *)

Listening(i) == app[i] \in {"live", "closing"}

\* existing_broker_is_live: an app that finds a broker answering stays inert.
AppCheck(i) ==
  /\ app[i] = "off"
  /\ app' = [app EXCEPT ![i] = IF endpoint # None /\ Listening(endpoint) THEN "inert" ELSE "checked"]
  /\ UNCHANGED <<owner, endpoint, allowVars, gateVars, brokerVars, cancelled, conn, toolVars, histVars>>

\* acquire_owner_lock: try_lock, or stay inert.
OwnerFree == owner = None

AppLock(i) ==
  /\ app[i] = "checked"
  /\ \/ OwnerFree /\ owner' = i /\ app' = [app EXCEPT ![i] = "owner"]
     \/ ~OwnerFree /\ UNCHANGED owner /\ app' = [app EXCEPT ![i] = "inert"]
  /\ UNCHANGED <<endpoint, allowVars, gateVars, brokerVars, cancelled, conn, toolVars, histVars>>

\* bind_listeners and the descriptor.  A descriptor that cannot be written is
\* ignored; without a listener the app keeps the lock and nobody can reach it.
AppPublish(i) ==
  /\ app[i] = "owner"
  /\ app' = [app EXCEPT ![i] = "live"]
  /\ endpoint' \in {i, endpoint}
  /\ UNCHANGED <<owner, allowVars, gateVars, brokerVars, cancelled, conn, toolVars, histVars>>

\* clear_endpoint on the way out: only the owner removes the descriptor.
OwnsEndpointUnchecked(i) == TRUE
OwnsEndpoint(i) == owner = i

AppClear(i) ==
  /\ app[i] \in {"owner", "live", "inert"}
  /\ app' = [app EXCEPT ![i] = IF app[i] = "live" THEN "closing" ELSE "leaving"]
  /\ endpoint' = IF OwnsEndpoint(i) THEN None ELSE endpoint
  /\ UNCHANGED <<owner, allowVars, gateVars, brokerVars, cancelled, conn, toolVars, histVars>>

\* The process ends, with or without having cleared its endpoint: its lock is
\* released, its session allows are gone and every connection is closed.
Serving(i) == {c \in Calls : conn[c] = i /\ handler[c] \in {"open", "sent", "parked", "woken"}}

AppEnd(i) ==
  /\ app[i] \notin {"off", "gone"}
  /\ Serving(i) # {} => EndsWhileAsking
  /\ app' = [app EXCEPT ![i] = "gone"]
  /\ owner' = IF owner = i THEN None ELSE owner
  /\ IF Listening(i)
     THEN /\ pending' = {} /\ session' = {}
          /\ handler' = [c \in Calls |-> IF c \in Serving(i) THEN "closed" ELSE handler[c]]
          /\ chan' = [c \in Calls |-> None]
          /\ deciding' = [c \in Calls |-> None]
     ELSE UNCHANGED <<pending, session, handler, chan, deciding>>
  /\ UNCHANGED <<endpoint, always, gateVars, reply, cancelled, conn, toolVars, histVars>>

-----------------------------------------------------------------------------
(* The gateway: the gate, request_human_decision_with_cancel,              *)
(* try_decide_once_with_cancel and the checks after an approval.           *)

\* refused_call_result: denied, no response, unreachable, withdrawn or stale.
Refuse(c) == pc' = [pc EXCEPT ![c] = "refused"]

\* A gated call arrives; the gate captures the tool as the request sees it.
Gate(c) ==
  /\ pc[c] = "idle" /\ ~blocked
  /\ pc' = [pc EXCEPT ![c] = "dial"]
  /\ gateDef' = [gateDef EXCEPT ![c] = def]
  /\ UNCHANGED <<appVars, allowVars, attempt, brokerVars, cancelled, conn, toolVars, histVars>>

\* dial_broker against the descriptor just read: the broker proves its token.
\* Beyond the worker cap the broker closes the connection before that.
Workers == {c \in Calls : handler[c] \in {"open", "sent", "parked", "woken"}}

Dial(c) ==
  /\ pc[c] = "dial" /\ ~cancelled[c]
  /\ endpoint # None /\ Listening(endpoint)
  /\ Cardinality(Workers) < MaxWorkers
  /\ conn' = [conn EXCEPT ![c] = endpoint]
  /\ handler' = [handler EXCEPT ![c] = "open"]
  /\ pc' = [pc EXCEPT ![c] = "send"]
  /\ UNCHANGED <<appVars, allowVars, attempt, gateDef, pending, deciding, chan, reply,
                 cancelled, toolVars, histVars>>

\* BrokerAttempt::Unreachable: read the descriptor again and dial once more.
CanRetry(c) == attempt[c] < MaxAttempts

Unreachable(c) ==
  \/ /\ CanRetry(c)
     /\ attempt' = [attempt EXCEPT ![c] = @ + 1]
     /\ pc' = [pc EXCEPT ![c] = "dial"]
  \/ ~CanRetry(c) /\ Refuse(c) /\ UNCHANGED attempt

\* No descriptor, nobody there, no proof in time.  (Mutated: a gateway that
\* waits for a descriptor to appear.)
DialWaitsForEndpoint(c) ==
  /\ pc[c] = "dial" /\ ~cancelled[c] /\ endpoint # None
  /\ Unreachable(c)
  /\ UNCHANGED <<appVars, allowVars, gateDef, brokerVars, cancelled, conn, toolVars, histVars>>

DialFails(c) ==
  /\ pc[c] = "dial" /\ ~cancelled[c]
  /\ Unreachable(c)
  /\ UNCHANGED <<appVars, allowVars, gateDef, brokerVars, cancelled, conn, toolVars, histVars>>

\* The request line is written, be it to a handler that has just hung up, or
\* fails to go across.
Send(c) ==
  /\ pc[c] = "send" /\ ~cancelled[c]
  /\ handler' = [handler EXCEPT ![c] = IF @ = "open" THEN "sent" ELSE @]
  /\ pc' = [pc EXCEPT ![c] = "wait"]
  /\ reply' = [reply EXCEPT ![c] = None]
  /\ UNCHANGED <<appVars, allowVars, attempt, gateDef, pending, deciding, chan,
                 cancelled, conn, toolVars, histVars>>

SendFails(c) ==
  /\ pc[c] = "send" /\ ~cancelled[c]
  /\ handler' = [handler EXCEPT ![c] = "closed"]
  /\ Unreachable(c)
  /\ UNCHANGED <<appVars, allowVars, gateDef, pending, deciding, chan, reply, cancelled, conn,
                 toolVars, histVars>>

\* exchange_approval_request: a decision is read.
ReadReply(c) ==
  /\ pc[c] = "wait" /\ reply[c] # None
  /\ IF reply[c] = "approved"
     THEN pc' = [pc EXCEPT ![c] = "approved"]
     ELSE Refuse(c)
  /\ UNCHANGED <<appVars, allowVars, attempt, gateDef, brokerVars, cancelled, conn, toolVars, histVars>>

\* The connection ended without one: end of file counts as unreachable, any
\* other read error as a timeout.
ReadEnds(c) ==
  /\ pc[c] = "wait" /\ ~cancelled[c]
  /\ handler[c] = "closed" /\ reply[c] = None
  /\ Unreachable(c) \/ (Refuse(c) /\ UNCHANGED attempt)
  /\ UNCHANGED <<appVars, allowVars, gateDef, brokerVars, cancelled, conn, toolVars, histVars>>

\* DEFAULT_TIMEOUT_SECS on the gateway's side: decided, never dialled again.
GatewayTimeoutRetries(c) ==
  /\ pc[c] = "wait"
  /\ Unreachable(c)
  /\ UNCHANGED <<appVars, allowVars, gateDef, brokerVars, cancelled, conn, toolVars, histVars>>

GatewayTimeout(c) ==
  /\ pc[c] = "wait"
  /\ Refuse(c)
  /\ UNCHANGED <<appVars, allowVars, attempt, gateDef, brokerVars, cancelled, conn, toolVars, histVars>>

\* The client goes away; the gateway shuts the connection and gives up,
\* unless an answer it already has is read first.
Cancel(c) ==
  /\ pc[c] \in {"dial", "send", "wait"} /\ ~cancelled[c]
  /\ cancelled' = [cancelled EXCEPT ![c] = TRUE]
  /\ UNCHANGED <<appVars, allowVars, gateVars, brokerVars, conn, toolVars, histVars>>

Withdraw(c) ==
  /\ pc[c] \in {"dial", "send", "wait"} /\ cancelled[c]
  /\ Refuse(c)
  /\ UNCHANGED <<appVars, allowVars, attempt, gateDef, brokerVars, cancelled, conn, toolVars, histVars>>

\* post_hitl_revalidation on the live router, which is the one that then runs
\* the call: same owner and definition as at the gate, and not blocked.
StillApprovedUnchecked(c) == TRUE
StillApproved(c) == def = gateDef[c] /\ ~blocked

Revalidate(c) ==
  /\ pc[c] = "approved"
  /\ IF StillApproved(c)
     THEN /\ pc' = [pc EXCEPT ![c] = "ran"] /\ ranDef' = [ranDef EXCEPT ![c] = def]
     ELSE Refuse(c) /\ UNCHANGED ranDef
  /\ UNCHANGED <<appVars, allowVars, attempt, gateDef, brokerVars, cancelled, conn, toolVars,
                 asked, said, consented>>

-----------------------------------------------------------------------------
(* The broker: handle_conn, its watcher thread, and decide().              *)

\* The gateway has closed its end of the connection.
GatewayGone(c) == pc[c] # "wait" \/ cancelled[c]

Write(c, d) ==
  /\ reply' = [reply EXCEPT ![c] = d]
  /\ handler' = [handler EXCEPT ![c] = "closed"]

\* preflight found a fingerprint-bound allow: approved without a prompt.
AutoApprove(c) ==
  /\ handler[c] = "sent"
  /\ gateDef[c] \in session \cup always
  /\ Write(c, "approved")
  /\ consented' = [consented EXCEPT ![c] = @ \cup {gateDef[c]}]
  /\ UNCHANGED <<appVars, allowVars, gateVars, pending, deciding, chan, cancelled, conn, toolVars,
                 asked, said, ranDef>>

NeedsPerson(c) == handler[c] = "sent" /\ gateDef[c] \notin session \cup always

HasRoom == Cardinality(pending) < MaxPending

\* The queue is full, or this id is already parked: denied at once.
DenyAtOnce(c) ==
  /\ NeedsPerson(c)
  /\ ~HasRoom \/ c \in pending
  /\ Write(c, "denied")
  /\ UNCHANGED <<appVars, allowVars, gateVars, pending, deciding, chan, cancelled, conn, toolVars, histVars>>

\* Parked: the prompt is on the screen.
Park(c) ==
  /\ NeedsPerson(c)
  /\ HasRoom /\ c \notin pending
  /\ pending' = pending \cup {c}
  /\ handler' = [handler EXCEPT ![c] = "parked"]
  /\ chan' = [chan EXCEPT ![c] = None]
  /\ asked' = [asked EXCEPT ![c] = @ + 1]
  /\ UNCHANGED <<appVars, allowVars, gateVars, deciding, reply, cancelled, conn, toolVars,
                 said, consented, ranDef>>

\* The gateway left before it sent a request, or took longer than the ten
\* seconds a handler waits for one.
Hangup(c) ==
  /\ handler[c] = "open"
  /\ handler' = [handler EXCEPT ![c] = "closed"]
  /\ UNCHANGED <<appVars, allowVars, gateVars, pending, deciding, chan, reply, cancelled, conn,
                 toolVars, histVars>>

\* decide(): the waiter is taken out, and the person is told it worked.
Decide(c, d) ==
  /\ c \in pending
  /\ pending' = pending \ {c}
  /\ deciding' = [deciding EXCEPT ![c] = d]
  /\ said' = [said EXCEPT ![c] = @ \cup {d}]
  /\ UNCHANGED <<appVars, allowVars, gateVars, handler, chan, reply, cancelled, conn, toolVars,
                 asked, consented, ranDef>>

\* decide() sends, a handler that has woken meanwhile notwithstanding, and the
\* command adds the allow its scope asks for.
Deliver(c) ==
  /\ deciding[c] # None
  /\ chan' = [chan EXCEPT ![c] = IF handler[c] = "parked" THEN deciding[c] ELSE @]
  /\ deciding' = [deciding EXCEPT ![c] = None]
  /\ consented' = IF deciding[c] = "approved"
                  THEN [consented EXCEPT ![c] = @ \cup {gateDef[c]}] ELSE consented
  /\ \/ UNCHANGED allowVars
     \/ /\ deciding[c] = "approved"
        /\ session' = session \cup {gateDef[c]}
        /\ always' \in {always, always \cup {gateDef[c]}}
  /\ UNCHANGED <<appVars, gateVars, pending, handler, reply, cancelled, conn, toolVars,
                 asked, said, ranDef>>

\* disconnect_decision: the peer closed, or the read deadline passed.  The
\* watcher takes the waiter if it is still there and answers for it.
WatcherEnds(c, d) ==
  /\ c \in pending
  /\ d = "denied" => GatewayGone(c)
  /\ pending' = pending \ {c}
  /\ chan' = [chan EXCEPT ![c] = IF handler[c] = "parked" THEN d ELSE @]
  /\ UNCHANGED <<appVars, allowVars, gateVars, handler, deciding, reply, cancelled, conn, toolVars, histVars>>

\* recv_timeout returns: with what was sent, or with a timeout of its own.
OnDeadline == "timeout"

Wake(c) ==
  /\ handler[c] = "parked"
  /\ chan' = [chan EXCEPT ![c] = IF @ = None THEN OnDeadline ELSE @]
  /\ handler' = [handler EXCEPT ![c] = "woken"]
  /\ UNCHANGED <<appVars, allowVars, gateVars, pending, deciding, reply, cancelled, conn, toolVars, histVars>>

\* The handler makes sure the waiter is gone and writes the decision.
AnswerWithoutCleanup(c) ==
  /\ handler[c] = "woken"
  /\ Write(c, chan[c])
  /\ chan' = [chan EXCEPT ![c] = None]
  /\ UNCHANGED <<appVars, allowVars, gateVars, pending, deciding, cancelled, conn, toolVars, histVars>>

Answer(c) ==
  /\ handler[c] = "woken"
  /\ pending' = pending \ {c}
  /\ Write(c, chan[c])
  /\ chan' = [chan EXCEPT ![c] = None]
  /\ UNCHANGED <<appVars, allowVars, gateVars, deciding, cancelled, conn, toolVars, histVars>>

\* A person revokes an allow.
Revoke(d) ==
  /\ session' = session \ {d} /\ always' = always \ {d}
  /\ UNCHANGED <<appVars, gateVars, brokerVars, cancelled, conn, toolVars, histVars>>

-----------------------------------------------------------------------------
(* The live router: a rebuild changes the definition, quarantine blocks.   *)
ToolChanges ==
  /\ def' \in Defs /\ blocked' \in BOOLEAN
  /\ UNCHANGED <<appVars, allowVars, gateVars, brokerVars, cancelled, conn, histVars>>

AppStep(i) == AppCheck(i) \/ AppLock(i) \/ AppPublish(i) \/ AppClear(i) \/ AppEnd(i)

GatewayStep(c) ==
  \/ Dial(c) \/ DialFails(c) \/ Send(c) \/ SendFails(c)
  \/ ReadReply(c) \/ ReadEnds(c) \/ GatewayTimeout(c) \/ Withdraw(c) \/ Revalidate(c)

HandlerStep(c) ==
  AutoApprove(c) \/ DenyAtOnce(c) \/ Park(c) \/ Hangup(c) \/ Wake(c) \/ Answer(c)

WatcherStep(c) == \E d \in {"denied", "timeout"} : WatcherEnds(c, d)
PersonStep(c) == (\E d \in {"approved", "denied"} : Decide(c, d)) \/ Deliver(c)

CallStep(c) ==
  Gate(c) \/ GatewayStep(c) \/ Cancel(c) \/ HandlerStep(c) \/ WatcherStep(c) \/ PersonStep(c)

Next ==
  \/ \E i \in Apps : AppStep(i)
  \/ \E c \in Calls : CallStep(c)
  \/ \E d \in Defs : Revoke(d)
  \/ ToolChanges

Spec == Init /\ [][Next]_vars

\* The gateway's own deadlines and the handler's recv_timeout always expire;
\* nothing is asked of the person, the app's life or the tool.
Fairness ==
  \A c \in Calls : WF_vars(GatewayStep(c)) /\ WF_vars(HandlerStep(c))
FairSpec == Spec /\ Fairness

-----------------------------------------------------------------------------
(* Properties.                                                             *)

\* Every variable has its type.
TypeOK ==
  /\ app \in [Apps -> {"off", "checked", "owner", "live", "closing", "inert", "leaving", "gone"}]
  /\ owner \in Apps \cup {None} /\ endpoint \in Apps \cup {None}
  /\ pending \subseteq Calls /\ session \subseteq Defs /\ always \subseteq Defs
  /\ pc \in [Calls -> {"idle", "dial", "send", "wait", "approved", "ran", "refused"}]
  /\ attempt \in [Calls -> 1..MaxAttempts]
  /\ cancelled \in [Calls -> BOOLEAN]
  /\ gateDef \in [Calls -> Defs \cup {None}] /\ conn \in [Calls -> Apps \cup {None}]
  /\ handler \in [Calls -> {"none", "open", "sent", "parked", "woken", "closed"}]
  /\ deciding \in [Calls -> {"approved", "denied", None}]
  /\ chan \in [Calls -> Answers \cup {None}] /\ reply \in [Calls -> Answers \cup {None}]
  /\ def \in Defs /\ blocked \in BOOLEAN
  /\ asked \in [Calls -> Nat] /\ said \in [Calls -> SUBSET {"approved", "denied"}]
  /\ consented \in [Calls -> SUBSET Defs] /\ ranDef \in [Calls -> Defs \cup {None}]

\* A gated call runs only against a definition somebody approved it for: a
\* person saw this very call with it, or allowed the tool with it.
RunsWhatWasApproved == \A c \in Calls : pc[c] = "ran" => ranDef[c] \in consented[c]

\* The broker never makes up an approval: what it writes, and what reaches
\* the gateway as approved, is an answer acknowledged to the person or an
\* allow that matched.
ApprovalsAreReal ==
  \A c \in Calls :
    reply[c] = "approved" \/ pc[c] \in {"approved", "ran"} => gateDef[c] \in consented[c]

\* A person is shown a call once.  (While apps do not end under a prompt.)
AskedOnce == \A c \in Calls : asked[c] <= 1

\* A call the person denied does not run.  (Under the same condition.)
DeniedNeverRuns == \A c \in Calls : "denied" \in said[c] => pc[c] \notin {"approved", "ran"}

\* One question, one answer: whichever of the gateway's deadline, the disconnect
\* watcher, the retry and the person comes first, a call is put to the person once
\* and a no stands.
OneAnswer == AskedOnce /\ DeniedNeverRuns

\* A card on the screen has a handler behind it in a running app.
CardsAreLive ==
  \A c \in pending : handler[c] \in {"parked", "woken"} /\ Listening(conn[c])

\* One broker listens at a time, and only the lock's owner does.
OneBroker == \A i \in Apps : Listening(i) => owner = i

\* The descriptor of a broker that goes on serving is not removed or replaced
\* by an app that starts or leaves beside it.
EndpointKept ==
  [][\A i \in Apps : endpoint = i /\ app[i] = "live" /\ app'[i] = "live" => endpoint' = i]_vars

\* The inductive invariants the proofs use.  Before the gate a call has left
\* no trace, so what the gate captures is what everything later is about.
IdleIsClean ==
  \A c \in Calls :
    /\ pc[c] = "idle" => /\ handler[c] = "none" /\ c \notin pending /\ deciding[c] = None
                         /\ chan[c] = None /\ reply[c] = None
    /\ pc[c] # "idle" => gateDef[c] \in Defs

\* An approval in the channel, on the wire or at the gateway has its consent.
ConsentInv ==
  \A c \in Calls :
    /\ \/ chan[c] = "approved" \/ reply[c] = "approved" \/ pc[c] \in {"approved", "ran"}
       => gateDef[c] \in consented[c]
    /\ pc[c] = "ran" => ranDef[c] = gateDef[c]

\* From the moment it starts up to its end the owner holds the lock.
OwnerInv == \A i \in Apps : app[i] \in {"owner", "live", "closing"} => owner = i

\* Where a connection is on the broker's side, against where its gateway is.
Busy == {"open", "sent", "parked", "woken"}
HandlerInv ==
  \A c \in Calls :
    /\ handler[c] \in Busy => conn[c] \in Apps /\ Listening(conn[c])
    /\ c \in pending => /\ handler[c] \in {"parked", "woken"} /\ deciding[c] = None
                        /\ chan[c] \in {None, "timeout"}
    /\ handler[c] = "woken" => chan[c] # None
    /\ chan[c] # None => handler[c] \in {"parked", "woken"}
    /\ reply[c] # None => handler[c] = "closed" /\ pc[c] \notin {"idle", "dial", "send"}
    /\ pc[c] = "dial" => handler[c] \in {"none", "closed"}
    /\ handler[c] = "open" => pc[c] \in {"send", "refused"}
    /\ handler[c] \in {"sent", "parked", "woken"} => pc[c] \in {"wait", "refused"}
    /\ deciding[c] # None => handler[c] \in {"parked", "woken"} \/ reply[c] # None

\* A person who was asked is either still waited for, or the gateway has, or
\* will read, an answer: it never dials again.
AskInv ==
  \A c \in Calls :
    /\ asked[c] \in {0, 1}
    /\ handler[c] \in {"none", "open", "sent"} \/ pc[c] \in {"idle", "dial", "send"} => asked[c] = 0
    /\ handler[c] = "closed" /\ pc[c] = "wait" /\ reply[c] = None => asked[c] = 0
    /\ asked[c] = 0 => said[c] = {} /\ c \notin pending
    /\ c \in pending => said[c] = {}
    /\ "denied" \in said[c] => /\ deciding[c] # "approved" /\ chan[c] # "approved"
                               /\ reply[c] # "approved" /\ pc[c] \notin {"approved", "ran"}

\* What the abstract gate sees of a call: it is held from the gate on, an allow or the
\* person's answer is its verdict, and what it was shown with is what the gate captured.
Verdict ==
  [c \in Calls |-> IF "denied" \in said[c] THEN "no"
                   ELSE IF said[c] # {} \/ consented[c] # {} THEN "yes"
                   ELSE IF pc[c] = "idle" THEN "unasked" ELSE "asked"]
Executed == {<<c, ranDef[c]>> : c \in {x \in Calls : pc[x] = "ran"}}

\* The approval path implements the abstract gate of the re-entrant one: a call gets one
\* verdict, which stays, and only a yes lets it run, as the gate captured it
\* (execute_call, request_human_decision_with_cancel, post_hitl_revalidation).
\* (While apps do not end under a prompt.)
Held == INSTANCE HeldCall WITH Prompts <- Calls, Contents <- Defs, Nothing <- None,
                               verdict <- Verdict, shown <- gateDef, ran <- Executed
BrokerImplementsHeldCall == Held!Spec

\* A verdict comes after the last dial: whatever may still be asked has no consent yet.
VerdictInv ==
  \A c \in Calls :
    /\ handler[c] \in {"none", "open", "sent"} \/ pc[c] \in {"idle", "dial", "send"}
       => consented[c] = {}
    /\ handler[c] = "closed" /\ pc[c] = "wait" /\ reply[c] = None => consented[c] = {}
    /\ c \in pending => consented[c] = {}
    /\ deciding[c] = "approved" => "approved" \in said[c]

\* A gated call is settled: it runs or it is refused.
CallSettles == \A c \in Calls : pc[c] = "dial" ~> pc[c] \in {"ran", "refused"}

=============================================================================
