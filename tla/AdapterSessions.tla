--------------------------- MODULE AdapterSessions ---------------------------
(***************************************************************************)
(* One stdio adapter (stdio_adapter.rs): the calls its client has in       *)
(* flight, the heartbeat, and the recovery that moves the adapter to       *)
(* another session, another host daemon or a private gateway.              *)
(*                                                                         *)
(* Calls share a gate for reading, a recovery takes it for writing, and    *)
(* mark_wedged replaces it, so that calls stuck on a silent daemon keep    *)
(* the old one; recoveries are serialised by a mutex.  Daemons and         *)
(* sessions are numbered as they appear.  The client has shaken hands: its *)
(* initialize and initialized are remembered, and every call is a legacy   *)
(* request.  The listen and lifetime streams, subscriptions and a second   *)
(* initialize are left out.                                                *)
(***************************************************************************)
EXTENDS Naturals, FiniteSets, FiniteSetsExt

CONSTANTS Calls,       \* requests of the client
          Beat,        \* the heartbeat thread
          Nobody,
          MaxDaemons,  \* bound on daemons and private gateways
          MaxSessions, \* bound on sessions opened
          MaxFaults    \* bound on what goes wrong outside the adapter

ASSUME ThreadAssumption == Beat \notin Calls /\ Nobody \notin Calls \cup {Beat}
ASSUME CallsAssumption == IsFiniteSet(Calls)
ASSUME BoundAssumption ==
    MaxDaemons \in Nat \ {0} /\ MaxSessions \in Nat \ {0} /\ MaxFaults \in Nat \ {0}

VARIABLES daemon,    \* state of each daemon
          host,      \* the latest shared daemon; the others are private gateways
          private,   \* the private gateway the adapter holds, 0 if none
          owner,     \* the daemon that opened each session, 0 if not opened
          valid,     \* sessions their daemon still accepts
          inited,    \* sessions that were given notifications/initialized
          desc, sid, stale, gate, serial, wedged,  \* the Session of the adapter
          stopping, closed,
          th,        \* what each thread is doing
          faults,
          ran,       \* history: how often each call was dispatched
          marked,    \* history: daemons that were marked as wedged
          skipped    \* history: sessions taken over from a recovery that failed after opening them

world == <<daemon, host, private, owner, valid, inited>>
history == <<ran, marked, skipped>>
session == <<desc, sid, stale, gate, wedged>>
vars == <<world, session, serial, stopping, closed, th, faults, history>>

Threads == Calls \cup {Beat}
Daemons == 1..MaxDaemons
Sessions == 1..MaxSessions
Gates == 1..(Cardinality(Calls) + 2)   \* always one is fresh: one no thread knows is free again

HEALTHY == 0
SESSION_REFUSED == 1
DAEMON_LOST == 2
DAEMON_WEDGED == 3

Thread == [pc : {"idle", "start", "read", "rserial", "write", "wserial", "recover", "reopen",
                 "init", "initd", "post", "apply", "probed", "done"},
           gate : {0} \cup Gates, mode : {"none", "r", "w"}, lvl : HEALTHY..DAEMON_WEDGED,
           d : 0..MaxDaemons, s : 0..MaxSessions, again : BOOLEAN, sent : BOOLEAN]
Idle == [pc |-> "idle", gate |-> 0, mode |-> "none", lvl |-> HEALTHY, d |-> 0, s |-> 0,
         again |-> FALSE, sent |-> FALSE]
Done == [Idle EXCEPT !.pc = "done"]

TypeOK ==
    /\ daemon \in [Daemons -> {"none", "up", "silent", "gone"}] /\ host \in Daemons
    /\ private \in 0..MaxDaemons
    /\ owner \in [Sessions -> 0..MaxDaemons] /\ valid \subseteq Sessions /\ inited \subseteq Sessions
    /\ desc \in Daemons /\ sid \in 0..MaxSessions /\ stale \in HEALTHY..DAEMON_WEDGED
    /\ gate \in Gates /\ wedged \in 0..MaxDaemons
    /\ serial \in Threads \cup {Nobody}
    /\ stopping \in BOOLEAN /\ closed \in {"no", "closed", "deleted"}
    /\ th \in [Threads -> Thread]
    /\ faults \in 0..MaxFaults /\ ran \in [Calls -> Nat]
    /\ marked \subseteq Daemons /\ skipped \subseteq Sessions

Init ==
    /\ daemon = [d \in Daemons |-> IF d = 1 THEN "up" ELSE "none"] /\ host = 1
    /\ private = 0
    /\ owner = [s \in Sessions |-> IF s = 1 THEN 1 ELSE 0] /\ valid = {1} /\ inited = {1}
    /\ desc = 1 /\ sid = 1 /\ stale = HEALTHY /\ gate = 1 /\ wedged = 0
    /\ serial = Nobody /\ stopping = FALSE /\ closed = "no"
    /\ th = [t \in Threads |-> Idle]
    /\ faults = 0 /\ ran = [c \in Calls |-> 0] /\ marked = {} /\ skipped = {}

-----------------------------------------------------------------------------
(* Threads, gates and the session.                                         *)

Go(t, r) == th' = [th EXCEPT ![t] = r]
Holders(g, modes) == {t \in Threads : th[t].gate = g /\ th[t].mode \in modes}

Raise(level) == Max({stale, level})

Fault == faults < MaxFaults /\ faults' = faults + 1
NoFault == UNCHANGED faults

\* The client sends a request while it is connected.
Dispatch(c) ==
    /\ th[c].pc = "idle" /\ ~stopping
    /\ Go(c, [Idle EXCEPT !.pc = "start"])
    /\ UNCHANGED <<world, session, serial, stopping, closed, faults, history>>

\* exchange_once: a healthy session is used under the shared gate, another one rebuilt under
\* the exclusive one.
Start(c) ==
    /\ th[c].pc = "start"
    /\ Go(c, [th[c] EXCEPT !.pc = IF stale = HEALTHY THEN "read" ELSE "write", !.gate = gate])
    /\ UNCHANGED <<world, session, serial, stopping, closed, faults, history>>

Enter(c) ==
    /\ \/ /\ th[c].pc = "read" /\ Holders(th[c].gate, {"w"}) = {}
          /\ Go(c, [th[c] EXCEPT !.pc = "rserial", !.mode = "r"])
       \/ /\ th[c].pc = "write" /\ Holders(th[c].gate, {"r", "w"}) = {}
          /\ Go(c, [th[c] EXCEPT !.pc = "wserial", !.mode = "w"])
    /\ UNCHANGED <<world, session, serial, stopping, closed, faults, history>>

\* The pair a request is sent with is read while no recovery runs.
Sending(t, d, s) == [th[t] EXCEPT !.pc = "post", !.lvl = HEALTHY, !.d = d, !.s = s]

\* (Mutated: the gate is not compared again.)
EnterHealthyOldGate(c) ==
    /\ th[c].pc = "rserial" /\ serial = Nobody
    /\ IF stale = HEALTHY
       THEN Go(c, Sending(c, desc, sid))
       ELSE Go(c, [th[c] EXCEPT !.pc = "write", !.gate = gate, !.mode = "none"])
    /\ UNCHANGED <<world, session, serial, stopping, closed, faults, history>>

EnterHealthy(c) ==
    /\ th[c].pc = "rserial" /\ serial = Nobody
    /\ IF th[c].gate # gate
       THEN Go(c, [th[c] EXCEPT !.pc = "start", !.gate = 0, !.mode = "none"])
       ELSE IF stale = HEALTHY
       THEN Go(c, Sending(c, desc, sid))
       ELSE Go(c, [th[c] EXCEPT !.pc = "write", !.gate = gate, !.mode = "none"])
    /\ UNCHANGED <<world, session, serial, stopping, closed, faults, history>>

EnterStale(c) ==
    /\ th[c].pc = "wserial" /\ serial = Nobody
    /\ \/ /\ th[c].gate # gate
          /\ Go(c, [th[c] EXCEPT !.pc = "start", !.gate = 0, !.mode = "none"])
          /\ UNCHANGED <<stale, serial>>
       \/ /\ th[c].gate = gate /\ stale = HEALTHY
          /\ Go(c, Sending(c, desc, sid)) /\ UNCHANGED <<stale, serial>>
       \/ /\ th[c].gate = gate /\ stale # HEALTHY
          /\ Go(c, [th[c] EXCEPT !.pc = "recover", !.lvl = stale])
          /\ stale' = HEALTHY /\ serial' = c
    /\ UNCHANGED <<world, desc, sid, gate, wedged, stopping, closed, faults, history>>

-----------------------------------------------------------------------------
(* recover_serialized.                                                     *)

\* The recovery failed; what made it necessary is noted again.
Failed(t) ==
    /\ stale' = Raise(th[t].lvl) /\ serial' = Nobody
    /\ Go(t, IF t = Beat THEN Idle ELSE Done)
FailedFor(t, level) ==
    /\ stale' = Max({stale, th[t].lvl, level}) /\ serial' = Nobody
    /\ Go(t, IF t = Beat THEN Idle ELSE Done)

\* The recovery is over: the call that needed it goes out, still under the exclusive gate.
Recovered(t, s) ==
    /\ serial' = Nobody
    /\ Go(t, IF t = Beat THEN Idle ELSE Sending(t, desc, s))

Started == {d \in Daemons : daemon[d] # "none"}
NextDaemon == Cardinality(Started) + 1

\* A gateway of the adapter's own, when the shared daemon is alive and silent.  The one it had
\* loses its stdin and ends.
UsePrivateGateway(t) ==
    \/ /\ NextDaemon \in Daemons /\ NoFault
       /\ daemon' = [d \in Daemons |-> IF d = NextDaemon THEN "up"
                                      ELSE IF d = private THEN "gone" ELSE daemon[d]]
       /\ private' = NextDaemon /\ desc' = NextDaemon
       /\ Go(t, [th[t] EXCEPT !.pc = "reopen"]) /\ UNCHANGED <<host, stale, serial>>
    \/ /\ Fault \/ (NextDaemon \notin Daemons /\ NoFault)
       /\ Failed(t) /\ UNCHANGED <<daemon, host, private, desc>>

\* Rendezvous::ensure_known: the shared daemon if it answers, a new one if it is gone.
EnsureKnown(t) ==
    \/ /\ daemon[host] = "up" /\ desc' = host /\ NoFault
       /\ Go(t, [th[t] EXCEPT !.pc = "reopen"]) /\ UNCHANGED <<daemon, host, private, stale, serial>>
    \/ /\ daemon[host] = "gone" /\ NextDaemon \in Daemons /\ NoFault
       /\ daemon' = [daemon EXCEPT ![NextDaemon] = "up"] /\ host' = NextDaemon /\ desc' = NextDaemon
       /\ Go(t, [th[t] EXCEPT !.pc = "reopen"]) /\ UNCHANGED <<private, stale, serial>>
    \/ daemon[host] = "silent" /\ UsePrivateGateway(t)
    \/ /\ Fault \/ (daemon[host] = "gone" /\ NextDaemon \notin Daemons /\ NoFault)
       /\ Failed(t) /\ UNCHANGED <<daemon, host, private, desc>>

Recover(t) ==
    /\ th[t].pc = "recover"
    /\ \/ /\ stopping /\ Failed(t) /\ NoFault /\ UNCHANGED <<daemon, host, private, desc, skipped>>
       \/ /\ ~stopping /\ th[t].lvl = DAEMON_WEDGED /\ wedged = desc
          /\ UsePrivateGateway(t) /\ UNCHANGED skipped
       \/ /\ ~stopping /\ th[t].lvl = DAEMON_WEDGED /\ wedged # desc /\ sid # 0 /\ NoFault
          /\ Recovered(t, sid) /\ skipped' = skipped \cup ({sid} \ inited)
          /\ UNCHANGED <<daemon, host, private, desc, stale>>
       \/ /\ ~stopping /\ NoFault
          /\ th[t].lvl = SESSION_REFUSED \/ (th[t].lvl = DAEMON_WEDGED /\ wedged # desc /\ sid = 0)
          /\ Go(t, [th[t] EXCEPT !.pc = "reopen"])
          /\ UNCHANGED <<daemon, host, private, desc, stale, serial, skipped>>
       \/ ~stopping /\ th[t].lvl = DAEMON_LOST /\ EnsureKnown(t) /\ UNCHANGED skipped
    /\ UNCHANGED <<owner, valid, inited, sid, gate, wedged, stopping, closed, ran, marked>>

\* The old session is forgotten before the handshake is replayed.
Reopen(t) ==
    /\ th[t].pc = "reopen"
    /\ \/ stopping /\ Failed(t) /\ UNCHANGED sid
       \/ ~stopping /\ sid' = 0 /\ Go(t, [th[t] EXCEPT !.pc = "init"]) /\ UNCHANGED <<stale, serial>>
    /\ UNCHANGED <<world, desc, gate, wedged, stopping, closed, faults, history>>

NewSession == Cardinality({s \in Sessions : owner[s] # 0}) + 1

\* initialize: the session is opened and its id kept, even if the answer then breaks off; or
\* it is opened and the id lost, or not opened at all.
ReplayInitialize(t) ==
    /\ th[t].pc = "init"
    /\ \/ /\ daemon[desc] = "up" /\ NewSession \in Sessions
          /\ owner' = [owner EXCEPT ![NewSession] = desc] /\ valid' = valid \cup {NewSession}
          /\ \/ /\ NoFault /\ sid' = NewSession /\ Go(t, [th[t] EXCEPT !.pc = "initd"])
                /\ UNCHANGED <<stale, serial>>
             \/ Fault /\ sid' = NewSession /\ Failed(t)
             \/ Fault /\ FailedFor(t, DAEMON_LOST) /\ UNCHANGED sid
       \/ /\ \/ NoFault /\ (stopping \/ NewSession \notin Sessions) /\ Failed(t)
             \/ daemon[desc] # "up" /\ NoFault /\ FailedFor(t, DAEMON_LOST)
             \/ daemon[desc] = "up" /\ Fault /\ FailedFor(t, DAEMON_LOST)
          /\ UNCHANGED <<owner, valid, sid>>
    /\ UNCHANGED <<daemon, host, private, inited, desc, gate, wedged, stopping, closed, history>>

\* notifications/initialized, and what is left of the deadline.
ReplayInitialized(t) ==
    /\ th[t].pc = "initd"
    /\ \/ /\ daemon[desc] = "up" /\ sid \in valid /\ inited' = inited \cup {sid}
          /\ \/ ~stopping /\ NoFault /\ Recovered(t, sid) /\ UNCHANGED stale
             \/ stopping /\ NoFault /\ Failed(t)
             \/ Fault /\ FailedFor(t, DAEMON_LOST)
       \/ /\ \/ (stopping \/ (daemon[desc] = "up" /\ sid \notin valid)) /\ NoFault /\ Failed(t)
             \/ daemon[desc] # "up" /\ NoFault /\ FailedFor(t, DAEMON_LOST)
             \/ daemon[desc] = "up" /\ Fault /\ FailedFor(t, DAEMON_LOST)
          /\ UNCHANGED inited
    /\ UNCHANGED <<daemon, host, private, owner, valid, desc, sid, gate, wedged, stopping, closed, history>>

-----------------------------------------------------------------------------
(* A request at the daemon.                                                *)

\* The daemon dispatches it.
Run(c) ==
    /\ th[c].pc = "post" /\ ~th[c].sent
    /\ daemon[th[c].d] = "up" /\ th[c].s \in valid
    /\ Go(c, [th[c] EXCEPT !.sent = TRUE]) /\ ran' = [ran EXCEPT ![c] = @ + 1]
    /\ UNCHANGED <<world, session, serial, stopping, closed, faults, marked, skipped>>

\* The answer, or what has come of it when the connection breaks.
Reply(c) ==
    /\ th[c].pc = "post" /\ th[c].sent
    /\ Go(c, Done)
    /\ UNCHANGED <<world, session, serial, stopping, closed, faults, history>>

\* It is refused before it is dispatched, breaks off, or times out.
Refuse(c) ==
    /\ th[c].pc = "post" /\ ~th[c].sent
    /\ daemon[th[c].d] = "up" /\ th[c].s \notin valid
    /\ Go(c, [th[c] EXCEPT !.pc = "apply", !.lvl = SESSION_REFUSED])
    /\ UNCHANGED <<world, session, serial, stopping, closed, faults, history>>

\* (Mutated: a request has no timeout.)
BreakOffNoTimeout(c) ==
    /\ th[c].pc = "post"
    /\ (daemon[th[c].d] = "gone" /\ NoFault) \/ (daemon[th[c].d] = "up" /\ Fault)
    /\ Go(c, [th[c] EXCEPT !.pc = "apply", !.lvl = DAEMON_LOST])
    /\ UNCHANGED <<world, session, serial, stopping, closed, history>>

BreakOff(c) ==
    /\ th[c].pc = "post"
    /\ (daemon[th[c].d] # "up" /\ NoFault) \/ (daemon[th[c].d] = "up" /\ Fault)
    /\ Go(c, [th[c] EXCEPT !.pc = "apply", !.lvl = DAEMON_LOST])
    /\ UNCHANGED <<world, session, serial, stopping, closed, history>>

\* post_message sends nothing once the adapter is closed.
TooLate(c) ==
    /\ th[c].pc = "post" /\ ~th[c].sent /\ closed # "no"
    /\ Go(c, Done)
    /\ UNCHANGED <<world, session, serial, stopping, closed, faults, history>>

\* (Mutated: a call is sent again whatever happened to it.)
ApplyResends(c) ==
    LET mine == th[c].d = desc /\ th[c].s = sid IN
    /\ th[c].pc = "apply" /\ serial = Nobody
    /\ stale' = IF mine THEN Raise(th[c].lvl) ELSE stale
    /\ Go(c, IF mine /\ ~th[c].again
             THEN [Idle EXCEPT !.pc = "start", !.again = TRUE] ELSE Done)
    /\ UNCHANGED <<world, desc, sid, gate, wedged, serial, stopping, closed, faults, history>>

\* apply_post_state: a call on the session the adapter still has says what is wrong with it; a
\* refused one is sent once more.
Apply(c) ==
    LET mine == th[c].d = desc /\ th[c].s = sid IN
    /\ th[c].pc = "apply" /\ serial = Nobody
    /\ stale' = IF mine THEN Raise(th[c].lvl) ELSE stale
    /\ Go(c, IF mine /\ th[c].lvl = SESSION_REFUSED /\ ~th[c].again
             THEN [Idle EXCEPT !.pc = "start", !.again = TRUE] ELSE Done)
    /\ UNCHANGED <<world, desc, sid, gate, wedged, serial, stopping, closed, faults, history>>

-----------------------------------------------------------------------------
(* The heartbeat.                                                          *)

Health(d) == CASE daemon[d] = "up" -> HEALTHY
               [] daemon[d] = "silent" -> DAEMON_WEDGED
               [] OTHER -> DAEMON_LOST

Probe ==
    /\ th[Beat].pc = "idle" /\ ~stopping
    /\ Health(desc) # HEALTHY \/ stale = DAEMON_LOST
    /\ Go(Beat, [Idle EXCEPT !.pc = "probed", !.d = desc, !.lvl = Health(desc)])
    /\ UNCHANGED <<world, session, serial, stopping, closed, faults, history>>

\* A probe that came too late, or one more to wait for.
Ignore ==
    /\ th[Beat].pc = "probed"
    /\ Go(Beat, Idle)
    /\ UNCHANGED <<world, session, serial, stopping, closed, faults, history>>

\* The daemon stays silent, SILENT_RETRY_TIMEOUT after the last answer or mark: calls that come
\* now get a gate that those stuck on it do not hold (one nobody knows is as good as new).
MarkWedged ==
    /\ th[Beat].pc = "probed" /\ th[Beat].lvl = DAEMON_WEDGED
    /\ serial = Nobody /\ ~stopping /\ desc = th[Beat].d
    /\ wedged' = desc /\ marked' = marked \cup {desc}
    /\ stale' = Raise(DAEMON_WEDGED)
    /\ gate' = CHOOSE g \in Gates : \A t \in Threads : th[t].gate # g
    /\ Go(Beat, Idle)
    /\ UNCHANGED <<world, desc, sid, serial, stopping, closed, faults, ran, skipped>>

\* recover_idle: the loss is noted at once, and repaired once the backoff is over and no call
\* holds the gate.
Observed ==
    /\ th[Beat].pc = "probed" /\ th[Beat].lvl # DAEMON_WEDGED
    /\ serial = Nobody /\ ~stopping /\ desc = th[Beat].d
Noted == IF th[Beat].lvl = DAEMON_LOST THEN Raise(DAEMON_LOST) ELSE stale

NoteLoss ==
    /\ Observed /\ stale' = Noted /\ Go(Beat, Idle)
    /\ UNCHANGED <<world, desc, sid, gate, wedged, serial, stopping, closed, faults, history>>

\* (Mutated: a recovery that failed after it found a daemon is not tried again.)
RecoverIdleGone ==
    /\ Observed /\ th[Beat].lvl = DAEMON_LOST /\ Noted = DAEMON_LOST /\ Holders(gate, {"r", "w"}) = {}
    /\ stale' = HEALTHY /\ serial' = Beat
    /\ Go(Beat, [Idle EXCEPT !.pc = "recover", !.lvl = DAEMON_LOST, !.gate = gate, !.mode = "w"])
    /\ UNCHANGED <<world, desc, sid, gate, wedged, stopping, closed, faults, history>>

RecoverIdle ==
    /\ Observed /\ Noted = DAEMON_LOST /\ Holders(gate, {"r", "w"}) = {}
    /\ stale' = HEALTHY /\ serial' = Beat
    /\ Go(Beat, [Idle EXCEPT !.pc = "recover", !.lvl = DAEMON_LOST, !.gate = gate, !.mode = "w"])
    /\ UNCHANGED <<world, desc, sid, gate, wedged, stopping, closed, faults, history>>

-----------------------------------------------------------------------------
(* The end of the client, and what happens to daemons.                     *)

Eof ==
    /\ ~stopping /\ stopping' = TRUE
    /\ UNCHANGED <<world, session, serial, closed, th, faults, history>>

\* The calls had their grace; what is still running is abandoned to the exit of the process,
\* which follows the deletion of the session.
Close ==
    /\ stopping /\ closed = "no" /\ closed' = "closed"
    /\ UNCHANGED <<world, session, serial, stopping, th, faults, history>>

DeleteSession ==
    /\ closed = "closed" /\ serial = Nobody
    /\ closed' = "deleted" /\ valid' = IF daemon[desc] = "up" THEN valid \ {sid} ELSE valid
    /\ UNCHANGED <<daemon, host, private, owner, inited, session, serial, stopping, th, faults, history>>

\* A daemon dies, stops answering or answers again; a session expires or is rescoped.
Turn(d) ==
    /\ Fault
    /\ \/ daemon[d] \in {"up", "silent"} /\ daemon' = [daemon EXCEPT ![d] = "gone"]
       \/ daemon[d] = "up" /\ daemon' = [daemon EXCEPT ![d] = "silent"]
       \/ daemon[d] = "silent" /\ daemon' = [daemon EXCEPT ![d] = "up"]
    /\ valid' = {s \in valid : ~(owner[s] = d /\ daemon'[d] = "gone")}
    /\ UNCHANGED <<host, private, owner, inited, session, serial, stopping, closed, th, history>>

Rescope ==
    /\ Fault /\ \E s \in valid : valid' = valid \ {s}
    /\ UNCHANGED <<daemon, host, private, owner, inited, session, serial, stopping, closed, th, history>>

CallStep(c) == \/ Start(c) \/ Enter(c) \/ EnterHealthy(c) \/ EnterStale(c)
               \/ Run(c) \/ Reply(c) \/ Refuse(c) \/ BreakOff(c) \/ TooLate(c) \/ Apply(c)
RecoveryStep(t) == Recover(t) \/ Reopen(t) \/ ReplayInitialize(t) \/ ReplayInitialized(t)
BeatStep == Probe \/ MarkWedged \/ NoteLoss \/ RecoverIdle \/ Ignore \/ RecoveryStep(Beat)

Next ==
    \/ \E c \in Calls : Dispatch(c) \/ CallStep(c) \/ RecoveryStep(c)
    \/ BeatStep
    \/ Eof \/ Close \/ DeleteSession
    \/ \E d \in Daemons : Turn(d)
    \/ Rescope

Fairness ==
    /\ \A c \in Calls : WF_vars(CallStep(c)) /\ WF_vars(RecoveryStep(c))
    /\ WF_vars(BeatStep) /\ SF_vars(MarkWedged) /\ SF_vars(RecoverIdle)

Spec == Init /\ [][Next]_vars /\ Fairness

-----------------------------------------------------------------------------
(* Properties.                                                             *)

\* RunsAtMostOnce: however often its session, its daemon or the gate is replaced, a call of the
\* client is dispatched by at most one daemon, once.
RunsAtMostOnce == \A c \in Calls : ran[c] <= 1

\* SentWhereOpened: a request goes to the daemon that opened the session it carries.
SentWhereOpened ==
    \A c \in Calls : th[c].pc = "post" /\ th[c].s # 0 => owner[th[c].s] = th[c].d

\* HandshakeFirst: a request goes out on a session whose handshake was replayed in full, unless
\* the recovery from a wedged daemon took over a session its predecessor left half open.
HandshakeFirst == \A c \in Calls : th[c].pc = "post" => th[c].s \in inited \cup skipped

\* RecoversAlone: while a session is rebuilt, the only calls still out are on daemons that were
\* marked as wedged.
RecoversAlone ==
    serial # Nobody => \A c \in Calls : th[c].pc = "post" => th[c].d \in marked

\* SessionsOK: recoveries and calls fit together: a call that is out is on the daemon and the
\* session a finished recovery left, and no recovery rebuilds them under a healthy call.
SessionsOK == TypeOK /\ SentWhereOpened /\ HandshakeFirst /\ RecoversAlone

\* A call on its way to the gate, or waiting there.
Entering == {"start", "read", "rserial", "write", "wserial"}

\* CallsEnd: every request is answered, if only with an error, unless the client has ended and
\* the grace of its calls is over: what still runs then is abandoned.  mark_wedged sends a call
\* that is about to enter back for the new gate, so a call could be overtaken by the heartbeat's
\* marks again and again; a second exception is a call to which this happens for ever.
CallsEnd ==
    \A c \in Calls :
        \/ th[c].pc = "start" ~> th[c].pc = "done" \/ closed # "no"
        \/ []<><<MarkWedged /\ th[c].pc \in Entering>>_vars

\* LossHeals: a lost daemon is replaced and a session opened there without a request of the
\* client, unless the client ends or the daemon turns out to be wedged.
Healed == daemon[desc] = "up" /\ sid \in inited /\ stale # DAEMON_LOST
LossHeals ==
    daemon[desc] = "gone" \/ stale = DAEMON_LOST
        ~> Healed \/ stopping \/ stale = DAEMON_WEDGED
=============================================================================
