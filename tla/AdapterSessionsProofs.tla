------------------------ MODULE AdapterSessionsProofs ------------------------
(***************************************************************************)
(* Theorems of AdapterSessions for any finite set of calls and any bounds  *)
(* on daemons, sessions and faults.                                        *)
(***************************************************************************)
EXTENDS AdapterSessions, FiniteSetTheorems, TLAPS

(* The inductive invariant, in parts.                                      *)

Recovering == {"recover", "reopen", "init", "initd"}

\* What a thread holds at each place, and that a call was not dispatched when it is refused.
PcFits(r) ==
    /\ r.pc \in {"idle", "start", "probed", "done"} => r.gate = 0 /\ r.mode = "none"
    /\ r.pc \in {"read", "write"} => r.gate # 0 /\ r.mode = "none"
    /\ r.pc = "rserial" => r.gate # 0 /\ r.mode = "r"
    /\ r.pc \in {"wserial"} \cup Recovering => r.gate # 0 /\ r.mode = "w"
    /\ r.pc \in {"post", "apply"} => r.gate # 0 /\ r.mode # "none"
    /\ r.pc \in Recovering => r.lvl # HEALTHY
    /\ r.sent => r.pc \in {"post", "apply"}
    /\ r.pc = "apply" /\ r.lvl = SESSION_REFUSED => ~r.sent

\* Whoever holds a gate for writing holds it alone.
Apart(r, q) == ~(r.mode = "w" /\ q.mode # "none" /\ r.gate = q.gate)

\* The mutex says who recovers, and a recovery holds the gate the adapter has now.
ThreadsFit ==
    /\ \A t \in Threads : /\ PcFits(th[t])
                          /\ serial = t <=> th[t].pc \in Recovering
                          /\ th[t].pc \in Recovering => th[t].gate = gate
    /\ \A t, u \in Threads : t # u => Apart(th[t], th[u])

\* A request that is out: its session was opened by its daemon and is among those ready; on
\* the present gate g it is on the present daemon d, on an older one its daemon was marked.
PostFits(r, own, ready, mk, d, g) ==
    r.pc = "post" => /\ r.d \in Daemons /\ r.s \in ready /\ own[r.s] = r.d
                     /\ IF r.gate = g THEN r.d = d ELSE r.d \in mk
PostsFit == \A c \in Calls : PostFits(th[c], owner, inited \cup skipped, marked, desc, gate)

\* A call that was dispatched n times is still marked as sent, or over.
RanFits(r, n) == n \in {0, 1} /\ (n = 1 => r.sent \/ r.pc = "done")
RansFit == \A c \in Calls : RanFits(th[c], ran[c])

\* The adapter's session is one of its daemon, unless a recovery that has found another
\* daemon is at it, or gave up because the client went; a session that looks healthy has
\* its handshake.
SidOwned == sid # 0 => owner[sid] = desc
SidFits ==
    /\ ~SidOwned => \/ \E t \in Threads : th[t].pc = "reopen"
                    \/ stopping /\ (stale # HEALTHY \/ serial # Nobody)
    /\ serial = Nobody /\ stale = HEALTHY => sid \in inited \cup skipped
    /\ \A t \in Threads : th[t].pc = "init" => sid = 0

\* Sessions are numbered as they are opened.
Numbered(own) == \E k \in 0..MaxSessions : \A s \in Sessions : own[s] # 0 <=> s <= k

IInv == TypeOK /\ ThreadsFit /\ PostsFit /\ RansFit /\ SidFits /\ Numbered(owner)

-----------------------------------------------------------------------------
(* Numbers and records.                                                    *)

\* The larger of two levels.
LEMMA MaxTwo ==
  ASSUME NEW a \in Nat, NEW b \in Nat
  PROVE  Max({a, b}) \in {a, b} /\ Max({a, b}) >= a /\ Max({a, b}) >= b
<1>1. \E x \in {a, b} : \A y \in {a, b} : x >= y
  <2>1. CASE a >= b
    BY <2>1
  <2>2. CASE b >= a
    BY <2>2
  <2> QED
    BY <2>1, <2>2
<1> QED
  BY <1>1 DEF Max

\* The same of three.
LEMMA MaxThree ==
  ASSUME NEW a \in Nat, NEW b \in Nat, NEW c \in Nat
  PROVE  Max({a, b, c}) \in {a, b, c} /\ Max({a, b, c}) >= a /\ Max({a, b, c}) >= b
<1>1. \E x \in {a, b, c} : \A y \in {a, b, c} : x >= y
  <2>1. CASE a >= b /\ a >= c
    BY <2>1
  <2>2. CASE b >= a /\ b >= c
    BY <2>2
  <2>3. CASE c >= a /\ c >= b
    BY <2>3
  <2> QED
    BY <2>1, <2>2, <2>3
<1> QED
  BY <1>1 DEF Max

Levels == HEALTHY..DAEMON_WEDGED

\* The levels are told apart, and raising one keeps it.
LEMMA LevelFacts ==
  /\ Levels \subseteq Nat /\ Levels = {0, 1, 2, 3}
  /\ HEALTHY = 0 /\ SESSION_REFUSED = 1 /\ DAEMON_LOST = 2 /\ DAEMON_WEDGED = 3
BY DEF Levels, HEALTHY, SESSION_REFUSED, DAEMON_LOST, DAEMON_WEDGED

\* A level that is raised is never lowered.
LEMMA RaiseFacts ==
  ASSUME IInv, NEW level \in Levels
  PROVE  /\ Raise(level) \in Levels /\ (stale # HEALTHY => Raise(level) # HEALTHY)
         /\ level # HEALTHY => Raise(level) # HEALTHY
<1>1. stale \in Levels
  BY DEF IInv, TypeOK, Levels
<1>2. stale \in Nat /\ level \in Nat
  BY <1>1, LevelFacts
<1>3. Raise(level) \in {stale, level} /\ Raise(level) >= stale /\ Raise(level) >= level
  BY <1>2, MaxTwo DEF Raise
<1> QED
  BY <1>1, <1>2, <1>3, LevelFacts

\* A fresh gate exists: there is one more than the adapter and its calls can know.
LEMMA FreshGate ==
  ASSUME IInv, th[Beat].pc = "probed"
  PROVE  \E g \in Gates : g # gate /\ \A t \in Threads : th[t].gate # g
<1> SUFFICES ASSUME \A g \in Gates : g = gate \/ \E t \in Threads : th[t].gate = g
             PROVE  FALSE
  OBVIOUS
<1>1. Cardinality(Calls) \in Nat /\ IsFiniteSet(Calls)
  BY CallsAssumption, FS_CardinalityType
<1>2. IsFiniteSet(Gates) /\ Cardinality(Gates) = Cardinality(Calls) + 2
  <2>1. PICK n \in Nat : n = Cardinality(Calls) + 2
    BY <1>1
  <2>2. IsFiniteSet(1..n) /\ Cardinality(1..n) = IF 1 > n THEN 0 ELSE n - 1 + 1
    BY FS_Interval
  <2> QED
    BY <1>1, <2>1, <2>2 DEF Gates
<1>3. IsFiniteSet(Threads) /\ Cardinality(Threads) = Cardinality(Calls) + 1
  BY <1>1, ThreadAssumption, FS_AddElement DEF Threads
<1>4. th[Beat].gate = 0 /\ 0 \notin Gates
  BY DEF IInv, ThreadsFit, PcFits, Threads, Gates
<1> DEFINE f == [g \in Gates |-> IF g = gate THEN Beat ELSE CHOOSE t \in Threads : th[t].gate = g]
<1>5. \A g \in Gates : \/ g = gate /\ f[g] = Beat
                       \/ g # gate /\ f[g] \in Calls /\ th[f[g]].gate = g
  <2> SUFFICES ASSUME NEW g \in Gates, g # gate
               PROVE  f[g] \in Calls /\ th[f[g]].gate = g
    OBVIOUS
  <2>1. PICK t \in Threads : th[t].gate = g
    OBVIOUS
  <2>2. f[g] \in Threads /\ th[f[g]].gate = g
    BY <2>1
  <2> QED
    BY <1>4, <2>2 DEF Threads
<1>6. f \in [Gates -> Threads]
  BY <1>5 DEF Threads
<1> HIDE DEF f
<1>7. Cardinality(Threads) < Cardinality(Gates)
  BY <1>1, <1>2, <1>3
<1>8. PICK x, y \in Gates : x # y /\ f[x] = f[y]
  BY <1>2, <1>3, <1>6, <1>7, FS_PigeonHole
<1> QED
  BY <1>5, <1>8, ThreadAssumption

\* The next session is one nobody opened, and numbering goes on.
LEMMA NewSessionFacts ==
  ASSUME IInv, NewSession \in Sessions
  PROVE  owner[NewSession] = 0 /\ \A d \in Daemons : Numbered([owner EXCEPT ![NewSession] = d])
<1>1. PICK k \in 0..MaxSessions : \A s \in Sessions : owner[s] # 0 <=> s <= k
  BY DEF IInv, Numbered
<1>2. MaxSessions \in Nat /\ k \in Nat /\ owner \in [Sessions -> 0..MaxDaemons]
  BY BoundAssumption DEF IInv, TypeOK
<1>3. {s \in Sessions : owner[s] # 0} = 1..k
  BY <1>1, <1>2 DEF Sessions
<1>4. Cardinality(1..k) = k
  <2>1. Cardinality(1..k) = IF 1 > k THEN 0 ELSE k - 1 + 1
    BY <1>2, FS_Interval
  <2> QED
    BY <1>2, <2>1
<1>5. NewSession = k + 1
  BY <1>3, <1>4 DEF NewSession
<1>6. owner[NewSession] = 0
  BY <1>1, <1>2, <1>5
<1>7. ASSUME NEW d \in Daemons PROVE Numbered([owner EXCEPT ![NewSession] = d])
  <2>1. d # 0
    BY DEF Daemons
  <2>2. k + 1 \in 0..MaxSessions
    BY <1>2, <1>5 DEF Sessions
  <2>3. \A s \in Sessions : [owner EXCEPT ![NewSession] = d][s] # 0 <=> s <= k + 1
    BY <1>1, <1>2, <1>5, <2>1 DEF Sessions
  <2> QED
    BY <2>2, <2>3 DEF Numbered
<1> QED
  BY <1>6, <1>7

\* The records a thread starts and ends with.
LEMMA IdleFacts ==
  /\ Idle \in Thread /\ Done \in Thread /\ PcFits(Idle) /\ PcFits(Done)
  /\ Idle.pc = "idle" /\ Done.pc = "done" /\ Idle.mode = "none" /\ Done.mode = "none" /\ ~Idle.sent
<1>1. 0 \in 0..MaxDaemons /\ 0 \in 0..MaxSessions
  BY BoundAssumption
<1>2. Idle \in Thread
  BY <1>1 DEF Idle, Thread, HEALTHY, DAEMON_WEDGED
<1>3. Done \in Thread
  BY <1>2 DEF Done, Thread
<1> QED
  BY <1>2, <1>3 DEF PcFits, Idle, Done, Recovering

-----------------------------------------------------------------------------
(* A step of one thread, and what it leaves of the others.                 *)

Ready == inited \cup skipped

\* Thread t becomes r: it keeps what it holds, gives it up, or takes a gate that is free; the
\* mutex stays, is taken or is given back.
Moves(t, r) ==
    /\ th' = [th EXCEPT ![t] = r] /\ r \in Thread /\ PcFits(r) /\ UNCHANGED gate
    /\ r.pc \in Recovering => r.gate = gate
    /\ \/ UNCHANGED serial /\ (r.pc \in Recovering <=> th[t].pc \in Recovering)
       \/ serial = Nobody /\ serial' = t /\ r.pc \in Recovering
       \/ serial = t /\ serial' = Nobody /\ r.pc \notin Recovering
    /\ \/ r.gate = th[t].gate /\ r.mode = th[t].mode
       \/ r.mode = "none"
       \/ r.mode = "r" /\ Holders(r.gate, {"w"}) = {}
       \/ r.mode = "w" /\ Holders(r.gate, {"r", "w"}) = {}

\* The thread that moved is the new record, the others are as they were.
LEMMA MovedThreads ==
  ASSUME IInv, NEW t \in Threads, NEW r, Moves(t, r)
  PROVE  /\ th \in [Threads -> Thread] /\ th' \in [Threads -> Thread] /\ th'[t] = r
         /\ \A u \in Threads \ {t} : th'[u] = th[u]
BY DEF Moves, IInv, TypeOK

\* Gates and mutex fit after the step.
LEMMA ThreadsKept ==
  ASSUME IInv, NEW t \in Threads, NEW r, Moves(t, r)
  PROVE  ThreadsFit'
<1>1. /\ th \in [Threads -> Thread] /\ th'[t] = r
      /\ \A u \in Threads \ {t} : th'[u] = th[u]
  BY MovedThreads
<1>2. Nobody \notin Threads
  BY ThreadAssumption DEF Threads
<1>3. ASSUME NEW u \in Threads
      PROVE  /\ PcFits(th'[u]) /\ (serial' = u <=> th'[u].pc \in Recovering)
             /\ th'[u].pc \in Recovering => th'[u].gate = gate'
  <2>1. /\ PcFits(th[u]) /\ (serial = u <=> th[u].pc \in Recovering)
        /\ th[u].pc \in Recovering => th[u].gate = gate
        /\ serial = t <=> th[t].pc \in Recovering
    BY DEF IInv, ThreadsFit
  <2>2. CASE u = t
    BY <1>1, <1>2, <2>1, <2>2 DEF Moves
  <2>3. CASE u # t
    BY <1>1, <1>2, <2>1, <2>3 DEF Moves
  <2> QED
    BY <2>2, <2>3
<1>4. ASSUME NEW u \in Threads, u # t
      PROVE  Apart(r, th[u]) /\ Apart(th[u], r)
  <2>1. Apart(th[t], th[u]) /\ Apart(th[u], th[t])
    BY <1>4 DEF IInv, ThreadsFit
  <2>2. th[u].mode \in {"none", "r", "w"}
    BY <1>1 DEF Thread
  <2>3. /\ Holders(r.gate, {"w"}) = {} => ~(th[u].gate = r.gate /\ th[u].mode = "w")
        /\ Holders(r.gate, {"r", "w"}) = {} => ~(th[u].gate = r.gate /\ th[u].mode \in {"r", "w"})
    BY DEF Holders
  <2> QED
    BY <2>1, <2>2, <2>3 DEF Moves, Apart
<1>5. ASSUME NEW u \in Threads, NEW v \in Threads, u # v
      PROVE  Apart(th'[u], th'[v])
  <2>1. Apart(th[u], th[v])
    BY <1>5 DEF IInv, ThreadsFit
  <2> QED
    BY <1>1, <1>4, <1>5, <2>1
<1> QED
  BY <1>3, <1>5 DEF ThreadsFit

\* Requests that are out stay where they are while a thread moves; while another one
\* recovers, none is on the present gate.
LEMMA PostsKept ==
  ASSUME IInv, NEW t \in Threads, NEW r, Moves(t, r),
         \A s \in Sessions : owner[s] # 0 => owner'[s] = owner[s],
         Ready \subseteq Ready', marked \subseteq marked',
         UNCHANGED desc \/ serial = t,
         t \in Calls => PostFits(r, owner', Ready', marked', desc', gate)
  PROVE  PostsFit'
<1>1. /\ th \in [Threads -> Thread] /\ th'[t] = r
      /\ \A u \in Threads \ {t} : th'[u] = th[u]
  BY MovedThreads
<1>2. Ready \subseteq Sessions /\ gate' = gate
  BY DEF Moves, IInv, TypeOK, Ready
<1> SUFFICES ASSUME NEW c \in Calls
             PROVE  PostFits(th'[c], owner', Ready', marked', desc', gate)
  BY <1>2 DEF PostsFit, Ready
<1>3. CASE c = t
  BY <1>1, <1>3
<1>4. CASE c # t
  <2>1. c \in Threads /\ th'[c] = th[c] /\ PostFits(th[c], owner, Ready, marked, desc, gate)
    BY <1>1, <1>4 DEF Threads, IInv, PostsFit, Ready
  <2>2. th[c].pc = "post" /\ th[c].gate = gate => UNCHANGED desc
    <3>1. ASSUME th[c].pc = "post", th[c].gate = gate, serial = t PROVE FALSE
      <4>1. th[c].mode # "none" /\ th[t].mode = "w" /\ th[t].gate = gate
        BY <2>1, <3>1 DEF IInv, ThreadsFit, PcFits
      <4>2. Apart(th[t], th[c])
        BY <1>4, <2>1 DEF IInv, ThreadsFit
      <4> QED
        BY <3>1, <4>1, <4>2 DEF Apart
    <3> QED
      BY <3>1
  <2>3. \A d \in Daemons : d # 0
    BY DEF Daemons
  <2> QED
    BY <1>2, <2>1, <2>2, <2>3 DEF PostFits
<1> QED
  BY <1>3, <1>4

\* Only the call that moved may have been dispatched.
LEMMA RansKept ==
  ASSUME IInv, NEW t \in Threads, NEW r, Moves(t, r),
         t \in Calls => RanFits(r, ran'[t]), \A c \in Calls \ {t} : ran'[c] = ran[c]
  PROVE  RansFit'
<1>1. th'[t] = r /\ \A u \in Threads \ {t} : th'[u] = th[u]
  BY MovedThreads
<1> QED
  BY <1>1 DEF RansFit, IInv, Threads

\* A step outside recovery leaves the adapter's session alone.
LEMMA SidKept ==
  ASSUME IInv, NEW t \in Threads, NEW r, Moves(t, r), th[t].pc \notin Recovering,
         UNCHANGED <<owner, sid, desc, stopping>>, Ready \subseteq Ready',
         \/ UNCHANGED serial /\ (stale # HEALTHY => stale' # HEALTHY)
         \/ serial' = t /\ r.pc = "recover"
  PROVE  SidFits'
<1>1. th'[t] = r /\ \A u \in Threads \ {t} : th'[u] = th[u]
  BY MovedThreads
<1>2. r.pc # "init"
  BY ThreadAssumption DEF Moves, Recovering, Threads
<1>3. (\E u \in Threads : th[u].pc = "reopen") => \E u \in Threads : th'[u].pc = "reopen"
  BY <1>1 DEF Recovering
<1>4. \A u \in Threads : th'[u].pc = "init" => sid' = 0
  BY <1>1, <1>2 DEF IInv, SidFits
<1>5. serial' # Nobody \/ UNCHANGED serial
  BY ThreadAssumption DEF Threads
<1>6. serial' = Nobody /\ stale' = HEALTHY => sid' \in Ready'
  BY <1>5, ThreadAssumption DEF IInv, SidFits, Ready, Threads
<1>7. ~SidOwned' => ~SidOwned
  BY DEF SidOwned
<1>8. ~SidOwned' => \/ \E u \in Threads : th'[u].pc = "reopen"
                    \/ stopping' /\ (stale' # HEALTHY \/ serial' # Nobody)
  BY <1>3, <1>7, ThreadAssumption DEF IInv, SidFits, Threads
<1> QED
  BY <1>4, <1>6, <1>8 DEF SidFits, Ready

\* A step outside recovery: it may raise the level, or begin to recover.
LEMMA QuietInv ==
  ASSUME IInv, NEW t \in Threads, NEW r, Moves(t, r), th[t].pc \notin Recovering,
         UNCHANGED <<world, sid, desc, wedged, stopping, closed, marked, skipped>>,
         \/ UNCHANGED serial /\ (stale # HEALTHY => stale' # HEALTHY)
         \/ serial' = t /\ r.pc = "recover",
         stale' \in Levels, faults' \in 0..MaxFaults, ran' \in [Calls -> Nat],
         t \in Calls => /\ PostFits(r, owner, Ready, marked, desc, gate)
                        /\ RanFits(r, ran'[t]),
         \A c \in Calls \ {t} : ran'[c] = ran[c]
  PROVE  IInv'
<1>1. th' \in [Threads -> Thread] /\ gate' = gate
  BY MovedThreads DEF Moves
<1>2. TypeOK'
  <2>1. serial' \in Threads \cup {Nobody}
    BY DEF IInv, TypeOK
  <2> QED
    BY <1>1, <2>1 DEF IInv, TypeOK, world, Levels
<1>3. Ready' = Ready
  BY DEF Ready, world
<1>4. ThreadsFit'
  BY ThreadsKept
<1>5. PostsFit'
  BY <1>3, PostsKept DEF world
<1>6. RansFit'
  BY RansKept
<1>7. SidFits'
  BY <1>3, SidKept DEF world
<1>8. Numbered(owner')
  BY DEF IInv, world
<1> QED
  BY <1>2, <1>4, <1>5, <1>6, <1>7, <1>8 DEF IInv

\* What holds of a thread before its step.
LEMMA ThreadNow ==
  ASSUME IInv, NEW t \in Threads
  PROVE  /\ th[t] \in Thread /\ PcFits(th[t]) /\ (serial = t <=> th[t].pc \in Recovering)
         /\ th[t].pc \in Recovering => th[t].gate = gate
         /\ t \in Calls => /\ PostFits(th[t], owner, Ready, marked, desc, gate)
                           /\ RanFits(th[t], ran[t]) /\ ran[t] \in Nat
         /\ serial # t => th[t].pc \notin Recovering
         /\ stale \in Levels /\ faults \in 0..MaxFaults /\ ran \in [Calls -> Nat]
         /\ desc \in Daemons /\ sid \in 0..MaxSessions /\ gate \in Gates
         /\ stale \in 0..3
BY LevelFacts DEF IInv, TypeOK, ThreadsFit, PostsFit, RansFit, Ready, Levels

\* Counting faults.
LEMMA FaultFits ==
  ASSUME IInv, Fault \/ NoFault
  PROVE  faults' \in 0..MaxFaults
BY BoundAssumption DEF IInv, TypeOK, Fault, NoFault

Quiet == UNCHANGED <<world, session, serial, stopping, closed, marked, skipped>>

\* A step that changes one thread and nothing else that is shared, and keeps the
\* dispatches of its call in order.
LEMMA PlainInv ==
  ASSUME IInv, NEW t \in Threads, NEW r, Moves(t, r), th[t].pc \notin Recovering, Quiet,
         faults' \in 0..MaxFaults, UNCHANGED ran,
         t \in Calls => /\ PostFits(r, owner, Ready, marked, desc, gate)
                        /\ RanFits(r, ran[t])
  PROVE  IInv'
BY ThreadNow, QuietInv DEF Quiet, session

-----------------------------------------------------------------------------
(* Steps of a call outside recovery.                                       *)

\* The client sends a request.
LEMMA DispatchInv ==
  ASSUME IInv, NEW c \in Calls, Dispatch(c)
  PROVE  IInv'
<1> DEFINE r == [Idle EXCEPT !.pc = "start"]
<1>1. /\ r \in Thread /\ r.pc = "start" /\ r.mode = "none" /\ PcFits(r)
  BY IdleFacts DEF Thread, PcFits, Idle, Recovering
<1>2. th' = [th EXCEPT ![c] = r] /\ th[c].pc = "idle" /\ Quiet /\ UNCHANGED <<faults, ran>>
  BY DEF Dispatch, Go, Quiet, history
<1> HIDE DEF r
<1>3. c \in Threads
  BY DEF Threads
<1>4. Moves(c, r) /\ th[c].pc \notin Recovering
  BY <1>1, <1>2 DEF Moves, Recovering, Quiet, session
<1>5. PostFits(r, owner, Ready, marked, desc, gate) /\ RanFits(r, ran[c])
  BY <1>1, <1>2, <1>3, ThreadNow DEF PostFits, RanFits, PcFits
<1> QED
  BY <1>2, <1>3, <1>4, <1>5, ThreadNow, PlainInv

\* The call reads the level and the gate.
LEMMA StartInv ==
  ASSUME IInv, NEW c \in Calls, Start(c)
  PROVE  IInv'
<1>1. c \in Threads
  BY DEF Threads
<1> DEFINE pc == IF stale = HEALTHY THEN "read" ELSE "write"
           r == [th[c] EXCEPT !.pc = pc, !.gate = gate]
<1>2. th[c].pc = "start" /\ Quiet /\ UNCHANGED <<faults, ran>> /\ th' = [th EXCEPT ![c] = r]
  BY DEF Start, Go, Quiet, history
<1>3. pc \in {"read", "write"}
  OBVIOUS
<1> HIDE DEF pc
<1>4. r \in Thread /\ r.pc = pc /\ r.gate = gate /\ r.mode = th[c].mode /\ (r.sent <=> th[c].sent)
  BY <1>1, <1>3, ThreadNow DEF Thread
<1> HIDE DEF r
<1>5. PcFits(r) /\ r.mode = "none"
  <2>1. gate # 0
    BY <1>1, ThreadNow DEF Gates
  <2> QED
    BY <1>1, <1>2, <1>3, <1>4, <2>1, ThreadNow DEF PcFits, Recovering
<1>6. Moves(c, r) /\ th[c].pc \notin Recovering
  BY <1>2, <1>3, <1>4, <1>5 DEF Moves, Recovering, Quiet, session
<1>7. PostFits(r, owner, Ready, marked, desc, gate) /\ RanFits(r, ran[c])
  BY <1>1, <1>2, <1>3, <1>4, ThreadNow DEF PostFits, RanFits
<1> QED
  BY <1>1, <1>2, <1>6, <1>7, ThreadNow, PlainInv

\* It takes the gate, for reading or for writing.
LEMMA EnterInv ==
  ASSUME IInv, NEW c \in Calls, Enter(c)
  PROVE  IInv'
<1>1. c \in Threads
  BY DEF Threads
<1>2. ASSUME NEW pc \in {"rserial", "wserial"}, NEW mode \in {"r", "w"},
             th[c].pc \in {"read", "write"}, Go(c, [th[c] EXCEPT !.pc = pc, !.mode = mode]),
             \/ pc = "rserial" /\ mode = "r" /\ Holders(th[c].gate, {"w"}) = {}
             \/ pc = "wserial" /\ mode = "w" /\ Holders(th[c].gate, {"r", "w"}) = {}
      PROVE  IInv'
  <2> DEFINE r == [th[c] EXCEPT !.pc = pc, !.mode = mode]
  <2>1. /\ r \in Thread /\ r.pc = pc /\ r.mode = mode /\ r.gate = th[c].gate
        /\ r.sent <=> th[c].sent
    BY <1>1, ThreadNow DEF Thread
  <2>2. Quiet /\ UNCHANGED <<faults, ran>> /\ th' = [th EXCEPT ![c] = r]
    BY <1>2 DEF Enter, Go, Quiet, history
  <2> HIDE DEF r
  <2>3. PcFits(r)
    BY <1>1, <1>2, <2>1, ThreadNow DEF PcFits, Recovering
  <2>4. Moves(c, r) /\ th[c].pc \notin Recovering
    BY <1>2, <2>1, <2>2, <2>3 DEF Moves, Recovering, Quiet, session
  <2>5. PostFits(r, owner, Ready, marked, desc, gate) /\ RanFits(r, ran[c])
    BY <1>1, <1>2, <2>1, ThreadNow DEF PostFits, RanFits
  <2> QED
    BY <1>1, <2>2, <2>4, <2>5, ThreadNow, PlainInv
<1> QED
  BY <1>2 DEF Enter

\* A call that keeps what it holds or gives it up, and what it has sent.
LEMMA CallInv ==
  ASSUME IInv, NEW c \in Calls, NEW r \in Thread, PcFits(r), Go(c, r), Quiet,
         faults' \in 0..MaxFaults, UNCHANGED ran,
         th[c].pc \notin Recovering, r.pc \notin Recovering,
         r.mode = "none" \/ (r.gate = th[c].gate /\ r.mode = th[c].mode),
         PostFits(r, owner, Ready, marked, desc, gate),
         r.pc = "done" \/ ((r.sent <=> th[c].sent) /\ th[c].pc # "done")
  PROVE  IInv'
<1>1. c \in Threads
  BY DEF Threads
<1>2. Moves(c, r)
  BY DEF Moves, Go, Quiet, session
<1>3. RanFits(r, ran[c])
  BY <1>1, ThreadNow DEF RanFits
<1> QED
  BY <1>1, <1>2, <1>3, PlainInv

\* A session that looks healthy while no recovery runs is opened, and by the present daemon.
LEMMA HealthySession ==
  ASSUME IInv, serial = Nobody, stale = HEALTHY
  PROVE  sid \in Sessions /\ sid \in Ready /\ owner[sid] = desc
<1>1. sid \in Ready /\ Ready \subseteq Sessions
  BY DEF IInv, TypeOK, SidFits, Ready
<1>2. sid # 0
  BY <1>1 DEF Sessions
<1>3. \A t \in Threads : th[t].pc # "reopen"
  BY ThreadNow, ThreadAssumption DEF Threads, Recovering
<1> QED
  BY <1>1, <1>2, <1>3 DEF IInv, SidFits, SidOwned

\* A thread that sends keeps what it holds.
LEMMA SendingFacts ==
  ASSUME IInv, NEW t \in Threads, NEW d \in Daemons, NEW s \in 0..MaxSessions
  PROVE  /\ Sending(t, d, s) \in Thread /\ Sending(t, d, s).pc = "post"
         /\ Sending(t, d, s).gate = th[t].gate /\ Sending(t, d, s).mode = th[t].mode
         /\ Sending(t, d, s).d = d /\ Sending(t, d, s).s = s
         /\ Sending(t, d, s).sent <=> th[t].sent
<1>1. th[t] \in Thread /\ d \in 0..MaxDaemons
  BY ThreadNow DEF Daemons
<1>2. HEALTHY \in HEALTHY..DAEMON_WEDGED
  BY DEF HEALTHY, DAEMON_WEDGED
<1> QED
  BY <1>1, <1>2 DEF Sending, Thread

\* The call that entered in time is sent on that session.
LEMMA SendInv ==
  ASSUME IInv, NEW c \in Calls, th[c].pc \in {"rserial", "wserial"}, serial = Nobody,
         stale = HEALTHY, th[c].gate = gate, Go(c, Sending(c, desc, sid)), Quiet,
         UNCHANGED <<faults, ran>>
  PROVE  IInv'
<1>1. c \in Threads
  BY DEF Threads
<1> DEFINE r == Sending(c, desc, sid)
<1>3. /\ r \in Thread /\ r.pc = "post" /\ r.gate = th[c].gate /\ r.mode = th[c].mode
      /\ r.d = desc /\ r.s = sid /\ (r.sent <=> th[c].sent) /\ Go(c, r)
  BY <1>1, ThreadNow, SendingFacts
<1> HIDE DEF r
<1>4. PcFits(r)
  BY <1>1, <1>3, ThreadNow DEF PcFits, Recovering
<1>5. PostFits(r, owner, Ready, marked, desc, gate)
  BY <1>1, <1>3, HealthySession, ThreadNow DEF PostFits
<1> QED
  BY <1>1, <1>3, <1>4, <1>5, CallInv, ThreadNow DEF Recovering

Retreated(c, pc, g) == [th[c] EXCEPT !.pc = pc, !.gate = g, !.mode = "none"]

\* The call that came too late looks again, at the level or at the gate.
LEMMA RetreatInv ==
  ASSUME IInv, NEW c \in Calls, th[c].pc \in {"rserial", "wserial"},
         NEW pc, NEW g, (pc = "start" /\ g = 0) \/ (pc = "write" /\ g = gate),
         Go(c, Retreated(c, pc, g)), Quiet,
         UNCHANGED <<faults, ran>>
  PROVE  IInv'
<1>1. c \in Threads
  BY DEF Threads
<1> DEFINE r == Retreated(c, pc, g)
<1>2. /\ r \in Thread /\ r.pc = pc /\ r.gate = g /\ r.mode = "none"
      /\ (r.sent <=> th[c].sent) /\ Go(c, r)
  BY <1>1, ThreadNow DEF Thread, Retreated
<1> HIDE DEF r
<1>3. PcFits(r)
  <2>1. gate # 0
    BY <1>1, ThreadNow DEF Gates
  <2> QED
    BY <1>1, <1>2, <2>1, ThreadNow DEF PcFits, Recovering
<1>4. PostFits(r, owner, Ready, marked, desc, gate)
  BY <1>2 DEF PostFits
<1> QED
  BY <1>1, <1>2, <1>3, <1>4, CallInv, ThreadNow DEF Recovering

\* The level and the gate are read again under the shared gate.
LEMMA EnterHealthyInv ==
  ASSUME IInv, NEW c \in Calls, EnterHealthy(c)
  PROVE  IInv'
<1>1. /\ th[c].pc = "rserial" /\ serial = Nobody /\ Quiet /\ UNCHANGED <<faults, ran>>
  BY DEF EnterHealthy, Quiet, history
<1>2. CASE th[c].gate # gate
  <2>1. Go(c, Retreated(c, "start", 0))
    BY <1>2 DEF EnterHealthy, Retreated
  <2> QED
    BY <1>1, <2>1, RetreatInv
<1>3. CASE th[c].gate = gate /\ stale = HEALTHY
  BY <1>1, <1>3, SendInv DEF EnterHealthy
<1>4. CASE th[c].gate = gate /\ stale # HEALTHY
  <2>1. Go(c, Retreated(c, "write", gate))
    BY <1>4 DEF EnterHealthy, Retreated
  <2> QED
    BY <1>1, <2>1, RetreatInv
<1> QED
  BY <1>2, <1>3, <1>4

\* Under the exclusive gate the call may be the one that recovers.
LEMMA EnterStaleInv ==
  ASSUME IInv, NEW c \in Calls, EnterStale(c)
  PROVE  IInv'
<1>1. /\ th[c].pc = "wserial" /\ serial = Nobody /\ UNCHANGED <<faults, ran>>
      /\ UNCHANGED <<world, desc, sid, gate, wedged, stopping, closed, marked, skipped>>
  BY DEF EnterStale, history
<1>2. CASE /\ th[c].gate # gate
           /\ Go(c, [th[c] EXCEPT !.pc = "start", !.gate = 0, !.mode = "none"])
           /\ UNCHANGED <<stale, serial>>
  <2>1. Go(c, Retreated(c, "start", 0)) /\ Quiet
    BY <1>1, <1>2 DEF Retreated, Quiet, session
  <2> QED
    BY <1>1, <2>1, RetreatInv
<1>3. CASE /\ th[c].gate = gate /\ stale = HEALTHY
           /\ Go(c, Sending(c, desc, sid)) /\ UNCHANGED <<stale, serial>>
  BY <1>1, <1>3, SendInv DEF Quiet, session
<1>4. CASE /\ th[c].gate = gate /\ stale # HEALTHY
           /\ Go(c, [th[c] EXCEPT !.pc = "recover", !.lvl = stale])
           /\ stale' = HEALTHY /\ serial' = c
  <2>1. c \in Threads
    BY DEF Threads
  <2> DEFINE r == [th[c] EXCEPT !.pc = "recover", !.lvl = stale]
  <2>2. /\ r \in Thread /\ r.pc = "recover" /\ r.gate = th[c].gate /\ r.mode = th[c].mode
        /\ r.lvl = stale /\ (r.sent <=> th[c].sent) /\ th' = [th EXCEPT ![c] = r]
    BY <1>4, <2>1, ThreadNow DEF Thread, Go, Levels
  <2> HIDE DEF r
  <2>3. PcFits(r)
    BY <1>1, <1>4, <2>1, <2>2, ThreadNow DEF PcFits, Recovering
  <2>4. Moves(c, r) /\ th[c].pc \notin Recovering
    BY <1>1, <1>4, <2>2, <2>3 DEF Moves, Recovering
  <2>5. PostFits(r, owner, Ready, marked, desc, gate) /\ RanFits(r, ran'[c])
    BY <1>1, <2>1, <2>2, ThreadNow DEF PostFits, RanFits
  <2>6. stale' \in Levels
    BY <1>4, LevelFacts
  <2> QED
    BY <1>1, <1>4, <2>1, <2>2, <2>4, <2>5, <2>6, ThreadNow, QuietInv
<1> QED
  BY <1>2, <1>3, <1>4 DEF EnterStale

\* The daemon dispatches a request that was not dispatched before.
LEMMA RunInv ==
  ASSUME IInv, NEW c \in Calls, Run(c)
  PROVE  IInv'
<1>1. c \in Threads
  BY DEF Threads
<1> DEFINE r == [th[c] EXCEPT !.sent = TRUE]
<1>2. /\ r \in Thread /\ r.pc = "post" /\ r.gate = th[c].gate /\ r.mode = th[c].mode
      /\ r.d = th[c].d /\ r.s = th[c].s /\ r.sent /\ th' = [th EXCEPT ![c] = r]
  BY <1>1, ThreadNow DEF Thread, Run, Go
<1>3. /\ th[c].pc = "post" /\ ~th[c].sent /\ Quiet /\ UNCHANGED faults
      /\ ran' = [ran EXCEPT ![c] = ran[c] + 1]
  BY DEF Run, Quiet
<1> HIDE DEF r
<1>4. PcFits(r)
  BY <1>1, <1>2, <1>3, ThreadNow DEF PcFits, Recovering
<1>5. Moves(c, r) /\ th[c].pc \notin Recovering
  BY <1>2, <1>3, <1>4 DEF Moves, Recovering, Quiet, session
<1>6. ran[c] = 0
  BY <1>1, <1>3, ThreadNow DEF RanFits
<1>7. ran' \in [Calls -> Nat] /\ ran'[c] = 1 /\ \A k \in Calls \ {c} : ran'[k] = ran[k]
  BY <1>1, <1>3, <1>6, ThreadNow
<1>8. PostFits(r, owner, Ready, marked, desc, gate) /\ RanFits(r, ran'[c])
  BY <1>1, <1>2, <1>3, <1>7, ThreadNow DEF PostFits, RanFits
<1> QED
  BY <1>1, <1>3, <1>5, <1>7, <1>8, ThreadNow, QuietInv DEF Quiet, session

\* A call is answered, or comes too late to be sent.
LEMMA EndInv ==
  ASSUME IInv, NEW c \in Calls, Reply(c) \/ TooLate(c)
  PROVE  IInv'
<1>1. th[c].pc = "post" /\ Quiet /\ UNCHANGED <<faults, ran>> /\ Go(c, Done)
  BY DEF Reply, TooLate, Quiet, history
<1>2. c \in Threads
  BY DEF Threads
<1>3. PostFits(Done, owner, Ready, marked, desc, gate)
  BY IdleFacts DEF PostFits
<1> QED
  BY <1>1, <1>2, <1>3, IdleFacts, CallInv, ThreadNow DEF Recovering

\* A request is refused before it is dispatched, or breaks off.
LEMMA BreakInv ==
  ASSUME IInv, NEW c \in Calls, Refuse(c) \/ BreakOff(c)
  PROVE  IInv'
<1>1. c \in Threads
  BY DEF Threads
<1>2. th[c].pc = "post" /\ Quiet /\ UNCHANGED ran /\ (Fault \/ NoFault)
  BY DEF Refuse, BreakOff, Quiet, history, NoFault
<1>3. PICK level \in {SESSION_REFUSED, DAEMON_LOST} :
          /\ Go(c, [th[c] EXCEPT !.pc = "apply", !.lvl = level])
          /\ level = SESSION_REFUSED => ~th[c].sent
  BY LevelFacts DEF Refuse, BreakOff
<1> DEFINE r == [th[c] EXCEPT !.pc = "apply", !.lvl = level]
<1>4. level \in HEALTHY..DAEMON_WEDGED
  BY DEF HEALTHY, SESSION_REFUSED, DAEMON_LOST, DAEMON_WEDGED
<1>5. /\ r \in Thread /\ r.pc = "apply" /\ r.gate = th[c].gate /\ r.mode = th[c].mode
      /\ r.lvl = level /\ (r.sent <=> th[c].sent) /\ Go(c, r)
  BY <1>1, <1>3, <1>4, ThreadNow DEF Thread
<1> HIDE DEF r
<1>6. PcFits(r)
  BY <1>1, <1>2, <1>3, <1>5, ThreadNow DEF PcFits, Recovering
<1>7. PostFits(r, owner, Ready, marked, desc, gate)
  BY <1>5 DEF PostFits
<1> QED
  BY <1>1, <1>2, <1>5, <1>6, <1>7, FaultFits, CallInv DEF Recovering

\* What went wrong is noted; only a call that was refused, and so never ran, starts again.
LEMMA ApplyInv ==
  ASSUME IInv, NEW c \in Calls, Apply(c)
  PROVE  IInv'
<1>1. c \in Threads
  BY DEF Threads
<1> DEFINE again == [Idle EXCEPT !.pc = "start", !.again = TRUE]
<1>2. /\ th[c].pc = "apply" /\ serial = Nobody /\ UNCHANGED <<serial, faults, ran>>
      /\ UNCHANGED <<world, desc, sid, gate, wedged, stopping, closed, marked, skipped>>
  BY DEF Apply, history
<1>3. PICK r \in {again, Done} :
          th' = [th EXCEPT ![c] = r] /\ (r = again => th[c].lvl = SESSION_REFUSED)
  <2>1. CASE th[c].d = desc /\ th[c].s = sid /\ th[c].lvl = SESSION_REFUSED /\ ~th[c].again
    BY <2>1 DEF Apply, Go
  <2>2. CASE ~(th[c].d = desc /\ th[c].s = sid /\ th[c].lvl = SESSION_REFUSED /\ ~th[c].again)
    <3>1. th' = [th EXCEPT ![c] = Done]
      BY <2>2 DEF Apply, Go
    <3>2. Done # again
      BY DEF Done, Idle
    <3> QED
      BY <3>1, <3>2
  <2> QED
    BY <2>1, <2>2
<1>4. stale' \in Levels /\ (stale # HEALTHY => stale' # HEALTHY)
  <2>1. th[c].lvl \in Levels
    BY <1>1, ThreadNow DEF Thread, Levels
  <2>2. stale' \in {stale, Raise(th[c].lvl)}
    BY DEF Apply
  <2> QED
    BY <1>1, <2>1, <2>2, RaiseFacts, ThreadNow
<1>5. again \in Thread /\ again.pc = "start" /\ again.mode = "none" /\ again.gate = 0 /\ ~again.sent
  BY IdleFacts DEF Thread, Idle
<1> HIDE DEF again
<1>6. /\ r \in Thread /\ r.pc \in {"start", "done"} /\ r.mode = "none" /\ PcFits(r)
      /\ r.pc = "start" => th[c].lvl = SESSION_REFUSED
  BY <1>3, <1>5, IdleFacts DEF PcFits, Recovering
<1>7. Moves(c, r) /\ th[c].pc \notin Recovering
  BY <1>2, <1>3, <1>6 DEF Moves, Recovering
<1>8. PostFits(r, owner, Ready, marked, desc, gate) /\ RanFits(r, ran'[c])
  BY <1>1, <1>2, <1>6, ThreadNow DEF PostFits, RanFits, PcFits
<1> QED
  BY <1>1, <1>2, <1>4, <1>7, <1>8, ThreadNow, QuietInv

-----------------------------------------------------------------------------
(* Steps of the heartbeat.                                                 *)

\* The heartbeat is a thread and no call.
LEMMA BeatFacts == Beat \in Threads /\ Beat \notin Calls
BY ThreadAssumption DEF Threads

\* A probe is noted, or forgotten.
LEMMA ProbeInv ==
  ASSUME IInv, Probe \/ Ignore
  PROVE  IInv'
<1>1. th[Beat].pc \notin Recovering /\ Quiet /\ UNCHANGED <<faults, ran>>
  BY DEF Probe, Ignore, Quiet, history, Recovering
<1>2. PICK r \in Thread : Go(Beat, r) /\ PcFits(r) /\ r.pc \notin Recovering /\ r.mode = "none"
  <2>1. CASE Ignore
    BY <2>1, IdleFacts DEF Ignore, Recovering
  <2>2. CASE Probe
    <3> DEFINE r == [Idle EXCEPT !.pc = "probed", !.d = desc, !.lvl = Health(desc)]
    <3>1. Health(desc) \in HEALTHY..DAEMON_WEDGED
      BY DEF Health, HEALTHY, DAEMON_LOST, DAEMON_WEDGED
    <3>2. desc \in 0..MaxDaemons
      BY BeatFacts, ThreadNow DEF Daemons
    <3>3. r \in Thread /\ r.pc = "probed" /\ r.gate = 0 /\ r.mode = "none" /\ ~r.sent
      BY <3>1, <3>2, IdleFacts DEF Thread, Idle
    <3>4. Go(Beat, r)
      BY <2>2 DEF Probe
    <3> HIDE DEF r
    <3> QED
      BY <3>3, <3>4 DEF PcFits, Recovering
  <2> QED
    BY <2>1, <2>2
<1>3. Moves(Beat, r)
  BY <1>1, <1>2 DEF Moves, Go, Quiet, session
<1> QED
  BY <1>1, <1>3, BeatFacts, ThreadNow, PlainInv

\* The loss is noted.
LEMMA NoteLossInv ==
  ASSUME IInv, NoteLoss
  PROVE  IInv'
<1>1. /\ th[Beat].pc = "probed" /\ UNCHANGED <<serial, faults, ran>> /\ Go(Beat, Idle)
      /\ UNCHANGED <<world, desc, sid, gate, wedged, stopping, closed, marked, skipped>>
  BY DEF NoteLoss, Observed, history
<1>2. stale' \in Levels /\ (stale # HEALTHY => stale' # HEALTHY)
  <2>1. stale' \in {stale, Raise(DAEMON_LOST)} /\ DAEMON_LOST \in Levels
    BY LevelFacts DEF NoteLoss, Noted
  <2> QED
    BY <2>1, RaiseFacts, BeatFacts, ThreadNow
<1>3. Moves(Beat, Idle) /\ th[Beat].pc \notin Recovering
  BY <1>1, IdleFacts DEF Moves, Go, Recovering
<1> QED
  BY <1>1, <1>2, <1>3, BeatFacts, ThreadNow, QuietInv

\* The heartbeat recovers by itself when no call holds the gate.
LEMMA RecoverIdleInv ==
  ASSUME IInv, RecoverIdle
  PROVE  IInv'
<1> DEFINE r == [Idle EXCEPT !.pc = "recover", !.lvl = DAEMON_LOST, !.gate = gate, !.mode = "w"]
<1>1. /\ th[Beat].pc = "probed" /\ serial = Nobody /\ UNCHANGED <<faults, ran>>
      /\ Holders(gate, {"r", "w"}) = {} /\ serial' = Beat /\ stale' = HEALTHY /\ Go(Beat, r)
      /\ UNCHANGED <<world, desc, sid, gate, wedged, stopping, closed, marked, skipped>>
  BY DEF RecoverIdle, Observed, history
<1>2. DAEMON_LOST \in HEALTHY..DAEMON_WEDGED /\ gate \in Gates /\ gate # 0
  BY BeatFacts, ThreadNow DEF HEALTHY, DAEMON_LOST, DAEMON_WEDGED, Gates
<1>3. /\ r \in Thread /\ r.pc = "recover" /\ r.gate = gate /\ r.mode = "w" /\ ~r.sent
      /\ r.lvl = DAEMON_LOST
  BY <1>2, IdleFacts DEF Thread, Idle
<1> HIDE DEF r
<1>4. PcFits(r)
  BY <1>2, <1>3, LevelFacts DEF PcFits, Recovering
<1>5. Moves(Beat, r) /\ th[Beat].pc \notin Recovering
  BY <1>1, <1>3, <1>4 DEF Moves, Go, Recovering
<1>6. stale' \in Levels
  BY <1>1, LevelFacts
<1> QED
  BY <1>1, <1>3, <1>5, <1>6, BeatFacts, ThreadNow, QuietInv

\* mark_wedged changes the gate: requests that are out keep the old one, and their daemon is
\* the one that is marked.
LEMMA MarkWedgedInv ==
  ASSUME IInv, MarkWedged
  PROVE  IInv'
<1>1. /\ th[Beat].pc = "probed" /\ serial = Nobody /\ ~stopping
      /\ UNCHANGED <<world, desc, sid, serial, stopping, closed, faults, ran, skipped>>
      /\ wedged' = desc /\ marked' = marked \cup {desc} /\ stale' = Raise(DAEMON_WEDGED)
      /\ gate' = CHOOSE g \in Gates : \A t \in Threads : th[t].gate # g
      /\ th' = [th EXCEPT ![Beat] = Idle]
  BY DEF MarkWedged, Go
<1>2. gate' \in Gates /\ \A t \in Threads : th[t].gate # gate'
  BY <1>1, FreshGate
<1>3. stale' \in Levels /\ stale' # HEALTHY
  BY <1>1, RaiseFacts, LevelFacts
<1>4. th \in [Threads -> Thread] /\ th' \in [Threads -> Thread]
  BY <1>1, IdleFacts DEF IInv, TypeOK
<1>5. th'[Beat] = Idle /\ \A u \in Threads \ {Beat} : th'[u] = th[u]
  BY <1>1, <1>4, BeatFacts
<1>6. \A t \in Threads : th[t].pc \notin Recovering /\ th'[t].pc \notin Recovering
  <2>1. \A t \in Threads : th[t].pc \notin Recovering
    BY <1>1, ThreadNow, ThreadAssumption DEF Threads
  <2> QED
    BY <1>5, <2>1, IdleFacts DEF Recovering
<1>7. TypeOK'
  <2>1. marked' \subseteq Daemons /\ wedged' \in 0..MaxDaemons
    BY <1>1 DEF IInv, TypeOK, Daemons
  <2> QED
    BY <1>1, <1>2, <1>3, <1>4, <2>1 DEF IInv, TypeOK, world, Levels
<1>8. ThreadsFit'
  <2>1. ASSUME NEW t \in Threads PROVE PcFits(th'[t]) /\ serial' # t
    BY <1>1, <1>5, IdleFacts, ThreadNow, ThreadAssumption DEF Threads
  <2>2. ASSUME NEW t \in Threads, NEW u \in Threads, t # u PROVE Apart(th'[t], th'[u])
    <3>1. Apart(th[t], th[u])
      BY <2>2 DEF IInv, ThreadsFit
    <3> QED
      BY <1>5, <3>1, IdleFacts DEF Apart
  <2> QED
    BY <1>6, <2>1, <2>2 DEF ThreadsFit
<1>9. PostsFit'
  <2> SUFFICES ASSUME NEW c \in Calls
               PROVE  PostFits(th'[c], owner', Ready', marked', desc', gate')
    BY DEF PostsFit, Ready
  <2>1. c \in Threads /\ c # Beat
    BY BeatFacts DEF Threads
  <2>2. th'[c] = th[c] /\ PostFits(th[c], owner, Ready, marked, desc, gate) /\ th[c].gate # gate'
    BY <1>2, <1>5, <2>1, ThreadNow
  <2>3. owner' = owner /\ Ready' = Ready
    BY <1>1 DEF world, Ready
  <2> QED
    BY <1>1, <2>2, <2>3 DEF PostFits
<1>10. RansFit'
  BY <1>1, <1>5, BeatFacts DEF IInv, RansFit, Threads
<1>11. SidFits'
  <2>1. SidOwned
    BY <1>1, <1>6 DEF IInv, SidFits, Recovering
  <2>2. SidOwned'
    BY <1>1, <2>1 DEF SidOwned, world
  <2> QED
    BY <1>3, <1>6, <2>2 DEF SidFits, Recovering
<1>12. Numbered(owner')
  BY <1>1 DEF IInv, world
<1> QED
  BY <1>7, <1>8, <1>9, <1>10, <1>11, <1>12 DEF IInv

-----------------------------------------------------------------------------
(* Steps of a recovery.                                                    *)

\* What a recovery may change outside its thread: daemons and sessions are added, and the
\* adapter is pointed at them.
Rebuilds ==
    /\ UNCHANGED <<gate, wedged, stopping, closed, marked, ran>>
    /\ daemon' \in [Daemons -> {"none", "up", "silent", "gone"}]
    /\ host' \in Daemons /\ private' \in 0..MaxDaemons /\ desc' \in Daemons
    /\ owner' \in [Sessions -> 0..MaxDaemons] /\ sid' \in 0..MaxSessions
    /\ valid' \subseteq Sessions /\ Ready \subseteq Ready' /\ Ready' \subseteq Sessions
    /\ stale' \in Levels /\ faults' \in 0..MaxFaults
    /\ \A s \in Sessions : owner[s] # 0 => owner'[s] = owner[s]
    /\ Numbered(owner')

\* Only the thread that recovers is at one of the places of a recovery, and its call was not
\* dispatched.
LEMMA RecoveryNow ==
  ASSUME IInv, NEW t \in Threads, th[t].pc \in Recovering
  PROVE  /\ serial = t /\ th[t].mode = "w" /\ th[t].gate = gate /\ gate # 0 /\ ~th[t].sent
         /\ th[t].lvl \in Levels /\ th[t].lvl # HEALTHY
         /\ t \in Calls => ran[t] = 0
         /\ \A u \in Threads \ {t} : th[u].pc \notin Recovering
         /\ th[t].pc # "reopen" /\ ~stopping => SidOwned
<1>1. serial = t /\ PcFits(th[t]) /\ th[t] \in Thread
  BY ThreadNow
<1>2. \A u \in Threads \ {t} : th[u].pc \notin Recovering
  BY <1>1, ThreadNow
<1>3. /\ th[t].mode = "w" /\ th[t].gate = gate /\ gate # 0 /\ ~th[t].sent /\ th[t].lvl # HEALTHY
      /\ th[t].lvl \in Levels
  BY <1>1, ThreadNow DEF PcFits, Recovering, Thread, Levels
<1>4. t \in Calls => ran[t] = 0
  BY <1>3, ThreadNow DEF RanFits, Recovering
<1>5. th[t].pc # "reopen" /\ ~stopping => SidOwned
  BY <1>2 DEF IInv, SidFits, Recovering
<1> QED
  BY <1>1, <1>2, <1>3, <1>4, <1>5

\* A step of the thread t that recovers, to the record r.
LEMMA RecoveryInv ==
  ASSUME IInv, NEW t \in Threads, th[t].pc \in Recovering, NEW r, Moves(t, r), Rebuilds,
         t \in Calls => PostFits(r, owner', Ready', marked', desc', gate),
         ~SidOwned' => r.pc = "reopen" \/ (stopping /\ (stale' # HEALTHY \/ serial' # Nobody)),
         serial' = Nobody /\ stale' = HEALTHY => sid' \in Ready',
         r.pc = "init" => sid' = 0
  PROVE  IInv'
<1>1. /\ th' \in [Threads -> Thread] /\ th'[t] = r
      /\ \A u \in Threads \ {t} : th'[u] = th[u] /\ th[u].pc \notin Recovering
  BY MovedThreads, RecoveryNow
<1>2. TypeOK'
  <2>1. serial' \in Threads \cup {Nobody} /\ gate' \in Gates
    BY DEF IInv, TypeOK, Moves
  <2>2. inited' \subseteq Sessions /\ skipped' \subseteq Sessions
    BY DEF Rebuilds, Ready
  <2> QED
    BY <1>1, <2>1, <2>2 DEF IInv, TypeOK, Rebuilds, Levels
<1>3. ThreadsFit'
  BY ThreadsKept
<1>4. PostsFit'
  <2>1. serial = t
    BY RecoveryNow
  <2> QED
    BY <2>1, PostsKept DEF Rebuilds
<1>5. RansFit'
  <2>1. t \in Calls => RanFits(r, ran'[t])
    BY RecoveryNow DEF RanFits, Rebuilds
  <2> QED
    BY <2>1, RansKept DEF Rebuilds
<1>6. SidFits'
  <2>1. \A u \in Threads : th'[u].pc = "init" => sid' = 0
    BY <1>1 DEF Recovering
  <2>2. r.pc = "reopen" => \E u \in Threads : th'[u].pc = "reopen"
    BY <1>1
  <2>3. stopping' = stopping
    BY DEF Rebuilds
  <2> QED
    BY <2>1, <2>2, <2>3 DEF SidFits, Ready
<1> QED
  BY <1>2, <1>3, <1>4, <1>5, <1>6 DEF IInv, Rebuilds

\* The recovery gives up, and what made it necessary is noted.
LEMMA GivesUpInv ==
  ASSUME IInv, NEW t \in Threads, th[t].pc \in Recovering, Rebuilds,
         serial' = Nobody, stale' # HEALTHY, Go(t, IF t = Beat THEN Idle ELSE Done),
         SidOwned' \/ stopping
  PROVE  IInv'
<1>1. PICK r \in {Idle, Done} : th' = [th EXCEPT ![t] = r]
  BY DEF Go
<1>2. r \in Thread /\ PcFits(r) /\ r.mode = "none" /\ r.pc \in {"idle", "done"}
  BY <1>1, IdleFacts
<1>3. Moves(t, r)
  BY <1>1, <1>2, RecoveryNow DEF Moves, Recovering, Rebuilds
<1>4. PostFits(r, owner', Ready', marked', desc', gate)
  BY <1>2 DEF PostFits
<1> QED
  BY <1>2, <1>3, <1>4, RecoveryInv

Advanced(t, pc) == [th[t] EXCEPT !.pc = pc]

\* It goes on.
LEMMA AdvancesInv ==
  ASSUME IInv, NEW t \in Threads, th[t].pc \in Recovering, Rebuilds,
         NEW pc \in Recovering, Go(t, Advanced(t, pc)), UNCHANGED serial,
         SidOwned' \/ stopping \/ pc = "reopen", pc = "init" => sid' = 0
  PROVE  IInv'
<1> DEFINE r == Advanced(t, pc)
<1>1. /\ r \in Thread /\ r.pc = pc /\ r.gate = th[t].gate /\ r.mode = th[t].mode
      /\ r.lvl = th[t].lvl /\ (r.sent <=> th[t].sent) /\ th' = [th EXCEPT ![t] = r]
  BY ThreadNow DEF Thread, Advanced, Recovering, Go
<1> HIDE DEF r
<1>2. PcFits(r)
  BY <1>1, RecoveryNow DEF PcFits, Recovering
<1>3. Moves(t, r)
  BY <1>1, <1>2, RecoveryNow DEF Moves, Rebuilds
<1>4. PostFits(r, owner', Ready', marked', desc', gate)
  BY <1>1 DEF PostFits, Recovering
<1>5. serial' # Nobody
  BY RecoveryNow, ThreadAssumption DEF Threads
<1> QED
  BY <1>1, <1>3, <1>4, <1>5, RecoveryInv

\* It is over, and the call that needed it is sent.
LEMMA RecoveredInv ==
  ASSUME IInv, NEW t \in Threads, th[t].pc \in Recovering, Rebuilds, Recovered(t, sid),
         UNCHANGED <<owner, desc, sid>>, SidOwned, sid \in Ready'
  PROVE  IInv'
<1>1. sid \in Sessions /\ sid \in 0..MaxSessions /\ sid # 0 /\ desc \in Daemons
  BY ThreadNow DEF Rebuilds, Sessions
<1>2. SidOwned' /\ owner[sid] = desc
  BY <1>1 DEF SidOwned
<1>3. PICK r : /\ Moves(t, r) /\ r.pc \in {"idle", "post"}
               /\ t \in Calls => PostFits(r, owner', Ready', marked', desc', gate)
  <2>1. CASE t = Beat
    <3>1. th' = [th EXCEPT ![t] = Idle] /\ serial' = Nobody
      BY <2>1 DEF Recovered, Go
    <3>2. Moves(t, Idle)
      BY <3>1, IdleFacts, RecoveryNow DEF Moves, Recovering, Rebuilds
    <3> QED
      BY <2>1, <3>2, IdleFacts, BeatFacts
  <2>2. CASE t # Beat
    <3> DEFINE r == Sending(t, desc, sid)
    <3>1. th' = [th EXCEPT ![t] = r] /\ serial' = Nobody
      BY <2>2 DEF Recovered, Go
    <3>2. /\ r \in Thread /\ r.pc = "post" /\ r.gate = th[t].gate /\ r.mode = th[t].mode
          /\ r.d = desc /\ r.s = sid /\ (r.sent <=> th[t].sent)
      BY <1>1, SendingFacts
    <3> HIDE DEF r
    <3>3. PcFits(r)
      BY <3>2, RecoveryNow DEF PcFits, Recovering
    <3>4. Moves(t, r)
      BY <3>1, <3>2, <3>3, RecoveryNow DEF Moves, Recovering, Rebuilds
    <3>5. PostFits(r, owner', Ready', marked', desc', gate)
      BY <1>1, <1>2, <3>2, RecoveryNow DEF PostFits
    <3> QED
      BY <3>2, <3>4, <3>5
  <2> QED
    BY <2>1, <2>2
<1> QED
  BY <1>2, <1>3, RecoveryInv

\* A recovery that fails leaves a level that is not healthy.
LEMMA FailFacts ==
  ASSUME IInv, NEW t \in Threads, th[t].pc \in Recovering,
         Failed(t) \/ FailedFor(t, DAEMON_LOST)
  PROVE  /\ serial' = Nobody /\ stale' \in Levels /\ stale' # HEALTHY
         /\ Go(t, IF t = Beat THEN Idle ELSE Done)
<1>1. CASE Failed(t)
  BY <1>1, RecoveryNow, RaiseFacts DEF Failed
<1>2. CASE FailedFor(t, DAEMON_LOST)
  <2>1. stale \in Levels /\ th[t].lvl \in Levels /\ DAEMON_LOST \in Levels /\ th[t].lvl # HEALTHY
    BY ThreadNow, RecoveryNow, LevelFacts
  <2>2. stale \in Nat /\ th[t].lvl \in Nat /\ DAEMON_LOST \in Nat
    BY <2>1, LevelFacts
  <2>3. stale' \in {stale, th[t].lvl, DAEMON_LOST} /\ stale' >= th[t].lvl
    BY <1>2, <2>2, MaxThree DEF FailedFor
  <2>4. stale' \in Levels /\ stale' # HEALTHY
    BY <2>1, <2>3, LevelFacts
  <2> QED
    BY <1>2, <2>4 DEF FailedFor
<1> QED
  BY <1>1, <1>2

\* The first step of a recovery: a daemon is found, started or given up.
LEMMA RecoverInv ==
  ASSUME IInv, NEW t \in Threads, Recover(t)
  PROVE  IInv'
<1>1. /\ th[t].pc = "recover" /\ th[t].pc \in Recovering
      /\ UNCHANGED <<owner, valid, inited, sid, gate, wedged, stopping, closed, ran, marked>>
  BY DEF Recover, Recovering
<1>2. ASSUME daemon' \in [Daemons -> {"none", "up", "silent", "gone"}], host' \in Daemons,
             private' \in 0..MaxDaemons, desc' \in Daemons, stale' \in Levels, Fault \/ NoFault,
             \/ skipped' = skipped
             \/ skipped' = skipped \cup ({sid} \ inited) /\ sid # 0
      PROVE  Rebuilds
  <2>1. faults' \in 0..MaxFaults
    BY <1>2, FaultFits
  <2>2. sid # 0 => sid \in Sessions
    BY BoundAssumption DEF IInv, TypeOK, Sessions
  <2>3. Ready \subseteq Ready' /\ Ready' \subseteq Sessions
    BY <1>1, <1>2, <2>2 DEF Ready, IInv, TypeOK
  <2> QED
    BY <1>1, <1>2, <2>1, <2>3 DEF Rebuilds, IInv, TypeOK
<1>3. ASSUME Failed(t), UNCHANGED <<daemon, host, private, desc, skipped>>, Fault \/ NoFault
      PROVE  IInv'
  <2>1. Rebuilds
    BY <1>1, <1>2, <1>3, FailFacts DEF IInv, TypeOK
  <2>2. SidOwned' \/ stopping
    BY <1>1, <1>3, RecoveryNow DEF SidOwned
  <2> QED
    BY <1>1, <1>3, <2>1, <2>2, FailFacts, GivesUpInv
<1>4. ASSUME daemon' \in [Daemons -> {"none", "up", "silent", "gone"}], host' \in Daemons,
             private' \in 0..MaxDaemons, desc' \in Daemons, NoFault,
             Go(t, [th[t] EXCEPT !.pc = "reopen"]), UNCHANGED <<stale, serial, skipped>>
      PROVE  IInv'
  <2>1. Rebuilds
    BY <1>2, <1>4, ThreadNow
  <2>2. Go(t, Advanced(t, "reopen")) /\ "reopen" \in Recovering
    BY <1>4 DEF Advanced, Recovering
  <2> QED
    BY <1>1, <1>4, <2>1, <2>2, AdvancesInv
<1>5. ASSUME UsePrivateGateway(t), UNCHANGED skipped
      PROVE  IInv'
  <2>1. CASE NextDaemon \in Daemons /\ private' = NextDaemon
    <3>1. /\ daemon' \in [Daemons -> {"none", "up", "silent", "gone"}] /\ host' \in Daemons
          /\ private' \in 0..MaxDaemons /\ desc' \in Daemons
      BY <1>5, <2>1 DEF UsePrivateGateway, IInv, TypeOK, Daemons
    <3> QED
      BY <1>3, <1>4, <1>5, <3>1 DEF UsePrivateGateway
  <2>2. CASE ~(NextDaemon \in Daemons /\ private' = NextDaemon)
    BY <1>3, <1>5, <2>2 DEF UsePrivateGateway
  <2> QED
    BY <2>1, <2>2
<1>6. ASSUME EnsureKnown(t), UNCHANGED skipped
      PROVE  IInv'
  <2>1. CASE /\ daemon[host] = "up" /\ desc' = host /\ NoFault
             /\ Go(t, [th[t] EXCEPT !.pc = "reopen"])
             /\ UNCHANGED <<daemon, host, private, stale, serial>>
    BY <1>4, <1>6, <2>1 DEF IInv, TypeOK
  <2>2. CASE /\ daemon[host] = "gone" /\ NextDaemon \in Daemons /\ NoFault
             /\ daemon' = [daemon EXCEPT ![NextDaemon] = "up"] /\ host' = NextDaemon
             /\ desc' = NextDaemon
             /\ Go(t, [th[t] EXCEPT !.pc = "reopen"]) /\ UNCHANGED <<private, stale, serial>>
    BY <1>4, <1>6, <2>2 DEF IInv, TypeOK
  <2>3. CASE daemon[host] = "silent" /\ UsePrivateGateway(t)
    BY <1>5, <1>6, <2>3
  <2>4. CASE /\ Fault \/ (daemon[host] = "gone" /\ NextDaemon \notin Daemons /\ NoFault)
             /\ Failed(t) /\ UNCHANGED <<daemon, host, private, desc>>
    BY <1>3, <1>6, <2>4
  <2> QED
    BY <1>6, <2>1, <2>2, <2>3, <2>4 DEF EnsureKnown
<1>7. ASSUME ~stopping, sid # 0, NoFault, Recovered(t, sid),
             skipped' = skipped \cup ({sid} \ inited),
             UNCHANGED <<daemon, host, private, desc, stale>>
      PROVE  IInv'
  <2>1. Rebuilds
    BY <1>2, <1>7, ThreadNow DEF IInv, TypeOK
  <2>2. sid \in Ready' /\ SidOwned
    BY <1>1, <1>7, RecoveryNow DEF Ready
  <2> QED
    BY <1>1, <1>7, <2>1, <2>2, RecoveredInv
<1>8. CASE stopping
  BY <1>3, <1>8 DEF Recover
<1>9. CASE ~stopping
  <2>1. CASE UsePrivateGateway(t) /\ UNCHANGED skipped
    BY <1>5, <2>1
  <2>2. CASE /\ sid # 0 /\ NoFault /\ Recovered(t, sid)
             /\ skipped' = skipped \cup ({sid} \ inited)
             /\ UNCHANGED <<daemon, host, private, desc, stale>>
    BY <1>7, <1>9, <2>2
  <2>3. CASE /\ NoFault /\ Go(t, [th[t] EXCEPT !.pc = "reopen"])
             /\ UNCHANGED <<daemon, host, private, desc, stale, serial, skipped>>
    BY <1>4, <2>3 DEF IInv, TypeOK
  <2>4. CASE EnsureKnown(t) /\ UNCHANGED skipped
    BY <1>6, <2>4
  <2> QED
    BY <1>9, <2>1, <2>2, <2>3, <2>4 DEF Recover
<1> QED
  BY <1>8, <1>9

\* The old session is forgotten.
LEMMA ReopenInv ==
  ASSUME IInv, NEW t \in Threads, Reopen(t)
  PROVE  IInv'
<1>1. /\ th[t].pc = "reopen" /\ th[t].pc \in Recovering
      /\ UNCHANGED <<world, desc, gate, wedged, stopping, closed, faults, ran, marked, skipped>>
  BY DEF Reopen, Recovering, history
<1>2. ASSUME stale' \in Levels, sid' \in 0..MaxSessions PROVE Rebuilds
  BY <1>1, <1>2 DEF Rebuilds, IInv, TypeOK, world, Ready
<1>3. CASE stopping /\ Failed(t) /\ UNCHANGED sid
  <2>1. Rebuilds
    BY <1>1, <1>2, <1>3, FailFacts DEF IInv, TypeOK
  <2> QED
    BY <1>1, <1>3, <2>1, FailFacts, GivesUpInv
<1>4. CASE ~stopping /\ sid' = 0 /\ Go(t, [th[t] EXCEPT !.pc = "init"]) /\ UNCHANGED <<stale, serial>>
  <2>1. 0 \in 0..MaxSessions
    BY BoundAssumption
  <2>2. Rebuilds
    BY <1>2, <1>4, <2>1, ThreadNow
  <2>3. Go(t, Advanced(t, "init")) /\ "init" \in Recovering /\ SidOwned'
    BY <1>4 DEF Advanced, Recovering, SidOwned
  <2> QED
    BY <1>1, <1>4, <2>2, <2>3, AdvancesInv
<1> QED
  BY <1>3, <1>4 DEF Reopen

\* initialize: a session is opened and known, opened and lost, or not opened.
LEMMA ReplayInitializeInv ==
  ASSUME IInv, NEW t \in Threads, ReplayInitialize(t)
  PROVE  IInv'
<1>1. /\ th[t].pc = "init" /\ th[t].pc \in Recovering
      /\ UNCHANGED <<daemon, host, private, inited, desc, gate, wedged, stopping, closed>>
      /\ UNCHANGED <<ran, marked, skipped>>
  BY DEF ReplayInitialize, Recovering, history
<1>2. sid = 0 /\ desc \in Daemons /\ desc \in 0..MaxDaemons
  BY <1>1 DEF IInv, SidFits, TypeOK, Daemons
<1>3. faults' \in 0..MaxFaults
  BY FaultFits DEF ReplayInitialize
<1>4. CASE /\ daemon[desc] = "up" /\ NewSession \in Sessions
           /\ owner' = [owner EXCEPT ![NewSession] = desc] /\ valid' = valid \cup {NewSession}
           /\ \/ /\ NoFault /\ sid' = NewSession /\ Go(t, [th[t] EXCEPT !.pc = "initd"])
                 /\ UNCHANGED <<stale, serial>>
              \/ Fault /\ sid' = NewSession /\ Failed(t)
              \/ Fault /\ FailedFor(t, DAEMON_LOST) /\ UNCHANGED sid
  <2>1. owner[NewSession] = 0 /\ Numbered(owner')
    BY <1>2, <1>4, NewSessionFacts
  <2>2. stale' \in Levels
    BY <1>1, <1>4, FailFacts, ThreadNow
  <2>3. sid' \in 0..MaxSessions
    BY <1>4 DEF IInv, TypeOK, Sessions
  <2>4. /\ owner' \in [Sessions -> 0..MaxDaemons] /\ owner'[NewSession] = desc
        /\ \A s \in Sessions : owner[s] # 0 => owner'[s] = owner[s]
    BY <1>2, <1>4, <2>1 DEF IInv, TypeOK
  <2>5. Rebuilds
    BY <1>1, <1>3, <1>4, <2>1, <2>2, <2>3, <2>4 DEF Rebuilds, IInv, TypeOK, Ready
  <2>6. SidOwned'
    BY <1>1, <1>2, <1>4, <2>4 DEF SidOwned
  <2>7. CASE Go(t, [th[t] EXCEPT !.pc = "initd"]) /\ UNCHANGED <<stale, serial>>
    <3>1. Go(t, Advanced(t, "initd")) /\ "initd" \in Recovering
      BY <2>7 DEF Advanced, Recovering
    <3> QED
      BY <1>1, <2>5, <2>6, <2>7, <3>1, AdvancesInv
  <2>8. CASE Failed(t) \/ FailedFor(t, DAEMON_LOST)
    BY <1>1, <2>5, <2>6, <2>8, FailFacts, GivesUpInv
  <2> QED
    BY <1>4, <2>7, <2>8
<1>5. CASE /\ Failed(t) \/ FailedFor(t, DAEMON_LOST)
           /\ UNCHANGED <<owner, valid, sid>>
  <2>1. stale' \in Levels
    BY <1>1, <1>5, FailFacts
  <2>2. Rebuilds
    BY <1>1, <1>3, <1>5, <2>1 DEF Rebuilds, IInv, TypeOK, Ready
  <2>3. SidOwned'
    BY <1>2, <1>5 DEF SidOwned
  <2> QED
    BY <1>1, <1>5, <2>2, <2>3, FailFacts, GivesUpInv
<1> QED
  BY <1>4, <1>5 DEF ReplayInitialize

\* notifications/initialized: the session is complete.
LEMMA ReplayInitializedInv ==
  ASSUME IInv, NEW t \in Threads, ReplayInitialized(t)
  PROVE  IInv'
<1>1. /\ th[t].pc = "initd" /\ th[t].pc \in Recovering
      /\ UNCHANGED <<daemon, host, private, owner, valid, desc, sid, gate, wedged, stopping, closed>>
      /\ UNCHANGED <<ran, marked, skipped>>
  BY DEF ReplayInitialized, Recovering, history
<1>2. faults' \in 0..MaxFaults
  BY FaultFits DEF ReplayInitialized
<1>3. inited' = inited \/ (inited' = inited \cup {sid} /\ sid \in valid)
  BY DEF ReplayInitialized
<1>4. ASSUME stale' \in Levels PROVE Rebuilds
  <2>1. Ready \subseteq Ready' /\ Ready' \subseteq Sessions
    BY <1>1, <1>3 DEF Ready, IInv, TypeOK
  <2> QED
    BY <1>1, <1>2, <1>4, <2>1 DEF Rebuilds, IInv, TypeOK
<1>5. CASE Failed(t) \/ FailedFor(t, DAEMON_LOST)
  <2>1. SidOwned' \/ stopping
    BY <1>1, RecoveryNow DEF SidOwned
  <2> QED
    BY <1>1, <1>4, <1>5, <2>1, FailFacts, GivesUpInv
<1>6. CASE /\ inited' = inited \cup {sid} /\ ~stopping /\ NoFault
           /\ Recovered(t, sid) /\ UNCHANGED stale
  <2>1. Rebuilds
    BY <1>4, <1>6, ThreadNow
  <2>2. sid \in Ready' /\ SidOwned
    BY <1>1, <1>6, RecoveryNow DEF Ready
  <2> QED
    BY <1>1, <2>1, <2>2, <1>6, RecoveredInv
<1> QED
  BY <1>5, <1>6 DEF ReplayInitialized

-----------------------------------------------------------------------------
(* The end of the client, daemons and sessions; the whole specification.   *)

\* No step outside the adapter's threads touches what the adapter knows.
LEMMA OutsideInv ==
  ASSUME IInv, Eof \/ Close \/ DeleteSession \/ Rescope \/ \E d \in Daemons : Turn(d)
  PROVE  IInv'
<1>1. /\ UNCHANGED <<host, private, owner, inited, desc, sid, stale, gate, wedged>>
      /\ UNCHANGED <<serial, th, ran, marked, skipped>> /\ (stopping => stopping')
  BY DEF Eof, Close, DeleteSession, Rescope, Turn, world, session, history
<1>2. TypeOK'
  <2>1. daemon' \in [Daemons -> {"none", "up", "silent", "gone"}] /\ valid' \subseteq Sessions
    BY DEF Eof, Close, DeleteSession, Rescope, Turn, world, IInv, TypeOK
  <2>2. faults' \in 0..MaxFaults
    <3>1. Fault \/ NoFault
      BY DEF Eof, Close, DeleteSession, Rescope, Turn, NoFault
    <3> QED
      BY <3>1, FaultFits
  <2>3. stopping' \in BOOLEAN /\ closed' \in {"no", "closed", "deleted"}
    BY DEF Eof, Close, DeleteSession, Rescope, Turn, IInv, TypeOK
  <2> QED
    BY <1>1, <2>1, <2>2, <2>3 DEF IInv, TypeOK
<1>3. ThreadsFit'
  BY <1>1 DEF IInv, ThreadsFit
<1>4. PostsFit'
  BY <1>1 DEF IInv, PostsFit
<1>5. RansFit'
  BY <1>1 DEF IInv, RansFit
<1>6. SidFits'
  BY <1>1 DEF IInv, SidFits, SidOwned
<1>7. Numbered(owner')
  BY <1>1 DEF IInv
<1> QED
  BY <1>2, <1>3, <1>4, <1>5, <1>6, <1>7 DEF IInv

\* The adapter starts with one daemon, one session and no call.
LEMMA InitInv == Init => IInv
<1> SUFFICES ASSUME Init PROVE IInv
  OBVIOUS
<1>1. /\ 1 \in Daemons /\ 1 \in Sessions /\ 0 \in 0..MaxDaemons /\ 1 \in 0..MaxDaemons
      /\ 1 \in 0..MaxSessions /\ 0 \in 0..MaxFaults
  BY BoundAssumption DEF Daemons, Sessions
<1>2. 1 \in Gates
  <2>1. Cardinality(Calls) \in Nat
    BY CallsAssumption, FS_CardinalityType
  <2> QED
    BY <2>1 DEF Gates
<1>3. TypeOK
  <2>1. /\ daemon \in [Daemons -> {"none", "up", "silent", "gone"}]
        /\ owner \in [Sessions -> 0..MaxDaemons]
    BY <1>1 DEF Init
  <2>2. th \in [Threads -> Thread] /\ ran \in [Calls -> Nat]
    BY IdleFacts DEF Init
  <2>3. stale \in HEALTHY..DAEMON_WEDGED
    BY DEF Init, HEALTHY, DAEMON_WEDGED
  <2>4. stopping \in BOOLEAN
    BY Zenon DEF Init
  <2> QED
    BY <1>1, <1>2, <2>1, <2>2, <2>3, <2>4 DEF Init, TypeOK
<1>4. \A t \in Threads : th[t] = Idle
  BY DEF Init
<1>5. ThreadsFit
  <2>1. Nobody \notin Threads /\ serial = Nobody
    BY ThreadAssumption DEF Threads, Init
  <2> QED
    BY <1>4, <2>1, IdleFacts DEF ThreadsFit, Recovering, Apart
<1>6. PostsFit
  BY <1>4, IdleFacts DEF PostsFit, PostFits, Threads
<1>7. RansFit
  BY DEF Init, RansFit, RanFits
<1>8. SidFits
  BY <1>1, <1>4, IdleFacts DEF Init, SidFits, SidOwned
<1>9. Numbered(owner)
  <2>1. \A s \in Sessions : owner[s] # 0 <=> s <= 1
    BY DEF Init, Sessions
  <2> QED
    BY <1>1, <2>1 DEF Numbered
<1> QED
  BY <1>3, <1>5, <1>6, <1>7, <1>8, <1>9 DEF IInv

\* Every step keeps the invariant.
LEMMA NextInv == IInv /\ [Next]_vars => IInv'
<1> SUFFICES ASSUME IInv, [Next]_vars PROVE IInv'
  OBVIOUS
<1>1. ASSUME NEW c \in Calls, Dispatch(c) \/ CallStep(c) PROVE IInv'
  BY <1>1, DispatchInv, StartInv, EnterInv, EnterHealthyInv, EnterStaleInv, RunInv, EndInv,
     BreakInv, ApplyInv DEF CallStep
<1>2. ASSUME NEW t \in Threads, RecoveryStep(t) PROVE IInv'
  BY <1>2, RecoverInv, ReopenInv, ReplayInitializeInv, ReplayInitializedInv DEF RecoveryStep
<1>3. CASE BeatStep
  BY <1>2, <1>3, BeatFacts, ProbeInv, MarkWedgedInv, NoteLossInv, RecoverIdleInv DEF BeatStep
<1>4. CASE Eof \/ Close \/ DeleteSession \/ Rescope \/ \E d \in Daemons : Turn(d)
  BY <1>4, OutsideInv
<1>5. CASE UNCHANGED vars
  <2>1. /\ UNCHANGED <<daemon, host, private, owner, valid, inited, desc, sid, stale, gate, wedged>>
        /\ UNCHANGED <<serial, stopping, closed, th, faults, ran, marked, skipped>>
    BY <1>5 DEF vars, world, session, history
  <2> QED
    BY <2>1 DEF IInv, TypeOK, ThreadsFit, PostsFit, RansFit, SidFits, SidOwned
<1>6. \A c \in Calls : c \in Threads
  BY DEF Threads
<1> QED
  BY <1>1, <1>2, <1>3, <1>4, <1>5, <1>6 DEF Next

\* The invariant holds throughout.
LEMMA Invariance == Spec => []IInv
BY InitInv, NextInv, PTL DEF Spec

\* A call of the client is dispatched at most once, whatever is lost, refused or replaced on
\* its way: exchange starts a call again only after a refusal that came before its dispatch.
THEOREM DispatchedAtMostOnce == Spec => []RunsAtMostOnce
<1>1. IInv => RunsAtMostOnce
  BY DEF IInv, RansFit, RanFits, RunsAtMostOnce
<1> QED
  BY <1>1, Invariance, PTL

\* While a recovery runs, no request is out on the gate it holds.
LEMMA AloneInv == IInv => RecoversAlone
<1> SUFFICES ASSUME IInv, serial # Nobody, NEW c \in Calls, th[c].pc = "post"
             PROVE  th[c].d \in marked
  BY DEF RecoversAlone
<1>1. PICK t \in Threads : serial = t
  BY DEF IInv, TypeOK
<1>2. th[t].pc \in Recovering /\ c \in Threads
  BY <1>1, ThreadNow DEF Threads
<1>3. th[t].mode = "w" /\ th[t].gate = gate
  BY <1>2, RecoveryNow
<1>4. t # c /\ th[c].mode # "none"
  BY <1>2, ThreadNow DEF Recovering, PcFits
<1>5. Apart(th[t], th[c])
  BY <1>2, <1>4 DEF IInv, ThreadsFit
<1>6. th[c].gate # gate
  BY <1>3, <1>4, <1>5 DEF Apart
<1> QED
  BY <1>2, <1>6, ThreadNow DEF PostFits

\* Requests go to the daemon that opened their session, after its handshake, and a session is
\* rebuilt only while nothing is out but on daemons given up as wedged.
THEOREM SessionsStayOK == Spec => []SessionsOK
<1>1. IInv => SentWhereOpened /\ HandshakeFirst
  BY DEF IInv, PostsFit, PostFits, SentWhereOpened, HandshakeFirst
<1>2. IInv => SessionsOK
  BY <1>1, AloneInv DEF IInv, SessionsOK
<1> QED
  BY <1>2, Invariance, PTL
=============================================================================
