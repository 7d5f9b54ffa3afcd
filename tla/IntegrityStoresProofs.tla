------------------------ MODULE IntegrityStoresProofs ------------------------
(***************************************************************************)
(* Theorems of IntegrityStores for any gateways and tools and any bounds   *)
(* on definitions, changes, rebuilds and failures.                         *)
(***************************************************************************)
EXTENDS IntegrityStores, TLAPS

Reviews == [pc : {"viewed", "remove"}, tool : Tools, rec : Records]

(* The inductive invariant, in parts.  q stands for a quarantine file, ap  *)
(* for the approved definitions and ov for the overruled tools.            *)

\* A definition of a tool that nobody has to be asked about: there is none, it was
\* approved, or the tool is blocked by a record of it.
Known(t, d, q, ap) == d \in {0} \cup ap[t] \/ (t \in Blocked(q) /\ d = q[t].def)

\* Both pin files hold known definitions, so a reader that falls back finds them too; a
\* file that was lost holds none; a record has a definition.
PinsKnown ==
    /\ pins.st # "ok" => pins.at = Empty
    /\ bak.st # "ok" => bak.at = Empty
    /\ \A t \in Tools \ overruled : /\ Known(t, pins.at[t], quar, approved)
                                    /\ Known(t, bak.at[t], quar, approved)
RecordsDefined == \A t \in Blocked(quar) : quar[t].def # 0

StoresFit ==
    /\ def \in Catalogs /\ pins \in Files /\ bak \in Files /\ quar \in [Tools -> Records]
    /\ changes \in 0..MaxChanges /\ rounds \in 0..MaxRounds /\ upsets \in 0..MaxUpsets
    /\ approved \in [Tools -> SUBSET Defs] /\ overruled \subseteq Tools
    /\ PinsKnown /\ RecordsDefined

\* The copy on the user's screen has a definition; while its release holds the lock, the
\* stored record is still that copy and its definition is approved.
DeskFits ==
    /\ desk \in {NoReview} \cup Reviews
    /\ qlock = Desktop <=> desk.pc = "remove"
    /\ desk # NoReview => desk.rec.def # 0
    /\ desk.pc = "remove" => quar[desk.tool] = desk.rec /\ desk.rec.def \in approved[desk.tool]

\* A router shows approved definitions only.
Trusted(r, ap, ov) == ~r.blind => \A t \in Shown(r) \ ov : r.cat[t] \in ap[t]

\* Behind the check of the gate, what a candidate shows is known or will be hidden; behind
\* the gate it is approved.
JobFits(job, q, ap, ov) ==
    /\ job.pc \in {"accept", "clear", "apply", "publish"} =>
         /\ job.pending \subseteq Shown(job.cand)
         /\ \A t \in (Shown(job.cand) \ job.pending) \ ov : Known(t, job.cand.cat[t], q, ap)
    /\ job.pc = "swap" => Trusted(job.cand, ap, ov)

\* A worker that holds the lock has read the records that are stored.
WorkFits ==
    /\ qlock \in Workers \cup {Nobody, Desktop} /\ work \in [Workers -> Jobs]
    /\ \A w \in Workers : /\ qlock = w <=> work[w].pc = "clear"
                          /\ work[w].pc = "clear" => work[w].held = quar
                          /\ JobFits(work[w], quar, approved, overruled)

LiveFits ==
    /\ live \in [Gateways -> Routers]
    /\ \A g \in Gateways : Trusted(live[g], approved, overruled)

IInv == StoresFit /\ DeskFits /\ WorkFits /\ LiveFits

-----------------------------------------------------------------------------
(* Records.                                                                *)

\* The holders of the lock are told apart.
LEMMA LockNames == Nobody \notin Workers /\ Desktop \notin Workers /\ Nobody # Desktop
<1>1. Nobody \notin Workers
  <2> SUFFICES ASSUME NEW w \in Workers, w = Nobody PROVE FALSE
    OBVIOUS
  <2>1. DOMAIN w = 1..2 /\ DOMAIN Nobody = 1..1
    BY DEF Workers, Nobody
  <2> QED
    BY <2>1
<1>2. Desktop \notin Workers
  <2> SUFFICES ASSUME NEW w \in Workers, w = Desktop PROVE FALSE
    OBVIOUS
  <2>1. DOMAIN w = 1..2 /\ DOMAIN Desktop = 1..1
    BY DEF Workers, Desktop
  <2> QED
    BY <2>1
<1>3. Nobody[1] # Desktop[1]
  BY DEF Nobody, Desktop
<1> QED
  BY <1>1, <1>2, <1>3

\* The initial values of the records are records.
LEMMA InitialRecords ==
  /\ Empty \in Catalogs /\ NoRecord \in Records /\ NoRecords \in [Tools -> Records]
  /\ Unbuilt \in Routers /\ Idle \in Jobs /\ Shown(Unbuilt) = {}
  /\ Idle.pc = "idle" /\ Idle.cand = Unbuilt /\ NoReview.pc = "idle"
  /\ \A q, ap, ov : JobFits(Idle, q, ap, ov)
<1>1. 0 \in Optional
  BY BoundAssumption DEF Optional
<1>2. Empty \in Catalogs /\ NoRecord \in Records
  BY <1>1 DEF Empty, Catalogs, NoRecord, Records
<1>3. NoRecords \in [Tools -> Records]
  BY <1>2 DEF NoRecords
<1>4. Unbuilt \in Routers /\ Shown(Unbuilt) = {}
  BY <1>2 DEF Unbuilt, Routers, Shown, Empty
<1>5. Idle \in Jobs /\ Idle.pc = "idle" /\ Idle.cand = Unbuilt
  BY <1>3, <1>4 DEF Idle, Jobs
<1> QED
  BY <1>2, <1>3, <1>4, <1>5 DEF JobFits, NoReview

\* What a reader finds is in one of the files, or nothing.
LEMMA LoadPinsFacts ==
  ASSUME StoresFit
  PROVE  /\ LoadPins \in Files /\ LoadPins.st \in {"bad", "ok"}
         /\ \A t \in Tools \ overruled : Known(t, LoadPins.at[t], quar, approved)
<1>1. Empty \in Catalogs /\ pins \in Files /\ bak \in Files
  BY InitialRecords DEF StoresFit
<1>2. LoadPins \in Files /\ LoadPins.st \in {"bad", "ok"} /\ LoadPins.at \in {pins.at, bak.at, Empty}
  BY <1>1 DEF LoadPins, File, Files
<1>3. \A t \in Tools \ overruled : Known(t, Empty[t], quar, approved)
  BY DEF Known, Empty
<1> QED
  BY <1>2, <1>3 DEF StoresFit, PinsKnown

-----------------------------------------------------------------------------
(* What is known stays known.                                              *)

Grows ==
    /\ overruled \subseteq overruled'
    /\ \A t \in Tools : approved[t] \subseteq approved'[t]
    /\ \A t \in Tools \ overruled' : \A d :
           Known(t, d, quar, approved) => Known(t, d, quar', approved')

\* A job and a router that fit go on to fit.
LEMMA GrowsFacts ==
  ASSUME Grows
  PROVE  /\ \A job \in Jobs : JobFits(job, quar, approved, overruled)
                                => JobFits(job, quar', approved', overruled')
         /\ \A r \in Routers : Trusted(r, approved, overruled) => Trusted(r, approved', overruled')
<1>1. \A r : Shown(r) \subseteq Tools
  BY DEF Shown
<1>2. ASSUME NEW r \in Routers, Trusted(r, approved, overruled)
      PROVE  Trusted(r, approved', overruled')
  BY <1>1, <1>2 DEF Grows, Trusted
<1>3. ASSUME NEW job \in Jobs, JobFits(job, quar, approved, overruled)
      PROVE  JobFits(job, quar', approved', overruled')
  <2>1. job.cand \in Routers
    BY DEF Jobs
  <2> QED
    BY <1>1, <1>2, <1>3, <2>1 DEF Grows, JobFits
<1> QED
  BY <1>2, <1>3

\* With the quarantine file as it is, approvals only add.
LEMMA ApprovalsGrow ==
  ASSUME UNCHANGED <<quar, overruled>>, \A t \in Tools : approved[t] \subseteq approved'[t]
  PROVE  Grows
BY DEF Grows, Known

-----------------------------------------------------------------------------
(* Steps of a worker.                                                      *)

\* How a job of a worker may deal with the quarantine lock and file.
Locks(w, job) ==
    \/ UNCHANGED <<qlock, quar>> /\ work[w].pc # "clear" /\ job.pc # "clear"
    \/ UNCHANGED qlock /\ qlock = Nobody /\ job.pc # "clear"
    \/ UNCHANGED quar /\ qlock = Nobody /\ qlock' = w /\ job.pc = "clear" /\ job.held = quar
    \/ work[w].pc = "clear" /\ qlock' = Nobody /\ job.pc # "clear"

\* The desktop's view does not suffer from a worker.
LEMMA DeskKept ==
  ASSUME IInv, NEW w \in Workers, NEW job, Locks(w, job), Grows, UNCHANGED desk
  PROVE  DeskFits'
<1>1. CASE UNCHANGED quar
  <2>1. qlock' = Desktop <=> qlock = Desktop
    BY LockNames DEF Locks, IInv, WorkFits
  <2>2. desk # NoReview => desk.tool \in Tools
    BY DEF IInv, DeskFits, Reviews
  <2>3. desk.pc = "remove" => desk # NoReview
    BY DEF NoReview
  <2> QED
    BY <1>1, <2>1, <2>2, <2>3 DEF IInv, DeskFits, Grows
<1>2. CASE ~UNCHANGED quar
  <2>1. qlock # Desktop /\ qlock' # Desktop
    BY <1>2, LockNames DEF Locks, IInv, WorkFits
  <2> QED
    BY <2>1 DEF IInv, DeskFits
<1> QED
  BY <1>1, <1>2

\* Every worker's job fits after one of them took a step.
LEMMA WorkKept ==
  ASSUME IInv, NEW w \in Workers, NEW job \in Jobs, Locks(w, job), Grows,
         work' = [work EXCEPT ![w] = job], JobFits(job, quar', approved', overruled')
  PROVE  WorkFits'
<1>1. work \in [Workers -> Jobs] /\ qlock \in Workers \cup {Nobody, Desktop}
  BY DEF IInv, WorkFits
<1>2. work' \in [Workers -> Jobs] /\ work'[w] = job /\ \A v \in Workers \ {w} : work'[v] = work[v]
  BY <1>1
<1>3. qlock' \in Workers \cup {Nobody, Desktop}
  BY <1>1 DEF Locks
<1>4. ASSUME NEW v \in Workers
      PROVE  /\ qlock' = v <=> work'[v].pc = "clear"
             /\ work'[v].pc = "clear" => work'[v].held = quar'
             /\ JobFits(work'[v], quar', approved', overruled')
  <2>1. CASE v = w
    BY <1>2, <2>1, LockNames DEF Locks, IInv, WorkFits
  <2>2. CASE v # w
    <3>1. JobFits(work'[v], quar', approved', overruled')
      BY <1>1, <1>2, <2>2, GrowsFacts DEF IInv, WorkFits
    <3>2. (qlock = v <=> work[v].pc = "clear") /\ (work[v].pc = "clear" => work[v].held = quar)
          /\ (qlock = w <=> work[w].pc = "clear")
      BY DEF IInv, WorkFits
    <3> QED
      BY <1>2, <2>2, <3>1, <3>2, LockNames DEF Locks
  <2> QED
    BY <2>1, <2>2
<1> QED
  BY <1>2, <1>3, <1>4 DEF WorkFits

\* The routers that are live stay trusted.
LEMMA LiveKept ==
  ASSUME IInv, Grows, UNCHANGED live
  PROVE  LiveFits'
BY GrowsFacts DEF IInv, LiveFits

\* A step of a worker that does not publish.
LEMMA WorkerInv ==
  ASSUME IInv, NEW w \in Workers, NEW job \in Jobs, Locks(w, job), Grows,
         work' = [work EXCEPT ![w] = job], JobFits(job, quar', approved', overruled'),
         UNCHANGED <<desk, live>>, StoresFit'
  PROVE  IInv'
BY DeskKept, WorkKept, LiveKept DEF IInv

\* Steps that leave the files alone.
LEMMA QuietStores ==
  ASSUME IInv, UNCHANGED <<pins, bak, quar, approved, overruled>>, def' \in Catalogs,
         changes' \in 0..MaxChanges, rounds' \in 0..MaxRounds, upsets' \in 0..MaxUpsets
  PROVE  StoresFit' /\ Grows
<1>1. Grows
  BY ApprovalsGrow
<1>2. PinsKnown' /\ RecordsDefined'
  BY DEF IInv, StoresFit, PinsKnown, RecordsDefined
<1> QED
  BY <1>1, <1>2 DEF IInv, StoresFit

\* The counters of failures and rounds keep their bounds.
LEMMA CountersFit ==
  ASSUME IInv
  PROVE  /\ def \in Catalogs /\ changes \in 0..MaxChanges /\ rounds \in 0..MaxRounds
         /\ Upset \/ NoUpset => upsets' \in 0..MaxUpsets
         /\ rounds < MaxRounds => rounds + 1 \in 0..MaxRounds
         /\ changes < MaxChanges => changes + 1 \in 0..MaxChanges
BY BoundAssumption DEF IInv, StoresFit, Upset, NoUpset

\* A publication that begins: a candidate that the gate has still to see.
LEMMA BeginInv ==
  ASSUME IInv, NEW w \in Workers, work[w].pc = "idle", NEW r \in Routers, Begin(w, r),
         upsets' \in 0..MaxUpsets,
         UNCHANGED <<def, stores, live, desk, changes, approved, overruled>>
  PROVE  IInv'
<1> DEFINE cand == [r EXCEPT !.built = TRUE, !.cat = def, !.blind = FALSE]
           job == [Idle EXCEPT !.pc = "check", !.op = "publish", !.cand = cand]
<1>1. cand \in Routers
  BY CountersFit DEF Routers
<1>2. work' = [work EXCEPT ![w] = job] /\ rounds' \in 0..MaxRounds
  BY CountersFit DEF Begin, Set
<1> HIDE DEF cand
<1>3. job \in Jobs /\ job.pc = "check"
  BY <1>1, InitialRecords DEF Jobs
<1> HIDE DEF job
<1>4. JobFits(job, quar', approved', overruled')
  BY <1>3 DEF JobFits
<1>5. StoresFit' /\ Grows
  BY <1>2, CountersFit, QuietStores DEF stores
<1>6. Locks(w, job)
  BY <1>3 DEF Locks, stores
<1> QED
  BY <1>2, <1>3, <1>4, <1>5, <1>6, WorkerInv

\* A rebuilt router begins with the stored set or with the live decision.
LEMMA RebuildInv ==
  ASSUME IInv, NEW w \in Workers, Rebuild(w)
  PROVE  IInv'
<1>1. PICK was \in Routers : was = live[Host(w)]
  BY DEF IInv, LiveFits, Workers, Host
<1>2. [was EXCEPT !.hidden = Blocked(quar), !.closed = FALSE] \in Routers
  BY DEF Routers, Blocked
<1>3. PICK b \in BOOLEAN : b = (was.closed \/ ~was.built)
  OBVIOUS
<1>4. [was EXCEPT !.closed = b] \in Routers
  BY DEF Routers
<1>5. \E r \in Routers : Begin(w, r) /\ (NoUpset \/ Upset)
  <2>1. CASE Begin(w, [was EXCEPT !.hidden = Blocked(quar), !.closed = FALSE]) /\ NoUpset
    BY <1>2, <2>1
  <2>2. CASE Begin(w, [was EXCEPT !.closed = was.closed \/ ~was.built]) /\ Upset
    <3>1. [was EXCEPT !.closed = was.closed \/ ~was.built] = [was EXCEPT !.closed = b]
      BY <1>3, Zenon
    <3> QED
      BY <1>4, <2>2, <3>1
  <2> QED
    BY <1>1, <2>1, <2>2 DEF Rebuild
<1> QED
  BY <1>5, CountersFit, BeginInv DEF Rebuild

\* A copy of the live router lists its tools anew.
LEMMA RelistInv ==
  ASSUME IInv, NEW w \in Workers, Relist(w)
  PROVE  IInv'
<1>1. live[Host(w)] \in Routers
  BY DEF IInv, LiveFits, Workers, Host
<1>2. upsets' \in 0..MaxUpsets
  BY DEF Relist, IInv, StoresFit
<1> QED
  BY <1>1, <1>2, BeginInv DEF Relist

\* A reconciliation that skips the gate shows no more than the live router.
LEMMA CandidateFacts ==
  ASSUME IInv, NEW w \in Workers, NEW want \in SUBSET Tools
  PROVE  /\ Candidate(w, want) \in Jobs /\ Candidate(w, want).pc \in {"check", "swap"}
         /\ JobFits(Candidate(w, want), quar, approved, overruled)
<1>1. PICK now \in Routers : now = live[Host(w)] /\ Trusted(now, approved, overruled)
  BY DEF IInv, LiveFits, Workers, Host
<1> DEFINE cand == [now EXCEPT !.hidden = want, !.closed = FALSE]
           pc == IF now.closed \/ ~(now.hidden \subseteq want) THEN "check" ELSE "swap"
           job == [Idle EXCEPT !.op = "reconcile", !.want = want, !.cand = cand, !.pc = pc]
<1>2. Candidate(w, want) = job
  BY <1>1 DEF Candidate
<1>3. /\ cand \in Routers /\ cand.hidden = want /\ ~cand.closed /\ cand.cat = now.cat
      /\ cand.blind <=> now.blind
  BY DEF Routers
<1>4. pc \in {"check", "swap"}
  OBVIOUS
<1>5. pc = "swap" => ~now.closed /\ now.hidden \subseteq want
  OBVIOUS
<1> HIDE DEF cand, pc
<1>6. job \in Jobs /\ job.pc = pc /\ job.cand = cand
  BY <1>3, <1>4, InitialRecords DEF Jobs
<1> HIDE DEF job
<1>7. pc = "swap" => Trusted(cand, approved, overruled)
  BY <1>1, <1>3, <1>5 DEF Trusted, Shown
<1> QED
  BY <1>2, <1>4, <1>6, <1>7 DEF JobFits

\* A tick begins to reconcile the live router with the stored set.
LEMMA ReconcileInv ==
  ASSUME IInv, NEW w \in Workers, Reconcile(w)
  PROVE  IInv'
<1>1. PICK job \in Jobs : /\ job = Candidate(w, Blocked(quar)) /\ job.pc \in {"check", "swap"}
                          /\ JobFits(job, quar, approved, overruled)
  BY CandidateFacts DEF Blocked
<1>2. work' = [work EXCEPT ![w] = job] /\ work[w].pc = "idle" /\ upsets' \in 0..MaxUpsets
      /\ UNCHANGED <<def, stores, live, desk, bounds, approved, overruled>>
  BY <1>1 DEF Reconcile, Set, IInv, StoresFit, bounds
<1>3. StoresFit' /\ Grows
  BY <1>2, CountersFit, QuietStores DEF stores, bounds
<1>4. Locks(w, job) /\ JobFits(job, quar', approved', overruled')
  BY <1>1, <1>2 DEF Locks, stores
<1> QED
  BY <1>2, <1>3, <1>4, WorkerInv

-----------------------------------------------------------------------------
(* Steps of the gate.                                                      *)

\* Known definitions are saved, and the outgoing file keeps what was known.
LEMMA SavePinsFacts ==
  ASSUME IInv, Grows, NEW new \in Catalogs, SavePins(new),
         \A t \in Tools \ overruled' : Known(t, new[t], quar', approved')
  PROVE  pins' \in Files /\ bak' \in Files /\ PinsKnown'
<1>1. /\ pins \in Files /\ bak \in Files /\ PinsKnown
      /\ overruled \subseteq overruled'
      /\ \A t \in Tools \ overruled' : \A d : Known(t, d, quar, approved) => Known(t, d, quar', approved')
  BY DEF IInv, StoresFit, Grows
<1>2. \A t \in Tools \ overruled' : /\ Known(t, pins.at[t], quar', approved')
                                    /\ Known(t, bak.at[t], quar', approved')
  BY <1>1 DEF PinsKnown
<1>3. CASE UNCHANGED <<pins, bak>>
  BY <1>1, <1>2, <1>3 DEF PinsKnown
<1>4. CASE pins' = File(new) /\ bak' = IF pins.st = "ok" THEN pins ELSE bak
  <2>1. pins' \in Files /\ pins'.st = "ok" /\ pins'.at = new
    BY <1>4 DEF File, Files
  <2>2. bak' \in {pins, bak} /\ (bak'.st # "ok" => bak'.at = Empty)
    BY <1>1, <1>4 DEF PinsKnown
  <2> QED
    BY <1>1, <1>2, <2>1, <2>2 DEF PinsKnown
<1> QED
  BY <1>3, <1>4 DEF SavePins

\* A gate that gives up hides what it had found, or all.
LEMMA GiveUpFacts ==
  ASSUME IInv, NEW w \in Workers, NEW names, GiveUp(w, names),
         \/ names = Shown(work[w].cand)
         \/ names = work[w].pending /\ work[w].pc \in {"accept", "clear", "apply", "publish"}
  PROVE  \E job \in Jobs : /\ work' = [work EXCEPT ![w] = job] /\ job.pc = "publish"
                           /\ JobFits(job, quar, approved, overruled)
<1>1. PICK old \in Jobs : old = work[w] /\ JobFits(old, quar, approved, overruled)
  BY DEF IInv, WorkFits
<1> DEFINE job == [old EXCEPT !.pc = "publish", !.err = TRUE, !.pending = names,
                              !.held = NoRecords, !.staged = FALSE]
<1>2. names \in SUBSET Tools
  BY <1>1 DEF Shown, Jobs
<1>3. job \in Jobs /\ job.pc = "publish" /\ job.cand = old.cand /\ job.pending = names
  BY <1>2, InitialRecords DEF Jobs
<1>4. work' = [work EXCEPT ![w] = job]
  BY <1>1 DEF GiveUp, Set
<1> HIDE DEF job
<1>5. JobFits(job, quar, approved, overruled)
  BY <1>1, <1>3 DEF JobFits
<1> QED
  BY <1>3, <1>4, <1>5

\* A gate that gives up leaves the files to the others.
LEMMA GiveUpInv ==
  ASSUME IInv, NEW w \in Workers, NEW names, GiveUp(w, names),
         \/ names = Shown(work[w].cand) /\ work[w].pc = "check"
         \/ names = work[w].pending /\ work[w].pc \in {"accept", "clear", "apply", "publish"},
         IF work[w].pc = "clear" THEN qlock' = Nobody ELSE UNCHANGED qlock,
         NoUpset \/ Upset,
         UNCHANGED <<def, pins, bak, quar, live, desk, changes, rounds, approved, overruled>>
  PROVE  IInv'
<1>1. PICK job \in Jobs : /\ work' = [work EXCEPT ![w] = job] /\ job.pc = "publish"
                          /\ JobFits(job, quar, approved, overruled)
  BY GiveUpFacts
<1>2. StoresFit' /\ Grows
  BY CountersFit, QuietStores
<1>3. Locks(w, job) /\ JobFits(job, quar', approved', overruled')
  BY <1>1 DEF Locks
<1> QED
  BY <1>1, <1>2, <1>3, WorkerInv

\* The check pins first sights and finds drift: the rest of what is shown has a known pin.
LEMMA CheckInv ==
  ASSUME IInv, NEW w \in Workers, Check(w)
  PROVE  IInv'
<1>1. PICK old \in Jobs : old = work[w] /\ JobFits(old, quar, approved, overruled)
  BY DEF IInv, WorkFits
<1>2. PICK cand \in Routers : cand = old.cand
  BY DEF Jobs
<1>3. PICK base \in Files : /\ base = LoadPins
                            /\ \A t \in Tools \ overruled : Known(t, base.at[t], quar, approved)
  BY LoadPinsFacts DEF IInv
<1>4. /\ old.pc = "check" /\ Shown(cand) \subseteq Tools
      /\ UNCHANGED <<def, quar, qlock, live, desk, changes, rounds, overruled>>
  BY <1>1 DEF Check, Shown
<1>5. CASE /\ Set(w, [old EXCEPT !.pc = "apply", !.tamper = TRUE, !.pending = Shown(cand)])
           /\ UNCHANGED <<pins, bak, approved>> /\ NoUpset
  <2> DEFINE job == [old EXCEPT !.pc = "apply", !.tamper = TRUE, !.pending = Shown(cand)]
  <2>1. job \in Jobs /\ job.pc = "apply" /\ job.cand = cand /\ job.pending = Shown(cand)
    BY <1>2, <1>4 DEF Jobs
  <2>2. work' = [work EXCEPT ![w] = job]
    BY <1>5 DEF Set
  <2> HIDE DEF job
  <2>3. StoresFit' /\ Grows
    BY <1>4, <1>5, CountersFit, QuietStores
  <2>4. Locks(w, job) /\ JobFits(job, quar', approved', overruled')
    BY <1>1, <1>4, <2>1 DEF Locks, JobFits
  <2> QED
    BY <1>4, <2>1, <2>2, <2>3, <2>4, WorkerInv
<1>6. CASE GiveUp(w, Shown(cand)) /\ UNCHANGED <<pins, bak, approved>> /\ Upset
  BY <1>1, <1>2, <1>4, <1>6, GiveUpInv
<1>7. ASSUME NoUpset,
             SavePins([t \in Tools |-> IF t \in FirstSights(cand, base.at)
                                       THEN cand.cat[t] ELSE base.at[t]]),
             approved' = [t \in Tools |-> approved[t] \cup
                                          IF t \in FirstSights(cand, base.at)
                                          THEN {cand.cat[t]} ELSE {}],
             Set(w, [old EXCEPT !.pc = "accept", !.pending = Drift(cand, base.at)])
      PROVE  IInv'
  <2> DEFINE firsts == FirstSights(cand, base.at)
             new == [t \in Tools |-> IF t \in firsts THEN cand.cat[t] ELSE base.at[t]]
             job == [old EXCEPT !.pc = "accept", !.pending = Drift(cand, base.at)]
  <2>1. /\ cand.cat \in [Tools -> Optional] /\ base.at \in [Tools -> Optional]
        /\ new \in Catalogs
    BY DEF Routers, Files, Catalogs
  <2>2. \A t \in Shown(cand) : cand.cat[t] \in Defs
    BY <1>4, <2>1 DEF Shown, Optional, Defs
  <2>3. firsts \subseteq Shown(cand) /\ Drift(cand, base.at) \subseteq Shown(cand)
    BY DEF FirstSights, Drift
  <2>4. approved \in [Tools -> SUBSET Defs]
    BY DEF IInv, StoresFit
  <2>5. /\ approved' \in [Tools -> SUBSET Defs] /\ \A t \in Tools : approved[t] \subseteq approved'[t]
        /\ \A t \in firsts : cand.cat[t] \in approved'[t]
    BY <1>4, <1>7, <2>2, <2>3, <2>4
  <2>6. Grows
    BY <1>4, <2>5, ApprovalsGrow
  <2>7. \A t \in Tools \ overruled' : Known(t, base.at[t], quar', approved')
    BY <1>3, <1>4, <2>6 DEF Grows
  <2>8. \A t \in Tools \ overruled' : Known(t, new[t], quar', approved')
    BY <2>5, <2>7 DEF Known
  <2>9. SavePins(new)
    BY <1>7
  <2>10. job \in Jobs /\ job.pc = "accept" /\ job.cand = cand /\ job.pending = Drift(cand, base.at)
    BY <1>2, <1>4, <2>3 DEF Jobs
  <2>11. work' = [work EXCEPT ![w] = job]
    BY <1>7 DEF Set
  <2>12. \A t \in Shown(cand) \ Drift(cand, base.at) : t \in firsts \/ base.at[t] = cand.cat[t]
    BY DEF Drift, FirstSights
  <2>13. \A t \in (Shown(cand) \ Drift(cand, base.at)) \ overruled' :
            Known(t, cand.cat[t], quar', approved')
    BY <1>4, <2>5, <2>7, <2>12 DEF Known
  <2> HIDE DEF firsts, new, job
  <2>14. pins' \in Files /\ bak' \in Files /\ PinsKnown'
    BY <2>1, <2>6, <2>8, <2>9, SavePinsFacts
  <2>15. StoresFit'
    BY <1>4, <1>7, <2>5, <2>14, CountersFit DEF IInv, StoresFit, RecordsDefined
  <2>16. JobFits(job, quar', approved', overruled')
    BY <2>3, <2>10, <2>13 DEF JobFits
  <2>17. Locks(w, job)
    BY <1>1, <1>4, <2>10 DEF Locks
  <2> QED
    BY <1>4, <2>6, <2>10, <2>11, <2>15, <2>16, <2>17, WorkerInv
<1> QED
  BY <1>1, <1>2, <1>3, <1>5, <1>6, <1>7 DEF Check

\* A job behind the accepted pins, or on its way to them.
Moved(w, pc, held, staged) == [work[w] EXCEPT !.pc = pc, !.held = held, !.staged = staged]

\* Such a job fits as before.
LEMMA MovedJob ==
  ASSUME IInv, NEW w \in Workers, work[w].pc \in {"accept", "clear", "apply"},
         NEW pc \in {"accept", "clear", "apply", "publish"},
         NEW held \in [Tools -> Records], NEW staged \in BOOLEAN
  PROVE  /\ Moved(w, pc, held, staged) \in Jobs
         /\ Moved(w, pc, held, staged).pc = pc /\ Moved(w, pc, held, staged).held = held
         /\ JobFits(Moved(w, pc, held, staged), quar, approved, overruled)
<1>1. PICK old \in Jobs : old = work[w] /\ JobFits(old, quar, approved, overruled)
  BY DEF IInv, WorkFits
<1> DEFINE job == [old EXCEPT !.pc = pc, !.held = held, !.staged = staged]
<1>2. job \in Jobs /\ job.pc = pc /\ job.held = held /\ job.cand = old.cand
      /\ job.pending = old.pending
  BY DEF Jobs
<1>3. Moved(w, pc, held, staged) = job
  BY <1>1 DEF Moved
<1> HIDE DEF job
<1>4. JobFits(job, quar, approved, overruled)
  BY <1>1, <1>2 DEF JobFits
<1> QED
  BY <1>2, <1>3, <1>4

\* The job after its pins were accepted.
LEMMA AcceptedFacts ==
  ASSUME IInv, NEW w \in Workers, work[w].pc \in {"accept", "clear"}
  PROVE  /\ Accepted(w) \in Jobs /\ Accepted(w).pc \in {"publish", "apply"}
         /\ JobFits(Accepted(w), quar, approved, overruled)
<1>1. PICK pc \in {"publish", "apply"} :
        pc = IF work[w].staged \/ work[w].pending = {} THEN "publish" ELSE "apply"
  OBVIOUS
<1>4. PICK no \in BOOLEAN : no = FALSE
  OBVIOUS
<1>2. Accepted(w) = Moved(w, pc, NoRecords, no)
  BY <1>1, <1>4, Zenon DEF Accepted, Moved
<1>3. /\ Moved(w, pc, NoRecords, no) \in Jobs /\ Moved(w, pc, NoRecords, no).pc = pc
      /\ JobFits(Moved(w, pc, NoRecords, no), quar, approved, overruled)
  <2>1. /\ work[w].pc \in {"accept", "clear", "apply"}
        /\ pc \in {"accept", "clear", "apply", "publish"} /\ NoRecords \in [Tools -> Records]
    BY InitialRecords
  <2> QED
    BY <2>1, MovedJob
<1> QED
  BY <1>2, <1>3

\* The pins of stored records are saved under the lock; the records stay.
LEMMA AcceptInv ==
  ASSUME IInv, NEW w \in Workers, Accept(w)
  PROVE  IInv'
<1>1. /\ work[w].pc = "accept" /\ qlock = Nobody
      /\ UNCHANGED <<def, quar, live, desk, changes, rounds, approved, overruled>>
  BY DEF Accept
<1>2. CASE Set(w, Accepted(w)) /\ UNCHANGED <<pins, bak, qlock>> /\ NoUpset
  <2>1. PICK job \in Jobs : /\ job = Accepted(w) /\ job.pc \in {"publish", "apply"}
                            /\ JobFits(job, quar, approved, overruled)
    BY <1>1, AcceptedFacts
  <2>2. StoresFit' /\ Grows
    BY <1>1, <1>2, CountersFit, QuietStores
  <2>3. Locks(w, job) /\ JobFits(job, quar', approved', overruled')
    BY <1>1, <1>2, <2>1 DEF Locks
  <2> QED
    BY <1>1, <1>2, <2>1, <2>2, <2>3, WorkerInv DEF Set
<1>3. CASE GiveUp(w, work[w].pending) /\ UNCHANGED <<pins, bak, qlock>> /\ (NoUpset \/ Upset)
  BY <1>1, <1>3, GiveUpInv
<1>4. ASSUME NoUpset, SavePins(Captured(quar, LoadPins.at)), qlock' = w,
             Set(w, [work[w] EXCEPT !.pc = "clear", !.held = quar])
      PROVE  IInv'
  <2>1. PICK base \in Files : /\ base = LoadPins
                              /\ \A t \in Tools \ overruled : Known(t, base.at[t], quar, approved)
    BY LoadPinsFacts DEF IInv
  <2>2. quar \in [Tools -> Records] /\ base.at \in [Tools -> Optional]
    BY DEF IInv, StoresFit, Files, Catalogs
  <2>3. PICK new \in Catalogs : new = Captured(quar, base.at)
    BY <2>2 DEF Captured, Catalogs, Records
  <2>4. \A t \in Tools \ overruled : Known(t, new[t], quar, approved)
    BY <2>1, <2>3 DEF Captured, Staged, Blocked, Known
  <2>5. Grows
    BY <1>1, ApprovalsGrow
  <2>6. pins' \in Files /\ bak' \in Files /\ PinsKnown'
    BY <1>1, <1>4, <2>1, <2>3, <2>4, <2>5, SavePinsFacts
  <2>7. StoresFit'
    BY <1>1, <1>4, <2>6, CountersFit DEF IInv, StoresFit, RecordsDefined
  <2>8. work[w] \in Jobs
    BY DEF IInv, WorkFits
  <2>9. [work[w] EXCEPT !.pc = "clear", !.held = quar]
          = Moved(w, "clear", quar, work[w].staged)
    BY <2>8 DEF Jobs, Moved
  <2>10. PICK job \in Jobs : /\ job = [work[w] EXCEPT !.pc = "clear", !.held = quar]
                             /\ job.pc = "clear" /\ job.held = quar
                             /\ JobFits(job, quar, approved, overruled)
    <3>1. work[w].staged \in BOOLEAN
      BY <2>8 DEF Jobs
    <3> QED
      BY <1>1, <2>2, <2>9, <3>1, MovedJob
  <2>11. Locks(w, job) /\ JobFits(job, quar', approved', overruled')
    BY <1>1, <1>4, <2>10 DEF Locks
  <2> QED
    BY <1>1, <1>4, <2>5, <2>7, <2>10, <2>11, WorkerInv DEF Set
<1> QED
  BY <1>2, <1>3, <1>4 DEF Accept

\* Clearing the markers of the records changes neither what is blocked nor by what.
LEMMA ClearedFacts ==
  ASSUME NEW q \in [Tools -> Records]
  PROVE  /\ Cleared(q) \in [Tools -> Records]
         /\ \A t \in Tools : Cleared(q)[t].def = q[t].def /\ Cleared(q)[t].change = q[t].change
<1>1. ASSUME NEW t \in Tools
      PROVE  /\ Cleared(q)[t] \in Records
             /\ Cleared(q)[t].def = q[t].def /\ Cleared(q)[t].change = q[t].change
  <2>1. /\ [q[t] EXCEPT !.pending = FALSE] \in Records
        /\ [q[t] EXCEPT !.pending = FALSE].def = q[t].def
        /\ [q[t] EXCEPT !.pending = FALSE].change = q[t].change
    BY DEF Records
  <2>2. Cleared(q)[t] \in {[q[t] EXCEPT !.pending = FALSE], q[t]}
    BY DEF Cleared
  <2> QED
    BY <2>1, <2>2
<1> QED
  BY <1>1 DEF Cleared

\* The markers go after the pins are saved, under the same lock.
LEMMA ClearInv ==
  ASSUME IInv, NEW w \in Workers, Clear(w)
  PROVE  IInv'
<1>1. /\ work[w].pc = "clear" /\ qlock' = Nobody /\ work[w].held = quar
      /\ quar \in [Tools -> Records]
      /\ UNCHANGED <<def, pins, bak, live, desk, changes, rounds, approved, overruled>>
  BY DEF Clear, IInv, WorkFits, StoresFit
<1>2. CASE GiveUp(w, work[w].pending) /\ Upset /\ UNCHANGED quar
  BY <1>1, <1>2, GiveUpInv
<1>3. CASE quar' = Cleared(quar) /\ Set(w, Accepted(w)) /\ NoUpset
  <2>1. PICK job \in Jobs : /\ job = Accepted(w) /\ job.pc \in {"publish", "apply"}
                            /\ JobFits(job, quar, approved, overruled)
    BY <1>1, AcceptedFacts
  <2>2. /\ quar' \in [Tools -> Records] /\ Blocked(quar') = Blocked(quar)
        /\ \A t \in Tools : quar'[t].def = quar[t].def
    BY <1>1, <1>3, ClearedFacts DEF Blocked
  <2>3. Blocked(quar) \subseteq Tools
    BY DEF Blocked
  <2>4. Grows
    BY <1>1, <2>2 DEF Grows, Known
  <2>5. PinsKnown' /\ RecordsDefined'
    BY <1>1, <2>2, <2>3, <2>4 DEF IInv, StoresFit, PinsKnown, RecordsDefined, Grows
  <2>6. StoresFit'
    BY <1>1, <1>3, <2>2, <2>5, CountersFit DEF IInv, StoresFit
  <2>7. Locks(w, job) /\ JobFits(job, quar', approved', overruled')
    BY <1>1, <2>1, <2>4, GrowsFacts DEF Locks
  <2> QED
    BY <1>1, <1>3, <2>1, <2>4, <2>6, <2>7, WorkerInv DEF Set
<1> QED
  BY <1>1, <1>2, <1>3 DEF Clear

\* What a gate records: every block stays, a new record has the definition shown.
LEMMA QuarantinedFacts ==
  ASSUME NEW q \in [Tools -> Records], NEW job \in Jobs, job.pending \subseteq Shown(job.cand),
         \A t \in Blocked(q) : q[t].def # 0
  PROVE  /\ Quarantined(q, job) \in [Tools -> Records]
         /\ Blocked(q) \subseteq Blocked(Quarantined(q, job))
         /\ \A t \in Blocked(Quarantined(q, job)) : Quarantined(q, job)[t].def # 0
<1> DEFINE new == Quarantined(q, job)
<1>1. job.cand.cat \in [Tools -> Optional]
  BY DEF Jobs, Routers, Catalogs
<1>2. ASSUME NEW t \in Tools
      PROVE  /\ new[t] \in Records /\ (q[t].change # "none" => new[t].change # "none")
             /\ new[t].change # "none" => new[t].def # 0
  <2> DEFINE rec == [change |-> IF job.tamper THEN "tamper" ELSE "changed",
                     def |-> job.cand.cat[t], pending |-> TRUE]
             claimed == [q[t] EXCEPT !.change = "tamper"]
  <2>1. rec \in Records /\ rec.change # "none" /\ rec.def = job.cand.cat[t]
    BY <1>1 DEF Records
  <2>2. claimed \in Records /\ claimed.change # "none" /\ claimed.def = q[t].def
    BY DEF Records
  <2>3. new[t] = IF t \in job.pending /\ (job.tamper \/ t \notin Blocked(q)) THEN rec
                 ELSE IF job.tamper /\ t \in Blocked(q) THEN claimed ELSE q[t]
    BY DEF Quarantined
  <2>4. t \in job.pending => job.cand.cat[t] # 0
    BY DEF Shown
  <2>5. q[t].change # "none" <=> t \in Blocked(q)
    BY DEF Blocked
  <2> HIDE DEF rec, claimed, new
  <2> QED
    BY <2>1, <2>2, <2>3, <2>4, <2>5
<1>3. new \in [Tools -> Records]
  BY <1>2 DEF Quarantined
<1> HIDE DEF new
<1>4. Blocked(q) \subseteq Blocked(new) /\ \A t \in Blocked(new) : new[t].def # 0
  BY <1>2 DEF Blocked
<1> QED
  BY <1>3, <1>4 DEF new

\* Records are added or claimed; one that gets another definition is overruled.
LEMMA ApplyInv ==
  ASSUME IInv, NEW w \in Workers, Apply(w)
  PROVE  IInv'
<1>1. /\ work[w].pc = "apply" /\ qlock = Nobody
      /\ UNCHANGED <<def, pins, bak, qlock, live, desk, changes, rounds, approved>>
  BY DEF Apply
<1>2. CASE GiveUp(w, work[w].pending) /\ Upset /\ UNCHANGED <<quar, overruled>>
  BY <1>1, <1>2, GiveUpInv
<1>3. ASSUME quar' = Quarantined(quar, work[w]), NoUpset,
             overruled' = overruled \cup
                 {t \in Blocked(quar) : Quarantined(quar, work[w])[t].def # quar[t].def},
             Set(w, [work[w] EXCEPT !.pc = "accept", !.staged = TRUE])
      PROVE  IInv'
  <2>1. /\ quar \in [Tools -> Records] /\ work[w] \in Jobs
        /\ work[w].pending \subseteq Shown(work[w].cand)
        /\ \A t \in Blocked(quar) : quar[t].def # 0
    BY <1>1 DEF IInv, StoresFit, RecordsDefined, WorkFits, JobFits
  <2>2. /\ quar' \in [Tools -> Records] /\ Blocked(quar) \subseteq Blocked(quar')
        /\ \A t \in Blocked(quar') : quar'[t].def # 0
    BY <1>3, <2>1, QuarantinedFacts
  <2>3. \A t \in Blocked(quar) \ overruled' : quar'[t].def = quar[t].def
    BY <1>3
  <2>4. Grows
    BY <1>1, <1>3, <2>2, <2>3 DEF Grows, Known
  <2>5. PinsKnown' /\ RecordsDefined' /\ overruled' \subseteq Tools
    BY <1>1, <1>3, <2>2, <2>4 DEF IInv, StoresFit, PinsKnown, RecordsDefined, Grows, Blocked
  <2>6. StoresFit'
    BY <1>1, <1>3, <2>2, <2>5, CountersFit DEF IInv, StoresFit
  <2>10. PICK yes \in BOOLEAN : yes = TRUE
    OBVIOUS
  <2>7. [work[w] EXCEPT !.pc = "accept", !.staged = TRUE] = Moved(w, "accept", work[w].held, yes)
    <3>1. [work[w] EXCEPT !.pc = "accept", !.staged = TRUE]
            = [work[w] EXCEPT !.pc = "accept", !.staged = yes]
      BY <2>10, Zenon
    <3> QED
      BY <2>1, <3>1 DEF Jobs, Moved
  <2>8. PICK job \in Jobs : /\ job = [work[w] EXCEPT !.pc = "accept", !.staged = TRUE]
                            /\ job.pc = "accept" /\ JobFits(job, quar, approved, overruled)
    <3>1. work[w].held \in [Tools -> Records]
      BY <2>1 DEF Jobs
    <3> QED
      BY <1>1, <2>7, <3>1, MovedJob
  <2>9. Locks(w, job) /\ JobFits(job, quar', approved', overruled')
    BY <1>1, <2>4, <2>8, GrowsFacts DEF Locks
  <2> QED
    BY <1>1, <1>3, <2>4, <2>6, <2>8, <2>9, WorkerInv DEF Set
<1> QED
  BY <1>2, <1>3 DEF Apply

\* What leaves the gate is trusted, or says that its gate was blind.
LEMMA GatedFacts ==
  ASSUME NEW job \in Jobs, job.pc = "publish", JobFits(job, quar, approved, overruled)
  PROVE  /\ Gated(job, Blocked(quar)) \in Routers
         /\ Trusted(Gated(job, Blocked(quar)), approved, overruled)
<1>1. PICK cand \in Routers : cand = job.cand
  BY DEF Jobs
<1>2. /\ job.pending \subseteq Shown(cand)
      /\ \A t \in (Shown(cand) \ job.pending) \ overruled : Known(t, cand.cat[t], quar, approved)
  BY <1>1 DEF JobFits
<1>3. PICK b \in BOOLEAN : b = (cand.closed /\ (job.err \/ job.pending = {}))
  OBVIOUS
<1>4. PICK h \in SUBSET Tools : h = cand.hidden \cup job.pending \cup Blocked(quar)
  BY DEF Routers, Jobs, Blocked
<1> DEFINE r == [cand EXCEPT !.hidden = h, !.closed = b, !.blind = FALSE]
<1>5. Gated(job, Blocked(quar)) = r
  BY <1>1, <1>3, <1>4, Zenon DEF Gated
<1>6. r \in Routers /\ r.hidden = h /\ (r.closed <=> b) /\ r.cat = cand.cat
  BY DEF Routers
<1> HIDE DEF r
<1>7. cand.closed => b
  BY <1>2, <1>3 DEF Shown
<1>8. Shown(r) \subseteq (Shown(cand) \ job.pending) \ Blocked(quar)
  BY <1>4, <1>6, <1>7 DEF Shown
<1>9. \A t \in Shown(r) : r.cat[t] = cand.cat[t] /\ r.cat[t] # 0
  BY <1>6 DEF Shown
<1>10. Trusted(r, approved, overruled)
  BY <1>2, <1>8, <1>9 DEF Trusted, Known
<1> QED
  BY <1>5, <1>6, <1>10

\* The same when the quarantine file cannot be read.
LEMMA GatedBlindFacts ==
  ASSUME NEW job \in Jobs
  PROVE  GatedBlind(job) \in Routers /\ Trusted(GatedBlind(job), approved, overruled)
<1>1. PICK cand \in Routers : cand = job.cand
  BY DEF Jobs
<1>2. PICK b \in BOOLEAN : b = (cand.closed \/ job.err \/ job.pending = {})
  OBVIOUS
<1>3. PICK blind \in BOOLEAN : blind = (~job.err /\ job.pending # {})
  OBVIOUS
<1>4. PICK h \in SUBSET Tools : h = cand.hidden \cup job.pending
  BY DEF Routers, Jobs
<1> DEFINE r == [cand EXCEPT !.hidden = h, !.closed = b, !.blind = blind]
<1>5. GatedBlind(job) = r
  BY <1>1, <1>2, <1>3, <1>4, Zenon DEF GatedBlind
<1>6. r \in Routers /\ (r.closed <=> b) /\ (r.blind <=> blind)
  BY DEF Routers
<1> HIDE DEF r
<1>7. Trusted(r, approved, overruled)
  BY <1>2, <1>3, <1>6 DEF Trusted, Shown
<1> QED
  BY <1>5, <1>6, <1>7

\* A candidate leaves the gate.
LEMMA PublishInv ==
  ASSUME IInv, NEW w \in Workers, Publish(w)
  PROVE  IInv'
<1>1. PICK old \in Jobs : old = work[w] /\ JobFits(old, quar, approved, overruled)
  BY DEF IInv, WorkFits
<1>2. /\ old.pc = "publish" /\ (Upset \/ NoUpset)
      /\ UNCHANGED <<def, stores, live, desk, changes, rounds, approved, overruled>>
  BY <1>1 DEF Publish
<1>3. PICK r \in Routers :
        /\ Trusted(r, approved, overruled)
        /\ Set(w, [Idle EXCEPT !.pc = "swap", !.op = old.op, !.cand = r, !.want = old.want,
                               !.lost = old.lost])
  BY <1>1, <1>2, GatedFacts, GatedBlindFacts DEF Publish
<1> DEFINE job == [Idle EXCEPT !.pc = "swap", !.op = old.op, !.cand = r, !.want = old.want,
                               !.lost = old.lost]
<1>4. job \in Jobs /\ job.pc = "swap" /\ job.cand = r
  BY InitialRecords DEF Jobs
<1>5. work' = [work EXCEPT ![w] = job]
  BY <1>3 DEF Set
<1> HIDE DEF job
<1>6. StoresFit' /\ Grows
  BY <1>2, CountersFit, QuietStores DEF stores
<1>7. Locks(w, job) /\ JobFits(job, quar', approved', overruled')
  BY <1>1, <1>2, <1>3, <1>4 DEF Locks, stores, JobFits
<1> QED
  BY <1>2, <1>4, <1>5, <1>6, <1>7, WorkerInv

\* The candidate becomes live, or a reconciliation that lost begins again.
LEMMA SwapInv ==
  ASSUME IInv, NEW w \in Workers, Swap(w)
  PROVE  IInv'
<1>1. PICK old \in Jobs : old = work[w] /\ JobFits(old, quar, approved, overruled)
  BY DEF IInv, WorkFits
<1>2. /\ old.pc = "swap" /\ old.cand \in Routers /\ old.want \in SUBSET Tools
      /\ UNCHANGED <<def, stores, desk, bounds, approved, overruled>>
  BY <1>1 DEF Swap, Jobs
<1>3. StoresFit' /\ Grows
  BY <1>2, CountersFit, QuietStores DEF stores, bounds, IInv, StoresFit
<1>4. ASSUME NEW job \in Jobs, job.pc \in {"idle", "check", "swap"},
             JobFits(job, quar, approved, overruled), Set(w, job), UNCHANGED live
      PROVE  IInv'
  <2>1. Locks(w, job) /\ JobFits(job, quar', approved', overruled')
    BY <1>1, <1>2, <1>4 DEF Locks, stores
  <2> QED
    BY <1>2, <1>3, <1>4, <2>1, WorkerInv DEF Set
<1>5. CASE Set(w, Idle) /\ UNCHANGED live
  BY <1>4, <1>5, InitialRecords
<1>6. CASE Set(w, Candidate(w, old.want)) /\ UNCHANGED live
  BY <1>2, <1>4, <1>6, CandidateFacts
<1>7. ASSUME live' = [live EXCEPT ![Host(w)] = old.cand],
             \A v \in Workers : \/ v = w /\ work'[v] = Idle
                                \/ v # w /\ work'[v] = work[v]
                                \/ v # w /\ work'[v] = [work[v] EXCEPT !.lost = TRUE],
             work' \in [Workers -> Jobs]
      PROVE  IInv'
  <2>1. LiveFits'
    <3>1. Trusted(old.cand, approved, overruled) /\ live \in [Gateways -> Routers]
          /\ \A g \in Gateways : Trusted(live[g], approved, overruled)
      BY <1>1, <1>2 DEF JobFits, IInv, LiveFits
    <3> QED
      BY <1>2, <1>7, <3>1 DEF LiveFits
  <2>2. ASSUME NEW v \in Workers
        PROVE  /\ qlock' = v <=> work'[v].pc = "clear"
               /\ work'[v].pc = "clear" => work'[v].held = quar'
               /\ JobFits(work'[v], quar', approved', overruled')
    <3>1. PICK was \in Jobs : was = work[v] /\ JobFits(was, quar, approved, overruled)
      BY DEF IInv, WorkFits
    <3>2. (qlock = v <=> was.pc = "clear") /\ (was.pc = "clear" => was.held = quar)
          /\ UNCHANGED <<qlock, quar, approved, overruled>>
      BY <1>2, <3>1 DEF IInv, WorkFits, stores
    <3>3. CASE v = w /\ work'[v] = Idle
      BY <1>1, <1>2, <3>1, <3>2, <3>3, InitialRecords
    <3>4. CASE work'[v] = work[v]
      BY <3>1, <3>2, <3>4
    <3>5. CASE work'[v] = [work[v] EXCEPT !.lost = TRUE]
      <4> DEFINE job == [was EXCEPT !.lost = TRUE]
      <4>1. job.pc = was.pc /\ job.held = was.held /\ job.cand = was.cand /\ job.pending = was.pending
        BY DEF Jobs
      <4>2. work'[v] = job
        BY <3>1, <3>5
      <4> HIDE DEF job
      <4>3. JobFits(job, quar, approved, overruled)
        BY <3>1, <4>1 DEF JobFits
      <4> QED
        BY <3>2, <4>1, <4>2, <4>3
    <3> QED
      BY <1>7, <3>3, <3>4, <3>5
  <2>3. WorkFits'
    BY <1>2, <1>7, <2>2 DEF IInv, WorkFits, stores
  <2>4. DeskFits'
    BY <1>2 DEF IInv, DeskFits, stores
  <2> QED
    BY <1>3, <2>1, <2>3, <2>4 DEF IInv
<1>8. work \in [Workers -> Jobs]
  BY DEF IInv, WorkFits
<1>9. CASE live' = [live EXCEPT ![Host(w)] = old.cand] /\ work' = [work EXCEPT ![w] = Idle]
  BY <1>7, <1>8, <1>9, InitialRecords
<1>10. ASSUME NEW tick \in Workers, tick # w, live' = [live EXCEPT ![Host(w)] = old.cand],
              work' = [work EXCEPT ![w] = Idle, ![tick].lost = TRUE]
       PROVE  IInv'
  <2>1. PICK job \in Jobs : job = [work[tick] EXCEPT !.lost = TRUE]
    BY <1>8 DEF Jobs
  <2>2. work' = [work EXCEPT ![w] = Idle, ![tick] = job]
    BY <1>8, <1>10, <2>1
  <2>3. work' \in [Workers -> Jobs]
    BY <1>8, <2>2, InitialRecords
  <2>4. \A v \in Workers : work'[v] = IF v = tick THEN job ELSE IF v = w THEN Idle ELSE work[v]
    BY <1>8, <1>10, <2>2
  <2> QED
    BY <1>7, <1>10, <2>1, <2>3, <2>4
<1>11. <<Host(w), "tick">> \in Workers
  BY DEF Workers, Host
<1> QED
  BY <1>1, <1>5, <1>6, <1>9, <1>10, <1>11 DEF Swap

-----------------------------------------------------------------------------
(* The desktop and the environment.                                        *)

\* No worker notices a step of another party that leaves its lock alone.
LEMMA OthersWork ==
  ASSUME IInv, Grows, UNCHANGED work,
         \/ UNCHANGED <<quar, qlock>>
         \/ {qlock, qlock'} \subseteq {Nobody, Desktop}
  PROVE  WorkFits'
<1>1. work \in [Workers -> Jobs] /\ qlock' \in Workers \cup {Nobody, Desktop}
  BY DEF IInv, WorkFits
<1>2. ASSUME NEW w \in Workers
      PROVE  /\ qlock' = w <=> work'[w].pc = "clear"
             /\ work'[w].pc = "clear" => work'[w].held = quar'
             /\ JobFits(work'[w], quar', approved', overruled')
  BY <1>1, GrowsFacts, LockNames DEF IInv, WorkFits
<1> QED
  BY <1>1, <1>2 DEF WorkFits

\* A record is shown.
LEMMA ViewInv ==
  ASSUME IInv, View
  PROVE  IInv'
<1>1. StoresFit' /\ Grows
  BY CountersFit, QuietStores DEF View, stores, bounds, IInv, StoresFit
<1>2. PICK t \in Blocked(quar) : desk' = [pc |-> "viewed", tool |-> t, rec |-> quar[t]]
  BY DEF View
<1>3. t \in Tools /\ quar[t] \in Records /\ quar[t].def # 0
  BY DEF Blocked, IInv, StoresFit, RecordsDefined
<1>4. /\ desk' \in Reviews /\ desk'.pc = "viewed" /\ desk'.rec.def # 0 /\ desk.pc = "idle"
      /\ UNCHANGED qlock
  BY <1>2, <1>3 DEF View, stores, Reviews
<1>5. DeskFits'
  BY <1>4 DEF DeskFits, IInv
<1>6. WorkFits' /\ LiveFits'
  BY <1>1, OthersWork, LiveKept DEF View, stores
<1> QED
  BY <1>1, <1>5, <1>6 DEF IInv

\* The user's release saves the captured pin and takes the lock, or gives up.
LEMMA ReleaseInv ==
  ASSUME IInv, Release
  PROVE  IInv'
<1>1. /\ desk.pc = "viewed" /\ qlock = Nobody
      /\ UNCHANGED <<def, quar, live, work, changes, rounds, overruled>>
      /\ desk \in {NoReview} \cup Reviews /\ desk # NoReview /\ desk.rec.def # 0
  BY DEF Release, IInv, DeskFits, NoReview
<1>2. CASE desk' = NoReview /\ UNCHANGED <<pins, bak, qlock, approved>> /\ (NoUpset \/ Upset)
  <2>1. StoresFit' /\ Grows
    BY <1>1, <1>2, CountersFit, QuietStores
  <2>2. WorkFits' /\ LiveFits'
    BY <1>1, <1>2, <2>1, OthersWork, LiveKept
  <2>3. DeskFits'
    BY <1>1, <1>2, LockNames DEF DeskFits, NoReview
  <2> QED
    BY <2>1, <2>2, <2>3 DEF IInv
<1>3. ASSUME quar[desk.tool] = desk.rec, NoUpset,
             SavePins(IF desk.rec.pending THEN [LoadPins.at EXCEPT ![desk.tool] = desk.rec.def]
                                          ELSE LoadPins.at),
             approved' = [approved EXCEPT ![desk.tool] = approved[desk.tool] \cup {desk.rec.def}],
             qlock' = Desktop, desk' = [desk EXCEPT !.pc = "remove"]
      PROVE  IInv'
  <2>1. PICK t \in Tools, rec \in Records : t = desk.tool /\ rec = desk.rec /\ rec.def \in Defs
    BY <1>1 DEF Reviews, Records, Optional, Defs
  <2>2. approved \in [Tools -> SUBSET Defs] /\ approved' = [approved EXCEPT ![t] = approved[t] \cup {rec.def}]
    BY <1>3, <2>1 DEF IInv, StoresFit
  <2>3. /\ approved' \in [Tools -> SUBSET Defs] /\ rec.def \in approved'[t]
        /\ \A u \in Tools : approved[u] \subseteq approved'[u]
    BY <2>1, <2>2
  <2>4. Grows
    BY <1>1, <2>3, ApprovalsGrow
  <2>5. PICK base \in Files : /\ base = LoadPins
                              /\ \A u \in Tools \ overruled : Known(u, base.at[u], quar, approved)
    BY LoadPinsFacts DEF IInv
  <2>6. PICK new \in Catalogs : /\ new = IF rec.pending THEN [base.at EXCEPT ![t] = rec.def] ELSE base.at
    BY <2>1 DEF Files, Catalogs, Records
  <2>7. SavePins(new)
    BY <1>3, <2>1, <2>5, <2>6
  <2>8. \A u \in Tools \ overruled' : Known(u, base.at[u], quar', approved')
    BY <1>1, <2>4, <2>5 DEF Grows
  <2>9. \A u \in Tools : new[u] = base.at[u] \/ (u = t /\ new[u] = rec.def)
    BY <2>6 DEF Files, Catalogs
  <2>10. \A u \in Tools \ overruled' : Known(u, new[u], quar', approved')
    BY <2>3, <2>8, <2>9 DEF Known
  <2>11. pins' \in Files /\ bak' \in Files /\ PinsKnown'
    BY <2>4, <2>7, <2>10, SavePinsFacts
  <2>12. StoresFit'
    BY <1>1, <1>3, <2>3, <2>11, CountersFit DEF IInv, StoresFit, RecordsDefined
  <2>13. WorkFits' /\ LiveFits'
    BY <1>1, <1>3, <2>4, OthersWork, LiveKept
  <2>14. desk' \in Reviews /\ desk'.pc = "remove" /\ desk'.tool = t /\ desk'.rec = rec
    BY <1>1, <1>3, <2>1 DEF Reviews
  <2>15. DeskFits'
    BY <1>1, <1>3, <2>1, <2>3, <2>14 DEF DeskFits
  <2> QED
    BY <2>12, <2>13, <2>15 DEF IInv
<1> QED
  BY <1>2, <1>3 DEF Release

\* The record goes once its definition is approved.
LEMMA RemoveInv ==
  ASSUME IInv, Remove
  PROVE  IInv'
<1>1. /\ desk.pc = "remove" /\ qlock = Desktop /\ qlock' = Nobody /\ desk' = NoReview
      /\ desk \in Reviews /\ quar[desk.tool] = desk.rec
      /\ desk.rec.def \in approved[desk.tool] /\ quar \in [Tools -> Records]
      /\ UNCHANGED <<def, pins, bak, live, work, changes, rounds, approved, overruled>>
  BY DEF Remove, IInv, DeskFits, StoresFit, NoReview
<1>2. DeskFits'
  BY <1>1, LockNames DEF DeskFits, NoReview
<1>3. CASE UNCHANGED quar /\ Upset
  <2>1. StoresFit' /\ Grows
    BY <1>1, <1>3, CountersFit, QuietStores
  <2> QED
    BY <1>1, <1>2, <2>1, OthersWork, LiveKept DEF IInv
<1>4. CASE quar' = [quar EXCEPT ![desk.tool] = NoRecord] /\ NoUpset
  <2>1. PICK t \in Tools : t = desk.tool /\ quar[t].def \in approved[t]
    BY <1>1 DEF Reviews
  <2>2. /\ quar' \in [Tools -> Records] /\ \A u \in Tools \ {t} : quar'[u] = quar[u]
        /\ quar'[t].change = "none"
    BY <1>1, <1>4, <2>1, InitialRecords DEF NoRecord
  <2>3. Grows
    BY <1>1, <2>1, <2>2 DEF Grows, Known, Blocked
  <2>4. PinsKnown' /\ RecordsDefined'
    BY <1>1, <2>2, <2>3 DEF IInv, StoresFit, PinsKnown, RecordsDefined, Grows, Blocked
  <2>5. StoresFit'
    BY <1>1, <1>4, <2>2, <2>4, CountersFit DEF IInv, StoresFit
  <2> QED
    BY <1>1, <1>2, <2>3, <2>5, OthersWork, LiveKept DEF IInv
<1> QED
  BY <1>3, <1>4 DEF Remove

\* The server changes one of its tools.
LEMMA ChangeInv ==
  ASSUME IInv, Change
  PROVE  IInv'
<1>1. def' \in Catalogs
  BY DEF Change, IInv, StoresFit, Catalogs
<1>2. StoresFit' /\ Grows
  BY <1>1, CountersFit, QuietStores DEF Change, stores, IInv, StoresFit
<1>3. WorkFits' /\ LiveFits'
  BY <1>2, OthersWork, LiveKept DEF Change, stores
<1>4. DeskFits'
  BY DEF Change, stores, IInv, DeskFits
<1> QED
  BY <1>2, <1>3, <1>4 DEF IInv

\* A pin file is lost: a reader falls back to known definitions, or to none.
LEMMA LosePinsInv ==
  ASSUME IInv, LosePins
  PROVE  IInv'
<1>1. UNCHANGED <<def, quar, qlock, live, work, desk, changes, rounds, approved, overruled>> /\ Upset
  BY DEF LosePins
<1>2. Grows
  BY <1>1, ApprovalsGrow
<1>3. PICK st \in {"none", "bad"} : \/ pins' = [st |-> st, at |-> Empty] /\ UNCHANGED bak
                                    \/ bak' = [st |-> st, at |-> Empty] /\ UNCHANGED pins
  BY DEF LosePins
<1> DEFINE lost == [st |-> st, at |-> Empty]
<1>4. lost \in Files /\ lost.at = Empty /\ lost.st # "ok"
  BY InitialRecords DEF Files
<1>5. \A t \in Tools : Known(t, lost.at[t], quar, approved)
  BY <1>4 DEF Known, Empty
<1>6. \/ pins' = lost /\ UNCHANGED bak
      \/ bak' = lost /\ UNCHANGED pins
  BY <1>3
<1> HIDE DEF lost
<1>7. pins' \in Files /\ bak' \in Files /\ PinsKnown'
  BY <1>1, <1>4, <1>5, <1>6 DEF IInv, StoresFit, PinsKnown
<1>8. StoresFit'
  BY <1>1, <1>7, CountersFit DEF IInv, StoresFit, RecordsDefined
<1>9. WorkFits' /\ LiveFits'
  BY <1>1, <1>2, OthersWork, LiveKept
<1>10. DeskFits'
  BY <1>1 DEF IInv, DeskFits
<1> QED
  BY <1>8, <1>9, <1>10 DEF IInv

\* A gateway ends with its workers, and its lock is free.
LEMMA CrashInv ==
  ASSUME IInv, NEW g \in Gateways, Crash(g)
  PROVE  IInv'
<1>1. /\ live' = [live EXCEPT ![g] = Unbuilt]
      /\ work' = [w \in Workers |-> IF Host(w) = g THEN Idle ELSE work[w]]
      /\ qlock' = IF \E w \in Workers : Host(w) = g /\ qlock = w THEN Nobody ELSE qlock
      /\ UNCHANGED <<def, pins, bak, quar, desk, changes, rounds, approved, overruled>> /\ Upset
  BY DEF Crash
<1>2. StoresFit' /\ Grows
  BY <1>1, CountersFit, QuietStores
<1>3. LiveFits'
  <2>1. Trusted(Unbuilt, approved, overruled)
    BY InitialRecords DEF Trusted
  <2> QED
    BY <1>1, <2>1, InitialRecords DEF IInv, LiveFits
<1>4. qlock' = Desktop <=> qlock = Desktop
  BY <1>1, LockNames
<1>5. DeskFits'
  BY <1>1, <1>4 DEF IInv, DeskFits
<1>6. ASSUME NEW w \in Workers
      PROVE  /\ work'[w] \in Jobs /\ (qlock' = w <=> work'[w].pc = "clear")
             /\ work'[w].pc = "clear" => work'[w].held = quar'
             /\ JobFits(work'[w], quar', approved', overruled')
  <2>1. CASE Host(w) = g
    <3>1. work'[w] = Idle
      BY <1>1, <2>1
    <3>2. qlock' # w
      BY <1>1, <2>1, LockNames
    <3> QED
      BY <3>1, <3>2, InitialRecords
  <2>2. CASE Host(w) # g
    <3>1. work'[w] = work[w]
      BY <1>1, <2>2
    <3>2. qlock' = w <=> qlock = w
      BY <1>1, <2>2, LockNames
    <3> QED
      BY <1>1, <3>1, <3>2 DEF IInv, WorkFits
  <2> QED
    BY <2>1, <2>2
<1>7. work' \in [Workers -> Jobs]
  BY <1>1, <1>6
<1>8. qlock' \in Workers \cup {Nobody, Desktop}
  BY <1>1 DEF IInv, WorkFits
<1>9. WorkFits'
  BY <1>6, <1>7, <1>8 DEF WorkFits
<1> QED
  BY <1>2, <1>3, <1>5, <1>9 DEF IInv

-----------------------------------------------------------------------------
(* The theorems.                                                           *)

\* At first the tools that are served are pinned, approved and shown.
LEMMA InitInv ==
  ASSUME Init
  PROVE  IInv
<1>1. def \in Catalogs /\ \A t \in Tools : def[t] # 0 => def[t] \in Defs
  <2>1. 0 \in Optional /\ 1 \in Optional /\ 1 \in Defs
    BY BoundAssumption DEF Optional, Defs
  <2> QED
    BY <2>1 DEF Init, Catalogs
<1>2. approved \in [Tools -> SUBSET Defs] /\ \A t \in Tools : def[t] \in {0} \cup approved[t]
  BY <1>1 DEF Init, Catalogs
<1>3. pins = File(def) /\ bak = [st |-> "none", at |-> Empty] /\ quar = NoRecords /\ overruled = {}
  BY DEF Init
<1>4. /\ pins \in Files /\ pins.at = def /\ pins.st = "ok"
      /\ bak \in Files /\ bak.at = Empty /\ bak.st = "none"
  BY <1>1, <1>3, InitialRecords DEF Files, File
<1>5. Blocked(quar) = {}
  BY <1>3 DEF Blocked, NoRecords, NoRecord
<1>6. PinsKnown /\ RecordsDefined
  BY <1>2, <1>4, <1>5 DEF PinsKnown, RecordsDefined, Known, Empty
<1>7. StoresFit
  <2>1. changes \in 0..MaxChanges /\ rounds \in 0..MaxRounds /\ upsets \in 0..MaxUpsets
    <3>1. changes = 0 /\ rounds = 0 /\ upsets = 0
      BY DEF Init
    <3> QED
      BY <3>1, BoundAssumption
  <2> QED
    BY <1>1, <1>2, <1>3, <1>4, <1>6, <2>1, InitialRecords DEF StoresFit
<1>8. DeskFits
  BY LockNames, InitialRecords DEF DeskFits, Init, NoReview
<1>9. WorkFits
  BY LockNames, InitialRecords DEF WorkFits, Init
<1>10. LiveFits
  <2> DEFINE r == [Unbuilt EXCEPT !.built = TRUE, !.cat = def]
  <2>1. r \in Routers /\ r.cat = def
    BY <1>1, InitialRecords DEF Routers
  <2>2. live = [g \in Gateways |-> r]
    BY DEF Init
  <2> HIDE DEF r
  <2>3. Trusted(r, approved, overruled)
    BY <1>2, <2>1 DEF Trusted, Shown
  <2> QED
    BY <2>1, <2>2, <2>3 DEF LiveFits
<1> QED
  BY <1>7, <1>8, <1>9, <1>10 DEF IInv

\* Every step keeps the invariant.
LEMMA NextInv == IInv /\ [Next]_vars => IInv'
<1> SUFFICES ASSUME IInv, [Next]_vars PROVE IInv'
  OBVIOUS
<1>1. CASE UNCHANGED vars
  BY <1>1 DEF vars, stores, bounds, IInv, StoresFit, PinsKnown, RecordsDefined, DeskFits,
              WorkFits, LiveFits
<1>2. ASSUME NEW w \in Workers, Step(w) \/ Rebuild(w) \/ Relist(w) PROVE IInv'
  BY <1>2, ReconcileInv, CheckInv, AcceptInv, ClearInv, ApplyInv, PublishInv, SwapInv,
     RebuildInv, RelistInv DEF Step
<1> QED
  BY <1>1, <1>2, ViewInv, ReleaseInv, RemoveInv, ChangeInv, LosePinsInv, CrashInv DEF Next

\* The invariant holds in every reachable state.
LEMMA Invariance == Spec => []IInv
BY InitInv, NextInv, PTL DEF Spec

\* Whatever fails between the pin files and the quarantine file, a pin whose definition was
\* not approved has its record.
THEOREM StoresStayOK == Spec => []StoresOK
<1>1. IInv => StoresOK
  <2> SUFFICES ASSUME IInv PROVE StoresOK
    OBVIOUS
  <2>1. PinsNeedRecords
    BY LoadPinsFacts DEF IInv, PinsNeedRecords, Known
  <2>2. /\ desk = NoReview \/ (desk.pc \in {"viewed", "remove"} /\ desk.tool \in Tools /\ desk.rec \in Records)
        /\ (qlock = Desktop) = (desk.pc = "remove")
        /\ \A w \in Workers : (qlock = w) = (work[w].pc = "clear")
    BY DEF IInv, DeskFits, WorkFits, Reviews
  <2>3. TypeOK
    BY <2>2 DEF IInv, StoresFit, WorkFits, LiveFits, TypeOK
  <2> QED
    BY <2>1, <2>3 DEF StoresOK
<1> QED
  BY <1>1, Invariance, PTL

\* A gateway exposes only definitions that were exposed on first sight or released by the
\* user, however gates, ticks, releases, lost files and crashes interleave.
THEOREM ShowsTrustedOnly == Spec => []TrustedOnly
<1>1. IInv => TrustedOnly
  BY DEF IInv, LiveFits, Trusted, TrustedOnly
<1> QED
  BY <1>1, Invariance, PTL

\* A record leaves the quarantine file only by the release of the very record shown.
THEOREM OnlyTheUserUnblocks == Spec => OnlyReleaseUnblocks
<1> DEFINE Unblocks == \A t \in Blocked(quar) \ Blocked(quar') :
                         desk.pc = "remove" /\ desk.tool = t /\ desk.rec = quar[t]
<1>1. IInv /\ [Next]_vars => [Unblocks]_vars
  <2> SUFFICES ASSUME IInv, Next PROVE Unblocks
    OBVIOUS
  <2>1. quar \in [Tools -> Records]
    BY DEF IInv, StoresFit
  <2>2. CASE Blocked(quar) \subseteq Blocked(quar')
    BY <2>2
  <2>3. ASSUME NEW w \in Workers, Clear(w) PROVE Blocked(quar) \subseteq Blocked(quar')
    <3>1. work[w].held = quar
      BY <2>3 DEF Clear, IInv, WorkFits
    <3> QED
      BY <2>1, <2>3, <3>1, ClearedFacts DEF Clear, Blocked
  <2>4. ASSUME NEW w \in Workers, Apply(w) PROVE Blocked(quar) \subseteq Blocked(quar')
    <3>1. /\ work[w] \in Jobs /\ work[w].pending \subseteq Shown(work[w].cand)
          /\ \A t \in Blocked(quar) : quar[t].def # 0
      BY <2>4 DEF Apply, IInv, StoresFit, RecordsDefined, WorkFits, JobFits
    <3> QED
      BY <2>1, <2>4, <3>1, QuarantinedFacts DEF Apply
  <2>5. CASE Remove
    <3>1. desk.pc = "remove" /\ quar[desk.tool] = desk.rec
      BY <2>5 DEF Remove, IInv, DeskFits
    <3> QED
      BY <2>1, <2>5, <3>1 DEF Remove, Blocked
  <2>6. CASE UNCHANGED quar
    BY <2>6
  <2>7. ASSUME NEW w \in Workers, Step(w) \/ Rebuild(w) \/ Relist(w) PROVE Unblocks
    <3>1. CASE Clear(w) \/ Apply(w)
      BY <2>2, <2>3, <2>4, <3>1
    <3>2. CASE ~(Clear(w) \/ Apply(w))
      BY <2>6, <2>7, <3>2 DEF Step, Reconcile, Check, Accept, Publish, Swap, Rebuild, Relist, stores
    <3> QED
      BY <3>1, <3>2
  <2>8. CASE View \/ Release \/ Change \/ LosePins \/ \E g \in Gateways : Crash(g)
    BY <2>6, <2>8 DEF View, Release, Change, LosePins, Crash, stores
  <2> QED
    BY <2>5, <2>7, <2>8 DEF Next
<1> QED
  BY <1>1, Invariance, PTL DEF Spec, OnlyReleaseUnblocks
=============================================================================
