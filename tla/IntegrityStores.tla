--------------------------- MODULE IntegrityStores ---------------------------
(***************************************************************************)
(* Pins and quarantine (integrity.rs) and the gate every router passes     *)
(* before a gateway publishes it (toolport-gateway.rs), at the level that  *)
(* enforces drift quarantine.                                              *)
(*                                                                         *)
(* Gateway processes share, per profile, a pin file with a backup and a    *)
(* quarantine file, each changed under a cross-process lock.  In a gateway *)
(* two threads publish routers: the watcher's tick, which reconciles the   *)
(* live router with the quarantine file and re-lists tools, and whoever    *)
(* holds rebuild_lock, who rebuilds or adopts a reconnected server.  The   *)
(* desktop shows a record and releases it.  All tools are tools of one     *)
(* server; a definition is a number, every change of it is high-risk, 0    *)
(* is "not there".  Poison findings, explicit reviews, changes of the      *)
(* format and of the safety level are left out.                            *)
(***************************************************************************)
EXTENDS Naturals, FiniteSets

CONSTANTS Gateways,
          Tools,
          Served,     \* the tools the server has at first
          MaxDef,     \* bound on the definitions of a tool
          MaxChanges, \* bound on the changes a server makes to its tools
          MaxRounds,  \* bound on rebuilds and re-listings
          MaxUpsets   \* bound on failed reads and writes, lost files and crashes

ASSUME ServedAssumption == Served \subseteq Tools
ASSUME BoundAssumption ==
    MaxDef \in Nat \ {0} /\ MaxChanges \in Nat /\ MaxRounds \in Nat /\ MaxUpsets \in Nat

VARIABLES def,       \* the definition each tool is served with
          pins, bak, \* the pin file and its backup
          quar,      \* the quarantine file
          qlock,     \* holder of the quarantine lock
          live,      \* the published router of each gateway
          work,      \* what each publishing thread is doing
          desk,      \* the desktop's release
          changes, rounds, upsets,
          approved,  \* history: definitions first seen or released by the user
          overruled  \* history: tools whose record a lost trust root replaced by another

stores == <<pins, bak, quar, qlock>>
bounds == <<changes, rounds, upsets>>
vars == <<def, stores, live, work, desk, bounds, approved, overruled>>

Defs == 1..MaxDef
Optional == 0..MaxDef

Workers == Gateways \X {"tick", "build"}
Host(w) == w[1]
Nobody == <<"nobody">>
Desktop == <<"desktop">>

Catalogs == [Tools -> Optional]
Files == [st : {"none", "bad", "ok"}, at : Catalogs]
Empty == [t \in Tools |-> 0]
File(at) == [st |-> "ok", at |-> at]

Records == [change : {"none", "changed", "tamper"}, def : Optional, pending : BOOLEAN]
NoRecord == [change |-> "none", def |-> 0, pending |-> FALSE]
NoRecords == [t \in Tools |-> NoRecord]

\* blind is history: the last gate could not read the quarantine file after it had found drift.
Routers == [built : BOOLEAN, cat : Catalogs, hidden : SUBSET Tools, closed : BOOLEAN,
            blind : BOOLEAN]
Unbuilt == [built |-> FALSE, cat |-> Empty, hidden |-> {}, closed |-> FALSE, blind |-> FALSE]

Jobs == [pc : {"idle", "check", "accept", "clear", "apply", "publish", "swap"},
         op : {"none", "publish", "reconcile"}, cand : Routers, want : SUBSET Tools,
         lost : BOOLEAN, tamper : BOOLEAN, pending : SUBSET Tools, staged : BOOLEAN,
         err : BOOLEAN, held : [Tools -> Records]]
Idle == [pc |-> "idle", op |-> "none", cand |-> Unbuilt, want |-> {}, lost |-> FALSE,
         tamper |-> FALSE, pending |-> {}, staged |-> FALSE, err |-> FALSE, held |-> NoRecords]

NoReview == [pc |-> "idle", tool |-> "none", rec |-> NoRecord]

TypeOK ==
    /\ def \in Catalogs /\ pins \in Files /\ bak \in Files
    /\ quar \in [Tools -> Records]
    /\ qlock \in Workers \cup {Nobody, Desktop}
    /\ live \in [Gateways -> Routers] /\ work \in [Workers -> Jobs]
    /\ desk = NoReview \/ (desk.pc \in {"viewed", "remove"} /\ desk.tool \in Tools /\ desk.rec \in Records)
    /\ changes \in 0..MaxChanges /\ rounds \in 0..MaxRounds /\ upsets \in 0..MaxUpsets
    /\ approved \in [Tools -> SUBSET Defs] /\ overruled \subseteq Tools
    /\ (qlock = Desktop) = (desk.pc = "remove")
    /\ \A w \in Workers : (qlock = w) = (work[w].pc = "clear")

\* An earlier build saw and pinned the tools served then; others come later.
Init ==
    /\ def = [t \in Tools |-> IF t \in Served THEN 1 ELSE 0]
    /\ pins = File(def) /\ bak = [st |-> "none", at |-> Empty]
    /\ quar = NoRecords /\ qlock = Nobody
    /\ live = [g \in Gateways |-> [Unbuilt EXCEPT !.built = TRUE, !.cat = def]]
    /\ work = [w \in Workers |-> Idle] /\ desk = NoReview
    /\ changes = 0 /\ rounds = 0 /\ upsets = 0
    /\ approved = [t \in Tools |-> {def[t]} \ {0}] /\ overruled = {}

-----------------------------------------------------------------------------
(* The stores.                                                             *)

Upset == upsets < MaxUpsets /\ upsets' = upsets + 1
NoUpset == UNCHANGED upsets

\* Tools a quarantine file blocks.
Blocked(q) == {t \in Tools : q[t].change # "none"}

\* The pins a reader finds: the primary, else a backup that parses; "bad" is a lost trust root.
LoadPins ==
    IF pins.st = "ok" THEN pins
    ELSE IF pins.st = "none" /\ bak.st = "none" THEN File(Empty)
    ELSE IF bak.st = "ok" THEN bak
    ELSE [st |-> "bad", at |-> Empty]

\* The outgoing primary becomes the backup if it parses.  Nothing new, nothing written.
SavePins(new) ==
    IF new = LoadPins.at THEN UNCHANGED <<pins, bak>>
    ELSE pins' = File(new) /\ bak' = IF pins.st = "ok" THEN pins ELSE bak

\* Ordinary records whose captured pin is not known to be saved.
Staged(q) == {t \in Tools : q[t].change = "changed" /\ q[t].pending}
Captured(q, base) == [t \in Tools |-> IF t \in Staged(q) THEN q[t].def ELSE base[t]]
Cleared(q) == [t \in Tools |-> IF t \in Staged(q) THEN [q[t] EXCEPT !.pending = FALSE] ELSE q[t]]

-----------------------------------------------------------------------------
(* Starting a publication.                                                 *)

Shown(r) == IF r.closed THEN {} ELSE {t \in Tools : r.cat[t] # 0 /\ t \notin r.hidden}

Set(w, job) == work' = [work EXCEPT ![w] = job]

\* A router built or copied to be published, with the tools as the servers list them now.
Begin(w, r) ==
    /\ rounds < MaxRounds /\ rounds' = rounds + 1
    /\ Set(w, [Idle EXCEPT !.pc = "check", !.op = "publish",
                           !.cand = [r EXCEPT !.built = TRUE, !.cat = def, !.blind = FALSE]])

\* A rebuilt router starts with the stored set, or with the live decision if the read fails.
Rebuild(w) ==
    /\ w[2] = "build" /\ work[w].pc = "idle"
    /\ LET was == live[Host(w)] IN
       \/ Begin(w, [was EXCEPT !.hidden = Blocked(quar), !.closed = FALSE]) /\ NoUpset
       \/ Begin(w, [was EXCEPT !.closed = @ \/ ~was.built]) /\ Upset
    /\ UNCHANGED <<def, stores, live, desk, changes, approved, overruled>>

\* A notification, an expired cache or a reconnect: a copy of the live router lists tools anew.
Relist(w) ==
    /\ work[w].pc = "idle" /\ live[Host(w)].built
    /\ Begin(w, live[Host(w)])
    /\ UNCHANGED <<def, stores, live, desk, changes, upsets, approved, overruled>>

\* (Mutated: a tick that adds blocks and never takes one away.)
CandidateOnlyAdds(w, want) ==
    LET now == live[Host(w)] IN
    [Idle EXCEPT !.op = "reconcile", !.want = want, !.pc = IF now.closed THEN "check" ELSE "swap",
                 !.cand = [now EXCEPT !.hidden = @ \cup want, !.closed = FALSE]]

\* reconcile_to_with: the live router with the set the tick read.  Only a candidate that shows
\* more than the live router goes through the gate.
Candidate(w, want) ==
    LET now == live[Host(w)] IN
    [Idle EXCEPT !.op = "reconcile", !.want = want,
                 !.cand = [now EXCEPT !.hidden = want, !.closed = FALSE],
                 !.pc = IF now.closed \/ ~(now.hidden \subseteq want) THEN "check" ELSE "swap"]

Settled(r, want) == r.hidden = want /\ ~r.closed

\* A tick that finds the set it wants, or an unreadable file, changes nothing.
Reconcile(w) ==
    /\ w[2] = "tick" /\ work[w].pc = "idle"
    /\ live[Host(w)].built /\ ~Settled(live[Host(w)], Blocked(quar))
    /\ Set(w, Candidate(w, Blocked(quar)))
    /\ UNCHANGED <<def, stores, live, desk, bounds, approved, overruled>>

-----------------------------------------------------------------------------
(* The integrity gate.                                                     *)

Drift(cand, base) == {t \in Shown(cand) : base[t] \notin {0, cand.cat[t]}}
FirstSights(cand, base) == {t \in Shown(cand) : base[t] = 0}

\* The gate gives up: these names stay hidden, and the router is still published.
GiveUp(w, names) ==
    Set(w, [work[w] EXCEPT !.pc = "publish", !.err = TRUE, !.pending = names,
                           !.held = NoRecords, !.staged = FALSE])

\* (Mutated: a changed definition is pinned at once, before its quarantine record exists.)
CheckUnstaged(w) ==
    LET cand == work[w].cand
        base == LoadPins
        firsts == FirstSights(cand, base.at)
    IN
    /\ work[w].pc = "check" /\ base.st = "ok"
    /\ SavePins([t \in Tools |-> IF t \in Shown(cand) THEN cand.cat[t] ELSE base.at[t]])
    /\ approved' = [t \in Tools |-> approved[t] \cup IF t \in firsts THEN {cand.cat[t]} ELSE {}]
    /\ Set(w, [work[w] EXCEPT !.pc = "accept", !.pending = Drift(cand, base.at)])
    /\ UNCHANGED <<def, quar, qlock, live, desk, bounds, overruled>>

\* check_staged: a first sight is pinned at once, a high-risk change keeps its old pin.
Check(w) ==
    LET cand == work[w].cand
        base == LoadPins
        firsts == FirstSights(cand, base.at)
    IN
    /\ work[w].pc = "check"
    /\ \/ /\ base.st = "bad" /\ NoUpset
          /\ Set(w, [work[w] EXCEPT !.pc = "apply", !.tamper = TRUE, !.pending = Shown(cand)])
          /\ UNCHANGED <<pins, bak, approved>>
       \/ /\ base.st = "ok" /\ NoUpset
          /\ SavePins([t \in Tools |-> IF t \in firsts THEN cand.cat[t] ELSE base.at[t]])
          /\ approved' = [t \in Tools |-> approved[t] \cup
                                          IF t \in firsts THEN {cand.cat[t]} ELSE {}]
          /\ Set(w, [work[w] EXCEPT !.pc = "accept", !.pending = Drift(cand, base.at)])
       \/ Upset /\ GiveUp(w, Shown(cand)) /\ UNCHANGED <<pins, bak, approved>>
    /\ UNCHANGED <<def, quar, qlock, live, desk, changes, rounds, overruled>>

\* accept_quarantined_pins: under the quarantine lock, the pins of the stored records are
\* saved first and the records' markers are cleared second.
\* With nothing to block, apply_quarantine writes nothing and accepting again repeats this.
Accepted(w) ==
    [work[w] EXCEPT !.pc = IF work[w].staged \/ work[w].pending = {} THEN "publish" ELSE "apply",
                    !.held = NoRecords, !.staged = FALSE]

Accept(w) ==
    /\ work[w].pc = "accept" /\ qlock = Nobody
    /\ \/ /\ Staged(quar) = {} /\ NoUpset
          /\ Set(w, Accepted(w)) /\ UNCHANGED <<pins, bak, qlock>>
       \/ /\ Staged(quar) # {} /\ LoadPins.st = "ok" /\ NoUpset
          /\ SavePins(Captured(quar, LoadPins.at))
          /\ qlock' = w /\ Set(w, [work[w] EXCEPT !.pc = "clear", !.held = quar])
       \/ /\ Staged(quar) # {} /\ LoadPins.st = "bad" /\ NoUpset
          /\ GiveUp(w, work[w].pending) /\ UNCHANGED <<pins, bak, qlock>>
       \/ Upset /\ GiveUp(w, work[w].pending) /\ UNCHANGED <<pins, bak, qlock>>
    /\ UNCHANGED <<def, quar, live, desk, changes, rounds, approved, overruled>>

Clear(w) ==
    /\ work[w].pc = "clear" /\ qlock' = Nobody
    /\ \/ quar' = Cleared(work[w].held) /\ Set(w, Accepted(w)) /\ NoUpset
       \/ Upset /\ GiveUp(w, work[w].pending) /\ UNCHANGED quar
    /\ UNCHANGED <<def, pins, bak, live, desk, changes, rounds, approved, overruled>>

\* apply_quarantine: a lost trust root captures the whole catalog and claims every record; a
\* drift gets a record unless the tool has one.
Quarantined(q, job) ==
    [t \in Tools |->
        IF t \in job.pending /\ (job.tamper \/ t \notin Blocked(q))
        THEN [change |-> IF job.tamper THEN "tamper" ELSE "changed", def |-> job.cand.cat[t],
              pending |-> TRUE]
        ELSE IF job.tamper /\ t \in Blocked(q) THEN [q[t] EXCEPT !.change = "tamper"]
        ELSE q[t]]

Apply(w) ==
    /\ work[w].pc = "apply" /\ qlock = Nobody
    /\ \/ /\ quar' = Quarantined(quar, work[w]) /\ NoUpset
          /\ overruled' = overruled \cup
                 {t \in Blocked(quar) : Quarantined(quar, work[w])[t].def # quar[t].def}
          /\ Set(w, [work[w] EXCEPT !.pc = "accept", !.staged = TRUE])
       \/ Upset /\ GiveUp(w, work[w].pending) /\ UNCHANGED <<quar, overruled>>
    /\ UNCHANGED <<def, pins, bak, qlock, live, desk, changes, rounds, approved>>

\* (Mutated: a catalog without drift is published as it is.)
GatedIfDrift(job, stored) ==
    [job.cand EXCEPT !.hidden = IF job.pending = {} THEN @ ELSE @ \cup job.pending \cup stored,
                     !.closed = @ /\ (job.err \/ job.pending = {}), !.blind = FALSE]

\* What the gate makes of the candidate once it has read the quarantine file.
Gated(job, stored) ==
    LET hidden == job.cand.hidden \cup job.pending \cup stored
    IN [job.cand EXCEPT !.hidden = hidden,
                        !.closed = @ /\ (job.err \/ job.pending = {}), !.blind = FALSE]

\* ... and when the file cannot be read.
GatedBlind(job) ==
    [job.cand EXCEPT !.hidden = @ \cup job.pending,
                     !.closed = @ \/ job.err \/ job.pending = {},
                     !.blind = ~job.err /\ job.pending # {}]

Publish(w) ==
    LET To(r) == Set(w, [Idle EXCEPT !.pc = "swap", !.op = work[w].op, !.cand = r,
                                     !.want = work[w].want, !.lost = work[w].lost])
    IN
    /\ work[w].pc = "publish"
    /\ \/ To(Gated(work[w], Blocked(quar))) /\ NoUpset
       \/ To(GatedBlind(work[w])) /\ Upset
    /\ UNCHANGED <<def, stores, live, desk, changes, rounds, approved, overruled>>

\* A publication replaces whatever is live; a reconciliation only the router it started from,
\* and tries again with the set it wants, or leaves it to the next tick.
Swap(w) ==
    LET g == Host(w)
        tick == <<g, "tick">>
        Overtaken == IF w # tick /\ work[tick].op = "reconcile"
                     THEN [work EXCEPT ![w] = Idle, ![tick].lost = TRUE]
                     ELSE [work EXCEPT ![w] = Idle]
    IN
    /\ work[w].pc = "swap"
    /\ IF work[w].lost
       THEN /\ UNCHANGED live
            /\ \/ Set(w, Idle)
               \/ /\ ~Settled(live[g], work[w].want)
                  /\ Set(w, Candidate(w, work[w].want))
       ELSE live' = [live EXCEPT ![g] = work[w].cand] /\ work' = Overtaken
    /\ UNCHANGED <<def, stores, desk, bounds, approved, overruled>>

-----------------------------------------------------------------------------
(* The desktop.                                                            *)

\* The blocked tools are listed with what their records say.
View ==
    /\ desk.pc = "idle"
    /\ \E t \in Blocked(quar) : desk' = [pc |-> "viewed", tool |-> t, rec |-> quar[t]]
    /\ UNCHANGED <<def, stores, live, work, bounds, approved, overruled>>

\* release_record: the record shown must still be the one stored; its captured pin is saved
\* before the block goes.  The release of a record whose pin is gone is left out.
Releasable(rec, base) ==
    /\ rec.change = "tamper" => rec.pending
    /\ rec.change = "changed" => base.st = "ok"

\* (Mutated: whatever record the tool has now is released.)
ReleaseUnchecked ==
    LET t == desk.tool
        base == LoadPins
    IN
    /\ desk.pc = "viewed" /\ qlock = Nobody
    /\ Releasable(desk.rec, base) /\ t \in Blocked(quar)
    /\ SavePins(IF desk.rec.pending THEN [base.at EXCEPT ![t] = desk.rec.def] ELSE base.at)
    /\ approved' = [approved EXCEPT ![t] = @ \cup {desk.rec.def}]
    /\ qlock' = Desktop /\ desk' = [desk EXCEPT !.pc = "remove"]
    /\ UNCHANGED <<def, quar, live, work, bounds, overruled>>

Release ==
    LET t == desk.tool
        base == LoadPins
    IN
    /\ desk.pc = "viewed" /\ qlock = Nobody
    /\ \/ /\ quar[t] = desk.rec /\ Releasable(desk.rec, base) /\ NoUpset
          /\ desk.rec.pending \/ base.at[t] # 0
          /\ SavePins(IF desk.rec.pending THEN [base.at EXCEPT ![t] = desk.rec.def] ELSE base.at)
          /\ approved' = [approved EXCEPT ![t] = @ \cup {desk.rec.def}]
          /\ qlock' = Desktop /\ desk' = [desk EXCEPT !.pc = "remove"]
       \/ /\ \/ (quar[t] # desk.rec \/ ~Releasable(desk.rec, base)) /\ NoUpset
             \/ Upset
          /\ desk' = NoReview /\ UNCHANGED <<pins, bak, qlock, approved>>
    /\ UNCHANGED <<def, quar, live, work, changes, rounds, overruled>>

Remove ==
    /\ desk.pc = "remove" /\ desk' = NoReview /\ qlock' = Nobody
    /\ \/ quar' = [quar EXCEPT ![desk.tool] = NoRecord] /\ NoUpset
       \/ Upset /\ UNCHANGED quar
    /\ UNCHANGED <<def, pins, bak, live, work, changes, rounds, approved, overruled>>

-----------------------------------------------------------------------------
(* The environment.                                                        *)

\* The server changes, adds or withdraws a tool.
Change ==
    /\ changes < MaxChanges /\ changes' = changes + 1
    /\ \E t \in Tools, d \in Optional : d # def[t] /\ def' = [def EXCEPT ![t] = d]
    /\ UNCHANGED <<stores, live, work, desk, rounds, upsets, approved, overruled>>

\* A pin file is deleted or does not parse any more.
LosePins ==
    /\ Upset
    /\ \E lost \in {"none", "bad"} :
          \/ pins' = [st |-> lost, at |-> Empty] /\ UNCHANGED bak
          \/ bak' = [st |-> lost, at |-> Empty] /\ UNCHANGED pins
    /\ UNCHANGED <<def, quar, qlock, live, work, desk, changes, rounds, approved, overruled>>

\* A gateway ends; the system frees its lock.  Its next life begins with a rebuild.
Crash(g) ==
    /\ live[g].built /\ Upset
    /\ live' = [live EXCEPT ![g] = Unbuilt]
    /\ work' = [w \in Workers |-> IF Host(w) = g THEN Idle ELSE work[w]]
    /\ qlock' = IF \E w \in Workers : Host(w) = g /\ qlock = w THEN Nobody ELSE qlock
    /\ UNCHANGED <<def, pins, bak, quar, desk, changes, rounds, approved, overruled>>

Step(w) == Reconcile(w) \/ Check(w) \/ Accept(w) \/ Clear(w) \/ Apply(w) \/ Publish(w) \/ Swap(w)

Next ==
    \/ \E w \in Workers : Step(w) \/ Rebuild(w) \/ Relist(w)
    \/ View \/ Release \/ Remove
    \/ Change \/ LosePins
    \/ \E g \in Gateways : Crash(g)

\* Threads run on and the tick comes every second; nothing else is promised.
Fairness == (\A w \in Workers : WF_vars(Step(w))) /\ WF_vars(Remove)

Spec == Init /\ [][Next]_vars /\ Fairness

-----------------------------------------------------------------------------
(* Properties.                                                             *)

\* TrustedOnly: a definition a gateway exposes was exposed on first sight or released by the
\* user, unless its last gate lost the quarantine file between writing and reading it, or the
\* record that was released had replaced one of another definition.
TrustedOnly ==
    \A g \in Gateways : ~live[g].blind =>
        \A t \in Shown(live[g]) \ overruled : live[g].cat[t] \in approved[t]

\* PinsNeedRecords: a pin is only a baseline; while its definition is not approved, a record
\* in the quarantine file says so, whatever failed between the two files.
PinsNeedRecords ==
    \A t \in Tools \ overruled : LoadPins.at[t] \in {0} \cup approved[t] \/ t \in Blocked(quar)

\* StoresOK: the stores are well formed and agree with each other.
StoresOK == TypeOK /\ PinsNeedRecords

\* OnlyReleaseUnblocks: a record leaves the quarantine file only when the user releases it, as
\* it was shown.
OnlyReleaseUnblocks ==
    [][\A t \in Blocked(quar) \ Blocked(quar') :
          desk.pc = "remove" /\ desk.tool = t /\ desk.rec = quar[t]]_vars

\* ReleasedComesBack: a gateway that hides a tool without a record, alone or with the whole
\* catalog, comes to hide none, by showing it or because a gate records it; or it ends.
HidesWithoutRecord(g) == live[g].built /\ (live[g].closed \/ ~(live[g].hidden \subseteq Blocked(quar)))
ReleasedComesBack == \A g \in Gateways : HidesWithoutRecord(g) ~> ~HidesWithoutRecord(g)
=============================================================================
