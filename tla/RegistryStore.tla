---------------------------- MODULE RegistryStore ----------------------------
(***************************************************************************)
(* The registry file (registry.rs): locked load-modify-save by processes   *)
(* of different builds, the backups a save leaves behind, the recovery     *)
(* from them, and a gateway that reloads the file when its time changes    *)
(* (watch_tick of the gateway).                                            *)
(*                                                                         *)
(* A document is its schema version and the set of edits it contains; an   *)
(* edit is the number of the update that made it.  The cross-process lock  *)
(* is held from the load to the end of the save, so that there is at most  *)
(* one operation, op, and what may happen between its writes is a crash, a *)
(* failed write or a change of the file's readability.                     *)
(***************************************************************************)
EXTENDS Naturals, FiniteSets, FiniteSetsExt

CONSTANTS Writers,     \* processes that update the registry
          Gateway,     \* the process that watches it
          Build,       \* the schema version each process was built for
          Junks,       \* contents that do not parse
          Absent,
          BACKUP_GENERATIONS,
          MaxUpdates,  \* bound on updates
          MaxFaults    \* bound on failed writes, crashes, damage and file times that coincide

ASSUME ProcessAssumption ==
    Gateway \notin Writers /\ Build \in [Writers \cup {Gateway} -> Nat \ {0}]
ASSUME BoundAssumption ==
    BACKUP_GENERATIONS \in Nat \ {0} /\ {MaxUpdates, MaxFaults} \subseteq Nat \ {0}

VARIABLES primary, readable, stamp,  \* registry.json, and its modification time
          blurred,    \* history: that time is one the gateway has loaded other contents of
          bak,        \* the single last-known-good copy and its time
          bakSeq,     \* its sequence sidecar, 0 if there is none
          gens,       \* the rolling journal
          evidence,   \* preserved copies of contents that did not parse
          clock,      \* time passes with every write
          op,         \* what the holder of the lock is doing
          live, trusted,  \* the gateway's registry, and whether it stands for the file
          seen, noticed,  \* the file time it has loaded, and the one it is loading
          updates, faults,
          acked,      \* history: updates that succeeded
          allowance,  \* history: edits that damage and missing or untaken backups may have cost
          skipped,    \* history: saves that only the single backup was made for, while it counts
          passedOver  \* history: a build recovered past a backup of a newer one

files == <<primary, stamp, blurred, bak, bakSeq, gens, evidence, clock>>
watch == <<live, trusted, seen, noticed>>
losses == <<allowance, skipped, passedOver>>
vars == <<files, readable, op, watch, updates, faults, acked, losses>>

Processes == Writers \cup {Gateway}
Edits == 1..MaxUpdates
Versions == {Build[p] : p \in Processes}
Doc == [ver : Versions, edits : SUBSET Edits]
Snapshot == [seq : Nat, time : Nat, doc : Doc \cup {Absent} \cup Junks]

ASSUME NameAssumption == Absent \notin Junks /\ (Junks \cup {Absent}) \cap Doc = {}

Idle == [by |-> Absent, pc |-> "idle", reg |-> Absent, src |-> "none", edit |-> 0, seq |-> 0,
         restore |-> FALSE, missed |-> FALSE]
Op == [by : Processes, reg : Doc \cup {Absent},
       src : {"none", "File", "FirstRun", "Backup", "Unread"},
       pc : {"load", "quarantine", "recover", "migrate", "save", "bak", "seq", "gen", "write"},
       edit : 0..MaxUpdates, seq : Nat, restore : BOOLEAN, missed : BOOLEAN]

TypeOK ==
    /\ primary \in Doc \cup Junks \cup {Absent} /\ readable \in BOOLEAN /\ stamp \in Nat
    /\ blurred \in BOOLEAN
    /\ bak \in Snapshot /\ bakSeq \in Nat /\ evidence \subseteq Junks /\ clock \in Nat
    /\ gens \subseteq Snapshot /\ Cardinality(gens) <= BACKUP_GENERATIONS
    /\ op \in Op \cup {Idle}
    /\ live \subseteq Edits /\ trusted \in BOOLEAN /\ seen \in Nat /\ noticed \in Nat \cup {Absent}
    /\ updates \in 0..MaxUpdates /\ faults \in 0..MaxFaults
    /\ acked \subseteq Edits /\ allowance \in Nat /\ skipped \in Nat /\ passedOver \in BOOLEAN

Init ==
    /\ primary = Absent /\ readable = TRUE /\ stamp = 0 /\ blurred = FALSE
    /\ bak = [seq |-> 0, time |-> 0, doc |-> Absent] /\ bakSeq = 0 /\ gens = {} /\ evidence = {}
    /\ clock = 1 /\ op = Idle
    /\ live = {} /\ trusted = TRUE /\ seen = 0 /\ noticed = Absent
    /\ updates = 0 /\ faults = 0
    /\ acked = {} /\ allowance = 0 /\ skipped = 0 /\ passedOver = FALSE

-----------------------------------------------------------------------------
(* The end of an operation.                                                *)

Fault == faults < MaxFaults /\ faults' = faults + 1
NoFault == UNCHANGED faults
FaultIf(upset) == IF upset THEN Fault ELSE NoFault
Upgraded(doc) == [doc EXCEPT !.ver = Build[op.by]]

\* (Mutated: the time of the file is taken for loaded although the load failed.)
FailAdvancing ==
    /\ op' = Idle /\ noticed' = IF op.by = Gateway THEN Absent ELSE noticed
    /\ seen' = IF op.by = Gateway THEN noticed ELSE seen
    /\ UNCHANGED <<live, trusted, acked>>

\* The operation returns an error; the gateway tries again at a later tick.
Fail ==
    /\ op' = Idle /\ noticed' = IF op.by = Gateway THEN Absent ELSE noticed
    /\ UNCHANGED <<live, trusted, seen, acked>>

\* The registry is loaded: an update goes on to its change, the gateway publishes.
Loaded(doc, src) ==
    IF op.by = Gateway
    THEN /\ op' = Idle /\ seen' = noticed /\ noticed' = Absent
         /\ live' = doc.edits /\ trusted' = (src \in {"File", "FirstRun"})
         /\ UNCHANGED acked
    ELSE /\ op' = [op EXCEPT !.pc = "save", !.src = src,
                             !.reg = [doc EXCEPT !.edits = @ \cup {op.edit}]]
         /\ UNCHANGED <<watch, acked>>

\* A save is done: that of a migration belongs to the load.
Saved ==
    IF op.src = "none"
    THEN Loaded(op.reg, "File")
    ELSE op' = Idle /\ acked' = acked \cup {op.edit} /\ UNCHANGED watch

Become(next) == op' = next /\ UNCHANGED <<watch, acked>>
Goto(pc) == Become([op EXCEPT !.pc = pc])

-----------------------------------------------------------------------------
(* Loading: load_from_inner.                                               *)

\* update_at: the lock is taken.
Update(p) ==
    /\ op = Idle /\ updates < MaxUpdates
    /\ updates' = updates + 1
    /\ op' = [Idle EXCEPT !.by = p, !.pc = "load", !.edit = updates + 1]
    /\ UNCHANGED <<files, readable, watch, faults, acked, losses>>

Load ==
    /\ op.pc = "load"
    /\ \/ ~readable /\ Become([op EXCEPT !.pc = "recover", !.src = "Unread"])
       \/ readable /\ primary = Absent /\ Become([op EXCEPT !.pc = "recover", !.restore = TRUE])
       \/ readable /\ primary \in Junks /\ Goto("quarantine")
       \/ readable /\ primary \in Doc /\ primary.ver > Build[op.by] /\ Fail
       \/ readable /\ primary \in Doc /\ primary.ver < Build[op.by] /\ Goto("migrate")
       \/ readable /\ primary \in Doc /\ primary.ver = Build[op.by] /\ Loaded(primary, "File")
    /\ UNCHANGED <<files, readable, updates, faults, losses>>

\* The original is copied aside, or the migration does not begin.
Migrate ==
    /\ op.pc = "migrate"
    /\ \/ NoFault /\ Become([op EXCEPT !.pc = "save", !.reg = Upgraded(primary)])
       \/ Fault /\ Fail
    /\ UNCHANGED <<files, readable, updates, losses>>

\* quarantine_unreadable: a copy named after the contents is left beside the file.
Preserve == evidence' = evidence \cup {primary}

\* corrupt_registry: only contents that could be preserved may be replaced.
Quarantine ==
    /\ op.pc = "quarantine"
    /\ \/ /\ NoFault /\ Preserve
          /\ Become([op EXCEPT !.pc = "recover", !.restore = TRUE])
       \/ Fault /\ UNCHANGED evidence /\ Goto("recover")
    /\ UNCHANGED <<primary, stamp, blurred, bak, bakSeq, gens, clock>>
    /\ UNCHANGED <<readable, updates, losses>>

\* load_from_backup: by sequence, and by time while the single backup has none.
Copies == gens \cup {bak}
Newer(s, t) ==
    IF s # bak /\ t # bak THEN s.seq > t.seq
    ELSE IF bakSeq # 0
    THEN IF s = bak THEN bakSeq >= t.seq ELSE s.seq > bakSeq
    ELSE IF s = bak THEN s.time > t.time ELSE s.time >= t.time

\* (Mutated: the single backup is tried first, whatever its age.)
SingleFirst(copies) ==
    IF bak \in copies THEN bak ELSE CHOOSE s \in copies : \A t \in copies \ {s} : Newer(s, t)

\* The order in which the copies are tried.
Newest(copies) == CHOOSE s \in copies : \A t \in copies \ {s} : Newer(s, t)
Readable == {s \in Copies : s.doc \in Doc}
Usable == {s \in Readable : s.doc.ver <= Build[op.by]}

\* The file is replaced.  Its time is a new one or, where times are coarse, still the one the
\* gateway has just loaded.
Overwrite(doc, upset) ==
    /\ primary' = doc /\ clock' = clock + 1
    /\ \/ stamp' = clock /\ blurred' = FALSE /\ FaultIf(upset)
       \/ stamp \in {0, seen'} /\ seen' # 0 /\ stamp' = seen' /\ blurred' = TRUE /\ Fault

\* The backup is loaded, and best-effort put in the place of a file that may be replaced.
Restored(doc, upset) ==
    /\ Loaded(Upgraded(doc), IF op.src = "Unread" THEN "Unread" ELSE "Backup")
    /\ \/ op.restore /\ Overwrite(Upgraded(doc), upset)
       \/ op.restore /\ Fault /\ UNCHANGED <<primary, stamp, blurred, clock>>
       \/ ~op.restore /\ FaultIf(upset) /\ UNCHANGED <<primary, stamp, blurred, clock>>

\* A copy is passed over if it is older and cannot be copied aside or migrated; the single
\* backup without a sequence also in favour of a generation that has the same coarse time.
Older(s) == s.doc.ver < Build[op.by]
PassedFor(s) == {t \in Usable \ {s} : Newer(t, s)}

\* What the first copy holds and the one that is taken does not is lost.
Best == IF Usable = {} THEN {} ELSE Newest(Usable).doc.edits
Forgo(edits) == allowance' = allowance + Cardinality(Best \ edits)

Recover ==
    /\ op.pc = "recover"
    /\ passedOver' = (passedOver \/ (Readable # {} /\ Newest(Readable) \notin Usable))
    /\ \/ /\ \A s \in Usable : Older(s)
          /\ FaultIf(Usable # {}) /\ UNCHANGED <<primary, stamp, blurred, clock>>
          /\ \/ /\ op.restore /\ primary = Absent
                /\ Loaded([ver |-> Build[op.by], edits |-> {}], "FirstRun") /\ Forgo({})
             \/ ~(op.restore /\ primary = Absent) /\ Fail /\ UNCHANGED allowance
       \/ \E s \in Usable :
             /\ \A t \in PassedFor(s) : Older(t) \/ (t = bak /\ bakSeq = 0)
             /\ Restored(s.doc, PassedFor(s) # {}) /\ Forgo(s.doc.edits)
    /\ UNCHANGED <<bak, bakSeq, gens, evidence, readable, updates, skipped>>

\* update_authoritative takes nothing that came from a backup.
RefuseBackup ==
    /\ op.pc = "save" /\ op.src \in {"Backup", "Unread"} /\ Fail
    /\ UNCHANGED <<files, readable, updates, faults, losses>>

-----------------------------------------------------------------------------
(* Saving: write_registry_document.                                        *)

NextSequence == Max({clock} \cup {s.seq + 1 : s \in gens})

\* (Mutated: the version of the file is not looked at again.)
SaveAnyVersion ==
    /\ op.pc = "save"
    /\ allowance' = allowance + (IF op.src = "Unread" /\ readable /\ primary \in Doc THEN 1 ELSE 0)
    /\ \/ ~readable /\ Fail /\ NoFault /\ UNCHANGED evidence
       \/ readable /\ primary = Absent /\ Goto("write") /\ NoFault /\ UNCHANGED evidence
       \/ /\ readable /\ primary \in Junks
          /\ \/ NoFault /\ Preserve /\ Goto("write")
             \/ Fault /\ Fail /\ UNCHANGED evidence
       \/ /\ readable /\ primary \in Doc /\ NoFault /\ UNCHANGED evidence
          /\ IF primary = op.reg THEN Saved
             ELSE Become([op EXCEPT !.pc = "bak", !.seq = NextSequence, !.missed = FALSE])
    /\ UNCHANGED <<primary, stamp, blurred, bak, bakSeq, gens, clock>>
    /\ UNCHANGED <<readable, updates, skipped, passedOver>>

\* A save on a copy from a backup can meet the file the load could not read.
Save ==
    /\ op.pc = "save"
    /\ allowance' = allowance + (IF op.src = "Unread" /\ readable /\ primary \in Doc THEN 1 ELSE 0)
    /\ \/ ~readable /\ Fail /\ NoFault /\ UNCHANGED evidence
       \/ readable /\ primary = Absent /\ Goto("write") /\ NoFault /\ UNCHANGED evidence
       \/ /\ readable /\ primary \in Junks
          /\ \/ NoFault /\ Preserve /\ Goto("write")
             \/ Fault /\ Fail /\ UNCHANGED evidence
       \/ /\ readable /\ primary \in Doc /\ NoFault /\ UNCHANGED evidence
          /\ \/ primary.ver > Build[op.by] /\ Fail
             \/ primary = op.reg /\ Saved
             \/ /\ primary.ver <= Build[op.by] /\ primary # op.reg
                /\ Become([op EXCEPT !.pc = "bak", !.seq = NextSequence, !.missed = FALSE])
    /\ UNCHANGED <<primary, stamp, blurred, bak, bakSeq, gens, clock>>
    /\ UNCHANGED <<readable, updates, skipped, passedOver>>

Copy == [seq |-> op.seq, time |-> clock, doc |-> primary]

WriteBak ==
    /\ op.pc = "bak"
    /\ \/ NoFault /\ bak' = [Copy EXCEPT !.seq = 0] /\ Goto("seq")
       \/ Fault /\ UNCHANGED bak /\ Become([op EXCEPT !.pc = "gen", !.missed = TRUE])
    /\ clock' = clock + 1
    /\ UNCHANGED <<primary, stamp, blurred, bakSeq, gens, evidence, readable, updates, losses>>

WriteSequence ==
    /\ op.pc = "seq"
    /\ \/ NoFault /\ bakSeq' = op.seq
       \/ Fault /\ bakSeq' = 0
    /\ Goto("gen")
    /\ UNCHANGED <<primary, stamp, blurred, bak, gens, evidence, clock>>
    /\ UNCHANGED <<readable, updates, losses>>

\* The journal keeps its newest generations.
Pruned(copies) ==
    {s \in copies : Cardinality({t \in copies : t.seq > s.seq}) < BACKUP_GENERATIONS}

WriteGeneration ==
    /\ op.pc = "gen"
    /\ \/ NoFault /\ gens' = Pruned(gens \cup {Copy}) /\ UNCHANGED <<allowance, skipped>>
       \/ Fault /\ UNCHANGED gens /\ op.missed /\ allowance' = allowance + 1 /\ UNCHANGED skipped
       \/ Fault /\ UNCHANGED gens /\ ~op.missed /\ skipped' = skipped + 1 /\ UNCHANGED allowance
    /\ Goto("write") /\ clock' = clock + 1
    /\ UNCHANGED <<primary, stamp, blurred, bak, bakSeq, evidence, readable, updates, passedOver>>

WritePrimary ==
    /\ op.pc = "write"
    /\ \/ Saved /\ Overwrite(op.reg, FALSE)
       \/ Fault /\ Fail /\ UNCHANGED <<primary, stamp, blurred, clock>>
    /\ UNCHANGED <<bak, bakSeq, gens, evidence, readable, updates, losses>>

\* The process ends; the operating system drops its lock.
Crash ==
    /\ op # Idle /\ op.by # Gateway /\ Fault /\ op' = Idle
    /\ UNCHANGED <<files, readable, watch, updates, acked, losses>>

-----------------------------------------------------------------------------
(* The gateway and the outside world.                                      *)

Notice ==
    /\ noticed = Absent /\ stamp # seen
    /\ noticed' = stamp
    /\ UNCHANGED <<files, readable, op, live, trusted, seen>>
    /\ UNCHANGED <<updates, faults, acked, losses>>

Reload ==
    /\ noticed # Absent /\ op = Idle
    /\ op' = [Idle EXCEPT !.by = Gateway, !.pc = "load"]
    /\ UNCHANGED <<files, readable, watch, updates, faults, acked, losses>>

\* The journal has to do without the best copy, and with the generations it has.
JournalOnly == allowance' = allowance + 1 + skipped /\ skipped' = 0

\* Between operations a file is deleted or overwritten by something else.
Damage ==
    /\ op = Idle /\ readable /\ Fault
    /\ \/ /\ primary \in Doc /\ primary' \in Junks \cup {Absent}
          /\ stamp' = (IF primary' = Absent THEN 0 ELSE clock)
          /\ blurred' = FALSE /\ clock' = clock + 1
          /\ allowance' = allowance + 1 /\ UNCHANGED <<bak, skipped>>
       \/ /\ bak.doc \in Doc /\ \E j \in Junks : bak' = [bak EXCEPT !.doc = j]
          /\ JournalOnly /\ UNCHANGED <<primary, stamp, blurred, clock>>
    /\ UNCHANGED <<bakSeq, gens, evidence, readable, op, watch, updates, acked, passedOver>>

\* The file cannot be read for a while.
Blink ==
    /\ IF readable THEN primary # Absent /\ Fault ELSE NoFault
    /\ readable' = ~readable
    /\ UNCHANGED <<files, op, watch, updates, acked, losses>>

OpStep == \/ Load \/ Migrate \/ Quarantine \/ Recover \/ RefuseBackup
          \/ Save \/ WriteBak \/ WriteSequence \/ WriteGeneration \/ WritePrimary

Next ==
    \/ \E p \in Writers : Update(p)
    \/ OpStep \/ Crash \/ Notice \/ Reload \/ Damage \/ Blink

Fairness == WF_vars(OpStep) /\ WF_vars(Notice) /\ SF_vars(Reload)

Spec == Init /\ [][Next]_vars /\ Fairness

-----------------------------------------------------------------------------
(* Properties.                                                             *)

\* EditsKept: the file holds every update that succeeded, except one for each loss of a file,
\* each save that could write neither backup, and each save of a copy read from a backup while
\* the file could not be read.  When the single backup is lost, the saves whose generation could
\* not be written count too: the journal does not have them.  When a recovery passes over the
\* first copy, or all of them, what it then lacks counts.  An older build that recovers past a
\* newer backup is excused.
EditsKept ==
    passedOver \/ primary \notin Doc \/ Cardinality(acked \ primary.edits) <= allowance

\* StoreOK: file, backups and journal are well formed and no update is lost.
StoreOK == TypeOK /\ EditsKept

\* ForeignKept: an operation overwrites only what its build understands: contents that do not
\* parse once they are preserved, and never the file of a newer build, whatever it loaded.
ForeignKept ==
    [][op # Idle /\ primary # Absent /\ primary' # primary =>
          IF primary \in Junks THEN primary \in evidence
          ELSE primary.ver <= Build[op.by]]_vars

\* GatewayCatchesUp: again and again the gateway has what the file says, or knows that it has
\* not.  Two cases are left out, in which it keeps what it had and takes it for the file: a file
\* of a newer build, which no reload accepts, and a write with the time of the contents it has.
Acceptable == primary \in Doc /\ primary.ver <= Build[Gateway]
InStep == ~Acceptable \/ ~readable \/ ~trusted \/ blurred \/ live = primary.edits
GatewayCatchesUp == []<>InStep
=============================================================================
