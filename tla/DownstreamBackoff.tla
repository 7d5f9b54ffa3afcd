------------------------- MODULE DownstreamBackoff -------------------------
(***************************************************************************)
(* Shared 429 backoff (downstream_backoff.rs): gateway processes record,   *)
(* per provider origin, the time before which it should be left alone, in  *)
(* memory and in a file.  A record reads, merges and replaces the file     *)
(* under a lock; a consult reads it without.  An absent entry is zero, and *)
(* a missing or corrupt file reads as an empty one everywhere.             *)
(***************************************************************************)
EXTENDS Naturals

CONSTANTS Procs, Origins, None,
          Cap,           \* HTTP_RETRY_CAP
          Delays,        \* what a Retry-After can ask for
          FileEdits,         \* deadlines somebody can write into the file
          MaxTime        \* bound: the last moment of the model

ASSUME TimeAssumption ==
  /\ Cap \in Nat \ {0} /\ Delays \subseteq Nat
  /\ MaxTime \in Nat /\ FileEdits \subseteq 0..(MaxTime + Cap)
ASSUME NoneAssumption == None \notin Nat

VARIABLES now,       \* now_ms
          real,      \* time as it really passes
          bound,     \* BackoffState::path is set
          mem,       \* BackoffState::not_before
          disk,      \* downstream_backoff.json
          read,      \* what a recorder read from the file, whose lock it holds
          since,     \* when each provider last said 429, in real time
          promised,  \* the latest deadline saved for each provider
          edited     \* somebody has written a deadline into the file

backoffVars == <<now, real, bound, mem, disk, read, since, promised, edited>>
histVars == <<since, promised, edited>>

Zero == [o \in Origins |-> 0]
Later(a, b) == IF a < b THEN b ELSE a

BackoffInit ==
  /\ now = 0 /\ real = 0
  /\ bound = [p \in Procs |-> FALSE] /\ mem = [p \in Procs |-> Zero]
  /\ disk = Zero /\ read = [p \in Procs |-> None]
  /\ since = Zero /\ promised = Zero /\ edited = FALSE

-----------------------------------------------------------------------------
merge_max(kept, incoming) == [o \in Origins |-> Later(kept[o], incoming[o])]

\* (Mutated: nothing is cut.)
SanitizeUncapped(file) == [o \in Origins |-> IF file[o] <= now THEN 0 ELSE file[o]]

\* Elapsed deadlines go, and the others are cut to one full window.
sanitize(file) ==
  [o \in Origins |-> IF file[o] <= now THEN 0
                     ELSE IF file[o] > now + Cap THEN now + Cap ELSE file[o]]

\* bind_data_dir: the first bind wins.
Bind(p) ==
  /\ ~bound[p] /\ read[p] = None
  /\ bound' = [bound EXCEPT ![p] = TRUE]
  /\ mem' = [mem EXCEPT ![p] = merge_max(@, sanitize(disk))]
  /\ UNCHANGED <<now, real, disk, read, histVars>>

\* record_rate_limited: the window is as long as the provider asked for, at
\* most Cap, and Cap if it did not say.
Wait(delay) == IF delay = None \/ delay > Cap THEN Cap ELSE delay

\* (Mutated: the file is rewritten without its lock.)
LockUnneeded == TRUE
LockFree == \A p \in Procs : read[p] = None

\* In memory at once; then the file is read under its lock, unless the process
\* has no file or does not get the lock in time.
RecordRead(p, o, delay) ==
  /\ read[p] = None
  /\ mem' = [mem EXCEPT ![p][o] = Later(@, now + Wait(delay))]
  /\ since' = [since EXCEPT ![o] = real]
  /\ \/ bound[p] /\ LockFree /\ read' = [read EXCEPT ![p] = disk]
     \/ (~bound[p] \/ ~LockFree) /\ UNCHANGED read
  /\ UNCHANGED <<now, real, bound, disk, promised, edited>>

\* The merged windows replace the file, or saving fails.
RecordSave(p) ==
  /\ read[p] # None
  /\ LET merged == sanitize(merge_max(read[p], mem[p]))
     IN  \/ /\ disk' = merged /\ mem' = [mem EXCEPT ![p] = merged]
            /\ promised' = merge_max(promised, merged)
         \/ UNCHANGED <<disk, mem, promised>>
  /\ read' = [read EXCEPT ![p] = None]
  /\ UNCHANGED <<now, real, bound, since, edited>>

\* remaining_for_url: merges the file's windows and says whether one is open.
Consulted(p) == IF bound[p] THEN merge_max(mem[p], sanitize(disk)) ELSE mem[p]
Parked(p, o) == Consulted(p)[o] > now

Consult(p) ==
  /\ read[p] = None
  /\ mem' = [mem EXCEPT ![p] = Consulted(p)]
  /\ UNCHANGED <<now, real, bound, disk, read, histVars>>

-----------------------------------------------------------------------------
(* The environment.                                                        *)
Tick ==
  /\ real < MaxTime /\ real' = real + 1 /\ now' = now + 1
  /\ UNCHANGED <<bound, mem, disk, read, histVars>>

StepBack ==
  /\ now' \in 0..(now - 1)
  /\ UNCHANGED <<real, bound, mem, disk, read, histVars>>

\* Somebody writes a deadline into the file, and what it said is gone.
Edit(o) ==
  /\ LockFree
  /\ \E t \in FileEdits : disk' = [disk EXCEPT ![o] = t]
  /\ promised' = [promised EXCEPT ![o] = 0] /\ edited' = TRUE
  /\ UNCHANGED <<now, real, bound, mem, read, since>>

\* The file is removed or damaged: what it said is gone.
FileLost ==
  /\ disk # Zero /\ LockFree
  /\ disk' = Zero /\ promised' = Zero
  /\ UNCHANGED <<now, real, bound, mem, read, since, edited>>

\* A process ends, holding the lock or not, and another one starts.
Restart(p) ==
  /\ bound' = [bound EXCEPT ![p] = FALSE] /\ mem' = [mem EXCEPT ![p] = Zero]
  /\ read' = [read EXCEPT ![p] = None]
  /\ UNCHANGED <<now, real, disk, histVars>>

ProcStep(p) ==
  \/ Bind(p) \/ RecordSave(p) \/ Consult(p) \/ Restart(p)
  \/ \E o \in Origins, d \in Delays \cup {None} : RecordRead(p, o, d)

BackoffNext ==
  \/ Tick \/ StepBack \/ FileLost
  \/ \E o \in Origins : Edit(o)
  \/ \E p \in Procs : ProcStep(p)
BackoffSpec == BackoffInit /\ [][BackoffNext]_backoffVars

-----------------------------------------------------------------------------
(* Properties.                                                             *)

Deadlines == [Origins -> 0..(MaxTime + Cap)]
\* Every variable has its type; no deadline lies further than Cap past a 429.
BackoffTypeOK ==
  /\ now \in 0..MaxTime /\ real \in 0..MaxTime
  /\ bound \in [Procs -> BOOLEAN] /\ mem \in [Procs -> Deadlines]
  /\ disk \in Deadlines /\ read \in [Procs -> Deadlines \cup {None}]
  /\ since \in Deadlines /\ promised \in Deadlines /\ edited \in BOOLEAN

\* A window one process saved makes every bound process fail fast until it
\* has passed, whatever the others record meanwhile and whatever is edited for
\* other providers, as long as the clock has not been set back.
FailsFast ==
  now = real => \A p \in Procs, o \in Origins : bound[p] /\ promised[o] > now => Parked(p, o)

\* While nobody edits the file, a provider is left alone at most until the
\* clock shows one window past its last 429.  A clock set back therefore adds to
\* the wait what it was set back by, and no more.
ParkedAtMostCap ==
  ~edited => \A p \in Procs, o \in Origins : Parked(p, o) => now < since[o] + Cap

\* Whatever is written into the file, no process takes over a deadline that
\* lies more than one window ahead of the latest time its clock has shown.
MemoryCapped == \A p \in Procs, o \in Origins : mem[p][o] <= real + Cap

\* Neither what a provider asks for, nor a merge with the file, nor an edit of
\* it puts a window longer than Cap into a process.  Memory is not cut again
\* when the clock is set back: then the window is longer by that much.
WindowsCapped == BackoffTypeOK /\ ParkedAtMostCap /\ MemoryCapped
=============================================================================
