---------------------------- MODULE FilesProofs ----------------------------
(***************************************************************************)
(* Theorems about the files that processes share: the back-off file, for   *)
(* any number of processes and providers, any cap, any Retry-After and any *)
(* edit of the file; the registry with its backups, for any processes and  *)
(* builds, any number of generations, and any number of updates, failed    *)
(* writes, crashes and losses of files; and the child ledgers, for any     *)
(* number of gateways, servers, other programs and process numbers.        *)
(***************************************************************************)
EXTENDS DownstreamBackoff, RegistryStore, ChildLedger, FiniteSetTheorems, TLAPS

(* The back-off file: the inductive invariant, in parts.                   *)

\* The clock runs with real time, or behind it once somebody set it back.
ClockBehind == now <= real

\* Who holds the file's lock holds it alone, and what it read is the file.
ReadIsFresh ==
  /\ \A p, q \in Procs : read[p] # None /\ read[q] # None => p = q
  /\ \A p \in Procs : read[p] # None => read[p] = disk

\* No copy of a window reaches further than Cap past the provider's last 429.
WindowsFollow429 ==
  ~edited => \A o \in Origins :
               /\ disk[o] <= since[o] + Cap
               /\ \A p \in Procs : mem[p][o] <= since[o] + Cap

\* A saved window that is still open is in the file, and no 429 of the past
\* promised more than Cap.
SavedStands ==
  /\ \A o \in Origins : promised[o] <= real + Cap
  /\ now = real => \A o \in Origins : promised[o] > now => disk[o] >= promised[o]

\* No provider has said 429 in the future.
Past429 == \A o \in Origins : since[o] <= real

BackoffInv ==
  /\ BackoffTypeOK /\ ClockBehind /\ MemoryCapped
  /\ ReadIsFresh /\ WindowsFollow429 /\ SavedStands /\ Past429

-----------------------------------------------------------------------------
(* The operators on deadlines.                                             *)

\* Wait: a 429 opens a window of at most Cap, whatever the provider asked for.
LEMMA WaitFacts ==
  ASSUME NEW d \in Delays \cup {None}
  PROVE  Wait(d) \in 0..Cap
BY TimeAssumption, NoneAssumption, SMT DEF Wait

\* merge_max keeps the later deadline of the two.
LEMMA MergeFacts ==
  ASSUME NEW f \in Deadlines, NEW g \in Deadlines
  PROVE  /\ merge_max(f, g) \in Deadlines
         /\ \A o \in Origins : /\ merge_max(f, g)[o] \in {f[o], g[o]}
                               /\ merge_max(f, g)[o] >= f[o] /\ merge_max(f, g)[o] >= g[o]
<1>1. \A o \in Origins : f[o] \in 0..(MaxTime + Cap) /\ g[o] \in 0..(MaxTime + Cap)
  BY DEF Deadlines
<1>2. \A o \in Origins : merge_max(f, g)[o] = IF f[o] < g[o] THEN g[o] ELSE f[o]
  BY DEF merge_max, Later
<1>3. \A o \in Origins : Later(f[o], g[o]) \in 0..(MaxTime + Cap)
  BY <1>1 DEF Later
<1>4. merge_max(f, g) \in Deadlines
  BY <1>3 DEF merge_max, Deadlines
<1> QED
  BY <1>1, <1>2, <1>4, TimeAssumption

\* sanitize never lengthens a window, leaves at most Cap of it, drops only what
\* has passed and cuts only what is longer than a 429 can ask for.
LEMMA SanitizeFacts ==
  ASSUME NEW f \in Deadlines, now \in 0..MaxTime
  PROVE  /\ sanitize(f) \in Deadlines
         /\ \A o \in Origins : /\ sanitize(f)[o] <= f[o] /\ sanitize(f)[o] <= now + Cap
                               /\ f[o] > now => sanitize(f)[o] > now
                               /\ f[o] > now => sanitize(f)[o] \in {f[o], now + Cap}
<1>1. \A o \in Origins : f[o] \in 0..(MaxTime + Cap)
  BY DEF Deadlines
<1>2. \A o \in Origins : sanitize(f)[o] = IF f[o] <= now THEN 0
                                         ELSE IF f[o] > now + Cap THEN now + Cap ELSE f[o]
  BY DEF sanitize
<1>3. \A o \in Origins : sanitize(f)[o] \in 0..(MaxTime + Cap)
  BY <1>1, <1>2, TimeAssumption
<1>4. sanitize(f) \in Deadlines
  BY <1>3 DEF sanitize, Deadlines
<1> QED
  BY <1>1, <1>2, <1>4, TimeAssumption

-----------------------------------------------------------------------------
(* Every operation keeps the invariant.                                    *)

\* The empty file is a file.
LEMMA ZeroFacts == Zero \in Deadlines /\ \A o \in Origins : Zero[o] = 0
BY TimeAssumption DEF Zero, Deadlines

\* At the start nothing is remembered anywhere.
LEMMA BackoffInitInv == BackoffInit => BackoffInv
<1> SUFFICES ASSUME BackoffInit PROVE BackoffInv
  OBVIOUS
<1>1. BackoffTypeOK
  <2>1. edited \in BOOLEAN BY Zenon DEF BackoffInit
  <2> QED BY <2>1, ZeroFacts, TimeAssumption DEF BackoffInit, BackoffTypeOK
<1>2. ClockBehind /\ ReadIsFresh
  BY DEF BackoffInit, ClockBehind, ReadIsFresh
<1>3. MemoryCapped /\ WindowsFollow429 /\ SavedStands
  BY ZeroFacts, TimeAssumption DEF BackoffInit, MemoryCapped, WindowsFollow429, SavedStands
<1>4. Past429
  BY ZeroFacts DEF BackoffInit, Past429
<1> QED
  BY <1>1, <1>2, <1>3, <1>4 DEF BackoffInv

\* A step that only gives a process deadlines within the window keeps the invariant:
\* what bind_data_dir and remaining_for_url do.
LEMMA TakeOver ==
  ASSUME BackoffInv, NEW p \in Procs, NEW new \in Deadlines,
         bound' \in [Procs -> BOOLEAN], mem' = [mem EXCEPT ![p] = new],
         \A o \in Origins : new[o] <= real + Cap /\ (new[o] <= mem[p][o] \/ new[o] <= disk[o]),
         UNCHANGED <<now, real, disk, read, histVars>>
  PROVE  BackoffInv'
<1>1. BackoffTypeOK'
  BY DEF BackoffInv, BackoffTypeOK, histVars
<1>2. \A q \in Procs : mem'[q] = IF q = p THEN new ELSE mem[q]
  BY DEF BackoffInv, BackoffTypeOK
<1>3. ClockBehind' /\ ReadIsFresh' /\ SavedStands' /\ Past429'
  BY DEF BackoffInv, ClockBehind, ReadIsFresh, SavedStands, Past429, histVars
<1>4. MemoryCapped'
  BY <1>2 DEF BackoffInv, MemoryCapped
<1>5. WindowsFollow429'
  <2> SUFFICES ASSUME ~edited, NEW o \in Origins, NEW q \in Procs
               PROVE  mem'[q][o] <= since[o] + Cap
    BY DEF BackoffInv, WindowsFollow429, histVars
  <2>1. /\ mem[q][o] \in Nat /\ mem[p][o] \in Nat /\ disk[o] \in Nat /\ new[o] \in Nat
        /\ since[o] \in Nat
    BY DEF BackoffInv, BackoffTypeOK, Deadlines
  <2>2. mem[q][o] <= since[o] + Cap /\ mem[p][o] <= since[o] + Cap /\ disk[o] <= since[o] + Cap
    BY DEF BackoffInv, WindowsFollow429
  <2> QED
    BY <1>2, <2>1, <2>2, TimeAssumption
<1> QED
  BY <1>1, <1>3, <1>4, <1>5 DEF BackoffInv

\* What a bound process learns from the file is within the window.
LEMMA MergedWithFile ==
  ASSUME BackoffInv, NEW p \in Procs
  PROVE  LET new == merge_max(mem[p], sanitize(disk))
         IN  /\ new \in Deadlines
             /\ \A o \in Origins :
                  new[o] <= real + Cap /\ (new[o] <= mem[p][o] \/ new[o] <= disk[o])
<1> DEFINE clean == sanitize(disk)
           new == merge_max(mem[p], clean)
<1>1. now \in 0..MaxTime /\ real \in 0..MaxTime /\ now <= real /\ mem[p] \in Deadlines
      /\ disk \in Deadlines
  BY DEF BackoffInv, BackoffTypeOK, ClockBehind
<1>2. clean \in Deadlines /\ \A o \in Origins : clean[o] <= disk[o] /\ clean[o] <= now + Cap
  BY <1>1, SanitizeFacts
<1> HIDE DEF clean
<1>3. new \in Deadlines /\ \A o \in Origins : new[o] \in {mem[p][o], clean[o]}
  BY <1>1, <1>2, MergeFacts
<1>4. \A o \in Origins : mem[p][o] <= real + Cap
  BY DEF BackoffInv, MemoryCapped
<1>5. \A o \in Origins : mem[p][o] \in Nat /\ clean[o] \in Nat /\ disk[o] \in Nat
  BY <1>1, <1>2 DEF Deadlines
<1> HIDE DEF new
<1>6. \A o \in Origins : new[o] <= real + Cap /\ (new[o] <= mem[p][o] \/ new[o] <= disk[o])
  BY <1>1, <1>2, <1>3, <1>4, <1>5, TimeAssumption
<1> QED
  BY <1>3, <1>6 DEF new, clean

\* bind_data_dir takes over the file's windows, cut to Cap.
LEMMA BindInv ==
  ASSUME BackoffInv, NEW p \in Procs, Bind(p)
  PROVE  BackoffInv'
<1>1. mem[p] \in Deadlines /\ bound' \in [Procs -> BOOLEAN]
      /\ mem' = [mem EXCEPT ![p] = merge_max(mem[p], sanitize(disk))]
  BY DEF Bind, BackoffInv, BackoffTypeOK
<1>2. UNCHANGED <<now, real, disk, read, histVars>>
  BY DEF Bind
<1> QED
  BY <1>1, <1>2, MergedWithFile, TakeOver

\* So does remaining_for_url, whenever it is asked.
LEMMA ConsultInv ==
  ASSUME BackoffInv, NEW p \in Procs, Consult(p)
  PROVE  BackoffInv'
<1>1. mem[p] \in Deadlines /\ bound' \in [Procs -> BOOLEAN]
      /\ mem' = [mem EXCEPT ![p] = Consulted(p)]
      /\ UNCHANGED <<now, real, disk, read, histVars>>
  BY DEF Consult, BackoffInv, BackoffTypeOK
<1>2. CASE bound[p]
  <2>1. Consulted(p) = merge_max(mem[p], sanitize(disk))
    BY <1>2 DEF Consulted
  <2> QED
    BY <1>1, <2>1, MergedWithFile, TakeOver
<1>3. CASE ~bound[p]
  <2>1. Consulted(p) = mem[p]
    BY <1>3 DEF Consulted
  <2>2. \A o \in Origins : mem[p][o] <= real + Cap /\ mem[p][o] \in Nat
    BY <1>1 DEF BackoffInv, MemoryCapped, Deadlines
  <2>3. \A o \in Origins : mem[p][o] <= mem[p][o]
    BY <2>2
  <2> QED
    BY <1>1, <2>1, <2>2, <2>3, TakeOver
<1> QED
  BY <1>2, <1>3

\* record_rate_limited's window starts now, and now is when the provider said 429.
LEMMA RecordReadInv ==
  ASSUME BackoffInv, NEW p \in Procs, NEW o \in Origins, NEW d \in Delays \cup {None},
         RecordRead(p, o, d)
  PROVE  BackoffInv'
<1> DEFINE till == Later(mem[p][o], now + Wait(d))
<1>1. /\ now \in 0..MaxTime /\ real \in 0..MaxTime /\ now <= real
      /\ mem \in [Procs -> Deadlines] /\ disk \in Deadlines /\ since \in Deadlines
      /\ read \in [Procs -> Deadlines \cup {None}]
  BY DEF BackoffInv, BackoffTypeOK, ClockBehind
<1>2. mem[p][o] \in 0..(MaxTime + Cap) /\ mem[p][o] <= real + Cap
  BY <1>1 DEF Deadlines, BackoffInv, MemoryCapped
<1>3. now + Wait(d) \in 0..(MaxTime + Cap) /\ now + Wait(d) <= real + Cap
  BY <1>1, WaitFacts, TimeAssumption
<1>4. till \in 0..(MaxTime + Cap) /\ till <= real + Cap /\ till \in {mem[p][o], now + Wait(d)}
  BY <1>2, <1>3 DEF Later
<1>5. mem' = [mem EXCEPT ![p][o] = till] /\ since' = [since EXCEPT ![o] = real]
      /\ UNCHANGED <<now, real, bound, disk, promised, edited>>
  BY DEF RecordRead
<1> HIDE DEF till
<1>6. \A q \in Procs, r \in Origins :
        mem'[q][r] = IF q = p /\ r = o THEN till ELSE mem[q][r]
  BY <1>1, <1>5 DEF Deadlines
<1>7. \A r \in Origins : since'[r] = IF r = o THEN real ELSE since[r]
  BY <1>1, <1>5 DEF Deadlines
<1>8. mem' \in [Procs -> Deadlines] /\ since' \in Deadlines
  <2>1. [mem[p] EXCEPT ![o] = till] \in Deadlines
    BY <1>1, <1>4 DEF Deadlines
  <2>2. mem' = [mem EXCEPT ![p] = [mem[p] EXCEPT ![o] = till]]
    BY <1>1, <1>5
  <2>3. mem' \in [Procs -> Deadlines]
    BY <1>1, <2>1, <2>2
  <2>4. real \in 0..(MaxTime + Cap)
    BY <1>1, TimeAssumption
  <2> QED
    BY <1>1, <1>5, <2>3, <2>4 DEF Deadlines
<1>9. read' \in [Procs -> Deadlines \cup {None}] /\ ReadIsFresh'
  <2>1. CASE bound[p] /\ LockFree /\ read' = [read EXCEPT ![p] = disk]
    <3>1. \A q \in Procs : read'[q] = IF q = p THEN disk ELSE None
      BY <1>1, <2>1 DEF LockFree
    <3> QED
      BY <1>1, <1>5, <2>1, <3>1 DEF ReadIsFresh
  <2>2. CASE UNCHANGED read
    BY <1>1, <1>5, <2>2 DEF BackoffInv, ReadIsFresh
  <2> QED
    BY <2>1, <2>2 DEF RecordRead
<1>10. BackoffTypeOK' /\ ClockBehind'
  BY <1>5, <1>8, <1>9 DEF BackoffInv, BackoffTypeOK, ClockBehind
<1>11. MemoryCapped'
  BY <1>4, <1>5, <1>6 DEF BackoffInv, MemoryCapped
<1>12. WindowsFollow429'
  <2> SUFFICES ASSUME ~edited, NEW r \in Origins
               PROVE  /\ disk[r] <= since'[r] + Cap
                      /\ \A q \in Procs : mem'[q][r] <= since'[r] + Cap
    BY <1>5 DEF WindowsFollow429
  <2>1. /\ since[r] \in Nat /\ disk[r] \in Nat /\ since[r] <= real /\ disk[r] <= since[r] + Cap
        /\ \A q \in Procs : mem[q][r] \in Nat /\ mem[q][r] <= since[r] + Cap
    BY <1>1 DEF BackoffInv, WindowsFollow429, Past429, Deadlines
  <2>2. since'[r] \in {real, since[r]}
    BY <1>7
  <2>3. CASE r = o
    BY <1>1, <1>4, <1>6, <1>7, <2>1, <2>3, TimeAssumption
  <2>4. CASE r # o
    BY <1>6, <1>7, <2>1, <2>4
  <2> QED
    BY <2>3, <2>4
<1>13. SavedStands'
  BY <1>5 DEF BackoffInv, SavedStands
<1>14. Past429'
  BY <1>1, <1>5, <1>7 DEF BackoffInv, Past429
<1> QED
  BY <1>9, <1>10, <1>11, <1>12, <1>13, <1>14 DEF BackoffInv

\* The file a recorder replaces is the one it read, so no saved window is lost.
LEMMA RecordSaveInv ==
  ASSUME BackoffInv, NEW p \in Procs, RecordSave(p)
  PROVE  BackoffInv'
<1>1. /\ now \in 0..MaxTime /\ real \in 0..MaxTime /\ now <= real
      /\ mem \in [Procs -> Deadlines] /\ disk \in Deadlines /\ since \in Deadlines
      /\ promised \in Deadlines /\ read \in [Procs -> Deadlines \cup {None}]
  BY DEF BackoffInv, BackoffTypeOK, ClockBehind
<1>2. read[p] = disk /\ read' = [read EXCEPT ![p] = None] /\ \A q \in Procs : read'[q] = None
  BY <1>1 DEF RecordSave, BackoffInv, ReadIsFresh
<1>3. UNCHANGED <<now, real, bound, since, edited>>
  BY DEF RecordSave
<1>4. read' \in [Procs -> Deadlines \cup {None}] /\ ReadIsFresh'
  BY <1>1, <1>2 DEF ReadIsFresh
<1>5. CASE UNCHANGED <<disk, mem, promised>>
  <2>1. BackoffTypeOK' /\ ClockBehind'
    BY <1>3, <1>4, <1>5 DEF BackoffInv, BackoffTypeOK, ClockBehind
  <2>2. MemoryCapped' /\ WindowsFollow429' /\ SavedStands' /\ Past429'
    BY <1>3, <1>5 DEF BackoffInv, MemoryCapped, WindowsFollow429, SavedStands, Past429
  <2> QED
    BY <1>4, <2>1, <2>2 DEF BackoffInv
<1>6. ASSUME NEW merged, merged = sanitize(merge_max(disk, mem[p])),
             disk' = merged, mem' = [mem EXCEPT ![p] = merged],
             promised' = merge_max(promised, merged)
      PROVE  BackoffInv'
  <2>1. PICK both \in Deadlines :
          /\ both = merge_max(disk, mem[p])
          /\ \A o \in Origins : both[o] \in {disk[o], mem[p][o]} /\ both[o] >= disk[o]
    BY <1>1, MergeFacts
  <2>2. /\ merged \in Deadlines
        /\ \A o \in Origins : /\ merged[o] <= both[o] /\ merged[o] <= now + Cap
                              /\ both[o] > now => merged[o] \in {both[o], now + Cap}
    BY <1>1, <1>6, <2>1, SanitizeFacts
  <2>3. /\ promised' \in Deadlines
        /\ \A o \in Origins : promised'[o] \in {promised[o], merged[o]}
    BY <1>1, <1>6, <2>2, MergeFacts
  <2>4. \A q \in Procs : mem'[q] = IF q = p THEN merged ELSE mem[q]
    BY <1>1, <1>6
  <2>5. \A o \in Origins : /\ disk[o] \in Nat /\ mem[p][o] \in Nat /\ both[o] \in Nat
                           /\ merged[o] \in Nat /\ since[o] \in Nat /\ promised[o] \in Nat
    BY <1>1, <2>1, <2>2 DEF Deadlines
  <2>6. BackoffTypeOK' /\ ClockBehind'
    BY <1>3, <1>4, <1>6, <2>2, <2>3 DEF BackoffInv, BackoffTypeOK, ClockBehind
  <2>7. MemoryCapped'
    <3>1. \A o \in Origins : merged[o] <= real + Cap
      BY <1>1, <2>2, <2>5, TimeAssumption
    <3> QED
      BY <1>3, <2>4, <3>1 DEF BackoffInv, MemoryCapped
  <2>8. ~edited => \A o \in Origins : both[o] <= since[o] + Cap
    BY <1>1, <2>1 DEF BackoffInv, WindowsFollow429
  <2>9. WindowsFollow429'
    <3>1. ~edited => \A o \in Origins : merged[o] <= since[o] + Cap
      BY <2>2, <2>5, <2>8, TimeAssumption
    <3> QED
      BY <1>3, <1>6, <2>4, <3>1 DEF BackoffInv, WindowsFollow429
  <2>10. SavedStands'
    <3>0. \A o \in Origins : promised[o] <= real + Cap /\ merged[o] <= real + Cap
      BY <1>1, <2>2, <2>5, TimeAssumption DEF BackoffInv, SavedStands
    <3>3. \A o \in Origins : promised'[o] <= real' + Cap
      BY <1>3, <2>3, <3>0
    <3> SUFFICES ASSUME now = real, NEW o \in Origins, promised'[o] > now
                 PROVE  merged[o] >= promised'[o]
      BY <1>3, <1>6, <3>3 DEF SavedStands
    <3>1. CASE promised'[o] = merged[o]
      BY <2>5, <3>1
    <3>2. CASE promised'[o] = promised[o]
      <4>1. disk[o] >= promised[o]
        BY <3>2 DEF BackoffInv, SavedStands
      <4>2. both[o] >= disk[o]
        BY <2>1
      <4>3. both[o] > now
        BY <1>1, <2>5, <3>2, <4>1, <4>2
      <4> QED
        BY <1>1, <2>2, <2>5, <3>0, <3>2, <4>1, <4>2, <4>3, TimeAssumption
    <3> QED
      BY <2>3, <3>1, <3>2
  <2>11. Past429'
    BY <1>3 DEF BackoffInv, Past429
  <2> QED
    BY <1>4, <2>6, <2>7, <2>9, <2>10, <2>11 DEF BackoffInv
<1> QED
  BY <1>2, <1>5, <1>6 DEF RecordSave

\* Time, the clock, an edit, a lost file and the end of a process.
LEMMA EnvironmentInv ==
  ASSUME BackoffInv, Tick \/ StepBack \/ FileLost \/ \E o \in Origins : Edit(o)
  PROVE  BackoffInv'
<1>1. /\ now \in 0..MaxTime /\ real \in 0..MaxTime /\ now <= real
      /\ mem \in [Procs -> Deadlines] /\ disk \in Deadlines /\ since \in Deadlines
      /\ promised \in Deadlines /\ read \in [Procs -> Deadlines \cup {None}]
  BY DEF BackoffInv, BackoffTypeOK, ClockBehind
<1>2. /\ \A p \in Procs, o \in Origins : mem[p][o] \in Nat
      /\ \A o \in Origins : disk[o] \in Nat /\ since[o] \in Nat /\ promised[o] \in Nat
  BY <1>1 DEF Deadlines
<1>3. CASE Tick
  <2>1. BackoffTypeOK' /\ ClockBehind' /\ ReadIsFresh'
    BY <1>1, <1>3, TimeAssumption
    DEF BackoffInv, Tick, BackoffTypeOK, ClockBehind, ReadIsFresh, histVars
  <2>2. MemoryCapped'
    BY <1>1, <1>2, <1>3, TimeAssumption DEF BackoffInv, Tick, MemoryCapped
  <2>3. WindowsFollow429' /\ SavedStands' /\ Past429'
    BY <1>1, <1>2, <1>3, TimeAssumption
       DEF BackoffInv, Tick, WindowsFollow429, SavedStands, Past429, histVars
  <2> QED
    BY <2>1, <2>2, <2>3 DEF BackoffInv
<1>4. CASE StepBack
  <2>1. now' \in 0..(now - 1)
        /\ UNCHANGED <<real, bound, mem, disk, read, since, promised, edited>>
    BY <1>4 DEF StepBack, histVars
  <2>2. now' \in 0..MaxTime /\ now' <= real /\ now' # real
    BY <1>1, <2>1, TimeAssumption
  <2>3. BackoffTypeOK' /\ ClockBehind'
    BY <2>1, <2>2 DEF BackoffInv, BackoffTypeOK, ClockBehind
  <2> QED
    BY <2>1, <2>2, <2>3
       DEF BackoffInv, MemoryCapped, ReadIsFresh, WindowsFollow429, SavedStands, Past429
<1>5. CASE FileLost
  <2>1. disk' = Zero /\ promised' = Zero /\ UNCHANGED <<now, real, bound, mem, read, since, edited>>
        /\ \A p \in Procs : read[p] = None
    BY <1>5 DEF FileLost, LockFree
  <2>2. BackoffTypeOK' /\ ClockBehind' /\ ReadIsFresh' /\ MemoryCapped'
    BY <2>1, ZeroFacts DEF BackoffInv, BackoffTypeOK, ClockBehind, ReadIsFresh, MemoryCapped
  <2>3. WindowsFollow429' /\ SavedStands' /\ Past429'
    BY <1>1, <1>2, <2>1, ZeroFacts, TimeAssumption
       DEF BackoffInv, WindowsFollow429, SavedStands, Past429
  <2> QED
    BY <2>2, <2>3 DEF BackoffInv
<1>6. ASSUME NEW o \in Origins, Edit(o) PROVE BackoffInv'
  <2>1. PICK t \in FileEdits : disk' = [disk EXCEPT ![o] = t]
    BY <1>6 DEF Edit
  <2>2. /\ promised' = [promised EXCEPT ![o] = 0]
        /\ edited' = TRUE /\ UNCHANGED <<now, real, bound, mem, read, since>>
        /\ \A p \in Procs : read[p] = None
    BY <1>6 DEF Edit, LockFree
  <2>3. t \in 0..(MaxTime + Cap) /\ real \in 0..(MaxTime + Cap) /\ 0 \in 0..(MaxTime + Cap)
    BY <1>1, TimeAssumption
  <2>4. disk' \in Deadlines /\ since' \in Deadlines /\ promised' \in Deadlines
    BY <1>1, <2>1, <2>2, <2>3 DEF Deadlines
  <2>5. BackoffTypeOK' /\ ClockBehind' /\ ReadIsFresh' /\ MemoryCapped'
    BY <2>2, <2>4 DEF BackoffInv, BackoffTypeOK, ClockBehind, ReadIsFresh, MemoryCapped
  <2>6. SavedStands'
    <3>1. \A r \in Origins : promised'[r] = IF r = o THEN 0 ELSE promised[r]
      BY <1>1, <2>2 DEF Deadlines
    <3>2. \A r \in Origins : r # o => disk'[r] = disk[r]
      BY <1>1, <2>1 DEF Deadlines
    <3> QED
      BY <1>1, <1>2, <2>2, <3>1, <3>2, TimeAssumption DEF BackoffInv, SavedStands
  <2> QED
    BY <2>2, <2>5, <2>6 DEF BackoffInv, WindowsFollow429, Past429
<1> QED
  BY <1>3, <1>4, <1>5, <1>6

\* A process that ends, lock in hand or not, leaves the file as it was.
LEMMA RestartInv ==
  ASSUME BackoffInv, NEW p \in Procs, Restart(p)
  PROVE  BackoffInv'
<1>1. /\ bound' = [bound EXCEPT ![p] = FALSE] /\ mem' = [mem EXCEPT ![p] = Zero]
      /\ read' = [read EXCEPT ![p] = None] /\ UNCHANGED <<now, real, disk, since, promised, edited>>
  BY DEF Restart, histVars
<1>2. BackoffTypeOK' /\ ClockBehind'
  BY <1>1, ZeroFacts DEF BackoffInv, BackoffTypeOK, ClockBehind
<1>3. \A q \in Procs : mem'[q] = IF q = p THEN Zero ELSE mem[q]
  BY <1>1 DEF BackoffInv, BackoffTypeOK
<1>4. \A q \in Procs : read'[q] = IF q = p THEN None ELSE read[q]
  BY <1>1 DEF BackoffInv, BackoffTypeOK
<1>5. ReadIsFresh'
  BY <1>1, <1>4 DEF BackoffInv, ReadIsFresh
<1>6. real \in Nat /\ \A o \in Origins : since[o] \in Nat
  BY DEF BackoffInv, BackoffTypeOK, Deadlines
<1>7. MemoryCapped' /\ WindowsFollow429'
  BY <1>1, <1>3, <1>6, ZeroFacts, TimeAssumption DEF BackoffInv, MemoryCapped, WindowsFollow429
<1>8. SavedStands' /\ Past429'
  BY <1>1 DEF BackoffInv, SavedStands, Past429
<1> QED
  BY <1>2, <1>5, <1>7, <1>8 DEF BackoffInv

-----------------------------------------------------------------------------
(* The theorems.                                                           *)

\* Every step keeps the invariant.
LEMMA BackoffNextInv == BackoffInv /\ [BackoffNext]_backoffVars => BackoffInv'
<1> SUFFICES ASSUME BackoffInv, [BackoffNext]_backoffVars PROVE BackoffInv'
  OBVIOUS
<1>1. CASE UNCHANGED backoffVars
  BY <1>1 DEF BackoffInv, BackoffTypeOK, ClockBehind, MemoryCapped, ReadIsFresh, WindowsFollow429,
              SavedStands, Past429, backoffVars
<1>2. ASSUME NEW p \in Procs, ProcStep(p) PROVE BackoffInv'
  BY <1>2, BindInv, RecordSaveInv, ConsultInv, RestartInv, RecordReadInv DEF ProcStep
<1> QED
  BY <1>1, <1>2, EnvironmentInv DEF BackoffNext

\* The invariant holds in every reachable state.
LEMMA BackoffInvariance == BackoffSpec => []BackoffInv
BY BackoffInitInv, BackoffNextInv, PTL DEF BackoffSpec

\* A window one process saved makes every bound process fail fast until it has
\* passed (remaining_for_url), as long as the clock has not been set back.
THEOREM SavedWindowFailsFast == BackoffSpec => []FailsFast
<1>1. BackoffInv => FailsFast
  <2> SUFFICES ASSUME BackoffInv, now = real, NEW p \in Procs, NEW o \in Origins,
                      bound[p], promised[o] > now
               PROVE  Consulted(p)[o] > now
    BY DEF FailsFast, Parked
  <2>1. now \in 0..MaxTime /\ disk \in Deadlines /\ mem[p] \in Deadlines /\ promised[o] \in Nat
        /\ disk[o] \in Nat
    BY DEF BackoffInv, BackoffTypeOK, Deadlines
  <2>2. disk[o] > now
    BY <2>1 DEF BackoffInv, SavedStands
  <2>3. sanitize(disk) \in Deadlines /\ sanitize(disk)[o] > now
    BY <2>1, <2>2, SanitizeFacts
  <2>4. /\ merge_max(mem[p], sanitize(disk)) \in Deadlines
        /\ merge_max(mem[p], sanitize(disk))[o] >= sanitize(disk)[o]
    BY <2>1, <2>3, MergeFacts
  <2>5. sanitize(disk)[o] \in Nat /\ merge_max(mem[p], sanitize(disk))[o] \in Nat
    BY <2>3, <2>4 DEF Deadlines
  <2>6. merge_max(mem[p], sanitize(disk))[o] > now
    BY <2>1, <2>3, <2>4, <2>5
  <2> QED
    BY <2>6 DEF Consulted
<1> QED
  BY <1>1, BackoffInvariance, PTL

\* On an unedited file no process is parked once the clock shows Cap past the
\* provider's last 429, and whatever was written into the file none takes over a
\* deadline more than Cap ahead of the latest time the clock has shown (sanitize,
\* record_rate_limited).
THEOREM NoWindowExceedsCap == BackoffSpec => []WindowsCapped
<1>1. BackoffInv => WindowsCapped
  <2> SUFFICES ASSUME BackoffInv, ~edited, NEW p \in Procs, NEW o \in Origins, Parked(p, o)
               PROVE  now < since[o] + Cap
    BY DEF BackoffInv, WindowsCapped, ParkedAtMostCap
  <2>1. /\ now \in 0..MaxTime /\ disk \in Deadlines /\ mem[p] \in Deadlines
        /\ since[o] \in Nat /\ disk[o] \in Nat /\ mem[p][o] \in Nat
    BY DEF BackoffInv, BackoffTypeOK, Deadlines
  <2>2. disk[o] <= since[o] + Cap /\ mem[p][o] <= since[o] + Cap
    BY DEF BackoffInv, WindowsFollow429
  <2>3. sanitize(disk) \in Deadlines /\ sanitize(disk)[o] <= disk[o]
    BY <2>1, SanitizeFacts
  <2>4. merge_max(mem[p], sanitize(disk))[o] \in {mem[p][o], sanitize(disk)[o]}
    BY <2>1, <2>3, MergeFacts
  <2>5. sanitize(disk)[o] \in Nat
    BY <2>3 DEF Deadlines
  <2>6. Consulted(p)[o] \in {mem[p][o], sanitize(disk)[o]}
    BY <2>4 DEF Consulted
  <2> QED
    BY <2>1, <2>2, <2>3, <2>5, <2>6, TimeAssumption DEF Parked
<1> QED
  BY <1>1, BackoffInvariance, PTL

-----------------------------------------------------------------------------
(* The registry: the inductive invariant.  Its parts are predicates of the *)
(* state they are about: o is the operation, p the file, ev the evidence,  *)
(* nt the time the gateway is loading, up the updates begun, gs the        *)
(* journal, b and bs the single backup and its sequence, c the clock, ak   *)
(* the updates that succeeded, al and sk the losses allowed for.           *)

\* What an operation of the process by may replace.
Replaceable(p, ev, by) ==
    \/ p = Absent
    \/ p \in Junks /\ p \in ev
    \/ p \in Doc /\ p.ver <= Build[by]

Saving == {"save", "bak", "seq", "gen", "write"}

\* Where an operation is against what it has read: its file, its source and its edit.
OpFits(o, p, ev, nt, up) ==
    /\ o.pc # "idle" => (o.by = Gateway <=> o.edit = 0)
    /\ o.pc # "idle" /\ o.by = Gateway => nt # Absent
    /\ o.edit \in {0, up}
    /\ o.pc = "load" => o.src = "none" /\ ~o.restore
    /\ o.pc = "quarantine" => p \in Junks /\ o.src = "none" /\ ~o.restore
    /\ o.pc = "migrate" => p \in Doc /\ p.ver < Build[o.by] /\ o.src = "none"
    /\ o.pc = "recover" =>
          IF o.src = "Unread" THEN ~o.restore
          ELSE o.src = "none" /\ p \notin Doc /\ (o.restore => Replaceable(p, ev, o.by))
    /\ o.pc \in Saving =>
          /\ o.reg \in Doc /\ o.reg.ver = Build[o.by]
          /\ o.src = "none" => p \in Doc /\ o.reg.edits = p.edits
          /\ o.src # "none" => o.edit # 0 /\ o.edit \in o.reg.edits
    /\ o.pc \in {"bak", "seq", "gen", "write"} => Replaceable(p, ev, o.by)
    /\ o.pc \in {"bak", "seq", "gen"} => p \in Doc

\* The copies are numbered and timed in the order they were written.
CopiesFit(gs, b, bs, c) ==
    /\ IsFiniteSet(gs) /\ c > 0 /\ b.seq = 0 /\ b.time < c /\ bs < c
    /\ \A s \in gs : s.doc \in Doc /\ 0 < s.seq /\ s.seq < c /\ s.time < c
    /\ \A s, t \in gs : s # t => s.seq # t.seq
    /\ \A s, t \in gs : s.seq < t.seq => s.time < t.time

\* What a save has done to them.
SaveFits(o, p, gs, b, bs, c) ==
    /\ o.pc = "bak" => o.seq = c /\ ~o.missed
    /\ o.pc \in {"seq", "gen"} =>
          /\ o.seq = c - 1 /\ o.seq > 0 /\ \A s \in gs : s.seq < o.seq /\ s.time < o.seq
          /\ IF o.missed THEN bs < o.seq /\ b.time < o.seq
             ELSE b.doc = p /\ b.time = o.seq
    /\ o.pc = "seq" => ~o.missed
    /\ o.pc = "gen" /\ ~o.missed => bs \in {0, o.seq}

\* A document has no edit of the update that is going on, and none of a later one.
FreshDoc(d, o, up) == d \in Doc => d.edits \subseteq 1..up /\ o.edit \notin d.edits
Fresh(o, p, gs, b, up) ==
    /\ FreshDoc(p, o, up) /\ FreshDoc(b.doc, o, up) /\ \A s \in gs : FreshDoc(s.doc, o, up)
    /\ o.pc \in Saving => o.reg.edits \subseteq 1..up

\* The generations by rank, and the single backup among them.
IsTop(gs, u) == \A t \in gs \ {u} : t.seq < u.seq
Ranked(gs) == \A C \in SUBSET gs : C # {} => \E u \in C : IsTop(C, u)
BakFirst(b, bs, s) == IF bs # 0 THEN bs >= s.seq ELSE b.time > s.time

\* Of the updates ak that succeeded, those not in a document.
Lost(ak, edits) == Cardinality(ak \ edits)

\* The copy a recovery takes first misses at most x updates; y bounds what the journal by itself
\* would lose.
Bounded(gs, b, bs, ak, x, y) ==
    /\ \A u \in gs : IsTop(gs, u) =>
          /\ Lost(ak, u.doc.edits) <= y
          /\ b.doc \notin Doc \/ ~BakFirst(b, bs, u) => Lost(ak, u.doc.edits) <= x
    /\ b.doc \in Doc /\ (\A u \in gs : BakFirst(b, bs, u)) => Lost(ak, b.doc.edits) <= x
    /\ gs = {} => Lost(ak, {}) <= y /\ (b.doc \notin Doc => Lost(ak, {}) <= x)

\* An update more may be missing from the copies while there is a file and it stays.
Slack(o, p) == IF p \in Doc /\ o.pc # "write" THEN 1 ELSE 0

\* What the documents miss: the file no more than was allowed for (al), what is about to be
\* written neither, and the copies in their order.
LossFits(o, p, gs, b, bs, ak, al, sk) ==
    /\ Bounded(gs, b, bs, ak, al + Slack(o, p), al + sk + Slack(o, p))
    /\ p \in Doc => Lost(ak, p.edits) <= al
    /\ o.pc \in Saving =>
          Lost(ak, o.reg.edits) <=
              al + (IF o.pc = "save" /\ o.src = "Unread" /\ p \in Doc THEN 1 ELSE 0)

StoreInv ==
    /\ TypeOK
    /\ OpFits(op, primary, evidence, noticed, updates)
    /\ CopiesFit(gens, bak, bakSeq, clock) /\ Ranked(gens)
    /\ SaveFits(op, primary, gens, bak, bakSeq, clock)
    /\ Fresh(op, primary, gens, bak, updates)
    /\ passedOver \/ LossFits(op, primary, gens, bak, bakSeq, acked, allowance, skipped)

-----------------------------------------------------------------------------
(* Cardinalities.                                                          *)

\* A document that holds more has lost less.
LEMMA LostFacts ==
    ASSUME NEW ak \in SUBSET Edits, NEW d, NEW e
    PROVE  /\ Lost(ak, d) \in Nat /\ Lost(ak, e) \in Nat
           /\ d \subseteq e => Lost(ak, e) <= Lost(ak, d)
<1>1. IsFiniteSet(Edits)
  BY FS_Interval, BoundAssumption DEF Edits
<1>2. IsFiniteSet(ak)
  BY <1>1, FS_Subset
<1>3. IsFiniteSet(ak \ d) /\ IsFiniteSet(ak \ e)
  BY <1>2, FS_Difference
<1>4. d \subseteq e => ak \ e \in SUBSET (ak \ d)
  OBVIOUS
<1> QED BY <1>3, <1>4, FS_Subset, FS_CardinalityType DEF Lost

\* An update that succeeds is one more that a document may lack, unless it holds it.
LEMMA LostAck ==
    ASSUME NEW ak \in SUBSET Edits, NEW u \in Edits, NEW d
    PROVE  /\ Lost(ak \cup {u}, d) <= Lost(ak, d) + 1
           /\ u \in d => Lost(ak \cup {u}, d) = Lost(ak, d)
<1>1. IsFiniteSet(ak \ d) /\ Cardinality(ak \ d) \in Nat
  <2>1. IsFiniteSet(Edits)
    BY FS_Interval, BoundAssumption DEF Edits
  <2>2. IsFiniteSet(ak)
    BY <2>1, FS_Subset
  <2> QED BY <2>2, FS_Difference, FS_CardinalityType
<1>2. CASE u \in d
  <2>1. (ak \cup {u}) \ d = ak \ d
    BY <1>2
  <2> QED BY <1>1, <1>2, <2>1 DEF Lost
<1>3. CASE u \notin d
  <2>1. (ak \cup {u}) \ d = (ak \ d) \cup {u}
    BY <1>3
  <2>2. Cardinality((ak \ d) \cup {u}) <= Cardinality(ak \ d) + 1
    BY <1>1, FS_AddElement
  <2> QED BY <1>3, <2>1, <2>2 DEF Lost
<1> QED BY <1>2, <1>3

-----------------------------------------------------------------------------
(* The bounds on the copies.                                               *)

\* The bounds can be raised.
LEMMA Relax ==
    ASSUME NEW gs, NEW b, NEW bs, NEW ak \in SUBSET Edits, NEW x \in Nat, NEW y \in Nat,
           NEW x2 \in Nat, NEW y2 \in Nat, x <= x2, y <= y2, Bounded(gs, b, bs, ak, x, y)
    PROVE  Bounded(gs, b, bs, ak, x2, y2)
<1>1. \A d : Lost(ak, d) \in Nat
  BY LostFacts
<1> QED BY <1>1 DEF Bounded

\* What a copy has lost grows by at most one with an update that succeeds.
LEMMA AckLost ==
    ASSUME NEW ak \in SUBSET Edits, NEW u \in Edits, NEW d, NEW k \in Nat, Lost(ak, d) <= k
    PROVE  Lost(ak \cup {u}, d) <= k + 1
<1>1. PICK n : n = Lost(ak, d)
  OBVIOUS
<1>2. PICK m : m = Lost(ak \cup {u}, d)
  OBVIOUS
<1>3. n \in Nat /\ m \in Nat
  BY <1>1, <1>2, LostFacts
<1>4. m <= n + 1
  BY <1>1, <1>2, LostAck
<1>5. m <= k + 1
  BY <1>1, <1>3, <1>4
<1> QED BY <1>2, <1>5

\* An update that succeeds raises the bounds by one.
LEMMA AckBounded ==
    ASSUME NEW gs, NEW b, NEW bs, NEW ak \in SUBSET Edits, NEW x \in Nat, NEW y \in Nat,
           NEW u \in Edits, Bounded(gs, b, bs, ak, x, y)
    PROVE  Bounded(gs, b, bs, ak \cup {u}, x + 1, y + 1)
<1>1. PICK more : more = ak \cup {u}
  OBVIOUS
<1>2. y + 1 \in Nat
  OBVIOUS
<1>3. ASSUME NEW g \in gs, IsTop(gs, g)
      PROVE  /\ Lost(more, g.doc.edits) <= y + 1
             /\ b.doc \notin Doc \/ ~BakFirst(b, bs, g) => Lost(more, g.doc.edits) <= x + 1
  <2>1. /\ Lost(ak, g.doc.edits) <= y
        /\ b.doc \notin Doc \/ ~BakFirst(b, bs, g) => Lost(ak, g.doc.edits) <= x
    BY <1>3 DEF Bounded
  <2>2. Lost(more, g.doc.edits) <= y + 1
    BY <1>1, <2>1, AckLost
  <2>3. CASE b.doc \notin Doc \/ ~BakFirst(b, bs, g)
    <3>1. Lost(ak, g.doc.edits) <= x
      BY <2>1, <2>3
    <3>2. Lost(more, g.doc.edits) <= x + 1
      BY <1>1, <3>1, AckLost
    <3> QED BY <2>2, <3>2
  <2> QED BY <2>2, <2>3
<1>5. ASSUME b.doc \in Doc, \A g \in gs : BakFirst(b, bs, g)
      PROVE  Lost(more, b.doc.edits) <= x + 1
  <2>1. Lost(ak, b.doc.edits) <= x
    BY <1>5 DEF Bounded
  <2> QED BY <1>1, <2>1, AckLost
<1>7. ASSUME gs = {} PROVE Lost(more, {}) <= y + 1
  <2>1. Lost(ak, {}) <= y
    BY <1>7 DEF Bounded
  <2> QED BY <1>1, <2>1, AckLost
<1>8. ASSUME gs = {}, b.doc \notin Doc PROVE Lost(more, {}) <= x + 1
  <2>1. Lost(ak, {}) <= x
    BY <1>8 DEF Bounded
  <2> QED BY <1>1, <2>1, AckLost
<1>9. Bounded(gs, b, bs, more, x + 1, y + 1)
  BY <1>3, <1>5, <1>7, <1>8 DEF Bounded
<1> QED BY <1>1, <1>9

\* A single backup of the file, tried no later than the old one, keeps the bounds.
LEMMA BakBounded ==
    ASSUME NEW gs, NEW b, NEW bs, NEW ak \in SUBSET Edits, NEW x \in Nat, NEW y \in Nat,
           x <= y, Bounded(gs, b, bs, ak, x, y), NEW b2, NEW bs2,
           b2.doc \in Doc, Lost(ak, b2.doc.edits) <= x,
           \A u \in gs : b.doc \in Doc /\ BakFirst(b, bs, u) => BakFirst(b2, bs2, u)
    PROVE  Bounded(gs, b2, bs2, ak, x, y)
<1>1. \A d : Lost(ak, d) \in Nat
  BY LostFacts
<1> QED BY <1>1 DEF Bounded

\* So does a save without a generation, as long as that backup is tried first.
LEMMA SkipBounded ==
    ASSUME NEW gs, NEW b, NEW bs, NEW ak \in SUBSET Edits, NEW x \in Nat, NEW y \in Nat,
           x <= y, Bounded(gs, b, bs, ak, x + 1, y), b.doc \in Doc,
           \A u \in gs : BakFirst(b, bs, u), Lost(ak, b.doc.edits) <= x
    PROVE  Bounded(gs, b, bs, ak, x, y)
<1>1. \A d : Lost(ak, d) \in Nat
  BY LostFacts
<1> QED BY <1>1 DEF Bounded

\* Without the single backup what the journal would lose is what counts.
LEMMA BakLost ==
    ASSUME NEW gs, NEW b, NEW bs, NEW ak \in SUBSET Edits, NEW x \in Nat, NEW y \in Nat,
           Bounded(gs, b, bs, ak, x, y), NEW b2, b2.doc \notin Doc
    PROVE  Bounded(gs, b2, bs, ak, y, y)
<1>1. \A d : Lost(ak, d) \in Nat
  BY LostFacts
<1> QED BY <1>1 DEF Bounded

-----------------------------------------------------------------------------
(* The journal.                                                            *)

\* The journal keeps no more than it should: generations differ in how many are above them.
LEMMA PrunedCardinality ==
    ASSUME NEW gs \in SUBSET Snapshot, IsFiniteSet(gs), \A s, t \in gs : s # t => s.seq # t.seq
    PROVE  /\ Pruned(gs) \subseteq gs /\ IsFiniteSet(Pruned(gs))
           /\ Cardinality(Pruned(gs)) <= BACKUP_GENERATIONS
<1> DEFINE Above(s) == {t \in gs : t.seq > s.seq}
           f == [s \in Pruned(gs) |-> Cardinality(Above(s))]
           G == BACKUP_GENERATIONS
<1>1. G \in Nat /\ G > 0
  BY BoundAssumption
<1>2. Pruned(gs) \subseteq gs /\ \A s \in Pruned(gs) : Cardinality(Above(s)) < G
  BY DEF Pruned
<1>3. ASSUME NEW s \in gs PROVE IsFiniteSet(Above(s)) /\ Cardinality(Above(s)) \in Nat
  <2>1. Above(s) \in SUBSET gs
    OBVIOUS
  <2> QED BY <2>1, FS_Subset, FS_CardinalityType
<1>4. f \in [Pruned(gs) -> 0..(G - 1)]
  <2>1. ASSUME NEW s \in Pruned(gs) PROVE Cardinality(Above(s)) \in 0..(G - 1)
    <3>1. Cardinality(Above(s)) \in Nat /\ Cardinality(Above(s)) < G
      BY <1>2, <1>3
    <3> HIDE DEF Above
    <3> QED BY <1>1, <3>1
  <2> HIDE DEF Above
  <2> QED BY <2>1
<1>5. ASSUME NEW s \in gs, NEW t \in gs, s.seq < t.seq
      PROVE  Cardinality(Above(t)) < Cardinality(Above(s))
  <2>1. s.seq \in Nat /\ t.seq \in Nat /\ \A u \in gs : u.seq \in Nat
    BY DEF Snapshot
  <2>2. Above(t) \in SUBSET Above(s) /\ t \in Above(s) /\ t \notin Above(t)
    BY <1>5, <2>1
  <2>3. /\ Cardinality(Above(t)) <= Cardinality(Above(s))
        /\ Cardinality(Above(s)) = Cardinality(Above(t)) => Above(s) = Above(t)
    BY <1>3, <2>2, FS_Subset
  <2> HIDE DEF Above
  <2>4. Cardinality(Above(s)) \in Nat /\ Cardinality(Above(t)) \in Nat
    BY <1>3
  <2>5. Cardinality(Above(s)) # Cardinality(Above(t))
    BY <2>2, <2>3
  <2> QED BY <2>3, <2>4, <2>5
<1>6. \A s, t \in Pruned(gs) : f[s] = f[t] => s = t
  <2> SUFFICES ASSUME NEW s \in Pruned(gs), NEW t \in Pruned(gs), s # t PROVE f[s] # f[t]
    OBVIOUS
  <2>1. s.seq \in Nat /\ t.seq \in Nat /\ s.seq # t.seq /\ s \in gs /\ t \in gs
    BY <1>2 DEF Snapshot
  <2>2. f[s] = Cardinality(Above(s)) /\ f[t] = Cardinality(Above(t))
    OBVIOUS
  <2>3. Cardinality(Above(s)) \in Nat /\ Cardinality(Above(t)) \in Nat
    BY <1>3, <2>1
  <2>4. CASE s.seq < t.seq
    <3>1. Cardinality(Above(t)) < Cardinality(Above(s))
      BY <1>5, <2>1, <2>4
    <3> HIDE DEF f, Above
    <3> QED BY <2>2, <2>3, <3>1
  <2>5. CASE t.seq < s.seq
    <3>1. Cardinality(Above(s)) < Cardinality(Above(t))
      BY <1>5, <2>1, <2>5
    <3> HIDE DEF f, Above
    <3> QED BY <2>2, <2>3, <3>1
  <2> QED BY <2>1, <2>4, <2>5
<1> HIDE DEF f
<1>7. f \in Injection(Pruned(gs), 0..(G - 1))
  BY <1>4, <1>6 DEF Injection, IsInjective
<1>8. IsFiniteSet(0..(G - 1)) /\ Cardinality(0..(G - 1)) = G
  BY <1>1, FS_Interval
<1> QED BY <1>2, <1>7, <1>8, FS_Injection

\* The journal, a copy that is newer than all of it, and what becomes of it with that copy.
Journal(gs) ==
    /\ gs \in SUBSET Snapshot /\ IsFiniteSet(gs) /\ Ranked(gs)
    /\ \A s, t \in gs : s # t => s.seq # t.seq
    /\ \A s, t \in gs : s.seq < t.seq => s.time < t.time
OnTop(gs, g) == g \in Snapshot /\ \A s \in gs : s.seq < g.seq
Grown(gs, g, R) ==
    /\ R \in SUBSET (gs \cup {g}) /\ Cardinality(R) <= BACKUP_GENERATIONS /\ Ranked(R)
    /\ g \in R /\ \A u \in R : IsTop(R, u) => u = g

\* A generation newer than all of the journal becomes its top.
LEMMA NewGeneration ==
    ASSUME NEW gs, Journal(gs), NEW g, OnTop(gs, g)
    PROVE  Grown(gs, g, Pruned(gs \cup {g}))
<1> DEFINE R == Pruned(gs \cup {g})
<1>0. /\ gs \in SUBSET Snapshot /\ IsFiniteSet(gs) /\ Ranked(gs) /\ g \in Snapshot
      /\ \A s, t \in gs : s # t => s.seq # t.seq
      /\ \A s \in gs : s.seq < g.seq
  BY DEF Journal, OnTop
<1> DEFINE gg == gs \cup {g}
<1>1. /\ gg \in SUBSET Snapshot /\ \A s, t \in gg : s # t => s.seq # t.seq
      /\ \A s \in gg : s.seq \in Nat
  BY <1>0 DEF Snapshot
<1>2. IsFiniteSet(gg)
  BY <1>0, FS_AddElement
<1>3. R \in SUBSET gg /\ Cardinality(R) <= BACKUP_GENERATIONS
  BY <1>1, <1>2, PrunedCardinality
<1> HIDE DEF R
<1>4. g \in R
  <2>1. {t \in gg : t.seq > g.seq} = {}
    BY <1>0, <1>1
  <2>2. 0 < BACKUP_GENERATIONS
    BY BoundAssumption
  <2>3. Cardinality({t \in gg : t.seq > g.seq}) < BACKUP_GENERATIONS
    BY <2>1, <2>2, FS_EmptySet
  <2> QED BY <2>3 DEF Pruned, R
<1>6. \A u \in R : IsTop(R, u) => u = g
  BY <1>0, <1>1, <1>3, <1>4 DEF IsTop
<1>9. Ranked(R)
  <2> SUFFICES ASSUME NEW C \in SUBSET R, C # {} PROVE \E u \in C : IsTop(C, u)
    BY DEF Ranked
  <2>1. CASE g \in C
    BY <1>0, <1>3, <2>1 DEF IsTop
  <2>2. CASE g \notin C
    <3>1. C \in SUBSET gs
      BY <1>3, <2>2
    <3> QED BY <1>0, <3>1 DEF Ranked
  <2> QED BY <2>1, <2>2
<1>10. Grown(gs, g, R)
  BY <1>3, <1>4, <1>6, <1>9 DEF Grown
<1> QED BY <1>10 DEF R

\* The new generation takes back what the save before it was allowed.
LEMMA NewGenerationBounded ==
    ASSUME NEW gs, Journal(gs), NEW g, OnTop(gs, g), NEW R, Grown(gs, g, R),
           NEW b \in Snapshot, NEW bs \in Nat, NEW ak \in SUBSET Edits,
           NEW x \in Nat, NEW y \in Nat, x <= y, Bounded(gs, b, bs, ak, x + 1, y + 1),
           Lost(ak, g.doc.edits) <= x,
           b.doc \in Doc /\ BakFirst(b, bs, g) => Lost(ak, b.doc.edits) <= x
    PROVE  Bounded(R, b, bs, ak, x, y)
<1>1. \A d : Lost(ak, d) \in Nat
  BY LostFacts
<1>2. g \in R /\ \A u \in R : IsTop(R, u) => u = g
  BY DEF Grown
<1>3. \A u \in R : IsTop(R, u) => Lost(ak, u.doc.edits) <= x /\ Lost(ak, u.doc.edits) <= y
  BY <1>1, <1>2
<1>5. b.doc \in Doc /\ (\A u \in R : BakFirst(b, bs, u)) => Lost(ak, b.doc.edits) <= x
  BY <1>2
<1> QED BY <1>2, <1>3, <1>5 DEF Bounded

-----------------------------------------------------------------------------
(* The order of the copies.                                                *)

\* next_backup_sequence: every generation is older than the clock, which is the next number.
LEMMA NextSequenceIsClock ==
    ASSUME TypeOK, CopiesFit(gens, bak, bakSeq, clock)
    PROVE  NextSequence = clock
<1> DEFINE S == {clock} \cup {s.seq + 1 : s \in gens}
<1>1. \A s \in gens : s.seq \in Nat /\ s.seq + 1 <= clock /\ clock \in Nat
  BY DEF TypeOK, CopiesFit, Snapshot
<1>2. clock \in S /\ \A m \in S : m \in Nat /\ clock >= m
  BY <1>1 DEF TypeOK
<1> HIDE DEF S
<1>3. \A m \in S : (\A k \in S : m >= k) => m = clock
  BY <1>2
<1>4. Max(S) = clock
  BY <1>2, <1>3 DEF Max
<1> QED BY <1>4 DEF NextSequence, S

\* Newer orders the copies: the single backup is none of the generations.
LEMMA NewerFacts ==
    ASSUME TypeOK, CopiesFit(gens, bak, bakSeq, clock)
    PROVE  /\ bak \notin gens
           /\ \A s \in gens : /\ Newer(bak, s) <=> BakFirst(bak, bakSeq, s)
                              /\ Newer(s, bak) <=> ~BakFirst(bak, bakSeq, s)
           /\ \A s, t \in gens : Newer(s, t) <=> t.seq < s.seq
           /\ \A s, t \in Copies : s # t => ~(Newer(s, t) /\ Newer(t, s))
<1>1. /\ bakSeq \in Nat /\ bak.time \in Nat
      /\ \A s \in gens : s.seq \in Nat /\ s.time \in Nat
  BY DEF TypeOK, Snapshot
<1>2. bak \notin gens
  BY <1>1 DEF CopiesFit
<1>3. \A s \in gens : /\ Newer(bak, s) <=> BakFirst(bak, bakSeq, s)
                      /\ Newer(s, bak) <=> ~BakFirst(bak, bakSeq, s)
  BY <1>1, <1>2 DEF Newer, BakFirst
<1>4. \A s, t \in gens : Newer(s, t) <=> t.seq < s.seq
  BY <1>1, <1>2 DEF Newer
<1> QED BY <1>1, <1>2, <1>3, <1>4 DEF Copies

\* There is a newest among any copies, and it is the one that is tried.
LEMMA NewestFacts ==
    ASSUME TypeOK, CopiesFit(gens, bak, bakSeq, clock), Ranked(gens),
           NEW C \in SUBSET Copies, C # {}
    PROVE  Newest(C) \in C /\ \A t \in C \ {Newest(C)} : Newer(Newest(C), t)
<1> SUFFICES \E s \in C : \A t \in C \ {s} : Newer(s, t)
  BY DEF Newest
<1>1. C \subseteq gens \cup {bak}
  BY DEF Copies
<1>2. CASE C \cap gens = {}
  BY <1>1, <1>2
<1>3. CASE C \cap gens # {}
  <2>1. PICK u \in C \cap gens : IsTop(C \cap gens, u)
    BY <1>3 DEF Ranked
  <2>2. \A t \in (C \cap gens) \ {u} : t.seq < u.seq /\ t.time < u.time
    BY <2>1 DEF IsTop, CopiesFit
  <2>3. \A t \in (C \cap gens) \ {u} : Newer(u, t)
    BY <2>1, <2>2, NewerFacts
  <2>4. CASE bak \notin C \/ ~BakFirst(bak, bakSeq, u)
    <3>1. bak \in C => Newer(u, bak)
      BY <2>1, <2>4, NewerFacts
    <3> QED BY <1>1, <2>1, <2>3, <3>1
  <2>5. CASE bak \in C /\ BakFirst(bak, bakSeq, u)
    <3>1. /\ bakSeq \in Nat /\ bak.time \in Nat
          /\ \A s \in gens : s.seq \in Nat /\ s.time \in Nat
      BY DEF TypeOK, Snapshot
    <3>2. \A t \in C \cap gens : BakFirst(bak, bakSeq, t)
      BY <2>1, <2>2, <2>5, <3>1 DEF BakFirst
    <3>3. \A t \in C \cap gens : Newer(bak, t)
      BY <3>2, NewerFacts
    <3> QED BY <1>1, <2>5, <3>3
  <2> QED BY <2>4, <2>5
<1> QED BY <1>2, <1>3

\* The copy a recovery takes first.
LEMMA BestCopy ==
    ASSUME TypeOK, CopiesFit(gens, bak, bakSeq, clock), Ranked(gens), Readable # {},
           NEW x \in Nat, NEW y \in Nat, Bounded(gens, bak, bakSeq, acked, x, y)
    PROVE  Lost(acked, Newest(Readable).doc.edits) <= x
<1> DEFINE n == Newest(Readable)
<1>1. Readable \in SUBSET Copies /\ gens \subseteq Readable
  BY DEF Readable, Copies, CopiesFit
<1>2. n \in Readable /\ \A t \in Readable \ {n} : Newer(n, t)
  BY <1>1, NewestFacts
<1> HIDE DEF n
<1>3. CASE n = bak
  <2>1. bak.doc \in Doc
    BY <1>2, <1>3 DEF Readable
  <2>2. \A u \in gens : BakFirst(bak, bakSeq, u)
    BY <1>1, <1>2, <1>3, NewerFacts
  <2> QED BY <1>3, <2>1, <2>2 DEF Bounded, n
<1>4. CASE n \in gens
  <2>1. IsTop(gens, n)
    BY <1>1, <1>2, <1>4, NewerFacts DEF IsTop
  <2>2. bak.doc \notin Doc \/ ~BakFirst(bak, bakSeq, n)
    BY <1>2, <1>4, NewerFacts DEF Readable, Copies
  <2> QED BY <1>4, <2>1, <2>2 DEF Bounded, n
<1> QED BY <1>2, <1>3, <1>4 DEF Readable, Copies

\* If the newest of the copies can be used it is the newest of those that can.
LEMMA UsableNewest ==
    ASSUME TypeOK, CopiesFit(gens, bak, bakSeq, clock), Ranked(gens),
           NEW C \in SUBSET Copies, NEW D \in SUBSET C, Newest(C) \in D
    PROVE  Newest(D) = Newest(C)
<1>1. C # {} /\ D # {} /\ D \in SUBSET Copies
  OBVIOUS
<1>2. Newest(C) \in C /\ \A t \in C \ {Newest(C)} : Newer(Newest(C), t)
  BY <1>1, NewestFacts
<1>3. Newest(D) \in D /\ \A t \in D \ {Newest(D)} : Newer(Newest(D), t)
  BY <1>1, NewestFacts
<1>4. \A s, t \in Copies : s # t => ~(Newer(s, t) /\ Newer(t, s))
  BY NewerFacts
<1> QED BY <1>1, <1>2, <1>3, <1>4

\* What the first usable copy has lost, if no newer one is of a build to come.
LEMMA BestLost ==
    ASSUME TypeOK, CopiesFit(gens, bak, bakSeq, clock), Ranked(gens),
           Readable # {} => Newest(Readable) \in Usable,
           NEW x \in Nat, NEW y \in Nat, Bounded(gens, bak, bakSeq, acked, x, y)
    PROVE  Best \in SUBSET Edits /\ Lost(acked, Best) <= x
<1>1. /\ Readable \in SUBSET Copies /\ Usable \in SUBSET Readable /\ gens \subseteq Readable
      /\ \A s \in Readable : s.doc \in Doc
  BY DEF Readable, Usable, Copies, CopiesFit
<1>2. CASE Readable = {}
  <2>1. gens = {} /\ bak.doc \notin Doc /\ Best = {}
    BY <1>1, <1>2 DEF Readable, Copies, Best
  <2> QED BY <2>1 DEF Bounded
<1>3. CASE Readable # {}
  <2>1. Newest(Usable) = Newest(Readable) /\ Usable # {} /\ Newest(Usable) \in Readable
    BY <1>1, <1>3, UsableNewest
  <2>2. Best = Newest(Readable).doc.edits
    BY <2>1 DEF Best
  <2>3. Best \in SUBSET Edits
    BY <1>1, <2>1, <2>2 DEF Doc
  <2> QED BY <1>3, <2>2, <2>3, BestCopy
<1> QED BY <1>2, <1>3

\* A copy that lacks some of the first one's updates has lost at most those in addition.
LEMMA ForgoLost ==
    ASSUME NEW ak \in SUBSET Edits, NEW A \in SUBSET Edits, NEW B
    PROVE  /\ Cardinality(A \ B) \in Nat
           /\ Lost(ak, B) <= Lost(ak, A) + Cardinality(A \ B)
<1>1. IsFiniteSet(Edits)
  BY FS_Interval, BoundAssumption DEF Edits
<1>2. IsFiniteSet(ak) /\ IsFiniteSet(A)
  BY <1>1, FS_Subset
<1>3. IsFiniteSet(ak \ A) /\ IsFiniteSet(A \ B)
  BY <1>2, FS_Difference
<1> DEFINE S == ak \ A
           T == A \ B
<1>4. IsFiniteSet(S \cup T) /\ IsFiniteSet(S \cap T)
      /\ Cardinality(S \cup T) = Cardinality(S) + Cardinality(T) - Cardinality(S \cap T)
  <2>1. IsFiniteSet(S) /\ IsFiniteSet(T)
    BY <1>3
  <2> QED BY <2>1, FS_Union, FS_Intersection
<1>5. ak \ B \in SUBSET (S \cup T)
  OBVIOUS
<1>6. Cardinality(ak \ B) <= Cardinality(S \cup T) /\ Cardinality(ak \ B) \in Nat
  <2>1. IsFiniteSet(ak \ B)
    BY <1>2, FS_Difference
  <2> QED BY <1>4, <1>5, <2>1, FS_Subset, FS_CardinalityType
<1>7. Cardinality(S) \in Nat /\ Cardinality(T) \in Nat /\ Cardinality(S \cap T) \in Nat
      /\ Cardinality(S \cup T) \in Nat
  BY <1>3, <1>4, FS_CardinalityType
<1>8. Cardinality(ak \ B) <= Cardinality(S) + Cardinality(T)
  BY <1>4, <1>6, <1>7
<1> QED BY <1>7, <1>8 DEF Lost

-----------------------------------------------------------------------------
(* Steps that several actions share.                                       *)

\* An operation that goes on is a record of Op, and the contents of a file are told apart.
LEMMA OpType ==
    ASSUME TypeOK
    PROVE  /\ Absent \notin Doc /\ Junks \cap Doc = {} /\ Absent \notin Junks
           /\ op.pc # "idle" => op \in Op /\ op # Idle
           /\ op = Idle => op.pc = "idle" /\ op.edit = 0
BY NameAssumption DEF TypeOK, Op, Idle

\* Builds are numbers.
LEMMA BuildFacts ==
    ASSUME NEW p \in Processes
    PROVE  Build[p] \in Nat /\ Build[p] \in Versions
BY ProcessAssumption DEF Processes, Versions

\* Time passes and leaves the order of the copies alone.
LEMMA ClockOn ==
    ASSUME NEW gs, NEW b \in Snapshot, NEW bs \in Nat, gs \subseteq Snapshot, NEW c \in Nat,
           NEW c2 \in Nat, c <= c2, CopiesFit(gs, b, bs, c)
    PROVE  CopiesFit(gs, b, bs, c2)
<1>1. \A s \in gs : s.seq \in Nat /\ s.time \in Nat
  BY DEF Snapshot
<1>2. b.time \in Nat
  BY DEF Snapshot
<1> QED BY <1>1, <1>2 DEF CopiesFit

\* An operation ends and leaves the files as they are.
LEMMA EndStep ==
    ASSUME StoreInv, op' = Idle, UNCHANGED <<primary, bak, bakSeq, gens, clock, skipped, updates>>,
           UNCHANGED acked, allowance' >= allowance, passedOver => passedOver', TypeOK'
    PROVE  StoreInv'
<1>1. OpFits(op', primary', evidence', noticed', updates')
  BY DEF OpFits, Idle, Saving
<1>2. CopiesFit(gens', bak', bakSeq', clock') /\ Ranked(gens')
  BY DEF StoreInv
<1>3. SaveFits(op', primary', gens', bak', bakSeq', clock')
  BY DEF SaveFits, Idle
<1>4. Fresh(op', primary', gens', bak', updates')
  <2>1. updates \in Nat /\ op'.edit = 0 /\ op'.pc \notin Saving
    BY DEF StoreInv, TypeOK, Idle, Saving
  <2>2. \A d : FreshDoc(d, op, updates) => FreshDoc(d, op', updates)
    BY <2>1 DEF FreshDoc
  <2> QED BY <2>1, <2>2 DEF StoreInv, Fresh
<1>5. passedOver' \/ LossFits(op', primary', gens', bak', bakSeq', acked', allowance', skipped')
  <2> SUFFICES ASSUME ~passedOver'
               PROVE  LossFits(op', primary, gens, bak, bakSeq, acked, allowance', skipped)
    OBVIOUS
  <2>1. LossFits(op, primary, gens, bak, bakSeq, acked, allowance, skipped)
    BY DEF StoreInv
  <2>2. /\ allowance \in Nat /\ allowance' \in Nat /\ skipped \in Nat /\ acked \in SUBSET Edits
    BY DEF StoreInv, TypeOK
  <2>3. /\ Slack(op, primary) \in Nat /\ Slack(op', primary) \in Nat
        /\ Slack(op, primary) <= Slack(op', primary)
    BY DEF Slack, Idle
  <2>4. Bounded(gens, bak, bakSeq, acked, allowance' + Slack(op', primary),
                allowance' + skipped + Slack(op', primary))
    <3>1. Bounded(gens, bak, bakSeq, acked, allowance + Slack(op, primary),
                  allowance + skipped + Slack(op, primary))
      BY <2>1 DEF LossFits
    <3>2. /\ allowance + Slack(op, primary) \in Nat /\ allowance' + Slack(op', primary) \in Nat
          /\ allowance + skipped + Slack(op, primary) \in Nat
          /\ allowance' + skipped + Slack(op', primary) \in Nat
          /\ allowance + Slack(op, primary) <= allowance' + Slack(op', primary)
          /\ allowance + skipped + Slack(op, primary) <= allowance' + skipped + Slack(op', primary)
      BY <2>2, <2>3
    <3> QED BY <2>2, <3>1, <3>2, Relax
  <2>5. primary \in Doc => Lost(acked, primary.edits) <= allowance'
    <3>1. Lost(acked, primary.edits) \in Nat
      BY <2>2, LostFacts
    <3> QED BY <2>1, <2>2, <3>1 DEF LossFits
  <2>6. op'.pc \notin Saving
    BY DEF Idle, Saving
  <2> QED BY <2>4, <2>5, <2>6 DEF LossFits
<1> QED BY <1>1, <1>2, <1>3, <1>4, <1>5 DEF StoreInv

\* A registry is loaded: what an update will save holds the document and its edit.
LEMMA LoadedStep ==
    ASSUME StoreInv, op \in Op, NEW doc \in Doc, doc.ver = Build[op.by], FreshDoc(doc, op, updates),
           NEW src \in {"File", "FirstRun", "Backup", "Unread"}, Loaded(doc, src),
           UNCHANGED <<bak, bakSeq, gens, evidence, updates>>,
           stamp' \in Nat, blurred' \in BOOLEAN, clock' \in Nat, clock' >= clock,
           readable' \in BOOLEAN, primary' = primary \/ primary' = doc,
           faults' \in 0..MaxFaults, allowance' \in Nat, skipped' \in Nat, passedOver' \in BOOLEAN,
           \/ passedOver'
           \/ /\ Bounded(gens, bak, bakSeq, acked, allowance' + Slack(Idle, primary'),
                         allowance' + skipped' + Slack(Idle, primary'))
              /\ primary' \in Doc => Lost(acked, primary'.edits) <= allowance'
              /\ Lost(acked, doc.edits) <=
                     allowance' + (IF src = "Unread" /\ primary' \in Doc THEN 1 ELSE 0)
    PROVE  StoreInv'
<1> DEFINE reg == [doc EXCEPT !.edits = @ \cup {op.edit}]
           next == [op EXCEPT !.pc = "save", !.src = src, !.reg = reg]
<1>0. /\ TypeOK /\ OpFits(op, primary, evidence, noticed, updates) /\ updates \in Nat
      /\ CopiesFit(gens, bak, bakSeq, clock) /\ Ranked(gens)
      /\ Fresh(op, primary, gens, bak, updates) /\ acked \in SUBSET Edits
  BY DEF StoreInv, TypeOK
<1>a. /\ op.pc # "idle" /\ op.by \in Processes /\ op.edit \in 0..MaxUpdates
      /\ doc.edits \in SUBSET Edits
  BY DEF Op, Doc
<1>1. \/ op.by = Gateway /\ op' = Idle /\ noticed \in Nat
      \/ op.by # Gateway /\ op' = next /\ noticed' = noticed
  <2>1. op.by = Gateway => noticed \in Nat
    BY <1>0, <1>a DEF OpFits, TypeOK
  <2> QED BY <2>1 DEF Loaded, watch
<1>2. op.by # Gateway => op.edit \in Edits /\ op.edit = updates
  BY <1>0, <1>a DEF OpFits, Edits
<1>3. op.by # Gateway =>
          /\ reg \in Doc /\ reg.ver = Build[op.by] /\ reg.edits = doc.edits \cup {op.edit}
  BY <1>2, <1>a DEF Doc
<1>4. op.by # Gateway =>
          /\ next \in Op /\ next.pc = "save" /\ next.src = src /\ next.reg = reg
          /\ next.by = op.by /\ next.edit = op.edit
  BY <1>3 DEF Op
<1> HIDE DEF reg, next
<1>5. TypeOK'
  <2>1. op' \in Op \cup {Idle}
    BY <1>1, <1>4
  <2>2. /\ live' \subseteq Edits /\ trusted' \in BOOLEAN /\ seen' \in Nat
        /\ noticed' \in Nat \cup {Absent} /\ acked' = acked
    <3>1. CASE op.by = Gateway
      BY <1>0, <1>1, <1>a, <3>1 DEF Loaded, TypeOK
    <3>2. CASE op.by # Gateway
      BY <1>0, <3>2 DEF Loaded, TypeOK, watch
    <3> QED BY <3>1, <3>2
  <2>3. primary' \in Doc \cup Junks \cup {Absent}
    BY <1>0 DEF TypeOK
  <2> QED BY <1>0, <2>1, <2>2, <2>3 DEF TypeOK
<1>6. OpFits(op', primary', evidence', noticed', updates')
  <2>1. CASE op' = Idle
    BY <2>1 DEF OpFits, Idle, Saving
  <2>2. CASE op.by # Gateway /\ op' = next
    <3>1. op'.edit # 0 /\ op'.edit = updates' /\ op'.edit \in op'.reg.edits
      BY <1>2, <1>3, <1>4, <2>2 DEF Edits
    <3>2. op'.pc = "save" /\ op'.src # "none" /\ op'.reg \in Doc /\ op'.reg.ver = Build[op'.by]
          /\ op'.by # Gateway
      BY <1>3, <1>4, <2>2
    <3> QED BY <3>1, <3>2 DEF OpFits, Saving
  <2> QED BY <1>1, <2>1, <2>2
<1>7. CopiesFit(gens', bak', bakSeq', clock') /\ Ranked(gens')
  BY <1>0, ClockOn DEF TypeOK
<1>8. SaveFits(op', primary', gens', bak', bakSeq', clock')
  BY <1>1, <1>4 DEF SaveFits, Idle
<1>9. Fresh(op', primary', gens', bak', updates')
  <2>1. op'.edit \in {0, op.edit}
    BY <1>1, <1>4 DEF Idle
  <2>2. \A d : FreshDoc(d, op, updates) => FreshDoc(d, op', updates)
    BY <1>0, <2>1 DEF FreshDoc
  <2>3. FreshDoc(primary', op', updates)
    BY <1>0, <2>2 DEF Fresh
  <2>4. op'.pc \in Saving => op'.reg.edits \subseteq 1..updates
    <3>1. CASE op' = Idle
      BY <3>1 DEF Idle, Saving
    <3>2. CASE op.by # Gateway /\ op' = next
      <4>1. op'.reg.edits = doc.edits \cup {op.edit} /\ op.edit \in 1..updates
        BY <1>0, <1>2, <1>3, <1>4, <3>2 DEF Edits
      <4> QED BY <4>1 DEF FreshDoc
    <3> QED BY <1>1, <3>1, <3>2
  <2> QED BY <1>0, <2>2, <2>3, <2>4 DEF Fresh
<1>10. passedOver' \/ LossFits(op', primary', gens', bak', bakSeq', acked', allowance', skipped')
  <2> SUFFICES ASSUME ~passedOver'
               PROVE  LossFits(op', primary', gens, bak, bakSeq, acked, allowance', skipped')
    BY DEF Loaded
  <2>1. Slack(op', primary') = Slack(Idle, primary')
    BY <1>1, <1>4 DEF Slack, Idle
  <2>2. CASE op' = Idle
    BY <2>1, <2>2 DEF LossFits, Idle, Saving
  <2>3. CASE op.by # Gateway /\ op' = next
    <3>1. op'.pc = "save" /\ op'.src = src /\ doc.edits \subseteq op'.reg.edits
      BY <1>3, <1>4, <2>3
    <3>2. /\ Lost(acked, op'.reg.edits) <= Lost(acked, doc.edits)
          /\ Lost(acked, op'.reg.edits) \in Nat /\ Lost(acked, doc.edits) \in Nat
      BY <1>0, <3>1, LostFacts
    <3>3. Lost(acked, op'.reg.edits) <=
              allowance' + (IF src = "Unread" /\ primary' \in Doc THEN 1 ELSE 0)
      BY <3>2
    <3> QED BY <2>1, <3>1, <3>3 DEF LossFits
  <2> QED BY <1>1, <2>2, <2>3
<1> QED BY <1>5, <1>6, <1>7, <1>8, <1>9, <1>10 DEF StoreInv

-----------------------------------------------------------------------------
(* The actions.                                                            *)

\* A machine without any registry file satisfies the invariant.
LEMMA StoreInitInv == Init => StoreInv
<1> SUFFICES ASSUME Init PROVE StoreInv
  OBVIOUS
<1>1. /\ 0 \in 0..MaxUpdates /\ 0 \in 0..MaxFaults /\ bak \in Snapshot
      /\ Absent \notin Doc /\ Absent \notin Junks
  BY BoundAssumption, NameAssumption DEF Init, Snapshot
<1>2. Cardinality({}) = 0 /\ 0 <= BACKUP_GENERATIONS
  BY FS_EmptySet, BoundAssumption
<1>3. TypeOK
  BY <1>1, <1>2 DEF TypeOK, Init
<1>4. OpFits(op, primary, evidence, noticed, updates)
  BY DEF OpFits, Init, Idle, Saving
<1>5. CopiesFit(gens, bak, bakSeq, clock) /\ Ranked(gens)
  BY FS_EmptySet DEF CopiesFit, Ranked, Init
<1>6. SaveFits(op, primary, gens, bak, bakSeq, clock)
  BY DEF SaveFits, Init, Idle
<1>7. Fresh(op, primary, gens, bak, updates)
  BY <1>1 DEF Fresh, FreshDoc, Init, Idle, Saving
<1>8. LossFits(op, primary, gens, bak, bakSeq, acked, allowance, skipped)
  <2>1. Slack(op, primary) = 0
    BY <1>1 DEF Slack, Init
  <2>2. Lost(acked, {}) = 0
    BY <1>2 DEF Lost, Init
  <2> QED BY <1>1, <2>1, <2>2 DEF LossFits, Bounded, Init, Idle, Saving
<1> QED BY <1>3, <1>4, <1>5, <1>6, <1>7, <1>8 DEF StoreInv

\* The lock is taken, by an update or by the gateway.
LEMMA BeginStep ==
    ASSUME StoreInv, NEW p, (p \in Writers /\ Update(p)) \/ Reload
    PROVE  StoreInv'
<1> DEFINE next1 == [Idle EXCEPT !.by = p, !.pc = "load", !.edit = updates + 1]
           next2 == [Idle EXCEPT !.by = Gateway, !.pc = "load"]
<1>0. /\ TypeOK /\ op.pc = "idle" /\ updates \in Nat /\ Fresh(op, primary, gens, bak, updates)
      /\ CopiesFit(gens, bak, bakSeq, clock) /\ Ranked(gens)
      /\ UNCHANGED <<files, readable, watch, faults, acked, losses>>
  BY OpType DEF StoreInv, TypeOK, Update, Reload
<1>a. /\ UNCHANGED <<primary, stamp, blurred, bak, bakSeq, gens, evidence, clock>>
      /\ UNCHANGED <<live, trusted, seen, noticed, readable, faults, acked>>
      /\ UNCHANGED <<allowance, skipped, passedOver>>
  BY <1>0 DEF files, watch, losses
<1>1. /\ op'.pc = "load" /\ op'.src = "none" /\ ~op'.restore /\ op' \in Op
      /\ updates' \in 0..MaxUpdates /\ updates' >= updates
      /\ \/ op'.by # Gateway /\ op'.edit = updates' /\ op'.edit = updates + 1
         \/ op'.by = Gateway /\ op'.edit = 0 /\ noticed # Absent
  <2>1. CASE p \in Writers /\ Update(p)
    <3>1. updates' = updates + 1 /\ updates' \in 0..MaxUpdates /\ updates < MaxUpdates
      BY <1>0, <2>1, BoundAssumption DEF Update, TypeOK
    <3>2. p # Gateway /\ p \in Processes
      BY <2>1, ProcessAssumption DEF Processes
    <3>3. next1 \in Op
      BY <3>1, <3>2 DEF Idle, Op, Update
    <3>4. op' = next1
      BY <2>1 DEF Update
    <3>5. next1.pc = "load" /\ next1.src = "none" /\ ~next1.restore /\ next1.by = p
          /\ next1.edit = updates + 1
      BY DEF Idle
    <3> HIDE DEF next1
    <3> QED BY <1>0, <3>1, <3>2, <3>3, <3>4, <3>5
  <2>2. CASE Reload
    <3>1. updates' = updates /\ noticed # Absent
      BY <2>2 DEF Reload
    <3>3. next2 \in Op
      <4>1. 0 \in 0..MaxUpdates /\ Gateway \in Processes
        BY BoundAssumption DEF Processes
      <4> QED BY <4>1 DEF Idle, Op
    <3>4. op' = next2
      BY <2>2 DEF Reload
    <3>5. next2.pc = "load" /\ next2.src = "none" /\ ~next2.restore /\ next2.by = Gateway
          /\ next2.edit = 0
      BY DEF Idle
    <3> HIDE DEF next2
    <3> QED BY <1>0, <3>1, <3>3, <3>4, <3>5 DEF TypeOK
  <2> QED BY <2>1, <2>2
<1>2. TypeOK'
  BY <1>0, <1>a, <1>1 DEF TypeOK
<1>3. OpFits(op', primary', evidence', noticed', updates')
  BY <1>0, <1>a, <1>1 DEF OpFits, Saving
<1>4. CopiesFit(gens', bak', bakSeq', clock') /\ Ranked(gens')
  BY <1>0, <1>a
<1>5. SaveFits(op', primary', gens', bak', bakSeq', clock')
  BY <1>1 DEF SaveFits
<1>6. Fresh(op', primary', gens', bak', updates')
  <2>1. op'.edit = updates + 1 \/ op'.edit = 0
    BY <1>1
  <2>2. updates' \in Nat
    BY <1>1, BoundAssumption
  <2>3. \A d : FreshDoc(d, op, updates) => FreshDoc(d, op', updates')
    BY <1>0, <1>1, <2>1, <2>2 DEF FreshDoc
  <2> QED BY <1>0, <1>a, <1>1, <2>3 DEF Fresh, Saving
<1>7. passedOver' \/ LossFits(op', primary', gens', bak', bakSeq', acked', allowance', skipped')
  <2>1. Slack(op', primary) = Slack(op, primary)
    BY <1>0, <1>1 DEF Slack
  <2> QED BY <1>0, <1>a, <1>1, <2>1 DEF LossFits, StoreInv, Saving
<1> QED BY <1>2, <1>3, <1>4, <1>5, <1>6, <1>7 DEF StoreInv

\* Notice and Blink leave the files and the operation alone.
LEMMA OutsideStep ==
    ASSUME StoreInv, Notice \/ Blink
    PROVE  StoreInv'
<1>1. UNCHANGED <<files, op, live, trusted, seen, updates, acked, losses>>
  BY DEF Notice, Blink, watch
<1>2. /\ UNCHANGED <<primary, stamp, blurred, bak, bakSeq, gens, evidence, clock>>
      /\ UNCHANGED <<op, updates, acked>>
      /\ UNCHANGED <<allowance, skipped, passedOver, live, trusted, seen>>
  BY <1>1 DEF files, losses
<1>3. TypeOK
  BY DEF StoreInv
<1>4. /\ readable' \in BOOLEAN /\ faults' \in 0..MaxFaults /\ noticed' \in Nat \cup {Absent}
      /\ noticed' = noticed \/ noticed = Absent
  <2>1. CASE Notice
    BY <1>3, <2>1 DEF Notice, TypeOK
  <2>2. CASE Blink
    <3>1. faults' \in 0..MaxFaults
      BY <1>3, <2>2, BoundAssumption DEF Blink, Fault, NoFault, TypeOK
    <3> QED BY <1>3, <2>2, <3>1 DEF Blink, watch, TypeOK
  <2> QED BY <2>1, <2>2
<1>5. TypeOK'
  BY <1>2, <1>3, <1>4 DEF TypeOK
<1>6. OpFits(op', primary', evidence', noticed', updates')
  BY <1>2, <1>4 DEF OpFits, StoreInv
<1> QED BY <1>2, <1>5, <1>6 DEF StoreInv

\* Damage: a file is lost between operations, at the price allowance takes down.
LEMMA DamageStep ==
    ASSUME StoreInv, Damage
    PROVE  StoreInv'
<1>0. /\ TypeOK /\ op = Idle /\ op.pc = "idle" /\ op.edit = 0 /\ faults' \in 0..MaxFaults
      /\ CopiesFit(gens, bak, bakSeq, clock) /\ Ranked(gens)
      /\ Fresh(op, primary, gens, bak, updates)
      /\ allowance \in Nat /\ skipped \in Nat /\ clock \in Nat /\ acked \in SUBSET Edits
      /\ bak \in Snapshot /\ bakSeq \in Nat /\ gens \subseteq Snapshot
  BY OpType, BoundAssumption DEF StoreInv, TypeOK, Damage, Fault
<1>a. /\ UNCHANGED <<bakSeq, gens, evidence, readable, op, updates, acked, passedOver>>
      /\ UNCHANGED <<live, trusted, seen, noticed>>
  BY DEF Damage, watch
<1>b. Absent \notin Doc /\ Junks \cap Doc = {} /\ Slack(op, primary) \in {0, 1}
  BY <1>0, OpType DEF Slack
<1>c. passedOver \/ LossFits(op, primary, gens, bak, bakSeq, acked, allowance, skipped)
  BY DEF StoreInv
<1>1. CASE /\ primary \in Doc /\ primary' \in Junks \cup {Absent}
           /\ stamp' = (IF primary' = Absent THEN 0 ELSE clock)
           /\ blurred' = FALSE /\ clock' = clock + 1
           /\ allowance' = allowance + 1 /\ UNCHANGED <<bak, skipped>>
  <2>0. blurred' \in BOOLEAN
    BY <1>1
  <2>1. TypeOK'
    BY <1>0, <1>a, <1>1, <2>0 DEF TypeOK
  <2>2. OpFits(op', primary', evidence', noticed', updates')
    BY <1>0, <1>a DEF OpFits, Saving, Idle
  <2>3. CopiesFit(gens', bak', bakSeq', clock') /\ Ranked(gens')
    BY <1>0, <1>a, <1>1, ClockOn
  <2>4. SaveFits(op', primary', gens', bak', bakSeq', clock')
    BY <1>0, <1>a DEF SaveFits
  <2>5. Fresh(op', primary', gens', bak', updates')
    BY <1>0, <1>a, <1>b, <1>1 DEF Fresh, FreshDoc
  <2>6. ASSUME LossFits(op, primary, gens, bak, bakSeq, acked, allowance, skipped)
        PROVE  LossFits(op', primary', gens', bak', bakSeq', acked', allowance', skipped')
    <3>1. primary' \notin Doc /\ Slack(op, primary) = 1 /\ Slack(op', primary') = 0
      BY <1>0, <1>a, <1>b, <1>1 DEF Slack
    <3>2. /\ allowance' + Slack(op', primary') = allowance + Slack(op, primary)
          /\ allowance' + skipped' + Slack(op', primary') = allowance + skipped + Slack(op, primary)
      BY <1>0, <1>1, <3>1
    <3> QED BY <1>0, <1>a, <1>1, <2>6, <3>1, <3>2 DEF LossFits, Saving
  <2> QED BY <1>a, <1>c, <2>1, <2>2, <2>3, <2>4, <2>5, <2>6 DEF StoreInv
<1>2. CASE /\ bak.doc \in Doc /\ \E j \in Junks : bak' = [bak EXCEPT !.doc = j]
           /\ JournalOnly /\ UNCHANGED <<primary, stamp, blurred, clock>>
  <2>1. bak' \in Snapshot /\ bak'.doc \in Junks /\ bak'.seq = bak.seq /\ bak'.time = bak.time
    BY <1>0, <1>2 DEF Snapshot
  <2>2. TypeOK'
    BY <1>0, <1>a, <1>2, <2>1 DEF TypeOK, JournalOnly
  <2>3. OpFits(op', primary', evidence', noticed', updates')
    BY <1>0, <1>a DEF OpFits, Saving, Idle
  <2>4. CopiesFit(gens', bak', bakSeq', clock') /\ Ranked(gens')
    BY <1>0, <1>a, <1>2, <2>1 DEF CopiesFit
  <2>5. SaveFits(op', primary', gens', bak', bakSeq', clock')
    BY <1>0, <1>a DEF SaveFits
  <2>6. Fresh(op', primary', gens', bak', updates')
    BY <1>0, <1>a, <1>b, <1>2, <2>1 DEF Fresh, FreshDoc
  <2>7. ASSUME LossFits(op, primary, gens, bak, bakSeq, acked, allowance, skipped)
        PROVE  LossFits(op', primary', gens', bak', bakSeq', acked', allowance', skipped')
    <3>1. /\ Slack(op', primary') = Slack(op, primary) /\ skipped' = 0
          /\ allowance' = allowance + 1 + skipped
      BY <1>a, <1>2 DEF JournalOnly
    <3> DEFINE y == allowance + skipped + Slack(op, primary)
               y2 == allowance' + Slack(op', primary')
    <3>2. y \in Nat /\ y2 \in Nat /\ y <= y2 /\ allowance + Slack(op, primary) \in Nat
          /\ allowance' + skipped' + Slack(op', primary') = y2
      BY <1>0, <1>b, <3>1
    <3>3. Bounded(gens, bak, bakSeq, acked, allowance + Slack(op, primary), y)
      BY <2>7 DEF LossFits
    <3> HIDE DEF y, y2
    <3>4. bak'.doc \notin Doc
      BY <1>b, <2>1
    <3>5. Bounded(gens, bak', bakSeq, acked, y, y)
      BY <1>0, <3>2, <3>3, <3>4, BakLost
    <3>6. Bounded(gens, bak', bakSeq, acked, y2, y2)
      BY <1>0, <3>2, <3>5, Relax
    <3>7. primary' \in Doc => Lost(acked', primary'.edits) <= allowance'
      <4>1. Lost(acked, primary.edits) \in Nat
        BY <1>0, LostFacts
      <4> QED BY <1>0, <1>a, <1>2, <2>7, <3>1, <4>1 DEF LossFits
    <3> QED BY <1>0, <1>a, <3>2, <3>6, <3>7 DEF LossFits, Saving, y2
  <2> QED BY <1>a, <1>c, <2>2, <2>3, <2>4, <2>5, <2>6, <2>7 DEF StoreInv
<1> QED BY <1>1, <1>2 DEF Damage

\* Faults are counted up to their bound.
LEMMA FaultType ==
    ASSUME TypeOK, NEW upset, Fault \/ NoFault \/ FaultIf(upset)
    PROVE  faults' \in 0..MaxFaults
<1>1. Fault \/ NoFault
  BY DEF FaultIf
<1> QED BY <1>1, BoundAssumption DEF TypeOK, Fault, NoFault

\* The file is replaced and gets a time.
LEMMA Overwritten ==
    ASSUME TypeOK, NEW doc, NEW upset, Overwrite(doc, upset), seen' \in Nat
    PROVE  /\ primary' = doc /\ stamp' \in Nat /\ blurred' \in BOOLEAN
           /\ clock' \in Nat /\ clock' = clock + 1 /\ faults' \in 0..MaxFaults
<1>1. /\ primary' = doc /\ clock' = clock + 1 /\ stamp' \in {clock, seen'}
      /\ blurred' = FALSE \/ blurred' = TRUE
  BY DEF Overwrite
<1>2. blurred' \in BOOLEAN
  BY <1>1
<1>3. clock' \in Nat /\ stamp' \in Nat
  BY <1>1 DEF TypeOK
<1>4. Fault \/ FaultIf(upset)
  BY DEF Overwrite
<1> QED BY <1>1, <1>2, <1>3, <1>4, FaultType

\* An operation fails, is refused or dies.
LEMMA FailStep ==
    ASSUME StoreInv, op \in Op, Fail,
           UNCHANGED <<primary, stamp, blurred, bak, bakSeq, gens, clock>>,
           UNCHANGED <<readable, updates, skipped>>, evidence' \subseteq Junks,
           faults' \in 0..MaxFaults, allowance' \in Nat, allowance' >= allowance,
           passedOver' \in BOOLEAN, passedOver => passedOver'
    PROVE  StoreInv'
<1>1. TypeOK
  BY DEF StoreInv
<1>2. TypeOK'
  BY <1>1 DEF Fail, TypeOK
<1> QED BY <1>2, EndStep DEF Fail

\* Crash: the holder of the lock dies.
LEMMA CrashStep == ASSUME StoreInv, Crash PROVE StoreInv'
<1>1. TypeOK /\ faults' \in 0..MaxFaults
  BY FaultType DEF StoreInv, Crash
<1>2. /\ op' = Idle /\ UNCHANGED <<primary, stamp, blurred, bak, bakSeq, gens, evidence, clock>>
      /\ UNCHANGED <<readable, live, trusted, seen, noticed, updates, acked>>
      /\ UNCHANGED <<allowance, skipped, passedOver>>
  BY DEF Crash, files, watch, losses
<1>3. TypeOK'
  BY <1>1, <1>2 DEF TypeOK
<1>4. allowance' >= allowance
  BY <1>1, <1>2 DEF TypeOK
<1> QED BY <1>2, <1>3, <1>4, EndStep

\* RefuseBackup: an update does not take what came from a backup.
LEMMA RefuseStep == ASSUME StoreInv, RefuseBackup PROVE StoreInv'
<1>1. op \in Op /\ TypeOK
  BY OpType DEF StoreInv, RefuseBackup
<1>2. /\ Fail /\ UNCHANGED <<primary, stamp, blurred, bak, bakSeq, gens, evidence, clock>>
      /\ UNCHANGED <<readable, updates, faults, allowance, skipped, passedOver>>
  BY DEF RefuseBackup, files, losses
<1>3. /\ evidence' \subseteq Junks /\ faults' \in 0..MaxFaults /\ allowance' \in Nat
      /\ allowance' >= allowance /\ passedOver' \in BOOLEAN
  BY <1>1, <1>2 DEF TypeOK
<1> QED BY <1>1, <1>2, <1>3, FailStep

\* An operation goes on within the load and leaves the files as they are.
LEMMA MoveStep ==
    ASSUME StoreInv, op \in Op, NEW next \in Op, Become(next), next.edit = op.edit,
           op.pc \in {"load", "quarantine"}, next.pc \in {"quarantine", "migrate", "recover"},
           UNCHANGED <<primary, stamp, blurred, bak, bakSeq, gens, clock>>,
           UNCHANGED <<readable, updates, losses>>,
           evidence' \subseteq Junks, faults' \in 0..MaxFaults,
           OpFits(next, primary, evidence', noticed, updates)
    PROVE  StoreInv'
<1>1. /\ TypeOK /\ CopiesFit(gens, bak, bakSeq, clock) /\ Ranked(gens)
      /\ Fresh(op, primary, gens, bak, updates)
      /\ passedOver \/ LossFits(op, primary, gens, bak, bakSeq, acked, allowance, skipped)
  BY DEF StoreInv
<1>2. /\ op' = next /\ UNCHANGED <<live, trusted, seen, noticed, acked>>
      /\ UNCHANGED <<allowance, skipped, passedOver>>
  BY DEF Become, watch, losses
<1>3. TypeOK'
  BY <1>1, <1>2 DEF TypeOK
<1>4. SaveFits(op', primary', gens', bak', bakSeq', clock')
  BY <1>2 DEF SaveFits
<1>5. Fresh(op', primary', gens', bak', updates')
  BY <1>1, <1>2 DEF Fresh, FreshDoc, Saving
<1>6. passedOver' \/ LossFits(op', primary', gens', bak', bakSeq', acked', allowance', skipped')
  <2>1. Slack(op', primary') = Slack(op, primary)
    BY <1>2 DEF Slack
  <2> QED BY <1>1, <1>2, <2>1 DEF LossFits, Saving
<1> QED BY <1>1, <1>2, <1>3, <1>4, <1>5, <1>6 DEF StoreInv

\* Load: the file is read, and what it is decides where the load goes.
LEMMA LoadStep == ASSUME StoreInv, Load PROVE StoreInv'
<1>1. /\ op \in Op /\ TypeOK /\ op.pc = "load" /\ Absent \notin Doc /\ Junks \cap Doc = {}
      /\ OpFits(op, primary, evidence, noticed, updates) /\ op.by \in Processes
      /\ op.src = "none" /\ ~op.restore
  BY OpType DEF StoreInv, Load, OpFits, Op
<1>2. /\ UNCHANGED <<primary, stamp, blurred, bak, bakSeq, gens, evidence, clock>>
      /\ UNCHANGED <<readable, updates, faults, losses>>
      /\ UNCHANGED <<allowance, skipped, passedOver>>
  BY DEF Load, files, losses
<1>3. evidence' \subseteq Junks /\ faults' \in 0..MaxFaults
  BY <1>1, <1>2 DEF TypeOK
<1>4. CASE ~readable /\ Become([op EXCEPT !.pc = "recover", !.src = "Unread"])
  <2> DEFINE next == [op EXCEPT !.pc = "recover", !.src = "Unread"]
  <2>1. /\ next \in Op /\ next.pc = "recover" /\ next.src = "Unread" /\ next.edit = op.edit
        /\ ~next.restore /\ next.by = op.by
    BY <1>1 DEF Op
  <2>2. Become(next)
    BY <1>4
  <2> HIDE DEF next
  <2>3. OpFits(next, primary, evidence', noticed, updates)
    BY <1>1, <2>1 DEF OpFits, Saving
  <2> QED BY <1>1, <1>2, <1>3, <2>1, <2>2, <2>3, MoveStep
<1>5. CASE readable /\ primary = Absent /\ Become([op EXCEPT !.pc = "recover", !.restore = TRUE])
  <2> DEFINE next == [op EXCEPT !.pc = "recover", !.restore = TRUE]
  <2>1. /\ next \in Op /\ next.pc = "recover" /\ next.src = "none" /\ next.edit = op.edit
        /\ next.by = op.by
    BY <1>1 DEF Op
  <2>2. Become(next)
    BY <1>5
  <2> HIDE DEF next
  <2>3. OpFits(next, primary, evidence', noticed, updates)
    BY <1>1, <1>5, <2>1 DEF OpFits, Saving, Replaceable
  <2> QED BY <1>1, <1>2, <1>3, <2>1, <2>2, <2>3, MoveStep
<1>6. CASE readable /\ primary \in Junks /\ Goto("quarantine")
  <2> DEFINE next == [op EXCEPT !.pc = "quarantine"]
  <2>1. /\ next \in Op /\ next.pc = "quarantine" /\ next.src = "none" /\ next.edit = op.edit
        /\ next.by = op.by /\ ~next.restore
    BY <1>1 DEF Op
  <2>2. Become(next)
    BY <1>6 DEF Goto
  <2> HIDE DEF next
  <2>3. OpFits(next, primary, evidence', noticed, updates)
    BY <1>1, <1>6, <2>1 DEF OpFits, Saving
  <2> QED BY <1>1, <1>2, <1>3, <2>1, <2>2, <2>3, MoveStep
<1>7. CASE readable /\ primary \in Doc /\ primary.ver > Build[op.by] /\ Fail
  <2>1. allowance' \in Nat /\ allowance' >= allowance /\ passedOver' \in BOOLEAN
    BY <1>1, <1>2 DEF TypeOK
  <2> QED BY <1>1, <1>2, <1>3, <1>7, <2>1, FailStep
<1>8. CASE readable /\ primary \in Doc /\ primary.ver < Build[op.by] /\ Goto("migrate")
  <2> DEFINE next == [op EXCEPT !.pc = "migrate"]
  <2>1. /\ next \in Op /\ next.pc = "migrate" /\ next.src = "none" /\ next.edit = op.edit
        /\ next.by = op.by
    BY <1>1 DEF Op
  <2>2. Become(next)
    BY <1>8 DEF Goto
  <2> HIDE DEF next
  <2>3. OpFits(next, primary, evidence', noticed, updates)
    BY <1>1, <1>8, <2>1 DEF OpFits, Saving
  <2> QED BY <1>1, <1>2, <1>3, <2>1, <2>2, <2>3, MoveStep
<1>9. CASE readable /\ primary \in Doc /\ primary.ver = Build[op.by] /\ Loaded(primary, "File")
  <2>1. FreshDoc(primary, op, updates)
    BY DEF StoreInv, Fresh
  <2>2. /\ stamp' \in Nat /\ clock' \in Nat /\ clock' >= clock /\ readable' \in BOOLEAN
        /\ allowance' \in Nat /\ skipped' \in Nat /\ passedOver' \in BOOLEAN
        /\ blurred' \in BOOLEAN
    BY <1>1, <1>2 DEF TypeOK
  <2>3. Slack(Idle, primary) = Slack(op, primary)
    BY <1>1 DEF Slack, Idle
  <2>4. \/ passedOver'
        \/ /\ Bounded(gens, bak, bakSeq, acked, allowance' + Slack(Idle, primary'),
                      allowance' + skipped' + Slack(Idle, primary'))
           /\ primary' \in Doc => Lost(acked, primary'.edits) <= allowance'
           /\ Lost(acked, primary.edits) <=
                  allowance' + (IF "File" = "Unread" /\ primary' \in Doc THEN 1 ELSE 0)
    BY <1>1, <1>2, <1>9, <2>3 DEF StoreInv, LossFits, TypeOK
  <2> QED BY <1>1, <1>2, <1>3, <1>9, <2>1, <2>2, <2>4, LoadedStep
<1> QED BY <1>4, <1>5, <1>6, <1>7, <1>8, <1>9 DEF Load

\* Migrate: the older document is brought up to this build, edits unchanged.
LEMMA MigrateStep == ASSUME StoreInv, Migrate PROVE StoreInv'
<1>1. /\ op \in Op /\ TypeOK /\ op.pc = "migrate" /\ op.by \in Processes
      /\ OpFits(op, primary, evidence, noticed, updates)
      /\ op.src = "none" /\ primary \in Doc /\ primary.ver < Build[op.by]
  BY OpType DEF StoreInv, Migrate, OpFits, Op
<1>2. /\ UNCHANGED <<primary, stamp, blurred, bak, bakSeq, gens, evidence, clock>>
      /\ UNCHANGED <<readable, updates, allowance, skipped, passedOver>>
      /\ faults' \in 0..MaxFaults
  BY <1>1, FaultType DEF Migrate, files, losses
<1>3. CASE Fail
  <2>1. evidence' \subseteq Junks /\ allowance' \in Nat /\ allowance' >= allowance
        /\ passedOver' \in BOOLEAN
    BY <1>1, <1>2 DEF TypeOK
  <2> QED BY <1>1, <1>2, <1>3, <2>1, FailStep
<1>4. CASE Become([op EXCEPT !.pc = "save", !.reg = Upgraded(primary)])
  <2> DEFINE next == [op EXCEPT !.pc = "save", !.reg = Upgraded(primary)]
  <2>1. /\ Upgraded(primary) \in Doc /\ Upgraded(primary).ver = Build[op.by]
        /\ Upgraded(primary).edits = primary.edits
    BY <1>1, BuildFacts DEF Upgraded, Doc
  <2>2. /\ next \in Op /\ next.pc = "save" /\ next.src = "none" /\ next.reg = Upgraded(primary)
        /\ next.by = op.by /\ next.edit = op.edit
    BY <1>1, <2>1 DEF Op
  <2>3. op' = next /\ UNCHANGED <<live, trusted, seen, noticed, acked>>
    BY <1>4 DEF Become, watch
  <2> HIDE DEF next
  <2>4. TypeOK'
    BY <1>1, <1>2, <2>2, <2>3 DEF TypeOK
  <2>5. OpFits(op', primary', evidence', noticed', updates')
    BY <1>1, <1>2, <2>1, <2>2, <2>3 DEF OpFits
  <2>6. SaveFits(op', primary', gens', bak', bakSeq', clock')
    BY <2>2, <2>3 DEF SaveFits
  <2>7. Fresh(op', primary', gens', bak', updates')
    BY <1>1, <1>2, <2>1, <2>2, <2>3 DEF StoreInv, Fresh, FreshDoc
  <2>8. passedOver' \/ LossFits(op', primary', gens', bak', bakSeq', acked', allowance', skipped')
    <3>1. Slack(op', primary') = Slack(op, primary)
      BY <1>1, <1>2, <2>2, <2>3 DEF Slack
    <3>2. allowance \in Nat
      BY <1>1 DEF TypeOK
    <3> QED BY <1>1, <1>2, <2>1, <2>2, <2>3, <3>1, <3>2 DEF StoreInv, LossFits
  <2> QED BY <1>2, <2>3, <2>4, <2>5, <2>6, <2>7, <2>8 DEF StoreInv
<1> QED BY <1>3, <1>4 DEF Migrate

\* Quarantine: contents that do not parse are preserved before they may be replaced.
LEMMA QuarantineStep == ASSUME StoreInv, Quarantine PROVE StoreInv'
<1>1. /\ op \in Op /\ TypeOK /\ op.pc = "quarantine" /\ Junks \cap Doc = {}
      /\ OpFits(op, primary, evidence, noticed, updates)
      /\ primary \in Junks /\ op.src = "none" /\ ~op.restore
  BY OpType DEF StoreInv, Quarantine, OpFits
<1>2. /\ UNCHANGED <<primary, stamp, blurred, bak, bakSeq, gens, clock, readable, updates, losses>>
      /\ faults' \in 0..MaxFaults
  BY <1>1, FaultType DEF Quarantine
<1>3. CASE Preserve /\ Become([op EXCEPT !.pc = "recover", !.restore = TRUE])
  <2> DEFINE next == [op EXCEPT !.pc = "recover", !.restore = TRUE]
  <2>1. /\ next \in Op /\ next.pc = "recover" /\ next.src = "none" /\ next.edit = op.edit
        /\ next.by = op.by
    BY <1>1 DEF Op
  <2>2. Become(next)
    BY <1>3
  <2> HIDE DEF next
  <2>3. evidence' \subseteq Junks /\ primary \in evidence'
    BY <1>1, <1>3 DEF Preserve, TypeOK
  <2>4. OpFits(next, primary, evidence', noticed, updates)
    BY <1>1, <2>1, <2>3 DEF OpFits, Saving, Replaceable
  <2> QED BY <1>1, <1>2, <2>1, <2>2, <2>3, <2>4, MoveStep
<1>4. CASE UNCHANGED evidence /\ Goto("recover")
  <2> DEFINE next == [op EXCEPT !.pc = "recover"]
  <2>1. /\ next \in Op /\ next.pc = "recover" /\ next.src = "none" /\ next.edit = op.edit
        /\ next.by = op.by /\ ~next.restore
    BY <1>1 DEF Op
  <2>2. Become(next)
    BY <1>4 DEF Goto
  <2> HIDE DEF next
  <2>3. evidence' \subseteq Junks
    BY <1>1, <1>4 DEF TypeOK
  <2>4. OpFits(next, primary, evidence', noticed, updates)
    BY <1>1, <2>1 DEF OpFits, Saving
  <2> QED BY <1>1, <1>2, <2>1, <2>2, <2>3, <2>4, MoveStep
<1> QED BY <1>3, <1>4 DEF Quarantine

\* What a recovery loads from a copy d, whether or not it can put it in the file's place.
LEMMA RestoredStep ==
    ASSUME StoreInv, op \in Op, op.pc = "recover", NEW d \in Doc, FreshDoc(d, op, updates),
           Loaded(Upgraded(d), IF op.src = "Unread" THEN "Unread" ELSE "Backup"),
           UNCHANGED <<bak, bakSeq, gens, evidence, readable, updates>>,
           stamp' \in Nat, blurred' \in BOOLEAN, clock' \in Nat, clock' >= clock,
           UNCHANGED primary \/ (op.restore /\ primary' = Upgraded(d)),
           faults' \in 0..MaxFaults, allowance' \in Nat, skipped' \in Nat, passedOver' \in BOOLEAN,
           \/ passedOver'
           \/ /\ Bounded(gens, bak, bakSeq, acked, allowance' + Slack(op, primary),
                         allowance' + skipped' + Slack(op, primary))
              /\ primary \in Doc => Lost(acked, primary.edits) <= allowance'
              /\ Lost(acked, d.edits) <= allowance' + Slack(op, primary)
    PROVE  StoreInv'
<1> DEFINE src == IF op.src = "Unread" THEN "Unread" ELSE "Backup"
           doc == Upgraded(d)
<1>1. TypeOK /\ OpFits(op, primary, evidence, noticed, updates) /\ acked \in SUBSET Edits
  BY DEF StoreInv, TypeOK
<1>2. /\ op.restore => op.src # "Unread" /\ primary \notin Doc
      /\ primary \in Doc => op.src = "Unread"
  BY <1>1 DEF OpFits
<1>3. doc \in Doc /\ doc.ver = Build[op.by] /\ doc.edits = d.edits
  <2>1. op.by \in Processes
    BY DEF Op
  <2> QED BY <2>1, BuildFacts DEF Upgraded, Doc
<1>4. FreshDoc(doc, op, updates)
  BY <1>3 DEF FreshDoc
<1>5. src \in {"File", "FirstRun", "Backup", "Unread"} /\ (op.src = "Unread" <=> src = "Unread")
  OBVIOUS
<1>6. Loaded(doc, src)
  OBVIOUS
<1> HIDE DEF src
<1>7. /\ readable' \in BOOLEAN
      /\ primary' = primary \/ primary' = doc
  BY <1>1 DEF TypeOK
<1> HIDE DEF doc
<1>8. \/ passedOver'
      \/ /\ Bounded(gens, bak, bakSeq, acked, allowance' + Slack(Idle, primary'),
                    allowance' + skipped' + Slack(Idle, primary'))
         /\ primary' \in Doc => Lost(acked, primary'.edits) <= allowance'
         /\ Lost(acked, doc.edits) <=
                allowance' + (IF src = "Unread" /\ primary' \in Doc THEN 1 ELSE 0)
  <2> SUFFICES ASSUME ~passedOver'
      PROVE  /\ Bounded(gens, bak, bakSeq, acked, allowance' + Slack(Idle, primary'),
                        allowance' + skipped' + Slack(Idle, primary'))
             /\ primary' \in Doc => Lost(acked, primary'.edits) <= allowance'
             /\ Lost(acked, doc.edits) <=
                    allowance' + (IF src = "Unread" /\ primary' \in Doc THEN 1 ELSE 0)
    OBVIOUS
  <2>1. CASE UNCHANGED primary
    <3>1. Slack(Idle, primary) = Slack(op, primary)
      BY DEF Slack, Idle
    <3>2. Slack(op, primary) = IF src = "Unread" /\ primary \in Doc THEN 1 ELSE 0
      BY <1>2, <1>5 DEF Slack
    <3> QED BY <1>3, <2>1, <3>1, <3>2
  <2>2. CASE op.restore /\ primary' = doc
    <3>1. Slack(op, primary) = 0 /\ Slack(Idle, primary') = 1
      BY <1>2, <1>3, <2>2 DEF Slack, Idle
    <3>2. Lost(acked, doc.edits) \in Nat /\ Lost(acked, doc.edits) <= allowance'
      BY <1>1, <1>3, <3>1, LostFacts
    <3>3. Bounded(gens, bak, bakSeq, acked, allowance', allowance' + skipped')
      BY <3>1
    <3>4. /\ allowance' + 1 \in Nat /\ allowance' + skipped' \in Nat
          /\ allowance' + skipped' + 1 \in Nat
          /\ allowance' <= allowance' + 1 /\ allowance' + skipped' <= allowance' + skipped' + 1
      <4>1. \A a, k \in Nat : /\ a + 1 \in Nat /\ a + k \in Nat /\ a + k + 1 \in Nat
                              /\ a <= a + 1 /\ a + k <= a + k + 1
        OBVIOUS
      <4> QED BY <4>1
    <3>5. Bounded(gens, bak, bakSeq, acked, allowance' + 1, allowance' + skipped' + 1)
      BY <1>1, <3>3, <3>4, Relax
    <3>6. src # "Unread"
      BY <1>2, <1>5, <2>2
    <3> QED BY <2>2, <3>1, <3>2, <3>5, <3>6
  <2> QED BY <2>1, <2>2 DEF doc
<1> QED BY <1>3, <1>4, <1>5, <1>6, <1>7, <1>8, LoadedStep

\* Recover: a usable copy is loaded, or none and the registry is new.
LEMMA RecoverStep == ASSUME StoreInv, Recover PROVE StoreInv'
<1>1. /\ op \in Op /\ op.pc = "recover" /\ TypeOK /\ op.by \in Processes
      /\ OpFits(op, primary, evidence, noticed, updates) /\ Ranked(gens)
      /\ CopiesFit(gens, bak, bakSeq, clock) /\ Fresh(op, primary, gens, bak, updates)
      /\ Absent \notin Doc /\ UNCHANGED <<bak, bakSeq, gens, evidence, readable, updates, skipped>>
      /\ allowance \in Nat /\ skipped \in Nat /\ passedOver \in BOOLEAN /\ acked \in SUBSET Edits
      /\ Slack(op, primary) \in {0, 1}
  BY OpType DEF StoreInv, Recover, Op, TypeOK, Slack
<1>2. /\ Usable \in SUBSET Readable /\ Readable \in SUBSET Copies
      /\ \A s \in Readable : s.doc \in Doc /\ FreshDoc(s.doc, op, updates)
  BY <1>1 DEF Readable, Usable, Copies, CopiesFit, Fresh
<1>3. /\ passedOver' = (passedOver \/ (Readable # {} /\ Newest(Readable) \notin Usable))
      /\ passedOver' \in BOOLEAN /\ passedOver => passedOver'
  BY <1>1 DEF Recover
<1>4. Best \in SUBSET Edits
  <2>1. Usable # {} => Newest(Usable) \in Usable
    BY <1>1, <1>2, NewestFacts
  <2> QED BY <1>2, <2>1 DEF Best, Doc
<1>5. ASSUME ~passedOver'
      PROVE  /\ Bounded(gens, bak, bakSeq, acked, allowance + Slack(op, primary),
                        allowance + skipped + Slack(op, primary))
             /\ primary \in Doc => Lost(acked, primary.edits) <= allowance
             /\ Lost(acked, Best) <= allowance + Slack(op, primary)
  <2>1. LossFits(op, primary, gens, bak, bakSeq, acked, allowance, skipped)
    BY <1>3, <1>5 DEF StoreInv
  <2>2. /\ Bounded(gens, bak, bakSeq, acked, allowance + Slack(op, primary),
                   allowance + skipped + Slack(op, primary))
        /\ primary \in Doc => Lost(acked, primary.edits) <= allowance
    BY <2>1 DEF LossFits
  <2>3. allowance + Slack(op, primary) \in Nat /\ allowance + skipped + Slack(op, primary) \in Nat
    BY <1>1
  <2>4. Readable # {} => Newest(Readable) \in Usable
    BY <1>3, <1>5
  <2> QED BY <1>1, <2>2, <2>3, <2>4, BestLost
<1>6. ASSUME NEW edits, Forgo(edits)
      PROVE  /\ allowance' \in Nat /\ allowance' >= allowance
             /\ ~passedOver' =>
                   /\ Bounded(gens, bak, bakSeq, acked, allowance' + Slack(op, primary),
                              allowance' + skipped + Slack(op, primary))
                   /\ primary \in Doc => Lost(acked, primary.edits) <= allowance'
                   /\ Lost(acked, edits) <= allowance' + Slack(op, primary)
  <2> DEFINE k == Cardinality(Best \ edits)
  <2>1. k \in Nat /\ Lost(acked, edits) <= Lost(acked, Best) + k
    BY <1>1, <1>4, ForgoLost
  <2>2. allowance' = allowance + k
    BY <1>6 DEF Forgo
  <2>3. /\ Lost(acked, edits) \in Nat /\ Lost(acked, Best) \in Nat
        /\ Lost(acked, primary.edits) \in Nat
    BY <1>1, LostFacts
  <2> HIDE DEF k
  <2>4. allowance' \in Nat /\ allowance' >= allowance
    BY <1>1, <2>1, <2>2
  <2>5. ASSUME ~passedOver'
        PROVE  /\ primary \in Doc => Lost(acked, primary.edits) <= allowance'
               /\ Lost(acked, edits) <= allowance' + Slack(op, primary)
    BY <1>1, <1>5, <2>1, <2>2, <2>3, <2>5
  <2>6. /\ allowance + Slack(op, primary) \in Nat /\ allowance' + Slack(op, primary) \in Nat
        /\ allowance + skipped + Slack(op, primary) \in Nat
        /\ allowance' + skipped + Slack(op, primary) \in Nat
        /\ allowance + Slack(op, primary) <= allowance' + Slack(op, primary)
        /\ allowance + skipped + Slack(op, primary) <= allowance' + skipped + Slack(op, primary)
    BY <1>1, <2>4
  <2>7. ASSUME ~passedOver'
        PROVE  Bounded(gens, bak, bakSeq, acked, allowance' + Slack(op, primary),
                       allowance' + skipped + Slack(op, primary))
    BY <1>1, <1>5, <2>6, <2>7, Relax
  <2> QED BY <2>4, <2>5, <2>7
<1>7. CASE /\ FaultIf(Usable # {}) /\ UNCHANGED <<primary, stamp, blurred, clock>>
           /\ \/ /\ op.restore /\ primary = Absent
                 /\ Loaded([ver |-> Build[op.by], edits |-> {}], "FirstRun") /\ Forgo({})
              \/ ~(op.restore /\ primary = Absent) /\ Fail /\ UNCHANGED allowance
  <2>1. /\ faults' \in 0..MaxFaults /\ evidence' \subseteq Junks /\ skipped' \in Nat
        /\ stamp' \in Nat /\ blurred' \in BOOLEAN /\ clock' \in Nat /\ clock' >= clock
        /\ readable' \in BOOLEAN
    BY <1>1, <1>7, FaultType DEF TypeOK
  <2>2. CASE Fail /\ UNCHANGED allowance
    BY <1>1, <1>3, <1>7, <2>1, <2>2, FailStep
  <2>3. CASE /\ op.restore /\ primary = Absent
             /\ Loaded([ver |-> Build[op.by], edits |-> {}], "FirstRun") /\ Forgo({})
    <3> DEFINE doc == [ver |-> Build[op.by], edits |-> {}]
    <3>1. doc \in Doc /\ doc.ver = Build[op.by] /\ doc.edits = {}
      BY <1>1, BuildFacts DEF Doc
    <3>2. FreshDoc(doc, op, updates)
      BY <3>1 DEF FreshDoc
    <3>3. Loaded(doc, "FirstRun")
      BY <2>3
    <3> HIDE DEF doc
    <3>4. /\ allowance' \in Nat
          /\ ~passedOver' =>
                /\ Bounded(gens, bak, bakSeq, acked, allowance' + Slack(op, primary),
                           allowance' + skipped + Slack(op, primary))
                /\ Lost(acked, {}) <= allowance' + Slack(op, primary)
      BY <1>6, <2>3
    <3>5. /\ primary' = primary /\ primary \notin Doc
          /\ Slack(Idle, primary) = 0 /\ Slack(op, primary) = 0
      BY <1>1, <1>7, <2>3 DEF Slack
    <3>6. \/ passedOver'
          \/ /\ Bounded(gens, bak, bakSeq, acked, allowance' + Slack(Idle, primary'),
                        allowance' + skipped' + Slack(Idle, primary'))
             /\ primary' \in Doc => Lost(acked, primary'.edits) <= allowance'
             /\ Lost(acked, doc.edits) <=
                    allowance' + (IF "FirstRun" = "Unread" /\ primary' \in Doc THEN 1 ELSE 0)
      BY <1>1, <3>1, <3>4, <3>5
    <3> QED BY <1>1, <1>3, <2>1, <3>1, <3>2, <3>3, <3>4, <3>5, <3>6, LoadedStep
  <2> QED BY <1>7, <2>2, <2>3
<1>8. ASSUME NEW s \in Usable, Restored(s.doc, PassedFor(s) # {}), Forgo(s.doc.edits)
      PROVE  StoreInv'
  <2> DEFINE d == s.doc
  <2>1. d \in Doc /\ FreshDoc(d, op, updates)
    BY <1>2
  <2>2. Loaded(Upgraded(d), IF op.src = "Unread" THEN "Unread" ELSE "Backup")
    BY <1>8 DEF Restored
  <2>3. seen' \in Nat
    <3>1. op.by = Gateway => noticed \in Nat
      BY <1>1 DEF OpFits, TypeOK, Op
    <3> QED BY <1>1, <2>2, <3>1 DEF Loaded, TypeOK, watch
  <2>4. /\ stamp' \in Nat /\ blurred' \in BOOLEAN /\ clock' \in Nat /\ clock' >= clock
        /\ (UNCHANGED primary \/ (op.restore /\ primary' = Upgraded(d))) /\ faults' \in 0..MaxFaults
    <3>1. clock \in Nat /\ stamp \in Nat /\ blurred \in BOOLEAN
      BY <1>1 DEF TypeOK
    <3>2. CASE op.restore /\ Overwrite(Upgraded(d), PassedFor(s) # {})
      BY <1>1, <2>3, <3>1, <3>2, Overwritten
    <3>3. CASE (Fault \/ FaultIf(PassedFor(s) # {})) /\ UNCHANGED <<primary, stamp, blurred, clock>>
      BY <1>1, <3>1, <3>3, FaultType
    <3> QED BY <1>8, <3>2, <3>3 DEF Restored
  <2>5. allowance' \in Nat /\ skipped' \in Nat
    BY <1>1, <1>6, <1>8
  <2>6. \/ passedOver'
        \/ /\ Bounded(gens, bak, bakSeq, acked, allowance' + Slack(op, primary),
                      allowance' + skipped' + Slack(op, primary))
           /\ primary \in Doc => Lost(acked, primary.edits) <= allowance'
           /\ Lost(acked, d.edits) <= allowance' + Slack(op, primary)
    BY <1>1, <1>6, <1>8
  <2> HIDE DEF d
  <2> QED BY <1>1, <1>3, <2>1, <2>2, <2>4, <2>5, <2>6, RestoredStep
<1> QED BY <1>7, <1>8 DEF Recover

\* Save: the file is looked at again before anything is written.
LEMMA SaveStep == ASSUME StoreInv, Save PROVE StoreInv'
<1>1. /\ op \in Op /\ op.pc = "save" /\ TypeOK /\ op.by \in Processes
      /\ OpFits(op, primary, evidence, noticed, updates) /\ Ranked(gens)
      /\ CopiesFit(gens, bak, bakSeq, clock) /\ Fresh(op, primary, gens, bak, updates)
      /\ Absent \notin Doc /\ Junks \cap Doc = {} /\ Absent \notin Junks
      /\ allowance \in Nat /\ skipped \in Nat /\ passedOver \in BOOLEAN /\ acked \in SUBSET Edits
      /\ primary \in Doc \cup Junks \cup {Absent}
  BY OpType DEF StoreInv, Save, Op, TypeOK
<1>2. /\ UNCHANGED <<primary, stamp, blurred, bak, bakSeq, gens, clock>>
      /\ UNCHANGED <<readable, updates, skipped, passedOver>>
      /\ evidence' \subseteq Junks /\ faults' \in 0..MaxFaults
      /\ allowance' \in Nat /\ allowance' >= allowance
  <2>1. evidence' \subseteq Junks
    BY <1>1 DEF Save, Preserve, TypeOK
  <2>2. faults' \in 0..MaxFaults
    BY <1>1, FaultType DEF Save
  <2> QED BY <1>1, <2>1, <2>2 DEF Save
<1>3. /\ op.reg \in Doc /\ op.reg.ver = Build[op.by] /\ op.reg.edits \subseteq 1..updates
      /\ op.src = "none" => primary \in Doc /\ op.reg.edits = primary.edits
      /\ op.src # "none" => op.edit # 0 /\ op.edit \in op.reg.edits
  BY <1>1 DEF OpFits, Saving, Fresh
<1>4. ASSUME ~passedOver
      PROVE  /\ Bounded(gens, bak, bakSeq, acked, allowance + Slack(op, primary),
                        allowance + skipped + Slack(op, primary))
             /\ primary \in Doc => Lost(acked, primary.edits) <= allowance
             /\ Lost(acked, op.reg.edits) <=
                    allowance + (IF op.src = "Unread" /\ primary \in Doc THEN 1 ELSE 0)
  BY <1>1, <1>4 DEF StoreInv, LossFits, Saving
<1>5. CASE Fail
  BY <1>1, <1>2, <1>5, FailStep
<1>6. CASE /\ readable /\ primary \notin Doc /\ Goto("write")
           /\ primary \in Junks => primary \in evidence'
  <2> DEFINE next == [op EXCEPT !.pc = "write"]
  <2>1. /\ next \in Op /\ next.pc = "write" /\ next.src = op.src /\ next.edit = op.edit
        /\ next.by = op.by /\ next.reg = op.reg
    BY <1>1 DEF Op
  <2>2. op' = next /\ UNCHANGED <<live, trusted, seen, noticed, acked>>
    BY <1>6 DEF Goto, Become, watch
  <2> HIDE DEF next
  <2>3. TypeOK'
    BY <1>1, <1>2, <2>1, <2>2 DEF TypeOK
  <2>4. OpFits(op', primary', evidence', noticed', updates')
    <3>1. Replaceable(primary, evidence', op.by)
      BY <1>1, <1>6 DEF Replaceable
    <3> QED BY <1>1, <1>2, <1>3, <2>1, <2>2, <3>1 DEF OpFits
  <2>5. SaveFits(op', primary', gens', bak', bakSeq', clock')
    BY <2>1, <2>2 DEF SaveFits
  <2>6. Fresh(op', primary', gens', bak', updates')
    BY <1>1, <1>2, <1>3, <2>1, <2>2 DEF Fresh, FreshDoc
  <2>7. ASSUME ~passedOver
        PROVE  LossFits(op', primary', gens', bak', bakSeq', acked', allowance', skipped')
    <3>1. Slack(op', primary') = Slack(op, primary)
      BY <1>2, <1>6 DEF Slack
    <3>2. allowance' = allowance
      BY <1>1, <1>6 DEF Save
    <3>3. Lost(acked, op.reg.edits) <= allowance
      BY <1>1, <1>4, <1>6, <2>7
    <3>4. Lost(acked', op'.reg.edits) <= allowance' + 0
      BY <1>1, <2>1, <2>2, <3>2, <3>3
    <3> QED BY <1>2, <1>4, <1>6, <2>1, <2>2, <2>7, <3>1, <3>2, <3>4 DEF LossFits
  <2> QED BY <1>1, <1>2, <2>2, <2>3, <2>4, <2>5, <2>6, <2>7 DEF StoreInv
<1>7. CASE readable /\ primary \in Doc /\ primary = op.reg /\ Saved /\ UNCHANGED evidence
  <2>1. op.src = "none"
    <3>1. op.edit \notin primary.edits
      BY <1>1, <1>7 DEF Fresh, FreshDoc
    <3> QED BY <1>3, <1>7, <3>1
  <2>2. Loaded(primary, "File")
    BY <1>7, <2>1 DEF Saved
  <2>3. FreshDoc(primary, op, updates) /\ primary.ver = Build[op.by]
    BY <1>1, <1>3, <1>7 DEF Fresh
  <2>4. allowance' = allowance /\ Slack(Idle, primary) = Slack(op, primary)
    BY <1>1, <2>1 DEF Save, Slack, Idle
  <2>5. /\ stamp' \in Nat /\ clock' \in Nat /\ clock' >= clock /\ readable' \in BOOLEAN
        /\ skipped' \in Nat /\ passedOver' \in BOOLEAN /\ blurred' \in BOOLEAN
    BY <1>1, <1>2 DEF TypeOK
  <2>6. \/ passedOver'
        \/ /\ Bounded(gens, bak, bakSeq, acked, allowance' + Slack(Idle, primary'),
                      allowance' + skipped' + Slack(Idle, primary'))
           /\ primary' \in Doc => Lost(acked, primary'.edits) <= allowance'
           /\ Lost(acked, primary.edits) <=
                  allowance' + (IF "File" = "Unread" /\ primary' \in Doc THEN 1 ELSE 0)
    BY <1>1, <1>2, <1>4, <1>7, <2>4
  <2> QED BY <1>1, <1>2, <1>7, <2>2, <2>3, <2>5, <2>6, LoadedStep
<1>8. CASE /\ readable /\ primary \in Doc /\ UNCHANGED evidence
           /\ primary.ver <= Build[op.by] /\ primary # op.reg
           /\ Become([op EXCEPT !.pc = "bak", !.seq = NextSequence, !.missed = FALSE])
  <2> DEFINE next == [op EXCEPT !.pc = "bak", !.seq = clock, !.missed = FALSE]
  <2>1. /\ next \in Op /\ next.pc = "bak" /\ next.src = op.src /\ next.edit = op.edit
        /\ next.by = op.by /\ next.reg = op.reg /\ next.seq = clock /\ ~next.missed
    BY <1>1 DEF Op, TypeOK
  <2>2. op' = next /\ UNCHANGED <<live, trusted, seen, noticed, acked>>
    BY <1>1, <1>8, NextSequenceIsClock DEF Become, watch
  <2> HIDE DEF next
  <2>3. TypeOK'
    BY <1>1, <1>2, <2>1, <2>2 DEF TypeOK
  <2>4. OpFits(op', primary', evidence', noticed', updates')
    <3>1. Replaceable(primary, evidence', op.by)
      BY <1>8 DEF Replaceable
    <3> QED BY <1>1, <1>2, <1>3, <1>8, <2>1, <2>2, <3>1 DEF OpFits
  <2>5. SaveFits(op', primary', gens', bak', bakSeq', clock')
    BY <1>2, <2>1, <2>2 DEF SaveFits
  <2>6. Fresh(op', primary', gens', bak', updates')
    BY <1>1, <1>2, <1>3, <2>1, <2>2 DEF Fresh, FreshDoc
  <2>7. ASSUME ~passedOver
        PROVE  LossFits(op', primary', gens', bak', bakSeq', acked', allowance', skipped')
    <3>1. Slack(op', primary') = 1 /\ Slack(op, primary) = 1
      BY <1>1, <1>2, <1>8, <2>1, <2>2 DEF Slack
    <3>2. allowance' = allowance + (IF op.src = "Unread" THEN 1 ELSE 0)
      BY <1>8 DEF Save
    <3>3. Lost(acked, op.reg.edits) \in Nat /\ Lost(acked, primary.edits) \in Nat
      BY <1>1, LostFacts
    <3>4. Lost(acked, op.reg.edits) <= allowance' /\ Lost(acked, primary.edits) <= allowance'
      BY <1>1, <1>4, <1>8, <2>7, <3>2, <3>3
    <3>5. Bounded(gens, bak, bakSeq, acked, allowance + 1, allowance + skipped + 1)
      BY <1>4, <2>7, <3>1
    <3>6. /\ allowance + 1 \in Nat /\ allowance + skipped + 1 \in Nat /\ allowance' + 1 \in Nat
          /\ allowance' + skipped + 1 \in Nat /\ allowance + 1 <= allowance' + 1
          /\ allowance + skipped + 1 <= allowance' + skipped + 1
      <4>1. \A a, a2, k \in Nat : a2 >= a =>
                /\ a + 1 \in Nat /\ a + k + 1 \in Nat /\ a2 + 1 \in Nat
                /\ a2 + k + 1 \in Nat /\ a + 1 <= a2 + 1 /\ a + k + 1 <= a2 + k + 1
        OBVIOUS
      <4> QED BY <1>1, <1>2, <4>1
    <3>7. Bounded(gens, bak, bakSeq, acked, allowance' + 1, allowance' + skipped + 1)
      BY <1>1, <3>5, <3>6, Relax
    <3>8. Lost(acked', op'.reg.edits) <= allowance' + 0
      BY <1>2, <2>1, <2>2, <3>4
    <3> QED BY <1>2, <2>1, <2>2, <3>1, <3>4, <3>7, <3>8 DEF LossFits
  <2> QED BY <1>1, <1>2, <2>2, <2>3, <2>4, <2>5, <2>6, <2>7 DEF StoreInv
<1> QED
  <2>1. Preserve => primary \in evidence'
    BY DEF Preserve
  <2> QED BY <1>1, <1>5, <1>6, <1>7, <1>8, <2>1 DEF Save

\* What the three steps that write copies have in common.
LEMMA CopyStep ==
    ASSUME StoreInv, op \in Op, NEW next \in Op, Become(next),
           next.edit = op.edit, next.by = op.by, next.reg = op.reg, next.src = op.src,
           op.pc \in {"bak", "seq", "gen"}, next.pc \in {"seq", "gen", "write"},
           UNCHANGED <<primary, stamp, blurred, evidence, readable, updates, passedOver>>,
           clock' \in Nat, faults' \in 0..MaxFaults, bak' \in Snapshot, bakSeq' \in Nat,
           gens' \subseteq Snapshot, Cardinality(gens') <= BACKUP_GENERATIONS,
           bak'.doc \in {bak.doc, primary},
           \A s \in gens' : s \in gens \/ s.doc = primary,
           CopiesFit(gens', bak', bakSeq', clock'), Ranked(gens'),
           SaveFits(next, primary, gens', bak', bakSeq', clock'),
           allowance' \in Nat, allowance' >= allowance, skipped' \in Nat,
           passedOver \/ Bounded(gens', bak', bakSeq', acked, allowance' + Slack(next, primary),
                                 allowance' + skipped' + Slack(next, primary))
    PROVE  StoreInv'
<1>1. /\ TypeOK /\ OpFits(op, primary, evidence, noticed, updates)
      /\ Fresh(op, primary, gens, bak, updates)
      /\ primary \in Doc /\ allowance \in Nat /\ acked \in SUBSET Edits
  BY DEF StoreInv, TypeOK, OpFits
<1>2. op' = next /\ UNCHANGED <<live, trusted, seen, noticed, acked>>
  BY DEF Become, watch
<1>3. TypeOK'
  BY <1>1, <1>2 DEF TypeOK
<1>4. OpFits(op', primary', evidence', noticed', updates')
  BY <1>1, <1>2 DEF OpFits, Saving
<1>5. Fresh(op', primary', gens', bak', updates')
  <2>1. FreshDoc(primary, next, updates) /\ FreshDoc(bak.doc, next, updates)
        /\ \A s \in gens : FreshDoc(s.doc, next, updates)
    BY <1>1 DEF Fresh, FreshDoc
  <2>2. op.reg.edits \subseteq 1..updates
    BY <1>1 DEF Fresh, Saving
  <2> QED BY <1>2, <2>1, <2>2 DEF Fresh
<1>6. passedOver' \/ LossFits(op', primary', gens', bak', bakSeq', acked', allowance', skipped')
  <2> SUFFICES ASSUME ~passedOver
      PROVE LossFits(op', primary', gens', bak', bakSeq', acked', allowance', skipped')
    OBVIOUS
  <2>1. Lost(acked, primary.edits) <= allowance /\ Lost(acked, op.reg.edits) <= allowance + 0
    BY <1>1 DEF StoreInv, LossFits, Saving
  <2>2. Lost(acked, primary.edits) \in Nat /\ Lost(acked, op.reg.edits) \in Nat
    BY <1>1, LostFacts
  <2>3. /\ Lost(acked, primary.edits) <= allowance'
        /\ Lost(acked, op.reg.edits) <= allowance' + 0
    BY <1>1, <2>1, <2>2
  <2> QED BY <1>2, <2>3 DEF LossFits
<1> QED BY <1>2, <1>3, <1>4, <1>5, <1>6 DEF StoreInv

\* WriteBak: the file becomes the single backup, before its sequence is known.
LEMMA WriteBakStep == ASSUME StoreInv, WriteBak PROVE StoreInv'
<1>1. /\ op \in Op /\ op.pc = "bak" /\ TypeOK /\ Ranked(gens)
      /\ CopiesFit(gens, bak, bakSeq, clock) /\ op.seq = clock /\ ~op.missed
      /\ primary \in Doc /\ acked \in SUBSET Edits /\ clock \in Nat
      /\ allowance \in Nat /\ skipped \in Nat /\ bakSeq \in Nat /\ bak \in Snapshot
      /\ gens \subseteq Snapshot /\ Cardinality(gens) <= BACKUP_GENERATIONS
  BY OpType DEF StoreInv, WriteBak, OpFits, SaveFits, TypeOK
<1>2. /\ UNCHANGED <<primary, stamp, blurred, bakSeq, gens, evidence, readable, updates>>
      /\ UNCHANGED <<allowance, skipped, passedOver>> /\ clock' = clock + 1
      /\ faults' \in 0..MaxFaults
  BY <1>1, FaultType DEF WriteBak, losses
<1>3. /\ clock' \in Nat /\ clock' > clock /\ clock' >= clock /\ clock' - 1 = clock /\ clock > 0
      /\ allowance' \in Nat /\ allowance' >= allowance /\ skipped' \in Nat
      /\ \A s \in gens : s.seq < clock /\ s.time < clock
      /\ bak.time < clock /\ bakSeq < clock
  BY <1>1, <1>2 DEF CopiesFit
<1>4. passedOver \/ /\ Bounded(gens, bak, bakSeq, acked, allowance + 1, allowance + skipped + 1)
                    /\ Lost(acked, primary.edits) <= allowance
  <2>1. Slack(op, primary) = 1
    BY <1>1 DEF Slack
  <2> QED BY <1>1, <2>1 DEF StoreInv, LossFits
<1>5. CASE bak' = [Copy EXCEPT !.seq = 0] /\ Goto("seq")
  <2> DEFINE next == [op EXCEPT !.pc = "seq"]
  <2>1. /\ next \in Op /\ next.pc = "seq" /\ next.src = op.src /\ next.edit = op.edit
        /\ next.by = op.by /\ next.reg = op.reg /\ next.seq = clock /\ ~next.missed
    BY <1>1 DEF Op
  <2>2. Become(next)
    BY <1>5 DEF Goto
  <2>3. bak' \in Snapshot /\ bak'.doc = primary /\ bak'.time = clock /\ bak'.seq = 0
    BY <1>1, <1>5 DEF Copy, Snapshot
  <2> HIDE DEF next
  <2>4. CopiesFit(gens', bak', bakSeq', clock')
    <3>1. CopiesFit(gens, bak, bakSeq, clock')
      BY <1>1, <1>3, ClockOn
    <3> QED BY <1>2, <1>3, <2>3, <3>1 DEF CopiesFit
  <2>5. SaveFits(next, primary, gens', bak', bakSeq', clock')
    BY <1>2, <1>3, <2>1, <2>3 DEF SaveFits
  <2>6. passedOver \/ Bounded(gens', bak', bakSeq', acked, allowance' + Slack(next, primary),
                              allowance' + skipped' + Slack(next, primary))
    <3> SUFFICES ASSUME ~passedOver
        PROVE  Bounded(gens, bak', bakSeq, acked, allowance + 1, allowance + skipped + 1)
      <4>1. Slack(next, primary) = 1
        BY <1>1, <2>1 DEF Slack
      <4> QED BY <1>2, <4>1
    <3>1. \A u \in gens : bak.doc \in Doc /\ BakFirst(bak, bakSeq, u) => BakFirst(bak', bakSeq, u)
      <4>1. \A u \in gens : u.time \in Nat
        BY <1>1 DEF Snapshot
      <4> QED BY <1>1, <1>3, <2>3, <4>1 DEF BakFirst
    <3>2. Lost(acked, bak'.doc.edits) <= allowance + 1
      <4>1. Lost(acked, primary.edits) \in Nat
        BY <1>1, LostFacts
      <4> QED BY <1>1, <1>4, <2>3, <4>1
    <3>3. /\ allowance + 1 \in Nat /\ allowance + skipped + 1 \in Nat
          /\ allowance + 1 <= allowance + skipped + 1
      BY <1>1
    <3> QED BY <1>1, <1>4, <2>3, <3>1, <3>2, <3>3, BakBounded
  <2> QED BY <1>1, <1>2, <1>3, <2>1, <2>2, <2>3, <2>4, <2>5, <2>6, CopyStep
<1>6. CASE UNCHANGED bak /\ Become([op EXCEPT !.pc = "gen", !.missed = TRUE])
  <2> DEFINE next == [op EXCEPT !.pc = "gen", !.missed = TRUE]
  <2>1. /\ next \in Op /\ next.pc = "gen" /\ next.src = op.src /\ next.edit = op.edit
        /\ next.by = op.by /\ next.reg = op.reg /\ next.seq = clock /\ next.missed
    BY <1>1 DEF Op
  <2>2. Become(next)
    BY <1>6
  <2> HIDE DEF next
  <2>3. CopiesFit(gens', bak', bakSeq', clock')
    BY <1>1, <1>2, <1>3, <1>6, ClockOn
  <2>4. SaveFits(next, primary, gens', bak', bakSeq', clock')
    BY <1>2, <1>3, <1>6, <2>1 DEF SaveFits
  <2>5. passedOver \/ Bounded(gens', bak', bakSeq', acked, allowance' + Slack(next, primary),
                              allowance' + skipped' + Slack(next, primary))
    <3>1. Slack(next, primary) = 1
      BY <1>1, <2>1 DEF Slack
    <3> QED BY <1>2, <1>4, <1>6, <3>1
  <2>6. bak' \in Snapshot /\ bak'.doc \in {bak.doc, primary} /\ Ranked(gens')
    BY <1>1, <1>2, <1>6
  <2> QED BY <1>1, <1>2, <1>3, <2>1, <2>2, <2>3, <2>4, <2>5, <2>6, CopyStep
<1> QED BY <1>5, <1>6 DEF WriteBak

\* WriteSequence: the sidecar gets the number of the save, or none.
LEMMA WriteSequenceStep == ASSUME StoreInv, WriteSequence PROVE StoreInv'
<1> DEFINE next == [op EXCEPT !.pc = "gen"]
<1>1. /\ op \in Op /\ op.pc = "seq" /\ TypeOK /\ Ranked(gens)
      /\ CopiesFit(gens, bak, bakSeq, clock)
      /\ op.seq = clock - 1 /\ op.seq > 0 /\ ~op.missed
      /\ \A s \in gens : s.seq < op.seq /\ s.time < op.seq
      /\ bak.doc = primary /\ bak.time = op.seq
      /\ primary \in Doc /\ acked \in SUBSET Edits /\ clock \in Nat
      /\ allowance \in Nat /\ skipped \in Nat /\ bakSeq \in Nat /\ bak \in Snapshot
      /\ gens \subseteq Snapshot /\ Cardinality(gens) <= BACKUP_GENERATIONS
  BY OpType DEF StoreInv, WriteSequence, OpFits, SaveFits, TypeOK
<1>2. /\ UNCHANGED <<primary, stamp, blurred, bak, gens, evidence, clock, readable, updates>>
      /\ UNCHANGED <<allowance, skipped, passedOver>> /\ bakSeq' \in {0, op.seq}
      /\ faults' \in 0..MaxFaults
  BY <1>1, FaultType DEF WriteSequence, losses
<1>3. op.seq \in Nat /\ bakSeq' \in Nat /\ bakSeq' < clock /\ allowance' >= allowance
  BY <1>1, <1>2 DEF Op
<1>4. /\ next \in Op /\ next.pc = "gen" /\ next.src = op.src /\ next.edit = op.edit
      /\ next.by = op.by /\ next.reg = op.reg /\ next.seq = op.seq /\ ~next.missed
  BY <1>1 DEF Op
<1>5. Become(next)
  BY DEF WriteSequence, Goto
<1> HIDE DEF next
<1>6. CopiesFit(gens', bak', bakSeq', clock')
  BY <1>1, <1>2, <1>3 DEF CopiesFit
<1>7. SaveFits(next, primary, gens', bak', bakSeq', clock')
  BY <1>1, <1>2, <1>4 DEF SaveFits
<1>8. passedOver \/ Bounded(gens', bak', bakSeq', acked, allowance' + Slack(next, primary),
                            allowance' + skipped' + Slack(next, primary))
  <2>0. Slack(next, primary) = 1 /\ Slack(op, primary) = 1
    BY <1>1, <1>4 DEF Slack
  <2> SUFFICES ASSUME ~passedOver
      PROVE  Bounded(gens, bak, bakSeq', acked, allowance + 1, allowance + skipped + 1)
    BY <1>2, <2>0
  <2>1. /\ Bounded(gens, bak, bakSeq, acked, allowance + 1, allowance + skipped + 1)
        /\ Lost(acked, primary.edits) <= allowance
    BY <1>1, <2>0 DEF StoreInv, LossFits
  <2>2. \A u \in gens : bak.doc \in Doc /\ BakFirst(bak, bakSeq, u) => BakFirst(bak, bakSeq', u)
    <3>1. \A u \in gens : u.time \in Nat /\ u.seq \in Nat
      BY <1>1 DEF Snapshot
    <3> QED BY <1>1, <1>2, <1>3, <3>1 DEF BakFirst
  <2>3. Lost(acked, bak.doc.edits) <= allowance + 1
    <3>1. Lost(acked, primary.edits) \in Nat
      BY <1>1, LostFacts
    <3> QED BY <1>1, <2>1, <3>1
  <2>4. /\ allowance + 1 \in Nat /\ allowance + skipped + 1 \in Nat
        /\ allowance + 1 <= allowance + skipped + 1
    BY <1>1
  <2> QED BY <1>1, <2>1, <2>2, <2>3, <2>4, BakBounded
<1> QED BY <1>1, <1>2, <1>3, <1>4, <1>5, <1>6, <1>7, <1>8, CopyStep

\* WriteGeneration: the journal grows by a copy of the file and is pruned.
LEMMA WriteGenerationStep == ASSUME StoreInv, WriteGeneration PROVE StoreInv'
<1> DEFINE next == [op EXCEPT !.pc = "write"]
<1>1. /\ op \in Op /\ op.pc = "gen" /\ TypeOK /\ Ranked(gens)
      /\ CopiesFit(gens, bak, bakSeq, clock) /\ SaveFits(op, primary, gens, bak, bakSeq, clock)
      /\ op.seq = clock - 1 /\ op.seq > 0
      /\ \A s \in gens : s.seq < op.seq /\ s.time < op.seq
      /\ primary \in Doc /\ acked \in SUBSET Edits /\ clock \in Nat
      /\ allowance \in Nat /\ skipped \in Nat /\ bakSeq \in Nat /\ bak \in Snapshot
      /\ gens \subseteq Snapshot /\ Cardinality(gens) <= BACKUP_GENERATIONS
  BY OpType DEF StoreInv, WriteGeneration, OpFits, SaveFits, TypeOK
<1>2. /\ UNCHANGED <<primary, stamp, blurred, bak, bakSeq, evidence, readable, updates, passedOver>>
      /\ clock' = clock + 1 /\ faults' \in 0..MaxFaults
  BY <1>1, FaultType DEF WriteGeneration
<1>3. /\ op.seq \in Nat /\ clock' \in Nat /\ clock' >= clock /\ op.seq < clock
      /\ bakSeq < clock /\ bak.time < clock /\ bak.time \in Nat /\ bak.seq = 0
  BY <1>1, <1>2 DEF Op, CopiesFit, Snapshot
<1>4. /\ next \in Op /\ next.pc = "write" /\ next.src = op.src /\ next.edit = op.edit
      /\ next.by = op.by /\ next.reg = op.reg /\ Slack(next, primary) = 0
  BY <1>1 DEF Op, Slack
<1>5. Become(next)
  BY DEF WriteGeneration, Goto
<1> HIDE DEF next
<1>6. ASSUME ~passedOver
      PROVE  /\ Bounded(gens, bak, bakSeq, acked, allowance + 1, allowance + skipped + 1)
             /\ Lost(acked, primary.edits) <= allowance
  <2>1. Slack(op, primary) = 1
    BY <1>1 DEF Slack
  <2> QED BY <1>1, <1>6, <2>1 DEF StoreInv, LossFits
<1>7. CopiesFit(gens, bak, bakSeq, clock')
  BY <1>1, <1>3, ClockOn
<1>8. CASE gens' = Pruned(gens \cup {Copy}) /\ UNCHANGED <<allowance, skipped>>
  <2>1. Copy \in Snapshot /\ Copy.seq = op.seq /\ Copy.time = clock /\ Copy.doc = primary
    BY <1>1, <1>3 DEF Copy, Snapshot
  <2>2. Journal(gens) /\ OnTop(gens, Copy)
    BY <1>1, <2>1 DEF Journal, OnTop, CopiesFit
  <2>3. Grown(gens, Copy, gens')
    BY <1>8, <2>2, NewGeneration
  <2>4. /\ gens' \in SUBSET (gens \cup {Copy}) /\ Cardinality(gens') <= BACKUP_GENERATIONS
        /\ Ranked(gens')
    BY <2>3 DEF Grown
  <2>5. gens' \subseteq Snapshot /\ \A s \in gens' : s \in gens \/ s.doc = primary
    BY <1>1, <2>1, <2>4
  <2>6. CopiesFit(gens', bak', bakSeq', clock')
    <3>1. IsFiniteSet(gens')
      <4>1. IsFiniteSet(gens \cup {Copy})
        BY <1>1, FS_AddElement DEF CopiesFit
      <4> QED BY <2>4, <4>1, FS_Subset
    <3>2. \A s \in gens : s.seq \in Nat /\ s.time \in Nat
      BY <1>1 DEF Snapshot
    <3>3. \A s \in gens' : \/ s \in gens
                           \/ s.doc = primary /\ s.seq = op.seq /\ s.time = clock /\ s = Copy
      BY <2>1, <2>4
    <3>4. \A s \in gens' : s.doc \in Doc /\ 0 < s.seq /\ s.seq < clock' /\ s.time < clock'
      BY <1>1, <1>2, <1>3, <1>7, <3>2, <3>3 DEF CopiesFit
    <3>5. \A s, t \in gens' : s # t => s.seq # t.seq
      BY <1>1, <1>3, <3>2, <3>3 DEF CopiesFit
    <3>6. \A s, t \in gens' : s.seq < t.seq => s.time < t.time
      BY <1>1, <1>3, <3>2, <3>3 DEF CopiesFit
    <3> QED BY <1>2, <1>7, <3>1, <3>4, <3>5, <3>6 DEF CopiesFit
  <2>7. SaveFits(next, primary, gens', bak', bakSeq', clock')
    BY <1>4 DEF SaveFits
  <2>8. passedOver \/ Bounded(gens', bak', bakSeq', acked, allowance' + Slack(next, primary),
                              allowance' + skipped' + Slack(next, primary))
    <3> SUFFICES ASSUME ~passedOver
        PROVE  Bounded(gens', bak, bakSeq, acked, allowance, allowance + skipped)
      BY <1>1, <1>2, <1>4, <1>8
    <3>1. Lost(acked, Copy.doc.edits) <= allowance
      BY <1>6, <2>1
    <3>2. bak.doc \in Doc /\ BakFirst(bak, bakSeq, Copy) => Lost(acked, bak.doc.edits) <= allowance
      <4>1. CASE op.missed
        <5>1. bakSeq < op.seq /\ bak.time < op.seq
          BY <1>1, <4>1 DEF SaveFits
        <5> QED BY <1>1, <1>3, <2>1, <5>1 DEF BakFirst
      <4>2. CASE ~op.missed
        <5>1. bak.doc = primary
          BY <1>1, <4>2 DEF SaveFits
        <5> QED BY <1>6, <5>1
      <4> QED BY <4>1, <4>2
    <3>3. allowance + skipped \in Nat /\ allowance <= allowance + skipped
      BY <1>1
    <3>4. Bounded(gens, bak, bakSeq, acked, allowance + 1, (allowance + skipped) + 1)
      BY <1>6
    <3> QED BY <1>1, <2>2, <2>3, <3>1, <3>2, <3>3, <3>4, NewGenerationBounded
  <2>9. /\ bak' \in Snapshot /\ bak'.doc \in {bak.doc, primary} /\ bakSeq' \in Nat
        /\ allowance' \in Nat /\ allowance' >= allowance /\ skipped' \in Nat
    BY <1>1, <1>2, <1>8
  <2> QED BY <1>1, <1>2, <1>3, <1>4, <1>5, <2>4, <2>5, <2>6, <2>7, <2>8, <2>9, CopyStep
<1>9. CASE /\ UNCHANGED gens
           /\ \/ op.missed /\ allowance' = allowance + 1 /\ UNCHANGED skipped
              \/ ~op.missed /\ skipped' = skipped + 1 /\ UNCHANGED allowance
  <2>1. /\ bak' \in Snapshot /\ bak'.doc \in {bak.doc, primary} /\ bakSeq' \in Nat
        /\ allowance' \in Nat /\ allowance' >= allowance /\ skipped' \in Nat
        /\ gens' \subseteq Snapshot /\ Cardinality(gens') <= BACKUP_GENERATIONS /\ Ranked(gens')
        /\ \A s \in gens' : s \in gens \/ s.doc = primary
    BY <1>1, <1>2, <1>9
  <2>2. CopiesFit(gens', bak', bakSeq', clock')
    BY <1>2, <1>7, <1>9
  <2>3. SaveFits(next, primary, gens', bak', bakSeq', clock')
    BY <1>4 DEF SaveFits
  <2>4. passedOver \/ Bounded(gens', bak', bakSeq', acked, allowance' + Slack(next, primary),
                              allowance' + skipped' + Slack(next, primary))
    <3> SUFFICES ASSUME ~passedOver
        PROVE  Bounded(gens, bak, bakSeq, acked, allowance', allowance' + skipped')
      BY <1>2, <1>4, <1>9, <2>1
    <3>1. CASE op.missed
      <4>1. allowance' = allowance + 1 /\ allowance' + skipped' = allowance + skipped + 1
        BY <1>1, <1>9, <3>1
      <4> QED BY <1>6, <4>1
    <3>2. CASE ~op.missed
      <4>1. /\ allowance' = allowance /\ allowance' + skipped' = allowance + skipped + 1
            /\ allowance + skipped + 1 \in Nat /\ allowance <= allowance + skipped + 1
        BY <1>1, <1>9, <3>2
      <4>2. bak.doc = primary /\ bak.time = op.seq /\ bakSeq \in {0, op.seq}
        BY <1>1, <3>2 DEF SaveFits
      <4>3. \A u \in gens : BakFirst(bak, bakSeq, u)
        <5>1. \A u \in gens : u.time \in Nat /\ u.seq \in Nat
          BY <1>1 DEF Snapshot
        <5> QED BY <1>1, <1>3, <4>2, <5>1 DEF BakFirst
      <4>4. Bounded(gens, bak, bakSeq, acked, allowance, allowance + skipped + 1)
        BY <1>1, <1>6, <4>1, <4>2, <4>3, SkipBounded
      <4> QED BY <4>1, <4>4
    <3> QED BY <3>1, <3>2
  <2> QED BY <1>1, <1>2, <1>3, <1>4, <1>5, <2>1, <2>2, <2>3, <2>4, CopyStep
<1> QED BY <1>8, <1>9 DEF WriteGeneration

\* WritePrimary: the update is in the file and succeeds.
LEMMA WritePrimaryStep == ASSUME StoreInv, WritePrimary PROVE StoreInv'
<1>1. /\ op \in Op /\ op.pc = "write" /\ TypeOK /\ op.by \in Processes
      /\ OpFits(op, primary, evidence, noticed, updates) /\ Ranked(gens)
      /\ CopiesFit(gens, bak, bakSeq, clock) /\ Fresh(op, primary, gens, bak, updates)
      /\ allowance \in Nat /\ skipped \in Nat /\ passedOver \in BOOLEAN /\ acked \in SUBSET Edits
      /\ clock \in Nat /\ updates \in Nat /\ bak \in Snapshot /\ bakSeq \in Nat
      /\ gens \subseteq Snapshot
  BY OpType DEF StoreInv, WritePrimary, Op, TypeOK
<1>2. /\ UNCHANGED <<bak, bakSeq, gens, evidence, readable, updates>>
      /\ UNCHANGED <<allowance, skipped, passedOver>>
  BY <1>1 DEF WritePrimary, losses
<1>3. /\ op.reg \in Doc /\ op.reg.ver = Build[op.by] /\ op.reg.edits \subseteq 1..updates
      /\ op.src = "none" => primary \in Doc /\ op.reg.edits = primary.edits
      /\ op.src # "none" => op.edit # 0 /\ op.edit \in op.reg.edits
  BY <1>1 DEF OpFits, Saving, Fresh
<1>4. ASSUME ~passedOver
      PROVE  /\ Bounded(gens, bak, bakSeq, acked, allowance, allowance + skipped)
             /\ Lost(acked, op.reg.edits) <= allowance
  <2>1. Slack(op, primary) = 0
    BY <1>1 DEF Slack
  <2> QED BY <1>1, <1>4, <2>1 DEF StoreInv, LossFits, Saving
<1>5. /\ allowance' \in Nat /\ allowance' >= allowance /\ evidence' \subseteq Junks
      /\ passedOver' \in BOOLEAN /\ skipped' \in Nat /\ readable' \in BOOLEAN
      /\ allowance + 1 \in Nat /\ allowance + skipped + 1 \in Nat /\ allowance + skipped \in Nat
      /\ allowance <= allowance + 1 /\ allowance + skipped <= allowance + skipped + 1
  BY <1>1, <1>2 DEF TypeOK
<1>6. CASE Fault /\ Fail /\ UNCHANGED <<primary, stamp, blurred, clock>>
  <2>1. faults' \in 0..MaxFaults
    BY <1>1, <1>6, FaultType
  <2> QED BY <1>1, <1>2, <1>5, <1>6, <2>1, FailStep
<1>7. CASE Saved /\ Overwrite(op.reg, FALSE)
  <2>a. seen' \in Nat
    <3>1. op.by = Gateway => noticed \in Nat
      BY <1>1 DEF OpFits, TypeOK, Op
    <3> QED BY <1>1, <1>7, <3>1 DEF Saved, Loaded, TypeOK, watch
  <2>b. /\ primary' = op.reg /\ stamp' \in Nat /\ blurred' \in BOOLEAN
        /\ clock' \in Nat /\ clock' = clock + 1 /\ faults' \in 0..MaxFaults
    BY <1>1, <1>7, <2>a, Overwritten
  <2>0. clock' >= clock /\ Slack(Idle, primary') = 1
    BY <1>1, <1>3, <2>b DEF Slack, Idle
  <2>1. CASE op.src = "none"
    <3>1. Loaded(op.reg, "File")
      BY <1>7, <2>1 DEF Saved
    <3>2. FreshDoc(op.reg, op, updates)
      BY <1>1, <1>3, <2>1 DEF Fresh, FreshDoc
    <3>3. ASSUME ~passedOver'
          PROVE  /\ Bounded(gens, bak, bakSeq, acked, allowance' + Slack(Idle, primary'),
                            allowance' + skipped' + Slack(Idle, primary'))
                 /\ primary' \in Doc => Lost(acked, primary'.edits) <= allowance'
                 /\ Lost(acked, op.reg.edits) <=
                        allowance' + (IF "File" = "Unread" /\ primary' \in Doc THEN 1 ELSE 0)
      <4>1. Bounded(gens, bak, bakSeq, acked, allowance + 1, allowance + skipped + 1)
        BY <1>1, <1>2, <1>4, <1>5, <3>3, Relax
      <4> QED BY <1>1, <1>2, <1>4, <1>7, <2>0, <2>b, <3>3, <4>1
    <3> QED BY <1>1, <1>2, <1>3, <1>5, <1>7, <2>0, <2>b, <3>1, <3>2, <3>3, LoadedStep
  <2>2. CASE op.src # "none"
    <3>1. /\ op' = Idle /\ acked' = acked \cup {op.edit} /\ op.edit \in Edits
          /\ UNCHANGED <<live, trusted, seen, noticed>>
      BY <1>1, <1>3, <1>7, <2>2 DEF Saved, watch, Op, Edits
    <3>2. TypeOK'
      <4>1. primary' \in Doc /\ acked' \subseteq Edits
        BY <1>1, <1>3, <2>b, <3>1
      <4> QED BY <1>1, <1>2, <2>0, <2>b, <3>1, <4>1 DEF TypeOK
    <3>3. OpFits(op', primary', evidence', noticed', updates')
      BY <3>1 DEF OpFits, Idle, Saving
    <3>4. CopiesFit(gens', bak', bakSeq', clock') /\ Ranked(gens')
      BY <1>1, <1>2, <2>0, <2>b, ClockOn
    <3>5. SaveFits(op', primary', gens', bak', bakSeq', clock')
      BY <3>1 DEF SaveFits, Idle
    <3>6. Fresh(op', primary', gens', bak', updates')
      <4>1. op'.edit = 0 /\ op'.pc \notin Saving
        BY <3>1 DEF Idle, Saving
      <4>2. \A d : FreshDoc(d, op, updates) => FreshDoc(d, op', updates)
        BY <1>1, <4>1 DEF FreshDoc
      <4>3. FreshDoc(primary', op', updates)
        BY <1>1, <1>3, <2>b, <4>1 DEF FreshDoc
      <4> QED BY <1>1, <1>2, <4>1, <4>2, <4>3 DEF Fresh
    <3>7. ASSUME ~passedOver'
          PROVE  LossFits(op', primary', gens', bak', bakSeq', acked', allowance', skipped')
      <4>1. Bounded(gens, bak, bakSeq, acked \cup {op.edit}, allowance + 1, allowance + skipped + 1)
        BY <1>1, <1>2, <1>4, <1>5, <3>1, <3>7, AckBounded
      <4>2. Lost(acked \cup {op.edit}, op.reg.edits) = Lost(acked, op.reg.edits)
        BY <1>1, <1>3, <2>2, <3>1, LostAck
      <4>3. Slack(op', primary') = 1 /\ op'.pc \notin Saving
        BY <2>0, <2>b, <3>1 DEF Idle, Saving
      <4> QED BY <1>2, <1>4, <2>b, <3>1, <3>7, <4>1, <4>2, <4>3 DEF LossFits
    <3> QED BY <3>2, <3>3, <3>4, <3>5, <3>6, <3>7 DEF StoreInv
  <2> QED BY <2>1, <2>2
<1> QED BY <1>6, <1>7 DEF WritePrimary

-----------------------------------------------------------------------------
(* The theorems.                                                           *)

\* Every step keeps the invariant.
LEMMA StoreNextInv == StoreInv /\ [Next]_vars => StoreInv'
<1> SUFFICES ASSUME StoreInv, [Next]_vars PROVE StoreInv'
  OBVIOUS
<1>1. CASE UNCHANGED vars
  <2>1. /\ UNCHANGED <<primary, stamp, blurred, bak, bakSeq, gens, evidence, clock, readable, op>>
        /\ UNCHANGED <<live, trusted, seen, noticed, updates, faults, acked>>
        /\ UNCHANGED <<allowance, skipped, passedOver>>
    BY <1>1 DEF vars, files, watch, losses
  <2>2. TypeOK'
    BY <2>1 DEF StoreInv, TypeOK
  <2> QED BY <2>1, <2>2 DEF StoreInv
<1>2. CASE \E p \in Writers : Update(p)
  BY <1>2, BeginStep
<1>3. CASE OpStep
  BY <1>3, LoadStep, MigrateStep, QuarantineStep, RecoverStep, RefuseStep, SaveStep,
     WriteBakStep, WriteSequenceStep, WriteGenerationStep, WritePrimaryStep DEF OpStep
<1>4. CASE Crash \/ Notice \/ Damage \/ Blink
  BY <1>4, CrashStep, OutsideStep, DamageStep
<1>5. CASE Reload
  BY <1>5, BeginStep
<1> QED BY <1>1, <1>2, <1>3, <1>4, <1>5 DEF Next

\* StoreStaysOK: for any builds, updates, generations and faults, file, backups and journal stay
\* well formed and the file lacks no more of the updates that succeeded than was lost to damage,
\* to missing backups and to saves of stale copies (write_registry_document, load_from_backup).
THEOREM StoreStaysOK == Spec => []StoreOK
<1>1. StoreInv => StoreOK
  BY DEF StoreInv, StoreOK, EditsKept, LossFits, Lost
<1> QED BY <1>1, StoreInitInv, StoreNextInv, PTL DEF Spec

\* An operation replaces the file only where that is allowed.
LEMMA ReplacesOnly ==
    ASSUME StoreInv, [Next]_vars, op # Idle, primary' # primary
    PROVE  Replaceable(primary, evidence, op.by)
<1>1. TypeOK /\ OpFits(op, primary, evidence, noticed, updates)
  BY DEF StoreInv
<1>2. Recover \/ WritePrimary
  BY DEF Next, OpStep, Update, Load, Migrate, Quarantine, RefuseBackup, Save, WriteBak,
         WriteSequence, WriteGeneration, Crash, Notice, Reload, Damage, Blink, vars, files
<1>3. CASE Recover
  <2>1. op.pc = "recover" /\ op.restore
    BY <1>3 DEF Recover, Restored
  <2> QED BY <1>1, <2>1 DEF OpFits
<1>4. CASE WritePrimary
  BY <1>1, <1>4 DEF WritePrimary, OpFits
<1> QED BY <1>2, <1>3, <1>4

\* ForeignStaysKept: whatever the builds and the faults, an operation overwrites contents that do
\* not parse only once they are preserved, and never the file of a newer build.
THEOREM ForeignStaysKept == Spec => ForeignKept
<1>1. ASSUME StoreInv, [Next]_vars
      PROVE  [op # Idle /\ primary # Absent /\ primary' # primary =>
                IF primary \in Junks THEN primary \in evidence
                ELSE primary.ver <= Build[op.by]]_vars
  BY <1>1, ReplacesOnly, NameAssumption DEF Replaceable
<1> QED BY <1>1, StoreInitInv, StoreNextInv, PTL DEF Spec, ForeignKept

-----------------------------------------------------------------------------
(* The child ledger: the inductive invariant. Its parts are predicates of  *)
(* the state they are about: pd are the numbers and la the last one, gt,   *)
(* lf, hp and ot the lives of gateways, servers, helpers and strangers, pa *)
(* the parents; ks, sp, dr and li what is recorded, spawned, dropped and   *)
(* listed; fl the files; td, a and fo how far reapers are, am and pv what  *)
(* they aim at and have proved, du what they owe and sv what they gave up; *)
(* re and br whether a number was reused or a write failed.                *)

\* Something of a server's group is left.
Alive(lf, hp, s) == lf[s] = "running" \/ hp[s]

\* And no reaper failed to prove or to signal it.
Owed(lf, hp, sv, s) == Alive(lf, hp, s) /\ s \notin sv

\* x keeps its number from being handed out.
Takes(gt, lf, hp, ot, x) ==
  \/ x \in Gateways /\ gt[x] \in {"reaping", "up"}
  \/ x \in Servers /\ (lf[x] \in {"running", "zombie"} \/ hp[x])
  \/ x \in Strangers /\ ot[x] \in {"leading", "orphaned"}

\* Who was started has a number, and a server a gateway that was.
Born(pd, la, gt, lf, hp, pa) ==
  /\ \A g \in Gateways : IF gt[g] = "unborn" THEN pd[g] = 0 ELSE pd[g] \in 1..la
  /\ \A s \in Servers : IF lf[s] = "unborn" THEN pd[s] = 0 /\ ~hp[s]
                        ELSE pd[s] \in 1..la /\ pa[s] \in Gateways /\ gt[pa[s]] # "unborn"

\* No two that take a number have the same one.
Apart(pd, gt, lf, hp, ot) ==
  \A x, y \in AllProcs :
    Takes(gt, lf, hp, ot, x) /\ Takes(gt, lf, hp, ot, y) /\ pd[x] = pd[y] => x = y

\* Without reuse a number stays that of the gateway or server that got it.
Numbered(re, pd) ==
  ~re => \A x, y \in Gateways \cup Servers : pd[x] = pd[y] /\ pd[x] # 0 => x = y

\* What a gateway is busy with, or has recorded, are servers it spawned.
KidsFit(gt, lf, pa, ks, sp, dr, li) ==
  /\ \A g \in Gateways :
       /\ gt[g] # "up" => ks[g] = {} /\ sp[g] = Nil /\ dr[g] = Nil
       /\ \A s \in ks[g] : lf[s] # "unborn" /\ pa[s] = g
       /\ sp[g] # Nil => lf[sp[g]] # "unborn" /\ pa[sp[g]] = g
       /\ dr[g] # Nil => lf[dr[g]] # "unborn" /\ pa[dr[g]] = g
  /\ \A s \in li : lf[s] # "unborn"

\* So is what a file says of its owner.
FilesFit(gt, lf, pa, fl) ==
  \A q \in Pids : fl[q] # Nil =>
    /\ gt[fl[q].owner] # "unborn"
    /\ \A s \in fl[q].children : lf[s] # "unborn" /\ pa[s] = fl[q].owner

\* A reaper works on the file of a gateway that is gone, and on orphans.
ReapFits(pd, gt, lf, pa, td, a, fo) ==
  \A g \in Gateways :
    /\ gt[g] # "reaping" => td[g] = {} /\ a[g] = 0
    /\ a[g] = 0 => fo[g] = {}
    /\ a[g] # 0 => \E o \in Gateways : gt[o] = "gone" /\ pd[o] = a[g]
    /\ \A s \in fo[g] : lf[s] # "unborn" /\ pa[s] \in Gateways /\ gt[pa[s]] = "gone"

\* The group it has proved is that of one of them alone.
AimFits(fo, am, pv) ==
  \A g \in Gateways :
    /\ am[g] # Nil => am[g] \in fo[g]
    /\ pv[g] = IF am[g] = Nil THEN {} ELSE {am[g]}

\* What it has done with the file's children is done.
Emptied(re, lf, hp, sv, fl, a, fo) ==
  ~re => \A g \in Gateways : a[g] # 0 /\ fl[a[g]] # Nil =>
           \A s \in fl[a[g]].children : s \in fo[g] \/ ~Owed(lf, hp, sv, s)

\* The file of a running gateway is its ledger; what is listed is in the ledger of
\* its gateway or, once that is gone, in its file as long as it is alive.
ListedFits(re, br, pd, gt, lf, hp, sv, pa, ks, fl, li) ==
  ~re /\ ~br =>
    /\ \A g \in Gateways : gt[g] \in {"reaping", "up"} => fl[pd[g]] = Content(g, ks[g])
    /\ \A s \in li :
         IF gt[pa[s]] \in {"reaping", "up"} THEN s \in ks[pa[s]]
         ELSE \/ ~Owed(lf, hp, sv, s)
              \/ fl[pd[pa[s]]] # Nil /\ s \in fl[pd[pa[s]]].children

\* What a reaper owes is dead, in its hands, or in a file it has still to look at.
DueFits(re, gt, lf, hp, sv, fl, td, fo, du) ==
  /\ \A g \in Gateways : \A s \in du[g] : lf[s] # "unborn"
  /\ ~re => \A g \in Gateways : gt[g] = "reaping" => \A s \in du[g] :
           \/ ~Owed(lf, hp, sv, s)
           \/ s \in fo[g]
           \/ \E q \in td[g] : fl[q] # Nil /\ s \in fl[q].children /\ gt[fl[q].owner] = "gone"

LedgerInv ==
  /\ LedgerTypeOK
  /\ Born(pid, last, gate, life, helper, parent)
  /\ Apart(pid, gate, life, helper, other)
  /\ Numbered(reused, pid)
  /\ KidsFit(gate, life, parent, kids, spawning, dropping, listed)
  /\ FilesFit(gate, life, parent, file)
  /\ ReapFits(pid, gate, life, parent, todo, at, found)
  /\ AimFits(found, aim, proved)
  /\ Emptied(reused, life, helper, spared, file, at, found)
  /\ ListedFits(reused, broken, pid, gate, life, helper, spared, parent, kids,
                    file, listed)
  /\ DueFits(reused, gate, life, helper, spared, file, todo, found, due)

-----------------------------------------------------------------------------
(* Small facts of processes, numbers and ledgers.                          *)

\* Who runs, exists or is in a group takes its number.
LEMMA WhoTakes ==
  ASSUME LedgerTypeOK, NEW q
  PROVE  /\ \A g \in Gateways : Running(g) => Takes(gate, life, helper, other, g)
         /\ \A x \in AllProcs : Exists(x) => Takes(gate, life, helper, other, x)
         /\ \A x \in Members(q) : x \in Servers \cup Strangers /\ pid[x] = q
                                    /\ Takes(gate, life, helper, other, x)
         /\ \A x \in Servers \cup Strangers :
              pid[x] = q /\ Takes(gate, life, helper, other, x) => x \in Members(q)
  BY KindAssumption DEF LedgerTypeOK, Running, Exists, Takes, Members, AllProcs

\* A number that is free is nobody's.
LEMMA FreeIsNobodys ==
  ASSUME LedgerTypeOK, NEW q, Free(q), NEW x \in AllProcs, Takes(gate, life, helper, other, x)
  PROVE  pid[x] # q
  <1>1. CASE x \in Gateways
    BY <1>1, KindAssumption DEF Free, NobodyAt, Exists, Running, Takes, AllProcs
  <1>2. CASE x \in Servers \cup Strangers
    BY <1>2, WhoTakes DEF Free
  <1>3. QED BY <1>1, <1>2 DEF AllProcs

\* A group of which something is left is that server alone, and can be proved; what
\* can be proved is that server alone.
LEMMA GroupIsIts ==
  ASSUME LedgerTypeOK, Apart(pid, gate, life, helper, other), NEW s \in Servers
  PROVE  /\ Provable(s) => Members(pid[s]) = {s}
         /\ Alive(life, helper, s) => Provable(s)
         /\ Takes(gate, life, helper, other, s) => s \in Members(pid[s])
  <1>1. Takes(gate, life, helper, other, s)
          => \A x \in AllProcs : Takes(gate, life, helper, other, x) /\ pid[x] = pid[s] => x = s
    BY DEF Apart, AllProcs
  <1>2. Takes(gate, life, helper, other, s)
          => Members(pid[s]) \subseteq {s} /\ s \in Members(pid[s])
    BY <1>1, WhoTakes DEF AllProcs
  <1>3. Exists(s) => Takes(gate, life, helper, other, s)
    BY WhoTakes DEF AllProcs
  <1>4. Provable(s) => Members(pid[s]) = {s}
    BY <1>2, <1>3 DEF Provable, group_carries_tag
  <1>5. ASSUME Alive(life, helper, s) PROVE Provable(s)
    <2>1. Takes(gate, life, helper, other, s)
      BY <1>5 DEF Alive, Takes
    <2>2. ~Exists(s) => NobodyAt(pid[s])
      BY <1>1, <2>1, WhoTakes DEF NobodyAt, AllProcs
    <2>3. Members(pid[s]) = {s}
      BY <1>2, <2>1
    <2>4. QED BY <2>2, <2>3 DEF Provable, group_carries_tag
  <1>6. QED BY <1>2, <1>4, <1>5

\* A process that gets a number: it is free, and new unless it is reused.
LEMMA NewNumber ==
  ASSUME LedgerTypeOK, Apart(pid, gate, life, helper, other), NEW x \in AllProcs, NEW q,
         GetPid(x, q)
  PROVE  /\ q \in Pids /\ last' \in 0..MaxPid /\ last <= last' /\ q <= last'
         /\ pid' \in [AllProcs -> 0..MaxPid] /\ pid'[x] = q
         /\ \A y \in AllProcs : y # x => pid'[y] = pid[y]
         /\ \A y \in AllProcs : Takes(gate, life, helper, other, y) => pid[y] # q
  <1>1. \A y \in AllProcs : Takes(gate, life, helper, other, y) => pid[y] # q
    BY FreeIsNobodys DEF GetPid
  <1>2. QED BY <1>1, PidAssumption DEF GetPid, Pids, LedgerTypeOK

\* Two that were started have different numbers as long as none is reused.
LEMMA NumbersDiffer ==
  ASSUME LedgerTypeOK, Born(pid, last, gate, life, helper, parent), Numbered(reused, pid),
         ~reused, NEW x \in Gateways, NEW y \in Gateways, x # y, gate[x] # "unborn"
  PROVE  pid[x] # pid[y]
  <1>1. pid[x] # 0
    BY DEF Born, LedgerTypeOK
  <1>2. QED BY <1>1 DEF Numbered

\* The number of a started gateway names a file.
LEMMA GatewayPid ==
  ASSUME LedgerTypeOK, Born(pid, last, gate, life, helper, parent), NEW g \in Gateways,
         gate[g] # "unborn"
  PROVE  pid[g] \in Pids
  BY PidAssumption DEF Born, LedgerTypeOK, Pids

\* Content: a ledger of the owner, or no file when there is nobody to list.
LEMMA ContentFacts ==
  ASSUME NEW g \in Gateways, NEW T \in SUBSET Servers
  PROVE  /\ Content(g, T) \in Ledgers \cup {Nil}
         /\ Content(g, T) # Nil => T # {} /\ Content(g, T).owner = g /\ Content(g, T).children = T
         /\ T # {} => Content(g, T) # Nil
  BY NilAssumption DEF Content, Ledgers

-----------------------------------------------------------------------------
(* Initially.                                                              *)

\* Nothing runs, nothing is on file.
LEMMA LedgerInitInv == LedgerInit => LedgerInv
  <1> SUFFICES ASSUME LedgerInit PROVE LedgerInv
    OBVIOUS
  <1>1. LedgerTypeOK
    <2>1. /\ pid \in [AllProcs -> 0..MaxPid] /\ last \in 0..MaxPid
          /\ at \in [Gateways -> 0..MaxPid]
      BY PidAssumption DEF LedgerInit
    <2>2. /\ file \in [Pids -> Ledgers \cup {Nil}]
          /\ \A q \in Pids : file[q] = Nil
      BY DEF LedgerInit
    <2>3. QED BY <2>1, <2>2 DEF LedgerInit, LedgerTypeOK
  <1>2. /\ Born(pid, last, gate, life, helper, parent)
        /\ Numbered(reused, pid)
    BY DEF LedgerInit, Born, Numbered, AllProcs
  <1>3. Apart(pid, gate, life, helper, other)
    BY DEF LedgerInit, Apart, Takes
  <1>4. /\ KidsFit(gate, life, parent, kids, spawning, dropping, listed)
        /\ FilesFit(gate, life, parent, file)
        /\ ReapFits(pid, gate, life, parent, todo, at, found)
        /\ AimFits(found, aim, proved)
    BY DEF LedgerInit, KidsFit, FilesFit, ReapFits, AimFits
  <1>5. /\ Emptied(reused, life, helper, spared, file, at, found)
        /\ ListedFits(reused, broken, pid, gate, life, helper, spared, parent, kids,
                    file, listed)
        /\ DueFits(reused, gate, life, helper, spared, file, todo, found, due)
    BY DEF LedgerInit, Emptied, ListedFits, DueFits
  <1>6. QED BY <1>1, <1>2, <1>3, <1>4, <1>5 DEF LedgerInv

-----------------------------------------------------------------------------
(* Steps that only take processes away.                                    *)

\* Nobody gets a number, no server comes up, and what leaves a reaper's hands is
\* dead or given up.
LEMMA ShrinkStep ==
  ASSUME LedgerInv,
         UNCHANGED <<pid, last, parent, gate, spawning, kids, file, todo, at, listed, due,
                     reused, broken>>,
         life' \in [Servers -> {"unborn", "running", "zombie", "reaped"}],
         helper' \in [Servers -> BOOLEAN],
         other' \in [Strangers -> {"unborn", "leading", "orphaned", "gone"}],
         dropping' \in [Gateways -> Servers \cup {Nil}],
         found' \in [Gateways -> SUBSET Servers], hit' \subseteq Servers \cup Strangers,
         aim' \in [Gateways -> Servers \cup {Nil}],
         proved' \in [Gateways -> SUBSET (Servers \cup Strangers)],
         spared \subseteq spared', spared' \subseteq Servers, AimFits(found', aim', proved'),
         \A s \in Servers : /\ life'[s] = "unborn" <=> life[s] = "unborn"
                            /\ helper'[s] => helper[s]
                            /\ Alive(life', helper', s) => Alive(life, helper, s),
         \A x \in AllProcs : Takes(gate, life', helper', other', x)
                               => Takes(gate, life, helper, other, x),
         \A g \in Gateways : \/ dropping'[g] = dropping[g]
                             \/ /\ gate[g] = "up" /\ dropping'[g] \in Servers
                                /\ life[dropping'[g]] # "unborn" /\ parent[dropping'[g]] = g,
         \A g \in Gateways : /\ found'[g] \subseteq found[g]
                             /\ \A s \in found[g] \ found'[g] : ~Owed(life', helper', spared', s)
  PROVE  LedgerInv'
  <1>1. LedgerTypeOK'
    BY DEF LedgerInv, LedgerTypeOK
  <1>2. Born(pid', last', gate', life', helper', parent')
    BY DEF LedgerInv, Born
  <1>3. Apart(pid', gate', life', helper', other')
    BY DEF LedgerInv, Apart
  <1>4. Numbered(reused', pid')
    BY DEF LedgerInv
  <1>5. KidsFit(gate', life', parent', kids', spawning', dropping', listed')
    BY NilAssumption DEF LedgerInv, KidsFit, LedgerTypeOK
  <1>6. FilesFit(gate', life', parent', file')
    BY DEF LedgerInv, FilesFit, LedgerTypeOK, Ledgers
  <1>7. ReapFits(pid', gate', life', parent', todo', at', found')
    BY DEF LedgerInv, ReapFits, LedgerTypeOK
  <1>. \A s \in Servers : Owed(life', helper', spared', s) => Owed(life, helper, spared, s)
    BY DEF Owed
  <1>8. Emptied(reused', life', helper', spared', file', at', found')
    <2> SUFFICES ASSUME ~reused, NEW g \in Gateways, at[g] # 0, file[at[g]] # Nil,
                        NEW s \in file[at[g]].children
                 PROVE  s \in found'[g] \/ ~Owed(life', helper', spared', s)
      BY DEF Emptied
    <2>1. s \in Servers
      BY DEF LedgerInv, LedgerTypeOK, Ledgers, Pids
    <2>2. s \in found[g] \/ ~Owed(life, helper, spared, s)
      BY DEF LedgerInv, Emptied
    <2>3. QED BY <2>1, <2>2
  <1>9. ListedFits(reused', broken', pid', gate', life', helper', spared', parent', kids',
                    file', listed')
    <2>1. \A s \in listed : s \in Servers
      BY DEF LedgerInv, LedgerTypeOK
    <2>2. QED BY <2>1 DEF LedgerInv, ListedFits
  <1>10. DueFits(reused', gate', life', helper', spared', file', todo', found', due')
    <2>1. \A g \in Gateways : \A s \in due[g] : s \in Servers
      BY DEF LedgerInv, LedgerTypeOK
    <2>2. \A g \in Gateways : \A s \in due[g] : life'[s] # "unborn"
      BY <2>1 DEF LedgerInv, DueFits
    <2>3. ASSUME ~reused, NEW g \in Gateways, gate[g] = "reaping", NEW s \in due[g]
          PROVE  \/ ~Owed(life', helper', spared', s)
                 \/ s \in found'[g]
                 \/ \E q \in todo[g] : /\ file[q] # Nil /\ s \in file[q].children
                                       /\ gate[file[q].owner] = "gone"
      BY <2>1, <2>3 DEF LedgerInv, DueFits
    <2>4. QED BY <2>2, <2>3 DEF DueFits
  <1>11. QED BY <1>1, <1>2, <1>3, <1>4, <1>5, <1>6, <1>7, <1>8, <1>9, <1>10 DEF LedgerInv

\* The environment of ShrinkStep where no reaper and no drop is involved.
LEMMA EndsStep ==
  ASSUME LedgerInv,
         UNCHANGED <<pid, last, parent, gate, spawning, dropping, kids, file, reapVars,
                     historyVars>>,
         life' \in [Servers -> {"unborn", "running", "zombie", "reaped"}],
         helper' \in [Servers -> BOOLEAN],
         other' \in [Strangers -> {"unborn", "leading", "orphaned", "gone"}],
         \A s \in Servers : /\ \/ life'[s] = life[s]
                               \/ life[s] = "running" /\ life'[s] # "unborn"
                               \/ life[s] = "zombie" /\ life'[s] = "reaped"
                            /\ helper'[s] => helper[s],
         \A x \in Strangers : other'[x] \in {"leading", "orphaned"}
                                => other[x] \in {"leading", "orphaned"}
  PROVE  LedgerInv'
  <1>1. \A s \in Servers : /\ life'[s] = "unborn" <=> life[s] = "unborn"
                           /\ helper'[s] => helper[s]
                           /\ Alive(life', helper', s) => Alive(life, helper, s)
    BY DEF Alive
  <1>2. \A x \in AllProcs : Takes(gate, life', helper', other', x)
                              => Takes(gate, life, helper, other, x)
    BY DEF Takes
  <1>3. /\ dropping' \in [Gateways -> Servers \cup {Nil}]
        /\ found' \in [Gateways -> SUBSET Servers] /\ hit' \subseteq Servers \cup Strangers
        /\ aim' \in [Gateways -> Servers \cup {Nil}]
        /\ proved' \in [Gateways -> SUBSET (Servers \cup Strangers)]
        /\ spared \subseteq spared' /\ spared' \subseteq Servers /\ AimFits(found', aim', proved')
    BY DEF LedgerInv, LedgerTypeOK, reapVars, historyVars
  <1>4. UNCHANGED <<pid, last, parent, gate, spawning, kids, file, todo, at, listed, due,
                    reused, broken>>
    BY DEF reapVars, historyVars
  <1>5. \A g \in Gateways : dropping'[g] = dropping[g] /\ found'[g] = found[g]
    BY DEF reapVars
  <1>6. QED BY <1>1, <1>2, <1>3, <1>4, <1>5, ShrinkStep

\* A server or a helper ends, a dead server is waited for.
LEMMA ServerEndsStep ==
  ASSUME LedgerInv, NEW s \in Servers,
         \/ ServerExits(s) \/ HelperExits(s) \/ \E g \in Gateways : TryWait(g, s)
  PROVE  LedgerInv'
  <1>1. /\ life \in [Servers -> {"unborn", "running", "zombie", "reaped"}]
        /\ helper \in [Servers -> BOOLEAN]
        /\ other \in [Strangers -> {"unborn", "leading", "orphaned", "gone"}]
    BY DEF LedgerInv, LedgerTypeOK
  <1>2. CASE ServerExits(s)
    <2>1. /\ life' \in [Servers -> {"unborn", "running", "zombie", "reaped"}]
          /\ \A t \in Servers : \/ life'[t] = life[t]
                                \/ life[t] = "running" /\ life'[t] # "unborn"
      BY <1>1, <1>2 DEF ServerExits
    <2>2. QED BY <1>1, <1>2, <2>1, EndsStep DEF ServerExits
  <1>3. CASE HelperExits(s)
    <2>1. helper' \in [Servers -> BOOLEAN] /\ \A t \in Servers : helper'[t] => helper[t]
      BY <1>1, <1>3 DEF HelperExits
    <2>2. QED BY <1>1, <1>3, <2>1, EndsStep DEF HelperExits
  <1>4. CASE \E g \in Gateways : TryWait(g, s)
    <2>1. PICK g \in Gateways : TryWait(g, s)
      BY <1>4
    <2>2. /\ life' \in [Servers -> {"unborn", "running", "zombie", "reaped"}]
          /\ \A t \in Servers : life'[t] = life[t] \/ (life[t] = "zombie" /\ life'[t] = "reaped")
      BY <1>1, <2>1 DEF TryWait
    <2>3. QED BY <1>1, <2>1, <2>2, EndsStep DEF TryWait
  <1>5. QED BY <1>2, <1>3, <1>4

\* The drop of a transport takes the server's process, and its group unless it was reaped.
LEMMA DropStep ==
  ASSUME LedgerInv, NEW g \in Gateways, NEW s \in Servers, Drop(g, s)
  PROVE  LedgerInv'
  <1>1. life[s] # "unborn"
    BY DEF LedgerInv, KidsFit, Drop
  <1>2. /\ life' \in [Servers -> {"unborn", "running", "zombie", "reaped"}]
        /\ life'[s] = "reaped" /\ \A t \in Servers : t # s => life'[t] = life[t]
    BY DEF LedgerInv, LedgerTypeOK, Drop
  <1>3. /\ helper' \in [Servers -> BOOLEAN] /\ \A t \in Servers : helper'[t] => helper[t]
    BY DEF LedgerInv, LedgerTypeOK, Drop
  <1>4. /\ dropping' \in [Gateways -> Servers \cup {Nil}] /\ dropping'[g] = s
        /\ \A h \in Gateways : h # g => dropping'[h] = dropping[h]
    BY DEF LedgerInv, LedgerTypeOK, Drop
  <1>5. /\ UNCHANGED <<pid, last, parent, gate, spawning, kids, file, todo, at, found, aim,
                       proved, listed, due, hit, spared, reused, broken, other>>
        /\ gate[g] = "up" /\ parent[s] = g
    BY DEF Drop, reapVars, historyVars
  <1>6. /\ \A t \in Servers : /\ life'[t] = "unborn" <=> life[t] = "unborn"
                              /\ Alive(life', helper', t) => Alive(life, helper, t)
        /\ \A x \in AllProcs : Takes(gate, life', helper', other', x)
                                 => Takes(gate, life, helper, other, x)
    BY <1>1, <1>2, <1>3, <1>5 DEF Alive, Takes
  <1>7. /\ other' \in [Strangers -> {"unborn", "leading", "orphaned", "gone"}]
        /\ found' \in [Gateways -> SUBSET Servers] /\ hit' \subseteq Servers \cup Strangers
        /\ aim' \in [Gateways -> Servers \cup {Nil}]
        /\ proved' \in [Gateways -> SUBSET (Servers \cup Strangers)]
        /\ spared \subseteq spared' /\ spared' \subseteq Servers /\ AimFits(found', aim', proved')
    BY <1>5 DEF LedgerInv, LedgerTypeOK
  <1>8. \A h \in Gateways : \/ dropping'[h] = dropping[h]
                            \/ /\ gate[h] = "up" /\ dropping'[h] \in Servers
                               /\ life[dropping'[h]] # "unborn" /\ parent[dropping'[h]] = h
    BY <1>1, <1>4, <1>5
  <1>9. QED BY <1>2, <1>3, <1>4, <1>5, <1>6, <1>7, <1>8, ShrinkStep

\* A reaper proves the group of a dead gateway's child, which is then that server
\* alone, or gives it up.
LEMMA ProofStep ==
  ASSUME LedgerInv, NEW g \in Gateways, NEW s \in Servers, kill_orphan_group(g, s)
  PROVE  LedgerInv'
  <1>1. LedgerTypeOK /\ Apart(pid, gate, life, helper, other) /\ AimFits(found, aim, proved)
    BY DEF LedgerInv
  <1>2. /\ UNCHANGED <<pid, last, parent, gate, spawning, dropping, kids, file, todo, at, listed,
                       due, hit, reused, broken, life, helper, other>>
        /\ s \in found[g] /\ aim[g] = Nil
    BY DEF kill_orphan_group, osVars
  <1>3. /\ found \in [Gateways -> SUBSET Servers] /\ aim \in [Gateways -> Servers \cup {Nil}]
        /\ proved \in [Gateways -> SUBSET (Servers \cup Strangers)] /\ spared \subseteq Servers
    BY <1>1 DEF LedgerTypeOK
  <1>4. /\ found' \in [Gateways -> SUBSET Servers] /\ aim' \in [Gateways -> Servers \cup {Nil}]
        /\ proved' \in [Gateways -> SUBSET (Servers \cup Strangers)]
        /\ spared \subseteq spared' /\ spared' \subseteq Servers /\ AimFits(found', aim', proved')
        /\ \A h \in Gateways : /\ found'[h] \subseteq found[h]
                               /\ \A t \in found[h] \ found'[h] : t \in spared'
    <2>1. CASE /\ Provable(s) /\ aim' = [aim EXCEPT ![g] = s]
               /\ proved' = [proved EXCEPT ![g] = Members(pid[s])]
               /\ UNCHANGED <<found, spared>>
      <3>1. Members(pid[s]) = {s} /\ s # Nil
        BY <1>1, <2>1, GroupIsIts, NilAssumption
      <3>2. /\ aim' \in [Gateways -> Servers \cup {Nil}] /\ aim'[g] = s
            /\ proved' \in [Gateways -> SUBSET (Servers \cup Strangers)] /\ proved'[g] = {s}
            /\ \A h \in Gateways : h # g => aim'[h] = aim[h] /\ proved'[h] = proved[h]
        BY <1>3, <2>1, <3>1
      <3>3. AimFits(found', aim', proved')
        BY <1>1, <1>2, <2>1, <3>1, <3>2 DEF AimFits
      <3>4. QED BY <1>3, <2>1, <3>2, <3>3
    <2>2. CASE /\ found' = [found EXCEPT ![g] = @ \ {s}] /\ spared' = spared \cup {s}
               /\ UNCHANGED <<aim, proved>>
      <3>1. /\ found' \in [Gateways -> SUBSET Servers] /\ found'[g] = found[g] \ {s}
            /\ \A h \in Gateways : h # g => found'[h] = found[h]
        BY <1>3, <2>2
      <3>2. AimFits(found', aim', proved')
        BY <1>1, <1>2, <2>2, <3>1 DEF AimFits
      <3>3. QED BY <1>3, <2>2, <3>1, <3>2
    <2>3. QED BY <2>1, <2>2 DEF kill_orphan_group
  <1>5. \A h \in Gateways : /\ found'[h] \subseteq found[h]
                            /\ \A t \in found[h] \ found'[h] : ~Owed(life', helper', spared', t)
    BY <1>4 DEF Owed
  <1>6. /\ life' \in [Servers -> {"unborn", "running", "zombie", "reaped"}]
        /\ helper' \in [Servers -> BOOLEAN]
        /\ other' \in [Strangers -> {"unborn", "leading", "orphaned", "gone"}]
        /\ dropping' \in [Gateways -> Servers \cup {Nil}] /\ hit' \subseteq Servers \cup Strangers
    BY <1>1, <1>2 DEF LedgerTypeOK
  <1>7. QED BY <1>2, <1>4, <1>5, <1>6, ShrinkStep

\* The signal: the group that has the number is gone.  If anything was left of the
\* group that was proved, that is the one.
LEMMA KillVictims ==
  ASSUME LedgerInv, NEW q, NEW s \in Servers, pid[s] = q, KillGroup(q)
  PROVE  /\ life' \in [Servers -> {"unborn", "running", "zombie", "reaped"}]
         /\ helper' \in [Servers -> BOOLEAN]
         /\ other' \in [Strangers -> {"unborn", "leading", "orphaned", "gone"}]
         /\ hit' = hit \cup Members(q) /\ hit' \subseteq Servers \cup Strangers
         /\ \A t \in Servers : /\ life'[t] = "unborn" <=> life[t] = "unborn"
                               /\ helper'[t] => helper[t]
                               /\ Alive(life', helper', t) => Alive(life, helper, t)
         /\ \A x \in AllProcs : Takes(gate, life', helper', other', x)
                                  => Takes(gate, life, helper, other, x)
         /\ ~Alive(life', helper', s)
  <1>1. LedgerTypeOK /\ Apart(pid, gate, life, helper, other)
    BY DEF LedgerInv
  <1>2. /\ life \in [Servers -> {"unborn", "running", "zombie", "reaped"}]
        /\ helper \in [Servers -> BOOLEAN]
        /\ other \in [Strangers -> {"unborn", "leading", "orphaned", "gone"}]
        /\ hit \subseteq Servers \cup Strangers
    BY <1>1 DEF LedgerTypeOK
  <1>3. \A t \in Servers : Exists(t) => /\ life[t] \in {"running", "zombie"}
                                        /\ Killed(t) \in {"zombie", "reaped"}
    BY <1>2, KindAssumption DEF Exists, Killed
  <1>4. /\ life' = [t \in Servers |-> IF t \in Members(q) /\ Exists(t) THEN Killed(t) ELSE life[t]]
        /\ helper' = [t \in Servers |-> helper[t] /\ t \notin Members(q)]
        /\ other' = [x \in Strangers |-> IF x \in Members(q) THEN "gone" ELSE other[x]]
        /\ hit' = hit \cup Members(q)
    BY DEF KillGroup
  <1>5. /\ life' \in [Servers -> {"unborn", "running", "zombie", "reaped"}]
        /\ \A t \in Servers : \/ life'[t] = life[t] /\ ~(t \in Members(q) /\ Exists(t))
                              \/ life'[t] \in {"zombie", "reaped"} /\ life[t] \in {"running", "zombie"}
    BY <1>2, <1>3, <1>4
  <1>6. /\ helper' \in [Servers -> BOOLEAN]
        /\ \A t \in Servers : helper'[t] => helper[t] /\ t \notin Members(q)
    BY <1>2, <1>4
  <1>7. /\ other' \in [Strangers -> {"unborn", "leading", "orphaned", "gone"}]
        /\ \A x \in Strangers : other'[x] \in {other[x], "gone"}
    BY <1>2, <1>4
  <1>8. hit' \subseteq Servers \cup Strangers
    BY <1>1, <1>2, <1>4, WhoTakes
  <1>9. \A t \in Servers : /\ life'[t] = "unborn" <=> life[t] = "unborn"
                           /\ helper'[t] => helper[t]
                           /\ Alive(life', helper', t) => Alive(life, helper, t)
    BY <1>5, <1>6 DEF Alive
  <1>10. \A x \in AllProcs : Takes(gate, life', helper', other', x)
                               => Takes(gate, life, helper, other, x)
    BY <1>5, <1>6, <1>7 DEF Takes
  <1>11. ~Alive(life', helper', s)
    <2>1. Alive(life, helper, s) => s \in Members(q)
      BY <1>1, GroupIsIts DEF Alive, Takes
    <2>2. life[s] = "running" => Exists(s)
      BY DEF Exists
    <2>3. QED BY <1>5, <1>6, <2>1, <2>2 DEF Alive
  <1>12. QED BY <1>4, <1>5, <1>6, <1>7, <1>8, <1>9, <1>10, <1>11

\* What a reaper aims at is an orphan in its hands, and all it has proved.
LEMMA AimedAt ==
  ASSUME LedgerInv, NEW g \in Gateways, aim[g] # Nil
  PROVE  /\ aim[g] \in Servers /\ aim[g] \in found[g] /\ proved[g] = {aim[g]}
         /\ ~Running(parent[aim[g]])
  <1>1. aim[g] \in Servers /\ aim[g] \in found[g] /\ proved[g] = {aim[g]}
    BY DEF LedgerInv, LedgerTypeOK, AimFits
  <1>2. QED BY <1>1 DEF LedgerInv, ReapFits, Running

\* The second half of kill_orphan_group: the child is dead afterwards, or given up.
LEMMA KillStep ==
  ASSUME LedgerInv, NEW g \in Gateways, killpg(g)
  PROVE  LedgerInv'
  <1>1. PICK s : s = aim[g]
    OBVIOUS
  <1>2. s \in Servers /\ s \in found[g]
    BY <1>1, AimedAt DEF killpg
  <1>3. UNCHANGED <<pid, last, parent, gate, spawning, dropping, kids, file, todo, at, listed,
                    due, reused, broken>>
    BY DEF killpg
  <1>4. /\ found \in [Gateways -> SUBSET Servers] /\ aim \in [Gateways -> Servers \cup {Nil}]
        /\ proved \in [Gateways -> SUBSET (Servers \cup Strangers)] /\ spared \subseteq Servers
        /\ AimFits(found, aim, proved)
    BY DEF LedgerInv, LedgerTypeOK
  <1>5. /\ found' \in [Gateways -> SUBSET Servers] /\ found'[g] = found[g] \ {s}
        /\ aim' \in [Gateways -> Servers \cup {Nil}] /\ aim'[g] = Nil
        /\ proved' \in [Gateways -> SUBSET (Servers \cup Strangers)] /\ proved'[g] = {}
        /\ \A h \in Gateways : h # g => /\ found'[h] = found[h] /\ aim'[h] = aim[h]
                                        /\ proved'[h] = proved[h]
    BY <1>1, <1>4 DEF killpg
  <1>6. AimFits(found', aim', proved')
    BY <1>4, <1>5 DEF AimFits
  <1>7. /\ life' \in [Servers -> {"unborn", "running", "zombie", "reaped"}]
        /\ helper' \in [Servers -> BOOLEAN]
        /\ other' \in [Strangers -> {"unborn", "leading", "orphaned", "gone"}]
        /\ hit' \subseteq Servers \cup Strangers
        /\ \A t \in Servers : /\ life'[t] = "unborn" <=> life[t] = "unborn"
                              /\ helper'[t] => helper[t]
                              /\ Alive(life', helper', t) => Alive(life, helper, t)
        /\ \A x \in AllProcs : Takes(gate, life', helper', other', x)
                                 => Takes(gate, life, helper, other, x)
        /\ spared \subseteq spared' /\ spared' \subseteq Servers
        /\ ~Alive(life', helper', s) \/ s \in spared'
    <2>1. CASE KillGroup(pid[s]) /\ UNCHANGED spared
      BY <1>2, <1>4, <2>1, KillVictims
    <2>2. CASE spared' = spared \cup {s} /\ UNCHANGED <<life, helper, other, hit>>
      BY <1>2, <1>4, <2>2 DEF LedgerInv, LedgerTypeOK
    <2>3. QED BY <1>1, <2>1, <2>2 DEF killpg
  <1>8. \A h \in Gateways : /\ found'[h] \subseteq found[h]
                            /\ \A t \in found[h] \ found'[h] : ~Owed(life', helper', spared', t)
    BY <1>5, <1>7 DEF Owed
  <1>9. dropping' \in [Gateways -> Servers \cup {Nil}]
    BY <1>3 DEF LedgerInv, LedgerTypeOK
  <1>10. QED BY <1>3, <1>5, <1>6, <1>7, <1>8, <1>9, ShrinkStep

-----------------------------------------------------------------------------
(* Other programs.                                                         *)

\* A stranger that gets a number gets one nobody has.
LEMMA StrangerBornStep ==
  ASSUME LedgerInv, NEW x \in Strangers, NEW q \in 1..last, GetPid(x, q),
         other[x] = "unborn", other' = [other EXCEPT ![x] = "leading"],
         UNCHANGED <<life, helper, parent, gate, spawning, dropping, kids, file, reapVars,
                     historyVars>>
  PROVE  LedgerInv'
  <1>1. /\ q \in Pids /\ pid' \in [AllProcs -> 0..MaxPid] /\ pid'[x] = q
        /\ \A y \in AllProcs : y # x => pid'[y] = pid[y]
        /\ \A y \in AllProcs : Takes(gate, life, helper, other, y) => pid[y] # q
    BY NewNumber DEF LedgerInv, AllProcs
  <1>2. last' = last
    BY DEF GetPid, LedgerInv, LedgerTypeOK
  <1>3. \A y \in Gateways \cup Servers : pid'[y] = pid[y]
    BY <1>1, KindAssumption DEF AllProcs
  <1>4. UNCHANGED <<todo, at, found, aim, proved, listed, due, hit, spared, reused, broken>>
    BY DEF reapVars, historyVars
  <1>5. LedgerTypeOK'
    <2>1. other' \in [Strangers -> {"unborn", "leading", "orphaned", "gone"}]
      BY DEF LedgerInv, LedgerTypeOK
    <2>2. \A p \in Pids : file'[p] # Nil => pid'[file'[p].owner] = p
      BY <1>3 DEF LedgerInv, LedgerTypeOK, Ledgers
    <2>3. QED BY <1>1, <1>2, <1>4, <2>1, <2>2 DEF LedgerInv, LedgerTypeOK
  <1>6. Born(pid', last', gate', life', helper', parent')
    BY <1>2, <1>3 DEF LedgerInv, Born
  <1>7. Apart(pid', gate', life', helper', other')
    <2>1. \A y \in AllProcs : Takes(gate, life, helper, other', y)
                                => y = x \/ Takes(gate, life, helper, other, y)
      BY DEF Takes, LedgerInv, LedgerTypeOK
    <2>2. QED BY <1>1, <2>1 DEF Apart, LedgerInv
  <1>8. Numbered(reused', pid')
    BY <1>3, <1>4 DEF LedgerInv, Numbered
  <1>9. /\ KidsFit(gate', life', parent', kids', spawning', dropping', listed')
        /\ FilesFit(gate', life', parent', file')
        /\ AimFits(found', aim', proved')
        /\ Emptied(reused', life', helper', spared', file', at', found')
        /\ DueFits(reused', gate', life', helper', spared', file', todo', found', due')
    BY <1>4 DEF LedgerInv
  <1>10. ReapFits(pid', gate', life', parent', todo', at', found')
    BY <1>3, <1>4 DEF LedgerInv, ReapFits
  <1>11. ListedFits(reused', broken', pid', gate', life', helper', spared', parent', kids',
                    file', listed')
    <2>1. \A s \in listed : s \in Servers /\ parent[s] \in Gateways
      BY DEF LedgerInv, LedgerTypeOK, KidsFit, Born
    <2>2. QED BY <1>3, <1>4, <2>1 DEF LedgerInv, ListedFits
  <1>12. QED BY <1>5, <1>6, <1>7, <1>8, <1>9, <1>10, <1>11 DEF LedgerInv

\* What other programs do.
LEMMA StrangerInv ==
  ASSUME LedgerInv, NEW x \in Strangers, StrangerStep(x)
  PROVE  LedgerInv'
  <1>1. CASE other[x] = "unborn"
    <2>1. PICK q \in 1..last : GetPid(x, q)
      BY <1>1 DEF StrangerStep
    <2>2. other' = [other EXCEPT ![x] = "leading"]
      BY <1>1 DEF StrangerStep
    <2>3. UNCHANGED <<life, helper, parent, gate, spawning, dropping, kids, file, reapVars,
                      historyVars>>
      BY DEF StrangerStep
    <2>4. QED BY <1>1, <2>1, <2>2, <2>3, StrangerBornStep
  <1>2. CASE other[x] # "unborn"
    <2>1. /\ life' \in [Servers -> {"unborn", "running", "zombie", "reaped"}]
          /\ helper' \in [Servers -> BOOLEAN]
      BY DEF LedgerInv, LedgerTypeOK, StrangerStep
    <2>2. /\ other' \in [Strangers -> {"unborn", "leading", "orphaned", "gone"}]
          /\ \A y \in Strangers : other'[y] \in {"leading", "orphaned"}
                                    => other[y] \in {"leading", "orphaned"}
      BY <1>2 DEF LedgerInv, LedgerTypeOK, StrangerStep
    <2>3. UNCHANGED <<pid, last, life, helper, parent, gate, spawning, dropping, kids, file,
                      reapVars, historyVars>>
      BY <1>2 DEF StrangerStep
    <2>4. QED BY <2>1, <2>2, <2>3, EndsStep
  <1>3. QED BY <1>1, <1>2

-----------------------------------------------------------------------------
(* Gateways end.                                                           *)

\* What the gateway had listed stays in its file, and its work as a reaper is dropped.
LEMMA GatewayEndsStep ==
  ASSUME LedgerInv, NEW g \in Gateways, GatewayEnds(g)
  PROVE  LedgerInv'
  <1>1. UNCHANGED <<pid, last, helper, other, parent, file, listed, due, hit, spared, reused,
                  broken>>
    BY DEF GatewayEnds, historyVars
  <1>2. /\ gate[g] \in {"reaping", "up"} /\ gate'[g] = "gone"
        /\ gate' \in [Gateways -> {"unborn", "reaping", "up", "gone"}]
        /\ \A h \in Gateways : h # g => gate'[h] = gate[h]
    BY DEF GatewayEnds, Running, LedgerInv, LedgerTypeOK
  <1>3. /\ life' \in [Servers -> {"unborn", "running", "zombie", "reaped"}]
        /\ \A s \in Servers : life'[s] = life[s] \/ (life[s] = "zombie" /\ life'[s] = "reaped")
    BY DEF GatewayEnds, LedgerInv, LedgerTypeOK
  <1>4. /\ spawning' \in [Gateways -> Servers \cup {Nil}] /\ spawning'[g] = Nil
        /\ dropping' \in [Gateways -> Servers \cup {Nil}] /\ dropping'[g] = Nil
        /\ kids' \in [Gateways -> SUBSET Servers] /\ kids'[g] = {}
        /\ \A h \in Gateways : h # g => /\ spawning'[h] = spawning[h]
                                        /\ dropping'[h] = dropping[h] /\ kids'[h] = kids[h]
    BY DEF GatewayEnds, LedgerInv, LedgerTypeOK
  <1>5. /\ todo' \in [Gateways -> SUBSET Pids] /\ todo'[g] = {}
        /\ at' \in [Gateways -> 0..MaxPid] /\ at'[g] = 0
        /\ found' \in [Gateways -> SUBSET Servers] /\ found'[g] = {}
        /\ \A h \in Gateways : h # g => /\ todo'[h] = todo[h]
                                        /\ at'[h] = at[h] /\ found'[h] = found[h]
    BY PidAssumption DEF GatewayEnds, LedgerInv, LedgerTypeOK
  <1>5a. /\ aim' \in [Gateways -> Servers \cup {Nil}] /\ aim'[g] = Nil
         /\ proved' \in [Gateways -> SUBSET (Servers \cup Strangers)] /\ proved'[g] = {}
         /\ \A h \in Gateways : h # g => aim'[h] = aim[h] /\ proved'[h] = proved[h]
    BY DEF GatewayEnds, LedgerInv, LedgerTypeOK
  <1>6. \A s \in Servers : /\ Owed(life', helper', spared', s) <=> Owed(life, helper, spared, s)
                           /\ life'[s] = "unborn" <=> life[s] = "unborn"
    BY <1>1, <1>3 DEF Alive, Owed
  <1>7. LedgerTypeOK'
    BY <1>1, <1>2, <1>3, <1>4, <1>5, <1>5a DEF LedgerInv, LedgerTypeOK
  <1>8. Born(pid', last', gate', life', helper', parent')
    BY <1>1, <1>2, <1>3 DEF LedgerInv, Born
  <1>9. Apart(pid', gate', life', helper', other')
    <2>1. \A x \in AllProcs : Takes(gate', life', helper', other', x)
                                => Takes(gate, life, helper, other, x)
      BY <1>1, <1>2, <1>3 DEF Takes
    <2>2. QED BY <1>1, <2>1 DEF Apart, LedgerInv
  <1>10. Numbered(reused', pid')
    BY <1>1 DEF LedgerInv
  <1>11. KidsFit(gate', life', parent', kids', spawning', dropping', listed')
    BY <1>1, <1>2, <1>4, <1>6, NilAssumption DEF LedgerInv, KidsFit, LedgerTypeOK
  <1>12. FilesFit(gate', life', parent', file')
    BY <1>1, <1>2, <1>6 DEF LedgerInv, FilesFit, LedgerTypeOK, Ledgers
  <1>13. ReapFits(pid', gate', life', parent', todo', at', found')
    <2> SUFFICES ASSUME NEW h \in Gateways
                 PROVE  /\ gate'[h] # "reaping" => todo'[h] = {} /\ at'[h] = 0
                        /\ at'[h] = 0 => found'[h] = {}
                        /\ at'[h] # 0 => \E o \in Gateways : gate'[o] = "gone" /\ pid'[o] = at'[h]
                        /\ \A s \in found'[h] : /\ life'[s] # "unborn"
                                                /\ parent'[s] \in Gateways
                                                /\ gate'[parent'[s]] = "gone"
      BY DEF ReapFits
    <2>1. CASE h = g
      BY <2>1, <1>5
    <2>2. CASE h # g
      <3>1. /\ gate[h] # "reaping" => todo[h] = {} /\ at[h] = 0
            /\ at[h] = 0 => found[h] = {}
            /\ at[h] # 0 => \E o \in Gateways : gate[o] = "gone" /\ pid[o] = at[h]
            /\ \A s \in found[h] : /\ s \in Servers /\ life[s] # "unborn"
                                   /\ parent[s] \in Gateways /\ gate[parent[s]] = "gone"
        BY DEF LedgerInv, ReapFits, LedgerTypeOK
      <3>2. \A o \in Gateways : gate[o] = "gone" => gate'[o] = "gone"
        BY <1>2
      <3>3. QED BY <2>2, <3>1, <3>2, <1>1, <1>2, <1>5, <1>6
    <2>3. QED BY <2>1, <2>2
  <1>13a. AimFits(found', aim', proved')
    BY <1>5, <1>5a DEF LedgerInv, AimFits
  <1>14. Emptied(reused', life', helper', spared', file', at', found')
    <2> SUFFICES ASSUME ~reused, NEW h \in Gateways, at'[h] # 0, file[at'[h]] # Nil,
                        NEW s \in file[at'[h]].children
                 PROVE  s \in found'[h] \/ ~Owed(life', helper', spared', s)
      BY <1>1 DEF Emptied
    <2>1. h # g /\ at'[h] = at[h] /\ found'[h] = found[h]
      BY <1>5
    <2>2. s \in Servers
      BY <2>1 DEF LedgerInv, LedgerTypeOK, Ledgers, Pids
    <2>3. s \in found[h] \/ ~Owed(life, helper, spared, s)
      BY <2>1 DEF LedgerInv, Emptied
    <2>4. QED BY <1>6, <2>1, <2>2, <2>3
  <1>15. ListedFits(reused', broken', pid', gate', life', helper', spared', parent', kids',
                    file', listed')
    <2> SUFFICES ASSUME ~reused, ~broken
                 PROVE  ListedFits(reused', broken', pid', gate', life', helper', spared', parent', kids',
                                   file', listed')
      BY <1>1 DEF ListedFits
    <2>1. \A h \in Gateways : gate'[h] \in {"reaping", "up"}
                                => file'[pid'[h]] = Content(h, kids'[h])
      BY <1>1, <1>2, <1>4 DEF LedgerInv, ListedFits
    <2>2. ASSUME NEW s \in listed
          PROVE  IF gate'[parent[s]] \in {"reaping", "up"} THEN s \in kids'[parent[s]]
                 ELSE \/ ~Owed(life', helper', spared', s)
                      \/ file[pid[parent[s]]] # Nil /\ s \in file[pid[parent[s]]].children
      <3>1. s \in Servers /\ parent[s] \in Gateways
        BY DEF LedgerInv, LedgerTypeOK, KidsFit, Born
      <3>2. IF gate[parent[s]] \in {"reaping", "up"} THEN s \in kids[parent[s]]
            ELSE \/ ~Owed(life, helper, spared, s)
                 \/ file[pid[parent[s]]] # Nil /\ s \in file[pid[parent[s]]].children
        BY DEF LedgerInv, ListedFits
      <3>3. CASE parent[s] # g
        BY <3>1, <3>2, <3>3, <1>2, <1>4, <1>6
      <3>4. CASE parent[s] = g
        <4>1. s \in kids[g]
          BY <3>2, <3>4, <1>2
        <4>2. file[pid[g]] = Content(g, kids[g])
          BY <1>2 DEF LedgerInv, ListedFits
        <4>3. kids[g] \in SUBSET Servers
          BY DEF LedgerInv, LedgerTypeOK
        <4>4. file[pid[g]] # Nil /\ s \in file[pid[g]].children
          BY <4>1, <4>2, <4>3, ContentFacts
        <4>5. QED BY <3>4, <4>4, <1>2
      <3>5. QED BY <3>3, <3>4
    <2>3. QED BY <1>1, <2>1, <2>2 DEF ListedFits
  <1>16. DueFits(reused', gate', life', helper', spared', file', todo', found', due')
    <2>1. \A h \in Gateways : \A s \in due[h] : s \in Servers /\ life'[s] # "unborn"
      BY <1>6 DEF LedgerInv, LedgerTypeOK, DueFits
    <2>2. ASSUME ~reused, NEW h \in Gateways, gate'[h] = "reaping", NEW s \in due[h]
          PROVE  \/ ~Owed(life', helper', spared', s)
                 \/ s \in found'[h]
                 \/ \E q \in todo'[h] : /\ file[q] # Nil /\ s \in file[q].children
                                        /\ gate'[file[q].owner] = "gone"
      <3>1. h # g /\ gate[h] = "reaping" /\ todo'[h] = todo[h] /\ found'[h] = found[h]
        BY <2>2, <1>2, <1>5
      <3>2. \/ ~Owed(life, helper, spared, s)
            \/ s \in found[h]
            \/ \E q \in todo[h] : /\ file[q] # Nil /\ s \in file[q].children
                                  /\ gate[file[q].owner] = "gone"
        BY <2>2, <3>1 DEF LedgerInv, DueFits
      <3>3. \A q \in todo[h] : file[q] # Nil /\ gate[file[q].owner] = "gone"
                                 => gate'[file[q].owner] = "gone"
        BY <1>2 DEF LedgerInv, LedgerTypeOK, Ledgers
      <3>4. QED BY <3>1, <3>2, <3>3, <2>1, <1>6
    <2>3. QED BY <1>1, <2>1, <2>2 DEF DueFits
  <1>17. QED BY <1>7, <1>8, <1>9, <1>10, <1>11, <1>12, <1>13, <1>13a, <1>14, <1>15, <1>16
               DEF LedgerInv

-----------------------------------------------------------------------------
(* Gateways and servers start.                                             *)

\* The numbers after a gateway or a server got one.
LEMMA NumberedOn ==
  ASSUME LedgerInv, NEW x \in Gateways \cup Servers, NEW q \in Pids, GetPid(x, q),
         reused' = (reused \/ q <= last)
  PROVE  /\ Numbered(reused', pid') /\ reused' \in BOOLEAN
         /\ ~reused' => ~reused /\ q > last
         /\ \A p \in Pids : file[p] # Nil => file[p].owner \in Gateways /\ p <= last
         /\ q \in Nat /\ q <= last' /\ q >= 1
         /\ last \in Nat /\ last' \in 0..MaxPid /\ last <= last'
         /\ pid' \in [AllProcs -> 0..MaxPid] /\ pid'[x] = q
         /\ \A y \in AllProcs : y # x => pid'[y] = pid[y]
         /\ \A y \in AllProcs : Takes(gate, life, helper, other, y) => pid[y] # q
  <1>1. x \in AllProcs /\ LedgerTypeOK /\ Apart(pid, gate, life, helper, other)
    BY DEF AllProcs, LedgerInv
  <1>2. /\ last' \in 0..MaxPid /\ last <= last' /\ q <= last'
        /\ pid' \in [AllProcs -> 0..MaxPid] /\ pid'[x] = q
        /\ \A y \in AllProcs : y # x => pid'[y] = pid[y]
        /\ \A y \in AllProcs : Takes(gate, life, helper, other, y) => pid[y] # q
    BY <1>1, NewNumber
  <1>3. last \in Nat /\ q \in Nat /\ q >= 1
    BY PidAssumption, <1>1 DEF LedgerTypeOK, Pids
  <1>4. reused' \in BOOLEAN /\ (~reused' => ~reused /\ q > last)
    <2>1. reused \in BOOLEAN
      BY <1>1 DEF LedgerTypeOK
    <2>2. reused' \in BOOLEAN
      BY <2>1
    <2>3. ~reused' => ~reused /\ ~(q <= last)
      BY <2>1
    <2>4. ~(q <= last) => q > last
      BY <1>3
    <2>5. QED BY <2>2, <2>3, <2>4
  <1>5. \A y \in Gateways \cup Servers : pid[y] \in Nat /\ pid[y] <= last
    BY <1>3, PidAssumption DEF LedgerInv, Born, LedgerTypeOK, AllProcs
  <1>6. Numbered(reused', pid')
    <2> SUFFICES ASSUME ~reused', NEW y \in Gateways \cup Servers, NEW z \in Gateways \cup Servers,
                        pid'[y] = pid'[z], pid'[y] # 0
                 PROVE  y = z
      BY DEF Numbered
    <2>1. y \in AllProcs /\ z \in AllProcs
      BY DEF AllProcs
    <2>2. \A w \in Gateways \cup Servers : pid[w] # q
      BY <1>3, <1>4, <1>5
    <2>3. CASE y # x /\ z # x
      BY <1>2, <1>4, <2>1, <2>3 DEF LedgerInv, Numbered
    <2>4. CASE y = x \/ z = x
      BY <1>2, <2>1, <2>2, <2>4
    <2>5. QED BY <2>3, <2>4
  <1>7. \A p \in Pids : file[p] # Nil => file[p].owner \in Gateways /\ p <= last
    <2>1. \A p \in Pids : file[p] # Nil => file[p].owner \in Gateways /\ pid[file[p].owner] = p
      BY <1>1 DEF LedgerTypeOK, Ledgers
    <2>2. QED BY <1>5, <2>1
  <1>8. QED BY <1>2, <1>3, <1>4, <1>6, <1>7

\* A spawned server is in no ledger, file or reaper's hands yet, and its number is its own.
LEMMA SpawnStep ==
  ASSUME LedgerInv, NEW g \in Gateways, NEW s \in Servers, Spawn(g, s)
  PROVE  LedgerInv'
  <1>1. PICK q \in Pids : GetPid(s, q) /\ reused' = (reused \/ q <= last)
    BY DEF Spawn
  <1>2. /\ Numbered(reused', pid') /\ reused' \in BOOLEAN
        /\ ~reused' => ~reused
        /\ q \in Nat /\ q <= last' /\ q >= 1
        /\ last \in Nat /\ last' \in 0..MaxPid /\ last <= last'
        /\ pid' \in [AllProcs -> 0..MaxPid] /\ pid'[s] = q
        /\ \A y \in AllProcs : y # s => pid'[y] = pid[y]
        /\ \A y \in AllProcs : Takes(gate, life, helper, other, y) => pid[y] # q
    BY <1>1, NumberedOn
  <1>3. \A h \in Gateways : h # s /\ pid'[h] = pid[h]
    BY <1>2, KindAssumption DEF AllProcs
  <1>4. /\ gate[g] = "up" /\ spawning[g] = Nil /\ life[s] = "unborn"
        /\ UNCHANGED <<other, gate, dropping, kids, file, todo, at, found, aim, proved, listed, due,
                       hit, spared, broken>>
    BY DEF Spawn, reapVars
  <1>5. /\ life' \in [Servers -> {"unborn", "running", "zombie", "reaped"}]
        /\ life'[s] = "running" /\ \A t \in Servers : t # s => life'[t] = life[t]
    BY DEF Spawn, LedgerInv, LedgerTypeOK
  <1>6. /\ helper' \in [Servers -> BOOLEAN]
        /\ \A t \in Servers : t # s => helper'[t] = helper[t]
    BY DEF Spawn, LedgerInv, LedgerTypeOK
  <1>7. /\ parent' \in [Servers -> Gateways \cup {Nil}]
        /\ parent'[s] = g /\ \A t \in Servers : t # s => parent'[t] = parent[t]
    BY DEF Spawn, LedgerInv, LedgerTypeOK
  <1>8. /\ spawning' \in [Gateways -> Servers \cup {Nil}]
        /\ spawning'[g] = s /\ \A h \in Gateways : h # g => spawning'[h] = spawning[h]
    BY DEF Spawn, LedgerInv, LedgerTypeOK
  \* What is known of a server is known of one that was started before.
  <1>9. /\ \A t \in listed : t \in Servers /\ t # s
        /\ \A h \in Gateways : /\ \A t \in kids[h] \cup found[h] \cup due[h] : t \in Servers /\ t # s
                               /\ dropping[h] # Nil => dropping[h] \in Servers /\ dropping[h] # s
                               /\ spawning[h] # Nil => spawning[h] \in Servers /\ spawning[h] # s
        /\ \A p \in Pids : file[p] # Nil => \A t \in file[p].children : t \in Servers /\ t # s
    <2>1. \A t \in listed : t \in Servers /\ t # s
      BY <1>4 DEF LedgerInv, KidsFit, LedgerTypeOK
    <2>2. \A h \in Gateways : \A t \in kids[h] \cup found[h] \cup due[h] : t \in Servers /\ t # s
      BY <1>4 DEF LedgerInv, KidsFit, ReapFits, DueFits, LedgerTypeOK
    <2>3. \A h \in Gateways :
            /\ dropping[h] # Nil => dropping[h] \in Servers /\ dropping[h] # s
            /\ spawning[h] # Nil => spawning[h] \in Servers /\ spawning[h] # s
      BY <1>4 DEF LedgerInv, KidsFit, LedgerTypeOK
    <2>4. \A p \in Pids : file[p] # Nil => \A t \in file[p].children : t \in Servers /\ t # s
      BY <1>4 DEF LedgerInv, FilesFit, LedgerTypeOK, Ledgers
    <2>5. QED BY <2>1, <2>2, <2>3, <2>4
  <1>10. \A t \in Servers : t # s => (Owed(life', helper', spared', t) <=> Owed(life, helper, spared, t))
    BY <1>4, <1>5, <1>6 DEF Alive, Owed
  <1>11. LedgerTypeOK'
    <2>1. \A p \in Pids : file'[p] # Nil => pid'[file'[p].owner] = p
      BY <1>3, <1>4 DEF LedgerInv, LedgerTypeOK, Ledgers
    <2>2. QED BY <1>2, <1>4, <1>5, <1>6, <1>7, <1>8, <2>1 DEF LedgerInv, LedgerTypeOK
  <1>12. Born(pid', last', gate', life', helper', parent')
    <2>1. \A h \in Gateways : IF gate'[h] = "unborn" THEN pid'[h] = 0 ELSE pid'[h] \in 1..last'
      BY <1>2, <1>3, <1>4, PidAssumption DEF LedgerInv, Born, LedgerTypeOK, AllProcs
    <2>2. ASSUME NEW t \in Servers
          PROVE  IF life'[t] = "unborn" THEN pid'[t] = 0 /\ ~helper'[t]
                 ELSE pid'[t] \in 1..last' /\ parent'[t] \in Gateways /\ gate'[parent'[t]] # "unborn"
      <3>1. CASE t = s
        BY <3>1, <1>2, <1>4, <1>5, <1>7
      <3>2. CASE t # s
        <4>1. pid'[t] = pid[t] /\ life'[t] = life[t] /\ helper'[t] = helper[t] /\ parent'[t] = parent[t]
          BY <3>2, <1>2, <1>5, <1>6, <1>7 DEF AllProcs
        <4>2. IF life[t] = "unborn" THEN pid[t] = 0 /\ ~helper[t]
              ELSE pid[t] \in 1..last /\ parent[t] \in Gateways /\ gate[parent[t]] # "unborn"
          BY DEF LedgerInv, Born
        <4>3. last' \in Nat
          BY <1>2, PidAssumption
        <4>4. QED BY <4>1, <4>2, <4>3, <1>2, <1>4
      <3>3. QED BY <3>1, <3>2
    <2>3. QED BY <2>1, <2>2 DEF Born
  <1>13. Apart(pid', gate', life', helper', other')
    <2>1. \A y \in AllProcs : y # s /\ Takes(gate', life', helper', other', y)
                                => Takes(gate, life, helper, other, y)
      BY <1>4, <1>5, <1>6 DEF Takes
    <2>2. QED BY <1>2, <2>1 DEF Apart, LedgerInv
  <1>14. KidsFit(gate', life', parent', kids', spawning', dropping', listed')
    <2>1. \A h \in Gateways : gate'[h] # "up"
            => kids'[h] = {} /\ spawning'[h] = Nil /\ dropping'[h] = Nil
      BY <1>4, <1>8 DEF LedgerInv, KidsFit
    <2>2. \A h \in Gateways : \A t \in kids'[h] : life'[t] # "unborn" /\ parent'[t] = h
      BY <1>4, <1>5, <1>7, <1>9 DEF LedgerInv, KidsFit
    <2>3. \A h \in Gateways : dropping'[h] # Nil
            => life'[dropping'[h]] # "unborn" /\ parent'[dropping'[h]] = h
      BY <1>4, <1>5, <1>7, <1>9 DEF LedgerInv, KidsFit
    <2>4. \A h \in Gateways : spawning'[h] # Nil
            => life'[spawning'[h]] # "unborn" /\ parent'[spawning'[h]] = h
      BY <1>4, <1>5, <1>7, <1>8, <1>9 DEF LedgerInv, KidsFit
    <2>5. \A t \in listed' : life'[t] # "unborn"
      BY <1>4, <1>5, <1>9 DEF LedgerInv, KidsFit
    <2>6. QED BY <2>1, <2>2, <2>3, <2>4, <2>5 DEF KidsFit
  <1>15. FilesFit(gate', life', parent', file')
    BY <1>4, <1>5, <1>7, <1>9 DEF LedgerInv, FilesFit
  <1>16. ReapFits(pid', gate', life', parent', todo', at', found')
    BY <1>3, <1>4, <1>5, <1>7, <1>9 DEF LedgerInv, ReapFits
  <1>16a. AimFits(found', aim', proved')
    BY <1>4 DEF LedgerInv
  <1>17. Emptied(reused', life', helper', spared', file', at', found')
    <2>1. \A h \in Gateways : at[h] # 0 => at[h] \in Pids
      BY PidAssumption DEF LedgerInv, LedgerTypeOK, Pids
    <2>2. QED BY <1>2, <1>4, <1>9, <1>10, <2>1 DEF LedgerInv, Emptied
  <1>18. ListedFits(reused', broken', pid', gate', life', helper', spared', parent', kids',
                    file', listed')
    <2>1. \A t \in listed : parent'[t] = parent[t] /\ parent[t] \in Gateways
      BY <1>7, <1>9 DEF LedgerInv, KidsFit, Born
    <2>2. QED BY <1>2, <1>3, <1>4, <1>9, <1>10, <2>1 DEF LedgerInv, ListedFits
  <1>19. DueFits(reused', gate', life', helper', spared', file', todo', found', due')
    <2>1. \A h \in Gateways : \A t \in due[h] : life'[t] # "unborn"
      BY <1>5, <1>9 DEF LedgerInv, DueFits
    <2>2. QED BY <1>2, <1>4, <1>9, <1>10, <2>1 DEF LedgerInv, DueFits
  <1>20. QED BY <1>2, <1>11, <1>12, <1>13, <1>14, <1>15, <1>16, <1>16a, <1>17, <1>18,
               <1>19 DEF LedgerInv

\* A starting gateway owes every orphan that is on file, and has every file before it.
LEMMA StartStep ==
  ASSUME LedgerInv, NEW g \in Gateways, Start(g)
  PROVE  LedgerInv'
  <1>1. PICK q \in Pids : GetPid(g, q) /\ reused' = (reused \/ q <= last)
    BY DEF Start
  <1>2. /\ Numbered(reused', pid') /\ reused' \in BOOLEAN
        /\ ~reused' => ~reused /\ q > last
        /\ \A p \in Pids : file[p] # Nil => file[p].owner \in Gateways /\ p <= last
        /\ q \in Nat /\ q <= last' /\ q >= 1
        /\ last \in Nat /\ last' \in 0..MaxPid /\ last <= last'
        /\ pid' \in [AllProcs -> 0..MaxPid] /\ pid'[g] = q
        /\ \A y \in AllProcs : y # g => pid'[y] = pid[y]
        /\ \A y \in AllProcs : Takes(gate, life, helper, other, y) => pid[y] # q
    BY <1>1, NumberedOn
  <1>3. \A s \in Servers : s # g /\ pid'[s] = pid[s]
    BY <1>2, KindAssumption DEF AllProcs
  <1>4. \A h \in Gateways : h # g => pid'[h] = pid[h]
    BY <1>2 DEF AllProcs
  <1>5. /\ gate[g] = "unborn"
        /\ UNCHANGED <<life, helper, other, parent, spawning, dropping, kids, file, at, found,
                       aim, proved, listed, hit, spared, broken>>
    BY DEF Start
  <1>6. /\ gate' \in [Gateways -> {"unborn", "reaping", "up", "gone"}]
        /\ gate'[g] = "reaping" /\ \A h \in Gateways : h # g => gate'[h] = gate[h]
    BY DEF Start, LedgerInv, LedgerTypeOK
  <1>7. /\ todo' \in [Gateways -> SUBSET Pids]
        /\ todo'[g] = {p \in Pids : file[p] # Nil} \/ due'[g] = {}
        /\ \A h \in Gateways : h # g => todo'[h] = todo[h]
    <2>1. todo \in [Gateways -> SUBSET Pids] /\ due \in [Gateways -> SUBSET Servers]
      BY DEF LedgerInv, LedgerTypeOK
    <2>2. CASE todo' = [todo EXCEPT ![g] = {p \in Pids : file[p] # Nil}]
      BY <2>1, <2>2
    <2>3. CASE todo' = [todo EXCEPT ![g] = {}] /\ due' = [due EXCEPT ![g] = {}]
      BY <2>1, <2>3
    <2>4. QED BY <2>2, <2>3 DEF Start
  <1>8. \A p \in Pids : file[p] # Nil =>
          /\ file[p].owner \in Gateways /\ file[p].owner # g
          /\ file[p].children \subseteq Servers
          /\ OwnerGone(file[p]) => gate[file[p].owner] = "gone"
    <2>1. \A p \in Pids : file[p] # Nil =>
            /\ file[p].owner \in Gateways /\ file[p].children \subseteq Servers
            /\ gate[file[p].owner] # "unborn"
      BY DEF LedgerInv, LedgerTypeOK, Ledgers, FilesFit
    <2>2. \A o \in Gateways : gate[o] # "unborn" /\ ~Exists(o) => gate[o] = "gone"
      BY DEF Exists, Running, LedgerInv, LedgerTypeOK
    <2>3. QED BY <1>5, <2>1, <2>2 DEF OwnerGone
  <1>9. /\ due' \in [Gateways -> SUBSET Servers]
        /\ \A s \in due'[g] : \E p \in Pids : /\ file[p] # Nil /\ s \in file[p].children
                                              /\ gate[file[p].owner] = "gone"
        /\ \A h \in Gateways : h # g => due'[h] = due[h]
    <2>1. PICK D : /\ due' = [due EXCEPT ![g] = D]
                   /\ D \in {{}, UNION {file[p].children : p \in {r \in Pids :
                                            file[r] # Nil /\ OwnerGone(file[r])}}}
      BY DEF Start
    <2>2. \A s \in D : \E p \in Pids : file[p] # Nil /\ OwnerGone(file[p]) /\ s \in file[p].children
      BY <2>1
    <2>3. D \in SUBSET Servers
      BY <1>8, <2>2
    <2>4. due' = [due EXCEPT ![g] = D]
      BY <2>1
    <2>5. due \in [Gateways -> SUBSET Servers]
      BY DEF LedgerInv, LedgerTypeOK
    <2>6. due' \in [Gateways -> SUBSET Servers] /\ due'[g] = D
      BY <2>3, <2>4, <2>5
    <2>7. \A h \in Gateways : h # g => due'[h] = due[h]
      BY <2>4, <2>5
    <2>8. QED BY <1>8, <2>2, <2>6, <2>7
  <1>10. LedgerTypeOK'
    <2>1. \A p \in Pids : file'[p] # Nil => pid'[file'[p].owner] = p
      BY <1>4, <1>5, <1>8 DEF LedgerInv, LedgerTypeOK
    <2>2. QED BY <1>2, <1>5, <1>6, <1>7, <1>9, <2>1 DEF LedgerInv, LedgerTypeOK
  <1>11. Born(pid', last', gate', life', helper', parent')
    <2>1. last' \in Nat
      BY <1>2, PidAssumption
    <2>2. ASSUME NEW h \in Gateways
          PROVE  IF gate'[h] = "unborn" THEN pid'[h] = 0 ELSE pid'[h] \in 1..last'
      <3>1. CASE h = g
        BY <3>1, <1>2, <1>6, <2>1
      <3>2. CASE h # g
        <4>1. IF gate[h] = "unborn" THEN pid[h] = 0 ELSE pid[h] \in 1..last
          BY DEF LedgerInv, Born
        <4>2. QED BY <3>2, <4>1, <1>2, <1>4, <1>6, <2>1
      <3>3. QED BY <3>1, <3>2
    <2>3. ASSUME NEW t \in Servers
          PROVE  IF life'[t] = "unborn" THEN pid'[t] = 0 /\ ~helper'[t]
                 ELSE pid'[t] \in 1..last' /\ parent'[t] \in Gateways /\ gate'[parent'[t]] # "unborn"
      <3>1. IF life[t] = "unborn" THEN pid[t] = 0 /\ ~helper[t]
            ELSE pid[t] \in 1..last /\ parent[t] \in Gateways /\ gate[parent[t]] # "unborn"
        BY DEF LedgerInv, Born
      <3>2. \A h \in Gateways : gate[h] # "unborn" => gate'[h] # "unborn"
        BY <1>6
      <3>3. QED BY <3>1, <3>2, <1>2, <1>3, <1>5, <2>1
    <2>4. QED BY <2>2, <2>3 DEF Born
  <1>12. Apart(pid', gate', life', helper', other')
    <2>1. \A y \in AllProcs : y # g /\ Takes(gate', life', helper', other', y)
                                => Takes(gate, life, helper, other, y)
      BY <1>5, <1>6 DEF Takes
    <2>2. QED BY <1>2, <2>1 DEF Apart, LedgerInv
  <1>13. KidsFit(gate', life', parent', kids', spawning', dropping', listed')
    BY <1>5, <1>6 DEF LedgerInv, KidsFit
  <1>14. FilesFit(gate', life', parent', file')
    BY <1>5, <1>6, <1>8 DEF LedgerInv, FilesFit
  <1>15. ReapFits(pid', gate', life', parent', todo', at', found')
    <2>1. \A o \in Gateways : gate[o] = "gone" => o # g /\ gate'[o] = "gone" /\ pid'[o] = pid[o]
      BY <1>4, <1>5, <1>6
    <2>2. \A h \in Gateways : gate'[h] # "reaping" => todo'[h] = {} /\ at'[h] = 0
      BY <1>5, <1>6, <1>7 DEF LedgerInv, ReapFits
    <2>3. \A h \in Gateways : at'[h] # 0 => \E o \in Gateways : gate'[o] = "gone" /\ pid'[o] = at'[h]
      BY <1>5, <2>1 DEF LedgerInv, ReapFits
    <2>4. QED BY <1>5, <2>1, <2>2, <2>3 DEF LedgerInv, ReapFits
  <1>15a. AimFits(found', aim', proved')
    BY <1>5 DEF LedgerInv
  <1>16. Emptied(reused', life', helper', spared', file', at', found')
    BY <1>2, <1>5 DEF LedgerInv, Emptied
  <1>17. ListedFits(reused', broken', pid', gate', life', helper', spared', parent', kids',
                    file', listed')
    <2> SUFFICES ASSUME ~reused', ~broken
                 PROVE  ListedFits(reused', broken', pid', gate', life', helper', spared', parent', kids',
                                   file', listed')
      BY <1>5 DEF ListedFits
    <2>1. ~reused /\ q > last
      BY <1>2
    <2>2. file[q] = Nil
      BY <1>2, <2>1
    <2>3. kids[g] = {}
      BY <1>5 DEF LedgerInv, KidsFit
    <2>4. \A h \in Gateways : gate'[h] \in {"reaping", "up"}
                                => file'[pid'[h]] = Content(h, kids'[h])
      <3>1. file'[pid'[g]] = Content(g, kids'[g])
        BY <1>2, <1>5, <2>2, <2>3 DEF Content
      <3>2. \A h \in Gateways : h # g /\ gate'[h] \in {"reaping", "up"}
                                  => file'[pid'[h]] = Content(h, kids'[h])
        BY <1>4, <1>5, <1>6, <2>1 DEF LedgerInv, ListedFits
      <3>3. QED BY <3>1, <3>2
    <2>5. \A s \in listed : s \in Servers /\ parent[s] \in Gateways /\ parent[s] # g
      BY <1>5 DEF LedgerInv, LedgerTypeOK, KidsFit, Born
    <2>6. QED BY <1>4, <1>5, <1>6, <2>1, <2>4, <2>5 DEF LedgerInv, ListedFits
  <1>18. DueFits(reused', gate', life', helper', spared', file', todo', found', due')
    <2>1. ASSUME NEW h \in Gateways, NEW s \in due'[h] PROVE life'[s] # "unborn"
      <3>1. CASE h = g
        BY <3>1, <2>1, <1>5, <1>9 DEF LedgerInv, FilesFit
      <3>2. CASE h # g
        BY <3>2, <2>1, <1>5, <1>9 DEF LedgerInv, DueFits
      <3>3. QED BY <3>1, <3>2
    <2>2. \A p \in Pids : file[p] # Nil /\ gate[file[p].owner] = "gone"
                            => gate'[file[p].owner] = "gone"
      BY <1>6, <1>8
    <2>3. ASSUME ~reused', NEW h \in Gateways, gate'[h] = "reaping", NEW s \in due'[h]
          PROVE  \/ ~Owed(life', helper', spared', s)
                 \/ s \in found'[h]
                 \/ \E p \in todo'[h] : /\ file[p] # Nil /\ s \in file[p].children
                                        /\ gate'[file[p].owner] = "gone"
      <3>1. CASE h = g
        BY <3>1, <2>2, <2>3, <1>7, <1>9
      <3>2. CASE h # g
        <4>1. /\ gate[h] = "reaping" /\ s \in due[h] /\ todo'[h] = todo[h] /\ ~reused
              /\ todo[h] \subseteq Pids
          BY <3>2, <2>3, <1>2, <1>6, <1>7, <1>9 DEF LedgerInv, LedgerTypeOK
        <4>2. \/ ~Owed(life, helper, spared, s)
              \/ s \in found[h]
              \/ \E p \in todo[h] : /\ file[p] # Nil /\ s \in file[p].children
                                    /\ gate[file[p].owner] = "gone"
          BY <4>1 DEF LedgerInv, DueFits
        <4>3. QED BY <4>1, <4>2, <2>2, <1>5
      <3>3. QED BY <3>1, <3>2
    <2>4. QED BY <1>5, <2>1, <2>3 DEF DueFits
  <1>19. QED BY <1>2, <1>10, <1>11, <1>12, <1>13, <1>14, <1>15, <1>15a, <1>16,
               <1>17, <1>18 DEF LedgerInv

-----------------------------------------------------------------------------
(* The ledger of a running gateway changes.                                *)

\* record and forget: the ledger in memory becomes `kept` and is saved, or the write
\* fails; when no number is reused, kept is what the gateway has listed.
LEMMA SaveLedgerStep ==
  ASSUME LedgerInv, NEW g \in Gateways, gate[g] = "up", NEW kept \in SUBSET Servers,
         \A s \in kept : life[s] # "unborn" /\ parent[s] = g,
         kids' = [kids EXCEPT ![g] = kept],
         save(g, kept) \/ (kept = kids[g] /\ UNCHANGED <<file, broken>>),
         listed' \subseteq Servers, \A s \in listed' : life[s] # "unborn",
         ~reused /\ ~broken =>
           \A s \in listed' : IF parent[s] = g THEN s \in kept ELSE s \in listed,
         spawning' \in [Gateways -> Servers \cup {Nil}],
         dropping' \in [Gateways -> Servers \cup {Nil}],
         \A h \in Gateways : /\ spawning'[h] \in {spawning[h], Nil}
                             /\ dropping'[h] \in {dropping[h], Nil},
         UNCHANGED <<osVars, gate, reapVars, due, hit, spared, reused>>
  PROVE  LedgerInv'
  <1>1. UNCHANGED <<pid, last, life, helper, other, parent, gate, todo, at, found, aim,
                  proved, due, hit, spared, reused>>
    BY DEF osVars, reapVars
  <1>2. /\ LedgerTypeOK /\ Born(pid, last, gate, life, helper, parent)
        /\ Apart(pid, gate, life, helper, other) /\ Numbered(reused, pid)
    BY DEF LedgerInv
  <1>3. pid[g] \in Pids
    BY <1>2, GatewayPid
  <1>4. /\ kids' \in [Gateways -> SUBSET Servers] /\ kids'[g] = kept
        /\ \A h \in Gateways : h # g => kids'[h] = kids[h]
    BY <1>2 DEF LedgerTypeOK
  <1>5. Content(g, kept) \in Ledgers \cup {Nil}
    BY ContentFacts
  <1>6. /\ file' \in [Pids -> Ledgers \cup {Nil}]
        /\ \A q \in Pids : q # pid[g] => file'[q] = file[q]
        /\ file'[pid[g]] \in {file[pid[g]], Content(g, kept)}
        /\ broken' \in BOOLEAN
        /\ ~broken' => ~broken /\ (file'[pid[g]] = Content(g, kept) \/ (kept = kids[g] /\ file' = file))
    <2>1. file \in [Pids -> Ledgers \cup {Nil}] /\ broken \in BOOLEAN
      BY <1>2 DEF LedgerTypeOK
    <2>2. CASE save(g, kept)
      <3>1. CASE file' = [file EXCEPT ![pid[g]] = Content(g, kept)] /\ UNCHANGED broken
        BY <3>1, <2>1, <1>3, <1>5
      <3>2. CASE UNCHANGED file /\ broken' = TRUE
        BY <3>2, <2>1
      <3>3. QED BY <2>2, <3>1, <3>2 DEF save
    <2>3. CASE kept = kids[g] /\ UNCHANGED <<file, broken>>
      BY <2>1, <2>3
    <2>4. QED BY <2>2, <2>3
  <1>7. \A h \in Gateways : h # g /\ ~reused /\ gate[h] # "unborn" => pid[h] \in Pids /\ pid[h] # pid[g]
    BY <1>2, NumbersDiffer, GatewayPid
  <1>8. LedgerTypeOK'
    <2>1. \A q \in Pids : file'[q] # Nil => pid[file'[q].owner] = q
      BY <1>2, <1>3, <1>6, ContentFacts DEF LedgerTypeOK
    <2>2. QED BY <1>1, <1>4, <1>6, <2>1 DEF LedgerInv, LedgerTypeOK
  <1>9. /\ Born(pid', last', gate', life', helper', parent')
        /\ Apart(pid', gate', life', helper', other')
        /\ Numbered(reused', pid')
        /\ ReapFits(pid', gate', life', parent', todo', at', found')
        /\ AimFits(found', aim', proved')
    BY <1>1 DEF LedgerInv
  <1>10. KidsFit(gate', life', parent', kids', spawning', dropping', listed')
    <2>1. \A h \in Gateways : gate[h] # "up"
            => kids'[h] = {} /\ spawning'[h] = Nil /\ dropping'[h] = Nil
      BY <1>4 DEF LedgerInv, KidsFit
    <2>2. \A h \in Gateways : \A s \in kids'[h] : life[s] # "unborn" /\ parent[s] = h
      BY <1>4 DEF LedgerInv, KidsFit
    <2>3. \A h \in Gateways :
            /\ spawning'[h] # Nil => life[spawning'[h]] # "unborn" /\ parent[spawning'[h]] = h
            /\ dropping'[h] # Nil => life[dropping'[h]] # "unborn" /\ parent[dropping'[h]] = h
      BY DEF LedgerInv, KidsFit
    <2>4. QED BY <1>1, <2>1, <2>2, <2>3 DEF KidsFit
  <1>11. FilesFit(gate', life', parent', file')
    <2> SUFFICES ASSUME NEW q \in Pids, file'[q] # Nil
                 PROVE  /\ gate[file'[q].owner] # "unborn"
                        /\ \A s \in file'[q].children : life[s] # "unborn" /\ parent[s] = file'[q].owner
      BY <1>1 DEF FilesFit
    <2>1. CASE file'[q] = file[q]
      BY <2>1 DEF LedgerInv, FilesFit
    <2>2. CASE file'[q] = Content(g, kept)
      BY <2>2, ContentFacts
    <2>3. QED BY <2>1, <2>2, <1>6
  \* A file that reapers are busy with, or owe, is that of another gateway.
  <1>12. ~reused => \A o \in Gateways : gate[o] = "gone" => o # g /\ pid[o] \in Pids /\ pid[o] # pid[g]
    BY <1>7
  <1>13. Emptied(reused', life', helper', spared', file', at', found')
    <2> SUFFICES ASSUME ~reused, NEW h \in Gateways, at[h] # 0, file'[at[h]] # Nil,
                        NEW s \in file'[at[h]].children
                 PROVE  s \in found[h] \/ ~Owed(life, helper, spared, s)
      BY <1>1 DEF Emptied
    <2>1. PICK o \in Gateways : gate[o] = "gone" /\ pid[o] = at[h]
      BY DEF LedgerInv, ReapFits
    <2>2. file'[at[h]] = file[at[h]]
      BY <2>1, <1>6, <1>12
    <2>3. QED BY <2>2 DEF LedgerInv, Emptied
  <1>14. ListedFits(reused', broken', pid', gate', life', helper', spared', parent', kids',
                    file', listed')
    <2> SUFFICES ASSUME ~reused, ~broken'
                 PROVE  ListedFits(reused', broken', pid', gate', life', helper', spared', parent', kids',
                                   file', listed')
      BY <1>1 DEF ListedFits
    <2>1. ~broken
      BY <1>6
    <2>2. \A h \in Gateways : gate[h] \in {"reaping", "up"} => file[pid[h]] = Content(h, kids[h])
      BY <2>1 DEF LedgerInv, ListedFits
    <2>3. file'[pid[g]] = Content(g, kids'[g])
      BY <1>4, <1>6, <2>2
    <2>4. \A h \in Gateways : gate[h] \in {"reaping", "up"} => file'[pid[h]] = Content(h, kids'[h])
      BY <1>4, <1>6, <1>7, <2>2, <2>3
    <2>5. ASSUME NEW s \in listed'
          PROVE  IF gate[parent[s]] \in {"reaping", "up"} THEN s \in kids'[parent[s]]
                 ELSE \/ ~Owed(life, helper, spared, s)
                      \/ file'[pid[parent[s]]] # Nil /\ s \in file'[pid[parent[s]]].children
      <3>1. s \in Servers /\ parent[s] \in Gateways /\ gate[parent[s]] # "unborn"
        BY DEF LedgerInv, Born
      <3>2. CASE parent[s] = g
        BY <3>2, <2>1, <1>4
      <3>3. CASE parent[s] # g
        <4>1. s \in listed
          BY <3>3, <2>1
        <4>2. IF gate[parent[s]] \in {"reaping", "up"} THEN s \in kids[parent[s]]
              ELSE \/ ~Owed(life, helper, spared, s)
                   \/ file[pid[parent[s]]] # Nil /\ s \in file[pid[parent[s]]].children
          BY <2>1, <4>1 DEF LedgerInv, ListedFits
        <4>3. QED BY <3>1, <3>3, <4>2, <1>4, <1>6, <1>7
      <3>4. QED BY <3>2, <3>3
    <2>6. QED BY <1>1, <2>4, <2>5 DEF ListedFits
  <1>15. DueFits(reused', gate', life', helper', spared', file', todo', found', due')
    <2>1. ASSUME ~reused, NEW q \in Pids, file[q] # Nil, gate[file[q].owner] = "gone"
          PROVE  file'[q] = file[q]
      <3>1. file[q].owner \in Gateways /\ pid[file[q].owner] = q
        BY <1>2, <2>1 DEF LedgerTypeOK, Ledgers
      <3>2. QED BY <3>1, <2>1, <1>6, <1>12
    <2>2. \A h \in Gateways : todo[h] \subseteq Pids
      BY <1>2 DEF LedgerTypeOK
    <2>3. /\ \A h \in Gateways : \A s \in due[h] : life[s] # "unborn"
          /\ ~reused => \A h \in Gateways : gate[h] = "reaping" => \A s \in due[h] :
               \/ ~Owed(life, helper, spared, s)
               \/ s \in found[h]
               \/ \E q \in todo[h] : /\ file[q] # Nil /\ s \in file[q].children
                                     /\ gate[file[q].owner] = "gone"
      BY DEF LedgerInv, DueFits
    <2>4. ~reused => \A h \in Gateways : gate[h] = "reaping" => \A s \in due[h] :
               \/ ~Owed(life, helper, spared, s)
               \/ s \in found[h]
               \/ \E q \in todo[h] : /\ file'[q] # Nil /\ s \in file'[q].children
                                     /\ gate[file'[q].owner] = "gone"
      BY <2>1, <2>2, <2>3
    <2>5. QED BY <1>1, <2>3, <2>4 DEF DueFits
  <1>16. QED BY <1>8, <1>9, <1>10, <1>11, <1>13, <1>14, <1>15 DEF LedgerInv

\* Without reuse, what leaves the ledger with a number is the server that has it.
LEMMA WithoutFacts ==
  ASSUME LedgerInv, NEW g \in Gateways, NEW s \in Servers, life[s] # "unborn"
  PROVE  /\ Without(g, pid[s]) \in SUBSET Servers
         /\ Without(g, pid[s]) \subseteq kids[g]
         /\ ~reused => \A t \in kids[g] : t # s => t \in Without(g, pid[s])
  <1>1. kids[g] \subseteq Servers
    BY DEF LedgerInv, LedgerTypeOK
  <1>2. pid[s] # 0
    BY DEF LedgerInv, Born, LedgerTypeOK
  <1>3. ~reused => \A t \in Servers : t # s => pid[t] # pid[s]
    BY <1>2 DEF LedgerInv, Numbered
  <1>4. QED BY <1>1, <1>3 DEF Without

\* record: the spawned server joins its gateway's ledger.
LEMMA RecordStep ==
  ASSUME LedgerInv, NEW g \in Gateways, record(g)
  PROVE  LedgerInv'
  <1>1. PICK s : s = spawning[g]
    OBVIOUS
  <1>2. s \in Servers /\ life[s] # "unborn" /\ parent[s] = g /\ gate[g] = "up"
    BY <1>1 DEF record, LedgerInv, LedgerTypeOK, KidsFit
  <1>3. PICK kept : kept = Without(g, pid[s]) \cup {s}
    OBVIOUS
  <1>4. /\ listed' = listed \cup {s}
        /\ spawning' = [spawning EXCEPT ![g] = Nil] /\ UNCHANGED dropping
    BY <1>1 DEF record
  <1>5. kept \in SUBSET Servers /\ kept \subseteq kids[g] \cup {s}
    BY <1>2, <1>3, WithoutFacts
  <1>6. ~reused => kids[g] \subseteq kept
    BY <1>2, <1>3, WithoutFacts
  <1>7. \A t \in kept : life[t] # "unborn" /\ parent[t] = g
    BY <1>2, <1>5 DEF LedgerInv, KidsFit
  <1>8. listed' \subseteq Servers /\ \A t \in listed' : life[t] # "unborn"
    BY <1>2, <1>4 DEF LedgerInv, LedgerTypeOK, KidsFit
  <1>9. ~reused /\ ~broken =>
          \A t \in listed' : IF parent[t] = g THEN t \in kept ELSE t \in listed
    <2>1. ~reused /\ ~broken => \A t \in listed : parent[t] = g => t \in kids[g]
      BY <1>2 DEF LedgerInv, ListedFits
    <2>2. QED BY <1>2, <1>3, <1>4, <1>6, <2>1
  <1>10. /\ spawning' \in [Gateways -> Servers \cup {Nil}]
         /\ dropping' \in [Gateways -> Servers \cup {Nil}]
         /\ \A h \in Gateways : /\ spawning'[h] \in {spawning[h], Nil}
                                /\ dropping'[h] \in {dropping[h], Nil}
    BY <1>4 DEF LedgerInv, LedgerTypeOK
  <1>11. /\ kids' = [kids EXCEPT ![g] = kept]
         /\ save(g, kept) \/ (kept = kids[g] /\ UNCHANGED <<file, broken>>)
         /\ UNCHANGED <<osVars, gate, reapVars, due, hit, spared, reused>>
    BY <1>1, <1>3 DEF record
  <1>12. QED BY <1>2, <1>5, <1>7, <1>8, <1>9, <1>10, <1>11, SaveLedgerStep

\* forget: the dropped server leaves it.
LEMMA ForgetStep ==
  ASSUME LedgerInv, NEW g \in Gateways, forget(g)
  PROVE  LedgerInv'
  <1>1. PICK s : s = dropping[g]
    OBVIOUS
  <1>2. s \in Servers /\ life[s] # "unborn" /\ parent[s] = g /\ gate[g] = "up"
    BY <1>1 DEF forget, LedgerInv, LedgerTypeOK, KidsFit
  <1>3. PICK kept : kept = Without(g, pid[s])
    OBVIOUS
  <1>4. /\ listed' = listed \ {s}
        /\ dropping' = [dropping EXCEPT ![g] = Nil] /\ UNCHANGED spawning
    BY <1>1 DEF forget
  <1>5. kept \in SUBSET Servers /\ kept \subseteq kids[g]
    BY <1>2, <1>3, WithoutFacts
  <1>6. ~reused => kids[g] \subseteq kept \cup {s}
    BY <1>2, <1>3, WithoutFacts
  <1>7. \A t \in kept : life[t] # "unborn" /\ parent[t] = g
    BY <1>5 DEF LedgerInv, KidsFit
  <1>8. listed' \subseteq Servers /\ \A t \in listed' : life[t] # "unborn"
    BY <1>4 DEF LedgerInv, LedgerTypeOK, KidsFit
  <1>9. ~reused /\ ~broken =>
          \A t \in listed' : IF parent[t] = g THEN t \in kept ELSE t \in listed
    <2>1. ~reused /\ ~broken => \A t \in listed : parent[t] = g => t \in kids[g]
      BY <1>2 DEF LedgerInv, ListedFits
    <2>2. QED BY <1>4, <1>6, <2>1
  <1>10. /\ spawning' \in [Gateways -> Servers \cup {Nil}]
         /\ dropping' \in [Gateways -> Servers \cup {Nil}]
         /\ \A h \in Gateways : /\ spawning'[h] \in {spawning[h], Nil}
                                /\ dropping'[h] \in {dropping[h], Nil}
    BY <1>4 DEF LedgerInv, LedgerTypeOK
  <1>11. /\ kids' = [kids EXCEPT ![g] = kept]
         /\ save(g, kept) \/ (kept = kids[g] /\ UNCHANGED <<file, broken>>)
         /\ UNCHANGED <<osVars, gate, reapVars, due, hit, spared, reused>>
    BY <1>1, <1>3 DEF forget
  <1>12. QED BY <1>2, <1>5, <1>7, <1>8, <1>9, <1>10, <1>11, SaveLedgerStep

-----------------------------------------------------------------------------
(* Reaping.                                                                *)

\* A file that is skipped has nothing of what the reaper owes; one that is read is
\* that of a gateway that is gone.
LEMMA ReapReadStep ==
  ASSUME LedgerInv, NEW g \in Gateways, NEW q \in Pids, ReapRead(g, q), UNCHANGED due,
         Reapable(g, q) => at' = [at EXCEPT ![g] = q] /\ found' = [found EXCEPT ![g] = file[q].children],
         ~Reapable(g, q) => UNCHANGED <<at, found>>
  PROVE  LedgerInv'
  <1>1. /\ gate[g] = "reaping" /\ at[g] = 0 /\ q \in todo[g]
        /\ UNCHANGED <<pid, last, life, helper, other, parent, gate, spawning, dropping, kids,
                       file, aim, proved, listed, due, hit, spared, reused, broken>>
    BY DEF ReapRead, osVars
  <1>2. LedgerTypeOK /\ Born(pid, last, gate, life, helper, parent) /\ Numbered(reused, pid)
    BY DEF LedgerInv
  <1>3. found[g] = {}
    BY <1>1 DEF LedgerInv, ReapFits
  <1>4. /\ todo' \in [Gateways -> SUBSET Pids] /\ todo'[g] = todo[g] \ {q}
        /\ \A h \in Gateways : h # g => todo'[h] = todo[h]
    BY <1>2 DEF LedgerTypeOK, ReapRead
  <1>5. file[q] # Nil => /\ file[q].owner \in Gateways /\ file[q].children \subseteq Servers
                         /\ pid[file[q].owner] = q /\ gate[file[q].owner] # "unborn"
                         /\ \A s \in file[q].children : life[s] # "unborn" /\ parent[s] = file[q].owner
    BY <1>2 DEF LedgerInv, LedgerTypeOK, Ledgers, FilesFit
  <1>6. \A o \in Gateways : gate[o] # "unborn" => (~Exists(o) <=> gate[o] = "gone")
    BY <1>2, KindAssumption DEF Exists, Running, LedgerTypeOK
  <1>7. /\ at' \in [Gateways -> 0..MaxPid] /\ found' \in [Gateways -> SUBSET Servers]
        /\ \A h \in Gateways : h # g => at'[h] = at[h] /\ found'[h] = found[h]
        /\ IF Reapable(g, q) THEN at'[g] = q /\ found'[g] = file[q].children
           ELSE at'[g] = 0 /\ found'[g] = {}
    <2>1. at \in [Gateways -> 0..MaxPid] /\ found \in [Gateways -> SUBSET Servers]
      BY <1>2 DEF LedgerTypeOK
    <2>2. q \in 0..MaxPid
      BY PidAssumption DEF Pids
    <2>3. CASE Reapable(g, q)
      <3>1. file[q].children \in SUBSET Servers
        BY <1>5, <2>3 DEF Reapable
      <3>2. at' = [at EXCEPT ![g] = q] /\ found' = [found EXCEPT ![g] = file[q].children]
        BY <2>3
      <3>3. QED BY <2>1, <2>2, <2>3, <3>1, <3>2
    <2>4. CASE ~Reapable(g, q)
      BY <1>1, <1>3, <2>1, <2>4
    <2>5. QED BY <2>3, <2>4
  <1>8. Reapable(g, q) => file[q] # Nil /\ gate[file[q].owner] = "gone"
    BY <1>5, <1>6 DEF Reapable, OwnerGone
  <1>9. LedgerTypeOK'
    BY <1>1, <1>4, <1>7 DEF LedgerInv, LedgerTypeOK
  <1>10. /\ Born(pid', last', gate', life', helper', parent')
         /\ Apart(pid', gate', life', helper', other')
         /\ Numbered(reused', pid')
         /\ KidsFit(gate', life', parent', kids', spawning', dropping', listed')
         /\ FilesFit(gate', life', parent', file')
         /\ ListedFits(reused', broken', pid', gate', life', helper', spared', parent', kids',
                    file', listed')
    BY <1>1 DEF LedgerInv
  <1>11. ReapFits(pid', gate', life', parent', todo', at', found')
    <2> SUFFICES ASSUME NEW h \in Gateways
                 PROVE  /\ gate[h] # "reaping" => todo'[h] = {} /\ at'[h] = 0
                        /\ at'[h] = 0 => found'[h] = {}
                        /\ at'[h] # 0 => \E o \in Gateways : gate[o] = "gone" /\ pid[o] = at'[h]
                        /\ \A s \in found'[h] : /\ life[s] # "unborn"
                                                /\ parent[s] \in Gateways
                                                /\ gate[parent[s]] = "gone"
      BY <1>1 DEF ReapFits
    <2>1. CASE h # g
      BY <2>1, <1>4, <1>7 DEF LedgerInv, ReapFits
    <2>2. CASE h = g /\ Reapable(g, q)
      <3>1. q # 0
        BY PidAssumption DEF Pids
      <3>2. QED BY <2>2, <3>1, <1>1, <1>5, <1>7, <1>8
    <2>3. CASE h = g /\ ~Reapable(g, q)
      BY <2>3, <1>1, <1>7
    <2>4. QED BY <2>1, <2>2, <2>3
  <1>11a. AimFits(found', aim', proved')
    <2>1. aim[g] = Nil
      BY <1>3 DEF LedgerInv, AimFits
    <2>2. QED BY <1>1, <1>7, <2>1 DEF LedgerInv, AimFits
  <1>12. Emptied(reused', life', helper', spared', file', at', found')
    <2>1. \A h \in Gateways : h # g => at'[h] = at[h] /\ found'[h] = found[h]
      BY <1>7
    <2>2. at'[g] # 0 => found'[g] = file[at'[g]].children
      BY <1>7
    <2>3. QED BY <1>1, <2>1, <2>2 DEF LedgerInv, Emptied
  <1>13. DueFits(reused', gate', life', helper', spared', file', todo', found', due')
    <2>1. /\ \A h \in Gateways : \A s \in due[h] : life[s] # "unborn"
          /\ ~reused => \A h \in Gateways : gate[h] = "reaping" => \A s \in due[h] :
               \/ ~Owed(life, helper, spared, s)
               \/ s \in found[h]
               \/ \E p \in todo[h] : /\ file[p] # Nil /\ s \in file[p].children
                                     /\ gate[file[p].owner] = "gone"
      BY DEF LedgerInv, DueFits
    <2>2. ~reused /\ file[q] # Nil /\ gate[file[q].owner] = "gone" => Reapable(g, q)
      <3> SUFFICES ASSUME ~reused, file[q] # Nil, gate[file[q].owner] = "gone"
                   PROVE  Reapable(g, q)
        OBVIOUS
      <3>1. file[q].owner \in Gateways /\ file[q].owner # g /\ gate[file[q].owner] # "unborn"
        BY <1>1, <1>5
      <3>2. pid[file[q].owner] # pid[g]
        BY <1>2, <3>1, NumbersDiffer
      <3>3. QED BY <1>6, <3>1, <3>2 DEF Reapable, OwnerGone
    <2>3. ASSUME ~reused, NEW h \in Gateways, gate[h] = "reaping", NEW s \in due[h]
          PROVE  \/ ~Owed(life, helper, spared, s)
                 \/ s \in found'[h]
                 \/ \E p \in todo'[h] : /\ file[p] # Nil /\ s \in file[p].children
                                        /\ gate[file[p].owner] = "gone"
      <3>1. CASE h # g
        BY <3>1, <2>1, <2>3, <1>4, <1>7
      <3>2. CASE h = g /\ Owed(life, helper, spared, s)
        <4>1. PICK p \in todo[g] : file[p] # Nil /\ s \in file[p].children
                                     /\ gate[file[p].owner] = "gone"
          BY <3>2, <2>1, <2>3, <1>3
        <4>2. CASE p = q
          BY <3>2, <4>1, <4>2, <2>2, <2>3, <1>7
        <4>3. CASE p # q
          BY <3>2, <4>1, <4>3, <1>4
        <4>4. QED BY <4>2, <4>3
      <3>3. QED BY <3>1, <3>2
    <2>4. QED BY <1>1, <2>1, <2>3 DEF DueFits
  <1>14. QED BY <1>9, <1>10, <1>11, <1>11a, <1>12, <1>13 DEF LedgerInv

\* A file that cannot be read: the reaper goes on, and owes nothing of it.
LEMMA ReapSkipStep ==
  ASSUME LedgerInv, NEW g \in Gateways, NEW q \in Pids, ReapRead(g, q), UNCHANGED <<at, found>>,
         file[q] # Nil, due' = [due EXCEPT ![g] = @ \ file[q].children]
  PROVE  LedgerInv'
  <1>1. /\ gate[g] = "reaping"
        /\ UNCHANGED <<pid, last, life, helper, other, parent, gate, spawning, dropping, kids,
                       file, at, found, aim, proved, listed, hit, spared, reused, broken>>
    BY DEF ReapRead, osVars
  <1>2. /\ todo \in [Gateways -> SUBSET Pids] /\ due \in [Gateways -> SUBSET Servers]
        /\ LedgerTypeOK
    BY DEF LedgerInv, LedgerTypeOK
  <1>3. /\ todo' \in [Gateways -> SUBSET Pids] /\ todo'[g] = todo[g] \ {q}
        /\ \A h \in Gateways : h # g => todo'[h] = todo[h]
    BY <1>2 DEF ReapRead
  <1>4. /\ due' \in [Gateways -> SUBSET Servers] /\ due'[g] = due[g] \ file[q].children
        /\ \A h \in Gateways : h # g => due'[h] = due[h]
    BY <1>2
  <1>5. LedgerTypeOK'
    BY <1>1, <1>2, <1>3, <1>4 DEF LedgerTypeOK
  <1>6. /\ Born(pid', last', gate', life', helper', parent')
        /\ Apart(pid', gate', life', helper', other')
        /\ Numbered(reused', pid')
        /\ KidsFit(gate', life', parent', kids', spawning', dropping', listed')
        /\ FilesFit(gate', life', parent', file')
        /\ AimFits(found', aim', proved')
        /\ Emptied(reused', life', helper', spared', file', at', found')
        /\ ListedFits(reused', broken', pid', gate', life', helper', spared', parent', kids',
                      file', listed')
    BY <1>1 DEF LedgerInv
  <1>7. ReapFits(pid', gate', life', parent', todo', at', found')
    BY <1>1, <1>3 DEF LedgerInv, ReapFits
  <1>8. DueFits(reused', gate', life', helper', spared', file', todo', found', due')
    <2>1. \A h \in Gateways : due'[h] \subseteq due[h]
      BY <1>4
    <2>2. ASSUME ~reused, NEW h \in Gateways, gate[h] = "reaping", NEW s \in due'[h]
          PROVE  \/ ~Owed(life, helper, spared, s)
                 \/ s \in found[h]
                 \/ \E p \in todo'[h] : /\ file[p] # Nil /\ s \in file[p].children
                                        /\ gate[file[p].owner] = "gone"
      <3>1. \/ ~Owed(life, helper, spared, s)
            \/ s \in found[h]
            \/ \E p \in todo[h] : /\ file[p] # Nil /\ s \in file[p].children
                                  /\ gate[file[p].owner] = "gone"
        BY <2>1, <2>2 DEF LedgerInv, DueFits
      <3>2. h = g => s \notin file[q].children
        BY <1>4
      <3>3. QED BY <3>1, <3>2, <1>3
    <2>3. QED BY <1>1, <2>1, <2>2 DEF LedgerInv, DueFits
  <1>9. QED BY <1>5, <1>6, <1>7, <1>8 DEF LedgerInv

\* The file that goes is that of no running gateway, and all it lists is dead or given up.
LEMMA ReapRemoveStep ==
  ASSUME LedgerInv, NEW g \in Gateways, ReapRemove(g)
  PROVE  LedgerInv'
  <1>1. /\ at[g] # 0 /\ found[g] = {}
        /\ UNCHANGED <<pid, last, life, helper, other, parent, gate, spawning, dropping, kids,
                       todo, found, aim, proved, listed, due, hit, spared, reused, broken>>
    BY DEF ReapRemove, osVars, historyVars
  <1>2. LedgerTypeOK /\ Born(pid, last, gate, life, helper, parent) /\ Numbered(reused, pid)
    BY DEF LedgerInv
  <1>3. at[g] \in Pids
    BY <1>1, <1>2, PidAssumption DEF LedgerTypeOK, Pids
  <1>4. /\ file' \in [Pids -> Ledgers \cup {Nil}] /\ file'[at[g]] \in {Nil, file[at[g]]}
        /\ \A q \in Pids : q # at[g] => file'[q] = file[q]
    BY <1>2, <1>3 DEF LedgerTypeOK, ReapRemove
  <1>5. /\ at' \in [Gateways -> 0..MaxPid] /\ at'[g] = 0
        /\ \A h \in Gateways : h # g => at'[h] = at[h]
    BY <1>2, PidAssumption DEF LedgerTypeOK, ReapRemove
  <1>6. PICK o \in Gateways : gate[o] = "gone" /\ pid[o] = at[g]
    BY <1>1 DEF LedgerInv, ReapFits
  <1>7. ~reused /\ file[at[g]] # Nil => \A s \in file[at[g]].children : ~Owed(life, helper, spared, s)
    BY <1>1 DEF LedgerInv, Emptied
  <1>8. LedgerTypeOK'
    <2>1. \A q \in Pids : file'[q] # Nil => pid[file'[q].owner] = q
      BY <1>2, <1>4 DEF LedgerTypeOK
    <2>2. QED BY <1>1, <1>4, <1>5, <2>1 DEF LedgerInv, LedgerTypeOK
  <1>9. /\ Born(pid', last', gate', life', helper', parent')
        /\ Apart(pid', gate', life', helper', other')
        /\ Numbered(reused', pid')
        /\ KidsFit(gate', life', parent', kids', spawning', dropping', listed')
        /\ AimFits(found', aim', proved')
    BY <1>1 DEF LedgerInv
  <1>10. FilesFit(gate', life', parent', file')
    BY <1>1, <1>4 DEF LedgerInv, FilesFit
  <1>11. ReapFits(pid', gate', life', parent', todo', at', found')
    BY <1>1, <1>5 DEF LedgerInv, ReapFits
  <1>12. Emptied(reused', life', helper', spared', file', at', found')
    <2>1. \A h \in Gateways : at[h] # 0 => at[h] \in Pids
      BY <1>2, PidAssumption DEF LedgerTypeOK, Pids
    <2>2. QED BY <1>1, <1>4, <1>5, <2>1 DEF LedgerInv, Emptied
  <1>13. ListedFits(reused', broken', pid', gate', life', helper', spared', parent', kids',
                    file', listed')
    <2> SUFFICES ASSUME ~reused, ~broken
                 PROVE  ListedFits(reused', broken', pid', gate', life', helper', spared', parent', kids',
                                   file', listed')
      BY <1>1 DEF ListedFits
    <2>1. /\ \A h \in Gateways : gate[h] \in {"reaping", "up"} => file[pid[h]] = Content(h, kids[h])
          /\ \A s \in listed :
               IF gate[parent[s]] \in {"reaping", "up"} THEN s \in kids[parent[s]]
               ELSE \/ ~Owed(life, helper, spared, s)
                    \/ file[pid[parent[s]]] # Nil /\ s \in file[pid[parent[s]]].children
      BY DEF LedgerInv, ListedFits
    <2>2. \A h \in Gateways : gate[h] \in {"reaping", "up"} => pid[h] \in Pids /\ pid[h] # at[g]
      BY <1>2, <1>6, NumbersDiffer, GatewayPid
    <2>3. \A h \in Gateways : gate[h] \in {"reaping", "up"} => file'[pid[h]] = Content(h, kids[h])
      BY <1>4, <2>1, <2>2
    <2>4. ASSUME NEW s \in listed
          PROVE  IF gate[parent[s]] \in {"reaping", "up"} THEN s \in kids[parent[s]]
                 ELSE \/ ~Owed(life, helper, spared, s)
                      \/ file'[pid[parent[s]]] # Nil /\ s \in file'[pid[parent[s]]].children
      <3>1. s \in Servers /\ parent[s] \in Gateways /\ gate[parent[s]] # "unborn"
        BY DEF LedgerInv, LedgerTypeOK, KidsFit, Born
      <3>2. pid[parent[s]] \in Pids
        BY <1>2, <3>1, GatewayPid
      <3>3. CASE pid[parent[s]] = at[g]
        BY <2>1, <3>3, <1>7
      <3>4. CASE pid[parent[s]] # at[g]
        BY <2>1, <3>2, <3>4, <1>4
      <3>5. QED BY <3>3, <3>4
    <2>5. QED BY <1>1, <2>3, <2>4 DEF ListedFits
  <1>14. DueFits(reused', gate', life', helper', spared', file', todo', found', due')
    <2>1. /\ \A h \in Gateways : \A s \in due[h] : life[s] # "unborn"
          /\ ~reused => \A h \in Gateways : gate[h] = "reaping" => \A s \in due[h] :
               \/ ~Owed(life, helper, spared, s)
               \/ s \in found[h]
               \/ \E p \in todo[h] : /\ file[p] # Nil /\ s \in file[p].children
                                     /\ gate[file[p].owner] = "gone"
      BY DEF LedgerInv, DueFits
    <2>2. \A h \in Gateways : todo[h] \subseteq Pids
      BY <1>2 DEF LedgerTypeOK
    <2>3. ~reused => \A h \in Gateways : gate[h] = "reaping" => \A s \in due[h] :
               \/ ~Owed(life, helper, spared, s)
               \/ s \in found[h]
               \/ \E p \in todo[h] : /\ file'[p] # Nil /\ s \in file'[p].children
                                     /\ gate[file'[p].owner] = "gone"
      BY <2>1, <2>2, <1>4, <1>7
    <2>4. QED BY <1>1, <2>1, <2>3 DEF DueFits
  <1>15. QED BY <1>8, <1>9, <1>10, <1>11, <1>12, <1>13, <1>14 DEF LedgerInv

\* The end of reap_orphans changes nothing that the invariant tells apart from reaping.
LEMMA ReapDoneStep ==
  ASSUME LedgerInv, NEW g \in Gateways, ReapDone(g)
  PROVE  LedgerInv'
  <1>1. /\ gate[g] = "reaping" /\ todo[g] = {} /\ at[g] = 0
        /\ UNCHANGED <<pid, last, life, helper, other, parent, spawning, dropping, kids, file,
                       todo, at, found, aim, proved, listed, due, hit, spared, reused, broken>>
    BY DEF ReapDone, osVars, reapVars, historyVars
  <1>2. /\ gate' \in [Gateways -> {"unborn", "reaping", "up", "gone"}]
        /\ gate'[g] = "up" /\ \A h \in Gateways : h # g => gate'[h] = gate[h]
    BY DEF ReapDone, LedgerInv, LedgerTypeOK
  <1>3. \A h \in Gateways : /\ gate'[h] \in {"reaping", "up"} <=> gate[h] \in {"reaping", "up"}
                            /\ gate'[h] = "unborn" <=> gate[h] = "unborn"
                            /\ gate'[h] = "gone" <=> gate[h] = "gone"
                            /\ gate[h] = "up" => gate'[h] = "up"
                            /\ gate'[h] = "reaping" => gate[h] = "reaping"
    BY <1>1, <1>2
  <1>4. LedgerTypeOK'
    BY <1>1, <1>2 DEF LedgerInv, LedgerTypeOK
  <1>5. Born(pid', last', gate', life', helper', parent')
    BY <1>1, <1>3 DEF LedgerInv, Born
  <1>6. Apart(pid', gate', life', helper', other')
    <2>1. \A x \in AllProcs : Takes(gate', life', helper', other', x)
                                => Takes(gate, life, helper, other, x)
      BY <1>1, <1>3 DEF Takes
    <2>2. QED BY <1>1, <2>1 DEF LedgerInv, Apart
  <1>7. /\ Numbered(reused', pid') /\ AimFits(found', aim', proved')
        /\ Emptied(reused', life', helper', spared', file', at', found')
    BY <1>1 DEF LedgerInv
  <1>8. KidsFit(gate', life', parent', kids', spawning', dropping', listed')
    BY <1>1, <1>3 DEF LedgerInv, KidsFit
  <1>9. FilesFit(gate', life', parent', file')
    BY <1>1, <1>3 DEF LedgerInv, FilesFit, LedgerTypeOK, Ledgers
  <1>10. ReapFits(pid', gate', life', parent', todo', at', found')
    <2>1. \A h \in Gateways : gate'[h] # "reaping" => todo'[h] = {} /\ at'[h] = 0
      BY <1>1, <1>2 DEF LedgerInv, ReapFits
    <2>2. QED BY <1>1, <1>3, <2>1 DEF LedgerInv, ReapFits
  <1>11. ListedFits(reused', broken', pid', gate', life', helper', spared', parent', kids',
                    file', listed')
    <2>1. \A s \in listed : s \in Servers /\ parent[s] \in Gateways
      BY DEF LedgerInv, LedgerTypeOK, KidsFit, Born
    <2>2. QED BY <1>1, <1>3, <2>1 DEF LedgerInv, ListedFits
  <1>12. DueFits(reused', gate', life', helper', spared', file', todo', found', due')
    <2>1. \A p \in Pids : file[p] # Nil => file[p].owner \in Gateways
      BY DEF LedgerInv, LedgerTypeOK, Ledgers
    <2>2. \A h \in Gateways : todo[h] \subseteq Pids
      BY DEF LedgerInv, LedgerTypeOK
    <2>3. QED BY <1>1, <1>3, <2>1, <2>2 DEF LedgerInv, DueFits
  <1>13. QED BY <1>4, <1>5, <1>6, <1>7, <1>8, <1>9, <1>10, <1>11, <1>12 DEF LedgerInv

-----------------------------------------------------------------------------
(* The theorems.                                                           *)

\* Every step keeps the invariant.
LEMMA LedgerNextInv ==
  ASSUME LedgerInv, [LedgerNext]_ledgerVars
  PROVE  LedgerInv'
  <1>1. CASE UNCHANGED ledgerVars
    BY <1>1 DEF ledgerVars, osVars, reapVars, historyVars, LedgerInv, LedgerTypeOK
  <1>2. ASSUME NEW g \in Gateways, GatewayStep(g) PROVE LedgerInv'
    <2>1. CASE \E q \in Pids : ReapRead(g, q)
      <3>1. PICK q \in Pids : ReapRead(g, q)
        BY <2>1
      <3>2. CASE /\ file[q] # Nil /\ due' = [due EXCEPT ![g] = @ \ file[q].children]
                 /\ UNCHANGED <<at, found>>
        BY <3>1, <3>2, ReapSkipStep
      <3>3. CASE /\ UNCHANGED due
                 /\ Reapable(g, q) => /\ at' = [at EXCEPT ![g] = q]
                                      /\ found' = [found EXCEPT ![g] = file[q].children]
                 /\ ~Reapable(g, q) => UNCHANGED <<at, found>>
        BY <3>1, <3>3, ReapReadStep
      <3>4. QED BY <3>1, <3>2, <3>3 DEF ReapRead
    <2>2. ASSUME NEW s \in Servers,
                 kill_orphan_group(g, s) \/ Spawn(g, s) \/ TryWait(g, s) \/ Drop(g, s)
          PROVE  LedgerInv'
      BY <1>2, <2>2, ProofStep, SpawnStep, ServerEndsStep, DropStep
    <2>3. QED BY <1>2, <2>1, <2>2, StartStep, KillStep, ReapRemoveStep, ReapDoneStep, RecordStep, ForgetStep,
                 GatewayEndsStep DEF GatewayStep
  <1>3. ASSUME NEW s \in Servers, ServerExits(s) \/ HelperExits(s) PROVE LedgerInv'
    BY <1>3, ServerEndsStep
  <1>4. ASSUME NEW x \in Strangers, StrangerStep(x) PROVE LedgerInv'
    BY <1>4, StrangerInv
  <1>5. QED BY <1>1, <1>2, <1>3, <1>4 DEF LedgerNext

\* So it always holds.
LEMMA LedgerInvariance == LedgerSpec => []LedgerInv
  <1>1. LedgerInv /\ [LedgerNext]_ledgerVars => LedgerInv'
    BY LedgerNextInv
  <1>2. QED BY LedgerInitInv, <1>1, PTL DEF LedgerSpec

\* Until its transport is dropped and forgotten, a recorded server with anything alive in
\* its group is in a ledger file: for any number of gateways that start, end and reap, as
\* long as no gateway or server gets a used number, no write fails, and no reaper failed to
\* prove or to signal the group.
THEOREM EntriesStayListed == LedgerSpec => []LedgerOK
  <1>1. LedgerInv => LedgerOK
    <2> SUFFICES ASSUME LedgerInv, ~reused, ~broken, NEW s \in listed \ spared, GroupAlive(s)
                 PROVE  \E q \in Pids : file[q] # Nil /\ s \in file[q].children
      BY DEF LedgerInv, LedgerOK, EntriesOutlast
    <2>1. /\ s \in Servers /\ parent[s] \in Gateways /\ gate[parent[s]] # "unborn"
          /\ kids[parent[s]] \in SUBSET Servers
      BY DEF LedgerInv, LedgerTypeOK, KidsFit, Born
    <2>2. pid[parent[s]] \in Pids
      BY <2>1, GatewayPid DEF LedgerInv
    <2>3. Owed(life, helper, spared, s)
      BY DEF Alive, GroupAlive, Owed
    <2>4. file[pid[parent[s]]] # Nil /\ s \in file[pid[parent[s]]].children
      <3>1. CASE gate[parent[s]] \in {"reaping", "up"}
        <4>1. s \in kids[parent[s]] /\ file[pid[parent[s]]] = Content(parent[s], kids[parent[s]])
          BY <2>1, <3>1 DEF LedgerInv, ListedFits
        <4>2. QED BY <2>1, <4>1, ContentFacts
      <3>2. CASE gate[parent[s]] \notin {"reaping", "up"}
        BY <2>3, <3>2 DEF LedgerInv, ListedFits
      <3>3. QED BY <3>1, <3>2
    <2>5. QED BY <2>2, <2>4
  <1>2. QED BY LedgerInvariance, <1>1, PTL

\* However numbers are recycled and however many gateways reap at the same time, what a
\* reaper signals of the group it proved are servers whose gateway is gone and nothing
\* else, and whoever else it signals got the number after that group had ended.
THEOREM SignalsReachOrphansOnly == LedgerSpec => OnlyOrphansSignalled
  <1>1. ASSUME LedgerInv, NEW g \in Gateways, killpg(g), NEW x \in hit' \ hit
        PROVE  IF x \in proved[g] THEN x \in Servers /\ ~Running(parent[x]) ELSE ~GroupAlive(aim[g])
    <2>1. /\ aim[g] \in Servers /\ proved[g] = {aim[g]} /\ ~Running(parent[aim[g]])
      BY <1>1, AimedAt DEF killpg
    <2>2. x \in Members(pid[aim[g]])
      BY <1>1 DEF killpg, KillGroup
    <2>3. GroupAlive(aim[g]) => Members(pid[aim[g]]) = {aim[g]}
      BY <1>1, <2>1, GroupIsIts DEF LedgerInv, GroupAlive, Alive
    <2>4. QED BY <2>1, <2>2, <2>3
  <1>2. ASSUME LedgerInv, [LedgerNext]_ledgerVars
        PROVE  [\A g \in Gateways : aim'[g] # aim[g] =>
                  \A x \in hit' \ hit :
                    IF x \in proved[g] THEN x \in Servers /\ ~Running(parent[x])
                    ELSE ~GroupAlive(aim[g])]_ledgerVars
    <2>1. ASSUME NEW g \in Gateways, killpg(g), NEW h \in Gateways, aim'[h] # aim[h] PROVE h = g
      BY <1>2, <2>1 DEF killpg, LedgerInv, LedgerTypeOK
    <2>2. CASE UNCHANGED hit
      BY <2>2
    <2>3. CASE UNCHANGED ledgerVars
      BY <2>3 DEF ledgerVars
    <2>4. ASSUME NEW g \in Gateways, GatewayStep(g)
          PROVE  UNCHANGED hit \/ killpg(g)
      BY <2>4 DEF GatewayStep, Start, ReapRemove, ReapDone, record, forget, GatewayEnds, ReapRead,
                  kill_orphan_group, Spawn, TryWait, Drop, historyVars
    <2>5. ASSUME NEW s \in Servers, ServerExits(s) \/ HelperExits(s) PROVE UNCHANGED hit
      BY <2>5 DEF ServerExits, HelperExits, historyVars
    <2>6. ASSUME NEW x \in Strangers, StrangerStep(x) PROVE UNCHANGED hit
      BY <2>6 DEF StrangerStep, historyVars
    <2>7. QED BY <1>1, <1>2, <2>1, <2>2, <2>3, <2>4, <2>5, <2>6 DEF LedgerNext
  <1>3. QED BY LedgerInvariance, <1>2, PTL DEF LedgerSpec, OnlyOrphansSignalled

\* When reap_orphans returns, nothing is left alive of what it could read in the files of
\* gateways that were gone when it began, but for groups that some reaper could not prove
\* or signal, and unless a gateway or server got a used number.
THEOREM ReapingCompletes == LedgerSpec => ReapIsComplete
  <1>1. ASSUME LedgerInv, NEW g \in Gateways, ~reused,
               gate[g] = "reaping", todo[g] = {}, at[g] = 0, NEW s \in due[g]
        PROVE  ~GroupAlive(s) \/ s \in spared
    <2>1. found[g] = {}
      BY <1>1 DEF LedgerInv, ReapFits
    <2>2. ~Owed(life, helper, spared, s)
      BY <1>1, <2>1 DEF LedgerInv, DueFits
    <2>3. QED BY <2>2 DEF Alive, GroupAlive, Owed
  <1>2. ASSUME LedgerInv, [LedgerNext]_ledgerVars, NEW g \in Gateways,
               gate[g] = "reaping", gate'[g] = "up"
        PROVE  todo[g] = {} /\ at[g] = 0
    <2>1. ASSUME NEW h \in Gateways, GatewayStep(h)
          PROVE  \/ ReapDone(h) \/ UNCHANGED gate
                 \/ gate' = [gate EXCEPT ![h] = "gone"] \/ gate' = [gate EXCEPT ![h] = "reaping"]
      BY <2>1 DEF GatewayStep, Start, ReapRemove, record, forget, GatewayEnds, ReapRead,
                  kill_orphan_group, killpg, Spawn, TryWait, Drop
    <2>2. gate \in [Gateways -> {"unborn", "reaping", "up", "gone"}]
      BY <1>2 DEF LedgerInv, LedgerTypeOK
    <2>3. ASSUME NEW h \in Gateways, ReapDone(h) PROVE todo[g] = {} /\ at[g] = 0
      BY <1>2, <2>2, <2>3 DEF ReapDone
    <2>4. ASSUME NEW x \in Servers \cup Strangers,
                 (x \in Servers /\ (ServerExits(x) \/ HelperExits(x))) \/ StrangerStep(x)
          PROVE  UNCHANGED gate
      BY <2>4 DEF ServerExits, HelperExits, StrangerStep
    <2>5. CASE UNCHANGED ledgerVars
      BY <1>2, <2>5 DEF ledgerVars
    <2>6. QED BY <1>2, <2>1, <2>2, <2>3, <2>4, <2>5 DEF LedgerNext
  <1>3. ASSUME LedgerInv, [LedgerNext]_ledgerVars
        PROVE  [\A g \in Gateways : ~reused /\ gate[g] = "reaping" /\ gate'[g] = "up" =>
                  \A s \in due[g] : ~GroupAlive(s) \/ s \in spared]_ledgerVars
    BY <1>1, <1>2, <1>3
  <1>4. QED BY LedgerInvariance, <1>3, PTL DEF LedgerSpec, ReapIsComplete
=============================================================================
