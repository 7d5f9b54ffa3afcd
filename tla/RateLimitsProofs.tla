-------------------------- MODULE RateLimitsProofs --------------------------
(***************************************************************************)
(* RateLimits' CapHolds, AccountsOK and DenialsAreEarned for any number of *)
(* processes, tools and caps, and a day or a month that turns at any       *)
(* moment.                                                                 *)
(***************************************************************************)
EXTENDS RateLimits, TLAPS

(* The inductive invariant, in parts.                                      *)

CountersOK ==
  /\ today \in Days /\ disk \in Counters /\ counted \in Counters
  /\ lock \in Procs \cup {None} /\ bound \in [Procs -> BOOLEAN]
  /\ mem \in [Procs -> Counters] /\ pending \in [Procs -> BOOLEAN]
  /\ step \in [Procs -> {"idle", "caps", "count"}] /\ tool \in [Procs -> Tools \cup {None}]

Deciding(p) == bound[p] /\ step[p] # "idle"

\* A bound process decides under the file's lock, and about a tool.
DecidesLocked == \A p \in Procs : Deciding(p) => lock = p /\ tool[p] \in Tools

\* No window that has yet to begin has been counted in.
FutureIsEmpty == \A k \in Keys : k[2] > window_key(k[1]) => counted[k] = 0

\* The file has every call that bound processes accepted in the current windows,
\* and so has the copy a call is being decided on.
FileHasAll ==
  \A k \in Keys : IsCurrent(k) =>
    counted[k] <= disk[k] /\ \A p \in Procs : Deciding(p) => counted[k] <= mem[p][k]

\* Between the check and the count every cap still has room, even if the
\* window has turned in between.
RoomLeft ==
  \A p \in Procs : Deciding(p) /\ step[p] = "count" =>
    \A c \in Applicable(tool[p]) : counted[counter_key(c)] < c.max

IInv == CountersOK /\ DecidesLocked /\ FutureIsEmpty /\ FileHasAll /\ RoomLeft /\ CapHolds

-----------------------------------------------------------------------------
(* The windows and the counters.                                           *)

\* A window never goes back: the day and the month of tomorrow are today's or later.
LEMMA WindowsAdvance ==
  ASSUME NEW d \in Days
  PROVE  /\ d \div DaysPerMonth \in Days
         /\ d \div DaysPerMonth <= (d + 1) \div DaysPerMonth
<1>1. d \div DaysPerMonth \in 0..d /\ d \div DaysPerMonth <= (d + 1) \div DaysPerMonth
  BY BoundAssumption, SMT DEF Days
<1>2. \A m \in 0..d : m \in Days
  BY BoundAssumption DEF Days
<1> QED
  BY <1>1, <1>2

\* The current window of each kind is one of the model's days.
LEMMA WindowKeyFacts ==
  ASSUME today \in Days, NEW w
  PROVE  window_key(w) \in Days
BY WindowsAdvance DEF window_key

\* The key of a cap is a current one, whatever the cap.
LEMMA CounterKeyFacts ==
  ASSUME today \in Days, NEW c \in Caps
  PROVE  /\ counter_key(c) \in Keys /\ IsCurrent(counter_key(c))
         /\ counter_key(c)[1] = c.window /\ counter_key(c)[3] = c.scope
         /\ c.max \in Nat \ {0} /\ c.window \in {"day", "month"} /\ c.scope \in Scopes
<1>1. /\ c.max \in Nat \ {0} /\ c.window \in {"day", "month"} /\ c.scope \in Scopes
  BY CapsAssumption DEF ParsedCaps
<1>2. window_key(c.window) \in Days
  BY WindowKeyFacts
<1> QED
  BY <1>1, <1>2 DEF counter_key, Keys, IsCurrent

\* A bump counts every key of the call once more and no other.
LEMMA BumpFacts ==
  ASSUME NEW f \in Counters, NEW t
  PROVE  /\ Bump(f, t) \in Counters
         /\ \A k \in Keys : Bump(f, t)[k] = IF k \in Keyed(t) THEN f[k] + 1 ELSE f[k]
BY DEF Bump, Counters

\* And so does the history of the accepted calls.
LEMMA ChargeFacts ==
  ASSUME NEW f \in Counters, NEW t
  PROVE  /\ Charge(f, t) \in Counters
         /\ \A k \in Keys : Charge(f, t)[k] = IF k \in Keyed(t) THEN f[k] + 1 ELSE f[k]
BY DEF Charge, Counters

\* A counter file without entries.
LEMMA ZeroFacts == Zero \in Counters /\ \A k \in Keys : Zero[k] = 0
BY DEF Zero, Counters

-----------------------------------------------------------------------------
(* Every operation keeps the invariant.                                    *)

\* At the start nothing is counted and nobody decides.
LEMMA InitInv == Init => IInv
<1> SUFFICES ASSUME Init PROVE IInv
  OBVIOUS
<1>1. CountersOK
  BY ZeroFacts, BoundAssumption DEF Init, CountersOK, Days
<1>2. DecidesLocked /\ RoomLeft
  BY DEF Init, DecidesLocked, RoomLeft, Deciding
<1>3. FutureIsEmpty
  BY ZeroFacts DEF Init, FutureIsEmpty
<1>4. FileHasAll
  BY ZeroFacts DEF Init, FileHasAll, Deciding
<1>5. CapHolds
  <2> SUFFICES ASSUME NEW c \in Caps, NEW d \in Days
               PROVE  counted[<<c.window, d, c.scope>>] <= c.max
    BY DEF CapHolds
  <2>1. c.max \in Nat /\ <<c.window, d, c.scope>> \in Keys
    BY CapsAssumption DEF ParsedCaps, Keys
  <2> QED
    BY <2>1, ZeroFacts DEF Init
<1> QED
  BY <1>1, <1>2, <1>3, <1>4, <1>5 DEF IInv

\* A step of p that leaves the windows and the accepted calls alone and the calls
\* of the others where they are keeps the invariant, if the file only grows while
\* nobody else decides, and if p itself holds the lock, decides on a copy that has
\* everything, and has room before it counts.
LEMMA ProcInv ==
  ASSUME IInv, NEW p \in Procs, CountersOK', UNCHANGED <<today, counted>>,
         \A q \in Procs \ {p} : UNCHANGED <<bound[q], step[q], tool[q], mem[q]>>,
         \A q \in Procs \ {p} : Deciding(q) => lock' = q,
         \A k \in Keys : IsCurrent(k) => disk[k] <= disk'[k],
         Deciding(p)' => lock' = p /\ tool'[p] \in Tools,
         Deciding(p)' => \A k \in Keys : IsCurrent(k) => counted[k] <= mem'[p][k],
         Deciding(p)' /\ step'[p] = "count" =>
           \A c \in Applicable(tool'[p]) : counted[counter_key(c)] < c.max
  PROVE  IInv'
<1>1. \A q \in Procs \ {p} : Deciding(q)' = Deciding(q)
  BY DEF Deciding
<1>2. DecidesLocked'
  BY <1>1 DEF IInv, DecidesLocked
<1>3. FutureIsEmpty' /\ CapHolds'
  BY DEF IInv, FutureIsEmpty, CapHolds, window_key
<1>4. FileHasAll'
  <2> SUFFICES ASSUME NEW k \in Keys, IsCurrent(k)
               PROVE  /\ counted[k] <= disk'[k]
                      /\ \A q \in Procs : Deciding(q)' => counted[k] <= mem'[q][k]
    BY DEF FileHasAll, IsCurrent, window_key
  <2>1. counted[k] \in Nat /\ disk[k] \in Nat /\ disk'[k] \in Nat /\ counted[k] <= disk[k]
    BY DEF IInv, CountersOK, Counters, FileHasAll
  <2>2. counted[k] <= disk'[k]
    BY <2>1
  <2>3. ASSUME NEW q \in Procs, q # p, Deciding(q)' PROVE counted[k] <= mem'[q][k]
    BY <1>1, <2>3 DEF IInv, FileHasAll
  <2> QED
    BY <2>2, <2>3
<1>5. RoomLeft'
  <2> SUFFICES ASSUME NEW q \in Procs, Deciding(q)', step'[q] = "count",
                      NEW c \in Applicable(tool'[q])
               PROVE  counted[counter_key(c)] < c.max
    BY DEF RoomLeft, counter_key, window_key
  <2>1. CASE q = p
    BY <2>1
  <2>2. CASE q # p
    BY <1>1, <2>2 DEF IInv, RoomLeft
  <2> QED
    BY <2>1, <2>2
<1> QED
  BY <1>2, <1>3, <1>4, <1>5 DEF IInv

\* The copy a process takes from the file has every accepted call of the current
\* windows, whether it merges what it counted before or refreshes; a merge that
\* fails touches only what the process has in memory.
LEMMA CopyFacts ==
  ASSUME IInv, NEW p \in Procs, (Merge(p) \/ MergeFails(p)) \/ Refresh(p)
  PROVE  /\ disk' \in Counters /\ mem' \in [Procs -> Counters] /\ pending' \in [Procs -> BOOLEAN]
         /\ \A k \in Keys : IsCurrent(k) => disk[k] <= disk'[k]
         /\ \A q \in Procs \ {p} : mem'[q] = mem[q]
         /\ Merge(p) \/ Refresh(p) => \A k \in Keys : IsCurrent(k) => counted[k] <= mem'[p][k]
<1>1. /\ today \in Days /\ disk \in Counters /\ mem \in [Procs -> Counters] /\ mem[p] \in Counters
      /\ pending \in [Procs -> BOOLEAN]
  BY DEF IInv, CountersOK
<1>2. /\ prune(disk) \in Counters /\ prune(mem[p]) \in Counters
      /\ \A k \in Keys : IsCurrent(k) => prune(disk)[k] = disk[k]
  BY <1>1 DEF prune, Counters
<1>3. \A k \in Keys : disk[k] \in Nat /\ prune(mem[p])[k] \in Nat /\ counted[k] \in Nat
  BY <1>1, <1>2 DEF Counters, IInv, CountersOK
<1>4. \A k \in Keys : IsCurrent(k) => counted[k] <= disk[k]
  BY DEF IInv, FileHasAll
<1>5. CASE Merge(p)
  <2> DEFINE sum == Plus(Loaded, prune(mem[p]))
  <2>1. sum \in Counters
    BY <1>2 DEF Loaded, Plus, Counters
  <2>2. \A k \in Keys : IsCurrent(k) => sum[k] = disk[k] + prune(mem[p])[k]
    BY <1>2 DEF Loaded, Plus
  <2>3. disk' = sum /\ mem' = [mem EXCEPT ![p] = sum] /\ pending' = [pending EXCEPT ![p] = FALSE]
    BY <1>5 DEF Merge
  <2> HIDE DEF sum
  <2>4. \A k \in Keys : IsCurrent(k) => disk[k] <= sum[k] /\ counted[k] <= sum[k]
    BY <1>3, <1>4, <2>2
  <2> QED
    BY <1>1, <2>1, <2>3, <2>4
<1>6. CASE MergeFails(p)
  <2>1. mem' = [mem EXCEPT ![p] = prune(mem[p])] /\ UNCHANGED <<disk, pending>>
    BY <1>6 DEF MergeFails
  <2>2. \A k \in Keys : disk[k] <= disk[k]
    BY <1>3
  <2>3. Merge(p) \/ Refresh(p) => \A k \in Keys : IsCurrent(k) => counted[k] <= mem'[p][k]
    <3>1. CASE Merge(p)
      BY <1>5, <3>1
    <3>2. CASE Refresh(p)
      <4>1. mem'[p] = prune(disk)
        BY <1>1, <3>2 DEF Refresh, Loaded
      <4> QED
        BY <1>2, <1>4, <4>1
    <3> QED
      BY <3>1, <3>2
  <2> QED
    BY <1>1, <1>2, <2>1, <2>2, <2>3
<1>7. CASE Refresh(p)
  <2>1. mem' = [mem EXCEPT ![p] = prune(disk)] /\ UNCHANGED <<disk, pending>>
    BY <1>7 DEF Refresh, Loaded
  <2>2. \A k \in Keys : disk[k] <= disk[k]
    BY <1>3
  <2> QED
    BY <1>1, <1>2, <1>4, <2>1, <2>2
<1> QED
  BY <1>5, <1>6, <1>7

\* bind_data_dir: nobody else is deciding when it touches the file.
LEMMA BindInv ==
  ASSUME IInv, NEW p \in Procs, Bind(p)
  PROVE  IInv'
<1>1. /\ ~bound[p] /\ step[p] = "idle" /\ bound' = [bound EXCEPT ![p] = TRUE]
      /\ UNCHANGED <<today, lock, step, tool, counted>>
  BY DEF Bind, callVars, histVars
<1>2. /\ disk' \in Counters /\ mem' \in [Procs -> Counters] /\ pending' \in [Procs -> BOOLEAN]
      /\ \A k \in Keys : IsCurrent(k) => disk[k] <= disk'[k]
      /\ \A q \in Procs \ {p} : mem'[q] = mem[q]
  <2>1. CASE UNCHANGED <<disk, mem, pending>>
    BY <2>1 DEF IInv, CountersOK, Counters
  <2>2. CASE (Merge(p) \/ MergeFails(p)) \/ Refresh(p)
    BY <2>2, CopyFacts
  <2> QED
    BY <2>1, <2>2 DEF Bind
<1>3. CountersOK'
  BY <1>1, <1>2 DEF IInv, CountersOK
<1>4. \A q \in Procs \ {p} : UNCHANGED <<bound[q], step[q], tool[q], mem[q]>>
  BY <1>1, <1>2 DEF IInv, CountersOK
<1>5. ~Deciding(p)' /\ \A q \in Procs \ {p} : Deciding(q) => lock' = q
  BY <1>1 DEF IInv, DecidesLocked, Deciding
<1> QED
  BY <1>1, <1>2, <1>3, <1>4, <1>5, ProcInv

\* check_and_count begins, with the lock and a fresh copy if the process is bound.
LEMMA BeginInv ==
  ASSUME IInv, NEW p \in Procs, NEW t \in Tools, BeginBound(p, t) \/ BeginUnbound(p, t)
  PROVE  IInv'
<1>1. step[p] = "idle" /\ UNCHANGED <<today, bound, counted>>
  BY DEF BeginBound, BeginUnbound, Begin, histVars
<1>2. CASE BeginBound(p, t)
  <2>1. bound[p] /\ lock = None /\ \A q \in Procs : ~Deciding(q)
    BY <1>2, NoneAssumption DEF BeginBound, LockFree, IInv, DecidesLocked
  <2>2. CASE (Merge(p) \/ Refresh(p)) /\ lock' = p /\ Enter(p, t)
    <3>1. /\ disk' \in Counters /\ mem' \in [Procs -> Counters]
          /\ pending' \in [Procs -> BOOLEAN]
          /\ \A k \in Keys : IsCurrent(k) => disk[k] <= disk'[k] /\ counted[k] <= mem'[p][k]
          /\ \A q \in Procs \ {p} : mem'[q] = mem[q]
      BY <2>2, CopyFacts
    <3>2. step' = [step EXCEPT ![p] = "caps"] /\ tool' = [tool EXCEPT ![p] = t]
      BY <2>2 DEF Enter
    <3>3. CountersOK'
      BY <1>1, <2>2, <3>1, <3>2 DEF IInv, CountersOK
    <3>4. /\ \A q \in Procs \ {p} : UNCHANGED <<bound[q], step[q], tool[q], mem[q]>>
          /\ step'[p] = "caps" /\ tool'[p] = t
      BY <1>1, <3>1, <3>2 DEF IInv, CountersOK
    <3> QED
      BY <1>1, <2>1, <2>2, <3>1, <3>3, <3>4, ProcInv
  <2>3. CASE MergeFails(p) /\ UNCHANGED <<lock, step, tool>>
    <3>1. /\ disk' \in Counters /\ mem' \in [Procs -> Counters]
          /\ pending' \in [Procs -> BOOLEAN]
          /\ \A k \in Keys : IsCurrent(k) => disk[k] <= disk'[k]
          /\ \A q \in Procs \ {p} : mem'[q] = mem[q]
      BY <2>3, CopyFacts
    <3>2. CountersOK'
      BY <1>1, <2>3, <3>1 DEF IInv, CountersOK
    <3>3. ~Deciding(p)'
      BY <1>1, <2>3 DEF Deciding
    <3> QED
      BY <1>1, <2>1, <2>3, <3>1, <3>2, <3>3, ProcInv
  <2> QED
    BY <1>2, <2>2, <2>3 DEF BeginBound
<1>3. CASE BeginUnbound(p, t)
  <2>1. /\ ~bound[p] /\ mem' = [mem EXCEPT ![p] = prune(mem[p])]
        /\ step' = [step EXCEPT ![p] = "caps"] /\ tool' = [tool EXCEPT ![p] = t]
        /\ UNCHANGED <<disk, lock, pending>>
    BY <1>3 DEF BeginUnbound, Enter
  <2>2. prune(mem[p]) \in Counters /\ \A k \in Keys : disk[k] <= disk[k]
    BY DEF IInv, CountersOK, Counters, prune
  <2>3. CountersOK'
    BY <1>1, <2>1, <2>2 DEF IInv, CountersOK
  <2>4. \A q \in Procs \ {p} : UNCHANGED <<bound[q], step[q], tool[q], mem[q]>>
    BY <1>1, <2>1 DEF IInv, CountersOK
  <2>5. ~Deciding(p)' /\ \A q \in Procs \ {p} : Deciding(q) => lock' = q
    BY <1>1, <2>1 DEF Deciding, IInv, DecidesLocked
  <2> QED
    BY <1>1, <2>1, <2>2, <2>3, <2>4, <2>5, ProcInv
<1> QED
  BY <1>2, <1>3

\* A call that ends, refused or not, gives only its own lock back.
LEMMA FinishFacts ==
  ASSUME IInv, NEW p \in Procs, NEW how, Finish(p, how)
  PROVE  /\ step' = [step EXCEPT ![p] = "idle"] /\ tool' = [tool EXCEPT ![p] = None]
         /\ step' \in [Procs -> {"idle", "caps", "count"}]
         /\ tool' \in [Procs -> Tools \cup {None}] /\ lock' \in Procs \cup {None}
         /\ step'[p] = "idle" /\ \A q \in Procs \ {p} : UNCHANGED <<step[q], tool[q]>>
         /\ \A q \in Procs \ {p} : Deciding(q) => lock' = q
<1>1. /\ step' = [step EXCEPT ![p] = "idle"] /\ tool' = [tool EXCEPT ![p] = None]
      /\ lock' = IF lock = p THEN None ELSE lock
  BY DEF Finish
<1> QED
  BY <1>1 DEF IInv, CountersOK, DecidesLocked

\* A call that finds room in every cap of a copy that has everything has room.
LEMMA CheckCapsInv ==
  ASSUME IInv, NEW p \in Procs, CheckCaps(p)
  PROVE  IInv'
<1>1. step[p] = "caps" /\ UNCHANGED <<today, disk, bound, mem, pending, counted>>
  BY DEF CheckCaps, fileVars, histVars
<1>2. \A k \in Keys : disk[k] <= disk'[k]
  BY <1>1 DEF IInv, CountersOK, Counters
<1>3. CASE Finish(p, "limit")
  <2>1. CountersOK'
    BY <1>1, <1>3, FinishFacts DEF IInv, CountersOK
  <2>2. ~Deciding(p)'
    BY <1>3, FinishFacts DEF Deciding
  <2>3. \A q \in Procs \ {p} : UNCHANGED <<bound[q], step[q], tool[q], mem[q]>>
    BY <1>1, <1>3, FinishFacts
  <2>4. \A q \in Procs \ {p} : Deciding(q) => lock' = q
    BY <1>3, FinishFacts
  <2> QED
    BY <1>1, <1>2, <2>1, <2>2, <2>3, <2>4, ProcInv
<1>4. CASE /\ \A c \in Applicable(tool[p]) : ~AtCap(p, c)
           /\ step' = [step EXCEPT ![p] = "count"] /\ UNCHANGED <<tool, last, lock>>
  <2>1. CountersOK'
    BY <1>1, <1>4 DEF IInv, CountersOK
  <2>2. \A q \in Procs \ {p} : UNCHANGED <<bound[q], step[q], tool[q], mem[q]>>
    BY <1>1, <1>4 DEF IInv, CountersOK
  <2>3. \A q \in Procs \ {p} : Deciding(q) => lock' = q
    BY <1>4 DEF IInv, DecidesLocked
  <2>4. Deciding(p)' => Deciding(p)
    BY <1>1 DEF Deciding
  <2>5. Deciding(p)' => lock' = p /\ tool'[p] \in Tools
    BY <1>4, <2>4 DEF IInv, DecidesLocked
  <2>6. Deciding(p)' => \A k \in Keys : IsCurrent(k) => counted[k] <= mem'[p][k]
    BY <1>1, <2>4 DEF IInv, FileHasAll
  <2>7. ASSUME Deciding(p)', NEW c \in Applicable(tool'[p])
        PROVE  counted[counter_key(c)] < c.max
    <3>1. c \in Caps /\ c \in Applicable(tool[p]) /\ today \in Days
      BY <1>4, <2>7 DEF Applicable, IInv, CountersOK
    <3>2. counter_key(c) \in Keys /\ IsCurrent(counter_key(c)) /\ c.max \in Nat
      BY <3>1, CounterKeyFacts
    <3>3. counted[counter_key(c)] <= mem[p][counter_key(c)]
      BY <1>1, <2>6, <2>7, <3>2
    <3>4. ~(mem[p][counter_key(c)] >= c.max)
      BY <1>4, <3>1 DEF AtCap
    <3>5. counted[counter_key(c)] \in Nat /\ mem[p][counter_key(c)] \in Nat
      BY <3>2 DEF IInv, CountersOK, Counters
    <3> QED
      BY <3>2, <3>3, <3>4, <3>5
  <2> QED
    BY <1>1, <1>2, <2>1, <2>2, <2>3, <2>5, <2>6, <2>7, ProcInv
<1> QED
  BY <1>3, <1>4 DEF CheckCaps

\* The call is counted: every key it counts under had room in every cap on it.
LEMMA CountBoundInv ==
  ASSUME IInv, NEW p \in Procs, CountBound(p)
  PROVE  IInv'
<1>1. /\ step[p] = "count" /\ bound[p] /\ UNCHANGED <<today, bound, pending>>
      /\ mem' = [mem EXCEPT ![p] = Bump(mem[p], tool[p])]
  BY DEF CountBound
<1>2. Deciding(p) /\ lock = p /\ tool[p] \in Tools /\ \A q \in Procs \ {p} : ~Deciding(q)
  BY <1>1 DEF Deciding, IInv, DecidesLocked
<1>3. today \in Days /\ mem[p] \in Counters /\ disk \in Counters /\ counted \in Counters
      /\ mem \in [Procs -> Counters]
  BY DEF IInv, CountersOK
<1>4. /\ Bump(mem[p], tool[p]) \in Counters
      /\ \A k \in Keys : Bump(mem[p], tool[p])[k]
                         = IF k \in Keyed(tool[p]) THEN mem[p][k] + 1 ELSE mem[p][k]
  BY <1>3, BumpFacts
<1>5. mem' \in [Procs -> Counters] /\ mem'[p] = Bump(mem[p], tool[p])
      /\ \A q \in Procs \ {p} : mem'[q] = mem[q]
  BY <1>1, <1>3, <1>4
<1>6. CASE Finish(p, "error") /\ UNCHANGED <<disk, counted>>
  <2>1. CountersOK'
    BY <1>1, <1>5, <1>6, FinishFacts DEF IInv, CountersOK
  <2>2. ~Deciding(p)'
    BY <1>6, FinishFacts DEF Deciding
  <2>3. \A q \in Procs \ {p} : UNCHANGED <<bound[q], step[q], tool[q], mem[q]>>
    BY <1>1, <1>5, <1>6, FinishFacts
  <2>4. \A k \in Keys : disk[k] <= disk'[k]
    BY <1>3, <1>6 DEF Counters
  <2> QED
    BY <1>1, <1>2, <1>6, <2>1, <2>2, <2>3, <2>4, ProcInv
<1>7. CASE /\ disk' = mem'[p] /\ Finish(p, "ok")
           /\ counted' = Charge(counted, tool[p])
  <2>1. /\ counted' \in Counters
        /\ \A k \in Keys : counted'[k] = IF k \in Keyed(tool[p]) THEN counted[k] + 1 ELSE counted[k]
    BY <1>3, <1>7, ChargeFacts
  <2>2. CountersOK'
    BY <1>1, <1>4, <1>5, <1>7, <2>1, FinishFacts DEF IInv, CountersOK
  <2>3. \A q \in Procs : ~Deciding(q)'
    <3>1. ~Deciding(p)'
      BY <1>7, FinishFacts DEF Deciding
    <3>2. \A q \in Procs \ {p} : Deciding(q)' = Deciding(q)
      BY <1>1, <1>7, FinishFacts DEF Deciding
    <3> QED
      BY <1>2, <3>1, <3>2
  <2>4. DecidesLocked' /\ RoomLeft'
    BY <2>3 DEF DecidesLocked, RoomLeft
  <2>5. \A k \in Keyed(tool[p]) : \E c \in Applicable(tool[p]) : k = counter_key(c)
    BY DEF Keyed
  <2>6. \A k \in Keyed(tool[p]) : k \in Keys /\ IsCurrent(k)
    BY <1>3, <2>5, CounterKeyFacts DEF Applicable
  <2>7. FutureIsEmpty'
    <3> SUFFICES ASSUME NEW k \in Keys, k[2] > window_key(k[1]) PROVE counted'[k] = 0
      BY <1>1 DEF FutureIsEmpty, window_key
    <3>1. counted[k] = 0
      BY DEF IInv, FutureIsEmpty
    <3>2. window_key(k[1]) \in Nat
      BY <1>3, WindowKeyFacts DEF Days
    <3>3. k \notin Keyed(tool[p])
      BY <2>6, <3>2 DEF IsCurrent
    <3> QED
      BY <2>1, <3>1, <3>3
  <2>8. FileHasAll'
    <3> SUFFICES ASSUME NEW k \in Keys, IsCurrent(k) PROVE counted'[k] <= disk'[k]
      BY <1>1, <2>3 DEF FileHasAll, IsCurrent, window_key
    <3>1. counted[k] <= mem[p][k] /\ counted[k] \in Nat /\ mem[p][k] \in Nat
      BY <1>2, <1>3 DEF IInv, FileHasAll, Counters
    <3> QED
      BY <1>4, <1>5, <1>7, <2>1, <3>1
  <2>9. CapHolds'
    <3> SUFFICES ASSUME NEW c \in Caps, NEW d \in Days
                 PROVE  counted'[<<c.window, d, c.scope>>] <= c.max
      BY DEF CapHolds
    <3>1. PICK k \in Keys : k = <<c.window, d, c.scope>>
      BY CapsAssumption DEF ParsedCaps, Keys
    <3>2. c.max \in Nat /\ counted[k] \in Nat /\ counted[k] <= c.max
      BY <1>3, <3>1, CapsAssumption DEF ParsedCaps, Counters, IInv, CapHolds
    <3>3. CASE k \in Keyed(tool[p])
      <4>1. PICK b \in Applicable(tool[p]) : k = counter_key(b)
        BY <2>5, <3>3
      <4>2. b.scope = c.scope /\ b.window = c.window /\ tool_matches(b.scope, tool[p])
        BY <3>1, <4>1 DEF counter_key, Applicable
      <4>3. c \in Applicable(tool[p]) /\ counter_key(c) = k
        BY <4>1, <4>2 DEF Applicable, counter_key
      <4>4. counted[k] < c.max
        BY <1>1, <1>2, <4>3 DEF IInv, RoomLeft
      <4> QED
        BY <2>1, <3>1, <3>2, <3>3, <4>4
    <3>4. CASE k \notin Keyed(tool[p])
      BY <2>1, <3>1, <3>2, <3>4
    <3> QED
      BY <3>3, <3>4
  <2> QED
    BY <2>2, <2>4, <2>7, <2>8, <2>9 DEF IInv
<1> QED
  BY <1>6, <1>7 DEF CountBound

\* A process that is not bound counts in its own memory.
LEMMA CountUnboundInv ==
  ASSUME IInv, NEW p \in Procs, CountUnbound(p)
  PROVE  IInv'
<1>1. /\ step[p] = "count" /\ ~bound[p] /\ UNCHANGED <<today, disk, bound, counted>>
      /\ mem' = [mem EXCEPT ![p] = Bump(mem[p], tool[p])]
      /\ pending' = [pending EXCEPT ![p] = TRUE] /\ Finish(p, "ok")
  BY DEF CountUnbound, fileVars
<1>2. Bump(mem[p], tool[p]) \in Counters /\ \A k \in Keys : disk[k] <= disk'[k]
  BY <1>1, BumpFacts DEF IInv, CountersOK, Counters
<1>3. mem' \in [Procs -> Counters] /\ \A q \in Procs \ {p} : mem'[q] = mem[q]
  BY <1>1, <1>2 DEF IInv, CountersOK
<1>4. CountersOK'
  BY <1>1, <1>3, FinishFacts DEF IInv, CountersOK
<1>5. ~Deciding(p)' /\ \A q \in Procs \ {p} : UNCHANGED <<bound[q], step[q], tool[q], mem[q]>>
  BY <1>1, <1>3, FinishFacts DEF Deciding
<1>6. \A q \in Procs \ {p} : Deciding(q) => lock' = q
  BY <1>1, FinishFacts
<1> QED
  BY <1>1, <1>2, <1>4, <1>5, <1>6, ProcInv

\* A process that ends while it decides gives its lock back and counts nothing.
LEMMA RestartInv ==
  ASSUME IInv, NEW p \in Procs, Restart(p)
  PROVE  IInv'
<1>1. /\ bound' = [bound EXCEPT ![p] = FALSE] /\ mem' = [mem EXCEPT ![p] = Zero]
      /\ pending' = [pending EXCEPT ![p] = FALSE] /\ step' = [step EXCEPT ![p] = "idle"]
      /\ tool' = [tool EXCEPT ![p] = None] /\ lock' = IF lock = p THEN None ELSE lock
      /\ UNCHANGED <<today, disk, counted>>
  BY DEF Restart, fileVars
<1>2. CountersOK'
  BY <1>1, ZeroFacts DEF IInv, CountersOK
<1>3. ~Deciding(p)' /\ \A q \in Procs \ {p} : UNCHANGED <<bound[q], step[q], tool[q], mem[q]>>
  BY <1>1 DEF Deciding, IInv, CountersOK
<1>4. \A q \in Procs \ {p} : Deciding(q) => lock' = q
  BY <1>1 DEF IInv, DecidesLocked
<1>5. \A k \in Keys : disk[k] <= disk'[k]
  BY <1>1 DEF IInv, CountersOK, Counters
<1> QED
  BY <1>1, <1>2, <1>3, <1>4, <1>5, ProcInv

\* A window that turns is one nothing has been counted in yet: the caps have room.
LEMMA TickInv ==
  ASSUME IInv, Tick
  PROVE  IInv'
<1>1. /\ today < MaxDay /\ today' = today + 1
      /\ UNCHANGED <<disk, lock, bound, mem, pending, step, tool, counted>>
  BY DEF Tick, fileVars, callVars, histVars
<1>2. today \in Days /\ today' \in Days
  BY <1>1, BoundAssumption DEF IInv, CountersOK, Days
<1>3. \A w : window_key(w) \in Nat /\ window_key(w)' \in Nat /\ window_key(w) <= window_key(w)'
  <2>1. today \div DaysPerMonth \in Nat /\ today' \div DaysPerMonth \in Nat
        /\ today \div DaysPerMonth <= today' \div DaysPerMonth
    BY <1>1, <1>2, WindowsAdvance DEF Days
  <2> QED
    BY <1>1, <1>2, <2>1 DEF window_key, Days
<1>4. CountersOK'
  BY <1>1, <1>2 DEF IInv, CountersOK
<1>5. DecidesLocked' /\ CapHolds' /\ \A p \in Procs : Deciding(p)' = Deciding(p)
  BY <1>1 DEF IInv, DecidesLocked, Deciding, CapHolds
<1>6. \A k \in Keys : k[1] \in {"day", "month"} /\ k[2] \in Nat /\ counted[k] \in Nat
  BY DEF Keys, Days, IInv, CountersOK, Counters
<1>7. FutureIsEmpty'
  BY <1>1, <1>3, <1>6 DEF IInv, FutureIsEmpty
<1>8. \A k \in Keys : IsCurrent(k)' => IsCurrent(k) \/ counted[k] = 0
  BY <1>3, <1>6 DEF IInv, FutureIsEmpty, IsCurrent
<1>9. FileHasAll'
  <2> SUFFICES ASSUME NEW k \in Keys, IsCurrent(k)'
               PROVE  /\ counted[k] <= disk[k]
                      /\ \A p \in Procs : Deciding(p) => counted[k] <= mem[p][k]
    BY <1>1, <1>5 DEF FileHasAll
  <2>1. disk[k] \in Nat /\ \A p \in Procs : mem[p][k] \in Nat
    BY DEF IInv, CountersOK, Counters
  <2>2. CASE counted[k] = 0
    BY <2>1, <2>2
  <2>3. CASE IsCurrent(k)
    BY <2>3 DEF IInv, FileHasAll
  <2> QED
    BY <1>8, <2>2, <2>3
<1>10. RoomLeft'
  <2> SUFFICES ASSUME NEW p \in Procs, Deciding(p), step[p] = "count",
                      NEW c \in Applicable(tool[p])
               PROVE  counted[counter_key(c)'] < c.max
    BY <1>1, <1>5 DEF RoomLeft
  <2>1. c \in Caps /\ counted[counter_key(c)] < c.max
    BY DEF IInv, RoomLeft, Applicable
  <2>2. c.max \in Nat \ {0} /\ c.window \in {"day", "month"} /\ c.scope \in Scopes
    BY <1>2, <2>1, CounterKeyFacts
  <2>3. window_key(c.window)' \in Days
    BY <1>2, WindowsAdvance DEF window_key
  <2>4. PICK k \in Keys : k = counter_key(c)'
    BY <2>2, <2>3 DEF counter_key, Keys
  <2>5. k[1] = c.window /\ k[3] = c.scope /\ k[2] = window_key(c.window)' /\ k = <<k[1], k[2], k[3]>>
    BY <2>4 DEF counter_key
  <2>6. CASE k[2] = window_key(c.window)
    <3>1. k = counter_key(c)
      BY <2>5, <2>6 DEF counter_key
    <3> QED
      BY <2>1, <2>4, <3>1
  <2>7. CASE k[2] # window_key(c.window)
    <3>1. k[2] > window_key(k[1])
      BY <1>3, <2>5, <2>7
    <3>2. counted[k] = 0
      BY <3>1 DEF IInv, FutureIsEmpty
    <3> QED
      BY <2>2, <2>4, <3>2
  <2> QED
    BY <2>6, <2>7
<1> QED
  BY <1>4, <1>5, <1>7, <1>9, <1>10 DEF IInv

-----------------------------------------------------------------------------
(* The theorem.                                                            *)

\* A step that leaves everything the invariant speaks of as it is.
LEMMA SameInv ==
  ASSUME IInv, UNCHANGED <<today, disk, lock, bound, mem, pending, step, tool, counted>>
  PROVE  IInv'
<1>1. CountersOK' /\ CapHolds' /\ FutureIsEmpty'
  BY DEF IInv, CountersOK, CapHolds, FutureIsEmpty, window_key
<1>2. DecidesLocked' /\ FileHasAll'
  BY DEF IInv, DecidesLocked, FileHasAll, Deciding, IsCurrent, window_key
<1>3. RoomLeft'
  BY DEF IInv, RoomLeft, Deciding, counter_key, window_key
<1> QED
  BY <1>1, <1>2, <1>3 DEF IInv

\* Every step keeps the invariant.
LEMMA NextInv == IInv /\ [Next]_vars => IInv'
<1> SUFFICES ASSUME IInv, [Next]_vars PROVE IInv'
  OBVIOUS
<1>1. CASE UNCHANGED vars
  BY <1>1, SameInv DEF vars, fileVars, callVars, histVars
<1>2. CASE FileTrouble
  BY <1>2, SameInv DEF FileTrouble, callVars, histVars
<1>3. ASSUME NEW p \in Procs, ProcStep(p) PROVE IInv'
  BY <1>3, BindInv, BeginInv, CheckCapsInv, CountBoundInv, CountUnboundInv, RestartInv
     DEF ProcStep
<1> QED
  BY <1>1, <1>2, <1>3, TickInv DEF Next

\* However many processes share the counter file, whenever the day or the month
\* turns, and whichever of them end or fail to save on the way, the calls bound
\* processes accept stay within every cap of the policy (check_and_count).
THEOREM CapsHold == Spec => []CapHolds
<1>1. Spec => []IInv
  BY InitInv, NextInv, PTL DEF Spec
<1>2. IInv => CapHolds
  BY DEF IInv
<1> QED
  BY <1>1, <1>2, PTL

-----------------------------------------------------------------------------
(* The accounts.  What the inductive invariant above needs besides.        *)

HistoryOK ==
  /\ readable \in BOOLEAN /\ last \in [Procs -> {"none", "ok", "limit", "error"}]
  /\ calls \in 0..MaxCalls /\ early \in [Procs -> Counters] /\ merged \in Counters

\* The file is the sum of what it is charged with.
FileAdds == \A k \in Keys : IsCurrent(k) => disk[k] = counted[k] + merged[k]

\* What a process has in memory is what it has to merge, or nothing while it is
\* not bound; a call of a bound process is decided on the file as it is.
OwnAdds(p, k) ==
  /\ IF pending[p] THEN mem[p][k] = early[p][k] ELSE early[p][k] = 0
  /\ ~pending[p] /\ ~bound[p] => mem[p][k] = 0
  /\ Deciding(p) => mem[p][k] = disk[k]
MemoryAdds == \A p \in Procs, k \in Keys : IsCurrent(k) => OwnAdds(p, k)

\* A bound process merges before it decides.
DecidesMerged == \A p \in Procs : Deciding(p) => ~pending[p]

\* Nobody has charged a window that has yet to begin.
Unused(k) == disk[k] = 0 /\ merged[k] = 0 /\ \A p \in Procs : mem[p][k] = 0 /\ early[p][k] = 0
FutureUnused == \A k \in Keys : k[2] > window_key(k[1]) => Unused(k)

Accounts == HistoryOK /\ FileAdds /\ MemoryAdds /\ DecidesMerged /\ FutureUnused

\* What the accounts are for.
LEMMA AccountsAreOK == IInv /\ Accounts => AccountsOK
<1> SUFFICES ASSUME IInv, Accounts PROVE TypeOK /\ CountedOnce
  BY DEF AccountsOK
<1>1. TypeOK
  BY DEF IInv, CountersOK, Accounts, HistoryOK, TypeOK
<1>2. CountedOnce
  BY DEF CountedOnce, Accounts, FileAdds, MemoryAdds, OwnAdds
<1> QED
  BY <1>1, <1>2

\* At the start every counter is at zero.
LEMMA InitAccounts == Init => Accounts
<1> SUFFICES ASSUME Init PROVE Accounts
  OBVIOUS
<1>1. HistoryOK
  BY ZeroFacts, BoundAssumption DEF Init, HistoryOK
<1>2. \A k \in Keys : Unused(k) /\ counted[k] = 0
  BY ZeroFacts DEF Init, Unused
<1>3. FileAdds /\ FutureUnused
  BY <1>2 DEF FileAdds, FutureUnused, Unused
<1>4. \A p \in Procs : ~Deciding(p) /\ ~pending[p]
  BY DEF Init, Deciding
<1>5. MemoryAdds /\ DecidesMerged
  BY <1>2, <1>4 DEF MemoryAdds, OwnAdds, DecidesMerged, Unused
<1> QED
  BY <1>1, <1>3, <1>5 DEF Accounts

\* A step of p keeps the accounts if the file still adds up, p's own account
\* does, no future window is charged, and nobody else is deciding when the file
\* changes.
LEMMA ProcAccounts ==
  ASSUME IInv, Accounts, NEW p \in Procs, HistoryOK', UNCHANGED today,
         \A q \in Procs \ {p} : UNCHANGED <<bound[q], step[q], mem[q], pending[q], early[q]>>,
         (\A q \in Procs \ {p} : ~Deciding(q)) \/ UNCHANGED disk,
         \A k \in Keys : IsCurrent(k) => disk'[k] = counted'[k] + merged'[k],
         \A k \in Keys : IsCurrent(k) => OwnAdds(p, k)',
         Deciding(p)' => ~pending'[p],
         \A k \in Keys : k[2] > window_key(k[1]) =>
           disk'[k] = 0 /\ merged'[k] = 0 /\ mem'[p][k] = 0 /\ early'[p][k] = 0
  PROVE  Accounts'
<1>1. \A k \in Keys : /\ IsCurrent(k)' = IsCurrent(k)
                      /\ (k[2] > window_key(k[1]))' = (k[2] > window_key(k[1]))
  BY DEF IsCurrent, window_key
<1>2. \A q \in Procs \ {p} : Deciding(q)' = Deciding(q)
  BY DEF Deciding
<1>3. FileAdds'
  BY <1>1 DEF FileAdds
<1>4. DecidesMerged'
  BY <1>2 DEF DecidesMerged, Accounts
<1>5. MemoryAdds'
  <2> SUFFICES ASSUME NEW q \in Procs, NEW k \in Keys, IsCurrent(k) PROVE OwnAdds(q, k)'
    BY <1>1 DEF MemoryAdds
  <2>1. CASE q = p
    BY <2>1
  <2>2. CASE q # p
    <3>1. OwnAdds(q, k)
      BY DEF Accounts, MemoryAdds
    <3>2. Deciding(q)' => Deciding(q) /\ UNCHANGED disk
      BY <1>2, <2>2
    <3>3. UNCHANGED <<bound[q], mem[q], pending[q], early[q]>>
      BY <2>2
    <3> QED
      BY <3>1, <3>2, <3>3 DEF OwnAdds
  <2> QED
    BY <2>1, <2>2
<1>6. FutureUnused'
  <2> SUFFICES ASSUME NEW k \in Keys, k[2] > window_key(k[1]) PROVE Unused(k)'
    BY <1>1 DEF FutureUnused
  <2>1. \A q \in Procs \ {p} : mem'[q][k] = 0 /\ early'[q][k] = 0
    BY DEF Accounts, FutureUnused, Unused
  <2> QED
    BY <2>1 DEF Unused
<1> QED
  BY <1>3, <1>4, <1>5, <1>6 DEF Accounts

\* The counters are functions to the naturals, and a call's keys are current ones.
LEMMA Values ==
  ASSUME IInv, Accounts, NEW p \in Procs
  PROVE  /\ \A k \in Keys : /\ disk[k] \in Nat /\ counted[k] \in Nat /\ merged[k] \in Nat
                            /\ mem[p][k] \in Nat /\ early[p][k] \in Nat
         /\ disk \in Counters /\ counted \in Counters /\ merged \in Counters
         /\ mem[p] \in Counters /\ early[p] \in Counters
         /\ \A k \in Keyed(tool[p]) : k \in Keys /\ IsCurrent(k)
         /\ \A k \in Keys : k[2] > window_key(k[1]) => ~IsCurrent(k)
<1>1. /\ disk \in Counters /\ counted \in Counters /\ merged \in Counters
      /\ mem[p] \in Counters /\ early[p] \in Counters /\ today \in Days
  BY DEF IInv, CountersOK, Accounts, HistoryOK
<1>2. \A k \in Keyed(tool[p]) : k \in Keys /\ IsCurrent(k)
  BY <1>1, CounterKeyFacts DEF Keyed, Applicable
<1>3. \A k \in Keys : window_key(k[1]) \in Nat /\ k[2] \in Nat
  BY <1>1, WindowKeyFacts DEF Days, Keys
<1>4. \A k \in Keys : k[2] > window_key(k[1]) => ~IsCurrent(k)
  BY <1>3 DEF IsCurrent
<1> QED
  BY <1>1, <1>2, <1>4 DEF Counters

\* What pruning keeps, at one counter.
LEMMA PruneFacts ==
  ASSUME NEW f \in Counters
  PROVE  /\ prune(f) \in Counters
         /\ \A k \in Keys : prune(f)[k] = IF IsCurrent(k) THEN f[k] ELSE 0
BY DEF prune, Counters

\* The copy a process takes, the failed merge included: the file adds up after it,
\* and so does the memory of the process.
LEMMA CopyAccounts ==
  ASSUME IInv, Accounts, NEW p \in Procs, ~Deciding(p), UNCHANGED <<today, counted>>,
         IF pending[p] THEN Merge(p) \/ MergeFails(p) ELSE Refresh(p)
  PROVE  /\ early' \in [Procs -> Counters] /\ merged' \in Counters
         /\ \A q \in Procs \ {p} : UNCHANGED <<mem[q], pending[q], early[q]>>
         /\ \A k \in Keys : IsCurrent(k) =>
              /\ disk'[k] = counted'[k] + merged'[k]
              /\ IF pending'[p] THEN mem'[p][k] = early'[p][k] ELSE early'[p][k] = 0
              /\ ~pending'[p] => mem'[p][k] = disk'[k]
         /\ \A k \in Keys : k[2] > window_key(k[1]) =>
              disk'[k] = 0 /\ merged'[k] = 0 /\ mem'[p][k] = 0 /\ early'[p][k] = 0
         /\ (IF pending[p] THEN Merge(p) ELSE Refresh(p)) => ~pending'[p]
<1>1. /\ mem \in [Procs -> Counters] /\ pending \in [Procs -> BOOLEAN]
      /\ early \in [Procs -> Counters] /\ merged \in Counters /\ disk \in Counters
  BY DEF IInv, CountersOK, Accounts, HistoryOK
<1>2. /\ \A k \in Keys : IsCurrent(k) => disk[k] = counted[k] + merged[k] /\ OwnAdds(p, k)
      /\ \A k \in Keys : k[2] > window_key(k[1]) => Unused(k)
  BY DEF Accounts, FileAdds, MemoryAdds, FutureUnused
<1>3. /\ \A k \in Keys : prune(disk)[k] = IF IsCurrent(k) THEN disk[k] ELSE 0
      /\ \A k \in Keys : prune(mem[p])[k] = IF IsCurrent(k) THEN mem[p][k] ELSE 0
      /\ prune(disk) \in Counters /\ prune(mem[p]) \in Counters
  BY <1>1, PruneFacts
<1>4. (IF pending[p] THEN Merge(p) ELSE Refresh(p)) => ~pending'[p]
  BY <1>1 DEF Merge, Refresh
<1>5. CASE pending[p] /\ Merge(p)
  <2>1. /\ disk' = Plus(prune(disk), prune(mem[p])) /\ mem' = [mem EXCEPT ![p] = disk']
        /\ pending' = [pending EXCEPT ![p] = FALSE]
        /\ merged' = Plus(merged, early[p]) /\ early' = [early EXCEPT ![p] = Zero]
    BY <1>5 DEF Merge, Settle, Loaded
  <2>2. \A k \in Keys : disk'[k] = prune(disk)[k] + prune(mem[p])[k]
                        /\ merged'[k] = merged[k] + early[p][k]
    BY <2>1 DEF Plus
  <2>3. mem'[p] = disk' /\ ~pending'[p] /\ early'[p] = Zero
        /\ \A q \in Procs \ {p} : UNCHANGED <<mem[q], pending[q], early[q]>>
    BY <1>1, <2>1
  <2>4. early' \in [Procs -> Counters] /\ merged' \in Counters
    <3>1. merged' \in Counters
      BY <1>1, <2>1 DEF Plus, Counters
    <3> QED
      BY <1>1, <2>1, <3>1, ZeroFacts
  <2>5. ASSUME NEW k \in Keys, IsCurrent(k) PROVE disk'[k] = counted[k] + merged'[k]
    <3>1. mem[p][k] = early[p][k] /\ disk[k] = counted[k] + merged[k]
      BY <1>2, <1>5, <2>5 DEF OwnAdds
    <3>2. disk'[k] = disk[k] + mem[p][k] /\ merged'[k] = merged[k] + early[p][k]
      BY <1>3, <2>2, <2>5
    <3>3. counted[k] \in Nat /\ merged[k] \in Nat /\ early[p][k] \in Nat
      BY Values
    <3> QED
      BY <3>1, <3>2, <3>3
  <2>6. ASSUME NEW k \in Keys, k[2] > window_key(k[1]) PROVE disk'[k] = 0 /\ merged'[k] = 0
    <3>1. ~IsCurrent(k) /\ merged[k] = 0 /\ early[p][k] = 0
      BY <1>2, <2>6, Values DEF Unused
    <3> QED
      BY <1>3, <2>2, <3>1
  <2> QED
    BY <2>3, <2>4, <2>5, <2>6, ZeroFacts
<1>6. CASE pending[p] /\ MergeFails(p)
  <2>1. mem' = [mem EXCEPT ![p] = prune(mem[p])] /\ UNCHANGED <<disk, pending, early, merged>>
    BY <1>6 DEF MergeFails
  <2>2. mem'[p] = prune(mem[p]) /\ \A q \in Procs \ {p} : UNCHANGED <<mem[q], pending[q], early[q]>>
    BY <1>1, <2>1
  <2>3. \A k \in Keys : IsCurrent(k) => mem'[p][k] = early[p][k]
    BY <1>2, <1>3, <1>6, <2>2 DEF OwnAdds
  <2>4. \A k \in Keys : k[2] > window_key(k[1]) =>
          disk[k] = 0 /\ merged[k] = 0 /\ mem'[p][k] = 0 /\ early[p][k] = 0
    BY <1>2, <1>3, <2>2 DEF Unused
  <2> QED
    BY <1>1, <1>2, <1>6, <1>4, <2>1, <2>2, <2>3, <2>4
<1>7. CASE ~pending[p] /\ Refresh(p)
  <2>1. mem' = [mem EXCEPT ![p] = prune(disk)] /\ UNCHANGED <<disk, pending, early, merged>>
    BY <1>7 DEF Refresh, Loaded
  <2>2. mem'[p] = prune(disk) /\ \A q \in Procs \ {p} : UNCHANGED <<mem[q], pending[q], early[q]>>
    BY <1>1, <2>1
  <2>3. \A k \in Keys : IsCurrent(k) => mem'[p][k] = disk[k] /\ early[p][k] = 0
    BY <1>2, <1>3, <1>7, <2>2 DEF OwnAdds
  <2>4. \A k \in Keys : k[2] > window_key(k[1]) =>
          disk[k] = 0 /\ merged[k] = 0 /\ mem'[p][k] = 0 /\ early[p][k] = 0
    BY <1>2, <1>3, <2>2 DEF Unused
  <2> QED
    BY <1>1, <1>2, <1>7, <1>4, <2>1, <2>2, <2>3, <2>4
<1> QED
  BY <1>5, <1>6, <1>7

\* The accounts of the processes a step of p does not touch, and the typing, ready
\* for ProcAccounts.
LEMMA OthersKeep ==
  ASSUME IInv, Accounts, NEW p \in Procs, NEW q \in Procs \ {p},
         NEW b, NEW s, bound' = [bound EXCEPT ![p] = b] \/ UNCHANGED bound,
         step' = [step EXCEPT ![p] = s] \/ UNCHANGED step
  PROVE  UNCHANGED <<bound[q], step[q]>>
BY DEF IInv, CountersOK

\* bind_data_dir merges at once, or leaves the merge to the next call.
LEMMA BindAccounts ==
  ASSUME IInv, Accounts, NEW p \in Procs, Bind(p)
  PROVE  Accounts'
<1>1. /\ ~bound[p] /\ step[p] = "idle" /\ bound' = [bound EXCEPT ![p] = TRUE] /\ ~Deciding(p)
      /\ UNCHANGED <<today, readable, lock, step, tool, last, calls, counted>>
  BY DEF Bind, callVars, Deciding
<1>2. ~Deciding(p)' /\ bound'[p]
  BY <1>1 DEF Deciding, IInv, CountersOK
<1>3. \A q \in Procs \ {p} : UNCHANGED <<bound[q], step[q]>>
  BY <1>1, OthersKeep
<1>4. CASE /\ LockFree /\ CanLoad
           /\ IF pending[p] THEN Merge(p) \/ MergeFails(p) ELSE Refresh(p)
  <2>1. \A q \in Procs : ~Deciding(q)
    BY <1>4, NoneAssumption DEF LockFree, IInv, DecidesLocked
  <2>2. /\ early' \in [Procs -> Counters] /\ merged' \in Counters
        /\ \A q \in Procs \ {p} : UNCHANGED <<mem[q], pending[q], early[q]>>
        /\ \A k \in Keys : IsCurrent(k) =>
             /\ disk'[k] = counted'[k] + merged'[k]
             /\ IF pending'[p] THEN mem'[p][k] = early'[p][k] ELSE early'[p][k] = 0
        /\ \A k \in Keys : k[2] > window_key(k[1]) =>
             disk'[k] = 0 /\ merged'[k] = 0 /\ mem'[p][k] = 0 /\ early'[p][k] = 0
    BY <1>1, <1>4, CopyAccounts
  <2>3. HistoryOK'
    BY <1>1, <2>2 DEF Accounts, HistoryOK
  <2>4. \A k \in Keys : IsCurrent(k) => OwnAdds(p, k)'
    BY <1>2, <2>2 DEF OwnAdds
  <2> QED
    BY <1>1, <1>2, <1>3, <2>1, <2>2, <2>3, <2>4, ProcAccounts
<1>5. CASE UNCHANGED <<disk, mem, pending, early, merged>>
  <2>1. HistoryOK'
    BY <1>1, <1>5 DEF Accounts, HistoryOK
  <2>2. \A k \in Keys : IsCurrent(k) => OwnAdds(p, k)'
    BY <1>2, <1>5 DEF OwnAdds, Accounts, MemoryAdds
  <2>3. \A k \in Keys : k[2] > window_key(k[1]) =>
          disk'[k] = 0 /\ merged'[k] = 0 /\ mem'[p][k] = 0 /\ early'[p][k] = 0
    BY <1>5 DEF Accounts, FutureUnused, Unused
  <2>4. \A k \in Keys : IsCurrent(k) => disk'[k] = counted'[k] + merged'[k]
    BY <1>1, <1>5 DEF Accounts, FileAdds
  <2> QED
    BY <1>1, <1>2, <1>3, <1>5, <2>1, <2>2, <2>3, <2>4, ProcAccounts
<1> QED
  BY <1>4, <1>5 DEF Bind

\* A call begins: a bound process merges and copies the file under its lock.
LEMMA BeginBoundAccounts ==
  ASSUME IInv, Accounts, NEW p \in Procs, NEW t \in Tools, BeginBound(p, t)
  PROVE  Accounts'
<1>1. /\ bound[p] /\ step[p] = "idle" /\ calls < MaxCalls /\ calls' = calls + 1
      /\ UNCHANGED <<today, readable, bound, counted>> /\ ~Deciding(p) /\ lock = None
  BY DEF BeginBound, Begin, Deciding, LockFree
<1>2. \A q \in Procs : ~Deciding(q)
  BY <1>1, NoneAssumption DEF IInv, DecidesLocked
<1>3. /\ IF pending[p] THEN Merge(p) \/ MergeFails(p) ELSE Refresh(p)
      /\ \/ /\ IF pending[p] THEN Merge(p) ELSE Refresh(p)
            /\ Enter(p, t)
         \/ last' = [last EXCEPT ![p] = "error"] /\ UNCHANGED step
  BY DEF BeginBound
<1>4. /\ early' \in [Procs -> Counters] /\ merged' \in Counters
      /\ \A q \in Procs \ {p} : UNCHANGED <<mem[q], pending[q], early[q]>>
      /\ \A k \in Keys : IsCurrent(k) =>
           /\ disk'[k] = counted'[k] + merged'[k]
           /\ IF pending'[p] THEN mem'[p][k] = early'[p][k] ELSE early'[p][k] = 0
           /\ ~pending'[p] => mem'[p][k] = disk'[k]
      /\ \A k \in Keys : k[2] > window_key(k[1]) =>
           disk'[k] = 0 /\ merged'[k] = 0 /\ mem'[p][k] = 0 /\ early'[p][k] = 0
      /\ (IF pending[p] THEN Merge(p) ELSE Refresh(p)) => ~pending'[p]
  BY <1>1, <1>3, CopyAccounts
<1>5. \E s \in {"none", "error"} : last' = [last EXCEPT ![p] = s]
  BY <1>3 DEF Enter
<1>6. calls' \in 0..MaxCalls
  BY <1>1, BoundAssumption DEF Accounts, HistoryOK
<1>7. HistoryOK'
  BY <1>1, <1>4, <1>5, <1>6 DEF Accounts, HistoryOK
<1>8. Deciding(p)' => ~pending'[p]
  BY <1>1, <1>3, <1>4 DEF Deciding
<1>9. \A k \in Keys : IsCurrent(k) => OwnAdds(p, k)'
  BY <1>1, <1>4, <1>8 DEF OwnAdds
<1>10. \A q \in Procs \ {p} : UNCHANGED <<bound[q], step[q]>>
  BY <1>1, <1>3, OthersKeep DEF Enter
<1> QED
  BY <1>1, <1>2, <1>4, <1>7, <1>8, <1>9, <1>10, ProcAccounts

\* A call of a process that is not bound begins with what it has in memory.
LEMMA BeginUnboundAccounts ==
  ASSUME IInv, Accounts, NEW p \in Procs, NEW t \in Tools, BeginUnbound(p, t)
  PROVE  Accounts'
<1>1. /\ ~bound[p] /\ calls < MaxCalls /\ calls' = calls + 1
      /\ mem' = [mem EXCEPT ![p] = prune(mem[p])]
      /\ step' = [step EXCEPT ![p] = "caps"] /\ last' = [last EXCEPT ![p] = "none"]
      /\ UNCHANGED <<today, readable, bound, counted, disk, pending, early, merged>>
  BY DEF BeginUnbound, Begin, Enter
<1>2. calls' \in 0..MaxCalls
  BY <1>1, BoundAssumption DEF Accounts, HistoryOK
<1>3. HistoryOK'
  BY <1>1, <1>2 DEF Accounts, HistoryOK
<1>4. mem'[p] = prune(mem[p]) /\ \A q \in Procs \ {p} : UNCHANGED <<mem[q], pending[q], early[q]>>
  BY <1>1 DEF IInv, CountersOK
<1>5. \A k \in Keys : mem'[p][k] = IF IsCurrent(k) THEN mem[p][k] ELSE 0
  BY <1>4, PruneFacts, Values
<1>6. ~Deciding(p)'
  BY <1>1 DEF Deciding
<1>7. \A k \in Keys : IsCurrent(k) => OwnAdds(p, k)'
  BY <1>1, <1>5, <1>6 DEF OwnAdds, Accounts, MemoryAdds
<1>8. \A k \in Keys : k[2] > window_key(k[1]) =>
        disk'[k] = 0 /\ merged'[k] = 0 /\ mem'[p][k] = 0 /\ early'[p][k] = 0
  BY <1>1, <1>5 DEF Accounts, FutureUnused, Unused
<1>9. \A k \in Keys : IsCurrent(k) => disk'[k] = counted'[k] + merged'[k]
  BY <1>1 DEF Accounts, FileAdds
<1>10. \A q \in Procs \ {p} : UNCHANGED <<bound[q], step[q]>>
  BY <1>1, OthersKeep
<1> QED
  BY <1>1, <1>3, <1>4, <1>6, <1>7, <1>8, <1>9, <1>10, ProcAccounts

\* The check of the caps changes no counter.
LEMMA CheckCapsAccounts ==
  ASSUME IInv, Accounts, NEW p \in Procs, CheckCaps(p)
  PROVE  Accounts'
<1>1. step[p] = "caps"
      /\ UNCHANGED <<today, readable, disk, bound, mem, pending, calls, counted, early, merged>>
  BY DEF CheckCaps, fileVars, histVars
<1>2. \E s \in {"idle", "count"} : step' = [step EXCEPT ![p] = s]
  BY DEF CheckCaps, Finish
<1>3. last' = [last EXCEPT ![p] = "limit"] \/ UNCHANGED last
  BY DEF CheckCaps, Finish
<1>4. HistoryOK'
  BY <1>1, <1>3 DEF Accounts, HistoryOK
<1>5. \A q \in Procs \ {p} : UNCHANGED <<bound[q], step[q]>>
  BY <1>1, <1>2, OthersKeep
<1>6. Deciding(p)' => Deciding(p)
  BY <1>1 DEF Deciding
<1>7. \A k \in Keys : IsCurrent(k) => OwnAdds(p, k)'
  BY <1>1, <1>6 DEF OwnAdds, Accounts, MemoryAdds
<1>8. \A k \in Keys : k[2] > window_key(k[1]) =>
        disk'[k] = 0 /\ merged'[k] = 0 /\ mem'[p][k] = 0 /\ early'[p][k] = 0
  BY <1>1 DEF Accounts, FutureUnused, Unused
<1>9. \A k \in Keys : IsCurrent(k) => disk'[k] = counted'[k] + merged'[k]
  BY <1>1 DEF Accounts, FileAdds
<1>10. Deciding(p)' => ~pending'[p]
  BY <1>1, <1>6 DEF Accounts, DecidesMerged
<1> QED
  BY <1>1, <1>4, <1>5, <1>7, <1>8, <1>9, <1>10, ProcAccounts

\* A bound call is counted once, in the file, or refused without a trace.
LEMMA CountBoundAccounts ==
  ASSUME IInv, Accounts, NEW p \in Procs, CountBound(p)
  PROVE  Accounts'
<1>1. /\ step[p] = "count" /\ bound[p] /\ UNCHANGED <<today, readable, bound, pending, calls, early, merged>>
      /\ mem' = [mem EXCEPT ![p] = Bump(mem[p], tool[p])]
  BY DEF CountBound
<1>2. Deciding(p) /\ lock = p /\ ~pending[p] /\ \A q \in Procs \ {p} : ~Deciding(q)
  BY <1>1 DEF Deciding, IInv, DecidesLocked, Accounts, DecidesMerged
<1>3. mem'[p] = Bump(mem[p], tool[p]) /\ \A q \in Procs \ {p} : UNCHANGED <<mem[q], pending[q], early[q]>>
  BY <1>1 DEF IInv, CountersOK
<1>4. \A k \in Keys : mem'[p][k] = IF k \in Keyed(tool[p]) THEN mem[p][k] + 1 ELSE mem[p][k]
  BY <1>3, Values, BumpFacts
<1>5. \A k \in Keys : k[2] > window_key(k[1]) => /\ mem'[p][k] = 0 /\ Unused(k)
                                                 /\ k \notin Keyed(tool[p])
  BY <1>4, Values DEF Accounts, FutureUnused, Unused
<1>6. \E s \in {"ok", "error"} : Finish(p, s)
  BY DEF CountBound
<1>7. /\ step' = [step EXCEPT ![p] = "idle"] /\ ~Deciding(p)'
      /\ \E s \in {"ok", "error"} : last' = [last EXCEPT ![p] = s]
  BY <1>6, FinishFacts DEF Finish, Deciding
<1>8. HistoryOK'
  BY <1>1, <1>7 DEF Accounts, HistoryOK
<1>9. \A q \in Procs \ {p} : UNCHANGED <<bound[q], step[q]>>
  BY <1>1, <1>7, OthersKeep
<1>10. \A k \in Keys : IsCurrent(k) => OwnAdds(p, k)'
  BY <1>1, <1>2, <1>7 DEF OwnAdds, Accounts, MemoryAdds
<1>11. CASE UNCHANGED <<disk, counted>>
  <2>1. \A k \in Keys : IsCurrent(k) => disk'[k] = counted'[k] + merged'[k]
    BY <1>1, <1>11 DEF Accounts, FileAdds
  <2>2. \A k \in Keys : k[2] > window_key(k[1]) =>
          disk'[k] = 0 /\ merged'[k] = 0 /\ mem'[p][k] = 0 /\ early'[p][k] = 0
    BY <1>1, <1>5, <1>11 DEF Unused
  <2> QED
    BY <1>1, <1>2, <1>3, <1>7, <1>8, <1>9, <1>10, <2>1, <2>2, ProcAccounts
<1>12. CASE disk' = mem'[p] /\ counted' = Charge(counted, tool[p])
  <2>1. \A k \in Keys : counted'[k] = IF k \in Keyed(tool[p]) THEN counted[k] + 1 ELSE counted[k]
    BY <1>12, Values, ChargeFacts
  <2>2. ASSUME NEW k \in Keys, IsCurrent(k) PROVE disk'[k] = counted'[k] + merged'[k]
    <3>1. mem[p][k] = counted[k] + merged[k]
      BY <1>2, <2>2 DEF Accounts, FileAdds, MemoryAdds, OwnAdds
    <3>2. counted[k] \in Nat /\ merged[k] \in Nat
      BY Values
    <3> QED
      BY <1>1, <1>4, <1>12, <2>1, <3>1, <3>2
  <2>3. \A k \in Keys : k[2] > window_key(k[1]) =>
          disk'[k] = 0 /\ merged'[k] = 0 /\ mem'[p][k] = 0 /\ early'[p][k] = 0
    BY <1>1, <1>5, <1>12 DEF Unused
  <2> QED
    BY <1>1, <1>2, <1>3, <1>7, <1>8, <1>9, <1>10, <2>2, <2>3, ProcAccounts
<1> QED
  BY <1>11, <1>12 DEF CountBound

\* An early call is counted once, in memory, and is now to be merged.
LEMMA CountUnboundAccounts ==
  ASSUME IInv, Accounts, NEW p \in Procs, CountUnbound(p)
  PROVE  Accounts'
<1>1. /\ ~bound[p] /\ UNCHANGED <<today, disk, readable, bound, calls, counted, merged>>
      /\ mem' = [mem EXCEPT ![p] = Bump(mem[p], tool[p])]
      /\ pending' = [pending EXCEPT ![p] = TRUE] /\ Finish(p, "ok")
      /\ early' = [early EXCEPT ![p] = Charge(early[p], tool[p])]
  BY DEF CountUnbound, fileVars
<1>2. /\ mem'[p] = Bump(mem[p], tool[p]) /\ early'[p] = Charge(early[p], tool[p]) /\ pending'[p]
      /\ \A q \in Procs \ {p} : UNCHANGED <<mem[q], pending[q], early[q]>>
  BY <1>1 DEF IInv, CountersOK, Accounts, HistoryOK
<1>3. /\ \A k \in Keys : mem'[p][k] = IF k \in Keyed(tool[p]) THEN mem[p][k] + 1 ELSE mem[p][k]
      /\ \A k \in Keys : early'[p][k] = IF k \in Keyed(tool[p]) THEN early[p][k] + 1 ELSE early[p][k]
      /\ early'[p] \in Counters
  BY <1>2, Values, BumpFacts, ChargeFacts
<1>4. step' = [step EXCEPT ![p] = "idle"] /\ ~Deciding(p)' /\ last' = [last EXCEPT ![p] = "ok"]
  BY <1>1 DEF Finish, Deciding
<1>5. HistoryOK'
  BY <1>1, <1>2, <1>3, <1>4 DEF Accounts, HistoryOK
<1>6. \A k \in Keys : IsCurrent(k) => mem[p][k] = early[p][k]
  BY <1>1 DEF Accounts, MemoryAdds, OwnAdds
<1>7. \A k \in Keys : IsCurrent(k) => OwnAdds(p, k)'
  BY <1>2, <1>3, <1>4, <1>6 DEF OwnAdds
<1>8. \A k \in Keys : k[2] > window_key(k[1]) =>
        disk'[k] = 0 /\ merged'[k] = 0 /\ mem'[p][k] = 0 /\ early'[p][k] = 0
  BY <1>1, <1>3, Values DEF Accounts, FutureUnused, Unused
<1>9. \A k \in Keys : IsCurrent(k) => disk'[k] = counted'[k] + merged'[k]
  BY <1>1 DEF Accounts, FileAdds
<1>10. \A q \in Procs \ {p} : UNCHANGED <<bound[q], step[q]>>
  BY <1>1, <1>4, OthersKeep
<1> QED
  BY <1>1, <1>2, <1>4, <1>5, <1>7, <1>8, <1>9, <1>10, ProcAccounts

\* A process that ends takes its early calls with it and nothing else.
LEMMA RestartAccounts ==
  ASSUME IInv, Accounts, NEW p \in Procs, Restart(p)
  PROVE  Accounts'
<1>1. /\ bound' = [bound EXCEPT ![p] = FALSE] /\ mem' = [mem EXCEPT ![p] = Zero]
      /\ pending' = [pending EXCEPT ![p] = FALSE] /\ step' = [step EXCEPT ![p] = "idle"]
      /\ last' = [last EXCEPT ![p] = "none"] /\ early' = [early EXCEPT ![p] = Zero]
      /\ UNCHANGED <<today, disk, readable, calls, counted, merged>>
  BY DEF Restart, fileVars
<1>2. /\ mem'[p] = Zero /\ early'[p] = Zero /\ ~pending'[p]
      /\ \A q \in Procs \ {p} : UNCHANGED <<mem[q], pending[q], early[q]>>
  BY <1>1 DEF IInv, CountersOK, Accounts, HistoryOK
<1>3. HistoryOK'
  BY <1>1, ZeroFacts DEF Accounts, HistoryOK
<1>4. ~Deciding(p)'
  BY <1>1 DEF Deciding, IInv, CountersOK
<1>5. \A k \in Keys : IsCurrent(k) => OwnAdds(p, k)'
  BY <1>2, <1>4, ZeroFacts DEF OwnAdds
<1>6. \A k \in Keys : k[2] > window_key(k[1]) =>
        disk'[k] = 0 /\ merged'[k] = 0 /\ mem'[p][k] = 0 /\ early'[p][k] = 0
  BY <1>1, <1>2, ZeroFacts DEF Accounts, FutureUnused, Unused
<1>7. \A k \in Keys : IsCurrent(k) => disk'[k] = counted'[k] + merged'[k]
  BY <1>1 DEF Accounts, FileAdds
<1>8. \A q \in Procs \ {p} : UNCHANGED <<bound[q], step[q]>>
  BY <1>1, OthersKeep
<1> QED
  BY <1>1, <1>2, <1>3, <1>4, <1>5, <1>6, <1>7, <1>8, ProcAccounts

\* A window that turns starts at zero everywhere, in every copy.
LEMMA TickAccounts ==
  ASSUME IInv, Accounts, Tick
  PROVE  Accounts'
<1>1. /\ today < MaxDay /\ today' = today + 1
      /\ UNCHANGED <<disk, readable, lock, bound, mem, pending, step, tool, last, calls>>
      /\ UNCHANGED <<counted, early, merged>>
  BY DEF Tick, fileVars, callVars, histVars
<1>2. today \in Days /\ today' \in Days
  BY <1>1, BoundAssumption DEF IInv, CountersOK, Days
<1>3. \A w : window_key(w) \in Nat /\ window_key(w)' \in Nat /\ window_key(w) <= window_key(w)'
  <2>1. today \div DaysPerMonth \in Nat /\ today' \div DaysPerMonth \in Nat
        /\ today \div DaysPerMonth <= today' \div DaysPerMonth
    BY <1>1, <1>2, WindowsAdvance DEF Days
  <2> QED
    BY <1>1, <1>2, <2>1 DEF window_key, Days
<1>4. \A k \in Keys : k[2] \in Nat
  BY DEF Keys, Days
<1>5. /\ \A k \in Keys : (k[2] > window_key(k[1]))' => k[2] > window_key(k[1])
      /\ \A k \in Keys : IsCurrent(k)' => IsCurrent(k) \/ k[2] > window_key(k[1])
  BY <1>3, <1>4 DEF IsCurrent
<1>6. HistoryOK' /\ DecidesMerged' /\ \A p \in Procs : Deciding(p)' = Deciding(p)
  BY <1>1 DEF Accounts, HistoryOK, DecidesMerged, Deciding
<1>7. \A k \in Keys : Unused(k)' = Unused(k)
  BY <1>1 DEF Unused
<1>8. FutureUnused'
  BY <1>5, <1>7 DEF FutureUnused, Accounts
<1>9. \A k \in Keys : k[2] > window_key(k[1]) => Unused(k) /\ counted[k] = 0
  BY DEF Accounts, FutureUnused, IInv, FutureIsEmpty
<1>10. FileAdds'
  <2> SUFFICES ASSUME NEW k \in Keys, IsCurrent(k)' PROVE disk[k] = counted[k] + merged[k]
    BY <1>1 DEF FileAdds
  <2>1. CASE IsCurrent(k)
    BY <2>1 DEF Accounts, FileAdds
  <2>2. CASE k[2] > window_key(k[1])
    BY <1>9, <2>2 DEF Unused
  <2> QED
    BY <1>5, <2>1, <2>2
<1>11. MemoryAdds'
  <2> SUFFICES ASSUME NEW p \in Procs, NEW k \in Keys, IsCurrent(k)' PROVE OwnAdds(p, k)'
    BY DEF MemoryAdds
  <2>1. OwnAdds(p, k)' = OwnAdds(p, k)
    BY <1>1, <1>6 DEF OwnAdds
  <2>2. CASE IsCurrent(k)
    BY <2>1, <2>2 DEF Accounts, MemoryAdds
  <2>3. CASE k[2] > window_key(k[1])
    BY <1>9, <2>1, <2>3 DEF Unused, OwnAdds
  <2> QED
    BY <1>5, <2>2, <2>3
<1> QED
  BY <1>6, <1>8, <1>10, <1>11 DEF Accounts

\* A step that leaves everything the accounts speak of as it is, readable aside.
LEMMA SameAccounts ==
  ASSUME Accounts, readable' \in BOOLEAN,
         UNCHANGED <<today, disk, bound, mem, pending, step, last, calls, counted, early, merged>>
  PROVE  Accounts'
<1>1. HistoryOK' /\ FileAdds' /\ DecidesMerged'
  BY DEF Accounts, HistoryOK, FileAdds, DecidesMerged, Deciding, IsCurrent, window_key
<1>2. MemoryAdds'
  BY DEF Accounts, MemoryAdds, OwnAdds, Deciding, IsCurrent, window_key
<1>3. FutureUnused'
  BY DEF Accounts, FutureUnused, Unused, window_key
<1> QED
  BY <1>1, <1>2, <1>3 DEF Accounts

\* Every step keeps the accounts.
LEMMA NextAccounts == IInv /\ Accounts /\ [Next]_vars => Accounts'
<1> SUFFICES ASSUME IInv, Accounts, [Next]_vars PROVE Accounts'
  OBVIOUS
<1>1. CASE UNCHANGED vars
  BY <1>1, SameAccounts DEF vars, fileVars, callVars, histVars, Accounts, HistoryOK
<1>2. CASE FileTrouble
  BY <1>2, SameAccounts DEF FileTrouble, callVars, histVars
<1>3. ASSUME NEW p \in Procs, ProcStep(p) PROVE Accounts'
  BY <1>3, BindAccounts, BeginBoundAccounts, BeginUnboundAccounts, CheckCapsAccounts,
     CountBoundAccounts, CountUnboundAccounts, RestartAccounts DEF ProcStep
<1> QED
  BY <1>1, <1>2, <1>3, TickAccounts DEF Next

\* In every reachable state the file is exactly what bound processes accepted and
\* what was merged, and every process has exactly its early calls left to merge:
\* none is lost and none is counted twice (sync_bound_state, check_and_count).
THEOREM AccountsAlwaysOK == Spec => []AccountsOK
<1>1. Spec => []IInv
  BY InitInv, NextInv, PTL DEF Spec
<1>2. Spec => []Accounts
  BY <1>1, InitAccounts, NextAccounts, PTL DEF Spec
<1> QED
  BY <1>1, <1>2, AccountsAreOK, PTL

-----------------------------------------------------------------------------
(* Refusals.                                                               *)

\* A limit is met only in CheckCaps: every other step leaves p elsewhere or ends
\* its call otherwise.
LEMMA OnlyCheckDenies ==
  ASSUME IInv, Accounts, [Next]_vars, NEW p \in Procs, step[p] = "caps", step'[p] = "idle", last'[p] = "limit"
  PROVE  CheckCaps(p)
<1>1. step \in [Procs -> {"idle", "caps", "count"}]
      /\ last \in [Procs -> {"none", "ok", "limit", "error"}]
  BY DEF IInv, CountersOK, Accounts, HistoryOK
<1>2. ~UNCHANGED step
  OBVIOUS
<1>3. PICK q \in Procs : ProcStep(q)
  BY <1>2 DEF Next, vars, Tick, FileTrouble, callVars
<1>4. q = p
  <2> SUFFICES ASSUME q # p PROVE FALSE
    OBVIOUS
  <2>1. \A s : step' = [step EXCEPT ![q] = s] => step'[p] = step[p]
    BY <1>1
  <2>2. UNCHANGED step \/ \E s \in {"idle", "caps", "count"} : step' = [step EXCEPT ![q] = s]
    BY <1>3 DEF ProcStep, Bind, BeginBound, BeginUnbound, CheckCaps, CountBound, CountUnbound,
                Restart, Enter, Finish, callVars
  <2> QED
    BY <1>2, <2>1, <2>2
<1>5. ~Bind(p) /\ \A t \in Tools : ~BeginBound(p, t) /\ ~BeginUnbound(p, t)
  BY DEF Bind, BeginBound, BeginUnbound, Begin
<1>6. ~CountBound(p) /\ ~CountUnbound(p)
  BY DEF CountBound, CountUnbound
<1>7. ~Restart(p)
  BY <1>1 DEF Restart
<1> QED
  BY <1>3, <1>4, <1>5, <1>6, <1>7 DEF ProcStep

\* A refused call found a cap used up in what the process decides on: the file,
\* or what it counted itself before it was bound.
LEMMA DenialEarned ==
  ASSUME IInv, Accounts, NEW p \in Procs, CheckCaps(p), step'[p] = "idle"
  PROVE  \E c \in Applicable(tool[p]) :
           counted[counter_key(c)] + merged[counter_key(c)] + early[p][counter_key(c)] >= c.max
<1>1. step'[p] # "count"
  OBVIOUS
<1>2. PICK c \in Applicable(tool[p]) : AtCap(p, c)
  BY <1>1 DEF CheckCaps, IInv, CountersOK
<1>3. PICK k \in Keys : k = counter_key(c) /\ IsCurrent(k) /\ c.max \in Nat \ {0}
  BY <1>2, CounterKeyFacts DEF Applicable, IInv, CountersOK
<1>4. mem[p][k] >= c.max
  BY <1>2, <1>3 DEF AtCap
<1>5. /\ counted[k] \in Nat /\ merged[k] \in Nat /\ early[p][k] \in Nat /\ mem[p][k] \in Nat
  BY Values
<1>6. OwnAdds(p, k) /\ disk[k] = counted[k] + merged[k]
  BY <1>3 DEF Accounts, MemoryAdds, FileAdds
<1>7. CASE bound[p]
  <2>1. mem[p][k] = counted[k] + merged[k]
    BY <1>6, <1>7 DEF OwnAdds, Deciding, CheckCaps
  <2> QED
    BY <1>3, <1>4, <1>5, <2>1
<1>8. CASE ~bound[p]
  <2>1. mem[p][k] = early[p][k] \/ mem[p][k] = 0
    BY <1>6, <1>8 DEF OwnAdds
  <2> QED
    BY <1>3, <1>4, <1>5, <2>1
<1> QED
  BY <1>7, <1>8

\* No call is refused for a limit unless accepted calls used that limit up: calls
\* that the shared file counts, or that this process counted before it was bound
\* (check_and_count).  Refused calls, failed saves, past windows and repeated
\* merges never cost anybody a call.
THEOREM RefusalsAreEarned == Spec => DenialsAreEarned
<1>1. Spec => []IInv
  BY InitInv, NextInv, PTL DEF Spec
<1>2. Spec => []Accounts
  BY <1>1, InitAccounts, NextAccounts, PTL DEF Spec
<1>3. ASSUME IInv, Accounts, [Next]_vars
      PROVE  [\A p \in Procs :
                step[p] = "caps" /\ step'[p] = "idle" /\ last'[p] = "limit"
                => \E c \in Applicable(tool[p]) :
                     LET k == counter_key(c) IN counted[k] + merged[k] + early[p][k] >= c.max]_vars
  BY <1>3, OnlyCheckDenies, DenialEarned
<1> QED
  BY <1>1, <1>2, <1>3, PTL DEF Spec, DenialsAreEarned
=============================================================================
