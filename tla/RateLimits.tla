----------------------------- MODULE RateLimits -----------------------------
(***************************************************************************)
(* Tool-call rate limits (rate_limits.rs): gateway processes that share one *)
(* counter file.  A bound process decides on a fresh copy of the file under *)
(* a cross-process lock.  A process that does not know its data directory  *)
(* yet counts in memory and merges when it binds.  The day and the month   *)
(* roll over at any moment, also while a call is being decided; processes  *)
(* end and start again; the file can be unreadable and saving it can fail. *)
(* A missing counter is a counter at zero.                                 *)
(***************************************************************************)
EXTENDS Naturals, FiniteSets

CONSTANTS Procs,         \* gateway processes
          Tools,
          Scopes,        \* what a cap can name: a tool, or all of them
          ScopesOf,      \* the scopes a call of each tool falls under
          Caps,          \* [window, scope, max] records of the team policy
          DaysPerMonth,
          MaxDay,        \* bound: the last day of the model
          MaxCalls,      \* bound: how many calls are started
          None

ASSUME ScopesAssumption == ScopesOf \in [Tools -> SUBSET Scopes]

\* parse_caps drops other windows and a maximum of zero.
ParsedCaps == [window : {"day", "month"}, scope : Scopes, max : Nat \ {0}]
ASSUME CapsAssumption == Caps \subseteq ParsedCaps

ASSUME BoundAssumption == DaysPerMonth \in Nat \ {0} /\ MaxDay \in Nat /\ MaxCalls \in Nat
ASSUME NoneAssumption == None \notin Procs \cup Tools

VARIABLES today,      \* the UTC day
          disk,       \* rate_limit_counters.json
          readable,   \* the file can be read and parsed
          lock,       \* who holds its sibling lock
          bound,      \* CounterState::path is set
          mem,        \* CounterState::file
          pending,    \* CounterState::pending_merge
          step, tool, \* where check_and_count is, and for which tool
          last,       \* how the last call ended
          calls,      \* calls started so far
          counted,    \* accepted by bound processes, by key
          early,      \* by process: accepted before it bound, and not merged yet
          merged      \* accepted before a bind and merged since, by key

fileVars == <<disk, readable>>
callVars == <<step, tool, last, calls>>
histVars == <<counted, early, merged>>
vars == <<today, fileVars, lock, bound, mem, pending, callVars, histVars>>

-----------------------------------------------------------------------------
(* counter_key: the window's kind, the window and the scope.               *)
Days == 0..MaxDay
Keys == {"day", "month"} \X Days \X Scopes
Zero == [k \in Keys |-> 0]

window_key(window) == IF window = "day" THEN today ELSE today \div DaysPerMonth
counter_key(c) == <<c.window, window_key(c.window), c.scope>>

Plus(f, g) == [k \in Keys |-> f[k] + g[k]]
IsCurrent(k) == k[2] = window_key(k[1])
prune(f) == [k \in Keys |-> IF IsCurrent(k) THEN f[k] ELSE 0]

tool_matches(scope, t) == scope \in ScopesOf[t]
Applicable(t) == {c \in Caps : tool_matches(c.scope, t)}

Init ==
  /\ today = 0 /\ disk = Zero /\ readable = TRUE /\ lock = None
  /\ bound = [p \in Procs |-> FALSE] /\ mem = [p \in Procs |-> Zero]
  /\ pending = [p \in Procs |-> FALSE]
  /\ step = [p \in Procs |-> "idle"] /\ tool = [p \in Procs |-> None]
  /\ last = [p \in Procs |-> "none"] /\ calls = 0
  /\ counted = Zero /\ early = [p \in Procs |-> Zero] /\ merged = Zero

-----------------------------------------------------------------------------
(* The file, under its lock.                                               *)

\* load_file: a file that cannot be read is an error, never an empty one.
CanLoad == readable
Loaded == prune(disk)

\* lock_counters.  (Mutated: nobody waits.)
LockUnneeded == TRUE
LockFree == lock = None

\* What was counted before the bind is added to the copy just read and saved.
\* If saving fails nothing is lost: the merge is tried again by the next call.
Settle(p) == merged' = Plus(merged, early[p]) /\ early' = [early EXCEPT ![p] = Zero]

MergeForgetsToClear(p) ==
  /\ disk' = Plus(Loaded, prune(mem[p]))
  /\ mem' = [mem EXCEPT ![p] = disk'] /\ UNCHANGED pending
  /\ Settle(p)

Merge(p) ==
  /\ disk' = Plus(Loaded, prune(mem[p]))
  /\ mem' = [mem EXCEPT ![p] = disk'] /\ pending' = [pending EXCEPT ![p] = FALSE]
  /\ Settle(p)

MergeFails(p) == mem' = [mem EXCEPT ![p] = prune(@)] /\ UNCHANGED <<disk, pending, early, merged>>
Refresh(p) == mem' = [mem EXCEPT ![p] = Loaded] /\ UNCHANGED <<disk, pending, early, merged>>

-----------------------------------------------------------------------------
(* bind_data_dir: best effort, the first bind wins.                        *)
Bind(p) ==
  /\ ~bound[p] /\ step[p] = "idle"
  /\ bound' = [bound EXCEPT ![p] = TRUE]
  /\ \/ /\ LockFree /\ CanLoad
        /\ IF pending[p] THEN Merge(p) \/ MergeFails(p) ELSE Refresh(p)
     \/ /\ ~LockFree \/ ~CanLoad
        /\ UNCHANGED <<disk, mem, pending, early, merged>>
  /\ UNCHANGED <<today, readable, lock, callVars, counted>>

(* check_and_count.  Without an applicable cap, without the lock within    *)
(* five seconds or with an unreadable file it returns and changes nothing. *)
Begin(p, t) ==
  /\ step[p] = "idle" /\ calls < MaxCalls
  /\ Applicable(t) # {}
  /\ calls' = calls + 1
  /\ UNCHANGED <<today, readable, bound, counted>>

Enter(p, t) ==
  /\ step' = [step EXCEPT ![p] = "caps"] /\ tool' = [tool EXCEPT ![p] = t]
  /\ last' = [last EXCEPT ![p] = "none"]

BeginBound(p, t) ==
  /\ bound[p] /\ LockFree /\ CanLoad
  /\ Begin(p, t)
  /\ \/ /\ IF pending[p] THEN Merge(p) ELSE Refresh(p)
        /\ lock' = p /\ Enter(p, t)
     \/ /\ pending[p] /\ MergeFails(p)
        /\ last' = [last EXCEPT ![p] = "error"] /\ UNCHANGED <<lock, step, tool>>

BeginUnbound(p, t) ==
  /\ ~bound[p]
  /\ Begin(p, t)
  /\ mem' = [mem EXCEPT ![p] = prune(@)]
  /\ Enter(p, t)
  /\ UNCHANGED <<disk, lock, pending, early, merged>>

Finish(p, how) ==
  /\ step' = [step EXCEPT ![p] = "idle"]
  /\ tool' = [tool EXCEPT ![p] = None]
  /\ last' = [last EXCEPT ![p] = how]
  /\ lock' = IF lock = p THEN None ELSE lock

\* One cap at its maximum refuses the call, and nothing is counted.
AtCap(p, c) == mem[p][counter_key(c)] >= c.max

CheckCaps(p) ==
  /\ step[p] = "caps"
  /\ \/ /\ \E c \in Applicable(tool[p]) : AtCap(p, c)
        /\ Finish(p, "limit")
     \/ /\ \A c \in Applicable(tool[p]) : ~AtCap(p, c)
        /\ step' = [step EXCEPT ![p] = "count"] /\ UNCHANGED <<tool, last, lock>>
  /\ UNCHANGED <<today, fileVars, bound, mem, pending, calls, histVars>>

\* Every distinct key of an applicable cap goes up by one.  (Mutated: once
\* for every cap.)
BumpEveryCap(f, t) ==
  [k \in Keys |-> f[k] + Cardinality({c \in Applicable(t) : counter_key(c) = k})]
Keyed(t) == {counter_key(c) : c \in Applicable(t)}
Bump(f, t) == [k \in Keys |-> IF k \in Keyed(t) THEN f[k] + 1 ELSE f[k]]

\* (History.) One more accepted call.
Charge(f, t) == [k \in Keys |-> IF k \in Keyed(t) THEN f[k] + 1 ELSE f[k]]

\* A save that fails refuses the call; the file is as it was.
CountBound(p) ==
  /\ step[p] = "count" /\ bound[p]
  /\ mem' = [mem EXCEPT ![p] = Bump(@, tool[p])]
  /\ \/ /\ disk' = mem'[p] /\ Finish(p, "ok")
        /\ counted' = Charge(counted, tool[p])
     \/ Finish(p, "error") /\ UNCHANGED <<disk, counted>>
  /\ UNCHANGED <<today, readable, bound, pending, calls, early, merged>>

CountUnbound(p) ==
  /\ step[p] = "count" /\ ~bound[p]
  /\ mem' = [mem EXCEPT ![p] = Bump(@, tool[p])]
  /\ pending' = [pending EXCEPT ![p] = TRUE]
  /\ Finish(p, "ok")
  /\ early' = [early EXCEPT ![p] = Charge(@, tool[p])]
  /\ UNCHANGED <<today, fileVars, bound, calls, counted, merged>>

-----------------------------------------------------------------------------
(* The environment.                                                        *)
Tick ==
  /\ today < MaxDay /\ today' = today + 1
  /\ UNCHANGED <<fileVars, lock, bound, mem, pending, callVars, histVars>>

\* The process ends, in the middle of a call too, and a new one takes its place.
Restart(p) ==
  /\ bound' = [bound EXCEPT ![p] = FALSE]
  /\ mem' = [mem EXCEPT ![p] = Zero] /\ pending' = [pending EXCEPT ![p] = FALSE]
  /\ step' = [step EXCEPT ![p] = "idle"] /\ tool' = [tool EXCEPT ![p] = None]
  /\ last' = [last EXCEPT ![p] = "none"]
  /\ lock' = IF lock = p THEN None ELSE lock
  /\ early' = [early EXCEPT ![p] = Zero]
  /\ UNCHANGED <<today, fileVars, calls, counted, merged>>

\* The file stops being readable, or is repaired with its counters intact.
FileTrouble ==
  /\ readable' = ~readable
  /\ UNCHANGED <<today, disk, lock, bound, mem, pending, callVars, histVars>>

ProcStep(p) ==
  \/ Bind(p)
  \/ \E t \in Tools : BeginBound(p, t) \/ BeginUnbound(p, t)
  \/ CheckCaps(p) \/ CountBound(p) \/ CountUnbound(p) \/ Restart(p)

Next == Tick \/ FileTrouble \/ \E p \in Procs : ProcStep(p)
Spec == Init /\ [][Next]_vars

-----------------------------------------------------------------------------
(* Properties.                                                             *)

Counters == [Keys -> Nat]
\* Every variable has its type.
TypeOK ==
  /\ today \in Days /\ disk \in Counters /\ readable \in BOOLEAN
  /\ lock \in Procs \cup {None} /\ bound \in [Procs -> BOOLEAN]
  /\ mem \in [Procs -> Counters] /\ pending \in [Procs -> BOOLEAN]
  /\ step \in [Procs -> {"idle", "caps", "count"}] /\ tool \in [Procs -> Tools \cup {None}]
  /\ last \in [Procs -> {"none", "ok", "limit", "error"}] /\ calls \in 0..MaxCalls
  /\ counted \in Counters /\ early \in [Procs -> Counters] /\ merged \in Counters

\* However many processes share the file, the calls they accept once bound
\* stay within every cap, in every window.
CapHolds == \A c \in Caps, d \in Days : counted[<<c.window, d, c.scope>>] <= c.max

\* In the current windows every accepted call is counted exactly once.  The file
\* has the calls of bound processes and the early ones that were merged, no more
\* and no less; a process has all of its early calls to merge or none is left.
CountedOnce ==
  \A k \in Keys : IsCurrent(k) =>
    /\ disk[k] = counted[k] + merged[k]
    /\ \A p \in Procs : IF pending[p] THEN mem[p][k] = early[p][k] ELSE early[p][k] = 0

\* The counters are well formed and account for every accepted call (check_and_count).
AccountsOK == TypeOK /\ CountedOnce

\* A call is refused for a limit only if calls that the file or the process itself
\* has to know of used it up: refused calls, failed saves, other windows, repeated
\* merges and the early calls of another process cost nothing.
DenialsAreEarned ==
  [][\A p \in Procs :
       step[p] = "caps" /\ step'[p] = "idle" /\ last'[p] = "limit"
       => \E c \in Applicable(tool[p]) :
            LET k == counter_key(c) IN counted[k] + merged[k] + early[p][k] >= c.max]_vars
=============================================================================
