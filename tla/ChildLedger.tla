---------------------------- MODULE ChildLedger ----------------------------
(***************************************************************************)
(* The ledger of spawned servers (child_ledger.rs, spawn_server and the    *)
(* drop of a stdio transport in downstream.rs): each gateway keeps a file  *)
(* children/<pid>.json with the servers it runs; a gateway that starts     *)
(* kills what dead owners left behind, but only groups it can prove.       *)
(*                                                                         *)
(* A process is named by pid and start time, which no two processes share, *)
(* so a member of Gateways, Servers or Strangers is such a name and `pid`  *)
(* is the number it got.  The operating system hands out a number again as *)
(* soon as no process and no process group uses it.  A server leads its    *)
(* own group; a helper it started can outlive it.  Whether every process   *)
(* left in a group has a readable environment with the tag is open.        *)
(***************************************************************************)
EXTENDS Naturals, FiniteSets

CONSTANTS Gateways, Servers, Strangers, Nil,
          MaxPid         \* bound: how many process numbers there are

AllProcs == Gateways \cup Servers \cup Strangers
Pids == 1..MaxPid
Ledgers == [owner : Gateways, children : (SUBSET Servers) \ {{}}]

ASSUME NilAssumption == Nil \notin Gateways \cup Servers \cup Ledgers
ASSUME KindAssumption ==
  Gateways \cap Servers = {} /\ Gateways \cap Strangers = {} /\ Servers \cap Strangers = {}
ASSUME PidAssumption == MaxPid \in Nat

VARIABLES pid, last,   \* the number of each process; the numbers used so far
          gate,        \* the life of each gateway
          life,        \* of each server: its own process
          helper,      \* and whether another process is left in its group
          other,       \* the life of each stranger, and of its group
          parent,      \* the gateway that spawned each server
          spawning,    \* per gateway, a server spawned and not yet recorded
          dropping,    \* and one reaped and not yet forgotten
          kids,        \* the Ledger in memory
          file,        \* children/<pid>.json: owner and children
          todo,        \* the files a starting gateway has still to look at
          at, found,   \* the one it is working on, and the children read from it
          aim, proved, \* the child whose group it has proved, and the group as it was
          listed,      \* servers recorded whose transport is not dropped and forgotten
          due,         \* orphans a starting gateway found on file and had to stop
          hit,         \* who was signalled by a reaper
          spared,      \* and who was not: the proof or the signal failed
          reused, broken \* a gateway or server got a used number; a write failed

osVars == <<pid, last, life, helper, other, parent>>
reapVars == <<todo, at, found, aim, proved>>
historyVars == <<listed, due, hit, spared, reused, broken>>
ledgerVars == <<osVars, gate, spawning, dropping, kids, file, reapVars, historyVars>>

LedgerInit ==
  /\ pid = [x \in AllProcs |-> 0] /\ last = 0
  /\ gate = [g \in Gateways |-> "unborn"] /\ life = [s \in Servers |-> "unborn"]
  /\ helper = [s \in Servers |-> FALSE] /\ other = [x \in Strangers |-> "unborn"]
  /\ parent = [s \in Servers |-> Nil]
  /\ spawning = [g \in Gateways |-> Nil] /\ dropping = [g \in Gateways |-> Nil]
  /\ kids = [g \in Gateways |-> {}] /\ file = [q \in Pids |-> Nil]
  /\ todo = [g \in Gateways |-> {}] /\ at = [g \in Gateways |-> 0]
  /\ found = [g \in Gateways |-> {}]
  /\ aim = [g \in Gateways |-> Nil] /\ proved = [g \in Gateways |-> {}]
  /\ listed = {} /\ due = [g \in Gateways |-> {}] /\ hit = {} /\ spared = {}
  /\ reused = FALSE /\ broken = FALSE

-----------------------------------------------------------------------------
(* The operating system.                                                   *)

Running(g) == gate[g] \in {"reaping", "up"}
\* process_start answers for it: a zombie still has its start time.
Exists(x) ==
  \/ x \in Gateways /\ Running(x)
  \/ x \in Servers /\ life[x] \in {"running", "zombie"}
  \/ x \in Strangers /\ other[x] = "leading"

\* The process group with this number.
Members(q) ==
  {s \in Servers : pid[s] = q /\ (Exists(s) \/ helper[s])}
    \cup {x \in Strangers : pid[x] = q /\ other[x] \in {"leading", "orphaned"}}

NobodyAt(q) == \A x \in AllProcs : Exists(x) => pid[x] # q
Free(q) == Members(q) = {} /\ NobodyAt(q)

\* A process gets a free number: a used one, or the next new one.
GetPid(x, q) ==
  /\ q \in Pids /\ q <= last + 1 /\ Free(q)
  /\ pid' = [pid EXCEPT ![x] = q]
  /\ last' = IF q > last THEN q ELSE last

\* A group is killed.  A child of a running gateway waits to be reaped by it.
Killed(s) ==
  IF life[s] = "unborn" THEN "unborn" ELSE IF Running(parent[s]) THEN "zombie" ELSE "reaped"
KillGroup(q) ==
  LET victims == Members(q) IN
  /\ life' = [s \in Servers |-> IF s \in victims /\ Exists(s) THEN Killed(s) ELSE life[s]]
  /\ helper' = [s \in Servers |-> helper[s] /\ s \notin victims]
  /\ other' = [x \in Strangers |-> IF x \in victims THEN "gone" ELSE other[x]]
  /\ hit' = hit \cup victims

\* A server process ends by itself; a helper can stay behind.
ServerExits(s) ==
  /\ life[s] = "running"
  /\ life' = [life EXCEPT ![s] = IF Running(parent[s]) THEN "zombie" ELSE "reaped"]
  /\ UNCHANGED <<pid, last, helper, other, parent, gate, spawning, dropping, kids, file,
                 reapVars, historyVars>>

HelperExits(s) ==
  /\ helper[s] /\ helper' = [helper EXCEPT ![s] = FALSE]
  /\ UNCHANGED <<pid, last, life, other, parent, gate, spawning, dropping, kids, file,
                 reapVars, historyVars>>

\* Another program's group takes a number that was used before; its leader
\* ends and leaves a member behind, or the whole group ends.
StrangerStep(x) ==
  /\ \/ /\ other[x] = "unborn" /\ other' = [other EXCEPT ![x] = "leading"]
        /\ \E q \in 1..last : GetPid(x, q)
     \/ /\ other[x] = "leading" /\ other' = [other EXCEPT ![x] = "orphaned"]
        /\ UNCHANGED <<pid, last>>
     \/ /\ other[x] \in {"leading", "orphaned"} /\ other' = [other EXCEPT ![x] = "gone"]
        /\ UNCHANGED <<pid, last>>
  /\ UNCHANGED <<life, helper, parent, gate, spawning, dropping, kids, file, reapVars, historyVars>>

\* A gateway ends, at any moment; init reaps what it had not.
GatewayEnds(g) ==
  /\ Running(g)
  /\ gate' = [gate EXCEPT ![g] = "gone"]
  /\ life' = [s \in Servers |-> IF parent[s] = g /\ life[s] = "zombie" THEN "reaped" ELSE life[s]]
  /\ spawning' = [spawning EXCEPT ![g] = Nil] /\ dropping' = [dropping EXCEPT ![g] = Nil]
  /\ kids' = [kids EXCEPT ![g] = {}]
  /\ todo' = [todo EXCEPT ![g] = {}] /\ at' = [at EXCEPT ![g] = 0]
  /\ found' = [found EXCEPT ![g] = {}]
  /\ aim' = [aim EXCEPT ![g] = Nil] /\ proved' = [proved EXCEPT ![g] = {}]
  /\ UNCHANGED <<pid, last, helper, other, parent, file, historyVars>>

-----------------------------------------------------------------------------
(* The gateway's own children.                                             *)

\* save: the whole ledger of this process, or no file when it is empty.  Both
\* are best effort.
Content(g, now) == IF now = {} THEN Nil ELSE [owner |-> g, children |-> now]

save(g, now) ==
  \/ file' = [file EXCEPT ![pid[g]] = Content(g, now)] /\ UNCHANGED broken
  \/ UNCHANGED file /\ broken' = TRUE

\* spawn_server: the server exists before record() is called for it.
Spawn(g, s) ==
  /\ gate[g] = "up" /\ spawning[g] = Nil /\ life[s] = "unborn"
  /\ \E q \in Pids : GetPid(s, q) /\ reused' = (reused \/ q <= last)
  /\ life' = [life EXCEPT ![s] = "running"]
  /\ \E h \in BOOLEAN : helper' = [helper EXCEPT ![s] = h]
  /\ parent' = [parent EXCEPT ![s] = g]
  /\ spawning' = [spawning EXCEPT ![g] = s]
  /\ UNCHANGED <<other, gate, dropping, kids, file, reapVars, listed, due, hit, spared, broken>>

\* Entries are replaced and dropped by number.
Without(g, q) == {s \in kids[g] : pid[s] # q}

\* A child that is still unreaped has a start time to record.
record(g) ==
  /\ spawning[g] # Nil
  /\ LET s == spawning[g]
         now == Without(g, pid[s]) \cup {s}
     IN  kids' = [kids EXCEPT ![g] = now] /\ save(g, now) /\ listed' = listed \cup {s}
  /\ spawning' = [spawning EXCEPT ![g] = Nil]
  /\ UNCHANGED <<osVars, gate, dropping, reapVars, due, hit, spared, reused>>

\* try_wait elsewhere in the transport reaps a server that has ended.
TryWait(g, s) ==
  /\ gate[g] = "up" /\ parent[s] = g /\ life[s] = "zombie" /\ spawning[g] # s
  /\ life' = [life EXCEPT ![s] = "reaped"]
  /\ UNCHANGED <<pid, last, helper, other, parent, gate, spawning, dropping, kids, file,
                 reapVars, historyVars>>

\* Drop for StdioTransport up to wait(): the group is killed, unless the
\* server was reaped before.
Drop(g, s) ==
  /\ gate[g] = "up" /\ parent[s] = g /\ spawning[g] # s /\ dropping[g] = Nil
  /\ s \in listed
  /\ life' = [life EXCEPT ![s] = "reaped"]
  /\ helper' = [helper EXCEPT ![s] = life[s] = "reaped" /\ @]
  /\ dropping' = [dropping EXCEPT ![g] = s]
  /\ UNCHANGED <<pid, last, other, parent, gate, spawning, kids, file, reapVars, historyVars>>

\* forget, by the number the server had.
forget(g) ==
  /\ dropping[g] # Nil
  /\ LET s == dropping[g]
         now == Without(g, pid[s])
     IN  /\ kids' = [kids EXCEPT ![g] = now]
         /\ IF now # kids[g] THEN save(g, now) ELSE UNCHANGED <<file, broken>>
         /\ listed' = listed \ {s}
  /\ dropping' = [dropping EXCEPT ![g] = Nil]
  /\ UNCHANGED <<osVars, gate, spawning, reapVars, due, hit, spared, reused>>

-----------------------------------------------------------------------------
(* A gateway starts: bind_data_dir, then reap_orphans.                     *)

\* The owner is gone, told by pid and start time.
OwnerGone(f) == ~Exists(f.owner)

GroupAlive(s) == life[s] = "running" \/ helper[s]

\* A fresh ledger in memory; a file with the same name stays as it is.  The
\* directory is listed, or it cannot be read and nothing is reaped.
Start(g) ==
  /\ gate[g] = "unborn"
  /\ \E q \in Pids : GetPid(g, q) /\ reused' = (reused \/ q <= last)
  /\ gate' = [gate EXCEPT ![g] = "reaping"]
  /\ \/ /\ todo' = [todo EXCEPT ![g] = {q \in Pids : file[q] # Nil}]
        /\ due' = [due EXCEPT ![g] = UNION {file[q].children : q \in {p \in Pids :
                                              file[p] # Nil /\ OwnerGone(file[p])}}]
     \/ todo' = [todo EXCEPT ![g] = {}] /\ due' = [due EXCEPT ![g] = {}]
  /\ UNCHANGED <<life, helper, other, parent, spawning, dropping, kids, file, at, found,
                 aim, proved, listed, hit, spared, broken>>

\* The next file of the listing: skipped if it is gone, ours or its owner lives,
\* or if it cannot be read or parsed.  (Mutated: the owner's number is enough.)
ReapableByNumber(g, q) ==
  file[q] # Nil /\ pid[file[q].owner] # pid[g] /\ NobodyAt(pid[file[q].owner])
Reapable(g, q) == file[q] # Nil /\ pid[file[q].owner] # pid[g] /\ OwnerGone(file[q])

ReapRead(g, q) ==
  /\ gate[g] = "reaping" /\ at[g] = 0 /\ q \in todo[g]
  /\ todo' = [todo EXCEPT ![g] = @ \ {q}]
  /\ \/ /\ Reapable(g, q)
        /\ at' = [at EXCEPT ![g] = q] /\ found' = [found EXCEPT ![g] = file[q].children]
        /\ UNCHANGED due
     \/ ~Reapable(g, q) /\ UNCHANGED <<at, found, due>>
     \/ /\ file[q] # Nil /\ due' = [due EXCEPT ![g] = @ \ file[q].children]
        /\ UNCHANGED <<at, found>>
  /\ UNCHANGED <<osVars, gate, spawning, dropping, kids, file, aim, proved, listed, hit,
                 spared, reused, broken>>

\* The leader has its recorded start time, or it is gone and everything left
\* in its group carries the tag.  (Mutated: the number is enough.)
ProvableByNumber(s) == Members(pid[s]) # {}
group_carries_tag(q, s) == Members(q) = {s}
Provable(s) == Exists(s) \/ (NobodyAt(pid[s]) /\ group_carries_tag(pid[s], s))

\* kill_orphan_group up to the proof.  Without a leader it can always fail: a
\* member's environment is unreadable or lacks the tag, or /proc is unreadable.
kill_orphan_group(g, s) ==
  /\ s \in found[g] /\ aim[g] = Nil
  /\ \/ /\ Provable(s)
        /\ aim' = [aim EXCEPT ![g] = s] /\ proved' = [proved EXCEPT ![g] = Members(pid[s])]
        /\ UNCHANGED <<found, spared>>
     \/ /\ ~Exists(s)
        /\ found' = [found EXCEPT ![g] = @ \ {s}] /\ spared' = spared \cup {s}
        /\ UNCHANGED <<aim, proved>>
  /\ UNCHANGED <<osVars, gate, spawning, dropping, kids, file, todo, at, listed, due, hit,
                 reused, broken>>

\* The signal goes to whatever has the number by now.  A failure is ignored.
killpg(g) ==
  /\ aim[g] # Nil
  /\ \/ KillGroup(pid[aim[g]]) /\ UNCHANGED spared
     \/ spared' = spared \cup {aim[g]} /\ UNCHANGED <<life, helper, other, hit>>
  /\ found' = [found EXCEPT ![g] = @ \ {aim[g]}]
  /\ aim' = [aim EXCEPT ![g] = Nil] /\ proved' = [proved EXCEPT ![g] = {}]
  /\ UNCHANGED <<pid, last, parent, gate, spawning, dropping, kids, file, todo, at,
                 listed, due, reused, broken>>

\* All children were tried: the file goes, whatever it holds by now, and whatever
\* came of the children; or it cannot be removed.  (Mutated: it goes first.)
ReapRemoveEarly(g) ==
  /\ at[g] # 0
  /\ file' = [file EXCEPT ![at[g]] = Nil]
  /\ at' = [at EXCEPT ![g] = IF found[g] = {} THEN 0 ELSE @]
  /\ UNCHANGED <<osVars, gate, spawning, dropping, kids, todo, found, aim, proved, historyVars>>

ReapRemove(g) ==
  /\ at[g] # 0 /\ found[g] = {}
  /\ file' = [file EXCEPT ![at[g]] = Nil] \/ UNCHANGED file
  /\ at' = [at EXCEPT ![g] = 0]
  /\ UNCHANGED <<osVars, gate, spawning, dropping, kids, todo, found, aim, proved, historyVars>>

ReapDone(g) ==
  /\ gate[g] = "reaping" /\ todo[g] = {} /\ at[g] = 0
  /\ gate' = [gate EXCEPT ![g] = "up"]
  /\ UNCHANGED <<osVars, spawning, dropping, kids, file, reapVars, historyVars>>

GatewayStep(g) ==
  \/ Start(g) \/ killpg(g) \/ ReapRemove(g) \/ ReapDone(g) \/ record(g) \/ forget(g)
  \/ GatewayEnds(g)
  \/ \E q \in Pids : ReapRead(g, q)
  \/ \E s \in Servers : kill_orphan_group(g, s) \/ Spawn(g, s) \/ TryWait(g, s) \/ Drop(g, s)

LedgerNext ==
  \/ \E g \in Gateways : GatewayStep(g)
  \/ \E s \in Servers : ServerExits(s) \/ HelperExits(s)
  \/ \E x \in Strangers : StrangerStep(x)

LedgerSpec == LedgerInit /\ [][LedgerNext]_ledgerVars

-----------------------------------------------------------------------------
(* Properties.                                                             *)

\* Every variable has its type, and a ledger file names its owner and somebody.
LedgerTypeOK ==
  /\ pid \in [AllProcs -> 0..MaxPid] /\ last \in 0..MaxPid
  /\ gate \in [Gateways -> {"unborn", "reaping", "up", "gone"}]
  /\ life \in [Servers -> {"unborn", "running", "zombie", "reaped"}]
  /\ helper \in [Servers -> BOOLEAN]
  /\ other \in [Strangers -> {"unborn", "leading", "orphaned", "gone"}]
  /\ parent \in [Servers -> Gateways \cup {Nil}]
  /\ spawning \in [Gateways -> Servers \cup {Nil}]
  /\ dropping \in [Gateways -> Servers \cup {Nil}]
  /\ kids \in [Gateways -> SUBSET Servers]
  /\ file \in [Pids -> Ledgers \cup {Nil}]
  /\ \A q \in Pids : file[q] # Nil => pid[file[q].owner] = q
  /\ todo \in [Gateways -> SUBSET Pids] /\ at \in [Gateways -> 0..MaxPid]
  /\ found \in [Gateways -> SUBSET Servers] /\ aim \in [Gateways -> Servers \cup {Nil}]
  /\ proved \in [Gateways -> SUBSET (Servers \cup Strangers)] /\ spared \subseteq Servers
  /\ listed \subseteq Servers /\ due \in [Gateways -> SUBSET Servers]
  /\ hit \subseteq Servers \cup Strangers /\ reused \in BOOLEAN /\ broken \in BOOLEAN

\* "A group that cannot be proven is never signalled": what a reaper signals of
\* the group it proved are servers whose gateway is gone and nothing else, neither
\* another program nor the server of a running gateway, however numbers are recycled
\* and however many gateways start, end and reap.  Proof and signal are two steps:
\* whoever else is signalled got the number in between, after the group had ended.
OnlyOrphansSignalled ==
  [][\A g \in Gateways : aim'[g] # aim[g] =>
       \A x \in hit' \ hit :
         IF x \in proved[g] THEN x \in Servers /\ ~Running(parent[x])
         ELSE ~GroupAlive(aim[g])]_ledgerVars

\* "An entry leaves when its child is reaped": until then a recorded server
\* with anything alive in its group is in a ledger file (if saves succeed),
\* so that the next gateway can find it.  A reaper that could not prove its
\* group or signal it removes the file all the same; such a server is excepted.
EntriesOutlast ==
  ~broken => \A s \in listed \ spared : GroupAlive(s) =>
               \E q \in Pids : file[q] # Nil /\ s \in file[q].children

\* It is, as long as no gateway or server gets a used number.
LedgerOK == LedgerTypeOK /\ (~reused => EntriesOutlast)

\* When reap_orphans returns, nothing is left alive of what it could read in the
\* files of gateways that were gone when it began, whoever else was reaping, but
\* for groups that some reaper could not prove or signal.
ReapIsComplete ==
  [][\A g \in Gateways :
       ~reused /\ gate[g] = "reaping" /\ gate'[g] = "up" =>
         \A s \in due[g] : ~GroupAlive(s) \/ s \in spared]_ledgerVars
=============================================================================
