----------------------- MODULE ModernApprovalsProofs -----------------------
(***************************************************************************)
(* Proofs about ModernApprovals: the path of modern clients implements the *)
(* abstract gate HeldCall, whichever server the exposed name goes to, a    *)
(* cancelled prompt goes, a new one costs no other its place, and the      *)
(* audit log has a row for every end and never two verdicts.               *)
(*                                                                         *)
(* The invariant of the gate ties each record of the table and each        *)
(* request past the gate to what the person was shown and said about its   *)
(* token; the one of the rows names who still owes the verdict of each.    *)
(***************************************************************************)
EXTENDS ModernApprovals, FiniteSetTheorems, SequenceTheorems, TLAPS

Fresh == {"hook", "insert"}
Passed == {"revalidate", "dispatch", "running"}

HistOK == /\ route \in [owner : Owners, def : Defs \cup {None}]
          /\ verdict \in [Tokens -> {"unasked", "asked", "yes", "no", "lapsed"}]
          /\ shown \in [Tokens -> Contents \cup {None}]
          /\ \A t \in Tokens : verdict[t] = "unasked" => shown[t] = None

\* A record holds what was shown, unanswered or approved.
RecordOK(t) ==
    /\ hitl[t].call \in Calls /\ hitl[t].fp \in Defs /\ "status" \in DOMAIN hitl[t]
    /\ shown[t] = <<hitl[t].call, hitl[t].fp>>
    /\ \/ hitl[t].status = "awaiting" /\ verdict[t] = "asked"
       \/ hitl[t].status = "approved" /\ verdict[t] = "yes"

TableOK == DOMAIN hitl \subseteq Tokens /\ \A t \in DOMAIN hitl : RecordOK(t)

\* A request that is past the gate carries what was shown and approved.
RequestOK(e) ==
    /\ e.pc # "idle" => e.token \in Tokens
    /\ e.pc \in Fresh => /\ e.fp \in Defs
                         /\ verdict[e.token] = "unasked" /\ shown[e.token] = None
    /\ e.pc \in Passed => verdict[e.token] = "yes" /\ shown[e.token] = <<e.call, e.fp>>

RequestsOK == /\ req \in [Reqs -> Entry]
              /\ \A r \in Reqs : RequestOK(req[r])
              /\ \A r, q \in Reqs : req[r].pc \in Fresh /\ r # q => req[q].token # req[r].token

GateInv == HistOK /\ TableOK /\ RequestsOK

-----------------------------------------------------------------------------
\* The table loses records, or has some touched.
Shrinks(s) == /\ DOMAIN s \subseteq DOMAIN hitl
              /\ \A t \in DOMAIN s : /\ s[t].call = hitl[t].call /\ s[t].fp = hitl[t].fp
                                     /\ s[t].status = hitl[t].status
                                     /\ s[t].seq = hitl[t].seq
                                     /\ DOMAIN s[t] = DOMAIN hitl[t]

\* Every way the session store lets go of records, or touches one, shrinks it.
LEMMA StoreShrinks ==
    /\ Shrinks(hitl)
    /\ \A K \in SUBSET DOMAIN hitl : Shrinks(Store!Keep(hitl, K))
    /\ \A t : Shrinks(Store!Remove(hitl, t))
    /\ \A t : Shrinks(Store!Touch(hitl, t, now))
    /\ Shrinks(Store!ReapExpired(hitl, now))
<1>1. \A K \in SUBSET DOMAIN hitl : Shrinks(Store!Keep(hitl, K))
  BY DEF Shrinks, Store!Keep
<1>2. \A t : Shrinks(Store!Remove(hitl, t))
  BY <1>1 DEF Store!Remove
<1>3. Shrinks(Store!ReapExpired(hitl, now))
  BY <1>1 DEF Store!ReapExpired
<1>4. ASSUME NEW t PROVE Shrinks(Store!Touch(hitl, t, now))
  <2>1. CASE Store!Live(hitl, t, now)
    <3>1. Store!Touch(hitl, t, now) = [hitl EXCEPT ![t] = [@ EXCEPT !.seen = now]]
      BY <2>1 DEF Store!Touch
    <3>2. ASSUME NEW e PROVE LET f == [e EXCEPT !.seen = now]
                             IN /\ f.call = e.call /\ f.fp = e.fp /\ f.status = e.status
                                /\ DOMAIN f = DOMAIN e /\ f.seq = e.seq
      OBVIOUS
    <3> QED BY <3>1 DEF Shrinks
  <2>2. CASE ~Store!Live(hitl, t, now)
    BY <2>2, <1>2 DEF Store!Touch
  <2> QED BY <2>1, <2>2
<1> QED BY <1>1, <1>2, <1>3, <1>4 DEF Shrinks

GateVars == <<verdict, shown, ran>>

\* Letting records go keeps the table true to the history and is a lapse of the
\* unanswered prompts among them.
LEMMA DropStep ==
    ASSUME HistOK, TableOK, NEW s, Shrinks(s),
           hitl' = s, verdict' = Lapsed(s), shown' = shown, route' = route
    PROVE  /\ HistOK' /\ TableOK'
           /\ \A t \in Tokens : verdict[t] \in {"unasked", "yes"} => verdict'[t] = verdict[t]
           /\ ran' = ran => [Gate!Next]_GateVars
<1> DEFINE P == {u \in Tokens : u \in DOMAIN hitl \ DOMAIN s /\ verdict[u] = "asked"}
<1>1. HistOK'
  BY DEF HistOK, Lapsed
<1>2. \A t \in Tokens : verdict[t] \in {"unasked", "yes"} => verdict'[t] = verdict[t]
  BY DEF Lapsed
<1>3. TableOK'
  <2>1. DOMAIN s \subseteq Tokens
    BY DEF TableOK, Shrinks
  <2>2. ASSUME NEW t \in DOMAIN s PROVE RecordOK(t)'
    <3>1. RecordOK(t) /\ t \in Tokens
      BY DEF TableOK, Shrinks
    <3>2. verdict'[t] = verdict[t]
      BY <3>1 DEF Lapsed
    <3> QED BY <3>1, <3>2 DEF RecordOK, Shrinks
  <2> QED BY <2>1, <2>2 DEF TableOK
<1>4. ran' = ran => [Gate!Next]_GateVars
  <2>1. verdict' = [p \in Tokens |-> IF p \in P THEN "lapsed" ELSE verdict[p]]
    BY DEF Lapsed
  <2>2. ran' = ran => Gate!Lapse(P)
    BY <2>1 DEF Gate!Lapse
  <2>3. P \in SUBSET Tokens
    OBVIOUS
  <2> QED BY <2>2, <2>3 DEF Gate!Next
<1> QED BY <1>1, <1>2, <1>3, <1>4

\* A step that leaves the requests alone but may let prompts lapse.
LEMMA OthersStay ==
    ASSUME RequestsOK, shown' = shown,
           \A t \in Tokens : verdict[t] \in {"unasked", "yes"} => verdict'[t] = verdict[t]
    PROVE  \A r \in Reqs : req'[r] = req[r] => RequestOK(req[r])'
<1> SUFFICES ASSUME NEW r \in Reqs, req'[r] = req[r] PROVE RequestOK(req[r])'
  OBVIOUS
<1>1. RequestOK(req[r])
  BY DEF RequestsOK
<1>2. req[r].pc \in Fresh => verdict'[req[r].token] = "unasked" /\ req[r].token \in Tokens
  BY <1>1 DEF RequestOK, Fresh
<1>3. req[r].pc \in Passed => verdict'[req[r].token] = "yes" /\ req[r].token \in Tokens
  BY <1>1 DEF RequestOK, Passed
<1> QED BY <1>1, <1>2, <1>3 DEF RequestOK, Fresh, Passed

\* What a request may become without a fresh token.
LEMMA OneMoves ==
    ASSUME RequestsOK, NEW r \in Reqs, NEW e \in Entry,
           e.pc \notin Fresh, e.token \in {None, req[r].token},
           req' = [req EXCEPT ![r] = e]
    PROVE  /\ req' \in [Reqs -> Entry]
           /\ \A q \in Reqs : q # r => req'[q] = req[q]
           /\ req'[r] = e
           /\ \A p, q \in Reqs : req'[p].pc \in Fresh /\ p # q => req'[q].token # req'[p].token
<1>1. req' \in [Reqs -> Entry] /\ req'[r] = e /\ \A q \in Reqs : q # r => req'[q] = req[q]
  BY DEF RequestsOK
<1>2. ASSUME NEW p \in Reqs, NEW q \in Reqs, req'[p].pc \in Fresh, p # q
      PROVE  req'[q].token # req'[p].token
  <2>1. p # r /\ req'[p] = req[p]
    BY <1>1, <1>2
  <2>2. req[p].token \in Tokens /\ req[q].token # req[p].token
    BY <1>2, <2>1 DEF RequestsOK, RequestOK, Fresh
  <2>3. CASE q = r
    BY <2>1, <2>2, <2>3, <1>1, NoneAssumption
  <2>4. CASE q # r
    BY <2>1, <2>2, <2>4, <1>1
  <2> QED BY <2>3, <2>4
<1> QED BY <1>1, <1>2

LEMMA IdleEntry == Idle \in Entry /\ Idle.pc = "idle" /\ Idle.token = None
BY DEF Idle, At, Entry

\* A request returns, or goes on short of the gate's far side, while the table
\* shrinks.
LEMMA ReturnStep ==
    ASSUME GateInv, NEW r \in Reqs, NEW e \in Entry, NEW s, Shrinks(s),
           e.pc \notin Fresh \cup Passed \cup {"poll"}, e.token \in {None, req[r].token},
           e.pc # "idle" => e.token \in Tokens,
           hitl' = s, verdict' = Lapsed(s), shown' = shown, route' = route,
           req' = [req EXCEPT ![r] = e]
    PROVE  GateInv' /\ (ran' = ran => [Gate!Next]_GateVars)
<1>1. /\ HistOK' /\ TableOK'
      /\ \A t \in Tokens : verdict[t] \in {"unasked", "yes"} => verdict'[t] = verdict[t]
      /\ ran' = ran => [Gate!Next]_GateVars
  BY DropStep DEF GateInv
<1>2. \A q \in Reqs : q # r => RequestOK(req[q])'
  <2>1. \A q \in Reqs : q # r => req'[q] = req[q]
    BY OneMoves DEF GateInv
  <2> QED BY <1>1, <2>1, OthersStay DEF GateInv
<1>3. RequestOK(req[r])'
  <2>1. req'[r] = e
    BY OneMoves DEF GateInv
  <2> QED BY <2>1 DEF RequestOK
<1>4. RequestsOK'
  BY <1>2, <1>3, OneMoves DEF RequestsOK, GateInv
<1> QED BY <1>1, <1>4 DEF GateInv
\* The same when no request moves.
LEMMA TableStep ==
    ASSUME GateInv, NEW s, Shrinks(s),
           hitl' = s, verdict' = Lapsed(s), shown' = shown, route' = route, req' = req
    PROVE  GateInv' /\ (ran' = ran => [Gate!Next]_GateVars)
<1>1. /\ HistOK' /\ TableOK'
      /\ \A t \in Tokens : verdict[t] \in {"unasked", "yes"} => verdict'[t] = verdict[t]
      /\ ran' = ran => [Gate!Next]_GateVars
  BY DropStep DEF GateInv
<1>2. \A q \in Reqs : RequestOK(req[q])'
  BY <1>1, OthersStay DEF GateInv
<1>3. RequestsOK'
  BY <1>2 DEF RequestsOK, GateInv, Fresh
<1> QED BY <1>1, <1>3 DEF GateInv

\* Nothing lapses while no record goes.
LEMMA NoLapse ==
    ASSUME HistOK, NEW s, DOMAIN s = DOMAIN hitl
    PROVE  Lapsed(s) = verdict
BY DEF HistOK, Lapsed

\* Steps that leave table, history and route alone, and one request moves.
LEMMA PlainReturn ==
    ASSUME GateInv, NEW r \in Reqs, NEW e \in Entry,
           e.pc \notin Fresh \cup Passed \cup {"poll"}, e.token \in {None, req[r].token},
           e.pc # "idle" => e.token \in Tokens,
           UNCHANGED <<hitl, verdict, shown, route>>, req' = [req EXCEPT ![r] = e]
    PROVE  GateInv' /\ (ran' = ran => [Gate!Next]_GateVars)
<1>1. Lapsed(hitl) = verdict
  BY NoLapse DEF GateInv
<1>2. Shrinks(hitl)
  BY StoreShrinks
<1> QED BY <1>1, <1>2, ReturnStep

\* finish_modern_hitl at the end of a request.
LEMMA FinishReturns ==
    ASSUME GateInv, NEW r \in Reqs, NEW t, NEW row, Finish(t, row), Return(r),
           shown' = shown, route' = route
    PROVE  GateInv' /\ (ran' = ran => [Gate!Next]_GateVars)
<1>1. Shrinks(Store!Remove(hitl, t))
  BY StoreShrinks
<1>2. hitl' = Store!Remove(hitl, t) /\ verdict' = Lapsed(Store!Remove(hitl, t))
  BY DEF Finish, TableBecomes
<1>3. req' = [req EXCEPT ![r] = Idle]
  BY DEF Return, Go
<1>4. Idle.pc \notin Fresh \cup Passed \cup {"poll"}
  BY IdleEntry DEF Fresh, Passed
<1> QED BY <1>1, <1>2, <1>3, <1>4, IdleEntry, ReturnStep

\* Return without a change of table and history.
LEMMA ReturnsPlain ==
    ASSUME GateInv, NEW r \in Reqs, Return(r), UNCHANGED <<hitl, verdict, shown, route>>
    PROVE  GateInv' /\ (ran' = ran => [Gate!Next]_GateVars)
<1>1. req' = [req EXCEPT ![r] = Idle]
  BY DEF Return, Go
<1>2. Idle.pc \notin Fresh \cup Passed \cup {"poll"}
  BY IdleEntry DEF Fresh, Passed
<1> QED BY <1>1, <1>2, IdleEntry, PlainReturn

Both == GateInv' /\ [Gate!Next]_GateVars
-----------------------------------------------------------------------------
(* One lemma per group of actions.                                         *)

LEMMA FreshStep ==
    ASSUME GateInv, NEW r \in Reqs, NEW t \in Tokens, SendFresh(r, t)
    PROVE  Both
<1> DEFINE e == At("hook", t, route.owner, route.def)
<1>1. /\ req' = [req EXCEPT ![r] = e] /\ route.def # None
      /\ verdict[t] = "unasked" /\ \A q \in Reqs : req[q].token # t
      /\ UNCHANGED <<hitl, verdict, shown, ran, route>>
  BY DEF SendFresh, Go, Unused, tableVars, worldVars, histVars
<1>2. e = [pc |-> "hook", token |-> t, call |-> None, owner |-> route.owner,
           fp |-> route.def, newly |-> FALSE] /\ e \in Entry
  <2>1. route.owner \in Owners /\ route.def \in Defs \cup {None}
    BY DEF GateInv, HistOK
  <2>2. e = [pc |-> "hook", token |-> t, call |-> None, owner |-> route.owner,
             fp |-> route.def, newly |-> FALSE]
    BY DEF At
  <2> HIDE DEF e
  <2> QED BY <2>1, <2>2 DEF Entry
<1> HIDE DEF e
<1>3. HistOK' /\ TableOK'
  BY <1>1 DEF GateInv, HistOK, TableOK, RecordOK
<1>4. shown[t] = None
  BY <1>1 DEF GateInv, HistOK
<1>5. RequestOK(req[r])'
  BY <1>1, <1>2, <1>4 DEF RequestOK, Fresh, Passed, GateInv, HistOK, RequestsOK
<1>6. \A q \in Reqs : q # r => RequestOK(req[q])'
  BY <1>1, OthersStay DEF GateInv, RequestsOK
<1>7. \A p, q \in Reqs : req'[p].pc \in Fresh /\ p # q => req'[q].token # req'[p].token
  BY <1>1, <1>2 DEF GateInv, RequestsOK
<1>8. RequestsOK'
  BY <1>1, <1>2, <1>5, <1>6, <1>7 DEF GateInv, RequestsOK, Fresh
<1> QED BY <1>1, <1>3, <1>8 DEF GateInv, Both, GateVars
LEMMA ResumeStep ==
    ASSUME GateInv, NEW r \in Reqs, NEW t \in Tokens, SendResume(r, t)
    PROVE  Both
<1>1. PICK e \in Entry : /\ req' = [req EXCEPT ![r] = e] /\ e.token = t
                         /\ \/ e.pc = "poll" /\ e.owner = route.owner
                            \/ e.pc = "forget"
  <2> DEFINE a == At("poll", t, route.owner, None)
             b == At("forget", t, None, None)
  <2>1. route.owner \in Owners
    BY DEF GateInv, HistOK
  <2>2. a = [pc |-> "poll", token |-> t, call |-> None, owner |-> route.owner,
             fp |-> None, newly |-> FALSE]
    BY DEF At
  <2>3. b = [pc |-> "forget", token |-> t, call |-> None, owner |-> None,
             fp |-> None, newly |-> FALSE]
    BY DEF At
  <2>4. req' = [req EXCEPT ![r] = a] \/ req' = [req EXCEPT ![r] = b]
    BY DEF SendResume, Go
  <2> HIDE DEF a, b
  <2>5. a \in Entry /\ b \in Entry
    BY <2>1, <2>2, <2>3 DEF Entry
  <2> QED BY <2>2, <2>3, <2>4, <2>5
<1>2. shown[t] # None /\ UNCHANGED <<hitl, verdict, shown, ran, route>>
  BY DEF SendResume, tableVars, worldVars, histVars
<1>3. HistOK' /\ TableOK'
  BY <1>2 DEF GateInv, HistOK, TableOK, RecordOK
<1>4. RequestOK(req[r])'
  BY <1>1, <1>2 DEF RequestOK, Fresh, Passed, GateInv, RequestsOK
<1>5. \A q \in Reqs : q # r => RequestOK(req[q])'
  BY <1>1, <1>2, OthersStay DEF GateInv, RequestsOK
<1>6. \A p, q \in Reqs : req'[p].pc \in Fresh /\ p # q => req'[q].token # req'[p].token
  <2> SUFFICES ASSUME NEW p \in Reqs, NEW q \in Reqs, req'[p].pc \in Fresh, p # q
               PROVE  req'[q].token # req'[p].token
    OBVIOUS
  <2>1. p # r /\ req'[p] = req[p]
    BY <1>1 DEF GateInv, RequestsOK, Fresh
  <2>2. shown[req[p].token] = None /\ req[q].token # req[p].token
    BY <2>1 DEF GateInv, RequestsOK, RequestOK
  <2>3. CASE q = r
    BY <2>1, <2>2, <2>3, <1>1, <1>2 DEF GateInv, RequestsOK
  <2>4. CASE q # r
    BY <2>1, <2>2, <2>4, <1>1 DEF GateInv, RequestsOK
  <2> QED BY <2>3, <2>4
<1>7. RequestsOK'
  BY <1>1, <1>4, <1>5, <1>6 DEF GateInv, RequestsOK, Fresh
<1> QED BY <1>2, <1>3, <1>7 DEF GateInv, Both, GateVars

LEMMA HookStep ==
    ASSUME GateInv, NEW r \in Reqs, RegisterHook(r)
    PROVE  Both
<1>1. PICK e \in Entry : /\ req' = [req EXCEPT ![r] = e] /\ e.pc = "insert" /\ e.token = req[r].token
                         /\ e.owner = req[r].owner /\ e.fp = req[r].fp
  <2> DEFINE e == [req[r] EXCEPT !.pc = "insert"]
  <2>1. req[r] \in Entry
    BY DEF GateInv, RequestsOK
  <2>2. /\ e \in Entry /\ e.pc = "insert" /\ e.token = req[r].token
        /\ e.owner = req[r].owner /\ e.fp = req[r].fp
    BY <2>1 DEF Entry
  <2>3. req' = [req EXCEPT ![r] = e]
    BY DEF RegisterHook, Go
  <2> QED BY <2>2, <2>3
<1>2. req[r].pc = "hook" /\ UNCHANGED <<hitl, verdict, shown, ran, route>>
  BY DEF RegisterHook, tableVars, worldVars, histVars
<1>3. HistOK' /\ TableOK'
  BY <1>2 DEF GateInv, HistOK, TableOK, RecordOK
<1>4. RequestOK(req[r])'
  BY <1>1, <1>2 DEF RequestOK, Fresh, Passed, GateInv, RequestsOK
<1>5. \A q \in Reqs : q # r => RequestOK(req[q])'
  BY <1>1, <1>2, OthersStay DEF GateInv, RequestsOK
<1>6. \A p, q \in Reqs : req'[p].pc \in Fresh /\ p # q => req'[q].token # req'[p].token
  BY <1>1, <1>2 DEF GateInv, RequestsOK, Fresh
<1>7. RequestsOK'
  BY <1>1, <1>4, <1>5, <1>6 DEF GateInv, RequestsOK, Fresh
<1> QED BY <1>2, <1>3, <1>7 DEF GateInv, Both, GateVars
\* What insertion leaves: the new record and records that were there.
LEMMA StoreInserts ==
    ASSUME NEW s, Shrinks(s), NEW t, NEW e, t \notin DOMAIN hitl
    PROVE  LET f == Store!Insert(s, t, e, now)
           IN  /\ DOMAIN f \subseteq DOMAIN hitl \cup {t}
               /\ t \in DOMAIN f => f[t] = e
               /\ \A u \in DOMAIN f \ {t} : /\ f[u].call = hitl[u].call /\ f[u].fp = hitl[u].fp
                                            /\ f[u].status = hitl[u].status /\ DOMAIN f[u] = DOMAIN hitl[u]
<1> DEFINE g == Store!ReapExpired(s, now)
           p == Store!Put(g, t, e)
           f == Store!Insert(s, t, e, now)
<1>1. DOMAIN g \subseteq DOMAIN s /\ \A u \in DOMAIN g : g[u] = s[u]
  BY DEF Store!ReapExpired, Store!Keep
<1>2. DOMAIN p = DOMAIN g \cup {t} /\ p[t] = e /\ \A u \in DOMAIN g \ {t} : p[u] = g[u]
  BY DEF Store!Put
<1>3. DOMAIN f \subseteq DOMAIN p /\ \A u \in DOMAIN f : f[u] = p[u]
  BY DEF Store!Insert, Store!EvictToCap, Store!Keep
<1> HIDE DEF f, p, g
<1>4. DOMAIN f \subseteq DOMAIN hitl \cup {t} /\ (t \in DOMAIN f => f[t] = e)
  BY <1>1, <1>2, <1>3 DEF Shrinks
<1>5. ASSUME NEW u \in DOMAIN f \ {t}
      PROVE  /\ f[u].call = hitl[u].call /\ f[u].fp = hitl[u].fp
             /\ f[u].status = hitl[u].status /\ DOMAIN f[u] = DOMAIN hitl[u]
  <2>1. u \in DOMAIN s /\ f[u] = s[u]
    BY <1>1, <1>2, <1>3
  <2> QED BY <2>1 DEF Shrinks
<1> QED BY <1>4, <1>5 DEF f

LEMMA StartStep ==
    ASSUME GateInv, NEW r \in Reqs, NEW c \in Calls, StartPrompt(r, c)
    PROVE  Both
<1>0. PICK t \in Tokens : t = req[r].token
  <2>1. req[r].pc = "insert"
    BY DEF StartPrompt
  <2> QED BY <2>1 DEF GateInv, RequestsOK, RequestOK, Fresh
<1> DEFINE s == Store!ReapExpired(hitl, now)
           e == NewRecord(r, c)
           full == Store!Insert(s, t, e, now)
<1>1. /\ req[r].pc = "insert" /\ req' = [req EXCEPT ![r] = Idle]
      /\ ran' = ran /\ route' = route
  BY DEF StartPrompt, Return, Go, worldVars
<1>2. /\ t \in Tokens /\ verdict[t] = "unasked" /\ shown[t] = None
      /\ req[r].fp \in Defs
      /\ \A q \in Reqs : q # r => req[q].token # t
  BY <1>0, <1>1 DEF GateInv, RequestsOK, RequestOK, Fresh
<1>3. t \notin DOMAIN hitl
  BY <1>2 DEF GateInv, TableOK, RecordOK
<1>4. Shrinks(s)
  BY StoreShrinks
<1>5. /\ \/ hitl' = s /\ verdict' = [Lapsed(s) EXCEPT ![t] = "lapsed"] /\ shown' = shown
         \/ /\ hitl' = full /\ verdict' = [Lapsed(full) EXCEPT ![t] = "asked"]
            /\ shown' = [shown EXCEPT ![t] = <<c, req[r].fp>>]
  BY <1>0 DEF StartPrompt, TableBecomes
<1>6. /\ e.call = c /\ e.fp = req[r].fp /\ e.status = "awaiting" /\ "status" \in DOMAIN e
  BY DEF NewRecord
<1>7. <<c, req[r].fp>> \in Contents
  BY <1>2 DEF Contents, GateInv, HistOK
<1>8. /\ DOMAIN full \subseteq DOMAIN hitl \cup {t}
      /\ t \in DOMAIN full => full[t] = e
      /\ \A u \in DOMAIN full \ {t} : /\ full[u].call = hitl[u].call /\ full[u].fp = hitl[u].fp
                                      /\ full[u].status = hitl[u].status /\ DOMAIN full[u] = DOMAIN hitl[u]
  BY <1>3, <1>4, StoreInserts
<1> HIDE DEF s, e, full
<1>9. ASSUME NEW f, verdict' = [Lapsed(f) EXCEPT ![t] = "lapsed"]
             \/ verdict' = [Lapsed(f) EXCEPT ![t] = "asked"], hitl' = f
      PROVE  /\ verdict' \in [Tokens -> {"unasked", "asked", "yes", "no", "lapsed"}]
             /\ \A u \in Tokens \ {t} : /\ u \in DOMAIN f => verdict'[u] = verdict[u]
                                        /\ verdict[u] \in {"unasked", "yes"} => verdict'[u] = verdict[u]
                                        /\ verdict'[u] = "unasked" => verdict[u] = "unasked"
             /\ verdict'[t] # "unasked"
  BY <1>9, <1>2 DEF Lapsed, GateInv, HistOK
<1>10. /\ verdict' \in [Tokens -> {"unasked", "asked", "yes", "no", "lapsed"}]
       /\ \A u \in Tokens \ {t} : /\ u \in DOMAIN hitl' => verdict'[u] = verdict[u]
                                  /\ verdict[u] \in {"unasked", "yes"} => verdict'[u] = verdict[u]
                                  /\ verdict'[u] = "unasked" => verdict[u] = "unasked"
       /\ verdict'[t] # "unasked"
  BY <1>5, <1>9
<1>11. \A u \in Tokens \ {t} : shown'[u] = shown[u]
  BY <1>5 DEF GateInv, HistOK
<1>12. HistOK'
  <2>1. shown' \in [Tokens -> Contents \cup {None}]
    BY <1>5, <1>7 DEF GateInv, HistOK
  <2>2. ASSUME NEW u \in Tokens, verdict'[u] = "unasked" PROVE shown'[u] = None
    <3>1. u # t
      BY <1>10, <2>2
    <3>2. verdict[u] = "unasked" /\ shown'[u] = shown[u]
      BY <1>10, <1>11, <2>2, <3>1
    <3> QED BY <3>2 DEF GateInv, HistOK
  <2> QED BY <1>1, <1>10, <2>1, <2>2 DEF GateInv, HistOK
<1>13. TableOK'
  <2>1. ASSUME NEW u \in DOMAIN hitl', u # t PROVE u \in DOMAIN hitl /\ RecordOK(u)'
    <3>1. /\ u \in DOMAIN hitl /\ hitl'[u].call = hitl[u].call /\ hitl'[u].fp = hitl[u].fp
          /\ hitl'[u].status = hitl[u].status /\ DOMAIN hitl'[u] = DOMAIN hitl[u]
      BY <1>4, <1>5, <1>8, <2>1 DEF Shrinks
    <3>2. RecordOK(u) /\ u \in Tokens
      BY <3>1 DEF GateInv, TableOK
    <3>3. verdict'[u] = verdict[u] /\ shown'[u] = shown[u]
      BY <3>2, <2>1, <1>10, <1>11
    <3> QED BY <3>1, <3>2, <3>3, <1>1 DEF RecordOK
  <2>2. ASSUME t \in DOMAIN hitl' PROVE RecordOK(t)'
    <3>1. hitl' = full /\ verdict' = [Lapsed(full) EXCEPT ![t] = "asked"]
          /\ shown' = [shown EXCEPT ![t] = <<c, req[r].fp>>]
      BY <2>2, <1>3, <1>4, <1>5 DEF Shrinks
    <3>2. verdict'[t] = "asked" /\ shown'[t] = <<c, req[r].fp>>
      BY <3>1, <1>2 DEF Lapsed, GateInv, HistOK
    <3> QED BY <3>1, <3>2, <2>2, <1>1, <1>2, <1>6, <1>8 DEF RecordOK
  <2>3. ASSUME NEW u \in DOMAIN hitl' PROVE u \in Tokens /\ RecordOK(u)'
    BY <2>1, <2>2, <1>2 DEF GateInv, TableOK
  <2> QED BY <2>3 DEF TableOK
<1>14. RequestsOK'
  <2>1. Idle.pc \notin Fresh /\ Idle.token \in {None, req[r].token}
    BY IdleEntry DEF Fresh
  <2>2. /\ req' \in [Reqs -> Entry] /\ req'[r] = Idle /\ \A q \in Reqs : q # r => req'[q] = req[q]
        /\ \A p, q \in Reqs : req'[p].pc \in Fresh /\ p # q => req'[q].token # req'[p].token
    BY <1>1, <2>1, IdleEntry, OneMoves DEF GateInv
  <2>3. RequestOK(req[r])'
    BY <2>2, IdleEntry DEF RequestOK, Fresh, Passed
  <2>4. ASSUME NEW q \in Reqs, q # r PROVE RequestOK(req[q])'
    <3>1. RequestOK(req[q]) /\ req'[q] = req[q] /\ req[q].token # t
      BY <1>2, <2>2, <2>4 DEF GateInv, RequestsOK
    <3>2. req[q].pc \in Fresh \cup Passed =>
             /\ req[q].token \in Tokens
             /\ verdict'[req[q].token] = verdict[req[q].token]
             /\ shown'[req[q].token] = shown[req[q].token]
      <4>1. req[q].pc \in Fresh \cup Passed =>
               req[q].token \in Tokens \ {t} /\ verdict[req[q].token] \in {"unasked", "yes"}
        BY <3>1 DEF RequestOK, Fresh, Passed
      <4> QED BY <4>1, <1>10, <1>11
    <3> QED BY <3>1, <3>2, <1>1 DEF RequestOK, Fresh, Passed
  <2> QED BY <2>2, <2>3, <2>4 DEF RequestsOK, Fresh
<1>15. [Gate!Next]_GateVars
  <2>1. CASE hitl' = s /\ verdict' = [Lapsed(s) EXCEPT ![t] = "lapsed"] /\ shown' = shown
    <3> DEFINE P == {u \in Tokens : u = t \/ (u \in DOMAIN hitl \ DOMAIN s /\ verdict[u] = "asked")}
    <3>1. verdict' = [u \in Tokens |-> IF u \in P THEN "lapsed" ELSE verdict[u]]
      <4>1. /\ Lapsed(s) = [u \in Tokens |-> Lapsed(s)[u]]
            /\ \A u \in Tokens : u # t => Lapsed(s)[u] = IF u \in P THEN "lapsed" ELSE verdict[u]
        BY DEF Lapsed
      <4>2. t \in P
        BY <1>2
      <4> HIDE DEF P
      <4> QED BY <2>1, <4>1, <4>2
    <3>2. Gate!Lapse(P)
      BY <2>1, <3>1, <1>1, <1>2 DEF Gate!Lapse
    <3>3. P \in SUBSET Tokens
      OBVIOUS
    <3> QED BY <3>2, <3>3 DEF Gate!Next
  <2>2. CASE /\ hitl' = full /\ verdict' = [Lapsed(full) EXCEPT ![t] = "asked"]
             /\ shown' = [shown EXCEPT ![t] = <<c, req[r].fp>>]
    <3> DEFINE P == {u \in Tokens : u # t /\ u \in DOMAIN hitl \ DOMAIN full /\ verdict[u] = "asked"}
    <3>1. verdict' = [q \in Tokens |-> IF q = t THEN "asked"
                                      ELSE IF q \in P THEN "lapsed" ELSE verdict[q]]
      BY <2>2, <1>2 DEF Lapsed
    <3>2. Gate!Ask(t, P)
      BY <2>2, <3>1, <1>1, <1>2, <1>7 DEF Gate!Ask
    <3>3. P \in SUBSET Tokens
      OBVIOUS
    <3> QED BY <3>2, <3>3, <1>2 DEF Gate!Next
  <2> QED BY <1>5, <2>1, <2>2
<1> QED BY <1>12, <1>13, <1>14, <1>15 DEF GateInv, Both
\* A touched and an approved record keep what they are about.
LEMMA Touched ==
    \A e : LET f == [e EXCEPT !.seen = now]
               g == ApprovedRecord(e)
           IN  /\ f.call = e.call /\ f.fp = e.fp /\ f.status = e.status
               /\ DOMAIN f = DOMAIN e /\ DOMAIN g = DOMAIN e /\ f.seq = e.seq /\ g.seq = e.seq
               /\ g.call = e.call /\ g.fp = e.fp
               /\ "status" \in DOMAIN e => g.status = "approved"
BY DEF ApprovedRecord

LEMMA ApproveStep ==
    ASSUME GateInv, NEW r \in Reqs, NEW c \in Calls, NEW newly \in BOOLEAN, PollApproves(r, c, newly),
           req[r].pc = "poll", req[r].token \in DOMAIN hitl, SameCall(r, c),
           hitl[req[r].token].status = IF newly THEN "awaiting" ELSE "approved",
           UNCHANGED <<shown, ran, route>>
    PROVE  Both
<1>0. PICK t \in Tokens : t = req[r].token
  BY DEF GateInv, TableOK
<1>1. PICK e \in Entry : /\ req' = [req EXCEPT ![r] = e] /\ e.pc = "revalidate" /\ e.token = t
                         /\ e.call = c /\ e.fp = hitl[t].fp
  <2> DEFINE e == [req[r] EXCEPT !.pc = "revalidate", !.call = c, !.fp = hitl[t].fp, !.newly = newly]
  <2>1. req[r] \in Entry /\ hitl[t].fp \in Defs
    BY <1>0 DEF GateInv, RequestsOK, RequestOK, TableOK, RecordOK
  <2>2. /\ e \in Entry /\ e.pc = "revalidate" /\ e.token = req[r].token
        /\ e.call = c /\ e.fp = hitl[t].fp
    BY <2>1 DEF Entry
  <2>3. req' = [req EXCEPT ![r] = e]
    BY <1>0 DEF PollApproves, Go
  <2> QED BY <1>0, <2>1, <2>2, <2>3
<1>2. hitl' = [hitl EXCEPT ![t] = ApprovedRecord(hitl[t])]
  BY <1>0 DEF PollApproves, TableBecomes
<1>3. /\ RecordOK(t) /\ t \in DOMAIN hitl /\ hitl[t].call = c
      /\ verdict[t] = IF newly THEN "asked" ELSE "yes"
  BY <1>0 DEF GateInv, TableOK, RecordOK, SameCall
<1>4. verdict' = [verdict EXCEPT ![t] = "yes"]
  BY <1>0, <1>3 DEF PollApproves, GateInv, HistOK
<1>5. /\ ApprovedRecord(hitl[t]).call = hitl[t].call /\ ApprovedRecord(hitl[t]).fp = hitl[t].fp
      /\ ApprovedRecord(hitl[t]).status = "approved" /\ DOMAIN ApprovedRecord(hitl[t]) = DOMAIN hitl[t]
  BY <1>3, Touched DEF RecordOK
<1>6. HistOK'
  BY <1>4 DEF GateInv, HistOK
<1>7. \A u \in Tokens : verdict'[u] = IF u = t THEN "yes" ELSE verdict[u]
  BY <1>4 DEF GateInv, HistOK
<1>8. TableOK'
  <2>1. ASSUME NEW u \in DOMAIN hitl PROVE RecordOK(u)'
    <3>1. RecordOK(u) /\ u \in Tokens
      BY DEF GateInv, TableOK
    <3>2. CASE u = t
      BY <3>1, <3>2, <1>2, <1>3, <1>5, <1>7 DEF RecordOK
    <3>3. CASE u # t
      <4>1. hitl'[u] = hitl[u] /\ verdict'[u] = verdict[u]
        BY <3>1, <3>3, <1>2, <1>7
      <4> QED BY <3>1, <4>1 DEF RecordOK
    <3> QED BY <3>2, <3>3
  <2>2. DOMAIN hitl' = DOMAIN hitl
    BY <1>2
  <2> QED BY <2>1, <2>2 DEF TableOK, GateInv
<1>9. RequestsOK'
  <2>1. /\ req' \in [Reqs -> Entry] /\ req'[r] = e /\ \A q \in Reqs : q # r => req'[q] = req[q]
        /\ \A p, q \in Reqs : req'[p].pc \in Fresh /\ p # q => req'[q].token # req'[p].token
    BY <1>0, <1>1, OneMoves DEF GateInv, Fresh
  <2>2. RequestOK(req[r])'
    BY <2>1, <1>1, <1>3, <1>7 DEF RequestOK, RecordOK, Fresh, Passed
  <2>3. \A u \in Tokens : verdict[u] \in {"unasked", "yes"} => verdict'[u] = verdict[u]
    BY <1>3, <1>7
  <2>4. \A q \in Reqs : q # r => RequestOK(req[q])'
    BY <2>1, <2>3, OthersStay DEF GateInv
  <2> QED BY <2>1, <2>2, <2>4 DEF RequestsOK, Fresh
<1>10. [Gate!Next]_GateVars
  <2>1. CASE newly
    <3>1. Gate!Answer(t)
      BY <2>1, <1>3, <1>4 DEF Gate!Answer
    <3> QED BY <3>1 DEF Gate!Next
  <2>2. CASE ~newly
    <3>1. verdict' = verdict
      BY <2>2, <1>3, <1>4 DEF GateInv, HistOK
    <3> QED BY <3>1 DEF GateVars
  <2> QED BY <2>1, <2>2
<1> QED BY <1>6, <1>8, <1>9, <1>10 DEF GateInv, Both
LEMMA PollStep ==
    ASSUME GateInv, NEW r \in Reqs, NEW c \in Calls, NEW a \in Answers, Poll(r, c, a)
    PROVE  Both
<1>0. req[r].pc = "poll" /\ UNCHANGED <<shown, ran, route>>
  BY DEF Poll, worldVars, histVars
<1>1. PICK t \in Tokens : t = req[r].token
  BY <1>0 DEF GateInv, RequestsOK, RequestOK
<1> DEFINE Found == Store!Live(hitl, t, now)
           Awaiting == Found /\ SameCall(r, c) /\ hitl[t].status = "awaiting"
<1>2. Found => t \in DOMAIN hitl /\ RecordOK(t)
  BY DEF Store!Live, GateInv, TableOK
<1>3. Idle.pc \notin Fresh \cup Passed \cup {"poll"}
  BY IdleEntry DEF Fresh, Passed
<1>4. \/ ~Found /\ PollMisses(r)
      \/ \E row \in {"stale_state", "no_response"} : PollEnds(r, row)
      \/ Awaiting /\ PollEnds(r, "denied")
      \/ Awaiting /\ PollApproves(r, c, TRUE)
      \/ Found /\ hitl' = [hitl EXCEPT ![t].seen = now] /\ verdict' = verdict /\ Return(r)
      \/ Found /\ SameCall(r, c) /\ ~Awaiting /\ PollApproves(r, c, FALSE)
  BY <1>1 DEF Poll, TableBecomes
<1>5. CASE ~Found /\ PollMisses(r)
  <2> DEFINE e == At("missing", t, None, None)
  <2>1. /\ hitl' = Store!Touch(hitl, t, now) /\ verdict' = Lapsed(Store!Touch(hitl, t, now))
        /\ req' = [req EXCEPT ![r] = e]
    BY <1>1, <1>5 DEF PollMisses, TableBecomes, Go
  <2>2. e \in Entry /\ e.pc = "missing" /\ e.token = t
    BY DEF At, Entry
  <2>3. Shrinks(Store!Touch(hitl, t, now))
    BY StoreShrinks
  <2> HIDE DEF e
  <2> QED BY <1>0, <1>1, <2>1, <2>2, <2>3, ReturnStep DEF Both, Fresh, Passed
<1>6. ASSUME NEW row \in {"stale_state", "no_response"}, PollEnds(r, row) PROVE Both
  <2>1. /\ hitl' = Store!Remove(hitl, t) /\ verdict' = Lapsed(Store!Remove(hitl, t))
        /\ req' = [req EXCEPT ![r] = Idle]
    BY <1>1, <1>6 DEF PollEnds, TableBecomes, Return, Go
  <2>2. Shrinks(Store!Remove(hitl, t))
    BY StoreShrinks
  <2> QED BY <1>0, <1>3, <2>1, <2>2, IdleEntry, ReturnStep DEF Both
<1>7. CASE Awaiting /\ PollEnds(r, "denied")
  <2>1. /\ hitl' = Store!Remove(hitl, t) /\ verdict' = [verdict EXCEPT ![t] = "no"]
        /\ req' = [req EXCEPT ![r] = Idle]
    BY <1>1, <1>7 DEF PollEnds, TableBecomes, Return, Go
  <2>2. verdict[t] = "asked"
    BY <1>2, <1>7 DEF RecordOK
  <2>3. \A u \in Tokens : verdict'[u] = IF u = t THEN "no" ELSE verdict[u]
    BY <2>1 DEF GateInv, HistOK
  <2>4. HistOK'
    BY <1>0, <2>1, <2>2, <2>3 DEF GateInv, HistOK
  <2>5. DOMAIN hitl' = DOMAIN hitl \ {t} /\ \A u \in DOMAIN hitl' : hitl'[u] = hitl[u]
    BY <2>1 DEF Store!Remove, Store!Keep
  <2>6. TableOK'
    <3>1. ASSUME NEW u \in DOMAIN hitl' PROVE u \in Tokens /\ RecordOK(u)'
      <4>1. RecordOK(u) /\ u \in Tokens /\ u # t
        BY <2>5 DEF GateInv, TableOK
      <4>2. hitl'[u] = hitl[u] /\ verdict'[u] = verdict[u]
        BY <2>3, <2>5, <4>1
      <4> QED BY <4>1, <4>2, <1>0 DEF RecordOK
    <3> QED BY <3>1 DEF TableOK
  <2>7. /\ req' \in [Reqs -> Entry] /\ req'[r] = Idle /\ \A q \in Reqs : q # r => req'[q] = req[q]
        /\ \A p, q \in Reqs : req'[p].pc \in Fresh /\ p # q => req'[q].token # req'[p].token
    BY <1>3, <2>1, IdleEntry, OneMoves DEF GateInv
  <2>8. \A u \in Tokens : verdict[u] \in {"unasked", "yes"} => verdict'[u] = verdict[u]
    BY <2>2, <2>3
  <2>9. \A q \in Reqs : q # r => RequestOK(req[q])'
    BY <1>0, <2>7, <2>8, OthersStay DEF GateInv
  <2>10. RequestOK(req[r])'
    BY <2>7, IdleEntry DEF RequestOK, Fresh, Passed
  <2>11. RequestsOK'
    BY <2>7, <2>9, <2>10 DEF RequestsOK, Fresh
  <2>12. Gate!Answer(t)
    BY <1>0, <2>1, <2>2 DEF Gate!Answer
  <2> QED BY <2>4, <2>6, <2>11, <2>12 DEF Both, GateInv, Gate!Next
<1>8. CASE Awaiting /\ PollApproves(r, c, TRUE)
  <2>1. t \in DOMAIN hitl /\ SameCall(r, c) /\ hitl[t].status = "awaiting"
    BY <1>2, <1>8
  <2> QED BY <1>0, <1>1, <1>8, <2>1, ApproveStep
<1>9. CASE Found /\ hitl' = [hitl EXCEPT ![t].seen = now] /\ verdict' = verdict /\ Return(r)
  <2> DEFINE s == [hitl EXCEPT ![t].seen = now]
  <2>1. Shrinks(s)
    <3>1. Store!Touch(hitl, t, now) = s
      BY <1>9 DEF Store!Touch
    <3> QED BY <3>1, StoreShrinks
  <2>2. verdict' = Lapsed(s)
    <3>1. DOMAIN s = DOMAIN hitl
      OBVIOUS
    <3> HIDE DEF s
    <3> QED BY <3>1, <1>9, NoLapse DEF GateInv
  <2>3. hitl' = s /\ req' = [req EXCEPT ![r] = Idle]
    BY <1>9 DEF Return, Go
  <2> HIDE DEF s
  <2> QED BY <1>0, <1>3, <2>1, <2>2, <2>3, IdleEntry, ReturnStep DEF Both
<1>10. CASE Found /\ SameCall(r, c) /\ ~Awaiting /\ PollApproves(r, c, FALSE)
  <2>1. t \in DOMAIN hitl /\ SameCall(r, c) /\ hitl[t].status = "approved"
    BY <1>2, <1>10 DEF RecordOK
  <2> QED BY <1>0, <1>1, <1>10, <2>1, ApproveStep
<1> HIDE DEF Found, Awaiting
<1> QED BY <1>4, <1>5, <1>6, <1>7, <1>8, <1>9, <1>10
LEMMA GiveUpStep ==
    ASSUME GateInv, NEW r \in Reqs, RefuseMissing(r) \/ Forget(r) \/ ForgetCheck(r) \/ ForgetDrop(r)
    PROVE  Both
<1>0. UNCHANGED <<shown, ran, route>> /\ req[r].pc \in {"missing", "forget", "check", "drop"}
  BY DEF RefuseMissing, Forget, ForgetCheck, ForgetDrop, worldVars, histVars
<1>1. PICK t \in Tokens : t = req[r].token
  BY <1>0 DEF GateInv, RequestsOK, RequestOK
<1>2. req[r] \in Entry
  BY DEF GateInv, RequestsOK
<1>3. CASE RefuseMissing(r)
  <2>1. UNCHANGED <<hitl, verdict>> /\ Return(r)
    BY <1>3 DEF RefuseMissing, TableBecomes
  <2> QED BY <1>0, <2>1, ReturnsPlain DEF Both
<1>4. CASE Forget(r)
  <2> DEFINE s == Store!Touch(hitl, t, now)
             f == IF t \in DOMAIN s THEN [s EXCEPT ![t].audit = FALSE] ELSE s
             e == [req[r] EXCEPT !.pc = "check"]
  <2>1. hitl' = f /\ verdict' = Lapsed(s) /\ req' = [req EXCEPT ![r] = e]
    BY <1>1, <1>4 DEF Forget, TableBecomes, Go
  <2>2. e \in Entry /\ e.pc = "check" /\ e.token = t
    BY <1>1, <1>2 DEF Entry
  <2>3. Shrinks(s)
    BY StoreShrinks
  <2>4. DOMAIN f = DOMAIN s /\ Shrinks(f)
    <3>1. \A g : LET h == [g EXCEPT !.audit = FALSE]
                 IN  /\ h.call = g.call /\ h.fp = g.fp /\ h.status = g.status
                     /\ DOMAIN h = DOMAIN g /\ h.seq = g.seq
      OBVIOUS
    <3>2. CASE t \in DOMAIN s
      <4> DEFINE h == [s[t] EXCEPT !.audit = FALSE]
      <4>1. f = [s EXCEPT ![t] = h]
        BY <3>2
      <4>2. /\ h.call = s[t].call /\ h.fp = s[t].fp /\ h.status = s[t].status
            /\ DOMAIN h = DOMAIN s[t] /\ h.seq = s[t].seq
        BY <3>1
      <4> HIDE DEF h, f, s
      <4>3. DOMAIN f = DOMAIN s /\ \A u \in DOMAIN s : f[u] = IF u = t THEN h ELSE s[u]
        BY <4>1
      <4> QED BY <4>2, <4>3, <2>3 DEF Shrinks
    <3>3. CASE t \notin DOMAIN s
      BY <2>3, <3>3
    <3> QED BY <3>2, <3>3
  <2>5. Lapsed(f) = Lapsed(s)
    BY <2>4 DEF Lapsed
  <2> HIDE DEF f, s, e
  <2>6. e.pc \notin Fresh \cup Passed \cup {"poll"}
    BY <2>2 DEF Fresh, Passed
  <2> QED BY <1>0, <1>1, <2>1, <2>2, <2>4, <2>5, <2>6, ReturnStep DEF Both
<1>5. CASE ForgetCheck(r)
  <2> DEFINE e == [req[r] EXCEPT !.pc = "drop", !.newly = ~IsTerminal(req[r].token)]
  <2>1. UNCHANGED <<hitl, verdict>> /\ req' = [req EXCEPT ![r] = e]
    BY <1>5 DEF ForgetCheck, Go, tableVars
  <2>2. e \in Entry /\ e.pc = "drop" /\ e.token = t
    <3>1. (~IsTerminal(req[r].token)) \in BOOLEAN
      BY DEF IsTerminal
    <3> QED BY <3>1, <1>1, <1>2 DEF Entry
  <2> HIDE DEF e
  <2>3. e.pc \notin Fresh \cup Passed \cup {"poll"}
    BY <2>2 DEF Fresh, Passed
  <2> QED BY <1>0, <1>1, <2>1, <2>2, <2>3, PlainReturn DEF Both
<1>6. CASE ForgetDrop(r)
  BY <1>0, <1>6, FinishReturns DEF ForgetDrop, Both
<1> QED BY <1>3, <1>4, <1>5, <1>6

LEMMA ReqMovesOn ==
    ASSUME GateInv, NEW r \in Reqs, NEW e \in Entry, NEW pc \in Passed,
           req[r].pc \in Passed, e.pc = pc, e.token = req[r].token, e.call = req[r].call,
           e.fp = req[r].fp,
           req' = [req EXCEPT ![r] = e], UNCHANGED <<hitl, verdict, shown, route>>
    PROVE  GateInv'
<1>1. HistOK' /\ TableOK'
  BY DEF GateInv, HistOK, TableOK, RecordOK
<1>2. e.pc \notin Fresh /\ req[r].pc \notin Fresh /\ req[r].pc # "idle"
  BY DEF Fresh, Passed
<1>3. /\ req' \in [Reqs -> Entry] /\ req'[r] = e /\ \A q \in Reqs : q # r => req'[q] = req[q]
      /\ \A p, q \in Reqs : req'[p].pc \in Fresh /\ p # q => req'[q].token # req'[p].token
  BY <1>2, OneMoves DEF GateInv
<1>4. RequestOK(req[r])'
  <2>1. RequestOK(req[r])
    BY DEF GateInv, RequestsOK
  <2> QED BY <1>2, <1>3, <2>1 DEF RequestOK, Fresh, Passed
<1>5. \A q \in Reqs : q # r => RequestOK(req[q])'
  BY <1>3, OthersStay DEF GateInv
<1>6. RequestsOK'
  BY <1>3, <1>4, <1>5 DEF RequestsOK, Fresh
<1> QED BY <1>1, <1>6 DEF GateInv

LEMMA RunStep ==
    ASSUME GateInv, NEW r \in Reqs, Revalidate(r) \/ Dispatch(r) \/ Complete(r)
    PROVE  Both
<1>0. UNCHANGED <<shown, route>> /\ req[r].pc \in Passed
  BY DEF Revalidate, Dispatch, Complete, worldVars, histVars, Passed
<1>1. /\ req[r] \in Entry /\ req[r].token \in Tokens /\ verdict[req[r].token] = "yes"
      /\ shown[req[r].token] = <<req[r].call, req[r].fp>>
  BY <1>0 DEF GateInv, RequestsOK, RequestOK, Passed
<1>2. CASE Revalidate(r)
  <2>1. ran' = ran
    BY <1>2 DEF Revalidate, histVars
  <2>2. CASE ~StillValid(r)
    BY <1>0, <1>2, <2>1, <2>2, FinishReturns DEF Revalidate, Both
  <2>3. CASE StillValid(r)
    <3> DEFINE e == [req[r] EXCEPT !.pc = "dispatch", !.newly = FALSE,
                                   !.fp = route.def, !.owner = route.owner]
    <3>1. UNCHANGED <<hitl, verdict>> /\ req' = [req EXCEPT ![r] = e]
      BY <1>2, <2>3 DEF Revalidate, TableBecomes, Go
    <3>2. /\ e \in Entry /\ e.pc = "dispatch" /\ e.token = req[r].token /\ e.call = req[r].call
          /\ e.fp = req[r].fp /\ e.owner = req[r].owner
      BY <1>1, <2>3 DEF Entry, StillValid
    <3> HIDE DEF e
    <3>3. GateInv'
      BY <1>0, <3>1, <3>2, ReqMovesOn DEF Passed
    <3> QED BY <1>0, <2>1, <3>1, <3>3 DEF Both, GateVars
  <2> QED BY <2>2, <2>3
<1>3. CASE Dispatch(r)
  <2>1. CASE Return(r) /\ UNCHANGED <<tableVars, verdict, ran>>
    BY <1>0, <2>1, ReturnsPlain DEF Both, tableVars
  <2>2. CASE Finish(req[r].token, None) /\ Return(r) /\ UNCHANGED ran
    BY <1>0, <2>2, FinishReturns DEF Both
  <2>3. CASE /\ ran' = ran \cup {<<req[r].token, <<req[r].call, req[r].fp>>>>}
             /\ Go(r, [req[r] EXCEPT !.pc = "running"])
             /\ UNCHANGED <<tableVars, verdict>>
    <3> DEFINE e == [req[r] EXCEPT !.pc = "running"]
    <3>1. UNCHANGED <<hitl, verdict>> /\ req' = [req EXCEPT ![r] = e]
      BY <2>3 DEF Go, tableVars
    <3>2. /\ e \in Entry /\ e.pc = "running" /\ e.token = req[r].token /\ e.call = req[r].call
          /\ e.fp = req[r].fp /\ e.owner = req[r].owner
      BY <1>1 DEF Entry
    <3> HIDE DEF e
    <3>3. GateInv'
      BY <1>0, <3>1, <3>2, ReqMovesOn DEF Passed
    <3>4. Gate!Execute(req[r].token)
      BY <1>0, <1>1, <2>3, <3>1 DEF Gate!Execute
    <3> QED BY <1>1, <3>3, <3>4 DEF Both, Gate!Next
  <2> QED BY <1>3, <2>1, <2>2, <2>3 DEF Dispatch
<1>4. CASE Complete(r)
  <2> DEFINE t == req[r].token
             s == Store!Touch(hitl, t, now)
  <2>1. ran' = ran /\ Return(r)
    BY <1>4 DEF Complete
  <2>2. CASE Finish(t, None)
    BY <1>0, <2>1, <2>2, FinishReturns DEF Both
  <2>3. CASE hitl' = s /\ verdict' = Lapsed(s)
    <3>1. Shrinks(s)
      BY StoreShrinks
    <3>2. Idle.pc \notin Fresh \cup Passed \cup {"poll"}
      BY IdleEntry DEF Fresh, Passed
    <3>3. req' = [req EXCEPT ![r] = Idle]
      BY <2>1 DEF Return, Go
    <3> HIDE DEF s
    <3> QED BY <1>0, <2>1, <2>3, <3>1, <3>2, <3>3, IdleEntry, ReturnStep DEF Both
  <2>4. CASE UNCHANGED <<tableVars, verdict>>
    BY <1>0, <2>1, <2>4, ReturnsPlain DEF Both, tableVars
  <2> QED BY <1>4, <2>2, <2>3, <2>4 DEF Complete, TableBecomes
<1> QED BY <1>2, <1>3, <1>4

LEMMA WorldStep ==
    ASSUME GateInv,
           \/ \E t \in Tokens : Cancel(t) \/ FireHook(t)
           \/ \E sc \in Scopes : ClearScope(sc)
           \/ Tick \/ ChangeRoute \/ ChangeGate \/ UNCHANGED vars
    PROVE  Both
<1>1. ASSUME UNCHANGED <<hitl, verdict, shown, ran, req, route>> PROVE Both
  <2>1. Lapsed(hitl) = verdict
    BY NoLapse DEF GateInv
  <2>2. Shrinks(hitl)
    BY StoreShrinks
  <2> QED BY <1>1, <2>1, <2>2, TableStep DEF Both
<1>2. ASSUME NEW t \in Tokens, Cancel(t) PROVE Both
  BY <1>1, <1>2 DEF Cancel, tableVars, histVars
<1>3. ASSUME NEW t \in Tokens, FireHook(t) PROVE Both
  <2>1. /\ hitl' = Store!Remove(hitl, t) /\ verdict' = Lapsed(Store!Remove(hitl, t))
        /\ UNCHANGED <<shown, ran, route, req>>
    BY <1>3 DEF FireHook, Finish, TableBecomes, worldVars, histVars
  <2>2. Shrinks(Store!Remove(hitl, t))
    BY StoreShrinks
  <2> QED BY <2>1, <2>2, TableStep DEF Both
<1>4. ASSUME NEW sc \in Scopes, ClearScope(sc) PROVE Both
  <2> DEFINE s == Store!Keep(hitl, {t \in DOMAIN hitl : hitl[t].call[1] # sc})
  <2>1. /\ hitl' = s /\ verdict' = Lapsed(s) /\ UNCHANGED <<shown, ran, route, req>>
    BY <1>4 DEF ClearScope, TableBecomes, histVars
  <2>2. Shrinks(s)
    BY StoreShrinks
  <2> HIDE DEF s
  <2> QED BY <2>1, <2>2, TableStep DEF Both
<1>5. CASE Tick
  BY <1>1, <1>5 DEF Tick, tableVars, histVars
<1>6. CASE ChangeRoute
  <2>1. /\ UNCHANGED <<hitl, verdict, shown, ran, req>>
        /\ route' \in [owner : Owners, def : Defs \cup {None}]
    BY <1>6 DEF ChangeRoute, tableVars, histVars
  <2>2. HistOK' /\ TableOK'
    BY <2>1 DEF GateInv, HistOK, TableOK, RecordOK
  <2>3. \A q \in Reqs : RequestOK(req[q])'
    BY <2>1, OthersStay DEF GateInv
  <2>4. RequestsOK'
    BY <2>1, <2>3 DEF GateInv, RequestsOK, Fresh
  <2> QED BY <2>1, <2>2, <2>4 DEF Both, GateInv, GateVars
<1>7. CASE ChangeGate
  BY <1>1, <1>7 DEF ChangeGate, tableVars, histVars
<1>8. CASE UNCHANGED vars
  BY <1>1, <1>8 DEF vars, tableVars, histVars, worldVars
<1> QED BY <1>2, <1>3, <1>4, <1>5, <1>6, <1>7, <1>8

\* Records and requests agree with what was shown and answered, in every
\* reachable state and for any number of tokens, requests and sessions.
THEOREM GateInvariant == Spec => []GateInv
<1>1. Init => GateInv
  BY IdleEntry, NoneAssumption DEF Init, GateInv, HistOK, TableOK, RequestsOK, RequestOK, Fresh, Passed
<1>2. GateInv /\ [Next]_vars => Both
  BY FreshStep, ResumeStep, HookStep, StartStep, PollStep, GiveUpStep, RunStep, WorldStep
  DEF Next, ReqStep
<1> QED BY <1>1, <1>2, PTL DEF Spec, Both

-----------------------------------------------------------------------------
(* What a new prompt costs, and what a cancellation leaves behind.         *)

\* Only start_modern_hitl adds a record; every other step takes some away or
\* touches them.
OnlyLoses == /\ DOMAIN hitl' \subseteq DOMAIN hitl
             /\ \A t \in DOMAIN hitl' : hitl'[t].seq = hitl[t].seq
             /\ nextSeq' = nextSeq

LEMMA Losing ==
    ASSUME NEW s, Shrinks(s), hitl' = s, nextSeq' = nextSeq
    PROVE  OnlyLoses
BY DEF Shrinks, OnlyLoses

LEMMA PollLoses ==
    ASSUME NEW r \in Reqs, NEW c \in Calls, NEW a \in Answers, Poll(r, c, a)
    PROVE  OnlyLoses
<1> DEFINE t == req[r].token
<1>1. /\ nextSeq' = nextSeq
      /\ \/ hitl' = Store!Touch(hitl, t, now) \/ hitl' = Store!Remove(hitl, t)
         \/ hitl' = [hitl EXCEPT ![t] = ApprovedRecord(@)]
         \/ Store!Live(hitl, t, now) /\ hitl' = [hitl EXCEPT ![t].seen = now]
  BY DEF Poll, PollMisses, PollEnds, PollApproves, TableBecomes
<1>2. CASE hitl' = Store!Touch(hitl, t, now) \/ hitl' = Store!Remove(hitl, t)
  BY <1>1, <1>2, StoreShrinks, Losing
<1>3. CASE hitl' = [hitl EXCEPT ![t] = ApprovedRecord(@)]
  <2>1. ApprovedRecord(hitl[t]).seq = hitl[t].seq
    BY Touched
  <2> QED BY <1>1, <1>3, <2>1 DEF OnlyLoses
<1>4. CASE Store!Live(hitl, t, now) /\ hitl' = [hitl EXCEPT ![t].seen = now]
  <2>1. hitl' = Store!Touch(hitl, t, now)
    BY <1>4 DEF Store!Touch
  <2> QED BY <2>1, <1>2
<1> QED BY <1>1, <1>2, <1>3, <1>4

LEMMA OthersLose ==
    ASSUME [Next]_vars, ~\E r \in Reqs, c \in Calls : StartPrompt(r, c)
    PROVE  OnlyLoses
<1>1. ASSUME UNCHANGED <<hitl, nextSeq>> PROVE OnlyLoses
  BY <1>1 DEF OnlyLoses
<1>2. ASSUME NEW t, NEW row, Finish(t, row) PROVE OnlyLoses
  BY <1>2, StoreShrinks, Losing DEF Finish, TableBecomes
<1>3. ASSUME NEW r \in Reqs, ReqStep(r) PROVE OnlyLoses
  <2>1. CASE RegisterHook(r) \/ RefuseMissing(r) \/ ForgetCheck(r)
    BY <1>1, <2>1 DEF RegisterHook, RefuseMissing, ForgetCheck, TableBecomes, tableVars
  <2>2. CASE Forget(r)
    <3> DEFINE t == req[r].token
               s == Store!Touch(hitl, t, now)
    <3>1. /\ hitl' = IF t \in DOMAIN s THEN [s EXCEPT ![t].audit = FALSE] ELSE s
          /\ nextSeq' = nextSeq
      BY <2>2 DEF Forget, TableBecomes
    <3>2. Shrinks(s)
      BY StoreShrinks
    <3>3. CASE t \in DOMAIN s
      <4> DEFINE h == [s[t] EXCEPT !.audit = FALSE]
      <4>1. hitl' = [s EXCEPT ![t] = h]
        BY <3>1, <3>3
      <4>2. h.seq = s[t].seq
        OBVIOUS
      <4> HIDE DEF h, s
      <4> QED BY <3>1, <3>2, <4>1, <4>2 DEF Shrinks, OnlyLoses
    <3>4. CASE t \notin DOMAIN s
      BY <3>1, <3>2, <3>4, Losing
    <3> QED BY <3>3, <3>4
  <2>3. CASE ForgetDrop(r)
    BY <1>2, <2>3 DEF ForgetDrop
  <2>4. CASE Revalidate(r) \/ Dispatch(r)
    BY <1>1, <1>2, <2>4 DEF Revalidate, Dispatch, TableBecomes, tableVars
  <2>5. CASE Complete(r)
    <3>1. CASE hitl' = Store!Touch(hitl, req[r].token, now) /\ nextSeq' = nextSeq
      BY <3>1, StoreShrinks, Losing
    <3> QED BY <1>1, <1>2, <2>5, <3>1 DEF Complete, TableBecomes, tableVars
  <2> QED BY <1>3, <2>1, <2>2, <2>3, <2>4, <2>5, PollLoses DEF ReqStep
<1>4. ASSUME NEW r \in Reqs, NEW t \in Tokens, SendFresh(r, t) \/ SendResume(r, t) PROVE OnlyLoses
  BY <1>1, <1>4 DEF SendFresh, SendResume, tableVars
<1>5. ASSUME NEW t \in Tokens, Cancel(t) \/ FireHook(t) PROVE OnlyLoses
  BY <1>1, <1>2, <1>5 DEF Cancel, FireHook, tableVars
<1>6. ASSUME NEW sc \in Scopes, ClearScope(sc) PROVE OnlyLoses
  BY <1>6, StoreShrinks, Losing DEF ClearScope, TableBecomes
<1>7. CASE Tick \/ ChangeRoute \/ ChangeGate \/ UNCHANGED vars
  BY <1>1, <1>7 DEF Tick, ChangeRoute, ChangeGate, vars, tableVars
<1> QED BY <1>3, <1>4, <1>5, <1>6, <1>7 DEF Next

\* Approvals on which a call came to a result were a yes and have no record.
FinishedOK == \A t \in finished : t \in Tokens /\ t \notin DOMAIN hitl /\ verdict[t] = "yes"

\* A record appears for a prompt nobody was asked about yet.
LEMMA RecordsAppear ==
    ASSUME GateInv, [Next]_vars
    PROVE  \A t \in DOMAIN hitl' \ DOMAIN hitl : verdict[t] = "unasked"
<1>1. ASSUME NEW r \in Reqs, NEW c \in Calls, StartPrompt(r, c)
      PROVE  \A t \in DOMAIN hitl' \ DOMAIN hitl : verdict[t] = "unasked"
  <2> DEFINE s == Store!ReapExpired(hitl, now)
             full == Store!Insert(s, req[r].token, NewRecord(r, c), now)
  <2>1. req[r].pc = "insert" /\ (hitl' = s \/ hitl' = full)
    BY <1>1 DEF StartPrompt, TableBecomes
  <2>2. verdict[req[r].token] = "unasked"
    BY <2>1 DEF GateInv, RequestsOK, RequestOK, Fresh
  <2>3. DOMAIN s \subseteq DOMAIN hitl /\ DOMAIN full \subseteq DOMAIN s \cup {req[r].token}
    BY DEF Store!Insert, Store!ReapExpired, Store!EvictToCap, Store!Keep, Store!Put
  <2> HIDE DEF s, full
  <2> QED BY <2>1, <2>2, <2>3
<1>2. CASE ~\E r \in Reqs, c \in Calls : StartPrompt(r, c)
  BY <1>2, OthersLose DEF OnlyLoses
<1> QED BY <1>1, <1>2

\* Only the end of a call on an approval spends it.
LEMMA Spending ==
    ASSUME GateInv, [Next]_vars
    PROVE  \A t \in finished' \ finished : t \in Tokens /\ t \notin DOMAIN hitl' /\ verdict[t] = "yes"
<1>1. ASSUME NEW r \in Reqs, Complete(r)
      PROVE  \A t \in finished' \ finished : t \in Tokens /\ t \notin DOMAIN hitl' /\ verdict[t] = "yes"
  <2>1. req[r].token \in Tokens /\ verdict[req[r].token] = "yes"
    BY <1>1 DEF Complete, GateInv, RequestsOK, RequestOK, Passed
  <2>2. \/ finished' = finished
        \/ finished' = finished \cup {req[r].token} /\ hitl' = Store!Remove(hitl, req[r].token)
    BY <1>1 DEF Complete, Finish, TableBecomes
  <2>3. req[r].token \notin DOMAIN Store!Remove(hitl, req[r].token)
    BY DEF Store!Remove, Store!Keep
  <2> QED BY <2>1, <2>2, <2>3
<1>2. ASSUME NEW r \in Reqs, ReqStep(r), ~Complete(r) PROVE finished' = finished
  BY <1>2 DEF ReqStep, RegisterHook, StartPrompt, Poll, RefuseMissing, Forget, ForgetCheck,
     ForgetDrop, Revalidate, Dispatch, histVars
<1>3. ASSUME \/ \E r \in Reqs, t \in Tokens : SendFresh(r, t) \/ SendResume(r, t)
             \/ \E t \in Tokens : Cancel(t) \/ FireHook(t)
             \/ \E sc \in Scopes : ClearScope(sc)
             \/ Tick \/ ChangeRoute \/ ChangeGate \/ UNCHANGED vars
      PROVE  finished' = finished
  BY <1>3 DEF SendFresh, SendResume, Cancel, FireHook, ClearScope, Tick, ChangeRoute, ChangeGate,
     vars, histVars
<1> QED BY <1>1, <1>2, <1>3 DEF Next

\* A request gets past the gate only on a record.
LEMMA PassedOnRecord ==
    ASSUME GateInv, [Next]_vars, NEW r \in Reqs, req[r].pc = "poll", req'[r].pc = "revalidate"
    PROVE  req[r].token \in DOMAIN hitl
<1>1. req \in [Reqs -> Entry] /\ req'[r] # req[r]
  BY DEF GateInv, RequestsOK
<1>2. ASSUME NEW q \in Reqs, NEW e, Go(q, e) PROVE q = r /\ req'[r] = e
  BY <1>1, <1>2 DEF Go
<1>3. ASSUME NEW q \in Reqs, Return(q) PROVE FALSE
  BY <1>2, <1>3, IdleEntry DEF Return
<1>4. ASSUME NEW q \in Reqs, NEW t \in Tokens, SendFresh(q, t) \/ SendResume(q, t) PROVE FALSE
  BY <1>2, <1>4 DEF SendFresh, SendResume
<1>5. ASSUME NEW q \in Reqs, NEW c \in Calls, NEW a \in Answers, Poll(q, c, a)
      PROVE  req[r].token \in DOMAIN hitl
  <2>1. CASE PollMisses(q)
    BY <1>2, <2>1 DEF PollMisses, At
  <2>2. CASE ~PollMisses(q)
    <3>1. Store!Live(hitl, req[q].token, now)
      BY <1>5, <2>2 DEF Poll
    <3>2. q = r
      BY <1>2, <1>3, <1>5, <2>2 DEF Poll, PollEnds, PollApproves
    <3> QED BY <3>1, <3>2 DEF Store!Live
  <2> QED BY <2>1, <2>2
<1>6. ASSUME NEW q \in Reqs, ReqStep(q), ~\E c \in Calls, a \in Answers : Poll(q, c, a) PROVE FALSE
  <2>1. ASSUME NEW e, Go(q, e) PROVE q = r
    BY <1>2, <2>1
  <2>2. req[q].pc # "poll"
    BY <1>6 DEF ReqStep, RegisterHook, StartPrompt, RefuseMissing, Forget, ForgetCheck, ForgetDrop,
       Revalidate, Dispatch, Complete
  <2>3. \E e : Go(q, e)
    BY <1>6 DEF ReqStep, RegisterHook, StartPrompt, RefuseMissing, Forget, ForgetCheck, ForgetDrop,
       Revalidate, Dispatch, Complete, Return
  <2> QED BY <2>1, <2>2, <2>3
<1>7. ASSUME \/ \E t \in Tokens : Cancel(t) \/ FireHook(t)
             \/ \E sc \in Scopes : ClearScope(sc)
             \/ Tick \/ ChangeRoute \/ ChangeGate \/ UNCHANGED vars
      PROVE  FALSE
  BY <1>1, <1>7 DEF Cancel, FireHook, ClearScope, Tick, ChangeRoute, ChangeGate, vars
<1> QED BY <1>4, <1>5, <1>6, <1>7 DEF Next

\* The re-entrant path implements the abstract gate, whatever becomes of the
\* router: only a yes, given once to what was shown, lets a call run, and it runs
\* as shown; and an approval on which a call came to a result lets no further
\* request past (execute_call, start_modern_hitl, poll_modern_hitl,
\* post_hitl_revalidation, finish_modern_hitl).
THEOREM ImplementsGate == Spec => ImplementsHeldCall
<1>1. Init => Gate!Init /\ FinishedOK
  BY DEF Init, Gate!Init, FinishedOK
<1>2. GateInv /\ [Next]_vars => [Gate!Next]_(Gate!vars)
  <2>1. GateInv /\ [Next]_vars => Both
    BY FreshStep, ResumeStep, HookStep, StartStep, PollStep, GiveUpStep, RunStep, WorldStep
    DEF Next, ReqStep
  <2> QED BY <2>1 DEF Both, GateVars, Gate!vars
<1>3. GateInv /\ FinishedOK /\ [Next]_vars => FinishedOK'
  <2> SUFFICES ASSUME GateInv, FinishedOK, [Next]_vars PROVE FinishedOK'
    OBVIOUS
  <2>1. [Gate!Next]_(Gate!vars)
    BY <1>2
  <2>2. \A t \in Tokens : verdict[t] = "yes" => verdict'[t] = "yes"
    BY <2>1 DEF Gate!Next, Gate!vars, Gate!Ask, Gate!Answer, Gate!Lapse, Gate!Execute, GateInv, HistOK
  <2> QED BY <2>2, RecordsAppear, Spending DEF FinishedOK
<1>4. GateInv /\ FinishedOK /\ [Next]_vars
        => [\A r \in Reqs : req[r].pc = "poll" /\ req'[r].pc = "revalidate"
                               => req[r].token \notin finished]_vars
  BY PassedOnRecord DEF FinishedOK
<1>5. Spec => []GateInv
  BY GateInvariant
<1> QED BY <1>1, <1>2, <1>3, <1>4, <1>5, PTL DEF Spec, ImplementsHeldCall, Gate!Spec, SpentIsSpent

\* Whatever the order of registration, cancellation, insertion and hook, a prompt
\* whose first request was cancelled is not in the table once its hook has run
\* (on_cancel, start_modern_hitl).
THEOREM CancelledPromptsGo == Spec => []CancelledGoes
<1>1. Init => CancelledGoes
  BY DEF Init, CancelledGoes
<1>2. ASSUME CancelledGoes, [Next]_vars PROVE CancelledGoes'
  <2>1. ASSUME NEW r \in Reqs, NEW c \in Calls, StartPrompt(r, c) PROVE CancelledGoes'
    <3> DEFINE t == req[r].token
               s == Store!ReapExpired(hitl, now)
               full == Store!Insert(s, t, NewRecord(r, c), now)
    <3>1. UNCHANGED <<cancelled, firing>> /\ (hitl' = s \/ (hitl' = full /\ Refusal(r, s) = None))
      BY <2>1 DEF StartPrompt, TableBecomes, cancelVars
    <3>2. DOMAIN s \subseteq DOMAIN hitl /\ DOMAIN full \subseteq DOMAIN s \cup {t}
      BY DEF Store!ReapExpired, Store!Keep, Store!Insert, Store!EvictToCap, Store!Put
    <3>3. Refusal(r, s) = None => t \notin cancelled
      BY NoneAssumption DEF Refusal, Rows
    <3> HIDE DEF s, full
    <3> QED BY <1>2, <3>1, <3>2, <3>3 DEF CancelledGoes
  <2>2. ASSUME NEW t \in Tokens, Cancel(t) PROVE CancelledGoes'
    <3>1. /\ hitl' = hitl /\ cancelled' = cancelled \cup {t}
          /\ firing' = IF Hooked(t) THEN firing \cup {t} ELSE firing
      BY <2>2 DEF Cancel, tableVars
    <3>2. t \in DOMAIN hitl => Hooked(t)
      BY DEF Hooked
    <3> QED BY <1>2, <3>1, <3>2 DEF CancelledGoes
  <2>3. ASSUME NEW t \in Tokens, FireHook(t) PROVE CancelledGoes'
    <3>1. /\ firing' = firing \ {t} /\ cancelled' = cancelled
          /\ DOMAIN hitl' = DOMAIN hitl \ {t}
      BY <2>3 DEF FireHook, Finish, TableBecomes, Store!Remove, Store!Keep
    <3> QED BY <1>2, <3>1 DEF CancelledGoes
  <2>4. ASSUME ~\E r \in Reqs, c \in Calls : StartPrompt(r, c),
               ~\E t \in Tokens : Cancel(t) \/ FireHook(t)
        PROVE  CancelledGoes'
    <3>1. OnlyLoses
      BY <1>2, <2>4, OthersLose
    <3>2. UNCHANGED <<cancelled, firing>>
      <4>1. ASSUME NEW r \in Reqs, ReqStep(r) PROVE UNCHANGED cancelVars
        BY <2>4, <4>1 DEF ReqStep, RegisterHook, Poll, RefuseMissing, Forget, ForgetCheck,
           ForgetDrop, Revalidate, Dispatch, Complete
      <4>2. ASSUME NEW r \in Reqs, NEW t \in Tokens, SendFresh(r, t) \/ SendResume(r, t)
            PROVE  UNCHANGED cancelVars
        BY <4>2 DEF SendFresh, SendResume
      <4>3. ASSUME NEW sc \in Scopes, ClearScope(sc) PROVE UNCHANGED cancelVars
        BY <4>3 DEF ClearScope
      <4>4. CASE Tick \/ ChangeRoute \/ ChangeGate \/ UNCHANGED vars
        BY <4>4 DEF Tick, ChangeRoute, ChangeGate, vars, cancelVars
      <4> QED BY <1>2, <2>4, <4>1, <4>2, <4>3, <4>4 DEF Next, cancelVars
    <3> QED BY <1>2, <3>1, <3>2 DEF CancelledGoes, OnlyLoses
  <2> QED BY <2>1, <2>2, <2>3, <2>4
<1> QED BY <1>1, <1>2, PTL DEF Spec
\* The table is finite and its insertion numbers are numbers.
SeqOK == /\ IsFiniteSet(DOMAIN hitl) /\ nextSeq \in Nat
         /\ \A t \in DOMAIN hitl : hitl[t].seq \in Nat

LEMMA SeqStep == ASSUME SeqOK, [Next]_vars PROVE SeqOK'
<1>1. ASSUME NEW r \in Reqs, NEW c \in Calls, StartPrompt(r, c) PROVE SeqOK'
  <2> DEFINE t == req[r].token
             e == NewRecord(r, c)
             s == Store!ReapExpired(hitl, now)
             full == Store!Insert(s, t, e, now)
  <2>1. \/ hitl' = s /\ nextSeq' = nextSeq
        \/ hitl' = full /\ nextSeq' = nextSeq + 1
    BY <1>1 DEF StartPrompt, TableBecomes
  <2>2. DOMAIN s \subseteq DOMAIN hitl /\ \A u \in DOMAIN s : s[u] = hitl[u]
    BY DEF Store!ReapExpired, Store!Keep
  <2>3. /\ DOMAIN full \subseteq DOMAIN hitl \cup {t}
        /\ \A u \in DOMAIN full : full[u] = e \/ (u \in DOMAIN hitl /\ full[u] = hitl[u])
    <3> DEFINE g == Store!ReapExpired(s, now)
               p == Store!Put(g, t, e)
    <3>1. DOMAIN g \subseteq DOMAIN s /\ \A u \in DOMAIN g : g[u] = s[u]
      BY DEF Store!ReapExpired, Store!Keep
    <3>2. DOMAIN p = DOMAIN g \cup {t} /\ p[t] = e /\ \A u \in DOMAIN g : u # t => p[u] = g[u]
      BY DEF Store!Put
    <3>3. DOMAIN full \subseteq DOMAIN p /\ \A u \in DOMAIN full : full[u] = p[u]
      BY DEF Store!Insert, Store!EvictToCap, Store!Keep
    <3> HIDE DEF g, p, full, s, e
    <3> QED BY <2>2, <3>1, <3>2, <3>3
  <2>4. e.seq = nextSeq
    BY DEF NewRecord
  <2>5. IsFiniteSet(DOMAIN hitl \cup {t})
    BY FS_AddElement DEF SeqOK
  <2> HIDE DEF s, full, e
  <2>6. IsFiniteSet(DOMAIN hitl')
    BY <2>1, <2>2, <2>3, <2>5, FS_Subset DEF SeqOK
  <2>7. nextSeq' \in Nat /\ \A u \in DOMAIN hitl' : hitl'[u].seq \in Nat
    BY <2>1, <2>2, <2>3, <2>4 DEF SeqOK
  <2> QED BY <2>6, <2>7 DEF SeqOK
<1>2. ASSUME ~\E r \in Reqs, c \in Calls : StartPrompt(r, c) PROVE SeqOK'
  <2>1. OnlyLoses
    BY <1>2, OthersLose
  <2>2. IsFiniteSet(DOMAIN hitl')
    BY <2>1, FS_Subset DEF SeqOK, OnlyLoses
  <2> QED BY <2>1, <2>2 DEF SeqOK, OnlyLoses
<1> QED BY <1>1, <1>2

\* Eviction finds nothing to do in a table within its cap.
LEMMA NothingEvicted ==
    ASSUME NEW p, IsFiniteSet(DOMAIN p), Cardinality(DOMAIN p) <= MaxPending,
           \A k \in DOMAIN p : p[k].seq \in Nat
    PROVE  DOMAIN Store!EvictToCap(p) = DOMAIN p
<1>1. ASSUME NEW k \in DOMAIN p
      PROVE  Cardinality({j \in DOMAIN p : p[j].seq > p[k].seq}) < MaxPending
  <2> DEFINE S == {j \in DOMAIN p : p[j].seq > p[k].seq}
  <2>1. S \subseteq DOMAIN p \ {k}
    OBVIOUS
  <2>2. IsFiniteSet(DOMAIN p \ {k}) /\ Cardinality(DOMAIN p \ {k}) = Cardinality(DOMAIN p) - 1
    BY FS_RemoveElement
  <2>3. Cardinality(S) <= Cardinality(DOMAIN p \ {k}) /\ Cardinality(S) \in Nat
    BY <2>1, <2>2, FS_Subset, FS_CardinalityType
  <2>4. Cardinality(DOMAIN p) \in Nat
    BY FS_CardinalityType
  <2> QED BY <2>2, <2>3, <2>4, PendingAssumption
<1>2. {k \in DOMAIN p : Cardinality({j \in DOMAIN p : p[j].seq > p[k].seq}) < MaxPending} = DOMAIN p
  BY <1>1, Zenon
<1> DEFINE K == {k \in DOMAIN p : Cardinality({j \in DOMAIN p : p[j].seq > p[k].seq}) < MaxPending}
<1>3. Store!EvictToCap(p) = Store!Keep(p, K)
  <2>1. \A S : Store!Cardinality(S) = Cardinality(S)
    BY Zenon DEF Store!Cardinality, Cardinality
  <2> QED BY <2>1, Zenon DEF Store!EvictToCap
<1>4. DOMAIN Store!Keep(p, K) = K
  BY DEF Store!Keep
<1> QED BY <1>2, <1>3, <1>4, Zenon

\* A prompt that is not refused finds its place, and costs no live record its own.
LEMMA Inserted ==
    ASSUME SeqOK, NEW r \in Reqs, NEW c \in Calls, NEW s, s = Store!ReapExpired(hitl, now),
           NEW full, full = Store!Insert(s, req[r].token, NewRecord(r, c), now),
           Refusal(r, s) = None
    PROVE  /\ \A t \in DOMAIN full : t = req[r].token \/ (t \in DOMAIN hitl /\ full[t] = hitl[t])
           /\ req[r].token \in DOMAIN full /\ full[req[r].token] = NewRecord(r, c)
           /\ \A t \in DOMAIN hitl : Store!Live(hitl, t, now) => t \in DOMAIN full
<1> DEFINE k == req[r].token
           e == NewRecord(r, c)
           g == Store!ReapExpired(s, now)
           p == Store!Put(g, k, e)
<1>1. DOMAIN s \subseteq DOMAIN hitl /\ \A t \in DOMAIN s : s[t] = hitl[t]
  BY DEF Store!ReapExpired, Store!Keep
<1>2. \A t \in DOMAIN hitl : Store!Live(hitl, t, now) => t \in DOMAIN s
  BY DEF Store!ReapExpired, Store!Keep, Store!Live
<1>3. DOMAIN g \subseteq DOMAIN s /\ \A t \in DOMAIN g : g[t] = hitl[t]
  BY <1>1 DEF Store!ReapExpired, Store!Keep
<1>4. \A t \in DOMAIN hitl : Store!Live(hitl, t, now) => t \in DOMAIN g
  BY <1>1, <1>2 DEF Store!ReapExpired, Store!Keep, Store!Live
<1>5. DOMAIN p = DOMAIN g \cup {k} /\ p[k] = e /\ \A t \in DOMAIN g : t # k => p[t] = hitl[t]
  BY <1>3 DEF Store!Put
<1>6. full = Store!EvictToCap(p)
  BY DEF Store!Insert
<1>7. IsFiniteSet(DOMAIN s) /\ Cardinality(DOMAIN s) \in Nat
  BY <1>1, FS_Subset, FS_CardinalityType DEF SeqOK
<1>8. Cardinality(DOMAIN s) < MaxPending
  <2>1. ~(Cardinality(DOMAIN s) >= MaxPending)
    BY NoneAssumption DEF Refusal, Rows
  <2> QED BY <2>1, <1>7, PendingAssumption
<1>9. e.seq \in Nat
  BY DEF NewRecord, SeqOK
<1> HIDE DEF e, g, p
<1>10. /\ IsFiniteSet(DOMAIN g) /\ Cardinality(DOMAIN g) \in Nat
       /\ Cardinality(DOMAIN g) <= Cardinality(DOMAIN s)
  BY <1>3, <1>7, FS_Subset, FS_CardinalityType
<1>11. IsFiniteSet(DOMAIN p) /\ Cardinality(DOMAIN p) <= MaxPending
  <2>1. IsFiniteSet(DOMAIN p) /\ Cardinality(DOMAIN p) <= Cardinality(DOMAIN g) + 1
    <3>1. IsFiniteSet(DOMAIN g \cup {k})
          /\ Cardinality(DOMAIN g \cup {k}) =
               IF k \in DOMAIN g THEN Cardinality(DOMAIN g) ELSE Cardinality(DOMAIN g) + 1
      BY <1>10, FS_AddElement
    <3> QED BY <3>1, <1>5, <1>10
  <2>2. Cardinality(DOMAIN p) \in Nat
    BY <2>1, FS_CardinalityType
  <2> QED BY <2>1, <2>2, <1>7, <1>8, <1>10, PendingAssumption
<1>12. \A t \in DOMAIN p : p[t].seq \in Nat
  BY <1>1, <1>3, <1>5, <1>9 DEF SeqOK
<1>13. DOMAIN full = DOMAIN p
  BY <1>6, <1>11, <1>12, NothingEvicted
<1>14. \A t \in DOMAIN full : full[t] = p[t]
  BY <1>6 DEF Store!EvictToCap, Store!Keep
<1> QED BY <1>1, <1>3, <1>4, <1>5, <1>13, <1>14 DEF e

\* A new prompt never takes the place of one that could still be answered: the
\* refusal at MODERN_HITL_MAX_PENDING always comes before SessionStore's eviction.
THEOREM NewPromptsCostNothing == Spec => PromptsKept
<1>1. Init => SeqOK
  BY FS_EmptySet DEF Init, SeqOK
<1>2. ASSUME SeqOK, [Next]_vars, DOMAIN hitl' \ DOMAIN hitl # {},
             NEW t \in DOMAIN hitl, Store!Live(hitl, t, now)
      PROVE  t \in DOMAIN hitl'
  <2>1. PICK r \in Reqs, c \in Calls : StartPrompt(r, c)
    BY <1>2, OthersLose DEF OnlyLoses
  <2> DEFINE s == Store!ReapExpired(hitl, now)
             full == Store!Insert(s, req[r].token, NewRecord(r, c), now)
  <2>2. DOMAIN s \subseteq DOMAIN hitl
    BY DEF Store!ReapExpired, Store!Keep
  <2>3. hitl' = full /\ Refusal(r, s) = None
    BY <1>2, <2>1, <2>2 DEF StartPrompt, TableBecomes
  <2> HIDE DEF s, full
  <2>4. \A u \in DOMAIN hitl : Store!Live(hitl, u, now) => u \in DOMAIN full
    BY <1>2, <2>3, Inserted DEF s, full
  <2> QED BY <1>2, <2>3, <2>4
<1>3. SeqOK /\ [Next]_vars =>
        [DOMAIN hitl' \ DOMAIN hitl # {} =>
           \A t \in DOMAIN hitl : Store!Live(hitl, t, now) => t \in DOMAIN hitl']_vars
  BY <1>2
<1>4. SeqOK /\ [Next]_vars => SeqOK'
  BY SeqStep
<1> QED BY <1>1, <1>3, <1>4, PTL DEF Spec, PromptsKept

-----------------------------------------------------------------------------
(* The audit rows: never two verdicts about a prompt, never none.          *)

NoVerdict(q) == \A i \in 1..Len(q) : q[i] \notin Verdicts
OneVerdict(q) == \A i, j \in 1..Len(q) : q[i] \in Verdicts /\ q[j] \in Verdicts => i = j

\* The tokens whose approval some request brings and has not yet written down.
Brings(e, u) == e.pc = "revalidate" /\ e.newly /\ e.token = u
Brought == {u \in Tokens : \E r \in Reqs : Brings(req[r], u)}

\* A record in the table h that may still get a verdict.
Pending(h, u) == u \in DOMAIN h /\ (h[u].audit \/ h[u].status = "awaiting")

\* Prompt u, of which the table h, the verdicts v, the rows q, the approvals on their way new
\* and the tokens given up free speak: a verdict may be written by its record or by the
\* request that brings it, by one of them only, and a prompt that is settled has its row or
\* such a request.
TokenFits(u, h, v, q, new, free) ==
    /\ OneVerdict(q[u])
    /\ Pending(h, u) \/ u \in new => NoVerdict(q[u])
    /\ ~(Pending(h, u) /\ u \in new)
    /\ v[u] = "unasked" => q[u] = <<>> /\ u \notin DOMAIN h /\ u \notin new
    /\ u \notin free => /\ v[u] = "asked" => /\ u \in DOMAIN h /\ h[u].audit
                                              /\ h[u].status = "awaiting"
                        /\ v[u] \in {"no", "lapsed"} => q[u] # <<>>
                        /\ v[u] = "yes" => q[u] # <<>> \/ u \in new
RowsFit == \A u \in Tokens : TokenFits(u, hitl, verdict, rows, Brought, unguarded)

\* A fresh request is the only one with its token, and only one request brings an approval.
RequestFits(e, v) ==
    /\ e.pc # "idle" => e.token \in Tokens
    /\ e.pc \in Fresh => v[e.token] = "unasked" /\ e.fp \in Defs
    /\ e.pc \notin Fresh \cup {"idle"} => v[e.token] # "unasked"
    /\ e.pc \in Fresh \cup Passed \cup {"poll"} => e.owner \in Owners
    /\ e.pc \in Passed => e.call \in Calls /\ e.fp \in Defs
RequestsFit ==
    /\ \A r \in Reqs : RequestFits(req[r], verdict)
    /\ \A r, q \in Reqs : r # q /\ req[r].pc \in Fresh => req[q].token # req[r].token
    /\ \A r, q \in Reqs : r # q /\ Brings(req[r], req[r].token) => ~Brings(req[q], req[r].token)

ShownFits == \A u \in Tokens : shown[u] # None => verdict[u] # "unasked"

RowInv == TypeOK /\ SeqOK /\ RowsFit /\ RequestsFit /\ ShownFits

\* What appending rows to a log does to its verdicts.
LEMMA Appended ==
    ASSUME NEW q \in Seq(Rows), NEW x \in Seq(Rows)
    PROVE  /\ q \o x \in Seq(Rows)
           /\ NoVerdict(q) /\ NoVerdict(x) => NoVerdict(q \o x)
           /\ OneVerdict(q) /\ NoVerdict(x) => OneVerdict(q \o x)
           /\ NoVerdict(q) /\ OneVerdict(x) => OneVerdict(q \o x)
           /\ q # <<>> \/ x # <<>> => q \o x # <<>>
           /\ x = <<>> => q \o x = q
<1>1. /\ q \o x \in Seq(Rows) /\ Len(q \o x) = Len(q) + Len(x)
      /\ \A i \in 1..Len(q) : (q \o x)[i] = q[i]
      /\ \A i \in 1..Len(q \o x) : i \notin 1..Len(q) => /\ i - Len(q) \in 1..Len(x)
                                                         /\ (q \o x)[i] = x[i - Len(q)]
  OBVIOUS
<1>2. Len(q) \in Nat /\ Len(x) \in Nat /\ (q # <<>> => Len(q) # 0) /\ (x # <<>> => Len(x) # 0)
  OBVIOUS
<1>3. q # <<>> \/ x # <<>> => q \o x # <<>>
  BY <1>1, <1>2
<1>4. x = <<>> => q \o x = q
  OBVIOUS
<1> DEFINE z == q \o x
<1>5. \A i \in 1..Len(z) : \/ i \in 1..Len(q) /\ z[i] = q[i]
                           \/ i - Len(q) \in 1..Len(x) /\ z[i] = x[i - Len(q)] /\ i \notin 1..Len(q)
  BY <1>1
<1> HIDE DEF z
<1>6. NoVerdict(q) /\ NoVerdict(x) => NoVerdict(z)
  BY <1>5 DEF NoVerdict
<1>7. ASSUME OneVerdict(q), NoVerdict(x) PROVE OneVerdict(z)
  <2>1. \A i \in 1..Len(z) : z[i] \in Verdicts => i \in 1..Len(q) /\ z[i] = q[i]
    BY <1>5, <1>7 DEF NoVerdict
  <2> QED BY <1>7, <2>1 DEF OneVerdict
<1>8. ASSUME NoVerdict(q), OneVerdict(x) PROVE OneVerdict(z)
  <2>1. \A i \in 1..Len(z) : z[i] \in Verdicts => i - Len(q) \in 1..Len(x) /\ z[i] = x[i - Len(q)]
    BY <1>5, <1>8 DEF NoVerdict
  <2>2. \A i, j \in 1..Len(z) : i \in Int /\ j \in Int /\ (i - Len(q) = j - Len(q) => i = j)
    BY <1>2
  <2> QED BY <1>8, <2>1, <2>2 DEF OneVerdict
<1> QED BY <1>1, <1>3, <1>4, <1>6, <1>7, <1>8 DEF z

\* Record u falls out of the table and writes its row; token u is told row.
Falls(s, spent, u) == u \in DOMAIN hitl \ DOMAIN s /\ u # spent /\ hitl[u].audit
Tells(u, t, row) == u = t /\ row # None

\* What a change of the table does to the rows of one token.
LEMMA Written ==
    ASSUME TypeOK, NEW s, NEW spent, NEW t, NEW row \in Rows \cup {None},
           TableBecomes(s, spent, t, row), NEW u \in Tokens
    PROVE  /\ rows'[u] \in Seq(Rows)
           /\ ~Falls(s, spent, u) /\ ~Tells(u, t, row) => rows'[u] = rows[u]
           /\ Falls(s, spent, u) \/ Tells(u, t, row) \/ rows[u] # <<>> => rows'[u] # <<>>
           /\ ~Falls(s, spent, u) /\ (Tells(u, t, row) => row \notin Verdicts) =>
                /\ NoVerdict(rows[u]) => NoVerdict(rows'[u])
                /\ OneVerdict(rows[u]) => OneVerdict(rows'[u])
           /\ NoVerdict(rows[u]) /\ ~(Falls(s, spent, u) /\ Tells(u, t, row) /\ row \in Verdicts) =>
                OneVerdict(rows'[u])
<1> DEFINE X == IF Falls(s, spent, u) THEN <<AbandonedRow(hitl[u])>> ELSE <<>>
           Y == IF Tells(u, t, row) THEN <<row>> ELSE <<>>
<1>1. rows'[u] = rows[u] \o (X \o Y)
  BY DEF TableBecomes, Falls, Tells
<1>2. AbandonedRow(hitl[u]) \in Rows /\ AbandonedRow(hitl[u]) \in Verdicts
  BY DEF AbandonedRow, Rows, Verdicts
<1>3. \A a \in Rows : /\ <<a>> \in Seq(Rows) /\ <<a>> # <<>> /\ OneVerdict(<<a>>)
                      /\ a \notin Verdicts => NoVerdict(<<a>>)
  BY DEF OneVerdict, NoVerdict
<1>4. <<>> \in Seq(Rows) /\ NoVerdict(<<>>) /\ OneVerdict(<<>>)
  BY DEF OneVerdict, NoVerdict
<1>5. /\ X \in Seq(Rows) /\ OneVerdict(X) /\ (Falls(s, spent, u) => X # <<>>)
      /\ ~Falls(s, spent, u) => X = <<>> /\ NoVerdict(X)
  BY <1>2, <1>3, <1>4
<1>6. /\ Y \in Seq(Rows) /\ OneVerdict(Y) /\ (Tells(u, t, row) => Y # <<>>)
      /\ ~Tells(u, t, row) => Y = <<>> /\ NoVerdict(Y)
      /\ Tells(u, t, row) /\ row \notin Verdicts => NoVerdict(Y)
  BY <1>3, <1>4 DEF Tells
<1> HIDE DEF X, Y
<1> DEFINE x == X \o Y
<1>7. /\ x \in Seq(Rows) /\ (Falls(s, spent, u) \/ Tells(u, t, row) => x # <<>>)
      /\ ~Falls(s, spent, u) /\ ~Tells(u, t, row) => x = <<>>
      /\ ~Falls(s, spent, u) /\ (Tells(u, t, row) => row \notin Verdicts) => NoVerdict(x)
      /\ ~(Falls(s, spent, u) /\ Tells(u, t, row) /\ row \in Verdicts) => OneVerdict(x)
  BY <1>5, <1>6, Appended
<1>8. rows[u] \in Seq(Rows) /\ rows'[u] = rows[u] \o x
  BY <1>1 DEF TypeOK
<1> HIDE DEF x
<1> QED BY <1>7, <1>8, Appended

\* Terminal tokens stay a sequence of tokens.
LEMMA RememberedType ==
    ASSUME terminal \in Seq(Tokens), NEW D, D \subseteq Tokens, IsFiniteSet(D)
    PROVE  Remembered(D) \in Seq(Tokens)
<1> DEFINE new == {t \in D : \A i \in 1..Len(terminal) : terminal[i] # t}
           n == Cardinality(new)
           line == CHOOSE f \in [1..n -> new] : \A t \in new : \E i \in 1..n : f[i] = t
           all == terminal \o line
           over == Len(all) - 2 * MaxPending
<1>1. IsFiniteSet(new) /\ new \subseteq Tokens
  BY FS_Subset
<1>2. n \in Nat /\ ExistsBijection(1..n, new)
  BY <1>1, FS_CardinalityType
<1> HIDE DEF new, n
<1>3. \E f \in [1..n -> new] : \A t \in new : \E i \in 1..n : f[i] = t
  BY <1>2 DEF ExistsBijection, Bijection, Surjection
<1>4. line \in [1..n -> new]
  BY <1>3
<1> HIDE DEF line
<1>5. line \in Seq(Tokens)
  BY <1>1, <1>2, <1>4
<1>6. all \in Seq(Tokens)
  BY <1>5, ConcatProperties
<1>7. Remembered(D) = IF over > 0 THEN SubSeq(all, over + 1, Len(all)) ELSE all
  BY DEF Remembered, line, n, new
<1> HIDE DEF all
<1>8. ASSUME over > 0 PROVE SubSeq(all, over + 1, Len(all)) \in Seq(Tokens)
  <2>1. Len(all) \in Nat /\ over \in Int /\ over + 1 \in Int
    BY <1>6, PendingAssumption
  <2>2. \A i \in over + 1 .. Len(all) : all[i] \in Tokens
    BY <1>6, <1>8, <2>1
  <2> QED BY <2>1, <2>2, SubSeqProperties
<1> QED BY <1>6, <1>7, <1>8

\* The table after a change is well typed.
LEMMA TableTyped ==
    ASSUME RowInv, NEW s, NEW spent, NEW t, NEW row \in Rows \cup {None},
           TableBecomes(s, spent, t, row),
           DOMAIN s \subseteq Tokens, \A u \in DOMAIN s : s[u] \in Record
    PROVE  /\ hitl' = s /\ DOMAIN hitl' \subseteq Tokens /\ \A u \in DOMAIN hitl' : hitl'[u] \in Record
           /\ terminal' \in Seq(Tokens) /\ rows' \in [Tokens -> Seq(Rows)]
<1>1. hitl' = s /\ terminal' = Remembered(DOMAIN hitl \ DOMAIN s)
  BY DEF TableBecomes
<1>2. IsFiniteSet(DOMAIN hitl \ DOMAIN s) /\ DOMAIN hitl \ DOMAIN s \subseteq Tokens
  BY FS_Subset DEF RowInv, SeqOK, TypeOK
<1>3. terminal' \in Seq(Tokens)
  BY <1>1, <1>2, RememberedType DEF RowInv, TypeOK
<1>4. \A u \in Tokens : rows'[u] \in Seq(Rows)
  BY Written DEF RowInv
<1>5. rows' = [u \in Tokens |-> rows'[u]]
  BY DEF TableBecomes
<1> QED BY <1>1, <1>3, <1>4, <1>5

\* A prompt that the step is not about: it stays as it is, or falls out of the table and
\* writes its row; it may be told that it is stale.
LEMMA OtherFits ==
    ASSUME RowInv, NEW s, NEW spent, NEW t, NEW row \in Rows \cup {None},
           TableBecomes(s, spent, t, row), NEW u \in Tokens, u # spent,
           Tells(u, t, row) => row = "stale_state" /\ verdict[u] # "unasked",
           u \in DOMAIN s => /\ u \in DOMAIN hitl /\ s[u].status = hitl[u].status
                             /\ s[u].audit <=> hitl[u].audit,
           verdict'[u] = Lapsed(s)[u],
           u \in Brought' => u \in Brought,
           u \in Brought => u \in Brought' \/ Tells(u, t, row),
           u \in unguarded => u \in unguarded'
    PROVE  TokenFits(u, hitl', verdict', rows', Brought', unguarded')
<1> DEFINE fits == TokenFits(u, hitl, verdict, rows, Brought, unguarded)
<1>1. fits /\ hitl' = s /\ TypeOK
  BY DEF RowInv, RowsFit, TableBecomes
<1>2. Pending(s, u) => Pending(hitl, u)
  BY DEF Pending
<1>3. "stale_state" \notin Verdicts
  BY DEF Verdicts
<1>4. Falls(s, spent, u) => Pending(hitl, u) /\ ~Pending(s, u) /\ NoVerdict(rows[u]) /\ u \notin Brought
  BY <1>1 DEF Falls, Pending, TokenFits
<1>5. OneVerdict(rows'[u])
  BY <1>1, <1>3, <1>4, Written DEF TokenFits
<1>6. Pending(s, u) \/ u \in Brought' => NoVerdict(rows'[u])
  BY <1>1, <1>2, <1>3, <1>4, Written DEF TokenFits
<1>7. ~(Pending(s, u) /\ u \in Brought')
  BY <1>1, <1>2 DEF TokenFits
<1>8. verdict[u] = "unasked" <=> verdict'[u] = "unasked"
  BY DEF Lapsed
<1>9. verdict[u] = "unasked" => rows'[u] = <<>> /\ u \notin DOMAIN s /\ u \notin Brought'
  BY <1>1, Written DEF TokenFits, Falls
<1>10. ASSUME u \notin unguarded'
       PROVE  /\ verdict'[u] = "asked" => u \in DOMAIN s /\ s[u].audit /\ s[u].status = "awaiting"
              /\ verdict'[u] \in {"no", "lapsed"} => rows'[u] # <<>>
              /\ verdict'[u] = "yes" => rows'[u] # <<>> \/ u \in Brought'
  <2>1. u \notin unguarded
    BY <1>10
  <2>2. rows[u] # <<>> \/ Falls(s, spent, u) \/ Tells(u, t, row) => rows'[u] # <<>>
    BY <1>1, Written
  <2>3. verdict'[u] = IF u \in DOMAIN hitl \ DOMAIN s /\ verdict[u] = "asked" THEN "lapsed" ELSE verdict[u]
    BY DEF Lapsed
  <2>4. verdict[u] = "asked" /\ u \notin DOMAIN s => Falls(s, spent, u)
    BY <1>1, <2>1 DEF TokenFits, Falls
  <2> QED BY <1>1, <2>1, <2>2, <2>3, <2>4 DEF TokenFits
<1> QED BY <1>1, <1>5, <1>6, <1>7, <1>8, <1>9, <1>10 DEF TokenFits

\* A request moves on with the token it has, or without one.
LEMMA ReqFits ==
    ASSUME RowInv, NEW r \in Reqs, NEW e \in Entry, req' = [req EXCEPT ![r] = e],
           e.pc \notin Fresh, e.token \in {None, req[r].token}, RequestFits(e, verdict'),
           \A u \in Tokens : verdict[u] # "unasked" => verdict'[u] # "unasked",
           \A u \in Tokens : verdict[u] = "unasked" /\ u # req[r].token => verdict'[u] = "unasked",
           Brings(e, req[r].token) => req[r].token \notin Brought
    PROVE  /\ RequestsFit' /\ req' \in [Reqs -> Entry]
           /\ \A u \in Tokens : u # req[r].token => (u \in Brought' <=> u \in Brought)
           /\ \A u \in Brought' : u \in Brought \/ Brings(e, u)
           /\ \A u \in Brought : u \in Brought' \/ Brings(req[r], u)
<1>1. req' \in [Reqs -> Entry] /\ req'[r] = e /\ \A q \in Reqs : q # r => req'[q] = req[q]
  BY DEF RowInv, TypeOK
<1>2. \A q \in Reqs : RequestFits(req[q], verdict)
  BY DEF RowInv, RequestsFit
<1>3. ASSUME NEW q \in Reqs PROVE RequestFits(req'[q], verdict')
  <2>1. CASE q = r
    BY <1>1, <2>1
  <2>2. CASE q # r
    <3>1. req[q].pc \in Fresh => req[q].token # req[r].token
      BY <2>2 DEF RowInv, RequestsFit
    <3> QED BY <1>1, <1>2, <2>2, <3>1 DEF RequestFits, Fresh
  <2> QED BY <2>1, <2>2
<1>4. ASSUME NEW p \in Reqs, NEW q \in Reqs, p # q, req'[p].pc \in Fresh
      PROVE  req'[q].token # req'[p].token
  <2>1. p # r /\ req'[p] = req[p] /\ req[p].token \in Tokens
    BY <1>1, <1>2, <1>4 DEF RequestFits, Fresh
  <2>2. req[q].token # req[p].token /\ req[r].token # req[p].token
    BY <1>4, <2>1 DEF RowInv, RequestsFit
  <2> QED BY <1>1, <2>1, <2>2, NoneAssumption
<1>5. \A q \in Reqs : Brings(req[q], req[q].token) => req[q].token \in Brought
  BY <1>2 DEF Brought, Brings, RequestFits
<1>6. ASSUME NEW p \in Reqs, NEW q \in Reqs, p # q, Brings(req'[p], req'[p].token)
      PROVE  ~Brings(req'[q], req'[p].token)
  <2>1. e.pc = "revalidate" => e.token \in Tokens
    BY DEF RequestFits
  <2>2. CASE p # r /\ q # r
    BY <1>1, <1>6, <2>2 DEF RowInv, RequestsFit
  <2>3. CASE p = r
    <3>1. req'[p] = e /\ req'[q] = req[q] /\ e.token = req[r].token
      BY <1>1, <1>6, <2>1, <2>3, NoneAssumption DEF Brings
    <3>2. req[r].token \notin Brought
      BY <1>6, <3>1
    <3> QED BY <1>5, <3>1, <3>2 DEF Brings
  <2>4. CASE q = r
    <3>1. SUFFICES ASSUME Brings(e, req[p].token) PROVE FALSE
      BY <1>1, <1>6, <2>4
    <3>2. req[p].token = req[r].token /\ req'[p] = req[p]
      BY <1>1, <1>6, <2>1, <2>4, <3>1, NoneAssumption DEF Brings
    <3> QED BY <1>5, <1>6, <3>1, <3>2
  <2> QED BY <2>2, <2>3, <2>4
<1>7. RequestsFit'
  BY <1>3, <1>4, <1>6 DEF RequestsFit
<1>8. ASSUME NEW u \in Tokens, u # req[r].token PROVE u \in Brought' <=> u \in Brought
  BY <1>1, <1>8, NoneAssumption DEF Brought, Brings
<1>9. \A u \in Brought' : u \in Brought \/ Brings(e, u)
  BY <1>1 DEF Brought
<1>10. \A u \in Brought : u \in Brought' \/ Brings(req[r], u)
  BY <1>1 DEF Brought
<1> QED BY <1>1, <1>7, <1>8, <1>9, <1>10

\* What has a type and is neither table nor request.
WorldTyped ==
    /\ now \in Nat /\ cancelled \subseteq Tokens /\ firing \subseteq Tokens
    /\ unguarded \subseteq Tokens
    /\ route \in [owner : Owners, def : Defs \cup {None}] /\ gated \in BOOLEAN /\ upsets \in Nat
    /\ verdict \in [Tokens -> {"unasked", "asked", "yes", "no", "lapsed"}]
    /\ shown \in [Tokens -> Contents \cup {None}] /\ ran \subseteq Tokens \X Contents
    /\ finished \subseteq Tokens

\* The table only loses records or has some touched.
Kept(s) == /\ DOMAIN s \subseteq DOMAIN hitl
           /\ \A u \in DOMAIN s : /\ s[u] \in Record /\ s[u].status = hitl[u].status
                                  /\ s[u].audit <=> hitl[u].audit

\* The ways of the session store to do so.
LEMMA StoreKeeps ==
    ASSUME TypeOK
    PROVE  /\ Kept(hitl)
           /\ \A K \in SUBSET DOMAIN hitl : Kept(Store!Keep(hitl, K))
           /\ \A t : Kept(Store!Remove(hitl, t))
           /\ \A t : Kept(Store!Touch(hitl, t, now))
           /\ Kept(Store!ReapExpired(hitl, now))
<1>1. \A K \in SUBSET DOMAIN hitl : Kept(Store!Keep(hitl, K))
  BY DEF Kept, Store!Keep, TypeOK
<1>2. \A t : Kept(Store!Remove(hitl, t))
  BY <1>1 DEF Store!Remove
<1>3. Kept(Store!ReapExpired(hitl, now))
  BY <1>1 DEF Store!ReapExpired
<1>4. ASSUME NEW t PROVE Kept(Store!Touch(hitl, t, now))
  <2>1. CASE Store!Live(hitl, t, now)
    <3>1. Store!Touch(hitl, t, now) = [hitl EXCEPT ![t] = [@ EXCEPT !.seen = now]]
      BY <2>1 DEF Store!Touch
    <3>2. ASSUME NEW e \in Record PROVE LET f == [e EXCEPT !.seen = now]
                                        IN f \in Record /\ f.status = e.status /\ f.audit = e.audit
      BY DEF Record, TypeOK
    <3> QED BY <3>1, <3>2 DEF Kept, TypeOK
  <2>2. CASE ~Store!Live(hitl, t, now)
    BY <2>2, <1>2 DEF Store!Touch
  <2> QED BY <2>1, <2>2
<1>5. Kept(hitl)
  BY DEF Kept, TypeOK
<1> QED BY <1>1, <1>2, <1>3, <1>4, <1>5

\* Nobody is asked again, and who is settled stays so, when records lapse.
LEMMA LapsedFacts ==
    ASSUME WorldTyped, NEW s, verdict' = Lapsed(s)
    PROVE  /\ verdict' \in [Tokens -> {"unasked", "asked", "yes", "no", "lapsed"}]
           /\ \A u \in Tokens : verdict'[u] = "unasked" <=> verdict[u] = "unasked"
BY DEF WorldTyped, Lapsed

\* Records go, and one token is perhaps told that it is stale.
LEMMA LapseFits ==
    ASSUME RowInv, NEW s, Kept(s), NEW t, NEW row \in {None, "stale_state"},
           TableBecomes(s, None, t, row), verdict' = Lapsed(s), UNCHANGED shown,
           row # None => t \in Tokens /\ verdict[t] # "unasked",
           RequestsFit', req' \in [Reqs -> Entry], WorldTyped', SeqOK',
           Brought' \subseteq Brought, \A u \in Brought : u \in Brought' \/ Tells(u, t, row),
           unguarded \subseteq unguarded'
    PROVE  RowInv'
<1>1. row \in Rows \cup {None} /\ DOMAIN s \subseteq Tokens /\ \A u \in DOMAIN s : s[u] \in Record
  BY DEF Rows, Kept, RowInv, TypeOK
<1>2. TypeOK'
  <2>1. nextSeq' \in Nat
    BY DEF SeqOK
  <2> QED BY <1>1, <2>1, TableTyped DEF TypeOK, WorldTyped
<1>3. RowsFit'
  <2> SUFFICES ASSUME NEW u \in Tokens
               PROVE  TokenFits(u, hitl', verdict', rows', Brought', unguarded')
    BY DEF RowsFit
  <2>1. u # None
    BY NoneAssumption
  <2>2. Tells(u, t, row) => row = "stale_state" /\ verdict[u] # "unasked"
    BY DEF Tells
  <2>3. u \in DOMAIN s => /\ u \in DOMAIN hitl /\ s[u].status = hitl[u].status
                          /\ s[u].audit <=> hitl[u].audit
    BY DEF Kept
  <2>4. verdict'[u] = Lapsed(s)[u]
    OBVIOUS
  <2> QED BY <1>1, <2>1, <2>2, <2>3, <2>4, OtherFits
<1>4. ShownFits'
  BY LapsedFacts DEF ShownFits, RowInv, TypeOK, WorldTyped
<1> QED BY <1>2, <1>3, <1>4 DEF RowInv

\* Steps that leave the table and the verdicts alone.
LEMMA StillFits ==
    ASSUME RowInv, UNCHANGED <<hitl, terminal, rows, verdict, shown, unguarded>>,
           RequestsFit', req' \in [Reqs -> Entry], WorldTyped', SeqOK', Brought' = Brought
    PROVE  RowInv'
<1>1. TypeOK'
  BY DEF RowInv, TypeOK, WorldTyped, SeqOK
<1>2. RowsFit'
  BY DEF RowInv, RowsFit, TokenFits
<1> QED BY <1>1, <1>2 DEF RowInv, ShownFits

\* A request ends, or goes on short of the far side, while records go.
LEMMA MoveFits ==
    ASSUME RowInv, SeqOK', NEW r \in Reqs, NEW e \in Entry, req' = [req EXCEPT ![r] = e],
           e.pc \notin Fresh, e.token \in {None, req[r].token}, RequestFits(e, verdict),
           ~Brings(e, req[r].token), NEW s, Kept(s), NEW t, NEW row \in {None, "stale_state"},
           TableBecomes(s, None, t, row), verdict' = Lapsed(s), UNCHANGED shown,
           t = req[r].token \/ row = None, row # None => req[r].pc \notin Fresh \cup {"idle"},
           row = None => ~Brings(req[r], req[r].token),
           WorldTyped', unguarded \subseteq unguarded'
    PROVE  RowInv'
<1>1. \A u \in Tokens : verdict'[u] = "unasked" <=> verdict[u] = "unasked"
  BY LapsedFacts DEF RowInv, TypeOK, WorldTyped
<1>2. RequestFits(req[r], verdict)
  BY DEF RowInv, RequestsFit
<1>3. RequestFits(e, verdict')
  BY <1>1 DEF RequestFits, Fresh
<1>4. /\ RequestsFit' /\ req' \in [Reqs -> Entry]
      /\ \A u \in Brought' : u \in Brought \/ Brings(e, u)
      /\ \A u \in Brought : u \in Brought' \/ Brings(req[r], u)
  BY <1>1, <1>3, ReqFits
<1>5. Brought' \subseteq Brought
  <2>1. \A u \in Brought' : u # None
    BY NoneAssumption DEF Brought
  <2> QED BY <1>4, <2>1 DEF Brings
<1>6. \A u \in Brought : u \in Brought' \/ Tells(u, t, row)
  BY <1>4 DEF Brings, Tells
<1>7. row # None => t \in Tokens /\ verdict[t] # "unasked"
  BY <1>2 DEF RequestFits
<1> QED BY <1>4, <1>5, <1>6, <1>7, LapseFits

\* The step of a request that changes nothing else.
LEMMA PassFits ==
    ASSUME RowInv, SeqOK', NEW r \in Reqs, NEW e \in Entry, req' = [req EXCEPT ![r] = e],
           e.pc \notin Fresh, e.token \in {None, req[r].token}, RequestFits(e, verdict),
           ~Brings(e, req[r].token), ~Brings(req[r], req[r].token),
           UNCHANGED <<hitl, terminal, rows, verdict, shown, unguarded>>, WorldTyped'
    PROVE  RowInv'
<1>1. RequestFits(e, verdict')
  OBVIOUS
<1>2. /\ RequestsFit' /\ req' \in [Reqs -> Entry]
      /\ \A u \in Brought' : u \in Brought \/ Brings(e, u)
      /\ \A u \in Brought : u \in Brought' \/ Brings(req[r], u)
  BY <1>1, ReqFits
<1>3. \A u \in Tokens : u # None
  BY NoneAssumption
<1>4. Brought' = Brought
  BY <1>2, <1>3 DEF Brings, Brought
<1> QED BY <1>2, <1>4, StillFits

\* A request takes a token, or goes on with a fresh one.
LEMMA TakeFits ==
    ASSUME RowInv, SeqOK', NEW r \in Reqs, NEW e \in Entry, req' = [req EXCEPT ![r] = e],
           RequestFits(e, verdict), e.pc # "revalidate", req[r].pc # "revalidate",
           \A q \in Reqs \ {r} : e.pc \in Fresh \/ req[q].pc \in Fresh => req[q].token # e.token,
           UNCHANGED <<hitl, terminal, rows, verdict, shown, unguarded>>, WorldTyped'
    PROVE  RowInv'
<1>1. req' \in [Reqs -> Entry] /\ req'[r] = e /\ \A q \in Reqs : q # r => req'[q] = req[q]
  BY DEF RowInv, TypeOK
<1>2. \A q \in Reqs : RequestFits(req'[q], verdict')
  BY <1>1 DEF RowInv, RequestsFit
<1>3. \A p, q \in Reqs : p # q /\ req'[p].pc \in Fresh => req'[q].token # req'[p].token
  BY <1>1 DEF RowInv, RequestsFit
<1>4. \A u : \A q \in Reqs : Brings(req'[q], u) <=> q # r /\ Brings(req[q], u)
  BY <1>1 DEF Brings
<1>5. \A p, q \in Reqs : p # q /\ Brings(req'[p], req'[p].token) => ~Brings(req'[q], req'[p].token)
  BY <1>1, <1>4 DEF RowInv, RequestsFit
<1>6. RequestsFit'
  BY <1>2, <1>3, <1>5 DEF RequestsFit
<1>7. \A u : ~Brings(req[r], u)
  BY DEF Brings
<1>8. Brought' = Brought
  BY <1>4, <1>7 DEF Brought
<1> QED BY <1>1, <1>6, <1>8, StillFits

\* The start of a request, with or without a token, and the first half of start_modern_hitl.
LEMMA TakeRows ==
    ASSUME RowInv, SeqOK', NEW r \in Reqs,
           RegisterHook(r) \/ \E t \in Tokens : SendFresh(r, t) \/ SendResume(r, t)
    PROVE  RowInv'
<1>1. /\ UNCHANGED <<hitl, terminal, rows, verdict, shown, unguarded>> /\ WorldTyped'
      /\ req[r].pc # "revalidate"
  <2>1. UNCHANGED <<tableVars, cancelVars, worldVars, histVars, verdict, unguarded>>
    BY DEF RegisterHook, SendFresh, SendResume
  <2> QED BY <2>1 DEF RegisterHook, SendFresh, SendResume, tableVars, cancelVars, worldVars,
             histVars, RowInv, TypeOK, WorldTyped
<1>2. route.owner \in Owners /\ route.def \in Defs \cup {None}
  BY DEF RowInv, TypeOK
<1>3. CASE RegisterHook(r)
  <2> DEFINE e == [req[r] EXCEPT !.pc = "insert"]
  <2>1. req[r] \in Entry /\ RequestFits(req[r], verdict) /\ req[r].pc = "hook"
    BY <1>3 DEF RowInv, TypeOK, RequestsFit, RegisterHook
  <2>2. /\ e \in Entry /\ e.pc = "insert" /\ e.token = req[r].token
        /\ e.owner = req[r].owner /\ e.fp = req[r].fp /\ req' = [req EXCEPT ![r] = e]
    BY <1>3, <2>1 DEF Entry, RegisterHook, Go
  <2> HIDE DEF e
  <2>3. RequestFits(e, verdict)
    BY <2>1, <2>2 DEF RequestFits, Fresh, Passed
  <2>4. \A q \in Reqs \ {r} : req[q].token # e.token
    BY <2>1, <2>2 DEF RowInv, RequestsFit, Fresh
  <2> QED BY <1>1, <2>2, <2>3, <2>4, TakeFits
<1>4. ASSUME NEW t \in Tokens, SendFresh(r, t) PROVE RowInv'
  <2> DEFINE e == At("hook", t, route.owner, route.def)
  <2>1. /\ e \in Entry /\ e.pc = "hook" /\ e.token = t /\ e.owner = route.owner /\ e.fp = route.def
        /\ req' = [req EXCEPT ![r] = e]
    BY <1>2, <1>4 DEF At, Entry, SendFresh, Go
  <2> HIDE DEF e
  <2>2. verdict[t] = "unasked" /\ route.def \in Defs /\ \A q \in Reqs : req[q].token # t
    BY <1>2, <1>4 DEF SendFresh, Unused
  <2>3. RequestFits(e, verdict)
    BY <1>2, <2>1, <2>2 DEF RequestFits, Fresh, Passed
  <2> QED BY <1>1, <2>1, <2>2, <2>3, TakeFits
<1>5. ASSUME NEW t \in Tokens, SendResume(r, t) PROVE RowInv'
  <2>1. PICK e \in Entry : /\ req' = [req EXCEPT ![r] = e] /\ e.token = t
                           /\ \/ e.pc = "poll" /\ e.owner = route.owner
                              \/ e.pc = "forget"
    <3> DEFINE a == At("poll", t, route.owner, None)
               b == At("forget", t, None, None)
    <3>1. a \in Entry /\ a.pc = "poll" /\ a.token = t /\ a.owner = route.owner
      BY <1>2 DEF At, Entry
    <3>2. b \in Entry /\ b.pc = "forget" /\ b.token = t
      BY DEF At, Entry
    <3>3. req' = [req EXCEPT ![r] = a] \/ req' = [req EXCEPT ![r] = b]
      BY <1>5 DEF SendResume, Go
    <3> HIDE DEF a, b
    <3> QED BY <3>1, <3>2, <3>3
  <2>2. verdict[t] # "unasked"
    BY <1>5 DEF SendResume, RowInv, ShownFits
  <2>3. RequestFits(e, verdict)
    BY <1>2, <2>1, <2>2 DEF RequestFits, Fresh, Passed
  <2>4. \A q \in Reqs : req[q].pc \in Fresh => req[q].token # t
    BY <2>2 DEF RowInv, RequestsFit, RequestFits
  <2> QED BY <1>1, <2>1, <2>3, <2>4, TakeFits DEF Fresh
<1> QED BY <1>3, <1>4, <1>5

\* Steps of no request that leave the table alone.
LEMMA WorldRows ==
    ASSUME RowInv, SeqOK',
           Tick \/ ChangeRoute \/ ChangeGate \/ (\E t \in Tokens : Cancel(t)) \/ UNCHANGED vars
    PROVE  RowInv'
<1>1. UNCHANGED <<hitl, terminal, rows, verdict, shown, unguarded, req, ran, finished>>
  BY DEF Tick, ChangeRoute, ChangeGate, Cancel, vars, tableVars, histVars
<1>2. WorldTyped'
  <2>1. CASE Tick \/ (\E t \in Tokens : Cancel(t)) \/ UNCHANGED vars
    BY <1>1, <2>1 DEF Tick, Cancel, vars, worldVars, cancelVars, Upset, RowInv, TypeOK, WorldTyped
  <2>2. CASE ChangeRoute
    BY <1>1, <2>2 DEF ChangeRoute, cancelVars, Upset, RowInv, TypeOK, WorldTyped
  <2>3. CASE ChangeGate
    BY <1>1, <2>3 DEF ChangeGate, cancelVars, Upset, RowInv, TypeOK, WorldTyped
  <2> QED BY <2>1, <2>2, <2>3
<1>3. RequestsFit' /\ req' \in [Reqs -> Entry] /\ Brought' = Brought
  BY <1>1 DEF RowInv, RequestsFit, Brought, TypeOK
<1> QED BY <1>1, <1>2, <1>3, StillFits

\* The hook of a cancelled request runs, or a session ends.
LEMMA EndRows ==
    ASSUME RowInv, SeqOK', (\E t \in Tokens : FireHook(t)) \/ \E sc \in Scopes : ClearScope(sc)
    PROVE  RowInv'
<1>1. UNCHANGED <<now, route, gated, shown, ran, finished, req, unguarded>>
  BY DEF FireHook, ClearScope, worldVars, histVars
<1>2. PICK s, t : Kept(s) /\ TableBecomes(s, None, t, None) /\ verdict' = Lapsed(s)
  <2>1. ASSUME NEW t \in Tokens, FireHook(t)
        PROVE  /\ Kept(Store!Remove(hitl, t)) /\ TableBecomes(Store!Remove(hitl, t), None, t, None)
               /\ verdict' = Lapsed(Store!Remove(hitl, t))
    BY <2>1, StoreKeeps DEF FireHook, Finish, RowInv
  <2>2. ASSUME NEW sc \in Scopes, ClearScope(sc)
        PROVE  \E s : Kept(s) /\ TableBecomes(s, None, None, None) /\ verdict' = Lapsed(s)
    <3> DEFINE K == {t \in DOMAIN hitl : hitl[t].call[1] # sc}
    <3>1. Kept(Store!Keep(hitl, K))
      BY StoreKeeps DEF RowInv
    <3> QED BY <2>2, <3>1 DEF ClearScope
  <2> QED BY <2>1, <2>2
<1>3. verdict' \in [Tokens -> {"unasked", "asked", "yes", "no", "lapsed"}]
      /\ \A u \in Tokens : verdict'[u] = "unasked" <=> verdict[u] = "unasked"
  BY <1>2, LapsedFacts DEF RowInv, TypeOK, WorldTyped
<1>4. WorldTyped'
  <2>1. cancelled' \subseteq Tokens /\ firing' \subseteq Tokens /\ upsets' \in Nat
    <3>1. CASE \E k \in Tokens : FireHook(k)
      BY <3>1 DEF FireHook, worldVars, RowInv, TypeOK
    <3>2. CASE \E sc \in Scopes : ClearScope(sc)
      BY <3>2 DEF ClearScope, Upset, cancelVars, RowInv, TypeOK
    <3> QED BY <3>1, <3>2
  <2> QED BY <1>1, <1>3, <2>1 DEF RowInv, TypeOK, WorldTyped
<1>5. RequestsFit' /\ req' \in [Reqs -> Entry] /\ Brought' = Brought
  BY <1>1, <1>3 DEF RowInv, RequestsFit, RequestFits, Brought, TypeOK, Fresh
<1> QED BY <1>1, <1>2, <1>4, <1>5, LapseFits

\* A request that returns carries nothing.
LEMMA IdleFits ==
    /\ Idle \in Entry /\ Idle.pc \notin Fresh /\ Idle.token = None
    /\ \A v : RequestFits(Idle, v)
    /\ \A u : ~Brings(Idle, u)
BY IdleEntry DEF Fresh, Passed, RequestFits, Brings

\* What is known of a request and the verdicts before its step.
LEMMA RequestNow ==
    ASSUME RowInv, NEW r \in Reqs
    PROVE  /\ req[r] \in Entry /\ RequestFits(req[r], verdict) /\ WorldTyped /\ TypeOK
           /\ req[r].pc # "idle" => req[r].token \in Tokens
           /\ Lapsed(hitl) = verdict
BY DEF RowInv, TypeOK, WorldTyped, RequestsFit, RequestFits, Lapsed

\* finish_modern_hitl at the end of a request, with a row or none.
LEMMA FinishRows ==
    ASSUME RowInv, SeqOK', NEW r \in Reqs, NEW row \in {None, "stale_state"},
           Finish(req[r].token, row), Return(r), req[r].pc \notin Fresh \cup {"idle"},
           row = None => req[r].pc # "revalidate" \/ ~req[r].newly,
           finished' \in {finished, finished \cup {req[r].token}},
           UNCHANGED <<cancelled, firing, now, route, gated, upsets, shown, ran, unguarded>>
    PROVE  RowInv'
<1> DEFINE s == Store!Remove(hitl, req[r].token)
<1>1. Kept(s) /\ TableBecomes(s, None, req[r].token, row) /\ verdict' = Lapsed(s)
  BY StoreKeeps DEF Finish, RowInv
<1> HIDE DEF s
<1>2. WorldTyped'
  BY <1>1, RequestNow, LapsedFacts DEF WorldTyped
<1>3. req' = [req EXCEPT ![r] = Idle]
  BY DEF Return, Go
<1>4. row = None => ~Brings(req[r], req[r].token)
  BY DEF Brings
<1> QED BY <1>1, <1>2, <1>3, <1>4, IdleFits, MoveFits

\* A missing token is refused; a token nobody asks for is given up in three steps.
LEMMA GiveUpRows ==
    ASSUME RowInv, SeqOK', NEW r \in Reqs, RefuseMissing(r) \/ ForgetCheck(r) \/ ForgetDrop(r)
    PROVE  RowInv'
<1>1. UNCHANGED <<cancelled, firing, now, route, gated, upsets, shown, ran, finished, unguarded>>
  BY DEF RefuseMissing, ForgetCheck, ForgetDrop, cancelVars, worldVars, histVars
<1>2. CASE RefuseMissing(r)
  <2>1. PICK row \in {None, "stale_state"} : TableBecomes(hitl, None, req[r].token, row)
    BY <1>2 DEF RefuseMissing
  <2>2. verdict' = Lapsed(hitl) /\ req[r].pc = "missing" /\ req' = [req EXCEPT ![r] = Idle]
    BY <1>2, RequestNow DEF RefuseMissing, Return, Go
  <2>3. Kept(hitl) /\ WorldTyped'
    BY <1>1, <2>2, StoreKeeps, RequestNow DEF WorldTyped
  <2>4. req[r].pc \notin Fresh \cup {"idle"} /\ ~Brings(req[r], req[r].token)
    BY <2>2 DEF Fresh, Brings
  <2> QED BY <1>1, <2>1, <2>2, <2>3, <2>4, IdleFits, MoveFits
<1>3. CASE ForgetCheck(r)
  <2>1. PICK new \in BOOLEAN : req' = [req EXCEPT ![r] = [req[r] EXCEPT !.pc = "drop", !.newly = new]]
    <3>1. PICK new \in BOOLEAN : new = (~IsTerminal(req[r].token))
      OBVIOUS
    <3> QED BY <1>3, <3>1, Zenon DEF ForgetCheck, Go
  <2> DEFINE e == [req[r] EXCEPT !.pc = "drop", !.newly = new]
  <2>2. e \in Entry /\ e.pc = "drop" /\ e.token = req[r].token /\ req' = [req EXCEPT ![r] = e]
    BY <2>1, RequestNow DEF Entry
  <2> HIDE DEF e
  <2>3. req[r].pc = "check" /\ UNCHANGED <<hitl, terminal, rows, verdict>>
    BY <1>3 DEF ForgetCheck, tableVars
  <2>4. RequestFits(e, verdict)
    BY <2>2, <2>3, RequestNow DEF RequestFits, Fresh, Passed
  <2>5. WorldTyped'
    BY <1>1, <2>3, RequestNow DEF WorldTyped
  <2>6. ~Brings(e, req[r].token) /\ ~Brings(req[r], req[r].token) /\ e.pc \notin Fresh
    BY <2>2, <2>3 DEF Brings, Fresh
  <2> QED BY <1>1, <2>2, <2>3, <2>4, <2>5, <2>6, PassFits
<1>4. CASE ForgetDrop(r)
  <2>1. PICK row \in {None, "stale_state"} : Finish(req[r].token, row)
    BY <1>4 DEF ForgetDrop
  <2>2. req[r].pc = "drop" /\ Return(r)
    BY <1>4 DEF ForgetDrop
  <2> QED BY <1>1, <2>1, <2>2, FinishRows DEF Fresh
<1> QED BY <1>2, <1>3, <1>4

\* The record of a token nobody asks for loses its row, before it is dropped.
LEMMA ForgetRows ==
    ASSUME RowInv, SeqOK', NEW r \in Reqs, Forget(r)
    PROVE  RowInv'
<1> DEFINE t == req[r].token
           s0 == Store!Touch(hitl, t, now)
           s == IF t \in DOMAIN s0 THEN [s0 EXCEPT ![t] = [s0[t] EXCEPT !.audit = FALSE]] ELSE s0
           e == [req[r] EXCEPT !.pc = "check"]
<1>1. /\ req[r].pc = "forget" /\ TableBecomes(s, None, None, None) /\ verdict' = Lapsed(s0)
      /\ unguarded' = unguarded \cup {t} /\ req' = [req EXCEPT ![r] = e]
      /\ UNCHANGED <<cancelled, firing, now, route, gated, upsets, shown, ran, finished>>
  BY DEF Forget, cancelVars, worldVars, histVars, Go
<1>2. t \in Tokens /\ verdict[t] # "unasked"
  BY <1>1, RequestNow DEF RequestFits, Fresh
<1>3. e \in Entry /\ e.pc = "check" /\ e.token = t
  BY RequestNow DEF Entry
<1> HIDE DEF e
<1>4. Kept(s0)
  BY StoreKeeps DEF RowInv
<1> HIDE DEF s0
<1>5. \A x \in Record : LET y == [x EXCEPT !.audit = FALSE]
                        IN  y \in Record /\ y.status = x.status /\ y.audit = FALSE
  BY DEF Record
<1>6. /\ DOMAIN s = DOMAIN s0 /\ \A u \in DOMAIN s : s[u] \in Record /\ s[u].status = s0[u].status
      /\ \A u \in DOMAIN s : u # t => s[u] = s0[u]
      /\ t \in DOMAIN s => s[t].audit = FALSE
  BY <1>4, <1>5 DEF Kept
<1> HIDE DEF s
<1>7. verdict' = Lapsed(s)
  BY <1>1, <1>6 DEF Lapsed
<1>8. \A u \in Tokens : verdict'[u] = "unasked" <=> verdict[u] = "unasked"
  BY <1>7, RequestNow, LapsedFacts
<1>9. RequestFits(e, verdict')
  BY <1>2, <1>3, <1>8 DEF RequestFits, Fresh, Passed
<1>10. WorldTyped'
  BY <1>1, <1>2, <1>7, RequestNow, LapsedFacts DEF WorldTyped
<1>11. /\ RequestsFit' /\ req' \in [Reqs -> Entry]
       /\ \A u \in Brought' : u \in Brought \/ Brings(e, u)
       /\ \A u \in Brought : u \in Brought' \/ Brings(req[r], u)
  <2>1. e.pc \notin Fresh /\ ~Brings(e, req[r].token) /\ e.token = req[r].token
    BY <1>3 DEF Fresh, Brings
  <2> QED BY <1>1, <1>3, <1>8, <1>9, <2>1, ReqFits
<1>12. Brought' = Brought
  BY <1>1, <1>3, <1>11 DEF Brings
<1>13. DOMAIN s \subseteq Tokens /\ DOMAIN s \subseteq DOMAIN hitl
  BY <1>4, <1>6 DEF Kept, RowInv, TypeOK
<1>14. TypeOK'
  <2>1. nextSeq' \in Nat
    BY DEF SeqOK
  <2> QED BY <1>1, <1>6, <1>10, <1>11, <1>13, <2>1, TableTyped DEF TypeOK, WorldTyped
<1>15. ASSUME NEW u \in Tokens
       PROVE  TokenFits(u, hitl', verdict', rows', Brought', unguarded')
  <2>1. u # None /\ ~Tells(u, None, None)
    BY NoneAssumption DEF Tells
  <2>2. CASE u # t
    <3>1. u \in DOMAIN s => /\ u \in DOMAIN hitl /\ s[u].status = hitl[u].status
                            /\ s[u].audit <=> hitl[u].audit
      BY <1>4, <1>6, <2>2 DEF Kept
    <3>2. verdict'[u] = Lapsed(s)[u] /\ (u \in unguarded => u \in unguarded')
      BY <1>1, <1>7
    <3> QED BY <1>1, <1>12, <2>1, <3>1, <3>2, OtherFits
  <2>3. CASE u = t
    <3>1. hitl' = s /\ TokenFits(t, hitl, verdict, rows, Brought, unguarded)
      BY <1>1, <1>2 DEF TableBecomes, RowInv, RowsFit
    <3>2. Pending(s, t) => Pending(hitl, t)
      BY <1>4, <1>6 DEF Pending, Kept
    <3>3. Falls(s, None, t) => Pending(hitl, t) /\ ~Pending(s, t)
      BY DEF Falls, Pending
    <3>4. OneVerdict(rows'[t]) /\ (~Falls(s, None, t) => rows'[t] = rows[t])
      BY <1>1, <2>1, <2>3, <3>1, <3>3, Written, RequestNow DEF TokenFits
    <3>5. t \in unguarded' /\ verdict'[t] # "unasked"
      BY <1>1, <1>2, <1>8
    <3>6. ~(Pending(s, t) /\ t \in Brought) /\ (Pending(s, t) \/ t \in Brought => NoVerdict(rows'[t]))
      BY <3>1, <3>2, <3>3, <3>4 DEF TokenFits
    <3> QED BY <1>12, <2>3, <3>1, <3>4, <3>5, <3>6 DEF TokenFits
  <2> QED BY <2>2, <2>3
<1>16. ShownFits'
  BY <1>1, <1>8 DEF ShownFits, RowInv
<1> QED BY <1>11, <1>14, <1>15, <1>16 DEF RowInv, RowsFit

\* A step about one prompt t, which is left asked or settled.
Acts(t, s, spent, k, row) ==
    /\ spent \in {None, t} /\ k \in {None, t} /\ row \in Rows \cup {None}
    /\ TableBecomes(s, spent, k, row)
    /\ DOMAIN s \subseteq Tokens /\ \A u \in DOMAIN s : s[u] \in Record
    /\ \A u \in DOMAIN s : u # t => /\ u \in DOMAIN hitl /\ s[u].status = hitl[u].status
                                    /\ s[u].audit <=> hitl[u].audit
    /\ \A u \in Tokens : u # t => /\ verdict'[u] = Lapsed(s)[u] /\ shown'[u] = shown[u]
                                  /\ u \in Brought' <=> u \in Brought
    /\ verdict'[t] # "unasked" /\ UNCHANGED unguarded

\* The other prompts fit by themselves.
LEMMA ActFits ==
    ASSUME RowInv, SeqOK', WorldTyped', RequestsFit', req' \in [Reqs -> Entry],
           NEW t \in Tokens, NEW s, NEW spent, NEW k, NEW row, Acts(t, s, spent, k, row),
           TokenFits(t, hitl', verdict', rows', Brought', unguarded')
    PROVE  RowInv'
<1> USE DEF Acts
<1>1. TypeOK'
  <2>1. nextSeq' \in Nat
    BY DEF SeqOK
  <2> QED BY <2>1, TableTyped DEF TypeOK, WorldTyped
<1>2. ASSUME NEW u \in Tokens, u # t
      PROVE  TokenFits(u, hitl', verdict', rows', Brought', unguarded')
  <2>1. u # spent /\ ~Tells(u, k, row)
    BY <1>2, NoneAssumption DEF Tells
  <2>2. u \in DOMAIN s => /\ u \in DOMAIN hitl /\ s[u].status = hitl[u].status
                          /\ s[u].audit <=> hitl[u].audit
    BY <1>2
  <2>3. verdict'[u] = Lapsed(s)[u] /\ (u \in Brought' <=> u \in Brought)
    BY <1>2
  <2> QED BY <2>1, <2>2, <2>3, OtherFits
<1>3. RowsFit'
  BY <1>2 DEF RowsFit
<1>4. ASSUME NEW u \in Tokens, shown'[u] # None PROVE verdict'[u] # "unasked"
  <2>1. CASE u = t
    BY <2>1
  <2>2. CASE u # t
    <3>1. verdict[u] # "unasked" /\ verdict'[u] = Lapsed(s)[u]
      BY <1>4, <2>2 DEF RowInv, ShownFits
    <3> QED BY <3>1 DEF Lapsed
  <2> QED BY <2>1, <2>2
<1> QED BY <1>1, <1>3, <1>4 DEF RowInv, ShownFits

\* Revalidation: a request that brought the approval writes its row, or that it is stale.
LEMMA RevalidateRows ==
    ASSUME RowInv, SeqOK', NEW r \in Reqs, Revalidate(r)
    PROVE  RowInv'
<1> DEFINE t == req[r].token
<1>1. /\ req[r].pc = "revalidate" /\ req[r] \in Entry /\ t \in Tokens /\ verdict[t] # "unasked"
      /\ req[r].call \in Calls /\ req[r].fp \in Defs /\ req[r].owner \in Owners
      /\ UNCHANGED <<cancelled, firing, now, route, gated, upsets, shown, ran, finished, unguarded>>
  BY RequestNow DEF Revalidate, RequestFits, Fresh, Passed, cancelVars, worldVars, histVars
<1>2. CASE Finish(t, "stale_state") /\ Return(r)
  <2>1. "stale_state" # None
    BY NoneAssumption DEF Rows
  <2> QED BY <1>1, <1>2, <2>1, FinishRows DEF Fresh
<1>3. ASSUME StillValid(r), UNCHANGED verdict,
             TableBecomes(hitl, None, t, IF req[r].newly THEN "approved" ELSE None),
             Go(r, [req[r] EXCEPT !.pc = "dispatch", !.newly = FALSE,
                                  !.fp = route.def, !.owner = route.owner])
      PROVE  RowInv'
  <2> DEFINE e == [req[r] EXCEPT !.pc = "dispatch", !.newly = FALSE,
                                 !.fp = route.def, !.owner = route.owner]
  <2>1. route.owner = req[r].owner /\ route.def = req[r].fp
    BY <1>3 DEF StillValid
  <2>2. /\ e \in Entry /\ e.pc = "dispatch" /\ e.token = t /\ e.call = req[r].call
        /\ e.fp = req[r].fp /\ e.owner = req[r].owner /\ req' = [req EXCEPT ![r] = e]
    BY <1>1, <1>3, <2>1 DEF Entry, Go
  <2> HIDE DEF e
  <2>3. RequestFits(e, verdict) /\ ~Brings(e, t) /\ e.pc \notin Fresh
    BY <1>1, <2>2 DEF RequestFits, Fresh, Passed, Brings
  <2>4. WorldTyped' /\ verdict' = Lapsed(hitl) /\ Kept(hitl)
    BY <1>1, <1>3, RequestNow, StoreKeeps DEF WorldTyped
  <2>5. CASE ~req[r].newly
    <3>1. TableBecomes(hitl, None, t, None) /\ ~Brings(req[r], t)
      BY <1>3, <2>5 DEF Brings
    <3> QED BY <1>1, <2>2, <2>3, <2>4, <3>1, MoveFits
  <2>6. CASE req[r].newly
    <3>1. TableBecomes(hitl, None, t, "approved") /\ Brings(req[r], t)
      BY <1>1, <1>3, <2>6 DEF Brings
    <3>2. /\ RequestsFit' /\ req' \in [Reqs -> Entry]
          /\ \A u \in Tokens : u # t => (u \in Brought' <=> u \in Brought)
      BY <1>3, <2>2, <2>3, ReqFits
    <3>3. t \in Brought /\ t \notin Brought'
      <4>1. \A q \in Reqs : q # r => ~Brings(req[q], t)
        BY <3>1 DEF RowInv, RequestsFit
      <4>2. \A q \in Reqs : ~Brings(req'[q], t)
        BY <2>2, <2>3, <4>1 DEF RowInv, TypeOK
      <4> QED BY <1>1, <3>1, <4>2 DEF Brought
    <3>4. TokenFits(t, hitl, verdict, rows, Brought, unguarded) /\ hitl' = hitl
      BY <1>1, <3>1 DEF RowInv, RowsFit, TableBecomes
    <3>5. "approved" \in Rows /\ Tells(t, t, "approved") /\ ~Falls(hitl, None, t)
      BY NoneAssumption DEF Rows, Tells, Falls
    <3>6. OneVerdict(rows'[t]) /\ rows'[t] # <<>>
      BY <1>1, <3>1, <3>3, <3>4, <3>5, Written, RequestNow DEF TokenFits
    <3>7. TokenFits(t, hitl', verdict', rows', Brought', unguarded')
      BY <1>1, <1>3, <3>3, <3>4, <3>6 DEF TokenFits
    <3>8. DOMAIN hitl \subseteq Tokens /\ \A u \in DOMAIN hitl : hitl[u] \in Record
      BY DEF RowInv, TypeOK
    <3>9. Acts(t, hitl, None, t, "approved")
      BY <1>1, <1>3, <2>4, <3>1, <3>2, <3>5, <3>8 DEF Acts
    <3> QED BY <1>1, <2>4, <3>2, <3>7, <3>9, ActFits
  <2> QED BY <2>5, <2>6
<1> QED BY <1>2, <1>3 DEF Revalidate

\* The call goes out or not, and ends.
LEMMA RunRows ==
    ASSUME RowInv, SeqOK', NEW r \in Reqs, Dispatch(r) \/ Complete(r)
    PROVE  RowInv'
<1> DEFINE t == req[r].token
<1>1. /\ req[r].pc \in {"dispatch", "running"} /\ req[r] \in Entry /\ t \in Tokens
      /\ verdict[t] # "unasked" /\ ~Brings(req[r], t) /\ req[r].pc \notin Fresh \cup {"idle"}
      /\ req[r].call \in Calls /\ req[r].fp \in Defs /\ req[r].owner \in Owners
      /\ UNCHANGED <<cancelled, firing, now, route, gated, upsets, shown, unguarded>>
  BY RequestNow DEF Dispatch, Complete, RequestFits, Fresh, Passed, Brings, cancelVars, worldVars
<1>2. CASE /\ Finish(t, None) /\ Return(r) /\ UNCHANGED ran
           /\ finished' \in {finished, finished \cup {t}}
  BY <1>1, <1>2, FinishRows
<1>3. CASE Return(r) /\ UNCHANGED <<tableVars, verdict, ran, finished>>
  <2>1. req' = [req EXCEPT ![r] = Idle] /\ UNCHANGED <<hitl, terminal, rows, verdict>>
    BY <1>3 DEF Return, Go, tableVars
  <2>2. WorldTyped'
    BY <1>1, <1>3, RequestNow DEF WorldTyped
  <2> QED BY <1>1, <2>1, <2>2, IdleFits, PassFits
<1>4. ASSUME ran' = ran \cup {<<t, <<req[r].call, req[r].fp>>>>},
             Go(r, [req[r] EXCEPT !.pc = "running"]), UNCHANGED <<tableVars, verdict, finished>>
      PROVE  RowInv'
  <2> DEFINE e == [req[r] EXCEPT !.pc = "running"]
  <2>1. /\ e \in Entry /\ e.pc = "running" /\ e.token = t /\ e.call = req[r].call
        /\ e.fp = req[r].fp /\ e.owner = req[r].owner /\ req' = [req EXCEPT ![r] = e]
    BY <1>1, <1>4 DEF Entry, Go
  <2> HIDE DEF e
  <2>2. RequestFits(e, verdict) /\ ~Brings(e, t) /\ e.pc \notin Fresh
    BY <1>1, <2>1 DEF RequestFits, Fresh, Passed, Brings
  <2>3. UNCHANGED <<hitl, terminal, rows, verdict>>
    BY <1>4 DEF tableVars
  <2>4. ran' \subseteq Tokens \X Contents
    <3>1. <<req[r].call, req[r].fp>> \in Contents
      BY <1>1 DEF Contents
    <3> QED BY <1>1, <1>4, <3>1, RequestNow DEF WorldTyped
  <2>5. WorldTyped'
    BY <1>1, <1>4, <2>3, <2>4, RequestNow DEF WorldTyped
  <2> QED BY <1>1, <2>1, <2>2, <2>3, <2>5, PassFits
<1>5. ASSUME TableBecomes(Store!Touch(hitl, t, now), None, None, None),
             verdict' = Lapsed(Store!Touch(hitl, t, now)), Return(r), UNCHANGED <<ran, finished>>
      PROVE  RowInv'
  <2>1. PICK s : Kept(s) /\ TableBecomes(s, None, None, None) /\ verdict' = Lapsed(s)
    BY <1>5, StoreKeeps, RequestNow
  <2>2. WorldTyped' /\ req' = [req EXCEPT ![r] = Idle]
    BY <1>1, <1>5, <2>1, LapsedFacts, RequestNow DEF WorldTyped, Return, Go
  <2> QED BY <1>1, <2>1, <2>2, IdleFits, MoveFits
<1>6. CASE Dispatch(r)
  BY <1>2, <1>3, <1>4, <1>6 DEF Dispatch
<1>7. CASE Complete(r)
  BY <1>2, <1>3, <1>5, <1>7 DEF Complete
<1> QED BY <1>6, <1>7

\* A poll that ends the prompt writes the row itself, in place of the record.
LEMMA PollEndsRows ==
    ASSUME RowInv, SeqOK', NEW r \in Reqs, NEW row \in {"stale_state", "no_response", "denied"},
           req[r].pc = "poll", req[r].token \in DOMAIN hitl, PollEnds(r, row),
           row # "stale_state" => hitl[req[r].token].status = "awaiting",
           UNCHANGED <<cancelled, firing, now, route, gated, upsets, shown, ran, finished, unguarded>>
    PROVE  RowInv'
<1> DEFINE t == req[r].token
           s == Store!Remove(hitl, t)
<1>1. t \in Tokens /\ verdict[t] # "unasked" /\ TypeOK /\ WorldTyped
  BY RequestNow DEF RequestFits, Fresh
<1>2. /\ TableBecomes(s, t, t, row) /\ req' = [req EXCEPT ![r] = Idle]
      /\ verdict' = IF row = "denied" THEN [verdict EXCEPT ![t] = "no"] ELSE Lapsed(s)
  BY DEF PollEnds, Return, Go
<1>3. DOMAIN s = DOMAIN hitl \ {t} /\ Kept(s)
  BY <1>1, StoreKeeps DEF Store!Remove, Store!Keep
<1> HIDE DEF s
<1>4. /\ \A u \in Tokens : u # t => verdict'[u] = Lapsed(s)[u]
      /\ \A u \in Tokens : u # t => verdict'[u] = verdict[u]
      /\ verdict'[t] = IF row = "denied" THEN "no" ELSE IF verdict[t] = "asked" THEN "lapsed" ELSE verdict[t]
      /\ verdict' \in [Tokens -> {"unasked", "asked", "yes", "no", "lapsed"}]
  BY <1>1, <1>2, <1>3 DEF Lapsed, WorldTyped
<1>5. WorldTyped'
  BY <1>1, <1>4 DEF WorldTyped
<1>6. /\ RequestsFit' /\ req' \in [Reqs -> Entry]
      /\ \A u \in Brought' : u \in Brought \/ Brings(Idle, u)
      /\ \A u \in Brought : u \in Brought' \/ Brings(req[r], u)
  <2>1. \A u \in Tokens : verdict[u] # "unasked" => verdict'[u] # "unasked"
    BY <1>1, <1>4
  <2>2. \A u \in Tokens : verdict[u] = "unasked" /\ u # t => verdict'[u] = "unasked"
    BY <1>4
  <2> QED BY <1>2, <2>1, <2>2, IdleFits, ReqFits
<1>7. Brought' = Brought
  BY <1>6, IdleFits DEF Brings
<1>8. TokenFits(t, hitl, verdict, rows, Brought, unguarded) /\ hitl' = s
  BY <1>1, <1>2 DEF RowInv, RowsFit, TableBecomes
<1>9. row \in Rows /\ row # None /\ Tells(t, t, row) /\ ~Falls(s, t, t) /\ "stale_state" \notin Verdicts
  BY NoneAssumption DEF Rows, Tells, Falls, Verdicts
<1>10. row # "stale_state" => Pending(hitl, t)
  BY DEF Pending
<1>11. rows'[t] # <<>> /\ OneVerdict(rows'[t]) /\ (t \in Brought => NoVerdict(rows'[t]))
  BY <1>1, <1>2, <1>8, <1>9, <1>10, Written DEF TokenFits
<1>12. TokenFits(t, hitl', verdict', rows', Brought', unguarded')
  BY <1>1, <1>3, <1>4, <1>7, <1>8, <1>11 DEF TokenFits, Pending
<1>13. /\ DOMAIN s \subseteq Tokens /\ \A u \in DOMAIN s : s[u] \in Record
       /\ \A u \in DOMAIN s : /\ u \in DOMAIN hitl /\ s[u].status = hitl[u].status
                              /\ s[u].audit <=> hitl[u].audit
  BY <1>1, <1>3 DEF Kept, TypeOK
<1>14. verdict'[t] # "unasked"
  BY <1>1, <1>4
<1>15. Acts(t, s, t, t, row)
  BY <1>2, <1>4, <1>7, <1>9, <1>13, <1>14 DEF Acts
<1> QED BY <1>1, <1>5, <1>6, <1>12, <1>15, ActFits

\* A poll that approves leaves the row to its request, the first time only.
LEMMA PollApprovesRows ==
    ASSUME RowInv, SeqOK', NEW r \in Reqs, NEW c \in Calls, NEW newly \in BOOLEAN,
           req[r].pc = "poll", req[r].token \in DOMAIN hitl, PollApproves(r, c, newly),
           newly <=> hitl[req[r].token].status = "awaiting",
           UNCHANGED <<cancelled, firing, now, route, gated, upsets, shown, ran, finished, unguarded>>
    PROVE  RowInv'
<1> DEFINE t == req[r].token
           s == [hitl EXCEPT ![t] = ApprovedRecord(@)]
           e == [req[r] EXCEPT !.pc = "revalidate", !.call = c, !.fp = hitl[t].fp, !.newly = newly]
<1>1. /\ t \in Tokens /\ verdict[t] # "unasked" /\ TypeOK /\ WorldTyped /\ req[r] \in Entry
      /\ req[r].owner \in Owners /\ hitl[t] \in Record /\ now \in Nat
  BY RequestNow DEF RequestFits, Fresh, TypeOK
<1>2. /\ TableBecomes(s, None, None, None) /\ req' = [req EXCEPT ![r] = e]
      /\ verdict' = IF newly THEN [verdict EXCEPT ![t] = "yes"] ELSE verdict
  BY DEF PollApproves, Go
<1>3. hitl[t].fp \in Defs
  BY <1>1 DEF Record
<1>4. /\ e \in Entry /\ e.pc = "revalidate" /\ e.token = t /\ e.call = c /\ e.fp \in Defs
      /\ e.owner = req[r].owner /\ e.newly = newly
  BY <1>1, <1>3 DEF Entry
<1>5. ApprovedRecord(hitl[t]) \in Record /\ ApprovedRecord(hitl[t]).status = "approved"
      /\ ApprovedRecord(hitl[t]).audit = FALSE
  BY <1>1 DEF ApprovedRecord, Record
<1>6. /\ DOMAIN s = DOMAIN hitl /\ s[t] = ApprovedRecord(hitl[t])
      /\ \A u \in DOMAIN hitl : u # t => s[u] = hitl[u]
  OBVIOUS
<1> HIDE DEF s, e
<1>7. /\ \A u \in Tokens : u # t => verdict'[u] = Lapsed(s)[u] /\ verdict'[u] = verdict[u]
      /\ verdict'[t] = IF newly THEN "yes" ELSE verdict[t]
      /\ verdict' \in [Tokens -> {"unasked", "asked", "yes", "no", "lapsed"}]
  BY <1>1, <1>2, <1>6 DEF Lapsed, WorldTyped
<1>8. WorldTyped' /\ verdict'[t] # "unasked"
  BY <1>1, <1>7 DEF WorldTyped
<1>9. TokenFits(t, hitl, verdict, rows, Brought, unguarded) /\ hitl' = s
  BY <1>1, <1>2 DEF RowInv, RowsFit, TableBecomes
<1>10. newly => Pending(hitl, t) /\ NoVerdict(rows[t]) /\ t \notin Brought
  BY <1>9 DEF Pending, TokenFits
<1>11. /\ RequestsFit' /\ req' \in [Reqs -> Entry]
       /\ \A u \in Tokens : u # t => (u \in Brought' <=> u \in Brought)
       /\ \A u \in Brought' : u \in Brought \/ Brings(e, u)
       /\ \A u \in Brought : u \in Brought' \/ Brings(req[r], u)
  <2>1. e.pc \notin Fresh /\ RequestFits(e, verdict')
    BY <1>1, <1>4, <1>8 DEF RequestFits, Fresh, Passed
  <2>2. \A u \in Tokens : verdict[u] # "unasked" => verdict'[u] # "unasked"
    BY <1>7
  <2>3. \A u \in Tokens : verdict[u] = "unasked" /\ u # t => verdict'[u] = "unasked"
    BY <1>7
  <2>4. Brings(e, t) => t \notin Brought
    BY <1>4, <1>10 DEF Brings
  <2> QED BY <1>2, <1>4, <2>1, <2>2, <2>3, <2>4, ReqFits
<1>12. IF newly THEN t \in Brought' ELSE t \in Brought' <=> t \in Brought
  <2>1. req'[r] = e
    BY <1>1, <1>2 DEF TypeOK
  <2>2. newly => t \in Brought'
    BY <1>1, <1>4, <2>1 DEF Brought, Brings
  <2>3. ~newly => (t \in Brought' <=> t \in Brought)
    BY <1>4, <1>11 DEF Brings
  <2> QED BY <2>2, <2>3
<1>13. ~Falls(s, None, t) /\ ~Tells(t, None, None) /\ None \in Rows \cup {None}
  BY <1>6 DEF Falls, Tells
<1>14. rows'[t] = rows[t]
  BY <1>1, <1>2, <1>13, Written
<1>15. ~Pending(s, t)
  BY <1>5, <1>6 DEF Pending
<1>16. TokenFits(t, hitl', verdict', rows', Brought', unguarded')
  <2>1. CASE newly
    BY <1>7, <1>9, <1>10, <1>12, <1>14, <1>15, <2>1 DEF TokenFits
  <2>2. CASE ~newly
    BY <1>1, <1>7, <1>9, <1>12, <1>14, <1>15, <2>2 DEF TokenFits
  <2> QED BY <2>1, <2>2
<1>17. /\ DOMAIN s \subseteq Tokens /\ \A u \in DOMAIN s : s[u] \in Record
       /\ \A u \in DOMAIN s : u # t => /\ u \in DOMAIN hitl /\ s[u].status = hitl[u].status
                                       /\ s[u].audit <=> hitl[u].audit
  BY <1>1, <1>5, <1>6 DEF TypeOK
<1>18. Acts(t, s, None, None, None)
  BY <1>2, <1>7, <1>8, <1>11, <1>13, <1>17 DEF Acts
<1> QED BY <1>1, <1>8, <1>11, <1>16, <1>18, ActFits

\* poll_modern_hitl, however the answer, the clock and the record meet.
LEMMA PollRows ==
    ASSUME RowInv, SeqOK', NEW r \in Reqs, NEW c \in Calls, NEW a \in Answers, Poll(r, c, a)
    PROVE  RowInv'
<1> DEFINE t == req[r].token
           S == Store!Touch(hitl, t, now)
<1>1. /\ req[r].pc = "poll" /\ t \in Tokens /\ verdict[t] # "unasked" /\ TypeOK /\ WorldTyped
      /\ UNCHANGED <<cancelled, firing, now, route, gated, upsets, shown, ran, finished, unguarded>>
  BY RequestNow DEF RequestFits, Fresh, Poll, cancelVars, worldVars, histVars
<1>2. ~Brings(req[r], t)
  BY <1>1 DEF Brings
<1>3. Kept(S)
  BY <1>1, StoreKeeps
<1>4. CASE PollMisses(r)
  <2> DEFINE e == At("missing", t, None, None)
  <2>1. /\ TableBecomes(S, None, None, None) /\ verdict' = Lapsed(S)
        /\ req' = [req EXCEPT ![r] = e]
    BY <1>4 DEF PollMisses, Go
  <2>2. e \in Entry /\ e.pc = "missing" /\ e.token = t
    BY <1>1 DEF At, Entry
  <2> HIDE DEF e, S
  <2>3. RequestFits(e, verdict) /\ e.pc \notin Fresh /\ ~Brings(e, t)
    BY <1>1, <2>2 DEF RequestFits, Fresh, Passed, Brings
  <2>4. WorldTyped'
    BY <1>1, <2>1, LapsedFacts DEF WorldTyped
  <2> QED BY <1>1, <1>2, <1>3, <2>1, <2>2, <2>3, <2>4, MoveFits
<1>5. ASSUME Store!Live(hitl, t, now), TableBecomes([hitl EXCEPT ![t].seen = now], None, None, None),
             Return(r), UNCHANGED verdict
      PROVE  RowInv'
  <2>1. S = [hitl EXCEPT ![t].seen = now] /\ DOMAIN S = DOMAIN hitl
    BY <1>5 DEF Store!Touch
  <2>2. TableBecomes(S, None, None, None)
    BY <1>5, <2>1
  <2> HIDE DEF S
  <2>3. verdict' = Lapsed(S) /\ WorldTyped' /\ req' = [req EXCEPT ![r] = Idle]
    BY <1>1, <1>5, <2>1 DEF Lapsed, WorldTyped, Return, Go
  <2> QED BY <1>1, <1>2, <1>3, <2>2, <2>3, IdleFits, MoveFits
<1>6. Store!Live(hitl, t, now) => t \in DOMAIN hitl
  BY DEF Store!Live
<1>7. ASSUME Store!Live(hitl, t, now), NEW row \in {"stale_state", "no_response", "denied"},
             PollEnds(r, row), row # "stale_state" => hitl[t].status = "awaiting"
      PROVE  RowInv'
  BY <1>1, <1>6, <1>7, PollEndsRows
<1>8. ASSUME Store!Live(hitl, t, now), NEW newly \in BOOLEAN, PollApproves(r, c, newly),
             newly <=> hitl[t].status = "awaiting"
      PROVE  RowInv'
  BY <1>1, <1>6, <1>8, PollApprovesRows
<1> HIDE DEF S
<1>9. \/ PollMisses(r)
      \/ Store!Live(hitl, t, now) /\ PollEnds(r, "stale_state")
      \/ Store!Live(hitl, t, now) /\ hitl[t].status = "awaiting" /\ PollEnds(r, "no_response")
      \/ Store!Live(hitl, t, now) /\ hitl[t].status = "awaiting" /\ PollEnds(r, "denied")
      \/ Store!Live(hitl, t, now) /\ hitl[t].status = "awaiting" /\ PollApproves(r, c, TRUE)
      \/ /\ Store!Live(hitl, t, now) /\ TableBecomes([hitl EXCEPT ![t].seen = now], None, None, None)
         /\ Return(r) /\ UNCHANGED verdict
      \/ Store!Live(hitl, t, now) /\ hitl[t].status # "awaiting" /\ PollApproves(r, c, FALSE)
  BY Zenon DEF Poll
<1> QED BY <1>4, <1>5, <1>7, <1>8, <1>9

\* start_modern_hitl under the table's lock: the prompt is put, or refused with its only row.
LEMMA StartRows ==
    ASSUME RowInv, SeqOK', NEW r \in Reqs, NEW c \in Calls, StartPrompt(r, c)
    PROVE  RowInv'
<1> DEFINE t == req[r].token
           s == Store!ReapExpired(hitl, now)
           full == Store!Insert(s, t, NewRecord(r, c), now)
<1>1. /\ req[r].pc = "insert" /\ req[r] \in Entry /\ t \in Tokens /\ verdict[t] = "unasked"
      /\ req[r].fp \in Defs /\ req[r].owner \in Owners /\ TypeOK /\ WorldTyped /\ SeqOK
      /\ req' = [req EXCEPT ![r] = Idle] /\ ~Brings(req[r], t)
      /\ UNCHANGED <<cancelled, firing, now, route, gated, upsets, ran, finished, unguarded>>
  BY RequestNow DEF RequestFits, Fresh, StartPrompt, Return, Go, Brings, cancelVars, worldVars, RowInv
<1>2. TokenFits(t, hitl, verdict, rows, Brought, unguarded)
  BY <1>1 DEF RowInv, RowsFit
<1>3. rows[t] = <<>> /\ t \notin DOMAIN hitl /\ t \notin Brought
  BY <1>1, <1>2 DEF TokenFits
<1>4. OneVerdict(<<>>) /\ NoVerdict(<<>>)
  BY DEF OneVerdict, NoVerdict
<1>5. Kept(s)
  BY <1>1, StoreKeeps
<1>6. ASSUME verdict' \in [Tokens -> {"unasked", "asked", "yes", "no", "lapsed"}],
             verdict'[t] # "unasked", NEW z,
             \A u \in Tokens : u # t => verdict'[u] = Lapsed(z)[u]
      PROVE  RequestsFit' /\ req' \in [Reqs -> Entry] /\ Brought' = Brought
  <2>1. \A u \in Tokens : u # t => (verdict'[u] = "unasked" <=> verdict[u] = "unasked")
    BY <1>6 DEF Lapsed
  <2>2. /\ \A u \in Tokens : verdict[u] # "unasked" => verdict'[u] # "unasked"
        /\ \A u \in Tokens : verdict[u] = "unasked" /\ u # t => verdict'[u] = "unasked"
    BY <1>6, <2>1
  <2>3. /\ RequestsFit' /\ req' \in [Reqs -> Entry]
        /\ \A u \in Brought' : u \in Brought \/ Brings(Idle, u)
        /\ \A u \in Brought : u \in Brought' \/ Brings(req[r], u)
    BY <1>1, <2>2, IdleFits, ReqFits
  <2> QED BY <1>1, <2>3, IdleFits DEF Brings
<1>7. CASE Refusal(r, s) # None
  <2>1. PICK row \in {"withdrawn", "unreachable"} : row = Refusal(r, s)
    BY <1>7 DEF Refusal
  <2> HIDE DEF s, full
  <2>2. TableBecomes(s, None, t, row) /\ verdict' = [Lapsed(s) EXCEPT ![t] = "lapsed"] /\ UNCHANGED shown
    BY <1>7, <2>1 DEF StartPrompt, s
  <2>3. /\ verdict' \in [Tokens -> {"unasked", "asked", "yes", "no", "lapsed"}]
        /\ verdict'[t] = "lapsed" /\ \A u \in Tokens : u # t => verdict'[u] = Lapsed(s)[u]
    BY <1>1, <2>2 DEF Lapsed, WorldTyped
  <2>4. RequestsFit' /\ req' \in [Reqs -> Entry] /\ Brought' = Brought
    BY <1>6, <2>3
  <2>5. WorldTyped'
    BY <1>1, <2>2, <2>3 DEF WorldTyped
  <2>6. row \in Rows /\ row # None /\ Tells(t, t, row) /\ ~Falls(s, None, t)
    BY <1>3, NoneAssumption DEF Rows, Tells, Falls
  <2>7. hitl' = s /\ OneVerdict(rows'[t]) /\ rows'[t] # <<>> /\ t \notin DOMAIN s
    <3>1. hitl' = s /\ t \notin DOMAIN s
      BY <1>3, <1>5, <2>2 DEF TableBecomes, Kept
    <3>2. NoVerdict(rows[t])
      BY <1>3, <1>4
    <3> QED BY <1>1, <2>2, <2>6, <3>1, <3>2, Written
  <2>8. TokenFits(t, hitl', verdict', rows', Brought', unguarded')
    BY <1>3, <2>3, <2>4, <2>7 DEF TokenFits, Pending
  <2>9. Acts(t, s, None, t, row)
    BY <1>1, <1>5, <2>2, <2>3, <2>4, <2>6 DEF Acts, Kept, TypeOK
  <2> QED BY <1>1, <2>4, <2>5, <2>8, <2>9, ActFits
<1>8. CASE Refusal(r, s) = None
  <2> DEFINE e == NewRecord(r, c)
  <2>1. e \in Record /\ e.audit = TRUE /\ e.status = "awaiting"
    BY <1>1 DEF NewRecord, Record, WorldTyped, SeqOK
  <2>2. /\ \A u \in DOMAIN full : u = t \/ (u \in DOMAIN hitl /\ full[u] = hitl[u])
        /\ t \in DOMAIN full /\ full[t] = e
    BY <1>1, <1>8, Inserted
  <2> HIDE DEF s, full, e
  <2>3. /\ TableBecomes(full, None, t, None) /\ verdict' = [Lapsed(full) EXCEPT ![t] = "asked"]
        /\ shown' = [shown EXCEPT ![t] = <<c, req[r].fp>>]
    BY <1>8 DEF StartPrompt, s, full
  <2>4. /\ verdict' \in [Tokens -> {"unasked", "asked", "yes", "no", "lapsed"}]
        /\ verdict'[t] = "asked" /\ \A u \in Tokens : u # t => verdict'[u] = Lapsed(full)[u]
    BY <1>1, <2>3 DEF Lapsed, WorldTyped
  <2>5. RequestsFit' /\ req' \in [Reqs -> Entry] /\ Brought' = Brought
    BY <1>6, <2>4
  <2>6. <<c, req[r].fp>> \in Contents
    BY <1>1 DEF Contents
  <2>7. /\ shown' \in [Tokens -> Contents \cup {None}]
        /\ \A u \in Tokens : u # t => shown'[u] = shown[u]
    BY <1>1, <2>3, <2>6 DEF WorldTyped
  <2>8. WorldTyped'
    BY <1>1, <2>4, <2>7 DEF WorldTyped
  <2>9. ~Tells(t, t, None) /\ ~Falls(full, None, t) /\ None \in Rows \cup {None}
    BY <1>3 DEF Tells, Falls
  <2>10. hitl' = full /\ rows'[t] = <<>>
    BY <1>1, <1>3, <2>3, <2>9, Written DEF TableBecomes
  <2>11. TokenFits(t, hitl', verdict', rows', Brought', unguarded')
    BY <1>3, <1>4, <2>1, <2>2, <2>4, <2>5, <2>10 DEF TokenFits
  <2>12. DOMAIN full \subseteq Tokens /\ \A u \in DOMAIN full : full[u] \in Record
    BY <1>1, <2>1, <2>2 DEF TypeOK
  <2>13. Acts(t, full, None, t, None)
    BY <1>1, <2>2, <2>3, <2>4, <2>5, <2>7, <2>9, <2>12 DEF Acts
  <2> QED BY <1>1, <2>5, <2>8, <2>11, <2>13, ActFits
<1> QED BY <1>7, <1>8

\* However polls, expiry, cancellation and the end of a session race, the audit log of a
\* modern prompt gets at most one verdict, and a settled prompt that no request is busy with
\* has a row (abandoned_audit, poll_modern_hitl, finish_modern_hitl): RowInv names, for each
\* token, the one party that still owes the verdict.
THEOREM RowsStayOK == Spec => []RowsOK
<1>1. Init => RowInv
  <2> SUFFICES ASSUME Init PROVE RowInv
    OBVIOUS
  <2>1. DOMAIN hitl = {} /\ <<>> \in Seq(Tokens) /\ <<>> \in Seq(Rows)
    BY DEF Init
  <2>2. TypeOK
    BY <2>1, IdleEntry DEF Init, TypeOK
  <2>3. SeqOK
    BY <2>1, FS_EmptySet DEF Init, SeqOK
  <2>4. \A r \in Reqs : req[r] = Idle
    BY DEF Init
  <2>5. RequestsFit /\ Brought = {}
    BY <2>4, IdleFits DEF RequestsFit, Brought
  <2>6. OneVerdict(<<>>)
    BY DEF OneVerdict
  <2>7. RowsFit /\ ShownFits
    BY <2>1, <2>5, <2>6 DEF Init, RowsFit, TokenFits, Pending, ShownFits
  <2> QED BY <2>2, <2>3, <2>5, <2>7 DEF RowInv
<1>2. RowInv /\ [Next]_vars => RowInv'
  <2> SUFFICES ASSUME RowInv, [Next]_vars PROVE RowInv'
    OBVIOUS
  <2>1. SeqOK'
    BY SeqStep DEF RowInv
  <2>2. ASSUME NEW r \in Reqs, ReqStep(r) PROVE RowInv'
    BY <2>1, <2>2, TakeRows, StartRows, PollRows, GiveUpRows, ForgetRows, RevalidateRows, RunRows
       DEF ReqStep
  <2>3. ASSUME NEW r \in Reqs, NEW t \in Tokens, SendFresh(r, t) \/ SendResume(r, t) PROVE RowInv'
    BY <2>1, <2>3, TakeRows
  <2>4. ASSUME \/ \E t \in Tokens : Cancel(t) \/ FireHook(t)
               \/ \E sc \in Scopes : ClearScope(sc)
               \/ Tick \/ ChangeRoute \/ ChangeGate \/ UNCHANGED vars
        PROVE  RowInv'
    BY <2>1, <2>4, WorldRows, EndRows
  <2> QED BY <2>2, <2>3, <2>4 DEF Next
<1>3. RowInv => RowsOK
  <2> SUFFICES ASSUME RowInv PROVE RowsOK
    OBVIOUS
  <2>1. OneVerdictRow
    BY DEF RowInv, RowsFit, TokenFits, OneVerdict, OneVerdictRow
  <2>2. \A u \in Brought : InFlight(u)
    BY DEF Brought, Brings, InFlight
  <2>3. EndsAreRecorded
    BY <2>2 DEF RowInv, RowsFit, TokenFits, EndsAreRecorded
  <2> QED BY <2>1, <2>3 DEF RowsOK, RowInv
<1> QED BY <1>1, <1>2, <1>3, PTL DEF Spec
=============================================================================
