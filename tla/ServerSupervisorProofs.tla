----------------------- MODULE ServerSupervisorProofs -----------------------
(***************************************************************************)
(* Theorems of ServerSupervisor for any callers, slots, roots and moves    *)
(* between them, and any failure threshold.                                *)
(***************************************************************************)
EXTENDS ServerSupervisor, TLAPS

SlotRecs == [state: {"Stopped", "Starting", "Ready", "Backoff", "NeedsAuth"},
             everReady: BOOLEAN, publishing: BOOLEAN, ready: BOOLEAN,
             endpoint: BOOLEAN, retired: BOOLEAN, spec: Roots]
Conditions == {"stopped", "open", "wedged", "closed", "reset", "stale"}
Breakers == [failures: 0..BREAKER_FAILURE_THRESHOLD, open: BOOLEAN]
Marks == {"generation", "success", "response", "failure"}
CallRecs == [pc: {"idle", "start", "wait", "breaker", "look", "admit", "fetch", "run",
                  "ended", "record"},
             slot: Slots \cup {None}, locked: BOOLEAN, probe: BOOLEAN, since: SUBSET Marks,
             kind: {"none", "ok", "rpc", "auth", "timeout", "down", "rejected", "fatal"},
             cut: BOOLEAN]
Works == [pc: {"idle", "lock", "publish", "refresh"}, root: Roots \cup {None},
          from: Slots \cup {None}, next: Slots \cup {None}]

Types ==
  /\ slot \in [Slots -> SlotRecs] /\ inner \in [Slots -> Conditions]
  /\ connecting \in [Slots -> Nat] /\ breaker \in [Slots -> Breakers]
  /\ call \in [Calls -> CallRecs] /\ live \in Slots /\ root \in Roots
  /\ thread \in [Threads -> Works] /\ undone \in BOOLEAN /\ revived \subseteq Slots

(* The inductive invariant, in parts.                                      *)

\* What the connections of a slot can be in each of its states: x is the slot, n the
\* starts under way and i the connection in it.
Fits(x, n, i) ==
  /\ x.state \in {"Stopped", "Backoff"} => n = 0 /\ ~x.ready /\ ~x.publishing /\ i = "stopped"
  /\ x.state = "Starting" /\ x.publishing => n = 0 /\ ~x.ready /\ i # "stopped"
  /\ x.state = "Starting" /\ ~x.publishing => /\ i = "stopped"
                                              /\ IF x.ready THEN n = 0 ELSE n \in {0, 1}
  /\ x.state \in {"Ready", "NeedsAuth"} => n = 0 /\ ~x.ready /\ ~x.publishing
  /\ x.state = "Ready" => x.everReady
  /\ x.state = "NeedsAuth" /\ ~x.everReady => i = "stopped"

SlotsFit == \A s \in Slots : Fits(slot[s], connecting[s], inner[s])

\* A call that has a slot keeps it; past the wait, the slot has been in service.
CallsFit ==
  \A c \in Calls : call[c].pc # "idle" =>
    /\ call[c].slot \in Slots
    /\ call[c].pc \notin {"start", "wait"} => slot[call[c].slot].everReady

\* While a connection waits to be published, the calls admitted before know that it
\* is not theirs.
GatedCalls ==
  \A c \in Calls : call[c].pc \in {"fetch", "run"} /\ slot[call[c].slot].publishing =>
    "generation" \in call[c].since

\* A publication under way is for the spec it was built for; without a build it is of
\* the router it began with; a slot built for it is not in use anywhere else.
Publishing(t) == thread[t].pc \in {"publish", "refresh"}
ThreadsFit ==
  /\ thread["watcher"].pc = "lock" => thread["watcher"].root \in Roots
  /\ \A t \in Threads : Publishing(t) =>
       /\ thread[t].from \in Slots /\ thread[t].next \in Slots
       /\ thread[t].root # None => slot[thread[t].next].spec = thread[t].root
       /\ thread[t].root = None => thread[t].next = thread[t].from /\ t = "watcher"
       /\ thread[t].next # thread[t].from =>
            /\ ~slot[thread[t].next].retired /\ live # thread[t].next
            /\ \A u \in Threads \ {t} : thread[t].next \notin {thread[u].from, thread[u].next}

\* Unless a publication was undone, the live slot is not retired and, when no root
\* change is under way, it is for the client's root.
LiveFits ==
  ~undone => ~slot[live].retired /\ (thread["request"].pc = "idle" => slot[live].spec = root)

IInv == Types /\ SlotsFit /\ CallsFit /\ GatedCalls /\ ReadyHasConnection /\ ThreadsFit /\ LiveFits

-----------------------------------------------------------------------------
(* Records of calls and slots.                                             *)

\* The types, by their names.
LEMMA TypesAreTypeOK == TypeOK <=> Types
BY DEF TypeOK, Types, SlotRecs, Conditions, Breakers, CallRecs, Marks, Works

\* What settling a call's marks leaves alone, and that a call that was admitted never
\* loses the mark of another generation.
LEMMA SettledFacts ==
  ASSUME NEW k \in CallRecs
  PROVE  /\ Settled(k) \in CallRecs
         /\ Settled(k).pc = k.pc /\ Settled(k).slot = k.slot
         /\ k.cut <=> Settled(k).cut
         /\ k.pc \in {"fetch", "run"} /\ "generation" \in k.since
              => "generation" \in Settled(k).since
<1> DEFINE since == k.since \cap Heeds(k)
           kept == IF "generation" \in since THEN since \ {"success", "response"} ELSE since
<1>1. Settled(k) = [k EXCEPT !.since = kept]
  BY DEF Settled
<1>2. kept \in SUBSET Marks
  BY DEF CallRecs, Marks
<1>3. k.pc \in {"fetch", "run"} /\ "generation" \in k.since => "generation" \in kept
  <2>1. k.pc \in {"fetch", "run"} => "generation" \in Heeds(k)
    BY DEF Heeds
  <2> QED
    BY <2>1
<1> HIDE DEF kept
<1> QED
  BY <1>1, <1>2, <1>3 DEF CallRecs

\* Of a call k, only marks or the cut have changed in l, and the mark of another
\* generation was not lost.
Kept(k, l) ==
  /\ l \in CallRecs /\ l.pc = k.pc /\ l.slot = k.slot
  /\ k.pc \in {"fetch", "run"} /\ "generation" \in k.since => "generation" \in l.since

\* Note, Forget and Cut keep every call.
LEMMA NoteFacts ==
  ASSUME NEW calls \in [Calls -> CallRecs], NEW s, NEW what \in SUBSET Marks
  PROVE  /\ Note(calls, s, what) \in [Calls -> CallRecs]
         /\ \A c \in Calls : Kept(calls[c], Note(calls, s, what)[c])
         /\ \A c \in Calls : /\ calls[c].cut <=> Note(calls, s, what)[c].cut
                             /\ calls[c].pc \in {"fetch", "run"} /\ calls[c].slot = s
                                  /\ "generation" \in what
                                => "generation" \in Note(calls, s, what)[c].since
<1> SUFFICES ASSUME NEW c \in Calls
             PROVE  /\ Kept(calls[c], Note(calls, s, what)[c])
                    /\ calls[c].cut <=> Note(calls, s, what)[c].cut
                    /\ calls[c].pc \in {"fetch", "run"} /\ calls[c].slot = s
                         /\ "generation" \in what
                       => "generation" \in Note(calls, s, what)[c].since
  <2>1. ASSUME \A c \in Calls : Kept(calls[c], Note(calls, s, what)[c])
        PROVE  Note(calls, s, what) \in [Calls -> CallRecs]
    BY <2>1 DEF Note, Kept
  <2> QED
    BY <2>1
<1> DEFINE k == calls[c]
           m == [k EXCEPT !.since = @ \cup what]
<1>1. k \in CallRecs
  OBVIOUS
<1>2. /\ m \in CallRecs /\ m.pc = k.pc /\ m.slot = k.slot /\ (k.cut <=> m.cut)
      /\ m.since = k.since \cup what
  BY <1>1 DEF CallRecs
<1>3. Note(calls, s, what)[c] = IF k.slot = s THEN Settled(m) ELSE k
  BY DEF Note
<1> HIDE DEF m, k
<1>4. /\ Settled(m) \in CallRecs /\ Settled(m).pc = m.pc /\ Settled(m).slot = m.slot
      /\ m.cut <=> Settled(m).cut
      /\ m.pc \in {"fetch", "run"} /\ "generation" \in m.since => "generation" \in Settled(m).since
  BY <1>2, SettledFacts
<1>5. CASE k.slot = s
  BY <1>2, <1>3, <1>4, <1>5 DEF Kept, k
<1>6. CASE k.slot # s
  BY <1>1, <1>3, <1>6 DEF Kept, k
<1> QED
  BY <1>5, <1>6

\* Forgetting a mark other than the generation leaves the rest of every call alone.
LEMMA ForgetFacts ==
  ASSUME NEW calls \in [Calls -> CallRecs], NEW s, NEW what, "generation" \notin what
  PROVE  /\ Forget(calls, s, what) \in [Calls -> CallRecs]
         /\ \A c \in Calls : Kept(calls[c], Forget(calls, s, what)[c])
         /\ \A c \in Calls : /\ calls[c].cut <=> Forget(calls, s, what)[c].cut
                             /\ "generation" \in calls[c].since
                                => "generation" \in Forget(calls, s, what)[c].since
<1> SUFFICES ASSUME NEW c \in Calls
             PROVE  /\ Kept(calls[c], Forget(calls, s, what)[c])
                    /\ calls[c].cut <=> Forget(calls, s, what)[c].cut
                    /\ "generation" \in calls[c].since
                       => "generation" \in Forget(calls, s, what)[c].since
  <2>1. ASSUME \A c \in Calls : Kept(calls[c], Forget(calls, s, what)[c])
        PROVE  Forget(calls, s, what) \in [Calls -> CallRecs]
    BY <2>1 DEF Forget, Kept
  <2> QED
    BY <2>1
<1> DEFINE k == calls[c]
           m == [k EXCEPT !.since = @ \ what]
<1>1. k \in CallRecs
  OBVIOUS
<1>2. /\ m \in CallRecs /\ m.pc = k.pc /\ m.slot = k.slot /\ (k.cut <=> m.cut)
      /\ m.since = k.since \ what
  BY <1>1 DEF CallRecs
<1>3. Forget(calls, s, what)[c] = IF k.slot = s THEN m ELSE k
  BY DEF Forget
<1> HIDE DEF m, k
<1> QED
  BY <1>1, <1>2, <1>3 DEF Kept, k

\* A stop changes nothing of a call but that it is cut, and cuts only the calls that run
\* on the slot.
LEMMA CutFacts ==
  ASSUME NEW calls \in [Calls -> CallRecs], NEW s
  PROVE  /\ Cut(calls, s) \in [Calls -> CallRecs]
         /\ \A c \in Calls : Kept(calls[c], Cut(calls, s)[c])
         /\ \A c \in Calls : Cut(calls, s)[c].cut
                             => calls[c].cut \/ (calls[c].pc = "run" /\ calls[c].slot = s)
<1> SUFFICES ASSUME NEW c \in Calls
             PROVE  /\ Kept(calls[c], Cut(calls, s)[c])
                    /\ Cut(calls, s)[c].cut
                       => calls[c].cut \/ (calls[c].pc = "run" /\ calls[c].slot = s)
  <2>1. ASSUME \A c \in Calls : Kept(calls[c], Cut(calls, s)[c])
        PROVE  Cut(calls, s) \in [Calls -> CallRecs]
    BY <2>1 DEF Cut, Kept
  <2> QED
    BY <2>1
<1> DEFINE k == calls[c]
           m == [k EXCEPT !.cut = TRUE]
<1>1. k \in CallRecs
  OBVIOUS
<1>2. m \in CallRecs /\ m.pc = k.pc /\ m.slot = k.slot /\ m.since = k.since
  BY <1>1 DEF CallRecs
<1>3. Cut(calls, s)[c] = IF k.slot = s /\ k.pc = "run" THEN m ELSE k
  BY DEF Cut
<1> HIDE DEF m, k
<1> QED
  BY <1>1, <1>2, <1>3 DEF Kept, k

\* Fresh records have their types.
LEMMA NewFacts ==
  /\ NoCall \in CallRecs /\ NoCall.pc = "idle" /\ ~NoCall.cut
  /\ NewBreaker \in Breakers /\ NoWork \in Works /\ NoWork.pc = "idle"
  /\ \A r \in Roots : NewSlot(r) \in SlotRecs
BY ThresholdAssumption DEF NoCall, CallRecs, NewBreaker, Breakers, NoWork, Works, NewSlot, SlotRecs,
                           Marks

\* Counting a failure or a success leaves the breakers well formed.
LEMMA BreakerFacts ==
  ASSUME NEW s \in Slots, breaker \in [Slots -> Breakers], RecordFailure(s) \/ RecordSuccess(s)
  PROVE  breaker' \in [Slots -> Breakers]
<1>1. CASE RecordSuccess(s)
  BY <1>1, NewFacts DEF RecordSuccess
<1>2. CASE RecordFailure(s)
  <2> DEFINE b == breaker[s]
             n == IF b.failures < BREAKER_FAILURE_THRESHOLD THEN b.failures + 1 ELSE b.failures
  <2>1. b \in Breakers
    OBVIOUS
  <2>2. b.failures \in 0..BREAKER_FAILURE_THRESHOLD
    BY <2>1 DEF Breakers
  <2>3. n \in 0..BREAKER_FAILURE_THRESHOLD
    BY <2>2, ThresholdAssumption
  <2>4. breaker' = [breaker EXCEPT ![s] = [failures |-> n,
                                            open |-> b.open \/ n >= BREAKER_FAILURE_THRESHOLD]]
    BY <1>2 DEF RecordFailure
  <2>5. [failures |-> n, open |-> b.open \/ n >= BREAKER_FAILURE_THRESHOLD] \in Breakers
    BY <2>3 DEF Breakers
  <2> QED
    BY <2>4, <2>5
<1> QED
  BY <1>1, <1>2

-----------------------------------------------------------------------------
(* What kinds of steps keep which part of the invariant.                   *)

routerVars == <<live, root, thread, undone>>

\* No slot is retired or given another spec, and no thread publishes.
LEMMA SameRouter ==
  ASSUME IInv, UNCHANGED routerVars,
         \A s \in Slots : /\ slot'[s].spec = slot[s].spec
                          /\ slot'[s].retired => slot[s].retired
  PROVE  ThreadsFit' /\ LiveFits'
<1>1. \A t \in Threads : Publishing(t)' <=> Publishing(t)
  BY DEF routerVars, Publishing
<1>2. live \in Slots /\ thread' = thread /\ live' = live /\ root' = root /\ undone' = undone
  BY DEF IInv, Types, routerVars
<1>3. LiveFits'
  BY <1>2 DEF IInv, LiveFits
<1>4. ThreadsFit'
  <2> SUFFICES ASSUME NEW t \in Threads, Publishing(t)
               PROVE  /\ thread[t].from \in Slots /\ thread[t].next \in Slots
                      /\ thread[t].root # None => slot'[thread[t].next].spec = thread[t].root
                      /\ thread[t].root = None => thread[t].next = thread[t].from /\ t = "watcher"
                      /\ thread[t].next # thread[t].from =>
                           /\ ~slot'[thread[t].next].retired /\ live # thread[t].next
                           /\ \A u \in Threads \ {t} :
                                thread[t].next \notin {thread[u].from, thread[u].next}
    <3>1. thread["watcher"].pc = "lock" => thread["watcher"].root \in Roots
      BY DEF IInv, ThreadsFit
    <3> QED
      BY <1>1, <1>2, <3>1 DEF ThreadsFit
  <2> QED
    BY DEF IInv, ThreadsFit
<1> QED
  BY <1>3, <1>4

\* The slots and connections stay as they are.
LEMMA SameSlots ==
  ASSUME IInv, UNCHANGED <<slot, inner, connecting, revived>>
  PROVE  SlotsFit' /\ ReadyHasConnection'
BY DEF IInv, SlotsFit, ReadyHasConnection

\* A call keeps the invariant if it is idle, or where it was, or if what it newly
\* claims holds.
CallFits(l, slots) ==
  /\ l \in CallRecs
  /\ l.pc # "idle" =>
       /\ l.slot \in Slots
       /\ l.pc \notin {"start", "wait"} => slots[l.slot].everReady
       /\ l.pc \in {"fetch", "run"} /\ slots[l.slot].publishing => "generation" \in l.since

\* The two parts of the invariant about calls, call by call.
LEMMA CallFitsDef ==
  ASSUME call \in [Calls -> CallRecs]
  PROVE  CallsFit /\ GatedCalls <=> \A c \in Calls : CallFits(call[c], slot)
<1>1. ASSUME CallsFit, GatedCalls, NEW c \in Calls PROVE CallFits(call[c], slot)
  BY <1>1 DEF CallsFit, GatedCalls, CallFits
<1>2. ASSUME \A c \in Calls : CallFits(call[c], slot) PROVE CallsFit /\ GatedCalls
  BY <1>2 DEF CallsFit, GatedCalls, CallFits
<1> QED
  BY <1>1, <1>2

\* A kept call fits as before if its slot has not lost its past and starts no
\* publication unnoticed.
LEMMA KeptFits ==
  ASSUME NEW k, NEW l, NEW slots, NEW slots2, CallFits(k, slots), Kept(k, l),
         k.slot \in Slots =>
           /\ slots[k.slot].everReady => slots2[k.slot].everReady
           /\ slots2[k.slot].publishing => slots[k.slot].publishing \/ "generation" \in l.since
  PROVE  CallFits(l, slots2)
BY DEF CallFits, Kept

\* A step of call c: the other calls are kept, c fits, and the slots stay.
LEMMA CallStepInv ==
  ASSUME IInv, NEW c \in Calls, NEW calls \in [Calls -> CallRecs],
         \A d \in Calls \ {c} : calls[d] = call[d], CallFits(calls[c], slot),
         call' \in [Calls -> CallRecs], \A d \in Calls : Kept(calls[d], call'[d]),
         breaker' \in [Slots -> Breakers],
         UNCHANGED <<slot, inner, connecting, revived, routerVars>>
  PROVE  IInv'
<1>1. Types'
  BY DEF IInv, Types, routerVars
<1>2. ThreadsFit' /\ LiveFits' /\ SlotsFit' /\ ReadyHasConnection'
  BY SameRouter, SameSlots
<1>3. \A d \in Calls : CallFits(call[d], slot)
  BY CallFitsDef DEF IInv, Types
<1>4. \A d \in Calls : CallFits(call'[d], slot')
  <2> SUFFICES ASSUME NEW d \in Calls PROVE CallFits(call'[d], slot')
    OBVIOUS
  <2>1. CallFits(calls[d], slot)
    BY <1>3
  <2> QED
    BY <2>1, KeptFits
<1>5. CallsFit' /\ GatedCalls'
  BY <1>4 DEF CallFits, CallsFit, GatedCalls
<1> QED
  BY <1>1, <1>2, <1>5 DEF IInv

\* Slot s becomes x, with n starts under way and connection i: it keeps its spec and its
\* past, starts no publication, and fits.
SlotMoves(s, x, n, i) ==
  /\ x \in SlotRecs /\ n \in Nat /\ i \in Conditions
  /\ slot' = [slot EXCEPT ![s] = x] /\ connecting' = [connecting EXCEPT ![s] = n]
  /\ inner' = [inner EXCEPT ![s] = i] /\ Fits(x, n, i)
  /\ x.spec = slot[s].spec /\ (x.retired => slot[s].retired)
  /\ (slot[s].everReady => x.everReady) /\ (x.publishing => slot[s].publishing)
  /\ revived' \subseteq Slots /\ revived \ {s} \subseteq revived'
  /\ x.state = "Ready" => i # "stopped" \/ s \in revived'

\* The calls are those that fit now, with other marks.
CallsMove(calls) ==
  /\ calls \in [Calls -> CallRecs] /\ \A d \in Calls : CallFits(calls[d], slot)
  /\ call' \in [Calls -> CallRecs] /\ \A d \in Calls : Kept(calls[d], call'[d])

\* A step on one slot and on marks of calls.
LEMMA SlotStepInv ==
  ASSUME IInv, NEW s \in Slots, NEW x, NEW n, NEW i, SlotMoves(s, x, n, i),
         NEW calls, CallsMove(calls), breaker' \in [Slots -> Breakers], UNCHANGED routerVars
  PROVE  IInv'
<1> USE DEF SlotMoves, CallsMove
<1>1. Types'
  BY DEF IInv, Types, routerVars
<1>2. /\ \A r \in Slots : slot'[r] = IF r = s THEN x ELSE slot[r]
      /\ \A r \in Slots : connecting'[r] = IF r = s THEN n ELSE connecting[r]
      /\ \A r \in Slots : inner'[r] = IF r = s THEN i ELSE inner[r]
  BY DEF IInv, Types
<1>3. ThreadsFit' /\ LiveFits'
  <2>1. \A r \in Slots : slot'[r].spec = slot[r].spec /\ (slot'[r].retired => slot[r].retired)
    BY <1>2
  <2> QED
    BY <2>1, SameRouter
<1>4. SlotsFit'
  BY <1>2 DEF IInv, SlotsFit
<1>5. ReadyHasConnection'
  BY <1>2 DEF IInv, ReadyHasConnection
<1>6. ASSUME NEW d \in Calls PROVE CallFits(call'[d], slot')
  <2>1. CallFits(calls[d], slot) /\ Kept(calls[d], call'[d])
    OBVIOUS
  <2>2. calls[d].slot \in Slots => /\ slot[calls[d].slot].everReady => slot'[calls[d].slot].everReady
                                   /\ slot'[calls[d].slot].publishing => slot[calls[d].slot].publishing
    BY <1>2
  <2> QED
    BY <2>1, <2>2, KeptFits
<1>7. CallsFit' /\ GatedCalls'
  BY <1>6 DEF CallFits, CallsFit, GatedCalls
<1> QED
  BY <1>1, <1>3, <1>4, <1>5, <1>7 DEF IInv

\* Every call of a state that satisfies the invariant fits.
LEMMA CallsFitNow ==
  ASSUME IInv
  PROVE  /\ call \in [Calls -> CallRecs] /\ \A d \in Calls : CallFits(call[d], slot)
         /\ \A d \in Calls : Kept(call[d], call[d])
         /\ call' = call => CallsMove(call)
<1>1. call \in [Calls -> CallRecs] /\ \A d \in Calls : CallFits(call[d], slot)
  BY CallFitsDef DEF IInv, Types
<1>2. \A d \in Calls : Kept(call[d], call[d])
  BY <1>1 DEF Kept
<1> QED
  BY <1>1, <1>2 DEF CallsMove

\* So it does once a call has returned.
LEMMA ReturnedFits ==
  ASSUME IInv, NEW c \in Calls
  PROVE  LET calls == [call EXCEPT ![c] = NoCall]
         IN  /\ calls \in [Calls -> CallRecs] /\ \A d \in Calls : CallFits(calls[d], slot)
             /\ \A d \in Calls : Kept(calls[d], calls[d])
             /\ calls[c] = NoCall /\ \A d \in Calls \ {c} : calls[d] = call[d]
<1>1. NoCall \in CallRecs /\ NoCall.pc = "idle" /\ call \in [Calls -> CallRecs]
  BY NewFacts, CallsFitNow
<1>2. PICK calls : calls = [call EXCEPT ![c] = NoCall]
  OBVIOUS
<1>3. /\ calls \in [Calls -> CallRecs] /\ calls[c] = NoCall
      /\ \A d \in Calls \ {c} : calls[d] = call[d]
  BY <1>1, <1>2
<1>4. \A d \in Calls : CallFits(calls[d], slot)
  BY <1>1, <1>3, CallsFitNow DEF CallFits
<1>5. \A d \in Calls : Kept(calls[d], calls[d])
  BY <1>3 DEF Kept
<1> QED
  BY <1>2, <1>3, <1>4, <1>5

-----------------------------------------------------------------------------
(* The steps of a call.                                                    *)

\* The call moves on, or returns, by itself.
LEMMA MoveInv ==
  ASSUME IInv, NEW c \in Calls, NEW l \in CallRecs, call' = [call EXCEPT ![c] = l],
         CallFits(l, slot), breaker' \in [Slots -> Breakers],
         UNCHANGED <<slot, inner, connecting, revived, routerVars>>
  PROVE  IInv'
<1>1. call' \in [Calls -> CallRecs] /\ call'[c] = l /\ \A d \in Calls \ {c} : call'[d] = call[d]
  BY CallsFitNow
<1>2. \A d \in Calls : Kept(call'[d], call'[d])
  BY <1>1 DEF Kept
<1> QED
  BY <1>1, <1>2, CallStepInv

\* A call that returns needs nothing.
LEMMA ReturnInv ==
  ASSUME IInv, NEW c \in Calls, Return(c), breaker' \in [Slots -> Breakers],
         UNCHANGED <<slot, inner, connecting, revived, routerVars>>
  PROVE  IInv'
<1>1. NoCall \in CallRecs /\ CallFits(NoCall, slot)
  BY NewFacts DEF CallFits
<1> QED
  BY <1>1, MoveInv DEF Return

\* A call begins on the live slot.
LEMMA DemandInv ==
  ASSUME IInv, NEW c \in Calls, Demand(c)
  PROVE  IInv'
<1> DEFINE l == [NoCall EXCEPT !.slot = live,
                               !.pc = IF slot[live].retired THEN "wait" ELSE "start"]
<1>1. l \in CallRecs /\ l.slot \in Slots /\ l.pc \in {"wait", "start"}
  BY DEF NoCall, CallRecs, IInv, Types, Marks
<1>2. call' = [call EXCEPT ![c] = l] /\ UNCHANGED <<slot, inner, connecting, revived, routerVars, breaker>>
  BY DEF Demand, routerVars
<1> HIDE DEF l
<1>3. CallFits(l, slot) /\ breaker' \in [Slots -> Breakers]
  BY <1>1, <1>2 DEF CallFits, IInv, Types
<1> QED
  BY <1>1, <1>2, <1>3, MoveInv

\* The wait ends on a slot that serves, which has been in service.
LEMMA WaitInv ==
  ASSUME IInv, NEW c \in Calls, Wait(c)
  PROVE  IInv'
<1>1. UNCHANGED <<slot, inner, connecting, revived, routerVars, breaker>>
      /\ breaker' \in [Slots -> Breakers]
  BY DEF Wait, routerVars, IInv, Types
<1>2. CASE Return(c)
  BY <1>1, <1>2, ReturnInv
<1>3. CASE Serving(call[c].slot) /\ Goto(c, "breaker")
  <2> DEFINE l == [call[c] EXCEPT !.pc = "breaker"]
  <2>1. call[c].pc = "wait" /\ call[c] \in CallRecs /\ CallFits(call[c], slot)
    BY CallsFitNow DEF Wait
  <2>2. slot[call[c].slot].everReady /\ call[c].slot \in Slots
    <3>1. call[c].slot \in Slots
      BY <2>1 DEF CallFits
    <3> QED
      BY <1>3, <3>1 DEF Serving, IInv, SlotsFit, Fits
  <2>3. l \in CallRecs /\ l.pc = "breaker" /\ l.slot = call[c].slot
    BY <2>1 DEF CallRecs
  <2>4. call' = [call EXCEPT ![c] = l]
    BY <1>3, CallsFitNow DEF Goto
  <2> HIDE DEF l
  <2>5. CallFits(l, slot)
    BY <2>2, <2>3 DEF CallFits
  <2> QED
    BY <1>1, <2>3, <2>4, <2>5, MoveInv
<1> QED
  BY <1>2, <1>3 DEF Wait

\* The breaker fails a call fast or lets it pass.
LEMMA PassBreakerInv ==
  ASSUME IInv, NEW c \in Calls, PassBreaker(c)
  PROVE  IInv'
<1>1. call[c].pc = "breaker" /\ call[c] \in CallRecs /\ CallFits(call[c], slot)
      /\ UNCHANGED <<slot, inner, connecting, revived, routerVars>>
  BY CallsFitNow DEF PassBreaker, routerVars
<1>2. call[c].slot \in Slots /\ slot[call[c].slot].everReady
  BY <1>1 DEF CallFits
<1>3. CASE Return(c) /\ UNCHANGED breaker
  <2>1. breaker' \in [Slots -> Breakers]
    BY <1>3 DEF IInv, Types
  <2> QED
    BY <1>1, <1>3, <2>1, ReturnInv
<1>4. ASSUME NEW probe \in BOOLEAN,
             call' = [call EXCEPT ![c].pc = "look", ![c].probe = probe],
             breaker' = [breaker EXCEPT ![call[c].slot].open = FALSE]
      PROVE  IInv'
  <2> DEFINE l == [call[c] EXCEPT !.pc = "look", !.probe = probe]
  <2>1. l \in CallRecs /\ l.pc = "look" /\ l.slot = call[c].slot
    BY <1>1 DEF CallRecs
  <2>2. call' = [call EXCEPT ![c] = l]
    BY <1>4, CallsFitNow
  <2>3. breaker' \in [Slots -> Breakers]
    BY <1>2, <1>4 DEF IInv, Types, Breakers
  <2> HIDE DEF l
  <2>4. CallFits(l, slot)
    BY <1>2, <2>1 DEF CallFits
  <2> QED
    BY <1>1, <2>1, <2>2, <2>3, <2>4, MoveInv
<1>5. (breaker[call[c].slot].failures >= BREAKER_FAILURE_THRESHOLD) \in BOOLEAN
  <2>1. breaker[call[c].slot].failures \in Nat
    BY <1>2 DEF IInv, Types, Breakers
  <2> QED
    BY <2>1, ThresholdAssumption
<1> QED
  BY <1>3, <1>4, <1>5, Zenon DEF PassBreaker

\* The look at the connection fails the call, or reads the counters anew.
LEMMA LookInv ==
  ASSUME IInv, NEW c \in Calls, Look(c)
  PROVE  IInv'
<1>1. call[c].pc = "look" /\ call[c] \in CallRecs /\ CallFits(call[c], slot)
      /\ UNCHANGED <<slot, inner, connecting, revived, routerVars>>
  BY CallsFitNow DEF Look, routerVars
<1>2. call[c].slot \in Slots /\ slot[call[c].slot].everReady
  BY <1>1 DEF CallFits
<1>3. CASE call' = Note([call EXCEPT ![c] = NoCall], call[c].slot, {"failure"})
           /\ RecordFailure(call[c].slot)
  <2>1. PICK calls \in [Calls -> CallRecs] :
          /\ calls = [call EXCEPT ![c] = NoCall] /\ \A d \in Calls : CallFits(calls[d], slot)
          /\ \A d \in Calls \ {c} : calls[d] = call[d]
    BY ReturnedFits
  <2>2. call' \in [Calls -> CallRecs] /\ \A d \in Calls : Kept(calls[d], call'[d])
    BY <1>3, <2>1, NoteFacts DEF Marks
  <2>3. breaker' \in [Slots -> Breakers]
    BY <1>2, <1>3, BreakerFacts DEF IInv, Types
  <2> QED
    BY <1>1, <2>1, <2>2, <2>3, CallStepInv
<1>4. CASE call' = [call EXCEPT ![c].pc = "admit", ![c].since = {}] /\ UNCHANGED breaker
  <2> DEFINE l == [call[c] EXCEPT !.pc = "admit", !.since = {}]
  <2>1. l \in CallRecs /\ l.pc = "admit" /\ l.slot = call[c].slot
    BY <1>1 DEF CallRecs
  <2>2. call' = [call EXCEPT ![c] = l] /\ breaker' \in [Slots -> Breakers]
    BY <1>4, CallsFitNow DEF IInv, Types
  <2> HIDE DEF l
  <2>3. CallFits(l, slot)
    BY <1>2, <2>1 DEF CallFits
  <2> QED
    BY <1>1, <2>1, <2>2, <2>3, MoveInv
<1> QED
  BY <1>3, <1>4 DEF Look

\* A call is admitted to a slot in service, and no slot in service is publishing.
LEMMA AdmitInv ==
  ASSUME IInv, NEW c \in Calls, Admit(c)
  PROVE  IInv'
<1>1. call[c].pc = "admit" /\ call[c] \in CallRecs /\ CallFits(call[c], slot)
      /\ UNCHANGED <<slot, inner, connecting, revived, routerVars>>
      /\ breaker' \in [Slots -> Breakers]
  BY CallsFitNow DEF Admit, routerVars, IInv, Types
<1>2. call[c].slot \in Slots /\ slot[call[c].slot].everReady
  BY <1>1 DEF CallFits
<1>3. CASE Return(c)
  BY <1>1, <1>3, ReturnInv
<1>4. CASE Serving(call[c].slot) /\ Goto(c, "fetch")
  <2> DEFINE l == [call[c] EXCEPT !.pc = "fetch"]
  <2>1. l \in CallRecs /\ l.pc = "fetch" /\ l.slot = call[c].slot
    BY <1>1 DEF CallRecs
  <2>2. call' = [call EXCEPT ![c] = l]
    BY <1>4, CallsFitNow DEF Goto
  <2>3. ~slot[call[c].slot].publishing
    BY <1>2, <1>4 DEF Serving, IInv, SlotsFit, Fits
  <2> HIDE DEF l
  <2>4. CallFits(l, slot)
    BY <1>2, <2>1, <2>3 DEF CallFits
  <2> QED
    BY <1>1, <2>1, <2>2, <2>4, MoveInv
<1> QED
  BY <1>3, <1>4 DEF Admit

\* A handle, or the slot lock, is taken, or the call is refused.
LEMMA FetchInv ==
  ASSUME IInv, NEW c \in Calls, Fetch(c)
  PROVE  IInv'
<1>1. call[c].pc = "fetch" /\ call[c] \in CallRecs /\ CallFits(call[c], slot)
      /\ UNCHANGED <<slot, inner, connecting, revived, routerVars>>
      /\ breaker' \in [Slots -> Breakers]
  BY CallsFitNow DEF Fetch, routerVars, IInv, Types
<1>2. CASE Return(c)
  BY <1>1, <1>2, ReturnInv
<1>3. ASSUME NEW locked \in BOOLEAN, call' = [call EXCEPT ![c].pc = "run", ![c].locked = locked]
      PROVE  IInv'
  <2> DEFINE l == [call[c] EXCEPT !.pc = "run", !.locked = locked]
  <2>1. l \in CallRecs /\ l.pc = "run" /\ l.slot = call[c].slot /\ l.since = call[c].since
    BY <1>1 DEF CallRecs
  <2>2. call' = [call EXCEPT ![c] = l]
    BY <1>3, CallsFitNow
  <2> HIDE DEF l
  <2>3. CallFits(l, slot)
    BY <1>1, <2>1 DEF CallFits
  <2> QED
    BY <1>1, <2>1, <2>2, <2>3, MoveInv
<1> QED
  BY <1>2, <1>3 DEF Fetch

\* An attempt ends.
LEMMA EndInv ==
  ASSUME IInv, NEW c \in Calls, End(c)
  PROVE  IInv'
<1>1. call[c].pc = "run" /\ call[c] \in CallRecs /\ CallFits(call[c], slot)
      /\ UNCHANGED <<slot, inner, connecting, revived, routerVars>>
      /\ breaker' \in [Slots -> Breakers]
  BY CallsFitNow DEF End, routerVars, IInv, Types
<1>2. call[c].slot \in Slots /\ slot[call[c].slot].everReady
  BY <1>1 DEF CallFits
<1>3. PICK kind \in Outcomes(c) :
        call' = IF kind \in {"rpc", "fatal"}
                THEN Note([call EXCEPT ![c] = NoCall], call[c].slot,
                          IF kind = "rpc" THEN {"response"} ELSE {})
                ELSE [call EXCEPT ![c] = Ended(call[c], kind)]
  BY DEF End
<1>4. CASE kind \in {"rpc", "fatal"}
  <2>1. PICK calls \in [Calls -> CallRecs] :
          /\ calls = [call EXCEPT ![c] = NoCall] /\ \A d \in Calls : CallFits(calls[d], slot)
          /\ \A d \in Calls \ {c} : calls[d] = call[d]
    BY ReturnedFits
  <2>2. PICK what \in SUBSET Marks : call' = Note(calls, call[c].slot, what)
    BY <1>3, <1>4, <2>1 DEF Marks
  <2>3. call' \in [Calls -> CallRecs] /\ \A d \in Calls : Kept(calls[d], call'[d])
    BY <2>1, <2>2, NoteFacts
  <2> QED
    BY <1>1, <2>1, <2>3, CallStepInv
<1>5. CASE kind \notin {"rpc", "fatal"}
  <2> DEFINE k == call[c]
             m == [k EXCEPT !.pc = "ended", !.kind = kind, !.cut = FALSE,
                            !.probe = k.probe /\ kind \in {"timeout", "down"},
                            !.locked = k.locked /\ kind \notin {"ok", "auth"}]
  <2>1. kind \in {"none", "ok", "rpc", "auth", "timeout", "down", "rejected", "fatal"}
    BY <1>3 DEF Outcomes
  <2>2. m \in CallRecs /\ m.pc = "ended" /\ m.slot = call[c].slot
    BY <1>1, <2>1 DEF CallRecs
  <2>3. Ended(call[c], kind) = Settled(m)
    BY DEF Ended
  <2> HIDE DEF m
  <2>4. /\ Ended(call[c], kind) \in CallRecs /\ Ended(call[c], kind).pc = "ended"
        /\ Ended(call[c], kind).slot = call[c].slot
    BY <2>2, <2>3, SettledFacts
  <2>5. CallFits(Ended(call[c], kind), slot)
    BY <1>2, <2>4 DEF CallFits
  <2> QED
    BY <1>1, <1>3, <1>5, <2>4, <2>5, MoveInv
<1> QED
  BY <1>4, <1>5

\* A failure is counted.
LEMMA RecordInv ==
  ASSUME IInv, NEW c \in Calls, Record(c)
  PROVE  IInv'
<1>1. call[c].pc = "record" /\ CallFits(call[c], slot)
      /\ UNCHANGED <<slot, inner, connecting, revived, routerVars>>
  BY CallsFitNow DEF Record, routerVars
<1>2. call[c].slot \in Slots
  BY <1>1 DEF CallFits
<1>3. UNCHANGED breaker \/ RecordFailure(call[c].slot)
  BY DEF Record
<1>4. breaker' \in [Slots -> Breakers]
  BY <1>2, <1>3, BreakerFacts DEF IInv, Types
<1>5. PICK calls \in [Calls -> CallRecs] :
        /\ calls = [call EXCEPT ![c] = NoCall] /\ \A d \in Calls : CallFits(calls[d], slot)
        /\ \A d \in Calls \ {c} : calls[d] = call[d]
  BY ReturnedFits
<1>6. PICK what \in SUBSET Marks : call' = Note(calls, call[c].slot, what)
  BY <1>5 DEF Record, Marks
<1>7. call' \in [Calls -> CallRecs] /\ \A d \in Calls : Kept(calls[d], call'[d])
  BY <1>5, <1>6, NoteFacts
<1> QED
  BY <1>1, <1>4, <1>5, <1>7, CallStepInv

\* A slot that may start has no connection, and none under way.
LEMMA StartFacts ==
  ASSUME IInv, NEW s \in Slots, NEW demand \in BOOLEAN, MayStart(s, demand), StartConnecting(s),
         UNCHANGED <<inner, revived>>
  PROVE  \E x, n, i : SlotMoves(s, x, n, i)
<1> DEFINE x == [slot[s] EXCEPT !.state = "Starting", !.endpoint = FALSE]
           n == connecting[s] + 1
<1>1. slot[s] \in SlotRecs /\ Fits(slot[s], connecting[s], inner[s]) /\ slot \in [Slots -> SlotRecs]
  BY DEF IInv, Types, SlotsFit
<1>2. ~slot[s].publishing /\ ~slot[s].ready /\ connecting[s] = 0 /\ inner[s] = "stopped"
  BY <1>1 DEF MayStart, Fits
<1>3. /\ x \in SlotRecs /\ x.state = "Starting" /\ x.spec = slot[s].spec
      /\ x.retired = slot[s].retired /\ x.everReady = slot[s].everReady
      /\ x.publishing = slot[s].publishing /\ x.ready = slot[s].ready
  BY <1>1 DEF SlotRecs
<1>4. slot' = [slot EXCEPT ![s] = x] /\ connecting' = [connecting EXCEPT ![s] = n]
  BY <1>1 DEF StartConnecting
<1>5. n = 1
  BY <1>2
<1> HIDE DEF x, n
<1>6. Fits(x, n, inner[s])
  BY <1>2, <1>3, <1>5 DEF Fits
<1>7. /\ inner' = [inner EXCEPT ![s] = inner[s]] /\ inner[s] \in Conditions
      /\ revived' \subseteq Slots /\ revived \ {s} \subseteq revived'
  BY DEF IInv, Types
<1>8. SlotMoves(s, x, n, inner[s])
  BY <1>2, <1>3, <1>4, <1>5, <1>6, <1>7 DEF SlotMoves
<1> QED
  BY <1>8

\* A call starts its slot where that is due.
LEMMA StartInv ==
  ASSUME IInv, NEW c \in Calls, Start(c)
  PROVE  IInv'
<1> DEFINE l == [call[c] EXCEPT !.pc = "wait"]
<1>1. call[c].pc = "start" /\ call[c] \in CallRecs /\ CallFits(call[c], slot)
      /\ UNCHANGED <<inner, breaker, revived, routerVars>>
      /\ inner \in [Slots -> Conditions]
  BY CallsFitNow DEF Start, routerVars, IInv, Types
<1>2. l \in CallRecs /\ l.pc = "wait" /\ l.slot = call[c].slot
  BY <1>1 DEF CallRecs
<1>3. call' = [call EXCEPT ![c] = l]
  BY CallsFitNow DEF Start, Goto
<1> HIDE DEF l
<1>4. CallFits(l, slot) /\ call[c].slot \in Slots /\ breaker' \in [Slots -> Breakers]
  BY <1>1, <1>2 DEF CallFits, IInv, Types
<1>5. CASE UNCHANGED <<slot, connecting>>
  BY <1>1, <1>2, <1>3, <1>4, <1>5, MoveInv
<1>6. CASE MayStart(call[c].slot, TRUE) /\ StartConnecting(call[c].slot)
  <2>1. /\ call' \in [Calls -> CallRecs] /\ \A d \in Calls : CallFits(call'[d], slot)
        /\ \A d \in Calls : Kept(call'[d], call'[d])
    BY <1>2, <1>3, <1>4, CallsFitNow DEF Kept
  <2>2. PICK s \in Slots : s = call[c].slot
    BY <1>4
  <2>3. \E x, n, i : SlotMoves(s, x, n, i)
    BY <1>1, <1>6, <2>2, StartFacts
  <2>4. CallsMove(call')
    BY <2>1 DEF CallsMove
  <2> QED
    BY <1>1, <1>4, <2>3, <2>4, SlotStepInv
<1> QED
  BY <1>5, <1>6 DEF Start

\* The watcher starts a slot that is due.
LEMMA RetryInv ==
  ASSUME IInv, NEW s \in Slots, Retry(s)
  PROVE  IInv'
<1>1. UNCHANGED <<inner, breaker, call, revived, routerVars>> /\ breaker' \in [Slots -> Breakers]
  BY DEF Retry, routerVars, IInv, Types
<1>2. \E x, n, i : SlotMoves(s, x, n, i)
  BY <1>1, StartFacts DEF Retry
<1>3. CallsMove(call)
  BY <1>1, CallsFitNow
<1> QED
  BY <1>1, <1>2, <1>3, SlotStepInv

\* The startup thread ends with a connection that waits, or without one.
LEMMA ConnectedInv ==
  ASSUME IInv, NEW s \in Slots, Connected(s)
  PROVE  IInv'
<1>1. /\ connecting[s] > 0 /\ connecting' = [connecting EXCEPT ![s] = connecting[s] - 1]
      /\ UNCHANGED <<inner, breaker, call, revived, routerVars>>
      /\ inner \in [Slots -> Conditions] /\ breaker' \in [Slots -> Breakers]
      /\ revived' \subseteq Slots /\ revived \ {s} \subseteq revived'
  BY DEF Connected, routerVars, IInv, Types
<1>2. /\ slot \in [Slots -> SlotRecs] /\ slot[s] \in SlotRecs /\ connecting[s] \in Nat
      /\ Fits(slot[s], connecting[s], inner[s])
  BY DEF IInv, Types, SlotsFit
<1>3. /\ slot[s].state = "Starting" /\ ~slot[s].publishing /\ ~slot[s].ready
      /\ connecting[s] = 1 /\ inner[s] = "stopped"
  BY <1>1, <1>2 DEF Fits, SlotRecs
<1>4. connecting' = [connecting EXCEPT ![s] = 0]
  BY <1>1, <1>3
<1>5. inner' = [inner EXCEPT ![s] = "stopped"] /\ "stopped" \in Conditions
  BY <1>1, <1>3 DEF Conditions
<1>6. CallsMove(call)
  BY <1>1, CallsFitNow
<1>7. SUFFICES \E x : SlotMoves(s, x, 0, "stopped")
  BY <1>1, <1>6, SlotStepInv
<1>8. ASSUME NEW state \in {"Stopped", "Backoff"}, slot' = [slot EXCEPT ![s].state = state]
                  \/ slot' = [slot EXCEPT ![s].state = state, ![s].endpoint = FALSE]
      PROVE  \E x : SlotMoves(s, x, 0, "stopped")
  <2>1. PICK endpoint \in BOOLEAN :
          slot' = [slot EXCEPT ![s] = [slot[s] EXCEPT !.state = state, !.endpoint = endpoint]]
    <3>1. CASE slot' = [slot EXCEPT ![s].state = state]
      <4>1. slot[s].endpoint \in BOOLEAN
        BY <1>2 DEF SlotRecs
      <4>2. [slot[s] EXCEPT !.state = state]
            = [slot[s] EXCEPT !.state = state, !.endpoint = slot[s].endpoint]
        BY <1>2 DEF SlotRecs
      <4> QED
        BY <1>2, <3>1, <4>1, <4>2
    <3>2. CASE slot' = [slot EXCEPT ![s].state = state, ![s].endpoint = FALSE]
      BY <1>2, <3>2
    <3> QED
      BY <1>8, <3>1, <3>2
  <2> DEFINE x == [slot[s] EXCEPT !.state = state, !.endpoint = endpoint]
  <2>2. /\ x \in SlotRecs /\ x.state = state /\ x.spec = slot[s].spec
        /\ x.retired = slot[s].retired /\ x.everReady = slot[s].everReady
        /\ x.publishing = slot[s].publishing /\ x.ready = slot[s].ready
    BY <1>2 DEF SlotRecs
  <2> HIDE DEF x
  <2>3. Fits(x, 0, "stopped")
    BY <1>3, <1>8, <2>2 DEF Fits
  <2> QED
    BY <1>1, <1>3, <1>4, <1>5, <1>8, <2>1, <2>2, <2>3 DEF x, SlotMoves
<1>9. CASE slot' = [slot EXCEPT ![s].ready = TRUE]
  <2> DEFINE x == [slot[s] EXCEPT !.ready = TRUE]
  <2>1. /\ x \in SlotRecs /\ x.state = slot[s].state /\ x.spec = slot[s].spec
        /\ x.retired = slot[s].retired /\ x.everReady = slot[s].everReady
        /\ x.publishing = slot[s].publishing /\ x.ready
    BY <1>2 DEF SlotRecs
  <2>2. slot' = [slot EXCEPT ![s] = x]
    BY <1>2, <1>9
  <2> HIDE DEF x
  <2>3. Fits(x, 0, "stopped")
    BY <1>3, <2>1 DEF Fits
  <2> QED
    BY <1>1, <1>3, <1>4, <1>5, <2>1, <2>2, <2>3 DEF SlotMoves
<1>10. ASSUME NEW target \in BOOLEAN,
              slot' = [slot EXCEPT ![s].state = "NeedsAuth", ![s].endpoint = target]
       PROVE  \E x : SlotMoves(s, x, 0, "stopped")
  <2> DEFINE x == [slot[s] EXCEPT !.state = "NeedsAuth", !.endpoint = target]
  <2>1. /\ x \in SlotRecs /\ x.state = "NeedsAuth" /\ x.spec = slot[s].spec
        /\ x.retired = slot[s].retired /\ x.everReady = slot[s].everReady
        /\ x.publishing = slot[s].publishing /\ x.ready = slot[s].ready
    BY <1>2 DEF SlotRecs
  <2>2. slot' = [slot EXCEPT ![s] = x]
    BY <1>2, <1>10
  <2> HIDE DEF x
  <2>3. Fits(x, 0, "stopped")
    BY <1>3, <2>1 DEF Fits
  <2> QED
    BY <1>1, <1>3, <1>4, <1>5, <2>1, <2>2, <2>3 DEF SlotMoves
<1> QED
  BY <1>8, <1>9, <1>10 DEF Connected

\* A slot that stays as it is moves nowhere.
LEMMA StayFacts ==
  ASSUME IInv, NEW s \in Slots, UNCHANGED <<slot, inner, connecting, revived>>
  PROVE  SlotMoves(s, slot[s], connecting[s], inner[s])
<1>1. /\ slot \in [Slots -> SlotRecs] /\ inner \in [Slots -> Conditions]
      /\ connecting \in [Slots -> Nat] /\ revived \subseteq Slots
      /\ Fits(slot[s], connecting[s], inner[s])
      /\ slot[s].state = "Ready" => inner[s] # "stopped" \/ s \in revived
  BY DEF IInv, Types, SlotsFit, ReadyHasConnection
<1> QED
  BY <1>1 DEF SlotMoves

\* Keeping twice is keeping.
LEMMA KeptTwice ==
  ASSUME NEW k, NEW l, NEW m, Kept(k, l), Kept(l, m)
  PROVE  Kept(k, m)
BY DEF Kept

\* A success makes a slot Ready that needed a sign-in; it has been Ready before.
LEMMA SettleOkInv ==
  ASSUME IInv, NEW c \in Calls, SettleOk(c)
  PROVE  IInv'
<1>1. call[c].pc = "ended" /\ CallFits(call[c], slot) /\ UNCHANGED <<inner, connecting, routerVars>>
  BY CallsFitNow DEF SettleOk, routerVars
<1>2. PICK s \in Slots : s = call[c].slot /\ slot[s].everReady
  BY <1>1 DEF CallFits
<1>3. breaker' \in [Slots -> Breakers]
  BY <1>2, BreakerFacts DEF SettleOk, IInv, Types
<1>4. \E calls : CallsMove(calls)
  <2>1. PICK calls \in [Calls -> CallRecs] :
          calls = [call EXCEPT ![c] = NoCall] /\ \A d \in Calls : CallFits(calls[d], slot)
    BY ReturnedFits
  <2>2. PICK noted \in [Calls -> CallRecs] :
          noted = Note(calls, s, {"response", "success"}) /\ \A d \in Calls : Kept(calls[d], noted[d])
    BY NoteFacts DEF Marks
  <2>3. call' = Forget(noted, s, {"failure"})
    BY <1>2, <2>1, <2>2 DEF SettleOk
  <2>4. call' \in [Calls -> CallRecs] /\ \A d \in Calls : Kept(noted[d], call'[d])
    BY <2>3, ForgetFacts
  <2>5. \A d \in Calls : Kept(calls[d], call'[d])
    BY <2>2, <2>4, KeptTwice
  <2> QED
    BY <2>1, <2>4, <2>5 DEF CallsMove
<1>5. /\ slot \in [Slots -> SlotRecs] /\ slot[s] \in SlotRecs /\ inner \in [Slots -> Conditions]
      /\ connecting \in [Slots -> Nat] /\ revived \subseteq Slots
      /\ Fits(slot[s], connecting[s], inner[s])
  BY DEF IInv, Types, SlotsFit
<1>6. CASE slot[s].state = "NeedsAuth" /\ "generation" \notin call[c].since
  <2> DEFINE x == [slot[s] EXCEPT !.state = "Ready", !.endpoint = FALSE]
  <2>1. /\ x \in SlotRecs /\ x.state = "Ready" /\ x.spec = slot[s].spec
        /\ x.retired = slot[s].retired /\ x.everReady = slot[s].everReady
        /\ x.publishing = slot[s].publishing /\ x.ready = slot[s].ready
    BY <1>5 DEF SlotRecs
  <2>2. /\ slot' = [slot EXCEPT ![s].state = "Ready", ![s].endpoint = FALSE]
        /\ revived' = IF inner[s] = "stopped" THEN revived \cup {s} ELSE revived
    BY <1>2, <1>6 DEF SettleOk
  <2>3. slot' = [slot EXCEPT ![s] = x]
    BY <1>5, <2>2
  <2>4. connecting' = [connecting EXCEPT ![s] = connecting[s]]
        /\ inner' = [inner EXCEPT ![s] = inner[s]]
    BY <1>1, <1>5
  <2> HIDE DEF x
  <2>5. Fits(x, connecting[s], inner[s])
    BY <1>2, <1>5, <1>6, <2>1 DEF Fits
  <2>6. SlotMoves(s, x, connecting[s], inner[s])
    BY <1>5, <2>1, <2>2, <2>3, <2>4, <2>5 DEF SlotMoves
  <2> QED
    BY <1>1, <1>3, <1>4, <2>6, SlotStepInv
<1>7. CASE ~(slot[s].state = "NeedsAuth" /\ "generation" \notin call[c].since)
  <2>1. UNCHANGED <<slot, revived>>
    BY <1>2, <1>7 DEF SettleOk
  <2> QED
    BY <1>1, <1>3, <1>4, <2>1, StayFacts, SlotStepInv
<1> QED
  BY <1>6, <1>7

\* A refused sign-in takes a slot out of Ready, never out of having served.
LEMMA SettleAuthInv ==
  ASSUME IInv, NEW c \in Calls, SettleAuth(c)
  PROVE  IInv'
<1>1. call[c].pc = "ended" /\ CallFits(call[c], slot)
      /\ UNCHANGED <<inner, connecting, revived, routerVars>> /\ breaker' \in [Slots -> Breakers]
      /\ Return(c)
  BY CallsFitNow DEF SettleAuth, routerVars, IInv, Types
<1>2. PICK s \in Slots : s = call[c].slot /\ slot[s].everReady
  BY <1>1 DEF CallFits
<1>3. \E calls : CallsMove(calls)
  BY <1>1, ReturnedFits DEF Return, CallsMove
<1>4. CASE UNCHANGED slot
  BY <1>1, <1>3, <1>4, StayFacts, SlotStepInv
<1>5. CASE slot[s].state \in {"Ready", "NeedsAuth"}
           /\ slot' = [slot EXCEPT ![s].state = "NeedsAuth", ![s].endpoint = TRUE]
  <2> DEFINE x == [slot[s] EXCEPT !.state = "NeedsAuth", !.endpoint = TRUE]
  <2>1. /\ slot \in [Slots -> SlotRecs] /\ slot[s] \in SlotRecs /\ inner \in [Slots -> Conditions]
        /\ connecting \in [Slots -> Nat] /\ revived \subseteq Slots
        /\ Fits(slot[s], connecting[s], inner[s])
    BY DEF IInv, Types, SlotsFit
  <2>2. /\ x \in SlotRecs /\ x.state = "NeedsAuth" /\ x.spec = slot[s].spec
        /\ x.retired = slot[s].retired /\ x.everReady = slot[s].everReady
        /\ x.publishing = slot[s].publishing /\ x.ready = slot[s].ready
    BY <2>1 DEF SlotRecs
  <2>3. slot' = [slot EXCEPT ![s] = x] /\ connecting' = [connecting EXCEPT ![s] = connecting[s]]
        /\ inner' = [inner EXCEPT ![s] = inner[s]]
    BY <1>1, <1>5, <2>1
  <2> HIDE DEF x
  <2>4. Fits(x, connecting[s], inner[s])
    BY <1>2, <1>5, <2>1, <2>2 DEF Fits
  <2>5. SlotMoves(s, x, connecting[s], inner[s])
    BY <1>1, <2>1, <2>2, <2>3, <2>4 DEF SlotMoves
  <2> QED
    BY <1>1, <1>3, <2>5, SlotStepInv
<1> QED
  BY <1>2, <1>4, <1>5 DEF SettleAuth

\* A slot that is stopped from service has nothing left.
LEMMA StopFacts ==
  ASSUME IInv, NEW s \in Slots, NEW to \in {"Stopped", "Backoff"},
         slot[s].state \in {"Ready", "NeedsAuth"}, StopConnection(s, to), UNCHANGED connecting
  PROVE  \E x, n, i : SlotMoves(s, x, n, i)
<1> DEFINE x == [slot[s] EXCEPT !.state = to]
<1>1. /\ slot \in [Slots -> SlotRecs] /\ slot[s] \in SlotRecs /\ inner \in [Slots -> Conditions]
      /\ connecting \in [Slots -> Nat] /\ revived \subseteq Slots
      /\ Fits(slot[s], connecting[s], inner[s])
  BY DEF IInv, Types, SlotsFit
<1>2. /\ x \in SlotRecs /\ x.state = to /\ x.spec = slot[s].spec
      /\ x.retired = slot[s].retired /\ x.everReady = slot[s].everReady
      /\ x.publishing = slot[s].publishing /\ x.ready = slot[s].ready
  BY <1>1 DEF SlotRecs
<1>3. slot' = [slot EXCEPT ![s] = x] /\ connecting' = [connecting EXCEPT ![s] = connecting[s]]
      /\ inner' = [inner EXCEPT ![s] = "stopped"] /\ revived' = revived \ {s}
  BY <1>1 DEF StopConnection
<1> HIDE DEF x
<1>4. Fits(x, connecting[s], "stopped")
  BY <1>1, <1>2 DEF Fits
<1>5. SlotMoves(s, x, connecting[s], "stopped")
  BY <1>1, <1>2, <1>3, <1>4 DEF SlotMoves, Conditions
<1> QED
  BY <1>5

\* The watcher stops a connection that closed, or one nobody uses.
LEMMA StopInv ==
  ASSUME IInv, NEW s \in Slots, StopClosed(s) \/ StopIdle(s)
  PROVE  IInv'
<1>1. /\ slot[s].state = "Ready" /\ UNCHANGED <<connecting, breaker, routerVars>>
      /\ StopConnection(s, "Backoff") \/ StopConnection(s, "Stopped")
      /\ call' = Cut(call, s) /\ breaker' \in [Slots -> Breakers]
  BY DEF StopClosed, StopIdle, routerVars, IInv, Types
<1>2. \E x, n, i : SlotMoves(s, x, n, i)
  BY <1>1, StopFacts
<1>3. CallsMove(call)
  BY <1>1, CallsFitNow, CutFacts DEF CallsMove
<1> QED
  BY <1>1, <1>2, <1>3, SlotStepInv

\* A failure is counted later; where the slot degrades, it was in service.
LEMMA FailedFacts ==
  ASSUME IInv, NEW c \in Calls, call[c].pc = "ended"
  PROVE  /\ Failed(c) \in [Calls -> CallRecs] /\ \A d \in Calls : CallFits(Failed(c)[d], slot)
         /\ Failed(c)[c].pc = "record" /\ ~Failed(c)[c].cut
         /\ \A d \in Calls \ {c} : Failed(c)[d] = call[d]
<1> DEFINE m == [call[c] EXCEPT !.pc = "record", !.kind = "none", !.probe = FALSE, !.cut = FALSE]
<1>1. call[c] \in CallRecs /\ CallFits(call[c], slot) /\ call \in [Calls -> CallRecs]
  BY CallsFitNow
<1>2. m \in CallRecs /\ m.pc = "record" /\ m.slot = call[c].slot /\ ~m.cut
  BY <1>1 DEF CallRecs
<1>3. Failed(c) = [call EXCEPT ![c] = Settled(m)]
  BY DEF Failed
<1> HIDE DEF m
<1>4. Settled(m) \in CallRecs /\ Settled(m).pc = "record" /\ Settled(m).slot = call[c].slot
      /\ ~Settled(m).cut
  BY <1>2, SettledFacts
<1>5. CallFits(Settled(m), slot)
  BY <1>1, <1>4 DEF CallFits
<1> QED
  BY <1>1, <1>3, <1>4, <1>5, CallsFitNow

\* A failed call degrades its slot, or leaves it as it is.
LEMMA SettleFailureInv ==
  ASSUME IInv, NEW c \in Calls, SettleFailure(c)
  PROVE  IInv'
<1>1. call[c].pc = "ended" /\ CallFits(call[c], slot) /\ UNCHANGED <<connecting, breaker, routerVars>>
      /\ breaker' \in [Slots -> Breakers]
  BY CallsFitNow DEF SettleFailure, routerVars, IInv, Types
<1>2. PICK s \in Slots : s = call[c].slot
  BY <1>1 DEF CallFits
<1>3. CASE Return(c) /\ UNCHANGED <<slot, inner, revived>>
  BY <1>1, <1>3, ReturnInv
<1>4. CASE call' = Failed(c) /\ UNCHANGED <<slot, inner, revived>>
  <2>1. CallsMove(Failed(c))
    BY <1>1, <1>4, FailedFacts DEF CallsMove, Kept
  <2> QED
    BY <1>1, <1>2, <1>4, <2>1, StayFacts, SlotStepInv
<1>5. CASE MayDegrade(c) /\ StopConnection(s, "Backoff") /\ call' = Cut(Failed(c), s)
  <2>1. slot[s].state \in {"Ready", "NeedsAuth"}
    BY <1>2, <1>5 DEF MayDegrade
  <2>2. \E x, n, i : SlotMoves(s, x, n, i)
    BY <1>1, <1>5, <2>1, StopFacts
  <2>3. CallsMove(Failed(c))
    BY <1>1, <1>5, FailedFacts, CutFacts DEF CallsMove
  <2> QED
    BY <1>1, <2>2, <2>3, SlotStepInv
<1> QED
  BY <1>2, <1>3, <1>4, <1>5 DEF SettleFailure

\* The server changes under its slot, but never stops by itself.
LEMMA ConditionInv ==
  ASSUME IInv, NEW s \in Slots, Condition(s)
  PROVE  IInv'
<1>1. UNCHANGED <<slot, connecting, breaker, call, routerVars, revived>>
      /\ breaker' \in [Slots -> Breakers]
  BY DEF Condition, routerVars, IInv, Types
<1>2. PICK i \in Conditions : i # "stopped" /\ inner[s] # "stopped" /\ inner' = [inner EXCEPT ![s] = i]
  BY DEF Condition, Conditions
<1>3. /\ slot \in [Slots -> SlotRecs] /\ slot[s] \in SlotRecs
      /\ connecting \in [Slots -> Nat] /\ revived \subseteq Slots
      /\ Fits(slot[s], connecting[s], inner[s])
  BY DEF IInv, Types, SlotsFit
<1>4. Fits(slot[s], connecting[s], i)
  BY <1>2, <1>3 DEF Fits
<1>5. slot' = [slot EXCEPT ![s] = slot[s]] /\ connecting' = [connecting EXCEPT ![s] = connecting[s]]
  BY <1>1, <1>3
<1>6. SlotMoves(s, slot[s], connecting[s], i)
  BY <1>1, <1>2, <1>3, <1>4, <1>5 DEF SlotMoves
<1>7. CallsMove(call)
  BY <1>1, CallsFitNow
<1> QED
  BY <1>1, <1>6, <1>7, SlotStepInv

-----------------------------------------------------------------------------
(* The threads that replace the router.                                    *)

\* The adopted connection is one that waited, so nothing else is under way on the slot,
\* and every call that was admitted before is marked.
LEMMA AdoptInv ==
  ASSUME IInv, NEW s \in Slots, Adopt(s)
  PROVE  IInv'
<1> DEFINE x == [slot[s] EXCEPT !.ready = FALSE, !.publishing = TRUE]
           w == [NoWork EXCEPT !.pc = "publish", !.from = live, !.next = live]
<1>1. /\ s = live /\ slot[s].ready /\ revived' = revived \ {s}
      /\ UNCHANGED <<connecting, live, root, undone>> /\ RecordSuccess(s)
      /\ call' = Forget(Note(call, s, {"generation"}), s, {"failure"})
  BY DEF Adopt
<1>2. /\ slot \in [Slots -> SlotRecs] /\ slot[s] \in SlotRecs /\ inner \in [Slots -> Conditions]
      /\ connecting \in [Slots -> Nat] /\ revived \subseteq Slots /\ live \in Slots
      /\ Fits(slot[s], connecting[s], inner[s]) /\ thread \in [Threads -> Works]
  BY DEF IInv, Types, SlotsFit
<1>3. PICK i \in Conditions : i # "stopped" /\ inner' = [inner EXCEPT ![s] = i]
  BY DEF Adopt, Conditions
<1>4. slot[s].state = "Starting" /\ connecting[s] = 0
  BY <1>1, <1>2 DEF Fits, SlotRecs
<1>5. /\ x \in SlotRecs /\ x.state = slot[s].state /\ x.spec = slot[s].spec
      /\ x.retired = slot[s].retired /\ x.everReady = slot[s].everReady
      /\ x.publishing /\ ~x.ready
  BY <1>2 DEF SlotRecs
<1>6. slot' = [slot EXCEPT ![s] = x]
  BY <1>2 DEF Adopt
<1>7. w \in Works /\ w.pc = "publish" /\ w.from = live /\ w.next = live /\ w.root = None
      /\ thread' = [thread EXCEPT !["watcher"] = w]
  BY <1>2 DEF Adopt, NoWork, Works
<1> HIDE DEF x, w
<1>8. \A r \in Slots : slot'[r] = IF r = s THEN x ELSE slot[r]
  BY <1>2, <1>6
<1>9. \A t \in Threads : thread'[t] = IF t = "watcher" THEN w ELSE thread[t]
  BY <1>2, <1>7 DEF Threads
<1>10. PICK noted \in [Calls -> CallRecs] :
        /\ noted = Note(call, s, {"generation"}) /\ \A d \in Calls : Kept(call[d], noted[d])
        /\ \A d \in Calls : call[d].pc \in {"fetch", "run"} /\ call[d].slot = s
                            => "generation" \in noted[d].since
  BY CallsFitNow, NoteFacts DEF Marks
<1>11. /\ call' \in [Calls -> CallRecs] /\ \A d \in Calls : Kept(noted[d], call'[d])
       /\ \A d \in Calls : "generation" \in noted[d].since => "generation" \in call'[d].since
  BY <1>1, <1>10, ForgetFacts
<1>12. Types'
  <2>1. breaker' \in [Slots -> Breakers]
    BY <1>1, BreakerFacts DEF IInv, Types
  <2>2. thread' \in [Threads -> Works]
    BY <1>2, <1>7 DEF Threads
  <2>3. slot' \in [Slots -> SlotRecs] /\ inner' \in [Slots -> Conditions]
    BY <1>2, <1>3, <1>5, <1>6
  <2> QED
    BY <1>1, <1>11, <2>1, <2>2, <2>3 DEF IInv, Types
<1>13. SlotsFit'
  <2>1. Fits(x, 0, i)
    BY <1>3, <1>4, <1>5 DEF Fits
  <2>2. \A r \in Slots \ {s} : Fits(slot[r], connecting[r], inner[r])
    BY DEF IInv, SlotsFit
  <2>3. \A r \in Slots : inner'[r] = IF r = s THEN i ELSE inner[r]
    BY <1>2, <1>3
  <2> QED
    BY <1>1, <1>4, <1>8, <2>1, <2>2, <2>3 DEF SlotsFit
<1>14. ReadyHasConnection'
  <2>1. \A r \in Slots : inner'[r] = IF r = s THEN i ELSE inner[r]
    BY <1>2, <1>3
  <2> QED
    BY <1>1, <1>4, <1>5, <1>8, <2>1 DEF IInv, ReadyHasConnection
<1>15. \A d \in Calls : CallFits(call'[d], slot')
  <2> SUFFICES ASSUME NEW d \in Calls PROVE CallFits(call'[d], slot')
    OBVIOUS
  <2>1. CallFits(call[d], slot) /\ Kept(call[d], call'[d])
    BY <1>10, <1>11, CallsFitNow, KeptTwice
  <2>2. call[d].pc \in {"fetch", "run"} /\ call[d].slot = s => "generation" \in call'[d].since
    BY <1>10, <1>11
  <2>3. CASE call[d].slot = s
    BY <1>5, <1>8, <2>1, <2>2, <2>3 DEF CallFits, Kept
  <2>4. CASE call[d].slot # s
    BY <1>8, <2>1, <2>4 DEF CallFits, Kept
  <2> QED
    BY <2>3, <2>4
<1>16. CallsFit' /\ GatedCalls'
  BY <1>15 DEF CallFits, CallsFit, GatedCalls
<1>17. \A r \in Slots : slot'[r].spec = slot[r].spec /\ (slot'[r].retired => slot[r].retired)
  BY <1>5, <1>8
<1>18. ThreadsFit'
  BY <1>1, <1>2, <1>7, <1>9, <1>17 DEF IInv, ThreadsFit, Publishing, Threads
<1>19. LiveFits'
  BY <1>1, <1>2, <1>9, <1>17 DEF IInv, LiveFits, Threads
<1> QED
  BY <1>12, <1>13, <1>14, <1>16, <1>18, <1>19 DEF IInv

\* A slot that nothing refers to is replaced by an unused one.
LEMMA FreshSlot ==
  ASSUME IInv, NEW s \in Slots, Dropped(s), NEW r \in Roots,
         slot' = [slot EXCEPT ![s] = NewSlot(r)],
         inner' = [inner EXCEPT ![s] = "stopped"], connecting' = [connecting EXCEPT ![s] = 0],
         revived' = revived \ {s}, UNCHANGED call
  PROVE  /\ slot' \in [Slots -> SlotRecs] /\ inner' \in [Slots -> Conditions]
         /\ connecting' \in [Slots -> Nat] /\ revived' \subseteq Slots
         /\ SlotsFit' /\ ReadyHasConnection' /\ CallsFit' /\ GatedCalls'
         /\ \A q \in Slots : q # s => slot'[q] = slot[q]
         /\ slot'[s].spec = r /\ ~slot'[s].retired
<1>1. /\ slot \in [Slots -> SlotRecs] /\ inner \in [Slots -> Conditions]
      /\ connecting \in [Slots -> Nat] /\ revived \subseteq Slots
  BY DEF IInv, Types
<1>2. /\ NewSlot(r) \in SlotRecs /\ NewSlot(r).state = "Stopped" /\ ~NewSlot(r).publishing
      /\ ~NewSlot(r).ready /\ NewSlot(r).spec = r /\ ~NewSlot(r).retired
  BY NewFacts DEF NewSlot
<1>3. \A q \in Slots : /\ slot'[q] = IF q = s THEN NewSlot(r) ELSE slot[q]
                       /\ inner'[q] = IF q = s THEN "stopped" ELSE inner[q]
                       /\ connecting'[q] = IF q = s THEN 0 ELSE connecting[q]
  BY <1>1
<1>4. Fits(NewSlot(r), 0, "stopped")
  BY <1>2 DEF Fits
<1>5. SlotsFit'
  BY <1>3, <1>4 DEF IInv, SlotsFit
<1>6. ReadyHasConnection'
  BY <1>2, <1>3 DEF IInv, ReadyHasConnection
<1>7. \A d \in Calls : call[d].slot # s
  BY DEF Dropped, CallsOn
<1>8. \A d \in Calls : CallFits(call'[d], slot')
  BY <1>3, <1>7, CallsFitNow DEF CallFits
<1>9. CallsFit' /\ GatedCalls'
  BY <1>8 DEF CallFits, CallsFit, GatedCalls
<1> QED
  BY <1>1, <1>2, <1>3, <1>5, <1>6, <1>9 DEF Conditions

\* A slot that is dropped is new again, and nothing refers to it.
LEMMA DropInv ==
  ASSUME IInv, NEW s \in Slots, Drop(s)
  PROVE  IInv'
<1>1. /\ Dropped(s) /\ UNCHANGED <<call, live, root, thread, undone>>
      /\ breaker' = [breaker EXCEPT ![s] = NewBreaker]
  BY DEF Drop
<1>2. PICK r \in Roots : r = slot[live].spec
  BY DEF IInv, Types, SlotRecs
<1>3. /\ slot' \in [Slots -> SlotRecs] /\ inner' \in [Slots -> Conditions]
      /\ connecting' \in [Slots -> Nat] /\ revived' \subseteq Slots
      /\ SlotsFit' /\ ReadyHasConnection' /\ CallsFit' /\ GatedCalls'
      /\ \A q \in Slots : q # s => slot'[q] = slot[q]
  BY <1>1, <1>2, FreshSlot DEF Drop
<1>4. Types'
  BY <1>1, <1>3, NewFacts DEF IInv, Types
<1>5. s # live /\ \A t \in Threads : s # thread[t].next
  BY <1>1 DEF Dropped
<1>6. ThreadsFit'
  BY <1>1, <1>3, <1>5 DEF IInv, ThreadsFit, Publishing
<1>7. LiveFits'
  BY <1>1, <1>3, <1>5 DEF IInv, LiveFits, Types
<1> QED
  BY <1>3, <1>4, <1>6, <1>7 DEF IInv

\* A root changes, a registry is reloaded, a list is refreshed: a thread takes up work.
LEMMA WorkBeginsInv ==
  ASSUME IInv, (\E r \in Roots : SetRoot(r)) \/ Reload \/ RefreshLists
  PROVE  IInv'
<1>1. /\ UNCHANGED <<slot, inner, connecting, breaker, call, live, undone, revived>>
      /\ thread \in [Threads -> Works] /\ live \in Slots /\ root \in Roots
  BY DEF SetRoot, Reload, RefreshLists, IInv, Types
<1>2. SlotsFit' /\ ReadyHasConnection' /\ CallsFit' /\ GatedCalls'
  BY <1>1 DEF IInv, SlotsFit, ReadyHasConnection, CallsFit, GatedCalls
<1>3. ASSUME NEW r \in Roots, SetRoot(r) PROVE IInv'
  <2> DEFINE w == [thread["request"] EXCEPT !.pc = "lock"]
  <2>1. w \in Works /\ w.pc = "lock" /\ w.from = thread["request"].from
        /\ w.next = thread["request"].next
    BY <1>1 DEF Works, Threads
  <2>2. thread' = [thread EXCEPT !["request"] = w] /\ root' = r
    BY <1>1, <1>3 DEF SetRoot, Threads
  <2> HIDE DEF w
  <2>3. \A t \in Threads : thread'[t] = IF t = "request" THEN w ELSE thread[t]
    BY <1>1, <2>2 DEF Threads
  <2>4. Types'
    BY <1>1, <2>1, <2>2 DEF IInv, Types, Threads
  <2>5. ThreadsFit'
    BY <1>1, <2>1, <2>3 DEF IInv, ThreadsFit, Publishing, Threads
  <2>6. LiveFits'
    BY <1>1, <2>1, <2>3 DEF IInv, LiveFits, Threads
  <2> QED
    BY <1>2, <2>4, <2>5, <2>6 DEF IInv
<1>4. CASE Reload
  <2> DEFINE w == [thread["watcher"] EXCEPT !.pc = "lock", !.root = root]
  <2>1. w \in Works /\ w.pc = "lock" /\ w.root = root /\ w.from = thread["watcher"].from
        /\ w.next = thread["watcher"].next
    BY <1>1 DEF Works, Threads
  <2>2. thread' = [thread EXCEPT !["watcher"] = w] /\ root' = root
    BY <1>1, <1>4 DEF Reload, Threads
  <2> HIDE DEF w
  <2>3. \A t \in Threads : thread'[t] = IF t = "watcher" THEN w ELSE thread[t]
    BY <1>1, <2>2 DEF Threads
  <2>4. Types'
    BY <1>1, <2>1, <2>2 DEF IInv, Types, Threads
  <2>5. ThreadsFit'
    BY <1>1, <2>1, <2>3 DEF IInv, ThreadsFit, Publishing, Threads
  <2>6. LiveFits'
    BY <1>1, <2>2, <2>3 DEF IInv, LiveFits, Threads
  <2> QED
    BY <1>2, <2>4, <2>5, <2>6 DEF IInv
<1>5. CASE RefreshLists
  <2> DEFINE w == [NoWork EXCEPT !.pc = "refresh", !.from = live, !.next = live]
  <2>1. w \in Works /\ w.pc = "refresh" /\ w.root = None /\ w.from = live /\ w.next = live
    BY <1>1 DEF Works, NoWork
  <2>2. thread' = [thread EXCEPT !["watcher"] = w] /\ root' = root
    BY <1>5 DEF RefreshLists
  <2> HIDE DEF w
  <2>3. \A t \in Threads : thread'[t] = IF t = "watcher" THEN w ELSE thread[t]
    BY <1>1, <2>2 DEF Threads
  <2>4. Types'
    BY <1>1, <2>1, <2>2 DEF IInv, Types, Threads
  <2>5. ThreadsFit'
    BY <1>1, <2>1, <2>3 DEF IInv, ThreadsFit, Publishing, Threads
  <2>6. LiveFits'
    BY <1>1, <2>2, <2>3 DEF IInv, LiveFits, Threads
  <2> QED
    BY <1>2, <2>4, <2>5, <2>6 DEF IInv
<1> QED
  BY <1>3, <1>4, <1>5

\* A rebuild reuses the live slot if its spec is the wanted one, or makes a slot that
\* nothing else refers to.
LEMMA BuildInv ==
  ASSUME IInv, NEW t \in Threads, Build(t), \A s \in Slots : Dropped(s) => Empty(s)
  PROVE  IInv'
<1>1. /\ thread[t].pc = "lock" /\ UNCHANGED <<call, live, root, undone, inner, connecting, breaker, revived>>
      /\ thread \in [Threads -> Works] /\ live \in Slots /\ root \in Roots
  BY DEF Build, IInv, Types
<1>2. PICK r \in Roots : r = IF t = "request" THEN root ELSE thread[t].root
  BY <1>1 DEF IInv, ThreadsFit, Threads
<1>3. PICK s \in Slots :
        /\ thread' = [thread EXCEPT ![t] = [pc |-> "publish", root |-> r, from |-> live, next |-> s]]
        /\ \/ slot[live].spec = r /\ s = live /\ UNCHANGED slot
           \/ slot[live].spec # r /\ Dropped(s) /\ slot' = [slot EXCEPT ![s] = NewSlot(r)]
  BY <1>2 DEF Build
<1> DEFINE w == [pc |-> "publish", root |-> r, from |-> live, next |-> s]
<1>4. /\ w \in Works /\ w.pc = "publish" /\ w.root = r /\ w.from = live /\ w.next = s /\ r # None
      /\ thread' = [thread EXCEPT ![t] = w]
  BY <1>1, <1>3, NoneAssumption DEF Works
<1> HIDE DEF w
<1>5. \A u \in Threads : thread'[u] = IF u = t THEN w ELSE thread[u]
  BY <1>1, <1>4
<1>6. thread' \in [Threads -> Works]
  BY <1>1, <1>4
<1>7. CASE slot[live].spec = r /\ s = live /\ UNCHANGED slot
  <2>1. SlotsFit' /\ ReadyHasConnection' /\ CallsFit' /\ GatedCalls'
    BY <1>1, <1>7 DEF IInv, SlotsFit, ReadyHasConnection, CallsFit, GatedCalls
  <2>2. Types'
    BY <1>1, <1>6, <1>7 DEF IInv, Types
  <2>3. ThreadsFit'
    BY <1>1, <1>4, <1>5, <1>7 DEF IInv, ThreadsFit, Publishing, Threads
  <2>4. LiveFits'
    BY <1>1, <1>4, <1>5, <1>7 DEF IInv, LiveFits, Threads
  <2> QED
    BY <2>1, <2>2, <2>3, <2>4 DEF IInv
<1>8. CASE Dropped(s) /\ slot' = [slot EXCEPT ![s] = NewSlot(r)]
  <2>1. inner[s] = "stopped" /\ connecting[s] = 0 /\ s \notin revived
    BY <1>8 DEF Empty
  <2>2. /\ inner' = [inner EXCEPT ![s] = "stopped"] /\ connecting' = [connecting EXCEPT ![s] = 0]
        /\ revived' = revived \ {s}
    BY <1>1, <2>1 DEF IInv, Types
  <2>3. /\ slot' \in [Slots -> SlotRecs] /\ inner' \in [Slots -> Conditions]
        /\ connecting' \in [Slots -> Nat] /\ revived' \subseteq Slots
        /\ SlotsFit' /\ ReadyHasConnection' /\ CallsFit' /\ GatedCalls'
        /\ \A q \in Slots : q # s => slot'[q] = slot[q]
        /\ slot'[s].spec = r /\ ~slot'[s].retired
    BY <1>1, <1>8, <2>2, FreshSlot
  <2>4. Types'
    BY <1>1, <1>6, <2>3 DEF IInv, Types
  <2>5. s # live /\ \A u \in Threads : s \notin {thread[u].from, thread[u].next}
    BY <1>8 DEF Dropped
  <2>6. ThreadsFit'
    BY <1>1, <1>4, <1>5, <2>3, <2>5 DEF IInv, ThreadsFit, Publishing, Threads
  <2>7. LiveFits'
    BY <1>1, <1>4, <1>5, <2>3, <2>5 DEF IInv, LiveFits, Threads
  <2> QED
    BY <2>3, <2>4, <2>6, <2>7 DEF IInv
<1> QED
  BY <1>3, <1>7, <1>8

\* A publication replaces the live slot: what it replaces is retired, what it publishes
\* is in service if it waited for that, and it is current unless it was overtaken.
LEMMA PublishInv ==
  ASSUME IInv, NEW t \in Threads, Publish(t)
  PROVE  IInv'
<1>1. /\ Publishing(t) /\ UNCHANGED <<inner, connecting, root, revived>>
      /\ slot \in [Slots -> SlotRecs] /\ thread \in [Threads -> Works]
      /\ live \in Slots /\ root \in Roots /\ thread' = [thread EXCEPT ![t] = NoWork]
  BY DEF Publish, Publishing, IInv, Types
<1>2. PICK next \in Slots : next = thread[t].next
  BY <1>1 DEF IInv, ThreadsFit
<1>3. live' = next /\ slot' = Activate(Retire(slot, live, next), next)
      /\ undone' = (\/ live # thread[t].from
                    \/ thread[t].root # None /\ thread[t].root # root
                    \/ undone /\ next = live)
  BY <1>2 DEF Publish
<1> DEFINE gone == [slot[live] EXCEPT !.retired = TRUE]
           new == [slot[next] EXCEPT !.publishing = FALSE, !.state = "Ready",
                                     !.everReady = TRUE, !.endpoint = FALSE]
<1>4. /\ gone \in SlotRecs /\ gone.state = slot[live].state /\ gone.spec = slot[live].spec
      /\ gone.everReady = slot[live].everReady /\ gone.publishing = slot[live].publishing
      /\ gone.ready = slot[live].ready
  BY <1>1 DEF SlotRecs
<1>5. /\ new \in SlotRecs /\ new.state = "Ready" /\ new.spec = slot[next].spec /\ new.everReady
      /\ ~new.publishing /\ new.ready = slot[next].ready /\ new.retired = slot[next].retired
  BY <1>1 DEF SlotRecs
<1>6. PICK mid \in [Slots -> SlotRecs] :
        /\ mid = Retire(slot, live, next)
        /\ \A q \in Slots : mid[q] = IF q = live /\ live # next THEN gone ELSE slot[q]
  <2>1. CASE live = next
    BY <1>1, <2>1 DEF Retire
  <2>2. CASE live # next
    <3>1. Retire(slot, live, next) = [slot EXCEPT ![live] = gone]
      BY <1>1, <2>2 DEF Retire
    <3> HIDE DEF gone
    <3> QED
      BY <1>1, <1>4, <2>2, <3>1
  <2> QED
    BY <2>1, <2>2
<1>7. mid[next] = slot[next]
  BY <1>6
<1>8. /\ slot' \in [Slots -> SlotRecs]
      /\ slot'[next] = IF slot[next].publishing THEN new ELSE slot[next]
      /\ \A q \in Slots \ {next} : slot'[q] = IF q = live THEN gone ELSE slot[q]
  <2>1. CASE slot[next].publishing
    <3>1. slot' = [mid EXCEPT ![next] = new]
      BY <1>3, <1>6, <1>7, <2>1 DEF Activate
    <3> HIDE DEF new, gone
    <3> QED
      BY <1>5, <1>6, <2>1, <3>1
  <2>2. CASE ~slot[next].publishing
    <3>1. slot' = mid
      BY <1>3, <1>6, <1>7, <2>2 DEF Activate
    <3> HIDE DEF new, gone
    <3> QED
      BY <1>6, <1>7, <2>2, <3>1
  <2> QED
    BY <2>1, <2>2
<1> HIDE DEF new, gone
<1>9. \A q \in Slots : /\ slot'[q].spec = slot[q].spec
                       /\ slot[q].everReady => slot'[q].everReady
                       /\ slot'[q].publishing => slot[q].publishing
                       /\ slot'[q].retired => slot[q].retired \/ (q = live /\ live # next)
  BY <1>4, <1>5, <1>8
<1>10. SlotsFit'
  <2>1. \A q \in Slots : Fits(slot[q], connecting[q], inner[q])
    BY DEF IInv, SlotsFit
  <2>2. ASSUME slot[next].publishing PROVE Fits(new, connecting[next], inner[next])
    <3>1. connecting[next] = 0 /\ ~slot[next].ready
      BY <1>1, <2>1, <2>2 DEF Fits, SlotRecs
    <3> QED
      BY <1>5, <3>1 DEF Fits
  <2>3. Fits(gone, connecting[live], inner[live])
    BY <1>1, <1>4, <2>1 DEF Fits
  <2> QED
    BY <1>1, <1>8, <2>1, <2>2, <2>3 DEF SlotsFit
<1>11. ReadyHasConnection'
  <2>1. ASSUME slot[next].publishing PROVE inner[next] # "stopped"
    <3>1. Fits(slot[next], connecting[next], inner[next]) /\ slot[next] \in SlotRecs
      BY <1>1 DEF IInv, SlotsFit
    <3> QED
      BY <2>1, <3>1 DEF Fits, SlotRecs
  <2>2. \A q \in Slots : slot[q].state = "Ready" => inner[q] # "stopped" \/ q \in revived
    BY DEF IInv, ReadyHasConnection
  <2> QED
    BY <1>1, <1>4, <1>8, <2>1, <2>2 DEF ReadyHasConnection
<1>12. /\ call' \in [Calls -> CallRecs] /\ \A d \in Calls : Kept(call[d], call'[d])
       /\ breaker' \in [Slots -> Breakers]
  <2>1. CASE UNCHANGED <<breaker, call>>
    BY <2>1, CallsFitNow DEF IInv, Types
  <2>2. CASE RecordSuccess(next) /\ call' = Forget(call, next, {"failure"})
    BY <2>2, CallsFitNow, ForgetFacts, BreakerFacts DEF IInv, Types
  <2> QED
    BY <1>2, <2>1, <2>2 DEF Publish
<1>13. \A d \in Calls : CallFits(call'[d], slot')
  <2> SUFFICES ASSUME NEW d \in Calls PROVE CallFits(call'[d], slot')
    OBVIOUS
  <2> QED
    BY <1>9, <1>12, CallsFitNow, KeptFits
<1>14. CallsFit' /\ GatedCalls'
  BY <1>13 DEF CallFits, CallsFit, GatedCalls
<1>15. Types'
  <2>1. undone' \in BOOLEAN
    BY <1>3
  <2> QED
    BY <1>1, <1>3, <1>8, <1>12, <2>1, NewFacts DEF IInv, Types
<1>16. \A u \in Threads : thread'[u] = IF u = t THEN NoWork ELSE thread[u]
  BY <1>1
<1>17. NoWork.pc = "idle" /\ NoWork.from = None /\ NoWork.next = None
  BY DEF NoWork
<1>18. ThreadsFit'
  <2>1. thread'["watcher"].pc = "lock" => thread'["watcher"].root \in Roots
    BY <1>16, <1>17 DEF IInv, ThreadsFit, Threads
  <2>2. ASSUME NEW u \in Threads, Publishing(u)'
        PROVE  /\ u # t /\ thread'[u] = thread[u] /\ Publishing(u)
    BY <1>16, <1>17, <2>2 DEF Publishing
  <2>3. ASSUME NEW u \in Threads, Publishing(u)'
        PROVE  /\ thread'[u].from \in Slots /\ thread'[u].next \in Slots
               /\ thread'[u].root # None => slot'[thread'[u].next].spec = thread'[u].root
               /\ thread'[u].root = None => thread'[u].next = thread'[u].from /\ u = "watcher"
    BY <1>9, <2>2, <2>3 DEF IInv, ThreadsFit
  <2>4. ASSUME NEW u \in Threads, Publishing(u)', thread'[u].next # thread'[u].from
        PROVE  /\ ~slot'[thread'[u].next].retired /\ live' # thread'[u].next
               /\ \A v \in Threads \ {u} : thread'[u].next \notin {thread'[v].from, thread'[v].next}
    <3>1. /\ thread[u].next \in Slots /\ ~slot[thread[u].next].retired /\ live # thread[u].next
          /\ \A v \in Threads \ {u} : thread[u].next \notin {thread[v].from, thread[v].next}
      BY <2>2, <2>4 DEF IInv, ThreadsFit
    <3>2. thread[u].next # next
      BY <1>2, <2>2, <2>4, <3>1
    <3>3. thread[u].next # None
      BY <3>1, NoneAssumption
    <3> QED
      BY <1>3, <1>9, <1>16, <1>17, <2>2, <2>4, <3>1, <3>2, <3>3
  <2> QED
    BY <2>1, <2>3, <2>4 DEF ThreadsFit
<1>19. LiveFits'
  <2> SUFFICES ASSUME ~undone'
               PROVE  /\ ~slot'[next].retired
                      /\ thread'["request"].pc = "idle" => slot'[next].spec = root
    BY <1>1, <1>3 DEF LiveFits
  <2>1. /\ live = thread[t].from /\ (thread[t].root # None => thread[t].root = root)
        /\ undone => next # live
    BY <1>3
  <2>2. /\ thread[t].root # None => slot[next].spec = root
        /\ thread[t].root = None => next = live /\ t = "watcher"
        /\ next # live => ~slot[next].retired
    BY <1>1, <1>2, <2>1 DEF IInv, ThreadsFit
  <2>3. ~slot'[next].retired
    BY <1>9, <2>1, <2>2 DEF IInv, LiveFits
  <2>4. CASE thread[t].root # None
    BY <1>9, <2>2, <2>3, <2>4
  <2>5. CASE thread[t].root = None
    <3>1. next = live /\ t = "watcher" /\ ~undone
      BY <2>1, <2>2, <2>5
    <3>2. thread'["request"] = thread["request"]
      BY <1>16, <3>1 DEF Threads
    <3> QED
      BY <1>9, <2>3, <3>1, <3>2 DEF IInv, LiveFits
  <2> QED
    BY <2>4, <2>5
<1> QED
  BY <1>10, <1>11, <1>14, <1>15, <1>18, <1>19 DEF IInv

-----------------------------------------------------------------------------
(* The theorems.                                                           *)

\* At first there is one stopped slot, for the client's root.
LEMMA InitInv == Init => IInv
<1> SUFFICES ASSUME Init PROVE IInv
  OBVIOUS
<1>1. live \in Slots /\ root \in Roots
  BY SlotsAssumption DEF Init
<1>2. Types
  BY <1>1, NewFacts DEF Init, Types, Conditions
<1>3. \A s \in Slots : /\ slot[s].state = "Stopped" /\ ~slot[s].publishing /\ ~slot[s].ready
                       /\ ~slot[s].retired /\ slot[s].spec = root /\ connecting[s] = 0
                       /\ inner[s] = "stopped"
  BY DEF Init, NewSlot
<1>4. SlotsFit /\ ReadyHasConnection
  BY <1>3 DEF SlotsFit, Fits, ReadyHasConnection
<1>5. \A c \in Calls : call[c] = NoCall
  BY DEF Init
<1>6. CallsFit /\ GatedCalls
  BY <1>5, NewFacts DEF CallsFit, GatedCalls
<1>7. \A t \in Threads : thread[t] = NoWork
  BY DEF Init
<1>8. ThreadsFit
  BY <1>7, NewFacts DEF ThreadsFit, Publishing, Threads
<1>9. LiveFits
  BY <1>1, <1>3 DEF LiveFits
<1> QED
  BY <1>2, <1>4, <1>6, <1>8, <1>9 DEF IInv

\* Every step keeps the invariant.
LEMMA NextInv == IInv /\ [Next]_vars => IInv'
<1> SUFFICES ASSUME IInv, [Next]_vars PROVE IInv'
  OBVIOUS
<1>1. CASE UNCHANGED vars
  <2>1. Types'
    BY <1>1 DEF vars, IInv, Types
  <2> QED
    BY <1>1, <2>1 DEF vars, IInv, SlotsFit, CallsFit, GatedCalls, ReadyHasConnection,
                      ThreadsFit, Publishing, LiveFits
<1>2. ASSUME NEW c \in Calls, Demand(c) \/ CallStep(c) PROVE IInv'
  BY <1>2, DemandInv, StartInv, WaitInv, PassBreakerInv, LookInv, AdmitInv, FetchInv, EndInv,
     SettleOkInv, SettleAuthInv, SettleFailureInv, RecordInv DEF CallStep
<1>3. ASSUME NEW s \in Slots, \/ Connected(s) \/ Condition(s) \/ Adopt(s)
                              \/ StopClosed(s) \/ StopIdle(s) \/ Retry(s)
      PROVE  IInv'
  BY <1>3, ConnectedInv, ConditionInv, AdoptInv, StopInv, RetryInv
<1> QED
  BY <1>1, <1>2, <1>3, DropInv, WorkBeginsInv, BuildInv, PublishInv DEF Next

\* The invariant holds in every reachable state.
LEMMA Invariance == Spec => []IInv
BY InitInv, NextInv, PTL DEF Spec

\* However starts, failures, stops and late outcomes of calls interleave, a slot owns at
\* most one connection, counting the one being made and the one that waits, and a slot
\* that says Ready has one, except where a late success revived it.
THEOREM SlotsStayOK == Spec => []SlotsOK
<1>1. IInv => SlotsOK
  <2> SUFFICES ASSUME IInv PROVE SlotsOK
    OBVIOUS
  <2>1. OneConnection
    <3> SUFFICES ASSUME NEW s \in Slots
                 PROVE  connecting[s] + (IF slot[s].ready THEN 1 ELSE 0)
                                      + (IF inner[s] # "stopped" THEN 1 ELSE 0) <= 1
      BY DEF OneConnection
    <3>1. slot[s] \in SlotRecs /\ Fits(slot[s], connecting[s], inner[s])
      BY DEF IInv, Types, SlotsFit
    <3>2. connecting[s] \in {0, 1} /\ (connecting[s] = 1 => ~slot[s].ready)
          /\ (inner[s] # "stopped" => connecting[s] = 0 /\ ~slot[s].ready)
      BY <3>1 DEF Fits, SlotRecs
    <3> QED
      BY <3>2
  <2> QED
    BY <2>1, TypesAreTypeOK DEF IInv, SlotsOK
<1> QED
  BY <1>1, Invariance, PTL

\* No call is admitted to a connection whose catalogue has not passed the gate: whatever runs
\* between adoption and publication was admitted while an earlier connection served, or is on
\* one that was stopped.
THEOREM GatedOnly == Spec => []NoneAdmittedUngated
<1>1. IInv => NoneAdmittedUngated
  BY DEF IInv, GatedCalls, NoneAdmittedUngated, CallsOn
<1> QED
  BY <1>1, Invariance, PTL

\* Once no root change is under way, the published slot is for the client's root and not
\* retired, unless a publication that began earlier overtook a newer one.
THEOREM LiveStaysCurrent == Spec => []LiveIsCurrent
<1>1. IInv => LiveIsCurrent
  BY DEF IInv, LiveFits, LiveIsCurrent
<1> QED
  BY <1>1, Invariance, PTL

-----------------------------------------------------------------------------
(* Which steps end a running call.                                         *)

\* No call loses its connection.
NoneCut == \A c \in Calls : call'[c].cut => call[c].cut

\* A call that moves on, or answers, ends no other.
LEMMA CallStepCuts ==
  ASSUME IInv, NEW c \in Calls,
         \/ Demand(c) \/ Start(c) \/ Wait(c) \/ PassBreaker(c) \/ Look(c) \/ Admit(c)
         \/ Fetch(c) \/ End(c) \/ SettleOk(c) \/ SettleAuth(c) \/ Record(c)
  PROVE  NoneCut
<1>1. call \in [Calls -> CallRecs]
  BY DEF IInv, Types
<1> DEFINE Q == [call EXCEPT ![c] = NoCall]
<1>2. Q \in [Calls -> CallRecs] /\ \A d \in Calls : Q[d].cut => call[d].cut
  BY <1>1, NewFacts DEF NoCall
<1>3. CASE Return(c)
  BY <1>2, <1>3 DEF Return, NoneCut
<1>4. ASSUME NEW pc, Goto(c, pc) PROVE NoneCut
  <2>1. call' = [call EXCEPT ![c] = [call[c] EXCEPT !.pc = pc]]
    BY <1>1, <1>4 DEF Goto
  <2>2. [call[c] EXCEPT !.pc = pc].cut = call[c].cut
    BY <1>1 DEF CallRecs
  <2> HIDE DEF Q
  <2> QED
    BY <1>1, <2>1, <2>2 DEF NoneCut
<1>5. ASSUME NEW s, NEW what \in SUBSET Marks, call' = Note(Q, s, what) PROVE NoneCut
  <2> HIDE DEF Q
  <2> QED
    BY <1>2, <1>5, NoteFacts DEF NoneCut
<1>6. CASE Demand(c)
  <2> DEFINE l == [NoCall EXCEPT !.slot = live,
                                 !.pc = IF slot[live].retired THEN "wait" ELSE "start"]
  <2>1. call' = [call EXCEPT ![c] = l]
    BY <1>6 DEF Demand
  <2>2. ~l.cut
    BY DEF NoCall
  <2> HIDE DEF l, Q
  <2> QED
    BY <1>1, <2>1, <2>2 DEF NoneCut
<1>7. CASE Start(c) \/ Wait(c) \/ Admit(c)
  BY <1>3, <1>4, <1>7 DEF Start, Wait, Admit
<1>8. CASE PassBreaker(c)
  <2>1. CASE Return(c)
    BY <1>3, <2>1
  <2>2. CASE call' = [call EXCEPT
                        ![c].pc = "look",
                        ![c].probe = breaker[call[c].slot].failures >= BREAKER_FAILURE_THRESHOLD]
    <3>1. PICK p : p = (breaker[call[c].slot].failures >= BREAKER_FAILURE_THRESHOLD)
      OBVIOUS
    <3>2. call' = [call EXCEPT ![c].pc = "look", ![c].probe = p]
      BY <2>2, <3>1, Zenon
    <3>3. call' = [call EXCEPT ![c] = [call[c] EXCEPT !.pc = "look", !.probe = p]]
      BY <1>1, <3>2
    <3>4. [call[c] EXCEPT !.pc = "look", !.probe = p].cut = call[c].cut
      BY <1>1 DEF CallRecs
    <3> HIDE DEF Q
    <3> QED
      BY <1>1, <3>3, <3>4 DEF NoneCut
  <2> QED
    BY <1>8, <2>1, <2>2 DEF PassBreaker
<1>9. CASE Look(c)
  <2>1. CASE call' = [call EXCEPT ![c].pc = "admit", ![c].since = {}]
    <3>1. call' = [call EXCEPT ![c] = [call[c] EXCEPT !.pc = "admit", !.since = {}]]
      BY <1>1, <2>1
    <3>2. [call[c] EXCEPT !.pc = "admit", !.since = {}].cut = call[c].cut
      BY <1>1 DEF CallRecs
    <3> HIDE DEF Q
    <3> QED
      BY <1>1, <3>1, <3>2 DEF NoneCut
  <2>2. {"failure"} \in SUBSET Marks
    BY DEF Marks
  <2> QED
    BY <1>5, <1>9, <2>1, <2>2 DEF Look
<1>10. CASE Fetch(c)
  <2>1. ASSUME NEW l, call' = [call EXCEPT ![c].pc = "run", ![c].locked = l] PROVE NoneCut
    <3>1. call' = [call EXCEPT ![c] = [call[c] EXCEPT !.pc = "run", !.locked = l]]
      BY <1>1, <2>1
    <3>2. [call[c] EXCEPT !.pc = "run", !.locked = l].cut = call[c].cut
      BY <1>1 DEF CallRecs
    <3> HIDE DEF Q
    <3> QED
      BY <1>1, <3>1, <3>2 DEF NoneCut
  <2> QED
    BY <1>3, <1>10, <2>1 DEF Fetch
<1>11. CASE End(c)
  <2>1. PICK kind \in Outcomes(c) :
          call' = IF kind \in {"rpc", "fatal"}
                  THEN Note(Q, call[c].slot, IF kind = "rpc" THEN {"response"} ELSE {})
                  ELSE [call EXCEPT ![c] = Ended(call[c], kind)]
    BY <1>11 DEF End
  <2>2. CASE kind \in {"rpc", "fatal"}
    <3>1. (IF kind = "rpc" THEN {"response"} ELSE {}) \in SUBSET Marks
      BY DEF Marks
    <3> QED
      BY <1>5, <2>1, <2>2, <3>1
  <2>3. CASE kind \notin {"rpc", "fatal"}
    <3> DEFINE k == call[c]
               m == [k EXCEPT !.pc = "ended", !.kind = kind, !.cut = FALSE,
                              !.probe = k.probe /\ kind \in {"timeout", "down"},
                              !.locked = k.locked /\ kind \notin {"ok", "auth"}]
    <3>1. kind \in {"none", "ok", "rpc", "auth", "timeout", "down", "rejected", "fatal"}
      BY <2>1 DEF Outcomes
    <3>2. m \in CallRecs /\ ~m.cut
      BY <1>1, <3>1 DEF CallRecs
    <3>3. Ended(call[c], kind) = Settled(m)
      BY DEF Ended
    <3> HIDE DEF m, Q
    <3>4. ~Ended(call[c], kind).cut
      BY <3>2, <3>3, SettledFacts
    <3> QED
      BY <1>1, <2>1, <2>3, <3>4 DEF NoneCut
  <2> QED
    BY <2>2, <2>3
<1>12. CASE SettleOk(c)
  <2>1. PICK noted \in [Calls -> CallRecs] :
          /\ noted = Note(Q, call[c].slot, {"response", "success"})
          /\ \A d \in Calls : noted[d].cut => call[d].cut
    <3>1. {"response", "success"} \in SUBSET Marks
      BY DEF Marks
    <3> HIDE DEF Q
    <3> QED
      BY <1>2, <3>1, NoteFacts
  <2>2. call' = Forget(noted, call[c].slot, {"failure"})
    BY <1>12, <2>1 DEF SettleOk
  <2> QED
    BY <2>1, <2>2, ForgetFacts DEF NoneCut
<1>13. CASE Record(c)
  <2>1. \E what \in SUBSET Marks : call' = Note(Q, call[c].slot, what)
    BY <1>13 DEF Record, Marks
  <2> QED
    BY <1>5, <2>1
<1> QED
  BY <1>3, <1>6, <1>7, <1>8, <1>9, <1>10, <1>11, <1>12, <1>13 DEF SettleAuth

\* A stop ends the calls that run on the connection it stops, and no other.
LEMMA StopCuts ==
  ASSUME NEW calls \in [Calls -> CallRecs], NEW s, call' = Cut(calls, s),
         \A d \in Calls : calls[d].cut => call[d].cut,
         \A d \in Calls : calls[d].pc = "run" => call[d] = calls[d],
         inner[s] \in Closed \/ HandleCalls(s) = {}
  PROVE  \A c \in Calls : (~call[c].cut /\ call'[c].cut) => inner[call[c].slot] \in Closed
<1> SUFFICES ASSUME NEW c \in Calls, ~call[c].cut, call'[c].cut
             PROVE  inner[call[c].slot] \in Closed
  OBVIOUS
<1>1. ~calls[c].cut
  OBVIOUS
<1>2. calls[c].pc = "run" /\ calls[c].slot = s
  BY <1>1, CutFacts
<1>3. call[c].pc = "run" /\ call[c].slot = s
  BY <1>2
<1>4. c \in HandleCalls(s)
  BY <1>3 DEF HandleCalls, CallsOn
<1> QED
  BY <1>3, <1>4

\* A failed call degrades its slot only when that ends no running call.
LEMMA SettleFailureCuts ==
  ASSUME IInv, NEW c \in Calls, SettleFailure(c)
  PROVE  \A d \in Calls : (~call[d].cut /\ call'[d].cut) => inner[call[d].slot] \in Closed
<1>1. call[c].pc = "ended" /\ call \in [Calls -> CallRecs]
  BY DEF SettleFailure, IInv, Types
<1>2. /\ Failed(c) \in [Calls -> CallRecs] /\ Failed(c)[c].pc = "record" /\ ~Failed(c)[c].cut
      /\ \A d \in Calls \ {c} : Failed(c)[d] = call[d]
  BY <1>1, FailedFacts
<1>3. CASE Return(c)
  BY <1>1, <1>3 DEF Return, NoCall
<1>4. CASE call' = Failed(c)
  BY <1>2, <1>4
<1>5. CASE MayDegrade(c) /\ call' = Cut(Failed(c), call[c].slot)
  <2>1. inner[call[c].slot] \in Closed \/ HandleCalls(call[c].slot) = {}
    BY <1>5 DEF MayDegrade
  <2>2. \A d \in Calls : Failed(c)[d].cut => call[d].cut
    BY <1>2
  <2>3. \A d \in Calls : Failed(c)[d].pc = "run" => call[d] = Failed(c)[d]
    BY <1>2
  <2> QED
    BY <1>2, <1>5, <2>1, <2>2, <2>3, StopCuts
<1> QED
  BY <1>3, <1>4, <1>5 DEF SettleFailure

\* The watcher, the threads that publish and the server itself end no running call,
\* except with a connection that closed.
LEMMA OtherCuts ==
  ASSUME IInv,
         \/ \E s \in Slots : \/ Drop(s) \/ Connected(s) \/ Condition(s) \/ Adopt(s)
                             \/ StopClosed(s) \/ StopIdle(s) \/ Retry(s)
         \/ \E r \in Roots : SetRoot(r)
         \/ \E t \in Threads : Build(t) \/ Publish(t)
         \/ Reload \/ RefreshLists
  PROVE  \A c \in Calls : (~call[c].cut /\ call'[c].cut) => inner[call[c].slot] \in Closed
<1>1. call \in [Calls -> CallRecs]
  BY DEF IInv, Types
<1>2. CASE UNCHANGED call
  BY <1>2
<1>3. ASSUME NEW s \in Slots, Adopt(s) PROVE NoneCut
  <2>1. PICK noted \in [Calls -> CallRecs] :
          /\ noted = Note(call, s, {"generation"})
          /\ \A d \in Calls : noted[d].cut => call[d].cut
    <3>1. {"generation"} \in SUBSET Marks
      BY DEF Marks
    <3> QED
      BY <1>1, <3>1, NoteFacts
  <2>2. call' = Forget(noted, s, {"failure"})
    BY <1>3, <2>1 DEF Adopt
  <2> QED
    BY <2>1, <2>2, ForgetFacts DEF NoneCut
<1>4. ASSUME NEW t \in Threads, Publish(t) PROVE NoneCut
  <2>1. CASE call' = Forget(call, thread[t].next, {"failure"})
    BY <1>1, <2>1, ForgetFacts DEF NoneCut
  <2> QED
    BY <1>4, <2>1 DEF Publish, NoneCut
<1>5. ASSUME NEW s \in Slots, StopClosed(s) \/ StopIdle(s)
      PROVE  \A c \in Calls : (~call[c].cut /\ call'[c].cut) => inner[call[c].slot] \in Closed
  <2>1. call' = Cut(call, s) /\ (inner[s] \in Closed \/ HandleCalls(s) = {})
    BY <1>5 DEF StopClosed, StopIdle, IdleUnused
  <2> QED
    BY <1>1, <2>1, StopCuts
<1>6. CASE \E s \in Slots : Drop(s) \/ Connected(s) \/ Condition(s) \/ Retry(s)
  BY <1>2, <1>6 DEF Drop, Connected, Condition, Retry
<1>7. CASE (\E r \in Roots : SetRoot(r)) \/ (\E t \in Threads : Build(t)) \/ Reload \/ RefreshLists
  BY <1>2, <1>7 DEF SetRoot, Build, Reload, RefreshLists
<1> QED
  BY <1>3, <1>4, <1>5, <1>6, <1>7 DEF NoneCut

\* A slot that looks idle or wedged is never stopped under a call that runs on it: only a
\* connection that closed by itself takes calls with it.
THEOREM CallsKeepRunning == Spec => RunningCallsKept
<1> DEFINE Step == \A c \in Calls : (~call[c].cut /\ call'[c].cut) => inner[call[c].slot] \in Closed
<1>1. IInv /\ [Next]_vars => [Step]_vars
  <2> SUFFICES ASSUME IInv, Next PROVE Step
    OBVIOUS
  <2>1. ASSUME NEW c \in Calls, Demand(c) \/ CallStep(c) PROVE Step
    <3>1. CASE SettleFailure(c)
      BY <3>1, SettleFailureCuts
    <3>2. CASE NoneCut
      BY <3>2 DEF NoneCut
    <3> QED
      BY <2>1, <3>1, <3>2, CallStepCuts DEF CallStep
  <2> QED
    BY <2>1, OtherCuts DEF Next
<1> QED
  BY <1>1, Invariance, PTL DEF Spec, RunningCallsKept
=============================================================================
