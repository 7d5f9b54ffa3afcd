-------------------------- MODULE ModernApprovals --------------------------
(***************************************************************************)
(* The approval path of modern clients (toolport-gateway.rs): a gated call *)
(* is not held open.  It parks a record in the session table, returns      *)
(* input_required with a token, and the client enters again with the token *)
(* and the person's answer on a fresh request.  The table is a             *)
(* SessionStore; records also go by cancellation of the request that made  *)
(* them and by the end of their session, and every record that goes writes *)
(* itself into the list of terminal tokens and, if nobody answered it, an  *)
(* audit row.                                                              *)
(*                                                                         *)
(* A bound call (exposed name, argument hash, conversation scope) is a     *)
(* pair of scope and arguments.  Requests run concurrently; a client may   *)
(* send any token it was given, any number of times, with any call: what a *)
(* request carries is chosen where it is first read.                       *)
(***************************************************************************)
EXTENDS Naturals, FiniteSets, Sequences

CONSTANTS Tokens,      \* correlation ids of prompts
          Reqs,        \* request threads
          Scopes,      \* conversations
          Args,        \* argument hashes (with the exposed name)
          Defs,        \* fingerprints the tool can have
          Owners,      \* servers the exposed name can route to
          None,
          MaxPending,  \* MODERN_HITL_MAX_PENDING
          Timeout,     \* DEFAULT_TIMEOUT_SECS
          Retention,   \* MODERN_HITL_RETENTION
          MaxTime,     \* bound on the clock
          MaxUpsets    \* bound on cancellations, ended sessions, policy and router changes

Rows == {"withdrawn", "no_response", "denied", "approved", "stale_state", "unreachable"}

ASSUME NoneAssumption == None \notin Tokens \cup Defs \cup Owners \cup Rows
ASSUME TimeAssumption == Timeout \in Nat /\ Retention \in Nat /\ MaxTime \in Nat /\ MaxUpsets \in Nat
ASSUME PendingAssumption == MaxPending \in Nat

VARIABLES now,
          hitl,       \* the table: token -> record
          nextSeq,    \* its insertion counter
          terminal,   \* tokens whose record is gone, oldest first
          cancelled,  \* tokens whose first request was cancelled
          firing,     \* hooks taken out by a cancel and not yet run
          req,        \* the request threads
          route,      \* the live router: owner and definition, None if it blocks the tool
          gated,      \* the registry asks for approval of this tool
          upsets,     \* how many of the bounded events have happened
          rows,       \* audit rows about each token, in order
          unguarded,  \* tokens resumed when no gate asked for them
          verdict,    \* history: what came of each prompt
          shown,      \* history: what the person was shown
          ran,        \* history: what was executed on which token
          finished    \* history: tokens on which a call came back with a result

tableVars == <<hitl, nextSeq, terminal, rows>>
cancelVars == <<cancelled, firing>>
worldVars == <<now, route, gated, upsets>>
histVars == <<shown, ran, finished>>
vars == <<tableVars, cancelVars, worldVars, histVars, verdict, req, unguarded>>

Store == INSTANCE SessionStore WITH Ttl <- Retention, Cap <- MaxPending

Calls == Scopes \X Args
\* What a record binds; it does not hold the server that owned the name.
Contents == Calls \X Defs

Record == [call : Calls, fp : Defs, status : {"awaiting", "approved"},
           started : Nat, audit : BOOLEAN, seen : Nat, seq : Nat]

Answers == {"nothing", "accept", "decline"}

\* A request at pc that has read nothing yet but its token and the router.
At(pc, t, o, d) == [pc |-> pc, token |-> t, call |-> None,
                    owner |-> o, fp |-> d, newly |-> FALSE]
Idle == At("idle", None, None, None)

Entry == [pc : {"idle", "hook", "insert", "poll", "missing", "forget",
                "check", "drop", "revalidate", "dispatch", "running"},
          token : Tokens \cup {None}, call : Calls \cup {None},
          owner : Owners \cup {None}, fp : Defs \cup {None}, newly : BOOLEAN]

TypeOK ==
    /\ now \in Nat
    /\ DOMAIN hitl \subseteq Tokens
    /\ \A t \in DOMAIN hitl : hitl[t] \in Record
    /\ nextSeq \in Nat
    /\ cancelled \subseteq Tokens /\ firing \subseteq Tokens
    /\ unguarded \subseteq Tokens
    /\ terminal \in Seq(Tokens)
    /\ req \in [Reqs -> Entry]
    /\ route \in [owner : Owners, def : Defs \cup {None}]
    /\ gated \in BOOLEAN /\ upsets \in Nat
    /\ rows \in [Tokens -> Seq(Rows)]
    /\ verdict \in [Tokens -> {"unasked", "asked", "yes", "no", "lapsed"}]
    /\ shown \in [Tokens -> Contents \cup {None}]
    /\ ran \subseteq Tokens \X Contents /\ finished \subseteq Tokens

Init ==
    /\ now = 0 /\ hitl = <<>> /\ nextSeq = 0 /\ terminal = <<>>
    /\ cancelled = {} /\ firing = {} /\ unguarded = {}
    /\ req = [r \in Reqs |-> Idle]
    /\ route \in [owner : Owners, def : Defs]
    /\ gated = TRUE /\ upsets = 0
    /\ rows = [t \in Tokens |-> <<>>]
    /\ verdict = [t \in Tokens |-> "unasked"]
    /\ shown = [t \in Tokens |-> None]
    /\ ran = {} /\ finished = {}

-----------------------------------------------------------------------------
(* Records that go.                                                        *)

\* remember_terminal_modern_hitl for each of D, in the order the table gives.
Remembered(D) ==
    LET new == {t \in D : \A i \in 1..Len(terminal) : terminal[i] # t}
        line == CHOOSE f \in [1..Cardinality(new) -> new] :
                    \A t \in new : \E i \in 1..Cardinality(new) : f[i] = t
        all == terminal \o line
        over == Len(all) - 2 * MaxPending
    IN  IF over > 0 THEN SubSeq(all, over + 1, Len(all)) ELSE all

IsTerminal(t) == \E i \in 1..Len(terminal) : terminal[i] = t

\* The row of a record that goes unanswered.
AbandonedRow(e) == IF now - e.started >= Timeout THEN "no_response" ELSE "withdrawn"

\* The table becomes s: the records that are in it no more are dropped, after
\* `spent` had their abandoned_audit taken away, and `row` is written about
\* token t unless it is None.
TableBecomes(s, spent, t, row) ==
    LET gone == DOMAIN hitl \ DOMAIN s
        Of(u) == (IF u \in gone /\ u # spent /\ hitl[u].audit
                  THEN <<AbandonedRow(hitl[u])>> ELSE <<>>)
                 \o (IF u = t /\ row # None THEN <<row>> ELSE <<>>)
    IN  /\ hitl' = s
        /\ terminal' = Remembered(gone)
        /\ rows' = [u \in Tokens |-> rows[u] \o Of(u)]

\* A prompt that is dropped while nobody has answered it lapses.
Lapsed(s) == [u \in Tokens |-> IF u \in DOMAIN hitl \ DOMAIN s /\ verdict[u] = "asked"
                               THEN "lapsed" ELSE verdict[u]]

Go(r, e) == req' = [req EXCEPT ![r] = e]
Return(r) == Go(r, Idle)

\* finish_modern_hitl, with a row about the token or None.
Finish(t, row) == /\ TableBecomes(Store!Remove(hitl, t), None, t, row)
                  /\ verdict' = Lapsed(Store!Remove(hitl, t))
                  /\ UNCHANGED nextSeq

-----------------------------------------------------------------------------
(* A first call.                                                           *)

Unused(t) == verdict[t] = "unasked" /\ \A r \in Reqs : req[r].token # t

\* A gated call without a token; the request keeps the router it arrived with.
SendFresh(r, t) ==
    /\ req[r].pc = "idle" /\ gated /\ route.def # None /\ Unused(t)
    /\ Go(r, At("hook", t, route.owner, route.def))
    /\ UNCHANGED <<tableVars, cancelVars, worldVars, histVars, verdict, unguarded>>

\* The guard of a hook lives in the record, until then with the request.
Hooked(t) == t \in DOMAIN hitl \/ \E r \in Reqs : req[r].token = t /\ req[r].pc = "insert"

\* start_modern_hitl, first half: on_cancel.  Run at once for a cancelled
\* request, the hook finds no record.
RegisterHook(r) ==
    /\ req[r].pc = "hook"
    /\ Go(r, [req[r] EXCEPT !.pc = "insert"])
    /\ UNCHANGED <<tableVars, cancelVars, worldVars, histVars, verdict, unguarded>>

NewRecord(r, c) == [call |-> c, fp |-> req[r].fp, status |-> "awaiting",
                    started |-> now, audit |-> TRUE, seen |-> now, seq |-> nextSeq]

\* (Mutated: the cancellation is not looked at again under the lock.)
RefusalUnchecked(r, s) ==
    IF Cardinality(DOMAIN s) >= MaxPending THEN "unreachable" ELSE None

\* (Mutated: a full table is left to the store's eviction.)
RefusalUncapped(r, s) == IF req[r].token \in cancelled THEN "withdrawn" ELSE None

\* Why a prompt is not put, given the reaped table, or None.
Refusal(r, s) ==
    IF req[r].token \in cancelled THEN "withdrawn"
    ELSE IF Cardinality(DOMAIN s) >= MaxPending THEN "unreachable" ELSE None

\* Second half, under the table's lock: reap, look at the cancellation and the
\* cap, insert.
StartPrompt(r, c) ==
    LET t == req[r].token
        s == Store!ReapExpired(hitl, now)
        full == Store!Insert(s, t, NewRecord(r, c), now)
    IN  /\ req[r].pc = "insert"
        /\ \/ /\ Refusal(r, s) # None
              /\ TableBecomes(s, None, t, Refusal(r, s))
              /\ verdict' = [Lapsed(s) EXCEPT ![t] = "lapsed"]
              /\ UNCHANGED <<nextSeq, shown>>
           \/ /\ Refusal(r, s) = None
              /\ TableBecomes(full, None, t, None)
              /\ verdict' = [Lapsed(full) EXCEPT ![t] = "asked"]
              /\ shown' = [shown EXCEPT ![t] = <<c, req[r].fp>>]
              /\ nextSeq' = nextSeq + 1
        /\ Return(r)
        /\ UNCHANGED <<cancelVars, worldVars, ran, finished, unguarded>>

-----------------------------------------------------------------------------
(* Cancellation of the request that made the prompt, and the end of a      *)
(* session.                                                                *)

Upset == upsets < MaxUpsets /\ upsets' = upsets + 1

\* CancelRegistry::cancel, or close: the hooks are taken out under the lock and
\* run after it.
Cancel(t) ==
    /\ Upset
    /\ t \notin cancelled
    /\ Hooked(t) \/ \E r \in Reqs : req[r].token = t /\ req[r].pc = "hook"
    /\ cancelled' = cancelled \cup {t}
    /\ firing' = IF Hooked(t) THEN firing \cup {t} ELSE firing
    /\ UNCHANGED <<tableVars, now, route, gated, histVars, verdict, req, unguarded>>

\* (Mutated: the hook takes the row away with the record.)
FireHookSilently(t) ==
    /\ t \in firing
    /\ firing' = firing \ {t}
    /\ TableBecomes(Store!Remove(hitl, t), t, None, None)
    /\ verdict' = Lapsed(Store!Remove(hitl, t))
    /\ UNCHANGED <<nextSeq, cancelled, worldVars, histVars, req, unguarded>>

FireHook(t) ==
    /\ t \in firing
    /\ firing' = firing \ {t}
    /\ Finish(t, None)
    /\ UNCHANGED <<cancelled, worldVars, histVars, req, unguarded>>

\* clear_pii and clear_mcp_session.
ClearScope(sc) ==
    LET s == Store!Keep(hitl, {t \in DOMAIN hitl : hitl[t].call[1] # sc})
    IN  /\ Upset /\ s # hitl
        /\ TableBecomes(s, None, None, None)
        /\ verdict' = Lapsed(s)
        /\ UNCHANGED <<nextSeq, cancelVars, now, route, gated, histVars, req, unguarded>>

-----------------------------------------------------------------------------
(* A request that comes back with a token.                                 *)

\* A client has the tokens of the prompts that were put; the gate holds when the registry asks or when the record is there.
SendResume(r, t) ==
    /\ req[r].pc = "idle" /\ shown[t] # None
    /\ IF gated \/ Store!Live(hitl, t, now)
       THEN Go(r, At("poll", t, route.owner, None))
       ELSE Go(r, At("forget", t, None, None))
    /\ UNCHANGED <<tableVars, cancelVars, worldVars, histVars, verdict, unguarded>>

\* The record is about this very call.
SameCall(r, c) == hitl[req[r].token].call = c

\* poll_modern_hitl under the table's lock.  The record goes with a row ...
PollEnds(r, row) ==
    LET t == req[r].token
        s == Store!Remove(hitl, t)
    IN  /\ TableBecomes(s, t, t, row)
        /\ verdict' = IF row = "denied" THEN [verdict EXCEPT ![t] = "no"] ELSE Lapsed(s)
        /\ Return(r)
        /\ UNCHANGED nextSeq

ApprovedRecord(e) == [e EXCEPT !.seen = now, !.status = "approved", !.audit = FALSE]

\* ... or stays, touched, approved now or before, and the call goes on ...
PollApproves(r, c, newly) ==
    LET t == req[r].token
    IN  /\ TableBecomes([hitl EXCEPT ![t] = ApprovedRecord(@)], None, None, None)
        /\ verdict' = IF newly THEN [verdict EXCEPT ![t] = "yes"] ELSE verdict
        /\ Go(r, [req[r] EXCEPT !.pc = "revalidate", !.call = c, !.fp = hitl[t].fp,
                               !.newly = newly])
        /\ UNCHANGED nextSeq

\* ... or is missing; one that is found expired goes here.
PollMisses(r) ==
    LET s == Store!Touch(hitl, req[r].token, now)
    IN  /\ TableBecomes(s, None, None, None)
        /\ verdict' = Lapsed(s)
        /\ Go(r, At("missing", req[r].token, None, None))
        /\ UNCHANGED nextSeq

Poll(r, c, a) ==
    LET t == req[r].token
        Found == Store!Live(hitl, t, now)
        Awaiting == Found /\ SameCall(r, c) /\ hitl[t].status = "awaiting"
        InTime == Awaiting /\ now - hitl[t].started < Timeout
    IN  /\ req[r].pc = "poll"
        /\ \/ ~Found /\ PollMisses(r)
           \/ Found /\ ~SameCall(r, c) /\ PollEnds(r, "stale_state")
           \/ Awaiting /\ ~InTime /\ PollEnds(r, "no_response")
           \/ InTime /\ a = "decline" /\ PollEnds(r, "denied")
           \/ InTime /\ a = "accept" /\ PollApproves(r, c, TRUE)
           \/ /\ InTime /\ a = "nothing"
              /\ TableBecomes([hitl EXCEPT ![t].seen = now], None, None, None)
              /\ Return(r)
              /\ UNCHANGED <<nextSeq, verdict>>
           \/ Found /\ SameCall(r, c) /\ ~Awaiting /\ PollApproves(r, c, FALSE)
        /\ UNCHANGED <<cancelVars, worldVars, histVars, unguarded>>

\* A missing token is refused, with a row unless its record wrote one.
RefuseMissing(r) ==
    LET t == req[r].token
    IN  /\ req[r].pc = "missing"
        /\ TableBecomes(hitl, None, t, IF IsTerminal(t) THEN None ELSE "stale_state")
        /\ Return(r)
        /\ UNCHANGED <<nextSeq, cancelVars, worldVars, histVars, verdict, unguarded>>

\* The gate asks for nothing any more: the token is given up, in three steps
\* that each take a lock of their own.
Forget(r) ==
    LET t == req[r].token
        s == Store!Touch(hitl, t, now)
    IN  /\ req[r].pc = "forget"
        /\ TableBecomes(IF t \in DOMAIN s THEN [s EXCEPT ![t].audit = FALSE] ELSE s, None, None, None)
        /\ verdict' = Lapsed(s)
        /\ unguarded' = unguarded \cup {t}
        /\ Go(r, [req[r] EXCEPT !.pc = "check"])
        /\ UNCHANGED <<nextSeq, cancelVars, worldVars, histVars>>

ForgetCheck(r) ==
    /\ req[r].pc = "check"
    /\ Go(r, [req[r] EXCEPT !.pc = "drop", !.newly = ~IsTerminal(req[r].token)])
    /\ UNCHANGED <<tableVars, cancelVars, worldVars, histVars, verdict, unguarded>>

ForgetDrop(r) ==
    /\ req[r].pc = "drop"
    /\ Finish(req[r].token, IF req[r].newly THEN "stale_state" ELSE None)
    /\ Return(r)
    /\ UNCHANGED <<cancelVars, worldVars, histVars, unguarded>>

-----------------------------------------------------------------------------
(* An approved request runs.                                               *)

\* (Mutated: the approved fingerprint is not compared with the live one.)
StillValidUnchecked(r) == route.owner = req[r].owner /\ route.def # None

\* post_hitl_revalidation against the live router.
StillValid(r) == route.owner = req[r].owner /\ route.def = req[r].fp

\* The call is bound to the live router it was revalidated against, and the
\* approval gets its row from the request that brought it.
Revalidate(r) ==
    LET t == req[r].token
    IN  /\ req[r].pc = "revalidate"
        /\ \/ /\ ~StillValid(r)
              /\ Finish(t, "stale_state")
              /\ Return(r)
           \/ /\ StillValid(r)
              /\ TableBecomes(hitl, None, t, IF req[r].newly THEN "approved" ELSE None)
              /\ Go(r, [req[r] EXCEPT !.pc = "dispatch", !.newly = FALSE,
                                       !.fp = route.def, !.owner = route.owner])
              /\ UNCHANGED <<nextSeq, verdict>>
        /\ UNCHANGED <<cancelVars, worldVars, histVars, unguarded>>

\* Arguments that cannot be rehydrated end the request, not the approval; a live
\* policy that forbids the tool by now, or a server that does not come up, ends
\* both; otherwise the call goes out.
Dispatch(r) ==
    LET t == req[r].token
    IN  /\ req[r].pc = "dispatch"
        /\ \/ Return(r) /\ UNCHANGED <<tableVars, verdict, ran>>
           \/ Finish(t, None) /\ Return(r) /\ UNCHANGED ran
           \/ /\ route.def # None
              /\ ran' = ran \cup {<<t, <<req[r].call, req[r].fp>>>>}
              /\ Go(r, [req[r] EXCEPT !.pc = "running"])
              /\ UNCHANGED <<tableVars, verdict>>
        /\ UNCHANGED <<cancelVars, worldVars, shown, finished, unguarded>>

\* A result or an error ends the approval; a server that asks for input keeps it
\* for the next round, as does a protocol error.
Complete(r) ==
    LET t == req[r].token
        s == Store!Touch(hitl, t, now)
    IN  /\ req[r].pc = "running"
        /\ \/ Finish(t, None) /\ finished' = finished \cup {t}
           \/ /\ TableBecomes(s, None, None, None)
              /\ verdict' = Lapsed(s)
              /\ UNCHANGED <<nextSeq, finished>>
           \/ UNCHANGED <<tableVars, verdict, finished>>
        /\ Return(r)
        /\ UNCHANGED <<cancelVars, worldVars, shown, ran, unguarded>>

-----------------------------------------------------------------------------
Tick == /\ now < MaxTime
        /\ now' = now + 1
        /\ UNCHANGED <<tableVars, cancelVars, histVars, route, gated, upsets, verdict, req, unguarded>>

\* Rebuilds, quarantine and policy changes of the live router.
ChangeRoute ==
    /\ Upset
    /\ route' \in [owner : Owners, def : Defs \cup {None}] /\ route' # route
    /\ UNCHANGED <<tableVars, cancelVars, histVars, now, gated, verdict, req, unguarded>>

ChangeGate ==
    /\ Upset
    /\ gated' = ~gated
    /\ UNCHANGED <<tableVars, cancelVars, histVars, now, route, verdict, req, unguarded>>

ReqStep(r) == \/ RegisterHook(r) \/ \E c \in Calls : StartPrompt(r, c)
              \/ \E c \in Calls, a \in Answers : Poll(r, c, a)
              \/ RefuseMissing(r) \/ Forget(r) \/ ForgetCheck(r) \/ ForgetDrop(r)
              \/ Revalidate(r) \/ Dispatch(r) \/ Complete(r)

Next == \/ \E r \in Reqs : ReqStep(r)
        \/ \E r \in Reqs, t \in Tokens : SendFresh(r, t) \/ SendResume(r, t)
        \/ \E t \in Tokens : Cancel(t) \/ FireHook(t)
        \/ \E sc \in Scopes : ClearScope(sc)
        \/ Tick \/ ChangeRoute \/ ChangeGate

Spec == Init /\ [][Next]_vars
-----------------------------------------------------------------------------
(* Properties.                                                             *)

InFlight(t) == \E r \in Reqs : req[r].token = t

\* A prompt whose first request was cancelled is gone once the hook has run,
\* however the cancellation fell between the registration of the hook, the second
\* look at it under the table's lock and the insertion (start_modern_hitl).
CancelledGoes == \A t \in cancelled \ firing : t \notin DOMAIN hitl

Verdicts == {"withdrawn", "no_response", "denied", "approved"}

\* However polls, expiry, cancellation and the end of the session race, the audit
\* log gets at most one row with a verdict about a prompt (abandoned_audit is
\* taken away before the resumed call writes its own).
OneVerdictRow ==
    \A t \in Tokens : \A i, j \in 1..Len(rows[t]) :
        rows[t][i] \in Verdicts /\ rows[t][j] \in Verdicts => i = j

\* No prompt ends silently: when one is settled and no request is busy with it,
\* some row says so.  Tokens given up because no gate asked for them any more are
\* excepted: there the log is consulted and written in separate steps.
EndsAreRecorded ==
    \A t \in Tokens \ unguarded :
        verdict[t] \in {"yes", "no", "lapsed"} /\ ~InFlight(t) => rows[t] # <<>>

\* The audit log has a row for every end of a prompt and never two verdicts.
RowsOK == TypeOK /\ OneVerdictRow /\ EndsAreRecorded

\* A new prompt never costs another one its place: the cap refuses the newcomer
\* before the store would evict (start_modern_hitl, SessionStore::insert).
PromptsKept ==
    [][DOMAIN hitl' \ DOMAIN hitl # {} =>
          \A t \in DOMAIN hitl : Store!Live(hitl, t, now) => t \in DOMAIN hitl']_vars

\* What the record of a prompt does towards "an accepted retry executes the bound
\* call once": after a call on an approval has come back with a result, no request
\* gets past the gate on it.  Requests that were past it before run all the same:
\* poll_modern_hitl lets every request through that finds the record approved.
SpentIsSpent ==
    [][\A r \in Reqs : req[r].pc = "poll" /\ req'[r].pc = "revalidate"
                         => req[r].token \notin finished]_vars

\* The path implements the abstract gate: what runs on a token is the call with
\* the definition that was shown, after a yes given in time; a no, a lapse or a
\* cancellation is final; and an approval that was used is not given again.  The
\* server is not part of it: post_hitl_revalidation compares the live owner of
\* the name with the one the resumed request found, not with the one that was
\* approved against.
Gate == INSTANCE HeldCall WITH Prompts <- Tokens, Nothing <- None
ImplementsHeldCall == Gate!Spec /\ SpentIsSpent
=============================================================================
