---------------------------- MODULE TokenRefresh ----------------------------
(***************************************************************************)
(* The refresh of one server's OAuth token by several gateway processes    *)
(* (remote.rs) that share a vault and a provider which may rotate refresh  *)
(* tokens, while the desktop signs in, pastes a bearer or clears it.       *)
(*                                                                         *)
(* Grants are numbered as the provider issues them.  Grant n stands for    *)
(* its access token and for the OAuth state stored with it; rt[n] is its   *)
(* refresh token, 0 if it has none, and 0 in the vault or in memory is     *)
(* "nothing there".  Whether a grant is good, due for a refresh or expired *)
(* is free wherever the code looks at the clock.  Every vault access is a  *)
(* step: a read may fail, a write may fail, and a write that reported a    *)
(* failure may have been done.  One                                        *)
(* gateway runs one operation at a time: all of them hold its              *)
(* credential_update mutex.                                                *)
(***************************************************************************)
EXTENDS Naturals, Sequences

CONSTANTS Gateways,
          NoGateway,
          MaxGrants,  \* bound on the grants the provider issues
          MaxOps,     \* bound on the operations the gateways start
          MaxUpsets   \* bound on failed vault writes, lost replies, crashes and acts of the user

ASSUME GatewayAssumption == NoGateway \notin Gateways
ASSUME BoundAssumption == MaxGrants \in Nat \ {0} /\ MaxOps \in Nat /\ MaxUpsets \in Nat

VARIABLES minted,  \* grants issued so far
          rt,      \* the refresh token of each grant
          live,    \* refresh tokens the provider accepts
          vAcc,    \* vault: HTTP_AUTH_KEY
          vSt,     \* vault: STATE_KEY
          lock,    \* holder of the cross-process refresh lock
          mem,     \* CredentialState of each gateway
          op,      \* the operation each gateway is in
          desk,    \* the bearer the desktop has still to write
          ops, upsets,  \* operations started, bounded events so far
          bought,  \* history: the grant each spent refresh token was exchanged for
          saved    \* history: grants whose state has been in the vault

provider == <<minted, rt, live, bought>>
vault == <<vAcc, vSt, saved>>
vars == <<provider, vault, lock, mem, op, desk, ops, upsets>>

Grants == 1..MaxGrants
Optional == 0..MaxGrants

Credentials == [pending : Optional, token : Optional, acc : Optional, st : Optional,
                loaded : BOOLEAN]
Fresh == [pending |-> 0, token |-> 0, acc |-> 0, st |-> 0, loaded |-> FALSE]

Phases == {"look", "first", "second", "winner", "retried", "put"}
Op == [pc : {"idle", "acc", "st", "save", "lock", "wst", "decide",
             "retry", "exchange", "put", "ustate", "uacc"},
       phase : Phases, force : BOOLEAN, rejected : Optional, had : BOOLEAN,
       changed : BOOLEAN, seen : Optional, src : Optional, new : Optional]
Idle == [pc |-> "idle", phase |-> "look", force |-> FALSE, rejected |-> 0, had |-> FALSE,
         changed |-> FALSE, seen |-> 0, src |-> 0, new |-> 0]

TypeOK ==
    /\ minted \in Grants /\ rt \in [Grants -> Optional] /\ live \subseteq Grants
    /\ vAcc \in 0..minted /\ vSt \in 0..minted
    /\ lock \in Gateways \cup {NoGateway} /\ (lock # NoGateway => op[lock].pc # "idle")
    /\ mem \in [Gateways -> Credentials] /\ op \in [Gateways -> Op]
    /\ desk = <<>> \/ \E n \in Optional : desk = <<n>>
    /\ ops \in 0..MaxOps /\ upsets \in 0..MaxUpsets
    /\ bought \in [Grants -> Optional] /\ saved \subseteq Grants

\* The user has signed in once; the gateways have not looked yet.
Init ==
    /\ minted = 1 /\ rt = [n \in Grants |-> IF n = 1 THEN 1 ELSE 0] /\ live = {1}
    /\ vAcc = 1 /\ vSt = 1
    /\ lock = NoGateway
    /\ mem = [g \in Gateways |-> Fresh]
    /\ op = [g \in Gateways |-> Idle]
    /\ desk = <<>> /\ ops = 0 /\ upsets = 0
    /\ bought = [n \in Grants |-> 0] /\ saved = {1}

-----------------------------------------------------------------------------
(* Vault, lock and the ends of an operation.                               *)

Upset == upsets < MaxUpsets /\ upsets' = upsets + 1
Calm == UNCHANGED upsets

\* A write of n to STATE_KEY or HTTP_AUTH_KEY; told: what set_secret reports.
WriteState(n, told) ==
    /\ UNCHANGED vAcc
    /\ \/ told /\ Calm /\ vSt' = n
       \/ ~told /\ Upset /\ vSt' \in {n, vSt}
    /\ saved' = saved \cup ({vSt'} \ {0})
WriteBearer(n, told) ==
    /\ UNCHANGED <<vSt, saved>>
    /\ \/ told /\ Calm /\ vAcc' = n
       \/ ~told /\ Upset /\ vAcc' \in {n, vAcc}

Unlocked(g) == IF lock = g THEN NoGateway ELSE lock

\* g starts an operation, ends it with memory m, or goes on.
Start(g, o) ==
    /\ op[g].pc = "idle" /\ ops < MaxOps
    /\ ops' = ops + 1 /\ op' = [op EXCEPT ![g] = o]
    /\ UNCHANGED <<mem, lock>>
Finish(g, m) ==
    /\ mem' = [mem EXCEPT ![g] = m]
    /\ op' = [op EXCEPT ![g] = Idle]
    /\ lock' = Unlocked(g) /\ UNCHANGED ops
Go(g, m, o) ==
    /\ mem' = [mem EXCEPT ![g] = m]
    /\ op' = [op EXCEPT ![g] = o]
    /\ UNCHANGED <<lock, ops>>

\* The error is returned, or the gateway's unsaved token if it is still valid and
\* the refresh was not forced: nothing is changed either way.
StorageError(g) == Finish(g, mem[g])

-----------------------------------------------------------------------------
(* read_vault: the bearer, the state, and the bearer again if it was ours. *)

\* A save that reported a failure has been done after all.
OwnSave(m, a, s) == m.pending # 0 /\ s = m.pending /\ a \in {m.acc, m.pending}
Changed(m, a, s) == m.loaded /\ (a # m.acc \/ s # m.st)

Read(m, a, s) ==
    LET own == OwnSave(m, a, s)
        replaced == ~m.loaded \/ Changed(m, a, s)
    IN  [pending |-> IF own \/ replaced THEN 0 ELSE m.pending,
         token |-> IF own THEN m.pending ELSE IF replaced THEN a ELSE m.token,
         acc |-> a, st |-> s, loaded |-> TRUE]

\* What the caller of read_vault (or of save_access) does next.
Continue(g, m, o) ==
    \/ o.phase \in {"look", "put"} /\ Finish(g, m)
    \/ o.phase = "first" /\ Go(g, m, [o EXCEPT !.pc = "lock"])
    \/ o.phase = "second" /\ Go(g, m, [o EXCEPT !.pc = "decide"])
    \/ o.phase = "winner" /\ Finish(g, [m EXCEPT !.pending = 0, !.token = o.src])
    \/ o.phase = "retried" /\ ~o.force /\ Finish(g, m)
    \/ o.phase = "retried" /\ Go(g, m, [o EXCEPT !.pc = "exchange"])

ReadAccess(g) ==
    /\ op[g].pc = "acc"
    /\ \/ Go(g, mem[g], [op[g] EXCEPT !.pc = "st", !.seen = vAcc])
       \/ StorageError(g)
    /\ UNCHANGED <<provider, vault, desk, upsets>>

ReadState(g) ==
    /\ op[g].pc = "st"
    /\ LET own == OwnSave(mem[g], op[g].seen, vSt)
           changed == Changed(mem[g], op[g].seen, vSt) /\ ~own
           o == [op[g] EXCEPT !.changed = @ \/ changed, !.seen = 0]
           m == Read(mem[g], op[g].seen, vSt)
       IN  \/ own /\ Go(g, m, [o EXCEPT !.pc = "save"])
           \/ ~own /\ Continue(g, m, o)
           \/ StorageError(g)
    /\ UNCHANGED <<provider, vault, desk, upsets>>

\* save_access
SaveAccess(g) ==
    /\ op[g].pc = "save"
    /\ \E told \in BOOLEAN :
           /\ WriteBearer(mem[g].token, told)
           /\ Continue(g, IF told THEN [mem[g] EXCEPT !.acc = mem[g].token] ELSE mem[g], op[g])
    /\ UNCHANGED <<provider, desk>>

-----------------------------------------------------------------------------
(* Operations of a gateway.                                                *)

\* An operation of g that has read the bearer (a read that fails ends it at once).
Reading(phase, force, rejected, g) ==
    [Idle EXCEPT !.pc = "st", !.phase = phase, !.force = force, !.rejected = rejected,
                 !.had = mem[g].pending # 0, !.seen = vAcc]

\* current_credential, newer_credential
CurrentCredential(g) ==
    /\ Start(g, Reading("look", TRUE, 0, g))
    /\ UNCHANGED <<provider, vault, desk, upsets>>

\* Before the known expiry, on connect or before a request; a pending rotation
\* is retried whatever the clock says.
RefreshIfNeeded(g) ==
    /\ Start(g, Reading("first", FALSE, 0, g))
    /\ UNCHANGED <<provider, vault, desk, upsets>>

\* After a 401 for the bearer r (0: the caller does not say which).
RefreshToken(g, r) ==
    /\ mem[g].loaded
    /\ Start(g, Reading("first", TRUE, r, g))
    /\ UNCHANGED <<provider, vault, desk, upsets>>

\* The lock is taken or the wait for it ends; refreshed_while_waiting then reads
\* the bearer ...
AcquireLock(g) ==
    /\ op[g].pc = "lock"
    /\ lock' = IF lock = NoGateway THEN g ELSE lock
    /\ op' = [op EXCEPT ![g] = [@ EXCEPT !.pc = "wst", !.seen = vAcc]]
    /\ mem' = mem
    /\ UNCHANGED <<provider, vault, desk, ops, upsets>>

\* (Mutated: the rejected bearer is taken as a peer's winner.)
ReusableUnfiltered(o, before) == o.seen # 0 /\ o.seen # before /\ vSt # 0

\* reuse_racing_refresh, and the filter of its caller.
Reusable(o, before) ==
    /\ o.seen # 0 /\ o.seen # before
    /\ vSt # 0
    /\ ~o.force \/ o.seen # o.rejected

\* (Mutated: an exchange goes ahead without the lock.)
RereadStateUnlocked(g) ==
    /\ op[g].pc = "wst"
    /\ LET o == [op[g] EXCEPT !.pc = "acc", !.seen = 0]
       IN  \/ Reusable(op[g], mem[g].acc)
              /\ Go(g, mem[g], [o EXCEPT !.phase = "winner", !.src = op[g].seen])
           \/ Go(g, mem[g], [o EXCEPT !.phase = "second"])
           \/ StorageError(g)
    /\ UNCHANGED <<provider, vault, desk, upsets>>

\* ... then the state; without a winner the refresh goes on only under the lock.
RereadState(g) ==
    /\ op[g].pc = "wst"
    /\ LET o == [op[g] EXCEPT !.pc = "acc", !.seen = 0]
       IN  \/ Reusable(op[g], mem[g].acc)
              /\ Go(g, mem[g], [o EXCEPT !.phase = "winner", !.src = op[g].seen])
           \/ lock = g /\ Go(g, mem[g], [o EXCEPT !.phase = "second"])
           \/ StorageError(g)
    /\ UNCHANGED <<provider, vault, desk, upsets>>

\* The vault has been read again under the lock: is there still work to do?  (That
\* the state can be read once more is left to fail with the read before.)
Decide(g) ==
    /\ op[g].pc = "decide"
    /\ LET o == op[g]
           m == mem[g]
           coalesced == o.force /\ o.rejected # 0 /\ m.token \notin {0, o.rejected}
           superseded == o.had /\ (o.changed \/ (~o.force /\ m.pending = 0))
           settled == /\ vSt # 0 /\ m.token # 0
                      /\ ~o.force \/ o.rejected # m.token
       IN  \/ (coalesced \/ (superseded /\ settled)) /\ Finish(g, m)
           \/ /\ ~coalesced
              /\ Go(g, m, IF m.pending # 0
                            THEN [o EXCEPT !.pc = "retry", !.src = m.pending]
                            ELSE [o EXCEPT !.pc = "exchange", !.src = m.st])
    /\ UNCHANGED <<provider, vault, desk, upsets>>

\* Save the pending rotation again; a proactive refresh is content with it.
RetrySave(g) ==
    /\ op[g].pc = "retry"
    /\ LET p == op[g].src
       IN  \/ /\ WriteState(p, TRUE)
              /\ Go(g, [mem[g] EXCEPT !.st = p, !.pending = 0, !.token = p],
                       [op[g] EXCEPT !.pc = "save", !.phase = "retried"])
           \/ /\ WriteState(p, FALSE)
              /\ Continue(g, mem[g], [op[g] EXCEPT !.phase = "retried"])
    /\ UNCHANGED <<provider, desk>>

\* The provider takes r and issues a grant, with a new refresh token or the same.
Issue(r) ==
    /\ minted < MaxGrants /\ r \in live
    /\ minted' = minted + 1
    /\ \/ /\ rt' = [rt EXCEPT ![minted'] = minted']
          /\ live' = (live \ {r}) \cup {minted'}
          /\ bought' = [bought EXCEPT ![r] = minted']
       \/ /\ rt' = [rt EXCEPT ![minted'] = r]
          /\ UNCHANGED <<live, bought>>

\* Discovery, the request or the provider may fail; its reply may be lost.
Exchange(g) ==
    /\ op[g].pc = "exchange"
    /\ LET r == IF op[g].src = 0 THEN 0 ELSE rt[op[g].src]
       IN  \/ Calm /\ UNCHANGED provider /\ Finish(g, mem[g])
           \/ Calm /\ Issue(r) /\ Go(g, mem[g], [op[g] EXCEPT !.pc = "put", !.new = minted'])
           \/ Upset /\ Issue(r) /\ Finish(g, mem[g])
    /\ UNCHANGED <<vault, desk>>

\* (Mutated: a rotation that could not be saved is not kept in memory.)
PutForgets(g) ==
    /\ op[g].pc = "put"
    /\ LET n == op[g].new
           o == [op[g] EXCEPT !.pc = "save", !.phase = "put", !.new = 0]
           m == [mem[g] EXCEPT !.token = n]
       IN  \/ WriteState(n, TRUE) /\ Go(g, [m EXCEPT !.st = n, !.pending = 0], o)
           \/ WriteState(n, FALSE) /\ Finish(g, m)
    /\ UNCHANGED <<provider, desk>>

\* (Mutated: the new bearer is saved although the rotated state could not be.)
PutBearerAnyway(g) ==
    /\ op[g].pc = "put"
    /\ LET n == op[g].new
           o == [op[g] EXCEPT !.pc = "save", !.phase = "put", !.new = 0]
           m == [mem[g] EXCEPT !.token = n]
       IN  \/ WriteState(n, TRUE) /\ Go(g, [m EXCEPT !.st = n, !.pending = 0], o)
           \/ WriteState(n, FALSE) /\ Go(g, [m EXCEPT !.pending = n], o)
    /\ UNCHANGED <<provider, desk>>

\* Store the new state, then the new bearer; a rotation that cannot be stored
\* is kept in memory.
Put(g) ==
    /\ op[g].pc = "put"
    /\ LET n == op[g].new
           o == [op[g] EXCEPT !.pc = "save", !.phase = "put", !.new = 0]
           m == [mem[g] EXCEPT !.token = n]
           rotated == rt[n] # rt[op[g].src]
       IN  \/ WriteState(n, TRUE) /\ Go(g, [m EXCEPT !.st = n, !.pending = 0], o)
           \/ /\ WriteState(n, FALSE) /\ (rotated \/ m.pending # 0)
              /\ Finish(g, [m EXCEPT !.pending = n])
           \/ WriteState(n, FALSE) /\ ~(rotated \/ m.pending # 0) /\ Go(g, m, o)
    /\ UNCHANGED <<provider, desk>>

-----------------------------------------------------------------------------
(* Interactive grants: step-up in a gateway, the desktop's sign-in.        *)

\* The user consents to a new grant, with a refresh token or without one.
Grant ==
    /\ minted < MaxGrants /\ minted' = minted + 1
    /\ \/ rt' = [rt EXCEPT ![minted'] = minted'] /\ live' = live \cup {minted'}
       \/ UNCHANGED <<rt, live>>
    /\ UNCHANGED bought

\* reauthorize_for_scope: load_state, and the consent of the user.
StepUp(g) ==
    /\ mem[g].loaded /\ vSt # 0
    /\ Upset /\ Grant
    /\ Start(g, [Idle EXCEPT !.pc = "ustate", !.phase = "winner", !.force = TRUE, !.src = minted'])
    /\ UNCHANGED <<vault, desk>>

StoreStepUpState(g) ==
    /\ op[g].pc = "ustate"
    /\ \/ WriteState(op[g].src, TRUE) /\ Go(g, mem[g], [op[g] EXCEPT !.pc = "uacc"])
       \/ WriteState(op[g].src, FALSE) /\ Finish(g, mem[g])
    /\ UNCHANGED <<provider, desk>>

StoreStepUpBearer(g) ==
    /\ op[g].pc = "uacc"
    /\ \/ /\ WriteBearer(op[g].src, TRUE)
          /\ Go(g, [mem[g] EXCEPT !.pending = 0], [op[g] EXCEPT !.pc = "acc"])
       \/ WriteBearer(op[g].src, FALSE) /\ Finish(g, mem[g])
    /\ UNCHANGED <<provider, desk>>

\* authenticate_with: the state first, the bearer next, outside the refresh lock.
SignIn ==
    /\ desk = <<>> /\ Upset /\ Grant
    /\ vSt' = minted' /\ saved' = saved \cup {minted'} /\ desk' = <<minted'>>
    /\ UNCHANGED <<vAcc, lock, mem, op, ops>>

\* set_auth_token_with: a pasted bearer has no state.
SetAuthToken ==
    /\ desk = <<>> /\ Upset
    /\ minted < MaxGrants /\ minted' = minted + 1
    /\ vSt' = 0 /\ desk' = <<minted'>>
    /\ UNCHANGED <<rt, live, bought, vAcc, saved, lock, mem, op, ops>>

\* clear_auth_token_with
ClearAuthToken ==
    /\ desk = <<>> /\ Upset
    /\ vSt' = 0 /\ desk' = <<0>>
    /\ UNCHANGED <<provider, vAcc, saved, lock, mem, op, ops>>

StoreBearer ==
    /\ desk # <<>>
    /\ desk' = <<>>
    /\ \E told \in BOOLEAN : WriteBearer(desk[1], told)
    /\ UNCHANGED <<provider, lock, mem, op, ops>>

-----------------------------------------------------------------------------
(* Crashes.                                                                *)

\* A gateway ends; the operating system drops its lock.
Crash(g) ==
    /\ mem[g] # Fresh \/ op[g] # Idle
    /\ Upset
    /\ Finish(g, Fresh)
    /\ UNCHANGED <<provider, vault, desk>>

Next ==
    \/ \E g \in Gateways :
          \/ CurrentCredential(g)
          \/ RefreshIfNeeded(g)
          \/ \E r \in {mem[g].token, mem[g].acc} : RefreshToken(g, r)
          \/ ReadAccess(g) \/ ReadState(g) \/ SaveAccess(g)
          \/ AcquireLock(g) \/ RereadState(g)
          \/ Decide(g) \/ RetrySave(g) \/ Exchange(g) \/ Put(g)
          \/ StepUp(g) \/ StoreStepUpState(g) \/ StoreStepUpBearer(g)
          \/ Crash(g)
    \/ SignIn \/ SetAuthToken \/ ClearAuthToken \/ StoreBearer

Spec == Init /\ [][Next]_vars

-----------------------------------------------------------------------------
(* Properties.                                                             *)

\* A gateway presents a refresh token that the provider has rotated away only
\* if the state that replaced it never reached the vault (remote.rs:706-891:
\* the lock, and the vault read again under it, before the exchange).
SpentOnlyIfUnsaved ==
    \A g \in Gateways :
        (op[g].pc = "exchange" /\ op[g].src # 0) =>
            LET r == rt[op[g].src] IN r # 0 /\ r \notin live => bought[r] \notin saved

\* The vault never holds a new bearer next to the spent refresh token it was
\* bought with (remote.rs:839-842).
NotStranded ==
    vAcc # 0 /\ vSt # 0 /\ rt[vSt] # 0 /\ rt[vSt] \notin live => bought[rt[vSt]] # vAcc

\* The state is well formed (an operation that ended holds no lock) and the two
\* entries of the vault fit together.
VaultOK == TypeOK /\ NotStranded

\* Refresh tokens that the vault or a running gateway still has.
Held == {rt[n] : n \in ({vSt} \cup {mem[g].pending : g \in Gateways}
                               \cup {op[g].new : g \in Gateways}) \ {0}}
Rotations == {bought[r] : r \in Grants} \ {0}

\* A rotated refresh token that is still good is dropped only by the user's own
\* act, by the end of the gateway that had it in memory, or by a gateway that
\* finds the vault changed under it: in what it reads, in the bearer it met while
\* it waited for the lock, or when it stores (remote.rs:477-505, 720-727, 855-886).
RotationsKept ==
    [][ \A r \in Rotations \cap live \cap Held :
            r \in live' \ Held' =>
                \/ desk' \notin {desk, <<>>}
                \/ \E g \in Gateways : op[g].pc \in {"ustate", "uacc"}
                \/ \E g \in Gateways : mem[g].loaded /\ ~mem'[g].loaded
                \/ \E g \in Gateways : op[g].pc = "st" /\ Changed(mem[g], op[g].seen, vSt)
                \/ \E g \in Gateways : op[g].pc = "st" /\ op[g].phase = "winner" /\ op[g].src # mem[g].acc
                \/ \E g \in Gateways : op[g].pc = "put" /\ vSt # mem[g].st ]_vars

\* A refresh forced by a 401 never hands back the bearer that was refused
\* (remote.rs:720-722, 741-747, 776-780).
RejectedNotReturned ==
    [][ \A g \in Gateways :
            (op[g].force /\ op[g].rejected # 0 /\ op'[g].pc = "idle") =>
                \/ mem'[g].token # op[g].rejected
                \/ op[g].pc \in {"acc", "st", "lock", "wst", "exchange"} /\ mem'[g] = mem[g]
                \/ mem'[g] = Fresh ]_vars
=============================================================================
