------------------------- MODULE TokenRefreshProofs -------------------------
(***************************************************************************)
(* Theorems of TokenRefresh for any number of gateways, grants, operations *)
(* and upsets.  The inductive invariant says which grant each gateway may  *)
(* still bring to the vault and that nobody else can present its refresh   *)
(* token.  Steps that only read, steps that store a state and steps that   *)
(* make a grant have one lemma each for what they leave intact, and the    *)
(* actions are cases of these.                                             *)
(***************************************************************************)
EXTENDS TokenRefresh, TLAPS

(* The inductive invariant, in parts.                                      *)

\* The grants whose state the vault may yet get from a gateway with memory m in operation o.
Hand(m, o) == ({m.pending, o.new} \cup (IF o.pc = "ustate" THEN {o.src} ELSE {})) \ {0}
Hands == [g \in Gateways |-> Hand(mem[g], op[g])]

\* The grants whose refresh token nobody but g can present: no state that was ever in the
\* vault and no grant in another hand has it; if it is spent, what it bought is lost.
Owned ==
    [g \in Gateways |->
        {n \in Grants :
            /\ rt[n] # 0
            /\ \A z \in saved : rt[z] # rt[n]
            /\ \A h \in Gateways \ {g} : \A b \in Hands[h] : rt[b] # rt[n]
            /\ rt[n] \notin live => /\ bought[rt[n]] \notin saved
                                    /\ \A h \in Gateways : bought[rt[n]] \notin Hands[h]}]

\* The grants that may be presented: their refresh token is accepted, or its replacement
\* never reached the vault.
Good == {n \in Grants : rt[n] = 0 \/ rt[n] \in live \/ bought[rt[n]] \notin saved}

\* The grants no refresh token was rotated for.
Unbought == {n \in 1..minted : \A r \in Grants : bought[r] # n}

\* Operations that hold the refresh lock.
Locked(o) == \/ o.pc \in {"decide", "retry", "exchange", "put"}
             \/ o.pc \in {"acc", "st", "save"} /\ o.phase \in {"second", "retried", "put"}

\* What a gateway's memory m and operation o owe to the vault (state v, states ever saved S),
\* to the grants it owns, the good and the unbought ones, and to the provider's tokens R and
\* accepted tokens L.  An unsaved rotation is its own until the vault has moved on from the
\* state it was bought with, and then it is dropped.
Fits(m, o, v, S, own, good, unb, R, L) ==
    /\ m.st \in S \cup {0}
    /\ m.pending # 0 => m.st # 0 /\ (o.pc # "put" => m.st # v \/ m.pending \in own)
    /\ o.pc \in {"acc", "st"} => o.phase \notin {"retried", "put"}
    /\ o.pc = "save" => m.pending = 0 /\ m.token \in {0} \cup S \cup unb
    /\ o.pc = "uacc" => o.src \in S
    /\ o.pc \in {"ustate", "uacc"} => o.phase = "winner"
    /\ o.pc = "decide" \/ (o.pc = "save" /\ o.phase = "second") =>
          IF m.pending = 0 THEN m.st \in good \cup {0} ELSE m.pending \in own
    /\ o.pc = "retry" => o.src = m.pending /\ o.src \in own
    /\ o.pc = "exchange" \/ (o.pc = "save" /\ o.phase = "retried") =>
          o.src \in good \cup {0} /\ o.src = IF m.pending = 0 THEN m.st ELSE m.pending
    /\ o.new # 0 <=> o.pc = "put"
    /\ o.pc = "put" =>
          /\ o.new \notin S /\ R[o.new] \in L /\ o.src # 0 /\ m.st # 0
          /\ IF R[o.new] # R[o.src] THEN o.new \in own
             ELSE o.new \in unb /\ (m.pending # 0 => m.st # v \/ o.new \in own)
    /\ o.pc = "ustate" => o.src \in unb \ S /\ (R[o.src] = 0 \/ o.src \in own)

FitsNow(g) == Fits(mem[g], op[g], vSt, saved, Owned[g], Good, Unbought, rt, live)

\* Grants are numbered as they come.
Numbered ==
    /\ \A n \in Grants : rt[n] <= minted /\ bought[n] <= minted /\ (n > minted => rt[n] = 0)
    /\ saved \subseteq 1..minted /\ live \subseteq 1..minted
    /\ \A g \in Gateways : Hands[g] \subseteq 1..minted
    /\ \A g \in Gateways : op[g].pc \in {"exchange", "put", "ustate"} => op[g].src <= minted

VaultFits ==
    /\ vSt \in Good \cup {0} /\ vSt \in saved \cup {0}
    /\ vAcc \in {0} \cup saved \cup Unbought
    /\ desk # <<>> => desk[1] \in {0} \cup saved \cup Unbought

Apart == \A g, h \in Gateways : g # h => Hands[g] \cap Hands[h] = {}

LocksFit == \A g \in Gateways : Locked(op[g]) => lock = g

IInv == /\ TypeOK /\ Numbered /\ VaultFits /\ Apart /\ LocksFit
        /\ \A g \in Gateways : FitsNow(g)

-----------------------------------------------------------------------------
\* What fits still fits when the world around it grows.
LEMMA FitsGrow ==
    ASSUME NEW m, NEW o, NEW v, NEW S, NEW own, NEW good, NEW unb, NEW R, NEW L,
           Fits(m, o, v, S, own, good, unb, R, L),
           NEW w, NEW S2, NEW own2, NEW good2, NEW unb2, NEW R2, NEW L2,
           S \subseteq S2, own \subseteq own2, unb \subseteq unb2,
           m.st \in S \ {v} => m.st # w,
           Locked(o) => good \subseteq good2,
           o.pc = "put" => /\ o.new \notin S2 /\ R2[o.new] \in L2
                           /\ R2[o.new] = R[o.new] /\ R2[o.src] = R[o.src],
           o.pc = "ustate" => o.src \notin S2 /\ R2[o.src] = R[o.src]
    PROVE  Fits(m, o, w, S2, own2, good2, unb2, R2, L2)
<1>1. o.pc = "decide" \/ (o.pc = "save" /\ o.phase = "second") => good \subseteq good2
  BY DEF Locked
<1>2. o.pc = "exchange" \/ (o.pc = "save" /\ o.phase = "retried") => good \subseteq good2
  BY DEF Locked
<1>3. m.st \in S2 \cup {0} /\ (m.pending # 0 => m.st # 0)
  BY DEF Fits
<1>4. m.pending # 0 /\ o.pc # "put" => m.st # w \/ m.pending \in own2
  BY DEF Fits
<1>5. o.pc = "put" =>
          /\ o.new \notin S2 /\ R2[o.new] \in L2 /\ o.src # 0 /\ m.st # 0
          /\ IF R2[o.new] # R2[o.src] THEN o.new \in own2
             ELSE o.new \in unb2 /\ (m.pending # 0 => m.st # w \/ o.new \in own2)
  BY DEF Fits
<1>6. o.pc = "ustate" => o.src \in unb2 \ S2 /\ (R2[o.src] = 0 \/ o.src \in own2)
  BY DEF Fits
<1>7. o.pc = "save" => m.pending = 0 /\ m.token \in {0} \cup S2 \cup unb2
  BY DEF Fits
<1>8. o.pc = "decide" \/ (o.pc = "save" /\ o.phase = "second") =>
          IF m.pending = 0 THEN m.st \in good2 \cup {0} ELSE m.pending \in own2
  BY <1>1 DEF Fits
<1>9. o.pc = "exchange" \/ (o.pc = "save" /\ o.phase = "retried") =>
          o.src \in good2 \cup {0} /\ o.src = IF m.pending = 0 THEN m.st ELSE m.pending
  BY <1>2 DEF Fits
<1>10. /\ o.pc \in {"acc", "st"} => o.phase \notin {"retried", "put"}
       /\ o.pc = "uacc" => o.src \in S2
       /\ o.pc \in {"ustate", "uacc"} => o.phase = "winner"
       /\ o.pc = "retry" => o.src = m.pending /\ o.src \in own2
       /\ o.new # 0 <=> o.pc = "put"
  BY DEF Fits
<1> QED BY <1>3, <1>4, <1>5, <1>6, <1>7, <1>8, <1>9, <1>10 DEF Fits

\* What is known of a gateway before its step.
LEMMA Now ==
    ASSUME IInv, NEW g \in Gateways
    PROVE  /\ mem[g] \in Credentials /\ op[g] \in Op /\ FitsNow(g) /\ TypeOK /\ Numbered
           /\ VaultFits /\ LocksFit /\ Apart
           /\ Hands[g] = Hand(mem[g], op[g]) /\ Hands[g] \subseteq 1..minted
           /\ minted \in Nat /\ minted <= MaxGrants /\ minted \in 1..MaxGrants /\ MaxGrants \in Nat
BY BoundAssumption DEF IInv, TypeOK, Numbered, Hands, Grants

\* The moving gateway k has memory m and operation o afterwards.
Moves(k, m, o) ==
    /\ mem' = [mem EXCEPT ![k] = m] /\ op' = [op EXCEPT ![k] = o]
    /\ m \in Credentials /\ o \in Op
    /\ Locked(o) => lock' = k
    /\ lock' \in {lock, k, NoGateway} /\ (lock' = k => o.pc # "idle")
    /\ lock # k /\ lock # NoGateway => lock' = lock
    /\ ops' \in 0..MaxOps /\ upsets' \in 0..MaxUpsets

LEMMA MovesFacts ==
    ASSUME IInv, NEW k \in Gateways, NEW m, NEW o, Moves(k, m, o)
    PROVE  /\ mem' \in [Gateways -> Credentials] /\ op' \in [Gateways -> Op]
           /\ mem'[k] = m /\ op'[k] = o
           /\ \A h \in Gateways \ {k} : mem'[h] = mem[h] /\ op'[h] = op[h]
           /\ Hands'[k] = Hand(m, o) /\ \A h \in Gateways \ {k} : Hands'[h] = Hands[h]
           /\ lock' \in Gateways \cup {NoGateway} /\ (lock' # NoGateway => op'[lock'].pc # "idle")
           /\ LocksFit' /\ ops' \in 0..MaxOps /\ upsets' \in 0..MaxUpsets
<1>1. /\ mem' \in [Gateways -> Credentials] /\ op' \in [Gateways -> Op]
      /\ mem'[k] = m /\ op'[k] = o
      /\ \A h \in Gateways \ {k} : mem'[h] = mem[h] /\ op'[h] = op[h]
  BY DEF Moves, IInv, TypeOK
<1>2. Hands'[k] = Hand(m, o) /\ \A h \in Gateways \ {k} : Hands'[h] = Hands[h]
  BY <1>1 DEF Hands
<1>3. lock' \in Gateways \cup {NoGateway} /\ (lock' # NoGateway => op'[lock'].pc # "idle")
  BY <1>1 DEF Moves, IInv, TypeOK
<1>4. LocksFit'
  <2> SUFFICES ASSUME NEW g \in Gateways, Locked(op'[g]) PROVE lock' = g
    BY DEF LocksFit
  <2>1. CASE g = k
    BY <1>1, <2>1 DEF Moves
  <2>2. CASE g # k
    <3>1. lock = g
      BY <1>1, <2>2 DEF IInv, LocksFit
    <3> QED BY <2>2, <3>1, GatewayAssumption DEF Moves
  <2> QED BY <2>1, <2>2
<1> QED BY <1>1, <1>2, <1>3, <1>4 DEF Moves

\* Without a new grant or a new state in the vault, what is owned stays so.
LEMMA StillOwned ==
    ASSUME IInv, UNCHANGED <<minted, rt, live, bought, saved>>,
           \A h \in Gateways : Hands'[h] \subseteq Hands[h]
    PROVE  Good' = Good /\ Unbought' = Unbought /\ \A g \in Gateways : Owned[g] \subseteq Owned'[g]
<1>1. Good' = Good /\ Unbought' = Unbought
  BY DEF Good, Unbought
<1>2. ASSUME NEW g \in Gateways, NEW n \in Owned[g] PROVE n \in Owned'[g]
  BY <1>2 DEF Owned
<1> QED BY <1>1, <1>2

\* A step of one gateway that neither makes a grant nor stores a state.
LEMMA StepInv ==
    ASSUME IInv, NEW k \in Gateways, NEW m, NEW o, Moves(k, m, o),
           Hand(m, o) \subseteq Hands[k],
           Fits(m, o, vSt, saved, Owned[k], Good, Unbought, rt, live),
           o.pc \in {"exchange", "put", "ustate"} => o.src <= minted,
           UNCHANGED <<minted, rt, live, bought, vSt, saved, desk>>,
           vAcc' \in 0..minted /\ vAcc' \in {0} \cup saved \cup Unbought
    PROVE  IInv'
<1>1. /\ mem' \in [Gateways -> Credentials] /\ op' \in [Gateways -> Op]
      /\ mem'[k] = m /\ op'[k] = o
      /\ \A h \in Gateways \ {k} : mem'[h] = mem[h] /\ op'[h] = op[h]
      /\ Hands'[k] = Hand(m, o) /\ \A h \in Gateways \ {k} : Hands'[h] = Hands[h]
      /\ lock' \in Gateways \cup {NoGateway} /\ (lock' # NoGateway => op'[lock'].pc # "idle")
      /\ LocksFit' /\ ops' \in 0..MaxOps /\ upsets' \in 0..MaxUpsets
  BY MovesFacts
<1>2. \A h \in Gateways : Hands'[h] \subseteq Hands[h]
  BY <1>1
<1>3. Good' = Good /\ Unbought' = Unbought /\ \A g \in Gateways : Owned[g] \subseteq Owned'[g]
  BY <1>2, StillOwned
<1>4. TypeOK'
  BY <1>1 DEF IInv, TypeOK
<1>5. Numbered'
  BY <1>1, <1>2 DEF IInv, Numbered
<1>6. VaultFits' /\ Apart'
  BY <1>2, <1>3 DEF IInv, VaultFits, Apart
<1>7. ASSUME NEW g \in Gateways PROVE FitsNow(g)'
  <2>1. Fits(mem'[g], op'[g], vSt, saved, Owned[g], Good, Unbought, rt, live)
    BY <1>1 DEF IInv, FitsNow
  <2>2. /\ op'[g].pc = "put" => op'[g].new \notin saved /\ rt[op'[g].new] \in live
        /\ op'[g].pc = "ustate" => op'[g].src \notin saved
    BY <2>1 DEF Fits
  <2>3. Fits(mem'[g], op'[g], vSt, saved, Owned'[g], Good, Unbought, rt, live)
    BY <1>3, <2>1, <2>2, FitsGrow
  <2> QED BY <1>3, <2>3 DEF FitsNow
<1> QED BY <1>1, <1>4, <1>5, <1>6, <1>7 DEF IInv

\* Gateway k stores the state w of a grant in its hands: as the holder of the lock, or the
\* grant is not one that a refresh token was rotated for.
LEMMA WriteInv ==
    ASSUME IInv, NEW k \in Gateways, NEW m, NEW o, Moves(k, m, o),
           Hand(m, o) \subseteq Hands[k],
           NEW w \in Hands[k], w \notin saved, lock = k \/ w \in Unbought,
           rt[w] = 0 \/ rt[w] \in live \/ w \in Owned[k],
           Fits(m, o, w, saved \cup {w}, {}, {w}, Unbought, rt, live),
           o.pc \notin {"put", "ustate"}, o.pc = "exchange" => o.src <= minted,
           UNCHANGED <<minted, rt, live, bought, desk, vAcc>>,
           vSt' = w, saved' = saved \cup {w}
    PROVE  IInv'
<1>1. /\ mem' \in [Gateways -> Credentials] /\ op' \in [Gateways -> Op]
      /\ mem'[k] = m /\ op'[k] = o
      /\ \A h \in Gateways \ {k} : mem'[h] = mem[h] /\ op'[h] = op[h]
      /\ Hands'[k] = Hand(m, o) /\ \A h \in Gateways \ {k} : Hands'[h] = Hands[h]
      /\ lock' \in Gateways \cup {NoGateway} /\ (lock' # NoGateway => op'[lock'].pc # "idle")
      /\ LocksFit' /\ ops' \in 0..MaxOps /\ upsets' \in 0..MaxUpsets
  BY MovesFacts
<1>2. \A h \in Gateways : Hands'[h] \subseteq Hands[h]
  BY <1>1
<1>3. /\ w \in 1..minted /\ w \in Grants /\ minted \in Nat /\ minted <= MaxGrants
      /\ MaxGrants \in Nat /\ saved \subseteq Grants
  BY Now, BoundAssumption DEF Numbered, TypeOK, Grants
<1>4. Unbought' = Unbought
  BY DEF Unbought
<1>5. w \in Good'
  BY <1>3 DEF Good, Owned
<1>6. ASSUME lock # k PROVE Good \subseteq Good'
  <2>1. \A r \in Grants : bought[r] # w
    BY <1>6 DEF Unbought
  <2>2. ASSUME NEW n \in Good PROVE n \in Good'
    <3>1. n \in Grants /\ rt[n] \in Optional /\ live \subseteq Grants
      BY DEF Good, IInv, TypeOK
    <3>2. rt[n] # 0 => rt[n] \in Grants
      BY <1>3, <3>1 DEF Optional, Grants
    <3> QED BY <2>1, <3>1, <3>2 DEF Good
  <2> QED BY <2>2
<1>7. ASSUME NEW h \in Gateways \ {k}, NEW n \in Owned[h] PROVE n \in Owned'[h]
  <2>1. /\ n \in Grants /\ rt[n] # 0 /\ \A z \in saved : rt[z] # rt[n]
        /\ \A g \in Gateways \ {h} : \A b \in Hands[g] : rt[b] # rt[n]
        /\ rt[n] \notin live => /\ bought[rt[n]] \notin saved
                                /\ \A g \in Gateways : bought[rt[n]] \notin Hands[g]
    BY <1>7 DEF Owned
  <2>2. rt[w] # rt[n] /\ (rt[n] \notin live => bought[rt[n]] # w)
    BY <2>1
  <2> QED BY <1>2, <2>1, <2>2 DEF Owned
<1>8. TypeOK'
  BY <1>1, <1>3 DEF IInv, TypeOK
<1>9. Numbered'
  BY <1>1, <1>2, <1>3 DEF IInv, Numbered
<1>10. VaultFits' /\ Apart'
  BY <1>2, <1>4, <1>5 DEF IInv, VaultFits, Apart
<1>11. ASSUME NEW g \in Gateways PROVE FitsNow(g)'
  <2>1. CASE g = k
    <3>1. Fits(m, o, w, saved', Owned'[k], Good', Unbought, rt, live)
      BY <1>5, FitsGrow
    <3> QED BY <1>1, <1>4, <2>1, <3>1 DEF FitsNow
  <2>2. CASE g # k
    <3>1. Fits(mem[g], op[g], vSt, saved, Owned[g], Good, Unbought, rt, live)
      BY DEF IInv, FitsNow
    <3>2. op[g] \in Op /\ Hands[g] = Hand(mem[g], op[g]) /\ w \notin Hands[g]
      BY <2>2, Now DEF Apart
    <3>3. op[g].pc = "put" => op[g].new \notin saved' /\ rt[op[g].new] \in live
      BY <3>1, <3>2 DEF Fits, Hand
    <3>4. op[g].pc = "ustate" => op[g].src \notin saved'
      <4>1. op[g].pc = "ustate" => op[g].src \notin saved /\ op[g].src \in 1..minted
        BY <3>1 DEF Fits, Unbought
      <4> QED BY <3>2, <4>1, <1>3 DEF Hand
    <3>5. Locked(op[g]) => Good \subseteq Good'
      BY <1>6, <2>2 DEF IInv, LocksFit
    <3>6. Owned[g] \subseteq Owned'[g] /\ saved \subseteq saved'
      BY <1>7, <2>2
    <3>7. mem[g].st \in saved \ {vSt} => mem[g].st # w
      OBVIOUS
    <3>8. Fits(mem[g], op[g], w, saved', Owned'[g], Good', Unbought, rt, live)
      BY <3>1, <3>3, <3>4, <3>5, <3>6, <3>7, FitsGrow
    <3> QED BY <1>1, <1>4, <2>2, <3>8 DEF FitsNow
  <2> QED BY <2>1, <2>2
<1> QED BY <1>1, <1>8, <1>9, <1>10, <1>11 DEF IInv

\* The provider issues a grant: for the refresh token r, which it may rotate away, or for
\* no token at all (r = 0).
Mints(r) ==
    /\ minted < MaxGrants /\ minted' = minted + 1 /\ r \in 0..minted
    /\ \E x \in {0, minted', r} \cap (live' \cup {0}) : rt' = [rt EXCEPT ![minted'] = x]
    /\ \/ bought' = bought /\ live \subseteq live' /\ live' \subseteq live \cup {minted'}
       \/ /\ r \in live /\ rt' = [rt EXCEPT ![minted'] = minted']
          /\ live' = (live \ {r}) \cup {minted'} /\ bought' = [bought EXCEPT ![r] = minted']

\* What a new grant leaves as it was.
LEMMA MintFacts ==
    ASSUME IInv, NEW r, Mints(r)
    PROVE  /\ minted \in 1..MaxGrants /\ minted' \in 1..MaxGrants /\ MaxGrants \in Nat
           /\ minted' = minted + 1 /\ minted' \notin saved /\ minted' \in Grants
           /\ rt' \in [Grants -> Optional] /\ bought' \in [Grants -> Optional]
           /\ live' \subseteq Grants /\ live' \subseteq 1..minted'
           /\ \A n \in Grants : n <= minted => rt'[n] = rt[n]
           /\ \A n \in Grants : rt'[n] <= minted' /\ bought'[n] <= minted'
           /\ \A n \in Grants : n > minted' => rt'[n] = 0
           /\ rt'[minted'] \in {0, minted', r} \cap (live' \cup {0})
           /\ \A n \in Grants : bought'[n] = bought[n] \/ (n = r /\ n \in live \ live')
           /\ \A n \in live : n \in live' \/ (n = r /\ bought'[n] = minted')
           /\ live' \subseteq live \cup {minted'}
           /\ \A n \in Grants : n \notin live' /\ n # r => n \notin live
<1>1. /\ minted \in 1..MaxGrants /\ minted' \in 1..MaxGrants /\ MaxGrants \in Nat
      /\ minted' = minted + 1 /\ minted' \notin saved /\ minted' \in Grants
  BY BoundAssumption DEF IInv, TypeOK, Numbered, Mints, Grants
<1>2. PICK x \in {0, minted', r} \cap (live' \cup {0}) : rt' = [rt EXCEPT ![minted'] = x]
  BY DEF Mints
<1>3. /\ rt \in [Grants -> Optional] /\ bought \in [Grants -> Optional] /\ live \subseteq Grants
      /\ live \subseteq 1..minted /\ r \in 0..minted
      /\ \A n \in Grants : n \in Nat /\ rt[n] <= minted /\ bought[n] <= minted
                                       /\ (n > minted => rt[n] = 0)
  BY <1>1 DEF IInv, TypeOK, Numbered, Mints, Grants
<1>4. r \in Optional /\ minted' \in Optional /\ 0 \in Optional
  BY <1>1, <1>3 DEF Optional
<1>5. rt' \in [Grants -> Optional] /\ rt'[minted'] \in {0, minted', r} \cap (live' \cup {0})
  BY <1>1, <1>2, <1>3, <1>4
<1>6. \A n \in Grants : n # minted' => rt'[n] = rt[n]
  BY <1>2, <1>3
<1>7. \A n \in Grants : n <= minted => n # minted'
  BY <1>1, <1>3
<1>8. bought' \in [Grants -> Optional]
  BY <1>1, <1>3, <1>4 DEF Mints
<1>9. live' \subseteq live \cup {minted'}
  BY DEF Mints
<1>10. live' \subseteq Grants /\ live' \subseteq 1..minted'
  BY <1>1, <1>3, <1>9
<1>11. \A n \in Grants : bought'[n] = bought[n] \/ (n = r /\ n \in live \ live')
  <2>1. CASE bought' = bought
    BY <2>1
  <2>2. CASE /\ r \in live /\ live' = (live \ {r}) \cup {minted'}
             /\ bought' = [bought EXCEPT ![r] = minted']
    <3>1. r # minted'
      BY <1>1, <1>3, <2>2
    <3> QED BY <1>3, <2>2, <3>1
  <2> QED BY <2>1, <2>2 DEF Mints
<1>12. \A n \in live : n \in live' \/ (n = r /\ bought'[n] = minted')
  <2>1. CASE live \subseteq live'
    BY <2>1
  <2>2. CASE /\ r \in live /\ live' = (live \ {r}) \cup {minted'}
             /\ bought' = [bought EXCEPT ![r] = minted']
    BY <1>3, <2>2
  <2> QED BY <2>1, <2>2 DEF Mints
<1>13. \A n \in Grants : n \notin live' /\ n # r => n \notin live
  BY <1>12
<1>14. \A n \in Grants : bought'[n] <= minted'
  <2> SUFFICES ASSUME NEW n \in Grants PROVE bought'[n] <= minted'
    OBVIOUS
  <2>1. bought[n] <= minted /\ bought[n] \in Nat
    BY <1>1, <1>3 DEF Optional
  <2>2. bought'[n] \in {bought[n], minted'}
    BY <1>1, <1>3 DEF Mints
  <2> QED BY <1>1, <2>1, <2>2
<1>15. \A n \in Grants : rt'[n] <= minted' /\ (n > minted' => rt'[n] = 0)
  <2> SUFFICES ASSUME NEW n \in Grants PROVE rt'[n] <= minted' /\ (n > minted' => rt'[n] = 0)
    OBVIOUS
  <2>1. rt[n] <= minted /\ rt[n] \in Nat /\ n \in Nat /\ (n > minted => rt[n] = 0)
    BY <1>1, <1>3 DEF Optional
  <2>3. CASE n # minted'
    BY <1>1, <1>6, <2>1, <2>3
  <2>4. CASE n = minted'
    BY <1>1, <1>3, <1>5, <2>4
  <2> QED BY <2>3, <2>4
<1> QED BY <1>1, <1>5, <1>6, <1>7, <1>8, <1>9, <1>10, <1>11, <1>12, <1>13, <1>14, <1>15

\* A new grant spoils neither the good grants nor the unbought ones.
LEMMA MintGood ==
    ASSUME IInv, NEW r, Mints(r), saved' \in {saved, saved \cup {minted'}},
           saved' = saved \/ bought' = bought
    PROVE  /\ Good \subseteq Good' /\ Unbought \subseteq Unbought'
           /\ bought' = bought => minted' \in Unbought'
<1>1. /\ minted \in 1..MaxGrants /\ MaxGrants \in Nat
      /\ minted' = minted + 1 /\ minted' \notin saved /\ minted' \in Grants
      /\ \A n \in Grants : n <= minted => rt'[n] = rt[n]
      /\ \A n \in Grants : bought'[n] = bought[n] \/ (n = r /\ n \in live \ live')
      /\ \A n \in live : n \in live' \/ (n = r /\ bought'[n] = minted')
      /\ live' \subseteq live \cup {minted'} /\ rt'[minted'] \in live' \cup {0}
      /\ \A n \in Grants : n > minted' => rt'[n] = 0
  BY MintFacts
<1>2. /\ rt \in [Grants -> Optional] /\ bought \in [Grants -> Optional] /\ live \subseteq 1..minted
      /\ \A n \in Grants : n \in Nat /\ rt[n] <= minted /\ bought[n] <= minted
                                       /\ (n > minted => rt[n] = 0)
      /\ \A n \in Optional : n \in Nat /\ (n # 0 => n \in Grants)
      /\ saved \subseteq 1..minted
  BY <1>1 DEF IInv, TypeOK, Numbered, Grants, Optional
<1>3. ASSUME NEW n \in Good PROVE n \in Good'
  <2>1. n \in Grants /\ (rt[n] = 0 \/ rt[n] \in live \/ bought[rt[n]] \notin saved)
    BY <1>3 DEF Good
  <2>2. CASE n > minted
    <3>1. n = minted' \/ n > minted'
      BY <1>1, <1>2, <2>1, <2>2
    <3> QED BY <1>1, <2>1, <3>1 DEF Good
  <2>3. CASE ~(n > minted)
    <3>1. rt'[n] = rt[n]
      BY <1>1, <1>2, <2>1, <2>3
    <3>2. CASE rt[n] = 0
      BY <2>1, <3>1, <3>2 DEF Good
    <3>3. CASE rt[n] # 0 /\ rt[n] \in live'
      BY <2>1, <3>1, <3>3 DEF Good
    <3>4. CASE rt[n] # 0 /\ rt[n] \notin live'
      <4>1. rt[n] \in Grants /\ bought[rt[n]] <= minted /\ bought[rt[n]] \in Nat
        BY <1>2, <2>1, <3>4
      <4>2. CASE rt[n] \in live
        <5>1. bought'[rt[n]] = minted'
          BY <1>1, <3>4, <4>2
        <5>2. saved' = saved
          BY <1>1, <4>1, <5>1
        <5> QED BY <1>1, <2>1, <3>1, <5>1, <5>2 DEF Good
      <4>3. CASE rt[n] \notin live
        <5>1. bought'[rt[n]] = bought[rt[n]] /\ bought[rt[n]] \notin saved
          BY <1>1, <2>1, <3>4, <4>1, <4>3
        <5>2. bought[rt[n]] \notin saved'
          BY <1>1, <4>1, <5>1
        <5> QED BY <2>1, <3>1, <5>1, <5>2 DEF Good
      <4> QED BY <4>2, <4>3
    <3> QED BY <3>2, <3>3, <3>4
  <2> QED BY <2>2, <2>3
<1>4. ASSUME NEW n \in Unbought PROVE n \in Unbought'
  <2>1. n \in 1..minted /\ \A q \in Grants : bought[q] # n
    BY <1>4 DEF Unbought
  <2>2. ASSUME NEW q \in Grants PROVE bought'[q] # n
    <3>1. bought'[q] = bought[q] \/ (q \in live \ live' /\ q = r)
      BY <1>1
    <3> QED BY <1>1, <2>1, <3>1
  <2> QED BY <1>1, <2>1, <2>2 DEF Unbought
<1>5. bought' = bought => minted' \in Unbought'
  BY <1>1, <1>2 DEF Unbought
<1> QED BY <1>3, <1>4, <1>5

\* Nor does it take a grant from a gateway that owns it: its token is not the one that was
\* presented, or the grant came into no hand.
LEMMA MintOwned ==
    ASSUME IInv, NEW r, Mints(r), saved' \in {saved, saved \cup {minted'}},
           NEW g \in Gateways, NEW n \in Owned[g],
           \A h \in Gateways : Hands'[h] \subseteq Hands[h] \cup {minted'},
           \/ rt[n] # r
           \/ saved' = saved /\ \A h \in Gateways : Hands'[h] \subseteq Hands[h]
    PROVE  n \in Owned'[g]
<1>1. /\ minted \in 1..MaxGrants /\ MaxGrants \in Nat
      /\ minted' = minted + 1 /\ minted' \notin saved /\ minted' \in Grants
      /\ \A q \in Grants : q <= minted => rt'[q] = rt[q]
      /\ \A q \in Grants : bought'[q] = bought[q] \/ (q = r /\ q \in live \ live')
      /\ \A q \in live : q \in live' \/ (q = r /\ bought'[q] = minted')
      /\ live' \subseteq live \cup {minted'} /\ rt'[minted'] \in {0, minted', r}
      /\ \A q \in Grants : q \notin live' /\ q # r => q \notin live
  BY MintFacts
<1>2. /\ rt \in [Grants -> Optional] /\ bought \in [Grants -> Optional]
      /\ \A q \in Grants : q \in Nat /\ rt[q] <= minted /\ bought[q] <= minted
                                       /\ (q > minted => rt[q] = 0)
      /\ \A q \in Optional : q \in Nat /\ (q # 0 => q \in Grants)
      /\ saved \subseteq 1..minted /\ \A h \in Gateways : Hands[h] \subseteq 1..minted
      /\ 1..minted \subseteq Grants
  <2>1. rt \in [Grants -> Optional] /\ bought \in [Grants -> Optional]
    BY DEF IInv, TypeOK
  <2>2. /\ \A q \in Grants : rt[q] <= minted /\ bought[q] <= minted /\ (q > minted => rt[q] = 0)
        /\ saved \subseteq 1..minted /\ \A h \in Gateways : Hands[h] \subseteq 1..minted
    BY DEF IInv, Numbered
  <2>3. /\ \A q \in Grants : q \in Nat
        /\ \A q \in Optional : q \in Nat /\ (q # 0 => q \in Grants)
        /\ 1..minted \subseteq Grants
    BY <1>1 DEF Grants, Optional
  <2> QED BY <2>1, <2>2, <2>3
<1>3. /\ n \in Grants /\ rt[n] # 0 /\ \A z \in saved : rt[z] # rt[n]
      /\ \A h \in Gateways \ {g} : \A b \in Hands[h] : rt[b] # rt[n]
      /\ rt[n] \notin live => /\ bought[rt[n]] \notin saved
                              /\ \A h \in Gateways : bought[rt[n]] \notin Hands[h]
  BY DEF Owned
<1>4. /\ rt'[n] = rt[n] /\ rt[n] \in Grants /\ rt[n] <= minted /\ rt[n] \in Nat
      /\ bought[rt[n]] <= minted /\ bought[rt[n]] \in Nat
  <2>a. n \in Grants /\ rt[n] # 0
    BY <1>3
  <2>b. n \in Nat /\ (n > minted => rt[n] = 0) /\ rt[n] \in Optional
    BY <1>2, <2>a
  <2>c. minted \in Nat
    BY <1>1
  <2>1. n <= minted /\ rt[n] \in Optional
    BY <2>a, <2>b, <2>c
  <2>2. rt'[n] = rt[n] /\ rt[n] \in Grants /\ rt[n] <= minted /\ rt[n] \in Nat
    BY <1>1, <1>2, <1>3, <2>1
  <2> QED BY <1>2, <2>2
<1>5. \A q \in 1..minted : rt'[q] = rt[q]
  BY <1>1, <1>2
<1>6. rt[n] # r => rt'[minted'] # rt[n]
  BY <1>1, <1>3, <1>4
<1>7. \A z \in saved' : rt'[z] # rt[n]
  BY <1>2, <1>3, <1>5, <1>6
<1>8. ASSUME NEW h \in Gateways \ {g}, NEW b \in Hands'[h] PROVE rt'[b] # rt[n]
  BY <1>2, <1>3, <1>5, <1>6, <1>8
<1>9. ASSUME rt[n] \notin live'
      PROVE  bought'[rt[n]] \notin saved' /\ \A h \in Gateways : bought'[rt[n]] \notin Hands'[h]
  <2>1. CASE rt[n] \in live
    <3>1. rt[n] = r /\ bought'[rt[n]] = minted'
      BY <1>1, <1>9, <2>1
    <3>2. \A h \in Gateways : minted' \notin Hands[h]
      BY <1>1, <1>2
    <3> QED BY <1>1, <3>1, <3>2
  <2>2. CASE rt[n] \notin live
    <3>1. bought'[rt[n]] = bought[rt[n]] /\ bought[rt[n]] # minted'
      BY <1>1, <1>4, <2>2
    <3> QED BY <1>3, <2>2, <3>1
  <2> QED BY <2>1, <2>2
<1> QED BY <1>3, <1>4, <1>7, <1>8, <1>9 DEF Owned

\* A gateway that did not move still fits when a grant is issued, in the vault (at w) or
\* in the hand of a gateway.
LEMMA MintFits ==
    ASSUME IInv, NEW r, Mints(r), saved' \in {saved, saved \cup {minted'}},
           saved' = saved \/ bought' = bought,
           NEW g \in Gateways, mem'[g] = mem[g], op'[g] = op[g],
           \A h \in Gateways : Hands'[h] \subseteq Hands[h] \cup {minted'},
           Owned[g] \subseteq Owned'[g],
           vSt' \in {vSt, 0, minted'},
           op[g].pc = "put" => rt[op[g].new] \in live'
    PROVE  FitsNow(g)'
<1>1. /\ minted \in 1..MaxGrants /\ MaxGrants \in Nat
      /\ minted' = minted + 1 /\ minted' \notin saved /\ minted' \in Grants
      /\ \A q \in Grants : q <= minted => rt'[q] = rt[q]
      /\ \A q \in Grants : q \in Nat
  BY MintFacts DEF Grants
<1>2. Good \subseteq Good' /\ Unbought \subseteq Unbought' /\ saved \subseteq saved'
  BY MintGood
<1>3. Fits(mem[g], op[g], vSt, saved, Owned[g], Good, Unbought, rt, live)
  BY DEF IInv, FitsNow
<1>4. /\ op[g] \in Op /\ Hands[g] = Hand(mem[g], op[g]) /\ Hands[g] \subseteq 1..minted
      /\ Numbered /\ saved \subseteq 1..minted /\ 0 \notin saved
  BY Now DEF Numbered
<1>5. ASSUME op[g].pc = "put"
      PROVE  /\ op[g].new \notin saved' /\ rt'[op[g].new] \in live'
             /\ rt'[op[g].new] = rt[op[g].new] /\ rt'[op[g].src] = rt[op[g].src]
  <2>1. op[g].new \in Hands[g] /\ op[g].new \notin saved /\ op[g].src # 0
    BY <1>3, <1>4, <1>5 DEF Fits, Hand
  <2>2. op[g].new \in 1..minted /\ op[g].src <= minted /\ op[g].src \in Grants
    BY <1>4, <1>5, <2>1, <1>1 DEF Numbered, Op, Optional, Grants
  <2>3. op[g].new \in Grants /\ op[g].new <= minted /\ op[g].new # minted'
    BY <1>1, <2>2 DEF Grants
  <2> QED BY <1>1, <1>5, <2>1, <2>2, <2>3
<1>6. ASSUME op[g].pc = "ustate" PROVE op[g].src \notin saved' /\ rt'[op[g].src] = rt[op[g].src]
  <2>1. op[g].src \notin saved /\ op[g].src \in 1..minted
    BY <1>3, <1>6 DEF Fits, Unbought
  <2>3. op[g].src \in Grants /\ op[g].src <= minted /\ op[g].src # minted'
    BY <1>1, <2>1 DEF Grants
  <2> QED BY <1>1, <2>1, <2>3
<1>7. mem[g].st \in saved \ {vSt} => mem[g].st # vSt'
  BY <1>1, <1>4
<1>8. Fits(mem[g], op[g], vSt', saved', Owned'[g], Good', Unbought', rt', live')
  BY <1>2, <1>3, <1>5, <1>6, <1>7, FitsGrow
<1> QED BY <1>8 DEF FitsNow

\* A grant issued to gateway k, or lost on the way to it.
LEMMA MintInv ==
    ASSUME IInv, NEW k \in Gateways, NEW m, NEW o, Moves(k, m, o),
           NEW r, Mints(r), UNCHANGED <<vAcc, vSt, saved, desk>>,
           Hand(m, o) \subseteq Hands[k] \cup {minted'},
           \/ Hand(m, o) \subseteq Hands[k]
           \/ \A h \in Gateways \ {k} : \A n \in Owned[h] : rt[n] # r,
           live \subseteq live' \/ lock = k,
           Fits(m, o, vSt, saved, Owned'[k], Good', Unbought', rt', live'),
           o.pc \in {"exchange", "put", "ustate"} => o.src <= minted'
    PROVE  IInv'
<1>1. /\ mem' \in [Gateways -> Credentials] /\ op' \in [Gateways -> Op]
      /\ mem'[k] = m /\ op'[k] = o
      /\ \A h \in Gateways \ {k} : mem'[h] = mem[h] /\ op'[h] = op[h]
      /\ Hands'[k] = Hand(m, o) /\ \A h \in Gateways \ {k} : Hands'[h] = Hands[h]
      /\ lock' \in Gateways \cup {NoGateway} /\ (lock' # NoGateway => op'[lock'].pc # "idle")
      /\ LocksFit' /\ ops' \in 0..MaxOps /\ upsets' \in 0..MaxUpsets
  BY MovesFacts
<1>2. \A h \in Gateways : Hands'[h] \subseteq Hands[h] \cup {minted'}
  BY <1>1
<1>3. /\ minted \in 1..MaxGrants /\ minted' \in 1..MaxGrants /\ MaxGrants \in Nat
      /\ minted' = minted + 1 /\ minted' \notin saved /\ minted' \in Grants
      /\ rt' \in [Grants -> Optional] /\ bought' \in [Grants -> Optional]
      /\ live' \subseteq Grants /\ live' \subseteq 1..minted'
      /\ \A n \in Grants : rt'[n] <= minted' /\ bought'[n] <= minted'
      /\ \A n \in Grants : n > minted' => rt'[n] = 0
  BY MintFacts
<1>4. Good \subseteq Good' /\ Unbought \subseteq Unbought'
  BY MintGood
<1>5. ASSUME NEW h \in Gateways \ {k}, NEW n \in Owned[h] PROVE n \in Owned'[h]
  <2>1. \/ rt[n] # r
        \/ saved' = saved /\ \A g \in Gateways : Hands'[g] \subseteq Hands[g]
    BY <1>1, <1>5
  <2> QED BY <1>2, <1>5, <2>1, MintOwned
<1>6. TypeOK'
  <2>1. vAcc \in 0..minted /\ vSt \in 0..minted
    BY DEF IInv, TypeOK
  <2>2. vAcc' \in 0..minted' /\ vSt' \in 0..minted'
    BY <1>3, <2>1
  <2> QED BY <1>1, <1>3, <2>2 DEF IInv, TypeOK, Grants
<1>7. Numbered'
  <2>1. saved \subseteq 1..minted /\ \A g \in Gateways : Hands[g] \subseteq 1..minted
    BY DEF IInv, Numbered
  <2>2. saved' \subseteq 1..minted' /\ \A g \in Gateways : Hands'[g] \subseteq 1..minted'
    BY <1>2, <1>3, <2>1
  <2>3. ASSUME NEW g \in Gateways, op'[g].pc \in {"exchange", "put", "ustate"}
        PROVE  op'[g].src <= minted'
    <3>1. CASE g = k
      BY <1>1, <2>3, <3>1
    <3>2. CASE g # k
      <4>1. op[g].src <= minted /\ op'[g] = op[g]
        BY <1>1, <2>3, <3>2 DEF IInv, Numbered
      <4>2. op[g].src \in 0..MaxGrants
        BY DEF IInv, TypeOK, Op, Optional
      <4> QED BY <1>3, <4>1, <4>2
    <3> QED BY <3>1, <3>2
  <2> QED BY <1>3, <2>2, <2>3 DEF Numbered
<1>8. VaultFits'
  BY <1>4 DEF IInv, VaultFits
<1>9. Apart'
  <2> SUFFICES ASSUME NEW g \in Gateways, NEW h \in Gateways, g # h
               PROVE  Hands'[g] \cap Hands'[h] = {}
    BY DEF Apart
  <2>1. \A q \in Gateways : minted' \notin Hands[q]
    BY <1>3 DEF IInv, Numbered
  <2> QED BY <1>1, <2>1 DEF IInv, Apart
<1>10. ASSUME NEW g \in Gateways PROVE FitsNow(g)'
  <2>1. CASE g = k
    BY <1>1, <2>1 DEF FitsNow
  <2>2. CASE g # k
    <3>1. Owned[g] \subseteq Owned'[g] /\ mem'[g] = mem[g] /\ op'[g] = op[g]
      BY <1>1, <1>5, <2>2
    <3>2. op[g].pc = "put" => rt[op[g].new] \in live /\ Locked(op[g])
      BY DEF IInv, FitsNow, Fits, Locked
    <3>3. op[g].pc = "put" => rt[op[g].new] \in live'
      BY <2>2, <3>2 DEF IInv, LocksFit
    <3>4. saved' \in {saved, saved \cup {minted'}} /\ (saved' = saved \/ bought' = bought)
          /\ vSt' \in {vSt, 0, minted'}
      OBVIOUS
    <3> QED BY <1>2, <3>1, <3>3, <3>4, MintFits
  <2> QED BY <2>1, <2>2
<1> QED BY <1>1, <1>6, <1>7, <1>8, <1>9, <1>10 DEF IInv

\* The desktop stores a grant of the user's, with a state or without one.
LEMMA DeskInv ==
    ASSUME IInv, Mints(0), UNCHANGED <<bought, vAcc, lock, mem, op, ops>>,
           live \subseteq live', upsets' \in 0..MaxUpsets, desk' = <<minted'>>,
           \/ vSt' = 0 /\ saved' = saved
           \/ vSt' = minted' /\ saved' = saved \cup {minted'}
    PROVE  IInv'
<1>1. Hands' = Hands /\ \A h \in Gateways : Hands'[h] \subseteq Hands[h] \cup {minted'}
  BY DEF Hands
<1>3. /\ minted \in 1..MaxGrants /\ minted' \in 1..MaxGrants /\ MaxGrants \in Nat
      /\ minted' = minted + 1 /\ minted' \notin saved /\ minted' \in Grants
      /\ rt' \in [Grants -> Optional] /\ bought' \in [Grants -> Optional]
      /\ live' \subseteq Grants /\ live' \subseteq 1..minted'
      /\ \A n \in Grants : rt'[n] <= minted' /\ bought'[n] <= minted'
      /\ \A n \in Grants : n > minted' => rt'[n] = 0
      /\ rt'[minted'] \in live' \cup {0}
  BY MintFacts
<1>4. Good \subseteq Good' /\ Unbought \subseteq Unbought' /\ minted' \in Unbought'
  BY MintGood
<1>5. ASSUME NEW h \in Gateways, NEW n \in Owned[h] PROVE n \in Owned'[h]
  <2>1. rt[n] # 0
    BY <1>5 DEF Owned
  <2> QED BY <1>1, <1>5, <2>1, MintOwned
<1>6. TypeOK'
  <2>1. vAcc \in 0..minted /\ saved \subseteq Grants
    BY DEF IInv, TypeOK
  <2>2. vAcc' \in 0..minted' /\ 0 \in 0..minted' /\ minted' \in 0..minted' /\ minted' \in Optional
    BY <1>3, <2>1 DEF Optional
  <2>3. vSt' \in 0..minted' /\ saved' \subseteq Grants
    BY <1>3, <2>1, <2>2
  <2> QED BY <1>3, <2>2, <2>3 DEF IInv, TypeOK, Grants
<1>7. Numbered'
  <2>1. saved \subseteq 1..minted /\ \A g \in Gateways : Hands[g] \subseteq 1..minted
    BY DEF IInv, Numbered
  <2>2. saved' \subseteq 1..minted' /\ \A g \in Gateways : Hands'[g] \subseteq 1..minted'
    <3>1. 1..minted \subseteq 1..minted' /\ minted' \in 1..minted'
      BY <1>3
    <3> QED BY <1>1, <2>1, <3>1
  <2>3. ASSUME NEW g \in Gateways, op'[g].pc \in {"exchange", "put", "ustate"}
        PROVE  op'[g].src <= minted'
    <3>1. op[g].src <= minted /\ op'[g] = op[g]
      BY <2>3 DEF IInv, Numbered
    <3>2. op[g].src \in 0..MaxGrants
      BY DEF IInv, TypeOK, Op, Optional
    <3> QED BY <1>3, <3>1, <3>2
  <2> QED BY <1>3, <2>2, <2>3 DEF Numbered
<1>8. VaultFits'
  <2>1. minted' \in Good'
    BY <1>3 DEF Good
  <2>2. desk' # <<>> => desk'[1] = minted'
    OBVIOUS
  <2> QED BY <1>4, <2>1, <2>2 DEF IInv, VaultFits
<1>9. Apart' /\ LocksFit'
  BY <1>1 DEF IInv, Apart, LocksFit
<1>10. ASSUME NEW g \in Gateways PROVE FitsNow(g)'
  <2>1. Owned[g] \subseteq Owned'[g] /\ mem'[g] = mem[g] /\ op'[g] = op[g]
    BY <1>5
  <2>2. op[g].pc = "put" => rt[op[g].new] \in live
    BY DEF IInv, FitsNow, Fits
  <2>3. saved' \in {saved, saved \cup {minted'}} /\ (saved' = saved \/ bought' = bought)
        /\ vSt' \in {vSt, 0, minted'}
    OBVIOUS
  <2> QED BY <1>1, <2>1, <2>2, <2>3, MintFits
<1> QED BY <1>6, <1>7, <1>8, <1>9, <1>10 DEF IInv

\* The desktop clears the state.
LEMMA ClearInv ==
    ASSUME IInv, ClearAuthToken
    PROVE  IInv'
<1>1. /\ UNCHANGED <<minted, rt, live, bought, vAcc, saved, lock, mem, op, ops>>
      /\ vSt' = 0 /\ desk' = <<0>> /\ upsets' \in 0..MaxUpsets
  BY BoundAssumption DEF ClearAuthToken, Upset, provider, IInv, TypeOK
<1>2. Hands' = Hands /\ Good' = Good /\ Unbought' = Unbought /\ Owned' = Owned
  BY <1>1 DEF Hands, Good, Unbought, Owned
<1>3. TypeOK'
  <2>1. minted \in Nat /\ 0 \in 0..minted /\ 0 \in Optional
    BY BoundAssumption DEF IInv, TypeOK, Grants, Optional
  <2> QED BY <1>1, <2>1 DEF IInv, TypeOK
<1>4. Numbered' /\ Apart' /\ LocksFit'
  BY <1>1, <1>2 DEF IInv, Numbered, Apart, LocksFit
<1>5. VaultFits'
  BY <1>1, <1>2 DEF IInv, VaultFits
<1>6. ASSUME NEW g \in Gateways PROVE FitsNow(g)'
  <2>1. Fits(mem[g], op[g], vSt, saved, Owned[g], Good, Unbought, rt, live) /\ 0 \notin saved
    BY BoundAssumption DEF IInv, FitsNow, TypeOK, Grants
  <2>2. /\ op[g].pc = "put" => op[g].new \notin saved /\ rt[op[g].new] \in live
        /\ op[g].pc = "ustate" => op[g].src \notin saved
    BY <2>1 DEF Fits
  <2>3. Fits(mem[g], op[g], 0, saved, Owned[g], Good, Unbought, rt, live)
    BY <2>1, <2>2, FitsGrow
  <2> QED BY <1>1, <1>2, <2>3 DEF FitsNow
<1> QED BY <1>3, <1>4, <1>5, <1>6 DEF IInv

\* The desktop stores the bearer that goes with what it did to the state.
LEMMA BearerInv ==
    ASSUME IInv, StoreBearer
    PROVE  IInv'
<1>1. PICK told \in BOOLEAN : WriteBearer(desk[1], told)
  BY DEF StoreBearer
<1>2. /\ UNCHANGED <<minted, rt, live, bought, vSt, saved, lock, mem, op, ops>>
      /\ vAcc' \in {desk[1], vAcc} /\ desk # <<>> /\ desk' = <<>>
  BY <1>1 DEF StoreBearer, WriteBearer, provider
<1>3. upsets' \in 0..MaxUpsets
  BY <1>1, BoundAssumption DEF WriteBearer, Upset, Calm, IInv, TypeOK
<1>4. Hands' = Hands /\ Good' = Good /\ Unbought' = Unbought /\ Owned' = Owned
  BY <1>2 DEF Hands, Good, Unbought, Owned
<1>5. desk[1] \in {0} \cup saved \cup Unbought /\ desk[1] \in 0..minted
  <2>1. desk[1] \in {0} \cup saved \cup Unbought /\ saved \subseteq 1..minted /\ minted \in Nat
    BY <1>2, BoundAssumption DEF IInv, VaultFits, Numbered, TypeOK, Grants
  <2>2. 1..minted \subseteq 0..minted /\ 0 \in 0..minted /\ Unbought \subseteq 1..minted
    BY <2>1 DEF Unbought
  <2> QED BY <2>1, <2>2
<1>6. TypeOK'
  BY <1>2, <1>3, <1>5 DEF IInv, TypeOK
<1>7. Numbered' /\ Apart' /\ LocksFit'
  BY <1>2, <1>4 DEF IInv, Numbered, Apart, LocksFit
<1>8. VaultFits'
  BY <1>2, <1>4, <1>5 DEF IInv, VaultFits
<1>9. \A g \in Gateways : FitsNow(g)'
  BY <1>2, <1>4 DEF IInv, FitsNow
<1> QED BY <1>6, <1>7, <1>8, <1>9 DEF IInv

-----------------------------------------------------------------------------
(* Steps of a gateway that neither make a grant nor store a state.         *)

LEMMA FinishMoves ==
    ASSUME IInv, NEW k \in Gateways, NEW m \in Credentials, Finish(k, m), upsets' \in 0..MaxUpsets
    PROVE  Moves(k, m, Idle)
<1>1. Idle \in Op /\ ~Locked(Idle) /\ Idle.pc = "idle"
  BY BoundAssumption DEF Idle, Op, Phases, Optional, Locked
<1>2. mem' = [mem EXCEPT ![k] = m] /\ op' = [op EXCEPT ![k] = Idle] /\ ops' \in 0..MaxOps
  BY DEF Finish, IInv, TypeOK
<1>3. lock' = IF lock = k THEN NoGateway ELSE lock
  BY DEF Finish, Unlocked
<1> QED BY <1>1, <1>2, <1>3, GatewayAssumption DEF Moves

LEMMA GoMoves ==
    ASSUME IInv, NEW k \in Gateways, NEW m \in Credentials, NEW o \in Op, Go(k, m, o),
           Locked(o) => lock = k, o.pc # "idle", upsets' \in 0..MaxUpsets
    PROVE  Moves(k, m, o)
BY DEF Moves, Go, IInv, TypeOK

\* A memory that gateway k may come to rest with.
Sound(k, m) ==
    /\ m \in Credentials /\ m.st \in saved \cup {0} /\ m.pending \in {0, mem[k].pending}
    /\ m.pending # 0 => m.st # 0 /\ (m.st # vSt \/ m.pending \in Owned[k])

\* The vault's states, the grants and the bearer the desktop has in hand are left alone.
Quiet ==
    /\ UNCHANGED <<minted, rt, live, bought, vSt, saved, desk>>
    /\ upsets' \in 0..MaxUpsets
    /\ vAcc' \in 0..minted /\ vAcc' \in {0} \cup saved \cup Unbought

LEMMA MemorySound ==
    ASSUME IInv, NEW k \in Gateways, op[k].pc # "put"
    PROVE  Sound(k, mem[k])
BY DEF IInv, TypeOK, FitsNow, Fits, Sound

LEMMA FinishInv ==
    ASSUME IInv, NEW k \in Gateways, NEW m, Sound(k, m), Finish(k, m), Quiet
    PROVE  IInv'
<1>1. m \in Credentials
  BY DEF Sound
<1>2. Moves(k, m, Idle)
  BY <1>1, FinishMoves DEF Quiet
<1>3. Idle.pc = "idle" /\ Idle.new = 0 /\ Idle.phase = "look"
  BY DEF Idle
<1>4. Hand(m, Idle) \subseteq Hands[k]
  BY <1>3 DEF Hand, Hands, Sound
<1>5. Fits(m, Idle, vSt, saved, Owned[k], Good, Unbought, rt, live)
  BY <1>3 DEF Fits, Sound
<1> QED BY <1>2, <1>3, <1>4, <1>5, StepInv DEF Quiet

\* The same, with an operation that goes on.
LEMMA GoInv ==
    ASSUME IInv, NEW k \in Gateways, NEW m, NEW o \in Op, Go(k, m, o), Quiet, Sound(k, m),
           Locked(o) => lock = k, o.pc \notin {"idle", "put", "ustate"}, o.new = 0,
           Fits(m, o, vSt, saved, Owned[k], Good, Unbought, rt, live),
           o.pc = "exchange" => o.src <= minted
    PROVE  IInv'
<1>1. m \in Credentials
  BY DEF Sound
<1>2. Moves(k, m, o)
  BY <1>1, GoMoves DEF Quiet
<1>3. Hand(m, o) \subseteq Hands[k]
  BY DEF Hand, Hands, Sound
<1> QED BY <1>2, <1>3, StepInv DEF Quiet

\* What the caller of read_vault and of save_access does next.
LEMMA ContinueInv ==
    ASSUME IInv, NEW k \in Gateways, NEW m, NEW o \in Op, Continue(k, m, o), Quiet, Sound(k, m),
           o.new = 0,
           o.phase = "second" =>
               lock = k /\ IF m.pending = 0 THEN m.st \in Good \cup {0} ELSE m.pending \in Owned[k],
           o.phase = "retried" =>
               /\ lock = k /\ o.src \in Good \cup {0} /\ o.src <= minted
               /\ o.src = IF m.pending = 0 THEN m.st ELSE m.pending
    PROVE  IInv'
<1>1. CASE Finish(k, m)
  BY <1>1, FinishInv
<1>2. CASE o.phase = "first" /\ Go(k, m, [o EXCEPT !.pc = "lock"])
  <2> DEFINE q == [o EXCEPT !.pc = "lock"]
  <2>1. q \in Op /\ q.pc = "lock" /\ q.new = 0
    BY DEF Op
  <2>2. Go(k, m, q)
    BY <1>2
  <2> HIDE DEF q
  <2>3. ~Locked(q)
    BY <2>1 DEF Locked
  <2>4. Fits(m, q, vSt, saved, Owned[k], Good, Unbought, rt, live)
    BY <2>1 DEF Fits, Sound
  <2> QED BY <2>1, <2>2, <2>3, <2>4, GoInv
<1>3. CASE o.phase = "second" /\ Go(k, m, [o EXCEPT !.pc = "decide"])
  <2> DEFINE q == [o EXCEPT !.pc = "decide"]
  <2>1. q \in Op /\ q.pc = "decide" /\ q.new = 0
    BY DEF Op
  <2>2. Go(k, m, q)
    BY <1>3
  <2> HIDE DEF q
  <2>3. Fits(m, q, vSt, saved, Owned[k], Good, Unbought, rt, live)
    BY <1>3, <2>1 DEF Fits, Sound
  <2> QED BY <1>3, <2>1, <2>2, <2>3, GoInv
<1>4. CASE o.phase = "winner" /\ Finish(k, [m EXCEPT !.pending = 0, !.token = o.src])
  <2> DEFINE q == [m EXCEPT !.pending = 0, !.token = o.src]
  <2>1. m \in Credentials /\ o.src \in Optional /\ 0 \in Optional
    BY BoundAssumption DEF Sound, Op, Optional
  <2>2. q \in Credentials /\ q.pending = 0 /\ q.st = m.st
    BY <2>1 DEF Credentials
  <2>3. Finish(k, q)
    BY <1>4
  <2> HIDE DEF q
  <2>4. Sound(k, q)
    BY <2>2 DEF Sound
  <2> QED BY <2>3, <2>4, FinishInv
<1>5. CASE o.phase = "retried" /\ Go(k, m, [o EXCEPT !.pc = "exchange"])
  <2> DEFINE q == [o EXCEPT !.pc = "exchange"]
  <2>1. q \in Op /\ q.pc = "exchange" /\ q.new = 0 /\ q.src = o.src
    BY DEF Op
  <2>2. Go(k, m, q)
    BY <1>5
  <2> HIDE DEF q
  <2>3. Fits(m, q, vSt, saved, Owned[k], Good, Unbought, rt, live)
    BY <1>5, <2>1 DEF Fits, Sound
  <2> QED BY <1>5, <2>1, <2>2, <2>3, GoInv
<1> QED BY <1>1, <1>2, <1>3, <1>4, <1>5 DEF Continue

LEMMA QuietRead ==
    ASSUME IInv, UNCHANGED <<provider, vault, desk, upsets>>
    PROVE  Quiet
BY DEF Quiet, provider, vault, IInv, TypeOK, VaultFits

\* What holds of a gateway in the middle of an operation that is not about to store anything.
LEMMA Midway ==
    ASSUME IInv, NEW k \in Gateways
    PROVE  /\ mem[k] \in Credentials /\ op[k] \in Op /\ 0 \in Optional
           /\ vSt \in Optional /\ vAcc \in Optional
           /\ Fits(mem[k], op[k], vSt, saved, Owned[k], Good, Unbought, rt, live)
           /\ Locked(op[k]) => lock = k
           /\ op[k].pc = "idle" => lock # k
           /\ vSt \in Good \cup {0} /\ vSt \in saved \cup {0}
           /\ \A n \in saved \cup {0} : n <= minted
           /\ \A n \in saved \cup {0} \cup Unbought : n \in 0..minted
           /\ saved \subseteq Grants /\ minted \in Nat
<1>1. /\ mem[k] \in Credentials /\ op[k] \in Op
      /\ Fits(mem[k], op[k], vSt, saved, Owned[k], Good, Unbought, rt, live)
      /\ Locked(op[k]) => lock = k
      /\ op[k].pc = "idle" => lock # k
      /\ vSt \in Good \cup {0} /\ vSt \in saved \cup {0}
  BY GatewayAssumption DEF IInv, TypeOK, FitsNow, LocksFit, VaultFits
<1>2. minted \in 1..MaxGrants /\ MaxGrants \in Nat /\ vSt \in 0..minted /\ vAcc \in 0..minted
  BY BoundAssumption DEF IInv, TypeOK, Grants
<1>3. 0 \in Optional /\ vSt \in Optional /\ vAcc \in Optional /\ minted \in Nat
  BY <1>2 DEF Optional
<1>4. saved \subseteq Grants /\ saved \subseteq 1..minted /\ Unbought \subseteq 1..minted
  BY DEF IInv, TypeOK, Numbered, Unbought
<1>5. 0 \in 0..minted /\ 1..minted \subseteq 0..minted
  BY <1>2
<1>6. \A n \in saved \cup {0} \cup Unbought : n \in 0..minted
  BY <1>4, <1>5
<1>7. \A n \in saved \cup {0} : n <= minted
  BY <1>2, <1>6
<1> QED BY <1>1, <1>3, <1>4, <1>6, <1>7

\* An operation starts by reading the bearer.
LEMMA StartInv ==
    ASSUME IInv, NEW k \in Gateways, NEW phase \in {"look", "first"}, NEW force \in BOOLEAN,
           NEW r \in Optional, Start(k, Reading(phase, force, r, k)),
           UNCHANGED <<provider, vault, desk, upsets>>
    PROVE  IInv'
<1> DEFINE o == Reading(phase, force, r, k)
<1>1. /\ mem[k] \in Credentials /\ 0 \in Optional /\ vAcc \in Optional
      /\ op[k].pc = "idle" => lock # k
  BY Midway
<1>2. o \in Op /\ o.pc = "st" /\ o.phase = phase /\ o.new = 0
  BY <1>1 DEF Reading, Idle, Op, Phases
<1>3. op[k].pc = "idle" /\ ops < MaxOps /\ ops' = ops + 1 /\ op' = [op EXCEPT ![k] = o]
      /\ mem' = mem /\ lock' = lock
  BY DEF Start
<1> HIDE DEF o
<1>4. ~Locked(o)
  BY <1>2 DEF Locked
<1>5. mem' = [mem EXCEPT ![k] = mem[k]]
  BY <1>3 DEF IInv, TypeOK
<1>6. ops' \in 0..MaxOps /\ upsets' \in 0..MaxUpsets
  BY <1>3, BoundAssumption DEF IInv, TypeOK
<1>7. Moves(k, mem[k], o)
  BY <1>1, <1>2, <1>3, <1>4, <1>5, <1>6 DEF Moves
<1>8. Sound(k, mem[k])
  BY <1>3, MemorySound
<1>9. Hand(mem[k], o) \subseteq Hands[k]
  BY <1>2 DEF Hand, Hands
<1>10. Fits(mem[k], o, vSt, saved, Owned[k], Good, Unbought, rt, live)
  BY <1>2, <1>8 DEF Fits, Sound
<1>11. Quiet
  BY QuietRead
<1> QED BY <1>2, <1>7, <1>9, <1>10, <1>11, StepInv DEF Quiet

LEMMA ReadAccessInv ==
    ASSUME IInv, NEW k \in Gateways, ReadAccess(k)
    PROVE  IInv'
<1>1. Quiet /\ op[k].pc = "acc"
  BY QuietRead DEF ReadAccess
<1>2. /\ mem[k] \in Credentials /\ op[k] \in Op /\ vAcc \in Optional
      /\ Fits(mem[k], op[k], vSt, saved, Owned[k], Good, Unbought, rt, live)
      /\ Locked(op[k]) => lock = k
  BY Midway
<1>3. Sound(k, mem[k])
  BY <1>1, MemorySound
<1>4. CASE Go(k, mem[k], [op[k] EXCEPT !.pc = "st", !.seen = vAcc])
  <2> DEFINE o == [op[k] EXCEPT !.pc = "st", !.seen = vAcc]
  <2>1. o \in Op /\ o.pc = "st" /\ o.new = op[k].new /\ o.phase = op[k].phase
    BY <1>2 DEF Op
  <2>2. Go(k, mem[k], o)
    BY <1>4
  <2> HIDE DEF o
  <2>3. o.new = 0 /\ o.phase \notin {"retried", "put"}
    BY <1>1, <1>2, <2>1 DEF Fits
  <2>4. Locked(o) => lock = k
    BY <1>1, <1>2, <2>1 DEF Locked
  <2>5. Fits(mem[k], o, vSt, saved, Owned[k], Good, Unbought, rt, live)
    BY <1>3, <2>1, <2>3 DEF Fits, Sound
  <2> QED BY <1>1, <1>3, <2>1, <2>2, <2>3, <2>4, <2>5, GoInv
<1>5. CASE StorageError(k)
  BY <1>1, <1>3, <1>5, FinishInv DEF StorageError
<1> QED BY <1>4, <1>5 DEF ReadAccess

\* The vault's state replaces the one in memory; a pending rotation is kept only if the
\* vault still has the state it was bought with.
LEMMA ReadFacts ==
    ASSUME IInv, NEW k \in Gateways, op[k].pc # "put", NEW a \in Optional
    PROVE  /\ Read(mem[k], a, vSt) \in Credentials
           /\ Sound(k, Read(mem[k], a, vSt)) /\ Read(mem[k], a, vSt).st = vSt
           /\ Read(mem[k], a, vSt).pending # 0 => Read(mem[k], a, vSt).pending \in Owned[k]
           /\ OwnSave(mem[k], a, vSt) =>
                 Read(mem[k], a, vSt).pending = 0 /\ Read(mem[k], a, vSt).token = vSt
<1> DEFINE m == mem[k]
<1> DEFINE R == Read(mem[k], a, vSt)
<1>1. /\ m \in Credentials /\ 0 \in Optional /\ vSt \in Optional
      /\ vSt \in saved \cup {0}
      /\ Fits(mem[k], op[k], vSt, saved, Owned[k], Good, Unbought, rt, live)
  BY Midway
<1>2. m.pending \in Optional /\ m.token \in Optional /\ m.loaded \in BOOLEAN
  BY <1>1 DEF Credentials
<1>3. R \in Credentials /\ R.st = vSt
  BY <1>1, <1>2 DEF Read, Credentials
<1>4. R.pending = IF OwnSave(m, a, vSt) \/ ~m.loaded \/ Changed(m, a, vSt) THEN 0 ELSE m.pending
  BY DEF Read
<1>5. OwnSave(m, a, vSt) => R.pending = 0 /\ R.token = vSt
  BY <1>4 DEF Read, OwnSave
<1>6. R.pending # 0 => R.pending = m.pending /\ m.st = vSt /\ m.pending # 0
  BY <1>4 DEF Changed
<1>7. R.pending # 0 => vSt # 0 /\ R.pending \in Owned[k]
  BY <1>1, <1>6 DEF Fits
<1>8. R.pending \in {0, m.pending}
  BY <1>4
<1>9. Sound(k, R)
  BY <1>1, <1>3, <1>7, <1>8 DEF Sound
<1> QED BY <1>3, <1>5, <1>7, <1>9

LEMMA ReadStateInv ==
    ASSUME IInv, NEW k \in Gateways, ReadState(k)
    PROVE  IInv'
<1> DEFINE a == op[k].seen
<1> DEFINE own == OwnSave(mem[k], a, vSt)
<1> DEFINE o == [op[k] EXCEPT !.changed = @ \/ (Changed(mem[k], a, vSt) /\ ~own), !.seen = 0]
<1> DEFINE m == Read(mem[k], a, vSt)
<1>1. Quiet /\ op[k].pc = "st"
  BY QuietRead DEF ReadState
<1>2. /\ mem[k] \in Credentials /\ op[k] \in Op /\ 0 \in Optional
      /\ Fits(mem[k], op[k], vSt, saved, Owned[k], Good, Unbought, rt, live)
      /\ Locked(op[k]) => lock = k
      /\ vSt \in Good \cup {0} /\ vSt \in saved \cup {0}
  BY Midway
<1>3. a \in Optional /\ own \in BOOLEAN /\ Changed(mem[k], a, vSt) \in BOOLEAN
  BY <1>2 DEF Op, OwnSave, Changed, Credentials
<1>4. o \in Op /\ o.pc = "st" /\ o.new = op[k].new /\ o.phase = op[k].phase
  BY <1>1, <1>2, <1>3 DEF Op
<1>5. /\ Sound(k, m) /\ m.st = vSt
      /\ m.pending # 0 => m.pending \in Owned[k]
      /\ own => m.pending = 0 /\ m.token = vSt
  BY <1>1, <1>3, ReadFacts
<1>6. \/ own /\ Go(k, m, [o EXCEPT !.pc = "save"])
      \/ ~own /\ Continue(k, m, o)
      \/ StorageError(k)
  BY DEF ReadState
<1> HIDE DEF a, own, o, m
<1>7. o.new = 0 /\ o.phase \notin {"retried", "put"} /\ (o.phase = "second" => lock = k)
  BY <1>1, <1>2, <1>4 DEF Fits, Locked
<1>8. CASE own /\ Go(k, m, [o EXCEPT !.pc = "save"])
  <2> DEFINE q == [o EXCEPT !.pc = "save"]
  <2>1. q \in Op /\ q.pc = "save" /\ q.new = 0 /\ q.phase = o.phase
    BY <1>4, <1>7 DEF Op
  <2>2. Go(k, m, q)
    BY <1>8
  <2> HIDE DEF q
  <2>3. Locked(q) => lock = k
    BY <1>7, <2>1 DEF Locked
  <2>4. Fits(m, q, vSt, saved, Owned[k], Good, Unbought, rt, live)
    BY <1>2, <1>5, <1>7, <1>8, <2>1 DEF Fits, Sound
  <2> QED BY <1>1, <1>5, <2>1, <2>2, <2>3, <2>4, GoInv
<1>9. CASE Continue(k, m, o)
  <2>1. o.phase = "second" =>
            lock = k /\ IF m.pending = 0 THEN m.st \in Good \cup {0} ELSE m.pending \in Owned[k]
    BY <1>2, <1>5, <1>7
  <2> QED BY <1>1, <1>4, <1>5, <1>7, <1>9, <2>1, ContinueInv
<1>10. CASE StorageError(k)
  <2>1. Sound(k, mem[k])
    BY <1>1, MemorySound
  <2> QED BY <1>1, <1>10, <2>1, FinishInv DEF StorageError
<1> QED BY <1>6, <1>8, <1>9, <1>10

LEMMA SaveAccessInv ==
    ASSUME IInv, NEW k \in Gateways, SaveAccess(k)
    PROVE  IInv'
<1>1. PICK told \in BOOLEAN :
          /\ WriteBearer(mem[k].token, told)
          /\ Continue(k, IF told THEN [mem[k] EXCEPT !.acc = mem[k].token] ELSE mem[k], op[k])
  BY DEF SaveAccess
<1> DEFINE m == IF told THEN [mem[k] EXCEPT !.acc = mem[k].token] ELSE mem[k]
<1>2. /\ mem[k] \in Credentials /\ op[k] \in Op
      /\ Fits(mem[k], op[k], vSt, saved, Owned[k], Good, Unbought, rt, live)
      /\ Locked(op[k]) => lock = k
      /\ \A n \in saved \cup {0} : n <= minted
      /\ \A n \in saved \cup {0} \cup Unbought : n \in 0..minted
  BY Midway
<1>3. op[k].pc = "save" /\ mem[k].pending = 0 /\ mem[k].token \in {0} \cup saved \cup Unbought
      /\ mem[k].st \in saved \cup {0} /\ op[k].new = 0
  BY <1>2 DEF SaveAccess, Fits
<1>4. Quiet
  <2>1. /\ UNCHANGED <<minted, rt, live, bought, vSt, saved, desk>>
        /\ vAcc' \in {mem[k].token, vAcc}
    BY <1>1 DEF SaveAccess, WriteBearer, provider
  <2>2. upsets' \in 0..MaxUpsets
    BY <1>1, BoundAssumption DEF WriteBearer, Upset, Calm, IInv, TypeOK
  <2>3. vAcc \in 0..minted /\ vAcc \in {0} \cup saved \cup Unbought
    BY DEF IInv, TypeOK, VaultFits
  <2> QED BY <1>2, <1>3, <2>1, <2>2, <2>3 DEF Quiet
<1>5. m \in Credentials /\ m.pending = 0 /\ m.st = mem[k].st
  BY <1>2, <1>3 DEF Credentials
<1>6. Continue(k, m, op[k])
  BY <1>1
<1> HIDE DEF m
<1>7. Sound(k, m)
  BY <1>3, <1>5 DEF Sound
<1>8. op[k].phase = "second" =>
          lock = k /\ IF m.pending = 0 THEN m.st \in Good \cup {0} ELSE m.pending \in Owned[k]
  BY <1>2, <1>3, <1>5 DEF Fits, Locked
<1>9. op[k].phase = "retried" =>
          /\ lock = k /\ op[k].src \in Good \cup {0} /\ op[k].src <= minted
          /\ op[k].src = IF m.pending = 0 THEN m.st ELSE m.pending
  BY <1>2, <1>3, <1>5 DEF Fits, Locked
<1> QED BY <1>2, <1>3, <1>4, <1>6, <1>7, <1>8, <1>9, ContinueInv

LEMMA AcquireLockInv ==
    ASSUME IInv, NEW k \in Gateways, AcquireLock(k)
    PROVE  IInv'
<1> DEFINE o == [op[k] EXCEPT !.pc = "wst", !.seen = vAcc]
<1>1. Quiet /\ op[k].pc = "lock" /\ mem' = mem /\ ops' = ops
      /\ lock' = IF lock = NoGateway THEN k ELSE lock
  BY QuietRead DEF AcquireLock
<1>2. /\ mem[k] \in Credentials /\ op[k] \in Op /\ vAcc \in Optional
      /\ Fits(mem[k], op[k], vSt, saved, Owned[k], Good, Unbought, rt, live)
  BY Midway
<1>3. o \in Op /\ o.pc = "wst" /\ o.new = op[k].new
  BY <1>2 DEF Op
<1>4. op' = [op EXCEPT ![k] = o]
  BY DEF AcquireLock
<1> HIDE DEF o
<1>5. o.new = 0
  BY <1>1, <1>2, <1>3 DEF Fits
<1>6. Sound(k, mem[k])
  BY <1>1, MemorySound
<1>7. Moves(k, mem[k], o)
  <2>1. mem' = [mem EXCEPT ![k] = mem[k]] /\ ops' \in 0..MaxOps /\ ~Locked(o)
    BY <1>1, <1>3 DEF IInv, TypeOK, Locked
  <2> QED BY <1>1, <1>2, <1>3, <1>4, <2>1 DEF Moves, Quiet
<1>8. Hand(mem[k], o) \subseteq Hands[k]
  BY <1>3, <1>5 DEF Hand, Hands
<1>9. Fits(mem[k], o, vSt, saved, Owned[k], Good, Unbought, rt, live)
  BY <1>3, <1>5, <1>6 DEF Fits, Sound
<1> QED BY <1>1, <1>3, <1>7, <1>8, <1>9, StepInv DEF Quiet

LEMMA RereadStateInv ==
    ASSUME IInv, NEW k \in Gateways, RereadState(k)
    PROVE  IInv'
<1> DEFINE o == [op[k] EXCEPT !.pc = "acc", !.seen = 0]
<1>1. Quiet /\ op[k].pc = "wst"
  BY QuietRead DEF RereadState
<1>2. /\ mem[k] \in Credentials /\ op[k] \in Op /\ 0 \in Optional
      /\ Fits(mem[k], op[k], vSt, saved, Owned[k], Good, Unbought, rt, live)
  BY Midway
<1>3. Sound(k, mem[k]) /\ op[k].new = 0
  BY <1>1, <1>2, MemorySound DEF Fits
<1>4. \/ Go(k, mem[k], [o EXCEPT !.phase = "winner", !.src = op[k].seen])
      \/ lock = k /\ Go(k, mem[k], [o EXCEPT !.phase = "second"])
      \/ StorageError(k)
  BY DEF RereadState
<1>5. ASSUME NEW q \in Op, Go(k, mem[k], q), q.pc = "acc", q.new = 0,
             q.phase = "winner" \/ (q.phase = "second" /\ lock = k)
      PROVE  IInv'
  <2>1. Locked(q) => lock = k
    BY <1>5 DEF Locked
  <2>2. Fits(mem[k], q, vSt, saved, Owned[k], Good, Unbought, rt, live)
    BY <1>3, <1>5 DEF Fits, Sound
  <2> QED BY <1>1, <1>3, <1>5, <2>1, <2>2, GoInv
<1>6. CASE Go(k, mem[k], [o EXCEPT !.phase = "winner", !.src = op[k].seen])
  <2> DEFINE q == [o EXCEPT !.phase = "winner", !.src = op[k].seen]
  <2>1. q \in Op /\ q.pc = "acc" /\ q.new = 0 /\ q.phase = "winner"
    BY <1>2, <1>3 DEF Op, Phases
  <2>2. Go(k, mem[k], q)
    BY <1>6
  <2> HIDE DEF q
  <2> QED BY <1>5, <2>1, <2>2
<1>7. CASE lock = k /\ Go(k, mem[k], [o EXCEPT !.phase = "second"])
  <2> DEFINE q == [o EXCEPT !.phase = "second"]
  <2>1. q \in Op /\ q.pc = "acc" /\ q.new = 0 /\ q.phase = "second"
    BY <1>2, <1>3 DEF Op, Phases
  <2>2. Go(k, mem[k], q)
    BY <1>7
  <2> HIDE DEF q
  <2> QED BY <1>5, <1>7, <2>1, <2>2
<1>8. CASE StorageError(k)
  BY <1>1, <1>3, <1>8, FinishInv DEF StorageError
<1> QED BY <1>4, <1>6, <1>7, <1>8

LEMMA DecideInv ==
    ASSUME IInv, NEW k \in Gateways, Decide(k)
    PROVE  IInv'
<1> DEFINE m == mem[k]
<1>1. Quiet /\ op[k].pc = "decide"
  BY QuietRead DEF Decide
<1>2. /\ m \in Credentials /\ op[k] \in Op /\ 0 \in Optional
      /\ Fits(m, op[k], vSt, saved, Owned[k], Good, Unbought, rt, live)
      /\ Locked(op[k]) => lock = k
      /\ \A n \in saved \cup {0} : n <= minted
  BY Midway
<1>3. Sound(k, m) /\ op[k].new = 0 /\ lock = k
  BY <1>1, <1>2, MemorySound DEF Fits, Locked
<1>4. \/ Finish(k, m)
      \/ m.pending # 0 /\ Go(k, m, [op[k] EXCEPT !.pc = "retry", !.src = m.pending])
      \/ m.pending = 0 /\ Go(k, m, [op[k] EXCEPT !.pc = "exchange", !.src = m.st])
  BY DEF Decide
<1>5. CASE Finish(k, m)
  BY <1>1, <1>3, <1>5, FinishInv
<1>6. CASE m.pending # 0 /\ Go(k, m, [op[k] EXCEPT !.pc = "retry", !.src = m.pending])
  <2> DEFINE q == [op[k] EXCEPT !.pc = "retry", !.src = m.pending]
  <2>1. q \in Op /\ q.pc = "retry" /\ q.new = 0 /\ q.src = m.pending
    BY <1>2, <1>3 DEF Op, Credentials
  <2>2. Go(k, m, q)
    BY <1>6
  <2> HIDE DEF q
  <2>3. Fits(m, q, vSt, saved, Owned[k], Good, Unbought, rt, live)
    BY <1>1, <1>2, <1>3, <1>6, <2>1 DEF Fits, Sound
  <2> QED BY <1>1, <1>3, <2>1, <2>2, <2>3, GoInv
<1>7. CASE m.pending = 0 /\ Go(k, m, [op[k] EXCEPT !.pc = "exchange", !.src = m.st])
  <2> DEFINE q == [op[k] EXCEPT !.pc = "exchange", !.src = m.st]
  <2>1. q \in Op /\ q.pc = "exchange" /\ q.new = 0 /\ q.src = m.st
    BY <1>2, <1>3 DEF Op, Credentials
  <2>2. Go(k, m, q)
    BY <1>7
  <2> HIDE DEF q
  <2>3. Fits(m, q, vSt, saved, Owned[k], Good, Unbought, rt, live)
    BY <1>1, <1>2, <1>3, <1>7, <2>1 DEF Fits, Sound
  <2>4. q.src <= minted
    BY <1>2, <1>3, <2>1 DEF Sound
  <2> QED BY <1>1, <1>3, <2>1, <2>2, <2>3, <2>4, GoInv
<1> QED BY <1>4, <1>5, <1>6, <1>7

LEMMA CrashInv ==
    ASSUME IInv, NEW k \in Gateways, Crash(k)
    PROVE  IInv'
<1>1. Finish(k, Fresh) /\ Quiet
  BY BoundAssumption DEF Crash, Quiet, Upset, provider, vault, IInv, TypeOK, VaultFits
<1>2. Sound(k, Fresh)
  BY BoundAssumption DEF Sound, Fresh, Credentials, Optional
<1> QED BY <1>1, <1>2, FinishInv

LEMMA StoreStepUpBearerInv ==
    ASSUME IInv, NEW k \in Gateways, StoreStepUpBearer(k)
    PROVE  IInv'
<1>1. op[k].pc = "uacc" /\ UNCHANGED <<minted, rt, live, bought, vSt, saved, desk>>
      /\ vAcc' \in {op[k].src, vAcc}
  BY DEF StoreStepUpBearer, WriteBearer, provider
<1>2. /\ mem[k] \in Credentials /\ op[k] \in Op /\ 0 \in Optional
      /\ Fits(mem[k], op[k], vSt, saved, Owned[k], Good, Unbought, rt, live)
      /\ \A n \in saved \cup {0} \cup Unbought : n \in 0..minted
  BY Midway
<1>3. Sound(k, mem[k]) /\ op[k].new = 0 /\ op[k].src \in saved /\ op[k].phase = "winner"
  BY <1>1, <1>2, MemorySound DEF Fits
<1>4. Quiet
  <2>1. upsets' \in 0..MaxUpsets
    BY BoundAssumption DEF StoreStepUpBearer, WriteBearer, Upset, Calm, IInv, TypeOK
  <2>2. vAcc \in 0..minted /\ vAcc \in {0} \cup saved \cup Unbought
    BY DEF IInv, TypeOK, VaultFits
  <2> QED BY <1>1, <1>2, <1>3, <2>1, <2>2 DEF Quiet
<1>5. CASE Go(k, [mem[k] EXCEPT !.pending = 0], [op[k] EXCEPT !.pc = "acc"])
  <2> DEFINE m == [mem[k] EXCEPT !.pending = 0]
  <2> DEFINE q == [op[k] EXCEPT !.pc = "acc"]
  <2>1. m \in Credentials /\ m.pending = 0 /\ m.st = mem[k].st
    BY <1>2 DEF Credentials
  <2>2. q \in Op /\ q.pc = "acc" /\ q.new = 0 /\ q.phase = "winner"
    BY <1>2, <1>3 DEF Op
  <2>3. Go(k, m, q)
    BY <1>5
  <2> HIDE DEF m, q
  <2>4. Sound(k, m) /\ ~Locked(q)
    BY <1>3, <2>1, <2>2 DEF Sound, Locked
  <2>5. Fits(m, q, vSt, saved, Owned[k], Good, Unbought, rt, live)
    BY <2>1, <2>2, <2>4 DEF Fits, Sound
  <2> QED BY <1>4, <2>2, <2>3, <2>4, <2>5, GoInv
<1>6. CASE Finish(k, mem[k])
  BY <1>3, <1>4, <1>6, FinishInv
<1> QED BY <1>5, <1>6 DEF StoreStepUpBearer

-----------------------------------------------------------------------------
(* Steps of a gateway that store a state.                                  *)

\* The grant w is one that gateway k may store.
Writable(k, w) ==
    /\ w \in Hands[k] /\ w \notin saved /\ w # 0
    /\ lock = k \/ w \in Unbought
    /\ rt[w] = 0 \/ rt[w] \in live \/ w \in Owned[k]

\* Its state is in the vault.
Written(w) ==
    /\ UNCHANGED <<minted, rt, live, bought, desk, vAcc>>
    /\ upsets' \in 0..MaxUpsets
    /\ vSt' = w /\ saved' = saved \cup {w}

\* A write succeeds, has been done although it reported a failure, or has failed.
LEMMA WriteOutcome ==
    ASSUME IInv, NEW w, w # 0, NEW told \in BOOLEAN, WriteState(w, told), UNCHANGED <<provider, desk>>
    PROVE  Written(w) \/ (~told /\ Quiet)
<1>1. upsets' \in 0..MaxUpsets /\ UNCHANGED <<minted, rt, live, bought, desk, vAcc>>
  BY BoundAssumption DEF WriteState, Upset, Calm, provider, IInv, TypeOK
<1>2. CASE vSt' = w
  BY <1>1, <1>2 DEF WriteState, Written
<1>3. CASE ~told /\ vSt' = vSt
  <2>1. saved' = saved
    BY <1>3 DEF WriteState, IInv, VaultFits
  <2> QED BY <1>1, <1>3, <2>1 DEF Quiet, IInv, TypeOK, VaultFits
<1> QED BY <1>2, <1>3 DEF WriteState

LEMMA WriteFinishInv ==
    ASSUME IInv, NEW k \in Gateways, NEW w, Writable(k, w), Written(w),
           NEW m \in Credentials, Finish(k, m),
           m.st \in saved \cup {0}, m.pending # 0 => m.pending \in Hands[k] /\ m.st # 0
    PROVE  IInv'
<1>1. Moves(k, m, Idle)
  BY FinishMoves DEF Written
<1>2. Idle.pc = "idle" /\ Idle.new = 0 /\ Idle.phase = "look"
  BY DEF Idle
<1>3. Hand(m, Idle) \subseteq Hands[k]
  BY <1>2 DEF Hand
<1>4. Fits(m, Idle, w, saved \cup {w}, {}, {w}, Unbought, rt, live)
  BY <1>2 DEF Fits, Writable
<1> QED BY <1>1, <1>2, <1>3, <1>4, WriteInv DEF Writable, Written

LEMMA WriteGoInv ==
    ASSUME IInv, NEW k \in Gateways, NEW w, Writable(k, w), Written(w),
           NEW m \in Credentials, NEW o \in Op, Go(k, m, o),
           Locked(o) => lock = k, o.pc \notin {"idle", "put", "ustate"}, o.new = 0,
           m.pending # 0 => m.pending \in Hands[k],
           Fits(m, o, w, saved \cup {w}, {}, {w}, Unbought, rt, live),
           o.pc = "exchange" => o.src <= minted
    PROVE  IInv'
<1>1. Moves(k, m, o)
  BY GoMoves DEF Written
<1>2. Hand(m, o) \subseteq Hands[k]
  BY DEF Hand
<1> QED BY <1>1, <1>2, WriteInv DEF Writable, Written

\* The pending rotation is stored again.
LEMMA RetrySaveInv ==
    ASSUME IInv, NEW k \in Gateways, RetrySave(k)
    PROVE  IInv'
<1> DEFINE p == op[k].src
<1>1. /\ mem[k] \in Credentials /\ op[k] \in Op /\ 0 \in Optional
      /\ Fits(mem[k], op[k], vSt, saved, Owned[k], Good, Unbought, rt, live)
      /\ Locked(op[k]) => lock = k
  BY Midway
<1>2. op[k].pc = "retry" /\ UNCHANGED <<provider, desk>>
  BY DEF RetrySave
<1>3. lock = k /\ p = mem[k].pending /\ p \in Owned[k] /\ op[k].new = 0
      /\ mem[k].st \in saved \cup {0} /\ (p # 0 => mem[k].st # 0)
  BY <1>1, <1>2 DEF Fits, Locked
<1>4. p \in Grants /\ p # 0 /\ p \notin saved /\ p \in Good
  <2>1. p \in Grants /\ p # 0 /\ p \notin saved
    BY <1>3, BoundAssumption DEF Owned, Grants
  <2> QED BY <1>3, <2>1 DEF Owned, Good
<1>5. p \in Hands[k] /\ p <= minted
  <2>1. p \in Hands[k] /\ Hands[k] \subseteq 1..minted /\ minted \in Nat
    BY <1>3, <1>4, Now DEF Hands, Hand
  <2> QED BY <2>1
<1>6. Writable(k, p)
  BY <1>3, <1>4, <1>5 DEF Writable
<1>7. CASE /\ WriteState(p, TRUE)
           /\ Go(k, [mem[k] EXCEPT !.st = p, !.pending = 0, !.token = p],
                    [op[k] EXCEPT !.pc = "save", !.phase = "retried"])
  <2> DEFINE m == [mem[k] EXCEPT !.st = p, !.pending = 0, !.token = p]
  <2> DEFINE o == [op[k] EXCEPT !.pc = "save", !.phase = "retried"]
  <2>1. m \in Credentials /\ m.st = p /\ m.pending = 0 /\ m.token = p
    BY <1>1 DEF Credentials, Op
  <2>2. o \in Op /\ o.pc = "save" /\ o.phase = "retried" /\ o.src = p /\ o.new = 0
    BY <1>1, <1>3 DEF Op, Phases
  <2>3. Written(p)
    BY <1>2, <1>4, <1>7, WriteOutcome
  <2>4. Go(k, m, o)
    BY <1>7
  <2> HIDE DEF m, o, p
  <2>5. Fits(m, o, p, saved \cup {p}, {}, {p}, Unbought, rt, live)
    BY <2>1, <2>2, <1>4 DEF Fits
  <2> QED BY <1>3, <1>6, <2>1, <2>2, <2>3, <2>4, <2>5, WriteGoInv
<1>8. CASE /\ WriteState(p, FALSE)
           /\ Continue(k, mem[k], [op[k] EXCEPT !.phase = "retried"])
  <2> DEFINE o == [op[k] EXCEPT !.phase = "retried"]
  <2>1. o \in Op /\ o.phase = "retried" /\ o.src = p /\ o.new = 0
    BY <1>1, <1>3 DEF Op, Phases
  <2>2. Continue(k, mem[k], o)
    BY <1>8
  <2>3. Written(p) \/ Quiet
    BY <1>2, <1>4, <1>8, WriteOutcome
  <2> HIDE DEF o, p
  <2>4. CASE Quiet
    <3>1. Sound(k, mem[k])
      BY <1>2, MemorySound
    <3>2. /\ lock = k /\ o.src \in Good \cup {0} /\ o.src <= minted
          /\ o.src = IF mem[k].pending = 0 THEN mem[k].st ELSE mem[k].pending
      BY <1>3, <1>4, <1>5, <2>1
    <3> QED BY <2>1, <2>2, <2>4, <3>1, <3>2, ContinueInv
  <2>5. CASE Written(p)
    <3>1. \/ Finish(k, mem[k]) \/ Go(k, mem[k], [o EXCEPT !.pc = "exchange"])
      BY <2>1, <2>2 DEF Continue
    <3>2. CASE Finish(k, mem[k])
      BY <1>1, <1>3, <1>4, <1>5, <1>6, <2>5, <3>2, WriteFinishInv
    <3>3. CASE Go(k, mem[k], [o EXCEPT !.pc = "exchange"])
      <4> DEFINE q == [o EXCEPT !.pc = "exchange"]
      <4>1. q \in Op /\ q.pc = "exchange" /\ q.new = 0 /\ q.src = p
        BY <2>1 DEF Op
      <4>2. Go(k, mem[k], q)
        BY <3>3
      <4> HIDE DEF q
      <4>3. Fits(mem[k], q, p, saved \cup {p}, {}, {p}, Unbought, rt, live)
        BY <1>3, <1>4, <4>1 DEF Fits
      <4> QED BY <1>1, <1>3, <1>5, <1>6, <2>5, <4>1, <4>2, <4>3, WriteGoInv
    <3> QED BY <3>1, <3>2, <3>3
  <2> QED BY <2>3, <2>4, <2>5
<1> QED BY <1>7, <1>8 DEF RetrySave

\* The grant of an exchange is stored, or kept in memory if it was rotated.
LEMMA PutInv ==
    ASSUME IInv, NEW k \in Gateways, Put(k)
    PROVE  IInv'
<1> DEFINE n == op[k].new
<1> DEFINE o == [op[k] EXCEPT !.pc = "save", !.phase = "put", !.new = 0]
<1> DEFINE m == [mem[k] EXCEPT !.token = n]
<1> DEFINE rotated == rt[n] # rt[op[k].src]
<1>1. /\ mem[k] \in Credentials /\ op[k] \in Op /\ 0 \in Optional
      /\ Fits(mem[k], op[k], vSt, saved, Owned[k], Good, Unbought, rt, live)
      /\ Locked(op[k]) => lock = k
  BY Midway
<1>2. op[k].pc = "put" /\ UNCHANGED <<provider, desk>>
  BY DEF Put
<1>3. /\ lock = k /\ n # 0 /\ n \notin saved /\ rt[n] \in live /\ mem[k].st # 0
      /\ mem[k].st \in saved \cup {0}
      /\ IF rotated THEN n \in Owned[k]
         ELSE n \in Unbought /\ (mem[k].pending # 0 => mem[k].st # vSt \/ n \in Owned[k])
  BY <1>1, <1>2 DEF Fits, Locked
<1>4. n \in Hands[k] /\ (mem[k].pending # 0 => mem[k].pending \in Hands[k])
  BY <1>3 DEF Hands, Hand
<1>5. Writable(k, n)
  BY <1>3, <1>4 DEF Writable
<1>6. m \in Credentials /\ m.st = mem[k].st /\ m.pending = mem[k].pending /\ m.token = n
  BY <1>1 DEF Credentials, Op
<1>7. o \in Op /\ o.pc = "save" /\ o.phase = "put" /\ o.new = 0
  BY <1>1 DEF Op, Phases
<1>8. n \in Optional
  BY <1>1 DEF Op
<1>9. \/ WriteState(n, TRUE) /\ Go(k, [m EXCEPT !.st = n, !.pending = 0], o)
      \/ WriteState(n, FALSE) /\ (rotated \/ m.pending # 0) /\ Finish(k, [m EXCEPT !.pending = n])
      \/ WriteState(n, FALSE) /\ ~(rotated \/ m.pending # 0) /\ Go(k, m, o)
  BY DEF Put
<1> HIDE DEF n, o, m, rotated
<1>10. CASE WriteState(n, TRUE) /\ Go(k, [m EXCEPT !.st = n, !.pending = 0], o)
  <2> DEFINE q == [m EXCEPT !.st = n, !.pending = 0]
  <2>1. q \in Credentials /\ q.st = n /\ q.pending = 0 /\ q.token = n
    BY <1>1, <1>6, <1>8 DEF Credentials
  <2>2. Go(k, q, o)
    BY <1>10
  <2>3. Written(n)
    BY <1>2, <1>3, <1>10, WriteOutcome
  <2> HIDE DEF q
  <2>4. Fits(q, o, n, saved \cup {n}, {}, {n}, Unbought, rt, live)
    BY <1>7, <2>1 DEF Fits
  <2> QED BY <1>3, <1>5, <1>7, <2>1, <2>2, <2>3, <2>4, WriteGoInv
<1>11. CASE WriteState(n, FALSE) /\ (rotated \/ m.pending # 0) /\ Finish(k, [m EXCEPT !.pending = n])
  <2> DEFINE q == [m EXCEPT !.pending = n]
  <2>1. q \in Credentials /\ q.st = mem[k].st /\ q.pending = n
    BY <1>1, <1>6, <1>8 DEF Credentials
  <2>2. Finish(k, q)
    BY <1>11
  <2>3. Written(n) \/ Quiet
    BY <1>2, <1>3, <1>11, WriteOutcome
  <2> HIDE DEF q
  <2>4. CASE Written(n)
    BY <1>3, <1>4, <1>5, <2>1, <2>2, <2>4, WriteFinishInv
  <2>5. CASE Quiet
    <3>1. Moves(k, q, Idle)
      BY <2>1, <2>2, <2>5, FinishMoves DEF Quiet
    <3>2. Idle.pc = "idle" /\ Idle.new = 0 /\ Idle.phase = "look"
      BY DEF Idle
    <3>3. Hand(q, Idle) \subseteq Hands[k]
      BY <1>4, <2>1, <3>2 DEF Hand
    <3>4. mem[k].st # vSt \/ n \in Owned[k]
      BY <1>3, <1>6, <1>11
    <3>5. Fits(q, Idle, vSt, saved, Owned[k], Good, Unbought, rt, live)
      BY <1>3, <2>1, <3>2, <3>4 DEF Fits
    <3> QED BY <2>5, <3>1, <3>2, <3>3, <3>5, StepInv DEF Quiet
  <2> QED BY <2>3, <2>4, <2>5
<1>12. CASE WriteState(n, FALSE) /\ ~(rotated \/ m.pending # 0) /\ Go(k, m, o)
  <2>1. m.pending = 0 /\ n \in Unbought
    BY <1>3, <1>12
  <2>2. Written(n) \/ Quiet
    BY <1>2, <1>3, <1>12, WriteOutcome
  <2>3. CASE Written(n)
    <3>1. Fits(m, o, n, saved \cup {n}, {}, {n}, Unbought, rt, live)
      BY <1>3, <1>6, <1>7, <2>1 DEF Fits
    <3> QED BY <1>3, <1>5, <1>6, <1>7, <1>12, <2>1, <2>3, <3>1, WriteGoInv
  <2>4. CASE Quiet
    <3>1. Sound(k, m)
      BY <1>3, <1>6, <2>1 DEF Sound
    <3>2. Fits(m, o, vSt, saved, Owned[k], Good, Unbought, rt, live)
      BY <1>6, <1>7, <2>1, <3>1 DEF Fits, Sound
    <3> QED BY <1>3, <1>7, <1>12, <2>4, <3>1, <3>2, GoInv
  <2> QED BY <2>2, <2>3, <2>4
<1> QED BY <1>9, <1>10, <1>11, <1>12

LEMMA StoreStepUpStateInv ==
    ASSUME IInv, NEW k \in Gateways, StoreStepUpState(k)
    PROVE  IInv'
<1> DEFINE n == op[k].src
<1>1. /\ mem[k] \in Credentials /\ op[k] \in Op
      /\ Fits(mem[k], op[k], vSt, saved, Owned[k], Good, Unbought, rt, live)
  BY Midway
<1>2. op[k].pc = "ustate" /\ UNCHANGED <<provider, desk>>
  BY DEF StoreStepUpState
<1>3. /\ n \in Unbought /\ n \notin saved /\ (rt[n] = 0 \/ n \in Owned[k])
      /\ op[k].phase = "winner" /\ op[k].new = 0 /\ Sound(k, mem[k])
  BY <1>1, <1>2, MemorySound DEF Fits
<1>4. n # 0
  BY <1>3 DEF Unbought
<1>5. n \in Hands[k] /\ (mem[k].pending # 0 => mem[k].pending \in Hands[k])
  BY <1>2, <1>4 DEF Hands, Hand
<1>6. Writable(k, n)
  BY <1>3, <1>4, <1>5 DEF Writable
<1>7. mem[k].st \in saved \cup {0} /\ (mem[k].pending # 0 => mem[k].st # 0)
  BY <1>3 DEF Sound
<1>8. CASE WriteState(n, TRUE) /\ Go(k, mem[k], [op[k] EXCEPT !.pc = "uacc"])
  <2> DEFINE q == [op[k] EXCEPT !.pc = "uacc"]
  <2>1. q \in Op /\ q.pc = "uacc" /\ q.src = n /\ q.new = 0 /\ q.phase = "winner"
    BY <1>1, <1>3 DEF Op
  <2>2. Go(k, mem[k], q)
    BY <1>8
  <2>3. Written(n)
    BY <1>2, <1>4, <1>8, WriteOutcome
  <2> HIDE DEF q, n
  <2>4. Fits(mem[k], q, n, saved \cup {n}, {}, {n}, Unbought, rt, live)
    BY <1>3, <1>7, <2>1 DEF Fits
  <2>5. ~Locked(q)
    BY <2>1 DEF Locked
  <2> QED BY <1>1, <1>5, <1>6, <2>1, <2>2, <2>3, <2>4, <2>5, WriteGoInv
<1>9. CASE WriteState(n, FALSE) /\ Finish(k, mem[k])
  <2>1. Written(n) \/ Quiet
    BY <1>2, <1>4, <1>9, WriteOutcome
  <2>2. CASE Written(n)
    BY <1>1, <1>5, <1>6, <1>7, <1>9, <2>2, WriteFinishInv
  <2>3. CASE Quiet
    BY <1>3, <1>9, <2>3, FinishInv
  <2> QED BY <2>1, <2>2, <2>3
<1> QED BY <1>8, <1>9 DEF StoreStepUpState

-----------------------------------------------------------------------------
(* Steps that make a grant.                                                *)

LEMMA IssueMints ==
    ASSUME IInv, NEW r, Issue(r)
    PROVE  /\ Mints(r) /\ r \in live /\ rt'[minted'] \in live'
           /\ \/ rt'[minted'] = minted'
              \/ rt'[minted'] = r /\ bought' = bought
<1>1. /\ minted \in 1..MaxGrants /\ MaxGrants \in Nat /\ live \subseteq 1..minted
      /\ rt \in [Grants -> Optional] /\ r \in live /\ minted < MaxGrants /\ minted' = minted + 1
  BY BoundAssumption DEF IInv, TypeOK, Numbered, Issue, Grants
<1>2. minted' \in Grants /\ r \in 0..minted
  BY <1>1 DEF Grants
<1>3. CASE /\ rt' = [rt EXCEPT ![minted'] = minted'] /\ live' = (live \ {r}) \cup {minted'}
           /\ bought' = [bought EXCEPT ![r] = minted']
  BY <1>1, <1>2, <1>3 DEF Mints
<1>4. CASE rt' = [rt EXCEPT ![minted'] = r] /\ UNCHANGED <<live, bought>>
  BY <1>1, <1>2, <1>4 DEF Mints
<1> QED BY <1>3, <1>4 DEF Issue

LEMMA GrantMints ==
    ASSUME IInv, Grant
    PROVE  Mints(0) /\ bought' = bought /\ live \subseteq live'
           /\ (rt'[minted'] = 0 \/ (rt'[minted'] = minted' /\ minted' \in live'))
<1>1. /\ minted \in 1..MaxGrants /\ MaxGrants \in Nat /\ bought' = bought
      /\ rt \in [Grants -> Optional] /\ minted < MaxGrants /\ minted' = minted + 1
      /\ \A n \in Grants : n > minted => rt[n] = 0
  BY BoundAssumption DEF IInv, TypeOK, Numbered, Grant, Grants
<1>2. minted' \in Grants /\ 0 \in 0..minted
  BY <1>1 DEF Grants
<1>3. CASE rt' = [rt EXCEPT ![minted'] = minted'] /\ live' = live \cup {minted'}
  BY <1>1, <1>2, <1>3 DEF Mints
<1>4. CASE UNCHANGED <<rt, live>>
  <2>1. rt[minted'] = 0
    BY <1>1, <1>2
  <2>2. rt' = [rt EXCEPT ![minted'] = 0]
    BY <1>1, <1>2, <1>4, <2>1
  <2> QED BY <1>1, <1>2, <1>4, <2>1, <2>2 DEF Mints
<1> QED BY <1>3, <1>4 DEF Grant

\* The token that gateway k presents is nobody else's own.
LEMMA PresentedIsNotOwned ==
    ASSUME IInv, NEW k \in Gateways, op[k].pc = "exchange", op[k].src # 0,
           NEW h \in Gateways \ {k}, NEW n \in Owned[h]
    PROVE  rt[n] # rt[op[k].src]
<1>1. /\ op[k].src = IF mem[k].pending = 0 THEN mem[k].st ELSE mem[k].pending
      /\ mem[k].st \in saved \cup {0}
  BY DEF IInv, FitsNow, Fits
<1>2. op[k].src \in saved \/ op[k].src \in Hands[k]
  BY <1>1 DEF Hands, Hand
<1> QED BY <1>2 DEF Owned

LEMMA ExchangeInv ==
    ASSUME IInv, NEW k \in Gateways, Exchange(k)
    PROVE  IInv'
<1> DEFINE r == IF op[k].src = 0 THEN 0 ELSE rt[op[k].src]
<1>1. /\ mem[k] \in Credentials /\ op[k] \in Op
      /\ Fits(mem[k], op[k], vSt, saved, Owned[k], Good, Unbought, rt, live)
      /\ Locked(op[k]) => lock = k
  BY Midway
<1>2. op[k].pc = "exchange" /\ UNCHANGED <<vAcc, vSt, saved, desk>>
  BY DEF Exchange, vault
<1>3. Sound(k, mem[k]) /\ lock = k /\ op[k].new = 0
      /\ op[k].src = IF mem[k].pending = 0 THEN mem[k].st ELSE mem[k].pending
  BY <1>1, <1>2, MemorySound DEF Fits, Locked
<1>4. upsets' \in 0..MaxUpsets
  BY BoundAssumption DEF Exchange, Calm, Upset, IInv, TypeOK
<1>5. CASE UNCHANGED provider /\ Finish(k, mem[k])
  <2>1. Quiet
    BY <1>2, <1>4, <1>5 DEF Quiet, provider, IInv, TypeOK, VaultFits
  <2> QED BY <1>3, <1>5, <2>1, FinishInv
<1>6. ASSUME Issue(r)
      PROVE  /\ Mints(r) /\ op[k].src # 0 /\ r = rt[op[k].src]
             /\ \A h \in Gateways \ {k} : \A n \in Owned[h] : rt[n] # r
             /\ op[k].src \in Grants /\ op[k].src <= minted
             /\ minted \in 1..MaxGrants /\ minted' = minted + 1
  <2>1. Mints(r) /\ r \in live /\ 0 \notin live
    BY <1>6, IssueMints, BoundAssumption DEF IInv, TypeOK, Grants
  <2>2. op[k].src # 0 /\ r = rt[op[k].src]
    BY <2>1
  <2>3. op[k].src <= minted /\ op[k].src \in Grants /\ minted \in 1..MaxGrants
    BY <1>1, <1>2, <2>2, BoundAssumption DEF IInv, Numbered, Op, Optional, Grants, TypeOK
  <2>4. minted' = minted + 1
    BY <2>1 DEF Mints
  <2> QED BY <1>2, <2>1, <2>2, <2>3, <2>4, PresentedIsNotOwned
<1>7. CASE Issue(r) /\ Finish(k, mem[k])
  <2>1. Moves(k, mem[k], Idle)
    BY <1>1, <1>4, <1>7, FinishMoves
  <2>2. Idle.pc = "idle" /\ Idle.new = 0 /\ Idle.phase = "look"
    BY DEF Idle
  <2>3. Hand(mem[k], Idle) \subseteq Hands[k]
    BY <2>2 DEF Hand, Hands
  <2>4. \A h \in Gateways : Hands'[h] \subseteq Hands[h]
    BY <2>1, <2>3, MovesFacts
  <2>5. ASSUME NEW n \in Owned[k] PROVE n \in Owned'[k]
    <3>1. /\ saved' = saved /\ saved' \in {saved, saved \cup {minted'}}
          /\ \A h \in Gateways : Hands'[h] \subseteq Hands[h] \cup {minted'}
      BY <1>2, <2>4
    <3> QED BY <1>6, <1>7, <2>4, <2>5, <3>1, MintOwned
  <2>6. Fits(mem[k], Idle, vSt, saved, Owned'[k], Good', Unbought', rt', live')
    BY <1>3, <2>2, <2>5 DEF Fits, Sound
  <2> HIDE DEF r
  <2> QED BY <1>2, <1>3, <1>6, <1>7, <2>1, <2>2, <2>3, <2>6, MintInv
<1>8. CASE Issue(r) /\ Go(k, mem[k], [op[k] EXCEPT !.pc = "put", !.new = minted'])
  <2> DEFINE o == [op[k] EXCEPT !.pc = "put", !.new = minted']
  <2>1. /\ Mints(r) /\ op[k].src # 0 /\ r = rt[op[k].src] /\ r \in live
        /\ \A h \in Gateways \ {k} : \A n \in Owned[h] : rt[n] # r
        /\ op[k].src \in Grants /\ op[k].src <= minted
        /\ minted \in 1..MaxGrants /\ minted' = minted + 1
        /\ rt'[minted'] \in live'
        /\ \/ rt'[minted'] = minted'
           \/ rt'[minted'] = r /\ bought' = bought
    BY <1>6, <1>8, IssueMints
  <2> HIDE DEF r
  <2>2. /\ MaxGrants \in Nat /\ minted' \notin saved /\ minted' \in Grants /\ minted' \in Optional
        /\ \A n \in Grants : n <= minted => rt'[n] = rt[n]
    BY <2>1, MintFacts DEF Grants, Optional
  <2>3. /\ o \in Op /\ o.pc = "put" /\ o.new = minted' /\ o.src = op[k].src
    BY <1>1, <2>2 DEF Op
  <2>4. Go(k, mem[k], o)
    BY <1>8
  <2> HIDE DEF o
  <2>5. Moves(k, mem[k], o)
    BY <1>1, <1>3, <1>4, <2>3, <2>4, GoMoves
  <2>6. minted' # 0 /\ op[k].src <= minted'
    BY <2>1, <2>3 DEF Grants
  <2>7. Hand(mem[k], o) \subseteq Hands[k] \cup {minted'}
    BY <2>3 DEF Hand, Hands
  <2>8. \A h \in Gateways : Hands'[h] \subseteq Hands[h] \cup {minted'}
    BY <2>5, <2>7, MovesFacts
  <2>9. \A h \in Gateways \ {k} : Hands'[h] = Hands[h]
    BY <2>5, MovesFacts
  <2>10. rt'[op[k].src] = r
    BY <2>1, <2>2
  <2>11. ASSUME rt'[minted'] # r PROVE minted' \in Owned'[k]
    <3>1. rt'[minted'] = minted'
      BY <2>1, <2>11
    <3>2. ASSUME NEW z \in 1..minted PROVE rt'[z] # minted'
      <4>1. z \in Grants /\ rt[z] <= minted /\ rt'[z] = rt[z] /\ rt[z] \in Nat
        <5>1. z \in Grants /\ z <= minted
          BY <2>1, <2>2 DEF Grants
        <5>2. rt[z] <= minted /\ rt[z] \in Optional
          BY <5>1 DEF IInv, Numbered, TypeOK
        <5> QED BY <2>2, <5>1, <5>2 DEF Optional
      <4> QED BY <2>1, <4>1
    <3>3. saved' \subseteq 1..minted /\ \A h \in Gateways \ {k} : Hands'[h] \subseteq 1..minted
      BY <1>2, <2>9 DEF IInv, Numbered
    <3> QED BY <2>1, <2>2, <2>6, <3>1, <3>2, <3>3 DEF Owned
  <2>12. ASSUME rt'[minted'] = r
         PROVE  minted' \in Unbought' /\ (mem[k].pending # 0 => mem[k].st # vSt \/ minted' \in Owned'[k])
    <3>1. r # minted' /\ bought' = bought
      <4>1. r \in Nat /\ r <= minted
        BY <2>1 DEF Mints
      <4> QED BY <2>1, <2>12, <4>1
    <3>2. minted' \in Unbought'
      BY <1>2, <2>1, <3>1, MintGood
    <3>3. ASSUME mem[k].pending # 0, mem[k].st = vSt PROVE minted' \in Owned'[k]
      <4>1. op[k].src \in Owned[k]
        BY <1>1, <1>2, <1>3, <3>3 DEF Fits
      <4>2. /\ r # 0 /\ \A z \in saved : rt[z] # r
            /\ \A h \in Gateways \ {k} : \A b \in Hands[h] : rt[b] # r
        BY <2>1, <4>1 DEF Owned
      <4>3. ASSUME NEW z \in 1..minted PROVE rt'[z] = rt[z]
        BY <2>1, <2>2 DEF Grants
      <4>4. saved \subseteq 1..minted /\ \A h \in Gateways : Hands[h] \subseteq 1..minted
        BY DEF IInv, Numbered
      <4>5. /\ \A z \in saved' : rt'[z] # r
            /\ \A h \in Gateways \ {k} : \A b \in Hands'[h] : rt'[b] # r
        BY <1>2, <2>9, <4>2, <4>3, <4>4
      <4> QED BY <2>1, <2>2, <2>12, <4>2, <4>5 DEF Owned
    <3> QED BY <3>2, <3>3
  <2>13. mem[k].st # 0 /\ mem[k].st \in saved \cup {0}
    BY <1>3, <2>1 DEF Sound
  <2>14. Fits(mem[k], o, vSt, saved, Owned'[k], Good', Unbought', rt', live')
    BY <2>1, <2>2, <2>3, <2>6, <2>10, <2>11, <2>12, <2>13 DEF Fits
  <2> QED BY <1>2, <1>3, <2>1, <2>3, <2>5, <2>6, <2>7, <2>14, MintInv
<1> QED BY <1>5, <1>7, <1>8 DEF Exchange

LEMMA StepUpInv ==
    ASSUME IInv, NEW k \in Gateways, StepUp(k)
    PROVE  IInv'
<1> DEFINE o == [Idle EXCEPT !.pc = "ustate", !.phase = "winner", !.force = TRUE, !.src = minted']
<1>1. /\ Grant /\ op[k].pc = "idle" /\ ops < MaxOps /\ ops' = ops + 1 /\ op' = [op EXCEPT ![k] = o]
      /\ mem' = mem /\ lock' = lock /\ UNCHANGED <<vAcc, vSt, saved, desk>>
  BY DEF StepUp, Start, vault
<1>2. Mints(0) /\ bought' = bought /\ live \subseteq live'
      /\ (rt'[minted'] = 0 \/ (rt'[minted'] = minted' /\ minted' \in live'))
  BY <1>1, GrantMints
<1>3. /\ mem[k] \in Credentials /\ 0 \in Optional
      /\ op[k].pc = "idle" => lock # k
  BY Midway
<1>4. /\ minted \in 1..MaxGrants /\ MaxGrants \in Nat /\ minted' \notin saved /\ minted' \in Grants
      /\ minted' = minted + 1 /\ \A n \in Grants : n <= minted => rt'[n] = rt[n]
  BY <1>2, MintFacts
<1>5. minted' \in Optional /\ minted' # 0 /\ minted' \in Nat
  BY <1>4 DEF Grants, Optional
<1>6. o \in Op /\ o.pc = "ustate" /\ o.phase = "winner" /\ o.new = 0 /\ o.src = minted'
  BY <1>3, <1>5 DEF Idle, Op, Phases
<1> HIDE DEF o
<1>7. Moves(k, mem[k], o)
  <2>1. mem' = [mem EXCEPT ![k] = mem[k]] /\ ~Locked(o)
    BY <1>1, <1>6 DEF IInv, TypeOK, Locked
  <2>2. ops' \in 0..MaxOps /\ upsets' \in 0..MaxUpsets
    BY <1>1, BoundAssumption DEF StepUp, Upset, IInv, TypeOK
  <2> QED BY <1>1, <1>3, <1>6, <2>1, <2>2 DEF Moves
<1>8. Hand(mem[k], o) \subseteq Hands[k] \cup {minted'}
  BY <1>6 DEF Hand, Hands
<1>9. /\ \A h \in Gateways : Hands'[h] \subseteq Hands[h] \cup {minted'}
      /\ \A h \in Gateways \ {k} : Hands'[h] = Hands[h]
  BY <1>7, <1>8, MovesFacts
<1>10. \A h \in Gateways : \A n \in Owned[h] : rt[n] # 0
  BY DEF Owned
<1>11. ASSUME NEW n \in Owned[k] PROVE n \in Owned'[k]
  BY <1>1, <1>2, <1>9, <1>10, <1>11, MintOwned
<1>12. minted' \in Unbought'
  BY <1>1, <1>2, MintGood
<1>13. ASSUME rt'[minted'] # 0 PROVE minted' \in Owned'[k]
  <2>1. ASSUME NEW z \in 1..minted PROVE rt'[z] # minted'
    <3>1. z \in Grants /\ rt[z] <= minted /\ rt'[z] = rt[z] /\ rt[z] \in Nat
      BY <1>4 DEF IInv, Numbered, TypeOK, Grants, Optional
    <3> QED BY <1>4, <3>1
  <2>2. saved' \subseteq 1..minted /\ \A h \in Gateways \ {k} : Hands'[h] \subseteq 1..minted
    BY <1>1, <1>9 DEF IInv, Numbered
  <2> QED BY <1>2, <1>4, <1>5, <1>13, <2>1, <2>2 DEF Owned
<1>14. Sound(k, mem[k])
  BY <1>1, MemorySound
<1>15. Fits(mem[k], o, vSt, saved, Owned'[k], Good', Unbought', rt', live')
  BY <1>4, <1>6, <1>11, <1>12, <1>13, <1>14 DEF Fits, Sound
<1>16. o.src <= minted'
  BY <1>5, <1>6
<1> QED BY <1>1, <1>2, <1>7, <1>8, <1>10, <1>15, <1>16, MintInv

LEMMA SignInInv ==
    ASSUME IInv, SignIn \/ SetAuthToken
    PROVE  IInv'
<1>1. upsets' \in 0..MaxUpsets
  BY BoundAssumption DEF SignIn, SetAuthToken, Upset, IInv, TypeOK
<1>2. CASE SignIn
  <2>1. Mints(0) /\ bought' = bought /\ live \subseteq live'
    BY <1>2, GrantMints DEF SignIn
  <2> QED BY <1>1, <1>2, <2>1, DeskInv DEF SignIn
<1>3. CASE SetAuthToken
  <2>1. Grant
    BY <1>3 DEF SetAuthToken, Grant
  <2>2. Mints(0) /\ bought' = bought /\ live \subseteq live'
    BY <2>1, GrantMints
  <2> QED BY <1>1, <1>3, <2>2, DeskInv DEF SetAuthToken
<1> QED BY <1>2, <1>3

-----------------------------------------------------------------------------
(* Theorems.                                                               *)

LEMMA InitInv == Init => IInv
<1> SUFFICES ASSUME Init PROVE IInv
  OBVIOUS
<1>1. /\ minted = 1 /\ vAcc = 1 /\ vSt = 1 /\ saved = {1} /\ live = {1} /\ desk = <<>>
      /\ lock = NoGateway /\ ops = 0 /\ upsets = 0 /\ MaxGrants \in Nat \ {0}
      /\ MaxOps \in Nat /\ MaxUpsets \in Nat
      /\ mem = [g \in Gateways |-> Fresh] /\ op = [g \in Gateways |-> Idle]
      /\ rt = [n \in Grants |-> IF n = 1 THEN 1 ELSE 0] /\ bought = [n \in Grants |-> 0]
  BY BoundAssumption DEF Init
<1>2. /\ 1 \in Grants /\ 0 \in Optional /\ 1 \in Optional /\ \A n \in Grants : n \in Nat /\ n > 0
      /\ 1 \in 1..minted /\ 1..minted = {1} /\ 0 \in 0..minted /\ 1 \in 0..minted
  BY <1>1 DEF Grants, Optional
<1>3. Fresh \in Credentials /\ Fresh.pending = 0 /\ Fresh.st = 0
  BY <1>2 DEF Fresh, Credentials
<1>4. Idle \in Op /\ Idle.pc = "idle" /\ Idle.new = 0 /\ Idle.phase = "look"
  BY <1>2 DEF Idle, Op, Phases
<1>5. \A g \in Gateways : mem[g] = Fresh /\ op[g] = Idle /\ Hands[g] = {}
  BY <1>1, <1>3, <1>4 DEF Hands, Hand
<1>6. TypeOK
  <2>1. rt \in [Grants -> Optional] /\ bought \in [Grants -> Optional]
    BY <1>1, <1>2
  <2>2. mem \in [Gateways -> Credentials] /\ op \in [Gateways -> Op]
    BY <1>1, <1>3, <1>4
  <2>3. ops \in 0..MaxOps /\ upsets \in 0..MaxUpsets
    BY <1>1
  <2> QED BY <1>1, <1>2, <2>1, <2>2, <2>3 DEF TypeOK
<1>7. Numbered
  <2>1. \A n \in Grants : rt[n] <= minted /\ bought[n] <= minted /\ (n > minted => rt[n] = 0)
    BY <1>1, <1>2
  <2> QED BY <1>1, <1>2, <1>4, <1>5, <2>1 DEF Numbered
<1>8. VaultFits
  <2>1. 1 \in Good
    BY <1>1, <1>2 DEF Good
  <2> QED BY <1>1, <2>1 DEF VaultFits
<1>9. Apart /\ LocksFit
  BY <1>4, <1>5 DEF Apart, LocksFit, Locked
<1>10. ASSUME NEW g \in Gateways PROVE FitsNow(g)
  BY <1>3, <1>4, <1>5 DEF FitsNow, Fits
<1> QED BY <1>6, <1>7, <1>8, <1>9, <1>10 DEF IInv

LEMMA NextInv == IInv /\ [Next]_vars => IInv'
<1> SUFFICES ASSUME IInv, [Next]_vars PROVE IInv'
  OBVIOUS
<1>1. ASSUME NEW g \in Gateways,
             \/ CurrentCredential(g)
             \/ RefreshIfNeeded(g)
             \/ \E r \in {mem[g].token, mem[g].acc} : RefreshToken(g, r)
      PROVE  IInv'
  <2>1. mem[g].token \in Optional /\ mem[g].acc \in Optional /\ 0 \in Optional
    BY Midway DEF Credentials
  <2>2. CASE CurrentCredential(g)
    BY <2>1, <2>2, StartInv DEF CurrentCredential
  <2>3. CASE RefreshIfNeeded(g)
    BY <2>1, <2>3, StartInv DEF RefreshIfNeeded
  <2>4. ASSUME NEW r \in {mem[g].token, mem[g].acc}, RefreshToken(g, r) PROVE IInv'
    BY <2>1, <2>4, StartInv DEF RefreshToken
  <2> QED BY <1>1, <2>2, <2>3, <2>4
<1>2. ASSUME NEW g \in Gateways,
             \/ ReadAccess(g) \/ ReadState(g) \/ SaveAccess(g)
             \/ AcquireLock(g) \/ RereadState(g)
             \/ Decide(g) \/ RetrySave(g) \/ Exchange(g) \/ Put(g)
             \/ StepUp(g) \/ StoreStepUpState(g) \/ StoreStepUpBearer(g)
             \/ Crash(g)
      PROVE  IInv'
  BY <1>2, ReadAccessInv, ReadStateInv, SaveAccessInv, AcquireLockInv, RereadStateInv, DecideInv,
     RetrySaveInv, ExchangeInv, PutInv, StepUpInv, StoreStepUpStateInv, StoreStepUpBearerInv, CrashInv
<1>3. CASE SignIn \/ SetAuthToken \/ ClearAuthToken \/ StoreBearer
  BY <1>3, SignInInv, ClearInv, BearerInv
<1>4. CASE UNCHANGED vars
  <2>1. UNCHANGED <<minted, rt, live, bought, vAcc, vSt, saved, lock, mem, op, desk, ops, upsets>>
    BY <1>4 DEF vars, provider, vault
  <2>2. Hands' = Hands /\ Good' = Good /\ Unbought' = Unbought /\ Owned' = Owned
    BY <2>1 DEF Hands, Good, Unbought, Owned
  <2>3. TypeOK' /\ Numbered' /\ VaultFits' /\ Apart' /\ LocksFit'
    BY <2>1, <2>2 DEF IInv, TypeOK, Numbered, VaultFits, Apart, LocksFit
  <2>4. \A g \in Gateways : FitsNow(g)'
    BY <2>1, <2>2 DEF IInv, FitsNow
  <2> QED BY <2>3, <2>4 DEF IInv
<1> QED BY <1>1, <1>2, <1>3, <1>4 DEF Next

LEMMA InvHolds == Spec => []IInv
<1> QED BY InitInv, NextInv, PTL DEF Spec

\* A gateway presents a refresh token that has been rotated away only if its replacement never
\* reached the vault, whatever the gateways, the user, the provider and the crashes do.
THEOREM PresentsSpentOnlyIfUnsaved == Spec => []SpentOnlyIfUnsaved
<1>1. IInv => SpentOnlyIfUnsaved
  <2> SUFFICES ASSUME IInv, NEW g \in Gateways, op[g].pc = "exchange", op[g].src # 0,
                      rt[op[g].src] # 0, rt[op[g].src] \notin live
               PROVE  bought[rt[op[g].src]] \notin saved
    BY DEF SpentOnlyIfUnsaved
  <2>1. op[g].src \in Good
    BY DEF IInv, FitsNow, Fits
  <2> QED BY <2>1 DEF Good
<1> QED BY <1>1, InvHolds, PTL

\* The vault never pairs a new bearer with the spent refresh token it was bought with, and an
\* operation that ended holds no lock.
THEOREM VaultStaysOK == Spec => []VaultOK
<1>1. IInv => VaultOK
  <2> SUFFICES ASSUME IInv, vAcc # 0, vSt # 0, rt[vSt] # 0, rt[vSt] \notin live
               PROVE  bought[rt[vSt]] # vAcc
    BY DEF VaultOK, NotStranded, IInv
  <2>1. vSt \in Good /\ vSt \in Grants /\ (vAcc \in saved \/ vAcc \in Unbought)
    BY DEF IInv, VaultFits, Good
  <2>2. bought[rt[vSt]] \notin saved
    BY <2>1 DEF Good
  <2>3. rt[vSt] \in Grants
    BY <2>1, BoundAssumption DEF IInv, TypeOK, Optional, Grants
  <2> QED BY <2>1, <2>2, <2>3 DEF Unbought
<1> QED BY <1>1, InvHolds, PTL

-----------------------------------------------------------------------------
(* What a refresh forced by a 401 returns.                                 *)

\* What a gateway with memory m in operation o knows of the bearer that was refused; what
\* it knows is among the n grants issued.
Refused(m, o, n) ==
    /\ {m.token, m.acc, m.pending, o.rejected, o.seen, o.src, o.new} \subseteq 0..n
    /\ o.rejected # 0 =>
          /\ o.phase # "look" /\ o.pc \notin {"idle", "ustate", "uacc"}
          /\ o.phase = "winner" /\ o.force => o.src # o.rejected
          /\ o.pc = "decide" => o.phase = "second"
          /\ o.pc = "put" => o.new # o.rejected
          /\ o.pc = "save" /\ o.phase = "put" => m.token # o.rejected

RefusedInv == \A g \in Gateways : Refused(mem[g], op[g], minted)

LEMMA RefusedMove ==
    ASSUME IInv, RefusedInv, NEW k \in Gateways, NEW m, NEW o,
           mem' = [mem EXCEPT ![k] = m], op' = [op EXCEPT ![k] = o],
           minted' \in {minted, minted + 1}, Refused(m, o, minted')
    PROVE  RefusedInv' /\ mem'[k] = m /\ op'[k] = o
<1>1. minted \in Nat
  BY BoundAssumption DEF IInv, TypeOK, Grants
<1>2. 0..minted \subseteq 0..minted'
  BY <1>1
<1>3. /\ mem'[k] = m /\ op'[k] = o
      /\ \A h \in Gateways \ {k} : mem'[h] = mem[h] /\ op'[h] = op[h]
  BY DEF IInv, TypeOK
<1>4. ASSUME NEW g \in Gateways \ {k} PROVE Refused(mem[g], op[g], minted')
  <2>1. Refused(mem[g], op[g], minted)
    BY DEF RefusedInv
  <2> QED BY <1>2, <2>1 DEF Refused
<1> QED BY <1>3, <1>4 DEF RefusedInv

LEMMA RefusedFinish ==
    ASSUME IInv, RefusedInv, NEW k \in Gateways, NEW m, Finish(k, m),
           minted' \in {minted, minted + 1}, {m.token, m.acc, m.pending} \subseteq 0..minted'
    PROVE  RefusedInv' /\ mem'[k] = m
<1>1. Idle.rejected = 0 /\ Idle.seen = 0 /\ Idle.src = 0 /\ Idle.new = 0
  BY DEF Idle
<1>2. minted \in Nat /\ 0 \in 0..minted'
  BY BoundAssumption DEF IInv, TypeOK, Grants
<1>3. Refused(m, Idle, minted')
  BY <1>1, <1>2 DEF Refused
<1> QED BY <1>3, RefusedMove DEF Finish

\* A return from read_vault or save_access hands back a bearer that was not refused.
LEMMA RefusedContinue ==
    ASSUME IInv, RefusedInv, NEW k \in Gateways, NEW m, NEW o \in Op, m \in Credentials,
           Continue(k, m, o), minted' = minted, Refused(m, o, minted),
           o.phase = "put" => o.pc = "save"
    PROVE  /\ RefusedInv'
           /\ o.force /\ o.rejected # 0 /\ op'[k].pc = "idle" => mem'[k].token # o.rejected
<1>1. {m.token, m.acc, m.pending, o.src} \subseteq 0..minted'
  BY DEF Refused
<1>2. CASE (o.phase \in {"look", "put"} \/ (o.phase = "retried" /\ ~o.force)) /\ Finish(k, m)
  <2>1. RefusedInv' /\ mem'[k] = m
    BY <1>1, <1>2, RefusedFinish
  <2> QED BY <1>2, <2>1 DEF Refused
<1>3. ASSUME NEW p \in {"lock", "decide", "exchange"}, Go(k, m, [o EXCEPT !.pc = p]),
             p = "decide" => o.phase = "second"
      PROVE  RefusedInv' /\ op'[k].pc # "idle"
  <2> DEFINE q == [o EXCEPT !.pc = p]
  <2>1. /\ q.pc = p /\ q.phase = o.phase /\ q.force = o.force /\ q.rejected = o.rejected
        /\ q.seen = o.seen /\ q.src = o.src /\ q.new = o.new
    BY DEF Op
  <2>2. Go(k, m, q)
    BY <1>3
  <2> HIDE DEF q
  <2>3. Refused(m, q, minted')
    BY <1>3, <2>1 DEF Refused
  <2>4. RefusedInv' /\ op'[k] = q
    BY <2>2, <2>3, RefusedMove DEF Go
  <2> QED BY <2>1, <2>4
<1>4. CASE o.phase = "winner" /\ Finish(k, [m EXCEPT !.pending = 0, !.token = o.src])
  <2> DEFINE q == [m EXCEPT !.pending = 0, !.token = o.src]
  <2>1. q.token = o.src /\ q.acc = m.acc /\ q.pending = 0
    BY DEF Credentials
  <2>2. Finish(k, q)
    BY <1>4
  <2> HIDE DEF q
  <2>3. minted \in Nat /\ 0 \in 0..minted'
    BY BoundAssumption DEF IInv, TypeOK, Grants
  <2>4. RefusedInv' /\ mem'[k] = q
    BY <1>1, <2>1, <2>2, <2>3, RefusedFinish
  <2> QED BY <1>4, <2>1, <2>4 DEF Refused
<1> QED BY <1>2, <1>3, <1>4 DEF Continue

\* The step of g does not hand back the bearer that was refused.
Returned(g) ==
    (op[g].force /\ op[g].rejected # 0 /\ op'[g].pc = "idle") =>
        \/ mem'[g].token # op[g].rejected
        \/ op[g].pc \in {"acc", "st", "lock", "wst", "exchange"} /\ mem'[g] = mem[g]
        \/ mem'[g] = Fresh

\* What is known of a gateway's operation before its step.
LEMMA RefusedNow ==
    ASSUME IInv, RefusedInv, NEW k \in Gateways
    PROVE  /\ mem[k] \in Credentials /\ op[k] \in Op /\ Refused(mem[k], op[k], minted)
           /\ {mem[k].token, mem[k].acc, mem[k].pending} \subseteq 0..minted
           /\ minted \in Nat /\ 0 \in 0..minted /\ vAcc \in 0..minted
           /\ op[k].new # 0 <=> op[k].pc = "put"
           /\ op[k].pc \in {"acc", "st"} => op[k].phase \notin {"retried", "put"}
<1>1. Refused(mem[k], op[k], minted)
  BY DEF RefusedInv
<1>2. minted \in Nat /\ vAcc \in 0..minted /\ mem[k] \in Credentials /\ op[k] \in Op
  BY BoundAssumption DEF IInv, TypeOK, Grants
<1>3. Fits(mem[k], op[k], vSt, saved, Owned[k], Good, Unbought, rt, live)
  BY DEF IInv, FitsNow
<1> QED BY <1>1, <1>2, <1>3 DEF Refused, Fits

\* An operation that fails, or whose gateway crashes, returns no bearer.
LEMMA RefusedError ==
    ASSUME IInv, RefusedInv, NEW k \in Gateways, NEW m \in {mem[k], Fresh}, Finish(k, m),
           minted' \in {minted, minted + 1}
    PROVE  RefusedInv' /\ mem'[k] = m
<1>1. /\ {mem[k].token, mem[k].acc, mem[k].pending} \subseteq 0..minted
      /\ minted \in Nat
  BY RefusedNow
<1>2. 0..minted \subseteq 0..minted' /\ 0 \in 0..minted'
  BY <1>1
<1>3. {m.token, m.acc, m.pending} \subseteq 0..minted'
  BY <1>1, <1>2 DEF Fresh
<1> QED BY <1>3, RefusedFinish

LEMMA RefusedStart ==
    ASSUME IInv, RefusedInv, NEW k \in Gateways, NEW phase, NEW force, NEW r \in 0..minted,
           phase = "first" \/ (phase = "look" /\ r = 0),
           Start(k, Reading(phase, force, r, k)), minted' = minted
    PROVE  RefusedInv' /\ op'[k].pc # "idle"
<1> DEFINE o == Reading(phase, force, r, k)
<1>1. /\ o.pc = "st" /\ o.phase = phase /\ o.rejected = r /\ o.seen = vAcc /\ o.src = 0 /\ o.new = 0
  BY DEF Reading, Idle
<1>2. op' = [op EXCEPT ![k] = o] /\ mem' = mem
  BY DEF Start
<1> HIDE DEF o
<1>3. mem' = [mem EXCEPT ![k] = mem[k]]
  BY <1>2 DEF IInv, TypeOK
<1>4. Refused(mem[k], o, minted')
  <2>1. {mem[k].token, mem[k].acc, mem[k].pending} \subseteq 0..minted' /\ vAcc \in 0..minted'
    BY RefusedNow DEF Refused
  <2>2. {mem[k].token, mem[k].acc, mem[k].pending, o.rejected, o.seen, o.src, o.new} \subseteq 0..minted'
    BY <1>1, <2>1, RefusedNow
  <2>3. o.rejected # 0 => o.phase = "first" /\ o.pc = "st"
    BY <1>1
  <2> QED BY <2>2, <2>3 DEF Refused
<1>5. minted' \in {minted, minted + 1}
  OBVIOUS
<1>6. RefusedInv' /\ op'[k] = o
  BY <1>2, <1>3, <1>4, <1>5, RefusedMove
<1> QED BY <1>1, <1>6

\* One step per operation of a gateway that looks at the vault or at the lock.
LEMMA RefusedReads ==
    ASSUME IInv, RefusedInv, NEW k \in Gateways,
           ReadAccess(k) \/ ReadState(k) \/ SaveAccess(k) \/ AcquireLock(k) \/ RereadState(k) \/ Decide(k)
    PROVE  RefusedInv' /\ Returned(k)
<1>1. minted' = minted
  BY DEF ReadAccess, ReadState, SaveAccess, AcquireLock, RereadState, Decide, provider
<1>2. /\ mem[k] \in Credentials /\ op[k] \in Op /\ Refused(mem[k], op[k], minted)
      /\ {mem[k].token, mem[k].acc, mem[k].pending} \subseteq 0..minted
      /\ minted \in Nat /\ 0 \in 0..minted /\ vAcc \in 0..minted
      /\ op[k].new # 0 <=> op[k].pc = "put"
      /\ op[k].pc \in {"acc", "st"} => op[k].phase \notin {"retried", "put"}
  BY RefusedNow
<1>3. ASSUME NEW o, Go(k, mem[k], o), Refused(mem[k], o, minted), o.pc # "idle"
      PROVE  RefusedInv' /\ Returned(k)
  <2>1. mem' = [mem EXCEPT ![k] = mem[k]] /\ op' = [op EXCEPT ![k] = o]
    BY <1>3 DEF Go
  <2>2. RefusedInv' /\ op'[k] = o
    BY <1>1, <1>3, <2>1, RefusedMove
  <2> QED BY <1>3, <2>2 DEF Returned
<1>4. CASE Finish(k, mem[k]) /\ op[k].pc \in {"acc", "st", "lock", "wst", "exchange"}
  BY <1>1, <1>4, RefusedError DEF Returned
<1>5. CASE op[k].pc = "acc" /\ Go(k, mem[k], [op[k] EXCEPT !.pc = "st", !.seen = vAcc])
  <2> DEFINE q == [op[k] EXCEPT !.pc = "st", !.seen = vAcc]
  <2>1. /\ q.pc = "st" /\ q.phase = op[k].phase /\ q.force = op[k].force
        /\ q.rejected = op[k].rejected /\ q.seen = vAcc /\ q.src = op[k].src /\ q.new = op[k].new
    BY <1>2 DEF Op
  <2>2. Go(k, mem[k], q)
    BY <1>5
  <2> HIDE DEF q
  <2>3. Refused(mem[k], q, minted)
    BY <1>2, <2>1 DEF Refused
  <2> QED BY <1>3, <2>1, <2>2, <2>3
<1>6. CASE ReadState(k)
  <2> DEFINE a == op[k].seen
  <2> DEFINE own == OwnSave(mem[k], a, vSt)
  <2> DEFINE o == [op[k] EXCEPT !.changed = @ \/ (Changed(mem[k], a, vSt) /\ ~own), !.seen = 0]
  <2> DEFINE m == Read(mem[k], a, vSt)
  <2>1. op[k].pc = "st" /\ a \in Optional /\ a \in 0..minted
    BY <1>2, <1>6 DEF ReadState, Op, Refused
  <2>2. m \in Credentials
    BY <2>1, ReadFacts
  <2>3. {m.token, m.acc, m.pending} \subseteq 0..minted
    BY <1>2, <2>1 DEF Read
  <2>4. own \in BOOLEAN /\ Changed(mem[k], a, vSt) \in BOOLEAN /\ 0 \in Optional
    BY <1>2, Midway DEF OwnSave, Changed, Credentials
  <2>5. /\ o \in Op /\ o.pc = "st" /\ o.phase = op[k].phase /\ o.force = op[k].force
        /\ o.rejected = op[k].rejected /\ o.seen = 0 /\ o.src = op[k].src /\ o.new = op[k].new
    BY <1>2, <2>1, <2>4 DEF Op
  <2>6. \/ Go(k, m, [o EXCEPT !.pc = "save"])
        \/ Continue(k, m, o)
        \/ StorageError(k)
    BY <1>6 DEF ReadState
  <2> HIDE DEF a, own, o, m
  <2>7. Refused(m, o, minted)
    BY <1>2, <2>3, <2>5 DEF Refused
  <2>8. CASE Go(k, m, [o EXCEPT !.pc = "save"])
    <3> DEFINE q == [o EXCEPT !.pc = "save"]
    <3>1. /\ q.pc = "save" /\ q.phase = o.phase /\ q.force = o.force
          /\ q.rejected = o.rejected /\ q.seen = 0 /\ q.src = o.src /\ q.new = o.new
      BY <2>5 DEF Op
    <3>2. Go(k, m, q)
      BY <2>8
    <3> HIDE DEF q
    <3>3. Refused(m, q, minted')
      BY <1>1, <1>2, <2>1, <2>3, <2>5, <2>7, <3>1 DEF Refused
    <3>4. RefusedInv' /\ op'[k] = q
      BY <1>1, <3>2, <3>3, RefusedMove DEF Go
    <3> QED BY <3>1, <3>4 DEF Returned
  <2>9. CASE Continue(k, m, o)
    BY <1>1, <1>2, <2>1, <2>2, <2>5, <2>7, <2>9, RefusedContinue DEF Returned
  <2> QED BY <1>4, <2>1, <2>6, <2>8, <2>9 DEF StorageError
<1>7. CASE SaveAccess(k)
  <2>1. PICK told \in BOOLEAN :
            Continue(k, IF told THEN [mem[k] EXCEPT !.acc = mem[k].token] ELSE mem[k], op[k])
    BY <1>7 DEF SaveAccess
  <2> DEFINE m == IF told THEN [mem[k] EXCEPT !.acc = mem[k].token] ELSE mem[k]
  <2>2. m \in Credentials /\ m.token = mem[k].token /\ m.acc \in {mem[k].token, mem[k].acc}
        /\ m.pending = mem[k].pending
    BY <1>2 DEF Credentials
  <2>3. Continue(k, m, op[k])
    BY <2>1
  <2> HIDE DEF m
  <2>4. Refused(m, op[k], minted) /\ op[k].pc = "save"
    BY <1>2, <1>7, <2>2 DEF Refused, SaveAccess
  <2> QED BY <1>1, <1>2, <2>2, <2>3, <2>4, RefusedContinue DEF Returned
<1>8. CASE AcquireLock(k)
  <2> DEFINE q == [op[k] EXCEPT !.pc = "wst", !.seen = vAcc]
  <2>1. /\ q.pc = "wst" /\ q.phase = op[k].phase /\ q.force = op[k].force
        /\ q.rejected = op[k].rejected /\ q.seen = vAcc /\ q.src = op[k].src /\ q.new = op[k].new
    BY <1>2 DEF Op
  <2>2. op' = [op EXCEPT ![k] = q] /\ mem' = [mem EXCEPT ![k] = mem[k]]
    BY <1>8 DEF AcquireLock, IInv, TypeOK
  <2> HIDE DEF q
  <2>3. Refused(mem[k], q, minted')
    BY <1>1, <1>2, <2>1 DEF Refused
  <2>4. RefusedInv' /\ op'[k] = q
    BY <1>1, <2>2, <2>3, RefusedMove
  <2> QED BY <2>1, <2>4 DEF Returned
<1>9. CASE RereadState(k)
  <2> DEFINE o == [op[k] EXCEPT !.pc = "acc", !.seen = 0]
  <2>1. op[k].pc = "wst"
    BY <1>9 DEF RereadState
  <2>2. \/ /\ op[k].force => op[k].seen # op[k].rejected
           /\ Go(k, mem[k], [o EXCEPT !.phase = "winner", !.src = op[k].seen])
        \/ Go(k, mem[k], [o EXCEPT !.phase = "second"])
        \/ StorageError(k)
    BY <1>9 DEF RereadState, Reusable
  <2>3. CASE /\ op[k].force => op[k].seen # op[k].rejected
             /\ Go(k, mem[k], [o EXCEPT !.phase = "winner", !.src = op[k].seen])
    <3> DEFINE q == [o EXCEPT !.phase = "winner", !.src = op[k].seen]
    <3>1. /\ q.pc = "acc" /\ q.phase = "winner" /\ q.force = op[k].force
          /\ q.rejected = op[k].rejected /\ q.seen = 0 /\ q.src = op[k].seen /\ q.new = op[k].new
      BY <1>2 DEF Op
    <3>2. Go(k, mem[k], q)
      BY <2>3
    <3> HIDE DEF q
    <3>3. Refused(mem[k], q, minted)
      BY <1>2, <2>3, <3>1 DEF Refused
    <3> QED BY <1>3, <3>1, <3>2, <3>3
  <2>4. CASE Go(k, mem[k], [o EXCEPT !.phase = "second"])
    <3> DEFINE q == [o EXCEPT !.phase = "second"]
    <3>1. /\ q.pc = "acc" /\ q.phase = "second" /\ q.force = op[k].force
          /\ q.rejected = op[k].rejected /\ q.seen = 0 /\ q.src = op[k].src /\ q.new = op[k].new
      BY <1>2 DEF Op
    <3>2. Go(k, mem[k], q)
      BY <2>4
    <3> HIDE DEF q
    <3>3. Refused(mem[k], q, minted)
      BY <1>2, <3>1 DEF Refused
    <3> QED BY <1>3, <3>1, <3>2, <3>3
  <2> QED BY <1>4, <2>1, <2>2, <2>3, <2>4 DEF StorageError
<1>10. CASE Decide(k)
  <2> DEFINE m == mem[k]
  <2>1. \/ Finish(k, m) /\ (op[k].force /\ op[k].rejected # 0 => m.token # op[k].rejected)
        \/ Go(k, m, [op[k] EXCEPT !.pc = "retry", !.src = m.pending])
        \/ Go(k, m, [op[k] EXCEPT !.pc = "exchange", !.src = m.st])
    BY <1>10 DEF Decide
  <2>2. CASE Finish(k, m) /\ (op[k].force /\ op[k].rejected # 0 => m.token # op[k].rejected)
    BY <1>1, <2>2, RefusedError DEF Returned
  <2>3. ASSUME NEW p \in {"retry", "exchange"}, NEW s \in 0..minted,
               Go(k, m, [op[k] EXCEPT !.pc = p, !.src = s])
        PROVE  RefusedInv' /\ Returned(k)
    <3> DEFINE q == [op[k] EXCEPT !.pc = p, !.src = s]
    <3>1. /\ q.pc = p /\ q.phase = op[k].phase /\ q.force = op[k].force
          /\ q.rejected = op[k].rejected /\ q.seen = op[k].seen /\ q.src = s /\ q.new = op[k].new
      BY <1>2 DEF Op
    <3>2. Go(k, m, q)
      BY <2>3
    <3> HIDE DEF q
    <3>3. Refused(mem[k], q, minted)
      BY <1>2, <1>10, <2>3, <3>1 DEF Refused, Decide
    <3> QED BY <1>3, <2>3, <3>1, <3>2, <3>3
  <2>4. m.pending \in 0..minted /\ m.st \in 0..minted
    <3>1. m.st \in saved \cup {0}
      BY DEF IInv, FitsNow, Fits
    <3> QED BY <1>2, <3>1, Midway
  <2> QED BY <2>1, <2>2, <2>3, <2>4
<1> QED BY <1>4, <1>5, <1>6, <1>7, <1>8, <1>9, <1>10 DEF ReadAccess, StorageError

\* One step per operation that stores a state or a bearer, or asks the provider.
LEMMA RefusedWrites ==
    ASSUME IInv, RefusedInv, NEW k \in Gateways,
           RetrySave(k) \/ Exchange(k) \/ Put(k) \/ StepUp(k)
             \/ StoreStepUpState(k) \/ StoreStepUpBearer(k) \/ Crash(k)
    PROVE  RefusedInv' /\ Returned(k)
<1>1. /\ mem[k] \in Credentials /\ op[k] \in Op /\ Refused(mem[k], op[k], minted)
      /\ {mem[k].token, mem[k].acc, mem[k].pending} \subseteq 0..minted
      /\ minted \in Nat /\ 0 \in 0..minted /\ vAcc \in 0..minted
      /\ op[k].new # 0 <=> op[k].pc = "put"
  BY RefusedNow
<1>2. {op[k].rejected, op[k].seen, op[k].src, op[k].new} \subseteq 0..minted
  BY <1>1 DEF Refused
<1>3. CASE RetrySave(k)
  <2> DEFINE p == op[k].src
  <2>1. op[k].pc = "retry" /\ minted' = minted
    BY <1>3 DEF RetrySave, provider
  <2>2. CASE Go(k, [mem[k] EXCEPT !.st = p, !.pending = 0, !.token = p],
                   [op[k] EXCEPT !.pc = "save", !.phase = "retried"])
    <3> DEFINE m == [mem[k] EXCEPT !.st = p, !.pending = 0, !.token = p]
    <3> DEFINE q == [op[k] EXCEPT !.pc = "save", !.phase = "retried"]
    <3>1. m.token = p /\ m.acc = mem[k].acc /\ m.pending = 0
      BY <1>1 DEF Credentials
    <3>2. /\ q.pc = "save" /\ q.phase = "retried" /\ q.force = op[k].force
          /\ q.rejected = op[k].rejected /\ q.seen = op[k].seen /\ q.src = p /\ q.new = op[k].new
      BY <1>1 DEF Op
    <3>3. Go(k, m, q)
      BY <2>2
    <3> HIDE DEF m, q
    <3>4. Refused(m, q, minted')
      BY <1>1, <1>2, <2>1, <3>1, <3>2 DEF Refused
    <3>5. RefusedInv' /\ op'[k] = q
      BY <2>1, <3>3, <3>4, RefusedMove DEF Go
    <3> QED BY <3>2, <3>5 DEF Returned
  <2>3. CASE Continue(k, mem[k], [op[k] EXCEPT !.phase = "retried"])
    <3> DEFINE q == [op[k] EXCEPT !.phase = "retried"]
    <3>1. /\ q \in Op /\ q.pc = "retry" /\ q.phase = "retried" /\ q.force = op[k].force
          /\ q.rejected = op[k].rejected /\ q.seen = op[k].seen /\ q.src = p /\ q.new = op[k].new
      BY <1>1, <2>1 DEF Op, Phases
    <3>2. Continue(k, mem[k], q)
      BY <2>3
    <3> HIDE DEF q
    <3>3. Refused(mem[k], q, minted)
      BY <1>1, <1>2, <3>1 DEF Refused
    <3> QED BY <1>1, <2>1, <3>1, <3>2, <3>3, RefusedContinue DEF Returned
  <2> QED BY <1>3, <2>2, <2>3 DEF RetrySave
<1>4. CASE Exchange(k)
  <2> DEFINE r == IF op[k].src = 0 THEN 0 ELSE rt[op[k].src]
  <2>1. op[k].pc = "exchange" /\ minted' \in {minted, minted + 1}
    BY <1>4 DEF Exchange, Issue, provider
  <2>2. CASE Finish(k, mem[k])
    BY <2>1, <2>2, RefusedError DEF Returned
  <2>3. CASE Issue(r) /\ Go(k, mem[k], [op[k] EXCEPT !.pc = "put", !.new = minted'])
    <3> DEFINE q == [op[k] EXCEPT !.pc = "put", !.new = minted']
    <3>1. /\ q.pc = "put" /\ q.phase = op[k].phase /\ q.force = op[k].force
          /\ q.rejected = op[k].rejected /\ q.seen = op[k].seen /\ q.src = op[k].src /\ q.new = minted'
      BY <1>1 DEF Op
    <3>2. Go(k, mem[k], q)
      BY <2>3
    <3>3. minted' = minted + 1
      BY <2>3 DEF Issue
    <3> HIDE DEF q
    <3>4. 0..minted \subseteq 0..minted' /\ minted' \in 0..minted' /\ op[k].rejected # minted'
      BY <1>1, <1>2, <3>3
    <3>5. Refused(mem[k], q, minted')
      BY <1>1, <1>2, <2>1, <3>1, <3>4 DEF Refused
    <3>6. RefusedInv' /\ op'[k] = q
      BY <2>1, <3>2, <3>5, RefusedMove DEF Go
    <3> QED BY <3>1, <3>6 DEF Returned
  <2> QED BY <1>4, <2>2, <2>3 DEF Exchange
<1>5. CASE Put(k)
  <2> DEFINE n == op[k].new
  <2> DEFINE o == [op[k] EXCEPT !.pc = "save", !.phase = "put", !.new = 0]
  <2> DEFINE m == [mem[k] EXCEPT !.token = n]
  <2>1. op[k].pc = "put" /\ minted' = minted
    BY <1>5 DEF Put, provider
  <2>2. m \in Credentials /\ m.token = n /\ m.acc = mem[k].acc /\ m.pending = mem[k].pending
    BY <1>1 DEF Credentials, Op
  <2>3. /\ o.pc = "save" /\ o.phase = "put" /\ o.force = op[k].force
        /\ o.rejected = op[k].rejected /\ o.seen = op[k].seen /\ o.src = op[k].src /\ o.new = 0
    BY <1>1 DEF Op
  <2>4. op[k].rejected # 0 => n # op[k].rejected
    BY <1>1, <2>1 DEF Refused
  <2>5. \/ Go(k, [m EXCEPT !.st = n, !.pending = 0], o)
        \/ Finish(k, [m EXCEPT !.pending = n])
        \/ Go(k, m, o)
    BY <1>5 DEF Put
  <2>6. n \in 0..minted
    BY <1>2
  <2> HIDE DEF n, o, m
  <2>7. ASSUME NEW q, Go(k, q, o), q.token = n, {q.acc, q.pending} \subseteq 0..minted
        PROVE  RefusedInv' /\ Returned(k)
    <3>1. Refused(q, o, minted')
      BY <1>1, <1>2, <2>1, <2>3, <2>4, <2>6, <2>7 DEF Refused
    <3>2. RefusedInv' /\ op'[k] = o
      BY <2>1, <2>7, <3>1, RefusedMove DEF Go
    <3> QED BY <2>3, <3>2 DEF Returned
  <2>8. CASE Go(k, [m EXCEPT !.st = n, !.pending = 0], o)
    <3> DEFINE q == [m EXCEPT !.st = n, !.pending = 0]
    <3>1. q.token = n /\ q.acc = mem[k].acc /\ q.pending = 0
      BY <2>2 DEF Credentials
    <3>2. Go(k, q, o)
      BY <2>8
    <3> HIDE DEF q
    <3> QED BY <1>1, <2>7, <3>1, <3>2
  <2>9. CASE Go(k, m, o)
    BY <1>1, <2>2, <2>7, <2>9
  <2>10. CASE Finish(k, [m EXCEPT !.pending = n])
    <3> DEFINE q == [m EXCEPT !.pending = n]
    <3>1. q.token = n /\ q.acc = mem[k].acc /\ q.pending = n
      BY <2>2 DEF Credentials
    <3>2. Finish(k, q)
      BY <2>10
    <3> HIDE DEF q
    <3>3. RefusedInv' /\ mem'[k] = q
      BY <1>1, <2>1, <2>6, <3>1, <3>2, RefusedFinish
    <3> QED BY <2>4, <3>1, <3>3 DEF Returned
  <2> QED BY <2>5, <2>8, <2>9, <2>10
<1>6. CASE StepUp(k)
  <2> DEFINE q == [Idle EXCEPT !.pc = "ustate", !.phase = "winner", !.force = TRUE, !.src = minted']
  <2>1. /\ q.pc = "ustate" /\ q.rejected = 0 /\ q.seen = 0 /\ q.src = minted' /\ q.new = 0
    BY DEF Idle
  <2>2. op' = [op EXCEPT ![k] = q] /\ mem' = [mem EXCEPT ![k] = mem[k]] /\ minted' = minted + 1
    BY <1>6 DEF StepUp, Start, Grant, IInv, TypeOK
  <2> HIDE DEF q
  <2>3. 0..minted \subseteq 0..minted' /\ minted' \in 0..minted' /\ 0 \in 0..minted'
    BY <1>1, <2>2
  <2>4. Refused(mem[k], q, minted')
    BY <1>1, <2>1, <2>3 DEF Refused
  <2>5. RefusedInv' /\ op'[k] = q
    BY <2>2, <2>4, RefusedMove
  <2> QED BY <2>1, <2>5 DEF Returned
<1>7. CASE StoreStepUpState(k) \/ StoreStepUpBearer(k)
  <2>1. op[k].pc \in {"ustate", "uacc"} /\ minted' = minted
    BY <1>7 DEF StoreStepUpState, StoreStepUpBearer, provider
  <2>2. op[k].rejected = 0
    BY <1>1, <2>1 DEF Refused
  <2>3. Returned(k)
    BY <2>2 DEF Returned
  <2>4. CASE Finish(k, mem[k])
    BY <2>1, <2>3, <2>4, RefusedError
  <2>5. ASSUME NEW p \in {"uacc", "acc"}, NEW m \in {mem[k], [mem[k] EXCEPT !.pending = 0]},
               Go(k, m, [op[k] EXCEPT !.pc = p])
        PROVE  RefusedInv'
    <3> DEFINE q == [op[k] EXCEPT !.pc = p]
    <3>1. /\ q.rejected = op[k].rejected /\ q.seen = op[k].seen /\ q.src = op[k].src
          /\ q.new = op[k].new
      BY <1>1 DEF Op
    <3>2. m.token = mem[k].token /\ m.acc = mem[k].acc /\ m.pending \in {0, mem[k].pending}
      BY <1>1, <2>5 DEF Credentials
    <3>3. Go(k, m, q)
      BY <2>5
    <3> HIDE DEF q
    <3>4. Refused(m, q, minted')
      BY <1>1, <1>2, <2>1, <2>2, <3>1, <3>2 DEF Refused
    <3> QED BY <2>1, <3>3, <3>4, RefusedMove DEF Go
  <2>6. CASE StoreStepUpState(k)
    BY <2>3, <2>4, <2>5, <2>6 DEF StoreStepUpState
  <2>7. CASE StoreStepUpBearer(k)
    BY <2>3, <2>4, <2>5, <2>7 DEF StoreStepUpBearer
  <2> QED BY <1>7, <2>6, <2>7
<1>8. CASE Crash(k)
  <2>1. Finish(k, Fresh) /\ minted' = minted
    BY <1>8 DEF Crash, provider
  <2> QED BY <2>1, RefusedError DEF Returned
<1> QED BY <1>3, <1>4, <1>5, <1>6, <1>7, <1>8

\* A step leaves the operations of the other gateways alone.
LEMMA OthersWait ==
    ASSUME IInv, NEW k \in Gateways,
           \/ CurrentCredential(k) \/ RefreshIfNeeded(k)
           \/ \E r \in {mem[k].token, mem[k].acc} : RefreshToken(k, r)
           \/ ReadAccess(k) \/ ReadState(k) \/ SaveAccess(k)
           \/ AcquireLock(k) \/ RereadState(k)
           \/ Decide(k) \/ RetrySave(k) \/ Exchange(k) \/ Put(k)
           \/ StepUp(k) \/ StoreStepUpState(k) \/ StoreStepUpBearer(k)
           \/ Crash(k)
    PROVE  \A h \in Gateways \ {k} : op'[h] = op[h]
<1>1. \E o : op' = [op EXCEPT ![k] = o]
  BY DEF CurrentCredential, RefreshIfNeeded, RefreshToken, ReadAccess, ReadState, SaveAccess,
         AcquireLock, RereadState, Decide, RetrySave, Exchange, Put, StepUp, StoreStepUpState,
         StoreStepUpBearer, Crash, Continue, StorageError, Start, Go, Finish
<1> QED BY <1>1 DEF IInv, TypeOK

LEMMA RefusedNext ==
    ASSUME IInv, RefusedInv, [Next]_vars
    PROVE  RefusedInv' /\ \A g \in Gateways : vars' # vars => Returned(g)
<1>1. ASSUME NEW g \in Gateways, op'[g] = op[g] PROVE Returned(g)
  <2>1. Refused(mem[g], op[g], minted)
    BY DEF RefusedInv
  <2> QED BY <1>1, <2>1 DEF Returned, Refused
<1>2. ASSUME NEW k \in Gateways,
             \/ CurrentCredential(k)
             \/ RefreshIfNeeded(k)
             \/ \E r \in {mem[k].token, mem[k].acc} : RefreshToken(k, r)
      PROVE  RefusedInv' /\ Returned(k)
  <2>1. mem[k].token \in 0..minted /\ mem[k].acc \in 0..minted /\ 0 \in 0..minted
    BY RefusedNow
  <2>2. CASE CurrentCredential(k)
    BY <2>1, <2>2, RefusedStart DEF CurrentCredential, provider, Returned
  <2>3. CASE RefreshIfNeeded(k)
    BY <2>1, <2>3, RefusedStart DEF RefreshIfNeeded, provider, Returned
  <2>4. ASSUME NEW r \in {mem[k].token, mem[k].acc}, RefreshToken(k, r)
        PROVE  RefusedInv' /\ Returned(k)
    BY <2>1, <2>4, RefusedStart DEF RefreshToken, provider, Returned
  <2> QED BY <1>2, <2>2, <2>3, <2>4
<1>3. ASSUME NEW k \in Gateways,
             \/ CurrentCredential(k) \/ RefreshIfNeeded(k)
             \/ \E r \in {mem[k].token, mem[k].acc} : RefreshToken(k, r)
             \/ ReadAccess(k) \/ ReadState(k) \/ SaveAccess(k)
             \/ AcquireLock(k) \/ RereadState(k)
             \/ Decide(k) \/ RetrySave(k) \/ Exchange(k) \/ Put(k)
             \/ StepUp(k) \/ StoreStepUpState(k) \/ StoreStepUpBearer(k)
             \/ Crash(k)
      PROVE  RefusedInv' /\ \A g \in Gateways : Returned(g)
  <2>1. RefusedInv' /\ Returned(k)
    BY <1>2, <1>3, RefusedReads, RefusedWrites
  <2>2. \A h \in Gateways \ {k} : op'[h] = op[h]
    BY <1>3, OthersWait
  <2> QED BY <1>1, <2>1, <2>2
<1>4. CASE SignIn \/ SetAuthToken \/ ClearAuthToken \/ StoreBearer
  <2>1. mem' = mem /\ op' = op /\ minted' \in {minted, minted + 1}
    BY <1>4 DEF SignIn, SetAuthToken, ClearAuthToken, StoreBearer, Grant, provider
  <2>2. minted \in Nat
    BY BoundAssumption DEF IInv, TypeOK, Grants
  <2>3. 0..minted \subseteq 0..minted'
    BY <2>1, <2>2
  <2>4. ASSUME NEW g \in Gateways PROVE Refused(mem[g], op[g], minted')
    <3>1. Refused(mem[g], op[g], minted)
      BY DEF RefusedInv
    <3> QED BY <2>3, <3>1 DEF Refused
  <2> QED BY <1>1, <2>1, <2>4 DEF RefusedInv
<1>5. CASE UNCHANGED vars
  BY <1>5 DEF vars, provider, RefusedInv
<1> QED BY <1>3, <1>4, <1>5 DEF Next

\* A refresh forced by a 401 never hands back the bearer that was refused.
THEOREM RefusedStaysRefused == Spec => RejectedNotReturned
<1>1. Init => RefusedInv
  <2> SUFFICES ASSUME Init, NEW g \in Gateways PROVE Refused(mem[g], op[g], minted)
    BY DEF RefusedInv
  <2>1. mem[g] = Fresh /\ op[g] = Idle /\ minted = 1 /\ 0 \in 0..1
    BY DEF Init
  <2> QED BY <2>1 DEF Refused, Fresh, Idle
<1>2. IInv /\ RefusedInv /\ [Next]_vars => RefusedInv'
  BY RefusedNext
<1>3. IInv /\ RefusedInv /\ [Next]_vars =>
        [ \A g \in Gateways :
            (op[g].force /\ op[g].rejected # 0 /\ op'[g].pc = "idle") =>
                \/ mem'[g].token # op[g].rejected
                \/ op[g].pc \in {"acc", "st", "lock", "wst", "exchange"} /\ mem'[g] = mem[g]
                \/ mem'[g] = Fresh ]_vars
  BY RefusedNext DEF Returned
<1> QED BY <1>1, <1>2, <1>3, InvHolds, PTL DEF Spec, RejectedNotReturned

-----------------------------------------------------------------------------
(* What happens to a rotation.                                             *)

\* What a gateway with memory m in operation o owes to the rotations rot, with the state v in
\* the vault, refresh tokens R and accepted tokens L.  A rotation is pending only after the
\* token of the vault's state was spent; while the lock is held and the vault was read under
\* it, a state the gateway does not know is no rotation; a winner is a bearer it did not know.
Rested(m, R, L) == (m.st # 0 => m.loaded) /\ (m.pending # 0 => R[m.st] \notin L)
Keeps(m, o, v, R, L, rot) ==
    /\ Rested(m, R, L)
    /\ o.pc \in {"acc", "st"} /\ o.phase = "winner" /\ m.pending # 0 => o.src # m.acc
    /\ o.pc \in {"decide", "retry"} \/ (o.pc = "save" /\ o.phase = "second") =>
          v \in {0, m.st} \/ R[v] \notin rot
    /\ o.pc = "put" => /\ o.src = IF m.pending = 0 THEN m.st ELSE m.pending
                       /\ R[o.new] # R[o.src] => R[o.src] \notin L
    /\ o.pc = "ustate" => R[o.src] \in {0, o.src}

KeepInv == \A g \in Gateways : Keeps(mem[g], op[g], vSt, rt, live, Rotations)

\* Refresh tokens and rotations that are known keep their meaning: no spent token becomes
\* good and none that was not bought becomes a rotation.
World ==
    /\ \A n \in 1..minted : rt'[n] = rt[n]
    /\ \A r \in 0..minted : r \notin live => r \notin live'
    /\ \A r \in 0..minted : r \notin Rotations => r \notin Rotations'

LEMMA WorldStays ==
    ASSUME UNCHANGED provider
    PROVE  World
BY DEF provider, World, Rotations

LEMMA WorldMints ==
    ASSUME IInv, NEW r, Mints(r)
    PROVE  /\ World /\ minted' = minted + 1 /\ minted \in Nat
           /\ bought' = bought => Rotations' = Rotations
           /\ \A n \in Rotations : n \in 1..minted
<1>1. /\ minted \in 1..MaxGrants /\ minted' = minted + 1 /\ MaxGrants \in Nat
      /\ \A n \in Grants : n <= minted => rt'[n] = rt[n]
      /\ live' \subseteq live \cup {minted'}
  BY MintFacts
<1>2. minted \in Nat /\ minted' \notin 0..minted /\ 1..minted \subseteq Grants
  BY <1>1 DEF Grants
<1>3. \A n \in 1..minted : rt'[n] = rt[n]
  BY <1>1, <1>2
<1>4. \A x \in 0..minted : x \notin live => x \notin live'
  BY <1>1, <1>2
<1>5. bought \in [Grants -> Optional] /\ \A n \in Grants : bought[n] <= minted
  BY DEF IInv, TypeOK, Numbered
<1>6. \A x \in Rotations' : x \in Rotations \/ x = minted'
  <2>1. bought' = bought \/ \E y : bought' = [bought EXCEPT ![y] = minted']
    BY DEF Mints
  <2>2. \A n \in Grants : bought'[n] = bought[n] \/ bought'[n] = minted'
    BY <1>5, <2>1
  <2> QED BY <2>2 DEF Rotations
<1>7. \A x \in 0..minted : x \notin Rotations => x \notin Rotations'
  BY <1>2, <1>6
<1>8. \A n \in Rotations : n \in 1..minted
  <2>1. \A n \in Rotations : n \in Optional /\ n # 0 /\ n <= minted
    BY <1>5 DEF Rotations
  <2> QED BY <1>1, <2>1 DEF Optional
<1>9. bought' = bought => Rotations' = Rotations
  BY DEF Rotations
<1> QED BY <1>1, <1>2, <1>3, <1>4, <1>7, <1>8, <1>9 DEF World

\* The grants and tokens a gateway knows have been issued.
LEMMA Known ==
    ASSUME IInv, NEW g \in Gateways
    PROVE  /\ mem[g] \in Credentials /\ op[g] \in Op /\ minted \in Nat
           /\ mem[g].pending \in 0..minted /\ op[g].new \in 0..minted
           /\ mem[g].st \in 0..minted /\ vSt \in 0..minted
           /\ op[g].pc \in {"exchange", "put", "ustate"} => op[g].src \in 0..minted
           /\ op[g].new # 0 <=> op[g].pc = "put"
           /\ mem[g].pending # 0 => mem[g].st # 0
           /\ \A n \in 1..minted : rt[n] \in 0..minted
<1>1. /\ mem[g] \in Credentials /\ op[g] \in Op /\ Hands[g] = Hand(mem[g], op[g])
      /\ Hands[g] \subseteq 1..minted /\ minted \in Nat /\ minted <= MaxGrants
  BY Now
<1>2. Fits(mem[g], op[g], vSt, saved, Owned[g], Good, Unbought, rt, live)
  BY DEF IInv, FitsNow
<1>3. mem[g].pending \in 0..minted /\ op[g].new \in 0..minted
  BY <1>1 DEF Hand
<1>4. mem[g].st \in 0..minted /\ vSt \in 0..minted
  <2>1. mem[g].st \in saved \cup {0} /\ vSt \in saved \cup {0}
    BY <1>2 DEF Fits, IInv, VaultFits
  <2>2. \A n \in saved \cup {0} \cup Unbought : n \in 0..minted
    BY Midway
  <2> QED BY <2>1, <2>2
<1>5. op[g].pc \in {"exchange", "put", "ustate"} => op[g].src \in 0..minted
  <2>1. op[g].src \in 0..MaxGrants
    BY <1>1 DEF Op, Optional
  <2>2. op[g].pc \in {"exchange", "put", "ustate"} => op[g].src <= minted
    BY DEF IInv, Numbered
  <2> QED BY <1>1, <2>1, <2>2
<1>6. \A n \in 1..minted : rt[n] \in 0..minted
  <2>1. MaxGrants \in Nat /\ rt \in [Grants -> Optional] /\ \A n \in Grants : rt[n] <= minted
    BY BoundAssumption DEF IInv, TypeOK, Numbered
  <2>2. \A n \in 1..minted : n \in Grants
    BY <1>1, <2>1 DEF Grants
  <2> QED BY <1>1, <2>1, <2>2 DEF Optional
<1> QED BY <1>1, <1>2, <1>3, <1>4, <1>5, <1>6 DEF Fits

\* The vault's state stays, goes, is replaced by one that is no rotation, or k has the lock.
Replaces(k) == vSt' = vSt \/ vSt' = 0 \/ rt'[vSt'] \notin Rotations' \/ lock = k

\* What a gateway that does not move owes to the rotations it owes after the step too.
LEMMA KeepsStay ==
    ASSUME IInv, KeepInv, NEW g \in Gateways, World,
           vSt' = vSt \/ vSt' = 0 \/ rt'[vSt'] \notin Rotations' \/ lock # g
    PROVE  Keeps(mem[g], op[g], vSt', rt', live', Rotations')
<1>1. Keeps(mem[g], op[g], vSt, rt, live, Rotations)
  BY DEF KeepInv
<1>2. /\ minted \in Nat /\ mem[g].pending \in 0..minted /\ op[g].new \in 0..minted
      /\ mem[g].st \in 0..minted /\ vSt \in 0..minted
      /\ op[g].pc \in {"exchange", "put", "ustate"} => op[g].src \in 0..minted
      /\ op[g].new # 0 <=> op[g].pc = "put"
      /\ mem[g].pending # 0 => mem[g].st # 0
      /\ \A n \in 1..minted : rt[n] \in 0..minted
  BY Known
<1>3. \A n \in 0..minted : n # 0 =>
         /\ rt'[n] = rt[n] /\ (rt[n] \notin live => rt'[n] \notin live')
         /\ rt[n] \notin Rotations => rt'[n] \notin Rotations'
  BY <1>2 DEF World
<1>4. Fits(mem[g], op[g], vSt, saved, Owned[g], Good, Unbought, rt, live)
      /\ (Locked(op[g]) => lock = g)
  BY DEF IInv, FitsNow, LocksFit
<1>5. mem[g].pending # 0 => rt'[mem[g].st] \notin live'
  BY <1>1, <1>2, <1>3 DEF Keeps, Rested
<1>6. op[g].pc \in {"decide", "retry"} \/ (op[g].pc = "save" /\ op[g].phase = "second") =>
         vSt' \in {0, mem[g].st} \/ rt'[vSt'] \notin Rotations'
  <2> SUFFICES ASSUME op[g].pc \in {"decide", "retry"} \/ (op[g].pc = "save" /\ op[g].phase = "second"),
                      vSt' = vSt, vSt # 0, vSt # mem[g].st
               PROVE  rt'[vSt'] \notin Rotations'
    BY <1>1, <1>4 DEF Keeps, Locked
  <2>1. rt[vSt] \notin Rotations
    BY <1>1 DEF Keeps
  <2> QED BY <1>2, <1>3, <2>1
<1>7. op[g].pc = "put" =>
         /\ op[g].src = IF mem[g].pending = 0 THEN mem[g].st ELSE mem[g].pending
         /\ rt'[op[g].new] # rt'[op[g].src] => rt'[op[g].src] \notin live'
  BY <1>1, <1>2, <1>3, <1>4 DEF Keeps, Fits
<1>8. op[g].pc = "ustate" => rt'[op[g].src] \in {0, op[g].src}
  <2>1. op[g].pc = "ustate" => op[g].src \in 1..minted /\ rt[op[g].src] \in {0, op[g].src}
    BY <1>1, <1>4 DEF Fits, Unbought, Keeps
  <2> QED BY <2>1 DEF World
<1> QED BY <1>1, <1>5, <1>6, <1>7, <1>8 DEF Keeps, Rested

\* The step drops the refresh token r, which the vault or gateway k had in hand.
Lost(k, r) ==
    /\ \E n \in {vSt, mem[k].pending, op[k].new} \ {0} : rt[n] = r
    /\ \A n \in {vSt', mem'[k].pending, op'[k].new} \ {0} : rt'[n] # r

\* A step of k keeps what everybody owes, and drops no refresh token but k's own or the vault's.
LEMMA KeepMove ==
    ASSUME IInv, KeepInv, NEW k \in Gateways, NEW m, NEW o, World, Replaces(k),
           mem' = [mem EXCEPT ![k] = m], op' = [op EXCEPT ![k] = o],
           Keeps(m, o, vSt', rt', live', Rotations')
    PROVE  /\ KeepInv' /\ mem'[k] = m /\ op'[k] = o
           /\ \A r \in Held : r \in Held' \/ Lost(k, r)
<1>1. /\ mem'[k] = m /\ op'[k] = o
      /\ \A h \in Gateways \ {k} : mem'[h] = mem[h] /\ op'[h] = op[h]
  BY DEF IInv, TypeOK
<1>2. ASSUME NEW h \in Gateways \ {k} PROVE Keeps(mem[h], op[h], vSt', rt', live', Rotations')
  <2>1. lock = k => lock # h
    OBVIOUS
  <2> QED BY <2>1, KeepsStay DEF Replaces
<1>3. KeepInv'
  BY <1>1, <1>2 DEF KeepInv
<1>4. ASSUME NEW r \in Held, r \notin Held'
      PROVE  Lost(k, r)
  <2>1. PICK n \in ({vSt} \cup {mem[g].pending : g \in Gateways}
                          \cup {op[g].new : g \in Gateways}) \ {0} : rt[n] = r
    BY DEF Held
  <2>2. \A x \in ({vSt'} \cup {mem'[g].pending : g \in Gateways}
                         \cup {op'[g].new : g \in Gateways}) \ {0} : rt'[x] # r
    BY <1>4 DEF Held
  <2>3. ASSUME NEW h \in Gateways \ {k}, n \in {mem[h].pending, op[h].new} PROVE FALSE
    <3>1. n \in 0..minted /\ minted \in Nat
      BY <2>3, Known
    <3>2. n \in 1..minted
      BY <2>1, <3>1
    <3>3. rt'[n] = r
      BY <2>1, <3>2 DEF World
    <3>4. n \in {mem'[h].pending, op'[h].new}
      BY <1>1, <2>3
    <3> QED BY <2>1, <2>2, <3>3, <3>4
  <2>4. n \in {vSt, mem[k].pending, op[k].new} \ {0}
    BY <2>1, <2>3
  <2>5. \A x \in {vSt', mem'[k].pending, op'[k].new} \ {0} : rt'[x] # r
    BY <2>2
  <2> QED BY <2>1, <2>4, <2>5 DEF Lost
<1> QED BY <1>1, <1>3, <1>4

\* A step may drop a good rotation only for one of these reasons.
Reason == \/ desk' \notin {desk, <<>>}
          \/ \E g \in Gateways : op[g].pc \in {"ustate", "uacc"}
          \/ \E g \in Gateways : mem[g].loaded /\ ~mem'[g].loaded
          \/ \E g \in Gateways : op[g].pc = "st" /\ Changed(mem[g], op[g].seen, vSt)
          \/ \E g \in Gateways : op[g].pc = "st" /\ op[g].phase = "winner" /\ op[g].src # mem[g].acc
          \/ \E g \in Gateways : op[g].pc = "put" /\ vSt # mem[g].st
Kept == \A r \in Rotations \cap live \cap Held : r \in live' \ Held' => Reason

\* A step of k that leaves the vault's state alone and forgets nothing k had in hand.
LEMMA KeepQuiet ==
    ASSUME IInv, KeepInv, NEW k \in Gateways, NEW m, NEW o, World, vSt' = vSt,
           mem' = [mem EXCEPT ![k] = m], op' = [op EXCEPT ![k] = o],
           Keeps(m, o, vSt', rt', live', Rotations'),
           m.pending = mem[k].pending, o.new = op[k].new \/ op[k].new = 0
    PROVE  KeepInv' /\ Kept
<1>1. Replaces(k)
  BY DEF Replaces
<1>2. KeepInv' /\ mem'[k] = m /\ op'[k] = o /\ \A r \in Held : r \in Held' \/ Lost(k, r)
  BY <1>1, KeepMove
<1>3. ASSUME NEW r, Lost(k, r) PROVE FALSE
  <2>1. PICK n \in {vSt, mem[k].pending, op[k].new} \ {0} : rt[n] = r
    BY <1>3 DEF Lost
  <2>2. n \in {vSt', mem'[k].pending, op'[k].new} \ {0}
    BY <1>2, <2>1
  <2>3. n \in 0..minted /\ minted \in Nat
    BY <2>1, Known
  <2>4. rt'[n] = r
    BY <2>1, <2>3 DEF World
  <2> QED BY <1>3, <2>2, <2>4 DEF Lost
<1> QED BY <1>2, <1>3 DEF Kept

\* An operation that ends with the memory it has.
LEMMA KeepRest ==
    ASSUME IInv, KeepInv, NEW k \in Gateways, op[k].pc # "put", Finish(k, mem[k]),
           World, vSt' = vSt
    PROVE  KeepInv' /\ Kept
<1>1. Idle.pc = "idle" /\ Idle.phase = "look" /\ Idle.new = 0 /\ op[k].new = 0
  BY Known DEF Idle
<1>2. Keeps(mem[k], op[k], vSt', rt', live', Rotations')
  BY KeepsStay
<1>3. Keeps(mem[k], Idle, vSt', rt', live', Rotations')
  BY <1>1, <1>2 DEF Keeps
<1>4. mem' = [mem EXCEPT ![k] = mem[k]] /\ op' = [op EXCEPT ![k] = Idle]
  BY DEF Finish
<1> QED BY <1>1, <1>3, <1>4, KeepQuiet

\* The caller of read_vault or save_access drops a pending rotation only for a winner.
LEMMA KeepContinue ==
    ASSUME IInv, KeepInv, NEW k \in Gateways, NEW m \in Credentials, NEW o \in Op,
           Continue(k, m, o), World, Replaces(k), o.new = 0, Rested(m, rt', live'),
           o.phase = "second" => vSt' \in {0, m.st} \/ rt'[vSt'] \notin Rotations'
    PROVE  /\ KeepInv' /\ \A r \in Held : r \in Held' \/ Lost(k, r)
           /\ o.phase # "winner" => mem'[k].pending = m.pending
<1>1. CASE Finish(k, m)
  <2>1. Idle.pc = "idle"
    BY DEF Idle
  <2>2. Keeps(m, Idle, vSt', rt', live', Rotations')
    BY <2>1 DEF Keeps
  <2> QED BY <1>1, <2>2, KeepMove DEF Finish
<1>2. CASE o.phase = "winner" /\ Finish(k, [m EXCEPT !.pending = 0, !.token = o.src])
  <2> DEFINE q == [m EXCEPT !.pending = 0, !.token = o.src]
  <2>1. Idle.pc = "idle" /\ q.pending = 0 /\ q.st = m.st /\ q.loaded = m.loaded
    BY DEF Idle, Credentials
  <2>2. Finish(k, q)
    BY <1>2
  <2> HIDE DEF q
  <2>3. Keeps(q, Idle, vSt', rt', live', Rotations')
    BY <2>1 DEF Keeps, Rested
  <2> QED BY <1>2, <2>2, <2>3, KeepMove DEF Finish
<1>3. ASSUME NEW p \in {"lock", "decide", "exchange"}, p = "decide" => o.phase = "second",
             Go(k, m, [o EXCEPT !.pc = p])
      PROVE  /\ KeepInv' /\ mem'[k].pending = m.pending
             /\ \A r \in Held : r \in Held' \/ Lost(k, r)
  <2> DEFINE q == [o EXCEPT !.pc = p]
  <2>1. q.pc = p /\ q.new = 0 /\ q.phase = o.phase
    BY DEF Op
  <2>2. Go(k, m, q)
    BY <1>3
  <2> HIDE DEF q
  <2>3. Keeps(m, q, vSt', rt', live', Rotations')
    BY <1>3, <2>1 DEF Keeps
  <2> QED BY <2>2, <2>3, KeepMove DEF Go
<1> QED BY <1>1, <1>2, <1>3 DEF Continue

\* One case per operation that only reads the vault.
LEMMA KeepReads ==
    ASSUME IInv, KeepInv, NEW k \in Gateways,
           \/ CurrentCredential(k) \/ RefreshIfNeeded(k)
           \/ \E r \in {mem[k].token, mem[k].acc} : RefreshToken(k, r)
           \/ ReadAccess(k) \/ AcquireLock(k) \/ RereadState(k) \/ Decide(k)
    PROVE  KeepInv' /\ Kept
<1>1. UNCHANGED <<provider, vault>>
  BY DEF CurrentCredential, RefreshIfNeeded, RefreshToken, ReadAccess, AcquireLock, RereadState,
         Decide
<1>2. World /\ vSt' = vSt
  BY <1>1, WorldStays DEF vault
<1>3. Keeps(mem[k], op[k], vSt', rt', live', Rotations')
  BY <1>2, KeepsStay
<1>4. /\ mem[k] \in Credentials /\ op[k] \in Op /\ (op[k].new # 0 <=> op[k].pc = "put")
  BY Known
<1>5. ASSUME StorageError(k), op[k].pc # "put" PROVE KeepInv' /\ Kept
  BY <1>2, <1>5, KeepRest DEF StorageError
<1>6. ASSUME NEW phase \in {"look", "first"}, NEW force, NEW r,
             Start(k, Reading(phase, force, r, k))
      PROVE  KeepInv' /\ Kept
  <2> DEFINE q == Reading(phase, force, r, k)
  <2>1. q.pc = "st" /\ q.phase = phase /\ q.new = 0
    BY DEF Reading, Idle
  <2>2. op[k].pc = "idle" /\ op' = [op EXCEPT ![k] = q] /\ mem' = mem
    BY <1>6 DEF Start
  <2>3. mem' = [mem EXCEPT ![k] = mem[k]]
    BY <2>2 DEF IInv, TypeOK
  <2> HIDE DEF q
  <2>4. Keeps(mem[k], q, vSt', rt', live', Rotations')
    BY <1>3, <2>1 DEF Keeps
  <2> QED BY <1>2, <1>4, <2>2, <2>3, <2>4, KeepQuiet
<1>7. CASE \/ CurrentCredential(k) \/ RefreshIfNeeded(k)
           \/ \E r \in {mem[k].token, mem[k].acc} : RefreshToken(k, r)
  BY <1>6, <1>7 DEF CurrentCredential, RefreshIfNeeded, RefreshToken
<1>8. CASE ReadAccess(k)
  <2>1. op[k].pc = "acc"
    BY <1>8 DEF ReadAccess
  <2>2. CASE Go(k, mem[k], [op[k] EXCEPT !.pc = "st", !.seen = vAcc])
    <3> DEFINE q == [op[k] EXCEPT !.pc = "st", !.seen = vAcc]
    <3>1. q.pc = "st" /\ q.phase = op[k].phase /\ q.new = op[k].new /\ q.src = op[k].src
      BY <1>4 DEF Op
    <3>2. Go(k, mem[k], q)
      BY <2>2
    <3> HIDE DEF q
    <3>3. Keeps(mem[k], q, vSt', rt', live', Rotations')
      BY <1>3, <2>1, <3>1 DEF Keeps
    <3> QED BY <1>2, <3>1, <3>2, <3>3, KeepQuiet DEF Go
  <2> QED BY <1>5, <1>8, <2>1, <2>2 DEF ReadAccess
<1>9. CASE AcquireLock(k)
  <2> DEFINE q == [op[k] EXCEPT !.pc = "wst", !.seen = vAcc]
  <2>1. q.pc = "wst" /\ q.phase = op[k].phase /\ q.new = op[k].new
    BY <1>4 DEF Op
  <2>2. op' = [op EXCEPT ![k] = q] /\ mem' = [mem EXCEPT ![k] = mem[k]]
    BY <1>9 DEF AcquireLock, IInv, TypeOK
  <2> HIDE DEF q
  <2>3. Keeps(mem[k], q, vSt', rt', live', Rotations')
    BY <1>3, <2>1 DEF Keeps
  <2> QED BY <1>2, <2>1, <2>2, <2>3, KeepQuiet
<1>10. CASE RereadState(k)
  <2> DEFINE o == [op[k] EXCEPT !.pc = "acc", !.seen = 0]
  <2>1. op[k].pc = "wst"
    BY <1>10 DEF RereadState
  <2>2. \/ /\ op[k].seen # mem[k].acc
           /\ Go(k, mem[k], [o EXCEPT !.phase = "winner", !.src = op[k].seen])
        \/ Go(k, mem[k], [o EXCEPT !.phase = "second"])
        \/ StorageError(k)
    BY <1>10 DEF RereadState, Reusable
  <2>3. CASE /\ op[k].seen # mem[k].acc
             /\ Go(k, mem[k], [o EXCEPT !.phase = "winner", !.src = op[k].seen])
    <3> DEFINE q == [o EXCEPT !.phase = "winner", !.src = op[k].seen]
    <3>1. q.pc = "acc" /\ q.phase = "winner" /\ q.new = op[k].new /\ q.src = op[k].seen
      BY <1>4 DEF Op
    <3>2. Go(k, mem[k], q)
      BY <2>3
    <3> HIDE DEF q
    <3>3. Keeps(mem[k], q, vSt', rt', live', Rotations')
      BY <1>3, <2>3, <3>1 DEF Keeps
    <3> QED BY <1>2, <3>1, <3>2, <3>3, KeepQuiet DEF Go
  <2>4. CASE Go(k, mem[k], [o EXCEPT !.phase = "second"])
    <3> DEFINE q == [o EXCEPT !.phase = "second"]
    <3>1. q.pc = "acc" /\ q.phase = "second" /\ q.new = op[k].new
      BY <1>4 DEF Op
    <3>2. Go(k, mem[k], q)
      BY <2>4
    <3> HIDE DEF q
    <3>3. Keeps(mem[k], q, vSt', rt', live', Rotations')
      BY <1>3, <3>1 DEF Keeps
    <3> QED BY <1>2, <3>1, <3>2, <3>3, KeepQuiet DEF Go
  <2> QED BY <1>5, <2>1, <2>2, <2>3, <2>4
<1>11. CASE Decide(k)
  <2>1. op[k].pc = "decide"
        /\ \/ Finish(k, mem[k])
           \/ Go(k, mem[k], [op[k] EXCEPT !.pc = "retry", !.src = mem[k].pending])
           \/ Go(k, mem[k], [op[k] EXCEPT !.pc = "exchange", !.src = mem[k].st])
    BY <1>11 DEF Decide
  <2>2. CASE Finish(k, mem[k])
    BY <1>2, <2>1, <2>2, KeepRest
  <2>3. ASSUME NEW p \in {"retry", "exchange"}, NEW x, Go(k, mem[k], [op[k] EXCEPT !.pc = p, !.src = x])
        PROVE  KeepInv' /\ Kept
    <3> DEFINE q == [op[k] EXCEPT !.pc = p, !.src = x]
    <3>1. q.pc = p /\ q.phase = op[k].phase /\ q.new = op[k].new
      BY <1>4 DEF Op
    <3>2. Go(k, mem[k], q)
      BY <2>3
    <3> HIDE DEF q
    <3>3. Keeps(mem[k], q, vSt', rt', live', Rotations')
      BY <1>3, <2>1, <2>3, <3>1 DEF Keeps
    <3> QED BY <1>2, <3>1, <3>2, <3>3, KeepQuiet DEF Go
  <2> QED BY <2>1, <2>2, <2>3
<1> QED BY <1>7, <1>8, <1>9, <1>10, <1>11

\* A pending rotation is dropped by a read of the vault's state only if the vault has changed
\* or a winner was met at the lock.
LEMMA KeepReadState ==
    ASSUME IInv, KeepInv, NEW k \in Gateways, ReadState(k)
    PROVE  KeepInv' /\ Kept
<1> DEFINE a == op[k].seen
<1> DEFINE own == OwnSave(mem[k], a, vSt)
<1> DEFINE o == [op[k] EXCEPT !.changed = @ \/ (Changed(mem[k], a, vSt) /\ ~own), !.seen = 0]
<1> DEFINE m == Read(mem[k], a, vSt)
<1>1. op[k].pc = "st" /\ World /\ vSt' = vSt
  BY WorldStays DEF ReadState, vault
<1>2. /\ mem[k] \in Credentials /\ op[k] \in Op /\ op[k].new = 0 /\ minted \in Nat
      /\ mem[k].st \in 0..minted /\ (mem[k].pending # 0 => mem[k].st # 0)
      /\ vSt \in 0..minted
  BY <1>1, Known
<1>3. a \in Optional /\ own \in BOOLEAN /\ Changed(mem[k], a, vSt) \in BOOLEAN
  BY <1>2 DEF Op, OwnSave, Changed, Credentials
<1>4. o \in Op /\ o.pc = "st" /\ o.new = 0 /\ o.phase = op[k].phase /\ o.src = op[k].src
  BY <1>1, <1>2, <1>3 DEF Op
<1>5. m \in Credentials /\ m.st = vSt /\ m.loaded
      /\ m.pending = IF own \/ ~mem[k].loaded \/ Changed(mem[k], a, vSt) THEN 0 ELSE mem[k].pending
  BY <1>1, <1>3, ReadFacts DEF Read
<1>6. own => m.pending = 0 /\ mem[k].pending = vSt
  BY <1>5 DEF OwnSave
<1>7. Keeps(mem[k], op[k], vSt', rt', live', Rotations')
  BY <1>1, KeepsStay
<1>8. m.pending # 0 => mem[k].pending # 0 /\ mem[k].st = vSt
  BY <1>5 DEF Changed
<1>9. Rested(m, rt', live')
  BY <1>5, <1>7, <1>8 DEF Keeps, Rested
<1>10. \/ own /\ Go(k, m, [o EXCEPT !.pc = "save"])
       \/ ~own /\ Continue(k, m, o)
       \/ StorageError(k)
  BY DEF ReadState
<1>11. ~own /\ mem[k].loaded /\ ~Changed(mem[k], a, vSt) => m.pending = mem[k].pending
  BY <1>5
<1>12. Changed(mem[k], a, vSt) => Reason
  BY <1>1 DEF Reason
<1>13. Replaces(k)
  BY <1>1 DEF Replaces
<1> HIDE DEF a, own, o, m
<1>14. CASE own /\ Go(k, m, [o EXCEPT !.pc = "save"])
  <2> DEFINE q == [o EXCEPT !.pc = "save"]
  <2>1. q.pc = "save" /\ q.new = 0 /\ q.phase = o.phase
    BY <1>4 DEF Op
  <2>2. Go(k, m, q)
    BY <1>14
  <2> HIDE DEF q
  <2>3. Keeps(m, q, vSt', rt', live', Rotations')
    BY <1>1, <1>5, <1>9, <2>1 DEF Keeps
  <2>4. KeepInv' /\ \A r \in Held : r \in Held' \/ Lost(k, r)
    BY <1>1, <1>13, <2>2, <2>3, KeepMove DEF Go
  <2>5. ASSUME NEW r, Lost(k, r) PROVE FALSE
    <3>1. vSt # 0 /\ rt[vSt] = r
      BY <1>2, <1>6, <1>14, <2>5 DEF Lost
    <3>2. rt'[vSt] = r
      BY <1>1, <1>2, <3>1 DEF World
    <3> QED BY <1>1, <2>5, <3>1, <3>2 DEF Lost
  <2> QED BY <2>4, <2>5 DEF Kept
<1>15. CASE ~own /\ Continue(k, m, o)
  <2>1. /\ KeepInv' /\ (\A r \in Held : r \in Held' \/ Lost(k, r))
        /\ o.phase # "winner" => mem'[k].pending = m.pending
    BY <1>1, <1>4, <1>5, <1>9, <1>13, <1>15, KeepContinue
  <2>2. ASSUME NEW r, Lost(k, r) PROVE Reason
    <3>1. PICK n \in {vSt, mem[k].pending} \ {0} : rt[n] = r
      BY <1>2, <2>2 DEF Lost
    <3>2. n \in 0..minted
      BY <1>2, <3>1, Known
    <3>3. rt'[n] = r
      BY <1>1, <1>2, <3>1, <3>2 DEF World
    <3>4. n # vSt /\ n = mem[k].pending /\ n # mem'[k].pending /\ mem[k].pending # 0
      BY <1>1, <2>2, <3>1, <3>3 DEF Lost
    <3>5. mem[k].loaded
      BY <1>2, <1>7, <3>4 DEF Keeps, Rested
    <3>6. CASE o.phase = "winner"
      <4>1. op[k].src # mem[k].acc
        BY <1>1, <1>4, <1>7, <3>4, <3>6 DEF Keeps
      <4> QED BY <1>1, <1>4, <3>6, <4>1 DEF Reason
    <3>7. CASE o.phase # "winner"
      BY <1>11, <1>12, <1>15, <2>1, <3>4, <3>5, <3>7
    <3> QED BY <3>6, <3>7
  <2> QED BY <2>1, <2>2 DEF Kept
<1>16. CASE StorageError(k)
  BY <1>1, <1>16, KeepRest DEF StorageError
<1> QED BY <1>10, <1>14, <1>15, <1>16

LEMMA KeepSaveAccess ==
    ASSUME IInv, KeepInv, NEW k \in Gateways, SaveAccess(k)
    PROVE  KeepInv' /\ Kept
<1>1. PICK told \in BOOLEAN :
          /\ WriteBearer(mem[k].token, told)
          /\ Continue(k, IF told THEN [mem[k] EXCEPT !.acc = mem[k].token] ELSE mem[k], op[k])
  BY DEF SaveAccess
<1> DEFINE m == IF told THEN [mem[k] EXCEPT !.acc = mem[k].token] ELSE mem[k]
<1>2. op[k].pc = "save" /\ World /\ vSt' = vSt /\ Replaces(k)
  BY <1>1, WorldStays DEF SaveAccess, WriteBearer, Replaces
<1>3. /\ mem[k] \in Credentials /\ op[k] \in Op /\ op[k].new = 0 /\ vSt \in 0..minted
      /\ minted \in Nat
  BY <1>2, Known
<1>4. mem[k].pending = 0
  BY <1>2 DEF IInv, FitsNow, Fits
<1>5. Keeps(mem[k], op[k], vSt', rt', live', Rotations')
  BY <1>2, KeepsStay
<1>6. m \in Credentials /\ m.pending = 0 /\ m.st = mem[k].st /\ m.loaded = mem[k].loaded
  BY <1>3, <1>4 DEF Credentials
<1>7. Continue(k, m, op[k])
  BY <1>1
<1> HIDE DEF m
<1>8. Rested(m, rt', live')
  BY <1>5, <1>6 DEF Keeps, Rested
<1>9. op[k].phase = "second" => vSt' \in {0, m.st} \/ rt'[vSt'] \notin Rotations'
  BY <1>2, <1>5, <1>6 DEF Keeps
<1>10. KeepInv' /\ \A r \in Held : r \in Held' \/ Lost(k, r)
  BY <1>2, <1>3, <1>6, <1>7, <1>8, <1>9, KeepContinue
<1>11. ASSUME NEW r, Lost(k, r) PROVE FALSE
  <2>1. vSt # 0 /\ rt[vSt] = r
    BY <1>3, <1>4, <1>11 DEF Lost
  <2>2. rt'[vSt] = r
    BY <1>2, <1>3, <2>1 DEF World
  <2> QED BY <1>2, <1>11, <2>1, <2>2 DEF Lost
<1> QED BY <1>10, <1>11 DEF Kept

\* What the pending rotation replaces in the vault is spent, or no rotation.
LEMMA KeepRetrySave ==
    ASSUME IInv, KeepInv, NEW k \in Gateways, RetrySave(k)
    PROVE  KeepInv' /\ Kept
<1> DEFINE p == op[k].src
<1>1. op[k].pc = "retry" /\ UNCHANGED provider /\ World
  BY WorldStays DEF RetrySave
<1>2. /\ mem[k] \in Credentials /\ op[k] \in Op /\ op[k].new = 0 /\ minted \in Nat
      /\ mem[k].pending \in 0..minted /\ vSt \in 0..minted
  BY <1>1, Known
<1>3. lock = k /\ p = mem[k].pending /\ p \in Owned[k]
  BY <1>1, Midway DEF Fits, Locked
<1>4. p # 0 /\ rt'[p] = rt[p] /\ Replaces(k)
  <2>1. p # 0
    BY <1>3, BoundAssumption DEF Owned, Grants
  <2> QED BY <1>1, <1>3, <2>1 DEF provider, Replaces
<1>5. Keeps(mem[k], op[k], vSt, rt, live, Rotations)
  BY DEF KeepInv
<1>6. Rested(mem[k], rt', live')
  BY <1>1, <1>5 DEF Keeps, provider
<1>7. vSt # 0 => rt[vSt] \notin Rotations \cap live
  BY <1>1, <1>3, <1>4, <1>5 DEF Keeps, Rested
<1>8. ASSUME NEW r \in Rotations \cap live, Lost(k, r), vSt' = p \/ mem'[k].pending = p
      PROVE  FALSE
  <2>1. rt[p] = r
    BY <1>2, <1>3, <1>7, <1>8 DEF Lost
  <2> QED BY <1>4, <1>8, <2>1 DEF Lost
<1>9. \/ /\ WriteState(p, TRUE)
         /\ Go(k, [mem[k] EXCEPT !.st = p, !.pending = 0, !.token = p],
                  [op[k] EXCEPT !.pc = "save", !.phase = "retried"])
      \/ Continue(k, mem[k], [op[k] EXCEPT !.phase = "retried"])
  BY DEF RetrySave
<1>10. CASE /\ WriteState(p, TRUE)
            /\ Go(k, [mem[k] EXCEPT !.st = p, !.pending = 0, !.token = p],
                     [op[k] EXCEPT !.pc = "save", !.phase = "retried"])
  <2> DEFINE m == [mem[k] EXCEPT !.st = p, !.pending = 0, !.token = p]
  <2> DEFINE o == [op[k] EXCEPT !.pc = "save", !.phase = "retried"]
  <2>1. m.pending = 0 /\ m.loaded = mem[k].loaded
    BY <1>2 DEF Credentials
  <2>2. o.pc = "save" /\ o.phase = "retried"
    BY <1>2 DEF Op
  <2>3. Go(k, m, o) /\ vSt' = p
    BY <1>10 DEF WriteState
  <2>4. mem[k].loaded
    BY <1>3, <1>4, <1>5, Known DEF Keeps, Rested
  <2> HIDE DEF m, o, p
  <2>5. Keeps(m, o, vSt', rt', live', Rotations')
    BY <2>1, <2>2, <2>4 DEF Keeps, Rested
  <2>6. KeepInv' /\ \A r \in Held : r \in Held' \/ Lost(k, r)
    BY <1>1, <1>4, <2>3, <2>5, KeepMove DEF Go
  <2> QED BY <1>8, <2>3, <2>6 DEF Kept
<1>11. CASE Continue(k, mem[k], [op[k] EXCEPT !.phase = "retried"])
  <2> DEFINE o == [op[k] EXCEPT !.phase = "retried"]
  <2>1. o \in Op /\ o.phase = "retried" /\ o.new = 0
    BY <1>2 DEF Op, Phases
  <2>2. Continue(k, mem[k], o)
    BY <1>11
  <2> HIDE DEF o, p
  <2>3. /\ KeepInv' /\ (\A r \in Held : r \in Held' \/ Lost(k, r))
        /\ mem'[k].pending = mem[k].pending
    BY <1>1, <1>2, <1>4, <1>6, <2>1, <2>2, KeepContinue
  <2> QED BY <1>3, <1>8, <2>3 DEF Kept
<1> QED BY <1>9, <1>10, <1>11

\* An exchange that rotates spends the token the gateway has presented.
LEMMA KeepExchange ==
    ASSUME IInv, KeepInv, NEW k \in Gateways, Exchange(k)
    PROVE  KeepInv' /\ Kept
<1> DEFINE r == IF op[k].src = 0 THEN 0 ELSE rt[op[k].src]
<1>1. op[k].pc = "exchange" /\ vSt' = vSt
  BY DEF Exchange, vault
<1>2. /\ mem[k] \in Credentials /\ op[k] \in Op /\ op[k].new = 0 /\ minted \in Nat
      /\ op[k].src \in 0..minted
  BY <1>1, Known
<1>3. op[k].src = IF mem[k].pending = 0 THEN mem[k].st ELSE mem[k].pending
  BY <1>1, Midway DEF Fits
<1>4. CASE UNCHANGED provider /\ Finish(k, mem[k])
  BY <1>1, <1>4, WorldStays, KeepRest
<1>5. ASSUME Issue(r) PROVE World
  BY <1>5, IssueMints, WorldMints
<1>6. CASE Issue(r) /\ Finish(k, mem[k])
  BY <1>1, <1>5, <1>6, KeepRest
<1>7. CASE Issue(r) /\ Go(k, mem[k], [op[k] EXCEPT !.pc = "put", !.new = minted'])
  <2> DEFINE o == [op[k] EXCEPT !.pc = "put", !.new = minted']
  <2>1. /\ r \in live /\ 0 \notin live
        /\ \/ rt' = [rt EXCEPT ![minted'] = minted'] /\ live' = (live \ {r}) \cup {minted'}
           \/ rt' = [rt EXCEPT ![minted'] = r]
    BY <1>7, BoundAssumption DEF Issue, IInv, TypeOK, Grants
  <2>2. op[k].src # 0 /\ r = rt[op[k].src] /\ r \in 0..minted
    <3>1. op[k].src # 0 /\ r = rt[op[k].src]
      BY <2>1
    <3>2. op[k].src \in 1..minted
      BY <1>2, <3>1
    <3> QED BY <3>1, <3>2, Known
  <2> HIDE DEF r
  <2>3. Mints(r) /\ World /\ minted' = minted + 1
    BY <1>5, <1>7, IssueMints, WorldMints
  <2>4. rt'[op[k].src] = r /\ minted' # r
    BY <1>2, <2>2, <2>3 DEF World
  <2>5. minted' \in Grants /\ rt \in [Grants -> Optional]
    BY <2>3, MintFacts DEF IInv, TypeOK
  <2>6. rt'[minted'] # r => r \notin live'
    BY <2>1, <2>4, <2>5
  <2>7. o.pc = "put" /\ o.new = minted' /\ o.src = op[k].src
    BY <1>2 DEF Op
  <2>8. Go(k, mem[k], o)
    BY <1>7
  <2> HIDE DEF o
  <2>9. Keeps(mem[k], op[k], vSt', rt', live', Rotations')
    BY <1>1, <2>3, KeepsStay
  <2>10. Keeps(mem[k], o, vSt', rt', live', Rotations')
    BY <1>3, <2>4, <2>6, <2>7, <2>9 DEF Keeps
  <2> QED BY <1>1, <1>2, <2>3, <2>8, <2>10, KeepQuiet DEF Go
<1> QED BY <1>4, <1>6, <1>7 DEF Exchange

\* A rotation that replaces the one in the vault or in memory was bought with it.
LEMMA KeepPut ==
    ASSUME IInv, KeepInv, NEW k \in Gateways, Put(k)
    PROVE  KeepInv' /\ Kept
<1> DEFINE n == op[k].new
<1> DEFINE s == op[k].src
<1> DEFINE o == [op[k] EXCEPT !.pc = "save", !.phase = "put", !.new = 0]
<1> DEFINE m == [mem[k] EXCEPT !.token = n]
<1> DEFINE rotated == rt[n] # rt[s]
<1>1. op[k].pc = "put" /\ UNCHANGED provider /\ World
  BY WorldStays DEF Put
<1>2. /\ mem[k] \in Credentials /\ op[k] \in Op /\ minted \in Nat
      /\ n \in 0..minted /\ n # 0
  BY <1>1, Known
<1>3. /\ lock = k /\ mem[k].st # 0 /\ Replaces(k)
  BY <1>1, Midway DEF Fits, Locked, Replaces
<1>4. Keeps(mem[k], op[k], vSt, rt, live, Rotations)
  BY DEF KeepInv
<1>5. /\ rt' = rt /\ live' = live
      /\ mem[k].loaded /\ (mem[k].pending # 0 => rt[mem[k].st] \notin live)
      /\ s = (IF mem[k].pending = 0 THEN mem[k].st ELSE mem[k].pending)
      /\ rotated => rt[s] \notin live
  BY <1>1, <1>3, <1>4 DEF Keeps, Rested, provider
<1>6. vSt # mem[k].st => Reason
  BY <1>1 DEF Reason
<1>7. /\ m \in Credentials /\ m.st = mem[k].st /\ m.pending = mem[k].pending
      /\ m.loaded = mem[k].loaded
  BY <1>2 DEF Credentials, Op
<1>8. o.pc = "save" /\ o.phase = "put" /\ o.new = 0
  BY <1>2 DEF Op
<1>9. \/ WriteState(n, TRUE) /\ Go(k, [m EXCEPT !.st = n, !.pending = 0], o)
      \/ WriteState(n, FALSE) /\ (rotated \/ m.pending # 0) /\ Finish(k, [m EXCEPT !.pending = n])
      \/ WriteState(n, FALSE) /\ ~(rotated \/ m.pending # 0) /\ Go(k, m, o)
  BY DEF Put
<1> HIDE DEF m, o
<1>10. ASSUME NEW r \in Rotations \cap live, Lost(k, r),
              \/ vSt' = n \/ mem'[k].pending = n
              \/ vSt' = vSt /\ ~rotated /\ mem[k].pending = 0
       PROVE  Reason
  <2> SUFFICES ASSUME vSt = mem[k].st PROVE FALSE
    BY <1>6
  <2>1. PICK x \in {vSt, mem[k].pending, n} \ {0} : rt[x] = r
    BY <1>10 DEF Lost
  <2>2. CASE mem[k].pending = 0
    <3>1. s = vSt /\ x \in {s, n}
      BY <1>5, <2>1, <2>2
    <3>2. ~rotated /\ rt[n] = r /\ rt[s] = r
      BY <1>5, <1>10, <2>1, <3>1 DEF Lost
    <3> QED BY <1>3, <1>5, <1>10, <1>2, <3>1, <3>2 DEF Lost
  <2>3. CASE mem[k].pending # 0
    <3>1. x \in {s, n}
      BY <1>5, <2>1, <2>3
    <3>2. rt[n] = r
      BY <1>5, <2>1, <3>1
    <3> QED BY <1>2, <1>5, <1>10, <2>3, <3>2 DEF Lost
  <2> QED BY <2>2, <2>3
<1>11. CASE WriteState(n, TRUE) /\ Go(k, [m EXCEPT !.st = n, !.pending = 0], o)
  <2> DEFINE q == [m EXCEPT !.st = n, !.pending = 0]
  <2>1. q.pending = 0 /\ q.loaded = m.loaded
    BY <1>7 DEF Credentials
  <2>2. Go(k, q, o) /\ vSt' = n
    BY <1>11 DEF WriteState
  <2> HIDE DEF q
  <2>3. Keeps(q, o, vSt', rt', live', Rotations')
    BY <1>5, <1>7, <1>8, <2>1 DEF Keeps, Rested
  <2>4. KeepInv' /\ \A r \in Held : r \in Held' \/ Lost(k, r)
    BY <1>1, <1>3, <2>2, <2>3, KeepMove DEF Go
  <2> QED BY <1>10, <2>2, <2>4 DEF Kept
<1>12. CASE (rotated \/ m.pending # 0) /\ Finish(k, [m EXCEPT !.pending = n])
  <2> DEFINE q == [m EXCEPT !.pending = n]
  <2>1. q.pending = n /\ q.loaded = m.loaded /\ q.st = m.st
    BY <1>7 DEF Credentials
  <2>2. Finish(k, q) /\ Idle.pc = "idle"
    BY <1>12 DEF Idle
  <2> HIDE DEF q
  <2>3. rt[mem[k].st] \notin live
    BY <1>5, <1>7, <1>12
  <2>4. Keeps(q, Idle, vSt', rt', live', Rotations')
    BY <1>5, <1>7, <2>1, <2>2, <2>3 DEF Keeps, Rested
  <2>5. KeepInv' /\ mem'[k] = q /\ \A r \in Held : r \in Held' \/ Lost(k, r)
    BY <1>1, <1>3, <2>2, <2>4, KeepMove DEF Finish
  <2> QED BY <1>10, <2>1, <2>5 DEF Kept
<1>13. CASE WriteState(n, FALSE) /\ ~(rotated \/ m.pending # 0) /\ Go(k, m, o)
  <2>1. ~rotated /\ mem[k].pending = 0 /\ m.pending = 0 /\ (vSt' = n \/ vSt' = vSt)
    BY <1>7, <1>13 DEF WriteState
  <2>2. Keeps(m, o, vSt', rt', live', Rotations')
    BY <1>5, <1>7, <1>8, <2>1 DEF Keeps, Rested
  <2>3. KeepInv' /\ \A r \in Held : r \in Held' \/ Lost(k, r)
    BY <1>1, <1>3, <1>13, <2>2, KeepMove DEF Go
  <2> QED BY <1>10, <2>1, <2>3 DEF Kept
<1> QED BY <1>9, <1>11, <1>12, <1>13

\* The steps of a step-up, and a crash.
LEMMA KeepStepUp ==
    ASSUME IInv, KeepInv, NEW k \in Gateways,
           StepUp(k) \/ StoreStepUpState(k) \/ StoreStepUpBearer(k) \/ Crash(k)
    PROVE  KeepInv' /\ Kept
<1>1. /\ mem[k] \in Credentials /\ op[k] \in Op /\ (op[k].new # 0 <=> op[k].pc = "put")
      /\ mem[k].pending # 0 => mem[k].st # 0
  BY Known
<1>2. /\ Idle.pc = "idle" /\ Idle.phase = "look" /\ Idle.new = 0
      /\ Fresh.pending = 0 /\ Fresh.st = 0 /\ ~Fresh.loaded
  BY DEF Idle, Fresh
<1>3. op[k].pc \in {"ustate", "uacc"} => Reason
  BY DEF Reason
<1>4. CASE StepUp(k)
  <2> DEFINE o == [Idle EXCEPT !.pc = "ustate", !.phase = "winner", !.force = TRUE, !.src = minted']
  <2>1. /\ Grant /\ op[k].pc = "idle" /\ op' = [op EXCEPT ![k] = o]
        /\ mem' = mem /\ vSt' = vSt
    BY <1>4 DEF StepUp, Start, vault
  <2>2. o.pc = "ustate" /\ o.new = 0 /\ o.src = minted'
    BY DEF Idle
  <2>3. mem' = [mem EXCEPT ![k] = mem[k]]
    BY <2>1 DEF IInv, TypeOK
  <2>4. World /\ rt'[minted'] \in {0, minted'}
    BY <2>1, GrantMints, WorldMints
  <2> HIDE DEF o
  <2>5. Keeps(mem[k], op[k], vSt', rt', live', Rotations')
    BY <2>1, <2>4, KeepsStay
  <2>6. Keeps(mem[k], o, vSt', rt', live', Rotations')
    BY <2>2, <2>4, <2>5 DEF Keeps
  <2> QED BY <1>1, <2>1, <2>2, <2>3, <2>4, <2>6, KeepQuiet
<1>5. CASE StoreStepUpState(k)
  <2>1. op[k].pc = "ustate" /\ UNCHANGED provider /\ World /\ vSt' \in {op[k].src, vSt}
    BY <1>5, WorldStays DEF StoreStepUpState, WriteState
  <2>2. rt'[op[k].src] \notin Rotations'
    <3>1. rt[op[k].src] \in {0, op[k].src}
      BY <2>1 DEF KeepInv, Keeps
    <3>2. op[k].src \in Unbought
      BY <2>1, Midway DEF Fits
    <3>3. op[k].src \notin Rotations /\ 0 \notin Rotations
      BY <3>2 DEF Unbought, Rotations
    <3>4. rt' = rt /\ Rotations' = Rotations
      BY <2>1 DEF provider, Rotations
    <3> QED BY <3>1, <3>3, <3>4
  <2>3. Replaces(k) /\ Keeps(mem[k], op[k], vSt', rt', live', Rotations')
    BY <2>1, <2>2, KeepsStay DEF Replaces
  <2>4. CASE Go(k, mem[k], [op[k] EXCEPT !.pc = "uacc"])
    <3> DEFINE q == [op[k] EXCEPT !.pc = "uacc"]
    <3>1. q.pc = "uacc" /\ Go(k, mem[k], q)
      BY <1>1, <2>4 DEF Op
    <3> HIDE DEF q
    <3>2. Keeps(mem[k], q, vSt', rt', live', Rotations')
      BY <2>3, <3>1 DEF Keeps
    <3>3. KeepInv'
      BY <2>1, <2>3, <3>1, <3>2, KeepMove DEF Go
    <3> QED BY <1>3, <2>1, <3>3 DEF Kept
  <2>5. CASE Finish(k, mem[k])
    <3>1. Keeps(mem[k], Idle, vSt', rt', live', Rotations')
      BY <1>2, <2>3 DEF Keeps
    <3>2. KeepInv'
      BY <2>1, <2>3, <2>5, <3>1, KeepMove DEF Finish
    <3> QED BY <1>3, <2>1, <3>2 DEF Kept
  <2> QED BY <1>5, <2>4, <2>5 DEF StoreStepUpState
<1>6. CASE StoreStepUpBearer(k)
  <2>1. op[k].pc = "uacc" /\ World /\ vSt' = vSt /\ Replaces(k)
    BY <1>6, WorldStays DEF StoreStepUpBearer, WriteBearer, Replaces
  <2>2. Keeps(mem[k], op[k], vSt', rt', live', Rotations')
    BY <2>1, KeepsStay
  <2>3. CASE Go(k, [mem[k] EXCEPT !.pending = 0], [op[k] EXCEPT !.pc = "acc"])
    <3> DEFINE m == [mem[k] EXCEPT !.pending = 0]
    <3> DEFINE q == [op[k] EXCEPT !.pc = "acc"]
    <3>1. m.pending = 0 /\ m.st = mem[k].st /\ m.loaded = mem[k].loaded
      BY <1>1 DEF Credentials
    <3>2. q.pc = "acc" /\ Go(k, m, q)
      BY <1>1, <2>3 DEF Op
    <3> HIDE DEF m, q
    <3>3. Keeps(m, q, vSt', rt', live', Rotations')
      BY <2>2, <3>1, <3>2 DEF Keeps, Rested
    <3>4. KeepInv'
      BY <2>1, <3>2, <3>3, KeepMove DEF Go
    <3> QED BY <1>3, <2>1, <3>4 DEF Kept
  <2>4. CASE Finish(k, mem[k])
    BY <2>1, <2>4, KeepRest
  <2> QED BY <1>6, <2>3, <2>4 DEF StoreStepUpBearer
<1>7. CASE Crash(k)
  <2>1. Finish(k, Fresh) /\ World /\ vSt' = vSt /\ Replaces(k)
    BY <1>7, WorldStays DEF Crash, vault, Replaces
  <2>2. Keeps(Fresh, Idle, vSt', rt', live', Rotations')
    BY <1>2 DEF Keeps, Rested
  <2>3. KeepInv' /\ mem'[k] = Fresh /\ \A r \in Held : r \in Held' \/ Lost(k, r)
    BY <2>1, <2>2, KeepMove DEF Finish
  <2>4. ASSUME NEW r, Lost(k, r) PROVE Reason
    <3>1. PICK n \in {vSt, mem[k].pending, op[k].new} \ {0} : rt[n] = r
      BY <2>4 DEF Lost
    <3>2. n \in 0..minted /\ minted \in Nat
      BY <3>1, Known
    <3>3. rt'[n] = r
      BY <2>1, <3>1, <3>2 DEF World
    <3>4. n # vSt
      BY <2>1, <2>4, <3>1, <3>3 DEF Lost
    <3>5. mem[k].st # 0
      <4>1. op[k].pc = "put" => mem[k].st # 0
        BY Midway DEF Fits
      <4> QED BY <1>1, <3>1, <3>4, <4>1
    <3>6. mem[k].loaded
      BY <3>5 DEF KeepInv, Keeps, Rested
    <3> QED BY <1>2, <2>3, <3>6 DEF Reason
  <2> QED BY <2>3, <2>4 DEF Kept
<1> QED BY <1>4, <1>5, <1>6, <1>7

\* The acts of the user.
LEMMA KeepDesk ==
    ASSUME IInv, KeepInv, SignIn \/ SetAuthToken \/ ClearAuthToken \/ StoreBearer
    PROVE  KeepInv' /\ Kept
<1>1. mem' = mem /\ op' = op
  BY DEF SignIn, SetAuthToken, ClearAuthToken, StoreBearer
<1>2. World /\ (vSt' = vSt \/ vSt' = 0 \/ rt'[vSt'] \notin Rotations')
  <2>1. CASE SignIn
    <3>1. Mints(0) /\ bought' = bought /\ rt'[minted'] \in {0, minted'}
      BY <2>1, GrantMints DEF SignIn
    <3>2. /\ World /\ minted' = minted + 1 /\ minted \in Nat /\ Rotations' = Rotations
          /\ \A n \in Rotations : n \in 1..minted
      BY <3>1, WorldMints
    <3>3. 0 \notin Rotations /\ minted' \notin Rotations
      BY <3>2
    <3> QED BY <2>1, <3>1, <3>2, <3>3 DEF SignIn
  <2>2. CASE SetAuthToken
    <3>1. Grant /\ vSt' = 0
      BY <2>2 DEF SetAuthToken, Grant
    <3> QED BY <3>1, GrantMints, WorldMints
  <2>3. CASE ClearAuthToken \/ StoreBearer
    BY <2>3, WorldStays DEF ClearAuthToken, StoreBearer, WriteBearer
  <2> QED BY <2>1, <2>2, <2>3
<1>3. ASSUME NEW g \in Gateways PROVE Keeps(mem[g], op[g], vSt', rt', live', Rotations')
  BY <1>2, KeepsStay
<1>4. KeepInv'
  BY <1>1, <1>3 DEF KeepInv
<1>5. CASE SignIn \/ SetAuthToken \/ ClearAuthToken
  <2>1. desk = <<>> /\ \E x : desk' = <<x>>
    BY <1>5 DEF SignIn, SetAuthToken, ClearAuthToken
  <2>2. desk' \notin {desk, <<>>}
    BY <2>1
  <2>3. Reason
    BY <2>2 DEF Reason
  <2> QED BY <1>4, <2>3 DEF Kept
<1>6. CASE StoreBearer
  <2>1. Held' = Held
    BY <1>1, <1>6 DEF StoreBearer, WriteBearer, provider, Held
  <2> QED BY <1>4, <2>1 DEF Kept
<1> QED BY <1>4, <1>5, <1>6

LEMMA KeepNext == IInv /\ KeepInv /\ [Next]_vars => KeepInv' /\ (Kept \/ UNCHANGED vars)
<1> SUFFICES ASSUME IInv, KeepInv, [Next]_vars PROVE KeepInv' /\ (Kept \/ UNCHANGED vars)
  OBVIOUS
<1>1. ASSUME NEW g \in Gateways,
             \/ CurrentCredential(g) \/ RefreshIfNeeded(g)
             \/ \E r \in {mem[g].token, mem[g].acc} : RefreshToken(g, r)
             \/ ReadAccess(g) \/ AcquireLock(g) \/ RereadState(g) \/ Decide(g)
      PROVE  KeepInv' /\ Kept
  BY <1>1, KeepReads
<1>2. ASSUME NEW g \in Gateways, ReadState(g) \/ SaveAccess(g) PROVE KeepInv' /\ Kept
  BY <1>2, KeepReadState, KeepSaveAccess
<1>3. ASSUME NEW g \in Gateways, RetrySave(g) \/ Exchange(g) \/ Put(g) PROVE KeepInv' /\ Kept
  BY <1>3, KeepRetrySave, KeepExchange, KeepPut
<1>4. ASSUME NEW g \in Gateways,
             StepUp(g) \/ StoreStepUpState(g) \/ StoreStepUpBearer(g) \/ Crash(g)
      PROVE  KeepInv' /\ Kept
  BY <1>4, KeepStepUp
<1>5. CASE SignIn \/ SetAuthToken \/ ClearAuthToken \/ StoreBearer
  BY <1>5, KeepDesk
<1>6. CASE UNCHANGED vars
  <2>1. UNCHANGED <<rt, live, bought, vSt, mem, op>>
    BY <1>6 DEF vars, provider, vault
  <2>2. KeepInv'
    BY <2>1 DEF KeepInv, Keeps, Rested, Rotations
  <2> QED BY <1>6, <2>2
<1> QED BY <1>1, <1>2, <1>3, <1>4, <1>5, <1>6 DEF Next

\* A rotated refresh token that is still good is dropped only by the user's own act, by the
\* end of the gateway that had it in memory, or by a gateway that found the vault changed
\* under it (remote.rs:477-505, 720-727, 855-886), for any number of gateways, grants,
\* operations and failures.
THEOREM GoodRotationsStay == Spec => RotationsKept
<1>1. Init => KeepInv
  <2> SUFFICES ASSUME Init, NEW g \in Gateways
               PROVE  Keeps(mem[g], op[g], vSt, rt, live, Rotations)
    BY DEF KeepInv
  <2>1. mem[g] = Fresh /\ op[g] = Idle
    BY DEF Init
  <2>2. Fresh.pending = 0 /\ Fresh.st = 0 /\ Idle.pc = "idle"
    BY DEF Fresh, Idle
  <2> QED BY <2>1, <2>2 DEF Keeps, Rested
<1>2. IInv /\ KeepInv /\ [Next]_vars => KeepInv'
  BY KeepNext
<1>3. IInv /\ KeepInv /\ [Next]_vars =>
        [ \A r \in Rotations \cap live \cap Held :
            r \in live' \ Held' =>
                \/ desk' \notin {desk, <<>>}
                \/ \E g \in Gateways : op[g].pc \in {"ustate", "uacc"}
                \/ \E g \in Gateways : mem[g].loaded /\ ~mem'[g].loaded
                \/ \E g \in Gateways : op[g].pc = "st" /\ Changed(mem[g], op[g].seen, vSt)
                \/ \E g \in Gateways : op[g].pc = "st" /\ op[g].phase = "winner" /\ op[g].src # mem[g].acc
                \/ \E g \in Gateways : op[g].pc = "put" /\ vSt # mem[g].st ]_vars
  BY KeepNext DEF Kept, Reason
<1> QED BY <1>1, <1>2, <1>3, InvHolds, PTL DEF Spec, RotationsKept
=============================================================================
