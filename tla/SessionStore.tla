---------------------------- MODULE SessionStore ----------------------------
(***************************************************************************)
(* The bounded, expiring table of session_store.rs as operators on its     *)
(* entries: a function from keys to records with a field `seen` (the last  *)
(* touch) and a field `seq` (insertion order).  `now` is the clock.        *)
(***************************************************************************)
EXTENDS Naturals, FiniteSets

CONSTANTS Ttl, Cap

Expired(e, now) == now - e.seen >= Ttl

Live(s, k, now) == k \in DOMAIN s /\ ~Expired(s[k], now)

Keep(s, K) == [k \in K |-> s[k]]

Remove(s, k) == Keep(s, DOMAIN s \ {k})

ReapExpired(s, now) == Keep(s, {k \in DOMAIN s : ~Expired(s[k], now)})

\* Dropping the oldest entry while there are more than Cap leaves the Cap
\* entries inserted last.
EvictToCap(s) ==
    Keep(s, {k \in DOMAIN s : Cardinality({j \in DOMAIN s : s[j].seq > s[k].seq}) < Cap})

Put(s, k, e) == [j \in DOMAIN s \cup {k} |-> IF j = k THEN e ELSE s[j]]

Insert(s, k, e, now) == EvictToCap(Put(ReapExpired(s, now), k, e))

\* The touch of `with`, which an expired entry does not survive.
Touch(s, k, now) ==
    IF Live(s, k, now) THEN [s EXCEPT ![k].seen = now] ELSE Remove(s, k)
=============================================================================
