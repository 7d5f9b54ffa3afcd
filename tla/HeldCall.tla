------------------------------ MODULE HeldCall ------------------------------
(***************************************************************************)
(* What a human-in-the-loop gate promises, whatever carries the question:  *)
(* a prompt shows one content, gets at most one verdict, and only a yes    *)
(* lets a call run, with the content that was shown.  It does not promise  *)
(* that a yes is used for one call only.  ModernApprovals, the             *)
(* re-entrant requests of modern clients, and ApprovalBroker, the blocking *)
(* path through the desktop app, are shown to implement it.                *)
(***************************************************************************)
CONSTANTS Prompts, Contents, Nothing

VARIABLES verdict,  \* of each prompt
          shown,    \* the content the person was shown, or Nothing
          ran       \* what was executed on the strength of which prompt

vars == <<verdict, shown, ran>>

Final == {"yes", "no", "lapsed"}

TypeOK == /\ verdict \in [Prompts -> {"unasked", "asked"} \cup Final]
          /\ shown \in [Prompts -> Contents \cup {Nothing}]
          /\ ran \subseteq Prompts \X Contents

Init == /\ verdict = [p \in Prompts |-> "unasked"]
        /\ shown = [p \in Prompts |-> Nothing]
        /\ ran = {}

\* One prompt is put; others may be found to have lapsed in the same moment.
Ask(p, P) ==
    /\ verdict[p] = "unasked"
    /\ \A q \in P : q # p /\ verdict[q] = "asked"
    /\ verdict' = [q \in Prompts |-> IF q = p THEN "asked"
                                     ELSE IF q \in P THEN "lapsed" ELSE verdict[q]]
    /\ \E c \in Contents : shown' = [shown EXCEPT ![p] = c]
    /\ UNCHANGED ran

\* The person's answer.
Answer(p) == /\ verdict[p] = "asked"
             /\ \E v \in {"yes", "no"} : verdict' = [verdict EXCEPT ![p] = v]
             /\ UNCHANGED <<shown, ran>>

\* Prompts that end without an answer, or were never put; several at once.
Lapse(P) == /\ \A p \in P : verdict[p] \in {"unasked", "asked"}
            /\ verdict' = [p \in Prompts |-> IF p \in P THEN "lapsed" ELSE verdict[p]]
            /\ UNCHANGED <<shown, ran>>

Execute(p) == /\ verdict[p] = "yes"
              /\ ran' = ran \cup {<<p, shown[p]>>}
              /\ UNCHANGED <<verdict, shown>>

Next == \/ \E p \in Prompts : Answer(p) \/ Execute(p)
        \/ \E P \in SUBSET Prompts : Lapse(P) \/ \E p \in Prompts : Ask(p, P)

Spec == Init /\ [][Next]_vars
=============================================================================
