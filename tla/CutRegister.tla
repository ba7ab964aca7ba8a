---------------------------- MODULE CutRegister ----------------------------
(***************************************************************************)
(* What the publication authority promises, with no lock, no pin table and *)
(* no intermediate step: one register that holds the published cut.  A     *)
(* publication is offered against the cut that was current when the offer  *)
(* was made; it takes effect at most once, in one step, and only while     *)
(* that cut is still current.  A reader obtains the whole current cut in   *)
(* one step; a publisher obtains the cut it has published.                 *)
(***************************************************************************)
CONSTANTS
    Thread,     \* callers
    OfferId,    \* one identity per prepared publication
    Root,       \* complete cuts
    InitRoot,   \* the cut the register is created with
    Nothing     \* no offer yet, or no view held

VARIABLES
    current,    \* the published cut
    offer,      \* OfferId -> Nothing or [base, root, spent]
    seen        \* Thread -> the cut its view shows, or Nothing

vars == <<current, offer, seen>>

Offer == [base : Root, root : Root, spent : BOOLEAN]

Init ==
    /\ current = InitRoot
    /\ offer = [i \in OfferId |-> Nothing]
    /\ seen = [t \in Thread |-> Nothing]

(* A publication is bound to the current cut.                              *)
Propose(i, r) ==
    /\ offer[i] = Nothing
    /\ offer' = [offer EXCEPT ![i] = [base |-> current, root |-> r, spent |-> FALSE]]
    /\ UNCHANGED <<current, seen>>

(* Compare and swap: the offer replaces the very cut it was made against,  *)
(* and its publisher now looks at the cut it installed.                    *)
Accept(t, i) ==
    /\ offer[i] # Nothing
    /\ ~offer[i].spent
    /\ offer[i].base = current
    /\ current' = offer[i].root
    /\ offer' = [offer EXCEPT ![i].spent = TRUE]
    /\ seen' = [seen EXCEPT ![t] = offer[i].root]

Read(t) ==
    /\ seen' = [seen EXCEPT ![t] = current]
    /\ UNCHANGED <<current, offer>>

Forget(t) ==
    /\ seen' = [seen EXCEPT ![t] = Nothing]
    /\ UNCHANGED <<current, offer>>

Next ==
    \/ \E i \in OfferId, r \in Root : Propose(i, r)
    \/ \E t \in Thread, i \in OfferId : Accept(t, i)
    \/ \E t \in Thread : Read(t) \/ Forget(t)

Spec == Init /\ [][Next]_vars
=============================================================================
