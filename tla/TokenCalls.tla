----------------------------- MODULE TokenCalls -----------------------------
(***************************************************************************)
(* What auth.Service promises to the calls of its clients.  A refresh with *)
(* a live token gets the next pair of the family; a refresh with a token   *)
(* that was used before, and a sign-out, end the family; each in one step  *)
(* between the call's request and its answer.                              *)
(*                                                                         *)
(* One case is short of that: a call with an older token ends nothing if a *)
(* refresh with a newer token of the family outruns it (EndLate).          *)
(***************************************************************************)
EXTENDS TokenFamilies

CONSTANT Calls

VARIABLE call       \* per call: how far it is, and the pair whose token it brings

\* "since": pairs that were issued when the call came in.
NoCall == [pc |-> "none", op |-> "none", pair |-> 0, since |-> 0]

Init == TableInit /\ call = [c \in Calls |-> NoCall]

Moves(c, from, to) ==
    call[c].pc = from /\ call' = [call EXCEPT ![c].pc = to]

Login == Open /\ UNCHANGED call

Ask(c, op, p) ==
    /\ call[c].pc = "none"
    /\ call' = [call EXCEPT ![c] = [pc |-> "asked", op |-> op, pair |-> p, since |-> Len(pairs)]]
    /\ UNCHANGED pairs

Refresh(c) ==
    /\ call[c].op = "refresh"
    /\ Moves(c, "asked", "served")
    /\ IF pairs[call[c].pair].live
       THEN Rotate(call[c].pair)
       ELSE EndLate(call[c].pair, call[c].since)

Logout(c) ==
    /\ call[c].op = "logout"
    /\ Moves(c, "asked", "served")
    /\ EndLate(call[c].pair, call[c].since)

\* Expired, rolled back or gone: nothing has happened.
Lose(c) == Moves(c, "asked", "lost") /\ UNCHANGED pairs

Forget(c) ==
    /\ call[c].pc \in {"served", "lost"}
    /\ call' = [call EXCEPT ![c] = NoCall]
    /\ UNCHANGED pairs

Next ==
    \/ Login
    \/ \E c \in Calls :
          \/ \E op \in {"refresh", "logout"}, p \in DOMAIN pairs : Ask(c, op, p)
          \/ Refresh(c) \/ Logout(c) \/ Lose(c) \/ Forget(c)

Spec == Init /\ [][Next]_<<pairs, call>>

=============================================================================
