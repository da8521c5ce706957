--------------------------- MODULE TokenFamilies ---------------------------
(***************************************************************************)
(* The families of session tokens, and the single steps that may change    *)
(* them: a login opens a family with a pair of tokens, a refresh exchanges *)
(* a live pair for the next one, and a call may end a family.  Which call  *)
(* has to end one is said in TokenCalls.                                   *)
(***************************************************************************)
EXTENDS Naturals, Sequences

VARIABLE pairs      \* pairs of access and refresh token, in order of issue

\* A family is named by its first pair; "from" is the pair exchanged for this one.
NewPair(family, exchanged) == [family |-> family, live |-> TRUE, from |-> exchanged]

Ended(family) ==
    [p \in DOMAIN pairs |->
       [pairs[p] EXCEPT !.live = IF pairs[p].family = family THEN FALSE ELSE @]]

Open == pairs' = Append(pairs, NewPair(Len(pairs) + 1, 0))

Rotate(p) ==
    /\ pairs[p].live
    /\ pairs' = Append(Ended(pairs[p].family), NewPair(pairs[p].family, p))

End(p) == pairs' = Ended(pairs[p].family)

\* A call came with a token that is no longer live, when "since" pairs were issued,
\* and a refresh with a newer token of the family, at work at the same time, has
\* issued a pair that the call did not see.
Outrun(p, since) ==
    /\ ~pairs[p].live
    /\ \E q \in since + 1 .. Len(pairs) :
          pairs[q].live /\ pairs[q].family = pairs[p].family /\ pairs[q].from # p
    /\ UNCHANGED pairs

\* The family is over after the call, unless the call was outrun.
EndLate(p, since) == End(p) \/ Outrun(p, since)

TableInit == pairs = <<>>

TableNext == Open \/ \E p \in DOMAIN pairs : Rotate(p) \/ End(p)

TableSpec == TableInit /\ [][TableNext]_pairs

=============================================================================
