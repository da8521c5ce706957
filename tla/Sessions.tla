------------------------------ MODULE Sessions ------------------------------
(***************************************************************************)
(* Table sessions and the transactions of auth.Service on it: a login      *)
(* opens a family of tokens, a refresh exchanges the family's pair of      *)
(* access and refresh token for a new one, a logout ends the family.       *)
(*                                                                         *)
(* Refresh and Logout lock the row of the token they are given, then       *)
(* revoke the family with a second statement.  Under READ COMMITTED that   *)
(* statement sees what is committed when IT starts, locks row by row, and  *)
(* skips a row that another transaction revoked while it waited.  Rows     *)
(* are locked in no fixed order, so transactions may wait for each other;  *)
(* PostgreSQL then aborts one.                                             *)
(*                                                                         *)
(* Users, organizations and password checks do not matter to the families. *)
(***************************************************************************)
EXTENDS Naturals, Sequences, FiniteSets

Lists == INSTANCE SequencesExt     \* SetToSeqs

CONSTANTS
    Calls,      \* calls of the auth handlers that may run at the same time
    MaxPairs,   \* bound: pairs of tokens issued
    MaxExpired  \* bound: refresh tokens that reach their expires_at

ASSUME BoundsAssumption == MaxPairs \in Nat /\ MaxExpired \in Nat

VARIABLES
    pairs,      \* committed rows of sessions, two per pair, in order of issue
    expired,    \* pairs whose refresh token has outlived its 30 days
    call        \* per call, the transaction of its handler

vars == <<pairs, expired, call>>

-----------------------------------------------------------------------------
(* Rows and locks                                                          *)

Kinds == {"access", "refresh"}      \* token_kind

\* "from" is not a column: it is the pair exchanged for this one, 0 after a login.
Pair == [family : Nat, revoked : SUBSET Kinds, from : Nat]

PairIds == DOMAIN pairs
Rows    == PairIds \X Kinds

\* "targets": rows the running UPDATE has still to visit; "revoked": those it has
\* revoked, not yet committed.  "live": revoked_at was NULL when the row was locked.
\* History: "since", the pairs issued when the request came in, and "committed".
Call == [pc : {"idle", "presented", "selected", "revoking", "answered"},
         op : {"none", "refresh", "logout"}, pair : Nat, live : BOOLEAN,
         targets : Seq(Nat \X Kinds), revoked : SUBSET (Nat \X Kinds),
         answer : {"none", "ok", "refused", "error"},
         since : Nat, committed : BOOLEAN]

NoCall == [pc |-> "idle", op |-> "none", pair |-> 0, live |-> FALSE,
           targets |-> <<>>, revoked |-> {}, answer |-> "none",
           since |-> 0, committed |-> FALSE]

FamilyOf(c) == pairs[call[c].pair].family

\* token_hash = $1 AND token_kind = 'refresh'
TokenRow(c) == <<call[c].pair, "refresh">>

Unrevoked(p) == Kinds \ pairs[p].revoked

TokenOnly(c) == {r \in {TokenRow(c)} : r[2] \in Unrevoked(r[1])}

\* WHERE family_id = $1 AND revoked_at IS NULL, as of now
FamilyRows(c) == {r \in Rows : pairs[r[1]].family = FamilyOf(c) /\ r[2] \in Unrevoked(r[1])}

HoldsUntilReceived(c) ==
    IF call[c].pc \in {"selected", "revoking", "answered"}
    THEN {TokenRow(c)} \cup call[c].revoked ELSE {}

\* Row locks of an open transaction.
Holds(c) ==
    IF call[c].pc \in {"selected", "revoking"} THEN {TokenRow(c)} \cup call[c].revoked ELSE {}

RowFree(c, r) == \A d \in Calls \ {c} : r \notin Holds(d)

Unlocked(c, r) == TRUE

\* FOR UPDATE waits for the row's lock.
MayRead(c, r) == RowFree(c, r)

\* c waits for a lock of d.
Waits(c, d) ==
    /\ c # d
    /\ \/ call[c].pc = "presented" /\ TokenRow(c) \in Holds(d)
       \/ call[c].pc = "revoking" /\ call[c].targets # <<>> /\ Head(call[c].targets) \in Holds(d)

\* Every call of S waits for another one of S, and another one for it.
Cycle(S) == \A a \in S : (\E b \in S : Waits(a, b)) /\ (\E b \in S : Waits(b, a))

-----------------------------------------------------------------------------
Init ==
    /\ pairs = <<>>
    /\ expired = {}
    /\ call = [c \in Calls |-> NoCall]

\* What the bound has to reckon with: refreshes that may still issue a pair.
MayIssue(op, p) == op = "refresh" /\ "refresh" \in Unrevoked(p)

Issuing == Cardinality({c \in Calls : /\ call[c].pc \in {"presented", "selected", "revoking"}
                                      /\ MayIssue(call[c].op, call[c].pair)})

NoFamily == 0

\* if familyID == "" { SELECT gen_random_uuid() }
NewFamily == Len(pairs) + 1

\* Two rows: an access and a refresh token of the family.
issueSessionPair(f, exchanged) == [family |-> f, revoked |-> {}, from |-> exchanged]

OpenSession ==
    /\ Len(pairs) + Issuing < MaxPairs
    /\ pairs' = Append(pairs, issueSessionPair(NewFamily, 0))
    /\ UNCHANGED <<expired, call>>

\* The password of a member matched: a new family.
Login == OpenSession

\* The organization, its owner and the owner's first pair, in one transaction; a
\* registration that fails leaves nothing behind.
Register == OpenSession

\* A request brings the refresh token of some pair.
Present(c, op, p) ==
    /\ call[c].pc = "idle"
    /\ MayIssue(op, p) => Len(pairs) + Issuing < MaxPairs
    /\ call' = [call EXCEPT ![c] = [NoCall EXCEPT !.pc = "presented", !.op = op, !.pair = p,
                                                    !.since = Len(pairs)]]
    /\ UNCHANGED <<pairs, expired>>

\* The refresh token of a pair reaches its expires_at.
Expire(p) ==
    /\ p \notin expired
    /\ Cardinality(expired) < MaxExpired
    /\ expired' = expired \cup {p}
    /\ UNCHANGED <<pairs, call>>

\* The end of a handler: commit or rollback released the locks.
Answered(c, answer) == [call[c] EXCEPT !.pc = "answered", !.answer = answer,
                                       !.targets = <<>>, !.revoked = {}]

\* SELECT ... FOR UPDATE.  A refresh with an expired token ends here; a logout
\* does not ask.
Select(c) ==
    /\ call[c].pc = "presented"
    /\ MayRead(c, TokenRow(c))
    /\ call' = [call EXCEPT ![c] =
          IF call[c].op = "refresh" /\ call[c].pair \in expired THEN Answered(c, "refused")
          ELSE [call[c] EXCEPT !.pc = "selected",
                               !.live = "refresh" \in Unrevoked(call[c].pair)]]
    /\ UNCHANGED <<pairs, expired>>

\* UPDATE sessions SET revoked_at = now() ...: the statement takes its snapshot
\* and will visit the rows in some order.
StartRevoke(c) ==
    /\ call[c].pc = "selected"
    /\ \E order \in Lists!SetToSeqs(FamilyRows(c)) :
          call' = [call EXCEPT ![c].pc = "revoking", ![c].targets = order]
    /\ UNCHANGED <<pairs, expired>>

\* The next row, once its lock is free; it is skipped if no longer unrevoked.
RevokeRow(c) ==
    LET r == Head(call[c].targets) IN
    /\ call[c].pc = "revoking" /\ call[c].targets # <<>>
    /\ RowFree(c, r)
    /\ call' = [call EXCEPT ![c].targets = Tail(@),
                            ![c].revoked = IF r[2] \in Unrevoked(r[1]) THEN @ \cup {r} ELSE @]
    /\ UNCHANGED <<pairs, expired>>

AfterRevoke(c) ==
    [p \in PairIds |->
       [pairs[p] EXCEPT !.revoked = pairs[p].revoked \cup {k \in Kinds : <<p, k>> \in call[c].revoked}]]

\* The commit publishes the revocations and, when a refresh found its token
\* unrevoked, the new pair.  A refresh that found it revoked only ends the family.
Commit(c) ==
    /\ call[c].pc = "revoking" /\ call[c].targets = <<>>
    /\ LET rotates == call[c].op = "refresh" /\ call[c].live IN
       /\ pairs' = IF rotates
                   THEN Append(AfterRevoke(c), issueSessionPair(FamilyOf(c), call[c].pair))
                   ELSE AfterRevoke(c)
       /\ call' = [call EXCEPT ![c] =
             [Answered(c, IF call[c].op = "logout" \/ rotates THEN "ok" ELSE "refused")
                EXCEPT !.committed = TRUE]]
    /\ UNCHANGED expired

\* The client goes away, the connection is lost, or PostgreSQL breaks a deadlock:
\* the transaction is rolled back.  A refresh that only ends the family ignores
\* the error.
Abort(c) ==
    /\ call[c].pc \in {"presented", "selected", "revoking"}
    /\ call' = [call EXCEPT ![c] =
          Answered(c, IF call[c].pc # "presented" /\ call[c].op = "refresh" /\ ~call[c].live
                      THEN "refused" ELSE "error")]
    /\ UNCHANGED <<pairs, expired>>

\* The client reads the answer, or never does.
Receive(c) ==
    /\ call[c].pc = "answered"
    /\ call' = [call EXCEPT ![c] = NoCall]
    /\ UNCHANGED <<pairs, expired>>

-----------------------------------------------------------------------------
Handle(c) == Select(c) \/ StartRevoke(c) \/ RevokeRow(c) \/ Commit(c)

Next ==
    \/ Login \/ Register
    \/ \E p \in PairIds : Expire(p)
    \/ \E c \in Calls :
          \/ \E op \in {"refresh", "logout"}, p \in PairIds : Present(c, op, p)
          \/ Handle(c) \/ Abort(c) \/ Receive(c)

Spec == Init /\ [][Next]_vars

\* A handler runs on, PostgreSQL grants a row lock in the order it was asked for
\* (so later calls cannot overtake a waiting one for ever), and its deadlock
\* detector aborts a transaction of every cycle.  Nothing makes a client call,
\* go away or read its answer.
Fairness ==
    /\ \A c \in Calls : SF_vars(Handle(c))
    /\ \A S \in SUBSET Calls : WF_vars(Cycle(S) /\ \E c \in S : Abort(c))

FairSpec == Spec /\ Fairness

-----------------------------------------------------------------------------
(***************************************************************************)
(* Properties                                                              *)
(***************************************************************************)

\* Rows and transactions have their types; a family is named by its first pair.
TypeOK ==
    /\ pairs \in Seq(Pair)
    /\ \A p \in PairIds : pairs[p].family \in 1 .. p /\ pairs[p].from < p
    /\ expired \subseteq PairIds
    /\ call \in [Calls -> Call]

\* Concurrent refreshes of one family never leave two sessions behind: at most
\* one pair of a family has a token that is not revoked.
OneLivePair ==
    \A p, q \in PairIds :
        pairs[p].family = pairs[q].family /\ Unrevoked(p) # {} /\ Unrevoked(q) # {} => p = q

\* The two tokens of a pair are revoked together, whatever order the rows are
\* visited in and whoever is aborted: no access token outlives its refresh token.
RevokedTogether == \A p \in PairIds : Unrevoked(p) \in {{}, Kinds}

\* A refresh token is exchanged at most once (service.go:163-185).
ExchangedOnce ==
    \A p, q \in PairIds : pairs[p].from = pairs[q].from /\ pairs[p].from # 0 => p = q

\* A call as TokenCalls has it: asked until its transaction is over, then served if
\* that was a commit and lost if not.
Outcome(c) ==
    CASE call[c].pc = "idle" -> "none"
      [] call[c].pc \in {"presented", "selected", "revoking"} -> "asked"
      [] OTHER -> IF call[c].committed THEN "served" ELSE "lost"

Families == INSTANCE TokenCalls WITH
    pairs <- [p \in PairIds |-> [family |-> pairs[p].family, live |-> Unrevoked(p) # {},
                                 from |-> pairs[p].from]],
    call <- [c \in Calls |-> [pc |-> Outcome(c), op |-> call[c].op, pair |-> call[c].pair,
                              since |-> call[c].since]]

\* Whatever their locks and snapshots do, the transactions act on the families as
\* single steps between request and answer: a committed refresh has exchanged its
\* pair or, if the token was used before, ended the family, and a committed logout
\* has ended it (service.go:164-192, 200-223).  The exception is in the promise: a
\* call with an older token may be outrun by a refresh with a newer one.
ImplementsFamilies == Families!Spec

\* service.go:151 without that exception: "Reusing an old refresh token revokes its
\* whole token family".
ReuseRevokesFamily ==
    [][\A c \in Calls :
          call[c].op = "refresh" /\ ~call[c].live /\ Commit(c)
             => \A p \in DOMAIN pairs' :
                   pairs'[p].family = FamilyOf(c) => pairs'[p].revoked = Kinds]_vars

\* A logout that finds its token unrevoked ends the family.  One with an older token
\* ends it too, except for what a refresh with a newer token commits meanwhile
\* (service.go:218); the refresh of its own token never escapes it.
LogoutEndsSession ==
    [][\A c \in Calls :
          call[c].op = "logout" /\ Commit(c)
             => \A p \in DOMAIN pairs' :
                   pairs'[p].family = FamilyOf(c) =>
                      \/ pairs'[p].revoked = Kinds
                      \/ ~call[c].live /\ p # call[c].pair /\ pairs'[p].from # call[c].pair]_vars

\* Every handler answers: locks are waited for, but nobody waits for ever.
EveryCallAnswered ==
    \A c \in Calls : call[c].pc = "presented" ~> call[c].pc \in {"answered", "idle"}

=============================================================================
