--------------------------- MODULE SessionProofs ---------------------------
(***************************************************************************)
(* Theorems of Sessions, for any number of calls and pairs.                *)
(*                                                                         *)
(* A refresh decides on what it read of its token and revokes the family   *)
(* with another statement, whose snapshot may be old by the time it gets   *)
(* to a row.  It works because it keeps the row of its token locked: until *)
(* its commit nobody else revokes that pair, or issues one in exchange for *)
(* it.  CallRight says what a call can rely on meanwhile.                  *)
(***************************************************************************)
EXTENDS Sessions, FiniteSetTheorems, TLAPS

-----------------------------------------------------------------------------
(* The inductive invariant                                                 *)

Live(p) == Unrevoked(p) # {}

Elements(s) == {s[i] : i \in DOMAIN s}

\* The rows of c's UPDATE: those still to visit and those revoked.
Touched(c) == Elements(call[c].targets) \cup call[c].revoked

\* A pair that was exchanged is revoked, and the other is of its family.
ExchangedIsDead ==
    \A q \in PairIds : pairs[q].from # 0 =>
       ~Live(pairs[q].from) /\ pairs[pairs[q].from].family = pairs[q].family

\* Between its two statements: live is what the token row still says.
TokenKept(c) == call[c].live <=> Live(call[c].pair)

\* Only rows of the family are touched, and what is revoked was unrevoked and
\* stays so until the commit.
InFamily(c) ==
    /\ \A r \in Touched(c) : r \in Rows /\ pairs[r[1]].family = FamilyOf(c)
    /\ \A r \in call[c].revoked : r[2] \in Unrevoked(r[1])

\* Of every pair that is live, both rows are touched or none; and both of the token's
\* pair, of the one exchanged for it, and of those issued before the call came in.
WholePairs(c) ==
    \A q \in PairIds : Live(q) =>
       /\ (\A k \in Kinds : <<q, k>> \in Touched(c)) \/ (\A k \in Kinds : <<q, k>> \notin Touched(c))
       /\ call[c].pair \in {q, pairs[q].from} => \A k \in Kinds : <<q, k>> \in Touched(c)
       /\ pairs[q].family = FamilyOf(c) /\ q <= call[c].since => \A k \in Kinds : <<q, k>> \in Touched(c)

CallRight(c) ==
    /\ call[c].pc # "idle" => /\ call[c].pair \in PairIds /\ call[c].op \in {"refresh", "logout"}
                              /\ call[c].since <= Len(pairs)
    /\ call[c].committed => call[c].pc = "answered"
    /\ call[c].pc # "revoking" => call[c].targets = <<>> /\ call[c].revoked = {}
    /\ call[c].pc \in {"selected", "revoking"} => TokenKept(c)
    /\ call[c].pc = "revoking" => InFamily(c) /\ WholePairs(c)

LocksExclusive == \A c, d \in Calls : c # d => Holds(c) \cap Holds(d) = {}

FamiliesRight == RevokedTogether /\ OneLivePair /\ ExchangedOnce /\ ExchangedIsDead

IInv ==
    /\ TypeOK
    /\ FamiliesRight
    /\ LocksExclusive
    /\ \A c \in Calls : CallRight(c)

-----------------------------------------------------------------------------
(* Sequences of rows                                                       *)

LEMMA HeadAndTail ==
    ASSUME NEW S, NEW s \in Seq(S), s # <<>>
    PROVE  /\ Head(s) \in S /\ Tail(s) \in Seq(S)
           /\ Elements(s) = {Head(s)} \cup Elements(Tail(s))
<1>1. Len(s) \in Nat \ {0} /\ DOMAIN s = 1 .. Len(s) /\ Head(s) = s[1] /\ Head(s) \in S
  OBVIOUS
<1>2. Tail(s) \in Seq(S) /\ DOMAIN Tail(s) = 1 .. Len(s) - 1
      /\ \A i \in 1 .. Len(s) - 1 : Tail(s)[i] = s[i + 1]
  BY <1>1
<1>3. \A i \in 1 .. Len(s) : i = 1 \/ (i - 1 \in 1 .. Len(s) - 1 /\ s[i] = Tail(s)[i - 1])
  BY <1>1, <1>2
<1>4. \A i \in 1 .. Len(s) - 1 : i + 1 \in 1 .. Len(s)
  BY <1>1
<1>5. 1 \in 1 .. Len(s)
  BY <1>1
<1>6. QED
  BY <1>1, <1>2, <1>3, <1>4, <1>5 DEF Elements

LEMMA NoRows == <<>> \in Seq(Nat \X Kinds)
OBVIOUS

\* An order of a finite set has all its elements.
LEMMA OrderIsComplete ==
    ASSUME NEW S, IsFiniteSet(S), NEW order \in Lists!SetToSeqs(S)
    PROVE  order \in Seq(S) /\ Elements(order) = S
<1> DEFINE n == Cardinality(S)
<1>1. n \in Nat
  BY FS_CardinalityType
<1>2. order \in [1 .. n -> S] /\ \A i, j \in 1 .. n : i # j => order[i] # order[j]
  BY DEF Lists!SetToSeqs, Lists!Cardinality, Cardinality
<1>3. IsFiniteSet(1 .. n) /\ Cardinality(1 .. n) = n
  BY <1>1, FS_Interval
<1>4. order \in Seq(S)
  BY <1>1, <1>2
<1>5. Elements(order) \subseteq S
  BY <1>2 DEF Elements
<1>6. ASSUME NEW x \in S, x \notin Elements(order) PROVE FALSE
  <2>1. IsFiniteSet(S \ {x}) /\ Cardinality(S \ {x}) = n - 1
    BY FS_RemoveElement
  <2>2. order \in [1 .. n -> S \ {x}]
    BY <1>2, <1>6 DEF Elements
  <2>3. n - 1 < n
    BY <1>1
  <2>4. Cardinality(S \ {x}) < Cardinality(1 .. n)
    BY <1>3, <2>1, <2>3
  <2>5. \E i, j \in 1 .. n : i # j /\ order[i] = order[j]
    <3> HIDE DEF n
    <3>1. QED
      BY <1>3, <2>1, <2>2, <2>4, FS_PigeonHole, Zenon
  <2>6. QED
    BY <1>2, <2>5
<1>7. QED
  BY <1>4, <1>5, <1>6

-----------------------------------------------------------------------------
(* Steps of one call that leave the table as it is                         *)

\* Pairs and calls, as far as a single call is concerned.
LEMMA CallFrame ==
    ASSUME NEW c \in Calls, call'[c] = call[c], pairs' = pairs, CallRight(c)
    PROVE  CallRight(c)' /\ Holds(c)' = Holds(c)
BY DEF CallRight, Holds, TokenRow, TokenKept, InFamily, WholePairs, Touched, Live, Unrevoked,
       FamilyOf, Rows, PairIds

LEMMA CallStep ==
    ASSUME IInv, NEW c \in Calls, pairs' = pairs, expired' = expired,
           call' \in [Calls -> Call], \A d \in Calls \ {c} : call'[d] = call[d],
           CallRight(c)',
           \A d \in Calls \ {c} : Holds(c)' \cap Holds(d) = {}
    PROVE  IInv'
<1>1. TypeOK'
  BY DEF IInv, TypeOK, PairIds
<1>2. FamiliesRight'
  BY DEF IInv, FamiliesRight, RevokedTogether, OneLivePair, ExchangedOnce, ExchangedIsDead,
         Live, Unrevoked, PairIds
<1>3. \A d \in Calls : CallRight(d)'
  BY CallFrame DEF IInv
<1>4. \A d \in Calls \ {c} : Holds(d)' = Holds(d)
  BY CallFrame DEF IInv
<1>5. LocksExclusive'
  BY <1>4 DEF IInv, LocksExclusive
<1>6. QED
  BY <1>1, <1>2, <1>3, <1>5 DEF IInv

LEMMA PresentStep ==
    ASSUME IInv, NEW c \in Calls, NEW op \in {"refresh", "logout"}, NEW p \in PairIds,
           Present(c, op, p)
    PROVE  IInv'
<1>1. call[c] \in Call /\ p \in Nat /\ Len(pairs) \in Nat
  BY DEF IInv, TypeOK, PairIds
<1>2. /\ call'[c] = [NoCall EXCEPT !.pc = "presented", !.op = op, !.pair = p, !.since = Len(pairs)]
      /\ call' \in [Calls -> Call] /\ \A d \in Calls \ {c} : call'[d] = call[d]
  BY <1>1, NoRows DEF Present, NoCall, Call, IInv, TypeOK
<1>3. CallRight(c)' /\ Holds(c)' = {}
  BY <1>1, <1>2 DEF Present, CallRight, Holds, NoCall, PairIds
<1>4. QED
  BY <1>2, <1>3, CallStep DEF Present

\* The end of a handler, and of a call: no lock and no row is left.
LEMMA EndStep ==
    ASSUME IInv, NEW c \in Calls, NEW x \in Call, UNCHANGED <<pairs, expired>>,
           call' = [call EXCEPT ![c] = x],
           x.pc \in {"idle", "answered"}, x.targets = <<>>, x.revoked = {},
           x.pc = "idle" => ~x.committed,
           x.pc = "answered" => /\ x.pair = call[c].pair /\ x.op = call[c].op
                                /\ x.since = call[c].since /\ call[c].pc # "idle"
    PROVE  IInv'
<1>1. call'[c] = x /\ call' \in [Calls -> Call] /\ \A d \in Calls \ {c} : call'[d] = call[d]
  BY DEF IInv, TypeOK
<1>2. CallRight(c)
  BY DEF IInv
<1>3. CallRight(c)' /\ Holds(c)' = {}
  BY <1>1, <1>2 DEF CallRight, Holds, PairIds
<1>4. QED
  BY <1>1, <1>3, CallStep

LEMMA AnsweredType ==
    ASSUME IInv, NEW c \in Calls, NEW answer \in {"ok", "refused", "error"}
    PROVE  /\ Answered(c, answer) \in Call
           /\ Answered(c, answer).pc = "answered"
           /\ Answered(c, answer).targets = <<>> /\ Answered(c, answer).revoked = {}
           /\ Answered(c, answer).pair = call[c].pair /\ Answered(c, answer).op = call[c].op
           /\ Answered(c, answer).since = call[c].since
           /\ Answered(c, answer).committed = call[c].committed
<1>1. call[c] \in Call
  BY DEF IInv, TypeOK
<1>2. QED
  BY <1>1, NoRows DEF Call, Answered

LEMMA AbortStep ==
    ASSUME IInv, NEW c \in Calls, Abort(c) PROVE IInv'
BY AnsweredType, EndStep DEF Abort

LEMMA ReceiveStep ==
    ASSUME IInv, NEW c \in Calls, Receive(c) PROVE IInv'
<1>1. NoCall \in Call /\ NoCall.pc = "idle" /\ NoCall.targets = <<>> /\ NoCall.revoked = {}
      /\ ~NoCall.committed
  BY DEF NoCall, Call
<1>2. QED
  BY <1>1, EndStep DEF Receive

\* The token's row is locked: nobody else has it, and what it says is remembered.
LEMMA SelectStep ==
    ASSUME IInv, NEW c \in Calls, Select(c) PROVE IInv'
<1>1. CASE call[c].op = "refresh" /\ call[c].pair \in expired
  BY <1>1, AnsweredType, EndStep DEF Select
<1>2. CASE ~(call[c].op = "refresh" /\ call[c].pair \in expired)
  <2> DEFINE live == "refresh" \in Unrevoked(call[c].pair)
             x == [call[c] EXCEPT !.pc = "selected", !.live = live]
  <2>1. call[c] \in Call /\ call[c].pc = "presented" /\ CallRight(c)
    BY DEF IInv, TypeOK, Select
  <2>2. x \in Call /\ x.pc = "selected" /\ x.pair = call[c].pair /\ x.op = call[c].op
        /\ x.targets = call[c].targets /\ x.revoked = call[c].revoked /\ x.live = live
        /\ x.since = call[c].since /\ x.committed = call[c].committed
    <3>1. live \in BOOLEAN
      OBVIOUS
    <3> HIDE DEF live
    <3>2. QED
      BY <2>1, <3>1 DEF Call
  <2>3. call' = [call EXCEPT ![c] = x] /\ UNCHANGED <<pairs, expired>>
    BY <1>2 DEF Select
  <2> HIDE DEF x
  <2>4. call'[c] = x /\ call' \in [Calls -> Call] /\ \A d \in Calls \ {c} : call'[d] = call[d]
    BY <2>2, <2>3 DEF IInv, TypeOK
  <2>5. call[c].pair \in PairIds
    BY <2>1 DEF CallRight
  <2>6. "refresh" \in Unrevoked(call[c].pair) <=> Live(call[c].pair)
    BY <2>5 DEF IInv, FamiliesRight, RevokedTogether, Live, Kinds
  <2>7. CallRight(c)'
    BY <2>1, <2>2, <2>3, <2>4, <2>6 DEF CallRight, TokenKept, Live, Unrevoked, PairIds
  <2>8. Holds(c)' = {TokenRow(c)}
    BY <2>1, <2>2, <2>4 DEF Holds, TokenRow, CallRight
  <2>9. \A d \in Calls \ {c} : Holds(c)' \cap Holds(d) = {}
    BY <2>8 DEF Select, MayRead, RowFree
  <2>10. QED
    BY <2>3, <2>4, <2>7, <2>9, CallStep
<1>3. QED
  BY <1>1, <1>2

LEMMA FamilyRowsFinite ==
    ASSUME IInv, NEW c \in Calls
    PROVE  IsFiniteSet(FamilyRows(c)) /\ FamilyRows(c) \subseteq Rows /\ Rows \subseteq Nat \X Kinds
<1>1. PairIds = 1 .. Len(pairs) /\ Len(pairs) \in Nat
  BY DEF IInv, TypeOK, PairIds
<1>2. IsFiniteSet(PairIds)
  BY <1>1, FS_Interval
<1>3. Kinds = {"access"} \cup {"refresh"}
  BY DEF Kinds
<1>4. IsFiniteSet(Kinds)
  BY <1>3, FS_Singleton, FS_AddElement
<1>5. IsFiniteSet(Rows)
  BY <1>2, <1>4, FS_Product DEF Rows
<1>6. FamilyRows(c) \subseteq Rows /\ Rows \subseteq Nat \X Kinds
  BY <1>1 DEF FamilyRows, Rows
<1>7. QED
  BY <1>5, <1>6, FS_Subset

\* The snapshot of the UPDATE holds both rows of every live pair of the family.
LEMMA StartRevokeStep ==
    ASSUME IInv, NEW c \in Calls, StartRevoke(c) PROVE IInv'
<1>1. PICK order \in Lists!SetToSeqs(FamilyRows(c)) :
        call' = [call EXCEPT ![c].pc = "revoking", ![c].targets = order]
  BY DEF StartRevoke
<1>2. call[c] \in Call /\ call[c].pc = "selected" /\ CallRight(c) /\ UNCHANGED <<pairs, expired>>
  BY DEF IInv, TypeOK, StartRevoke
<1>3. order \in Seq(FamilyRows(c)) /\ Elements(order) = FamilyRows(c)
  BY FamilyRowsFinite, OrderIsComplete
<1>4. order \in Seq(Nat \X Kinds)
  BY <1>3, FamilyRowsFinite
<1>5. /\ call' \in [Calls -> Call] /\ \A d \in Calls \ {c} : call'[d] = call[d]
      /\ call'[c].pc = "revoking" /\ call'[c].targets = order /\ call'[c].revoked = call[c].revoked
      /\ call'[c].pair = call[c].pair /\ call'[c].op = call[c].op /\ call'[c].live = call[c].live
      /\ call'[c].since = call[c].since /\ call'[c].committed = call[c].committed
  BY <1>1, <1>2, <1>4 DEF Call, IInv, TypeOK
<1>6. call[c].revoked = {} /\ call[c].pair \in PairIds
  BY <1>2 DEF CallRight
<1>7. Touched(c)' = FamilyRows(c)
  BY <1>3, <1>5, <1>6 DEF Touched
<1>8. ASSUME NEW q \in PairIds, Live(q), NEW k \in Kinds
      PROVE  <<q, k>> \in FamilyRows(c) <=> pairs[q].family = FamilyOf(c)
  BY <1>8 DEF FamilyRows, Rows, Live, IInv, FamiliesRight, RevokedTogether
<1>9. ASSUME NEW q \in PairIds, call[c].pair \in {q, pairs[q].from}
      PROVE  pairs[q].family = FamilyOf(c)
  <2>1. call[c].pair # 0
    BY <1>6 DEF IInv, TypeOK, PairIds
  <2>2. QED
    BY <1>9, <2>1 DEF FamilyOf, IInv, FamiliesRight, ExchangedIsDead
<1>10. WholePairs(c)'
  BY <1>2, <1>5, <1>7, <1>8, <1>9 DEF WholePairs, FamilyOf, Live, Unrevoked, PairIds
<1>11. InFamily(c)'
  BY <1>2, <1>5, <1>6, <1>7 DEF InFamily, FamilyRows, FamilyOf, Rows, PairIds
<1>12. CallRight(c)'
  BY <1>2, <1>5, <1>10, <1>11 DEF CallRight, TokenKept, Live, Unrevoked, PairIds
<1>13. Holds(c)' = Holds(c)
  BY <1>2, <1>5 DEF Holds, TokenRow
<1>14. QED
  BY <1>2, <1>5, <1>12, <1>13, CallStep DEF IInv, LocksExclusive

\* A row is revoked or, being revoked already, passed over.
LEMMA RevokeRowStep ==
    ASSUME IInv, NEW c \in Calls, RevokeRow(c) PROVE IInv'
<1> DEFINE r == Head(call[c].targets)
           add == IF r[2] \in Unrevoked(r[1]) THEN {r} ELSE {}
<1>1. call[c] \in Call /\ call[c].pc = "revoking" /\ CallRight(c) /\ UNCHANGED <<pairs, expired>>
      /\ call[c].targets # <<>> /\ \A d \in Calls \ {c} : r \notin Holds(d)
  BY DEF IInv, TypeOK, RevokeRow, RowFree
<1>2. /\ r \in Nat \X Kinds /\ Tail(call[c].targets) \in Seq(Nat \X Kinds)
      /\ Elements(call[c].targets) = {r} \cup Elements(Tail(call[c].targets))
  BY <1>1, HeadAndTail DEF Call
<1>3. call' = [call EXCEPT ![c].targets = Tail(call[c].targets),
                           ![c].revoked = call[c].revoked \cup add]
  BY DEF RevokeRow, IInv, TypeOK, Call
<1>4. add \in SUBSET (Nat \X Kinds)
  BY <1>2
<1> HIDE DEF r, add
<1>5. /\ call' \in [Calls -> Call] /\ \A d \in Calls \ {c} : call'[d] = call[d]
      /\ call'[c].pc = "revoking" /\ call'[c].targets = Tail(call[c].targets)
      /\ call'[c].revoked = call[c].revoked \cup add
      /\ call'[c].pair = call[c].pair /\ call'[c].op = call[c].op /\ call'[c].live = call[c].live
      /\ call'[c].since = call[c].since /\ call'[c].committed = call[c].committed
  BY <1>1, <1>2, <1>3, <1>4 DEF Call, IInv, TypeOK
<1>6. add \subseteq {r} /\ r \in Touched(c) /\ \A s \in add : s[2] \in Unrevoked(s[1])
  BY <1>2 DEF Touched, add
<1>7. Touched(c)' \subseteq Touched(c) /\ (r[2] \in Unrevoked(r[1]) => Touched(c)' = Touched(c))
      /\ Touched(c) \subseteq Touched(c)' \cup {r}
  BY <1>2, <1>5, <1>6 DEF Touched, add
<1>8. InFamily(c) /\ WholePairs(c)
  BY <1>1 DEF CallRight
<1>9. InFamily(c)'
  BY <1>1, <1>5, <1>6, <1>7, <1>8 DEF InFamily, FamilyOf, Rows, Unrevoked, PairIds
<1>10. ASSUME NEW q \in PairIds, Live(q), NEW k \in Kinds
       PROVE  <<q, k>> \in Touched(c)' <=> <<q, k>> \in Touched(c)
  <2>1. k \in Unrevoked(q)
    BY <1>10 DEF IInv, FamiliesRight, RevokedTogether, Live
  <2>2. QED
    BY <1>7, <2>1
<1>11. WholePairs(c)'
  BY <1>1, <1>5, <1>8, <1>10 DEF WholePairs, FamilyOf, Live, Unrevoked, PairIds
<1>12. CallRight(c)'
  BY <1>1, <1>5, <1>9, <1>11 DEF CallRight, TokenKept, Live, Unrevoked, PairIds
<1>13. Holds(c)' \subseteq Holds(c) \cup {r}
  BY <1>1, <1>5, <1>6 DEF Holds, TokenRow
<1>14. \A d \in Calls \ {c} : Holds(c)' \cap Holds(d) = {}
  BY <1>1, <1>13 DEF IInv, LocksExclusive
<1>15. QED
  BY <1>1, <1>5, <1>12, <1>14, CallStep

-----------------------------------------------------------------------------
(* Steps that change the table                                             *)

LEMMA PairTypes ==
    ASSUME IInv
    PROVE  \A q \in PairIds : /\ pairs[q] \in Pair /\ pairs[q].revoked \subseteq Kinds
                             /\ pairs[q].from \in Nat /\ pairs[q].family \in Nat
<1>1. pairs \in Seq(Pair) /\ PairIds = 1 .. Len(pairs)
  BY DEF IInv, TypeOK, PairIds
<1>2. \A q \in PairIds : pairs[q] \in Pair
  BY <1>1
<1>3. QED
  BY <1>2 DEF Pair

\* What appending a pair does to the rows.
LEMMA AppendPair ==
    ASSUME NEW table \in Seq(Pair), NEW new \in Pair, pairs' = Append(table, new)
    PROVE  /\ pairs' \in Seq(Pair) /\ PairIds' = DOMAIN table \cup {Len(table) + 1}
           /\ Len(table) + 1 \notin DOMAIN table
           /\ \A p \in DOMAIN table : pairs'[p] = table[p]
           /\ pairs'[Len(table) + 1] = new
BY DEF PairIds

LEMMA OpenSessionStep ==
    ASSUME IInv, OpenSession PROVE IInv'
<1> DEFINE n == Len(pairs) + 1
           new == [family |-> n, revoked |-> {}, from |-> 0]
<1>1. pairs \in Seq(Pair) /\ n \in Nat /\ PairIds = 1 .. Len(pairs) /\ Len(pairs) \in Nat
  BY DEF IInv, TypeOK, PairIds
<1>2. new \in Pair /\ pairs' = Append(pairs, new) /\ UNCHANGED <<expired, call>>
  BY <1>1 DEF Pair, OpenSession, issueSessionPair, NewFamily
<1>3. /\ pairs' \in Seq(Pair) /\ PairIds' = PairIds \cup {n} /\ n \notin PairIds
      /\ \A p \in PairIds : pairs'[p] = pairs[p]
      /\ pairs'[n] = new
  BY <1>1, <1>2, AppendPair DEF PairIds
<1>4. /\ new.family = n /\ new.revoked = {} /\ new.from = 0
      /\ \A p \in PairIds : pairs[p].family \in 1 .. p /\ pairs[p].from < p /\ p < n /\ p \in Nat \ {0}
                            /\ pairs[p].from \in Nat
  <2>1. new.family = n /\ new.revoked = {} /\ new.from = 0
    OBVIOUS
  <2>2. \A p \in PairIds : pairs[p].family \in 1 .. p /\ pairs[p].from < p
    BY DEF IInv, TypeOK
  <2>3. \A p \in PairIds : p < n /\ p \in Nat \ {0}
    BY <1>1
  <2>4. QED
    BY <2>1, <2>2, <2>3, PairTypes
<1>5. n \in 1 .. n /\ 0 < n
  BY <1>1
<1>13. n = Len(pairs) + 1 /\ Len(pairs') = Len(pairs) + 1
  BY <1>1, <1>2
<1> HIDE DEF n, new
<1>6. TypeOK'
  <2>1. \A p \in PairIds' : pairs'[p].family \in 1 .. p /\ pairs'[p].from < p
    BY <1>3, <1>4, <1>5
  <2>2. QED
    BY <1>2, <1>3, <2>1 DEF IInv, TypeOK
<1>7. Kinds \ pairs'[n].revoked = Kinds /\ \A p \in PairIds : Unrevoked(p)' = Unrevoked(p)
  BY <1>3, <1>4 DEF Unrevoked
<1>8. \A p \in PairIds : pairs[p].family # n /\ pairs[p].from # n
  BY <1>1, <1>4
<1>9. FamiliesRight'
  <2>1. \A p \in PairIds : pairs[p].from # 0 => pairs[p].from \in PairIds
    BY <1>1, <1>4
  <2>2. RevokedTogether'
    BY <1>3, <1>7 DEF IInv, FamiliesRight, RevokedTogether, Unrevoked
  <2>3. OneLivePair'
    BY <1>3, <1>4, <1>7, <1>8 DEF IInv, FamiliesRight, OneLivePair, Unrevoked
  <2>4. ExchangedOnce'
    BY <1>3, <1>4 DEF IInv, FamiliesRight, ExchangedOnce
  <2>5. ExchangedIsDead'
    BY <1>3, <1>4, <1>7, <2>1 DEF IInv, FamiliesRight, ExchangedIsDead, Live, Unrevoked
  <2>6. QED
    BY <2>2, <2>3, <2>4, <2>5 DEF FamiliesRight
<1>10. ASSUME NEW c \in Calls PROVE CallRight(c)' /\ Holds(c)' = Holds(c)
  <2>1. CallRight(c)
    BY DEF IInv
  <2>2. Holds(c)' = Holds(c) /\ Touched(c)' = Touched(c) /\ call'[c] = call[c]
    BY <1>2 DEF Holds, Touched, TokenRow
  <2>3. CASE call[c].pc = "idle"
    BY <2>1, <2>2, <2>3 DEF CallRight
  <2>4. CASE call[c].pc # "idle"
    <3>1. call[c].pair \in PairIds /\ call[c].pair # 0 /\ call[c].pair # n
      BY <1>3, <1>4, <2>1, <2>4 DEF CallRight
    <3>7. call[c].since <= Len(pairs') /\ ~(n <= call[c].since)
      BY <1>1, <1>2, <1>13, <2>1, <2>4 DEF CallRight, IInv, TypeOK, Call
    <3>2. FamilyOf(c)' = FamilyOf(c) /\ (TokenKept(c) => TokenKept(c)')
      BY <1>3, <1>7, <2>2, <3>1 DEF FamilyOf, TokenKept, Live
    <3>3. InFamily(c) => InFamily(c)'
      BY <1>3, <1>7, <2>2, <3>2 DEF InFamily, Rows, Touched
    <3>4. InFamily(c) => \A k \in Kinds : <<n, k>> \notin Touched(c)
      BY <1>3 DEF InFamily, Rows
    <3>5. InFamily(c) /\ WholePairs(c) => WholePairs(c)'
      BY <1>3, <1>4, <1>7, <2>2, <3>1, <3>2, <3>4, <3>7 DEF WholePairs, Live
    <3>6. QED
      BY <1>3, <2>1, <2>2, <3>1, <3>2, <3>3, <3>5, <3>7 DEF CallRight
  <2>5. QED
    BY <2>2, <2>3, <2>4
<1>11. LocksExclusive'
  BY <1>10 DEF IInv, LocksExclusive
<1>12. QED
  BY <1>6, <1>9, <1>10, <1>11 DEF IInv

-----------------------------------------------------------------------------
(* Commit                                                                  *)

\* The pairs c has revoked.
Gone(c) == {q \in PairIds : <<q, "refresh">> \in call[c].revoked}

Rotates(c) == call[c].op = "refresh" /\ call[c].live

\* Before the commit: whole pairs are revoked, among them the token's own if it is
\* live and a live one that it was exchanged for.
LEMMA GoneIsWhole ==
    ASSUME IInv, NEW c \in Calls, Commit(c)
    PROVE  /\ call[c].pair \in PairIds /\ (call[c].live <=> Live(call[c].pair))
           /\ \A q \in PairIds, k \in Kinds : <<q, k>> \in call[c].revoked <=> q \in Gone(c)
           /\ \A q \in Gone(c) : Live(q) /\ pairs[q].family = FamilyOf(c)
           /\ \A q \in PairIds : Live(q) /\ call[c].pair \in {q, pairs[q].from} => q \in Gone(c)
           /\ \A q \in PairIds : Live(q) /\ pairs[q].family = FamilyOf(c) /\ q <= call[c].since
                                 => q \in Gone(c)
           /\ \A q \in Gone(c), k \in Kinds, d \in Calls \ {c} : <<q, k>> \notin Holds(d)
           /\ call[c].revoked \subseteq Rows
<1>1. CallRight(c) /\ call[c].pc = "revoking" /\ call[c].targets = <<>>
  BY DEF IInv, Commit
<1>2. Touched(c) = call[c].revoked
  BY <1>1 DEF Touched, Elements
<1>3. call[c].pair \in PairIds /\ TokenKept(c) /\ InFamily(c) /\ WholePairs(c)
  BY <1>1 DEF CallRight
<1>4. \A q \in PairIds, k \in Kinds : <<q, k>> \in call[c].revoked => Live(q)
  BY <1>3 DEF InFamily, Live
<1>5. \A q \in PairIds, k \in Kinds : <<q, k>> \in call[c].revoked <=> q \in Gone(c)
  <2>1. "refresh" \in Kinds
    BY DEF Kinds
  <2>2. QED
    BY <1>2, <1>3, <1>4, <2>1 DEF WholePairs, Gone
<1>6. \A q \in Gone(c) : q \in PairIds /\ Live(q) /\ pairs[q].family = FamilyOf(c)
  <2>1. \A q \in Gone(c) : q \in PairIds /\ <<q, "refresh">> \in Touched(c)
    BY <1>2 DEF Gone
  <2>2. \A q \in Gone(c) : pairs[q].family = FamilyOf(c)
    BY <1>3, <2>1 DEF InFamily
  <2>3. QED
    BY <1>4, <1>5, <2>1, <2>2 DEF Kinds
<1>7. \A q \in PairIds : Live(q) /\ call[c].pair \in {q, pairs[q].from} => q \in Gone(c)
  BY <1>2, <1>3 DEF WholePairs, Gone, Kinds
<1>10. \A q \in PairIds : Live(q) /\ pairs[q].family = FamilyOf(c) /\ q <= call[c].since
                            => q \in Gone(c)
  BY <1>2, <1>3 DEF WholePairs, Gone, Kinds
<1>8. \A q \in Gone(c), k \in Kinds : <<q, k>> \in Holds(c)
  BY <1>1, <1>5, <1>6 DEF Holds
<1>9. QED
  BY <1>2, <1>3, <1>5, <1>6, <1>7, <1>8, <1>10 DEF IInv, LocksExclusive, TokenKept, InFamily

\* After the commit: those pairs are revoked, no other row has changed, and a
\* rotation has added a pair.
LEMMA CommitTable ==
    ASSUME IInv, NEW c \in Calls, Commit(c)
    PROVE  /\ AfterRevoke(c) \in Seq(Pair) /\ DOMAIN AfterRevoke(c) = PairIds
           /\ Len(AfterRevoke(c)) = Len(pairs)
           /\ \A q \in PairIds : /\ AfterRevoke(c)[q].family = pairs[q].family
                                 /\ AfterRevoke(c)[q].from = pairs[q].from
                                 /\ AfterRevoke(c)[q].revoked =
                                      IF q \in Gone(c) THEN Kinds ELSE pairs[q].revoked
<1>1. pairs \in Seq(Pair) /\ PairIds = 1 .. Len(pairs) /\ Len(pairs) \in Nat
  BY DEF IInv, TypeOK, PairIds
<1>2. \A q \in PairIds : pairs[q] \in Pair /\ pairs[q].revoked \subseteq Kinds
  BY PairTypes
<1>3. ASSUME NEW q \in PairIds
      PROVE  pairs[q].revoked \cup {k \in Kinds : <<q, k>> \in call[c].revoked}
               = IF q \in Gone(c) THEN Kinds ELSE pairs[q].revoked
  BY <1>2, GoneIsWhole
<1>4. ASSUME NEW q \in PairIds
      PROVE  /\ AfterRevoke(c)[q] \in Pair
             /\ AfterRevoke(c)[q].family = pairs[q].family
             /\ AfterRevoke(c)[q].from = pairs[q].from
             /\ AfterRevoke(c)[q].revoked = IF q \in Gone(c) THEN Kinds ELSE pairs[q].revoked
  <2> DEFINE rev == pairs[q].revoked \cup {k \in Kinds : <<q, k>> \in call[c].revoked}
  <2>1. AfterRevoke(c)[q] = [pairs[q] EXCEPT !.revoked = rev] /\ rev \in SUBSET Kinds
    BY <1>2 DEF AfterRevoke
  <2>2. rev = IF q \in Gone(c) THEN Kinds ELSE pairs[q].revoked
    BY <1>3
  <2> HIDE DEF rev
  <2>3. QED
    BY <1>2, <2>1, <2>2 DEF Pair
<1>5. AfterRevoke(c) \in [1 .. Len(pairs) -> Pair]
  <2>1. DOMAIN AfterRevoke(c) = PairIds
    BY DEF AfterRevoke
  <2>2. AfterRevoke(c) = [q \in PairIds |-> AfterRevoke(c)[q]]
    BY DEF AfterRevoke
  <2>3. QED
    BY <1>1, <1>4, <2>2
<1>6. QED
  BY <1>1, <1>4, <1>5

\* The pair that a rotation adds.
NewOne(c) == issueSessionPair(FamilyOf(c), call[c].pair)

LEMMA CommitPairs ==
    ASSUME IInv, NEW c \in Calls, Commit(c), NEW n, n = Len(pairs) + 1
    PROVE  /\ n \in Nat /\ n \notin PairIds
           /\ pairs' \in Seq(Pair)
           /\ \A q \in PairIds : /\ pairs'[q].family = pairs[q].family
                                 /\ pairs'[q].from = pairs[q].from
                                 /\ Unrevoked(q)' = IF q \in Gone(c) THEN {} ELSE Unrevoked(q)
           /\ Rotates(c) => /\ PairIds' = PairIds \cup {n}
                            /\ pairs'[n].family = FamilyOf(c) /\ pairs'[n].from = call[c].pair
                            /\ pairs'[n].revoked = {} /\ Unrevoked(call[c].pair) # {}
           /\ ~Rotates(c) => PairIds' = PairIds
           /\ Len(pairs) <= Len(pairs') /\ Len(pairs) \in Nat /\ Len(pairs') \in Nat
<1>1. Len(pairs) \in Nat /\ PairIds = 1 .. Len(pairs)
  BY DEF IInv, TypeOK, PairIds
<1>2. call[c].pair \in PairIds /\ (Rotates(c) => Unrevoked(call[c].pair) # {})
  BY GoneIsWhole DEF Rotates, Live
<1>3. NewOne(c) \in Pair /\ NewOne(c).family = FamilyOf(c) /\ NewOne(c).from = call[c].pair
      /\ NewOne(c).revoked = {}
  <2>1. call[c].pair \in Nat /\ FamilyOf(c) \in Nat
    BY <1>1, <1>2, PairTypes DEF FamilyOf
  <2>2. QED
    BY <2>1 DEF NewOne, issueSessionPair, Pair
<1>4. Len(pairs) <= Len(pairs') /\ Len(pairs') \in Nat
  <2>1. /\ AfterRevoke(c) \in Seq(Pair) /\ Len(AfterRevoke(c)) = Len(pairs)
        /\ pairs' = Append(AfterRevoke(c), NewOne(c)) \/ pairs' = AfterRevoke(c)
    BY CommitTable DEF Commit, NewOne
  <2>2. QED
    BY <1>1, <1>3, <2>1
<1>5. CASE Rotates(c)
  <2>1. pairs' = Append(AfterRevoke(c), NewOne(c))
    BY <1>5 DEF Commit, Rotates, NewOne
  <2>2. /\ pairs' \in Seq(Pair) /\ PairIds' = PairIds \cup {n}
        /\ \A p \in PairIds : pairs'[p] = AfterRevoke(c)[p]
        /\ pairs'[n] = NewOne(c)
    BY <1>3, <2>1, CommitTable, AppendPair
  <2>3. QED
    BY <1>1, <1>2, <1>3, <1>4, <1>5, <2>2, CommitTable DEF Unrevoked
<1>6. CASE ~Rotates(c)
  <2>1. pairs' = AfterRevoke(c)
    BY <1>6 DEF Commit, Rotates
  <2>2. QED
    BY <1>1, <1>4, <1>6, <2>1, CommitTable DEF Unrevoked, PairIds
<1>7. QED
  BY <1>5, <1>6

\* How the call ends.
LEMMA CommitAnswers ==
    ASSUME IInv, NEW c \in Calls, Commit(c)
    PROVE  /\ call' \in [Calls -> Call] /\ \A d \in Calls \ {c} : call'[d] = call[d]
           /\ call'[c].pc = "answered" /\ call'[c].targets = <<>> /\ call'[c].revoked = {}
           /\ call'[c].pair = call[c].pair /\ call'[c].op = call[c].op
           /\ call'[c].since = call[c].since /\ call'[c].committed = TRUE
<1>1. PICK answer \in {"ok", "refused"} :
        call' = [call EXCEPT ![c] = [Answered(c, answer) EXCEPT !.committed = TRUE]]
  BY DEF Commit
<1>2. Answered(c, answer) \in Call
  BY AnsweredType
<1> DEFINE a == Answered(c, answer)
           x == [a EXCEPT !.committed = TRUE]
<1>3. /\ a.pc = "answered" /\ a.targets = <<>> /\ a.revoked = {}
      /\ a.pair = call[c].pair /\ a.op = call[c].op /\ a.since = call[c].since
  BY AnsweredType
<1>4. x \in Call /\ x.pc = a.pc /\ x.targets = a.targets /\ x.revoked = a.revoked
      /\ x.pair = a.pair /\ x.op = a.op /\ x.since = a.since /\ x.committed = TRUE
  <2> HIDE DEF a
  <2>1. QED
    BY <1>2 DEF a, Call
<1>5. call' = [call EXCEPT ![c] = x]
  BY <1>1
<1> HIDE DEF a, x
<1>6. QED
  BY <1>3, <1>4, <1>5 DEF IInv, TypeOK

\* The families stay right: a rotation adds a live pair where the only live one
\* has just been revoked.
LEMMA CommitFamilies ==
    ASSUME IInv, NEW c \in Calls, Commit(c) PROVE TypeOK' /\ FamiliesRight'
<1> DEFINE m == Len(pairs) + 1
<1>0. PICK n : n = m
  OBVIOUS
<1>1. n = Len(pairs) + 1
  BY <1>0
<1> HIDE DEF m
<1>2. /\ n \in Nat /\ n \notin PairIds
      /\ pairs' \in Seq(Pair)
      /\ \A q \in PairIds : /\ pairs'[q].family = pairs[q].family
                            /\ pairs'[q].from = pairs[q].from
                            /\ Unrevoked(q)' = IF q \in Gone(c) THEN {} ELSE Unrevoked(q)
      /\ Rotates(c) => /\ PairIds' = PairIds \cup {n}
                       /\ pairs'[n].family = FamilyOf(c) /\ pairs'[n].from = call[c].pair
                       /\ pairs'[n].revoked = {} /\ Unrevoked(call[c].pair) # {}
      /\ ~Rotates(c) => PairIds' = PairIds
  BY <1>1, CommitPairs
<1>3. PairIds = 1 .. Len(pairs) /\ Len(pairs) \in Nat
  BY DEF IInv, TypeOK, PairIds
<1>4. call[c].pair \in PairIds /\ Unrevoked(n)' = Kinds \ pairs'[n].revoked
  BY GoneIsWhole DEF Unrevoked
<1>5. \A q \in PairIds : q \in Nat \ {0} /\ q < n /\ pairs[q].family \in 1 .. q /\ pairs[q].from < q
                         /\ pairs[q].from \in Nat
  BY <1>1, <1>3, PairTypes DEF IInv, TypeOK
<1>6. TypeOK'
  <2>1. call' \in [Calls -> Call]
    BY CommitAnswers
  <2>2. FamilyOf(c) \in 1 .. n /\ call[c].pair < n
    BY <1>1, <1>3, <1>4, <1>5 DEF FamilyOf
  <2>3. \A p \in PairIds' : pairs'[p].family \in 1 .. p /\ pairs'[p].from < p
    BY <1>2, <1>5, <2>2
  <2>4. expired' \subseteq PairIds'
    BY <1>2 DEF IInv, TypeOK, Commit
  <2>5. QED
    BY <1>2, <2>1, <2>3, <2>4 DEF TypeOK
<1>7. \A q \in PairIds : Live(q) /\ call[c].pair \in {q, pairs[q].from} => q \in Gone(c)
  BY GoneIsWhole
<1>8. RevokedTogether'
  BY <1>2, <1>4 DEF IInv, FamiliesRight, RevokedTogether
<1>9. OneLivePair'
  <2>1. ASSUME Rotates(c), NEW q \in PairIds, pairs[q].family = FamilyOf(c) PROVE Unrevoked(q)' = {}
    <3>1. CASE Unrevoked(q) = {}
      BY <1>2, <3>1
    <3>2. CASE Unrevoked(q) # {}
      <4>1. q = call[c].pair
        BY <1>2, <1>4, <2>1, <3>2 DEF IInv, FamiliesRight, OneLivePair, FamilyOf
      <4>2. QED
        BY <1>2, <1>7, <3>2, <4>1 DEF Live
    <3>3. QED
      BY <3>1, <3>2
  <2>2. QED
    BY <1>2, <2>1 DEF IInv, FamiliesRight, OneLivePair
<1>10. ExchangedIsDead'
  <2>1. \A q \in PairIds : pairs[q].from # 0 => pairs[q].from \in PairIds
    BY <1>3, <1>5
  <2>2. PICK p \in PairIds : p = call[c].pair
    BY <1>4
  <2>3. Rotates(c) => Unrevoked(p)' = {} /\ pairs'[n].family = pairs'[p].family /\ pairs'[n].from = p
    BY <1>2, <1>7, <2>2 DEF Live, FamilyOf
  <2>4. ASSUME NEW q \in PairIds', pairs'[q].from # 0
        PROVE  ~Live(pairs[q].from)' /\ pairs'[pairs'[q].from].family = pairs'[q].family
    <3>1. CASE q \in PairIds
      <4>1. PICK f \in PairIds : f = pairs[q].from /\ f = pairs'[q].from
        BY <1>2, <2>1, <2>4, <3>1
      <4>2. Unrevoked(f) = {} /\ pairs[f].family = pairs[q].family
        BY <2>4, <3>1, <4>1, <1>5 DEF IInv, FamiliesRight, ExchangedIsDead, Live
      <4>3. Unrevoked(f)' = {} /\ pairs'[f].family = pairs'[q].family
        BY <1>2, <3>1, <4>2
      <4>4. QED
        BY <4>1, <4>3 DEF Live
    <3>2. CASE q = n /\ Rotates(c)
      BY <2>3, <3>2 DEF Live
    <3>3. QED
      BY <1>2, <3>1, <3>2
  <2>5. QED
    BY <2>4 DEF ExchangedIsDead
<1>11. ExchangedOnce'
  <2>1. Rotates(c) => \A q \in PairIds : pairs[q].from # call[c].pair
    BY <1>2, <1>4, <1>5 DEF IInv, FamiliesRight, ExchangedIsDead, Live
  <2>2. QED
    BY <1>2, <1>5, <2>1 DEF IInv, FamiliesRight, ExchangedOnce
<1>12. QED
  BY <1>6, <1>8, <1>9, <1>10, <1>11 DEF FamiliesRight

\* A call that has read its token holds its row, so what another call commits leaves
\* that pair, and the pairs the first one has locked, alone.
LEMMA CommitOthers ==
    ASSUME IInv, NEW c \in Calls, Commit(c), NEW d \in Calls \ {c}
    PROVE  CallRight(d)' /\ Holds(d)' = Holds(d)
<1>1. PICK n : n = Len(pairs) + 1
  OBVIOUS
<1>2. /\ n \in Nat /\ n \notin PairIds
      /\ \A q \in PairIds : /\ pairs'[q].family = pairs[q].family
                            /\ pairs'[q].from = pairs[q].from
                            /\ Unrevoked(q)' = IF q \in Gone(c) THEN {} ELSE Unrevoked(q)
      /\ (PairIds' = PairIds \cup {n} /\ pairs'[n].from = call[c].pair) \/ PairIds' = PairIds
  BY <1>1, CommitPairs
<1>3. CallRight(d) /\ CallRight(c) /\ call'[d] = call[d] /\ call[c].pc = "revoking"
      /\ call[d].since \in Nat
  BY CommitAnswers DEF IInv, Commit, TypeOK, Call
<1>9. Len(pairs) <= Len(pairs') /\ Len(pairs) \in Nat /\ Len(pairs') \in Nat
  BY <1>1, CommitPairs
<1>10. call[d].pc # "idle" => call[d].since <= Len(pairs') /\ ~(n <= call[d].since)
  BY <1>1, <1>3, <1>9 DEF CallRight
<1>4. Holds(d)' = Holds(d) /\ Touched(d)' = Touched(d)
  BY <1>3 DEF Holds, Touched, TokenRow
<1>5. CASE call[d].pc = "idle"
  BY <1>3, <1>4, <1>5 DEF CallRight
<1>6. CASE call[d].pc \in {"presented", "answered"}
  BY <1>2, <1>3, <1>4, <1>6, <1>10 DEF CallRight
<1>7. CASE call[d].pc \in {"selected", "revoking"}
  <2>1. call[d].pair \in PairIds /\ TokenKept(d)
    BY <1>3, <1>7 DEF CallRight
  <2>2. TokenRow(d) \in Holds(d) /\ call[d].revoked \subseteq Holds(d) /\ TokenRow(c) \in Holds(c)
    BY <1>3, <1>7 DEF Holds
  <2>3. call[d].pair \notin Gone(c)
    BY <2>2, GoneIsWhole DEF TokenRow, Kinds
  <2>4. call[d].pair # call[c].pair
    BY <2>2 DEF IInv, LocksExclusive, TokenRow
  <2>5. FamilyOf(d)' = FamilyOf(d) /\ TokenKept(d)'
    BY <1>2, <1>3, <2>1, <2>3 DEF FamilyOf, TokenKept, Live
  <2>6. ASSUME InFamily(d) PROVE InFamily(d)'
    <3>1. \A r \in Touched(d)' : r \in Rows' /\ pairs'[r[1]].family = FamilyOf(d)'
      BY <1>2, <1>4, <2>5, <2>6 DEF InFamily, Rows
    <3>2. ASSUME NEW r \in call[d].revoked PROVE r[2] \in Unrevoked(r[1])'
      <4>1. r \in Rows /\ r[2] \in Unrevoked(r[1])
        BY <2>6 DEF InFamily, Touched
      <4>2. PICK q \in PairIds, k \in Kinds : r = <<q, k>>
        BY <4>1 DEF Rows
      <4>3. q \notin Gone(c)
        BY <2>2, <4>2, GoneIsWhole
      <4>4. QED
        BY <1>2, <4>1, <4>2, <4>3
    <3>3. QED
      BY <1>3, <3>1, <3>2 DEF InFamily
  <2>7. ASSUME InFamily(d), WholePairs(d) PROVE WholePairs(d)'
    <3>1. \A k \in Kinds : <<n, k>> \notin Touched(d)
      BY <1>2, <2>7 DEF InFamily, Rows
    <3>2. ASSUME NEW q \in PairIds', Live(q)'
          PROVE  /\ \/ \A k \in Kinds : <<q, k>> \in Touched(d)
                    \/ \A k \in Kinds : <<q, k>> \notin Touched(d)
                 /\ call[d].pair \in {q, pairs'[q].from} => \A k \in Kinds : <<q, k>> \in Touched(d)
                 /\ pairs'[q].family = FamilyOf(d) /\ q <= call[d].since
                      => \A k \in Kinds : <<q, k>> \in Touched(d)
      <4>1. CASE q \in PairIds
        BY <1>2, <2>7, <3>2, <4>1 DEF WholePairs, Live
      <4>2. CASE q = n /\ n \notin PairIds /\ pairs'[n].from = call[c].pair
        BY <1>7, <1>10, <2>1, <2>4, <3>1, <4>2
      <4>3. QED
        BY <1>2, <3>2, <4>1, <4>2
    <3>3. QED
      BY <1>3, <1>4, <2>5, <3>2 DEF WholePairs
  <2>8. QED
    BY <1>2, <1>3, <1>4, <1>7, <1>10, <2>5, <2>6, <2>7 DEF CallRight
<1>8. QED
  BY <1>4, <1>5, <1>6, <1>7, <1>3 DEF IInv, TypeOK, Call

LEMMA CommitStep ==
    ASSUME IInv, NEW c \in Calls, Commit(c) PROVE IInv'
<1>1. call[c].pair \in PairIds /\ CallRight(c) /\ call[c].pc = "revoking"
  BY GoneIsWhole DEF IInv, Commit
<1>2. /\ call'[c].pc = "answered" /\ call'[c].targets = <<>> /\ call'[c].revoked = {}
      /\ call'[c].pair = call[c].pair /\ call'[c].op = call[c].op /\ call'[c].since = call[c].since
  BY CommitAnswers
<1>3. PairIds \subseteq PairIds' /\ call'[c].since <= Len(pairs')
  <2>1. PICK n : n = Len(pairs) + 1
    OBVIOUS
  <2>2. PairIds \subseteq PairIds' /\ Len(pairs) <= Len(pairs') /\ Len(pairs) \in Nat /\ Len(pairs') \in Nat
    BY <2>1, CommitPairs
  <2>3. call[c].since \in Nat /\ call[c].since <= Len(pairs)
    BY <1>1 DEF CallRight, IInv, TypeOK, Call
  <2>4. QED
    BY <1>2, <2>2, <2>3
<1>4. CallRight(c)' /\ Holds(c)' = {}
  BY <1>1, <1>2, <1>3 DEF CallRight, Holds
<1>5. \A d \in Calls \ {c} : CallRight(d)' /\ Holds(d)' = Holds(d)
  BY CommitOthers
<1>6. LocksExclusive'
  BY <1>4, <1>5 DEF IInv, LocksExclusive
<1>7. QED
  BY <1>4, <1>5, <1>6, CommitFamilies DEF IInv

-----------------------------------------------------------------------------
(* All steps, and the theorems                                             *)

LEMMA InitIInv == Init => IInv
<1> SUFFICES ASSUME Init PROVE IInv
  OBVIOUS
<1>1. PairIds = {} /\ pairs = <<>> /\ expired = {} /\ \A c \in Calls : call[c] = NoCall
  BY DEF Init, PairIds
<1>2. NoCall \in Call
  BY NoRows DEF NoCall, Call
<1>3. TypeOK
  BY <1>1, <1>2 DEF TypeOK, Init
<1>4. FamiliesRight
  BY <1>1 DEF FamiliesRight, RevokedTogether, OneLivePair, ExchangedOnce, ExchangedIsDead
<1>5. LocksExclusive /\ \A c \in Calls : CallRight(c)
  BY <1>1 DEF LocksExclusive, Holds, CallRight, NoCall
<1>6. QED
  BY <1>3, <1>4, <1>5 DEF IInv

LEMMA NextIInv == IInv /\ [Next]_vars => IInv'
<1> SUFFICES ASSUME IInv, [Next]_vars PROVE IInv'
  OBVIOUS
<1>1. CASE Login \/ Register
  BY <1>1, OpenSessionStep DEF Login, Register
<1>2. ASSUME NEW p \in PairIds, Expire(p) PROVE IInv'
  <2>1. TypeOK' /\ FamiliesRight'
    BY <1>2 DEF Expire, IInv, TypeOK, PairIds, FamiliesRight, RevokedTogether, OneLivePair,
                ExchangedOnce, ExchangedIsDead, Live, Unrevoked
  <2>2. \A c \in Calls : CallRight(c)' /\ Holds(c)' = Holds(c)
    BY <1>2, CallFrame DEF Expire, IInv
  <2>3. QED
    BY <2>1, <2>2 DEF IInv, LocksExclusive
<1>3. ASSUME NEW c \in Calls, NEW op \in {"refresh", "logout"}, NEW p \in PairIds, Present(c, op, p)
      PROVE  IInv'
  BY <1>3, PresentStep
<1>4. ASSUME NEW c \in Calls, Handle(c) \/ Abort(c) \/ Receive(c) PROVE IInv'
  BY <1>4, SelectStep, StartRevokeStep, RevokeRowStep, CommitStep, AbortStep, ReceiveStep DEF Handle
<1>5. CASE UNCHANGED vars
  <2>1. TypeOK' /\ FamiliesRight'
    BY <1>5 DEF vars, IInv, TypeOK, PairIds, FamiliesRight, RevokedTogether, OneLivePair,
                ExchangedOnce, ExchangedIsDead, Live, Unrevoked
  <2>2. \A c \in Calls : CallRight(c)' /\ Holds(c)' = Holds(c)
    BY <1>5, CallFrame DEF vars, IInv
  <2>3. QED
    BY <2>1, <2>2 DEF IInv, LocksExclusive
<1>6. QED
  BY <1>1, <1>2, <1>3, <1>4, <1>5 DEF Next

\* Everything below follows from the invariant.
THEOREM Invariance == Spec => []IInv
BY InitIInv, NextIInv, PTL DEF Spec

\* Pairs and calls keep their types, and a family is named by its first pair.
THEOREM TypeCorrect == Spec => []TypeOK
<1>1. IInv => TypeOK
  BY DEF IInv
<1>2. QED
  BY <1>1, Invariance, PTL

\* However refreshes and logouts of a family overlap, at most one of its pairs is live.
THEOREM OnePairLives == Spec => []OneLivePair
<1>1. IInv => OneLivePair
  BY DEF IInv, FamiliesRight
<1>2. QED
  BY <1>1, Invariance, PTL

\* An access token and its refresh token are revoked by the same commit.
THEOREM PairsEndTogether == Spec => []RevokedTogether
<1>1. IInv => RevokedTogether
  BY DEF IInv, FamiliesRight
<1>2. QED
  BY <1>1, Invariance, PTL

\* No refresh token is exchanged twice.
THEOREM TokensAreExchangedOnce == Spec => []ExchangedOnce
<1>1. IInv => ExchangedOnce
  BY DEF IInv, FamiliesRight
<1>2. QED
  BY <1>1, Invariance, PTL

-----------------------------------------------------------------------------
(* Sign-out                                                                *)

LEMMA LogoutStep ==
    ASSUME IInv, NEW c \in Calls, call[c].op = "logout", Commit(c), NEW p \in DOMAIN pairs',
           pairs'[p].family = FamilyOf(c)
    PROVE  \/ pairs'[p].revoked = Kinds
           \/ ~call[c].live /\ p # call[c].pair /\ pairs'[p].from # call[c].pair
<1>1. pairs' = AfterRevoke(c)
  BY DEF Commit
<1>2. p \in PairIds /\ pairs[p].family = FamilyOf(c) /\ pairs'[p].from = pairs[p].from
      /\ pairs'[p].revoked = IF p \in Gone(c) THEN Kinds ELSE pairs[p].revoked
  BY <1>1, CommitTable
<1>3. CASE ~Live(p)
  BY <1>2, <1>3, PairTypes DEF Live, Unrevoked
<1>4. CASE Live(p) /\ call[c].live
  <2>1. call[c].pair \in PairIds /\ Live(call[c].pair)
    BY <1>4, GoneIsWhole
  <2>2. p = call[c].pair
    BY <1>2, <1>4, <2>1 DEF IInv, FamiliesRight, OneLivePair, Live, FamilyOf
  <2>3. QED
    BY <1>2, <1>4, <2>2, GoneIsWhole
<1>5. CASE Live(p) /\ ~call[c].live
  BY <1>2, <1>5, GoneIsWhole
<1>6. QED
  BY <1>3, <1>4, <1>5

\* A logout ends its family, and with an older token at least the pair it names and
\* the one that was issued for it.
THEOREM LogoutIsFinal == Spec => LogoutEndsSession
<1>1. IInv /\ [Next]_vars =>
        [\A c \in Calls :
          call[c].op = "logout" /\ Commit(c)
             => \A p \in DOMAIN pairs' :
                   pairs'[p].family = FamilyOf(c) =>
                      \/ pairs'[p].revoked = Kinds
                      \/ ~call[c].live /\ p # call[c].pair /\ pairs'[p].from # call[c].pair]_vars
  BY LogoutStep
<1>2. QED
  BY <1>1, Invariance, PTL DEF Spec, LogoutEndsSession

-----------------------------------------------------------------------------
(* The refinement                                                          *)

\* The pairs and the calls as TokenCalls has them.
Abstract == [p \in PairIds |-> [family |-> pairs[p].family, live |-> Unrevoked(p) # {},
                                from |-> pairs[p].from]]

AbstractCall == [c \in Calls |-> [pc |-> Outcome(c), op |-> call[c].op, pair |-> call[c].pair,
                                  since |-> call[c].since]]

AbstractPair == [family : Nat, live : BOOLEAN, from : Nat]

LEMMA AbstractOf ==
    ASSUME NEW t \in Seq(Pair), NEW a,
           a = [p \in DOMAIN t |-> [family |-> t[p].family, live |-> Kinds \ t[p].revoked # {},
                                    from |-> t[p].from]]
    PROVE  /\ a \in Seq(AbstractPair) /\ DOMAIN a = DOMAIN t
           /\ Len(a) = Len(t) /\ DOMAIN t = 1 .. Len(t) /\ Len(t) \in Nat
           /\ \A p \in DOMAIN t : /\ a[p] \in AbstractPair
                                  /\ a[p].family = t[p].family /\ a[p].from = t[p].from
                                  /\ a[p].live = (Kinds \ t[p].revoked # {})
<1>1. DOMAIN t = 1 .. Len(t) /\ Len(t) \in Nat
  OBVIOUS
<1>2. ASSUME NEW p \in DOMAIN t PROVE t[p].family \in Nat /\ t[p].from \in Nat
  <2>1. t[p] \in Pair
    BY <1>1
  <2>2. QED
    BY <2>1 DEF Pair
<1>3. \A p \in DOMAIN t : a[p] \in AbstractPair
  BY <1>2 DEF AbstractPair
<1>4. a \in [1 .. Len(t) -> AbstractPair]
  BY <1>1, <1>3
<1>5. QED
  BY <1>1, <1>3, <1>4

LEMMA AbstractType ==
    ASSUME IInv
    PROVE  /\ Abstract \in Seq(AbstractPair) /\ DOMAIN Abstract = PairIds
           /\ Len(Abstract) = Len(pairs) /\ PairIds = 1 .. Len(pairs) /\ Len(pairs) \in Nat
           /\ \A p \in PairIds : /\ Abstract[p] \in AbstractPair
                                 /\ Abstract[p].family = pairs[p].family
                                 /\ Abstract[p].from = pairs[p].from
                                 /\ Abstract[p].live = (Unrevoked(p) # {})
<1>1. pairs \in Seq(Pair)
  BY DEF IInv, TypeOK
<1>2. QED
  BY <1>1, AbstractOf DEF Abstract, Unrevoked, PairIds

LEMMA AbstractTypeAfter ==
    ASSUME IInv'
    PROVE  /\ Abstract' \in Seq(AbstractPair) /\ DOMAIN Abstract' = PairIds'
           /\ Len(Abstract') = Len(pairs') /\ PairIds' = 1 .. Len(pairs')
           /\ \A p \in PairIds' : /\ Abstract'[p] \in AbstractPair
                                  /\ Abstract'[p].family = pairs'[p].family
                                  /\ Abstract'[p].from = pairs'[p].from
                                  /\ Abstract'[p].live = (Kinds \ pairs'[p].revoked # {})
<1>1. pairs' \in Seq(Pair)
  BY DEF IInv, TypeOK
<1>2. QED
  BY <1>1, AbstractOf DEF Abstract, Unrevoked, PairIds

\* Two pairs that agree in every field.
LEMMA SamePair ==
    ASSUME NEW x \in AbstractPair, NEW y \in AbstractPair,
           x.family = y.family, x.live = y.live, x.from = y.from
    PROVE  x = y
BY DEF AbstractPair

\* A sequence with one element more.
LEMMA OneMore ==
    ASSUME NEW S, NEW a \in Seq(S), NEW b \in Seq(S), NEW x \in S,
           Len(b) = Len(a) + 1, \A i \in 1 .. Len(a) : b[i] = a[i], b[Len(a) + 1] = x
    PROVE  b = Append(a, x)
OBVIOUS

LEMMA OpenRefines ==
    ASSUME IInv, IInv', OpenSession PROVE Families!Open
<1> DEFINE n == Len(pairs) + 1
           x == [family |-> n, live |-> TRUE, from |-> 0]
           new == [family |-> n, revoked |-> {}, from |-> 0]
<1>1. pairs \in Seq(Pair) /\ n \in Nat
  BY DEF IInv, TypeOK
<1>2. new \in Pair /\ pairs' = Append(pairs, new)
  BY <1>1 DEF Pair, OpenSession, issueSessionPair, NewFamily
<1>3. /\ PairIds' = PairIds \cup {n} /\ n \notin PairIds
      /\ \A p \in PairIds : pairs'[p] = pairs[p]
      /\ pairs'[n] = new /\ Len(pairs') = n
  BY <1>1, <1>2, AppendPair DEF PairIds
<1>4. Abstract' \in Seq(AbstractPair) /\ Len(Abstract') = n
  BY <1>3, AbstractTypeAfter
<1>5. \A p \in PairIds : Abstract'[p] = Abstract[p]
  BY <1>3 DEF Abstract, Unrevoked
<1>6. x \in AbstractPair /\ x.family = n /\ x.live = TRUE /\ x.from = 0
  BY <1>1 DEF AbstractPair
<1>7. Abstract'[n] = x
  <2>1. (Kinds \ pairs'[n].revoked # {}) = TRUE
    BY <1>3 DEF Kinds
  <2>2. /\ Abstract'[n] \in AbstractPair
        /\ Abstract'[n].family = n /\ Abstract'[n].from = 0
        /\ Abstract'[n].live = (Kinds \ pairs'[n].revoked # {})
    BY <1>3, AbstractTypeAfter
  <2> HIDE DEF x
  <2>3. Abstract'[n].live = TRUE
    BY <2>1, <2>2, Zenon
  <2>4. QED
    BY <1>6, <2>2, <2>3, SamePair
<1>8. Abstract' = Append(Abstract, x)
  <2> HIDE DEF x
  <2>1. QED
    BY <1>4, <1>5, <1>6, <1>7, AbstractType, OneMore
<1>9. QED
  BY <1>8, AbstractType DEF Families!Open, Families!NewPair, Abstract

\* If a commit revokes a pair, no other of its family is live.
LEMMA CommitEnds ==
    ASSUME IInv, NEW c \in Calls, Commit(c), Gone(c) # {}, NEW q \in PairIds
    PROVE  Kinds \ pairs'[q].revoked
             = IF pairs[q].family = FamilyOf(c) THEN {} ELSE Unrevoked(q)
<1>1. Kinds \ pairs'[q].revoked = IF q \in Gone(c) THEN {} ELSE Unrevoked(q)
  <2>1. PICK n : n = Len(pairs) + 1
    OBVIOUS
  <2>2. QED
    BY <2>1, CommitPairs DEF Unrevoked
<1>2. PICK g \in Gone(c) : g \in PairIds /\ Live(g) /\ pairs[g].family = FamilyOf(c)
  BY GoneIsWhole DEF Gone
<1>3. pairs[q].family = FamilyOf(c) /\ Live(q) => q \in Gone(c)
  BY <1>2 DEF IInv, FamiliesRight, OneLivePair, Live
<1>4. q \in Gone(c) => pairs[q].family = FamilyOf(c)
  BY GoneIsWhole
<1>5. QED
  BY <1>1, <1>3, <1>4 DEF Live

\* What TokenFamilies says of the pairs after the end of a family.
LEMMA EndedPairs ==
    ASSUME IInv, NEW f
    PROVE  /\ Families!Ended(f) \in Seq(AbstractPair)
           /\ Len(Families!Ended(f)) = Len(pairs) /\ DOMAIN Families!Ended(f) = PairIds
           /\ \A q \in PairIds :
                /\ Families!Ended(f)[q] \in AbstractPair
                /\ Families!Ended(f)[q].family = pairs[q].family
                /\ Families!Ended(f)[q].from = pairs[q].from
                /\ Families!Ended(f)[q].live = (pairs[q].family # f /\ Unrevoked(q) # {})
<1>1. Families!Ended(f) =
        [q \in DOMAIN Abstract |-> [Abstract[q] EXCEPT
            !.live = IF Abstract[q].family = f THEN FALSE ELSE Abstract[q].live]]
  BY DEF Families!Ended, Abstract
<1>2. ASSUME NEW q \in PairIds
      PROVE  /\ Families!Ended(f)[q] \in AbstractPair
             /\ Families!Ended(f)[q].family = pairs[q].family
             /\ Families!Ended(f)[q].from = pairs[q].from
             /\ Families!Ended(f)[q].live = (pairs[q].family # f /\ Unrevoked(q) # {})
  <2> DEFINE live == IF Abstract[q].family = f THEN FALSE ELSE Abstract[q].live
  <2>1. /\ Abstract[q] \in AbstractPair /\ q \in DOMAIN Abstract
        /\ Abstract[q].family = pairs[q].family /\ Abstract[q].from = pairs[q].from
        /\ Abstract[q].live = (Unrevoked(q) # {})
    BY AbstractType
  <2>2. live = (pairs[q].family # f /\ Unrevoked(q) # {})
    <3>1. CASE pairs[q].family = f
      BY <2>1, <3>1
    <3>2. CASE pairs[q].family # f
      BY <2>1, <3>2
    <3>3. QED
      BY <3>1, <3>2
  <2>3. Families!Ended(f)[q] = [Abstract[q] EXCEPT !.live = live] /\ live \in BOOLEAN
    BY <1>1, <2>1, <2>2
  <2> HIDE DEF live
  <2>4. QED
    BY <2>1, <2>2, <2>3 DEF AbstractPair
<1>3. Families!Ended(f) \in [1 .. Len(pairs) -> AbstractPair]
  <2>1. DOMAIN Families!Ended(f) = PairIds
        /\ Families!Ended(f) = [q \in PairIds |-> Families!Ended(f)[q]]
    BY <1>1, AbstractType
  <2>2. QED
    BY <1>2, <2>1, AbstractType
<1>4. QED
  BY <1>2, <1>3, AbstractType

\* A call that goes on, or ends, keeps what it asks for.
LEMMA CallMoves ==
    ASSUME IInv, NEW c \in Calls, call' \in [Calls -> Call],
           \A d \in Calls \ {c} : call'[d] = call[d],
           call'[c].op = call[c].op, call'[c].pair = call[c].pair, call'[c].since = call[c].since,
           NEW pc, Outcome(c)' = pc
    PROVE  AbstractCall' = [AbstractCall EXCEPT ![c].pc = pc]
<1>1. \A d \in Calls \ {c} : Outcome(d)' = Outcome(d)
  BY DEF Outcome
<1>2. \A d \in Calls : AbstractCall'[d] = [AbstractCall EXCEPT ![c].pc = pc][d]
  BY <1>1 DEF AbstractCall
<1>3. QED
  BY <1>2 DEF AbstractCall

\* What a commit does to the families.
LEMMA CommitRefines ==
    ASSUME IInv, IInv', NEW c \in Calls, Commit(c)
    PROVE  /\ Rotates(c) => Families!Rotate(call[c].pair)
           /\ ~Rotates(c) => Families!EndLate(call[c].pair, call[c].since)
<1>0. PICK p \in PairIds : p = call[c].pair
  BY GoneIsWhole
<1> DEFINE f == FamilyOf(c)
           ended == Families!Ended(f)
<1>1. p \in PairIds /\ f = pairs[p].family /\ Abstract[p].family = f
      /\ (Rotates(c) => Live(p) /\ p \in Gone(c))
  BY <1>0, GoneIsWhole, AbstractType DEF FamilyOf, Rotates
<1>2. PICK n : n = Len(pairs) + 1
  OBVIOUS
<1>3. /\ n \notin PairIds
      /\ \A q \in PairIds : pairs'[q].family = pairs[q].family /\ pairs'[q].from = pairs[q].from
      /\ Rotates(c) => /\ PairIds' = PairIds \cup {n}
                       /\ pairs'[n].family = f /\ pairs'[n].from = p /\ pairs'[n].revoked = {}
      /\ ~Rotates(c) => PairIds' = PairIds
  BY <1>0, <1>2, CommitPairs
<1>4. PairIds = 1 .. Len(pairs) /\ Len(pairs) \in Nat /\ PairIds' = 1 .. Len(pairs') /\ Len(pairs') \in Nat
  BY DEF IInv, TypeOK, PairIds
<1>5. ASSUME Gone(c) # {}, NEW q \in PairIds PROVE Abstract'[q] = ended[q]
  <2>1. q \in PairIds'
    BY <1>3, <1>5
  <2>2. Kinds \ pairs'[q].revoked = IF pairs[q].family = f THEN {} ELSE Unrevoked(q)
    BY <1>5, CommitEnds
  <2>3. /\ Abstract'[q] \in AbstractPair
        /\ Abstract'[q].family = pairs[q].family /\ Abstract'[q].from = pairs[q].from
        /\ Abstract'[q].live = (Kinds \ pairs'[q].revoked # {})
    BY <1>3, <2>1, AbstractTypeAfter
  <2>4. /\ ended[q] \in AbstractPair
        /\ ended[q].family = pairs[q].family /\ ended[q].from = pairs[q].from
        /\ ended[q].live = (pairs[q].family # f /\ Unrevoked(q) # {})
    BY EndedPairs
  <2>5. (Kinds \ pairs'[q].revoked # {}) = (pairs[q].family # f /\ Unrevoked(q) # {})
    BY <2>2
  <2> HIDE DEF ended, f
  <2>6. Abstract'[q].live = ended[q].live
    BY <2>3, <2>4, <2>5, Zenon
  <2>7. QED
    BY <2>3, <2>4, <2>6, SamePair
<1>6. CASE Rotates(c)
  <2> DEFINE x == [family |-> f, live |-> TRUE, from |-> p]
  <2>1. Gone(c) # {}
    BY <1>1, <1>6
  <2>2. Len(pairs') = n
    <3>1. PairIds' = PairIds \cup {n}
      BY <1>3, <1>6
    <3>2. n \in 1 .. Len(pairs') /\ n \in Nat
      BY <1>2, <1>4, <3>1
    <3>3. Len(pairs') \in 1 .. Len(pairs) \cup {n}
      BY <1>4, <3>1, <3>2
    <3>4. QED
      BY <1>2, <1>4, <3>2, <3>3
  <2>3. x \in AbstractPair /\ x.family = f /\ x.live = TRUE /\ x.from = p
    BY <1>1, <1>4, PairTypes DEF AbstractPair
  <2>4. /\ Abstract'[n] \in AbstractPair
        /\ Abstract'[n].family = f /\ Abstract'[n].from = p
        /\ Abstract'[n].live = (Kinds \ pairs'[n].revoked # {})
    BY <1>3, <1>6, AbstractTypeAfter
  <2>5. (Kinds \ pairs'[n].revoked # {}) = TRUE
    BY <1>3, <1>6 DEF Kinds
  <2>6. Abstract' \in Seq(AbstractPair) /\ Len(Abstract') = n
    BY <2>2, AbstractTypeAfter
  <2>7. ended \in Seq(AbstractPair) /\ Len(ended) = Len(pairs)
    BY EndedPairs
  <2>8. Abstract[p].live
    BY <1>1, <1>6, AbstractType DEF Live
  <2> HIDE DEF x, ended, f
  <2>9. Abstract'[n].live = TRUE
    BY <2>4, <2>5, Zenon
  <2>10. Abstract'[n] = x
    BY <2>3, <2>4, <2>9, SamePair
  <2>11. \A q \in 1 .. Len(ended) : Abstract'[q] = ended[q]
    BY <1>4, <1>5, <2>1, <2>7
  <2>12. Abstract' = Append(ended, x)
    BY <1>2, <2>3, <2>6, <2>7, <2>10, <2>11, OneMore
  <2>13. Families!NewPair(f, p) = x
    BY DEF x, Families!NewPair
  <2>14. QED
    BY <1>0, <1>1, <1>6, <2>8, <2>12, <2>13 DEF Families!Rotate, Abstract, ended
<1>7. CASE ~Rotates(c) /\ Gone(c) # {}
  <2>1. Abstract' \in Seq(AbstractPair) /\ DOMAIN Abstract' = PairIds
    BY <1>3, <1>7, AbstractTypeAfter
  <2>2. ended \in Seq(AbstractPair) /\ DOMAIN ended = PairIds
    BY EndedPairs
  <2>3. Abstract' = ended
    <3> HIDE DEF ended
    <3>1. QED
      BY <1>5, <1>7, <2>1, <2>2
  <2>4. QED
    BY <1>0, <1>1, <1>7, <2>3 DEF Families!EndLate, Families!End, Abstract
<1>8. CASE ~Rotates(c) /\ Gone(c) = {}
  <2>1. \A q \in PairIds : Unrevoked(q)' = Unrevoked(q)
    BY <1>2, <1>8, CommitPairs
  <2>2. Abstract' = Abstract
    BY <1>3, <1>8, <2>1 DEF Abstract
  <2>3. CASE \E q \in PairIds : Live(q) /\ pairs[q].family = f
    <3>1. PICK q \in PairIds : Live(q) /\ pairs[q].family = f
      BY <2>3
    <3>2. pairs[q].from # p /\ ~(q <= call[c].since) /\ ~Live(p)
      BY <1>0, <1>8, <3>1, GoneIsWhole
    <3>3. call[c].since \in Nat
      BY DEF IInv, TypeOK, Call
    <3>4. q \in call[c].since + 1 .. Len(Abstract)
      BY <1>4, <3>2, <3>3, AbstractType
    <3>5. Abstract[q].live /\ Abstract[q].family = f /\ Abstract[q].from = pairs[q].from
      BY <3>1, AbstractType DEF Live
    <3>6. ~Abstract[p].live
      BY <3>2, AbstractType DEF Live
    <3>7. Families!Outrun(p, call[c].since)
      BY <1>1, <2>2, <3>2, <3>4, <3>5, <3>6 DEF Families!Outrun, Abstract
    <3>8. QED
      BY <1>0, <1>8, <3>7 DEF Families!EndLate
  <2>4. CASE ~\E q \in PairIds : Live(q) /\ pairs[q].family = f
    <3>1. ASSUME NEW q \in PairIds PROVE Abstract[q] = ended[q]
      <4>1. /\ Abstract[q] \in AbstractPair
            /\ Abstract[q].family = pairs[q].family /\ Abstract[q].from = pairs[q].from
            /\ Abstract[q].live = (Unrevoked(q) # {})
        BY AbstractType
      <4>2. /\ ended[q] \in AbstractPair
            /\ ended[q].family = pairs[q].family /\ ended[q].from = pairs[q].from
            /\ ended[q].live = (pairs[q].family # f /\ Unrevoked(q) # {})
        BY EndedPairs
      <4>3. (Unrevoked(q) # {}) = (pairs[q].family # f /\ Unrevoked(q) # {})
        BY <2>4 DEF Live
      <4> HIDE DEF ended, f
      <4>4. Abstract[q].live = ended[q].live
        BY <4>1, <4>2, <4>3, Zenon
      <4>5. QED
        BY <4>1, <4>2, <4>4, SamePair
    <3>2. Abstract \in Seq(AbstractPair) /\ DOMAIN Abstract = PairIds
      BY AbstractType
    <3>3. ended \in Seq(AbstractPair) /\ DOMAIN ended = PairIds
      BY EndedPairs
    <3>4. Abstract' = ended
      <4> HIDE DEF ended
      <4>1. QED
        BY <2>2, <3>1, <3>2, <3>3
    <3>5. QED
      BY <1>0, <1>1, <1>8, <3>4 DEF Families!EndLate, Families!End, Abstract
  <2>5. QED
    BY <2>3, <2>4
<1>9. QED
  BY <1>6, <1>7, <1>8

\* A commit serves the call.
LEMMA CommitServes ==
    ASSUME IInv, IInv', NEW c \in Calls, Commit(c)
    PROVE  Families!Refresh(c) \/ Families!Logout(c)
<1>1. /\ call' \in [Calls -> Call] /\ \A d \in Calls \ {c} : call'[d] = call[d]
      /\ call'[c].pc = "answered" /\ call'[c].committed = TRUE
      /\ call'[c].pair = call[c].pair /\ call'[c].op = call[c].op /\ call'[c].since = call[c].since
  BY CommitAnswers
<1>2. Outcome(c) = "asked" /\ Outcome(c)' = "served"
  BY <1>1 DEF Outcome, Commit
<1>3. AbstractCall' = [AbstractCall EXCEPT ![c].pc = "served"]
  BY <1>1, <1>2, CallMoves
<1>4. /\ AbstractCall[c].pc = "asked" /\ AbstractCall[c].op = call[c].op
      /\ AbstractCall[c].pair = call[c].pair /\ AbstractCall[c].since = call[c].since
  BY <1>2 DEF AbstractCall
<1>5. Families!Moves(c, "asked", "served")
  BY <1>3, <1>4 DEF Families!Moves, AbstractCall
<1>6. call[c].op \in {"refresh", "logout"} /\ call[c].pair \in PairIds
  BY DEF IInv, CallRight, Commit
<1>7. CASE Rotates(c)
  <2>1. Families!Rotate(call[c].pair) /\ call[c].op = "refresh"
    BY <1>7, CommitRefines DEF Rotates
  <2>2. Abstract[call[c].pair].live
    BY <2>1 DEF Families!Rotate, Abstract
  <2>3. QED
    BY <1>4, <1>5, <2>1, <2>2 DEF Families!Refresh, Families!Rotate, Abstract, AbstractCall
<1>8. CASE ~Rotates(c)
  <2>1. Families!EndLate(call[c].pair, call[c].since)
    BY <1>8, CommitRefines
  <2>2. CASE call[c].op = "logout"
    BY <1>4, <1>5, <2>1, <2>2
       DEF Families!Logout, Families!EndLate, Families!End, Families!Outrun, Abstract, AbstractCall
  <2>3. CASE call[c].op = "refresh"
    <3>1. ~Live(call[c].pair)
      BY <1>8, <2>3, GoneIsWhole DEF Rotates
    <3>2. ~Abstract[call[c].pair].live
      BY <1>6, <3>1, AbstractType DEF Live
    <3>3. QED
      BY <1>4, <1>5, <2>1, <2>3, <3>2
         DEF Families!Refresh, Families!EndLate, Families!End, Families!Outrun, Abstract, AbstractCall
  <2>4. QED
    BY <1>6, <2>2, <2>3
<1>9. QED
  BY <1>7, <1>8

\* A request, its end without effect, and its answer.
LEMMA PresentRefines ==
    ASSUME IInv, IInv', NEW c \in Calls, NEW op \in {"refresh", "logout"}, NEW p \in PairIds,
           Present(c, op, p)
    PROVE  Families!Ask(c, op, p)
<1>1. call'[c] = [NoCall EXCEPT !.pc = "presented", !.op = op, !.pair = p, !.since = Len(pairs)]
      /\ call[c].pc = "idle" /\ pairs' = pairs /\ \A d \in Calls \ {c} : call'[d] = call[d]
  BY DEF Present, IInv, TypeOK
<1>2. Outcome(c) = "none" /\ Outcome(c)' = "asked" /\ \A d \in Calls \ {c} : Outcome(d)' = Outcome(d)
  BY <1>1 DEF Outcome, NoCall
<1>3. call'[c].op = op /\ call'[c].pair = p /\ call'[c].since = Len(Abstract)
  BY <1>1, AbstractType DEF NoCall
<1>4. \A d \in Calls : AbstractCall'[d] =
        [AbstractCall EXCEPT ![c] = [pc |-> "asked", op |-> op, pair |-> p, since |-> Len(Abstract)]][d]
  BY <1>1, <1>2, <1>3 DEF AbstractCall
<1>5. AbstractCall' =
        [AbstractCall EXCEPT ![c] = [pc |-> "asked", op |-> op, pair |-> p, since |-> Len(Abstract)]]
  BY <1>4 DEF AbstractCall
<1>6. Abstract' = Abstract
  BY <1>1 DEF Abstract, Unrevoked, PairIds
<1>7. QED
  BY <1>2, <1>5, <1>6 DEF Families!Ask, Abstract, AbstractCall

LEMMA LoseRefines ==
    ASSUME IInv, IInv', NEW c \in Calls, NEW answer \in {"ok", "refused", "error"},
           call[c].pc \in {"presented", "selected", "revoking"}, ~call[c].committed,
           call' = [call EXCEPT ![c] = Answered(c, answer)], pairs' = pairs
    PROVE  Families!Lose(c)
<1>1. /\ call' \in [Calls -> Call] /\ call'[c] = Answered(c, answer)
      /\ \A d \in Calls \ {c} : call'[d] = call[d]
  BY DEF IInv, TypeOK
<1>2. /\ call'[c].op = call[c].op /\ call'[c].pair = call[c].pair /\ call'[c].since = call[c].since
      /\ call'[c].pc = "answered" /\ ~call'[c].committed
  BY <1>1, AnsweredType
<1>3. Outcome(c) = "asked" /\ Outcome(c)' = "lost"
  BY <1>2 DEF Outcome
<1>4. AbstractCall' = [AbstractCall EXCEPT ![c].pc = "lost"] /\ AbstractCall[c].pc = "asked"
  BY <1>1, <1>2, <1>3, CallMoves DEF AbstractCall
<1>5. Abstract' = Abstract
  BY DEF Abstract, Unrevoked, PairIds
<1>6. QED
  BY <1>4, <1>5 DEF Families!Lose, Families!Moves, Abstract, AbstractCall

LEMMA ReceiveRefines ==
    ASSUME IInv, NEW c \in Calls, Receive(c) PROVE Families!Forget(c)
<1>1. call'[c] = NoCall /\ \A d \in Calls \ {c} : call'[d] = call[d]
  BY DEF Receive, IInv, TypeOK
<1>2. Outcome(c) \in {"served", "lost"} /\ Outcome(c)' = "none"
      /\ \A d \in Calls \ {c} : Outcome(d)' = Outcome(d)
  BY <1>1 DEF Outcome, Receive, NoCall
<1>3. \A d \in Calls : AbstractCall'[d] = [AbstractCall EXCEPT ![c] = Families!NoCall][d]
  BY <1>1, <1>2 DEF AbstractCall, NoCall, Families!NoCall
<1>4. AbstractCall' = [AbstractCall EXCEPT ![c] = Families!NoCall] /\ AbstractCall[c].pc = Outcome(c)
  BY <1>3 DEF AbstractCall
<1>5. Abstract' = Abstract
  BY DEF Receive, Abstract, Unrevoked, PairIds
<1>6. QED
  BY <1>2, <1>4, <1>5 DEF Families!Forget, Abstract, AbstractCall

\* A step inside of a transaction is not seen.
LEMMA InsideStutters ==
    ASSUME IInv, NEW c \in Calls, call' \in [Calls -> Call], pairs' = pairs,
           \A d \in Calls \ {c} : call'[d] = call[d],
           call'[c].op = call[c].op, call'[c].pair = call[c].pair, call'[c].since = call[c].since,
           call[c].pc \in {"presented", "selected", "revoking"},
           call'[c].pc \in {"presented", "selected", "revoking"}
    PROVE  Abstract' = Abstract /\ AbstractCall' = AbstractCall
<1>1. Outcome(c) = "asked" /\ Outcome(c)' = "asked"
  BY DEF Outcome
<1>2. AbstractCall' = [AbstractCall EXCEPT ![c].pc = "asked"]
  BY <1>1, CallMoves
<1>3. AbstractCall' = AbstractCall
  BY <1>1, <1>2 DEF AbstractCall
<1>4. Abstract' = Abstract
  BY DEF Abstract, Unrevoked, PairIds
<1>5. QED
  BY <1>3, <1>4

LEMMA InsideStep ==
    ASSUME IInv, IInv', NEW c \in Calls, Select(c) \/ StartRevoke(c) \/ RevokeRow(c),
           ~(Select(c) /\ call'[c].pc = "answered")
    PROVE  /\ call' \in [Calls -> Call] /\ pairs' = pairs
           /\ \A d \in Calls \ {c} : call'[d] = call[d]
           /\ call'[c].op = call[c].op /\ call'[c].pair = call[c].pair /\ call'[c].since = call[c].since
           /\ call[c].pc \in {"presented", "selected", "revoking"}
           /\ call'[c].pc \in {"presented", "selected", "revoking"}
<1>1. call \in [Calls -> Call] /\ call' \in [Calls -> Call] /\ call[c] \in Call
  BY DEF IInv, TypeOK
<1>2. CASE Select(c)
  <2>1. ~(call[c].op = "refresh" /\ call[c].pair \in expired)
    BY <1>1, <1>2, AnsweredType DEF Select
  <2>2. QED
    BY <1>1, <1>2, <2>1 DEF Select, Call
<1>3. CASE StartRevoke(c)
  <2>1. PICK order : call' = [call EXCEPT ![c].pc = "revoking", ![c].targets = order]
    BY <1>3 DEF StartRevoke
  <2>2. /\ call'[c].op = call[c].op /\ call'[c].pair = call[c].pair /\ call'[c].since = call[c].since
        /\ call'[c].pc = "revoking" /\ \A d \in Calls \ {c} : call'[d] = call[d]
    BY <1>1, <2>1 DEF Call
  <2>3. QED
    BY <1>1, <1>3, <2>2 DEF StartRevoke
<1>4. CASE RevokeRow(c)
  BY <1>1, <1>4 DEF RevokeRow, Call
<1>5. QED
  BY <1>2, <1>3, <1>4

LEMMA NextRefines ==
    IInv /\ IInv' /\ [Next]_vars => [Families!Next]_<<Abstract, AbstractCall>>
<1> SUFFICES ASSUME IInv, IInv', [Next]_vars
             PROVE  Families!Next \/ (Abstract' = Abstract /\ AbstractCall' = AbstractCall)
  OBVIOUS
<1>1. CASE Login \/ Register
  <2>1. OpenSession
    BY <1>1 DEF Login, Register
  <2>2. AbstractCall' = AbstractCall
    BY <2>1 DEF OpenSession, AbstractCall, Outcome
  <2>3. QED
    BY <2>1, <2>2, OpenRefines DEF Families!Next, Families!Login, AbstractCall
<1>2. ASSUME NEW p \in PairIds, Expire(p) PROVE Abstract' = Abstract /\ AbstractCall' = AbstractCall
  BY <1>2 DEF Expire, Abstract, AbstractCall, Outcome, Unrevoked, PairIds
<1>3. ASSUME NEW c \in Calls, NEW op \in {"refresh", "logout"}, NEW p \in PairIds, Present(c, op, p)
      PROVE  Families!Next
  BY <1>3, PresentRefines, AbstractType DEF Families!Next, Abstract
<1>4. ASSUME NEW c \in Calls, Select(c) \/ StartRevoke(c) \/ RevokeRow(c)
      PROVE  Families!Next \/ (Abstract' = Abstract /\ AbstractCall' = AbstractCall)
  <2>1. CASE Select(c) /\ call'[c].pc = "answered"
    <3>1. call' = [call EXCEPT ![c] = Answered(c, "refused")]
      BY <2>1 DEF Select, IInv, TypeOK, Call
    <3>2. ~call[c].committed
      BY <2>1 DEF Select, IInv, CallRight
    <3>3. QED
      BY <2>1, <3>1, <3>2, LoseRefines DEF Select, Families!Next
  <2>2. CASE ~(Select(c) /\ call'[c].pc = "answered")
    BY <1>4, <2>2, InsideStep, InsideStutters
  <2>3. QED
    BY <2>1, <2>2
<1>5. ASSUME NEW c \in Calls, Commit(c) PROVE Families!Next
  BY <1>5, CommitServes DEF Families!Next
<1>6. ASSUME NEW c \in Calls, Abort(c) PROVE Families!Next
  <2>1. ~call[c].committed
    BY <1>6 DEF Abort, IInv, CallRight
  <2>2. QED
    BY <1>6, <2>1, LoseRefines DEF Abort, Families!Next
<1>7. ASSUME NEW c \in Calls, Receive(c) PROVE Families!Next
  BY <1>7, ReceiveRefines DEF Families!Next
<1>8. CASE UNCHANGED vars
  BY <1>8 DEF vars, Abstract, AbstractCall, Outcome, Unrevoked, PairIds
<1>9. QED
  BY <1>1, <1>2, <1>3, <1>4, <1>5, <1>6, <1>7, <1>8 DEF Next, Handle

\* Registration, logins, refreshes and logouts act on the families as single steps, each
\* between its call's request and answer: a refresh with a token used before, and a
\* logout, end the family unless they are outrun.
THEOREM SessionsImplementFamilies == Spec => ImplementsFamilies
<1>1. Init => Families!Init
  BY DEF Init, Families!Init, Families!TableInit, Families!NoCall, NoCall, Outcome, PairIds
<1>2. IInv /\ IInv' /\ [Next]_vars => [Families!Next]_<<Abstract, AbstractCall>>
  BY NextRefines
<1>3. QED
  BY <1>1, <1>2, Invariance, PTL DEF Spec, ImplementsFamilies, Families!Spec, Abstract, AbstractCall

=============================================================================
