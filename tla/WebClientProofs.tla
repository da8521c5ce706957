-------------------------- MODULE WebClientProofs --------------------------
(***************************************************************************)
(* Safety theorems of WebClient, for any number of requests, pairs, errors *)
(* and reloads.                                                            *)
(*                                                                         *)
(* Overlapping refreshes do not get in each other's way because a pair on  *)
(* its way to the tab is known to nobody else: only the newest pair of a   *)
(* family is live, so nothing newer can be issued before it is stored.     *)
(***************************************************************************)
EXTENDS WebClient, TLAPS

-----------------------------------------------------------------------------
(* The inductive invariant                                                 *)

PairRow == [family : Nat, live : BOOLEAN, from : Nat]

\* A family is named by its first pair and has a live pair only at its end.
TableRight ==
    /\ pairs \in Seq(PairRow) /\ Len(pairs) <= MaxPairs
    /\ \A q \in PairIds :
          /\ pairs[q].family \in 1 .. q /\ pairs[q].from \in 0 .. q - 1
          /\ pairs[q].from # 0 => pairs[pairs[q].from].family = pairs[q].family
    /\ \A q, r \in PairIds : pairs[q].live /\ pairs[r].family = pairs[q].family => r <= q

\* A refresh has a token, and a sign-out is not a success before it is answered.
Working ==
    /\ \A s \in Calls : call[s].pc \in {"refreshing", "rotated"} => call[s].token \in PairIds
    /\ leaving.pc = "sent" => ~leaving.ok

\* The pairs the tab has got besides what s brings.
Known(s) == {stored, signing} \cup {call[d].token : d \in Calls \ {s}}

\* What a refresh brings is the newest of its family and known to nobody else.
Fresh(s) ==
    call[s].pc = "rotated" =>
       /\ call[s].token \notin Known(s)
       /\ \A q \in PairIds : pairs[q].family = pairs[call[s].token].family => q <= call[s].token

\* Once a sign-out is answered its pair is over and so is what was issued for it.
SignedOff ==
    leaving.pc = "answered" /\ leaving.ok =>
       /\ ~Live(leaving.pair)
       /\ \A q \in PairIds : Live(q) => pairs[q].from # leaving.pair

IInv ==
    /\ TypeOK
    /\ TableRight
    /\ Working
    /\ \A s \in Calls : Fresh(s)
    /\ SignedOff

-----------------------------------------------------------------------------
(* What may become of the table                                            *)

\* Pairs are added at the end, for a live pair or as the first of a family, and
\* never come to life again.
Evolves ==
    /\ PairIds \subseteq PairIds'
    /\ \A q \in PairIds : /\ pairs'[q].family = pairs[q].family
                          /\ pairs'[q].from = pairs[q].from
                          /\ pairs'[q].live => pairs[q].live
    /\ \A q \in PairIds' \ PairIds :
          /\ q = Len(pairs) + 1
          /\ \/ pairs'[q].from = 0 /\ pairs'[q].family = q
             \/ /\ pairs'[q].from \in PairIds /\ pairs[pairs'[q].from].live
                /\ pairs'[q].family = pairs[pairs'[q].from].family

LEMMA RowTypes ==
    ASSUME TableRight
    PROVE  /\ PairIds = 1 .. Len(pairs) /\ Len(pairs) \in Nat
           /\ \A q \in PairIds : /\ pairs[q] \in PairRow /\ pairs[q].family \in Nat
                                 /\ pairs[q].from \in Nat /\ pairs[q].live \in BOOLEAN
                                 /\ q \in Nat \ {0}
<1>1. pairs \in Seq(PairRow) /\ PairIds = 1 .. Len(pairs) /\ Len(pairs) \in Nat
  BY DEF TableRight, PairIds
<1>2. \A q \in PairIds : pairs[q] \in PairRow /\ q \in Nat \ {0}
  BY <1>1
<1>3. QED
  BY <1>1, <1>2 DEF PairRow

LEMMA SameTable ==
    ASSUME TableRight, pairs' = pairs PROVE TableRight' /\ Evolves
BY DEF TableRight, Evolves, PairIds

\* The rows after the end of a family.
LEMMA EndedRows ==
    ASSUME TableRight, NEW f
    PROVE  /\ Server!Ended(f) \in Seq(PairRow)
           /\ Len(Server!Ended(f)) = Len(pairs) /\ DOMAIN Server!Ended(f) = PairIds
           /\ \A q \in PairIds :
                /\ Server!Ended(f)[q].family = pairs[q].family
                /\ Server!Ended(f)[q].from = pairs[q].from
                /\ Server!Ended(f)[q].live <=> pairs[q].live /\ pairs[q].family # f
<1>1. DOMAIN Server!Ended(f) = PairIds
      /\ Server!Ended(f) = [q \in PairIds |-> Server!Ended(f)[q]]
      /\ \A q \in PairIds : Server!Ended(f)[q] =
            [pairs[q] EXCEPT !.live = IF pairs[q].family = f THEN FALSE ELSE pairs[q].live]
  BY DEF Server!Ended, PairIds
<1>2. ASSUME NEW q \in PairIds
      PROVE  /\ Server!Ended(f)[q] \in PairRow
             /\ Server!Ended(f)[q].family = pairs[q].family
             /\ Server!Ended(f)[q].from = pairs[q].from
             /\ Server!Ended(f)[q].live <=> pairs[q].live /\ pairs[q].family # f
  <2>1. pairs[q] \in PairRow
    BY RowTypes
  <2>2. CASE pairs[q].family = f
    BY <1>1, <2>1, <2>2 DEF PairRow
  <2>3. CASE pairs[q].family # f
    <3>1. Server!Ended(f)[q] = [pairs[q] EXCEPT !.live = pairs[q].live]
      BY <1>1, <2>3
    <3>2. QED
      BY <2>1, <2>3, <3>1 DEF PairRow
  <2>4. QED
    BY <2>2, <2>3
<1>3. Server!Ended(f) \in [1 .. Len(pairs) -> PairRow] /\ Len(pairs) \in Nat
  BY <1>1, <1>2, RowTypes
<1>4. QED
  BY <1>1, <1>2, <1>3, RowTypes

LEMMA EndTable ==
    ASSUME TableRight, NEW p \in PairIds, Server!End(p)
    PROVE  /\ TableRight' /\ Evolves /\ PairIds' = PairIds
           /\ \A q \in PairIds : pairs'[q].live => pairs[q].family # pairs[p].family
<1>1. pairs' = Server!Ended(pairs[p].family)
  BY DEF Server!End
<1>2. /\ pairs' \in Seq(PairRow) /\ Len(pairs') = Len(pairs) /\ PairIds' = PairIds
      /\ \A q \in PairIds :
           /\ pairs'[q].family = pairs[q].family /\ pairs'[q].from = pairs[q].from
           /\ pairs'[q].live <=> pairs[q].live /\ pairs[q].family # pairs[p].family
  BY <1>1, EndedRows DEF PairIds
<1>3. Evolves
  BY <1>2 DEF Evolves
<1>4. \A q \in PairIds : pairs[q].from # 0 => pairs[q].from \in PairIds
  BY RowTypes DEF TableRight
<1>5. TableRight'
  <2>1. \A q \in PairIds' :
           /\ pairs'[q].family \in 1 .. q /\ pairs'[q].from \in 0 .. q - 1
           /\ pairs'[q].from # 0 => pairs'[pairs'[q].from].family = pairs'[q].family
    BY <1>2, <1>4 DEF TableRight
  <2>2. \A q, r \in PairIds' : pairs'[q].live /\ pairs'[r].family = pairs'[q].family => r <= q
    BY <1>2 DEF TableRight
  <2>3. QED
    BY <1>2, <2>1, <2>2 DEF TableRight
<1>6. QED
  BY <1>2, <1>3, <1>5

\* A row more, whose family has no live row left.
LEMMA MoreRows ==
    ASSUME TableRight, NEW table \in Seq(PairRow), NEW new \in PairRow,
           Len(table) = Len(pairs), DOMAIN table = PairIds, Len(pairs) < MaxPairs, MaxPairs \in Nat,
           pairs' = Append(table, new), NEW n, n = Len(pairs) + 1,
           \A q \in PairIds : /\ table[q].family = pairs[q].family /\ table[q].from = pairs[q].from
                              /\ table[q].live => pairs[q].live /\ pairs[q].family # new.family,
           \/ new.family = n /\ new.from = 0
           \/ new.from \in PairIds /\ pairs[new.from].live /\ new.family = pairs[new.from].family
    PROVE  TableRight' /\ Evolves /\ PairIds' = PairIds \cup {n} /\ pairs'[n] = new
<1>1. PairIds = 1 .. Len(pairs) /\ Len(pairs) \in Nat /\ n \in Nat /\ n \notin PairIds
  BY RowTypes
<1>2. /\ pairs' \in Seq(PairRow) /\ Len(pairs') = n /\ PairIds' = PairIds \cup {n}
      /\ \A q \in PairIds : pairs'[q] = table[q]
      /\ pairs'[n] = new
  BY <1>1 DEF PairIds
<1>3. Evolves
  BY <1>1, <1>2 DEF Evolves
<1>4. \A q \in PairIds : /\ q < n /\ pairs[q].family \in 1 .. q /\ pairs[q].from \in 0 .. q - 1
                         /\ pairs[q].from # 0 => pairs[q].from \in PairIds
  BY <1>1, RowTypes DEF TableRight
<1>5. /\ new.family \in 1 .. n /\ new.from \in 0 .. n - 1
      /\ new.from # 0 => new.from \in PairIds /\ pairs[new.from].family = new.family
  BY <1>1, <1>4
<1>6. \A q \in PairIds' :
         /\ pairs'[q].family \in 1 .. q /\ pairs'[q].from \in 0 .. q - 1
         /\ pairs'[q].from # 0 => pairs'[pairs'[q].from].family = pairs'[q].family
  BY <1>1, <1>2, <1>4, <1>5 DEF TableRight
<1>7. \A q, r \in PairIds' : pairs'[q].live /\ pairs'[r].family = pairs'[q].family => r <= q
  BY <1>1, <1>2, <1>4 DEF TableRight
<1>8. Len(pairs') <= MaxPairs
  BY <1>1, <1>2
<1>9. QED
  BY <1>2, <1>3, <1>6, <1>7, <1>8 DEF TableRight

LEMMA OpenTable ==
    ASSUME TableRight, Server!Open, Len(pairs) < MaxPairs
    PROVE  /\ TableRight' /\ Evolves
           /\ PairIds' = PairIds \cup {Len(pairs) + 1} /\ Len(pairs) + 1 \notin PairIds
           /\ Len(pairs') = Len(pairs) + 1
           /\ \A q \in PairIds' \ PairIds : pairs'[q].family = q
<1> DEFINE n == Len(pairs) + 1
           new == [family |-> n, live |-> TRUE, from |-> 0]
<1>1. Len(pairs) \in Nat /\ PairIds = 1 .. Len(pairs) /\ pairs \in Seq(PairRow)
  BY RowTypes DEF TableRight
<1>2. new \in PairRow /\ pairs' = Append(pairs, new) /\ new.family = n /\ new.from = 0
  BY <1>1 DEF PairRow, Server!Open, Server!NewPair
<1>3. \A q \in PairIds : pairs[q].family # n
  BY <1>1 DEF TableRight
<1>4. Len(pairs') = n
  BY <1>1, <1>2
<1> HIDE DEF new
<1>5. TableRight' /\ Evolves /\ PairIds' = PairIds \cup {n} /\ pairs'[n] = new
  <2>1. n = Len(pairs) + 1
    OBVIOUS
  <2> HIDE DEF n
  <2>2. QED
    BY <1>1, <1>2, <1>3, <2>1, MoreRows, BoundsAssumption DEF PairIds
<1>6. QED
  BY <1>1, <1>2, <1>4, <1>5

LEMMA RotateTable ==
    ASSUME TableRight, NEW p \in PairIds, pairs[p].live, Len(pairs) < MaxPairs,
           pairs' = Append(Server!Ended(pairs[p].family), Server!NewPair(pairs[p].family, p))
    PROVE  /\ TableRight' /\ Evolves
           /\ PairIds' = PairIds \cup {Len(pairs) + 1} /\ Len(pairs) + 1 \notin PairIds
           /\ Len(pairs') = Len(pairs) + 1
           /\ \A q \in PairIds' \ PairIds : pairs'[q].family = pairs[p].family
<1> DEFINE n == Len(pairs) + 1
           table == Server!Ended(pairs[p].family)
           new == [family |-> pairs[p].family, live |-> TRUE, from |-> p]
<1>1. Len(pairs) \in Nat /\ PairIds = 1 .. Len(pairs) /\ pairs[p].family \in Nat /\ p \in Nat
  BY RowTypes
<1>2. new \in PairRow /\ pairs' = Append(table, new) /\ new.family = pairs[p].family /\ new.from = p
  BY <1>1 DEF PairRow, Server!NewPair
<1>3. /\ table \in Seq(PairRow) /\ Len(table) = Len(pairs) /\ DOMAIN table = PairIds
      /\ \A q \in PairIds :
           /\ table[q].family = pairs[q].family /\ table[q].from = pairs[q].from
           /\ table[q].live => pairs[q].live /\ pairs[q].family # pairs[p].family
  BY EndedRows
<1> HIDE DEF new, table
<1>4. Len(pairs') = n
  <2>1. \A a \in Seq(PairRow), b \in PairRow : Len(Append(a, b)) = Len(a) + 1
    OBVIOUS
  <2>2. Len(pairs') = Len(table) + 1
    BY <1>2, <1>3, <2>1
  <2>3. QED
    BY <1>3, <2>2
<1>5. TableRight' /\ Evolves /\ PairIds' = PairIds \cup {n} /\ pairs'[n] = new
  <2>1. n = Len(pairs) + 1
    OBVIOUS
  <2> HIDE DEF n
  <2>2. QED
    BY <1>1, <1>2, <1>3, <2>1, MoreRows, BoundsAssumption
<1>6. QED
  BY <1>1, <1>2, <1>4, <1>5

\* A call of the server that ends a family, or is outrun by another.
LEMMA EndsFamilyTable ==
    ASSUME TableRight, NEW p \in PairIds, NEW since, EndsFamily(p, since)
    PROVE  /\ TableRight' /\ Evolves /\ PairIds' = PairIds
           /\ ~Live(p)'
           /\ since \in Nat => \A q \in PairIds' : pairs'[q].live => pairs'[q].from # p
<1>1. CASE Server!End(p)
  <2>1. /\ TableRight' /\ Evolves /\ PairIds' = PairIds
        /\ \A q \in PairIds : pairs'[q].live => pairs[q].family # pairs[p].family
    BY <1>1, EndTable
  <2>2. \A q \in PairIds : /\ pairs'[q].from = pairs[q].from /\ p # 0
                           /\ pairs[q].from = p => pairs[q].family = pairs[p].family
    BY <2>1, RowTypes DEF Evolves, TableRight
  <2>3. QED
    BY <2>1, <2>2 DEF Live
<1>2. CASE Server!Outrun(p, since)
  <2>1. TableRight' /\ Evolves /\ PairIds' = PairIds
    BY <1>2, SameTable DEF Server!Outrun, PairIds
  <2>2. ASSUME since \in Nat, NEW q \in PairIds, pairs[q].live, pairs[q].from = p PROVE FALSE
    <3>1. PICK r \in since + 1 .. Len(pairs) :
            pairs[r].live /\ pairs[r].family = pairs[p].family /\ pairs[r].from # p
      BY <1>2 DEF Server!Outrun
    <3>2. r \in PairIds
      BY <2>2, <3>1, RowTypes
    <3>3. pairs[q].family = pairs[p].family
      BY <2>2, RowTypes DEF TableRight
    <3>4. q <= r /\ r <= q /\ q \in Nat /\ r \in Nat
      BY <2>2, <3>1, <3>2, <3>3, RowTypes DEF TableRight
    <3>5. QED
      BY <2>2, <3>1, <3>4
  <2>3. QED
    BY <1>2, <2>1, <2>2 DEF Server!Outrun, Live
<1>3. QED
  BY <1>1, <1>2 DEF EndsFamily, Server!EndLate

-----------------------------------------------------------------------------
(* One step of the tab and the server                                      *)

\* A pair that was on its way still is, and nobody has learned of it; or it is new.
StaysFresh(s) ==
    call'[s].pc = "rotated" =>
       \/ /\ call'[s] = call[s]
          /\ Known(s)' \subseteq Known(s) \cup {0} \cup (PairIds' \ PairIds)
          /\ \A q \in PairIds' \ PairIds : pairs'[q].family # pairs[call[s].token].family
       \/ /\ call'[s].token \in PairIds' \ PairIds
          /\ Known(s)' \subseteq PairIds \cup {0}

LEMMA AnyStep ==
    ASSUME IInv, TypeOK', TableRight', Working', Evolves, \A s \in Calls : StaysFresh(s),
           SignedOff' \/ leaving' = leaving
    PROVE  IInv'
<1>1. ASSUME NEW s \in Calls PROVE Fresh(s)'
  <2>1. CASE call'[s].pc # "rotated"
    BY <2>1 DEF Fresh
  <2>2. CASE /\ call'[s].pc = "rotated" /\ call'[s] = call[s]
             /\ Known(s)' \subseteq Known(s) \cup {0} \cup (PairIds' \ PairIds)
             /\ \A q \in PairIds' \ PairIds : pairs'[q].family # pairs[call[s].token].family
    <3>1. call[s].token \in PairIds /\ call[s].token # 0 /\ Fresh(s)
      BY <2>2, RowTypes DEF IInv, Working
    <3>2. call[s].token \notin Known(s)'
      BY <2>2, <3>1 DEF Fresh
    <3>3. \A q \in PairIds' : pairs'[q].family = pairs'[call[s].token].family => q <= call[s].token
      BY <2>2, <3>1 DEF Fresh, Evolves
    <3>4. QED
      BY <2>2, <3>2, <3>3 DEF Fresh
  <2>3. CASE /\ call'[s].pc = "rotated" /\ call'[s].token \in PairIds' \ PairIds
             /\ Known(s)' \subseteq PairIds \cup {0}
    <3>1. call'[s].token = Len(pairs) + 1 /\ Len(pairs) \in Nat /\ PairIds = 1 .. Len(pairs)
      BY <2>3, RowTypes DEF Evolves, IInv
    <3>2. \A q \in PairIds' : q <= call'[s].token
      BY <2>3, <3>1 DEF Evolves
    <3>3. call'[s].token \notin Known(s)'
      BY <2>3, <3>1
    <3>4. QED
      BY <3>2, <3>3 DEF Fresh
  <2>4. QED
    BY <2>1, <2>2, <2>3 DEF StaysFresh
<1>2. ASSUME leaving' = leaving PROVE SignedOff'
  <2>1. ASSUME leaving.pc = "answered", leaving.ok PROVE SignedOff'
    <3>1. leaving.pair \in PairIds /\ ~pairs[leaving.pair].live
          /\ \A q \in PairIds : pairs[q].live => pairs[q].from # leaving.pair
      BY <2>1 DEF IInv, TypeOK, SignedOff, Live
    <3>2. ~pairs'[leaving.pair].live
      BY <3>1 DEF Evolves
    <3>3. \A q \in PairIds' : pairs'[q].live => pairs'[q].from # leaving.pair
      <4>1. leaving.pair # 0
        BY <3>1, RowTypes DEF IInv
      <4>2. QED
        BY <3>1, <4>1 DEF Evolves
    <3>4. QED
      BY <1>2, <3>2, <3>3 DEF SignedOff, Live
  <2>2. QED
    BY <1>2, <2>1 DEF SignedOff
<1>3. QED
  BY <1>1, <1>2 DEF IInv

-----------------------------------------------------------------------------
(* The steps of a request                                                  *)

LEMMA CallTypes ==
    ASSUME IInv
    PROVE  /\ \A s \in Calls : call[s] \in Call /\ call[s].token \in PairIds \cup {0}
           /\ stored \in PairIds \cup {0} /\ signing \in PairIds \cup {0}
           /\ 0 \notin PairIds /\ PairIds \subseteq Nat
           /\ Data \subseteq Calls /\ {"confirm", "check"} \subseteq Calls
           /\ "confirm" \notin Data /\ "check" \notin Data
BY RowTypes, DataAssumption DEF IInv, TypeOK, Calls

\* A refresh of a live pair opens nothing in the family of a pair on its way.
LEMMA OtherFamily ==
    ASSUME IInv, NEW s \in Calls, NEW d \in Calls \ {s}, call[d].pc = "rotated",
           call[s].token \in PairIds, pairs[call[s].token].live
    PROVE  pairs[call[s].token].family # pairs[call[d].token].family
<1>1. call[d].token \in PairIds /\ call[s].token \in Known(d) /\ Fresh(d)
  BY DEF IInv, Working, Known
<1>2. call[d].token # call[s].token
  BY <1>1 DEF Fresh
<1>3. call[d].token \in Nat /\ call[s].token \in Nat
  BY <1>1, CallTypes
<1>4. ASSUME pairs[call[s].token].family = pairs[call[d].token].family PROVE FALSE
  <2>1. call[s].token <= call[d].token
    BY <1>1, <1>4 DEF Fresh
  <2>2. call[d].token <= call[s].token
    BY <1>1, <1>4 DEF IInv, TableRight
  <2>3. QED
    BY <1>2, <1>3, <2>1, <2>2
<1>5. QED
  BY <1>4

\* What a step of one request may do.
LEMMA RequestStep ==
    ASSUME IInv, NEW s \in Calls, NEW next \in Call, CallSet(s, next), TableRight', Evolves,
           call[s].pc # "idle" \/ s \in Data, next.pc # "idle" \/ s \in Data,
           faults' \in 0 .. MaxFaults,
           stored' \in {stored, 0, call[s].token},
           next.token \in {0, stored, call[s].token} \cup (PairIds' \ PairIds),
           next.pc \in {"refreshing", "rotated"} => next.token # 0,
           next.pc = "rotated" => next.token \in PairIds' \ PairIds,
           \A d \in Calls \ {s} : call[d].pc = "rotated" =>
              \A q \in PairIds' \ PairIds : pairs'[q].family # pairs[call[d].token].family
    PROVE  IInv'
<1>1. /\ call' \in [Calls -> Call] /\ call'[s] = next /\ \A d \in Calls \ {s} : call'[d] = call[d]
      /\ UNCHANGED <<expired, signing, app, leaving>>
  BY DEF CallSet, IInv, TypeOK
<1>2. PairIds \subseteq PairIds'
  BY DEF Evolves
<1>3. TypeOK'
  <2>1. stored' \in PairIds' \cup {0} /\ signing' \in PairIds' \cup {0}
    BY <1>1, <1>2, CallTypes
  <2>2. \A d \in Calls : call'[d].token \in PairIds' \cup {0}
    BY <1>1, <1>2, CallTypes
  <2>3. signing' # 0 <=> call'["confirm"].pc # "idle"
    BY <1>1, CallTypes DEF IInv, TypeOK
  <2>4. leaving'.pc # "none" => leaving'.pair \in PairIds'
    BY <1>1, <1>2 DEF IInv, TypeOK
  <2>5. QED
    BY <1>1, <1>2, <2>1, <2>2, <2>3, <2>4 DEF IInv, TypeOK, TableRight, PairRow
<1>4. Working'
  BY <1>1, <1>2, CallTypes DEF IInv, Working
<1>5. StaysFresh(s)
  BY <1>1, CallTypes DEF StaysFresh, Known
<1>6. ASSUME NEW d \in Calls \ {s} PROVE StaysFresh(d)
  <2>1. call'[d] = call[d]
    BY <1>1
  <2>2. Known(d)' \subseteq Known(d) \cup {0} \cup (PairIds' \ PairIds)
    BY <1>1 DEF Known
  <2>3. QED
    BY <2>1, <2>2 DEF StaysFresh
<1>7. QED
  BY <1>1, <1>3, <1>4, <1>5, <1>6, AnyStep

LEMMA AtTypes ==
    ASSUME NEW p \in Nat, NEW pc \in {"idle", "sent", "denied", "refreshing", "rotated", "refused",
                                      "retrying", "served", "failed"}
    PROVE  At(pc, p) \in Call /\ At(pc, p).pc = pc /\ At(pc, p).token = p
BY DEF At, Call

\* Steps of a request that the table does not see.
LEMMA QuietStep ==
    ASSUME IInv, NEW s \in Calls, NEW next \in Call, CallSet(s, next), pairs' = pairs,
           call[s].pc # "idle" \/ s \in Data, next.pc # "idle" \/ s \in Data,
           faults' = faults \/ Fault,
           stored' \in {stored, 0, call[s].token},
           next.token \in {0, stored, call[s].token},
           next.pc = "refreshing" => next.token # 0, next.pc # "rotated"
    PROVE  IInv'
<1>1. TableRight' /\ Evolves /\ PairIds' = PairIds
  BY SameTable DEF IInv, PairIds
<1>2. faults' \in 0 .. MaxFaults
  BY BoundsAssumption DEF Fault, IInv, TypeOK
<1>3. QED
  BY <1>1, <1>2, RequestStep

LEMMA SendStep ==
    ASSUME IInv, NEW s \in Calls, Send(s) PROVE IInv'
<1>1. stored \in Nat
  BY CallTypes
<1>2. QED
  BY <1>1, AtTypes, QuietStep DEF Send

LEMMA ServeStep ==
    ASSUME IInv, NEW s \in Calls, Serve(s) \/ ServeFault(s) PROVE IInv'
<1>1. PICK pc \in {"served", "denied", "failed"} : CallSet(s, At(pc, 0))
  BY DEF Serve, ServeFault
<1>2. call[s].pc # "idle" /\ pairs' = pairs /\ stored' = stored /\ (faults' = faults \/ Fault)
  BY DEF Serve, ServeFault
<1>3. At(pc, 0) \in Call /\ At(pc, 0).pc = pc /\ At(pc, 0).token = 0
  BY AtTypes
<1>4. QED
  BY <1>1, <1>2, <1>3, QuietStep

LEMMA DeniedStep ==
    ASSUME IInv, NEW s \in Calls, Denied(s) PROVE IInv'
<1>1. stored \in Nat /\ Len(pairs) \in Nat
  BY CallTypes, RowTypes DEF IInv
<1>2. CASE stored = 0
  BY <1>2, AtTypes, QuietStep DEF Denied
<1>3. CASE stored # 0
  <2> DEFINE next == [At("refreshing", stored) EXCEPT !.since = Len(pairs)]
  <2>1. next \in Call /\ next.pc = "refreshing" /\ next.token = stored
    BY <1>1 DEF At, Call
  <2>2. CallSet(s, next) /\ call[s].pc # "idle" /\ UNCHANGED <<pairs, stored, faults>>
    BY <1>3 DEF Denied
  <2> HIDE DEF next
  <2>3. QED
    BY <1>3, <2>1, <2>2, QuietStep
<1>4. QED
  BY <1>2, <1>3

LEMMA RefusedStep ==
    ASSUME IInv, NEW s \in Calls, Refused(s) PROVE IInv'
BY AtTypes, QuietStep DEF Refused, AfterRefusal

LEMMA RefreshedStep ==
    ASSUME IInv, NEW s \in Calls, Refreshed(s) PROVE IInv'
<1>1. call[s].token \in Nat
  BY CallTypes
<1>2. QED
  BY <1>1, AtTypes, QuietStep DEF Refreshed

LEMMA SettleStep ==
    ASSUME IInv, NEW s \in Calls, Settle(s) PROVE IInv'
BY AtTypes, QuietStep DEF Settle, NoCall

\* The family is rotated: the new pair is known to this request alone.
LEMMA RotateStep ==
    ASSUME IInv, NEW s \in Calls, call[s].pc = "refreshing", Live(call[s].token), Len(pairs) < MaxPairs,
           pairs' = Append(Server!Ended(pairs[call[s].token].family),
                           Server!NewPair(pairs[call[s].token].family, call[s].token)),
           stored' = stored, faults' = faults \/ Fault,
           \/ CallSet(s, At("rotated", Len(pairs) + 1))
           \/ CallSet(s, At("failed", 0))
    PROVE  IInv'
<1>1. PICK p \in PairIds : p = call[s].token /\ pairs[p].live
  BY DEF Live
<1>2. Len(pairs) \in Nat
  BY RowTypes DEF IInv
<1>3. /\ TableRight' /\ Evolves
      /\ PairIds' = PairIds \cup {Len(pairs) + 1} /\ Len(pairs) + 1 \notin PairIds
      /\ \A q \in PairIds' \ PairIds : pairs'[q].family = pairs[p].family
  BY <1>1, RotateTable DEF IInv
<1>4. \A d \in Calls \ {s} : call[d].pc = "rotated" => pairs[p].family # pairs[call[d].token].family
  BY <1>1, OtherFamily
<1>5. faults' \in 0 .. MaxFaults
  BY BoundsAssumption DEF Fault, IInv, TypeOK
<1>6. CASE CallSet(s, At("rotated", Len(pairs) + 1))
  <2>1. /\ At("rotated", Len(pairs) + 1) \in Call /\ At("rotated", Len(pairs) + 1).pc = "rotated"
        /\ At("rotated", Len(pairs) + 1).token = Len(pairs) + 1 /\ Len(pairs) + 1 # 0
    BY <1>2, AtTypes
  <2>2. QED
    BY <1>3, <1>4, <1>5, <1>6, <2>1, RequestStep
<1>7. CASE CallSet(s, At("failed", 0))
  <2>1. At("failed", 0) \in Call /\ At("failed", 0).pc = "failed" /\ At("failed", 0).token = 0
    BY AtTypes
  <2>2. QED
    BY <1>3, <1>4, <1>5, <1>7, <2>1, RequestStep
<1>8. QED
  BY <1>6, <1>7

LEMMA ExchangeStep ==
    ASSUME IInv, NEW s \in Calls, Exchange(s) PROVE IInv'
<1>1. call[s].pc = "refreshing" /\ stored' = stored /\ faults' = faults /\ call[s].token \in PairIds
  BY DEF Exchange, IInv, Working
<1>2. /\ At("failed", 0) \in Call /\ At("failed", 0).pc = "failed" /\ At("failed", 0).token = 0
      /\ At("refused", 0) \in Call /\ At("refused", 0).pc = "refused" /\ At("refused", 0).token = 0
  BY AtTypes
<1>3. CASE /\ Live(call[s].token) /\ Len(pairs) < MaxPairs
           /\ pairs' = Append(Server!Ended(pairs[call[s].token].family),
                              Server!NewPair(pairs[call[s].token].family, call[s].token))
           /\ CallSet(s, At("rotated", Len(pairs) + 1))
  BY <1>1, <1>3, RotateStep
<1>4. CASE UNCHANGED pairs /\ CallSet(s, At("failed", 0))
  BY <1>1, <1>2, <1>4, QuietStep
<1>5. CASE EndsFamily(call[s].token, call[s].since) /\ CallSet(s, At("refused", 0))
  <2>1. PICK p, n : p \in PairIds /\ p = call[s].token /\ n = call[s].since
    BY <1>1
  <2>2. EndsFamily(p, n)
    BY <1>5, <2>1 DEF EndsFamily, Server!EndLate, Server!Outrun, Server!End
  <2>3. TableRight' /\ Evolves /\ PairIds' = PairIds
    BY <2>1, <2>2, EndsFamilyTable DEF IInv
  <2>4. faults' \in 0 .. MaxFaults
    BY <1>1 DEF IInv, TypeOK
  <2>5. QED
    BY <1>1, <1>2, <1>5, <2>3, <2>4, RequestStep
<1>6. QED
  BY <1>3, <1>4, <1>5 DEF Exchange, Accepts

LEMMA ExchangeFaultStep ==
    ASSUME IInv, NEW s \in Calls, ExchangeFault(s) PROVE IInv'
<1>1. call[s].pc = "refreshing" /\ stored' = stored /\ Fault /\ call[s].token \in PairIds
  BY DEF ExchangeFault, IInv, Working
<1>2. /\ At("failed", 0) \in Call /\ At("failed", 0).pc = "failed" /\ At("failed", 0).token = 0
      /\ At("refused", 0) \in Call /\ At("refused", 0).pc = "refused" /\ At("refused", 0).token = 0
  BY AtTypes
<1>3. CASE UNCHANGED pairs /\ \E pc \in {"refused", "failed"} : CallSet(s, At(pc, 0))
  BY <1>1, <1>2, <1>3, QuietStep
<1>4. CASE Len(pairs) < MaxPairs /\ Server!Rotate(call[s].token) /\ CallSet(s, At("failed", 0))
  BY <1>1, <1>4, RotateStep DEF Server!Rotate, Live
<1>5. CASE EndsFamily(call[s].token, call[s].since) /\ CallSet(s, At("failed", 0))
  <2>1. PICK p, n : p \in PairIds /\ p = call[s].token /\ n = call[s].since
    BY <1>1
  <2>2. EndsFamily(p, n)
    BY <1>5, <2>1 DEF EndsFamily, Server!EndLate, Server!Outrun, Server!End
  <2>3. TableRight' /\ Evolves /\ PairIds' = PairIds
    BY <2>1, <2>2, EndsFamilyTable DEF IInv
  <2>4. faults' \in 0 .. MaxFaults
    BY <1>1, BoundsAssumption DEF Fault, IInv, TypeOK
  <2>5. QED
    BY <1>1, <1>2, <1>5, <2>3, <2>4, RequestStep
<1>6. QED
  BY <1>3, <1>4, <1>5 DEF ExchangeFault

-----------------------------------------------------------------------------
(* The steps of AuthView, App and sign-out                                 *)

\* What they may do: a session is opened, calls begin and end.
LEMMA AppStep ==
    ASSUME IInv, TableRight', Evolves,
           \A q \in PairIds' \ PairIds : pairs'[q].family \notin PairIds,
           expired' \subseteq PairIds', call' \in [Calls -> Call],
           \A s \in Calls : \/ call'[s] = call[s]
                            \/ /\ call'[s].pc \notin {"refreshing", "rotated"}
                               /\ call'[s].token \in {0, stored, signing} \cup (PairIds' \ PairIds),
           stored' \in {0, stored, signing} \cup (PairIds' \ PairIds),
           signing' \in {0, signing} \cup (PairIds' \ PairIds),
           signing' # 0 <=> call'["confirm"].pc # "idle",
           app' \in {"signin", "checking", "dashboard"}, faults' = faults \/ Fault,
           leaving' \in Leaving, leaving'.pc # "none" => leaving'.pair \in PairIds,
           leaving'.pc = "sent" => ~leaving'.ok,
           SignedOff' \/ leaving' = leaving
    PROVE  IInv'
<1>1. PairIds \subseteq PairIds'
  BY DEF Evolves
<1>2. TypeOK'
  <2>1. faults' \in 0 .. MaxFaults
    BY BoundsAssumption DEF Fault, IInv, TypeOK
  <2>2. \A s \in Calls : call'[s].token \in PairIds' \cup {0}
    BY <1>1, CallTypes
  <2>3. stored' \in PairIds' \cup {0} /\ signing' \in PairIds' \cup {0}
    BY <1>1, CallTypes
  <2>4. QED
    BY <1>1, <2>1, <2>2, <2>3 DEF TypeOK, TableRight, PairRow
<1>3. Working'
  BY <1>1 DEF IInv, Working
<1>4. ASSUME NEW s \in Calls PROVE StaysFresh(s)
  <2>1. ASSUME call'[s].pc = "rotated"
        PROVE  /\ call'[s] = call[s]
               /\ Known(s)' \subseteq Known(s) \cup {0} \cup (PairIds' \ PairIds)
               /\ \A q \in PairIds' \ PairIds : pairs'[q].family # pairs[call[s].token].family
    <3>1. call'[s] = call[s]
      BY <2>1
    <3>2. Known(s)' \subseteq Known(s) \cup {0} \cup (PairIds' \ PairIds)
      BY DEF Known
    <3>3. call[s].token \in PairIds
      BY <2>1, <3>1 DEF IInv, Working
    <3>4. pairs[call[s].token].family \in PairIds
      BY <3>3, RowTypes DEF IInv, TableRight
    <3>5. QED
      BY <3>1, <3>2, <3>4
  <2>2. QED
    BY <2>1 DEF StaysFresh
<1>5. QED
  BY <1>2, <1>3, <1>4, AnyStep

\* Such a step that the table does not see.
LEMMA QuietAppStep ==
    ASSUME IInv, pairs' = pairs, expired' \subseteq PairIds, call' \in [Calls -> Call],
           \A s \in Calls : \/ call'[s] = call[s]
                            \/ /\ call'[s].pc \notin {"refreshing", "rotated"}
                               /\ call'[s].token \in {0, stored, signing},
           stored' \in {0, stored, signing}, signing' \in {0, signing},
           signing' # 0 <=> call'["confirm"].pc # "idle",
           app' \in {"signin", "checking", "dashboard"}, faults' = faults \/ Fault,
           leaving' \in {leaving, NotLeaving}
    PROVE  IInv'
<1>1. TableRight' /\ Evolves /\ PairIds' = PairIds
  BY SameTable DEF IInv, PairIds
<1>2. /\ NotLeaving \in Leaving /\ NotLeaving.pc = "none"
      /\ leaving \in Leaving
      /\ leaving.pc # "none" => leaving.pair \in PairIds
      /\ leaving.pc = "sent" => ~leaving.ok
  BY DEF NotLeaving, Leaving, IInv, TypeOK, Working
<1>3. SignedOff' \/ leaving' = leaving
  BY <1>2 DEF SignedOff
<1>4. QED
  BY <1>1, <1>2, <1>3, AppStep

\* What a session that is opened brings to the table.
LEMMA OpenedTable ==
    ASSUME IInv, Opens
    PROVE  /\ TableRight' /\ Evolves /\ Len(pairs') \in PairIds' \ PairIds
           /\ \A q \in PairIds' \ PairIds : pairs'[q].family \notin PairIds
BY OpenTable DEF IInv, Opens

\* The record of a sign-out, as it is.
LEMMA LeavingTypes ==
    ASSUME IInv
    PROVE  /\ leaving \in Leaving
           /\ leaving.pc # "none" => leaving.pair \in PairIds
           /\ leaving.pc = "sent" => ~leaving.ok
           /\ app \in {"signin", "checking", "dashboard"}
           /\ expired \subseteq PairIds /\ call \in [Calls -> Call]
           /\ signing # 0 <=> call["confirm"].pc # "idle"
BY DEF IInv, TypeOK, Working

LEMMA ExpireStep ==
    ASSUME IInv, NEW p \in PairIds, Expire(p) PROVE IInv'
BY LeavingTypes, QuietAppStep DEF Expire

LEMMA SignInStep ==
    ASSUME IInv, SignIn PROVE IInv'
<1> DEFINE n == Len(pairs')
<1>1. /\ TableRight' /\ Evolves /\ n \in PairIds' \ PairIds
      /\ \A q \in PairIds' \ PairIds : pairs'[q].family \notin PairIds
  BY OpenedTable DEF SignIn, MayOpen
<1>2. n \in Nat \ {0}
  BY <1>1 DEF TableRight, PairIds
<1>3. At("sent", n) \in Call /\ At("sent", n).pc = "sent" /\ At("sent", n).token = n
  BY <1>2, AtTypes
<1>4. /\ signing' = n /\ stored' = n /\ call' = [call EXCEPT !["confirm"] = At("sent", n)]
      /\ UNCHANGED <<expired, app, leaving, faults>>
  BY DEF SignIn
<1> HIDE DEF n
<1>5. call' \in [Calls -> Call] /\ call'["confirm"] = At("sent", n)
      /\ \A s \in Calls \ {"confirm"} : call'[s] = call[s]
  BY <1>3, <1>4, LeavingTypes, CallTypes
<1>6. expired' \subseteq PairIds'
  BY <1>1, <1>4, LeavingTypes DEF Evolves
<1>7. QED
  BY <1>1, <1>2, <1>3, <1>4, <1>5, <1>6, LeavingTypes, CallTypes, AppStep

LEMMA RegisterStep ==
    ASSUME IInv, Register PROVE IInv'
<1> DEFINE n == Len(pairs')
<1>1. /\ TableRight' /\ Evolves /\ n \in PairIds' \ PairIds
      /\ \A q \in PairIds' \ PairIds : pairs'[q].family \notin PairIds
  BY OpenedTable DEF Register, MayOpen
<1>2. n \in Nat \ {0}
  BY <1>1 DEF TableRight, PairIds
<1>3. At("sent", n) \in Call /\ At("sent", n).pc = "sent" /\ At("sent", n).token = n
  BY <1>2, AtTypes
<1>4. /\ signing' = 0 /\ signing = 0 /\ stored' = n /\ app' = "dashboard"
      /\ call' = [call EXCEPT !["check"] = At("sent", n)]
      /\ UNCHANGED <<expired, leaving, faults>>
  BY DEF Register, Authenticated, MayOpen
<1> HIDE DEF n
<1>5. call' \in [Calls -> Call] /\ call'["check"] = At("sent", n)
      /\ \A s \in Calls \ {"check"} : call'[s] = call[s]
  BY <1>3, <1>4, LeavingTypes, CallTypes
<1>6. expired' \subseteq PairIds'
  BY <1>1, <1>4, LeavingTypes DEF Evolves
<1>7. QED
  BY <1>1, <1>2, <1>3, <1>4, <1>5, <1>6, LeavingTypes, CallTypes, AppStep

LEMMA NoCallTypes ==
    NoCall \in Call /\ NoCall.pc = "idle" /\ NoCall.token = 0
BY AtTypes DEF NoCall

LEMMA SignInFailsStep ==
    ASSUME IInv, SignInFails PROVE IInv'
BY LeavingTypes, QuietAppStep DEF SignInFails

LEMMA ConfirmedStep ==
    ASSUME IInv, Confirmed PROVE IInv'
<1> DEFINE others == [call EXCEPT !["confirm"] = NoCall]
<1>1. /\ pairs' = pairs /\ stored' = signing /\ app' = "dashboard" /\ signing' = 0
      /\ call' = [others EXCEPT !["check"] = At("sent", signing)]
      /\ UNCHANGED <<expired, leaving, faults>>
  BY DEF Confirmed, Authenticated
<1>2. signing \in Nat
  BY CallTypes
<1>3. /\ At("sent", signing) \in Call /\ At("sent", signing).pc = "sent"
      /\ At("sent", signing).token = signing
  BY <1>2, AtTypes
<1>4. others \in [Calls -> Call] /\ others["confirm"] = NoCall
      /\ \A s \in Calls \ {"confirm"} : others[s] = call[s]
  BY LeavingTypes, CallTypes, NoCallTypes
<1> HIDE DEF others
<1>5. /\ call' \in [Calls -> Call] /\ call'["check"] = At("sent", signing)
      /\ call'["confirm"] = NoCall
      /\ \A s \in Calls \ {"check", "confirm"} : call'[s] = call[s]
  BY <1>1, <1>3, <1>4, CallTypes
<1>6. QED
  BY <1>1, <1>3, <1>5, LeavingTypes, NoCallTypes, QuietAppStep

LEMMA EndedCallStep ==
    ASSUME IInv, NotConfirmed \/ Checked \/ NotChecked PROVE IInv'
<1>1. PICK s \in {"confirm", "check"} :
         /\ call' = [call EXCEPT ![s] = NoCall]
         /\ s = "confirm" => signing' = 0
         /\ s = "check" => signing' = signing
  BY DEF NotConfirmed, Checked, NotChecked
<1>2. /\ UNCHANGED <<pairs, expired, leaving, faults>> /\ stored' \in {0, stored}
      /\ app' \in {"signin", "dashboard", app}
  BY DEF NotConfirmed, Checked, NotChecked
<1>3. call' \in [Calls -> Call] /\ call'[s] = NoCall
      /\ \A d \in Calls \ {s} : call'[d] = call[d]
  BY <1>1, LeavingTypes, CallTypes, NoCallTypes
<1>4. signing' # 0 <=> call'["confirm"].pc # "idle"
  BY <1>1, <1>3, LeavingTypes, CallTypes, NoCallTypes
<1>5. QED
  BY <1>1, <1>2, <1>3, <1>4, LeavingTypes, NoCallTypes, QuietAppStep

LEMMA ReloadStep ==
    ASSUME IInv, Reload PROVE IInv'
<1>1. /\ call' = [s \in Calls |-> IF s = "check" /\ stored # 0 THEN At("sent", stored) ELSE NoCall]
      /\ app' \in {"signin", "checking"} /\ signing' = 0 /\ leaving' = NotLeaving /\ Fault
      /\ UNCHANGED <<pairs, expired, stored>>
  BY DEF Reload
<1>2. stored \in Nat
  BY CallTypes
<1>3. At("sent", stored) \in Call /\ At("sent", stored).pc = "sent" /\ At("sent", stored).token = stored
  BY <1>2, AtTypes
<1>4. /\ call' \in [Calls -> Call] /\ call'["confirm"] = NoCall
      /\ \A s \in Calls : call'[s] \in {NoCall, At("sent", stored)}
  BY <1>1, <1>3, NoCallTypes, CallTypes
<1>5. QED
  BY <1>1, <1>3, <1>4, LeavingTypes, NoCallTypes, QuietAppStep

LEMMA SignedOutStep ==
    ASSUME IInv, SignedOut PROVE IInv'
BY LeavingTypes, QuietAppStep DEF SignedOut

LEMMA SignOutStep ==
    ASSUME IInv, SignOut PROVE IInv'
<1>1. CASE stored = 0
  BY <1>1, SignedOutStep DEF SignOut
<1>2. CASE stored # 0
  <2>1. /\ leaving' = [pc |-> "sent", pair |-> stored, since |-> Len(pairs), ok |-> FALSE]
        /\ UNCHANGED <<pairs, expired, stored, call, signing, app, faults>>
    BY <1>2 DEF SignOut
  <2>2. stored \in PairIds /\ stored \in Nat /\ Len(pairs) \in Nat
    BY <1>2, CallTypes, RowTypes DEF IInv
  <2>3. leaving' \in Leaving /\ leaving'.pc = "sent" /\ leaving'.pair \in PairIds /\ ~leaving'.ok
    BY <2>1, <2>2 DEF Leaving
  <2>4. SignedOff'
    BY <2>3 DEF SignedOff
  <2>5. TableRight' /\ Evolves /\ PairIds' = PairIds
    BY <2>1, SameTable DEF IInv, PairIds
  <2>6. QED
    BY <2>1, <2>3, <2>4, <2>5, LeavingTypes, AppStep
<1>3. QED
  BY <1>1, <1>2

\* The server ends the pair of the sign-out, told with an answer or without one.
LEMMA LogoutStep ==
    ASSUME IInv, leaving.pc = "sent", LogoutEnds(leaving.pair, leaving.since),
           leaving' \in Leaving, leaving'.pc = "answered", leaving'.pair = leaving.pair,
           UNCHANGED <<expired, stored, call, signing, app>>, faults' = faults \/ Fault
    PROVE  IInv'
<1>1. PICK p \in PairIds, n \in Nat : p = leaving.pair /\ n = leaving.since
  BY LeavingTypes DEF Leaving
<1>2. EndsFamily(p, n)
  BY <1>1 DEF LogoutEnds, EndsFamily, Server!EndLate, Server!Outrun, Server!End
<1>3. /\ TableRight' /\ Evolves /\ PairIds' = PairIds
      /\ ~Live(p)' /\ \A q \in PairIds' : pairs'[q].live => pairs'[q].from # p
  BY <1>2, EndsFamilyTable DEF IInv
<1>4. SignedOff'
  BY <1>1, <1>3 DEF SignedOff, Live
<1>5. QED
  BY <1>1, <1>3, <1>4, LeavingTypes, AppStep

LEMMA ServeSignOutStep ==
    ASSUME IInv, ServeSignOut PROVE IInv'
<1>1. leaving' \in Leaving /\ leaving'.pc = "answered" /\ leaving'.pair = leaving.pair
  BY LeavingTypes DEF ServeSignOut, Leaving
<1>2. QED
  BY <1>1, LogoutStep DEF ServeSignOut

LEMMA SignOutFaultStep ==
    ASSUME IInv, SignOutFault PROVE IInv'
<1>1. /\ leaving' \in Leaving /\ leaving'.pc = "answered" /\ leaving'.pair = leaving.pair
      /\ leaving.pc = "sent" /\ leaving'.ok = leaving.ok
  BY LeavingTypes DEF SignOutFault, Leaving
<1>2. CASE LogoutEnds(leaving.pair, leaving.since)
  BY <1>1, <1>2, LogoutStep DEF SignOutFault
<1>3. CASE UNCHANGED pairs
  <2>1. TableRight' /\ Evolves /\ PairIds' = PairIds
    BY <1>3, SameTable DEF IInv, PairIds
  <2>2. SignedOff'
    BY <1>1, LeavingTypes DEF SignedOff
  <2>3. UNCHANGED <<expired, stored, call, signing, app>> /\ Fault
    BY DEF SignOutFault
  <2>4. QED
    BY <1>1, <2>1, <2>2, <2>3, LeavingTypes, AppStep
<1>4. QED
  BY <1>2, <1>3 DEF SignOutFault

LEMMA EndSignOutStep ==
    ASSUME IInv, EndSignOut PROVE IInv'
BY SignedOutStep DEF EndSignOut

-----------------------------------------------------------------------------
(* The theorems                                                            *)

LEMMA InitIInv == Init => IInv
<1> SUFFICES ASSUME Init PROVE IInv
  OBVIOUS
<1>1. pairs = <<>> /\ PairIds = {} /\ Len(pairs) = 0 /\ pairs \in Seq(PairRow)
  BY DEF Init, Server!TableInit, PairIds
<1>2. call \in [Calls -> Call] /\ \A s \in Calls : call[s] = NoCall
  BY NoCallTypes DEF Init
<1>3. NotLeaving \in Leaving /\ NotLeaving.pc = "none"
  BY DEF NotLeaving, Leaving
<1>4. TypeOK
  BY <1>1, <1>2, <1>3, NoCallTypes, BoundsAssumption DEF Init, TypeOK, PairRow, Calls
<1>5. TableRight
  BY <1>1, BoundsAssumption DEF TableRight
<1>6. Working /\ SignedOff /\ \A s \in Calls : Fresh(s)
  BY <1>2, <1>3, NoCallTypes DEF Init, Working, SignedOff, Fresh
<1>7. QED
  BY <1>4, <1>5, <1>6 DEF IInv

LEMMA StutterIInv ==
    ASSUME IInv, UNCHANGED vars PROVE IInv'
BY LeavingTypes, QuietAppStep DEF vars

LEMMA NextIInv == IInv /\ [Next]_vars => IInv'
<1> SUFFICES ASSUME IInv, [Next]_vars PROVE IInv'
  OBVIOUS
<1>1. CASE \E p \in PairIds : Expire(p)
  BY <1>1, ExpireStep
<1>2. ASSUME NEW s \in Calls, Send(s) \/ Proceed(s) \/ ServeFault(s) \/ ExchangeFault(s)
      PROVE IInv'
  BY <1>2, SendStep, ServeStep, DeniedStep, ExchangeStep, ExchangeFaultStep, RefreshedStep,
     RefusedStep, SettleStep DEF Proceed
<1>3. CASE SignIn \/ SignInFails \/ Register
  BY <1>3, SignInStep, SignInFailsStep, RegisterStep
<1>4. CASE Settled \/ Reload
  BY <1>4, ConfirmedStep, EndedCallStep, ReloadStep DEF Settled
<1>5. CASE SignOut \/ ServeSignOut \/ SignOutFault \/ EndSignOut
  BY <1>5, SignOutStep, ServeSignOutStep, SignOutFaultStep, EndSignOutStep
<1>6. CASE UNCHANGED vars
  BY <1>6, StutterIInv
<1>7. QED
  BY <1>1, <1>2, <1>3, <1>4, <1>5, <1>6 DEF Next

\* Everything below follows from the invariant.
THEOREM Invariance == Spec => []IInv
BY InitIInv, NextIInv, PTL DEF Spec

\* Pairs and calls have their types, and every token the tab holds was issued.
THEOREM TypeCorrect == Spec => []TypeOK
<1>1. IInv => TypeOK
  BY DEF IInv
<1>2. QED
  BY <1>1, Invariance, PTL

\* A sign-out the server has answered leaves nothing alive of the pair it names.
THEOREM SignOutIsFinal == Spec => []SignOutEnds
<1>1. IInv => SignOutEnds
  BY DEF IInv, SignedOff, SignOutEnds
<1>2. QED
  BY <1>1, Invariance, PTL

\* However refreshes overlap, none puts a pair over a newer one of its session.
THEOREM StoredPairsAdvance == Spec => StoredAdvances
<1> DEFINE Advances(s) == Refreshed(s) /\ stored # 0 /\ pairs[stored].family = pairs[stored'].family
                            => stored' > stored
<1>1. ASSUME IInv, NEW s \in Calls PROVE Advances(s)
  <2> SUFFICES ASSUME Refreshed(s), stored # 0, pairs[stored].family = pairs[stored'].family
               PROVE  stored' > stored
    OBVIOUS
  <2>1. stored' = call[s].token /\ call[s].pc = "rotated" /\ stored \in Known(s)
    BY DEF Refreshed, Known
  <2>2. stored \in PairIds /\ stored \in Nat /\ call[s].token \in Nat
    BY <1>1, CallTypes
  <2>3. Fresh(s)
    BY <1>1 DEF IInv
  <2>4. call[s].token # stored /\ stored <= call[s].token
    BY <2>1, <2>2, <2>3 DEF Fresh
  <2>5. QED
    BY <2>1, <2>2, <2>4
<1>2. IInv => \A s \in Calls : Advances(s)
  BY <1>1
<1>3. QED
  BY <1>2, Invariance, PTL DEF StoredAdvances

-----------------------------------------------------------------------------
(* The server behind the tab                                               *)

\* What a refresh or a sign-out does to the sessions, answered or not.
LEMMA EndsFamilyServed ==
    ASSUME NEW p \in PairIds, NEW since, EndsFamily(p, since)
    PROVE  [Server!TableNext]_pairs
BY DEF EndsFamily, Server!EndLate, Server!Outrun, Server!TableNext, PairIds

LEMMA ExchangeServed ==
    ASSUME IInv, NEW s \in Calls, Exchange(s) \/ ExchangeFault(s)
    PROVE  [Server!TableNext]_pairs
<1> DEFINE p == call[s].token
<1>1. p \in PairIds
  BY DEF IInv, Working, Exchange, ExchangeFault
<1>2. CASE pairs' = pairs
  BY <1>2
<1>3. CASE Server!Rotate(p)
  BY <1>1, <1>3 DEF Server!TableNext, PairIds
<1>4. CASE Exchange(s) /\ Accepts(p) /\ pairs' # pairs
  <2>1. Server!Rotate(p)
    BY <1>4 DEF Exchange, Accepts, Live, Server!Rotate
  <2>2. QED
    BY <1>3, <2>1
<1>5. CASE EndsFamily(p, call[s].since)
  BY <1>1, <1>5, EndsFamilyServed
<1>6. QED
  BY <1>2, <1>3, <1>4, <1>5 DEF Exchange, ExchangeFault

LEMMA LogoutServed ==
    ASSUME IInv, ServeSignOut \/ SignOutFault PROVE [Server!TableNext]_pairs
<1>1. leaving.pair \in PairIds
  BY LeavingTypes DEF ServeSignOut, SignOutFault
<1>2. pairs' = pairs \/ EndsFamily(leaving.pair, leaving.since)
  BY DEF ServeSignOut, SignOutFault, LogoutEnds
<1>3. QED
  BY <1>1, <1>2, EndsFamilyServed

\* However the tab repeats, overlaps, loses and reloads its calls, the server's
\* sessions change only by the steps of TokenFamilies: every token presented was
\* issued, and a call is one step or none (service.go:153-222).
THEOREM ServerKeepsPromise == Spec => Server!TableSpec
<1>1. Init => Server!TableInit
  BY DEF Init
<1>2. IInv /\ [Next]_vars => [Server!TableNext]_pairs
  <2> SUFFICES ASSUME IInv, [Next]_vars PROVE [Server!TableNext]_pairs
    OBVIOUS
  <2>1. CASE \E s \in Calls : Exchange(s) \/ ExchangeFault(s)
    BY <2>1, ExchangeServed
  <2>2. CASE ServeSignOut \/ SignOutFault
    BY <2>2, LogoutServed
  <2>3. CASE SignIn \/ Register
    BY <2>3 DEF SignIn, Register, MayOpen, Opens, Server!TableNext
  <2>4. ASSUME NEW s \in Calls,
               Send(s) \/ Serve(s) \/ ServeFault(s) \/ Denied(s) \/ Refreshed(s) \/ Refused(s) \/ Settle(s)
        PROVE  pairs' = pairs
    BY <2>4 DEF Send, Serve, ServeFault, Denied, Refreshed, Refused, Settle
  <2>5. ASSUME SignInFails \/ Settled \/ Reload \/ SignOut \/ EndSignOut \/ \E p \in PairIds : Expire(p)
        PROVE  pairs' = pairs
    BY <2>5 DEF SignInFails, Settled, Confirmed, NotConfirmed, Checked, NotChecked, Reload,
       SignOut, SignedOut, EndSignOut, Expire
  <2>6. CASE UNCHANGED vars
    BY <2>6 DEF vars
  <2>7. QED
    BY <2>1, <2>2, <2>3, <2>4, <2>5, <2>6 DEF Next, Proceed
<1>3. QED
  BY <1>1, <1>2, Invariance, PTL DEF Spec, Server!TableSpec

=============================================================================
