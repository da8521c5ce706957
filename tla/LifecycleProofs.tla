-------------------------- MODULE LifecycleProofs --------------------------
(***************************************************************************)
(* Theorems about the process (Lifecycle) and the login counter within it  *)
(* (LoginRate), for any limit, window, pool of at least two connections    *)
(* and set of login requests.                                              *)
(***************************************************************************)
EXTENDS Lifecycle, FiniteSetTheorems, TLAPS

-----------------------------------------------------------------------------
(* Counting passes                                                         *)

\* Passes, of a history that need not be the current one.
PassesOf(f, ages) == UNION {{a} \X (1 .. f[a]) : a \in ages}

HowMany(f, ages) == Cardinality(PassesOf(f, ages))

LEMMA FiniteAges ==
    /\ \A a : IsFiniteSet({a})
    /\ \A m, n \in Int : IsFiniteSet(m .. n)
    /\ \A n \in Int : IsFiniteSet(0 .. n) /\ IsFiniteSet(0 .. n - 1) /\ IsFiniteSet(1 .. n)
<1>1. \A a : IsFiniteSet({a})
  BY FS_Singleton
<1>2. \A m, n \in Int : IsFiniteSet(m .. n)
  BY FS_Interval
<1>3. ASSUME NEW n \in Int
      PROVE  IsFiniteSet(0 .. n) /\ IsFiniteSet(0 .. n - 1) /\ IsFiniteSet(1 .. n)
  <2>1. n - 1 \in Int /\ 0 \in Int /\ 1 \in Int
    OBVIOUS
  <2>2. QED
    BY <1>2, <2>1, Zenon
<1>4. QED
  BY <1>1, <1>2, <1>3, Zenon

LEMMA OneAge ==
    ASSUME NEW f, NEW a, f[a] \in Nat
    PROVE  IsFiniteSet(PassesOf(f, {a})) /\ HowMany(f, {a}) = f[a]
<1>1. PassesOf(f, {a}) = {a} \X (1 .. f[a])
  BY DEF PassesOf
<1>2. IsFiniteSet({a}) /\ Cardinality({a}) = 1
  BY FS_Singleton
<1>3. IsFiniteSet(1 .. f[a]) /\ Cardinality(1 .. f[a]) = f[a]
  BY FS_Interval
<1>4. IsFiniteSet({a} \X (1 .. f[a])) /\ Cardinality({a} \X (1 .. f[a])) = 1 * f[a]
  BY <1>2, <1>3, FS_Product
<1>5. 1 * f[a] = f[a]
  OBVIOUS
<1>6. QED
  BY <1>1, <1>4, <1>5, Zenon DEF HowMany

LEMMA PassesAreFinite ==
    ASSUME NEW ages, IsFiniteSet(ages), NEW f, \A a \in ages : f[a] \in Nat
    PROVE  IsFiniteSet(PassesOf(f, ages)) /\ HowMany(f, ages) \in Nat
<1> DEFINE parts == {{a} \X (1 .. f[a]) : a \in ages}
           part  == [a \in ages |-> {a} \X (1 .. f[a])]
<1>1. part \in Surjection(ages, parts)
  BY DEF Surjection
<1>2. IsFiniteSet(parts)
  <2> HIDE DEF parts, part
  <2>1. QED
    BY <1>1, FS_Surjection, Zenon
<1>3. \A p \in parts : IsFiniteSet(p)
  <2>1. ASSUME NEW a \in ages PROVE IsFiniteSet({a} \X (1 .. f[a]))
    <3>1. f[a] \in Int
      OBVIOUS
    <3>2. QED
      BY <3>1, FiniteAges, FS_Product, Zenon
  <2>2. QED
    BY <2>1
<1>4. IsFiniteSet(UNION parts)
  <2> HIDE DEF parts
  <2>1. QED
    BY <1>2, <1>3, FS_UNION
<1>5. QED
  BY <1>4, FS_CardinalityType DEF PassesOf, HowMany

LEMMA AgesAdd ==
    ASSUME NEW A, NEW B, IsFiniteSet(A), IsFiniteSet(B), A \cap B = {},
           NEW f, \A a \in A \cup B : f[a] \in Nat
    PROVE  HowMany(f, A \cup B) = HowMany(f, A) + HowMany(f, B)
<1>1. PassesOf(f, A \cup B) = PassesOf(f, A) \cup PassesOf(f, B)
  BY DEF PassesOf
<1>2. PassesOf(f, A) \cap PassesOf(f, B) = {}
  BY DEF PassesOf
<1>3. IsFiniteSet(PassesOf(f, A)) /\ IsFiniteSet(PassesOf(f, B))
  BY PassesAreFinite
<1>4. HowMany(f, A) \in Nat /\ HowMany(f, B) \in Nat
  BY PassesAreFinite
<1>5. Cardinality({}) = 0
  BY FS_EmptySet
<1>6. Cardinality(PassesOf(f, A) \cup PassesOf(f, B)) = HowMany(f, A) + HowMany(f, B) - 0
  BY <1>2, <1>3, <1>5, FS_Union DEF HowMany
<1>7. HowMany(f, A \cup B) = HowMany(f, A) + HowMany(f, B) - 0
  BY <1>1, <1>6 DEF HowMany
<1>8. QED
  BY <1>4, <1>7

LEMMA FewerAges ==
    ASSUME NEW A, NEW B \in SUBSET A, IsFiniteSet(A), NEW f, \A a \in A : f[a] \in Nat
    PROVE  HowMany(f, B) <= HowMany(f, A)
<1>1. PassesOf(f, B) \subseteq PassesOf(f, A)
  BY DEF PassesOf
<1>2. IsFiniteSet(PassesOf(f, A))
  BY PassesAreFinite
<1>3. QED
  BY <1>1, <1>2, FS_Subset DEF HowMany

LEMMA SameAges ==
    ASSUME NEW ages, NEW f, NEW g, \A a \in ages : f[a] = g[a]
    PROVE  HowMany(f, ages) = HowMany(g, ages)
BY DEF HowMany, PassesOf

LEMMA NoAges == \A f : HowMany(f, {}) = 0
<1>1. \A f : PassesOf(f, {}) = {}
  BY DEF PassesOf
<1>2. QED
  BY <1>1, FS_EmptySet DEF HowMany

\* A tick later, every pass is one tick older.
LEMMA Older ==
    ASSUME NEW i \in Nat, NEW j \in Int, NEW f, NEW g,
           \A a \in i .. j : f[a] \in Nat /\ g[a + 1] = f[a]
    PROVE  HowMany(g, i + 1 .. j + 1) = HowMany(f, i .. j)
<1> DEFINE S == PassesOf(f, i .. j)
           T == PassesOf(g, i + 1 .. j + 1)
           h == [p \in S |-> <<p[1] + 1, p[2]>>]
<1>1. \A p \in S : p = <<p[1], p[2]>> /\ p[1] \in i .. j /\ p[2] \in 1 .. f[p[1]]
  BY DEF PassesOf
<1>2. \A p \in S : h[p] \in T
  <2>1. SUFFICES ASSUME NEW p \in S PROVE <<p[1] + 1, p[2]>> \in T
    OBVIOUS
  <2>2. p[1] + 1 \in i + 1 .. j + 1 /\ p[2] \in 1 .. g[p[1] + 1]
    BY <1>1
  <2>3. QED
    BY <2>2 DEF PassesOf
<1>3. \A p, q \in S : h[p] = h[q] => p = q
  <2>1. SUFFICES ASSUME NEW p \in S, NEW q \in S, h[p] = h[q] PROVE p = q
    OBVIOUS
  <2>2. p[1] + 1 = q[1] + 1 /\ p[2] = q[2]
    BY <2>1
  <2>3. p[1] \in Int /\ q[1] \in Int
    BY <1>1
  <2>4. p[1] = q[1]
    BY <2>2, <2>3
  <2>5. QED
    BY <1>1, <2>2, <2>4
<1>4. \A t \in T : \E p \in S : h[p] = t
  <2>1. SUFFICES ASSUME NEW t \in T PROVE \E p \in S : h[p] = t
    OBVIOUS
  <2>2. PICK b \in i + 1 .. j + 1 : t \in {b} \X (1 .. g[b])
    BY DEF PassesOf
  <2>3. b - 1 \in i .. j /\ (b - 1) + 1 = b
    OBVIOUS
  <2>4. g[b] = f[b - 1]
    BY <2>3
  <2>5. <<b - 1, t[2]>> \in S
    BY <2>2, <2>3, <2>4 DEF PassesOf
  <2>6. h[<<b - 1, t[2]>>] = <<b, t[2]>>
    BY <2>3, <2>5
  <2>7. t = <<b, t[2]>>
    BY <2>2
  <2>8. QED
    BY <2>5, <2>6, <2>7
<1>5. h \in Bijection(S, T)
  <2>1. h \in [S -> T]
    BY <1>2
  <2> HIDE DEF h, S, T
  <2>2. QED
    BY <2>1, <1>3, <1>4, Zenon DEF Bijection, Injection, Surjection, IsInjective
<1>6. ExistsBijection(S, T)
  BY <1>5 DEF ExistsBijection
<1>7. IsFiniteSet(S)
  <2>1. IsFiniteSet(i .. j)
    BY FiniteAges
  <2>2. QED
    BY <2>1, PassesAreFinite
<1>8. QED
  BY <1>6, <1>7, FS_Bijection DEF HowMany

\* One more login passes in the current tick.
LEMMA OneMore ==
    ASSUME NEW m \in Nat, NEW f, NEW g, \A a \in 0 .. m : f[a] \in Nat,
           g[0] = f[0] + 1, \A a \in 1 .. m : g[a] = f[a]
    PROVE  HowMany(g, 0 .. m) = HowMany(f, 0 .. m) + 1
<1>1. 0 .. m = {0} \cup 1 .. m /\ {0} \cap 1 .. m = {}
  OBVIOUS
<1>2. IsFiniteSet({0}) /\ IsFiniteSet(1 .. m)
  <2>1. m \in Int
    OBVIOUS
  <2>2. QED
    BY <2>1, FiniteAges, Zenon
<1>3. \A a \in {0} \cup 1 .. m : f[a] \in Nat /\ g[a] \in Nat
  OBVIOUS
<1>4. HowMany(f, 0 .. m) = HowMany(f, {0}) + HowMany(f, 1 .. m)
  BY <1>1, <1>2, <1>3, AgesAdd
<1>5. HowMany(g, 0 .. m) = HowMany(g, {0}) + HowMany(g, 1 .. m)
  BY <1>1, <1>2, <1>3, AgesAdd
<1>6. HowMany(g, 1 .. m) = HowMany(f, 1 .. m)
  BY SameAges
<1>7. HowMany(f, {0}) = f[0] /\ HowMany(g, {0}) = g[0]
  BY <1>3, OneAge
<1>8. HowMany(f, 1 .. m) \in Nat
  BY <1>2, <1>3, PassesAreFinite
<1>9. QED
  BY <1>3, <1>4, <1>5, <1>6, <1>7, <1>8

\* A tick begins with no pass.
LEMMA NewTick ==
    ASSUME NEW m \in Nat, NEW f, NEW g, \A a \in 0 .. m - 1 : f[a] \in Nat /\ g[a + 1] = f[a],
           g[0] = 0
    PROVE  HowMany(g, 0 .. m) = HowMany(f, 0 .. m - 1)
<1>1. 0 .. m = {0} \cup 1 .. m /\ {0} \cap 1 .. m = {}
  OBVIOUS
<1>2. IsFiniteSet({0}) /\ IsFiniteSet(1 .. m) /\ IsFiniteSet(0 .. m - 1)
  <2>1. m \in Int
    OBVIOUS
  <2>2. QED
    BY <2>1, FiniteAges, Zenon
<1>3. \A a \in {0} \cup 1 .. m : g[a] \in Nat
  <2>1. \A a \in 1 .. m : a - 1 \in 0 .. m - 1 /\ (a - 1) + 1 = a
    OBVIOUS
  <2>2. QED
    BY <2>1
<1>4. HowMany(g, 0 .. m) = HowMany(g, {0}) + HowMany(g, 1 .. m)
  BY <1>1, <1>2, <1>3, AgesAdd
<1>5. HowMany(g, 0 + 1 .. (m - 1) + 1) = HowMany(f, 0 .. m - 1)
  BY Older
<1>6. HowMany(g, {0}) = 0
  BY <1>3, OneAge
<1>7. HowMany(f, 0 .. m - 1) \in Nat
  BY <1>2, PassesAreFinite
<1>8. 0 + 1 = 1 /\ (m - 1) + 1 = m
  OBVIOUS
<1>9. QED
  BY <1>4, <1>5, <1>6, <1>7, <1>8

-----------------------------------------------------------------------------
(* The counter                                                             *)

LeastOf(a, b) == IF a < b THEN a ELSE b

Counted(l) == login[l].pc = "counted"

\* At most one request has still to set the expiry, and only of a key without one.
OneStarter ==
    /\ \A l, k \in Logins : Counted(l) /\ Counted(k) => l = k
    /\ \A l \in Logins : Counted(l) => counter.count > 0 /\ counter.ttl = 0

\* The passes younger than k ticks are those of the current key, and the older
\* ones are of a window that had started its expiry: its first has been forgotten.
SplitAt(k) ==
    /\ HowMany(passed, 0 .. k - 1) <= LeastOf(counter.count, Limit)
    /\ HowMany(passed, k .. Window - 1) <= Limit - 1

\* A key with an expiry has counted a pass that is older than the expiry.
FirstIsOlder ==
    counter.ttl > 0 =>
        HowMany(passed, 0 .. Window - counter.ttl - 1) <= LeastOf(counter.count, Limit) - 1

RateIInv ==
    /\ RateTypeOK
    /\ OneStarter
    /\ \E k \in 1 .. Window : SplitAt(k)
    /\ FirstIsOlder

LEMMA RateParameters == Limit \in Nat /\ Limit > 0 /\ Window \in Nat /\ Window > 0
BY RateAssumption

LEMMA RateInitially == RateInit => RateIInv
<1>1. SUFFICES ASSUME RateInit PROVE RateIInv
  OBVIOUS
<1>2. RateTypeOK
  BY <1>1, RateParameters DEF RateInit, RateTypeOK, Counter, Counts, NoKey, Request, NoRequest
<1>3. OneStarter
  BY <1>1 DEF RateInit, OneStarter, Counted, NoRequest
<1>4. \A a \in 0 .. Window - 1 : passed[a] = 0
  BY <1>1 DEF RateInit
<1>5. HowMany(passed, 0 .. Window - 1) = 0
  <2>1. PassesOf(passed, 0 .. Window - 1) = {}
    BY <1>4 DEF PassesOf
  <2>2. QED
    BY <2>1, FS_EmptySet DEF HowMany
<1>6. SplitAt(Window)
  <2>1. Window .. Window - 1 = {}
    BY RateParameters
  <2>2. HowMany(passed, Window .. Window - 1) = 0
    BY <2>1, NoAges
  <2>3. counter.count = 0
    BY <1>1 DEF RateInit, NoKey
  <2>4. QED
    BY <1>5, <2>2, <2>3, RateParameters DEF SplitAt, LeastOf
<1>7. counter.ttl = 0
  BY <1>1 DEF RateInit, NoKey
<1>8. QED
  BY <1>2, <1>3, <1>6, <1>7, RateParameters DEF RateIInv, FirstIsOlder

\* Requests may arrive, end or be gone with their process: the key and the history
\* stay.
LEMMA RequestsChange ==
    ASSUME RateIInv, UNCHANGED <<counter, passed>>, login' \in [Logins -> Request],
           \A l \in Logins : Counted(l)' => Counted(l)
    PROVE  RateIInv'
<1>1. RateTypeOK'
  BY DEF RateIInv, RateTypeOK
<1>2. OneStarter'
  BY DEF RateIInv, OneStarter
<1>3. (\E k \in 1 .. Window : SplitAt(k))'
  BY DEF RateIInv, SplitAt
<1>4. FirstIsOlder'
  BY DEF RateIInv, FirstIsOlder
<1>5. QED
  BY <1>1, <1>2, <1>3, <1>4 DEF RateIInv

LEMMA ArriveRate == ASSUME RateIInv, NEW l \in Logins, Arrive(l) PROVE RateIInv'
<1>1. login \in [Logins -> Request] /\ login' = [login EXCEPT ![l].pc = "arrived"]
  BY DEF RateIInv, RateTypeOK, Arrive
<1>2. login' \in [Logins -> Request]
  BY <1>1 DEF Request
<1>3. \A k \in Logins : Counted(k)' => Counted(k)
  BY <1>1 DEF Counted, Request
<1>4. UNCHANGED <<counter, passed>>
  BY DEF Arrive
<1>5. QED
  BY <1>2, <1>3, <1>4, RequestsChange

LEMMA EndRate == ASSUME RateIInv, NEW l \in Logins, End(l) PROVE RateIInv'
<1>1. login \in [Logins -> Request] /\ login' = [login EXCEPT ![l] = NoRequest]
  BY DEF RateIInv, RateTypeOK, End
<1>2. NoRequest \in Request
  BY RateParameters DEF Request, NoRequest, Counts
<1>3. login' \in [Logins -> Request]
  BY <1>1, <1>2
<1>4. \A k \in Logins : Counted(k)' => Counted(k)
  BY <1>1 DEF Counted, NoRequest
<1>5. UNCHANGED <<counter, passed>>
  BY DEF End
<1>6. QED
  BY <1>3, <1>4, <1>5, RequestsChange

\* The types of the key and of the history, in pieces.
LEMMA RateTypes ==
    ASSUME RateTypeOK
    PROVE  /\ counter.count \in 0 .. Limit + 1 /\ counter.ttl \in 0 .. Window
           /\ counter = [count |-> counter.count, ttl |-> counter.ttl]
           /\ counter.ttl > 0 => counter.count > 0
           /\ login \in [Logins -> Request]
           /\ passed \in [0 .. Window - 1 -> Nat]
           /\ \A a \in 0 .. Window - 1 : passed[a] \in Nat
BY DEF RateTypeOK, Counter, Counts

LEMMA VerdictTyped ==
    ASSUME NEW n
    PROVE  /\ Verdict(n) \in Request /\ Verdict(n).pc # "counted"
           /\ Verdict(n).pc = "allowed" <=> n <= Limit
BY RateParameters DEF Verdict, Request, Counts

LEMMA ExpireRate == ASSUME RateIInv, NEW l \in Logins, Expire(l) PROVE RateIInv'
<1> USE RateParameters
<1>1. RateTypeOK /\ OneStarter /\ FirstIsOlder
  BY DEF RateIInv
<1>2. Counted(l) /\ counter.count > 0
  BY <1>1 DEF Expire, Counted, OneStarter
<1>3. counter' = [count |-> counter.count, ttl |-> Window] /\ passed' = passed
  BY <1>1, RateTypes DEF Expire
<1>4. login' = [login EXCEPT ![l] = Verdict(login[l].count)]
  BY DEF Expire
<1>5. login' \in [Logins -> Request]
  BY <1>1, <1>4, RateTypes, VerdictTyped
<1>6. \A k \in Logins : ~Counted(k)'
  <2>1. SUFFICES ASSUME NEW k \in Logins, Counted(k)' PROVE FALSE
    OBVIOUS
  <2>2. k # l
    BY <1>1, <1>4, <2>1, RateTypes, VerdictTyped DEF Counted
  <2>3. Counted(k)
    BY <1>1, <1>4, <2>1, <2>2, RateTypes DEF Counted
  <2>4. QED
    BY <1>1, <1>2, <2>2, <2>3 DEF OneStarter
<1>7. RateTypeOK'
  BY <1>1, <1>2, <1>3, <1>5, RateTypes DEF RateTypeOK, Counter, Counts
<1>8. OneStarter'
  BY <1>6 DEF OneStarter
<1>9. (\E k \in 1 .. Window : SplitAt(k))'
  <2>1. PICK k \in 1 .. Window : SplitAt(k)
    BY DEF RateIInv
  <2>2. SplitAt(k)'
    BY <1>3, <2>1 DEF SplitAt
  <2>3. QED
    BY <2>2
<1>10. FirstIsOlder'
  <2>1. 0 .. Window - Window - 1 = {}
    OBVIOUS
  <2>2. HowMany(passed, 0 .. Window - Window - 1) = 0
    BY <2>1, NoAges
  <2>3. 0 <= LeastOf(counter.count, Limit) - 1
    BY <1>1, <1>2, RateTypes DEF LeastOf
  <2>4. QED
    BY <1>3, <2>2, <2>3 DEF FirstIsOlder
<1>11. QED
  BY <1>7, <1>8, <1>9, <1>10 DEF RateIInv

\* What INCR returns, and that it lets a login pass only within the limit.
LEMMA IncrementedCount ==
    ASSUME RateTypeOK
    PROVE  /\ Incremented \in 1 .. Limit + 1
           /\ Incremented <= Limit => Incremented = counter.count + 1
           /\ Incremented > Limit => counter.count >= Limit
           /\ StartsWindow(Incremented) <=> counter.count = 0
           /\ LeastOf(Incremented, Limit) >= LeastOf(counter.count, Limit)
           /\ Incremented <= Limit => LeastOf(Incremented, Limit) = LeastOf(counter.count, Limit) + 1
BY RateTypes, RateParameters DEF Incremented, StartsWindow, LeastOf

\* Passes younger than m ticks, for an INCR that has returned n.
LEMMA Admits ==
    ASSUME RateTypeOK, NEW n \in Nat, NEW m \in 0 .. Window - 1,
           passed' = [passed EXCEPT ![0] = IF n <= Limit THEN @ + 1 ELSE @]
    PROVE  /\ HowMany(passed, 0 .. m) \in Nat
           /\ HowMany(passed', 0 .. m) =
                IF n <= Limit THEN HowMany(passed, 0 .. m) + 1 ELSE HowMany(passed, 0 .. m)
<1>1. m \in Nat /\ 0 \in 0 .. Window - 1 /\ \A a \in 0 .. m : a \in 0 .. Window - 1
  BY RateParameters
<1>2. \A a \in 0 .. m : passed[a] \in Nat
  BY <1>1, RateTypes
<1>3. passed \in [0 .. Window - 1 -> Nat]
  BY RateTypes
<1>4. HowMany(passed, 0 .. m) \in Nat
  <2>1. IsFiniteSet(0 .. m)
    BY <1>1, FiniteAges
  <2>2. QED
    BY <1>2, <2>1, PassesAreFinite
<1>5. CASE n <= Limit
  <2>1. passed'[0] = passed[0] + 1
    BY <1>1, <1>3, <1>5
  <2>2. \A a \in 1 .. m : passed'[a] = passed[a]
    BY <1>1, <1>3
  <2>3. HowMany(passed', 0 .. m) = HowMany(passed, 0 .. m) + 1
    BY <1>1, <1>2, <2>1, <2>2, OneMore
  <2>4. QED
    BY <1>4, <1>5, <2>3
<1>6. CASE ~(n <= Limit)
  <2>1. passed' = passed
    BY <1>3, <1>6
  <2>2. QED
    BY <1>4, <1>6, <2>1
<1>7. QED
  BY <1>5, <1>6

LEMMA IncrRate == ASSUME RateIInv, NEW l \in Logins, Incr(l) PROVE RateIInv'
<1> USE RateParameters
<1> DEFINE n == Incremented
<1>1. RateTypeOK /\ OneStarter /\ FirstIsOlder
  BY DEF RateIInv
<1>2. /\ n \in Nat /\ n > 0 /\ n <= Limit + 1
      /\ StartsWindow(n) <=> counter.count = 0
      /\ n > Limit => counter.count >= Limit
      /\ LeastOf(n, Limit) >= LeastOf(counter.count, Limit)
      /\ n <= Limit => LeastOf(n, Limit) = LeastOf(counter.count, Limit) + 1
  BY <1>1, IncrementedCount
<1>3. /\ login[l].pc = "arrived"
      /\ counter' = [counter EXCEPT !.count = n]
      /\ login' = [login EXCEPT ![l] = IF StartsWindow(n) THEN [pc |-> "counted", count |-> n]
                                       ELSE Verdict(n)]
      /\ passed' = [passed EXCEPT ![0] = IF Verdict(n).pc = "allowed" THEN @ + 1 ELSE @]
  BY DEF Incr
<1>4. passed' = [passed EXCEPT ![0] = IF n <= Limit THEN @ + 1 ELSE @]
  BY <1>3, VerdictTyped
<1> HIDE DEF n
<1>5. counter' = [count |-> n, ttl |-> counter.ttl]
  BY <1>1, <1>3, RateTypes
<1>6. [pc |-> "counted", count |-> n] \in Request /\ Verdict(n) \in Request
  BY <1>2, VerdictTyped DEF Request, Counts
<1>7. login' \in [Logins -> Request]
  BY <1>1, <1>3, <1>6, RateTypes
<1>8. passed' \in [0 .. Window - 1 -> Nat]
  <2>1. passed \in [0 .. Window - 1 -> Nat] /\ 0 \in 0 .. Window - 1
    BY <1>1, RateTypes
  <2>2. passed[0] \in Nat
    BY <2>1
  <2>3. (IF n <= Limit THEN passed[0] + 1 ELSE passed[0]) \in Nat
    BY <2>2
  <2>4. QED
    BY <1>4, <2>1, <2>3
<1>9. counter.ttl \in 0 .. Window /\ counter.count \in 0 .. Limit + 1 /\ (counter.ttl > 0 => counter.count > 0)
  BY <1>1, RateTypes
<1>10. RateTypeOK'
  BY <1>2, <1>5, <1>7, <1>8, <1>9 DEF RateTypeOK, Counter, Counts
<1>11. OneStarter'
  <2>1. \A k \in Logins : k # l => (Counted(k)' <=> Counted(k))
    BY <1>1, <1>3, RateTypes DEF Counted
  <2>2. Counted(l)' => counter.count = 0
    BY <1>1, <1>2, <1>3, RateTypes, VerdictTyped DEF Counted
  <2>3. counter.count = 0 => \A k \in Logins : ~Counted(k)
    BY <1>1, <1>9 DEF OneStarter
  <2>4. \A k, m \in Logins : Counted(k)' /\ Counted(m)' => k = m
    BY <1>1, <2>1, <2>2, <2>3 DEF OneStarter
  <2>5. \A k \in Logins : Counted(k)' => counter.ttl = 0
    BY <1>1, <1>9, <2>1, <2>2 DEF OneStarter
  <2>6. QED
    BY <1>2, <1>5, <2>4, <2>5 DEF OneStarter
<1>12. (\E k \in 1 .. Window : SplitAt(k))'
  <2>1. PICK k \in 1 .. Window : SplitAt(k)
    BY DEF RateIInv
  <2>2. k - 1 \in 0 .. Window - 1
    BY <2>1
  <2>3. /\ HowMany(passed, 0 .. k - 1) \in Nat
        /\ HowMany(passed', 0 .. k - 1) =
             IF n <= Limit THEN HowMany(passed, 0 .. k - 1) + 1 ELSE HowMany(passed, 0 .. k - 1)
    BY <1>1, <1>2, <1>4, <2>2, Admits
  <2>4. \A a \in k .. Window - 1 : passed'[a] = passed[a]
    <3>1. \A a \in k .. Window - 1 : a \in 0 .. Window - 1 /\ a # 0
      BY <2>1
    <3>2. QED
      BY <1>1, <1>4, <3>1, RateTypes
  <2>5. HowMany(passed', k .. Window - 1) = HowMany(passed, k .. Window - 1)
    BY <2>4, SameAges
  <2>6. LeastOf(counter.count, Limit) \in Nat /\ LeastOf(n, Limit) \in Nat
    BY <1>2, <1>9 DEF LeastOf
  <2>7. HowMany(passed', 0 .. k - 1) <= LeastOf(n, Limit)
    BY <1>2, <2>1, <2>3, <2>6 DEF SplitAt
  <2>8. SplitAt(k)'
    BY <1>5, <2>1, <2>5, <2>7 DEF SplitAt
  <2>9. QED
    BY <2>8
<1>13. FirstIsOlder'
  <2>1. SUFFICES ASSUME counter.ttl > 0
                 PROVE  HowMany(passed', 0 .. Window - counter.ttl - 1) <= LeastOf(n, Limit) - 1
    BY <1>5 DEF FirstIsOlder
  <2>2. HowMany(passed, 0 .. Window - counter.ttl - 1) <= LeastOf(counter.count, Limit) - 1
    BY <1>1, <2>1 DEF FirstIsOlder
  <2>3. LeastOf(counter.count, Limit) \in Nat /\ LeastOf(n, Limit) \in Nat
    BY <1>2, <1>9 DEF LeastOf
  <2>4. CASE counter.ttl = Window
    <3>1. 0 .. Window - counter.ttl - 1 = {}
      BY <2>4
    <3>2. HowMany(passed, 0 .. Window - counter.ttl - 1) = 0
          /\ HowMany(passed', 0 .. Window - counter.ttl - 1) = 0
      BY <3>1, NoAges
    <3>3. QED
      BY <1>2, <2>2, <2>3, <3>2
  <2>5. CASE counter.ttl # Window
    <3> DEFINE m == Window - counter.ttl - 1
    <3>1. m \in 0 .. Window - 1
      BY <1>9, <2>1, <2>5
    <3> HIDE DEF m
    <3>2. /\ HowMany(passed, 0 .. m) \in Nat
          /\ HowMany(passed', 0 .. m) =
               IF n <= Limit THEN HowMany(passed, 0 .. m) + 1 ELSE HowMany(passed, 0 .. m)
      BY <1>1, <1>2, <1>4, <3>1, Admits
    <3>3. HowMany(passed, 0 .. m) <= LeastOf(counter.count, Limit) - 1
      BY <2>2 DEF m
    <3>4. HowMany(passed', 0 .. m) <= LeastOf(n, Limit) - 1
      BY <1>2, <2>3, <3>2, <3>3
    <3>5. QED
      BY <3>4 DEF m
  <2>6. QED
    BY <2>4, <2>5
<1>14. QED
  BY <1>10, <1>11, <1>12, <1>13 DEF RateIInv

\* What a tick does to the passes younger than m ticks, and to the others.
LEMMA Ages ==
    ASSUME RateTypeOK, Tick, NEW m \in 0 .. Window - 1
    PROVE  /\ HowMany(passed', 0 .. m) = HowMany(passed, 0 .. m - 1)
           /\ HowMany(passed', m + 1 .. Window - 1) <= HowMany(passed, m .. Window - 1)
           /\ HowMany(passed, m .. Window - 1) \in Nat
<1> USE RateParameters
<1>1. /\ passed \in [0 .. Window - 1 -> Nat]
      /\ passed' = [age \in 0 .. Window - 1 |-> IF age = 0 THEN 0 ELSE passed[age - 1]]
  BY RateTypes DEF Tick
<1>2. \A a \in 0 .. Window - 2 : passed[a] \in Nat /\ passed'[a + 1] = passed[a]
  <2>1. \A a \in 0 .. Window - 2 : a + 1 \in 0 .. Window - 1 /\ a \in 0 .. Window - 1
                                   /\ a + 1 # 0 /\ (a + 1) - 1 = a
    OBVIOUS
  <2>2. QED
    BY <1>1, <2>1
<1>3. passed'[0] = 0
  <2>1. 0 \in 0 .. Window - 1
    OBVIOUS
  <2>2. QED
    BY <1>1, <2>1
<1>4. m \in Nat /\ \A a \in 0 .. m - 1 : a \in 0 .. Window - 2
  OBVIOUS
<1>5. HowMany(passed', 0 .. m) = HowMany(passed, 0 .. m - 1)
  BY <1>2, <1>3, <1>4, NewTick
<1>6. \A a \in m .. Window - 2 : a \in 0 .. Window - 2
  OBVIOUS
<1>7. HowMany(passed', m + 1 .. (Window - 2) + 1) = HowMany(passed, m .. Window - 2)
  <2> DEFINE j == Window - 2
  <2>1. j \in Int
    OBVIOUS
  <2>2. \A a \in m .. j : passed[a] \in Nat /\ passed'[a + 1] = passed[a]
    BY <1>2, <1>6
  <2> HIDE DEF j
  <2>3. HowMany(passed', m + 1 .. j + 1) = HowMany(passed, m .. j)
    BY ONLY <1>4, <2>1, <2>2, Older
  <2>4. QED
    BY <2>3 DEF j
<1>8. (Window - 2) + 1 = Window - 1
  OBVIOUS
<1>9. IsFiniteSet(m .. Window - 1)
  <2>1. Window - 1 \in Int /\ m \in Int
    OBVIOUS
  <2>2. QED
    BY <2>1, FiniteAges, Zenon
<1>10. \A a \in m .. Window - 1 : passed[a] \in Nat
  BY <1>1
<1>11. m .. Window - 2 \subseteq m .. Window - 1
  OBVIOUS
<1>12. HowMany(passed, m .. Window - 2) <= HowMany(passed, m .. Window - 1)
  BY <1>9, <1>10, <1>11, FewerAges
<1>13. HowMany(passed, m .. Window - 1) \in Nat
  BY <1>9, <1>10, PassesAreFinite
<1>14. QED
  BY <1>5, <1>7, <1>8, <1>12, <1>13

\* The key stays when time passes, its expiry comes nearer.
LEMMA KeptKeyTick ==
    ASSUME RateIInv, Tick, counter.ttl # 1
    PROVE  (\E k \in 1 .. Window : SplitAt(k))' /\ FirstIsOlder'
<1> USE RateParameters
<1>1. RateTypeOK /\ FirstIsOlder
  BY DEF RateIInv
<1>2. counter.ttl \in 0 .. Window /\ counter.count \in 0 .. Limit + 1
  BY <1>1, RateTypes
<1>3. counter'.count = counter.count
  BY <1>1, RateTypes DEF Tick
<1>4. counter'.ttl = IF counter.ttl = 0 THEN 0 ELSE counter.ttl - 1
  BY <1>1, RateTypes DEF Tick
<1>5. LeastOf(counter.count, Limit) \in Nat
  BY <1>2 DEF LeastOf
<1>6. (\E k \in 1 .. Window : SplitAt(k))'
  <2>1. PICK k \in 1 .. Window : SplitAt(k)
    BY DEF RateIInv
  <2>2. CASE k < Window
    <3>1. k \in 0 .. Window - 1 /\ k + 1 \in 1 .. Window /\ (k + 1) - 1 = k
      BY <2>2
    <3>2. HowMany(passed', 0 .. k) <= LeastOf(counter.count, Limit)
      BY <1>1, <2>1, <3>1, Ages DEF SplitAt
    <3>3. HowMany(passed', k + 1 .. Window - 1) \in Int
      <4>1. \A a \in k + 1 .. Window - 1 : passed'[a] \in Nat
        <5>1. \A a \in k + 1 .. Window - 1 : a \in 0 .. Window - 1 /\ a # 0 /\ a - 1 \in 0 .. Window - 1
          BY <2>1
        <5>2. QED
          BY <1>1, <5>1, RateTypes DEF Tick
      <4>2. k + 1 \in Int /\ Window - 1 \in Int
        BY <2>1
      <4>3. IsFiniteSet(k + 1 .. Window - 1)
        BY <4>2, FiniteAges, Zenon
      <4>4. QED
        BY <4>1, <4>3, PassesAreFinite
    <3>4. HowMany(passed', k + 1 .. Window - 1) <= Limit - 1
      <4>1. /\ HowMany(passed', k + 1 .. Window - 1) <= HowMany(passed, k .. Window - 1)
            /\ HowMany(passed, k .. Window - 1) \in Nat
        BY <1>1, <3>1, Ages
      <4>2. HowMany(passed, k .. Window - 1) <= Limit - 1
        BY <2>1 DEF SplitAt
      <4>3. QED
        BY <3>3, <4>1, <4>2
    <3>5. SplitAt(k + 1)'
      BY <1>3, <3>1, <3>2, <3>4 DEF SplitAt
    <3>6. QED
      BY <3>1, <3>5
  <2>3. CASE k = Window
    <3> DEFINE m == Window - 1
    <3>1. m \in 0 .. Window - 1 /\ 0 .. m - 1 \subseteq 0 .. m
      OBVIOUS
    <3>2. HowMany(passed', 0 .. m) = HowMany(passed, 0 .. m - 1)
      BY <1>1, <3>1, Ages
    <3>3. IsFiniteSet(0 .. m) /\ \A a \in 0 .. m : passed[a] \in Nat
      BY <1>1, RateTypes, FiniteAges
    <3> HIDE DEF m
    <3>4. HowMany(passed, 0 .. m - 1) <= HowMany(passed, 0 .. m) /\ HowMany(passed, 0 .. m) \in Nat
          /\ HowMany(passed, 0 .. m - 1) \in Nat
      <4>1. IsFiniteSet(0 .. m - 1) /\ \A a \in 0 .. m - 1 : passed[a] \in Nat
        BY <3>1, <3>3, FS_Subset
      <4>2. QED
        BY <3>1, <3>3, <4>1, FewerAges, PassesAreFinite
    <3>5. HowMany(passed, 0 .. m) <= LeastOf(counter.count, Limit)
      BY <2>1, <2>3 DEF SplitAt, m
    <3>6. HowMany(passed', 0 .. m) <= LeastOf(counter.count, Limit)
      BY <1>5, <3>2, <3>4, <3>5
    <3>7. HowMany(passed', Window .. Window - 1) = 0
      <4>1. Window .. Window - 1 = {}
        OBVIOUS
      <4>2. QED
        BY <4>1, NoAges
    <3>8. SplitAt(Window)'
      BY <1>3, <3>6, <3>7 DEF SplitAt, m
    <3>9. QED
      BY <3>8
  <2>4. QED
    BY <2>1, <2>2, <2>3
<1>7. FirstIsOlder'
  <2>1. SUFFICES ASSUME counter'.ttl > 0
                 PROVE  HowMany(passed', 0 .. Window - counter'.ttl - 1) <= LeastOf(counter.count, Limit) - 1
    BY <1>3 DEF FirstIsOlder
  <2> DEFINE m == Window - counter'.ttl - 1
  <2>2. m \in 0 .. Window - 1 /\ m - 1 = Window - counter.ttl - 1
    BY <1>2, <1>4, <2>1
  <2>3. HowMany(passed, 0 .. m - 1) <= LeastOf(counter.count, Limit) - 1
    BY <1>1, <1>4, <1>2, <2>1, <2>2 DEF FirstIsOlder
  <2> HIDE DEF m
  <2>4. HowMany(passed', 0 .. m) = HowMany(passed, 0 .. m - 1)
    BY <1>1, <2>2, Ages
  <2>5. HowMany(passed', 0 .. m) <= LeastOf(counter.count, Limit) - 1
    BY <2>3, <2>4
  <2>6. QED
    BY <2>5 DEF m
<1>8. QED
  BY <1>6, <1>7

\* The key is removed: the window that may follow has no pass yet.
LEMMA ExpiredKeyTick ==
    ASSUME RateIInv, Tick, counter.ttl = 1
    PROVE  (\E k \in 1 .. Window : SplitAt(k))' /\ FirstIsOlder'
<1> USE RateParameters
<1>1. RateTypeOK /\ FirstIsOlder
  BY DEF RateIInv
<1>2. counter'.count = 0 /\ counter'.ttl = 0
  BY DEF Tick, NoKey
<1>3. counter.count \in 0 .. Limit + 1
  BY <1>1, RateTypes
<1> DEFINE m == Window - 1
<1>4. m \in 0 .. Window - 1 /\ 0 \in 0 .. Window - 1 /\ m - 1 = Window - 1 - 1 /\ 0 .. 0 - 1 = {}
  OBVIOUS
<1>5. HowMany(passed', 0 .. 0) = 0
  <2>1. HowMany(passed', 0 .. 0) = HowMany(passed, 0 .. 0 - 1)
    BY <1>1, <1>4, Ages
  <2>2. QED
    BY <1>4, <2>1, NoAges
<1>6. HowMany(passed', 0 .. m) <= Limit - 1
  <2>1. HowMany(passed', 0 .. m) = HowMany(passed, 0 .. m - 1)
    BY <1>1, <1>4, Ages
  <2>2. HowMany(passed, 0 .. m - 1) <= LeastOf(counter.count, Limit) - 1
    BY <1>1, <1>4 DEF FirstIsOlder
  <2>3. HowMany(passed, 0 .. m - 1) \in Nat
    <3>1. m - 1 \in Int /\ 0 \in Int
      OBVIOUS
    <3>2. IsFiniteSet(0 .. m - 1)
      BY <3>1, FiniteAges, Zenon
    <3>3. \A a \in 0 .. m - 1 : passed[a] \in Nat
      BY <1>1, RateTypes
    <3>4. QED
      BY <3>2, <3>3, PassesAreFinite
  <2>4. LeastOf(counter.count, Limit) \in Nat /\ LeastOf(counter.count, Limit) <= Limit
    BY <1>3 DEF LeastOf
  <2> HIDE DEF m
  <2>5. QED
    BY <2>1, <2>2, <2>3, <2>4
<1>7. HowMany(passed', 1 .. Window - 1) <= Limit - 1
  <2>1. \A a \in 0 .. m : passed'[a] \in Nat
    <3>1. \A a \in 0 .. m : a # 0 => a - 1 \in 0 .. Window - 1
      OBVIOUS
    <3>2. QED
      BY <1>1, <3>1, RateTypes DEF Tick
  <2>2. IsFiniteSet(0 .. m) /\ 1 .. m \subseteq 0 .. m
    BY FiniteAges
  <2>3. IsFiniteSet(1 .. m)
    BY <2>2, FS_Subset
  <2>4. HowMany(passed', 1 .. m) <= HowMany(passed', 0 .. m)
    BY <2>1, <2>2, FewerAges
  <2>5. HowMany(passed', 0 .. m) \in Nat /\ HowMany(passed', 1 .. m) \in Nat
    BY <2>1, <2>2, <2>3, PassesAreFinite
  <2>6. HowMany(passed', 1 .. m) <= Limit - 1
    <3> HIDE DEF m
    <3>1. QED
      BY <1>6, <2>4, <2>5
  <2>7. QED
    BY <2>6
<1>8. SplitAt(1)'
  <2>1. LeastOf(0, Limit) = 0 /\ 1 - 1 = 0
    BY DEF LeastOf
  <2>2. QED
    BY <1>2, <1>5, <1>7, <2>1 DEF SplitAt
<1>9. FirstIsOlder'
  BY <1>2 DEF FirstIsOlder
<1>10. QED
  BY <1>8, <1>9

LEMMA TickRate == ASSUME RateIInv, Tick PROVE RateIInv'
<1> USE RateParameters
<1>1. RateTypeOK /\ OneStarter
  BY DEF RateIInv
<1>2. passed' \in [0 .. Window - 1 -> Nat]
  <2>1. \A a \in 0 .. Window - 1 : a # 0 => a - 1 \in 0 .. Window - 1
    OBVIOUS
  <2>2. QED
    BY <1>1, <2>1, RateTypes DEF Tick
<1>3. login' = login
  BY DEF Tick
<1>4. counter' \in Counter /\ (counter'.ttl > 0 => counter'.count > 0)
  BY <1>1, RateTypes DEF Tick, NoKey, Counter, Counts
<1>5. RateTypeOK'
  BY <1>1, <1>2, <1>3, <1>4 DEF RateTypeOK
<1>6. OneStarter'
  <2>1. counter.ttl = 0 => counter' = counter
    BY <1>1, RateTypes DEF Tick
  <2>2. QED
    BY <1>1, <1>3, <2>1 DEF OneStarter, Counted
<1>7. (\E k \in 1 .. Window : SplitAt(k))' /\ FirstIsOlder'
  BY KeptKeyTick, ExpiredKeyTick
<1>8. QED
  BY <1>5, <1>6, <1>7 DEF RateIInv

LEMMA BurstsAreBounded == RateIInv => BurstBound
<1> USE RateParameters
<1>1. SUFFICES ASSUME RateIInv PROVE BurstBound
  OBVIOUS
<1>2. PICK k \in 1 .. Window : SplitAt(k)
  BY <1>1 DEF RateIInv
<1>3. RateTypeOK
  BY <1>1 DEF RateIInv
<1>4. /\ 0 .. Window - 1 = 0 .. k - 1 \cup k .. Window - 1
      /\ 0 .. k - 1 \cap k .. Window - 1 = {}
  BY <1>2
<1>5. IsFiniteSet(0 .. k - 1) /\ IsFiniteSet(k .. Window - 1)
  <2>1. k \in Int /\ Window - 1 \in Int
    BY <1>2
  <2>2. QED
    BY <2>1, FiniteAges, Zenon
<1>6. \A a \in 0 .. k - 1 \cup k .. Window - 1 : passed[a] \in Nat
  BY <1>3, <1>4, RateTypes
<1>7. HowMany(passed, 0 .. Window - 1) =
        HowMany(passed, 0 .. k - 1) + HowMany(passed, k .. Window - 1)
  BY <1>4, <1>5, <1>6, AgesAdd
<1>8. HowMany(passed, 0 .. k - 1) \in Nat /\ HowMany(passed, k .. Window - 1) \in Nat
  BY <1>5, <1>6, PassesAreFinite
<1>9. LeastOf(counter.count, Limit) \in Nat /\ LeastOf(counter.count, Limit) <= Limit
  BY <1>3, RateTypes DEF LeastOf
<1>10. HowMany(passed, 0 .. Window - 1) < 2 * Limit
  BY <1>2, <1>7, <1>8, <1>9 DEF SplitAt
<1>11. HowMany(passed, 0 .. Window - 1) = Cardinality(Passes(0 .. Window - 1))
  BY DEF HowMany, PassesOf, Passes
<1>12. QED
  BY <1>10, <1>11 DEF BurstBound

-----------------------------------------------------------------------------
(* The pool                                                                *)

\* The connections of the pool that requests hold, in the form of Held.
InUse == {conn \in Logins \X {1, 2} : conn[2] <= HeldBy(conn[1])}

Fits == IsFiniteSet(InUse) /\ Cardinality(InUse) + HeldByWorker <= MaxConns

\* Only a request that the counter let through is at a statement.
UseRight ==
    /\ use \in [Logins -> Statement]
    /\ \A l \in Logins : use[l].at # "none" => login[l].pc = "allowed"
    /\ \A l \in Logins : use[l].holds => use[l].at # "none"

\* The worker has stopped before main closes anything.
PhaseRight ==
    /\ phase \in Phases /\ forced \in BOOLEAN
    /\ worker \in WorkerStates
    /\ phase \in {"closing", "exited"} => worker = "stopped"

\* A process that is gone has no request and holds nothing.
GoneRight == phase = "exited" => \A l \in Logins : login[l] = NoRequest /\ use[l] = NoStatement

PoolIInv == Fits /\ UseRight /\ PhaseRight /\ GoneRight

IInv == RateIInv /\ PoolIInv

LEMMA HeldIsInUse == Held(Logins) = Cardinality(InUse)
BY DEF Held, InUse

LEMMA InUseByHolders ==
    InUse = {conn \in Logins \X {1} : use[conn[1]].holds}
BY DEF InUse, HeldBy

LEMMA WorkerHolds == HeldByWorker \in {0, 1, 2} /\ HeldByWorker <= 2
BY DEF HeldByWorker

LEMMA FewerFit ==
    ASSUME Fits, InUse' \subseteq InUse, HeldByWorker' <= HeldByWorker
    PROVE  Fits'
<1>1. IsFiniteSet(InUse') /\ Cardinality(InUse') <= Cardinality(InUse)
  BY FS_Subset DEF Fits
<1>2. Cardinality(InUse') \in Nat /\ Cardinality(InUse) \in Nat
  BY <1>1, FS_CardinalityType DEF Fits
<1>3. HeldByWorker \in {0, 1, 2} /\ HeldByWorker' \in {0, 1, 2}
  BY DEF HeldByWorker
<1>4. QED
  BY <1>1, <1>2, <1>3, PoolAssumption DEF Fits

LEMMA SameUseFits ==
    ASSUME Fits, use' = use, HeldByWorker' <= HeldByWorker
    PROVE  Fits'
<1>1. InUse' = InUse
  BY DEF InUse, HeldBy
<1>2. QED
  BY <1>1, FewerFit

\* The worker takes a connection while one is available.
LEMMA WorkerFits ==
    ASSUME Fits, use' = use, Available, HeldByWorker' = HeldByWorker + 1
    PROVE  Fits'
<1>1. InUse' = InUse
  BY DEF InUse, HeldBy
<1>2. Cardinality(InUse) \in Nat
  BY FS_CardinalityType DEF Fits
<1>3. Cardinality(InUse) + HeldByWorker < MaxConns
  BY HeldIsInUse DEF Available
<1>4. HeldByWorker \in {0, 1, 2}
  BY DEF HeldByWorker
<1>5. QED
  BY <1>1, <1>2, <1>3, <1>4, PoolAssumption DEF Fits

\* A request takes one.
LEMMA RequestFits ==
    ASSUME Fits, Available, NEW l \in Logins, use \in [Logins -> Statement],
           use' = [use EXCEPT ![l] = [use[l] EXCEPT !.holds = TRUE]], worker' = worker
    PROVE  Fits'
<1>1. InUse' \subseteq InUse \cup {<<l, 1>>}
  <2>1. \A k \in Logins : k # l => use'[k] = use[k]
    OBVIOUS
  <2>2. InUse' = {conn \in Logins \X {1} : use'[conn[1]].holds}
    BY DEF InUse, HeldBy
  <2>3. QED
    BY <2>1, <2>2, InUseByHolders
<1>2. /\ IsFiniteSet(InUse \cup {<<l, 1>>})
      /\ Cardinality(InUse \cup {<<l, 1>>}) <= Cardinality(InUse) + 1
  <2>1. IsFiniteSet(InUse) /\ Cardinality(InUse) \in Nat
    BY FS_CardinalityType DEF Fits
  <2>2. /\ IsFiniteSet(InUse \cup {<<l, 1>>})
        /\ Cardinality(InUse \cup {<<l, 1>>}) =
             IF <<l, 1>> \in InUse THEN Cardinality(InUse) ELSE Cardinality(InUse) + 1
    BY <2>1, FS_AddElement, Zenon
  <2>3. QED
    BY <2>1, <2>2
<1>3. IsFiniteSet(InUse') /\ Cardinality(InUse') <= Cardinality(InUse \cup {<<l, 1>>})
  BY <1>1, <1>2, FS_Subset
<1>4. /\ Cardinality(InUse') \in Nat /\ Cardinality(InUse) \in Nat
      /\ Cardinality(InUse \cup {<<l, 1>>}) \in Nat
  BY <1>2, <1>3, FS_CardinalityType DEF Fits
<1>5. HeldByWorker' = HeldByWorker /\ HeldByWorker \in {0, 1, 2}
  BY DEF HeldByWorker
<1>6. Cardinality(InUse) + HeldByWorker < MaxConns
  BY HeldIsInUse DEF Available
<1>7. Cardinality(InUse') + HeldByWorker <= MaxConns
  BY <1>2, <1>3, <1>4, <1>5, <1>6, PoolAssumption
<1>8. QED
  BY <1>3, <1>5, <1>7 DEF Fits

LEMMA NoUseFits ==
    ASSUME \A l \in Logins : use[l] = NoStatement, worker \in {"asleep", "stopped"}
    PROVE  Fits
<1>1. InUse = {}
  BY InUseByHolders DEF NoStatement
<1>2. HeldByWorker = 0
  BY DEF HeldByWorker
<1>3. QED
  BY <1>1, <1>2, FS_EmptySet, PoolAssumption DEF Fits

LEMMA InitIInv == Init => IInv
<1>1. SUFFICES ASSUME Init PROVE IInv
  OBVIOUS
<1>2. RateIInv
  BY <1>1, RateInitially DEF Init
<1>3. use = [l \in Logins |-> NoStatement] /\ phase = "running" /\ forced = FALSE /\ worker = "asleep"
  BY <1>1 DEF Init
<1>4. Fits
  BY <1>3, NoUseFits
<1>5. UseRight
  BY <1>3 DEF UseRight, NoStatement, Statement
<1>6. PhaseRight /\ GoneRight
  BY <1>3 DEF PhaseRight, GoneRight, Phases, WorkerStates
<1>7. QED
  BY <1>2, <1>4, <1>5, <1>6 DEF IInv, PoolIInv

LEMMA AcceptStep == ASSUME IInv, NEW l \in Logins, Accept(l) PROVE IInv'
<1>1. RateIInv /\ Fits /\ UseRight /\ PhaseRight
  BY DEF IInv, PoolIInv
<1>2. RateIInv'
  BY <1>1, ArriveRate DEF Accept
<1>3. phase = "running" /\ UNCHANGED <<phase, forced, use, worker>>
  BY DEF Accept
<1>4. \A k \in Logins : login[k].pc = "allowed" => login'[k].pc = "allowed"
  BY <1>1, RateTypes DEF RateIInv, Accept, Arrive
<1>5. Fits'
  BY <1>1, <1>3, SameUseFits, WorkerHolds DEF HeldByWorker
<1>6. UseRight' /\ PhaseRight' /\ GoneRight'
  BY <1>1, <1>3, <1>4 DEF UseRight, PhaseRight, GoneRight
<1>7. QED
  BY <1>2, <1>5, <1>6 DEF IInv, PoolIInv

LEMMA CountLoginStep == ASSUME IInv, NEW l \in Logins, CountLogin(l) PROVE IInv'
<1>1. RateIInv /\ Fits /\ UseRight /\ PhaseRight
  BY DEF IInv, PoolIInv
<1>2. RateIInv'
  BY <1>1, IncrRate, ExpireRate DEF CountLogin
<1>3. phase # "exited" /\ UNCHANGED <<phase, forced, use, worker>>
  BY DEF CountLogin, RedisOpen
<1>4. login \in [Logins -> Request] /\ login[l].pc \in {"arrived", "counted"}
  BY <1>1, RateTypes DEF RateIInv, CountLogin, Incr, Expire
<1>5. \A k \in Logins : k # l => login'[k] = login[k]
  BY <1>4 DEF CountLogin, Incr, Expire
<1>6. Fits'
  BY <1>1, <1>3, SameUseFits, WorkerHolds DEF HeldByWorker
<1>7. UseRight'
  BY <1>1, <1>3, <1>4, <1>5 DEF UseRight
<1>8. PhaseRight' /\ GoneRight'
  BY <1>1, <1>3 DEF PhaseRight, GoneRight
<1>9. QED
  BY <1>2, <1>6, <1>7, <1>8 DEF IInv, PoolIInv

\* A step that changes nothing of the counter and its requests.
LEMMA SameRate ==
    ASSUME RateIInv, UNCHANGED <<counter, login, passed>>
    PROVE  RateIInv'
<1>1. login' \in [Logins -> Request]
  BY RateTypes DEF RateIInv
<1>2. \A l \in Logins : Counted(l)' => Counted(l)
  BY DEF Counted
<1>3. QED
  BY <1>1, <1>2, RequestsChange

\* A request moves on within its statements without taking a connection.
LEMMA MoveStep ==
    ASSUME IInv, NEW l \in Logins, login[l].pc = "allowed", NEW statement \in Statement,
           ~statement.holds, UseSet(l, statement)
    PROVE  IInv'
<1>1. RateIInv /\ Fits /\ UseRight /\ PhaseRight /\ GoneRight
  BY DEF IInv, PoolIInv
<1>2. use' = [use EXCEPT ![l] = statement] /\ UNCHANGED <<counter, login, passed, phase, forced, worker>>
  BY DEF UseSet
<1>3. RateIInv'
  BY <1>1, <1>2, SameRate
<1>4. InUse' \subseteq InUse
  <2>1. InUse' = {conn \in Logins \X {1} : use'[conn[1]].holds}
    BY DEF InUse, HeldBy
  <2>2. \A k \in Logins : use'[k].holds => use[k].holds
    BY <1>1, <1>2 DEF UseRight
  <2>3. QED
    BY <2>1, <2>2, InUseByHolders
<1>5. Fits'
  BY <1>1, <1>2, <1>4, FewerFit, WorkerHolds DEF HeldByWorker
<1>6. UseRight'
  BY <1>1, <1>2 DEF UseRight
<1>7. phase # "exited"
  BY <1>1 DEF GoneRight, NoRequest
<1>8. PhaseRight' /\ GoneRight'
  BY <1>1, <1>2, <1>7 DEF PhaseRight, GoneRight
<1>9. QED
  BY <1>3, <1>5, <1>6, <1>8 DEF IInv, PoolIInv

LEMMA StartLoginStep == ASSUME IInv, NEW l \in Logins, StartLogin(l) PROVE IInv'
<1>1. [at |-> "query", holds |-> FALSE] \in Statement /\ login[l].pc = "allowed"
  BY DEF Statement, StartLogin
<1>2. QED
  BY <1>1, MoveStep DEF StartLogin

LEMMA StartSessionStep == ASSUME IInv, NEW l \in Logins, StartSession(l) PROVE IInv'
<1>1. [at |-> "session", holds |-> FALSE] \in Statement
  BY DEF Statement
<1>2. login[l].pc = "allowed"
  BY DEF IInv, PoolIInv, UseRight, StartSession
<1>3. QED
  BY <1>1, <1>2, MoveStep DEF StartSession

LEMMA AcquireStep == ASSUME IInv, NEW l \in Logins, Acquire(l) PROVE IInv'
<1>1. RateIInv /\ Fits /\ UseRight /\ PhaseRight /\ GoneRight
  BY DEF IInv, PoolIInv
<1>2. /\ use' = [use EXCEPT ![l] = [use[l] EXCEPT !.holds = TRUE]]
      /\ UNCHANGED <<counter, login, passed, phase, forced, worker>>
      /\ use[l].at # "none" /\ Available
  BY DEF Acquire, UseSet, MayAcquire
<1>3. RateIInv'
  BY <1>1, <1>2, SameRate
<1>4. Fits'
  BY <1>1, <1>2, RequestFits DEF UseRight
<1>5. UseRight'
  BY <1>1, <1>2 DEF UseRight, Statement
<1>6. phase # "exited"
  BY <1>1, <1>2 DEF GoneRight, NoStatement
<1>7. PhaseRight' /\ GoneRight'
  BY <1>1, <1>2, <1>6 DEF PhaseRight, GoneRight
<1>8. QED
  BY <1>3, <1>4, <1>5, <1>7 DEF IInv, PoolIInv

LEMMA EndLoginStep == ASSUME IInv, NEW l \in Logins, EndLogin(l) PROVE IInv'
<1>1. RateIInv /\ Fits /\ UseRight /\ PhaseRight /\ GoneRight
  BY DEF IInv, PoolIInv
<1>2. RateIInv'
  BY <1>1, EndRate DEF EndLogin
<1>3. /\ use' = [use EXCEPT ![l] = NoStatement] /\ UNCHANGED <<phase, forced, worker>>
      /\ login[l].pc # "none" /\ login' = [login EXCEPT ![l] = NoRequest]
  BY DEF EndLogin, End
<1>4. login \in [Logins -> Request]
  BY <1>1, RateTypes DEF RateIInv
<1>5. InUse' \subseteq InUse
  <2>1. InUse' = {conn \in Logins \X {1} : use'[conn[1]].holds}
    BY DEF InUse, HeldBy
  <2>2. \A k \in Logins : use'[k].holds => use[k].holds
    BY <1>1, <1>3 DEF UseRight, NoStatement
  <2>3. QED
    BY <2>1, <2>2, InUseByHolders
<1>6. Fits'
  BY <1>1, <1>3, <1>5, FewerFit, WorkerHolds DEF HeldByWorker
<1>7. UseRight'
  BY <1>1, <1>3, <1>4 DEF UseRight, NoStatement, Statement
<1>8. phase # "exited"
  BY <1>1, <1>3 DEF GoneRight, NoRequest
<1>9. PhaseRight' /\ GoneRight'
  BY <1>1, <1>3, <1>8 DEF PhaseRight, GoneRight
<1>10. QED
  BY <1>2, <1>6, <1>7, <1>9 DEF IInv, PoolIInv

\* The worker moves on while the phase stays.
LEMMA WorkerStep ==
    ASSUME IInv, NEW to \in WorkerStates, worker # "stopped",
           worker' = to, UNCHANGED <<counter, login, passed, phase, forced, use>>,
           HeldByWorker' <= HeldByWorker \/ (Available /\ HeldByWorker' = HeldByWorker + 1)
    PROVE  IInv'
<1>1. RateIInv /\ Fits /\ UseRight /\ PhaseRight /\ GoneRight
  BY DEF IInv, PoolIInv
<1>2. RateIInv'
  BY <1>1, SameRate
<1>3. Fits'
  BY <1>1, SameUseFits, WorkerFits
<1>4. UseRight' /\ PhaseRight' /\ GoneRight'
  BY <1>1 DEF UseRight, PhaseRight, GoneRight
<1>5. QED
  BY <1>2, <1>3, <1>4 DEF IInv, PoolIInv

LEMMA WorkStep == ASSUME IInv, Work PROVE IInv'
<1> USE DEF WorkerGoto, HeldByWorker, WorkerStates, MayAcquire
<1>1. CASE Poll
  BY <1>1, WorkerStep DEF Poll
<1>2. CASE BeginAttempt
  BY <1>2, WorkerStep DEF BeginAttempt
<1>3. CASE AskSecond
  BY <1>3, WorkerStep DEF AskSecond
<1>4. CASE AcquireSecond
  BY <1>4, WorkerStep DEF AcquireSecond
<1>5. CASE ReleaseSecond
  BY <1>5, WorkerStep DEF ReleaseSecond
<1>6. CASE EndAttempt
  BY <1>6, WorkerStep DEF EndAttempt
<1>7. CASE FailAttempt
  BY <1>7, WorkerStep DEF FailAttempt
<1>8. CASE StopWorker
  BY <1>8, WorkerStep DEF StopWorker
<1>9. QED
  BY <1>1, <1>2, <1>3, <1>4, <1>5, <1>6, <1>7, <1>8 DEF Work

\* main moves on and nothing else.
LEMMA PhaseStep ==
    ASSUME IInv, Signal \/ StopServer \/ AwaitWorker
    PROVE  IInv'
<1>1. RateIInv /\ Fits /\ UseRight /\ PhaseRight
  BY DEF IInv, PoolIInv
<1>2. UNCHANGED <<counter, login, passed, use, worker>>
  BY DEF Signal, StopServer, AwaitWorker
<1>3. RateIInv'
  BY <1>1, <1>2, SameRate
<1>4. Fits'
  BY <1>1, <1>2, SameUseFits, WorkerHolds DEF HeldByWorker
<1>5. UseRight'
  BY <1>1, <1>2 DEF UseRight
<1>6. PhaseRight' /\ GoneRight'
  BY <1>1 DEF PhaseRight, GoneRight, Signal, StopServer, AwaitWorker, Phases
<1>7. QED
  BY <1>3, <1>4, <1>5, <1>6 DEF IInv, PoolIInv

LEMMA ExitStep == ASSUME IInv, Exit PROVE IInv'
<1>1. RateIInv /\ PhaseRight
  BY DEF IInv, PoolIInv
<1>2. /\ login' = [l \in Logins |-> NoRequest] /\ use' = [l \in Logins |-> NoStatement]
      /\ phase' = "exited" /\ worker' = "stopped" /\ UNCHANGED <<counter, passed, forced>>
  BY DEF Exit
<1>3. RateIInv'
  <2>1. login' \in [Logins -> Request]
    BY <1>2, RateParameters DEF Request, NoRequest, Counts
  <2>2. \A l \in Logins : Counted(l)' => Counted(l)
    BY <1>2 DEF Counted, NoRequest
  <2>3. QED
    BY <1>1, <1>2, <2>1, <2>2, RequestsChange
<1>4. Fits'
  <2>1. InUse' = {}
    BY <1>2 DEF InUse, HeldBy, NoStatement
  <2>2. HeldByWorker' = 0
    BY <1>2 DEF HeldByWorker
  <2>3. QED
    BY <2>1, <2>2, FS_EmptySet, PoolAssumption DEF Fits
<1>5. UseRight'
  BY <1>2 DEF UseRight, Statement, NoStatement
<1>6. PhaseRight' /\ GoneRight'
  BY <1>1, <1>2 DEF PhaseRight, GoneRight, Phases, WorkerStates
<1>7. QED
  BY <1>3, <1>4, <1>5, <1>6 DEF IInv, PoolIInv

LEMMA RestartStep == ASSUME IInv, Restart PROVE IInv'
<1>1. RateIInv /\ Fits /\ UseRight /\ PhaseRight
  BY DEF IInv, PoolIInv
<1>2. /\ UNCHANGED <<counter, login, passed, use>> /\ worker = "stopped"
      /\ phase' = "running" /\ forced' = FALSE /\ worker' = "asleep"
  BY <1>1 DEF Restart, PhaseRight
<1>3. RateIInv'
  BY <1>1, <1>2, SameRate
<1>4. Fits'
  BY <1>1, <1>2, SameUseFits DEF HeldByWorker
<1>5. UseRight' /\ PhaseRight' /\ GoneRight'
  BY <1>1, <1>2 DEF UseRight, PhaseRight, GoneRight, Phases, WorkerStates
<1>6. QED
  BY <1>3, <1>4, <1>5 DEF IInv, PoolIInv

LEMMA PassTimeStep == ASSUME IInv, PassTime PROVE IInv'
<1>1. RateIInv /\ Fits /\ UseRight /\ PhaseRight /\ GoneRight
  BY DEF IInv, PoolIInv
<1>2. RateIInv'
  BY <1>1, TickRate DEF PassTime
<1>3. UNCHANGED <<login, phase, forced, use, worker>>
  BY DEF PassTime, Tick
<1>4. Fits'
  BY <1>1, <1>3, SameUseFits, WorkerHolds DEF HeldByWorker
<1>5. UseRight' /\ PhaseRight' /\ GoneRight'
  BY <1>1, <1>3 DEF UseRight, PhaseRight, GoneRight
<1>6. QED
  BY <1>2, <1>4, <1>5 DEF IInv, PoolIInv

LEMMA NextIInv == IInv /\ [Next]_vars => IInv'
<1>1. SUFFICES ASSUME IInv, [Next]_vars PROVE IInv'
  OBVIOUS
<1>2. ASSUME NEW l \in Logins, Accept(l) \/ Proceed(l) \/ Acquire(l) \/ Leave(l) PROVE IInv'
  BY <1>1, <1>2, AcceptStep, CountLoginStep, StartLoginStep, StartSessionStep, AcquireStep, EndLoginStep
     DEF Proceed, Answer, Leave
<1>3. CASE Work
  BY <1>1, <1>3, WorkStep
<1>4. CASE Signal \/ Shutdown \/ Die
  BY <1>1, <1>4, PhaseStep, ExitStep DEF Shutdown, ClosePool, Die
<1>5. CASE Restart
  BY <1>1, <1>5, RestartStep
<1>6. CASE PassTime
  BY <1>1, <1>6, PassTimeStep
<1>7. CASE UNCHANGED vars
  <2>1. UNCHANGED <<counter, login, passed, phase, forced, use, worker>>
    BY <1>7 DEF vars
  <2>2. RateIInv'
    BY <1>1, <2>1, SameRate DEF IInv
  <2>3. PoolIInv'
    BY <1>1, <2>1 DEF IInv, PoolIInv, Fits, UseRight, PhaseRight, GoneRight, InUse, HeldBy, HeldByWorker
  <2>4. QED
    BY <2>2, <2>3 DEF IInv
<1>8. QED
  BY <1>1, <1>2, <1>3, <1>4, <1>5, <1>6, <1>7 DEF Next

-----------------------------------------------------------------------------
(* Theorems                                                                *)

\* The counter, its history, the requests and the holders of connections keep to
\* the inductive invariant.
THEOREM Invariance == Spec => []IInv
<1>1. Init => IInv
  BY InitIInv
<1>2. IInv /\ [Next]_vars => IInv'
  BY NextIInv
<1>3. QED
  BY <1>1, <1>2, PTL DEF Spec

\* Types, and: whatever requests and worker do, together they never hold more
\* connections than the pool has, and only a login the counter let through holds one.
THEOREM TypeCorrect == Spec => []TypeOK
<1>1. IInv => TypeOK
  <2>1. SUFFICES ASSUME IInv PROVE TypeOK
    OBVIOUS
  <2>2. Held(Logins) + HeldByWorker <= MaxConns
    BY <2>1, HeldIsInUse DEF IInv, PoolIInv, Fits
  <2>3. QED
    BY <2>1, <2>2 DEF TypeOK, IInv, PoolIInv, RateIInv, UseRight, PhaseRight
<1>2. QED
  BY <1>1, Invariance, PTL

\* AllowLogin: less than twice the limit passes within the length of one window,
\* however windows fall, requests interleave between INCR and EXPIRE, and processes
\* die between the two.
THEOREM BurstsBounded == Spec => []BurstBound
<1>1. IInv => BurstBound
  BY BurstsAreBounded DEF IInv
<1>2. QED
  BY <1>1, Invariance, PTL

\* When no connection is left, one is held by somebody who does not wait for
\* another: a request at a statement, or the worker with both of its own.
SomebodyWillRelease ==
    ~Available => (\E l \in Logins : use[l].holds) \/ worker = "working"

\* Nobody waits for itself or in a circle for a connection, although the worker
\* keeps one while it asks for the second (resources.go:27): this is where the
\* pool must have more than one.
THEOREM PoolIsNeverStuck == Spec => []SomebodyWillRelease
<1>1. IInv => SomebodyWillRelease
  <2>1. SUFFICES ASSUME IInv, ~Available, \A l \in Logins : ~use[l].holds
                 PROVE  worker = "working"
    BY DEF SomebodyWillRelease
  <2>2. InUse = {}
    BY <2>1, InUseByHolders
  <2>3. ~(Cardinality(InUse) + HeldByWorker < MaxConns)
    BY <2>1, HeldIsInUse DEF Available
  <2>4. Cardinality(InUse) = 0
    BY <2>2, FS_EmptySet
  <2>5. QED
    BY <2>3, <2>4, PoolAssumption DEF HeldByWorker
<1>2. QED
  BY <1>1, Invariance, PTL

\* While main closes the pool, the worker holds nothing and requests only give back.
ClosingOnlyReleases ==
    [][phase = "closing" => HeldByWorker = 0 /\ Held(Logins)' <= Held(Logins)]_vars

\* The wait of pool.Close cannot be prolonged: no connection is acquired after the
\* worker has stopped (main.go:75-108).
THEOREM PoolDrains == Spec => ClosingOnlyReleases
<1>1. IInv /\ [Next]_vars => [phase = "closing" => HeldByWorker = 0 /\ Held(Logins)' <= Held(Logins)]_vars
  <2>1. SUFFICES ASSUME IInv, Next, phase = "closing"
                 PROVE  HeldByWorker = 0 /\ Held(Logins)' <= Held(Logins)
    OBVIOUS
  <2>2. worker = "stopped" /\ Fits /\ UseRight
    BY <2>1 DEF IInv, PoolIInv, PhaseRight
  <2>3. HeldByWorker = 0
    BY <2>2 DEF HeldByWorker
  <2>4. \A l \in Logins : use'[l].holds => use[l].holds
    <3>1. CASE UNCHANGED use
      BY <3>1
    <3>2. ASSUME NEW l \in Logins, StartLogin(l) \/ StartSession(l) \/ EndLogin(l)
          PROVE  \A k \in Logins : use'[k].holds => use[k].holds
      BY <2>2, <3>2 DEF UseRight, StartLogin, StartSession, EndLogin, UseSet, NoStatement
    <3>3. ASSUME NEW l \in Logins, Acquire(l) PROVE FALSE
      BY <2>1, <3>3 DEF Acquire, MayAcquire, PoolOpen
    <3>4. ASSUME NEW l \in Logins, Accept(l) \/ CountLogin(l) PROVE UNCHANGED use
      BY <3>4 DEF Accept, CountLogin
    <3>5. ASSUME Exit PROVE \A k \in Logins : use'[k].holds => use[k].holds
      BY <3>5 DEF Exit, NoStatement
    <3>6. Work \/ Signal \/ StopServer \/ AwaitWorker \/ Restart \/ PassTime => UNCHANGED use
      BY DEF Work, Poll, BeginAttempt, AskSecond, AcquireSecond, ReleaseSecond, EndAttempt,
             FailAttempt, StopWorker, WorkerGoto, Signal, StopServer, AwaitWorker, Restart, PassTime
    <3>7. QED
      BY <2>1, <3>1, <3>2, <3>3, <3>4, <3>5, <3>6
         DEF Next, Proceed, Answer, Leave, Shutdown, ClosePool, Die
  <2>5. InUse' \subseteq InUse
    <3>1. InUse' = {conn \in Logins \X {1} : use'[conn[1]].holds}
      BY DEF InUse, HeldBy
    <3>2. QED
      BY <2>4, <3>1, InUseByHolders
  <2>6. Cardinality(InUse') <= Cardinality(InUse)
    BY <2>2, <2>5, FS_Subset DEF Fits
  <2>7. Held(Logins)' = Cardinality(InUse')
    BY DEF Held, InUse
  <2>8. QED
    BY <2>3, <2>6, <2>7, HeldIsInUse
<1>2. QED
  BY <1>1, Invariance, PTL DEF Spec, ClosingOnlyReleases

=============================================================================
