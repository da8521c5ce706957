----------------------------- MODULE LoginRate -----------------------------
(***************************************************************************)
(* AllowLogin of auth.Service: the Redis counter of one e-mail address and *)
(* client.  INCR counts a login; the call that finds itself the first sets *)
(* the key's expiry with a second command, EXPIRE.  A call can end between *)
(* the two, and then nobody sets it.                                       *)
(***************************************************************************)
EXTENDS Naturals, FiniteSets

CONSTANTS
    Logins,     \* login requests handled at the same time
    Limit,      \* logins of one window that pass, 5 in the code
    Window      \* ticks of a window, one minute in the code

ASSUME RateAssumption == Limit \in Nat \ {0} /\ Window \in Nat \ {0}

VARIABLES
    counter,    \* the key in Redis
    login,      \* per request, how far it is
    passed      \* per tick of the last Window, the logins let through; read by no guard

rateVars == <<counter, login, passed>>

-----------------------------------------------------------------------------
\* Counts above the limit are alike.
Counts == 0 .. Limit + 1

\* count = 0: no key; ttl = 0: a key without expiry.
Counter == [count : Counts, ttl : 0 .. Window]

NoKey == [count |-> 0, ttl |-> 0]

\* "counted": the request has still to send EXPIRE.
Request == [pc : {"none", "arrived", "counted", "allowed", "refused"}, count : Counts]

NoRequest == [pc |-> "none", count |-> 0]

VerdictLate(n) == [pc |-> IF n <= Limit + 1 THEN "allowed" ELSE "refused", count |-> 0]

\* return count <= 5
Verdict(n) == [pc |-> IF n <= Limit THEN "allowed" ELSE "refused", count |-> 0]

EveryCount(n) == TRUE

\* if count == 1
StartsWindow(n) == n = 1

Incremented == IF counter.count > Limit THEN counter.count ELSE counter.count + 1

\* The key has no expiry and no request is left that would set one.
Stranded ==
    /\ counter.count > 0 /\ counter.ttl = 0
    /\ \A l \in Logins : login[l].pc # "counted"

-----------------------------------------------------------------------------
RateInit ==
    /\ counter = NoKey
    /\ login = [l \in Logins |-> NoRequest]
    /\ passed = [age \in 0 .. Window - 1 |-> 0]

Arrive(l) ==
    /\ login[l].pc = "none"
    /\ login' = [login EXCEPT ![l].pc = "arrived"]
    /\ UNCHANGED <<counter, passed>>

Incr(l) ==
    LET n == Incremented IN
    /\ login[l].pc = "arrived"
    /\ counter' = [counter EXCEPT !.count = n]
    /\ login' = [login EXCEPT ![l] = IF StartsWindow(n) THEN [pc |-> "counted", count |-> n]
                                     ELSE Verdict(n)]
    /\ passed' = [passed EXCEPT ![0] = IF Verdict(n).pc = "allowed" THEN @ + 1 ELSE @]

Expire(l) ==
    /\ login[l].pc = "counted"
    /\ counter' = [counter EXCEPT !.ttl = Window]
    /\ login' = [login EXCEPT ![l] = Verdict(login[l].count)]
    /\ UNCHANGED passed

\* The request ends: with an answer, because a command failed (503), or because
\* its client is gone or its server is.
End(l) ==
    /\ login[l].pc # "none"
    /\ login' = [login EXCEPT ![l] = NoRequest]
    /\ UNCHANGED <<counter, passed>>

\* Time passes; Redis removes a key whose time is over.
Tick ==
    /\ counter' = IF counter.ttl = 1 THEN NoKey
                  ELSE IF counter.ttl = 0 THEN counter
                  ELSE [counter EXCEPT !.ttl = @ - 1]
    /\ passed' = [age \in 0 .. Window - 1 |-> IF age = 0 THEN 0 ELSE passed[age - 1]]
    /\ UNCHANGED login

-----------------------------------------------------------------------------
(***************************************************************************)
(* Properties, checked with the process around the counter (Lifecycle)     *)
(***************************************************************************)

RateTypeOK ==
    /\ counter \in Counter /\ (counter.ttl > 0 => counter.count > 0)
    /\ login \in [Logins -> Request]
    /\ passed \in [0 .. Window - 1 -> Nat]

\* The logins let through in the ticks of these ages, each with the age it has.
Passes(ages) == UNION {{age} \X (1 .. passed[age]) : age \in ages}

\* However the windows fall, less than twice the limit passes within the length of
\* one: the worst is the end of a window and the start of the next.
BurstBound == Cardinality(Passes(0 .. Window - 1)) < 2 * Limit

\* http.go:73, "Try again in one minute": whoever is refused finds the counter
\* gone in the end, however often it is tried in between, unless the first call of
\* the window ended between INCR and EXPIRE.
BlockEnds ==
    \A l \in Logins : login[l].pc = "refused" ~> counter.count = 0 \/ Stranded

\* The sentence as it stands, which the answer to every refused login gives.
EveryBlockEnds ==
    \A l \in Logins : login[l].pc = "refused" ~> counter.count = 0

=============================================================================
