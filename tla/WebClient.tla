----------------------------- MODULE WebClient -----------------------------
(***************************************************************************)
(* One browser tab (web/src: api.ts, App.tsx, AuthView, Dashboard) and the *)
(* sessions of the server.  The tab keeps its pair of tokens in            *)
(* sessionStorage, which every request reads and several requests write: a *)
(* request that gets a 401 refreshes the session by itself and is sent     *)
(* once more.  Requests overlap, also with sign-out and the next sign-in.  *)
(*                                                                         *)
(* The server acts on families of tokens in single steps, as Sessions is   *)
(* shown to do.  A refresh token that outlives its 30 days is refused like *)
(* a revoked one and is left out.                                          *)
(***************************************************************************)
EXTENDS Naturals, Sequences

CONSTANTS
    Data,           \* requests of the dashboard that may be under way at once
    MaxPairs,       \* bound: pairs of tokens issued
    MaxFaults       \* bound: network and server errors, and reloads

ASSUME BoundsAssumption == MaxPairs \in Nat /\ MaxFaults \in Nat

ASSUME DataAssumption == Data \cap {"confirm", "check"} = {}

VARIABLES
    pairs,      \* the server's pairs of tokens, in order of issue
    expired,    \* pairs whose access token is over
    stored,     \* the pair in sessionStorage, 0 when there is none
    call,       \* per request, how far it is
    signing,    \* AuthView: the pair of the login that getMe has to confirm, 0 if none
    app,        \* what App shows
    leaving,    \* the sign-out under way
    faults

vars == <<pairs, expired, stored, call, signing, app, leaving, faults>>

Server == INSTANCE TokenFamilies

-----------------------------------------------------------------------------
PairIds == DOMAIN pairs

\* "confirm" is AuthView's getMe, "check" that of App.
Calls == Data \cup {"confirm", "check"}

\* "token": the pair whose access token (sent, retrying) or refresh token
\* (refreshing) is on its way, or that is being brought (rotated).
Call == [pc : {"idle", "sent", "denied", "refreshing", "rotated", "refused", "retrying",
               "served", "failed"},
         token : Nat, since : Nat]

\* "since": pairs the server had issued when the refresh or sign-out was sent.
At(pc, p) == [pc |-> pc, token |-> p, since |-> 0]

NoCall == At("idle", 0)

Leaving == [pc : {"none", "sent", "answered"}, pair : Nat, since : Nat, ok : BOOLEAN]

NotLeaving == [pc |-> "none", pair |-> 0, since |-> 0, ok |-> FALSE]

Live(p) == p \in PairIds /\ pairs[p].live

\* Authenticate finds the access token.
Valid(p) == Live(p) /\ p \notin expired

AnyToken(p) == TRUE

\* if revokedAt != nil
Accepts(p) == Live(p)

Fault == faults < MaxFaults /\ faults' = faults + 1

\* A call with a token that is no longer live may be outrun by a refresh.
EndsFamily(p, since) == Server!EndLate(p, since)

-----------------------------------------------------------------------------
Init ==
    /\ Server!TableInit
    /\ expired = {}
    /\ stored = 0
    /\ call = [s \in Calls |-> NoCall]
    /\ signing = 0
    /\ app = "signin"
    /\ leaving = NotLeaving
    /\ faults = 0

\* The access token of a pair has reached its fifteen minutes.
Expire(p) ==
    /\ p \notin expired
    /\ Len(pairs) < MaxPairs
    /\ expired' = expired \cup {p}
    /\ UNCHANGED <<pairs, stored, call, signing, app, leaving, faults>>

(***************************************************************************)
(* request: one call of the API                                            *)
(***************************************************************************)

CallSet(s, next) ==
    /\ call' = [call EXCEPT ![s] = next]
    /\ UNCHANGED <<expired, signing, app, leaving>>

\* The dashboard loads, polls every ten seconds, or the user asks for something.
Send(s) ==
    /\ s \in Data /\ app = "dashboard"
    /\ call[s].pc = "idle"
    /\ CallSet(s, At("sent", stored))
    /\ UNCHANGED <<pairs, stored, faults>>

\* A 401 of the first try is refreshed if the request had a session.
Serve(s) ==
    /\ call[s].pc \in {"sent", "retrying"}
    /\ CallSet(s, IF Valid(call[s].token) THEN At("served", 0)
                  ELSE IF call[s].pc = "sent" /\ call[s].token # 0 THEN At("denied", 0)
                  ELSE At("failed", 0))
    /\ UNCHANGED <<pairs, stored, faults>>

\* The request or its answer is lost, or answered with another error; the middleware
\* answers 401 when it cannot read the session.
ServeFault(s) ==
    /\ call[s].pc \in {"sent", "retrying"}
    /\ \E pc \in {"denied", "failed"} :
          (pc = "denied" => call[s].pc = "sent" /\ call[s].token # 0) /\ CallSet(s, At(pc, 0))
    /\ Fault
    /\ UNCHANGED <<pairs, stored>>

\* refreshSession reads what is stored now.
Denied(s) ==
    /\ call[s].pc = "denied"
    /\ CallSet(s, IF stored = 0 THEN At("failed", 0) ELSE [At("refreshing", stored) EXCEPT !.since = Len(pairs)])
    /\ UNCHANGED <<pairs, stored, faults>>

\* The server rotates the family, or ends it when the token is no longer live.
\* At the bound of pairs the call is lost.
Exchange(s) ==
    LET p == call[s].token IN
    /\ call[s].pc = "refreshing"
    /\ \/ Accepts(p) /\ Len(pairs) < MaxPairs
          /\ pairs' = Append(Server!Ended(pairs[p].family), Server!NewPair(pairs[p].family, p))
          /\ CallSet(s, At("rotated", Len(pairs) + 1))
       \/ Accepts(p) /\ Len(pairs) = MaxPairs
          /\ UNCHANGED pairs
          /\ CallSet(s, At("failed", 0))
       \/ ~Accepts(p)
          /\ EndsFamily(p, call[s].since)
          /\ CallSet(s, At("refused", 0))
    /\ UNCHANGED <<stored, faults>>

\* The call is lost or answered with an error that changed nothing, or the family
\* is rotated, or ended for a token used before, and the answer is lost.
ExchangeFault(s) ==
    LET p == call[s].token IN
    /\ call[s].pc = "refreshing"
    /\ \/ UNCHANGED pairs /\ \E pc \in {"refused", "failed"} : CallSet(s, At(pc, 0))
       \/ Len(pairs) < MaxPairs /\ Server!Rotate(p) /\ CallSet(s, At("failed", 0))
       \/ ~Accepts(p) /\ EndsFamily(p, call[s].since) /\ CallSet(s, At("failed", 0))
    /\ Fault
    /\ UNCHANGED stored

\* saveSession(next), and the request is sent once more.
Refreshed(s) ==
    /\ call[s].pc = "rotated"
    /\ stored' = call[s].token
    /\ CallSet(s, At("retrying", call[s].token))
    /\ UNCHANGED <<pairs, faults>>

StillStored == stored

AfterRefusal == 0

\* if (!response.ok) saveSession(null), whatever is stored by now
Refused(s) ==
    /\ call[s].pc = "refused"
    /\ stored' = AfterRefusal
    /\ CallSet(s, At("failed", 0))
    /\ UNCHANGED <<pairs, faults>>

\* The dashboard shows the data or an error; its session is not looked at.
Settle(s) ==
    /\ s \in Data
    /\ call[s].pc \in {"served", "failed"}
    /\ CallSet(s, NoCall)
    /\ UNCHANGED <<pairs, stored, faults>>

(***************************************************************************)
(* AuthView and App                                                        *)
(***************************************************************************)

\* onAuthenticated saves the session it is given, and App checks it with getMe.
Authenticated(p, others) ==
    /\ call["check"].pc = "idle"
    /\ stored' = p
    /\ app' = "dashboard"
    /\ signing' = 0
    /\ call' = [others EXCEPT !["check"] = At("sent", p)]

Opens == app = "signin" /\ Len(pairs) < MaxPairs /\ Server!Open

\* The form is busy until the last attempt is over.
MayOpen == signing = 0 /\ Opens

\* login, saveSession, and getMe to confirm it
SignIn ==
    /\ MayOpen
    /\ signing' = Len(pairs')
    /\ stored' = Len(pairs')
    /\ call' = [call EXCEPT !["confirm"] = At("sent", Len(pairs'))]
    /\ UNCHANGED <<expired, app, leaving, faults>>

SignInFails ==
    /\ app = "signin" /\ signing = 0
    /\ stored' = 0
    /\ UNCHANGED <<pairs, expired, call, signing, app, leaving, faults>>

Register ==
    /\ MayOpen
    /\ Authenticated(Len(pairs'), call)
    /\ UNCHANGED <<expired, leaving, faults>>

\* The session of the login is saved again, also if getMe has refreshed it.
Confirmed ==
    /\ call["confirm"].pc = "served"
    /\ Authenticated(signing, [call EXCEPT !["confirm"] = NoCall])
    /\ UNCHANGED <<pairs, expired, leaving, faults>>

NotConfirmed ==
    /\ call["confirm"].pc = "failed"
    /\ signing' = 0
    /\ stored' = 0
    /\ call' = [call EXCEPT !["confirm"] = NoCall]
    /\ UNCHANGED <<pairs, expired, app, leaving, faults>>

Checked ==
    /\ call["check"].pc = "served"
    /\ app' = IF app = "checking" THEN "dashboard" ELSE app
    /\ call' = [call EXCEPT !["check"] = NoCall]
    /\ UNCHANGED <<pairs, expired, stored, signing, leaving, faults>>

\* Any failure of getMe, a lost answer too, ends the session of the tab.
NotChecked ==
    /\ call["check"].pc = "failed"
    /\ stored' = 0
    /\ app' = "signin"
    /\ call' = [call EXCEPT !["check"] = NoCall]
    /\ UNCHANGED <<pairs, expired, signing, leaving, faults>>

\* The page is loaded anew.  A request that has not reached the server by then
\* never does.
Reload ==
    /\ Fault
    /\ call' = [s \in Calls |-> IF s = "check" /\ stored # 0 THEN At("sent", stored) ELSE NoCall]
    /\ app' = IF stored = 0 THEN "signin" ELSE "checking"
    /\ signing' = 0
    /\ leaving' = NotLeaving
    /\ UNCHANGED <<pairs, expired, stored>>

(***************************************************************************)
(* Sign-out                                                                *)
(***************************************************************************)

SignedOut ==
    /\ stored' = 0
    /\ app' = "signin"
    /\ leaving' = NotLeaving
    /\ UNCHANGED <<pairs, expired, call, signing, faults>>

\* logout: without a session there is nobody to tell.
SignOut ==
    /\ app = "dashboard" /\ leaving.pc = "none"
    /\ IF stored = 0 THEN SignedOut
       ELSE /\ leaving' = [pc |-> "sent", pair |-> stored, since |-> Len(pairs), ok |-> FALSE]
            /\ UNCHANGED <<pairs, expired, stored, call, signing, app, faults>>

OnlyIfLive(p, since) == IF Live(p) THEN Server!End(p) ELSE UNCHANGED pairs

LogoutEnds(p, since) == EndsFamily(p, since)

ServeSignOut ==
    /\ leaving.pc = "sent"
    /\ LogoutEnds(leaving.pair, leaving.since)
    /\ leaving' = [leaving EXCEPT !.pc = "answered", !.ok = TRUE]
    /\ UNCHANGED <<expired, stored, call, signing, app, faults>>

\* Not told, or told without an answer: .catch(() => undefined)
SignOutFault ==
    /\ leaving.pc = "sent"
    /\ Fault
    /\ UNCHANGED pairs \/ LogoutEnds(leaving.pair, leaving.since)
    /\ leaving' = [leaving EXCEPT !.pc = "answered"]
    /\ UNCHANGED <<expired, stored, call, signing, app>>

EndSignOut == leaving.pc = "answered" /\ SignedOut

-----------------------------------------------------------------------------
Proceed(s) == Serve(s) \/ Denied(s) \/ Exchange(s) \/ Refreshed(s) \/ Refused(s) \/ Settle(s)

Settled == Confirmed \/ NotConfirmed \/ Checked \/ NotChecked

Next ==
    \/ \E p \in PairIds : Expire(p)
    \/ \E s \in Calls : Send(s) \/ Proceed(s) \/ ServeFault(s) \/ ExchangeFault(s)
    \/ SignIn \/ SignInFails \/ Register \/ Settled \/ Reload
    \/ SignOut \/ ServeSignOut \/ SignOutFault \/ EndSignOut

Spec == Init /\ [][Next]_vars

\* The visible dashboard goes on polling, calls are answered and answers handled.
\* Nothing makes a user sign in or out.
Fairness ==
    /\ \A s \in Calls : WF_vars(Proceed(s)) /\ WF_vars(Send(s))
    /\ WF_vars(Settled)
    /\ WF_vars(ServeSignOut) /\ WF_vars(EndSignOut)

FairSpec == Spec /\ Fairness

-----------------------------------------------------------------------------
(***************************************************************************)
(* Properties                                                              *)
(***************************************************************************)

\* Pairs and calls have their types, and every token the tab holds was issued.
TypeOK ==
    /\ pairs \in Seq([family : Nat, live : BOOLEAN, from : Nat])
    /\ Len(pairs) <= MaxPairs /\ expired \subseteq PairIds
    /\ stored \in PairIds \cup {0}
    /\ call \in [Calls -> Call] /\ \A s \in Calls : call[s].token \in PairIds \cup {0}
    /\ signing \in PairIds \cup {0} /\ (signing # 0 <=> call["confirm"].pc # "idle")
    /\ app \in {"signin", "checking", "dashboard"}
    /\ leaving \in Leaving /\ (leaving.pc # "none" => leaving.pair \in PairIds)
    /\ faults \in 0 .. MaxFaults

\* Answers of overlapping refreshes may come in any order, but none puts a pair over
\* a newer one of its session (api.ts:61).
StoredAdvances ==
    [][\A s \in Calls : Refreshed(s) /\ stored # 0 /\ pairs[stored].family = pairs[stored'].family
                          => stored' > stored]_vars

\* A tab that shows the workspace does not keep a dead session for ever: a request
\* finds out, in spite of errors, and drops or replaces it (api.ts:58).
DeadSessionCleared ==
    \A p \in 1 .. MaxPairs : stored = p /\ ~Live(p) /\ app # "signin" ~> stored # p

\* A sign-out the server has answered ends the pair it names and the one that an
\* overlapping refresh of it is still to bring (service.go:218); only a pair that
\* the tab has refreshed from a newer one meanwhile may be left.
SignOutEnds ==
    leaving.pc = "answered" /\ leaving.ok =>
       \A q \in PairIds : Live(q) => q # leaving.pair /\ pairs[q].from # leaving.pair

\* README.md:90 describes the refresh as "Refresh the session": as long as the tab
\* itself is the only one to use its tokens, a refresh leaves the session alive.
RefreshKeepsSession ==
    [][\A s \in Calls : Exchange(s) /\ (\E p \in PairIds : Live(p) /\ pairs[p].family = pairs[call[s].token].family)
          => \E q \in DOMAIN pairs' : pairs'[q].live /\ pairs'[q].family = pairs[call[s].token].family]_vars

=============================================================================
