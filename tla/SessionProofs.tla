---------------------------- MODULE SessionProofs ----------------------------
(***************************************************************************)
(* Session for any number of pages, accounts, logins and faults: rotation  *)
(* alone ends no session, multiplies none, and never shows one account's   *)
(* e-mail over the other's reminders.                                      *)
(*                                                                         *)
(* All of it rests on tokens being nobody else's: Apart.                   *)
(***************************************************************************)
EXTENDS Session, FiniteSetTheorems, TLAPS

(* A client waits for one refresh at a time.                               *)
OneEach ==
  \A g, h \in handlers : g.client # NoPair /\ g.client = h.client => g = h

(* No two stores have one pair.                                            *)
PairsApart ==
  \A c, d \in Clients :
    c # d => session[c].pair # session[d].pair \/ session[c].pair = NoPair

(* A stored pair is shown by its own client only, or by what that gave up. *)
ShownIsOwn ==
  \A h \in handlers, c \in Clients :
    h.client # NoPair /\ h.shown = session[c].pair => h.client = c

(* A pair on its way to a client is nowhere else.                          *)
GivenIsFresh ==
  \A h \in handlers : h.given # NoPair =>
    /\ h.step = "answer" /\ h.client # NoPair
    /\ \A c \in Clients : session[c].pair # h.given
    /\ \A g \in handlers : g.shown # h.given /\ (g # h => g.given # h.given)

Apart == OneEach /\ PairsApart /\ ShownIsOwn /\ GivenIsFresh

SessInv == TypeOK /\ Apart

-----------------------------------------------------------------------------
(* Pairs and stores.                                                       *)

(* The pair issued is one nobody has.                                      *)
LEMMA NewPairIsUnused ==
  ASSUME NEW a \in Accounts, Issue(a)
  PROVE  /\ NewPair(a) \in Pairs /\ NewPair(a) # NoPair
         /\ NewPair(a) \notin access \cup refresh
         /\ ~Held(NewPair(a))
         /\ NewPair(a)[1] = a
         /\ access' = access \cup {NewPair(a)}
         /\ refresh' = refresh \cup {NewPair(a)}
<1>1. NewPair(a) \in Unused(a)
  BY DEF Issue, NewPair
<1>2. \A p \in {a} \X Serials : p \in Pairs /\ p[1] = a
  BY DEF Pairs
<1> QED BY <1>1, <1>2, NoneAssumption DEF Unused, Issue

(* A client is logged out exactly if it has no pair.                       *)
LEMMA LoggedOutHasNoPair ==
  ASSUME TypeOK, NEW c \in Clients
  PROVE  /\ session[c].pair \in Pairs \cup {NoPair}
         /\ session[c] = LoggedOut <=> session[c].pair = NoPair
BY NoneAssumption DEF TypeOK, Stored, LoggedOut

LEMMA PairsHaveAccounts == \A p \in Pairs : p[1] \in Accounts
BY DEF Pairs

(* What a stored or travelling pair is not.                                *)
LEMMA NotHeld ==
  ASSUME TypeOK, NEW p, ~Held(p)
  PROVE  /\ \A c \in Clients : session[c].pair # p
         /\ \A h \in handlers : h.shown # p /\ h.given # p
BY DEF Held

-----------------------------------------------------------------------------
LEMMA SessInvInit == Init => SessInv
<1> SUFFICES ASSUME Init PROVE SessInv
  OBVIOUS
<1>1. TypeOK
  <2>1. \A c \in Clients : state[c] = "refresh" <=> \E h \in handlers : h.client = c
    BY DEF Init
  <2>2. served \in BOOLEAN /\ reach \in [Clients -> BOOLEAN]
    BY Zenon DEF Init
  <2>3. logins \in 0 .. MaxLogins /\ faults \in 0 .. MaxFaults
    BY BoundsAssumption DEF Init
  <2>4. session \in [Clients -> Stored \cup {LoggedOut}] /\ token \in [Clients -> Pairs \cup {NoPair}]
    BY DEF Init
  <2> QED BY <2>1, <2>2, <2>3, <2>4 DEF Init, TypeOK
<1>2. Apart
  BY DEF Init, Apart, OneEach, PairsApart, ShownIsOwn, GivenIsFresh, LoggedOut
<1> QED BY <1>1, <1>2 DEF SessInv

(* The user.                                                               *)
LEMMA LoginKeeps ==
  ASSUME SessInv, NEW c \in Clients, NEW a \in Accounts, Login(c, a)
  PROVE  SessInv'
<1> DEFINE p == NewPair(a)
<1>1. p \in Pairs /\ p # NoPair /\ ~Held(p)
      /\ access' = access \cup {p} /\ refresh' = refresh \cup {p}
  BY NewPairIsUnused DEF Login
<1>2. session' = [session EXCEPT ![c] = [pair |-> p, email |-> a, api_url |-> TRUE]]
  BY DEF Login
<1>3. [pair |-> p, email |-> a, api_url |-> TRUE] \in Stored
  BY <1>1 DEF Stored
<1>4. UNCHANGED <<handlers, state, token, reach, served, faults>> /\ logins' \in 0 .. MaxLogins
  BY BoundsAssumption DEF Login, calls, SessInv, TypeOK
<1>5. TypeOK'
  BY <1>1, <1>2, <1>3, <1>4 DEF SessInv, TypeOK
<1>6. /\ \A d \in Clients : session[d].pair # p
      /\ \A h \in handlers : h.shown # p /\ h.given # p
  BY <1>1, NotHeld DEF SessInv
<1>7. \A d \in Clients : session'[d].pair = IF d = c THEN p ELSE session[d].pair
  BY <1>2 DEF SessInv, TypeOK
<1> HIDE DEF p
<1>8. Apart'
  BY <1>1, <1>4, <1>6, <1>7 DEF SessInv, Apart, OneEach, PairsApart, ShownIsOwn, GivenIsFresh
<1> QED BY <1>5, <1>8 DEF SessInv

LEMMA LogoutKeeps ==
  ASSUME SessInv, NEW c \in Clients, Logout(c)
  PROVE  SessInv'
<1>1. session' = [session EXCEPT ![c] = LoggedOut]
      /\ UNCHANGED <<access, refresh, handlers, state, token, reach, served, logins, faults>>
  BY DEF Logout, api, calls
<1>2. TypeOK'
  BY <1>1 DEF SessInv, TypeOK
<1>3. \A d \in Clients : session'[d].pair = IF d = c THEN NoPair ELSE session[d].pair
  BY <1>1 DEF SessInv, TypeOK, LoggedOut
<1>4. \A h \in handlers : h.shown # NoPair
  BY NoneAssumption DEF SessInv, TypeOK, Refresh
<1>5. Apart'
  BY <1>1, <1>3, <1>4 DEF SessInv, Apart, OneEach, PairsApart, ShownIsOwn, GivenIsFresh
<1> QED BY <1>2, <1>5 DEF SessInv

(* The end of a call, which leaves the session alone.                      *)
LEMMA EndTypes ==
  ASSUME TypeOK, NEW c \in Clients, NEW result \in BOOLEAN, End(c, result)
  PROVE  /\ state' \in [Clients -> {"idle", "call", "refresh", "renewed", "again"}]
         /\ token' \in [Clients -> Pairs \cup {NoPair}]
         /\ reach' \in [Clients -> BOOLEAN]
         /\ served' \in BOOLEAN
         /\ \A d \in Clients : state'[d] = IF d = c THEN "idle" ELSE state[d]
BY DEF TypeOK, End

(* A call that asks for no refresh and ends none.                          *)
LEMMA CallKeeps ==
  ASSUME SessInv, NEW c \in Clients, Call(c) \/ Served(c) \/ NotServed(c) \/ Retry(c)
  PROVE  SessInv'
<1>1. UNCHANGED <<access, refresh, handlers, session, logins, faults>>
  BY DEF Call, Served, NotServed, Retry, api
<1>2. Apart'
  BY <1>1 DEF SessInv, Apart, OneEach, PairsApart, ShownIsOwn, GivenIsFresh
<1>3. CASE Call(c)
  <2>1. session[c].pair \in Pairs \cup {NoPair}
    BY LoggedOutHasNoPair DEF SessInv
  <2>2. TypeOK'
    BY <1>1, <1>3, <2>1 DEF SessInv, TypeOK, Call
  <2> QED BY <1>2, <2>2 DEF SessInv
<1>r. CASE Retry(c) /\ session[c] # LoggedOut
  <2>1. session[c].pair \in Pairs
    BY <1>r, LoggedOutHasNoPair DEF SessInv
  <2>2. TypeOK'
    BY <1>1, <1>r, <2>1 DEF SessInv, TypeOK, Retry
  <2> QED BY <1>2, <2>2 DEF SessInv
<1>4. CASE Served(c) \/ NotServed(c) \/ (Retry(c) /\ session[c] = LoggedOut)
  <2>1. PICK result \in BOOLEAN : End(c, result)
    BY <1>4 DEF Served, NotServed, Retry
  <2>2. state[c] # "refresh"
    BY <1>4 DEF Served, NotServed, Retry
  <2>3. TypeOK'
    BY <1>1, <2>1, <2>2, EndTypes DEF SessInv, TypeOK
  <2> QED BY <1>2, <2>3 DEF SessInv
<1> QED BY <1>3, <1>4, <1>r

LEMMA UnauthorizedKeeps ==
  ASSUME SessInv, NEW c \in Clients, Unauthorized(c)
  PROVE  SessInv'
<1> DEFINE h == [client |-> c, shown |-> session[c].pair, step |-> "select",
                 given |-> NoPair, gone |-> 0]
<1>1. session[c].pair \in Pairs
  BY LoggedOutHasNoPair DEF SessInv, Unauthorized
<1>2. h \in Refresh
  BY <1>1, BoundsAssumption DEF Refresh, Waiting
<1>3. handlers' = handlers \cup {h}
      /\ state' = [state EXCEPT ![c] = "refresh"]
      /\ token' = [token EXCEPT ![c] = NoPair]
      /\ UNCHANGED <<access, refresh, session, reach, served, logins, faults>>
  BY DEF Unauthorized
<1>4. \A g \in handlers : g.client # c
  BY DEF SessInv, TypeOK, Unauthorized
<1>5. c # NoPair
  BY ClientsAssumption
<1>6. h.client = c /\ h.shown = session[c].pair /\ h.given = NoPair
  OBVIOUS
<1> HIDE DEF h
<1>7. TypeOK'
  BY <1>2, <1>3, <1>6 DEF SessInv, TypeOK
<1>8. OneEach' /\ PairsApart'
  BY <1>3, <1>4, <1>6 DEF SessInv, Apart, OneEach, PairsApart
<1>9. ShownIsOwn'
  BY <1>1, <1>3, <1>6, NoneAssumption DEF SessInv, Apart, ShownIsOwn, PairsApart
<1>10. GivenIsFresh'
  BY <1>1, <1>3, <1>6 DEF SessInv, Apart, GivenIsFresh
<1> QED BY <1>7, <1>8, <1>9, <1>10 DEF SessInv, Apart

LEMMA RefreshedKeeps ==
  ASSUME SessInv, NEW c \in Clients, Refreshed(c)
  PROVE  SessInv'
<1>1. PICK h \in handlers :
        /\ h.client = c /\ h.step = "answer" /\ h.given # NoPair
        /\ handlers' = handlers \ {h}
        /\ session' = [session EXCEPT ![c] = Renewed(c, h.given)]
        /\ state' = [state EXCEPT ![c] = "renewed"]
        /\ UNCHANGED <<access, refresh, token, reach, served, logins, faults>>
  BY DEF Refreshed
<1>2. h.given \in Pairs /\ c # NoPair
  BY <1>1, ClientsAssumption DEF SessInv, TypeOK, Refresh
<1>3. session[c].email \in Accounts \cup {NoAccount}
  BY DEF SessInv, TypeOK, Stored, LoggedOut
<1>4. Renewed(c, h.given) \in Stored /\ Renewed(c, h.given).pair = h.given
  BY <1>2, <1>3 DEF Renewed, Stored
<1>5. \A g \in handlers : g.client = c => g = h
  BY <1>1, <1>2 DEF SessInv, Apart, OneEach
<1>6. TypeOK'
  <2>1. \A d \in Clients : state'[d] = "refresh" <=> \E g \in handlers' : g.client = d
    BY <1>1, <1>5 DEF SessInv, TypeOK
  <2> QED BY <1>1, <1>2, <1>4, <2>1 DEF SessInv, TypeOK
<1>7. \A d \in Clients : session'[d].pair = IF d = c THEN h.given ELSE session[d].pair
  BY <1>1, <1>4 DEF SessInv, TypeOK
<1>8. /\ \A d \in Clients : session[d].pair # h.given
      /\ \A g \in handlers : g.shown # h.given /\ (g # h => g.given # h.given)
  BY <1>1, <1>2 DEF SessInv, Apart, GivenIsFresh
<1>9. OneEach' /\ PairsApart'
  BY <1>1, <1>7, <1>8 DEF SessInv, Apart, OneEach, PairsApart
<1>10. ShownIsOwn'
  BY <1>1, <1>7, <1>8 DEF SessInv, Apart, ShownIsOwn
<1>11. GivenIsFresh'
  BY <1>1, <1>7, <1>8 DEF SessInv, Apart, GivenIsFresh
<1> QED BY <1>6, <1>9, <1>10, <1>11 DEF SessInv, Apart

LEMMA RefreshRefusedKeeps ==
  ASSUME SessInv, NEW c \in Clients, RefreshRefused(c)
  PROVE  SessInv'
<1>1. PICK h \in handlers :
        /\ h.client = c /\ h.step = "answer" /\ h.given = NoPair
        /\ handlers' = handlers \ {h}
        /\ session' = [session EXCEPT ![c] = IF c = Daemon THEN @ ELSE LoggedOut]
        /\ End(c, FALSE)
        /\ UNCHANGED <<access, refresh, logins, faults>>
  BY DEF RefreshRefused
<1>2. c # NoPair
  BY ClientsAssumption
<1>3. \A g \in handlers : g.client = c => g = h
  BY <1>1, <1>2 DEF SessInv, Apart, OneEach
<1>4. TypeOK'
  <2>1. \A d \in Clients : state'[d] = "refresh" <=> \E g \in handlers' : g.client = d
    <3>1. \A d \in Clients : state'[d] = IF d = c THEN "idle" ELSE state[d]
      BY <1>1, EndTypes DEF SessInv
    <3> QED BY <1>1, <1>3, <3>1 DEF SessInv, TypeOK
  <2>2. session' \in [Clients -> Stored \cup {LoggedOut}]
    BY <1>1 DEF SessInv, TypeOK
  <2> QED BY <1>1, <2>1, <2>2, EndTypes DEF SessInv, TypeOK
<1>5. \A d \in Clients : session'[d].pair \in {session[d].pair, NoPair}
  BY <1>1 DEF SessInv, TypeOK, LoggedOut
<1>6. \A g \in handlers : g.shown # NoPair
  BY NoneAssumption DEF SessInv, TypeOK, Refresh
<1>7. Apart'
  <2>1. OneEach' /\ PairsApart'
    BY <1>1, <1>5 DEF SessInv, Apart, OneEach, PairsApart
  <2>2. ShownIsOwn'
    BY <1>1, <1>5, <1>6 DEF SessInv, Apart, ShownIsOwn
  <2>3. GivenIsFresh'
    BY <1>1, <1>5 DEF SessInv, Apart, GivenIsFresh
  <2> QED BY <2>1, <2>2, <2>3 DEF Apart
<1> QED BY <1>4, <1>7 DEF SessInv

(* A client gives up; its refresh, if the API still has it, becomes nobody's. *)
LEMMA AbandonKeeps ==
  ASSUME SessInv, NEW c \in Clients, Abandon(c)
  PROVE  SessInv'
<1> DEFINE Left(h) == [h EXCEPT !.client = NoPair, !.gone = faults']
           Mine == {g \in handlers : g.client = c /\ g.step # "answer"}
<1>1. /\ End(c, FALSE)
      /\ handlers' = {h \in handlers : h.client # c} \cup {Left(h) : h \in Mine}
      /\ UNCHANGED <<access, refresh, session, logins>>
      /\ faults' \in 0 .. MaxFaults
  <2>1. faults' = faults + 1 /\ faults < MaxFaults /\ faults \in 0 .. MaxFaults
    BY DEF Abandon, Fault, SessInv, TypeOK
  <2>2. faults' \in 0 .. MaxFaults
    BY <2>1, BoundsAssumption
  <2> QED BY <2>2 DEF Abandon
<1>2. \A h \in Mine : /\ Left(h) \in Refresh /\ Left(h).client = NoPair
                      /\ Left(h).shown = h.shown /\ Left(h).given = h.given
                      /\ Left(h).step = h.step /\ h.given = NoPair
  <2> SUFFICES ASSUME NEW h \in Mine
               PROVE  /\ Left(h) \in Refresh /\ Left(h).client = NoPair
                      /\ Left(h).shown = h.shown /\ Left(h).given = h.given
                      /\ Left(h).step = h.step /\ h.given = NoPair
    OBVIOUS
  <2>1. h \in Refresh /\ faults' \in 0 .. MaxFaults
    BY <1>1 DEF SessInv, TypeOK
  <2>2. h.given = NoPair
    BY DEF SessInv, Apart, GivenIsFresh
  <2> QED BY <2>1, <2>2 DEF Refresh, Waiting
<1>3. \A h \in handlers' :
        \/ h \in handlers /\ h.client # c
        \/ \E g \in Mine : h = Left(g)
  BY <1>1
<1>4. \A h \in handlers : h.client # c => h \in handlers'
  BY <1>1
<1> HIDE DEF Left
<1>5. TypeOK'
  <2>1. handlers' \subseteq Refresh
    BY <1>2, <1>3 DEF SessInv, TypeOK
  <2>2. \A d \in Clients : state'[d] = "refresh" <=> \E g \in handlers' : g.client = d
    <3>1. \A d \in Clients : state'[d] = IF d = c THEN "idle" ELSE state[d]
      BY <1>1, EndTypes DEF SessInv
    <3>2. \A g \in handlers' : g.client = NoPair \/ (g \in handlers /\ g.client # c)
      BY <1>2, <1>3
    <3>3. \A d \in Clients : d # NoPair
      BY ClientsAssumption
    <3> QED BY <1>4, <3>1, <3>2, <3>3 DEF SessInv, TypeOK
  <2> QED BY <1>1, <2>1, <2>2, EndTypes DEF SessInv, TypeOK
<1>6. \A h \in handlers' : h.client # NoPair \/ h.given # NoPair => h \in handlers
  BY <1>2, <1>3
<1>7. \A h \in handlers' : \E g \in handlers : h.shown = g.shown /\ h.given = g.given
  BY <1>2, <1>3
<1>8. Apart'
  <2>1. OneEach' /\ PairsApart'
    BY <1>1, <1>6 DEF SessInv, Apart, OneEach, PairsApart
  <2>2. ShownIsOwn'
    BY <1>1, <1>6 DEF SessInv, Apart, ShownIsOwn
  <2>3. GivenIsFresh'
    <3> SUFFICES ASSUME NEW h \in handlers', h.given # NoPair
                 PROVE  /\ h.step = "answer" /\ h.client # NoPair
                        /\ \A d \in Clients : session'[d].pair # h.given
                        /\ \A g \in handlers' : g.shown # h.given /\ (g # h => g.given # h.given)
      BY DEF GivenIsFresh
    <3>1. h \in handlers
      BY <1>6
    <3>2. \A g \in handlers' : g.shown # h.given
      BY <1>7, <3>1 DEF SessInv, Apart, GivenIsFresh
    <3>3. ASSUME NEW g \in handlers', g # h PROVE g.given # h.given
      BY <1>6, <3>1, <3>3 DEF SessInv, Apart, GivenIsFresh
    <3> QED BY <1>1, <3>1, <3>2, <3>3 DEF SessInv, Apart, GivenIsFresh
  <2> QED BY <2>1, <2>2, <2>3 DEF Apart
<1> QED BY <1>5, <1>8 DEF SessInv

-----------------------------------------------------------------------------
(* The API.                                                                *)

(* A handler that moves to another statement.                              *)
LEMMA StepKeeps ==
  ASSUME SessInv, NEW h \in handlers, h.step # "answer",
         NEW s \in {"delete", "insert"}, Step(h, s),
         refresh' \subseteq refresh, UNCHANGED <<access, session, calls, logins, faults>>
  PROVE  SessInv'
<1> DEFINE n == [h EXCEPT !.step = s]
<1>1. /\ n \in Refresh /\ n.client = h.client /\ n.shown = h.shown
      /\ n.given = NoPair /\ h.given = NoPair
  BY DEF SessInv, TypeOK, Refresh, Apart, GivenIsFresh
<1>2. handlers' = (handlers \ {h}) \cup {n}
  BY DEF Step
<1> HIDE DEF n
<1>3. TypeOK'
  BY <1>1, <1>2 DEF SessInv, TypeOK, calls
<1>4. Apart'
  BY <1>1, <1>2 DEF SessInv, Apart, OneEach, PairsApart, ShownIsOwn, GivenIsFresh
<1> QED BY <1>3, <1>4 DEF SessInv

(* A handler that answers: with nothing, or with a pair nobody has.        *)
LEMMA AnswerKeeps ==
  ASSUME SessInv, NEW h \in handlers, h.step # "answer",
         NEW p \in Pairs \cup {NoPair}, Answer(h, p), p # NoPair => ~Held(p),
         access' \subseteq Pairs, refresh' \subseteq Pairs, faults' \in 0 .. MaxFaults,
         UNCHANGED <<session, calls, logins>>
  PROVE  SessInv'
<1> DEFINE n == [h EXCEPT !.step = "answer", !.given = p]
<1>1. /\ n \in Refresh /\ n.client = h.client /\ n.shown = h.shown
      /\ n.given = p /\ n.step = "answer"
  <2>1. h \in Refresh
    BY DEF SessInv, TypeOK
  <2> QED BY <2>1 DEF Refresh
<1>2. handlers' = (handlers \ {h}) \cup (IF h.client = NoPair THEN {} ELSE {n})
  BY DEF Answer
<1> HIDE DEF n
<1>3. p # NoPair => /\ \A d \in Clients : session[d].pair # p
                    /\ \A g \in handlers : g.shown # p /\ g.given # p
  BY NotHeld DEF SessInv
<1>4. TypeOK'
  <2>1. handlers' \subseteq Refresh
    BY <1>1, <1>2 DEF SessInv, TypeOK
  <2>2. \A d \in Clients : (\E g \in handlers' : g.client = d) <=> \E g \in handlers : g.client = d
    BY <1>1, <1>2, ClientsAssumption
  <2> QED BY <2>1, <2>2 DEF SessInv, TypeOK, calls
<1>5. OneEach' /\ PairsApart' /\ ShownIsOwn'
  BY <1>1, <1>2 DEF SessInv, Apart, OneEach, PairsApart, ShownIsOwn
<1>6. GivenIsFresh'
  BY <1>1, <1>2, <1>3 DEF SessInv, Apart, GivenIsFresh
<1> QED BY <1>4, <1>5, <1>6 DEF SessInv, Apart

LEMMA HandlerKeeps ==
  ASSUME SessInv, NEW h \in handlers, Handler(h) \/ HandlerError(h)
  PROVE  SessInv'
<1>1. CASE SelectToken(h)
  <2>1. CASE h.shown \in refresh
    BY <1>1, <2>1, StepKeeps DEF SelectToken
  <2>2. CASE h.shown \notin refresh
    BY <1>1, <2>2, AnswerKeeps DEF SelectToken, SessInv, TypeOK
  <2> QED BY <2>1, <2>2
<1>2. CASE DeleteToken(h)
  BY <1>2, StepKeeps DEF DeleteToken
<1>3. CASE InsertToken(h)
  <2> DEFINE p == NewPair(h.shown[1])
  <2>1. h.shown[1] \in Accounts
    BY PairsHaveAccounts DEF SessInv, TypeOK, Refresh
  <2>2. p \in Pairs /\ ~Held(p) /\ access' = access \cup {p} /\ refresh' = refresh \cup {p}
    BY <1>3, <2>1, NewPairIsUnused DEF InsertToken
  <2> HIDE DEF p
  <2>3. Answer(h, p) /\ h.step # "answer" /\ UNCHANGED <<session, calls, logins, faults>>
    BY <1>3 DEF InsertToken, p
  <2>4. access' \subseteq Pairs /\ refresh' \subseteq Pairs /\ faults' \in 0 .. MaxFaults
    BY <2>2, <2>3 DEF SessInv, TypeOK
  <2> QED BY <2>2, <2>3, <2>4, AnswerKeeps
<1>4. CASE HandlerError(h)
  <2>1. faults' \in 0 .. MaxFaults
    BY <1>4, BoundsAssumption DEF HandlerError, Fault, SessInv, TypeOK
  <2> QED BY <1>4, <2>1, AnswerKeeps DEF HandlerError, SessInv, TypeOK
<1> QED BY <1>1, <1>2, <1>3, <1>4 DEF Handler

LEMMA ExpiryKeeps ==
  ASSUME SessInv, NEW p \in Pairs, AccessExpires(p) \/ RefreshExpires(p)
  PROVE  SessInv'
<1>1. /\ access' \subseteq access /\ refresh' \subseteq refresh
      /\ UNCHANGED <<handlers, session, calls, logins>> /\ faults' \in 0 .. MaxFaults
  BY BoundsAssumption DEF AccessExpires, RefreshExpires, Fault, SessInv, TypeOK
<1>2. TypeOK'
  BY <1>1 DEF SessInv, TypeOK, calls
<1>3. Apart'
  BY <1>1 DEF SessInv, Apart, OneEach, PairsApart, ShownIsOwn, GivenIsFresh
<1> QED BY <1>2, <1>3 DEF SessInv

LEMMA SessInvNext ==
  SessInv /\ [Next]_vars => SessInv'
<1> SUFFICES ASSUME SessInv, [Next]_vars PROVE SessInv'
  OBVIOUS
<1>1. CASE Skip \/ UNCHANGED vars
  BY <1>1 DEF Skip, vars, SessInv, TypeOK, Apart, OneEach, PairsApart, ShownIsOwn, GivenIsFresh
<1>2. ASSUME NEW c \in Clients, User(c) \/ Call(c) \/ Answered(c) \/ Abandon(c) PROVE SessInv'
  BY <1>2, LoginKeeps, LogoutKeeps, CallKeeps, UnauthorizedKeeps, RefreshedKeeps,
     RefreshRefusedKeeps, AbandonKeeps DEF User, Answered
<1>3. ASSUME NEW h \in handlers, Handler(h) \/ HandlerError(h) PROVE SessInv'
  BY <1>3, HandlerKeeps
<1>4. ASSUME NEW p \in Pairs, AccessExpires(p) \/ RefreshExpires(p) PROVE SessInv'
  BY <1>4, ExpiryKeeps
<1> QED BY <1>1, <1>2, <1>3, <1>4 DEF Next

(* Types hold, and tokens are nobody else's, in every state.               *)
THEOREM SessionInvariant == Spec => []SessInv
BY SessInvInit, SessInvNext, PTL DEF Spec

(* Every variable keeps to its type, and a client waits for a refresh just *)
(* as long as the API has one of its own in service.                       *)
THEOREM SessionTypeCorrect == Spec => []TypeOK
<1>1. SessInv => TypeOK
  BY DEF SessInv
<1> QED BY <1>1, SessionInvariant, PTL

-----------------------------------------------------------------------------
(* The e-mail the daemon shows.                                            *)

LEMMA EmailNext ==
  ASSUME SessInv, DaemonEmailIsTrue, [Next]_vars
  PROVE  DaemonEmailIsTrue'
<1> USE DEF DaemonEmailIsTrue
<1>1. CASE UNCHANGED session
  BY <1>1
<1>2. ASSUME NEW c \in Clients, NEW a \in Accounts, Login(c, a) PROVE DaemonEmailIsTrue'
  <2>1. NewPair(a)[1] = a
    BY <1>2, NewPairIsUnused DEF Login
  <2>2. session' = [session EXCEPT ![c] = [pair |-> NewPair(a), email |-> a, api_url |-> TRUE]]
    BY <1>2 DEF Login
  <2> QED BY <2>1, <2>2 DEF SessInv, TypeOK, Clients
<1>3. ASSUME NEW c \in Clients, NEW s, s.email = NoAccount \/ c # Daemon,
             session' = [session EXCEPT ![c] = s]
      PROVE  DaemonEmailIsTrue'
  BY <1>3 DEF SessInv, TypeOK, Clients
<1>4. ASSUME NEW c \in Clients, Logout(c) PROVE DaemonEmailIsTrue'
  BY <1>3, <1>4 DEF Logout, LoggedOut
<1>5. ASSUME NEW c \in Clients, Refreshed(c) PROVE DaemonEmailIsTrue'
  <2>1. PICK p : session' = [session EXCEPT ![c] = Renewed(c, p)]
    BY <1>5 DEF Refreshed
  <2>2. c = Daemon => Renewed(c, p).email = NoAccount
    BY DEF Renewed
  <2> QED BY <1>3, <2>1, <2>2
<1>6. ASSUME NEW c \in Clients, RefreshRefused(c) PROVE DaemonEmailIsTrue'
  BY <1>6 DEF RefreshRefused, SessInv, TypeOK, Clients
<1> QED BY <1>1, <1>2, <1>4, <1>5, <1>6 DEF Next, vars, Skip, User, Answered, Call, Served,
     Retry, NotServed, Unauthorized, Abandon, Handler, HandlerError, SelectToken, DeleteToken,
     InsertToken, AccessExpires, RefreshExpires

(* `remind status` never shows one account's e-mail while the daemon syncs *)
(* as another, whichever login or logout falls into a refresh.             *)
THEOREM EmailIsTheDaemons == Spec => []DaemonEmailIsTrue
<1>1. Init => DaemonEmailIsTrue
  BY DEF Init, DaemonEmailIsTrue, LoggedOut, Clients
<1>2. SessInv /\ DaemonEmailIsTrue /\ [Next]_vars => DaemonEmailIsTrue'
  BY EmailNext
<1> QED BY <1>1, <1>2, SessionInvariant, PTL DEF Spec

-----------------------------------------------------------------------------
(* Sessions that stay alive.                                               *)

(* While nothing failed: whoever refreshes waits for it, and what is given *)
(* is good.                                                                *)
Calm ==
  faults = 0 =>
    /\ \A h \in handlers : h.client # NoPair /\ (h.given # NoPair => h.given \in refresh)
    /\ SessionsStayAlive

(* The refresh that renews c's stored pair.                                *)
Renews(h, c) ==
  /\ h \in handlers
  /\ h.client = c
  /\ h.shown = session[c].pair
  /\ h.step = "insert" \/ h.given # NoPair

LEMMA AliveIs ==
  ASSUME NEW c \in Clients
  PROVE  Alive(c) <=> /\ session[c] # LoggedOut
                      /\ session[c].pair \in refresh \/ \E h \in handlers : Renews(h, c)
BY DEF Alive, Renews

(* A step that keeps good tokens, sessions and renewals keeps Calm.        *)
LEMMA CalmKept ==
  ASSUME Calm, faults' = 0 => faults = 0, UNCHANGED session, refresh \subseteq refresh',
         \A h \in handlers : \A c \in Clients : Renews(h, c) => \E g \in handlers' : Renews(g, c)',
         \A h \in handlers' : h.client # NoPair \/ faults # 0,
         \A h \in handlers' : h.given # NoPair =>
            h.given \in refresh' \/ \E g \in handlers : g.given = h.given
  PROVE  Calm'
<1> SUFFICES ASSUME faults' = 0
             PROVE  /\ \A h \in handlers' :
                         h.client # NoPair /\ (h.given # NoPair => h.given \in refresh')
                    /\ SessionsStayAlive'
  BY DEF Calm
<1>1. \A h \in handlers : h.given # NoPair => h.given \in refresh
  BY DEF Calm
<1>2. ASSUME NEW h \in handlers' PROVE h.client # NoPair /\ (h.given # NoPair => h.given \in refresh')
  BY <1>1
<1>3. ASSUME NEW c \in Clients, session'[c] # LoggedOut PROVE Alive(c)'
  <2>1. Alive(c)
    BY <1>3 DEF Calm, SessionsStayAlive
  <2>2. session[c].pair \in refresh \/ \E h \in handlers : Renews(h, c)
    BY <2>1, AliveIs
  <2>3. session'[c].pair \in refresh' \/ \E h \in handlers' : Renews(h, c)'
    BY <2>2
  <2> QED BY <1>3, <2>3 DEF Alive, Renews
<1> QED BY <1>2, <1>3 DEF SessionsStayAlive

(* A step that gives the sessions it changes a good token, or none.        *)
LEMMA CalmRenewed ==
  ASSUME Calm, faults' = 0 => faults = 0, NEW c \in Clients,
         refresh \subseteq refresh',
         handlers' \subseteq handlers,
         \A h \in handlers : h.client # c => h \in handlers',
         \A d \in Clients : d # c => session'[d] = session[d],
         session'[c] = LoggedOut \/ session'[c].pair \in refresh' \/ Alive(c)'
  PROVE  Calm'
<1> SUFFICES ASSUME faults' = 0
             PROVE  /\ \A h \in handlers' :
                         h.client # NoPair /\ (h.given # NoPair => h.given \in refresh')
                    /\ SessionsStayAlive'
  BY DEF Calm
<1>1. \A h \in handlers' : h.client # NoPair /\ (h.given # NoPair => h.given \in refresh')
  BY DEF Calm
<1>2. ASSUME NEW d \in Clients, session'[d] # LoggedOut, d # c PROVE Alive(d)'
  <2>1. Alive(d)
    BY <1>2 DEF Calm, SessionsStayAlive
  <2>2. session[d].pair \in refresh \/ \E h \in handlers : Renews(h, d)
    BY <2>1, AliveIs
  <2>3. \A h \in handlers : Renews(h, d) => Renews(h, d)'
    BY <1>2 DEF Renews
  <2> QED BY <1>2, <2>2, <2>3 DEF Alive, Renews
<1>3. session'[c] # LoggedOut => Alive(c)'
  BY DEF Alive
<1> QED BY <1>1, <1>2, <1>3 DEF SessionsStayAlive

LEMMA CalmUser ==
  ASSUME SessInv, Calm, NEW c \in Clients, User(c)
  PROVE  Calm'
<1>1. CASE Logout(c)
  BY <1>1, CalmRenewed DEF Logout, api, SessInv, TypeOK
<1>2. ASSUME NEW a \in Accounts, Login(c, a) PROVE Calm'
  <2> DEFINE s == [pair |-> NewPair(a), email |-> a, api_url |-> TRUE]
  <2>1. refresh' = refresh \cup {s.pair}
    BY <1>2, NewPairIsUnused DEF Login
  <2>2. session' = [session EXCEPT ![c] = s] /\ UNCHANGED <<handlers, faults>>
    BY <1>2 DEF Login
  <2> HIDE DEF s
  <2>3. session'[c] = s /\ \A d \in Clients : d # c => session'[d] = session[d]
    BY <2>2 DEF SessInv, TypeOK
  <2> QED BY <2>1, <2>2, <2>3, CalmRenewed
<1> QED BY <1>1, <1>2 DEF User

LEMMA CalmAnswered ==
  ASSUME SessInv, Calm, NEW c \in Clients, Call(c) \/ Answered(c) \/ Abandon(c)
  PROVE  Calm'
<1>1. CASE Call(c) \/ Served(c) \/ NotServed(c) \/ Retry(c)
  <2>1. UNCHANGED <<refresh, handlers, session, faults>>
    BY <1>1 DEF Call, Served, NotServed, Retry, api
  <2>2. \A h \in handlers : \A d \in Clients : Renews(h, d) => Renews(h, d)'
    BY <2>1 DEF Renews
  <2>3. \A h \in handlers : h.client # NoPair \/ faults # 0
    BY DEF Calm
  <2> QED BY <2>1, <2>2, <2>3, CalmKept
<1>2. CASE Unauthorized(c)
  <2> DEFINE n == [client |-> c, shown |-> session[c].pair, step |-> "select",
                   given |-> NoPair, gone |-> 0]
  <2>1. handlers' = handlers \cup {n} /\ UNCHANGED <<refresh, session, faults>>
    BY <1>2 DEF Unauthorized
  <2>2. n.client # NoPair /\ n.given = NoPair
    BY ClientsAssumption
  <2> HIDE DEF n
  <2>3. \A h \in handlers : \A d \in Clients : Renews(h, d) => Renews(h, d)'
    BY <2>1 DEF Renews
  <2>4. \A h \in handlers' : h.client # NoPair \/ faults # 0
    BY <2>1, <2>2 DEF Calm
  <2>5. \A h \in handlers' :
          h.given # NoPair => h.given \in refresh' \/ \E g \in handlers : g.given = h.given
    BY <2>1, <2>2
  <2>6. \A h \in handlers : \A d \in Clients : Renews(h, d) => \E g \in handlers' : Renews(g, d)'
    BY <2>1, <2>3
  <2> QED BY <2>1, <2>4, <2>5, <2>6, CalmKept
<1>3. CASE Refreshed(c)
  <2>1. PICK h \in handlers :
          /\ h.client = c /\ h.given # NoPair
          /\ handlers' = handlers \ {h}
          /\ session' = [session EXCEPT ![c] = Renewed(c, h.given)]
          /\ UNCHANGED <<refresh, faults>>
    BY <1>3 DEF Refreshed
  <2>2. session'[c].pair = h.given /\ \A d \in Clients : d # c => session'[d] = session[d]
    BY <2>1 DEF SessInv, TypeOK, Renewed
  <2>3. CASE faults = 0
    BY <2>1, <2>2, <2>3, CalmRenewed DEF Calm
  <2>4. CASE faults # 0
    BY <2>1, <2>4 DEF Calm
  <2> QED BY <2>3, <2>4
<1>4. CASE RefreshRefused(c)
  <2>1. PICK h \in handlers :
          /\ h.client = c /\ h.given = NoPair /\ h.step = "answer"
          /\ handlers' = handlers \ {h}
          /\ session' = [session EXCEPT ![c] = IF c = Daemon THEN @ ELSE LoggedOut]
          /\ UNCHANGED <<refresh, faults>>
    BY <1>4 DEF RefreshRefused
  <2>2. session'[c] \in {LoggedOut, session[c]} /\ \A d \in Clients : d # c => session'[d] = session[d]
    BY <2>1 DEF SessInv, TypeOK
  <2>3. \A g \in handlers : ~Renews(g, c)
    BY <2>1, ClientsAssumption DEF SessInv, Apart, OneEach, Renews
  <2>4. CASE faults = 0 /\ session[c] # LoggedOut
    <3>1. session[c].pair \in refresh
      BY <2>3, <2>4, AliveIs DEF Calm, SessionsStayAlive
    <3> QED BY <2>1, <2>2, <3>1, CalmRenewed
  <2>5. CASE session[c] = LoggedOut
    BY <2>1, <2>2, <2>5, CalmRenewed
  <2>6. CASE faults # 0
    BY <2>1, <2>6 DEF Calm
  <2> QED BY <2>4, <2>5, <2>6
<1>5. CASE Abandon(c)
  <2>1. faults' = faults + 1 /\ faults \in 0 .. MaxFaults
    BY <1>5 DEF Abandon, Fault, SessInv, TypeOK
  <2>2. faults' # 0
    BY <2>1
  <2> QED BY <2>2 DEF Calm
<1> QED BY <1>1, <1>2, <1>3, <1>4, <1>5 DEF Answered

LEMMA CalmHandler ==
  ASSUME SessInv, Calm, NEW h \in handlers, Handler(h) \/ HandlerError(h)
  PROVE  Calm'
<1>0. CASE faults # 0
  <2>1. faults' \in {faults, faults + 1} /\ faults \in 0 .. MaxFaults
    BY DEF SessInv, TypeOK, Handler, HandlerError, SelectToken, DeleteToken, InsertToken, Fault
  <2>2. faults' # 0
    BY <1>0, <2>1
  <2> QED BY <2>2 DEF Calm
<1>1. ASSUME faults = 0, h.step # "answer", NEW n, handlers' = (handlers \ {h}) \cup {n},
             n.client = h.client, n.shown = h.shown,
             n.given # NoPair => n.given \in refresh',
             h.step = "insert" => n.given # NoPair,
             refresh \subseteq refresh', UNCHANGED <<session, faults>>
      PROVE  Calm'
  <2>1. h.given = NoPair
    BY <1>1 DEF SessInv, Apart, GivenIsFresh
  <2>2. \A g \in handlers, d \in Clients : Renews(g, d) => \E k \in handlers' : Renews(k, d)'
    BY <1>1, <2>1 DEF Renews
  <2>3. \A g \in handlers' : g.client # NoPair \/ faults # 0
    BY <1>1 DEF Calm
  <2>4. \A g \in handlers' :
          g.given # NoPair => g.given \in refresh' \/ \E k \in handlers : k.given = g.given
    BY <1>1
  <2> QED BY <1>1, <2>2, <2>3, <2>4, CalmKept
<1>2. ASSUME faults = 0 PROVE h.client # NoPair /\ h \in Refresh
  BY <1>2 DEF Calm, SessInv, TypeOK
<1>3. CASE faults = 0 /\ SelectToken(h)
  <2> DEFINE n == IF h.shown \in refresh THEN [h EXCEPT !.step = "delete"]
                  ELSE [h EXCEPT !.step = "answer", !.given = NoPair]
  <2>1. handlers' = (handlers \ {h}) \cup {n} /\ UNCHANGED <<refresh, session, faults>>
        /\ h.step = "select"
    BY <1>2, <1>3 DEF SelectToken, Step, Answer
  <2>2. n.client = h.client /\ n.shown = h.shown /\ n.given = NoPair
    BY <1>2, <1>3, <2>1 DEF Refresh, SessInv, Apart, GivenIsFresh
  <2> HIDE DEF n
  <2> QED BY <1>1, <1>3, <2>1, <2>2
<1>4. CASE faults = 0 /\ InsertToken(h)
  <2> DEFINE p == NewPair(h.shown[1])
             n == [h EXCEPT !.step = "answer", !.given = p]
  <2>1. h.shown[1] \in Accounts
    BY PairsHaveAccounts DEF SessInv, TypeOK, Refresh
  <2>2. p # NoPair /\ refresh' = refresh \cup {p}
    BY <1>4, <2>1, NewPairIsUnused DEF InsertToken
  <2>3. handlers' = (handlers \ {h}) \cup {n} /\ UNCHANGED <<session, faults>> /\ h.step = "insert"
    BY <1>2, <1>4 DEF InsertToken, Answer
  <2>4. n.client = h.client /\ n.shown = h.shown /\ n.given = p
    BY <1>2, <1>4 DEF Refresh
  <2> HIDE DEF n, p
  <2> QED BY <1>1, <1>4, <2>2, <2>3, <2>4
<1>5. CASE faults = 0 /\ DeleteToken(h)
  <2> DEFINE n == [h EXCEPT !.step = "insert"]
  <2>1. handlers' = (handlers \ {h}) \cup {n} /\ refresh' = refresh \ {h.shown}
        /\ UNCHANGED <<session, faults>> /\ h.step = "delete"
    BY <1>5 DEF DeleteToken, Step
  <2>2. n.client = h.client /\ n.shown = h.shown /\ n.given = NoPair /\ n.step = "insert"
        /\ h.given = NoPair
    BY <1>2, <1>5, <2>1 DEF Refresh, SessInv, Apart, GivenIsFresh
  <2> HIDE DEF n
  <2>3. \A g \in handlers' : g.client # NoPair /\ (g.given # NoPair => g.given \in refresh')
    BY <1>2, <1>5, <2>1, <2>2 DEF Calm, SessInv, Apart, GivenIsFresh
  <2>4. ASSUME NEW c \in Clients, session[c] # LoggedOut PROVE Alive(c)'
    <3>1. session[c].pair \in refresh \/ \E g \in handlers : Renews(g, c)
      BY <1>5, <2>4, AliveIs DEF Calm, SessionsStayAlive
    <3>2. CASE h.shown = session[c].pair
      <4>1. h.client = c
        BY <1>2, <1>5, <3>2 DEF SessInv, Apart, ShownIsOwn
      <4> QED BY <2>1, <2>2, <2>4, <3>2, <4>1 DEF Alive
    <3>3. CASE h.shown # session[c].pair
      <4>1. \A g \in handlers : Renews(g, c) => Renews(g, c)'
        BY <2>1, <3>3 DEF Renews
      <4> QED BY <2>1, <2>4, <3>1, <3>3, <4>1 DEF Alive, Renews
    <3> QED BY <3>2, <3>3
  <2> QED BY <2>1, <2>3, <2>4 DEF Calm, SessionsStayAlive
<1>6. CASE HandlerError(h)
  <2>1. faults' = faults + 1 /\ faults \in 0 .. MaxFaults
    BY <1>6 DEF HandlerError, Fault, SessInv, TypeOK
  <2>2. faults' # 0
    BY <2>1
  <2> QED BY <2>2 DEF Calm
<1> QED BY <1>0, <1>3, <1>4, <1>5, <1>6 DEF Handler

LEMMA CalmExpiry ==
  ASSUME SessInv, Calm, NEW p \in Pairs, AccessExpires(p) \/ RefreshExpires(p)
  PROVE  Calm'
<1>1. UNCHANGED <<handlers, session>>
  BY DEF AccessExpires, RefreshExpires
<1>2. CASE AccessExpires(p)
  BY <1>1, <1>2 DEF AccessExpires, Calm, SessionsStayAlive, Alive
<1>3. CASE RefreshExpires(p) /\ Held(p)
  <2>1. faults' = faults + 1 /\ faults \in 0 .. MaxFaults
    BY <1>3 DEF RefreshExpires, Fault, SessInv, TypeOK
  <2>2. faults' # 0
    BY <2>1
  <2> QED BY <2>2 DEF Calm
<1>4. CASE RefreshExpires(p) /\ ~Held(p)
  <2>1. refresh' = refresh \ {p} /\ UNCHANGED faults
    BY <1>4 DEF RefreshExpires
  <2>2. (\A c \in Clients : session[c].pair # p) /\ \A h \in handlers : h.given # p
    BY <1>4, NotHeld DEF SessInv
  <2> QED BY <1>1, <2>1, <2>2 DEF Calm, SessionsStayAlive, Alive
<1> QED BY <1>2, <1>3, <1>4

LEMMA CalmNext ==
  SessInv /\ Calm /\ [Next]_vars => Calm'
<1> SUFFICES ASSUME SessInv, Calm, [Next]_vars PROVE Calm'
  OBVIOUS
<1>1. CASE Skip \/ UNCHANGED vars
  BY <1>1 DEF Skip, vars, Calm, SessionsStayAlive, Alive
<1> QED BY <1>1, CalmUser, CalmAnswered, CalmHandler, CalmExpiry DEF Next

(* Rotation ends no session by itself: without a fault, whatever logins    *)
(* and logouts fall into a refresh, whoever has a token stored has a good  *)
(* one or is being given another.                                          *)
THEOREM RotationEndsNoSession == Spec => []SessionsStayAlive
<1>1. Init => Calm
  BY DEF Init, Calm, SessionsStayAlive
<1>2. SessInv /\ Calm => SessionsStayAlive
  BY DEF Calm, SessionsStayAlive
<1> QED BY <1>1, <1>2, CalmNext, SessionInvariant, PTL DEF Spec

-----------------------------------------------------------------------------
(* Sessions that do not multiply.                                          *)

(* A refresh that may still issue a token: it has taken one out of         *)
(* refresh_tokens, or has found it there and is about to.                  *)
IsBusy(h) == h.step \in {"delete", "insert"} \/ (h.step = "select" /\ h.shown \in refresh)

Busy == {h \in handlers : IsBusy(h)}

Promised(p) == \E g \in handlers : IsBusy(g) /\ g.client # NoPair /\ g.shown = p

(* Good tokens that no refresh somebody waits for will exchange.           *)
Spare == {p \in refresh : ~Promised(p)}

(* The token a refresh has deleted is not there again.                     *)
Spent == \A h \in handlers : h.step = "insert" => h.shown \notin refresh

(* Each login and each fault pays for one of them.                         *)
Budget ==
  /\ IsFiniteSet(refresh) /\ IsFiniteSet(handlers)
  /\ Spent
  /\ Cardinality(Spare) + Cardinality(Busy) <= logins + faults

LEMMA CardSub ==
  ASSUME NEW S, IsFiniteSet(S), NEW T, T \subseteq S
  PROVE  IsFiniteSet(T) /\ Cardinality(T) \in Nat /\ Cardinality(T) <= Cardinality(S)
BY FS_Subset, FS_CardinalityType

LEMMA CardAdd ==
  ASSUME NEW S, IsFiniteSet(S), NEW x, NEW T, T \subseteq S \cup {x}
  PROVE  IsFiniteSet(T) /\ Cardinality(T) \in Nat /\ Cardinality(T) <= Cardinality(S) + 1
<1>1. IsFiniteSet(S \cup {x}) /\ Cardinality(S \cup {x}) <= Cardinality(S) + 1
      /\ Cardinality(S) \in Nat /\ Cardinality(S \cup {x}) \in Nat
  BY FS_AddElement, FS_CardinalityType
<1>2. IsFiniteSet(T) /\ Cardinality(T) \in Nat /\ Cardinality(T) <= Cardinality(S \cup {x})
  BY <1>1, CardSub
<1> QED BY <1>1, <1>2

LEMMA CardDrop ==
  ASSUME NEW S, IsFiniteSet(S), NEW x \in S, NEW T, T \subseteq S \ {x}
  PROVE  IsFiniteSet(T) /\ Cardinality(T) \in Nat /\ Cardinality(T) <= Cardinality(S) - 1
<1>1. IsFiniteSet(S \ {x}) /\ Cardinality(S \ {x}) = Cardinality(S) - 1
  BY FS_RemoveElement
<1>2. IsFiniteSet(T) /\ Cardinality(T) \in Nat /\ Cardinality(T) <= Cardinality(S \ {x})
  BY <1>1, CardSub
<1> QED BY <1>1, <1>2

LEMMA CardSwap ==
  ASSUME NEW S, IsFiniteSet(S), NEW x \in S, NEW y, NEW T, T \subseteq (S \ {x}) \cup {y}
  PROVE  IsFiniteSet(T) /\ Cardinality(T) \in Nat /\ Cardinality(T) <= Cardinality(S)
<1>1. IsFiniteSet(S \ {x}) /\ Cardinality(S \ {x}) = Cardinality(S) - 1 /\ Cardinality(S) \in Nat
  BY FS_RemoveElement, FS_CardinalityType
<1>2. IsFiniteSet(T) /\ Cardinality(T) \in Nat /\ Cardinality(T) <= Cardinality(S \ {x}) + 1
  BY <1>1, CardAdd
<1> QED BY <1>1, <1>2

LEMMA CardFinite ==
  ASSUME NEW S, IsFiniteSet(S), NEW x, NEW y
  PROVE  IsFiniteSet(S \ {x}) /\ IsFiniteSet((S \ {x}) \cup {y})
<1>1. IsFiniteSet(S \ {x})
  BY FS_RemoveElement
<1>2. IsFiniteSet((S \ {x}) \cup {y})
  BY <1>1, FS_AddElement
<1> QED BY <1>1, <1>2

LEMMA BudgetTypes ==
  ASSUME SessInv, Budget
  PROVE  /\ IsFiniteSet(Spare) /\ IsFiniteSet(Busy)
         /\ Cardinality(Spare) \in Nat /\ Cardinality(Busy) \in Nat
         /\ logins \in Nat /\ faults \in Nat
BY CardSub, BoundsAssumption DEF Budget, Spare, Busy, SessInv, TypeOK

(* Nothing is gained unless it is paid for.                                *)
LEMMA BudgetSame ==
  ASSUME SessInv, SessInv', Budget, Spare' \subseteq Spare, Busy' \subseteq Busy,
         IsFiniteSet(refresh'), IsFiniteSet(handlers'), Spent',
         logins' + faults' >= logins + faults
  PROVE  Budget'
<1>1. logins' \in Nat /\ faults' \in Nat
  BY BoundsAssumption DEF SessInv, TypeOK
<1>2. /\ Cardinality(Spare') \in Nat /\ Cardinality(Spare') <= Cardinality(Spare)
      /\ Cardinality(Busy') \in Nat /\ Cardinality(Busy') <= Cardinality(Busy)
  BY BudgetTypes, CardSub
<1>3. Cardinality(Spare') + Cardinality(Busy') <= logins' + faults'
  BY <1>1, <1>2, BudgetTypes DEF Budget
<1> QED BY <1>3 DEF Budget

LEMMA BudgetSpent ==
  ASSUME SessInv, SessInv', Budget, NEW p, Spare' \subseteq Spare \cup {p},
         \/ Busy' \subseteq Busy
         \/ \E h \in Busy : \E n : Busy' \subseteq (Busy \ {h}) \cup {n},
         IsFiniteSet(refresh'), IsFiniteSet(handlers'), Spent',
         logins' + faults' = logins + faults + 1
  PROVE  Budget'
<1>1. logins' \in Nat /\ faults' \in Nat
  BY BoundsAssumption DEF SessInv, TypeOK
<1>2. Cardinality(Spare') \in Nat /\ Cardinality(Spare') <= Cardinality(Spare) + 1
  BY BudgetTypes, CardAdd
<1>3. Cardinality(Busy') \in Nat /\ Cardinality(Busy') <= Cardinality(Busy)
  BY BudgetTypes, CardSub, CardSwap
<1>4. Cardinality(Spare') + Cardinality(Busy') <= logins' + faults'
  BY <1>1, <1>2, <1>3, BudgetTypes DEF Budget
<1> QED BY <1>4 DEF Budget

LEMMA BudgetSwapped ==
  ASSUME SessInv, SessInv', Budget, Spare' \subseteq Spare,
         NEW h \in Busy, NEW n, Busy' \subseteq (Busy \ {h}) \cup {n},
         IsFiniteSet(refresh'), IsFiniteSet(handlers'), Spent',
         UNCHANGED <<logins, faults>>
  PROVE  Budget'
<1>1. Cardinality(Spare') \in Nat /\ Cardinality(Spare') <= Cardinality(Spare)
  BY BudgetTypes, CardSub
<1>2. Cardinality(Busy') \in Nat /\ Cardinality(Busy') <= Cardinality(Busy)
  BY BudgetTypes, CardSwap
<1>3. Cardinality(Spare') + Cardinality(Busy') <= logins' + faults'
  BY <1>1, <1>2, BudgetTypes DEF Budget
<1> QED BY <1>3 DEF Budget

LEMMA BudgetInit == Init => Budget
<1> SUFFICES ASSUME Init PROVE Budget
  OBVIOUS
<1>1. Spare = {} /\ Busy = {}
  BY DEF Init, Spare, Busy
<1>2. Cardinality(Spare) + Cardinality(Busy) <= logins + faults
  BY <1>1, FS_EmptySet DEF Init
<1> QED BY <1>2, FS_EmptySet DEF Init, Budget, Spent

LEMMA BudgetLogin ==
  ASSUME SessInv, SessInv', Budget, NEW c \in Clients, NEW a \in Accounts, Login(c, a)
  PROVE  Budget'
<1> DEFINE p == NewPair(a)
<1>1. ~Held(p) /\ refresh' = refresh \cup {p}
  BY NewPairIsUnused DEF Login
<1> HIDE DEF p
<1>2. UNCHANGED <<handlers, faults>> /\ logins' = logins + 1
  BY DEF Login
<1>3. \A h \in handlers : h.shown # p
  BY <1>1, NotHeld DEF SessInv
<1>4. \A h \in handlers : IsBusy(h)' <=> IsBusy(h)
  BY <1>1, <1>3 DEF IsBusy
<1>5. Busy' \subseteq Busy /\ Spare' \subseteq Spare \cup {p} /\ Spent'
  BY <1>1, <1>2, <1>3, <1>4 DEF Busy, Spare, Promised, Budget, Spent
<1>6. IsFiniteSet(refresh') /\ IsFiniteSet(handlers')
  BY <1>1, <1>2, FS_AddElement DEF Budget
<1>7. logins' + faults' = logins + faults + 1
  BY <1>2, BudgetTypes
<1> QED BY <1>5, <1>6, <1>7, BudgetSpent

LEMMA BudgetUnauthorized ==
  ASSUME SessInv, SessInv', Budget, NEW c \in Clients, Unauthorized(c)
  PROVE  Budget'
<1>1. PICK n : /\ n = [client |-> c, shown |-> session[c].pair, step |-> "select",
                      given |-> NoPair, gone |-> 0]
               /\ handlers' = handlers \cup {n} /\ UNCHANGED <<refresh, logins, faults>>
  BY DEF Unauthorized
<1>2. n.client = c /\ n.shown = session[c].pair /\ n.step = "select" /\ c # NoPair
  BY <1>1, ClientsAssumption
<1>3. Spent' /\ IsFiniteSet(refresh') /\ IsFiniteSet(handlers')
  BY <1>1, <1>2, FS_AddElement DEF Budget, Spent
<1>4. \A h \in handlers : IsBusy(h)' <=> IsBusy(h)
  BY <1>1 DEF IsBusy
<1>5. Spare' \subseteq Spare
  BY <1>1, <1>4 DEF Spare, Promised
<1>6. CASE n.shown \notin refresh
  <2>1. Busy' \subseteq Busy
    BY <1>1, <1>2, <1>4, <1>6 DEF Busy, IsBusy
  <2> QED BY <1>1, <1>3, <1>5, <2>1, BudgetSame, BudgetTypes
<1>7. CASE n.shown \in refresh
  <2>1. \A h \in handlers : h.client # NoPair => h.shown # n.shown
    BY <1>2 DEF SessInv, TypeOK, Apart, ShownIsOwn, Unauthorized
  <2>2. n.shown \in Spare
    BY <1>7, <2>1 DEF Spare, Promised
  <2>3. n \in handlers' /\ IsBusy(n)'
    BY <1>1, <1>2, <1>7 DEF IsBusy
  <2>4. Spare' \subseteq Spare \ {n.shown}
    BY <1>2, <1>5, <2>3 DEF Spare, Promised
  <2>5. Busy' \subseteq Busy \cup {n}
    BY <1>1, <1>4 DEF Busy
  <2>6. IsFiniteSet(Spare) /\ IsFiniteSet(Busy)
    BY BudgetTypes
  <2>7. Cardinality(Spare') \in Nat /\ Cardinality(Spare') <= Cardinality(Spare) - 1
    BY <2>2, <2>4, <2>6, CardDrop
  <2>8. Cardinality(Busy') \in Nat /\ Cardinality(Busy') <= Cardinality(Busy) + 1
    BY <2>5, <2>6, CardAdd
  <2>9. Cardinality(Spare') + Cardinality(Busy') <= logins' + faults'
    BY <1>1, <2>7, <2>8, BudgetTypes DEF Budget
  <2> QED BY <1>3, <2>9 DEF Budget
<1> QED BY <1>6, <1>7

LEMMA BudgetAnswered ==
  ASSUME SessInv, SessInv', Budget, NEW c \in Clients, Refreshed(c) \/ RefreshRefused(c)
  PROVE  Budget'
<1>1. PICK h \in handlers : h.step = "answer" /\ handlers' = handlers \ {h}
                            /\ UNCHANGED <<refresh, logins, faults>>
  BY DEF Refreshed, RefreshRefused
<1>2. \A g \in handlers : IsBusy(g)' <=> IsBusy(g)
  BY <1>1 DEF IsBusy
<1>3. ~IsBusy(h)
  BY <1>1 DEF IsBusy
<1>4. Busy' \subseteq Busy
  BY <1>1, <1>2 DEF Busy
<1>5. Spare' \subseteq Spare
  BY <1>1, <1>2, <1>3 DEF Spare, Promised
<1>6. Spent' /\ IsFiniteSet(refresh') /\ IsFiniteSet(handlers')
  BY <1>1, FS_RemoveElement DEF Budget, Spent
<1> QED BY <1>1, <1>4, <1>5, <1>6, BudgetSame, BudgetTypes

LEMMA BudgetAbandon ==
  ASSUME SessInv, SessInv', Budget, NEW c \in Clients, Abandon(c)
  PROVE  Budget'
<1> DEFINE Left(h) == [h EXCEPT !.client = NoPair, !.gone = faults']
           Mine == {g \in handlers : g.client = c /\ g.step # "answer"}
<1>1. /\ handlers' = {h \in handlers : h.client # c} \cup {Left(h) : h \in Mine}
      /\ UNCHANGED <<refresh, logins>> /\ faults' = faults + 1
  BY DEF Abandon, Fault
<1>2. \A g \in handlers : IsBusy(g)' <=> IsBusy(g)
  BY <1>1 DEF IsBusy
<1>3. logins' + faults' = logins + faults + 1
  <2>1. logins' = logins /\ faults' = faults + 1
    BY <1>1
  <2> QED BY <2>1, BudgetTypes
<1>4. c # NoPair
  BY ClientsAssumption
<1>5. CASE Mine = {}
  <2>1. handlers' = {h \in handlers : h.client # c}
    BY <1>1, <1>5
  <2>2. \A h \in handlers : h.client = c => ~IsBusy(h)
    BY <1>5 DEF IsBusy
  <2>3. Busy' \subseteq Busy /\ Spare' \subseteq Spare /\ Spent'
    BY <1>1, <1>2, <2>1, <2>2 DEF Busy, Spare, Promised, Budget, Spent
  <2>4. IsFiniteSet(refresh') /\ IsFiniteSet(handlers')
    BY <1>1, <2>1, CardSub DEF Budget
  <2> QED BY <1>3, <2>3, <2>4, BudgetSpent
<1>6. CASE Mine # {}
  <2>1. PICK h : h \in Mine
    BY <1>6
  <2>2. \A g \in handlers : g.client = c => g = h
    BY <1>4, <2>1 DEF SessInv, Apart, OneEach
  <2>3. PICK n : n = Left(h)
    OBVIOUS
  <2>4. handlers' = (handlers \ {h}) \cup {n}
    BY <1>1, <2>1, <2>2, <2>3
  <2>5. h \in Refresh
    BY <2>1 DEF SessInv, TypeOK
  <2>6. n.shown = h.shown /\ n.step = h.step
    BY <2>3, <2>5 DEF Refresh
  <2>7. IsBusy(n)' <=> IsBusy(h)
    BY <1>1, <2>6 DEF IsBusy
  <2>8. \/ Busy' \subseteq Busy
        \/ \E k \in Busy : \E l : Busy' \subseteq (Busy \ {k}) \cup {l}
    <3>1. CASE IsBusy(h)
      BY <1>2, <2>1, <2>4, <3>1 DEF Busy
    <3>2. CASE ~IsBusy(h)
      BY <1>2, <2>4, <2>7, <3>2 DEF Busy
    <3> QED BY <3>1, <3>2
  <2>9. Spare' \subseteq Spare \cup {h.shown}
    BY <1>1, <1>2, <2>4 DEF Spare, Promised
  <2>10. Spent'
    BY <1>1, <2>1, <2>4, <2>6 DEF Budget, Spent
  <2>11. IsFiniteSet(refresh') /\ IsFiniteSet(handlers')
    <3>1. IsFiniteSet(refresh) /\ IsFiniteSet(handlers)
      BY DEF Budget
    <3>2. IsFiniteSet(refresh')
      BY <1>1, <3>1
    <3>3. handlers' \in {handlers \ {h}, (handlers \ {h}) \cup {n}}
      BY <1>1, <2>4
    <3>4. IsFiniteSet(handlers')
      <4>1. IsFiniteSet(handlers \ {h}) /\ IsFiniteSet((handlers \ {h}) \cup {n})
        BY <3>1, CardFinite
      <4> QED BY <3>3, <4>1
    <3> QED BY <3>2, <3>4
  <2> QED BY <1>3, <2>8, <2>9, <2>10, <2>11, BudgetSpent
<1> QED BY <1>5, <1>6

LEMMA BudgetHandler ==
  ASSUME SessInv, SessInv', Budget, NEW h \in handlers, Handler(h) \/ HandlerError(h)
  PROVE  Budget'
<1>0. h \in Refresh
  BY DEF SessInv, TypeOK
(* The refresh that stepped is now n, unless nobody waits for its answer.  *)
<1>1. IsFiniteSet(refresh) /\ IsFiniteSet(handlers)
  BY DEF Budget
<1>2. CASE SelectToken(h) /\ h.shown \in refresh
  <2>1. PICK n : n = [h EXCEPT !.step = "delete"] /\ handlers' = (handlers \ {h}) \cup {n}
                 /\ h.step = "select" /\ UNCHANGED <<refresh, logins, faults>>
    BY <1>2 DEF SelectToken, Step
  <2>2. n.shown = h.shown /\ n.client = h.client /\ n.step = "delete"
    BY <1>0, <2>1 DEF Refresh
  <2>3. \A g \in handlers : IsBusy(g)' <=> IsBusy(g)
    BY <2>1 DEF IsBusy
  <2>4. IsBusy(h) /\ IsBusy(n)'
    BY <1>2, <2>1, <2>2 DEF IsBusy
  <2>5. Spare' \subseteq Spare /\ Spent'
    BY <2>1, <2>2, <2>3, <2>4 DEF Spare, Promised, Budget, Spent
  <2>6. h \in Busy /\ Busy' \subseteq (Busy \ {h}) \cup {n}
    BY <2>1, <2>3, <2>4 DEF Busy
  <2>7. IsFiniteSet(refresh') /\ IsFiniteSet(handlers')
    <3>1. IsFiniteSet(refresh')
      BY <1>1, <2>1
    <3>2. IsFiniteSet(handlers \ {h}) /\ IsFiniteSet((handlers \ {h}) \cup {n})
      BY <1>1, CardFinite
    <3> QED BY <2>1, <3>1, <3>2
  <2> QED BY <2>1, <2>5, <2>6, <2>7, BudgetSwapped
<1>3. CASE SelectToken(h) /\ h.shown \notin refresh
  <2>1. PICK n : n = [h EXCEPT !.step = "answer", !.given = NoPair]
                 /\ handlers' \in {handlers \ {h}, (handlers \ {h}) \cup {n}}
                 /\ h.step = "select" /\ UNCHANGED <<refresh, logins, faults>>
    BY <1>3 DEF SelectToken, Answer
  <2>2. n.step = "answer"
    BY <1>0, <2>1 DEF Refresh
  <2>3. \A g \in handlers : IsBusy(g)' <=> IsBusy(g)
    BY <2>1 DEF IsBusy
  <2>4. ~IsBusy(h) /\ ~IsBusy(n)'
    BY <1>3, <2>1, <2>2 DEF IsBusy
  <2>5. Spare' \subseteq Spare /\ Spent' /\ Busy' \subseteq Busy
    BY <2>1, <2>2, <2>3, <2>4 DEF Spare, Promised, Budget, Spent, Busy
  <2>6. IsFiniteSet(refresh') /\ IsFiniteSet(handlers')
    <3>1. IsFiniteSet(refresh')
      BY <1>1, <2>1
    <3>2. IsFiniteSet(handlers \ {h}) /\ IsFiniteSet((handlers \ {h}) \cup {n})
      BY <1>1, CardFinite
    <3> QED BY <2>1, <3>1, <3>2
  <2> QED BY <2>1, <2>5, <2>6, BudgetSame, BudgetTypes
<1>4. CASE DeleteToken(h)
  <2>1. PICK n : n = [h EXCEPT !.step = "insert"] /\ handlers' = (handlers \ {h}) \cup {n}
                 /\ h.step = "delete" /\ refresh' = refresh \ {h.shown}
                 /\ UNCHANGED <<logins, faults>>
    BY <1>4 DEF DeleteToken, Step
  <2>2. n.shown = h.shown /\ n.client = h.client /\ n.step = "insert"
    BY <1>0, <2>1 DEF Refresh
  <2>3. IsBusy(h) /\ IsBusy(n)'
    BY <2>1, <2>2 DEF IsBusy
  <2>4. \A g \in handlers : /\ IsBusy(g)' => IsBusy(g)
                            /\ IsBusy(g) => IsBusy(g)' \/ g.shown = h.shown
    BY <2>1 DEF IsBusy
  <2>5. Spare' \subseteq Spare /\ Spent'
    BY <2>1, <2>2, <2>3, <2>4 DEF Spare, Promised, Budget, Spent
  <2>6. h \in Busy /\ Busy' \subseteq (Busy \ {h}) \cup {n}
    BY <2>1, <2>3, <2>4 DEF Busy
  <2>7. IsFiniteSet(refresh') /\ IsFiniteSet(handlers')
    <3>1. IsFiniteSet(refresh')
      BY <1>1, <2>1, FS_RemoveElement
    <3>2. IsFiniteSet(handlers \ {h}) /\ IsFiniteSet((handlers \ {h}) \cup {n})
      BY <1>1, CardFinite
    <3> QED BY <2>1, <3>1, <3>2
  <2> QED BY <2>1, <2>5, <2>6, <2>7, BudgetSwapped
<1>5. CASE InsertToken(h)
  <2>1. h.shown[1] \in Accounts
    BY <1>0, PairsHaveAccounts DEF Refresh
  <2>2. PICK p : p = NewPair(h.shown[1])
    OBVIOUS
  <2>3. ~Held(p) /\ p \in Pairs /\ refresh' = refresh \cup {p}
    BY <1>5, <2>1, <2>2, NewPairIsUnused DEF InsertToken
  <2>4. PICK n : n = [h EXCEPT !.step = "answer", !.given = p]
                 /\ handlers' \in {handlers \ {h}, (handlers \ {h}) \cup {n}}
                 /\ h.step = "insert" /\ UNCHANGED <<logins, faults>>
    BY <1>5, <2>2 DEF InsertToken, Answer
  <2>5. n.step = "answer" /\ n.shown = h.shown
    BY <1>0, <2>4 DEF Refresh
  <2>6. IsBusy(h) /\ ~IsBusy(n)'
    BY <2>4, <2>5 DEF IsBusy
  <2>7. \A g \in handlers : g.shown # p
    BY <2>3, NotHeld DEF SessInv
  <2>8. \A g \in handlers : IsBusy(g)' <=> IsBusy(g)
    BY <2>3, <2>7 DEF IsBusy
  <2>9. h \in Busy /\ Busy' \subseteq Busy \ {h}
    BY <2>4, <2>6, <2>8 DEF Busy
  <2>10. h.shown \notin refresh
    BY <2>4 DEF Budget, Spent
  <2>11. Spare' \subseteq Spare \cup {p}
    BY <2>3, <2>4, <2>8, <2>10 DEF Spare, Promised
  <2>12. Spent'
    BY <2>3, <2>4, <2>5, <2>7 DEF Budget, Spent
  <2>13. IsFiniteSet(refresh') /\ IsFiniteSet(handlers')
    <3>1. IsFiniteSet(refresh')
      BY <1>1, <2>3, FS_AddElement
    <3>2. IsFiniteSet(handlers \ {h}) /\ IsFiniteSet((handlers \ {h}) \cup {n})
      BY <1>1, CardFinite
    <3> QED BY <2>4, <3>1, <3>2
  <2>14. Cardinality(Spare') \in Nat /\ Cardinality(Spare') <= Cardinality(Spare) + 1
    BY <2>11, BudgetTypes, CardAdd
  <2>15. Cardinality(Busy') \in Nat /\ Cardinality(Busy') <= Cardinality(Busy) - 1
    BY <2>9, BudgetTypes, CardDrop
  <2>16. Cardinality(Spare') + Cardinality(Busy') <= logins' + faults'
    BY <2>4, <2>14, <2>15, BudgetTypes DEF Budget
  <2> QED BY <2>12, <2>13, <2>16 DEF Budget
<1>6. CASE HandlerError(h)
  <2>1. PICK n : n = [h EXCEPT !.step = "answer", !.given = NoPair]
                 /\ handlers' \in {handlers \ {h}, (handlers \ {h}) \cup {n}}
                 /\ UNCHANGED <<refresh, logins>> /\ faults' = faults + 1
    BY <1>6 DEF HandlerError, Answer, Fault
  <2>2. n.step = "answer"
    BY <1>0, <2>1 DEF Refresh
  <2>3. \A g \in handlers : IsBusy(g)' <=> IsBusy(g)
    BY <2>1 DEF IsBusy
  <2>4. ~IsBusy(n)'
    BY <2>2 DEF IsBusy
  <2>5. Spare' \subseteq Spare \cup {h.shown} /\ Spent' /\ Busy' \subseteq Busy
    BY <2>1, <2>2, <2>3, <2>4 DEF Spare, Promised, Budget, Spent, Busy
  <2>6. IsFiniteSet(refresh') /\ IsFiniteSet(handlers')
    <3>1. IsFiniteSet(refresh')
      BY <1>1, <2>1
    <3>2. handlers' \in {handlers \ {h}, (handlers \ {h}) \cup {n}}
      BY <2>1
    <3>3. IsFiniteSet(handlers')
      <4>1. IsFiniteSet(handlers \ {h}) /\ IsFiniteSet((handlers \ {h}) \cup {n})
        BY <1>1, CardFinite
      <4> QED BY <3>2, <4>1
    <3> QED BY <3>1, <3>3
  <2>7. logins' + faults' = logins + faults + 1
    BY <2>1, BudgetTypes
  <2> QED BY <2>5, <2>6, <2>7, BudgetSpent
<1> QED BY <1>2, <1>3, <1>4, <1>5, <1>6 DEF Handler

LEMMA BudgetExpiry ==
  ASSUME SessInv, SessInv', Budget, NEW p \in Pairs, RefreshExpires(p)
  PROVE  Budget'
<1>1. refresh' = refresh \ {p} /\ UNCHANGED <<handlers, logins>> /\ faults' \in {faults, faults + 1}
  BY DEF RefreshExpires, Fault
<1>2. \A g \in handlers : /\ IsBusy(g)' => IsBusy(g)
                          /\ IsBusy(g) => IsBusy(g)' \/ g.shown = p
  BY <1>1 DEF IsBusy
<1>3. Spare' \subseteq Spare /\ Spent' /\ Busy' \subseteq Busy
  BY <1>1, <1>2 DEF Spare, Promised, Budget, Spent, Busy
<1>4. IsFiniteSet(refresh') /\ IsFiniteSet(handlers')
  BY <1>1, FS_RemoveElement DEF Budget
<1>5. logins' + faults' >= logins + faults
  BY <1>1, BudgetTypes
<1> QED BY <1>3, <1>4, <1>5, BudgetSame

LEMMA BudgetNext ==
  SessInv /\ SessInv' /\ Budget /\ [Next]_vars => Budget'
<1> SUFFICES ASSUME SessInv, SessInv', Budget, [Next]_vars PROVE Budget'
  OBVIOUS
<1>1. CASE UNCHANGED <<refresh, handlers, logins, faults>>
  <2>1. Spare' = Spare /\ Busy' = Busy /\ Spent'
    BY <1>1 DEF Spare, Promised, Busy, IsBusy, Budget, Spent
  <2> QED BY <1>1, <2>1 DEF Budget
<1>2. ASSUME NEW c \in Clients, User(c) \/ Call(c) \/ Answered(c) \/ Abandon(c) PROVE Budget'
  <2>1. CASE Logout(c) \/ Call(c) \/ Served(c) \/ NotServed(c) \/ Retry(c)
    BY <1>1, <2>1 DEF Logout, Call, Served, NotServed, Retry, api
  <2> QED BY <1>2, <2>1, BudgetLogin, BudgetUnauthorized, BudgetAnswered, BudgetAbandon
          DEF User, Answered
<1>3. ASSUME NEW p \in Pairs, AccessExpires(p) \/ RefreshExpires(p) PROVE Budget'
  BY <1>1, <1>3, BudgetExpiry DEF AccessExpires
<1>4. CASE Skip \/ UNCHANGED vars
  BY <1>1, <1>4 DEF Skip, vars
<1> QED BY <1>2, <1>3, <1>4, BudgetHandler DEF Next

(* Good tokens are spare, or shown by a refresh at work.                   *)
LEMMA BudgetCovers == SessInv /\ Budget => OneTokenPerLogin
<1> SUFFICES ASSUME SessInv, Budget PROVE OneTokenPerLogin
  OBVIOUS
<1> DEFINE T == {h.shown : h \in Busy}
           f == [h \in Busy |-> h.shown]
<1>1. f \in Surjection(Busy, T)
  BY DEF Surjection
<1>2. IsFiniteSet(T) /\ Cardinality(T) <= Cardinality(Busy)
  BY <1>1, FS_Surjection, BudgetTypes
<1>3. refresh \subseteq Spare \cup T
  BY DEF Spare, Promised, Busy
<1> HIDE DEF T
<1>4. IsFiniteSet(Spare \cup T) /\ Cardinality(Spare \cup T) <= Cardinality(Spare) + Cardinality(T)
      /\ Cardinality(Spare \cup T) \in Nat /\ Cardinality(T) \in Nat
  <2>1. IsFiniteSet(Spare) /\ IsFiniteSet(T) /\ Cardinality(Spare) \in Nat /\ Cardinality(T) \in Nat
    BY <1>2, FS_CardinalityType, BudgetTypes
  <2>2. /\ IsFiniteSet(Spare \cup T)
        /\ Cardinality(Spare \cup T) = Cardinality(Spare) + Cardinality(T) - Cardinality(Spare \cap T)
    BY <2>1, FS_Union
  <2>3. Cardinality(Spare \cap T) \in Nat
    BY <2>1, CardSub
  <2>4. Cardinality(Spare \cup T) \in Nat
    BY <2>2, FS_CardinalityType
  <2> QED BY <2>1, <2>2, <2>3, <2>4
<1>5. Cardinality(refresh) \in Nat /\ Cardinality(refresh) <= Cardinality(Spare \cup T)
  BY <1>3, <1>4, CardSub
<1>6. Cardinality(Spare) + Cardinality(Busy) <= logins + faults
  BY DEF Budget
<1>7. Cardinality(refresh) <= logins + faults
  BY <1>2, <1>4, <1>5, <1>6, BudgetTypes
<1> QED BY <1>7 DEF OneTokenPerLogin

(* Rotation leaves no second session behind: there are never more good     *)
(* refresh tokens than logins, one for each fault aside, although the      *)
(* refresh handler never looks whether it deleted anything.                *)
THEOREM RotationMultipliesNoSession == Spec => []OneTokenPerLogin
BY BudgetInit, BudgetNext, BudgetCovers, SessionInvariant, PTL DEF Spec
=============================================================================
