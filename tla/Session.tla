------------------------------- MODULE Session -------------------------------
(***************************************************************************)
(* Who is logged in: the token pairs the API hands out, the sessions       *)
(* clients store, and the refresh that replaces one by the other.          *)
(*                                                                         *)
(* A pair is an access token (a JWT, good until it expires) and a refresh  *)
(* token (a row of refresh_tokens).  The daemon and the CLI share one      *)
(* store, credentials.json; a browser keeps its own, which every request   *)
(* of its page reads and writes.  A call answered 401 is made again after  *)
(* one refresh; meanwhile the user may log out and in.                     *)
(*                                                                         *)
(* The handler of a refresh is three statements, each a transaction of its *)
(* own, and goes on when its client has given up.                          *)
(***************************************************************************)
EXTENDS Naturals, FiniteSets

CONSTANTS
  Browsers,   \* browser pages, each with a store of its own
  Daemon,     \* the daemon, with credentials.json
  Accounts,   \* accounts
  NoAccount,
  Serials,    \* tell the token pairs of an account apart
  NoPair,
  Elsewhere,  \* the API is not at the default URL, nor in reminderd's environment
  MaxLogins,  \* BOUND: logins in a behaviour
  MaxFaults   \* BOUND: lost answers, errors and refresh tokens left to expire

(* A pair names its account: the "sub" of the JWT, the user_id of the row. *)
Pairs == Accounts \X Serials

Clients == Browsers \cup {Daemon}
LoggedOut == [pair |-> NoPair, email |-> NoAccount, api_url |-> FALSE]
Stored == [pair: Pairs, email: Accounts \cup {NoAccount}, api_url: BOOLEAN]

(* A refresh in service: for whom (NoPair: nobody waits any more), the     *)
(* token it was sent, its next statement, the pair of a 200, and with      *)
(* which fault it was given up, so that two left behind stay two.          *)
Waiting == Clients \cup {NoPair}
Refresh == [client: Waiting, shown: Pairs,
            step: {"select", "delete", "insert", "answer"},
            given: Pairs \cup {NoPair}, gone: 0 .. MaxFaults]

ASSUME ClientsAssumption == Daemon \notin Browsers /\ NoPair \notin Clients
ASSUME NoneAssumption == NoPair \notin Pairs /\ NoAccount \notin Accounts
ASSUME ElsewhereAssumption == Elsewhere \in BOOLEAN
ASSUME BoundsAssumption == MaxLogins \in Nat /\ MaxFaults \in Nat

VARIABLES
  access,     \* pairs whose access token has not expired
  refresh,    \* pairs whose refresh token is in refresh_tokens, and good
  handlers,   \* refreshes the API has in service
  session,    \* what each client's store has
  state,      \* where each client is in http_post_json or request
  token,      \* the access token of its call
  reach,      \* whether the call's URL is the API's
  served,     \* the daemon's last call succeeded
  logins,
  faults

vars == <<access, refresh, handlers, session, state, token, reach, served,
          logins, faults>>

api == <<access, refresh, handlers>>
calls == <<state, token, reach, served>>

-----------------------------------------------------------------------------
(* Somebody has the pair stored or in a request or an answer.              *)
Held(p) ==
  \/ \E c \in Clients : p \in {session[c].pair, token[c]}
  \/ \E h \in handlers : p \in {h.shown, h.given}

(* 32 random bytes: a pair that means nothing to anybody, any of them.     *)
Unused(a) == {p \in {a} \X Serials : p \notin access \cup refresh /\ ~Held(p)}

NewPair(a) == CHOOSE p \in Unused(a) : TRUE

Issue(a) ==
  /\ Unused(a) # {}
  /\ access' = access \cup {NewPair(a)}
  /\ refresh' = refresh \cup {NewPair(a)}

Init ==
  /\ access = {}
  /\ refresh = {}
  /\ handlers = {}
  /\ session = [c \in Clients |-> LoggedOut]
  /\ state = [c \in Clients |-> "idle"]
  /\ token = [c \in Clients |-> NoPair]
  /\ reach = [c \in Clients |-> TRUE]
  /\ served = FALSE
  /\ logins = 0
  /\ faults = 0

Fault ==
  /\ faults < MaxFaults
  /\ faults' = faults + 1

-----------------------------------------------------------------------------
(* The user.                                                               *)

Login(c, a) ==
  /\ logins < MaxLogins
  /\ logins' = logins + 1
  /\ Issue(a)
  /\ session' = [session EXCEPT ![c] = [pair |-> NewPair(a), email |-> a, api_url |-> TRUE]]
  /\ UNCHANGED <<handlers, calls, faults>>

(* The API is not told: the refresh token stays good until it expires.     *)
Logout(c) ==
  /\ session[c] # LoggedOut
  /\ session' = [session EXCEPT ![c] = LoggedOut]
  /\ UNCHANGED <<api, calls, logins, faults>>

-----------------------------------------------------------------------------
(* A client's call.                                                        *)

Call(c) ==
  /\ state[c] = "idle"
  /\ session[c] # LoggedOut
  /\ state' = [state EXCEPT ![c] = "call"]
  /\ token' = [token EXCEPT ![c] = session[c].pair]
  /\ reach' = [reach EXCEPT ![c] = c # Daemon \/ ~Elsewhere \/ session[c].api_url]
  /\ UNCHANGED <<api, session, served, logins, faults>>

(* Without credentials the sync thread waits for another minute.           *)
Skip ==
  /\ state[Daemon] = "idle"
  /\ session[Daemon] = LoggedOut
  /\ UNCHANGED vars

End(c, result) ==
  /\ state' = [state EXCEPT ![c] = "idle"]
  /\ token' = [token EXCEPT ![c] = NoPair]
  /\ reach' = [reach EXCEPT ![c] = TRUE]
  /\ served' = IF c = Daemon THEN result ELSE served

Served(c) ==
  /\ state[c] \in {"call", "again"}
  /\ reach[c] /\ token[c] \in access
  /\ End(c, TRUE)
  /\ UNCHANGED <<api, session, logins, faults>>

(* No API at that URL, or a 401 with nothing stored to refresh.            *)
NotServed(c) ==
  /\ state[c] = "call"
  /\ \/ ~reach[c]
     \/ session[c] = LoggedOut /\ token[c] \notin access
  /\ End(c, FALSE)
  /\ UNCHANGED <<api, session, logins, faults>>

(* A 401: the refresh sends what is stored by now.                         *)
Unauthorized(c) ==
  /\ state[c] = "call"
  /\ reach[c] /\ token[c] \notin access
  /\ session[c] # LoggedOut
  /\ state' = [state EXCEPT ![c] = "refresh"]
  /\ token' = [token EXCEPT ![c] = NoPair]
  /\ handlers' = handlers \cup
       {[client |-> c, shown |-> session[c].pair, step |-> "select", given |-> NoPair,
         gone |-> 0]}
  /\ UNCHANGED <<access, refresh, session, reach, served, logins, faults>>

(* The daemon stores the tokens and nothing else; the page leaves the      *)
(* e-mail that is there.                                                   *)
RenewedInPlace(c, p) == [session[c] EXCEPT !.pair = p]

Renewed(c, p) ==
  IF c = Daemon THEN [pair |-> p, email |-> NoAccount, api_url |-> FALSE]
  ELSE [pair |-> p, email |-> session[c].email, api_url |-> TRUE]

RefreshedUnsaved(c) ==
  \E h \in handlers :
    /\ h.client = c /\ h.step = "answer" /\ h.given # NoPair
    /\ handlers' = handlers \ {h}
    /\ state' = [state EXCEPT ![c] = "renewed"]
    /\ UNCHANGED <<access, refresh, session, token, reach, served, logins, faults>>

RefreshedForNextTime(c) ==
  \E h \in handlers :
    /\ h.client = c /\ h.step = "answer" /\ h.given # NoPair
    /\ handlers' = handlers \ {h}
    /\ session' = [session EXCEPT ![c] = Renewed(c, h.given)]
    /\ End(c, FALSE)
    /\ UNCHANGED <<access, refresh, logins, faults>>

Refreshed(c) ==
  \E h \in handlers :
    /\ h.client = c /\ h.step = "answer" /\ h.given # NoPair
    /\ handlers' = handlers \ {h}
    /\ session' = [session EXCEPT ![c] = Renewed(c, h.given)]
    /\ state' = [state EXCEPT ![c] = "renewed"]
    /\ UNCHANGED <<access, refresh, token, reach, served, logins, faults>>

(* The call is made again with what is stored by then.  If that is         *)
(* nothing, the daemon keeps the 401, and the page gets another.           *)
Retry(c) ==
  /\ state[c] = "renewed"
  /\ IF session[c] = LoggedOut
     THEN End(c, FALSE)
     ELSE /\ state' = [state EXCEPT ![c] = "again"]
          /\ token' = [token EXCEPT ![c] = session[c].pair]
          /\ UNCHANGED <<reach, served>>
  /\ UNCHANGED <<api, session, logins, faults>>

(* Whatever the error, the page forgets its session; the daemon keeps it.  *)
RefreshRefused(c) ==
  \E h \in handlers :
    /\ h.client = c /\ h.step = "answer" /\ h.given = NoPair
    /\ handlers' = handlers \ {h}
    /\ session' = [session EXCEPT ![c] = IF c = Daemon THEN @ ELSE LoggedOut]
    /\ End(c, FALSE)
    /\ UNCHANGED <<access, refresh, logins, faults>>

AbandonUnnoticed(c) ==
  /\ state[c] # "idle"
  /\ Fault
  /\ End(c, FALSE)
  /\ UNCHANGED <<access, refresh, handlers, session, logins>>

(* An error or no answer; a refresh in service goes on for nobody.         *)
Abandon(c) ==
  /\ state[c] # "idle"
  /\ Fault
  /\ End(c, FALSE)
  /\ handlers' =
       {h \in handlers : h.client # c} \cup
       {[h EXCEPT !.client = NoPair, !.gone = faults'] :
          h \in {g \in handlers : g.client = c /\ g.step # "answer"}}
  /\ UNCHANGED <<access, refresh, session, logins>>

-----------------------------------------------------------------------------
(* The API's refresh handler.                                              *)

Answer(h, p) ==
  handlers' = (handlers \ {h}) \cup
    IF h.client = NoPair THEN {} ELSE {[h EXCEPT !.step = "answer", !.given = p]}

Step(h, s) == handlers' = (handlers \ {h}) \cup {[h EXCEPT !.step = s]}

SelectToken(h) ==
  /\ h.step = "select"
  /\ IF h.shown \in refresh THEN Step(h, "delete") ELSE Answer(h, NoPair)
  /\ UNCHANGED <<access, refresh, session, calls, logins, faults>>

KeepToken(h) ==
  /\ h.step = "delete"
  /\ Step(h, "insert")
  /\ UNCHANGED <<access, refresh, session, calls, logins, faults>>

(* Nobody looks whether there was anything left to delete.                 *)
DeleteToken(h) ==
  /\ h.step = "delete"
  /\ Step(h, "insert")
  /\ refresh' = refresh \ {h.shown}
  /\ UNCHANGED <<access, session, calls, logins, faults>>

InsertToken(h) ==
  /\ h.step = "insert"
  /\ Issue(h.shown[1])
  /\ Answer(h, NewPair(h.shown[1]))
  /\ UNCHANGED <<session, calls, logins, faults>>

(* 500, or 429 before the handler is reached.                              *)
HandlerError(h) ==
  /\ h.step # "answer"
  /\ Fault
  /\ Answer(h, NoPair)
  /\ UNCHANGED <<access, refresh, session, calls, logins>>

-----------------------------------------------------------------------------
(* Time.                                                                   *)

(* A call is over long before the token it was renewed for expires: 30     *)
(* seconds against 15 minutes.                                             *)
AccessExpires(p) ==
  /\ p \in access
  /\ \A c \in Clients : /\ state[c] = "again" => token[c] # p
                        /\ state[c] = "renewed" => session[c].pair # p
  /\ \A h \in handlers : h.given # p
  /\ access' = access \ {p}
  /\ UNCHANGED <<refresh, handlers, session, calls, logins, faults>>

(* After seven days; one that nobody has any more is no loss.              *)
RefreshExpires(p) ==
  /\ p \in refresh
  /\ IF Held(p) THEN Fault ELSE UNCHANGED faults
  /\ refresh' = refresh \ {p}
  /\ UNCHANGED <<access, handlers, session, calls, logins>>

-----------------------------------------------------------------------------
User(c) == Logout(c) \/ \E a \in Accounts : Login(c, a)

Answered(c) ==
  \/ Served(c) \/ NotServed(c) \/ Unauthorized(c)
  \/ Refreshed(c) \/ Retry(c) \/ RefreshRefused(c)

Handler(h) == SelectToken(h) \/ DeleteToken(h) \/ InsertToken(h)

Next ==
  \/ Skip
  \/ \E c \in Clients : User(c) \/ Call(c) \/ Answered(c) \/ Abandon(c)
  \/ \E h \in handlers : Handler(h) \/ HandlerError(h)
  \/ \E p \in Pairs : AccessExpires(p) \/ RefreshExpires(p)

Spec == Init /\ [][Next]_vars

(* The sync thread makes a call every minute, and the API answers.         *)
Fairness ==
  /\ WF_vars(Call(Daemon))
  /\ WF_vars(Answered(Daemon))
  /\ WF_vars(\E h \in handlers : h.client = Daemon /\ Handler(h))

FairSpec == Spec /\ Fairness

-----------------------------------------------------------------------------
(* Every variable keeps to its type; whoever waits for a refresh has one   *)
(* in service, and only they.                                              *)
TypeOK ==
  /\ access \subseteq Pairs
  /\ refresh \subseteq Pairs
  /\ handlers \subseteq Refresh
  /\ session \in [Clients -> Stored \cup {LoggedOut}]
  /\ state \in [Clients -> {"idle", "call", "refresh", "renewed", "again"}]
  /\ token \in [Clients -> Pairs \cup {NoPair}]
  /\ reach \in [Clients -> BOOLEAN]
  /\ served \in BOOLEAN
  /\ logins \in 0..MaxLogins
  /\ faults \in 0..MaxFaults
  /\ \A c \in Clients :
       state[c] = "refresh" <=> \E h \in handlers : h.client = c

(* The stored refresh token is good, or is being exchanged for another.    *)
Alive(c) ==
  /\ session[c] # LoggedOut
  /\ \/ session[c].pair \in refresh
     \/ \E h \in handlers : /\ h.client = c /\ h.shown = session[c].pair
                            /\ h.step = "insert" \/ h.given # NoPair

(* Rotation loses no session by itself: whatever logins and logouts fall   *)
(* into a refresh, only a fault leaves a client with a dead token.         *)
SessionsStayAlive ==
  faults = 0 => \A c \in Clients : session[c] # LoggedOut => Alive(c)

(* Rotation leaves no second session behind: there are never more good     *)
(* refresh tokens than logins, except for one a client gave up waiting for.*)
OneTokenPerLogin == Cardinality(refresh) <= logins + faults

(* The e-mail `remind status` shows is that of the account the daemon's    *)
(* requests run under, whichever login falls into a refresh.               *)
DaemonEmailIsTrue ==
  session[Daemon].email # NoAccount =>
    session[Daemon].pair[1] = session[Daemon].email

(* A logged-in daemon is served again and again, whenever the access token *)
(* expires: src/README.md:239 says the API URL is saved on login "so       *)
(* reminderd can sync".                                                    *)
DaemonIsServed == []<>(served \/ ~Alive(Daemon))
=============================================================================
