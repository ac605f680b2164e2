------------------------------ MODULE Browser ------------------------------
(***************************************************************************)
(* The tabs of one browser and the session they share (frontend lib/api.ts *)
(* and lib/telegram.ts) against Sessions.  A tab reads localStorage when   *)
(* it loads and never again; every save writes its own copy and            *)
(* localStorage; a 401 makes it refresh once, several calls of a tab       *)
(* sharing one refresh.  Server steps happen between any two steps of the  *)
(* tabs; JavaScript runs one callback of a tab at a time.                  *)
(***************************************************************************)
EXTENDS Sessions

CONSTANTS
  Tab, Call,  \* tabs, and API calls under way at once in each
  NoGrant,    \* no session
  MaxTime     \* bound: the clock stops here

ASSUME BrowserBounds == /\ MaxTime \in Nat
                        /\ NoGrant \notin [session : Session, refresh : Nat, until : Nat]

VARIABLES
  stored,   \* localStorage[SESSION_KEY]
  held,     \* the variable session of each tab
  open,     \* "closed", "boot" while bootstrapTelegramSession runs, "open"
  call,     \* the API calls of each tab
  flights,  \* the refreshes under way, refreshPromise of their tab
  login,    \* the answer to a login of each tab that is on its way
  revoking, \* DELETE /auth/session on their way, by the grant they carry
  calm      \* history: no message was lost, no refresh met an error, no tab closed

page    == <<stored, held, open>>
traffic == <<call, flights, login, revoking>>
bvars   == <<time, rows, page, traffic, calm>>

Grants  == [session : Session, refresh : 1..minted, until : Nat]
Held    == Grants \cup {NoGrant}
CallPC  == {"idle", "sent", "refused", "waiting"}
Calls   == [pc : CallPC, access : Held, retry : BOOLEAN]
Flights == [tab : Tab, by : Call, token : 1..minted, grant : Held,
            pc : {"sent", "ok", "denied"}]

BrowserTypeOK ==
  /\ SessionsTypeOK
  /\ stored \in Held
  /\ held \in [Tab -> Held]
  /\ open \in [Tab -> {"closed", "boot", "open"}]
  /\ call \in [Tab -> [Call -> Calls]]
  /\ flights \subseteq Flights
  /\ login \in [Tab -> Held]
  /\ revoking \subseteq Grants
  /\ calm \in BOOLEAN

NoCall == [pc |-> "idle", access |-> NoGrant, retry |-> TRUE]

BrowserInit ==
  /\ SessionsInit
  /\ stored = NoGrant
  /\ held = [t \in Tab |-> NoGrant]
  /\ open = [t \in Tab |-> "closed"]
  /\ call = [t \in Tab |-> [c \in Call |-> NoCall]]
  /\ flights = {}
  /\ login = [t \in Tab |-> NoGrant]
  /\ revoking = {}
  /\ calm = TRUE

-----------------------------------------------------------------------------
(* Loading, logging in, closing                                            *)

\* The Mini App starts with a login unless it holds a Telegram session made
\* from the same initData; a page opened by its link does not.
OpenTab(t) ==
  /\ open[t] = "closed"
  /\ \E next \in {"boot", "open"} : open' = [open EXCEPT ![t] = next]
  /\ held' = [held EXCEPT ![t] = stored]
  /\ UNCHANGED <<time, rows, stored, traffic>>

\* saveSession
Save(t, g) == held' = [held EXCEPT ![t] = g] /\ stored' = g

LoginServe(t, s) ==
  /\ login[t] = NoGrant
  /\ \/ open[t] = "boot" /\ Create(s, "telegram")
     \/ open[t] = "open" /\ held[t] = NoGrant /\ Create(s, "anonymous")
  /\ login' = [login EXCEPT ![t] = Grant(s, NewToken)]
  /\ UNCHANGED <<time, page, call, flights, revoking>>

\* createAnonymous, createTelegramSession: the latter gives up the session it
\* replaces.
LoginDone(t) ==
  /\ login[t] # NoGrant
  /\ Save(t, login[t])
  /\ login' = [login EXCEPT ![t] = NoGrant]
  /\ open' = [open EXCEPT ![t] = "open"]
  /\ revoking' = IF open[t] = "boot" /\ held[t] # NoGrant
                    /\ kind[held[t].session] = "telegram"
                 THEN revoking \cup {held[t]} ELSE revoking
  /\ UNCHANGED <<time, rows, call, flights>>

LoginLost(t) ==
  /\ open[t] = "boot" \/ login[t] # NoGrant
  /\ login' = [login EXCEPT ![t] = NoGrant]
  /\ open' = [open EXCEPT ![t] = "open"]
  /\ UNCHANGED <<time, rows, stored, held, call, flights, revoking>>

RevokeServe(g) ==
  /\ g \in revoking
  /\ IF Admits(g) THEN Revoke(g.session) ELSE UNCHANGED rows
  /\ revoking' = revoking \ {g}
  /\ UNCHANGED <<time, page, call, flights, login>>

RevokeLost(g) ==
  /\ g \in revoking
  /\ revoking' = revoking \ {g}
  /\ UNCHANGED <<time, rows, page, call, flights, login>>

CloseTab(t) ==
  /\ open[t] # "closed"
  /\ open' = [open EXCEPT ![t] = "closed"]
  /\ held' = [held EXCEPT ![t] = NoGrant]
  /\ call' = [call EXCEPT ![t] = [c \in Call |-> NoCall]]
  /\ flights' = {f \in flights : f.tab # t}
  /\ login' = [login EXCEPT ![t] = NoGrant]
  /\ UNCHANGED <<time, rows, stored, revoking>>

-----------------------------------------------------------------------------
(* API calls                                                               *)

Send(t, c) ==
  /\ open[t] = "open" /\ call[t][c].pc = "idle"
  /\ call' = [call EXCEPT ![t][c] = [pc |-> "sent", access |-> held[t], retry |-> TRUE]]
  /\ UNCHANGED <<time, rows, page, flights, login, revoking>>

\* Anything but a 401.
Answered(t, c) ==
  /\ call[t][c].pc = "sent"
  /\ call' = [call EXCEPT ![t][c] = NoCall]
  /\ UNCHANGED <<time, rows, page, flights, login, revoking>>

Refused(t, c) ==
  /\ call[t][c].pc = "sent"
  /\ call[t][c].access # NoGrant => ~Admits(call[t][c].access)
  /\ call' = [call EXCEPT ![t][c].pc = "refused"]
  /\ UNCHANGED <<time, rows, page, flights, login, revoking>>

CanRetry(t, c) == call[t][c].retry /\ held[t] # NoGrant

\* Mutant of MayStart: no refresh is shared.
MayStart_Always(t) == TRUE

MayStart(t) == \A f \in flights : f.tab # t

Refresh(t, c) ==
  /\ call[t][c].pc = "refused" /\ CanRetry(t, c)
  /\ call' = [call EXCEPT ![t][c].pc = "waiting"]
  /\ flights' = IF MayStart(t)
                THEN flights \cup {[tab |-> t, by |-> c, token |-> held[t].refresh,
                                    grant |-> NoGrant, pc |-> "sent"]}
                ELSE flights
  /\ UNCHANGED <<time, rows, page, login, revoking>>

Fail(t, c) ==
  /\ call[t][c].pc = "refused" /\ ~CanRetry(t, c)
  /\ call' = [call EXCEPT ![t][c] = NoCall]
  /\ UNCHANGED <<time, rows, page, flights, login, revoking>>

-----------------------------------------------------------------------------
(* The refresh of a tab                                                    *)

Becomes(f, g) == flights' = (flights \ {f}) \cup {g}

RefreshServe(f) ==
  /\ f.pc = "sent"
  /\ \E s \in Session :
       /\ Rotate(s, f.token)
       /\ Becomes(f, [f EXCEPT !.pc = "ok", !.grant = Grant(s, NewToken)])
  /\ UNCHANGED <<time, page, call, login, revoking>>

RefreshReject(f) ==
  /\ f.pc = "sent"
  /\ \A s \in Session : ~(Active(s) /\ hash[s] = f.token)
  /\ Becomes(f, [f EXCEPT !.pc = "denied"])
  /\ UNCHANGED <<time, rows, page, call, login, revoking>>

\* The rate limiter or an error answers, an error also after the commit.
RefreshFails(f) ==
  /\ f.pc \in {"sent", "ok"}
  /\ Becomes(f, [f EXCEPT !.pc = "denied", !.grant = NoGrant])
  /\ UNCHANGED <<time, rows, page, call, login, revoking>>

\* What becomes of the calls that wait for a refresh.
Woken(t, next) ==
  [call EXCEPT ![t] = [c \in Call |-> IF call[t][c].pc = "waiting" THEN next ELSE call[t][c]]]

\* Mutant of Ends: the calls behind a failed refresh are forgotten.
Ends_Unheard(f) ==
  /\ flights' = flights \ {f}
  /\ UNCHANGED <<time, rows, open, call, login, revoking>>

\* The promise is rejected and cleared.
Ends(f) ==
  /\ flights' = flights \ {f}
  /\ call' = Woken(f.tab, NoCall)
  /\ UNCHANGED <<time, rows, open, login, revoking>>

RefreshDone(f) ==
  /\ f.pc = "ok"
  /\ Save(f.tab, f.grant)
  /\ flights' = flights \ {f}
  /\ call' = Woken(f.tab, [pc |-> "sent", access |-> f.grant, retry |-> FALSE])
  /\ UNCHANGED <<time, rows, open, login, revoking>>

RefreshDenied(f) == f.pc = "denied" /\ Save(f.tab, NoGrant) /\ Ends(f)

RefreshLost(f) == UNCHANGED <<stored, held>> /\ Ends(f)

-----------------------------------------------------------------------------
ClockTick == time < MaxTime /\ time' = time + 1 /\ UNCHANGED <<rows, page, traffic>>

TabStep(t) ==
  \/ OpenTab(t) \/ LoginDone(t)
  \/ \E s \in Session : LoginServe(t, s)
  \/ \E c \in Call : Send(t, c) \/ Answered(t, c) \/ Refused(t, c) \/ Refresh(t, c) \/ Fail(t, c)

FlightStep(f) ==
  RefreshServe(f) \/ RefreshReject(f) \/ RefreshDone(f) \/ RefreshDenied(f)

SmoothStep ==
  /\ \/ ClockTick
     \/ \E t \in Tab : TabStep(t)
     \/ \E f \in flights : FlightStep(f)
     \/ \E g \in revoking : RevokeServe(g)
  /\ UNCHANGED calm

\* A message is lost, a refresh meets an error, or a tab closes.
RoughStep ==
  /\ \/ \E t \in Tab : LoginLost(t) \/ CloseTab(t)
     \/ \E f \in flights : RefreshFails(f) \/ RefreshLost(f)
     \/ \E g \in revoking : RevokeLost(g)
  /\ calm' = FALSE

BrowserNext == SmoothStep \/ RoughStep

BrowserSpec == BrowserInit /\ [][BrowserNext]_bvars

-----------------------------------------------------------------------------
(* Safety                                                                  *)

\* No refresh token is exchanged twice, also when tabs that loaded the same
\* session refresh it at the same time (Service.Refresh).
SpentOnce == \A a, b \in lineage : a[1] = b[1] => a = b

\* A call that waits for a refresh waits for one that is running: no answer,
\* refusal or loss leaves a call behind (refreshSession).
WaitersServed == \A t \in Tab, c \in Call :
  call[t][c].pc = "waiting" => \E f \in flights : f.tab = t

\* As long as no message is lost and no tab closed, somebody in the browser
\* has the current token of every active session it was given, also when
\* tabs outrun each other.
NoOrphan == calm => \A s \in Session : Active(s) =>
  \E g \in {held[t] : t \in Tab} \cup {login[t] : t \in Tab} \cup {f.grant : f \in flights} :
    g # NoGrant /\ g.session = s /\ g.refresh = hash[s]

-----------------------------------------------------------------------------
(* Action properties                                                       *)

\* A session that was revoked or is past its end never changes again: no
\* refresh that was under way revives it (Refresh, Revoke).
EndedIsFrozen == [][\A s \in Session :
  revoked[s] \/ (hash[s] # 0 /\ until[s] <= time)
  => /\ hash'[s] = hash[s] /\ until'[s] = until[s]
     /\ revoked[s] => revoked'[s]]_bvars

\* With a network and a server that answer, a tab drops its session only when
\* the server no longer accepts it or another tab refreshed it in between
\* (refreshSession).
LosesOnlyDead == [][calm => \A t \in Tab :
  held[t] # NoGrant /\ open'[t] = "open" /\ held'[t] = NoGrant
  => ~Active(held[t].session) \/ hash[held[t].session] # held[t].refresh]_bvars
=============================================================================
