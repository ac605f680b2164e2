--------------------------- MODULE Browser_proofs ---------------------------
(***************************************************************************)
(* Refresh tokens for any number of tabs, calls and sessions: none is      *)
(* exchanged twice, a session that ended is never revived, the calls of a  *)
(* tab wait for a refresh that runs, and while nothing is lost the browser *)
(* keeps the current token of every live session it was given.             *)
(***************************************************************************)
EXTENDS Browser, TLAPS

USE DEF rows, page, traffic

\* What a step of the browser or the server does to the rows of sessions.
RowsMove ==
  \/ UNCHANGED rows
  \/ \E s \in Session, k \in {"anonymous", "telegram"} : Create(s, k)
  \/ \E s \in Session, old \in 1..minted : Rotate(s, old)
  \/ \E s : Active(s) /\ Revoke(s)

\* Tokens that were exchanged are no session's current token any more, and
\* only sessions that exist are revoked: with this, SpentOnce is inductive.
TokensInv ==
  /\ SessionsTypeOK
  /\ \A a \in lineage, s \in Session : hash[s] # a[1]
  /\ \A s \in Session : revoked[s] => hash[s] # 0
  /\ SpentOnce

LEMMA EveryStepMoves ==
  ASSUME SessionsTypeOK, BrowserNext
  PROVE  RowsMove /\ time' \in Nat
<1> USE DEF SessionsTypeOK
<1>1. ASSUME NEW t \in Tab, TabStep(t)
      PROVE  RowsMove /\ time' \in Nat
  <2>1. ASSUME NEW s \in Session, LoginServe(t, s)
        PROVE  RowsMove /\ time' \in Nat
    BY <2>1 DEF LoginServe, RowsMove
  <2>2. CASE OpenTab(t) \/ LoginDone(t)
    BY <2>2 DEF OpenTab, LoginDone, RowsMove
  <2>3. ASSUME NEW c \in Call,
               Send(t, c) \/ Answered(t, c) \/ Refused(t, c) \/ Refresh(t, c) \/ Fail(t, c)
        PROVE  RowsMove /\ time' \in Nat
    BY <2>3 DEF Send, Answered, Refused, Refresh, Fail, RowsMove
  <2> QED BY <1>1, <2>1, <2>2, <2>3 DEF TabStep
<1>2. ASSUME NEW f \in flights, FlightStep(f)
      PROVE  RowsMove /\ time' \in Nat
  <2>1. CASE RefreshServe(f)
    <3>1. PICK s \in Session : Rotate(s, f.token)
      BY <2>1 DEF RefreshServe
    <3>2. f.token \in 1..minted
      BY <3>1 DEF Rotate, Active
    <3> QED BY <2>1, <3>1, <3>2 DEF RefreshServe, RowsMove
  <2>2. CASE RefreshReject(f) \/ RefreshDone(f) \/ RefreshDenied(f)
    BY <2>2 DEF RefreshReject, RefreshDone, RefreshDenied, Ends, RowsMove
  <2> QED BY <1>2, <2>1, <2>2 DEF FlightStep
<1>3. ASSUME NEW g \in revoking, RevokeServe(g)
      PROVE  RowsMove /\ time' \in Nat
  BY <1>3 DEF RevokeServe, Admits, RowsMove
<1>4. CASE ClockTick
  BY <1>4 DEF ClockTick, RowsMove
<1>5. CASE RoughStep
  BY <1>5 DEF RoughStep, LoginLost, CloseTab, RefreshFails, RefreshLost, Ends, RevokeLost, RowsMove
<1> QED BY <1>1, <1>2, <1>3, <1>4, <1>5 DEF BrowserNext, SmoothStep

\* Every new token is larger than all tokens before it.
LEMMA TokensStep ==
  ASSUME TokensInv, RowsMove, time' \in Nat
  PROVE  TokensInv'
<1> USE DEF TokensInv, SessionsTypeOK, SpentOnce
<1>1. CASE UNCHANGED rows
  BY <1>1
<1>2. ASSUME NEW s \in Session, NEW k \in {"anonymous", "telegram"}, Create(s, k)
      PROVE  TokensInv'
  <2>1. /\ minted' = minted + 1 /\ lineage' = lineage /\ revoked' = revoked
        /\ hash' = [hash EXCEPT ![s] = minted + 1]
        /\ kind' = [kind EXCEPT ![s] = k] /\ until' = [until EXCEPT ![s] = time + SessionTTL]
    BY <1>2 DEF Create, NewToken
  <2>2. SessionsTypeOK'
    BY <2>1, Lifetimes
  <2>3. \A a \in lineage', x \in Session : hash'[x] # a[1]
    BY <2>1
  <2> QED BY <2>1, <2>2, <2>3
<1>3. ASSUME NEW s \in Session, NEW old \in 1..minted, Rotate(s, old)
      PROVE  TokensInv'
  <2>1. /\ hash[s] = old
        /\ minted' = minted + 1 /\ lineage' = lineage \cup {<<old, minted + 1>>}
        /\ hash' = [hash EXCEPT ![s] = minted + 1]
        /\ kind' = kind /\ until' = until /\ revoked' = revoked
    BY <1>3 DEF Rotate, NewToken
  <2>2. SessionsTypeOK'
    BY <2>1
  <2>3. \A a \in lineage : a[1] # old
    BY <2>1
  <2>4. \A x \in Session : hash'[x] # old
    BY <2>1
  <2>5. \A a \in lineage', x \in Session : hash'[x] # a[1]
    BY <2>1, <2>4
  <2>6. SpentOnce'
    BY <2>1, <2>3
  <2> QED BY <2>1, <2>2, <2>5, <2>6
<1>4. ASSUME NEW s, Active(s), Revoke(s)
      PROVE  TokensInv'
  BY <1>4 DEF Revoke, Active
<1> QED BY <1>1, <1>2, <1>3, <1>4 DEF RowsMove

LEMMA TokensInvariant == BrowserSpec => []TokensInv
<1>1. BrowserInit => TokensInv
  BY DEF BrowserInit, SessionsInit, TokensInv, SessionsTypeOK, SpentOnce
<1>2. TokensInv /\ [BrowserNext]_bvars => TokensInv'
  <2> SUFFICES ASSUME TokensInv, [BrowserNext]_bvars
               PROVE  TokensInv'
    OBVIOUS
  <2>1. CASE BrowserNext
    BY <2>1, EveryStepMoves, TokensStep DEF TokensInv
  <2>2. CASE UNCHANGED bvars
    BY <2>2, TokensStep DEF bvars, RowsMove, TokensInv, SessionsTypeOK
  <2> QED BY <2>1, <2>2
<1> QED BY <1>1, <1>2, PTL DEF BrowserSpec

\* However many tabs refresh with one token, one of them gets a new one.
THEOREM TokensSpentOnce == BrowserSpec => []SpentOnce
<1>1. TokensInv => SpentOnce
  BY DEF TokensInv
<1> QED BY <1>1, TokensInvariant, PTL

\* No refresh or login touches a session that was revoked or is past its end.
THEOREM EndedStaysFrozen == BrowserSpec => EndedIsFrozen
<1> DEFINE A == \A s \in Session :
      revoked[s] \/ (hash[s] # 0 /\ until[s] <= time)
      => /\ hash'[s] = hash[s] /\ until'[s] = until[s]
         /\ revoked[s] => revoked'[s]
<1>1. TokensInv /\ [BrowserNext]_bvars => A
  <2> SUFFICES ASSUME TokensInv, [BrowserNext]_bvars, NEW s \in Session,
                      revoked[s] \/ (hash[s] # 0 /\ until[s] <= time)
               PROVE  /\ hash'[s] = hash[s] /\ until'[s] = until[s]
                      /\ revoked[s] => revoked'[s]
    OBVIOUS
  <2>1. RowsMove
    <3>1. CASE BrowserNext
      BY <3>1, EveryStepMoves DEF TokensInv
    <3>2. CASE UNCHANGED bvars
      BY <3>2 DEF bvars, RowsMove
    <3> QED BY <3>1, <3>2
  <2>2. hash[s] # 0 /\ ~Active(s)
    BY DEF Active, TokensInv, SessionsTypeOK
  <2>3. CASE UNCHANGED rows
    BY <2>3
  <2>4. ASSUME NEW x \in Session, NEW k \in {"anonymous", "telegram"}, Create(x, k)
        PROVE  /\ hash'[s] = hash[s] /\ until'[s] = until[s]
               /\ revoked[s] => revoked'[s]
    <3>1. x # s
      BY <2>2, <2>4 DEF Create
    <3> QED BY <2>4, <3>1 DEF Create, TokensInv, SessionsTypeOK
  <2>5. ASSUME NEW x \in Session, NEW old \in 1..minted, Rotate(x, old)
        PROVE  /\ hash'[s] = hash[s] /\ until'[s] = until[s]
               /\ revoked[s] => revoked'[s]
    <3>1. x # s
      BY <2>2, <2>5 DEF Rotate
    <3> QED BY <2>5, <3>1 DEF Rotate, TokensInv, SessionsTypeOK
  <2>6. ASSUME NEW x, Revoke(x)
        PROVE  /\ hash'[s] = hash[s] /\ until'[s] = until[s]
               /\ revoked[s] => revoked'[s]
    BY <2>6 DEF Revoke, TokensInv, SessionsTypeOK
  <2> QED BY <2>1, <2>3, <2>4, <2>5, <2>6 DEF RowsMove
<1>2. EndedIsFrozen <=> [][A]_bvars
  BY DEF EndedIsFrozen
<1> HIDE DEF A
<1> QED BY <1>1, <1>2, TokensInvariant, PTL DEF BrowserSpec

-----------------------------------------------------------------------------
(* Types                                                                   *)

\* More tokens only make the types wider.
LEMMA Wider ==
  ASSUME minted \in Nat, minted' \in Nat, minted <= minted'
  PROVE  /\ Held \subseteq Held' /\ Grants \subseteq Grants'
         /\ Calls \subseteq Calls' /\ Flights \subseteq Flights'
<1>1. 1..minted \subseteq 1..minted'
  OBVIOUS
<1>2. Grants \subseteq Grants' /\ Held \subseteq Held'
  BY <1>1 DEF Grants, Held
<1> QED
  BY <1>1, <1>2 DEF Calls, Flights

\* The types of what the tabs have, as one step at a time changes it.
PageTyped ==
  /\ stored \in Held
  /\ held \in [Tab -> Held]
  /\ open \in [Tab -> {"closed", "boot", "open"}]
  /\ call \in [Tab -> [Call -> Calls]]
  /\ flights \subseteq Flights
  /\ login \in [Tab -> Held]
  /\ revoking \subseteq Grants

\* When the server draws a token, everything else is still typed.
LEMMA PageWider ==
  ASSUME minted \in Nat, minted' \in Nat, minted <= minted', PageTyped
  PROVE  /\ stored \in Held'
         /\ held \in [Tab -> Held']
         /\ call \in [Tab -> [Call -> Calls']]
         /\ flights \subseteq Flights'
         /\ login \in [Tab -> Held']
         /\ revoking \subseteq Grants'
<1>1. /\ Held \subseteq Held' /\ Grants \subseteq Grants'
      /\ Calls \subseteq Calls' /\ Flights \subseteq Flights'
  BY Wider
<1>2. \A t \in Tab : call[t] \in [Call -> Calls']
  BY <1>1 DEF PageTyped
<1> QED
  BY <1>1, <1>2 DEF PageTyped

LEMMA NoGrantApart == ASSUME minted \in Nat PROVE NoGrant \notin Grants
BY BrowserBounds DEF Grants

LEMMA TabTypes ==
  ASSUME SessionsTypeOK, PageTyped, NEW t \in Tab, UNCHANGED rows,
         OpenTab(t) \/ LoginDone(t) \/ LoginLost(t) \/ CloseTab(t)
  PROVE  PageTyped'
<1>1. UNCHANGED <<Held, Grants, Calls, Flights>>
  BY DEF Held, Grants, Calls, Flights
<1>2. NoGrant \in Held /\ NoCall \in Calls
  BY DEF Held, Calls, CallPC, NoCall
<1>3. CASE OpenTab(t)
  BY <1>1, <1>3 DEF PageTyped, OpenTab
<1>4. CASE LoginDone(t)
  BY <1>1, <1>2, <1>4 DEF PageTyped, LoginDone, Save, Held
<1>5. CASE LoginLost(t)
  BY <1>1, <1>2, <1>5 DEF PageTyped, LoginLost
<1>6. CASE CloseTab(t)
  BY <1>1, <1>2, <1>6 DEF PageTyped, CloseTab
<1> QED
  BY <1>3, <1>4, <1>5, <1>6

LEMMA CallTypes ==
  ASSUME SessionsTypeOK, PageTyped, NEW t \in Tab, NEW c \in Call, UNCHANGED rows,
         Send(t, c) \/ Answered(t, c) \/ Refused(t, c) \/ Refresh(t, c) \/ Fail(t, c)
  PROVE  PageTyped'
<1>1. UNCHANGED <<Held, Grants, Calls, Flights>>
  BY DEF Held, Grants, Calls, Flights
<1>2. NoGrant \in Held /\ NoCall \in Calls
  BY DEF Held, Calls, CallPC, NoCall
<1>3. call[t][c] \in Calls /\ held[t] \in Held
  BY DEF PageTyped
<1>4. call' \in [Tab -> [Call -> Calls]]
  <2>1. ASSUME NEW pc \in CallPC PROVE [call[t][c] EXCEPT !.pc = pc] \in Calls
    BY <1>3 DEF Calls
  <2>2. [pc |-> "sent", access |-> held[t], retry |-> TRUE] \in Calls
    BY <1>3 DEF Calls, CallPC
  <2>3. PICK new \in Calls : call' = [call EXCEPT ![t] = [call[t] EXCEPT ![c] = new]]
    BY <1>2, <2>1, <2>2 DEF PageTyped, CallPC, Send, Answered, Refused, Refresh, Fail
  <2> QED
    BY <2>3 DEF PageTyped
<1>5. flights' \subseteq Flights
  <2>1. ASSUME held[t] # NoGrant
        PROVE  [tab |-> t, by |-> c, token |-> held[t].refresh, grant |-> NoGrant, pc |-> "sent"] \in Flights
    BY <1>2, <1>3, <2>1 DEF Flights, Held, Grants
  <2> QED
    BY <2>1 DEF PageTyped, Send, Answered, Refused, Refresh, Fail, CanRetry
<1>6. UNCHANGED <<stored, held, open, login, revoking>>
  BY DEF Send, Answered, Refused, Refresh, Fail
<1> QED
  BY <1>1, <1>4, <1>5, <1>6 DEF PageTyped

LEMMA FlightTypes ==
  ASSUME SessionsTypeOK, PageTyped, NEW f \in flights, UNCHANGED rows,
         RefreshReject(f) \/ RefreshFails(f) \/ RefreshDone(f) \/ RefreshDenied(f) \/ RefreshLost(f)
  PROVE  PageTyped'
<1>1. UNCHANGED <<Held, Grants, Calls, Flights>>
  BY DEF Held, Grants, Calls, Flights
<1>2. NoGrant \in Held /\ NoCall \in Calls
  BY DEF Held, Calls, CallPC, NoCall
<1>3. f \in Flights
  BY DEF PageTyped
<1>4. f.tab \in Tab /\ f.grant \in Held
  BY <1>3 DEF Flights
<1>5. CASE RefreshReject(f) \/ RefreshFails(f)
  <2>1. [f EXCEPT !.pc = "denied"] \in Flights /\ [f EXCEPT !.pc = "denied", !.grant = NoGrant] \in Flights
    BY <1>2, <1>3 DEF Flights
  <2> QED
    BY <1>1, <1>5, <2>1 DEF PageTyped, RefreshReject, RefreshFails, Becomes
<1>6. CASE RefreshDone(f) \/ RefreshDenied(f) \/ RefreshLost(f)
  <2>1. [pc |-> "sent", access |-> f.grant, retry |-> FALSE] \in Calls
    BY <1>4 DEF Calls, CallPC
  <2>2. \A next \in Calls : Woken(f.tab, next) \in [Tab -> [Call -> Calls]]
    BY <1>4 DEF Woken, PageTyped
  <2>3. call' \in [Tab -> [Call -> Calls]]
    BY <1>2, <1>6, <2>1, <2>2 DEF RefreshDone, RefreshDenied, RefreshLost, Ends
  <2> QED
    BY <1>1, <1>2, <1>4, <1>6, <2>3 DEF PageTyped, RefreshDone, RefreshDenied, RefreshLost, Ends, Save
<1> QED
  BY <1>5, <1>6

\* A grant of a session and its new token.
LEMMA ServeTypes ==
  ASSUME SessionsTypeOK, PageTyped, NEW s \in Session, minted' = minted + 1
  PROVE  Grant(s, NewToken) \in Held' /\ Grant(s, NewToken) \in Grants'
BY Lifetimes DEF SessionsTypeOK, Grant, NewToken, Held, Grants

LEMMA LoginServeTypes ==
  ASSUME SessionsTypeOK, PageTyped, NEW t \in Tab, NEW s \in Session, LoginServe(t, s)
  PROVE  PageTyped'
<1>1. minted' = minted + 1 /\ minted \in Nat
  BY DEF LoginServe, Create, SessionsTypeOK
<1>2. login' = [login EXCEPT ![t] = Grant(s, NewToken)]
  BY DEF LoginServe
<1> QED
  BY <1>1, <1>2, PageWider, ServeTypes DEF LoginServe, PageTyped

LEMMA RefreshServeTypes ==
  ASSUME SessionsTypeOK, PageTyped, NEW f \in flights, RefreshServe(f)
  PROVE  PageTyped'
<1>1. PICK s \in Session :
        /\ Rotate(s, f.token)
        /\ flights' = (flights \ {f}) \cup {[f EXCEPT !.pc = "ok", !.grant = Grant(s, NewToken)]}
  BY DEF RefreshServe, Becomes
<1>2. minted' = minted + 1 /\ minted \in Nat
  BY <1>1 DEF Rotate, SessionsTypeOK
<1>3. f \in Flights' /\ Grant(s, NewToken) \in Held'
  BY <1>2, PageWider, ServeTypes
<1>4. [f EXCEPT !.pc = "ok", !.grant = Grant(s, NewToken)] \in Flights'
  BY <1>3 DEF Flights
<1>5. flights' \subseteq Flights'
  BY <1>1, <1>2, <1>4, PageWider
<1> QED
  BY <1>2, <1>5, PageWider DEF RefreshServe, PageTyped

LEMMA TypesStep ==
  ASSUME SessionsTypeOK, PageTyped, [BrowserNext]_bvars
  PROVE  PageTyped'
<1>1. ASSUME UNCHANGED <<rows, page, traffic>> PROVE PageTyped'
  BY <1>1 DEF PageTyped, Held, Grants, Calls, Flights
<1>2. ASSUME NEW t \in Tab, TabStep(t) PROVE PageTyped'
  <2>1. CASE OpenTab(t) \/ LoginDone(t)
    BY <2>1, TabTypes DEF OpenTab, LoginDone
  <2>2. CASE \E s \in Session : LoginServe(t, s)
    BY <2>2, LoginServeTypes
  <2>3. CASE \E c \in Call : Send(t, c) \/ Answered(t, c) \/ Refused(t, c) \/ Refresh(t, c) \/ Fail(t, c)
    BY <2>3, CallTypes DEF Send, Answered, Refused, Refresh, Fail
  <2> QED
    BY <1>2, <2>1, <2>2, <2>3 DEF TabStep
<1>3. ASSUME NEW f \in flights, FlightStep(f) PROVE PageTyped'
  <2>1. CASE RefreshServe(f)
    BY <2>1, RefreshServeTypes
  <2>2. CASE RefreshReject(f) \/ RefreshDone(f) \/ RefreshDenied(f)
    BY <2>2, FlightTypes DEF RefreshReject, RefreshDone, RefreshDenied, Ends
  <2> QED
    BY <1>3, <2>1, <2>2 DEF FlightStep
<1>4. ASSUME NEW g \in revoking, RevokeServe(g) \/ RevokeLost(g) PROVE PageTyped'
  <2>1. minted' = minted /\ revoking' \subseteq revoking /\ UNCHANGED <<page, call, flights, login>>
    BY <1>4 DEF RevokeServe, RevokeLost, Revoke
  <2> QED
    BY <2>1 DEF PageTyped, Held, Grants, Calls, Flights
<1>5. CASE RoughStep
  <2>1. CASE \E t \in Tab : LoginLost(t) \/ CloseTab(t)
    BY <2>1, TabTypes DEF LoginLost, CloseTab
  <2>2. CASE \E f \in flights : RefreshFails(f) \/ RefreshLost(f)
    BY <2>2, FlightTypes DEF RefreshFails, RefreshLost, Ends
  <2>3. CASE \E g \in revoking : RevokeLost(g)
    BY <2>3, <1>4
  <2> QED
    BY <1>5, <2>1, <2>2, <2>3 DEF RoughStep
<1>6. CASE ClockTick \/ UNCHANGED bvars
  BY <1>1, <1>6 DEF ClockTick, bvars
<1> QED
  BY <1>2, <1>3, <1>4, <1>5, <1>6 DEF BrowserNext, SmoothStep

LEMMA CalmStep == calm \in BOOLEAN /\ [BrowserNext]_bvars => calm' \in BOOLEAN
BY DEF BrowserNext, SmoothStep, RoughStep, bvars

TypesInv == TokensInv /\ PageTyped /\ calm \in BOOLEAN

LEMMA TypesInvariant == BrowserSpec => []TypesInv
<1>1. BrowserInit /\ TokensInv => TypesInv
  BY DEF BrowserInit, PageTyped, Held, Calls, CallPC, NoCall, TypesInv
<1>2. TypesInv /\ TokensInv' /\ [BrowserNext]_bvars => TypesInv'
  BY TypesStep, CalmStep DEF TokensInv, TypesInv
<1> QED
  BY <1>1, <1>2, TokensInvariant, PTL DEF BrowserSpec

\* The tabs and the rows of sessions stay well-typed, and no two sessions have
\* the same token (api.ts, Service.Refresh).
THEOREM BrowserTyped == BrowserSpec => []BrowserTypeOK
<1>1. TypesInv => BrowserTypeOK
  BY DEF TypesInv, TokensInv, PageTyped, BrowserTypeOK
<1> QED
  BY <1>1, TypesInvariant, PTL

-----------------------------------------------------------------------------
(* Whose grant is where                                                    *)

\* While a token is current, it is its own session's.
Own(g) == g # NoGrant => \A s \in Session : hash[s] = g.refresh => s = g.session

Owned ==
  /\ Own(stored)
  /\ \A t \in Tab : Own(held[t]) /\ Own(login[t])
  /\ \A f \in flights : Own(f.grant)

\* Only an open tab calls and refreshes, and a tab that has a session does not
\* ask for another.
TabRules == \A t \in Tab :
  /\ open[t] = "closed" => login[t] = NoGrant /\ held[t] = NoGrant
  /\ open[t] = "open" /\ login[t] # NoGrant => held[t] = NoGrant
  /\ open[t] # "open" => \A c \in Call : call[t][c].pc = "idle"

\* The refresh of a tab is of the token it holds; what came of it.
FlightRules(f) ==
  /\ open[f.tab] = "open" /\ held[f.tab] # NoGrant /\ held[f.tab].refresh = f.token
  /\ f.pc = "ok" => f.grant # NoGrant /\ \A s \in Session : hash[s] # f.token
  /\ f.pc # "ok" => f.grant = NoGrant
  /\ f.pc = "denied" /\ calm => \A s \in Session : Active(s) => hash[s] # f.token

OneFlight == \A f, g \in flights : f.tab = g.tab => f = g

Current(g, s) == g # NoGrant /\ g.session = s /\ g.refresh = hash[s]

\* Who has the current token of a session and will not lose it.
Keeps(s) ==
  \/ \E t \in Tab : open[t] = "open" /\ Current(held[t], s)
  \/ \E t \in Tab : Current(login[t], s)
  \/ \E f \in flights : Current(f.grant, s)

BrowserInv ==
  /\ Owned /\ TabRules /\ OneFlight /\ WaitersServed
  /\ \A f \in flights : FlightRules(f)
  /\ calm => \A s \in Session : Active(s) => Keeps(s)

LEMMA BrowserInvInit == BrowserInit => BrowserInv
BY DEF BrowserInit, SessionsInit, BrowserInv, Owned, Own, TabRules, OneFlight, WaitersServed, Active, NoCall

\* What a step of the server does to tokens: a new one is nobody else's, and
\* none becomes current again.
LEMMA HashMoves ==
  ASSUME TokensInv, RowsMove
  PROVE  /\ minted' \in Nat /\ minted <= minted'
         /\ \A s \in Session : hash'[s] = hash[s] \/ hash'[s] = minted + 1
         /\ \A g \in Grants : Own(g) => Own(g)'
         /\ \A n \in 1..minted : (\A s \in Session : hash[s] # n) => \A s \in Session : hash'[s] # n
<1>1. /\ minted' \in Nat /\ minted <= minted'
      /\ \A s \in Session : hash'[s] = hash[s] \/ hash'[s] = minted + 1
  BY DEF RowsMove, TokensInv, SessionsTypeOK, Create, Rotate, Revoke, NewToken
<1>2. \A n \in 1..minted, s \in Session : hash'[s] = n => hash[s] = n
  BY <1>1 DEF TokensInv, SessionsTypeOK
<1>3. \A g \in Grants : g.refresh \in 1..minted
  BY DEF Grants
<1> QED
  BY <1>1, <1>2, <1>3 DEF Own

\* Time and revocations make no session active.
LEMMA NoneAwakes ==
  ASSUME SessionsTypeOK, time' \in Nat, time <= time', NEW s \in Session,
         UNCHANGED <<hash, until>>, revoked[s] => revoked'[s]
  PROVE  Active(s)' => Active(s)
BY DEF Active, SessionsTypeOK

\* A step that leaves the tabs alone and makes no session active.
LEMMA TabsRest ==
  ASSUME SessionsTypeOK, BrowserInv, UNCHANGED <<page, call, flights, login, hash>>,
         calm' => calm, \A s \in Session : Active(s)' => Active(s)
  PROVE  BrowserInv'
<1>1. Owned' /\ TabRules' /\ OneFlight' /\ WaitersServed'
  BY DEF BrowserInv, Owned, Own, TabRules, OneFlight, WaitersServed
<1>2. \A f \in flights : FlightRules(f)'
  BY DEF BrowserInv, FlightRules
<1>3. \A s \in Session : Keeps(s) => Keeps(s)'
  BY DEF Keeps, Current
<1> QED
  BY <1>1, <1>2, <1>3 DEF BrowserInv

LEMMA RestInv ==
  ASSUME TypesInv, BrowserInv,
         \/ (ClockTick \/ \E g \in revoking : RevokeServe(g)) /\ UNCHANGED calm
         \/ (\E g \in revoking : RevokeLost(g)) /\ calm' = FALSE
         \/ UNCHANGED bvars
  PROVE  BrowserInv'
<1>1. SessionsTypeOK
  BY DEF TypesInv, TokensInv
<1>2. UNCHANGED <<page, call, flights, login, hash, until>> /\ time' \in Nat /\ time <= time' /\ (calm' => calm)
  BY <1>1 DEF SessionsTypeOK, ClockTick, RevokeServe, RevokeLost, Revoke, bvars
<1>3. \A s \in Session : revoked[s] => revoked'[s]
  BY <1>1 DEF SessionsTypeOK, ClockTick, RevokeServe, RevokeLost, Revoke, bvars
<1>4. \A s \in Session : Active(s)' => Active(s)
  BY <1>1, <1>2, <1>3, NoneAwakes
<1> QED
  BY <1>1, <1>2, <1>4, TabsRest

-----------------------------------------------------------------------------
(* The steps of a tab                                                      *)

\* Calls go and come; a call that has to wait finds or starts a refresh.
LEMMA CallInv ==
  ASSUME TypesInv, BrowserInv, NEW t \in Tab, NEW c \in Call, UNCHANGED calm,
         Send(t, c) \/ Answered(t, c) \/ Refused(t, c) \/ Refresh(t, c) \/ Fail(t, c)
  PROVE  BrowserInv'
<1>1. UNCHANGED <<time, rows, page, login, revoking>>
  BY DEF Send, Answered, Refused, Refresh, Fail
<1>2. open[t] = "open"
  BY DEF BrowserInv, TabRules, Send, Answered, Refused, Refresh, Fail
<1>3. \A x \in Tab, d \in Call : <<x, d>> # <<t, c>> => call'[x][d] = call[x][d]
  BY DEF TypesInv, PageTyped, Send, Answered, Refused, Refresh, Fail
<1>4. TabRules'
  BY <1>1, <1>2, <1>3 DEF BrowserInv, TabRules
<1>5. CASE UNCHANGED flights /\ call'[t][c].pc # "waiting"
  <2>1. Owned' /\ OneFlight' /\ WaitersServed'
    BY <1>1, <1>3, <1>5 DEF BrowserInv, Owned, Own, OneFlight, WaitersServed
  <2>2. \A f \in flights : FlightRules(f)'
    BY <1>1 DEF BrowserInv, FlightRules, Active
  <2>3. \A s \in Session : (Active(s)' <=> Active(s)) /\ (Keeps(s)' <=> Keeps(s))
    BY <1>1, <1>5 DEF Active, Keeps, Current
  <2> QED
    BY <1>4, <1>5, <2>1, <2>2, <2>3 DEF BrowserInv
<1>6. CASE Refresh(t, c)
  <2>1. held[t] # NoGrant
    BY <1>6 DEF Refresh, CanRetry
  <2> DEFINE new == [tab |-> t, by |-> c, token |-> held[t].refresh, grant |-> NoGrant, pc |-> "sent"]
  <2>2. \/ UNCHANGED flights /\ \E f \in flights : f.tab = t
        \/ flights' = flights \cup {new} /\ \A f \in flights : f.tab # t
    BY <1>6 DEF Refresh, MayStart
  <2>3. new.tab = t /\ new.token = held[t].refresh /\ new.grant = NoGrant /\ new.pc = "sent"
    OBVIOUS
  <2> HIDE DEF new
  <2>4. \E f \in flights' : f.tab = t
    BY <2>2, <2>3
  <2>5. Owned' /\ OneFlight'
    BY <1>1, <2>2, <2>3 DEF BrowserInv, Owned, Own, OneFlight
  <2>6. WaitersServed'
    BY <1>3, <2>2, <2>4 DEF BrowserInv, WaitersServed
  <2>7. \A f \in flights' : FlightRules(f)'
    BY <1>1, <1>2, <2>1, <2>2, <2>3 DEF BrowserInv, FlightRules, Active
  <2>8. \A s \in Session : (Active(s)' <=> Active(s)) /\ (Keeps(s) => Keeps(s)')
    BY <1>1, <2>2 DEF Active, Keeps, Current
  <2> QED
    BY <1>4, <2>5, <2>6, <2>7, <2>8 DEF BrowserInv
<1>7. ASSUME ~Refresh(t, c) PROVE UNCHANGED flights /\ call'[t][c].pc # "waiting"
  BY <1>7 DEF TypesInv, PageTyped, Calls, NoCall, Send, Answered, Refused, Fail
<1> QED
  BY <1>5, <1>6, <1>7

LEMMA OpenTabInv ==
  ASSUME TypesInv, BrowserInv, NEW t \in Tab, OpenTab(t), UNCHANGED calm
  PROVE  BrowserInv'
<1>1. UNCHANGED <<time, rows, stored, traffic>>
  BY DEF OpenTab
<1>2. /\ open[t] = "closed" /\ open'[t] \in {"boot", "open"} /\ held'[t] = stored
      /\ \A x \in Tab \ {t} : open'[x] = open[x] /\ held'[x] = held[x]
  BY DEF OpenTab, TypesInv, PageTyped
<1>3. \A f \in flights : f.tab # t /\ f.tab \in Tab
  BY <1>2 DEF BrowserInv, FlightRules, TypesInv, PageTyped, Flights
<1>4. Owned' /\ OneFlight' /\ WaitersServed'
  BY <1>1, <1>2 DEF BrowserInv, Owned, Own, OneFlight, WaitersServed
<1>5. TabRules'
  BY <1>1, <1>2 DEF BrowserInv, TabRules
<1>6. \A f \in flights : FlightRules(f)'
  BY <1>1, <1>2, <1>3 DEF BrowserInv, FlightRules, Active
<1>7. \A s \in Session : (Active(s)' <=> Active(s)) /\ (Keeps(s) => Keeps(s)')
  BY <1>1, <1>2 DEF Active, Keeps, Current
<1> QED
  BY <1>1, <1>4, <1>5, <1>6, <1>7 DEF BrowserInv

\* A new session is on its way to the tab that asked for it.
LEMMA LoginServeInv ==
  ASSUME TypesInv, BrowserInv, NEW t \in Tab, NEW s \in Session, LoginServe(t, s), UNCHANGED calm
  PROVE  BrowserInv'
<1>0. PICK new : new = Grant(s, NewToken)
  OBVIOUS
<1>1. UNCHANGED <<time, page, call, flights, revoking>> /\ login' = [login EXCEPT ![t] = new]
  BY <1>0 DEF LoginServe
<1>2. SessionsTypeOK /\ PageTyped /\ minted \in Nat
  BY DEF TypesInv, TokensInv, SessionsTypeOK
<1>3. /\ hash[s] = 0 /\ hash' = [hash EXCEPT ![s] = minted + 1] /\ minted' = minted + 1
      /\ UNCHANGED revoked /\ until' = [until EXCEPT ![s] = time + SessionTTL]
  BY DEF LoginServe, Create, NewToken
<1>4. RowsMove
  BY DEF LoginServe, RowsMove
<1>5. new \in Grants' /\ new # NoGrant /\ new.session = s /\ new.refresh = minted + 1
  <2>1. new \in Grants'
    BY <1>0, <1>2, <1>3, ServeTypes
  <2>2. NoGrant \notin Grants'
    BY <1>2, <1>3, BrowserBounds DEF Grants
  <2> QED
    BY <1>0, <2>1, <2>2 DEF Grant, NewToken
<1>6. \A x \in Session \ {s} : hash'[x] = hash[x] /\ hash[x] # minted + 1
  BY <1>2, <1>3 DEF SessionsTypeOK
<1>7. hash'[s] = minted + 1
  BY <1>2, <1>3 DEF SessionsTypeOK
<1>8. login'[t] = new /\ \A x \in Tab \ {t} : login'[x] = login[x]
  BY <1>1, <1>2 DEF PageTyped
<1>9. Owned'
  <2>1. Own(new)'
    BY <1>5, <1>6 DEF Own
  <2>2. \A g \in Held : Own(g) => Own(g)'
    BY <1>4, HashMoves DEF TypesInv, Held, Own
  <2> QED
    BY <1>1, <1>2, <1>8, <2>1, <2>2 DEF BrowserInv, Owned, PageTyped, Flights
<1>10. TabRules' /\ OneFlight' /\ WaitersServed'
  <2>1. open[t] # "closed" /\ (open[t] = "open" => held[t] = NoGrant)
    BY DEF LoginServe
  <2> QED
    BY <1>1, <1>8, <2>1 DEF BrowserInv, TabRules, OneFlight, WaitersServed
<1>11. \A f \in flights : FlightRules(f)'
  <2> SUFFICES ASSUME NEW f \in flights PROVE FlightRules(f)'
    OBVIOUS
  <2>1. f.token \in 1..minted /\ FlightRules(f)
    BY <1>2 DEF PageTyped, Flights, BrowserInv
  <2>2. \A x \in Session : hash'[x] = f.token => hash[x] = f.token /\ x # s
    BY <1>2, <1>6, <1>7, <2>1
  <2>3. \A x \in Session : hash'[x] = f.token => (Active(x)' <=> Active(x))
    BY <1>1, <1>2, <1>3, <2>2 DEF Active, SessionsTypeOK
  <2> QED
    BY <1>1, <2>1, <2>2, <2>3 DEF FlightRules
<1>12. \A x \in Session \ {s} : (Active(x)' <=> Active(x)) /\ (Keeps(x) => Keeps(x)')
  <2> SUFFICES ASSUME NEW x \in Session \ {s} PROVE (Active(x)' <=> Active(x)) /\ (Keeps(x) => Keeps(x)')
    OBVIOUS
  <2>1. Active(x)' <=> Active(x)
    BY <1>1, <1>2, <1>3, <1>6 DEF Active, SessionsTypeOK
  <2>2. \A y \in Tab : Current(login[y], x) => Current(login'[y], x)
    BY <1>8, <1>5 DEF LoginServe, Current
  <2> QED
    BY <1>1, <1>6, <2>1, <2>2 DEF Keeps, Current
<1>13. Keeps(s)'
  BY <1>5, <1>7, <1>8 DEF Keeps, Current
<1> QED
  BY <1>1, <1>9, <1>10, <1>11, <1>12, <1>13 DEF BrowserInv

\* The tab has its new session.  What a Mini App held before is not lost: the
\* tab that saved it still has it.
LEMMA LoginDoneInv ==
  ASSUME TypesInv, BrowserInv, NEW t \in Tab, LoginDone(t), UNCHANGED calm
  PROVE  BrowserInv'
<1>1. UNCHANGED <<time, rows, call, flights>>
  BY DEF LoginDone
<1>2. /\ login[t] # NoGrant /\ held'[t] = login[t] /\ stored' = login[t]
      /\ open'[t] = "open" /\ login'[t] = NoGrant
      /\ \A x \in Tab \ {t} : open'[x] = open[x] /\ held'[x] = held[x] /\ login'[x] = login[x]
  BY DEF LoginDone, Save, TypesInv, PageTyped
<1>3. \A f \in flights : f.tab # t /\ f.tab \in Tab
  BY <1>2 DEF BrowserInv, FlightRules, TabRules, TypesInv, PageTyped, Flights
<1>4. Owned' /\ OneFlight' /\ WaitersServed'
  BY <1>1, <1>2 DEF BrowserInv, Owned, Own, OneFlight, WaitersServed
<1>5. TabRules'
  BY <1>1, <1>2 DEF BrowserInv, TabRules
<1>6. \A f \in flights : FlightRules(f)'
  BY <1>1, <1>2, <1>3 DEF BrowserInv, FlightRules, Active
<1>7. open[t] = "open" => held[t] = NoGrant
  BY <1>2 DEF BrowserInv, TabRules
<1>8. \A s \in Session : (Active(s)' <=> Active(s)) /\ (Keeps(s) => Keeps(s)')
  <2> SUFFICES ASSUME NEW s \in Session PROVE (Active(s)' <=> Active(s)) /\ (Keeps(s) => Keeps(s)')
    OBVIOUS
  <2>1. ASSUME NEW x \in Tab, open[x] = "open", Current(held[x], s) PROVE Keeps(s)'
    <3>1. x # t
      BY <1>7, <2>1 DEF Current
    <3> QED
      BY <1>1, <1>2, <2>1, <3>1 DEF Keeps, Current
  <2>2. ASSUME NEW x \in Tab, Current(login[x], s) PROVE Keeps(s)'
    BY <1>1, <1>2, <2>2 DEF Keeps, Current
  <2>3. ASSUME NEW f \in flights, Current(f.grant, s) PROVE Keeps(s)'
    BY <1>1, <2>3 DEF Keeps, Current
  <2> QED
    BY <1>1, <2>1, <2>2, <2>3 DEF Active, Keeps
<1> QED
  BY <1>1, <1>4, <1>5, <1>6, <1>8 DEF BrowserInv

LEMMA TabGoesInv ==
  ASSUME TypesInv, BrowserInv, NEW t \in Tab, LoginLost(t) \/ CloseTab(t), calm' = FALSE
  PROVE  BrowserInv'
<1>1. CASE LoginLost(t)
  <2>1. UNCHANGED <<time, rows, stored, held, call, flights, revoking>>
    BY <1>1 DEF LoginLost
  <2>2. /\ login'[t] = NoGrant /\ open'[t] = "open"
        /\ \A x \in Tab \ {t} : open'[x] = open[x] /\ login'[x] = login[x]
    BY <1>1 DEF LoginLost, TypesInv, PageTyped
  <2>3. Owned' /\ OneFlight' /\ WaitersServed' /\ TabRules'
    BY <2>1, <2>2 DEF BrowserInv, Owned, Own, OneFlight, WaitersServed, TabRules
  <2>4. \A f \in flights : FlightRules(f)'
    BY <2>1, <2>2 DEF BrowserInv, FlightRules, TypesInv, PageTyped, Flights
  <2> QED
    BY <2>1, <2>3, <2>4 DEF BrowserInv
<1>2. CASE CloseTab(t)
  <2>1. UNCHANGED <<time, rows, stored, revoking>> /\ flights' = {f \in flights : f.tab # t}
    BY <1>2 DEF CloseTab
  <2>2. /\ login'[t] = NoGrant /\ open'[t] = "closed" /\ held'[t] = NoGrant
        /\ \A c \in Call : call'[t][c] = NoCall
        /\ \A x \in Tab \ {t} : /\ open'[x] = open[x] /\ login'[x] = login[x]
                                /\ held'[x] = held[x] /\ call'[x] = call[x]
    BY <1>2 DEF CloseTab, TypesInv, PageTyped
  <2>3. Owned' /\ OneFlight'
    BY <2>1, <2>2 DEF BrowserInv, Owned, Own, OneFlight
  <2>4. TabRules' /\ WaitersServed'
    BY <2>1, <2>2 DEF BrowserInv, TabRules, WaitersServed, NoCall
  <2>5. \A f \in flights' : FlightRules(f)'
    BY <2>1, <2>2 DEF BrowserInv, FlightRules, TypesInv, PageTyped, Flights
  <2> QED
    BY <2>3, <2>4, <2>5 DEF BrowserInv
<1> QED
  BY <1>1, <1>2

-----------------------------------------------------------------------------
(* The steps of a refresh                                                  *)

\* A refresh hears from the server: its flight is replaced by one that carries
\* the answer, and nothing else in the tabs changes.
LEMMA Heard ==
  ASSUME TypesInv, BrowserInv, NEW f \in flights, NEW g,
         UNCHANGED <<page, call, login>>, flights' = (flights \ {f}) \cup {g},
         g.tab = f.tab, g.token = f.token, f.grant = NoGrant \/ calm' = FALSE, calm' => calm,
         FlightRules(g)', Own(g.grant)', RowsMove,
         \A x \in Session, e \in flights \ {f} : Active(x)' /\ hash'[x] = e.token => Active(x) /\ hash[x] = e.token,
         calm' => \A x \in Session : Active(x)' =>
           Current(g.grant, x)' \/ (Active(x) /\ hash'[x] = hash[x])
  PROVE  BrowserInv'
<1>1. /\ stored \in Held /\ Own(stored)
      /\ \A x \in Tab : held[x] \in Held /\ Own(held[x]) /\ login[x] \in Held /\ Own(login[x])
      /\ \A e \in flights : e.grant \in Held /\ Own(e.grant)
  BY DEF BrowserInv, Owned, TypesInv, PageTyped, Flights
<1>2. \A h \in Held : Own(h) => Own(h)'
  BY HashMoves DEF TypesInv, Held, Own
<1>3. Owned'
  <2>1. Own(stored)' /\ \A x \in Tab : Own(held[x])' /\ Own(login[x])'
    BY <1>1, <1>2 DEF Own
  <2>2. \A e \in flights' : Own(e.grant)'
    BY <1>1, <1>2
  <2> QED
    BY <2>1, <2>2 DEF Owned
<1>4. TabRules' /\ OneFlight'
  BY DEF BrowserInv, TabRules, OneFlight
<1>5. WaitersServed'
  BY DEF BrowserInv, WaitersServed
<1>6. \A e \in flights' : FlightRules(e)'
  <2> SUFFICES ASSUME NEW e \in flights \ {f} PROVE FlightRules(e)'
    OBVIOUS
  <2>1. FlightRules(e) /\ e.token \in 1..minted
    BY DEF BrowserInv, TypesInv, PageTyped, Flights
  <2>2. (\A x \in Session : hash[x] # e.token) => \A x \in Session : hash'[x] # e.token
    BY <2>1, HashMoves DEF TypesInv
  <2> QED
    BY <2>1, <2>2 DEF FlightRules
<1>7. ASSUME calm', NEW x \in Session, Active(x)' PROVE Keeps(x)'
  <2>1. CASE Current(g.grant, x)'
    BY <2>1 DEF Keeps
  <2>2. CASE Active(x) /\ hash'[x] = hash[x]
    <3>1. Keeps(x) /\ f.grant = NoGrant
      BY <1>7, <2>2 DEF BrowserInv
    <3> QED
      BY <2>2, <3>1 DEF Keeps, Current
  <2> QED
    BY <1>7, <2>1, <2>2
<1> QED
  BY <1>3, <1>4, <1>5, <1>6, <1>7 DEF BrowserInv

LEMMA HeardInv ==
  ASSUME TypesInv, BrowserInv, NEW f \in flights,
         \/ (RefreshServe(f) \/ RefreshReject(f)) /\ UNCHANGED calm
         \/ RefreshFails(f) /\ calm' = FALSE
  PROVE  BrowserInv'
<1>1. SessionsTypeOK /\ f \in Flights /\ FlightRules(f)
  BY DEF TypesInv, TokensInv, PageTyped, BrowserInv
<1>2. CASE RefreshServe(f) /\ UNCHANGED calm
  <2>1. PICK s \in Session :
          /\ Rotate(s, f.token)
          /\ flights' = (flights \ {f}) \cup {[f EXCEPT !.pc = "ok", !.grant = Grant(s, NewToken)]}
    BY <1>2 DEF RefreshServe, Becomes
  <2>2. PICK new : new = Grant(s, NewToken)
    OBVIOUS
  <2>3. PICK g : g = [f EXCEPT !.pc = "ok", !.grant = new]
    OBVIOUS
  <2>4. g.tab = f.tab /\ g.token = f.token /\ g.pc = "ok" /\ g.grant = new /\ f.pc = "sent"
    BY <1>1, <1>2, <2>3 DEF Flights, RefreshServe
  <2>5. /\ hash[s] = f.token /\ Active(s) /\ hash' = [hash EXCEPT ![s] = minted + 1]
        /\ minted' = minted + 1 /\ UNCHANGED <<time, until, revoked>> /\ f.token \in 1..minted
    BY <1>1, <1>2, <2>1 DEF Rotate, NewToken, Active, RefreshServe, Flights
  <2>6. hash'[s] = minted + 1 /\ \A x \in Session \ {s} : hash'[x] = hash[x] /\ hash[x] # minted + 1
    BY <1>1, <2>5 DEF SessionsTypeOK
  <2>7. new # NoGrant /\ new.session = s /\ new.refresh = minted + 1
    <3>1. new \in Grants'
      BY <1>1, <2>2, <2>5, ServeTypes DEF TypesInv
    <3>2. NoGrant \notin Grants'
      BY <1>1, <2>5, BrowserBounds DEF Grants, SessionsTypeOK
    <3> QED
      BY <2>2, <3>1, <3>2 DEF Grant, NewToken
  <2>8. \A x \in Session : hash'[x] # f.token
    BY <1>1, <2>5, <2>6 DEF SessionsTypeOK
  <2>9. UNCHANGED <<page, call, login>>
    BY <1>2 DEF RefreshServe
  <2>10. FlightRules(g)'
    BY <1>1, <2>4, <2>7, <2>8, <2>9 DEF FlightRules
  <2>11. Own(g.grant)'
    BY <2>4, <2>6, <2>7 DEF Own
  <2>12. RowsMove
    BY <2>1, <2>5 DEF RowsMove
  <2>13. \A e \in flights : e.token \in 1..minted
    BY DEF TypesInv, PageTyped, Flights
  <2>14. \A x \in Session \ {s} : Active(x)' <=> Active(x)
    BY <2>5, <2>6 DEF Active
  <2>15. \A x \in Session, e \in flights \ {f} : Active(x)' /\ hash'[x] = e.token => Active(x) /\ hash[x] = e.token
    BY <1>1, <2>6, <2>13, <2>14 DEF SessionsTypeOK
  <2>16. Current(g.grant, s)'
    BY <2>4, <2>6, <2>7 DEF Current
  <2>17. f.grant = NoGrant
    BY <1>1, <2>4 DEF FlightRules
  <2>18. flights' = (flights \ {f}) \cup {g}
    BY <2>1, <2>2, <2>3
  <2> QED
    BY <1>2, <2>4, <2>6, <2>9, <2>10, <2>11, <2>12, <2>14, <2>15, <2>16, <2>17, <2>18, Heard
<1>3. CASE RefreshReject(f) /\ UNCHANGED calm
  <2>1. PICK g : g = [f EXCEPT !.pc = "denied"]
    OBVIOUS
  <2>2. UNCHANGED <<time, rows, page, call, login>> /\ flights' = (flights \ {f}) \cup {g} /\ f.pc = "sent"
    BY <1>3, <2>1 DEF RefreshReject, Becomes
  <2>3. f.grant = NoGrant /\ g.tab = f.tab /\ g.token = f.token /\ g.grant = NoGrant /\ g.pc = "denied"
    BY <1>1, <2>1, <2>2 DEF Flights, FlightRules
  <2>4. \A s \in Session : Active(s)' <=> Active(s)
    BY <2>2 DEF Active
  <2>5. \A s \in Session : Active(s) => hash[s] # f.token
    BY <1>3 DEF RefreshReject
  <2>6. FlightRules(g)' /\ Own(g.grant)'
    BY <1>1, <2>2, <2>3, <2>4, <2>5 DEF FlightRules, Own
  <2> QED
    BY <1>3, <2>2, <2>3, <2>4, <2>6, Heard DEF RowsMove
<1>4. CASE RefreshFails(f) /\ calm' = FALSE
  <2>1. PICK g : g = [f EXCEPT !.pc = "denied", !.grant = NoGrant]
    OBVIOUS
  <2>2. UNCHANGED <<time, rows, page, call, login>> /\ flights' = (flights \ {f}) \cup {g}
    BY <1>4, <2>1 DEF RefreshFails, Becomes
  <2>3. g.tab = f.tab /\ g.token = f.token /\ g.grant = NoGrant /\ g.pc = "denied"
    BY <1>1, <2>1 DEF Flights
  <2>4. \A s \in Session : Active(s)' <=> Active(s)
    BY <2>2 DEF Active
  <2>5. FlightRules(g)' /\ Own(g.grant)'
    BY <1>1, <1>4, <2>2, <2>3 DEF FlightRules, Own
  <2> QED
    BY <1>4, <2>2, <2>3, <2>4, <2>5, Heard DEF RowsMove
<1> QED
  BY <1>2, <1>3, <1>4

\* A refresh is over: all calls that waited for it hear of it.
LEMMA OverInv ==
  ASSUME TypesInv, BrowserInv, NEW f \in flights,
         \/ (RefreshDone(f) \/ RefreshDenied(f)) /\ UNCHANGED calm
         \/ RefreshLost(f) /\ calm' = FALSE
  PROVE  BrowserInv'
<1> DEFINE t == f.tab
<1>1. /\ f \in Flights /\ t \in Tab /\ FlightRules(f) /\ open[t] = "open" /\ login[t] = NoGrant
      /\ held \in [Tab -> Held] /\ call \in [Tab -> [Call -> Calls]]
  BY DEF TypesInv, PageTyped, BrowserInv, FlightRules, Flights, TabRules
<1>2. UNCHANGED <<time, rows, open, login, revoking>> /\ flights' = flights \ {f}
  BY DEF RefreshDone, RefreshDenied, RefreshLost, Ends
<1>3. /\ \A c \in Call : call'[t][c].pc # "waiting"
      /\ \A x \in Tab \ {t} : call'[x] = call[x]
  BY <1>1 DEF RefreshDone, RefreshDenied, RefreshLost, Ends, Woken, NoCall
<1>4. \A e \in flights' : e.tab # t /\ e.tab \in Tab
  BY <1>2 DEF TypesInv, PageTyped, Flights, BrowserInv, OneFlight
<1>5. OneFlight' /\ WaitersServed'
  BY <1>2, <1>3 DEF BrowserInv, OneFlight, WaitersServed
<1>6. PICK new : /\ RefreshDone(f) => new = f.grant /\ f.pc = "ok"
                 /\ RefreshDenied(f) => new = NoGrant /\ f.pc = "denied"
                 /\ RefreshLost(f) => new = held[t]
                 /\ held'[t] = new /\ \A x \in Tab \ {t} : held'[x] = held[x]
                 /\ stored' \in {stored, new}
  <2>1. CASE RefreshDone(f)
    BY <1>1, <2>1 DEF RefreshDone, RefreshDenied, RefreshLost, Save, Ends
  <2>2. CASE RefreshDenied(f)
    BY <1>1, <2>2 DEF RefreshDone, RefreshDenied, RefreshLost, Save, Ends
  <2>3. CASE RefreshLost(f) /\ ~RefreshDone(f) /\ ~RefreshDenied(f)
    BY <1>1, <2>3 DEF RefreshLost
  <2> QED
    BY <2>1, <2>2, <2>3
<1>7. Own(new)
  BY <1>1, <1>6 DEF BrowserInv, Owned, Own
<1>8. Owned'
  BY <1>1, <1>2, <1>6, <1>7 DEF BrowserInv, Owned, Own
<1>9. TabRules'
  BY <1>1, <1>2, <1>3, <1>6 DEF BrowserInv, TabRules
<1>10. \A e \in flights' : FlightRules(e)'
  BY <1>2, <1>4, <1>6 DEF BrowserInv, FlightRules, Active
<1>11. ASSUME calm', NEW s \in Session, Active(s)' PROVE Keeps(s)'
  <2>1. Active(s) /\ Keeps(s) /\ hash'[s] = hash[s]
    BY <1>2, <1>11 DEF Active, BrowserInv
  <2>2. ~Current(held[t], s)
    <3>1. CASE RefreshDone(f)
      BY <1>1, <1>6, <3>1 DEF FlightRules, Current
    <3>2. CASE RefreshDenied(f)
      BY <1>1, <1>6, <1>11, <2>1, <3>2 DEF FlightRules, Current
    <3> QED
      BY <1>11, <3>1, <3>2
  <2>3. ASSUME NEW x \in Tab, open[x] = "open", Current(held[x], s) PROVE Keeps(s)'
    BY <1>2, <1>6, <2>1, <2>2, <2>3 DEF Keeps, Current
  <2>4. ASSUME NEW x \in Tab, Current(login[x], s) PROVE Keeps(s)'
    BY <1>2, <2>1, <2>4 DEF Keeps, Current
  <2>5. ASSUME NEW e \in flights, Current(e.grant, s) PROVE Keeps(s)'
    <3>1. CASE e # f
      BY <1>2, <2>1, <2>5, <3>1 DEF Keeps, Current
    <3>2. CASE e = f
      <4>1. RefreshDone(f)
        BY <1>1, <1>6, <1>11, <2>5, <3>2 DEF FlightRules, Current
      <4>2. held'[t] = f.grant /\ open'[t] = "open"
        BY <1>1, <1>2, <1>6, <4>1
      <4> QED
        BY <1>1, <2>1, <2>5, <3>2, <4>2 DEF Keeps, Current
    <3> QED
      BY <3>1, <3>2
  <2> QED
    BY <2>1, <2>3, <2>4, <2>5 DEF Keeps
<1> QED
  BY <1>5, <1>8, <1>9, <1>10, <1>11 DEF BrowserInv

-----------------------------------------------------------------------------
(* The theorems about tabs                                                 *)

LEMMA BrowserInvStep == TypesInv /\ BrowserInv /\ [BrowserNext]_bvars => BrowserInv'
<1> SUFFICES ASSUME TypesInv, BrowserInv, [BrowserNext]_bvars PROVE BrowserInv'
  OBVIOUS
<1>1. CASE SmoothStep
  <2>1. UNCHANGED calm
    BY <1>1 DEF SmoothStep
  <2>2. ASSUME NEW t \in Tab, TabStep(t) PROVE BrowserInv'
    BY <2>1, <2>2, OpenTabInv, LoginDoneInv, LoginServeInv, CallInv DEF TabStep
  <2>3. ASSUME NEW f \in flights, FlightStep(f) PROVE BrowserInv'
    BY <2>1, <2>3, HeardInv, OverInv DEF FlightStep
  <2>4. CASE ClockTick \/ \E g \in revoking : RevokeServe(g)
    BY <2>1, <2>4, RestInv
  <2> QED
    BY <1>1, <2>2, <2>3, <2>4 DEF SmoothStep
<1>2. CASE RoughStep
  <2>1. calm' = FALSE
    BY <1>2 DEF RoughStep
  <2>2. CASE \E t \in Tab : LoginLost(t) \/ CloseTab(t)
    BY <2>1, <2>2, TabGoesInv
  <2>3. CASE \E f \in flights : RefreshFails(f) \/ RefreshLost(f)
    BY <2>1, <2>3, HeardInv, OverInv
  <2>4. CASE \E g \in revoking : RevokeLost(g)
    BY <2>1, <2>4, RestInv
  <2> QED
    BY <1>2, <2>2, <2>3, <2>4 DEF RoughStep
<1>3. CASE UNCHANGED bvars
  BY <1>3, RestInv
<1> QED
  BY <1>1, <1>2, <1>3 DEF BrowserNext

LEMMA BrowserInvariant == BrowserSpec => []BrowserInv
BY BrowserInvInit, BrowserInvStep, TypesInvariant, PTL DEF BrowserSpec

\* A call that waits for a refresh waits for one that is running, whatever is
\* answered, refused or lost (refreshSession).
THEOREM WaitersAreServed == BrowserSpec => []WaitersServed
<1>1. BrowserInv => WaitersServed
  BY DEF BrowserInv
<1> QED
  BY <1>1, BrowserInvariant, PTL

\* While no message is lost and no tab closed, some tab has or is about to get
\* the current token of every active session (api.ts, telegram.ts).
THEOREM NoSessionOrphaned == BrowserSpec => []NoOrphan
<1>1. BrowserInv => NoOrphan
  BY DEF BrowserInv, NoOrphan, Keeps, Current
<1> QED
  BY <1>1, BrowserInvariant, PTL

\* With a network and a server that answer, a tab drops its session only when
\* the server no longer accepts its token (refreshSession).
THEOREM OnlyDeadLost == BrowserSpec => LosesOnlyDead
<1> DEFINE A == calm => \A t \in Tab :
      held[t] # NoGrant /\ open'[t] = "open" /\ held'[t] = NoGrant
      => ~Active(held[t].session) \/ hash[held[t].session] # held[t].refresh
<1>1. TypesInv /\ BrowserInv /\ [BrowserNext]_bvars => [A]_bvars
  <2> SUFFICES ASSUME TypesInv, BrowserInv, BrowserNext, calm, NEW t \in Tab,
                      held[t] # NoGrant, open'[t] = "open", held'[t] = NoGrant
               PROVE  ~Active(held[t].session) \/ hash[held[t].session] # held[t].refresh
    OBVIOUS
  <2>1. held \in [Tab -> Held] /\ open \in [Tab -> {"closed", "boot", "open"}]
    BY DEF TypesInv, PageTyped
  <2>2. held[t].session \in Session
    BY <2>1 DEF Held, Grants
  <2>3. open[t] # "closed"
    BY DEF BrowserInv, TabRules
  <2>4. PICK f \in flights : f.tab = t /\ RefreshDenied(f)
    <3>1. CASE \E f \in flights : RefreshDone(f) \/ RefreshDenied(f)
      <4>1. PICK f \in flights : RefreshDone(f) \/ RefreshDenied(f)
        BY <3>1
      <4>2. FlightRules(f)
        BY DEF BrowserInv
      <4> QED
        BY <2>1, <4>1, <4>2 DEF RefreshDone, RefreshDenied, Save, FlightRules
    <3>2. ASSUME NEW x \in Tab, LoginDone(x) PROVE FALSE
      BY <2>1, <3>2 DEF LoginDone, Save
    <3>3. ASSUME NEW x \in Tab, OpenTab(x) PROVE FALSE
      BY <2>1, <2>3, <3>3 DEF OpenTab
    <3>4. ASSUME NEW x \in Tab, CloseTab(x) PROVE FALSE
      BY <2>1, <2>3, <3>4 DEF CloseTab
    <3>5. CASE UNCHANGED held
      BY <3>5
    <3>6. (\E f \in flights : RefreshDone(f) \/ RefreshDenied(f)) \/ UNCHANGED held
      <4>1. CASE SmoothStep
        <5>1. ASSUME NEW x \in Tab, TabStep(x) PROVE UNCHANGED held
          BY <3>2, <3>3, <5>1 DEF TabStep, LoginServe, Send, Answered, Refused, Refresh, Fail
        <5>2. ASSUME NEW f \in flights, FlightStep(f)
              PROVE  RefreshDone(f) \/ RefreshDenied(f) \/ UNCHANGED held
          BY <5>2 DEF FlightStep, RefreshServe, RefreshReject
        <5> QED
          BY <4>1, <5>1, <5>2 DEF SmoothStep, ClockTick, RevokeServe
      <4>2. CASE RoughStep
        BY <3>4, <4>2 DEF RoughStep, LoginLost, RefreshFails, RefreshLost, RevokeLost
      <4> QED
        BY <4>1, <4>2 DEF BrowserNext
    <3> QED
      BY <3>1, <3>5, <3>6
  <2>5. held[t].refresh = f.token /\ \A s \in Session : Active(s) => hash[s] # f.token
    BY <2>4 DEF BrowserInv, FlightRules, RefreshDenied
  <2> QED
    BY <2>2, <2>5
<1>2. LosesOnlyDead <=> [][A]_bvars
  BY DEF LosesOnlyDead
<1> HIDE DEF A
<1> QED
  BY <1>1, <1>2, TypesInvariant, BrowserInvariant, PTL DEF BrowserSpec
=============================================================================
